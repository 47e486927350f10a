------------------------------ MODULE MCStream ------------------------------
(***************************************************************************)
(* Values for the constants of SandwichStream that a cfg cannot write.     *)
(* Leaders have turns of two slots; leader 2 has two turns in a row.       *)
(***************************************************************************)
EXTENDS SandwichStream

Slots == 0..11
(* The live command stays LatestGap behind the tip.                        *)
LiveSlots == 0..15

Schedule == [x \in Slot |-> CASE x \in 0..1 -> 1
                              [] x \in 2..5 -> 2
                              [] x \in 6..7 -> 3
                              [] x \in 8..9 -> 1
                              [] OTHER -> 4]

(* Within a block, a turn, two turns; across a batch; front to back over   *)
(* two leaders with and without a leg in between.                          *)
Legs ==
  [in1 |-> {1}, in7 |-> {7}, turn |-> {3, 4}, cross |-> {0, 3},
   wide |-> {2, 5, 7}, batch |-> {7, 8}, end |-> {8, 11}]
=============================================================================
