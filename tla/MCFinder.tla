------------------------------ MODULE MCFinder ------------------------------
(* Chains for SandwichFinder: eight slots, turns of two; leader 2 has two  *)
(* turns in a row, which the first batch cuts.  1 to 3 are attackers'      *)
(* wallets.                                                                *)
EXTENDS SandwichFinder

FinderSlots == 0..7
Turns == [x \in Slot |-> CASE x \in 0..1 -> 1 [] x \in 2..5 -> 2 [] OTHER -> 3]
NoLegs == [id \in {} |-> {}]
TwoBatches == <<0..3, 4..7>>

Swap(slot, in, who, amount) ==
  [slot |-> slot, kind |-> "swap", in |-> in, signers |-> {who},
   sources |-> {who}, sinks |-> {who}, inline |-> FALSE, multi |-> FALSE,
   paid |-> amount, got |-> amount]

Send(slot, p, q, amount) ==
  [Swap(slot, 2, p, amount) EXCEPT !.kind = "send", !.sinks = {q}]

(* An attacker's swaps with others in between, the later ones both ways,   *)
(* over the turns, the leader of slot 2 perhaps unknown.                   *)
Ascents == {p \in [1..5 -> {0, 2, 4, 6}] :
              p[1] <= 2 /\ \A i \in 1..4 : p[i] <= p[i + 1]}
Patterns == {r \in [1..5 -> {1, 2} \X {1, 9}] :
               /\ r[1] = <<1, 1>> /\ r[5][2] = 1
               /\ r[2][2] = 9 /\ r[4][2] = 9}
TurnWorlds ==
  {[txs |-> [i \in 1..5 |-> Swap(p[i], r[i][1], r[i][2], 10)], known |-> k] :
     p \in Ascents, r \in Patterns, k \in {Slot, Slot \ {2}}}

(* Several fronts and backs whose amounts match alone or together, routes  *)
(* that can be no legs, in one turn and in two.                            *)
Victim == Swap(0, 1, 9, 10)
Swaps ==
  {Swap(0, in, 1, amount) : in \in {1, 2}, amount \in {5, 10}}
    \cup {Victim, [Swap(0, 1, 1, 10) EXCEPT !.multi = TRUE]}
GroupWorlds ==
  {[txs |-> [i \in 1..5 |-> [<<Swap(0, 1, 1, a), q[1], q[2], q[3], Swap(0, 2, 1, b)>>[i]
                               EXCEPT !.slot = IF i < 3 THEN 0 ELSE last]],
    known |-> Slot] :
     a \in {5, 10}, b \in {5, 10}, last \in {0, 2},
     q \in {r \in [1..3 -> Swaps] : \E i \in 1..3 : r[i] = Victim}}

(* Sides linked, or not, by signer, by owner, by a transfer in the front   *)
(* run, in the back run or in between.                                     *)
Fronts == {Swap(0, 1, 1, 10),
           [Swap(0, 1, 1, 10) EXCEPT !.sinks = {2}, !.inline = TRUE]}
Betweens == {Send(0, p[1], p[2], a) :
               p \in {<<1, 2>>, <<1, 3>>, <<2, 3>>}, a \in {5, 10}}
              \cup {[Send(0, 1, 2, 10) EXCEPT !.kind = "failed"]}
Backs ==
  {[Swap(0, 2, who, 10) EXCEPT !.sources = owners, !.sinks = owners] :
     who \in 1..3, owners \in {{1}, {2}, {3}, {1, 2}, {2, 3}}}
    \cup {[Swap(0, 2, 2, 10) EXCEPT !.sources = {owner}, !.inline = TRUE, !.sinks = {9}] :
            owner \in 1..3}
LinkWorlds ==
  {[txs |-> <<f, Swap(0, 1, v, 10), x, b>>, known |-> Slot] :
     f \in Fronts, v \in {2, 9}, x \in Betweens, b \in Backs}

(* Fronts and backs spread over three rotations, two of them or all three  *)
(* making up the amounts.                                                  *)
SpreadWorlds ==
  {[txs |-> <<Swap(0, 1, 1, a[1]), Swap(0, 1, 9, 10), Swap(p, 1, 1, a[2]), Swap(4, 1, 9, 10),
              Swap(q, 2, 1, a[3]), Swap(6, 2, 1, a[4])>>, known |-> Slot] :
     a \in [1..4 -> {5, 10}], p \in {0, 4}, q \in {4, 6}}

(* A cross-leader sandwich takes the middle one of three swaps, which lets *)
(* the first and the last make up one of one leader, in one window only.   *)
GapWorlds ==
  {[txs |-> <<Swap(0, 2, 1, 5), Swap(4, 2, 1, a), Swap(4, 2, 9, 10), Swap(4, 1, 1, 5),
              Swap(4, 1, 1, 3), Swap(4, 1, 1, 7), Swap(5, 1, 9, 10), Swap(6, 2, 1, b)>>,
    known |-> k] :
     a \in {8, 10, 12}, b \in {3, 5, 7}, k \in {Slot, Slot \ {5}}}

FinderWorlds == TurnWorlds \cup GroupWorlds \cup LinkWorlds \cup SpreadWorlds \cup GapWorlds
=============================================================================
