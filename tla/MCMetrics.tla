----------------------------- MODULE MCMetrics -----------------------------
(* Databases for phases 1, 3 and 4.  Slots 0 to 5, two or three            *)
(* transactions each; two slots to an epoch and to the turn of a leader;   *)
(* the range is the epochs 0 and 1.                                        *)
EXTENDS ValidatorPairs

CONSTANT Copies    (* how often a leg row may be there                     *)

Tx == (0..2) \X (0..1)

Sand(id, slot, same, owner, multi, token, profit, ver) ==
  [id |-> id, slot |-> slot, signerSame |-> same, ownerSame |-> owner,
   multi |-> multi, crossLeader |-> slot = 1, tokenA |-> token,
   profit |-> profit, leader |-> 0, ver |-> ver]

Tran(id, type, slot, pos, limitType, limit, actual) ==
  [id |-> id, type |-> type, slot |-> slot, pos |-> pos,
   signers |-> IF type = "frontRun" THEN <<2, 1>> ELSE <<1>>,
   fee |-> 1, limitType |-> limitType, limit |-> limit, actual |-> actual,
   ver |-> 1, copies |-> 1]

SlotRows == (0..5) \X {2} \cup {<<1, 1>>}

World(category, leader, sands, legs, verdicts) ==
  [category |-> category, crossLeader |-> leader, sandwiches |-> sands,
   legs |-> legs, slotTxs |-> SlotRows, verdicts |-> verdicts,
   leaders |-> [slot \in 0..5 |-> 1 + ((slot \div 2) % 2)], bots |-> {1, 2, 3}]

(* Legs anywhere on three slots, every front run before every victim and   *)
(* every victim before every back run.                                     *)
TxBefore(p, q) == p[1] < q[1] \/ (p[1] = q[1] /\ p[2] < q[2])
Layouts ==
  {r \in [Tx -> {"frontRun", "victim", "backRun", "none"}] :
     /\ \A t \in {"frontRun", "victim", "backRun"} : \E p \in Tx : r[p] = t
     /\ \A p, q \in Tx :
          (r[p] = "frontRun" /\ r[q] \in {"victim", "backRun"}) \/
          (r[p] = "victim" /\ r[q] = "backRun") => TxBefore(p, q)}
GapWorlds ==
  {World("multi_split", "include", {Sand(1, 0, TRUE, TRUE, TRUE, "SOL", 3, 1)},
         {Tran(1, r[p], p[1], p[2], "output", 2, 4) : p \in {q \in Tx : r[q] # "none"}}, {}) :
     r \in Layouts}

(* Two victims with amounts of every kind.                                 *)
Amounts == {"output", "input", ""} \X {-1, 0, 1, 4} \X {0, 1, 4, 5}
SCWorlds ==
  {World("standard", "include", {Sand(1, 0, TRUE, TRUE, FALSE, "SOL", 3, 1)},
         {Tran(1, "frontRun", 0, 0, "", 0, 0), Tran(1, "backRun", 1, 1, "", 0, 0),
          Tran(1, "victim", 0, 1, a[1], a[2], a[3]),
          Tran(1, "victim", 1, 0, b[1], b[2], b[3])}, {}) :
     a \in Amounts, b \in Amounts}

(* Two sandwiches on all slots and borders, of all categories, one with a  *)
(* conflicting second row, the victims of the other perhaps lost.          *)
EpochWorlds ==
  {World(c, leader,
         {Sand(1, i, same, TRUE, FALSE, "SOL", 3, 1),
          Sand(1, i, same, TRUE, FALSE, "SOL", 2, 2),
          Sand(2, j, same, same, FALSE, "X", profit, 1)},
         {[Tran(1, "frontRun", i, 0, "", 0, 0) EXCEPT !.copies = n],
          Tran(1, "victim", i, 1, "output", 2, 4),
          Tran(1, "backRun", i + 1, 0, "", 0, 0),
          Tran(2, "frontRun", j, 0, "", 0, 0)}
           \cup (IF whole THEN {Tran(2, "victim", j, 1, "", 0, 0)} ELSE {}),
         {1, 2}) :
     c \in {"standard", "diff_signer_owner", "diff_signer_transfer"},
     leader \in {"include", "exclude", "only"},
     i \in 0..4, j \in 0..4, same \in BOOLEAN, profit \in {-1, 3},
     whole \in BOOLEAN, n \in Copies}

(* One sandwich within the double rotation of its front run, under every   *)
(* schedule of three turns, rows of slot_leaders perhaps missing; what the *)
(* detector stored of the front leader is empty, right or wrong.           *)
Turns == {[slot \in 0..5 |-> <<a, b, c>>[1 + slot \div 2]] :
            a \in {1}, b \in 1..3, c \in 1..2}
Schedules ==
  {[slot \in 0..5 \ gone |-> t[slot]] : t \in Turns, gone \in {{}, {1}, {4, 5}}}

(* <<front, victim, victim, back>>                                         *)
Spans ==
  {s \in (0..3) \X (0..5) \X (0..5) \X (0..5) :
     /\ s[1] <= s[2] /\ s[2] <= s[3] /\ s[3] <= s[4]
     /\ s[4] \div 2 <= (s[1] \div 2) + 1}

GeometryWorlds ==
  {[World("standard", "include",
          {[Sand(1, s[1], TRUE, TRUE, FALSE, "SOL", 3, 1) EXCEPT !.leader = stored]},
          {Tran(1, "frontRun", s[1], 0, "", 0, 0), Tran(1, "victim", s[2], 1, "", 0, 0),
           Tran(1, "victim", s[3], 2, "", 0, 0), Tran(1, "backRun", s[4], 3, "", 0, 0)},
          {}) EXCEPT !.leaders = sched, !.slotTxs = (0..5) \X {4}] :
     s \in Spans, sched \in Schedules, stored \in {0, 2}}

(* Sandwiches of three bots on every slot, under runs of every length.     *)
PairWorlds ==
  {[World("standard", "include",
          {Sand(10 * p[1] + p[2], p[1], TRUE, TRUE, FALSE, "SOL", 3, 1) : p \in S},
          UNION {{[Tran(10 * p[1] + p[2], type, p[1], pos, "", 0, 0) EXCEPT !.signers = <<p[2]>>] :
                    <<type, pos>> \in {<<"frontRun", 0>>, <<"victim", 1>>, <<"backRun", 2>>}} :
                 p \in S},
          {}) EXCEPT !.leaders = sched, !.slotTxs = (0..5) \X {4}] :
     S \in {T \cup {<<3, 3>>} : T \in SUBSET ((0..3) \X (1..2))},
     sched \in {s \in [0..3 -> 1..3] : s[0] = 1 /\ s[1] <= 2 /\ s[2] # 1}}

MCWorlds == GapWorlds \cup SCWorlds \cup EpochWorlds \cup PairWorlds
              \cup GeometryWorlds
MCPrice == [token \in {"SOL"} |-> 2]
=============================================================================
