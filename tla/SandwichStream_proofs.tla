----------------------- MODULE SandwichStream_proofs -----------------------
(***************************************************************************)
(* Theorems about the tables SandwichStream writes, for every chain, batch *)
(* and cache size, and whatever blocks are missing or statements fail.     *)
(***************************************************************************)
EXTENDS SandwichStream, Rotations, SequenceTheorems

(* Rounding up to a leader's turn never goes back: a live command that     *)
(* jumps forward stays ahead of what it has recorded (utils.go:39-50).     *)
LEMMA AlignForward ==
  ASSUME NEW x \in Nat
  PROVE  Align(x) \in Nat /\ Align(x) >= x
<1>1. Span \in Nat /\ Span > 0
  BY WindowAssumption
<1>2. x + Span - 1 \in Nat
  BY <1>1
<1> DEFINE q == (x + Span - 1) \div Span
           r == (x + Span - 1) % Span
<1>3. q \in Nat /\ r \in 0..(Span - 1) /\ x + Span - 1 = Span * q + r
  BY <1>1, <1>2, Z3
<1>4. q * Span \in Nat /\ q * Span >= x
  BY <1>1, <1>3
<1> QED
  BY <1>4 DEF Align

-----------------------------------------------------------------------------
(* A slot gets its row from the batch it was fetched in.  Batches do not   *)
(* overlap because each starts at or after s; the retry pass asks only for *)
(* slots without a row.                                                    *)
BatchIsNew ==
  /\ blocks \subseteq Slot
  /\ pc \in {"fetch", "done"} => blocks = {}
  /\ \A x \in blocks : slotTxs[x] = 0 /\ x < s /\ x \notin failed

RowsArePast ==
  \A x \in Slot : /\ slotTxs[x] <= 1
                  /\ slotTxs[x] > 0 => x < s /\ x \notin failed

RowInv ==
  /\ s \in Nat /\ tip \in Nat
  /\ slotTxs \in [Slot -> Nat]
  /\ \A x \in failed : x \in Nat /\ x < s
  /\ BatchIsNew /\ RowsArePast

(* The next batch never starts before the end of the last one.             *)
LEMMA NextLiveForward ==
  ASSUME s \in Nat, tip \in Nat
  PROVE  NextLive \in Nat /\ NextLive >= s
<1>1. MaxGap \in Nat
  BY StreamAssumption
<1>2. CASE s + MaxGap < tip
  <2>1. tip - MaxGap \in Nat /\ tip - MaxGap > s
    BY <1>1, <1>2
  <2> QED
    BY <2>1, <1>2, AlignForward DEF NextLive
<1>3. CASE ~(s + MaxGap < tip)
  BY <1>3 DEF NextLive
<1> QED
  BY <1>2, <1>3

LEMMA RowInit == Init => RowInv
<1> SUFFICES ASSUME Init PROVE RowInv
  OBVIOUS
<1>1. s \in Nat /\ tip \in Nat
  <2>1. FirstTip \in Nat /\ Start \in Nat /\ MaxGap \in Nat
    BY StreamAssumption
  <2>2. CASE Start + MaxGap < FirstTip \/ Start > FirstTip
    <3>1. FirstTip - MaxGap \in Nat
      BY <2>1, <2>2, StreamAssumption
    <3> QED
      BY <2>1, <2>2, <3>1, AlignForward DEF Init, LiveStart
  <2>3. CASE ~(Start + MaxGap < FirstTip \/ Start > FirstTip)
    BY <2>1, <2>3, AlignForward DEF Init, LiveStart
  <2> QED
    BY <2>2, <2>3
<1>2. slotTxs = [x \in Slot |-> 0] /\ blocks = {} /\ failed = {}
  BY DEF Init
<1> QED
  BY <1>1, <1>2 DEF RowInv, BatchIsNew, RowsArePast

LEMMA RowStep == RowInv /\ [Next]_vars => RowInv'
<1> SUFFICES ASSUME RowInv, [Next]_vars PROVE RowInv'
  OBVIOUS
<1> USE DEF RowInv, BatchIsNew, RowsArePast
<1>1. Slot \subseteq Nat /\ BatchNum \in Nat /\ BatchNum > 0
      /\ Produced \subseteq Slot /\ EndSlot \in Nat
  BY WindowAssumption, StreamAssumption
<1>2. CASE TipAdvances
  BY <1>1, <1>2 DEF TipAdvances, batchVars, tables
<1>3. CASE FetchLive
  <2>1. NextLive \in Nat /\ NextLive >= s
    BY NextLiveForward
  <2>2. PICK got \in Answers(NextLive..(NextLive + BatchNum - 1)) : blocks' = got
    BY <1>3 DEF FetchLive
  <2>3. \A x \in got : x \in Slot /\ x \in Nat /\ ~(x < s) /\ x < s'
    BY <1>1, <1>3, <2>1, <2>2 DEF FetchLive, Answers
  <2>4. s' \in Nat /\ s' >= s
    BY <1>1, <1>3, <2>1 DEF FetchLive
  <2>5. pc' = "scan" /\ UNCHANGED <<tip, failed, slotTxs>>
    BY <1>3 DEF FetchLive, tables
  <2>6. ASSUME NEW x \in got PROVE slotTxs[x] = 0 /\ x \notin failed
    <3>1. x \in Slot /\ x \in Nat /\ ~(x < s)
      BY <2>3
    <3>2. slotTxs[x] \in Nat /\ ~(slotTxs[x] > 0)
      BY <3>1
    <3> QED
      BY <3>1, <3>2
  <2>7. \A x \in failed : x \in Nat /\ x < s'
    BY <1>1, <2>4
  <2> QED
    BY <1>1, <2>2, <2>3, <2>4, <2>5, <2>6, <2>7
<1>4. CASE FetchBackfill
  <2> DEFINE slots == s..EndSlot \cap s..(s + BatchNum - 1)
  <2>1. PICK got \in Answers(slots) :
          blocks' = got /\ failed' = failed \cup Missing(slots, got)
    BY <1>4 DEF FetchBackfill
  <2>2. s' = s + BatchNum /\ pc' = "scan" /\ UNCHANGED <<tip, slotTxs>>
    BY <1>4 DEF FetchBackfill, tables
  <2>3. \A x \in slots : x \in Nat /\ x >= s /\ x < s'
    BY <1>1, <2>2
  <2>4. got \subseteq slots /\ got \subseteq Slot
    BY <1>1, <2>1 DEF Answers
  <2>5. \A x \in got : slotTxs[x] = 0 /\ x < s' /\ x \notin failed'
    BY <1>1, <2>1, <2>3, <2>4 DEF Missing
  <2>6. \A x \in failed' : x \in Nat /\ x < s'
    <3>1. \A x \in failed : x \in Nat /\ x < s'
      BY <1>1, <2>2, <2>1
    <3> QED
      BY <3>1, <2>1, <2>3 DEF Missing
  <2>7. \A x \in Slot : slotTxs[x] > 0 => x < s' /\ x \notin failed'
    BY <1>1, <2>1, <2>2, <2>3 DEF Missing
  <2>8. BatchIsNew'
    BY <2>1, <2>2, <2>4, <2>5
  <2>9. RowsArePast'
    BY <2>2, <2>7
  <2>10. s' \in Nat /\ tip' \in Nat /\ slotTxs' \in [Slot -> Nat]
    BY <1>1, <2>2
  <2> QED
    BY <2>6, <2>8, <2>9, <2>10
<1>5. CASE FetchRetry
  <2>1. PICK got \in Answers(failed) : blocks' = got
    BY <1>5 DEF FetchRetry
  <2>2. failed' = {} /\ pc' = "scan" /\ UNCHANGED <<s, tip, slotTxs>>
    BY <1>5 DEF FetchRetry, tables
  <2>3. got \subseteq failed /\ got \subseteq Slot
    BY <1>1, <2>1 DEF Answers
  <2>4. \A x \in got : slotTxs[x] = 0 /\ x < s
    BY <1>1, <2>3
  <2> QED
    BY <2>1, <2>2, <2>3, <2>4
<1>6. CASE Exit
  BY <1>6 DEF Exit, batchVars, tables
<1>7. CASE Scan
  BY <1>7 DEF Scan, batchVars, tables
<1>8. ASSUME NEW id \in Sandwich, Report(id)
      PROVE  RowInv'
  BY <1>8 DEF Report, batchVars, tables
<1>9. CASE InsertSandwiches
  BY <1>9 DEF InsertSandwiches, AfterError, batchVars
<1>10. CASE InsertSandwichTxs
  BY <1>10 DEF InsertSandwichTxs, batchVars
<1>11. CASE InsertSlotTxs
  <2>1. blocks' = {} /\ UNCHANGED <<s, tip, failed>>
    BY <1>11 DEF InsertSlotTxs
  <2>2. CASE slotTxs' = Inserted(slotTxs, blocks)
    <3>1. slotTxs' \in [Slot -> Nat]
      BY <2>2 DEF Inserted
    <3>2. \A x \in Slot : slotTxs'[x] = slotTxs[x] + (IF x \in blocks THEN 1 ELSE 0)
      BY <2>2 DEF Inserted
    <3>3. \A x \in Slot : /\ slotTxs'[x] <= 1
                          /\ slotTxs'[x] > 0 => x < s /\ x \notin failed
      BY <3>2
    <3> QED
      BY <2>1, <3>1, <3>3
  <2>3. CASE UNCHANGED slotTxs
    BY <2>1, <2>3
  <2> QED
    BY <1>11, <2>2, <2>3 DEF InsertSlotTxs
<1>12. CASE UNCHANGED vars
  BY <1>12 DEF vars, batchVars, tables
<1> QED
  BY <1>2, <1>3, <1>4, <1>5, <1>6, <1>7, <1>8, <1>9, <1>10, <1>11, <1>12
     DEF Next, Work

(* No slot is recorded twice, live or in a backfill, whatever is missing,  *)
(* retried or jumped over (sandwich.go:44-71, 360-383, backfill.go:147).   *)
THEOREM SlotRecordedOnce == Spec => []RowsWrittenOnce
<1>1. RowInv => RowsWrittenOnce
  BY DEF RowInv, RowsArePast, RowsWrittenOnce
<1> QED
  BY RowInit, RowStep, <1>1, PTL DEF Spec

-----------------------------------------------------------------------------
(* The transactions of a batch are stored after its sandwiches, and only   *)
(* if these were.                                                          *)
ParentsFirst ==
  /\ sandwiches \in [Sandwich -> Nat] /\ sandwichTxs \in [Sandwich -> Nat]
  /\ NoOrphanTxs
  /\ pc = "txs" => \A id \in result \cap Sandwich :
                      sandwichTxs[id] < sandwiches[id]

LEMMA ParentsStep == ParentsFirst /\ [Next]_vars => ParentsFirst'
<1> SUFFICES ASSUME ParentsFirst, [Next]_vars PROVE ParentsFirst'
  OBVIOUS
<1> USE DEF ParentsFirst, NoOrphanTxs
<1>1. CASE InsertSandwiches
  <2>1. UNCHANGED <<sandwichTxs, result>>
    BY <1>1 DEF InsertSandwiches, scanVars
  <2>2. CASE pc' = "status" /\ UNCHANGED sandwiches
    BY <2>1, <2>2
  <2>3. CASE sandwiches' = Inserted(sandwiches, result)
    <3>1. \A id \in Sandwich :
            sandwiches'[id] = sandwiches[id] + (IF id \in result THEN 1 ELSE 0)
      BY <2>3 DEF Inserted
    <3>2. sandwiches' \in [Sandwich -> Nat]
      BY <2>3 DEF Inserted
    <3>3. \A id \in Sandwich :
            /\ sandwichTxs[id] <= sandwiches'[id]
            /\ id \in result => sandwichTxs[id] < sandwiches'[id]
      BY <3>1
    <3> QED
      BY <2>1, <3>2, <3>3
  <2> QED
    BY <1>1, <2>2, <2>3 DEF InsertSandwiches, AfterError
<1>2. CASE InsertSandwichTxs
  <2>1. pc = "txs" /\ pc' = "status" /\ UNCHANGED sandwiches
    BY <1>2 DEF InsertSandwichTxs
  <2>2. CASE sandwichTxs' = Inserted(sandwichTxs, result)
    <3>1. \A id \in Sandwich :
            sandwichTxs'[id] = sandwichTxs[id] + (IF id \in result THEN 1 ELSE 0)
      BY <2>2 DEF Inserted
    <3>2. sandwichTxs' \in [Sandwich -> Nat]
      BY <2>2 DEF Inserted
    <3>3. \A id \in Sandwich : sandwichTxs'[id] <= sandwiches[id]
      BY <2>1, <3>1
    <3> QED
      BY <2>1, <3>2, <3>3
  <2>3. CASE UNCHANGED sandwichTxs
    BY <2>1, <2>3
  <2> QED
    BY <1>2, <2>2, <2>3 DEF InsertSandwichTxs
<1>3. CASE InsertSlotTxs
  BY <1>3 DEF InsertSlotTxs
<1>4. CASE TipAdvances
  BY <1>4 DEF TipAdvances, tables, scanVars
<1>5. CASE FetchLive \/ FetchBackfill \/ FetchRetry \/ Exit \/ Scan
  <2>1. pc' # "txs" /\ UNCHANGED <<sandwiches, sandwichTxs>>
    BY <1>5 DEF FetchLive, FetchBackfill, FetchRetry, Exit, Scan, tables
  <2> QED
    BY <2>1
<1>6. ASSUME NEW id \in Sandwich, Report(id)
      PROVE  ParentsFirst'
  BY <1>6 DEF Report, tables
<1>7. CASE UNCHANGED vars
  BY <1>7 DEF vars, tables, scanVars
<1> QED
  BY <1>1, <1>2, <1>3, <1>4, <1>5, <1>6, <1>7 DEF Next, Work

(* Whatever INSERT fails, no transaction is stored for a sandwich that is  *)
(* not (sandwich.go:325-358).                                              *)
THEOREM NoTransactionWithoutSandwich == Spec => []NoOrphanTxs
<1>1. Init => ParentsFirst
  BY DEF Init, ParentsFirst, NoOrphanTxs
<1>2. ParentsFirst => NoOrphanTxs
  BY DEF ParentsFirst
<1> QED
  BY <1>1, <1>2, ParentsStep, PTL DEF Spec

-----------------------------------------------------------------------------
(* Overlapping windows do not compete for a sandwich: at most one of those *)
(* scanned together owns it, so it is reported once per batch              *)
(* (sandwich.go:207-209, 236-239).                                         *)
THEOREM OneOwner ==
  ASSUME NEW S \in SUBSET Slot, NEW known,
         NEW v \in Windows(S, known), NEW w \in Windows(S, known),
         NEW id \in Owned(v) \cap Owned(w)
  PROVE  v = w
<1> DEFINE starts == Breaks(S, known)
<1>1. S \in SUBSET Nat /\ starts \in SUBSET S
  BY WindowAssumption DEF Breaks
<1>2. PICK b \in starts :
        v = [left |-> RotationAt(S, starts, b),
             right |-> Successor(S, starts, RotationAt(S, starts, b))]
  BY DEF Windows
<1>3. PICK c \in starts :
        w = [left |-> RotationAt(S, starts, c),
             right |-> Successor(S, starts, RotationAt(S, starts, c))]
  BY DEF Windows
<1>4. Earliest(LegsOf[id]) \in RotationAt(S, starts, b)
                              \cap RotationAt(S, starts, c)
  BY <1>2, <1>3 DEF Owned
<1>5. b = c
  BY <1>1, <1>4, RotationsDisjoint
<1> QED
  BY <1>2, <1>3, <1>5

-----------------------------------------------------------------------------
(* The blocks of a batch in the order of their slots.                      *)

LEMMA AscendingBlocks ==
  ASSUME NEW S \in SUBSET Slot
  PROVE  /\ Ascending(S) \in Seq(S) /\ Len(Ascending(S)) = Cardinality(S)
         /\ Cardinality(S) \in Nat
         /\ Elems(Ascending(S)) = S
         /\ \A i, j \in 1..Cardinality(S) : i < j => Ascending(S)[i] < Ascending(S)[j]
<1> DEFINE n == Cardinality(S)
           A == Ascending(S)
<1>1. S \in SUBSET Nat /\ IsFiniteSet(S) /\ n \in Nat
  BY WindowAssumption, FS_Subset, FS_CardinalityType
<1>2. \A i \in 1..n : A[i] \in S /\ Cardinality(Before(S, A[i])) = i - 1
  BY <1>1, EveryRank DEF Ascending
<1>3. A = [i \in 1..n |-> A[i]]
  BY DEF Ascending
<1>4. A \in [1..n -> S]
  BY <1>2, <1>3
<1>5. A \in Seq(S) /\ Len(A) = n
  BY <1>1, <1>4
<1>6. ASSUME NEW x \in S PROVE \E i \in 1..n : A[i] = x
  <2>1. Cardinality(Before(S, x)) \in 0..(n - 1)
    BY <1>1, RankIsInjective
  <2> DEFINE i == Cardinality(Before(S, x)) + 1
  <2>2. i \in 1..n /\ Cardinality(Before(S, x)) = i - 1
    BY <1>1, <2>1
  <2> HIDE DEF i
  <2>3. A[i] \in S /\ Cardinality(Before(S, A[i])) = Cardinality(Before(S, x))
    BY <1>2, <2>2
  <2> HIDE DEF A
  <2>4. A[i] \in Nat /\ x \in Nat /\ Cardinality(Before(S, x)) \in Nat
    <3>1. Cardinality(Before(S, x)) \in Nat
      BY <1>1, <2>1
    <3>2. S \in SUBSET Nat /\ x \in S /\ A[i] \in S
      BY <1>1, <2>3
    <3> QED
      BY ONLY <3>1, <3>2
  <2>5. ~(A[i] < x)
    BY <1>1, <2>3, <2>4, RankIsInjective
  <2>6. ~(x < A[i])
    BY <1>1, <2>3, <2>4, RankIsInjective
  <2>7. A[i] = x
    BY <2>4, <2>5, <2>6
  <2> QED
    BY <2>2, <2>7
<1>7. Elems(A) = S
  BY <1>4, <1>6 DEF Elems
<1>8. ASSUME NEW i \in 1..n, NEW j \in 1..n, i < j PROVE A[i] < A[j]
  <2>1. A[i] \in S /\ A[j] \in S /\ A[i] \in Nat /\ A[j] \in Nat
    BY <1>1, <1>2
  <2>2. A[i] # A[j]
    BY <1>2, <1>8
  <2>3. ~(A[j] < A[i])
    <3> SUFFICES ASSUME A[j] < A[i] PROVE FALSE
      OBVIOUS
    <3>1. Cardinality(Before(S, A[j])) < Cardinality(Before(S, A[i]))
      BY <1>1, <2>1, RankIsInjective
    <3> QED
      BY <1>2, <1>8, <3>1
  <2> QED
    BY <2>1, <2>2, <2>3
<1> QED
  BY <1>1, <1>5, <1>7, <1>8

(* The ring drops as many of the oldest blocks as it must.                 *)
Dropped(q, S) ==
  IF Len(q) + Cardinality(S) > CacheSize THEN Len(q) + Cardinality(S) - CacheSize ELSE 0

LEMMA RingOfBlocks ==
  ASSUME NEW q \in Seq(Slot), Len(q) <= CacheSize, NEW S \in SUBSET Slot
  PROVE  LET d == Dropped(q, S)
             n == Len(q) + Cardinality(S) - d
         IN  /\ d \in Nat /\ n \in Nat /\ n <= CacheSize
             /\ PutAll(q, S) \in Seq(Slot) /\ Len(PutAll(q, S)) = n
             /\ \A i \in 1..n :
                  PutAll(q, S)[i] = IF i + d <= Len(q) THEN q[i + d]
                                    ELSE Ascending(S)[i + d - Len(q)]
<1> DEFINE A == Ascending(S)
           c == Cardinality(S)
           all == q \o A
           d == Dropped(q, S)
           n == Len(q) + c - d
<1>1. /\ A \in Seq(Slot) /\ Len(A) = c /\ c \in Nat /\ Len(q) \in Nat
      /\ CacheSize \in Nat
  <2>1. A \in Seq(S) /\ Len(A) = c /\ c \in Nat
    BY AscendingBlocks
  <2>2. A \in Seq(Slot)
    BY <2>1, SeqMonotonic
  <2> QED
    BY <2>1, <2>2, StreamAssumption
<1> HIDE DEF A, c
<1>2. /\ all \in Seq(Slot) /\ Len(all) = Len(q) + c
      /\ \A i \in 1..(Len(q) + c) :
           all[i] = IF i <= Len(q) THEN q[i] ELSE A[i - Len(q)]
  BY <1>1, ConcatProperties
<1>3. d \in Nat /\ n \in Nat /\ n <= CacheSize /\ d + n = Len(q) + c
  BY <1>1 DEF Dropped, c
<1>4. PutAll(q, S) = SubSeq(all, d + 1, Len(all))
  <2>1. (IF Len(all) > CacheSize THEN Len(all) - CacheSize + 1 ELSE 1) = d + 1
    BY <1>1, <1>2 DEF Dropped, c
  <2> QED
    BY <2>1 DEF PutAll, A
<1> HIDE DEF all, d
<1>5. \A i \in (d + 1)..Len(all) : all[i] \in Slot
  BY <1>1, <1>2, <1>3, ElementOfSeq
<1> DEFINE sub == SubSeq(all, d + 1, Len(all))
<1>6. /\ sub \in Seq(Slot)
      /\ Len(sub) = IF d + 1 <= Len(all) THEN Len(all) - (d + 1) + 1 ELSE 0
      /\ \A i \in 1..(Len(all) - (d + 1) + 1) : sub[i] = all[d + 1 + i - 1]
  <2>1. d + 1 \in Int /\ Len(all) \in Int
    BY <1>1, <1>2, <1>3
  <2> QED
    BY ONLY <1>5, <2>1, SubSeqProperties
<1> HIDE DEF sub
<1>7. PutAll(q, S) = sub
  BY <1>4 DEF sub
<1>8. Len(PutAll(q, S)) = n
  <2>1. Len(all) = d + n /\ d \in Nat /\ n \in Nat
    BY <1>2, <1>3
  <2> HIDE DEF n
  <2>2. Len(sub) = n
    BY <1>6, <2>1
  <2> QED
    BY <1>7, <2>2
<1>9. ASSUME NEW i \in 1..n
      PROVE  PutAll(q, S)[i] = IF i + d <= Len(q) THEN q[i + d] ELSE A[i + d - Len(q)]
  <2>1. i \in 1..(Len(all) - (d + 1) + 1) /\ d + 1 + i - 1 = i + d
    BY <1>1, <1>2, <1>3
  <2>2. PutAll(q, S)[i] = all[i + d]
    BY <1>6, <1>7, <2>1
  <2>3. i + d \in 1..(Len(q) + c)
    BY <1>1, <1>3
  <2> HIDE DEF n
  <2>4. all[i + d] = IF i + d <= Len(q) THEN q[i + d] ELSE A[i + d - Len(q)]
    BY <1>1, <1>2, <1>3, <2>3
  <2> QED
    BY <2>2, <2>4
<1> QED
  BY <1>3, <1>6, <1>7, <1>8, <1>9 DEF A, c, d

(* A ring without repeated blocks that gets new ones.                      *)
NoRepeats(q) == \A i, j \in DOMAIN q : q[i] = q[j] => i = j

LEMMA RingKeepsTheLast ==
  ASSUME NEW q \in Seq(Slot), Len(q) <= CacheSize, NoRepeats(q),
         NEW S \in SUBSET Slot, S \cap Elems(q) = {}
  PROVE  /\ NoRepeats(PutAll(q, S))
         /\ Elems(PutAll(q, S)) \subseteq Elems(q) \cup S
         /\ \A i \in DOMAIN q : /\ i <= Dropped(q, S) => q[i] \notin Elems(PutAll(q, S))
                                /\ i > Dropped(q, S) => q[i] \in Elems(PutAll(q, S))
<1> DEFINE r == PutAll(q, S)
           A == Ascending(S)
           c == Cardinality(S)
           d == Dropped(q, S)
           n == Len(q) + c - d
<1>1. /\ d \in Nat /\ n \in Nat /\ r \in Seq(Slot) /\ Len(r) = n
      /\ \A i \in 1..n : r[i] = IF i + d <= Len(q) THEN q[i + d] ELSE A[i + d - Len(q)]
  BY RingOfBlocks
<1>2. /\ A \in Seq(S) /\ Len(A) = c /\ c \in Nat /\ Elems(A) = S
      /\ \A i, j \in 1..c : i < j => A[i] < A[j]
  BY AscendingBlocks
<1>3. Slot \subseteq Nat /\ Len(q) \in Nat /\ DOMAIN q = 1..Len(q) /\ DOMAIN r = 1..n
  BY <1>1, WindowAssumption
<1> HIDE DEF r, A, c, d
<1>4. \A i \in 1..c : A[i] \in S /\ A[i] \in Nat
  BY <1>2, <1>3, ElementOfSeq
<1>5. \A i, j \in 1..c : A[i] = A[j] => i = j
  <2> SUFFICES ASSUME NEW i \in 1..c, NEW j \in 1..c, A[i] = A[j], i # j PROVE FALSE
    OBVIOUS
  <2>1. i < j \/ j < i
    OBVIOUS
  <2> QED
    BY <1>2, <1>4, <2>1
<1>6. \A i \in 1..n : /\ i + d <= Len(q) => i + d \in DOMAIN q
                      /\ ~(i + d <= Len(q)) => i + d - Len(q) \in 1..c
  BY <1>1, <1>2, <1>3
<1>7. \A i \in DOMAIN q, j \in 1..c : q[i] # A[j]
  BY <1>4 DEF Elems
<1>8. NoRepeats(r)
  <2> SUFFICES ASSUME NEW i \in 1..n, NEW j \in 1..n, r[i] = r[j] PROVE i = j
    BY <1>3 DEF NoRepeats
  <2>1. CASE i + d <= Len(q) /\ j + d <= Len(q)
    <3>1. i + d = j + d
      BY <1>1, <1>6, <2>1 DEF NoRepeats
    <3> QED
      BY <1>1, <3>1
  <2>2. CASE ~(i + d <= Len(q)) /\ ~(j + d <= Len(q))
    <3>1. i + d - Len(q) = j + d - Len(q)
      BY <1>1, <1>5, <1>6, <2>2
    <3> QED
      BY <1>1, <1>3, <3>1
  <2>3. CASE i + d <= Len(q) /\ ~(j + d <= Len(q))
    BY <1>1, <1>6, <1>7, <2>3
  <2>4. CASE ~(i + d <= Len(q)) /\ j + d <= Len(q)
    BY <1>1, <1>6, <1>7, <2>4
  <2> QED
    BY <2>1, <2>2, <2>3, <2>4
<1>9. Elems(r) \subseteq Elems(q) \cup S
  BY <1>1, <1>3, <1>4, <1>6 DEF Elems
<1>10. ASSUME NEW i \in DOMAIN q, i <= d PROVE q[i] \notin Elems(r)
  <2> SUFFICES ASSUME NEW j \in 1..n, r[j] = q[i] PROVE FALSE
    BY <1>3 DEF Elems
  <2>1. CASE j + d <= Len(q)
    <3>1. j + d = i
      BY <1>1, <1>6, <2>1 DEF NoRepeats
    <3> QED
      BY <1>1, <1>3, <1>10, <3>1
  <2>2. CASE ~(j + d <= Len(q))
    BY <1>1, <1>6, <1>7, <2>2
  <2> QED
    BY <2>1, <2>2
<1>11. ASSUME NEW i \in DOMAIN q, i > d PROVE q[i] \in Elems(r)
  <2>1. i - d \in 1..n /\ (i - d) + d = i /\ i <= Len(q)
    BY <1>1, <1>2, <1>3, <1>11
  <2>2. r[i - d] = q[i]
    BY <1>1, <2>1
  <2> QED
    BY <1>3, <2>1, <2>2 DEF Elems
<1> QED
  BY <1>8, <1>9, <1>10, <1>11 DEF r, d

-----------------------------------------------------------------------------
(* A slot is past once no batch can bring its block any more.              *)
Past == {x \in Slot : x < s /\ x \notin failed /\ (pc = "scan" => x \notin blocks)}

(* A sandwich is gone when a block of it has left the cache for good.      *)
Gone(id) == \E x \in LegsOf[id] : x \in Past /\ x \notin Elems(cache)

CacheInv ==
  /\ RowInv
  /\ cache \in Seq(Slot) /\ Len(cache) <= CacheSize /\ NoRepeats(cache)
  /\ Elems(cache) \subseteq Past

(* The next batch has nothing that is past.                                *)
LEMMA PastStays ==
  ASSUME RowInv, [Next]_vars
  PROVE  /\ Past \subseteq Past'
         /\ Scan => blocks \subseteq Past' /\ blocks \cap Past = {}
<1>1. Slot \subseteq Nat /\ BatchNum \in Nat /\ BatchNum > 0 /\ EndSlot \in Nat
  BY WindowAssumption, StreamAssumption
<1>2. s \in Nat /\ \A x \in Slot : x \in Nat
  BY <1>1 DEF RowInv
<1> SUFFICES ASSUME NEW x \in Past
             PROVE  x < s' /\ x \notin failed' /\ (pc' = "scan" => x \notin blocks')
  <2>1. Past \subseteq Past'
    BY DEF Past
  <2>2. Scan => blocks \subseteq Past' /\ blocks \cap Past = {}
    BY <1>2 DEF Scan, Past, RowInv, BatchIsNew, batchVars
  <2> QED
    BY <2>1, <2>2
<1>3. x \in Slot /\ x \in Nat /\ x < s /\ x \notin failed
  BY <1>2 DEF Past
<1>4. CASE FetchLive
  <2>1. NextLive \in Nat /\ NextLive >= s
    BY NextLiveForward DEF RowInv
  <2>2. PICK got \in Answers(NextLive..(NextLive + BatchNum - 1)) : blocks' = got
    BY <1>4 DEF FetchLive
  <2>3. x \notin got
    BY <1>1, <1>2, <1>3, <2>1, <2>2 DEF Answers
  <2>4. s' = NextLive + BatchNum /\ failed' = failed
    BY <1>4 DEF FetchLive
  <2>5. x < s'
    BY <1>1, <1>2, <1>3, <2>1, <2>4
  <2> QED
    BY <1>3, <2>2, <2>3, <2>4, <2>5
<1>5. CASE FetchBackfill
  <2> DEFINE slots == s..EndSlot \cap s..(s + BatchNum - 1)
  <2>1. PICK got \in Answers(slots) :
          blocks' = got /\ failed' = failed \cup Missing(slots, got)
    BY <1>5 DEF FetchBackfill
  <2>2. s' = s + BatchNum
    BY <1>5 DEF FetchBackfill
  <2>3. x \notin slots
    BY <1>1, <1>2, <1>3
  <2>4. x \notin got /\ x \notin Missing(slots, got)
    BY <2>3, <2>1 DEF Answers, Missing
  <2>5. x < s'
    BY <1>1, <1>2, <1>3, <2>2
  <2> QED
    BY <1>3, <2>1, <2>4, <2>5
<1>6. CASE FetchRetry
  <2>1. PICK got \in Answers(failed) : blocks' = got
    BY <1>6 DEF FetchRetry
  <2> QED
    BY <1>3, <1>6, <2>1 DEF FetchRetry, Answers
<1>7. CASE Scan
  BY <1>3, <1>7 DEF Scan
<1>8. CASE UNCHANGED <<s, failed, blocks>> /\ (pc' = "scan" => pc = "scan")
  BY <1>3, <1>8 DEF Past
<1>9. CASE InsertSlotTxs
  BY <1>3, <1>9 DEF InsertSlotTxs
<1>10. CASE TipAdvances
  BY <1>8, <1>10 DEF TipAdvances, batchVars
<1>11. CASE Exit \/ InsertSandwiches \/ InsertSandwichTxs
  BY <1>8, <1>11 DEF Exit, InsertSandwiches, InsertSandwichTxs, batchVars, AfterError
<1>12. ASSUME NEW id \in Sandwich, Report(id)
       PROVE  x < s' /\ x \notin failed' /\ (pc' = "scan" => x \notin blocks')
  BY <1>8, <1>12 DEF Report, batchVars
<1>13. CASE UNCHANGED vars
  BY <1>8, <1>13 DEF vars, batchVars
<1> QED
  BY <1>4, <1>5, <1>6, <1>7, <1>9, <1>10, <1>11, <1>12, <1>13 DEF Next, Work

(* Only a scan of a batch that has blocks moves the cache.                 *)
LEMMA CacheMoves ==
  ASSUME [Next]_vars
  PROVE  UNCHANGED cache \/ (Scan /\ blocks # {} /\ cache' = PutAll(cache, blocks))
<1>1. ASSUME NEW id \in Sandwich, Report(id) PROVE UNCHANGED cache
  BY <1>1 DEF Report
<1> QED
  BY <1>1 DEF Next, Work, TipAdvances, FetchLive, FetchBackfill, FetchRetry, Exit, Scan,
     InsertSandwiches, InsertSandwichTxs, InsertSlotTxs, vars, memory

LEMMA CacheStep ==
  ASSUME CacheInv, [Next]_vars
  PROVE  CacheInv'
<1>1. RowInv' /\ Past \subseteq Past'
  BY RowStep, PastStays DEF CacheInv
<1>2. CASE UNCHANGED cache
  BY <1>1, <1>2 DEF CacheInv, NoRepeats, Elems
<1>3. CASE Scan /\ cache' = PutAll(cache, blocks)
  <2>1. blocks \subseteq Past' /\ blocks \cap Elems(cache) = {} /\ blocks \subseteq Slot
    BY <1>3, PastStays DEF CacheInv, RowInv, BatchIsNew
  <2>2. cache' \in Seq(Slot) /\ Len(cache') <= CacheSize
    BY <1>3, <2>1, RingOfBlocks DEF CacheInv
  <2>3. NoRepeats(cache') /\ Elems(cache') \subseteq Elems(cache) \cup blocks
    BY <1>3, <2>1, RingKeepsTheLast DEF CacheInv
  <2>4. Elems(cache') \subseteq Past'
    BY <1>1, <2>1, <2>3 DEF CacheInv
  <2>5. NoRepeats(cache)' /\ Elems(cache)' \subseteq Past'
    BY <2>3, <2>4 DEF NoRepeats, Elems
  <2> QED
    BY <1>1, <2>2, <2>5 DEF CacheInv
<1> QED
  BY <1>2, <1>3, CacheMoves

(* What is gone does not come back.                                        *)
LEMMA GoneStays ==
  ASSUME CacheInv, [Next]_vars, NEW id, Gone(id)
  PROVE  Gone(id)'
<1>1. Past \subseteq Past'
  BY PastStays DEF CacheInv
<1>2. CASE UNCHANGED cache
  BY <1>1, <1>2 DEF Gone, Elems
<1>3. CASE Scan /\ cache' = PutAll(cache, blocks)
  <2>1. blocks \cap Past = {} /\ blocks \cap Elems(cache) = {} /\ blocks \subseteq Slot
    BY <1>3, PastStays DEF CacheInv, RowInv, BatchIsNew
  <2>2. Elems(cache') \subseteq Elems(cache) \cup blocks
    BY <1>3, <2>1, RingKeepsTheLast DEF CacheInv
  <2>3. Elems(cache)' \subseteq Elems(cache) \cup blocks
    BY <2>2 DEF Elems
  <2> QED
    BY <1>1, <2>1, <2>3 DEF Gone
<1> QED
  BY <1>2, <1>3, CacheMoves

-----------------------------------------------------------------------------
(* The ids of emitted sandwiches are forgotten in the order of their last  *)
(* use.  The list is long enough when no 2 * CacheSize - 1 blocks hold     *)
(* more than SeenSize sandwiches: those the cache can have held from when  *)
(* it took in a block to when it drops it (config.go:103-105).             *)
HeldIn(S) == {id \in Sandwich : LegsOf[id] \subseteq S}

SeenCovers ==
  \A S \in SUBSET Slot : Cardinality(S) < 2 * CacheSize =>
    IsFiniteSet(HeldIn(S)) /\ Cardinality(HeldIn(S)) <= SeenSize

(* What was used since a listed id that can still be found is in the cache *)
(* or in old, blocks the cache has dropped since: together with those      *)
(* before a leg of the id, they once were in it.                           *)
UsedSince(id, ids) ==
  \E old \in SUBSET Slot : \E k \in DOMAIN cache :
    /\ cache[k] \in LegsOf[id]
    /\ Cardinality(old) + k <= CacheSize
    /\ \A other \in ids : LegsOf[other] \subseteq old \cup Elems(cache)

Newer(q, j) == {q[i] : i \in 1..j}

Recency == \A j \in DOMAIN seen : Gone(seen[j]) \/ UsedSince(seen[j], Newer(seen, j))

SeenInv ==
  /\ seen \in Seq(Sandwich) /\ Len(seen) <= SeenSize /\ NoRepeats(seen)
  /\ \A id \in Elems(seen) : LegsOf[id] \subseteq Past
  /\ Recency
  /\ found \subseteq Sandwich /\ (found # {} => pc = "report")
  /\ \A id \in found : LegsOf[id] \subseteq Elems(cache)

(* Moving an id to the front, and adding one, keep who is newer than whom. *)
LEMMA TouchedList ==
  ASSUME NEW q \in Seq(Sandwich), NoRepeats(q), NEW id \in Elems(q)
  PROVE  /\ Touch(q, id) \in Seq(Sandwich) /\ Len(Touch(q, id)) = Len(q)
         /\ NoRepeats(Touch(q, id)) /\ Elems(Touch(q, id)) = Elems(q)
         /\ Touch(q, id)[1] = id
         /\ \A j \in 2..Len(q) : \E i \in DOMAIN q :
              /\ Touch(q, id)[j] = q[i]
              /\ Newer(Touch(q, id), j) \subseteq {id} \cup Newer(q, i)
<1> DEFINE at == Place(q, id)
           r == Touch(q, id)
           n == Len(q)
<1>1. n \in Nat /\ DOMAIN q = 1..n /\ \A i \in 1..n : q[i] \in Sandwich
  BY ElementOfSeq
<1>2. at \in 1..n /\ q[at] = id
  BY <1>1 DEF Elems, Place
<1>3. r = [i \in 1..n |-> IF i > at THEN q[i] ELSE IF i = 1 THEN id ELSE q[i - 1]]
  BY <1>1 DEF Touch
<1> HIDE DEF at, r
<1>4. \A i \in 1..n : r[i] \in Sandwich
  <2> TAKE i \in 1..n
  <2>1. i = 1 \/ i - 1 \in 1..n
    BY <1>1
  <2> QED
    BY <1>1, <1>2, <1>3, <2>1
<1>5. r \in Seq(Sandwich) /\ Len(r) = n /\ DOMAIN r = 1..n
  <2>1. r \in [1..n -> Sandwich]
    BY <1>3, <1>4
  <2> QED
    BY <1>1, <2>1
<1>6. r[1] = id
  BY <1>1, <1>2, <1>3
<1>7. \A i \in 2..n : r[i] = IF i > at THEN q[i] ELSE q[i - 1]
  BY <1>1, <1>2, <1>3
<1>8. \A i \in 2..n : r[i] # id
  <2> TAKE i \in 2..n
  <2>1. i \in 1..n /\ i - 1 \in 1..n
    BY <1>1
  <2>2. i > at => i # at
    BY <1>1, <1>2
  <2>3. ~(i > at) => i - 1 # at
    BY <1>1, <1>2
  <2> QED
    BY <1>1, <1>2, <1>7, <2>1, <2>2, <2>3 DEF NoRepeats
<1>9. NoRepeats(r)
  <2> SUFFICES ASSUME NEW i \in 1..n, NEW j \in 1..n, r[i] = r[j] PROVE i = j
    BY <1>5 DEF NoRepeats
  <2>1. CASE i = 1 \/ j = 1
    BY <1>1, <1>6, <1>8, <2>1
  <2>2. CASE i \in 2..n /\ j \in 2..n
    <3> DEFINE p(k) == IF k > at THEN k ELSE k - 1
    <3>1. /\ p(i) \in 1..n /\ p(j) \in 1..n
          /\ r[i] = q[p(i)] /\ r[j] = q[p(j)]
      BY <1>1, <1>2, <1>7, <2>2
    <3>2. p(i) = p(j)
      BY <1>1, <3>1 DEF NoRepeats
    <3>3. p(i) # at /\ p(j) # at
      BY <1>1, <1>2, <1>8, <2>2, <3>1
    <3> QED
      BY <1>1, <1>2, <2>2, <3>2, <3>3
  <2> QED
    BY <1>1, <2>1, <2>2
<1>10. ASSUME NEW j \in 2..n
       PROVE  \E i \in DOMAIN q : r[j] = q[i] /\ Newer(r, j) \subseteq {id} \cup Newer(q, i)
  <2> DEFINE i == IF j > at THEN j ELSE j - 1
  <2>1. i \in 1..n /\ r[j] = q[i]
    BY <1>1, <1>2, <1>7
  <2>2. ASSUME NEW k \in 1..j PROVE r[k] \in {id} \cup Newer(q, i)
    <3>1. CASE k = 1
      BY <1>6, <3>1
    <3>2. CASE k \in 2..n
      <4>1. CASE k > at
        <5>1. k \in 1..i /\ r[k] = q[k]
          BY <1>1, <1>2, <1>7, <2>2, <3>2, <4>1
        <5> QED
          BY <5>1 DEF Newer
      <4>2. CASE ~(k > at)
        <5>1. k - 1 \in 1..i /\ r[k] = q[k - 1]
          BY <1>1, <1>2, <1>7, <2>2, <3>2, <4>2
        <5> QED
          BY <5>1 DEF Newer
      <4> QED
        BY <4>1, <4>2
    <3> QED
      BY <1>1, <2>2, <3>1, <3>2
  <2> HIDE DEF i
  <2> QED
    BY <1>1, <2>1, <2>2 DEF Newer
<1>11. Elems(r) = Elems(q)
  <2>1. ASSUME NEW i \in 1..n PROVE r[i] \in Elems(q)
    <3>1. i = 1 \/ i \in 2..n
      BY <1>1
    <3>2. i \in 2..n => i - 1 \in 1..n
      BY <1>1
    <3> QED
      BY <1>1, <1>6, <1>7, <3>1, <3>2 DEF Elems
  <2>2. ASSUME NEW i \in 1..n PROVE q[i] \in Elems(r)
    <3>1. CASE i = at
      BY <1>1, <1>2, <1>5, <1>6, <3>1 DEF Elems
    <3>2. CASE i > at
      <4>1. i \in 2..n
        BY <1>1, <1>2, <3>2
      <4> QED
        BY <1>5, <1>7, <3>2, <4>1 DEF Elems
    <3>3. CASE i < at
      <4>1. i + 1 \in 2..n /\ ~(i + 1 > at) /\ (i + 1) - 1 = i /\ i + 1 \in 1..n
        BY <1>1, <1>2, <3>3
      <4>2. r[i + 1] = q[i]
        BY <1>7, <4>1
      <4> QED
        BY <1>5, <4>1, <4>2 DEF Elems
    <3> QED
      BY <1>1, <1>2, <3>1, <3>2, <3>3
  <2> QED
    BY <1>1, <1>5, <2>1, <2>2 DEF Elems
<1> QED
  BY <1>5, <1>6, <1>9, <1>10, <1>11 DEF r

LEMMA PushedList ==
  ASSUME NEW q \in Seq(Sandwich), NoRepeats(q), Len(q) <= SeenSize,
         NEW id \in Sandwich \ Elems(q)
  PROVE  /\ Push(q, id) \in Seq(Sandwich) /\ Len(Push(q, id)) <= SeenSize
         /\ NoRepeats(Push(q, id))
         /\ Push(q, id)[1] = id /\ 1 \in DOMAIN Push(q, id)
         /\ Elems(Push(q, id)) \subseteq Elems(q) \cup {id}
         /\ \A j \in 2..Len(Push(q, id)) :
              /\ j - 1 \in DOMAIN q /\ Push(q, id)[j] = q[j - 1]
              /\ Newer(Push(q, id), j) \subseteq {id} \cup Newer(q, j - 1)
         /\ \A i \in DOMAIN q : i < SeenSize => q[i] \in Elems(Push(q, id))
<1> DEFINE m == IF Len(q) < SeenSize THEN Len(q) ELSE SeenSize - 1
           sub == SubSeq(q, 1, m)
           r == Push(q, id)
<1>1. /\ Len(q) \in Nat /\ DOMAIN q = 1..Len(q) /\ \A i \in 1..Len(q) : q[i] \in Sandwich
      /\ SeenSize \in Nat /\ SeenSize >= 1
  BY ElementOfSeq, StreamAssumption
<1>2. m \in Nat /\ m <= Len(q) /\ m + 1 <= SeenSize
  BY <1>1
<1>3. \A i \in 1..m : i \in 1..Len(q)
  BY <1>1, <1>2
<1>4. r = <<id>> \o sub
  BY DEF Push
<1> HIDE DEF m, r
<1>5. /\ sub \in Seq(Sandwich) /\ Len(sub) = IF 1 <= m THEN m - 1 + 1 ELSE 0
      /\ \A i \in 1..(m - 1 + 1) : sub[i] = q[1 + i - 1]
  <2>1. 1 \in Int /\ m \in Int /\ \A i \in 1..m : q[i] \in Sandwich
    BY <1>1, <1>2, <1>3
  <2> QED
    BY ONLY <2>1, SubSeqProperties
<1> HIDE DEF sub
<1>6. Len(sub) = m /\ \A i \in 1..m : sub[i] = q[i]
  BY <1>2, <1>5
<1>7. /\ <<id>> \in Seq(Sandwich) /\ Len(<<id>>) = 1 /\ <<id>>[1] = id
  OBVIOUS
<1>8. /\ r \in Seq(Sandwich) /\ Len(r) = 1 + m
      /\ \A i \in 1..(1 + m) : r[i] = IF i <= 1 THEN <<id>>[i] ELSE sub[i - 1]
  BY <1>4, <1>5, <1>6, <1>7, ConcatProperties
<1>9. DOMAIN r = 1..(m + 1) /\ r[1] = id
  BY <1>2, <1>7, <1>8
<1>10. \A i \in 2..(m + 1) : i - 1 \in 1..m /\ r[i] = q[i - 1]
  <2> TAKE i \in 2..(m + 1)
  <2>1. i \in 1..(1 + m) /\ ~(i <= 1) /\ i - 1 \in 1..m
    BY <1>2
  <2> QED
    BY <1>6, <1>8, <2>1
<1>11. \A i \in 1..m : q[i] # id
  BY <1>1, <1>3 DEF Elems
<1>12. \A i \in 1..(m + 1) : i = 1 \/ i \in 2..(m + 1)
  BY <1>2
<1>13. NoRepeats(r)
  <2> SUFFICES ASSUME NEW i \in 1..(m + 1), NEW j \in 1..(m + 1), r[i] = r[j] PROVE i = j
    BY <1>9 DEF NoRepeats
  <2>1. CASE i = 1 \/ j = 1
    BY <1>9, <1>10, <1>11, <1>12, <2>1
  <2>2. CASE i \in 2..(m + 1) /\ j \in 2..(m + 1)
    <3>1. i - 1 = j - 1
      BY <1>1, <1>3, <1>10, <2>2 DEF NoRepeats
    <3> QED
      BY <3>1
  <2> QED
    BY <1>12, <2>1, <2>2
<1>14. Elems(r) \subseteq Elems(q) \cup {id}
  BY <1>1, <1>3, <1>9, <1>10, <1>12 DEF Elems
<1>15. ASSUME NEW j \in 2..Len(r)
       PROVE  /\ j - 1 \in DOMAIN q /\ r[j] = q[j - 1]
              /\ Newer(r, j) \subseteq {id} \cup Newer(q, j - 1)
  <2>1. j \in 2..(m + 1) /\ j - 1 \in DOMAIN q
    BY <1>1, <1>2, <1>3, <1>8, <1>10
  <2>2. ASSUME NEW k \in 1..j PROVE r[k] \in {id} \cup Newer(q, j - 1)
    <3>1. k = 1 \/ (k \in 2..(m + 1) /\ k - 1 \in 1..(j - 1))
      BY <1>2, <2>1
    <3> QED
      BY <1>9, <1>10, <3>1 DEF Newer
  <2> QED
    BY <1>10, <2>1, <2>2 DEF Newer
<1>16. ASSUME NEW i \in DOMAIN q, i < SeenSize PROVE q[i] \in Elems(r)
  <2>1. i \in 1..m
    BY <1>1, <1>16 DEF m
  <2>2. i + 1 \in 2..(m + 1) /\ (i + 1) - 1 = i /\ i + 1 \in 1..(m + 1)
    BY <1>2, <2>1
  <2> QED
    BY <1>9, <1>10, <2>2 DEF Elems
<1>17. Len(r) <= SeenSize /\ 1 \in DOMAIN r
  BY <1>1, <1>2, <1>8, <1>9
<1> QED
  BY <1>8, <1>9, <1>13, <1>14, <1>15, <1>16, <1>17 DEF r

(* A full list holds an id that is gone at its end, so none that can still *)
(* be found is pushed out.                                                 *)
LEMMA LastIsGone ==
  ASSUME CacheInv, SeenInv, SeenCovers,
         NEW id \in found \ Elems(seen), Len(seen) = SeenSize
  PROVE  Gone(seen[SeenSize])
<1>1. /\ SeenSize \in Nat /\ SeenSize >= 1 /\ CacheSize \in Nat
      /\ DOMAIN seen = 1..SeenSize
  BY StreamAssumption DEF SeenInv
<1> DEFINE last == seen[SeenSize]
<1> SUFFICES ASSUME UsedSince(last, Newer(seen, SeenSize)) PROVE FALSE
  BY <1>1 DEF SeenInv, Recency
<1>2. PICK old \in SUBSET Slot, k \in DOMAIN cache :
        /\ Cardinality(old) + k <= CacheSize
        /\ \A other \in Newer(seen, SeenSize) : LegsOf[other] \subseteq old \cup Elems(cache)
  BY DEF UsedSince
<1> DEFINE S == old \cup Elems(cache)
<1>3. S \in SUBSET Slot /\ IsFiniteSet(old) /\ Cardinality(old) \in Nat
  <2>1. Elems(cache) \subseteq Slot
    BY ElementOfSeq DEF CacheInv, Elems
  <2>2. IsFiniteSet(old)
    BY WindowAssumption, FS_Subset
  <2> QED
    BY <2>1, <2>2, FS_CardinalityType
<1>4. /\ IsFiniteSet(Elems(cache)) /\ Cardinality(Elems(cache)) \in Nat
      /\ Cardinality(Elems(cache)) <= CacheSize
  <2>1. cache \in Surjection(DOMAIN cache, Elems(cache))
    BY ElementOfSeq DEF CacheInv, Surjection, Elems
  <2>2. DOMAIN cache = 1..Len(cache) /\ Len(cache) \in Nat /\ Len(cache) <= CacheSize
    BY DEF CacheInv
  <2>3. /\ IsFiniteSet(1..Len(cache))
        /\ Cardinality(1..Len(cache)) = IF 1 > Len(cache) THEN 0 ELSE Len(cache) - 1 + 1
    BY <2>2, FS_Interval
  <2>4. IsFiniteSet(Elems(cache)) /\ Cardinality(Elems(cache)) <= Cardinality(DOMAIN cache)
    BY <2>1, <2>2, <2>3, FS_Surjection
  <2>5. Cardinality(Elems(cache)) \in Nat
    BY <2>4, FS_CardinalityType
  <2> QED
    BY <1>1, <2>2, <2>3, <2>4, <2>5
<1>5. Cardinality(S) < 2 * CacheSize
  <2>1. /\ IsFiniteSet(old \cap Elems(cache)) /\ Cardinality(old \cap Elems(cache)) \in Nat
        /\ Cardinality(S) = Cardinality(old) + Cardinality(Elems(cache))
                              - Cardinality(old \cap Elems(cache))
    <3>1. old \cap Elems(cache) \in SUBSET old
      OBVIOUS
    <3>2. IsFiniteSet(old \cap Elems(cache))
      BY <1>3, <3>1, FS_Subset
    <3> QED
      BY <1>3, <1>4, <3>2, FS_Union, FS_CardinalityType
  <2>2. k \in Nat /\ k >= 1
    BY DEF CacheInv
  <2> HIDE DEF S
  <2> QED
    BY <1>1, <1>2, <1>3, <1>4, <2>1, <2>2
<1>6. IsFiniteSet(HeldIn(S)) /\ Cardinality(HeldIn(S)) <= SeenSize
  BY <1>3, <1>5 DEF SeenCovers
<1> DEFINE T == Elems(seen) \cup {id}
<1>7. T \in SUBSET HeldIn(S)
  <2>1. Newer(seen, SeenSize) = Elems(seen)
    BY <1>1 DEF Newer, Elems
  <2>2. LegsOf[id] \subseteq S /\ id \in Sandwich
    BY DEF SeenInv
  <2>3. \A other \in Elems(seen) : other \in Sandwich /\ LegsOf[other] \subseteq S
    BY <1>2, <2>1, ElementOfSeq DEF Elems, SeenInv
  <2> HIDE DEF S
  <2> QED
    BY <2>2, <2>3 DEF HeldIn
<1> HIDE DEF S
<1>8. IsFiniteSet(Elems(seen)) /\ Cardinality(Elems(seen)) = SeenSize
  <2>1. seen \in Injection(1..SeenSize, Elems(seen))
    <3>1. seen \in [1..SeenSize -> Elems(seen)]
      BY <1>1 DEF Elems, SeenInv
    <3> QED
      BY <1>1, <3>1 DEF Injection, IsInjective, SeenInv, NoRepeats
  <2>2. seen \in Surjection(1..SeenSize, Elems(seen))
    <3>1. seen \in [1..SeenSize -> Elems(seen)]
      BY <1>1 DEF Elems, SeenInv
    <3> QED
      BY <1>1, <3>1 DEF Surjection, Elems
  <2>3. IsFiniteSet(1..SeenSize) /\ Cardinality(1..SeenSize) = SeenSize
    BY <1>1, FS_Interval
  <2> QED
    BY <2>1, <2>2, <2>3, FS_Surjection
<1>9. IsFiniteSet(T) /\ Cardinality(T) = SeenSize + 1
  BY <1>8, FS_AddElement
<1>10. Cardinality(T) <= Cardinality(HeldIn(S)) /\ Cardinality(HeldIn(S)) \in Nat
  BY <1>6, <1>7, FS_Subset, FS_CardinalityType
<1> QED
  BY <1>1, <1>6, <1>9, <1>10

(* A scan moves what it drops from the cache into old.                     *)
LEMMA UsedStays ==
  ASSUME CacheInv, [Next]_vars, NEW id, NEW ids, UsedSince(id, ids)
  PROVE  (Gone(id) \/ UsedSince(id, ids))'
<1>1. CacheInv' /\ Past \subseteq Past'
  BY CacheStep, PastStays DEF CacheInv
<1>2. CASE UNCHANGED cache
  BY <1>2 DEF UsedSince, Elems
<1>3. CASE Scan /\ cache' = PutAll(cache, blocks)
  <2> DEFINE d == Dropped(cache, blocks)
             n == Len(cache) + Cardinality(blocks) - d
             out == {cache[i] : i \in 1..d}
  <2>1. blocks \cap Elems(cache) = {} /\ blocks \in SUBSET Slot
    BY <1>3, PastStays DEF CacheInv, RowInv, BatchIsNew
  <2>2. /\ cache \in Seq(Slot) /\ Len(cache) <= CacheSize /\ NoRepeats(cache)
        /\ Len(cache) \in Nat /\ DOMAIN cache = 1..Len(cache)
        /\ CacheSize \in Nat /\ Cardinality(blocks) \in Nat
    BY <2>1, AscendingBlocks, StreamAssumption DEF CacheInv
  <2>3. /\ d \in Nat /\ n \in Nat /\ cache' \in Seq(Slot) /\ Len(cache') = n
        /\ \A i \in 1..n : i + d <= Len(cache) => cache'[i] = cache[i + d]
    BY <1>3, <2>1, <2>2, RingOfBlocks
  <2>4. \A i \in DOMAIN cache : /\ i <= d => cache[i] \notin Elems(cache')
                                /\ i > d => cache[i] \in Elems(cache')
    BY <1>3, <2>1, <2>2, RingKeepsTheLast
  <2>5. Elems(cache') = Elems(cache)'
    BY DEF Elems
  <2>6. PICK old \in SUBSET Slot, k \in DOMAIN cache :
          /\ cache[k] \in LegsOf[id]
          /\ Cardinality(old) + k <= CacheSize
          /\ \A other \in ids : LegsOf[other] \subseteq old \cup Elems(cache)
    BY DEF UsedSince
  <2> HIDE DEF d
  <2>7. CASE k <= d
    <3>1. cache[k] \in Past' /\ cache[k] \notin Elems(cache)'
      BY <1>1, <2>4, <2>5, <2>7 DEF CacheInv, Elems
    <3> QED
      BY <2>6, <3>1 DEF Gone
  <2>8. CASE k > d
    <3>1. k - d \in 1..n /\ (k - d) + d = k /\ k <= Len(cache) /\ k \in Nat
      BY <2>2, <2>3, <2>8
    <3>2. k - d \in DOMAIN cache' /\ cache'[k - d] \in LegsOf[id]
      BY <2>3, <2>6, <3>1
    <3>3. \A i \in 1..d : i \in DOMAIN cache
      BY <2>2, <2>3, <2>8, <3>1
    <3>4. out \in SUBSET Slot /\ IsFiniteSet(out) /\ Cardinality(out) <= d
      <4>1. \A i \in 1..d : cache[i] \in Slot
        BY <2>2, <3>3, ElementOfSeq
      <4>2. IsFiniteSet(1..d) /\ Cardinality(1..d) = d
        <5>1. /\ IsFiniteSet(1..d)
              /\ Cardinality(1..d) = IF 1 > d THEN 0 ELSE d - 1 + 1
          BY <2>3, FS_Interval
        <5> QED
          BY <2>3, <5>1
      <4>3. [i \in 1..d |-> cache[i]] \in Surjection(1..d, out)
        BY DEF Surjection
      <4> QED
        BY <4>1, <4>2, <4>3, FS_Surjection
    <3> DEFINE more == old \cup out
    <3>5. more \in SUBSET Slot /\ Cardinality(more) + (k - d) <= CacheSize
      <4>1. IsFiniteSet(old) /\ Cardinality(old) \in Nat /\ Cardinality(out) \in Nat
        BY <3>4, WindowAssumption, FS_Subset, FS_CardinalityType
      <4>2. /\ Cardinality(old \cap out) \in Nat
            /\ Cardinality(more) = Cardinality(old) + Cardinality(out)
                                     - Cardinality(old \cap out)
        <5>1. old \cap out \in SUBSET old
          OBVIOUS
        <5>2. IsFiniteSet(old \cap out)
          BY <4>1, <5>1, FS_Subset
        <5> QED
          BY <3>4, <4>1, <5>2, FS_Union, FS_CardinalityType
      <4>3. Cardinality(more) + (k - d) <= CacheSize
        <5>1. /\ k \in Nat /\ d \in Nat /\ CacheSize \in Nat
              /\ Cardinality(old) + k <= CacheSize /\ Cardinality(out) <= d
          BY <2>2, <2>3, <2>6, <3>1, <3>4
        <5> HIDE DEF more, out
        <5> QED
          BY ONLY <4>1, <4>2, <5>1
      <4> QED
        BY <3>4, <4>3
    <3>6. Elems(cache) \subseteq out \cup Elems(cache)'
      <4> SUFFICES ASSUME NEW i \in DOMAIN cache PROVE cache[i] \in out \cup Elems(cache)'
        BY DEF Elems
      <4>1. i \in 1..d \/ i > d
        BY <2>2, <2>3
      <4> QED
        BY <2>4, <2>5, <4>1
    <3>7. \A other \in ids : LegsOf[other] \subseteq more \cup Elems(cache)'
      BY <2>6, <3>6
    <3> HIDE DEF more
    <3> QED
      BY <3>2, <3>5, <3>7 DEF UsedSince
  <2> QED
    BY <2>2, <2>3, <2>7, <2>8
<1> QED
  BY <1>2, <1>3, CacheMoves

(* What a scan finds is in the blocks it was given.                        *)
LEMMA FoundInside ==
  ASSUME NEW S, NEW known, NEW new, NEW deferTail1,
         NEW id \in FoundIn(DueWindows(S, known, new, deferTail1))
  PROVE  id \in Sandwich /\ LegsOf[id] \subseteq S
<1>1. PICK w \in Windows(S, known) : id \in Owned(w)
  BY DEF FoundIn, DueWindows
<1>2. w.left \subseteq S /\ w.right \subseteq S
  BY <1>1 DEF Windows, RotationAt, Successor
<1> QED
  BY <1>1, <1>2 DEF Owned, Blocks

(* The oldest of its blocks in the cache shows that an id at the front of  *)
(* the list was used after everything else.                                *)
LEMMA FrontIsNew ==
  ASSUME CacheInv, NEW id \in Sandwich, LegsOf[id] \subseteq Elems(cache)
  PROVE  UsedSince(id, {id})
<1>1. PICK x \in LegsOf[id] : TRUE
  BY WindowAssumption DEF Sandwich
<1>2. PICK k \in DOMAIN cache : cache[k] = x
  BY <1>1 DEF Elems
<1>3. k \in Nat /\ k <= CacheSize /\ CacheSize \in Nat
  BY StreamAssumption DEF CacheInv
<1>4. {} \in SUBSET Slot /\ Cardinality({}) = 0
  BY FS_EmptySet
<1>5. Cardinality({}) + k <= CacheSize
  BY <1>3, <1>4
<1> QED
  BY <1>1, <1>2, <1>4, <1>5 DEF UsedSince

LEMMA SeenAfterReport ==
  ASSUME CacheInv, SeenInv, NEW id \in Sandwich, Report(id)
  PROVE  SeenInv'
<1>1. /\ UNCHANGED <<cache, pc, s, failed, blocks>> /\ id \in found /\ found' = found \ {id}
  BY DEF Report, batchVars
<1>2. /\ pc' = "report" /\ found' \subseteq Sandwich
      /\ \A other \in found' : LegsOf[other] \subseteq Elems(cache)'
  BY <1>1 DEF Report, SeenInv, Elems
<1>3. Past' = Past /\ Elems(cache)' = Elems(cache) /\ \A other : Gone(other)' = Gone(other)
  BY <1>1 DEF Past, Gone, Elems
<1>4. LegsOf[id] \subseteq Elems(cache) /\ LegsOf[id] \subseteq Past
  BY <1>1 DEF SeenInv, CacheInv
<1>5. UsedSince(id, {id})
  BY <1>4, FrontIsNew
<1>6. \A other, ids : UsedSince(other, ids)' = UsedSince(other, ids)
  BY <1>1, <1>3 DEF UsedSince
<1>7. ASSUME NEW other, NEW ids, NEW more, UsedSince(other, ids), more \subseteq {id} \cup ids
      PROVE  UsedSince(other, more)
  BY <1>4, <1>7 DEF UsedSince
<1>8. SUFFICES
        /\ seen' \in Seq(Sandwich) /\ Len(seen') <= SeenSize /\ NoRepeats(seen')
        /\ \A i \in DOMAIN seen' : LegsOf[seen'[i]] \subseteq Past
        /\ \A j \in DOMAIN seen' : Gone(seen'[j]) \/ UsedSince(seen'[j], Newer(seen', j))
  <2>1. Recency'
    <3> SUFFICES ASSUME NEW j \in DOMAIN seen'
                 PROVE  (Gone(seen[j]) \/ UsedSince(seen[j], Newer(seen, j)))'
      BY DEF Recency
    <3>1. CASE Gone(seen'[j])
      BY <1>3, <3>1 DEF Gone
    <3>2. CASE UsedSince(seen'[j], Newer(seen', j))
      BY <1>1, <1>3, <3>2 DEF UsedSince
    <3> QED
      BY <1>8, <3>1, <3>2
  <2>2. \A other \in Elems(seen') : LegsOf[other] \subseteq Past'
    BY <1>3, <1>8 DEF Elems
  <2> QED
    BY <1>2, <1>8, <2>1, <2>2 DEF SeenInv, NoRepeats, Elems
<1>9. /\ seen \in Seq(Sandwich) /\ NoRepeats(seen) /\ Len(seen) <= SeenSize
      /\ Len(seen) \in Nat /\ DOMAIN seen = 1..Len(seen)
      /\ \A i \in DOMAIN seen : LegsOf[seen[i]] \subseteq Past
      /\ \A i \in DOMAIN seen : Gone(seen[i]) \/ UsedSince(seen[i], Newer(seen, i))
  BY DEF SeenInv, Recency, Elems
<1>10. ASSUME NEW q \in Seq(Sandwich), Len(q) <= SeenSize, NoRepeats(q), 1 \in DOMAIN q,
              q[1] = id,
              \A j \in 2..Len(q) : \E i \in DOMAIN seen :
                 q[j] = seen[i] /\ Newer(q, j) \subseteq {id} \cup Newer(seen, i)
       PROVE  /\ \A i \in DOMAIN q : LegsOf[q[i]] \subseteq Past
              /\ \A j \in DOMAIN q : Gone(q[j]) \/ UsedSince(q[j], Newer(q, j))
  <2> SUFFICES ASSUME NEW j \in DOMAIN q
               PROVE  /\ LegsOf[q[j]] \subseteq Past
                      /\ Gone(q[j]) \/ UsedSince(q[j], Newer(q, j))
    OBVIOUS
  <2>1. CASE j = 1
    <3>1. Newer(q, 1) = {id}
      BY <1>10 DEF Newer
    <3> QED
      BY <1>4, <1>5, <1>10, <2>1, <3>1
  <2>2. CASE j # 1
    <3>1. j \in 2..Len(q)
      BY <1>10, <2>2
    <3>2. PICK i \in DOMAIN seen :
            q[j] = seen[i] /\ Newer(q, j) \subseteq {id} \cup Newer(seen, i)
      BY <1>10, <3>1
    <3> QED
      BY <1>7, <1>9, <3>2
  <2> QED
    BY <2>1, <2>2
<1>11. CASE id \in Elems(seen)
  <2>1. seen' = Touch(seen, id)
    BY <1>11 DEF Report, Known
  <2>2. Len(seen) >= 1
    BY <1>9, <1>11 DEF Elems
  <2> DEFINE q == Touch(seen, id)
  <2>3. /\ q \in Seq(Sandwich) /\ Len(q) = Len(seen) /\ NoRepeats(q) /\ q[1] = id
        /\ \A j \in 2..Len(q) : \E i \in DOMAIN seen :
             q[j] = seen[i] /\ Newer(q, j) \subseteq {id} \cup Newer(seen, i)
    BY <1>9, <1>11, TouchedList
  <2> HIDE DEF q
  <2>4. Len(q) <= SeenSize /\ 1 \in DOMAIN q
    BY <1>9, <2>2, <2>3
  <2>5. /\ \A i \in DOMAIN q : LegsOf[q[i]] \subseteq Past
        /\ \A j \in DOMAIN q : Gone(q[j]) \/ UsedSince(q[j], Newer(q, j))
    BY <1>10, <2>3, <2>4
  <2> QED
    BY <2>1, <2>3, <2>4, <2>5 DEF q
<1>12. CASE id \notin Elems(seen)
  <2>1. seen' = Push(seen, id)
    BY <1>12 DEF Report, Known
  <2> DEFINE q == Push(seen, id)
  <2>2. /\ q \in Seq(Sandwich) /\ Len(q) <= SeenSize /\ NoRepeats(q)
        /\ q[1] = id /\ 1 \in DOMAIN q
        /\ \A j \in 2..Len(q) :
              /\ j - 1 \in DOMAIN seen /\ q[j] = seen[j - 1]
              /\ Newer(q, j) \subseteq {id} \cup Newer(seen, j - 1)
    BY <1>9, <1>12, PushedList
  <2> HIDE DEF q
  <2>3. /\ \A i \in DOMAIN q : LegsOf[q[i]] \subseteq Past
        /\ \A j \in DOMAIN q : Gone(q[j]) \/ UsedSince(q[j], Newer(q, j))
    BY <1>10, <2>2
  <2> QED
    BY <2>1, <2>2, <2>3 DEF q
<1> QED
  BY <1>11, <1>12

LEMMA SeenStep ==
  ASSUME CacheInv, SeenInv, [Next]_vars
  PROVE  SeenInv'
<1>1. CASE \E id \in Sandwich : Report(id)
  BY <1>1, SeenAfterReport
<1>2. CASE UNCHANGED seen
  <2>1. Past \subseteq Past' /\ CacheInv'
    BY CacheStep, PastStays DEF CacheInv
  <2>2. \A id \in Elems(seen)' : LegsOf[id] \subseteq Past'
    BY <1>2, <2>1 DEF SeenInv, Elems
  <2>3. Recency'
    <3> SUFFICES ASSUME NEW j \in DOMAIN seen
                 PROVE  Gone(seen[j])' \/ UsedSince(seen[j], Newer(seen, j))'
      BY <1>2 DEF Recency
    <3> DEFINE id == seen[j]
               ids == Newer(seen, j)
    <3>1. id' = id /\ ids' = ids
      BY <1>2 DEF Newer
    <3>2. Gone(id) \/ UsedSince(id, ids)
      BY DEF SeenInv, Recency
    <3> HIDE DEF id, ids
    <3>3. \E x : x = id
      OBVIOUS
    <3>4. \E x : x = ids
      OBVIOUS
    <3>5. PICK x, xs : x = id /\ xs = ids
      BY <3>3, <3>4
    <3>6. Gone(x)' \/ UsedSince(x, xs)'
      BY <3>2, <3>5, GoneStays, UsedStays
    <3> QED
      BY <3>1, <3>5, <3>6 DEF id, ids, Gone, UsedSince
  <2>4. found' \subseteq Sandwich /\ (found' # {} => pc' = "report")
        /\ \A id \in found' : LegsOf[id] \subseteq Elems(cache)'
    <3>1. CASE Scan /\ blocks # {}
      <4>1. found' = FoundIn(DueWindows(Elems(cache'), leaders', blocks, deferTail))
            /\ pc' = "report"
        BY <3>1 DEF Scan
      <4> QED
        BY <4>1, FoundInside DEF Elems
    <3>2. CASE Scan /\ blocks = {}
      BY <3>2 DEF Scan, SeenInv, Elems
    <3>3. CASE UNCHANGED cache /\ UNCHANGED found /\ (pc = "report" /\ found # {} => pc' = "report")
      BY <3>3 DEF SeenInv, Elems
    <3>4. CASE TipAdvances \/ UNCHANGED vars
      BY <3>3, <3>4 DEF TipAdvances, vars, memory, scanVars
    <3>5. CASE FetchLive \/ FetchBackfill \/ FetchRetry \/ Exit
      BY <3>3, <3>5 DEF FetchLive, FetchBackfill, FetchRetry, Exit, memory, scanVars, SeenInv
    <3>6. CASE InsertSandwiches \/ InsertSandwichTxs \/ InsertSlotTxs
      BY <3>3, <3>6 DEF InsertSandwiches, InsertSandwichTxs, InsertSlotTxs, memory, scanVars
    <3>7. CASE \E id \in Sandwich : Report(id)
      BY <3>7, SeenAfterReport DEF SeenInv
    <3> QED
      BY <3>1, <3>2, <3>4, <3>5, <3>6, <3>7 DEF Next, Work
  <2> QED
    BY <1>2, <2>2, <2>3, <2>4 DEF SeenInv, NoRepeats, Elems
<1> QED
  BY <1>1, <1>2 DEF Next, Work, TipAdvances, FetchLive, FetchBackfill, FetchRetry, Exit,
     Scan, InsertSandwiches, InsertSandwichTxs, InsertSlotTxs, vars, memory

-----------------------------------------------------------------------------
(* What has been emitted is still listed as seen, or gone from the cache.  *)
EmitInv ==
  /\ sandwiches \in [Sandwich -> Nat] /\ EmittedOnce
  /\ result \subseteq Sandwich
  /\ pc \in {"fetch", "scan", "done"} => result = {}
  /\ pc \notin {"txs", "status"} => \A id \in result : sandwiches[id] = 0
  /\ \A id \in Sandwich : sandwiches[id] > 0 \/ id \in result =>
       Gone(id) \/ id \in Elems(seen)

OnceInv == CacheInv /\ SeenInv /\ EmitInv

LEMMA OnceInit == Init => OnceInv
<1> SUFFICES ASSUME Init PROVE OnceInv
  OBVIOUS
<1>1. /\ cache = <<>> /\ seen = <<>> /\ found = {} /\ result = {} /\ pc = "fetch"
      /\ sandwiches = [id \in Sandwich |-> 0]
  BY DEF Init
<1>2. CacheSize \in Nat /\ SeenSize \in Nat
  BY StreamAssumption
<1>3. \A S : <<>> \in Seq(S) /\ Len(<<>>) = 0 /\ DOMAIN <<>> = {} /\ Elems(<<>>) = {}
  BY DEF Elems
<1>4. CacheInv
  BY <1>1, <1>2, <1>3, RowInit DEF CacheInv, NoRepeats
<1>5. SeenInv
  BY <1>1, <1>2, <1>3 DEF SeenInv, NoRepeats, Recency
<1>6. EmitInv
  BY <1>1 DEF EmitInv, EmittedOnce
<1> QED
  BY <1>4, <1>5, <1>6 DEF OnceInv

LEMMA EmitAfterReport ==
  ASSUME OnceInv, SeenCovers, NEW id \in Sandwich, Report(id)
  PROVE  EmitInv'
<1> USE DEF OnceInv
<1>1. /\ UNCHANGED <<cache, pc, s, failed, blocks, sandwiches>>
      /\ pc = "report" /\ id \in found
  BY DEF Report, batchVars, tables
<1>2. \A other : Gone(other)' = Gone(other)
  BY <1>1 DEF Past, Gone, Elems
<1>3. ~Gone(id)
  BY <1>1 DEF SeenInv, Gone
<1>4. EmittedOnce' /\ sandwiches' \in [Sandwich -> Nat]
  BY <1>1 DEF EmitInv, EmittedOnce
<1>5. CASE id \in Elems(seen)
  <2>1. seen' = Touch(seen, id) /\ UNCHANGED result
    BY <1>5 DEF Report, Known
  <2>2. Elems(Touch(seen, id)) = Elems(seen)
    BY <1>5, TouchedList DEF SeenInv
  <2>3. Elems(seen') = Elems(seen)
    BY <2>1, <2>2
  <2>4. Elems(seen)' = Elems(seen)
    BY <2>3 DEF Elems
  <2> QED
    BY <1>1, <1>2, <1>4, <2>1, <2>4 DEF EmitInv
<1>6. CASE id \notin Elems(seen)
  <2>1. seen' = Push(seen, id) /\ result' = result \cup {id}
    BY <1>6 DEF Report, Known
  <2> DEFINE q == Push(seen, id)
  <2>2. /\ q[1] = id /\ 1 \in DOMAIN q
        /\ \A i \in DOMAIN seen : i < SeenSize => seen[i] \in Elems(q)
    BY <1>6, PushedList DEF SeenInv
  <2> HIDE DEF q
  <2>3. \A other \in Elems(seen) : Gone(other) \/ other \in Elems(q)
    <3> SUFFICES ASSUME NEW i \in DOMAIN seen PROVE Gone(seen[i]) \/ seen[i] \in Elems(q)
      BY DEF Elems
    <3>1. /\ Len(seen) \in Nat /\ DOMAIN seen = 1..Len(seen) /\ Len(seen) <= SeenSize
          /\ SeenSize \in Nat
      BY StreamAssumption DEF SeenInv
    <3>2. CASE i < SeenSize
      BY <2>2, <3>2
    <3>3. CASE ~(i < SeenSize)
      <4>1. Len(seen) = SeenSize /\ i = SeenSize
        <5>1. i \in Nat /\ i <= Len(seen)
          BY <3>1
        <5>2. \A a, b, c \in Nat : a <= b /\ b <= c /\ ~(a < c) => b = c /\ a = c
          OBVIOUS
        <5> QED
          BY <3>1, <3>3, <5>1, <5>2, Zenon
      <4> QED
        BY <1>1, <1>6, <4>1, LastIsGone
    <3> QED
      BY <3>2, <3>3
  <2>4. id \in Elems(q)
    BY <2>2 DEF Elems
  <2>5. Elems(seen)' = Elems(q)
    BY <2>1 DEF Elems, q
  <2>6. sandwiches[id] = 0
    <3>1. ~(sandwiches[id] > 0) /\ sandwiches[id] \in Nat
      BY <1>3, <1>6 DEF EmitInv
    <3> QED
      BY <3>1
  <2>7. /\ result' \subseteq Sandwich /\ pc' \notin {"fetch", "scan", "done"}
        /\ \A other \in result' : sandwiches'[other] = 0
    BY <1>1, <2>1, <2>6 DEF EmitInv
  <2>8. \A other \in Sandwich : sandwiches'[other] > 0 \/ other \in result' =>
           Gone(other)' \/ other \in Elems(seen)'
    BY <1>1, <1>2, <2>1, <2>3, <2>4, <2>5 DEF EmitInv
  <2> QED
    BY <1>4, <2>7, <2>8 DEF EmitInv
<1> QED
  BY <1>5, <1>6

LEMMA EmitStep ==
  ASSUME OnceInv, SeenCovers, [Next]_vars
  PROVE  EmitInv'
<1> USE DEF OnceInv
<1>1. CASE \E id \in Sandwich : Report(id)
  BY <1>1, EmitAfterReport
<1>2. ASSUME UNCHANGED seen,
             NEW written \in SUBSET Sandwich, written \subseteq result,
             sandwiches' = Inserted(sandwiches, written),
             written # {} => pc = "report" /\ pc' = "txs",
             result' \subseteq result,
             pc' \in {"fetch", "scan", "done"} => result' = {},
             pc' \in {"txs", "status"} \/ pc \notin {"txs", "status"} \/ result' = {}
      PROVE  EmitInv'
  <2>1. \A id \in Sandwich :
          sandwiches'[id] = sandwiches[id] + (IF id \in written THEN 1 ELSE 0)
    BY <1>2 DEF EmitInv, Inserted
  <2>2. sandwiches' \in [Sandwich -> Nat]
    BY <1>2 DEF EmitInv, Inserted
  <2>3. \A id \in Sandwich : sandwiches[id] \in Nat /\ sandwiches[id] <= 1
    BY DEF EmitInv, EmittedOnce
  <2>4. \A id \in written : sandwiches[id] = 0
    BY <1>2 DEF EmitInv
  <2>5. EmittedOnce'
    BY <2>1, <2>3, <2>4 DEF EmittedOnce
  <2>6. pc' \notin {"txs", "status"} => \A id \in result' : sandwiches'[id] = 0
    BY <1>2, <2>1 DEF EmitInv
  <2>7. \A id \in Sandwich : sandwiches'[id] > 0 \/ id \in result' =>
           Gone(id)' \/ id \in Elems(seen)'
    <3> SUFFICES ASSUME NEW id \in Sandwich, sandwiches'[id] > 0 \/ id \in result'
                 PROVE  Gone(id)' \/ id \in Elems(seen)'
      OBVIOUS
    <3>1. sandwiches[id] > 0 \/ id \in result
      BY <1>2, <2>1, <2>3
    <3>2. Gone(id) \/ id \in Elems(seen)
      BY <3>1 DEF EmitInv
    <3> QED
      BY <1>2, <3>2, GoneStays DEF Elems
  <2> QED
    BY <1>2, <2>2, <2>5, <2>6, <2>7 DEF EmitInv
<1>3. ASSUME UNCHANGED <<seen, sandwiches>>, result' \subseteq result,
             pc' \in {"fetch", "scan", "done"} => result' = {},
             pc' \in {"txs", "status"} \/ pc \notin {"txs", "status"} \/ result' = {}
      PROVE  EmitInv'
  <2>1. sandwiches' = Inserted(sandwiches, {})
    BY <1>3 DEF EmitInv, Inserted
  <2> QED
    BY <1>2, <1>3, <2>1
<1>4. CASE FetchLive \/ FetchBackfill \/ FetchRetry \/ Exit \/ Scan
  <2>1. /\ UNCHANGED <<seen, sandwiches, result>> /\ pc \in {"fetch", "scan"}
    BY <1>4 DEF FetchLive, FetchBackfill, FetchRetry, Exit, Scan, memory, scanVars, tables
  <2>2. result = {}
    BY <2>1 DEF EmitInv
  <2> QED
    BY <1>3, <2>1, <2>2
<1>5. CASE InsertSandwiches
  <2>1. UNCHANGED <<seen, result>> /\ pc = "report" /\ pc' \in {"txs", "status"}
    BY <1>5 DEF InsertSandwiches, memory, scanVars, AfterError
  <2>2. CASE UNCHANGED sandwiches
    BY <1>3, <2>1, <2>2
  <2>3. CASE sandwiches' = Inserted(sandwiches, result) /\ pc' = "txs"
    <3>1. result \in SUBSET Sandwich
      BY DEF EmitInv
    <3> QED
      BY <1>2, <2>1, <2>3, <3>1
  <2> QED
    BY <1>5, <2>2, <2>3 DEF InsertSandwiches
<1>6. CASE InsertSandwichTxs
  <2>1. UNCHANGED <<seen, sandwiches, result>> /\ pc' = "status"
    BY <1>6 DEF InsertSandwichTxs, memory, scanVars
  <2> QED
    BY <1>3, <2>1
<1>7. CASE InsertSlotTxs
  <2>1. UNCHANGED <<seen, sandwiches>> /\ result' = {}
    BY <1>7 DEF InsertSlotTxs, memory
  <2> QED
    BY <1>3, <2>1
<1>8. CASE TipAdvances \/ UNCHANGED vars
  <2>1. UNCHANGED <<pc, seen, sandwiches, result>>
    BY <1>8 DEF TipAdvances, vars, memory, scanVars, tables
  <2> QED
    BY <1>3, <2>1 DEF EmitInv
<1> QED
  BY <1>1, <1>4, <1>5, <1>6, <1>7, <1>8 DEF Next, Work

(* No sandwich is stored twice while the list of seen ids is long enough   *)
(* for what the block cache can find again (sandwich.go:94-96, 207-209,    *)
(* config.go:103-105).                                                     *)
THEOREM StoredOnce ==
  ASSUME SeenCovers
  PROVE  Spec => []EmittedOnce
<1>1. OnceInv /\ [Next]_vars => OnceInv'
  BY CacheStep, SeenStep, EmitStep DEF OnceInv
<1>2. OnceInv => EmittedOnce
  BY DEF OnceInv, EmitInv
<1> QED
  BY OnceInit, <1>1, <1>2, PTL DEF Spec

-----------------------------------------------------------------------------
(* A rotation of the blocks C and its successor hold sandwich id.          *)
OwnsPair(C, known, id) == \E w \in Windows(C, known) : w.right # {} /\ id \in Owned(w)

(* With the blocks C read, no later blocks will make such a pair, given    *)
(* the leaders that could not be found.                                    *)
Never(C, id) ==
  \E unknown \in SUBSET Unresolved : \A E \in SUBSET Slot :
    C \subseteq E /\ Prefix(C, E) => ~OwnsPair(E, Slot \ unknown, id)

LEMMA LegEnds ==
  ASSUME NEW id \in Sandwich
  PROVE  /\ LegsOf[id] \in SUBSET Slot
         /\ Earliest(LegsOf[id]) \in LegsOf[id] /\ Latest(LegsOf[id]) \in LegsOf[id]
         /\ \A x \in LegsOf[id] : Earliest(LegsOf[id]) <= x /\ x <= Latest(LegsOf[id])
<1>1. LegsOf[id] \in SUBSET Slot /\ LegsOf[id] # {} /\ Slot \subseteq Nat
  BY WindowAssumption DEF Sandwich
<1>2. PICK x \in LegsOf[id] : TRUE
  BY <1>1
<1>3. \A y \in LegsOf[id] : Earliest(LegsOf[id]) \in LegsOf[id] /\ Earliest(LegsOf[id]) <= y
  BY <1>1, FirstBelow
<1> QED
  BY <1>1, <1>2, <1>3, LastBlock

LEMMA PairsOfWindows ==
  ASSUME NEW S \in SUBSET Slot, NEW known, NEW w \in Windows(S, known)
  PROVE  Blocks(w) \subseteq S
BY DEF Windows, RotationAt, Successor, Blocks

(* A pair that holds id already held it when its last block came.          *)
LEMMA PairWasThere ==
  ASSUME NEW E \in SUBSET Slot, NEW C \in SUBSET E, Prefix(C, E), NEW known,
         NEW w \in Windows(E, known), w.right \cap C # {},
         NEW id \in Owned(w), LegsOf[id] \subseteq C
  PROVE  OwnsPair(C, known, id)
<1> DEFINE v == [left |-> w.left \cap C, right |-> w.right \cap C]
<1>1. id \in Sandwich /\ LegsOf[id] \subseteq Blocks(w) /\ Earliest(LegsOf[id]) \in w.left
  BY DEF Owned
<1>2. Earliest(LegsOf[id]) \in C
  BY <1>1, LegEnds
<1>3. v \in Windows(C, known)
  BY <1>1, <1>2, PrefixWindow
<1>4. LegsOf[id] \subseteq Blocks(v)
  BY <1>1 DEF Blocks
<1>5. id \in Owned(v) /\ v.right # {}
  BY <1>1, <1>2, <1>4 DEF Owned
<1> QED
  BY <1>3, <1>5 DEF OwnsPair

(* A pair that only shows once more leaders are known had its blocks from  *)
(* the first one on in one rotation, or in none that will ever be a pair,  *)
(* as long as they were not known.                                         *)
LEMMA NoPairAnyMore ==
  ASSUME NEW C \in SUBSET Slot, NEW unknown \in SUBSET Unresolved,
         NEW fewer, fewer \cap C \subseteq unknown,
         NEW id \in Sandwich, ~OwnsPair(C, Slot \ unknown, id),
         NEW G \in SUBSET Slot, C \subseteq G, Prefix(C, G),
         NEW w \in Windows(G, Slot \ fewer), w.right # {}, id \in Owned(w),
         Blocks(w) \subseteq C
  PROVE  Never(C, id)
<1> SUFFICES ASSUME NEW E \in SUBSET Slot, C \subseteq E, Prefix(C, E),
                    NEW v \in Windows(E, Slot \ unknown), v.right # {}, id \in Owned(v)
             PROVE  FALSE
  BY DEF Never, OwnsPair
<1> DEFINE f == Earliest(LegsOf[id])
<1>1. f \in w.left /\ f \in v.left /\ LegsOf[id] \subseteq C /\ f \in C
  BY LegEnds DEF Owned, Blocks
<1>2. v.right \cap C = {}
  BY <1>1, PairWasThere
<1> HIDE DEF f
<1>3. \A x \in C : f <= x => x \in v.left
  BY <1>1, <1>2, LeftUntilRight
<1>4. PICK b \in Breaks(G, Slot \ fewer) : HasParts(G, Slot \ fewer, w, b)
  BY WindowShape
<1>5. PICK c \in Breaks(G, Slot \ fewer) :
        c \in w.right /\ Latest(w.left) < c /\ \A y \in w.left : y <= Latest(w.left) /\ y \in Nat
  BY <1>4 DEF HasParts
<1>6. c \in C /\ f < c
  <2>1. c \in C /\ c \in Nat /\ f \in Nat /\ f <= Latest(w.left) /\ Latest(w.left) < c
    BY <1>1, <1>5, WindowAssumption DEF Blocks
  <2>2. Latest(w.left) \in Nat
    BY <1>4, <1>5 DEF HasParts
  <2> QED
    BY <2>1, <2>2
<1>7. \A x \in C : f <= x /\ x \in Slot \ unknown => x \in Slot \ fewer
  OBVIOUS
<1>8. c \notin Breaks(G, Slot \ fewer)
  BY <1>1, <1>3, <1>6, <1>7, StillOneRotation
<1> QED
  BY <1>5, <1>8

(* More than a run of slots behind a sandwich, its pair has come.          *)
LEMMA PairComesInTime ==
  ASSUME NEW E \in SUBSET Slot, NEW C \in SUBSET E, Prefix(C, E),
         NEW n \in Nat, RunsEnd(E, n), NEW known, NEW id \in Sandwich,
         OwnsPair(E, known, id),
         NEW y \in C, y >= Latest(LegsOf[id]) + n
  PROVE  OwnsPair(C, known, id)
<1> DEFINE f == Earliest(LegsOf[id])
           l == Latest(LegsOf[id])
<1>1. PICK w \in Windows(E, known) : w.right # {} /\ id \in Owned(w)
  BY DEF OwnsPair
<1>2. f \in w.left /\ LegsOf[id] \subseteq E /\ Slot \subseteq Nat
  BY <1>1, PairsOfWindows, WindowAssumption DEF Owned
<1>3. f \in LegsOf[id] /\ l \in LegsOf[id] /\ \A x \in LegsOf[id] : f <= x /\ x <= l
  BY LegEnds
<1>4. y \in Nat /\ f \in Nat /\ l \in Nat /\ l \in E /\ y >= l + n
  BY <1>2, <1>3
<1> HIDE DEF f, l
<1>5. ASSUME NEW x \in LegsOf[id] PROVE x <= y /\ x \in E /\ x \in Nat
  <2>1. x \in E /\ x \in Nat /\ x <= l
    BY <1>2, <1>3
  <2> QED
    BY <1>4, <2>1
<1>6. LegsOf[id] \subseteq C
  <2> SUFFICES ASSUME NEW x \in LegsOf[id], x \notin C PROVE FALSE
    OBVIOUS
  <2>1. y < x
    BY <1>5 DEF Prefix
  <2> QED
    BY <1>4, <1>5, <2>1
<1>7. CASE w.right \cap C # {}
  BY <1>1, <1>6, <1>7, PairWasThere
<1>8. CASE w.right \cap C = {}
  <2>1. f <= l /\ f <= y /\ l \in C
    BY <1>3, <1>4, <1>5, <1>6
  <2>2. l \in w.left /\ y \in w.left
    BY <1>1, <1>2, <1>8, <2>1, LeftUntilRight
  <2>3. PICK b \in Breaks(E, known) : HasParts(E, known, w, b)
    BY <1>1, WindowShape
  <2>4. w.left = RotationAt(E, Breaks(E, known), b)
    BY <2>3 DEF HasParts
  <2>5. y < l + n
    BY <2>2, <2>4, RotationIsShort
  <2> QED
    BY <1>4, <2>5
<1> QED
  BY <1>7, <1>8

(* A cache in the order of the slots holds the last blocks read, and all   *)
(* of them until it is full.                                               *)
Increasing(q) == \A i, j \in DOMAIN q : i < j => q[i] < q[j]

HoldsLast(q, C) ==
  /\ Increasing(q) /\ Elems(q) \subseteq C /\ Suffix(Elems(q), C)
  /\ Len(q) = CacheSize \/ Elems(q) = C

LEMMA RingHoldsLast ==
  ASSUME NEW q \in Seq(Slot), Len(q) <= CacheSize, NoRepeats(q),
         NEW S \in SUBSET Slot, NEW C \in SUBSET Slot, HoldsLast(q, C),
         \A x \in C, y \in S : x < y
  PROVE  HoldsLast(PutAll(q, S), C \cup S)
<1> DEFINE r == PutAll(q, S)
           A == Ascending(S)
           c == Cardinality(S)
           d == Dropped(q, S)
           n == Len(q) + c - d
<1>1. /\ d \in Nat /\ n \in Nat /\ r \in Seq(Slot) /\ Len(r) = n /\ n <= CacheSize
      /\ \A i \in 1..n : r[i] = IF i + d <= Len(q) THEN q[i + d] ELSE A[i + d - Len(q)]
  BY RingOfBlocks
<1>2. /\ A \in Seq(S) /\ Len(A) = c /\ c \in Nat /\ Elems(A) = S
      /\ \A i, j \in 1..c : i < j => A[i] < A[j]
  BY AscendingBlocks
<1>3. /\ Slot \subseteq Nat /\ Len(q) \in Nat /\ DOMAIN q = 1..Len(q) /\ DOMAIN r = 1..n
      /\ DOMAIN A = 1..c /\ CacheSize \in Nat
  BY <1>1, <1>2, WindowAssumption, StreamAssumption
<1>4. /\ \A i, j \in DOMAIN q : i < j => q[i] < q[j]
      /\ Elems(q) \subseteq C /\ \A x \in Elems(q), y \in C : x < y => y \in Elems(q)
      /\ Len(q) = CacheSize \/ Elems(q) = C
  BY DEF HoldsLast, Increasing, Suffix
<1>5. S \cap Elems(q) = {}
  <2> SUFFICES ASSUME NEW x \in S, x \in Elems(q) PROVE FALSE
    OBVIOUS
  <2>1. x < x /\ x \in Nat
    BY <1>3, <1>4
  <2> QED
    BY <2>1
<1>6. /\ Elems(r) \subseteq Elems(q) \cup S
      /\ \A i \in DOMAIN q : i > d => q[i] \in Elems(r)
  BY <1>5, RingKeepsTheLast
<1>7. d = 0 \/ n = CacheSize
  BY <1>2, <1>3 DEF Dropped
<1> HIDE DEF r, A, c, d
<1>8. \A i \in 1..c : A[i] \in S /\ A[i] \in Nat
  BY <1>2, <1>3, ElementOfSeq
<1>9. \A i \in 1..n : /\ i + d \in Nat /\ i + d <= Len(q) => i + d \in DOMAIN q
                      /\ ~(i + d <= Len(q)) => i + d - Len(q) \in 1..c
  BY <1>1, <1>2, <1>3
<1>10. \A i \in DOMAIN q, j \in 1..c : q[i] < A[j]
  BY <1>4, <1>8 DEF Elems
<1>11. ASSUME NEW i \in 1..n, NEW j \in 1..n, i < j PROVE r[i] < r[j]
  <2>0. i + d < j + d /\ i + d \in Nat /\ j + d \in Nat
    BY <1>1, <1>11
  <2>1. CASE i + d <= Len(q) /\ j + d <= Len(q)
    <3>1. r[i] = q[i + d] /\ r[j] = q[j + d] /\ i + d \in DOMAIN q /\ j + d \in DOMAIN q
      BY <1>1, <1>9, <2>1
    <3>2. PICK a, b \in DOMAIN q : a = i + d /\ b = j + d
      BY <3>1
    <3>3. q[a] < q[b]
      BY <1>4, <2>0, <3>2
    <3> QED
      BY <3>1, <3>2, <3>3
  <2>2. CASE i + d <= Len(q) /\ ~(j + d <= Len(q))
    <3>1. /\ r[i] = q[i + d] /\ i + d \in DOMAIN q
          /\ r[j] = A[j + d - Len(q)] /\ j + d - Len(q) \in 1..c
      BY <1>1, <1>9, <2>2
    <3>2. PICK a \in DOMAIN q, b \in 1..c : a = i + d /\ b = j + d - Len(q)
      BY <3>1
    <3> QED
      BY <1>10, <3>1, <3>2
  <2>3. CASE ~(i + d <= Len(q))
    <3>0. Len(q) \in Nat
      BY <1>3
    <3>1. ~(j + d <= Len(q)) /\ i + d - Len(q) < j + d - Len(q)
      <4>1. i \in Nat /\ j \in Nat /\ d \in Nat
        BY <1>1
      <4> QED
        BY ONLY <1>11, <2>3, <3>0, <4>1
    <3> QED
      BY <1>1, <1>2, <1>9, <2>3, <3>1
  <2> QED
    BY <2>1, <2>2, <2>3
<1>12. Increasing(r)
  BY <1>3, <1>11 DEF Increasing
<1>13. ASSUME NEW k \in 1..c, Len(q) + k > d PROVE A[k] \in Elems(r)
  <2>1. Len(q) + k - d \in 1..n /\ (Len(q) + k - d) + d - Len(q) = k
        /\ ~((Len(q) + k - d) + d <= Len(q))
    BY <1>1, <1>2, <1>3, <1>13
  <2>2. r[Len(q) + k - d] = A[k]
    BY <1>1, <2>1
  <2> QED
    BY <1>3, <2>1, <2>2 DEF Elems
<1>14. ASSUME NEW x \in Elems(r), NEW y \in C \cup S, x < y PROVE y \in Elems(r)
  <2>1. PICK i \in 1..n : x = r[i]
    BY <1>3 DEF Elems
  <2>2. x \in Nat /\ y \in Nat
    <3>1. x \in Slot
      BY <1>6, <1>4
    <3> QED
      BY <1>3, <3>1
  <2>3. CASE y \in S
    <3>1. PICK k \in 1..c : y = A[k]
      BY <1>2, <1>3, <2>3 DEF Elems
    <3>2. CASE Len(q) + k > d
      BY <1>13, <3>1, <3>2
    <3>3. CASE ~(Len(q) + k > d)
      <4>1. ~(i + d <= Len(q)) /\ k < i + d - Len(q)
        BY <1>1, <1>2, <1>3, <3>3
      <4>2. y < x
        BY <1>1, <1>2, <1>9, <2>1, <3>1, <4>1
      <4> QED
        BY <1>14, <2>2, <4>2
    <3> QED
      BY <3>2, <3>3
  <2>4. CASE y \in C
    <3>1. x \in Elems(q)
      <4> SUFFICES ASSUME x \in S PROVE FALSE
        BY <1>6
      <4>1. y < x
        BY <2>4
      <4> QED
        BY <1>14, <2>2, <4>1
    <3>2. PICK k \in DOMAIN q : y = q[k]
      BY <1>4, <1>14, <2>4, <3>1 DEF Elems
    <3>3. CASE k > d
      BY <1>6, <3>2, <3>3
    <3>4. CASE ~(k > d)
      <4>1. i + d <= Len(q)
        <5> SUFFICES ASSUME ~(i + d <= Len(q)) PROVE FALSE
          OBVIOUS
        <5>1. x \in S
          BY <1>1, <1>8, <1>9, <2>1
        <5> QED
          BY <1>5, <3>1, <5>1
      <4>2. k < i + d /\ i + d \in DOMAIN q
        BY <1>1, <1>3, <1>9, <3>4, <4>1
      <4>3. y < x
        BY <1>1, <1>4, <2>1, <3>2, <4>1, <4>2
      <4> QED
        BY <1>14, <2>2, <4>3
    <3> QED
      BY <3>3, <3>4
  <2> QED
    BY <2>3, <2>4
<1>15. Suffix(Elems(r), C \cup S)
  BY <1>14 DEF Suffix
<1>16. CASE n = CacheSize
  BY <1>1, <1>4, <1>6, <1>12, <1>15, <1>16 DEF HoldsLast, r
<1>17. CASE d = 0 /\ n # CacheSize
  <2>0. n = Len(q) + c /\ n <= CacheSize /\ Len(q) \in Nat /\ c \in Nat /\ CacheSize \in Nat
    BY <1>1, <1>2, <1>3, <1>17
  <2>1. Len(q) # CacheSize
    <3> HIDE DEF n
    <3> QED
      BY <1>17, <2>0
  <2>2. \A k \in 1..c : A[k] \in Elems(r)
    <3> SUFFICES ASSUME NEW k \in 1..c PROVE A[k] \in Elems(r)
      OBVIOUS
    <3>1. Len(q) + k > d
      BY <1>2, <1>3, <1>17
    <3> QED
      BY <1>13, <3>1
  <2>3. S \subseteq Elems(r)
    BY <1>2, <1>3, <2>2 DEF Elems
  <2>4. C \subseteq Elems(r)
    <3> SUFFICES ASSUME NEW i \in DOMAIN q PROVE q[i] \in Elems(r)
      BY <1>4, <2>1 DEF Elems
    <3>1. i > d
      BY <1>3, <1>17
    <3> QED
      BY <1>6, <3>1
  <2>5. Elems(r) = C \cup S
    BY <1>4, <1>6, <2>3, <2>4
  <2> QED
    BY <1>12, <1>15, <2>5 DEF HoldsLast, r
<1> QED
  BY <1>7, <1>16, <1>17

(* A cache without repeated blocks is no longer than the slots it spans.   *)
LEMMA BlocksPerSlot ==
  ASSUME NEW q \in Seq(Slot), NoRepeats(q), NEW f \in Nat, NEW k \in Nat,
         \A x \in Elems(q) : f < x /\ x <= f + k
  PROVE  Len(q) <= k
<1>1. Slot \subseteq Nat /\ Len(q) \in Nat /\ DOMAIN q = 1..Len(q)
      /\ \A i \in 1..Len(q) : q[i] \in Slot /\ q[i] \in Elems(q)
  BY WindowAssumption, ElementOfSeq DEF Elems
<1>2. q \in [1..Len(q) -> (f + 1)..(f + k)]
  <2>1. \A i \in 1..Len(q) : q[i] \in Nat /\ f < q[i] /\ q[i] <= f + k
    BY <1>1
  <2>2. \A i \in 1..Len(q) : q[i] \in (f + 1)..(f + k)
    BY <2>1
  <2>3. q = [i \in 1..Len(q) |-> q[i]]
    BY <1>1
  <2> QED
    BY <2>2, <2>3
<1>3. q \in Injection(1..Len(q), (f + 1)..(f + k))
  BY <1>1, <1>2 DEF NoRepeats, Injection, IsInjective
<1>4. f + 1 \in Int /\ f + k \in Int /\ 1 \in Int /\ Len(q) \in Int
  BY <1>1
<1>5. /\ IsFiniteSet((f + 1)..(f + k))
      /\ Cardinality((f + 1)..(f + k)) = IF f + 1 > f + k THEN 0 ELSE (f + k) - (f + 1) + 1
      /\ Cardinality(1..Len(q)) = IF 1 > Len(q) THEN 0 ELSE Len(q) - 1 + 1
  BY <1>4, FS_Interval
<1>6. Cardinality((f + 1)..(f + k)) = k /\ Cardinality(1..Len(q)) = Len(q)
  BY <1>1, <1>5
<1>7. Cardinality(1..Len(q)) <= Cardinality((f + 1)..(f + k))
  BY <1>3, <1>5, FS_Injection
<1> QED
  BY <1>6, <1>7

(* The scan of a batch finds what a window with a block of the batch owns, *)
(* unless it is deferred: its first block is still in the cache.           *)
LEMMA ScanFinds ==
  ASSUME NEW C \in SUBSET Slot, NEW B \in SUBSET Slot, \A x \in C, y \in B : x < y,
         \A x, y \in B : x < y + BatchNum,
         NEW n \in Nat, RunsEnd(C \cup B, n), 2 * n + Span + BatchNum <= CacheSize,
         NEW q \in Seq(Slot), NoRepeats(q), HoldsLast(q, C \cup B),
         NEW known, NEW near, \A x \in Elems(q) : x \in known <=> x \in near,
         NEW w \in Windows(C \cup B, known), NEW waits, w.right # {} \/ ~waits,
         NEW id \in Owned(w), NEW z \in Blocks(w) \cap B
  PROVE  id \in FoundIn(DueWindows(Elems(q), near, B, waits))
<1> DEFINE E == C \cup B
           S == Elems(q)
           f == Earliest(LegsOf[id])
           v == [left |-> w.left \cap S, right |-> w.right]
<1>1. /\ id \in Sandwich /\ LegsOf[id] \subseteq Blocks(w) /\ f \in w.left
      /\ Blocks(w) \subseteq E /\ Slot \subseteq Nat /\ E \in SUBSET Slot
  BY PairsOfWindows, WindowAssumption DEF Owned
<1>2. f \in E /\ \A x \in LegsOf[id] : f <= x
  BY <1>1, LegEnds DEF Blocks
<1>3. S \in SUBSET E /\ Suffix(S, E) /\ (Len(q) = CacheSize \/ S = E)
  BY DEF HoldsLast
<1>4. f \in Nat /\ z \in Nat /\ \A x \in E : x \in Nat
  BY <1>1, <1>2
<1> HIDE DEF f, E
<1>5. z < f + 2 * n + Span
  <2>1. w \in Windows(E, known) /\ RunsEnd(E, n)
    BY DEF E
  <2> QED
    BY <1>1, <2>1, WindowIsShort
<1>6. f \in S
  <2> SUFFICES ASSUME f \notin S PROVE FALSE
    OBVIOUS
  <2>1. PICK k \in Nat : k = 2 * n + Span + BatchNum - 1
    BY WindowAssumption, StreamAssumption
  <2>2. ASSUME NEW x \in S PROVE f < x /\ x <= f + k
    <3>1. x \in E /\ x \in Nat /\ x # f
      BY <1>3, <1>4, <2>2
    <3>2. ~(x < f)
      BY <1>2, <1>3, <2>2 DEF Suffix
    <3>3. x < z + BatchNum
      <4>1. CASE x \in B
        BY <4>1
      <4>2. CASE x \in C
        BY <1>4, <3>1, <4>2, StreamAssumption
      <4> QED
        BY <3>1, <4>1, <4>2 DEF E
    <3>4. BatchNum \in Nat /\ Span \in Nat
      BY WindowAssumption, StreamAssumption
    <3> QED
      BY <1>4, <1>5, <2>1, <3>1, <3>2, <3>3, <3>4
  <2>3. Len(q) <= k
    BY <1>4, <2>2, BlocksPerSlot
  <2>4. k < CacheSize /\ CacheSize \in Nat
    BY <2>1, WindowAssumption, StreamAssumption
  <2>5. Len(q) = CacheSize
    BY <1>2, <1>3
  <2> QED
    BY <2>1, <2>3, <2>4, <2>5
<1>7. \A x \in E : f <= x => x \in S
  <2> SUFFICES ASSUME NEW x \in E, f <= x PROVE x \in S
    OBVIOUS
  <2>1. x = f \/ f < x
    BY <1>4
  <2> QED
    BY <1>3, <1>6, <2>1 DEF Suffix
<1>8. v \in Windows(S, near)
  <2>1. w \in Windows(E, known) /\ f \in w.left \cap S
    BY <1>1, <1>6 DEF E
  <2> QED
    BY <1>1, <1>3, <2>1, SuffixWindow
<1>9. LegsOf[id] \subseteq Blocks(v) /\ f \in v.left
  BY <1>1, <1>2, <1>6, <1>7 DEF Blocks
<1>10. Blocks(v) \cap B # {}
  <2>1. CASE z \in Blocks(v)
    BY <2>1
  <2>2. CASE z \notin Blocks(v)
    <3>1. z \notin S /\ z \in E
      BY <1>1, <2>2 DEF Blocks
    <3>2. ~(f <= z)
      BY <1>7, <3>1
    <3>3. f \in B
      <4>1. ~(f < z)
        BY <1>4, <3>2
      <4> SUFFICES ASSUME f < z \/ f \in C PROVE FALSE
        BY <1>2, <4>1, <3>2 DEF E
      <4> QED
        BY <1>4, <4>1
    <3> QED
      BY <1>9, <3>3 DEF Blocks
  <2> QED
    BY <2>1, <2>2
<1>11. v \in DueWindows(S, near, B, waits)
  BY <1>8, <1>10 DEF DueWindows
<1>12. id \in Owned(v)
  BY <1>1, <1>9 DEF Owned, f
<1> QED
  BY <1>11, <1>12 DEF FoundIn

-----------------------------------------------------------------------------
(* The blocks whose windows have been scanned, and those whose leader the  *)
(* last scan did not know; a block that has left the cache counts as known.*)
Scanned == IF pc = "scan" THEN chain \ blocks ELSE chain
Unknown == Elems(cache) \ leaders

(* A sandwich is handled once a worker has it, or had it.                  *)
Handled(id) == id \in Stored \/ id \in lost \/ id \in result \/ id \in found

(* A batch of the first pass is beyond all blocks that came before.        *)
FirstPass ==
  /\ late = {} /\ blocks \subseteq chain
  /\ \A x \in Scanned, y \in blocks : x < y
  /\ \A x, y \in blocks : x < y + BatchNum

FrontierInv ==
  /\ chain \subseteq Produced /\ late \subseteq Produced
  /\ \A x \in chain : x < s /\ x \notin failed
  /\ Live => failed = {} /\ late = {}
  /\ late # {} => s > EndSlot /\ failed = {}
  /\ blocks \subseteq chain \cup late
  /\ pc = "scan" => FirstPass \/ blocks \cap chain = {}
  /\ \A y \in Slot : slotTxs[y] > 0 => y \in chain \cup late

(* Until the retry pass, the cache is the end of what has been scanned.    *)
RingInv == late = {} => HoldsLast(cache, Scanned)

(* Reported sandwiches are those a worker has marked as seen.              *)
ReportInv ==
  /\ Unknown \subseteq Unresolved
  /\ sandwiches \in [Sandwich -> Nat] /\ result \subseteq Sandwich
  /\ \A id \in Elems(seen) : id \in Stored \/ id \in lost \/ id \in result
  /\ pc \in {"fetch", "scan", "done"} => result = {}
  /\ pc \in {"txs", "status"} => \A id \in result : id \in Stored \/ id \in lost

(* What is not handled is not in a pair of what has been scanned.          *)
SettledInv ==
  \A id \in Sandwich : \/ Handled(id) \/ Never(Scanned, id)
                       \/ ~OwnsPair(Scanned, Slot \ Unknown, id)

LagInv == CacheInv /\ SeenInv /\ FrontierInv /\ RingInv /\ ReportInv /\ SettledInv

LEMMA FirstPassStep ==
  ASSUME FrontierInv, RowInv, late = {}, late' = late, pc' = "scan", UNCHANGED slotTxs,
         NEW first \in Nat, first >= s, s' = first + BatchNum,
         NEW got \in SUBSET Produced, got \subseteq first..(first + BatchNum - 1),
         blocks' = got, chain' = chain \cup got,
         \A x \in chain \cup got : x \notin failed',
         Live => failed' = {}
  PROVE  FrontierInv' /\ Scanned' = chain
<1>1. /\ Slot \subseteq Nat /\ Produced \subseteq Slot /\ BatchNum \in Nat
      /\ BatchNum > 0 /\ s \in Nat
  BY WindowAssumption, StreamAssumption DEF RowInv
<1>2. \A x \in got : x \in Nat /\ first <= x /\ x < first + BatchNum
  BY <1>1
<1>3. \A x \in chain : x \in Nat /\ x < s
  BY <1>1 DEF FrontierInv
<1>4. \A x \in chain : x < first
  BY <1>1, <1>3
<1>5. Scanned' = chain
  <2>1. \A x \in chain : x \notin got
    BY <1>2, <1>3, <1>4
  <2> QED
    BY <2>1 DEF Scanned
<1>6. \A x \in chain, y \in got : x < y
  BY <1>2, <1>3, <1>4
<1>7. \A x, y \in got : x < y + BatchNum
  BY <1>1, <1>2
<1>8. FirstPass'
  BY <1>5, <1>6, <1>7 DEF FirstPass
<1>9. ASSUME NEW x \in chain' PROVE x < s'
  <2>1. CASE x \in got
    BY <1>2, <2>1
  <2>2. CASE x \in chain
    <3>1. x \in Nat /\ x < first /\ first \in Nat
      BY <1>3, <1>4, <2>2
    <3>2. x < first + BatchNum
      BY ONLY <1>1, <3>1
    <3> QED
      BY <3>2
  <2> QED
    BY <2>1, <2>2
<1>10. \A y \in Slot : slotTxs'[y] > 0 => y \in chain' \cup late'
  BY DEF FrontierInv
<1>11. chain' \subseteq Produced /\ late' \subseteq Produced /\ blocks' \subseteq chain' \cup late'
  BY DEF FrontierInv
<1> QED
  BY <1>5, <1>8, <1>9, <1>10, <1>11 DEF FrontierInv

LEMMA FrontierStep ==
  ASSUME FrontierInv, RowInv, [Next]_vars
  PROVE  /\ FrontierInv'
         /\ FetchLive \/ FetchBackfill => late = {} /\ Prefix(chain, chain')
         /\ ~Scan => Scanned' = Scanned
         /\ ~(FetchLive \/ FetchBackfill) => chain' = chain
<1>1. /\ Slot \subseteq Nat /\ Produced \subseteq Slot /\ BatchNum \in Nat
      /\ BatchNum > 0 /\ s \in Nat
  BY WindowAssumption, StreamAssumption DEF RowInv
<1>2. FirstPass' /\ Scanned' = chain => Prefix(chain, chain')
  BY DEF FirstPass, Prefix, Scanned
<1>3. ASSUME late = {}, late' = late, pc = "fetch", pc' = "scan", UNCHANGED slotTxs,
             NEW first \in Nat, first >= s, s' = first + BatchNum,
             NEW got \in SUBSET Produced, got \subseteq first..(first + BatchNum - 1),
             blocks' = got, chain' = chain \cup got,
             \A x \in chain \cup got : x \notin failed',
             Live => failed' = {}
      PROVE  FrontierInv' /\ Scanned' = Scanned /\ Prefix(chain, chain')
  <2>1. FrontierInv' /\ Scanned' = chain
    BY <1>3, FirstPassStep
  <2>2. Scanned = chain
    BY <1>3 DEF Scanned
  <2>3. \A x \in chain, y \in chain' \ chain : x < y
    <3>1. \A x \in chain : x \in Nat /\ x < s
      BY <1>1 DEF FrontierInv
    <3>2. \A y \in got : y \in Nat /\ first <= y
      BY <1>1, <1>3
    <3> SUFFICES ASSUME NEW x \in chain, NEW y \in got PROVE x < y
      BY <1>3
    <3>3. x \in Nat /\ y \in Nat /\ first \in Nat /\ s \in Nat
          /\ x < s /\ s <= first /\ first <= y
      BY <1>1, <1>3, <3>1, <3>2
    <3> QED
      BY ONLY <3>3
  <2> QED
    BY <2>1, <2>2, <2>3 DEF Prefix
<1>4. CASE FetchLive
  <2>1. NextLive \in Nat /\ NextLive >= s
    BY NextLiveForward DEF RowInv
  <2>2. PICK got \in Answers(NextLive..(NextLive + BatchNum - 1)) :
          blocks' = got /\ chain' = chain \cup got
    BY <1>4 DEF FetchLive
  <2>3. /\ late = {} /\ late' = late /\ pc = "fetch" /\ pc' = "scan" /\ UNCHANGED slotTxs
        /\ s' = NextLive + BatchNum /\ failed' = {}
    BY <1>4 DEF FetchLive, FrontierInv, tables
  <2>4. got \in SUBSET Produced /\ got \subseteq NextLive..(NextLive + BatchNum - 1)
    BY <2>2 DEF Answers
  <2> HIDE DEF NextLive
  <2>5. FrontierInv' /\ Scanned' = Scanned /\ Prefix(chain, chain')
    BY <1>3, <2>1, <2>2, <2>3, <2>4
  <2> QED
    BY <1>4, <2>3, <2>5
<1>5. CASE FetchBackfill
  <2> DEFINE slots == s..EndSlot \cap s..(s + BatchNum - 1)
  <2>1. PICK got \in Answers(slots) : /\ blocks' = got /\ chain' = chain \cup got
                                      /\ failed' = failed \cup Missing(slots, got)
    BY <1>5 DEF FetchBackfill
  <2>2. /\ late' = late /\ pc = "fetch" /\ pc' = "scan" /\ UNCHANGED slotTxs
        /\ s' = s + BatchNum /\ ~Live /\ s <= EndSlot
    BY <1>5 DEF FetchBackfill, tables
  <2>3. late = {}
    BY <1>1, <2>2, StreamAssumption DEF FrontierInv
  <2>4. got \in SUBSET Produced /\ got \subseteq s..(s + BatchNum - 1) /\ got \subseteq slots
    BY <2>1 DEF Answers
  <2>5. \A x \in chain \cup got : x \notin failed'
    <3>1. \A x \in chain : x \notin slots /\ x \notin failed
      BY <1>1 DEF FrontierInv
    <3>2. \A x \in got : x \notin failed
      <4> SUFFICES ASSUME NEW x \in got, x \in failed PROVE FALSE
        OBVIOUS
      <4>1. x \in Nat /\ x < s /\ s <= x
        BY <1>1, <2>4 DEF RowInv
      <4> QED
        BY <1>1, <4>1
    <3> QED
      BY <2>1, <2>4, <3>1, <3>2 DEF Missing
  <2> HIDE DEF slots
  <2>6. s >= s
    BY <1>1
  <2>7. FrontierInv' /\ Scanned' = Scanned /\ Prefix(chain, chain')
    BY <1>1, <1>3, <2>1, <2>2, <2>3, <2>4, <2>5, <2>6
  <2> QED
    BY <1>5, <2>3, <2>7
<1>6. CASE FetchRetry
  <2>1. PICK got \in Answers(failed) : blocks' = got /\ late' = late \cup got
    BY <1>6 DEF FetchRetry
  <2>2. /\ pc = "fetch" /\ pc' = "scan" /\ UNCHANGED <<s, chain, slotTxs>>
        /\ failed' = {} /\ s > EndSlot /\ ~Live
    BY <1>6 DEF FetchRetry, tables
  <2>3. got \subseteq Produced /\ got \subseteq failed
    BY <2>1 DEF Answers
  <2>4. got \cap chain = {}
    BY <2>3 DEF FrontierInv
  <2>5. Scanned' = Scanned
    BY <2>1, <2>2, <2>4 DEF Scanned
  <2>6. FrontierInv'
    BY <2>1, <2>2, <2>3, <2>4 DEF FrontierInv
  <2>7. ~FetchLive /\ ~FetchBackfill
    BY <2>2, StreamAssumption, <1>1 DEF FetchLive, FetchBackfill
  <2> QED
    BY <2>2, <2>5, <2>6, <2>7
<1>7. CASE InsertSlotTxs
  <2>1. /\ UNCHANGED <<s, failed, chain, late>> /\ blocks' = {} /\ pc' = "fetch"
        /\ pc = "status"
        /\ slotTxs' = Inserted(slotTxs, blocks) \/ UNCHANGED slotTxs
    BY <1>7 DEF InsertSlotTxs
  <2>2. \A y \in Slot : slotTxs'[y] > 0 => slotTxs[y] > 0 \/ y \in blocks
    BY <2>1 DEF Inserted, RowInv
  <2>3. FrontierInv'
    BY <2>1, <2>2 DEF FrontierInv
  <2>4. Scanned' = Scanned
    BY <2>1 DEF Scanned
  <2> QED
    BY <2>1, <2>3, <2>4 DEF FetchLive, FetchBackfill
<1>8. CASE /\ UNCHANGED <<s, failed, blocks, chain, late, slotTxs>>
           /\ pc' = "scan" => pc = "scan"
           /\ Scan \/ (pc = "scan" => pc' = "scan")
           /\ ~FetchLive /\ ~FetchBackfill
  <2>1. pc' = "scan" => FirstPass' = FirstPass
    BY <1>8 DEF FirstPass, Scanned
  <2>2. FrontierInv'
    BY <1>8, <2>1 DEF FrontierInv
  <2> QED
    BY <1>8, <2>2 DEF Scanned
<1>9. CASE Scan
  <2>1. pc = "scan" /\ pc' = "report" /\ UNCHANGED <<s, failed, blocks, chain, late, slotTxs>>
    BY <1>9 DEF Scan, batchVars, tables, history
  <2> QED
    BY <1>8, <1>9, <2>1 DEF FetchLive, FetchBackfill
<1>10. CASE UNCHANGED vars
  <2>1. UNCHANGED <<pc, s, failed, blocks, chain, late, slotTxs>>
    BY <1>10 DEF vars, batchVars, tables, history
  <2>2. ~(s' = s + BatchNum) /\ (pc = "fetch" => pc' # "scan")
    BY <1>1, <2>1
  <2> QED
    BY <1>8, <2>1, <2>2 DEF FetchLive, FetchBackfill
<1>11. CASE TipAdvances
  <2>1. UNCHANGED <<pc, s, failed, blocks, chain, late, slotTxs>>
    BY <1>11 DEF TipAdvances, batchVars, tables, history
  <2>2. pc = "fetch" => pc' # "scan"
    BY <2>1
  <2> QED
    BY <1>8, <2>1, <2>2 DEF FetchLive, FetchBackfill
<1>12. CASE Exit
  <2>1. pc = "fetch" /\ pc' = "done" /\ UNCHANGED <<s, failed, blocks, chain, late, slotTxs>>
    BY <1>12 DEF Exit, batchVars, tables, history
  <2> QED
    BY <1>8, <2>1 DEF FetchLive, FetchBackfill
<1>13. ASSUME NEW id \in Sandwich, Report(id)
       PROVE  FrontierInv' /\ Scanned' = Scanned /\ chain' = chain /\ ~FetchLive /\ ~FetchBackfill
  <2>1. pc = "report" /\ pc' = pc /\ UNCHANGED <<s, failed, blocks, chain, late, slotTxs>>
    BY <1>13 DEF Report, batchVars, tables, history
  <2>2. ~FetchLive /\ ~FetchBackfill /\ ~Scan
    BY <2>1 DEF FetchLive, FetchBackfill, Scan
  <2> QED
    BY <1>8, <2>1, <2>2
<1>14. CASE InsertSandwiches
  <2>1. /\ pc = "report" /\ pc' \in {"status", "txs"}
        /\ UNCHANGED <<s, failed, blocks, chain, late, slotTxs>>
    BY <1>14 DEF InsertSandwiches, batchVars, AfterError
  <2> QED
    BY <1>8, <2>1 DEF FetchLive, FetchBackfill
<1>15. CASE InsertSandwichTxs
  <2>1. pc = "txs" /\ pc' = "status" /\ UNCHANGED <<s, failed, blocks, chain, late, slotTxs>>
    BY <1>15 DEF InsertSandwichTxs, batchVars
  <2> QED
    BY <1>8, <2>1 DEF FetchLive, FetchBackfill
<1> QED
  BY <1>4, <1>5, <1>6, <1>7, <1>9, <1>10, <1>11, <1>12, <1>13, <1>14, <1>15 DEF Next, Work

LEMMA RingAfterScan ==
  ASSUME CacheInv, FrontierInv, RingInv, Scan, blocks # {}, late = {}
  PROVE  FirstPass /\ HoldsLast(PutAll(cache, blocks), chain)
<1>1. pc = "scan"
  BY DEF Scan
<1>2. blocks \subseteq chain /\ chain \subseteq Slot /\ Scanned = chain \ blocks
  BY <1>1, StreamAssumption DEF FrontierInv, Scanned
<1>3. FirstPass
  BY <1>1, <1>2 DEF FrontierInv
<1>4. HoldsLast(cache, Scanned) /\ \A x \in Scanned, y \in blocks : x < y
  BY <1>3 DEF RingInv, FirstPass
<1> DEFINE C == Scanned
<1>5. C \in SUBSET Slot /\ blocks \in SUBSET Slot /\ C \cup blocks = chain
  BY <1>2
<1> HIDE DEF C
<1>6. HoldsLast(PutAll(cache, blocks), C \cup blocks)
  BY <1>4, <1>5, RingHoldsLast DEF CacheInv, C
<1> QED
  BY <1>3, <1>5, <1>6

LEMMA RingStep ==
  ASSUME CacheInv, FrontierInv, RingInv, [Next]_vars
  PROVE  RingInv'
<1>1. late' = {} => late = {}
  BY DEF Next, Work, TipAdvances, FetchLive, FetchBackfill, FetchRetry, Exit, Scan,
     InsertSandwiches, InsertSandwichTxs, InsertSlotTxs, Report, vars, history
<1> SUFFICES ASSUME late' = {}, late = {} PROVE HoldsLast(cache, Scanned)'
  BY <1>1 DEF RingInv
<1>2. HoldsLast(cache, Scanned)
  BY DEF RingInv
<1>3. CASE cache' = cache /\ Scanned' = Scanned
  BY <1>2, <1>3 DEF HoldsLast, Increasing, Elems, Suffix
<1>4. CASE Scan /\ blocks # {}
  <2>1. Scanned' = chain
    BY <1>4 DEF Scan, Scanned, history
  <2>2. cache' = PutAll(cache, blocks)
    BY <1>4 DEF Scan
  <2>3. HoldsLast(cache', chain)
    BY <1>4, <2>2, RingAfterScan
  <2> QED
    BY <2>1, <2>3 DEF HoldsLast, Increasing, Elems, Suffix
<1>5. CASE Scan /\ blocks = {}
  <2>1. cache' = cache /\ Scanned' = Scanned
    BY <1>5 DEF Scan, Scanned, history
  <2> QED
    BY <1>3, <2>1
<1>6. CASE ~Scan
  BY <1>3, <1>6, CacheMoves, FrontierStep DEF CacheInv
<1> QED
  BY <1>4, <1>5, <1>6

(* What is handled stays so: a sandwich the workers dropped as seen, and   *)
(* the result of a batch when it is over, is stored or lost by then.       *)
LEMMA ReportStep ==
  ASSUME SeenInv, ReportInv, [Next]_vars
  PROVE  /\ ReportInv'
         /\ \A id \in Sandwich : Handled(id) => Handled(id)'
<1>1. ASSUME UNCHANGED <<cache, leaders, seen, found, result, sandwiches, lost>>,
             pc' = pc \/ pc \in {"fetch", "scan", "done"} \/ (pc = "txs" /\ pc' = "status")
                \/ (pc' = "status" /\ result = {})
      PROVE  ReportInv' /\ \A id \in Sandwich : Handled(id) => Handled(id)'
  <2>1. Unknown' = Unknown /\ Stored' = Stored /\ Elems(seen)' = Elems(seen)
    BY <1>1 DEF Unknown, Stored, Elems
  <2> QED
    BY <1>1, <2>1 DEF ReportInv, Handled
<1>2. CASE Scan
  <2>1. /\ pc = "scan" /\ pc' = "report" /\ UNCHANGED <<seen, result, sandwiches, lost>>
    BY <1>2 DEF Scan, tables, history
  <2>2. Stored' = Stored /\ Elems(seen)' = Elems(seen) /\ found = {}
    BY <2>1 DEF Stored, Elems, SeenInv
  <2>3. Unknown' \subseteq Unresolved
    <3>1. CASE blocks = {}
      BY <1>2, <3>1 DEF Scan, Unknown, ReportInv, Elems
    <3>2. CASE blocks # {}
      <4>1. PICK answered \in SUBSET Unresolved :
              leaders' = {x \in Elems(cache') :
                 x \notin Unresolved \/ x \in leaders \/ x \in answered}
        BY <1>2, <3>2 DEF Scan
      <4> QED
        BY <4>1 DEF Unknown, Elems
    <3> QED
      BY <3>1, <3>2
  <2> QED
    BY <2>1, <2>2, <2>3 DEF ReportInv, Handled
<1>3. ASSUME NEW id \in Sandwich, Report(id)
      PROVE  ReportInv' /\ \A other \in Sandwich : Handled(other) => Handled(other)'
  <2>1. /\ pc = "report" /\ pc' = pc /\ found' = found \ {id}
        /\ UNCHANGED <<cache, leaders, sandwiches, lost>>
    BY <1>3 DEF Report, tables, history
  <2>2. Unknown' = Unknown /\ Stored' = Stored
    BY <2>1 DEF Unknown, Stored, Elems
  <2>3. CASE id \in Elems(seen)
    <3>1. seen' = Touch(seen, id) /\ UNCHANGED result
      BY <1>3, <2>3 DEF Report, Known
    <3>2. Elems(Touch(seen, id)) = Elems(seen)
      BY <2>3, TouchedList DEF SeenInv
    <3>3. Elems(seen)' = Elems(seen)
      BY <3>1, <3>2 DEF Elems
    <3> QED
      BY <2>1, <2>2, <2>3, <3>1, <3>3 DEF ReportInv, Handled
  <2>4. CASE id \notin Elems(seen)
    <3>1. seen' = Push(seen, id) /\ result' = result \cup {id}
      BY <1>3, <2>4 DEF Report, Known
    <3>2. Elems(Push(seen, id)) \subseteq Elems(seen) \cup {id}
      BY <2>4, PushedList DEF SeenInv
    <3>3. Elems(seen)' \subseteq Elems(seen) \cup {id}
      BY <3>1, <3>2 DEF Elems
    <3> QED
      BY <2>1, <2>2, <3>1, <3>3 DEF ReportInv, Handled
  <2> QED
    BY <2>3, <2>4
<1>4. CASE InsertSandwiches
  <2>1. /\ pc = "report" /\ UNCHANGED <<cache, leaders, seen, found, result>>
    BY <1>4 DEF InsertSandwiches, memory, scanVars
  <2>2. Unknown' = Unknown /\ Elems(seen)' = Elems(seen)
    BY <2>1 DEF Unknown, Elems
  <2>3. CASE result = {} /\ pc' = "status" /\ UNCHANGED <<sandwiches, lost>>
    BY <1>1, <2>1, <2>3
  <2>4. CASE sandwiches' = Inserted(sandwiches, result) /\ pc' = "txs" /\ UNCHANGED lost
    <3>1. sandwiches' \in [Sandwich -> Nat]
      BY <2>4 DEF ReportInv, Inserted
    <3>2. \A id \in Sandwich : sandwiches'[id] = sandwiches[id]
                                 + (IF id \in result THEN 1 ELSE 0)
      BY <2>4 DEF ReportInv, Inserted
    <3>3. \A id \in Sandwich : id \in Stored' <=> id \in Stored \/ id \in result
      BY <3>2 DEF Stored, ReportInv
    <3>4. \A id \in Elems(seen) : id \in Sandwich
      BY ElementOfSeq DEF SeenInv, Elems
    <3>5. \A id \in Elems(seen)' : id \in Stored' \/ id \in lost' \/ id \in result'
      BY <2>1, <2>2, <2>4, <3>3, <3>4 DEF ReportInv
    <3>6. \A id \in result' : id \in Sandwich /\ id \in Stored'
      BY <2>1, <3>3 DEF ReportInv
    <3> QED
      BY <2>1, <2>2, <2>4, <3>1, <3>3, <3>5, <3>6 DEF ReportInv, Handled
  <2>5. CASE pc' = "status" /\ UNCHANGED sandwiches /\ lost' = lost \cup result
    <3>1. Stored' = Stored
      BY <2>5 DEF Stored
    <3> QED
      BY <2>1, <2>2, <2>5, <3>1 DEF ReportInv, Handled
  <2> QED
    BY <1>4, <2>3, <2>4, <2>5 DEF InsertSandwiches, AfterError
<1>5. CASE InsertSandwichTxs
  <2>1. /\ pc = "txs" /\ pc' = "status"
        /\ UNCHANGED <<cache, leaders, seen, found, result, sandwiches, lost>>
    BY <1>5 DEF InsertSandwichTxs, memory, scanVars
  <2> QED
    BY <1>1, <2>1
<1>6. CASE InsertSlotTxs
  <2>1. /\ pc = "status" /\ pc' = "fetch" /\ result' = {}
        /\ UNCHANGED <<cache, leaders, seen, found, sandwiches, lost>>
    BY <1>6 DEF InsertSlotTxs, memory
  <2>2. Unknown' = Unknown /\ Stored' = Stored /\ Elems(seen)' = Elems(seen)
    BY <2>1 DEF Unknown, Stored, Elems
  <2> QED
    BY <2>1, <2>2 DEF ReportInv, Handled
<1>7. CASE FetchLive \/ FetchBackfill \/ FetchRetry \/ Exit
  <2>1. /\ pc = "fetch"
        /\ UNCHANGED <<cache, leaders, seen, found, result, sandwiches, lost>>
        /\ pc' \in {"scan", "done"}
    BY <1>7 DEF FetchLive, FetchBackfill, FetchRetry, Exit, memory, scanVars, tables, history
  <2>2. result' = {} /\ Unknown' = Unknown /\ Stored' = Stored /\ Elems(seen)' = Elems(seen)
    BY <2>1 DEF ReportInv, Unknown, Stored, Elems
  <2> QED
    BY <2>1, <2>2 DEF ReportInv, Handled
<1>8. CASE TipAdvances \/ UNCHANGED vars
  <2>1. pc' = pc /\ UNCHANGED <<cache, leaders, seen, found, result, sandwiches, lost>>
    BY <1>8 DEF TipAdvances, vars, memory, scanVars, tables, history
  <2> QED
    BY <1>1, <2>1
<1> QED
  BY <1>2, <1>3, <1>4, <1>5, <1>6, <1>7, <1>8 DEF Next, Work

(* The leaders' runs are short enough for the cache: some n is as long as  *)
(* any run of turns of one leader, and the cache holds two such runs, a    *)
(* turn between them and a batch.  And for the lag: it is no less than n.  *)
CacheCovers ==
  \E n \in Nat : RunsEnd(Produced, n) /\ 2 * n + Span + BatchNum <= CacheSize

LagCovers ==
  \E n \in Nat : /\ RunsEnd(Produced, n) /\ n <= MarkLag
                 /\ 2 * n + Span + BatchNum <= CacheSize

LEMMA NeverStays ==
  ASSUME NEW C, NEW G \in SUBSET Slot, C \subseteq G, Prefix(C, G), NEW id, Never(C, id)
  PROVE  Never(G, id)
<1>1. PICK unknown \in SUBSET Unresolved : \A E \in SUBSET Slot :
        C \subseteq E /\ Prefix(C, E) => ~OwnsPair(E, Slot \ unknown, id)
  BY DEF Never
<1>2. ASSUME NEW E \in SUBSET Slot, G \subseteq E, Prefix(G, E)
      PROVE  C \subseteq E /\ Prefix(C, E)
  BY <1>2 DEF Prefix
<1> QED
  BY <1>1, <1>2 DEF Never

(* A scan of new blocks: what it knows of the leaders of the blocks before *)
(* them, and what is due.                                                  *)
LEMMA ScanContext ==
  ASSUME LagInv, Scan, blocks # {}
  PROVE  LET q == PutAll(cache, blocks)
             C == chain \ blocks
         IN  /\ pc = "scan" /\ Scanned = C /\ Scanned' = chain
             /\ chain \in SUBSET Slot /\ blocks \in SUBSET Slot /\ Prefix(C, chain)
             /\ q \in Seq(Slot) /\ NoRepeats(q)
             /\ found' = FoundIn(DueWindows(Elems(q), leaders', blocks, deferTail))
             /\ \A x \in Elems(q) : x \in Slot \ Unknown' <=> x \in leaders'
             /\ Unknown' \cap C \subseteq Unknown /\ Unknown \in SUBSET Unresolved
<1> DEFINE q == PutAll(cache, blocks)
           C == chain \ blocks
<1>1. /\ pc = "scan" /\ pc' = "report" /\ chain' = chain /\ cache' = q
      /\ \A x \in Elems(cache') : x \in leaders => x \in leaders'
      /\ found' = FoundIn(DueWindows(Elems(cache'), leaders', blocks, deferTail))
  BY DEF Scan, history
<1>2. Scanned = C /\ Scanned' = chain
  BY <1>1 DEF Scanned
<1>3. chain \in SUBSET Slot /\ blocks \in SUBSET Slot /\ Unknown \in SUBSET Unresolved
  BY StreamAssumption DEF LagInv, FrontierInv, ReportInv
<1>4. blocks \cap Elems(cache) = {}
  BY PastStays DEF LagInv, CacheInv, Next, Work
<1>5. q \in Seq(Slot) /\ NoRepeats(q) /\ Elems(q) \subseteq Elems(cache) \cup blocks
  BY <1>3, <1>4, RingOfBlocks, RingKeepsTheLast DEF LagInv, CacheInv
<1>6. Unknown' = Elems(q) \ leaders'
  BY <1>1 DEF Unknown, Elems
<1> HIDE DEF q
<1>7. \A x \in Elems(q) : x \in Slot \ Unknown' <=> x \in leaders'
  <2>1. Elems(q) \subseteq Slot
    BY <1>5, ElementOfSeq DEF Elems
  <2> QED
    BY <1>6, <2>1
<1>8. Prefix(C, chain)
  <2>1. CASE blocks \cap chain = {}
    BY <2>1 DEF Prefix
  <2>2. CASE FirstPass
    BY <1>1, <2>2 DEF FirstPass, Prefix, Scanned
  <2> QED
    BY <1>1, <2>1, <2>2 DEF LagInv, FrontierInv
<1>9. Unknown' \cap C \subseteq Unknown
  <2> SUFFICES ASSUME NEW x \in Unknown', x \in C PROVE x \in Unknown
    OBVIOUS
  <2>1. x \in Elems(cache') /\ x \notin leaders'
    BY <1>1, <1>6
  <2>2. x \in Elems(cache) /\ x \notin leaders
    BY <1>1, <1>5, <2>1
  <2> QED
    BY <2>2 DEF Unknown
<1> QED
  BY <1>1, <1>2, <1>3, <1>5, <1>7, <1>8, <1>9 DEF q

LEMMA FoundWithBatch ==
  ASSUME CacheCovers, LagInv, Scan, NEW w \in Windows(chain, Slot \ Unknown'),
         NEW z \in Blocks(w) \cap blocks, NEW id \in Owned(w), w.right # {} \/ ~deferTail
  PROVE  FirstPass /\ id \in found'
<1> DEFINE q == PutAll(cache, blocks)
           C == chain \ blocks
<1>0. blocks # {}
  OBVIOUS
<1>1. /\ pc = "scan" /\ Scanned = C
      /\ chain \in SUBSET Slot /\ blocks \in SUBSET Slot /\ q \in Seq(Slot) /\ NoRepeats(q)
      /\ found' = FoundIn(DueWindows(Elems(q), leaders', blocks, deferTail))
      /\ \A x \in Elems(q) : x \in Slot \ Unknown' <=> x \in leaders'
  BY <1>0, ScanContext
<1>2. FirstPass /\ late = {}
  <2>1. Blocks(w) \subseteq chain
    BY <1>1, PairsOfWindows
  <2> QED
    BY <1>1, <2>1 DEF LagInv, FrontierInv, FirstPass
<1>3. HoldsLast(q, chain)
  BY <1>0, <1>2, RingAfterScan DEF LagInv
<1>4. C \cup blocks = chain /\ C \in SUBSET Slot
  BY <1>1, <1>2 DEF FirstPass
<1>5. (\A x \in C, y \in blocks : x < y) /\ \A x, y \in blocks : x < y + BatchNum
  BY <1>1, <1>2 DEF FirstPass
<1>6. PICK n \in Nat : RunsEnd(chain, n) /\ 2 * n + Span + BatchNum <= CacheSize
  BY DEF CacheCovers, LagInv, FrontierInv, RunsEnd
<1> HIDE DEF C, q
<1>7. id \in FoundIn(DueWindows(Elems(q), leaders', blocks, deferTail))
  BY <1>1, <1>3, <1>4, <1>5, <1>6, ScanFinds
<1> QED
  BY <1>1, <1>2, <1>7

LEMMA SettledAfterScan ==
  ASSUME CacheCovers, LagInv, Scan, blocks # {}, NEW id \in Sandwich
  PROVE  Handled(id)' \/ Never(chain, id) \/ ~OwnsPair(chain, Slot \ Unknown', id)
<1> SUFFICES ASSUME ~Handled(id)', OwnsPair(chain, Slot \ Unknown', id)
             PROVE  Never(chain, id)
  OBVIOUS
<1> DEFINE C == chain \ blocks
<1>1. /\ pc = "scan" /\ Scanned = C
      /\ chain \in SUBSET Slot /\ C \in SUBSET Slot /\ Prefix(C, chain)
      /\ Unknown' \cap C \subseteq Unknown /\ Unknown \in SUBSET Unresolved
  BY ScanContext
<1>2. ~Handled(id)
  BY ReportStep DEF LagInv, Next, Work
<1>3. PICK w \in Windows(chain, Slot \ Unknown') : w.right # {} /\ id \in Owned(w)
  BY DEF OwnsPair
<1>4. \A z \in Blocks(w) : z \notin blocks
  BY <1>3, FoundWithBatch DEF Handled
<1>5. Blocks(w) \subseteq C /\ C \subseteq chain
  BY <1>1, <1>3, <1>4, PairsOfWindows
<1>6. Never(C, id) \/ ~OwnsPair(C, Slot \ Unknown, id)
  BY <1>1, <1>2 DEF LagInv, SettledInv
<1> HIDE DEF C
<1>7. Never(C, id)
  BY <1>1, <1>3, <1>5, <1>6, NoPairAnyMore
<1> QED
  BY <1>1, <1>5, <1>7, NeverStays

LEMMA SettledStep ==
  ASSUME CacheCovers, LagInv, [Next]_vars
  PROVE  SettledInv'
<1>1. \A id \in Sandwich : Handled(id) => Handled(id)'
  BY ReportStep DEF LagInv
<1> SUFFICES ASSUME NEW id \in Sandwich, ~Handled(id)'
             PROVE  Never(Scanned', id) \/ ~OwnsPair(Scanned', Slot \ Unknown', id)
  BY DEF SettledInv, Never, OwnsPair
<1>2. Never(Scanned, id) \/ ~OwnsPair(Scanned, Slot \ Unknown, id)
  BY <1>1 DEF LagInv, SettledInv
<1>3. CASE Scan /\ blocks # {}
  <2>1. Scanned' = chain
    BY <1>3 DEF Scan, Scanned, history
  <2> QED
    BY <1>3, <2>1, SettledAfterScan
<1>4. CASE Scan /\ blocks = {}
  <2>1. Scanned' = Scanned /\ Unknown' = Unknown
    BY <1>4 DEF Scan, Scanned, Unknown, Elems, history
  <2> QED
    BY <1>2, <2>1
<1>5. CASE ~Scan
  <2>1. Scanned' = Scanned
    BY <1>5, FrontierStep DEF LagInv, CacheInv
  <2>2. UNCHANGED <<cache, leaders>>
    BY <1>5 DEF Next, Work, TipAdvances, FetchLive, FetchBackfill, FetchRetry, Exit, Report,
       InsertSandwiches, InsertSandwichTxs, InsertSlotTxs, vars, memory
  <2>3. Unknown' = Unknown
    BY <2>2 DEF Unknown, Elems
  <2> QED
    BY <1>2, <2>1, <2>3
<1> QED
  BY <1>3, <1>4, <1>5

LEMMA LagInit == Init => LagInv /\ FoundBeforeLag
<1> SUFFICES ASSUME Init PROVE LagInv /\ FoundBeforeLag
  OBVIOUS
<1>1. /\ pc = "fetch" /\ failed = {} /\ blocks = {} /\ cache = <<>> /\ leaders = {}
      /\ seen = <<>> /\ found = {} /\ result = {} /\ chain = {} /\ late = {} /\ lost = {}
      /\ sandwiches = [id \in Sandwich |-> 0] /\ slotTxs = [x \in Slot |-> 0]
  BY DEF Init
<1>2. Elems(<<>>) = {} /\ DOMAIN <<>> = {}
  BY DEF Elems
<1>3. CacheInv /\ SeenInv
  BY OnceInit DEF OnceInv
<1>4. \A y \in Slot : ~(slotTxs[y] > 0)
  BY <1>1
<1>5. FrontierInv
  BY <1>1, <1>4 DEF FrontierInv
<1>6. Scanned = {} /\ Unknown = {} /\ Elems(cache) = {} /\ Elems(seen) = {}
  BY <1>1, <1>2 DEF Scanned, Unknown
<1>7. RingInv
  BY <1>1, <1>2, <1>6 DEF RingInv, HoldsLast, Increasing, Suffix
<1>8. ReportInv
  BY <1>1, <1>6 DEF ReportInv
<1>9. ASSUME NEW id, NEW known PROVE ~OwnsPair({}, known, id)
  BY DEF OwnsPair, Windows, Breaks
<1>10. SettledInv
  BY <1>6, <1>9 DEF SettledInv
<1> QED
  BY <1>3, <1>4, <1>5, <1>7, <1>8, <1>10 DEF LagInv, FoundBeforeLag

LEMMA LagStep ==
  ASSUME CacheCovers, LagInv, [Next]_vars
  PROVE  LagInv'
<1>1. CacheInv' /\ SeenInv' /\ FrontierInv' /\ RingInv' /\ ReportInv' /\ SettledInv'
  BY CacheStep, SeenStep, FrontierStep, RingStep, ReportStep, SettledStep
     DEF LagInv, CacheInv
<1> QED
  BY <1>1 DEF LagInv

(* What is stored or lost stays so.                                        *)
LEMMA StoredStays ==
  ASSUME ReportInv, [Next]_vars, NEW id \in Stored \cup lost
  PROVE  id \in Stored' \cup lost'
<1>1. ASSUME UNCHANGED <<sandwiches, lost>> PROVE id \in Stored' \cup lost'
  BY <1>1 DEF Stored
<1>2. CASE InsertSandwiches
  <2>1. lost \subseteq lost'
    BY <1>2 DEF InsertSandwiches
  <2>2. sandwiches' = Inserted(sandwiches, result) => Stored \subseteq Stored'
    BY DEF Stored, Inserted, ReportInv
  <2>3. UNCHANGED sandwiches => Stored \subseteq Stored'
    BY DEF Stored
  <2> QED
    BY <1>2, <2>1, <2>2, <2>3 DEF InsertSandwiches
<1>3. ASSUME NEW other \in Sandwich, Report(other) PROVE id \in Stored' \cup lost'
  BY <1>1, <1>3 DEF Report, tables, history
<1> QED
  BY <1>1, <1>2, <1>3 DEF Next, Work, TipAdvances, FetchLive, FetchBackfill, FetchRetry,
     Exit, Scan, InsertSandwichTxs, InsertSlotTxs, vars, tables, history

LEMMA FoundStep ==
  ASSUME LagCovers, LagInv, FoundBeforeLag, [Next]_vars
  PROVE  FoundBeforeLag'
<1> SUFFICES ASSUME NEW id \in Sandwich, id \notin Stored' \cup lost',
                    NEW y \in Slot, slotTxs'[y] > 0, y >= Latest(LegsOf[id]) + MarkLag,
                    \A unknown \in SUBSET Unresolved : OwnsPair(chain', Slot \ unknown, id)
             PROVE  FALSE
  BY DEF FoundBeforeLag, Paired, ChainWindows, OwnsPair
<1>1. id \notin Stored /\ id \notin lost
  BY StoredStays DEF LagInv
<1>2. chain \in SUBSET Slot /\ chain' \in SUBSET Slot /\ chain' \subseteq Produced
      /\ chain \subseteq Produced /\ Unknown \in SUBSET Unresolved
  BY FrontierStep, StreamAssumption DEF LagInv, CacheInv, FrontierInv, ReportInv
<1>3. CASE UNCHANGED <<chain, slotTxs>>
  BY <1>1, <1>3 DEF FoundBeforeLag, Paired, ChainWindows, OwnsPair
<1>4. ASSUME pc \in {"fetch", "status"}, Prefix(chain, chain'), chain \subseteq chain'
      PROVE  ~OwnsPair(chain, Slot \ Unknown, id)
  <2>1. ~Handled(id) /\ Scanned = chain
    BY <1>1, <1>4 DEF Handled, LagInv, ReportInv, SeenInv, Scanned
  <2>2. ~Never(chain, id)
    BY <1>2, <1>4 DEF Never
  <2> QED
    BY <2>1, <2>2 DEF LagInv, SettledInv
<1>5. CASE InsertSlotTxs
  <2>1. pc = "status" /\ chain' = chain
    BY <1>5 DEF InsertSlotTxs
  <2>2. Prefix(chain, chain')
    BY <2>1 DEF Prefix
  <2> QED
    BY <1>2, <1>4, <2>1, <2>2
<1>6. CASE FetchLive \/ FetchBackfill
  <2>1. pc = "fetch" /\ chain \subseteq chain' /\ slotTxs' = slotTxs
    BY <1>6 DEF FetchLive, FetchBackfill, tables
  <2>2. late = {} /\ Prefix(chain, chain')
    BY <1>6, FrontierStep DEF LagInv, CacheInv
  <2>3. y \in chain
    BY <2>1, <2>2 DEF LagInv, FrontierInv
  <2>4. PICK n \in Nat : RunsEnd(Produced, n) /\ n <= MarkLag
    BY DEF LagCovers
  <2>5. RunsEnd(chain', n)
    BY <1>2, <2>4 DEF RunsEnd
  <2>6. y >= Latest(LegsOf[id]) + n
    <3>1. Latest(LegsOf[id]) \in Nat /\ y \in Nat /\ MarkLag \in Nat
      BY LegEnds, WindowAssumption, StreamAssumption
    <3> QED
      BY <2>4, <3>1
  <2>7. OwnsPair(chain, Slot \ Unknown, id)
    BY <1>2, <2>1, <2>2, <2>3, <2>5, <2>6, PairComesInTime
  <2> QED
    BY <1>4, <2>1, <2>2, <2>7
<1>7. ASSUME NEW other \in Sandwich, Report(other) PROVE UNCHANGED <<chain, slotTxs>>
  BY <1>7 DEF Report, tables, history
<1> QED
  BY <1>3, <1>5, <1>6, <1>7 DEF Next, Work, TipAdvances, FetchRetry, Exit, Scan,
     InsertSandwiches, InsertSandwichTxs, vars, tables, history

(* What the jito pipeline relies on: a sandwich that a rotation and its    *)
(* successor hold is stored, or its INSERT has failed, before any row of a *)
(* slot MarkLag after it, whatever blocks and leaders are missing and      *)
(* however far a live command jumps (sandwich.go:66-68, 310-323;           *)
(* config.go:76).                                                          *)
THEOREM FoundBeforeMarkLag ==
  ASSUME LagCovers
  PROVE  Spec => []FoundBeforeLag
<1>1. LagInv /\ FoundBeforeLag /\ [Next]_vars => (LagInv /\ FoundBeforeLag)'
  BY LagStep, FoundStep DEF LagCovers, CacheCovers
<1> QED
  BY LagInit, <1>1, PTL DEF Spec

-----------------------------------------------------------------------------
(* A window of the blocks C owns sandwich id.                              *)
Owns(C, known, id) == \E w \in Windows(C, known) : id \in Owned(w)

NeverHeld(C, id) ==
  \E unknown \in SUBSET Unresolved : \A E \in SUBSET Slot :
    C \subseteq E /\ Prefix(C, E) => ~Owns(E, Slot \ unknown, id)

(* No slot but the last is further than a turn from the next block that is *)
(* certain to be got: no leader skips a whole turn.                        *)
NoTurnSkipped ==
  /\ EndSlot \in Produced \ Flaky
  /\ \A x \in Produced : x < EndSlot =>
       \E z \in Produced \ Flaky : x < z /\ z <= x + Span

(* Blocks without such a gap between them.                                 *)
Gapless(C) == \A x, y \in C : x < y => \E z \in C : x < z /\ z <= x + Span

LEMMA NeverHeldStays ==
  ASSUME NEW C, NEW G \in SUBSET Slot, C \subseteq G, Prefix(C, G), NEW id, NeverHeld(C, id)
  PROVE  NeverHeld(G, id)
<1>1. PICK unknown \in SUBSET Unresolved : \A E \in SUBSET Slot :
        C \subseteq E /\ Prefix(C, E) => ~Owns(E, Slot \ unknown, id)
  BY DEF NeverHeld
<1>2. ASSUME NEW E \in SUBSET Slot, G \subseteq E, Prefix(G, E)
      PROVE  C \subseteq E /\ Prefix(C, E)
  BY <1>2 DEF Prefix
<1> QED
  BY <1>1, <1>2 DEF NeverHeld

(* What no window owns when its last block has come, none will ever own.   *)
LEMMA NotHeldYet ==
  ASSUME NEW C \in SUBSET Slot, NEW unknown \in SUBSET Unresolved, NEW id \in Sandwich,
         LegsOf[id] \subseteq C, ~Owns(C, Slot \ unknown, id)
  PROVE  NeverHeld(C, id)
<1> SUFFICES ASSUME NEW E \in SUBSET Slot, C \subseteq E, Prefix(C, E),
                    NEW v \in Windows(E, Slot \ unknown), id \in Owned(v)
             PROVE  FALSE
  BY DEF NeverHeld, Owns
<1> DEFINE u == [left |-> v.left \cap C, right |-> v.right \cap C]
<1>1. LegsOf[id] \subseteq Blocks(v) /\ Earliest(LegsOf[id]) \in v.left \cap C
  BY LegEnds DEF Owned
<1>2. u \in Windows(C, Slot \ unknown)
  BY <1>1, PrefixWindow
<1>3. id \in Owned(u)
  BY <1>1 DEF Owned, Blocks
<1> QED
  BY <1>2, <1>3 DEF Owns

(* Without gaps, only the last rotation has no successor.                  *)
LEMMA LastRotation ==
  ASSUME NEW C \in SUBSET Slot, Gapless(C), NEW known,
         NEW w \in Windows(C, known), w.right = {}, NEW f \in w.left,
         NEW x \in C, f <= x
  PROVE  x \in w.left
<1> DEFINE starts == Breaks(C, known)
           p == Latest(w.left)
<1>1. C \in SUBSET Nat /\ starts \in SUBSET C /\ Span \in Nat
  BY WindowAssumption DEF Breaks
<1>2. PICK b \in starts : HasParts(C, known, w, b)
  BY WindowShape
<1>3. /\ w.left = RotationAt(C, starts, b) /\ p \in w.left
      /\ Successor(C, starts, w.left) = {}
      /\ \A y \in w.left : y \in C /\ y \in Nat /\ b <= y /\ y <= p
  BY <1>2 DEF HasParts
<1>4. p \in C /\ p \in Nat /\ x \in Nat /\ f \in Nat /\ f <= p /\ b \in Nat /\ b <= p
  BY <1>1, <1>3
<1>5. CASE x <= p
  BY <1>1, <1>3, <1>4, <1>5, RotationConvex
<1>6. CASE ~(x <= p)
  <2>0. p < x
    BY <1>4, <1>6
  <2>1. PICK z \in C : p < z /\ z <= p + Span
    BY <1>4, <2>0 DEF Gapless
  <2> DEFINE later == {y \in C : p < y}
  <2>2. later \in SUBSET Nat /\ z \in later
    BY <1>1, <2>1
  <2>3. PICK c \in later : \A y \in later : c <= y
    BY <2>2, LeastIndex
  <2>4. c \in C /\ p < c /\ c \in Nat /\ z \in Nat /\ c <= z
    BY <2>2, <2>3
  <2>5. c <= p + Span
    BY <1>1, <1>4, <2>1, <2>4
  <2>6. \A e \in C : ~(p < e /\ e < c)
    <3> SUFFICES ASSUME NEW e \in C, p < e, e < c PROVE FALSE
      OBVIOUS
    <3>1. c <= e /\ e \in Nat
      BY <1>1, <2>3
    <3> QED
      BY <2>4, <3>1
  <2>7. c \in starts
    <3> SUFFICES ASSUME c \notin starts PROVE FALSE
      OBVIOUS
    <3>1. ASSUME NEW e \in starts, b < e, e <= c PROVE FALSE
      <4>1. e \in Nat /\ e \in C /\ e # c
        BY <1>1, <3>1
      <4>2. e <= p
        BY <1>4, <2>4, <2>6, <3>1, <4>1
      <4> QED
        BY <1>3, <3>1, <4>2 DEF RotationAt
    <3>2. c >= b
      BY <1>4, <2>4
    <3>3. c \in w.left
      BY <1>3, <2>4, <3>1, <3>2 DEF RotationAt
    <3>4. c <= p
      BY <1>3, <3>3
    <3> QED
      BY <1>4, <2>4, <3>4
  <2>8. \A e \in starts : ~(p < e /\ e < c)
    BY <1>1, <2>6
  <2>9. Successor(C, starts, w.left) = RotationAt(C, starts, c)
    BY <1>1, <1>4, <2>4, <2>5, <2>7, <2>8, SuccessorOf
  <2>10. c \in RotationAt(C, starts, c)
    BY <1>1, <2>7, StartIsInRotation
  <2> QED
    BY <1>3, <2>9, <2>10
<1> QED
  BY <1>5, <1>6

(* A batch no larger than the cache is in it as a whole.                   *)
LEMMA RingHoldsBatch ==
  ASSUME NEW q \in Seq(Slot), Len(q) <= CacheSize, NEW S \in SUBSET Slot,
         Cardinality(S) <= CacheSize
  PROVE  S \subseteq Elems(PutAll(q, S))
<1> DEFINE r == PutAll(q, S)
           A == Ascending(S)
           c == Cardinality(S)
           d == Dropped(q, S)
           n == Len(q) + c - d
<1>1. /\ d \in Nat /\ n \in Nat /\ r \in Seq(Slot) /\ Len(r) = n
      /\ \A i \in 1..n : r[i] = IF i + d <= Len(q) THEN q[i + d] ELSE A[i + d - Len(q)]
  BY RingOfBlocks
<1>2. A \in Seq(S) /\ Len(A) = c /\ c \in Nat /\ Elems(A) = S
  BY AscendingBlocks
<1>3. /\ Len(q) \in Nat /\ DOMAIN r = 1..n /\ DOMAIN A = 1..c /\ CacheSize \in Nat
  BY <1>1, <1>2, StreamAssumption
<1>4. d <= Len(q)
  BY <1>2, <1>3 DEF Dropped
<1> HIDE DEF r, A, c, d
<1> SUFFICES ASSUME NEW k \in 1..c PROVE A[k] \in Elems(r)
  BY <1>2, <1>3 DEF Elems, r
<1>5. Len(q) + k - d \in 1..n /\ (Len(q) + k - d) + d - Len(q) = k
      /\ ~((Len(q) + k - d) + d <= Len(q))
  BY <1>1, <1>2, <1>3, <1>4
<1>6. r[Len(q) + k - d] = A[k]
  BY <1>1, <1>5
<1> QED
  BY <1>3, <1>5, <1>6 DEF Elems

(* A backfill has every certain block behind its frontier; what it retries *)
(* may be missing; and it defers a last rotation only while it has not     *)
(* come to the last slot.                                                  *)
EndInv ==
  /\ \A x \in chain : x <= EndSlot
  /\ \A x \in chain, z \in Produced \ Flaky : x < z /\ z < s /\ z <= EndSlot => z \in chain
  /\ failed \cap Produced \subseteq Flaky /\ late \subseteq Flaky
  /\ pc = "scan" /\ deferTail => s <= EndSlot
  /\ pc = "done" => s > EndSlot

LEMMA EndStep ==
  ASSUME ~Live, RowInv, FrontierInv, EndInv, [Next]_vars
  PROVE  EndInv'
<1>1. /\ Slot \subseteq Nat /\ Produced \subseteq Slot /\ BatchNum \in Nat
      /\ BatchNum > 0 /\ s \in Nat /\ EndSlot \in Nat
  BY WindowAssumption, StreamAssumption DEF RowInv
<1>2. CASE FetchBackfill
  <2> DEFINE slots == s..EndSlot \cap s..(s + BatchNum - 1)
  <2>1. PICK got \in Answers(slots) : /\ blocks' = got /\ chain' = chain \cup got
                                      /\ failed' = failed \cup Missing(slots, got)
    BY <1>2 DEF FetchBackfill
  <2>2. /\ late' = late /\ pc' = "scan" /\ s' = s + BatchNum /\ s <= EndSlot
        /\ deferTail' = (EndSlot \notin slots)
    BY <1>2 DEF FetchBackfill
  <2>3. \A x : x \in slots <=> x \in Nat /\ s <= x /\ x <= EndSlot /\ x < s + BatchNum
    BY <1>1
  <2>4. /\ \A x \in got : x \in slots /\ x \in Produced
        /\ \A z \in Produced \ Flaky : z \in slots => z \in got
    BY <2>1 DEF Answers
  <2> HIDE DEF slots
  <2>5. \A x \in chain' : x <= EndSlot
    BY <2>1, <2>3, <2>4 DEF EndInv
  <2>6. ASSUME NEW x \in chain', NEW z \in Produced \ Flaky, x < z, z < s', z <= EndSlot
        PROVE  z \in chain'
    <3>1. x \in Nat /\ z \in Nat /\ z < s + BatchNum
      BY <1>1, <2>1, <2>2, <2>3, <2>4, <2>6 DEF FrontierInv
    <3>2. CASE z < s
      <4>1. x \notin got
        BY <1>1, <2>3, <2>4, <2>6, <3>1, <3>2
      <4> QED
        BY <2>1, <2>6, <3>2, <4>1 DEF EndInv
    <3>3. CASE ~(z < s)
      BY <1>1, <2>1, <2>3, <2>4, <2>6, <3>1, <3>3
    <3> QED
      BY <3>2, <3>3
  <2>7. failed' \cap Produced \subseteq Flaky
    BY <2>1, <2>4 DEF EndInv, Missing
  <2>8. deferTail' => s' <= EndSlot
    <3> SUFFICES ASSUME EndSlot \notin slots PROVE s' <= EndSlot
      BY <2>2
    <3>1. ~(EndSlot < s + BatchNum)
      BY <1>1, <2>2, <2>3
    <3> QED
      BY <1>1, <2>2, <3>1
  <2> QED
    BY <2>2, <2>5, <2>6, <2>7, <2>8 DEF EndInv
<1>3. CASE FetchRetry
  <2>1. PICK got \in Answers(failed) : blocks' = got /\ late' = late \cup got
    BY <1>3 DEF FetchRetry
  <2>2. UNCHANGED <<s, chain>> /\ failed' = {} /\ deferTail' = FALSE /\ pc' = "scan"
    BY <1>3 DEF FetchRetry
  <2>3. late' \subseteq Flaky
    BY <2>1 DEF Answers, EndInv
  <2> QED
    BY <2>2, <2>3 DEF EndInv
<1>4. CASE /\ UNCHANGED <<s, failed, chain, late, deferTail>> /\ (pc' = "scan" => pc = "scan")
           /\ pc' = "done" => s > EndSlot
  BY <1>4 DEF EndInv
<1>5. CASE Exit
  BY <1>4, <1>5 DEF Exit, batchVars, history
<1>6. CASE Scan \/ InsertSandwiches \/ InsertSandwichTxs \/ InsertSlotTxs
  <2>1. UNCHANGED <<s, failed, chain, late, deferTail>> /\ pc' \notin {"scan", "done"}
    BY <1>6 DEF Scan, InsertSandwiches, InsertSandwichTxs, InsertSlotTxs, batchVars,
       history, AfterError
  <2> QED
    BY <1>4, <2>1
<1>7. CASE (\E id \in Sandwich : Report(id)) \/ TipAdvances \/ UNCHANGED vars
  <2>1. UNCHANGED <<pc, s, failed, chain, late, deferTail>>
    BY <1>7 DEF Report, TipAdvances, vars, batchVars, history
  <2> QED
    BY <1>4, <2>1 DEF EndInv
<1>8. ~FetchLive
  BY DEF FetchLive
<1> QED
  BY <1>2, <1>3, <1>5, <1>6, <1>7, <1>8 DEF Next, Work

(* What is not handled is owned by no window of what has been scanned, and *)
(* never will be, or only by the last one, until the last slot has come.   *)
HeldInv ==
  \A id \in Sandwich :
    \/ Handled(id) \/ NeverHeld(Scanned, id)
    \/ \A w \in Windows(Scanned, Slot \ Unknown) :
         id \in Owned(w) => w.right = {} /\ EndSlot \notin Scanned

LEMMA ChainGapless ==
  ASSUME NoTurnSkipped, RowInv, FrontierInv, EndInv
  PROVE  Gapless(chain) /\ Gapless(Scanned)
<1>1. Slot \subseteq Nat /\ Produced \subseteq Slot /\ s \in Nat /\ EndSlot \in Nat
      /\ Scanned \subseteq chain /\ chain \subseteq Produced /\ Span \in Nat
  BY WindowAssumption, StreamAssumption DEF RowInv, FrontierInv, Scanned
<1>2. \A x \in Scanned, z \in chain, y \in Scanned : x < z /\ z <= y => z \in Scanned
  <2> SUFFICES ASSUME NEW z \in chain, NEW y \in Scanned, z <= y, z \notin Scanned PROVE FALSE
    OBVIOUS
  <2>1. pc = "scan" /\ z \in blocks
    BY DEF Scanned
  <2>2. y < z
    BY <2>1 DEF FrontierInv, FirstPass
  <2>3. y \in Nat /\ z \in Nat
    BY <1>1
  <2> QED
    BY <2>2, <2>3
<1>3. ASSUME NEW C \in SUBSET chain,
             \A x \in C, z \in chain, y \in C : x < z /\ z <= y => z \in C
      PROVE  Gapless(C)
  <2> SUFFICES ASSUME NEW x \in C, NEW y \in C, x < y
               PROVE  \E z \in C : x < z /\ z <= x + Span
    BY DEF Gapless
  <2>1. x \in Nat /\ y \in Nat /\ y <= EndSlot /\ y < s /\ x \in Produced
    BY <1>1 DEF FrontierInv, EndInv
  <2>2. PICK z \in Produced \ Flaky : x < z /\ z <= x + Span
    BY <1>1, <2>1 DEF NoTurnSkipped
  <2>3. z \in Nat
    BY <1>1
  <2>4. CASE z <= y
    <3>1. z < s /\ z <= EndSlot
      BY <1>1, <2>1, <2>3, <2>4
    <3>2. z \in chain
      BY <2>2, <3>1 DEF EndInv
    <3> QED
      BY <1>3, <2>2, <2>4, <3>2
  <2>5. CASE ~(z <= y)
    <3>1. y <= x + Span
      BY <1>1, <2>1, <2>2, <2>3, <2>5
    <3> QED
      BY <3>1
  <2> QED
    BY <2>4, <2>5
<1>4. Gapless(chain)
  BY <1>3
<1>5. Gapless(Scanned)
  <2>1. PICK C \in SUBSET chain : C = Scanned
    BY <1>1
  <2> QED
    BY <1>2, <1>3, <2>1
<1> QED
  BY <1>4, <1>5

LEMMA LastSlotComes ==
  ASSUME NoTurnSkipped, RowInv, FrontierInv, EndInv, s > EndSlot, NEW x \in chain
  PROVE  EndSlot \in chain
<1>1. x \in Nat /\ EndSlot \in Nat /\ x <= EndSlot /\ s \in Nat
  BY WindowAssumption, StreamAssumption DEF RowInv, FrontierInv, EndInv
<1>2. CASE x = EndSlot
  BY <1>2
<1>3. CASE x < EndSlot
  BY <1>1, <1>3 DEF EndInv, NoTurnSkipped
<1> QED
  BY <1>1, <1>2, <1>3

LEMMA HeldAfterScan ==
  ASSUME CacheCovers, NoTurnSkipped, ~Live, LagInv, EndInv, HeldInv, Scan, blocks # {},
         NEW id \in Sandwich, ~Handled(id)',
         NEW w \in Windows(chain, Slot \ Unknown'), id \in Owned(w),
         w.right # {} \/ EndSlot \in chain
  PROVE  NeverHeld(chain, id)
<1> DEFINE C == chain \ blocks
           f == Earliest(LegsOf[id])
<1>1. /\ pc = "scan" /\ Scanned = C /\ chain \in SUBSET Slot /\ C \in SUBSET Slot
      /\ Prefix(C, chain) /\ C \subseteq chain /\ Slot \subseteq Nat
      /\ Unknown' \cap C \subseteq Unknown /\ Unknown \in SUBSET Unresolved
  BY ScanContext, WindowAssumption
<1>2. RowInv /\ FrontierInv /\ s \in Nat /\ EndSlot \in Nat
  BY StreamAssumption DEF LagInv, CacheInv, RowInv
<1>3. w.right # {} \/ ~deferTail
  <2>1. EndSlot \in chain => EndSlot < s
    BY DEF LagInv, FrontierInv
  <2>2. deferTail => s <= EndSlot
    BY <1>1 DEF EndInv
  <2>3. ~(EndSlot < s /\ s <= EndSlot)
    BY <1>2
  <2> QED
    BY <2>1, <2>2, <2>3
<1>4. \A z \in Blocks(w) : z \notin blocks
  BY <1>3, FoundWithBatch DEF Handled
<1>5. /\ Blocks(w) \subseteq C /\ LegsOf[id] \subseteq C
      /\ f \in w.left /\ f \in C /\ f \in LegsOf[id]
  BY <1>1, <1>4, PairsOfWindows, LegEnds DEF Owned, Blocks
<1>6. ~Handled(id)
  BY ReportStep DEF LagInv, Next, Work
<1>7. CASE NeverHeld(C, id)
  BY <1>1, <1>7, NeverHeldStays
<1>8. CASE ~Owns(C, Slot \ Unknown, id)
  BY <1>1, <1>5, <1>8, NotHeldYet, NeverHeldStays
<1>9. ASSUME NEW v \in Windows(C, Slot \ Unknown), id \in Owned(v),
             v.right = {}, EndSlot \notin C
      PROVE  FALSE
  <2>1. Gapless(chain) /\ Gapless(C)
    BY <1>1, <1>2, ChainGapless
  <2>2. FirstPass
    <3> SUFFICES ASSUME blocks \cap chain = {} PROVE FALSE
      BY <1>1, <1>2 DEF FrontierInv
    <3>1. late # {}
      BY <1>2 DEF FrontierInv
    <3>2. s > EndSlot
      BY <1>2, <3>1 DEF FrontierInv
    <3>3. EndSlot \in chain
      BY <1>1, <1>2, <1>5, <3>2, LastSlotComes
    <3> QED
      BY <1>9, <3>3
  <2>3. PICK z \in blocks : z \in chain /\ f < z
    BY <1>1, <1>5, <2>2 DEF FirstPass
  <2> HIDE DEF f
  <2>4. w.right # {}
    <3> SUFFICES ASSUME w.right = {} PROVE FALSE
      OBVIOUS
    <3>1. f <= z
      BY <1>1, <1>5, <2>3
    <3>2. z \in w.left
      BY <1>1, <1>5, <2>1, <2>3, <3>1, LastRotation
    <3> QED
      BY <1>4, <2>3, <3>2 DEF Blocks
  <2> HIDE DEF C
  <2>5. f \in v.left
    BY <1>9 DEF Owned, f
  <2>6. \A x \in C : f <= x => x \in v.left
    BY <1>1, <1>9, <2>1, <2>5, LastRotation
  <2>7. PICK b \in Breaks(chain, Slot \ Unknown') : HasParts(chain, Slot \ Unknown', w, b)
    BY <1>1, WindowShape
  <2>8. PICK c \in Breaks(chain, Slot \ Unknown') :
          /\ c \in w.right /\ Latest(w.left) < c /\ Latest(w.left) \in Nat
          /\ \A y \in w.left : y <= Latest(w.left)
    BY <2>4, <2>7 DEF HasParts
  <2>9. c \in C /\ f < c
    <3>1. c \in C /\ c \in Nat /\ f \in Nat
      BY <1>1, <1>5, <2>8 DEF Blocks
    <3> QED
      BY <1>5, <2>8, <3>1
  <2>10. \A x \in C : f <= x /\ x \in Slot \ Unknown => x \in Slot \ Unknown'
    BY <1>1
  <2>11. Prefix(C, C)
    BY DEF Prefix
  <2>12. c \notin Breaks(chain, Slot \ Unknown')
      <3>1. PICK known, more : known = Slot \ Unknown /\ more = Slot \ Unknown'
      OBVIOUS
    <3>2. /\ v \in Windows(C, known) /\ f \in v.left \cap C /\ c \in C /\ f < c
          /\ \A x \in C : f <= x => x \in v.left
          /\ \A x \in C : f <= x /\ x \in known => x \in more
      BY <1>5, <1>9, <2>5, <2>6, <2>9, <2>10, <3>1
    <3>3. /\ C \in SUBSET Slot /\ C \subseteq C /\ Prefix(C, C)
          /\ chain \in SUBSET Slot /\ C \subseteq chain /\ Prefix(C, chain)
      BY <1>1, <2>11
    <3>4. c \notin Breaks(chain, more)
      BY <3>2, <3>3, StillOneRotation
    <3> QED
      BY <3>1, <3>4
  <2> QED
    BY <2>8, <2>12
<1>10. \/ NeverHeld(C, id)
       \/ \A v \in Windows(C, Slot \ Unknown) :
            id \in Owned(v) => v.right = {} /\ EndSlot \notin C
  BY <1>1, <1>6 DEF HeldInv
<1> QED
  BY <1>7, <1>8, <1>9, <1>10 DEF Owns

LEMMA HeldStep ==
  ASSUME CacheCovers, NoTurnSkipped, ~Live, LagInv, EndInv, HeldInv, [Next]_vars
  PROVE  HeldInv'
<1>1. \A id \in Sandwich : Handled(id) => Handled(id)'
  BY ReportStep DEF LagInv
<1> SUFFICES ASSUME NEW id \in Sandwich, ~Handled(id)'
             PROVE  \/ NeverHeld(Scanned', id)
                    \/ \A w \in Windows(Scanned', Slot \ Unknown') :
                         id \in Owned(w) => w.right = {} /\ EndSlot \notin Scanned'
  BY DEF HeldInv, NeverHeld, Owns
<1>2. \/ NeverHeld(Scanned, id)
      \/ \A w \in Windows(Scanned, Slot \ Unknown) :
           id \in Owned(w) => w.right = {} /\ EndSlot \notin Scanned
  BY <1>1 DEF HeldInv
<1>3. CASE Scan /\ blocks # {}
  <2>1. Scanned' = chain
    BY <1>3, ScanContext
  <2> QED
    BY <1>3, <2>1, HeldAfterScan
<1>4. CASE Scan /\ blocks = {}
  <2>1. Scanned' = Scanned /\ Unknown' = Unknown
    BY <1>4 DEF Scan, Scanned, Unknown, Elems, history
  <2> QED
    BY <1>2, <2>1
<1>5. CASE ~Scan
  <2>1. Scanned' = Scanned
    BY <1>5, FrontierStep DEF LagInv, CacheInv
  <2>2. UNCHANGED <<cache, leaders>>
    BY <1>5 DEF Next, Work, TipAdvances, FetchLive, FetchBackfill, FetchRetry, Exit, Report,
       InsertSandwiches, InsertSandwichTxs, InsertSlotTxs, vars, memory
  <2>3. Unknown' = Unknown
    BY <2>2 DEF Unknown, Elems
  <2> QED
    BY <1>2, <2>1, <2>3
<1> QED
  BY <1>3, <1>4, <1>5

(* What is in one block that came with the retry pass is handled when that *)
(* has been scanned.                                                       *)
LateInv ==
  \/ pc = "scan" /\ late \subseteq blocks
  \/ \A x \in late, id \in Sandwich : LegsOf[id] = {x} => Handled(id)

LEMMA LateFound ==
  ASSUME LagInv, EndInv, Cardinality(Flaky) <= CacheSize, Scan, late \subseteq blocks,
         NEW x \in late, NEW id \in Sandwich, LegsOf[id] = {x}
  PROVE  Handled(id)'
<1> DEFINE q == PutAll(cache, blocks)
           S == Elems(q)
           starts == Breaks(S, leaders')
<1>1. blocks # {} /\ x \in blocks
  OBVIOUS
<1>2. /\ pc = "scan" /\ blocks \in SUBSET Slot /\ q \in Seq(Slot)
      /\ found' = FoundIn(DueWindows(S, leaders', blocks, deferTail))
  BY <1>1, ScanContext
<1>3. ~deferTail
  <2>1. s > EndSlot /\ s \in Nat /\ EndSlot \in Nat
    BY StreamAssumption DEF LagInv, CacheInv, RowInv, FrontierInv
  <2> QED
    BY <1>2, <2>1 DEF EndInv
<1>4. blocks \subseteq Flaky
  <2>1. blocks \cap chain = {}
    BY <1>2 DEF LagInv, FrontierInv, FirstPass
  <2> QED
    BY <2>1 DEF LagInv, FrontierInv, EndInv
<1>5. Cardinality(blocks) <= CacheSize
  <2>1. IsFiniteSet(Flaky)
    BY WindowAssumption, StreamAssumption, FS_Subset
  <2>2. Cardinality(blocks) <= Cardinality(Flaky) /\ IsFiniteSet(blocks)
    BY <1>4, <2>1, FS_Subset
  <2>3. Cardinality(blocks) \in Nat /\ Cardinality(Flaky) \in Nat /\ CacheSize \in Nat
    BY <2>1, <2>2, FS_CardinalityType, StreamAssumption
  <2> QED
    BY <2>2, <2>3
<1>6. x \in S
  BY <1>1, <1>2, <1>5, RingHoldsBatch DEF LagInv, CacheInv
<1>7. S \in SUBSET Slot
  BY <1>2, ElementOfSeq DEF Elems
<1> HIDE DEF q, S
<1>8. PICK b \in starts : x \in RotationAt(S, starts, b)
  BY <1>6, <1>7, EveryBlockTurns
<1> DEFINE rot == RotationAt(S, starts, b)
           w == [left |-> rot, right |-> Successor(S, starts, rot)]
<1>9. w \in Windows(S, leaders')
  BY DEF Windows
<1>10. w \in DueWindows(S, leaders', blocks, deferTail)
  BY <1>1, <1>3, <1>8, <1>9 DEF DueWindows, Blocks
<1>11. id \in Owned(w)
  <2>1. Earliest(LegsOf[id]) = x
    BY LegEnds
  <2> QED
    BY <1>8, <2>1 DEF Owned, Blocks
<1> QED
  BY <1>2, <1>10, <1>11 DEF Handled, FoundIn

LEMMA LateStep ==
  ASSUME ~Live, LagInv, EndInv, LateInv, Cardinality(Flaky) <= CacheSize, [Next]_vars
  PROVE  LateInv'
<1>1. \A id \in Sandwich : Handled(id) => Handled(id)'
  BY ReportStep DEF LagInv
<1>2. CASE Scan
  <2>1. late' = late
    BY <1>2 DEF Scan, history
  <2> QED
    BY <1>1, <1>2, <2>1, LateFound DEF LateInv
<1>3. CASE FetchRetry
  <2>1. PICK got \in Answers(failed) : blocks' = got /\ late' = late \cup got
    BY <1>3 DEF FetchRetry
  <2>2. late = {} /\ pc' = "scan"
    BY <1>3 DEF FetchRetry, LagInv, FrontierInv
  <2> QED
    BY <2>1, <2>2 DEF LateInv
<1>4. CASE late' = late /\ pc # "scan"
  BY <1>1, <1>4 DEF LateInv
<1>5. CASE UNCHANGED <<pc, blocks, late>>
  BY <1>1, <1>5 DEF LateInv
<1>6. CASE FetchBackfill \/ Exit \/ InsertSandwiches \/ InsertSandwichTxs \/ InsertSlotTxs
  BY <1>4, <1>6 DEF FetchBackfill, Exit, InsertSandwiches, InsertSandwichTxs, InsertSlotTxs,
     history
<1>7. CASE (\E id \in Sandwich : Report(id)) \/ TipAdvances \/ UNCHANGED vars
  BY <1>5, <1>7 DEF Report, TipAdvances, vars, batchVars, history
<1>8. ~FetchLive
  BY DEF FetchLive
<1> QED
  BY <1>2, <1>3, <1>6, <1>7, <1>8 DEF Next, Work

(* A backfill leaves nothing behind: what the windows of the whole chain   *)
(* hold, whatever the batches were and whichever blocks and leaders were   *)
(* missing, and what one late block holds, has been stored or its INSERT   *)
(* failed, as long as no leader skips a whole turn, the runs of the        *)
(* leaders fit into the cache, and so do the blocks the retry pass brings  *)
(* (sandwich.go:94-98, backfill.go:156, 162).                              *)
THEOREM NothingLeftBehind ==
  ASSUME ~Live, CacheCovers, NoTurnSkipped, Cardinality(Flaky) <= CacheSize
  PROVE  Spec => []NoneLeftPending
<1> DEFINE Inv == LagInv /\ EndInv /\ HeldInv /\ LateInv
<1>1. Init => Inv
  <2> SUFFICES ASSUME Init PROVE Inv
    OBVIOUS
  <2>1. pc = "fetch" /\ failed = {} /\ chain = {} /\ late = {}
    BY DEF Init
  <2>2. Scanned = {}
    BY <2>1 DEF Scanned
  <2>3. HeldInv
    BY <2>2 DEF HeldInv, Windows, Breaks
  <2> QED
    BY <2>1, <2>3, LagInit DEF EndInv, LateInv
<1>2. Inv /\ [Next]_vars => Inv'
  BY LagStep, EndStep, HeldStep, LateStep DEF LagInv, CacheInv
<1>3. Inv => NoneLeftPending
  <2> SUFFICES ASSUME Inv, pc = "done",
                      NEW id \in Sandwich, id \in WholeChain \/ \E x \in late : LegsOf[id] = {x}
               PROVE  id \in Stored \cup lost
    BY DEF NoneLeftPending, WholeChain, FoundIn, Owned
  <2>1. Scanned = chain /\ s > EndSlot
    BY DEF Scanned, EndInv
  <2>2. Handled(id) => id \in Stored \cup lost
    BY DEF Handled, LagInv, ReportInv, SeenInv
  <2>3. CASE \E x \in late : LegsOf[id] = {x}
    BY <2>2, <2>3 DEF LateInv
  <2>4. CASE id \in WholeChain
    <3> SUFFICES ASSUME ~Handled(id) PROVE FALSE
      BY <2>2
    <3>1. PICK w \in Windows(chain, Slot \ Unresolved) : id \in Owned(w)
      BY <2>4 DEF WholeChain, ChainWindows, FoundIn
    <3>2. chain \in SUBSET Slot /\ Unknown \in SUBSET Unresolved
      BY StreamAssumption DEF LagInv, FrontierInv, ReportInv
    <3>3. ASSUME NEW unknown \in SUBSET Unresolved
          PROVE  Owns(chain, Slot \ unknown, id)
      <4>1. Slot \ Unresolved \subseteq Slot \ unknown
        OBVIOUS
      <4> QED
        BY <3>1, <3>2, <4>1, MoreLeadersOwn DEF Owns
    <3>4. ~NeverHeld(chain, id)
      <4>1. Prefix(chain, chain)
        BY DEF Prefix
      <4> QED
        BY <3>2, <3>3, <4>1 DEF NeverHeld
    <3>5. PICK v \in Windows(chain, Slot \ Unknown) : id \in Owned(v)
      BY <3>2, <3>3 DEF Owns
    <3>6. EndSlot \notin chain
      BY <2>1, <3>4, <3>5 DEF HeldInv
    <3>7. PICK x \in chain : TRUE
      BY <3>5 DEF Windows, Breaks
    <3>8. EndSlot \in chain
      BY <2>1, <3>7, LastSlotComes DEF LagInv, CacheInv
    <3> QED
      BY <3>6, <3>8
  <2> QED
    BY <2>3, <2>4
<1> QED
  BY <1>1, <1>2, <1>3, PTL DEF Spec
=============================================================================
