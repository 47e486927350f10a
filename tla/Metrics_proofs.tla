--------------------------- MODULE Metrics_proofs ---------------------------
(***************************************************************************)
(* Theorems about phases 1, 3 and 4 for every database the detector may    *)
(* have written, every epoch length, range and threshold.                  *)
(***************************************************************************)
EXTENDS ValidatorPairs, Totals

(* A slot lies in the window of one epoch, the one its number divided by   *)
(* the length of an epoch gives.                                           *)
LEMMA OneWindow ==
  ASSUME NEW slot \in Nat, NEW e \in Int
  PROVE  InWindow(slot, e) <=> slot \div SlotsPerEpoch = e
<1> DEFINE n == SlotsPerEpoch
           q == slot \div n
           r == slot % n
<1>1. n \in Nat /\ n > 0
  BY MetricsAssumption
<1>2. q \in Int /\ r \in 0..(n - 1) /\ slot = q * n + r
  <2> HIDE DEF n
  <2> QED
    BY <1>1
<1> HIDE DEF n, q, r
<1>3. ASSUME e < q PROVE ~(slot < (e + 1) * n)
  <2>1. (e + 1) * n <= q * n
    BY <1>1, <1>2, <1>3
  <2> QED
    BY <1>1, <1>2, <2>1
<1>4. ASSUME e > q PROVE ~(e * n <= slot)
  <2>1. (q + 1) * n <= e * n
    BY <1>1, <1>2, <1>4
  <2>2. (q + 1) * n = q * n + n
    BY <1>1, <1>2
  <2> QED
    BY <1>1, <1>2, <2>1, <2>2
<1>5. q * n <= slot /\ slot < (q + 1) * n
  <2>1. (q + 1) * n = q * n + n
    BY <1>1, <1>2
  <2> QED
    BY <1>1, <1>2, <2>1
<1> QED
  BY <1>2, <1>3, <1>4, <1>5 DEF InWindow, n, q

(* _dedup keeps one of the rows with a key.                                *)
LEMMA DedupKeeps ==
  ASSUME NEW rows, \A r \in rows : r.ver \in Nat, NEW key, NEW s \in rows
  PROVE  \E x \in Dedup(rows, key) : \A field \in key : x[field] = s[field]
<1> DEFINE same == {x \in rows : \A field \in key : x[field] = s[field]}
           vers == {x.ver : x \in same}
           R == OpToRel(<, Nat)
<1>1. vers \subseteq Nat /\ s.ver \in vers
  OBVIOUS
<1>2. IsWellFoundedOn(R, Nat)
  BY NatLessThanWellFounded
<1>3. PICK n \in vers : \A m \in vers : <<m, n>> \notin R
  <2> HIDE DEF R, vers
  <2> QED
    BY <1>1, <1>2, WFMin
<1>4. PICK x \in same : x.ver = n
  BY <1>3
<1>5. ASSUME NEW y \in rows, \A field \in key : x[field] = y[field]
      PROVE  x.ver <= y.ver
  <2>1. y \in same
    BY <1>4, <1>5
  <2>2. y.ver \in vers /\ y.ver \in Nat /\ n \in Nat
    BY <2>1, <1>1, <1>3
  <2>3. ~(y.ver < n)
    BY <2>2, <1>3 DEF OpToRel
  <2> QED
    BY <2>2, <2>3, <1>4
<1> QED
  BY <1>4, <1>5 DEF Dedup

-----------------------------------------------------------------------------
(* Phase 1.  The rows so far are those of the epochs so far, one for each  *)
(* sandwich.                                                               *)
RowsOf(e) == {s \in world.sandwiches : InScope(s) /\ InWindow(s.slot, e)}

EpochsSoFar == {e \in FirstEpoch..LastEpoch : e < epoch}

MInv ==
  /\ world \in Worlds /\ epoch \in Nat /\ epoch >= FirstEpoch
  /\ pc \notin {"epochs", "raised"} => epoch > LastEpoch
  /\ \A m \in metrics : \E e \in EpochsSoFar : \E s \in RowsOf(e) : m.id = s.id
  /\ \A e \in EpochsSoFar : \A s \in RowsOf(e) : \E m \in metrics : m.id = s.id
  /\ \A m, x \in metrics : m.id = x.id => m = x

LEMMA FetchedIds ==
  ASSUME world \in Worlds, NEW e
  PROVE  /\ Fetched(e) \subseteq RowsOf(e)
         /\ \A s \in RowsOf(e) : \E x \in Fetched(e) : x.id = s.id
         /\ \A s, x \in Fetched(e) : s.id = x.id => s = x
<1>1. Fetched(e) = Dedup(RowsOf(e), SandwichKey)
  BY DEF Fetched, RowsOf
<1>2. RowsOf(e) \subseteq world.sandwiches
  BY DEF RowsOf
<1>3. Fetched(e) \subseteq RowsOf(e)
  BY <1>1 DEF Dedup
<1>4. \A s \in world.sandwiches : s.ver \in Nat
  BY WorldsAssumption
<1>5. \A s, x \in world.sandwiches :
        s.id = x.id => s.slot = x.slot /\ (s.ver = x.ver => s = x)
  BY WorldsAssumption
<1>6. ASSUME NEW s \in RowsOf(e)
      PROVE  \E x \in Fetched(e) : x.id = s.id
  <2>1. \E x \in Dedup(RowsOf(e), SandwichKey) : \A field \in SandwichKey : x[field] = s[field]
    BY <1>2, <1>4, DedupKeeps
  <2> QED
    BY <1>1, <2>1 DEF SandwichKey
<1>7. ASSUME NEW s \in Fetched(e), NEW x \in Fetched(e), s.id = x.id
      PROVE  s = x
  <2>1. s.ver <= x.ver /\ x.ver <= s.ver
    BY <1>1, <1>3, <1>7 DEF Dedup, SandwichKey
  <2>2. s \in world.sandwiches /\ x \in world.sandwiches
    BY <1>2, <1>3
  <2>3. s.ver = x.ver
    BY <2>1, <2>2, <1>4
  <2> QED
    BY <2>2, <2>3, <1>5, <1>7
<1> QED
  BY <1>3, <1>6, <1>7

LEMMA ProcessEpochStep ==
  ASSUME MInv, ProcessEpoch
  PROVE  MInv'
<1>1. /\ pc = "epochs" /\ epoch <= LastEpoch /\ epoch \in Nat /\ world \in Worlds
      /\ metrics' = metrics \cup {Metric(s, epoch) : s \in Fetched(epoch)}
      /\ epoch' = epoch + 1 /\ world' = world /\ pc' = pc
  BY DEF ProcessEpoch, MInv
<1>2. \A s \in Fetched(epoch) : Metric(s, epoch).id = s.id
  BY DEF Metric
<1> DEFINE new == {Metric(s, epoch) : s \in Fetched(epoch)}
<1>3. \A m \in new : \E s \in RowsOf(epoch) : m.id = s.id
  BY <1>1, <1>2, FetchedIds
<1>4. \A s \in RowsOf(epoch) : \E m \in new : m.id = s.id
  BY <1>1, <1>2, FetchedIds
<1>5. \A m, x \in new : m.id = x.id => m = x
  BY <1>1, <1>2, FetchedIds
<1>6. FirstEpoch \in Nat /\ LastEpoch \in Nat /\ epoch >= FirstEpoch
  BY MetricsAssumption DEF MInv
<1>7. EpochsSoFar' = EpochsSoFar \cup {epoch} /\ epoch \notin EpochsSoFar
  BY <1>1, <1>6 DEF EpochsSoFar
<1>8. \A e : (RowsOf(e))' = RowsOf(e)
  BY <1>1 DEF RowsOf, InScope
<1>9. metrics' = metrics \cup new
  BY <1>1
<1> HIDE DEF new
<1>10. ASSUME NEW m \in metrics, NEW x \in new
       PROVE  m.id # x.id
  <2>0. PICK e \in EpochsSoFar : \E s \in RowsOf(e) : m.id = s.id
    BY DEF MInv
  <2>1. PICK s \in RowsOf(e) : m.id = s.id
    BY <2>0
  <2>2. PICK y \in RowsOf(epoch) : x.id = y.id
    BY <1>3
  <2>3. s \in world.sandwiches /\ y \in world.sandwiches
    BY DEF RowsOf
  <2>4. SUFFICES ASSUME s.id = y.id PROVE FALSE
    BY <2>1, <2>2
  <2>5. s.slot = y.slot /\ s.slot \in Nat
    BY <1>1, <2>3, <2>4, WorldsAssumption
  <2>6. e \in Int /\ epoch \in Int /\ e # epoch
    BY <1>6, <1>7, <1>1 DEF EpochsSoFar
  <2>7. InWindow(s.slot, e) /\ InWindow(s.slot, epoch)
    BY <2>5 DEF RowsOf
  <2> QED
    BY <2>5, <2>6, <2>7, OneWindow
<1>11. \A m, x \in metrics' : m.id = x.id => m = x
  BY <1>5, <1>9, <1>10 DEF MInv
<1>12. \A m \in metrics' : \E e \in EpochsSoFar' : \E s \in RowsOf(e) : m.id = s.id
  BY <1>3, <1>7, <1>9 DEF MInv
<1>13. \A e \in EpochsSoFar' : \A s \in RowsOf(e) : \E m \in metrics' : m.id = s.id
  BY <1>4, <1>7, <1>9 DEF MInv
<1> QED
  BY <1>1, <1>6, <1>8, <1>11, <1>12, <1>13 DEF MInv

LEMMA MInvStep ==
  ASSUME MInv, [PairsNext]_pairVars
  PROVE  MInv'
<1>1. CASE ProcessEpoch
  BY <1>1, ProcessEpochStep
<1>2. CASE ~ProcessEpoch
  <2>1. UNCHANGED <<world, epoch, metrics>>
    BY <1>2 DEF PairsNext, MetricsNext, RaiseOnEpoch, LastEpochDone, JoinGeometry,
                RefuseGeometry, ScorePairs, NoPopulation, Ended, pairVars, metricVars
  <2>2. EpochsSoFar' = EpochsSoFar /\ \A e : (RowsOf(e))' = RowsOf(e)
    BY <2>1 DEF EpochsSoFar, RowsOf, InScope
  <2>3. epoch \in Nat /\ LastEpoch \in Nat
    BY MetricsAssumption DEF MInv
  <2>4. pc' \notin {"epochs", "raised"} => epoch > LastEpoch
    BY <1>2 DEF PairsNext, MetricsNext, RaiseOnEpoch, LastEpochDone, JoinGeometry,
                RefuseGeometry, ScorePairs, NoPopulation, Ended, pairVars, metricVars, MInv
  <2> QED
    BY <2>1, <2>2, <2>4 DEF MInv
<1> QED
  BY <1>1, <1>2

LEMMA SpecMInv == PairsSpec => []MInv
<1>1. PairsInit => MInv
  <2> SUFFICES ASSUME PairsInit PROVE MInv
    OBVIOUS
  <2>1. world \in Worlds /\ pc = "epochs" /\ epoch = FirstEpoch /\ metrics = {}
    BY DEF PairsInit, GeometryInit, MetricsInit
  <2>2. FirstEpoch \in Nat /\ LastEpoch \in Nat
    BY MetricsAssumption
  <2>3. EpochsSoFar = {}
    BY <2>1, <2>2 DEF EpochsSoFar
  <2> QED
    BY <2>1, <2>2, <2>3 DEF MInv
<1> QED
  BY <1>1, MInvStep, PTL DEF PairsSpec

(* Every sandwich of the category and the range has one row, whatever was  *)
(* written twice, however the epochs divide the range and whichever of two *)
(* conflicting rows _dedup keeps.                                          *)
THEOREM EachIsMeasuredOnce == PairsSpec => []EachSandwichOnce
<1>1. MInv => EachSandwichOnce
  <2> SUFFICES ASSUME MInv, pc \notin {"epochs", "raised"}
               PROVE  EachSandwichOnce
    BY DEF EachSandwichOnce
  <2> DEFINE inRange == {s \in world.sandwiches :
                           /\ InScope(s)
                           /\ s.slot \div SlotsPerEpoch \in FirstEpoch..LastEpoch}
  <2>1. EpochsSoFar = FirstEpoch..LastEpoch
    BY MetricsAssumption DEF EpochsSoFar, MInv
  <2>2. \A s \in world.sandwiches : s.slot \in Nat
    BY WorldsAssumption DEF MInv
  <2>3. ASSUME NEW s \in world.sandwiches
        PROVE  s \in inRange <=> \E e \in EpochsSoFar : s \in RowsOf(e)
    <3>1. \A e \in FirstEpoch..LastEpoch :
            InWindow(s.slot, e) <=> s.slot \div SlotsPerEpoch = e
      BY <2>2, OneWindow
    <3> QED
      BY <2>1, <3>1 DEF RowsOf
  <2>4. \A m \in metrics : \E s \in inRange : m.id = s.id
    <3>1. \A e : RowsOf(e) \subseteq world.sandwiches
      BY DEF RowsOf
    <3> HIDE DEF inRange
    <3> QED
      BY <2>3, <3>1 DEF MInv
  <2>5. \A s \in inRange : \E m \in metrics : m.id = s.id
    <3>1. inRange \subseteq world.sandwiches
      OBVIOUS
    <3> HIDE DEF inRange
    <3> QED
      BY <2>3, <3>1 DEF MInv
  <2>6. {m.id : m \in metrics} = {s.id : s \in inRange}
    <3> HIDE DEF inRange
    <3> QED
      BY <2>4, <2>5
  <2> QED
    BY <2>6 DEF EachSandwichOnce, MInv
<1> QED
  BY <1>1, SpecMInv, PTL

-----------------------------------------------------------------------------
(* Scores are fractions <<num, den>> with a positive denominator, compared *)
(* by cross multiplication.                                                *)
Fraction == Int \X (Nat \ {0})

LEMMA AtLeastTotal ==
  ASSUME NEW p \in Fraction, NEW q \in Fraction
  PROVE  AtLeast(p, p) /\ (AtLeast(p, q) \/ AtLeast(q, p))
BY DEF AtLeast, Fraction

LEMMA AtLeastTrans ==
  ASSUME NEW p \in Fraction, NEW q \in Fraction, NEW r \in Fraction,
         AtLeast(p, q), AtLeast(q, r)
  PROVE  AtLeast(p, r)
<1> DEFINE a == p[1] b == p[2] c == q[1] d == q[2] e == r[1] f == r[2]
<1>1. /\ a \in Int /\ b \in Int /\ c \in Int /\ d \in Int /\ e \in Int /\ f \in Int
      /\ b > 0 /\ d > 0 /\ f > 0
  BY DEF Fraction
<1>2. a * d >= c * b /\ c * f >= e * d
  BY DEF AtLeast
<1> HIDE DEF a, b, c, d, e, f
<1>3. (a * d) * f >= (c * b) * f /\ (c * f) * b >= (e * d) * b
  BY <1>1, <1>2
<1>4. (a * f) * d >= (e * b) * d
  BY <1>1, <1>3
<1>5. a * f >= e * b
  BY <1>1, <1>4
<1> QED
  BY <1>5 DEF AtLeast, a, b, c, d, e, f

(* A victim that could be measured has a score in [0, 1].                  *)
LEMMA MeasuredScore ==
  ASSUME NEW v, v.limit \in Int, v.actual \in Int, VictimReason(v) \in Measured
  PROVE  /\ VictimSC(v) \in Fraction
         /\ AtLeast(<<1, 1>>, VictimSC(v))
         /\ v.limitType \in {"output", "input"} /\ v.limit >= 0
<1>1. VictimReason(v) = "ok" \/ VictimReason(v) = "no_protection"
  BY DEF Measured
<1>2. v.limitType \in {"output", "input"} /\ v.limit >= 0
  BY <1>1 DEF VictimReason
<1>3. CASE VictimReason(v) = "no_protection"
  <2>1. VictimSC(v) = <<0, 1>>
    BY <1>3 DEF VictimSC
  <2> QED
    BY <1>2, <2>1 DEF Fraction, AtLeast
<1>4. CASE VictimReason(v) = "ok"
  <2>1. Num(v) \in Int /\ Den(v) \in Nat \ {0}
    BY <1>2, <1>4 DEF VictimReason, Num, Den
  <2>2. VictimSC(v) = IF Num(v) > Den(v) THEN <<1, 1>> ELSE <<Num(v), Den(v)>>
    BY <1>4 DEF VictimSC
  <2>3. CASE Num(v) > Den(v)
    BY <1>2, <2>2, <2>3 DEF Fraction, AtLeast
  <2>4. CASE ~(Num(v) > Den(v))
    <3>1. VictimSC(v) = <<Num(v), Den(v)>>
      BY <2>2, <2>4
    <3> QED
      BY <1>2, <2>1, <2>4, <3>1 DEF Fraction, AtLeast
  <2> QED
    BY <2>3, <2>4
<1> QED
  BY <1>1, <1>3, <1>4

(* Among finitely many protected victims one has the largest score.        *)
LEMMA BestExists ==
  ASSUME NEW P, IsFiniteSet(P), P # {},
         \A v \in P : VictimSC(v) \in Fraction
  PROVE  \E v \in P : \A x \in P : AtLeast(VictimSC(v), VictimSC(x))
<1> DEFINE R == {p \in P \X P : AtLeast(VictimSC(p[1]), VictimSC(p[2]))}
<1>1. \A x, y \in P : <<x, y>> \in R <=> AtLeast(VictimSC(x), VictimSC(y))
  OBVIOUS
<1> HIDE DEF R
<1>2. \A x, y \in P : <<x, y>> \in R \/ <<y, x>> \in R
  BY <1>1, AtLeastTotal
<1>3. \A x, y, z \in P : <<x, y>> \in R /\ <<y, z>> \in R => <<x, z>> \in R
  BY <1>1, AtLeastTrans
<1>4. \E v \in P : \A x \in P : <<v, x>> \in R
  BY <1>2, <1>3, GreatestExists
<1> QED
  BY <1>1, <1>4

(* The score of a sandwich stands for every victim.                        *)
CoversVictims(sc, victims) ==
  /\ sc.sc # Nothing <=> (~sc.anomaly /\ ~sc.unprotected)
  /\ ~(sc.anomaly /\ sc.unprotected)
  /\ sc.sc # Nothing =>
       /\ AtLeast(sc.sc, <<1, FloorDen>>) /\ AtLeast(<<1, 1>>, sc.sc)
       /\ sc.reason = "ok"
       /\ \A v \in victims :
            /\ v.limitType \in {"output", "input"} /\ v.limit >= 0
            /\ v.limit > 0 => AtLeast(sc.sc, VictimSC(v))
  /\ sc.unprotected => sc.reason = "no_protection"

LEMMA SandwichSCCovers ==
  ASSUME NEW victims, IsFiniteSet(victims),
         \A v \in victims : v.limit \in Int /\ v.actual \in Int
  PROVE  CoversVictims(SandwichSC(victims), victims)
<1> DEFINE reasons == IF victims = {} THEN {"no_victim"} ELSE {VictimReason(v) : v \in victims}
           best    == CHOOSE v \in victims : Protected(v) /\
                        \A x \in victims : Protected(x) => AtLeast(VictimSC(v), VictimSC(x))
           worst   == CHOOSE r \in reasons : \A x \in reasons :
                        \E i, j \in DOMAIN ReasonPriority :
                          ReasonPriority[i] = r /\ ReasonPriority[j] = x /\ i <= j
           anomaly == reasons \ Measured # {}
           bare    == ~anomaly /\ \A v \in victims : ~Protected(v)
           res     == SandwichSC(victims)
           floor   == <<1, FloorDen>>
<1>1. /\ res.sc = IF anomaly \/ bare THEN Nothing ELSE VictimSC(best)
      /\ res.anomaly = anomaly /\ res.unprotected = bare
      /\ res.reason = IF bare THEN "no_protection" ELSE worst
  BY DEF SandwichSC
<1>2. ~(anomaly /\ bare)
  OBVIOUS
<1>3. floor \in Fraction
  BY MetricsAssumption DEF Fraction
<1>4. ASSUME ~anomaly
      PROVE  /\ victims # {}
             /\ \A v \in victims :
                  /\ VictimReason(v) \in Measured /\ VictimSC(v) \in Fraction
                  /\ AtLeast(<<1, 1>>, VictimSC(v))
                  /\ v.limitType \in {"output", "input"} /\ v.limit >= 0
  <2>1. reasons \subseteq Measured
    BY <1>4
  <2>2. victims # {}
    BY <2>1 DEF Measured
  <2>3. \A v \in victims : VictimReason(v) \in Measured
    BY <2>1, <2>2
  <2> QED
    BY <2>2, <2>3, MeasuredScore
<1>5. ASSUME ~anomaly, ~bare
      PROVE  /\ best \in victims /\ Protected(best)
             /\ \A x \in victims : Protected(x) => AtLeast(VictimSC(best), VictimSC(x))
  <2> DEFINE P == {v \in victims : Protected(v)}
  <2>1. P # {} /\ IsFiniteSet(P) /\ \A v \in P : VictimSC(v) \in Fraction
    BY <1>4, <1>5, FS_Subset
  <2>2. PICK b \in P : \A x \in P : AtLeast(VictimSC(b), VictimSC(x))
    <3> HIDE DEF P
    <3> QED
      BY <2>1, BestExists
  <2> QED
    BY <2>2
<1> HIDE DEF best
<1>6. ASSUME ~anomaly, ~bare
      PROVE  worst = "ok"
  <2>1. VictimReason(best) \in Measured /\ AtLeast(VictimSC(best), floor)
    BY <1>5, <1>6 DEF Protected
  <2>2. VictimReason(best) # "no_protection"
    <3>1. SUFFICES ASSUME VictimSC(best) = <<0, 1>> PROVE FALSE
      BY DEF VictimSC
    <3> QED
      BY <2>1, <3>1, MetricsAssumption DEF AtLeast
  <2>3. "ok" \in reasons /\ reasons \subseteq {"ok", "no_protection"}
    BY <1>5, <1>6, <2>1, <2>2 DEF Measured
  <2> HIDE DEF reasons
  <2>4. /\ ReasonPriority[6] = "ok" /\ ReasonPriority[7] = "no_protection"
        /\ DOMAIN ReasonPriority = 1..7
        /\ \A i \in 1..7 : ReasonPriority[i] = "ok" => i = 6
        /\ \A i \in 1..7 : ReasonPriority[i] = "no_protection" => i = 7
    BY DEF ReasonPriority
  <2>5. \A x \in reasons : \E i, j \in DOMAIN ReasonPriority :
          ReasonPriority[i] = "ok" /\ ReasonPriority[j] = x /\ i <= j
    BY <2>3, <2>4
  <2>6. ASSUME NEW r \in reasons,
               \A x \in reasons : \E i, j \in DOMAIN ReasonPriority :
                 ReasonPriority[i] = r /\ ReasonPriority[j] = x /\ i <= j
        PROVE  r = "ok"
    BY <2>3, <2>4, <2>6
  <2> QED
    BY <2>3, <2>5, <2>6
<1> HIDE DEF worst
<1>7. ASSUME ~anomaly, ~bare, NEW v \in victims, v.limit > 0
      PROVE  AtLeast(VictimSC(best), VictimSC(v))
  <2>1. /\ VictimReason(v) \in Measured /\ VictimSC(v) \in Fraction
        /\ VictimSC(best) \in Fraction /\ AtLeast(VictimSC(best), floor)
    BY <1>4, <1>5, <1>7 DEF Protected
  <2>2. CASE Protected(v)
    BY <1>5, <1>7, <2>2
  <2>3. CASE ~Protected(v)
    <3>1. AtLeast(floor, VictimSC(v))
      BY <1>3, <2>1, <2>3, AtLeastTotal DEF Protected
    <3> QED
      BY <1>3, <2>1, <3>1, AtLeastTrans
  <2> QED
    BY <2>2, <2>3
<1>8. ASSUME ~anomaly, ~bare
      PROVE  /\ VictimSC(best) # Nothing
             /\ AtLeast(VictimSC(best), floor) /\ AtLeast(<<1, 1>>, VictimSC(best))
  BY <1>4, <1>5, <1>8, MetricsAssumption DEF Protected, Fraction
<1> HIDE DEF anomaly, bare, res
<1>9. CASE anomaly
  BY <1>1, <1>2, <1>9 DEF CoversVictims, res
<1>10. CASE bare
  BY <1>1, <1>2, <1>10 DEF CoversVictims, res
<1>11. CASE ~anomaly /\ ~bare
  BY <1>1, <1>4, <1>6, <1>7, <1>8, <1>11 DEF CoversVictims, res
<1> QED
  BY <1>9, <1>10, <1>11

LEMMA LegRows ==
  ASSUME world \in Worlds, NEW id, NEW type
  PROVE  /\ Legs(id, type) \subseteq world.legs /\ IsFiniteSet(Legs(id, type))
         /\ \A l \in Legs(id, type) :
              /\ l.id = id /\ l.type = type
              /\ l.slot \in Nat /\ l.pos \in Nat /\ l.limit \in Int /\ l.actual \in Int
<1>1. Legs(id, type) \subseteq {l \in world.legs : l.id = id /\ l.type = type}
  BY DEF Legs, Dedup
<1>2. /\ IsFiniteSet(world.legs)
      /\ \A l \in world.legs : {l.slot, l.pos, l.ver} \subseteq Nat
                               /\ {l.limit, l.actual} \subseteq Int
  BY WorldsAssumption
<1> QED
  BY <1>1, <1>2, FS_Subset

ScoresCover == \A m \in metrics : CoversVictims(m.sc, Legs(m.id, "victim"))

LEMMA ScoresCoverStep ==
  ASSUME MInv, ScoresCover, [PairsNext]_pairVars
  PROVE  ScoresCover'
<1>1. world' = world
  BY DEF PairsNext, MetricsNext, ProcessEpoch, RaiseOnEpoch, LastEpochDone, JoinGeometry,
         RefuseGeometry, ScorePairs, NoPopulation, Ended, pairVars, metricVars
<1>2. \A id, type : (Legs(id, type))' = Legs(id, type)
  BY <1>1 DEF Legs
<1>3. CASE ProcessEpoch
  <2>1. metrics' = metrics \cup {Metric(s, epoch) : s \in Fetched(epoch)}
    BY <1>3 DEF ProcessEpoch
  <2>2. ASSUME NEW s \in Fetched(epoch)
        PROVE  CoversVictims(Metric(s, epoch).sc, Legs(Metric(s, epoch).id, "victim"))
    <3>1. /\ Metric(s, epoch).sc = SandwichSC(Legs(s.id, "victim"))
          /\ Metric(s, epoch).id = s.id
      BY DEF Metric
    <3>2. /\ IsFiniteSet(Legs(s.id, "victim"))
          /\ \A v \in Legs(s.id, "victim") : v.limit \in Int /\ v.actual \in Int
      BY LegRows DEF MInv
    <3> QED
      BY <3>1, <3>2, SandwichSCCovers
  <2> QED
    BY <1>2, <2>1, <2>2 DEF ScoresCover
<1>4. CASE ~ProcessEpoch
  <2>1. metrics' = metrics
    BY <1>4 DEF PairsNext, MetricsNext, RaiseOnEpoch, LastEpochDone, JoinGeometry,
                RefuseGeometry, ScorePairs, NoPopulation, Ended, pairVars, metricVars
  <2> QED
    BY <1>2, <2>1 DEF ScoresCover
<1> QED
  BY <1>3, <1>4

(* compute_victim_sc and aggregate_sc_per_sandwich: whatever the amounts,  *)
(* the floor and the tolerance, a score exists exactly when every victim   *)
(* was measured and one is protected, lies between the floor and 1, and is *)
(* at least the consumption of every victim with a limit.                  *)
THEOREM ScoresCoverVictims == PairsSpec => []ScoreCoversVictims
<1>1. PairsInit => ScoresCover
  BY DEF PairsInit, GeometryInit, MetricsInit, ScoresCover
<1>2. ScoresCover => ScoreCoversVictims
  BY DEF ScoresCover, ScoreCoversVictims, CoversVictims
<1> QED
  BY <1>1, <1>2, ScoresCoverStep, SpecMInv, PTL DEF PairsSpec

-----------------------------------------------------------------------------
(* Phase 4, the cohorts.  The two kinds of links come to one: two          *)
(* attackers are linked when they were flagged with one validator.         *)
Attackers(flagged) == {p[1] : p \in flagged}
Meet(flagged, a, b) == \E p, q \in flagged : p[1] = a /\ q[1] = b /\ p[2] = q[2]

LEMMA LinkedIsMeet ==
  ASSUME NEW flagged, NEW a, NEW b
  PROVE  /\ Linked(flagged, a, b) <=> Meet(flagged, a, b)
         /\ Meet(flagged, a, b) <=> Meet(flagged, b, a)
         /\ Meet(flagged, a, b) <=>
              ValidatorsOf(flagged, a) \cap ValidatorsOf(flagged, b) # {}
<1>1. Meet(flagged, a, b) <=>
        ValidatorsOf(flagged, a) \cap ValidatorsOf(flagged, b) # {}
  BY DEF Meet, ValidatorsOf
<1>2. ASSUME Cardinality(ValidatorsOf(flagged, a) \cap ValidatorsOf(flagged, b)) >= MinShared
      PROVE  ValidatorsOf(flagged, a) \cap ValidatorsOf(flagged, b) # {}
  <2>1. Cardinality({}) = 0 /\ ~(0 >= MinShared)
    BY FS_EmptySet, PairsAssumption
  <2> QED
    BY <1>2, <2>1
<1>3. Meet(flagged, a, b) <=> Meet(flagged, b, a)
  BY DEF Meet
<1> QED
  BY <1>1, <1>2, <1>3 DEF Linked, Meet

(* A cohort is closed under meeting, and no smaller set within it is.      *)
LEMMA CohortIsLeast ==
  ASSUME NEW flagged, NEW C \in Cohorts(flagged)
  PROVE  /\ C \subseteq Attackers(flagged) /\ C # {} /\ Cardinality(C) >= 2
         /\ \A a \in C, b \in Attackers(flagged) : Meet(flagged, a, b) => b \in C
         /\ \A D \in SUBSET C :
              (D # {} /\ \A a \in D, b \in Attackers(flagged) : Meet(flagged, a, b) => b \in D)
                => D = C
<1>1. /\ C \in SUBSET Attackers(flagged) /\ C # {} /\ Cardinality(C) >= 2
      /\ Closed(flagged, C)
      /\ \A D \in SUBSET Attackers(flagged) :
           D # {} /\ Closed(flagged, D) /\ D \subseteq C => D = C
  BY DEF Cohorts, Attackers
<1>2. \A S : Closed(flagged, S) <=>
        \A a \in S, b \in Attackers(flagged) : Meet(flagged, a, b) => b \in S
  BY LinkedIsMeet DEF Closed, Attackers
<1> QED
  BY <1>1, <1>2

(* What attackers of a cohort can be reached along shared validators.      *)
Reach(flagged, a) ==
  {b \in Attackers(flagged) :
     \A S \in SUBSET Attackers(flagged) : Closed(flagged, S) /\ a \in S => b \in S}

LEMMA ReachIsCohort ==
  ASSUME NEW flagged, IsFiniteSet(Attackers(flagged)),
         NEW p \in flagged, NEW q \in flagged, p[1] # q[1], p[2] = q[2]
  PROVE  /\ Reach(flagged, p[1]) \in Cohorts(flagged)
         /\ p[1] \in Reach(flagged, p[1]) /\ q[1] \in Reach(flagged, p[1])
<1> DEFINE A == Attackers(flagged)
           C == Reach(flagged, p[1])
<1>1. p[1] \in A /\ q[1] \in A /\ Meet(flagged, p[1], q[1])
  BY DEF Attackers, Meet
<1>2. \A S : Closed(flagged, S) <=>
        \A a \in S, b \in A : Meet(flagged, a, b) => b \in S
  BY LinkedIsMeet DEF Closed, Attackers
<1>3. \A a, b : Meet(flagged, a, b) <=> Meet(flagged, b, a)
  BY LinkedIsMeet
<1> HIDE DEF A
<1>4. C \in SUBSET A /\ p[1] \in C
  BY <1>1 DEF Reach, A
<1>5. Closed(flagged, C)
  BY <1>2 DEF Reach, A
<1>6. q[1] \in C
  BY <1>1, <1>2, <1>4, <1>5
<1>7. \A S \in SUBSET A : Closed(flagged, S) /\ p[1] \in S => C \subseteq S
  BY DEF Reach, A
<1> HIDE DEF C
<1>8. ASSUME NEW D \in SUBSET A, D # {}, Closed(flagged, D), D \subseteq C
      PROVE  D = C
  <2>1. CASE p[1] \in D
    BY <1>7, <1>8, <2>1
  <2>2. CASE p[1] \notin D
    <3>1. Closed(flagged, C \ D)
      BY <1>2, <1>3, <1>4, <1>5, <1>8
    <3>2. C \ D \in SUBSET A /\ p[1] \in C \ D
      BY <1>4, <2>2
    <3>3. C \subseteq C \ D
      BY <1>7, <3>1, <3>2
    <3> QED
      BY <1>8, <3>3
  <2> QED
    BY <2>1, <2>2
<1>9. Cardinality(C) >= 2
  <2>1. IsFiniteSet(C)
    BY <1>4, FS_Subset DEF A
  <2> DEFINE x == p[1]
             y == q[1]
  <2>2. x \in C /\ y \in C /\ x # y
    BY <1>4, <1>6
  <2> HIDE DEF x, y
  <2>3. /\ {x} \cup {y} \subseteq C /\ IsFiniteSet({x} \cup {y})
        /\ Cardinality({x} \cup {y}) = 2
    <3>1. IsFiniteSet({x}) /\ Cardinality({x}) = 1 /\ y \notin {x}
      BY <2>2, FS_Singleton
    <3>2. /\ IsFiniteSet({x} \cup {y})
          /\ Cardinality({x} \cup {y}) = Cardinality({x}) + 1
      BY <3>1, FS_AddElement
    <3> QED
      BY <2>2, <3>1, <3>2
  <2>4. Cardinality({x} \cup {y}) <= Cardinality(C)
    BY <2>1, <2>3, FS_Subset
  <2> QED
    BY <2>1, <2>3, <2>4, FS_CardinalityType
<1>10. C \in Cohorts(flagged)
  BY <1>4, <1>5, <1>8, <1>9 DEF Cohorts, A, Attackers
<1> QED
  BY <1>4, <1>6, <1>10 DEF C

LEMMA CohortsApart ==
  ASSUME NEW flagged, NEW C \in Cohorts(flagged), NEW D \in Cohorts(flagged),
         NEW a \in C, NEW b \in D, Meet(flagged, a, b)
  PROVE  C = D
<1> DEFINE E == C \cap D
<1>1. b \in E
  BY CohortIsLeast
<1>2. E # {} /\ \A x \in E, y \in Attackers(flagged) : Meet(flagged, x, y) => y \in E
  BY <1>1, CohortIsLeast
<1>3. E = C /\ E = D
  <2>1. E \in SUBSET C /\ E \in SUBSET D
    OBVIOUS
  <2> HIDE DEF E
  <2> QED
    BY <1>2, <2>1, CohortIsLeast
<1> QED
  BY <1>3

LEMMA NobodyAlone ==
  ASSUME NEW flagged, NEW C \in Cohorts(flagged), NEW a \in C
  PROVE  \E b \in C \ {a} : Meet(flagged, a, b)
<1> SUFFICES ASSUME \A b \in C \ {a} : ~Meet(flagged, a, b) PROVE FALSE
  OBVIOUS
<1>1. \A x \in {a}, y \in Attackers(flagged) : Meet(flagged, x, y) => y \in {a}
  BY CohortIsLeast
<1>2. {a} = C
  <2>1. {a} \in SUBSET C /\ {a} # {}
    OBVIOUS
  <2> QED
    BY <1>1, <2>1, CohortIsLeast
<1>3. Cardinality(C) = 1
  BY <1>2, FS_Singleton
<1> QED
  BY <1>3, CohortIsLeast

-----------------------------------------------------------------------------
CohortInv ==
  /\ IsFiniteSet(metrics)
  /\ pc = "scored" => /\ pairs.cohorts = Cohorts(pairs.flagged)
                      /\ IsFiniteSet(Attackers(pairs.flagged))

LEMMA FlaggedIsFinite ==
  ASSUME IsFiniteSet(metrics)
  PROVE  IsFiniteSet(Attackers(Flagged))
<1> DEFINE signers == {m.signer : m \in metrics}
           signer == [m \in metrics |-> m.signer]
<1>1. IsFiniteSet(signers)
  <2>1. signers = {signer[m] : m \in metrics}
    OBVIOUS
  <2> HIDE DEF signers, signer
  <2> QED
    BY <2>1, FiniteImage
<1>2. Attackers(Flagged) \subseteq signers
  BY DEF Attackers, Flagged, Population
<1> QED
  BY <1>1, <1>2, FS_Subset

LEMMA CohortStep ==
  ASSUME MInv, CohortInv, [PairsNext]_pairVars
  PROVE  CohortInv'
<1>1. CASE ProcessEpoch
  <2> DEFINE new == {Metric(s, epoch) : s \in Fetched(epoch)}
  <2>1. IsFiniteSet(Fetched(epoch))
    <3>1. Fetched(epoch) \subseteq world.sandwiches /\ IsFiniteSet(world.sandwiches)
      BY WorldsAssumption DEF Fetched, Dedup, MInv
    <3> QED
      BY <3>1, FS_Subset
  <2>2. IsFiniteSet(new)
    <3> DEFINE row == [s \in Fetched(epoch) |-> Metric(s, epoch)]
    <3>1. new = {row[s] : s \in Fetched(epoch)}
      OBVIOUS
    <3> HIDE DEF new, row
    <3> QED
      BY <2>1, <3>1, FiniteImage
  <2>3. metrics' = metrics \cup new /\ pc' = "epochs"
    BY <1>1 DEF ProcessEpoch
  <2> HIDE DEF new
  <2> QED
    BY <2>2, <2>3, FS_Union DEF CohortInv
<1>2. CASE ScorePairs
  <2>1. /\ pairs' = [flagged |-> Flagged, cohorts |-> Cohorts(Flagged)]
        /\ metrics' = metrics
    BY <1>2 DEF ScorePairs
  <2> QED
    BY <2>1, FlaggedIsFinite DEF CohortInv
<1>3. CASE ~ProcessEpoch /\ ~ScorePairs
  BY <1>3 DEF PairsNext, MetricsNext, RaiseOnEpoch, LastEpochDone, JoinGeometry,
              RefuseGeometry, NoPopulation, Ended, pairVars, metricVars, CohortInv
<1> QED
  BY <1>1, <1>2, <1>3

(* cluster_cohorts, whatever the rows, the rotations and the thresholds:   *)
(* the second kind of link (Linked) is the weaker one, so two attackers    *)
(* with one validator are in one cohort, and two cohorts share none.       *)
THEOREM CohortsShareNothing == PairsSpec => []CohortsOwnValidators
<1>1. PairsInit => CohortInv
  BY FS_EmptySet DEF PairsInit, GeometryInit, MetricsInit, CohortInv
<1>2. CohortInv => CohortsOwnValidators
  <2> SUFFICES ASSUME CohortInv, pc = "scored" PROVE CohortsOwnValidators
    BY DEF CohortsOwnValidators
  <2> DEFINE f == pairs.flagged
             reach(C) == UNION {ValidatorsOf(f, a) : a \in C}
  <2>1. pairs.cohorts = Cohorts(f) /\ IsFiniteSet(Attackers(f))
    BY DEF CohortInv
  <2> HIDE DEF f
  <2>2. ASSUME NEW C \in Cohorts(f), NEW D \in Cohorts(f), reach(C) \cap reach(D) # {}
        PROVE  C = D
    <3>1. PICK a \in C : \E b \in D : ValidatorsOf(f, a) \cap ValidatorsOf(f, b) # {}
      BY <2>2
    <3>2. PICK b \in D : ValidatorsOf(f, a) \cap ValidatorsOf(f, b) # {}
      BY <3>1
    <3>3. Meet(f, a, b)
      BY <3>2, LinkedIsMeet
    <3> QED
      BY <3>3, CohortsApart
  <2>3. ASSUME NEW C \in Cohorts(f), NEW a \in C
        PROVE  \E b \in C \ {a} : ValidatorsOf(f, a) \cap ValidatorsOf(f, b) # {}
    BY NobodyAlone, LinkedIsMeet
  <2>4. ASSUME NEW p \in f, NEW q \in f, p[1] # q[1], p[2] = q[2]
        PROVE  \E C \in Cohorts(f) : p[1] \in C /\ q[1] \in C
    BY <2>1, <2>4, ReachIsCohort
  <2> QED
    BY <2>1, <2>2, <2>3, <2>4 DEF CohortsOwnValidators, f
<1> QED
  BY <1>1, <1>2, CohortStep, SpecMInv, PTL DEF PairsSpec

-----------------------------------------------------------------------------
(* Phase 3, the geometry.  A set of legs has a first and a last one, and a *)
(* deduplicated set has them in the same slots.                            *)
Placed(legs) == \A l \in legs : l.slot \in Nat /\ l.pos \in Nat

LEMMA EndsExist ==
  ASSUME NEW S, IsFiniteSet(S), S # {}, Placed(S)
  PROVE  /\ FirstLeg(S) \in S /\ \A x \in S : ~Before(x, FirstLeg(S))
         /\ LastLeg(S) \in S /\ \A x \in S : ~Before(LastLeg(S), x)
<1> DEFINE R == {p \in S \X S : ~Before(p[1], p[2])}
           Q == {p \in S \X S : ~Before(p[2], p[1])}
<1>1. \A x, y \in S : /\ <<x, y>> \in R <=> ~Before(x, y)
                      /\ <<x, y>> \in Q <=> ~Before(y, x)
  OBVIOUS
<1> HIDE DEF R, Q
<1>2. \A x, y \in S : ~Before(x, y) \/ ~Before(y, x)
  BY DEF Before, Placed
<1>3. \A x, y, z \in S : ~Before(x, y) /\ ~Before(y, z) => ~Before(x, z)
  BY DEF Before, Placed
<1>4. \E v \in S : \A x \in S : <<v, x>> \in R
  BY <1>1, <1>2, <1>3, GreatestExists
<1>5. \E v \in S : \A x \in S : <<v, x>> \in Q
  BY <1>1, <1>2, <1>3, GreatestExists
<1>6. /\ \E v \in S : \A x \in S : ~Before(x, v)
      /\ \E v \in S : \A x \in S : ~Before(v, x)
  BY <1>1, <1>4, <1>5
<1> QED
  BY <1>6 DEF FirstLeg, LastLeg

LEMMA EndsOfCopies ==
  ASSUME NEW S, IsFiniteSet(S), S # {}, Placed(S), NEW D, D \subseteq S,
         \A l \in S : \E d \in D : d.slot = l.slot /\ d.pos = l.pos
  PROVE  FirstLeg(S).slot = FirstLeg(D).slot /\ LastLeg(S).slot = LastLeg(D).slot
<1>1. IsFiniteSet(D) /\ D # {} /\ Placed(D)
  BY FS_Subset DEF Placed
<1> DEFINE f == FirstLeg(S)
           l == LastLeg(S)
           df == FirstLeg(D)
           dl == LastLeg(D)
<1>2. f \in S /\ l \in S /\ \A x \in S : ~Before(x, f) /\ ~Before(l, x)
  BY EndsExist
<1>3. df \in D /\ dl \in D /\ \A x \in D : ~Before(x, df) /\ ~Before(dl, x)
  BY <1>1, EndsExist
<1> HIDE DEF f, l, df, dl
<1>4. df \in S /\ dl \in S
  BY <1>3
<1>5. PICK cf \in D : cf.slot = f.slot /\ cf.pos = f.pos
  BY <1>2
<1>6. PICK cl \in D : cl.slot = l.slot /\ cl.pos = l.pos
  BY <1>2
<1>7. f.slot = df.slot
  <2>1. ~Before(df, f) /\ ~Before(cf, df)
    BY <1>2, <1>3, <1>4, <1>5
  <2> QED
    BY <2>1, <1>2, <1>4, <1>5 DEF Before, Placed
<1>8. l.slot = dl.slot
  <2>1. ~Before(l, dl) /\ ~Before(dl, cl)
    BY <1>2, <1>3, <1>4, <1>6
  <2> QED
    BY <2>1, <1>2, <1>4, <1>6 DEF Before, Placed
<1> QED
  BY <1>7, <1>8 DEF f, l, df, dl

(* All legs of a sandwich of one type, and what the queries of phases 1    *)
(* and 3 make of them.                                                     *)
AllLegs(id, type) == {l \in world.legs : l.id = id /\ l.type = type}

LEMMA AllLegsRows ==
  ASSUME world \in Worlds, NEW id, NEW type
  PROVE  /\ IsFiniteSet(AllLegs(id, type)) /\ Placed(AllLegs(id, type))
         /\ \A l \in AllLegs(id, type) : l.copies \in Nat \ {0}
         /\ Legs(id, type) \subseteq AllLegs(id, type)
         /\ \A l \in AllLegs(id, type) :
              \E d \in Legs(id, type) : d.slot = l.slot /\ d.pos = l.pos
<1>1. AllLegs(id, type) \subseteq world.legs
  BY DEF AllLegs
<1>2. /\ IsFiniteSet(world.legs)
      /\ \A l \in world.legs : {l.slot, l.pos, l.ver} \subseteq Nat /\ l.copies \in Nat \ {0}
  BY WorldsAssumption
<1>3. Legs(id, type) = Dedup(AllLegs(id, type), LegKey)
  BY DEF Legs, AllLegs
<1>4. Legs(id, type) \subseteq AllLegs(id, type)
  BY <1>3 DEF Dedup
<1>5. ASSUME NEW l \in AllLegs(id, type)
      PROVE  \E d \in Legs(id, type) : d.slot = l.slot /\ d.pos = l.pos
  <2>1. \E d \in Dedup(AllLegs(id, type), LegKey) : \A field \in LegKey : d[field] = l[field]
    BY <1>1, <1>2, DedupKeeps
  <2> QED
    BY <2>1, <1>3 DEF LegKey
<1> QED
  BY <1>1, <1>2, <1>4, <1>5, FS_Subset DEF Placed

(* What is joined was located in one epoch of the range.                   *)
GInv ==
  \A g \in geometry :
    /\ \E e \in FirstEpoch..LastEpoch : g.id \in Located(e) /\ g.at = GeometryOf(g.id, e)
    /\ g.class = Classify(g.at)
    /\ g.expected = IF g.at.crossBlock /\ Rotation(g.at.frontSlot) # {}
                    THEN Expected(g.at) ELSE Nothing

LEMMA SameDatabase ==
  ASSUME world' = world
  PROVE  /\ \A e : (Located(e))' = Located(e)
         /\ \A id, e : (GeometryOf(id, e))' = GeometryOf(id, e)
         /\ \A slot : (Rotation(slot))' = Rotation(slot)
         /\ \A g : (Expected(g))' = Expected(g)
<1>1. \A id, e, type : (Nearby(id, e, type))' = Nearby(id, e, type)
  BY DEF Nearby
<1>2. \A slot : (LeaderAt(slot))' = LeaderAt(slot)
  BY DEF LeaderAt
<1>3. \A legs, slot : (LeaderOver(legs, slot))' = LeaderOver(legs, slot)
  BY <1>2 DEF LeaderOver
<1>4. \A legs, leader : (Under(legs, leader))' = Under(legs, leader)
  BY <1>2 DEF Under
<1>5. \A slot : (Rotation(slot))' = Rotation(slot)
  BY <1>2 DEF Rotation, Scheduled
<1>6. \A e : (Located(e))' = Located(e)
  BY <1>1 DEF Located
<1>7. \A id, e : (GeometryOf(id, e))' = GeometryOf(id, e)
  BY <1>1, <1>3, <1>4 DEF GeometryOf
<1>8. \A g : (Expected(g))' = Expected(g)
  BY <1>5 DEF Expected
<1> QED
  BY <1>5, <1>6, <1>7, <1>8

LEMMA GInvStep ==
  ASSUME GInv, [PairsNext]_pairVars
  PROVE  GInv'
<1>1. world' = world
  BY DEF PairsNext, MetricsNext, ProcessEpoch, RaiseOnEpoch, LastEpochDone, JoinGeometry,
         RefuseGeometry, ScorePairs, NoPopulation, Ended, pairVars, metricVars
<1>2. CASE JoinGeometry
  <2>1. geometry' = {[id |-> g.id, at |-> g.at, class |-> Classify(g.at),
                      expected |-> IF g.at.crossBlock /\ Rotation(g.at.frontSlot) # {}
                                   THEN Expected(g.at) ELSE Nothing] :
                       g \in {x \in Geometry : \E m \in metrics : m.id = x.id}}
    BY <1>2 DEF JoinGeometry
  <2>2. \A x \in Geometry : \E e \in FirstEpoch..LastEpoch :
          x.id \in Located(e) /\ x.at = GeometryOf(x.id, e)
    BY DEF Geometry
  <2>3. ASSUME NEW g \in geometry'
        PROVE  /\ \E e \in FirstEpoch..LastEpoch :
                    g.id \in Located(e) /\ g.at = GeometryOf(g.id, e)
               /\ g.class = Classify(g.at)
               /\ g.expected = IF g.at.crossBlock /\ Rotation(g.at.frontSlot) # {}
                               THEN Expected(g.at) ELSE Nothing
    <3>1. PICK x \in Geometry :
            g = [id |-> x.id, at |-> x.at, class |-> Classify(x.at),
                 expected |-> IF x.at.crossBlock /\ Rotation(x.at.frontSlot) # {}
                              THEN Expected(x.at) ELSE Nothing]
      BY <2>1, <2>3
    <3>2. g.id = x.id /\ g.at = x.at
      BY <3>1
    <3> QED
      BY <3>1, <3>2, <2>2
  <2> QED
    BY <1>1, <2>3, SameDatabase DEF GInv
<1>3. CASE ~JoinGeometry
  <2>1. geometry' = geometry
    BY <1>3 DEF PairsNext, MetricsNext, ProcessEpoch, RaiseOnEpoch, LastEpochDone,
                RefuseGeometry, ScorePairs, NoPopulation, Ended, pairVars, metricVars
  <2> QED
    BY <1>1, <2>1, SameDatabase DEF GInv
<1> QED
  BY <1>2, <1>3

LEMMA SpecGInv == PairsSpec => []GInv
<1>1. PairsInit => GInv
  BY DEF PairsInit, GeometryInit, GInv
<1> QED
  BY <1>1, GInvStep, PTL DEF PairsSpec

(* No leg lies further from the front run than WINDOW_SLACK.  It holds of  *)
(* detection windows of two turns of four slots; those of leaders with     *)
(* more turns in a row are longer.                                         *)
WithinSlack ==
  \A w \in Worlds : \A s \in w.sandwiches : \A l \in w.legs :
    l.id = s.id /\ l.type \in LegType =>
      s.slot - WindowSlack <= l.slot /\ l.slot <= s.slot + WindowSlack

LEMMA AllNearby ==
  ASSUME WithinSlack, world \in Worlds, NEW e \in FirstEpoch..LastEpoch,
         NEW id \in Located(e), NEW type \in LegType
  PROVE  Nearby(id, e, type) = AllLegs(id, type)
<1>1. PICK s \in world.sandwiches : s.id = id /\ InWindow(s.slot, e)
  BY DEF Located
<1>2. e \in Nat /\ SlotsPerEpoch \in Nat /\ WindowSlack \in Nat /\ s.slot \in Nat
  BY MetricsAssumption, GeometryAssumption, WorldsAssumption
<1> DEFINE lo == e * SlotsPerEpoch
           hi == (e + 1) * SlotsPerEpoch
<1>3. lo \in Int /\ hi \in Int /\ lo <= s.slot /\ s.slot < hi
  BY <1>1, <1>2 DEF InWindow
<1>4. ASSUME NEW l \in AllLegs(id, type)
      PROVE  lo - WindowSlack <= l.slot /\ l.slot < hi + WindowSlack
  <2>1. l \in world.legs /\ l.id = s.id /\ l.type \in LegType /\ l.slot \in Nat
    BY <1>1, WorldsAssumption DEF AllLegs
  <2>2. s.slot - WindowSlack <= l.slot /\ l.slot <= s.slot + WindowSlack
    BY <2>1 DEF WithinSlack
  <2> HIDE DEF lo, hi
  <2> QED
    BY <1>2, <1>3, <2>1, <2>2
<1> QED
  BY <1>4 DEF Nearby, AllLegs, lo, hi

(* The ends that are classified are the true ones.                         *)
LEMMA TrueEnds ==
  ASSUME WithinSlack, MInv, GInv, NEW g \in geometry, WholeSandwich(g.id)
  PROVE  LET front  == AllLegs(g.id, "frontRun")
             back   == AllLegs(g.id, "backRun")
             victim == AllLegs(g.id, "victim")
         IN  /\ front # {} /\ back # {} /\ victim # {}
             /\ \E e \in FirstEpoch..LastEpoch :
                  /\ g.id \in Located(e) /\ g.at = GeometryOf(g.id, e)
                  /\ Nearby(g.id, e, "frontRun") = front
                  /\ Nearby(g.id, e, "backRun") = back
                  /\ Nearby(g.id, e, "victim") = victim
             /\ g.at.frontSlot = FirstLeg(front).slot
             /\ g.at.backSlot = LastLeg(back).slot
<1> DEFINE front  == AllLegs(g.id, "frontRun")
           back   == AllLegs(g.id, "backRun")
           victim == AllLegs(g.id, "victim")
<1>1. front # {} /\ back # {} /\ victim # {}
  BY DEF WholeSandwich, LegType, AllLegs
<1>2. PICK e \in FirstEpoch..LastEpoch : g.id \in Located(e) /\ g.at = GeometryOf(g.id, e)
  BY DEF GInv
<1>3. /\ Nearby(g.id, e, "frontRun") = front
      /\ Nearby(g.id, e, "backRun") = back
      /\ Nearby(g.id, e, "victim") = victim
  <2>1. world \in Worlds
    BY DEF MInv
  <2> QED
    BY <1>2, <2>1, AllNearby DEF LegType
<1>4. /\ g.at.frontSlot = FirstSlot(front)
      /\ g.at.backSlot = LastSlot(back)
  BY <1>2, <1>3 DEF GeometryOf
<1> QED
  BY <1>1, <1>2, <1>3, <1>4 DEF FirstSlot, LastSlot

(* leader_geometry, for every epoch length and range: if windows are no    *)
(* longer than the slack, every victim is counted, with its copies, and    *)
(* the ends are those of the deduplicated legs of phase 1, also when the   *)
(* sandwich reaches into the next epoch.                                   *)
THEOREM SlackIsEnough ==
  ASSUME WithinSlack
  PROVE  PairsSpec => []NoLegLost
<1>1. MInv /\ GInv => NoLegLost
  <2> SUFFICES ASSUME MInv, GInv, NEW g \in geometry, WholeSandwich(g.id)
               PROVE  /\ g.at.nVictims = CountRows(AllLegs(g.id, "victim"))
                      /\ g.at.frontSlot = FirstLeg(Legs(g.id, "frontRun")).slot
                      /\ g.at.backSlot = LastLeg(Legs(g.id, "backRun")).slot
    BY DEF NoLegLost, AllLegs
  <2>1. g.at.nVictims = CountRows(AllLegs(g.id, "victim"))
    <3>1. PICK e : /\ g.at = GeometryOf(g.id, e)
                   /\ Nearby(g.id, e, "victim") = AllLegs(g.id, "victim")
      BY TrueEnds
    <3> QED
      BY <3>1 DEF GeometryOf
  <2>2. world \in Worlds
    BY DEF MInv
  <2>3. FirstLeg(AllLegs(g.id, "frontRun")).slot = FirstLeg(Legs(g.id, "frontRun")).slot
    BY <2>2, TrueEnds, AllLegsRows, EndsOfCopies, SMTT(30)
  <2>4. LastLeg(AllLegs(g.id, "backRun")).slot = LastLeg(Legs(g.id, "backRun")).slot
    BY <2>2, TrueEnds, AllLegsRows, EndsOfCopies
  <2> QED
    BY <2>1, <2>3, <2>4, TrueEnds
<1> QED
  BY <1>1, SpecMInv, SpecGInv, PTL

-----------------------------------------------------------------------------
(* A rotation has no hole.                                                 *)
LEMMA MinOfTwo ==
  ASSUME NEW a \in Int, NEW b \in Int
  PROVE  /\ Min({a, b}) = IF a <= b THEN a ELSE b
         /\ Max({a, b}) = IF a <= b THEN b ELSE a
<1>1. IsFiniteSet({a, b}) /\ {a, b} # {} /\ {a, b} \subseteq Int
  <2>1. IsFiniteSet({a} \cup {b})
    BY FS_Singleton, FS_Union
  <2>2. {a, b} = {a} \cup {b}
    OBVIOUS
  <2> QED
    BY <2>1, <2>2
<1>2. /\ Max({a, b}) \in {a, b} /\ \A x \in {a, b} : Max({a, b}) >= x
      /\ Min({a, b}) \in {a, b} /\ \A x \in {a, b} : Min({a, b}) <= x
  BY <1>1, MinAndMax
<1> QED
  BY <1>2

LEMMA ScheduledIsFinite ==
  ASSUME world \in Worlds
  PROVE  Scheduled \subseteq Nat /\ Scheduled \subseteq DOMAIN world.leaders
         /\ IsFiniteSet(Scheduled)
         /\ \A s \in Scheduled : LeaderAt(s) = world.leaders[s]
<1> DEFINE lo == FirstEpoch * SlotsPerEpoch
           hi == (LastEpoch + 1) * SlotsPerEpoch
<1>1. lo \in Int /\ hi \in Int
  BY MetricsAssumption
<1>2. DOMAIN world.leaders \subseteq Nat
  BY WindowAssumption
<1>3. Scheduled = {s \in DOMAIN world.leaders : lo <= s /\ s < hi}
  BY DEF Scheduled
<1> HIDE DEF lo, hi
<1>4. Scheduled \subseteq lo..hi
  BY <1>1, <1>2, <1>3
<1>5. IsFiniteSet(Scheduled)
  BY <1>1, <1>4, FS_Interval, FS_Subset
<1> QED
  BY <1>2, <1>3, <1>5 DEF LeaderAt

LEMMA RotationIsInterval ==
  ASSUME world \in Worlds, NEW slot, Rotation(slot) # {}
  PROVE  LET lo == Min(Rotation(slot))
             hi == Max(Rotation(slot))
         IN  /\ lo \in Nat /\ hi \in Nat /\ Rotation(slot) = lo..hi
             /\ slot \in lo..hi
             /\ \A s \in lo..hi : s \in Scheduled /\ LeaderAt(s) = LeaderAt(slot)
             /\ hi + 1 \in Scheduled => LeaderAt(hi + 1) # LeaderAt(slot)
<1> DEFINE rot == Rotation(slot)
           lo == Min(rot)
           hi == Max(rot)
           Same(x) == x \in Scheduled /\ LeaderAt(x) = LeaderAt(slot)
<1>1. slot \in Scheduled /\ slot \in Nat /\ Scheduled \subseteq Nat /\ IsFiniteSet(Scheduled)
  BY ScheduledIsFinite DEF Rotation
<1>2. \A s \in Scheduled : /\ Min({s, slot}) = IF s <= slot THEN s ELSE slot
                           /\ Max({s, slot}) = IF s <= slot THEN slot ELSE s
  BY <1>1, MinOfTwo
<1>3. \A s \in Scheduled :
        s \in rot <=> /\ s <= slot => \A x \in s..slot : Same(x)
                      /\ slot <= s => \A x \in slot..s : Same(x)
  <2> SUFFICES ASSUME NEW s \in Scheduled
               PROVE  s \in rot <=> /\ s <= slot => \A x \in s..slot : Same(x)
                                    /\ slot <= s => \A x \in slot..s : Same(x)
    OBVIOUS
  <2>1. s \in rot <=> \A x \in Min({s, slot})..Max({s, slot}) : Same(x)
    BY <1>1 DEF Rotation
  <2>2. s \in Nat
    BY <1>1
  <2> HIDE DEF rot, Same
  <2>3. CASE s < slot
    BY <1>1, <1>2, <2>1, <2>2, <2>3
  <2>4. CASE s > slot
    BY <1>1, <1>2, <2>1, <2>2, <2>4
  <2>5. CASE s = slot
    BY <1>1, <1>2, <2>1, <2>2, <2>5
  <2> QED
    BY <1>1, <2>2, <2>3, <2>4, <2>5
<1>4. rot \subseteq Scheduled
  BY DEF Rotation
<1> HIDE DEF rot
<1>5. /\ lo \in rot /\ hi \in rot /\ \A x \in rot : lo <= x /\ x <= hi
  <2>1. IsFiniteSet(rot)
    BY <1>1, <1>4, FS_Subset
  <2>3. rot \subseteq Int
    BY <1>1, <1>4
  <2>2. rot # {}
    BY DEF rot
  <2> QED
    BY <2>1, <2>2, <2>3, MinAndMax
<1> HIDE DEF lo, hi
<1>6. slot \in rot /\ \A s \in rot : Same(s)
  <2>1. PICK s \in rot : TRUE
    BY <1>5
  <2>2. Same(slot)
    BY <1>1
  <2>3. slot \in rot
    BY <1>1, <1>3, <2>2
  <2>4. ASSUME NEW x \in rot PROVE Same(x)
    <3>1. x \in Scheduled /\ x \in Nat
      BY <1>1, <1>4
    <3>2. x <= slot \/ slot <= x
      BY <3>1, <1>1
    <3> QED
      BY <3>1, <3>2, <1>1, <1>3
  <2> QED
    BY <2>3, <2>4
<1>7. lo \in Nat /\ hi \in Nat /\ lo <= slot /\ slot <= hi
  BY <1>1, <1>4, <1>5, <1>6
<1>8. ASSUME NEW x \in lo..hi PROVE x \in rot
  <2>1. CASE x <= slot
    <3>1. \A y \in lo..slot : Same(y)
      BY <1>3, <1>4, <1>5, <1>7
    <3>2. x \in Scheduled /\ x \in Nat /\ \A y \in x..slot : Same(y)
      BY <3>1, <2>1, <1>1, <1>7
    <3> QED
      BY <3>2, <2>1, <1>1, <1>3
  <2>2. CASE slot <= x
    <3>1. \A y \in slot..hi : Same(y)
      BY <1>3, <1>4, <1>5, <1>7
    <3>2. x \in Scheduled /\ x \in Nat /\ \A y \in slot..x : Same(y)
      BY <3>1, <2>2, <1>1, <1>7
    <3> QED
      BY <3>2, <2>2, <1>1, <1>3
  <2> QED
    BY <2>1, <2>2, <1>1, <1>7
<1> HIDE DEF Same
<1>9. rot = lo..hi
  <2>1. \A x \in rot : x \in lo..hi
    BY <1>1, <1>4, <1>5, <1>7
  <2> QED
    BY <2>1, <1>8
<1>10. ASSUME hi + 1 \in Scheduled, LeaderAt(hi + 1) = LeaderAt(slot) PROVE FALSE
  <2>1. \A y \in slot..(hi + 1) : Same(y)
    <3>1. \A y \in slot..hi : Same(y)
      BY <1>1, <1>6, <1>7, <1>8
    <3>2. \A y \in slot..(hi + 1) : y \in slot..hi \/ y = hi + 1
      BY <1>7
    <3> QED
      BY <3>1, <3>2, <1>10 DEF Same
  <2>2. hi + 1 \in rot
    BY <2>1, <1>1, <1>3, <1>7, <1>10
  <2> QED
    BY <2>2, <1>5, <1>7
<1> QED
  BY <1>1, <1>6, <1>7, <1>9, <1>10 DEF rot, lo, hi, Same

(* A whole sandwich lies between its ends, within two rotations.           *)
LEMMA TwoRotations ==
  ASSUME WithinSlack, MInv, GInv, NEW g \in geometry, WholeSandwich(g.id)
  PROVE  LET F == g.at.frontSlot
             B == g.at.backSlot
         IN  /\ F \in Nat /\ B \in Nat /\ F <= B
             /\ \A v \in AllLegs(g.id, "victim") : F <= v.slot /\ v.slot <= B
             /\ \E cut \in F..B : \A r, s \in DOMAIN world.leaders \cap (F..B) :
                  (r <= cut <=> s <= cut) => world.leaders[r] = world.leaders[s]
             /\ g.at.crossBlock <=> F # B
             /\ g.at.crossLeader <=> LeaderAt(F) # LeaderAt(B)
<1> DEFINE front == AllLegs(g.id, "frontRun")
           back  == AllLegs(g.id, "backRun")
           f == FirstLeg(front)
           b == LastLeg(back)
<1>1. world \in Worlds
  BY DEF MInv
<1>2. front # {} /\ back # {} /\ g.at.frontSlot = f.slot /\ g.at.backSlot = b.slot
  BY TrueEnds
<1>3. /\ IsFiniteSet(front) /\ Placed(front)
      /\ IsFiniteSet(back) /\ Placed(back)
  BY <1>1, AllLegsRows
<1>4. f \in front /\ b \in back
  <2> HIDE DEF front, back
  <2> QED
    BY <1>2, <1>3, EndsExist
<1>5. /\ f \in LegsOf(world, "frontRun") /\ b \in LegsOf(world, "backRun")
      /\ f.id = g.id /\ b.id = g.id
  <2> HIDE DEF f, b
  <2> QED
    BY <1>4 DEF AllLegs, LegsOf
<1>6. f.slot \in Nat /\ b.slot \in Nat
  <2> HIDE DEF f, b
  <2> QED
    BY <1>3, <1>4 DEF Placed
<1>7. \A v \in AllLegs(g.id, "victim") : v \in LegsOf(world, "victim") /\ v.id = g.id
  BY DEF AllLegs, LegsOf
<1>8. /\ g.at.crossBlock <=> f.slot # b.slot
      /\ g.at.crossLeader <=> LeaderAt(f.slot) # LeaderAt(b.slot)
  <2>1. PICK e : /\ g.at = GeometryOf(g.id, e)
                 /\ Nearby(g.id, e, "frontRun") = front
                 /\ Nearby(g.id, e, "backRun") = back
    BY TrueEnds
  <2> HIDE DEF front, back
  <2> DEFINE at == GeometryOf(g.id, e)
  <2>2. /\ at.crossBlock = (FirstSlot(front) # LastSlot(back))
        /\ at.crossLeader = (LeaderOver(front, FirstSlot(front)) # LeaderOver(back, LastSlot(back)))
    BY <2>1 DEF GeometryOf
  <2>3. /\ FirstSlot(front) = f.slot /\ LastSlot(back) = b.slot
        /\ \A slot : LeaderOver(front, slot) = LeaderAt(slot)
        /\ \A slot : LeaderOver(back, slot) = LeaderAt(slot)
    BY <1>2 DEF FirstSlot, LastSlot, LeaderOver
  <2> HIDE DEF at, f, b
  <2>4. /\ at.crossBlock = (f.slot # b.slot)
        /\ at.crossLeader = (LeaderAt(f.slot) # LeaderAt(b.slot))
    BY <2>2, <2>3
  <2>5. g.at = at
    BY <2>1 DEF at
  <2> QED
    BY <2>4, <2>5
<1> HIDE DEF front, back, f, b
<1>9. /\ f.slot <= b.slot
      /\ \A v \in LegsOf(world, "victim") : v.id = g.id => f.slot <= v.slot /\ v.slot <= b.slot
      /\ \E cut \in f.slot..b.slot :
           \A r, s \in DOMAIN world.leaders \cap (f.slot..b.slot) :
             (r <= cut <=> s <= cut) => world.leaders[r] = world.leaders[s]
  <2>1. /\ Before(f, b)
        /\ \A v \in LegsOf(world, "victim") : v.id = g.id => Before(f, v) /\ Before(v, b)
        /\ \E cut \in f.slot..b.slot :
             \A r, s \in DOMAIN world.leaders \cap (f.slot..b.slot) :
               (r <= cut <=> s <= cut) => world.leaders[r] = world.leaders[s]
    BY <1>1, <1>5, WindowAssumption
  <2>2. \A v \in LegsOf(world, "victim") : v.slot \in Nat
    BY <1>1, WorldsAssumption DEF LegsOf
  <2> QED
    BY <1>6, <2>1, <2>2 DEF Before
<1> QED
  BY <1>2, <1>6, <1>7, <1>8, <1>9

(* How many placements of the front run push the back run past the end.    *)
LEMMA PlacementsThatCross ==
  ASSUME NEW lo \in Int, NEW hi \in Int, lo <= hi, NEW span \in Int, span >= 0
  PROVE  /\ Cardinality(lo..hi) = hi - lo + 1
         /\ Cardinality({c \in lo..hi : c + span > hi}) = Min({span, hi - lo + 1})
<1>1. Cardinality(lo..hi) = hi - lo + 1
  BY FS_Interval
<1>2. Min({span, hi - lo + 1}) = IF span <= hi - lo + 1 THEN span ELSE hi - lo + 1
  BY MinOfTwo
<1>3. CASE span <= hi - lo + 1
  <2>1. {c \in lo..hi : c + span > hi} = (hi - span + 1)..hi
    BY <1>3
  <2>2. Cardinality((hi - span + 1)..hi) = span
    BY FS_Interval
  <2>3. Min({span, hi - lo + 1}) = span
    BY <1>2, <1>3
  <2> QED
    BY <1>1, <2>1, <2>2, <2>3
<1>4. CASE span > hi - lo + 1
  <2>1. {c \in lo..hi : c + span > hi} = lo..hi
    BY <1>4
  <2>2. Min({span, hi - lo + 1}) = hi - lo + 1
    BY <1>2, <1>4
  <2> QED
    BY <1>1, <2>1, <2>2
<1> QED
  BY <1>3, <1>4

(* boundary_suppression, for every schedule with or without holes: what is *)
(* expected is a share of placements, and of a known schedule the event is *)
(* the one that is observed.                                               *)
THEOREM ObservedIsExpectedEvent ==
  ASSUME WithinSlack
  PROVE  PairsSpec => []CrossingLeavesRotation
<1>1. MInv /\ GInv => CrossingLeavesRotation
  <2> SUFFICES ASSUME MInv, GInv, NEW g \in geometry,
                      g.expected # Nothing, WholeSandwich(g.id)
               PROVE  LET rot  == Rotation(g.at.frontSlot)
                          span == g.at.backSlot - g.at.frontSlot
                      IN  /\ rot = Min(rot)..Max(rot)
                          /\ g.expected = <<Cardinality({c \in rot : c + span > Max(rot)}),
                                            Cardinality(rot)>>
                          /\ (g.at.frontSlot .. g.at.backSlot) \subseteq Scheduled =>
                               (g.at.crossLeader <=> g.at.backSlot > Max(rot))
    BY DEF CrossingLeavesRotation
  <2> DEFINE F == g.at.frontSlot
             B == g.at.backSlot
             rot == Rotation(F)
             lo == Min(rot)
             hi == Max(rot)
  <2>1. world \in Worlds
    BY DEF MInv
  <2>2. rot # {} /\ g.expected = Expected(g.at)
    BY DEF GInv
  <2>3. /\ lo \in Nat /\ hi \in Nat /\ rot = lo..hi /\ F \in lo..hi
        /\ \A s \in lo..hi : s \in Scheduled /\ LeaderAt(s) = LeaderAt(F)
        /\ hi + 1 \in Scheduled => LeaderAt(hi + 1) # LeaderAt(F)
    BY <2>1, <2>2, RotationIsInterval
  <2>4. g.expected = <<Min({B - F, Cardinality(rot)}), Cardinality(rot)>>
    BY <2>2 DEF Expected
  <2>5. /\ F \in Nat /\ B \in Nat /\ F <= B
        /\ g.at.crossLeader <=> LeaderAt(F) # LeaderAt(B)
        /\ \E cut \in F..B : \A r, s \in DOMAIN world.leaders \cap (F..B) :
             (r <= cut <=> s <= cut) => world.leaders[r] = world.leaders[s]
    BY TwoRotations
  <2>6. \A s \in Scheduled : s \in DOMAIN world.leaders /\ LeaderAt(s) = world.leaders[s]
    BY <2>1, ScheduledIsFinite
  <2> HIDE DEF F, B, lo, hi, rot
  <2>7. g.expected = <<Cardinality({c \in rot : c + (B - F) > hi}), Cardinality(rot)>>
    <3> DEFINE span == B - F
    <3>1. span \in Int /\ span >= 0 /\ lo \in Int /\ hi \in Int /\ lo <= hi
      BY <2>3, <2>5
    <3> HIDE DEF span
    <3>2. /\ Cardinality(lo..hi) = hi - lo + 1
          /\ Cardinality({c \in lo..hi : c + span > hi}) = Min({span, hi - lo + 1})
      BY <3>1, PlacementsThatCross
    <3>3. g.expected = <<Min({span, Cardinality(rot)}), Cardinality(rot)>>
      BY <2>4 DEF span
    <3>4. g.expected = <<Cardinality({c \in rot : c + span > hi}), Cardinality(rot)>>
      BY <2>3, <3>2, <3>3
    <3> QED
      BY <3>4 DEF span
  <2>8. ASSUME (F .. B) \subseteq Scheduled
        PROVE  g.at.crossLeader <=> B > hi
    <3>1. CASE B <= hi
      BY <2>3, <2>5, <3>1
    <3>2. CASE B > hi
      <4>1. hi + 1 \in F..B /\ hi + 1 \in Scheduled
        BY <2>3, <2>5, <2>8, <3>2
      <4>2. PICK cut \in F..B : \A r, s \in DOMAIN world.leaders \cap (F..B) :
              (r <= cut <=> s <= cut) => world.leaders[r] = world.leaders[s]
        BY <2>5
      <4>3. \A r, s \in F..B : (r <= cut <=> s <= cut) => LeaderAt(r) = LeaderAt(s)
        BY <2>6, <2>8, <4>2
      <4>4. F \in F..B /\ B \in F..B
        BY <2>5
      <4>5. ~(hi + 1 <= cut)
        <5>1. SUFFICES ASSUME hi + 1 <= cut PROVE FALSE
          OBVIOUS
        <5>2. F <= cut
          BY <4>2, <2>5
        <5>3. LeaderAt(hi + 1) = LeaderAt(F)
          BY <4>1, <4>3, <4>4, <5>1, <5>2
        <5> QED
          BY <2>3, <4>1, <5>3
      <4>6. ~(B <= cut)
        BY <2>3, <2>5, <3>2, <4>2, <4>5
      <4>7. LeaderAt(hi + 1) = LeaderAt(B)
        BY <4>1, <4>3, <4>4, <4>5, <4>6
      <4> QED
        BY <2>3, <2>5, <3>2, <4>1, <4>7
    <3> QED
      BY <2>3, <2>5, <3>1, <3>2
  <2> QED
    BY <2>3, <2>7, <2>8 DEF F, B, lo, hi, rot
<1> QED
  BY <1>1, SpecMInv, SpecGInv, PTL

-----------------------------------------------------------------------------
(* Counting rows is a sum.                                                 *)
LEMMA CountRowsIsTotal ==
  ASSUME NEW S, IsFiniteSet(S)
  PROVE  CountRows(S) = Total([l \in S |-> l.copies], S)
<1> DEFINE w == [l \in S |-> l.copies]
           Eq(g) == g = [s \in SUBSET S |-> IF s = {} THEN 0
                                            ELSE (CHOOSE x \in s : TRUE).copies
                                                   + g[s \ {CHOOSE x \in s : TRUE}]]
           h == CHOOSE g : Eq(g)
<1>1. CountRows(S) = h[S]
  BY DEF CountRows, MapThenSumSet, MapThenFoldSet
<1>2. \A g : Eq(g) <=> IsSum(g, w, S)
  <2>1. \A s \in SUBSET S : s # {} => w[Pick(s)] = Pick(s).copies
    BY DEF Pick
  <2> HIDE DEF w
  <2> QED
    BY <2>1 DEF IsSum, Pick, Rest
<1>3. \E g : IsSum(g, w, S)
  BY SumExists
<1> HIDE DEF Eq, w
<1>4. Eq(h)
  BY <1>2, <1>3
<1> HIDE DEF h
<1>5. IsSum(h, w, S)
  BY <1>2, <1>4
<1> QED
  BY <1>1, <1>5, TotalIsSum DEF w

LEMMA CountedRows ==
  ASSUME NEW S, NEW T, IsFiniteSet(S), IsFiniteSet(T), S \cap T = {},
         \A l \in S \cup T : l.copies \in Nat \ {0}
  PROVE  /\ CountRows(S \cup T) = CountRows(S) + CountRows(T)
         /\ CountRows(S) \in Nat /\ (S = {} <=> CountRows(S) = 0)
<1> DEFINE w == [l \in S \cup T |-> l.copies]
           ws == [l \in S |-> l.copies]
           wt == [l \in T |-> l.copies]
<1>1. IsFiniteSet(S \cup T)
  BY FS_Union
<1>2. /\ \A x \in S : w[x] = ws[x] /\ w[x] \in Nat \ {0}
      /\ \A x \in T : w[x] = wt[x] /\ w[x] \in Nat \ {0}
  OBVIOUS
<1>3. /\ CountRows(S \cup T) = Total(w, S \cup T)
      /\ CountRows(S) = Total(ws, S) /\ CountRows(T) = Total(wt, T)
  BY <1>1, CountRowsIsTotal
<1> HIDE DEF w, ws, wt
<1>4. Total(w, S) = Total(ws, S) /\ Total(w, T) = Total(wt, T)
  BY <1>2, TotalSame
<1>5. Total(w, S \cup T) = Total(w, S) + Total(w, T)
  BY <1>2, TotalUnion
<1>6. Total(w, S) \in Nat /\ \A a \in S : w[a] <= Total(w, S)
  BY <1>2, TotalNat
<1>7. S = {} => Total(w, S) = 0
  BY TotalEmpty
<1>8. S # {} => Total(w, S) # 0
  BY <1>2, <1>6
<1> QED
  BY <1>3, <1>4, <1>5, <1>6, <1>7, <1>8

(* add_geometry_classes: a sandwich across two leaders has its first       *)
(* victim with the leader of the front run or no victim there at all, and  *)
(* every victim is with one of the two.                                    *)
THEOREM TwoKindsOfCrossing ==
  ASSUME WithinSlack
  PROVE  PairsSpec => []CrossLeaderSplits
<1>1. MInv /\ GInv => CrossLeaderSplits
  <2> SUFFICES ASSUME MInv, GInv, NEW g \in geometry, WholeSandwich(g.id),
                      g.class.geomClass = "cross_leader",
                      {l.slot : l \in {x \in world.legs : x.id = g.id}} \subseteq DOMAIN world.leaders
               PROVE  /\ ("first_victim" \in g.class.xl) # ("no_victim" \in g.class.xl)
                      /\ "all_victims" \in g.class.xl => "first_victim" \in g.class.xl
                      /\ g.at.underFront + g.at.underBack = g.at.nVictims
    BY DEF CrossLeaderSplits
  <2> DEFINE V == AllLegs(g.id, "victim")
             front == AllLegs(g.id, "frontRun")
             back == AllLegs(g.id, "backRun")
             F == g.at.frontSlot
             B == g.at.backSlot
             U == Under(V, LeaderAt(F))
             W == Under(V, LeaderAt(B))
  <2>1. world \in Worlds
    BY DEF MInv
  <2>2. /\ V # {} /\ front # {} /\ back # {}
        /\ F = FirstLeg(front).slot /\ B = LastLeg(back).slot
    BY TrueEnds
  <2>3. /\ IsFiniteSet(V) /\ Placed(V) /\ \A l \in V : l.copies \in Nat \ {0}
        /\ IsFiniteSet(front) /\ Placed(front) /\ IsFiniteSet(back) /\ Placed(back)
    BY <2>1, AllLegsRows
  <2>4. g.at.crossLeader
    <3>1. g.class = Classify(g.at)
      BY DEF GInv
    <3> QED
      BY <3>1 DEF Classify
  <2>5. /\ F \in Nat /\ B \in Nat
        /\ \A v \in V : F <= v.slot /\ v.slot <= B
        /\ \E cut \in F..B : \A r, s \in DOMAIN world.leaders \cap (F..B) :
             (r <= cut <=> s <= cut) => world.leaders[r] = world.leaders[s]
        /\ LeaderAt(F) # LeaderAt(B)
    BY <2>4, TwoRotations
  <2>6. /\ g.at.nVictims = CountRows(V)
        /\ g.at.underFront = CountRows(U)
        /\ g.at.underBack = CountRows(W)
        /\ g.at.firstUnderFront <=> LeaderAt(FirstLeg(V).slot) = LeaderAt(F)
    <3>1. PICK e : /\ g.at = GeometryOf(g.id, e)
                   /\ Nearby(g.id, e, "frontRun") = front
                   /\ Nearby(g.id, e, "backRun") = back
                   /\ Nearby(g.id, e, "victim") = V
      BY TrueEnds
    <3> DEFINE at == GeometryOf(g.id, e)
               fleader == LeaderOver(front, FirstSlot(front))
               bleader == LeaderOver(back, LastSlot(back))
    <3>2. fleader = LeaderAt(F) /\ bleader = LeaderAt(B)
      BY <2>2 DEF LeaderOver, FirstSlot, LastSlot
    <3> HIDE DEF V, front, back, F, B
    <3>3. /\ at.nVictims = CountRows(V)
          /\ at.underFront = CountRows(Under(V, fleader))
          /\ at.underBack = CountRows(Under(V, bleader))
          /\ at.firstUnderFront = (LeaderOver(V, FirstSlot(V)) = fleader)
      BY <3>1 DEF GeometryOf
    <3>4. LeaderOver(V, FirstSlot(V)) = LeaderAt(FirstLeg(V).slot)
      BY <2>2 DEF LeaderOver, FirstSlot
    <3>5. g.at = at
      BY <3>1
    <3> HIDE DEF at, fleader, bleader
    <3> QED
      BY <3>2, <3>3, <3>4, <3>5
  <2>7. /\ "first_victim" \in g.class.xl <=> g.at.firstUnderFront
        /\ "no_victim" \in g.class.xl <=> g.at.nVictims > 0 /\ g.at.underFront = 0
        /\ "all_victims" \in g.class.xl => g.at.nVictims > 0 /\ g.at.underFront = g.at.nVictims
    <3>1. g.class = Classify(g.at)
      BY DEF GInv
    <3> QED
      BY <2>4, <3>1 DEF Classify
  <2>8. \A l \in V \cup front \cup back : l.slot \in DOMAIN world.leaders
    BY DEF AllLegs
  <2>9. \A slot \in DOMAIN world.leaders : LeaderAt(slot) = world.leaders[slot]
    BY DEF LeaderAt
  <2> HIDE DEF V, front, back
  <2>10. F \in DOMAIN world.leaders /\ B \in DOMAIN world.leaders
    BY <2>2, <2>3, <2>8, EndsExist
  <2> HIDE DEF F, B
  <2>11. PICK cut \in F..B : \A r, s \in DOMAIN world.leaders \cap (F..B) :
           (r <= cut <=> s <= cut) => world.leaders[r] = world.leaders[s]
    BY <2>5
  <2>12. F <= cut /\ cut < B /\ F \in F..B /\ B \in F..B
    <3>1. F <= cut /\ cut <= B /\ F \in F..B /\ B \in F..B
      BY <2>5, <2>11
    <3>2. cut # B
      BY <2>5, <2>9, <2>10, <2>11, <3>1
    <3> QED
      BY <2>5, <2>11, <3>1, <3>2
  <2>13. \A v \in V : IF v.slot <= cut THEN LeaderAt(v.slot) = LeaderAt(F)
                                       ELSE LeaderAt(v.slot) = LeaderAt(B)
    <3> SUFFICES ASSUME NEW v \in V
                 PROVE  IF v.slot <= cut THEN LeaderAt(v.slot) = LeaderAt(F)
                                         ELSE LeaderAt(v.slot) = LeaderAt(B)
      OBVIOUS
    <3>1. v.slot \in Nat /\ v.slot \in F..B /\ v.slot \in DOMAIN world.leaders
      BY <2>3, <2>5, <2>8 DEF Placed
    <3>2. ~(B <= cut) /\ F <= cut
      BY <2>5, <2>11, <2>12
    <3> QED
      BY <2>9, <2>10, <2>11, <2>12, <3>1, <3>2
  <2>14. V = U \cup W /\ U \cap W = {} /\ U \subseteq V /\ W \subseteq V
    BY <2>5, <2>13 DEF Under
  <2>15. FirstLeg(V) \in V /\ \A x \in V : ~Before(x, FirstLeg(V))
    BY <2>2, <2>3, EndsExist
  <2>16. LeaderAt(FirstLeg(V).slot) = LeaderAt(F) <=> U # {}
    <3>1. ASSUME NEW u \in U
          PROVE  LeaderAt(FirstLeg(V).slot) = LeaderAt(F)
      <4>1. u \in V /\ u.slot <= cut
        BY <2>5, <2>13 DEF Under
      <4>2. FirstLeg(V).slot <= u.slot /\ FirstLeg(V).slot \in Nat /\ u.slot \in Nat
        BY <2>3, <2>15, <4>1 DEF Before, Placed
      <4> QED
        BY <2>11, <2>13, <2>15, <4>1, <4>2
    <3>2. ASSUME LeaderAt(FirstLeg(V).slot) = LeaderAt(F)
          PROVE  FirstLeg(V) \in U
      BY <2>15, <3>2 DEF Under
    <3> QED
      BY <3>1, <3>2
  <2> HIDE DEF U, W
  <2>17. /\ CountRows(V) = CountRows(U) + CountRows(W)
         /\ CountRows(U) \in Nat /\ CountRows(W) \in Nat /\ CountRows(V) \in Nat
         /\ U = {} <=> CountRows(U) = 0
         /\ V = {} <=> CountRows(V) = 0
    <3>1. /\ IsFiniteSet(U) /\ IsFiniteSet(W)
          /\ \A l \in U \cup W : l.copies \in Nat \ {0}
      BY <2>3, <2>14, FS_Subset
    <3>2. /\ CountRows(U \cup W) = CountRows(U) + CountRows(W)
          /\ CountRows(U) \in Nat /\ (U = {} <=> CountRows(U) = 0)
      BY <2>14, <3>1, CountedRows
    <3>3. /\ CountRows(W) \in Nat
      BY <2>14, <3>1, CountedRows
    <3>4. CountRows(V) \in Nat /\ (V = {} <=> CountRows(V) = 0)
      <4>1. V \cap {} = {} /\ IsFiniteSet({}) /\ V \cup {} = V
        BY FS_EmptySet
      <4> QED
        BY <2>3, <4>1, CountedRows
    <3> QED
      BY <2>14, <3>2, <3>3, <3>4
  <2> QED
    BY <2>2, <2>6, <2>7, <2>16, <2>17
<1> QED
  BY <1>1, SpecMInv, SpecGInv, PTL

-----------------------------------------------------------------------------
(* Phase 4, the baseline.  The two sums of the model, as Totals.           *)
Turns(blockOf, v, off) == {i \in Range(blockOf) : LeadsAt(blockOf, v, i, off)}

LEMMA SlotsNearIsTotal ==
  ASSUME NEW b, NEW v, NEW off, IsFiniteSet(Turns(b, v, off))
  PROVE  SlotsNear(b, v, off)
           = Total([i \in Turns(b, v, off) |-> Cardinality(SlotsOf(b, i))], Turns(b, v, off))
<1> DEFINE S == Turns(b, v, off)
           w == [i \in S |-> Cardinality(SlotsOf(b, i))]
           Eq(g) == g = [s \in SUBSET S |-> IF s = {} THEN 0
                                            ELSE Cardinality(SlotsOf(b, CHOOSE x \in s : TRUE))
                                                   + g[s \ {CHOOSE x \in s : TRUE}]]
           h == CHOOSE g : Eq(g)
<1>1. SlotsNear(b, v, off) = h[S]
  BY DEF SlotsNear, MapThenSumSet, MapThenFoldSet, Turns
<1> HIDE DEF S
<1>2. \A g : Eq(g) <=> IsSum(g, w, S)
  <2>1. \A s \in SUBSET S : s # {} => w[Pick(s)] = Cardinality(SlotsOf(b, Pick(s)))
    BY DEF Pick
  <2> HIDE DEF w
  <2> QED
    BY <2>1 DEF IsSum, Pick, Rest
<1>3. \E g : IsSum(g, w, S)
  BY SumExists DEF S
<1> HIDE DEF Eq, w
<1>4. Eq(h)
  BY <1>2, <1>3
<1> HIDE DEF h
<1>5. IsSum(h, w, S)
  BY <1>2, <1>4
<1>6. Total(w, S) = h[S]
  BY <1>5, TotalIsSum DEF S
<1> QED
  BY <1>1, <1>6 DEF w, S

LEMMA OffsetIsFinite == IsFiniteSet(Offset)
<1>1. OffsetMax \in Int /\ -OffsetMax \in Int
  BY PairsAssumption
<1> QED
  BY <1>1, FS_Interval DEF Offset

LEMMA ExpectedNearIsTotal ==
  ASSUME NEW b, NEW v
  PROVE  ExpectedNear(b, v) = Total([off \in Offset |-> SlotsNear(b, v, off)], Offset)
<1> DEFINE S == Offset
           w == [off \in S |-> SlotsNear(b, v, off)]
           Eq(g) == g = [s \in SUBSET S |-> IF s = {} THEN 0
                                            ELSE SlotsNear(b, v, CHOOSE x \in s : TRUE)
                                                   + g[s \ {CHOOSE x \in s : TRUE}]]
           h == CHOOSE g : Eq(g)
<1>1. ExpectedNear(b, v) = h[S]
  BY DEF ExpectedNear, MapThenSumSet, MapThenFoldSet
<1> HIDE DEF S
<1>2. \A g : Eq(g) <=> IsSum(g, w, S)
  <2>1. \A s \in SUBSET S : s # {} => w[Pick(s)] = SlotsNear(b, v, Pick(s))
    BY DEF Pick
  <2> HIDE DEF w
  <2> QED
    BY <2>1 DEF IsSum, Pick, Rest
<1>3. \E g : IsSum(g, w, S)
  BY SumExists, OffsetIsFinite DEF S
<1> HIDE DEF Eq, w
<1>4. Eq(h)
  BY <1>2, <1>3
<1> HIDE DEF h
<1>5. IsSum(h, w, S)
  BY <1>2, <1>4
<1>6. Total(w, S) = h[S]
  BY <1>5, TotalIsSum, OffsetIsFinite DEF S
<1> QED
  BY <1>1, <1>6 DEF w, S

LEMMA NearCountIsTotal ==
  ASSUME NEW b, NEW own, NEW v
  PROVE  NearCount(b, own, v)
           = Total([off \in Offset |-> Cardinality(Met(b, own, v, off))], Offset)
<1> DEFINE S == Offset
           w == [off \in S |-> Cardinality(Met(b, own, v, off))]
           Eq(g) == g = [s \in SUBSET S |-> IF s = {} THEN 0
                                            ELSE Cardinality(Met(b, own, v, CHOOSE x \in s : TRUE))
                                                   + g[s \ {CHOOSE x \in s : TRUE}]]
           h == CHOOSE g : Eq(g)
<1>1. NearCount(b, own, v) = h[S]
  BY DEF NearCount, MapThenSumSet, MapThenFoldSet
<1> HIDE DEF S
<1>2. \A g : Eq(g) <=> IsSum(g, w, S)
  <2>1. \A s \in SUBSET S : s # {} => w[Pick(s)] = Cardinality(Met(b, own, v, Pick(s)))
    BY DEF Pick
  <2> HIDE DEF w
  <2> QED
    BY <2>1 DEF IsSum, Pick, Rest
<1>3. \E g : IsSum(g, w, S)
  BY SumExists, OffsetIsFinite DEF S
<1> HIDE DEF Eq, w
<1>4. Eq(h)
  BY <1>2, <1>3
<1> HIDE DEF h
<1>5. IsSum(h, w, S)
  BY <1>2, <1>4
<1>6. Total(w, S) = h[S]
  BY <1>5, TotalIsSum, OffsetIsFinite DEF S
<1> QED
  BY <1>1, <1>6 DEF w, S

(* One sandwich on every slot meets v as often as slots have v near.       *)
LEMMA OneOnEverySlot ==
  ASSUME world \in Worlds, NEW v, NEW off
  PROVE  Cardinality(Met(BlockOf, {[slot |-> s] : s \in Scheduled}, v, off))
           = SlotsNear(BlockOf, v, off)
<1> DEFINE b == BlockOf
           I == Turns(b, v, off)
           P == [i \in I |-> SlotsOf(b, i)]
           N == UNION {P[i] : i \in I}
           M == Met(b, {[slot |-> s] : s \in Scheduled}, v, off)
<1>1. DOMAIN b = Scheduled /\ b = [s \in Scheduled |-> b[s]] /\ IsFiniteSet(Scheduled)
  BY ScheduledIsFinite DEF BlockOf
<1> HIDE DEF b
<1>2. IsFiniteSet(I)
  <2>1. Range(b) = {b[s] : s \in Scheduled}
    BY <1>1 DEF Range
  <2>2. IsFiniteSet(Range(b))
    BY <1>1, <2>1, FiniteImage
  <2> QED
    BY <2>2, FS_Subset DEF Turns
<1>3. /\ \A i \in I : IsFiniteSet(P[i])
      /\ \A i, j \in I : i # j => P[i] \cap P[j] = {}
  <2>1. \A i : SlotsOf(b, i) \subseteq Scheduled
    BY <1>1 DEF SlotsOf
  <2>2. \A i : IsFiniteSet(SlotsOf(b, i))
    BY <1>1, <2>1, FS_Subset
  <2>3. \A i, j : i # j => SlotsOf(b, i) \cap SlotsOf(b, j) = {}
    BY DEF SlotsOf
  <2> QED
    BY <2>2, <2>3
<1>4. N = {s \in Scheduled : LeadsAt(b, v, b[s], off)}
  <2>1. \A s : s \in N <=> \E i \in I : s \in SlotsOf(b, i)
    OBVIOUS
  <2>2. \A s, i : s \in SlotsOf(b, i) <=> s \in Scheduled /\ b[s] = i
    BY <1>1 DEF SlotsOf
  <2>3. \A s \in Scheduled : b[s] \in I <=> LeadsAt(b, v, b[s], off)
    BY <1>1 DEF Turns, Range
  <2> HIDE DEF N, I
  <2>4. \A s : s \in N <=> s \in Scheduled /\ LeadsAt(b, v, b[s], off)
    BY <2>1, <2>2, <2>3
  <2> QED
    BY <2>4
<1>5. M = {r \in {[slot |-> s] : s \in Scheduled} : LeadsAt(b, v, b[r.slot], off)}
  BY <1>1 DEF Met
<1> HIDE DEF P
<1>6. /\ IsFiniteSet(N)
      /\ Cardinality(N) = Total([i \in I |-> Cardinality(P[i])], I)
  <2> HIDE DEF I
  <2> QED
    BY <1>2, <1>3, CountOfParts
<1>7. SlotsNear(b, v, off) = Total([i \in I |-> Cardinality(P[i])], I)
  BY <1>2, SlotsNearIsTotal DEF P
<1> HIDE DEF I, N, M
<1>8. Cardinality(M) = Cardinality(N)
  <2> DEFINE f == [s \in N |-> [slot |-> s]]
  <2>1. f \in Bijection(N, M)
    BY <1>4, <1>5 DEF Bijection, Injection, Surjection, IsInjective
  <2> HIDE DEF f
  <2>2. ExistsBijection(N, M)
    BY <2>1 DEF ExistsBijection
  <2> QED
    BY <1>6, <2>2, FS_Bijection
<1> QED
  BY <1>6, <1>7, <1>8 DEF b, M

(* compute_global_offset_freq against compute_signer_validator_counts, for *)
(* every schedule, with or without holes, and every OFFSET_MAX: a bot that *)
(* chooses its slots blindly scores the baseline.                          *)
THEOREM BaselineIsChance == PairsSpec => []ChanceIsNeutral
<1>1. MInv => ChanceIsNeutral
  <2> SUFFICES ASSUME MInv, NEW v
               PROVE  NearCount(BlockOf, {[slot |-> s] : s \in Scheduled}, v)
                        = ExpectedNear(BlockOf, v)
    BY DEF ChanceIsNeutral
  <2> DEFINE own == {[slot |-> s] : s \in Scheduled}
  <2>1. \A off : Cardinality(Met(BlockOf, own, v, off)) = SlotsNear(BlockOf, v, off)
    BY OneOnEverySlot DEF MInv
  <2> HIDE DEF own
  <2>2. [off \in Offset |-> Cardinality(Met(BlockOf, own, v, off))]
          = [off \in Offset |-> SlotsNear(BlockOf, v, off)]
    BY <2>1
  <2>3. /\ NearCount(BlockOf, own, v)
             = Total([off \in Offset |-> Cardinality(Met(BlockOf, own, v, off))], Offset)
        /\ ExpectedNear(BlockOf, v)
             = Total([off \in Offset |-> SlotsNear(BlockOf, v, off)], Offset)
    BY NearCountIsTotal, ExpectedNearIsTotal
  <2> QED
    BY <2>2, <2>3 DEF own
<1> QED
  BY <1>1, SpecMInv, PTL

-----------------------------------------------------------------------------
(* Phase 1, the gaps.  Every leg is a transaction that slot_txs counts:    *)
(* the row of its slot was written, with the length of the block.          *)
BlocksCounted ==
  \A w \in Worlds : \A l \in w.legs :
    \E row \in w.slotTxs : row[1] = l.slot /\ l.pos < row[2]

LEMMA SlotCounts ==
  ASSUME world \in Worlds, NEW slot
  PROVE  /\ SlotTxCount(slot) \in Nat
         /\ \A row \in world.slotTxs : row[1] = slot => row[2] <= SlotTxCount(slot)
<1> DEFINE rows == {r \in world.slotTxs : r[1] = slot}
           second == [row \in rows |-> row[2]]
           counts == {row[2] : row \in rows}
<1>1. IsFiniteSet(rows) /\ \A row \in rows : row[2] \in Nat
  <2>1. IsFiniteSet(world.slotTxs) /\ world.slotTxs \subseteq Nat \X Nat
    BY WorldsAssumption
  <2> QED
    BY <2>1, FS_Subset
<1>2. counts = {second[row] : row \in rows}
  OBVIOUS
<1>3. SlotTxCount(slot) = IF counts = {} THEN 0 ELSE Max(counts)
  BY DEF SlotTxCount
<1>4. \A row \in world.slotTxs : row[1] = slot => row[2] \in counts
  OBVIOUS
<1>5. counts \subseteq Nat
  BY <1>1
<1> HIDE DEF rows, second, counts
<1>6. IsFiniteSet(counts)
  BY <1>1, <1>2, FiniteImage
<1>7. counts # {} => Max(counts) \in counts /\ \A x \in counts : x <= Max(counts)
  <2>1. counts \subseteq Int
    BY <1>5
  <2>2. counts # {} => Max(counts) \in counts /\ \A x \in counts : Max(counts) >= x
    BY <1>6, <2>1, MinAndMax
  <2> QED
    BY <1>5, <2>2
<1>8. SlotTxCount(slot) \in Nat
  <2>1. CASE counts = {}
    <3>1. SlotTxCount(slot) = 0
      BY <1>3, <2>1
    <3> QED
      BY <3>1
  <2>2. CASE counts # {}
    <3>1. SlotTxCount(slot) = Max(counts)
      BY <1>3, <2>2
    <3>2. Max(counts) \in Nat
      BY <1>5, <1>7, <2>2
    <3> QED
      BY <3>1, <3>2
  <2> QED
    BY <2>1, <2>2
<1>9. ASSUME NEW row \in world.slotTxs, row[1] = slot
      PROVE  row[2] <= SlotTxCount(slot)
  <2>1. row[2] \in counts
    BY <1>4, <1>9
  <2> QED
    BY <1>3, <1>7, <2>1
<1> QED
  BY <1>8, <1>9

LEMMA CoordIsTotal ==
  ASSUME NEW lo \in Int, NEW l, l.slot \in Int
  PROVE  Coord(lo, l) = Total([slot \in lo..(l.slot - 1) |-> SlotTxCount(slot)],
                              lo..(l.slot - 1)) + l.pos
<1> DEFINE S == lo..(l.slot - 1)
           w == [slot \in S |-> SlotTxCount(slot)]
           Eq(g) == g = [s \in SUBSET S |-> IF s = {} THEN 0
                                            ELSE SlotTxCount(CHOOSE x \in s : TRUE)
                                                   + g[s \ {CHOOSE x \in s : TRUE}]]
           h == CHOOSE g : Eq(g)
<1>1. Coord(lo, l) = h[S] + l.pos
  BY DEF Coord, MapThenSumSet, MapThenFoldSet
<1>2. IsFiniteSet(S)
  BY FS_Interval
<1> HIDE DEF S
<1>3. \A g : Eq(g) <=> IsSum(g, w, S)
  <2>1. \A s \in SUBSET S : s # {} => w[Pick(s)] = SlotTxCount(Pick(s))
    BY DEF Pick
  <2> HIDE DEF w
  <2> QED
    BY <2>1 DEF IsSum, Pick, Rest
<1>4. \E g : IsSum(g, w, S)
  BY <1>2, SumExists
<1> HIDE DEF Eq, w
<1>5. Eq(h)
  BY <1>3, <1>4
<1> HIDE DEF h
<1>6. Total(w, S) = h[S]
  BY <1>2, <1>3, <1>5, TotalIsSum
<1> QED
  BY <1>1, <1>6 DEF w, S

(* The transactions of a slot from one position to another.                *)
TxsOf(slot, a, b) == {[slot |-> slot, pos |-> p] : p \in a..b}

LEMMA CountTxs ==
  ASSUME NEW slot, NEW a \in Int, NEW b \in Int
  PROVE  /\ IsFiniteSet(TxsOf(slot, a, b))
         /\ Cardinality(TxsOf(slot, a, b)) = IF a > b THEN 0 ELSE b - a + 1
<1> DEFINE f == [p \in a..b |-> [slot |-> slot, pos |-> p]]
<1>1. f \in Bijection(a..b, TxsOf(slot, a, b))
  BY DEF TxsOf, Bijection, Injection, Surjection, IsInjective
<1> HIDE DEF f
<1>2. ExistsBijection(a..b, TxsOf(slot, a, b))
  BY <1>1 DEF ExistsBijection
<1> QED
  BY <1>2, FS_Interval, FS_Bijection

LEMMA IsTransaction ==
  ASSUME NEW lo \in Int, NEW hi \in Int
  PROVE  \A t : t \in Transactions(lo, hi) <=>
           \E slot \in lo..hi : \E p \in 0..(SlotTxCount(slot) - 1) :
             t = [slot |-> slot, pos |-> p]
<1> DEFINE I == lo..hi
           last(slot) == SlotTxCount(slot) - 1
           places == UNION {{slot} \X (0..last(slot)) : slot \in I}
<1>1. \A t : t \in Transactions(lo, hi) <=> \E q \in places : t = [slot |-> q[1], pos |-> q[2]]
  BY DEF Transactions
<1> HIDE DEF last
<1>2. \A q : q \in places <=> \E slot \in I : \E p \in 0..last(slot) : q = <<slot, p>>
  OBVIOUS
<1> HIDE DEF places, I
<1>3. ASSUME NEW t \in Transactions(lo, hi)
      PROVE  \E slot \in I : \E p \in 0..last(slot) : t = [slot |-> slot, pos |-> p]
  <2>1. PICK q \in places : t = [slot |-> q[1], pos |-> q[2]]
    BY <1>1
  <2>2. PICK slot \in I : \E p \in 0..last(slot) : q = <<slot, p>>
    BY <1>2
  <2>3. PICK p \in 0..last(slot) : q = <<slot, p>>
    BY <2>2
  <2> QED
    BY <2>1, <2>3
<1>4. ASSUME NEW slot \in I, NEW p \in 0..last(slot)
      PROVE  [slot |-> slot, pos |-> p] \in Transactions(lo, hi)
  <2>1. <<slot, p>> \in places
    BY <1>2
  <2>2. \E q \in places : [slot |-> slot, pos |-> p] = [slot |-> q[1], pos |-> q[2]]
    BY <2>1
  <2> QED
    BY <1>1, <2>2
<1> QED
  BY <1>3, <1>4 DEF I, last

LEMMA CountTransactions ==
  ASSUME world \in Worlds, NEW lo \in Int, NEW hi \in Int
  PROVE  /\ IsFiniteSet(Transactions(lo, hi))
         /\ Cardinality(Transactions(lo, hi))
              = Total([slot \in lo..hi |-> SlotTxCount(slot)], lo..hi)
<1> DEFINE I == lo..hi
           P == [slot \in I |-> TxsOf(slot, 0, SlotTxCount(slot) - 1)]
<1>1. Transactions(lo, hi) = UNION {P[slot] : slot \in I}
  <2>1. \A t : t \in Transactions(lo, hi) <=>
          \E slot \in I : \E p \in 0..(SlotTxCount(slot) - 1) : t = [slot |-> slot, pos |-> p]
    BY IsTransaction
  <2>2. \A t : t \in UNION {P[slot] : slot \in I} <=> \E slot \in I : t \in P[slot]
    OBVIOUS
  <2>3. \A slot \in I : P[slot] = TxsOf(slot, 0, SlotTxCount(slot) - 1)
    OBVIOUS
  <2> HIDE DEF I, P
  <2> QED
    BY <2>1, <2>2, <2>3 DEF TxsOf
<1>2. \A slot \in I : IsFiniteSet(P[slot]) /\ Cardinality(P[slot]) = SlotTxCount(slot)
  <2> SUFFICES ASSUME NEW slot \in I
               PROVE  IsFiniteSet(P[slot]) /\ Cardinality(P[slot]) = SlotTxCount(slot)
    OBVIOUS
  <2>1. P[slot] = TxsOf(slot, 0, SlotTxCount(slot) - 1) /\ SlotTxCount(slot) \in Nat
    BY SlotCounts
  <2> HIDE DEF P
  <2>2. SlotTxCount(slot) - 1 \in Int
    BY <2>1
  <2> QED
    BY <2>1, <2>2, CountTxs
<1>3. \A i, j \in I : i # j => P[i] \cap P[j] = {}
  BY DEF TxsOf
<1>4. IsFiniteSet(I)
  BY FS_Interval
<1>5. [slot \in I |-> Cardinality(P[slot])] = [slot \in I |-> SlotTxCount(slot)]
  <2> HIDE DEF P, I
  <2> QED
    BY <1>2
<1> HIDE DEF I, P
<1>6. /\ IsFiniteSet(UNION {P[i] : i \in I})
      /\ Cardinality(UNION {P[i] : i \in I}) = Total([i \in I |-> Cardinality(P[i])], I)
  BY <1>2, <1>3, <1>4, CountOfParts
<1> QED
  BY <1>1, <1>5, <1>6 DEF I

LEMMA GapCounts ==
  ASSUME world \in Worlds, BlocksCounted, NEW src \in world.legs, NEW dst \in world.legs,
         Before(src, dst), dst.slot - src.slot <= LongGap
  PROVE  Gap(src, dst) = Cardinality(Between(src, dst))
<1> DEFINE lo == src.slot
           hi == dst.slot
           n(slot) == SlotTxCount(slot)
           sum == Total([slot \in lo..(hi - 1) |-> n(slot)], lo..(hi - 1))
           B == Between(src, dst)
<1>1. /\ lo \in Nat /\ hi \in Nat /\ src.pos \in Nat /\ dst.pos \in Nat /\ LongGap \in Nat
      /\ lo < hi \/ (lo = hi /\ src.pos < dst.pos)
  BY WorldsAssumption, MetricsAssumption DEF Before
<1>2. /\ src.pos < n(lo) /\ n(lo) \in Nat
      /\ dst.pos < n(hi) /\ n(hi) \in Nat
  <2>1. ASSUME NEW l \in world.legs
        PROVE  l.pos < n(l.slot) /\ n(l.slot) \in Nat
    <3>1. PICK row \in world.slotTxs : row[1] = l.slot /\ l.pos < row[2]
      BY DEF BlocksCounted
    <3>2. row[2] <= n(l.slot) /\ n(l.slot) \in Nat
      BY <3>1, SlotCounts
    <3>3. row[2] \in Nat /\ l.pos \in Nat
      BY WorldsAssumption
    <3> QED
      BY <3>1, <3>2, <3>3
  <2> QED
    BY <2>1
<1>3. Gap(src, dst) = sum + dst.pos - src.pos /\ sum \in Int
  <2>1. ~(hi - lo > LongGap)
    BY <1>1
  <2>2. Gap(src, dst) = Coord(lo, dst) - Coord(lo, src)
    BY <2>1 DEF Gap
  <2>3. Coord(lo, dst) = sum + dst.pos
    BY <1>1, CoordIsTotal
  <2>4. Coord(lo, src) = Total([slot \in lo..(lo - 1) |-> n(slot)], lo..(lo - 1)) + src.pos
    BY <1>1, CoordIsTotal
  <2>5. lo..(lo - 1) = {}
    BY <1>1
  <2>6. Coord(lo, src) = 0 + src.pos
    BY <2>4, <2>5, TotalEmpty
  <2>7. sum \in Int
    <3> DEFINE I == lo..(hi - 1)
               w == [slot \in I |-> n(slot)]
    <3>0. lo \in Int /\ hi - 1 \in Int
      BY <1>1
    <3>1. IsFiniteSet(I)
      BY <3>0, FS_Interval
    <3>2. \A slot \in I : w[slot] \in Int
      BY SlotCounts
    <3> HIDE DEF I, w
    <3>3. Total(w, I) \in Int
      BY <3>1, <3>2, TotalInt
    <3> QED
      BY <3>3 DEF I, w
  <2> HIDE DEF sum
  <2> QED
    BY <1>1, <2>2, <2>3, <2>6, <2>7
<1>4. \A t : t \in B <=> \E slot \in lo..hi : \E p \in 0..(n(slot) - 1) :
             /\ t = [slot |-> slot, pos |-> p]
             /\ lo < slot \/ src.pos < p
             /\ slot < hi \/ p <= dst.pos
  <2>1. \A t : t \in B <=> t \in Transactions(lo, hi) /\ Before(src, t) /\ ~Before(dst, t)
    BY DEF Between
  <2>2. \A t : t \in Transactions(lo, hi) <=>
          \E slot \in lo..hi : \E p \in 0..(n(slot) - 1) : t = [slot |-> slot, pos |-> p]
    BY <1>1, IsTransaction
  <2>3. ASSUME NEW slot \in lo..hi, NEW p \in 0..(n(slot) - 1), NEW t,
               t = [slot |-> slot, pos |-> p]
        PROVE  Before(src, t) /\ ~Before(dst, t) <=>
                 (lo < slot \/ src.pos < p) /\ (slot < hi \/ p <= dst.pos)
    <3>1. t.slot = slot /\ t.pos = p /\ slot \in Int /\ p \in Int
      BY <1>1, <2>3, SlotCounts
    <3> QED
      BY <1>1, <3>1 DEF Before
  <2> HIDE DEF B, lo, hi, n
  <2> QED
    BY <2>1, <2>2, <2>3
<1> HIDE DEF B
<1>5. CASE lo = hi
  <2>1. B = TxsOf(lo, src.pos + 1, dst.pos)
    <3>1. ASSUME NEW t \in B PROVE t \in TxsOf(lo, src.pos + 1, dst.pos)
      BY <1>1, <1>4, <1>5 DEF TxsOf
    <3>2. ASSUME NEW p \in (src.pos + 1)..dst.pos PROVE [slot |-> lo, pos |-> p] \in B
      BY <1>1, <1>2, <1>4, <1>5
    <3> QED
      BY <3>1, <3>2 DEF TxsOf
  <2>2. Cardinality(B) = dst.pos - src.pos
    BY <1>1, <1>5, <2>1, CountTxs
  <2>3. sum = 0
    <3>1. lo..(hi - 1) = {}
      BY <1>1, <1>5
    <3> QED
      BY <3>1, TotalEmpty
  <2> HIDE DEF sum
  <2> QED
    BY <1>1, <1>3, <2>2, <2>3 DEF B
<1>6. CASE lo < hi
  <2> DEFINE T == Transactions(lo, hi - 1)
             X == TxsOf(lo, 0, src.pos)
             Y == TxsOf(hi, 0, dst.pos)
  <2>1. IsFiniteSet(T) /\ Cardinality(T) = sum
    BY <1>1, CountTransactions, SMTT(30)
  <2>2. /\ IsFiniteSet(X) /\ Cardinality(X) = src.pos + 1
        /\ IsFiniteSet(Y) /\ Cardinality(Y) = dst.pos + 1
    BY <1>1, CountTxs
  <2>3. \A t : t \in T <=> \E slot \in lo..(hi - 1) : \E p \in 0..(n(slot) - 1) :
                             t = [slot |-> slot, pos |-> p]
    BY <1>1, IsTransaction
  <2>4. \A t : /\ t \in X <=> \E p \in 0..src.pos : t = [slot |-> lo, pos |-> p]
               /\ t \in Y <=> \E p \in 0..dst.pos : t = [slot |-> hi, pos |-> p]
    BY DEF TxsOf
  <2> HIDE DEF T, X, Y, n, lo, hi, sum
  <2>5. X \subseteq T
    BY <1>1, <1>2, <1>6, <2>3, <2>4
  <2>6. \A t : t \in T \ X <=> \E slot \in lo..(hi - 1) : \E p \in 0..(n(slot) - 1) :
                 t = [slot |-> slot, pos |-> p] /\ (lo < slot \/ src.pos < p)
    <3>1. ASSUME NEW slot \in lo..(hi - 1), NEW p \in 0..(n(slot) - 1)
          PROVE  [slot |-> slot, pos |-> p] \in X <=> ~(lo < slot \/ src.pos < p)
      <4>1. slot \in Int /\ p \in Int /\ p >= 0 /\ slot >= lo
        BY <1>1
      <4> QED
        BY <1>1, <2>4, <4>1
    <3> QED
      BY <2>3, <3>1
  <2>7. B = (T \ X) \cup Y
    <3>1. ASSUME NEW t \in B PROVE t \in (T \ X) \cup Y
      <4>1. PICK slot \in lo..hi : \E p \in 0..(n(slot) - 1) :
              /\ t = [slot |-> slot, pos |-> p]
              /\ lo < slot \/ src.pos < p
              /\ slot < hi \/ p <= dst.pos
        BY <1>4
      <4>2. PICK p \in 0..(n(slot) - 1) :
              /\ t = [slot |-> slot, pos |-> p]
              /\ lo < slot \/ src.pos < p
              /\ slot < hi \/ p <= dst.pos
        BY <4>1
      <4>3. CASE slot < hi
        <5>1. slot \in lo..(hi - 1)
          BY <1>1, <4>3
        <5> QED
          BY <2>6, <4>2, <5>1
      <4>4. CASE slot = hi
        <5>1. p \in 0..dst.pos
          BY <1>1, <1>2, <4>2, <4>4
        <5> QED
          BY <2>4, <4>2, <4>4, <5>1
      <4> QED
        BY <1>1, <4>3, <4>4
    <3>2. ASSUME NEW t \in T \ X PROVE t \in B
      <4>1. PICK slot \in lo..(hi - 1) : \E p \in 0..(n(slot) - 1) :
              t = [slot |-> slot, pos |-> p] /\ (lo < slot \/ src.pos < p)
        BY <2>6
      <4>2. slot \in lo..hi /\ slot < hi
        BY <1>1, <4>1
      <4> QED
        BY <1>4, <4>1, <4>2
    <3>3. ASSUME NEW t \in Y PROVE t \in B
      <4>1. PICK p \in 0..dst.pos : t = [slot |-> hi, pos |-> p]
        BY <2>4
      <4>2. hi \in lo..hi /\ lo < hi /\ p \in 0..(n(hi) - 1) /\ p <= dst.pos
        BY <1>1, <1>2, <1>6
      <4> QED
        BY <1>4, <4>1, <4>2
    <3> QED
      BY <3>1, <3>2, <3>3
  <2>8. (T \ X) \cap Y = {}
    BY <1>1, <2>4, <2>6
  <2>9. /\ IsFiniteSet(T \ X)
        /\ Cardinality(T \ X) = sum - (src.pos + 1)
    <3>1. T \cap X = X
      BY <2>5
    <3>2. IsFiniteSet(T \ X) /\ Cardinality(T \ X) = Cardinality(T) - Cardinality(T \cap X)
      BY <2>1, FS_Difference
    <3> QED
      BY <2>1, <2>2, <3>1, <3>2
  <2>10. Cardinality(B) = Cardinality(T \ X) + Cardinality(Y)
    <3>1. Cardinality(B) = Cardinality(T \ X) + Cardinality(Y) - Cardinality({})
      BY <2>2, <2>7, <2>8, <2>9, FS_Union
    <3>2. Cardinality({}) = 0 /\ Cardinality(T \ X) \in Nat /\ Cardinality(Y) \in Nat
      BY <2>2, <2>9, FS_EmptySet, FS_CardinalityType
    <3> QED
      BY <3>1, <3>2
  <2> QED
    BY <1>1, <1>3, <2>2, <2>9, <2>10 DEF B
<1> QED
  BY <1>1, <1>5, <1>6

(* The legs that a gap is measured between, in their order.                *)
LEMMA GapEnds ==
  ASSUME world \in Worlds, NEW id, Legs(id, "victim") # {}
  PROVE  LET front  == FirstLeg(Legs(id, "frontRun"))
             first  == FirstLeg(Legs(id, "victim"))
             last   == LastLeg(Legs(id, "victim"))
             back   == FirstLeg(Legs(id, "backRun"))
         IN  /\ Legs(id, "frontRun") # {} =>
                  front \in world.legs /\ first \in world.legs /\ Before(front, first)
             /\ Legs(id, "backRun") # {} =>
                  last \in world.legs /\ back \in world.legs /\ Before(last, back)
<1>1. \A type : /\ IsFiniteSet(Legs(id, type)) /\ Placed(Legs(id, type))
                /\ Legs(id, type) \subseteq LegsOf(world, type)
                /\ \A l \in Legs(id, type) : l.id = id
  BY LegRows DEF Placed, LegsOf
<1>2. \A type : Legs(id, type) # {} =>
        FirstLeg(Legs(id, type)) \in Legs(id, type) /\ LastLeg(Legs(id, type)) \in Legs(id, type)
  BY <1>1, EndsExist
<1>3. \A type : LegsOf(world, type) \subseteq world.legs
  BY DEF LegsOf
<1>4. /\ \A f \in LegsOf(world, "frontRun"),
            l \in LegsOf(world, "victim") \cup LegsOf(world, "backRun") :
           f.id = l.id => Before(f, l)
      /\ \A v \in LegsOf(world, "victim"), b \in LegsOf(world, "backRun") :
           v.id = b.id => Before(v, b)
  BY WindowAssumption
<1> QED
  BY <1>1, <1>2, <1>3, <1>4

(* compute_gaps, for every chain and LONG_GAP_SLOTS: the difference of two *)
(* coordinates is the number of transactions passed.                       *)
THEOREM GapsAreCounts ==
  ASSUME BlocksCounted
  PROVE  PairsSpec => []GapsCountTransactions
<1>1. PairsInit => GapsCountTransactions
  BY DEF PairsInit, GeometryInit, MetricsInit, GapsCountTransactions
<1>2. ASSUME MInv, GapsCountTransactions, [PairsNext]_pairVars
      PROVE  GapsCountTransactions'
  <2>1. world' = world /\ world \in Worlds
    BY <1>2 DEF PairsNext, MetricsNext, ProcessEpoch, RaiseOnEpoch, LastEpochDone, JoinGeometry,
                RefuseGeometry, ScorePairs, NoPopulation, Ended, pairVars, metricVars, MInv
  <2>2. /\ \A id, type : (Legs(id, type))' = Legs(id, type)
        /\ \A src, dst : (Between(src, dst))' = Between(src, dst)
    <3>1. \A slot : (SlotTxCount(slot))' = SlotTxCount(slot)
      BY <2>1 DEF SlotTxCount
    <3>2. \A lo, hi : (Transactions(lo, hi))' = Transactions(lo, hi)
      BY <3>1 DEF Transactions
    <3> QED
      BY <2>1, <3>2 DEF Legs, Between
  <2> DEFINE Right(m) ==
        LET front == Legs(m.id, "frontRun")
            victim == Legs(m.id, "victim")
            back == Legs(m.id, "backRun")
        IN  /\ m.frontGap # Nothing /\ FirstLeg(victim).slot - FirstLeg(front).slot <= LongGap =>
                 m.frontGap = Cardinality(Between(FirstLeg(front), FirstLeg(victim)))
            /\ m.backGap # Nothing /\ FirstLeg(back).slot - LastLeg(victim).slot <= LongGap =>
                 m.backGap = Cardinality(Between(LastLeg(victim), FirstLeg(back)))
  <2>3. \A m \in metrics : Right(m)
    BY <1>2 DEF GapsCountTransactions
  <2>4. ASSUME NEW s \in Fetched(epoch)
        PROVE  Right(Metric(s, epoch))
    <3> DEFINE m == Metric(s, epoch)
               front == Legs(s.id, "frontRun")
               victim == Legs(s.id, "victim")
               back == Legs(s.id, "backRun")
    <3>1. m.id = s.id /\ m.frontGap = FrontGap(s.id) /\ m.backGap = BackGap(s.id)
      BY DEF Metric
    <3> HIDE DEF m
    <3>2. ASSUME m.frontGap # Nothing,
                 FirstLeg(victim).slot - FirstLeg(front).slot <= LongGap
          PROVE  m.frontGap = Cardinality(Between(FirstLeg(front), FirstLeg(victim)))
      <4>1. front # {} /\ victim # {} /\ m.frontGap = Gap(FirstLeg(front), FirstLeg(victim))
        BY <3>1, <3>2 DEF FrontGap
      <4> QED
        BY <2>1, <3>2, <4>1, GapEnds, GapCounts
    <3>3. ASSUME m.backGap # Nothing,
                 FirstLeg(back).slot - LastLeg(victim).slot <= LongGap
          PROVE  m.backGap = Cardinality(Between(LastLeg(victim), FirstLeg(back)))
      <4>1. back # {} /\ victim # {} /\ m.backGap = Gap(LastLeg(victim), FirstLeg(back))
        BY <3>1, <3>3 DEF BackGap
      <4> QED
        BY <2>1, <3>3, <4>1, GapEnds, GapCounts
    <3> QED
      BY <3>1, <3>2, <3>3 DEF m
  <2>5. \A m \in metrics' : Right(m)
    <3>1. CASE ProcessEpoch
      <4>1. metrics' = metrics \cup {Metric(s, epoch) : s \in Fetched(epoch)}
        BY <3>1 DEF ProcessEpoch
      <4> HIDE DEF Right
      <4> QED
        BY <2>3, <2>4, <4>1
    <3>2. CASE ~ProcessEpoch
      <4>1. metrics' = metrics
        BY <1>2, <3>2 DEF PairsNext, MetricsNext, RaiseOnEpoch, LastEpochDone, JoinGeometry,
                          RefuseGeometry, ScorePairs, NoPopulation, Ended, pairVars, metricVars
      <4> QED
        BY <2>3, <4>1
    <3> QED
      BY <3>1, <3>2
  <2> QED
    BY <2>2, <2>5 DEF GapsCountTransactions
<1> QED
  BY <1>1, <1>2, SpecMInv, PTL DEF PairsSpec
=============================================================================
