-------------------------- MODULE SandwichMetrics --------------------------
(***************************************************************************)
(* Phase 1 of the attacker analysis, per sandwich                          *)
(* (src/sandwich-intent/1_signer_data_preparation_and_summary.py): the     *)
(* epochs of the range are read one after the other and every sandwich of  *)
(* the category gets its ordering gaps, its slippage consumption (SC), its *)
(* profit net of fees and its bundle flags.  The tables are MergeTrees: a  *)
(* row written twice is there twice.                                       *)
(***************************************************************************)
EXTENDS Integers, FiniteSets, FiniteSetsExt, Sequences, SequencesExt

CONSTANTS
  SlotsPerEpoch, FirstEpoch, LastEpoch,
  FloorDen,     (* SC_PROTECTION_FLOOR is 1 / FloorDen                     *)
  TolDen,       (* SC_CEIL_TOL is 1 / TolDen                               *)
  LongGap,      (* LONG_GAP_SLOTS                                          *)
  LongGapTx,    (* LONG_GAP_AVG_TX                                         *)
  Excluded,     (* EXCLUDED_EPOCHS of the bundle verdicts                  *)
  Price,        (* token -> USD for the tokens that have a price           *)
  Nothing,      (* NaN, NA and None                                        *)
  Worlds        (* the databases a behaviour may start from                *)

ASSUME MetricsAssumption ==
  /\ SlotsPerEpoch \in Nat \ {0} /\ FirstEpoch \in Nat /\ LastEpoch \in Nat
  /\ FloorDen \in Nat \ {0} /\ TolDen \in Nat \ {0}
  /\ LongGap \in Nat /\ LongGapTx \in Nat
  /\ Excluded \subseteq Nat
  /\ \A token \in DOMAIN Price : Price[token] \in Nat
  /\ Nothing \notin Int /\ Nothing \notin Int \X Int

SandwichKey == {"id"}
LegKey == {"id", "type", "slot", "pos"}

(* What the detector writes.  The id of a sandwich is made of the          *)
(* signatures of its first front and its first back leg, and its slot is   *)
(* that of the former: rows with one id have one slot, and differ in what  *)
(* orders them unless they are copies.                                     *)
ASSUME WorldsAssumption ==
  \A w \in Worlds :
    /\ IsFiniteSet(w.sandwiches) /\ IsFiniteSet(w.legs)
    /\ IsFiniteSet(w.slotTxs) /\ w.slotTxs \subseteq Nat \X Nat
    /\ \A s \in w.sandwiches : s.slot \in Nat /\ s.ver \in Nat
    /\ \A s, x \in w.sandwiches :
         s.id = x.id => s.slot = x.slot /\ (s.ver = x.ver => s = x)
    /\ \A l \in w.legs :
         /\ {l.slot, l.pos, l.ver} \subseteq Nat /\ l.copies \in Nat \ {0}
         /\ {l.limit, l.actual} \subseteq Int
    /\ \A l, x \in w.legs :
         (\A field \in LegKey : l[field] = x[field]) /\ l.ver = x.ver => l = x

VARIABLES
  world,    (* category, crossLeader: the options; sandwiches, legs: the   *)
            (* rows of the two tables, each with a ver that orders         *)
            (* conflicting duplicates and a number of copies; slotTxs: the *)
            (* rows <<slot, txCount>>; leaders: slot_leaders; verdicts:    *)
            (* the ids that the CSVs of the bundle crawl list              *)
  pc, epoch,
  metrics   (* the rows of per_sandwich so far                             *)

metricVars == <<world, pc, epoch, metrics>>

-----------------------------------------------------------------------------
(* CATEGORY_SCOPES and --cross-leader.                                     *)
Categories == {"standard", "multi_split", "diff_signer_owner",
               "diff_signer_transfer"}

InCategory(s, category) ==
  CASE category = "standard"             -> s.signerSame /\ ~s.multi
    [] category = "multi_split"          -> s.signerSame /\ s.multi
    [] category = "diff_signer_owner"    -> ~s.signerSame /\ s.ownerSame /\ ~s.multi
    [] category = "diff_signer_transfer" -> ~s.signerSame /\ ~s.ownerSame /\ ~s.multi

InScope(s) ==
  /\ InCategory(s, world.category)
  /\ world.crossLeader = "exclude" => ~s.crossLeader
  /\ world.crossLeader = "only" => s.crossLeader

(* _dedup: of the rows with one key the first in a total order of the      *)
(* contents.                                                               *)
Dedup(rows, key) ==
  {r \in rows : \A x \in rows : (\A field \in key : r[field] = x[field]) => r.ver <= x.ver}

(* Mutant: the window includes the first slot of the next epoch.           *)
InWindowClosed(slot, e) ==
  e * SlotsPerEpoch <= slot /\ slot <= (e + 1) * SlotsPerEpoch

InWindow(slot, e) == e * SlotsPerEpoch <= slot /\ slot < (e + 1) * SlotsPerEpoch

Fetched(e) ==
  Dedup({s \in world.sandwiches : InScope(s) /\ InWindow(s.slot, e)}, SandwichKey)

(* Legs are fetched by the ids of the scope, wherever their slots are.     *)
Legs(id, type) ==
  Dedup({l \in world.legs : l.id = id /\ l.type = type}, LegKey)

(* fetch_leg_fees sums in the database, over every copy of a row.          *)
FeeSol(id) ==
  MapThenSumSet(LAMBDA l : l.fee * l.copies,
                {l \in world.legs : l.id = id /\ l.type \in {"frontRun", "backRun"}})

(* A slot with two rows counts as the larger, one without a row as empty.  *)
SlotTxCount(slot) ==
  LET counts == {row[2] : row \in {r \in world.slotTxs : r[1] = slot}}
  IN  IF counts = {} THEN 0 ELSE Max(counts)

-----------------------------------------------------------------------------
Before(l, x) == l.slot < x.slot \/ (l.slot = x.slot /\ l.pos < x.pos)
FirstLeg(legs) == CHOOSE l \in legs : \A x \in legs : ~Before(x, l)
LastLeg(legs) == CHOOSE l \in legs : \A x \in legs : ~Before(l, x)

(* Mutant: the transactions of the first slot are left out.                *)
CoordAfter(lo, l) == MapThenSumSet(SlotTxCount, (lo + 1)..(l.slot - 1)) + l.pos

(* The coordinate of a transaction on the slot axis from lo on.            *)
Coord(lo, l) == MapThenSumSet(SlotTxCount, lo..(l.slot - 1)) + l.pos

(* Beyond LongGap slots an average stands for the slots in between.        *)
Gap(src, dst) ==
  LET span == dst.slot - src.slot
  IN  IF span > LongGap
      THEN (SlotTxCount(src.slot) - src.pos) + LongGapTx * (span - 1) + dst.pos
      ELSE Coord(src.slot, dst) - Coord(src.slot, src)

FrontGap(id) ==
  IF Legs(id, "frontRun") = {} \/ Legs(id, "victim") = {} THEN Nothing
  ELSE Gap(FirstLeg(Legs(id, "frontRun")), FirstLeg(Legs(id, "victim")))

BackGap(id) ==
  IF Legs(id, "backRun") = {} \/ Legs(id, "victim") = {} THEN Nothing
  ELSE Gap(LastLeg(Legs(id, "victim")), FirstLeg(Legs(id, "backRun")))

-----------------------------------------------------------------------------
(* The SC of a victim is num / den.                                        *)
Num(v) == IF v.limitType = "output" THEN v.limit ELSE v.actual
Den(v) == IF v.limitType = "output" THEN v.actual ELSE v.limit

AtMostOne(v) == Num(v) * TolDen <= Den(v) * (TolDen + 1)

VictimReason(v) ==
  IF v.limitType \notin {"output", "input"} THEN "empty_type"
  ELSE IF v.limit < 0 \/ (v.limit = 0 /\ v.limitType = "input") THEN "limit_nonpositive"
  ELSE IF v.limit = 0 THEN "no_protection"
  ELSE IF v.actual <= 0 THEN "actual_nonpositive"
  ELSE IF AtMostOne(v) THEN "ok"
  ELSE "above_one"

(* Mutant: a victim beyond its limit counts as measured.                   *)
MeasuredAbove == {"ok", "no_protection", "above_one"}

Measured == {"ok", "no_protection"}

ReasonPriority == <<"no_victim", "empty_type", "limit_nonpositive",
                    "actual_nonpositive", "above_one", "ok", "no_protection">>

(* SC in [0, 1], a value within the tolerance above 1 clamped to 1.        *)
VictimSC(v) ==
  IF VictimReason(v) = "no_protection" THEN <<0, 1>>
  ELSE IF Num(v) > Den(v) THEN <<1, 1>> ELSE <<Num(v), Den(v)>>

AtLeast(p, q) == p[1] * q[2] >= q[1] * p[2]
Protected(v) ==
  VictimReason(v) \in Measured /\ AtLeast(VictimSC(v), <<1, FloorDen>>)

(* aggregate_sc_per_sandwich: any victim that cannot be measured voids the *)
(* sandwich; the score is the largest SC of those above the floor.         *)
SandwichSC(victims) ==
  LET reasons == IF victims = {} THEN {"no_victim"} ELSE {VictimReason(v) : v \in victims}
      best    == CHOOSE v \in victims : Protected(v) /\
                   \A x \in victims : Protected(x) => AtLeast(VictimSC(v), VictimSC(x))
      worst   == CHOOSE r \in reasons : \A x \in reasons :
                   \E i, j \in DOMAIN ReasonPriority :
                     ReasonPriority[i] = r /\ ReasonPriority[j] = x /\ i <= j
      anomaly == reasons \ Measured # {}
      bare    == ~anomaly /\ \A v \in victims : ~Protected(v)
  IN  [sc          |-> IF anomaly \/ bare THEN Nothing ELSE VictimSC(best),
       anomaly     |-> anomaly,
       unprotected |-> bare,
       reason      |-> IF bare THEN "no_protection" ELSE worst]

-----------------------------------------------------------------------------
(* The common signer of the first front and the first back leg, else the   *)
(* fee payer of the first front leg.                                       *)
CommonSigner(id) ==
  LET front  == FirstLeg(Legs(id, "frontRun")).signers
      back   == IF Legs(id, "backRun") = {} THEN <<>>
                ELSE FirstLeg(Legs(id, "backRun")).signers
      common == ToSet(front) \cap ToSet(back)
  IN  IF Legs(id, "frontRun") = {} \/ front = <<>> THEN Nothing
      ELSE IF common # {} THEN Min(common) ELSE front[1]

(* load_bundle_verdicts, and what verified_bundle_sandwiches adds.         *)
Colocated(s, e) == s.id \in world.verdicts /\ e \notin Excluded
Verified(s, e) ==
  /\ Colocated(s, e)
  /\ \E r \in world.sandwiches : r.id = s.id /\ r.signerSame /\ r.profit > 0

UsdNet(s) ==
  IF s.tokenA \in DOMAIN Price
  THEN s.profit * Price[s.tokenA] - FeeSol(s.id) * Price["SOL"]
  ELSE Nothing

Metric(s, e) ==
  [id        |-> s.id,
   slot      |-> s.slot,
   signer    |-> IF world.category = "diff_signer_owner" THEN Nothing
                 ELSE CommonSigner(s.id),
   crossLeader |-> s.crossLeader,
   profit    |-> s.profit,
   fee       |-> FeeSol(s.id),
   usdNet    |-> UsdNet(s),
   frontGap  |-> FrontGap(s.id),
   backGap   |-> BackGap(s.id),
   sc        |-> SandwichSC(Legs(s.id, "victim")),
   colocated |-> Colocated(s, e),
   bundle    |-> Verified(s, e)]

-----------------------------------------------------------------------------
MetricsInit ==
  /\ world \in Worlds
  /\ pc = "epochs" /\ epoch = FirstEpoch /\ metrics = {}

(* aggregate_sc_per_sandwich returns a frame without the column            *)
(* sc_unprotected for an epoch whose sandwiches have no victim leg at all, *)
(* and compute_per_sandwich_metrics reads that column.                     *)
NoVictimLegs(e) == \A s \in Fetched(e) : Legs(s.id, "victim") = {}

ProcessEpoch ==
  /\ pc = "epochs" /\ epoch <= LastEpoch
  /\ Fetched(epoch) # {} => ~NoVictimLegs(epoch)
  /\ metrics' = metrics \cup {Metric(s, epoch) : s \in Fetched(epoch)}
  /\ epoch' = epoch + 1
  /\ UNCHANGED <<world, pc>>

RaiseOnEpoch ==
  /\ pc = "epochs" /\ epoch <= LastEpoch
  /\ Fetched(epoch) # {} /\ NoVictimLegs(epoch)
  /\ pc' = "raised"
  /\ UNCHANGED <<world, epoch, metrics>>

LastEpochDone ==
  /\ pc = "epochs" /\ epoch > LastEpoch
  /\ pc' = "done"
  /\ UNCHANGED <<world, epoch, metrics>>

MetricsNext == ProcessEpoch \/ RaiseOnEpoch \/ LastEpochDone

-----------------------------------------------------------------------------
(* Every sandwich of the scope whose slot lies in the range is measured    *)
(* once, the epochs' borders included and whatever was written twice       *)
(* (process_epoch, fetch_sandwiches, _dedup).                              *)
EachSandwichOnce ==
  pc \notin {"epochs", "raised"} =>
    LET inRange == {s \in world.sandwiches :
                      /\ InScope(s)
                      /\ s.slot \div SlotsPerEpoch \in FirstEpoch..LastEpoch}
    IN  /\ {m.id : m \in metrics} = {s.id : s \in inRange}
        /\ \A m, x \in metrics : m.id = x.id => m = x

(* The transactions of slots lo..hi that slot_txs knows of.                *)
Transactions(lo, hi) ==
  {[slot |-> p[1], pos |-> p[2]] :
     p \in UNION {{slot} \X (0..(SlotTxCount(slot) - 1)) : slot \in lo..hi}}

Between(src, dst) ==
  {t \in Transactions(src.slot, dst.slot) : Before(src, t) /\ ~Before(dst, t)}

(* A gap is the number of transactions from one leg up to the other: from  *)
(* the first front to the first victim, from the last victim to the first  *)
(* back run, across slots too (compute_gaps).                              *)
GapsCountTransactions ==
  \A m \in metrics :
    LET front == Legs(m.id, "frontRun")
        victim == Legs(m.id, "victim")
        back == Legs(m.id, "backRun")
    IN  /\ m.frontGap # Nothing /\ FirstLeg(victim).slot - FirstLeg(front).slot <= LongGap =>
             m.frontGap = Cardinality(Between(FirstLeg(front), FirstLeg(victim)))
        /\ m.backGap # Nothing /\ FirstLeg(back).slot - LastLeg(victim).slot <= LongGap =>
             m.backGap = Cardinality(Between(LastLeg(victim), FirstLeg(back)))

(* A score stands for every victim: each one was measured, none consumed   *)
(* more of its tolerance than the score says, and the score lies between   *)
(* the protection floor and 1.  A sandwich is scored, anomalous or         *)
(* unprotected, never two of them (compute_victim_sc,                      *)
(* aggregate_sc_per_sandwich).                                             *)
ScoreCoversVictims ==
  \A m \in metrics :
    LET scored == m.sc.sc # Nothing
        victims == Legs(m.id, "victim")
    IN  /\ scored <=> (~m.sc.anomaly /\ ~m.sc.unprotected)
        /\ ~(m.sc.anomaly /\ m.sc.unprotected)
        /\ scored =>
             /\ AtLeast(m.sc.sc, <<1, FloorDen>>) /\ AtLeast(<<1, 1>>, m.sc.sc)
             /\ m.sc.reason = "ok"
             /\ \A v \in victims :
                  /\ v.limitType \in {"output", "input"} /\ v.limit >= 0
                  /\ v.limit > 0 => AtLeast(m.sc.sc, VictimSC(v))
        /\ m.sc.unprotected => m.sc.reason = "no_protection"

=============================================================================
