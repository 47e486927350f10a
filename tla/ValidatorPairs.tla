--------------------------- MODULE ValidatorPairs ---------------------------
(***************************************************************************)
(* Phase 4 (src/sandwich-intent/4_validator_association.py): which         *)
(* validators lead around the sandwiches of a Signal Bot more often than   *)
(* their share of the slots explains, and the cohorts of Signal Bots that  *)
(* meet the same validators.  It starts from the rows of phases 1 and 3;   *)
(* world.bots are the entities phase 3 labels "Signal Bot" and the experts *)
(* do not overturn.                                                        *)
(***************************************************************************)
EXTENDS LeaderGeometry

CONSTANTS
  OffsetMax,                (* OFFSET_MAX                                  *)
  EtaNum, EtaDen, MinNear,  (* --min-enrichment, --min-near-cnt            *)
  MinShared,                (* --cohort-min-shared                         *)
  IncludeCrossLeader        (* --include-cross-leader                      *)

ASSUME PairsAssumption ==
  /\ {OffsetMax, EtaNum, MinNear} \subseteq Nat
  /\ EtaDen \in Nat \ {0} /\ MinShared \in Nat \ {0}
  /\ IncludeCrossLeader \in BOOLEAN

VARIABLE pairs    (* the flagged pairs and the cohorts, once scored        *)

pairVars == <<metricVars, geometry, pairs>>

Offset == (-OffsetMax)..OffsetMax

-----------------------------------------------------------------------------
(* load_leader_blocks: a rotation starts where the leader changes or the   *)
(* slot before has no row.  build_slot_to_block_idx: which one, in slot    *)
(* order, a slot lies in.                                                  *)
BlockStarts ==
  {s \in Scheduled : s - 1 \notin Scheduled \/ LeaderAt(s - 1) # LeaderAt(s)}

BlockOf ==
  LET starts == BlockStarts
  IN  [s \in Scheduled |-> Cardinality({x \in starts : x <= s})]

SlotsOf(blockOf, i) == {s \in DOMAIN blockOf : blockOf[s] = i}

Validator == {world.leaders[s] : s \in Scheduled}

(* The validator that leads off rotations from rotation i, if any does.    *)
LeadsAt(blockOf, v, i, off) ==
  \E s \in SlotsOf(blockOf, i + off) : LeaderAt(s) = v

(* Mutant: rotations are counted, not their slots.                         *)
TurnsNear(blockOf, v, off) ==
  Cardinality({i \in Range(blockOf) : LeadsAt(blockOf, v, i, off)})

(* compute_global_offset_freq, times the number of slots: how many slots   *)
(* have v that many rotations away.                                        *)
SlotsNear(blockOf, v, off) ==
  MapThenSumSet(LAMBDA i : Cardinality(SlotsOf(blockOf, i)),
                {i \in Range(blockOf) : LeadsAt(blockOf, v, i, off)})

ExpectedNear(blockOf, v) ==
  MapThenSumSet(LAMBDA off : SlotsNear(blockOf, v, off), Offset)

(* compute_signer_validator_counts: a sandwich on a slot without a leader  *)
(* is near no one.                                                         *)
Met(blockOf, own, v, off) ==
  {r \in own : r.slot \in DOMAIN blockOf /\ LeadsAt(blockOf, v, blockOf[r.slot], off)}

NearCount(blockOf, own, v) ==
  MapThenSumSet(LAMBDA off : Cardinality(Met(blockOf, own, v, off)), Offset)

-----------------------------------------------------------------------------
(* run_variant: the sandwiches of the bots, those of one leader unless     *)
(* both kinds are asked for.                                               *)
Population ==
  {m \in metrics : /\ m.signer \in world.bots
                   /\ IncludeCrossLeader \/ ~m.crossLeader}

(* score_pairs, on the rows of one bot.  The total counts all of them.     *)
Enriched(blockOf, own, v) ==
  LET near     == NearCount(blockOf, own, v)
      expected == ExpectedNear(blockOf, v)
  IN  /\ expected > 0 /\ near > 0 /\ near >= MinNear
      /\ near * Cardinality(Scheduled) * EtaDen >= EtaNum * expected * Cardinality(own)

Flagged ==
  LET blockOf == BlockOf
  IN  {p \in {m.signer : m \in Population} \X Validator :
         Enriched(blockOf, {m \in Population : m.signer = p[1]}, p[2])}

(* cluster_cohorts: the sets that the two kinds of links connect, of two   *)
(* attackers and more.                                                     *)
ValidatorsOf(flagged, a) == {p[2] : p \in {x \in flagged : x[1] = a}}

(* Mutant: one shared validator is no link.                                *)
LinkedByCount(flagged, a, b) ==
  Cardinality(ValidatorsOf(flagged, a) \cap ValidatorsOf(flagged, b)) >= MinShared

Linked(flagged, a, b) ==
  \/ Cardinality(ValidatorsOf(flagged, a) \cap ValidatorsOf(flagged, b)) >= MinShared
  \/ \E p, q \in flagged : p[1] = a /\ q[1] = b /\ p[2] = q[2]

Closed(flagged, C) ==
  \A a \in C, b \in {p[1] : p \in flagged} : Linked(flagged, a, b) => b \in C
Cohorts(flagged) ==
  LET unions == {C \in SUBSET {p[1] : p \in flagged} : C # {} /\ Closed(flagged, C)}
  IN  {C \in unions : Cardinality(C) >= 2 /\ ~\E D \in unions : D \subseteq C /\ D # C}

-----------------------------------------------------------------------------
PairsInit == GeometryInit /\ pairs = Nothing

(* The rotations cannot be built from an empty slot_leaders, and a variant *)
(* without a sandwich ends the script.                                     *)
ScorePairs ==
  /\ pc = "classified" /\ Scheduled # {} /\ Population # {}
  /\ \E flagged \in {Flagged} :
       pairs' = [flagged |-> flagged, cohorts |-> Cohorts(flagged)]
  /\ pc' = "scored"
  /\ UNCHANGED <<world, epoch, metrics, geometry>>

NoPopulation ==
  /\ pc = "classified" /\ (Scheduled = {} \/ Population = {})
  /\ pc' = "raised"
  /\ UNCHANGED <<world, epoch, metrics, geometry, pairs>>

Ended == pc \in {"scored", "raised"} /\ UNCHANGED pairVars

PairsNext ==
  \/ MetricsNext /\ UNCHANGED <<geometry, pairs>>
  \/ (JoinGeometry \/ RefuseGeometry) /\ UNCHANGED pairs
  \/ ScorePairs \/ NoPopulation
  \/ Ended

PairsSpec == PairsInit /\ [][PairsNext]_pairVars

-----------------------------------------------------------------------------
(* The baseline is chance: a bot with one sandwich on every slot of the    *)
(* schedule meets each validator as often as expected, at the ends of the  *)
(* range and beside rotations of any length too                            *)
(* (compute_global_offset_freq, compute_signer_validator_counts).          *)
ChanceIsNeutral ==
  pc = "scored" =>
    LET blockOf == BlockOf
    IN  \A v \in Validator :
          NearCount(blockOf, {[slot |-> s] : s \in Scheduled}, v) = ExpectedNear(blockOf, v)

(* No two cohorts share a validator and every attacker of a cohort shares  *)
(* one with another: the second kind of link decides alone, whatever       *)
(* --cohort-min-shared says (cluster_cohorts).                             *)
CohortsOwnValidators ==
  pc = "scored" =>
    LET reach(C) == UNION {ValidatorsOf(pairs.flagged, a) : a \in C}
    IN  /\ \A C, D \in pairs.cohorts : C # D => reach(C) \cap reach(D) = {}
        /\ \A C \in pairs.cohorts : \A a \in C : \E b \in C \ {a} :
             ValidatorsOf(pairs.flagged, a) \cap ValidatorsOf(pairs.flagged, b) # {}
        /\ \A p, q \in pairs.flagged : p[1] # q[1] /\ p[2] = q[2] =>
             \E C \in pairs.cohorts : p[1] \in C /\ q[1] \in C
=============================================================================
