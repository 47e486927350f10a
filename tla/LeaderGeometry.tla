--------------------------- MODULE LeaderGeometry ---------------------------
(***************************************************************************)
(* Where the legs of a sandwich lie relative to the block producers        *)
(* (src/sandwich-intent/utils/intent.py), joined to the rows of phase 1 by *)
(* 3_attacker_filter.py.  A leader is a number; 0 is the empty string that *)
(* a slot without a row in slot_leaders is joined with.                    *)
(***************************************************************************)
EXTENDS SandwichMetrics

CONSTANT WindowSlack    (* WINDOW_SLACK                                    *)

ASSUME GeometryAssumption == WindowSlack \in Nat

LegType == {"frontRun", "victim", "backRun"}

(* A detection window is a rotation and the one after it, no turn skipped  *)
(* in between: within a sandwich the leader changes at most once.  Its     *)
(* front runs come before its victims, these before its back runs.         *)
LegsOf(w, type) == {l \in w.legs : l.type = type}

ASSUME WindowAssumption ==
  \A w \in Worlds :
    /\ DOMAIN w.leaders \subseteq Nat
    /\ \A f \in LegsOf(w, "frontRun"), l \in LegsOf(w, "victim") \cup LegsOf(w, "backRun") :
         f.id = l.id => Before(f, l)
    /\ \A v \in LegsOf(w, "victim"), b \in LegsOf(w, "backRun") : v.id = b.id => Before(v, b)
    /\ \A f \in LegsOf(w, "frontRun"), b \in LegsOf(w, "backRun") : f.id = b.id =>
         \E cut \in f.slot..b.slot :
           \A r, s \in DOMAIN w.leaders \cap (f.slot..b.slot) :
             (r <= cut <=> s <= cut) => w.leaders[r] = w.leaders[s]

VARIABLE geometry       (* the classified rows, once they are joined       *)

LeaderAt(slot) == IF slot \in DOMAIN world.leaders THEN world.leaders[slot] ELSE 0

-----------------------------------------------------------------------------
(* leader_geometry.  The ends of a sandwich are its first front leg and    *)
(* its last back leg; an aggregate over no row is the default of its type. *)
(* Mutant: only the legs of the epoch itself.                              *)
NearbyEpoch(id, e, type) ==
  {l \in world.legs : l.id = id /\ l.type = type /\ InWindow(l.slot, e)}

Nearby(id, e, type) ==
  {l \in world.legs :
     /\ l.id = id /\ l.type = type
     /\ e * SlotsPerEpoch - WindowSlack <= l.slot
     /\ l.slot < (e + 1) * SlotsPerEpoch + WindowSlack}

FirstSlot(legs) == IF legs = {} THEN 0 ELSE FirstLeg(legs).slot
LastSlot(legs) == IF legs = {} THEN 0 ELSE LastLeg(legs).slot
LeaderOver(legs, slot) == IF legs = {} THEN 0 ELSE LeaderAt(slot)

(* A count is over the rows, every copy of them.                           *)
CountRows(legs) == MapThenSumSet(LAMBDA l : l.copies, legs)

(* Mutant: the leader of the slot after.                                   *)
UnderNext(legs, leader) == {l \in legs : LeaderAt(l.slot + 1) = leader}

Under(legs, leader) == {l \in legs : LeaderAt(l.slot) = leader}

GeometryOf(id, e) ==
  LET front   == Nearby(id, e, "frontRun")
      back    == Nearby(id, e, "backRun")
      victims == Nearby(id, e, "victim")
      fleader == LeaderOver(front, FirstSlot(front))
      bleader == LeaderOver(back, LastSlot(back))
  IN  [frontSlot   |-> FirstSlot(front),
       backSlot    |-> LastSlot(back),
       crossBlock  |-> FirstSlot(front) # LastSlot(back),
       crossLeader |-> fleader # bleader,
       nVictims    |-> CountRows(victims),
       underFront  |-> CountRows(Under(victims, fleader)),
       underBack   |-> CountRows(Under(victims, bleader)),
       inFrontSlot |-> CountRows({v \in victims : v.slot = FirstSlot(front)}),
       firstUnderFront |-> LeaderOver(victims, FirstSlot(victims)) = fleader]

(* The sandwiches of an epoch, of every category, that have a leg nearby.  *)
Located(e) ==
  {id \in {s.id : s \in {x \in world.sandwiches : InWindow(x.slot, e)}} :
     \E type \in LegType : Nearby(id, e, type) # {}}

Geometry ==
  UNION {{[id |-> id, at |-> GeometryOf(id, e)] : id \in Located(e)} :
         e \in FirstEpoch..LastEpoch}

(* The detector's own front leader, the largest of the copies of a row.    *)
StoredLeader(id, e) ==
  Max({s.leader : s \in {x \in world.sandwiches : x.id = id /\ InWindow(x.slot, e)}})

LeadersDisagree ==
  \E e \in FirstEpoch..LastEpoch : \E id \in Located(e) :
    LET front == Nearby(id, e, "frontRun")
    IN  StoredLeader(id, e) \notin {0, LeaderOver(front, FirstSlot(front))}

-----------------------------------------------------------------------------
(* leader_rotations: the scheduled slots of the range, cut where the       *)
(* leader changes or a slot has no row.                                    *)
Scheduled ==
  {s \in DOMAIN world.leaders :
     FirstEpoch * SlotsPerEpoch <= s /\ s < (LastEpoch + 1) * SlotsPerEpoch}

(* Mutant: a rotation reaches across slots without a row.                  *)
RotationAcross(slot) ==
  {s \in Scheduled :
     slot \in Scheduled /\ \A x \in Min({s, slot})..Max({s, slot}) :
                             x \in Scheduled => LeaderAt(x) = LeaderAt(slot)}

Rotation(slot) ==
  {s \in Scheduled :
     slot \in Scheduled /\ \A x \in Min({s, slot})..Max({s, slot}) :
                             x \in Scheduled /\ LeaderAt(x) = LeaderAt(slot)}

(* boundary_suppression: the share of the placements of the front run in   *)
(* its rotation that push the back run past the end, as num / den.         *)
Expected(g) ==
  LET size == Cardinality(Rotation(g.frontSlot))
  IN  <<Min({g.backSlot - g.frontSlot, size}), size>>

(* add_geometry_classes.                                                   *)
Classify(g) ==
  [geomClass |-> CASE g.crossLeader -> "cross_leader"
                   [] ~g.crossLeader /\ g.crossBlock -> "same_leader_multi_slot"
                   [] OTHER -> "single_slot",
   xl |-> {c \in {"all_victims", "first_victim", "no_victim", "single_same", "single_diff"} :
             /\ g.crossLeader
             /\ c = "all_victims" => g.nVictims > 0 /\ g.underFront = g.nVictims
             /\ c = "first_victim" => g.firstUnderFront
             /\ c = "no_victim" => g.nVictims > 0 /\ g.underFront = 0
             /\ c = "single_same" => g.nVictims = 1 /\ g.underFront = 1
             /\ c = "single_diff" => g.nVictims = 1 /\ g.underFront = 0}]

-----------------------------------------------------------------------------
GeometryInit == MetricsInit /\ geometry = {}

(* Two sources that give two answers end the run.                          *)
JoinGeometry ==
  /\ pc = "done" /\ ~LeadersDisagree
  /\ geometry' = {[id |-> g.id, at |-> g.at, class |-> Classify(g.at),
                   expected |-> IF g.at.crossBlock /\ Rotation(g.at.frontSlot) # {}
                                THEN Expected(g.at) ELSE Nothing] :
                    g \in {x \in Geometry : \E m \in metrics : m.id = x.id}}
  /\ pc' = "classified"
  /\ UNCHANGED <<world, epoch, metrics>>

RefuseGeometry ==
  /\ pc = "done" /\ LeadersDisagree
  /\ pc' = "raised"
  /\ UNCHANGED <<world, epoch, metrics, geometry>>

-----------------------------------------------------------------------------
(* No leg is lost at the border of an epoch: what is classified are all    *)
(* victims and the true ends of the sandwich, and a sandwich that reaches  *)
(* the next epoch is not taken for one that ends with its own              *)
(* (leader_geometry, WINDOW_SLACK).                                        *)
WholeSandwich(id) ==
  {l.type : l \in {x \in world.legs : x.id = id}} = LegType

NoLegLost ==
  \A g \in geometry : WholeSandwich(g.id) =>
    /\ g.at.nVictims = CountRows({l \in world.legs : l.id = g.id /\ l.type = "victim"})
    /\ g.at.frontSlot = FirstLeg(Legs(g.id, "frontRun")).slot
    /\ g.at.backSlot = LastLeg(Legs(g.id, "backRun")).slot

(* Each sandwich has one shape, and a cross-leader sandwich all of whose   *)
(* leaders are known has either its first victim with the front run's      *)
(* leader or none at all: within two rotations no third kind exists        *)
(* (add_geometry_classes, build_geometry_table).                           *)
CrossLeaderSplits ==
  \A g \in geometry :
    (WholeSandwich(g.id) /\ g.class.geomClass = "cross_leader"
       /\ {l.slot : l \in {x \in world.legs : x.id = g.id}} \subseteq DOMAIN world.leaders) =>
      /\ ("first_victim" \in g.class.xl) # ("no_victim" \in g.class.xl)
      /\ "all_victims" \in g.class.xl => "first_victim" \in g.class.xl
      /\ g.at.underFront + g.at.underBack = g.at.nVictims

(* What is observed and what is expected are one event.  The closed form   *)
(* min(span, k) / k counts the placements of the front run that would      *)
(* cross, as no rotation has a hole; and of a known schedule the leader    *)
(* changes exactly when the back run lies past the rotation of the front   *)
(* run (boundary_suppression, leader_rotations).                           *)
CrossingLeavesRotation ==
  \A g \in geometry : g.expected # Nothing /\ WholeSandwich(g.id) =>
    LET rot  == Rotation(g.at.frontSlot)
        span == g.at.backSlot - g.at.frontSlot
    IN  /\ rot = Min(rot)..Max(rot)
        /\ g.expected = <<Cardinality({c \in rot : c + span > Max(rot)}), Cardinality(rot)>>
        /\ (g.at.frontSlot .. g.at.backSlot) \subseteq Scheduled =>
             (g.at.crossLeader <=> g.at.backSlot > Max(rot))
=============================================================================
