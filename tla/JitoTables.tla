----------------------------- MODULE JitoTables -----------------------------
(***************************************************************************)
(* The ClickHouse tables through which the sandwich detector, the Jito     *)
(* bundle fetch task and the in-bundle mark task communicate, and the      *)
(* queries over them (src/sandwich-detector/db/clickhouse.go).  A table is *)
(* a function of the slot; row contents are reduced to what the queries    *)
(* tell apart.                                                             *)
(***************************************************************************)
EXTENDS Integers, FiniteSets

CONSTANTS
  MinSlot,      (* config.MIN_START_SLOT: no table holds a slot below it   *)
  MaxSlot,      (* bound: the last slot of the modelled chain              *)
  EpochLen,     (* slots per epoch, hence per partition (432000)           *)
  FetchLag,     (* config.JITO_FETCH_BUNDLE_SAFE_LAG                       *)
  MarkLag,      (* config.JITO_MARK_IN_BUNDLE_SAFE_LAG                     *)
  MarkLimit,    (* config.JITO_MARK_IN_BUNDLE_SLOT_NUM                     *)
  Bundled,      (* the slots for which the Jito API has bundles            *)
  Hit,          (* the slots with a sandwich tx that landed in a bundle    *)
  StoreFaults   (* whether database statements may fail                    *)

ASSUME TableAssumption ==
  /\ MinSlot \in Nat \ {0} /\ MaxSlot \in Nat /\ MinSlot <= MaxSlot
  /\ EpochLen \in Nat \ {0}
  /\ FetchLag \in Nat /\ MarkLag \in Nat /\ MarkLimit \in Nat \ {0}
  /\ Bundled \subseteq MinSlot..MaxSlot
  /\ Hit \subseteq Bundled
  /\ StoreFaults \in BOOLEAN

VARIABLES
  slotTxs,      (* slot_txs: no row, or sandwichInBundleChecked = 0 or 1   *)
  sandwichTxs,  (* sandwich_txs: the inBundle column of the slot's Hit tx  *)
  slotBundles,  (* slot_bundles: no row, bundleCount = 0, bundleCount > 0  *)
  jitoBundles   (* jito_bundles: the slots whose raw bundles are stored    *)

tables == <<slotTxs, sandwichTxs, slotBundles, jitoBundles>>

Slot == MinSlot..MaxSlot

EpochOf(x) == x \div EpochLen

Partition(e) == {x \in Slot : EpochOf(x) = e}

TablesTypeOK ==
  /\ slotTxs     \in [Slot -> {"absent", "unchecked", "checked"}]
  /\ sandwichTxs \in [Slot -> {"absent", "plain", "inBundle"}]
  /\ slotBundles \in [Slot -> {"absent", "empty", "some"}]
  /\ jitoBundles \subseteq Slot

TablesInit ==
  /\ slotTxs     = [x \in Slot |-> "absent"]
  /\ sandwichTxs = [x \in Slot |-> "absent"]
  /\ slotBundles = [x \in Slot |-> "absent"]
  /\ jitoBundles = {}

-----------------------------------------------------------------------------
(* Queries.                                                                *)

(* The slots the detector has recorded.  Every row it inserts has          *)
(* txFetched = sandwichFetched = 1.                                        *)
Detected == {x \in Slot : slotTxs[x] # "absent"}

(* QueryMaxSandwichCheckedSlot: m is max(slot), 0 when the table is empty. *)
IsMaxSandwichChecked(m) ==
  IF Detected = {} THEN m = 0
  ELSE m \in Detected /\ \A x \in Detected : x <= m

(* Mutant: the safe lag is left out of the query.                          *)
ToCheckNoLag ==
  {x \in Slot : /\ slotTxs[x] = "unchecked"
                /\ slotBundles[x] = "some"
                /\ \E m \in Detected : x <= m}

(* Slots that satisfy the WHERE clause of QuerySlotsToCheckInBundle.       *)
ToCheck ==
  {x \in Slot : /\ slotTxs[x] = "unchecked"
                /\ slotBundles[x] = "some"
                /\ \E m \in Detected : x + MarkLag <= m}

(* Mutant: ORDER BY slot DESC.                                             *)
SlotsToCheckDesc ==
  {x \in ToCheck : Cardinality({y \in ToCheck : y > x}) < MarkLimit}

(* QuerySlotsToCheckInBundle: ... ORDER BY slot ASC LIMIT MarkLimit.       *)
SlotsToCheck ==
  {x \in ToCheck : Cardinality({y \in ToCheck : y < x}) < MarkLimit}

(* QuerySlotBundleBySlot: the slots recorded as fetched with bundles.  A   *)
(* slot recorded as empty is not among them and is asked for again.        *)
AlreadyFetched(slots) == {x \in slots : slotBundles[x] = "some"}

-----------------------------------------------------------------------------
(* Statements that write.  Each one either takes effect or, when           *)
(* StoreFaults, fails and leaves its table as it was.                      *)

InsertJitoBundles(slots) ==
  \/ jitoBundles' = jitoBundles \cup (slots \cap Bundled)
  \/ StoreFaults /\ UNCHANGED jitoBundles

InsertSlotBundles(slots) ==
  \/ slotBundles' = [x \in Slot |-> IF x \notin slots THEN slotBundles[x]
                                    ELSE IF x \in Bundled THEN "some"
                                    ELSE "empty"]
  \/ StoreFaults /\ UNCHANGED slotBundles

DropJitoBundlesEpochPartition(e) ==
  \/ jitoBundles' = jitoBundles \ Partition(e)
  \/ StoreFaults /\ UNCHANGED jitoBundles

(* ALTER TABLE sandwich_txs UPDATE inBundle = 1: it reaches the rows that  *)
(* are there when it runs.                                                 *)
UpdateSandwichTxsInBundle(hits) ==
  sandwichTxs' = [x \in Slot |-> IF x \in hits /\ sandwichTxs[x] # "absent"
                                 THEN "inBundle" ELSE sandwichTxs[x]]

(* Mutant: a slot without a hit is not recorded as checked.                *)
UpdateSlotTxsHitsOnly(slots) ==
  slotTxs' = [x \in Slot |-> IF x \in slots \cap Hit /\ slotTxs[x] # "absent"
                             THEN "checked" ELSE slotTxs[x]]

(* ALTER TABLE slot_txs UPDATE sandwichInBundleChecked = 1.                *)
UpdateSlotTxsCheckInBundle(slots) ==
  slotTxs' = [x \in Slot |-> IF x \in slots /\ slotTxs[x] # "absent"
                             THEN "checked" ELSE slotTxs[x]]
=============================================================================
