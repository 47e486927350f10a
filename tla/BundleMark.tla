----------------------------- MODULE BundleMark -----------------------------
(***************************************************************************)
(* The mark task of RunJitoCmd (src/sandwich-detector/jito/slot.go lines   *)
(* 208-338).  It takes the oldest slots that are detected, fetched and not *)
(* yet checked, flags the sandwich transactions that are in a bundle,      *)
(* records the slots as checked, and drops the raw bundles of the epochs   *)
(* it has left behind (delete-after-mark).                                 *)
(***************************************************************************)
EXTENDS BundleFetch

VARIABLES
  mpc,         (* the statement the mark task is about to run              *)
  slots,       (* the batch under check                                    *)
  bundleTxs,   (* bundleTxsMap: slots of the batch whose bundles were read *)
  hits,        (* slots whose bundle and sandwich txs intersect            *)
  lastDropped, (* lastDroppedEpoch                                         *)
  dropTo       (* the last epoch dropThrough is to drop                    *)

markLocals == <<slots, bundleTxs, hits, lastDropped, dropTo>>
markVars == <<mpc, markLocals>>

MarkPC == {"query", "empty", "bundles", "sandwiches", "update", "check",
           "drop", "last", "off"}

MarkTypeOK ==
  /\ mpc \in MarkPC
  /\ slots \subseteq Slot /\ bundleTxs \subseteq slots /\ hits \subseteq slots
  /\ lastDropped \in Nat /\ dropTo \in Nat

(* Mutant: the decrement at slot.go:216-218 is missing.                    *)
FirstDroppedKept == EpochOf(Start)

(* The epoch before the first one, which counts as dropped from the start. *)
FirstDropped == IF EpochOf(Start) > 0 THEN EpochOf(Start) - 1 ELSE 0

MarkInit(enabled) ==
  /\ mpc = IF enabled THEN "query" ELSE "off"
  /\ slots = {} /\ bundleTxs = {} /\ hits = {}
  /\ lastDropped = FirstDropped /\ dropTo = 0

MarkRestart(enabled) ==
  /\ mpc' = IF enabled THEN "query" ELSE "off"
  /\ slots' = {} /\ bundleTxs' = {} /\ hits' = {}
  /\ lastDropped' = FirstDropped /\ dropTo' = 0

(* The loop variables are fresh in each turn.                              *)
ForgetBatch == slots' = {} /\ bundleTxs' = {} /\ hits' = {}

-----------------------------------------------------------------------------
(* An empty answer sends a live run to sleep and a bounded run to the test *)
(* for its end.  A query that fails is asked again.                        *)
QuerySlots ==
  /\ mpc = "query"
  /\ slots' = SlotsToCheck
  /\ IF SlotsToCheck # {} THEN mpc' = "bundles"
     ELSE EndSlot > 0 /\ mpc' = "empty"
  /\ bundleTxs' = {} /\ hits' = {}
  /\ UNCHANGED <<tables, fetchVars, lastDropped, dropTo>>

(* dropThrough(epoch) first caps the epoch: fetchedThrough, unless it is   *)
(* still 0, must have passed the end of every epoch that is dropped.       *)
CapEpoch(epoch) ==
  LET maxFetched == EpochOf(fetchedThrough + 1) IN
  IF fetchedThrough > 0 /\ maxFetched >= 1 /\ epoch > maxFetched - 1
  THEN maxFetched - 1 ELSE epoch

(* Mutant: the detector must be more than a mark lag past endSlot.         *)
MayStopLater ==
  /\ fetchDone
  /\ \E m \in Slot : IsMaxSandwichChecked(m) /\ m > EndSlot + MarkLag

(* The end of a bounded run: the fetch task is done and the detector is a  *)
(* mark lag past endSlot.                                                  *)
MayStop ==
  /\ fetchDone
  /\ \E m \in Slot : IsMaxSandwichChecked(m) /\ m >= EndSlot + MarkLag

TryStop ==
  /\ mpc = "empty"
  /\ IF MayStop
     THEN /\ mpc' = "last"
          /\ dropTo' = CapEpoch(EpochOf(EndSlot))
     ELSE mpc' = "query" /\ UNCHANGED dropTo
  /\ UNCHANGED <<tables, fetchVars, slots, bundleTxs, hits, lastDropped>>

(* QueryBundleTxsBySlots, then QuerySandwichTxsBySlots and the             *)
(* intersection.  A query that fails starts the loop over.                 *)
ReadBundles ==
  /\ mpc = "bundles"
  /\ \/ bundleTxs' = slots \cap jitoBundles /\ mpc' = "sandwiches"
        /\ UNCHANGED <<slots, hits>>
     \/ StoreFaults /\ mpc' = "query" /\ ForgetBatch
  /\ UNCHANGED <<tables, fetchVars, lastDropped, dropTo>>

ReadSandwiches ==
  /\ mpc = "sandwiches"
  /\ \/ /\ hits' = {x \in bundleTxs \cap Hit : sandwichTxs[x] # "absent"}
        /\ mpc' = IF hits' = {} THEN "check" ELSE "update"
        /\ UNCHANGED <<slots, bundleTxs>>
     \/ StoreFaults /\ mpc' = "query" /\ ForgetBatch
  /\ UNCHANGED <<tables, fetchVars, lastDropped, dropTo>>

(* Mutant: a failed update is logged and the slots are checked anyway.     *)
AfterUpdateErrorCheck ==
  mpc' = "check" /\ UNCHANGED <<slots, bundleTxs, hits>>

AfterUpdateError == mpc' = "query" /\ ForgetBatch

(* UpdateSandwichTxsInBundle sends chunks of 500 pairs; when one of them   *)
(* fails, those before it have taken effect and the loop starts over.      *)
UpdateInBundle ==
  /\ mpc = "update"
  /\ \/ /\ UpdateSandwichTxsInBundle(hits)
        /\ mpc' = "check" /\ UNCHANGED <<slots, bundleTxs, hits>>
     \/ /\ StoreFaults
        /\ \E sent \in SUBSET hits : UpdateSandwichTxsInBundle(sent)
        /\ AfterUpdateError
  /\ UNCHANGED <<slotTxs, slotBundles, jitoBundles, fetchVars, lastDropped,
                 dropTo>>

(* Mutant: the epoch being marked is dropped as well.                      *)
LeftBehindToo(last) == EpochOf(last)

(* The last epoch below the one just marked into.                          *)
LeftBehind(last) == EpochOf(last) - 1

(* UpdateSlotTxsCheckInBundle, then dropThrough of the epochs before the   *)
(* one of the batch's last slot.  fetchedThrough is read here once.        *)
CheckSlots ==
  /\ mpc = "check"
  /\ \/ /\ UpdateSlotTxsCheckInBundle(slots)
        /\ \E last \in slots :
             /\ \A x \in slots : x <= last
             /\ IF EpochOf(last) > 0
                THEN mpc' = "drop" /\ dropTo' = CapEpoch(LeftBehind(last))
                ELSE mpc' = "query" /\ UNCHANGED dropTo
     \/ StoreFaults /\ mpc' = "query" /\ UNCHANGED <<slotTxs, dropTo>>
  /\ ForgetBatch
  /\ UNCHANGED <<sandwichTxs, slotBundles, jitoBundles, fetchVars,
                 lastDropped>>

(* One turn of dropThrough's loop.  A drop that fails is not tried again.  *)
DropEpoch ==
  /\ mpc \in {"drop", "last"} /\ lastDropped < dropTo
  /\ DropJitoBundlesEpochPartition(lastDropped + 1)
  /\ lastDropped' = lastDropped + 1
  /\ UNCHANGED <<slotTxs, sandwichTxs, slotBundles, fetchVars, mpc, slots,
                 bundleTxs, hits, dropTo>>

DropsDone ==
  /\ mpc \in {"drop", "last"} /\ lastDropped >= dropTo
  /\ mpc' = IF mpc = "drop" THEN "query" ELSE "off"
  /\ dropTo' = 0
  /\ UNCHANGED <<tables, fetchVars, slots, bundleTxs, hits, lastDropped>>

MarkNext ==
  \/ QuerySlots \/ TryStop \/ ReadBundles \/ ReadSandwiches
  \/ UpdateInBundle \/ CheckSlots \/ DropEpoch \/ DropsDone
=============================================================================
