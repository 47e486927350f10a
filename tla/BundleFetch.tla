---------------------------- MODULE BundleFetch ----------------------------
(***************************************************************************)
(* The bundle fetch task of RunJitoCmd (src/sandwich-detector/jito/slot.go *)
(* lines 104-206).  It walks the slots in batches, asks the Jito API for   *)
(* each slot's bundles, retries the failures of a batch in place, defers   *)
(* what still fails to one last pass, and publishes in fetchedThrough how  *)
(* far its work is gap-free.                                               *)
(***************************************************************************)
EXTENDS JitoTables

CONSTANTS
  Start,        (* --start-slot, already aligned to a rotation             *)
  EndSlot,      (* --end-slot; 0 is the unbounded live mode                *)
  BatchNum,     (* config.JITO_FETCH_BATCH_NUM                             *)
  MaxAttempts,  (* config.JITO_FETCH_MAX_ATTEMPTS                          *)
  Flaky,        (* the slots for which an API call may fail                *)
  Recovers      (* TRUE: the API has recovered by a batch's last attempt   *)

ASSUME FetchAssumption ==
  /\ Start \in Slot
  /\ EndSlot \in {0} \cup Slot
  /\ BatchNum \in Nat \ {0} /\ MaxAttempts \in Nat \ {0}
  /\ Flaky \subseteq Slot
  /\ Recovers \in BOOLEAN

VARIABLES
  fpc,            (* the statement the fetch task is about to run          *)
  s,              (* the next slot to fetch                                *)
  ceiling,        (* the highest slot it is allowed to fetch               *)
  batchEnd,       (* the first slot after the current batch                *)
  remaining,      (* slots of the batch that have not been answered        *)
  attempt,        (* calls made for the current batch                      *)
  got,            (* slots answered by the last call, not yet recorded     *)
  failed,         (* slots deferred to the retry pass                      *)
  contiguousEnd,  (* first slot after the gap-free prefix                  *)
  fetchedThrough, (* shared with the mark task                             *)
  fetchDone       (* shared with the mark task                             *)

fetchLocals == <<s, ceiling, batchEnd, remaining, attempt, got, failed,
                 contiguousEnd>>
fetchVars == <<fpc, fetchLocals, fetchedThrough, fetchDone>>

FetchPC == {"loop", "call", "record", "advance",
            "recall", "rerecord", "override", "exit", "off"}

FetchTypeOK ==
  /\ fpc \in FetchPC
  /\ s \in Start..(MaxSlot + 1)
  /\ ceiling \in 0..MaxSlot
  /\ batchEnd \in Start..(MaxSlot + 1)
  /\ remaining \subseteq Slot /\ got \subseteq Slot /\ failed \subseteq Slot
  /\ attempt \in 0..MaxAttempts
  /\ contiguousEnd \in Start..(MaxSlot + 1)
  /\ fetchedThrough \in 0..MaxSlot
  /\ fetchDone \in BOOLEAN

(* What a process that runs the task (enabled) or leaves it out starts     *)
(* with: without it the mark task takes the whole range for fetched.       *)
FetchStart(enabled) ==
  [fpc            |-> IF enabled THEN "loop" ELSE "off",
   fetchedThrough |-> IF enabled THEN 0 ELSE EndSlot,
   fetchDone      |-> ~enabled]

FetchInit(enabled) ==
  /\ fpc = FetchStart(enabled).fpc
  /\ fetchedThrough = FetchStart(enabled).fetchedThrough
  /\ fetchDone = FetchStart(enabled).fetchDone
  /\ s = Start /\ ceiling = 0 /\ batchEnd = Start /\ contiguousEnd = Start
  /\ remaining = {} /\ attempt = 0 /\ got = {} /\ failed = {}

FetchRestart(enabled) ==
  /\ fpc' = FetchStart(enabled).fpc
  /\ fetchedThrough' = FetchStart(enabled).fetchedThrough
  /\ fetchDone' = FetchStart(enabled).fetchDone
  /\ s' = Start /\ ceiling' = 0 /\ batchEnd' = Start /\ contiguousEnd' = Start
  /\ remaining' = {} /\ attempt' = 0 /\ got' = {} /\ failed' = {}

-----------------------------------------------------------------------------
Past(x) == EndSlot > 0 /\ x > EndSlot

(* The ceiling the loop works with: endSlot when fetching ahead, else the  *)
(* detection frontier less the safe lag, refreshed only once it is used up *)
(* and left alone while the frontier is within the lag.                    *)
IsCeiling(c, ahead) ==
  IF ahead THEN c = EndSlot
  ELSE IF s < ceiling THEN c = ceiling
  ELSE \E m \in 0..MaxSlot :
         /\ IsMaxSandwichChecked(m)
         /\ c = IF m > FetchLag THEN m - FetchLag ELSE ceiling

(* batchEnd: BatchNum slots, cut at the ceiling and at endSlot.            *)
BatchBound(b, c) ==
  /\ b <= s + BatchNum /\ b <= c + 1
  /\ EndSlot > 0 => b <= EndSlot + 1

IsBatchEnd(b, c) ==
  BatchBound(b, c) /\ ~BatchBound(b + 1, c)

(* Start of a batch.  When s is above the ceiling the task sleeps, and it  *)
(* looks at the frontier again when it wakes up.                           *)
StartBatch(ahead) ==
  /\ fpc = "loop" /\ ~Past(s)
  /\ \E c \in 0..MaxSlot, b \in Start..(MaxSlot + 1) :
       /\ IsCeiling(c, ahead) /\ s <= c
       /\ IsBatchEnd(b, c)
       /\ ceiling' = c /\ batchEnd' = b
       /\ remaining' = s..(b - 1)
  /\ attempt' = 0
  /\ fpc' = "call"
  /\ UNCHANGED <<tables, s, got, failed, contiguousEnd, fetchedThrough,
                 fetchDone>>

(* fetchSlotsParallel over the slots todo, then InsertJitoBundles.  A slot *)
(* already recorded with bundles is left out (when the query for it fails, *)
(* it is fetched again); of the others, those the API fails for are put    *)
(* back into remaining; an insert that fails is only logged.               *)
FetchSlotsParallel(todo, recovered) ==
  \E known \in SUBSET AlreadyFetched(todo) :
  \E bad \in SUBSET ((todo \ known) \cap Flaky) :
    /\ StoreFaults \/ known = AlreadyFetched(todo)
    /\ recovered => bad = {}
    /\ got' = (todo \ known) \ bad
    /\ remaining' = bad
    /\ InsertJitoBundles((todo \ known) \ bad)

Fetch ==
  /\ fpc = "call"
  /\ FetchSlotsParallel(remaining, Recovers /\ attempt + 1 = MaxAttempts)
  /\ attempt' = attempt + 1
  /\ fpc' = "record"
  /\ UNCHANGED <<slotTxs, sandwichTxs, slotBundles, s, ceiling, batchEnd,
                 failed, contiguousEnd, fetchedThrough, fetchDone>>

(* Mutant: one attempt too many.                                           *)
MoreAttemptsOff == remaining # {} /\ attempt <= MaxAttempts

MoreAttempts == remaining # {} /\ attempt < MaxAttempts

(* InsertSlotBundles, then the next attempt or the end of the batch.       *)
Record ==
  /\ fpc = "record"
  /\ InsertSlotBundles(got)
  /\ got' = {}
  /\ fpc' = IF MoreAttempts THEN "call" ELSE "advance"
  /\ UNCHANGED <<slotTxs, sandwichTxs, jitoBundles, s, ceiling, batchEnd,
                 remaining, attempt, failed, contiguousEnd, fetchedThrough,
                 fetchDone>>

(* Mutant: a gap left by an earlier batch is forgotten.                    *)
AbutsAnything == remaining = {}

AbutsPrefix == remaining = {} /\ s = contiguousEnd

(* End of a batch: what is left is deferred; a batch that left nothing and *)
(* abuts the gap-free prefix extends it.                                   *)
Advance ==
  /\ fpc = "advance"
  /\ failed' = failed \cup remaining
  /\ contiguousEnd'  = IF AbutsPrefix THEN batchEnd ELSE contiguousEnd
  /\ fetchedThrough' = IF AbutsPrefix THEN batchEnd - 1 ELSE fetchedThrough
  /\ s' = batchEnd
  /\ remaining' = {} /\ attempt' = 0
  /\ fpc' = "loop"
  /\ UNCHANGED <<tables, ceiling, batchEnd, got, fetchDone>>

-----------------------------------------------------------------------------
(* Past endSlot: one retry pass over the deferred slots, whose errors are  *)
(* ignored; then fetchedThrough is set to endSlot and the task ends.       *)
LeaveLoop ==
  /\ fpc = "loop" /\ Past(s)
  /\ fpc' = IF failed = {} THEN "override" ELSE "recall"
  /\ UNCHANGED <<tables, fetchLocals, fetchedThrough, fetchDone>>

Refetch ==
  /\ fpc = "recall"
  /\ FetchSlotsParallel(failed, FALSE)
  /\ fpc' = "rerecord"
  /\ UNCHANGED <<slotTxs, sandwichTxs, slotBundles, s, ceiling, batchEnd,
                 attempt, failed, contiguousEnd, fetchedThrough, fetchDone>>

Rerecord ==
  /\ fpc = "rerecord"
  /\ InsertSlotBundles(got)
  /\ got' = {}
  /\ fpc' = "override"
  /\ UNCHANGED <<slotTxs, sandwichTxs, jitoBundles, s, ceiling, batchEnd,
                 remaining, attempt, failed, contiguousEnd, fetchedThrough,
                 fetchDone>>

OverrideFrontier ==
  /\ fpc = "override"
  /\ fetchedThrough' = EndSlot
  /\ fpc' = "exit"
  /\ UNCHANGED <<tables, fetchLocals, fetchDone>>

FetchExit ==
  /\ fpc = "exit"
  /\ fetchDone' = TRUE
  /\ fpc' = "off"
  /\ UNCHANGED <<tables, fetchLocals, fetchedThrough>>

FetchNext(ahead) ==
  \/ StartBatch(ahead) \/ Fetch \/ Record \/ Advance
  \/ LeaveLoop \/ Refetch \/ Rerecord \/ OverrideFrontier \/ FetchExit
=============================================================================
