-------------------------- MODULE SandwichStream --------------------------
(***************************************************************************)
(* The `sandwich` command: batches of blocks through the block cache,      *)
(* the windows and the workers into the tables, in live and in backfill    *)
(* mode (src/sandwich-detector/sol/sandwich.go, backfill.go,               *)
(* block_cache.go and the LRU of lru.go).                                  *)
(***************************************************************************)
EXTENDS LeaderWindows, Sequences

CONSTANTS
  Live,        (* TRUE: RunSandwichCmd, FALSE: RunBackfillCmd              *)
  Start,       (* --slot                                                   *)
  EndSlot,     (* --end-slot, for backfill                                 *)
  FirstTip,    (* the chain's last slot when a live command starts         *)
  LatestGap,   (* config.SOL_FETCH_SLOT_DATA_LATEST_GAP                    *)
  MaxGap,      (* config.SOL_FETCH_SLOT_DATA_MAX_GAP                       *)
  BatchNum,    (* config.SOL_FETCH_SLOT_DATA_SLOT_NUM, BACKFILL_...        *)
  CacheSize,   (* config.CROSS_BLOCK_CACHE_SIZE                            *)
  SeenSize,    (* config.SEEN_SANDWICH_CACHE_SIZE                          *)
  MarkLag,     (* config.JITO_MARK_IN_BUNDLE_SAFE_LAG                      *)
  Produced,    (* the slots that have a block                              *)
  Flaky,       (* those whose block may not be got                         *)
  Unresolved,  (* the slots whose leader a look-up may not find            *)
  MaxFaults    (* bound: the INSERTs that fail                             *)

ASSUME StreamAssumption ==
  /\ Live \in BOOLEAN /\ MaxFaults \in Nat
  /\ Start \in Nat /\ EndSlot \in Nat /\ FirstTip \in Nat
  /\ Start <= EndSlot
  /\ Start <= FirstTip \/ MaxGap <= FirstTip
  /\ BatchNum \in Nat \ {0} /\ CacheSize \in Nat \ {0}
  /\ SeenSize \in Nat \ {0} /\ MarkLag \in Nat
  /\ LatestGap \in Nat /\ MaxGap \in Nat
  /\ BatchNum <= LatestGap /\ LatestGap + Span <= MaxGap
  /\ Produced \subseteq Slot /\ Flaky \subseteq Produced
  /\ Unresolved \subseteq Slot

VARIABLES
  pc,          (* the statement the command is about to run                *)
  tip,         (* the chain's last slot (live)                             *)
  s,           (* the first slot of the next batch                         *)
  failed,      (* slots a backfill will ask for again                      *)
  blocks,      (* the blocks of the batch at hand                          *)
  deferTail,   (* whether its last rotation waits for the next batch       *)
  cache,       (* the slots in crossBlockCache, the oldest first           *)
  leaders,     (* those of them whose leader is known                      *)
  seen,        (* seenSandwichIDs, the most recently used first            *)
  found,       (* owned sandwiches a worker has yet to report              *)
  result,      (* sandwiches the batch emits                               *)
  sandwiches,  (* table: rows of each sandwich                             *)
  sandwichTxs, (* table: times the transactions of each were stored        *)
  slotTxs,     (* table: times the row of a slot was stored                *)
  chain,       (* history: blocks got in the first pass                    *)
  late,        (* history: blocks got in the retry pass                    *)
  lost,        (* history: sandwiches whose INSERT failed                  *)
  faults       (* history: the INSERTs that failed                         *)

batchVars == <<blocks, deferTail>>
memory == <<cache, leaders, seen>>
scanVars == <<found, result>>
tables == <<sandwiches, sandwichTxs, slotTxs>>
history == <<chain, late, lost, faults>>
vars == <<pc, tip, s, failed, batchVars, memory, scanVars, tables, history>>

Elems(q) == {q[i] : i \in DOMAIN q}

(* AlignSlotToStep: the next first slot of a leader's turn.                *)
Align(x) == ((x + Span - 1) \div Span) * Span

(* A live command starts no further back than the node's history goes.     *)
LiveStart ==
  IF Start + MaxGap < FirstTip \/ Start > FirstTip
  THEN Align(FirstTip - MaxGap) ELSE Align(Start)

Init ==
  /\ pc = "fetch"
  /\ tip = FirstTip
  /\ s = IF Live THEN LiveStart ELSE Align(Start)
  /\ failed = {} /\ blocks = {} /\ deferTail = Live
  /\ cache = <<>> /\ leaders = {} /\ seen = <<>>
  /\ found = {} /\ result = {}
  /\ sandwiches = [id \in Sandwich |-> 0]
  /\ sandwichTxs = [id \in Sandwich |-> 0]
  /\ slotTxs = [x \in Slot |-> 0]
  /\ chain = {} /\ late = {} /\ lost = {}
  /\ faults = 0

-----------------------------------------------------------------------------
(* Fetching.                                                               *)

(* What GetBlocks may return: the blocks of the slots that have one,       *)
(* except some that could not be got.                                      *)
Answers(slots) ==
  {got \in SUBSET (slots \cap Produced) :
     (slots \cap Produced) \ Flaky \subseteq got}

(* Another block is finalized.                                             *)
TipAdvances ==
  /\ Live /\ tip + 1 \in Slot
  /\ tip' = tip + 1
  /\ UNCHANGED <<pc, s, failed, batchVars, memory, scanVars, tables, history>>

(* Where a live iteration fetches: s, unless it is too old by now.         *)
NextLive == IF s + MaxGap < tip THEN Align(tip - MaxGap) ELSE s

(* One iteration of the live loop that has a batch to fetch; without one,  *)
(* the loop sleeps and looks at the tip again.                             *)
FetchLive ==
  /\ Live /\ pc = "fetch"
  /\ tip >= NextLive + LatestGap
  /\ \E got \in Answers(NextLive..(NextLive + BatchNum - 1)) :
       blocks' = got /\ chain' = chain \cup got
  /\ deferTail' = TRUE
  /\ s' = NextLive + BatchNum
  /\ pc' = "scan"
  /\ UNCHANGED <<tip, failed, memory, scanVars, tables, late, lost, faults>>

(* Mutant: every slot of the batch counts as missing.                      *)
MissingAll(slots, got) == IF got = slots THEN {} ELSE slots

(* missingSlots                                                            *)
Missing(slots, got) == slots \ got

FetchBackfill ==
  /\ ~Live /\ pc = "fetch" /\ s <= EndSlot
  /\ LET slots == s..EndSlot \cap s..(s + BatchNum - 1)
     IN \E got \in Answers(slots) :
          /\ blocks' = got /\ chain' = chain \cup got
          /\ failed' = failed \cup Missing(slots, got)
          /\ deferTail' = (EndSlot \notin slots)
  /\ s' = s + BatchNum
  /\ pc' = "scan"
  /\ UNCHANGED <<tip, memory, scanVars, tables, late, lost, faults>>

(* Mutant: retry until every slot has a block.                             *)
FetchRetryForever ==
  /\ ~Live /\ pc = "fetch" /\ s > EndSlot /\ failed # {}
  /\ \E got \in Answers(failed) :
       blocks' = got /\ late' = late \cup got /\ failed' = failed \ got
  /\ deferTail' = FALSE
  /\ pc' = "scan"
  /\ UNCHANGED <<tip, s, memory, scanVars, tables, chain, lost, faults>>

(* The one retry pass, for the slots without a block.                      *)
FetchRetry ==
  /\ ~Live /\ pc = "fetch" /\ s > EndSlot /\ failed # {}
  /\ \E got \in Answers(failed) : blocks' = got /\ late' = late \cup got
  /\ failed' = {}
  /\ deferTail' = FALSE
  /\ pc' = "scan"
  /\ UNCHANGED <<tip, s, memory, scanVars, tables, chain, lost, faults>>

Exit ==
  /\ ~Live /\ pc = "fetch" /\ s > EndSlot /\ failed = {}
  /\ pc' = "done"
  /\ UNCHANGED <<tip, s, failed, batchVars, memory, scanVars, tables, history>>

-----------------------------------------------------------------------------
(* Detection: ProcessBlocksForSandwich.                                    *)

Ascending(S) ==
  [i \in 1..Cardinality(S) |->
     CHOOSE x \in S : Cardinality(Before(S, x)) = i - 1]

(* Mutant: the cache starts again with every batch.                        *)
PutAllFresh(q, S) == Ascending(S)

(* BlockCache.Put, for each block in turn: a ring of CacheSize blocks.     *)
PutAll(q, S) ==
  LET all == q \o Ascending(S)
  IN SubSeq(all, IF Len(all) > CacheSize THEN Len(all) - CacheSize + 1 ELSE 1,
            Len(all))

(* The blocks go into the cache, the leaders of the cached blocks are      *)
(* looked up (in the cache, where a backfill has put those named by the    *)
(* block rewards, then in slot_leaders), and the finders of all due        *)
(* windows run.                                                            *)
Scan ==
  /\ pc = "scan"
  /\ IF blocks = {} THEN UNCHANGED <<cache, leaders, found>>
     ELSE /\ cache' = PutAll(cache, blocks)
          /\ \E answered \in SUBSET Unresolved :
               leaders' = {x \in Elems(cache') :
                 x \notin Unresolved \/ x \in leaders \/ x \in answered}
          /\ found' = FoundIn(DueWindows(Elems(cache'), leaders', blocks,
                                         deferTail))
  /\ pc' = "report"
  /\ UNCHANGED <<tip, s, failed, batchVars, seen, result, tables, history>>

(* AMMPoolLRU: an id that is used moves to the front, a new one pushes the *)
(* last one out.                                                           *)
Place(q, id) == CHOOSE i \in DOMAIN q : q[i] = id

Touch(q, id) ==
  [i \in DOMAIN q |-> IF i > Place(q, id) THEN q[i]
                     ELSE IF i = 1 THEN id ELSE q[i - 1]]

(* Mutant: evicts when one place is left.                                  *)
PushEarly(q, id) ==
  <<id>> \o SubSeq(q, 1, IF Len(q) < SeenSize - 1 THEN Len(q) ELSE SeenSize - 2)

Push(q, id) ==
  <<id>> \o SubSeq(q, 1, IF Len(q) < SeenSize THEN Len(q) ELSE SeenSize - 1)

Known(q, id) == id \in Elems(q)

(* A worker reports a sandwich its window owns, under the lock.  The       *)
(* workers get there in any order.                                         *)
Report(id) ==
  /\ pc = "report" /\ id \in found
  /\ found' = found \ {id}
  /\ IF Known(seen, id)
     THEN seen' = Touch(seen, id) /\ UNCHANGED result
     ELSE seen' = Push(seen, id) /\ result' = result \cup {id}
  /\ UNCHANGED <<pc, tip, s, failed, batchVars, cache, leaders, tables, history>>

-----------------------------------------------------------------------------
(* Storing: StoreSandwichesToDB, then StoreSlotSandwichStatusToDB.         *)

Inserted(table, rows) ==
  [x \in DOMAIN table |-> table[x] + (IF x \in rows THEN 1 ELSE 0)]

(* Mutant: the error is ignored inside StoreSandwichesToDB.                *)
AfterErrorGoOn == "txs"

(* What follows a failed INSERT INTO sandwiches: the error is returned,    *)
(* logged, and the slots are recorded nevertheless.                        *)
AfterError == "status"

(* One more INSERT fails.                                                  *)
Fails == faults < MaxFaults /\ faults' = faults + 1

InsertSandwiches ==
  /\ pc = "report" /\ found = {}
  /\ \/ /\ result = {}
        /\ pc' = "status" /\ UNCHANGED <<sandwiches, lost, faults>>
     \/ /\ result # {}
        /\ sandwiches' = Inserted(sandwiches, result)
        /\ pc' = "txs" /\ UNCHANGED <<lost, faults>>
     \/ /\ result # {} /\ Fails
        /\ pc' = AfterError /\ UNCHANGED sandwiches
        /\ lost' = lost \cup result
  /\ UNCHANGED <<tip, s, failed, batchVars, memory, scanVars, sandwichTxs,
                 slotTxs, chain, late>>

InsertSandwichTxs ==
  /\ pc = "txs"
  /\ \/ sandwichTxs' = Inserted(sandwichTxs, result) /\ UNCHANGED faults
     \/ Fails /\ UNCHANGED sandwichTxs
  /\ pc' = "status"
  /\ UNCHANGED <<tip, s, failed, batchVars, memory, scanVars, sandwiches,
                 slotTxs, chain, late, lost>>

InsertSlotTxs ==
  /\ pc = "status"
  /\ \/ slotTxs' = Inserted(slotTxs, blocks) /\ UNCHANGED faults
     \/ Fails /\ UNCHANGED slotTxs
  /\ blocks' = {} /\ result' = {}
  /\ pc' = "fetch"
  /\ UNCHANGED <<tip, s, failed, deferTail, memory, found, sandwiches,
                 sandwichTxs, chain, late, lost>>

-----------------------------------------------------------------------------
Work == FetchLive \/ FetchBackfill \/ FetchRetry \/ Exit \/ Scan
        \/ (\E id \in Sandwich : Report(id))
        \/ InsertSandwiches \/ InsertSandwichTxs \/ InsertSlotTxs

Next == Work \/ TipAdvances

Spec == Init /\ [][Next]_vars

(* The command is one process, its workers are goroutines; a live node     *)
(* goes on finalizing blocks.                                              *)
FairSpec == Spec /\ WF_vars(Work) /\ WF_vars(TipAdvances)

-----------------------------------------------------------------------------
Stored == {id \in Sandwich : sandwiches[id] > 0}

(* What the windows of the whole chain would find if it were there at      *)
(* once, without the leaders a look-up may not find; and what a rotation   *)
(* and its successor hold whichever of these are found.                    *)
ChainWindows(unknown) == Windows(chain, Slot \ unknown)
WholeChain == FoundIn(ChainWindows(Unresolved))
Paired(id) ==
  \A unknown \in SUBSET Unresolved :
    \E w \in ChainWindows(unknown) : w.right # {} /\ id \in Owned(w)

(* No sandwich is stored twice, although windows overlap, are scanned      *)
(* again as the frontier grows, and seenSandwichIDs forgets                *)
(* (sandwich.go:94-96, 207-209; the table is not a replacing one).         *)
EmittedOnce == \A id \in Sandwich : sandwiches[id] <= 1

(* When a backfill ends, everything is stored that the windows of the      *)
(* whole chain hold, whatever the batches were, and every sandwich inside  *)
(* one block that only came with the retry pass, but for those whose       *)
(* INSERT failed (sandwich.go:94-98, backfill.go:156, 162).                *)
NoneLeftPending ==
  pc = "done" =>
    /\ WholeChain \subseteq Stored \cup lost
    /\ \A id \in Sandwich, x \in late : LegsOf[id] = {x} => id \in Stored \cup lost

(* However far the command jumps or blocks are missing, what a rotation    *)
(* and its successor hold is stored, or its INSERT has failed, before any  *)
(* row of a slot MarkLag after its last transaction: what the jito         *)
(* pipeline relies on (sandwich.go:66-68, 310-323; config.go:76).          *)
FoundBeforeLag ==
  \A id \in Sandwich \ (Stored \cup lost) :
    (\E y \in Slot : slotTxs[y] > 0 /\ y >= Latest(LegsOf[id]) + MarkLag)
      => ~Paired(id)

(* The row of a slot is stored once: a second one would reset              *)
(* sandwichInBundleChecked (sandwich.go:360-383, backfill.go:191-204).     *)
RowsWrittenOnce == \A x \in Slot : slotTxs[x] <= 1

(* No transaction is stored for a sandwich that is not: a failure in       *)
(* StoreSandwichesToDB leaves the parent rows, never orphans               *)
(* (sandwich.go:325-358).                                                  *)
NoOrphanTxs == \A id \in Sandwich : sandwichTxs[id] <= sandwiches[id]

(* A backfill ends, however many blocks cannot be got.                     *)
Terminates == <>(pc = "done")
=============================================================================
