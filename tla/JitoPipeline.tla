---------------------------- MODULE JitoPipeline ----------------------------
(***************************************************************************)
(* The Jito pipeline: the detector, seen through what it writes to the     *)
(* tables, and the process that runs the fetch and mark tasks.  The        *)
(* operator starts that process once for each element of Runs, and again   *)
(* when it crashes.                                                        *)
(***************************************************************************)
EXTENDS BundleMark, Sequences

CONSTANTS
  Runs,          (* the operator's `jito` commands, a record each:         *)
                 (* which tasks run, --fetch-ahead, and whether it is      *)
                 (* started only once detection is over (settled)          *)
  MaxCrashes,    (* bound: crashes of the jito process                     *)
  DetectBatch,   (* slots the detector stores at once                      *)
  DetectLag,     (* a sandwich is stored at most this far after its slot   *)
  Missable,      (* slots whose block the detector may fail to get         *)
  RetriesMissed  (* TRUE: `sandwich` in backfill mode, which retries them  *)

ASSUME PipelineAssumption ==
  /\ Runs \in Seq([fetch : BOOLEAN, mark : BOOLEAN, ahead : BOOLEAN,
                   settled : BOOLEAN])
  /\ Runs # <<>>
  /\ \A i \in DOMAIN Runs : Runs[i].ahead => Runs[i].fetch /\ EndSlot > 0
  /\ MaxCrashes \in Nat
  /\ DetectBatch \in Nat \ {0} /\ DetectLag \in Nat
  /\ Missable \subseteq Slot
  /\ RetriesMissed \in BOOLEAN

VARIABLES
  run,       (* the command that is running, Len(Runs) + 1 after the last  *)
  crashes,   (* crashes so far                                             *)
  frontier,  (* the last slot of the detector's batches so far             *)
  missed     (* slots whose block the detector did not get                 *)

detVars == <<frontier, missed>>
lifeVars == <<run, crashes>>
vars == <<tables, fetchVars, markVars, detVars, lifeVars>>

TypeOK ==
  /\ TablesTypeOK /\ FetchTypeOK /\ MarkTypeOK
  /\ run \in 1..(Len(Runs) + 1) /\ crashes \in 0..MaxCrashes
  /\ frontier \in (MinSlot - 1)..MaxSlot
  /\ missed \subseteq Missable

Running == run <= Len(Runs)

Init ==
  /\ TablesInit
  /\ FetchInit(Runs[1].fetch) /\ MarkInit(Runs[1].mark)
  /\ run = 1 /\ crashes = 0
  /\ frontier = MinSlot - 1 /\ missed = {}

-----------------------------------------------------------------------------
(* The detector.  processAndStore inserts the sandwiches found in the      *)
(* windows that the new blocks complete, then a slot_txs row for each new  *)
(* block.  A transaction of slot x may thus be stored with the rows of a   *)
(* later slot, at most DetectLag after x.  A sandwich whose window reaches *)
(* a block that is missing may go unseen.                                  *)
Reaches(x, m) == x <= m + DetectLag /\ m <= x + DetectLag

StoreRows(blocks, found, due) ==
  /\ \E stored \in SUBSET found :
       /\ StoreFaults \/ due \subseteq stored
       /\ sandwichTxs' = [x \in Slot |-> IF x \in stored THEN "plain"
                                         ELSE sandwichTxs[x]]
  /\ \/ slotTxs' = [x \in Slot |-> IF x \in blocks THEN "unchecked"
                                   ELSE slotTxs[x]]
     \/ StoreFaults /\ UNCHANGED slotTxs
  /\ UNCHANGED <<slotBundles, jitoBundles>>

(* The last slot of the detector's next batch.                             *)
BatchTop(top) ==
  \/ top = frontier + DetectBatch
  \/ top = MaxSlot /\ top < frontier + DetectBatch

Detect ==
  /\ frontier < MaxSlot
  /\ \E top \in (frontier + 1)..MaxSlot, skipped \in SUBSET Missable :
       LET batch == (frontier + 1)..top
           found == {x \in Hit \ (missed \cup skipped) :
                       /\ x <= top /\ x + DetectLag > frontier
                       /\ sandwichTxs[x] = "absent"}
           due == {x \in found :
                     /\ x + DetectLag <= top
                     /\ \A m \in missed \cup skipped : ~Reaches(x, m)}
       IN /\ BatchTop(top)
          /\ skipped \subseteq batch
          /\ StoreRows(batch \ skipped, found, due)
          /\ frontier' = top
          /\ missed' = missed \cup skipped
  /\ UNCHANGED <<fetchVars, markVars, lifeVars>>

(* RunBackfillCmd's single retry pass, after its last batch.  It finds the *)
(* sandwiches inside the blocks it gets at last, and those across blocks   *)
(* that the block cache still holds.                                       *)
DetectRetry ==
  /\ RetriesMissed /\ frontier = MaxSlot /\ missed # {}
  /\ LET across == {x \in Hit : /\ x + DetectLag > frontier
                                /\ sandwichTxs[x] = "absent"
                                /\ \E m \in missed : Reaches(x, m)}
     IN StoreRows(missed, (missed \cap Hit) \cup across, missed \cap Hit)
  /\ missed' = {}
  /\ UNCHANGED <<fetchVars, markVars, lifeVars, frontier>>

-----------------------------------------------------------------------------
DetectionOver == frontier = MaxSlot /\ (RetriesMissed => missed = {})

(* The jito process ends when both its tasks have ended.                   *)
Ended == fpc = "off" /\ mpc = "off"

NextRun ==
  /\ Running /\ Ended
  /\ run' = run + 1
  /\ IF run < Len(Runs)
     THEN /\ Runs[run + 1].settled => DetectionOver
          /\ FetchRestart(Runs[run + 1].fetch)
          /\ MarkRestart(Runs[run + 1].mark)
     ELSE UNCHANGED <<fetchVars, markVars>>
  /\ UNCHANGED <<tables, detVars, crashes>>

Crash ==
  /\ Running /\ ~Ended /\ crashes < MaxCrashes
  /\ crashes' = crashes + 1
  /\ FetchRestart(Runs[run].fetch) /\ MarkRestart(Runs[run].mark)
  /\ UNCHANGED <<tables, detVars, run>>

FetchStep == Running /\ FetchNext(Runs[run].ahead)
             /\ UNCHANGED <<markVars, detVars, lifeVars>>
MarkStep == MarkNext /\ UNCHANGED <<detVars, lifeVars>>

(* Nothing is left to run: the chain is over and so are the commands.      *)
Quiet == ~Running /\ frontier = MaxSlot /\ UNCHANGED vars

Next == FetchStep \/ MarkStep \/ Detect \/ DetectRetry \/ NextRun \/ Crash
        \/ Quiet

(* Both goroutines, the detector and the operator make progress; nothing   *)
(* obliges the process to crash.                                           *)
Fairness ==
  /\ WF_vars(FetchStep) /\ WF_vars(MarkStep)
  /\ WF_vars(Detect) /\ WF_vars(DetectRetry) /\ WF_vars(NextRun)

Spec == Init /\ [][Next]_vars
FairSpec == Spec /\ Fairness

-----------------------------------------------------------------------------
(* fetchedThrough, while the fetch task works, is the end of a gap-free    *)
(* prefix: every slot of it is recorded (slot.go:94, 177-183).             *)
GapFree ==
  fpc \notin {"exit", "off"} =>
    \A x \in Start..fetchedThrough : slotBundles[x] # "absent"

(* A slot recorded as checked has the verdicts it should have: none of its *)
(* sandwich txs that landed in a bundle is stored without the flag         *)
(* (slot.go:267-325, config.go:76).                                        *)
CheckedIsFlagged ==
  \A x \in Hit : slotTxs[x] = "checked" => sandwichTxs[x] # "plain"

(* Marking a slot as checked comes after all its hits have been flagged,   *)
(* also when the flagging failed half-way and was repeated                 *)
(* (slot.go:316-325).                                                      *)
FlaggedBeforeChecked ==
  [][\A x \in hits : slotTxs[x] # "checked" /\ slotTxs'[x] = "checked"
                        => sandwichTxs[x] = "inBundle"]_vars

(* A partition is dropped only when no slot recorded in it still needs its *)
(* bundles: each one is checked, or the detector has passed it without     *)
(* storing a row (slot.go:328-331, clickhouse.go:403-407).                 *)
DroppedWhenChecked ==
  [][\A x \in jitoBundles \ jitoBundles' :
       slotBundles[x] = "some" =>
         slotTxs[x] = "checked" \/ (slotTxs[x] = "absent" /\ x <= frontier)]_vars

(* Every command of a bounded plan ends, whatever the API answers.         *)
Terminates == <>~Running

(* A slot that is detected, fetched and a mark lag behind the frontier is  *)
(* eventually checked.                                                     *)
EventuallyChecked == \A x \in Slot : x \in ToCheck ~> slotTxs[x] = "checked"

(* When the last command is a mark run that has ended, no raw bundles are  *)
(* left in the epochs it covers entirely (slot.go:251-256).                *)
PurgedAtEnd ==
  ~Running /\ Runs[Len(Runs)].mark =>
    \A x \in jitoBundles : EpochOf(x) >= EpochOf(EndSlot + 1)

(* The tasks implement the ledger: a checked slot is a judged one.         *)
Verdict ==
  [x \in Slot |-> IF slotTxs[x] # "checked" THEN "pending"
                  ELSE IF sandwichTxs[x] = "inBundle" THEN "inBundle"
                  ELSE "clear"]

Ledger == INSTANCE VerdictLedger
            WITH Item <- Slot, InBundle <- Hit,
                 verdict <- Verdict, held <- jitoBundles

ImplementsLedger == Ledger!LedgerSpec
=============================================================================
