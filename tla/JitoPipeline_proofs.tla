------------------------ MODULE JitoPipeline_proofs ------------------------
(***************************************************************************)
(* Theorems about JitoPipeline, for every value of its constants: its      *)
(* types, the records without a gap, the flags before the records; and     *)
(* delete-after-mark, when the pipeline implements VerdictLedger, drops    *)
(* only bundles that were used, and leaves none behind.                    *)
(***************************************************************************)
EXTENDS JitoPipeline, SequenceTheorems, FiniteSetTheorems, WellFoundedInduction,
        TLAPS

(* Every slot lies in an epoch numbered from 0.                            *)
LEMMA EpochIsNat ==
  ASSUME NEW x \in Nat
  PROVE  EpochOf(x) \in Nat
  BY TableAssumption DEF EpochOf

LEMMA CrashBoundIsNat == MaxCrashes \in Nat
  BY PipelineAssumption

(* The slots at which the two tasks compute an epoch are natural numbers.  *)
LEMMA SlotsAreNat == Start \in Nat /\ EndSlot \in Nat
  BY TableAssumption, FetchAssumption DEF Slot

(* Every command of the plan says which tasks it runs, and a plan has a    *)
(* first command.                                                          *)
LEMMA RunTyped ==
  /\ Len(Runs) \in Nat /\ 1 \in 1..Len(Runs)
  /\ \A i \in 1..Len(Runs) :
       /\ Runs[i].fetch \in BOOLEAN /\ Runs[i].mark \in BOOLEAN
       /\ Runs[i].ahead \in BOOLEAN
       /\ Runs[i].ahead => EndSlot > 0
<1> DEFINE Command == [fetch : BOOLEAN, mark : BOOLEAN, ahead : BOOLEAN,
                       settled : BOOLEAN]
<1>1. Runs \in Seq(Command) /\ Runs # <<>>
  BY PipelineAssumption
<1>2. Len(Runs) \in Nat /\ DOMAIN Runs = 1..Len(Runs)
  BY <1>1, LenProperties
<1>3. Len(Runs) # 0
  BY <1>1, EmptySeq
<1>4. \A i \in 1..Len(Runs) : Runs[i] \in Command
  BY <1>1, ElementOfSeq
<1> QED BY <1>2, <1>3, <1>4, PipelineAssumption

(* TypeOK is inductive once it says that a call to the API is only made    *)
(* while attempts are left.                                                *)
TypeInv == TypeOK /\ (fpc = "call" => attempt < MaxAttempts)

USE TableAssumption, FetchAssumption
USE DEF Slot, tables, fetchLocals, fetchVars, markLocals, markVars, detVars,
        lifeVars

LEMMA FetchTyped ==
  ASSUME TypeInv, NEW ahead \in BOOLEAN, ahead => EndSlot > 0,
         FetchNext(ahead), UNCHANGED <<markVars, detVars, lifeVars>>
  PROVE  TypeInv'
<1> USE DEF TypeInv, TypeOK, TablesTypeOK, FetchTypeOK, MarkTypeOK
<1> MarkTypeOK' /\ (run \in 1..(Len(Runs) + 1) /\ crashes \in 0..MaxCrashes
      /\ frontier \in (MinSlot - 1)..MaxSlot /\ missed \subseteq Missable)'
  OBVIOUS
<1>1. CASE StartBatch(ahead)
  <2>1. TablesTypeOK'
    BY <1>1 DEF StartBatch
  <2>2. PICK c \in 0..MaxSlot, b \in Start..(MaxSlot + 1) :
          ceiling' = c /\ batchEnd' = b /\ remaining' = s..(b - 1)
    BY <1>1 DEF StartBatch
  <2>3. remaining' \subseteq Slot
    BY <2>2
  <2>4. FetchTypeOK' /\ (fpc = "call" => attempt < MaxAttempts)'
    BY <1>1, <2>2, <2>3 DEF StartBatch, FetchPC
  <2> QED BY <2>1, <2>4
<1>2. CASE Fetch
  <2>1. /\ got' \subseteq Slot /\ remaining' \subseteq Slot
        /\ jitoBundles' \subseteq Slot
    BY <1>2 DEF Fetch, FetchSlotsParallel, InsertJitoBundles
  <2>2. TablesTypeOK'
    BY <1>2, <2>1 DEF Fetch
  <2>3. FetchTypeOK' /\ (fpc = "call" => attempt < MaxAttempts)'
    BY <1>2, <2>1 DEF Fetch, FetchPC
  <2> QED BY <2>2, <2>3
<1>3. CASE Record
  <2>1. TablesTypeOK'
    BY <1>3 DEF Record, InsertSlotBundles
  <2>2. FetchTypeOK' /\ (fpc = "call" => attempt < MaxAttempts)'
    BY <1>3 DEF Record, MoreAttempts, FetchPC
  <2> QED BY <2>1, <2>2
<1>4. CASE Advance
  <2>1. TablesTypeOK'
    BY <1>4 DEF Advance
  <2>2. FetchTypeOK' /\ (fpc = "call" => attempt < MaxAttempts)'
    BY <1>4 DEF Advance, FetchPC
  <2> QED BY <2>1, <2>2
<1>5. CASE LeaveLoop
  BY <1>5 DEF LeaveLoop, FetchPC
<1>6. CASE Refetch
  <2>1. /\ got' \subseteq Slot /\ remaining' \subseteq Slot
        /\ jitoBundles' \subseteq Slot
    BY <1>6 DEF Refetch, FetchSlotsParallel, InsertJitoBundles
  <2>2. TablesTypeOK'
    BY <1>6, <2>1 DEF Refetch
  <2>3. FetchTypeOK' /\ (fpc = "call" => attempt < MaxAttempts)'
    BY <1>6, <2>1 DEF Refetch, FetchPC
  <2> QED BY <2>2, <2>3
<1>7. CASE Rerecord
  <2>1. TablesTypeOK'
    BY <1>7 DEF Rerecord, InsertSlotBundles
  <2>2. FetchTypeOK' /\ (fpc = "call" => attempt < MaxAttempts)'
    BY <1>7 DEF Rerecord, FetchPC
  <2> QED BY <2>1, <2>2
<1>8. CASE OverrideFrontier
  BY <1>8 DEF OverrideFrontier, FetchPC
<1>9. CASE FetchExit
  BY <1>9 DEF FetchExit, FetchPC
<1> QED
  BY <1>1, <1>2, <1>3, <1>4, <1>5, <1>6, <1>7, <1>8, <1>9 DEF FetchNext

LEMMA MarkTyped ==
  ASSUME TypeInv, MarkNext, UNCHANGED <<detVars, lifeVars>>
  PROVE  TypeInv'
<1> USE DEF TypeInv, TypeOK, TablesTypeOK, MarkTypeOK, FetchTypeOK
<1>1. UNCHANGED fetchVars
  BY DEF MarkNext, QuerySlots, TryStop, ReadBundles, ReadSandwiches,
         UpdateInBundle, CheckSlots, DropEpoch, DropsDone
<1>2. FetchTypeOK' /\ (fpc = "call" => attempt < MaxAttempts)'
      /\ (run \in 1..(Len(Runs) + 1) /\ crashes \in 0..MaxCrashes
          /\ frontier \in (MinSlot - 1)..MaxSlot /\ missed \subseteq Missable)'
  BY <1>1
<1>3. ASSUME NEW epoch \in Nat
      PROVE  CapEpoch(epoch) \in Nat
  <2>1. fetchedThrough + 1 \in Nat
    OBVIOUS
  <2>2. EpochOf(fetchedThrough + 1) \in Nat
    BY <2>1, EpochIsNat
  <2> QED BY <2>2, <1>3 DEF CapEpoch
<1>4. CASE QuerySlots
  BY <1>2, <1>4 DEF QuerySlots, SlotsToCheck, ToCheck, MarkPC
<1>5. CASE TryStop
  <2>1. EpochOf(EndSlot) \in Nat
    BY EpochIsNat, SlotsAreNat
  <2> QED BY <1>2, <1>3, <1>5, <2>1 DEF TryStop, MarkPC
<1>6. CASE ReadBundles
  BY <1>2, <1>6 DEF ReadBundles, ForgetBatch, MarkPC
<1>7. CASE ReadSandwiches
  BY <1>2, <1>7 DEF ReadSandwiches, ForgetBatch, MarkPC
<1>8. CASE UpdateInBundle
  <2>1. TablesTypeOK'
    BY <1>8 DEF UpdateInBundle, UpdateSandwichTxsInBundle
  <2>2. MarkTypeOK'
    BY <1>8 DEF UpdateInBundle, AfterUpdateError, ForgetBatch, MarkPC
  <2> QED BY <1>2, <2>1, <2>2
<1>9. CASE CheckSlots
  <2>1. TablesTypeOK'
    BY <1>9 DEF CheckSlots, UpdateSlotTxsCheckInBundle
  <2>2. MarkTypeOK'
    <3>1. ASSUME NEW last \in slots, EpochOf(last) > 0
          PROVE  CapEpoch(LeftBehind(last)) \in Nat
      <4>1. EpochOf(last) \in Nat
        BY <3>1, EpochIsNat
      <4>2. LeftBehind(last) \in Nat
        BY <3>1, <4>1 DEF LeftBehind
      <4> QED BY <1>3, <4>2
    <3> QED BY <1>9, <3>1 DEF CheckSlots, ForgetBatch, MarkPC
  <2> QED BY <1>2, <2>1, <2>2
<1>10. CASE DropEpoch
  <2>1. jitoBundles' \subseteq Slot
    BY <1>10 DEF DropEpoch, DropJitoBundlesEpochPartition
  <2> QED BY <1>2, <1>10, <2>1 DEF DropEpoch
<1>11. CASE DropsDone
  BY <1>2, <1>11 DEF DropsDone, MarkPC
<1> QED
  BY <1>4, <1>5, <1>6, <1>7, <1>8, <1>9, <1>10, <1>11 DEF MarkNext

LEMMA RowsTyped ==
  ASSUME TypeInv, NEW blocks, NEW found, NEW due,
         StoreRows(blocks, found, due)
  PROVE  TablesTypeOK'
  BY DEF StoreRows, TypeInv, TypeOK, TablesTypeOK

LEMMA RestartTyped ==
  ASSUME NEW f \in BOOLEAN, NEW m \in BOOLEAN,
         FetchRestart(f), MarkRestart(m)
  PROVE  (FetchTypeOK /\ MarkTypeOK /\ (fpc = "call" => attempt < MaxAttempts))'
<1>1. FirstDropped \in Nat
  <2>1. EpochOf(Start) \in Nat
    BY EpochIsNat, SlotsAreNat
  <2> QED BY <2>1 DEF FirstDropped
<1>2. FetchTypeOK' /\ (fpc = "call" => attempt < MaxAttempts)'
  BY DEF FetchRestart, FetchStart, FetchTypeOK, FetchPC
<1>3. MarkTypeOK'
  BY <1>1 DEF MarkRestart, MarkTypeOK, MarkPC
<1> QED BY <1>2, <1>3

LEMMA TypeInvInit == Init => TypeInv
<1> SUFFICES ASSUME Init PROVE TypeInv
  OBVIOUS
<1>1. Runs[1].fetch \in BOOLEAN /\ Runs[1].mark \in BOOLEAN
      /\ Len(Runs) \in Nat
  BY RunTyped
<1>2. FirstDropped \in Nat
  <2>1. EpochOf(Start) \in Nat
    BY EpochIsNat, SlotsAreNat
  <2> QED BY <2>1 DEF FirstDropped
<1>3. TablesTypeOK
  BY DEF Init, TablesInit, TablesTypeOK
<1>4. FetchTypeOK /\ (fpc = "call" => attempt < MaxAttempts)
  BY <1>1 DEF Init, FetchInit, FetchStart, FetchTypeOK, FetchPC
<1>5. MarkTypeOK
  BY <1>1, <1>2 DEF Init, MarkInit, MarkTypeOK, MarkPC
<1>6. /\ run \in 1..(Len(Runs) + 1) /\ crashes \in 0..MaxCrashes
      /\ frontier \in (MinSlot - 1)..MaxSlot /\ missed \subseteq Missable
  BY <1>1, CrashBoundIsNat DEF Init
<1> QED BY <1>3, <1>4, <1>5, <1>6 DEF TypeInv, TypeOK

LEMMA TypeInvStep == TypeInv /\ [Next]_vars => TypeInv'
<1> SUFFICES ASSUME TypeInv, [Next]_vars PROVE TypeInv'
  OBVIOUS
<1> USE DEF TypeInv, TypeOK
<1>1. Len(Runs) \in Nat
  BY RunTyped
<1>2. CASE FetchStep
  <2>1. run \in 1..Len(Runs)
    BY <1>1, <1>2 DEF FetchStep, Running
  <2>2. Runs[run].ahead \in BOOLEAN /\ (Runs[run].ahead => EndSlot > 0)
    BY <2>1, RunTyped
  <2> QED BY <1>2, <2>2, FetchTyped DEF FetchStep
<1>3. CASE MarkStep
  BY <1>3, MarkTyped DEF MarkStep
<1>4. CASE Detect
  <2>1. TablesTypeOK'
    BY <1>4, RowsTyped DEF Detect
  <2>2. (frontier \in (MinSlot - 1)..MaxSlot /\ missed \subseteq Missable)'
    BY <1>4 DEF Detect
  <2>3. UNCHANGED <<fetchVars, markVars, lifeVars>>
    BY <1>4 DEF Detect
  <2>4. (FetchTypeOK /\ MarkTypeOK /\ (fpc = "call" => attempt < MaxAttempts))'
    BY <2>3 DEF FetchTypeOK, MarkTypeOK
  <2> QED BY <2>1, <2>2, <2>3, <2>4
<1>5. CASE DetectRetry
  <2>1. TablesTypeOK'
    BY <1>5, RowsTyped DEF DetectRetry
  <2>2. UNCHANGED <<fetchVars, markVars, lifeVars, frontier>> /\ missed' = {}
    BY <1>5 DEF DetectRetry
  <2>3. (FetchTypeOK /\ MarkTypeOK /\ (fpc = "call" => attempt < MaxAttempts))'
    BY <2>2 DEF FetchTypeOK, MarkTypeOK
  <2> QED BY <2>1, <2>2, <2>3
<1>6. CASE NextRun
  <2>1. TablesTypeOK' /\ UNCHANGED <<detVars, crashes>>
    BY <1>6 DEF NextRun, TablesTypeOK
  <2>2. (run \in 1..(Len(Runs) + 1))'
    BY <1>6 DEF NextRun, Running
  <2>3. (FetchTypeOK /\ MarkTypeOK /\ (fpc = "call" => attempt < MaxAttempts))'
    <3>1. CASE run < Len(Runs)
      <4>1. run + 1 \in 1..Len(Runs)
        BY <1>1, <3>1
      <4>2. Runs[run + 1].fetch \in BOOLEAN /\ Runs[run + 1].mark \in BOOLEAN
        BY <4>1, RunTyped
      <4>3. FetchRestart(Runs[run + 1].fetch) /\ MarkRestart(Runs[run + 1].mark)
        BY <1>6, <3>1 DEF NextRun
      <4> QED BY <4>2, <4>3, RestartTyped
    <3>2. CASE ~(run < Len(Runs))
      BY <1>6, <3>2 DEF NextRun, FetchTypeOK, MarkTypeOK
    <3> QED BY <3>1, <3>2
  <2> QED BY <2>1, <2>2, <2>3
<1>7. CASE Crash
  <2>1. TablesTypeOK' /\ UNCHANGED <<detVars, run>> /\ (crashes \in 0..MaxCrashes)'
    BY <1>7, CrashBoundIsNat DEF Crash, TablesTypeOK
  <2>2. (FetchTypeOK /\ MarkTypeOK /\ (fpc = "call" => attempt < MaxAttempts))'
    <3>1. run \in 1..Len(Runs)
      BY <1>1, <1>7 DEF Crash, Running
    <3>2. Runs[run].fetch \in BOOLEAN /\ Runs[run].mark \in BOOLEAN
      BY <3>1, RunTyped
    <3> QED BY <1>7, <3>2, RestartTyped DEF Crash
  <2> QED BY <2>1, <2>2
<1>8. CASE UNCHANGED vars
  BY <1>8 DEF vars, TablesTypeOK, FetchTypeOK, MarkTypeOK
<1> QED
  BY <1>2, <1>3, <1>4, <1>5, <1>6, <1>7, <1>8 DEF Next, Quiet

(* The type invariant: every table, local variable and counter keeps to    *)
(* its type; in particular no batch makes more than MaxAttempts calls.     *)
THEOREM TypeCorrect == Spec => []TypeOK
<1>1. TypeInv => TypeOK
  BY DEF TypeInv
<1> QED BY TypeInvInit, TypeInvStep, <1>1, PTL DEF Spec

-----------------------------------------------------------------------------
(* GapFree is inductive together with what a batch owes: every slot of it  *)
(* is recorded, or answered and about to be, or still to be asked for, and *)
(* fetchedThrough never passes the prefix that is known to be gap-free.    *)
PrefixRecorded ==
  /\ fetchedThrough < contiguousEnd
  /\ \A x \in Start..(contiguousEnd - 1) : slotBundles[x] # "absent"

BatchAccounted ==
  /\ fpc \in {"loop", "call", "advance"} => got = {}
  /\ fpc \in {"call", "record", "advance"} =>
       \A x \in s..(batchEnd - 1) :
         slotBundles[x] # "absent" \/ x \in remaining \cup got

GapInv ==
  fpc \notin {"exit", "off"} => PrefixRecorded /\ BatchAccounted

(* A step that leaves the fetch task and its table alone preserves GapInv. *)
LEMMA GapUntouched ==
  ASSUME GapInv, UNCHANGED fetchVars, UNCHANGED slotBundles
  PROVE  GapInv'
  BY DEF GapInv, PrefixRecorded, BatchAccounted

LEMMA GapFetch ==
  ASSUME StoreFaults = FALSE, TypeInv, GapInv, NEW ahead, FetchNext(ahead)
  PROVE  GapInv'
<1> USE DEF GapInv, PrefixRecorded, BatchAccounted
<1>0. FetchTypeOK /\ TablesTypeOK
  BY DEF TypeInv, TypeOK
<1>1. CASE StartBatch(ahead)
  <2>1. PICK b \in Start..(MaxSlot + 1) :
          batchEnd' = b /\ remaining' = s..(b - 1)
    BY <1>1 DEF StartBatch
  <2>2. UNCHANGED <<slotBundles, s, got, contiguousEnd, fetchedThrough>>
        /\ fpc = "loop" /\ fpc' = "call"
    BY <1>1 DEF StartBatch
  <2> QED BY <2>1, <2>2
<1>2. CASE Fetch
  <2>1. \A x \in remaining : slotBundles[x] = "some" \/ x \in remaining' \cup got'
    BY <1>2 DEF Fetch, FetchSlotsParallel, AlreadyFetched
  <2>2. /\ UNCHANGED <<slotBundles, s, batchEnd, contiguousEnd, fetchedThrough>>
        /\ fpc = "call" /\ fpc' = "record"
    BY <1>2 DEF Fetch
  <2> QED BY <2>1, <2>2
<1>3. CASE Record
  <2>1. /\ UNCHANGED <<s, batchEnd, remaining, contiguousEnd, fetchedThrough>>
        /\ got' = {} /\ fpc = "record" /\ fpc' \in {"call", "advance"}
    BY <1>3 DEF Record
  <2>2. \A x \in Slot : slotBundles[x] # "absent" \/ x \in got
                        => slotBundles'[x] # "absent"
    BY <1>3, <1>0 DEF Record, InsertSlotBundles, TablesTypeOK
  <2>3. Start..(contiguousEnd - 1) \subseteq Slot /\ s..(batchEnd - 1) \subseteq Slot
    BY <1>0 DEF FetchTypeOK
  <2> QED BY <2>1, <2>2, <2>3
<1>4. CASE Advance
  <2>1. /\ UNCHANGED <<slotBundles, got>> /\ fpc = "advance" /\ fpc' = "loop"
        /\ contiguousEnd' = (IF AbutsPrefix THEN batchEnd ELSE contiguousEnd)
        /\ fetchedThrough' = (IF AbutsPrefix THEN batchEnd - 1 ELSE fetchedThrough)
    BY <1>4 DEF Advance
  <2>2. CASE AbutsPrefix
    <3>1. remaining = {} /\ s = contiguousEnd /\ got = {}
      BY <2>1, <2>2 DEF AbutsPrefix
    <3>2. \A x \in s..(batchEnd - 1) : slotBundles[x] # "absent"
      BY <2>1, <3>1
    <3>3. \A x \in Start..(batchEnd - 1) : slotBundles[x] # "absent"
      BY <2>1, <3>1, <3>2, <1>0 DEF FetchTypeOK
    <3>4. fetchedThrough' < contiguousEnd'
      BY <2>1, <2>2, <1>0 DEF FetchTypeOK
    <3> QED BY <2>1, <2>2, <3>3, <3>4
  <2>3. CASE ~AbutsPrefix
    BY <2>1, <2>3
  <2> QED BY <2>2, <2>3
<1>5. CASE LeaveLoop
  BY <1>5 DEF LeaveLoop
<1>6. CASE Refetch
  BY <1>6 DEF Refetch
<1>7. CASE Rerecord
  <2>1. \A x \in Slot : slotBundles[x] # "absent" => slotBundles'[x] # "absent"
    BY <1>7, <1>0 DEF Rerecord, InsertSlotBundles, TablesTypeOK
  <2>2. Start..(contiguousEnd - 1) \subseteq Slot
    BY <1>0 DEF FetchTypeOK
  <2> QED BY <1>7, <2>1, <2>2 DEF Rerecord
<1>8. CASE OverrideFrontier
  BY <1>8 DEF OverrideFrontier
<1>9. CASE FetchExit
  BY <1>9 DEF FetchExit
<1> QED
  BY <1>1, <1>2, <1>3, <1>4, <1>5, <1>6, <1>7, <1>8, <1>9 DEF FetchNext

LEMMA GapRestart ==
  ASSUME NEW f \in BOOLEAN, FetchRestart(f)
  PROVE  GapInv'
  BY DEF FetchRestart, FetchStart, GapInv, PrefixRecorded, BatchAccounted

LEMMA GapStep ==
  ASSUME StoreFaults = FALSE
  PROVE  TypeInv /\ GapInv /\ [Next]_vars => GapInv'
<1> SUFFICES ASSUME TypeInv, GapInv, [Next]_vars PROVE GapInv'
  OBVIOUS
<1>1. CASE FetchStep
  BY <1>1, GapFetch DEF FetchStep
<1>2. CASE MarkStep
  <2>1. UNCHANGED fetchVars /\ UNCHANGED slotBundles
    BY <1>2 DEF MarkStep, MarkNext, QuerySlots, TryStop, ReadBundles,
                ReadSandwiches, UpdateInBundle, CheckSlots, DropEpoch, DropsDone
  <2> QED BY <2>1, GapUntouched
<1>3. CASE Detect \/ DetectRetry
  <2>1. UNCHANGED fetchVars /\ UNCHANGED slotBundles
    BY <1>3 DEF Detect, DetectRetry, StoreRows
  <2> QED BY <2>1, GapUntouched
<1>4. CASE NextRun
  <2>1. CASE run < Len(Runs)
    <3>1. run + 1 \in 1..Len(Runs)
      BY <2>1, RunTyped DEF TypeInv, TypeOK
    <3>2. Runs[run + 1].fetch \in BOOLEAN
      BY <3>1, RunTyped
    <3>3. FetchRestart(Runs[run + 1].fetch)
      BY <1>4, <2>1 DEF NextRun
    <3> QED BY <3>2, <3>3, GapRestart
  <2>2. CASE ~(run < Len(Runs))
    BY <1>4, <2>2, GapUntouched DEF NextRun
  <2> QED BY <2>1, <2>2
<1>5. CASE Crash
  <2>1. run \in 1..Len(Runs)
    BY <1>5, RunTyped DEF Crash, Running, TypeInv, TypeOK
  <2>2. Runs[run].fetch \in BOOLEAN
    BY <2>1, RunTyped
  <2> QED BY <1>5, <2>2, GapRestart DEF Crash
<1>6. CASE UNCHANGED vars
  BY <1>6, GapUntouched DEF vars
<1> QED
  BY <1>1, <1>2, <1>3, <1>4, <1>5, <1>6 DEF Next, Quiet

(* While no database statement fails, whatever the API answers, however    *)
(* often the process crashes and whatever the detector does, every slot up *)
(* to fetchedThrough is recorded as long as the fetch task works.  An      *)
(* insert into slot_bundles that fails is only logged (slot.go:170-172),   *)
(* so that without the assumption the claim is false.                      *)
THEOREM PrefixIsGapFree ==
  ASSUME StoreFaults = FALSE
  PROVE  Spec => []GapFree
<1>1. Init => GapInv
  <2>1. Runs[1].fetch \in BOOLEAN
    BY RunTyped
  <2> QED
    BY <2>1 DEF Init, FetchInit, FetchStart, GapInv, PrefixRecorded,
                BatchAccounted
<1>2. TypeInv /\ GapInv /\ [Next]_vars => GapInv'
  BY GapStep
<1>3. TypeInv /\ GapInv => GapFree
  BY DEF GapInv, PrefixRecorded, GapFree, TypeInv, TypeOK, FetchTypeOK
<1> QED BY TypeInvInit, TypeInvStep, <1>1, <1>2, <1>3, PTL DEF Spec

-----------------------------------------------------------------------------
(* Why marking comes after flagging.  The flag of a row that is stored is  *)
(* never lost, because the detector stores a sandwich once: it has nothing *)
(* stored for the slots it missed and those ahead of it.                   *)
NotYetStored ==
  \A x \in Slot : x \in missed \/ x > frontier => sandwichTxs[x] = "absent"

HitsStored ==
  mpc = "update" => \A x \in hits : sandwichTxs[x] # "absent"

HitsFlagged ==
  mpc = "check" => \A x \in hits : sandwichTxs[x] = "inBundle"

FlagInv == NotYetStored /\ HitsStored /\ HitsFlagged

(* The detector writes only rows that are absent.                          *)
LEMMA FlagStored ==
  ASSUME TypeInv, FlagInv, NEW blocks, NEW found, NEW due,
         StoreRows(blocks, found, due),
         \A x \in found \cap Slot : sandwichTxs[x] = "absent",
         UNCHANGED markVars,
         \A x \in Slot : x \in missed' \/ x > frontier'
                         => x \notin found /\ (x \in missed \/ x > frontier)
  PROVE  FlagInv'
<1>1. \A x \in Slot : sandwichTxs[x] # "absent"
                       => sandwichTxs'[x] = sandwichTxs[x]
  BY DEF StoreRows
<1>2. \A x \in Slot : x \notin found => sandwichTxs'[x] = sandwichTxs[x]
  BY DEF StoreRows
<1>3. hits \subseteq Slot
  BY DEF TypeInv, TypeOK, MarkTypeOK
<1> QED
  BY <1>1, <1>2, <1>3 DEF FlagInv, NotYetStored, HitsStored, HitsFlagged

(* A step after which no batch is being flagged, and that stores nothing.  *)
LEMMA FlagIdle ==
  ASSUME FlagInv, UNCHANGED <<sandwichTxs, frontier, missed>>,
         mpc' \notin {"update", "check"}
  PROVE  FlagInv'
  BY DEF FlagInv, NotYetStored, HitsStored, HitsFlagged

LEMMA FlagMark ==
  ASSUME TypeInv, FlagInv, MarkNext, UNCHANGED <<detVars, lifeVars>>
  PROVE  FlagInv'
<1>1. hits \subseteq Slot /\ sandwichTxs \in [Slot -> {"absent", "plain", "inBundle"}]
  BY DEF TypeInv, TypeOK, MarkTypeOK, TablesTypeOK
<1>2. CASE QuerySlots
  BY <1>2, FlagIdle DEF QuerySlots
<1>3. CASE TryStop
  BY <1>3, FlagIdle DEF TryStop
<1>4. CASE ReadBundles
  BY <1>4, FlagIdle DEF ReadBundles
<1>5. CASE ReadSandwiches
  <2>1. CASE mpc' = "query"
    BY <1>5, <2>1, FlagIdle DEF ReadSandwiches
  <2>2. CASE mpc' # "query"
    <3>1. /\ UNCHANGED sandwichTxs
          /\ hits' = {x \in bundleTxs \cap Hit : sandwichTxs[x] # "absent"}
          /\ mpc' = IF hits' = {} THEN "check" ELSE "update"
      BY <1>5, <2>2 DEF ReadSandwiches
    <3> QED BY <3>1 DEF FlagInv, NotYetStored, HitsStored, HitsFlagged
  <2> QED BY <2>1, <2>2
<1>6. CASE UpdateInBundle
  <2>1. \A x \in Slot : sandwichTxs[x] = "absent" => sandwichTxs'[x] = "absent"
    BY <1>1, <1>6 DEF UpdateInBundle, UpdateSandwichTxsInBundle
  <2>2. NotYetStored'
    BY <2>1 DEF FlagInv, NotYetStored
  <2>3. CASE mpc' = "query"
    BY <2>2, <2>3 DEF FlagInv, HitsStored, HitsFlagged
  <2>4. CASE mpc' # "query"
    <3>1. /\ UpdateSandwichTxsInBundle(hits) /\ mpc = "update"
          /\ mpc' = "check" /\ UNCHANGED hits
      BY <1>6, <2>4 DEF UpdateInBundle, AfterUpdateError
    <3>2. \A x \in hits : sandwichTxs[x] # "absent"
      BY <3>1 DEF FlagInv, HitsStored
    <3>3. \A x \in hits : sandwichTxs'[x] = "inBundle"
      BY <1>1, <3>1, <3>2 DEF UpdateSandwichTxsInBundle
    <3> QED BY <2>2, <3>1, <3>3 DEF FlagInv, HitsStored, HitsFlagged
  <2> QED BY <2>3, <2>4
<1>7. CASE CheckSlots
  BY <1>7, FlagIdle DEF CheckSlots
<1>8. CASE DropEpoch
  BY <1>8, FlagIdle DEF DropEpoch
<1>9. CASE DropsDone
  BY <1>9, FlagIdle DEF DropsDone
<1> QED
  BY <1>2, <1>3, <1>4, <1>5, <1>6, <1>7, <1>8, <1>9 DEF MarkNext

LEMMA FlagStep == TypeInv /\ FlagInv /\ [Next]_vars => FlagInv'
<1> SUFFICES ASSUME TypeInv, FlagInv, [Next]_vars PROVE FlagInv'
  OBVIOUS
<1>1. CASE FetchStep
  <2>1. UNCHANGED <<sandwichTxs, markVars, detVars>>
    BY <1>1 DEF FetchStep, FetchNext, StartBatch, Fetch, Record, Advance,
                LeaveLoop, Refetch, Rerecord, OverrideFrontier, FetchExit
  <2> QED BY <2>1 DEF FlagInv, NotYetStored, HitsStored, HitsFlagged
<1>2. CASE MarkStep
  BY <1>2, FlagMark DEF MarkStep
<1>3. CASE Detect
  <2>1. PICK top \in (frontier + 1)..MaxSlot, skipped \in SUBSET Missable :
          LET batch == (frontier + 1)..top
              found == {x \in Hit \ (missed \cup skipped) :
                          /\ x <= top /\ x + DetectLag > frontier
                          /\ sandwichTxs[x] = "absent"}
              due == {x \in found :
                        /\ x + DetectLag <= top
                        /\ \A m \in missed \cup skipped : ~Reaches(x, m)}
          IN /\ skipped \subseteq batch
             /\ StoreRows(batch \ skipped, found, due)
             /\ frontier' = top
             /\ missed' = missed \cup skipped
    BY <1>3 DEF Detect
  <2> DEFINE found == {x \in Hit \ (missed \cup skipped) :
                         /\ x <= top /\ x + DetectLag > frontier
                         /\ sandwichTxs[x] = "absent"}
             due == {x \in found :
                       /\ x + DetectLag <= top
                       /\ \A m \in missed \cup skipped : ~Reaches(x, m)}
  <2>2. StoreRows(((frontier + 1)..top) \ skipped, found, due)
    BY <2>1
  <2>3. \A x \in found : sandwichTxs[x] = "absent"
    OBVIOUS
  <2>4. \A x \in Slot : x \in missed' \/ x > frontier'
                         => x \notin found /\ (x \in missed \/ x > frontier)
    BY <2>1 DEF TypeInv, TypeOK
  <2>5. UNCHANGED markVars
    BY <1>3 DEF Detect
  <2> HIDE DEF found, due
  <2> QED BY <2>2, <2>3, <2>4, <2>5, FlagStored
<1>4. CASE DetectRetry
  <2> DEFINE across == {x \in Hit : /\ x + DetectLag > frontier
                                   /\ sandwichTxs[x] = "absent"
                                   /\ \E m \in missed : Reaches(x, m)}
             found == (missed \cap Hit) \cup across
  <2>1. StoreRows(missed, found, missed \cap Hit)
    BY <1>4 DEF DetectRetry
  <2>2. \A x \in found \cap Slot : sandwichTxs[x] = "absent"
    BY DEF FlagInv, NotYetStored
  <2>3. UNCHANGED <<markVars, frontier>> /\ missed' = {} /\ frontier = MaxSlot
    BY <1>4 DEF DetectRetry
  <2>4. \A x \in Slot : ~(x \in missed' \/ x > frontier')
    BY <2>3
  <2> HIDE DEF found, across
  <2> QED BY <2>1, <2>2, <2>3, <2>4, FlagStored
<1>5. CASE NextRun
  <2>1. CASE run < Len(Runs)
    BY <1>5, <2>1, FlagIdle DEF NextRun, MarkRestart
  <2>2. CASE ~(run < Len(Runs))
    BY <1>5, <2>2 DEF NextRun, FlagInv, NotYetStored, HitsStored, HitsFlagged
  <2> QED BY <2>1, <2>2
<1>6. CASE Crash
  BY <1>6, FlagIdle DEF Crash, MarkRestart
<1>7. CASE UNCHANGED vars
  BY <1>7 DEF vars, FlagInv, NotYetStored, HitsStored, HitsFlagged
<1> QED
  BY <1>1, <1>2, <1>3, <1>4, <1>5, <1>6, <1>7 DEF Next, Quiet

(* Whatever fails and however often the process crashes, a slot is marked  *)
(* as checked only when each hit of its batch carries the flag.            *)
THEOREM FlagPrecedesCheck == Spec => FlaggedBeforeChecked
<1> DEFINE Flagged == \A x \in hits :
      slotTxs[x] # "checked" /\ slotTxs'[x] = "checked"
        => sandwichTxs[x] = "inBundle"
<1>1. Init => FlagInv
  <2> SUFFICES ASSUME Init PROVE FlagInv
    OBVIOUS
  <2>1. mpc \notin {"update", "check"}
    BY DEF Init, MarkInit
  <2> QED
    BY <2>1 DEF Init, TablesInit, FlagInv, NotYetStored, HitsStored, HitsFlagged
<1>2. TypeInv /\ FlagInv /\ [Next]_vars => [Flagged]_vars
  <2> SUFFICES ASSUME TypeInv, FlagInv, Next PROVE Flagged
    OBVIOUS
  <2>0. hits \subseteq Slot
    BY DEF TypeInv, TypeOK, MarkTypeOK
  <2>1. CASE CheckSlots
    BY <2>1 DEF CheckSlots, FlagInv, HitsFlagged
  <2>2. CASE Detect \/ DetectRetry
    BY <2>0, <2>2 DEF Detect, DetectRetry, StoreRows
  <2>3. CASE UNCHANGED slotTxs
    BY <2>3
  <2> QED
    BY <2>1, <2>2, <2>3
       DEF Next, Quiet, vars, FetchStep, FetchNext, StartBatch, Fetch, Record,
           Advance, LeaveLoop, Refetch, Rerecord, OverrideFrontier, FetchExit,
           MarkStep, MarkNext, QuerySlots, TryStop, ReadBundles, ReadSandwiches,
           UpdateInBundle, DropEpoch, DropsDone, NextRun, Crash
<1> QED
  BY TypeInvInit, TypeInvStep, FlagStep, <1>1, <1>2, PTL
     DEF Spec, FlaggedBeforeChecked

-----------------------------------------------------------------------------
(* Delete-after-mark depends on how the two tasks are run.                 *)

(* A staged backfill: mark runs fetch nothing and start when detection is  *)
(* over; the first command is none of them.                                *)
StagedPlan ==
  /\ ~Runs[1].mark
  /\ \A i \in 1..Len(Runs) : Runs[i].mark => ~Runs[i].fetch /\ Runs[i].settled

(* Live mode: any commands, side by side with a live detector, which does  *)
(* not retry the blocks it missed.  The API may refuse a slot as long as   *)
(* it answers before the attempts for the batch are used up, but it        *)
(* refuses none so close to the end of an epoch that a batch with the slot *)
(* in it may reach into the next one.                                      *)
LivePlan ==
  /\ EndSlot = 0 /\ ~RetriesMissed
  /\ Flaky # {} => Recovers
  /\ \A x \in Flaky : EpochOf(x + BatchNum - 1) = EpochOf(x)

(* The mark lag covers how late a sandwich is stored (config.go:76), no    *)
(* statement fails, and a block that is missed hides no sandwich of        *)
(* another slot.                                                           *)
CalmStore ==
  /\ StoreFaults = FALSE
  /\ DetectLag <= MarkLag
  /\ \A x \in Hit, m \in Missable : Reaches(x, m) => x = m

Orderly == CalmStore /\ (StagedPlan \/ LivePlan)

-----------------------------------------------------------------------------
(* The inductive invariant.  The detector writes no row of x any more ...  *)
Closed == DetectionOver \/ ~RetriesMissed
RowFinal(x) == x <= frontier /\ Closed
(* ... and stores no sandwich of x any more.                               *)
TxFinal(x) == x + DetectLag <= frontier /\ Closed

RowsBehindFrontier ==
  /\ \A x \in missed : x <= frontier
  /\ \A x \in Slot : x > frontier \/ x \in missed => slotTxs[x] = "absent"

OnlyHitsStored == \A x \in Slot : sandwichTxs[x] # "absent" => x \in Hit

DueStored ==
  \A x \in Hit \ missed : x + DetectLag <= frontier => sandwichTxs[x] # "absent"

JudgedRight ==
  \A x \in Slot : slotTxs[x] = "checked" =>
    TxFinal(x) /\ (x \in Hit => sandwichTxs[x] = "inBundle")

DetectorInv == RowsBehindFrontier /\ OnlyHitsStored /\ DueStored /\ JudgedRight

(* What slot_bundles says of a slot is true; an answer that is about to be *)
(* recorded has its bundles stored.                                        *)
RecordsTrue ==
  \A x \in Slot : /\ slotBundles[x] = "some" => x \in Bundled
                  /\ slotBundles[x] = "empty" => x \notin Bundled

AnswersHeld ==
  fpc \in {"record", "rerecord"} =>
    \A x \in got \cap Bundled : x \in jitoBundles /\ slotBundles[x] = "absent"

Recorded(x) == slotBundles[x] # "absent"

(* Staged: the two tasks never run together, marking never while the       *)
(* detector writes.                                                        *)
StagedApart ==
  IF Running
  THEN IF Runs[run].mark
       THEN fpc = "off" /\ DetectionOver /\ fetchedThrough = EndSlot
       ELSE mpc = "off"
  ELSE fpc = "off" /\ mpc = "off"

(* Live: within the reach of a batch slots may be recorded out of order,   *)
(* across epochs they are recorded in ascending order, and nothing ends.   *)
LiveAscends ==
  /\ mpc \notin {"empty", "last"}
  /\ fpc \in {"loop", "call", "record", "advance", "off"}
  /\ \A x, y \in Slot : Recorded(y) /\ x < y =>
        x < Start \/ Recorded(x) \/ EpochOf(x) = EpochOf(y)
  /\ \A x \in Slot : x < Start => ~Recorded(x)
  /\ fpc # "off" => \A x \in Start..(s - 1) : Recorded(x)
  /\ fpc \in {"call", "record"} =>
       /\ batchEnd <= s + BatchNum
       /\ remaining \cup got \subseteq s..(batchEnd - 1)
       /\ \A x \in s..(batchEnd - 1) : Recorded(x) \/ x \in remaining \cup got
  /\ fpc \in {"loop", "call", "advance"} => got = {}
  /\ fpc = "record" => /\ remaining \subseteq Flaky
                       /\ attempt = MaxAttempts => remaining = {}
  /\ fpc = "advance" => \A x \in s..(batchEnd - 1) : Recorded(x)

FetchedInv ==
  /\ RecordsTrue /\ AnswersHeld
  /\ StagedPlan => StagedApart
  /\ LivePlan => LiveAscends

(* Raw bundles are held until they are used, or until it is settled that   *)
(* the detector has no row for their slot.                                 *)
UnusedHeld ==
  \A x \in Slot : slotBundles[x] = "some" /\ slotTxs[x] # "checked" =>
    x \in jitoBundles \/ (slotTxs[x] = "absent" /\ RowFinal(x))

Due(x) == slotBundles[x] = "some" /\ slotTxs[x] = "unchecked"

(* The batch under check leaves no slot of an earlier epoch to check.      *)
BatchLowest ==
  mpc \in {"bundles", "sandwiches", "update", "check"} =>
    /\ slots \subseteq ToCheck
    /\ \A x \in slots, y \in Slot :
         y < x /\ Due(y) => y \in slots \/ EpochOf(y) = EpochOf(x)

BatchRead ==
  /\ mpc \in {"sandwiches", "update", "check"} => bundleTxs = slots
  /\ mpc \in {"update", "check"} =>
       hits = {x \in slots \cap Hit : sandwichTxs[x] # "absent"}

NothingDue ==
  /\ mpc \in {"empty", "last"} => EndSlot > 0
  /\ mpc = "empty" => ToCheck = {}

(* No slot of the epochs that are to be dropped needs its bundles, now or  *)
(* later.                                                                  *)
LeftBehindUsed ==
  mpc \in {"drop", "last"} =>
    \A x \in Slot : lastDropped < EpochOf(x) /\ EpochOf(x) <= dropTo =>
      /\ ~Due(x) /\ RowFinal(x)
      /\ fpc = "off" \/ x < Start \/ Recorded(x)

MarkInv == UnusedHeld /\ BatchLowest /\ BatchRead /\ NothingDue /\ LeftBehindUsed

LedgerInv == DetectorInv /\ FetchedInv /\ MarkInv

-----------------------------------------------------------------------------
USE TableAssumption, FetchAssumption
USE DEF Slot, tables, fetchLocals, fetchVars, markLocals, markVars, detVars,
        lifeVars

(* Epochs are ordered as their slots are.                                  *)
LEMMA EpochMonotone ==
  ASSUME NEW x \in Nat, NEW y \in Nat, x <= y
  PROVE  EpochOf(x) <= EpochOf(y)
  BY DEF EpochOf

(* While the mark task works, the detector is done with whatever is due.   *)
LEMMA MarkingIsClosed ==
  ASSUME Orderly, FetchedInv, mpc # "off"
  PROVE  Closed
  BY DEF Orderly, FetchedInv, StagedApart, LivePlan, Closed

LEMMA DueIsFinal ==
  ASSUME Orderly, TypeInv, DetectorInv, Closed, NEW x \in ToCheck
  PROVE  /\ x \in Slot /\ Due(x) /\ x \notin missed
         /\ TxFinal(x) /\ RowFinal(x)
<1>1. x \in Slot /\ slotTxs[x] = "unchecked" /\ slotBundles[x] = "some"
  BY DEF ToCheck
<1>2. PICK m \in Slot : slotTxs[m] # "absent" /\ x + MarkLag <= m
  BY DEF ToCheck, Detected
<1>3. m <= frontier /\ x \notin missed
  BY <1>1, <1>2 DEF DetectorInv, RowsBehindFrontier, TypeInv, TypeOK
<1>4. DetectLag \in Nat /\ DetectLag <= MarkLag
  BY PipelineAssumption DEF Orderly, CalmStore
<1>5. frontier \in Int
  BY DEF TypeInv, TypeOK
<1> QED BY <1>1, <1>2, <1>3, <1>4, <1>5 DEF Due, TxFinal, RowFinal

(* What the detector does to the tables.                                   *)
LEMMA DetectorWrites ==
  ASSUME TypeInv, Detect \/ DetectRetry
  PROVE  /\ ~DetectionOver
         /\ UNCHANGED <<slotBundles, jitoBundles, fetchVars, markVars, lifeVars>>
         /\ frontier <= frontier' /\ frontier' \in Int
         /\ \A x \in Slot : slotTxs'[x] \in {slotTxs[x], "unchecked"}
         /\ \A x \in Slot : RowFinal(x) => slotTxs'[x] = slotTxs[x]
         /\ \A x \in Slot : TxFinal(x) => sandwichTxs'[x] = sandwichTxs[x]
<1> USE DEF TypeInv, TypeOK, TablesTypeOK
<1>0. DetectLag \in Nat
  BY PipelineAssumption
<1>1. CASE Detect
  <2>1. frontier < MaxSlot /\ UNCHANGED <<slotBundles, jitoBundles, fetchVars, markVars, lifeVars>>
    BY <1>1 DEF Detect, StoreRows
  <2>2. PICK top \in (frontier + 1)..MaxSlot, skipped \in SUBSET Missable :
          LET batch == (frontier + 1)..top
              found == {x \in Hit \ (missed \cup skipped) :
                          /\ x <= top /\ x + DetectLag > frontier
                          /\ sandwichTxs[x] = "absent"}
              due == {x \in found :
                        /\ x + DetectLag <= top
                        /\ \A m \in missed \cup skipped : ~Reaches(x, m)}
          IN StoreRows(batch \ skipped, found, due) /\ frontier' = top
    BY <1>1 DEF Detect
  <2>3. frontier <= frontier' /\ frontier' \in Int
    BY <2>2
  <2>4. \A x \in Slot : slotTxs'[x] \in {slotTxs[x], "unchecked"}
    BY <2>2 DEF StoreRows
  <2>5. \A x \in Slot : RowFinal(x) => slotTxs'[x] = slotTxs[x]
    BY <2>2 DEF StoreRows, RowFinal
  <2>6. \A x \in Slot : TxFinal(x) => sandwichTxs'[x] = sandwichTxs[x]
    BY <1>0, <2>2 DEF StoreRows, TxFinal
  <2> QED BY <2>1, <2>3, <2>4, <2>5, <2>6 DEF DetectionOver
<1>2. CASE DetectRetry
  <2>1. /\ RetriesMissed /\ missed # {} /\ UNCHANGED frontier
        /\ UNCHANGED <<slotBundles, jitoBundles, fetchVars, markVars, lifeVars>>
    BY <1>2 DEF DetectRetry, StoreRows
  <2>2. ~DetectionOver /\ ~Closed
    BY <2>1 DEF DetectionOver, Closed
  <2>3. \A x \in Slot : slotTxs'[x] \in {slotTxs[x], "unchecked"}
    BY <1>2 DEF DetectRetry, StoreRows
  <2> QED BY <2>1, <2>2, <2>3 DEF RowFinal, TxFinal
<1> QED BY <1>1, <1>2

(* What is final stays final.                                              *)
LEMMA FinalStays ==
  ASSUME TypeInv, [Next]_vars
  PROVE  /\ DetectionOver => DetectionOver'
         /\ \A x \in Slot : RowFinal(x) => RowFinal(x)'
         /\ \A x \in Slot : TxFinal(x) => TxFinal(x)'
<1>0. DetectLag \in Nat /\ frontier \in Int
  BY PipelineAssumption DEF TypeInv, TypeOK
<1>1. CASE Detect \/ DetectRetry
  BY <1>0, <1>1, DetectorWrites DEF RowFinal, TxFinal, Closed
<1>2. CASE UNCHANGED detVars
  BY <1>2 DEF RowFinal, TxFinal, Closed, DetectionOver
<1> QED
  BY <1>1, <1>2 DEF Next, Quiet, vars, FetchStep, MarkStep, NextRun, Crash

-----------------------------------------------------------------------------
(* The detector's part of the invariant.                                   *)

(* What the rows the detector adds mean for the invariant.                 *)
LEMMA DetectKeepsRows ==
  ASSUME CalmStore, TypeInv, DetectorInv, Detect \/ DetectRetry
  PROVE  RowsBehindFrontier' /\ OnlyHitsStored' /\ DueStored'
<1> USE DEF DetectorInv, RowsBehindFrontier, OnlyHitsStored, DueStored
<1>0. /\ DetectLag \in Nat /\ frontier \in Int /\ StoreFaults = FALSE
      /\ missed \subseteq Missable /\ Missable \subseteq Slot /\ Hit \subseteq Slot
      /\ \A x \in Hit, m \in Missable : Reaches(x, m) => x = m
  BY PipelineAssumption DEF TypeInv, TypeOK, CalmStore
<1>1. CASE Detect
  <2>1. PICK top \in (frontier + 1)..MaxSlot, skipped \in SUBSET Missable :
          LET batch == (frontier + 1)..top
              found == {x \in Hit \ (missed \cup skipped) :
                          /\ x <= top /\ x + DetectLag > frontier
                          /\ sandwichTxs[x] = "absent"}
              due == {x \in found :
                        /\ x + DetectLag <= top
                        /\ \A m \in missed \cup skipped : ~Reaches(x, m)}
          IN /\ skipped \subseteq batch
             /\ StoreRows(batch \ skipped, found, due)
             /\ frontier' = top
             /\ missed' = missed \cup skipped
    BY <1>1 DEF Detect
  <2> DEFINE batch == (frontier + 1)..top
             found == {x \in Hit \ (missed \cup skipped) :
                         /\ x <= top /\ x + DetectLag > frontier
                         /\ sandwichTxs[x] = "absent"}
             due == {x \in found :
                       /\ x + DetectLag <= top
                       /\ \A m \in missed \cup skipped : ~Reaches(x, m)}
  <2>2. PICK stored \in SUBSET found :
          /\ due \subseteq stored
          /\ sandwichTxs' = [x \in Slot |-> IF x \in stored THEN "plain"
                                           ELSE sandwichTxs[x]]
    BY <1>0, <2>1, ZenonT(60) DEF StoreRows
  <2>3. slotTxs' = [x \in Slot |-> IF x \in batch \ skipped THEN "unchecked"
                                   ELSE slotTxs[x]]
    BY <1>0, <2>1 DEF StoreRows
  <2>4. RowsBehindFrontier'
    <3>0. \A x \in missed \cup skipped : x <= top
      BY <1>0, <2>1
    <3> SUFFICES ASSUME NEW x \in Slot, x > top \/ x \in missed \cup skipped
                 PROVE  slotTxs'[x] = "absent"
      BY <2>1, <3>0
    <3>1. x \notin batch \ skipped
      BY <1>0
    <3>2. slotTxs[x] = "absent"
      BY <1>0, <2>1
    <3> QED BY <2>3, <3>1, <3>2
  <2>5. OnlyHitsStored'
    BY <2>2
  <2>6. DueStored'
    <3> SUFFICES ASSUME NEW x \in Hit, x \notin missed', x + DetectLag <= frontier'
                 PROVE  sandwichTxs'[x] # "absent"
      OBVIOUS
    <3>1. x \in Slot /\ x <= top /\ x \notin missed \cup skipped
      BY <1>0, <2>1
    <3>2. CASE x + DetectLag <= frontier \/ sandwichTxs[x] # "absent"
      <4>1. sandwichTxs[x] # "absent"
        BY <3>1, <3>2
      <4> QED BY <2>2, <3>1, <4>1
    <3>3. CASE ~(x + DetectLag <= frontier) /\ sandwichTxs[x] = "absent"
      <4>1. \A m \in missed \cup skipped : ~Reaches(x, m)
        BY <1>0, <3>1
      <4>2. x \in found
        BY <1>0, <3>1, <3>3
      <4>3. x \in due
        BY <2>1, <4>1, <4>2
      <4> QED BY <2>2, <3>1, <4>3
    <3> QED BY <3>2, <3>3
  <2> QED BY <2>4, <2>5, <2>6
<1>2. CASE DetectRetry
  <2>1. /\ missed' = {} /\ UNCHANGED frontier /\ frontier = MaxSlot
        /\ slotTxs' = [x \in Slot |-> IF x \in missed THEN "unchecked"
                                     ELSE slotTxs[x]]
    BY <1>0, <1>2 DEF DetectRetry, StoreRows
  <2>2. PICK found, due :
          /\ found \subseteq Hit /\ missed \cap Hit \subseteq due
          /\ StoreRows(missed, found, due)
    <3> DEFINE across == {x \in Hit : /\ x + DetectLag > frontier
                                     /\ sandwichTxs[x] = "absent"
                                     /\ \E m \in missed : Reaches(x, m)}
    <3>1. StoreRows(missed, (missed \cap Hit) \cup across, missed \cap Hit)
      BY <1>2, Zenon DEF DetectRetry
    <3> QED BY <3>1
  <2>3. PICK stored \in SUBSET found :
          /\ due \subseteq stored
          /\ sandwichTxs' = [x \in Slot |-> IF x \in stored THEN "plain"
                                           ELSE sandwichTxs[x]]
    BY <1>0, <2>2 DEF StoreRows
  <2> QED BY <1>0, <2>1, <2>2, <2>3
<1> QED BY <1>1, <1>2

LEMMA DetectorInvStep ==
  ASSUME Orderly, TypeInv, FlagInv, LedgerInv, [Next]_vars
  PROVE  DetectorInv'
<1> USE DEF LedgerInv
<1>1. \A x \in Slot : TxFinal(x) => TxFinal(x)'
  BY FinalStays
<1>2. CASE Detect \/ DetectRetry
  <2>1. JudgedRight'
    BY <1>1, <1>2, DetectorWrites DEF DetectorInv, JudgedRight
  <2> QED BY <1>2, <2>1, DetectKeepsRows DEF DetectorInv, Orderly
<1>3. CASE UNCHANGED <<slotTxs, sandwichTxs, detVars>>
  BY <1>1, <1>3
     DEF DetectorInv, RowsBehindFrontier, OnlyHitsStored, DueStored, JudgedRight
<1>4. CASE MarkStep /\ UpdateInBundle
  <2>1. /\ UNCHANGED <<slotTxs, detVars>>
        /\ \A x \in Slot : sandwichTxs'[x] \in {sandwichTxs[x], "inBundle"}
        /\ \A x \in Slot : sandwichTxs'[x] = "absent" <=> sandwichTxs[x] = "absent"
    BY <1>4 DEF MarkStep, UpdateInBundle, UpdateSandwichTxsInBundle
  <2>2. RowsBehindFrontier' /\ OnlyHitsStored'
    BY <2>1 DEF DetectorInv, RowsBehindFrontier, OnlyHitsStored
  <2>3. DueStored'
    <3> SUFFICES ASSUME NEW x \in Hit, x \notin missed', x + DetectLag <= frontier'
                 PROVE  sandwichTxs'[x] # "absent"
      BY DEF DueStored
    <3>1. x \in Slot /\ x \notin missed /\ x + DetectLag <= frontier
      BY <2>1
    <3>2. sandwichTxs[x] # "absent"
      BY <3>1 DEF DetectorInv, DueStored
    <3> QED BY <2>1, <3>1, <3>2
  <2>4. JudgedRight'
    <3> SUFFICES ASSUME NEW x \in Slot, slotTxs'[x] = "checked"
                 PROVE  TxFinal(x)' /\ (x \in Hit => sandwichTxs'[x] = "inBundle")
      BY DEF JudgedRight
    <3>1. TxFinal(x) /\ (x \in Hit => sandwichTxs[x] = "inBundle")
      BY <2>1 DEF DetectorInv, JudgedRight
    <3>2. sandwichTxs'[x] \in {sandwichTxs[x], "inBundle"}
      BY <2>1
    <3> QED BY <1>1, <3>1, <3>2
  <2> QED BY <2>2, <2>3, <2>4 DEF DetectorInv
<1>5. CASE MarkStep /\ CheckSlots
  <2>1. UNCHANGED <<sandwichTxs, detVars>> /\ mpc = "check"
    BY <1>5 DEF MarkStep, CheckSlots
  <2>2. \A x \in Slot : slotTxs[x] = "absent" => slotTxs'[x] = "absent"
    BY <1>5 DEF MarkStep, CheckSlots, UpdateSlotTxsCheckInBundle
  <2>3. \A x \in Slot : slotTxs'[x] = "checked" => slotTxs[x] = "checked" \/ x \in slots
    BY <1>5 DEF MarkStep, CheckSlots, UpdateSlotTxsCheckInBundle
  <2>4. Closed
    BY <2>1, MarkingIsClosed
  <2>5. ASSUME NEW x \in slots
        PROVE  TxFinal(x) /\ (x \in Hit => sandwichTxs[x] = "inBundle")
    <3>1. x \in ToCheck
      BY <2>1 DEF MarkInv, BatchLowest
    <3>2. TxFinal(x) /\ x \notin missed
      BY <2>4, <3>1, DueIsFinal
    <3>3. x \in Hit => x \in hits
      BY <2>1, <3>2 DEF MarkInv, BatchRead, DetectorInv, DueStored, TxFinal
    <3> QED BY <2>1, <3>2, <3>3 DEF FlagInv, HitsFlagged
  <2>6. JudgedRight'
    BY <1>1, <2>1, <2>3, <2>5 DEF DetectorInv, JudgedRight
  <2> QED
    BY <2>1, <2>2, <2>6
       DEF DetectorInv, RowsBehindFrontier, OnlyHitsStored, DueStored
<1> QED
  BY <1>2, <1>3, <1>4, <1>5
     DEF Next, Quiet, vars, FetchStep, FetchNext, StartBatch, Fetch, Record,
         Advance, LeaveLoop, Refetch, Rerecord, OverrideFrontier, FetchExit,
         MarkStep, MarkNext, QuerySlots, TryStop, ReadBundles, ReadSandwiches,
         DropEpoch, DropsDone, NextRun, Crash

-----------------------------------------------------------------------------
(* The fetch task's part.                                                  *)

LEMMA AnswersStored ==
  ASSUME CalmStore, TypeInv, RecordsTrue, AnswersHeld, NEW ahead, FetchNext(ahead)
  PROVE  RecordsTrue' /\ AnswersHeld' /\ jitoBundles \subseteq jitoBundles'
<1> USE DEF RecordsTrue, AnswersHeld
<1>0. StoreFaults = FALSE /\ slotBundles \in [Slot -> {"absent", "empty", "some"}]
      /\ got \subseteq Slot /\ remaining \subseteq Slot /\ failed \subseteq Slot
  BY DEF CalmStore, TypeInv, TypeOK, TablesTypeOK, FetchTypeOK
<1>1. ASSUME NEW todo \in SUBSET Slot, NEW recovered,
             FetchSlotsParallel(todo, recovered), UNCHANGED slotBundles
      PROVE  RecordsTrue' /\ AnswersHeld' /\ jitoBundles \subseteq jitoBundles'
  <2>1. \A x \in got' : x \in todo /\ x \notin AlreadyFetched(todo)
    BY <1>0, <1>1 DEF FetchSlotsParallel
  <2>2. jitoBundles' = jitoBundles \cup (got' \cap Bundled)
    BY <1>0, <1>1 DEF FetchSlotsParallel, InsertJitoBundles
  <2>3. \A x \in got' \cap Bundled : slotBundles[x] = "absent"
    BY <1>0, <2>1 DEF AlreadyFetched
  <2> QED BY <1>1, <2>2, <2>3
<1>2. ASSUME InsertSlotBundles(got), fpc' \notin {"record", "rerecord"},
             UNCHANGED jitoBundles
      PROVE  RecordsTrue' /\ AnswersHeld' /\ jitoBundles \subseteq jitoBundles'
  BY <1>0, <1>2 DEF InsertSlotBundles
<1>3. CASE Fetch
  BY <1>0, <1>1, <1>3 DEF Fetch
<1>4. CASE Refetch
  BY <1>0, <1>1, <1>4 DEF Refetch
<1>5. CASE Record
  BY <1>2, <1>5 DEF Record
<1>6. CASE Rerecord
  BY <1>2, <1>6 DEF Rerecord
<1> QED
  BY <1>3, <1>4, <1>5, <1>6
     DEF FetchNext, StartBatch, Advance, LeaveLoop, OverrideFrontier, FetchExit

LEMMA LiveFetchAscends ==
  ASSUME CalmStore, LivePlan, TypeInv, LiveAscends, NEW ahead, FetchNext(ahead),
         UNCHANGED mpc
  PROVE  LiveAscends'
<1>0. /\ StoreFaults = FALSE /\ EndSlot = 0 /\ (Flaky # {} => Recovers)
      /\ slotBundles \in [Slot -> {"absent", "empty", "some"}]
      /\ s \in Start..(MaxSlot + 1) /\ batchEnd \in Start..(MaxSlot + 1)
      /\ Start \in Nat /\ attempt \in 0..MaxAttempts
  BY SlotsAreNat
     DEF CalmStore, LivePlan, TypeInv, TypeOK, TablesTypeOK, FetchTypeOK
<1>1. /\ mpc' \notin {"empty", "last"}
      /\ \A x, y \in Slot : Recorded(y) /\ x < y =>
           x < Start \/ Recorded(x) \/ EpochOf(x) = EpochOf(y)
      /\ \A x \in Slot : x < Start => ~Recorded(x)
  BY DEF LiveAscends
<1>2. CASE StartBatch(ahead)
  <2>1. PICK c \in 0..MaxSlot, b \in Start..(MaxSlot + 1) :
          IsBatchEnd(b, c) /\ batchEnd' = b /\ remaining' = s..(b - 1)
    BY <1>2 DEF StartBatch
  <2>2. batchEnd' <= s + BatchNum
    BY <2>1 DEF IsBatchEnd, BatchBound
  <2>3. /\ fpc = "loop" /\ fpc' = "call" /\ got' = got /\ s' = s
        /\ UNCHANGED slotBundles
    BY <1>2 DEF StartBatch
  <2> QED BY <1>0, <1>1, <2>1, <2>2, <2>3 DEF LiveAscends, Recorded
<1>3. CASE Fetch
  <2>1. PICK bad \in SUBSET ((remaining \ AlreadyFetched(remaining)) \cap Flaky) :
          /\ Recovers /\ attempt + 1 = MaxAttempts => bad = {}
          /\ remaining' = bad
          /\ got' = (remaining \ AlreadyFetched(remaining)) \ bad
    BY <1>0, <1>3 DEF Fetch, FetchSlotsParallel
  <2>2. /\ fpc = "call" /\ fpc' = "record" /\ UNCHANGED <<slotBundles, s, batchEnd>>
        /\ attempt' = attempt + 1
    BY <1>3 DEF Fetch
  <2>3. /\ batchEnd <= s + BatchNum /\ remaining \subseteq s..(batchEnd - 1)
        /\ \A x \in s..(batchEnd - 1) : Recorded(x) \/ x \in remaining
    BY <2>2 DEF LiveAscends
  <2>4. remaining' \cup got' \subseteq s..(batchEnd - 1)
    BY <2>1, <2>3
  <2>5. \A x \in s..(batchEnd - 1) : Recorded(x) \/ x \in remaining' \cup got'
    BY <2>1, <2>3 DEF AlreadyFetched, Recorded
  <2>6. remaining' \subseteq Flaky /\ (attempt' = MaxAttempts => remaining' = {})
    BY <1>0, <2>1, <2>2
  <2> QED BY <1>1, <2>2, <2>3, <2>4, <2>5, <2>6 DEF LiveAscends, Recorded
<1>4. CASE Record
  <2>1. /\ fpc = "record" /\ UNCHANGED <<s, batchEnd, remaining, attempt>> /\ got' = {}
        /\ fpc' = IF MoreAttempts THEN "call" ELSE "advance"
    BY <1>4 DEF Record
  <2>2. \A x \in Slot : Recorded(x)' <=> Recorded(x) \/ x \in got
    BY <1>0, <1>4 DEF Record, InsertSlotBundles, Recorded
  <2>3. /\ batchEnd <= s + BatchNum /\ remaining \cup got \subseteq s..(batchEnd - 1)
        /\ remaining \subseteq Flaky
        /\ \A x \in s..(batchEnd - 1) : Recorded(x) \/ x \in remaining \cup got
        /\ \A x \in Start..(s - 1) : Recorded(x)
    BY <2>1 DEF LiveAscends
  <2>4. s..(batchEnd - 1) \subseteq Slot /\ Start..(s - 1) \subseteq Slot
    BY <1>0
  <2>5. /\ \A x \in Start..(s - 1) : Recorded(x)'
        /\ \A x \in s..(batchEnd - 1) : Recorded(x)' \/ x \in remaining
    BY <2>2, <2>3, <2>4
  <2>6. \A x \in Slot : x < Start => ~Recorded(x)'
    BY <1>0, <1>1, <2>2, <2>3
  <2>7. \A x, y \in Slot : Recorded(y)' /\ x < y =>
          x < Start \/ Recorded(x)' \/ EpochOf(x) = EpochOf(y)
    <3> SUFFICES ASSUME NEW x \in Slot, NEW y \in Slot, Recorded(y)', x < y,
                        ~(x < Start), ~Recorded(x)'
                 PROVE  EpochOf(x) = EpochOf(y)
      OBVIOUS
    <3>1. CASE Recorded(y)
      BY <1>1, <2>2, <3>1
    <3>2. CASE y \in got
      <4>1. x \in remaining /\ x \in Flaky /\ y < x + BatchNum
        BY <1>0, <2>3, <2>5, <3>2
      <4>2. EpochOf(x + BatchNum - 1) = EpochOf(x)
        BY <4>1 DEF LivePlan
      <4>3. x \in Nat /\ y \in Nat /\ BatchNum \in Nat /\ x <= y /\ y <= x + BatchNum - 1
        BY <4>1
      <4>4. EpochOf(x) <= EpochOf(y) /\ EpochOf(y) <= EpochOf(x + BatchNum - 1)
        BY <4>3, EpochMonotone
      <4>5. EpochOf(x) \in Nat /\ EpochOf(y) \in Nat
        BY <4>3, EpochIsNat
      <4> QED BY <4>2, <4>4, <4>5
    <3> QED BY <2>2, <3>1, <3>2
  <2>8. fpc' = "advance" => remaining = {}
    BY <1>0, <2>1 DEF LiveAscends, MoreAttempts
  <2> QED
    BY <1>0, <1>1, <2>1, <2>3, <2>5, <2>6, <2>7, <2>8 DEF LiveAscends
<1>5. CASE Advance
  BY <1>0, <1>1, <1>5 DEF Advance, LiveAscends, Recorded
<1>6. CASE FetchExit \/ LeaveLoop \/ Refetch \/ Rerecord \/ OverrideFrontier
  <2>1. fpc \in {"exit", "recall", "rerecord", "override"} \/ EndSlot > 0
    BY <1>6 DEF FetchExit, LeaveLoop, Past, Refetch, Rerecord, OverrideFrontier
  <2>2. fpc \in {"loop", "call", "record", "advance", "off"}
    BY DEF LiveAscends
  <2> QED BY <1>0, <2>1, <2>2
<1> QED BY <1>2, <1>3, <1>4, <1>5, <1>6 DEF FetchNext

(* A process that starts has nothing in its hands.                         *)
LEMMA RestartIsFresh ==
  ASSUME NEW f \in BOOLEAN, NEW m \in BOOLEAN, TypeInv, FetchedInv,
         FetchRestart(f), MarkRestart(m), UNCHANGED <<tables, detVars>>
  PROVE  RecordsTrue' /\ AnswersHeld' /\ (LivePlan => LiveAscends')
<1>1. /\ fpc' \in {"loop", "off"} /\ mpc' \in {"query", "off"}
      /\ s' = Start /\ got' = {}
  BY DEF FetchRestart, FetchStart, MarkRestart
<1> QED
  BY <1>1 DEF FetchedInv, RecordsTrue, AnswersHeld, LiveAscends, Recorded

LEMMA FetchedInvStep ==
  ASSUME Orderly, TypeInv, LedgerInv, [Next]_vars
  PROVE  FetchedInv'
<1>0. /\ FetchedInv /\ LeftBehindUsed /\ CalmStore
      /\ DetectionOver => DetectionOver'
  BY FinalStays DEF Orderly, LedgerInv, MarkInv
<1>1. CASE FetchStep
  <2>1. FetchNext(Runs[run].ahead) /\ UNCHANGED <<markVars, detVars, lifeVars>>
    BY <1>1 DEF FetchStep
  <2>2. RecordsTrue' /\ AnswersHeld'
    BY <1>0, <2>1, AnswersStored DEF FetchedInv
  <2>3. LivePlan => LiveAscends'
    BY <1>0, <2>1, LiveFetchAscends DEF FetchedInv
  <2>4. fpc # "off"
    BY <2>1 DEF FetchNext, StartBatch, Fetch, Record, Advance, LeaveLoop, Refetch,
                Rerecord, OverrideFrontier, FetchExit
  <2>5. StagedPlan => StagedApart'
    BY <1>0, <2>1, <2>4 DEF FetchedInv, StagedApart, Running
  <2> QED BY <2>2, <2>3, <2>5 DEF FetchedInv
<1>2. CASE MarkStep
  <2>1. MarkNext /\ UNCHANGED <<slotBundles, fetchVars, detVars, lifeVars>>
    BY <1>2 DEF MarkStep, MarkNext, QuerySlots, TryStop, ReadBundles,
                ReadSandwiches, UpdateInBundle, CheckSlots, DropEpoch, DropsDone
  <2>2. mpc # "off"
    BY <2>1 DEF MarkNext, QuerySlots, TryStop, ReadBundles,
                ReadSandwiches, UpdateInBundle, CheckSlots, DropEpoch, DropsDone
  <2>3. StagedPlan => fpc = "off"
    BY <1>0, <2>2 DEF FetchedInv, StagedApart
  <2>4. StagedPlan => StagedApart'
    BY <1>0, <2>1, <2>2 DEF FetchedInv, StagedApart, Running, DetectionOver
  <2>5. LivePlan => LiveAscends'
    <3> SUFFICES ASSUME LivePlan PROVE LiveAscends'
      OBVIOUS
    <3>1. mpc' \notin {"empty", "last"}
      BY <1>0, <2>1 DEF FetchedInv, LiveAscends, LivePlan, MarkNext, QuerySlots,
            TryStop, ReadBundles, ReadSandwiches, UpdateInBundle, CheckSlots,
            AfterUpdateError, DropEpoch, DropsDone
    <3> QED BY <1>0, <2>1, <3>1 DEF FetchedInv, LiveAscends, Recorded
  <2>6. AnswersHeld'
    <3>1. CASE DropEpoch
      <4> SUFFICES ASSUME fpc \in {"record", "rerecord"}, NEW x \in got \cap Bundled
                   PROVE  x \in jitoBundles'
        BY <1>0, <2>1 DEF FetchedInv, AnswersHeld
      <4>1. x \in jitoBundles /\ slotBundles[x] = "absent" /\ x \in Slot
        BY <1>0 DEF FetchedInv, AnswersHeld, TypeInv, TypeOK, FetchTypeOK
      <4>2. ~(x < Start)
        BY <1>0, <2>3
           DEF Orderly, FetchedInv, LiveAscends, TypeInv, TypeOK, FetchTypeOK
      <4>3. mpc \in {"drop", "last"} /\ lastDropped < dropTo /\ lastDropped \in Nat
            /\ dropTo \in Nat
        BY <3>1 DEF DropEpoch, TypeInv, TypeOK, MarkTypeOK
      <4>4. EpochOf(x) # lastDropped + 1
        BY <1>0, <4>1, <4>2, <4>3 DEF LeftBehindUsed, Recorded
      <4> QED
        BY <1>0, <3>1, <4>1, <4>4
           DEF DropEpoch, DropJitoBundlesEpochPartition, Partition, CalmStore
    <3>2. CASE UNCHANGED jitoBundles
      BY <1>0, <2>1, <3>2 DEF FetchedInv, AnswersHeld
    <3> QED
      BY <2>1, <3>1, <3>2 DEF MarkNext, QuerySlots, TryStop, ReadBundles,
         ReadSandwiches, UpdateInBundle, CheckSlots, DropsDone
  <2> QED BY <1>0, <2>1, <2>4, <2>5, <2>6 DEF FetchedInv, RecordsTrue
<1>3. CASE Detect \/ DetectRetry
  <2>1. UNCHANGED <<slotBundles, jitoBundles, fetchVars, markVars, lifeVars>>
    BY <1>3, DetectorWrites
  <2> QED
    BY <1>0, <2>1 DEF FetchedInv, RecordsTrue, AnswersHeld, StagedApart, Running,
                      LiveAscends, Recorded
<1>4. CASE NextRun
  <2>1. UNCHANGED <<tables, detVars>> /\ fpc = "off" /\ mpc = "off"
        /\ run' = run + 1 /\ run \in 1..Len(Runs) /\ Len(Runs) \in Nat
    BY <1>4, RunTyped DEF NextRun, Ended, Running, TypeInv, TypeOK
  <2>2. CASE run < Len(Runs)
    <3>1. run + 1 \in 1..Len(Runs)
      BY <2>1, <2>2
    <3>2. /\ Runs[run + 1].fetch \in BOOLEAN /\ Runs[run + 1].mark \in BOOLEAN
          /\ FetchRestart(Runs[run + 1].fetch) /\ MarkRestart(Runs[run + 1].mark)
          /\ Runs[run + 1].settled => DetectionOver
      BY <1>4, <2>2, <3>1, RunTyped DEF NextRun
    <3>3. RecordsTrue' /\ AnswersHeld' /\ (LivePlan => LiveAscends')
      BY <1>0, <2>1, <3>2, RestartIsFresh
    <3>4. StagedPlan => StagedApart'
      BY <1>0, <2>1, <3>1, <3>2
         DEF StagedPlan, StagedApart, Running, FetchRestart, FetchStart, MarkRestart
    <3> QED BY <3>3, <3>4 DEF FetchedInv
  <2>3. CASE ~(run < Len(Runs))
    <3>1. UNCHANGED <<tables, fetchVars, markVars, detVars>> /\ ~Running'
      BY <1>4, <2>1, <2>3 DEF NextRun, Running
    <3> QED
      BY <1>0, <2>1, <3>1 DEF FetchedInv, RecordsTrue, AnswersHeld, StagedApart,
                              LiveAscends, Recorded
  <2> QED BY <2>2, <2>3
<1>5. CASE Crash
  <2>1. UNCHANGED <<tables, detVars, run>> /\ Running /\ run \in 1..Len(Runs)
        /\ (fpc # "off" \/ mpc # "off")
        /\ FetchRestart(Runs[run].fetch) /\ MarkRestart(Runs[run].mark)
    BY <1>5, RunTyped DEF Crash, Ended, Running, TypeInv, TypeOK
  <2>2. Runs[run].fetch \in BOOLEAN /\ Runs[run].mark \in BOOLEAN
    BY <2>1, RunTyped
  <2>3. RecordsTrue' /\ AnswersHeld' /\ (LivePlan => LiveAscends')
    BY <1>0, <2>1, <2>2, RestartIsFresh
  <2>4. StagedPlan => StagedApart'
    BY <1>0, <2>1
       DEF FetchedInv, StagedPlan, StagedApart, Running, FetchRestart, FetchStart,
           MarkRestart
  <2> QED BY <2>3, <2>4 DEF FetchedInv
<1>6. CASE UNCHANGED vars
  BY <1>0, <1>6 DEF vars, FetchedInv, RecordsTrue, AnswersHeld, StagedApart, Running,
                    LiveAscends, Recorded, DetectionOver
<1> QED
  BY <1>1, <1>2, <1>3, <1>4, <1>5, <1>6 DEF Next, Quiet

-----------------------------------------------------------------------------
(* The mark task's part.                                                   *)

(* LIMIT takes the oldest slots: below a slot of the answer nothing that   *)
(* satisfies the query is left out ...                                     *)
LEMMA LimitTakesOldest ==
  ASSUME NEW x \in SlotsToCheck, NEW y \in ToCheck, y < x
  PROVE  y \in SlotsToCheck
<1> DEFINE Below(z) == {w \in ToCheck : w < z}
<1>1. ToCheck \subseteq MinSlot..MaxSlot
  BY DEF ToCheck
<1>2. IsFiniteSet(MinSlot..MaxSlot)
  BY FS_Interval
<1>3. IsFiniteSet(Below(x)) /\ IsFiniteSet(Below(y))
  BY <1>1, <1>2, FS_Subset
<1>4. Below(y) \subseteq Below(x)
  <2>1. x \in ToCheck
    BY DEF SlotsToCheck
  <2>2. ASSUME NEW w \in ToCheck, w < y
        PROVE  w < x
    BY <1>1, <2>1, <2>2
  <2> QED BY <2>2
<1>5. /\ Cardinality(Below(y)) <= Cardinality(Below(x))
      /\ Cardinality(Below(x)) \in Nat /\ Cardinality(Below(y)) \in Nat
  BY <1>3, <1>4, FS_Subset, FS_CardinalityType
<1>6. Cardinality(Below(x)) < MarkLimit
  BY DEF SlotsToCheck
<1> HIDE DEF Below
<1>7. Cardinality(Below(y)) < MarkLimit
  BY <1>5, <1>6
<1> QED BY <1>7 DEF Below, SlotsToCheck

(* ... and an empty answer means that no slot satisfies it.                *)
LEMMA EmptyAnswer ==
  ASSUME SlotsToCheck = {}
  PROVE  ToCheck = {}
<1> SUFFICES ASSUME ToCheck # {} PROVE FALSE
  OBVIOUS
<1> DEFINE R == OpToRel(<, Nat)
<1>1. ToCheck \subseteq Nat
  BY DEF ToCheck
<1>2. IsWellFoundedOn(R, Nat)
  BY NatLessThanWellFounded
<1>3. PICK x \in ToCheck : \A y \in ToCheck : <<y, x>> \notin R
  <2> HIDE DEF R
  <2> QED BY <1>1, <1>2, WFMin
<1>4. {y \in ToCheck : y < x} = {}
  BY <1>1, <1>3 DEF OpToRel
<1>5. Cardinality({y \in ToCheck : y < x}) = 0
  BY <1>4, FS_EmptySet
<1>6. x \in SlotsToCheck
  BY <1>5 DEF SlotsToCheck
<1> QED BY <1>6

(* The cap never raises the epoch to drop to, ...                          *)
LEMMA CapLowers ==
  ASSUME TypeInv, NEW epoch \in Int
  PROVE  CapEpoch(epoch) <= epoch /\ CapEpoch(epoch) \in Int
<1>1. EpochOf(fetchedThrough + 1) \in Nat
  BY EpochIsNat, SMTT(30) DEF TypeInv, TypeOK, FetchTypeOK
<1> QED BY <1>1 DEF CapEpoch

(* ... and at the end of a run keeps it within the range that was fetched. *)
LEMMA CapAtEnd ==
  ASSUME fetchedThrough = EndSlot, EndSlot > 0, NEW x \in Slot,
         0 < EpochOf(x), EpochOf(x) <= CapEpoch(EpochOf(EndSlot))
  PROVE  x <= EndSlot
<1>1. x \in Nat /\ EndSlot \in Nat
  BY SlotsAreNat
<1>2. EpochOf(EndSlot) \in Nat /\ EpochOf(EndSlot + 1) \in Nat /\ EpochOf(x) \in Nat
  BY <1>1, EpochIsNat
<1>3. EpochOf(EndSlot) <= EpochOf(EndSlot + 1)
  BY <1>1, EpochMonotone
<1>4. EpochOf(x) < EpochOf(EndSlot + 1)
  BY <1>2, <1>3 DEF CapEpoch
<1>5. ~(EndSlot + 1 <= x)
  BY <1>1, <1>2, <1>4, EpochMonotone
<1> QED BY <1>1, <1>5

(* What the fetch task recorded it does not record anew.                   *)
LEMMA RecordedStays ==
  ASSUME TypeInv, RecordsTrue, AnswersHeld, NEW ahead, FetchNext(ahead)
  PROVE  \A x \in Slot :
           \/ slotBundles'[x] = slotBundles[x]
           \/ ~Recorded(x) /\ (slotBundles'[x] = "some" => x \in jitoBundles)
<1> USE DEF RecordsTrue, AnswersHeld, Recorded
<1>0. slotBundles \in [Slot -> {"absent", "empty", "some"}]
  BY DEF TypeInv, TypeOK, TablesTypeOK
<1>1. ASSUME InsertSlotBundles(got), fpc \in {"record", "rerecord"}
      PROVE  \A x \in Slot :
           \/ slotBundles'[x] = slotBundles[x]
           \/ ~Recorded(x) /\ (slotBundles'[x] = "some" => x \in jitoBundles)
  BY <1>0, <1>1 DEF InsertSlotBundles
<1> QED
  BY <1>1 DEF FetchNext, StartBatch, Fetch, Record, Advance, LeaveLoop, Refetch,
              Rerecord, OverrideFrontier, FetchExit

LEMMA FetchKeepsMark ==
  ASSUME Orderly, TypeInv, LedgerInv, FetchedInv', FetchStep
  PROVE  MarkInv'
<1>1. FetchNext(Runs[run].ahead)
      /\ UNCHANGED <<slotTxs, sandwichTxs, markVars, detVars, lifeVars>>
  BY DEF FetchStep, FetchNext, StartBatch, Fetch, Record, Advance, LeaveLoop,
         Refetch, Rerecord, OverrideFrontier, FetchExit
<1>2. fpc # "off"
  BY <1>1 DEF FetchNext, StartBatch, Fetch, Record, Advance, LeaveLoop, Refetch,
              Rerecord, OverrideFrontier, FetchExit
<1>3. DetectorInv /\ FetchedInv /\ MarkInv /\ CalmStore
  BY DEF LedgerInv, Orderly
<1>4. /\ jitoBundles \subseteq jitoBundles'
      /\ \A x \in Slot :
           \/ slotBundles'[x] = slotBundles[x]
           \/ ~Recorded(x) /\ (slotBundles'[x] = "some" => x \in jitoBundles)
  BY <1>1, <1>3, AnswersStored, RecordedStays DEF FetchedInv
<1>5. UnusedHeld'
  BY <1>1, <1>3, <1>4 DEF MarkInv, UnusedHeld, RowFinal, Closed, DetectionOver
<1>6. CASE mpc = "off"
  BY <1>1, <1>5, <1>6 DEF MarkInv, BatchLowest, BatchRead, NothingDue, LeftBehindUsed
<1>7. CASE mpc # "off"
  <2>1. LiveAscends /\ LiveAscends'
    BY <1>2, <1>3, <1>7 DEF Orderly, FetchedInv, StagedApart
  <2>2. \A x \in Slot : x < Start \/ Recorded(x) => Due(x)' = Due(x)
    <3> SUFFICES ASSUME NEW x \in Slot, x < Start \/ Recorded(x)
                 PROVE  Due(x)' = Due(x)
      OBVIOUS
    <3>1. CASE x < Start
      BY <2>1, <3>1 DEF LiveAscends, Recorded, Due
    <3>2. CASE Recorded(x)
      BY <1>1, <1>4, <3>2 DEF Recorded, Due
    <3> QED BY <3>1, <3>2
  <2>3. ASSUME mpc \in {"bundles", "sandwiches", "update", "check"}, NEW x \in slots
        PROVE  x \in ToCheck /\ x \in Slot /\ Recorded(x)
    BY <1>3, <2>3 DEF MarkInv, BatchLowest, ToCheck, Recorded
  <2>4. BatchLowest'
    <3> SUFFICES ASSUME mpc \in {"bundles", "sandwiches", "update", "check"}
                 PROVE  /\ slots \subseteq ToCheck'
                        /\ \A x \in slots, y \in Slot : y < x /\ Due(y)' =>
                             y \in slots \/ EpochOf(y) = EpochOf(x)
      BY <1>1 DEF BatchLowest
    <3>1. ASSUME NEW x \in slots
          PROVE  x \in ToCheck'
      <4>1. Due(x)' /\ x \in Slot
        BY <2>2, <2>3 DEF ToCheck, Due
      <4> QED BY <1>1, <2>3, <4>1 DEF ToCheck, Detected, Due
    <3>2. ASSUME NEW x \in slots, NEW y \in Slot, y < x, Due(y)'
          PROVE  y \in slots \/ EpochOf(y) = EpochOf(x)
      <4>1. Due(y) \/ EpochOf(y) = EpochOf(x)
        BY <2>1, <2>2, <2>3, <3>2 DEF LiveAscends
      <4> QED BY <1>3, <3>2, <4>1 DEF MarkInv, BatchLowest
    <3> QED BY <3>1, <3>2
  <2>5. BatchRead'
    BY <1>1, <1>3 DEF MarkInv, BatchRead
  <2>6. NothingDue'
    BY <1>1, <2>1 DEF LiveAscends, NothingDue
  <2>7. LeftBehindUsed'
    <3> SUFFICES ASSUME mpc \in {"drop", "last"}, NEW x \in Slot,
                        lastDropped < EpochOf(x), EpochOf(x) <= dropTo
                 PROVE  /\ ~Due(x)' /\ RowFinal(x)'
                        /\ fpc' = "off" \/ x < Start \/ Recorded(x)'
      BY <1>1 DEF LeftBehindUsed
    <3>1. ~Due(x) /\ RowFinal(x) /\ (x < Start \/ Recorded(x))
      BY <1>2, <1>3 DEF MarkInv, LeftBehindUsed
    <3>2. ~Due(x)' /\ RowFinal(x)'
      BY <1>1, <2>2, <3>1 DEF RowFinal, Closed, DetectionOver
    <3>3. x < Start \/ Recorded(x)'
      BY <1>4, <2>1, <3>1 DEF Recorded, FetchedInv, RecordsTrue, LiveAscends
    <3> QED BY <3>2, <3>3
  <2> QED BY <1>5, <2>4, <2>5, <2>6, <2>7 DEF MarkInv
<1> QED BY <1>6, <1>7

LEMMA DetectKeepsMark ==
  ASSUME Orderly, TypeInv, LedgerInv, Detect \/ DetectRetry
  PROVE  MarkInv'
<1>1. /\ ~DetectionOver
      /\ UNCHANGED <<slotBundles, jitoBundles, fetchVars, markVars, lifeVars>>
      /\ frontier <= frontier' /\ frontier' \in Int
      /\ \A x \in Slot : slotTxs'[x] \in {slotTxs[x], "unchecked"}
      /\ \A x \in Slot : RowFinal(x) => slotTxs'[x] = slotTxs[x]
      /\ \A x \in Slot : TxFinal(x) => sandwichTxs'[x] = sandwichTxs[x]
  BY DetectorWrites
<1>2. \A x \in Slot : RowFinal(x) => RowFinal(x)'
  <2>1. [Next]_vars
    BY DEF Next
  <2> QED BY <2>1, FinalStays
<1>3. DetectorInv /\ FetchedInv /\ MarkInv
  BY DEF LedgerInv
<1>4. UnusedHeld'
  <2> SUFFICES ASSUME NEW x \in Slot, slotBundles[x] = "some", slotTxs'[x] # "checked"
               PROVE  x \in jitoBundles \/ (slotTxs'[x] = "absent" /\ RowFinal(x)')
    BY <1>1 DEF UnusedHeld
  <2>1. CASE RowFinal(x)
    BY <1>1, <1>2, <1>3, <2>1 DEF MarkInv, UnusedHeld
  <2>2. CASE ~RowFinal(x)
    <3>1. slotTxs[x] # "checked"
      <4>1. ~TxFinal(x)
        BY <2>2, PipelineAssumption DEF TxFinal, RowFinal, TypeInv, TypeOK
      <4> QED BY <1>3, <4>1 DEF DetectorInv, JudgedRight
    <3> QED BY <1>3, <2>2, <3>1 DEF MarkInv, UnusedHeld
  <2> QED BY <2>1, <2>2
<1>5. CASE mpc = "off"
  BY <1>1, <1>4, <1>5 DEF MarkInv, BatchLowest, BatchRead, NothingDue, LeftBehindUsed
<1>6. CASE mpc # "off"
  <2>1. Closed /\ LiveAscends
    BY <1>1, <1>3, <1>6, MarkingIsClosed DEF Orderly, FetchedInv, StagedApart
  <2>2. \A x \in Slot : RowFinal(x) => Due(x)' = Due(x)
    BY <1>1 DEF Due
  <2>3. ASSUME mpc \in {"bundles", "sandwiches", "update", "check"}, NEW x \in slots
        PROVE  x \in ToCheck /\ x \in Slot /\ RowFinal(x) /\ TxFinal(x)
    <3>1. x \in ToCheck
      BY <1>3, <2>3 DEF MarkInv, BatchLowest
    <3> QED BY <1>3, <2>1, <3>1, DueIsFinal
  <2>4. BatchLowest'
    <3> SUFFICES ASSUME mpc \in {"bundles", "sandwiches", "update", "check"}
                 PROVE  /\ slots \subseteq ToCheck'
                        /\ \A x \in slots, y \in Slot : y < x /\ Due(y)' =>
                             y \in slots \/ EpochOf(y) = EpochOf(x)
      BY <1>1 DEF BatchLowest
    <3>1. ASSUME NEW x \in slots
          PROVE  x \in ToCheck'
      <4>1. Due(x)' /\ x \in Slot
        BY <2>2, <2>3 DEF ToCheck, Due
      <4>2. Detected \subseteq Detected'
        BY <1>1 DEF Detected
      <4> QED BY <2>3, <4>1, <4>2 DEF ToCheck, Due
    <3>2. ASSUME NEW x \in slots, NEW y \in Slot, y < x, Due(y)'
          PROVE  y \in slots \/ EpochOf(y) = EpochOf(x)
      <4>1. RowFinal(y)
        BY <2>3, <3>2 DEF RowFinal, TypeInv, TypeOK
      <4> QED BY <1>3, <2>2, <3>2, <4>1 DEF MarkInv, BatchLowest
    <3> QED BY <3>1, <3>2
  <2>5. BatchRead'
    BY <1>1, <1>3, <2>3 DEF MarkInv, BatchRead
  <2>6. NothingDue'
    BY <1>1, <2>1 DEF LiveAscends, NothingDue
  <2>7. LeftBehindUsed'
    BY <1>1, <1>2, <1>3, <2>2 DEF MarkInv, LeftBehindUsed, Recorded
  <2> QED BY <1>4, <2>4, <2>5, <2>6, <2>7 DEF MarkInv
<1> QED BY <1>5, <1>6

(* A step after which the mark task holds no batch and drops nothing.      *)
LEMMA IdleKeepsMark ==
  ASSUME MarkInv, UNCHANGED <<tables, detVars>>, mpc' \in {"query", "off"}
  PROVE  MarkInv'
  BY DEF MarkInv, UnusedHeld, RowFinal, Closed, DetectionOver, BatchLowest,
         BatchRead, NothingDue, LeftBehindUsed

LEMMA StopKeepsMark ==
  ASSUME Orderly, TypeInv, LedgerInv, TryStop, UNCHANGED <<detVars, lifeVars>>
  PROVE  MarkInv'
<1>1. /\ mpc = "empty" /\ UNCHANGED <<tables, fetchVars, slots, bundleTxs, hits, lastDropped>>
      /\ DetectorInv /\ FetchedInv /\ MarkInv
  BY DEF TryStop, LedgerInv
<1>2. CASE ~MayStop
  BY <1>1, <1>2, IdleKeepsMark DEF TryStop
<1>3. CASE MayStop
  <2>1. mpc' = "last" /\ dropTo' = CapEpoch(EpochOf(EndSlot))
    BY <1>3 DEF TryStop
  <2>2. fpc = "off" /\ DetectionOver /\ fetchedThrough = EndSlot
    BY <1>1 DEF Orderly, FetchedInv, LiveAscends, StagedApart
  <2>3. EndSlot > 0 /\ ToCheck = {}
    BY <1>1 DEF MarkInv, NothingDue
  <2>4. PICK m \in Detected : m >= EndSlot + MarkLag
    BY <1>3 DEF MayStop, IsMaxSandwichChecked
  <2>5. ASSUME NEW x \in Slot, lastDropped < EpochOf(x), EpochOf(x) <= dropTo'
        PROVE  ~Due(x) /\ RowFinal(x)
    <3>1. 0 < EpochOf(x)
      <4>1. lastDropped \in Nat /\ EpochOf(x) \in Nat
        <5>1. lastDropped \in Nat
          BY <1>1 DEF TypeInv, TypeOK, MarkTypeOK
        <5>2. x \in Nat
          BY <2>5
        <5> QED BY <5>1, <5>2, EpochIsNat
      <4> QED BY <2>5, <4>1
    <3>2. x <= EndSlot
      BY <2>1, <2>2, <2>3, <2>5, <3>1, CapAtEnd
    <3>3. m \in Slot /\ x + MarkLag <= m
      BY <2>4, <3>2 DEF Detected
    <3>4. ~Due(x)
      BY <2>3, <2>4, <3>3 DEF ToCheck, Due
    <3> QED BY <2>2, <3>4 DEF RowFinal, Closed, DetectionOver
  <2>6. LeftBehindUsed'
    BY <1>1, <2>2, <2>5 DEF LeftBehindUsed, Due, RowFinal, Closed, DetectionOver
  <2> QED
    BY <1>1, <2>1, <2>3, <2>6 DEF MarkInv, UnusedHeld, RowFinal, Closed,
       DetectionOver, BatchLowest, BatchRead, NothingDue
<1> QED BY <1>2, <1>3

LEMMA CheckKeepsMark ==
  ASSUME Orderly, TypeInv, LedgerInv, CheckSlots, UNCHANGED <<detVars, lifeVars>>
  PROVE  MarkInv'
<1>1. /\ mpc = "check" /\ StoreFaults = FALSE
      /\ UNCHANGED <<sandwichTxs, slotBundles, jitoBundles, fetchVars, lastDropped>>
      /\ DetectorInv /\ FetchedInv /\ MarkInv
      /\ slotTxs \in [Slot -> {"absent", "unchecked", "checked"}]
  BY DEF CheckSlots, LedgerInv, Orderly, CalmStore, TypeInv, TypeOK, TablesTypeOK
<1>2. PICK last \in slots :
        /\ \A x \in slots : x <= last
        /\ IF EpochOf(last) > 0
           THEN mpc' = "drop" /\ dropTo' = CapEpoch(LeftBehind(last))
           ELSE mpc' = "query" /\ UNCHANGED dropTo
  BY <1>1 DEF CheckSlots
<1>3. slotTxs' = [x \in Slot |-> IF x \in slots /\ slotTxs[x] # "absent"
                                 THEN "checked" ELSE slotTxs[x]]
  BY <1>1 DEF CheckSlots, UpdateSlotTxsCheckInBundle
<1>4. \A x \in Slot : RowFinal(x)' = RowFinal(x)
  BY DEF RowFinal, Closed, DetectionOver
<1>5. UnusedHeld'
  BY <1>1, <1>3, <1>4 DEF MarkInv, UnusedHeld
<1>6. Closed
  BY <1>1, MarkingIsClosed
<1>7. last \in ToCheck /\ last \in Slot /\ RowFinal(last) /\ Due(last)
  <2>1. last \in ToCheck
    BY <1>1 DEF MarkInv, BatchLowest
  <2> QED BY <1>1, <1>6, <2>1, DueIsFinal
<1>8. LeftBehindUsed'
  <2> SUFFICES ASSUME mpc' \in {"drop", "last"}, NEW x \in Slot,
                      lastDropped < EpochOf(x), EpochOf(x) <= dropTo'
               PROVE  /\ ~Due(x)' /\ RowFinal(x)
                      /\ fpc = "off" \/ x < Start \/ Recorded(x)
    BY <1>1, <1>4 DEF LeftBehindUsed, Recorded
  <2>1. x < last /\ EpochOf(x) # EpochOf(last)
    <3>1. x \in Nat /\ last \in Nat /\ EpochOf(x) \in Nat /\ EpochOf(last) \in Nat
      BY <1>7, EpochIsNat
    <3>2. LeftBehind(last) \in Int /\ LeftBehind(last) < EpochOf(last)
      BY <3>1 DEF LeftBehind
    <3>3. dropTo' <= LeftBehind(last) /\ dropTo' \in Int
      BY <1>2, <3>2, CapLowers
    <3>4. EpochOf(x) < EpochOf(last)
      BY <3>1, <3>2, <3>3
    <3>5. ~(last <= x)
      BY <3>1, <3>4, EpochMonotone
    <3> QED BY <3>1, <3>4, <3>5
  <2>2. ~Due(x)'
    <3>1. Due(x) => x \in slots
      BY <1>1, <2>1 DEF MarkInv, BatchLowest
    <3> QED BY <1>1, <1>3, <3>1 DEF Due
  <2>3. RowFinal(x)
    BY <1>7, <2>1 DEF RowFinal, TypeInv, TypeOK
  <2>4. fpc = "off" \/ x < Start \/ Recorded(x)
    BY <1>1, <1>7, <2>1
       DEF Orderly, FetchedInv, StagedApart, LiveAscends, Due, Recorded
  <2> QED BY <2>2, <2>3, <2>4
<1>9. mpc' \in {"drop", "query"}
  BY <1>2
<1> QED BY <1>5, <1>8, <1>9 DEF MarkInv, BatchLowest, BatchRead, NothingDue

LEMMA DropKeepsMark ==
  ASSUME Orderly, TypeInv, LedgerInv, DropEpoch, UNCHANGED <<detVars, lifeVars>>
  PROVE  MarkInv'
<1>1. /\ mpc \in {"drop", "last"} /\ lastDropped < dropTo
      /\ lastDropped' = lastDropped + 1
      /\ UNCHANGED <<slotTxs, sandwichTxs, slotBundles, fetchVars, mpc, slots,
                     bundleTxs, hits, dropTo>>
      /\ jitoBundles' = jitoBundles \ Partition(lastDropped + 1)
      /\ lastDropped \in Nat /\ dropTo \in Nat
      /\ slotTxs \in [Slot -> {"absent", "unchecked", "checked"}]
  BY DEF DropEpoch, DropJitoBundlesEpochPartition, Orderly, CalmStore, TypeInv,
         TypeOK, MarkTypeOK, TablesTypeOK
<1>2. MarkInv
  BY DEF LedgerInv
<1>3. \A x \in Slot : RowFinal(x)' = RowFinal(x)
  BY DEF RowFinal, Closed, DetectionOver
<1>4. \A x \in Slot : EpochOf(x) = lastDropped + 1 => ~Due(x) /\ RowFinal(x)
  BY <1>1, <1>2 DEF MarkInv, LeftBehindUsed
<1>5. UnusedHeld'
  BY <1>1, <1>2, <1>3, <1>4 DEF MarkInv, UnusedHeld, Partition, Due
<1>6. LeftBehindUsed'
  <2>1. \A x \in Slot : EpochOf(x) \in Nat
    BY EpochIsNat
  <2> QED BY <1>1, <1>2, <1>3, <2>1 DEF MarkInv, LeftBehindUsed, Due, Recorded
<1> QED
  BY <1>1, <1>2, <1>5, <1>6 DEF MarkInv, BatchLowest, BatchRead, NothingDue

LEMMA MarkKeepsMark ==
  ASSUME Orderly, TypeInv, FlagInv, LedgerInv, MarkStep
  PROVE  MarkInv'
<1>1. MarkNext /\ UNCHANGED <<detVars, lifeVars>>
  BY DEF MarkStep
<1>2. DetectorInv /\ FetchedInv /\ MarkInv /\ StoreFaults = FALSE
  BY DEF LedgerInv, Orderly, CalmStore
<1>3. \A x \in Slot : RowFinal(x)' = RowFinal(x)
  BY <1>1 DEF RowFinal, Closed, DetectionOver
<1>4. CASE QuerySlots
  <2>1. /\ UNCHANGED <<tables, fetchVars, lastDropped, dropTo>>
        /\ slots' = SlotsToCheck
        /\ IF SlotsToCheck # {} THEN mpc' = "bundles"
           ELSE EndSlot > 0 /\ mpc' = "empty"
    BY <1>4 DEF QuerySlots
  <2>2. ASSUME NEW x \in SlotsToCheck, NEW y \in Slot, y < x, Due(y)
        PROVE  y \in SlotsToCheck
    <3>1. x \in Slot /\ \E m \in Detected : x + MarkLag <= m
      BY DEF SlotsToCheck, ToCheck
    <3>2. \A m \in Detected : m \in Int
      BY DEF Detected
    <3>3. y \in ToCheck
      BY <2>2, <3>1, <3>2 DEF ToCheck, Due
    <3> QED BY <2>2, <3>3, LimitTakesOldest
  <2>3. BatchLowest'
    BY <2>1, <2>2 DEF BatchLowest, SlotsToCheck, ToCheck, Detected, Due
  <2>4. NothingDue'
    BY <2>1, EmptyAnswer DEF NothingDue, ToCheck, Detected
  <2> QED
    BY <1>2, <1>3, <2>1, <2>3, <2>4 DEF MarkInv, UnusedHeld, BatchRead, LeftBehindUsed
<1>5. CASE TryStop
  BY <1>1, <1>5, StopKeepsMark
<1>6. CASE ReadBundles
  <2>1. /\ bundleTxs' = slots \cap jitoBundles /\ mpc' = "sandwiches" /\ mpc = "bundles"
        /\ UNCHANGED <<tables, fetchVars, slots, hits, lastDropped, dropTo>>
    BY <1>2, <1>6 DEF ReadBundles
  <2>2. slots \subseteq jitoBundles
    BY <1>2, <2>1 DEF MarkInv, BatchLowest, UnusedHeld, ToCheck
  <2>3. BatchLowest'
    BY <1>2, <2>1 DEF MarkInv, BatchLowest, ToCheck, Detected, Due
  <2> QED
    BY <1>2, <1>3, <2>1, <2>2, <2>3
       DEF MarkInv, UnusedHeld, BatchRead, NothingDue, LeftBehindUsed
<1>7. CASE ReadSandwiches
  <2>1. /\ hits' = {x \in bundleTxs \cap Hit : sandwichTxs[x] # "absent"}
        /\ mpc' \in {"check", "update"} /\ mpc = "sandwiches"
        /\ UNCHANGED <<tables, fetchVars, slots, bundleTxs, lastDropped, dropTo>>
    BY <1>2, <1>7 DEF ReadSandwiches
  <2>2. BatchLowest'
    BY <1>2, <2>1 DEF MarkInv, BatchLowest, ToCheck, Detected, Due
  <2> QED
    BY <1>2, <1>3, <2>1, <2>2
       DEF MarkInv, UnusedHeld, BatchRead, NothingDue, LeftBehindUsed
<1>8. CASE UpdateInBundle
  <2>1. /\ UpdateSandwichTxsInBundle(hits) /\ mpc' = "check" /\ mpc = "update"
        /\ UNCHANGED <<slotTxs, slotBundles, jitoBundles, fetchVars, slots,
                       bundleTxs, hits, lastDropped, dropTo>>
    BY <1>2, <1>8 DEF UpdateInBundle
  <2>2. BatchLowest'
    BY <1>2, <2>1 DEF MarkInv, BatchLowest, ToCheck, Detected, Due
  <2>3. \A x \in Slot : sandwichTxs'[x] = "absent" <=> sandwichTxs[x] = "absent"
    BY <2>1 DEF UpdateSandwichTxsInBundle
  <2>4. Hit \subseteq Slot
    OBVIOUS
  <2>5. BatchRead'
    BY <1>2, <2>1, <2>3, <2>4 DEF MarkInv, BatchRead
  <2> QED
    BY <1>2, <1>3, <2>1, <2>2, <2>5
       DEF MarkInv, UnusedHeld, NothingDue, LeftBehindUsed
<1>9. CASE CheckSlots
  BY <1>1, <1>9, CheckKeepsMark
<1>10. CASE DropEpoch
  BY <1>1, <1>10, DropKeepsMark
<1>11. CASE DropsDone
  <2>1. UNCHANGED tables /\ mpc' \in {"query", "off"}
    BY <1>11 DEF DropsDone
  <2> QED BY <1>1, <1>2, <2>1, IdleKeepsMark
<1> QED
  BY <1>1, <1>4, <1>5, <1>6, <1>7, <1>8, <1>9, <1>10, <1>11 DEF MarkNext

LEMMA LedgerInvStep ==
  ASSUME Orderly
  PROVE  TypeInv /\ FlagInv /\ LedgerInv /\ [Next]_vars => LedgerInv'
<1> SUFFICES ASSUME TypeInv, FlagInv, LedgerInv, [Next]_vars
             PROVE  LedgerInv'
  OBVIOUS
<1>1. DetectorInv' /\ FetchedInv'
  BY DetectorInvStep, FetchedInvStep
<1>2. MarkInv
  BY DEF LedgerInv
<1>3. CASE FetchStep
  BY <1>1, <1>3, FetchKeepsMark DEF LedgerInv
<1>4. CASE MarkStep
  BY <1>1, <1>4, MarkKeepsMark DEF LedgerInv
<1>5. CASE Detect \/ DetectRetry
  BY <1>1, <1>5, DetectKeepsMark DEF LedgerInv
<1>6. CASE NextRun \/ Crash
  <2>1. UNCHANGED <<tables, detVars>>
    BY <1>6 DEF NextRun, Crash
  <2>2. mpc' \in {"query", "off"}
    BY <1>6 DEF NextRun, Crash, Ended, MarkRestart
  <2> QED BY <1>1, <1>2, <2>1, <2>2, IdleKeepsMark DEF LedgerInv
<1>7. CASE UNCHANGED vars
  <2>1. MarkInv'
    BY <1>2, <1>7 DEF vars, MarkInv, UnusedHeld, RowFinal, Closed, DetectionOver,
       BatchLowest, BatchRead, NothingDue, LeftBehindUsed, ToCheck, Detected, Due,
       Recorded
  <2> QED BY <1>1, <2>1 DEF LedgerInv
<1> QED BY <1>3, <1>4, <1>5, <1>6, <1>7 DEF Next, Quiet

LEMMA LedgerInvInit ==
  ASSUME Orderly
  PROVE  Init => LedgerInv
<1> SUFFICES ASSUME Init PROVE LedgerInv
  OBVIOUS
<1>1. /\ slotTxs     = [x \in Slot |-> "absent"]
      /\ sandwichTxs = [x \in Slot |-> "absent"]
      /\ slotBundles = [x \in Slot |-> "absent"]
      /\ frontier = MinSlot - 1 /\ missed = {}
      /\ fpc \in {"loop", "off"} /\ mpc \in {"query", "off"}
      /\ s = Start /\ got = {}
  BY DEF Init, TablesInit, FetchInit, FetchStart, MarkInit
<1>2. DetectorInv
  BY <1>1, PipelineAssumption
     DEF DetectorInv, RowsBehindFrontier, OnlyHitsStored, DueStored, JudgedRight
<1>3. StagedPlan => StagedApart
  BY RunTyped DEF Init, MarkInit, StagedPlan, StagedApart, Running
<1>4. FetchedInv
  BY <1>1, <1>3 DEF FetchedInv, RecordsTrue, AnswersHeld, LiveAscends, Recorded
<1>5. MarkInv
  BY <1>1 DEF MarkInv, UnusedHeld, BatchLowest, BatchRead, NothingDue, LeftBehindUsed
<1> QED BY <1>2, <1>4, <1>5 DEF LedgerInv

LEMMA FlagInvInit == Init => FlagInv
  BY DEF Init, TablesInit, MarkInit, FlagInv, NotYetStored, HitsStored, HitsFlagged

(* What the theorems of this section rest on.                              *)
LEMMA LedgerInvariant ==
  ASSUME Orderly
  PROVE  Spec => [](TypeInv /\ FlagInv /\ LedgerInv)
<1>1. TypeInv /\ FlagInv /\ LedgerInv /\ [Next]_vars => LedgerInv'
  BY LedgerInvStep
<1>2. Init => LedgerInv
  BY LedgerInvInit
<1> QED
  BY TypeInvInit, TypeInvStep, FlagInvInit, FlagStep, <1>1, <1>2, PTL DEF Spec

-----------------------------------------------------------------------------
(* The theorems.                                                           *)

(* In a staged backfill, and in live mode while the API refuses nothing    *)
(* near the end of an epoch, a slot recorded as checked carries the        *)
(* verdict it should have: its hit was not stored too late to be flagged   *)
(* (slot.go:267-325, config.go:76).                                        *)
THEOREM CheckedIsRight ==
  ASSUME Orderly
  PROVE  Spec => []CheckedIsFlagged
<1>1. TypeInv /\ FlagInv /\ LedgerInv => CheckedIsFlagged
  BY DEF LedgerInv, DetectorInv, JudgedRight, CheckedIsFlagged
<1> QED BY LedgerInvariant, <1>1, PTL

(* There the mark task drops only partitions of which no slot still needs  *)
(* its bundles (slot.go:328-331), in spite of any interleaving with the    *)
(* fetch task and the detector, and of crashes.                            *)
THEOREM DropsAreSafe ==
  ASSUME Orderly
  PROVE  Spec => DroppedWhenChecked
<1> DEFINE Used == \A x \in jitoBundles \ jitoBundles' :
       slotBundles[x] = "some" =>
         slotTxs[x] = "checked" \/ (slotTxs[x] = "absent" /\ x <= frontier)
<1>1. TypeInv /\ FlagInv /\ LedgerInv /\ [Next]_vars => [Used]_vars
  <2> SUFFICES ASSUME TypeInv, LedgerInv, Next PROVE Used
    OBVIOUS
  <2>0. jitoBundles \subseteq Slot
    BY DEF TypeInv, TypeOK, TablesTypeOK
  <2>1. CASE DropEpoch
    <3> SUFFICES ASSUME NEW x \in jitoBundles \ jitoBundles', slotBundles[x] = "some"
                 PROVE  slotTxs[x] = "checked" \/ (slotTxs[x] = "absent" /\ x <= frontier)
      OBVIOUS
    <3>1. /\ mpc \in {"drop", "last"} /\ lastDropped < dropTo
          /\ x \in Slot /\ EpochOf(x) = lastDropped + 1
      BY <2>0, <2>1 DEF DropEpoch, DropJitoBundlesEpochPartition, Partition
    <3>2. ~Due(x) /\ RowFinal(x)
      BY <3>1 DEF LedgerInv, MarkInv, LeftBehindUsed, TypeInv, TypeOK, MarkTypeOK
    <3> QED
      BY <3>1, <3>2 DEF Due, RowFinal, TypeInv, TypeOK, TablesTypeOK
  <2>2. CASE FetchStep
    BY <2>2, AnswersStored DEF FetchStep, LedgerInv, FetchedInv, Orderly
  <2>3. CASE Detect \/ DetectRetry
    BY <2>3, DetectorWrites
  <2>4. CASE UNCHANGED jitoBundles
    BY <2>4
  <2> QED
    BY <2>1, <2>2, <2>3, <2>4
       DEF Next, Quiet, vars, MarkStep, MarkNext, QuerySlots, TryStop, ReadBundles,
           ReadSandwiches, UpdateInBundle, CheckSlots, DropsDone, NextRun, Crash
<1> QED BY LedgerInvariant, <1>1, PTL DEF Spec, DroppedWhenChecked

(* A slot recorded as checked has the verdict its transactions deserve.    *)
VerdictsTrue ==
  \A x \in Slot : slotTxs[x] = "checked" =>
    Verdict[x] = IF x \in Hit THEN "inBundle" ELSE "clear"

(* There the pipeline implements VerdictLedger: every slot is judged while *)
(* its bundles are held, once, and rightly.                                *)
THEOREM LedgerIsImplemented ==
  ASSUME Orderly
  PROVE  Spec => ImplementsLedger
<1>1. Init => Ledger!LedgerInit
  BY DEF Init, TablesInit, Ledger!LedgerInit, Verdict
<1>2. TypeInv /\ LedgerInv /\ TypeInv' /\ LedgerInv' /\ [Next]_vars
        => [Ledger!LedgerNext]_<<Verdict, jitoBundles>>
  <2> SUFFICES ASSUME TypeInv, LedgerInv, TypeInv', LedgerInv', [Next]_vars
               PROVE  \/ Ledger!LedgerNext
                      \/ UNCHANGED <<Verdict, jitoBundles>>
    OBVIOUS
  <2>0. jitoBundles \subseteq Slot /\ jitoBundles' \subseteq Slot
    BY DEF TypeInv, TypeOK, TablesTypeOK
  <2>. VerdictsTrue
    BY DEF LedgerInv, DetectorInv, JudgedRight, OnlyHitsStored, Verdict, VerdictsTrue
  <2>. VerdictsTrue'
    BY DEF LedgerInv, DetectorInv, JudgedRight, OnlyHitsStored, Verdict, VerdictsTrue
  <2>1. ASSUME \A x \in Slot : slotTxs'[x] = "checked" <=> slotTxs[x] = "checked"
        PROVE  UNCHANGED Verdict
    <3>1. \A x \in Slot : Verdict'[x] = Verdict[x]
      BY <2>1 DEF VerdictsTrue, Verdict
    <3> QED BY <3>1 DEF Verdict
  <2>2. CASE MarkStep /\ CheckSlots
    <3>1. /\ UNCHANGED <<sandwichTxs, jitoBundles>> /\ mpc = "check"
          /\ slotTxs' = [x \in Slot |-> IF x \in slots /\ slotTxs[x] # "absent"
                                        THEN "checked" ELSE slotTxs[x]]
      BY <2>2 DEF CheckSlots, UpdateSlotTxsCheckInBundle, Orderly, CalmStore
    <3>2. \A x \in slots : x \in Slot /\ slotTxs[x] = "unchecked" /\ x \in jitoBundles
      BY <3>1 DEF LedgerInv, MarkInv, BatchLowest, UnusedHeld, ToCheck
    <3>3. slots \in SUBSET (jitoBundles \cap Ledger!Pending)
      BY <3>2 DEF Ledger!Pending, Verdict
    <3>4. \A x \in Slot :
            Verdict'[x] = IF x \in slots THEN Ledger!Truth(x) ELSE Verdict[x]
      <4> SUFFICES ASSUME NEW x \in Slot
                   PROVE  Verdict'[x] = IF x \in slots THEN Ledger!Truth(x)
                                        ELSE Verdict[x]
        OBVIOUS
      <4>1. CASE x \in slots
        <5>1. slotTxs'[x] = "checked"
          BY <3>1, <3>2, <4>1
        <5> QED BY <4>1, <5>1 DEF VerdictsTrue, Ledger!Truth
      <4>2. CASE x \notin slots
        BY <3>1, <4>2 DEF Verdict
      <4> QED BY <4>1, <4>2
    <3>5. Verdict' = [x \in Slot |-> IF x \in slots THEN Ledger!Truth(x)
                                     ELSE Verdict[x]]
      BY <3>4 DEF Verdict
    <3>6. Ledger!Judge
      BY <3>1, <3>3, <3>5 DEF Ledger!Judge
    <3> QED BY <3>6 DEF Ledger!LedgerNext
  <2>3. CASE MarkStep /\ DropEpoch
    <3>1. UNCHANGED slotTxs /\ jitoBundles' \subseteq jitoBundles
      BY <2>3 DEF DropEpoch, DropJitoBundlesEpochPartition
    <3>2. UNCHANGED Verdict
      BY <2>1, <3>1
    <3>3. jitoBundles' = jitoBundles \ (jitoBundles \ jitoBundles')
      BY <3>1
    <3> QED BY <3>2, <3>3 DEF Ledger!LedgerNext, Ledger!Purge
  <2>4. CASE FetchStep
    <3>1. UNCHANGED slotTxs
      BY <2>4 DEF FetchStep, FetchNext, StartBatch, Fetch, Record, Advance,
         LeaveLoop, Refetch, Rerecord, OverrideFrontier, FetchExit
    <3>2. jitoBundles \subseteq jitoBundles'
      BY <2>4, AnswersStored DEF FetchStep, LedgerInv, FetchedInv, Orderly
    <3>3. UNCHANGED Verdict
      BY <2>1, <3>1
    <3>4. jitoBundles' = jitoBundles \cup jitoBundles' /\ jitoBundles' \in SUBSET Slot
      BY <2>0, <3>2
    <3> QED BY <3>3, <3>4 DEF Ledger!LedgerNext, Ledger!Acquire
  <2>5. CASE Detect \/ DetectRetry
    <3>1. /\ UNCHANGED jitoBundles
          /\ \A x \in Slot : slotTxs'[x] \in {slotTxs[x], "unchecked"}
          /\ \A x \in Slot : RowFinal(x) => slotTxs'[x] = slotTxs[x]
      BY <2>5, DetectorWrites
    <3>2. \A x \in Slot : slotTxs[x] = "checked" => RowFinal(x)
      BY PipelineAssumption
         DEF LedgerInv, DetectorInv, JudgedRight, TxFinal, RowFinal, TypeInv, TypeOK
    <3> QED BY <2>1, <3>1, <3>2
  <2>6. CASE UNCHANGED <<slotTxs, jitoBundles>>
    BY <2>1, <2>6
  <2> QED
    BY <2>2, <2>3, <2>4, <2>5, <2>6
       DEF Next, Quiet, vars, MarkStep, MarkNext, QuerySlots, TryStop, ReadBundles,
           ReadSandwiches, UpdateInBundle, DropsDone, NextRun, Crash
<1> QED
  BY LedgerInvariant, <1>1, <1>2, PTL DEF Spec, ImplementsLedger, Ledger!LedgerSpec

-----------------------------------------------------------------------------
(* Delete-after-mark leaves nothing behind.  A mark run of a staged        *)
(* backfill drops epoch after epoch from the first one that was fetched.   *)
SlotsFetched == remaining \cup got \cup failed \cup jitoBundles \subseteq Start..MaxSlot

Purged == \A x \in jitoBundles : EpochOf(x) >= EpochOf(EndSlot + 1)

Marking == Runs[IF Running THEN run ELSE Len(Runs)].mark

PurgeInv ==
  /\ SlotsFetched
  /\ mpc # "off" => \A x \in jitoBundles : EpochOf(x) > lastDropped
  /\ mpc = "last" => dropTo = EpochOf(EndSlot + 1) - 1
  /\ Marking /\ mpc = "off" => Purged

(* The fetch task stores and carries along only slots from Start on.       *)
LEMMA SlotsFetchedStep ==
  ASSUME TypeInv, SlotsFetched, [Next]_vars
  PROVE  SlotsFetched'
<1> USE DEF SlotsFetched
<1>1. CASE FetchStep
  <2>1. PICK ahead : FetchNext(ahead)
    BY <1>1 DEF FetchStep
  <2>2. s \in Start..(MaxSlot + 1) /\ Start \in Nat /\ MaxSlot \in Nat
    BY SlotsAreNat DEF TypeInv, TypeOK, FetchTypeOK
  <2>3. CASE StartBatch(ahead)
    BY <2>2, <2>3 DEF StartBatch
  <2>4. CASE Fetch
    BY <2>4 DEF Fetch, FetchSlotsParallel, InsertJitoBundles
  <2>5. CASE Refetch
    BY <2>5 DEF Refetch, FetchSlotsParallel, InsertJitoBundles
  <2>6. CASE Record \/ Rerecord
    BY <2>6 DEF Record, Rerecord
  <2>7. CASE Advance
    BY <2>7 DEF Advance
  <2>8. CASE LeaveLoop \/ OverrideFrontier \/ FetchExit
    BY <2>8 DEF LeaveLoop, OverrideFrontier, FetchExit
  <2> QED
    BY <2>1, <2>3, <2>4, <2>5, <2>6, <2>7, <2>8 DEF FetchNext
<1>2. CASE MarkStep
  <2>1. UNCHANGED fetchVars /\ jitoBundles' \subseteq jitoBundles
    BY <1>2 DEF MarkStep, MarkNext, QuerySlots, TryStop, ReadBundles, ReadSandwiches,
       UpdateInBundle, CheckSlots, DropEpoch, DropsDone, DropJitoBundlesEpochPartition
  <2> QED BY <2>1
<1>3. CASE Detect \/ DetectRetry
  BY <1>3, DetectorWrites
<1>4. CASE NextRun \/ Crash
  <2>1. /\ UNCHANGED jitoBundles
        /\ \/ UNCHANGED fetchVars
           \/ remaining' = {} /\ got' = {} /\ failed' = {}
    BY <1>4 DEF NextRun, Crash, FetchRestart
  <2> QED BY <2>1
<1>5. CASE UNCHANGED vars
  BY <1>5 DEF vars
<1> QED BY <1>1, <1>2, <1>3, <1>4, <1>5 DEF Next, Quiet

LEMMA PurgeInvStep ==
  ASSUME Orderly, StagedPlan, EpochLen <= MinSlot,
         TypeInv, LedgerInv, PurgeInv, [Next]_vars
  PROVE  PurgeInv'
<1> USE DEF PurgeInv, Purged, Marking, Running
<1>0. /\ StagedApart /\ NothingDue /\ StoreFaults = FALSE
      /\ lastDropped \in Nat /\ dropTo \in Nat /\ jitoBundles \subseteq Slot
      /\ run \in 1..(Len(Runs) + 1) /\ Len(Runs) \in Nat
      /\ Start \in Nat /\ EndSlot \in Nat
  BY RunTyped, SlotsAreNat
     DEF LedgerInv, FetchedInv, MarkInv, Orderly, CalmStore, TypeInv, TypeOK,
         TablesTypeOK, MarkTypeOK
<1>1. SlotsFetched'
  BY SlotsFetchedStep
<1>2. \A x \in jitoBundles : EpochOf(x) \in Int /\ EpochOf(x) > FirstDropped
  <2> SUFFICES ASSUME NEW x \in jitoBundles
               PROVE  EpochOf(x) \in Int /\ EpochOf(x) > FirstDropped
    OBVIOUS
  <2>1. x \in Nat /\ Start <= x /\ Start \in Nat /\ EpochLen <= Start
    BY <1>0 DEF SlotsFetched
  <2>2. EpochOf(Start) <= EpochOf(x) /\ EpochOf(x) \in Nat /\ EpochOf(Start) \in Nat
    BY <2>1, EpochMonotone, EpochIsNat
  <2>3. EpochOf(Start) > 0
    BY <2>1 DEF EpochOf
  <2> QED BY <2>2, <2>3 DEF FirstDropped
<1>3. CASE FetchStep
  <2>1. fpc # "off" /\ UNCHANGED <<markVars, lifeVars>> /\ Running
    BY <1>3 DEF FetchStep, FetchNext, StartBatch, Fetch, Record, Advance, LeaveLoop,
                Refetch, Rerecord, OverrideFrontier, FetchExit
  <2> QED BY <1>0, <1>1, <2>1 DEF StagedApart
<1>4. CASE MarkStep
  <2>1. Running /\ Runs[run].mark /\ fetchedThrough = EndSlot /\ UNCHANGED lifeVars
        /\ mpc # "off"
    BY <1>0, <1>4 DEF StagedApart, MarkStep, MarkNext, QuerySlots, TryStop,
       ReadBundles, ReadSandwiches, UpdateInBundle, CheckSlots, DropEpoch, DropsDone
  <2>2. CASE TryStop
    <3>1. ASSUME MayStop
          PROVE  dropTo' = EpochOf(EndSlot + 1) - 1
      <4>1. dropTo' = CapEpoch(EpochOf(EndSlot)) /\ EndSlot > 0
        BY <1>0, <2>2, <3>1 DEF TryStop, NothingDue
      <4>2. EndSlot >= EpochLen /\ EndSlot \in Nat
        BY <1>0, <4>1
      <4>3. /\ EpochOf(EndSlot) <= EpochOf(EndSlot + 1)
            /\ EpochOf(EndSlot + 1) <= EpochOf(EndSlot) + 1
            /\ EpochOf(EndSlot + 1) >= 1 /\ EpochOf(EndSlot + 1) \in Int
            /\ EpochOf(EndSlot) \in Int
        BY <4>2 DEF EpochOf
      <4> QED BY <2>1, <4>1, <4>3 DEF CapEpoch
    <3>2. UNCHANGED <<jitoBundles, lastDropped>> /\ mpc' \in {"last", "query"}
      BY <2>2 DEF TryStop
    <3>3. mpc' = "last" => MayStop
      BY <2>2 DEF TryStop
    <3> QED BY <1>1, <2>1, <3>1, <3>2, <3>3
  <2>3. CASE DropEpoch
    <3>1. /\ jitoBundles' = jitoBundles \ Partition(lastDropped + 1)
          /\ lastDropped' = lastDropped + 1 /\ UNCHANGED <<mpc, dropTo>>
      BY <1>0, <2>3 DEF DropEpoch, DropJitoBundlesEpochPartition
    <3>2. \A x \in jitoBundles' : EpochOf(x) > lastDropped'
      BY <1>0, <1>2, <2>1, <3>1 DEF Partition
    <3> QED BY <1>1, <2>1, <3>1, <3>2
  <2>4. CASE DropsDone
    <3>1. /\ lastDropped >= dropTo /\ UNCHANGED <<jitoBundles, lastDropped>>
          /\ mpc' = IF mpc = "drop" THEN "query" ELSE "off"
          /\ mpc \in {"drop", "last"}
      BY <2>4 DEF DropsDone
    <3>2. mpc = "last" => Purged
      <4>1. EpochOf(EndSlot + 1) \in Int
        BY <1>0, EpochIsNat
      <4> QED BY <1>0, <1>2, <3>1, <4>1
    <3> QED BY <1>0, <1>1, <2>1, <3>1, <3>2
  <2>5. CASE UNCHANGED <<jitoBundles, lastDropped>> /\ mpc' \notin {"off", "last"}
    BY <1>1, <2>1, <2>5
  <2> QED
    BY <1>4, <2>2, <2>3, <2>4, <2>5 DEF MarkStep, MarkNext, QuerySlots, ReadBundles,
       ReadSandwiches, UpdateInBundle, AfterUpdateError, CheckSlots
<1>5. CASE Detect \/ DetectRetry
  BY <1>1, <1>5, DetectorWrites
<1>6. CASE NextRun
  <2>1. /\ Running /\ run' = run + 1 /\ UNCHANGED jitoBundles /\ mpc = "off"
    BY <1>6 DEF NextRun, Ended
  <2>2. CASE run < Len(Runs)
    <3>1. Running' /\ run + 1 \in 1..Len(Runs)
      BY <1>0, <2>1, <2>2
    <3>2. /\ lastDropped' = FirstDropped
          /\ mpc' = IF Runs[run + 1].mark THEN "query" ELSE "off"
      BY <1>6, <2>2 DEF NextRun, MarkRestart
    <3> QED BY <1>1, <1>2, <2>1, <3>1, <3>2
  <2>3. CASE ~(run < Len(Runs))
    <3>1. ~Running' /\ run = Len(Runs) /\ UNCHANGED markVars
      BY <1>0, <1>6, <2>1, <2>3 DEF NextRun
    <3> QED BY <1>1, <2>1, <3>1
  <2> QED BY <2>2, <2>3
<1>7. CASE Crash
  <2>1. /\ Running /\ UNCHANGED <<jitoBundles, run>> /\ lastDropped' = FirstDropped
        /\ mpc' = IF Runs[run].mark THEN "query" ELSE "off"
    BY <1>7 DEF Crash, MarkRestart
  <2> QED BY <1>1, <1>2, <2>1
<1>8. CASE UNCHANGED vars
  BY <1>1, <1>8 DEF vars
<1> QED
  BY <1>3, <1>4, <1>5, <1>6, <1>7, <1>8 DEF Next, Quiet

(* A staged backfill whose last command is a mark run ends with no raw     *)
(* bundles in the epochs that its range covers entirely, however often it  *)
(* crashed and whatever the API refused (slot.go:251-256).  The chain's    *)
(* first epochs are out of range: MIN_START_SLOT is far above 432000       *)
(* (config.go:13).                                                         *)
THEOREM BundlesArePurged ==
  ASSUME Orderly, StagedPlan, EpochLen <= MinSlot
  PROVE  Spec => []PurgedAtEnd
<1>1. Init => PurgeInv
  BY RunTyped DEF Init, TablesInit, FetchInit, MarkInit, StagedPlan, PurgeInv,
     SlotsFetched, Marking, Purged, Running
<1>2. TypeInv /\ LedgerInv /\ PurgeInv /\ [Next]_vars => PurgeInv'
  BY PurgeInvStep
<1>3. TypeInv /\ LedgerInv /\ PurgeInv => PurgedAtEnd
  <2> SUFFICES ASSUME LedgerInv, PurgeInv, ~Running, Runs[Len(Runs)].mark
               PROVE  Purged
    BY DEF PurgedAtEnd, Purged
  <2>1. mpc = "off"
    BY DEF LedgerInv, FetchedInv, StagedApart
  <2> QED BY <2>1 DEF PurgeInv, Marking
<1> QED BY LedgerInvariant, <1>1, <1>2, <1>3, PTL DEF Spec
=============================================================================
