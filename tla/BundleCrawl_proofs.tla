-------------------------- MODULE BundleCrawl_proofs -------------------------
(***************************************************************************)
(* Theorems about the bundle crawler, for every chain, every content of    *)
(* the databases, and every order of answers, errors and crashes, and      *)
(* about the poll of the site, for every feed.                             *)
(***************************************************************************)
EXTENDS Crawlers, SequenceTheorems, TLAPS

(* What a run takes for known is true, but for the legs of a covered epoch *)
(* whose slot the content lacks: these count as in no bundle.              *)
AnswersTrue ==
  \A sig \in Sig :
    \/ resolved[sig] \in {world.truth[sig], Missing}
    \/ /\ resolved[sig] = NoBundle
       /\ \E l \in LegsOf(sig) : Covered(SlotOf[l.sid]) /\ ~InContent(SlotOf[l.sid])

IInv ==
  /\ TypeOK
  /\ AnswersTrue
  /\ \A sid \in published : InOneBundle(world.truth, sid)
  /\ pc = "done" => published = Decide(resolved)

LEMMA LegFields ==
  ASSUME NEW l \in Legs
  PROVE  l.sid \in Sandwich /\ l.type \in Type /\ l.sig \in Sig
BY CrawlAssumption

LEMMA TruthType ==
  ASSUME TypeOK
  PROVE  world.truth \in [Sig -> Bundle \cup {NoBundle}]
BY CrawlAssumption DEF TypeOK

(* Legs that are known to share a bundle do share it: no answer is another *)
(* bundle than the true one.                                               *)
LEMMA KnownBundleIsTrue ==
  ASSUME IInv, NEW sid, InOneBundle(resolved, sid)
  PROVE  InOneBundle(world.truth, sid)
<1>1. PICK b \in Bundle : \A t \in Type :
        \E l \in Legs : l.sid = sid /\ l.type = t /\ resolved[l.sig] = b
  BY DEF InOneBundle
<1>2. b # NoBundle /\ b # Missing
  BY CrawlAssumption
<1>3. \A l \in Legs : resolved[l.sig] = b => world.truth[l.sig] = b
  BY <1>2, LegFields DEF IInv, AnswersTrue
<1> QED
  BY <1>1, <1>3 DEF InOneBundle

LEMMA KnownAnswers ==
  ASSUME TypeOK
  PROVE  /\ Known \in [Sig -> Answer]
         /\ \A sig \in Sig :
              \/ Known[sig] \in {world.truth[sig], Missing}
              \/ /\ Known[sig] = NoBundle
                 /\ \E l \in LegsOf(sig) :
                      Covered(SlotOf[l.sid]) /\ ~InContent(SlotOf[l.sid])
<1>1. Known \in [Sig -> Answer]
  BY TruthType DEF Known, Answer
<1>2. ASSUME NEW sig \in Sig
      PROVE  \/ Known[sig] \in {world.truth[sig], Missing}
             \/ /\ Known[sig] = NoBundle
                /\ \E l \in LegsOf(sig) :
                     Covered(SlotOf[l.sid]) /\ ~InContent(SlotOf[l.sid])
  <2>1. CASE FromStored(sig) \/ sig \in Loaded
    BY <2>1 DEF Known
  <2>2. CASE ~FromStored(sig) /\ sig \notin Loaded
             /\ \E l \in LegsOf(sig) : Covered(SlotOf[l.sid])
    <3>1. Known[sig] = NoBundle
      BY <2>2 DEF Known
    <3>2. CASE world.truth[sig] = NoBundle
      BY <3>1, <3>2
    <3>3. CASE world.truth[sig] # NoBundle
      BY <2>2, <3>1, <3>3 DEF FromStored
    <3> QED
      BY <3>2, <3>3
  <2>3. CASE ~FromStored(sig) /\ sig \notin Loaded
             /\ ~\E l \in LegsOf(sig) : Covered(SlotOf[l.sid])
    BY <2>3 DEF Known
  <2> QED
    BY <2>1, <2>2, <2>3
<1> QED
  BY <1>1, <1>2

-----------------------------------------------------------------------------
LEMMA StagesAreLegs ==
  ASSUME NEW stage, NEW res
  PROVE  StageLegs(stage, res) \subseteq Legs
BY DEF StageLegs, Stage1, Stage2, Open, FrontBack

LEMMA StageIsStep ==
  ASSUME NEW res
  PROVE  NextStage(res) \in {"stage1", "stage2", "verdict"}
BY DEF NextStage

LEMMA FlushType ==
  ASSUME TypeOK, Flush
  PROVE  /\ file' \in [exists : BOOLEAN, head : {"empty", "header"} \cup Sig,
                       rows : SUBSET Sig]
         /\ buffer' \in [header : BOOLEAN, rows : SUBSET Sig]
<1> DEFINE FileType == [exists : BOOLEAN, head : {"empty", "header"} \cup Sig,
                        rows : SUBSET Sig]
<1>1. file \in FileType /\ buffer.rows \subseteq Sig
  BY DEF TypeOK
<1>2. CASE buffer.header \/ file.head # "empty" \/ buffer.rows = {}
  <2>1. file' = [exists |-> TRUE,
                 head   |-> IF buffer.header THEN "header" ELSE file.head,
                 rows   |-> file.rows \cup buffer.rows]
    BY <1>2 DEF Flush, AfterFlush
  <2> QED
    BY <1>1, <2>1 DEF Flush
<1>3. CASE ~(buffer.header \/ file.head # "empty" \/ buffer.rows = {})
  <2>1. PICK first \in buffer.rows :
          file' = [exists |-> TRUE, head |-> first, rows |-> buffer.rows \ {first}]
    BY <1>3 DEF Flush, AfterFlush
  <2> QED
    BY <1>1, <2>1 DEF Flush
<1> QED
  BY <1>2, <1>3

LEMMA InitInv == CrawlInit => IInv
<1> SUFFICES ASSUME CrawlInit PROVE IInv
  OBVIOUS
<1>1. TypeOK
  <2>1. \/ file = [exists |-> FALSE, head |-> "empty", rows |-> {}]
        \/ file = [exists |-> TRUE, head |-> "header", rows |-> {}]
    BY DEF CrawlInit
  <2>2. file \in [exists : BOOLEAN, head : {"empty", "header"} \cup Sig,
                  rows : SUBSET Sig]
    <3>1. CASE file = [exists |-> FALSE, head |-> "empty", rows |-> {}]
      BY <3>1
    <3>2. CASE file = [exists |-> TRUE, head |-> "header", rows |-> {}]
      BY <3>2
    <3> QED
      BY <2>1, <3>1, <3>2
  <2>3. buffer \in [header : BOOLEAN, rows : SUBSET Sig]
    BY DEF CrawlInit
  <2>4. resolved \in [Sig -> Answer] /\ attempts \in [Legs -> 0..(MaxAttempts - 1)]
    BY CrawlAssumption DEF CrawlInit, Answer
  <2>5. /\ world \in Worlds /\ pc = "start" /\ queue = {} /\ inflight = {}
        /\ ok = 0 /\ published = {} /\ faults = 0 /\ crashes = 0
    BY DEF CrawlInit
  <2> QED
    BY <2>2, <2>3, <2>4, <2>5, CrawlAssumption DEF TypeOK
<1>2. AnswersTrue
  BY DEF CrawlInit, AnswersTrue
<1> QED
  BY <1>1, <1>2 DEF CrawlInit, IInv

(* A step that leaves the answers and the verdicts alone keeps what is     *)
(* known of them.                                                          *)
LEMMA Undisturbed ==
  ASSUME IInv, TypeOK', UNCHANGED <<world, resolved, published>>, pc' # "done"
  PROVE  IInv'
<1>1. AnswersTrue'
  BY DEF IInv, AnswersTrue, Covered, HeldPairs, InContent
<1>2. \A sid \in published' : InOneBundle(world.truth, sid)'
  BY DEF IInv, InOneBundle
<1> QED
  BY <1>1, <1>2 DEF IInv

LEMMA StartStep ==
  ASSUME IInv, StartRun
  PROVE  IInv'
<1>1. TypeOK
  BY DEF IInv
<1>2. pc' \in {"stage1", "stage2", "verdict"} /\ queue' \subseteq Legs
  BY StagesAreLegs, StageIsStep DEF StartRun
<1>3. /\ resolved' = Known /\ world' = world /\ published' = published
      /\ inflight' = {} /\ attempts' = [l \in Legs |-> 0] /\ ok' = 0
      /\ faults' = faults /\ crashes' = crashes
  BY DEF StartRun
<1>4. /\ file' \in [exists : BOOLEAN, head : {"empty", "header"} \cup Sig,
                    rows : SUBSET Sig]
      /\ buffer' \in [header : BOOLEAN, rows : SUBSET Sig]
  <2>1. CASE pc' = "verdict"
    BY <1>1, <2>1 DEF StartRun, TypeOK
  <2>2. CASE pc' # "verdict"
    <3>1. file' = [file EXCEPT !.exists = TRUE]
      BY <2>2 DEF StartRun
    <3>2. buffer' = [header |-> ~file.exists, rows |-> {}]
      BY <2>2 DEF StartRun
    <3>3. file.exists \in BOOLEAN
      BY <1>1 DEF TypeOK
    <3>4. (~file.exists) \in BOOLEAN
      OBVIOUS
    <3>5. file' \in [exists : BOOLEAN, head : {"empty", "header"} \cup Sig,
                     rows : SUBSET Sig]
      BY <1>1, <3>1 DEF TypeOK
    <3> QED
      BY <3>2, <3>4, <3>5
  <2> QED
    BY <2>1, <2>2
<1>5. TypeOK'
  BY <1>1, <1>2, <1>3, <1>4, KnownAnswers, CrawlAssumption DEF TypeOK, Answer
<1>6. AnswersTrue'
  BY <1>1, <1>3, KnownAnswers DEF AnswersTrue, Covered, HeldPairs, InContent
<1>7. \A sid \in published' : InOneBundle(world.truth, sid)'
  BY <1>3 DEF IInv, InOneBundle
<1> QED
  BY <1>2, <1>5, <1>6, <1>7 DEF IInv

LEMMA AnsweredStep ==
  ASSUME IInv, NEW l \in Legs, Answered(l)
  PROVE  IInv'
<1>1. TypeOK /\ l.sig \in Sig
  BY LegFields DEF IInv
<1>2. /\ resolved' = [resolved EXCEPT ![l.sig] = world.truth[l.sig]]
      /\ world' = world /\ published' = published /\ pc' = pc
      /\ buffer' = [buffer EXCEPT !.rows = @ \cup {l.sig}]
      /\ inflight' = inflight \ {l} /\ attempts' = [attempts EXCEPT ![l] = 0]
      /\ ok' = ok + 1 /\ file' = file /\ queue' = queue
      /\ faults' = faults /\ crashes' = crashes
      /\ pc # "done"
  BY DEF Answered, Leave, Fetching
<1>3. world.truth[l.sig] \in Answer
  BY <1>1, TruthType DEF Answer
<1>4. TypeOK'
  BY <1>1, <1>2, <1>3, CrawlAssumption DEF TypeOK
<1>5. AnswersTrue'
  <2>1. resolved \in [Sig -> Answer]
    BY <1>1 DEF TypeOK
  <2> QED
    BY <1>1, <1>2, <2>1, SMTT(30) DEF IInv, AnswersTrue, Covered, HeldPairs, InContent
<1>6. \A sid \in published' : InOneBundle(world.truth, sid)'
  BY <1>2 DEF IInv, InOneBundle
<1> QED
  BY <1>2, <1>4, <1>5, <1>6 DEF IInv

(* The verdicts of a run.                                                  *)
LEMMA VerdictStep ==
  ASSUME IInv, OpenVerdicts \/ WriteVerdicts
  PROVE  IInv'
<1>1. /\ UNCHANGED <<world, file, buffer, resolved, queue, inflight, attempts,
                     ok, faults, crashes>>
      /\ pc' \in {"write", "done"}
      /\ published' \subseteq Decide(resolved)
      /\ pc' = "done" => published' = Decide(resolved)
  BY DEF OpenVerdicts, WriteVerdicts
<1>2. TypeOK'
  BY <1>1 DEF IInv, TypeOK, Decide
<1>3. AnswersTrue'
  BY <1>1 DEF IInv, AnswersTrue, Covered, HeldPairs, InContent
<1>4. \A sid \in published' : InOneBundle(world.truth, sid)'
  <2>1. ASSUME NEW sid \in published' PROVE InOneBundle(world.truth, sid)
    BY <1>1, KnownBundleIsTrue DEF Decide
  <2> QED
    BY <1>1, <2>1 DEF InOneBundle
<1>5. Decide(resolved)' = Decide(resolved)
  BY <1>1 DEF Decide, InOneBundle
<1> QED
  BY <1>1, <1>2, <1>3, <1>4, <1>5 DEF IInv

(* A crash leaves any part of what was being written.                      *)
LEMMA CrashStep ==
  ASSUME IInv, Crash
  PROVE  IInv'
<1>1. /\ world' = world /\ file' = file /\ faults' = faults
      /\ crashes' = crashes + 1 /\ crashes < MaxCrashes /\ pc' = "start"
      /\ buffer' = [header |-> FALSE, rows |-> {}]
      /\ queue' = {} /\ inflight' = {} /\ attempts' = [l \in Legs |-> 0]
      /\ ok' = 0 /\ resolved' = [sig \in Sig |-> Missing]
  BY DEF Crash
<1>2. published' = published \/ published' \subseteq Decide(resolved)
  BY DEF Crash
<1>3. TypeOK'
  BY <1>1, <1>2, CrawlAssumption DEF IInv, TypeOK, Decide, Answer
<1>4. AnswersTrue'
  BY <1>1 DEF AnswersTrue
<1>5. \A sid \in published' : InOneBundle(world.truth, sid)'
  <2>1. ASSUME NEW sid \in published' PROVE InOneBundle(world.truth, sid)
    BY <1>2, KnownBundleIsTrue DEF IInv, Decide
  <2> QED
    BY <1>1, <2>1 DEF InOneBundle
<1> QED
  BY <1>1, <1>3, <1>4, <1>5 DEF IInv

(* Steps of the workers, the file and the operator.                        *)
LEMMA WorkerStep ==
  ASSUME IInv,
         \/ RaiseOnLoad \/ StageDone \/ Rerun \/ Spill
         \/ \E l \in Legs : Take(l) \/ NotFound(l) \/ Refused(l)
  PROVE  IInv'
<1>1. CASE RaiseOnLoad \/ Rerun
  <2>1. /\ pc' \in {"raised", "start"}
        /\ UNCHANGED <<world, file, buffer, resolved, queue, inflight, attempts,
                       ok, published, faults, crashes>>
    BY <1>1 DEF RaiseOnLoad, Rerun
  <2>2. TypeOK'
    BY <2>1 DEF IInv, TypeOK
  <2> QED
    BY <2>1, <2>2, Undisturbed
<1>2. CASE StageDone
  <2>1. pc' \in {"stage2", "verdict", "stage1"} /\ queue' \subseteq Legs
    BY <1>2, StagesAreLegs, StageIsStep DEF StageDone
  <2>2. UNCHANGED <<world, resolved, inflight, attempts, published, faults, crashes>>
        /\ ok' = 0 /\ Flush
    BY <1>2 DEF StageDone
  <2>3. TypeOK'
    BY <2>1, <2>2, FlushType DEF IInv, TypeOK
  <2> QED
    BY <2>1, <2>2, <2>3, Undisturbed
<1>3. CASE Spill
  <2>1. /\ UNCHANGED <<world, pc, resolved, queue, inflight, attempts, ok,
                       published, faults, crashes>>
        /\ Flush /\ pc # "done"
    BY <1>3 DEF Spill, Fetching
  <2>2. TypeOK'
    BY <2>1, FlushType DEF IInv, TypeOK
  <2> QED
    BY <2>1, <2>2, Undisturbed
<1>4. ASSUME NEW l \in Legs, Take(l) \/ NotFound(l) \/ Refused(l)
      PROVE  IInv'
  <2>1. /\ UNCHANGED <<world, file, buffer, pc, resolved, ok, published, crashes>>
        /\ pc # "done"
        /\ queue' \subseteq queue /\ inflight' \subseteq Legs
    BY <1>4 DEF Take, NotFound, Refused, Leave, Fetching, IInv, TypeOK
  <2>2. attempts' \in [Legs -> 0..(MaxAttempts - 1)]
    <3>1. attempts \in [Legs -> 0..(MaxAttempts - 1)]
      BY DEF IInv, TypeOK
    <3>2. CASE Take(l)
      BY <3>1, <3>2 DEF Take
    <3>3. CASE NotFound(l)
      BY <3>1, <3>3, CrawlAssumption DEF NotFound, Leave
    <3>4. CASE Refused(l)
      <4>1. CASE attempts[l] + 1 = MaxAttempts
        BY <3>1, <3>4, <4>1, CrawlAssumption DEF Refused, Leave
      <4>2. CASE attempts[l] + 1 # MaxAttempts
        <5>1. attempts' = [attempts EXCEPT ![l] = @ + 1]
          BY <3>4, <4>2 DEF Refused
        <5>2. attempts[l] + 1 \in 0..(MaxAttempts - 1)
          BY <3>1, <4>2, CrawlAssumption
        <5> QED
          BY <3>1, <5>1, <5>2
      <4> QED
        BY <4>1, <4>2
    <3> QED
      BY <1>4, <3>2, <3>3, <3>4
  <2>3. faults' \in 0..MaxFaults
    BY <1>4, CrawlAssumption DEF Take, NotFound, Refused, IInv, TypeOK
  <2>4. TypeOK'
    BY <2>1, <2>2, <2>3 DEF IInv, TypeOK
  <2> QED
    BY <2>1, <2>4, Undisturbed
<1> QED
  BY <1>1, <1>2, <1>3, <1>4

LEMMA NextInv == IInv /\ [CrawlNext]_crawlVars => IInv'
<1> SUFFICES ASSUME IInv, [CrawlNext]_crawlVars PROVE IInv'
  OBVIOUS
<1>1. CASE UNCHANGED crawlVars
  BY <1>1 DEF crawlVars, IInv, TypeOK, AnswersTrue, Covered, HeldPairs, InContent,
              InOneBundle, Decide
<1>2. CASE StartRun
  BY <1>2, StartStep
<1>3. CASE \E l \in Legs : Answered(l)
  BY <1>3, AnsweredStep
<1>4. CASE OpenVerdicts \/ WriteVerdicts
  BY <1>4, VerdictStep
<1>5. CASE Crash
  BY <1>5, CrashStep
<1>6. CASE \/ RaiseOnLoad \/ StageDone \/ Rerun \/ Spill
           \/ \E l \in Legs : Take(l) \/ NotFound(l) \/ Refused(l)
  BY <1>6, WorkerStep
<1> QED
  BY <1>1, <1>2, <1>3, <1>4, <1>5, <1>6
     DEF CrawlNext, CrawlStep, Fault, Stuck, CrawlFinished

LEMMA SpecInv == CrawlInit /\ [][CrawlNext]_crawlVars => []IInv
<1>1. CrawlInit => IInv
  BY InitInv
<1>2. IInv /\ [CrawlNext]_crawlVars => IInv'
  BY NextInv
<1> QED
  BY <1>1, <1>2, PTL

-----------------------------------------------------------------------------
(* A published bundle sandwich is one: a bundle of the chain holds a leg   *)
(* of each core type.  Partial content, answers in any order, lost rows    *)
(* and half-written files never add a false one (decide).                  *)
THEOREM VerdictsAreSound == CrawlSpec => []VerdictsSound
<1>1. IInv => VerdictsSound
  BY DEF IInv, VerdictsSound, InOneBundle
<1> QED
  BY <1>1, SpecInv, PTL DEF CrawlSpec

(* A signature lies in one slot, and front runs or back runs are asked     *)
(* for.                                                                    *)
OneSlotEach ==
  /\ FrontOrBack # {}
  /\ \A l, m \in Legs : l.sig = m.sig => SlotOf[l.sid] = SlotOf[m.sid]

(* A leg of a bundle is known by its bundle, or not known, unless its slot *)
(* is the gap of a covered epoch.                                          *)
LEMMA BundledAnswer ==
  ASSUME IInv, OneSlotEach, NEW l \in Legs, NEW b \in Bundle,
         world.truth[l.sig] = b,
         ~(Covered(SlotOf[l.sid]) /\ ~InContent(SlotOf[l.sid]))
  PROVE  resolved[l.sig] \in {b, Missing}
<1>1. l.sig \in Sig
  BY LegFields
<1>2. \A m \in LegsOf(l.sig) : m \in Legs /\ SlotOf[m.sid] = SlotOf[l.sid]
  BY DEF LegsOf, OneSlotEach
<1> QED
  BY <1>1, <1>2 DEF IInv, AnswersTrue

(* The short list of stage 2 loses no verdict: when there is nothing left  *)
(* to ask for, every sandwich of one bundle is published, but for the gaps *)
(* of covered epochs (api_shortlist).                                      *)
THEOREM ShortlistIsEnough ==
  ASSUME OneSlotEach
  PROVE  CrawlSpec => []ShortlistLosesNothing
<1>1. IInv => ShortlistLosesNothing
  <2> SUFFICES ASSUME IInv, pc = "done", Stage1(resolved) = {}, Stage2(resolved) = {},
                      NEW sid \in Decide(world.truth),
                      ~(Covered(SlotOf[sid]) /\ ~InContent(SlotOf[sid]))
               PROVE  sid \in published
    BY DEF ShortlistLosesNothing
  <2>1. PICK b \in Bundle : \A t \in Type :
          \E l \in Legs : l.sid = sid /\ l.type = t /\ world.truth[l.sig] = b
    BY DEF Decide, InOneBundle
  <2>2. b # Missing /\ b # NoBundle /\ sid \in Sandwich
    BY CrawlAssumption DEF Decide
  <2>3. \A l \in Legs : l.sid = sid /\ world.truth[l.sig] = b
                          => resolved[l.sig] \in {b, Missing}
    BY BundledAnswer
  <2>4. Open(resolved, FrontBack(sid)) = {}
    BY <2>2 DEF Stage1, Open
  <2>5. \A l \in Legs : l.sid = sid /\ l.type \in FrontOrBack => resolved[l.sig] # Missing
    BY <2>4 DEF Open, FrontBack
  <2>6. PICK f \in Legs : /\ f.sid = sid /\ f.type \in FrontOrBack
                          /\ world.truth[f.sig] = b
    BY <2>1, CrawlAssumption DEF OneSlotEach
  <2>7. f \in FrontBack(sid) /\ resolved[f.sig] # NoBundle
    BY <2>2, <2>3, <2>5, <2>6 DEF FrontBack
  <2>8. \A l \in Legs : l.sid = sid /\ l.type \notin FrontOrBack => resolved[l.sig] # Missing
    BY <2>2, <2>4, <2>7 DEF Stage2, Open
  <2>9. \A l \in Legs : l.sid = sid /\ world.truth[l.sig] = b => resolved[l.sig] = b
    BY <2>3, <2>5, <2>8
  <2>10. InOneBundle(resolved, sid)
    BY <2>1, <2>9 DEF InOneBundle
  <2> QED
    BY <2>2, <2>10 DEF IInv, Decide
<1> QED
  BY <1>1, SpecInv, PTL DEF CrawlSpec

(* Beside the other crawlers it runs as it does alone, with what was       *)
(* proved of it.                                                           *)
LEMMA RunsAlone == CrawlersSpec => CrawlInit /\ [][CrawlNext]_crawlVars
<1>1. CrawlersInit => CrawlInit
  BY DEF CrawlersInit
<1>2. [CrawlersNext]_crawlerVars => [CrawlNext]_crawlVars
  BY DEF CrawlersNext, BundlesNext, PricesNext, SiteNext, crawlerVars
<1> QED
  BY <1>1, <1>2, PTL DEF CrawlersSpec

(* The verdicts of the bundle crawler are true in the composition, too.    *)
THEOREM CrawlersVerdictsSound == CrawlersSpec => []VerdictsSound
<1>1. IInv => VerdictsSound
  BY DEF IInv, VerdictsSound, InOneBundle
<1> QED
  BY <1>1, SpecInv, RunsAlone, PTL

-----------------------------------------------------------------------------
(* The rows the file has or is about to get are answers the run knows, so  *)
(* that the lists of its stages pass them over; a leg that waits is in no  *)
(* such row unless it shares its signature.  A file that has no header yet *)
(* has no row, and one that starts with a row stops the next run once it   *)
(* has another.                                                            *)
Rows == file.rows \cup buffer.rows

OnlyLeg(l) == \A m \in LegsOf(l.sig) : m = l

RowsAreKnown ==
  /\ file.head # "empty" => file.exists
  /\ file.head = "empty" => file.rows = {}
  /\ pc \in {"start", "verdict", "write", "done"} => queue = {}
  /\ queue \cap inflight = {}
  /\ Fetching =>
       /\ \A sig \in Rows : resolved[sig] # Missing
       /\ \A l \in queue : OnlyLeg(l) => l.sig \notin Rows

(* No list holds a leg that is answered.                                   *)
LEMMA StageIsOpen ==
  ASSUME NEW stage, NEW res, NEW l \in StageLegs(stage, res)
  PROVE  l \in Legs /\ res[l.sig] = Missing
BY DEF StageLegs, Stage1, Stage2, Open, FrontBack

(* What the file answers is known when a run starts, "" included           *)
(* (load_existing_map: "An empty bundle_id is a real answer").             *)
LEMMA FileAnswers ==
  ASSUME TypeOK, RowsAreKnown, ~LoadRaises, NEW sig \in file.rows
  PROVE  Known[sig] # Missing
<1>1. sig \in Sig /\ file.head \in {"empty", "header"} \cup Sig
  BY DEF TypeOK
<1>2. file.head = "header"
  BY <1>1 DEF RowsAreKnown, LoadRaises
<1>3. world.truth[sig] # Missing
  BY <1>1, TruthType, CrawlAssumption
<1> QED BY <1>1, <1>2, <1>3 DEF Known, Loaded

LEMMA FlushedRows ==
  ASSUME TypeOK, Flush, RowsAreKnown
  PROVE  /\ file'.exists /\ buffer'.rows = {}
         /\ file'.rows \subseteq Rows
         /\ file'.head = "empty" => file'.rows = {}
<1>1. CASE buffer.header \/ file.head # "empty" \/ buffer.rows = {}
  <2>1. file' = [exists |-> TRUE,
                 head   |-> IF buffer.header THEN "header" ELSE file.head,
                 rows   |-> file.rows \cup buffer.rows]
    BY <1>1 DEF Flush, AfterFlush
  <2>2. file'.head = "empty" => file'.rows = {}
    BY <1>1, <2>1 DEF RowsAreKnown
  <2> QED BY <2>1, <2>2 DEF Flush, Rows
<1>2. CASE ~(buffer.header \/ file.head # "empty" \/ buffer.rows = {})
  <2>1. PICK first \in buffer.rows :
          file' = [exists |-> TRUE, head |-> first, rows |-> buffer.rows \ {first}]
    BY <1>2 DEF Flush, AfterFlush
  <2>2. first # "empty"
    BY CrawlAssumption DEF TypeOK
  <2> QED BY <2>1, <2>2 DEF Flush, Rows
<1> QED BY <1>1, <1>2

LEMMA RowsInit == CrawlInit => RowsAreKnown
  BY DEF CrawlInit, RowsAreKnown, Fetching

LEMMA RowsStart ==
  ASSUME TypeOK, RowsAreKnown, StartRun
  PROVE  RowsAreKnown'
<1>1. /\ pc' \in {"stage1", "stage2", "verdict"} /\ resolved' = Known
      /\ queue' = StageLegs(pc', Known) /\ inflight' = {} /\ ~LoadRaises
  BY StageIsStep DEF StartRun
<1>2. CASE pc' = "verdict"
  <2>1. queue' = {} /\ file' = file
    BY <1>1, <1>2 DEF StartRun, StageLegs
  <2> QED BY <1>1, <1>2, <2>1 DEF RowsAreKnown, Fetching
<1>3. CASE pc' # "verdict"
  <2>1. file' = [file EXCEPT !.exists = TRUE] /\ buffer'.rows = {}
    BY <1>3 DEF StartRun
  <2>2. /\ file'.exists /\ file'.head = file.head /\ file'.rows = file.rows
        /\ Rows' = file.rows
    BY <2>1 DEF TypeOK, Rows
  <2>3. \A sig \in Rows' : Known[sig] # Missing
    BY <2>2, <1>1, FileAnswers
  <2>4. \A l \in queue' : l.sig \notin Rows'
    BY <2>3, <1>1, StageIsOpen
  <2> QED BY <1>1, <1>3, <2>2, <2>3, <2>4 DEF RowsAreKnown
<1> QED BY <1>2, <1>3

LEMMA RowsStageDone ==
  ASSUME TypeOK, RowsAreKnown, StageDone
  PROVE  RowsAreKnown'
<1>1. /\ Fetching /\ Flush /\ inflight' = {} /\ resolved' = resolved
      /\ pc' \in {"stage1", "stage2", "verdict"} /\ queue' = StageLegs(pc', resolved)
  BY StageIsStep DEF StageDone
<1>2. /\ file'.exists /\ Rows' \subseteq Rows
      /\ file'.head = "empty" => file'.rows = {}
  BY <1>1, FlushedRows DEF Rows
<1>3. \A l \in queue' : resolved[l.sig] = Missing
  BY <1>1, StageIsOpen
<1>4. pc' = "verdict" => queue' = {}
  BY <1>1 DEF StageLegs
<1> QED BY <1>1, <1>2, <1>3, <1>4 DEF RowsAreKnown, Fetching

LEMMA RowsAnswered ==
  ASSUME TypeOK, RowsAreKnown, NEW l \in Legs, Answered(l)
  PROVE  RowsAreKnown'
<1>1. /\ Fetching /\ pc' = pc /\ file' = file /\ queue' = queue
      /\ l \in inflight /\ inflight' = inflight \ {l}
      /\ resolved' = [resolved EXCEPT ![l.sig] = world.truth[l.sig]]
      /\ buffer' = [buffer EXCEPT !.rows = @ \cup {l.sig}]
  BY DEF Answered, Leave
<1>2. Rows' = Rows \cup {l.sig} /\ Rows \subseteq Sig /\ l.sig \in Sig
  BY <1>1, LegFields DEF Rows, TypeOK
<1>3. world.truth[l.sig] # Missing
  BY <1>2, TruthType, CrawlAssumption
<1>4. \A sig \in Rows' : resolved'[sig] # Missing
  BY <1>1, <1>2, <1>3 DEF TypeOK, RowsAreKnown
<1>5. ASSUME NEW m \in queue, OnlyLeg(m)
      PROVE  m.sig \notin Rows'
  <2>1. m # l /\ m.sig \notin Rows
    BY <1>1, <1>5 DEF RowsAreKnown
  <2>2. m.sig # l.sig
    BY <1>5, <2>1 DEF OnlyLeg, LegsOf
  <2> QED BY <1>2, <2>1, <2>2
<1>6. \A m \in queue : OnlyLeg(m)' => OnlyLeg(m)
  BY DEF OnlyLeg, LegsOf
<1> QED BY <1>1, <1>4, <1>5, <1>6 DEF RowsAreKnown, Fetching, OnlyLeg, LegsOf

LEMMA RowsStep == TypeOK /\ RowsAreKnown /\ [CrawlNext]_crawlVars => RowsAreKnown'
<1> SUFFICES ASSUME TypeOK, RowsAreKnown, [CrawlNext]_crawlVars PROVE RowsAreKnown'
  OBVIOUS
<1>1. CASE StartRun
  BY <1>1, RowsStart
<1>2. CASE StageDone
  BY <1>2, RowsStageDone
<1>3. CASE \E l \in Legs : Answered(l)
  BY <1>3, RowsAnswered
<1>4. CASE RaiseOnLoad \/ OpenVerdicts \/ WriteVerdicts \/ Rerun \/ Crash
  BY <1>4 DEF RaiseOnLoad, OpenVerdicts, WriteVerdicts, Rerun, Crash, RowsAreKnown,
              Fetching
<1>5. CASE Spill
  <2>1. /\ file'.exists /\ Rows' \subseteq Rows
        /\ file'.head = "empty" => file'.rows = {}
    BY <1>5, FlushedRows DEF Spill, Rows
  <2>2. UNCHANGED <<pc, resolved, queue, inflight>>
    BY <1>5 DEF Spill
  <2> QED BY <2>1, <2>2 DEF RowsAreKnown, Fetching, OnlyLeg, LegsOf
<1>6. CASE \E l \in Legs : Take(l) \/ NotFound(l) \/ Refused(l)
  <2>1. /\ Fetching /\ UNCHANGED <<file, buffer, pc, resolved>>
        /\ queue' \subseteq queue /\ queue' \cap inflight' = {}
    BY <1>6 DEF Take, NotFound, Refused, Leave, RowsAreKnown
  <2> QED BY <2>1 DEF RowsAreKnown, Rows, Fetching, OnlyLeg, LegsOf
<1>7. CASE UNCHANGED crawlVars
  BY <1>7 DEF crawlVars, RowsAreKnown, Rows, Fetching, OnlyLeg, LegsOf
<1> QED
  BY <1>1, <1>2, <1>3, <1>4, <1>5, <1>6, <1>7
     DEF CrawlNext, CrawlStep, Fault, Stuck, CrawlFinished

(* No stage of any run lists a leg that the file answers, whatever errors, *)
(* crashes and runs came before, and what a worker asks for is listed and  *)
(* not answered by then, unless another leg has the same signature.        *)
THEOREM AnswersAreKept == CrawlersSpec => NeverAskedAgain
<1> DEFINE Kept == /\ \A l \in queue' \ queue : l.sig \notin file'.rows
                   /\ Taken \subseteq queue
                   /\ \A l \in Taken :
                        l.sig \in file.rows => \E m \in LegsOf(l.sig) : m # l
<1>1. TypeOK /\ RowsAreKnown /\ [CrawlNext]_crawlVars => [Kept]_crawlVars
  <2> SUFFICES ASSUME TypeOK, RowsAreKnown, CrawlNext, RowsAreKnown'
               PROVE  Kept
    BY RowsStep
  <2>1. CASE StartRun
    <3>1. queue' = StageLegs(pc', Known) /\ inflight' = {} /\ file'.rows = file.rows
          /\ ~LoadRaises
      BY <2>1 DEF StartRun, TypeOK
    <3> QED BY <3>1, FileAnswers, StageIsOpen DEF Taken
  <2>2. CASE StageDone
    <3>1. /\ Fetching /\ Flush /\ inflight' = inflight
          /\ queue' = StageLegs(pc', resolved)
      BY <2>2 DEF StageDone
    <3> QED BY <3>1, FlushedRows, StageIsOpen DEF RowsAreKnown, Taken
  <2>3. CASE \E l \in Legs : Take(l)
    <3>1. PICK l \in Legs : Take(l)
      BY <2>3
    <3>2. /\ Fetching /\ l \in queue /\ queue' \subseteq queue /\ Taken \subseteq {l}
      BY <3>1 DEF Take, Taken
    <3> QED BY <3>2 DEF RowsAreKnown, Rows, OnlyLeg
  <2>4. CASE ~StartRun /\ ~StageDone /\ ~\E l \in Legs : Take(l)
    <3>1. queue' \subseteq queue /\ inflight' \subseteq inflight
      BY <2>4 DEF CrawlNext, CrawlStep, Fault, Stuck, CrawlFinished, crawlVars,
         RaiseOnLoad, OpenVerdicts, WriteVerdicts, Rerun, Crash, Spill, Answered,
         NotFound, Refused, Leave
    <3> QED BY <3>1 DEF Taken
  <2> QED BY <2>1, <2>2, <2>3, <2>4
<1>2. IInv => TypeOK
  BY DEF IInv
<1> QED
  BY <1>1, <1>2, SpecInv, RowsInit, RowsStep, RunsAlone, PTL DEF NeverAskedAgain

-----------------------------------------------------------------------------
(* The poll of the site.  What a run has been shown lies in a chunk or in  *)
(* the buffer; a row is taken for known only while it lies there, and a    *)
(* chunk gets a number that no file has.                                   *)
Chunk == [rows : SUBSET Entry, cut : SUBSET Entry]

SiteTypes ==
  /\ chunks \in Seq(Chunk)
  /\ dedup \subseteq Entry /\ siteBuffer \subseteq Entry

ShownIsKept ==
  /\ siting \in {"poll", "save", "last"} =>
       /\ nextChunk = Len(chunks) + 1
       /\ dedup \subseteq RowsOn \cup siteBuffer
       /\ polled \subseteq RowsOn \cup siteBuffer
  /\ siting = "merge" => polled \subseteq RowsOn
  /\ siting = "done"  => polled \subseteq merged.rows

SiteInv == SiteTypes /\ ShownIsKept

(* A chunk put at the next number loses no file before it.                 *)
LEMMA PutAppends ==
  ASSUME chunks \in Seq(Chunk), nextChunk = Len(chunks) + 1, NEW c \in Chunk,
         chunks' = Put(c)
  PROVE  /\ chunks' \in Seq(Chunk) /\ Len(chunks') = Len(chunks) + 1
         /\ RowsOn' = RowsOn \cup c.rows
<1>1. Len(chunks) \in Nat /\ chunks' = Append(chunks, c)
  BY LenProperties DEF Put
<1>2. /\ chunks' \in Seq(Chunk) /\ Len(chunks') = Len(chunks) + 1
      /\ \A n \in 1..Len(chunks) : chunks'[n] = chunks[n]
      /\ chunks'[Len(chunks) + 1] = c
  BY <1>1, AppendProperties
<1>3. DOMAIN chunks = 1..Len(chunks) /\ DOMAIN chunks' = 1..(Len(chunks) + 1)
  BY <1>2, LenProperties
<1>4. Readable' = Readable \cup {n \in {Len(chunks) + 1} : c.rows \cup c.cut # {}}
  BY <1>1, <1>2, <1>3 DEF Readable
<1>5. \A n \in Readable : chunks'[n] = chunks[n]
  BY <1>2, <1>3 DEF Readable
<1>6. RowsOn' = UNION {chunks'[n].rows : n \in Readable'}
  BY DEF RowsOn
<1>7. RowsOn' = RowsOn \cup c.rows
  <2>1. ASSUME NEW x \in RowsOn'
        PROVE  x \in RowsOn \cup c.rows
    <3>1. PICK n \in Readable' : x \in chunks'[n].rows
      BY <1>6, <2>1
    <3> QED BY <1>2, <1>4, <1>5, <3>1 DEF RowsOn
  <2>2. ASSUME NEW x \in RowsOn
        PROVE  x \in RowsOn'
    <3>1. PICK n \in Readable : x \in chunks[n].rows
      BY <2>2 DEF RowsOn
    <3> QED BY <1>4, <1>5, <1>6, <3>1
  <2>3. ASSUME NEW x \in c.rows
        PROVE  x \in RowsOn'
    <3>1. Len(chunks) + 1 \in Readable'
      BY <1>4, <2>3
    <3> QED BY <1>2, <1>6, <2>3, <3>1
  <2> QED BY <2>1, <2>2, <2>3
<1> QED BY <1>2, <1>7

LEMMA SiteInvInit == SiteInit => SiteInv
  BY DEF SiteInit, SiteInv, SiteTypes, ShownIsKept

LEMMA CrashKeepsChunks ==
  ASSUME SiteInv, CrashSite
  PROVE  SiteInv'
<1>1. /\ siting' = "start" /\ UNCHANGED <<dedup, siteBuffer>>
      /\ siting \in {"poll", "save", "last", "merge"}
  BY DEF CrashSite
<1>2. ASSUME NEW rows \in SUBSET Entry, NEW t \in Torn(rows)
      PROVE  t \in Chunk
  BY <1>2 DEF Torn, Chunk
<1>3. chunks' \in Seq(Chunk)
  <2>1. CASE UNCHANGED chunks
    BY <2>1 DEF SiteInv, SiteTypes
  <2>2. ASSUME siting = "save",
               NEW part \in kSubset(ChunkSize, siteBuffer),
               NEW t \in Torn(part), chunks' = Put(t)
        PROVE  chunks' \in Seq(Chunk)
    <3>1. part \subseteq Entry
      BY <2>2 DEF kSubset, SiteInv, SiteTypes
    <3> QED BY <1>2, <2>2, <3>1, PutAppends DEF SiteInv, SiteTypes, ShownIsKept
  <2>3. ASSUME siting = "last", NEW t \in Torn(siteBuffer), chunks' = Put(t)
        PROVE  chunks' \in Seq(Chunk)
    BY <1>2, <2>3, PutAppends DEF SiteInv, SiteTypes, ShownIsKept
  <2> QED BY <2>1, <2>2, <2>3 DEF CrashSite
<1> QED BY <1>1, <1>3 DEF SiteInv, SiteTypes, ShownIsKept

LEMMA SiteInvStep ==
  SiteInv /\ (SiteStep \/ Advance \/ PollFails \/ CrashSite \/ UNCHANGED siteVars)
    => SiteInv'
<1> SUFFICES ASSUME SiteInv,
                    SiteStep \/ Advance \/ PollFails \/ CrashSite \/ UNCHANGED siteVars
             PROVE  SiteInv'
  OBVIOUS
<1> USE DEF SiteInv, SiteTypes, ShownIsKept
<1>1. CASE StartSite
  <2>1. RowsOn \subseteq Entry
    <3>1. \A n \in DOMAIN chunks : chunks[n] \in Chunk
      BY ElementOfSeq, LenProperties
    <3>2. \A n \in Readable : chunks[n].rows \subseteq Entry
      BY <3>1 DEF Readable, Chunk
    <3> QED BY <3>2 DEF RowsOn
  <2> QED BY <1>1, <2>1 DEF StartSite, NextPoll, RowsOn, Readable
<1>2. CASE Poll
  BY <1>2 DEF Poll, InRange, OnPage, RowsOn, Readable
<1>3. CASE SaveChunk
  <2>1. PICK part \in kSubset(ChunkSize, siteBuffer) :
          /\ chunks' = Put([rows |-> part, cut |-> {}])
          /\ siteBuffer' = siteBuffer \ part
    BY <1>3 DEF SaveChunk
  <2>2. part \subseteq siteBuffer /\ [rows |-> part, cut |-> {}] \in Chunk
    BY <2>1 DEF kSubset, Chunk
  <2>3. /\ siting = "save" /\ siting' = "save" /\ nextChunk' = nextChunk + 1
        /\ UNCHANGED <<dedup, polled>>
    BY <1>3 DEF SaveChunk
  <2>4. /\ chunks' \in Seq(Chunk) /\ Len(chunks') = Len(chunks) + 1
        /\ RowsOn' = RowsOn \cup part
    BY <2>1, <2>2, <2>3, PutAppends
  <2> QED BY <2>1, <2>2, <2>3, <2>4
<1>4. CASE EndRound
  BY <1>4 DEF EndRound, NextPoll, RowsOn, Readable
<1>5. CASE SaveLast
  <2>1. siting = "last" /\ siting' = "merge" /\ UNCHANGED <<dedup, siteBuffer, polled>>
    BY <1>5 DEF SaveLast
  <2>2. CASE siteBuffer = {}
    BY <1>5, <2>1, <2>2 DEF SaveLast, RowsOn, Readable
  <2>3. CASE siteBuffer # {}
    <3>1. [rows |-> siteBuffer, cut |-> {}] \in Chunk
          /\ chunks' = Put([rows |-> siteBuffer, cut |-> {}])
      BY <1>5, <2>3 DEF SaveLast, Chunk
    <3> QED BY <2>1, <3>1, PutAppends
  <2> QED BY <2>2, <2>3
<1>6. CASE MergeChunks
  <2>1. chunks = <<>> => RowsOn = {}
    BY DEF RowsOn, Readable
  <2> QED BY <1>6, <2>1 DEF MergeChunks, RowsOn, Readable
<1>7. CASE Advance
  BY <1>7 DEF Advance, RowsOn, Readable
<1>8. CASE PollFails
  BY <1>8 DEF PollFails, NextPoll, RowsOn, Readable
<1>9. CASE CrashSite
  BY <1>9, CrashKeepsChunks
<1>10. CASE UNCHANGED siteVars
  BY <1>10 DEF siteVars, RowsOn, Readable
<1> QED
  BY <1>1, <1>2, <1>3, <1>4, <1>5, <1>6, <1>7, <1>8, <1>9, <1>10 DEF SiteStep

(* However often the poll of the site dies, and whatever it leaves torn,   *)
(* a run that reaches its end has merged every row it was shown            *)
(* (0_crawl_sandwiched_me.py: load_existing_chunks, next_chunk_idx,        *)
(* merge_chunks).                                                          *)
THEOREM WhatIsShownIsMerged == CrawlersSpec => []PolledIsMerged
<1>1. CrawlersInit => SiteInv
  BY SiteInvInit DEF CrawlersInit
<1>2. SiteInv /\ [CrawlersNext]_crawlerVars => SiteInv'
  BY SiteInvStep DEF CrawlersNext, BundlesNext, PricesNext, SiteNext, crawlerVars
<1>3. SiteInv => PolledIsMerged
  BY DEF SiteInv, ShownIsKept, PolledIsMerged
<1> QED BY <1>1, <1>2, <1>3, PTL DEF CrawlersSpec
=============================================================================
