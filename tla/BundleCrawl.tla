---------------------------- MODULE BundleCrawl ----------------------------
(***************************************************************************)
(* src/sandwich-intent/0_crawl_jito_bundle_ids.py: which one-slot          *)
(* sandwiches sit whole in one Jito bundle.  The bundle of a leg comes     *)
(* from retained content where an epoch is covered, from the answers of    *)
(* earlier runs kept in an append-only file, and from the API, asked by a  *)
(* pool of workers in two stages.  A run may die at any point and be       *)
(* started again.                                                          *)
(***************************************************************************)
EXTENDS Integers, FiniteSets

CONSTANTS
  Sandwich,      (* the candidates                                         *)
  Type,          (* CORE_TYPES: frontRun, victim, backRun                  *)
  FrontOrBack,   (* the two types stage 1 asks for                         *)
  Sig, Bundle,
  Legs,          (* records [sid, type, sig]                               *)
  SlotOf,        (* the one slot of each candidate                         *)
  SlotsPerEpoch,
  DB,            (* --bundle-dbs                                           *)
  NoBundle,      (* the answer "": the transaction landed in no bundle     *)
  Missing,       (* no answer                                              *)
  Worlds,        (* the values of world a behaviour may start from         *)
  Workers,       (* --workers                                              *)
  Limit,         (* --limit; 0 is no limit                                 *)
  MaxAttempts,   (* the attempts of fetch_via_api.one                      *)
  MaxFaults,     (* bound: API errors of a behaviour                       *)
  MaxCrashes     (* bound: runs that die                                   *)

Slot == {SlotOf[sid] : sid \in Sandwich}

ASSUME CrawlAssumption ==
  /\ FrontOrBack \subseteq Type
  /\ Legs \subseteq [sid : Sandwich, type : Type, sig : Sig]
  /\ SlotOf \in [Sandwich -> Nat]
  /\ SlotsPerEpoch \in Nat \ {0}
  /\ "header" \notin Sig /\ "empty" \notin Sig
  /\ NoBundle \notin Bundle /\ Missing \notin Bundle \cup {NoBundle}
  /\ Worlds \subseteq [truth : [Sig -> Bundle \cup {NoBundle}],
                       held : [DB -> SUBSET Nat], unknown : SUBSET Sig]
  /\ Workers \in Nat \ {0} /\ Limit \in Nat /\ MaxAttempts \in Nat \ {0}
  /\ MaxFaults \in Nat /\ MaxCrashes \in Nat

VARIABLES
  world,      (* truth: the bundle of each signature; held: the slots each *)
              (* database retains bundle content of; unknown: the          *)
              (* signatures the API answers with 404                       *)
  file,       (* jito_bundle_ids.csv: whether it exists, its first line    *)
              (* ("header", "empty" or a signature's row) and the rows     *)
              (* after it; a row's answer is the truth                     *)
  buffer,     (* what the open file has not written yet: header, rows      *)
  pc,
  resolved,   (* signature -> bundle id, NoBundle or Missing               *)
  queue,      (* legs of the stage no worker has taken                     *)
  inflight,   (* legs a worker is asking for                               *)
  attempts,   (* failed attempts for each leg in flight                    *)
  ok,         (* stats["ok"] of the stage                                  *)
  published,  (* the sandwiches in bundle_sandwiches_<range>.csv           *)
  faults, crashes

crawlVars == <<world, file, buffer, pc, resolved, queue, inflight, attempts,
               ok, published, faults, crashes>>

Answer == Bundle \cup {NoBundle, Missing}

TypeOK ==
  /\ world \in Worlds
  /\ file \in [exists : BOOLEAN, head : {"empty", "header"} \cup Sig,
               rows : SUBSET Sig]
  /\ buffer \in [header : BOOLEAN, rows : SUBSET Sig]
  /\ pc \in {"start", "stage1", "stage2", "verdict", "write", "done", "raised"}
  /\ resolved \in [Sig -> Answer]
  /\ queue \subseteq Legs /\ inflight \subseteq Legs
  /\ attempts \in [Legs -> 0..(MaxAttempts - 1)]
  /\ ok \in Nat
  /\ published \subseteq Sandwich
  /\ faults \in 0..MaxFaults /\ crashes \in 0..MaxCrashes

-----------------------------------------------------------------------------
EpochOf(slot) == slot \div SlotsPerEpoch

(* Slots held by two databases are counted twice.                          *)
HeldPairs(epoch) ==
  {p \in DB \X UNION {world.held[db] : db \in DB} :
     p[2] \in world.held[p[1]] /\ EpochOf(p[2]) = epoch}

Covered(slot) == 2 * Cardinality(HeldPairs(EpochOf(slot))) >= SlotsPerEpoch

InContent(slot) == \E db \in DB : slot \in world.held[db]

LegsOf(sig) == {l \in Legs : l.sig = sig}

FromStored(sig) ==
  \E l \in LegsOf(sig) :
    /\ Covered(SlotOf[l.sid]) /\ InContent(SlotOf[l.sid])
    /\ world.truth[sig] # NoBundle

(* csv.DictReader takes the first line for the header, whatever it is, and *)
(* then every further row lacks the column "signature".                    *)
LoadRaises == file.exists /\ file.head \in Sig /\ file.rows # {}

(* Mutant: an empty bundle id is taken for no answer.                      *)
LoadedBundles ==
  IF file.head = "header" THEN {sig \in file.rows : world.truth[sig] # NoBundle} ELSE {}

Loaded == IF file.head = "header" THEN file.rows ELSE {}

(* Mutant: a leg of a covered epoch is in no bundle, whatever is known.    *)
KnownCoveredFirst ==
  [sig \in Sig |->
     IF \E l \in LegsOf(sig) : Covered(SlotOf[l.sid]) THEN NoBundle
     ELSE IF sig \in Loaded THEN world.truth[sig] ELSE Missing]

(* Before the API is asked: content, then the file, then a leg of a        *)
(* covered epoch that neither has is taken to be in no bundle.             *)
Known ==
  [sig \in Sig |->
     IF FromStored(sig) \/ sig \in Loaded THEN world.truth[sig]
     ELSE IF \E l \in LegsOf(sig) : Covered(SlotOf[l.sid]) THEN NoBundle
     ELSE Missing]

-----------------------------------------------------------------------------
FrontBack(sid) == {l \in Legs : l.sid = sid /\ l.type \in FrontOrBack}

Open(res, ls) == {l \in ls : res[l.sig] = Missing}

(* Mutant: sandwiches of which one leg is answered are taken for done.     *)
Stage1Untouched(res) ==
  UNION {FrontBack(sid) : sid \in {x \in Sandwich : Open(res, FrontBack(x)) = FrontBack(x)}}

Stage1(res) == Open(res, UNION {FrontBack(sid) : sid \in Sandwich})

(* Victims are asked for once every front and back leg is answered and one *)
(* of them is in a bundle.                                                 *)
Stage2(res) ==
  LET worthIt == {sid \in Sandwich :
                    /\ Open(res, FrontBack(sid)) = {}
                    /\ \E l \in FrontBack(sid) : res[l.sig] # NoBundle}
  IN  Open(res, {l \in Legs : l.sid \in worthIt /\ l.type \notin FrontOrBack})

(* Mutant: a leg of every core type is in some bundle.                     *)
InAnyBundle(answers, sid) ==
  \A t \in Type : \E l \in Legs, b \in Bundle :
    l.sid = sid /\ l.type = t /\ answers[l.sig] = b

(* One bundle holds a leg of every core type.                              *)
InOneBundle(answers, sid) ==
  \E b \in Bundle : \A t \in Type :
    \E l \in Legs : l.sid = sid /\ l.type = t /\ answers[l.sig] = b

Decide(answers) == {sid \in Sandwich : InOneBundle(answers, sid)}

Unresolved == {l \in Legs : resolved[l.sig] = Missing}

-----------------------------------------------------------------------------
CrawlInit ==
  /\ world \in Worlds
  /\ file \in {[exists |-> FALSE, head |-> "empty", rows |-> {}],
               [exists |-> TRUE, head |-> "header", rows |-> {}]}
  /\ buffer = [header |-> FALSE, rows |-> {}]
  /\ pc = "start"
  /\ resolved = [sig \in Sig |-> Missing]
  /\ queue = {} /\ inflight = {} /\ attempts = [l \in Legs |-> 0]
  /\ ok = 0 /\ published = {}
  /\ faults = 0 /\ crashes = 0

RaiseOnLoad ==
  /\ pc = "start" /\ LoadRaises
  /\ pc' = "raised"
  /\ UNCHANGED <<world, file, buffer, resolved, queue, inflight, attempts, ok,
                 published, faults, crashes>>

(* The stage the fetch begins or goes on with, given what is known.        *)
NextStage(res) ==
  IF pc = "start" /\ Stage1(res) # {} THEN "stage1"
  ELSE IF Stage2(res) # {} THEN "stage2" ELSE "verdict"

StageLegs(stage, res) ==
  CASE stage = "stage1" -> Stage1(res)
    [] stage = "stage2" -> Stage2(res)
    [] OTHER -> {}

StartRun ==
  /\ pc = "start" /\ ~LoadRaises
  /\ resolved' = Known
  /\ pc' = NextStage(Known)
  /\ queue' = StageLegs(pc', Known)
  /\ inflight' = {} /\ attempts' = [l \in Legs |-> 0] /\ ok' = 0
  /\ IF pc' = "verdict"
     THEN UNCHANGED <<file, buffer>>
     ELSE /\ file' = [file EXCEPT !.exists = TRUE]
          /\ buffer' = [header |-> ~file.exists, rows |-> {}]
  /\ UNCHANGED <<world, published, faults, crashes>>

-----------------------------------------------------------------------------
Fetching == pc \in {"stage1", "stage2"}

Stopped == Limit > 0 /\ ok >= Limit

(* A worker takes a leg; after the stop event it drops it unasked.         *)
Take(l) ==
  /\ Fetching /\ l \in queue /\ Cardinality(inflight) < Workers
  /\ queue' = queue \ {l}
  /\ inflight' = IF Stopped THEN inflight ELSE inflight \cup {l}
  /\ UNCHANGED <<world, file, buffer, pc, resolved, attempts, ok, published,
                 faults, crashes>>

Leave(l) == inflight' = inflight \ {l} /\ attempts' = [attempts EXCEPT ![l] = 0]

(* 200: under the lock, the row is written to the open file's buffer.      *)
Answered(l) ==
  /\ Fetching /\ l \in inflight /\ l.sig \notin world.unknown
  /\ buffer' = [buffer EXCEPT !.rows = @ \cup {l.sig}]
  /\ resolved' = [resolved EXCEPT ![l.sig] = world.truth[l.sig]]
  /\ ok' = ok + 1
  /\ Leave(l)
  /\ UNCHANGED <<world, file, pc, queue, published, faults, crashes>>

(* 403, 429, 503, another status or a network error; the last attempt      *)
(* gives the leg up.                                                       *)
Refused(l) ==
  /\ Fetching /\ l \in inflight /\ faults < MaxFaults
  /\ faults' = faults + 1
  /\ IF attempts[l] + 1 = MaxAttempts
     THEN Leave(l)
     ELSE attempts' = [attempts EXCEPT ![l] = @ + 1] /\ UNCHANGED inflight
  /\ UNCHANGED <<world, file, buffer, pc, resolved, queue, ok, published,
                 crashes>>

(* 404 is not an answer.                                                   *)
NotFound(l) ==
  /\ Fetching /\ l \in inflight /\ l.sig \in world.unknown
  /\ Leave(l)
  /\ UNCHANGED <<world, file, buffer, pc, resolved, queue, ok, published,
                 faults, crashes>>

(* The files the buffer may be written to.  A file that has no header gets *)
(* a row for its first line.                                               *)
AfterFlush ==
  IF buffer.header \/ file.head # "empty" \/ buffer.rows = {}
  THEN {[exists |-> TRUE,
         head   |-> IF buffer.header THEN "header" ELSE file.head,
         rows   |-> file.rows \cup buffer.rows]}
  ELSE {[exists |-> TRUE, head |-> first, rows |-> buffer.rows \ {first}] :
          first \in buffer.rows}

Flush ==
  /\ file' \in AfterFlush
  /\ buffer' = [header |-> FALSE, rows |-> {}]

(* The buffer fills, or the 250th answer flushes it.                       *)
Spill ==
  /\ Fetching /\ (buffer.header \/ buffer.rows # {})
  /\ Flush
  /\ UNCHANGED <<world, pc, resolved, queue, inflight, attempts, ok, published,
                 faults, crashes>>

(* fetch_via_api flushes and returns; after stage 1 the victims worth      *)
(* asking for are derived again, with a count and a stop event of their    *)
(* own.                                                                    *)
StageDone ==
  /\ Fetching /\ queue = {} /\ inflight = {}
  /\ Flush
  /\ pc' = (IF pc = "stage1" THEN NextStage(resolved) ELSE "verdict")
  /\ queue' = StageLegs(pc', resolved)
  /\ ok' = 0
  /\ UNCHANGED <<world, resolved, inflight, attempts, published, faults,
                 crashes>>

-----------------------------------------------------------------------------
(* open(out, "w") empties the verdicts of an earlier run of the range.     *)
OpenVerdicts ==
  /\ pc = "verdict"
  /\ published' = {} /\ pc' = "write"
  /\ UNCHANGED <<world, file, buffer, resolved, queue, inflight, attempts, ok,
                 faults, crashes>>

WriteVerdicts ==
  /\ pc = "write"
  /\ published' = Decide(resolved) /\ pc' = "done"
  /\ UNCHANGED <<world, file, buffer, resolved, queue, inflight, attempts, ok,
                 faults, crashes>>

(* "Re-run to finish", the warning says.                                   *)
Rerun ==
  /\ pc = "done" /\ Unresolved # {}
  /\ pc' = "start"
  /\ UNCHANGED <<world, file, buffer, resolved, queue, inflight, attempts, ok,
                 published, faults, crashes>>

(* The process dies and is started again.  What the buffer holds is lost;  *)
(* of the verdicts being written any part is on disk.                      *)
Crash ==
  /\ Fetching \/ pc = "write"
  /\ crashes < MaxCrashes
  /\ crashes' = crashes + 1
  /\ pc' = "start"
  /\ buffer' = [header |-> FALSE, rows |-> {}]
  /\ IF pc = "write"
     THEN \E part \in SUBSET Decide(resolved) : published' = part
     ELSE UNCHANGED published
  /\ queue' = {} /\ inflight' = {} /\ attempts' = [l \in Legs |-> 0] /\ ok' = 0
  /\ resolved' = [sig \in Sig |-> Missing]
  /\ UNCHANGED <<world, file, faults>>

CrawlStep ==
  \/ RaiseOnLoad \/ StartRun
  \/ \E l \in Legs : Take(l) \/ Answered(l) \/ NotFound(l)
  \/ StageDone \/ OpenVerdicts \/ WriteVerdicts \/ Rerun

Fault == Spill \/ Crash \/ \E l \in Legs : Refused(l)

(* A file no run can load stops every later run.                           *)
Stuck == pc = "raised" /\ UNCHANGED crawlVars

CrawlFinished == pc = "done" /\ Unresolved = {} /\ UNCHANGED crawlVars

CrawlNext == CrawlStep \/ Fault \/ Stuck \/ CrawlFinished

(* A run that was started goes on, and its operator starts it again while  *)
(* it warns of unresolved legs.                                            *)
CrawlSpec == CrawlInit /\ [][CrawlNext]_crawlVars /\ WF_crawlVars(CrawlStep)

-----------------------------------------------------------------------------
(* A published verdict is true: one bundle of the real chain holds a front *)
(* run, a victim and a back run of the sandwich, in whatever order answers *)
(* and crashes came, even when content is partial (decide).                *)
VerdictsSound ==
  \A sid \in published : \E b \in Bundle : \A t \in Type :
    \E l \in Legs : l.sid = sid /\ l.type = t /\ world.truth[l.sig] = b

(* Asking for victims only where a front or back leg is in a bundle loses  *)
(* no verdict: once the short list is empty, every bundle sandwich is      *)
(* published, but for one whose slot is missing from the content of an     *)
(* epoch that counts as covered (api_shortlist, covered_slot_ranges).      *)
ShortlistLosesNothing ==
  pc = "done" /\ Stage1(resolved) = {} /\ Stage2(resolved) = {} =>
    \A sid \in Decide(world.truth) :
      \/ sid \in published
      \/ Covered(SlotOf[sid]) /\ ~InContent(SlotOf[sid])

(* No stage of any run lists a leg the file answers, "" included, and a    *)
(* worker asks only for what its stage lists.  So an answer is asked for   *)
(* again only for another leg with the same signature, which may be listed *)
(* beside it (load_existing_map: "An empty bundle_id is a real answer").   *)
Taken == inflight' \ inflight

NeverAskedAgain ==
  [][/\ \A l \in queue' \ queue : l.sig \notin file'.rows
     /\ Taken \subseteq queue
     /\ \A l \in Taken :
          l.sig \in file.rows => \E m \in LegsOf(l.sig) : m # l]_crawlVars

(* While errors end and someone re-runs it, every verdict that can be      *)
(* known is published, unless a crash has left a file that cannot be       *)
(* loaded; --limit and exhausted attempts only delay it.                   *)
EventuallyPublished ==
  <>(\/ pc = "raised"
     \/ \A sid \in Decide(world.truth) :
          \/ sid \in published
          \/ \E l \in Legs : l.sid = sid /\ l.sig \in world.unknown
          \/ Covered(SlotOf[sid]) /\ ~InContent(SlotOf[sid]))
=============================================================================
