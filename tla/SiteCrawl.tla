----------------------------- MODULE SiteCrawl -----------------------------
(***************************************************************************)
(* src/sandwich-intent/0_crawl_sandwiched_me.py: one epoch of another      *)
(* detector's sandwiches, polled from a page that shows only the latest,   *)
(* written to numbered chunk files and merged at the end.  A run may die   *)
(* and be started again: it goes on from the chunks.                       *)
(***************************************************************************)
EXTENDS Integers, Sequences, FiniteSets, FiniteSetsExt

CONSTANTS
  Feed,         (* what the page shows in turn: records [slot, signed];    *)
                (* signed: front and back run both have a signature        *)
  Shown,        (* how many of them at once                                *)
  MinSlot, MaxSlot,   (* the epoch                                         *)
  ChunkSize,    (* CHUNK_SIZE                                              *)
  MaxRounds,    (* --max-rounds                                            *)
  MaxPollFaults, MaxSiteCrashes   (* bounds                                *)

ASSUME SiteAssumption ==
  /\ Feed \in Seq([slot : Nat, signed : BOOLEAN])
  /\ Shown \in Nat \ {0} /\ ChunkSize \in Nat \ {0} /\ MaxRounds \in Nat
  /\ MaxPollFaults \in Nat /\ MaxSiteCrashes \in Nat

(* A sandwich is known by its place in the feed, as it is by its slot and  *)
(* the two signatures.                                                     *)
Entry == DOMAIN Feed

VARIABLES
  head,         (* the newest sandwich of the page                         *)
  chunks,       (* the files chunk_0000.csv and on: [rows, cut]; cut: the  *)
                (* entries whose row broke off, which reads as another     *)
                (* sandwich.  A file with neither has no byte.             *)
  merged,       (* sandwiches_site_epoch_<n>.csv; without rows while absent*)
  siting,       (* where the run is                                        *)
  dedup,        (* the keys seen, those of loaded chunks included          *)
  siteBuffer,   (* the rows not in a chunk yet                             *)
  nextChunk,    (* next_chunk_idx, from 1                                  *)
  round,
  over,         (* saw_beyond                                              *)
  polled,       (* history: the rows the answers to this run showed        *)
  pollFaults, siteCrashes

siteVars == <<head, chunks, merged, siting, dedup, siteBuffer, nextChunk,
              round, over, polled, pollFaults, siteCrashes>>

-----------------------------------------------------------------------------
OnPage == {i \in Entry : i <= head /\ i > head - Shown}

(* parse_response.                                                         *)
InRange(page) == {i \in page : Feed[i].slot \in MinSlot..MaxSlot /\ Feed[i].signed}
Beyond(page)  == \E i \in page : Feed[i].slot > MaxSlot

Readable == {n \in DOMAIN chunks : chunks[n].rows \cup chunks[n].cut # {}}
RowsOn == UNION {chunks[n].rows : n \in Readable}
CutOn  == UNION {chunks[n].cut : n \in Readable}

Put(chunk) == IF nextChunk > Len(chunks) THEN Append(chunks, chunk)
              ELSE [chunks EXCEPT ![nextChunk] = chunk]

NextPoll(rnd) == IF rnd < MaxRounds THEN "poll" ELSE "last"

-----------------------------------------------------------------------------
SiteInit ==
  /\ head \in {0} \cup {i \in Entry : i >= Shown}
  /\ chunks = <<>> /\ merged = [rows |-> {}, cut |-> {}]
  /\ siting = "start"
  /\ dedup = {} /\ siteBuffer = {} /\ nextChunk = 1
  /\ round = 0 /\ over = FALSE /\ polled = {}
  /\ pollFaults = 0 /\ siteCrashes = 0

Advance ==
  /\ head < Len(Feed)
  /\ head' = head + 1
  /\ UNCHANGED <<chunks, merged, siting, dedup, siteBuffer, nextChunk, round,
                 over, polled, pollFaults, siteCrashes>>

(* Mutant: it goes on with the last chunk.                                 *)
StartSiteOver ==
  /\ siting = "start"
  /\ dedup' = RowsOn
  /\ siteBuffer' = {} /\ nextChunk' = Max({1, Len(chunks)})
  /\ round' = 0 /\ over' = FALSE /\ polled' = {}
  /\ siting' = NextPoll(0)
  /\ UNCHANGED <<head, chunks, merged, pollFaults, siteCrashes>>

(* crawl: a chunk that cannot be read is passed over, yet keeps its number.*)
StartSite ==
  /\ siting = "start"
  /\ dedup' = RowsOn
  /\ siteBuffer' = {} /\ nextChunk' = Len(chunks) + 1
  /\ round' = 0 /\ over' = FALSE /\ polled' = {}
  /\ siting' = NextPoll(0)
  /\ UNCHANGED <<head, chunks, merged, pollFaults, siteCrashes>>

PollFails ==
  /\ siting = "poll" /\ pollFaults < MaxPollFaults
  /\ pollFaults' = pollFaults + 1
  /\ round' = round + 1 /\ siting' = NextPoll(round')
  /\ UNCHANGED <<head, chunks, merged, dedup, siteBuffer, nextChunk, over,
                 polled, siteCrashes>>

Poll ==
  /\ siting = "poll"
  /\ LET rows == InRange(OnPage)
     IN  /\ siteBuffer' = siteBuffer \cup (rows \ dedup)
         /\ dedup' = dedup \cup rows
         /\ polled' = polled \cup rows
  /\ over' = Beyond(OnPage)
  /\ round' = round + 1
  /\ siting' = "save"
  /\ UNCHANGED <<head, chunks, merged, nextChunk, pollFaults, siteCrashes>>

(* save_chunk, for as long as the buffer fills one.                        *)
SaveChunk ==
  /\ siting = "save" /\ Cardinality(siteBuffer) >= ChunkSize
  /\ \E part \in kSubset(ChunkSize, siteBuffer) :
       /\ chunks' = Put([rows |-> part, cut |-> {}])
       /\ siteBuffer' = siteBuffer \ part
  /\ nextChunk' = nextChunk + 1
  /\ UNCHANGED <<head, merged, siting, dedup, round, over, polled, pollFaults,
                 siteCrashes>>

(* The loop ends with an answer from beyond the epoch, or its last round.  *)
EndRound ==
  /\ siting = "save" /\ Cardinality(siteBuffer) < ChunkSize
  /\ siting' = (IF over THEN "last" ELSE NextPoll(round))
  /\ UNCHANGED <<head, chunks, merged, dedup, siteBuffer, nextChunk, round,
                 over, polled, pollFaults, siteCrashes>>

SaveLast ==
  /\ siting = "last"
  /\ chunks' = IF siteBuffer = {} THEN chunks
               ELSE Put([rows |-> siteBuffer, cut |-> {}])
  /\ siting' = "merge"
  /\ UNCHANGED <<head, merged, dedup, siteBuffer, nextChunk, round, over,
                 polled, pollFaults, siteCrashes>>

(* merge_chunks: no file, nothing is written; no file that can be read,    *)
(* pandas raises.                                                          *)
MergeChunks ==
  /\ siting = "merge"
  /\ IF chunks = <<>> THEN siting' = "done" /\ UNCHANGED merged
     ELSE IF Readable = {} THEN siting' = "raised" /\ UNCHANGED merged
     ELSE siting' = "done" /\ merged' = [rows |-> RowsOn, cut |-> CutOn]
  /\ UNCHANGED <<head, chunks, dedup, siteBuffer, nextChunk, round, over,
                 polled, pollFaults, siteCrashes>>

(* What a write killed in the middle leaves of some rows.                  *)
Torn(rows) ==
  {[rows |-> kept \ cut, cut |-> cut] :
     kept \in SUBSET rows, cut \in {{}} \cup {{i} : i \in rows}}

CrashSite ==
  /\ siting \in {"poll", "save", "last", "merge"} /\ siteCrashes < MaxSiteCrashes
  /\ siteCrashes' = siteCrashes + 1
  /\ siting' = "start"
  /\ CASE siting = "save" /\ Cardinality(siteBuffer) >= ChunkSize ->
            /\ \E part \in kSubset(ChunkSize, siteBuffer) :
                 \E t \in Torn(part) : chunks' = Put(t)
            /\ UNCHANGED merged
       [] siting = "last" /\ siteBuffer # {} ->
            /\ \E t \in Torn(siteBuffer) : chunks' = Put(t)
            /\ UNCHANGED merged
       [] siting = "merge" /\ Readable # {} ->
            /\ merged' \in Torn(RowsOn)
            /\ UNCHANGED chunks
       [] OTHER -> UNCHANGED <<chunks, merged>>
  /\ UNCHANGED <<head, dedup, siteBuffer, nextChunk, round, over, polled,
                 pollFaults>>

SiteStep ==
  \/ StartSite \/ Poll \/ SaveChunk \/ EndRound \/ SaveLast \/ MergeChunks

SiteEnded == siting \in {"done", "raised"}

-----------------------------------------------------------------------------
(* What a run that reaches its end was shown of the epoch is in the merged *)
(* file, whether it wrote the row itself or took it for one an earlier     *)
(* run had saved, and whatever chunks that run left torn                   *)
(* (load_existing_chunks, next_chunk_idx, merge_chunks).                   *)
PolledIsMerged ==
  siting = "done" => polled \subseteq merged.rows
=============================================================================
