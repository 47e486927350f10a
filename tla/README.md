# A TLA+ model of the Solana sandwich detector

This directory holds a verification development of the programs in this
repository: TLA+ modules translated from the source, TLC configurations that
check them on small instances, and theorems that TLAPS proves for every value
of the constants.

Tools: `tlc -config jito_live.cfg MCJito` checks a run (each `.cfg` names its
module below), `tlapm JitoPipeline_proofs.tla` checks the proofs.

## 1. The system

`src/sandwich-detector` is a Go service with four commands. They share nothing
but a ClickHouse database.

| Component | State it keeps | Operations | Talks to |
|---|---|---|---|
| `leader` (sol/leader.go) | next slot to sync | catch-up loop, tail loop | writes `slot_leaders` |
| `sandwich` live / backfill (sol/sandwich.go, sol/backfill.go) | ring cache of 64 blocks, leaders of the cached slots, ids already emitted, slots that failed | fetch a batch, detect over pairs of leader rotations, store sandwiches and slot rows, one retry pass | reads `slot_leaders`, writes `sandwiches`, `sandwich_txs`, `slot_txs`, `slot_leaders` |
| finder (sol/sandwich_finder.go, tx_bucket.go, transfer.go, victim_slippage.go) | staged front, victim and back entries of one window | scan buckets, evaluate, record | pure, called once per window by a pool of workers |
| `jito` (jito/slot.go) | fetch: next slot, ceiling, batch, deferred slots, contiguous prefix; mark: current batch, last dropped epoch; shared: `fetchedThrough`, `fetchDone` | fetch task, mark task, delete-after-mark | reads `slot_txs`, `sandwich_txs`; writes `slot_bundles`, `jito_bundles`, the `inBundle` and `sandwichInBundleChecked` columns |
| RPC layer (sol/request.go, utils/) | retry counters, token bucket, LRU caches | worker pool, backoff, prefetch | Solana RPC, Jito API |
| `reset` (cmd/reset.go) | none | drops the tables | all tables |

`src/sandwich-intent` and `src/dataset` are Python scripts an operator runs by
hand, one at a time, in an order only a README prescribes. They share files and
read the detector's tables; each rewrites its outputs in place, and one that dies
leaves what it had written.

| Component | State it keeps | Operations | Talks to |
|---|---|---|---|
| bundle crawl (0_crawl_jito_bundle_ids.py) | append-only file of answers, its unflushed buffer, the verdict file | resolve from retained content, from the file, from the API in two stages with a pool of workers | reads `jito_bundles`, the Jito API; writes `bundle_sandwiches_<range>.csv` |
| token prices (0_crawl_token_price.py) | `token_price.csv` | batches of a price service, one rewrite at the end | read by phases 1, 3 and the dataset |
| site crawl (0_crawl_sandwiched_me.py) | numbered chunk files, the keys saved | poll, save, merge | another detector's web page |
| owner check (utils/check_owner_accounts.py) | `<database>_owners.csv` | look up every owner key at the head of the chain | read by phase 1 |
| phase 1 (1_signer_data_preparation_and_summary.py) | features and per-sandwich files of a category | epoch by epoch: dedup, gaps, slippage, bundle flags; entity merge; profit floor | reads the detector's tables |
| phase 2 (2_parameter_selection_...py) | none | funnel, bands, sweeps | reads the features |
| phase 3 (3_attacker_filter.py, utils/intent.py) | attacker and sandwich files of a category, the merged list | tracks, tiers, expert verdicts, leader geometry, merge over categories | reads phase 1, `slot_leaders` |
| phase 4 (4_validator_association.py) | none | rotations, baseline, flagged pairs, cohorts | reads phase 3, `slot_leaders` |
| dataset builder (dataset/build_dataset.py) | public tables, leg files | attackers, sandwiches, packing of legs by epoch | reads phase 3 |

`src/sandwich-analysis` draws figures. `src/db` repeats the table definitions.

### What is hard

* The commands run at the same time and see each other only through tables: a
  query answers for one moment, its answer is used for several statements, and
  the other task has gone on (stale reads in the mark task).
* Rows of a slot arrive late: the detector stores a sandwich with the batch
  that completes its window, a backfill retries missed slots at the very end,
  the fetch task defers the slots the API refuses.
* Raw bundles are deleted by epoch. Deleting is only right when nobody will
  read, or write, the epoch again, which is what `fetchedThrough`, the lags and
  the ascending order are for.
* Database errors are logged and mostly ignored; nothing of the tasks' progress
  is persisted, so a restart starts over and leans on the tables.

* The scripts of the analysis hand files to each other with no check that they
  belong together: a file may be of another population, of an earlier run, cut
  in the middle of a row, or older than what it was made from.
* The analysis decides by thresholds, borders and missing values: an epoch's
  edge, a slot without a leader, a victim without a limit, a metric without a
  value.

The list of hazards, each at its line with the properties that watch it, is in
`PROJECT.json`. Where a property covers a hazard only in part (under a plan, for
files that are current, with a case excepted) the entry has a note that says what
is left, and section 3 lists what the code does there.

### What makes each component correct

* Jito pipeline: no slot is judged without its evidence; a verdict is the true
  one and final; no evidence is written where nobody will delete it; every slot
  that is due is judged; a bounded run ends.
* Window stream: a sandwich within two adjacent rotations is emitted exactly
  once however the blocks are batched; a slot row implies that its sandwiches
  are stored.
* Finder: no transaction is a leg of two sandwiches of a window; the entries
  recorded are ordered front, victims, back, and their labels say why they were
  accepted; same-leader sandwiches get their legs before cross-leader ones.
* Leader sync: no slot of the synced range is left out; the arithmetic at the
  tip does not wrap.
* Crawlers: what is published is true; what was learned is not asked for again;
  what was seen is not lost; everything that can be known is known in the end.
* Entities: exactly the connected components of shared keys, whatever the order.
* Phases 1 to 4: each sandwich counts once; a score stands for all its victims;
  legs across an epoch's border are not lost; the funnel that is reported is the
  filter that is applied; the baseline that flags a pair is chance.
* Dataset: the attackers of the merged list, each leg once.
* RPC layer: every slot of a batch is answered or reported missing; a caller
  waiting for a token gets one.

## 2. Modules

| Module | Models | Notes |
|---|---|---|
| `JitoTables` | the four tables of the pipeline and the statements over them (db/clickhouse.go) | a table is a function of the slot, a row is one of the values the queries tell apart |
| `BundleFetch` | the fetch task (jito/slot.go 104-206) | program counter `fpc`; one action per statement another task can interleave with |
| `BundleMark` | the mark task (208-338) | program counter `mpc`; extends `BundleFetch` because it reads `fetchedThrough` and `fetchDone` |
| `JitoPipeline` | the process, its restarts and commands, the detector as the tables see it, all properties | the specification `Spec`, with fairness `FairSpec` |
| `VerdictLedger` | abstract specification of delete-after-mark | `ImplementsLedger` is the refinement |
| `LeaderWindows` | rotations, successors, windows, which are due, who owns a sandwich (sol/sandwich.go 78-289) | operators only; a block is its slot |
| `SandwichStream` | the `sandwich` command, live and backfill: fetch, cache, scan, workers, storing, retry (sol/sandwich.go, backfill.go, block_cache.go, lru.go) | program counter `pc`; constant `Live` chooses the command |
| `SandwichFinder` | the search of a window and what is kept of it (sol/sandwich_finder.go, tx_bucket.go, transfer.go) | extends `LeaderWindows`; one step per sandwich recorded, per bucket and tier, per window |
| `SandwichStream_proofs`, `SandwichFinder_proofs` | theorems | see section 4 |
| `MCFinder` | chains for the finder | |
| `MCStream` | a leader schedule and sandwiches for the runs | |
| `MCJito` | the command sequences the runs use | |
| `JitoPipeline_proofs` | theorems | see section 4; its second part holds what rests on how the tasks are run |
| `BundleCrawl` | 0_crawl_jito_bundle_ids.py | a run is `start`, two API stages, `verdict`, `write`; workers are the legs in flight |
| `PriceCrawl`, `SiteCrawl` | 0_crawl_token_price.py, 0_crawl_sandwiched_me.py | a batch is one step, a file write may be cut anywhere |
| `Crawlers` | which crawler runs | composes the three; variable `script` |
| `EntityMerge` | anchors, union-find, naming and the legacy mode of phase 1; utils/check_owner_accounts.py | each iteration of `find` is a step |
| `SandwichMetrics` | phase 1 per sandwich: epoch windows, `_dedup`, gaps, slippage consumption, bundle flags | one step per epoch |
| `LeaderGeometry` | utils/intent.py: `leader_geometry`, `leader_rotations`, `boundary_suppression`, classes | extends `SandwichMetrics`, whose rows it is joined to |
| `ValidatorPairs` | phase 4 | extends `LeaderGeometry` |
| `AttackerRules` | features, profit floor, tracks, tiers, verdicts, merge | operators on rows |
| `GateFunnel`, `DatasetParts` | phase 2; build_dataset.py | operators |
| `AttackerFiles` | the scripts as jobs over files | one action per file written; composes the three above |
| `IntentScripts` | who the attackers are, or what the jobs do with them | composes `EntityMerge` and `AttackerFiles`; variable `aspect` |
| `MCCrawl`, `MCEntity`, `MCMetrics`, `MCAttackers`, `MCIntent` | worlds for the runs | |
| `IntentScripts_proofs`, `BundleCrawl_proofs`, `Metrics_proofs` | theorems | see section 4; `IntentScripts_proofs` speaks of `EntityMerge` and `AttackerFiles` too, `BundleCrawl_proofs` of `Crawlers` |
| `Totals` | lemmas about sums and extremes of finite sets | for the proofs |
| `Rotations` | lemmas about `LeaderWindows`: rotations and windows when blocks are added or dropped | for the proofs |

### How the model corresponds to the code

A slot is a number; `slotTxs[x]`, `sandwichTxs[x]`, `slotBundles[x]` and
membership in `jitoBundles` stand for its rows. The constants `Bundled` and
`Hit` say which slots have bundles and which have a sandwich transaction inside
one; a slot's several transactions behave alike, so one stands for all. The
module comments name the lines. Each statement that reads or writes a table, or
a variable shared by the tasks, is a step of its own; what a task does on its
locals in between belongs to the step before it.

* `Detect` stores the rows of one batch. A sandwich of slot `x` may be stored
  now or with a later batch, at most `DetectLag` slots on (the rotation the
  detector defers, and the successor of a rotation). `DetectRetry` is the retry
  pass of a backfill.
* `Crash` restarts the running command with fresh locals; the tables survive.
* A failing statement (`StoreFaults`) leaves its table as it was. A failing
  query only makes the loop start over, except the look-up of an already
  fetched slot, after which the slot is fetched again.
* Sleeping and polling loops wait in the guard of the next step.

In `SandwichStream`:

* One batch is `FetchLive`/`FetchBackfill`/`FetchRetry`, `Scan`, a `Report` per
  sandwich, then one step per INSERT. `GetBlocks` is a choice among the
  `Answers` its worker pool may give: blocks of `Flaky` slots may be missing.
* `cache` is the ring of `BlockCache`: a ring that replaces its oldest entry is
  a queue of bounded length. `leaders` is the memo of `GetSlotLeader`, among the
  cached slots. A backfill fills it from block rewards; both the rewards and the
  rows of `slot_leaders` are seen only through whether a look-up succeeds, which
  for the slots in `Unresolved` may change from batch to batch.
* A sandwich is reported by a window that contains all slots of its
  transactions (`LegsOf`). What a finder makes of the transactions themselves, in
  particular which of several overlapping candidates it claims, is the question
  of `SandwichFinder`.
* `Report` is the critical section of a worker. Windows are scanned by parallel
  workers, so reports come in any order; the order decides what `seen` evicts.
* `chain` and `late` are history: the blocks got in the first pass and in the
  retry pass. The reference the properties compare with is `WholeChain`, what
  the windows would find if the whole chain were there at once.

In `SandwichFinder`:

* There is one pool of two tokens. A leg trades in one pool and pools never see
  each other, so several would only be copies. A transaction is its index in the
  chain; a window holds those of its blocks, in the same order.
* How the pool and the owners of a leg are told from balance changes is outside:
  a swap comes with the wallets that may own it (`sources`, `sinks`). Amounts are
  integers of one size, so rounding changes nothing.
* The nested loops over fronts, first back run and further back runs are the
  least triple that fits (`Fits`, `Sooner`); what the loops stage and test on the
  way has no effect but through the one that is accepted. `claimed` is
  `confirmedSandwichTxIdx`, `hits` the finder's result, `kept` what the command
  keeps after its owner test and its test by id.
* `OpenWindow` takes windows in order: finders share nothing, and of two windows
  over the same blocks only one owns a sandwich (`OneOwner`).
* `window` inside a hit is history. Profit, `perfect`, the flags of adjacency and
  the slippage of victims are computed from a recorded sandwich and are left out.

`IntentScripts` puts two views of the scripts under one specification; a
behaviour shows one of them, chosen at the start, while the other keeps still.

`SandwichStream` and `JitoPipeline` meet in the tables. `Detect` of the latter
is the former seen through them: `RowsWrittenOnce` is why `Detect` may write a
slot's row only once, `FoundBeforeLag` why a sandwich is stored at most
`MarkLag` slots late.

In the modules of the analysis:

* A pandas or SQL pipeline over a table is an operator on a set of records; a
  row that is written twice has `copies`, one whose contents conflict a `ver`
  that orders the two as `_dedup` does. Rates are compared as fractions.
* In `BundleCrawl` a row of the answers file is its signature, for its answer is
  the truth; `head` is the first line of the file, which the CSV reader takes
  for the header whatever it is. `buffer` is what the open file has not written;
  a row goes into it and out of it as a whole (each is one short write to a text
  file, whose layer hands on whole writes), so a death cuts no row of this file.
  `world` is what the script meets: the true bundles, what each database
  retains, the signatures the API does not know.
* In `EntityMerge` keys are numbers, ordered as the strings are. Connectedness
  is stated without paths (`Linked`: no set closed under the edges separates the
  two), which serves both TLC and the proofs. Every sandwich there is of the
  category `diff_signer_owner`, the scope both scripts share. `mapped` are the keys
  and names in the entity maps on disk, which `candidates` adds to the owners in
  the database (check_owner_accounts.py 92-97): `OldMaps` are those of earlier runs,
  `Finish` writes the run's own.
* In `SandwichMetrics` and the modules on it `world` is a database, chosen once;
  the steps follow the scripts over it. In `AttackerFiles` `world.rows` are the
  rows of phase 1 before the floor, so that the two meet in the record `Row`.
* `current` in `AttackerFiles` is history: the outputs whose inputs have not been
  replaced since. `chain`, `late` and `polled` are history, too.

Two statements of the code that are not what its comments say, found while
translating and harmless to what is checked: `XL_CLASSES` (utils/intent.py 372)
is introduced as a partition, but `all_victims` is part of `first_victim`, as
`CrossLeaderSplits` states; and the Jito track "has no floor"
(3_attacker_filter.py 7), but phase 1's floor has removed the entities with SOL
profit below it before the track sees them (`EveryAttackerEarned`).

## 3. Runs

The `jito_` instances have epochs of 2 or 3 slots, batches of 3, lags of 1 and 2 (the
fetch lag below the mark lag, as in config.go), two attempts per batch and
5 to 9 slots: enough for three to five epochs, for batches that straddle an
epoch boundary, for a mark batch cut by its LIMIT, and for slots that are empty,
missed, refused, with and without a hit.

| Run | Module | Question | Answer |
|---|---|---|---|
| `jito_staged` | MCJito | fetch ahead, then mark after detection, with a crash: is evidence kept until used, each verdict true and final, the rest purged, and does it end? | holds |
| `jito_live` | MCJito | both tasks behind the detector, unbounded, an API that recovers: is nothing checked before its sandwiches are stored, every due slot checked? (`CHECK_DEADLOCK FALSE`: the modelled chain ends while the live command waits for more) | holds |
| `jito_faults` | MCJito | any statement fails: flag before check | holds |
| `jito_straddle` | MCJito | "every epoch strictly below the one we just marked into is now fully checked" | refuted |
| `stream_backfill` | MCStream | a backfill with missing blocks, an unknown leader, a failing INSERT and the retry pass: is everything the whole chain's windows hold stored, each slot recorded once, and does it end? | holds |
| `stream_live` | MCStream | live, with a tip that may run away and a failing INSERT: nothing twice, what two rotations hold stored before the mark task may look, no transaction without its sandwich? | holds |
| `windows` | MCFinder | every window of all small chains, batch by batch: are the sandwiches found sound, is nothing of the same leader lost to another leader, does what the first tier finds depend on the window? | holds |
| `stream_skipped_turn` | MCStream | the tail rotation "is left for the next batch", "no sandwich is left pending" | refuted |
| `crawl` | MCCrawl | the crawlers with API errors, unknown signatures, `--limit`, runs that die with a buffer or within a write, re-runs: true, complete, no stage for what is on file, quoted in the end? | holds |
| `metrics` | MCMetrics | legs on every slot and border, amounts of every kind, duplicated rows, missing leaders: each sandwich once, gaps, scores, classes and the baseline right? | holds |
| `intent` | MCIntent | every order of the edges in every merge mode, the token account cache absent, current or stale: components, named by the smallest wallet? And crawl, phases 1 and 3 and the dataset builder in any order, one of which dies between two files: one population, earned places, the dataset is the merged list? | holds |
| `funnel_bands` | MCAttackers | entities without a metric "are outside every band" | refuted |

What the refuted runs show, and why the passing ones pass in spite of it:

* `jito_straddle`: the mark task's batch is a snapshot. In live mode a batch can
  contain slots of epoch e+1 while a slot of epoch e, refused at first and
  answered in the batch's second attempt, was recorded after the query.
  `fetchedThrough` has passed e by the time the batch is marked, so e is dropped
  with that slot unchecked.
* `funnel_bands`: `np.searchsorted` puts a value that is not a number behind every
  edge, and the clip that follows leaves it in the last band, where it is counted
  with its dollars. The gates compare and do reject it, so
  `FunnelSelectsSignalBots` is not affected.

The `stream_` instances have turns of 2 slots, batches of 4, 12 slots (16 for the
live command, which stays behind the tip), a leader with two turns in a row that
cross a batch boundary, and sandwiches within a block, a turn, two turns, with
and without transactions in between, and across a batch. `CacheSize` is a batch
and the rotation before it, `SeenSize` fewer than the sandwiches there are, so
both evict. `MarkLag` is a batch, a run of one leader's turns. All of them set `CHECK_DEADLOCK FALSE`: a backfill ends, and the
modelled chain ends under a live command.

* `stream_skipped_turn`: a deferred tail is scanned only if a slot-adjacent
  successor turns up in the next batch. When the next leader produces no block
  the rotation has no successor and no new slot, and is never looked at again,
  in live and in backfill mode. `stream_backfill` has no such gap at a batch
  boundary; `FoundBeforeLag` speaks of rotations that have a successor and holds
  with any gap.
* The cache must hold a batch *and* the longest rotation before it, or that
  rotation's first blocks are gone when its successor arrives (`FoundBeforeLag`
  fails in `stream_live` with `CacheSize = 6`). config.go:60 asks for a batch
  only. `FoundBeforeMarkLag` (section 4) says how much is enough: a batch, a turn
  and two runs of one leader.

The chains of the finder have eight slots in turns of two, the middle leader
with two turns in a row, and two batches of four, so that the first batch cuts
its rotation; gaps of two, amounts alike within 10 %. `TurnWorlds` are all
placements of five swaps over the turns, after the first both ways and by an
attacker or another, the leader of one slot perhaps unknown; `GroupWorlds` groups of fronts
and backs whose amounts match alone or only together, with routes that can be no
legs; `LinkWorlds` every way two sides may or may not be linked; `SpreadWorlds` fronts
and backs over three rotations whose amounts match for two or for all of them;
`GapWorlds` what the next paragraph tells.

A claim of an earlier version of this project was that only cross-leader
sandwiches share a leg across windows, always a back run that is a front run of
the next rotation. The attempt to prove it failed, and TLC confirms that it is
false: a cross-leader sandwich takes the middle one of three swaps of a rotation,
then the second tier finds a sandwich of this rotation's leader alone whose group
leaps over the middle one; the window before knows nothing of it and may have
given one of the same legs to a cross-leader sandwich of its own. What is true is that the *first* tier does not depend on the
window, and that is what `FirstTierUnshared` says. `GapWorlds` are such chains; they
violate the former claim.

The instances of the analysis:

* `crawl`: two candidates in two epochs, of which the content of the databases
  holds nothing, half an epoch with or without the candidate's slot; two workers,
  `Limit = 1`, two attempts, at most two API errors (`MaxFaults`) and one death
  (`MaxCrashes`); five tokens in batches of two, `MaxPriceFaults = 2`,
  `MaxPriceCrashes = 1`; a page of six entries in chunks of two,
  `MaxRounds = 3` polls of a run (`range(MAX_ROUND)`), `MaxPollFaults = 1`,
  `MaxSiteCrashes = 1`. Enough for a leg that exhausts its attempts and for a file
  whose header was lost, and the only unbounded quantity, how often the operator
  starts again, is not bounded.
* `intent`, entities: four keys, one of them a token account that sorts first, three
  sandwiches in two epochs with every choice of four leg pairs (but for those that
  differ by exchanging the two sandwiches of the first epoch); a chain of three
  keys, so paths are halved and roots linked both ways. Entity maps of earlier runs
  are absent or name a token account and a wallet.
* `metrics`: six slots, two to an epoch and to a turn. `Layouts` are all
  arrangements of legs on three slots, `SCWorlds` all pairs of victims over
  amounts of every sign around the limits, `EpochWorlds` two sandwiches on all
  borders in several categories, `GeometryWorlds` every span within a double
  rotation under every schedule with holes, `PairWorlds` three bots under
  rotations of every length. They are inputs, so the run is broad and not deep.
* `intent`, files: two categories, two epochs, three addresses with histories on both
  sides of every gate and floor; one job dies (`MaxCrashes = 1`). The parts hold 6
  and 3 legs, so both kinds are split.

Met while modelling, and not kept as runs of their own:

* The file of the bundle crawl is opened for appending and gets its header from
  the same buffer as its rows. A run that dies in between leaves a file whose
  first row is read as the header, and every later run raises `KeyError`
  (0_crawl_jito_bundle_ids.py 241, 428). `token_price.csv` of zero bytes does the
  same. The properties that speak of the end name both (`pc = "raised"`).
* A leg of a covered epoch whose slot is not held counts as in no bundle; with
  two databases holding the same slot, coverage is counted twice
  (0_crawl_jito_bundle_ids.py 106-123, 404-419). `ShortlistLosesNothing` excepts
  it, `VerdictsSound` shows it never publishes a false verdict.
* `WINDOW_SLACK` is two turns of four slots ("a detection window spans two
  rotations", utils/intent.py 32-34), but a rotation is a maximal run of one
  leader (sandwich.go 78). A leader with two turns in a row at the border of an
  epoch makes a window that reaches further, and a back run beyond the slack is
  not read: the geometry locates it at slot 0, with the empty leader. TLC violates
  `NoLegLost` as soon as a world of `metrics` has turns of four slots with its
  slack of four; the worlds of the run keep within the slack.
* An epoch whose sandwiches all lack victims ends phase 1 with `KeyError`
  (1_signer_data_preparation_and_summary.py 1259).
* Parts of an earlier build of the dataset stay beside the new ones.
* `fetchedThrough = 0` is taken for "no limit" by the mark task: with a refused
  slot in the very first batch it stays 0 for the whole loop, and a partition may
  be written again after it was dropped (slot.go 262, db/clickhouse.go).
* A finder starts with nothing claimed. A leader with two turns in a row whose
  rotation is cut by a batch boundary is scanned twice: in the short window of the
  first batch a leg may go to a cross-leader sandwich, in the full window of the
  second to a same-leader one, and both are kept under different ids
  (sandwich.go 233; the README says "two tiers: same-leader claims legs first",
  which holds within a window, `SameLeaderFirst`). `FirstTierUnshared` therefore
  speaks of windows that were complete when they were scanned.
* A partition whose DROP fails is logged and the epoch counts as dropped: its
  bundles stay for good (slot.go 228). `jito_faults` explores the failure; no
  document says otherwise.
* The ids already emitted and the cached blocks are in memory only, and
  `sandwiches` keeps duplicates: a live command that is restarted over slots it
  has already scanned stores them again (sandwich.go 96).
* The live command never asks again for a slot whose block it did not get; the
  retry pass belongs to the backfill alone (sandwich.go 68).
* The emptiness of the mark query and the two conditions of its end are read at
  different moments, and marking next to a backfill that will still retry missed
  slots drops bundles these would need. `jito_staged` marks only when detection
  is over.
* The frontier of the fetch task passes slots whose INSERT failed, and is set to
  `endSlot` after the retry pass even if slots of it failed again (slot.go:182,
  202).
* A backfill whose last batch has no block returns before it flushes the tail
  that the batch before deferred (sandwich.go:100).
* The retry pass of a backfill scans all recovered blocks in one call; those
  that do not fit the 64-block ring are evicted before they are scanned, and
  recorded as scanned (backfill.go:172). In `stream_backfill` they fit.

### Fairness

`FairSpec` asks for weak fairness of each task (goroutines are scheduled, and
each loop either acts or polls), of the detector (it follows the chain), and of
the operator who starts the next command. Nothing obliges the process to crash,
the API to answer (`Recovers` is a constant of the run: in `jito_live` the API
answers at a batch's last attempt, which `EventuallyChecked` needs; `Terminates`
needs nothing of it), or a statement to fail.

For `SandwichStream`, weak fairness of the command as a whole (one process; its
workers are goroutines that share one short lock) and of the chain.
`Terminates` needs nothing of the RPC: what it does not answer is missing.

`CrawlersSpec`: weak fairness of the running script and of the operator who runs
it again while it prints that it should be ("Re-run to finish", "Re-run to pick
them up"). Answers are among the script's steps, errors are not: they are
bounded, so that `BundlesPublished` and `PricesQuoted` speak of a service that
answers in the end.

## 4. Proofs

`JitoPipeline_proofs` proves, for every value of the constants that satisfies
the assumptions named in the modules:

* `TypeCorrect`: `Spec => []TypeOK`, by the inductive invariant `TypeInv`
  (`TypeOK`, and a call to the API is only made while attempts are left, without
  which `attempt` could leave its range).
* `PrefixIsGapFree`: if no database statement fails, `Spec => []GapFree`.
  `GapFree` alone is not inductive, for `Advance` publishes a whole batch at
  once. `GapInv` adds that every slot of the current batch is recorded, answered
  and about to be recorded, or still to be asked for (`BatchAccounted`), and
  that `fetchedThrough` stays below `contiguousEnd`, whose prefix is recorded
  (`PrefixRecorded`). The assumption is needed: the code only logs a failed
  INSERT, and publishes the slots all the same.
* `FlagPrecedesCheck`: `Spec => FlaggedBeforeChecked`, with database faults and
  crashes. The invariant `FlagInv` follows a batch: what is to be flagged is
  stored, what was flagged stays so until the batch is checked. The second part
  needs that the detector never stores a slot's sandwich twice, hence
  `NotYetStored`.

Its second part proves what delete-after-mark promises. None of it holds for
every way to run the tasks (`jito_straddle` is a counterexample), so its theorems
name when it does:

* `Orderly` is `CalmStore` and one of two plans. `CalmStore`: no statement fails,
  a sandwich is stored at most `MarkLag` slots late (config.go 74-76 gives 2000 for
  that reason; `FoundBeforeLag` is the detector's side), and a block that is missed
  hides no sandwich of another slot.
* `StagedPlan`: mark runs fetch nothing and start when detection is over, the
  first command is none of them: `--fetch-bundle-only` (with `--fetch-ahead`)
  beside the backfill, then `--sync-in-bundle` alone (cmd/jito.go). The API may
  refuse what it likes.
* `LivePlan`: any commands beside a live detector, unbounded. The API answers
  before a batch's attempts are used up, and refuses no slot so close to the end
  of an epoch that a batch with the slot reaches into the next one. Without the
  first condition a deferred slot is never fetched, and never judged; without
  the second `jito_straddle` happens. TLC finds a counterexample to
  `LedgerIsImplemented` when either is dropped.

Under `Orderly`:

* `CheckedIsRight`: `Spec => []CheckedIsFlagged`.
* `DropsAreSafe`: `Spec => DroppedWhenChecked`.
* `LedgerIsImplemented`: `Spec => ImplementsLedger`, step by step: most map to a
  stutter, `Record` to holding, `CheckSlots` to judging, `DropEpoch` to dropping.
* `BundlesArePurged`: `Spec => []PurgedAtEnd` in a staged backfill whose first slot
  is beyond the first epoch (config.go 13).

`LedgerInv` is the invariant of the first three. It says of the detector that
below its frontier nothing of a slot is written any more (`DetectorInv`), of the
fetch task that its records are true and its answers held (`RecordsTrue`,
`AnswersHeld`), of both that they are apart or ascend (`StagedApart`,
`LiveAscends`: within a batch slots may be recorded out of order, across epochs
never), and of the mark task that no slot below its batch is left to check and
that what it has left behind is used (`BatchLowest`, `LeftBehindUsed`). The last
is what a drop needs, and it follows from no weaker one: that a batch is the
lowest that is due has to survive every step of the other task. `PurgeInv` adds
that bundles lie above `lastDropped` and never before the first slot.

`SandwichStream_proofs` proves, under the assumptions named in `LeaderWindows`
and `SandwichStream`:

* `SlotRecordedOnce`: `Spec => []RowsWrittenOnce`, in both modes. The invariant
  `RowInv` says that a slot with a row lies before `s` and is not to be retried,
  and that the batch at hand has no rows yet. The live case needs that rounding
  up to a turn never goes back (`AlignForward`, `NextLiveForward`).
* `NoTransactionWithoutSandwich`: `Spec => []NoOrphanTxs`, with failing
  INSERTs. Inductive with the fact that between the two INSERTs each sandwich of
  the batch has one row more than its transactions (`ParentsFirst`).
* `OneOwner`: rotations do not share blocks, so of the windows over one set of
  blocks at most one owns a sandwich. It is why the model may keep the reports
  of a batch as a set.
* `StoredOnce`: `Spec => []EmittedOnce` if `SeenCovers`: fewer than `2 * CacheSize` blocks
  hold no more sandwiches than `SeenSize`. A list of ids kept in the order of
  their last use forgets an id when `SeenSize` others were used since. `UsedSince`
  says that as long as the cache holds a leg of an id, whatever was used since is
  held by the blocks in the cache and those dropped since, fewer than
  `2 * CacheSize`; so an id is forgotten only when a leg has left the cache for good
  (`Gone`) and no window finds the sandwich again. The repository's values are
  64 and 200000: 127 blocks would need 1575 sandwiches each. The order in which
  the workers report is arbitrary.
* `FoundBeforeMarkLag`: `Spec => []FoundBeforeLag`, live and in a backfill, if `LagCovers`:
  two blocks of one leader that are `n` or more slots apart have a whole turn of
  others between them (`RunsEnd`), `n <= MarkLag`, and the cache holds
  `2 * n + Span + BatchNum` blocks. With 64 blocks and turns of four slots that is
  `n <= 26`, six turns in a row, live (batches of 8), and `n <= 14`, three turns, in a
  backfill (batches of 32); `MarkLag` is 2000. The condition is sufficient, not
  necessary: the caches of the runs are below it and TLC finds the property there, too.
  `LagInv` collects what is needed: batches of the first pass ascend
  (`FrontierInv`), until the retry pass the cache is the end of what was scanned
  (`RingInv`), and what is not handled is in no pair of windows of what was
  scanned, or never will be (`SettledInv`). "Never" is a statement about every
  way the chain may go on; one set of missing leaders that rules the pair out is
  enough, because `Paired` asks for the pair under each such set. What the cached
  blocks show of a window is what the whole chain shows, because rotations are
  determined by their neighbourhood (`Rotations`: `SuffixWindow`, `PrefixWindow`).
* `NothingLeftBehind`: `Spec => []NoneLeftPending` for a backfill, if `CacheCovers` (the
  same, without the lag), `NoTurnSkipped` and the blocks that may be missing fit
  into the cache at once. `NoTurnSkipped` is what `stream_skipped_turn` violates:
  after each block another that is certain to be got comes within a turn, and the
  last slot has one. It adds to `LagInv` that the blocks behind the frontier have
  no such gap (`EndInv`, `ChainGapless`), that what is not handled is owned by no window,
  or only by the last one, and then the last slot has not come (`HeldInv`), and
  that a late block is handled when its batch has been scanned (`LateInv`). A
  deferred tail whose successor comes with the next batch is a pair by then; one
  that goes on itself has new blocks; there is no third way without a gap.

`SandwichFinder_proofs` proves, for any chain, leaders, batches and limits:

* `WindowIsSound`: `FinderSpec => []SandwichesSound`. The invariant `HitsInv`
  adds to the property that every leg of a hit is claimed: only then is a group
  of free transactions disjoint from the hits of the other bucket and tier
  (`GroupIsFree`). That the labels say why (`AcceptedIsLinked`) rests on sums over
  nothing being no evidence (`NothingPaid`, `NothingGot`): an accepted pair linked
  by transfers alone has one to record.
* `SameLeaderIsFirst`: `FinderSpec => []SameLeaderFirst`. `ScanInv`: of the buckets and
  tiers before, every pair that would do alone is touched by a sandwich; of the
  one at hand, the pairs whose front run has been a seed. A pair nothing has
  touched is free (`TouchedOrFree`), and so its seed has a match (`PairFits`), which
  the least one is then taken of (`ScanFinds`).
* `FirstTierIsUnshared`: `FinderSpec => []FirstTierUnshared`. An outcome of a window is
  described without the scan (`Outcome`, kept by `GreedyInv`): of each bucket and seed, in
  order, the least triple that fits what is not claimed yet. A first-tier
  sandwich lies in one rotation (`FitsAreOf`, `LegsOneSide`), a rotation in each of
  its windows as a whole (`SideIsWhole`), and what fits a seed there is decided by
  the rotation's own transactions (`LocalGroup`, `FitsInside`, `FitStays`). So two windows
  with the rotation find the same in it, turn by turn (`CopyNext`, `Copies`), and the
  test by id keeps one (`FirstIsUnshared`). The turns are finitely many and ordered;
  the first that differs is refuted, which takes the place of an induction.

`IntentScripts_proofs` proves of `EntityMerge`, for every set of keys, all sandwiches and modes:

* `ParentLinksHold`: `EntitySpec => []ParentLinks` (parents are smaller and
  connected keys, so every `find` ends; proved only, no run repeats it), and
* `EntitiesAreComponents`: `EntitySpec => []EntityIsComponent`;
* `WalletsNameEntities`: `EntitySpec => []WalletNamesEntity`, from the assumption
  that a fee payer is a wallet (`FeePayersAreWallets`: a token account is owned by
  the token program and cannot sign). `NoFlaggedAnchor` says it of the anchors
  from the moment they are chosen; the owner cache only ever flags token accounts;
* `LegacySplitsOnly`: `EntitySpec => []LegacyOnlySplits`. `LegacyLinks` shows it for
  every order of the epochs, not only the two of the code: whichever epoch
  overwrites the root of a signer, the root is one it is connected to.

The first two rest on one inductive invariant. `United` says that every edge taken is
within the parent links, the last of them as soon as its union ends (while
`findA` and `findB` are under way, between the roots found so far); `JoinsLinked`
that a union under way joins keys that are connected; `LabelsAreRoots` that a
label is a root its key leads to. `HalvingKeepsLinks` and `LinkingKeepsLinks`
carry the links over a step; `RootsApart` (no two roots are linked) turns "same
component" into "same label". Its proof takes the least set that holds a root
and is closed under being hung, instead of an induction over path lengths.

`BundleCrawl_proofs` proves, for every chain, content and order of answers:

* `VerdictsAreSound`: `CrawlSpec => []VerdictsSound`, and `CrawlersVerdictsSound`,
  the same of `CrawlersSpec`. `AnswersTrue` is the invariant it needs: an answer
  is true, missing, or "no bundle" for a gap of a covered epoch.
* `ShortlistIsEnough`: `CrawlSpec => []ShortlistLosesNothing`, if a signature lies
  in one slot (`OneSlotEach`, a fact of the chain the code relies on too).
* `AnswersAreKept`: `CrawlersSpec => NeverAskedAgain`, an action property of every
  step: what is put into the queue of a stage is not answered by the file, what a
  worker takes was in the queue, and if its signature has come to be answered
  meanwhile, another leg has the same signature. A stage lists legs, not
  signatures: two legs of one transaction in the stage are two requests. The
  invariant `RowsAreKnown` says that the run knows the answers of all rows the file
  has or is about to get, and that what waits is in no such row unless it shares
  its signature; `FlushedRows` that a flush adds no other rows, whatever becomes of
  the header.
* `WhatIsShownIsMerged`: `CrawlersSpec => []PolledIsMerged`. `SiteInv` says where
  each row that was shown is at each stage of a run: in a readable chunk, in the
  buffer, or on its way into a chunk whose number is free (`PutAppends`: a chunk
  put at the next number loses no file before it, torn ones included).

`Metrics_proofs` proves what run `metrics` checks for every database, epoch
length, range, schedule and threshold. The databases are those of
`WorldsAssumption` (an id is made of the signatures of the first front and back
leg, sandwich_finder.go 490 and 565, so rows with one id have one slot; tables
are finite) and `WindowAssumption` (front runs before victims before back runs, and
at most one change of leader between them).

* `EachIsMeasuredOnce`: `PairsSpec => []EachSandwichOnce`. `MInv`: the rows so far are
  those of the epochs so far; a slot is in the window of one epoch (`OneWindow`),
  and `_dedup` keeps one row of each key (`DedupKeeps`).
* `ScoresCoverVictims`: `PairsSpec => []ScoreCoversVictims`, by cases over the
  aggregate of `compute_victim_sc`, in integers: fractions are compared by
  multiplying, for any size of the amounts.
* `GapsAreCounts`: `PairsSpec => []GapsCountTransactions` if `BlocksCounted`: every
  leg's slot has its row in `slot_txs`, with the length of its block
  (sandwich.go 368). A failed INSERT, which the detector only logs, makes a slot
  count as empty, and the difference of coordinates is then less than what was
  passed.
* `SlackIsEnough`, `ObservedIsExpectedEvent`, `TwoKindsOfCrossing`:
  `PairsSpec => []NoLegLost`, `[]CrossingLeavesRotation`, `[]CrossLeaderSplits`, if
  `WithinSlack`: no leg lies further than `WINDOW_SLACK` from its sandwich's slot.
  That is true of two turns of four slots and of no longer windows;
  the windows of a leader with several turns in a row are longer (section 3). `GInv` says in which epoch what is
  joined was located. That the closed form min(span, k) / k counts the placements
  of the front run that cross needs that a rotation has no hole.
* `BaselineIsChance`: `PairsSpec => []ChanceIsNeutral`, for every `OFFSET_MAX`: counting
  the slots near a validator one by one is counting them rotation by rotation.
* `CohortsShareNothing`: `PairsSpec => []CohortsOwnValidators`. `CohortInv` keeps that
  the flagged pairs are finitely many; `CohortIsLeast` that a cohort is the least
  set closed under sharing a validator.

`IntentScripts_proofs` also proves the file side of run `intent`, for every database, price
list, threshold, order of jobs and number of deaths. The databases are those of
`RowsAssumption`: a sandwich without a score is anomalous or unprotected
(aggregate_sc_per_sandwich, 705-711), the scopes of the categories exclude each
other (`CATEGORY_SCOPES`, 186-211), and a bundle sandwich was verified with a
profit (utils/intent.py 139-165; `apply_profit_floor` asserts it).

* `FilesInvHolds`: `FilesSpec => []FilesInv`, on which the others rest. A file in
  `current` is what its job makes of its inputs, these are in `current` too
  (`Phase1Current`, `Phase3Current`, `MergedCurrent`, `DatasetCurrent`), and a job
  under way holds one computation of which it has written a first part, while
  none of its outputs counts as current (`Phase1Job`, `Phase3Job`, `DatasetJob`). That
  a job starts by withdrawing its outputs is what makes a death harmless.
* `OnePopulationHolds`: `FilesSpec => []OnePopulation`, of both phases. Phase 1
  filters rows and features by one set, and counting what is left again changes
  no feature (`FloorKeepsFeatures`): an entity keeps all its rows or none. Phase 3
  takes its counts from the features and its sandwiches from the rows; that they
  agree is `CurrentAttackers`. Files that are not current are excepted: phase 3
  started on the remains of a phase 1 that died reads two populations.
* `EveryAttackerEarnedHolds`: `FilesSpec => []EveryAttackerEarned`, track by track
  (`CurrentTypes`, `TracksAreEarned`), and by the way the floor treats an entity with
  bundle sandwiches only: it needs a profit, not the floor. Without a floor the
  Jito track asks for one verified bundle sandwich and nothing else.
* `FunnelSelectsSignalBotsHolds`: `FilesSpec => []FunnelSelectsSignalBots`. The Signal
  Bots are the entities the funnel selects that earned `SignalUsd`, for which no
  stage of the funnel asks. With a positive floor no lower than that, nobody else
  is selected but entities the floor lets through for their bundles. The defaults
  are 100 and 10 dollars; without a floor (`--profit-floor-usd 0`) the two differ
  by anybody who earned less.
* `DatasetIsMergedListHolds`: `FilesSpec => []DatasetIsMergedList`, for a build from a
  merged list that is up to date: the sandwiches, exactly, and the columns. The
  merged list adds the counts and dollars of the categories, the builder counts
  pooled rows anew; they agree because no sandwich is in two categories
  (`TotalOfParts`). A build from anything older reads the files of phase 3 as they
  are, and nothing is said of it.
* `PartsPackLegsHolds`: `FilesSpec => []PartsPackLegs`. `PackOk` is the invariant of the
  loop of `pack_epochs`: the closed parts and the open one lie apart, cover each
  epoch with a leg so far, and keep the limit or hold one epoch. `PackStepKeeps`
  carries it over an epoch, `PackedExists` shows that the loop's recursive
  function exists, and the first epoch at which `PackOk` fails is refuted.
  `PartsInv` says that the tables a build reads are finite, stale ones included.
* `ScriptsAreBoth`: `ScriptsSpec => EntitySpec /\ FilesSpec`. The run checks the
  composition `ScriptsSpec`; what is proved of `EntityMerge` and of `AttackerFiles`
  holds of it.

`Totals` holds what these need of sums. `MapThenSumSet` is defined by recursion
over a set, and the induction theorem that would compute it takes an operator as
a parameter. The lemmas avoid it: a claim that fails for some subset of a finite
set fails for a smallest one (`SmallestFinite`), which one element more or less
refutes. A sum is any function that satisfies the recursion (`IsSum`); there is one
over every finite set and two agree, so its value depends on neither the order
nor the set it is part of. From there: sums of equals, of parts (`CountOfParts`,
`TotalOfParts`),
of bounded terms, and that finite sets of integers have extremes (`MinAndMax`).

### What stays with TLC

* Liveness (`Terminates`, `EventuallyChecked`, `BundlesPublished`, `PricesQuoted`): it
  needs fairness and ENABLED.
* Bounds smaller than the theorems' conditions: the runs `stream_backfill` and
  `stream_live` evict more than `CacheCovers` and `SeenCovers` allow, and the properties
  hold on their schedule all the same.

## 5. Plan

1. Jito pipeline: done as above. Left: a theorem that states when `NoReinsert` holds.
2. `SandwichStream`: done as above. Left: the least cache for which `FoundBeforeLag`
   holds; that it implements the detector of `JitoPipeline` as a refinement; restarts.
3. `SandwichFinder`: done as above. Left: the identification of pools and owners
   from balances; the slippage of victims.
4. `LeaderSync` (64-bit arithmetic at a small width), `BlockFetch` (worker pool,
   retries, token bucket), `LruCache` and the bundle id cache.
5. The analysis: done as above. Left: the features that are only plotted.

## 6. Not modelled

Parsing, HTTP, logging, flags and DDL: they decide no order of events.
`jito/recent.go` is not reachable from any command. Within the modelled part of
the detector, merging of duplicate rows by ReplacingMergeTree is left out: it
writes a slot's row once, and rewriting a `slot_bundles` row gives the same row.

Of the analysis: charts, printed reports and figures (`sandwich-analysis`,
`0_report_data_overview.py`, the report functions of each phase), which read
finished files and change none; `0_crawl_stakewiz.py`, one request whose file
only charts read; the rate limiter and `--validate` of the bundle crawl, which
change when an answer comes and not which; names, symbols and decimals of
tokens. Of the detector, the leader sync, the worker pool and limiter of the RPC
layer, the prefetching bundle id cache, the identification of pools and the
slippage of victims are in the plan.
