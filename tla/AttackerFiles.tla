--------------------------- MODULE AttackerFiles ---------------------------
(***************************************************************************)
(* The scripts of sandwich-intent and dataset as jobs that hand files to   *)
(* each other: the bundle crawl publishes verdicts, phase 1 writes two     *)
(* files for a category, phase 3 two more and the merged list, the dataset *)
(* builder its tables and parts.  Each file is replaced by one write, the  *)
(* files of a job one after the other, and a job may die in between.  Jobs *)
(* run one at a time, in any order, as often as the operator likes.        *)
(***************************************************************************)
EXTENDS DatasetParts, GateFunnel

CONSTANTS
  Worlds,       (* the databases a behaviour may start from                *)
  TopNs,        (* the values of --csv-top-n tried                         *)
  Absent,       (* a file that is not there                                *)
  MaxCrashes    (* bound: jobs that die                                    *)

(* The rows of phase 1: a sandwich has a score unless it is anomalous or   *)
(* unprotected (aggregate_sc_per_sandwich), the scopes of the categories   *)
(* exclude each other (CATEGORY_SCOPES), and a bundle sandwich is only     *)
(* verified when it made money (verified_bundle_sandwiches; the assert in  *)
(* apply_profit_floor).                                                    *)
ASSUME RowsAssumption ==
  \A w \in Worlds :
    /\ \A c \in Category :
         /\ IsFiniteSet(w.rows[c])
         /\ \A r \in w.rows[c] :
              /\ Column \subseteq DOMAIN r
              /\ r.profit \in Int /\ r.fee \in Int
              /\ r.sc = Nothing => r.anomaly \/ r.unprotected
              /\ r.id \in w.old \cup w.new => r.profit > 0
    /\ \A c, d \in Category : \A r \in w.rows[c], q \in w.rows[d] :
         r.id = q.id => c = d

VARIABLES
  world,        (* rows: category -> the rows of phase 1 before the floor, *)
                (* whose bundle flag the verdicts set; old, new: the       *)
                (* verified bundle sandwiches before and after a crawl     *)
  verdicts,
  metricsFile, featuresFile,      (* phase 1, for each category            *)
  attackersFile, sandwichesFile,  (* phase 3, for each category            *)
  mergedFile,
  publicAttackers, publicSandwiches,
  parts,        (* the leg files in dataset/: name -> legs                 *)
  job,          (* the job under way: kind, category, next step            *)
  out,          (* what it has computed and still has to write             *)
  current,      (* history: the outputs written by a job that ended, from  *)
                (* current inputs, none of them replaced since             *)
  crashes

files == <<metricsFile, featuresFile, attackersFile, sandwichesFile,
           mergedFile, publicAttackers, publicSandwiches, parts>>
fileVars == <<world, verdicts, files, job, out, current, crashes>>

NoJob == [kind |-> "none", cat |-> Nothing, step |-> Nothing]
Idle == job = NoJob

On(file) == {c \in Category : file[c] # Absent}

FilesInit ==
  /\ world \in Worlds /\ verdicts = world.old
  /\ metricsFile = [c \in Category |-> Absent]
  /\ featuresFile = [c \in Category |-> Absent]
  /\ attackersFile = [c \in Category |-> Absent]
  /\ sandwichesFile = [c \in Category |-> Absent]
  /\ mergedFile = Absent
  /\ publicAttackers = Absent /\ publicSandwiches = Absent
  /\ parts = << >>
  /\ job = NoJob /\ out = Nothing
  /\ current = {} /\ crashes = 0

Start(kind, cat, step, result) ==
  /\ Idle
  /\ job' = [kind |-> kind, cat |-> cat, step |-> step]
  /\ out' = result
  /\ UNCHANGED <<world, verdicts, files, crashes>>

GoOn(step) == job' = [job EXCEPT !.step = step] /\ UNCHANGED <<out, current>>

End(outputs) ==
  job' = NoJob /\ out' = Nothing /\ current' = current \cup outputs

Writing(kind, step) ==
  /\ job.kind = kind /\ job.step = step
  /\ UNCHANGED <<world, verdicts, crashes>>

MergedList == <<"merged", "all">>
Dataset == <<"dataset", "all">>

-----------------------------------------------------------------------------
(* The crawl's last run replaces the verdicts of the range.                *)
Crawl ==
  /\ Idle /\ verdicts # world.new
  /\ verdicts' = world.new /\ current' = {}
  /\ UNCHANGED <<world, files, job, out, crashes>>

(* Mutant: the floor is applied to the features only.                      *)
StartPhase1Unfiltered(c) ==
  /\ world.rows[c] # {}
  /\ LET features == Features({[r EXCEPT !.bundle = r.id \in verdicts] : r \in world.rows[c]})
     IN  Start("phase1", c, "metrics",
               [metrics  |-> {[r EXCEPT !.bundle = r.id \in verdicts] : r \in world.rows[c]},
                features |-> Only(features, Survivors(features))])
  /\ current' = current \ ({<<"phase1", c>>, <<"phase3", c>>} \cup {MergedList, Dataset})

(* Phase 1.  Without a sandwich in scope it returns before it writes.      *)
Rows(c) == {[r EXCEPT !.bundle = r.id \in verdicts] : r \in world.rows[c]}

StartPhase1(c) ==
  /\ world.rows[c] # {}
  /\ LET features == Features(Rows(c))
         keep     == Survivors(features)
     IN  Start("phase1", c, "metrics",
               [metrics  |-> {r \in Rows(c) : r.signer \in keep},
                features |-> Only(features, keep)])
  /\ current' = current \ ({<<"phase1", c>>, <<"phase3", c>>} \cup {MergedList, Dataset})

WriteMetrics ==
  /\ Writing("phase1", "metrics")
  /\ metricsFile' = [metricsFile EXCEPT ![job.cat] = out.metrics]
  /\ GoOn("features")
  /\ UNCHANGED <<featuresFile, attackersFile, sandwichesFile, mergedFile,
                 publicAttackers, publicSandwiches, parts>>

WriteFeatures ==
  /\ Writing("phase1", "features")
  /\ featuresFile' = [featuresFile EXCEPT ![job.cat] = out.features]
  /\ End({<<"phase1", job.cat>>})
  /\ UNCHANGED <<metricsFile, attackersFile, sandwichesFile, mergedFile,
                 publicAttackers, publicSandwiches, parts>>

-----------------------------------------------------------------------------
(* Phase 3 stops before it writes when a file of phase 1 is missing.       *)
StartPhase3(c) ==
  /\ metricsFile[c] # Absent /\ featuresFile[c] # Absent
  /\ Start("phase3", c, "attackers",
           Filter(featuresFile[c], metricsFile[c], verdicts, c))
  /\ current' = current \ ({<<"phase3", c>>} \cup {MergedList, Dataset})

WriteAttackers ==
  /\ Writing("phase3", "attackers")
  /\ attackersFile' = [attackersFile EXCEPT ![job.cat] = out.attackers]
  /\ GoOn("sandwiches")
  /\ UNCHANGED <<metricsFile, featuresFile, sandwichesFile, mergedFile,
                 publicAttackers, publicSandwiches, parts>>

WriteSandwiches ==
  /\ Writing("phase3", "sandwiches")
  /\ sandwichesFile' = [sandwichesFile EXCEPT ![job.cat] = out.sandwiches]
  /\ GoOn("merge")
  /\ UNCHANGED <<metricsFile, featuresFile, attackersFile, mergedFile,
                 publicAttackers, publicSandwiches, parts>>

(* The merge reads the attackers of every category there is; when no       *)
(* category has one, it leaves the list of an earlier run.                 *)
Merge ==
  LET found == Merged(Only(attackersFile, On(attackersFile)))
      done  == current \cup {x \in {<<"phase3", job.cat>>} : <<"phase1", job.cat>> \in current}
      whole == \A c \in On(attackersFile) : <<"phase3", c>> \in done
  IN  /\ Writing("phase3", "merge")
      /\ mergedFile' = (IF DOMAIN found = {} THEN mergedFile ELSE found)
      /\ End((done \ current) \cup {x \in {MergedList} : whole /\ DOMAIN found # {}})
      /\ UNCHANGED <<metricsFile, featuresFile, attackersFile, sandwichesFile,
                     publicAttackers, publicSandwiches, parts>>

-----------------------------------------------------------------------------
(* The builder exits when there is no attacker, or when the sandwiches of  *)
(* a category that has attackers are missing.                              *)
StartDataset(topN) ==
  LET attackers  == Only(attackersFile, On(attackersFile))
      sandwiches == PublicSandwiches(attackers, sandwichesFile)
      public     == PublicAttackers(attackers, sandwichesFile)
      csv        == {r \in sandwiches : r.signer \in CsvAttackers(public, topN)}
  IN  /\ Pooled(attackers) # {} /\ Pooled(attackers) \subseteq On(sandwichesFile)
      /\ Start("dataset", Nothing, "attackers",
               [attackers |-> public, sandwiches |-> sandwiches,
                parts |-> AllParts(sandwiches, csv)])
      /\ current' = current \ {Dataset}

WritePublicAttackers ==
  /\ Writing("dataset", "attackers")
  /\ publicAttackers' = out.attackers
  /\ GoOn("sandwiches")
  /\ UNCHANGED <<metricsFile, featuresFile, attackersFile, sandwichesFile,
                 mergedFile, publicSandwiches, parts>>

WritePublicSandwiches ==
  /\ Writing("dataset", "sandwiches")
  /\ publicSandwiches' = out.sandwiches
  /\ GoOn("parts")
  /\ UNCHANGED <<metricsFile, featuresFile, attackersFile, sandwichesFile,
                 mergedFile, publicAttackers, parts>>

(* The parts one by one, the parquet parts before the CSV parts.  A part   *)
(* of an earlier build under another name stays.                           *)
ToWrite ==
  LET parquet == {p \in out.parts : p.name[1] = "parquet"}
  IN  IF parquet # {} THEN parquet ELSE out.parts

WritePart ==
  /\ Writing("dataset", "parts") /\ out.parts # {}
  /\ LET p == CHOOSE x \in ToWrite : \A y \in ToWrite : x.name[2] <= y.name[2]
     IN  /\ parts' = [n \in DOMAIN parts \cup {p.name} |->
                        IF n = p.name THEN p.legs ELSE parts[n]]
         /\ out' = [out EXCEPT !.parts = @ \ {p}]
  /\ UNCHANGED <<metricsFile, featuresFile, attackersFile, sandwichesFile,
                 mergedFile, publicAttackers, publicSandwiches, job, current>>

EndDataset ==
  /\ Writing("dataset", "parts") /\ out.parts = {}
  /\ End({x \in {Dataset} : MergedList \in current})
  /\ UNCHANGED files

-----------------------------------------------------------------------------
Crash ==
  /\ ~Idle /\ crashes < MaxCrashes
  /\ crashes' = crashes + 1
  /\ job' = NoJob /\ out' = Nothing
  /\ UNCHANGED <<world, verdicts, files, current>>

FilesNext ==
  \/ Crawl
  \/ \E c \in Category : StartPhase1(c) \/ StartPhase3(c)
  \/ WriteMetrics \/ WriteFeatures
  \/ WriteAttackers \/ WriteSandwiches \/ Merge
  \/ \E topN \in TopNs : StartDataset(topN)
  \/ WritePublicAttackers \/ WritePublicSandwiches \/ WritePart \/ EndDataset
  \/ Crash

FilesSpec == FilesInit /\ [][FilesNext]_fileVars

-----------------------------------------------------------------------------
(* The files of a category describe one population once its jobs have      *)
(* ended, whatever a run that died has left of an earlier one.  Phase 1:   *)
(* the features are those of the rows, as phase 3 would count them again   *)
(* (apply_profit_floor, _rebuild_signer_features).  Phase 3: the           *)
(* sandwiches are all those phase 1 has of the attackers, each attacker    *)
(* has some, and its counts and dollars are theirs.                        *)
OnePopulation ==
  \A c \in Category :
    /\ <<"phase1", c>> \in current => featuresFile[c] = Rebuilt(metricsFile[c])
    /\ <<"phase3", c>> \in current =>
         LET attackers == attackersFile[c]
             rows      == sandwichesFile[c]
         IN  /\ rows = {r \in metricsFile[c] : r.signer \in DOMAIN attackers}
             /\ DOMAIN attackers = Signers(rows)
             /\ \A s \in DOMAIN attackers :
                  /\ attackers[s].count = Cardinality(Own(rows, s))
                  /\ attackers[s].usd = MapThenSumSet(UsdNet, Priced(Own(rows, s)))

(* What the sandwiches that count for an attacker are worth, track by      *)
(* track: a Jito Bot has a verified bundle sandwich that made money, a     *)
(* Signal Bot and a one-shot bot have earned what their tracks ask for     *)
(* (classify_signers).  With a floor, any attacker is worth the floor, or  *)
(* has nothing but bundle sandwiches, each of which made money and all of  *)
(* them net of fees: what the floor leaves to track 1.                     *)
EveryAttackerEarned ==
  \A c \in Category : <<"phase3", c>> \in current =>
    \A s \in DOMAIN attackersFile[c] :
      LET own    == Own(sandwichesFile[c], s)
          earned == MapThenSumSet(UsdNet, Priced(own))
          type   == attackersFile[c][s].type
      IN  /\ type # {}
          /\ "jito" \in type => \E r \in own : r.id \in verdicts /\ r.profit > 0
          /\ "signal" \in type => earned >= SignalUsd
          /\ "oneshot" \in type => earned >= OneshotUsd
          /\ ProfitFloor > 0 =>
               \/ Priced(own) # {} /\ earned >= ProfitFloor
               \/ /\ \A r \in own : r.bundle /\ r.profit > 0
                  /\ Priced(own) # {} => earned > 0

(* A dataset built from a merged list that is up to date names the same    *)
(* attackers, but for those the experts reject in any category, counts the *)
(* same sandwiches and dollars, and publishes exactly the sandwiches phase *)
(* 1 has of each attacker in the categories that admitted it               *)
(* (write_merged_attackers, load_phase3, build_sandwiches,                 *)
(* build_attackers).                                                       *)
DatasetIsMergedList ==
  Dataset \in current =>
    /\ publicSandwiches =
         UNION {{r \in metricsFile[c] : /\ r.signer \in DOMAIN publicAttackers
                                        /\ c \in mergedFile[r.signer].cats} :
                  c \in On(attackersFile)}
    /\ DOMAIN publicAttackers = {s \in DOMAIN mergedFile : mergedFile[s].verdict # "no"}
    /\ \A s \in DOMAIN publicAttackers :
         /\ publicAttackers[s].count = mergedFile[s].count
         /\ publicAttackers[s].usd = mergedFile[s].usd
         /\ publicAttackers[s].type = mergedFile[s].type
         /\ publicAttackers[s].cats = mergedFile[s].cats
         /\ publicAttackers[s].count = Cardinality(Own(publicSandwiches, s))

(* The parts a build writes hold each leg of the published sandwiches that *)
(* lies in the range once, and none exceeds its limit but one that holds a *)
(* single epoch (pack_epochs, main of build_dataset.py).                   *)
PartsPackLegs ==
  (job.kind = "dataset" /\ job.step = "attackers") =>
    LET of(kind) == {p \in out.parts : p.name[1] = kind}
        held     == UNION {p.legs : p \in of("parquet")}
    IN  /\ held = {l \in UNION {LegsOf(r) : r \in out.sandwiches} :
                     l[1] \in FirstEpoch..LastEpoch}
        /\ \A kind \in {"parquet", "csv"} : \A p, q \in of(kind) :
             p # q => p.legs \cap q.legs = {} /\ p.name # q.name
        /\ \A p \in out.parts :
             \/ Cardinality(p.legs) <= PartLimit[p.name[1]]
             \/ Cardinality({l[1] : l \in p.legs}) = 1

(* The funnel that phase 2 reports, which has no gate on dollars, selects  *)
(* the Signal Bots of phase 3 and those entities that lack the dollars     *)
(* phase 3 asks for.  Where the profit floor is no lower than these, that  *)
(* is nobody but the bundle-only entities the floor lets through (main of  *)
(* phase 2, classify_signers).                                             *)
FunnelSelectsSignalBots ==
  \A c \in Category : <<"phase3", c>> \in current =>
    LET d      == featuresFile[c]
        signal == {s \in DOMAIN attackersFile[c] : "signal" \in attackersFile[c][s].type}
    IN  /\ signal = {s \in DOMAIN Selected(d) : d[s].usdNet >= SignalUsd}
        /\ 0 < ProfitFloor /\ SignalUsd <= ProfitFloor =>
             \A s \in DOMAIN Selected(d) \ signal : BundleOnly(d[s])

(* "N of M signers have no <metric>; they are outside every band and fail  *)
(* the gate by NaN comparison" (run_stage).                                *)
UnmeasuredOutsideBands ==
  \A c \in On(featuresFile) : \A metric \in DOMAIN Edges :
    LET d == StageOf(featuresFile[c], metric)
    IN  \A b \in DOMAIN BucketTable(d, metric) : \A s \in BucketTable(d, metric)[b] :
          Measured(d[s], metric)
=============================================================================
