---------------------------- MODULE DatasetParts ----------------------------
(***************************************************************************)
(* dataset/build_dataset.py: the public tables made of the phase-3 files   *)
(* of all categories, and the legs of the published sandwiches packed in   *)
(* files of whole epochs.                                                  *)
(***************************************************************************)
EXTENDS AttackerRules

CONSTANTS
  FirstEpoch, LastEpoch,
  Paper,          (* the attackers PAPER_ATTACKERS resolves to             *)
  PartLimit       (* kind of leg file -> the legs one part may hold        *)

ASSUME PartsAssumption ==
  /\ FirstEpoch \in Nat /\ LastEpoch \in Nat
  /\ PartLimit \in [{"parquet", "csv"} -> Nat \ {0}]

(* load_phase3: a category without an attacker adds no sandwich either.    *)
Pooled(attackers) ==
  {c \in DOMAIN attackers : DOMAIN attackers[c] # {}}

(* Mutant: rejected when the attackers of every category say so.           *)
RejectedByAll(attackers) ==
  {s \in UNION {DOMAIN attackers[c] : c \in Pooled(attackers)} :
     \A c \in Pooled(attackers) :
       s \in DOMAIN attackers[c] /\ attackers[c][s].verdict = "no"}

Rejected(attackers) ==
  UNION {{s \in DOMAIN attackers[c] : attackers[c][s].verdict = "no"} :
           c \in Pooled(attackers)}

(* build_sandwiches.                                                       *)
PublicSandwiches(attackers, sandwiches) ==
  {r \in UNION {sandwiches[c] : c \in Pooled(attackers)} :
     r.signer \notin Rejected(attackers)}

(* build_attackers: one row for each attacker that has a sandwich, counted *)
(* anew; what phase 3 says of it comes from its attacker rows, if any.     *)
PublicAttackers(attackers, sandwiches) ==
  LET rows == PublicSandwiches(attackers, sandwiches)
      of(s) == {c \in Pooled(attackers) : s \in DOMAIN attackers[c]}
  IN  [s \in Signers(rows) |->
         [type  |-> UNION {attackers[c][s].type : c \in of(s)},
          cats  |-> of(s),
          count |-> Cardinality(Own(rows, s)),
          usd   |-> MapThenSumSet(UsdNet, Priced(Own(rows, s)))]]

(* select_csv_attackers: the best topN by dollars, and those of the paper. *)
CsvAttackers(public, topN) ==
  LET better(s) == {x \in DOMAIN public :
                      \/ public[x].usd > public[s].usd
                      \/ public[x].usd = public[s].usd /\ x < s}
  IN  {s \in DOMAIN public : Cardinality(better(s)) < topN \/ s \in Paper}

-----------------------------------------------------------------------------
(* The legs of a row that the loop over the epochs fetches: <<epoch, id,   *)
(* type>>.  The back run may lie in the epoch after the front run's.       *)
LegsOf(r) ==
  {<<r.epoch, r.id, "frontRun">>, <<r.epoch, r.id, "victim">>,
   <<r.lastEpoch, r.id, "backRun">>}

FetchLegs(rows, e) == {l \in UNION {LegsOf(r) : r \in rows} : l[1] = e}
Fetched(rows) == UNION {FetchLegs(rows, e) : e \in FirstEpoch..LastEpoch}

OwnLegs(legs) == {l \in legs : l[3] \in {"frontRun", "backRun"}}

(* Mutant: the next epoch is added before the size is looked at.           *)
PackStepLate(acc, e, size, limit) ==
  IF acc.lo = Nothing THEN [acc EXCEPT !.lo = e, !.prev = e, !.size = size]
  ELSE IF acc.size > limit
  THEN [parts |-> acc.parts \cup {<<acc.lo, acc.prev>>},
        lo |-> e, prev |-> e, size |-> size]
  ELSE [acc EXCEPT !.prev = e, !.size = @ + size]

(* pack_epochs: a part is closed when the next epoch would make it exceed  *)
(* the limit.                                                              *)
PackStep(acc, e, size, limit) ==
  IF acc.lo = Nothing THEN [acc EXCEPT !.lo = e, !.prev = e, !.size = size]
  ELSE IF acc.size + size > limit
  THEN [parts |-> acc.parts \cup {<<acc.lo, acc.prev>>},
        lo |-> e, prev |-> e, size |-> size]
  ELSE [acc EXCEPT !.prev = e, !.size = @ + size]

(* packed[e] is what the loop holds before it comes to epoch e; an epoch   *)
(* without a leg has no size, and is not in its list.                      *)
PackEpochs(sizes, limit) ==
  LET packed[e \in 0..(LastEpoch + 1)] ==
        IF e = 0 THEN [parts |-> {}, lo |-> Nothing, prev |-> Nothing, size |-> 0]
        ELSE IF e - 1 \in DOMAIN sizes
        THEN PackStep(packed[e - 1], e - 1, sizes[e - 1], limit)
        ELSE packed[e - 1]
      last == packed[LastEpoch + 1]
  IN  last.parts \cup (IF last.lo = Nothing THEN {} ELSE {<<last.lo, last.prev>>})

(* The files <<kind, lo, hi>> and their content.  The sizes of the CSV     *)
(* parts are measured over every epoch that has a leg at all.              *)
Parts(kind, fetched, legs) ==
  LET sizes == [e \in {l[1] : l \in fetched} |-> Cardinality({l \in legs : l[1] = e})]
      content(lo, hi) == {l \in legs : lo <= l[1] /\ l[1] <= hi}
  IN  {[name |-> <<kind, p[1], p[2]>>, legs |-> content(p[1], p[2])] :
         p \in PackEpochs(sizes, PartLimit[kind])}

AllParts(rows, csvRows) ==
  Parts("parquet", Fetched(rows), Fetched(rows))
    \cup Parts("csv", Fetched(rows), OwnLegs(Fetched(csvRows)))
=============================================================================
