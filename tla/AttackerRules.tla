--------------------------- MODULE AttackerRules ---------------------------
(***************************************************************************)
(* What makes an entity an attacker, as operators on the rows of phase 1:  *)
(* the features of an entity and the profit floor                          *)
(* (1_signer_data_preparation_and_summary.py), the tracks and tiers, the   *)
(* expert's verdict and the merge over categories (3_attacker_filter.py).  *)
(*                                                                         *)
(* Rates are compared as fractions.                                        *)
(***************************************************************************)
EXTENDS Integers, FiniteSets, FiniteSetsExt, Sequences, SequencesExt

CONSTANTS
  Category, CategoryOrder,  (* CATEGORIES, as a set and in order           *)
  Price,                    (* token -> USD; SOL always has a price        *)
  Nothing,                  (* NaN and NA                                  *)
  ProfitFloor,              (* --profit-floor-usd; 0 is no floor           *)
  NMin, WinNum, WinDen,     (* --n-min; --wr-min is WinNum / WinDen        *)
  SlipMin, GapMax,          (* --slip-min, of the unit of sc; --fg-median-max *)
  SignalUsd,                (* --signal-usd-min                            *)
  Oneshot,                  (* --oneshot, in the categories that have it   *)
  OneshotMax, OneshotUsd,
  Audit                     (* the adjudicator's label of the audited ones *)

ASSUME RulesAssumption ==
  /\ CategoryOrder \in Seq(Category) /\ ToSet(CategoryOrder) = Category
  /\ "SOL" \in DOMAIN Price /\ \A token \in DOMAIN Price : Price[token] \in Nat
  /\ {ProfitFloor, NMin, WinNum, SlipMin, GapMax, SignalUsd, OneshotMax,
      OneshotUsd} \subseteq Nat
  /\ WinDen \in Nat \ {0}
  /\ Oneshot \subseteq Category
  /\ Nothing \notin Int /\ Nothing # "no"

(* The columns of a row.                                                   *)
Column == {"id", "signer", "epoch", "token", "profit", "fee", "gap", "sc",
           "anomaly", "unprotected", "crossBlock", "bundle"}

-----------------------------------------------------------------------------
(* Profit net of the attacker's fees; a token without a price has none.    *)
UsdNet(r) ==
  IF r.token \in DOMAIN Price
  THEN r.profit * Price[r.token] - r.fee * Price["SOL"] ELSE Nothing

Priced(rows) == {r \in rows : UsdNet(r) # Nothing}
InSol(rows) == {r \in rows : r.token = "SOL"}
Scored(rows) == {r \in rows : ~r.anomaly /\ ~r.unprotected}

(* Twice the median of the gaps there are.                                 *)
GapMedian2(rows) ==
  LET gaps == SetToSortSeq({<<r.gap, r.id>> : r \in {x \in rows : x.gap # Nothing}},
                           LAMBDA a, b : a[1] < b[1])
      n    == Len(gaps)
  IN  IF n = 0 THEN Nothing
      ELSE gaps[(n + 1) \div 2][1] + gaps[(n \div 2) + 1][1]

(* aggregate_to_signer, for the rows of one entity: what the floor and     *)
(* phase 3 read.                                                           *)
FeaturesOf(own) ==
  [count      |-> Cardinality(own),
   usdNet     |-> MapThenSumSet(UsdNet, Priced(own)),
   winRateN   |-> Cardinality(Priced(own)),
   wins       |-> Cardinality({r \in Priced(own) : UsdNet(r) > 0}),
   solCount   |-> Cardinality(InSol(own)),
   solWins    |-> Cardinality({r \in InSol(own) : r.profit - r.fee > 0}),
   scN        |-> Cardinality(Scored(own)),
   scSum      |-> MapThenSumSet(LAMBDA r : r.sc, Scored(own)),
   gapMedian2 |-> GapMedian2(own),
   jito       |-> Cardinality({r \in own : r.bundle}),
   inBlock    |-> Cardinality({r \in own : ~r.crossBlock})]

Signers(rows) == {r.signer : r \in rows}
Own(rows, s) == {r \in rows : r.signer = s}
Features(rows) == [s \in Signers(rows) |-> FeaturesOf(Own(rows, s))]

(* _rebuild_signer_features, of the rows that are left.  A mean over no    *)
(* row is not a number, so the scored rows must also carry a score.        *)
Rebuilt(rows) ==
  [s \in Signers(rows) |->
     LET own    == Own(rows, s)
         scored == {r \in Scored(own) : r.sc # Nothing}
     IN  [FeaturesOf(own) EXCEPT !.scN = Cardinality(scored),
                                 !.scSum = MapThenSumSet(LAMBDA r : r.sc, scored)]]

(* apply_profit_floor: an entity all of whose sandwiches are verified      *)
(* bundle sandwiches stays when it made money, or when that cannot be      *)
(* measured.                                                               *)
BundleOnly(f) == f.jito >= f.count /\ f.count > 0

(* Mutant: one bundle sandwich is enough for the exception.                *)
ClearsWithBundle(f) ==
  \/ ProfitFloor = 0
  \/ f.winRateN > 0 /\ f.usdNet >= ProfitFloor
  \/ f.jito > 0 /\ (f.winRateN > 0 => f.usdNet > 0)

Clears(f) ==
  \/ ProfitFloor = 0
  \/ f.winRateN > 0 /\ f.usdNet >= ProfitFloor
  \/ BundleOnly(f) /\ (f.winRateN > 0 => f.usdNet > 0)

Survivors(features) == {s \in DOMAIN features : Clears(features[s])}

Only(f, S) == [s \in DOMAIN f \cap S |-> f[s]]

-----------------------------------------------------------------------------
(* classify_signers.  Track 1 reads the verdicts and the rows, the gates   *)
(* of track 2 read the features of the file, and the dollars of the rows.  *)
JitoAttackers(ps, verified) == Signers({r \in ps : r.id \in verified})

(* NaN for an entity of the features file that has no row.                 *)
UsdTotal(ps, s) ==
  IF Own(ps, s) = {} THEN Nothing ELSE MapThenSumSet(UsdNet, Priced(Own(ps, s)))

AtLeastUsd(ps, s, usd) == UsdTotal(ps, s) # Nothing /\ UsdTotal(ps, s) >= usd

SolWinRate(f) == f.solCount > 0 /\ f.solWins * WinDen >= WinNum * f.solCount

Pool(sf, ps) ==
  {s \in DOMAIN sf :
     AtLeastUsd(ps, s, SignalUsd) /\ sf[s].count >= NMin /\ SolWinRate(sf[s])}

SignalAttackers(sf, ps) ==
  {s \in Pool(sf, ps) :
     /\ sf[s].scN > 0 /\ sf[s].scSum >= SlipMin * sf[s].scN
     /\ sf[s].gapMedian2 # Nothing /\ sf[s].gapMedian2 <= 2 * GapMax}

OneshotAttackers(sf, ps, category) ==
  IF category \notin Oneshot THEN {}
  ELSE {s \in DOMAIN sf : /\ sf[s].count <= OneshotMax /\ SolWinRate(sf[s])
                          /\ AtLeastUsd(ps, s, OneshotUsd)}

(* Tier and BOT_TYPE: the tracks that admitted an attacker, but for        *)
(* one-shot beside Jito.                                                   *)
BotType(s, jito, signal, oneshot) ==
  IF s \in jito THEN {"jito"} \cup {t \in {"signal"} : s \in signal}
  ELSE {t \in {"signal"} : s \in signal} \cup {t \in {"oneshot"} : s \in oneshot}

(* annotate_expert_audit: a Jito Bot that was not audited says so.         *)
ExpertVerdict(s, type) ==
  IF s \in DOMAIN Audit THEN Audit[s]
  ELSE IF type = {"jito"} THEN "not_audited" ELSE Nothing

(* bot_attackers and bot_sandwiches of one category.                       *)
Filter(sf, ps, verified, category) ==
  LET jito    == JitoAttackers(ps, verified)
      signal  == SignalAttackers(sf, ps)
      oneshot == OneshotAttackers(sf, ps, category)
      bots    == jito \cup signal \cup oneshot
      type(s) == BotType(s, jito, signal, oneshot)
  IN  [attackers  |-> [s \in DOMAIN sf \cap bots |->
                         [type |-> type(s), count |-> sf[s].count, usd |-> sf[s].usdNet,
                          verdict |-> ExpertVerdict(s, type(s))]],
       sandwiches |-> {r \in ps : r.signer \in bots}]

-----------------------------------------------------------------------------
(* write_merged_attackers, of the category files there are: sums, and the  *)
(* verdict of the category with most sandwiches.                           *)
Rank(c) == CHOOSE i \in DOMAIN CategoryOrder : CategoryOrder[i] = c

Merged(files) ==
  LET present  == DOMAIN files
      of(s)    == {c \in present : s \in DOMAIN files[c]}
      first(s) == CHOOSE c \in of(s) : \A x \in of(s) :
                    \/ files[c][s].count > files[x][s].count
                    \/ files[c][s].count = files[x][s].count /\ Rank(c) <= Rank(x)
  IN  [s \in UNION {DOMAIN files[c] : c \in present} |->
         [type    |-> UNION {files[c][s].type : c \in of(s)},
          cats    |-> of(s),
          primary |-> first(s),
          verdict |-> files[first(s)][s].verdict,
          count   |-> MapThenSumSet(LAMBDA c : files[c][s].count, of(s)),
          usd     |-> MapThenSumSet(LAMBDA c : files[c][s].usd, of(s))]]
=============================================================================
