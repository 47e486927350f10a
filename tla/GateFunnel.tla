----------------------------- MODULE GateFunnel -----------------------------
(***************************************************************************)
(* Phase 2 (2_parameter_selection_and_sensitivity_analysis.py): the gates  *)
(* of track 2 one after the other over the features file of a category,    *)
(* and the tables of each stage.  It feeds no other script.                *)
(***************************************************************************)
EXTENDS AttackerRules

CONSTANT Edges    (* metric -> the edges of its bands, ascending           *)

ASSUME FunnelAssumption ==
  \A metric \in DOMAIN Edges : Edges[metric] \in Seq(Nat) /\ Len(Edges[metric]) >= 2

(* A metric of an entity as a fraction, in the unit of its edges, where it *)
(* is a number.                                                            *)
Measured(f, metric) ==
  CASE metric = "count"    -> TRUE
    [] metric = "winRate"  -> f.solCount > 0
    [] metric = "sc"       -> f.scN > 0
    [] metric = "frontGap" -> f.gapMedian2 # Nothing

Measure(f, metric) ==
  CASE metric = "count"    -> <<f.count, 1>>
    [] metric = "winRate"  -> <<f.solWins * WinDen, f.solCount>>
    [] metric = "sc"       -> <<f.scSum, f.scN>>
    [] metric = "frontGap" -> <<f.gapMedian2, 2>>

(* Mutant: the gate excludes its own value.                                *)
Above(f, metric, x) ==
  Measured(f, metric) /\ Measure(f, metric)[1] > x * Measure(f, metric)[2]

(* Comparisons with what is not a number are false.                        *)
AtOrAbove(f, metric, x) ==
  Measured(f, metric) /\ Measure(f, metric)[1] >= x * Measure(f, metric)[2]

AtOrBelow(f, metric, x) ==
  Measured(f, metric) /\ Measure(f, metric)[1] <= x * Measure(f, metric)[2]

-----------------------------------------------------------------------------
(* main.                                                                   *)
Stage2(d) ==
  Restrict(d, {s \in DOMAIN d : AtOrAbove(d[s], "count", NMin)})
Stage3(d) ==
  Restrict(Stage2(d), {s \in DOMAIN Stage2(d) : AtOrAbove(d[s], "winRate", WinNum)})
Selected(d) ==
  Restrict(Stage3(d), {s \in DOMAIN Stage3(d) : /\ AtOrAbove(d[s], "sc", SlipMin)
                                                /\ AtOrBelow(d[s], "frontGap", GapMax)})

(* The population of the tables of a metric.                               *)
StageOf(d, metric) ==
  CASE metric = "count"   -> d
    [] metric = "winRate" -> Stage2(d)
    [] OTHER              -> Stage3(d)

(* bucket_table: the last edge at or below the value opens its band.  The  *)
(* search puts a value that is not a number behind every edge.             *)
EdgesReached(f, metric) ==
  IF ~Measured(f, metric) THEN Len(Edges[metric])
  ELSE Cardinality({i \in DOMAIN Edges[metric] : AtOrAbove(f, metric, Edges[metric][i])})

Band(f, metric) == Max({1, Min({EdgesReached(f, metric), Len(Edges[metric]) - 1})})

BucketTable(d, metric) ==
  [b \in 1..(Len(Edges[metric]) - 1) |->
     {s \in DOMAIN d : Band(d[s], metric) = b}]

(* sweep_table, a row for a threshold.                                     *)
SweepRow(d, metric, x) ==
  [le |-> {s \in DOMAIN d : AtOrBelow(d[s], metric, x)},
   ge |-> {s \in DOMAIN d : AtOrAbove(d[s], metric, x)}]
=============================================================================
