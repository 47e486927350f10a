------------------------------- MODULE MCJito -------------------------------
(***************************************************************************)
(* Values for the constants of JitoPipeline that a cfg cannot write.       *)
(***************************************************************************)
EXTENDS JitoPipeline

Both      == [fetch |-> TRUE,  mark |-> TRUE,  ahead |-> FALSE,
              settled |-> FALSE]
FetchOnly == [fetch |-> TRUE,  mark |-> FALSE, ahead |-> FALSE,
              settled |-> FALSE]
MarkOnly  == [fetch |-> FALSE, mark |-> TRUE,  ahead |-> FALSE,
              settled |-> FALSE]
Ahead     == [fetch |-> TRUE,  mark |-> FALSE, ahead |-> TRUE,
              settled |-> FALSE]
BothAhead == [fetch |-> TRUE,  mark |-> TRUE,  ahead |-> TRUE,
              settled |-> FALSE]

(* Fetch a range before it is detected, then mark it.                      *)
StagedRuns == <<Ahead, [MarkOnly EXCEPT !.settled = TRUE]>>
(* Both tasks side by side, behind the detector.                           *)
TogetherRuns == <<Both>>
(* Both tasks side by side, the fetch task ahead of the detector.          *)
TogetherAheadRuns == <<BothAhead>>
=============================================================================
