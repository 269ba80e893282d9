---------------------------- MODULE MCReuseEngine ----------------------------
(***************************************************************************)
(* The example in test/: reverse_old.c is the old version, with two paths, *)
(* reverse.c the new one, with four.  The similarities are chosen so that  *)
(* a new path is above the threshold, one below it with the same old path, *)
(* one exactly at it and one similar to no old path.                       *)
(***************************************************************************)
EXTENDS ReuseEngine, TLC

CONSTANTS t1, t2, t3, t4

MCTests == {t1, t2, t3, t4}
MCOldMask == 0 :> {0, 1, 2, 3} @@ 1 :> {0, 1, 3}
MCNewMask == 0 :> {0, 1, 2, 4, 7} @@ 1 :> {0, 1, 2, 3, 4, 7}
          @@ 2 :> {0, 1, 2, 3, 5, 6, 7} @@ 3 :> {0, 1, 6, 7}

Printed(traces) == [mask : traces, text : {"mask"}]

\* The old version prints blanks of its own on t3 (turns of the loop).
MCOldRuns == [t \in MCTests |->
    IF t = t3 THEN {[mask |-> {0, 1, 2, 3}, text |-> "blanks"]}
    ELSE Printed({{0, 1, 3}, {0, 1, 2, 3}})]
MCNewRuns == [t \in MCTests |->
    Printed({{0, 1, 6, 7}, {0, 1, 2, 3, 5, 6, 7}, {0, 1, 2, 3, 4, 7}})]

MCSim == 0 :> (0 :> 30 @@ 1 :> 20) @@ 1 :> (0 :> 0 @@ 1 :> 0)
      @@ 2 :> (0 :> 70 @@ 1 :> 10) @@ 3 :> (0 :> 20 @@ 1 :> 35)

Case(t) == [test |-> t, expect |-> TRUE, pathId |-> -1]
MCSuiteFiles == {[executed |-> FALSE, testCases |-> <<Case(t1), Case(t2), Case(t3), Case(t4)>>]}
\* A suite that an earlier run has written, "executed" set.
ExecutedFiles == {[executed |-> TRUE,
                   testCases |-> <<[test |-> t1, expect |-> TRUE, pathId |-> 0]>>]}
=============================================================================
