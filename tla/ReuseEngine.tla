---------------------------- MODULE ReuseEngine ----------------------------
(***************************************************************************)
(* The reuse of a test suite for a new version of a function               *)
(* (dynamic/reuseengine.h, class ReuseEngine, and the part of main.cpp     *)
(* that turns its result into the paths to generate tests for).            *)
(*                                                                         *)
(* reuseTestSuite loads the old suite, runs it on the old version (the     *)
(* engine Old), maps each test to an old path, selects the tests of the    *)
(* old paths that are most similar to the new paths, runs the selection on *)
(* the new version (the engine New), and reports the covered new paths.    *)
(***************************************************************************)
EXTENDS Integers, Sequences, FiniteSets

CONSTANTS Tests,                        \* input vectors
          OldBlocks, OldNumPaths, OldMask, OldRuns,   \* the old version
          NewBlocks, NewNumPaths, NewMask, NewRuns,   \* the new version
          Sim,                          \* Sim[n][p]: similarity of new path n
                                        \* and old path p, in percent
          SIMILARITY_THRESHOLD,
          SuiteFiles                    \* [executed, testCases] as in the file

VARIABLES
    pc,                  \* where reuseTestSuite is
    fileExecuted,        \* the "executed" entry of the suite file
    path_test_map,       \* the tests of each old path, as indexes of old_suite
    pathTestCntMap,      \* the counters of old_cfg->matchBestPathId
    mapped,              \* old tests that went through matchBestPathId
    unselected,          \* new paths the selection loop has yet to visit
    reused_test_ids, reused_without_exep_test_ids,
    new_suite,           \* [id, kept]: old test, expected values kept?
    newPathCoverInfo,    \* the result: covered new paths
    oldPhase, oldBuilt, oldTests, oldOutputs, oldNext, oldCnt, oldCoverage,
    newPhase, newBuilt, newTests, newOutputs, newNext, newCnt, newCoverage

oldVars == <<oldPhase, oldBuilt, oldTests, oldOutputs, oldNext, oldCnt, oldCoverage>>
newVars == <<newPhase, newBuilt, newTests, newOutputs, newNext, newCnt, newCoverage>>
mapVars == <<path_test_map, pathTestCntMap, mapped>>
selVars == <<unselected, reused_test_ids, reused_without_exep_test_ids>>
vars == <<pc, fileExecuted, mapVars, selVars, new_suite, newPathCoverInfo,
          oldVars, newVars>>

Old == INSTANCE TestEngine
       WITH Blocks <- OldBlocks, NumPaths <- OldNumPaths, Mask <- OldMask,
            Runs <- OldRuns, Suites <- {f.testCases : f \in SuiteFiles},
            phase <- oldPhase, built <- oldBuilt, testCases <- oldTests,
            outputs <- oldOutputs, next <- oldNext, pathTestCnt <- oldCnt,
            coverage <- oldCoverage
New == INSTANCE TestEngine
       WITH Blocks <- NewBlocks, NumPaths <- NewNumPaths, Mask <- NewMask,
            Runs <- NewRuns, Suites <- {},
            phase <- newPhase, built <- newBuilt, testCases <- newTests,
            outputs <- newOutputs, next <- newNext, pathTestCnt <- newCnt,
            coverage <- newCoverage

OldPaths == 0 .. OldNumPaths - 1
NewPaths == 0 .. NewNumPaths - 1
INVALID_PATH_ID == -1

ASSUME VersionsAssumption == /\ Old!PathAssumption /\ Old!EngineAssumption
                             /\ New!PathAssumption /\ New!EngineAssumption

ASSUME ReuseAssumption == /\ Sim \in [NewPaths -> [OldPaths -> 0 .. 100]]
                          /\ SIMILARITY_THRESHOLD \in 0 .. 100
                          /\ \A f \in SuiteFiles : f.executed \in BOOLEAN

\* The first of the old paths with the greatest similarity, if that is not 0.
findMostSimilarPath(n) ==
    LET best == {p \in OldPaths : /\ Sim[n][p] > 0
                                  /\ \A q \in OldPaths : Sim[n][q] <= Sim[n][p]}
    IN  IF best = {} THEN [path |-> INVALID_PATH_ID, sim |-> 0]
        ELSE LET p == CHOOSE p \in best : \A q \in best : p <= q
             IN  [path |-> p, sim |-> Sim[n][p]]
path_map == [n \in NewPaths |-> findMostSimilarPath(n)]

Init == /\ pc = "load"
        /\ fileExecuted = FALSE
        /\ path_test_map = [p \in OldPaths |-> {}]
        /\ pathTestCntMap = Old!NoTests
        /\ mapped = 0
        /\ unselected = NewPaths
        /\ reused_test_ids = {}
        /\ reused_without_exep_test_ids = {}
        /\ new_suite = << >>
        /\ newPathCoverInfo = [n \in NewPaths |-> FALSE]
        /\ Old!Init
        /\ New!Init

\* from_json does not read "executed", so isExecuted() is false for every
\* suite that comes from a file and the old suite is always run.
LoadSuite(file) ==
    /\ pc = "load"
    /\ fileExecuted' = file.executed
    /\ Old!setDriverFile(file.testCases)
    /\ pc' = "runOld"
    /\ UNCHANGED <<mapVars, selVars, new_suite, newPathCoverInfo, newVars>>

RunOld ==
    /\ pc = "runOld"
    /\ Old!Step
    /\ pc' = IF oldPhase' = "done" THEN "mapOld" ELSE pc
    /\ UNCHANGED <<fileExecuted, mapVars, selVars, new_suite, newPathCoverInfo,
                   newVars>>

\* Mistake: the counters are not kept.
MapNextUncounted ==
    /\ pc = "mapOld"
    /\ mapped < Len(oldOutputs)
    /\ mapped' = mapped + 1
    /\ LET p == Old!BestPath(pathTestCntMap, oldOutputs[mapped + 1])
       IN  path_test_map' = IF p = INVALID_PATH_ID THEN path_test_map
                            ELSE [path_test_map EXCEPT ![p] = @ \cup {mapped + 1}]
    /\ UNCHANGED <<pc, fileExecuted, selVars, new_suite, newPathCoverInfo,
                   pathTestCntMap, oldVars, newVars>>

\* One turn of the loop that maps the old tests: matchBestPathId is given the
\* text as it was printed, blanks included.
MapNext ==
    /\ pc = "mapOld"
    /\ mapped < Len(oldOutputs)
    /\ mapped' = mapped + 1
    /\ LET p == Old!BestPath(pathTestCntMap, oldOutputs[mapped + 1])
       IN  /\ pathTestCntMap' = Old!AddTest(pathTestCntMap, p)
           /\ path_test_map' = IF p = INVALID_PATH_ID THEN path_test_map
                               ELSE [path_test_map EXCEPT ![p] = @ \cup {mapped + 1}]
    /\ UNCHANGED <<pc, fileExecuted, selVars, new_suite, newPathCoverInfo,
                   oldVars, newVars>>

MapDone ==
    /\ pc = "mapOld"
    /\ mapped = Len(oldOutputs)
    /\ pc' = "select"
    /\ UNCHANGED <<fileExecuted, mapVars, selVars, new_suite, newPathCoverInfo,
                   oldVars, newVars>>

\* The old tests of the old path that new path n is most similar to.
TestsFor(n) == IF path_map[n].path = INVALID_PATH_ID THEN {}
               ELSE path_test_map[path_map[n].path]

AboveThreshold(n) == path_map[n].sim > SIMILARITY_THRESHOLD

\* Mistake: a test that was to lose its expected values is left at that.
insertNew(n) == reused_test_ids \cup (TestsFor(n) \ reused_without_exep_test_ids)
insert(n) == reused_test_ids \cup TestsFor(n)

\* One turn of the selection loop: path_map is unordered, so the new paths
\* come in any order.
SelectFor(n) ==
    /\ pc = "select"
    /\ n \in unselected
    /\ unselected' = unselected \ {n}
    /\ IF AboveThreshold(n)
       THEN /\ reused_test_ids' = insert(n)
            /\ UNCHANGED reused_without_exep_test_ids
       ELSE /\ reused_without_exep_test_ids' =
                 reused_without_exep_test_ids \cup (TestsFor(n) \ reused_test_ids)
            /\ UNCHANGED reused_test_ids
    /\ UNCHANGED <<pc, fileExecuted, mapVars, new_suite, newPathCoverInfo,
                   oldVars, newVars>>

\* Mistake: the loop ends after one path.
SelectDoneEarly ==
    /\ pc = "select"
    /\ unselected # NewPaths
    /\ pc' = "collect"
    /\ UNCHANGED <<fileExecuted, mapVars, selVars, new_suite, newPathCoverInfo,
                   oldVars, newVars>>

SelectDone ==
    /\ pc = "select"
    /\ unselected = {}
    /\ pc' = "collect"
    /\ UNCHANGED <<fileExecuted, mapVars, selVars, new_suite, newPathCoverInfo,
                   oldVars, newVars>>

Collected(kept) == {e.id : e \in {e \in {new_suite[k] : k \in 1 .. Len(new_suite)} :
                                       e.kept = kept}}

\* The ids are in unordered sets: each set is read in any order.
addTestCase(id) ==
    /\ pc = "collect"
    /\ id \in reused_test_ids \ Collected(TRUE)
    /\ new_suite' = Append(new_suite, [id |-> id, kept |-> TRUE])
    /\ UNCHANGED <<pc, fileExecuted, mapVars, selVars, newPathCoverInfo,
                   oldVars, newVars>>

addTestCaseWithoutExpectation(id) ==
    /\ pc = "collect"
    /\ Collected(TRUE) = reused_test_ids
    /\ id \in reused_without_exep_test_ids \ Collected(FALSE)
    /\ new_suite' = Append(new_suite, [id |-> id, kept |-> FALSE])
    /\ UNCHANGED <<pc, fileExecuted, mapVars, selVars, newPathCoverInfo,
                   oldVars, newVars>>

\* A reused test is a copy of the old one; it brings its old path id along.
Copy(e) == IF e.kept THEN oldTests[e.id]
           ELSE [oldTests[e.id] EXCEPT !.expect = FALSE]

executeNewTestsuite ==
    /\ pc = "collect"
    /\ Collected(TRUE) = reused_test_ids
    /\ Collected(FALSE) = reused_without_exep_test_ids
    /\ New!setDriverFile([k \in 1 .. Len(new_suite) |-> Copy(new_suite[k])])
    /\ pc' = "runNew"
    /\ UNCHANGED <<fileExecuted, mapVars, selVars, new_suite, newPathCoverInfo,
                   oldVars>>

RunNew ==
    /\ pc = "runNew"
    /\ New!Step
    /\ pc' = IF newPhase' = "done" THEN "report" ELSE pc
    /\ UNCHANGED <<fileExecuted, mapVars, selVars, new_suite, newPathCoverInfo,
                   oldVars>>

\* The loop over the new test cases. The write for an id that is no new path
\* goes to a spare bit of the vector's last word and is never read.
Report ==
    /\ pc = "report"
    /\ newPathCoverInfo' =
         [n \in NewPaths |-> \E k \in 1 .. Len(newTests) : newTests[k].pathId = n]
    /\ pc' = "done"
    /\ UNCHANGED <<fileExecuted, mapVars, selVars, new_suite, oldVars, newVars>>

Next == \/ \E file \in SuiteFiles : LoadSuite(file)
        \/ RunOld
        \/ MapNext
        \/ MapDone
        \/ \E n \in NewPaths : SelectFor(n)
        \/ SelectDone
        \/ \E id \in reused_test_ids : addTestCase(id)
        \/ \E id \in reused_without_exep_test_ids : addTestCaseWithoutExpectation(id)
        \/ executeNewTestsuite
        \/ RunNew
        \/ Report

Spec == Init /\ [][Next]_vars

\* main.cpp: the paths the test generator is asked for.
uncoveredPaths == {n \in NewPaths : ~newPathCoverInfo[n]}

-----------------------------------------------------------------------------
Selected == pc \in {"runNew", "report", "done"}

(* Type correctness of the reuse engine's own variables.                   *)
TypeOK ==
    /\ pc \in {"load", "runOld", "mapOld", "select", "collect", "runNew", "report", "done"}
    /\ fileExecuted \in BOOLEAN
    /\ path_test_map \in [OldPaths -> SUBSET (1 .. Len(oldTests))]
    /\ pathTestCntMap \in [OldPaths -> Nat]
    /\ mapped \in 0 .. Len(oldOutputs)
    /\ unselected \subseteq NewPaths
    /\ reused_test_ids \subseteq 1 .. Len(oldTests)
    /\ reused_without_exep_test_ids \subseteq 1 .. Len(oldTests)
    /\ new_suite \in Seq([id : 1 .. Len(oldTests), kept : BOOLEAN])
    /\ newPathCoverInfo \in [NewPaths -> BOOLEAN]

(* The matching is written twice, in computeCoverage and in                *)
(* matchBestPathId.  As long as no old test prints blanks, the two copies  *)
(* agree on the path of every test the reuse is based on, although each    *)
(* keeps counters of its own.                                              *)
MatchersAgree ==
    (\A k \in 1 .. Len(oldOutputs) : oldOutputs[k].text # "blanks") =>
        \A p \in OldPaths : \A k \in path_test_map[p] : oldTests[k].pathId = p

(* Whatever the order of path_map, a test keeps its expected values if an  *)
(* old path it executes is more similar to some new path than the          *)
(* threshold, also when another new path that is less similar came first,  *)
(* and it loses them if all are less similar.  What becomes of a           *)
(* similarity of exactly the threshold is FullReuseAtThreshold's question. *)
ExpectationsKept ==
    LET TestsAt(P) == UNION {TestsFor(n) : n \in P}
    IN  Selected =>
            /\ TestsAt({n \in NewPaths : path_map[n].sim > SIMILARITY_THRESHOLD})
                  \subseteq Collected(TRUE)
            /\ Collected(TRUE) \subseteq
                  TestsAt({n \in NewPaths : path_map[n].sim >= SIMILARITY_THRESHOLD})

(* No old test of a selected old path is lost: it is in the new suite, in  *)
(* one form or the other, whatever the order of path_map.                  *)
NoTestLost ==
    Selected => Collected(TRUE) \cup Collected(FALSE) =
        UNION {TestsFor(n) : n \in NewPaths}

(* README.md: test cases are generated for all uncovered paths.  A path no *)
(* test of this run was matched with is passed to the generator.           *)
UncoveredRequested ==
    pc = "done" => \A n \in NewPaths : newCnt[n] = 0 => n \in uncoveredPaths

(* The comment on the selection loop: a test is reused as a whole above    *)
(* the threshold and otherwise as an input only, so it is reused once.     *)
ReusedOnce ==
    \A j, k \in 1 .. Len(new_suite) : new_suite[j].id = new_suite[k].id => j = k

(* README.md on SIMILARITY_THRESHOLD: a similarity greater than or equal   *)
(* to the threshold reuses the expected values.                            *)
FullReuseAtThreshold ==
    Selected => \A n \in NewPaths :
        path_map[n].sim >= SIMILARITY_THRESHOLD => TestsFor(n) \subseteq Collected(TRUE)

(* The comment in reuseTestSuite: the old suite is run if it has not been  *)
(* executed before.                                                        *)
ExecutedSuiteNotRun == fileExecuted => oldPhase = "idle"
=============================================================================
