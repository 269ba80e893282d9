--------------------------- MODULE ReuseEngineProofs ---------------------------
(***************************************************************************)
(* Proofs about ReuseEngine, for all versions, suites and similarities:    *)
(* the engine of the old version runs as TestEngine says, the two copies   *)
(* of the matching agree, and the selection is the same in every order of  *)
(* path_map.                                                               *)
(***************************************************************************)
EXTENDS ReuseEngine, FiniteSetTheorems, TLAPS

OldProofs == INSTANCE TestEngineProofs
       WITH Blocks <- OldBlocks, NumPaths <- OldNumPaths, Mask <- OldMask,
            Runs <- OldRuns, Suites <- {f.testCases : f \in SuiteFiles},
            phase <- oldPhase, built <- oldBuilt, testCases <- oldTests,
            outputs <- oldOutputs, next <- oldNext, pathTestCnt <- oldCnt,
            coverage <- oldCoverage

-----------------------------------------------------------------------------
(* The old engine.                                                         *)

\* Every step of the reuse engine is one of the old engine, or leaves it alone.
LEMMA OldStep == [Next]_vars => [Old!Next]_(Old!engineVars)
<1> SUFFICES ASSUME [Next]_vars PROVE Old!Next \/ UNCHANGED Old!engineVars
  OBVIOUS
<1>1. ASSUME NEW f \in SuiteFiles, LoadSuite(f) PROVE Old!Next
  BY <1>1 DEF LoadSuite, Old!Next
<1>2. CASE RunOld
  BY <1>2 DEF RunOld, Old!Next
<1>3. ASSUME UNCHANGED oldVars PROVE UNCHANGED Old!engineVars
  BY <1>3 DEF oldVars, Old!engineVars
<1>4. CASE Report
  BY <1>3, <1>4 DEF Report, oldVars
<1> QED BY <1>1, <1>2, <1>3, <1>4 DEF Next, vars, MapNext, MapDone, SelectFor, SelectDone,
           addTestCase,
        addTestCaseWithoutExpectation, executeNewTestsuite, RunNew

(* While it is reused a suite is run on the old version by the engine that *)
(* TestEngine models, so what is proved of that engine holds here.         *)
THEOREM OldEngineRuns == Spec => Old!Spec
<1>1. Init => Old!Init
  BY DEF Init
<1> QED BY <1>1, OldStep, PTL DEF Spec, Old!Spec

\* The instance of the proofs has its assumptions.
LEMMA Assumed == /\ OldProofs!PathAssumption /\ OldProofs!EngineAssumption
BY VersionsAssumption DEF Old!PathAssumption, Old!PathIds, OldProofs!PathIds,
   Old!EngineAssumption, Old!TestCase, OldProofs!TestCase, Old!Output, OldProofs!Output,
   Old!INVALID_PATH_ID, OldProofs!INVALID_PATH_ID

\* What the reuse needs to know of the old run: it ends after the last test, and
\* each test got its path by the counts of the tests before it.
OldDone == /\ Old!TypeOK
           /\ oldPhase = "done" => oldNext = Len(oldTests) + 1
           /\ \A k \in 1 .. oldNext - 1 : Old!CoveredBy(k) # {} =>
                  oldTests[k].pathId = Old!BestPath(
                      [q \in OldPaths |-> Cardinality(Old!AssignedTo(q, k - 1))],
                      Old!removeBlanks(oldOutputs[k]))

\* Each instance has a Cardinality of its own.
LEMMA SameCardinality ==
    \A S : Old!Cardinality(S) = Cardinality(S) /\ OldProofs!Cardinality(S) = Cardinality(S)
BY DEF Old!Cardinality, OldProofs!Cardinality, Cardinality

\* The operators of the engine, seen through either instance.
LEMMA SameMatching ==
    /\ Old!PathIds = OldProofs!PathIds /\ Old!INVALID_PATH_ID = OldProofs!INVALID_PATH_ID
    /\ \A o : Old!removeBlanks(o) = OldProofs!removeBlanks(o)
    /\ \A o : Old!matchPathIds(o) = OldProofs!matchPathIds(o)
    /\ \A cnt, o : Old!BestPath(cnt, o) = OldProofs!BestPath(cnt, o)
<1>1. Old!PathIds = OldProofs!PathIds /\ Old!INVALID_PATH_ID = OldProofs!INVALID_PATH_ID
  BY DEF Old!PathIds, OldProofs!PathIds, Old!INVALID_PATH_ID, OldProofs!INVALID_PATH_ID
<1>2. \A o : Old!removeBlanks(o) = OldProofs!removeBlanks(o)
  BY DEF Old!removeBlanks, OldProofs!removeBlanks
<1>3. \A o : Old!matchPathIds(o) = OldProofs!matchPathIds(o)
  BY <1>1 DEF Old!matchPathIds, OldProofs!matchPathIds, Old!isCover, OldProofs!isCover
<1>5. \A o : Old!matchPathId(o) = OldProofs!matchPathId(o)
  BY DEF Old!matchPathId, OldProofs!matchPathId, Old!SameMask, OldProofs!SameMask,
         Old!PathIds, OldProofs!PathIds, Old!INVALID_PATH_ID, OldProofs!INVALID_PATH_ID
<1>6. \A cnt, S : Old!LeastTested(cnt, S) = OldProofs!LeastTested(cnt, S)
  BY DEF Old!LeastTested, OldProofs!LeastTested
<1>7. \A cnt, o : Old!BestPath(cnt, o) = OldProofs!BestPath(cnt, o)
  BY <1>1, <1>3, <1>5, <1>6 DEF Old!BestPath, OldProofs!BestPath
<1> QED BY <1>1, <1>2, <1>3, <1>7

\* So what is proved of the one holds for the other.
LEMMA Bridge == OldProofs!TypeOK /\ OldProofs!AtEnd /\ OldProofs!ChosenInTurn => OldDone
<1>1. OldProofs!TypeOK => Old!TypeOK
  BY DEF Old!TypeOK, OldProofs!TypeOK, Old!TestCase, OldProofs!TestCase, Old!Output,
     OldProofs!Output,
    Old!PathIds, OldProofs!PathIds, Old!INVALID_PATH_ID, OldProofs!INVALID_PATH_ID
<1>2. OldProofs!AtEnd => (oldPhase = "done" => oldNext = Len(oldTests) + 1)
  BY DEF OldProofs!AtEnd
<1>3. \A k : Old!CoveredBy(k) = OldProofs!CoveredBy(k)
  BY SameMatching DEF Old!CoveredBy, OldProofs!CoveredBy
<1>4. \A q, k : Old!AssignedTo(q, k) = OldProofs!AssignedTo(q, k)
  <2>1. \A k : Old!Matched(k) <=> OldProofs!Matched(k)
    BY <1>3 DEF Old!Matched, OldProofs!Matched
  <2> QED BY <2>1 DEF Old!AssignedTo, OldProofs!AssignedTo
<1>5. ASSUME NEW k
      PROVE  OldProofs!CountsBefore(k)
                 = [q \in OldPaths |-> Cardinality(Old!AssignedTo(q, k - 1))]
  <2>1. OldProofs!PathIds = OldPaths
    BY DEF OldProofs!PathIds, OldPaths
  <2>2. \A q : OldProofs!Cardinality(OldProofs!AssignedTo(q, k - 1))
                   = Cardinality(Old!AssignedTo(q, k - 1))
    BY <1>4, SameCardinality
  <2> QED BY <2>1, <2>2 DEF OldProofs!CountsBefore
<1> QED BY <1>1, <1>2, <1>3, <1>5, SameMatching DEF OldDone, OldProofs!ChosenInTurn

\* And their specifications are the same.
LEMMA SpecBridge == Old!Spec => OldProofs!Spec
<1>1. Old!Init => OldProofs!Init
  BY DEF Old!Init, OldProofs!Init, Old!NoTests, OldProofs!NoTests, Old!PathIds,
     OldProofs!PathIds
<1>2. \A cnt, p : Old!AddTest(cnt, p) = OldProofs!AddTest(cnt, p)
  BY SameMatching DEF Old!AddTest, OldProofs!AddTest
<1>3. Old!MatchNext => OldProofs!MatchNext
  BY <1>2, SameMatching DEF Old!MatchNext, OldProofs!MatchNext
<1>4. Old!ExecuteNext => OldProofs!ExecuteNext
  BY DEF Old!ExecuteNext, OldProofs!ExecuteNext, Old!Results, OldProofs!Results,
         Old!NoOutput, OldProofs!NoOutput
<1>5. /\ Old!ExecuteDone => OldProofs!ExecuteDone
      /\ Old!MatchDone => OldProofs!MatchDone
  BY DEF Old!ExecuteDone, OldProofs!ExecuteDone, Old!MatchDone, OldProofs!MatchDone
<1>8. Old!setCoverage => OldProofs!setCoverage
  <2>1. Old!CoveredPaths = OldProofs!CoveredPaths
    BY SameMatching DEF Old!CoveredPaths, OldProofs!CoveredPaths
  <2> QED BY <2>1, SameCardinality DEF Old!setCoverage, OldProofs!setCoverage
<1>6. \A suite : Old!setDriverFile(suite) => OldProofs!setDriverFile(suite)
  BY DEF Old!setDriverFile, OldProofs!setDriverFile
<1>7. [Old!Next]_(Old!engineVars) => [OldProofs!Next]_(OldProofs!engineVars)
  BY <1>3, <1>4, <1>5, <1>6, <1>8 DEF Old!Next, OldProofs!Next, Old!Step, OldProofs!Step,
         Old!engineVars, OldProofs!engineVars
<1> QED BY <1>1, <1>7, PTL DEF Old!Spec, OldProofs!Spec

(* When the old suite has been run every test has been given its path, in  *)
(* turn (computeCoverage, called by reuseTestSuite).                       *)
THEOREM OldEngineDone == Spec => []OldDone
<1>1. OldProofs!Spec => []OldProofs!TypeOK
  BY OldProofs!TypeCorrect, Assumed
<1>2. OldProofs!Spec => []OldProofs!ChosenInTurn
  BY OldProofs!PathsChosenInTurn, Assumed
<1>3. OldProofs!Spec => []OldProofs!AtEnd
  BY OldProofs!EndReached, Assumed
<1> QED BY <1>1, <1>2, <1>3, OldEngineRuns, SpecBridge, Bridge, PTL

-----------------------------------------------------------------------------
(* The reuse engine's own variables. *)

Loading == {"load", "runOld"}
BeforeSelect == Loading \cup {"mapOld"}

\* What the stages that are still to come will find.
Untouched ==
    /\ pc \notin Loading => oldPhase = "done"
    /\ pc \in Loading => /\ mapped = 0
                         /\ path_test_map = [p \in OldPaths |-> {}]
                         /\ pathTestCntMap = Old!NoTests
    /\ pc \in BeforeSelect => /\ unselected = NewPaths
                         /\ reused_test_ids = {}
                         /\ reused_without_exep_test_ids = {}
    /\ pc \in BeforeSelect \cup {"select"} => new_suite = << >>
    /\ pc \notin BeforeSelect \cup {"select"} => unselected = {}

\* What the visited new paths have selected.
SelectedSoFar ==
    /\ reused_test_ids =
           UNION {TestsFor(n) : n \in {m \in NewPaths \ unselected : AboveThreshold(m)}}
    /\ reused_test_ids \cup reused_without_exep_test_ids =
           UNION {TestsFor(n) : n \in NewPaths \ unselected}

CollectedSoFar ==
    Selected => /\ Collected(TRUE) = reused_test_ids
                /\ Collected(FALSE) = reused_without_exep_test_ids

IInv == TypeOK /\ Untouched /\ SelectedSoFar /\ CollectedSoFar

\* The most similar old path is one of the old paths, with its similarity.
LEMMA MostSimilarType ==
    ASSUME NEW n \in NewPaths
    PROVE  /\ path_map[n].path \in OldPaths \cup {INVALID_PATH_ID}
           /\ path_map[n].sim \in 0 .. 100
<1> DEFINE best == {p \in OldPaths : /\ Sim[n][p] > 0
                                  /\ \A q \in OldPaths : Sim[n][q] <= Sim[n][p]}
<1>1. path_map[n] = findMostSimilarPath(n)
  BY DEF path_map
<1>2. CASE best = {}
  <2>1. path_map[n] = [path |-> INVALID_PATH_ID, sim |-> 0]
    BY <1>1, <1>2 DEF findMostSimilarPath
  <2> QED BY <2>1
<1>3. CASE best # {}
  <2>1. best \in SUBSET Nat
    BY DEF OldPaths
  <2>2. PICK first \in best : \A q \in best : first <= q
    <3> HIDE DEF best
    <3> QED BY <1>3, <2>1, OldProofs!LeastElement, Assumed
  <2>3. (CHOOSE p \in best : \A q \in best : p <= q) \in best
    <3> HIDE DEF best
    <3> QED BY <2>2
  <2>4. PICK p \in best : path_map[n] = [path |-> p, sim |-> Sim[n][p]]
    BY <1>1, <1>3, <2>3 DEF findMostSimilarPath
  <2> QED BY <2>4, ReuseAssumption
<1> QED BY <1>2, <1>3

\* And so is the path an old test is given to.
LEMMA BestOldPath ==
    ASSUME NEW cnt \in [OldPaths -> Nat], NEW o
    PROVE  /\ Old!BestPath(cnt, o) \in OldPaths \cup {INVALID_PATH_ID}
           /\ Old!AddTest(cnt, Old!BestPath(cnt, o)) \in [OldPaths -> Nat]
<1>1. Old!BestPath(cnt, o) \in OldPaths \cup {INVALID_PATH_ID}
  BY OldProofs!BestPathType, SameMatching, Assumed
     DEF OldPaths, OldProofs!PathIds, OldProofs!INVALID_PATH_ID, INVALID_PATH_ID
<1> QED BY <1>1 DEF Old!AddTest, Old!INVALID_PATH_ID, INVALID_PATH_ID

\* The tests selected for a new path are tests of the old suite.
LEMMA TestsForType ==
    ASSUME TypeOK, NEW n \in NewPaths
    PROVE  TestsFor(n) \in SUBSET (1 .. Len(oldTests))
BY MostSimilarType DEF TestsFor, TypeOK

\* It holds at first.
LEMMA ReuseInit == Init => IInv
<1> SUFFICES ASSUME Init PROVE IInv
  OBVIOUS
<1>1. oldTests = << >> /\ oldOutputs = << >> /\ Len(oldTests) = 0 /\ Len(oldOutputs) = 0
  BY DEF Init, Old!Init
<1>2. pathTestCntMap \in [OldPaths -> Nat]
  BY DEF Init, Old!NoTests, Old!PathIds, OldPaths
<1>3. TypeOK
  <2>1. new_suite \in Seq([id : 1 .. Len(oldTests), kept : BOOLEAN])
    BY DEF Init
  <2>2. path_test_map \in [OldPaths -> SUBSET (1 .. Len(oldTests))]
    BY DEF Init
  <2>3. newPathCoverInfo \in [NewPaths -> BOOLEAN] /\ fileExecuted \in BOOLEAN
    BY DEF Init
  <2>4. mapped \in 0 .. Len(oldOutputs)
    BY <1>1 DEF Init
  <2> QED BY <1>2, <2>1, <2>2, <2>3, <2>4 DEF Init, TypeOK
<1>4. Untouched
  BY DEF Init, Untouched, Loading, BeforeSelect
<1>5. SelectedSoFar /\ CollectedSoFar
  BY DEF Init, SelectedSoFar, CollectedSoFar, Selected
<1> QED BY <1>3, <1>4, <1>5 DEF IInv

\* While the old suite is loaded and run nothing is selected yet.
LEMMA LoadKeeps ==
    ASSUME IInv, OldDone', (\E f \in SuiteFiles : LoadSuite(f)) \/ RunOld
    PROVE  IInv'
<1>1. /\ pc \in Loading /\ pc' \in BeforeSelect
      /\ pc' \notin Loading => oldPhase' = "done"
      /\ UNCHANGED <<mapVars, selVars, new_suite, newPathCoverInfo>>
  BY DEF LoadSuite, RunOld, Loading, BeforeSelect
<1>2. /\ mapped' = 0 /\ path_test_map' = [p \in OldPaths |-> {}]
      /\ pathTestCntMap' = Old!NoTests /\ unselected' = NewPaths /\ new_suite' = << >>
      /\ reused_test_ids' = {} /\ reused_without_exep_test_ids' = {}
      /\ newPathCoverInfo' = newPathCoverInfo
  BY <1>1 DEF IInv, Untouched, mapVars, selVars, BeforeSelect
<1>3. TypeOK'
  <2>1. Len(oldTests') \in Nat /\ Len(oldOutputs') \in Nat
    BY DEF OldDone, Old!TypeOK
  <2>2. pathTestCntMap' \in [OldPaths -> Nat]
    BY <1>2 DEF Old!NoTests, Old!PathIds, OldPaths
  <2>3. new_suite' \in Seq([id : 1 .. Len(oldTests'), kept : BOOLEAN])
    BY <1>2
  <2>4. pc' \in {"load", "runOld", "mapOld"}
    BY <1>1 DEF BeforeSelect, Loading
  <2>5. newPathCoverInfo' \in [NewPaths -> BOOLEAN]
    BY <1>2 DEF IInv, TypeOK
  <2>6. fileExecuted' \in BOOLEAN
    BY ReuseAssumption DEF LoadSuite, RunOld, IInv, TypeOK
  <2> QED BY <1>2, <2>1, <2>2, <2>3, <2>4, <2>5, <2>6 DEF TypeOK
<1>4. Untouched'
  BY <1>1, <1>2 DEF Untouched, BeforeSelect
<1>5. SelectedSoFar'
  <2>1. NewPaths \ unselected' = {}
    BY <1>2
  <2> QED BY <1>2, <2>1 DEF SelectedSoFar
<1>6. CollectedSoFar'
  BY <1>1 DEF CollectedSoFar, Selected, BeforeSelect, Loading
<1> QED BY <1>3, <1>4, <1>5, <1>6 DEF IInv

\* What a turn of the mapping loop writes.
LEMMA MapNextGives ==
    ASSUME MapNext
    PROVE  LET p == Old!BestPath(pathTestCntMap, oldOutputs[mapped + 1])
           IN  /\ pathTestCntMap' = Old!AddTest(pathTestCntMap, p)
               /\ path_test_map' = IF p = INVALID_PATH_ID THEN path_test_map
                                   ELSE [path_test_map EXCEPT ![p] = @ \cup {mapped + 1}]
BY DEF MapNext

\* The tests are given to old paths; no new path has been visited.
LEMMA MapKeeps ==
    ASSUME IInv, OldDone, MapNext \/ MapDone
    PROVE  IInv'
<1>0. /\ pc = "mapOld" /\ pc' \in {"mapOld", "select"}
      /\ UNCHANGED <<fileExecuted, selVars, new_suite, newPathCoverInfo, oldVars>>
  BY DEF MapNext, MapDone
<1>1. /\ oldPhase = "done" /\ unselected = NewPaths /\ new_suite = << >>
      /\ reused_test_ids = {} /\ reused_without_exep_test_ids = {}
      /\ Len(oldOutputs) = Len(oldTests) /\ Len(oldTests) \in Nat
  BY <1>0 DEF IInv, Untouched, BeforeSelect, Loading, OldDone, Old!TypeOK
<1>2. /\ mapped' \in 0 .. Len(oldOutputs) /\ pathTestCntMap' \in [OldPaths -> Nat]
      /\ path_test_map' \in [OldPaths -> SUBSET (1 .. Len(oldTests))]
  <2>1. CASE MapDone
    BY <2>1 DEF MapDone, mapVars, IInv, TypeOK
  <2>2. CASE MapNext
    <3> DEFINE p == Old!BestPath(pathTestCntMap, oldOutputs[mapped + 1])
    <3>1. mapped' = mapped + 1 /\ mapped \in 0 .. Len(oldOutputs) /\ mapped < Len(oldOutputs)
          /\ pathTestCntMap \in [OldPaths -> Nat]
          /\ path_test_map \in [OldPaths -> SUBSET (1 .. Len(oldTests))]
      BY <2>2 DEF MapNext, IInv, TypeOK
    <3>2. p \in OldPaths \cup {INVALID_PATH_ID}
          /\ Old!AddTest(pathTestCntMap, p) \in [OldPaths -> Nat]
      BY <3>1, BestOldPath
    <3>3. /\ pathTestCntMap' = Old!AddTest(pathTestCntMap, p)
          /\ path_test_map' = IF p = INVALID_PATH_ID THEN path_test_map
                              ELSE [path_test_map EXCEPT ![p] = @ \cup {mapped + 1}]
      BY <2>2, MapNextGives
    <3>4. mapped + 1 \in 1 .. Len(oldTests)
      BY <1>1, <3>1
    <3> HIDE DEF p
    <3>5. path_test_map' \in [OldPaths -> SUBSET (1 .. Len(oldTests))]
      BY <3>1, <3>2, <3>3, <3>4
    <3>6. mapped' \in 0 .. Len(oldOutputs)
      BY <1>1, <3>1
    <3> QED BY <3>2, <3>3, <3>5, <3>6
  <2> QED BY <2>1, <2>2
<1>3. TypeOK'
  BY <1>0, <1>1, <1>2 DEF IInv, TypeOK, selVars, oldVars
<1>4. Untouched'
  BY <1>0, <1>1 DEF Untouched, BeforeSelect, Loading, selVars, oldVars
<1>5. SelectedSoFar'
  <2>1. NewPaths \ unselected' = {}
    BY <1>0, <1>1 DEF selVars
  <2> QED BY <1>0, <1>1, <2>1 DEF SelectedSoFar, selVars
<1>6. CollectedSoFar'
  BY <1>0 DEF CollectedSoFar, Selected
<1> QED BY <1>3, <1>4, <1>5, <1>6 DEF IInv

\* A visit of a new path adds the tests of its most similar old path, to one
\* set or the other, unless they are there; the order does not matter.
LEMMA SelectKeeps ==
    ASSUME IInv, NEW n \in NewPaths, SelectFor(n)
    PROVE  IInv'
<1>0. /\ pc = "select" /\ n \in unselected /\ unselected' = unselected \ {n}
      /\ UNCHANGED <<pc, fileExecuted, mapVars, new_suite, newPathCoverInfo, oldVars>>
  BY DEF SelectFor
<1>1. \A m : (TestsFor(m))' = TestsFor(m) /\ (AboveThreshold(m))' = AboveThreshold(m)
  BY <1>0 DEF TestsFor, AboveThreshold, path_map, mapVars
<1>2. TestsFor(n) \in SUBSET (1 .. Len(oldTests))
  BY TestsForType DEF IInv
<1>3. reused_test_ids' \subseteq 1 .. Len(oldTests)
      /\ reused_without_exep_test_ids' \subseteq 1 .. Len(oldTests)
  BY <1>2 DEF SelectFor, insert, IInv, TypeOK
<1>4. TypeOK'
  BY <1>0, <1>3 DEF IInv, TypeOK, mapVars, oldVars
<1>5. Untouched'
  BY <1>0 DEF IInv, Untouched, BeforeSelect, Loading, oldVars
<1>6. NewPaths \ unselected' = (NewPaths \ unselected) \cup {n}
  BY <1>0
<1>7. SelectedSoFar'
  <2> DEFINE V == NewPaths \ unselected
             U(S) == UNION {TestsFor(m) : m \in S}
             HighOf(S) == {m \in S : AboveThreshold(m)}
  <2>1. /\ reused_test_ids = U(HighOf(V))
        /\ reused_test_ids \cup reused_without_exep_test_ids = U(V)
    BY DEF IInv, SelectedSoFar
  <2>2. U(V \cup {n}) = U(V) \cup TestsFor(n)
    OBVIOUS
  <2>3. CASE AboveThreshold(n)
    <3>1. HighOf(V \cup {n}) = HighOf(V) \cup {n}
      BY <2>3
    <3>2. U(HighOf(V) \cup {n}) = U(HighOf(V)) \cup TestsFor(n)
      OBVIOUS
    <3>3. /\ reused_test_ids' = reused_test_ids \cup TestsFor(n)
          /\ reused_without_exep_test_ids' = reused_without_exep_test_ids
      BY <2>3 DEF SelectFor, insert
    <3>4. /\ reused_test_ids' = U(HighOf(V \cup {n}))
          /\ reused_test_ids' \cup reused_without_exep_test_ids' = U(V \cup {n})
      <4> HIDE DEF U, HighOf, V
      <4> QED BY <2>1, <2>2, <3>1, <3>2, <3>3
    <3> QED BY <1>1, <1>6, <3>4 DEF SelectedSoFar
  <2>4. CASE ~AboveThreshold(n)
    <3>1. HighOf(V \cup {n}) = HighOf(V)
      BY <2>4
    <3>2. /\ reused_test_ids' = reused_test_ids
          /\ reused_without_exep_test_ids' =
                 reused_without_exep_test_ids \cup (TestsFor(n) \ reused_test_ids)
      BY <2>4 DEF SelectFor
    <3>3. /\ reused_test_ids' = U(HighOf(V \cup {n}))
          /\ reused_test_ids' \cup reused_without_exep_test_ids' = U(V \cup {n})
      <4> HIDE DEF U, HighOf, V
      <4> QED BY <2>1, <2>2, <3>1, <3>2
    <3> QED BY <1>1, <1>6, <3>3 DEF SelectedSoFar
  <2> QED BY <2>3, <2>4
<1>8. CollectedSoFar'
  BY <1>0 DEF CollectedSoFar, Selected
<1> QED BY <1>4, <1>5, <1>7, <1>8 DEF IInv

\* From there on the selection stays as it is.
LEMMA SelectionStays ==
    ASSUME IInv, UNCHANGED <<mapVars, selVars, oldVars>>
    PROVE  SelectedSoFar'
BY DEF IInv, SelectedSoFar, TestsFor, AboveThreshold, path_map, mapVars, selVars

\* The new suite is filled with the selection, and then run.
LEMMA RestKeeps ==
    ASSUME IInv,
           \/ SelectDone \/ executeNewTestsuite \/ RunNew \/ Report
           \/ \E id \in reused_test_ids : addTestCase(id)
           \/ \E id \in reused_without_exep_test_ids : addTestCaseWithoutExpectation(id)
    PROVE  IInv'
<1>0. UNCHANGED <<fileExecuted, mapVars, selVars, oldVars>>
  BY DEF SelectDone, executeNewTestsuite, RunNew, Report, addTestCase,
         addTestCaseWithoutExpectation
<1>1. SelectedSoFar'
  BY <1>0, SelectionStays
<1>2. pc \notin BeforeSelect /\ pc' \notin BeforeSelect \cup {"select"}
      /\ pc' \in {"collect", "runNew", "report", "done"} /\ unselected = {}
  BY DEF SelectDone, executeNewTestsuite, RunNew, Report, addTestCase,
         addTestCaseWithoutExpectation, BeforeSelect, Loading, IInv, Untouched
<1>3. Untouched'
  BY <1>0, <1>2 DEF IInv, Untouched, BeforeSelect, Loading, selVars, oldVars
<1>4. newPathCoverInfo' \in [NewPaths -> BOOLEAN]
  BY DEF SelectDone, executeNewTestsuite, RunNew, Report, addTestCase,
         addTestCaseWithoutExpectation, IInv, TypeOK
<1>5. ASSUME new_suite' \in Seq([id : 1 .. Len(oldTests), kept : BOOLEAN]) PROVE TypeOK'
  BY <1>0, <1>2, <1>4, <1>5 DEF IInv, TypeOK, mapVars, selVars, oldVars
<1>6. ASSUME NEW e \in [id : 1 .. Len(oldTests), kept : BOOLEAN],
             new_suite' = Append(new_suite, e), pc' = "collect"
      PROVE  IInv'
  <2>1. new_suite' \in Seq([id : 1 .. Len(oldTests), kept : BOOLEAN])
    BY <1>6 DEF IInv, TypeOK
  <2>2. CollectedSoFar'
    BY <1>6 DEF CollectedSoFar, Selected
  <2> QED BY <1>1, <1>3, <1>5, <2>1, <2>2 DEF IInv
<1>7. ASSUME NEW id \in reused_test_ids, addTestCase(id) PROVE IInv'
  <2>1. [id |-> id, kept |-> TRUE] \in [id : 1 .. Len(oldTests), kept : BOOLEAN]
    BY DEF IInv, TypeOK
  <2> QED BY <1>6, <1>7, <2>1 DEF addTestCase
<1>8. ASSUME NEW id \in reused_without_exep_test_ids, addTestCaseWithoutExpectation(id)
      PROVE  IInv'
  <2>1. [id |-> id, kept |-> FALSE] \in [id : 1 .. Len(oldTests), kept : BOOLEAN]
    BY DEF IInv, TypeOK
  <2> QED BY <1>6, <1>8, <2>1 DEF addTestCaseWithoutExpectation
<1>9. CASE SelectDone \/ executeNewTestsuite \/ RunNew \/ Report
  <2>1. new_suite' = new_suite
    BY <1>9 DEF SelectDone, executeNewTestsuite, RunNew, Report
  <2>2. TypeOK'
    BY <1>5, <2>1 DEF IInv, TypeOK
  <2>3. \A b : (Collected(b))' = Collected(b)
    BY <2>1 DEF Collected
  <2>4. CASE SelectDone
    BY <2>4, <1>1, <1>3, <2>2 DEF SelectDone, IInv, CollectedSoFar, Selected
  <2>5. CASE executeNewTestsuite \/ RunNew \/ Report
    <3>1. Collected(TRUE) = reused_test_ids /\ Collected(FALSE) = reused_without_exep_test_ids
      BY <2>5 DEF executeNewTestsuite, RunNew, Report, IInv, CollectedSoFar, Selected
    <3> QED BY <1>0, <1>1, <1>3, <2>2, <2>3, <3>1 DEF IInv, CollectedSoFar, selVars
  <2> QED BY <1>9, <2>4, <2>5
<1> QED BY <1>7, <1>8, <1>9

(* In every state the selected tests are those of the visited new paths,   *)
(* whatever the order of path_map, and the new suite is made of them.      *)
THEOREM ReuseInvariant == Spec => []IInv
<1>1. IInv /\ OldDone /\ OldDone' /\ [Next]_vars => IInv'
  <2> SUFFICES ASSUME IInv, OldDone, OldDone', [Next]_vars PROVE IInv'
    OBVIOUS
  <2>1. CASE UNCHANGED vars
    <3>1. UNCHANGED <<pc, fileExecuted, new_suite, newPathCoverInfo, mapVars, selVars, oldVars>>
      BY <2>1 DEF vars
    <3>2. SelectedSoFar'
      BY <3>1, SelectionStays
    <3>3. TypeOK' /\ Untouched'
      BY <3>1 DEF IInv, TypeOK, Untouched, mapVars, selVars, oldVars
    <3>4. CollectedSoFar'
      BY <3>1 DEF IInv, CollectedSoFar, Selected, Collected, selVars
    <3> QED BY <3>2, <3>3, <3>4 DEF IInv
  <2>2. CASE (\E f \in SuiteFiles : LoadSuite(f)) \/ RunOld
    BY <2>2, LoadKeeps
  <2>3. CASE MapNext \/ MapDone
    BY <2>3, MapKeeps
  <2>4. CASE \E n \in NewPaths : SelectFor(n)
    BY <2>4, SelectKeeps
  <2> QED BY <2>1, <2>2, <2>3, <2>4, RestKeeps DEF Next
<1> QED BY ReuseInit, <1>1, OldEngineDone, PTL DEF Spec

(* For all versions, suites, similarities and orders of path_map, the      *)
(* tests of the paths above the threshold keep their expected values, and  *)
(* those of the paths below it alone lose them (the selection loop of      *)
(* reuseTestSuite).                                                        *)
THEOREM ExpectationsAreKept == Spec => []ExpectationsKept
<1>1. IInv => ExpectationsKept
  <2> SUFFICES ASSUME IInv, Selected
               PROVE  ExpectationsKept
    BY DEF ExpectationsKept
  <2> DEFINE Above == {n \in NewPaths : path_map[n].sim > SIMILARITY_THRESHOLD}
             AtLeast == {n \in NewPaths : path_map[n].sim >= SIMILARITY_THRESHOLD}
  <2>1. NewPaths \ unselected = NewPaths
    BY DEF IInv, Untouched, BeforeSelect, Loading, Selected
  <2>2. Collected(TRUE) = UNION {TestsFor(n) : n \in Above}
    BY <2>1 DEF IInv, SelectedSoFar, CollectedSoFar, AboveThreshold
  <2>3. Above \subseteq AtLeast
    <3>1. \A n \in NewPaths : path_map[n].sim \in 0 .. 100
      BY MostSimilarType
    <3> QED BY <3>1, ReuseAssumption
  <2>4. UNION {TestsFor(n) : n \in Above} \subseteq UNION {TestsFor(n) : n \in AtLeast}
    <3> HIDE DEF Above, AtLeast
    <3> QED BY <2>3
  <2> QED BY <2>2, <2>4 DEF ExpectationsKept
<1> QED BY <1>1, ReuseInvariant, PTL

(* And no test of an old path that was selected is lost: the new suite has *)
(* it with its expected values or without (addTestCase and                 *)
(* addTestCaseWithoutExpectation in reuseTestSuite).                       *)
THEOREM NoTestIsLost == Spec => []NoTestLost
<1>1. IInv => NoTestLost
  <2> SUFFICES ASSUME IInv, Selected
               PROVE  Collected(TRUE) \cup Collected(FALSE) =
                          UNION {TestsFor(n) : n \in NewPaths}
    BY DEF NoTestLost
  <2>1. NewPaths \ unselected = NewPaths
    BY DEF IInv, Untouched, BeforeSelect, Loading, Selected
  <2> QED BY <2>1 DEF IInv, SelectedSoFar, CollectedSoFar
<1> QED BY <1>1, ReuseInvariant, PTL

-----------------------------------------------------------------------------
(* The two copies of the matching.                                         *)

NoBlanks == \A k \in 1 .. Len(oldOutputs) : oldOutputs[k].text # "blanks"

\* matchBestPathId has come, test by test, to what computeCoverage had come to.
MapInv == pc \notin Loading /\ NoBlanks =>
    /\ path_test_map = [q \in OldPaths |-> Old!AssignedTo(q, mapped)]
    /\ pathTestCntMap = [q \in OldPaths |-> Cardinality(Old!AssignedTo(q, mapped))]

\* When the mapping starts no test has been given to a path.
LEMMA MapStarts ==
    ASSUME IInv', mapped' = 0, path_test_map' = [p \in OldPaths |-> {}],
           pathTestCntMap' = Old!NoTests
    PROVE  MapInv'
<1>1. \A q : (Old!AssignedTo(q, mapped))' = {}
  BY DEF Old!AssignedTo
<1>2. \A q : Cardinality((Old!AssignedTo(q, mapped))') = 0
  BY <1>1, FS_EmptySet
<1>3. pathTestCntMap' = [q \in OldPaths |-> 0]
  BY DEF Old!NoTests, Old!PathIds, OldPaths
<1> QED BY <1>1, <1>2, <1>3 DEF MapInv

\* The next test goes where it went before, as the counters were the same then.
LEMMA MapNextAgrees ==
    ASSUME IInv, OldDone, MapInv, MapNext
    PROVE  MapInv'
<1> DEFINE k == mapped + 1
           o == oldOutputs[k]
           p == Old!BestPath(pathTestCntMap, o)
           A(q, m) == Old!AssignedTo(q, m)
<1> SUFFICES ASSUME NoBlanks
             PROVE  /\ path_test_map' = [q \in OldPaths |-> A(q, k)]
                    /\ pathTestCntMap' = [q \in OldPaths |-> Cardinality(A(q, k))]
  <2>1. UNCHANGED <<oldOutputs, oldTests, oldNext>> /\ mapped' = k
    BY DEF MapNext, oldVars
  <2>2. \A q : (Old!AssignedTo(q, mapped))' = A(q, k)
    BY <2>1 DEF Old!AssignedTo, Old!Matched, Old!CoveredBy
  <2> QED BY <2>1, <2>2 DEF MapInv, NoBlanks
<1>1. /\ pc = "mapOld" /\ mapped \in Nat /\ k \in 1 .. Len(oldTests) /\ k < oldNext
      /\ oldNext = Len(oldTests) + 1 /\ k \in 1 .. oldNext - 1 /\ k - 1 = mapped
      /\ Len(oldTests) \in Nat /\ oldPhase = "done" /\ Len(oldOutputs) = Len(oldTests)
  BY DEF MapNext, IInv, TypeOK, Untouched, Loading, OldDone, Old!TypeOK
<1>2. /\ path_test_map = [q \in OldPaths |-> A(q, mapped)]
      /\ pathTestCntMap = [q \in OldPaths |-> Cardinality(A(q, mapped))]
      /\ pathTestCntMap \in [OldPaths -> Nat]
  BY <1>1 DEF MapInv, Loading, IInv, TypeOK
<1>3. Old!removeBlanks(o) = o
  BY <1>1 DEF NoBlanks, Old!removeBlanks
<1>4. Old!CoveredBy(k) = Old!matchPathIds(o)
  BY <1>3 DEF Old!CoveredBy
<1>5. /\ pathTestCntMap' = Old!AddTest(pathTestCntMap, p)
      /\ path_test_map' = IF p = INVALID_PATH_ID THEN path_test_map
                          ELSE [path_test_map EXCEPT ![p] = @ \cup {k}]
  BY MapNextGives
<1>6. \A q : A(q, k) = IF Old!CoveredBy(k) # {} /\ oldTests[k].pathId = q
                       THEN A(q, mapped) \cup {k} ELSE A(q, mapped)
  <2>1. Old!Matched(k) <=> Old!CoveredBy(k) # {}
    BY <1>1 DEF Old!Matched
  <2>2. 1 .. k = (1 .. mapped) \cup {k}
    BY <1>1
  <2> QED BY <2>1, <2>2 DEF Old!AssignedTo
<1>7. /\ Old!matchPathIds(o) = {} => p = INVALID_PATH_ID
      /\ Old!matchPathIds(o) # {} => p \in Old!matchPathIds(o)
  BY <1>2, OldProofs!BestPathIsBest, SameMatching, Assumed
     DEF OldPaths, OldProofs!PathIds, OldProofs!INVALID_PATH_ID, INVALID_PATH_ID
<1>8. CASE Old!CoveredBy(k) = {}
  <2>1. p = INVALID_PATH_ID
    BY <1>4, <1>7, <1>8
  <2>2. pathTestCntMap' = pathTestCntMap /\ path_test_map' = path_test_map
    BY <1>5, <2>1 DEF Old!AddTest, Old!INVALID_PATH_ID, INVALID_PATH_ID
  <2>3. \A q : A(q, k) = A(q, mapped)
    BY <1>6, <1>8
  <2> HIDE DEF A, k
  <2> QED BY <1>2, <2>2, <2>3
<1>9. CASE Old!CoveredBy(k) # {}
  <2>1. oldTests[k].pathId = p
    <3>1. oldTests[k].pathId = Old!BestPath(
              [q \in OldPaths |-> Cardinality(Old!AssignedTo(q, k - 1))], Old!removeBlanks(o))
      BY <1>1, <1>9 DEF OldDone
    <3> QED BY <1>1, <1>2, <1>3, <3>1
  <2>2. p \in OldPaths /\ p # INVALID_PATH_ID
    BY <1>4, <1>7, <1>9 DEF Old!matchPathIds, Old!PathIds, OldPaths, INVALID_PATH_ID
  <2>3. \A q : A(q, k) = IF q = p THEN A(q, mapped) \cup {k} ELSE A(q, mapped)
    BY <1>6, <1>9, <2>1
  <2>4. pathTestCntMap' = [pathTestCntMap EXCEPT ![p] = @ + 1]
        /\ path_test_map' = [path_test_map EXCEPT ![p] = @ \cup {k}]
    BY <1>5, <2>2 DEF Old!AddTest, Old!INVALID_PATH_ID, INVALID_PATH_ID
  <2>5. Cardinality(A(p, k)) = Cardinality(A(p, mapped)) + 1
    <3>1. A(p, mapped) \subseteq 1 .. mapped
      BY DEF Old!AssignedTo
    <3>2. IsFiniteSet(A(p, mapped))
      <4>1. IsFiniteSet(1 .. mapped)
        BY <1>1, FS_Interval
      <4> HIDE DEF A, k, p
      <4> QED BY <3>1, <4>1, FS_Subset
    <3>3. k \notin A(p, mapped)
      BY <1>1, <3>1
    <3>4. A(p, k) = A(p, mapped) \cup {k}
      BY <2>3
    <3> HIDE DEF A, k
    <3> QED BY <3>2, <3>3, <3>4, FS_AddElement
  <2> HIDE DEF A, k, p
  <2>6. path_test_map' = [q \in OldPaths |-> A(q, k)]
    BY <1>2, <2>2, <2>3, <2>4
  <2>7. pathTestCntMap' = [q \in OldPaths |-> Cardinality(A(q, k))]
    BY <1>2, <2>2, <2>3, <2>4, <2>5
  <2> QED BY <2>6, <2>7
<1> QED BY <1>8, <1>9

\* The other steps leave the old run and the mapping alone.
LEMMA MapStays ==
    ASSUME MapInv, UNCHANGED <<mapVars, oldVars>>, pc' \notin Loading => pc \notin Loading
    PROVE  MapInv'
<1>1. \A q : (Old!AssignedTo(q, mapped))' = Old!AssignedTo(q, mapped)
  BY DEF Old!AssignedTo, Old!Matched, Old!CoveredBy, mapVars, oldVars
<1>2. path_test_map' = path_test_map /\ pathTestCntMap' = pathTestCntMap /\ NoBlanks' = NoBlanks
  BY DEF mapVars, oldVars, NoBlanks
<1> QED BY <1>1, <1>2 DEF MapInv

(* For all old versions and suites: as long as no old test prints blanks,  *)
(* computeCoverage and matchBestPathId give every test to the same path.   *)
THEOREM MatchersDoAgree == Spec => []MatchersAgree
<1>1. Init => MapInv
  BY DEF Init, MapInv, Loading
<1>2. IInv /\ IInv' /\ OldDone /\ MapInv /\ [Next]_vars => MapInv'
  <2> SUFFICES ASSUME IInv, IInv', OldDone, MapInv, [Next]_vars PROVE MapInv'
    OBVIOUS
  <2>1. CASE (\E f \in SuiteFiles : LoadSuite(f)) \/ RunOld
    <3>1. pc \in Loading /\ UNCHANGED mapVars
      BY <2>1 DEF LoadSuite, RunOld, Loading
    <3> QED BY <3>1, MapStarts DEF IInv, Untouched, mapVars
  <2>2. CASE MapNext
    BY <2>2, MapNextAgrees
  <2>3. CASE UNCHANGED vars
    BY <2>3, MapStays DEF vars
  <2>4. CASE \/ MapDone \/ SelectDone \/ executeNewTestsuite \/ RunNew \/ Report
             \/ \E n \in NewPaths : SelectFor(n)
             \/ \E id \in reused_test_ids : addTestCase(id)
             \/ \E id \in reused_without_exep_test_ids : addTestCaseWithoutExpectation(id)
    <3>1. UNCHANGED <<mapVars, oldVars>> /\ pc \notin Loading
      BY <2>4 DEF MapDone, SelectDone, executeNewTestsuite, RunNew, Report, SelectFor,
             addTestCase, addTestCaseWithoutExpectation, Loading
    <3> QED BY <3>1, MapStays
  <2> QED BY <2>1, <2>2, <2>3, <2>4 DEF Next
<1>3. IInv /\ OldDone /\ MapInv => MatchersAgree
  <2> SUFFICES ASSUME IInv, MapInv, NoBlanks, NEW p \in OldPaths, NEW k \in path_test_map[p]
               PROVE  oldTests[k].pathId = p
    BY DEF MatchersAgree, NoBlanks
  <2>1. CASE pc \in Loading
    BY <2>1 DEF IInv, Untouched
  <2>2. CASE pc \notin Loading
    BY <2>2 DEF MapInv, Old!AssignedTo
  <2> QED BY <2>1, <2>2
<1> QED BY <1>1, <1>2, <1>3, ReuseInvariant, OldEngineDone, PTL DEF Spec

=============================================================================
