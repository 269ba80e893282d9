----------------------------- MODULE TestEngine -----------------------------
(***************************************************************************)
(* One execution of a test suite (dynamic/testengine.h, class TestEngine): *)
(* the driver is compiled and instrumented, every test case is run by the  *)
(* SequentialExecutor, and computeCoverage gives each test case the path   *)
(* it covers.                                                              *)
(*                                                                         *)
(* A test case is [test, expect, pathId]: the input vector, whether its    *)
(* expected values are kept, and the path it was last matched with, which  *)
(* may come from another run or another version of the program.            *)
(***************************************************************************)
EXTENDS PathMatching, Sequences

CONSTANTS Tests,      \* input vectors
          Runs,       \* Runs[t]: the outputs the program may print on t
          Suites      \* the test suites the engine may be given

VARIABLES phase,        \* "idle", "exec", "match", "cover" or "done"
          built,        \* did the driver compile?
          testCases,    \* TestSuite::testCases
          outputs,      \* the results of the executor so far
          next,         \* the loop variable of computeCoverage
          pathTestCnt,  \* tests matched with each path in this run
          coverage      \* <<covered paths, all paths>>, << >> before the end

engineVars == <<phase, built, testCases, outputs, next, pathTestCnt, coverage>>

TestCase == [test : Tests, expect : BOOLEAN, pathId : Nat \cup {INVALID_PATH_ID}]

ASSUME EngineAssumption == /\ Runs \in [Tests -> SUBSET Output]
                           /\ Suites \subseteq Seq(TestCase)

Init == /\ phase = "idle"
        /\ built = FALSE
        /\ testCases = << >>
        /\ outputs = << >>
        /\ next = 1
        /\ pathTestCnt = NoTests
        /\ coverage = << >>

\* The result of compileDriverAndInstrument is dropped by setDriverFile, so
\* the run goes on without an executable when the driver does not compile.
setDriverFile(suite) ==
    /\ phase = "idle"
    /\ phase' = "exec"
    /\ built' \in BOOLEAN
    /\ testCases' = suite
    /\ UNCHANGED <<outputs, next, pathTestCnt, coverage>>

\* What running test t may print: the same each time t is run; nothing when
\* there is no executable, popen fails or the program crashes.
Results(t) ==
    {o \in IF built THEN Runs[t] \cup {NoOutput} ELSE {NoOutput} :
         \A k \in 1 .. Len(outputs) : testCases[k].test = t => outputs[k] = o}

ExecuteNext ==
    /\ phase = "exec"
    /\ Len(outputs) < Len(testCases)
    /\ \E o \in Results(testCases[Len(outputs) + 1].test) :
           outputs' = Append(outputs, o)
    /\ UNCHANGED <<phase, built, testCases, next, pathTestCnt, coverage>>

ExecuteDone ==
    /\ phase = "exec"
    /\ Len(outputs) = Len(testCases)
    /\ phase' = "match"
    /\ UNCHANGED <<built, testCases, outputs, next, pathTestCnt, coverage>>

\* One turn of computeCoverage's loop. An output that matches no path is
\* reported on the console and leaves pathId as it was.
MatchNext ==
    /\ phase = "match"
    /\ next <= Len(testCases)
    /\ LET p == BestPath(pathTestCnt, removeBlanks(outputs[next]))
       IN  /\ testCases' = IF p = INVALID_PATH_ID THEN testCases
                           ELSE [testCases EXCEPT ![next].pathId = p]
           /\ pathTestCnt' = AddTest(pathTestCnt, p)
    /\ next' = next + 1
    /\ UNCHANGED <<phase, built, outputs, coverage>>

MatchDone ==
    /\ phase = "match"
    /\ next > Len(testCases)
    /\ phase' = "cover"
    /\ UNCHANGED <<built, testCases, outputs, next, pathTestCnt, coverage>>

CoveredPaths == {p \in PathIds : pathTestCnt[p] > 0}

setCoverage ==
    /\ phase = "cover"
    /\ phase' = "done"
    /\ coverage' = <<Cardinality(CoveredPaths), NumPaths>>
    /\ UNCHANGED <<built, testCases, outputs, next, pathTestCnt>>

Step == \/ ExecuteNext
        \/ ExecuteDone
        \/ MatchNext
        \/ MatchDone
        \/ setCoverage

Next == \/ \E suite \in Suites : setDriverFile(suite)
        \/ Step

Spec == Init /\ [][Next]_engineVars

-----------------------------------------------------------------------------
(* What the run has established so far. *)

\* The paths the k-th test covers, by the text it printed.
CoveredBy(k) == matchPathIds(removeBlanks(outputs[k]))

\* The k-th test has been matched with a path in this run.
Matched(k) == k < next /\ CoveredBy(k) # {}

\* The tests among the first n that this run gave to path p.
AssignedTo(p, n) == {k \in 1 .. n : Matched(k) /\ testCases[k].pathId = p}

\* The k-th test is the Rank(k)-th one its path got.
Rank(k) == Cardinality(AssignedTo(testCases[k].pathId, k))

(* Type correctness: every variable keeps to the range of its counterpart *)
(* in TestEngine and TestSuite.                                           *)
TypeOK == /\ phase \in {"idle", "exec", "match", "cover", "done"}
          /\ built \in BOOLEAN
          /\ testCases \in Seq(TestCase)
          /\ outputs \in Seq(Output)
          /\ phase = "idle" => outputs = << >>
          /\ Len(outputs) <= Len(testCases)
          /\ phase \in {"idle", "exec"} => next = 1
          /\ phase \notin {"idle", "exec"} => Len(outputs) = Len(testCases)
          /\ next \in 1 .. Len(testCases) + 1
          /\ pathTestCnt \in [PathIds -> Nat]
          /\ coverage \in {<< >>} \cup (Nat \X {NumPaths})

(* Every test matched in this run carries a path that its own output       *)
(* covers: computeCoverage never writes a path id its test does not earn.  *)
AssignedCovers == \A k \in 1 .. Len(testCases) :
                      Matched(k) => testCases[k].pathId \in CoveredBy(k)

(* The counters agree with the test cases: pathTestCnt[p] is the number of *)
(* tests that this run gave to path p, so coverage can be read off either. *)
CountsMatch == \A p \in PathIds :
                   pathTestCnt[p] = Cardinality(AssignedTo(p, next - 1))

(* No test is wasted: a path only gets its n-th test when every other path *)
(* that test covers has n-1 already, so an uncovered path is never passed  *)
(* over in favour of one that has a test.                                  *)
LoadBalanced == \A k \in 1 .. Len(testCases) :
                    Matched(k) => \A q \in CoveredBy(k) : pathTestCnt[q] >= Rank(k) - 1

(* A path that some test executes exactly is never left uncovered, however *)
(* the tests before it were spread over the paths.                         *)
ExactNotStarved ==
    \A k \in 1 .. next - 1 :
        LET p == matchPathId(removeBlanks(outputs[k]))
        IN  p # INVALID_PATH_ID => pathTestCnt[p] > 0

(* The paths one could cover with these outputs by giving each path in S a *)
(* test of its own.                                                        *)
Coverable(S) == \E f \in [S -> 1 .. Len(outputs)] :
                    /\ \A p \in S : p \in CoveredBy(f[p])
                    /\ \A p, q \in S : f[p] = f[q] => p = q

(* The greedy assignment is at worst half as good as the best assignment   *)
(* of the same outputs: no choice of one test per path covers more than    *)
(* twice the paths computeCoverage reports.                                *)
HalfOfBest == phase = "done" =>
                \A S \in SUBSET PathIds :
                    Coverable(S) => Cardinality(S) <= 2 * coverage[1]

(* What README.md calls path coverage information: a path counted as       *)
(* covered was executed by some test of the run.                           *)
CoveredPathExecuted ==
    phase = "done" => \A p \in CoveredPaths : 
        \E k \in 1 .. Len(outputs) : removeBlanks(outputs[k]).mask = Mask[p]
=============================================================================
