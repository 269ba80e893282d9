-------------------------- MODULE TestEngineProofs --------------------------
(***************************************************************************)
(* Proofs about TestEngine, for every function, every set of paths and     *)
(* every suite: the type invariant, the four safety invariants of the      *)
(* matching loop of computeCoverage, that each path is the best one for    *)
(* the tests matched before it, and that by such choices at least half as  *)
(* many paths are covered as by the best assignment there is.              *)
(***************************************************************************)
EXTENDS TestEngine, FiniteSetTheorems, TLAPS

-----------------------------------------------------------------------------
(* The choice of a path. *)

(* A nonempty set of naturals has a least element: the strict inclusion of *)
(* the finite sets of its elements below a bound is well founded.          *)
LEMMA LeastElement ==
    ASSUME NEW S \in SUBSET Nat, S # {}
    PROVE  \E n \in S : \A m \in S : n <= m
<1> DEFINE Below(n) == {m \in S : m < n}
           F == {Below(n) : n \in S}
           R == StrictSubsetOrdering(S)
<1>1. \A n \in S : Below(n) \in FiniteSubsetsOf(S)
  <2> TAKE n \in S
  <2>1. IsFiniteSet(Below(n))
    <3>1. Below(n) \in SUBSET Nat
      OBVIOUS
    <3>2. \A m \in Below(n) : m <= n
      OBVIOUS
    <3>3. n \in Nat
      OBVIOUS
    <3> HIDE DEF Below
    <3> QED BY <3>1, <3>2, <3>3, FS_BoundedSetOfNaturals
  <2> QED BY <2>1 DEF FiniteSubsetsOf
<1>2. F \subseteq FiniteSubsetsOf(S) /\ F # {}
  BY <1>1
<1>3. IsWellFoundedOn(R, FiniteSubsetsOf(S))
  BY FS_StrictSubsetOrderingWellFounded
<1>4. \E x \in F : \A y \in F : ~(<<y, x>> \in R)
  <2> HIDE DEF F, R
  <2> QED BY <1>2, <1>3, WFMin
<1>5. PICK n \in S : \A m \in S : ~(<<Below(m), Below(n)>> \in R)
  BY <1>4
<1>6. \A m \in S : n <= m
  <2> SUFFICES ASSUME NEW m \in S, m < n PROVE FALSE
    BY <1>5
  <2>1. Below(m) \subseteq Below(n)
    <3> SUFFICES ASSUME NEW k \in S, k < m PROVE k < n
      OBVIOUS
    <3>1. k \in Nat /\ m \in Nat /\ n \in Nat
      OBVIOUS
    <3> QED BY <3>1
  <2>2. m \in Below(n) /\ m \notin Below(m)
    OBVIOUS
  <2>3. Below(m) \in SUBSET S /\ Below(n) \in SUBSET S
    OBVIOUS
  <2>4. <<Below(m), Below(n)>> \in R
    <3> HIDE DEF Below
    <3> QED BY <2>1, <2>2, <2>3 DEF StrictSubsetOrdering
  <2> QED BY <2>4, <1>5
<1> QED BY <1>6

(* The least tested path of a nonempty set is in the set, and no path of   *)
(* the set has fewer tests (the minId loop of computeCoverage).            *)
LEMMA LeastTestedIsLeast ==
    ASSUME NEW cnt \in [PathIds -> Nat], NEW S \in SUBSET PathIds, S # {}
    PROVE  /\ LeastTested(cnt, S) \in S
           /\ \A q \in S : cnt[LeastTested(cnt, S)] <= cnt[q]
<1>1. PICK c \in {cnt[p] : p \in S} : \A d \in {cnt[p] : p \in S} : c <= d
  <2>1. {cnt[p] : p \in S} \in SUBSET Nat /\ {cnt[p] : p \in S} # {}
    OBVIOUS
  <2> QED BY <2>1, LeastElement
<1> DEFINE T == {p \in S : cnt[p] = c}
<1>2. PICK p \in T : \A q \in T : p <= q
  <2>1. \A p \in T : p \in Nat
    BY PathAssumption DEF PathIds, PathAssumption
  <2>2. T # {}
    BY <1>1
  <2> HIDE DEF T
  <2> QED BY <2>1, <2>2, LeastElement
<1>3. p \in S /\ \A q \in S : cnt[p] < cnt[q] \/ (cnt[p] = cnt[q] /\ p <= q)
  <2>1. p \in S /\ cnt[p] = c
    BY <1>2
  <2>2. ASSUME NEW q \in S PROVE cnt[p] < cnt[q] \/ (cnt[p] = cnt[q] /\ p <= q)
    <3>1. cnt[p] <= cnt[q] /\ cnt[p] \in Nat /\ cnt[q] \in Nat
      BY <1>1, <2>1
    <3>2. CASE cnt[p] = cnt[q]
      BY <3>2, <2>1, <1>2
    <3> QED BY <3>1, <3>2
  <2> QED BY <2>1, <2>2
<1> DEFINE m == LeastTested(cnt, S)
<1>4. m \in S /\ \A q \in S : cnt[m] < cnt[q] \/ (cnt[m] = cnt[q] /\ m <= q)
  BY <1>3 DEF LeastTested
<1>5. \A q \in S : cnt[m] \in Nat /\ cnt[q] \in Nat
  BY <1>4
<1> QED BY <1>4, <1>5

(* The path looked up in pathIdMap has the mask that was looked up.        *)
LEMMA LookupFindsMask ==
    ASSUME NEW o, SameMask(o) # {}, PathAssumption
    PROVE  matchPathId(o) \in SameMask(o)
<1> DEFINE D == {NumPaths - p : p \in SameMask(o)}
<1>1. D \in SUBSET Nat /\ D # {}
  BY DEF SameMask, PathIds, PathAssumption
<1>2. PICK d \in D : \A e \in D : d <= e
  <2> HIDE DEF D
  <2> QED BY <1>1, LeastElement
<1>3. PICK p \in SameMask(o) : d = NumPaths - p
  BY <1>2
<1>4. \A q \in SameMask(o) : q <= p
  <2> TAKE q \in SameMask(o)
  <2>1. d <= NumPaths - q
    BY <1>2
  <2> QED BY <2>1, <1>3 DEF SameMask, PathIds, PathAssumption
<1> QED BY <1>4 DEF matchPathId

(* What BestPath returns: a covered path with the fewest tests, nothing    *)
(* only when no path is covered, and an exact match when that has no test. *)
LEMMA BestPathIsBest ==
    ASSUME NEW cnt \in [PathIds -> Nat], NEW o, PathAssumption
    PROVE  /\ matchPathIds(o) = {} => BestPath(cnt, o) = INVALID_PATH_ID
           /\ matchPathIds(o) # {} =>
                /\ BestPath(cnt, o) \in matchPathIds(o)
                /\ \A q \in matchPathIds(o) : cnt[BestPath(cnt, o)] <= cnt[q]
           /\ matchPathId(o) # INVALID_PATH_ID =>
                /\ matchPathId(o) \in matchPathIds(o)
                /\ BestPath(cnt, o) = matchPathId(o) \/ cnt[matchPathId(o)] > 0
<1>1. matchPathIds(o) \in SUBSET PathIds
  BY DEF matchPathIds
<1>2. \A q \in PathIds : q # INVALID_PATH_ID
  BY DEF PathIds, INVALID_PATH_ID
<1>3. matchPathId(o) # INVALID_PATH_ID => matchPathId(o) \in matchPathIds(o)
  BY LookupFindsMask DEF matchPathId, SameMask, matchPathIds, isCover
<1>4. matchPathIds(o) # {} => 
        /\ LeastTested(cnt, matchPathIds(o)) \in matchPathIds(o)
        /\ \A q \in matchPathIds(o) : cnt[LeastTested(cnt, matchPathIds(o))] <= cnt[q]
  BY <1>1, LeastTestedIsLeast
<1>5. CASE matchPathId(o) # INVALID_PATH_ID /\ cnt[matchPathId(o)] = 0
  <2>1. BestPath(cnt, o) = matchPathId(o)
    BY <1>5 DEF BestPath
  <2> QED BY <2>1, <1>1, <1>3, <1>5
<1>6. CASE ~(matchPathId(o) # INVALID_PATH_ID /\ cnt[matchPathId(o)] = 0)
  <2>1. matchPathIds(o) # {} => BestPath(cnt, o) = LeastTested(cnt, matchPathIds(o))
    BY <1>6 DEF BestPath
  <2>2. matchPathIds(o) = {} => BestPath(cnt, o) = INVALID_PATH_ID
    BY <1>6 DEF BestPath
  <2>3. matchPathId(o) # INVALID_PATH_ID => cnt[matchPathId(o)] > 0
    BY <1>1, <1>3, <1>6
  <2> QED BY <2>1, <2>2, <2>3, <1>3, <1>4
<1> QED BY <1>5, <1>6

(* The path is a path id or INVALID_PATH_ID, and counting keeps the type.  *)
LEMMA BestPathType ==
    ASSUME NEW cnt \in [PathIds -> Nat], NEW o, PathAssumption
    PROVE  /\ BestPath(cnt, o) \in PathIds \cup {INVALID_PATH_ID}
           /\ AddTest(cnt, BestPath(cnt, o)) \in [PathIds -> Nat]
<1>1. BestPath(cnt, o) \in PathIds \cup {INVALID_PATH_ID}
  BY BestPathIsBest DEF matchPathIds
<1> QED BY <1>1 DEF AddTest

-----------------------------------------------------------------------------
(* Type correctness. *)

(* The initial state is well typed.                                        *)
LEMMA InitTyped == Init => TypeOK
<1> USE PathAssumption, EngineAssumption
<1>1. << >> \in Seq(TestCase) /\ << >> \in Seq(Output) /\ Len(<< >>) = 0
  OBVIOUS
<1>2. NoTests \in [PathIds -> Nat]
  BY DEF NoTests
<1> SUFFICES ASSUME Init PROVE TypeOK
  OBVIOUS
<1>3. testCases = << >> /\ outputs = << >> /\ next = 1 /\ phase = "idle"
      /\ built = FALSE /\ coverage = << >> /\ pathTestCnt = NoTests
  BY DEF Init
<1>4. next \in 1 .. Len(testCases) + 1
  BY <1>1, <1>3
<1>5. coverage \in {<< >>} \cup (Nat \X {NumPaths})
  BY <1>3
<1>6. testCases \in Seq(TestCase) /\ outputs \in Seq(Output)
  BY <1>1, <1>3
<1>7. Len(outputs) <= Len(testCases)
  BY <1>1, <1>3
<1> QED BY <1>2, <1>3, <1>4, <1>5, <1>6, <1>7 DEF TypeOK

(* Every step keeps the types.                                             *)
LEMMA StepTyped == TypeOK /\ [Next]_engineVars => TypeOK'
<1> USE PathAssumption, EngineAssumption
<1> SUFFICES ASSUME TypeOK, [Next]_engineVars PROVE TypeOK'
  OBVIOUS
<1>1. ASSUME NEW suite \in Suites, setDriverFile(suite) PROVE TypeOK'
  BY <1>1 DEF setDriverFile, TypeOK, EngineAssumption
<1>2. CASE ExecuteNext
  <2>1. PICK o \in Results(testCases[Len(outputs) + 1].test) :
           outputs' = Append(outputs, o)
    BY <1>2 DEF ExecuteNext
  <2>2. o \in Output
    <3>1. testCases[Len(outputs) + 1] \in TestCase
      BY <1>2 DEF ExecuteNext, TypeOK
    <3>2. Runs[testCases[Len(outputs) + 1].test] \subseteq Output
      BY <3>1 DEF TestCase, EngineAssumption
    <3>3. NoOutput \in Output
      BY DEF NoOutput, Output
    <3> QED BY <3>2, <3>3, <2>1 DEF Results
  <2>3. outputs' \in Seq(Output) /\ Len(outputs') = Len(outputs) + 1
    BY <2>1, <2>2 DEF TypeOK
  <2> QED BY <1>2, <2>3 DEF ExecuteNext, TypeOK
<1>3. CASE ExecuteDone
  BY <1>3 DEF ExecuteDone, TypeOK
<1>4. CASE MatchNext
  <2> DEFINE p == BestPath(pathTestCnt, removeBlanks(outputs[next]))
  <2>1. p \in PathIds \cup {INVALID_PATH_ID} /\ pathTestCnt' \in [PathIds -> Nat]
    BY <1>4, BestPathType DEF MatchNext, TypeOK
  <2>2. testCases' \in Seq(TestCase) /\ Len(testCases') = Len(testCases)
    <3>1. CASE p = INVALID_PATH_ID
      BY <3>1, <1>4 DEF MatchNext, TypeOK
    <3>2. CASE p # INVALID_PATH_ID
      <4>1. [testCases[next] EXCEPT !.pathId = p] \in TestCase
        <5>1. testCases[next] \in TestCase
          BY <1>4 DEF MatchNext, TypeOK
        <5>2. p \in Nat
          BY <2>1, <3>2 DEF PathIds, PathAssumption
        <5> QED BY <5>1, <5>2 DEF TestCase
      <4>2. testCases' = [testCases EXCEPT ![next] = [testCases[next] EXCEPT !.pathId = p]]
        BY <3>2, <1>4 DEF MatchNext
      <4> HIDE DEF p
      <4> QED BY <4>1, <4>2, <1>4 DEF MatchNext, TypeOK
    <3> QED BY <3>1, <3>2
  <2>3. phase = "match" /\ next <= Len(testCases) /\ next' = next + 1
        /\ UNCHANGED <<phase, built, outputs, coverage>>
    BY <1>4 DEF MatchNext
  <2> QED BY <2>1, <2>2, <2>3 DEF TypeOK
<1>5. CASE MatchDone
  BY <1>5 DEF MatchDone, TypeOK
<1>6. CASE setCoverage
  <2>1. IsFiniteSet(CoveredPaths)
    <3>1. IsFiniteSet(PathIds)
      BY FS_Interval DEF PathIds, PathAssumption
    <3>2. CoveredPaths \in SUBSET PathIds
      BY DEF CoveredPaths
    <3> QED BY <3>1, <3>2, FS_Subset
  <2>2. coverage' \in Nat \X {NumPaths}
    BY <1>6, <2>1, FS_CardinalityType DEF setCoverage
  <2> QED BY <1>6, <2>2 DEF setCoverage, TypeOK
<1>7. CASE UNCHANGED engineVars
  BY <1>7 DEF engineVars, TypeOK
<1> QED BY <1>1, <1>2, <1>3, <1>4, <1>5, <1>6, <1>7 DEF Next, Step

(* Every variable of the engine keeps its type in every run.               *)
THEOREM TypeCorrect == Spec => []TypeOK
<1> QED BY InitTyped, StepTyped, PTL DEF Spec

-----------------------------------------------------------------------------
(* The matching loop. *)

(***************************************************************************)
(* The invariants hold together: the counters are needed to know what the  *)
(* next test finds, and the assigned paths to know what the counters count.*)
(***************************************************************************)
MatchInv == /\ phase \in {"idle", "exec"} => pathTestCnt = NoTests
            /\ AssignedCovers
            /\ CountsMatch
            /\ LoadBalanced
            /\ ExactNotStarved

(* AssignedTo is a finite set of tests.                                    *)
LEMMA AssignedToFinite ==
    ASSUME NEW p, NEW n \in Nat
    PROVE  IsFiniteSet(AssignedTo(p, n))
<1>1. IsFiniteSet(1 .. n)
  BY FS_Interval
<1>2. AssignedTo(p, n) \in SUBSET (1 .. n)
  BY DEF AssignedTo
<1> QED BY <1>1, <1>2, FS_Subset

(* No test is matched before the loop starts.                              *)
LEMMA NothingMatched == TypeOK /\ next = 1 /\ pathTestCnt = NoTests => MatchInv
<1> SUFFICES ASSUME TypeOK, next = 1, pathTestCnt = NoTests PROVE MatchInv
  OBVIOUS
<1>1. \A k \in 1 .. Len(testCases) : ~Matched(k)
  BY DEF TypeOK, Matched
<1>2. ASSUME NEW p \in PathIds PROVE pathTestCnt[p] = Cardinality(AssignedTo(p, next - 1))
  <2>1. AssignedTo(p, 0) = {}
    BY DEF AssignedTo
  <2> QED BY <2>1, FS_EmptySet DEF NoTests
<1>3. 1 .. next - 1 = {}
  OBVIOUS
<1> QED BY <1>1, <1>2, <1>3
        DEF MatchInv, AssignedCovers, CountsMatch, LoadBalanced, ExactNotStarved

(* A turn of the loop of computeCoverage keeps the invariants.             *)
LEMMA MatchNextKeeps ==
    ASSUME TypeOK, MatchInv, MatchNext, PathAssumption
    PROVE  MatchInv'
<1>0. PICK j : j = next
  OBVIOUS
<1> DEFINE o == removeBlanks(outputs[j])
           p == BestPath(pathTestCnt, o)
<1>1. /\ j \in 1 .. Len(testCases) /\ next' = j + 1 /\ outputs' = outputs
      /\ pathTestCnt' = AddTest(pathTestCnt, p)
      /\ testCases' = IF p = INVALID_PATH_ID THEN testCases
                      ELSE [testCases EXCEPT ![j].pathId = p]
      /\ Len(testCases) \in Nat /\ pathTestCnt \in [PathIds -> Nat]
  BY <1>0 DEF MatchNext, TypeOK
<1>2. /\ Len(testCases') = Len(testCases)
      /\ \A k \in 1 .. Len(testCases) : k # j => testCases'[k] = testCases[k]
  BY <1>1 DEF TypeOK
<1>3. p # INVALID_PATH_ID => testCases'[j].pathId = p
  <2>1. testCases[j] \in TestCase
    BY <1>1 DEF TypeOK
  <2> HIDE DEF p
  <2> QED BY <1>1, <2>1 DEF TypeOK, TestCase
<1>4. \A k \in 1 .. Len(testCases) : CoveredBy(k)' = CoveredBy(k)
  BY <1>1 DEF CoveredBy
<1>5. /\ \A k \in 1 .. j - 1 : Matched(k)' <=> Matched(k)
      /\ Matched(j)' <=> CoveredBy(j) # {}
      /\ \A k \in j + 1 .. Len(testCases) : ~(Matched(k)')
  BY <1>0, <1>1, <1>4 DEF Matched
<1>6. CoveredBy(j) = matchPathIds(o)
  BY DEF CoveredBy
<1>7. /\ CoveredBy(j) = {} => p = INVALID_PATH_ID
      /\ CoveredBy(j) # {} =>
           /\ p \in CoveredBy(j) /\ p \in PathIds /\ p # INVALID_PATH_ID
           /\ \A q \in CoveredBy(j) : pathTestCnt[p] <= pathTestCnt[q]
      /\ matchPathId(o) # INVALID_PATH_ID =>
           /\ matchPathId(o) \in CoveredBy(j)
           /\ p = matchPathId(o) \/ pathTestCnt[matchPathId(o)] > 0
  <2>1. \A q \in matchPathIds(o) : q \in PathIds /\ q # INVALID_PATH_ID
    BY DEF matchPathIds, PathIds, INVALID_PATH_ID
  <2> HIDE DEF o
  <2> QED BY <1>1, <1>6, <2>1, BestPathIsBest
<1> HIDE DEF p, o
<1>8. \A q \in PathIds : pathTestCnt'[q] = IF q = p THEN pathTestCnt[q] + 1 ELSE pathTestCnt[q]
  BY <1>1, <1>7 DEF AddTest, PathIds, INVALID_PATH_ID
<1>9. \A q \in PathIds : pathTestCnt'[q] \in Nat /\ pathTestCnt[q] \in Nat /\ pathTestCnt'[q] >= pathTestCnt[q]
  BY <1>1, <1>8
<1>10. ASSUME NEW q \in PathIds, NEW n \in 0 .. j - 1
       PROVE  AssignedTo(q, n)' = AssignedTo(q, n)
  <2>1. \A k \in 1 .. n : /\ Matched(k)' <=> Matched(k)
                          /\ testCases'[k] = testCases[k]
    BY <1>1, <1>2, <1>5
  <2> QED BY <2>1 DEF AssignedTo
<1>11. ASSUME NEW q \in PathIds
       PROVE  Cardinality(AssignedTo(q, j)') =
                Cardinality(AssignedTo(q, j - 1)) + (IF q = p THEN 1 ELSE 0)
  <2>1. AssignedTo(q, j)' = AssignedTo(q, j - 1) \cup (IF q = p THEN {j} ELSE {})
    <3>1. 1 .. j = (1 .. j - 1) \cup {j}
      BY <1>1
    <3>2. \A k \in 1 .. j - 1 : /\ Matched(k)' <=> Matched(k)
                                /\ testCases'[k] = testCases[k]
      BY <1>1, <1>2, <1>5
    <3>3. (Matched(j)' /\ testCases'[j].pathId = q) <=> q = p
      BY <1>3, <1>5, <1>7 DEF PathIds, INVALID_PATH_ID
    <3> QED BY <3>1, <3>2, <3>3 DEF AssignedTo
  <2>2. IsFiniteSet(AssignedTo(q, j - 1))
    BY <1>1, AssignedToFinite
  <2>3. j \notin AssignedTo(q, j - 1)
    BY <1>1 DEF AssignedTo
  <2>4. Cardinality(AssignedTo(q, j - 1)) \in Nat
    BY <2>2, FS_CardinalityType
  <2>5. CASE q = p
    <3>1. AssignedTo(q, j)' = AssignedTo(q, j - 1) \cup {j}
      BY <2>1, <2>5
    <3> QED BY <3>1, <2>2, <2>3, <2>4, <2>5, FS_AddElement
  <2>6. CASE q # p
    BY <2>1, <2>4, <2>6
  <2> QED BY <2>5, <2>6
<1>12. \A q \in PathIds : pathTestCnt[q] = Cardinality(AssignedTo(q, j - 1))
  BY <1>0 DEF MatchInv, CountsMatch
<1>13. AssignedCovers'
  <2> SUFFICES ASSUME NEW k \in 1 .. Len(testCases), Matched(k)'
               PROVE  testCases'[k].pathId \in CoveredBy(k)
    BY <1>2, <1>4 DEF AssignedCovers
  <2>1. CASE k \in 1 .. j - 1
    BY <2>1, <1>1, <1>2, <1>5 DEF MatchInv, AssignedCovers
  <2>2. CASE k = j
    BY <2>2, <1>3, <1>5, <1>7
  <2>3. CASE k \in j + 1 .. Len(testCases)
    BY <2>3, <1>5
  <2> QED BY <2>1, <2>2, <2>3, <1>1
<1>14. CountsMatch'
  <2>1. next' - 1 = j
    BY <1>1
  <2> QED BY <2>1, <1>8, <1>9, <1>11, <1>12 DEF CountsMatch
<1>15. LoadBalanced'
  <2> SUFFICES ASSUME NEW k \in 1 .. Len(testCases), Matched(k)', NEW q \in CoveredBy(k)
               PROVE  pathTestCnt'[q] >= Rank(k)' - 1
    BY <1>2, <1>4 DEF LoadBalanced
  <2>1. q \in PathIds
    BY DEF CoveredBy, matchPathIds
  <2>2. CASE k \in 1 .. j - 1
    <3>1. Matched(k) /\ testCases'[k] = testCases[k]
      BY <2>2, <1>1, <1>2, <1>5
    <3>2. testCases[k].pathId \in PathIds
      BY <3>1 DEF MatchInv, AssignedCovers, CoveredBy, matchPathIds
    <3>3. Rank(k)' = Rank(k)
      <4>1. PICK r \in PathIds : r = testCases[k].pathId
        BY <3>2
      <4>2. AssignedTo(r, k)' = AssignedTo(r, k)
        BY <2>2, <1>1, <1>10
      <4>3. AssignedTo(testCases[k].pathId, k)' = AssignedTo(r, k)'
        BY <4>1, <3>1 DEF AssignedTo
      <4> QED BY <4>1, <4>2, <4>3 DEF Rank
    <3>4. Rank(k) \in Nat
      BY AssignedToFinite, FS_CardinalityType DEF Rank
    <3>5. pathTestCnt[q] >= Rank(k) - 1
      BY <3>1 DEF MatchInv, LoadBalanced
    <3> QED BY <3>3, <3>4, <3>5, <2>1, <1>9
  <2>3. CASE k = j
    <3>1. CoveredBy(j) # {} /\ p \in PathIds /\ testCases'[j].pathId = p
      BY <2>3, <1>3, <1>5, <1>7
    <3>2. Rank(k)' = pathTestCnt[p] + 1
      BY <2>3, <3>1, <1>11, <1>12 DEF Rank
    <3>3. pathTestCnt[p] <= pathTestCnt[q]
      BY <2>3, <3>1, <1>7
    <3> QED BY <3>1, <3>2, <3>3, <2>1, <1>9
  <2>4. CASE k \in j + 1 .. Len(testCases)
    BY <2>4, <1>5
  <2> QED BY <2>2, <2>3, <2>4, <1>1
<1>16. ExactNotStarved'
  <2> SUFFICES ASSUME NEW k \in 1 .. j,
                      matchPathId(removeBlanks(outputs[k])) # INVALID_PATH_ID
               PROVE  pathTestCnt'[matchPathId(removeBlanks(outputs[k]))] > 0
    BY <1>1 DEF ExactNotStarved
  <2> DEFINE e == matchPathId(removeBlanks(outputs[k]))
  <2>1. e \in PathIds
    <3>1. e \in SameMask(removeBlanks(outputs[k]))
      BY LookupFindsMask DEF matchPathId
    <3> QED BY <3>1 DEF SameMask
  <2>2. CASE k \in 1 .. j - 1
    BY <2>1, <2>2, <1>0, <1>1, <1>9 DEF MatchInv, ExactNotStarved
  <2>3. CASE k = j
    <3>1. e = matchPathId(o)
      BY <2>3 DEF o
    <3>2. CASE p = e
      <4>1. pathTestCnt'[e] = pathTestCnt[e] + 1
        BY <2>1, <3>2, <1>8
      <4> QED BY <4>1, <2>1, <1>9
    <3>3. CASE p # e
      <4>1. pathTestCnt[e] > 0
        BY <3>1, <3>3, <1>7
      <4> QED BY <4>1, <2>1, <1>9
    <3> QED BY <3>2, <3>3
  <2> QED BY <2>2, <2>3, <1>1
<1>17. phase' = "match"
  BY DEF MatchNext
<1> QED BY <1>13, <1>14, <1>15, <1>16, <1>17 DEF MatchInv

(* The four invariants of the matching loop hold in every state of every   *)
(* run of every suite.                                                     *)
THEOREM MatchingCorrect == Spec => []MatchInv
<1> USE PathAssumption
<1>1. Init => MatchInv
  BY InitTyped, NothingMatched DEF Init
<1>2. (TypeOK /\ next = 1 /\ pathTestCnt = NoTests => MatchInv)'
  BY NothingMatched, PTL
<1>3. TypeOK /\ TypeOK' /\ MatchInv /\ [Next]_engineVars => MatchInv'
  <2> SUFFICES ASSUME TypeOK, TypeOK', MatchInv, [Next]_engineVars
               PROVE  MatchInv'
    OBVIOUS
  <2>1. ASSUME phase \in {"idle", "exec"}, next' = next, pathTestCnt' = pathTestCnt
        PROVE  MatchInv'
    BY <2>1, <1>2 DEF TypeOK, MatchInv, NoTests
  <2>2. ASSUME phase \notin {"idle", "exec"}, phase' \notin {"idle", "exec"},
               testCases' = testCases, outputs' = outputs, next' = next,
               pathTestCnt' = pathTestCnt
        PROVE  MatchInv'
    BY <2>2 DEF MatchInv, AssignedCovers, CountsMatch, LoadBalanced, ExactNotStarved,
                Rank, AssignedTo, Matched, CoveredBy
  <2>3. ASSUME NEW suite \in Suites, setDriverFile(suite) PROVE MatchInv'
    BY <2>1, <2>3 DEF setDriverFile
  <2>4. CASE ExecuteNext
    BY <2>1, <2>4 DEF ExecuteNext
  <2>5. CASE ExecuteDone
    BY <2>1, <2>5 DEF ExecuteDone
  <2>6. CASE MatchNext
    BY <2>6, MatchNextKeeps
  <2>7. CASE MatchDone
    BY <2>2, <2>7 DEF MatchDone
  <2>8. CASE setCoverage
    BY <2>2, <2>8 DEF setCoverage
  <2>9. CASE UNCHANGED engineVars
    BY <2>1, <2>2, <2>9 DEF engineVars
  <2> QED BY <2>3, <2>4, <2>5, <2>6, <2>7, <2>8, <2>9 DEF Next, Step
<1> QED BY <1>1, <1>3, TypeCorrect, PTL DEF Spec

(* A test is only ever given a path that its own output covers.            *)
THEOREM AssignedPathsCovered == Spec => []AssignedCovers
<1>1. MatchInv => AssignedCovers
  BY DEF MatchInv
<1> QED BY <1>1, MatchingCorrect, PTL

(* pathTestCnt is exact: the tests given to a path and its counter agree.  *)
THEOREM CountsCorrect == Spec => []CountsMatch
<1>1. MatchInv => CountsMatch
  BY DEF MatchInv
<1> QED BY <1>1, MatchingCorrect, PTL

(* No path gets another test while a path that test covers has fewer.      *)
THEOREM LoadIsBalanced == Spec => []LoadBalanced
<1>1. MatchInv => LoadBalanced
  BY DEF MatchInv
<1> QED BY <1>1, MatchingCorrect, PTL

(* A path that some test executes exactly does not stay uncovered.         *)
THEOREM ExactPathsCovered == Spec => []ExactNotStarved
<1>1. MatchInv => ExactNotStarved
  BY DEF MatchInv
<1> QED BY <1>1, MatchingCorrect, PTL

-----------------------------------------------------------------------------
(* The loop can be run again from the outputs alone. *)

\* What the counters were when the k-th test came to its turn.
CountsBefore(k) == [q \in PathIds |-> Cardinality(AssignedTo(q, k - 1))]

ChosenInTurn ==
    \A k \in 1 .. next - 1 :
        CoveredBy(k) # {} =>
            testCases[k].pathId = BestPath(CountsBefore(k), removeBlanks(outputs[k]))

\* A turn gives its own test the path for the counts it finds, and leaves the
\* tests before it, and what they were chosen by, alone.
LEMMA MatchNextChooses ==
    ASSUME TypeOK, MatchInv, ChosenInTurn, MatchNext
    PROVE  ChosenInTurn'
<1>0. PICK j : j = next
  OBVIOUS
<1> DEFINE o == removeBlanks(outputs[j])
           p == BestPath(pathTestCnt, o)
<1>1. /\ j \in 1 .. Len(testCases) /\ next' = j + 1 /\ outputs' = outputs
      /\ testCases' = IF p = INVALID_PATH_ID THEN testCases
                      ELSE [testCases EXCEPT ![j].pathId = p]
      /\ pathTestCnt \in [PathIds -> Nat] /\ testCases \in Seq(TestCase)
  BY <1>0 DEF MatchNext, TypeOK
<1>2. \A k \in 1 .. j - 1 : testCases'[k] = testCases[k]
  BY <1>1
<1>3. pathTestCnt = CountsBefore(j)
  BY <1>0, <1>1 DEF MatchInv, CountsMatch, CountsBefore
<1>4. ASSUME NEW k \in 1 .. j PROVE CountsBefore(k)' = CountsBefore(k)
  <2>1. \A m \in 1 .. k - 1 : (Matched(m)' <=> Matched(m)) /\ testCases'[m] = testCases[m]
    BY <1>0, <1>1, <1>2 DEF Matched, CoveredBy
  <2>2. \A q \in PathIds : AssignedTo(q, k - 1)' = AssignedTo(q, k - 1)
    BY <2>1 DEF AssignedTo
  <2> QED BY <2>2 DEF CountsBefore
<1>5. ASSUME NEW k \in 1 .. j, CoveredBy(k) # {}
      PROVE  testCases'[k].pathId = BestPath(CountsBefore(k), removeBlanks(outputs[k]))
  <2>1. CASE k \in 1 .. j - 1
    BY <2>1, <1>0, <1>2, <1>5 DEF ChosenInTurn
  <2>2. CASE k = j
    <3>1. p # INVALID_PATH_ID
      <4>1. matchPathIds(o) # {}
        BY <2>2, <1>5 DEF CoveredBy
      <4>2. p \in matchPathIds(o)
        <5> HIDE DEF o
        <5> QED BY <4>1, <1>1, PathAssumption, BestPathIsBest
      <4> QED BY <4>2 DEF matchPathIds, PathIds, INVALID_PATH_ID
    <3>2. testCases[j] \in TestCase
      BY <1>1
    <3>3. testCases'[j].pathId = p
      <4> HIDE DEF p
      <4> QED BY <1>1, <3>1, <3>2 DEF TestCase
    <3> QED BY <2>2, <3>3, <1>3
  <2> QED BY <2>1, <2>2, <1>1
<1>6. \A k \in 1 .. j : CoveredBy(k)' = CoveredBy(k)
  BY <1>1 DEF CoveredBy
<1> HIDE DEF p, o
<1> QED BY <1>1, <1>4, <1>5, <1>6 DEF ChosenInTurn

(* Every path was chosen by the counts of the tests before it: whoever     *)
(* sees the same outputs in the same order comes to the same paths.        *)
THEOREM PathsChosenInTurn == Spec => []ChosenInTurn
<1>1. next = 1 => ChosenInTurn
  BY DEF ChosenInTurn
<1>2. (next = 1 => ChosenInTurn)'
  BY <1>1, PTL
<1>3. TypeOK /\ MatchInv /\ ChosenInTurn /\ [Next]_engineVars => ChosenInTurn'
  <2> SUFFICES ASSUME TypeOK, MatchInv, ChosenInTurn, [Next]_engineVars
               PROVE  ChosenInTurn'
    OBVIOUS
  <2>1. ASSUME phase \in {"idle", "exec"}, next' = next PROVE ChosenInTurn'
    BY <2>1, <1>2 DEF TypeOK
  <2>2. ASSUME UNCHANGED <<testCases, outputs, next>> PROVE ChosenInTurn'
    BY <2>2 DEF ChosenInTurn, CountsBefore, AssignedTo, Matched, CoveredBy
  <2>3. ASSUME NEW suite \in Suites, setDriverFile(suite) PROVE ChosenInTurn'
    BY <2>1, <2>3 DEF setDriverFile
  <2>4. CASE ExecuteNext
    BY <2>1, <2>4 DEF ExecuteNext
  <2>5. CASE MatchNext
    BY <2>5, MatchNextChooses
  <2>6. CASE ExecuteDone \/ MatchDone \/ setCoverage \/ UNCHANGED engineVars
    BY <2>2, <2>6 DEF ExecuteDone, MatchDone, setCoverage, engineVars
  <2> QED BY <2>3, <2>4, <2>5, <2>6 DEF Next, Step
<1>4. Init => ChosenInTurn
  BY <1>1 DEF Init
<1> QED BY <1>3, <1>4, TypeCorrect, MatchingCorrect, PTL DEF Spec

-----------------------------------------------------------------------------
(* How good the greedy assignment is. *)

\* At the end every test has had its turn, and the report is the counters'.
AtEnd == /\ phase \in {"cover", "done"} => next = Len(testCases) + 1
         /\ phase = "done" => coverage = <<Cardinality(CoveredPaths), NumPaths>>

LEMMA CoveredFinite == IsFiniteSet(CoveredPaths) /\ IsFiniteSet(PathIds)
<1>1. IsFiniteSet(PathIds)
  BY PathAssumption, FS_Interval DEF PathIds, PathAssumption
<1>2. CoveredPaths \in SUBSET PathIds
  BY DEF CoveredPaths
<1> QED BY <1>1, <1>2, FS_Subset

(***************************************************************************)
(* The path a matched test went to is covered; if some path the test covers *)
(* is not, the test is the first one its own path got.                     *)
(***************************************************************************)
LEMMA FirstOfItsPath ==
    ASSUME TypeOK, MatchInv, NEW k \in 1 .. next - 1, NEW q \in CoveredBy(k)
    PROVE  /\ testCases[k].pathId \in CoveredPaths
           /\ q \notin CoveredPaths => AssignedTo(testCases[k].pathId, k) = {k}
<1> DEFINE g == testCases[k].pathId
<1>1. /\ k \in 1 .. Len(testCases) /\ next \in Nat /\ next - 1 \in Nat /\ k \in Nat
      /\ pathTestCnt \in [PathIds -> Nat] /\ k < next
  BY DEF TypeOK
<1>2. Matched(k)
  BY <1>1 DEF Matched
<1>3. g \in PathIds /\ q \in PathIds
  BY <1>1, <1>2 DEF MatchInv, AssignedCovers, CoveredBy, matchPathIds
<1>4. k \in AssignedTo(g, k) /\ k \in AssignedTo(g, next - 1)
  BY <1>1, <1>2 DEF AssignedTo
<1>5. IsFiniteSet(AssignedTo(g, k)) /\ IsFiniteSet(AssignedTo(g, next - 1))
  BY <1>1, AssignedToFinite
<1>6. g \in CoveredPaths
  <2>1. pathTestCnt[g] = Cardinality(AssignedTo(g, next - 1))
    BY <1>3 DEF MatchInv, CountsMatch
  <2>2. pathTestCnt[g] # 0
    BY <2>1, <1>4, <1>5, FS_EmptySet
  <2> QED BY <2>2, <1>1, <1>3 DEF CoveredPaths
<1>7. ASSUME q \notin CoveredPaths PROVE AssignedTo(g, k) = {k}
  <2>1. pathTestCnt[q] = 0
    BY <1>7, <1>1, <1>3 DEF CoveredPaths
  <2>2. pathTestCnt[q] >= Rank(k) - 1
    BY <1>1, <1>2 DEF MatchInv, LoadBalanced
  <2>3. Rank(k) = Cardinality(AssignedTo(g, k))
    BY DEF Rank
  <2>4. Rank(k) \in Nat /\ Rank(k) # 0
    BY <2>3, <1>4, <1>5, FS_CardinalityType, FS_EmptySet
  <2>5. Rank(k) = 1
    BY <2>1, <2>2, <2>4
  <2>6. PICK x : AssignedTo(g, k) = {x}
    BY <2>3, <2>5, <1>5, FS_Singleton
  <2> QED BY <2>6, <1>4
<1> QED BY <1>6, <1>7

(***************************************************************************)
(* Give each path of S a test of its own.  The paths of S that are not     *)
(* covered are no more than those that are: the test of such a path was    *)
(* the first one of the path it went to, which no two of them share.       *)
(***************************************************************************)
LEMMA UncoveredAreFew ==
    ASSUME TypeOK, MatchInv, next = Len(testCases) + 1, Len(outputs) = Len(testCases),
           NEW S \in SUBSET PathIds, Coverable(S)
    PROVE  Cardinality(S \ CoveredPaths) <= Cardinality(CoveredPaths)
<1>1. PICK f \in [S -> 1 .. Len(outputs)] :
          /\ \A p \in S : p \in CoveredBy(f[p])
          /\ \A p, q \in S : f[p] = f[q] => p = q
  BY DEF Coverable
<1> DEFINE U == S \ CoveredPaths
           h == [p \in U |-> testCases[f[p]].pathId]
<1>2. \A p \in S : f[p] \in 1 .. next - 1 /\ f[p] \in Nat
  BY DEF TypeOK
<1>3. \A p \in U : h[p] \in CoveredPaths /\ AssignedTo(h[p], f[p]) = {f[p]}
  <2> TAKE p \in U
  <2>1. f[p] \in 1 .. next - 1 /\ p \in CoveredBy(f[p]) /\ p \notin CoveredPaths
    BY <1>1, <1>2
  <2> QED BY <2>1, FirstOfItsPath
<1>4. \A p \in U : \A n \in Nat : f[p] <= n => f[p] \in AssignedTo(h[p], n)
  <2> TAKE p \in U
  <2> TAKE n \in Nat
  <2>1. f[p] \in AssignedTo(h[p], f[p])
    BY <1>3
  <2> HIDE DEF h
  <2> QED BY <2>1, <1>2 DEF AssignedTo
<1>5. ASSUME NEW p \in U, NEW q \in U, h[p] = h[q] PROVE p = q
  <2>1. f[p] \in Nat /\ f[q] \in Nat
    BY <1>2
  <2>2. f[p] <= f[q] => f[p] = f[q]
    <3> HIDE DEF h
    <3> QED BY <1>3, <1>4, <1>5, <2>1
  <2>3. f[q] <= f[p] => f[p] = f[q]
    <3> HIDE DEF h
    <3> QED BY <1>3, <1>4, <1>5, <2>1
  <2>4. f[p] = f[q]
    BY <2>1, <2>2, <2>3
  <2> QED BY <2>4, <1>1
<1>6. IsFiniteSet(U) /\ IsFiniteSet(CoveredPaths)
  <2>1. U \in SUBSET PathIds
    OBVIOUS
  <2> HIDE DEF U
  <2> QED BY <2>1, CoveredFinite, FS_Subset
<1>7. h \in [U -> CoveredPaths]
  BY <1>3
<1>8. Cardinality(U) \in Nat /\ Cardinality(CoveredPaths) \in Nat
  BY <1>6, FS_CardinalityType
<1>9. ~(Cardinality(CoveredPaths) < Cardinality(U))
  <2> HIDE DEF h, U
  <2> QED BY <1>5, <1>6, <1>7, FS_PigeonHole
<1> QED BY <1>8, <1>9

(* When the matching is over every test has had its turn, and the report   *)
(* is read off the counters.                                               *)
LEMMA EndReached == Spec => []AtEnd
<1>1. Init => AtEnd
  BY DEF Init, AtEnd
<1>2. TypeOK /\ AtEnd /\ [Next]_engineVars => AtEnd'
  <2> SUFFICES ASSUME TypeOK, AtEnd, [Next]_engineVars PROVE AtEnd'
    OBVIOUS
  <2>1. CASE \E suite \in Suites : setDriverFile(suite)
    BY <2>1 DEF setDriverFile, AtEnd
  <2>2. CASE ExecuteNext \/ ExecuteDone \/ MatchNext
    BY <2>2 DEF ExecuteNext, ExecuteDone, MatchNext, AtEnd
  <2>3. CASE MatchDone
    BY <2>3 DEF MatchDone, AtEnd, TypeOK
  <2>4. CASE setCoverage
    BY <2>4 DEF setCoverage, AtEnd, CoveredPaths
  <2>5. CASE UNCHANGED engineVars
    BY <2>5 DEF engineVars, AtEnd, CoveredPaths
  <2> QED BY <2>1, <2>2, <2>3, <2>4, <2>5 DEF Next, Step
<1> QED BY <1>1, <1>2, TypeCorrect, PTL DEF Spec

(* However the tests had been given to the paths, one test for one path,   *)
(* no more than twice the reported number of paths would be covered.       *)
THEOREM GreedyIsHalf == Spec => []HalfOfBest
<1>1. TypeOK /\ MatchInv /\ AtEnd => HalfOfBest
  <2> SUFFICES ASSUME TypeOK, MatchInv, AtEnd, phase = "done",
                      NEW S \in SUBSET PathIds, Coverable(S)
               PROVE  Cardinality(S) <= 2 * coverage[1]
    BY DEF HalfOfBest
  <2>1. next = Len(testCases) + 1 /\ Len(outputs) = Len(testCases)
        /\ coverage[1] = Cardinality(CoveredPaths)
    BY DEF AtEnd, TypeOK
  <2>2. Cardinality(S \ CoveredPaths) <= Cardinality(CoveredPaths)
    BY <2>1, UncoveredAreFew
  <2>3. IsFiniteSet(S) /\ IsFiniteSet(CoveredPaths) /\ IsFiniteSet(S \ CoveredPaths)
    BY CoveredFinite, FS_Subset
  <2>4. /\ IsFiniteSet((S \ CoveredPaths) \cup CoveredPaths)
        /\ Cardinality((S \ CoveredPaths) \cup CoveredPaths) =
              Cardinality(S \ CoveredPaths) + Cardinality(CoveredPaths)
                - Cardinality((S \ CoveredPaths) \cap CoveredPaths)
    BY <2>3, FS_Union
  <2>5. (S \ CoveredPaths) \cap CoveredPaths = {} /\ Cardinality({}) = 0
    BY FS_EmptySet
  <2>6. Cardinality(S) <= Cardinality((S \ CoveredPaths) \cup CoveredPaths)
    <3>1. S \in SUBSET ((S \ CoveredPaths) \cup CoveredPaths)
      OBVIOUS
    <3> QED BY <3>1, <2>4, FS_Subset
  <2>7. /\ Cardinality(S) \in Nat /\ Cardinality(CoveredPaths) \in Nat
        /\ Cardinality(S \ CoveredPaths) \in Nat
    BY <2>3, FS_CardinalityType
  <2>8. Cardinality((S \ CoveredPaths) \cap CoveredPaths) = 0
    BY <2>5
  <2>9. ASSUME NEW s \in Nat, NEW u \in Nat, NEW c \in Nat, s <= u + c - 0, u <= c
        PROVE  s <= 2 * c
    BY ONLY <2>9
  <2>10. Cardinality(S) <= Cardinality(S \ CoveredPaths) + Cardinality(CoveredPaths) - 0
    BY <2>4, <2>6, <2>8
  <2> QED BY <2>1, <2>2, <2>7, <2>9, <2>10
<1> QED BY <1>1, EndReached, TypeCorrect, MatchingCorrect, PTL
=============================================================================
