-------------------------- MODULE PathPruningProofs --------------------------
(***************************************************************************)
(* For every graph, every target path and every length of the executions:  *)
(* the tables of the target edges are set up in time, and no execution of  *)
(* the target, or of its unique part, is ever ended.                       *)
(***************************************************************************)
EXTENDS PathPruning, SequenceTheorems, FiniteSetTheorems, TLAPS

-----------------------------------------------------------------------------
(* Induction over a set of naturals, from the well-foundedness of the      *)
(* finite sets.                                                            *)

LEMMA LeastElement ==
    ASSUME NEW T \in SUBSET Nat, T # {}
    PROVE  \E m \in T : \A k \in T : m <= k
<1> DEFINE F == {0 .. t - 1 : t \in T}
<1>1. \A t \in T : 0 .. t - 1 \in FiniteSubsetsOf(Nat)
  BY FS_Interval, 0 \in Int, \A t \in T : t - 1 \in Int DEF FiniteSubsetsOf
<1>2. F \subseteq FiniteSubsetsOf(Nat) /\ F # {}
  BY <1>1
<1>3. PICK x \in F : \A y \in F : <<y, x>> \notin StrictSubsetOrdering(Nat)
  <2> HIDE DEF F
  <2> QED  BY <1>2, FS_StrictSubsetOrderingWellFounded, WFMin
<1>4. PICK m \in T : x = 0 .. m - 1
  BY DEF F
<1>5. ASSUME NEW k \in T  PROVE m <= k
  <2> SUFFICES ASSUME k < m  PROVE FALSE
    OBVIOUS
  <2>1. 0 .. k - 1 \subseteq 0 .. m - 1 /\ 0 .. k - 1 # 0 .. m - 1
    <3>1. k \in 0 .. m - 1 /\ k \notin 0 .. k - 1
      OBVIOUS
    <3> QED  BY <3>1
  <2>2. <<0 .. k - 1, 0 .. m - 1>> \in StrictSubsetOrdering(Nat)
    BY <2>1 DEF StrictSubsetOrdering
  <2> QED  BY <1>3, <1>4, <2>2 DEF F
<1> QED  BY <1>5

LEMMA SetInduction ==
    ASSUME NEW S, 0 \in S, NEW N \in Nat,
           \A n \in 0 .. N - 1 : n \in S => n + 1 \in S
    PROVE  \A n \in 0 .. N : n \in S
<1> DEFINE T == {n \in 0 .. N : n \notin S}
<1> SUFFICES ASSUME T # {}  PROVE FALSE
  OBVIOUS
<1>1. PICK m \in T : \A k \in T : m <= k
  <2>1. T \in SUBSET Nat
    OBVIOUS
  <2> HIDE DEF T
  <2> QED  BY <2>1, LeastElement
<1>2. m # 0 /\ m \in 0 .. N
  OBVIOUS
<1>3. m - 1 \notin T /\ m - 1 \in 0 .. N - 1
  <2>1. m - 1 \in 0 .. N - 1
    BY <1>2
  <2>2. ~ (m <= m - 1)
    BY <1>2
  <2> QED  BY <1>1, <2>1, <2>2
<1>4. m - 1 \in S
  BY <1>3
<1> QED  BY <1>1, <1>2, <1>3, <1>4

\* A block is reachable from any earlier block of a path.
LEMMA ReachableAlong ==
    ASSUME NEW s \in Seq(Blocks), IsPath(s),
           NEW m \in 1 .. Len(s), NEW k \in 1 .. Len(s), m <= k
    PROVE  isPotentiallyReachable(s[m], s[k])
<1> SUFFICES ASSUME NEW S \in SUBSET Blocks, s[m] \in S, \A x \in S : edges[x] \subseteq S
             PROVE  s[k] \in S
  BY DEF isPotentiallyReachable
<1> DEFINE R == {n \in Nat : s[m + n] \in S}
<1>1. 0 \in R
  OBVIOUS
<1>2. ASSUME NEW n \in 0 .. (k - m) - 1, n \in R  PROVE n + 1 \in R
  <2>1. m + n \in 1 .. Len(s) - 1 /\ (m + n) + 1 = m + (n + 1)
    OBVIOUS
  <2>2. s[(m + n) + 1] \in edges[s[m + n]]
    BY <2>1 DEF IsPath
  <2> QED  BY <1>2, <2>1, <2>2
<1>3. k - m \in Nat
  OBVIOUS
<1>4. \A n \in 0 .. k - m : n \in R
  <2> HIDE DEF R
  <2> QED  BY <1>1, <1>2, <1>3, SetInduction
<1>5. k - m \in 0 .. k - m /\ m + (k - m) = k
  OBVIOUS
<1> QED  BY <1>4, <1>5

-----------------------------------------------------------------------------
(* The inductive invariant.                                                *)

\* What Init fixes.
Chosen == /\ edges \in [Blocks -> SUBSET Blocks]
          /\ target \in Targets /\ IsExecution(target)
          /\ subSeq \in Seq(Blocks)
          /\ \E a, b \in 1 .. Len(target) : a < b /\ subSeq = SubSeq(target, a, b)

\* A block with a call of its own is not left before the tables are set up.
InTime == /\ pc = "trigger" => LastOf(trace) \in triggerNodes
          /\ pc \in {"body", "completed"} /\ LastOf(trace) \in triggerNodes
                => isInitialized

\* What handlePathExit has seen of a state it has ended.
Hopeless == pc = "terminated" => covered = {} /\ ~isReachableToTargetNodes

IInv == TypeOK /\ Chosen /\ InTime /\ CoverageExact /\ Hopeless

LEMMA ChosenInit == Init => Chosen
<1> SUFFICES ASSUME Init  PROVE Chosen
  OBVIOUS
<1>1. edges \in [Blocks -> SUBSET Blocks] /\ target \in Targets /\ target \in Seq(Blocks)
  BY PruningAssumption DEF Init, paths
<1>2. PICK a, b \in 1 .. Len(target) : a < b /\ subSeq = SubSeq(target, a, b)
  BY DEF Init
<1>3. subSeq \in Seq(Blocks)
  BY <1>1, <1>2, SubSeqProperties
<1>4. IsExecution(target)
  BY DEF Init, paths
<1> QED  BY <1>1, <1>2, <1>3, <1>4 DEF Chosen

LEMMA InitInv == Init => IInv
<1> SUFFICES ASSUME Init  PROVE IInv
  OBVIOUS
<1>1. Chosen
  BY ChosenInit
<1>2. trace = <<0>> /\ Len(trace) = 1 /\ trace[1] = 0 /\ LastOf(trace) = 0
  BY DEF Init, LastOf
<1>3. pc = calls(0) /\ covered = {} /\ isInitialized = FALSE
  BY DEF Init
<1>4. TypeOK
  <2>1. target \in Seq(Blocks) /\ subSeq \in Seq(Blocks)
    BY <1>1, PruningAssumption DEF Chosen
  <2>2. trace \in Seq(Blocks) /\ IsPath(trace)
    BY <1>2, PruningAssumption DEF IsPath
  <2>3. pc \in {"exit", "trigger", "body", "terminated", "completed"}
    BY <1>3 DEF calls
  <2> QED  BY <1>1, <1>3, <2>1, <2>2, <2>3 DEF TypeOK, Chosen
<1>5. InTime
  BY <1>2, <1>3 DEF InTime, calls
<1>6. CoverageExact
  BY <1>2, <1>3 DEF CoverageExact, Steps
<1>7. Hopeless
  BY <1>3 DEF Hopeless, calls
<1> QED  BY <1>1, <1>4, <1>5, <1>6, <1>7 DEF IInv

\* The walk and the tables stay as they are when the state only makes a call.
Still == UNCHANGED <<edges, target, subSeq, trace, covered>>

LEMMA StillKeeps ==
    IInv /\ Still =>
        /\ Chosen' /\ CoverageExact'
        /\ triggerNodes' = triggerNodes
        /\ LastOf(trace)' = LastOf(trace)
        /\ isReachableToTargetNodes' = isReachableToTargetNodes
        /\ (pc \in {"exit", "trigger", "body", "terminated", "completed"}
            /\ isInitialized \in BOOLEAN)' => TypeOK'
<1> SUFFICES ASSUME IInv, Still
             PROVE  /\ Chosen' /\ CoverageExact'
                    /\ triggerNodes' = triggerNodes
                    /\ LastOf(trace)' = LastOf(trace)
                    /\ isReachableToTargetNodes' = isReachableToTargetNodes
                    /\ (pc \in {"exit", "trigger", "body", "terminated", "completed"}
                        /\ isInitialized \in BOOLEAN)' => TypeOK'
  OBVIOUS
<1>1. Chosen'
  BY DEF IInv, Chosen, Still, IsExecution, IsPath, LastOf
<1>2. CoverageExact'
  BY DEF IInv, CoverageExact, Still, Steps, targetEdges, starts, ends, isFirst
<1>3. triggerNodes' = triggerNodes /\ LastOf(trace)' = LastOf(trace)
  BY DEF Still, triggerNodes, Members, LastOf
<1>4. isReachableToTargetNodes' = isReachableToTargetNodes
  BY <1>3 DEF Still, isReachableToTargetNodes, isPotentiallyReachable
<1>5. (pc \in {"exit", "trigger", "body", "terminated", "completed"}
       /\ isInitialized \in BOOLEAN)' => TypeOK'
  BY DEF IInv, TypeOK, Still, IsPath
<1> QED  BY <1>1, <1>2, <1>3, <1>4, <1>5

\* Going on to a successor.
LEMMA TransferKeeps ==
    ASSUME IInv, NEW b \in Blocks, transferToBasicBlock(b)
    PROVE  IInv'
<1> DEFINE last == LastOf(trace)
<1>1. /\ pc = "body" /\ b \in edges[last]
      /\ trace' = Append(trace, b)
      /\ covered' = IF isInitialized /\ <<last, b>> \in targetEdges
                    THEN covered \cup {<<last, b>>} ELSE covered
      /\ pc' = calls(b)
      /\ UNCHANGED <<edges, target, subSeq, isInitialized>>
  BY DEF transferToBasicBlock
<1>2. trace \in Seq(Blocks) /\ IsPath(trace) /\ Len(trace) \in Nat \ {0}
  <2>1. trace \in Seq(Blocks) /\ IsPath(trace) /\ trace # << >>
    BY DEF IInv, TypeOK, IsPath
  <2> QED  BY <2>1, EmptySeq, LenProperties
<1>3. /\ trace' \in Seq(Blocks) /\ Len(trace') = Len(trace) + 1
      /\ trace'[Len(trace) + 1] = b
      /\ \A n \in 1 .. Len(trace) : trace'[n] = trace[n]
  BY <1>1, <1>2, AppendProperties
<1>4. LastOf(trace)' = b
  BY <1>3 DEF LastOf
<1>5. triggerNodes' = triggerNodes /\ targetEdges' = targetEdges /\ exitBlocks' = exitBlocks
  BY <1>1 DEF triggerNodes, Members, targetEdges, starts, ends, isFirst, exitBlocks
<1>6. Chosen'
  BY <1>1 DEF IInv, Chosen, IsExecution, IsPath, LastOf
<1>7. TypeOK'
  <2>1. (IsPath(trace))'
    <3>1. trace' # << >> /\ trace'[1] = 0
      <4>1. trace'[1] = trace[1] /\ trace[1] = 0
        BY <1>2, <1>3 DEF IsPath
      <4>2. Len(trace') # 0
        BY <1>2, <1>3
      <4> QED  BY <4>1, <4>2, <1>3, EmptySeq
    <3>2. ASSUME NEW n \in 1 .. Len(trace') - 1
          PROVE  trace'[n + 1] \in edges'[trace'[n]]
      <4>1. CASE n = Len(trace)
        BY <1>1, <1>2, <1>3, <4>1 DEF LastOf
      <4>2. CASE n # Len(trace)
        <5>1. n \in 1 .. Len(trace) - 1 /\ n + 1 \in 1 .. Len(trace)
          BY <1>2, <1>3, <4>2
        <5> QED  BY <1>1, <1>2, <1>3, <5>1 DEF IsPath
      <4> QED  BY <4>1, <4>2
    <3> QED  BY <3>1, <3>2 DEF IsPath
  <2>2. covered' \subseteq Blocks \X Blocks
    <3>1. last \in Blocks
      BY <1>2 DEF LastOf
    <3> QED  BY <1>1, <3>1 DEF IInv, TypeOK
  <2>3. pc' \in {"exit", "trigger", "body", "terminated", "completed"}
    BY <1>1 DEF calls
  <2> QED  BY <1>1, <1>3, <2>1, <2>2, <2>3 DEF IInv, TypeOK
<1>8. InTime'
  <2>1. pc' \in {"body", "completed"} => b \notin triggerNodes
    BY <1>1 DEF calls
  <2>2. pc' = "trigger" => b \in triggerNodes
    BY <1>1 DEF calls
  <2> QED  BY <1>4, <1>5, <2>1, <2>2 DEF InTime
<1>9. CoverageExact'
  <2>1. (Steps(trace))' = Steps(trace) \cup {<<last, b>>}
    <3>1. ASSUME NEW n \in 1 .. Len(trace') - 1
          PROVE  <<trace'[n], trace'[n + 1]>> \in Steps(trace) \cup {<<last, b>>}
      <4>1. CASE n = Len(trace)
        BY <1>2, <1>3, <4>1 DEF LastOf
      <4>2. CASE n # Len(trace)
        <5>1. n \in 1 .. Len(trace) - 1 /\ n + 1 \in 1 .. Len(trace)
          BY <1>2, <1>3, <4>2
        <5> QED  BY <1>3, <5>1 DEF Steps
      <4> QED  BY <4>1, <4>2
    <3>2. ASSUME NEW n \in 1 .. Len(trace) - 1
          PROVE  <<trace[n], trace[n + 1]>> \in (Steps(trace))'
      <4>1. n \in 1 .. Len(trace') - 1 /\ trace'[n] = trace[n] /\ trace'[n + 1] = trace[n + 1]
        BY <1>2, <1>3
      <4> QED  BY <4>1 DEF Steps
    <3>3. <<last, b>> \in (Steps(trace))'
      <4>1. Len(trace) \in 1 .. Len(trace') - 1 /\ trace'[Len(trace)] = last
        BY <1>2, <1>3 DEF LastOf
      <4> QED  BY <1>3, <4>1 DEF Steps
    <3> QED  BY <3>1, <3>2, <3>3 DEF Steps
  <2>2. <<last, b>> \in targetEdges => isInitialized
    <3>1. starts \subseteq triggerNodes
      BY DEF starts, triggerNodes, Members
    <3>2. <<last, b>> \in targetEdges => last \in triggerNodes
      BY <3>1 DEF targetEdges
    <3> QED  BY <1>1, <3>2 DEF IInv, InTime
  <2>3. covered = Steps(trace) \cap targetEdges
    BY DEF IInv, CoverageExact
  <2>4. covered' = (Steps(trace))' \cap targetEdges
    BY <1>1, <2>1, <2>2, <2>3
  <2> QED  BY <1>5, <2>4 DEF CoverageExact
<1>10. Hopeless'
  BY <1>1 DEF Hopeless, calls
<1> QED  BY <1>6, <1>7, <1>8, <1>9, <1>10 DEF IInv

LEMMA NextInv == IInv /\ [Next]_vars => IInv'
<1> SUFFICES ASSUME IInv, [Next]_vars  PROVE IInv'
  OBVIOUS
<1>1. CASE OtherStateInitializes
  <2>1. Still /\ pc' = pc /\ isInitialized' = TRUE
    BY <1>1 DEF OtherStateInitializes, Still
  <2>2. covered' = covered
    BY <2>1 DEF Still
  <2>3. TypeOK' /\ Chosen' /\ CoverageExact'
    BY <2>1, StillKeeps DEF IInv, TypeOK
  <2>4. InTime' /\ Hopeless'
    BY <2>1, <2>2, StillKeeps DEF IInv, InTime, Hopeless
  <2> QED  BY <2>3, <2>4 DEF IInv
<1>2. CASE handlePathExit
  <2>1. /\ Still /\ isInitialized' = TRUE
        /\ pc' = IF ~isReachableToTargetNodes /\ covered = {} THEN "terminated"
                 ELSE IF LastOf(trace) \in triggerNodes THEN "trigger" ELSE "body"
    BY <1>2 DEF handlePathExit, Still
  <2>2. covered' = covered
    BY <2>1 DEF Still
  <2>3. TypeOK' /\ Chosen' /\ CoverageExact'
    BY <2>1, StillKeeps
  <2>4. InTime' /\ Hopeless'
    BY <2>1, <2>2, StillKeeps DEF InTime, Hopeless
  <2> QED  BY <2>3, <2>4 DEF IInv
<1>3. CASE handlePathTrigger
  <2>1. Still /\ pc' = "body" /\ isInitialized' = TRUE
    BY <1>3 DEF handlePathTrigger, Still
  <2> QED  BY <2>1, StillKeeps DEF IInv, InTime, Hopeless
<1>4. ASSUME NEW b \in Blocks, transferToBasicBlock(b)  PROVE IInv'
  BY <1>4, TransferKeeps
<1>5. CASE Complete
  <2>1. Still /\ pc = "body" /\ pc' = "completed" /\ isInitialized' = isInitialized
    BY <1>5 DEF Complete, Still
  <2>2. TypeOK' /\ Chosen' /\ CoverageExact'
    BY <2>1, StillKeeps DEF IInv, TypeOK
  <2>3. InTime' /\ Hopeless'
    BY <2>1, StillKeeps DEF IInv, InTime, Hopeless
  <2> QED  BY <2>2, <2>3 DEF IInv
<1>6. CASE UNCHANGED vars
  <2>1. Still /\ pc' = pc /\ isInitialized' = isInitialized /\ covered' = covered
    BY <1>6 DEF vars, Still
  <2>2. TypeOK' /\ Chosen' /\ CoverageExact'
    BY <2>1, StillKeeps DEF IInv, TypeOK
  <2>3. InTime' /\ Hopeless'
    BY <2>1, StillKeeps DEF IInv, InTime, Hopeless
  <2> QED  BY <2>2, <2>3 DEF IInv
<1> QED  BY <1>1, <1>2, <1>3, <1>4, <1>5, <1>6 DEF Next

LEMMA Invariant == Spec => []IInv
BY InitInv, NextInv, PTL DEF Spec

-----------------------------------------------------------------------------
(* A state that has been ended had no way to the target.                   *)

\* The unique part has a first edge, which the tables hold.
LEMMA FirstEdge ==
    ASSUME IInv
    PROVE  /\ Len(subSeq) \in Nat /\ Len(subSeq) >= 2
           /\ subSeq[1] \in triggerNodes
           /\ <<subSeq[1], subSeq[2]>> \in targetEdges
<1>1. target \in Seq(Blocks) /\ IsPath(target)
  BY DEF IInv, TypeOK, Chosen, IsExecution
<1>2. PICK a \in 1 .. Len(target), b \in 1 .. Len(target) :
            a < b /\ subSeq = SubSeq(target, a, b)
  BY DEF IInv, Chosen
<1>3. /\ Len(subSeq) = b - a + 1
      /\ \A n \in 1 .. b - a + 1 : subSeq[n] = target[a + n - 1]
  BY <1>1, <1>2, SubSeqProperties
<1>4. Len(subSeq) \in Nat /\ Len(subSeq) >= 2 /\ 1 \in 1 .. b - a + 1 /\ 2 \in 1 .. b - a + 1
  BY <1>1, <1>2, <1>3
<1>5. a + 1 - 1 = a /\ a + 2 - 1 = a + 1 /\ a \in 1 .. Len(target) - 1
  BY <1>1, <1>2
<1>6. subSeq[1] = target[a] /\ subSeq[2] = target[a + 1]
  BY <1>3, <1>4, <1>5
<1>7. subSeq[2] \in edges[subSeq[1]] /\ subSeq[1] # subSeq[2]
  BY <1>1, <1>5, <1>6, PruningAssumption DEF IsPath, IInv, Chosen
<1>8. subSeq[1] \in starts
  BY <1>4 DEF starts, isFirst
<1>9. subSeq[2] \in ends
  <2>1. isFirst(2)
    BY <1>7 DEF isFirst
  <2> QED  BY <1>4, <2>1 DEF ends
<1>10. subSeq[1] \in triggerNodes
  BY <1>4 DEF triggerNodes, Members
<1> QED  BY <1>4, <1>7, <1>8, <1>9, <1>10 DEF targetEdges

LEMMA NoTargetLost ==
    ASSUME IInv, pc = "terminated", NEW s \in Seq(Blocks), IsPath(s), BeginsWith(s, trace)
    PROVE  ~HasTarget(s)
<1> SUFFICES ASSUME NEW a \in 0 .. Len(s) - Len(subSeq),
                    \A n \in 1 .. Len(subSeq) : s[a + n] = subSeq[n]
             PROVE  FALSE
  BY DEF HasTarget
<1>1. Len(s) \in Nat /\ Len(trace) \in Nat /\ Len(trace) >= 1 /\ Len(trace) <= Len(s)
  <2>1. trace \in Seq(Blocks) /\ trace # << >>
    BY DEF IInv, TypeOK, IsPath
  <2> QED  BY <2>1, EmptySeq, LenProperties DEF BeginsWith
<1>2. s[a + 1] = subSeq[1] /\ s[a + 2] = subSeq[2] /\ a + 2 \in 1 .. Len(s) /\ a + 1 \in 1 .. Len(s)
  BY <1>1, FirstEdge
<1>3. covered = {} /\ ~isReachableToTargetNodes /\ covered = Steps(trace) \cap targetEdges
  BY DEF IInv, Hopeless, CoverageExact
<1>4. CASE a + 2 <= Len(trace)
  <2>1. a + 1 \in 1 .. Len(trace) - 1 /\ a + 1 \in 1 .. Len(trace)
        /\ (a + 1) + 1 = a + 2 /\ a + 2 \in 1 .. Len(trace)
    BY <1>1, <1>4
  <2>2. trace[a + 1] = subSeq[1] /\ trace[a + 2] = subSeq[2]
    BY <1>2, <2>1 DEF BeginsWith
  <2>3. <<trace[a + 1], trace[(a + 1) + 1]>> \in Steps(trace)
    BY <2>1 DEF Steps
  <2>4. <<subSeq[1], subSeq[2]>> \in Steps(trace)
    BY <2>1, <2>2, <2>3
  <2> QED  BY <1>3, <2>4, FirstEdge
<1>5. CASE Len(trace) < a + 2
  <2>1. Len(trace) \in 1 .. Len(s) /\ Len(trace) <= a + 1
    BY <1>1, <1>5
  <2>2. isPotentiallyReachable(s[Len(trace)], s[a + 1])
    BY <1>2, <2>1, ReachableAlong
  <2>3. s[Len(trace)] = LastOf(trace)
    BY <1>1 DEF BeginsWith, LastOf
  <2> QED  BY <1>2, <1>3, <2>2, <2>3, FirstEdge DEF isReachableToTargetNodes
<1> QED  BY <1>1, <1>4, <1>5

LEMMA InvImpliesSurvival == IInv => TargetSurvives /\ PartSurvives
<1> SUFFICES ASSUME IInv  PROVE TargetSurvives /\ PartSurvives
  OBVIOUS
<1>1. TargetSurvives
  <2>1. HasTarget(target)
    <3>1. target \in Seq(Blocks)
      BY DEF IInv, TypeOK
    <3>2. PICK a \in 1 .. Len(target), b \in 1 .. Len(target) :
              a < b /\ subSeq = SubSeq(target, a, b)
      BY DEF IInv, Chosen
    <3>3. /\ Len(subSeq) = b - a + 1
          /\ \A n \in 1 .. b - a + 1 : subSeq[n] = target[a + n - 1]
      BY <3>1, <3>2, SubSeqProperties
    <3>4. a - 1 \in 0 .. Len(target) - Len(subSeq)
      BY <3>1, <3>2, <3>3
    <3>5. ASSUME NEW n \in 1 .. Len(subSeq)  PROVE target[(a - 1) + n] = subSeq[n]
      <4>1. (a - 1) + n = a + n - 1
        BY <3>1, <3>2, <3>3
      <4> QED  BY <3>3, <4>1
    <3> QED  BY <3>4, <3>5 DEF HasTarget
  <2>2. target \in Seq(Blocks) /\ IsPath(target)
    BY DEF IInv, TypeOK, Chosen, IsExecution
  <2> QED  BY <2>1, <2>2, NoTargetLost DEF TargetSurvives
<1>2. PartSurvives
  BY NoTargetLost, PruningAssumption DEF PartSurvives, IsExecution
<1> QED  BY <1>1, <1>2

-----------------------------------------------------------------------------
(* The state of setPathToInstrument and of KLEE's patch keeps its types,   *)
(* for every graph and target: the trace is a path of the function.        *)
THEOREM TypeCorrect == Spec => []TypeOK
<1>1. IInv => TypeOK
  BY DEF IInv
<1> QED  BY <1>1, Invariant, PTL

(* Whichever state of KLEE sets the tables up, and whenever: a state has   *)
(* exactly the target edges it went along in targetEdgesCovered.           *)
THEOREM CoverageIsExact == Spec => []CoverageExact
<1>1. IInv => CoverageExact
  BY DEF IInv
<1> QED  BY <1>1, Invariant, PTL

(* handlePathExit ends no state that is on the target path, for every      *)
(* graph, even one with loops.                                             *)
THEOREM TargetNotPruned == Spec => []TargetSurvives
BY InvImpliesSurvival, Invariant, PTL

(* handlePathExit ends no state that can still go through the unique part  *)
(* of the target, whatever else its execution goes through.                *)
THEOREM PartsSurvive == Spec => []PartSurvives
BY InvImpliesSurvival, Invariant, PTL
=============================================================================
