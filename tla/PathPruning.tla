----------------------------- MODULE PathPruning -----------------------------
(***************************************************************************)
(* Test generation for one target path: PathInstrument::setPathToInstrument*)
(* (generate/pathinstrument.h) puts calls into the blocks of the function, *)
(* and the patch of KLEE gives them their meaning.  klee_path_trigger      *)
(* marks the blocks of the unique part of the target; an execution that    *)
(* comes to klee_path_conditional_exit is ended if it has no target edge   *)
(* behind it and no trigger block ahead.                                   *)
(*                                                                         *)
(* The module follows one symbolic state of KLEE through the function. The *)
(* tables of the target edges belong to all states: any of them may be the *)
(* first to come to a call and set them up.                                *)
(***************************************************************************)
EXTENDS Integers, Sequences

CONSTANTS Blocks,       \* the basic blocks, 0 is the entry
          Graphs,       \* the values edges may have: the successors
          Targets,      \* the paths that tests may be asked for
          MaxTrace,     \* bound: the length of an execution
          Candidates    \* the executions the properties look at; the proofs
                        \* are for any choice, TLC needs a finite one

\* A block that ends a loop's body is not its header in clang's unoptimised
\* code, so no path stays in a block.
ASSUME PruningAssumption ==
    /\ 0 \in Blocks
    /\ Graphs \subseteq [Blocks -> SUBSET Blocks]
    /\ Targets \subseteq Seq(Blocks)
    /\ \A s \in Targets : \A n \in 1 .. Len(s) - 1 : s[n] # s[n + 1]
    /\ MaxTrace \in Nat
    /\ Candidates \subseteq Seq(Blocks)

VARIABLES edges,
          target,         \* the path
          subSeq,         \* its unique part
          isInitialized,  \* have the tables been set up?
          trace,          \* the blocks the state has come through
          covered,        \* targetEdgesCovered, as a set of edges
          pc

vars == <<edges, target, subSeq, isInitialized, trace, covered, pc>>

LastOf(s) == s[Len(s)]
Members(s) == {s[n] : n \in 1 .. Len(s)}
Steps(s) == {<<s[n], s[n + 1]>> : n \in 1 .. Len(s) - 1}

IsPath(s) == s # << >> /\ s[1] = 0 /\ \A n \in 1 .. Len(s) - 1 : s[n + 1] \in edges[s[n]]
IsExecution(s) == IsPath(s) /\ edges[LastOf(s)] = {}

-----------------------------------------------------------------------------
(* What module UniqueSubpath computes: a part of the target that occurs    *)
(* once in all paths, and no shorter part does.                            *)

paths == {s \in Targets : IsExecution(s)}
Occurrences(part) ==
    UNION {{<<s, a>> : a \in {c \in 0 .. Len(s) - Len(part) :
                                 \A n \in 1 .. Len(part) : s[c + n] = part[n]}} :
             s \in paths}
isUniquePart(a, b) == \E o \in Occurrences(SubSeq(target, a, b)) :
                          Occurrences(SubSeq(target, a, b)) = {o}
isShortestUnique(a, b) ==
    /\ isUniquePart(a, b)
    /\ \A c, d \in 1 .. Len(target) : c < d /\ d - c < b - a => ~isUniquePart(c, d)

-----------------------------------------------------------------------------
(* setPathToInstrument: where the calls are put. *)

exitBlocks == UNION {edges[target[n]] \ {target[n + 1]} : n \in 1 .. Len(target) - 1}

\* A block that comes twice gets two calls. The second one is put before the
\* first, so the first one is read last and counts.
isFirst(n) == \A m \in 1 .. n - 1 : subSeq[m] # subSeq[n]

\* The two bits of the mask: the block starts, or ends, an edge.
triggerNodes == Members(subSeq)
starts == {subSeq[n] : n \in {m \in 1 .. Len(subSeq) : m # Len(subSeq) /\ isFirst(m)}}

ends == {subSeq[n] : n \in {m \in 1 .. Len(subSeq) : m # 1 /\ isFirst(m)}}

\* initializeCFGInfoInStates: the edges from a start to an end.
targetEdges == {e \in starts \X ends : e[2] \in edges[e[1]]}

\* LLVM's isPotentiallyReachable, which is exact on up to 32 blocks.
isPotentiallyReachable(a, b) ==
    \A S \in SUBSET Blocks : (a \in S /\ \A x \in S : edges[x] \subseteq S) => b \in S

isReachableToTargetNodes == \E b \in triggerNodes : isPotentiallyReachable(LastOf(trace), b)

\* The calls at the front of block b, in their order.
calls(b) == IF b \in exitBlocks THEN "exit"
            ELSE IF b \in triggerNodes THEN "trigger" ELSE "body"

-----------------------------------------------------------------------------
Init == /\ edges \in Graphs
        /\ target \in paths
        /\ \E a, b \in 1 .. Len(target) : a < b /\ isShortestUnique(a, b)
                                       /\ subSeq = SubSeq(target, a, b)
        /\ isInitialized = FALSE
        /\ trace = <<0>>
        /\ covered = {}
        /\ pc = calls(0)

\* Another state of KLEE comes to a call first.
OtherStateInitializes ==
    /\ ~isInitialized
    /\ isInitialized' = TRUE
    /\ UNCHANGED <<edges, target, subSeq, trace, covered, pc>>

\* Mistake: either condition is enough to end the state.
handlePathExitOr ==
    /\ pc = "exit"
    /\ isInitialized' = TRUE
    /\ pc' = IF ~isReachableToTargetNodes \/ covered = {} THEN "terminated"
             ELSE IF LastOf(trace) \in triggerNodes THEN "trigger" ELSE "body"
    /\ UNCHANGED <<edges, target, subSeq, trace, covered>>

handlePathExit ==
    /\ pc = "exit"
    /\ isInitialized' = TRUE
    /\ pc' = IF ~isReachableToTargetNodes /\ covered = {} THEN "terminated"
             ELSE IF LastOf(trace) \in triggerNodes THEN "trigger" ELSE "body"
    /\ UNCHANGED <<edges, target, subSeq, trace, covered>>

\* Mistake: the tables are left to others.
handlePathTriggerSkipped ==
    /\ pc = "trigger"
    /\ pc' = "body"
    /\ UNCHANGED <<edges, target, subSeq, isInitialized, trace, covered>>

handlePathTrigger ==
    /\ pc = "trigger"
    /\ isInitialized' = TRUE
    /\ pc' = "body"
    /\ UNCHANGED <<edges, target, subSeq, trace, covered>>

\* A branch: KLEE makes a state for every successor. As long as the tables
\* are not set up, no edge is found in them.
transferToBasicBlock(b) ==
    /\ pc = "body"
    /\ Len(trace) < MaxTrace
    /\ b \in edges[LastOf(trace)]
    /\ trace' = Append(trace, b)
    /\ covered' = IF isInitialized /\ <<LastOf(trace), b>> \in targetEdges
                  THEN covered \cup {<<LastOf(trace), b>>} ELSE covered
    /\ pc' = calls(b)
    /\ UNCHANGED <<edges, target, subSeq, isInitialized>>

\* The function returns: the state will give a test.
Complete ==
    /\ pc = "body"
    /\ edges[LastOf(trace)] = {}
    /\ pc' = "completed"
    /\ UNCHANGED <<edges, target, subSeq, isInitialized, trace, covered>>

Next == \/ OtherStateInitializes
        \/ handlePathExit
        \/ handlePathTrigger
        \/ \E b \in Blocks : transferToBasicBlock(b)
        \/ Complete

Spec == Init /\ [][Next]_vars

-----------------------------------------------------------------------------
BeginsWith(s, p) == Len(p) <= Len(s) /\ \A n \in 1 .. Len(p) : s[n] = p[n]

\* The unique part of the target is a part of s.
HasTarget(s) == \E a \in 0 .. Len(s) - Len(subSeq) :
                    \A n \in 1 .. Len(subSeq) : s[a + n] = subSeq[n]

(* Type correctness: the state is always on a path of the function, and    *)
(* the unique part is a part of the target.                                *)
TypeOK == /\ edges \in [Blocks -> SUBSET Blocks]
          /\ target \in Seq(Blocks) /\ subSeq \in Seq(Blocks)
          /\ isInitialized \in BOOLEAN
          /\ trace \in Seq(Blocks) /\ IsPath(trace)
          /\ covered \subseteq Blocks \X Blocks
          /\ pc \in {"exit", "trigger", "body", "terminated", "completed"}

(* The tables are set up while states run, but never too late: what        *)
(* targetEdgesCovered holds are exactly the target edges the state went    *)
(* along, because the block each of them starts in has a call of its own.  *)
CoverageExact == covered = Steps(trace) \cap targetEdges

(* No execution of the target path is ended, not even in a block that is   *)
(* both on the path and beside it.                                         *)
TargetSurvives == BeginsWith(target, trace) => pc # "terminated"

(* Nor is any other execution that goes through the unique part of the     *)
(* path, as one that goes around a loop more often than the target does.   *)
PartSurvives ==
    pc = "terminated" => \A s \in Candidates :
        IsExecution(s) /\ BeginsWith(s, trace) => ~HasTarget(s)

(* The comment in handlePathExit: the exit checks if any target edges are  *)
(* not covered. A state that can reach no trigger block any more and has   *)
(* not covered all target edges does not get past the exit.                *)
UncoveredEdgePruned ==
    (pc # "terminated" /\ pc # "exit" /\ LastOf(trace) \in exitBlocks
     /\ ~isReachableToTargetNodes) => covered = targetEdges
=============================================================================
