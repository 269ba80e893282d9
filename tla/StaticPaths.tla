----------------------------- MODULE StaticPaths -----------------------------
(***************************************************************************)
(* The static paths of a function without loops (static/cfg.h):            *)
(* CFG::dfsWithoutLoops searches them depth first with a stack of partial  *)
(* paths that start at block 0, and CFG::analyzingPaths gives each one an  *)
(* id and enters its mask in pathIdMap.  Each turn of a loop is a step.    *)
(***************************************************************************)
EXTENDS Integers, Sequences

CONSTANTS Blocks,       \* the basic blocks, 0 is the entry
          Graphs,       \* the values edges may have: the successors of each
                        \* block in the order of its terminator
          Candidates    \* the sequences the properties look at; the proofs
                        \* are for any choice, TLC needs a finite one

ASSUME GraphAssumption == /\ 0 \in Blocks
                          /\ Graphs \subseteq [Blocks -> Seq(Blocks)]
                          /\ Candidates \subseteq Seq(Blocks)

VARIABLES edges,
          stack,         \* partial paths, the top last
          currentPath,   \* the path that is extended, << >> for none
          k,             \* the index of its next neighbor
          allPaths,      \* the result of the search
          paths,         \* CFG::paths, path n has the id n - 1
          pathIdMap      \* the id of each mask, -1 for none

vars == <<edges, stack, currentPath, k, allPaths, paths, pathIdMap>>

LastOf(s) == s[Len(s)]
MaskOf(s) == {s[n] : n \in 1 .. Len(s)}

Init == /\ edges \in Graphs
        /\ stack = <<<<0>>>>
        /\ currentPath = << >>
        /\ k = 1
        /\ allPaths = << >>
        /\ paths = << >>
        /\ pathIdMap = [m \in SUBSET Blocks |-> -1]

Pop == /\ currentPath = << >>
       /\ stack # << >>
       /\ currentPath' = LastOf(stack)
       /\ stack' = SubSeq(stack, 1, Len(stack) - 1)
       /\ k' = 1
       /\ UNCHANGED <<edges, allPaths, paths, pathIdMap>>

\* Mistake: a block with one successor is taken for an end.
isShort(b) == Len(edges[b]) <= 1
isExit(b) == edges[b] = << >>

\* A path that reaches a block without successors goes to the result, any
\* other one back to the stack.
Extend ==
    /\ currentPath # << >>
    /\ k <= Len(edges[LastOf(currentPath)])
    /\ LET neighbor == edges[LastOf(currentPath)][k]
           newPath == Append(currentPath, neighbor)
       IN  IF isExit(neighbor)
           THEN /\ allPaths' = Append(allPaths, newPath)
                /\ UNCHANGED stack
           ELSE /\ stack' = Append(stack, newPath)
                /\ UNCHANGED allPaths
    /\ k' = k + 1
    /\ UNCHANGED <<edges, currentPath, paths, pathIdMap>>

\* Mistakes: the last neighbor is left out; the path in work is not dropped.
ExtendedEarly ==
    /\ currentPath # << >>
    /\ k >= Len(edges[LastOf(currentPath)])
    /\ currentPath' = << >>
    /\ UNCHANGED <<edges, stack, k, allPaths, paths, pathIdMap>>
ExtendedKeeps ==
    /\ currentPath # << >>
    /\ k > Len(edges[LastOf(currentPath)])
    /\ UNCHANGED <<edges, stack, currentPath, k, allPaths, paths, pathIdMap>>

Extended ==
    /\ currentPath # << >>
    /\ k > Len(edges[LastOf(currentPath)])
    /\ currentPath' = << >>
    /\ UNCHANGED <<edges, stack, k, allPaths, paths, pathIdMap>>

searched == stack = << >> /\ currentPath = << >>

\* Mistake: the end of a path is left out of its mask.
AddPathPartly ==
    /\ searched
    /\ Len(paths) < Len(allPaths)
    /\ LET p == allPaths[Len(paths) + 1]
       IN  /\ paths' = Append(paths, p)
           /\ pathIdMap' = [pathIdMap EXCEPT
                              ![MaskOf(p) \ {LastOf(p)}] = Len(paths)]
    /\ UNCHANGED <<edges, stack, currentPath, k, allPaths>>

\* One turn of the loop of analyzingPaths; a path with the mask of an earlier
\* one takes its entry over.
AddPath ==
    /\ searched
    /\ Len(paths) < Len(allPaths)
    /\ LET p == allPaths[Len(paths) + 1]
       IN  /\ paths' = Append(paths, p)
           /\ pathIdMap' = [pathIdMap EXCEPT ![MaskOf(p)] = Len(paths)]
    /\ UNCHANGED <<edges, stack, currentPath, k, allPaths>>

Next == Pop \/ Extend \/ Extended \/ AddPath

Spec == Init /\ [][Next]_vars

-----------------------------------------------------------------------------
done == searched /\ Len(paths) = Len(allPaths)

Succ(b) == {edges[b][n] : n \in 1 .. Len(edges[b])}
Found == {allPaths[n] : n \in 1 .. Len(allPaths)}
Waiting == {stack[n] : n \in 1 .. Len(stack)}

\* s runs along edges from the entry.
IsPath(s) == /\ s # << >>
             /\ s[1] = 0
             /\ \A n \in 1 .. Len(s) - 1 : s[n + 1] \in Succ(s[n])

\* s is an execution of the function: it ends in a block without successors.
IsExecution(s) == IsPath(s) /\ edges[LastOf(s)] = << >>

BeginsWith(s, p) == /\ Len(p) <= Len(s)
                    /\ \A n \in 1 .. Len(p) : s[n] = p[n]

(* Type correctness: the stack holds paths that are not empty, and the     *)
(* partial path in work is never empty while it is extended.               *)
TypeOK == /\ edges \in [Blocks -> Seq(Blocks)]
          /\ stack \in Seq(Seq(Blocks))
          /\ << >> \notin Waiting
          /\ currentPath \in Seq(Blocks)
          /\ k \in Nat \ {0}
          /\ allPaths \in Seq(Seq(Blocks))
          /\ paths \in Seq(Seq(Blocks))
          /\ Len(paths) <= Len(allPaths)
          /\ pathIdMap \in [SUBSET Blocks -> Int]

(* Everything in the result of dfsWithoutLoops is an execution, and what   *)
(* is on the stack or in work can still become one: no path runs along an  *)
(* edge that is not there or stops half way.                               *)
OnlyExecutions ==
    /\ \A s \in Waiting \cup ({currentPath} \ {<< >>}) :
          IsPath(s) /\ (Len(s) > 1 => edges[LastOf(s)] # << >>)
    /\ \A s \in Found : IsExecution(s)

\* The search has yet to come to execution s by way of the partial path p.
Reaches(p, s) == BeginsWith(s, p) /\ Len(p) < Len(s)

(* No execution is lost on the way: each one with more than one block is   *)
(* in the result, or extends a path on the stack, or extends the path in   *)
(* work along a neighbor that is still to come.                            *)
NothingLost ==
    \A s \in Candidates : IsExecution(s) /\ Len(s) > 1 =>
        \/ s \in Found
        \/ \E p \in Waiting : Reaches(p, s)
        \/ /\ currentPath # << >>
           /\ Reaches(currentPath, s)
           /\ \E n \in k .. Len(edges[LastOf(currentPath)]) :
                 edges[LastOf(currentPath)][n] = s[Len(currentPath) + 1]

(* At the end every execution with more than one block has an id.          *)
Complete ==
    done => \A s \in Candidates : IsExecution(s) /\ Len(s) > 1 =>
                \E n \in 1 .. Len(paths) : paths[n] = s

(* pathIdMap finds every path by its mask: without loops, and with one     *)
(* edge at most from a block to another, two paths never share a mask.     *)
MaskIdentifies ==
    \A n \in 1 .. Len(paths) : pathIdMap[MaskOf(paths[n])] = n - 1

(* README.md, function 1: each path gets a unique identifier.              *)
UniqueIdentifier ==
    \A m, n \in 1 .. Len(paths) : paths[m] = paths[n] => m = n

(* README.md, function 1: all paths in the program are searched for.       *)
AllPathsFound ==
    done => \A s \in Candidates : IsExecution(s) =>
                \E n \in 1 .. Len(paths) : paths[n] = s
=============================================================================
