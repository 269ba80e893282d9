------------------------------ MODULE LoopPaths ------------------------------
(***************************************************************************)
(* CFG::analyzingPaths (static/cfg.h).  A function in which LLVM finds no  *)
(* loop is searched as in module StaticPaths; for any other one            *)
(* CFG::dfsWithLoops walks from the entry block and splices in, at the     *)
(* header of each loop, the paths that getLoopPathsFromHeader finds from   *)
(* the header to the exits of that loop.  A loop is to be left at once or  *)
(* after one turn.                                                         *)
(*                                                                         *)
(* The search does not end on a graph with a cycle that is no natural      *)
(* loop, nor when an exit of a loop is the header of the loop around it;   *)
(* Graphs holds none of these.                                             *)
(***************************************************************************)
EXTENDS StaticPaths, SequencesExt

CONSTANT LastBlock   \* func->back(), the only end of a path with loops

ASSUME LastAssumption == LastBlock \in Blocks

VARIABLE hasLoops    \* did handleLoopsInFunction find any?

functionVars == <<hasLoops, vars>>

-----------------------------------------------------------------------------
(* LLVM's LoopInfo.                                                        *)

\* The blocks outside A that a walk from S comes to without entering A.
RECURSIVE From(_, _)
From(S, A) == LET T == (S \cup UNION {Succ(b) : b \in S}) \ A
              IN  IF T = S THEN S ELSE From(T, A)

Latches(h) == {b \in From({0}, {}) : h \in Succ(b) /\ b \notin From({0} \ {h}, {h})}
Headers == {h \in From({0}, {}) : Latches(h) # {}}

LoopBlocks(h) == {h} \cup {b \in From(Succ(h), {h}) :
                              (From({b}, {h}) \cap Latches(h)) # {}}
ExitBlocks(h) == UNION {Succ(b) : b \in LoopBlocks(h)} \ LoopBlocks(h)

-----------------------------------------------------------------------------
NoHeader == -1

RECURSIVE dfsHelper(_, _, _, _), Neighbors(_, _, _, _, _)

\* The paths from the start of a loop to its exits.
getLoopPathsFromHeader(header) ==
    dfsHelper(header, header, <<header>>, ExitBlocks(header))

\* Mistake: only one path is taken through an inner loop.
dfsHelperFirst(block, header, path, exits) ==
    IF block \in exits THEN <<path>>
    ELSE IF block # header /\ block \in Headers
    THEN LET subPaths == getLoopPathsFromHeader(block)
         IN  FlattenSeq([n \in (1 .. Len(subPaths)) \cap {1} |->
                 dfsHelper(LastOf(subPaths[n]), header, path \o Tail(subPaths[n]), exits)])
    ELSE Neighbors(block, 1, header, path, exits)
\* The paths that continue path, whose last block is block, to an exit.
dfsHelper(block, header, path, exits) ==
    IF block \in exits THEN <<path>>
    ELSE IF block # header /\ block \in Headers
    THEN LET subPaths == getLoopPathsFromHeader(block)
         IN  FlattenSeq([n \in 1 .. Len(subPaths) |->
                 dfsHelper(LastOf(subPaths[n]), header, path \o Tail(subPaths[n]), exits)])
    ELSE Neighbors(block, 1, header, path, exits)

\* The loop over the neighbors of block, from the n-th on.  At the end of a
\* turn of the loop, path itself is extended: what it holds by then stays in
\* it when the next neighbor comes.
Neighbors(block, n, header, path, exits) ==
    IF n > Len(edges[block]) THEN << >>
    ELSE LET next == edges[block][n]
             leave == SelectSeq(edges[next], LAMBDA b : b \in exits \ LoopBlocks(next))
             turn == Append(path, next)
         IN  IF next = header
             THEN [i \in 1 .. Len(leave) |-> turn \o SubSeq(leave, 1, i)]
                  \o Neighbors(block, n + 1, header, turn \o leave, exits)
             ELSE dfsHelper(next, header, turn, exits)
                  \o Neighbors(block, n + 1, header, path, exits)

dfsWithLoops == dfsHelper(0, NoHeader, <<0>>, {LastBlock})

InitFunction == Init /\ hasLoops = (Headers # {})

\* The stack is not used by this search: here it only says that the search is
\* still to come.
searchLoops == /\ hasLoops
               /\ stack # << >>
               /\ stack' = << >>
               /\ allPaths' = dfsWithLoops
               /\ UNCHANGED <<hasLoops, edges, currentPath, k, paths, pathIdMap>>

analyzingPaths == \/ ~hasLoops /\ Next /\ UNCHANGED hasLoops
                  \/ searchLoops
                  \/ hasLoops /\ AddPath /\ UNCHANGED hasLoops

SpecFunction == InitFunction /\ [][analyzingPaths]_functionVars

\* The analysis is a single thread; searchLoops is a single step.
FairSpecFunction == SpecFunction /\ WF_functionVars(~hasLoops /\ Next /\ UNCHANGED hasLoops)

-----------------------------------------------------------------------------
Numbered == {paths[n] : n \in 1 .. Len(paths)}

IsWalk(s) == \A n \in 1 .. Len(s) - 1 : s[n + 1] \in Succ(s[n])

\* Step n of walk s ends a turn of a loop.
Turn(s, n) == s[n] \in Latches(s[n + 1])

\* The executions that continue walk s to the last block and leave each loop
\* as soon as a turn of it has ended.
RECURSIVE Executions(_)
Executions(s) ==
    IF LastOf(s) = LastBlock THEN {s}
    ELSE LET end == Len(s) > 1 /\ Turn(s, Len(s) - 1)
             next == IF end THEN Succ(LastOf(s)) \ LoopBlocks(LastOf(s))
                     ELSE Succ(LastOf(s))
         IN  UNION {Executions(Append(s, b)) : b \in next}

(* The comment on dfsHelper: the search finds paths, from the start to the *)
(* end.  Every path goes along edges, from the entry to the last block.    *)
OnlyWalks == hasLoops => \A s \in Found : s[1] = 0 /\ LastOf(s) = LastBlock /\ IsWalk(s)

(* When the header is the only successor of the end of a turn, the paths   *)
(* are the executions with at most one turn of each loop entered: none of  *)
(* them is missing, whatever breaks, continues, returns and loops within   *)
(* loops there are, and no other is found.                                 *)
OneTurnPaths == done /\ hasLoops => Numbered = Executions(<<0>>)

(* README.md, function 1: all paths in the program are searched for, so    *)
(* every block an execution comes through is on one of them.               *)
EveryBlockOnPath ==
    done /\ hasLoops => \A b \in From({0}, {}) :
        LastBlock \in From({b}, {}) => \E s \in Numbered : b \in MaskOf(s)

(* The search of a graph without cycles ends, and all its paths get ids.   *)
Ends == <>(hasLoops \/ done)
=============================================================================
