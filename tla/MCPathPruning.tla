---------------------------- MODULE MCPathPruning ----------------------------
(***************************************************************************)
(* All graphs without cycles on five blocks, with every execution as the   *)
(* target; and the example of the repository, test/reverse.c, whose loop   *)
(* may be gone through up to MaxTrace, with its four static paths.         *)
(***************************************************************************)
EXTENDS PathPruning, TLC

\* The executions of g that start with s and have at most n blocks more.
RECURSIVE Executions(_, _, _)
Executions(g, s, n) ==
    IF g[LastOf(s)] = {} THEN {s}
    ELSE IF n = 0 THEN {}
    ELSE UNION {Executions(g, Append(s, b), n - 1) : b \in g[LastOf(s)]}

MCBlocks == 0 .. 7

\* Graphs in which the blocks are numbered in the order of the paths.
Acyclic == {[b \in MCBlocks |-> {c \in 0 .. 4 : <<b, c>> \in E}] :
               E \in SUBSET {e \in (0 .. 4) \X (0 .. 4) : e[1] < e[2]}}
Ascending == {<<0, 4>>} \cup {<<0, a, 4>> : a \in 1 .. 3}
             \cup {<<0, 1, 2, 4>>, <<0, 1, 3, 4>>, <<0, 2, 3, 4>>, <<0, 1, 2, 3, 4>>}

Reverse == 0 :> {1} @@ 1 :> {2, 6} @@ 2 :> {3, 4} @@ 3 :> {4, 5} @@ 4 :> {7}
        @@ 5 :> {1} @@ 6 :> {7} @@ 7 :> {}
ReversePaths == {<<0, 1, 2, 4, 7>>, <<0, 1, 2, 3, 4, 7>>, <<0, 1, 2, 3, 5, 1, 6, 7>>,
                 <<0, 1, 6, 7>>}

MCGraphs == Acyclic \cup {Reverse}
MCTargets == Ascending \cup ReversePaths
MCCandidates == Ascending \cup Executions(Reverse, <<0>>, MaxTrace - 1)
=============================================================================
