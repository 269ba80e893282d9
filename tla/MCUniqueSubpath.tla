---------------------------- MODULE MCUniqueSubpath ----------------------------
(***************************************************************************)
(* The lists of paths of small functions: all graphs without cycles on     *)
(* five blocks, in which a block has any number of successors; the example *)
(* of the repository, test/reverse.c, with a loop; and a switch with two   *)
(* cases that share a block, a path that dfsWithoutLoops finds twice.      *)
(***************************************************************************)
EXTENDS UniqueSubpath

\* The executions that continue s in the graph g.
RECURSIVE Executions(_, _)
Executions(g, s) ==
    IF g[Last(s)] = {} THEN <<s>>
    ELSE FlattenSeq([b \in 1 .. 4 |-> IF b \in g[Last(s)]
                                      THEN Executions(g, Append(s, b)) ELSE << >>])

Acyclic == {[b \in 0 .. 4 |-> {c \in 0 .. 4 : <<b, c>> \in E}] :
               E \in SUBSET {e \in (0 .. 4) \X (0 .. 4) : e[1] < e[2]}}
ReversePaths == << <<0, 1, 2, 4, 7>>, <<0, 1, 2, 3, 4, 7>>,
                   <<0, 1, 2, 3, 5, 1, 6, 7>>, <<0, 1, 6, 7>> >>
Switch == << <<0, 1, 3>>, <<0, 1, 3>>, <<0, 2, 3>> >>

FunctionLists == {Executions(g, <<0>>) : g \in {h \in Acyclic : h[0] # {}}}
                 \cup {ReversePaths}
SwitchLists == {Switch}
=============================================================================
