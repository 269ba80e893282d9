----------------------------- MODULE MCStaticPaths ----------------------------
(***************************************************************************)
(* Every graph without cycles on a few blocks: the successors of a block   *)
(* have greater numbers, and a block has at most two of them.  A switch    *)
(* whose cases share a block has the same successor twice.  The functions  *)
(* with loops are a loop within a loop.                                    *)
(***************************************************************************)
EXTENDS LoopPaths, LoopGraphs, FiniteSets

CONSTANT LastAcyclic   \* bound: the last block of a graph without cycles

MCBlocks == 0 .. LastBlock

UpTo2(S) == {<< >>} \cup {<<a>> : a \in S} \cup (S \X S)

\* The graphs that have edges from the blocks from b.
RECURSIVE GraphsFrom(_)
GraphsFrom(b) ==
    IF b = LastAcyclic THEN {[c \in MCBlocks |-> << >>]}
    ELSE {[g EXCEPT ![b] = s] :
             s \in UpTo2(b + 1 .. LastAcyclic), g \in GraphsFrom(b + 1)}

Switches == GraphsFrom(0)
Branches == {g \in Switches : \A b \in MCBlocks : IsInjective(g[b])}
BranchesAndLoops == Branches \cup NestedGraphs

\* A path of such a graph has each block at most once, in ascending order.
Ascending == {SetToSortSeq({0} \cup S, <) : S \in SUBSET (1 .. LastAcyclic)}
=============================================================================
