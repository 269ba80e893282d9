------------------------------ MODULE BuildGraph ------------------------------
(***************************************************************************)
(* How the graphs of the old and the new version of a function are built   *)
(* (static/cfg.h, Node and CFG::initGraphFromFunction, buildGraph): the    *)
(* types of the nodes and the branches they are in, which the similarity   *)
(* of paths rests on.  A function is what LLVM tells of it:                *)
(*    succs[b]    the successors of block b in the order of its terminator *)
(*    headers     the headers of its loops                                 *)
(*    ops[b]      the opcodes of block b                                   *)
(*    paths       its static paths (StaticPaths, LoopPaths)                *)
(* Blocks are numbered from 0, in the order of the function.               *)
(***************************************************************************)
EXTENDS Naturals, Sequences, FiniteSets

CONSTANT Functions

BothVersions == {"old", "new"}

VARIABLES function,    \* of each version
          building,    \* the graph that is built: "old", "new", then "none"
          todo,        \* its blocks that buildGraph has not visited
          types, selectNum
graphVars == <<function, building, todo, types, selectNum>>

BlocksOf(f) == DOMAIN f.succs

\* The graph before buildGraph: initGraphFromFunction makes the nodes, and
\* handleLoopsInFunction finds the headers of loops at any depth.
FirstType(f, b) == IF b \in f.headers THEN "loop" ELSE IF b = 0 THEN "entry" ELSE "normal"

initGraphFromFunction(v) ==
    /\ todo' = BlocksOf(function[v])
    /\ types' = [types EXCEPT ![v] = [b \in BlocksOf(function[v]) |-> FirstType(function[v], b)]]
    /\ selectNum' = [selectNum EXCEPT ![v] = [b \in BlocksOf(function[v]) |-> 0]]

GraphInit ==
    LET none == [v \in BothVersions |-> << >>]
    IN  /\ function \in [BothVersions -> Functions]
        /\ building = "old"
        /\ todo = BlocksOf(function["old"])
        /\ types = [none EXCEPT !["old"] =
              [b \in BlocksOf(function["old"]) |-> FirstType(function["old"], b)]]
        /\ selectNum = [none EXCEPT !["old"] = [b \in BlocksOf(function["old"]) |-> 0]]

Type(succs, type) == IF succs = << >> THEN "exit"
                     ELSE IF Len(succs) > 1 /\ type = "normal" THEN "branch" ELSE type

Last(succs, m) == CHOOSE i \in DOMAIN succs :
                      succs[i] = m /\ \A j \in i + 1 .. Len(succs) : succs[j] # m

\* Mistake: a block with one successor numbers it, too.
NumbersAll(succs) == succs # << >>
Numbers(succs) == Len(succs) > 1

\* One turn of the loop of buildGraph, over an unordered map of pointers: the
\* blocks come in any order, and the number of a block is written by every
\* block that branches to it.
VisitBlock(b) ==
    LET succs == function[building].succs[b]
    IN  /\ b \in todo
        /\ todo' = todo \ {b}
        /\ types' = [types EXCEPT ![building][b] = Type(succs, @)]
        /\ selectNum' = [selectNum EXCEPT ![building] =
              [m \in DOMAIN @ |-> IF Numbers(succs) /\ \E i \in DOMAIN succs : succs[i] = m
                                  THEN Last(succs, m) ELSE @[m]]]
        /\ UNCHANGED <<function, building>>

\* ReuseEngine::initCFG builds the old graph before the new one.
NextGraph ==
    /\ building # "none"
    /\ todo = {}
    /\ IF building = "old" THEN building' = "new" /\ initGraphFromFunction("new")
       ELSE building' = "none" /\ UNCHANGED <<todo, types, selectNum>>
    /\ UNCHANGED function

BuildStep == NextGraph \/ \E b \in todo : VisitBlock(b)

Nodes(v, p) == [k \in DOMAIN p |-> [type |-> types[v][p[k]], selectNum |-> selectNum[v][p[k]],
                                    ops |-> function[v].ops[p[k]]]]

\* Do the blocks that branch to a block all do so with the same number?
Agreed(f) ==
    \A a, b, m \in BlocksOf(f) :
        LET branches(x) == Len(f.succs[x]) > 1 /\ \E i \in DOMAIN f.succs[x] : f.succs[x][i] = m
        IN  branches(a) /\ branches(b) => Last(f.succs[a], m) = Last(f.succs[b], m)

SameShape == /\ function["old"].succs = function["new"].succs
             /\ function["old"].headers = function["new"].headers

(* Two versions of the same shape get the same types and numbers, in       *)
(* whatever order the blocks of each graph are visited, if the branches to *)
(* a block agree on its number.                                            *)
SameGraph == building = "none" /\ SameShape /\ Agreed(function["new"]) =>
                 types["old"] = types["new"] /\ selectNum["old"] = selectNum["new"]
=============================================================================
