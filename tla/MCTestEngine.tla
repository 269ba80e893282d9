---------------------------- MODULE MCTestEngine ----------------------------
(***************************************************************************)
(* Two small functions to run suites on.                                   *)
(*   reverse: test/reverse.c of the repository, eight blocks and a loop;   *)
(*     its four static paths in the order CFG::dfsWithLoops finds them.    *)
(*   ifs: if (a) ..; if (b) ..; five blocks, no loop, four paths whose     *)
(*     masks are ordered by inclusion.                                     *)
(***************************************************************************)
EXTENDS TestEngine, TLC

CONSTANTS t1, t2, t3, t4

ReverseBlocks == 0 .. 7
ReverseMask == 0 :> {0, 1, 2, 4, 7} @@ 1 :> {0, 1, 2, 3, 4, 7}
            @@ 2 :> {0, 1, 2, 3, 5, 6, 7} @@ 3 :> {0, 1, 6, 7}
\* The blocks a call of reverse can execute: no turn of the loop; turns that
\* end with the loop; turns that end with an overflow on either side.
ReverseTraces == {{0, 1, 6, 7}, {0, 1, 2, 3, 5, 6, 7}, {0, 1, 2, 3, 5, 4, 7},
                  {0, 1, 2, 4, 7}, {0, 1, 2, 3, 4, 7}}

IfsBlocks == 0 .. 4
IfsMask == 0 :> {0, 2, 4} @@ 1 :> {0, 2, 3, 4} @@ 2 :> {0, 1, 2, 4} @@ 3 :> IfsBlocks
IfsTraces == {IfsMask[p] : p \in 0 .. 3}

Printed(traces) == [mask : traces, text : {"mask"}]
Blank(o) == [o EXCEPT !.text = "blanks"]

MCTests == {t1, t2, t3, t4}
\* The function also prints blanks of its own on t4.
ReverseRuns == [t \in MCTests |-> IF t = t4 THEN {Blank(o) : o \in Printed(ReverseTraces)}
                                  ELSE Printed(ReverseTraces)]
IfsRuns == [t \in MCTests |-> Printed(IfsTraces)]

Case(t, p) == [test |-> t, expect |-> TRUE, pathId |-> p]
MCSuites == { <<Case(t1, -1), Case(t2, -1), Case(t3, -1), Case(t4, -1)>>,
              <<Case(t1, 0), Case(t2, 3), Case(t1, 0)>>,
              << >> }
=============================================================================
