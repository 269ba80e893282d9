------------------------------- MODULE MCMapping -------------------------------
(***************************************************************************)
(* Versions of a small function: an edit of a block, of a condition, of    *)
(* the order of two branches, a loop, a switch and a block that is reached *)
(* by branches with different numbers.                                     *)
(***************************************************************************)
EXTENDS Mapping

Cond == <<"load", "icmp", "br">>
Step == <<"load", "br">>
Edited == <<"load", "call", "br">>
Ret == <<"ret">>

F(succs, headers, ops, paths) ==
    [succs |-> [b \in 0 .. Len(succs) - 1 |-> succs[b + 1]], headers |-> headers,
     ops |-> [b \in 0 .. Len(succs) - 1 |-> ops[b + 1]], paths |-> paths]

\* Paths are in the order of the searches.
Diamond == <<<<1, 2>>, <<3>>, <<3>>, << >>>>
DiamondPaths == <<<<0, 2, 3>>, <<0, 1, 3>>>>
If == F(Diamond, {}, <<Cond, Step, Step, Ret>>, DiamondPaths)
IfEdited == F(Diamond, {}, <<Cond, Step, Edited, Ret>>, DiamondPaths)
CondEdited == F(Diamond, {}, <<Step, Step, Edited, Ret>>, DiamondPaths)
Straight == F(<<<<1>>, << >>>>, {}, <<Step, Ret>>, <<<<0, 1>>>>)
OneBlock == F(<<<< >>>>, {}, <<Ret>>, << >>)
While == F(<<<<1>>, <<2, 3>>, <<1>>, << >>>>, {1}, <<Step, Cond, Step, Ret>>,
           <<<<0, 1, 2, 1, 3>>, <<0, 1, 3>>>>)
IfInLoop(body) == F(<<<<1>>, <<2, 5>>, <<3, 4>>, <<4>>, <<1>>, << >>>>, {1},
                    <<Step, Cond, Cond, body, Step, Ret>>,
                    <<<<0, 1, 2, 3, 4, 1, 5>>, <<0, 1, 2, 4, 1, 5>>, <<0, 1, 5>>>>)
Or == F(<<<<2, 1>>, <<2, 3>>, <<3>>, << >>>>, {}, <<Cond, Cond, Edited, Ret>>,
        <<<<0, 1, 3>>, <<0, 1, 2, 3>>, <<0, 2, 3>>>>)
NotOr(body) == F(<<<<1, 2>>, <<2, 3>>, <<3>>, << >>>>, {}, <<Cond, Cond, body, Ret>>,
                 <<<<0, 2, 3>>, <<0, 1, 3>>, <<0, 1, 2, 3>>>>)
Switch == F(<<<<3, 1, 2, 1>>, <<3>>, <<3>>, << >>>>, {}, <<Step, Step, Edited, Ret>>,
            <<<<0, 3>>, <<0, 1, 3>>, <<0, 2, 3>>, <<0, 1, 3>>>>)

AllFunctions == {If, IfEdited, CondEdited, Straight, OneBlock, While, IfInLoop(Step),
                 IfInLoop(Edited), Or, NotOr(Step), NotOr(Edited), Switch}
=============================================================================
