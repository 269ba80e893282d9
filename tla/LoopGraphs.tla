------------------------------ MODULE LoopGraphs ------------------------------
(***************************************************************************)
(* Control flow graphs as clang emits them without optimisation: a block   *)
(* that ends a turn of while and for has the header as its only successor. *)
(* Each shape gives the alternatives there are for each block.             *)
(***************************************************************************)
EXTENDS Naturals, TLC

\* The graphs that take one alternative of shape for each block from b on.
RECURSIVE Alternatives(_, _, _)
Alternatives(shape, b, last) ==
    IF b > last THEN {<< >>}
    ELSE {(b :> s) @@ g : s \in shape[b], g \in Alternatives(shape, b + 1, last)}
Product(shape, last) == Alternatives(shape, 0, last)

\* while (..) { if (..) {..} while (..) { if (..) {..} .. } .. } ..; both loops
\* may be for (;;), and a branch may break, continue or return.
Nested == 0 :> {<<1>>}
       @@ 1 :> {<<2, 8>>, <<2>>}
       @@ 2 :> {<<3>>, <<3, 7>>, <<7, 3>>}
       @@ 3 :> {<<4, 6>>, <<4>>}
       @@ 4 :> {<<5, 10>>, <<10>>}
       @@ 5 :> {<<10>>, <<6>>, <<3>>, <<8>>, <<9>>}
       @@ 6 :> {<<7>>, <<1>>}
       @@ 7 :> {<<1>>, <<8>>, <<9>>}
       @@ 8 :> {<<9>>}
       @@ 9 :> {<<11>>}
       @@ 10 :> {<<3>>}
       @@ 11 :> {<< >>}

\* do { .. } while (..);
DoWhile == 0 :> {<<1>>} @@ 1 :> {<<2, 3>>, <<3>>} @@ 2 :> {<<3>>}
        @@ 3 :> {<<1, 4>>} @@ 4 :> {<< >>}

\* while (a && b) ..; the value of the condition is tested in block 3.
AndCondition == 0 :> {<<1>>} @@ 1 :> {<<2, 3>>} @@ 2 :> {<<3>>} @@ 3 :> {<<4, 5>>}
             @@ 4 :> {<<1>>} @@ 5 :> {<< >>}

NestedGraphs == Product(Nested, 11)
DoWhileGraphs == Product(DoWhile, 4)
AndGraphs == Product(AndCondition, 5)
=============================================================================
