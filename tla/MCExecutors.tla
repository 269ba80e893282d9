----------------------------- MODULE MCExecutors -----------------------------
(***************************************************************************)
(* Four commands for a pool of at most three threads: the list is longer   *)
(* than the pool, and commands print two chunks, one and none.             *)
(***************************************************************************)
EXTENDS Executors

MCPrinted == <<<<11, 12>>, <<21>>, << >>, <<41>>>>
=============================================================================
