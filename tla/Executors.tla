------------------------------ MODULE Executors ------------------------------
(***************************************************************************)
(* The two executors of dynamic/testengine.h have one interface, execute() *)
(* and getResults(), and a caller may use either: the pool of module       *)
(* ConcurrentExecutor or the loop of module SequentialExecutor.            *)
(***************************************************************************)
EXTENDS ConcurrentExecutor

VARIABLES pool,         \* is the pool the executor in use?
          loopTask,     \* the loop's variables
          open,
          loopResults,
          returned

loopVars == <<loopTask, open, loopResults, returned>>
Loop == INSTANCE SequentialExecutor WITH i <- loopTask, results <- loopResults

InitEither == pool \in BOOLEAN /\ Init /\ Loop!Init

OnPool(A) == pool /\ A /\ UNCHANGED <<pool, loopVars>>
OnLoop == ~pool /\ Loop!Next /\ UNCHANGED <<pool, vars>>

NextEither == OnPool(Next) \/ OnLoop

SpecEither == InitEither /\ [][NextEither]_<<pool, vars, loopVars>>

\* The operating system runs every thread, and every command ends.
FairSpecEither ==
    /\ SpecEither
    /\ WF_<<pool, vars, loopVars>>(OnPool(Main))
    /\ \A t \in Threads : WF_<<pool, vars, loopVars>>(OnPool(Thread(t)))
    /\ WF_<<pool, vars, loopVars>>(OnLoop)

(* The loop keeps the promise of an executor as the pool does (its         *)
(* KeepsPromise), with commands that cannot be started in any place.       *)
LoopKeepsPromise == Loop!KeepsPromise

(* The caller of getResults gets its results: no thread waits forever for  *)
(* the mutex or keeps the joins waiting, and the loop ends.                *)
Returns == <>(main = "done" \/ returned)
=============================================================================
