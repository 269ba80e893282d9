-------------------------- MODULE SequentialExecutor --------------------------
(***************************************************************************)
(* The executor the engine uses (dynamic/testengine.h, SequentialExecutor):*)
(* one loop over the commands, on the thread of the caller.                *)
(***************************************************************************)
EXTENDS Naturals, Sequences

CONSTANTS N,         \* the number of commands
          Printed    \* Printed[i]: the chunks fgets reads from command i

Tasks == 1 .. N

VARIABLES i,         \* the command that is run, N + 1 after the loop
          open,      \* is its pipe open?
          results,
          returned   \* has getResults returned?

vars == <<i, open, results, returned>>

Init == /\ i = 1
        /\ open = FALSE
        /\ results = [k \in Tasks |-> << >>]
        /\ returned = FALSE

PopenFails == /\ i <= N
              /\ ~open
              /\ i' = i + 1
              /\ UNCHANGED <<open, results, returned>>

Popen == /\ i <= N
         /\ ~open
         /\ open' = TRUE
         /\ UNCHANGED <<i, results, returned>>

Fgets == /\ open
         /\ Len(results[i]) < Len(Printed[i])
         /\ results' = [results EXCEPT ![i] = Append(@, Printed[i][Len(@) + 1])]
         /\ UNCHANGED <<i, open, returned>>

\* Mistake: the pipe is closed before its end.
PcloseEarly == /\ open
               /\ open' = FALSE
               /\ i' = i + 1
               /\ UNCHANGED <<results, returned>>

Pclose == /\ open
          /\ Len(results[i]) >= Len(Printed[i])
          /\ open' = FALSE
          /\ i' = i + 1
          /\ UNCHANGED <<results, returned>>

getResults == /\ i > N
              /\ ~returned
              /\ returned' = TRUE
              /\ UNCHANGED <<i, open, results>>

Next == PopenFails \/ Popen \/ Fgets \/ Pclose \/ getResults

Spec == Init /\ [][Next]_vars

(* The loop keeps the promise of an executor: the engine could use either. *)
Promise == INSTANCE Executor
           WITH ended <- 1 .. i - 1,
                result <- [k \in Tasks |-> IF k < i THEN results[k] ELSE << >>]
KeepsPromise == Promise!Spec
=============================================================================
