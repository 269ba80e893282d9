------------------------------ MODULE Executor ------------------------------
(***************************************************************************)
(* What an executor of dynamic/testengine.h promises: each command is run  *)
(* once; its result is the whole of what it printed, or stays empty when   *)
(* the command cannot be started; and getResults returns when all commands *)
(* have ended, so that no result changes under the caller's hands.         *)
(***************************************************************************)
EXTENDS Naturals, Sequences

CONSTANTS Tasks,     \* the indexes of the commands
          Printed    \* Printed[i]: what command i prints, in chunks that
                     \* fit the buffer of executeAndGetResults

VARIABLES ended,     \* the commands that have ended
          result,    \* result[i]: empty until command i has ended
          returned   \* has getResults returned?

Init == /\ ended = {}
        /\ result = [i \in Tasks |-> << >>]
        /\ returned = FALSE

Run(i) == /\ i \notin ended
          /\ ended' = ended \cup {i}
          /\ \/ result' = [result EXCEPT ![i] = Printed[i]]
             \/ UNCHANGED result
          /\ UNCHANGED returned

Return == /\ ~returned
          /\ ended = Tasks
          /\ returned' = TRUE
          /\ UNCHANGED <<ended, result>>

Next == (\E i \in Tasks : Run(i)) \/ Return

Spec == Init /\ [][Next]_<<ended, result, returned>>
=============================================================================
