-------------------------- MODULE ConcurrentExecutor --------------------------
(***************************************************************************)
(* The pool of threads of dynamic/testengine.h, class ConcurrentExecutor:  *)
(* execute() starts the threads, each takes commands from the front of a   *)
(* list under a mutex and appends what the command prints to the result    *)
(* with the command's index; getResults() joins the threads.               *)
(***************************************************************************)
EXTENDS Naturals, Sequences

CONSTANTS N,           \* the number of commands
          maxThreads,
          Printed      \* Printed[i]: the chunks fgets reads from command i

Tasks == 1 .. N
threadCount == IF N < maxThreads THEN N ELSE maxThreads
Threads == 1 .. threadCount
NoThread == 0

ASSUME PoolAssumption == /\ N \in Nat
                         /\ maxThreads \in Nat \ {0}
                         /\ \A i \in Tasks : Printed[i] \in Seq(Nat)

VARIABLES main,       \* "spawn", "join" or "done"
          turn,       \* the thread main starts or joins next
          pc,         \* where each thread is
          mtx,        \* the thread that holds the mutex
          tasks,      \* the list, as the indexes of its commands
          task,       \* the thread's local copy of its task
          results

vars == <<main, turn, pc, mtx, tasks, task, results>>

Init == /\ main = "spawn"
        /\ turn = 1
        /\ pc = [t \in Threads |-> "unborn"]
        /\ mtx = NoThread
        /\ tasks = [i \in Tasks |-> i]
        /\ task = [t \in Threads |-> 0]
        /\ results = [i \in Tasks |-> << >>]

-----------------------------------------------------------------------------
(* execute() and getResults(), on the thread of the caller. *)

Spawn == /\ main = "spawn"
         /\ turn <= threadCount
         /\ pc' = [pc EXCEPT ![turn] = "lock"]
         /\ turn' = turn + 1
         /\ UNCHANGED <<main, mtx, tasks, task, results>>

SpawnDone == /\ main = "spawn"
             /\ turn > threadCount
             /\ main' = "join"
             /\ turn' = 1
             /\ UNCHANGED <<pc, mtx, tasks, task, results>>

Join == /\ main = "join"
        /\ turn <= threadCount
        /\ pc[turn] = "exit"
        /\ turn' = turn + 1
        /\ UNCHANGED <<main, pc, mtx, tasks, task, results>>

JoinDone == /\ main = "join"
            /\ turn > threadCount
            /\ main' = "done"
            /\ UNCHANGED <<turn, pc, mtx, tasks, task, results>>

Main == Spawn \/ SpawnDone \/ Join \/ JoinDone

-----------------------------------------------------------------------------
(* threadFunc() and executeAndGetResults(), on thread t. *)

\* Mistake: no mutex.
LockFree(t) == /\ pc[t] = "lock"
               /\ mtx' = t
               /\ pc' = [pc EXCEPT ![t] = "check"]
               /\ UNCHANGED <<main, turn, tasks, task, results>>

Lock(t) == /\ pc[t] = "lock"
           /\ mtx = NoThread
           /\ mtx' = t
           /\ pc' = [pc EXCEPT ![t] = "check"]
           /\ UNCHANGED <<main, turn, tasks, task, results>>

\* Mistake: the mutex is not released.
ExitLocked(t) == /\ pc[t] = "check"
                 /\ tasks = << >>
                 /\ pc' = [pc EXCEPT ![t] = "exit"]
                 /\ UNCHANGED <<main, turn, mtx, tasks, task, results>>

\* No task is left: the thread returns, and its lock_guard unlocks.
Exit(t) == /\ pc[t] = "check"
           /\ tasks = << >>
           /\ mtx' = NoThread
           /\ pc' = [pc EXCEPT ![t] = "exit"]
           /\ UNCHANGED <<main, turn, tasks, task, results>>

Front(t) == /\ pc[t] = "check"
            /\ tasks # << >>
            /\ task' = [task EXCEPT ![t] = Head(tasks)]
            /\ pc' = [pc EXCEPT ![t] = "pop"]
            /\ UNCHANGED <<main, turn, mtx, tasks, results>>

\* pop_front, and the end of the lock's scope.
PopFront(t) == /\ pc[t] = "pop"
               /\ tasks' = Tail(tasks)
               /\ mtx' = NoThread
               /\ pc' = [pc EXCEPT ![t] = "popen"]
               /\ UNCHANGED <<main, turn, task, results>>

PopenFails(t) == /\ pc[t] = "popen"
                 /\ pc' = [pc EXCEPT ![t] = "lock"]
                 /\ UNCHANGED <<main, turn, mtx, tasks, task, results>>

Popen(t) == /\ pc[t] = "popen"
            /\ pc' = [pc EXCEPT ![t] = "read"]
            /\ UNCHANGED <<main, turn, mtx, tasks, task, results>>

\* Mistake: a chunk replaces the one before it.
FgetsReplaces(t) == LET i == task[t]
                    IN  /\ pc[t] = "read"
                        /\ Len(results[i]) < Len(Printed[i])
                        /\ results' = [results EXCEPT ![i] =
                                         <<Printed[i][Len(@) + 1]>>]
                        /\ UNCHANGED <<main, turn, pc, mtx, tasks, task>>

\* One chunk of at most 127 characters; results[i] holds a prefix of what
\* command i prints, so its length says what comes next.
Fgets(t) == LET i == task[t]
            IN  /\ pc[t] = "read"
                /\ Len(results[i]) < Len(Printed[i])
                /\ results' = [results EXCEPT ![i] =
                                 Append(@, Printed[i][Len(@) + 1])]
                /\ UNCHANGED <<main, turn, pc, mtx, tasks, task>>

\* Mistake: the pipe is closed before its end.
PcloseEarly(t) == /\ pc[t] = "read"
                  /\ pc' = [pc EXCEPT ![t] = "lock"]
                  /\ UNCHANGED <<main, turn, mtx, tasks, task, results>>

Pclose(t) == /\ pc[t] = "read"
             /\ Len(results[task[t]]) >= Len(Printed[task[t]])
             /\ pc' = [pc EXCEPT ![t] = "lock"]
             /\ UNCHANGED <<main, turn, mtx, tasks, task, results>>

Thread(t) == \/ Lock(t) \/ Exit(t) \/ Front(t) \/ PopFront(t)
             \/ PopenFails(t) \/ Popen(t) \/ Fgets(t) \/ Pclose(t)

Next == Main \/ \E t \in Threads : Thread(t)

Spec == Init /\ [][Next]_vars

-----------------------------------------------------------------------------
Queued == {tasks[k] : k \in 1 .. Len(tasks)}
Busy == {t \in Threads : pc[t] \in {"popen", "read"}}
Ended == {i \in Tasks \ Queued : \A t \in Busy : task[t] # i}

TypeOK ==
    /\ main \in {"spawn", "join", "done"}
    /\ turn \in 1 .. threadCount + 1
    /\ pc \in [Threads -> {"unborn", "lock", "check", "pop", "popen", "read", "exit"}]
    /\ mtx \in Threads \cup {NoThread}
    /\ tasks \in Seq(Tasks)
    /\ task \in [Threads -> Tasks \cup {0}]
    /\ results \in [Tasks -> Seq(Nat)]

(* Two threads never work on one command, and a command a thread works on  *)
(* is no longer in the list: each slot of results has one writer, which is *)
(* why threadFunc may write it without the mutex.                          *)
OneWriter ==
    /\ \A t, u \in Busy : task[t] = task[u] => t = u
    /\ \A t \in Busy : task[t] \notin Queued

(* A slot only ever holds its own command's output, complete or not begun  *)
(* once the command has ended.                                             *)
ResultsOwn ==
    \A i \in Tasks :
        /\ Len(results[i]) <= Len(Printed[i])
        /\ \A k \in 1 .. Len(results[i]) : results[i][k] = Printed[i][k]
        /\ i \in Ended => results[i] \in {Printed[i], << >>}

(* getResults hands out nothing before every command has ended: no thread  *)
(* can be left behind by the joins with a task in hand or in the list.     *)
ReturnedComplete == main = "done" => Ended = Tasks

(* The pool keeps the promise of an executor, step by step.                *)
Promise == INSTANCE Executor
           WITH ended <- Ended,
                result <- [i \in Tasks |-> IF i \in Ended THEN results[i] ELSE << >>],
                returned <- main = "done"
KeepsPromise == Promise!Spec
=============================================================================
