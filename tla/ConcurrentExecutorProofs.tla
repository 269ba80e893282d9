----------------------- MODULE ConcurrentExecutorProofs -----------------------
(***************************************************************************)
(* Proofs about the executors for any number of commands and threads: the  *)
(* invariants of the pool, that the pool implements Executor, that the     *)
(* loop does, and that a caller who may use either gets the same promise.  *)
(***************************************************************************)
EXTENDS Executors, TLAPS

(***************************************************************************)
(* The inductive invariant.  The mutex belongs to the one thread between   *)
(* Lock and the end of the scope; a thread about to pop holds the front of *)
(* the list; the list has no command twice; nothing is written for a       *)
(* command before it is read from; a thread only leaves an empty list.     *)
(***************************************************************************)
MutexHeld == \A t \in Threads : pc[t] \in {"check", "pop"} <=> mtx = t
FrontHeld == \A t \in Threads : pc[t] = "pop" => tasks # << >> /\ task[t] = Head(tasks)
NoneTwice == \A j, k \in 1 .. Len(tasks) : tasks[j] = tasks[k] => j = k
InHand == \A t \in Busy : task[t] \in Tasks
Unwritten == /\ \A i \in Queued : results[i] = << >>
             /\ \A t \in Threads : pc[t] = "popen" => results[task[t]] = << >>
Leaving == \A t \in Threads : pc[t] = "exit" => tasks = << >>
Joined == /\ main = "spawn" => \A t \in Threads : t >= turn => pc[t] = "unborn"
          /\ main = "join" => \A t \in Threads : t < turn => pc[t] = "exit"
          /\ main = "done" => \A t \in Threads : pc[t] = "exit"

Inv == /\ TypeOK
       /\ MutexHeld
       /\ FrontHeld
       /\ NoneTwice
       /\ InHand
       /\ OneWriter
       /\ Unwritten
       /\ ResultsOwn
       /\ Leaving
       /\ Joined

-----------------------------------------------------------------------------
(* The list. *)

(* What is left of a list without repetitions when its front is removed.   *)
LEMMA TailOfList ==
    ASSUME NEW s \in Seq(Tasks), s # << >>,
           \A j, k \in 1 .. Len(s) : s[j] = s[k] => j = k
    PROVE  /\ Head(s) \in Tasks
           /\ Tail(s) \in Seq(Tasks)
           /\ \A j, k \in 1 .. Len(Tail(s)) : Tail(s)[j] = Tail(s)[k] => j = k
           /\ {Tail(s)[k] : k \in 1 .. Len(Tail(s))} = {s[k] : k \in 1 .. Len(s)} \ {Head(s)}
           /\ Head(s) \in {s[k] : k \in 1 .. Len(s)}
<1>1. /\ Len(s) \in Nat \ {0}
      /\ Len(Tail(s)) = Len(s) - 1
      /\ \A k \in 1 .. Len(s) - 1 : Tail(s)[k] = s[k + 1]
      /\ Head(s) = s[1]
      /\ Tail(s) \in Seq(Tasks)
  OBVIOUS
<1>2. ASSUME NEW i \in {s[k] : k \in 1 .. Len(s)} \ {Head(s)}
      PROVE  i \in {Tail(s)[k] : k \in 1 .. Len(Tail(s))}
  <2>1. PICK k \in 1 .. Len(s) : i = s[k]
    OBVIOUS
  <2>2. k # 1
    BY <2>1, <1>1
  <2>3. k - 1 \in 1 .. Len(s) - 1 /\ Tail(s)[k - 1] = s[k]
    <3>1. k - 1 \in 1 .. Len(s) - 1
      BY <2>2, <1>1
    <3>2. (k - 1) + 1 = k
      OBVIOUS
    <3> QED BY <3>1, <3>2, <1>1
  <2> QED BY <2>1, <2>3, <1>1
<1>3. ASSUME NEW i \in {Tail(s)[k] : k \in 1 .. Len(Tail(s))}
      PROVE  i \in {s[k] : k \in 1 .. Len(s)} \ {Head(s)}
  <2>1. PICK k \in 1 .. Len(s) - 1 : i = Tail(s)[k]
    BY <1>1
  <2>2. k + 1 \in 1 .. Len(s) /\ k + 1 # 1 /\ i = s[k + 1] /\ 1 \in 1 .. Len(s)
    BY <2>1, <1>1
  <2> QED BY <2>2, <1>1
<1>4. ASSUME NEW j \in 1 .. Len(Tail(s)), NEW k \in 1 .. Len(Tail(s)), Tail(s)[j] = Tail(s)[k]
      PROVE  j = k
  <2>1. j + 1 \in 1 .. Len(s) /\ k + 1 \in 1 .. Len(s) /\ s[j + 1] = s[k + 1]
    BY <1>1, <1>4
  <2>2. j + 1 = k + 1
    BY <2>1
  <2> QED BY <2>2
<1>5. Head(s) \in Tasks /\ Head(s) \in {s[k] : k \in 1 .. Len(s)}
  BY <1>1
<1> QED BY <1>1, <1>2, <1>3, <1>4, <1>5

(* A chunk appended to a part of an output makes a longer part of it.      *)
LEMMA OneChunkMore ==
    ASSUME NEW s \in Seq(Nat), NEW out \in Seq(Nat), NEW longer,
           Len(s) < Len(out),
           \A k \in 1 .. Len(s) : s[k] = out[k],
           longer = Append(s, out[Len(s) + 1])
    PROVE  /\ Len(longer) <= Len(out)
           /\ \A k \in 1 .. Len(longer) : longer[k] = out[k]
<1>1. Len(s) \in Nat /\ Len(out) \in Nat
  OBVIOUS
<1>2. /\ Len(longer) = Len(s) + 1
      /\ longer[Len(s) + 1] = out[Len(s) + 1]
      /\ \A k \in 1 .. Len(s) : longer[k] = s[k]
  <2>1. Len(s) + 1 \in 1 .. Len(out)
    BY <1>1
  <2>2. out[Len(s) + 1] \in Nat
    BY <2>1
  <2> QED BY <2>2
<1> QED BY <1>1, <1>2

(* Two outputs with the same chunks are the same.                          *)
LEMMA SamePrinted ==
    ASSUME NEW s \in Seq(Nat), NEW out \in Seq(Nat), Len(s) = Len(out),
           \A k \in 1 .. Len(s) : s[k] = out[k]
    PROVE  s = out
OBVIOUS

-----------------------------------------------------------------------------
(* The invariant. *)

(* The threads are numbered from 1; the number 0 stands for no thread.     *)
LEMMA ThreadNumbers == threadCount \in Nat /\ NoThread \notin Threads
BY PoolAssumption DEF PoolAssumption, threadCount, Threads, NoThread

(* The initial state.                                                      *)
LEMMA InitInv == Init => Inv
<1> SUFFICES ASSUME Init PROVE Inv
  OBVIOUS
<1> USE PoolAssumption DEF PoolAssumption
<1>1. threadCount \in Nat /\ NoThread \notin Threads
  BY ThreadNumbers
<1>2. tasks \in Seq(Tasks) /\ Len(tasks) = N /\ \A k \in 1 .. N : tasks[k] = k
  BY DEF Init, Tasks
<1>3. << >> \in Seq(Nat) /\ Len(<< >>) = 0
  OBVIOUS
<1>4. TypeOK
  <2>1. turn \in 1 .. threadCount + 1
    BY <1>1 DEF Init
  <2>2. results \in [Tasks -> Seq(Nat)]
    BY <1>3 DEF Init
  <2>3. pc \in [Threads -> {"unborn", "lock", "check", "pop", "popen", "read", "exit"}]
    BY DEF Init
  <2>4. task \in [Threads -> Tasks \cup {0}]
    BY DEF Init
  <2> QED BY <2>1, <2>2, <2>3, <2>4, <1>2 DEF Init, TypeOK
<1>5. MutexHeld
  BY <1>1 DEF Init, MutexHeld
<1>6. Busy = {}
  BY DEF Init, Busy
<1>7. NoneTwice
  BY <1>2 DEF NoneTwice
<1>8. Unwritten
  <2>1. \A i \in Queued : i \in Tasks
    BY <1>2 DEF Queued, Tasks
  <2> QED BY <2>1 DEF Init, Unwritten
<1>9. ResultsOwn
  <2> SUFFICES ASSUME NEW i \in Tasks
               PROVE  /\ Len(results[i]) <= Len(Printed[i])
                      /\ \A k \in 1 .. Len(results[i]) : results[i][k] = Printed[i][k]
                      /\ results[i] = << >>
    BY DEF ResultsOwn
  <2>1. results[i] = << >>
    BY DEF Init
  <2>2. Len(Printed[i]) \in Nat
    OBVIOUS
  <2> QED BY <2>1, <2>2, <1>3
<1>10. FrontHeld /\ Leaving /\ Joined
  BY DEF Init, FrontHeld, Leaving, Joined
<1> QED BY <1>4, <1>5, <1>6, <1>7, <1>8, <1>9, <1>10 DEF Inv, InHand, OneWriter
(* Starting a thread keeps the invariant.                                  *)
LEMMA SpawnInv ==
    ASSUME Inv, Spawn
    PROVE  Inv'
<1> USE DEF Spawn
<1>1. TypeOK'
  <2>1. turn' \in 1 .. threadCount + 1
    BY ThreadNumbers DEF Inv, TypeOK
  <2> QED BY <2>1 DEF Inv, TypeOK
<1>2. MutexHeld'
  <2>1. turn \in Threads
    BY ThreadNumbers DEF Inv, TypeOK, Threads
  <2>2. pc[turn] = "unborn"
    BY <2>1 DEF Inv, Joined, Threads
  <2> QED BY <2>1, <2>2 DEF Inv, TypeOK, MutexHeld
<1>3. FrontHeld'
  BY DEF Inv, TypeOK, FrontHeld
<1>4. NoneTwice'
  BY DEF Inv, TypeOK, NoneTwice
<1>5. InHand'
  BY DEF Inv, TypeOK, InHand, Busy
<1>6. OneWriter'
  BY DEF Inv, TypeOK, OneWriter, Busy, Queued
<1>7. Unwritten'
  BY DEF Inv, TypeOK, Unwritten, Queued
<1>8. ResultsOwn'
  <2>1. Busy' = Busy /\ Queued' = Queued
    <3>1. turn \in Threads /\ pc[turn] = "unborn"
      BY ThreadNumbers DEF Inv, TypeOK, Threads, Joined
    <3> QED BY <3>1 DEF Busy, Queued, Inv, TypeOK
  <2>2. Ended' = Ended
    BY <2>1 DEF Ended
  <2> QED BY <2>2 DEF Inv, ResultsOwn
<1>9. Leaving'
  BY DEF Inv, TypeOK, Leaving
<1>10. Joined'
  <2> SUFFICES ASSUME NEW t \in Threads, t >= turn'
               PROVE  pc'[t] = "unborn"
    BY DEF Joined
  <2>1. t >= turn /\ t # turn
    BY ThreadNumbers DEF Inv, TypeOK, Threads
  <2> QED BY <2>1 DEF Inv, TypeOK, Joined
<1> QED BY <1>1, <1>2, <1>3, <1>4, <1>5, <1>6, <1>7, <1>8, <1>9, <1>10 DEF Inv

(* So does the end of the starting loop,                                   *)
LEMMA SpawnDoneInv ==
    ASSUME Inv, SpawnDone
    PROVE  Inv'
<1> USE DEF SpawnDone
<1>1. TypeOK'
  <2>1. turn' \in 1 .. threadCount + 1
    BY ThreadNumbers DEF Inv, TypeOK
  <2> QED BY <2>1 DEF Inv, TypeOK
<1>2. MutexHeld'
  BY DEF Inv, TypeOK, MutexHeld
<1>3. FrontHeld'
  BY DEF Inv, TypeOK, FrontHeld
<1>4. NoneTwice'
  BY DEF Inv, TypeOK, NoneTwice
<1>5. InHand'
  BY DEF Inv, TypeOK, InHand, Busy
<1>6. OneWriter'
  BY DEF Inv, TypeOK, OneWriter, Busy, Queued
<1>7. Unwritten'
  BY DEF Inv, TypeOK, Unwritten, Queued
<1>8. ResultsOwn'
  <2>1. Busy' = Busy /\ Queued' = Queued
    BY DEF Busy, Queued, Inv, TypeOK
  <2>2. Ended' = Ended
    BY <2>1 DEF Ended
  <2> QED BY <2>2 DEF Inv, ResultsOwn
<1>9. Leaving'
  BY DEF Inv, TypeOK, Leaving
<1>10. Joined'
  <2>1. \A t \in Threads : ~(t < 1)
    BY ThreadNumbers DEF Threads
  <2> QED BY <2>1 DEF Joined
<1> QED BY <1>1, <1>2, <1>3, <1>4, <1>5, <1>6, <1>7, <1>8, <1>9, <1>10 DEF Inv

(* a join,                                                                 *)
LEMMA JoinInv ==
    ASSUME Inv, Join
    PROVE  Inv'
<1> USE DEF Join
<1>1. TypeOK'
  <2>1. turn' \in 1 .. threadCount + 1
    BY ThreadNumbers DEF Inv, TypeOK
  <2> QED BY <2>1 DEF Inv, TypeOK
<1>2. MutexHeld'
  BY DEF Inv, TypeOK, MutexHeld
<1>3. FrontHeld'
  BY DEF Inv, TypeOK, FrontHeld
<1>4. NoneTwice'
  BY DEF Inv, TypeOK, NoneTwice
<1>5. InHand'
  BY DEF Inv, TypeOK, InHand, Busy
<1>6. OneWriter'
  BY DEF Inv, TypeOK, OneWriter, Busy, Queued
<1>7. Unwritten'
  BY DEF Inv, TypeOK, Unwritten, Queued
<1>8. ResultsOwn'
  <2>1. Busy' = Busy /\ Queued' = Queued
    BY DEF Busy, Queued, Inv, TypeOK
  <2>2. Ended' = Ended
    BY <2>1 DEF Ended
  <2> QED BY <2>2 DEF Inv, ResultsOwn
<1>9. Leaving'
  BY DEF Inv, TypeOK, Leaving
<1>10. Joined'
  <2> SUFFICES ASSUME NEW t \in Threads, t < turn'
               PROVE  pc[t] = "exit"
    BY DEF Joined
  <2>1. t < turn \/ t = turn
    BY ThreadNumbers DEF Inv, TypeOK, Threads
  <2> QED BY <2>1 DEF Inv, Joined
<1> QED BY <1>1, <1>2, <1>3, <1>4, <1>5, <1>6, <1>7, <1>8, <1>9, <1>10 DEF Inv

(* and the return of getResults.                                           *)
LEMMA JoinDoneInv ==
    ASSUME Inv, JoinDone
    PROVE  Inv'
<1> USE DEF JoinDone
<1>1. TypeOK'
  BY DEF Inv, TypeOK
<1>2. MutexHeld'
  BY DEF Inv, TypeOK, MutexHeld
<1>3. FrontHeld'
  BY DEF Inv, TypeOK, FrontHeld
<1>4. NoneTwice'
  BY DEF Inv, TypeOK, NoneTwice
<1>5. InHand'
  BY DEF Inv, TypeOK, InHand, Busy
<1>6. OneWriter'
  BY DEF Inv, TypeOK, OneWriter, Busy, Queued
<1>7. Unwritten'
  BY DEF Inv, TypeOK, Unwritten, Queued
<1>8. ResultsOwn'
  <2>1. Busy' = Busy /\ Queued' = Queued
    BY DEF Busy, Queued, Inv, TypeOK
  <2>2. Ended' = Ended
    BY <2>1 DEF Ended
  <2> QED BY <2>2 DEF Inv, ResultsOwn
<1>9. Leaving'
  BY DEF Inv, TypeOK, Leaving
<1>10. Joined'
  <2>1. \A t \in Threads : t < turn
    BY ThreadNumbers DEF Inv, TypeOK, Threads
  <2> QED BY <2>1 DEF Inv, Joined
<1> QED BY <1>1, <1>2, <1>3, <1>4, <1>5, <1>6, <1>7, <1>8, <1>9, <1>10 DEF Inv

(* Taking the mutex keeps the invariant.                                   *)
LEMMA LockInv ==
    ASSUME Inv, NEW t \in Threads, Lock(t)
    PROVE  Inv'
<1> USE DEF Lock
<1>1. TypeOK'
  BY DEF Inv, TypeOK
<1>2. MutexHeld'
  <2>1. \A u \in Threads : pc[u] \notin {"check", "pop"}
    BY ThreadNumbers DEF Inv, MutexHeld
  <2> QED BY <2>1 DEF Inv, TypeOK, MutexHeld
<1>3. FrontHeld'
  BY DEF Inv, TypeOK, FrontHeld
<1>4. NoneTwice'
  BY DEF Inv, TypeOK, NoneTwice
<1>5. InHand'
  BY DEF Inv, TypeOK, InHand, Busy
<1>6. OneWriter'
  BY DEF Inv, TypeOK, OneWriter, Busy, Queued
<1>7. Unwritten'
  BY DEF Inv, TypeOK, Unwritten, Queued
<1>8. ResultsOwn'
  <2>1. Busy' = Busy /\ Queued' = Queued
    BY DEF Busy, Queued, Inv, TypeOK
  <2>2. Ended' = Ended
    BY <2>1 DEF Ended
  <2> QED BY <2>2 DEF Inv, ResultsOwn
<1>9. Leaving'
  BY DEF Inv, TypeOK, Leaving
<1>10. Joined'
  BY DEF Inv, TypeOK, Joined
<1> QED BY <1>1, <1>2, <1>3, <1>4, <1>5, <1>6, <1>7, <1>8, <1>9, <1>10 DEF Inv

(* So does leaving an empty list,                                          *)
LEMMA ExitInv ==
    ASSUME Inv, NEW t \in Threads, Exit(t)
    PROVE  Inv'
<1> USE DEF Exit
<1>1. TypeOK'
  BY DEF Inv, TypeOK
<1>2. MutexHeld'
  <2>1. mtx = t /\ \A u \in Threads : pc[u] \in {"check", "pop"} => u = t
    BY DEF Inv, MutexHeld
  <2> QED BY <2>1, ThreadNumbers DEF Inv, TypeOK, MutexHeld
<1>3. FrontHeld'
  BY DEF Inv, TypeOK, FrontHeld
<1>4. NoneTwice'
  BY DEF Inv, TypeOK, NoneTwice
<1>5. InHand'
  BY DEF Inv, TypeOK, InHand, Busy
<1>6. OneWriter'
  BY DEF Inv, TypeOK, OneWriter, Busy, Queued
<1>7. Unwritten'
  BY DEF Inv, TypeOK, Unwritten, Queued
<1>8. ResultsOwn'
  <2>1. Busy' = Busy /\ Queued' = Queued
    BY DEF Busy, Queued, Inv, TypeOK
  <2>2. Ended' = Ended
    BY <2>1 DEF Ended
  <2> QED BY <2>2 DEF Inv, ResultsOwn
<1>9. Leaving'
  BY DEF Inv, TypeOK, Leaving
<1>10. Joined'
  BY DEF Inv, TypeOK, Joined
<1> QED BY <1>1, <1>2, <1>3, <1>4, <1>5, <1>6, <1>7, <1>8, <1>9, <1>10 DEF Inv

(* reading the front of the list,                                          *)
LEMMA FrontInv ==
    ASSUME Inv, NEW t \in Threads, Front(t)
    PROVE  Inv'
<1> USE DEF Front
<1>1. TypeOK'
  BY DEF Inv, TypeOK
<1>2. MutexHeld'
  BY DEF Inv, TypeOK, MutexHeld
<1>3. FrontHeld'
  BY DEF Inv, TypeOK, FrontHeld
<1>4. NoneTwice'
  BY DEF Inv, TypeOK, NoneTwice
<1>5. InHand'
  BY DEF Inv, TypeOK, InHand, Busy
<1>6. OneWriter'
  BY DEF Inv, TypeOK, OneWriter, Busy, Queued
<1>7. Unwritten'
  BY DEF Inv, TypeOK, Unwritten, Queued
<1>8. ResultsOwn'
  <2>1. Busy' = Busy /\ Queued' = Queued /\ t \notin Busy
    BY DEF Busy, Queued, Inv, TypeOK
  <2>2. \A u \in Busy : task'[u] = task[u]
    BY <2>1 DEF Inv, TypeOK, Busy
  <2>3. Ended' = Ended
    BY <2>1, <2>2 DEF Ended
  <2> QED BY <2>3 DEF Inv, ResultsOwn
<1>9. Leaving'
  BY DEF Inv, TypeOK, Leaving
<1>10. Joined'
  BY DEF Inv, TypeOK, Joined
<1> QED BY <1>1, <1>2, <1>3, <1>4, <1>5, <1>6, <1>7, <1>8, <1>9, <1>10 DEF Inv

(* PopFront takes the front off the list, and the thread has it in hand.   *)
LEMMA PopFrontQueued ==
    ASSUME Inv, NEW t \in Threads, PopFront(t)
    PROVE  /\ task[t] \in Tasks /\ task[t] \in Queued /\ Queued' = Queued \ {task[t]}
           /\ tasks' \in Seq(Tasks) /\ NoneTwice'
<1> DEFINE h == Head(tasks)
<1>1. task[t] = h /\ tasks # << >> /\ tasks \in Seq(Tasks)
  BY DEF Inv, FrontHeld, TypeOK, PopFront
<1>2. \A j, k \in 1 .. Len(tasks) : tasks[j] = tasks[k] => j = k
  BY DEF Inv, NoneTwice
<1>3. /\ h \in Tasks /\ Tail(tasks) \in Seq(Tasks)
      /\ \A j, k \in 1 .. Len(Tail(tasks)) : Tail(tasks)[j] = Tail(tasks)[k] => j = k
      /\ {Tail(tasks)[k] : k \in 1 .. Len(Tail(tasks))} = Queued \ {h}
      /\ h \in Queued
  BY <1>1, <1>2, TailOfList DEF Queued
<1> HIDE DEF h
<1>4. tasks' = Tail(tasks)
  BY DEF PopFront
<1>5. Queued' = {Tail(tasks)[k] : k \in 1 .. Len(Tail(tasks))}
  BY <1>4 DEF Queued
<1> QED BY <1>1, <1>3, <1>4, <1>5 DEF NoneTwice

(* removing it,                                                            *)
LEMMA PopFrontInv ==
    ASSUME Inv, NEW t \in Threads, PopFront(t)
    PROVE  Inv'
<1> USE DEF PopFront
<1> DEFINE h == task[t]
<1>a. pc \in [Threads -> {"unborn", "lock", "check", "pop", "popen", "read", "exit"}]
  BY DEF Inv, TypeOK
<1>b. /\ h \in Tasks /\ h \in Queued /\ Queued' = Queued \ {h}
      /\ tasks' \in Seq(Tasks) /\ NoneTwice'
  BY PopFrontQueued
<1>c. t \notin Busy /\ Busy' = Busy \cup {t}
  BY <1>a DEF Busy
<1>d. \A u \in Busy : task[u] # h
  BY <1>b DEF Inv, OneWriter
<1>1. TypeOK'
  BY <1>b, ThreadNumbers DEF Inv, TypeOK
<1>2. MutexHeld'
  <2>1. mtx = t /\ \A u \in Threads : pc[u] \in {"check", "pop"} => u = t
    BY DEF Inv, MutexHeld
  <2> QED BY <2>1, ThreadNumbers DEF Inv, TypeOK, MutexHeld
<1>3. FrontHeld'
  <2>1. \A u \in Threads : pc'[u] # "pop"
    BY <1>a DEF Inv, MutexHeld
  <2> QED BY <2>1 DEF FrontHeld
<1>4. NoneTwice'
  BY <1>b
<1>5. InHand'
  BY <1>a, <1>b, <1>c DEF Inv, InHand
<1>6. OneWriter'
  BY <1>a, <1>b, <1>c, <1>d DEF Inv, OneWriter
<1>7. Unwritten'
  <2>1. \A i \in Queued' : results[i] = << >>
    BY <1>b DEF Inv, Unwritten
  <2>2. ASSUME NEW u \in Threads, pc'[u] = "popen" PROVE results[task[u]] = << >>
    <3>1. CASE u = t
      BY <3>1, <1>a, <1>b DEF Inv, Unwritten
    <3>2. CASE u # t
      BY <3>2, <2>2, <1>a DEF Inv, Unwritten
    <3> QED BY <3>1, <3>2
  <2> QED BY <2>1, <2>2 DEF Unwritten
<1>8. ResultsOwn'
  <2>1. Ended' = Ended
    BY <1>a, <1>b, <1>c DEF Ended
  <2> QED BY <2>1 DEF Inv, ResultsOwn
<1>9. Leaving'
  BY DEF Inv, TypeOK, Leaving
<1>10. Joined'
  BY DEF Inv, TypeOK, Joined
<1> QED BY <1>1, <1>2, <1>3, <1>4, <1>5, <1>6, <1>7, <1>8, <1>9, <1>10 DEF Inv

(* a command that does not start,                                          *)
LEMMA PopenFailsInv ==
    ASSUME Inv, NEW t \in Threads, PopenFails(t)
    PROVE  Inv'
<1> USE DEF PopenFails
<1>1. TypeOK'
  BY DEF Inv, TypeOK
<1>2. MutexHeld'
  BY DEF Inv, TypeOK, MutexHeld
<1>3. FrontHeld'
  BY DEF Inv, TypeOK, FrontHeld
<1>4. NoneTwice'
  BY DEF Inv, TypeOK, NoneTwice
<1>5. InHand'
  BY DEF Inv, TypeOK, InHand, Busy
<1>6. OneWriter'
  BY DEF Inv, TypeOK, OneWriter, Busy, Queued
<1>7. Unwritten'
  BY DEF Inv, TypeOK, Unwritten, Queued
<1>8. ResultsOwn'
  <2>1. Busy' = Busy \ {t} /\ Queued' = Queued
    BY DEF Busy, Queued, Inv, TypeOK
  <2>2. Ended' \subseteq Ended \cup {task[t]}
    BY <2>1 DEF Ended
  <2>3. results[task[t]] = << >>
    BY DEF Inv, Unwritten
  <2> QED BY <2>2, <2>3 DEF Inv, ResultsOwn
<1>9. Leaving'
  BY DEF Inv, TypeOK, Leaving
<1>10. Joined'
  BY DEF Inv, TypeOK, Joined
<1> QED BY <1>1, <1>2, <1>3, <1>4, <1>5, <1>6, <1>7, <1>8, <1>9, <1>10 DEF Inv

(* one that does,                                                          *)
LEMMA PopenInv ==
    ASSUME Inv, NEW t \in Threads, Popen(t)
    PROVE  Inv'
<1> USE DEF Popen
<1>1. TypeOK'
  BY DEF Inv, TypeOK
<1>2. MutexHeld'
  BY DEF Inv, TypeOK, MutexHeld
<1>3. FrontHeld'
  BY DEF Inv, TypeOK, FrontHeld
<1>4. NoneTwice'
  BY DEF Inv, TypeOK, NoneTwice
<1>5. InHand'
  BY DEF Inv, TypeOK, InHand, Busy
<1>6. OneWriter'
  BY DEF Inv, TypeOK, OneWriter, Busy, Queued
<1>7. Unwritten'
  BY DEF Inv, TypeOK, Unwritten, Queued
<1>8. ResultsOwn'
  <2>1. Busy' = Busy /\ Queued' = Queued
    BY DEF Busy, Queued, Inv, TypeOK
  <2>2. Ended' = Ended
    BY <2>1 DEF Ended
  <2> QED BY <2>2 DEF Inv, ResultsOwn
<1>9. Leaving'
  BY DEF Inv, TypeOK, Leaving
<1>10. Joined'
  BY DEF Inv, TypeOK, Joined
<1> QED BY <1>1, <1>2, <1>3, <1>4, <1>5, <1>6, <1>7, <1>8, <1>9, <1>10 DEF Inv

(* reading a chunk,                                                        *)
LEMMA FgetsInv ==
    ASSUME Inv, NEW t \in Threads, Fgets(t)
    PROVE  Inv'
<1> USE DEF Fgets
<1> DEFINE i == task[t]
<1>a. t \in Busy /\ i \in Tasks
  BY DEF Inv, InHand, Busy
<1>b. results[i] \in Seq(Nat) /\ Printed[i] \in Seq(Nat) /\ results \in [Tasks -> Seq(Nat)]
  BY <1>a, PoolAssumption DEF Inv, TypeOK, PoolAssumption
<1>c. /\ results'[i] = Append(results[i], Printed[i][Len(results[i]) + 1])
      /\ \A j \in Tasks : j # i => results'[j] = results[j]
      /\ results' \in [Tasks -> Seq(Nat)]
  <2> DEFINE longer == Append(results[i], Printed[i][Len(results[i]) + 1])
  <2>1. results' = [results EXCEPT ![i] = longer]
    OBVIOUS
  <2>2. longer \in Seq(Nat)
    <3> DEFINE m == Len(results[i])
               l == Len(Printed[i])
    <3>a. m \in Nat /\ l \in Nat
      BY <1>b
    <3>b. m < l
      OBVIOUS
    <3> HIDE DEF m, l
    <3>c. m + 1 \in 1 .. l
      BY <3>a, <3>b
    <3>1. Len(results[i]) + 1 \in 1 .. Len(Printed[i])
      BY <3>c DEF m, l
    <3>2. Printed[i][Len(results[i]) + 1] \in Nat
      BY <1>b, <3>1
    <3> QED BY <1>b, <3>2
  <2> HIDE DEF longer
  <2>3. /\ results'[i] = longer
        /\ \A j \in Tasks : j # i => results'[j] = results[j]
        /\ results' \in [Tasks -> Seq(Nat)]
    BY <1>a, <1>b, <2>1, <2>2
  <2> QED BY <2>3 DEF longer
<1>d. i \notin Queued /\ \A u \in Busy : task[u] = i => u = t
  BY <1>a DEF Inv, OneWriter
<1> HIDE DEF i
<1>1. TypeOK'
  BY <1>c DEF Inv, TypeOK
<1>2. MutexHeld'
  BY DEF Inv, TypeOK, MutexHeld
<1>3. FrontHeld'
  BY DEF Inv, TypeOK, FrontHeld
<1>4. NoneTwice'
  BY DEF Inv, TypeOK, NoneTwice
<1>5. InHand'
  BY DEF Inv, TypeOK, InHand, Busy
<1>6. OneWriter'
  BY DEF Inv, TypeOK, OneWriter, Busy, Queued
<1>7. Unwritten'
  <2>1. \A j \in Queued' : j \in Tasks /\ j # i /\ results[j] = << >>
    BY <1>d DEF Inv, Unwritten, Queued, TypeOK
  <2>2. \A u \in Threads : pc'[u] = "popen" =>
           task[u] \in Tasks /\ task[u] # i /\ results[task[u]] = << >>
    BY <1>d DEF Inv, Unwritten, Busy, InHand
  <2> QED BY <2>1, <2>2, <1>c DEF Unwritten
<1>8. ResultsOwn'
  <2>1. Ended' = Ended /\ i \notin Ended
    BY <1>a DEF Ended, Busy, Queued, i
  <2>2. ASSUME NEW j \in Tasks, j # i
        PROVE  /\ Len(results'[j]) <= Len(Printed[j])
               /\ \A k \in 1 .. Len(results'[j]) : results'[j][k] = Printed[j][k]
               /\ j \in Ended' => results'[j] \in {Printed[j], << >>}
    BY <2>1, <2>2, <1>c DEF Inv, ResultsOwn
  <2>3. /\ Len(results'[i]) <= Len(Printed[i])
        /\ \A k \in 1 .. Len(results'[i]) : results'[i][k] = Printed[i][k]
    <3>1. /\ Len(results[i]) < Len(Printed[i])
          /\ \A k \in 1 .. Len(results[i]) : results[i][k] = Printed[i][k]
      BY <1>a DEF Inv, ResultsOwn, i
    <3>2. results'[i] = Append(results[i], Printed[i][Len(results[i]) + 1])
      BY <1>c
    <3> DEFINE before == results[i]
               out == Printed[i]
               after == results'[i]
    <3>3. before \in Seq(Nat) /\ out \in Seq(Nat) /\ Len(before) < Len(out)
          /\ after = Append(before, out[Len(before) + 1])
      BY <1>b, <3>1, <3>2
    <3>4. \A k \in 1 .. Len(before) : before[k] = out[k]
      BY <3>1
    <3> HIDE DEF before, out, after
    <3>5. /\ Len(after) <= Len(out)
          /\ \A k \in 1 .. Len(after) : after[k] = out[k]
      BY <3>3, <3>4, OneChunkMore
    <3> QED BY <3>5 DEF before, out, after
  <2> QED BY <2>1, <2>2, <2>3 DEF ResultsOwn
<1>9. Leaving'
  BY DEF Inv, TypeOK, Leaving
<1>10. Joined'
  BY DEF Inv, TypeOK, Joined
<1> QED BY <1>1, <1>2, <1>3, <1>4, <1>5, <1>6, <1>7, <1>8, <1>9, <1>10 DEF Inv

(* When fgets has come to the end, the result is the whole output.         *)
LEMMA PcloseComplete ==
    ASSUME Inv, NEW t \in Threads, Pclose(t)
    PROVE  results[task[t]] = Printed[task[t]]
<1>1. task[t] \in Tasks
  BY DEF Inv, InHand, Busy, Pclose
<1>2. results[task[t]] \in Seq(Nat) /\ Printed[task[t]] \in Seq(Nat)
  BY <1>1, PoolAssumption DEF Inv, TypeOK, PoolAssumption
<1>3. /\ Len(results[task[t]]) = Len(Printed[task[t]])
      /\ \A k \in 1 .. Len(results[task[t]]) : results[task[t]][k] = Printed[task[t]][k]
  BY <1>1, <1>2 DEF Inv, ResultsOwn, Pclose
<1>4. ASSUME NEW r \in Seq(Nat), NEW p \in Seq(Nat), Len(r) = Len(p),
             \A k \in 1 .. Len(r) : r[k] = p[k]
      PROVE  r = p
  BY <1>4
<1> QED BY <1>2, <1>3, <1>4

(* and the end of a command.                                               *)
LEMMA PcloseInv ==
    ASSUME Inv, NEW t \in Threads, Pclose(t)
    PROVE  Inv'
<1> USE DEF Pclose
<1>1. TypeOK'
  BY DEF Inv, TypeOK
<1>2. MutexHeld'
  BY DEF Inv, TypeOK, MutexHeld
<1>3. FrontHeld'
  BY DEF Inv, TypeOK, FrontHeld
<1>4. NoneTwice'
  BY DEF Inv, TypeOK, NoneTwice
<1>5. InHand'
  BY DEF Inv, TypeOK, InHand, Busy
<1>6. OneWriter'
  BY DEF Inv, TypeOK, OneWriter, Busy, Queued
<1>7. Unwritten'
  BY DEF Inv, TypeOK, Unwritten, Queued
<1>8. ResultsOwn'
  <2>1. Busy' = Busy \ {t} /\ Queued' = Queued /\ t \in Busy
    BY DEF Busy, Queued, Inv, TypeOK
  <2>2. Ended' \subseteq Ended \cup {task[t]}
    BY <2>1 DEF Ended
  <2>3. results[task[t]] = Printed[task[t]]
    BY PcloseComplete
  <2> QED BY <2>2, <2>3 DEF Inv, ResultsOwn
<1>9. Leaving'
  BY DEF Inv, TypeOK, Leaving
<1>10. Joined'
  BY DEF Inv, TypeOK, Joined
<1> QED BY <1>1, <1>2, <1>3, <1>4, <1>5, <1>6, <1>7, <1>8, <1>9, <1>10 DEF Inv

(* Every step of the pool keeps the invariant.                             *)
LEMMA NextInv == Inv /\ [Next]_vars => Inv'
<1> SUFFICES ASSUME Inv, [Next]_vars PROVE Inv'
  OBVIOUS
<1>1. CASE Main
  BY <1>1, SpawnInv, SpawnDoneInv, JoinInv, JoinDoneInv DEF Main
<1>2. ASSUME NEW t \in Threads, Thread(t) PROVE Inv'
  BY <1>2, LockInv, ExitInv, FrontInv, PopFrontInv, PopenFailsInv, PopenInv, FgetsInv,
     PcloseInv DEF Thread
<1>3. CASE UNCHANGED vars
  BY <1>3 DEF vars, Inv, TypeOK, MutexHeld, FrontHeld, NoneTwice, InHand, OneWriter,
              Unwritten, ResultsOwn, Leaving, Joined, Ended, Busy, Queued
<1> QED BY <1>1, <1>2, <1>3 DEF Next

(* The invariant holds in every state of every execution.                  *)
THEOREM PoolInvariant == Spec => []Inv
<1> QED BY InitInv, NextInv, PTL DEF Spec

(* No two threads ever write the same slot of results, for any number of   *)
(* commands and threads.                                                   *)
THEOREM EachSlotOneWriter == Spec => []OneWriter
<1>1. Inv => OneWriter
  BY DEF Inv
<1> QED BY <1>1, PoolInvariant, PTL

(* A slot never holds anything but output of its own command.              *)
THEOREM SlotsHoldOwnOutput == Spec => []ResultsOwn
<1>1. Inv => ResultsOwn
  BY DEF Inv
<1> QED BY <1>1, PoolInvariant, PTL

(* When all threads have left, no command is queued or in hand: with       *)
(* commands to run there is a thread, and it only left an empty list.      *)
LEMMA AllEnded == Inv /\ (\A t \in Threads : pc[t] = "exit") => Ended = Tasks
<1> SUFFICES ASSUME Inv, \A t \in Threads : pc[t] = "exit" PROVE Ended = Tasks
  OBVIOUS
<1>1. Busy = {}
  BY DEF Busy
<1>2. CASE N = 0
  <2>1. Tasks = {}
    BY <1>2 DEF Tasks
  <2> QED BY <2>1 DEF Ended
<1>3. CASE N # 0
  <2>1. 1 \in Threads
    BY <1>3, PoolAssumption DEF PoolAssumption, Threads, threadCount
  <2>2. tasks = << >>
    BY <2>1 DEF Inv, Leaving
  <2>3. Queued = {}
    BY <2>2 DEF Queued
  <2> QED BY <1>1, <2>3 DEF Ended
<1> QED BY <1>2, <1>3

(* The joins leave nothing behind.                                         *)
THEOREM NothingLeftBehind == Spec => []ReturnedComplete
<1>1. Inv => ReturnedComplete
  BY AllEnded DEF Inv, Joined, ReturnedComplete
<1> QED BY <1>1, PoolInvariant, PTL

-----------------------------------------------------------------------------
(* The pool implements Executor. *)

ResultBar == [i \in Tasks |-> IF i \in Ended THEN results[i] ELSE << >>]

(* The initial states correspond.                                          *)
LEMMA InitImplements == Init => Promise!Init
<1> SUFFICES ASSUME Init PROVE Promise!Init
  OBVIOUS
<1>1. Ended = {}
  <2>1. \A k \in 1 .. N : tasks[k] = k
    BY DEF Init, Tasks
  <2>2. Len(tasks) = N
    BY PoolAssumption DEF Init, Tasks, PoolAssumption
  <2>3. Tasks \subseteq Queued
    BY <2>1, <2>2 DEF Queued, Tasks
  <2> QED BY <2>3 DEF Ended
<1>2. main # "done"
  BY DEF Init
<1> QED BY <1>1, <1>2 DEF Promise!Init

(* A command that ends is a Run of Executor.                               *)
LEMMA EndingRuns ==
    ASSUME Inv, NEW t \in Busy, results' = results, main' = main,
           Busy' = Busy \ {t}, Queued' = Queued, task' = task,
           results[task[t]] \in {Printed[task[t]], << >>}
    PROVE  Promise!Next
<1>0. PICK i \in Tasks : i = task[t]
  BY DEF Inv, InHand
<1>1. i \notin Queued /\ \A u \in Busy : task[u] = i => u = t
  BY <1>0 DEF Inv, OneWriter
<1>2. i \notin Ended /\ Ended' = Ended \cup {i}
  BY <1>0, <1>1 DEF Ended
<1>3. \A k \in Tasks : ResultBar'[k] = IF k = i THEN results[i] ELSE ResultBar[k]
  BY <1>2 DEF ResultBar
<1>4. ResultBar' = [ResultBar EXCEPT ![i] = results[i]]
  BY <1>3 DEF ResultBar
<1>5. ResultBar[i] = << >>
  BY <1>1, <1>2 DEF ResultBar
<1>6. CASE results[i] = Printed[i]
  <2>1. Promise!Run(i)
    BY <1>2, <1>4, <1>6 DEF Promise!Run, ResultBar
  <2> QED BY <1>1, <2>1 DEF Promise!Next
<1>7. CASE results[i] = << >>
  <2>1. ResultBar' = ResultBar
    BY <1>4, <1>5, <1>7 DEF ResultBar
  <2>2. Promise!Run(i)
    BY <1>2, <2>1 DEF Promise!Run, ResultBar
  <2> QED BY <1>1, <2>2 DEF Promise!Next
<1> QED BY <1>0, <1>6, <1>7

(* A step that ends no command and does not return is a stutter.           *)
LEMMA NothingSeen ==
    ASSUME Ended' = Ended, \A i \in Ended : results'[i] = results[i],
           (main' = "done") <=> (main = "done")
    PROVE  UNCHANGED <<Ended, ResultBar, main = "done">>
BY DEF ResultBar

(* Every step of the pool is a step of Executor or a stutter.              *)
LEMMA NextImplements ==
    Inv /\ Inv' /\ [Next]_vars => [Promise!Next]_<<Ended, ResultBar, main = "done">>
<1> SUFFICES ASSUME Inv, Inv', [Next]_vars
             PROVE  Promise!Next \/ UNCHANGED <<Ended, ResultBar, main = "done">>
  BY DEF ResultBar
<1>1. CASE Spawn
  <2>1. turn \in Threads /\ pc[turn] = "unborn"
    BY <1>1, ThreadNumbers DEF Spawn, Inv, TypeOK, Threads, Joined
  <2>2. Busy' = Busy /\ Queued' = Queued /\ task' = task /\ results' = results /\ main' = main
    BY <1>1, <2>1 DEF Spawn, Busy, Queued, Inv, TypeOK
  <2> QED BY <2>2, NothingSeen DEF Ended
<1>2. CASE SpawnDone \/ Join
  <2>1. Busy' = Busy /\ Queued' = Queued /\ task' = task /\ results' = results
    BY <1>2 DEF SpawnDone, Join, Busy, Queued
  <2>2. (main' = "done") <=> (main = "done")
    BY <1>2 DEF SpawnDone, Join
  <2> QED BY <2>1, <2>2, NothingSeen DEF Ended
<1>3. CASE JoinDone
  <2>1. Busy' = Busy /\ Queued' = Queued /\ task' = task /\ results' = results
    BY <1>3 DEF JoinDone, Busy, Queued
  <2>2. Ended' = Ended
    BY <2>1 DEF Ended
  <2>3. \A t \in Threads : pc[t] = "exit"
    BY <1>3 DEF JoinDone, Inv, TypeOK, Joined, Threads
  <2>4. Ended = Tasks
    BY <2>3, AllEnded
  <2>5. main # "done" /\ main' = "done"
    BY <1>3 DEF JoinDone
  <2>6. Promise!Return
    BY <2>1, <2>2, <2>4, <2>5 DEF Promise!Return
  <2> QED BY <2>6 DEF Promise!Next
<1>4. ASSUME NEW t \in Threads, Lock(t) \/ Exit(t) \/ Popen(t)
      PROVE  UNCHANGED <<Ended, ResultBar, main = "done">>
  <2>1. Busy' = Busy /\ Queued' = Queued /\ task' = task /\ results' = results /\ main' = main
    BY <1>4 DEF Lock, Exit, Popen, Busy, Queued, Inv, TypeOK
  <2> QED BY <2>1, NothingSeen DEF Ended
<1>5. ASSUME NEW t \in Threads, Front(t)
      PROVE  UNCHANGED <<Ended, ResultBar, main = "done">>
  <2>1. Busy' = Busy /\ Queued' = Queued /\ t \notin Busy /\ results' = results /\ main' = main
    BY <1>5 DEF Front, Busy, Queued, Inv, TypeOK
  <2>2. \A u \in Busy : task'[u] = task[u]
    BY <1>5, <2>1 DEF Front, Inv, TypeOK, Busy
  <2> QED BY <2>1, <2>2, NothingSeen DEF Ended
<1>6. ASSUME NEW t \in Threads, PopFront(t)
      PROVE  UNCHANGED <<Ended, ResultBar, main = "done">>
  <2>1. Busy' = Busy \cup {t} /\ task' = task /\ results' = results /\ main' = main
    BY <1>6 DEF PopFront, Busy, Inv, TypeOK
  <2>2. task[t] \in Queued /\ Queued' = Queued \ {task[t]}
    BY <1>6, PopFrontQueued
  <2>3. Ended' = Ended
    BY <2>1, <2>2 DEF Ended
  <2> QED BY <2>1, <2>3, NothingSeen
<1>7. ASSUME NEW t \in Threads, PopenFails(t) PROVE Promise!Next
  <2>1. /\ t \in Busy /\ results' = results /\ main' = main
        /\ Busy' = Busy \ {t} /\ Queued' = Queued /\ task' = task
    BY <1>7 DEF PopenFails, Busy, Queued, Inv, TypeOK
  <2>2. results[task[t]] = << >>
    BY <1>7 DEF PopenFails, Inv, Unwritten
  <2> QED BY <2>1, <2>2, EndingRuns
<1>8. ASSUME NEW t \in Threads, Fgets(t)
      PROVE  UNCHANGED <<Ended, ResultBar, main = "done">>
  <2>1. t \in Busy /\ Busy' = Busy /\ Queued' = Queued /\ task' = task /\ main' = main
    BY <1>8 DEF Fgets, Busy, Queued
  <2>2. Ended' = Ended /\ task[t] \notin Ended
    BY <2>1 DEF Ended
  <2>3. \A i \in Tasks : i # task[t] => results'[i] = results[i]
    BY <1>8 DEF Fgets, Inv, TypeOK
  <2>4. \A i \in Ended : results'[i] = results[i]
    BY <2>2, <2>3 DEF Ended
  <2> QED BY <2>1, <2>2, <2>4, NothingSeen
<1>9. ASSUME NEW t \in Threads, Pclose(t) PROVE Promise!Next
  <2>1. /\ t \in Busy /\ results' = results /\ main' = main
        /\ Busy' = Busy \ {t} /\ Queued' = Queued /\ task' = task
    BY <1>9 DEF Pclose, Busy, Queued, Inv, TypeOK
  <2>2. results[task[t]] = Printed[task[t]]
    BY <1>9, PcloseComplete
  <2> QED BY <2>1, <2>2, EndingRuns
<1>10. CASE UNCHANGED vars
  BY <1>10 DEF vars, Ended, Busy, Queued, ResultBar
<1> QED BY <1>1, <1>2, <1>3, <1>4, <1>5, <1>6, <1>7, <1>8, <1>9, <1>10
        DEF Next, Main, Thread

(* The pool implements the executor: every execution of any number of      *)
(* threads over any list of commands keeps the promise of Executor.        *)
THEOREM PoolImplementsExecutor == Spec => KeepsPromise
<1>1. Spec => []Inv
  BY PoolInvariant
<1>2. Inv /\ Inv' /\ [Next]_vars =>
        [Promise!Next]_<<Ended, [i \in Tasks |-> IF i \in Ended THEN results[i] ELSE << >>],
                         main = "done">>
  BY NextImplements DEF ResultBar
<1> QED BY <1>1, <1>2, InitImplements, PTL DEF Spec, KeepsPromise, Promise!Spec

-----------------------------------------------------------------------------
(* The loop implements Executor. *)

(***************************************************************************)
(* The inductive invariant of SequentialExecutor: what a command before    *)
(* loopTask has left is complete, or empty when it could not be started;   *)
(* the one at work has left a beginning, and the ones after it nothing.    *)
(***************************************************************************)
LoopTypeOK == /\ loopTask \in 1 .. N + 1
              /\ open \in BOOLEAN /\ returned \in BOOLEAN
              /\ loopResults \in [Tasks -> Seq(Nat)]
LoopInv == /\ LoopTypeOK
           /\ open => loopTask \in Tasks
           /\ \A k \in Tasks :
                 /\ Len(loopResults[k]) <= Len(Printed[k])
                 /\ \A m \in 1 .. Len(loopResults[k]) : loopResults[k][m] = Printed[k][m]
                 /\ k < loopTask => loopResults[k] \in {Printed[k], << >>}
                 /\ k > loopTask \/ (k = loopTask /\ ~open) => loopResults[k] = << >>

\* What Executor sees of the loop.
LoopEnded == 1 .. loopTask - 1
LoopBar == [k \in Tasks |-> IF k < loopTask THEN loopResults[k] ELSE << >>]
loopSeen == <<LoopEnded, LoopBar, returned>>

LEMMA LoopInitInv == Loop!Init => LoopInv
<1> SUFFICES ASSUME Loop!Init PROVE LoopInv
  OBVIOUS
<1>1. /\ loopTask = 1 /\ open = FALSE /\ returned = FALSE
      /\ loopResults = [k \in Tasks |-> << >>]
  BY DEF Loop!Init, Loop!Tasks, Tasks
<1>2. \A k \in Tasks : Printed[k] \in Seq(Nat) /\ loopResults[k] = << >> /\ k >= 1
  BY <1>1, PoolAssumption DEF PoolAssumption, Tasks
<1>3. LoopTypeOK
  <2>1. loopTask \in 1 .. N + 1
    BY <1>1, PoolAssumption DEF PoolAssumption
  <2>2. loopResults \in [Tasks -> Seq(Nat)]
    BY <1>1
  <2> QED BY <1>1, <2>1, <2>2 DEF LoopTypeOK
<1>4. \A k \in Tasks : Len(loopResults[k]) = 0 /\ Len(Printed[k]) \in Nat /\ ~(k < loopTask)
  BY <1>1, <1>2 DEF Tasks
<1> QED BY <1>1, <1>2, <1>3, <1>4 DEF LoopInv

\* fgets brings the next chunk of the command at work.
LEMMA LoopFgetsInv ==
  ASSUME LoopInv, Loop!Fgets
  PROVE  LoopInv' /\ UNCHANGED loopSeen
<1>1. PICK j : j = loopTask
  OBVIOUS
<1>2. /\ j \in Tasks /\ open = TRUE /\ loopResults \in [Tasks -> Seq(Nat)]
      /\ Len(loopResults[j]) < Len(Printed[j])
      /\ UNCHANGED <<loopTask, open, returned>>
      /\ loopResults' = [loopResults EXCEPT ![j] =
                           Append(loopResults[j], Printed[j][Len(loopResults[j]) + 1])]
  BY <1>1 DEF LoopInv, LoopTypeOK, Loop!Fgets
<1>3. /\ loopResults[j] \in Seq(Nat) /\ Printed[j] \in Seq(Nat)
      /\ Len(loopResults[j]) \in Nat /\ Len(Printed[j]) \in Nat
  BY <1>2, PoolAssumption DEF PoolAssumption
<1>4. PICK x \in Nat : x = Printed[j][Len(loopResults[j]) + 1]
  BY <1>2, <1>3
<1>5. /\ loopResults' \in [Tasks -> Seq(Nat)]
      /\ loopResults'[j] = Append(loopResults[j], x)
      /\ \A k \in Tasks : k # j => loopResults'[k] = loopResults[k]
  BY <1>2, <1>3, <1>4
<1>6. /\ Len(loopResults'[j]) <= Len(Printed[j])
      /\ \A m \in 1 .. Len(loopResults'[j]) : loopResults'[j][m] = Printed[j][m]
  <2>1. /\ Len(loopResults'[j]) = Len(loopResults[j]) + 1
        /\ \A m \in 1 .. Len(loopResults[j]) + 1 :
              loopResults'[j][m] = IF m = Len(loopResults[j]) + 1 THEN x ELSE loopResults[j][m]
    BY <1>3, <1>5
  <2>2. \A m \in 1 .. Len(loopResults[j]) : loopResults[j][m] = Printed[j][m]
    BY <1>2 DEF LoopInv
  <2> QED BY <2>1, <2>2, <1>2, <1>3, <1>4
<1>7. ASSUME NEW k \in Tasks
      PROVE  /\ Len(loopResults'[k]) <= Len(Printed[k])
             /\ \A m \in 1 .. Len(loopResults'[k]) : loopResults'[k][m] = Printed[k][m]
             /\ k < j => loopResults'[k] \in {Printed[k], << >>}
             /\ k > j => loopResults'[k] = << >>
  <2>1. CASE k = j
    BY <1>6, <2>1 DEF Tasks
  <2>2. CASE k # j
    BY <1>1, <1>5, <2>2 DEF LoopInv
  <2> QED BY <2>1, <2>2
<1>8. LoopInv'
  BY <1>1, <1>2, <1>5, <1>7 DEF LoopInv, LoopTypeOK
<1>9. LoopBar' = LoopBar
  <2>1. \A k \in Tasks : k < j => k # j
    BY DEF Tasks
  <2> QED BY <1>1, <1>2, <1>5, <2>1 DEF LoopBar
<1> QED BY <1>2, <1>8, <1>9 DEF loopSeen, LoopEnded

\* The end of command loopTask, whether it was started or not.
LEMMA LoopEnds ==
  ASSUME LoopInv, loopTask \in Tasks, loopTask' = loopTask + 1,
         open' = FALSE, UNCHANGED <<loopResults, returned>>,
         loopResults[loopTask] \in {Printed[loopTask], << >>}
  PROVE  LoopInv' /\ Loop!Promise!Next
<1>1. PICK j : j = loopTask
  OBVIOUS
<1>2. j \in Tasks /\ j \in Nat \ {0} /\ j <= N /\ N \in Nat /\ loopTask' = j + 1
  BY <1>1, PoolAssumption DEF Tasks, PoolAssumption
<1>3. LoopTypeOK'
  <2>1. loopTask' \in 1 .. N + 1
    BY <1>2
  <2>2. loopResults' \in [Tasks -> Seq(Nat)] /\ returned' \in BOOLEAN /\ open' \in BOOLEAN
    BY DEF LoopInv, LoopTypeOK
  <2> QED BY <2>1, <2>2 DEF LoopTypeOK
<1>4. \A k \in Tasks : /\ k < j + 1 => k < j \/ k = j
                       /\ k > j + 1 => k > j
                       /\ k = j + 1 => k > j
  BY <1>2 DEF Tasks
<1>5. LoopInv'
  BY <1>1, <1>2, <1>3, <1>4 DEF LoopInv
<1>6. LoopEnded' = LoopEnded \cup {j} /\ j \notin LoopEnded
  BY <1>1, <1>2 DEF LoopEnded
<1>7. LoopBar' = [LoopBar EXCEPT ![j] = loopResults[j]] /\ LoopBar[j] = << >>
  <2>1. \A k \in Tasks : LoopBar'[k] = IF k = j THEN loopResults[j] ELSE LoopBar[k]
    BY <1>1, <1>2, <1>4 DEF LoopBar, Tasks
  <2>2. LoopBar' = [k \in Tasks |-> LoopBar'[k]]
    BY DEF LoopBar
  <2>3. LoopBar = [k \in Tasks |-> LoopBar[k]] /\ LoopBar[j] = << >>
    BY <1>1, <1>2 DEF LoopBar
  <2> HIDE DEF LoopBar
  <2> QED BY <2>1, <2>2, <2>3
<1>8. loopResults[j] = Printed[j] \/ LoopBar' = LoopBar
  <2>1. ASSUME loopResults[j] = << >> PROVE LoopBar' = LoopBar
    BY <1>7, <2>1 DEF LoopBar
  <2> QED BY <1>1, <2>1
<1>9. Loop!Promise!Run(j)
  BY <1>6, <1>7, <1>8
     DEF Loop!Promise!Run, LoopEnded, LoopBar, Loop!Tasks, Tasks
<1> QED BY <1>2, <1>5, <1>9 DEF Loop!Promise!Next, Loop!Tasks, Tasks

\* Every step of the loop keeps the invariant and is one of Executor, or
\* nothing to be seen.
LEMMA LoopSteps ==
  LoopInv /\ [Loop!Next]_loopVars => LoopInv' /\ [Loop!Promise!Next]_loopSeen
<1> SUFFICES ASSUME LoopInv, [Loop!Next]_loopVars
             PROVE  LoopInv' /\ (Loop!Promise!Next \/ UNCHANGED loopSeen)
  OBVIOUS
<1>0. N \in Nat /\ \A k \in Tasks : Printed[k] \in Seq(Nat)
  BY PoolAssumption DEF PoolAssumption
<1>1. CASE Loop!PopenFails
  <2>1. loopTask \in Tasks /\ open = FALSE
    BY <1>0, <1>1 DEF Loop!PopenFails, LoopInv, LoopTypeOK, Tasks
  <2>2. loopResults[loopTask] = << >>
    BY <2>1 DEF LoopInv
  <2> QED BY <1>1, <2>1, <2>2, LoopEnds DEF Loop!PopenFails
<1>2. CASE Loop!Popen
  <2>1. loopTask \in Tasks
    BY <1>0, <1>2 DEF Loop!Popen, LoopInv, LoopTypeOK, Tasks
  <2>2. LoopInv'
    BY <1>2, <2>1 DEF Loop!Popen, LoopInv, LoopTypeOK
  <2>3. LoopBar' = LoopBar /\ LoopEnded' = LoopEnded
    BY <1>2 DEF Loop!Popen, LoopBar, LoopEnded
  <2>4. UNCHANGED loopSeen
    BY <1>2, <2>3 DEF Loop!Popen, loopSeen
  <2> QED BY <2>2, <2>4
<1>3. CASE Loop!Fgets
  BY <1>3, LoopFgetsInv
<1>4. CASE Loop!Pclose
  <2>1. loopTask \in Tasks /\ loopResults[loopTask] \in Seq(Nat)
    BY <1>4 DEF Loop!Pclose, LoopInv, LoopTypeOK
  <2>2. /\ Len(loopResults[loopTask]) = Len(Printed[loopTask])
        /\ \A m \in 1 .. Len(loopResults[loopTask]) :
              loopResults[loopTask][m] = Printed[loopTask][m]
    <3>1. Len(loopResults[loopTask]) \in Nat /\ Len(Printed[loopTask]) \in Nat
      BY <1>0, <2>1
    <3>2. Len(loopResults[loopTask]) <= Len(Printed[loopTask])
          /\ Len(loopResults[loopTask]) >= Len(Printed[loopTask])
      BY <1>4, <2>1 DEF Loop!Pclose, LoopInv
    <3> QED BY <2>1, <3>1, <3>2 DEF LoopInv
  <2>3. loopResults[loopTask] = Printed[loopTask]
    <3>1. Printed[loopTask] \in Seq(Nat)
      BY <1>0, <2>1
    <3> QED BY <2>1, <2>2, <3>1, SamePrinted
  <2>4. /\ open /\ open' = FALSE /\ loopTask' = loopTask + 1
        /\ UNCHANGED <<loopResults, returned>>
    BY <1>4 DEF Loop!Pclose
  <2>5. loopResults[loopTask] \in {Printed[loopTask], << >>}
    BY <2>3
  <2>6. LoopInv' /\ Loop!Promise!Next
    BY <2>1, <2>4, <2>5, LoopEnds
  <2> QED BY <2>6
<1>5. CASE Loop!getResults
  <2>1. loopTask = N + 1 /\ returned = FALSE /\ returned' = TRUE
        /\ UNCHANGED <<loopTask, open, loopResults>>
    BY <1>0, <1>5 DEF Loop!getResults, LoopInv, LoopTypeOK
  <2>2. LoopInv'
    BY <2>1 DEF LoopInv, LoopTypeOK
  <2>3. LoopEnded = Tasks
    BY <1>0, <2>1 DEF LoopEnded, Tasks
  <2>4. LoopBar' = LoopBar /\ LoopEnded' = LoopEnded
    BY <2>1 DEF LoopBar, LoopEnded
  <2>5. Loop!Promise!Return
    BY <2>1, <2>3, <2>4
       DEF Loop!Promise!Return, LoopEnded, LoopBar, Loop!Tasks, Tasks
  <2> QED BY <2>2, <2>5 DEF Loop!Promise!Next
<1>6. CASE UNCHANGED loopVars
  BY <1>6 DEF loopVars, LoopInv, LoopTypeOK, loopSeen, LoopEnded, LoopBar
<1> QED BY <1>1, <1>2, <1>3, <1>4, <1>5, <1>6 DEF Loop!Next

LEMMA LoopInitImplements == Loop!Init => Loop!Promise!Init
<1> SUFFICES ASSUME Loop!Init PROVE Loop!Promise!Init
  OBVIOUS
<1>1. loopTask = 1 /\ returned = FALSE
  BY DEF Loop!Init
<1>2. \A k \in Loop!Tasks : ~(k < loopTask)
  BY <1>1 DEF Loop!Tasks
<1>3. 1 .. loopTask - 1 = {}
  BY <1>1
<1> QED BY <1>1, <1>2, <1>3 DEF Loop!Promise!Init

(* The loop over any commands, with ones that cannot be started in any     *)
(* place, keeps the promise of Executor.                                   *)
THEOREM LoopImplementsExecutor == Loop!Spec => LoopKeepsPromise
<1>1. LoopInv /\ [Loop!Next]_Loop!vars =>
        LoopInv' /\ [Loop!Promise!Next]_<<1 .. loopTask - 1,
                       [k \in Loop!Tasks |-> IF k < loopTask THEN loopResults[k] ELSE << >>],
                       returned>>
  BY LoopSteps DEF loopSeen, LoopEnded, LoopBar, Loop!Tasks, Tasks, Loop!vars, loopVars
<1> QED BY <1>1, LoopInitInv, LoopInitImplements, PTL
        DEF Loop!Spec, LoopKeepsPromise, Loop!KeepsPromise, Loop!Promise!Spec

-----------------------------------------------------------------------------
(* Either of the two. *)

\* The pool when it is the executor in use, or a pool nobody uses.
LEMMA EitherIsPool == SpecEither => Spec
<1>1. [NextEither]_<<pool, vars, loopVars>> => [Next]_vars
  BY DEF NextEither, OnPool, OnLoop, vars
<1> QED BY <1>1, PTL DEF SpecEither, InitEither, Spec

LEMMA EitherIsLoop == SpecEither => Loop!Spec
<1>1. [NextEither]_<<pool, vars, loopVars>> => [Loop!Next]_Loop!vars
  BY DEF NextEither, OnPool, OnLoop, loopVars, Loop!vars
<1> QED BY <1>1, PTL DEF SpecEither, InitEither, Loop!Spec

(* Whichever executor the caller uses, its promise is kept.                *)
THEOREM EitherKeepsPromise == SpecEither => KeepsPromise /\ LoopKeepsPromise
<1> QED BY EitherIsPool, EitherIsLoop, PoolImplementsExecutor, LoopImplementsExecutor, PTL

(* And no slot of the pool's results has two writers or another's output.  *)
THEOREM EitherSlotsOwn == SpecEither => []OneWriter /\ []ResultsOwn
<1> QED BY EitherIsPool, EachSlotOneWriter, SlotsHoldOwnOutput, PTL
=============================================================================
