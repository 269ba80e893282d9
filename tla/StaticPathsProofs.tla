-------------------------- MODULE StaticPathsProofs --------------------------
(***************************************************************************)
(* The search of dfsWithoutLoops is sound and complete on every graph, the *)
(* ones with cycles included (on which it need not end): what it finds are *)
(* executions, and when it ends it has found every execution but the one   *)
(* of a function with a single block.  Without cycles, and with one edge   *)
(* from a block to another, the mask of a path identifies it.              *)
(***************************************************************************)
EXTENDS StaticPaths, SequenceTheorems, FiniteSetTheorems, TLAPS

-----------------------------------------------------------------------------
(* Sequences of any elements.                                              *)

LEMMA OneElement ==
  ASSUME NEW S, NEW e \in S
  PROVE  <<e>> \in Seq(S) /\ Len(<<e>>) = 1 /\ <<e>>[1] = e
<1> QED OBVIOUS

LEMMA Appended ==
  ASSUME NEW S, NEW s \in Seq(S), NEW e \in S
  PROVE  /\ Append(s, e) \in Seq(S)
         /\ Len(Append(s, e)) = Len(s) + 1
         /\ Append(s, e)[Len(s) + 1] = e
         /\ \A n \in 1 .. Len(s) : Append(s, e)[n] = s[n]
<1> QED OBVIOUS

LEMMA WithoutLast ==
  ASSUME NEW S, NEW s \in Seq(S), s # << >>
  PROVE  /\ Len(s) \in Nat \ {0}
         /\ s[Len(s)] \in S
         /\ SubSeq(s, 1, Len(s) - 1) \in Seq(S)
         /\ Len(SubSeq(s, 1, Len(s) - 1)) = Len(s) - 1
         /\ \A n \in 1 .. Len(s) - 1 : SubSeq(s, 1, Len(s) - 1)[n] = s[n]
<1>1. Len(s) \in Nat \ {0}
  OBVIOUS
<1>2. s[Len(s)] \in S
  BY <1>1
<1>3. \A n \in 1 .. Len(s) - 1 : s[n] \in S
  BY <1>1
<1>4. PICK n \in Int : n = Len(s) - 1
  BY <1>1
<1>5. \A i \in 1 .. n : s[i] \in S
  BY <1>3, <1>4
<1>6. /\ SubSeq(s, 1, n) \in Seq(S)
      /\ Len(SubSeq(s, 1, n)) = IF 1 <= n THEN n - 1 + 1 ELSE 0
      /\ \A i \in 1 .. n - 1 + 1 : SubSeq(s, 1, n)[i] = s[1 + i - 1]
  BY <1>5, SubSeqProperties
<1>7. /\ Len(SubSeq(s, 1, n)) = n
      /\ \A i \in 1 .. n : SubSeq(s, 1, n)[i] = s[i]
  BY <1>1, <1>4, <1>6
<1> QED BY <1>1, <1>2, <1>4, <1>6, <1>7

-----------------------------------------------------------------------------
(* Type correctness.                                                       *)

LEMMA TopOfStack ==
  ASSUME TypeOK, stack # << >>
  PROVE  /\ Len(stack) \in Nat \ {0}
         /\ LastOf(stack) \in Seq(Blocks) \ {<< >>}
         /\ SubSeq(stack, 1, Len(stack) - 1) \in Seq(Seq(Blocks))
         /\ Len(SubSeq(stack, 1, Len(stack) - 1)) = Len(stack) - 1
         /\ \A n \in 1 .. Len(stack) - 1 : SubSeq(stack, 1, Len(stack) - 1)[n] = stack[n]
<1>1. stack \in Seq(Seq(Blocks)) /\ << >> \notin Waiting
  BY DEF TypeOK
<1>2. Len(stack) \in Nat \ {0}
  BY <1>1, stack # << >>
<1>3. LastOf(stack) \in Seq(Blocks) /\ LastOf(stack) \in Waiting
  BY <1>1, <1>2 DEF LastOf, Waiting
<1>4. << >> # LastOf(stack)
  BY <1>1, <1>3
<1> HIDE DEF Waiting, TypeOK
<1> DEFINE S == Seq(Blocks)
<1>5. stack \in Seq(S)
  BY <1>1
<1> HIDE DEF S
<1>6. /\ SubSeq(stack, 1, Len(stack) - 1) \in Seq(S)
      /\ Len(SubSeq(stack, 1, Len(stack) - 1)) = Len(stack) - 1
      /\ \A n \in 1 .. Len(stack) - 1 : SubSeq(stack, 1, Len(stack) - 1)[n] = stack[n]
  BY <1>5, stack # << >>, WithoutLast
<1> QED BY <1>2, <1>3, <1>4, <1>6 DEF S

LEMMA Neighbor ==
  ASSUME TypeOK, currentPath # << >>, k <= Len(edges[LastOf(currentPath)])
  PROVE  /\ Len(currentPath) \in Nat \ {0}
         /\ LastOf(currentPath) \in Blocks
         /\ edges[LastOf(currentPath)] \in Seq(Blocks)
         /\ k \in 1 .. Len(edges[LastOf(currentPath)])
         /\ edges[LastOf(currentPath)][k] \in Blocks
<1>1. currentPath \in Seq(Blocks) /\ edges \in [Blocks -> Seq(Blocks)] /\ k \in Nat \ {0}
  BY DEF TypeOK
<1>2. Len(currentPath) \in Nat \ {0}
  BY <1>1, currentPath # << >>
<1>3. LastOf(currentPath) \in Blocks
  BY <1>1, <1>2 DEF LastOf
<1>4. edges[LastOf(currentPath)] \in Seq(Blocks)
  BY <1>1, <1>3
<1>5. k \in 1 .. Len(edges[LastOf(currentPath)])
  BY <1>1, <1>4, k <= Len(edges[LastOf(currentPath)])
<1>6. edges[LastOf(currentPath)][k] \in Blocks
  BY <1>4, <1>5
<1> QED BY <1>2, <1>3, <1>4, <1>5, <1>6

LEMMA InitTyped == Init => TypeOK
<1> SUFFICES ASSUME Init PROVE TypeOK
  OBVIOUS
<1>1. edges \in [Blocks -> Seq(Blocks)]
  BY GraphAssumption DEF Init
<1>2. <<0>> \in Seq(Blocks)
  BY GraphAssumption
<1>3. stack \in Seq(Seq(Blocks)) /\ << >> \notin Waiting
  <2>1. stack = <<<<0>>>>
    BY DEF Init
  <2>2. stack \in Seq(Seq(Blocks)) /\ Len(stack) = 1 /\ stack[1] = <<0>>
    BY <1>2, <2>1, OneElement
  <2> QED BY <2>2 DEF Waiting
<1>4. pathIdMap \in [SUBSET Blocks -> Int]
  BY DEF Init
<1> QED BY <1>1, <1>3, <1>4 DEF Init, TypeOK

LEMMA StepTyped == TypeOK /\ [Next]_vars => TypeOK'
<1> SUFFICES ASSUME TypeOK, [Next]_vars PROVE TypeOK'
  OBVIOUS
<1>1. CASE Pop
  <2>1. stack # << >>
    BY <1>1 DEF Pop
  <2>2. currentPath' \in Seq(Blocks) /\ stack' \in Seq(Seq(Blocks))
    BY <1>1, <2>1, TopOfStack DEF Pop
  <2>3. << >> \notin Waiting'
    BY <1>1, <2>1, TopOfStack DEF Pop, Waiting, TypeOK
  <2> QED BY <1>1, <2>2, <2>3 DEF Pop, TypeOK
<1>2. CASE Extend
  <2> DEFINE b == edges[LastOf(currentPath)][k]
  <2>1. b \in Blocks
    BY <1>2, Neighbor DEF Extend
  <2> DEFINE q == Append(currentPath, b)
             S == Seq(Blocks)
  <2>2. q \in S /\ q # << >>
    <3>1. currentPath \in Seq(Blocks)
      BY DEF TypeOK
    <3>2. q \in Seq(Blocks) /\ Len(q) = Len(currentPath) + 1 /\ Len(currentPath) \in Nat
      BY <2>1, <3>1, Appended
    <3> QED BY <3>2
  <2>t. /\ stack \in Seq(S) /\ allPaths \in Seq(S)
        /\ paths' = paths /\ paths \in Seq(S) /\ Len(paths) <= Len(allPaths)
    BY <1>2 DEF Extend, TypeOK
  <2>u. /\ stack' = stack \/ stack' = Append(stack, q)
        /\ allPaths' = allPaths \/ allPaths' = Append(allPaths, q)
    BY <1>2 DEF Extend
  <2>v. << >> \notin {stack[n] : n \in 1 .. Len(stack)}
    BY DEF TypeOK, Waiting
  <2> HIDE DEF q, S
  <2>w. /\ Append(allPaths, q) \in Seq(S)
        /\ Append(stack, q) \in Seq(S)
        /\ Len(Append(allPaths, q)) = Len(allPaths) + 1
    BY <2>2, <2>t, Appended
  <2>3. allPaths' \in Seq(S) /\ Len(paths') <= Len(allPaths')
    <3>1. Len(paths) \in Nat /\ Len(allPaths) \in Nat
      BY <2>t
    <3>2. Len(paths) <= Len(allPaths')
      BY <2>t, <2>u, <2>w, <3>1
    <3> QED BY <2>t, <2>u, <2>w, <3>2
  <2>4. stack' \in Seq(S)
    BY <2>t, <2>u, <2>w
  <2>5. << >> \notin Waiting'
    <3>1. CASE stack' = stack
      BY <2>v, <3>1 DEF Waiting
    <3>2. CASE stack' = Append(stack, q)
      <4>1. ASSUME NEW n \in 1 .. Len(stack') PROVE stack'[n] # << >>
        BY <2>2, <2>t, <2>v, <3>2, Appended
      <4> QED BY <4>1 DEF Waiting
    <3> QED BY <2>u, <3>1, <3>2
  <2>6. k' \in Nat \ {0}
    BY <1>2 DEF Extend, TypeOK
  <2> QED BY <1>2, <2>3, <2>4, <2>5, <2>6 DEF Extend, TypeOK, S
<1>3. CASE Extended
  BY <1>3 DEF Extended, TypeOK, Waiting
<1>4. CASE AddPath
  <2> DEFINE p == allPaths[Len(paths) + 1]
  <2>1. p \in Seq(Blocks)
    BY <1>4 DEF AddPath, TypeOK
  <2>2. paths' \in Seq(Seq(Blocks)) /\ Len(paths') <= Len(allPaths')
    BY <1>4, <2>1 DEF AddPath, TypeOK
  <2>3. Len(paths) \in Int
    BY DEF TypeOK
  <2>4. pathIdMap' \in [SUBSET Blocks -> Int]
    BY <1>4, <2>3 DEF AddPath, TypeOK
  <2> QED BY <1>4, <2>2, <2>4 DEF AddPath, TypeOK, Waiting
<1>5. CASE UNCHANGED vars
  BY <1>5 DEF vars, TypeOK, Waiting
<1> QED BY <1>1, <1>2, <1>3, <1>4, <1>5 DEF Next

(* The variables of the search keep to their types.                        *)
THEOREM TypeCorrect == Spec => []TypeOK
<1> QED BY InitTyped, StepTyped, PTL DEF Spec

-----------------------------------------------------------------------------
(* Soundness.                                                              *)

LEMMA SameGraph ==
  ASSUME NEW s, edges' = edges
  PROVE  /\ IsPath(s)' <=> IsPath(s)
         /\ IsExecution(s)' <=> IsExecution(s)
<1> QED BY edges' = edges DEF IsPath, IsExecution, Succ

LEMMA NextKeepsGraph == [Next]_vars => edges' = edges
<1> QED BY DEF Next, vars, Pop, Extend, Extended, AddPath

LEMMA PathGrows ==
  ASSUME TypeOK, currentPath # << >>, k <= Len(edges[LastOf(currentPath)]),
         IsPath(currentPath)
  PROVE  LET q == Append(currentPath, edges[LastOf(currentPath)][k])
         IN  IsPath(q) /\ Len(q) > 1 /\ LastOf(q) = edges[LastOf(currentPath)][k]
<1> DEFINE b == edges[LastOf(currentPath)][k]
           q == Append(currentPath, b)
<1>1. Len(currentPath) \in Nat \ {0} /\ b \in Blocks /\ b \in Succ(LastOf(currentPath))
  BY Neighbor DEF Succ
<1>2. currentPath \in Seq(Blocks)
  BY DEF TypeOK
<1>3. /\ q \in Seq(Blocks)
      /\ Len(q) = Len(currentPath) + 1
      /\ q[Len(currentPath) + 1] = b
      /\ \A n \in 1 .. Len(currentPath) : q[n] = currentPath[n]
  BY <1>1, <1>2
<1>4. q # << >> /\ q[1] = 0
  BY <1>1, <1>3 DEF IsPath
<1>5. ASSUME NEW n \in 1 .. Len(q) - 1
      PROVE  q[n + 1] \in Succ(q[n])
  <2>1. CASE n = Len(currentPath)
    BY <1>1, <1>3, <2>1 DEF LastOf
  <2>2. CASE n # Len(currentPath)
    <3>1. n \in 1 .. Len(currentPath) - 1
      BY <1>1, <1>3, <2>2
    <3>2. q[n] = currentPath[n] /\ q[n + 1] = currentPath[n + 1]
      BY <1>1, <1>3, <3>1
    <3> QED BY <3>1, <3>2 DEF IsPath
  <2> QED BY <2>1, <2>2
<1> QED BY <1>1, <1>3, <1>4, <1>5 DEF IsPath, LastOf

(* OnlyExecutions, stated for one path at a time.                          *)
Open(s) == IsPath(s) /\ (Len(s) > 1 => edges[LastOf(s)] # << >>)
Sound == /\ \A s \in Waiting : Open(s)
         /\ currentPath # << >> => Open(currentPath)
         /\ \A s \in Found : IsExecution(s)

LEMMA InitSound == Init => Sound
<1> SUFFICES ASSUME Init PROVE Sound
  OBVIOUS
<1>1. Waiting = {<<0>>} /\ Found = {} /\ currentPath = << >>
  BY DEF Init, Waiting, Found
<1>2. Open(<<0>>)
  BY DEF Open, IsPath
<1> QED BY <1>1, <1>2 DEF Sound

LEMMA StepSound == TypeOK /\ Sound /\ [Next]_vars => Sound'
<1> SUFFICES ASSUME TypeOK, Sound, [Next]_vars PROVE Sound'
  OBVIOUS
<1>g. edges' = edges
  BY NextKeepsGraph
<1>o. ASSUME NEW s PROVE Open(s)' <=> Open(s)
  BY <1>g, SameGraph DEF Open
<1>x. ASSUME NEW s PROVE IsExecution(s)' <=> IsExecution(s)
  BY <1>g, SameGraph
<1>1. CASE Pop
  <2>1. stack # << >>
    BY <1>1 DEF Pop
  <2>2. LastOf(stack) \in Waiting /\ Waiting' \subseteq Waiting
    BY <1>1, <2>1, TopOfStack DEF Pop, Waiting, LastOf
  <2>3. Found' = Found
    BY <1>1 DEF Pop, Found
  <2>4. Open(LastOf(stack))
    BY <2>2 DEF Sound
  <2>6. Open(currentPath)'
    BY <1>1, <1>g, <2>4 DEF Pop, Open, IsPath, Succ, LastOf
  <2>7. \A s \in Waiting' : Open(s)'
    BY <1>o, <2>2 DEF Sound
  <2>8. \A s \in Found' : IsExecution(s)'
    BY <1>x, <2>3 DEF Sound
  <2> QED BY <2>6, <2>7, <2>8 DEF Sound
<1>2. CASE Extend
  <2> DEFINE b == edges[LastOf(currentPath)][k]
             q == Append(currentPath, b)
  <2>1. IsPath(q) /\ Len(q) > 1 /\ LastOf(q) = b
    BY <1>2, PathGrows DEF Extend, Sound, Open
  <2>2. Open(currentPath)'
    BY <1>2, <1>g DEF Extend, Sound, Open, IsPath, Succ, LastOf
  <2>3. stack \in Seq(Seq(Blocks)) /\ allPaths \in Seq(Seq(Blocks))
    BY DEF TypeOK
  <2>4. CASE edges[b] = << >>
    <3>1. IsExecution(q)
      BY <2>1, <2>4 DEF IsExecution
    <3>2. allPaths' = Append(allPaths, q) /\ stack' = stack
      BY <1>2, <2>4 DEF Extend, isExit
    <3>3. Waiting' = Waiting /\ Found' \subseteq Found \cup {q}
      BY <2>3, <3>2 DEF Waiting, Found
    <3>4. \A s \in Waiting' : Open(s)'
      BY <1>o, <3>3 DEF Sound
    <3>5. \A s \in Found' : IsExecution(s)'
      BY <1>x, <3>1, <3>3 DEF Sound
    <3> QED BY <2>2, <3>4, <3>5 DEF Sound
  <2>5. CASE edges[b] # << >>
    <3>1. Open(q)
      BY <2>1, <2>5 DEF Open
    <3>2. stack' = Append(stack, q) /\ allPaths' = allPaths
      BY <1>2, <2>5 DEF Extend, isExit
    <3>3. Waiting' \subseteq Waiting \cup {q} /\ Found' = Found
      BY <2>3, <3>2 DEF Waiting, Found
    <3>4. \A s \in Waiting' : Open(s)'
      BY <1>o, <3>1, <3>3 DEF Sound
    <3>5. \A s \in Found' : IsExecution(s)'
      BY <1>x, <3>3 DEF Sound
    <3> QED BY <2>2, <3>4, <3>5 DEF Sound
  <2> QED BY <2>4, <2>5
<1>3. CASE Extended
  <2>1. Waiting' = Waiting /\ Found' = Found /\ currentPath' = << >>
    BY <1>3 DEF Extended, Waiting, Found
  <2> QED BY <1>o, <1>x, <2>1 DEF Sound
<1>4. CASE AddPath
  <2>1. Waiting' = Waiting /\ Found' = Found /\ currentPath' = currentPath
    BY <1>4 DEF AddPath, Waiting, Found
  <2>2. currentPath = << >>
    BY <1>4 DEF AddPath, searched
  <2> QED BY <1>o, <1>x, <2>1, <2>2 DEF Sound
<1>5. CASE UNCHANGED vars
  <2>1. Waiting' = Waiting /\ Found' = Found /\ currentPath' = currentPath
    BY <1>5 DEF vars, Waiting, Found
  <2>2. currentPath # << >> => Open(currentPath)'
    BY <1>5 DEF vars, Sound, Open, IsPath, Succ, LastOf
  <2> QED BY <1>o, <1>x, <2>1, <2>2 DEF Sound
<1> QED BY <1>1, <1>2, <1>3, <1>4, <1>5 DEF Next

(* dfsWithoutLoops returns executions only: no path runs along an edge     *)
(* that is not there or stops half way.                                    *)
THEOREM FindsExecutionsOnly == Spec => []OnlyExecutions
<1>1. Sound => OnlyExecutions
  BY DEF Sound, Open, OnlyExecutions
<1> QED BY <1>1, InitTyped, StepTyped, InitSound, StepSound, PTL DEF Spec

-----------------------------------------------------------------------------
(* Completeness.                                                           *)

\* The search has yet to extend the path in work towards s.
Pending(s) == /\ currentPath # << >>
              /\ Reaches(currentPath, s)
              /\ \E n \in k .. Len(edges[LastOf(currentPath)]) :
                    edges[LastOf(currentPath)][n] = s[Len(currentPath) + 1]
Kept(s) == s \in Found \/ (\E p \in Waiting : Reaches(p, s)) \/ Pending(s)

LEMMA PendingNeighbor ==
  ASSUME TypeOK, NEW p \in Seq(Blocks), p # << >>, NEW s \in Seq(Blocks),
         IsExecution(s), Reaches(p, s)
  PROVE  \E m \in 1 .. Len(edges[LastOf(p)]) : edges[LastOf(p)][m] = s[Len(p) + 1]
<1>1. Len(p) \in Nat \ {0} /\ Len(s) \in Nat /\ Len(p) < Len(s)
  BY DEF Reaches
<1>2. s[Len(p)] = LastOf(p)
  BY <1>1 DEF Reaches, BeginsWith, LastOf
<1>3. s[Len(p) + 1] \in Succ(s[Len(p)])
  BY <1>1 DEF IsExecution, IsPath
<1> QED BY <1>2, <1>3 DEF Succ

\* The next block of s brings the search to the end of s, or further on.
LEMMA OneBlockOn ==
  ASSUME TypeOK, NEW p \in Seq(Blocks), p # << >>, NEW s \in Seq(Blocks),
         IsExecution(s), Reaches(p, s), NEW b \in Blocks, b = s[Len(p) + 1]
  PROVE  IF edges[b] = << >> THEN s = Append(p, b) ELSE Reaches(Append(p, b), s)
<1> DEFINE q == Append(p, b)
<1>1. Len(p) \in Nat \ {0} /\ Len(s) \in Nat /\ Len(p) < Len(s)
  BY DEF Reaches
<1>2. /\ q \in Seq(Blocks)
      /\ Len(q) = Len(p) + 1
      /\ q[Len(p) + 1] = b
      /\ \A n \in 1 .. Len(p) : q[n] = p[n]
  BY Appended
<1>3. \A n \in 1 .. Len(q) : s[n] = q[n]
  BY <1>1, <1>2 DEF Reaches, BeginsWith
<1>4. CASE edges[b] = << >>
  <2>1. Succ(b) = {}
    BY <1>4 DEF Succ
  <2>2. Len(s) = Len(q)
    <3>1. SUFFICES ASSUME Len(s) # Len(q) PROVE FALSE
      OBVIOUS
    <3>2. Len(p) + 1 \in 1 .. Len(s) - 1
      BY <1>1, <1>2, <3>1
    <3>3. s[Len(p) + 1 + 1] \in Succ(s[Len(p) + 1])
      BY <3>2 DEF IsExecution, IsPath
    <3> QED BY <2>1, <3>3
  <2>3. s = q
    BY <1>2, <1>3, <2>2, SeqEqual
  <2> QED BY <1>4, <2>3
<1>5. CASE edges[b] # << >>
  <2>1. Len(s) # Len(q)
    BY <1>2, <1>5 DEF IsExecution, LastOf
  <2>2. Len(q) < Len(s)
    BY <1>1, <1>2, <2>1
  <2> HIDE DEF q
  <2>3. Reaches(q, s)
    BY <1>1, <1>2, <1>3, <2>2 DEF Reaches, BeginsWith
  <2> QED BY <1>5, <2>3 DEF q
<1> QED BY <1>4, <1>5

LEMMA InitKept ==
  ASSUME Init, NEW s \in Seq(Blocks), IsExecution(s), Len(s) > 1
  PROVE  Kept(s)
<1>1. Waiting = {<<0>>}
  BY DEF Init, Waiting
<1>2. s[1] = 0
  BY DEF IsExecution, IsPath
<1>3. Len(<<0>>) = 1 /\ \A n \in 1 .. 1 : <<0>>[n] = 0
  OBVIOUS
<1>4. Reaches(<<0>>, s)
  BY <1>2, <1>3, Len(s) > 1 DEF Reaches, BeginsWith
<1> QED BY <1>1, <1>4 DEF Kept

LEMMA StepKept ==
  ASSUME TypeOK, [Next]_vars, NEW s \in Seq(Blocks), IsExecution(s), Kept(s)
  PROVE  Kept(s)'
<1>g. edges' = edges
  BY NextKeepsGraph
<1>1. CASE Pop
  <2>1. stack # << >> /\ currentPath = << >>
    BY <1>1 DEF Pop
  <2>2. Found' = Found
    BY <1>1 DEF Pop, Found
  <2>3. ASSUME NEW n \in 1 .. Len(stack), Reaches(stack[n], s)
        PROVE  Kept(s)'
    <3>1. CASE n < Len(stack)
      <4>1. n \in 1 .. Len(stack') /\ stack'[n] = stack[n]
        BY <1>1, <2>1, <3>1, TopOfStack DEF Pop
      <4>2. stack[n] \in Waiting'
        BY <4>1 DEF Waiting
      <4> QED BY <2>3, <4>2 DEF Kept, Reaches, BeginsWith
    <3>2. CASE ~(n < Len(stack))
      <4>1. n = Len(stack)
        BY <2>1, <3>2, TopOfStack
      <4>2. PICK p : p = stack[n]
        OBVIOUS
      <4>3. p \in Seq(Blocks) \ {<< >>} /\ currentPath' = p /\ k' = 1
        BY <1>1, <2>1, <4>1, <4>2, TopOfStack DEF Pop, LastOf
      <4>4. Reaches(p, s)
        BY <2>3, <4>2
      <4>5. \E m \in 1 .. Len(edges[LastOf(p)]) : edges[LastOf(p)][m] = s[Len(p) + 1]
        BY <4>3, <4>4, PendingNeighbor
      <4>6. Reaches(currentPath, s)'
        BY <4>3, <4>4 DEF Reaches, BeginsWith
      <4>7. Pending(s)'
        BY <1>g, <4>3, <4>5, <4>6 DEF Pending, LastOf
      <4> QED BY <4>7 DEF Kept
    <3> QED BY <3>1, <3>2
  <2> QED BY <2>1, <2>2, <2>3 DEF Kept, Pending, Waiting
<1>2. CASE Extend
  <2>1. currentPath # << >> /\ k <= Len(edges[LastOf(currentPath)])
    BY <1>2 DEF Extend
  <2>2. PICK p : p = currentPath
    OBVIOUS
  <2>3. PICK b : b = edges[LastOf(currentPath)][k]
    OBVIOUS
  <2>4. p \in Seq(Blocks) \ {<< >>} /\ b \in Blocks
    BY <2>1, <2>2, <2>3, Neighbor DEF TypeOK
  <2> DEFINE S == Seq(Blocks)
             q == Append(p, b)
  <2>5. q \in S
    BY <2>4, Appended
  <2>6. stack \in Seq(S) /\ allPaths \in Seq(S)
    BY DEF TypeOK
  <2>7. IF edges[b] = << >> THEN allPaths' = Append(allPaths, q) /\ stack' = stack
                            ELSE allPaths' = allPaths /\ stack' = Append(stack, q)
    BY <1>2, <2>2, <2>3 DEF Extend, isExit
  <2>8. currentPath' = p /\ k' = k + 1 /\ k \in Nat \ {0}
    BY <1>2, <2>2 DEF Extend, TypeOK
  <2> HIDE DEF S, q
  <2>9. IF edges[b] = << >> THEN q \in Found' /\ Found \subseteq Found' /\ Waiting' = Waiting
                            ELSE q \in Waiting' /\ Waiting \subseteq Waiting' /\ Found' = Found
    <3>1. CASE edges[b] = << >>
      <4>1. /\ Len(allPaths') = Len(allPaths) + 1
            /\ allPaths'[Len(allPaths) + 1] = q
            /\ \A n \in 1 .. Len(allPaths) : allPaths'[n] = allPaths[n]
            /\ Len(allPaths) \in Nat
        BY <2>5, <2>6, <2>7, <3>1, Appended
      <4>2. q \in Found' /\ Found \subseteq Found'
        BY <4>1 DEF Found
      <4> QED BY <2>7, <3>1, <4>2 DEF Waiting
    <3>2. CASE edges[b] # << >>
      <4>1. /\ Len(stack') = Len(stack) + 1
            /\ stack'[Len(stack) + 1] = q
            /\ \A n \in 1 .. Len(stack) : stack'[n] = stack[n]
            /\ Len(stack) \in Nat
        BY <2>5, <2>6, <2>7, <3>2, Appended
      <4>2. q \in Waiting' /\ Waiting \subseteq Waiting'
        BY <4>1 DEF Waiting
      <4> QED BY <2>7, <3>2, <4>2 DEF Found
    <3> QED BY <3>1, <3>2
  <2>10. CASE s \in Found
    BY <2>9, <2>10 DEF Kept
  <2>11. CASE \E t \in Waiting : Reaches(t, s)
    <3>1. PICK t \in Waiting : Reaches(t, s)
      BY <2>11
    <3>2. t \in Waiting'
      BY <2>9, <3>1
    <3> QED BY <3>1, <3>2 DEF Kept, Reaches, BeginsWith
  <2>12. CASE Pending(s)
    <3>1. Reaches(p, s)
      BY <2>2, <2>12 DEF Pending
    <3>2. PICK n \in k .. Len(edges[LastOf(p)]) : edges[LastOf(p)][n] = s[Len(p) + 1]
      BY <2>2, <2>12 DEF Pending
    <3>3. CASE n = k
      <4>1. b = s[Len(p) + 1]
        BY <2>2, <2>3, <3>2, <3>3
      <4>2. IF edges[b] = << >> THEN s = q ELSE Reaches(q, s)
        BY <2>4, <3>1, <4>1, OneBlockOn DEF q
      <4> QED BY <2>9, <4>2 DEF Kept, Reaches, BeginsWith
    <3>4. CASE n # k
      <4>1. n \in k' .. Len(edges'[LastOf(p)])
        BY <1>g, <2>8, <3>2, <3>4
      <4>2. Pending(s)'
        BY <1>g, <2>4, <2>8, <3>1, <3>2, <4>1 DEF Pending, LastOf, Reaches, BeginsWith
      <4> QED BY <4>2 DEF Kept
    <3> QED BY <3>3, <3>4
  <2> QED BY <2>10, <2>11, <2>12 DEF Kept
<1>3. CASE Extended
  <2>1. Waiting' = Waiting /\ Found' = Found
    BY <1>3 DEF Extended, Waiting, Found
  <2>2. ~ Pending(s)
    <3>1. edges[LastOf(currentPath)] \in Seq(Blocks) /\ k \in Nat
      BY <1>3 DEF Extended, TypeOK, LastOf
    <3>2. k > Len(edges[LastOf(currentPath)])
      BY <1>3 DEF Extended
    <3> QED BY <3>1, <3>2 DEF Pending
  <2> QED BY <2>1, <2>2 DEF Kept, Reaches, BeginsWith
<1>4. CASE AddPath
  <2>1. Waiting' = Waiting /\ Found' = Found /\ currentPath = << >>
    BY <1>4 DEF AddPath, searched, Waiting, Found
  <2> QED BY <2>1 DEF Kept, Pending, Reaches, BeginsWith
<1>5. CASE UNCHANGED vars
  <2>1. Waiting' = Waiting /\ Found' = Found /\ Pending(s)' = Pending(s)
    BY <1>5 DEF vars, Waiting, Found, Pending, LastOf, Reaches, BeginsWith
  <2> QED BY <2>1 DEF Kept, Reaches, BeginsWith
<1> QED BY <1>1, <1>2, <1>3, <1>4, <1>5 DEF Next

LEMMA KeptIsNothingLost ==
  NothingLost <=> \A s \in Candidates : IsExecution(s) /\ Len(s) > 1 => Kept(s)
<1> QED BY DEF NothingLost, Kept, Pending

LEMMA InitNothingLost == Init => NothingLost
<1> QED BY InitKept, KeptIsNothingLost, GraphAssumption

LEMMA StepNothingLost == TypeOK /\ NothingLost /\ [Next]_vars => NothingLost'
<1> SUFFICES ASSUME TypeOK, NothingLost, [Next]_vars PROVE NothingLost'
  OBVIOUS
<1>1. ASSUME NEW s \in Candidates, IsExecution(s)', Len(s) > 1
      PROVE  Kept(s)'
  <2>1. s \in Seq(Blocks)
    BY GraphAssumption
  <2>2. IsExecution(s)
    BY <1>1, NextKeepsGraph, SameGraph
  <2>3. Kept(s)
    BY <1>1, <2>2, KeptIsNothingLost
  <2> QED BY <2>1, <2>2, <2>3, StepKept
<1>2. (\A s \in Candidates : IsExecution(s) /\ Len(s) > 1 => Kept(s))'
  BY <1>1
<1>3. (NothingLost <=> \A s \in Candidates : IsExecution(s) /\ Len(s) > 1 => Kept(s))'
  BY KeptIsNothingLost, PTL
<1> QED BY <1>2, <1>3

(* Whatever the graph, an execution with more than one block is never lost *)
(* between two turns of the search.                                        *)
THEOREM SearchLosesNothing == Spec => []NothingLost
<1> QED BY InitTyped, StepTyped, InitNothingLost, StepNothingLost, PTL DEF Spec

\* analyzingPaths copies the result of the search.
Copied == \A n \in 1 .. Len(paths) : paths[n] = allPaths[n]

LEMMA StepCopied == TypeOK /\ Copied /\ [Next]_vars => Copied'
<1> SUFFICES ASSUME TypeOK, Copied, [Next]_vars PROVE Copied'
  OBVIOUS
<1> DEFINE S == Seq(Blocks)
<1>t. allPaths \in Seq(S) /\ paths \in Seq(S) /\ Len(paths) <= Len(allPaths)
  BY DEF TypeOK
<1>1. CASE Extend
  <2>1. PICK q : q = Append(currentPath, edges[LastOf(currentPath)][k])
    OBVIOUS
  <2>2. q \in S
    BY <1>1, <2>1, Neighbor, Appended DEF Extend, TypeOK
  <2>3. allPaths' = allPaths \/ allPaths' = Append(allPaths, q)
    BY <1>1, <2>1 DEF Extend
  <2> HIDE DEF S
  <2>4. \A n \in 1 .. Len(allPaths) : allPaths'[n] = allPaths[n]
    BY <1>t, <2>2, <2>3, Appended
  <2> QED BY <1>1, <1>t, <2>4 DEF Extend, Copied
<1>2. CASE AddPath
  <2>1. PICK p : p = allPaths[Len(paths) + 1]
    OBVIOUS
  <2>2. p \in S
    BY <1>2, <1>t, <2>1 DEF AddPath
  <2>3. paths' = Append(paths, p) /\ allPaths' = allPaths
    BY <1>2, <2>1 DEF AddPath
  <2> HIDE DEF S
  <2>4. /\ Len(paths') = Len(paths) + 1
        /\ paths'[Len(paths) + 1] = p
        /\ \A n \in 1 .. Len(paths) : paths'[n] = paths[n]
    BY <1>t, <2>2, <2>3, Appended
  <2> QED BY <1>t, <2>1, <2>3, <2>4 DEF Copied
<1>3. CASE Pop \/ Extended \/ UNCHANGED vars
  BY <1>3 DEF Pop, Extended, vars, Copied
<1> QED BY <1>1, <1>2, <1>3 DEF Next

(* When the analysis ends, every execution with more than one block is a   *)
(* static path with an id.                                                 *)
THEOREM AnalysisIsComplete == Spec => []Complete
<1>1. Init => Copied
  BY DEF Init, Copied
<1>2. TypeOK /\ NothingLost /\ Copied => Complete
  <2> SUFFICES ASSUME TypeOK, NothingLost, Copied, done,
                      NEW s \in Candidates, IsExecution(s), Len(s) > 1
               PROVE  \E n \in 1 .. Len(paths) : paths[n] = s
    BY DEF Complete
  <2>1. stack = << >> /\ currentPath = << >> /\ Len(paths) = Len(allPaths)
    BY DEF done, searched
  <2>2. Waiting = {} /\ ~ Pending(s)
    BY <2>1 DEF Waiting, Pending
  <2>3. s \in Found
    BY <2>2, KeptIsNothingLost DEF Kept
  <2>4. PICK n \in 1 .. Len(allPaths) : allPaths[n] = s
    BY <2>3 DEF Found
  <2> QED BY <2>1, <2>4 DEF Copied
<1> QED BY <1>1, <1>2, InitTyped, StepTyped, InitNothingLost, StepNothingLost,
           StepCopied, PTL DEF Spec

-----------------------------------------------------------------------------
(* No path is found twice.                                                 *)

\* A block has one edge at most to another.
SingleEdges(g) == \A b \in Blocks : \A m, n \in 1 .. Len(g[b]) : g[b][m] = g[b][n] => m = n

(***************************************************************************)
(* There is one way at most in which the search has s: at one place of the *)
(* result, or by way of one path on the stack, or of the path in work.     *)
(***************************************************************************)
OneWay(s) ==
    /\ \A i, j \in 1 .. Len(allPaths) : allPaths[i] = s /\ allPaths[j] = s => i = j
    /\ \A i, j \in 1 .. Len(stack) : Reaches(stack[i], s) /\ Reaches(stack[j], s) => i = j
    /\ s \in Found => ~ Pending(s) /\ ~ \E p \in Waiting : Reaches(p, s)
    /\ Pending(s) => ~ \E p \in Waiting : Reaches(p, s)

LEMMA InitOneWay == ASSUME Init, NEW s PROVE OneWay(s)
<1>1. allPaths = << >> /\ currentPath = << >> /\ stack = <<<<0>>>>
  BY DEF Init
<1>2. Found = {} /\ ~ Pending(s) /\ 1 .. Len(allPaths) = {}
  BY <1>1 DEF Found, Pending
<1>3. Len(stack) = 1
  BY <1>1
<1> HIDE DEF Pending, Found
<1> QED BY <1>2, <1>3 DEF OneWay

\* A neighbor is taken off the pending ones when the path is extended by it.
LEMMA ExtendOneWay ==
  ASSUME TypeOK, Extend, SingleEdges(edges), NEW s \in Seq(Blocks), OneWay(s)
  PROVE  OneWay(s)'
<1>1. currentPath # << >> /\ k <= Len(edges[LastOf(currentPath)])
  BY DEF Extend
<1>2. PICK p : p = currentPath
  OBVIOUS
<1>3. PICK b : b = edges[LastOf(p)][k]
  OBVIOUS
<1>4. /\ p \in Seq(Blocks) \ {<< >>} /\ b \in Blocks /\ Len(p) \in Nat \ {0}
      /\ LastOf(p) \in Blocks /\ k \in 1 .. Len(edges[LastOf(p)])
      /\ edges[LastOf(p)] \in Seq(Blocks)
  BY <1>1, <1>2, <1>3, Neighbor DEF TypeOK
<1> DEFINE S == Seq(Blocks)
           q == Append(p, b)
<1>5. /\ q \in S /\ Len(q) = Len(p) + 1 /\ q[Len(p) + 1] = b
      /\ \A n \in 1 .. Len(p) : q[n] = p[n]
  BY <1>4, Appended
<1>6. stack \in Seq(S) /\ allPaths \in Seq(S) /\ Len(s) \in Nat
  BY DEF TypeOK
<1>7. IF edges[b] = << >> THEN allPaths' = Append(allPaths, q) /\ stack' = stack
                          ELSE allPaths' = allPaths /\ stack' = Append(stack, q)
  BY <1>2, <1>3 DEF Extend, isExit
<1>8. currentPath' = p /\ k' = k + 1 /\ edges' = edges
  BY <1>2 DEF Extend
<1> HIDE DEF S, q
<1>9. Pending(s)' => Pending(s) /\ s[Len(p) + 1] # b
  <2> SUFFICES ASSUME Pending(s)' PROVE Pending(s) /\ s[Len(p) + 1] # b
    OBVIOUS
  <2>1. Reaches(p, s)
    BY <1>8 DEF Pending, Reaches, BeginsWith
  <2>2. PICK n \in k + 1 .. Len(edges[LastOf(p)]) : edges[LastOf(p)][n] = s[Len(p) + 1]
    BY <1>8 DEF Pending, LastOf
  <2>3. n \in 1 .. Len(edges[LastOf(p)]) /\ n \in k .. Len(edges[LastOf(p)]) /\ n # k
    BY <1>4
  <2>4. s[Len(p) + 1] # b
    BY <1>3, <1>4, <2>2, <2>3 DEF SingleEdges
  <2> QED BY <1>1, <1>2, <2>1, <2>2, <2>3, <2>4 DEF Pending
<1>10. s = q \/ Reaches(q, s) => Pending(s) /\ s[Len(p) + 1] = b
  <2> SUFFICES ASSUME s = q \/ Reaches(q, s) PROVE Pending(s) /\ s[Len(p) + 1] = b
    OBVIOUS
  <2>1. Reaches(p, s) /\ s[Len(p) + 1] = b
    <3>1. CASE s = q
      BY <1>4, <1>5, <3>1 DEF Reaches, BeginsWith
    <3>2. CASE Reaches(q, s)
      <4>1. Len(p) + 1 < Len(s) /\ \A n \in 1 .. Len(p) + 1 : s[n] = q[n]
        BY <1>5, <3>2 DEF Reaches, BeginsWith
      <4>2. Len(p) < Len(s) /\ Len(p) <= Len(s) /\ \A n \in 1 .. Len(p) : s[n] = p[n]
        BY <1>4, <1>5, <1>6, <4>1
      <4> QED BY <1>4, <1>5, <4>1, <4>2 DEF Reaches, BeginsWith
    <3> QED BY <3>1, <3>2
  <2>2. k \in k .. Len(edges[LastOf(p)])
    BY <1>4
  <2> QED BY <1>1, <1>2, <1>3, <2>1, <2>2 DEF Pending
<1>11. CASE edges[b] = << >>
  <2>1. /\ Len(allPaths') = Len(allPaths) + 1 /\ Len(allPaths) \in Nat
        /\ allPaths'[Len(allPaths) + 1] = q
        /\ \A n \in 1 .. Len(allPaths) : allPaths'[n] = allPaths[n]
    BY <1>5, <1>6, <1>7, <1>11, Appended
  <2>2. \A i \in 1 .. Len(allPaths') : i \in 1 .. Len(allPaths) \/ i = Len(allPaths) + 1
    BY <2>1
  <2>3. stack' = stack /\ Waiting' = Waiting
    BY <1>7, <1>11 DEF Waiting
  <2>4. \A t : Reaches(t, s)' <=> Reaches(t, s)
    BY DEF Reaches, BeginsWith
  <2>5. \A i \in 1 .. Len(allPaths) : allPaths[i] = s => s \in Found
    BY DEF Found
  <2>6. s \in Found' => s \in Found \/ s = q
    BY <2>1, <2>2 DEF Found
  <2>7. \A i, j \in 1 .. Len(allPaths') : allPaths'[i] = s /\ allPaths'[j] = s => i = j
    BY <1>10, <2>1, <2>2, <2>5 DEF OneWay
  <2>8. s \in Found' => ~ Pending(s)' /\ ~ \E t \in Waiting' : Reaches(t, s)
    BY <1>9, <1>10, <2>3, <2>6 DEF OneWay
  <2>9. Pending(s)' => ~ \E t \in Waiting' : Reaches(t, s)
    BY <1>9, <2>3 DEF OneWay
  <2> QED BY <2>3, <2>4, <2>7, <2>8, <2>9 DEF OneWay
<1>12. CASE edges[b] # << >>
  <2>1. /\ Len(stack') = Len(stack) + 1 /\ Len(stack) \in Nat
        /\ stack'[Len(stack) + 1] = q
        /\ \A n \in 1 .. Len(stack) : stack'[n] = stack[n]
    <3>1. stack' = Append(stack, q) /\ Len(stack) \in Nat
      BY <1>6, <1>7, <1>12
    <3> QED BY <1>5, <1>6, <3>1, Appended
  <2>2. \A i \in 1 .. Len(stack') : i \in 1 .. Len(stack) \/ i = Len(stack) + 1
    BY <2>1
  <2>3. allPaths' = allPaths /\ Found' = Found
    BY <1>7, <1>12 DEF Found
  <2>4. \A t : Reaches(t, s)' <=> Reaches(t, s)
    BY DEF Reaches, BeginsWith
  <2>5. \A i \in 1 .. Len(stack) : stack[i] \in Waiting
    BY DEF Waiting
  <2>6. \A t \in Waiting' : t \in Waiting \/ t = q
    BY <2>1, <2>2 DEF Waiting
  <2>7. \A i, j \in 1 .. Len(stack') :
            Reaches(stack'[i], s) /\ Reaches(stack'[j], s) => i = j
    <3> SUFFICES ASSUME NEW i \in 1 .. Len(stack'), NEW j \in 1 .. Len(stack'),
                        Reaches(stack'[i], s), Reaches(stack'[j], s)
                 PROVE  i = j
      OBVIOUS
    <3>1. CASE i \in 1 .. Len(stack) /\ j \in 1 .. Len(stack)
      BY <2>1, <3>1 DEF OneWay
    <3>2. CASE i \in 1 .. Len(stack) /\ j = Len(stack) + 1
      BY <1>10, <2>1, <2>5, <3>2 DEF OneWay
    <3>3. CASE i = Len(stack) + 1 /\ j \in 1 .. Len(stack)
      BY <1>10, <2>1, <2>5, <3>3 DEF OneWay
    <3> QED BY <2>2, <3>1, <3>2, <3>3
  <2>8. s \in Found' => ~ Pending(s)' /\ ~ \E t \in Waiting' : Reaches(t, s)
    BY <1>9, <1>10, <2>3, <2>6 DEF OneWay
  <2>9. Pending(s)' => ~ \E t \in Waiting' : Reaches(t, s)
    BY <1>9, <1>10, <2>6 DEF OneWay
  <2> QED BY <2>3, <2>4, <2>7, <2>8, <2>9 DEF OneWay
<1> QED BY <1>11, <1>12

LEMMA StepOneWay ==
  ASSUME TypeOK, [Next]_vars, SingleEdges(edges), NEW s \in Seq(Blocks), OneWay(s)
  PROVE  OneWay(s)'
<1>r. \A t : Reaches(t, s)' <=> Reaches(t, s)
  BY DEF Reaches, BeginsWith
<1>1. CASE Pop
  <2>1. stack # << >> /\ allPaths' = allPaths /\ Found' = Found
    BY <1>1 DEF Pop, Found
  <2>2. PICK m \in Nat : m = Len(stack) - 1
    <3>1. Len(stack) \in Nat \ {0}
      BY <2>1, TopOfStack
    <3>2. Len(stack) - 1 \in Nat
      BY <3>1
    <3> QED BY <3>2
  <2>3. /\ Len(stack') = m /\ m + 1 \in 1 .. Len(stack)
        /\ \A n \in 1 .. m : stack'[n] = stack[n] /\ n \in 1 .. Len(stack)
    BY <1>1, <2>1, <2>2, TopOfStack DEF Pop
  <2>4. currentPath' = stack[m + 1]
    BY <1>1, <2>1, <2>2, TopOfStack DEF Pop, LastOf
  <2>5. Pending(s)' => Reaches(stack[m + 1], s)
    BY <2>4 DEF Pending, Reaches, BeginsWith
  <2>6. stack[m + 1] \in Waiting /\ Waiting' \subseteq Waiting
    BY <2>3 DEF Waiting
  <2>7. \A t \in Waiting' : \E n \in 1 .. m : t = stack[n]
    BY <2>3 DEF Waiting
  <2>8. \A i, j \in 1 .. Len(stack') :
            Reaches(stack'[i], s) /\ Reaches(stack'[j], s) => i = j
    BY <2>3 DEF OneWay
  <2>9. s \in Found' => ~ Pending(s)' /\ ~ \E t \in Waiting' : Reaches(t, s)
    BY <2>1, <2>5, <2>6 DEF OneWay
  <2>10. Pending(s)' => ~ \E t \in Waiting' : Reaches(t, s)
    <3>1. \A n \in 1 .. m : n # m + 1
      BY <2>2
    <3> QED BY <2>3, <2>5, <2>7, <3>1 DEF OneWay
  <2> QED BY <1>r, <2>1, <2>8, <2>9, <2>10 DEF OneWay
<1>2. CASE Extend
  BY <1>2, ExtendOneWay
<1>3. CASE Extended \/ AddPath
  <2>1. /\ Waiting' = Waiting /\ Found' = Found /\ allPaths' = allPaths /\ stack' = stack
        /\ ~ Pending(s)'
    BY <1>3 DEF Extended, AddPath, searched, Waiting, Found, Pending
  <2> QED BY <1>r, <2>1 DEF OneWay
<1>4. CASE UNCHANGED vars
  <2>1. /\ Waiting' = Waiting /\ Found' = Found /\ allPaths' = allPaths /\ stack' = stack
        /\ Pending(s)' = Pending(s)
    BY <1>4 DEF vars, Waiting, Found, Pending, LastOf, Reaches, BeginsWith
  <2> QED BY <1>r, <2>1 DEF OneWay
<1> QED BY <1>1, <1>2, <1>3, <1>4 DEF Next

-----------------------------------------------------------------------------
(* Without loops two executions never have the same blocks.                *)

\* No path along the edges comes back to where it starts.
Acyclic(g) ==
    \A s \in Seq(Blocks) :
        /\ Len(s) > 1
        /\ \A n \in 1 .. Len(s) - 1 : \E m \in 1 .. Len(g[s[n]]) : g[s[n]][m] = s[n + 1]
        => s[1] # s[Len(s)]

(* A nonempty set of naturals has a least element.                         *)
LEMMA LeastElement ==
    ASSUME NEW T \in SUBSET Nat, T # {}
    PROVE  \E m \in T : \A n \in T : m <= n
<1> DEFINE F == {0 .. t - 1 : t \in T}
<1>1. \A t \in T : 0 .. t - 1 \in FiniteSubsetsOf(Nat)
  BY FS_Interval, 0 \in Int, \A t \in T : t - 1 \in Int DEF FiniteSubsetsOf
<1>2. F \subseteq FiniteSubsetsOf(Nat) /\ F # {}
  BY <1>1
<1>3. PICK x \in F : \A y \in F : <<y, x>> \notin StrictSubsetOrdering(Nat)
  <2> HIDE DEF F
  <2> QED BY <1>2, FS_StrictSubsetOrderingWellFounded, WFMin
<1>4. PICK m \in T : x = 0 .. m - 1
  BY DEF F
<1>5. ASSUME NEW n \in T PROVE m <= n
  <2> SUFFICES ASSUME n < m PROVE FALSE
    OBVIOUS
  <2>1. n \in 0 .. m - 1 /\ n \notin 0 .. n - 1
    OBVIOUS
  <2>2. 0 .. n - 1 \subseteq 0 .. m - 1 /\ 0 .. n - 1 # 0 .. m - 1
    BY <2>1
  <2>3. <<0 .. n - 1, 0 .. m - 1>> \in StrictSubsetOrdering(Nat)
    BY <2>2 DEF StrictSubsetOrdering
  <2> QED BY <1>3, <1>4, <2>3 DEF F
<1> QED BY <1>5

\* A block does not come twice on a path.
LEMMA NoBlockTwice ==
  ASSUME Acyclic(edges), NEW s \in Seq(Blocks), IsPath(s),
         NEW i \in 1 .. Len(s), NEW j \in 1 .. Len(s), i < j
  PROVE  s[i] # s[j]
<1> DEFINE L == j - i + 1
           c == [n \in 1 .. L |-> s[i + n - 1]]
<1>1. i \in Nat \ {0} /\ j \in Nat /\ Len(s) \in Nat /\ j <= Len(s)
  OBVIOUS
<1>2. L \in Nat /\ L > 1
  BY <1>1
<1>3. \A n \in 1 .. L : i + n - 1 \in 1 .. Len(s)
  BY <1>1
<1>4. c \in Seq(Blocks) /\ Len(c) = L
  <2>1. c \in [1 .. L -> Blocks]
    BY <1>3
  <2> HIDE DEF c, L
  <2> QED BY <1>2, <2>1
<1>5. \A n \in 1 .. L - 1 : \E m \in 1 .. Len(edges[c[n]]) : edges[c[n]][m] = c[n + 1]
  <2> TAKE n \in 1 .. L - 1
  <2>1. /\ n \in 1 .. L /\ n + 1 \in 1 .. L /\ i + n - 1 \in 1 .. Len(s) - 1
        /\ i + (n + 1) - 1 = (i + n - 1) + 1
    BY <1>1
  <2>2. c[n] = s[i + n - 1] /\ c[n + 1] = s[(i + n - 1) + 1]
    BY <2>1
  <2>3. s[(i + n - 1) + 1] \in Succ(s[i + n - 1])
    BY <2>1 DEF IsPath
  <2> HIDE DEF c
  <2> QED BY <2>2, <2>3 DEF Succ
<1>6. c[1] = s[i] /\ c[L] = s[j]
  BY <1>1, <1>2
<1> HIDE DEF c, L
<1> QED BY <1>2, <1>4, <1>5, <1>6 DEF Acyclic

(***************************************************************************)
(* Two paths that part ways at position n cannot each come by the block    *)
(* the other one took there: that would close a cycle.                     *)
(***************************************************************************)
LEMMA NoCrossing ==
  ASSUME Acyclic(edges), NEW s \in Seq(Blocks), IsPath(s), NEW t \in Seq(Blocks), IsPath(t),
         NEW n \in 1 .. Len(s), n \in 1 .. Len(t),
         NEW i \in n + 1 .. Len(s), s[i] = t[n],
         NEW j \in n + 1 .. Len(t), t[j] = s[n]
  PROVE  FALSE
<1> DEFINE A == i - n
           L == A + (j - n) + 1
           c == [m \in 1 .. L |-> IF m <= A THEN s[n + m - 1] ELSE t[n + (m - A) - 1]]
<1>1. /\ n \in Nat \ {0} /\ i \in Nat /\ j \in Nat /\ n < i /\ n < j
      /\ Len(s) \in Nat /\ i <= Len(s) /\ Len(t) \in Nat /\ j <= Len(t)
  OBVIOUS
<1>2. A \in Nat \ {0} /\ L \in Nat /\ A + 1 < L /\ L > 1
  BY <1>1
<1>3. \A m \in 1 .. L : /\ m <= A => n + m - 1 \in 1 .. Len(s)
                        /\ ~(m <= A) => n + (m - A) - 1 \in 1 .. Len(t)
  BY <1>1
<1>4. c \in Seq(Blocks) /\ Len(c) = L
  <2>1. c \in [1 .. L -> Blocks]
    BY <1>3
  <2> HIDE DEF c, L
  <2> QED BY <1>2, <2>1
<1>5. ASSUME NEW m \in 1 .. L - 1 PROVE c[m + 1] \in Succ(c[m])
  <2>1. m \in 1 .. L /\ m + 1 \in 1 .. L
    BY <1>2
  <2>2. CASE m + 1 <= A
    <3>1. n + m - 1 \in 1 .. Len(s) - 1 /\ n + (m + 1) - 1 = (n + m - 1) + 1 /\ m <= A
      BY <1>1, <1>2, <2>1, <2>2
    <3>2. c[m] = s[n + m - 1] /\ c[m + 1] = s[(n + m - 1) + 1]
      BY <2>1, <2>2, <3>1
    <3> HIDE DEF c
    <3> QED BY <3>1, <3>2 DEF IsPath
  <2>3. CASE m = A
    <3>1. n + m - 1 \in 1 .. Len(s) - 1 /\ (n + m - 1) + 1 = i /\ n + ((m + 1) - A) - 1 = n
          /\ m <= A /\ ~(m + 1 <= A)
      BY <1>1, <1>2, <2>1, <2>3
    <3>2. c[m] = s[n + m - 1] /\ c[m + 1] = t[n]
      BY <2>1, <3>1
    <3>3. s[(n + m - 1) + 1] \in Succ(s[n + m - 1])
      BY <3>1 DEF IsPath
    <3>4. s[(n + m - 1) + 1] = t[n]
      BY <3>1
    <3> HIDE DEF c
    <3> QED BY <3>2, <3>3, <3>4
  <2>4. CASE m > A
    <3>1. n + (m - A) - 1 \in 1 .. Len(t) - 1
          /\ n + ((m + 1) - A) - 1 = (n + (m - A) - 1) + 1
          /\ ~(m <= A) /\ ~(m + 1 <= A)
      BY <1>1, <1>2, <2>1, <2>4
    <3>2. c[m] = t[n + (m - A) - 1] /\ c[m + 1] = t[(n + (m - A) - 1) + 1]
      BY <2>1, <3>1
    <3> HIDE DEF c
    <3> QED BY <3>1, <3>2 DEF IsPath
  <2> QED BY <1>2, <2>1, <2>2, <2>3, <2>4
<1>6. c[1] = s[n] /\ c[L] = t[j]
  <2>1. 1 \in 1 .. L /\ L \in 1 .. L /\ 1 <= A /\ ~(L <= A) /\ n + 1 - 1 = n
        /\ n + (L - A) - 1 = j
    BY <1>1, <1>2
  <2> QED BY <2>1
<1>7. \A m \in 1 .. L - 1 : \E d \in 1 .. Len(edges[c[m]]) : edges[c[m]][d] = c[m + 1]
  <2> HIDE DEF c, L
  <2> QED BY <1>5 DEF Succ
<1> HIDE DEF c, L
<1> QED BY <1>2, <1>4, <1>6, <1>7 DEF Acyclic

\* An execution is never a beginning of a longer one.
LEMMA NotLonger ==
  ASSUME TypeOK, NEW s \in Seq(Blocks), IsExecution(s), NEW t \in Seq(Blocks), IsPath(t),
         Len(s) < Len(t)
  PROVE  t[Len(s)] # s[Len(s)]
<1>1. Len(s) \in Nat \ {0} /\ Len(t) \in Nat
  BY DEF IsExecution, IsPath
<1>2. t[Len(s) + 1] \in Succ(t[Len(s)])
  BY <1>1 DEF IsPath
<1>3. Succ(s[Len(s)]) = {}
  BY <1>1 DEF IsExecution, LastOf, Succ
<1> QED BY <1>2, <1>3

\* The first block in which an execution differs from t is on it, but not on t
\* unless t comes back to it.
LEMMA MaskTells ==
  ASSUME TypeOK, Acyclic(edges), NEW s \in Seq(Blocks), IsExecution(s),
         NEW t \in Seq(Blocks), IsExecution(t), MaskOf(s) = MaskOf(t)
  PROVE  s = t
<1>1. /\ Len(s) \in Nat \ {0} /\ Len(t) \in Nat \ {0} /\ IsPath(s) /\ IsPath(t)
      /\ s[1] = 0 /\ t[1] = 0
  BY DEF IsExecution, IsPath
<1> DEFINE T == {n \in Nat \ {0} : n <= Len(s) /\ n <= Len(t) /\ s[n] # t[n]}
<1>2. CASE T = {}
  <2>1. \A n \in Nat \ {0} : n <= Len(s) /\ n <= Len(t) => s[n] = t[n]
    BY <1>2
  <2> HIDE DEF T
  <2>2. ~(Len(s) < Len(t))
    <3> SUFFICES ASSUME Len(s) < Len(t) PROVE FALSE
      OBVIOUS
    <3>1. s[Len(s)] = t[Len(s)]
      BY <1>1, <2>1
    <3> QED BY <1>1, <3>1, NotLonger
  <2>3. ~(Len(t) < Len(s))
    <3> SUFFICES ASSUME Len(t) < Len(s) PROVE FALSE
      OBVIOUS
    <3>1. s[Len(t)] = t[Len(t)]
      BY <1>1, <2>1
    <3> QED BY <1>1, <3>1, NotLonger
  <2>4. Len(s) = Len(t)
    BY <1>1, <2>2, <2>3
  <2>5. \A n \in 1 .. Len(s) : s[n] = t[n]
    BY <1>1, <2>1, <2>4
  <2> QED BY <2>4, <2>5, SeqEqual
<1>3. CASE T # {}
  <2>1. PICK n \in T : \A m \in T : n <= m
    <3>1. T \in SUBSET Nat
      OBVIOUS
    <3> HIDE DEF T
    <3> QED BY <1>3, <3>1, LeastElement
  <2>2. n \in 1 .. Len(s) /\ n \in 1 .. Len(t) /\ s[n] # t[n]
    OBVIOUS
  <2>3. \A m \in 1 .. n - 1 : s[m] = t[m]
    <3> TAKE m \in 1 .. n - 1
    <3>1. m \in Nat \ {0} /\ m <= Len(s) /\ m <= Len(t) /\ ~(n <= m)
      BY <1>1, <2>2
    <3> QED BY <2>1, <3>1
  <2> HIDE DEF T
  <2>4. PICK j \in 1 .. Len(t) : t[j] = s[n]
    BY <2>2 DEF MaskOf
  <2>5. PICK i \in 1 .. Len(s) : s[i] = t[n]
    BY <2>2 DEF MaskOf
  <2>6. j \in n + 1 .. Len(t)
    <3>1. j # n
      BY <2>2, <2>4
    <3>2. ~(j < n)
      <4> SUFFICES ASSUME j < n PROVE FALSE
        OBVIOUS
      <4>1. s[j] = s[n] /\ j \in 1 .. Len(s)
        BY <1>1, <2>2, <2>3, <2>4
      <4> QED BY <1>1, <2>2, <4>1, NoBlockTwice
    <3> QED BY <2>2, <3>1, <3>2
  <2>7. i \in n + 1 .. Len(s)
    <3>1. i # n
      BY <2>2, <2>5
    <3>2. ~(i < n)
      <4> SUFFICES ASSUME i < n PROVE FALSE
        OBVIOUS
      <4>1. t[i] = t[n] /\ i \in 1 .. Len(t)
        BY <1>1, <2>2, <2>3, <2>5
      <4> QED BY <1>1, <2>2, <4>1, NoBlockTwice
    <3> QED BY <2>2, <3>1, <3>2
  <2> QED BY <1>1, <2>2, <2>4, <2>5, <2>6, <2>7, NoCrossing
<1> QED BY <1>2, <1>3

\* A new path has a mask of its own, so that no entry is taken over.
LEMMA AddPathKeepsMap ==
  ASSUME TypeOK, OnlyExecutions, Copied, \A s \in Seq(Blocks) : OneWay(s),
         Acyclic(edges), AddPath, MaskIdentifies
  PROVE  MaskIdentifies'
<1> DEFINE S == Seq(Blocks)
<1>1. PICK p : p = allPaths[Len(paths) + 1]
  OBVIOUS
<1>2. /\ allPaths \in Seq(S) /\ paths \in Seq(S) /\ Len(paths) < Len(allPaths)
      /\ paths' = Append(paths, p) /\ pathIdMap \in [SUBSET Blocks -> Int]
      /\ pathIdMap' = [pathIdMap EXCEPT ![MaskOf(p)] = Len(paths)]
  BY <1>1 DEF AddPath, TypeOK
<1>3. \A n \in 1 .. Len(allPaths) : allPaths[n] \in S /\ allPaths[n] \in Found
  BY <1>2 DEF Found
<1>4. p \in S /\ IsExecution(p) /\ Len(paths) + 1 \in 1 .. Len(allPaths) /\ Len(paths) \in Nat
  BY <1>1, <1>2, <1>3 DEF OnlyExecutions
<1>5. \A s \in S : MaskOf(s) \in SUBSET Blocks
  <2> TAKE s \in S
  <2>1. \A n \in 1 .. Len(s) : s[n] \in Blocks
    OBVIOUS
  <2> QED BY <2>1 DEF MaskOf
<1>6. ASSUME NEW n \in 1 .. Len(paths)
      PROVE  paths[n] \in S /\ MaskOf(paths[n]) # MaskOf(p)
  <2>1. n \in 1 .. Len(allPaths) /\ paths[n] = allPaths[n] /\ n # Len(paths) + 1
    BY <1>2, <1>4 DEF Copied
  <2>2. paths[n] \in S /\ IsExecution(paths[n])
    BY <1>3, <2>1 DEF OnlyExecutions
  <2>3. paths[n] # p
    BY <1>1, <1>4, <2>1 DEF OneWay
  <2> QED BY <1>4, <2>2, <2>3, MaskTells
<1> HIDE DEF S
<1>7. /\ Len(paths') = Len(paths) + 1 /\ paths'[Len(paths) + 1] = p
      /\ \A n \in 1 .. Len(paths) : paths'[n] = paths[n]
  BY <1>2, <1>4, Appended
<1>8. ASSUME NEW n \in 1 .. Len(paths) + 1
      PROVE  pathIdMap'[MaskOf(paths'[n])] = n - 1
  <2>1. CASE n \in 1 .. Len(paths)
    BY <2>1, <1>2, <1>5, <1>6, <1>7 DEF MaskIdentifies
  <2>2. CASE n = Len(paths) + 1
    BY <2>2, <1>2, <1>4, <1>5, <1>7
  <2> QED BY <1>4, <2>1, <2>2
<1> QED BY <1>7, <1>8 DEF MaskIdentifies, MaskOf

(***************************************************************************)
(* On every function without loops, with one edge at most from a block to  *)
(* another, the id found under the mask of a path is the path's own.       *)
(***************************************************************************)
THEOREM MasksIdentify ==
  (\A g \in Graphs : SingleEdges(g) /\ Acyclic(g)) => (Spec => []MaskIdentifies)
<1> SUFFICES ASSUME \A g \in Graphs : SingleEdges(g) /\ Acyclic(g)
             PROVE  Spec => []MaskIdentifies
  OBVIOUS
<1> DEFINE Inv == /\ edges \in Graphs
                  /\ \A s \in Seq(Blocks) : OneWay(s)
                  /\ Copied
                  /\ MaskIdentifies
<1>1. Init => Inv
  BY InitOneWay DEF Init, Copied, MaskIdentifies
<1>2. TypeOK /\ OnlyExecutions /\ Inv /\ [Next]_vars => Inv'
  <2> SUFFICES ASSUME TypeOK, OnlyExecutions, Inv, [Next]_vars PROVE Inv'
    OBVIOUS
  <2>1. edges' = edges
    BY NextKeepsGraph
  <2>2. \A s \in Seq(Blocks) : OneWay(s)'
    BY StepOneWay
  <2>3. Copied'
    BY StepCopied
  <2>4. MaskIdentifies'
    <3>1. CASE AddPath
      BY <3>1, AddPathKeepsMap
    <3>2. CASE UNCHANGED <<paths, pathIdMap>>
      BY <3>2 DEF MaskIdentifies, MaskOf
    <3> QED BY <3>1, <3>2 DEF Next, Pop, Extend, Extended, vars
  <2> QED BY <2>1, <2>2, <2>3, <2>4
<1>3. Inv => MaskIdentifies
  OBVIOUS
<1> HIDE DEF Inv
<1> QED BY <1>1, <1>2, <1>3, TypeCorrect, FindsExecutionsOnly, PTL DEF Spec
=============================================================================
