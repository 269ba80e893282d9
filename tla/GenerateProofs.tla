-------------------------- MODULE GenerateProofs --------------------------
(***************************************************************************)
(* The two parts of generate/ that decide what KLEE is run on and what is  *)
(* kept of its results.                                                    *)
(*                                                                         *)
(* The index of unique parts (UniqueSubpath), for every list of paths and  *)
(* every hash, whatever it makes equal: the part that is returned occurs   *)
(* once, and unless two parts in the index share an entry it is the        *)
(* shortest and the leftmost that does.                                    *)
(*                                                                         *)
(* The generator and its script (GenerateTests), for every list of paths   *)
(* and whatever KLEE finds and wherever it stops: each target is tried on  *)
(* a file of this run, and each input found in time is written once.       *)
(*                                                                         *)
(* Both together (Generation): a path that is the only one with its blocks *)
(* is tried.                                                               *)
(***************************************************************************)
EXTENDS Generation, SequenceTheorems, FiniteSetTheorems, TLAPS

-----------------------------------------------------------------------------
(* The inductive invariant of the search in the index.                     *)

\* The index holds all occurrences of the lengths that were looked at.
Indexed(len) == UNION {Occurrences(k) : k \in 2 .. len}
IndexComplete == hash_len = l /\ index = Indexed(l) /\ IsFiniteSet(index)

\* What the loops have left behind is not unique.
NothingBefore == ~done /\ Collisionless => \A x \in Parts :
                     UniquePart(PartAt(x)) => ~Before(x, <<l, i>>)

OnlyWhenDone == result # << >> => done

IInv == IndexTypeOK /\ IndexComplete /\ OnlyWhenDone /\ ResultUnique /\ NothingBefore
        /\ NeverMissing /\ ShortestFound

-----------------------------------------------------------------------------
(* Facts about occurrences.                                                *)

\* A path is a sequence of blocks.
LEMMA PathType == IndexTypeOK => \A p \in Ids : /\ sequences[p] \in Seq(0 .. A - 1)
                                           /\ Len(sequences[p]) \in Nat
BY DEF IndexTypeOK, Ids

LEMMA SeqType == IndexTypeOK => seq \in Seq(0 .. A - 1) /\ Len(seq) \in Nat
BY PathType DEF IndexTypeOK, seq

\* An occurrence lies within its path.
LEMMA OccurrenceMember ==
    ASSUME NEW len, NEW o
    PROVE  o \in Occurrences(len) <=>
               \E p \in Ids : \E j \in 1 .. Len(sequences[p]) - len + 1 : o = <<p, j, len>>
BY DEF Occurrences

LEMMA OccurrenceLength ==
    ASSUME IndexTypeOK, NEW len \in Nat \ {0}, NEW o \in Occurrences(len)
    PROVE  Part(o) \in Seq(0 .. A - 1) /\ Len(Part(o)) = len
<1>0. PICK p \in Ids : \E j \in 1 .. Len(sequences[p]) - len + 1 : o = <<p, j, len>>
  BY OccurrenceMember
<1>1. PICK j \in 1 .. Len(sequences[p]) - len + 1 : o = <<p, j, len>>
  BY <1>0
<1>2. sequences[p] \in Seq(0 .. A - 1) /\ Len(sequences[p]) \in Nat
  BY PathType
<1>3. Part(o) = SubSeq(sequences[p], j, j + len - 1)
  BY <1>1 DEF Part
<1>4. j \in Int /\ j + len - 1 \in Int
  OBVIOUS
<1>5. \A k \in j .. j + len - 1 : sequences[p][k] \in 0 .. A - 1
  <2>1. \A k \in j .. j + len - 1 : k \in 1 .. Len(sequences[p])
    BY <1>2
  <2>2. \A k \in 1 .. Len(sequences[p]) : sequences[p][k] \in 0 .. A - 1
    BY <1>2, ElementOfSeq
  <2> QED  BY <2>1, <2>2
<1>6. /\ SubSeq(sequences[p], j, j + len - 1) \in Seq(0 .. A - 1)
      /\ Len(SubSeq(sequences[p], j, j + len - 1))
             = IF j <= j + len - 1 THEN (j + len - 1) - j + 1 ELSE 0
  BY ONLY <1>4, <1>5, SubSeqProperties
<1> QED  BY <1>3, <1>6

\* There are finitely many occurrences of a length.
LEMMA OccurrencesFinite ==
    ASSUME IndexTypeOK, NEW len \in Nat
    PROVE  IsFiniteSet(Occurrences(len))
<1> DEFINE In(p) == {<<p, j, len>> : j \in 1 .. Len(sequences[p]) - len + 1}
           All == {In(p) : p \in Ids}
<1>1. ASSUME NEW p \in Ids PROVE IsFiniteSet(In(p))
  <2> DEFINE J == 1 .. Len(sequences[p]) - len + 1
             f == [j \in J |-> <<p, j, len>>]
  <2>1. IsFiniteSet(J)
    BY FS_Interval, PathType
  <2>2. f \in Surjection(J, In(p))
    BY DEF Surjection
  <2> HIDE DEF J, f, In
  <2> QED  BY <2>1, <2>2, FS_Surjection
<1>2. IsFiniteSet(All)
  <2> DEFINE g == [p \in Ids |-> In(p)]
  <2>1. IsFiniteSet(Ids)
    BY FS_Interval DEF Ids, IndexTypeOK
  <2>2. g \in Surjection(Ids, All)
    BY DEF Surjection
  <2> HIDE DEF g, All
  <2> QED  BY <2>1, <2>2, FS_Surjection
<1>3. \A T \in All : IsFiniteSet(T)
  <2> HIDE DEF In
  <2> QED  BY <1>1
<1>4. Occurrences(len) = UNION All
  BY DEF Occurrences
<1> HIDE DEF All
<1> QED  BY <1>2, <1>3, <1>4, FS_UNION

\* What is looked up is an occurrence of this path, and is in the index.
LEMMA LookedOccurs ==
    ASSUME IndexTypeOK, IndexComplete, l <= Len(seq), i <= Len(seq) - l + 1
    PROVE  /\ <<id, i, l>> \in Occurrences(l)
           /\ <<id, i, l>> \in index
           /\ Part(<<id, i, l>>) = looked
           /\ Len(looked) = l
<1>1. l \in Nat \ {0, 1} /\ i \in Nat \ {0} /\ id \in Ids /\ Len(seq) \in Nat
  BY SeqType DEF IndexTypeOK
<1>2. i \in 1 .. Len(sequences[id]) - l + 1
  BY <1>1 DEF seq
<1>3. <<id, i, l>> \in Occurrences(l)
  BY <1>1, <1>2, OccurrenceMember
<1>4. Part(<<id, i, l>>) = looked
  BY DEF Part, looked, seq
<1>5. Len(looked) = l
  BY <1>1, <1>3, <1>4, OccurrenceLength
<1>6. <<id, i, l>> \in index
  <2>1. l \in 2 .. l
    BY <1>1
  <2> QED  BY <1>3, <2>1 DEF IndexComplete, Indexed
<1> QED  BY <1>3, <1>4, <1>5, <1>6

\* The places of what is looked up are in its entry.
LEMMA PlacesInEntry ==
    ASSUME IndexTypeOK, IndexComplete, l <= Len(seq), i <= Len(seq) - l + 1
    PROVE  /\ Places(looked) \subseteq At(HashOf(looked))
           /\ <<id, i, l>> \in Places(looked)
           /\ <<id, i, l>> \in At(HashOf(looked))
           /\ IsFiniteSet(At(HashOf(looked)))
           /\ IsFiniteSet(Places(looked))
<1>1. Len(looked) = l /\ <<id, i, l>> \in Places(looked)
  BY LookedOccurs DEF Places
<1>2. Occurrences(l) \subseteq index
  <2>1. l \in 2 .. l
    BY DEF IndexTypeOK
  <2> QED  BY <2>1 DEF IndexComplete, Indexed
<1>3. Places(looked) \subseteq At(HashOf(looked))
  BY <1>1, <1>2 DEF Places, At
<1>4. IsFiniteSet(At(HashOf(looked)))
  <2>1. At(HashOf(looked)) \in SUBSET index
    BY DEF At
  <2> QED  BY <2>1, FS_Subset DEF IndexComplete
<1>5. IsFiniteSet(Places(looked))
  <2>1. Places(looked) \in SUBSET At(HashOf(looked))
    BY <1>3
  <2> HIDE DEF Places, At
  <2> QED  BY <1>4, <2>1, FS_Subset
<1> QED  BY <1>1, <1>3, <1>4, <1>5

\* An entry with one element is where the sequence occurs, and nowhere else.
LEMMA UniqueEntry ==
    ASSUME IndexTypeOK, IndexComplete, l <= Len(seq), i <= Len(seq) - l + 1,
           isUnique(HashOf(looked))
    PROVE  Places(looked) = {<<id, i, l>>}
<1>1. PICK x : At(HashOf(looked)) = {x}
  BY PlacesInEntry, FS_Singleton DEF isUnique
<1> QED  BY <1>1, PlacesInEntry

\* Without collisions the entry of a unique sequence has one element.
LEMMA EntryOfUnique ==
    ASSUME IndexTypeOK, IndexComplete, l <= Len(seq), i <= Len(seq) - l + 1,
           Collisionless, UniquePart(looked)
    PROVE  isUnique(HashOf(looked))
<1>1. Places(looked) = {<<id, i, l>>}
  <2>1. PICK x : Places(looked) = {x}
    BY PlacesInEntry, FS_Singleton DEF UniquePart
  <2> QED  BY <2>1, PlacesInEntry
<1>2. ASSUME NEW o \in At(HashOf(looked)) PROVE o = <<id, i, l>>
  <2>1. o \in index /\ Part(o) = looked
    BY <1>2, LookedOccurs DEF At, Collisionless
  <2>2. PICK k \in 2 .. l : o \in Occurrences(k)
    BY <2>1 DEF IndexComplete, Indexed
  <2>3. Len(Part(o)) = k
    <3>1. k \in Nat \ {0}
      OBVIOUS
    <3> QED  BY <2>2, <3>1, OccurrenceLength
  <2>4. o \in Occurrences(Len(looked))
    BY <2>1, <2>2, <2>3
  <2> QED  BY <1>1, <2>1, <2>4 DEF Places
<1>3. At(HashOf(looked)) = {<<id, i, l>>}
  BY <1>2, PlacesInEntry
<1>4. Cardinality(At(HashOf(looked))) = 1
  BY <1>3, FS_Singleton
<1>5. \A o \in At(HashOf(looked)) : o[1] = id
  BY <1>2
<1> QED  BY <1>4, <1>5 DEF isUnique

-----------------------------------------------------------------------------
(* What is looked up was indexed before.                                   *)
LEMMA EntryThere == IndexTypeOK /\ IndexComplete => NeverMissing
BY PlacesInEntry DEF NeverMissing

-----------------------------------------------------------------------------
\* A search that has not begun.
Fresh ==
    /\ sequences \in Seq(Seq(0 .. A - 1)) /\ id \in Ids
    /\ hash_len = 2 /\ index = Occurrences(2)
    /\ l = 2 /\ i = 1
    /\ result = << >> /\ done = FALSE

(* Then the index has the length that is looked at first.                  *)
LEMMA FreshIInv == Fresh => IInv
<1> SUFFICES ASSUME Fresh PROVE IInv
  OBVIOUS
<1>1. IndexTypeOK /\ IndexComplete
  <2>1. sequences \in Seq(Seq(0 .. A - 1)) /\ id \in Ids /\ l = 2 /\ i = 1
        /\ hash_len = 2 /\ result = << >> /\ done = FALSE
    BY DEF Fresh
  <2>2. \A p \in Ids : sequences[p] \in Seq(0 .. A - 1) /\ Len(sequences[p]) \in Nat
    BY <2>1 DEF Ids
  <2>3. index = Occurrences(2)
    BY DEF Fresh
  <2>4. index \subseteq Ids \X Nat \X Nat
    BY <2>2, <2>3 DEF Occurrences
  <2>5. result \in Seq(0 .. A - 1)
    BY <2>1, EmptySeq
  <2>6. IndexTypeOK
    <3>1. hash_len \in Nat /\ l \in Nat \ {0, 1} /\ i \in Nat \ {0}
      BY <2>1
    <3>2. done \in BOOLEAN
      BY <2>1
    <3> QED  BY ONLY <2>1, <2>4, <2>5, <3>1, <3>2 DEF IndexTypeOK
  <2>7. index = Indexed(l)
    <3>1. 2 .. l = {2}
      BY <2>1
    <3> QED  BY <2>3, <3>1 DEF Indexed
  <2> QED  BY <2>1, <2>3, <2>6, <2>7, OccurrencesFinite DEF IndexComplete
<1>2. OnlyWhenDone /\ ResultUnique
  BY DEF Fresh, OnlyWhenDone, ResultUnique
<1>3. NothingBefore
  <2>1. \A x \in Parts : ~Before(x, <<l, i>>)
    BY DEF Fresh, Parts, Before
  <2> QED  BY <2>1 DEF NothingBefore
<1>4. ShortestFound
  BY DEF Fresh, ShortestFound
<1> QED  BY <1>1, <1>2, <1>3, <1>4, EntryThere DEF IInv

LEMMA InitIInv == IndexInit => IInv
<1>1. IndexInit => Fresh
  BY HashAssumption DEF IndexInit, Fresh
<1> QED  BY <1>1, FreshIInv

\* The paths do not change, nor does what is unique in them.
LEMMA PathsStay ==
    ASSUME UNCHANGED <<sequences, id>>, NEW x
    PROVE  UniquePart(PartAt(x))' <=> UniquePart(PartAt(x))
<1>1. seq' = seq
  BY DEF seq
<1>2. PartAt(x)' = PartAt(x)
  BY <1>1 DEF PartAt
<1>3. Places(PartAt(x))' = Places(PartAt(x))
  <2> DEFINE s == PartAt(x)
  <2>1. s' = s
    BY <1>2
  <2> HIDE DEF s
  <2>2. Places(s)' = Places(s)
    BY <2>1 DEF Places, Occurrences, Part, Ids
  <2> QED  BY <2>2 DEF s
<1> QED  BY <1>2, <1>3 DEF UniquePart

\* A step that leaves the index alone keeps it complete and as free of collisions.
LEMMA IndexStays ==
    ASSUME UNCHANGED <<sequences, id, hash_len, index, l>>
    PROVE  /\ IndexComplete' <=> IndexComplete
           /\ Collisionless' <=> Collisionless
BY DEF IndexComplete, Indexed, Occurrences, Ids, Collisionless, Part

(* Looking up a sequence that has an entry of its own ends the search with *)
(* it; any other is passed over, and is not unique unless hashes collide.  *)
LEMMA LookKeeps == IInv /\ Look => IInv'
<1> SUFFICES ASSUME IInv, Look PROVE IInv'
  OBVIOUS
<1>1. UNCHANGED <<sequences, id, hash_len, index, l>> /\ done = FALSE
      /\ l <= Len(seq) /\ i <= Len(seq) - l + 1
  BY DEF Look, IInv, IndexTypeOK
<1>2. l \in Nat \ {0, 1} /\ i \in Nat \ {0} /\ Len(seq) \in Nat /\ IndexTypeOK /\ IndexComplete
  BY SeqType DEF IInv, IndexTypeOK
<1>3. seq' = seq /\ Parts' = Parts /\ PartAt(<<l, i>>) = looked
  BY <1>1 DEF seq, Parts, PartAt, looked
<1>4. IndexComplete' /\ (Collisionless' <=> Collisionless)
  BY <1>1, <1>2, IndexStays
<1>5. At(HashOf(looked)) # {}
  BY <1>1, <1>2, PlacesInEntry
<1>6. CASE isUnique(HashOf(looked))
  <2>1. done' = TRUE /\ result' = looked /\ i' = i
    BY <1>5, <1>6 DEF Look
  <2>2. looked \in Seq(0 .. A - 1)
    BY <1>1, <1>2, LookedOccurs, OccurrenceLength
  <2>3. IndexTypeOK'
    BY <1>1, <1>2, <2>1, <2>2 DEF IndexTypeOK, Ids
  <2>4. Places(looked) = {<<id, i, l>>} /\ Len(looked) = l
    BY <1>1, <1>2, <1>6, UniqueEntry, LookedOccurs
  <2>5. Places(result)' = Places(looked)
    BY <1>1, <2>1 DEF Places, Occurrences, Part, Ids
  <2>6. ResultUnique'
    BY <1>1, <2>1, <2>4, <2>5 DEF ResultUnique
  <2>7. OnlyWhenDone' /\ NothingBefore'
    BY <2>1 DEF OnlyWhenDone, NothingBefore
  <2>8. ASSUME Collisionless', NEW x \in Parts, UniquePart(PartAt(x))'
        PROVE  result' # << >> /\ ~Before(x, <<l, i>>)
    <3>1. UniquePart(PartAt(x))
      BY <1>1, <2>8, PathsStay
    <3>2. ~Before(x, <<l, i>>)
      BY <1>1, <1>4, <2>8, <3>1 DEF IInv, NothingBefore
    <3>3. result' # << >>
      BY <1>2, <2>1, <2>4
    <3> QED  BY <3>2, <3>3
  <2>9. ShortestFound'
    BY <1>1, <1>3, <2>1, <2>8 DEF ShortestFound, Before
  <2>10. NeverMissing'
    BY <2>1 DEF NeverMissing
  <2> QED  BY <1>4, <2>3, <2>6, <2>7, <2>9, <2>10 DEF IInv
<1>7. CASE ~isUnique(HashOf(looked))
  <2>1. i' = i + 1 /\ UNCHANGED <<result, done>>
    BY <1>5, <1>7 DEF Look
  <2>2. IndexTypeOK'
    BY <1>1, <1>2, <2>1 DEF IndexTypeOK, Ids
  <2>3. result = << >>
    BY <1>1 DEF IInv, OnlyWhenDone
  <2>4. OnlyWhenDone' /\ ResultUnique' /\ ShortestFound'
    BY <1>1, <2>1, <2>3 DEF OnlyWhenDone, ResultUnique, ShortestFound
  <2>5. ASSUME Collisionless', NEW x \in Parts, UniquePart(PartAt(x))', Before(x, <<l, i + 1>>)
        PROVE  FALSE
    <3>1. UniquePart(PartAt(x))
      BY <1>1, <2>5, PathsStay
    <3>2. ~Before(x, <<l, i>>)
      BY <1>1, <1>4, <2>5, <3>1 DEF IInv, NothingBefore
    <3>3. x = <<l, i>>
      BY <1>2, <2>5, <3>2 DEF Before, Parts
    <3> QED  BY <1>1, <1>2, <1>3, <1>4, <1>7, <2>5, <3>1, <3>3, EntryOfUnique
  <2>6. NothingBefore'
    BY <1>1, <1>3, <2>1, <2>5 DEF NothingBefore, Before
  <2>7. NeverMissing'
    BY <1>4, <2>2, EntryThere, PTL
  <2> QED  BY <1>4, <2>2, <2>4, <2>6, <2>7 DEF IInv
<1> QED  BY <1>6, <1>7

(* The next length is looked at when no part of this length was unique.    *)
LEMMA NextLengthKeeps == IInv /\ NextLength => IInv'
<1> SUFFICES ASSUME IInv, NextLength PROVE IInv'
  OBVIOUS
<1>1. /\ UNCHANGED <<sequences, id, result, done>> /\ done = FALSE
      /\ l <= Len(seq) /\ i > Len(seq) - l + 1 /\ l' = l + 1 /\ i' = 1
  BY DEF NextLength, IInv, IndexTypeOK
<1>2. l \in Nat \ {0, 1} /\ i \in Nat \ {0} /\ Len(seq) \in Nat /\ IndexTypeOK /\ IndexComplete
  BY SeqType DEF IInv, IndexTypeOK
<1>3. hash_len' = l + 1 /\ index' = index \cup Occurrences(l + 1)
  BY <1>2 DEF NextLength, updateIndex, IndexComplete
<1>4. seq' = seq /\ Parts' = Parts
  BY <1>1 DEF seq, Parts
<1>5. Occurrences(l + 1) \subseteq Ids \X Nat \X Nat
  <2>1. \A p \in Ids : Len(sequences[p]) \in Nat
    BY <1>2, PathType
  <2> QED  BY <1>2, <2>1 DEF Occurrences
<1>6. IndexTypeOK'
  <2>1. index' \subseteq Ids \X Nat \X Nat
    BY <1>2, <1>3, <1>5 DEF IndexTypeOK
  <2> QED  BY <1>1, <1>2, <1>3, <2>1 DEF IndexTypeOK, Ids
<1>7. IndexComplete'
  <2>1. Indexed(l + 1) = Indexed(l) \cup Occurrences(l + 1)
    <3>1. 2 .. l + 1 = (2 .. l) \cup {l + 1}
      BY <1>2
    <3> QED  BY <3>1 DEF Indexed
  <2>2. Indexed(l)' = Indexed(l + 1)
    BY <1>1 DEF Indexed, Occurrences, Ids
  <2>3. IsFiniteSet(index')
    <3>1. IsFiniteSet(Occurrences(l + 1))
      BY <1>2, OccurrencesFinite
    <3> QED  BY <1>2, <1>3, <3>1, FS_Union DEF IndexComplete
  <2> QED  BY <1>1, <1>2, <1>3, <2>1, <2>2, <2>3 DEF IndexComplete
<1>8. result = << >>
  BY <1>1 DEF IInv, OnlyWhenDone
<1>9. OnlyWhenDone' /\ ResultUnique' /\ ShortestFound'
  BY <1>1, <1>8 DEF OnlyWhenDone, ResultUnique, ShortestFound
<1>10. ASSUME Collisionless', NEW x \in Parts, UniquePart(PartAt(x))', Before(x, <<l + 1, 1>>)
       PROVE  FALSE
  <2>1. UniquePart(PartAt(x))
    BY <1>1, <1>10, PathsStay
  <2>2. Collisionless
    BY <1>1, <1>3, <1>10 DEF Collisionless, Part
  <2>3. ~Before(x, <<l, i>>)
    BY <1>1, <2>1, <2>2 DEF IInv, NothingBefore
  <2>4. x[1] \in Nat /\ x[2] \in Nat \ {0} /\ x[2] + x[1] - 1 <= Len(seq)
    BY <1>2 DEF Parts
  <2> QED  BY <1>1, <1>2, <1>10, <2>3, <2>4 DEF Before
<1>11. NothingBefore'
  BY <1>1, <1>4, <1>10 DEF NothingBefore, Before
<1>12. NeverMissing'
  BY <1>6, <1>7, EntryThere, PTL
<1> QED  BY <1>6, <1>7, <1>9, <1>11, <1>12 DEF IInv

(* Nothing is returned only when no part of the path is unique.            *)
LEMMA NoneFoundKeeps == IInv /\ NoneFound => IInv'
<1> SUFFICES ASSUME IInv, NoneFound PROVE IInv'
  OBVIOUS
<1>1. /\ UNCHANGED <<sequences, id, hash_len, index, l, i, result>> /\ done = FALSE
      /\ done' = TRUE /\ l > Len(seq)
  BY DEF NoneFound, IInv, IndexTypeOK
<1>2. l \in Nat \ {0, 1} /\ i \in Nat \ {0} /\ Len(seq) \in Nat /\ IndexTypeOK /\ IndexComplete
  BY SeqType DEF IInv, IndexTypeOK
<1>3. seq' = seq /\ Parts' = Parts
  BY <1>1 DEF seq, Parts
<1>4. IndexComplete' /\ (Collisionless' <=> Collisionless)
  BY <1>1, <1>2, IndexStays
<1>5. IndexTypeOK'
  BY <1>1, <1>2 DEF IndexTypeOK, Ids
<1>6. OnlyWhenDone' /\ NothingBefore' /\ NeverMissing'
  BY <1>1 DEF OnlyWhenDone, NothingBefore, NeverMissing
<1>7. result = << >>
  BY <1>1 DEF IInv, OnlyWhenDone
<1>8. ResultUnique'
  BY <1>1, <1>7 DEF ResultUnique
<1>9. ASSUME Collisionless', NEW x \in Parts, UniquePart(PartAt(x))' PROVE FALSE
  <2>1. UniquePart(PartAt(x))
    BY <1>1, <1>9, PathsStay
  <2>2. ~Before(x, <<l, i>>)
    BY <1>1, <1>4, <1>9, <2>1 DEF IInv, NothingBefore
  <2>3. x[1] \in 2 .. Len(seq)
    BY DEF Parts
  <2> QED  BY <1>1, <1>2, <2>2, <2>3 DEF Before
<1>10. ShortestFound'
  BY <1>3, <1>9 DEF ShortestFound
<1> QED  BY <1>4, <1>5, <1>6, <1>8, <1>10 DEF IInv

\* No step of the search breaks the invariant.
LEMMA SearchStep == IInv /\ [IndexNext]_indexVars => IInv'
<1>1. ASSUME IInv, UNCHANGED indexVars PROVE IInv'
  <2>1. UNCHANGED <<sequences, id, hash_len, index, l, i, result, done>>
    BY <1>1 DEF indexVars
  <2>2. IndexTypeOK' /\ OnlyWhenDone'
    BY <1>1, <2>1 DEF IInv, IndexTypeOK, OnlyWhenDone, Ids
  <2>3. IndexComplete' /\ (Collisionless' <=> Collisionless)
    BY <1>1, <2>1, IndexStays DEF IInv
  <2>4. ResultUnique'
    <3>1. Places(result)' = Places(result)
      BY <2>1 DEF Places, Occurrences, Part, Ids
    <3> QED  BY <1>1, <2>1, <3>1 DEF IInv, ResultUnique
  <2>5. Parts' = Parts
    BY <2>1 DEF Parts, seq
  <2>6. NothingBefore' /\ ShortestFound'
    <3>1. \A x : UniquePart(PartAt(x))' <=> UniquePart(PartAt(x))
      BY <2>1, PathsStay
    <3> QED  BY <1>1, <2>1, <2>3, <2>5, <3>1 DEF IInv, NothingBefore, ShortestFound, Before
  <2>7. NeverMissing'
    BY <2>2, <2>3, EntryThere, PTL
  <2> QED  BY <2>2, <2>3, <2>4, <2>6, <2>7 DEF IInv
<1> QED  BY <1>1, LookKeeps, NextLengthKeeps, NoneFoundKeeps DEF IndexNext

\* The search for another path starts with an index of its own.
LEMMA NewSearch ==
    ASSUME IInv, NEW p, p + 1 \in Ids, PathInstrument(p)
    PROVE  IInv'
<1>1. /\ sequences' = sequences /\ id' = p + 1 /\ hash_len' = 2 /\ index' = Occurrences(2)
      /\ l' = 2 /\ i' = 1 /\ result' = << >> /\ done' = FALSE
  BY DEF PathInstrument
<1>2. Ids' = Ids /\ (Occurrences(2))' = Occurrences(2)
  BY <1>1 DEF Ids, Occurrences
<1>3. sequences \in Seq(Seq(0 .. A - 1))
  BY DEF IInv, IndexTypeOK
<1>4. Fresh'
  BY <1>1, <1>2, <1>3 DEF Fresh
<1> QED  BY <1>4, FreshIInv, PTL

(* The invariant holds in every state of the search.                       *)
THEOREM SearchInvariant == IndexSpec => []IInv
BY InitIInv, SearchStep, PTL DEF IndexSpec

(* For any paths and any hash: what is returned occurs once in all paths,  *)
(* at the start where it was found (getShortestUniqueSubSeq).              *)
THEOREM ReturnedOccursOnce == IndexSpec => []ResultUnique
BY SearchInvariant, PTL DEF IInv

(* The index is extended in time for every length: the branch for a        *)
(* sequence that is not in it is dead code.                                *)
THEOREM IndexInTime == IndexSpec => []NeverMissing
BY SearchInvariant, PTL DEF IInv

(* When different parts have different hashes, the result is the shortest  *)
(* unique part and the leftmost of its length, and it is missing only if   *)
(* there is none.                                                          *)
THEOREM FirstUnique == IndexSpec => []ShortestFound
BY SearchInvariant, PTL DEF IInv

(* The index holds occurrences of paths, and the loops stay in range.      *)
THEOREM SearchTypes == IndexSpec => []IndexTypeOK
BY SearchInvariant, PTL DEF IInv

-----------------------------------------------------------------------------
(* Paths as the CFG makes them: of two blocks at least, from an entry that *)
(* no branch leads to, to a block that no branch leaves.                   *)
WholePaths(L) ==
    \A p, q \in 1 .. Len(L) :
        /\ Len(L[p]) >= 2
        /\ L[p][1] = L[q][1]
        /\ \A k \in 2 .. Len(L[p]) : L[p][k] # L[q][1]
        /\ \A k \in 1 .. Len(L[p]) - 1 : L[p][k] # L[q][Len(L[q])]

\* A whole path occurs at the start of a path that is the same, and nowhere else.
LEMMA WholeOnce ==
    ASSUME IndexTypeOK, WholePaths(sequences), \A p \in Ids : sequences[p] = seq => p = id
    PROVE  <<Len(seq), 1>> \in Parts /\ UniquePart(PartAt(<<Len(seq), 1>>))
<1> DEFINE len == Len(seq)
<1>1. seq \in Seq(0 .. A - 1) /\ len \in Nat /\ len >= 2 /\ id \in Ids
  BY SeqType DEF IndexTypeOK, WholePaths, Ids, seq
<1>2. <<len, 1>> \in Parts
  BY <1>1 DEF Parts
<1>3. PartAt(<<len, 1>>) = seq
  <2>1. SubSeq(seq, 1, len) = seq
    BY <1>1
  <2>2. PartAt(<<len, 1>>) = SubSeq(seq, 1, 1 + len - 1) /\ 1 + len - 1 = len
    BY <1>1 DEF PartAt
  <2> QED  BY <2>1, <2>2
<1>4. <<id, 1, len>> \in Places(seq)
  <2>1. 1 \in 1 .. Len(sequences[id]) - len + 1
    BY <1>1 DEF seq
  <2>2. <<id, 1, len>> \in Occurrences(len)
    BY <1>1, <2>1, OccurrenceMember
  <2>3. Part(<<id, 1, len>>) = seq
    BY <1>3 DEF Part, PartAt, seq
  <2> QED  BY <2>2, <2>3 DEF Places
<1>5. ASSUME NEW o \in Places(seq) PROVE o = <<id, 1, len>>
  <2>1. o \in Occurrences(len) /\ Part(o) = seq
    BY DEF Places
  <2>2. PICK p \in Ids : \E j \in 1 .. Len(sequences[p]) - len + 1 : o = <<p, j, len>>
    BY <2>1, OccurrenceMember
  <2>3. PICK j \in 1 .. Len(sequences[p]) - len + 1 : o = <<p, j, len>>
    BY <2>2
  <2>4. sequences[p] \in Seq(0 .. A - 1) /\ Len(sequences[p]) \in Nat
    BY PathType
  <2>5. seq = SubSeq(sequences[p], j, j + len - 1)
    BY <2>1, <2>3 DEF Part
  <2>6. \A k \in 1 .. len : seq[k] = sequences[p][j + k - 1]
    BY <1>1, <2>4, <2>5
  <2>7. j = 1
    <3> SUFFICES ASSUME j # 1 PROVE FALSE
      OBVIOUS
    <3>1. j \in 2 .. Len(sequences[p])
      BY <1>1, <2>4
    <3>2. sequences[p][j] # seq[1]
      BY <1>1, <3>1 DEF WholePaths, Ids, seq
    <3>3. seq[1] = sequences[p][j]
      BY <1>1, <2>6
    <3> QED  BY <3>2, <3>3
  <2>8. Len(sequences[p]) = len
    <3> SUFFICES ASSUME Len(sequences[p]) # len PROVE FALSE
      OBVIOUS
    <3>1. len \in 1 .. Len(sequences[p]) - 1
      BY <1>1, <2>4
    <3>2. sequences[p][len] # seq[len]
      BY <1>1, <3>1 DEF WholePaths, Ids, seq
    <3>3. seq[len] = sequences[p][len]
      BY <1>1, <2>6, <2>7
    <3> QED  BY <3>2, <3>3
  <2>9. sequences[p] = seq
    BY <1>1, <2>4, <2>5, <2>7, <2>8
  <2> QED  BY <2>3, <2>7, <2>9
<1>6. Places(seq) = {<<id, 1, len>>}
  BY <1>4, <1>5
<1>7. UniquePart(seq)
  <2>1. Cardinality(Places(seq)) = 1
    BY <1>6, FS_Singleton
  <2> QED  BY <1>1, <2>1 DEF UniquePart
<1> QED  BY <1>2, <1>3, <1>7

(* For all lists of whole paths: a path that is in the list once gets a    *)
(* target, unless different parts share an entry of the index.             *)
THEOREM DistinctTargeted ==
    (\A L \in PathLists : WholePaths(L)) => (IndexSpec => []DistinctPathTargeted)
<1> SUFFICES ASSUME \A L \in PathLists : WholePaths(L)
             PROVE  IndexSpec => []DistinctPathTargeted
  OBVIOUS
<1> DEFINE Whole == WholePaths(sequences)
<1>1. IndexInit => Whole
  BY DEF IndexInit
<1>2. Whole /\ [IndexNext]_indexVars => Whole'
  <2> SUFFICES ASSUME Whole, [IndexNext]_indexVars PROVE Whole'
    OBVIOUS
  <2>1. sequences' = sequences
    BY DEF IndexNext, Look, NextLength, NoneFound, indexVars
  <2> QED  BY <2>1 DEF WholePaths
<1>3. IInv /\ Whole => DistinctPathTargeted
  BY WholeOnce DEF IInv, ShortestFound, DistinctPathTargeted
<1> QED  BY <1>1, <1>2, <1>3, SearchInvariant, PTL DEF IndexSpec

-----------------------------------------------------------------------------
(* The generator and its script.                                           *)

(* The inductive invariant of the generator: how far the list of paths is  *)
(* on the command line, how much of that the script has checked and run,   *)
(* and how much of what was found it has read.                             *)

\* Up to the start of KLEE nothing has been run, and before the results are
\* read nothing has been kept.
NothingYet ==
    /\ pc \in {"driver", "compile"} => n = 1 /\ klee_cmd = << >>
    /\ pc \in {"driver", "compile", "instrument"} => valid_ir_files = << >>
    /\ pc \in {"driver", "compile", "instrument", "check"} =>
           \A p \in Paths : outcome[p] = "none"
    /\ pc # "parse" => pending = {}
    /\ pc \notin {"parse", "true"} => ktests = << >>
    /\ pc # "true" => suite = NoSuite

\* The file of a path that got a target is written at once.
Written == \A p \in HasTarget : file[p] = "run"

\* The first m paths are on the command line.
Commanded(m) == Len(klee_cmd) = m /\ \A k \in 1 .. m : klee_cmd[k] = paths[k]
CommandLine ==
    /\ pc = "instrument" => Commanded(n - 1)
    /\ pc \in {"check", "klee", "parse", "true"} => Commanded(Len(paths))

\* The script has kept those of the first m that exist, and nothing else.
Checked(m) ==
    /\ Len(valid_ir_files) <= m
    /\ \A k \in 1 .. Len(valid_ir_files) :
           \E j \in 1 .. m : valid_ir_files[k] = paths[j]
    /\ \A j \in 1 .. m : file[paths[j]] # "none" =>
           \E k \in 1 .. Len(valid_ir_files) : valid_ir_files[k] = paths[j]
FilesChecked ==
    /\ pc = "check" => Checked(n - 1)
    /\ pc \in {"klee", "parse", "true"} => Checked(Len(paths)) /\ n <= Len(valid_ir_files) + 1

\* KLEE has been run on the first m files, and on no other.
Tried(m) == \A k \in 1 .. m : outcome[valid_ir_files[k]] # "none"
Runs ==
    /\ pc = "klee" => Tried(n - 1)
    /\ pc \in {"parse", "true"} => Tried(Len(valid_ir_files))
    /\ \A p \in Paths : outcome[p] # "none" =>
           \E k \in 1 .. Len(valid_ir_files) : valid_ir_files[k] = p

\* What has been read of the first m directories is kept or still to come.
Read(m) == {ktests[k] : k \in 1 .. Len(ktests)} \cup pending
               = UNION {InputsOf(j) : j \in 1 .. m}
Reading ==
    /\ pc = "parse" => Read(n) /\ pending \subseteq InputsOf(n)
    /\ pc = "true" => Read(Len(valid_ir_files)) /\ suite = [written |-> TRUE, tests |-> ktests]

\* No two inputs that were kept are the same.
KeptOnce == \A j, k \in 1 .. Len(ktests) : ktests[j] = ktests[k] => j = k

GenInv == /\ TypeOK /\ NothingYet /\ Written /\ CommandLine /\ FilesChecked
          /\ Runs /\ Reading /\ KeptOnce

\* ToSet of a sequence, by its indexes.
LEMMA ToSetOfSeq ==
    ASSUME NEW S, NEW s \in Seq(S)
    PROVE  ToSet(s) = {s[k] : k \in 1 .. Len(s)}
BY DEF ToSet

LEMMA KeptSet == GenInv => ToSet(ktests) = {ktests[k] : k \in 1 .. Len(ktests)}
<1>1. GenInv => ktests \in Seq(Inputs)
  BY DEF GenInv, TypeOK
<1> QED BY <1>1, ToSetOfSeq

\* Nothing has been done at first, whatever files an earlier run has left.
LEMMA GenInit ==
    ASSUME Init
    PROVE  GenInv
<1>1. paths \in Seq(Paths)
  BY GeneratorAssumption DEF Init, GeneratorAssumption
<1>2. << >> \in Seq(Paths) /\ << >> \in Seq(Inputs) /\ Len(<< >>) = 0 /\ Len(paths) \in Nat
  BY <1>1
<1>3. TypeOK
  BY <1>1, <1>2 DEF Init, TypeOK, NoSuite
<1>4. NothingYet /\ Written /\ CommandLine /\ FilesChecked
  BY DEF Init, NothingYet, Written, CommandLine, FilesChecked
<1>5. Runs /\ Reading /\ KeptOnce
  BY <1>2 DEF Init, Runs, Reading, KeptOnce
<1> QED BY <1>3, <1>4, <1>5 DEF GenInv

\* run() writes a file for each path with a target, over the old ones; the
\* script may end before it has read anything.
LEMMA GenBefore ==
    ASSUME GenInv,
           \/ Driver \/ Compile \/ \E target \in BOOLEAN : Instrument(target)
           \/ system \/ ListdirRaises
    PROVE  GenInv'
<1>1. CASE Driver
  BY <1>1 DEF Driver, given, GenInv, TypeOK, NothingYet, Written,
     CommandLine, FilesChecked, Runs, Reading, KeptOnce, InputsOf
<1>2. CASE Compile
  <2>1. (TypeOK /\ NothingYet /\ Written /\ FilesChecked /\ Runs /\ Reading /\ KeptOnce)'
    BY <1>2 DEF Compile, given, GenInv, TypeOK, NothingYet, Written,
       FilesChecked, Runs, Reading, KeptOnce
  <2>2. CommandLine'
    BY <1>2 DEF Compile, given, GenInv, TypeOK, NothingYet,
       CommandLine, Commanded
  <2> QED BY <2>1, <2>2 DEF GenInv
<1>3. CASE \E target \in BOOLEAN : Instrument(target)
  <2>0. PICK target \in BOOLEAN : Instrument(target)
    BY <1>3
  <2>1. /\ n \in 1 .. Len(paths) /\ paths[n] \in Paths /\ Len(paths) \in Nat
        /\ klee_cmd' \in Seq(Paths) /\ Len(klee_cmd) \in Nat
        /\ Len(klee_cmd') = Len(klee_cmd) + 1
        /\ \A k \in 1 .. Len(klee_cmd) : klee_cmd'[k] = klee_cmd[k]
        /\ klee_cmd'[Len(klee_cmd) + 1] = paths[n]
    BY <2>0 DEF Instrument, GenInv, TypeOK
  <2>2. file' \in [Paths -> {"none", "run", "old"}] /\
        \A p \in Paths : file'[p] = IF p = paths[n] /\ target THEN "run" ELSE file[p]
    BY <2>0, <2>1 DEF Instrument, generateInstrumentedIR, GenInv, TypeOK
  <2>3. HasTarget' = IF target THEN HasTarget \cup {paths[n]} ELSE HasTarget
    BY <2>0 DEF Instrument
  <2>4. /\ pc = "instrument" /\ n' = n + 1
        /\ UNCHANGED <<pc, driver, driverFile, paths, outcome, found, pending, ktests, suite,
                       valid_ir_files>>
    BY <2>0 DEF Instrument
  <2>5. TypeOK'
    BY <2>1, <2>2, <2>3, <2>4 DEF GenInv, TypeOK
  <2>6. (NothingYet /\ KeptOnce)'
    BY <2>4 DEF GenInv, NothingYet, KeptOnce
  <2>7. (FilesChecked /\ Reading)'
    BY <2>4 DEF FilesChecked, Reading
  <2>8. Runs'
    BY <2>4 DEF GenInv, Runs
  <2>9. CommandLine'
    <3>1. Commanded(n - 1)
      BY <2>4 DEF GenInv, CommandLine
    <3>2. \A k : k \in 1 .. n <=> k \in 1 .. n - 1 \/ k = n
      BY <2>1
    <3>3. Len(klee_cmd') = n /\ n' - 1 = n
      BY <2>1, <2>4, <3>1 DEF Commanded
    <3>4. \A k \in 1 .. n : klee_cmd'[k] = paths[k]
      BY <2>1, <3>1, <3>2 DEF Commanded
    <3> QED  BY <2>4, <3>3, <3>4 DEF CommandLine, Commanded
  <2>10. Written'
    BY <2>1, <2>2, <2>3 DEF GenInv, TypeOK, Written
  <2> QED BY <2>5, <2>6, <2>7, <2>8, <2>9, <2>10 DEF GenInv
<1>4. CASE system
  <2>1. (TypeOK /\ NothingYet /\ Written /\ Runs /\ Reading /\ KeptOnce)'
    BY <1>4 DEF system, given, GenInv, TypeOK, NothingYet, Written,
       Runs, Reading, KeptOnce
  <2>2. CommandLine'
    <3>1. n - 1 = Len(paths) /\ pc = "instrument" /\ pc' # "instrument"
          /\ UNCHANGED <<paths, HasTarget, file, klee_cmd>>
      BY <1>4 DEF system, given, GenInv, TypeOK
    <3>2. Commanded(Len(paths))
      BY <3>1 DEF GenInv, CommandLine
    <3>3. Commanded(Len(paths))'
      BY <3>1, <3>2 DEF Commanded
    <3> QED BY <3>1, <3>3 DEF CommandLine
  <2>3. FilesChecked'
    BY <1>4 DEF system, given, GenInv, TypeOK, NothingYet,
       FilesChecked, Checked
  <2> QED BY <2>1, <2>2, <2>3 DEF GenInv
<1>5. CASE ListdirRaises
  BY <1>5 DEF ListdirRaises, given, GenInv, TypeOK,
     NothingYet, Written, CommandLine, FilesChecked, Runs, Reading, KeptOnce
<1> QED BY <1>1, <1>2, <1>3, <1>4, <1>5

\* The script leaves out files that do not exist, so none with a target.
LEMMA GenCheck ==
    ASSUME GenInv, checkFile \/ klee_execute_ir_files
    PROVE  GenInv'
<1>1. CASE checkFile
  <2>0. /\ n \in 1 .. Len(paths) /\ Len(paths) \in Nat
        /\ klee_cmd[n] = paths[n] /\ paths[n] \in Paths
        /\ Len(valid_ir_files) \in Nat /\ n' = n + 1
    BY <1>1 DEF checkFile, GenInv, TypeOK, CommandLine, Commanded
  <2>1. \/ /\ file[paths[n]] = "none" /\ valid_ir_files' = valid_ir_files
        \/ /\ file[paths[n]] # "none"
           /\ valid_ir_files' \in Seq(Paths) /\ Len(valid_ir_files') = Len(valid_ir_files) + 1
           /\ \A k \in 1 .. Len(valid_ir_files) : valid_ir_files'[k] = valid_ir_files[k]
           /\ valid_ir_files'[Len(valid_ir_files) + 1] = paths[n]
    BY <1>1, <2>0 DEF checkFile, GenInv, TypeOK
  <2>2. (TypeOK /\ NothingYet /\ Written /\ Reading /\ KeptOnce)'
    BY <1>1, <2>0, <2>1 DEF checkFile, given, GenInv, TypeOK,
       NothingYet, Written, Reading, KeptOnce
  <2>3. CommandLine'
    BY <1>1 DEF checkFile, given, GenInv, TypeOK,
       CommandLine, Commanded
  <2>4. FilesChecked'
    <3>1. pc = "check" /\ UNCHANGED <<pc, paths, file>>
      BY <1>1 DEF checkFile, given
    <3>2. Checked(n - 1)
      BY <3>1 DEF GenInv, FilesChecked
    <3>3. \A j : j \in 1 .. n <=> j \in 1 .. n - 1 \/ j = n
      BY <2>0
    <3>4. Len(valid_ir_files') <= n
      BY <2>0, <2>1, <3>2 DEF Checked
    <3>5. \A k \in 1 .. Len(valid_ir_files') : \E j \in 1 .. n : valid_ir_files'[k] = paths[j]
      BY <2>0, <2>1, <3>2, <3>3 DEF Checked
    <3>6. ASSUME NEW j \in 1 .. n, file[paths[j]] # "none"
          PROVE  \E k \in 1 .. Len(valid_ir_files') : valid_ir_files'[k] = paths[j]
      <4>1. CASE j = n
        BY <2>0, <2>1, <3>6, <4>1
      <4>2. CASE j \in 1 .. n - 1
        <5>1. PICK k \in 1 .. Len(valid_ir_files) : valid_ir_files[k] = paths[j]
          BY <3>2, <3>6, <4>2 DEF Checked
        <5> QED BY <2>0, <2>1, <5>1
      <4> QED BY <3>3, <4>1, <4>2
    <3>7. n' - 1 = n
      BY <2>0
    <3> QED BY <3>1, <3>4, <3>5, <3>6, <3>7 DEF FilesChecked, Checked
  <2>5. Runs'
    BY <1>1 DEF checkFile, given, GenInv, TypeOK, Runs,
       NothingYet
  <2> QED BY <2>2, <2>3, <2>4, <2>5 DEF GenInv
<1>2. CASE klee_execute_ir_files
  <2>0. n = Len(paths) + 1 /\ Len(paths) \in Nat /\ Len(valid_ir_files) \in Nat
    BY <1>2 DEF klee_execute_ir_files, GenInv, TypeOK, CommandLine,
       Commanded
  <2>1. (TypeOK /\ NothingYet /\ Written /\ Reading /\ KeptOnce)'
    BY <1>2, <2>0 DEF klee_execute_ir_files, given, GenInv,
       TypeOK, NothingYet, Written, Reading, KeptOnce
  <2>2. CommandLine'
    BY <1>2 DEF klee_execute_ir_files, given, GenInv, CommandLine,
       Commanded
  <2>4. FilesChecked'
    <3>1. pc = "check" /\ n - 1 = Len(paths) /\ pc' = "klee" /\ n' = 1
          /\ UNCHANGED <<file, paths, valid_ir_files>>
      BY <1>2, <2>0 DEF klee_execute_ir_files, given
    <3>2. Checked(Len(paths))
      BY <3>1 DEF GenInv, FilesChecked
    <3>3. 1 <= Len(valid_ir_files) + 1
      BY <2>0
    <3>4. (pc = "check" => Checked(n - 1))'
      BY <3>1
    <3>5. Checked(Len(paths))'
      BY <3>1, <3>2 DEF Checked
    <3>6. n' <= Len(valid_ir_files') + 1
      BY <3>1, <3>3
    <3> HIDE DEF Checked
    <3> QED BY <3>1, <3>4, <3>5, <3>6 DEF FilesChecked
  <2>3. Runs'
    BY <1>2 DEF klee_execute_ir_files, given, GenInv, TypeOK,
       Runs, NothingYet, Tried
  <2> QED BY <2>1, <2>2, <2>3, <2>4 DEF GenInv
<1> QED BY <1>1, <1>2

\* A run of KLEE, to its end or to the timeout, is a try of one more file.
LEMMA GenRun ==
    ASSUME GenInv, WaitEnds \/ TimeoutExpired
    PROVE  GenInv'
<1>1. /\ pc = "klee" /\ n \in 1 .. Len(valid_ir_files) /\ valid_ir_files[n] \in Paths
      /\ Len(valid_ir_files) \in Nat /\ Len(valid_ir_files) <= Len(paths)
      /\ Len(paths) \in Nat /\ n' = n + 1
  BY DEF WaitEnds, TimeoutExpired, GenInv, TypeOK,
     FilesChecked, Checked
<1>2. PICK r \in {"success", "timeout"} :
          outcome' = [outcome EXCEPT ![valid_ir_files[n]] = r]
  BY DEF WaitEnds, TimeoutExpired
<1>3. /\ outcome' \in [Paths -> {"none", "timeout", "success"}]
      /\ \A p \in Paths : outcome'[p] = IF p = valid_ir_files[n] THEN r ELSE outcome[p]
  BY <1>1, <1>2 DEF GenInv, TypeOK
<1>4. found' \in [Paths -> SUBSET Inputs]
  <2>1. PICK S \in Finds[valid_ir_files[n]] : found' = [found EXCEPT ![valid_ir_files[n]] = S]
    BY DEF WaitEnds, TimeoutExpired
  <2>2. S \in SUBSET Inputs
    BY <1>1, GeneratorAssumption DEF GeneratorAssumption
  <2> QED BY <1>1, <2>1, <2>2 DEF GenInv, TypeOK
<1>5. UNCHANGED <<pc, given, file, klee_cmd, valid_ir_files, pending, ktests, suite>>
  BY DEF WaitEnds, TimeoutExpired
<1>6. TypeOK'
  BY <1>1, <1>3, <1>4, <1>5 DEF GenInv, TypeOK, given
<1>7. (NothingYet /\ Written /\ Reading /\ KeptOnce)'
  BY <1>1, <1>5 DEF GenInv, NothingYet, Written, Reading, KeptOnce, given
<1>8. (CommandLine /\ FilesChecked)'
  BY <1>1, <1>5 DEF GenInv, CommandLine, Commanded, FilesChecked, Checked, given
<1>9. Runs'
  <2>1. Tried(n - 1) /\ \A p \in Paths : outcome[p] # "none" =>
            \E k \in 1 .. Len(valid_ir_files) : valid_ir_files[k] = p
    BY <1>1 DEF GenInv, Runs
  <2>2. \A k \in 1 .. n : outcome'[valid_ir_files[k]] # "none"
    <3>1. \A k \in 1 .. n : valid_ir_files[k] \in Paths
      BY <1>1 DEF GenInv, TypeOK
    <3>2. \A k \in 1 .. n - 1 : outcome[valid_ir_files[k]] # "none"
      BY <2>1 DEF Tried
    <3>3. \A k \in 1 .. n : k \in 1 .. n - 1 \/ k = n
      BY <1>1
    <3>4. r # "none"
      OBVIOUS
    <3> QED BY ONLY <1>3, <3>1, <3>2, <3>3, <3>4
  <2>3. \A p \in Paths : outcome'[p] # "none" =>
            \E k \in 1 .. Len(valid_ir_files') : valid_ir_files'[k] = p
    BY <1>1, <1>3, <1>5, <2>1
  <2>4. n' - 1 = n /\ pc' = "klee" /\ valid_ir_files' = valid_ir_files
    BY <1>1, <1>5
  <2> QED BY <2>2, <2>3, <2>4 DEF Runs, Tried
<1> QED BY <1>6, <1>7, <1>8, <1>9 DEF GenInv

\* Reading moves inputs from a directory to the suite and drops known ones.
LEMMA GenRead ==
    ASSUME GenInv,
           \/ RunsDone
           \/ \E x \in Inputs : fromfile(x)
           \/ nextFile \/ dump_ktests
    PROVE  GenInv'
<1>0. /\ Len(valid_ir_files) \in Nat /\ Len(paths) \in Nat
      /\ pc \in {"klee", "parse"} /\ Len(valid_ir_files) <= Len(paths)
      /\ n \in 1 .. Len(valid_ir_files) + 1
  BY DEF RunsDone, fromfile, nextFile, dump_ktests,
     GenInv, TypeOK, FilesChecked, Checked
<1>1. UNCHANGED <<given, file, klee_cmd, valid_ir_files, outcome, found>>
  BY DEF RunsDone, fromfile, nextFile, dump_ktests
<1>2. \A k \in Nat \ {0} : /\ InputsOf(k) \in SUBSET Inputs
                          /\ (InputsOf(k))' = InputsOf(k)
  <2> SUFFICES ASSUME NEW k \in Nat \ {0}
               PROVE  /\ InputsOf(k) \in SUBSET Inputs
                      /\ (InputsOf(k))' = InputsOf(k)
    OBVIOUS
  <2>1. k <= Len(valid_ir_files) => valid_ir_files[k] \in Paths
    BY <1>0 DEF GenInv, TypeOK
  <2> QED BY <1>1, <2>1 DEF InputsOf, GenInv, TypeOK
<1>3. pc' \in {"parse", "true"} /\ n' \in 1 .. Len(valid_ir_files) + 1
  BY <1>0 DEF RunsDone, fromfile, nextFile,
     dump_ktests
<1>4. (CommandLine /\ FilesChecked)'
  <2>1. Commanded(Len(paths)) /\ Checked(Len(paths))
    BY <1>0 DEF GenInv, CommandLine, FilesChecked
  <2>2. (Commanded(Len(paths)) /\ Checked(Len(paths)))'
    BY <1>1, <2>1 DEF Commanded, Checked, given
  <2> QED BY <1>0, <1>1, <1>3, <2>2 DEF CommandLine, FilesChecked
<1>5. Runs'
  <2>1. Tried(Len(valid_ir_files))
    BY <1>0 DEF GenInv, Runs, RunsDone, fromfile, nextFile,
       dump_ktests, Tried
  <2> QED BY <1>1, <1>3, <2>1 DEF Runs, Tried, GenInv
<1>6. ASSUME pending' \subseteq Inputs, ktests' \in Seq(Inputs),
             suite' \in [written : BOOLEAN, tests : Seq(Inputs)],
             (NothingYet /\ Reading /\ KeptOnce)'
      PROVE  GenInv'
  BY <1>0, <1>1, <1>3, <1>4, <1>5, <1>6 DEF GenInv, TypeOK, Written, given
<1> DEFINE Kept == {ktests[k] : k \in 1 .. Len(ktests)}
<1>7. CASE RunsDone
  <2>1. /\ pc' = "parse" /\ n' = 1 /\ pending' = InputsOf(1)
        /\ UNCHANGED <<ktests, suite>>
    BY <1>7 DEF RunsDone
  <2>2. ktests = << >> /\ suite = NoSuite
    BY <1>7 DEF RunsDone, GenInv, NothingYet
  <2>3. (NothingYet /\ KeptOnce)'
    BY <2>1, <2>2 DEF NothingYet, KeptOnce, GenInv
  <2>4. Reading'
    <3>1. {ktests'[k] : k \in 1 .. Len(ktests')} = {}
      BY <2>1, <2>2
    <3>2. UNION {(InputsOf(j))' : j \in 1 .. n'} = InputsOf(1)
      BY <1>2, <2>1
    <3>3. pending' \subseteq (InputsOf(n))'
      BY <1>2, <2>1 DEF InputsOf
    <3> QED BY <2>1, <3>1, <3>2, <3>3 DEF Reading, Read
  <2> QED BY <1>2, <1>6, <2>1, <2>2, <2>3, <2>4 DEF GenInv, TypeOK
<1>8. CASE \E x \in Inputs : fromfile(x)
  <2>0. PICK x \in Inputs : fromfile(x)
    BY <1>8
  <2>1. /\ pc = "parse" /\ x \in pending /\ pending' = pending \ {x}
        /\ ktests' = IF x \in Kept THEN ktests ELSE Append(ktests, x)
        /\ UNCHANGED <<pc, n, suite>>
    <3>1. ToSet(ktests) = Kept
      BY KeptSet
    <3> HIDE DEF Kept
    <3> QED BY <2>0, <3>1 DEF fromfile, seen
  <2>2. ktests \in Seq(Inputs) /\ Len(ktests) \in Nat
    BY DEF GenInv, TypeOK
  <2>3. /\ ktests' \in Seq(Inputs)
        /\ {ktests'[k] : k \in 1 .. Len(ktests')} = Kept \cup {x}
        /\ KeptOnce'
    <3>1. CASE x \in Kept
      BY <2>1, <2>2, <3>1 DEF GenInv, KeptOnce
    <3>2. CASE x \notin Kept
      <4>1. /\ ktests' \in Seq(Inputs) /\ Len(ktests') = Len(ktests) + 1
            /\ \A k \in 1 .. Len(ktests) : ktests'[k] = ktests[k]
            /\ ktests'[Len(ktests) + 1] = x
        BY <2>1, <2>2, <3>2
      <4>2. {ktests'[k] : k \in 1 .. Len(ktests')} = Kept \cup {x}
        BY <2>2, <4>1
      <4>3. KeptOnce'
        BY <2>2, <3>2, <4>1 DEF GenInv, KeptOnce
      <4> QED BY <4>1, <4>2, <4>3
    <3> QED BY <3>1, <3>2
  <2>4. NothingYet'
    BY <1>1, <2>1 DEF GenInv, NothingYet
  <2>5. Reading'
    <3>1. Kept \cup pending = UNION {InputsOf(j) : j \in 1 .. n}
      BY <2>1 DEF GenInv, Reading, Read
    <3>2. UNION {(InputsOf(j))' : j \in 1 .. n'}
              = UNION {InputsOf(j) : j \in 1 .. n}
      BY <1>2, <2>1
    <3>3. (Kept \cup {x}) \cup pending' = Kept \cup pending
      BY <2>1
    <3>4. pending' \subseteq (InputsOf(n))'
      BY <1>1, <2>1 DEF GenInv, Reading, InputsOf
    <3> HIDE DEF Kept
    <3> QED BY <2>1, <2>3, <3>1, <3>2, <3>3, <3>4 DEF Reading, Read
  <2> QED BY <1>6, <2>1, <2>3, <2>4, <2>5 DEF GenInv, TypeOK
<1>9. CASE nextFile
  <2>1. /\ pc = "parse" /\ n <= Len(valid_ir_files) /\ n' = n + 1 /\ pending = {}
        /\ pending' = InputsOf(n + 1) /\ UNCHANGED <<pc, ktests, suite>>
    BY <1>9 DEF nextFile
  <2>2. (NothingYet /\ KeptOnce)'
    BY <1>1, <2>1 DEF GenInv, NothingYet, KeptOnce
  <2>3. Reading'
    <3>1. Kept = UNION {InputsOf(j) : j \in 1 .. n}
      BY <2>1 DEF GenInv, Reading, Read
    <3>2. UNION {(InputsOf(j))' : j \in 1 .. n + 1}
              = (UNION {InputsOf(j) : j \in 1 .. n}) \cup InputsOf(n + 1)
      <4>1. \A j : j \in 1 .. n + 1 <=> j \in 1 .. n \/ j = n + 1
        BY <1>0
      <4> QED BY <1>2, <4>1
    <3> HIDE DEF Kept
    <3>3. Kept' = Kept
      BY <2>1 DEF Kept
    <3>4. Kept' \cup pending' = UNION {(InputsOf(j))' : j \in 1 .. n + 1}
      BY <2>1, <3>1, <3>2, <3>3
    <3>5. pending' \subseteq (InputsOf(n))'
      BY <1>1, <2>1 DEF InputsOf
    <3> QED BY <2>1, <3>4, <3>5 DEF Reading, Read, Kept
  <2> QED BY <1>2, <1>6, <2>1, <2>2, <2>3 DEF GenInv, TypeOK
<1>10. CASE dump_ktests
  <2>1. /\ pc = "parse" /\ n = Len(valid_ir_files) + 1 /\ pc' = "true"
        /\ suite' = [written |-> TRUE, tests |-> ktests] /\ UNCHANGED <<n, pending, ktests>>
    BY <1>0, <1>10 DEF dump_ktests
  <2>2. InputsOf(n) = {}
    BY <1>0, <2>1 DEF InputsOf
  <2>3. Kept \cup pending = UNION {InputsOf(j) : j \in 1 .. n}
    BY <2>1 DEF GenInv, Reading, Read
  <2>4. UNION {(InputsOf(j))' : j \in 1 .. Len(valid_ir_files')}
            = UNION {InputsOf(j) : j \in 1 .. n}
    <3>1. \A j : j \in 1 .. n <=> j \in 1 .. Len(valid_ir_files') \/ j = n
      BY <1>0, <1>1, <2>1
    <3> QED BY <1>2, <2>2, <3>1
  <2>5. Reading'
    BY <2>1, <2>3, <2>4 DEF Reading, Read
  <2>7. pending = {}
    BY <2>1, <2>2 DEF GenInv, Reading
  <2>6. (NothingYet /\ KeptOnce)'
    BY <1>1, <2>1, <2>7 DEF GenInv, NothingYet, KeptOnce
  <2> QED BY <1>6, <2>1, <2>5, <2>6 DEF GenInv, TypeOK
<1> QED BY <1>7, <1>8, <1>9, <1>10

\* No step of the generator breaks the invariant.
LEMMA GenStep == GenInv /\ [Next]_vars => GenInv'
<1> SUFFICES ASSUME GenInv, [Next]_vars PROVE GenInv'
  OBVIOUS
<1>1. CASE UNCHANGED vars
  <2>1. UNCHANGED <<pc, driver, driverFile, paths, HasTarget, file, klee_cmd, valid_ir_files,
                    n, outcome, found, pending, ktests, suite>>
    BY <1>1 DEF vars, given
  <2>2. (TypeOK /\ NothingYet /\ Written)'
    BY <2>1 DEF GenInv, TypeOK, NothingYet, Written
  <2>3. (CommandLine /\ FilesChecked)'
    BY <2>1 DEF GenInv, CommandLine, Commanded, FilesChecked, Checked
  <2>4. (Runs /\ KeptOnce)'
    BY <2>1 DEF GenInv, Runs, Tried, KeptOnce
  <2>5. Reading'
    <3>1. \A j : (InputsOf(j))' = InputsOf(j)
      BY <2>1 DEF InputsOf
    <3> QED BY <2>1, <3>1 DEF GenInv, Reading, Read
  <2> QED BY <2>2, <2>3, <2>4, <2>5 DEF GenInv
<1> QED BY <1>1, GenBefore, GenCheck, GenRun, GenRead DEF Next, Around

(* The invariant holds in every state: for all lists of paths and whatever *)
(* KLEE may find.                                                          *)
THEOREM GeneratorInvariant == Spec => []GenInv
BY GenInit, GenStep, PTL DEF Spec

(* Every input of a run of KLEE that ended in time is written, and none is *)
(* written twice, in whatever order directories are listed and for however *)
(* many paths it is found: EachInputOnce.                                  *)
THEOREM InputsOnce == Spec => []EachInputOnce
<1>1. GenInv => EachInputOnce
  <2> SUFFICES ASSUME GenInv, suite.written
               PROVE  IsInjective(suite.tests)
                      /\ ToSet(suite.tests) = UNION {found[p] : p \in Succeeded}
    BY DEF EachInputOnce
  <2>1. pc = "true" /\ suite.tests = ktests /\ pending = {} /\ Read(Len(valid_ir_files))
    BY DEF GenInv, NothingYet, NoSuite, Reading
  <2>2. ToSet(suite.tests)
            = UNION {InputsOf(j) : j \in 1 .. Len(valid_ir_files)}
    <3>1. ToSet(ktests) = {ktests[k] : k \in 1 .. Len(ktests)}
      BY KeptSet
    <3> QED BY <2>1, <3>1 DEF Read
  <2>3. ASSUME NEW p \in Succeeded
        PROVE  \E j \in 1 .. Len(valid_ir_files) : InputsOf(j) = found[p]
    <3>1. p \in Paths /\ outcome[p] = "success"
      BY DEF Succeeded
    <3>2. PICK j \in 1 .. Len(valid_ir_files) : valid_ir_files[j] = p
      BY <3>1 DEF GenInv, Runs
    <3>3. j <= Len(valid_ir_files)
      BY DEF GenInv, TypeOK
    <3> QED BY <3>1, <3>2, <3>3 DEF InputsOf
  <2>4. ASSUME NEW j \in 1 .. Len(valid_ir_files)
        PROVE  \/ InputsOf(j) = {}
               \/ \E p \in Succeeded : InputsOf(j) = found[p]
    BY DEF GenInv, TypeOK, Succeeded, InputsOf
  <2>5. IsInjective(suite.tests)
    BY <2>1 DEF GenInv, TypeOK, KeptOnce, IsInjective
  <2> QED BY <2>2, <2>3, <2>4, <2>5
<1> QED BY <1>1, GeneratorInvariant, PTL

(* A timeout, or the removal of files that do not exist, costs no other    *)
(* path its run of KLEE: EveryTargetTried.                                 *)
THEOREM TargetsTried == Spec => []EveryTargetTried
<1>1. GenInv => EveryTargetTried
  <2> SUFFICES ASSUME GenInv, suite.written, NEW p \in ToSet(paths) \cap HasTarget
               PROVE  outcome[p] # "none"
    BY DEF EveryTargetTried
  <2>1. pc = "true"
    BY DEF GenInv, NothingYet, NoSuite
  <2>2. PICK j \in 1 .. Len(paths) : p = paths[j]
    <3>1. paths \in Seq(Paths)
      BY DEF GenInv, TypeOK
    <3>2. p \in {paths[k] : k \in 1 .. Len(paths)}
      BY <3>1, ToSetOfSeq
    <3> QED BY <3>2
  <2>3. file[paths[j]] # "none"
    BY <2>2 DEF GenInv, Written
  <2>4. PICK k \in 1 .. Len(valid_ir_files) : valid_ir_files[k] = p
    BY <2>1, <2>2, <2>3 DEF GenInv, FilesChecked, Checked
  <2> QED BY <2>1, <2>4 DEF GenInv, Runs, Tried
<1> QED BY <1>1, GeneratorInvariant, PTL

(* A path with a target is explored with the file of this run, although an *)
(* earlier run may have left one under the same name: TargetsFresh.        *)
THEOREM FilesFresh == Spec => []TargetsFresh
<1>1. GenInv => TargetsFresh
  BY DEF GenInv, Written, TargetsFresh
<1> QED BY <1>1, GeneratorInvariant, PTL

-----------------------------------------------------------------------------
(* The generator with the searches it makes.                               *)

\* The searches are steps of the generator, or leave it alone.
LEMMA GeneratorSteps == GenerationSpec => Spec
<1>1. GenerationInit => Init
  BY DEF GenerationInit
<1>2. [GenerationNext]_generationVars => [Next]_vars
  <2> SUFFICES ASSUME [GenerationNext]_generationVars PROVE [Next]_vars
    OBVIOUS
  <2>1. CASE getShortestUniqueSubSeq
    BY <2>1 DEF getShortestUniqueSubSeq
  <2>2. CASE setPathToInstrument
    <3>1. Instrument(result # << >>) /\ (result # << >>) \in BOOLEAN
      BY <2>2 DEF setPathToInstrument
    <3> QED  BY <3>1 DEF Next
  <2>3. CASE Around
    BY <2>3 DEF Next
  <2>4. CASE UNCHANGED generationVars
    BY <2>4 DEF generationVars
  <2> QED  BY <2>1, <2>2, <2>3, <2>4 DEF GenerationNext
<1> QED  BY <1>1, <1>2, PTL DEF GenerationSpec, Spec

\* What the generator is given stays as it is, and the paths with it.
LEMMA GivenStays ==
    ASSUME [GenerationNext]_generationVars
    PROVE  UNCHANGED <<paths, sequences>>
<1>1. CASE getShortestUniqueSubSeq
  BY <1>1 DEF getShortestUniqueSubSeq, IndexNext, Look, NextLength, NoneFound, vars, given
<1>2. CASE setPathToInstrument
  BY <1>2 DEF setPathToInstrument, Instrument, PathInstrument, indexVars
<1>3. CASE Around /\ UNCHANGED indexVars
  BY <1>3 DEF Around, Driver, Compile, system, checkFile, klee_execute_ir_files, WaitEnds,
     TimeoutExpired, ListdirRaises, RunsDone, fromfile, nextFile, dump_ktests, given, indexVars
<1>4. CASE UNCHANGED generationVars
  BY <1>4 DEF generationVars, vars, given, indexVars
<1> QED  BY <1>1, <1>2, <1>3, <1>4 DEF GenerationNext

\* The path whose part is searched is the one that comes next.
Given == \A k \in 1 .. Len(paths) : paths[k] + 1 \in Ids
Asked == pc \in {"driver", "compile", "instrument"} /\ n <= Len(paths) => id = paths[n] + 1

\* Those that came before have their target if they can have one.
HasOne(p) == WholePaths(sequences) /\ Distinct(p + 1) /\ HashesDiffer => p \in HasTarget
Served ==
    /\ pc = "instrument" => \A k \in 1 .. n - 1 : HasOne(paths[k])
    /\ pc \in {"check", "klee", "parse", "true"} => \A k \in 1 .. Len(paths) : HasOne(paths[k])

Steered == Given /\ Asked /\ Served

\* If no two parts share a hash, none do that are in the index.
LEMMA NoneCollide == IInv /\ HashesDiffer => Collisionless
<1> SUFFICES ASSUME IInv, HashesDiffer, NEW o \in index, NEW p \in index,
                    HashOf(Part(o)) = HashOf(Part(p))
             PROVE  Part(o) = Part(p)
  BY DEF Collisionless
<1>1. IndexTypeOK /\ l \in Nat
  BY DEF IInv, IndexTypeOK
<1>2. ASSUME NEW e \in index
      PROVE  \E q \in Ids : \E m \in 2 .. Len(sequences[q]) :
                 \E j \in 1 .. Len(sequences[q]) - m + 1 : e = <<q, j, m>>
  <2>1. PICK m \in 2 .. l : e \in Occurrences(m)
    BY DEF IInv, IndexComplete, Indexed
  <2>2. PICK q \in Ids : \E j \in 1 .. Len(sequences[q]) - m + 1 : e = <<q, j, m>>
    BY <2>1, OccurrenceMember
  <2>3. PICK j \in 1 .. Len(sequences[q]) - m + 1 : e = <<q, j, m>>
    BY <2>2
  <2>4. m \in 2 .. Len(sequences[q])
    BY <1>1, <2>3, PathType
  <2> QED  BY <2>3, <2>4
<1>3. PICK q \in Ids : \E m \in 2 .. Len(sequences[q]) :
               \E j \in 1 .. Len(sequences[q]) - m + 1 : o = <<q, j, m>>
  BY <1>2
<1>4. PICK m \in 2 .. Len(sequences[q]) : \E j \in 1 .. Len(sequences[q]) - m + 1 : o = <<q, j, m>>
  BY <1>3
<1>5. PICK j \in 1 .. Len(sequences[q]) - m + 1 : o = <<q, j, m>>
  BY <1>4
<1>6. PICK r \in Ids : \E k \in 2 .. Len(sequences[r]) :
               \E e \in 1 .. Len(sequences[r]) - k + 1 : p = <<r, e, k>>
  BY <1>2
<1>7. PICK k \in 2 .. Len(sequences[r]) : \E e \in 1 .. Len(sequences[r]) - k + 1 : p = <<r, e, k>>
  BY <1>6
<1>8. PICK e \in 1 .. Len(sequences[r]) - k + 1 : p = <<r, e, k>>
  BY <1>7
<1> HIDE DEF IInv
<1> QED  BY <1>5, <1>8 DEF HashesDiffer

\* A path that ends its search without a target shares its blocks.
LEMMA TargetFound ==
    ASSUME IInv, WholePaths(sequences), done, Distinct(id), HashesDiffer
    PROVE  result # << >>
<1>1. Collisionless
  BY NoneCollide
<1>2. IndexTypeOK /\ ShortestFound
  BY DEF IInv
<1>3. \A p \in Ids : sequences[p] = seq => p = id
  BY DEF Distinct, seq
<1>4. <<Len(seq), 1>> \in Parts /\ UniquePart(PartAt(<<Len(seq), 1>>))
  BY <1>2, <1>3, WholeOnce
<1> QED  BY <1>1, <1>2, <1>4 DEF ShortestFound

\* No step takes a target away or asks for the part of another path.
LEMMA SteeredStep ==
    ASSUME GenInv, IInv, Steered, [GenerationNext]_generationVars
    PROVE  IInv' /\ Steered'
<1>1. UNCHANGED <<paths, sequences>>
  BY GivenStays
<1>2. Given'
  BY <1>1 DEF Steered, Given, Ids
<1>3. /\ WholePaths(sequences)' <=> WholePaths(sequences)
      /\ \A p : Distinct(p + 1)' <=> Distinct(p + 1)
      /\ HashesDiffer' <=> HashesDiffer
  BY <1>1 DEF WholePaths, Distinct, HashesDiffer, Ids, Part
<1>4. Len(paths) \in Nat /\ n \in 1 .. Len(paths) + 1
  BY DEF GenInv, TypeOK
<1>5. CASE getShortestUniqueSubSeq
  <2>1. IndexNext /\ UNCHANGED <<pc, n, HasTarget>> /\ id' = id
    BY <1>5 DEF getShortestUniqueSubSeq, IndexNext, Look, NextLength, NoneFound, vars, given
  <2>2. IInv'
    BY <2>1, SearchStep
  <2>3. Asked'
    BY <1>1, <2>1 DEF Steered, Asked
  <2>4. Served'
    BY <1>1, <1>3, <2>1 DEF Steered, Served, HasOne
  <2> QED  BY <1>2, <2>2, <2>3, <2>4 DEF Steered
<1>6. CASE setPathToInstrument
  <2>1. /\ done /\ pc = "instrument" /\ pc' = pc /\ n \in 1 .. Len(paths) /\ n' = n + 1
        /\ HasTarget' = IF result # << >> THEN HasTarget \cup {paths[n]} ELSE HasTarget
    BY <1>4, <1>6 DEF setPathToInstrument, Instrument
  <2>2. id = paths[n] + 1
    BY <2>1 DEF Steered, Asked
  <2>3. \A p : p = paths[n] => HasOne(p)'
    <3>1. WholePaths(sequences) /\ Distinct(paths[n] + 1) /\ HashesDiffer => result # << >>
      BY <2>1, <2>2, TargetFound
    <3> QED  BY <1>3, <2>1, <3>1 DEF HasOne
  <2>4. ASSUME n < Len(paths) PROVE IInv' /\ Asked'
    <3>1. PathInstrument(paths[n + 1]) /\ paths[n + 1] + 1 \in Ids
      BY <1>6, <2>1, <2>4, <1>4 DEF setPathToInstrument, Steered, Given
    <3>2. IInv' /\ id' = paths[n + 1] + 1
      BY <3>1, NewSearch DEF PathInstrument
    <3> QED  BY <1>1, <2>1, <3>2 DEF Asked
  <2>5. ASSUME ~(n < Len(paths)) PROVE IInv' /\ Asked'
    <3>1. UNCHANGED indexVars
      BY <1>6, <2>5 DEF setPathToInstrument
    <3>2. IInv'
      BY <3>1, SearchStep
    <3>3. ~(n' <= Len(paths'))
      BY <1>1, <1>4, <2>1, <2>5
    <3> QED  BY <3>2, <3>3 DEF Asked
  <2>6. Served'
    <3>1. ASSUME NEW k \in 1 .. n - 1 PROVE HasOne(paths[k])'
      <4>1. HasOne(paths[k])
        BY <2>1 DEF Steered, Served
      <4> QED  BY <1>1, <1>3, <2>1, <4>1 DEF HasOne
    <3>2. ASSUME NEW k \in 1 .. n' - 1 PROVE HasOne(paths[k])'
      <4>1. CASE k \in 1 .. n - 1
        BY <3>1, <4>1
      <4>2. CASE k = n
        BY <1>1, <2>3, <4>2
      <4> QED  BY <2>1, <4>1, <4>2
    <3> QED  BY <1>1, <2>1, <3>2 DEF Served
  <2> QED  BY <1>2, <2>4, <2>5, <2>6 DEF Steered
<1>7. CASE Around /\ UNCHANGED indexVars
  <2>1. UNCHANGED HasTarget /\ id' = id
    BY <1>7 DEF Around, Driver, Compile, system, checkFile, klee_execute_ir_files, WaitEnds,
       TimeoutExpired, ListdirRaises, RunsDone, fromfile, nextFile, dump_ktests, given, indexVars
  <2>2. IInv'
    BY <1>7, SearchStep
  <2>3. \/ pc \in {"driver", "compile"} /\ n = 1 /\ n' = 1
           /\ pc' \in {"compile", "instrument", "exit", "abort", "false"}
        \/ pc = "instrument" /\ n = Len(paths) + 1 /\ pc' \in {"check", "false"}
        \/ pc \in {"check", "klee", "parse"} /\ pc' \in {"check", "klee", "parse", "true", "false"}
    BY <1>4, <1>7 DEF Around, Driver, Compile, system, checkFile, klee_execute_ir_files, WaitEnds,
       TimeoutExpired, ListdirRaises, RunsDone, fromfile, nextFile, dump_ktests, GenInv, NothingYet
  <2>4. Asked'
    BY <1>1, <2>1, <2>3 DEF Steered, Asked
  <2>5. \A p : HasOne(p)' <=> HasOne(p)
    BY <1>3, <2>1 DEF HasOne
  <2>6. Served'
    <3>1. CASE pc \in {"driver", "compile"} /\ n' = 1
               /\ pc' \in {"compile", "instrument", "exit", "abort", "false"}
      BY <3>1 DEF Served
    <3>2. CASE pc = "instrument" /\ n = Len(paths) + 1 /\ pc' \in {"check", "false"}
      <4>1. \A k \in 1 .. Len(paths) : HasOne(paths[k])
        BY <1>4, <3>2 DEF Steered, Served
      <4> QED  BY <1>1, <2>5, <3>2, <4>1 DEF Served
    <3>3. CASE pc \in {"check", "klee", "parse"}
               /\ pc' \in {"check", "klee", "parse", "true", "false"}
      <4>1. \A k \in 1 .. Len(paths) : HasOne(paths[k])
        BY <3>3 DEF Steered, Served
      <4> QED  BY <1>1, <2>5, <3>3, <4>1 DEF Served
    <3> QED  BY <2>3, <3>1, <3>2, <3>3
  <2> QED  BY <1>2, <2>2, <2>4, <2>6 DEF Steered
<1>8. CASE UNCHANGED generationVars
  <2>1. UNCHANGED <<pc, n, HasTarget, id>> /\ UNCHANGED indexVars
    BY <1>8 DEF generationVars, vars, given, indexVars
  <2>2. IInv'
    BY <2>1, SearchStep
  <2>3. Asked' /\ Served'
    BY <1>1, <1>3, <2>1 DEF Steered, Asked, Served, HasOne
  <2> QED  BY <1>2, <2>2, <2>3 DEF Steered
<1> QED  BY <1>5, <1>6, <1>7, <1>8 DEF GenerationNext

\* The first path is asked for at first.
LEMMA SteeredInit == GenerationInit => IInv /\ Steered
<1> SUFFICES ASSUME GenerationInit PROVE IInv /\ Steered
  OBVIOUS
<1>1. IInv
  BY InitIInv DEF GenerationInit
<1>2. paths \in Seq(Paths)
  BY GeneratorAssumption DEF GenerationInit, Init, GeneratorAssumption
<1>3. Given
  BY <1>2 DEF GenerationInit, Given
<1>4. Asked
  BY <1>2 DEF GenerationInit, Init, Asked
<1>5. Served
  BY DEF GenerationInit, Init, Served
<1> QED  BY <1>1, <1>3, <1>4, <1>5 DEF Steered

\* The invariant of the generator with its searches.
LEMMA GenerationInvariant == GenerationSpec => [](GenInv /\ IInv /\ Steered)
BY GeneratorSteps, GeneratorInvariant, SteeredInit, SteeredStep, PTL DEF GenerationSpec

(* Each of the searches the generator makes returns a part that occurs     *)
(* once, the first and the shortest unless hashes collide, as the search   *)
(* for a single path does, because each of them makes an index of its own. *)
THEOREM SearchesSound == GenerationSpec => [](ResultUnique /\ ShortestFound)
BY GenerationInvariant, PTL DEF IInv

(* For all functions whose paths start at an entry and end at an exit, all *)
(* lists of uncovered paths, whatever KLEE finds and whichever of its runs *)
(* are cut off: a path that is the only one with its blocks has been tried *)
(* when the suite is written, unless hashes collide: DistinctTried.        *)
THEOREM DistinctAreTried ==
    (\A L \in PathLists : WholePaths(L)) => (GenerationSpec => []DistinctTried)
<1> SUFFICES ASSUME \A L \in PathLists : WholePaths(L)
             PROVE  GenerationSpec => []DistinctTried
  OBVIOUS
<1> DEFINE Whole == WholePaths(sequences)
<1>1. GenerationInit => Whole
  BY DEF GenerationInit, IndexInit
<1>2. Whole /\ [GenerationNext]_generationVars => Whole'
  BY GivenStays DEF WholePaths
<1>3. GenInv /\ Steered /\ Whole /\ EveryTargetTried => DistinctTried
  <2> SUFFICES ASSUME GenInv, Steered, Whole, EveryTargetTried,
                      suite.written, NEW p \in ToSet(paths), Distinct(p + 1), HashesDiffer
               PROVE  outcome[p] # "none"
    BY DEF DistinctTried
  <2>1. pc = "true" /\ paths \in Seq(Paths)
    BY DEF GenInv, NothingYet, NoSuite, TypeOK
  <2>2. PICK k \in 1 .. Len(paths) : p = paths[k]
    <3>1. p \in {paths[k] : k \in 1 .. Len(paths)}
      BY <2>1, ToSetOfSeq
    <3> QED  BY <3>1
  <2>3. p \in HasTarget
    BY <2>1, <2>2 DEF Steered, Served, HasOne
  <2> QED  BY <2>3 DEF EveryTargetTried
<1> QED  BY <1>1, <1>2, <1>3, GenerationInvariant, GeneratorSteps, TargetsTried, PTL
            DEF GenerationSpec
=============================================================================
