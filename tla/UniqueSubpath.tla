----------------------------- MODULE UniqueSubpath -----------------------------
(***************************************************************************)
(* The part of a static path that tells it from all others                 *)
(* (generate/pathinstrument.h, class RollingHashIndex): the shortest       *)
(* sequence of blocks, of two at least, that occurs once in all paths.     *)
(* getShortestUniqueSubSeq looks the sequences of one path up in an index  *)
(* of hashes that grows with the length that is looked at.                 *)
(***************************************************************************)
EXTENDS Integers, FiniteSets, SequencesExt

CONSTANTS A,           \* the base of the hash: the number of blocks
          M,           \* its modulus
          PathLists    \* the values sequences may have

ASSUME HashAssumption == /\ A \in Nat \ {0}
                         /\ M \in Nat \ {0}
                         /\ PathLists \subseteq Seq(Seq(0 .. A - 1))

VARIABLES sequences,   \* the paths
          id,          \* the path in question
          hash_len,    \* the greatest length in the index
          index,       \* the indexed occurrences, as <<path, start, length>>
          l, i,        \* the loop variables
          result,
          done

indexVars == <<sequences, id, hash_len, index, l, i, result, done>>

Ids == 1 .. Len(sequences)
seq == sequences[id]

hash(h, b) == ((h + 1) * A + (b + 1)) % M
HashOf(s) == FoldLeft(hash, 0, s)

Part(o) == SubSeq(sequences[o[1]], o[2], o[2] + o[3] - 1)
Occurrences(n) ==
    UNION {{<<p, j, n>> : j \in 1 .. Len(sequences[p]) - n + 1} : p \in Ids}

\* The entry of a hash: one element for every occurrence, of any length.
At(h) == {o \in index : HashOf(Part(o)) = h}

updateIndex(n) ==
    IF hash_len >= n THEN UNCHANGED <<hash_len, index>>
    ELSE /\ hash_len' = hash_len + 1
         /\ index' = index \cup Occurrences(hash_len + 1)

IndexInit ==
    /\ sequences \in PathLists
    /\ id \in Ids
    /\ hash_len = 2
    /\ index = Occurrences(2)
    /\ l = 2
    /\ i = 1
    /\ result = << >>
    /\ done = FALSE

looked == SubSeq(seq, i, i + l - 1)

\* Mistake: one entry of this path is enough.
isUniqueLoose(h) == \E o \in At(h) : o[1] = id

isUnique(h) == Cardinality(At(h)) = 1 /\ \A o \in At(h) : o[1] = id

\* One turn of the inner loop. The test for a missing entry comes first.
Look ==
    /\ ~done
    /\ l <= Len(seq)
    /\ i <= Len(seq) - l + 1
    /\ LET h == HashOf(looked)
       IN  IF At(h) = {} THEN done' = TRUE /\ UNCHANGED <<result, i>>
           ELSE IF isUnique(h) THEN done' = TRUE /\ result' = looked /\ UNCHANGED i
           ELSE i' = i + 1 /\ UNCHANGED <<result, done>>
    /\ UNCHANGED <<sequences, id, hash_len, index, l>>

\* Mistake: the last start is left out.
NextLengthEarly ==
    /\ ~done
    /\ l <= Len(seq)
    /\ i > Len(seq) - l
    /\ updateIndex(l + 1)
    /\ l' = l + 1
    /\ i' = 1
    /\ UNCHANGED <<sequences, id, result, done>>

NextLength ==
    /\ ~done
    /\ l <= Len(seq)
    /\ i > Len(seq) - l + 1
    /\ updateIndex(l + 1)
    /\ l' = l + 1
    /\ i' = 1
    /\ UNCHANGED <<sequences, id, result, done>>

\* Mistake: the length of the whole path is not looked at.
NoneFoundEarly ==
    /\ ~done
    /\ l >= Len(seq)
    /\ done' = TRUE
    /\ UNCHANGED <<sequences, id, hash_len, index, l, i, result>>

NoneFound ==
    /\ ~done
    /\ l > Len(seq)
    /\ done' = TRUE
    /\ UNCHANGED <<sequences, id, hash_len, index, l, i, result>>

IndexNext == Look \/ NextLength \/ NoneFound

IndexSpec == IndexInit /\ [][IndexNext]_indexVars

-----------------------------------------------------------------------------
\* Where s occurs in the paths.
Places(s) == {o \in Occurrences(Len(s)) : Part(o) = s}
UniquePart(s) == Len(s) >= 2 /\ Cardinality(Places(s)) = 1

\* The parts of the path, as <<length, start>>.
Parts == {x \in (2 .. Len(seq)) \X (1 .. Len(seq)) : x[2] + x[1] - 1 <= Len(seq)}
PartAt(x) == SubSeq(seq, x[2], x[2] + x[1] - 1)
Before(x, y) == x[1] < y[1] \/ (x[1] = y[1] /\ x[2] < y[2])

(* Type correctness of the index and of the loops.                         *)
IndexTypeOK ==
    /\ sequences \in Seq(Seq(0 .. A - 1))
    /\ id \in Ids
    /\ hash_len \in Nat
    /\ index \subseteq Ids \X Nat \X Nat
    /\ l \in Nat \ {0, 1}
    /\ i \in Nat \ {0}
    /\ result \in Seq(0 .. A - 1)
    /\ done \in BOOLEAN

(* What is looked up is always in the index, which is extended by one      *)
(* length at a time: the branch that reports a missing sequence and gives  *)
(* the path up is never taken.                                             *)
NeverMissing ==
    ~done /\ l <= Len(seq) /\ i <= Len(seq) - l + 1 => At(HashOf(looked)) # {}

(* Whatever the hash makes equal, a sequence that is returned occurs in no *)
(* other path and only once in this one.                                   *)
ResultUnique == result # << >> => Places(result) = {<<id, i, l>>}

\* No two parts in the index share an entry.
Collisionless == \A o, p \in index : HashOf(Part(o)) = HashOf(Part(p)) => Part(o) = Part(p)

(* Unless different parts share an entry, nothing shorter and nothing      *)
(* further to the left would do: the result is the first unique part.      *)
ShortestFound ==
    done /\ Collisionless => \A x \in Parts : UniquePart(PartAt(x)) =>
                                 result # << >> /\ ~Before(x, <<l, i>>)

(* Then a path with blocks that no other path has in this order gets a     *)
(* target, because no path is a part of another: the entry block starts    *)
(* all paths and is never entered again.                                   *)
DistinctPathTargeted ==
    done /\ Collisionless /\ (\A p \in Ids : sequences[p] = seq => p = id)
        => result # << >>

(* README.md, function 4: test cases are generated for all uncovered       *)
(* paths. Only a path with a result is ever instrumented.                  *)
EveryPathTargeted == done => result # << >>
=============================================================================
