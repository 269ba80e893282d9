------------------------------ MODULE Similarity ------------------------------
(***************************************************************************)
(* The similarity of a new path with the old ones (dynamic/reuseengine.h,  *)
(* SimilarityStrategy and SimilarityCalculator::findMostSimilarPath).  A   *)
(* path is the sequence of its nodes, and a node is what getNodeSimilarity *)
(* looks at: [type, selectNum, ops].                                       *)
(*                                                                         *)
(* The code computes with doubles; here a similarity is a whole number of  *)
(* parts of 1, fine enough for the lengths of the operation lists (Unit)   *)
(* and of the paths (Scale).                                               *)
(***************************************************************************)
EXTENDS Integers, Sequences, FiniteSets, FiniteSetsExt

CONSTANTS Unit,        \* a common multiple of the lengths of the ops
          Scale        \* a common multiple of the lengths of the paths

Full == Unit * Scale
INVALID_PATH_ID == -1

VARIABLES path, old_paths,
          n,           \* the old path that comes next
          most_similar_path_id, max_sim

similarityVars == <<path, old_paths, n, most_similar_path_id, max_sim>>

Longer(a, b) == Max({Len(a), Len(b)})
Shorter(a, b) == Min({Len(a), Len(b)})

\* Mistake: an element is never left out of the first sequence.
cheapestNoSkip(up, left, diag) == Min({left, diag})
cheapest(up, left, diag) == Min({up, left, diag})

\* The number of operations that differ: insert, delete or replace one.
opsDistance(ops1, ops2) ==
    LET dp[c \in (0 .. Len(ops1)) \X (0 .. Len(ops2))] ==
            LET i == c[1]
                j == c[2]
            IN  IF i = 0 THEN j
                ELSE IF j = 0 THEN i
                ELSE IF ops1[i] = ops2[j] THEN dp[<<i - 1, j - 1>>]
                ELSE cheapest(dp[<<i - 1, j>>], dp[<<i, j - 1>>], dp[<<i - 1, j - 1>>]) + 1
    IN  dp[<<Len(ops1), Len(ops2)>>]

sameShape(x, y) == x.type = y.type /\ x.selectNum = y.selectNum

\* In parts of Unit.
getNodeSimilarity(x, y) ==
    IF ~sameShape(x, y) THEN 0
    ELSE Unit - (opsDistance(x.ops, y.ops) * Unit) \div Longer(x.ops, y.ops)

\* The same with nodes; replacing one costs as much as they differ.
pathDistance(p, q) ==
    LET dp[c \in (0 .. Len(p)) \X (0 .. Len(q))] ==
            LET i == c[1]
                j == c[2]
                similarity == getNodeSimilarity(p[i], q[j])
            IN  IF i = 0 THEN j * Unit
                ELSE IF j = 0 THEN i * Unit
                ELSE IF similarity = Unit THEN dp[<<i - 1, j - 1>>]
                ELSE cheapest(dp[<<i - 1, j>>] + Unit, dp[<<i, j - 1>>] + Unit,
                              dp[<<i - 1, j - 1>>] + Unit - similarity)
    IN  dp[<<Len(p), Len(q)>>]

calculate(p, q) == Full - (pathDistance(p, q) * Scale) \div Longer(p, q)

SimilarityInit == /\ path = << >> /\ old_paths = << >>
                  /\ n = 1
                  /\ most_similar_path_id = INVALID_PATH_ID /\ max_sim = 0

\* The call of findMostSimilarPath.
Start(p, olds) == /\ path' = p /\ old_paths' = olds
                  /\ n' = 1
                  /\ most_similar_path_id' = INVALID_PATH_ID /\ max_sim' = 0

isBetter(sim) == sim > max_sim

\* One turn of the loop of findMostSimilarPath.
Compare ==
    /\ path # << >> /\ n <= Len(old_paths)
    /\ LET sim == calculate(path, old_paths[n])
       IN  IF isBetter(sim) THEN max_sim' = sim /\ most_similar_path_id' = n - 1
           ELSE UNCHANGED <<max_sim, most_similar_path_id>>
    /\ n' = n + 1
    /\ UNCHANGED <<path, old_paths>>

-----------------------------------------------------------------------------
(* What an edit distance means: an alignment pairs elements in order; each *)
(* pair costs as much as it differs, each element left alone costs one.    *)

Pairings(i, j) == {S \in (SUBSET (1 .. i)) \X (SUBSET (1 .. j)) :
                       Cardinality(S[1]) = Cardinality(S[2])}
\* The element of T whose place in T is that of e in S.
Partner(e, S, T) == CHOOSE f \in T : Cardinality({x \in T : x < f}) = Cardinality({x \in S : x < e})
AlignmentCost(p, q, S) ==
    MapThenSumSet(LAMBDA e : Unit - getNodeSimilarity(p[e], q[Partner(e, S[1], S[2])]), S[1])
    + (Len(p) + Len(q) - 2 * Cardinality(S[1])) * Unit

Compared == IF path = << >> THEN {} ELSE {old_paths[k] : k \in 1 .. n - 1}

(* The table of calculate() holds the least cost of any alignment, though  *)
(* it never looks further once two nodes are equal.                        *)
DistanceMinimal ==
    \A q \in Compared :
        pathDistance(path, q) =
            Min({AlignmentCost(path, q, S) : S \in Pairings(Len(path), Len(q))})
=============================================================================
