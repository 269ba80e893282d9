---------------------------- MODULE PathMatching ----------------------------
(***************************************************************************)
(* How the output of one test run is matched with the static paths of a    *)
(* CFG (static/cfg.h: Path::pathMask, CFG::matchPathId, matchPathIds,      *)
(* matchBestPathId; the same choice is written out a second time in        *)
(* TestEngine::computeCoverage).                                           *)
(*                                                                         *)
(* A path is known by its mask, the set of the basic blocks on it.  The    *)
(* instrumented program prints one character per block.  An output is      *)
(* [mask, text]: the blocks that were marked, and whether the text is just *)
(* that print ("mask"), holds white space besides ("blanks"), or has any   *)
(* other length than the CFG has blocks ("other": a crash, a command that  *)
(* did not start, a function with prints of its own).                      *)
(***************************************************************************)
EXTENDS Integers, FiniteSets

CONSTANTS Blocks,      \* the basic blocks of the function
          NumPaths,    \* the number of static paths
          Mask         \* the mask of each path

PathIds == 0 .. NumPaths - 1
INVALID_PATH_ID == -1

ASSUME PathAssumption == /\ NumPaths \in Nat
                         /\ Mask \in [PathIds -> SUBSET Blocks]

Output == [mask : SUBSET Blocks, text : {"mask", "blanks", "other"}]
NoOutput == [mask |-> {}, text |-> "other"]

removeBlanks(o) == IF o.text = "blanks" THEN [o EXCEPT !.text = "mask"] ELSE o

\* A text of another length covers nothing.
isCover(o, p) == o.text = "mask" /\ Mask[p] \subseteq o.mask

\* pathIdMap: a later path with the same mask replaces the earlier one.
SameMask(o) == {p \in PathIds : o.text = "mask" /\ Mask[p] = o.mask}
matchPathId(o) ==
    IF SameMask(o) = {} THEN INVALID_PATH_ID
    ELSE CHOOSE p \in SameMask(o) : \A q \in SameMask(o) : q <= p

matchPathIds(o) == {p \in PathIds : isCover(o, p)}

NoTests == [p \in PathIds |-> 0]

\* Mistake: the path with the most tests.
MostTested(cnt, S) ==
    CHOOSE p \in S : \A q \in S : \/ cnt[p] > cnt[q]
                                  \/ cnt[p] = cnt[q] /\ p <= q

(***************************************************************************)
(* The loop over the covered paths, in ascending order: the first path     *)
(* without a test yet, otherwise the first one with the fewest tests.      *)
(***************************************************************************)
LeastTested(cnt, S) ==
    CHOOSE p \in S : \A q \in S : \/ cnt[p] < cnt[q]
                                  \/ cnt[p] = cnt[q] /\ p <= q

\* Mistakes the runs must notice: the exact match is not tried first;
\* nothing else is tried; any path is taken.
BestPathNoExact(cnt, o) ==
    IF matchPathIds(o) = {} THEN INVALID_PATH_ID ELSE LeastTested(cnt, matchPathIds(o))
BestPathExactOnly(cnt, o) == matchPathId(o)
BestPathAny(cnt, o) ==
    IF matchPathIds(o) = {} THEN INVALID_PATH_ID ELSE LeastTested(cnt, PathIds)

\* The path that gets the next test, whose output is o, when cnt[p] tests
\* have gone to path p before it.
BestPath(cnt, o) ==
    IF matchPathId(o) # INVALID_PATH_ID /\ cnt[matchPathId(o)] = 0
    THEN matchPathId(o)
    ELSE IF matchPathIds(o) = {} THEN INVALID_PATH_ID
    ELSE LeastTested(cnt, matchPathIds(o))

AddTest(cnt, p) == IF p = INVALID_PATH_ID THEN cnt
                   ELSE [cnt EXCEPT ![p] = @ + 1]
=============================================================================
