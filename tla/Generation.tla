------------------------------- MODULE Generation -------------------------------
(***************************************************************************)
(* The test generator with the searches it makes: for each uncovered path  *)
(* TestGenerator::run makes a PathInstrument, with an index of its own,    *)
(* and a file is written only if the search in it has found a part of the  *)
(* path to steer KLEE by (generate/testgenerator.h, pathinstrument.h).     *)
(***************************************************************************)
EXTENDS GenerateTests, UniqueSubpath

generationVars == <<vars, indexVars>>

\* The ids are those of the static paths of the function; ids count from 0.
GenerationInit ==
    /\ IndexInit
    /\ Init
    /\ \A k \in DOMAIN paths : paths[k] + 1 \in Ids
    /\ id = IF paths = << >> THEN 1 ELSE paths[1] + 1

\* Mistake: one index serves all paths, with the loops where they were.
PathInstrumentOnce(p) ==
    /\ id' = p + 1
    /\ result' = << >> /\ done' = FALSE
    /\ UNCHANGED <<sequences, hash_len, index, l, i>>

PathInstrument(p) ==
    /\ id' = p + 1
    /\ hash_len' = 2 /\ index' = Occurrences(2)
    /\ l' = 2 /\ i' = 1
    /\ result' = << >> /\ done' = FALSE
    /\ UNCHANGED sequences

getShortestUniqueSubSeq ==
    /\ pc = "instrument"
    /\ n <= Len(paths)
    /\ IndexNext
    /\ UNCHANGED vars

\* The rest of a turn of the loop in run(), and the start of the next.
setPathToInstrument ==
    /\ done
    /\ Instrument(result # << >>)
    /\ IF n < Len(paths) THEN PathInstrument(paths[n + 1]) ELSE UNCHANGED indexVars

GenerationNext == \/ getShortestUniqueSubSeq
                  \/ setPathToInstrument
                  \/ Around /\ UNCHANGED indexVars

GenerationSpec == GenerationInit /\ [][GenerationNext]_generationVars

\* One thread; KLEE is waited for no longer than the timeout.
FairSpec == GenerationSpec /\ WF_generationVars(GenerationNext)

-----------------------------------------------------------------------------
\* No other path has the same blocks in the same order.
Distinct(p) == \A q \in Ids : sequences[q] = sequences[p] => q = p

\* No two different parts of the paths, of two blocks at least, share a hash.
HashesDiffer ==
    LET Starts(q, m) == 1 .. Len(sequences[q]) - m + 1
    IN  \A q, r \in Ids :
            \A m \in 2 .. Len(sequences[q]), k \in 2 .. Len(sequences[r]) :
                \A j \in Starts(q, m), e \in Starts(r, k) :
                    HashOf(Part(<<q, j, m>>)) = HashOf(Part(<<r, e, k>>))
                        => Part(<<q, j, m>>) = Part(<<r, e, k>>)

(* README.md, function 4, test cases are generated for all uncovered       *)
(* paths, as far as it is true: when the suite is written KLEE has been    *)
(* run for every uncovered path with blocks no other path has in this      *)
(* order, unless hashes collide, whatever became of the other paths.       *)
DistinctTried ==
    suite.written => \A p \in ToSet(paths) :
        outcome[p] # "none" \/ ~Distinct(p + 1) \/ ~HashesDiffer
===============================================================================
