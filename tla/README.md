# PC-TRT in TLA+

PC-TRT keeps the test cases of a C function useful when the function changes.
It finds the static paths of both versions, runs the old tests, matches the
output of every test with a path, reuses the tests of similar old paths for the
new version, and has KLEE generate tests for the paths that are left.  This
directory specifies that behaviour, model-checks it with TLC and proves the
parts that matter most with TLAPS.

Source paths below are relative to `src/ReTest/src/` unless they start with
`src/`.

## 1. Inventory

| component | state it keeps | operations | what is hard about it |
|---|---|---|---|
| static analysis `static/cfg.h`, `static/staticanalyzer.h` | blocks and edges, `staticPaths`, `pathIdMap` | `buildGraph`, `analyzingPaths` with `dfsWithoutLoops` and `dfsWithLoops` (`handleLoopsInFunction`, `getLoopPathsFromHeader`, `dfsHelper`) | an explicit stack of partial paths in one search, a path changed while it is iterated over in the other; odd graphs (one block, `switch`, `do`-`while`, `&&`, irreducible) |
| path matching `static/cfg.h` | counters of tests per path | `isCover`, `matchPathId`, `matchPathIds`, `matchBestPathId` | greedy choice, one test at a time |
| test cases and suites `static/testcase.h` | input, expected values, output, `pathId`, `executed` | JSON in both directions, `hasExecuted` | what is lost between writing and reading |
| path marker `dynamic/instrument.h` | the marks an instrumented program prints | instrumentation of a module | output of the program mixed with the marks |
| command executors `dynamic/testengine.h` | list of commands, mutex, results, threads | `ConcurrentExecutor`, `SequentialExecutor` | unsynchronised results, joins, up to fifty threads |
| test engine `dynamic/testengine.h` | CFG, driver, counters, covered paths | `init`, `setDriverFile`, `compileDriverAndInstrument`, `run`, `computeCoverage` | partial failures that go unnoticed, files of earlier runs |
| reuse engine `dynamic/reuseengine.h`, `main.cpp` | two engines, `path_map`, sets of test ids, `new_covered_paths` | `reuseTestSuite`, `findMostSimilarPath` and the list of uncovered paths | order of unordered containers, stale path ids, threshold |
| path similarity `dynamic/reuseengine.h` | `path_map`, the best path so far | two nested edit distances, `findMostSimilarPath`, `run` | edges of a strict comparison; the types and numbers it compares come from an unordered map |
| unique subpath index `generate/pathinstrument.h` | index from hashes to places, current length | `updateIndex`, `getShortestUniqueSubSeq` | collisions, and the index out of step with the search |
| path instrumentation and the patch of KLEE `generate/pathinstrument.h`, `src/ReTest/0001-…patch` | per process: the tables of target edges, trigger and reachable blocks; per symbolic state: covered edges | `instrumentPath`, `klee_path_trigger`, `klee_path_conditional_exit`, `transferToBasicBlock` | tables shared by all symbolic states and set up lazily, pruning too much |
| test generator `generate/testgenerator.h`, `src/ReTest/scripts/klee_ir.py` | files of instrumented IR, KLEE's directories, the generated suite | `run`, `klee_execute_ir_files`, `dump_ktests` | timeouts and failures of KLEE, files left by an earlier run, duplicates |
| files between runs `main.cpp`, `utils/common.h`, `src/ReTest/scripts/clean.py` | IR files, instrumented files, executables, test suites | compile, instrument, read and write a suite, abort, kill, clean | which version each file was made from, and what a suite that is its own successor holds |
| driver generator `generate/drivergenerator.h` | the source file of the user | `modifyMainFunction`, `getFunctionDeclaration`, `extractParametersFromDeclaration`, the three drivers | rewrites the user's source in place, and finds everything by looking for parts of lines |
| number parser `utils/common.h` | the number, its flags and the array | `count_numbers`, `parse_string_to_array`, `atou`, `copy` in the generated drivers | widths and boundaries, one count that fills what another has allocated |
| CFG drawing `src/ReTest/scripts/ir2png.py` | none | pictures with `dot` | – |

How they interact: `main` makes a `ReuseEngine`, which holds two `TestEngine`s,
one per version.  A test engine builds a `CFG`, instruments the source, runs a
suite through an executor and matches what was printed with the paths of the
CFG.  The reuse engine compares the paths of both CFGs, builds the new suite and
runs it in the second engine.  `main` hands the paths left uncovered to the
`TestGenerator`, which asks the unique subpath index for a target, instruments
the module with calls to KLEE and starts `klee_ir.py`.  All of them also meet in
the file system, where nothing says which version a file belongs to.  The only
threads are those of the pool; everything else is sequential, and what is hard
there is the order of unordered containers, failures whose result is dropped,
and state that outlives the step or the run it was made in.

What makes each component correct:

* static analysis: a path is an execution, every execution is a path, and the
  set of its blocks (all that a mark tells) identifies it;
* matching: an assigned path is covered by the output, counts are right, a path
  that is executed exactly is not starved by the greedy choice;
* executors: when results are returned, each is the whole output of its own
  command, or empty where the command could not be started;
* reuse: expected values are kept exactly for tests of similar paths, no test of
  a mapped path is lost, a path reported as uncovered has no test;
* graphs and similarity: versions of one shape get the same graph, the distance
  is minimal, and a path nobody has changed is mapped to itself;
* unique subpath: what is returned occurs in no other path, and nothing shorter does;
* pruning: an execution through the target is never ended;
* generation: every path with blocks of its own is tried, no input is lost or
  written twice;
* files: what is executed was made from the source as it is now and is matched
  with its own paths, and a suite one run has written can be read by the next;
* drivers: the source survives the renaming of `main`, the driver fits the
  function, and the function is called with the values KLEE found.

`PROJECT.json` lists the components with their status and, under `hazards`,
every place that is hard to test, with the properties aimed at it.

## 2. Plan

The order follows what the tool is for: matching and reuse first, then the pool
it runs on, then where the paths come from, then generation, then the files.

| step | modules | state |
|---|---|---|
| 1 | `PathMatching`, `TestEngine` (EXTENDS it), `TestEngineProofs` | done |
| 2 | `ReuseEngine` (INSTANCEs `TestEngine` twice), `ReuseEngineProofs` | done |
| 3 | `Executor` (abstract), `ConcurrentExecutor` and `SequentialExecutor` (implement it), `Executors` (either of them), `ConcurrentExecutorProofs` | done |
| 4 | `StaticPaths`, `StaticPathsProofs`, `LoopPaths` (EXTENDS `StaticPaths`) | done, no proofs for `LoopPaths` |
| 5 | `UniqueSubpath`, `PathPruning` (takes any part `UniqueSubpath` may return), `PathPruningProofs` | done |
| 6 | `GenerateTests`, `Generation` (composes it with `UniqueSubpath`), `GenerateProofs`, `Workspace` with suites and kills, `VersionsProofs` | done |
| 7 | `BuildGraph`, `Similarity`, `Mapping` (composes them), `VersionsProofs` | done |
| 8 | `NumberParser`, `DriverGenerator`, `Drivers` (composes them with KLEE's inputs), `DriversProofs` | done |

Theorem still worth proving: what the counters of the new engine, with the ids
left from the old version, make of the reported coverage.

## 3. Modules and the code

**PathMatching.** `pathMask::isCover`, `matchPathId(s)` and the least-tested
choice that `computeCoverage` and `matchBestPathId` share.  An output is the set
of marked blocks and whether the text is the mask alone, has blanks around it,
or is something else: that is all the matching tells apart.

**TestEngine.** One action per step of `run`: `setDriverFile`, compiling, the
result of each command, and one turn of the loop of `computeCoverage` at a time.
A driver may fail to compile, and then every output is empty, as in the code
(the result of `compileDriverAndInstrument` is dropped).

**ReuseEngine.** `Old` and `New` are instances of `TestEngine` with variables of
their own.  `reuseTestSuite` is split where it visits an element of an unordered
container; every order is possible.  A path id that `computeCoverage` left from
the old version is kept, since line 269 uses it.  `Report` ignores such an id if
it is no number of a new path: the code then sets a spare bit of a mask with 64
bits.

**Executor, ConcurrentExecutor, SequentialExecutor, Executors.** `Executor` is the promise:
commands end in any order, and only then `getResults` returns, each result being
the output of its own command or nothing.  `ConcurrentExecutor` has a program
counter per thread; testing the list, reading its front and removing it are
separate steps under the mutex, and each chunk that `fgets` reads is a step
without it.  `SequentialExecutor` is the loop the engine runs.  Both refine
`Executor` with a mapping at the end of their module; `Executors` lets the caller
use one or the other, as both have the same interface.

**StaticPaths, LoopPaths.** The search without loops is a machine whose state is
the stack of partial paths; one neighbor of a block is one step.  `LoopPaths`
extends it to all of `analyzingPaths`: functions with loops are searched by a
recursion over loops, written with recursive operators and evaluated in one
step, and both kinds of paths are numbered by `AddPath`.  `LoopPaths` says
nothing about irreducible graphs and about an inner loop that leaves to the
header of the outer one: the code does not end on them.  `LoopGraphs` holds the
functions with loops that the runs use.

**BuildGraph.** `initGraphFromFunction` and `buildGraph` for the old graph and
then the new one.  A block is visited in one step, and the blocks in any order,
as they are kept in an unordered map of pointers.  A function is what LLVM tells
of it: successors, loop headers, opcodes and static paths.

**Similarity, Mapping.** Both edit distances over integers: `Unit` and `Scale`
stand for the fractions the code computes in `double`.  The cache of node
similarities is left out, as it only saves work.  `Mapping` is
`SimilarityCalculator::run` on two graphs of `BuildGraph`: the types, numbers
and opcodes of the blocks of a path are what is compared.

**UniqueSubpath.** The rolling hash with its modulus as a constant, the index and
its extension by one length, the search by lengths.

**PathPruning.** One symbolic state walks through a graph block by block.  Of the
others only what they can do to it matters: the tables are static and may be set
up at any step by a state that comes to a call first.  The target is any part of
a path, so the result does not rest on how `UniqueSubpath` chooses.

**GenerateTests.** `TestGenerator::run` and the script it starts: files written or
left from before, the script's check that a file exists, KLEE ending, failing or
being killed after the timeout with part of its tests, and the removal of
duplicates across paths.  The uncovered paths come in ascending order, as `main`
collects them.  Whether a path gets a target is left open here: `Instrument` takes
it as a parameter.

**Generation.** The generator with its searches: for each path `run` makes a
`PathInstrument` with an index of its own (`PathInstrument`), the search of
`UniqueSubpath` runs in it (`getShortestUniqueSubSeq`), and the path gets a file if
the search has found a part (`setPathToInstrument`).  The index of the first path is
there from the start of the module, as it depends on the paths alone.

**Workspace.** Several runs of `main` with edits, sources that do not compile
(`Broken`) and sources whose function is one block and so has no path
(`Pathless`), aborts by the assertion in the generator, kills at any step, and
`clean.py`.  A file is the version it was made from; a compiler that fails may
leave the old output or remove it.  Three parts of the program read one source,
each compiling it for itself: the graphs of the reuse engine (`cfg`), the graph of
the test engine (`engine`, the one outputs are matched with and coverage is counted
on) and the program that is executed (`used`).

A suite can be read or not, and has tests of the user or not.  A run reads any
suite that is there and writes `test_reused.json`, opening and writing being two
steps.  What is written is unreadable if the test engine's graph has no paths
(coverage is 0 / 0).  Which tests are taken over is a choice: the code drops a test
whose output matches no old path or only one that no new path is mapped to, so any
number of them may be left, and none are when a version has no paths or the old one
was not run.  `Kill` stands for all ends of a run from outside of these steps: the
user, a result that is no UTF-8 and throws while the suite is written, and
`exit(1)` after the name of a driver that does not exist.  `InWorkDir` says whether
the sources lie in the directory that is cleaned.  The history variables `killed`,
`torn` (killed while the suite was written) and `pathless` only serve the
properties.

**NumberParser.** The parser of arrays and `atou`, one character a step, for an
`int` of any width whose maximum ends in 7 (`INT_MAX` is a constant); the
history variables `exact` and `values` hold the numbers as written.

**DriverGenerator, Drivers.** A line of the source is a sequence of `Atoms`: names,
parts of names and single characters, since `find` sees one name within another.
`modifyMainFunction` truncates the file and writes it line by line, and may crash
in between.  A driver is the list of its parameters, not its text.  `Drivers`
composes it with `NumberParser`: KLEE finds the bytes of an object (external),
`to_dict` of the script turns them into text, the shell passes the text on, and
the driver converts it back.

Definitions keep the names of the source.  The `Mistake:` operators in some
modules are plausible bugs of the definition they stand next to; with one put in
its place, TLC finds the property named in `PROJECT.json` violated.

## 4. Runs that pass

| run | states | what it shows | bounds, and why they are enough |
|---|---|---|---|
| `TestEngine_reverse` | 10,953 | whatever a suite prints on the repository's `reverse`, it is matched soundly (`AssignedCovers`), evenly (`LoadBalanced`), never at the expense of an exact path (`ExactNotStarved`) and at least half as well as an optimal assignment (`HalfOfBest`) | four paths, up to four tests, one of them repeated: more tests than an exact path needs and enough to make the greedy choice miss |
| `ReuseEngine_reverse` | 119,239 | what is kept (`ExpectationsKept`) and dropped (`NoTestLost`) does not depend on the order of the unordered maps; both matchers of old outputs agree (`MatchersAgree`) | two old and four new paths with a similarity above, below, at the threshold and of 0; four tests |
| `Executors` | 61,825 | one writer per slot (`OneWriter`), nothing of another command in it (`ResultsOwn`), pool and loop implement `Executor` (`KeepsPromise`, `LoopKeepsPromise`), and `getResults` returns (`Returns`) | three threads and four commands: a list longer than the pool, and threads that find it empty; commands of zero to two chunks, each of which may fail to start |
| `StaticPaths_functions` | 22,230 | the search finds executions only, all of them, each with its own mask, and ends; with loops, what is found is exactly the executions that leave each loop at once or after one turn (`OneTurnPaths`) | every acyclic graph on five blocks with two different successors at most: branches in a row, nested, joined; a loop in a loop on twelve blocks, each block with all of its alternatives (`break`, `continue`, `return`, branches) |
| `PathPruning_functions` | 41,038 | covered edges are exact (`CoverageExact`), and no execution through the unique part is ended (`PartSurvives`) | every acyclic graph on five blocks and `reverse`, whose runs go around the loop three times and more (`MaxTrace` of 18 blocks); every target, every time of the set-up |
| `Generation_functions` | 107,044 | a part that the search returns is unique, collisions or not (`ResultUnique`), the first shortest one where nothing in the index collides (`ShortestFound`), and then no distinct path goes without (`DistinctPathTargeted`); every target is tried (`EveryTargetTried`) on a file of this run (`TargetsFresh`), each input found in time is written once (`EachInputOnce`); so every path with blocks of its own has been tried when the suite is written (`DistinctTried`), and the generator ends (`Terminates`) | one path of every acyclic graph on five blocks, of `reverse` and of a `switch`; of the last two also three paths with files of earlier runs, so that one search follows another and one run of KLEE another; three inputs, sets that overlap; with the modulus 47, parts share an entry for about a quarter of the functions and for the others none do |
| `Workspace_cleaned` | 4,444,629 | in the working directory, the new version that is executed is the current one (`NewExecutedCurrent`), its paths are the same in the test engine and the reuse engine and, if no run was killed, those of what was executed (`MatchedWithOwnPaths`), and a suite is unreadable only after a new version without paths or a kill that fell into the writing (`SuiteReadable`) | four versions, one that does not compile and one of a single block, three runs: a run after an abort after an edit, on the suite of the first |
| `Mapping_versions` | 9,324 | the distance is that of the best alignment (`DistanceMinimal`), versions of one shape get the same graph (`SameGraph`), and an untouched path keeps its tests' expectations (`UntouchedReused`) | all pairs of twelve functions: an edit of a block, of a condition, of the order of two branches, `while`, `||`, `switch`, a branch in a loop; every order of the blocks |
| `Drivers_pipeline` | 16,131 | the parser stays in its types (`NoOverflow`), clamps (`ElementsClamped`) and fills what was allocated (`ArrayFilled`); the source survives (`SourceKept`) with one `main` (`OneMain`); the driver fits the function (`DriverFits`) and passes on what KLEE found (`ArgumentsArrive`) | an `int` of eight bits, with values at and beside every boundary; ten sources, with `main` in each position the renaming tells apart; two drivers from one source, so that the renamed is read again; crashes at every line |

A module with theorems has its type invariant proved (section 6), and the
runs leave it out.

Deadlock is not checked (`CHECK_DEADLOCK FALSE`), because each of these
components runs once and is then done.

**Fairness.** The pool has weak fairness for the main thread and for each thread,
which a fair scheduler gives; the mutex needs no more, since whoever holds it is
not blocked and each thread takes it a bounded number of times.  The loop, the
search without loops and the test generator run in one thread of which nothing
is asked but that it goes on: weak fairness of their next step.  A command is
assumed to end (the code has no timeout for one); KLEE is bounded by the timeout
of the script.  The other specifications state safety only.

## 5. Differences from what is said

Each of these properties is one sentence that the documentation, a comment or
the code itself says about the program, and TLC finds it violated.  The first three
are runs of `PROJECT.json`, with details and quotes under `findings`.  Where a
configuration of its own is named, it is run with the module that its name begins
with (`MC...`, `MCStaticPaths` for `LoopPaths`, `Workspace` itself); the others
are found by putting the property in place of those of the run that is named.

| configuration / property | what the code does | what is said |
|---|---|---|
| `ReuseEngine_UncoveredRequested` / `UncoveredRequested` | a test without a new path keeps its old id, and no test is asked for the new path of that number (`dynamic/reuseengine.h:269`) | tests are generated for all uncovered paths (`src/README.md:14`) |
| `ReuseEngine_FullReuseAtThreshold` / `FullReuseAtThreshold` | a similarity equal to the threshold drops the expected values (`dynamic/reuseengine.h:241`); `ExpectationsKept` leaves this case open | "greater than or equal" (`src/README.md:86`) |
| `LoopPaths_and` / `EveryBlockOnPath` | the body of `while (a && b)` is on no path (`static/cfg.h:534`) | all paths are searched for (`src/README.md:8`) |
| `ReuseEngine_reverse` / `ReusedOnce` | a test is put into the new suite twice if the path below the threshold is visited first (`dynamic/reuseengine.h:248`) | the whole test or only its input is reused (comment at line 231) |
| `ReuseEngine_ExecutedSuiteNotRun` / `ExecutedSuiteNotRun` | `executed` is written but not read, so a suite that was run is run again (`static/testcase.h:207`) | it is run if it was not (comment at `dynamic/reuseengine.h:207`) |
| `TestEngine_ifs` / `CoveredPathExecuted` | a second test of a long path counts for a shorter path nothing executed (`dynamic/testengine.h:281`) | the tests give path coverage (`src/README.md:14`) |
| `LoopPaths_dowhile` / `OnlyWalks` | a turn of `do`-`while` that ends in two blocks leaves a step that is no edge (`static/cfg.h:532`) | paths to the exit blocks (comment at line 509) |
| `StaticPaths_switch` / `UniqueIdentifier` | two cases with one target block give a path two ids (`static/cfg.h:454`) | a unique identifier for each path (`src/README.md:8`) |
| `StaticPaths_straight` / `AllPathsFound` | a function with one block has no path (`static/cfg.h:458`) | all paths are searched for (`src/README.md:8`) |
| `UniqueSubpath_switch` / `EveryPathTargeted` | a path listed twice cannot be targeted (`generate/pathinstrument.h:68`) | tests are generated for all uncovered paths (`src/README.md:14`) |
| `PathPruning_functions` / `UncoveredEdgePruned` | a state is ended only if it has covered no target edge at all (line 154 of the patch) | if any target edges are not covered (line 153) |
| `Generation_functions` / `OnlyThisRun` | KLEE explores the file of an earlier run (`generate/pathinstrument.h:193`) | the file is written for the target (comment at line 191) |
| `Generation_functions` / `EnteredDriverCompiled` | the driver the user entered is overwritten (`generate/testgenerator.h:43`) | it is entered by hand (comment at line 34) |
| `Workspace_cleaned` / `ExecutedCurrent` | after an abort the old version is executed as it was before the edit (`dynamic/testengine.h:230`) | the instrumented program is made and run (`src/README.md:10`) |
| `Workspace_elsewhere` / `NewExecutedCurrent` | sources in another directory are never cleaned up for (`src/ReTest/scripts/clean.py:6`) | tests are run on the program under test (`src/README.md:14`) |
| `Drivers_pipeline` / `UnsignedArrives` | an unsigned number above the maximum of `int` is written as a negative one and read as 0 (`src/ReTest/scripts/klee_ir.py:138`) | the drivers are adapted to `uint` (`src/ReTest/doc/代码介绍.md:20`) |
| `Mapping_versions` / `SelectTells` | the number of a block that several branches lead to is the one written last (`static/cfg.h:408`) | 1 is true, 2 is false, others in the order of the branches (comment at `static/cfg.h:79`) |

## 6. What is proved

The theorems hold for every value of the constants under the assumptions named
here; the runs above show the same properties on small instances.

**`TestEngineProofs`**, from `PathAssumption` and `EngineAssumption` (any number
of paths, any masks, any outputs, any suites): `TypeCorrect`,
`AssignedPathsCovered`, `CountsCorrect`, `LoadIsBalanced`, `ExactPathsCovered`,
`PathsChosenInTurn`, `GreedyIsHalf`.
Four of the invariants only hold together (`MatchInv`): what the next test is given
depends on the counters, and what the counters count on the paths given so far.
`MatchInv` adds that nothing is counted before the loop starts.  One turn of the
loop is the lemma `MatchNextKeeps`; it rests on `BestPathIsBest`, which says what
the greedy choice returns, and on the cardinality of a finite set with one
element more.  `ChosenInTurn` remembers how each path was chosen: by what the
counters were at the turn of that test.  `GreedyIsHalf` compares the result with
any assignment of paths to tests of their own.  If a path of the assignment was
left uncovered, the test it was assigned was given a path that had no test
before; otherwise the uncovered one, with fewer tests, would have been chosen
(`FirstOfItsPath`).  So each uncovered path has a covered one to itself, and at
most half of the assignment is uncovered (`UncoveredAreFew`).

**`ReuseEngineProofs`**, from `VersionsAssumption` and `ReuseAssumption` (any two
versions, suites, similarities, and orders of the unordered containers):
`OldEngineRuns`, `OldEngineDone`, `ReuseInvariant`, `ExpectationsAreKept`,
`NoTestIsLost`, `MatchersDoAgree`.  Every step of the reuse engine is a step of
the instance `Old` or leaves it alone, so that what is proved of `TestEngine`
holds inside (`OldEngineRuns`, and `OldDone` for what the second matching needs).
`IInv` says what the two sets of ids hold when some elements of `path_map` have
been visited and others not: the first the tests of the visited paths above the
threshold, both together those of all visited paths (`SelectedSoFar`); and that
the new suite is made of these sets (`CollectedSoFar`).  The first set alone does
not depend on the order; the second does, which is why a test can be in the new
suite twice (`ReusedOnce` of section 5).  `MapInv` says that the tests matched a
second time so far were given the path of the first time, and that the counters
of the CFG are what those of the run were at that turn; it is kept because both
matchers choose by `BestPath`, and `ChosenInTurn` says what the first one chose.

**`ConcurrentExecutorProofs`**, from `PoolAssumption` (any number of commands and
at least one thread): `PoolInvariant`, `EachSlotOneWriter`,
`SlotsHoldOwnOutput`, `NothingLeftBehind`, `PoolImplementsExecutor`,
`LoopImplementsExecutor`, `EitherKeepsPromise`, `EitherSlotsOwn`.  `Inv` adds
to the properties who holds the mutex and in which steps (`MutexHeld`), that
the front a thread has read is still the front (`FrontHeld`), that no command
is in the list twice (`NoneTwice`), that a busy thread holds a command
(`InHand`), that a slot no one has worked on is empty (`Unwritten`), that a
thread leaves only an empty list (`Leaving`), and which threads main has started
and joined (`Joined`).  Without these a thread could be imagined that holds a
command another one has removed.  For the refinement, a thread that is done with
a command (`Pclose`, `PopenFails`) takes the step of the abstract command, the
end of the joins is `Return`, and everything else is a stutter.  For the loop, the
invariant `LoopInv` says that a result is a prefix of its own command's output,
complete or empty for the commands before the one in hand, and empty for those
behind it; what `Executor` sees of a result is what the loop has gone on from.
The last two theorems are about `Executors`, where the caller has either: the
one that is not used does not move.

**`StaticPathsProofs`**, from `GraphAssumption` (any graphs, with cycles or not):
`TypeCorrect`, `FindsExecutionsOnly`, `SearchLosesNothing`,
`AnalysisIsComplete`, `MasksIdentify`.  `Sound` says that what is on the stack or found begins at
the entry and follows edges; `Kept` that an execution not found yet has a prefix
on the stack or among the successors still to be pushed.  Completeness is
conditional on the search ending, which on cycles it does not.  `MasksIdentify`
is for graphs without cycles and with one edge at most from a block to another
(a `switch` may have two, and `UniqueIdentifier` of section 5 then fails).  It
needs that no execution is found twice (`OneWay`: it is found once, or has one
prefix on the stack, or is pending), and that two executions with one set of
blocks are equal (`MaskTells`): where they first part, each goes on to a block
that the other passes later, which makes a cycle (`NoCrossing`).

**`PathPruningProofs`**, from `PruningAssumption` (any set of graphs, any targets
whose neighbouring blocks differ): `TypeCorrect`, `CoverageIsExact`,
`TargetNotPruned`, `PartsSurvive`.  `IInv` adds to the properties `Chosen` (the
unique part is a part of the target, which is an execution), `InTime` (a block
with a call of its own is not left before the tables are set up) and `Hopeless`
(a state that was ended had covered no target edge and could reach no block of
the part).  That a trigger block ahead is reachable along the target
(`ReachableAlong`) is an induction over positions, made from the library's facts
about finite sets.  Reachability is a statement about all closed sets of blocks, which is
exact where LLVM's is (on up to 32 blocks).

**`DriversProofs`**.  The parser alone, from `ParserAssumption` (an `int` of any
width whose maximum ends in 7, as with 8, 16 and 32 bits; any texts in which the
signs come before the digits and the bracket closes at the end): `ParserTypes`,
`NumbersInType`, `NumbersClamped`, `ArraysFilled`.  `IInv` says how the number
and its flags stand to the number as written in mid-element (`InStep`), that
both start afresh with each element (`Fresh`), that what was written is what was
read (`Copied`), and that as many elements are written as separators were passed
(`Counted`), which for the last step is what `count_numbers` has counted.

The drivers, from `DriversAssumption` (any objects within the types, any size of
arrays but 0, 1 and 4: the script goes by the size of an object, and would take a
list or string of one or four bytes for a character or an int; the code uses 5):
`ArgumentsParsed`, the same of all texts a driver is given, and `DriverInvariant`
and `ArgumentsDoArrive`, that the function is called with the values KLEE found.
Three things had to be shown of how numbers become text and text numbers, none
of which the library states in a form the provers can use: that the recursive
function in `Decimal` exists and writes digits (`DigitsExist`, `DecimalIs`), that
reading those digits gives the number back (`DigitsRead`, `AtoiOfDecimal`), and
that `FoldLeft` and `FlattenSeq` are what their definitions choose (`FoldExists`,
`FlatExists`).  All are inductions, made with the library's facts on natural
numbers as sets.

What the parser makes of a text is then said of a run of states that the text
leads it through, one per character (`IsRun`, `Leads`); runs of two texts join to
one of both (`LeadsConcat`), so that the digits of a number (`DecimalLeads`), an
element (`PieceLeads`) and a list (`ListLeads`) can be dealt with one after the
other.  `DInv` says that while an argument is being parsed, the parser is on the
run of the text of its object (`Pending`); for `atou`, which may return early, that
the number read so far is not above that of the object.  A string whose size is
divisible by four is a loss of its own in `Lost`, since the script writes it as a
list of ints: the property was stated without it, held on the instance, whose
strings have five bytes, and the proof failed there.

The driver generator, from `ProgramsAssumption` (any sources, any number of
drivers, a crash at any line): `GeneratorInvariant`, `SourceIsKept`,
`MainIsAlone`.  `GInv` says that the file is the source as it was, or a part of it
renamed (`AsOnce`), and that what was read before the file was truncated becomes
the same when it is renamed (`Writing`).  This rests on the lemma `RenamedOnce`:
a line that was renamed is left alone the next time, since its first `main` now
follows a `_`.  `MainIsAlone` has the hypothesis that no line has two mains
(`OneMainPerLine`, also evaluated by TLC): `modifyMainFunction` looks only at the
first in a line.

`DriversFit` is about all sources in which the function is defined as C has it:
`Declares` says so without reference to the code that looks for the parts, with
blanks anywhere.  What `find` returns are then the parentheses of the definition
(`ParenthesesAre`), the commas between them are the stops in their order
(`InOrderIs`), and each part is read as it is declared
(`ParameterIs`), `void` alone with an empty type, which is not supported either.
A name without `main` and `_` is found in a renamed line only if it was there before
(`FoundBefore`), so that the first line found is the definition; a name with
`main` in it is found in no renamed line (`NotFound`), and its definition is
renamed.  The theorem has the hypotheses `OneMainPerLine` and `PlainNames`, that no
function under test has a `_` as an atom of its own; TLC evaluates both.  An earlier
form of `DriverFits` left out every function whose name is in another line of the
source as well, as it is wherever it is called; the attempt to prove it showed that,
and now only lines with a `{` that come before the definition matter.

**`GenerateProofs`**.  The index, from `HashAssumption` (any paths, any base and
modulus, so any collisions): `SearchInvariant`, `ReturnedOccursOnce`,
`IndexInTime`, `FirstUnique`, `DistinctTargeted`.
`IndexComplete` says that the index holds exactly the occurrences of the lengths
looked at so far, and `NothingBefore` that no part before the one in question is
unique, unless parts collide.  An entry with one element then is the place of
the sequence and the only one (`UniqueEntry`), and a unique sequence has such an
entry if nothing collides (`EntryOfUnique`).  `DistinctTargeted` has a
hypothesis of its own, `WholePaths`: paths start at an entry no branch leads to
and end at a block no branch leaves, as those of a CFG do.

The generator and its script, from `GeneratorAssumption` (any ascending lists of
paths, any inputs, whatever KLEE finds, fails at or leaves undone):
`GeneratorInvariant`, `InputsOnce`, `TargetsTried`, `FilesFresh`.  `GenInv` follows a
path through the lists: a path that got a target has a file of this run
(`Written`); the command line holds the paths dealt with so far (`CommandLine`); the
script keeps exactly those whose file is there (`FilesChecked`), which all paths
with a target have; the files before the current one have an outcome, and no other
has (`Runs`); what is kept or still pending are the inputs of the directories so
far (`Reading`), each kept once (`KeptOnce`).

Both together: `SearchesSound`, `DistinctAreTried`.  Each step of the composition is
a step of the generator or leaves it alone (`GeneratorSteps`), so that what is
proved of it holds here; the invariant of the search holds across all searches
because each starts with an index of its own (`NewSearch`).  `Steered` says that the
search under way is for the path that comes next, and that of those before it each
that is distinct, among whole paths and without collisions, has its target: a part
that is no part of another path is there at the latest when the whole path is
looked at.

**`VersionsProofs`**, the two versions of the program under test.  The graphs, from no
assumption (any functions, any order of the blocks): `GraphInvariant`,
`OrderDoesNotShow`.  `GraphInv` says that a visited block has its final type and
any other the one it was made with (`TypesOf`), and that the number of a block
was written by some visited block that leads there, or by none (`NumbersOf`).
If all that lead there agree, the number is the same in whatever order they were
visited.

The map of the paths, from `MappingAssumption`: `MapInvariant`,
`DistancesAreMinimal`, `UntouchedAreReused`.  The assumption says what makes a
similarity a similarity: a path has a block and a block a terminator, so that no
quotient has a zero below; the fineness `Unit` and `Scale` of the fractions is
positive; and a path search sees of a function its shape only, so that functions
with equal shapes have equal paths.  `MapInv` says of each new path that has been dealt
with, and of the search in progress, that the old path held is one that no other
compared so far is more similar than (`Mapped`, `Searched`); the paths of a
function that is in both versions unchanged are then mapped to themselves, as no
other can be more similar than fully.

What the tables of the two edit distances hold is not taken from their
definition, a recursive function on pairs, without proof: that there is one such
function is an induction on the sum of the pair, made with the library's facts on
natural numbers as sets (the library's induction theorems take an operator).  From
it follow the bounds of a cell, that it is zero exactly if the two prefixes are
equal, and that neighbouring cells differ by at most the cost of one step.  The code, on
equal elements, takes the cell before and looks at no other; that this is a
minimum all the same is the last of these facts.  `DistanceMinimal` compares
with all alignments: the last pair of an alignment is taken off, or one of the
two last elements is in no pair, and what is left is an alignment of the
prefixes (`CellMinimal`).  The costs of an alignment are a sum over a finite set,
whose value does not depend on the order (also an induction, on the size of the
set).

The files, from `WorkspaceAssumption` (any versions, any of them without paths or
not to be compiled, any number of runs): `SuitesAreReadable`, wherever the sources
lie, and with `InWorkDir` also `NewIsCurrent` and `PathsAreOwn`.  The invariant
comes in two parts for this reason.  `Anywhere` says which IR and graphs match the
sources at which stage (`Compiled`), which versions have been run (`Ran`), that a new
version without paths was noted when the run began (`Recorded`), that the suite of
this run is there (`Given`), and `SuiteReadable` itself.  `WorkspaceInv` adds what
rests on cleaning: that what is instrumented is current, unless a run was killed
(`Instrumented`, `UsedNew`).  After a kill only the first half of
`MatchedWithOwnPaths` is left, that the ids the outputs get are ids of `new_cfg`:
the program executed may then be an older one, whose paths these are not.

Some theorems state what no run checks by itself: `NothingLeftBehind` (which the
refinement includes), `TargetNotPruned` (an instance of `PartsSurvive`),
`CountsCorrect` and the type invariants; `IndexInTime`, that a branch of the code
is dead; and `SearchLosesNothing`, `PathsChosenInTurn`, `OldEngineRuns`,
`GraphInvariant`, `DriverInvariant` and the other invariants behind the properties.

Only model-checked, and why:

* all liveness (`Terminates`, `Returns`, `Ends`): the proof system does not
  reach it;
* `OneTurnPaths`: the search of loops is a recursion over loops, written with
  recursive operators;
* the properties of section 5, which do not hold.

## 7. What is not modelled

* the text of JSON (what a missing key or a null does to the next run is in
  `Workspace`), of C sources beyond what the driver generator looks for, of
  marks, and the binary format of ktest files;
* the source text of nodes (`getInfoFromSrcFile`) and the dot and JSON dumps of
  graphs, which nothing reads again, and the drawing of pictures;
* LLVM and clang: the graphs are those clang makes without optimisation, and
  `-optimize` of KLEE is taken to keep the blocks the calls are in; so are the
  LLVM calls that insert marks;
* what a driver frees, as that rests on who owns what the function under test
  returns;
* `compileDriverAndInstrument` and `dumpReuseReport` of the reuse engine, which
  nothing calls;
* unique parts with more than 128 edges, which overflow a table of the patch;
* the static counters that number nodes and paths.
