------------------------------- MODULE Workspace -------------------------------
(***************************************************************************)
(* The files that the runs of the tool leave beside the sources, over      *)
(* several runs of main() with edits of the two sources in between.  A     *)
(* file that is made from a source is known by the version it was made     *)
(* from, 0 for no file, and a test suite by whether it can be read and     *)
(* whether any tests of the user are left in it.                           *)
(***************************************************************************)
EXTENDS Integers

CONSTANTS Versions,        \* the versions a source may have
          Broken,          \* the versions that do not compile
          Pathless,        \* those whose function is one block: it has no path
          MaxRuns,         \* bound: the runs of the tool
          InWorkDir        \* are the sources in the working directory?

Sides == {"old", "new"}
NoFile == 0

ASSUME WorkspaceAssumption == /\ Versions \subseteq Nat \ {NoFile}
                              /\ Broken \subseteq Versions
                              /\ Pathless \subseteq Versions \ Broken
                              /\ MaxRuns \in Nat
                              /\ InWorkDir \in BOOLEAN

\* The suite of the user, the one that a run derives from whichever is given,
\* and the one of the KLEE script.
Suites == {"test_suite.json", "test_reused.json", "test_suite_generated.json"}
Reused == "test_reused.json"
Generated == "test_suite_generated.json"

VARIABLES pc,             \* where main() is
          runs,
          src,            \* the versions of oldSrcFile and newSrcFile
          ll,             \* the IR of the sources
          instrumented,   \* the instrumented IR of the drivers
          exe,            \* its executables
          cfg,            \* the version of the reuse engine's old_cfg, new_cfg
          engine,         \* the version of the CFG of the test engine made last
          used,           \* the version the tests of this run were run on
          suites,         \* "absent", "tests", "empty" or "unreadable"
          given,          \* the suite this run was given, and what it read
          testCases,
          killed, torn,   \* history: was a run killed, and was one killed while
          pathless        \* it wrote the suite? Had a new version no paths?

built == <<ll, instrumented, exe, cfg, engine>>
tests == <<suites, given, testCases>>
history == <<killed, torn, pathless>>
vars == <<pc, runs, src, built, used, tests, history>>

Nothing == [s \in Sides |-> NoFile]

Init == /\ pc = "idle"
        /\ runs = 0
        /\ src \in [Sides -> Versions]
        /\ ll = Nothing /\ instrumented = Nothing /\ exe = Nothing
        /\ cfg = Nothing /\ engine = NoFile /\ used = Nothing
        /\ suites = [f \in Suites |-> IF f = "test_suite.json" THEN "tests" ELSE "absent"]
        /\ given = "test_suite.json" /\ testCases = "empty"
        /\ killed = FALSE /\ torn = FALSE /\ pathless = FALSE

\* Between two runs.
Edit(s, v) ==
    /\ pc = "idle"
    /\ src[s] # v
    /\ src' = [src EXCEPT ![s] = v]
    /\ UNCHANGED <<pc, runs, built, used, tests, history>>

\* Mistake: only what is not there is compiled.
compileMissing(s) == IF src[s] \in Broken \/ ll[s] # NoFile THEN {ll[s]} ELSE {src[s]}

\* The IR there may be after the compiler was called: when the source does not
\* compile, the old output is removed or left where it is.
compileSrcToIR(s) == IF src[s] \in Broken THEN {ll[s], NoFile} ELSE {src[s]}

\* ReuseEngine::init. The results of compileSrcToIR are dropped.
setSrcAndFunction(test) ==
    /\ pc = "idle"
    /\ runs < MaxRuns
    /\ suites[test] # "absent"
    /\ given' = test
    /\ pathless' = (pathless \/ src["new"] \in Broken \cup Pathless)
    /\ runs' = runs + 1
    /\ \E old \in compileSrcToIR("old"), new \in compileSrcToIR("new") :
           ll' = [s \in Sides |-> IF s = "old" THEN old ELSE new]
    /\ engine' = NoFile
    /\ used' = Nothing
    /\ pc' = "initCFG"
    /\ UNCHANGED <<src, instrumented, exe, cfg, suites, testCases, killed, torn>>

\* ReuseEngine::initCFG. Without the old IR there is no new_cfg, and the
\* similarity calculator uses a null pointer.
initCFG ==
    /\ pc = "initCFG"
    /\ cfg' = ll
    /\ pc' = IF ll["old"] = NoFile THEN "aborted" ELSE "read"
    /\ UNCHANGED <<runs, src, ll, instrumented, exe, engine, used, tests, history>>

\* from_json throws, at the null that stands for a coverage of 0 / 0, at what
\* was not written to its end, and at what the script of KLEE writes: it has
\* no pathId. It does not read executed: every suite is run on the old version.
getTestSuiteFromFile ==
    /\ pc = "read"
    /\ IF suites[given] = "unreadable" THEN pc' = "aborted" /\ UNCHANGED testCases
       ELSE pc' = "old" /\ testCases' = suites[given]
    /\ UNCHANGED <<runs, src, built, used, suites, given, history>>

\* TestEngine(s) and compileDriverAndInstrument(): the engine compiles the
\* source again and has a CFG of its own; the driver includes the source. Only
\* what is not there is instrumented; the executable is always built, and
\* exeFile stays empty if the driver does not compile.
TestEngine(s) ==
    /\ pc = s
    /\ \E ir \in compileSrcToIR(s) : ll' = [ll EXCEPT ![s] = ir] /\ engine' = ir
    /\ IF src[s] \in Broken
       THEN UNCHANGED <<instrumented, exe, used>>
       ELSE LET v == IF instrumented[s] = NoFile THEN src[s] ELSE instrumented[s]
            IN  /\ instrumented' = [instrumented EXCEPT ![s] = v]
                /\ exe' = [exe EXCEPT ![s] = v]
                /\ used' = [used EXCEPT ![s] = v]
    /\ pc' = IF s = "old" THEN "new" ELSE "open"
    /\ UNCHANGED <<runs, src, cfg, tests, history>>

\* What reuseTestSuite takes over: nothing, if one of the versions has no paths
\* or the old one did not run; and never a test whose output matches no old
\* path, or only a path that no new one is mapped to.
Taken == IF \/ testCases = "empty"
            \/ used["old"] = NoFile
            \/ cfg["old"] \in Pathless
            \/ cfg["new"] \in Pathless \cup {NoFile}
         THEN {"empty"}
         ELSE {"tests", "empty"}

\* dumpTestSuiteToFile opens the file, which truncates it. Its name is cut at
\* the first '_': a reused suite that is reused again is its own successor.
openSuite ==
    /\ pc = "open"
    /\ suites' = [suites EXCEPT ![Reused] = "unreadable"]
    /\ pc' = "dump"
    /\ UNCHANGED <<runs, src, built, used, given, testCases, history>>

\* When the test engine's CFG has no paths, for want of an IR or because the
\* function is one block, the coverage is 0 / 0.
dumpTestSuiteToFile ==
    /\ pc = "dump"
    /\ \E left \in Taken :
           suites' = [suites EXCEPT ![Reused] =
                          IF engine \in Pathless \cup {NoFile} THEN "unreadable" ELSE left]
    /\ pc' = "generate"
    /\ UNCHANGED <<runs, src, built, used, given, testCases, history>>

\* TestGenerator::run: the assertion aborts when the driver for KLEE does not
\* compile. The script writes the tests it finds, none when it is given no
\* file, and leaves the suite alone when it fails.
TestGenerator ==
    /\ pc = "generate"
    /\ IF src["new"] \in Broken THEN pc' = "aborted" /\ UNCHANGED suites
       ELSE /\ pc' = "clean"
            /\ \E written \in {"unreadable", "empty", suites[Generated]} :
                   suites' = [suites EXCEPT ![Generated] = written]
    /\ UNCHANGED <<runs, src, built, used, given, testCases, history>>

\* Mistake: the instrumented files are left.
cleanOnlyIR ==
    /\ pc = "clean"
    /\ IF InWorkDir THEN ll' = Nothing ELSE UNCHANGED ll
    /\ pc' = "idle"
    /\ UNCHANGED <<runs, src, instrumented, exe, cfg, engine, used, tests, history>>

\* clean.py: only the working directory is cleaned.
cleanUselessFiles ==
    /\ pc = "clean"
    /\ IF InWorkDir
       THEN ll' = Nothing /\ instrumented' = Nothing /\ exe' = Nothing
       ELSE UNCHANGED <<ll, instrumented, exe>>
    /\ pc' = "idle"
    /\ UNCHANGED <<runs, src, cfg, engine, used, tests, history>>

\* The user starts anew after an abort.
Restart ==
    /\ pc = "aborted"
    /\ pc' = "idle"
    /\ UNCHANGED <<runs, src, built, used, tests, history>>

\* The tool is stopped: by the user, as KLEE may take 1000 seconds for each
\* path; by what nobody catches, as when a result to be dumped is no UTF-8; or
\* by exit(1), when the user is asked for a driver and names none.
Kill ==
    /\ pc \notin {"idle", "aborted"}
    /\ pc' = "aborted"
    /\ killed' = TRUE
    /\ torn' = (torn \/ pc = "dump")
    /\ UNCHANGED <<runs, src, built, used, tests, pathless>>

Next == \/ \E s \in Sides, v \in Versions : Edit(s, v)
        \/ \E test \in Suites : setSrcAndFunction(test)
        \/ initCFG
        \/ getTestSuiteFromFile
        \/ \E s \in Sides : TestEngine(s)
        \/ openSuite
        \/ dumpTestSuiteToFile
        \/ TestGenerator
        \/ cleanUselessFiles
        \/ Restart
        \/ Kill

Spec == Init /\ [][Next]_vars

-----------------------------------------------------------------------------
VersionOrNone == Versions \cup {NoFile}

(* Type correctness of the versions.                                       *)
TypeOK == /\ pc \in {"idle", "initCFG", "read", "old", "new", "open", "dump",
                       "generate", "clean", "aborted"}
          /\ runs \in 0 .. MaxRuns
          /\ src \in [Sides -> Versions]
          /\ {ll, instrumented, exe, cfg, used} \subseteq [Sides -> VersionOrNone]
          /\ engine \in VersionOrNone
          /\ suites \in [Suites -> {"absent", "tests", "empty", "unreadable"}]
          /\ given \in Suites /\ testCases \in {"tests", "empty"}
          /\ {killed, torn, pathless} \subseteq BOOLEAN

Running == pc \in {"new", "open", "dump", "generate", "clean"}

(* The reused tests are run on the program under test as it is now, or on  *)
(* nothing, although instrumented files are reused: in the working         *)
(* directory no run that has instrumented the new version fails before     *)
(* they are removed, unless it is killed.                                  *)
NewExecutedCurrent == Running /\ ~killed => used["new"] \in {src["new"], NoFile}

(* The paths their outputs are matched with, those of the test engine's    *)
(* own CFG, are the ones that new_cfg has under the same ids, although the *)
(* source is compiled once for each, whatever has failed or was killed     *)
(* before; and they are the paths of the version that was run, if no run   *)
(* was killed.                                                             *)
MatchedWithOwnPaths ==
    Running /\ used["new"] # NoFile =>
        /\ engine = cfg["new"]
        /\ ~killed => engine = used["new"]

(* A run leaves a suite that the next one cannot read only if the new      *)
(* version, as it is now, has no paths; and in a chain of runs, each on    *)
(* the suite of the one before, a suite is unreadable only while it is     *)
(* written, after a new version without paths or after a kill that fell    *)
(* into the writing.  Which tests are left in it is not said here.         *)
SuiteReadable ==
    suites[Reused] = "unreadable" =>
        /\ pc \in {"generate", "clean"} => src["new"] \in Broken \cup Pathless
        /\ pc = "dump" \/ pathless \/ torn

(* README.md, function 2: the driver of the program is compiled,           *)
(* instrumented and run, so that each version is run as it is now.         *)
ExecutedCurrent == Running => \A s \in Sides : used[s] \in {src[s], NoFile}
=============================================================================
