----------------------------- MODULE GenerateTests -----------------------------
(***************************************************************************)
(* Test generation for the uncovered paths: TestGenerator::run             *)
(* (generate/testgenerator.h) writes an instrumented IR file for each path *)
(* and hands the files to scripts/klee_ir.py, which runs KLEE on one after *)
(* the other, removes duplicate inputs and writes the generated suite.     *)
(***************************************************************************)
EXTENDS Integers, FiniteSets, SequencesExt

CONSTANTS Paths,     \* ids of paths
          Uncovered, \* the lists of uncovered paths that may be given
          Inputs,    \* input vectors
          Finds      \* Finds[p]: what KLEE may find for path p, as sets

\* The uncovered paths are collected by number (main.cpp).
Ascending(s) == \A j, k \in DOMAIN s : j < k => s[j] < s[k]

ASSUME GeneratorAssumption == /\ Paths \in SUBSET Nat
                              /\ \A s \in Uncovered : s \in Seq(Paths) /\ Ascending(s)
                              /\ Finds \in [Paths -> SUBSET SUBSET Inputs]

VARIABLES pc,
          driver,       \* "generated", or "entered" by the user
          driverFile,   \* the driver that is compiled, "none" before
          paths,        \* the uncovered paths, a sequence
          HasTarget,    \* the paths setPathToInstrument has found a target for
          file,         \* file[p]: the IR file "none", of this "run", or "old"
          klee_cmd,     \* the files on the command line, as path ids
          valid_ir_files,   \* those of them the script finds
          n,            \* the path, or the file, that comes next
          outcome,      \* outcome[p]: "none", "timeout" or "success"
          found,        \* found[p]: the inputs in KLEE's directory
          pending,      \* inputs of the file that is read, still to come
          ktests,       \* the inputs kept, a sequence
          suite         \* the suite that is written, [written, tests]

given == <<driver, driverFile, paths, HasTarget>>
vars == <<pc, given, file, klee_cmd, valid_ir_files, n, outcome, found, pending,
          ktests, suite>>

NoSuite == [written |-> FALSE, tests |-> << >>]

Init == /\ pc = "driver"
        /\ driver = "generated"
        /\ driverFile = "none"
        /\ paths \in Uncovered
        /\ HasTarget = {}
        /\ file \in [Paths -> {"none", "old"}]
        /\ klee_cmd = << >>
        /\ valid_ir_files = << >>
        /\ n = 1
        /\ outcome = [p \in Paths |-> "none"]
        /\ found = [p \in Paths |-> {}]
        /\ pending = {}
        /\ ktests = << >>
        /\ suite = NoSuite

-----------------------------------------------------------------------------
(* TestGenerator::run *)

\* If no driver can be generated the user enters the name of one; entering
\* the name of no file ends the program.
Driver ==
    /\ pc = "driver"
    /\ \/ driver' = "generated" /\ pc' = "compile"
       \/ driver' = "entered" /\ pc' \in {"compile", "exit"}
    /\ UNCHANGED <<driverFile, paths, HasTarget, file, klee_cmd, valid_ir_files,
                   n, outcome, found, pending, ktests, suite>>

\* The file with the default name is compiled. The assertion aborts when that
\* fails; the IR is parsed again for every path, and fails for the first or
\* for none.
Compile ==
    /\ pc = "compile"
    /\ driverFile' = "generated"
    /\ pc' \in {"instrument", "abort"} \cup (IF paths = << >> THEN {} ELSE {"false"})
    /\ UNCHANGED <<driver, paths, HasTarget, file, klee_cmd, valid_ir_files, n,
                   outcome, found, pending, ktests, suite>>

\* Mistake: a file that is there is not written again.
generateOnce(p, target) ==
    file' = IF target /\ file[p] = "none" THEN [file EXCEPT ![p] = "run"] ELSE file

\* Nothing is written when the path gets no target.
generateInstrumentedIR(p, target) ==
    file' = IF target THEN [file EXCEPT ![p] = "run"] ELSE file

Instrument(target) ==
    /\ pc = "instrument"
    /\ n <= Len(paths)
    /\ generateInstrumentedIR(paths[n], target)
    /\ HasTarget' = IF target THEN HasTarget \cup {paths[n]} ELSE HasTarget
    /\ klee_cmd' = Append(klee_cmd, paths[n])
    /\ n' = n + 1
    /\ UNCHANGED <<pc, driver, driverFile, paths, outcome, found, pending, ktests,
                   suite, valid_ir_files>>

\* system(): the script starts, or does not.
system ==
    /\ pc = "instrument"
    /\ n > Len(paths)
    /\ n' = 1
    /\ pc' \in {"check", "false"}
    /\ UNCHANGED <<given, file, klee_cmd, valid_ir_files, outcome, found,
                   pending, ktests, suite>>

-----------------------------------------------------------------------------
(* klee_ir.py *)

\* A file that does not exist is left out.
checkFile ==
    /\ pc = "check"
    /\ n <= Len(klee_cmd)
    /\ n' = n + 1
    /\ valid_ir_files' = IF file[klee_cmd[n]] = "none" THEN valid_ir_files
                         ELSE Append(valid_ir_files, klee_cmd[n])
    /\ UNCHANGED <<pc, given, file, klee_cmd, outcome, found, pending, ktests,
                   suite>>

klee_execute_ir_files ==
    /\ pc = "check"
    /\ n > Len(klee_cmd)
    /\ n' = 1
    /\ pc' = "klee"
    /\ UNCHANGED <<given, file, klee_cmd, valid_ir_files, outcome, found,
                   pending, ktests, suite>>

WaitEnds ==
    /\ pc = "klee"
    /\ n <= Len(valid_ir_files)
    /\ outcome' = [outcome EXCEPT ![valid_ir_files[n]] = "success"]
    /\ \E S \in Finds[valid_ir_files[n]] : found' = [found EXCEPT ![valid_ir_files[n]] = S]
    /\ n' = n + 1
    /\ UNCHANGED <<pc, given, file, klee_cmd, valid_ir_files, pending, ktests,
                   suite>>

\* Mistake: a timeout ends the loop.
TimeoutBreaks ==
    /\ pc = "klee"
    /\ n <= Len(valid_ir_files)
    /\ outcome' = [outcome EXCEPT ![valid_ir_files[n]] = "timeout"]
    /\ n' = Len(valid_ir_files) + 1
    /\ UNCHANGED <<pc, given, file, klee_cmd, valid_ir_files, found, pending,
                   ktests, suite>>

\* What KLEE has written by then is not looked at.
TimeoutExpired ==
    /\ pc = "klee"
    /\ n <= Len(valid_ir_files)
    /\ outcome' = [outcome EXCEPT ![valid_ir_files[n]] = "timeout"]
    /\ \E S \in Finds[valid_ir_files[n]] : found' = [found EXCEPT ![valid_ir_files[n]] = S]
    /\ n' = n + 1
    /\ UNCHANGED <<pc, given, file, klee_cmd, valid_ir_files, pending, ktests,
                   suite>>

\* KLEE has not made its directory, so that listdir raises: the script ends,
\* and run() returns false.
ListdirRaises ==
    /\ pc = "klee"
    /\ n <= Len(valid_ir_files)
    /\ pc' = "false"
    /\ UNCHANGED <<given, file, klee_cmd, valid_ir_files, n, outcome, found,
                   pending, ktests, suite>>

\* The inputs of the n-th file that has been run to its end, in any order.
InputsOf(m) == IF m <= Len(valid_ir_files) /\ outcome[valid_ir_files[m]] = "success"
              THEN found[valid_ir_files[m]] ELSE {}

\* Mistake: the loop waits for one file too many.
RunsDoneLate ==
    /\ pc = "klee"
    /\ n > Len(valid_ir_files) + 1
    /\ pc' = "parse"
    /\ n' = 1
    /\ pending' = InputsOf(1)
    /\ UNCHANGED <<given, file, klee_cmd, valid_ir_files, outcome, found,
                   ktests, suite>>

RunsDone ==
    /\ pc = "klee"
    /\ n > Len(valid_ir_files)
    /\ pc' = "parse"
    /\ n' = 1
    /\ pending' = InputsOf(1)
    /\ UNCHANGED <<given, file, klee_cmd, valid_ir_files, outcome, found,
                   ktests, suite>>

\* Mistake: an input is only compared with the one before it.
seenLast(x) == ktests # << >> /\ Last(ktests) = x
seen(x) == x \in ToSet(ktests)

fromfile(x) ==
    /\ pc = "parse"
    /\ x \in pending
    /\ pending' = pending \ {x}
    /\ ktests' = IF seen(x) THEN ktests ELSE Append(ktests, x)
    /\ UNCHANGED <<pc, given, file, klee_cmd, valid_ir_files, n, outcome, found,
                   suite>>

\* Mistake: the rest of a directory is left when an input is known.
nextFileEarly ==
    /\ pc = "parse"
    /\ pending = {} \/ \E x \in pending : seen(x)
    /\ n <= Len(valid_ir_files)
    /\ n' = n + 1
    /\ pending' = InputsOf(n + 1)
    /\ UNCHANGED <<pc, given, file, klee_cmd, valid_ir_files, outcome, found,
                   ktests, suite>>

nextFile ==
    /\ pc = "parse"
    /\ pending = {}
    /\ n <= Len(valid_ir_files)
    /\ n' = n + 1
    /\ pending' = InputsOf(n + 1)
    /\ UNCHANGED <<pc, given, file, klee_cmd, valid_ir_files, outcome, found,
                   ktests, suite>>

dump_ktests ==
    /\ pc = "parse"
    /\ n > Len(valid_ir_files)
    /\ suite' = [written |-> TRUE, tests |-> ktests]
    /\ pc' = "true"
    /\ UNCHANGED <<given, file, klee_cmd, valid_ir_files, n, outcome, found,
                   pending, ktests>>

\* All but the instrumentation of a path.
Around == \/ Driver \/ Compile \/ system
          \/ checkFile \/ klee_execute_ir_files
          \/ WaitEnds \/ TimeoutExpired \/ ListdirRaises \/ RunsDone
          \/ \E x \in Inputs : fromfile(x)
          \/ nextFile \/ dump_ktests

Next == Around \/ \E target \in BOOLEAN : Instrument(target)

Spec == Init /\ [][Next]_vars

-----------------------------------------------------------------------------
Succeeded == {p \in Paths : outcome[p] = "success"}

(* Type correctness of the generator's and the script's state.             *)
TypeOK ==
    /\ pc \in {"driver", "compile", "instrument", "check", "klee", "parse", "true", "false",
               "abort", "exit"}
    /\ driver \in {"generated", "entered"} /\ driverFile \in {"none", "generated"}
    /\ paths \in Seq(Paths) /\ HasTarget \subseteq Paths
    /\ klee_cmd \in Seq(Paths) /\ valid_ir_files \in Seq(Paths)
    /\ n \in 1 .. Len(paths) + 1
    /\ file \in [Paths -> {"none", "run", "old"}]
    /\ outcome \in [Paths -> {"none", "timeout", "success"}]
    /\ found \in [Paths -> SUBSET Inputs] /\ pending \subseteq Inputs
    /\ ktests \in Seq(Inputs)
    /\ suite \in [written : BOOLEAN, tests : Seq(Inputs)]

(* The suite that is written holds each input of each run of KLEE that    *)
(* ended in time, and holds it once, whichever paths it was found for and  *)
(* in whatever order the directories are listed: the removal of duplicates *)
(* removes duplicates, all of them and nothing else.                       *)
EachInputOnce ==
    suite.written => /\ IsInjective(suite.tests)
                     /\ ToSet(suite.tests) = UNION {found[p] : p \in Succeeded}

(* A timeout costs its own path only: when the suite is written, KLEE has  *)
(* been run for each uncovered path that has a target.                     *)
EveryTargetTried ==
    suite.written => \A p \in ToSet(paths) \cap HasTarget : outcome[p] # "none"

(* A path with a target is never explored with the file of an earlier run, *)
(* which may belong to another version of the program.                     *)
TargetsFresh ==
    pc = "klee" => \A p \in ToSet(valid_ir_files) \cap HasTarget : file[p] = "run"

(* The comment on generateInstrumentedIR: it writes the IR file of the     *)
(* path.  So KLEE is run on files of this run only.                        *)
OnlyThisRun == \A p \in Paths : outcome[p] # "none" => file[p] = "run"

(* The comment in run(): the name of the driver is entered by hand.  If so *)
(* that driver is the one that is compiled.                                *)
EnteredDriverCompiled == driverFile # "none" => driverFile = driver

(* The generator comes to an end.                                          *)
Terminates == <>(pc \in {"true", "false", "abort", "exit"})
=============================================================================
