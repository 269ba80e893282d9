---------------------------- MODULE DriverGenerator ----------------------------
(***************************************************************************)
(* DriverGenerator (generate/drivergenerator.h): it renames main in the    *)
(* source file of the user, in place, looks for the line that defines the  *)
(* function under test, reads its parameters and writes a driver.          *)
(*                                                                         *)
(* A line is a sequence of atoms: names, parts of names, and single        *)
(* characters (Marks).  A name that contains another one is written as     *)
(* several atoms, so that find() sees one within the other.                *)
(***************************************************************************)
EXTENDS Naturals, FiniteSets, SequencesExt

CONSTANTS Atoms,      \* what lines are made of
          Programs,   \* [lines, target, params]: a source file, the name of
                      \* the function under test and what it takes
          MaxCalls    \* bound: the drivers that are generated

Marks == {" ", "*", ",", "(", ")", "{", "}", "_"}
main == <<"main">>
space == " "
comma == ","
brace == "{"

ASSUME ProgramsAssumption == /\ Marks \cup {"main"} \subseteq Atoms
                             /\ \A p \in Programs :
                                  /\ p.lines \in Seq(Seq(Atoms))
                                  /\ p.target \in Seq(Atoms) /\ p.target # << >>
                                  /\ p.params \in Seq([type : Seq(Atoms), name : Seq(Atoms)])

VARIABLES program,    \* the source as the user wrote it
          file,       \* the source file
          lines,      \* what was read before it was truncated
          generator, driver,
          calls,
          crashed     \* history: was a line ever lost?
generatorVars == <<program, file, lines, generator, driver, calls, crashed>>

NoDriver == [type |-> "none"]

Positions(line, text) ==
    {k \in 1 .. Len(line) - Len(text) + 1 : SubSeq(line, k, k + Len(text) - 1) = text}
Has(line, text) == Positions(line, text) # {}
find(line, text, from) == Min({k \in Positions(line, text) : k >= from})

\* Is main at the second character of the line?
AtSecond(line, pos) == pos = 2 /\ line[1] \in Marks

\* Mistakes: a main that was renamed is renamed again; and pos - 1 > 0 with
\* signed numbers.
IsRenamedAgain(line, pos) == ~AtSecond(line, pos)
IsRenamedSigned(line, pos) == ~AtSecond(line, pos) /\ pos > 1 /\ line[pos - 1] # "_"

\* pos - 1 > 0 && line[pos - 1] != '_', with unsigned numbers: at pos = 0,
\* the first is true, and the character before the line is a byte of its
\* length or of the header of its block, no '_'.
IsRenamed(line, pos) == ~AtSecond(line, pos) /\ (pos > 1 => line[pos - 1] # "_")

\* One line in modifyMainFunction: only its first main is looked at.
Renamed(line) ==
    LET pos == find(line, main, 1)
    IN  IF Has(line, main) /\ Has(line, <<"(">>) /\ IsRenamed(line, pos)
        THEN SubSeq(line, 1, pos - 1) \o <<"_", "_", "main", "_", "_">>
             \o SubSeq(line, pos + 1, Len(line))
        ELSE line

Declarations == {k \in DOMAIN file : Has(file[k], program.target) /\ Has(file[k], <<brace>>)}
getFunctionDeclaration == file[Min(Declarations)]

NoBlanks(text) == FoldLeft(LAMBDA s, a : IF a = space THEN s ELSE Append(s, a), << >>, text)

\* Mistake: a '*' does not end the type.
EndsTypeBlank == {space}
EndsType == {space, "*"}

\* The type is what stands before the last blank or '*'; a name alone, such
\* as void, has the empty type, because that blank is before the parameters.
parameter(line, from, to) ==
    LET lastPos  == Min({k \in from .. Len(line) : line[k] # space})
        endPos   == Max({k \in 1 .. to : line[k] \notin {space, comma, ")"}})
        blankPos == Max({k \in 1 .. endPos : line[k] \in EndsType})
    IN  [type |-> NoBlanks(SubSeq(line, lastPos, blankPos)),
         name |-> NoBlanks(SubSeq(line, blankPos + 1, endPos))]

paraStart(line, name) == find(line, <<"(">>, find(line, name, 1))
paraEnd(line, name) == find(line, <<")">>, paraStart(line, name))

InOrder(S) == CHOOSE s \in [1 .. Cardinality(S) -> S] :
                  \A j, k \in 1 .. Cardinality(S) : j < k => s[j] < s[k]

getFunctionParameters(line, name) ==
    LET first == paraStart(line, name)
        last  == paraEnd(line, name)
        stops == InOrder({k \in first .. last : line[k] = comma} \cup {first, last})
    IN  IF first + 1 = last THEN << >>
        ELSE [k \in 1 .. Len(stops) - 1 |-> parameter(line, stops[k] + 1, stops[k + 1])]

\* The assertion of getFunctionParameters.
HasParameters(line, name) == \E k, m \in DOMAIN line : /\ find(line, name, 1) <= k /\ k < m
                                                       /\ line[k] = "(" /\ line[m] = ")"

SupportedTypes == {<<"int">>, <<"uint32_t">>, <<"int", "*">>, <<"char", "*">>, <<"char">>}
Supported(params) == \A k \in DOMAIN params : params[k].type \in SupportedTypes

\* generateExecutableDriver, whose parameters are converted from the command
\* line, and generateKleeDriver, whose are made symbolic. What they free after
\* the call is left out.
Driver(type, line) ==
    LET params == getFunctionParameters(line, program.target)
    IN  IF Supported(params) THEN [type |-> type, params |-> params] ELSE NoDriver

-----------------------------------------------------------------------------
GeneratorInit == /\ program \in Programs
                 /\ file = program.lines
                 /\ lines = << >>
                 /\ generator = "idle" /\ driver = NoDriver
                 /\ calls = 0
                 /\ crashed = FALSE

\* modifyMainFunction reads the file and opens it again, which truncates it.
truncate ==
    /\ generator \in {"idle", "generated"}
    /\ calls < MaxCalls
    /\ calls' = calls + 1
    /\ lines' = file
    /\ file' = << >>
    /\ generator' = "writing"
    /\ driver' = NoDriver
    /\ UNCHANGED <<program, crashed>>

\* Each line is flushed by endl.
writeLine ==
    /\ generator = "writing"
    /\ Len(file) < Len(lines)
    /\ file' = Append(file, Renamed(lines[Len(file) + 1]))
    /\ UNCHANGED <<program, lines, generator, driver, calls, crashed>>

generate(type) ==
    /\ generator = "writing"
    /\ Len(file) = Len(lines)
    /\ IF Declarations = {} THEN generator' = "generated" /\ driver' = NoDriver
       ELSE LET line == getFunctionDeclaration
            IN  IF HasParameters(line, program.target)
                THEN generator' = "generated" /\ driver' = Driver(type, line)
                ELSE generator' = "aborted" /\ driver' = NoDriver
    /\ UNCHANGED <<program, file, lines, calls, crashed>>

\* The tool is stopped while it writes, or by its assertion, and run again.
Crash ==
    /\ generator \in {"writing", "aborted"}
    /\ generator' = "idle"
    /\ crashed' = (crashed \/ Len(file) < Len(lines))
    /\ UNCHANGED <<program, file, lines, driver, calls>>

GeneratorStep == truncate \/ writeLine \/ (\E t \in {"EXECUTABLE", "KLEE_SE"} : generate(t)) \/ Crash

-----------------------------------------------------------------------------
\* The source after one renaming.
Once == [k \in DOMAIN program.lines |-> Renamed(program.lines[k])]

(* The source is the one of the user, or it with main renamed once, however *)
(* many drivers are generated from it, one after the other or after a run  *)
(* that was stopped; lines are missing only while it is written or after   *)
(* such a run.                                                             *)
SourceKept == /\ file = program.lines \/ IsPrefix(file, Once)
              /\ generator # "writing" /\ ~crashed => Len(file) = Len(program.lines)

Generated == generator = "generated" /\ driver # NoDriver

(* The driver, which includes the source and has a main of its own, does   *)
(* not meet a second one, whatever stands in front of it in its line but a *)
(* single character.                                                       *)
OneMain == Generated =>
    \A n \in DOMAIN file : \A k \in Positions(file[n], <<"main", "(">>) :
        AtSecond(file[n], k) \/ (k > 1 /\ file[n][k - 1] \notin {" ", "*"})

\* Does every line have main at most once?
OneMainPerLine ==
    \A p \in Programs : \A n \in DOMAIN p.lines : \A j, k \in DOMAIN p.lines[n] :
        p.lines[n][j] = "main" /\ p.lines[n][k] = "main" => j = k

-----------------------------------------------------------------------------
(* A definition as C has it, with its blanks anywhere.                     *)

\* A parameter between two stops is a type, which ends in a blank or a '*',
\* and a name; or it is void.
DeclaresOne(line, from, to, p) ==
    \E first, end \in from + 1 .. to - 1 :
        /\ \A k \in from + 1 .. to - 1 : line[k] = space \/ k \in first .. end
        /\ line[first] # space
        /\ \/ /\ first = end /\ line[first] = "void"
              /\ p = [type |-> <<"void">>, name |-> << >>]
           \/ \E last \in first .. end - 1 :
                 /\ line[last] \in {space, "*"}
                 /\ \A k \in last + 1 .. end : line[k] \notin {space, "*"}
                 /\ p = [type |-> NoBlanks(SubSeq(line, first, last)),
                         name |-> NoBlanks(SubSeq(line, last + 1, end))]

\* The type of the function, its name, and its parameters, between commas and
\* the first parentheses.
Declares(line, name, params) ==
    \E stops \in [0 .. Len(params) -> {k \in DOMAIN line : line[k] \in {"(", comma, ")"}}] :
        LET n    == Len(params)
            last == IF n = 0 THEN stops[0] + 1 ELSE stops[n]
        IN  /\ \E k \in Positions(line, name) :
                  /\ (\E j \in 1 .. k - 2 : line[j] # space) /\ line[k - 1] \in {space, "*"}
                  /\ k + Len(name) <= stops[0]
                  /\ \A j \in k + Len(name) .. stops[0] - 1 : line[j] = space
            /\ line[stops[0]] = "(" /\ \A j \in 1 .. stops[0] - 1 : line[j] # "("
            /\ last \in DOMAIN line /\ line[last] = ")"
            /\ \A k \in 1 .. n : stops[k - 1] < stops[k]
            /\ \A j \in stops[0] + 1 .. last - 1 :
                  line[j] # ")" /\ (line[j] = comma <=> \E k \in 1 .. n - 1 : stops[k] = j)
            /\ \A k \in 1 .. n : DeclaresOne(line, stops[k - 1], stops[k], params[k])

\* The lines that getFunctionDeclaration would take.
Named == {k \in DOMAIN program.lines : /\ Has(program.lines[k], program.target)
                                       /\ Has(program.lines[k], <<brace>>)}

\* Line d defines the function.
Definition(d) == /\ d \in Named
                 /\ Declares(program.lines[d], program.target, program.params)
                 /\ Has(program.lines[d], main) => Has(program.target, main)

(* A function whose name is in no line with '{' above its definition gets  *)
(* a driver exactly if its types are supported, and the driver passes its  *)
(* own parameters, however they are spaced. If main is a part of its name, *)
(* it gets none, since its definition is renamed (getFunctionDeclaration,  *)
(* getFunctionParameters, modifyMainFunction).                             *)
DriverFits == generator = "generated" /\ ~crashed =>
    \A d \in Named : Definition(d) =>
        /\ ~Has(program.target, main) /\ (\A k \in Named : d <= k) =>
              IF Supported(program.params)
              THEN driver # NoDriver /\ driver.params = program.params
              ELSE driver = NoDriver
        /\ Has(program.target, main) /\ program.target # main /\ Named = {d} =>
              driver = NoDriver

\* Is '_' in no name a character of its own?  It is one in names that contain
\* main, or what is before it, after a '_'.
PlainNames == \A p \in Programs : "_" \notin ToSet(p.target)
=============================================================================
