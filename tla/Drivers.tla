-------------------------------- MODULE Drivers --------------------------------
(***************************************************************************)
(* What a test goes through from KLEE to the function under test: the      *)
(* bytes of its objects become text (to_dict in klee_ir.py), JSON, an      *)
(* argument of a shell command (TestEngine::run) and, in the driver that   *)
(* DriverGenerator wrote, a value again, which for arrays and unsigned     *)
(* numbers is the work of NumberParser.                                    *)
(***************************************************************************)
EXTENDS DriverGenerator, NumberParser

CONSTANTS Ints, Uints, Arrays, Chars, Strings,  \* what KLEE finds: numbers as
                                               \* unsigned ones, characters
                                               \* and strings as bytes
          KLEE_ARRAY_SIZE

\* With a size of 0, 1 or 4, an array or a string has the size of something
\* else, and the script takes it for that; the code uses 5.
ASSUME DriversAssumption == /\ Ints \cup Uints \subseteq 0 .. UINT32_MAX
                            /\ Chars \subseteq 0 .. 255
                            /\ KLEE_ARRAY_SIZE \in Nat \ {0, 1, 4}
                            /\ Arrays \subseteq [1 .. KLEE_ARRAY_SIZE -> Ints]
                            /\ Strings \subseteq [1 .. KLEE_ARRAY_SIZE -> 0 .. 255]

VARIABLES objects,    \* what the arguments of a test were made from
          received    \* what the driver has converted so far
testVars == <<objects, received>>
vars == <<generatorVars, parserVars, testVars>>

Blank == 32
Ascii == 0 .. 127
Quoted == {0, 34, 36, 92, 96}   \* NUL, which ends the command, and what the
                                \* shell replaces between quotes

Signed(n) == IF n > INT_MAX THEN n - UINT32_MAX - 1 ELSE n

\* str() of Python, for numbers and lists of numbers.
Decimal(n) ==
    LET digits[m \in Nat] == IF m < 10 THEN <<48 + m>>
                             ELSE Append(digits[m \div 10], 48 + (m % 10))
    IN  IF n < 0 THEN <<Minus>> \o digits[-n] ELSE digits[n]

ListText(numbers) ==
    <<Open>> \o FlattenSeq([k \in DOMAIN numbers |->
        (IF k = 1 THEN << >> ELSE <<Comma, Blank>>) \o Decimal(numbers[k])]) \o <<Close>>

\* chr() of Python, as it comes out of JSON.
Utf8(c) == IF c \in Ascii THEN <<c>> ELSE <<192 + c \div 64, 128 + (c % 64)>>

\* int.from_bytes for chunks of up to four bytes.
FromBytes(bytes) ==
    LET unsigned == FoldRight(LAMBDA b, n : n * 256 + b, Front(bytes), 0)
        high     == IF Last(bytes) > 127 THEN Last(bytes) - 256 ELSE Last(bytes)
    IN  unsigned + high * 256 ^ (Len(bytes) - 1)

Chunks(bytes) == [k \in 1 .. (Len(bytes) + 3) \div 4 |->
                     FromBytes(SubSeq(bytes, 4 * k - 3, Min({4 * k, Len(bytes)})))]

Trimmed(bytes) == SubSeq(bytes, 1, Max({k \in 1 .. Len(bytes) : bytes[k] # 0} \cup {0}))

\* Mistake: an int is read without its sign.
NumberUnsigned(data) == Decimal(data)
Number(data) == Decimal(Signed(data))

\* The script knows the size of an object and guesses its type: one byte is a
\* character, four are an int, and others a string, or a list if there is a
\* byte that is not ASCII or the size is that of a list of ints.
to_dict(type, data) ==
    CASE type = <<"char">> -> Utf8(data)
      [] type \in {<<"int">>, <<"uint32_t">>} -> Number(data)
      [] type = <<"int", "*">> -> ListText([k \in DOMAIN data |-> Signed(data[k])])
      [] OTHER -> IF ToSet(data) \subseteq Ascii /\ KLEE_ARRAY_SIZE % 4 # 0
                  THEN Trimmed(data) ELSE ListText(Chunks(data))

Objects(type) == CASE type = <<"int">> -> Ints
                   [] type = <<"uint32_t">> -> Uints
                   [] type = <<"int", "*">> -> Arrays
                   [] type = <<"char">> -> Chars
                   [] OTHER -> Strings

\* atoi of the C library: a sign, and the digits up to what is none.
Value(digits) == FoldLeft(LAMBDA n, c : n * 10 + c - 48, 0, digits)
atoi(text) ==
    LET signs == IF text # << >> /\ text[1] = Minus THEN 1 ELSE 0
        other == SelectInSubSeq(text, signs + 1, Len(text), LAMBDA c : c \notin Digits)
        value == Value(SubSeq(text, signs + 1, IF other = 0 THEN Len(text) ELSE other - 1))
    IN  IF signs = 1 THEN -value ELSE value

-----------------------------------------------------------------------------
\* An argument between quotes. What the shell replaces can change it; where
\* the command ends too early, there is no run.
Shell(text) == IF ToSet(text) \cap Quoted = {} THEN {text} ELSE {<< >>, text}

copy(text) == Append(text, 0)

Init == GeneratorInit /\ ParserInit /\ objects = << >> /\ received = << >>

Generate == /\ GeneratorStep
            /\ objects' = << >> /\ received' = << >>
            /\ UNCHANGED parserVars

\* The driver converts its arguments in order.
Converts(types) == /\ Generated /\ driver.type = "EXECUTABLE"
                   /\ Len(received) = Len(objects)
                   /\ Len(objects) < Len(driver.params)
                   /\ driver.params[Len(objects) + 1].type \in types
type == driver.params[Len(objects) + 1].type

ConvertPlain ==
    /\ Converts({<<"int">>, <<"char">>, <<"char", "*">>})
    /\ \E data \in Objects(type) : \E text \in Shell(to_dict(type, data)) :
          /\ objects' = Append(objects, [generated |-> TRUE, data |-> data])
          /\ received' = Append(received,
                CASE type = <<"int">> -> atoi(text)
                  [] type = <<"char">> -> Head(copy(text))
                  [] OTHER -> copy(text))
    /\ UNCHANGED <<generatorVars, parserVars>>

function == IF type = <<"uint32_t">> THEN "atou" ELSE "parse_string_to_array"

\* A generated test, or one that was written by hand.
StartParser ==
    /\ Converts({<<"uint32_t">>, <<"int", "*">>})
    /\ \/ \E data \in Objects(type) :
             /\ Call(function, to_dict(type, data))
             /\ objects' = Append(objects, [generated |-> TRUE, data |-> data])
       \/ \E text \in IF type = <<"uint32_t">> THEN UintTexts ELSE ArrayTexts :
             /\ Call(function, text)
             /\ objects' = Append(objects, [generated |-> FALSE, data |-> text])
    /\ UNCHANGED <<generatorVars, received>>

Parse == /\ Len(received) < Len(objects)
         /\ ParserStep
         /\ UNCHANGED <<generatorVars, testVars>>

ParserReturned ==
    /\ Len(received) < Len(objects)
    /\ parser = "returned"
    /\ received' = Append(received, IF driver.params[Len(objects)].type = <<"uint32_t">>
                                    THEN number ELSE array)
    /\ UNCHANGED <<generatorVars, parserVars, objects>>

\* The function is called, and the next test is run.
CallFunction ==
    /\ Generated /\ driver.type = "EXECUTABLE"
    /\ Len(received) = Len(driver.params)
    /\ objects' = << >> /\ received' = << >>
    /\ UNCHANGED <<generatorVars, parserVars>>

Next == Generate \/ ConvertPlain \/ StartParser \/ Parse \/ ParserReturned \/ CallFunction

Spec == Init /\ [][Next]_vars

-----------------------------------------------------------------------------
CString(bytes) == SubSeq(bytes, 1, SelectInSeq(Append(bytes, 0), LAMBDA c : c = 0) - 1)

Same(t, data, value) ==
    CASE t = <<"int">> -> value = Signed(data)
      [] t = <<"int", "*">> -> value = [k \in DOMAIN data |-> Signed(data[k])]
      [] t = <<"char", "*">> -> CString(value) = CString(data)
      [] OTHER -> value = data

\* What the conversions are known to lose.
Lost(t, data) ==
    CASE t = <<"uint32_t">> -> data > INT_MAX
      [] t = <<"char">> -> data \notin Ascii \ Quoted
      [] t = <<"char", "*">> -> \/ KLEE_ARRAY_SIZE % 4 = 0
                                \/ ~ToSet(Trimmed(data)) \subseteq Ascii \ Quoted
      [] OTHER -> FALSE

Arrived(k) == Same(driver.params[k].type, objects[k].data, received[k])

(* The function under test is called with the values that KLEE found,      *)
(* through two guesses of their types, text, the shell and the parser; the *)
(* exceptions are all in Lost.                                             *)
ArgumentsArrive ==
    \A k \in DOMAIN received :
        objects[k].generated /\ ~Lost(driver.params[k].type, objects[k].data) => Arrived(k)

(* doc, src/ReTest/doc: the drivers are adapted to int, uint, char, char*  *)
(* and int*.                                                               *)
UnsignedArrives ==
    \A k \in DOMAIN received :
        objects[k].generated /\ driver.params[k].type = <<"uint32_t">> => Arrived(k)
=============================================================================
