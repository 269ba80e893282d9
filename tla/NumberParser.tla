----------------------------- MODULE NumberParser -----------------------------
(***************************************************************************)
(* The functions that TEMPLATE_PARSER_STRING puts into every generated     *)
(* driver to read its arguments: count_numbers, parse_string_to_array and  *)
(* atou (utils/common.h).  A text is the sequence of its character codes;  *)
(* one step reads one character.  The width of int is a parameter: what    *)
(* the digits 7, 8 and 5 in the code rest on is ParserAssumption.          *)
(***************************************************************************)
EXTENDS Integers, Sequences, FiniteSets

CONSTANTS INT_MAX,     \* 2147483647 in the code
          ArrayTexts,  \* arguments for parameters of type int*
          UintTexts    \* arguments for parameters of type uint32_t

INT_MIN == -INT_MAX - 1
UINT32_MAX == 2 * INT_MAX + 1

Digits == 48 .. 57
Minus == 45
Comma == 44
Open == 91
Close == 93
Ends == {Comma, Close}        \* what ends an element

\* No digit of the element that position k is in comes before k.
AtStart(s, k) == \A j \in 1 .. k - 1 : s[j] \in Digits => \E m \in j .. k - 1 : s[m] \in Ends

\* Texts as test cases write them: in brackets, a sign before the digits.
Formed(s) == /\ Len(s) >= 2
             /\ \A k \in 1 .. Len(s) : /\ s[k] = Minus => AtStart(s, k)
                                       /\ s[k] = Close <=> k = Len(s)

ASSUME ParserAssumption == /\ INT_MAX \in Nat /\ INT_MAX % 10 = 7
                           /\ ArrayTexts \subseteq Seq(Nat) /\ UintTexts \subseteq Seq(Nat)
                           /\ \A s \in ArrayTexts : Formed(s)

VARIABLES parser,                         \* the function that runs
          str, i, number, isNegative, stop,
          array,                          \* the elements written so far
          exact, values                   \* history: number and array in
                                          \* integers without bounds
parserVars == <<parser, str, i, number, isNegative, stop, array, exact, values>>

\* Mistake: the commas are counted, not the elements.
count_commas(s) == Cardinality({k \in 1 .. Len(s) : s[k] = Comma})

count_numbers(s) ==
    IF s[1] = Open /\ s[2] = Close THEN 0
    ELSE Cardinality({k \in 1 .. Len(s) : s[k] = Comma}) + 1

ParserInit == /\ parser = "idle"
              /\ str = << >>
              /\ i = 1
              /\ number = 0 /\ exact = 0
              /\ isNegative = FALSE /\ stop = FALSE
              /\ array = << >> /\ values = << >>

Call(function, s) ==
    /\ parser \in {"idle", "returned"}
    /\ parser' = function
    /\ str' = s
    /\ i' = 1
    /\ number' = 0 /\ exact' = 0
    /\ isNegative' = FALSE /\ stop' = FALSE
    /\ array' = << >> /\ values' = << >>

Reading(function) == parser = function /\ i <= Len(str)
digit == str[i] - 48

\* Mistake: the last digit is not looked at.
TooBigLate == IF isNegative THEN number < -(INT_MAX \div 10) ELSE number > INT_MAX \div 10

\* Would the digit take the number beyond the type? Division in C rounds
\* towards 0.
TooBig == IF isNegative
          THEN \/ number < -(INT_MAX \div 10)
               \/ number = -(INT_MAX \div 10) /\ digit > 8
          ELSE \/ number > INT_MAX \div 10
               \/ number = INT_MAX \div 10 /\ digit > 7

Shifted(n) == IF isNegative THEN n * 10 - digit ELSE n * 10 + digit

ReadDigit ==
    /\ Reading("parse_string_to_array")
    /\ str[i] \in Digits
    /\ IF stop THEN UNCHANGED <<number, stop>>
       ELSE IF TooBig THEN /\ number' = IF isNegative THEN INT_MIN ELSE INT_MAX
                           /\ stop' = TRUE
       ELSE number' = Shifted(number) /\ UNCHANGED stop
    /\ exact' = Shifted(exact)
    /\ i' = i + 1
    /\ UNCHANGED <<parser, str, isNegative, array, values>>

ReadMinus ==
    /\ Reading("parse_string_to_array")
    /\ str[i] = Minus
    /\ isNegative' = TRUE
    /\ i' = i + 1
    /\ UNCHANGED <<parser, str, number, stop, array, exact, values>>

\* Mistake: a number that was cut off blocks the ones after it.
ReadEndStopped ==
    /\ Reading("parse_string_to_array")
    /\ str[i] \in Ends
    /\ array' = Append(array, number)
    /\ values' = Append(values, exact)
    /\ number' = 0 /\ exact' = 0
    /\ isNegative' = FALSE
    /\ i' = i + 1
    /\ UNCHANGED <<parser, str, stop>>

ReadEnd ==
    /\ Reading("parse_string_to_array")
    /\ str[i] \in Ends
    /\ array' = Append(array, number)
    /\ values' = Append(values, exact)
    /\ number' = 0 /\ exact' = 0
    /\ isNegative' = FALSE /\ stop' = FALSE
    /\ i' = i + 1
    /\ UNCHANGED <<parser, str>>

Skip ==
    /\ Reading("parse_string_to_array")
    /\ str[i] \notin Digits \cup Ends \cup {Minus}
    /\ i' = i + 1
    /\ UNCHANGED <<parser, str, number, isNegative, stop, array, exact, values>>

\* atou stops at the first number that is too big, and at what is no digit.
AtouDigit ==
    /\ Reading("atou")
    /\ str[i] \in Digits
    /\ exact' = exact * 10 + digit
    /\ i' = i + 1
    /\ IF \/ number > UINT32_MAX \div 10
          \/ number = UINT32_MAX \div 10 /\ digit > 5
       THEN number' = UINT32_MAX /\ parser' = "returned"
       ELSE number' = exact' /\ UNCHANGED parser
    /\ UNCHANGED <<str, isNegative, stop, array, values>>

Return ==
    /\ \/ parser \in {"parse_string_to_array", "atou"} /\ i > Len(str)
       \/ Reading("atou") /\ str[i] \notin Digits
    /\ parser' = "returned"
    /\ UNCHANGED <<str, i, number, isNegative, stop, array, exact, values>>

ParserStep == ReadDigit \/ ReadMinus \/ ReadEnd \/ Skip \/ AtouDigit \/ Return

ParserNext == \/ \E s \in ArrayTexts : Call("parse_string_to_array", s)
              \/ \E s \in UintTexts : Call("atou", s)
              \/ ParserStep
ParserSpec == ParserInit /\ [][ParserNext]_parserVars

-----------------------------------------------------------------------------
(* Type correctness of the parser: the numbers are integers here, so that  *)
(* an overflow would be seen.                                              *)
ParserTypeOK == /\ parser \in {"idle", "parse_string_to_array", "atou", "returned"}
                /\ str \in Seq(Nat) /\ i \in Nat \ {0}
                /\ number \in Int /\ exact \in Int
                /\ isNegative \in BOOLEAN /\ stop \in BOOLEAN
                /\ array \in Seq(Int) /\ values \in Seq(Int)

Clamped(n) == IF n < INT_MIN THEN INT_MIN ELSE IF n > INT_MAX THEN INT_MAX ELSE n

(* No digit of any text makes a number leave its type: int overflow, which *)
(* is undefined in C, and unsigned wrap-around never happen.               *)
NoOverflow == IF parser = "parse_string_to_array" THEN number \in INT_MIN .. INT_MAX
              ELSE number \in INT_MIN .. UINT32_MAX

(* Every number is the one that was written, or the nearest one of its     *)
(* type: an element that is cut off leaves no trace in the ones after it.  *)
ElementsClamped ==
    /\ Len(array) = Len(values)
    /\ \A k \in 1 .. Len(array) : array[k] = Clamped(values[k])
    /\ parser \in {"atou", "returned"} =>
          number = IF exact > UINT32_MAX THEN UINT32_MAX ELSE exact

(* What is written fits what was allocated, and all of it is written,      *)
(* except for "[]": there, one element is written and none allocated.      *)
ArrayFilled == (parser = "parse_string_to_array" /\ str # <<Open, Close>>) =>
                  /\ Len(array) <= count_numbers(str)
                  /\ i > Len(str) => Len(array) = count_numbers(str)
=============================================================================
