----------------------------- MODULE DriversProofs -----------------------------
(***************************************************************************)
(* Proofs about the driver.  The parser: for every width of int that ends  *)
(* in the digits the code knows, and for every text, no overflow, numbers  *)
(* cut off at the limits of their type, and arrays written exactly as far  *)
(* as they were allocated, also when the texts are those of generated      *)
(* tests.  The generator: however often it is run and stopped, it renames  *)
(* main in the source once, and the driver takes the parameters that the   *)
(* user's definition has.  The arguments: what KLEE found is what the      *)
(* function under test is called with, by way of text, for all numbers and *)
(* strings.                                                                *)
(***************************************************************************)
EXTENDS Drivers, FiniteSetTheorems, SequenceTheorems, TLAPS

InArray == parser = "parse_string_to_array"

\* What is being read, and how far.
Called == /\ InArray => Formed(str)
          /\ InArray => i \in 1 .. Len(str) + 1

\* The number so far: exact, or cut off for good.
InStep == IF InArray
          THEN /\ ~stop => number = exact /\ exact \in INT_MIN .. INT_MAX
               /\ stop => number = IF isNegative THEN INT_MIN ELSE INT_MAX
               /\ stop => IF isNegative THEN exact < INT_MIN ELSE exact > INT_MAX
               /\ IF isNegative THEN exact <= 0 ELSE exact >= 0
          ELSE /\ exact >= 0
               /\ number = IF exact > UINT32_MAX THEN UINT32_MAX ELSE exact
               /\ parser = "atou" => exact <= UINT32_MAX

\* Before its first digit an element is 0.
Fresh == InArray /\ AtStart(str, i) => number = 0 /\ exact = 0 /\ ~stop

Copied == /\ Len(array) = Len(values)
          /\ \A k \in 1 .. Len(array) : array[k] = Clamped(values[k])

EndsBefore(k) == {j \in 1 .. k - 1 : str[j] \in Ends}
Counted == InArray => Len(array) = Cardinality(EndsBefore(i))

IInv == ParserTypeOK /\ Called /\ InStep /\ Fresh /\ Copied /\ Counted

-----------------------------------------------------------------------------
\* The limits in terms of the greatest quotient the code compares with.
LEMMA Limits == /\ INT_MAX \div 10 \in Nat
                /\ INT_MAX = 10 * (INT_MAX \div 10) + 7
                /\ INT_MIN = -10 * (INT_MAX \div 10) - 8
                /\ UINT32_MAX \div 10 = 2 * (INT_MAX \div 10) + 1
                /\ UINT32_MAX = 10 * (UINT32_MAX \div 10) + 5
                /\ INT_MAX \in Nat /\ INT_MIN \in Int /\ UINT32_MAX \in Nat
  BY ParserAssumption DEF INT_MIN, UINT32_MAX

\* Whether an element starts at the next position is told by one character.
LEMMA StartNext ==
    ASSUME IInv, InArray, i <= Len(str)
    PROVE  /\ str[i] \in Digits => ~AtStart(str, i + 1)
           /\ str[i] \in Nat
           /\ str[i] \notin Digits \cup Ends /\ AtStart(str, i + 1) => AtStart(str, i)
  <1>1. i \in 1 .. i /\ str[i] \in Nat
    BY DEF IInv, ParserTypeOK
  <1>2. str[i] \in Digits => str[i] \notin Ends
    BY DEF Digits, Ends, Comma, Close
  <1>3. ASSUME str[i] \in Digits, AtStart(str, i + 1) PROVE FALSE
    BY <1>1, <1>2, <1>3 DEF AtStart, IInv, ParserTypeOK
  <1>4. ASSUME str[i] \notin Digits \cup Ends, AtStart(str, i + 1)
        PROVE  AtStart(str, i)
    BY <1>1, <1>4 DEF AtStart, IInv, ParserTypeOK
  <1> QED BY <1>1, <1>3, <1>4

\* Passing a character adds it to the ends before, if it is one.
LEMMA EndsNext ==
    ASSUME IInv, InArray, i <= Len(str)
    PROVE  Cardinality(EndsBefore(i + 1)) =
              Cardinality(EndsBefore(i)) + IF str[i] \in Ends THEN 1 ELSE 0
  <1>1. i \in Nat \ {0}
    BY DEF IInv, ParserTypeOK
  <1>2. IsFiniteSet(EndsBefore(i))
    <2>1. IsFiniteSet(1 .. i - 1)
      BY <1>1, FS_Interval
    <2> QED BY <2>1, FS_Subset DEF EndsBefore
  <1>3. EndsBefore(i + 1) = EndsBefore(i) \cup (IF str[i] \in Ends THEN {i} ELSE {})
    BY <1>1 DEF EndsBefore
  <1>4. i \notin EndsBefore(i)
    BY <1>1 DEF EndsBefore
  <1>5. CASE str[i] \in Ends
    BY <1>2, <1>3, <1>4, <1>5, FS_AddElement
  <1>6. CASE str[i] \notin Ends
    <2>1. EndsBefore(i + 1) = EndsBefore(i)
      BY <1>3, <1>6
    <2>2. Cardinality(EndsBefore(i)) \in Nat
      BY <1>2, FS_CardinalityType
    <2> QED BY <2>1, <2>2, <1>6
  <1> QED BY <1>5, <1>6

\* A function of the parser is called with a formed text.
LEMMA CallKeeps ==
    ASSUME NEW f \in {"parse_string_to_array", "atou"}, NEW s \in Seq(Nat),
           f = "parse_string_to_array" => Formed(s),
           Call(f, s)
    PROVE  IInv'
  <1> USE DEF Call, InArray
  <1>1. ParserTypeOK'
    <2>1. array' \in Seq(Int) /\ values' \in Seq(Int) /\ str' \in Seq(Nat)
      BY EmptySeq
    <2>2. isNegative' \in BOOLEAN /\ stop' \in BOOLEAN /\ number' \in Int /\ exact' \in Int
      <3>1. number' \in Int /\ exact' \in Int
        OBVIOUS
      <3> QED BY <3>1, Zenon
    <2>3. parser' \in {"idle", "parse_string_to_array", "atou", "returned"} /\ i' \in Nat \ {0}
      OBVIOUS
    <2> QED BY <2>1, <2>2, <2>3, Zenon DEF ParserTypeOK
  <1>2. Called'
    <2>1. Formed(s) => 1 \in 1 .. Len(s) + 1
      BY DEF Formed
    <2>2. Formed(str)' <=> Formed(s)
      BY DEF Formed, AtStart
    <2> QED BY <2>1, <2>2 DEF Called
  <1>3. InStep' /\ Fresh'
    BY Limits, ParserAssumption DEF InStep, Fresh
  <1>4. Copied'
    BY DEF Copied
  <1>5. Counted'
    <2>1. EndsBefore(i)' = {}
      BY DEF EndsBefore
    <2> QED BY <2>1, FS_EmptySet DEF Counted
  <1> QED BY <1>1, <1>2, <1>3, <1>4, <1>5 DEF IInv

\* A step inside an element keeps what was written.
LEMMA WithinElement ==
    ASSUME IInv, InArray, i <= Len(str), str[i] \notin Ends,
           i' = i + 1, UNCHANGED <<parser, str, array, values>>
    PROVE  Called' /\ Copied' /\ Counted'
  <1>1. Called'
    BY DEF IInv, ParserTypeOK, Called, InArray, Formed, AtStart
  <1>2. Copied'
    BY DEF IInv, Copied, Clamped, INT_MIN
  <1>3. Counted'
    <2>1. Cardinality(EndsBefore(i + 1)) = Cardinality(EndsBefore(i)) + 0
      BY EndsNext
    <2>2. EndsBefore(i)' = EndsBefore(i + 1)
      BY DEF EndsBefore
    <2>3. Len(array) = Cardinality(EndsBefore(i)) /\ Len(array) \in Nat
      BY DEF IInv, Counted, ParserTypeOK
    <2> QED BY <2>1, <2>2, <2>3 DEF Counted
  <1> QED BY <1>1, <1>2, <1>3

\* A digit goes into the number, or the number is cut off.
LEMMA DigitKeeps == ASSUME IInv, ReadDigit PROVE IInv'
  <1> USE DEF ReadDigit, Reading, InArray
  <1>1. digit \in 0 .. 9
    BY DEF digit, Digits
  <1>2. str[i] \notin Ends
    BY DEF Digits, Ends, Comma, Close
  <1>3. ParserTypeOK'
    <2>1. /\ exact \in Int /\ number \in Int /\ i \in Nat \ {0}
          /\ isNegative \in BOOLEAN /\ stop \in BOOLEAN
      BY DEF IInv, ParserTypeOK
    <2>2. \A n \in Int : Shifted(n) \in Int
      BY <1>1 DEF Shifted
    <2>3. number' \in Int /\ exact' \in Int /\ stop' \in BOOLEAN
      <3>1. CASE stop
        BY <2>1, <2>2, <3>1
      <3>2. CASE ~stop /\ TooBig
        BY <2>1, <2>2, <3>2, Limits
      <3>3. CASE ~stop /\ ~TooBig
        BY <2>1, <2>2, <3>3
      <3> QED BY <2>1, <3>1, <3>2, <3>3
    <2> QED BY <2>1, <2>3 DEF IInv, ParserTypeOK
  <1>4. Called' /\ Copied' /\ Counted'
    BY <1>2, WithinElement
  <1>5. InStep'
    <2>1. exact \in Int /\ number \in Int /\ isNegative \in BOOLEAN /\ stop \in BOOLEAN
      BY DEF IInv, ParserTypeOK
    <2>2. CASE stop
      BY <2>1, <2>2, <1>1, Limits DEF IInv, InStep, Shifted
    <2>3. CASE ~stop /\ TooBig
      BY <2>1, <2>3, <1>1, Limits DEF IInv, InStep, Shifted, TooBig
    <2>4. CASE ~stop /\ ~TooBig
      BY <2>1, <2>4, <1>1, Limits DEF IInv, InStep, Shifted, TooBig
    <2> QED BY <2>1, <2>2, <2>3, <2>4
  <1>6. Fresh'
    <2>1. ~AtStart(str, i + 1)
      BY StartNext
    <2> QED BY <2>1 DEF Fresh, AtStart
  <1> QED BY <1>3, <1>4, <1>5, <1>6 DEF IInv

\* A sign comes before the digits.
LEMMA MinusKeeps == ASSUME IInv, ReadMinus PROVE IInv'
  <1> USE DEF ReadMinus, Reading, InArray
  <1>1. str[i] \notin Ends /\ str[i] \notin Digits
    BY DEF Digits, Ends, Comma, Close, Minus
  <1>2. ParserTypeOK'
    BY DEF IInv, ParserTypeOK
  <1>3. Called' /\ Copied' /\ Counted'
    BY <1>1, WithinElement
  <1>4. AtStart(str, i)
    BY DEF IInv, ParserTypeOK, Called, Formed
  <1>5. number = 0 /\ exact = 0 /\ ~stop
    BY <1>4 DEF IInv, Fresh
  <1>6. InStep' /\ Fresh'
    BY <1>5, Limits, ParserAssumption DEF InStep, Fresh
  <1> QED BY <1>2, <1>3, <1>6 DEF IInv

\* Other characters are passed over.
LEMMA SkipKeeps == ASSUME IInv, Skip PROVE IInv'
  <1> USE DEF Skip, Reading, InArray
  <1>1. ParserTypeOK'
    BY DEF IInv, ParserTypeOK
  <1>2. Called' /\ Copied' /\ Counted'
    BY WithinElement
  <1>3. InStep'
    BY DEF IInv, InStep
  <1>4. Fresh'
    <2>1. AtStart(str, i)' => AtStart(str, i)
      <3>1. AtStart(str, i)' <=> AtStart(str, i + 1)
        BY DEF AtStart
      <3> QED BY <3>1, StartNext
    <2> QED BY <2>1 DEF IInv, Fresh
  <1> QED BY <1>1, <1>2, <1>3, <1>4 DEF IInv

\* What an element was cut off to is what is written.
LEMMA EndKeeps == ASSUME IInv, ReadEnd PROVE IInv'
  <1> USE DEF ReadEnd, Reading, InArray
  <1>1. /\ number \in Int /\ exact \in Int /\ array \in Seq(Int) /\ values \in Seq(Int)
        /\ isNegative \in BOOLEAN /\ stop \in BOOLEAN
    BY DEF IInv, ParserTypeOK
  <1>2. number = Clamped(exact)
    <2>1. CASE stop /\ isNegative
      BY <1>1, <2>1, Limits DEF IInv, InStep, Clamped
    <2>2. CASE stop /\ ~isNegative
      BY <1>1, <2>2, Limits DEF IInv, InStep, Clamped
    <2>3. CASE ~stop
      BY <1>1, <2>3, Limits DEF IInv, InStep, Clamped
    <2> QED BY <1>1, <2>1, <2>2, <2>3
  <1>3. ParserTypeOK'
    <2>1. array' \in Seq(Int) /\ values' \in Seq(Int)
      BY <1>1, AppendProperties
    <2>2. isNegative' \in BOOLEAN /\ stop' \in BOOLEAN /\ number' \in Int /\ exact' \in Int
      <3>1. number' \in Int /\ exact' \in Int
        OBVIOUS
      <3> QED BY <3>1, Zenon
    <2>3. i' \in Nat \ {0} /\ str' \in Seq(Nat)
      BY DEF IInv, ParserTypeOK
    <2>4. parser' \in {"idle", "parse_string_to_array", "atou", "returned"}
      OBVIOUS
    <2> QED BY <2>1, <2>2, <2>3, <2>4, Zenon DEF ParserTypeOK
  <1>4. Called'
    BY DEF IInv, ParserTypeOK, Called, Formed, AtStart
  <1>5. InStep' /\ Fresh'
    BY Limits, ParserAssumption DEF InStep, Fresh
  <1>6. Copied'
    <2>1. Len(array) = Len(values)
      BY DEF IInv, Copied
    <2>2. ASSUME NEW k \in 1 .. Len(array')
          PROVE  array'[k] = Clamped(values'[k])
      <3>1. CASE k = Len(array) + 1
        BY <1>1, <1>2, <2>1, <3>1
      <3>2. CASE k \in 1 .. Len(array)
        <4>1. array'[k] = array[k] /\ values'[k] = values[k]
          BY <1>1, <2>1, <3>2
        <4>2. array[k] = Clamped(values[k])
          BY <3>2 DEF IInv, Copied
        <4> QED BY <4>1, <4>2
      <3>3. Len(array') = Len(array) + 1 /\ Len(array) \in Nat
        BY <1>1, AppendProperties
      <3>4. k = Len(array) + 1 \/ k \in 1 .. Len(array)
        BY <2>2, <3>3
      <3> QED BY <3>1, <3>2, <3>4, Zenon
    <2>3. Len(array') = Len(values')
      BY <1>1, <2>1
    <2> QED BY <2>2, <2>3 DEF Copied, Clamped
  <1>7. Counted'
    <2>1. Cardinality(EndsBefore(i + 1)) = Cardinality(EndsBefore(i)) + 1
      BY EndsNext
    <2>2. EndsBefore(i)' = EndsBefore(i + 1)
      BY DEF EndsBefore
    <2>3. Len(array) = Cardinality(EndsBefore(i)) /\ Len(array') = Len(array) + 1
      BY <1>1 DEF IInv, Counted
    <2> QED BY <2>1, <2>2, <2>3 DEF Counted
  <1> QED BY <1>3, <1>4, <1>5, <1>6, <1>7 DEF IInv

\* A digit in atou.
LEMMA AtouKeeps == ASSUME IInv, AtouDigit PROVE IInv'
  <1> USE DEF AtouDigit, Reading, InArray
  <1>1. digit \in 0 .. 9
    BY DEF digit, Digits
  <1>2. exact \in Int /\ number \in Int
    BY DEF IInv, ParserTypeOK
  <1>3. ParserTypeOK'
    BY <1>1, <1>2, Limits DEF IInv, ParserTypeOK
  <1>4. Called' /\ Fresh' /\ Counted'
    BY DEF Called, Fresh, Counted
  <1>5. InStep'
    BY <1>1, <1>2, Limits DEF IInv, InStep
  <1>6. Copied'
    BY DEF IInv, Copied, Clamped
  <1> QED BY <1>3, <1>4, <1>5, <1>6 DEF IInv

\* After the closing bracket there is nothing left of the last element.
LEMMA ReturnKeeps == ASSUME IInv, Return PROVE IInv'
  <1> USE DEF Return, Reading, InArray
  <1>1. ParserTypeOK'
    BY DEF IInv, ParserTypeOK
  <1>2. Called' /\ Fresh' /\ Counted'
    BY DEF Called, Fresh, Counted
  <1>3. Copied'
    BY DEF IInv, Copied, Clamped
  <1>4. InStep'
    <2>1. CASE parser = "atou"
      BY <2>1 DEF IInv, InStep
    <2>2. CASE parser = "parse_string_to_array"
      <3>1. /\ i = Len(str) + 1 /\ Len(str) \in Nat /\ Len(str) >= 2
            /\ str[Len(str)] = Close
        BY <2>2 DEF IInv, ParserTypeOK, Called, Formed
      <3>2. AtStart(str, i)
        <4> SUFFICES ASSUME NEW j \in 1 .. i - 1
                     PROVE  \E m \in j .. i - 1 : str[m] \in Ends
          BY DEF AtStart
        <4>1. Len(str) \in j .. i - 1
          BY <3>1
        <4> QED BY <3>1, <4>1 DEF Ends
      <3>3. number = 0 /\ exact = 0
        BY <2>2, <3>2 DEF IInv, Fresh
      <3> QED BY <3>3, Limits DEF InStep
    <2> QED BY <2>1, <2>2
  <1> QED BY <1>1, <1>2, <1>3, <1>4 DEF IInv

\* Nothing has been read at first.
LEMMA ParserStarts == ParserInit => IInv
  <1> SUFFICES ASSUME ParserInit PROVE IInv
    OBVIOUS
  <1> USE DEF ParserInit, InArray
  <1>1. ParserTypeOK
    <2>1. array \in Seq(Int) /\ values \in Seq(Int) /\ str \in Seq(Nat)
      BY EmptySeq
    <2>2. number \in Int /\ exact \in Int /\ i \in Nat \ {0}
      OBVIOUS
    <2> QED BY <2>1, <2>2, Zenon DEF ParserTypeOK
  <1>2. Called /\ Fresh /\ Copied /\ Counted
    BY DEF Called, Fresh, Copied, Counted
  <1>3. InStep
    BY Limits DEF InStep
  <1> QED BY <1>1, <1>2, <1>3 DEF IInv

\* One step for each kind of character.
LEMMA ParserStepKeeps == IInv /\ ParserStep => IInv'
  BY DigitKeeps, MinusKeeps, EndKeeps, SkipKeeps, AtouKeeps, ReturnKeeps DEF ParserStep

\* The driver's other steps leave the parser alone.
LEMMA ParserStays == IInv /\ UNCHANGED parserVars => IInv'
  BY DEF parserVars, IInv, ParserTypeOK, Called, InStep, Fresh, Copied,
         Counted, InArray, Formed, AtStart, EndsBefore, Clamped

(* In every state of the parser, by itself, the number so far is exact or  *)
(* cut off for good, and as many elements are written as have ended.       *)
THEOREM ParserInvariant == ParserSpec => []IInv
  <1>2. IInv /\ [ParserNext]_parserVars => IInv'
    <2> SUFFICES ASSUME IInv, [ParserNext]_parserVars PROVE IInv'
      OBVIOUS
    <2>1. ASSUME NEW s \in ArrayTexts, Call("parse_string_to_array", s) PROVE IInv'
      BY <2>1, CallKeeps, ParserAssumption
    <2>2. ASSUME NEW s \in UintTexts, Call("atou", s) PROVE IInv'
      BY <2>2, CallKeeps, ParserAssumption
    <2>3. ASSUME ParserStep PROVE IInv'
      BY <2>3, ParserStepKeeps
    <2>4. CASE UNCHANGED parserVars
      BY <2>4, ParserStays
    <2> QED BY <2>1, <2>2, <2>3, <2>4 DEF ParserNext
  <1> QED BY ParserStarts, <1>2, PTL DEF ParserSpec

\* A text that reaches its end has one more end of an element than commas.
LEMMA EndsAndCommas ==
    ASSUME IInv, InArray, str # <<Open, Close>>
    PROVE  /\ Cardinality(EndsBefore(i)) <= count_numbers(str)
           /\ i > Len(str) => Cardinality(EndsBefore(i)) = count_numbers(str)
  <1> DEFINE commas == {k \in 1 .. Len(str) : str[k] = Comma}
  <1>1. /\ Len(str) \in Nat /\ Len(str) >= 2 /\ i \in 1 .. Len(str) + 1
        /\ str \in Seq(Nat)
        /\ \A k \in 1 .. Len(str) : str[k] = Close <=> k = Len(str)
    BY DEF IInv, ParserTypeOK, Called, Formed
  <1>2. IsFiniteSet(commas) /\ Cardinality(commas) \in Nat
    <2>1. IsFiniteSet(1 .. Len(str))
      BY <1>1, FS_Interval
    <2> QED BY <2>1, FS_Subset, FS_CardinalityType
  <1>3. count_numbers(str) = Cardinality(commas) + 1
    <2>1. ~(str[1] = Open /\ str[2] = Close)
      <3> SUFFICES ASSUME str[1] = Open, str[2] = Close PROVE FALSE
        OBVIOUS
      <3>1. Len(str) = 2
        <4>1. 2 \in 1 .. Len(str)
          BY <1>1
        <4> QED BY <1>1, <4>1
      <3> QED BY <1>1, <3>1
    <2> QED BY <2>1 DEF count_numbers
  <1>4. Len(str) \notin commas
    BY <1>1 DEF Comma, Close
  <1>5. /\ IsFiniteSet(commas \cup {Len(str)})
        /\ Cardinality(commas \cup {Len(str)}) = Cardinality(commas) + 1
    BY <1>2, <1>4, FS_AddElement
  <1>6. EndsBefore(i) \subseteq commas \cup {Len(str)}
    BY <1>1 DEF EndsBefore, Ends
  <1>7. Cardinality(EndsBefore(i)) <= Cardinality(commas) + 1
    BY <1>5, <1>6, FS_Subset
  <1>8. i > Len(str) => EndsBefore(i) = commas \cup {Len(str)}
    BY <1>1 DEF EndsBefore, Ends
  <1> QED BY <1>3, <1>5, <1>7, <1>8

\* What is wanted of the parser follows from the invariant.
LEMMA ParserPromises == IInv => NoOverflow /\ ElementsClamped /\ ArrayFilled
  <1> SUFFICES ASSUME IInv PROVE NoOverflow /\ ElementsClamped /\ ArrayFilled
    OBVIOUS
  <1>1. NoOverflow
    <2>1. /\ number \in Int /\ exact \in Int
          /\ isNegative \in BOOLEAN /\ stop \in BOOLEAN
      BY DEF IInv, ParserTypeOK
    <2>2. CASE InArray
      BY <2>1, <2>2, Limits DEF IInv, InStep, NoOverflow, InArray
    <2>3. CASE ~InArray
      <3>1. number \in 0 .. UINT32_MAX
        BY <2>1, <2>3, Limits DEF IInv, InStep
      <3>2. INT_MIN < 0
        BY Limits
      <3> QED BY <2>3, <3>1, <3>2, Limits DEF NoOverflow, InArray
    <2> QED BY <2>2, <2>3
  <1>2. ElementsClamped
    <2>1. parser \in {"atou", "returned"} => ~InArray
      BY DEF InArray
    <2> QED BY <2>1 DEF IInv, Copied, InStep, ElementsClamped
  <1>3. ArrayFilled
    BY EndsAndCommas DEF IInv, Counted, ArrayFilled, InArray
  <1> QED BY <1>1, <1>2, <1>3

(* No text makes a number of the parser leave its type.                    *)
THEOREM NumbersInType == ParserSpec => []NoOverflow
  BY ParserInvariant, ParserPromises, PTL

(* Every number is the one written, cut off at the limits of its type and  *)
(* at nothing else, whatever was read before it.                           *)
THEOREM NumbersClamped == ParserSpec => []ElementsClamped
  BY ParserInvariant, ParserPromises, PTL

(* The parser writes what it allocated, all of it and nothing behind it,   *)
(* for every text but "[]".                                                *)
THEOREM ArraysFilled == ParserSpec => []ArrayFilled
  BY ParserInvariant, ParserPromises, PTL

(* Type correctness of the parser.                                         *)
THEOREM ParserTypes == ParserSpec => []ParserTypeOK
  <1>1. IInv => ParserTypeOK
    BY DEF IInv
  <1> QED BY <1>1, ParserInvariant, PTL

-----------------------------------------------------------------------------
(* Renaming main in a line.                                                *)

\* A nonempty set of naturals has a least element.
LEMMA LeastElement ==
    ASSUME NEW T \in SUBSET Nat, T # {}
    PROVE  \E m \in T : \A n \in T : m <= n
  <1> DEFINE F == {0 .. t - 1 : t \in T}
  <1>1. \A t \in T : 0 .. t - 1 \in FiniteSubsetsOf(Nat)
    BY FS_Interval, 0 \in Int, \A t \in T : t - 1 \in Int DEF FiniteSubsetsOf
  <1>2. F \subseteq FiniteSubsetsOf(Nat) /\ F # {}
    BY <1>1
  <1>3. PICK x \in F : \A y \in F : <<y, x>> \notin StrictSubsetOrdering(Nat)
    <2> HIDE DEF F
    <2> QED BY <1>2, FS_StrictSubsetOrderingWellFounded, WFMin
  <1>4. PICK m \in T : x = 0 .. m - 1
    BY DEF F
  <1>5. ASSUME NEW n \in T PROVE m <= n
    <2> SUFFICES ASSUME n < m PROVE FALSE
      OBVIOUS
    <2>1. n \in 0 .. m - 1 /\ n \notin 0 .. n - 1 /\ 0 .. n - 1 \subseteq 0 .. m - 1
      OBVIOUS
    <2>2. <<0 .. n - 1, 0 .. m - 1>> \in StrictSubsetOrdering(Nat)
      BY <2>1 DEF StrictSubsetOrdering
    <2> QED BY <1>3, <1>4, <2>2 DEF F
  <1> QED BY <1>5

Line == Seq(Atoms)
Text == Seq(Line)
First(line, pos) == /\ pos \in 1 .. Len(line) /\ line[pos] = "main"
                    /\ \A k \in 1 .. pos - 1 : line[k] # "main"

\* The atoms that the generator itself writes.
LEMMA AtomsType == "main" \in Atoms /\ "_" \in Atoms /\ "(" \in Atoms
  BY ProgramsAssumption DEF Marks

\* The parts of a sequence.
LEMMA Concat ==
    ASSUME NEW S, NEW a \in Seq(S), NEW b \in Seq(S)
    PROVE  /\ a \o b \in Seq(S) /\ Len(a \o b) = Len(a) + Len(b)
           /\ \A k \in 1 .. Len(a) : (a \o b)[k] = a[k]
           /\ \A k \in 1 .. Len(b) : (a \o b)[Len(a) + k] = b[k]
  <1>1. Len(a) \in Nat /\ Len(b) \in Nat
    OBVIOUS
  <1>2. /\ a \o b \in Seq(S) /\ Len(a \o b) = Len(a) + Len(b)
        /\ \A k \in 1 .. Len(a) + Len(b) :
              (a \o b)[k] = IF k <= Len(a) THEN a[k] ELSE b[k - Len(a)]
    BY ConcatProperties
  <1>3. ASSUME NEW k \in 1 .. Len(a) PROVE (a \o b)[k] = a[k]
    <2>1. k \in 1 .. Len(a) + Len(b) /\ k <= Len(a)
      BY <1>1
    <2> QED BY <1>2, <2>1
  <1>4. ASSUME NEW k \in 1 .. Len(b) PROVE (a \o b)[Len(a) + k] = b[k]
    <2>1. /\ Len(a) + k \in 1 .. Len(a) + Len(b) /\ ~(Len(a) + k <= Len(a))
          /\ (Len(a) + k) - Len(a) = k
      BY <1>1
    <2> QED BY <1>2, <2>1
  <1> QED BY <1>2, <1>3, <1>4

\* And of one put together from three.
LEMMA Concat3 ==
    ASSUME NEW S, NEW a \in Seq(S), NEW b \in Seq(S), NEW c \in Seq(S),
           NEW r, r = a \o b \o c
    PROVE  /\ r \in Seq(S) /\ Len(r) = Len(a) + Len(b) + Len(c)
           /\ \A k \in 1 .. Len(a) : r[k] = a[k]
           /\ \A k \in 1 .. Len(b) : r[Len(a) + k] = b[k]
           /\ \A k \in 1 .. Len(c) : r[Len(a) + Len(b) + k] = c[k]
  <1> DEFINE ab == a \o b
  <1>1. /\ ab \in Seq(S) /\ Len(ab) = Len(a) + Len(b)
        /\ \A k \in 1 .. Len(a) : ab[k] = a[k]
        /\ \A k \in 1 .. Len(b) : ab[Len(a) + k] = b[k]
    BY Concat
  <1>2. r = ab \o c
    OBVIOUS
  <1> HIDE DEF ab
  <1>3. /\ r \in Seq(S) /\ Len(r) = Len(ab) + Len(c)
        /\ \A k \in 1 .. Len(ab) : r[k] = ab[k]
        /\ \A k \in 1 .. Len(c) : r[Len(ab) + k] = c[k]
    <2>1. ab \in Seq(S)
      BY <1>1
    <2>2. /\ ab \o c \in Seq(S) /\ Len(ab \o c) = Len(ab) + Len(c)
          /\ \A k \in 1 .. Len(ab) : (ab \o c)[k] = ab[k]
          /\ \A k \in 1 .. Len(c) : (ab \o c)[Len(ab) + k] = c[k]
      BY ONLY <2>1, c \in Seq(S), Concat
    <2> QED BY <1>2, <2>2
  <1>4. Len(a) \in Nat /\ Len(b) \in Nat
    OBVIOUS
  <1>5. \A k \in 1 .. Len(a) : r[k] = a[k]
    BY <1>1, <1>3, <1>4
  <1>6. ASSUME NEW k \in 1 .. Len(b) PROVE r[Len(a) + k] = b[k]
    <2>1. Len(a) + k \in 1 .. Len(ab)
      BY <1>1, <1>4
    <2> QED BY <1>1, <1>3, <2>1
  <1> QED BY <1>1, <1>3, <1>5, <1>6

\* A piece of one element.
LEMMA One ==
    ASSUME NEW S, NEW line \in Seq(S), NEW a \in S, NEW k \in 1 .. Len(line)
    PROVE  SubSeq(line, k, k) = <<a>> <=> line[k] = a
  <1> DEFINE s == SubSeq(line, k, k)
  <1>1. s \in Seq(S) /\ Len(s) = 1 /\ s[1] = line[k]
    <2>1. k \in Int /\ \A j \in k .. k : line[j] \in S
      OBVIOUS
    <2>2. /\ s \in Seq(S) /\ Len(s) = IF k <= k THEN k - k + 1 ELSE 0
          /\ \A j \in 1 .. k - k + 1 : s[j] = line[k + j - 1]
      BY <2>1, SubSeqProperties
    <2>3. k <= k /\ k - k + 1 = 1 /\ k + 1 - 1 = k /\ 1 \in 1 .. 1
      OBVIOUS
    <2> HIDE DEF s
    <2> QED BY ONLY <2>2, <2>3
  <1>2. <<a>> \in Seq(S) /\ Len(<<a>>) = 1 /\ <<a>>[1] = a
    OBVIOUS
  <1> HIDE DEF s
  <1>3. ASSUME s[1] = a PROVE s = <<a>>
    <2>1. \A j \in 1 .. Len(s) : s[j] = <<a>>[j]
      BY <1>1, <1>2, <1>3
    <2> QED BY <1>1, <1>2, <2>1, SeqEqual
  <1> QED BY <1>1, <1>2, <1>3 DEF s

\* A sequence of five.
LEMMA Five ==
    ASSUME NEW S, NEW a \in S, NEW b \in S, NEW c \in S, NEW d \in S, NEW e \in S
    PROVE  /\ <<a, b, c, d, e>> \in Seq(S) /\ Len(<<a, b, c, d, e>>) = 5
           /\ <<a, b, c, d, e>>[1] = a /\ <<a, b, c, d, e>>[2] = b
           /\ <<a, b, c, d, e>>[3] = c /\ <<a, b, c, d, e>>[4] = d
           /\ <<a, b, c, d, e>>[5] = e
  OBVIOUS

\* Where a text of a single atom is found.
LEMMA Found ==
    ASSUME NEW line \in Line, NEW a \in Atoms
    PROVE  Positions(line, <<a>>) = {k \in 1 .. Len(line) : line[k] = a}
  <1>1. ASSUME NEW k \in 1 .. Len(line)
        PROVE  SubSeq(line, k, k + Len(<<a>>) - 1) = <<a>> <=> line[k] = a
    <2>1. k + Len(<<a>>) - 1 = k
      OBVIOUS
    <2>2. SubSeq(line, k, k) = <<a>> <=> line[k] = a
      BY One DEF Line
    <2> QED BY <2>1, <2>2
  <1>2. Len(line) - Len(<<a>>) + 1 = Len(line)
    BY DEF Line
  <1> QED BY <1>1, <1>2 DEF Positions

\* Where "main(" is found.
LEMMA FoundTwo ==
    ASSUME NEW line \in Line, NEW k \in Positions(line, <<"main", "(">>)
    PROVE  /\ k \in 1 .. Len(line) /\ k + 1 \in 1 .. Len(line) /\ Len(line) \in Nat
           /\ line[k] = "main" /\ line[k + 1] = "("
  <1> DEFINE t == <<"main", "(">>
  <1>1. Len(t) = 2 /\ t[1] = "main" /\ t[2] = "("
    OBVIOUS
  <1>2. k \in 1 .. Len(line) - Len(t) + 1 /\ SubSeq(line, k, k + Len(t) - 1) = t
    BY DEF Positions
  <1> HIDE DEF t
  <1>3. Len(line) \in Nat
    BY DEF Line
  <1>4. k \in 1 .. Len(line) /\ k + 1 \in 1 .. Len(line) /\ k + Len(t) - 1 = k + 1
        /\ k \in Int
    BY ONLY <1>1, <1>2, <1>3
  <1>5. SubSeq(line, k, k + 1) = t
    BY <1>2, <1>4
  <1>6. \A j \in k .. k + 1 : line[j] \in Atoms
    BY <1>4 DEF Line
  <1>7. \A j \in 1 .. (k + 1) - k + 1 : SubSeq(line, k, k + 1)[j] = line[k + j - 1]
    <2>1. k + 1 \in Int
      BY <1>4
    <2> QED BY <1>4, <1>6, <2>1, SubSeqProperties
  <1>8. /\ 1 \in 1 .. (k + 1) - k + 1 /\ 2 \in 1 .. (k + 1) - k + 1
        /\ k + 1 - 1 = k /\ k + 2 - 1 = k + 1
    BY <1>4
  <1>9. line[k] = t[1] /\ line[k + 1] = t[2]
    BY <1>5, <1>7, <1>8
  <1> QED BY <1>1, <1>3, <1>4, <1>9

\* find gives the first main.
LEMMA FindsFirst ==
    ASSUME NEW line \in Line, Has(line, main)
    PROVE  First(line, find(line, main, 1))
  <1> DEFINE P == {k \in Positions(line, main) : k >= 1}
  <1>1. P = {k \in 1 .. Len(line) : line[k] = "main"}
    <2>1. Positions(line, main) = {k \in 1 .. Len(line) : line[k] = "main"}
      BY Found, AtomsType DEF main
    <2> QED BY <2>1
  <1>2. P \in SUBSET Nat /\ P # {}
    <2>1. Positions(line, main) # {}
          /\ Positions(line, main) = {k \in 1 .. Len(line) : line[k] = "main"}
      BY Found, AtomsType DEF Has, main
    <2> QED BY <1>1, <2>1
  <1>3. PICK m \in P : \A k \in P : m <= k
    <2> HIDE DEF P
    <2> QED BY <1>2, LeastElement
  <1>4. Min(P) \in P /\ \A k \in P : Min(P) <= k
    <2> HIDE DEF P
    <2> QED BY <1>3 DEF Min
  <1>5. find(line, main, 1) = Min(P)
    BY DEF find
  <1> HIDE DEF P
  <1> DEFINE q == Min(P)
  <1>6. q \in 1 .. Len(line) /\ line[q] = "main"
    BY <1>1, <1>4
  <1>7. \A k \in 1 .. q - 1 : line[k] # "main"
    BY <1>1, <1>4, <1>6 DEF Line
  <1> QED BY <1>5, <1>6, <1>7 DEF First

\* There is one first main, and if there is one, find gives it.
LEMMA FirstIsFound ==
    ASSUME NEW line \in Line, NEW pos, First(line, pos)
    PROVE  Has(line, main) /\ find(line, main, 1) = pos
  <1>1. Has(line, main)
    BY Found, AtomsType DEF Has, main, First, Line
  <1>2. First(line, find(line, main, 1))
    BY <1>1, FindsFirst
  <1> QED BY <1>1, <1>2 DEF First, Line

Underscored(line) == LET pos == find(line, main, 1)
                     IN  Has(line, main) /\ Has(line, <<"(">>) /\ IsRenamed(line, pos)

\* r is line with four characters more around the main at pos.
Around(r, line, pos) ==
    /\ pos \in 1 .. Len(line) /\ Len(r) = Len(line) + 4
    /\ \A k \in 1 .. pos - 1 : r[k] = line[k]
    /\ r[pos] = "_" /\ r[pos + 1] = "_" /\ r[pos + 3] = "_" /\ r[pos + 4] = "_"
    /\ r[pos + 2] = "main"
    /\ \A k \in pos + 5 .. Len(line) + 4 : r[k] = line[k - 4]

\* That is what Renamed makes of a line that is renamed.
LEMMA RenamedLine ==
    ASSUME NEW line \in Line, Underscored(line)
    PROVE  /\ Renamed(line) \in Line
           /\ Around(Renamed(line), line, find(line, main, 1))
  <1> DEFINE pos == find(line, main, 1)
             a == SubSeq(line, 1, pos - 1)
             b == <<"_", "_", "main", "_", "_">>
             c == SubSeq(line, pos + 1, Len(line))
  <1>1. pos \in 1 .. Len(line) /\ Len(line) \in Nat
    BY FindsFirst DEF Underscored, First, Line
  <1>2. a \in Seq(Atoms) /\ Len(a) = pos - 1 /\ \A k \in 1 .. pos - 1 : a[k] = line[k]
    <2>1. \A k \in 1 .. pos - 1 : line[k] \in Atoms
      BY <1>1 DEF Line
    <2>2. 1 \in Int /\ pos - 1 \in Int
      BY <1>1
    <2>3. /\ a \in Seq(Atoms) /\ Len(a) = IF 1 <= pos - 1 THEN pos - 1 - 1 + 1 ELSE 0
          /\ \A k \in 1 .. pos - 1 - 1 + 1 : a[k] = line[1 + k - 1]
      BY <2>1, <2>2, SubSeqProperties
    <2> QED BY <1>1, <2>3
  <1>3. b \in Seq(Atoms) /\ Len(b) = 5
        /\ b[1] = "_" /\ b[2] = "_" /\ b[3] = "main" /\ b[4] = "_" /\ b[5] = "_"
    BY Five, AtomsType
  <1>4. c \in Seq(Atoms) /\ Len(c) = Len(line) - pos
        /\ \A k \in 1 .. Len(line) - pos : c[k] = line[pos + k]
    <2>1. \A k \in pos + 1 .. Len(line) : line[k] \in Atoms
      BY <1>1 DEF Line
    <2>2. pos + 1 \in Int /\ Len(line) \in Int
      BY <1>1
    <2>3. /\ c \in Seq(Atoms)
          /\ Len(c) = IF pos + 1 <= Len(line) THEN Len(line) - (pos + 1) + 1 ELSE 0
          /\ \A k \in 1 .. Len(line) - (pos + 1) + 1 : c[k] = line[pos + 1 + k - 1]
      BY <2>1, <2>2, SubSeqProperties
    <2> QED BY <1>1, <2>3
  <1>5. Renamed(line) = a \o b \o c
    BY DEF Renamed, Underscored
  <1> DEFINE r == Renamed(line)
  <1> HIDE DEF a, b, c, pos, r
  <1>6. r = a \o b \o c
    BY <1>5 DEF r
  <1>7. /\ r \in Seq(Atoms) /\ Len(r) = Len(a) + Len(b) + Len(c)
        /\ \A k \in 1 .. Len(a) : r[k] = a[k]
        /\ \A k \in 1 .. Len(b) : r[Len(a) + k] = b[k]
        /\ \A k \in 1 .. Len(c) : r[Len(a) + Len(b) + k] = c[k]
    <2>1. a \in Seq(Atoms) /\ b \in Seq(Atoms) /\ c \in Seq(Atoms)
      BY <1>2, <1>3, <1>4
    <2> QED BY ONLY <1>6, <2>1, Concat3
  <1>13. /\ Len(a) = pos - 1 /\ Len(b) = 5 /\ Len(c) = Len(line) - pos
         /\ pos \in Nat /\ Len(line) \in Nat /\ Len(r) = Len(a) + Len(b) + Len(c)
    <2>1. pos \in Nat /\ Len(line) \in Nat
      BY ONLY <1>1
    <2> QED BY <1>2, <1>3, <1>4, <1>7, <2>1, Zenon
  <1>8. \A k \in 1 .. pos - 1 : r[k] = line[k]
    BY <1>2, <1>7
  <1>9. \A k \in 1 .. 5 : r[pos - 1 + k] = b[k]
    BY <1>2, <1>3, <1>7
  <1>10. /\ r[pos] = "_" /\ r[pos + 1] = "_" /\ r[pos + 2] = "main"
         /\ r[pos + 3] = "_" /\ r[pos + 4] = "_"
    <2>1. pos - 1 + 1 = pos /\ pos - 1 + 2 = pos + 1 /\ pos - 1 + 3 = pos + 2
          /\ pos - 1 + 4 = pos + 3 /\ pos - 1 + 5 = pos + 4
      BY <1>1
    <2>2. /\ r[pos - 1 + 1] = b[1] /\ r[pos - 1 + 2] = b[2] /\ r[pos - 1 + 3] = b[3]
          /\ r[pos - 1 + 4] = b[4] /\ r[pos - 1 + 5] = b[5]
      BY <1>9
    <2> QED BY <1>3, <2>1, <2>2
  <1>11. \A k \in pos + 5 .. Len(line) + 4 : r[k] = line[k - 4]
    <2> TAKE k \in pos + 5 .. Len(line) + 4
    <2> DEFINE j == k - 4 - pos
    <2>1. j \in 1 .. Len(line) - pos /\ pos + 4 + j = k /\ pos + j = k - 4
      BY <1>1
    <2> HIDE DEF j
    <2>2. Len(a) + Len(b) = pos + 4
      BY ONLY <1>13
    <2>3. r[pos + 4 + j] = c[j] /\ c[j] = line[pos + j]
      BY <1>4, <1>7, <2>1, <2>2
    <2> QED BY <2>1, <2>3
  <1>12. r \in Line /\ Len(r) = Len(line) + 4
    <2>1. Len(r) = Len(line) + 4
      BY ONLY <1>13
    <2> QED BY <1>7, <2>1 DEF Line
  <1> QED BY <1>1, <1>8, <1>10, <1>11, <1>12 DEF Around, r, pos

\* The other lines stay as they are.
LEMMA NotRenamed == ASSUME NEW line, ~Underscored(line) PROVE Renamed(line) = line
  BY DEF Renamed, Underscored

\* Either way it is a line.
LEMMA RenamedType == ASSUME NEW line \in Line PROVE Renamed(line) \in Line
  BY RenamedLine, NotRenamed

(* A line that was renamed is not renamed again, so that it does not       *)
(* matter how often modifyMainFunction runs.                               *)
LEMMA RenamedOnce == ASSUME NEW line \in Line PROVE Renamed(Renamed(line)) = Renamed(line)
  <1>1. CASE ~Underscored(line)
    BY <1>1, NotRenamed
  <1>2. CASE Underscored(line)
    <2> DEFINE pos == find(line, main, 1)
               r == Renamed(line)
    <2>1. First(line, pos)
      BY <1>2, FindsFirst DEF Underscored
    <2>2. r \in Line /\ Around(r, line, pos)
      BY <1>2, RenamedLine
    <2> HIDE DEF pos, r
    <2>3. Len(line) \in Nat /\ pos \in 1 .. Len(line) /\ Len(r) = Len(line) + 4
      <3>1. Len(line) \in Nat
        BY DEF Line
      <3> QED BY <2>2, <3>1 DEF Around
    <2>4. First(r, pos + 2)
      <3>1. ASSUME NEW k \in 1 .. pos + 1 PROVE r[k] # "main"
        <4>1. k \in 1 .. pos - 1 \/ k = pos \/ k = pos + 1
          BY <2>3
        <4> QED BY <2>1, <2>2, <4>1 DEF First, Around
      <3>2. pos + 2 \in 1 .. Len(r) /\ (pos + 2) - 1 = pos + 1
        BY <2>3
      <3> QED BY <2>2, <3>1, <3>2 DEF First, Around
    <2>5. find(r, main, 1) = pos + 2
      BY <2>2, <2>4, FirstIsFound
    <2>6. ~IsRenamed(r, pos + 2)
      <3>1. pos + 2 > 1 /\ (pos + 2) - 1 = pos + 1
        BY <2>3
      <3> QED BY <2>2, <3>1 DEF IsRenamed, Around, AtSecond
    <2>7. Renamed(r) = r
      BY <2>5, <2>6, NotRenamed DEF Underscored
    <2> QED BY <2>7 DEF r
  <1> QED BY <1>1, <1>2

-----------------------------------------------------------------------------
(* The source file of the user.                                            *)

\* The file is what writeLine has written so far: lines renamed once.
AsOnce == /\ Len(file) <= Len(program.lines)
          /\ \A k \in 1 .. Len(file) : file[k] = Once[k]

\* While it is written the lines are those of the user, or were renamed before.
Writing == generator = "writing" =>
    /\ AsOnce
    /\ Len(file) <= Len(lines) /\ Len(lines) <= Len(program.lines)
    /\ \A k \in 1 .. Len(lines) : Renamed(lines[k]) = Once[k]
    /\ ~crashed => Len(lines) = Len(program.lines)

GInv == /\ program \in Programs /\ crashed \in BOOLEAN
        /\ file \in Text /\ lines \in Text
        /\ file = program.lines \/ AsOnce
        /\ generator = "generated" => AsOnce
        /\ Writing
        /\ generator # "writing" /\ ~crashed => Len(file) = Len(program.lines)

\* The lines of the user.
LEMMA ProgramText ==
    ASSUME NEW p \in Programs
    PROVE  /\ p.lines \in Text /\ Len(p.lines) \in Nat
           /\ \A k \in 1 .. Len(p.lines) : p.lines[k] \in Line
  <1>1. p.lines \in Text
    BY ProgramsAssumption DEF Text, Line
  <1> QED BY <1>1 DEF Text

\* The file is read whole, and is empty then.
LEMMA TruncateKeeps == ASSUME GInv, truncate PROVE GInv'
  <1> USE DEF truncate
  <1>1. /\ lines' = file /\ file' = << >> /\ generator' = "writing" /\ generator # "writing"
        /\ program' = program /\ crashed' = crashed /\ Once' = Once
    BY DEF Once
  <1>2. /\ file \in Text /\ program \in Programs /\ Len(program.lines) \in Nat
        /\ Len(file) \in Nat
    BY ProgramText DEF GInv, Text
  <1>3. AsOnce'
    BY <1>1, <1>2 DEF AsOnce
  <1>4. Len(file) <= Len(program.lines) /\ \A k \in 1 .. Len(file) : Renamed(file[k]) = Once[k]
    <2>1. CASE file = program.lines
      BY <1>2, <2>1 DEF Once, Text
    <2>2. CASE AsOnce
      <3>1. ASSUME NEW k \in 1 .. Len(file) PROVE Renamed(file[k]) = Once[k]
        <4>1. k \in 1 .. Len(program.lines)
          BY <1>2, <2>2 DEF AsOnce
        <4>2. program.lines[k] \in Line
          BY <1>2, <4>1, ProgramText
        <4>3. k \in DOMAIN program.lines
          BY <1>2, <4>1, ProgramText DEF Text
        <4>4. Once[k] = Renamed(program.lines[k])
          BY <4>3 DEF Once
        <4> QED BY <2>2, <4>2, <4>4, RenamedOnce DEF AsOnce
      <3> QED BY <2>2, <3>1 DEF AsOnce
    <2> QED BY <2>1, <2>2 DEF GInv
  <1>5. Writing'
    <2>1. ~crashed => Len(file) = Len(program.lines)
      BY <1>1 DEF GInv
    <2> QED BY <1>1, <1>2, <1>3, <1>4, <2>1 DEF Writing
  <1> QED BY <1>1, <1>3, <1>5 DEF GInv, Text

\* A line that is written is the one of the user renamed once.
LEMMA WriteKeeps == ASSUME GInv, writeLine PROVE GInv'
  <1> DEFINE k == Len(file) + 1
             r == Renamed(lines[k])
  <1>1. /\ generator = "writing" /\ Len(file) < Len(lines) /\ file' = Append(file, r)
        /\ program' = program /\ lines' = lines /\ generator' = generator
        /\ crashed' = crashed /\ Once' = Once
    BY DEF writeLine, Once
  <1>2. /\ AsOnce /\ Len(lines) <= Len(program.lines) /\ Len(program.lines) \in Nat
        /\ \A j \in 1 .. Len(lines) : Renamed(lines[j]) = Once[j]
        /\ file \in Text /\ lines \in Text /\ Len(file) \in Nat /\ Len(lines) \in Nat
    BY <1>1, ProgramText DEF GInv, Writing, Text
  <1>3. k \in 1 .. Len(lines)
    BY <1>1, <1>2
  <1>4. r \in Line /\ r = Once[k]
    <2>1. lines[k] \in Line
      BY <1>2, <1>3 DEF Text
    <2> QED BY <1>2, <1>3, <2>1, RenamedType
  <1> HIDE DEF r
  <1>5. /\ file' \in Text /\ Len(file') = k
        /\ \A j \in 1 .. Len(file) : file'[j] = file[j]
        /\ file'[k] = r
    BY <1>1, <1>2, <1>4, AppendProperties DEF Text
  <1>6. AsOnce'
    <2>1. k <= Len(program.lines)
      BY <1>2, <1>3
    <2>2. ASSUME NEW j \in 1 .. k PROVE file'[j] = Once[j]
      <3>1. j \in 1 .. Len(file) \/ j = k
        BY <1>2
      <3> QED BY <1>2, <1>4, <1>5, <3>1 DEF AsOnce
    <2> QED BY <1>1, <1>5, <2>1, <2>2 DEF AsOnce
  <1>7. Writing'
    <2>1. k <= Len(lines)
      BY <1>3
    <2> QED BY <1>1, <1>5, <1>6, <2>1 DEF GInv, Writing
  <1> QED BY <1>1, <1>5, <1>6, <1>7 DEF GInv

\* The driver is generated from the whole file.
LEMMA GenerateKeeps == ASSUME GInv, NEW t, generate(t) PROVE GInv'
  <1>1. /\ generator = "writing" /\ Len(file) = Len(lines)
        /\ UNCHANGED <<program, file, lines, crashed>> /\ generator' \in {"generated", "aborted"}
    BY DEF generate
  <1>2. AsOnce /\ (~crashed => Len(lines) = Len(program.lines))
    BY <1>1 DEF GInv, Writing
  <1>3. AsOnce' /\ Writing'
    BY <1>1, <1>2 DEF AsOnce, Once, Writing
  <1> QED BY <1>1, <1>2, <1>3 DEF GInv

\* A stop while the file is written may lose lines, any other does not.
LEMMA CrashKeeps == ASSUME GInv, Crash PROVE GInv'
  <1>1. /\ generator \in {"writing", "aborted"} /\ generator' = "idle"
        /\ crashed' = (crashed \/ Len(file) < Len(lines))
        /\ UNCHANGED <<program, file, lines>>
    BY DEF Crash
  <1>2. ~crashed' => Len(file) = Len(program.lines)
    <2>1. CASE generator = "writing"
      <3>1. Len(file) <= Len(lines) /\ Len(file) \in Nat /\ Len(lines) \in Nat
        BY <2>1 DEF GInv, Writing, Text
      <3>2. ~crashed' => ~(Len(file) < Len(lines)) /\ ~crashed
        BY <1>1, Zenon
      <3>3. ~(Len(file) < Len(lines)) => Len(file) = Len(lines)
        BY <3>1
      <3> QED BY <2>1, <3>2, <3>3 DEF GInv, Writing
    <2>2. CASE generator = "aborted"
      BY <1>1, <2>2 DEF GInv
    <2> QED BY <1>1, <2>1, <2>2
  <1>3. file' = program'.lines \/ AsOnce'
    BY <1>1 DEF GInv, AsOnce, Once
  <1>4. crashed' \in BOOLEAN
    BY <1>1, Zenon DEF GInv
  <1> QED BY <1>1, <1>2, <1>3, <1>4 DEF GInv, Writing

(* In every state the source is the user's or what of it has been written, *)
(* each line renamed once.                                                 *)
THEOREM GeneratorInvariant == Spec => []GInv
  <1>1. Init => GInv
    <2> SUFFICES ASSUME Init PROVE GInv
      OBVIOUS
    <2>1. program \in Programs /\ file = program.lines /\ lines = << >>
          /\ generator = "idle" /\ crashed = FALSE
      BY DEF Init, GeneratorInit
    <2>2. crashed \in BOOLEAN
      BY <2>1
    <2>3. file \in Text /\ lines \in Text
      BY <2>1, ProgramText DEF Text
    <2> QED BY <2>1, <2>2, <2>3 DEF GInv, Writing
  <1>2. GInv /\ [Next]_vars => GInv'
    <2> SUFFICES ASSUME GInv, [Next]_vars PROVE GInv'
      OBVIOUS
    <2>1. CASE Generate
      BY <2>1, TruncateKeeps, WriteKeeps, GenerateKeeps, CrashKeeps DEF Generate,
         GeneratorStep
    <2>2. CASE UNCHANGED generatorVars
      BY <2>2 DEF generatorVars, GInv, AsOnce, Once, Writing
    <2> QED BY <2>1, <2>2 DEF Next, vars, ConvertPlain, StartParser, Parse, ParserReturned,
                CallFunction
  <1> QED BY <1>1, <1>2, PTL DEF Spec

(* For every source: however many drivers are generated from it, one after *)
(* the other or after runs that were stopped, its main is renamed once at  *)
(* most, and no line is missing unless a run was stopped while writing     *)
(* (modifyMainFunction).                                                   *)
THEOREM SourceIsKept == Spec => []SourceKept
  <1>1. GInv => SourceKept
    <2> SUFFICES ASSUME GInv PROVE SourceKept
      OBVIOUS
    <2>1. AsOnce => IsPrefix(file, Once)
      <3> SUFFICES ASSUME AsOnce PROVE IsPrefix(file, Once)
        OBVIOUS
      <3>1. /\ program.lines \in Text /\ Len(program.lines) \in Nat /\ file \in Text
            /\ Len(file) \in Nat /\ \A k \in 1 .. Len(program.lines) : program.lines[k] \in Line
        BY ProgramText DEF GInv, Text
      <3>2. Once \in Text /\ Len(Once) = Len(program.lines)
        <4>1. DOMAIN program.lines = 1 .. Len(program.lines)
          BY <3>1 DEF Text
        <4>2. \A k \in 1 .. Len(program.lines) : Renamed(program.lines[k]) \in Line
          BY <3>1, RenamedType
        <4> QED BY <3>1, <4>1, <4>2 DEF Once, Text
      <3> DEFINE m == Len(file)
                 s == SubSeq(file, 1, m)
                 t == SubSeq(Once, 1, m)
      <3>3. s \in Text /\ Len(s) = m /\ \A k \in 1 .. m : s[k] = file[k]
        BY <3>1 DEF Text
      <3>4. t \in Text /\ Len(t) = m /\ \A k \in 1 .. m : t[k] = Once[k]
        BY <3>1, <3>2 DEF Text, AsOnce
      <3>5. s = t
        <4> HIDE DEF s, t
        <4> QED BY <3>3, <3>4, SeqEqual DEF AsOnce, Text
      <3> QED BY <3>2, <3>5 DEF IsPrefix, AsOnce
    <2> QED BY <2>1 DEF GInv, SourceKept
  <1> QED BY <1>1, GeneratorInvariant, PTL

(* For every source with at most one main in a line: the driver meets no   *)
(* second main function, but perhaps one behind a single character.        *)
THEOREM MainIsAlone == OneMainPerLine => (Spec => []OneMain)
  <1> SUFFICES ASSUME OneMainPerLine PROVE Spec => []OneMain
    OBVIOUS
  <1>1. GInv => OneMain
    <2> SUFFICES ASSUME GInv, generator = "generated", NEW n \in DOMAIN file,
                        NEW k \in Positions(file[n], <<"main", "(">>)
                 PROVE  AtSecond(file[n], k) \/ (k > 1 /\ file[n][k - 1] \notin {" ", "*"})
      BY DEF OneMain, Generated
    <2> DEFINE line == program.lines[n]
               r == file[n]
    <2>1. /\ program \in Programs /\ AsOnce /\ file \in Text /\ n \in 1 .. Len(file)
          /\ Len(file) \in Nat /\ Len(program.lines) \in Nat
      BY ProgramText DEF GInv, Text
    <2>2. n \in 1 .. Len(program.lines)
      BY <2>1 DEF AsOnce
    <2>3. line \in Line /\ n \in DOMAIN program.lines
      BY <2>1, <2>2, ProgramText DEF Text
    <2>4. r = Renamed(line)
      BY <2>1, <2>3 DEF AsOnce, Once
    <2>5. \A i1, i2 \in 1 .. Len(line) : line[i1] = "main" /\ line[i2] = "main" => i1 = i2
      BY <2>1, <2>3 DEF OneMainPerLine, Line
    <2>6. r \in Line
      BY <2>3, <2>4, RenamedType
    <2> HIDE DEF line, r
    <2>7. /\ k \in 1 .. Len(r) /\ k + 1 \in 1 .. Len(r) /\ Len(r) \in Nat
          /\ r[k] = "main" /\ r[k + 1] = "("
      BY <2>6, FoundTwo DEF r
    <2>8. CASE Underscored(line)
      <3> DEFINE pos == find(line, main, 1)
      <3>1. First(line, pos) /\ Around(r, line, pos)
        BY <2>3, <2>4, <2>8, RenamedLine, FindsFirst DEF Underscored
      <3> HIDE DEF pos
      <3>2. Len(line) \in Nat /\ pos \in 1 .. Len(line) /\ Len(r) = Len(line) + 4
        <4>1. Len(line) \in Nat
          BY <2>3 DEF Line
        <4> QED BY <3>1, <4>1 DEF Around
      <3>3. \/ k \in 1 .. pos - 1 \/ k = pos \/ k = pos + 1 \/ k = pos + 2
            \/ k = pos + 3 \/ k = pos + 4 \/ k \in pos + 5 .. Len(line) + 4
        BY <2>7, <3>2
      <3>4. CASE k \in 1 .. pos - 1
        BY <2>7, <3>1, <3>4 DEF Around, First
      <3>5. CASE k \in {pos, pos + 1, pos + 3, pos + 4}
        BY <2>7, <3>1, <3>5 DEF Around
      <3>6. CASE k = pos + 2
        <4>1. k + 1 = pos + 3
          BY <3>2, <3>6
        <4> QED BY <2>7, <3>1, <4>1 DEF Around
      <3>7. CASE k \in pos + 5 .. Len(line) + 4
        <4>1. line[k - 4] = "main"
          BY <2>7, <3>1, <3>7 DEF Around
        <4>2. k - 4 \in 1 .. Len(line) /\ k - 4 # pos
          BY <3>2, <3>7
        <4> QED BY <2>5, <3>1, <3>2, <4>1, <4>2 DEF First
      <3> QED BY <3>3, <3>4, <3>5, <3>6, <3>7
    <2>9. CASE ~Underscored(line)
      <3>1. r = line
        BY <2>4, <2>9, NotRenamed
      <3>2. First(line, k)
        <4>1. \A j \in 1 .. k - 1 : j \in 1 .. Len(line) /\ j # k
          BY <2>7, <3>1
        <4> QED BY <2>5, <2>7, <3>1, <4>1 DEF First
      <3>3. Has(line, main) /\ find(line, main, 1) = k
        BY <2>3, <3>2, FirstIsFound
      <3>4. Has(line, <<"(">>)
        BY <2>3, <2>7, <3>1, Found, AtomsType DEF Has
      <3>5. ~IsRenamed(line, k)
        BY <2>9, <3>3, <3>4 DEF Underscored
      <3>6. AtSecond(line, k) \/ (k > 1 /\ line[k - 1] = "_")
        BY <3>5 DEF IsRenamed
      <3> QED BY <3>1, <3>6 DEF r
    <2> QED BY <2>8, <2>9
  <1> QED BY <1>1, GeneratorInvariant, PTL

\* What holds of n if it holds of all numbers below holds everywhere.
LEMMA StrongInduction ==
    ASSUME NEW S, \A n \in Nat : (\A k \in 0 .. n - 1 : k \in S) => n \in S
    PROVE  \A n \in Nat : n \in S
  <1> DEFINE T == {n \in Nat : n \notin S}
  <1> SUFFICES ASSUME T # {} PROVE FALSE
    OBVIOUS
  <1>1. PICK m \in T : \A n \in T : m <= n
    <2>1. T \in SUBSET Nat
      OBVIOUS
    <2> HIDE DEF T
    <2> QED BY <2>1, LeastElement
  <1>2. \A k \in 0 .. m - 1 : k \in Nat /\ ~ (m <= k)
    OBVIOUS
  <1> QED BY <1>1, <1>2

\* What holds at 0, and at the next number of each, holds everywhere.
LEMMA SetInduction ==
    ASSUME NEW S, 0 \in S, \A n \in Nat : n \in S => n + 1 \in S
    PROVE  \A n \in Nat : n \in S
  <1>1. ASSUME NEW n \in Nat, \A k \in 0 .. n - 1 : k \in S PROVE n \in S
    <2>1. CASE n = 0
      BY <2>1
    <2>2. CASE n # 0
      <3>1. n - 1 \in Nat /\ n - 1 \in 0 .. n - 1 /\ (n - 1) + 1 = n
        BY <2>2
      <3> QED BY <1>1, <3>1
    <2> QED BY <2>1, <2>2
  <1> QED BY <1>1, StrongInduction

-----------------------------------------------------------------------------
(* What the characters of a text lead to.                                  *)

State == [exact : Int, negative : BOOLEAN, values : Seq(Int)]
At(e, g, w) == [exact |-> e, negative |-> g, values |-> w]

\* The state of the parser after a character, in integers without bounds.
After(x, c) ==
    IF c \in Digits
    THEN At(IF x.negative THEN x.exact * 10 - (c - 48) ELSE x.exact * 10 + (c - 48),
            x.negative, x.values)
    ELSE IF c = Minus THEN At(x.exact, TRUE, x.values)
    ELSE IF c \in Ends THEN At(0, FALSE, Append(x.values, x.exact))
    ELSE x

\* r are the states that the characters of s lead through.
IsRun(r, s) == /\ r \in [0 .. Len(s) -> State]
               /\ \A k \in 1 .. Len(s) : r[k] = After(r[k - 1], s[k])
Leads(s, x, y) == \E r : IsRun(r, s) /\ r[0] = x /\ r[Len(s)] = y

\* A character leads from a state to a state.
LEMMA AfterType == ASSUME NEW x \in State, NEW c \in Nat PROVE After(x, c) \in State
  <1>1. x.exact \in Int /\ x.negative \in BOOLEAN /\ x.values \in Seq(Int)
    BY DEF State
  <1>2. Append(x.values, x.exact) \in Seq(Int)
    BY <1>1, AppendProperties
  <1>3. c \in Digits => x.exact * 10 - (c - 48) \in Int /\ x.exact * 10 + (c - 48) \in Int
    BY <1>1 DEF Digits
  <1>4. \A e \in Int, g \in BOOLEAN, w \in Seq(Int) : At(e, g, w) \in State
    BY DEF At, State
  <1>5. CASE c \in Digits
    <2> DEFINE e == IF x.negative THEN x.exact * 10 - (c - 48) ELSE x.exact * 10 + (c - 48)
    <2>1. e \in Int
      BY <1>3, <1>5
    <2>2. After(x, c) = At(e, x.negative, x.values)
      BY <1>5 DEF After
    <2> HIDE DEF e
    <2>3. At(e, x.negative, x.values) \in State
      BY <1>1, <1>4, <2>1, Zenon
    <2> QED BY <2>2, <2>3
  <1>6. CASE c \notin Digits /\ c = Minus
    <2>1. After(x, c) = At(x.exact, TRUE, x.values)
      BY <1>6 DEF After
    <2>2. At(x.exact, TRUE, x.values) \in State
      BY <1>1, <1>4, Zenon
    <2> QED BY <2>1, <2>2
  <1>7. CASE c \notin Digits /\ c # Minus /\ c \in Ends
    <2>1. After(x, c) = At(0, FALSE, Append(x.values, x.exact))
      BY <1>7 DEF After
    <2>2. At(0, FALSE, Append(x.values, x.exact)) \in State
      <3>1. 0 \in Int /\ FALSE \in BOOLEAN
        OBVIOUS
      <3> QED BY <1>2, <1>4, <3>1, Zenon
    <2> QED BY <2>1, <2>2
  <1>8. CASE c \notin Digits /\ c # Minus /\ c \notin Ends
    BY <1>8 DEF After
  <1> QED BY <1>5, <1>6, <1>7, <1>8

\* Texts behind each other lead on from each other.
LEMMA LeadsConcat ==
    ASSUME NEW s \in Seq(Nat), NEW t \in Seq(Nat), NEW x, NEW y, NEW z,
           Leads(s, x, y), Leads(t, y, z)
    PROVE  Leads(s \o t, x, z)
  <1>1. PICK q : IsRun(q, s) /\ q[0] = x /\ q[Len(s)] = y
    BY DEF Leads
  <1>2. PICK r : IsRun(r, t) /\ r[0] = y /\ r[Len(t)] = z
    BY DEF Leads
  <1> DEFINE a == Len(s)
             b == Len(t)
             st == s \o t
             p == [k \in 0 .. a + b |-> IF k <= a THEN q[k] ELSE r[k - a]]
  <1>3. /\ a \in Nat /\ b \in Nat /\ Len(st) = a + b
        /\ \A k \in 1 .. a : st[k] = s[k]
        /\ \A k \in 1 .. b : st[a + k] = t[k]
    BY Concat
  <1>4. p \in [0 .. a + b -> State]
    <2>1. ASSUME NEW k \in 0 .. a + b PROVE p[k] \in State
      <3>1. CASE k <= a
        <4>1. k \in 0 .. a
          BY <1>3, <3>1
        <4> QED BY <1>1, <3>1, <4>1 DEF IsRun
      <3>2. CASE ~ (k <= a)
        <4>1. k - a \in 0 .. b
          BY <1>3, <3>2
        <4> QED BY <1>2, <3>2, <4>1 DEF IsRun
      <3> QED BY <3>1, <3>2
    <2> QED BY <2>1
  <1>5. ASSUME NEW k \in 1 .. a + b PROVE p[k] = After(p[k - 1], st[k])
    <2>1. CASE k <= a
      <3>1. k \in 1 .. a /\ k - 1 \in 0 .. a + b /\ k - 1 <= a /\ k \in 0 .. a + b
        BY <1>3, <2>1
      <3>2. p[k] = q[k] /\ p[k - 1] = q[k - 1]
        BY <2>1, <3>1
      <3> QED BY <1>1, <1>3, <3>1, <3>2 DEF IsRun
    <2>2. CASE ~ (k <= a)
      <3> DEFINE j == k - a
      <3>1. j \in 1 .. b /\ k = a + j /\ k - 1 \in 0 .. a + b /\ k \in 0 .. a + b
            /\ j - 1 = (k - 1) - a
        BY <1>3, <2>2
      <3>2. p[k] = r[j]
        BY <2>2, <3>1
      <3>3. p[k - 1] = r[j - 1]
        <4>1. CASE j = 1
          BY <1>1, <1>2, <3>1, <4>1
        <4>2. CASE j # 1
          <5>1. ~ (k - 1 <= a)
            BY <1>3, <3>1, <4>2
          <5> QED BY <3>1, <5>1
        <4> QED BY <4>1, <4>2
      <3>4. st[k] = t[j] /\ r[j] = After(r[j - 1], t[j])
        <4> HIDE DEF j, st
        <4> QED BY <1>2, <1>3, <3>1 DEF IsRun
      <3> QED BY <3>2, <3>3, <3>4
    <2> QED BY <2>1, <2>2
  <1>6. p[0] = x /\ p[a + b] = z
    <2>1. 0 \in 0 .. a + b /\ 0 <= a /\ a + b \in 0 .. a + b /\ (b # 0 => ~ (a + b <= a))
          /\ (a + b) - a = b /\ (b = 0 => a + b = a /\ a + b <= a)
      BY <1>3
    <2>2. b = 0 => y = z
      BY <1>2
    <2> QED BY <1>1, <1>2, <2>1, <2>2
  <1> HIDE DEF p, st
  <1>7. IsRun(p, st)
    BY <1>3, <1>4, <1>5 DEF IsRun
  <1> QED BY <1>3, <1>6, <1>7 DEF Leads, st

\* One character.
LEMMA LeadsOne ==
    ASSUME NEW c \in Nat, NEW x \in State
    PROVE  Leads(<<c>>, x, After(x, c))
  <1> DEFINE y == After(x, c)
             r == [k \in 0 .. 1 |-> IF k = 0 THEN x ELSE y]
  <1>1. y \in State
    BY AfterType
  <1>2. Len(<<c>>) = 1 /\ <<c>>[1] = c
    OBVIOUS
  <1>3. r \in [0 .. 1 -> State] /\ r[0] = x /\ r[1] = y
    <2> HIDE DEF y
    <2> QED BY <1>1
  <1>4. \A k \in 1 .. 1 : k = 1 /\ k - 1 = 0
    OBVIOUS
  <1> HIDE DEF r
  <1>5. IsRun(r, <<c>>)
    BY <1>2, <1>3, <1>4 DEF IsRun
  <1> QED BY <1>2, <1>3, <1>5 DEF Leads

-----------------------------------------------------------------------------
(* The digits of a number (str() of Python).                               *)

\* digits of Decimal: the recursion in it has one solution, chosen here.
DigitsCell(f, m) == IF m < 10 THEN <<48 + m>> ELSE Append(f[m \div 10], 48 + (m % 10))
IsDigits(f) == f = [m \in Nat |-> DigitsCell(f, m)]
DigitsOf == CHOOSE f : IsDigits(f)

\* What is left of a number without its last digit.
LEMMA Tenth ==
    ASSUME NEW m \in Nat
    PROVE  /\ m \div 10 \in Nat /\ m % 10 \in 0 .. 9 /\ m = (m \div 10) * 10 + (m % 10)
           /\ m >= 10 => m \div 10 \in 0 .. m - 1
  OBVIOUS

\* The recursion of the digits has a solution.
LEMMA DigitsExist == \E f : IsDigits(f)
  <1> DEFINE Upto(f, k) == f = [m \in 0 .. k |-> DigitsCell(f, m)]
             K == {k \in Nat : \E f : Upto(f, k)}
  <1>1. 0 \in K
    <2> DEFINE f == [m \in 0 .. 0 |-> <<48 + m>>]
    <2>1. \A m \in 0 .. 0 : f[m] = DigitsCell(f, m)
      BY DEF DigitsCell
    <2>2. f = [m \in 0 .. 0 |-> DigitsCell(f, m)]
      <3> DEFINE h == [m \in 0 .. 0 |-> DigitsCell(f, m)]
      <3>1. \A m \in 0 .. 0 : f[m] = h[m]
        BY <2>1
      <3> QED BY <3>1
    <2> HIDE DEF f
    <2>3. Upto(f, 0)
      BY <2>2
    <2> QED BY <2>3
  <1>2. ASSUME NEW k \in Nat, k \in K PROVE k + 1 \in K
    <2>1. PICK f : Upto(f, k)
      BY <1>2
    <2> DEFINE g == [m \in 0 .. k + 1 |-> IF m <= k THEN f[m] ELSE DigitsCell(f, m)]
    <2>2. \A m \in 0 .. k : g[m] = f[m]
      OBVIOUS
    <2>3. ASSUME NEW m \in 0 .. k + 1 PROVE g[m] = DigitsCell(f, m)
      BY <2>1
    <2>4. ASSUME NEW m \in 0 .. k + 1 PROVE DigitsCell(g, m) = DigitsCell(f, m)
      <3>1. CASE m < 10
        BY <3>1 DEF DigitsCell
      <3>2. CASE ~ (m < 10)
        <4>1. m \div 10 \in 0 .. k
          BY <3>2, Tenth
        <4>2. g[m \div 10] = f[m \div 10]
          <5> HIDE DEF g
          <5> QED BY <2>2, <4>1
        <4> HIDE DEF g
        <4> QED BY <3>2, <4>2 DEF DigitsCell
      <3> QED BY <3>1, <3>2
    <2>5. g = [m \in 0 .. k + 1 |-> DigitsCell(g, m)]
      <3> DEFINE h == [m \in 0 .. k + 1 |-> DigitsCell(g, m)]
      <3>1. \A m \in 0 .. k + 1 : h[m] = DigitsCell(g, m)
        OBVIOUS
      <3>2. \A m \in 0 .. k + 1 : g[m] = h[m]
        BY <2>3, <2>4, <3>1
      <3> QED BY <3>2
    <2> HIDE DEF g
    <2>6. Upto(g, k + 1)
      BY <2>5
    <2> QED BY <2>6
  <1>3. \A k \in Nat : k \in K
    <2> HIDE DEF K
    <2> QED BY <1>1, <1>2, SetInduction
  <1> DEFINE Part(k) == CHOOSE f : Upto(f, k)
  <1>4. ASSUME NEW k \in Nat PROVE Upto(Part(k), k)
    <2>1. \E f : Upto(f, k)
      BY <1>3
    <2> HIDE DEF Upto
    <2> QED BY <2>1
  <1> HIDE DEF Part, K
  <1>5. \A k \in Nat : \A m \in 0 .. k : Part(k)[m] = DigitsCell(Part(k), m)
    BY <1>4
  <1> HIDE DEF Upto
  <1>6. ASSUME NEW k \in Nat, NEW l \in Nat
        PROVE  \A m \in Nat : m <= k /\ m <= l => Part(k)[m] = Part(l)[m]
    <2> DEFINE S == {m \in Nat : m <= k /\ m <= l => Part(k)[m] = Part(l)[m]}
    <2>1. ASSUME NEW m \in Nat, \A j \in 0 .. m - 1 : j \in S PROVE m \in S
      <3> SUFFICES ASSUME m <= k, m <= l PROVE Part(k)[m] = Part(l)[m]
        OBVIOUS
      <3>1. Part(k)[m] = DigitsCell(Part(k), m) /\ Part(l)[m] = DigitsCell(Part(l), m)
        BY <1>5
      <3>2. CASE m < 10
        BY <3>1, <3>2 DEF DigitsCell
      <3>3. CASE ~ (m < 10)
        <4>1. m \div 10 \in 0 .. m - 1 /\ m \div 10 \in Nat /\ m \div 10 <= k /\ m \div 10 <= l
          BY <3>3, Tenth
        <4>2. Part(k)[m \div 10] = Part(l)[m \div 10]
          BY <2>1, <4>1
        <4> QED BY <3>1, <3>3, <4>2 DEF DigitsCell
      <3> QED BY <3>2, <3>3
    <2> HIDE DEF S
    <2>2. \A m \in Nat : m \in S
      BY <2>1, StrongInduction
    <2> QED BY <2>2 DEF S
  <1> DEFINE g == [m \in Nat |-> Part(m)[m]]
  <1>7. ASSUME NEW m \in Nat PROVE g[m] = DigitsCell(g, m)
    <2>1. g[m] = DigitsCell(Part(m), m)
      BY <1>5
    <2>2. CASE m < 10
      BY <2>1, <2>2 DEF DigitsCell
    <2>3. CASE ~ (m < 10)
      <3>1. m \div 10 \in Nat /\ m \div 10 <= m
        BY <2>3, Tenth
      <3>2. g[m \div 10] = Part(m \div 10)[m \div 10]
        BY <3>1
      <3>3. g[m \div 10] = Part(m)[m \div 10]
        BY <1>6, <3>1, <3>2
      <3> HIDE DEF g
      <3> QED BY <2>1, <2>3, <3>3 DEF DigitsCell
    <2> QED BY <2>2, <2>3
  <1>8. g = [m \in Nat |-> DigitsCell(g, m)]
    <2> DEFINE h == [m \in Nat |-> DigitsCell(g, m)]
    <2>1. \A m \in Nat : h[m] = DigitsCell(g, m)
      OBVIOUS
    <2>2. \A m \in Nat : g[m] = h[m]
      BY <1>7, <2>1
    <2> QED BY <2>2
  <1> HIDE DEF g
  <1>9. IsDigits(g)
    BY <1>8 DEF IsDigits
  <1> QED BY <1>9

\* Decimal writes these digits, and a sign before them.
LEMMA DecimalIs ==
    /\ \A m \in Nat : DigitsOf[m] = DigitsCell(DigitsOf, m)
    /\ \A n \in Int : Decimal(n) = IF n < 0 THEN <<Minus>> \o DigitsOf[-n] ELSE DigitsOf[n]
  <1>1. IsDigits(DigitsOf)
    BY DigitsExist DEF DigitsOf
  <1>2. \A m \in Nat : DigitsOf[m] = DigitsCell(DigitsOf, m)
    <2> DEFINE d == DigitsOf
    <2>1. d = [m \in Nat |-> DigitsCell(d, m)]
      BY <1>1 DEF IsDigits
    <2> HIDE DEF d
    <2>2. \A m \in Nat : d[m] = DigitsCell(d, m)
      BY <2>1
    <2> QED BY <2>2 DEF d
  <1>3. \A n \in Int : Decimal(n) = IF n < 0 THEN <<Minus>> \o DigitsOf[-n] ELSE DigitsOf[n]
    BY DEF Decimal, DigitsOf, IsDigits, DigitsCell
  <1> QED BY <1>2, <1>3

\* The states that a text of digits leads through, for the number n.
Within(r, s, n) == \A k \in 0 .. Len(s) : r[k].exact \in 0 .. n
Shown(n, g, w) == At(IF g THEN -n ELSE n, g, w)

\* One more character goes on from where a text has led to.
LEMMA RunAppend ==
    ASSUME NEW s \in Seq(Nat), NEW c \in Nat, NEW r, IsRun(r, s)
    PROVE  \E q : /\ IsRun(q, Append(s, c))
                  /\ \A k \in 0 .. Len(s) : q[k] = r[k]
                  /\ q[Len(s) + 1] = After(r[Len(s)], c)
  <1> DEFINE a == Len(s)
             t == Append(s, c)
             y == After(r[a], c)
             q == [k \in 0 .. a + 1 |-> IF k <= a THEN r[k] ELSE y]
  <1>1. /\ a \in Nat /\ Len(t) = a + 1 /\ t[a + 1] = c /\ \A k \in 1 .. a : t[k] = s[k]
    BY AppendProperties
  <1>2. y \in State
    BY AfterType DEF IsRun
  <1>3. (\A k \in 0 .. a : q[k] = r[k]) /\ q[a + 1] = y
    <2>1. (\A k \in 0 .. a : k \in 0 .. a + 1 /\ k <= a) /\ a + 1 \in 0 .. a + 1 /\ ~ (a + 1 <= a)
      BY <1>1
    <2> HIDE DEF y
    <2> QED BY <2>1
  <1>4. q \in [0 .. a + 1 -> State]
    <2> HIDE DEF y, a
    <2>1. \A k \in 0 .. a + 1 : k <= a => r[k] \in State
      BY <1>1 DEF IsRun, a
    <2> QED BY <1>2, <2>1
  <1> HIDE DEF q
  <1>5. ASSUME NEW k \in 1 .. a + 1 PROVE q[k] = After(q[k - 1], t[k])
    <2>1. CASE k \in 1 .. a
      <3>1. k \in 0 .. a /\ k - 1 \in 0 .. a
        BY <1>1, <2>1
      <3> QED BY <1>1, <1>3, <2>1, <3>1 DEF IsRun
    <2>2. CASE k = a + 1
      <3>1. k - 1 = a /\ a \in 0 .. a
        BY <1>1, <2>2
      <3> QED BY <1>1, <1>3, <2>2, <3>1
    <2> QED BY <1>1, <2>1, <2>2
  <1>6. IsRun(q, t)
    BY <1>1, <1>4, <1>5 DEF IsRun
  <1> QED BY <1>3, <1>6

\* The digits of a number are digits, and lead to it.
LEMMA DigitsRead ==
    \A n \in Nat :
        /\ DigitsOf[n] \in Seq(Digits) /\ Len(DigitsOf[n]) >= 1
        /\ \A g \in BOOLEAN, w \in Seq(Int) :
              \E r : /\ IsRun(r, DigitsOf[n])
                     /\ r[0] = At(0, g, w) /\ r[Len(DigitsOf[n])] = Shown(n, g, w)
                     /\ ~g => Within(r, DigitsOf[n], n)
  <1> DEFINE Good(n) ==
        /\ DigitsOf[n] \in Seq(Digits) /\ Len(DigitsOf[n]) >= 1
        /\ \A g \in BOOLEAN, w \in Seq(Int) :
              \E r : /\ IsRun(r, DigitsOf[n])
                     /\ r[0] = At(0, g, w) /\ r[Len(DigitsOf[n])] = Shown(n, g, w)
                     /\ ~g => Within(r, DigitsOf[n], n)
             S == {n \in Nat : Good(n)}
  <1>0. \A g \in BOOLEAN, w \in Seq(Int), e \in Int, c \in 0 .. 9 :
            /\ At(e, g, w) \in State
            /\ After(At(e, g, w), 48 + c) = At(IF g THEN e * 10 - c ELSE e * 10 + c, g, w)
    <2> SUFFICES ASSUME NEW g \in BOOLEAN, NEW w \in Seq(Int), NEW e \in Int, NEW c \in 0 .. 9
                 PROVE  /\ At(e, g, w) \in State
                        /\ After(At(e, g, w), 48 + c) =
                              At(IF g THEN e * 10 - c ELSE e * 10 + c, g, w)
      OBVIOUS
    <2>1. 48 + c \in Digits /\ (48 + c) - 48 = c
      BY DEF Digits
    <2> QED BY <2>1 DEF At, State, After
  <1>1. ASSUME NEW n \in Nat, \A k \in 0 .. n - 1 : k \in S PROVE n \in S
    <2>1. CASE n < 10
      <3> DEFINE s == << >>
                 t == <<48 + n>>
      <3>1. DigitsOf[n] = t
        BY <2>1, DecimalIs DEF DigitsCell
      <3>2. 48 + n \in Digits /\ 48 + n \in Nat /\ n \in 0 .. 9
        BY <2>1 DEF Digits
      <3>3. t \in Seq(Digits) /\ Len(t) = 1
        BY <3>2
      <3>4. ASSUME NEW g \in BOOLEAN, NEW w \in Seq(Int)
            PROVE  \E r : /\ IsRun(r, t) /\ r[0] = At(0, g, w) /\ r[1] = Shown(n, g, w)
                          /\ ~g => Within(r, t, n)
        <4>1. At(0, g, w) \in State
          BY <1>0
        <4>2. After(At(0, g, w), 48 + n) = Shown(n, g, w)
          <5>1. After(At(0, g, w), 48 + n) = At(IF g THEN 0 * 10 - n ELSE 0 * 10 + n, g, w)
            <6>1. 0 \in Int
              OBVIOUS
            <6> HIDE DEF t
            <6> QED BY <1>0, <3>2, <6>1
          <5>2. 0 * 10 - n = -n /\ 0 * 10 + n = n
            OBVIOUS
          <5> QED BY <5>1, <5>2 DEF Shown
        <4>3. PICK r : IsRun(r, t) /\ r[0] = At(0, g, w) /\ r[1] = Shown(n, g, w)
          <5>1. Leads(t, At(0, g, w), Shown(n, g, w))
            BY <3>2, <4>1, <4>2, LeadsOne
          <5> QED BY <3>3, <5>1 DEF Leads
        <4>4. ~g => Within(r, t, n)
          BY <3>3, <4>3 DEF Within, At, Shown
        <4> QED BY <4>3, <4>4
      <3> HIDE DEF t
      <3>5. Good(n)
        BY <3>1, <3>3, <3>4
      <3> QED BY <3>5
    <2>2. CASE ~ (n < 10)
      <3> DEFINE m == n \div 10
                 c == n % 10
                 s == DigitsOf[m]
                 t == Append(s, 48 + c)
      <3>1. m \in Nat /\ m \in 0 .. n - 1 /\ c \in 0 .. 9 /\ n = m * 10 + c
        BY <2>2, Tenth
      <3>2. DigitsOf[n] = t
        BY <2>2, DecimalIs DEF DigitsCell
      <3> HIDE DEF m, c
      <3>3. Good(m)
        BY <1>1, <3>1
      <3>4. 48 + c \in Digits /\ 48 + c \in Nat
        BY <3>1 DEF Digits
      <3>5. s \in Seq(Digits) /\ s \in Seq(Nat)
        BY <3>3 DEF Digits
      <3> HIDE DEF s
      <3>6. t \in Seq(Digits) /\ Len(t) = Len(s) + 1 /\ Len(s) \in Nat
        BY <3>4, <3>5, AppendProperties
      <3>7. ASSUME NEW g \in BOOLEAN, NEW w \in Seq(Int)
            PROVE  \E q : /\ IsRun(q, t) /\ q[0] = At(0, g, w) /\ q[Len(t)] = Shown(n, g, w)
                          /\ ~g => Within(q, t, n)
        <4>1. PICK r : /\ IsRun(r, s) /\ r[0] = At(0, g, w) /\ r[Len(s)] = Shown(m, g, w)
                       /\ ~g => Within(r, s, m)
          BY <3>3 DEF s
        <4>2. PICK q : /\ IsRun(q, t) /\ \A k \in 0 .. Len(s) : q[k] = r[k]
                       /\ q[Len(s) + 1] = After(r[Len(s)], 48 + c)
          BY <3>4, <3>5, <4>1, RunAppend
        <4>3. After(Shown(m, g, w), 48 + c) = Shown(n, g, w)
          <5> DEFINE e == IF g THEN -m ELSE m
          <5>1. e \in Int /\ (g => e * 10 - c = -n) /\ (~g => e * 10 + c = n)
            BY <3>1
          <5> HIDE DEF e
          <5>2. After(At(e, g, w), 48 + c) = At(IF g THEN e * 10 - c ELSE e * 10 + c, g, w)
            BY <1>0, <3>1, <5>1
          <5> QED BY <5>1, <5>2 DEF Shown, e
        <4>4. q[0] = At(0, g, w) /\ q[Len(t)] = Shown(n, g, w)
          BY <3>6, <4>1, <4>2, <4>3
        <4>5. ASSUME ~g, NEW k \in 0 .. Len(t) PROVE q[k].exact \in 0 .. n
          <5>1. CASE k \in 0 .. Len(s)
            <6>1. q[k] = r[k] /\ r[k].exact \in 0 .. m
              BY <4>1, <4>2, <4>5, <5>1 DEF Within
            <6> QED BY <3>1, <6>1
          <5>2. CASE k = Len(t)
            <6>1. q[k].exact = n
              BY <4>4, <4>5, <5>2 DEF Shown, At
            <6> QED BY <6>1
          <5> QED BY <3>6, <5>1, <5>2
        <4> HIDE DEF t
        <4>6. ~g => Within(q, t, n)
          BY <4>5 DEF Within
        <4> QED BY <4>2, <4>4, <4>6
      <3> HIDE DEF t
      <3> QED BY <3>2, <3>6, <3>7
    <2> QED BY <2>1, <2>2
  <1>2. \A n \in Nat : n \in S
    <2> HIDE DEF S
    <2> QED BY <1>1, StrongInduction
  <1> QED BY <1>2

-----------------------------------------------------------------------------
(* The value of digits, as atoi adds it up (FoldLeft).                     *)

\* t holds the value of the digits at every set of positions.
FoldCell(t, q, s) == IF s = {} THEN 0 ELSE t[s \ {Max(s)}] * 10 + q[Max(s)] - 48
IsFold(t, q) == t = [s \in SUBSET DOMAIN q |-> FoldCell(t, q, s)]

\* A set of positions that is not empty has a last one.
LEMMA LastPosition ==
    ASSUME NEW n \in Nat, NEW s \in SUBSET (0 .. n), s # {}
    PROVE  Max(s) \in s /\ \A x \in s : x <= Max(s)
  <1> DEFINE T == {n - x : x \in s}
             Top(x) == x \in s /\ \A y \in s : x >= y
  <1>1. T \in SUBSET Nat /\ T # {}
    <2>1. \A x \in s : x \in 0 .. n /\ n - x \in Nat
      OBVIOUS
    <2>2. \E x : x \in s
      OBVIOUS
    <2> QED BY <2>1, <2>2
  <1>2. PICK m \in T : \A k \in T : m <= k
    <2> HIDE DEF T
    <2> QED BY <1>1, LeastElement
  <1>3. PICK x \in s : m = n - x
    BY <1>2
  <1>4. Top(x)
    <2>1. \A y \in s : n - y \in T
      OBVIOUS
    <2>2. \A y \in s : n - x <= n - y
      BY <1>2, <1>3, <2>1
    <2> QED BY <2>2
  <1>5. Max(s) = CHOOSE y : Top(y)
    BY DEF Max
  <1>6. Top(Max(s))
    <2> HIDE DEF Top
    <2> QED BY <1>4, <1>5
  <1> QED BY <1>6

\* What FoldLeft chooses exists.
LEMMA FoldExists ==
    ASSUME NEW n \in Nat, NEW q, DOMAIN q = 1 .. n
    PROVE  \E t : IsFold(t, q)
  <1> DEFINE D == SUBSET (1 .. n)
             Upto(t, k) == t = [s \in D |-> IF Cardinality(s) < k THEN FoldCell(t, q, s) ELSE 0]
             K == {k \in Nat : \E t : Upto(t, k)}
  <1>1. /\ \A s \in D : /\ Cardinality(s) \in Nat /\ Cardinality(s) < n + 1
                        /\ \A x \in s : Cardinality(s \ {x}) = Cardinality(s) - 1
    <2>1. IsFiniteSet(1 .. n) /\ Cardinality(1 .. n) = n
      BY FS_Interval
    <2> SUFFICES ASSUME NEW s \in D
                 PROVE  /\ Cardinality(s) \in Nat /\ Cardinality(s) < n + 1
                        /\ \A x \in s : Cardinality(s \ {x}) = Cardinality(s) - 1
      OBVIOUS
    <2>2. s \subseteq 1 .. n
      OBVIOUS
    <2> HIDE DEF D
    <2>3. IsFiniteSet(s) /\ Cardinality(s) <= n
      <3> DEFINE d == 1 .. n
      <3> HIDE DEF d
      <3>1. IsFiniteSet(s) /\ Cardinality(s) <= Cardinality(d)
        BY <2>1, <2>2, FS_Subset DEF d
      <3> QED BY <2>1, <3>1 DEF d
    <2>4. Cardinality(s) \in Nat
      BY <2>3, FS_CardinalityType
    <2>5. \A x \in s : Cardinality(s \ {x}) = Cardinality(s) - 1
      BY <2>3, FS_RemoveElement
    <2> QED BY <2>3, <2>4, <2>5
  <1>2. 0 \in K
    <2>1. Upto([s \in D |-> 0], 0)
      BY <1>1
    <2> QED BY <2>1
  <1>3. ASSUME NEW k \in Nat, k \in K PROVE k + 1 \in K
    <2>1. PICK t : Upto(t, k)
      BY <1>3
    <2> DEFINE h == [s \in D |-> IF Cardinality(s) < k + 1 THEN FoldCell(t, q, s) ELSE 0]
    <2>2. \A s \in D : Cardinality(s) < k => h[s] = t[s]
      <3> HIDE DEF D
      <3> QED BY <1>1, <2>1
    <2>3. ASSUME NEW s \in D, Cardinality(s) < k + 1 PROVE FoldCell(h, q, s) = FoldCell(t, q, s)
      <3>1. CASE s = {}
        BY <3>1 DEF FoldCell
      <3>2. CASE s # {}
        <4> DEFINE x == Max(s)
        <4>1. x \in s
          <5>1. s \in SUBSET (0 .. n)
            OBVIOUS
          <5> QED BY <3>2, <5>1, LastPosition
        <4>2. s \ {x} \in D /\ Cardinality(s \ {x}) < k
          <5> HIDE DEF h, x
          <5> QED BY <1>1, <2>3, <4>1
        <4>3. h[s \ {x}] = t[s \ {x}]
          <5> HIDE DEF h, x
          <5> QED BY <2>2, <4>2
        <4> HIDE DEF h
        <4> QED BY <3>2, <4>3 DEF FoldCell
      <3> QED BY <3>1, <3>2
    <2>4. h = [s \in D |-> IF Cardinality(s) < k + 1 THEN FoldCell(h, q, s) ELSE 0]
      <3> DEFINE w == [s \in D |-> IF Cardinality(s) < k + 1 THEN FoldCell(h, q, s) ELSE 0]
      <3>1. \A s \in D : h[s] = w[s]
        BY <2>3
      <3> HIDE DEF D
      <3> QED BY <3>1
    <2> HIDE DEF h
    <2>5. Upto(h, k + 1)
      BY <2>4
    <2>6. k + 1 \in Nat
      OBVIOUS
    <2> HIDE DEF Upto
    <2> QED BY <2>5, <2>6
  <1>4. \A k \in Nat : k \in K
    <2> HIDE DEF K
    <2> QED BY <1>2, <1>3, SetInduction
  <1>5. PICK t : Upto(t, n + 1)
    <2>1. n + 1 \in Nat
      OBVIOUS
    <2>2. n + 1 \in K
      <3> HIDE DEF K
      <3> QED BY <1>4, <2>1
    <2> HIDE DEF Upto
    <2> QED BY <2>2
  <1>6. t = [s \in D |-> FoldCell(t, q, s)]
    <2> DEFINE w == [s \in D |-> FoldCell(t, q, s)]
    <2>1. \A s \in D : t[s] = w[s]
      <3> HIDE DEF D
      <3> QED BY <1>1, <1>5
    <2>2. t = [s \in D |-> t[s]]
      <3> HIDE DEF D
      <3> QED BY <1>5
    <2> HIDE DEF D
    <2> QED BY <2>1, <2>2
  <1> QED BY <1>6 DEF IsFold

\* atoi adds the digits up as the parser does.
LEMMA ValueOfRun ==
    ASSUME NEW s \in Seq(Digits), NEW r, IsRun(r, s), NEW w, r[0] = At(0, FALSE, w)
    PROVE  Value(s) = r[Len(s)].exact
  <1> DEFINE n == Len(s)
             P(t) == IsFold(t, s)
             t == CHOOSE t : P(t)
  <1>1. n \in Nat /\ DOMAIN s = 1 .. n
    OBVIOUS
  <1>2. Value(s) = t[1 .. n]
    <2>1. Value(s) = t[DOMAIN s]
      BY DEF Value, FoldLeft, MapThenFoldSet, IsFold, FoldCell
    <2> HIDE DEF t
    <2> QED BY <1>1, <2>1
  <1>3. IsFold(t, s)
    <2>1. \E f : P(f)
      BY <1>1, FoldExists
    <2>2. P(t)
      <3> HIDE DEF P
      <3> QED BY <2>1
    <2> HIDE DEF t
    <2> QED BY <2>2
  <1> HIDE DEF t
  <1>4. \A d \in SUBSET (1 .. n) : t[d] = FoldCell(t, s, d)
    <2> HIDE DEF n
    <2> QED BY <1>1, <1>3 DEF IsFold
  <1> DEFINE K == {k \in Nat : k <= n => t[1 .. k] = r[k].exact /\ ~r[k].negative
                                          /\ r[k].exact \in Int}
  <1>5. 0 \in K
    <2>1. 1 .. 0 = {} /\ {} \in SUBSET (1 .. n)
      OBVIOUS
    <2>2. t[{}] = 0
      BY <1>4, <2>1 DEF FoldCell
    <2> QED BY <2>1, <2>2 DEF At
  <1>6. ASSUME NEW k \in Nat, k \in K PROVE k + 1 \in K
    <2> SUFFICES ASSUME k + 1 <= n
                 PROVE  /\ t[1 .. k + 1] = r[k + 1].exact /\ ~r[k + 1].negative
                        /\ r[k + 1].exact \in Int
      OBVIOUS
    <2> DEFINE d == 1 .. k + 1
    <2>1. /\ d \in SUBSET (1 .. n) /\ d # {} /\ d \ {k + 1} = 1 .. k /\ k + 1 \in d
          /\ \A x \in d : x <= k + 1 /\ x \in Nat
      BY <1>1
    <2>2. Max(d) = k + 1
      <3>1. Max(d) \in d /\ \A x \in d : x <= Max(d)
        <4>1. d \in SUBSET (0 .. n)
          BY <1>1, <2>1
        <4> HIDE DEF d
        <4> QED BY <1>1, <2>1, <4>1, LastPosition
      <3> HIDE DEF d
      <3> QED BY <2>1, <3>1
    <2>3. t[d] = t[1 .. k] * 10 + s[k + 1] - 48
      <3> HIDE DEF d
      <3> QED BY <1>4, <2>1, <2>2 DEF FoldCell
    <2>4. k + 1 \in 1 .. n /\ (k + 1) - 1 = k /\ s[k + 1] \in Digits
      BY <1>1
    <2>5. r[k + 1] = After(r[k], s[k + 1])
      BY <2>4 DEF IsRun
    <2>6. t[1 .. k] = r[k].exact /\ ~r[k].negative /\ r[k].exact \in Int
      BY <1>6, <1>1
    <2>7. r[k + 1] = At(r[k].exact * 10 + (s[k + 1] - 48), r[k].negative, r[k].values)
      BY <2>4, <2>5, <2>6 DEF After
    <2>8. r[k + 1].exact = r[k].exact * 10 + (s[k + 1] - 48) /\ ~r[k + 1].negative
      BY <2>6, <2>7 DEF At
    <2> HIDE DEF d
    <2>9. /\ r[k].exact * 10 + (s[k + 1] - 48) = r[k].exact * 10 + s[k + 1] - 48
          /\ r[k].exact * 10 + (s[k + 1] - 48) \in Int
      <3> DEFINE e == r[k].exact
                 c == s[k + 1]
      <3>1. e \in Int /\ c \in Int
        BY <2>4, <2>6 DEF Digits
      <3> HIDE DEF e, c
      <3>2. e * 10 + (c - 48) = e * 10 + c - 48 /\ e * 10 + (c - 48) \in Int
        BY <3>1
      <3> QED BY <3>2 DEF e, c
    <2> QED BY <2>3, <2>6, <2>8, <2>9 DEF d
  <1>7. \A k \in Nat : k \in K
    <2> HIDE DEF K
    <2> QED BY <1>5, <1>6, SetInduction
  <1> QED BY <1>1, <1>2, <1>7

-----------------------------------------------------------------------------
(* atoi undoes what str() of Python does to an int.                        *)

\* Where everything behind the sign is a digit, atoi reads all of it.
LEMMA AtoiReadsAll ==
    ASSUME NEW t, NEW g,
           g = IF t # << >> /\ t[1] = Minus THEN 1 ELSE 0,
           {j \in g + 1 .. Len(t) : t[j] \notin Digits} = {}
    PROVE  atoi(t) = IF g = 1 THEN -Value(SubSeq(t, g + 1, Len(t)))
                     ELSE Value(SubSeq(t, g + 1, Len(t)))
  <1>1. SelectInSubSeq(t, g + 1, Len(t), LAMBDA c : c \notin Digits) = 0
    BY DEF SelectInSubSeq
  <1> QED BY <1>1 DEF atoi

\* The value of the digits of a number is the number.
LEMMA ValueOfDigits == \A n \in Nat : Value(DigitsOf[n]) = n
  <1> SUFFICES ASSUME NEW n \in Nat PROVE Value(DigitsOf[n]) = n
    OBVIOUS
  <1> DEFINE s == DigitsOf[n]
             w == << >>
  <1>1. s \in Seq(Digits) /\ FALSE \in BOOLEAN /\ w \in Seq(Int)
    BY DigitsRead
  <1>2. PICK r : IsRun(r, s) /\ r[0] = At(0, FALSE, w) /\ r[Len(s)] = Shown(n, FALSE, w)
    <2> HIDE DEF w
    <2> QED BY <1>1, DigitsRead
  <1> HIDE DEF s, w
  <1>3. Value(s) = r[Len(s)].exact
    BY <1>1, <1>2, ValueOfRun
  <1>4. Shown(n, FALSE, w).exact = n
    BY DEF Shown, At
  <1> QED BY <1>2, <1>3, <1>4 DEF s

\* What is behind the first character.
LEMMA BehindFirst ==
    ASSUME NEW S, NEW d \in Seq(S), NEW a \in S
    PROVE  LET t == <<a>> \o d
           IN  /\ t \in Seq(S) /\ Len(t) = Len(d) + 1 /\ t[1] = a /\ t # << >>
               /\ \A k \in 1 .. Len(d) : t[k + 1] = d[k]
               /\ SubSeq(t, 2, Len(t)) = d
  <1> DEFINE h == <<a>>
             t == h \o d
  <1>1. h \in Seq(S) /\ Len(h) = 1 /\ h[1] = a
    OBVIOUS
  <1> HIDE DEF h
  <1>2. /\ t \in Seq(S) /\ Len(t) = 1 + Len(d) /\ t[1] = a
        /\ \A k \in 1 .. Len(d) : t[1 + k] = d[k]
    <2>1. h \in Seq(S) /\ d \in Seq(S)
      BY <1>1
    <2>2. /\ t \in Seq(S) /\ Len(t) = Len(h) + Len(d)
          /\ \A k \in 1 .. Len(h) : t[k] = h[k]
          /\ \A k \in 1 .. Len(d) : t[Len(h) + k] = d[k]
      BY ONLY <2>1, Concat
    <2> HIDE DEF t
    <2> QED BY <1>1, <2>2
  <1>3. Len(d) \in Nat
    OBVIOUS
  <1> HIDE DEF t
  <1>4. SubSeq(t, 2, Len(t)) = d
    <2> DEFINE e == SubSeq(t, 2, Len(t))
    <2>1. \A k \in 2 .. Len(t) : t[k] \in S
      BY <1>2
    <2>2. Len(t) \in Int /\ 2 \in Int
      BY <1>2
    <2>3. /\ e \in Seq(S) /\ Len(e) = IF 2 <= Len(t) THEN Len(t) - 2 + 1 ELSE 0
          /\ \A k \in 1 .. Len(t) - 2 + 1 : e[k] = t[2 + k - 1]
      BY <2>1, <2>2, SubSeqProperties
    <2> HIDE DEF e
    <2>4. Len(e) = Len(d)
      BY <1>2, <1>3, <2>3
    <2>5. \A k \in 1 .. Len(d) : e[k] = d[k]
      <3> TAKE k \in 1 .. Len(d)
      <3>1. k \in 1 .. Len(t) - 2 + 1 /\ 2 + k - 1 = 1 + k
        BY <1>2, <1>3
      <3> QED BY <1>2, <2>3, <3>1
    <2>6. e = d
      BY <2>3, <2>4, <2>5, SeqEqual
    <2> QED BY <2>6 DEF e
  <1>5. t # << >>
    BY <1>2, <1>3
  <1>6. \A k \in 1 .. Len(d) : t[k + 1] = d[k]
    BY <1>2, <1>3
  <1>7. Len(t) = Len(d) + 1
    BY <1>2, <1>3
  <1> QED BY <1>2, <1>4, <1>5, <1>6, <1>7 DEF t, h

\* An int is written and read again (Number in klee_ir.py, atoi in the driver).
LEMMA AtoiOfDecimal == ASSUME NEW n \in Int PROVE atoi(Decimal(n)) = n
  <1>1. CASE n >= 0
    <2> DEFINE t == DigitsOf[n]
    <2>0. n \in Nat
      BY <1>1
    <2>1. t \in Seq(Digits) /\ Len(t) >= 1
      BY <2>0, DigitsRead
    <2>2. Decimal(n) = t
      BY <2>0, DecimalIs
    <2>3. Value(t) = n
      BY <2>0, ValueOfDigits
    <2> HIDE DEF t
    <2>4. Len(t) \in Nat /\ \A j \in 0 + 1 .. Len(t) : t[j] \in Digits
      BY <2>1
    <2>5. t[1] \in Digits
      BY <2>1, <2>4
    <2>6. 0 = IF t # << >> /\ t[1] = Minus THEN 1 ELSE 0
      BY <2>5 DEF Minus, Digits
    <2>7. atoi(t) = Value(SubSeq(t, 0 + 1, Len(t)))
      BY <2>4, <2>6, AtoiReadsAll
    <2>8. SubSeq(t, 0 + 1, Len(t)) = t
      BY <2>1, SubSeqFull
    <2> QED BY <2>2, <2>3, <2>7, <2>8
  <1>2. CASE n < 0
    <2> DEFINE d == DigitsOf[-n]
               t == <<Minus>> \o d
    <2>0. -n \in Nat
      BY <1>2
    <2>1. d \in Seq(Digits) /\ Len(d) >= 1 /\ d \in Seq(Digits \cup {Minus})
      BY <2>0, DigitsRead
    <2>2. Decimal(n) = t
      BY <1>2, DecimalIs
    <2>3. Value(d) = -n
      BY <2>0, ValueOfDigits
    <2> HIDE DEF d
    <2>4. /\ Len(t) = Len(d) + 1 /\ t[1] = Minus /\ t # << >>
          /\ \A k \in 1 .. Len(d) : t[k + 1] = d[k]
          /\ SubSeq(t, 2, Len(t)) = d
      <3>1. Minus \in Digits \cup {Minus}
        OBVIOUS
      <3> QED BY ONLY <2>1, <3>1, BehindFirst
    <2>5. Len(d) \in Nat /\ \A k \in 1 .. Len(d) : d[k] \in Digits
      BY <2>1
    <2> HIDE DEF t
    <2>6. \A j \in 1 + 1 .. Len(t) : t[j] \in Digits
      <3> TAKE j \in 1 + 1 .. Len(t)
      <3>1. j - 1 \in 1 .. Len(d) /\ (j - 1) + 1 = j
        BY <2>4, <2>5
      <3> QED BY <2>4, <2>5, <3>1
    <2>7. 1 = IF t # << >> /\ t[1] = Minus THEN 1 ELSE 0
      BY <2>4
    <2>8. atoi(t) = -Value(SubSeq(t, 1 + 1, Len(t)))
      BY <2>6, <2>7, AtoiReadsAll
    <2>9. 1 + 1 = 2 /\ -(-n) = n
      OBVIOUS
    <2> QED BY <2>2, <2>3, <2>4, <2>8, <2>9
  <1> QED BY <1>1, <1>2

-----------------------------------------------------------------------------
(* Sequences of texts behind each other (FlattenSeq).                      *)

FlatCell(f, q, j) == IF j = 1 THEN q[j] ELSE f[j - 1] \o q[j]
IsFlat(f, q, n) == f = [j \in 1 .. n |-> FlatCell(f, q, j)]

\* What FlattenSeq chooses exists.
LEMMA FlatExists ==
    ASSUME NEW n \in Nat, NEW q
    PROVE  \E f : IsFlat(f, q, n)
  <1> DEFINE Upto(f, k) == f = [j \in 1 .. n |-> IF j <= k THEN FlatCell(f, q, j) ELSE 0]
             K == {k \in Nat : \E f : Upto(f, k)}
  <1>1. 0 \in K
    <2>1. Upto([j \in 1 .. n |-> 0], 0)
      <3>1. \A j \in 1 .. n : ~(j <= 0)
        OBVIOUS
      <3> QED BY <3>1
    <2> QED BY <2>1
  <1>2. ASSUME NEW k \in Nat, k \in K PROVE k + 1 \in K
    <2>1. PICK f : Upto(f, k)
      BY <1>2
    <2> DEFINE h == [j \in 1 .. n |-> IF j <= k + 1 THEN FlatCell(f, q, j) ELSE 0]
    <2>2. \A j \in 1 .. n : j <= k => h[j] = f[j]
      <3> TAKE j \in 1 .. n
      <3>1. j <= k => j <= k + 1
        OBVIOUS
      <3>2. j <= k => f[j] = FlatCell(f, q, j)
        BY <2>1
      <3> QED BY <3>1, <3>2
    <2>3. ASSUME NEW j \in 1 .. n, j <= k + 1 PROVE FlatCell(h, q, j) = FlatCell(f, q, j)
      <3>1. CASE j = 1
        BY <3>1 DEF FlatCell
      <3>2. CASE j # 1
        <4>1. j - 1 \in 1 .. n /\ j - 1 <= k
          BY <2>3, <3>2
        <4>2. h[j - 1] = f[j - 1]
          <5> HIDE DEF h
          <5> QED BY <2>2, <4>1
        <4> HIDE DEF h
        <4> QED BY <3>2, <4>2 DEF FlatCell
      <3> QED BY <3>1, <3>2
    <2>4. h = [j \in 1 .. n |-> IF j <= k + 1 THEN FlatCell(h, q, j) ELSE 0]
      <3> DEFINE w == [j \in 1 .. n |-> IF j <= k + 1 THEN FlatCell(h, q, j) ELSE 0]
      <3>1. \A j \in 1 .. n : h[j] = w[j]
        BY <2>3
      <3> QED BY <3>1
    <2> HIDE DEF h
    <2>5. Upto(h, k + 1)
      BY <2>4
    <2>6. k + 1 \in Nat
      OBVIOUS
    <2> HIDE DEF Upto
    <2> QED BY <2>5, <2>6
  <1>3. \A k \in Nat : k \in K
    <2> HIDE DEF K
    <2> QED BY <1>1, <1>2, SetInduction
  <1>4. PICK f : Upto(f, n)
    <2>1. n \in K
      <3> HIDE DEF K
      <3> QED BY <1>3
    <2> HIDE DEF Upto
    <2> QED BY <2>1
  <1>5. f = [j \in 1 .. n |-> FlatCell(f, q, j)]
    <2> DEFINE w == [j \in 1 .. n |-> FlatCell(f, q, j)]
    <2>1. f = [j \in 1 .. n |-> IF j <= n THEN FlatCell(f, q, j) ELSE 0]
      BY <1>4
    <2>2. \A j \in 1 .. n : f[j] = w[j]
      BY <2>1
    <2>3. DOMAIN f = 1 .. n /\ f = [j \in 1 .. n |-> f[j]]
      BY <2>1
    <2> QED BY <2>2, <2>3
  <1> QED BY <1>5 DEF IsFlat

\* It grows from text to text.
LEMMA FlatIs ==
    ASSUME NEW n \in Nat \ {0}, NEW q \in Seq(Seq(Nat)), Len(q) = n
    PROVE  \E f : /\ FlattenSeq(q) = f[n] /\ f[1] = q[1]
                  /\ \A j \in 1 .. n : j # 1 => f[j] = f[j - 1] \o q[j]
  <1> DEFINE F(f) == IsFlat(f, q, n)
             f == CHOOSE f : F(f)
  <1>1. F(f)
    <2>1. \E g : F(g)
      BY FlatExists
    <2> HIDE DEF F
    <2> QED BY <2>1
  <1>2. FlattenSeq(q) = f[n]
    <2>1. Len(q) # 0
      OBVIOUS
    <2> QED BY <2>1 DEF FlattenSeq, IsFlat, FlatCell
  <1> HIDE DEF f
  <1>3. \A j \in 1 .. n : f[j] = FlatCell(f, q, j)
    BY <1>1 DEF IsFlat
  <1>4. 1 \in 1 .. n
    OBVIOUS
  <1> QED BY <1>2, <1>3, <1>4 DEF FlatCell

-----------------------------------------------------------------------------
(* A part of a text in which no number has a sign behind a digit and no    *)
(* bracket closes.                                                         *)

Neat(s) == /\ s \in Seq(Nat)
           /\ \A k \in 1 .. Len(s) : s[k] # Close /\ (s[k] = Minus => AtStart(s, k))

\* Such texts behind each other.
LEMMA NeatConcat ==
    ASSUME NEW s, NEW t, Neat(s), Neat(t),
           \/ AtStart(s, Len(s) + 1)
           \/ \A k \in 1 .. Len(t) : t[k] # Minus
           \/ Len(t) >= 1 /\ t[1] \in Ends
    PROVE  Neat(s \o t)
  <1> DEFINE a == Len(s)
             b == Len(t)
             st == s \o t
  <1>1. s \in Seq(Nat) /\ t \in Seq(Nat)
    BY DEF Neat
  <1>2. /\ a \in Nat /\ b \in Nat /\ Len(st) = a + b /\ st \in Seq(Nat)
        /\ \A k \in 1 .. a : st[k] = s[k]
        /\ \A k \in 1 .. b : st[a + k] = t[k]
    <2>1. st \in Seq(Nat) /\ Len(st) = a + b
          /\ (\A k \in 1 .. a : st[k] = s[k]) /\ (\A k \in 1 .. b : st[a + k] = t[k])
      BY ONLY <1>1, Concat
    <2> HIDE DEF st
    <2> QED BY <1>1, <2>1
  <1>3. (\A k \in 1 .. a : s[k] # Close) /\ (\A k \in 1 .. b : t[k] # Close)
        /\ (\A k \in 1 .. a : s[k] = Minus => AtStart(s, k))
        /\ (\A k \in 1 .. b : t[k] = Minus => AtStart(t, k))
    BY DEF Neat
  <1>4. \/ AtStart(s, a + 1)
        \/ \A k \in 1 .. b : t[k] # Minus
        \/ b >= 1 /\ t[1] \in Ends
    OBVIOUS
  <1> HIDE DEF a, b, st
  <1>5. ASSUME NEW k \in 1 .. a + b, k <= a PROVE st[k] # Close /\ (st[k] = Minus => AtStart(st, k))
    <2>1. k \in 1 .. a
      BY <1>2, <1>5
    <2>2. st[k] = s[k]
      BY <1>2, <2>1
    <2>3. AtStart(s, k) => AtStart(st, k)
      <3>1. \A j \in 1 .. k - 1 : j \in 1 .. a /\ \A m \in j .. k - 1 : m \in 1 .. a
        BY <1>2, <2>1
      <3>2. \A j \in 1 .. k - 1 : st[j] = s[j] /\ \A m \in j .. k - 1 : st[m] = s[m]
        BY <1>2, <3>1
      <3> QED BY <3>2 DEF AtStart
    <2> QED BY <1>3, <2>1, <2>2, <2>3
  <1>6. ASSUME NEW k \in 1 .. b PROVE st[a + k] # Close /\ (st[a + k] = Minus => AtStart(st, a + k))
    <2>1. st[a + k] = t[k] /\ t[k] # Close
      BY <1>2, <1>3
    <2> DEFINE c == a + k
    <2>3. /\ c \in Nat /\ c = a + k /\ c - 1 >= a /\ k \in Nat /\ k >= 1
          /\ \A j \in 1 .. c - 1 : j \in Nat
      BY <1>2
    <2> HIDE DEF c
    <2> SUFFICES ASSUME t[k] = Minus PROVE AtStart(st, c)
      BY <2>1 DEF c
    <2>2. ASSUME NEW j \in 1 .. c - 1, st[j] \in Digits
          PROVE  \E m \in j .. c - 1 : st[m] \in Ends
      <3>2. CASE j <= a
        <4>1. j \in 1 .. a
          BY <1>2, <2>2, <2>3, <3>2
        <4>2. st[j] = s[j]
          BY <1>2, <4>1
        <4>3. CASE AtStart(s, a + 1)
          <5>1. (a + 1) - 1 = a
            BY <1>2
          <5>2. PICK m \in j .. a : s[m] \in Ends
            BY <2>2, <4>1, <4>2, <4>3, <5>1 DEF AtStart
          <5>3. m \in 1 .. a /\ m \in j .. c - 1
            BY <1>2, <2>3, <4>1, <5>2
          <5> QED BY <1>2, <5>2, <5>3
        <4>4. CASE b >= 1 /\ t[1] \in Ends
          <5>1. k # 1
            BY <4>4 DEF Ends, Comma, Close, Minus
          <5>2. 1 \in 1 .. b /\ a + 1 \in j .. c - 1
            BY <1>2, <2>3, <4>1, <4>4, <5>1
          <5>3. st[a + 1] = t[1]
            BY <1>2, <5>2
          <5> QED BY <4>4, <5>2, <5>3
        <4> QED BY <1>4, <4>3, <4>4
      <3>3. CASE ~(j <= a)
        <4> DEFINE i0 == j - a
        <4>1. i0 \in 1 .. k - 1 /\ i0 \in 1 .. b /\ j = a + i0
          BY <1>2, <2>2, <2>3, <3>3
        <4> HIDE DEF i0
        <4>2. t[i0] \in Digits
          BY <1>2, <2>2, <4>1
        <4>3. PICK m \in i0 .. k - 1 : t[m] \in Ends
          BY <1>3, <4>1, <4>2 DEF AtStart
        <4>4. m \in 1 .. b /\ a + m \in j .. c - 1
          BY <1>2, <2>3, <4>1, <4>3
        <4>5. st[a + m] = t[m]
          BY <1>2, <4>4
        <4> QED BY <4>3, <4>4, <4>5
      <3> QED BY <3>2, <3>3
    <2> QED BY <2>2 DEF AtStart
  <1>7. \A k \in 1 .. a + b : k <= a \/ \E j \in 1 .. b : k = a + j
    <2> TAKE k \in 1 .. a + b
    <2> SUFFICES ASSUME ~(k <= a) PROVE \E j \in 1 .. b : k = a + j
      OBVIOUS
    <2>1. k - a \in 1 .. b /\ k = a + (k - a)
      BY <1>2
    <2> QED BY <2>1
  <1>8. ASSUME NEW k \in 1 .. Len(st) PROVE st[k] # Close /\ (st[k] = Minus => AtStart(st, k))
    <2>1. k \in 1 .. a + b
      BY <1>2
    <2>2. CASE k <= a
      BY <1>5, <2>1, <2>2
    <2>3. CASE \E j \in 1 .. b : k = a + j
      <3>1. PICK j \in 1 .. b : k = a + j
        BY <2>3
      <3> QED BY <1>6, <3>1
    <2> QED BY <1>7, <2>1, <2>2, <2>3
  <1> QED BY <1>2, <1>8 DEF Neat, st

\* A text without signs or brackets that close.
LEMMA NeatPlain ==
    ASSUME NEW s \in Seq(Nat), \A k \in 1 .. Len(s) : s[k] # Close /\ s[k] # Minus
    PROVE  Neat(s)
  BY DEF Neat

-----------------------------------------------------------------------------
(* The list of a test case, as the parser reads it.                        *)

\* The state after a number of the list.
Held(n, w) == At(n, n < 0, w)

\* The states are of their type.
LEMMA AtType == \A e \in Int, g \in BOOLEAN, w \in Seq(Int) : At(e, g, w) \in State
  BY DEF At, State

\* The text of a number is neat, and leads to the number.
LEMMA DecimalLeads ==
    ASSUME NEW n \in Int
    PROVE  /\ Neat(Decimal(n)) /\ Len(Decimal(n)) >= 1
           /\ \A k \in 1 .. Len(Decimal(n)) : Decimal(n)[k] \in Digits \cup {Minus}
           /\ \A w \in Seq(Int) : Leads(Decimal(n), At(0, FALSE, w), Held(n, w))
  <1>1. \A m \in Nat : /\ DigitsOf[m] \in Seq(Nat) /\ Neat(DigitsOf[m]) /\ Len(DigitsOf[m]) >= 1
                       /\ \A k \in 1 .. Len(DigitsOf[m]) : DigitsOf[m][k] \in Digits
                       /\ \A k \in 1 .. Len(DigitsOf[m]) : DigitsOf[m][k] # Minus
    <2> TAKE m \in Nat
    <2> DEFINE d == DigitsOf[m]
    <2>1. d \in Seq(Digits) /\ Len(d) >= 1
      BY DigitsRead
    <2> HIDE DEF d
    <2>2. \A k \in 1 .. Len(d) : d[k] \in Digits
      BY <2>1
    <2>3. Digits \subseteq Nat /\ Close \notin Digits /\ Minus \notin Digits
      BY DEF Digits, Close, Minus
    <2>4. d \in Seq(Nat)
      BY <2>1, <2>3, SeqMonotonic
    <2>5. \A k \in 1 .. Len(d) : d[k] # Close /\ d[k] # Minus
      BY <2>2, <2>3
    <2>6. Neat(d)
      BY <2>4, <2>5, NeatPlain
    <2> QED BY <2>1, <2>2, <2>4, <2>5, <2>6 DEF d
  <1>2. \A m \in Nat, g \in BOOLEAN, w \in Seq(Int) :
            Leads(DigitsOf[m], At(0, g, w), Shown(m, g, w))
    BY DigitsRead DEF Leads
  <1>3. CASE n >= 0
    <2>1. n \in Nat /\ Decimal(n) = DigitsOf[n] /\ FALSE \in BOOLEAN
      BY <1>3, DecimalIs
    <2>2. \A w \in Seq(Int) : Leads(DigitsOf[n], At(0, FALSE, w), Shown(n, FALSE, w))
      BY <1>2, <2>1
    <2>3. \A w : Shown(n, FALSE, w) = Held(n, w)
      <3>1. (n < 0) = FALSE
        BY <1>3
      <3> QED BY <3>1 DEF Shown, Held
    <2> QED BY <1>1, <2>1, <2>2, <2>3
  <1>4. CASE n < 0
    <2> DEFINE h == <<Minus>>
               d == DigitsOf[-n]
    <2>1. -n \in Nat /\ Decimal(n) = h \o d /\ TRUE \in BOOLEAN /\ FALSE \in BOOLEAN /\ 0 \in Int
      BY <1>4, DecimalIs
    <2>2. /\ d \in Seq(Nat) /\ Neat(d) /\ Len(d) >= 1
          /\ (\A k \in 1 .. Len(d) : d[k] \in Digits) /\ (\A k \in 1 .. Len(d) : d[k] # Minus)
      BY <1>1, <2>1
    <2>3. h \in Seq(Nat) /\ Len(h) = 1 /\ h[1] = Minus /\ Minus \in Nat
      BY DEF Minus
    <2>4. ASSUME NEW w \in Seq(Int) PROVE Leads(h \o d, At(0, FALSE, w), Held(n, w))
      <3>1. Leads(h, At(0, FALSE, w), At(0, TRUE, w))
        <4>1. At(0, FALSE, w) \in State
          BY <2>1, AtType
        <4>2. After(At(0, FALSE, w), Minus) = At(0, TRUE, w)
          BY DEF After, At, Minus, Digits
        <4> QED BY <2>3, <4>1, <4>2, LeadsOne
      <3>2. Leads(d, At(0, TRUE, w), Held(n, w))
        <4>1. Leads(d, At(0, TRUE, w), Shown(-n, TRUE, w))
          BY <1>2, <2>1
        <4>2. (n < 0) = TRUE /\ -(-n) = n
          BY <1>4
        <4> QED BY <4>1, <4>2 DEF Shown, Held
      <3> HIDE DEF h, d
      <3> QED BY <2>2, <2>3, <3>1, <3>2, LeadsConcat
    <2> HIDE DEF h, d
    <2>5. Neat(h)
      <3>1. \A k \in 1 .. 1 : k = 1
        OBVIOUS
      <3>2. AtStart(h, 1)
        BY DEF AtStart
      <3>3. Minus # Close
        BY DEF Minus, Close
      <3> QED BY <2>3, <3>1, <3>2, <3>3 DEF Neat
    <2>6. Neat(h \o d)
      BY <2>2, <2>5, NeatConcat
    <2>7. Len(h \o d) >= 1 /\ \A k \in 1 .. Len(h \o d) : (h \o d)[k] \in Digits \cup {Minus}
      <3> DEFINE t == h \o d
      <3>1. /\ Len(t) = Len(h) + Len(d)
            /\ (\A k \in 1 .. Len(h) : t[k] = h[k]) /\ (\A k \in 1 .. Len(d) : t[Len(h) + k] = d[k])
        <4>1. h \in Seq(Nat) /\ d \in Seq(Nat)
          BY <2>2, <2>3
        <4> QED BY ONLY <4>1, Concat
      <3>2. Len(d) \in Nat
        BY <2>2
      <3> HIDE DEF t
      <3>3. ASSUME NEW k \in 1 .. Len(t) PROVE t[k] \in Digits \cup {Minus}
        <4>1. CASE k = 1
          BY <2>3, <3>1, <4>1
        <4>2. CASE k # 1
          <5>1. k - 1 \in 1 .. Len(d) /\ 1 + (k - 1) = k
            BY <2>3, <3>1, <3>2, <4>2
          <5>2. t[k] = d[k - 1]
            <6> DEFINE j == k - 1
            <6> HIDE DEF j
            <6>1. j \in 1 .. Len(d) /\ 1 + j = k
              BY <5>1 DEF j
            <6>2. t[k] = d[j]
              BY <2>3, <3>1, <6>1
            <6> QED BY <6>2 DEF j
          <5> QED BY <2>2, <5>1, <5>2
        <4> QED BY <4>1, <4>2
      <3>4. Len(t) >= 1
        BY <2>2, <2>3, <3>1, <3>2
      <3> QED BY <3>3, <3>4 DEF t
    <2> DEFINE t == h \o d
    <2>8. \A w \in Seq(Int) : Leads(t, At(0, FALSE, w), Held(n, w))
      BY <2>4
    <2>9. Neat(t) /\ Len(t) >= 1 /\ \A k \in 1 .. Len(t) : t[k] \in Digits \cup {Minus}
      BY <2>6, <2>7
    <2>10. Decimal(n) = t
      BY <2>1
    <2> HIDE DEF t
    <2> QED BY <2>8, <2>9, <2>10
  <1>5. n >= 0 \/ n < 0
    OBVIOUS
  <1> QED BY <1>3, <1>4, <1>5, Zenon

\* And the next number, with what comes before it in the list.
LEMMA PieceLeads ==
    ASSUME NEW n \in Int
    PROVE  LET t == <<Comma, Blank>> \o Decimal(n)
           IN  /\ Neat(t) /\ Len(t) >= 1 /\ t[1] \in Ends
               /\ \A m \in Int, w \in Seq(Int) : Leads(t, Held(m, w), Held(n, Append(w, m)))
  <1> DEFINE h == <<Comma, Blank>>
             d == Decimal(n)
             t == h \o d
  <1>1. /\ h \in Seq(Nat) /\ Len(h) = 2 /\ h[1] = Comma /\ h[2] = Blank
        /\ Comma \in Nat /\ Blank \in Nat
    BY DEF Comma, Blank
  <1>2. /\ d \in Seq(Nat) /\ Neat(d) /\ Len(d) >= 1
        /\ \A w \in Seq(Int) : Leads(d, At(0, FALSE, w), Held(n, w))
    BY DecimalLeads DEF Neat
  <1>3. h = <<Comma>> \o <<Blank>>
    OBVIOUS
  <1>4. ASSUME NEW m \in Int, NEW w \in Seq(Int)
        PROVE  Leads(h, Held(m, w), At(0, FALSE, Append(w, m)))
    <2> DEFINE x == Held(m, w)
               y == At(0, FALSE, Append(w, m))
               c == <<Comma>>
               b == <<Blank>>
    <2>1. Append(w, m) \in Seq(Int) /\ 0 \in Int /\ FALSE \in BOOLEAN /\ (m < 0) \in BOOLEAN
      BY AppendProperties
    <2>2. x \in State /\ y \in State
      <3> HIDE DEF y
      <3>1. y \in State
        BY <2>1, AtType DEF y
      <3>2. x \in State
        BY <2>1, AtType DEF Held
      <3> QED BY <3>1, <3>2
    <2>3. After(x, Comma) = y
      BY DEF After, Held, At, Comma, Digits, Minus, Ends
    <2>4. After(y, Blank) = y
      BY DEF After, Blank, Digits, Minus, Ends, Comma, Close
    <2> HIDE DEF x, y
    <2>5. Leads(c, x, y) /\ Leads(b, y, y)
      BY <1>1, <2>2, <2>3, <2>4, LeadsOne
    <2>6. c \in Seq(Nat) /\ b \in Seq(Nat)
      BY <1>1
    <2> HIDE DEF c, b
    <2>7. Leads(c \o b, x, y)
      BY <2>5, <2>6, LeadsConcat
    <2> QED BY <1>3, <2>7 DEF x, y, c, b
  <1>5. Neat(h)
    <2>1. \A k \in 1 .. 2 : k = 1 \/ k = 2
      OBVIOUS
    <2>2. Comma # Close /\ Comma # Minus /\ Blank # Close /\ Blank # Minus
      BY DEF Comma, Close, Minus, Blank
    <2>3. \A k \in 1 .. Len(h) : h[k] # Close /\ h[k] # Minus
      BY <1>1, <2>1, <2>2
    <2> HIDE DEF h
    <2> QED BY <1>1, <2>3, NeatPlain
  <1> HIDE DEF h, d
  <1>6. AtStart(h, Len(h) + 1)
    <2>1. \A j \in 1 .. (2 + 1) - 1 : h[j] \in Digits => j = 1
      <3>1. Blank \notin Digits
        BY DEF Blank, Digits
      <3>2. \A j \in 1 .. (2 + 1) - 1 : j = 1 \/ j = 2
        OBVIOUS
      <3> QED BY <1>1, <3>1, <3>2
    <2>2. h[1] \notin Digits
      BY <1>1 DEF Comma, Digits
    <2> QED BY <1>1, <2>1, <2>2 DEF AtStart
  <1>7. Neat(t)
    BY <1>2, <1>5, <1>6, NeatConcat
  <1>8. Len(t) >= 1 /\ t[1] \in Ends
    <2>1. /\ Len(t) = Len(h) + Len(d) /\ \A k \in 1 .. Len(h) : t[k] = h[k]
      <3>1. h \in Seq(Nat) /\ d \in Seq(Nat)
        BY <1>1, <1>2
      <3> QED BY ONLY <3>1, Concat
    <2>2. Len(d) \in Nat /\ 1 \in 1 .. 2
      BY <1>2
    <2> HIDE DEF t
    <2> QED BY <1>1, <2>1, <2>2 DEF Ends
  <1>9. ASSUME NEW m \in Int, NEW w \in Seq(Int) PROVE Leads(t, Held(m, w), Held(n, Append(w, m)))
    <2> DEFINE v == Append(w, m)
    <2>1. v \in Seq(Int)
      BY AppendProperties
    <2>2. Leads(h, Held(m, w), At(0, FALSE, v))
      BY <1>4
    <2>3. Leads(d, At(0, FALSE, v), Held(n, v))
      BY <1>2, <2>1
    <2> HIDE DEF v
    <2>4. Leads(h \o d, Held(m, w), Held(n, v))
      BY <1>1, <1>2, <2>2, <2>3, LeadsConcat
    <2> QED BY <2>4 DEF v
  <1> QED BY <1>7, <1>8, <1>9 DEF t, h, d

\* A number with what separates it from the one before, and the first k numbers.
Behind(q, k) == (IF k = 1 THEN << >> ELSE <<Comma, Blank>>) \o Decimal(q[k])
Leading(q, k) == [j \in 1 .. k |-> q[j]]

\* The first numbers of a list.
LEMMA LeadingIs ==
    ASSUME NEW n \in Nat, NEW q \in [1 .. n -> Int], NEW k \in 1 .. n
    PROVE  /\ Leading(q, k - 1) \in Seq(Int) /\ q[k] \in Int
           /\ Append(Leading(q, k - 1), q[k]) = Leading(q, k)
           /\ Leading(q, 0) = << >> /\ Leading(q, n) = q
  <1>1. k - 1 \in Nat /\ k \in Nat /\ q[k] \in Int
    OBVIOUS
  <1>2. \A m \in 0 .. n : Leading(q, m) \in [1 .. m -> Int]
    BY DEF Leading
  <1>3. \A m \in 0 .. n : Leading(q, m) \in Seq(Int) /\ Len(Leading(q, m)) = m
    BY <1>2
  <1>4. Leading(q, 0) = << >>
    BY DEF Leading
  <1>5. Leading(q, n) = q
    BY DEF Leading
  <1>6. Append(Leading(q, k - 1), q[k]) = Leading(q, k)
    <2> DEFINE a == Leading(q, k - 1)
               b == Leading(q, k)
               c == Append(a, q[k])
    <2>1. a \in Seq(Int) /\ Len(a) = k - 1 /\ b \in Seq(Int) /\ Len(b) = k
      BY <1>3
    <2>2. (\A j \in 1 .. k - 1 : a[j] = q[j]) /\ (\A j \in 1 .. k : b[j] = q[j])
      BY DEF Leading
    <2> HIDE DEF a, b
    <2>3. c \in Seq(Int) /\ Len(c) = k /\ c[k] = q[k] /\ \A j \in 1 .. k - 1 : c[j] = a[j]
      BY <1>1, <2>1, AppendProperties
    <2> HIDE DEF c
    <2>4. \A j \in 1 .. Len(c) : c[j] = b[j]
      BY <2>1, <2>2, <2>3
    <2>5. c = b
      BY <2>1, <2>3, <2>4, SeqEqual
    <2> QED BY <2>5 DEF c, a, b
  <1> QED BY <1>1, <1>3, <1>4, <1>5, <1>6

\* The text of a list without its brackets.
LEMMA InsideLeads ==
    ASSUME NEW n \in Nat \ {0}, NEW q \in [1 .. n -> Int]
    PROVE  LET t == FlattenSeq([k \in DOMAIN q |-> Behind(q, k)])
           IN  Neat(t) /\ Leads(t, At(0, FALSE, << >>), Held(q[n], Leading(q, n - 1)))
  <1> DEFINE p == [k \in 1 .. n |-> Behind(q, k)]
             x == At(0, FALSE, << >>)
  <1>1. DOMAIN q = 1 .. n /\ \A k \in 1 .. n : q[k] \in Int
    OBVIOUS
  <1>2. p[1] = Decimal(q[1]) /\ 1 \in 1 .. n
    <2>1. 1 \in 1 .. n
      OBVIOUS
    <2>2. Decimal(q[1]) \in Seq(Nat)
      BY <1>1, <2>1, DecimalLeads DEF Neat
    <2>3. << >> \o Decimal(q[1]) = Decimal(q[1])
      BY <2>2, ConcatEmptySeq
    <2> QED BY <2>1, <2>3 DEF Behind
  <1>3. \A k \in 1 .. n : k # 1 => p[k] = <<Comma, Blank>> \o Decimal(q[k])
    BY DEF Behind
  <1>4. \A k \in 1 .. n : p[k] \in Seq(Nat)
    <2> TAKE k \in 1 .. n
    <2> HIDE DEF p
    <2>1. q[k] \in Int
      BY <1>1
    <2>2. CASE k = 1
      BY <1>2, <2>1, <2>2, DecimalLeads DEF Neat
    <2>3. CASE k # 1
      BY <1>3, <2>1, <2>3, PieceLeads DEF Neat
    <2> QED BY <2>2, <2>3
  <1>5. p \in Seq(Seq(Nat)) /\ Len(p) = n
    <2>1. p \in [1 .. n -> Seq(Nat)]
      BY <1>4
    <2> HIDE DEF p
    <2> QED BY <2>1
  <1> HIDE DEF p, x
  <1>6. PICK f : /\ FlattenSeq(p) = f[n] /\ f[1] = p[1]
                 /\ \A j \in 1 .. n : j # 1 => f[j] = f[j - 1] \o p[j]
    BY <1>5, FlatIs
  <1> DEFINE Good(k) == Neat(f[k]) /\ Leads(f[k], x, Held(q[k], Leading(q, k - 1)))
             K == {k \in Nat : k + 1 <= n => Good(k + 1)}
  <1>7. 0 \in K
    <2>1. Decimal(q[1]) = f[1] /\ q[1] \in Int
      BY <1>1, <1>2, <1>6
    <2>2. << >> \in Seq(Int) /\ Leading(q, 1 - 1) = << >>
      BY DEF Leading
    <2>3. Good(1)
      <3> DEFINE w == << >>
      <3>1. w \in Seq(Int) /\ Leading(q, 1 - 1) = w /\ x = At(0, FALSE, w)
        BY <2>2 DEF x
      <3> HIDE DEF w
      <3>2. Neat(Decimal(q[1])) /\ Leads(Decimal(q[1]), At(0, FALSE, w), Held(q[1], w))
        BY <2>1, <3>1, DecimalLeads
      <3> QED BY <2>1, <3>1, <3>2
    <2> HIDE DEF Good
    <2>4. 0 + 1 = 1 /\ 0 \in Nat
      OBVIOUS
    <2> QED BY <2>3, <2>4
  <1>8. ASSUME NEW k \in Nat, k \in K PROVE k + 1 \in K
    <2> DEFINE i0 == k + 1
               i1 == i0 + 1
    <2> SUFFICES ASSUME i1 <= n PROVE Good(i1)
      OBVIOUS
    <2>1. /\ i0 \in 1 .. n /\ i1 \in 1 .. n /\ i1 # 1 /\ i1 - 1 = i0 /\ i0 <= n
          /\ i1 \in Nat
      OBVIOUS
    <2>2. Good(i0)
      BY <1>8, <2>1
    <2> HIDE DEF i0, i1
    <2>3. f[i1] = f[i0] \o p[i1] /\ p[i1] = <<Comma, Blank>> \o Decimal(q[i1])
      BY <1>3, <1>6, <2>1
    <2>4. q[i0] \in Int /\ q[i1] \in Int
      BY <1>1, <2>1
    <2> DEFINE w == Leading(q, i0 - 1)
               t == p[i1]
    <2>5. w \in Seq(Int) /\ Append(w, q[i0]) = Leading(q, i1 - 1)
      BY <2>1, LeadingIs
    <2>6. /\ Neat(t) /\ Len(t) >= 1 /\ t[1] \in Ends
          /\ \A m \in Int, v \in Seq(Int) : Leads(t, Held(m, v), Held(q[i1], Append(v, m)))
      BY <2>3, <2>4, PieceLeads
    <2>7. Neat(f[i0]) /\ Leads(f[i0], x, Held(q[i0], w))
      BY <2>2
    <2>8. Leads(t, Held(q[i0], w), Held(q[i1], Append(w, q[i0])))
      BY <2>4, <2>5, <2>6
    <2> HIDE DEF w, t
    <2> DEFINE s == f[i0]
               y == Held(q[i0], w)
               z == Held(q[i1], Append(w, q[i0]))
    <2>9. Neat(s) /\ Leads(s, x, y) /\ Leads(t, y, z)
      BY <2>7, <2>8
    <2> HIDE DEF s, y, z
    <2>10. Neat(s \o t)
      BY <2>6, <2>9, NeatConcat
    <2>11. Leads(s \o t, x, z)
      <3>1. s \in Seq(Nat) /\ t \in Seq(Nat)
        BY <2>6, <2>9 DEF Neat
      <3> QED BY <2>9, <3>1, LeadsConcat
    <2>12. f[i1] = s \o t /\ z = Held(q[i1], Leading(q, i1 - 1))
      BY <2>3, <2>5 DEF s, t, z
    <2> QED BY <2>10, <2>11, <2>12
  <1>9. Good(n)
    <2>1. \A k \in Nat : k \in K
      <3> HIDE DEF K
      <3> QED BY <1>7, <1>8, SetInduction
    <2>2. n - 1 \in Nat /\ (n - 1) + 1 = n
      OBVIOUS
    <2> HIDE DEF Good
    <2>3. (n - 1) + 1 <= n => Good((n - 1) + 1)
      BY <2>1, <2>2
    <2> QED BY <2>2, <2>3
  <1>10. [k \in DOMAIN q |-> Behind(q, k)] = p
    BY <1>1 DEF p
  <1> QED BY <1>6, <1>9, <1>10 DEF x

(* What the script writes of an array is a text as the parser expects it,  *)
(* and leads it to the numbers of the array (List in klee_ir.py,           *)
(* parse_string_to_array in the driver).                                   *)
LEMMA ListLeads ==
    ASSUME NEW n \in Nat \ {0}, NEW q \in [1 .. n -> Int]
    PROVE  /\ ListText(q) \in Seq(Nat) /\ Formed(ListText(q))
           /\ Leads(ListText(q), At(0, FALSE, << >>), At(0, FALSE, q))
  <1> DEFINE o == <<Open>>
             t == FlattenSeq([k \in DOMAIN q |-> Behind(q, k)])
             c == <<Close>>
             x == At(0, FALSE, << >>)
             y == Held(q[n], Leading(q, n - 1))
             z == At(0, FALSE, q)
             ot == o \o t
  <1>1. ListText(q) = ot \o c
    BY DEF ListText, Behind
  <1>2. o \in Seq(Nat) /\ Len(o) = 1 /\ o[1] = Open /\ Open \in Nat
    BY DEF Open
  <1>3. c \in Seq(Nat) /\ Len(c) = 1 /\ c[1] = Close /\ Close \in Nat
    BY DEF Close
  <1>4. Neat(t) /\ Leads(t, x, y)
    BY InsideLeads
  <1>5. /\ q[n] \in Int /\ Leading(q, n - 1) \in Seq(Int)
        /\ Append(Leading(q, n - 1), q[n]) = q /\ q \in Seq(Int)
    <2>1. n \in 1 .. n /\ n \in Nat
      OBVIOUS
    <2>2. q \in Seq(Int)
      OBVIOUS
    <2>3. /\ Leading(q, n - 1) \in Seq(Int) /\ q[n] \in Int
          /\ Append(Leading(q, n - 1), q[n]) = Leading(q, n) /\ Leading(q, n) = q
      BY <2>1, LeadingIs
    <2> QED BY <2>2, <2>3
  <1>6. x \in State /\ y \in State
    <2>1. (q[n] < 0) \in BOOLEAN /\ FALSE \in BOOLEAN /\ 0 \in Int /\ << >> \in Seq(Int)
      OBVIOUS
    <2>2. x \in State
      BY <2>1, AtType
    <2>3. y \in State
      BY <1>5, <2>1, AtType DEF Held
    <2> QED BY <2>2, <2>3
  <1>7. Leads(o, x, x)
    <2>1. After(x, Open) = x
      BY DEF After, Open, Digits, Minus, Ends, Comma, Close
    <2> HIDE DEF x
    <2> QED BY <1>2, <1>6, <2>1, LeadsOne
  <1>8. Leads(c, y, z)
    <2>1. After(y, Close) = z
      <3>1. After(y, Close) = At(0, FALSE, Append(y.values, y.exact))
        <4>1. Close \notin Digits /\ Close # Minus /\ Close \in Ends
          BY DEF Close, Digits, Minus, Ends
        <4> QED BY <4>1 DEF After
      <3>2. y.values = Leading(q, n - 1) /\ y.exact = q[n]
        BY DEF Held, At
      <3> QED BY <1>5, <3>1, <3>2
    <2> HIDE DEF y, z
    <2> QED BY <1>3, <1>6, <2>1, LeadsOne
  <1> HIDE DEF o, t, c, x, y, z
  <1>9. t \in Seq(Nat)
    BY <1>4 DEF Neat
  <1>10. Neat(o)
    <2>1. \A k \in 1 .. Len(o) : o[k] # Close /\ o[k] # Minus
      <3>1. Open # Close /\ Open # Minus /\ \A k \in 1 .. 1 : k = 1
        BY DEF Open, Close, Minus
      <3> QED BY <1>2, <3>1
    <2> QED BY <1>2, <2>1, NeatPlain
  <1>11. AtStart(o, Len(o) + 1)
    <2>1. \A j \in 1 .. (1 + 1) - 1 : o[j] \notin Digits
      <3>1. \A j \in 1 .. (1 + 1) - 1 : j = 1
        OBVIOUS
      <3>2. Open \notin Digits
        BY DEF Open, Digits
      <3> QED BY <1>2, <3>1, <3>2
    <2> QED BY <1>2, <2>1 DEF AtStart
  <1>12. Neat(ot) /\ ot \in Seq(Nat)
    <2>1. Neat(ot)
      BY <1>4, <1>10, <1>11, NeatConcat
    <2> QED BY <2>1 DEF Neat
  <1>13. Leads(ot, x, y)
    BY <1>2, <1>4, <1>7, <1>9, LeadsConcat
  <1>14. Len(ot) \in Nat /\ Len(ot) >= 1
    <2>1. Len(ot) = Len(o) + Len(t)
      BY ONLY <1>2, <1>9, Concat
    <2>2. Len(t) \in Nat
      BY <1>9
    <2> HIDE DEF ot
    <2> QED BY <1>2, <2>1, <2>2
  <1> HIDE DEF ot
  <1> DEFINE s == ot \o c
  <1>15. Leads(s, x, z)
    BY <1>3, <1>8, <1>12, <1>13, LeadsConcat
  <1>16. /\ s \in Seq(Nat) /\ Len(s) = Len(ot) + Len(c)
         /\ \A k \in 1 .. Len(ot) : s[k] = ot[k]
         /\ \A k \in 1 .. Len(c) : s[Len(ot) + k] = c[k]
    <2>1. ot \in Seq(Nat) /\ c \in Seq(Nat)
      BY <1>3, <1>12
    <2> QED BY ONLY <2>1, Concat
  <1> HIDE DEF s
  <1>17. Formed(s)
    <2>1. Len(s) = Len(ot) + 1 /\ s[Len(ot) + 1] = Close
      BY <1>3, <1>16
    <2>2. ASSUME NEW k \in 1 .. Len(ot)
          PROVE  s[k] # Close /\ (s[k] = Minus => AtStart(s, k))
      <3>1. s[k] = ot[k] /\ ot[k] # Close /\ (ot[k] = Minus => AtStart(ot, k))
        BY <1>12, <1>16 DEF Neat
      <3>2. AtStart(ot, k) => AtStart(s, k)
        <4>1. \A j \in 1 .. k - 1 : j \in 1 .. Len(ot) /\ \A m \in j .. k - 1 : m \in 1 .. Len(ot)
          BY <1>14
        <4>2. \A j \in 1 .. k - 1 : s[j] = ot[j] /\ \A m \in j .. k - 1 : s[m] = ot[m]
          BY <1>16, <4>1
        <4> QED BY <4>2 DEF AtStart
      <3> QED BY <3>1, <3>2
    <2>3. \A k \in 1 .. Len(s) : k \in 1 .. Len(ot) \/ k = Len(ot) + 1
      BY <1>14, <2>1
    <2>4. Len(ot) + 1 >= 2 /\ \A k \in 1 .. Len(ot) : k # Len(ot) + 1
      BY <1>14
    <2>5. Close # Minus
      BY DEF Close, Minus
    <2> QED BY <2>1, <2>2, <2>3, <2>4, <2>5 DEF Formed
  <1> QED BY <1>1, <1>15, <1>16, <1>17 DEF s, x, z

-----------------------------------------------------------------------------
(* The arguments that need no parser.                                      *)

\* What the script makes of the types of a driver.
LEMMA ToDict ==
    ASSUME NEW d
    PROVE  /\ to_dict(<<"int">>, d) = Decimal(Signed(d))
           /\ to_dict(<<"uint32_t">>, d) = Decimal(Signed(d))
           /\ to_dict(<<"int", "*">>, d) = ListText([k \in DOMAIN d |-> Signed(d[k])])
           /\ to_dict(<<"char">>, d) = Utf8(d)
           /\ to_dict(<<"char", "*">>, d) =
                 IF ToSet(d) \subseteq Ascii /\ KLEE_ARRAY_SIZE % 4 # 0
                 THEN Trimmed(d) ELSE ListText(Chunks(d))
  BY DEF to_dict, Number

\* The same for what is compared in the end.
LEMMA SameIs ==
    ASSUME NEW d, NEW v
    PROVE  /\ Same(<<"int">>, d, v) <=> v = Signed(d)
           /\ Same(<<"uint32_t">>, d, v) <=> v = d
           /\ Same(<<"int", "*">>, d, v) <=> v = [k \in DOMAIN d |-> Signed(d[k])]
           /\ Same(<<"char">>, d, v) <=> v = d
           /\ Same(<<"char", "*">>, d, v) <=> CString(v) = CString(d)
           /\ Lost(<<"uint32_t">>, d) <=> d > INT_MAX
           /\ Lost(<<"char">>, d) <=> d \notin Ascii \ Quoted
           /\ Lost(<<"char", "*">>, d) <=> \/ KLEE_ARRAY_SIZE % 4 = 0
                                           \/ ~ToSet(Trimmed(d)) \subseteq Ascii \ Quoted
  BY DEF Same, Lost

\* The four bytes of an int with their sign.
LEMMA SignedType == \A d \in 0 .. UINT32_MAX : /\ Signed(d) \in INT_MIN .. INT_MAX
                                               /\ d <= INT_MAX => Signed(d) = d
  BY ParserAssumption DEF Signed, INT_MIN, UINT32_MAX

\* The numbers of an array with their signs.
LEMMA SignedArray ==
    ASSUME NEW d \in Arrays
    PROVE  /\ KLEE_ARRAY_SIZE \in Nat \ {0} /\ DOMAIN d = 1 .. KLEE_ARRAY_SIZE
           /\ [k \in DOMAIN d |-> Signed(d[k])] \in [1 .. KLEE_ARRAY_SIZE -> INT_MIN .. INT_MAX]
           /\ [k \in DOMAIN d |-> Signed(d[k])] \in [1 .. KLEE_ARRAY_SIZE -> Int]
  <1> DEFINE n == KLEE_ARRAY_SIZE
  <1>1. n \in Nat \ {0} /\ d \in [1 .. n -> Ints] /\ Ints \subseteq 0 .. UINT32_MAX
    BY DriversAssumption
  <1>2. DOMAIN d = 1 .. n
    BY <1>1
  <1>3. \A k \in 1 .. n : Signed(d[k]) \in INT_MIN .. INT_MAX
    BY <1>1, SignedType
  <1>4. \A k \in 1 .. n : Signed(d[k]) \in Int
    BY <1>3, Limits
  <1> QED BY <1>1, <1>2, <1>3, <1>4

\* Texts for parse_string_to_array and atou.
TextsFormed ==
    /\ \A data \in Uints : to_dict(<<"uint32_t">>, data) \in Seq(Nat)
    /\ \A data \in Arrays : LET text == to_dict(<<"int", "*">>, data)
                            IN  text \in Seq(Nat) /\ Formed(text)

(* What the script writes for the parser is text as the parser expects it, *)
(* whatever KLEE has found (to_dict in klee_ir.py).                        *)
LEMMA TextsAreFormed == TextsFormed
  <1>1. ASSUME NEW d \in Uints PROVE to_dict(<<"uint32_t">>, d) \in Seq(Nat)
    <2>1. Signed(d) \in Int
      BY SignedType, DriversAssumption, Limits
    <2> QED BY <2>1, ToDict, DecimalLeads DEF Neat
  <1>2. ASSUME NEW d \in Arrays
        PROVE  LET text == to_dict(<<"int", "*">>, d) IN text \in Seq(Nat) /\ Formed(text)
    <2> DEFINE q == [k \in DOMAIN d |-> Signed(d[k])]
    <2>1. to_dict(<<"int", "*">>, d) = ListText(q)
      BY ToDict
    <2>2. KLEE_ARRAY_SIZE \in Nat \ {0} /\ q \in [1 .. KLEE_ARRAY_SIZE -> Int]
      BY SignedArray
    <2> HIDE DEF q
    <2> QED BY <2>1, <2>2, ListLeads
  <1> QED BY <1>1, <1>2 DEF TextsFormed

\* A text that the shell leaves as it is.
LEMMA ShellKeeps ==
    ASSUME NEW t, \A k \in DOMAIN t : t[k] \notin Quoted
    PROVE  Shell(t) = {t}
  <1>1. ToSet(t) \cap Quoted = {}
    BY DEF ToSet
  <1> QED BY <1>1 DEF Shell

\* An int arrives (Number in klee_ir.py, atoi in the driver).
LEMMA IntArrives ==
    ASSUME NEW d \in Ints, NEW text \in Shell(to_dict(<<"int">>, d))
    PROVE  Same(<<"int">>, d, atoi(text))
  <1> DEFINE n == Signed(d)
             t == Decimal(n)
  <1>1. n \in Int
    BY SignedType, DriversAssumption, Limits
  <1> HIDE DEF n
  <1>2. t \in Seq(Nat) /\ \A k \in 1 .. Len(t) : t[k] \in Digits \cup {Minus}
    BY <1>1, DecimalLeads DEF Neat
  <1>3. to_dict(<<"int">>, d) = t
    BY ToDict DEF n
  <1>4. atoi(t) = n
    BY <1>1, AtoiOfDecimal
  <1> HIDE DEF t
  <1>5. \A k \in DOMAIN t : t[k] \notin Quoted
    <2>1. DOMAIN t = 1 .. Len(t)
      BY <1>2
    <2>2. \A c \in Digits \cup {Minus} : c \notin Quoted
      BY DEF Digits, Minus, Quoted
    <2> QED BY <1>2, <2>1, <2>2
  <1>6. text = t
    BY <1>3, <1>5, ShellKeeps
  <1> QED BY <1>4, <1>6, SameIs DEF n

\* A character arrives.
LEMMA CharArrives ==
    ASSUME NEW d \in Chars, ~Lost(<<"char">>, d), NEW text \in Shell(to_dict(<<"char">>, d))
    PROVE  Same(<<"char">>, d, Head(copy(text)))
  <1>1. d \in Ascii /\ d \notin Quoted
    BY SameIs
  <1>2. to_dict(<<"char">>, d) = <<d>>
    BY <1>1, ToDict DEF Utf8
  <1>3. \A k \in DOMAIN <<d>> : <<d>>[k] \notin Quoted
    BY <1>1
  <1>4. text = <<d>>
    BY <1>2, <1>3, ShellKeeps
  <1>5. Head(copy(<<d>>)) = d
    BY DEF copy
  <1> QED BY <1>4, <1>5, SameIs

\* What a string of C is up to.
LEMMA CStringIs ==
    ASSUME NEW s \in Seq(Nat), NEW m \in 0 .. Len(s),
           \A k \in 1 .. m : s[k] # 0, m < Len(s) => s[m + 1] = 0
    PROVE  CString(s) = SubSeq(s, 1, m)
  <1> DEFINE t == Append(s, 0)
             I == {j \in 1 .. Len(t) : t[j] = 0}
  <1>1. /\ Len(s) \in Nat /\ Len(t) = Len(s) + 1 /\ t[Len(s) + 1] = 0
        /\ \A k \in 1 .. Len(s) : t[k] = s[k]
    BY AppendProperties
  <1> HIDE DEF t
  <1>2. m + 1 \in I
    <2>1. m + 1 \in 1 .. Len(t)
      BY <1>1
    <2>2. t[m + 1] = 0
      <3>1. CASE m = Len(s)
        BY <1>1, <3>1
      <3>2. CASE m < Len(s)
        <4>1. m + 1 \in 1 .. Len(s)
          BY <1>1, <3>2
        <4> QED BY <1>1, <3>2, <4>1
      <3>3. m = Len(s) \/ m < Len(s)
        BY <1>1
      <3> QED BY <3>1, <3>2, <3>3
    <2> QED BY <2>1, <2>2
  <1>3. \A j \in I : j \in Nat /\ m + 1 <= j
    <2> SUFFICES ASSUME NEW j \in I, j < m + 1 PROVE FALSE
      BY <1>1
    <2>1. j \in 1 .. m /\ j \in 1 .. Len(s)
      BY <1>1
    <2> QED BY <1>1, <2>1
  <1> HIDE DEF I
  <1>4. Min(I) = m + 1
    <2> DEFINE Low(x) == x \in I /\ \A y \in I : x <= y
    <2>1. Low(m + 1)
      BY <1>2, <1>3
    <2>2. Min(I) = CHOOSE x : Low(x)
      BY DEF Min
    <2>3. Low(Min(I))
      <3> HIDE DEF Low
      <3> QED BY <2>1, <2>2
    <2> QED BY <1>2, <1>3, <2>3
  <1>5. SelectInSeq(Append(s, 0), LAMBDA c : c = 0) = m + 1
    BY <1>2, <1>4 DEF SelectInSeq, I, t
  <1>6. (m + 1) - 1 = m
    BY <1>1
  <1> QED BY <1>5, <1>6 DEF CString

\* What is behind the trimmed part of a string is nothing.
LEMMA TrimmedIs ==
    ASSUME NEW n \in Nat, NEW s \in [1 .. n -> 0 .. 255]
    PROVE  \E m \in 0 .. n : /\ Trimmed(s) = SubSeq(s, 1, m)
                             /\ \A k \in 1 .. n : k > m => s[k] = 0
  <1> DEFINE T == {k \in 1 .. n : s[k] # 0} \cup {0}
  <1>1. Len(s) = n /\ T \in SUBSET (0 .. n) /\ T # {}
    OBVIOUS
  <1>2. Trimmed(s) = SubSeq(s, 1, Max(T))
    BY <1>1 DEF Trimmed
  <1>3. \A k \in 1 .. n : k \notin T => s[k] = 0
    OBVIOUS
  <1> HIDE DEF T
  <1>4. Max(T) \in T /\ \A k \in T : k <= Max(T)
    BY <1>1, LastPosition
  <1>5. Max(T) \in 0 .. n
    BY <1>1, <1>4
  <1> DEFINE m == Max(T)
  <1> HIDE DEF m
  <1>6. \A k \in 1 .. n : k > m => s[k] = 0
    BY <1>3, <1>4, <1>5 DEF m
  <1> QED BY <1>2, <1>5, <1>6 DEF m

\* A string arrives.
LEMMA StringArrives ==
    ASSUME NEW d \in Strings, ~Lost(<<"char", "*">>, d),
           NEW text \in Shell(to_dict(<<"char", "*">>, d))
    PROVE  Same(<<"char", "*">>, d, copy(text))
  <1> DEFINE n == KLEE_ARRAY_SIZE
  <1>1. n \in Nat /\ d \in [1 .. n -> 0 .. 255] /\ d \in Seq(Nat) /\ Len(d) = n
    <2>1. n \in Nat /\ d \in [1 .. n -> 0 .. 255]
      BY DriversAssumption
    <2> HIDE DEF n
    <2>2. 0 .. 255 \subseteq Nat
      OBVIOUS
    <2>3. d \in Seq(0 .. 255) /\ Len(d) = n
      BY <2>1
    <2> QED BY <2>1, <2>2, <2>3, SeqMonotonic
  <1>2. n % 4 # 0 /\ ToSet(Trimmed(d)) \subseteq Ascii \ Quoted
    BY SameIs
  <1> HIDE DEF n
  <1>3. PICK m \in 0 .. n : Trimmed(d) = SubSeq(d, 1, m) /\ \A k \in 1 .. n : k > m => d[k] = 0
    BY <1>1, TrimmedIs
  <1> DEFINE t == SubSeq(d, 1, m)
  <1>4. t \in Seq(Nat) /\ Len(t) = m /\ m \in Nat /\ \A k \in 1 .. m : t[k] = d[k]
    <2>1. 1 \in Int /\ m \in Int /\ m \in Nat /\ \A k \in 1 .. m : d[k] \in Nat
      BY <1>1, <1>3
    <2>2. /\ t \in Seq(Nat) /\ Len(t) = IF 1 <= m THEN m - 1 + 1 ELSE 0
          /\ \A k \in 1 .. m - 1 + 1 : t[k] = d[1 + k - 1]
      BY <2>1, SubSeqProperties
    <2> HIDE DEF t
    <2>3. Len(t) = m /\ m - 1 + 1 = m /\ \A k \in 1 .. m : 1 + k - 1 = k
      BY <2>1, <2>2
    <2> QED BY <2>1, <2>2, <2>3
  <1>5. Trimmed(d) = t
    BY <1>3
  <1> HIDE DEF t
  <1>6. \A k \in 1 .. m : t[k] \in Ascii /\ t[k] \notin Quoted
    <2>1. DOMAIN t = 1 .. m
      BY <1>4
    <2> QED BY <1>2, <1>5, <2>1 DEF ToSet
  <1>7. \A k \in 1 .. m : t[k] # 0
    BY <1>6 DEF Quoted
  <1>8. ToSet(d) \subseteq Ascii
    <2>1. ASSUME NEW k \in 1 .. n PROVE d[k] \in Ascii
      <3>1. CASE k > m
        BY <1>3, <3>1 DEF Ascii
      <3>2. CASE k \in 1 .. m
        BY <1>4, <1>6, <3>2
      <3>3. k > m \/ k \in 1 .. m
        BY <1>1, <1>4
      <3> QED BY <3>1, <3>2, <3>3
    <2>2. DOMAIN d = 1 .. n
      BY <1>1
    <2> QED BY <2>1, <2>2 DEF ToSet
  <1>9. to_dict(<<"char", "*">>, d) = t
    BY <1>2, <1>5, <1>8, ToDict DEF n
  <1>10. text = t
    <2>1. \A k \in DOMAIN t : t[k] \notin Quoted
      BY <1>4, <1>6
    <2> QED BY <1>9, <2>1, ShellKeeps
  <1>11. CString(d) = t
    <2>1. m \in 0 .. Len(d) /\ \A k \in 1 .. m : d[k] # 0
      BY <1>1, <1>4, <1>7
    <2>2. m < Len(d) => d[m + 1] = 0
      <3>1. m < n => m + 1 \in 1 .. n /\ m + 1 > m
        BY <1>1, <1>4
      <3> QED BY <1>1, <1>3, <3>1
    <2>3. CString(d) = SubSeq(d, 1, m)
      BY <1>1, <2>1, <2>2, CStringIs
    <2> QED BY <2>3 DEF t
  <1>12. CString(copy(t)) = t
    <2> DEFINE c == Append(t, 0)
    <2>1. c \in Seq(Nat) /\ Len(c) = m + 1 /\ c[m + 1] = 0 /\ \A k \in 1 .. m : c[k] = t[k]
      <3>1. 0 \in Nat
        OBVIOUS
      <3> QED BY <1>4, <3>1, AppendProperties
    <2> HIDE DEF c
    <2>2. m \in 0 .. Len(c) /\ (\A k \in 1 .. m : c[k] # 0) /\ (m < Len(c) => c[m + 1] = 0)
      BY <1>4, <1>7, <2>1
    <2>3. CString(c) = SubSeq(c, 1, m)
      BY <2>1, <2>2, CStringIs
    <2>4. SubSeq(c, 1, m) = t
      <3> DEFINE e == SubSeq(c, 1, m)
      <3>1. 1 \in Int /\ m \in Int /\ \A k \in 1 .. m : c[k] \in Nat
        BY <1>4, <2>1
      <3>2. /\ e \in Seq(Nat) /\ Len(e) = IF 1 <= m THEN m - 1 + 1 ELSE 0
            /\ \A k \in 1 .. m - 1 + 1 : e[k] = c[1 + k - 1]
        BY <3>1, SubSeqProperties
      <3> HIDE DEF e
      <3>3. Len(e) = m /\ m - 1 + 1 = m /\ \A k \in 1 .. m : 1 + k - 1 = k
        BY <1>4, <3>2
      <3>4. \A k \in 1 .. Len(e) : e[k] = t[k]
        BY <2>1, <3>2, <3>3
      <3>5. e = t
        BY <1>4, <3>2, <3>3, <3>4, SeqEqual
      <3> QED BY <3>5 DEF e
    <2> QED BY <2>3, <2>4 DEF copy, c
  <1> QED BY <1>10, <1>11, <1>12, SameIs

-----------------------------------------------------------------------------
(* The arguments of a test on their way to the function.                   *)

IsSeq(s) == \E S : s \in Seq(S)

\* An element more.
LEMMA AppendAny ==
    ASSUME NEW s, IsSeq(s), NEW e
    PROVE  /\ IsSeq(Append(s, e)) /\ Len(s) \in Nat /\ Len(Append(s, e)) = Len(s) + 1
           /\ Append(s, e)[Len(s) + 1] = e
           /\ \A k \in 1 .. Len(s) : Append(s, e)[k] = s[k]
           /\ DOMAIN s = 1 .. Len(s)
  <1>1. PICK S : s \in Seq(S)
    BY DEF IsSeq
  <1> DEFINE T == S \cup {e}
             a == Append(s, e)
  <1>2. s \in Seq(T) /\ e \in T
    BY <1>1, SeqMonotonic
  <1> HIDE DEF T
  <1>3. /\ a \in Seq(T) /\ Len(a) = Len(s) + 1 /\ a[Len(s) + 1] = e
        /\ \A k \in 1 .. Len(s) : a[k] = s[k]
    BY <1>2, AppendProperties
  <1>4. Len(s) \in Nat /\ DOMAIN s = 1 .. Len(s)
    BY <1>2
  <1> HIDE DEF a
  <1>5. IsSeq(a)
    BY <1>3 DEF IsSeq
  <1> QED BY <1>3, <1>4, <1>5 DEF a

SignedOf(d) == [k \in DOMAIN d |-> Signed(d[k])]
Begin == At(0, FALSE, << >>)

\* r is where the text being read leads, and the parser is on the way.
AtouOnWay(r, d) ==
    /\ IsRun(r, str) /\ str \in Seq(Digits) /\ Within(r, str, d) /\ r[Len(str)].exact = d
    /\ parser \in {"atou", "returned"}
    /\ parser = "atou" => i \in 1 .. Len(str) + 1 /\ exact = r[i - 1].exact /\ ~r[i - 1].negative
    /\ parser = "returned" => number = d

ArrayOnWay(r, d) ==
    /\ IsRun(r, str) /\ r[Len(str)] = At(0, FALSE, SignedOf(d))
    /\ parser \in {"parse_string_to_array", "returned"}
    /\ InArray => i \in 1 .. Len(str) + 1 /\ r[i - 1] = At(exact, isNegative, values)
    /\ parser = "returned" => values = SignedOf(d)

\* What the parser will have read of an object.
OnWay(t, d) ==
    /\ t = <<"uint32_t">> => d \in Uints /\ (d <= INT_MAX => \E r : AtouOnWay(r, d))
    /\ t = <<"int", "*">> => d \in Arrays /\ \E r : ArrayOnWay(r, d)

Pending == Len(received) < Len(objects) =>
    /\ driver.params[Len(objects)].type \in {<<"uint32_t">>, <<"int", "*">>}
    /\ objects[Len(objects)].generated =>
          OnWay(driver.params[Len(objects)].type, objects[Len(objects)].data)

DInv == /\ IInv
        /\ IsSeq(objects) /\ IsSeq(received)
        /\ Len(received) <= Len(objects) /\ Len(objects) <= Len(received) + 1
        /\ Pending
        /\ ArgumentsArrive

-----------------------------------------------------------------------------
\* A step of the parser of arrays is a step along the run.
LEMMA ArrayStep ==
    ASSUME IInv, ParserStep, NEW r, NEW d, ArrayOnWay(r, d)
    PROVE  ArrayOnWay(r, d)'
  <1> USE DEF Reading, InArray
  <1>1. str \in Seq(Nat) /\ Len(str) \in Nat
    BY DEF IInv, ParserTypeOK
  <1>2. IsRun(r, str) /\ r[Len(str)] = At(0, FALSE, SignedOf(d))
    BY DEF ArrayOnWay
  <1>3. InArray
    BY DEF ArrayOnWay, ParserStep, ReadDigit, ReadMinus, ReadEnd, Skip, AtouDigit, Return
  <1>4. i \in 1 .. Len(str) + 1 /\ r[i - 1] = At(exact, isNegative, values)
    BY <1>3 DEF ArrayOnWay
  <1>5. i <= Len(str) => r[i] = After(At(exact, isNegative, values), str[i]) /\ i \in 1 .. Len(str)
    BY <1>1, <1>2, <1>4 DEF IsRun
  <1> DEFINE x == At(exact, isNegative, values)
  <1>6. x.exact = exact /\ x.negative = isNegative /\ x.values = values
    BY DEF At
  <1>7. ASSUME i <= Len(str), i' = i + 1, UNCHANGED <<parser, str>>,
               r[i] = At(exact', isNegative', values')
        PROVE  ArrayOnWay(r, d)'
    <2>1. i' \in 1 .. Len(str') + 1 /\ i' - 1 = i
      BY <1>1, <1>4, <1>7
    <2>2. IsRun(r, str') /\ r[Len(str')] = At(0, FALSE, SignedOf(d))
      BY <1>2, <1>7
    <2>3. parser' = "parse_string_to_array"
      BY <1>3, <1>7
    <2> QED BY <1>7, <2>1, <2>2, <2>3 DEF ArrayOnWay
  <1>8. CASE ReadDigit
    <2>1. After(x, str[i]) = At(Shifted(exact), isNegative, values)
      <3> HIDE DEF x
      <3> QED BY <1>6, <1>8 DEF After, Shifted, digit, ReadDigit
    <2> QED BY <1>5, <1>7, <1>8, <2>1 DEF ReadDigit
  <1>9. CASE ReadMinus
    <2>1. After(x, str[i]) = At(exact, TRUE, values)
      <3>1. str[i] \notin Digits
        BY <1>9 DEF ReadMinus, Minus, Digits
      <3> HIDE DEF x
      <3> QED BY <1>6, <1>9, <3>1 DEF After, ReadMinus
    <2> QED BY <1>5, <1>7, <1>9, <2>1 DEF ReadMinus
  <1>10. CASE ReadEnd
    <2>1. After(x, str[i]) = At(0, FALSE, Append(values, exact))
      <3>1. str[i] \notin Digits /\ str[i] # Minus
        <4>1. str[i] \in Ends
          BY <1>10 DEF ReadEnd
        <4>2. \A c \in Ends : c \notin Digits /\ c # Minus
          BY DEF Minus, Digits, Ends, Comma, Close
        <4> QED BY <4>1, <4>2
      <3> HIDE DEF x
      <3> QED BY <1>6, <1>10, <3>1 DEF After, ReadEnd
    <2> QED BY <1>5, <1>7, <1>10, <2>1 DEF ReadEnd
  <1>11. CASE Skip
    <2>1. After(x, str[i]) = x
      <3> HIDE DEF x
      <3> QED BY <1>11 DEF After, Skip
    <2> QED BY <1>5, <1>7, <1>11, <2>1 DEF Skip
  <1>12. CASE Return
    <2>1. i = Len(str) + 1 /\ i - 1 = Len(str)
      BY <1>1, <1>3, <1>4, <1>12 DEF Return
    <2>2. values = SignedOf(d)
      <3>1. At(exact, isNegative, values) = At(0, FALSE, SignedOf(d))
        BY <1>2, <1>4, <2>1
      <3> QED BY <3>1 DEF At
    <2> QED BY <1>2, <1>12, <2>2 DEF ArrayOnWay, Return
  <1> QED BY <1>3, <1>8, <1>9, <1>10, <1>11, <1>12 DEF ParserStep, AtouDigit

\* And a step of atou, which is never cut off for a number that fits an int.
LEMMA AtouStep ==
    ASSUME IInv, ParserStep, NEW r, NEW d \in 0 .. INT_MAX, AtouOnWay(r, d)
    PROVE  AtouOnWay(r, d)'
  <1> USE DEF Reading
  <1>1. Len(str) \in Nat /\ str \in Seq(Digits) /\ exact \in Int
    BY DEF AtouOnWay, IInv, ParserTypeOK
  <1>2. /\ IsRun(r, str) /\ Within(r, str, d) /\ r[Len(str)].exact = d
    BY DEF AtouOnWay
  <1>3. parser = "atou"
    BY DEF AtouOnWay, ParserStep, ReadDigit, ReadMinus, ReadEnd, Skip, AtouDigit, Return
  <1>4. i \in 1 .. Len(str) + 1 /\ exact = r[i - 1].exact /\ ~r[i - 1].negative
    BY <1>3 DEF AtouOnWay
  <1>5. number = exact
    <2>1. exact <= UINT32_MAX
      BY <1>3 DEF IInv, InStep, InArray
    <2> QED BY <1>1, <1>3, <2>1, Limits DEF IInv, InStep, InArray
  <1>6. CASE AtouDigit
    <2>1. i \in 1 .. Len(str) /\ i \in 0 .. Len(str) /\ str[i] \in Digits
      BY <1>1, <1>4, <1>6 DEF AtouDigit
    <2>2. r[i] = After(r[i - 1], str[i])
      BY <1>2, <2>1 DEF IsRun
    <2>3. After(r[i - 1], str[i]) = At(exact * 10 + digit, r[i - 1].negative, r[i - 1].values)
      BY <1>4, <2>1 DEF After, digit
    <2>4. r[i].exact = exact * 10 + digit /\ ~r[i].negative
      BY <1>4, <2>2, <2>3 DEF At
    <2>5. exact' = r[i].exact /\ exact' \in 0 .. d
      BY <1>2, <1>6, <2>1, <2>4 DEF AtouDigit, Within
    <2>6. number' = exact'
      <3>1. IInv'
        BY <1>6, AtouKeeps
      <3>2. parser' # "parse_string_to_array"
        BY <1>3, <1>6 DEF AtouDigit
      <3>3. number' = IF exact' > UINT32_MAX THEN UINT32_MAX ELSE exact'
        BY <3>1, <3>2 DEF IInv, InStep, InArray
      <3> QED BY <2>5, <3>3, Limits
    <2>7. parser' = "atou"
      <3>1. parser' # "atou" => number' = UINT32_MAX
        BY <1>3, <1>6 DEF AtouDigit
      <3>2. INT_MAX < UINT32_MAX
        BY Limits, ParserAssumption DEF UINT32_MAX
      <3>3. number' # UINT32_MAX
        BY <2>5, <2>6, <3>2, Limits
      <3> QED BY <3>1, <3>3
    <2>8. str' = str /\ i' = i + 1 /\ i' - 1 = i /\ i' \in 1 .. Len(str) + 1
      BY <1>1, <1>6, <2>1 DEF AtouDigit
    <2> QED BY <1>1, <1>2, <2>4, <2>5, <2>7, <2>8 DEF AtouOnWay
  <1>7. CASE Return
    <2>1. i = Len(str) + 1 /\ i - 1 = Len(str)
      <3>1. i <= Len(str) => str[i] \in Digits
        BY <1>1, <1>4
      <3> QED BY <1>1, <1>3, <1>4, <1>7, <3>1 DEF Return
    <2>2. number = d
      BY <1>2, <1>4, <1>5, <2>1
    <2> QED BY <1>1, <1>2, <1>7, <2>2 DEF AtouOnWay, Return
  <1> QED BY <1>3, <1>6, <1>7 DEF ParserStep, ReadDigit, ReadMinus, ReadEnd, Skip

-----------------------------------------------------------------------------
\* An array that was read is the one that KLEE found.
LEMMA ArrayReturned ==
    ASSUME IInv, NEW d \in Arrays, values = SignedOf(d)
    PROVE  array = SignedOf(d)
  <1> DEFINE n == KLEE_ARRAY_SIZE
             q == SignedOf(d)
  <1>1. n \in Nat /\ q \in [1 .. n -> INT_MIN .. INT_MAX]
    BY SignedArray DEF SignedOf
  <1> HIDE DEF n, q
  <1>2. Len(q) = n /\ q \in Seq(INT_MIN .. INT_MAX)
    <2> DEFINE M == INT_MIN .. INT_MAX
    <2>1. n \in Nat /\ q \in [1 .. n -> M]
      BY <1>1
    <2> HIDE DEF M
    <2>2. q \in Seq(M) /\ Len(q) = n
      BY <2>1
    <2> QED BY <2>2 DEF M
  <1>3. array \in Seq(Int) /\ values \in Seq(Int)
    BY DEF IInv, ParserTypeOK
  <1>4. Len(array) = Len(values) /\ \A k \in 1 .. Len(array) : array[k] = Clamped(values[k])
    BY DEF IInv, Copied
  <1>5. values = q
    BY DEF q
  <1>6. \A k \in 1 .. n : q[k] \in INT_MIN .. INT_MAX
    BY <1>1
  <1>7. \A m \in INT_MIN .. INT_MAX : Clamped(m) = m
    BY Limits DEF Clamped
  <1>8. \A k \in 1 .. Len(array) : array[k] = values[k]
    BY <1>2, <1>4, <1>5, <1>6, <1>7
  <1>9. array = values
    BY <1>3, <1>4, <1>8, SeqEqual
  <1> QED BY <1>5, <1>9 DEF q

\* The parser is given the text of an object.
LEMMA CallOnWay ==
    ASSUME NEW t \in {<<"uint32_t">>, <<"int", "*">>}, NEW d \in Objects(t),
           Call(IF t = <<"uint32_t">> THEN "atou" ELSE "parse_string_to_array", to_dict(t, d))
    PROVE  OnWay(t, d)'
  <1>1. <<"uint32_t">> # <<"int", "*">>
    OBVIOUS
  <1>2. CASE t = <<"uint32_t">>
    <2>1. d \in Uints /\ d \in 0 .. UINT32_MAX
      BY <1>2, DriversAssumption DEF Objects
    <2>2. ASSUME d <= INT_MAX PROVE \E r : AtouOnWay(r, d)'
      <3> DEFINE s == DigitsOf[d]
                 w == << >>
      <3>1. d \in Nat /\ Signed(d) = d
        BY <2>1, <2>2, SignedType, Limits
      <3>2. str' = s
        <4>1. str' = to_dict(t, d)
          BY DEF Call
        <4>2. to_dict(t, d) = Decimal(d)
          BY <1>2, <3>1, ToDict
        <4>3. Decimal(d) = DigitsOf[d]
          BY <3>1, DecimalIs
        <4> QED BY <4>1, <4>2, <4>3
      <3>3. s \in Seq(Digits) /\ w \in Seq(Int) /\ FALSE \in BOOLEAN
        BY <3>1, DigitsRead
      <3>4. PICK r : /\ IsRun(r, s) /\ r[0] = At(0, FALSE, w) /\ r[Len(s)] = Shown(d, FALSE, w)
                     /\ Within(r, s, d)
        <4> HIDE DEF w, s
        <4>1. \E r : /\ IsRun(r, DigitsOf[d]) /\ r[0] = At(0, FALSE, w)
                     /\ r[Len(DigitsOf[d])] = Shown(d, FALSE, w)
                     /\ ~FALSE => Within(r, DigitsOf[d], d)
          BY <3>1, <3>3, DigitsRead, Zenon
        <4> QED BY <4>1 DEF s
      <3> HIDE DEF s, w
      <3>5. r[0].exact = 0 /\ ~r[0].negative /\ r[Len(s)].exact = d
        BY <3>4 DEF At, Shown
      <3>6. parser' = "atou" /\ i' = 1 /\ exact' = 0 /\ i' - 1 = 0 /\ Len(s) \in Nat
        BY <1>2, <3>3 DEF Call
      <3>7. 1 \in 1 .. Len(s) + 1
        BY <3>6
      <3> QED BY <3>2, <3>3, <3>4, <3>5, <3>6, <3>7 DEF AtouOnWay
    <2>3. (d <= INT_MAX)' <=> d <= INT_MAX
      OBVIOUS
    <2> QED BY <1>1, <1>2, <2>1, <2>2 DEF OnWay
  <1>3. CASE t = <<"int", "*">>
    <2>1. d \in Arrays
      BY <1>1, <1>3 DEF Objects
    <2> DEFINE q == SignedOf(d)
               s == ListText(q)
    <2>2. KLEE_ARRAY_SIZE \in Nat \ {0} /\ q \in [1 .. KLEE_ARRAY_SIZE -> Int]
      BY <2>1, SignedArray DEF SignedOf
    <2>3. str' = s
      BY <1>3, ToDict DEF Call, SignedOf
    <2> HIDE DEF q
    <2>4. s \in Seq(Nat) /\ Leads(s, At(0, FALSE, << >>), At(0, FALSE, q))
      BY <2>2, ListLeads
    <2> HIDE DEF s
    <2>5. PICK r : IsRun(r, s) /\ r[0] = At(0, FALSE, << >>) /\ r[Len(s)] = At(0, FALSE, q)
      BY <2>4 DEF Leads
    <2>6. /\ parser' = "parse_string_to_array" /\ i' = 1 /\ exact' = 0 /\ isNegative' = FALSE
          /\ values' = << >> /\ i' - 1 = 0 /\ Len(s) \in Nat
      BY <1>1, <1>3, <2>4 DEF Call
    <2>7. 1 \in 1 .. Len(s) + 1
      BY <2>6
    <2>8. ArrayOnWay(r, d)'
      BY <2>3, <2>5, <2>6, <2>7 DEF ArrayOnWay, InArray, q
    <2> QED BY <1>1, <1>3, <2>1, <2>8 DEF OnWay
  <1> QED BY <1>2, <1>3

\* What is on the way stays on the way.
LEMMA StepOnWay ==
    ASSUME IInv, ParserStep, NEW t, NEW d, OnWay(t, d)
    PROVE  OnWay(t, d)'
  <1>1. ASSUME t = <<"uint32_t">> PROVE d \in Uints /\ (d <= INT_MAX => \E r : AtouOnWay(r, d)')
    <2>1. d \in Uints /\ d \in 0 .. UINT32_MAX
      BY <1>1, DriversAssumption DEF OnWay
    <2>2. ASSUME d <= INT_MAX PROVE \E r : AtouOnWay(r, d)'
      <3>1. PICK r : AtouOnWay(r, d)
        BY <1>1, <2>2 DEF OnWay
      <3>2. d \in 0 .. INT_MAX
        BY <2>1, <2>2, Limits
      <3>3. AtouOnWay(r, d)'
        BY <3>1, <3>2, AtouStep
      <3> QED BY <3>3
    <2> QED BY <2>1, <2>2
  <1>2. ASSUME t = <<"int", "*">> PROVE d \in Arrays /\ \E r : ArrayOnWay(r, d)'
    <2>1. PICK r : ArrayOnWay(r, d)
      BY <1>2 DEF OnWay
    <2>2. ArrayOnWay(r, d)'
      BY <2>1, ArrayStep
    <2> QED BY <1>2, <2>2 DEF OnWay
  <1> QED BY <1>1, <1>2 DEF OnWay

-----------------------------------------------------------------------------
\* The parser keeps its invariant in the driver.
LEMMA DriverParses ==
    ASSUME IInv, [Next]_vars PROVE IInv'
  <1>1. CASE StartParser
    <2>1. PICK text \in Seq(Nat) : /\ Call(function, text)
                                   /\ function \in {"parse_string_to_array", "atou"}
                                   /\ function = "parse_string_to_array" => Formed(text)
      <3>1. type \in {<<"uint32_t">>, <<"int", "*">>}
        BY <1>1 DEF StartParser, Converts, type
      <3>2. function = IF type = <<"uint32_t">> THEN "atou" ELSE "parse_string_to_array"
        BY DEF function
      <3>3. CASE \E data \in Objects(type) : Call(function, to_dict(type, data))
        <4>1. PICK data \in Objects(type) : Call(function, to_dict(type, data))
          BY <3>3
        <4>2. CASE type = <<"uint32_t">>
          <5>1. data \in Uints
            BY <4>2 DEF Objects
          <5> QED BY <3>2, <4>1, <4>2, <5>1, TextsAreFormed DEF TextsFormed
        <4>3. CASE type = <<"int", "*">>
          <5>1. data \in Arrays
            BY <4>3 DEF Objects
          <5> QED BY <3>2, <4>1, <4>3, <5>1, TextsAreFormed DEF TextsFormed
        <4> QED BY <3>1, <4>2, <4>3
      <3>4. CASE \E text \in IF type = <<"uint32_t">> THEN UintTexts ELSE ArrayTexts :
                    Call(function, text)
        BY <3>1, <3>2, <3>4, ParserAssumption
      <3> QED BY <1>1, <3>3, <3>4 DEF StartParser
    <2> QED BY <2>1, CallKeeps
  <1>2. CASE Parse
    BY <1>2, ParserStepKeeps DEF Parse
  <1>3. CASE UNCHANGED parserVars
    BY <1>3, ParserStays
  <1> QED BY <1>1, <1>2, <1>3 DEF Next, vars, Generate, ConvertPlain, ParserReturned,
              CallFunction

\* A driver without arguments.
LEMMA NothingYet ==
    ASSUME IInv', objects' = << >>, received' = << >>
    PROVE  DInv'
  <1>1. IsSeq(<< >>) /\ Len(<< >>) = 0 /\ DOMAIN << >> = {}
    <2>1. << >> \in Seq({})
      OBVIOUS
    <2> QED BY <2>1 DEF IsSeq
  <1>2. IsSeq(objects)' /\ IsSeq(received)'
    BY <1>1
  <1>3. Len(received') = 0 /\ Len(objects') = 0
    BY <1>1
  <1>4. Pending'
    BY <1>3 DEF Pending
  <1>5. ArgumentsArrive'
    BY <1>1 DEF ArgumentsArrive
  <1> QED BY <1>2, <1>3, <1>4, <1>5 DEF DInv

\* The arguments that arrived stay where they are.
LEMMA OneMore ==
    ASSUME DInv, UNCHANGED driver, NEW v, received' = Append(received, v),
           \A k \in 1 .. Len(received) : objects'[k] = objects[k],
           LET k == Len(received) + 1
               t == driver.params[k].type
           IN  objects'[k].generated /\ ~Lost(t, objects'[k].data) => Same(t, objects'[k].data, v)
    PROVE  ArgumentsArrive'
  <1> DEFINE n == Len(received)
             a == Append(received, v)
  <1>1. /\ IsSeq(a) /\ n \in Nat /\ Len(a) = n + 1 /\ a[n + 1] = v
        /\ \A k \in 1 .. n : a[k] = received[k]
        /\ DOMAIN received = 1 .. n
    BY AppendAny DEF DInv
  <1>2. DOMAIN a = 1 .. n + 1
    <2>1. DOMAIN a = 1 .. Len(a)
      <3> HIDE DEF a
      <3> QED BY <1>1, AppendAny
    <2> QED BY <1>1, <2>1
  <1> HIDE DEF n, a
  <1>3. received' = a /\ driver' = driver
    BY DEF a
  <1> SUFFICES ASSUME NEW k \in 1 .. n + 1, objects'[k].generated,
                      ~Lost(driver.params[k].type, objects'[k].data)
               PROVE  Same(driver.params[k].type, objects'[k].data, a[k])
    BY <1>2, <1>3 DEF ArgumentsArrive, Arrived
  <1>4. CASE k = n + 1
    BY <1>1, <1>4 DEF n
  <1>5. CASE k \in 1 .. n
    <2>1. objects'[k] = objects[k] /\ a[k] = received[k] /\ k \in DOMAIN received
      BY <1>1, <1>5 DEF n
    <2>2. ArgumentsArrive
      BY DEF DInv
    <2> QED BY <2>1, <2>2 DEF ArgumentsArrive, Arrived
  <1>6. k = n + 1 \/ k \in 1 .. n
    BY <1>1
  <1> QED BY <1>4, <1>5, <1>6

\* An argument is converted by the C library, or copied.
LEMMA ConvertKeeps == ASSUME DInv, IInv', ConvertPlain PROVE DInv'
  <1> DEFINE n == Len(received)
             t == type
  <1>1. /\ n = Len(objects) /\ t = driver.params[n + 1].type
        /\ t \in {<<"int">>, <<"char">>, <<"char", "*">>}
    BY DEF ConvertPlain, Converts, type
  <1>a. PICK data \in Objects(t) : \E text \in Shell(to_dict(t, data)) :
            /\ objects' = Append(objects, [generated |-> TRUE, data |-> data])
            /\ received' = Append(received,
                  CASE t = <<"int">> -> atoi(text)
                    [] t = <<"char">> -> Head(copy(text))
                    [] OTHER -> copy(text))
    BY DEF ConvertPlain
  <1>2. PICK text \in Shell(to_dict(t, data)) :
            /\ objects' = Append(objects, [generated |-> TRUE, data |-> data])
            /\ received' = Append(received,
                  CASE t = <<"int">> -> atoi(text)
                    [] t = <<"char">> -> Head(copy(text))
                    [] OTHER -> copy(text))
    BY <1>a
  <1> DEFINE o == [generated |-> TRUE, data |-> data]
             v == CASE t = <<"int">> -> atoi(text)
                    [] t = <<"char">> -> Head(copy(text))
                    [] OTHER -> copy(text)
  <1>3. o.data = data
    OBVIOUS
  <1>4. ~Lost(t, data) => Same(t, data, v)
    <2>1. CASE t = <<"int">>
      <3>1. data \in Ints /\ v = atoi(text)
        BY <2>1 DEF Objects
      <3> QED BY <2>1, <3>1, IntArrives
    <2>2. CASE t = <<"char">>
      <3>1. data \in Chars /\ v = Head(copy(text))
        BY <2>2 DEF Objects
      <3> QED BY <2>2, <3>1, CharArrives
    <2>3. CASE t = <<"char", "*">>
      <3>1. data \in Strings /\ v = copy(text)
        BY <2>3 DEF Objects
      <3> QED BY <2>3, <3>1, StringArrives
    <2> QED BY <1>1, <2>1, <2>2, <2>3
  <1> HIDE DEF t, v, o
  <1>5. objects' = Append(objects, o) /\ received' = Append(received, v) /\ driver' = driver
    BY <1>2 DEF o, v, ConvertPlain, generatorVars
  <1>6. /\ IsSeq(objects') /\ Len(objects') = n + 1 /\ objects'[n + 1] = o
        /\ \A k \in 1 .. n : objects'[k] = objects[k]
        /\ n \in Nat
    BY <1>1, <1>5, AppendAny DEF DInv
  <1>7. IsSeq(received') /\ Len(received') = n + 1
    BY <1>5, AppendAny DEF DInv
  <1>8. ArgumentsArrive'
    BY <1>1, <1>3, <1>4, <1>5, <1>6, OneMore
  <1>9. Pending'
    BY <1>6, <1>7 DEF Pending
  <1> QED BY <1>6, <1>7, <1>8, <1>9 DEF DInv

\* An argument is given to the parser.
LEMMA StartKeeps == ASSUME DInv, IInv', StartParser PROVE DInv'
  <1> DEFINE n == Len(received)
             t == type
             f == IF t = <<"uint32_t">> THEN "atou" ELSE "parse_string_to_array"
  <1>1. /\ n = Len(objects) /\ t = driver.params[n + 1].type /\ function = f
        /\ t \in {<<"uint32_t">>, <<"int", "*">>}
    BY DEF StartParser, Converts, type, function
  <1>2. PICK o : /\ objects' = Append(objects, o)
                 /\ o.generated => o.data \in Objects(t) /\ Call(f, to_dict(t, o.data))
    <2>1. CASE \E data \in Objects(type) :
                 /\ Call(function, to_dict(type, data))
                 /\ objects' = Append(objects, [generated |-> TRUE, data |-> data])
      <3>1. PICK data \in Objects(type) :
                 /\ Call(function, to_dict(type, data))
                 /\ objects' = Append(objects, [generated |-> TRUE, data |-> data])
        BY <2>1
      <3> DEFINE o == [generated |-> TRUE, data |-> data]
      <3>2. o.data = data
        OBVIOUS
      <3> HIDE DEF o
      <3>3. objects' = Append(objects, o)
        BY <3>1 DEF o
      <3> QED BY <1>1, <3>1, <3>2, <3>3
    <2>2. CASE \E text \in IF type = <<"uint32_t">> THEN UintTexts ELSE ArrayTexts :
                 /\ Call(function, text)
                 /\ objects' = Append(objects, [generated |-> FALSE, data |-> text])
      <3>1. PICK text : objects' = Append(objects, [generated |-> FALSE, data |-> text])
        BY <2>2
      <3> DEFINE o == [generated |-> FALSE, data |-> text]
      <3>2. ~o.generated
        OBVIOUS
      <3> HIDE DEF o
      <3>3. objects' = Append(objects, o)
        BY <3>1 DEF o
      <3> QED BY <3>2, <3>3
    <2> QED BY <2>1, <2>2 DEF StartParser
  <1> HIDE DEF t
  <1>3. driver' = driver /\ received' = received
    BY DEF StartParser, generatorVars
  <1>4. /\ IsSeq(objects') /\ Len(objects') = n + 1 /\ objects'[n + 1] = o
        /\ \A k \in 1 .. n : objects'[k] = objects[k]
        /\ n \in Nat
    BY <1>1, <1>2, AppendAny DEF DInv
  <1>5. DOMAIN received = 1 .. n /\ IsSeq(received)
    BY AppendAny DEF DInv
  <1>6. ArgumentsArrive'
    <2>1. ArgumentsArrive
      BY DEF DInv
    <2> QED BY <1>3, <1>4, <1>5, <2>1 DEF ArgumentsArrive, Arrived
  <1>7. PICK c : c = t
    OBVIOUS
  <1>8. ASSUME o.generated PROVE OnWay(c, o.data)'
    <2> PICK d : d = o.data
      OBVIOUS
    <2>1. c \in {<<"uint32_t">>, <<"int", "*">>} /\ d \in Objects(c)
      BY <1>1, <1>2, <1>7, <1>8
    <2>2. Call(IF c = <<"uint32_t">> THEN "atou" ELSE "parse_string_to_array", to_dict(c, d))
      BY <1>2, <1>7, <1>8
    <2>3. OnWay(c, d)'
      BY <2>1, <2>2, CallOnWay
    <2> QED BY <2>3
  <1>9. Pending'
    <2>1. driver'.params[Len(objects')].type = c /\ objects'[Len(objects')] = o
      BY <1>1, <1>3, <1>4, <1>7
    <2> QED BY <1>1, <1>7, <1>8, <2>1 DEF Pending
  <1> QED BY <1>3, <1>4, <1>5, <1>6, <1>9 DEF DInv

\* The parser goes on.
LEMMA ParseKeeps == ASSUME DInv, IInv', Parse PROVE DInv'
  <1>1. driver' = driver /\ objects' = objects /\ received' = received /\ ParserStep
        /\ Len(received) < Len(objects)
    BY DEF Parse, generatorVars, testVars
  <1> DEFINE o == objects[Len(objects)]
             t == driver.params[Len(objects)].type
  <1>2. t \in {<<"uint32_t">>, <<"int", "*">>} /\ (o.generated => OnWay(t, o.data))
    BY <1>1 DEF DInv, Pending
  <1>3. driver'.params[Len(objects')].type = t /\ objects'[Len(objects')] = o
    BY <1>1
  <1>4. PICK c, p : c = t /\ p = o
    OBVIOUS
  <1> HIDE DEF o, t
  <1>5. Pending'
    <2>1. ASSUME p.generated PROVE OnWay(c, p.data)'
      <3> DEFINE d == p.data
      <3>1. OnWay(c, d)
        BY <1>2, <1>4, <2>1
      <3> HIDE DEF d
      <3>2. OnWay(c, d)'
        BY <1>1, <3>1, StepOnWay DEF DInv
      <3> QED BY <3>2 DEF d
    <2>2. driver'.params[Len(objects')].type = c /\ objects'[Len(objects')] = p
      BY <1>3, <1>4
    <2> QED BY <1>2, <1>4, <2>1, <2>2 DEF Pending
  <1>6. ArgumentsArrive'
    BY <1>1 DEF DInv, ArgumentsArrive, Arrived
  <1> QED BY <1>1, <1>5, <1>6 DEF DInv

\* The parser gives its number or its array.
LEMMA ReturnedKeeps == ASSUME DInv, IInv', ParserReturned PROVE DInv'
  <1> DEFINE n == Len(received)
             o == objects[n + 1]
             t == driver.params[n + 1].type
             v == IF t = <<"uint32_t">> THEN number ELSE array
  <1>1. n \in Nat /\ Len(objects) \in Nat /\ n + 1 = Len(objects) /\ IsSeq(objects)
    <2>1. n \in Nat /\ Len(objects) \in Nat
      BY AppendAny DEF DInv
    <2> QED BY <2>1 DEF DInv, ParserReturned
  <1>2. /\ received' = Append(received, v) /\ objects' = objects /\ driver' = driver
        /\ parser = "returned"
    BY <1>1 DEF ParserReturned, generatorVars
  <1>3. t \in {<<"uint32_t">>, <<"int", "*">>} /\ (o.generated => OnWay(t, o.data))
    BY <1>1 DEF DInv, Pending, ParserReturned
  <1>4. <<"uint32_t">> # <<"int", "*">>
    OBVIOUS
  <1>5. o.generated /\ ~Lost(t, o.data) => Same(t, o.data, v)
    <2> SUFFICES ASSUME o.generated, ~Lost(t, o.data) PROVE Same(t, o.data, v)
      OBVIOUS
    <2> DEFINE d == o.data
    <2> HIDE DEF t, v, o
    <2>1. OnWay(t, d)
      BY <1>3
    <2>2. CASE t = <<"uint32_t">>
      <3>1. d \in Uints /\ d \in 0 .. UINT32_MAX
        BY <2>1, <2>2, DriversAssumption DEF OnWay
      <3>2. d <= INT_MAX
        <4>1. ~(d > INT_MAX)
          BY <2>2, SameIs
        <4> QED BY <3>1, <4>1, Limits
      <3>3. PICK r : AtouOnWay(r, d)
        BY <2>1, <2>2, <3>2 DEF OnWay
      <3>4. v = d
        BY <1>2, <2>2, <3>3 DEF AtouOnWay, v
      <3> QED BY <2>2, <3>4, SameIs
    <2>3. CASE t = <<"int", "*">>
      <3>1. d \in Arrays /\ \E r : ArrayOnWay(r, d)
        BY <2>1, <2>3 DEF OnWay
      <3>2. values = SignedOf(d)
        BY <1>2, <3>1 DEF ArrayOnWay
      <3>3. v = SignedOf(d)
        BY <1>4, <2>3, <3>1, <3>2, ArrayReturned DEF DInv, v
      <3> QED BY <2>3, <3>3, SameIs DEF SignedOf
    <2> QED BY <1>3, <2>2, <2>3 DEF t
  <1> HIDE DEF v
  <1>6. IsSeq(received') /\ Len(received') = n + 1
    BY <1>2, AppendAny DEF DInv
  <1>7. ArgumentsArrive'
    BY <1>2, <1>5, OneMore
  <1>8. Pending'
    BY <1>1, <1>2, <1>6 DEF Pending
  <1> QED BY <1>1, <1>2, <1>6, <1>7, <1>8 DEF DInv

\* The driver has nothing at first.
LEMMA DriverStarts == Init => DInv
  <1> SUFFICES ASSUME Init PROVE DInv
    OBVIOUS
  <1>1. IInv /\ objects = << >> /\ received = << >>
    BY ParserStarts DEF Init
  <1>2. IsSeq(<< >>) /\ Len(<< >>) = 0 /\ DOMAIN << >> = {}
    <2>1. << >> \in Seq({})
      OBVIOUS
    <2> QED BY <2>1 DEF IsSeq
  <1>3. Pending /\ ArgumentsArrive
    BY <1>1, <1>2 DEF Pending, ArgumentsArrive
  <1>4. Len(received) = 0 /\ Len(objects) = 0 /\ IsSeq(objects) /\ IsSeq(received)
    BY <1>1, <1>2
  <1> QED BY <1>1, <1>3, <1>4 DEF DInv

(* What arrived of the arguments is what was generated, and what the       *)
(* parser still holds of one is a part of it.                              *)
THEOREM DriverInvariant == Spec => []DInv
  <1>1. DInv /\ [Next]_vars => DInv'
    <2> SUFFICES ASSUME DInv, [Next]_vars PROVE DInv'
      OBVIOUS
    <2>1. IInv'
      BY DriverParses DEF DInv
    <2>2. CASE Generate \/ CallFunction
      BY <2>1, <2>2, NothingYet DEF Generate, CallFunction
    <2>3. CASE UNCHANGED vars
      <3>1. driver' = driver /\ objects' = objects /\ received' = received /\ UNCHANGED parserVars
        BY <2>3 DEF vars, generatorVars, testVars
      <3>2. Pending'
        <4>1. Pending
          BY DEF DInv
        <4> QED BY <3>1, <4>1 DEF Pending, OnWay, AtouOnWay, ArrayOnWay, InArray, parserVars
      <3>3. ArgumentsArrive'
        BY <3>1 DEF DInv, ArgumentsArrive, Arrived
      <3> QED BY <2>1, <3>1, <3>2, <3>3 DEF DInv
    <2> QED BY <2>1, <2>2, <2>3, ConvertKeeps, StartKeeps, ParseKeeps, ReturnedKeeps DEF Next
  <1> QED BY DriverStarts, <1>1, PTL DEF Spec

(* The function under test is called with the values that KLEE found, for  *)
(* every value of every type, but for what Lost names: however the object  *)
(* is guessed, written as text, passed through the shell, and read again.  *)
THEOREM ArgumentsDoArrive == Spec => []ArgumentsArrive
  <1>1. DInv => ArgumentsArrive
    BY DEF DInv
  <1> QED BY <1>1, DriverInvariant, PTL

(* And no argument makes the parser overflow, change the next number or    *)
(* write behind its array, whatever objects KLEE finds and whatever tests  *)
(* are written by hand (parse_string_to_array and atou in the driver).     *)
THEOREM ArgumentsParsed == Spec => [](NoOverflow /\ ElementsClamped /\ ArrayFilled)
  <1>1. DInv => IInv
    BY DEF DInv
  <1> QED BY <1>1, DriverInvariant, ParserPromises, PTL

-----------------------------------------------------------------------------
(* What the generator finds: the definition and its parameters, whatever   *)
(* blanks are in it.                                                       *)

\* The least number of a set.
LEMMA MinIs ==
    ASSUME NEW S \in SUBSET Int, NEW m \in S, \A x \in S : m <= x
    PROVE  Min(S) = m
  <1> DEFINE P(x) == x \in S /\ \A y \in S : x <= y
  <1>1. P(m)
    OBVIOUS
  <1>2. Min(S) = CHOOSE x : P(x)
    BY DEF Min
  <1>3. P(Min(S))
    <2> HIDE DEF P
    <2> QED BY <1>1, <1>2
  <1>4. Min(S) \in Int /\ m \in Int /\ Min(S) <= m /\ m <= Min(S)
    BY <1>3
  <1> QED BY <1>4

\* And the greatest.
LEMMA MaxIs ==
    ASSUME NEW S \in SUBSET Int, NEW m \in S, \A x \in S : x <= m
    PROVE  Max(S) = m
  <1> DEFINE P(x) == x \in S /\ \A y \in S : x >= y
  <1>1. P(m)
    OBVIOUS
  <1>2. Max(S) = CHOOSE x : P(x)
    BY DEF Max
  <1>3. P(Max(S))
    <2> HIDE DEF P
    <2> QED BY <1>1, <1>2
  <1>4. Max(S) \in Int /\ m \in Int /\ Max(S) <= m /\ m <= Max(S)
    BY <1>3
  <1> QED BY <1>4

\* In a sequence in which each number is below the next, each is below all
\* that follow.
LEMMA Rising ==
    ASSUME NEW n \in Nat, NEW f, \A k \in 0 .. n : f[k] \in Int,
           \A k \in 1 .. n : f[k - 1] < f[k]
    PROVE  \A j, k \in 0 .. n : j < k => f[j] < f[k]
  <1> DEFINE S == {d \in Nat : \A j \in 0 .. n : j + d + 1 \in 0 .. n => f[j] < f[j + d + 1]}
  <1>1. 0 \in S
    <2> SUFFICES ASSUME NEW j \in 0 .. n, j + 0 + 1 \in 0 .. n PROVE f[j] < f[j + 0 + 1]
      OBVIOUS
    <2>1. j + 0 + 1 = j + 1 /\ j + 1 \in 1 .. n /\ (j + 1) - 1 = j
      OBVIOUS
    <2> QED BY <2>1
  <1>2. ASSUME NEW d \in Nat, d \in S PROVE d + 1 \in S
    <2> SUFFICES ASSUME NEW j \in 0 .. n, j + (d + 1) + 1 \in 0 .. n
                 PROVE  f[j] < f[j + (d + 1) + 1]
      OBVIOUS
    <2> DEFINE k == j + d + 1
    <2>1. k \in 0 .. n /\ j + (d + 1) + 1 = k + 1 /\ k + 1 \in 1 .. n /\ k + 1 \in 0 .. n /\ (k + 1) - 1 = k
      OBVIOUS
    <2>2. f[j] < f[k]
      BY <1>2, <2>1
    <2> HIDE DEF k
    <2>3. f[k] < f[k + 1]
      BY <2>1
    <2> QED BY <2>1, <2>2, <2>3
  <1>3. \A d \in Nat : d \in S
    <2> HIDE DEF S
    <2> QED BY <1>1, <1>2, SetInduction
  <1> SUFFICES ASSUME NEW j \in 0 .. n, NEW k \in 0 .. n, j < k PROVE f[j] < f[k]
    OBVIOUS
  <1> DEFINE d == k - j - 1
  <1>4. d \in Nat /\ j + d + 1 = k
    OBVIOUS
  <1>5. d \in S
    <2> HIDE DEF S, d
    <2> QED BY <1>3, <1>4
  <1> QED BY <1>4, <1>5

\* Numbers that rise are the order of the set of them.
LEMMA InOrderIs ==
    ASSUME NEW n \in Nat, NEW f \in [0 .. n -> Nat], \A k \in 1 .. n : f[k - 1] < f[k],
           NEW S, S = {f[k] : k \in 0 .. n}
    PROVE  /\ InOrder(S) \in [1 .. n + 1 -> S]
           /\ \A k \in 1 .. n + 1 : InOrder(S)[k] = f[k - 1]
  <1> DEFINE g == [k \in 1 .. n + 1 |-> f[k - 1]]
  <1>1. \A j, k \in 0 .. n : j < k => f[j] < f[k]
    <2>1. \A k \in 0 .. n : f[k] \in Int
      OBVIOUS
    <2> QED BY <2>1, Rising
  <1>2. g \in [1 .. n + 1 -> S]
    <2>1. \A k \in 1 .. n + 1 : k - 1 \in 0 .. n
      OBVIOUS
    <2> QED BY <2>1
  <1>3. \A j, k \in 1 .. n + 1 : j < k => g[j] < g[k]
    <2>1. \A j, k \in 1 .. n + 1 : j - 1 \in 0 .. n /\ k - 1 \in 0 .. n /\ (j < k => j - 1 < k - 1)
      OBVIOUS
    <2> QED BY <1>1, <2>1
  <1>4. \A x \in S : \E k \in 1 .. n + 1 : g[k] = x
    <2> SUFFICES ASSUME NEW j \in 0 .. n PROVE \E k \in 1 .. n + 1 : g[k] = f[j]
      OBVIOUS
    <2>1. j + 1 \in 1 .. n + 1 /\ (j + 1) - 1 = j
      OBVIOUS
    <2>2. g[j + 1] = f[j]
      BY <2>1
    <2> HIDE DEF g
    <2> QED BY <2>1, <2>2
  <1>5. \A x \in S : x \in Nat
    OBVIOUS
  <1> HIDE DEF g
  <1>6. Cardinality(S) = n + 1
    <2>1. \A j, k \in 1 .. n + 1 : g[j] = g[k] => j = k
      <3> SUFFICES ASSUME NEW j \in 1 .. n + 1, NEW k \in 1 .. n + 1, g[j] = g[k], j # k
                   PROVE  FALSE
        OBVIOUS
      <3>1. g[j] \in Nat /\ g[k] \in Nat
        BY <1>2, <1>5
      <3>2. ~(g[j] < g[k]) /\ ~(g[k] < g[j])
        BY <3>1
      <3>3. j < k \/ k < j
        OBVIOUS
      <3> QED BY <1>3, <3>2, <3>3
    <2>2. g \in Bijection(1 .. n + 1, S)
      BY <1>2, <1>4, <2>1 DEF Bijection, Injection, Surjection, IsInjective
    <2>3. ExistsBijection(1 .. n + 1, S)
      BY <2>2 DEF ExistsBijection
    <2> QED BY <2>3, n + 1 \in Nat, FS_CountingElements
  <1> DEFINE s == InOrder(S)
  <1>7. s \in [1 .. n + 1 -> S] /\ \A j, k \in 1 .. n + 1 : j < k => s[j] < s[k]
    <2> DEFINE P(t) == \A j, k \in 1 .. Cardinality(S) : j < k => t[j] < t[k]
    <2>1. g \in [1 .. Cardinality(S) -> S] /\ P(g)
      BY <1>2, <1>3, <1>6
    <2>2. s = CHOOSE t \in [1 .. Cardinality(S) -> S] : P(t)
      BY DEF InOrder
    <2> HIDE DEF P, s
    <2>3. s \in [1 .. Cardinality(S) -> S] /\ P(s)
      BY <2>1, <2>2
    <2> QED BY <1>6, <2>3 DEF P
  <1> HIDE DEF s
  <1>8. ASSUME NEW k \in 1 .. n + 1 PROVE s[k] \in Nat /\ g[k] \in Nat /\ \E j \in 1 .. n + 1 : s[k] = g[j]
    BY <1>2, <1>4, <1>5, <1>7
  <1>13. ASSUME NEW j \in 1 .. n + 1, NEW k \in 1 .. n + 1
         PROVE  (j <= k => g[j] <= g[k]) /\ (g[j] < g[k] => j < k)
    <2>1. g[j] \in Nat /\ g[k] \in Nat /\ (j < k => g[j] < g[k]) /\ (k < j => g[k] < g[j])
      BY <1>3, <1>8
    <2>2. CASE j = k
      BY <2>1, <2>2
    <2>3. CASE j < k
      BY <2>1, <2>3
    <2>4. CASE k < j
      BY <2>1, <2>4
    <2> QED BY <2>2, <2>3, <2>4
  <1>9. \A k \in 1 .. n + 1 : g[k] <= s[k]
    <2> DEFINE A == {m \in Nat : m + 1 \in 1 .. n + 1 => g[m + 1] <= s[m + 1]}
    <2>1. 0 \in A
      <3>1. 1 \in 1 .. n + 1 /\ 0 + 1 = 1
        OBVIOUS
      <3>2. PICK j \in 1 .. n + 1 : s[1] = g[j]
        BY <1>8, <3>1
      <3>3. g[1] <= g[j]
        <4>1. 1 <= j
          OBVIOUS
        <4> QED BY <1>13, <3>1, <4>1
      <3> QED BY <3>1, <3>2, <3>3
    <2>2. ASSUME NEW m \in Nat, m \in A PROVE m + 1 \in A
      <3> SUFFICES ASSUME (m + 1) + 1 \in 1 .. n + 1 PROVE g[(m + 1) + 1] <= s[(m + 1) + 1]
        OBVIOUS
      <3> DEFINE q == m + 1
      <3>1. q \in 1 .. n + 1 /\ q + 1 \in 1 .. n + 1 /\ q < q + 1 /\ (m + 1) + 1 = q + 1
        OBVIOUS
      <3>2. g[q] <= s[q]
        BY <2>2, <3>1
      <3> HIDE DEF q
      <3>3. s[q] < s[q + 1]
        BY <1>7, <3>1
      <3>4. PICK j \in 1 .. n + 1 : s[q + 1] = g[j]
        BY <1>8, <3>1
      <3>5. g[q] < g[j] /\ g[j] \in Nat /\ g[q] \in Nat
        <4>1. g[j] \in Nat /\ g[q] \in Nat /\ s[q] \in Nat /\ s[q + 1] \in Nat
          BY <1>8, <3>1
        <4> QED BY <3>2, <3>3, <3>4, <4>1
      <3>6. q < j
        BY <1>13, <3>1, <3>5
      <3>7. q + 1 <= j
        BY <3>1, <3>6
      <3>8. g[q + 1] <= g[j]
        BY <1>13, <3>1, <3>7
      <3> QED BY <3>1, <3>4, <3>8
    <2>3. \A m \in Nat : m \in A
      <3> HIDE DEF A
      <3> QED BY <2>1, <2>2, SetInduction
    <2> SUFFICES ASSUME NEW k \in 1 .. n + 1 PROVE g[k] <= s[k]
      OBVIOUS
    <2>4. k - 1 \in Nat /\ (k - 1) + 1 = k
      OBVIOUS
    <2>5. k - 1 \in A
      <3> HIDE DEF A
      <3> QED BY <2>3, <2>4
    <2> QED BY <2>4, <2>5
  <1>10. \A k \in 1 .. n + 1 : s[k] <= g[k]
    <2> DEFINE A == {m \in Nat : n + 1 - m \in 1 .. n + 1 => s[n + 1 - m] <= g[n + 1 - m]}
    <2>1. 0 \in A
      <3> DEFINE q == n + 1
      <3>1. q \in 1 .. n + 1 /\ n + 1 - 0 = q
        OBVIOUS
      <3>2. PICK j \in 1 .. n + 1 : s[q] = g[j]
        BY <1>8, <3>1
      <3>3. g[j] <= g[q]
        <4>1. j <= q
          OBVIOUS
        <4> QED BY <1>13, <3>1, <4>1
      <3> QED BY <3>1, <3>2, <3>3
    <2>2. ASSUME NEW m \in Nat, m \in A PROVE m + 1 \in A
      <3> SUFFICES ASSUME n + 1 - (m + 1) \in 1 .. n + 1
                   PROVE  s[n + 1 - (m + 1)] <= g[n + 1 - (m + 1)]
        OBVIOUS
      <3> DEFINE q == n + 1 - (m + 1)
      <3>1. q \in 1 .. n + 1 /\ q + 1 \in 1 .. n + 1 /\ q < q + 1 /\ n + 1 - m = q + 1
        OBVIOUS
      <3>2. s[q + 1] <= g[q + 1]
        BY <2>2, <3>1
      <3> HIDE DEF q
      <3>3. s[q] < s[q + 1]
        BY <1>7, <3>1
      <3>4. PICK j \in 1 .. n + 1 : s[q] = g[j]
        BY <1>8, <3>1
      <3>5. g[j] < g[q + 1] /\ g[j] \in Nat /\ g[q + 1] \in Nat
        <4>1. g[j] \in Nat /\ g[q + 1] \in Nat /\ s[q] \in Nat /\ s[q + 1] \in Nat
          BY <1>8, <3>1
        <4> QED BY <3>2, <3>3, <3>4, <4>1
      <3>6. j < q + 1
        BY <1>13, <3>1, <3>5
      <3>7. j <= q
        BY <3>1, <3>6
      <3>8. g[j] <= g[q]
        BY <1>13, <3>1, <3>7
      <3> QED BY <3>1, <3>4, <3>8 DEF q
    <2>3. \A m \in Nat : m \in A
      <3> HIDE DEF A
      <3> QED BY <2>1, <2>2, SetInduction
    <2> SUFFICES ASSUME NEW k \in 1 .. n + 1 PROVE s[k] <= g[k]
      OBVIOUS
    <2>4. n + 1 - k \in Nat /\ n + 1 - (n + 1 - k) = k
      OBVIOUS
    <2>5. n + 1 - k \in A
      <3> HIDE DEF A
      <3> QED BY <2>3, <2>4
    <2> QED BY <2>4, <2>5
  <1>11. \A k \in 1 .. n + 1 : s[k] = g[k]
    <2> SUFFICES ASSUME NEW k \in 1 .. n + 1 PROVE s[k] = g[k]
      OBVIOUS
    <2>1. s[k] \in Nat /\ g[k] \in Nat /\ s[k] <= g[k] /\ g[k] <= s[k]
      BY <1>8, <1>9, <1>10
    <2> QED BY <2>1
  <1>12. \A k \in 1 .. n + 1 : g[k] = f[k - 1]
    BY DEF g
  <1> QED BY <1>7, <1>11, <1>12 DEF s

\* Nothing is left of no text.
LEMMA NothingIsLeft == NoBlanks(<< >>) = << >>
  <1> DEFINE P(t) == t = [s \in SUBSET DOMAIN << >> |->
                            IF s = {} THEN << >>
                            ELSE LET x == Max(s)
                                 IN  IF << >>[x] = space THEN t[s \ {x}]
                                     ELSE Append(t[s \ {x}], << >>[x])]
             t == CHOOSE t : P(t)
  <1>1. NoBlanks(<< >>) = t[DOMAIN << >>]
    BY DEF NoBlanks, FoldLeft, MapThenFoldSet
  <1>2. DOMAIN << >> = {} /\ SUBSET DOMAIN << >> = {{}}
    OBVIOUS
  <1>3. P([s \in {{}} |-> << >>])
    BY <1>2
  <1> HIDE DEF P
  <1>4. P(t)
    BY <1>3
  <1> QED BY <1>1, <1>2, <1>4 DEF P

\* Where a text is found.
LEMMA PositionIs ==
    ASSUME NEW S, NEW line \in Seq(S), NEW text \in Seq(S)
    PROVE  Positions(line, text) = {k \in 1 .. Len(line) - Len(text) + 1 :
                                      \A j \in 1 .. Len(text) : line[k + j - 1] = text[j]}
  <1> DEFINE n == Len(text)
  <1>1. n \in Nat /\ Len(line) \in Nat
    OBVIOUS
  <1> SUFFICES ASSUME NEW k \in 1 .. Len(line) - n + 1
               PROVE  SubSeq(line, k, k + n - 1) = text
                        <=> \A j \in 1 .. n : line[k + j - 1] = text[j]
    BY DEF Positions
  <1> DEFINE p == SubSeq(line, k, k + n - 1)
             e == k + n - 1
  <1>2. k \in Int /\ e \in Int /\ (\A j \in k .. e : j \in 1 .. Len(line)) /\ e - k + 1 = n
        /\ (IF k <= e THEN e - k + 1 ELSE 0) = n
    BY <1>1
  <1>3. p \in Seq(S) /\ Len(p) = n /\ \A j \in 1 .. n : p[j] = line[k + j - 1]
    <2>1. \A j \in k .. e : line[j] \in S
      BY <1>2
    <2> HIDE DEF e, n
    <2>2. /\ SubSeq(line, k, e) \in Seq(S)
          /\ Len(SubSeq(line, k, e)) = IF k <= e THEN e - k + 1 ELSE 0
          /\ \A j \in 1 .. e - k + 1 : SubSeq(line, k, e)[j] = line[k + j - 1]
      BY <1>2, <2>1, SubSeqProperties
    <2> QED BY <1>2, <2>2 DEF e
  <1> HIDE DEF p
  <1>4. p = text <=> \A j \in 1 .. n : p[j] = text[j]
    BY <1>3, SeqEqual
  <1> QED BY <1>3, <1>4 DEF p

\* A text without main and '_'.
Plain(text) == text # << >> /\ \A j \in 1 .. Len(text) : text[j] \notin {"main", "_"}

\* Such a text is found in a line only where it was before.
LEMMA FoundBefore ==
    ASSUME NEW line \in Line, NEW text \in Line, Plain(text),
           Has(Renamed(line), text)
    PROVE  Has(line, text)
  <1> DEFINE r == Renamed(line)
             n == Len(text)
             pos == find(line, main, 1)
  <1>1. CASE ~Underscored(line)
    BY <1>1, NotRenamed
  <1>2. CASE Underscored(line)
    <2>1. r \in Line /\ Around(r, line, pos)
      BY <1>2, RenamedLine
    <2>2. Len(line) \in Nat /\ n \in Nat /\ n # 0
      <3>1. line \in Seq(Atoms) /\ text \in Seq(Atoms)
        BY DEF Line
      <3>2. Len(text) \in Nat \ {0} /\ Len(line) \in Nat
        <4>1. text # << >>
          BY Zenon DEF Plain
        <4> QED BY ONLY <3>1, <4>1, EmptySeq
      <3> QED BY <3>2
    <2> HIDE DEF r, pos
    <2>3. PICK w \in 1 .. Len(r) - n + 1 : \A j \in 1 .. n : r[w + j - 1] = text[j]
      <3>1. r \in Seq(Atoms) /\ text \in Seq(Atoms) /\ Positions(r, text) # {}
        BY <2>1 DEF Has, Line, r
      <3>2. Positions(r, text) = {k \in 1 .. Len(r) - n + 1 :
                                    \A j \in 1 .. n : r[k + j - 1] = text[j]}
        BY ONLY <3>1, PositionIs
      <3> QED BY <3>1, <3>2
    <2>10. w \in 1 .. Len(r) - n + 1
      BY <2>3
    <2> HIDE DEF n
    <2>4. pos \in 1 .. Len(line) /\ Len(r) = Len(line) + 4
      BY <2>1 DEF Around
    <2>5. \A j \in 1 .. n : r[w + j - 1] \notin {"main", "_"}
      BY <2>3 DEF n, Plain
    <2>6. \A k \in pos .. pos + 4 : r[k] \in {"main", "_"}
      <3> SUFFICES ASSUME NEW k \in pos .. pos + 4 PROVE r[k] \in {"main", "_"}
        OBVIOUS
      <3>1. k \in {pos, pos + 1, pos + 2, pos + 3, pos + 4}
        BY <2>2, <2>4
      <3> QED BY <2>1, <3>1 DEF Around
    <2>7. w + n - 1 < pos \/ w > pos + 4
      <3> SUFFICES ASSUME w + n - 1 >= pos, w <= pos + 4 PROVE FALSE
        BY <2>2, <2>4, <2>10
      <3>1. CASE w >= pos
        <4>1. w \in pos .. pos + 4 /\ 1 \in 1 .. n /\ w + 1 - 1 = w
          BY <2>2, <2>4, <2>10, <3>1
        <4> QED BY <2>5, <2>6, <4>1
      <3>2. CASE w < pos
        <4>1. pos \in pos .. pos + 4 /\ pos - w + 1 \in 1 .. n /\ w + (pos - w + 1) - 1 = pos
          BY <2>2, <2>4, <2>10, <3>2
        <4> QED BY <2>5, <2>6, <4>1
      <3> QED BY <2>2, <2>4, <2>10, <3>1, <3>2
    <2>8. \E k \in 1 .. Len(line) - n + 1 : \A j \in 1 .. n : line[k + j - 1] = text[j]
      <3>1. CASE w + n - 1 < pos
        <4>1. w \in 1 .. Len(line) - n + 1
          BY <2>2, <2>4, <2>10, <3>1
        <4>2. \A j \in 1 .. n : w + j - 1 \in 1 .. pos - 1
          BY <2>2, <2>4, <2>10, <3>1
        <4>3. \A j \in 1 .. n : line[w + j - 1] = text[j]
          BY <2>1, <2>3, <4>2 DEF Around
        <4> QED BY <4>1, <4>3
      <3>2. CASE w > pos + 4
        <4>1. w - 4 \in 1 .. Len(line) - n + 1
          BY <2>2, <2>4, <2>10, <3>2
        <4>2. \A j \in 1 .. n : w + j - 1 \in pos + 5 .. Len(line) + 4 /\ (w + j - 1) - 4 = (w - 4) + j - 1
          BY <2>2, <2>4, <2>10, <3>2
        <4>3. \A j \in 1 .. n : line[(w - 4) + j - 1] = text[j]
          BY <2>1, <2>3, <4>2 DEF Around
        <4> QED BY <4>1, <4>3
      <3> QED BY <2>7, <3>1, <3>2
    <2>9. \E k : k \in Positions(line, text)
      <3>1. Positions(line, text) = {k \in 1 .. Len(line) - n + 1 :
                                       \A j \in 1 .. n : line[k + j - 1] = text[j]}
        BY line \in Seq(Atoms), text \in Seq(Atoms), PositionIs DEF Line, n
      <3> QED BY <2>8, <3>1
    <2> QED BY <2>9 DEF Has
  <1> QED BY <1>1, <1>2

\* A line with one main at most, and a name with main and more, but no '_'.
Single(line) == \A j, k \in 1 .. Len(line) : line[j] = "main" /\ line[k] = "main" => j = k
MainWithin(name) == /\ Len(name) > 1 /\ \E q \in 1 .. Len(name) : name[q] = "main"
                /\ \A j \in 1 .. Len(name) : name[j] # "_"

\* A name that has main in it, but no '_', is not found where main was renamed.
LEMMA NotFound ==
    ASSUME NEW line \in Line, Underscored(line), Single(line),
           NEW name \in Line, MainWithin(name)
    PROVE  ~Has(Renamed(line), name)
  <1> DEFINE r == Renamed(line)
             n == Len(name)
             pos == find(line, main, 1)
  <1>1. r \in Line /\ Around(r, line, pos) /\ First(line, pos)
    BY RenamedLine, FindsFirst DEF Underscored
  <1>2. Len(line) \in Nat /\ n \in Nat
    BY DEF Line
  <1>3. PICK q \in 1 .. n : name[q] = "main"
    BY DEF MainWithin
  <1>4. n > 1 /\ \A j \in 1 .. n : name[j] # "_"
    BY DEF MainWithin
  <1>5. \A j, k \in 1 .. Len(line) : line[j] = "main" /\ line[k] = "main" => j = k
    BY DEF Single
  <1> HIDE DEF r, pos
  <1>6. pos \in 1 .. Len(line) /\ Len(r) = Len(line) + 4
    BY <1>1 DEF Around
  <1> SUFFICES ASSUME NEW w, w \in Positions(r, name) PROVE FALSE
    BY DEF Has, r
  <1>7. w \in 1 .. Len(r) - n + 1 /\ \A j \in 1 .. n : r[w + j - 1] = name[j]
    <2>1. r \in Seq(Atoms) /\ name \in Seq(Atoms)
      BY <1>1 DEF Line
    <2>2. Positions(r, name) = {k \in 1 .. Len(r) - n + 1 :
                                  \A j \in 1 .. n : r[k + j - 1] = name[j]}
      BY ONLY <2>1, PositionIs
    <2> QED BY <2>2
  <1> HIDE DEF n
  <1> DEFINE e == w + q - 1
  <1>8. q \in 1 .. n /\ w \in 1 .. Len(r) - n + 1 /\ e \in 1 .. Len(line) + 4 /\ r[e] = "main"
    <2>1. q \in 1 .. n /\ w \in 1 .. Len(r) - n + 1 /\ r[e] = "main"
      BY <1>3, <1>7
    <2> QED BY <1>2, <1>6, <2>1
  <1>9. e = pos + 2
    <2> HIDE DEF e
    <2>1. \/ e \in 1 .. pos - 1 \/ e \in {pos, pos + 1, pos + 3, pos + 4} \/ e = pos + 2
          \/ e \in pos + 5 .. Len(line) + 4
      BY <1>2, <1>6, <1>8
    <2>2. CASE e \in 1 .. pos - 1
      BY <1>1, <1>8, <2>2 DEF Around, First
    <2>3. CASE e \in {pos, pos + 1, pos + 3, pos + 4}
      BY <1>1, <1>8, <2>3 DEF Around
    <2>4. CASE e \in pos + 5 .. Len(line) + 4
      <3>1. line[e - 4] = "main" /\ line[pos] = "main"
        BY <1>1, <1>8, <2>4 DEF Around, First
      <3>2. e - 4 \in 1 .. Len(line) /\ e - 4 # pos
        BY <1>2, <1>6, <2>4
      <3> QED BY <1>5, <1>6, <3>1, <3>2
    <2> QED BY <2>1, <2>2, <2>3, <2>4
  <1>10. CASE q > 1
    <2>1. q - 1 \in 1 .. n /\ w + (q - 1) - 1 = pos + 1
      BY <1>2, <1>6, <1>8, <1>9, <1>10
    <2>2. r[pos + 1] = name[q - 1]
      BY <1>7, <2>1
    <2> QED BY <1>1, <1>4, <2>1, <2>2 DEF Around
  <1>11. CASE q = 1
    <2>1. 2 \in 1 .. n /\ w + 2 - 1 = pos + 3
      <3>1. w \in 1 .. Len(r) - n + 1 /\ n > 1
        BY <1>4, <1>8
      <3> QED BY <1>2, <1>6, <1>9, <1>11, <3>1
    <2>2. r[pos + 3] = name[2]
      BY <1>7, <2>1
    <2> QED BY <1>1, <1>4, <2>1, <2>2 DEF Around
  <1> QED BY <1>8, <1>10, <1>11

\* Nothing is left of a part that ends before it begins.
LEMMA EmptyPart ==
    ASSUME NEW line, NEW a \in Int, NEW b \in Int, b < a
    PROVE  NoBlanks(SubSeq(line, a, b)) = << >>
  BY SubSeqEmpty, NothingIsLeft

\* The marks differ.
LEMMA MarksDiffer == /\ space # comma /\ space # "*" /\ space # "(" /\ space # ")" /\ space # "_"
                     /\ comma # "*" /\ comma # "(" /\ comma # ")" /\ "void" # space
                     /\ brace # "main" /\ brace # "_"
  BY Zenon DEF space, comma, brace

\* Two stops of a line with neither a comma nor a ')' between them, and a blank
\* or a '*' before.
Neighbours(line, a, b) ==
    /\ a \in 1 .. Len(line) /\ b \in 1 .. Len(line) /\ a < b
    /\ line[b] \in {comma, ")"}
    /\ \A k \in a + 1 .. b - 1 : line[k] \notin {comma, ")"}
    /\ \E k \in 1 .. a : line[k] \in {space, "*"}

\* A parameter is read as it is declared, and void with an empty type.
LEMMA ParameterIs ==
    ASSUME NEW line \in Line, NEW a, NEW b, Neighbours(line, a, b),
           NEW p, DeclaresOne(line, a, b, p)
    PROVE  \/ parameter(line, a + 1, b) = p
           \/ p.type = <<"void">> /\ parameter(line, a + 1, b).type = << >>
  <1>1. /\ Len(line) \in Nat /\ a \in 1 .. Len(line) /\ b \in 1 .. Len(line) /\ a < b
    <2>1. Len(line) \in Nat
      BY DEF Line
    <2>2. a \in 1 .. Len(line) /\ b \in 1 .. Len(line) /\ a < b
      BY Zenon DEF Neighbours
    <2> QED BY <2>1, <2>2
  <1>2. PICK first \in a + 1 .. b - 1, end \in a + 1 .. b - 1 :
          /\ \A k \in a + 1 .. b - 1 : line[k] = space \/ k \in first .. end
          /\ line[first] # space
          /\ \/ /\ first = end /\ line[first] = "void"
                /\ p = [type |-> <<"void">>, name |-> << >>]
             \/ \E last \in first .. end - 1 :
                  /\ line[last] \in {space, "*"}
                  /\ \A k \in last + 1 .. end : line[k] \notin {space, "*"}
                  /\ p = [type |-> NoBlanks(SubSeq(line, first, last)),
                          name |-> NoBlanks(SubSeq(line, last + 1, end))]
    BY DEF DeclaresOne
  <1>10. line[b] \in {comma, ")"} /\ \A k \in a + 1 .. b - 1 : line[k] \notin {comma, ")"}
    BY DEF Neighbours
  <1>11. first \in a + 1 .. b - 1 /\ end \in a + 1 .. b - 1
    BY <1>2
  <1> DEFINE Before == {k \in a + 1 .. Len(line) : line[k] # space}
             Used == {k \in 1 .. b : line[k] \notin {space, comma, ")"}}
             Ending(e) == {k \in 1 .. e : line[k] \in {space, "*"}}
             blankPos == Max(Ending(Max(Used)))
  <1>3. parameter(line, a + 1, b) = [type |-> NoBlanks(SubSeq(line, Min(Before), blankPos)),
                                     name |-> NoBlanks(SubSeq(line, blankPos + 1, Max(Used)))]
    BY DEF parameter, EndsType
  <1> HIDE DEF blankPos
  <1>4. Min(Before) = first
    <2>1. Before \in SUBSET Int /\ first \in Before
      BY <1>1, <1>2
    <2>2. \A k \in Before : first <= k
      <3> SUFFICES ASSUME NEW k \in a + 1 .. Len(line), line[k] # space, k < first PROVE FALSE
        BY <1>1, <1>11
      <3>1. k \in a + 1 .. b - 1 /\ k \notin first .. end
        BY <1>1, <1>11
      <3> QED BY <1>2, <3>1
    <2> HIDE DEF Before
    <2> QED BY <2>1, <2>2, MinIs
  <1>5. first <= end /\ line[end] \notin {space, comma, ")"}
    <2>1. line[end] \notin {comma, ")"}
      BY <1>10, <1>11
    <2>2. CASE first = end
      BY <1>2, <2>1, <2>2
    <2>3. CASE first # end
      <3>1. PICK last \in first .. end - 1 :
              \A k \in last + 1 .. end : line[k] \notin {space, "*"}
        BY <1>2, <2>3
      <3>2. end \in last + 1 .. end /\ first <= end
        BY <1>1, <1>11, <3>1
      <3> QED BY <2>1, <3>1, <3>2
    <2> QED BY <1>1, <1>11, <2>1, <2>2, <2>3
  <1>6. Max(Used) = end
    <2>1. Used \in SUBSET Int /\ end \in Used
      BY <1>1, <1>11, <1>5
    <2>2. ASSUME NEW k \in Used PROVE k <= end
      <3> SUFFICES ASSUME k > end PROVE FALSE
        BY <1>1, <1>11
      <3>1. k \in 1 .. b /\ line[k] \notin {space, comma, ")"}
        OBVIOUS
      <3>2. k # b
        BY <1>10, <3>1
      <3>3. k \in a + 1 .. b - 1 /\ k \notin first .. end
        BY <1>1, <1>11, <3>1, <3>2
      <3> QED BY <1>2, <3>1, <3>3
    <2> HIDE DEF Used
    <2>3. \A k \in Used : k <= end
      BY <2>2
    <2> QED BY <2>1, <2>3, MaxIs
  <1> HIDE DEF Before, Used
  <1>7. blankPos = Max(Ending(end))
    BY <1>6 DEF blankPos
  <1>8. CASE \E last \in first .. end - 1 :
               /\ line[last] \in {space, "*"}
               /\ \A k \in last + 1 .. end : line[k] \notin {space, "*"}
               /\ p = [type |-> NoBlanks(SubSeq(line, first, last)),
                       name |-> NoBlanks(SubSeq(line, last + 1, end))]
    <2>1. PICK last \in first .. end - 1 :
            /\ line[last] \in {space, "*"}
            /\ \A k \in last + 1 .. end : line[k] \notin {space, "*"}
            /\ p = [type |-> NoBlanks(SubSeq(line, first, last)),
                    name |-> NoBlanks(SubSeq(line, last + 1, end))]
      BY <1>8
    <2>2. Ending(end) \in SUBSET Int /\ last \in Ending(end)
      BY <1>1, <1>11, <2>1
    <2>3. \A k \in Ending(end) : k <= last
      <3> SUFFICES ASSUME NEW k \in 1 .. end, line[k] \in {space, "*"}, k > last PROVE FALSE
        BY <1>1, <1>11, <2>1
      <3>1. k \in last + 1 .. end
        BY <1>1, <1>11, <2>1
      <3> QED BY <2>1, <3>1
    <2>4. blankPos = last
      <3> HIDE DEF Ending
      <3> QED BY <1>7, <2>2, <2>3, MaxIs
    <2> QED BY <1>3, <1>4, <1>6, <2>1, <2>4
  <1>9. CASE /\ first = end /\ line[first] = "void"
             /\ p = [type |-> <<"void">>, name |-> << >>]
    <2>1. first \in Nat /\ a \in Nat /\ a < first
      BY <1>1, <1>11
    <2>2. Ending(end) \in SUBSET (0 .. first) /\ Ending(end) # {} /\ first \notin Ending(end)
      <3>1. \E k : k \in Ending(end)
        <4>1. PICK k \in 1 .. a : line[k] \in {space, "*"}
          BY DEF Neighbours
        <4>2. k \in 1 .. end
          BY <1>9, <2>1, <4>1
        <4> QED BY <4>1, <4>2
      <3>2. first \notin Ending(end)
        BY <1>9, MarksDiffer
      <3>3. Ending(end) \in SUBSET (0 .. first)
        BY <1>9, <2>1
      <3> QED BY <3>1, <3>2, <3>3
    <2>3. blankPos \in Ending(end)
      <3> HIDE DEF Ending
      <3> QED BY <1>7, <2>1, <2>2, LastPosition
    <2>4. blankPos \in Int /\ blankPos < first
      <3> HIDE DEF Ending
      <3>1. blankPos \in 0 .. first /\ blankPos # first
        BY <2>2, <2>3
      <3> QED BY <2>1, <3>1
    <2>5. NoBlanks(SubSeq(line, first, blankPos)) = << >>
      BY <2>1, <2>4, EmptyPart
    <2>6. parameter(line, a + 1, b).type = << >>
      BY <1>3, <1>4, <2>5
    <2> QED BY <1>9, <2>6
  <1> QED BY <1>2, <1>8, <1>9

\* The two types of void are none of those that are supported.
LEMMA NotSupported == <<"void">> \notin SupportedTypes /\ << >> \notin SupportedTypes
  BY DEF SupportedTypes

\* A definition has these parameters, with their stops.
DeclaresAt(line, name, params, n, stops, last, k) ==
    /\ stops \in [0 .. n -> {j \in DOMAIN line : line[j] \in {"(", comma, ")"}}]
    /\ last = IF n = 0 THEN stops[0] + 1 ELSE stops[n]
    /\ k \in Positions(line, name) /\ k + Len(name) <= stops[0]
    /\ line[k - 1] \in {space, "*"} /\ \E j \in 1 .. k - 2 : line[j] # space
    /\ line[stops[0]] = "(" /\ \A j \in 1 .. stops[0] - 1 : line[j] # "("
    /\ last \in DOMAIN line /\ line[last] = ")"
    /\ \A j \in 1 .. n : stops[j - 1] < stops[j]
    /\ \A j \in stops[0] + 1 .. last - 1 :
          line[j] # ")" /\ (line[j] = comma <=> \E m \in 1 .. n - 1 : stops[m] = j)
    /\ \A j \in 1 .. n : DeclaresOne(line, stops[j - 1], stops[j], params[j])

\* It does so somewhere.
LEMMA DeclaredAt ==
    ASSUME NEW line, NEW name, NEW params, Declares(line, name, params)
    PROVE  \E stops, last, k : DeclaresAt(line, name, params, Len(params), stops, last, k)
  BY DEF Declares, DeclaresAt

\* The numbers among them.
LEMMA StopsType ==
    ASSUME NEW line \in Line, NEW name \in Line, NEW params, NEW n \in Nat,
           NEW stops, NEW last, NEW k, DeclaresAt(line, name, params, n, stops, last, k)
    PROVE  /\ Len(line) \in Nat /\ stops \in [0 .. n -> Nat]
           /\ \A j \in 0 .. n : stops[j] \in 1 .. Len(line)
           /\ last \in 1 .. Len(line)
           /\ \A j, m \in 0 .. n : j < m => stops[j] < stops[m]
           /\ n = 0 => last = stops[0] + 1
           /\ n # 0 => last = stops[n] /\ stops[0] + 1 < last
           /\ stops[0] < last
           /\ k \in Positions(line, name) /\ k \in Int /\ 2 < k /\ k <= stops[0]
  <1>1. Len(line) \in Nat /\ DOMAIN line = 1 .. Len(line) /\ Len(name) \in Nat
    BY DEF Line
  <1>2. stops \in [0 .. n -> 1 .. Len(line)]
    <2>1. stops \in [0 .. n -> {j \in DOMAIN line : line[j] \in {"(", comma, ")"}}]
      BY Zenon DEF DeclaresAt
    <2>2. {j \in DOMAIN line : line[j] \in {"(", comma, ")"}} \subseteq 1 .. Len(line)
      BY <1>1
    <2> HIDE <1>1
    <2> QED BY <2>1, <2>2
  <1>3. stops \in [0 .. n -> Nat] /\ \A j \in 0 .. n : stops[j] \in 1 .. Len(line) /\ stops[j] \in Int
    BY <1>1, <1>2
  <1>4. \A j \in 1 .. n : stops[j - 1] < stops[j]
    BY Zenon DEF DeclaresAt
  <1>5. \A j, m \in 0 .. n : j < m => stops[j] < stops[m]
    BY <1>3, <1>4, Rising
  <1>6. last \in 1 .. Len(line) /\ last = IF n = 0 THEN stops[0] + 1 ELSE stops[n]
    BY <1>1, Zenon DEF DeclaresAt
  <1>7. n # 0 => stops[0] + 1 < last
    <2> SUFFICES ASSUME n # 0 PROVE stops[0] + 1 < last
      OBVIOUS
    <2>1. 1 \in 1 .. n /\ 1 - 1 = 0 /\ 1 \in 0 .. n /\ n \in 0 .. n /\ 0 \in 0 .. n
      OBVIOUS
    <2>2. DeclaresOne(line, stops[1 - 1], stops[1], params[1])
      BY <2>1, Zenon DEF DeclaresAt
    <2>3. PICK first : first \in stops[0] + 1 .. stops[1] - 1
      BY <2>1, <2>2 DEF DeclaresOne
    <2>4. stops[0] + 1 < stops[1] /\ stops[1] <= stops[n]
      <3>1. stops[0] \in Int /\ stops[1] \in Int /\ stops[n] \in Int /\ (1 < n => stops[1] < stops[n])
        BY <1>3, <1>5, <2>1
      <3>2. 1 = n \/ 1 < n
        BY <2>1
      <3> QED BY <2>3, <3>1, <3>2
    <2>5. last \in Int /\ last = stops[n] /\ stops[0] \in Int /\ stops[1] \in Int
      BY <1>3, <1>6, <2>1
    <2> QED BY <2>4, <2>5
  <1>8. k \in Positions(line, name) /\ k + Len(name) <= stops[0] /\ \E j \in 1 .. k - 2 : line[j] # space
    BY Zenon DEF DeclaresAt
  <1>9. k \in Int /\ 2 < k /\ k <= stops[0]
    <2>1. k \in 1 .. Len(line) - Len(name) + 1
      BY <1>8, Zenon DEF Positions
    <2>2. PICK j : j \in 1 .. k - 2
      BY <1>8
    <2>3. stops[0] \in Int
      BY <1>3
    <2>4. k + Len(name) <= stops[0]
      BY <1>8
    <2> QED BY <1>1, <2>1, <2>2, <2>3, <2>4
  <1>10. stops[0] < last
    <2>1. stops[0] \in Int /\ last \in Int
      BY <1>1, <1>3, <1>6
    <2> QED BY <1>6, <1>7, <2>1
  <1> QED BY <1>1, <1>3, <1>5, <1>6, <1>7, <1>8, <1>9, <1>10

\* The parentheses are found.
LEMMA ParenthesesAre ==
    ASSUME NEW line \in Line, NEW name \in Line, NEW params, NEW n \in Nat,
           NEW stops, NEW last, NEW k, DeclaresAt(line, name, params, n, stops, last, k)
    PROVE  paraStart(line, name) = stops[0] /\ paraEnd(line, name) = last
  <1> DEFINE P == {j \in Positions(line, name) : j >= 1}
             f == find(line, name, 1)
  <1>1. /\ Len(line) \in Nat /\ stops[0] \in 1 .. Len(line) /\ last \in 1 .. Len(line)
        /\ stops[0] < last /\ k \in Positions(line, name) /\ k \in Int /\ 2 < k /\ k <= stops[0]
    BY StopsType
  <1>2. f \in Int /\ f <= stops[0]
    <2>1. P \in SUBSET Nat /\ k \in P
      <3>1. Len(name) \in Nat
        BY DEF Line
      <3>2. \A j \in Positions(line, name) : j \in Nat
        BY <1>1, <3>1 DEF Positions
      <3>3. k \in Nat /\ k >= 1
        BY <1>1
      <3> QED BY <1>1, <3>2, <3>3
    <2>2. f = Min(P)
      BY DEF find
    <2> HIDE DEF P, f
    <2>3. PICK m \in P : \A j \in P : m <= j
      BY <2>1, LeastElement
    <2>4. P \in SUBSET Int
      BY <2>1
    <2>5. Min(P) = m
      BY <2>3, <2>4, MinIs
    <2>6. m \in Int /\ m <= k
      BY <2>1, <2>3
    <2> QED BY <1>1, <2>2, <2>5, <2>6
  <1> HIDE DEF f
  <1>3. "(" \in Atoms /\ ")" \in Atoms
    BY ProgramsAssumption, Zenon DEF Marks
  <1>4. paraStart(line, name) = stops[0]
    <2> DEFINE O == {j \in Positions(line, <<"(">>) : j >= f}
    <2>1. O = {j \in 1 .. Len(line) : line[j] = "(" /\ j >= f}
      <3>1. Positions(line, <<"(">>) = {j \in 1 .. Len(line) : line[j] = "("}
        BY <1>3, Found
      <3> QED BY <3>1
    <2>2. paraStart(line, name) = Min(O)
      BY DEF paraStart, find, f
    <2> HIDE DEF O
    <2>3. line[stops[0]] = "(" /\ \A j \in 1 .. stops[0] - 1 : line[j] # "("
      BY Zenon DEF DeclaresAt
    <2>4. O \in SUBSET Int /\ stops[0] \in O
      BY <1>1, <1>2, <2>1, <2>3
    <2>5. \A j \in O : stops[0] <= j
      <3> SUFFICES ASSUME NEW j \in O, ~(stops[0] <= j) PROVE FALSE
        OBVIOUS
      <3>1. j \in 1 .. stops[0] - 1 /\ line[j] = "("
        BY <1>1, <2>1
      <3> QED BY <2>3, <3>1
    <2> QED BY <2>2, <2>4, <2>5, MinIs
  <1>5. paraEnd(line, name) = last
    <2> DEFINE E == {j \in Positions(line, <<")">>) : j >= stops[0]}
    <2>1. E = {j \in 1 .. Len(line) : line[j] = ")" /\ j >= stops[0]}
      <3>1. Positions(line, <<")">>) = {j \in 1 .. Len(line) : line[j] = ")"}
        BY <1>3, Found
      <3> QED BY <3>1
    <2>2. paraEnd(line, name) = Min(E)
      BY <1>4 DEF paraEnd, find
    <2> HIDE DEF E
    <2>3. /\ line[stops[0]] = "(" /\ line[last] = ")"
          /\ \A j \in stops[0] + 1 .. last - 1 : line[j] # ")"
      BY Zenon DEF DeclaresAt
    <2>4. E \in SUBSET Int /\ last \in E
      BY <1>1, <2>1, <2>3
    <2>5. \A j \in E : last <= j
      <3> SUFFICES ASSUME NEW j \in E, ~(last <= j) PROVE FALSE
        OBVIOUS
      <3>1. line[j] = ")" /\ (j = stops[0] \/ j \in stops[0] + 1 .. last - 1)
        BY <1>1, <2>1
      <3> QED BY <2>3, <3>1
    <2> QED BY <2>2, <2>4, <2>5, MinIs
  <1> QED BY <1>4, <1>5

\* The parameters are read as they are declared, one by one.
LEMMA EachParameter ==
    ASSUME NEW line \in Line, NEW name \in Line, NEW params, NEW n \in Nat, n # 0,
           NEW stops, NEW last, NEW k, DeclaresAt(line, name, params, n, stops, last, k)
    PROVE  /\ getFunctionParameters(line, name)
                = [j \in 1 .. n |-> parameter(line, stops[j - 1] + 1, stops[j])]
           /\ \A j \in 1 .. n :
                 \/ parameter(line, stops[j - 1] + 1, stops[j]) = params[j]
                 \/ /\ params[j].type = <<"void">>
                    /\ parameter(line, stops[j - 1] + 1, stops[j]).type = << >>
  <1>1. /\ Len(line) \in Nat /\ stops \in [0 .. n -> Nat] /\ last \in 1 .. Len(line)
        /\ \A j \in 0 .. n : stops[j] \in 1 .. Len(line)
        /\ \A j, m \in 0 .. n : j < m => stops[j] < stops[m]
        /\ last = stops[n] /\ stops[0] + 1 < last
        /\ k \in Int /\ 2 < k /\ k <= stops[0]
    BY StopsType
  <1>2. /\ line[stops[0]] = "(" /\ line[last] = ")"
        /\ \A j \in stops[0] + 1 .. last - 1 :
              line[j] # ")" /\ (line[j] = comma <=> \E m \in 1 .. n - 1 : stops[m] = j)
    BY Zenon DEF DeclaresAt
  <1>3. \A j \in 1 .. n : j \in 0 .. n /\ j - 1 \in 0 .. n /\ stops[j - 1] < stops[j]
    <2>1. \A j \in 1 .. n : j \in 0 .. n /\ j - 1 \in 0 .. n /\ j - 1 < j
      OBVIOUS
    <2> QED BY <1>1, <2>1
  <1>4. \A m \in 1 .. n - 1 : stops[m] \in stops[0] + 1 .. last - 1
    <2> SUFFICES ASSUME NEW m \in 1 .. n - 1 PROVE stops[m] \in stops[0] + 1 .. last - 1
      OBVIOUS
    <2>1. 0 \in 0 .. n /\ n \in 0 .. n /\ m \in 0 .. n /\ 0 < m /\ m < n
      OBVIOUS
    <2>2. stops[0] < stops[m] /\ stops[m] < stops[n]
      BY <1>1, <2>1
    <2>3. stops[0] \in Nat /\ stops[m] \in Nat /\ stops[n] \in Nat
      BY <1>1, <2>1
    <2> QED BY <1>1, <2>2, <2>3
  <1> DEFINE S == {j \in stops[0] .. last : line[j] = comma} \cup {stops[0], last}
             s == InOrder(S)
  <1>5. S = {stops[j] : j \in 0 .. n}
    <2>1. ASSUME NEW x \in S PROVE \E j \in 0 .. n : stops[j] = x
      <3>1. CASE x = stops[0] \/ x = last
        BY <1>1, <3>1
      <3>2. CASE x # stops[0] /\ x # last
        <4>1. x \in stops[0] .. last /\ line[x] = comma
          BY <3>2
        <4>2. x \in stops[0] + 1 .. last - 1
          BY <1>1, <3>2, <4>1
        <4>3. PICK m \in 1 .. n - 1 : stops[m] = x
          BY <1>2, <4>1, <4>2
        <4>4. m \in 0 .. n
          OBVIOUS
        <4> QED BY <4>3, <4>4
      <3> QED BY <3>1, <3>2
    <2>2. ASSUME NEW j \in 0 .. n PROVE stops[j] \in S
      <3>1. CASE j = 0 \/ j = n
        BY <1>1, <3>1
      <3>2. CASE j # 0 /\ j # n
        <4>1. j \in 1 .. n - 1
          BY <3>2
        <4>2. stops[j] \in stops[0] + 1 .. last - 1 /\ line[stops[j]] = comma
          BY <1>2, <1>4, <4>1
        <4>3. stops[j] \in stops[0] .. last
          BY <1>1, <4>2
        <4> QED BY <4>2, <4>3
      <3> QED BY <3>1, <3>2
    <2> HIDE DEF S
    <2> QED BY <2>1, <2>2
  <1>6. s \in [1 .. n + 1 -> S] /\ \A j \in 1 .. n + 1 : s[j] = stops[j - 1]
    <2> HIDE DEF S, s
    <2>1. \A j \in 1 .. n : stops[j - 1] < stops[j]
      BY <1>3
    <2>2. stops \in [0 .. n -> Nat]
      BY <1>1
    <2> DEFINE T == {stops[j] : j \in 0 .. n}
    <2>3. /\ InOrder(T) \in [1 .. n + 1 -> T]
          /\ \A j \in 1 .. n + 1 : InOrder(T)[j] = stops[j - 1]
      BY <2>1, <2>2, InOrderIs
    <2>4. S = T
      BY <1>5
    <2> HIDE DEF T
    <2> QED BY <2>3, <2>4 DEF s
  <1>7. Len(s) = n + 1
    <2> HIDE DEF S, s
    <2>1. n + 1 \in Nat
      OBVIOUS
    <2>2. s \in Seq(S) /\ DOMAIN s = 1 .. n + 1
      BY <1>6, <2>1
    <2> QED BY <2>1, <2>2, LenProperties
  <1>8. getFunctionParameters(line, name)
            = [j \in 1 .. n |-> parameter(line, stops[j - 1] + 1, stops[j])]
    <2>1. paraStart(line, name) = stops[0] /\ paraEnd(line, name) = last
      BY ParenthesesAre
    <2>2. stops[0] + 1 # last
      BY <1>1
    <2>3. getFunctionParameters(line, name)
              = [j \in 1 .. Len(s) - 1 |-> parameter(line, s[j] + 1, s[j + 1])]
      BY <2>1, <2>2 DEF getFunctionParameters
    <2> HIDE DEF S, s
    <2>4. 1 .. Len(s) - 1 = 1 .. n
      BY <1>7
    <2>5. \A j \in 1 .. n : s[j] = stops[j - 1] /\ s[j + 1] = stops[j]
      <3>1. \A j \in 1 .. n : j \in 1 .. n + 1 /\ j + 1 \in 1 .. n + 1 /\ (j + 1) - 1 = j
        OBVIOUS
      <3> QED BY <1>6, <3>1
    <2> QED BY <2>3, <2>4, <2>5
  <1>9. ASSUME NEW j \in 1 .. n
        PROVE  \/ parameter(line, stops[j - 1] + 1, stops[j]) = params[j]
               \/ /\ params[j].type = <<"void">>
                  /\ parameter(line, stops[j - 1] + 1, stops[j]).type = << >>
    <2> DEFINE a == stops[j - 1]
               b == stops[j]
    <2>1. a \in 1 .. Len(line) /\ b \in 1 .. Len(line) /\ a < b
      BY <1>1, <1>3
    <2>2. stops[0] <= a /\ b <= last
      <3>1. 0 \in 0 .. n /\ n \in 0 .. n /\ j \in 0 .. n /\ j - 1 \in 0 .. n
            /\ (j - 1 = 0 \/ 0 < j - 1) /\ (j = n \/ j < n)
        OBVIOUS
      <3>2. stops[0] \in Nat /\ stops[n] \in Nat /\ a \in Nat /\ b \in Nat
        BY <1>1, <3>1
      <3>3. (0 < j - 1 => stops[0] < a) /\ (j < n => b < stops[n])
        BY <1>1, <3>1
      <3>4. (j - 1 = 0 => stops[0] = a) /\ (j = n => b = stops[n])
        OBVIOUS
      <3> QED BY <1>1, <3>1, <3>2, <3>3, <3>4
    <2>3. line[b] \in {comma, ")"}
      <3>1. CASE j = n
        BY <1>1, <1>2, <3>1
      <3>2. CASE j # n
        <4>1. j \in 1 .. n - 1
          BY <3>2
        <4> QED BY <1>2, <1>4, <4>1
      <3> QED BY <3>1, <3>2
    <2>4. ASSUME NEW x \in a + 1 .. b - 1 PROVE line[x] \notin {comma, ")"}
      <3> HIDE DEF a, b
      <3>1. x \in stops[0] + 1 .. last - 1
        <4>1. stops[0] \in Nat
          BY <1>1
        <4> QED BY <1>1, <2>1, <2>2, <4>1
      <3>2. ASSUME NEW m \in 1 .. n - 1, stops[m] = x PROVE FALSE
        <4>1. m \in 0 .. n /\ j \in 0 .. n /\ j - 1 \in 0 .. n /\ (m = j \/ j < m \/ m = j - 1 \/ m < j - 1)
          OBVIOUS
        <4>2. (m < j - 1 => stops[m] < a) /\ (j < m => b < stops[m])
          BY <1>1, <4>1 DEF a, b
        <4>3. (m = j - 1 => stops[m] = a) /\ (m = j => b = stops[m])
          BY DEF a, b
        <4>4. x = a \/ x = b \/ x < a \/ b < x
          BY <3>2, <4>1, <4>2, <4>3
        <4> QED BY <1>1, <2>1, <4>4
      <3> QED BY <1>2, <3>1, <3>2
    <2>5. \E x \in 1 .. a : line[x] \in {space, "*"}
      <3> HIDE DEF a, b
      <3>1. line[k - 1] \in {space, "*"}
        BY Zenon DEF DeclaresAt
      <3>2. k - 1 \in 1 .. a
        <4>1. stops[0] \in Nat
          BY <1>1
        <4> QED BY <1>1, <2>1, <2>2, <4>1
      <3> QED BY <3>1, <3>2
    <2>6. DeclaresOne(line, a, b, params[j])
      BY Zenon DEF DeclaresAt
    <2> HIDE DEF a, b
    <2>7. Neighbours(line, a, b)
      BY <2>1, <2>3, <2>4, <2>5, Zenon DEF Neighbours
    <2>8. \/ parameter(line, a + 1, b) = params[j]
          \/ params[j].type = <<"void">> /\ parameter(line, a + 1, b).type = << >>
      BY <2>6, <2>7, ParameterIs
    <2> QED BY <2>8 DEF a, b
  <1> QED BY <1>8, <1>9

\* What a function takes.
Parameters == Seq([type : Line, name : Line])

\* What is supported is read as it is declared, and nothing else is.
LEMMA ParametersAre ==
    ASSUME NEW line \in Line, NEW name \in Line, NEW params \in Parameters,
           Declares(line, name, params)
    PROVE  /\ Supported(getFunctionParameters(line, name)) <=> Supported(params)
           /\ Supported(params) => getFunctionParameters(line, name) = params
  <1> DEFINE found == getFunctionParameters(line, name)
             n == Len(params)
  <1>1. n \in Nat /\ DOMAIN params = 1 .. n /\ params = [j \in 1 .. n |-> params[j]]
    BY DEF Parameters
  <1>2. PICK stops, last, k : DeclaresAt(line, name, params, n, stops, last, k)
    BY DeclaredAt
  <1> HIDE DEF n
  <1>3. CASE n = 0
    <2>1. paraStart(line, name) = stops[0] /\ paraEnd(line, name) = last
      BY <1>1, <1>2, ParenthesesAre
    <2>2. last = stops[0] + 1
      BY <1>1, <1>2, <1>3, StopsType
    <2>3. found = << >>
      BY <2>1, <2>2 DEF getFunctionParameters
    <2>4. params = << >>
      BY <1>1, <1>3
    <2> QED BY <2>3, <2>4
  <1>4. CASE n # 0
    <2> DEFINE p(j) == parameter(line, stops[j - 1] + 1, stops[j])
    <2>1. /\ found = [j \in 1 .. n |-> p(j)]
          /\ \A j \in 1 .. n : p(j) = params[j] \/ (params[j].type = <<"void">> /\ p(j).type = << >>)
      BY <1>1, <1>2, <1>4, EachParameter
    <2> HIDE DEF p, found
    <2>2. DOMAIN found = 1 .. n /\ \A j \in 1 .. n : found[j] = p(j)
      BY <2>1
    <2>3. ASSUME Supported(params) PROVE Supported(found) /\ found = params
      <3>1. \A j \in 1 .. n : params[j].type \in SupportedTypes
        BY <1>1, <2>3 DEF Supported
      <3>2. \A j \in 1 .. n : p(j) = params[j]
        BY <2>1, <3>1, NotSupported
      <3>3. found = params
        BY <1>1, <2>1, <3>2
      <3> QED BY <2>3, <3>3
    <2>4. ASSUME Supported(found) PROVE Supported(params)
      <3>1. \A j \in 1 .. n : p(j).type \in SupportedTypes
        BY <2>2, <2>4 DEF Supported
      <3>2. \A j \in 1 .. n : p(j) = params[j]
        BY <2>1, <3>1, NotSupported
      <3> QED BY <1>1, <3>1, <3>2 DEF Supported
    <2> QED BY <2>3, <2>4 DEF found
  <1> QED BY <1>3, <1>4

\* The driver of the whole file.
Made(t) == IF Declarations = {} THEN NoDriver ELSE Driver(t, getFunctionDeclaration)
MadeInv == generator = "generated" =>
               \E t \in {"EXECUTABLE", "KLEE_SE"} : driver = Made(t)

(* The driver was made from the file as it is.                             *)
LEMMA DriverIsMade == Spec => []MadeInv
  <1>1. Init => MadeInv
    BY DEF Init, GeneratorInit, MadeInv
  <1>2. MadeInv /\ [Next]_vars => MadeInv'
    <2> SUFFICES ASSUME MadeInv, [Next]_vars PROVE MadeInv'
      OBVIOUS
    <2>1. CASE truncate \/ writeLine \/ Crash
      BY <2>1 DEF truncate, writeLine, Crash, MadeInv
    <2>2. ASSUME NEW t \in {"EXECUTABLE", "KLEE_SE"}, generate(t) PROVE MadeInv'
      <3>1. program' = program /\ file' = file
        BY <2>2 DEF generate
      <3>2. Made(t)' = Made(t)
        BY <3>1 DEF Made, Declarations, getFunctionDeclaration, Driver
      <3>3. generator' = "generated" => driver' = Made(t)
        BY <2>2 DEF generate, Made
      <3> QED BY <3>2, <3>3 DEF MadeInv
    <2>3. CASE UNCHANGED generatorVars
      BY <2>3 DEF generatorVars, MadeInv, Made, Declarations, getFunctionDeclaration, Driver
    <2> QED BY <2>1, <2>2, <2>3 DEF Next, vars, Generate, GeneratorStep, ConvertPlain,
                StartParser, Parse, ParserReturned, CallFunction
  <1> QED BY <1>1, <1>2, PTL DEF Spec

\* A generated driver in a source that is whole, for a definition in line d.
Situation(d) == /\ GInv /\ PlainNames /\ OneMainPerLine
                /\ generator = "generated" /\ ~crashed
                /\ d \in Named /\ Definition(d)

\* What is known of the lines then.
LEMMA LinesThen ==
    ASSUME NEW d, Situation(d)
    PROVE  /\ program.target \in Line /\ program.target # << >> /\ program.params \in Parameters
           /\ \A j \in 1 .. Len(program.target) : program.target[j] # "_"
           /\ DOMAIN file = DOMAIN program.lines /\ d \in DOMAIN file
           /\ \A k \in DOMAIN file : /\ program.lines[k] \in Line /\ k \in Int
                                     /\ file[k] = Renamed(program.lines[k])
                                     /\ Single(program.lines[k])
                                     /\ Has(file[k], <<brace>>) => Has(program.lines[k], <<brace>>)
  <1>1. /\ program \in Programs /\ file \in Text /\ AsOnce /\ Len(file) = Len(program.lines)
        /\ PlainNames /\ OneMainPerLine /\ d \in Named
    BY DEF Situation, GInv
  <1>2. program.target \in Line /\ program.target # << >> /\ program.params \in Parameters
    BY <1>1, ProgramsAssumption DEF Line, Parameters
  <1>3. \A j \in 1 .. Len(program.target) : program.target[j] # "_"
    <2>1. "_" \notin ToSet(program.target)
      BY <1>1 DEF PlainNames
    <2>2. DOMAIN program.target = 1 .. Len(program.target)
      BY <1>2 DEF Line
    <2> QED BY <2>1, <2>2 DEF ToSet
  <1>4. program.lines \in Text /\ \A k \in 1 .. Len(program.lines) : program.lines[k] \in Line
    BY <1>1, ProgramText
  <1>5. DOMAIN file = 1 .. Len(file) /\ DOMAIN program.lines = 1 .. Len(file)
    BY <1>1, <1>4 DEF Text
  <1>6. d \in DOMAIN file
    BY <1>1, <1>5 DEF Named
  <1>7. ASSUME NEW k \in DOMAIN file
        PROVE  /\ program.lines[k] \in Line /\ k \in Int
               /\ file[k] = Renamed(program.lines[k])
               /\ Single(program.lines[k])
               /\ Has(file[k], <<brace>>) => Has(program.lines[k], <<brace>>)
    <2> DEFINE line == program.lines[k]
    <2>1. k \in 1 .. Len(program.lines) /\ k \in DOMAIN program.lines /\ k \in Int
      BY <1>1, <1>5
    <2>2. line \in Line
      BY <1>4, <2>1
    <2>3. file[k] = Renamed(line)
      <3>1. k \in 1 .. Len(file)
        BY <1>5
      <3> QED BY <1>1, <2>1, <3>1 DEF AsOnce, Once
    <2>4. \A i1, i2 \in DOMAIN line : line[i1] = "main" /\ line[i2] = "main" => i1 = i2
      BY <1>1, <2>1 DEF OneMainPerLine
    <2> HIDE DEF line
    <2>5. DOMAIN line = 1 .. Len(line)
      BY <2>2 DEF Line
    <2>6. Single(line)
      BY <2>4, <2>5 DEF Single
    <2>7. brace \in Atoms
      BY ProgramsAssumption, Zenon DEF Marks, brace
    <2>8. <<brace>> \in Line /\ Plain(<<brace>>)
      <3>1. brace \notin {"main", "_"}
        BY MarksDiffer
      <3>2. <<brace>> \in Seq(Atoms) /\ Len(<<brace>>) = 1 /\ <<brace>>[1] = brace
            /\ <<brace>> # << >>
        BY ONLY <2>7
      <3>3. \A j \in 1 .. Len(<<brace>>) : <<brace>>[j] = brace
        BY ONLY <3>2
      <3> QED BY <3>1, <3>2, <3>3, Zenon DEF Line, Plain
    <2>9. Has(file[k], <<brace>>) => Has(line, <<brace>>)
      BY <2>2, <2>3, <2>8, FoundBefore
    <2> QED BY <2>1, <2>2, <2>3, <2>6, <2>9 DEF line
  <1> QED BY <1>1, <1>2, <1>3, <1>5, <1>6, <1>7

\* Where main is in a name.
LEMMA MainIn ==
    ASSUME NEW name \in Line
    PROVE  Has(name, main) <=> \E j \in 1 .. Len(name) : name[j] = "main"
  <1>1. Positions(name, <<"main">>) = {j \in 1 .. Len(name) : name[j] = "main"}
    BY Found, AtomsType
  <1> QED BY <1>1 DEF Has, main

\* A name without main: the line of its definition is the user's, and the first
\* that is found.
LEMMA DefinitionFound ==
    ASSUME NEW d, Situation(d), ~Has(program.target, main), \A k \in Named : d <= k
    PROVE  Declarations # {} /\ getFunctionDeclaration = program.lines[d]
  <1>1. /\ program.target \in Line /\ program.target # << >>
        /\ \A j \in 1 .. Len(program.target) : program.target[j] # "_"
        /\ d \in DOMAIN file /\ DOMAIN file = DOMAIN program.lines
        /\ \A k \in DOMAIN file : /\ program.lines[k] \in Line /\ k \in Int
                                  /\ file[k] = Renamed(program.lines[k])
                                  /\ Has(file[k], <<brace>>) => Has(program.lines[k], <<brace>>)
    BY LinesThen
  <1>2. Plain(program.target)
    <2>1. program.target \in Line
      BY <1>1
    <2>2. \A j \in 1 .. Len(program.target) : program.target[j] # "main"
      BY <2>1, MainIn
    <2> QED BY <1>1, <2>2 DEF Plain
  <1>3. file[d] = program.lines[d]
    <2>1. ~Has(program.lines[d], main)
      BY DEF Situation, Definition
    <2> QED BY <1>1, <2>1, NotRenamed DEF Underscored
  <1>4. d \in Declarations
    BY <1>1, <1>3 DEF Situation, Named, Declarations
  <1>5. ASSUME NEW k \in Declarations PROVE d <= k /\ k \in Int
    <2>1. k \in DOMAIN file /\ Has(file[k], program.target) /\ Has(file[k], <<brace>>)
      BY DEF Declarations
    <2>2. Has(program.lines[k], program.target)
      BY <1>1, <1>2, <2>1, FoundBefore
    <2>3. k \in Named
      BY <1>1, <2>1, <2>2 DEF Named
    <2> QED BY <1>1, <2>1, <2>3
  <1>6. Min(Declarations) = d
    <2>1. Declarations \in SUBSET Int
      BY <1>5
    <2> QED BY <1>4, <1>5, <2>1, MinIs
  <1> QED BY <1>3, <1>4, <1>6 DEF getFunctionDeclaration

\* A definition that has main in its name is renamed.
LEMMA DefinitionRenamed ==
    ASSUME NEW line \in Line, Single(line), NEW name \in Line, MainWithin(name), NEW params,
           Declares(line, name, params), Len(params) \in Nat
    PROVE  Underscored(line)
  <1> DEFINE n == Len(params)
  <1>1. PICK stops, last, k : DeclaresAt(line, name, params, n, stops, last, k)
    BY DeclaredAt
  <1> HIDE DEF n
  <1>2. /\ Len(line) \in Nat /\ stops[0] \in 1 .. Len(line) /\ k \in Positions(line, name)
        /\ k \in Int /\ 2 < k
    <2>1. n \in Nat /\ 0 \in 0 .. n
      BY DEF n
    <2> QED BY <1>1, <2>1, StopsType
  <1>3. line[stops[0]] = "(" /\ line[k - 1] \in {space, "*"}
    BY <1>1, Zenon DEF DeclaresAt
  <1>4. Len(name) \in Nat /\ k \in 1 .. Len(line) - Len(name) + 1
        /\ \A j \in 1 .. Len(name) : line[k + j - 1] = name[j]
    <2>1. line \in Seq(Atoms) /\ name \in Seq(Atoms)
      BY DEF Line
    <2>2. Positions(line, name) = {m \in 1 .. Len(line) - Len(name) + 1 :
                                     \A j \in 1 .. Len(name) : line[m + j - 1] = name[j]}
      BY ONLY <2>1, PositionIs
    <2> QED BY <1>2, <2>1, <2>2
  <1>5. PICK q \in 1 .. Len(name) : name[q] = "main"
    BY DEF MainWithin
  <1>6. \A j \in 1 .. Len(name) : name[j] # "_"
    BY DEF MainWithin
  <1> DEFINE pos == k + q - 1
  <1>7. pos \in 1 .. Len(line) /\ line[pos] = "main" /\ 2 < pos
    BY <1>2, <1>4, <1>5
  <1>8. line[pos - 1] # "_"
    <2>1. CASE q = 1
      <3>1. pos - 1 = k - 1
        BY <1>2, <2>1
      <3> QED BY <1>3, <3>1, Zenon DEF space
    <2>2. CASE q # 1
      <3>1. q - 1 \in 1 .. Len(name) /\ pos - 1 = k + (q - 1) - 1
        BY <1>2, <1>4, <1>5, <2>2
      <3> QED BY <1>4, <1>6, <3>1
    <2> QED BY <2>1, <2>2
  <1> HIDE DEF pos
  <1>9. First(line, pos)
    <2>1. \A j \in 1 .. pos - 1 : j \in 1 .. Len(line) /\ j # pos
      BY <1>2, <1>7
    <2> QED BY <1>7, <2>1 DEF First, Single
  <1>10. Has(line, main) /\ find(line, main, 1) = pos
    BY <1>9, FirstIsFound
  <1>11. Has(line, <<"(">>)
    <2>1. "(" \in Atoms
      BY AtomsType
    <2>2. Positions(line, <<"(">>) = {j \in 1 .. Len(line) : line[j] = "("}
      BY <2>1, Found
    <2>3. stops[0] \in {j \in 1 .. Len(line) : line[j] = "("}
      BY <1>2, <1>3
    <2> QED BY <2>2, <2>3 DEF Has
  <1>12. IsRenamed(line, pos)
    <2>1. pos # 2
      BY <1>2, <1>7
    <2> QED BY <1>8, <2>1, Zenon DEF IsRenamed, AtSecond
  <1> QED BY <1>10, <1>11, <1>12 DEF Underscored

\* A name with main in it: its definition is renamed, and no line is found.
LEMMA DefinitionLost ==
    ASSUME NEW d, Situation(d), Has(program.target, main), program.target # main, Named = {d}
    PROVE  Declarations = {}
  <1> DEFINE name == program.target
  <1>1. /\ name \in Line /\ name # << >> /\ program.params \in Parameters
        /\ \A j \in 1 .. Len(name) : name[j] # "_"
        /\ d \in DOMAIN file /\ DOMAIN file = DOMAIN program.lines
        /\ \A k \in DOMAIN file : /\ program.lines[k] \in Line /\ k \in Int
                                  /\ file[k] = Renamed(program.lines[k])
                                  /\ Single(program.lines[k])
                                  /\ Has(file[k], <<brace>>) => Has(program.lines[k], <<brace>>)
    BY LinesThen
  <1> HIDE DEF name
  <1>2. MainWithin(name)
    <2>5. name \in Seq(Atoms) /\ name \in Line
      BY <1>1 DEF Line
    <2>6. Has(name, main) /\ name # main
      BY DEF name
    <2>1. PICK q \in 1 .. Len(name) : name[q] = "main"
      BY <2>5, <2>6, MainIn
    <2>2. Len(name) \in Nat /\ Len(name) # 1
      <3>1. Len(name) \in Nat
        BY ONLY <2>5
      <3>2. ASSUME Len(name) = 1 PROVE FALSE
        <4>1. name[1] = "main"
          BY <2>1, <3>2
        <4>2. name = <<"main">>
          BY ONLY <2>5, <3>2, <4>1
        <4> QED BY <2>6, <4>2 DEF main
      <3> QED BY <3>1, <3>2
    <2>3. Len(name) > 1
      BY <2>1, <2>2
    <2> QED BY <1>1, <2>1, <2>3 DEF MainWithin
  <1>3. Underscored(program.lines[d])
    <2>1. Len(program.params) \in Nat
      <3>1. program.params \in Parameters
        BY <1>1
      <3> QED BY ONLY <3>1, LenProperties DEF Parameters
    <2>2. Declares(program.lines[d], name, program.params)
      BY DEF Situation, Definition, name
    <2> QED BY <1>1, <1>2, <2>1, <2>2, DefinitionRenamed
  <1> SUFFICES ASSUME NEW k \in Declarations PROVE FALSE
    OBVIOUS
  <1>4. k \in DOMAIN file /\ Has(file[k], name) /\ Has(file[k], <<brace>>)
    BY DEF Declarations, name
  <1>5. ~Underscored(program.lines[k])
    BY <1>1, <1>2, <1>4, NotFound
  <1>6. file[k] = program.lines[k]
    BY <1>1, <1>4, <1>5, NotRenamed
  <1>7. k \in Named
    BY <1>1, <1>4, <1>6 DEF Named, name
  <1> QED BY <1>3, <1>5, <1>7

(* For every source whose lines have one main at most, and every name      *)
(* without a lone '_': a function whose name is in no line with '{' above  *)
(* its definition gets a driver exactly if its types are supported, with   *)
(* its own parameters, however they are spaced; one with main in its name  *)
(* gets none (getFunctionDeclaration, getFunctionParameters).              *)
THEOREM DriversFit == PlainNames /\ OneMainPerLine => (Spec => []DriverFits)
  <1> SUFFICES ASSUME PlainNames, OneMainPerLine PROVE Spec => []DriverFits
    OBVIOUS
  <1>1. GInv /\ MadeInv => DriverFits
    <2> SUFFICES ASSUME GInv, MadeInv, generator = "generated", ~crashed,
                        NEW d \in Named, Definition(d)
                 PROVE  /\ ~Has(program.target, main) /\ (\A k \in Named : d <= k) =>
                              IF Supported(program.params)
                              THEN driver # NoDriver /\ driver.params = program.params
                              ELSE driver = NoDriver
                        /\ Has(program.target, main) /\ program.target # main /\ Named = {d} =>
                              driver = NoDriver
      BY DEF DriverFits
    <2>1. Situation(d)
      BY DEF Situation
    <2>2. PICK t \in {"EXECUTABLE", "KLEE_SE"} : driver = Made(t)
      BY DEF MadeInv
    <2>3. ASSUME ~Has(program.target, main), \A k \in Named : d <= k
          PROVE  IF Supported(program.params)
                 THEN driver # NoDriver /\ driver.params = program.params
                 ELSE driver = NoDriver
      <3> DEFINE found == getFunctionParameters(program.lines[d], program.target)
      <3>1. driver = Driver(t, program.lines[d])
        BY <2>1, <2>2, <2>3, DefinitionFound DEF Made
      <3>2. /\ Supported(found) <=> Supported(program.params)
            /\ Supported(program.params) => found = program.params
        <4>1. /\ program.target \in Line /\ program.params \in Parameters
              /\ program.lines[d] \in Line
          BY <2>1, LinesThen
        <4>2. Declares(program.lines[d], program.target, program.params)
          BY DEF Definition
        <4> QED BY <4>1, <4>2, ParametersAre
      <3>3. driver = IF Supported(found) THEN [type |-> t, params |-> found] ELSE NoDriver
        BY <3>1 DEF Driver
      <3> HIDE DEF found
      <3>4. [type |-> t, params |-> found] # NoDriver
        <4>1. t # "none"
          BY <2>2
        <4>2. [type |-> t, params |-> found].type = t /\ NoDriver.type = "none"
          BY DEF NoDriver
        <4> QED BY <4>1, <4>2
      <3> QED BY <3>2, <3>3, <3>4
    <2>4. ASSUME Has(program.target, main), program.target # main, Named = {d}
          PROVE  driver = NoDriver
      BY <2>1, <2>2, <2>4, DefinitionLost DEF Made
    <2> QED BY <2>3, <2>4
  <1> QED BY <1>1, GeneratorInvariant, DriverIsMade, PTL
================================================================================
