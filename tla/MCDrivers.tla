------------------------------- MODULE MCDrivers -------------------------------
(***************************************************************************)
(* Small sources and tests for Drivers, with an int of eight bits.         *)
(***************************************************************************)
EXTENDS Drivers

Words(line) == line \o <<" ", "{">>
Open1 == Words(<<"int", " ", "f", "(", "int", " ", "*", "a", ",", "uint32_t", " ", "n", ")">>)
Open2 == Words(<<"char", " ", "*", "f", "(", "char", "*", " ", "s", " ", ",", " ", " ", "char", " ", "c", ")">>)
Open3 == Words(<<"int", "*", " ", "f", "(", ")">>)
Open4 == Words(<<"int", " ", "f", "(", "int", " ", "x", " ", ",", " ", "int", "*", "a", " ", ")">>)
Void == Words(<<"int", " ", "f", "(", "void", ")">>)
Const == Words(<<"int", " ", "f", "(", "const", " ", "char", " ", "*", "s", ")">>)
Inner == Words(<<"int", " ", "do", "main", "(", "int", " ", "x", ")">>)
Caller == Words(<<" ", " ", "if", "(", "f", "(", "x", ")", ")">>)
Longer == Words(<<"int", " ", "f", "2", "(", "char", " ", "c", ")">>)
Prototype == <<"int", " ", "f", "(", "int", " ", "x", ")">>
Struct == <<"struct", " ", "f", "{", "}">>
Main == Words(<<"int", " ", "main", "(", "int", " ", "argc", ")">>)
BareMain == Words(<<"main", "(", ")">>)
IndentedMain == Words(<<" ", "main", "(", ")">>)
CallsMain == <<" ", " ", "return", " ", "main", "(", "0", ")">>
End == <<"}">>

P(t, n) == [type |-> t, name |-> n]
int == <<"int">>
Program(lns, params) == [lines |-> lns, target |-> <<"f">>, params |-> params]

MCPrograms == {
    Program(<<Open1, End, Main, CallsMain, End>>,
            <<P(<<"int", "*">>, <<"a">>), P(<<"uint32_t">>, <<"n">>)>>),
    Program(<<Longer, End, Open2, End, BareMain, End>>,
            <<P(<<"char", "*">>, <<"s">>), P(<<"char">>, <<"c">>)>>),
    Program(<<Prototype, Main, Open2, End>>,
            <<P(<<"char", "*">>, <<"s">>), P(<<"char">>, <<"c">>)>>),
    Program(<<IndentedMain, End, Open3, End>>, << >>),
    Program(<<Open4, Caller, End, End, Main>>,
            <<P(int, <<"x">>), P(<<"int", "*">>, <<"a">>)>>),
    Program(<<Longer, End, Open4, End>>, <<P(int, <<"x">>), P(<<"int", "*">>, <<"a">>)>>),
    Program(<<Struct, Open4, End>>, <<P(int, <<"x">>), P(<<"int", "*">>, <<"a">>)>>),
    Program(<<Void, End, Main>>, <<P(<<"void">>, << >>)>>),
    Program(<<Const, End, Main>>, <<P(<<"const", "char", "*">>, <<"s">>)>>),
    [lines |-> <<Inner, End, Main>>, target |-> <<"do", "main">>, params |-> <<P(int, <<"x">>)>>]}

MCAtoms == STRING

MCStrings == {<<0, 0, 0, 0, 0>>, <<97, 98, 0, 0, 0>>, <<97, 97, 97, 98, 98>>,
              <<97, 0, 98, 0, 0>>, <<97, 36, 98, 0, 0>>, <<97, 200, 0, 0, 255>>}
MCChars == {0, 34, 65, 200}
MCArrays == {<<0, 0, 0, 0, 0>>, <<1, 255, 128, 127, 0>>, <<200, 0, 99, 10, 100>>}

MCArrayTexts == {<<91, 93>>,                               \* []
                 <<91, 55, 44, 45, 49, 50, 93>>,           \* [7,-12]
                 <<91, 49, 50, 56, 44, 45, 57, 93>>,       \* [128,-9]
                 <<91, 45, 49, 50, 57, 44, 32, 53, 93>>,   \* [-129, 5]
                 <<91, 49, 50, 56, 48, 44, 44, 51, 93>>,   \* [1280,,3]
                 <<91, 45, 49, 50, 56, 44, 49, 50, 55, 93>>} \* [-128,127]
MCUintTexts == {<< >>, <<50, 53, 53>>, <<50, 53, 54>>, <<50, 54, 48, 49>>, <<45, 49>>}

\* What the theorems about Drivers ask of the constants holds of these.
ASSUME TheoremsApply == OneMainPerLine /\ PlainNames
===============================================================================
