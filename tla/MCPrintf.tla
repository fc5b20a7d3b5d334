------------------------------- MODULE MCPrintf -------------------------------
(* printf on words of 24 bits and ints of 12.  As in the code, the largest *)
(* power of ten of a word (10^7) is above all signed numbers and more than *)
(* half of the word, a larger one exceeds it modulo the word (10^8 is then *)
(* 16113920; of 64 bits, 10^26), and the highest hexadecimal digit is a    *)
(* whole one.  Octal numbers of 64 bits have the highest digit 1; those    *)
(* with another one and zeros are left out.                                *)
EXTENDS Printf

D(type, flags, width, length, arg) ==
    [type |-> type, flags |-> flags, width |-> width, star |-> FALSE,
     precision |-> <<>>, length |-> length, arg |-> arg]
T(letter) == [type |-> "text", arg |-> letter]

FlagSets == {{}, {"0"}, {"-"}, {"#"}, {"0", "#"}, {"0", "+"}, {" "}, {"'"}, {"-", "#"}}
DecimalArgs == {0, 9, 10, 2048, 4095, 1234, 8388608, 9999999, 10000000,
                16113919, 16113920, 16777215}
PowerArgs == {0, 1, 255, 2048, 1048575, 1048576, 1048577,
              2097151, 2097152, 2097153, 16777215}

Numbers ==
    {<<D(t, f, w, l, a)>> : t \in {"d", "u"}, f \in FlagSets, w \in {0, 1, 7},
                            l \in {<<>>, <<"l", "l">>}, a \in DecimalArgs}
    \cup {<<D(t, f, w, l, a)>> : t \in Powers, f \in FlagSets, w \in {0, 1, 7},
                            l \in {<<>>, <<"l", "l">>}, a \in PowerArgs}

Lengths ==
    {<<D(t, {}, 0, l, a)>> : t \in {"i", "u", "x"}, a \in {5, 2048, 4000, 16777215},
        l \in {<<"h">>, <<"h", "h">>, <<"l">>, <<"L">>, <<"z">>, <<"j">>, <<"t">>}}

\* Directives between others, so that indices and arguments must stay in step.
Mixed ==
    {<<T("%"), x, T("a"), y, T("%"), D("d", {}, 2, <<>>, 7)>> :
        x, y \in {D("s", {}, 0, <<>>, <<"%", "d">>), D("s", {}, 0, <<>>, <<>>),
                  D("c", {}, 0, <<>>, "c"), D("%", {}, 0, <<>>, 0), D("n", {}, 0, <<>>, 0),
                  D("f", {}, 0, <<>>, 0), D("q", {}, 0, <<>>, 0),
                  [D("x", {"0"}, 3, <<>>, 10) EXCEPT !.star = TRUE],
                  [D("u", {}, 3, <<>>, 10) EXCEPT !.precision = <<".", "2">>]}}

Puts == {<<D("s", {}, 0, <<>>, <<"h", "i">>), T("\n")>>}

MCCalls == Numbers \cup Lengths \cup Mixed \cup Puts
=============================================================================
