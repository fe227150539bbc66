------------------------------ MODULE MCPrintf ------------------------------
(***************************************************************************)
(* Instance of Printf for TLC: one conversion of every kind under every    *)
(* flag, then pairs and unfinished tails into every kind of destination.   *)
(* Values of 8 bits and a buffer of 6: like 64 bits and 32 characters they *)
(* hold every octal, decimal and hex number with its sign and prefix, but  *)
(* not every binary one.                                                   *)
(***************************************************************************)
EXTENDS Printf

MCBufSize == 6
MCBits == 8
MCCharBits == 4
MCShortBits == 5
MCIntBits == 6
MCIntMax == 20
MCPointerWidth == 4
MCRoom == 24
MCGarbage == [int |-> {-1, 1}, long |-> {-1, 1}, string |-> {}, pointer |-> {1}]

None == [how |-> "none", value |-> 0]
Num(n) == [how |-> "number", value |-> n]
Star(n) == [how |-> "star", value |-> n]

Item(flags, width, precision, length, conv, arg) ==
    [flags |-> SelectSeq(<<"0", "-", "+", " ", "#">>, LAMBDA f : f \in flags), width |-> width, precision |-> precision,
     length |-> length, conv |-> conv, arg |-> arg]
Plain(conv, arg) == Item({}, None, None, <<>>, conv, arg)
Text_(char) == Plain("text", char)

Widths == {None, Num(5), Star(3), Star(-6)}
Precisions == {None, Num(0), Num(3), Star(2)}

\* Signed and unsigned integers: every flag, widths and precisions up to and over
\* the size of the buffer, values at either side of one more digit.
Amounts == {Num(n) : n \in 1..8}
Integers_ ==
    {Item(f, w, p, <<"l">>, "d", v) :
        f \in SUBSET {"0", "-", "+", " "}, w \in {None} \cup Amounts,
        p \in {None, Num(0), Num(1), Num(3), Num(4), Num(6), Num(8)},
        v \in {0, 7, 10, -7, -10, 99, -100, -128}}
    \cup {Item(f, w, p, <<"l">>, c, v) :
        f \in SUBSET {"0", "-", "#"}, w \in {None} \cup Amounts,
        p \in {None, Num(0), Num(1), Num(3), Num(4), Num(6), Num(8)},
        c \in {"x", "o", "b"}, v \in {0, 1, 7, 8, 64, 255}}
Stars ==
    {Item(f, w, p, <<>>, c, v) :
        f \in SUBSET {"0", "-"}, w \in Widths, p \in Precisions, c \in {"d", "x"}, v \in {0, 20}}

\* Every length modifier with values that its type cuts off.
Lengths == {<<>>, <<"h">>, <<"h", "h">>, <<"l">>, <<"l", "l">>, <<"z">>, <<"t">>, <<"j">>,
            <<"I", "8">>, <<"I", "1", "6">>, <<"I", "3", "2">>, <<"I", "6", "4">>}
Sized ==
    {Item({}, None, None, l, c, v) :
        l \in Lengths, c \in {"d", "i", "u", "x", "o"}, v \in {7, 12, 25, 40, 200}}

Words == {<<>>, <<"a">>, <<"a", "b", "c", "e">>}
Texts ==
    {Item(f, w, p, <<>>, "s", s) :
        f \in SUBSET {"-"}, w \in Widths, p \in Precisions, s \in Words}
    \cup {Item(f, w, None, <<>>, "s", Null) : f \in SUBSET {"-"}, w \in Widths}
    \cup {Item(f, w, None, <<>>, "c", "a") : f \in SUBSET {"-"}, w \in Widths}
    \cup {Item(f, None, None, <<>>, "p", v) : f \in SUBSET {"-", "+"}, v \in {1, 200}}

Few == {Text_("T"), Plain("%", "none"), Plain("d", -7), Plain("b", 5),
        Item({"-"}, Star(3), Star(1), <<"l">>, "x", 200),
        Item({}, Star(-4), Star(2), <<>>, "s", <<"a", "b", "c">>)}

\* A precision given as a negative argument.
Negative == Item({}, None, Star(-1), <<>>, "s", <<"a">>)

\* Unfinished conversions whose end format_string_loop checks for.
CheckedTails == {<<>>, <<"%">>, <<"%", "3", ".">>, <<"%", "l">>, <<"%", "h", "h">>, <<"%", "I", "3">>}

Buffer(n) == [kind |-> "buffer", size |-> n]
Dests == {Buffer(n) : n \in {0, 1, 4, MCIntMax, MCRoom}}
           \cup {[kind |-> "null", size |-> 0], [kind |-> "function", size |-> 0]}

MCInputs ==
    [items: {<<i>> : i \in Integers_ \cup Stars \cup Sized \cup Texts}, tail: {<<>>}, dest: {Buffer(4)}]
      \cup [items: {<<i, j>> : i, j \in Few} \cup {<<i, j, i>> : i, j \in Few}, tail: {<<>>}, dest: Dests]
      \cup [items: {<<Text_("T")>>, <<Negative, Plain("d", -7)>>}, tail: CheckedTails, dest: Dests]

\* They are calls as the C standard allows them.
ASSUME ProperAssumption == ProperInputs
=============================================================================
