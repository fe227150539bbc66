------------------------------- MODULE Printf -------------------------------
(***************************************************************************)
(* The printf library (src/src/library/printf/printf.c) as configured by   *)
(* printf_config.h: format_string_loop and the output gadgets behind       *)
(* printf, sprintf, snprintf and fctprintf.  A format string is a sequence *)
(* of one-character strings, ended by a NUL that is not part of it.        *)
(*                                                                         *)
(* Formats are made from items, a literal character or a conversion        *)
(* specification, which Spell writes down and the C standard's rules       *)
(* (Rendering) give a meaning; the loop only ever sees the characters.     *)
(***************************************************************************)
EXTENDS PrintInteger

CONSTANTS
    CharBits, ShortBits, IntBits,   \* widths of the types below long, which has Bits
    IntMax,                         \* PRINTF_MAX_POSSIBLE_BUFFER_SIZE
    PointerWidth,                   \* sizeof(void*) * 2U + 2
    Room,                           \* characters of the array an output buffer is
    Garbage,                        \* type -> what va_arg may yield with no such argument
    Inputs                          \* the calls: records [items, tail, dest]

\* The entry points by what they write to: snprintf and sprintf an array, of a size
\* given or taken as IntMax, or a null one; printf and fctprintf a function.
Destinations ==
    [kind: {"buffer"}, size: 0..Room]
      \cup {[kind |-> "null", size |-> 0], [kind |-> "function", size |-> 0]}

ASSUME InputsAssumption == \A i \in Inputs : i.dest \in Destinations

ASSUME WidthsAssumption ==
    /\ {CharBits, ShortBits, IntBits, IntMax, PointerWidth, Room} \subseteq Nat
    /\ CharBits <= ShortBits /\ ShortBits <= IntBits /\ IntBits <= Bits

NUL == "NUL"          \* the terminator
Symbols == STRING \cup {NUL}   \* what a char may be
Untouched == "?"      \* a character of the array nobody wrote
Null == <<NUL>>       \* a null pointer in the place of a string

DigitValue == [d \in {DigitChars[i] : i \in 1..10} |->
                 (CHOOSE i \in 1..10 : DigitChars[i] = d) - 1]
is_digit(char) == char \in DOMAIN DigitValue

\* A value reduced to a width, read as unsigned or as two's complement.
Unsigned(v, bits) == v % Power(2, bits)
SignedOf(v, bits) ==
    IF Unsigned(v, bits) < Power(2, bits - 1) THEN Unsigned(v, bits)
    ELSE Unsigned(v, bits) - Power(2, bits)
Abs(v) == IF v > 0 THEN v ELSE -v

-----------------------------------------------------------------------------
VARIABLES
    input,      \* the call: format items, an unfinished tail, the destination
    fmt,        \* its format string
    args,       \* its arguments, with the types the caller gave them
    at,         \* position of `format` in the format string
    phase,      \* the part of format_string_loop about to run
    spec,       \* flags, width and precision of the conversion being parsed
    taken,      \* the types va_arg was asked for, in order
    pos,        \* output_gadget_t.pos
    cells,      \* the caller's array
    sent,       \* the characters given to the output function
    given,      \* every character passed to putchar_via_gadget (history)
    number,     \* the last call of print_integer (history)
    ret         \* the result of vsnprintf_impl

vars == <<input, fmt, args, at, phase, spec, taken, pos, cells, sent, given, number, ret>>
callVars == <<input, fmt, args>>
outVars == <<pos, cells, sent, given, number>>

\* A conversion as its characters: flags, width, precision, length, specifier.
NumberChars(n) ==
    IF n < 10 THEN <<DigitChars[n + 1]>> ELSE <<DigitChars[(n \div 10) + 1], DigitChars[(n % 10) + 1]>>
Amount(a) == CASE a.how = "none" -> <<>> [] a.how = "star" -> <<"*">> [] OTHER -> NumberChars(a.value)
Spell(item) ==
    IF item.conv = "text" THEN <<item.arg>>
    ELSE <<"%">> \o item.flags \o Amount(item.width)
           \o (IF item.precision.how = "none" THEN <<>> ELSE <<".">> \o Amount(item.precision))
           \o item.length \o <<item.conv>>

Format == FlattenSeq([i \in DOMAIN input.items |-> Spell(input.items[i])]) \o input.tail

\* The arguments a conversion needs, with their types.
IsInteger(item) == item.conv \in {"d", "i", "u", "x", "o", "b"}
LongLengths == {<<"l">>, <<"l", "l">>, <<"z">>, <<"t">>, <<"j">>, <<"I", "6", "4">>}
ShortLengths == {<<>>, <<"h">>, <<"h", "h">>, <<"I", "8">>, <<"I", "1", "6">>, <<"I", "3", "2">>}
StarArg(a) == IF a.how = "star" THEN <<[type |-> "int", value |-> a.value]>> ELSE <<>>
ArgsOf(item) ==
    IF item.conv \in {"text", "%"} THEN <<>>
    ELSE StarArg(item.width) \o StarArg(item.precision) \o
           <<[type |-> CASE item.conv = "s" -> "string"
                         [] item.conv = "p" -> "pointer"
                         [] IsInteger(item) /\ item.length \in LongLengths -> "long"
                         [] OTHER -> "int",
              value |-> item.arg]>>

Args == FlattenSeq([i \in DOMAIN input.items |-> ArgsOf(input.items[i])])

CharAt(i) == IF i <= Len(fmt) THEN fmt[i] ELSE NUL

-----------------------------------------------------------------------------
(* The output gadgets.                                                      *)

\* buffer_gadget, function_gadget: the number of characters that may be written.
MaxChars ==
    CASE input.dest.kind = "buffer" -> Lesser(input.dest.size, IntMax)
      [] input.dest.kind = "null" -> 0
      [] OTHER -> IntMax

\* putchar_via_gadget on each of `chars`: counts all, writes those within MaxChars.
putchar_via_gadget(chars) ==
    LET written == SubSeq(chars, 1, Lesser(Len(chars), Greater(0, MaxChars - pos)))
    IN  /\ pos' = pos + Len(chars)
        /\ given' = given \o chars
        /\ cells' = [i \in DOMAIN cells |->
                       IF input.dest.kind = "buffer" /\ i - pos \in DOMAIN written
                       THEN written[i - pos] ELSE cells[i]]
        /\ sent' = IF input.dest.kind = "function" THEN sent \o written ELSE sent

\* Mutant: behind the last character that fits.
append_termination_beyond ==
    cells' = IF input.dest.kind = "buffer" /\ MaxChars > 0
             THEN [cells EXCEPT ![Lesser(pos, MaxChars) + 1] = NUL]
             ELSE cells

\* append_termination_with_gadget: a NUL, over the last character if need be.
append_termination ==
    cells' = IF input.dest.kind = "buffer" /\ MaxChars > 0
             THEN [cells EXCEPT ![Lesser(pos, MaxChars - 1) + 1] = NUL]
             ELSE cells

-----------------------------------------------------------------------------
(* format_string_loop.                                                      *)

NoSpec == [flags |-> {}, width |-> 0, precision |-> 0, size |-> {}]

Init ==
    /\ input \in Inputs /\ fmt = Format /\ args = Args
    /\ at = 1 /\ phase = "text" /\ spec = NoSpec /\ taken = <<>>
    /\ pos = 0 /\ given = <<>> /\ sent = <<>> /\ number = {} /\ ret = -1
    /\ cells = [i \in 1..Room |-> Untouched]

\* ADVANCE_IN_FORMAT_STRING to position i: the loop ends at the terminator.
AdvanceTo(i, next) ==
    /\ at' = i
    /\ phase' = IF CharAt(i) = NUL THEN "end" ELSE next

\* va_arg: the next argument if the caller passed one of the type, usable as one of
\* `kind`; if it did not, the behaviour is undefined and the result any of Garbage.
va_arg(type, kind) ==
    LET next == args[Len(taken) + 1]
    IN  IF Len(taken) < Len(args) /\ next.type = type /\ next.value \in kind
        THEN {next.value} ELSE Garbage[type] \cap kind

Text ==
    /\ phase = "text" /\ CharAt(at) \notin {"%", NUL}
    /\ putchar_via_gadget(<<CharAt(at)>>)
    /\ at' = at + 1
    /\ UNCHANGED <<callVars, phase, spec, taken, number, ret>>

\* while (*format): the format is used up.
EndOfText ==
    /\ phase = "text" /\ at <= Len(fmt) + 1 /\ CharAt(at) = NUL
    /\ phase' = "end"
    /\ UNCHANGED <<callVars, at, spec, taken, ret, outVars>>

StartSpec ==
    /\ phase = "text" /\ CharAt(at) = "%"
    /\ AdvanceTo(at + 1, "flags")
    /\ spec' = NoSpec
    /\ UNCHANGED <<callVars, taken, ret, outVars>>

FlagOf == [c \in {"0", "-", "+", " ", "#"} |->
    CASE c = "0" -> "ZEROPAD" [] c = "-" -> "LEFT" [] c = "+" -> "PLUS"
      [] c = " " -> "SPACE" [] c = "#" -> "HASH"]

\* Mutant: the case of '#' does not move on.
parse_flags_stuck ==
    /\ phase = "flags"
    /\ IF CharAt(at) \in DOMAIN FlagOf
       THEN /\ spec' = [spec EXCEPT !.flags = @ \cup {FlagOf[CharAt(at)]}]
            /\ at' = IF CharAt(at) = "#" THEN at ELSE at + 1
            /\ UNCHANGED phase
       ELSE phase' = "width" /\ UNCHANGED <<at, spec>>
    /\ UNCHANGED <<callVars, taken, ret, outVars>>

\* One round of the loop, which has no look for the end of the format.
parse_flags ==
    /\ phase = "flags"
    /\ IF CharAt(at) \in DOMAIN FlagOf
       THEN /\ spec' = [spec EXCEPT !.flags = @ \cup {FlagOf[CharAt(at)]}]
            /\ at' = at + 1
            /\ UNCHANGED phase
       ELSE phase' = "width" /\ UNCHANGED <<at, spec>>
    /\ UNCHANGED <<callVars, taken, ret, outVars>>

\* One round of atou_, for the field named.
atou_(digits, field, next) ==
    /\ phase = digits
    /\ IF is_digit(CharAt(at))
       THEN /\ spec' = [spec EXCEPT ![field] = @ * 10 + DigitValue[CharAt(at)]]
            /\ at' = at + 1
            /\ UNCHANGED phase
       ELSE phase' = next /\ UNCHANGED <<at, spec>>
    /\ UNCHANGED <<callVars, taken, ret, outVars>>

Width ==
    /\ phase = "width" /\ CharAt(at) # "*"
    /\ phase' = IF is_digit(CharAt(at)) THEN "width_digits" ELSE "precision"
    /\ UNCHANGED <<callVars, at, spec, taken, ret, outVars>>

WidthArgument ==
    /\ phase = "width" /\ CharAt(at) = "*"
    /\ \E w \in va_arg("int", Int) :
          spec' = [spec EXCEPT !.width = Abs(w),
                               !.flags = IF w < 0 THEN @ \cup {"LEFT"} ELSE @]
    /\ taken' = Append(taken, "int")
    /\ AdvanceTo(at + 1, "precision")
    /\ UNCHANGED <<callVars, ret, outVars>>

NoPrecision ==
    /\ phase = "precision" /\ CharAt(at) # "."
    /\ phase' = "length"
    /\ UNCHANGED <<callVars, at, spec, taken, ret, outVars>>

Precision ==
    /\ phase = "precision" /\ CharAt(at) = "." /\ CharAt(at + 1) # "*"
    /\ AdvanceTo(at + 1, IF is_digit(CharAt(at + 1)) THEN "precision_digits" ELSE "length")
    /\ spec' = [spec EXCEPT !.flags = @ \cup {"PRECISION"}]
    /\ UNCHANGED <<callVars, taken, ret, outVars>>

PrecisionArgument ==
    /\ phase = "precision" /\ CharAt(at) = "." /\ CharAt(at + 1) = "*"
    /\ \E p \in va_arg("int", Int) :
          spec' = [spec EXCEPT !.flags = @ \cup {"PRECISION"}, !.precision = Greater(p, 0)]
    /\ taken' = Append(taken, "int")
    /\ AdvanceTo(at + 2, "length")
    /\ UNCHANGED <<callVars, ret, outVars>>

\* Mutant: no size for the modifiers of <stddef.h> types.
Modifiers_no_stddef ==
    {<<m, {}>> : m \in {<<>>, <<"t">>, <<"j">>, <<"z">>, <<"I">>, <<"I", "1">>, <<"I", "3">>,
                        <<"I", "3", "2">>, <<"I", "6">>}}
      \cup {<<m, {"LONG"}>> : m \in {<<"l">>, <<"l", "l">>, <<"I", "6", "4">>}}
      \cup {<<m, {"SHORT"}>> : m \in {<<"h">>, <<"I", "1", "6">>}}
      \cup {<<m, {"CHAR"}>> : m \in {<<"h", "h">>, <<"I", "8">>}}

\* The length modifiers, the unfinished ones of the I family included, and the
\* sizes they stand for: FLAGS_INT16 is FLAGS_SHORT, FLAGS_INT64 is FLAGS_LONG, and
\* FLAGS_INT32 is FLAGS_INT, which nothing looks at.
Modifiers ==
    {<<m, {}>> : m \in {<<>>, <<"I">>, <<"I", "1">>, <<"I", "3">>, <<"I", "3", "2">>, <<"I", "6">>}}
      \cup {<<m, {"LONG"}>> : m \in {<<"l">>, <<"t">>, <<"j">>, <<"z">>, <<"I", "6", "4">>}}
      \cup {<<m, {"SHORT"}>> : m \in {<<"h">>, <<"I", "1", "6">>}}
      \cup {<<<<"h", "h">>, {"SHORT", "CHAR"}>>, <<<<"l", "l">>, {"LONG", "LONG_LONG"}>>,
            <<<<"I", "8">>, {"CHAR"}>>}

\* The longest modifier written at position i.
ModifierAt(i) ==
    LET here == {m \in Modifiers : m[1] = SubSeq(fmt, i, Lesser(Len(fmt), i + Len(m[1]) - 1))}
    IN  CHOOSE m \in here : \A n \in here : Len(n[1]) <= Len(m[1])

\* After "I16" and where there is no modifier the end of the format is not checked.
Length ==
    /\ phase = "length"
    /\ LET m == ModifierAt(at)
       IN  /\ spec' = [spec EXCEPT !.size = m[2]]
           /\ IF m[1] \in {<<>>, <<"I", "1", "6">>}
              THEN at' = at + Len(m[1]) /\ phase' = "specifier"
              ELSE AdvanceTo(at + Len(m[1]), "specifier")
    /\ UNCHANGED <<callVars, taken, ret, outVars>>

\* Takes an argument of the given type, prints, and goes on behind the specifier.
Finish(type, chars) ==
    /\ taken' = Append(taken, type)
    /\ \E shown \in {chars} : putchar_via_gadget(shown)
    /\ at' = at + 1 /\ phase' = "text"
    /\ UNCHANGED <<callVars, spec, ret>>

BaseOf(char) == CASE char = "x" -> 16 [] char = "o" -> 8 [] char = "b" -> 2 [] OTHER -> 10

\* The flags print_integer is called with.
IntegerFlags(char) ==
    spec.flags \ ((IF BaseOf(char) = 10 THEN {"HASH"} ELSE {})
                    \cup (IF "PRECISION" \in spec.flags THEN {"ZEROPAD"} ELSE {})
                    \cup (IF char \in {"d", "i"} THEN {} ELSE {"PLUS", "SPACE"}))

\* The argument, converted to the type of the length modifier.
ArgBits ==
    CASE spec.size \cap {"LONG", "LONG_LONG"} # {} -> Bits
      [] "CHAR" \in spec.size -> CharBits
      [] spec.size = {"SHORT"} -> ShortBits
      [] OTHER -> IntBits

Integer ==
    /\ phase = "specifier" /\ CharAt(at) \in {"d", "i", "u", "x", "o", "b"}
    /\ LET type == IF spec.size \cap {"LONG", "LONG_LONG"} # {} THEN "long" ELSE "int"
       IN  \E arg \in va_arg(type, Int) :
           \E value \in {IF CharAt(at) \in {"d", "i"} THEN SignedOf(arg, ArgBits)
                         ELSE Unsigned(arg, ArgBits)} :
           \E c \in {[value |-> Abs(value), negative |-> value < 0,
                      base |-> BaseOf(CharAt(at)), precision |-> spec.precision,
                      width |-> spec.width, flags |-> IntegerFlags(CharAt(at))]} :
              Finish(type, print_integer(c)) /\ number' = {c}

\* `chars` within the width.
Field(chars) ==
    LET blanks == Copies(" ", Greater(0, spec.width - Len(chars)))
    IN  IF "LEFT" \in spec.flags THEN chars \o blanks ELSE blanks \o chars

Character ==
    /\ phase = "specifier" /\ CharAt(at) = "c"
    /\ \E char \in va_arg("int", STRING) : Finish("int", Field(<<char>>))
    /\ UNCHANGED number

\* A precision cuts the string: strnlen_s_, then the loop that counts it down.
String ==
    /\ phase = "specifier" /\ CharAt(at) = "s"
    /\ \E p \in va_arg("string", Seq(Symbols)) :
          Finish("string",
                 IF p = Null
                 THEN OutRev(<<")", "l", "l", "u", "n", "(">>, spec.width, spec.flags)
                 ELSE Field(IF "PRECISION" \in spec.flags
                            THEN SubSeq(p, 1, Lesser(spec.precision, Len(p)))
                            ELSE p))
    /\ UNCHANGED number

Pointer ==
    /\ phase = "specifier" /\ CharAt(at) = "p"
    /\ \E value \in va_arg("pointer", Nat) :
       \E c \in {[value |-> value, negative |-> FALSE, base |-> 16,
                  precision |-> spec.precision, width |-> PointerWidth,
                  flags |-> spec.flags \cup {"ZEROPAD", "POINTER"}]} :
          /\ Finish("pointer",
                    IF value = 0 THEN OutRev(<<")", "l", "i", "n", "(">>, c.width, c.flags)
                    ELSE print_integer(c))
          /\ number' = IF value = 0 THEN number ELSE {c}

\* "%%", and a character that is no specifier: it is printed, whatever it is.
OtherSpecifier ==
    /\ phase = "specifier"
    /\ CharAt(at) \notin {"d", "i", "u", "x", "o", "b", "c", "s", "p"}
    /\ putchar_via_gadget(<<CharAt(at)>>)
    /\ at' = at + 1 /\ phase' = "text"
    /\ UNCHANGED <<callVars, spec, taken, number, ret>>

\* vsnprintf_impl after the loop.
Return ==
    /\ phase = "end"
    /\ append_termination
    /\ ret' = pos
    /\ phase' = "done"
    /\ UNCHANGED <<callVars, at, spec, taken, pos, sent, given, number>>

Next ==
    \/ Text \/ EndOfText \/ StartSpec
    \/ parse_flags
    \/ Width \/ WidthArgument \/ atou_("width_digits", "width", "precision")
    \/ NoPrecision
    \/ Precision \/ PrecisionArgument \/ atou_("precision_digits", "precision", "length")
    \/ Length
    \/ Integer \/ Character \/ String \/ Pointer \/ OtherSpecifier
    \/ Return

\* The loop is sequential code: it runs on as long as it can.
Spec == Init /\ [][Next]_vars /\ WF_vars(Next)

-----------------------------------------------------------------------------
(* What the C standard says a format prints (7.21.6.1), item by item; for a *)
(* null string, which it leaves undefined, what the library's text says.    *)

\* A star takes its value from an argument: a negative width is the flag '-', a
\* negative precision is as if the precision were omitted.
Left(item) == "-" \in Range(item.flags) \/ (item.width.how = "star" /\ item.width.value < 0)
HasPrecision(item) == item.precision.how # "none" /\ item.precision.value >= 0

StandardFlags(item) ==
    {FlagOf[f] : f \in Range(item.flags)} \cup (IF Left(item) THEN {"LEFT"} ELSE {})
      \cup (IF HasPrecision(item) THEN {"PRECISION"} ELSE {})

StandardBits(item) ==
    CASE item.length \in LongLengths -> Bits
      [] item.length \in {<<"h", "h">>, <<"I", "8">>} -> CharBits
      [] item.length \in {<<"h">>, <<"I", "1", "6">>} -> ShortBits
      [] OTHER -> IntBits

StandardCall(item) ==
    LET signed == item.conv \in {"d", "i"}
        value == IF signed THEN SignedOf(item.arg, StandardBits(item))
                 ELSE Unsigned(item.arg, StandardBits(item))
    IN  [value |-> Abs(value), negative |-> value < 0,
         base |-> CASE item.conv = "x" -> 16 [] item.conv = "o" -> 8
                    [] item.conv = "b" -> 2 [] OTHER -> 10,
         precision |-> IF HasPrecision(item) THEN item.precision.value ELSE 0,
         width |-> Abs(item.width.value),
         flags |-> StandardFlags(item)
                     \ ((IF HasPrecision(item) THEN {"ZEROPAD"} ELSE {})
                          \cup (IF item.conv \in {"d", "i", "u"} THEN {"HASH"} ELSE {})
                          \cup (IF signed THEN {} ELSE {"PLUS", "SPACE"}))]

PointerCall(item) ==
    [value |-> item.arg, negative |-> FALSE, base |-> 16, precision |-> 0,
     width |-> PointerWidth, flags |-> StandardFlags(item) \cup {"ZEROPAD", "POINTER"}]

StandardField(item, chars) ==
    LET blanks == Copies(" ", Greater(0, Abs(item.width.value) - Len(chars)))
    IN  IF Left(item) THEN chars \o blanks ELSE blanks \o chars

Rendering(item) ==
    CASE item.conv \in {"text"} -> <<item.arg>>
      [] item.conv = "%" -> <<"%">>
      [] item.conv = "c" -> StandardField(item, <<item.arg>>)
      [] item.conv = "s" ->
            StandardField(item, IF item.arg = Null THEN <<"(", "n", "u", "l", "l", ")">>
                                ELSE IF HasPrecision(item)
                                THEN SubSeq(item.arg, 1, Lesser(item.precision.value, Len(item.arg)))
                                ELSE item.arg)
      [] item.conv = "p" -> Standard(PointerCall(item))
      [] OTHER -> Standard(StandardCall(item))

Rendered == FlattenSeq([i \in DOMAIN input.items |-> Rendering(input.items[i])])

-----------------------------------------------------------------------------
Types == {"int", "long", "string", "pointer"}

\* Types.
TypeOK ==
    /\ at \in Nat \ {0}
    /\ phase \in {"text", "flags", "width", "width_digits", "precision", "precision_digits",
                  "length", "specifier", "end", "done"}
    /\ spec.flags \subseteq Flags /\ spec.width \in Nat /\ spec.precision \in Nat
    /\ spec.size \subseteq {"CHAR", "SHORT", "LONG", "LONG_LONG"}
    /\ taken \in Seq(Types)
    /\ number \subseteq Call
    /\ pos \in Nat /\ ret \in Nat \cup {-1}

\* A width or a precision: none, up to two digits, or an argument.
ProperAmount(a, least) ==
    \/ a.how = "none" /\ a.value = 0
    \/ a.how = "number" /\ a.value \in least..99
    \/ a.how = "star" /\ a.value \in Int

\* The conversions that consist of their letter, with their arguments.
ProperPlain(item) ==
    \/ item.conv = "%" /\ "star" \notin {item.width.how, item.precision.how}
    \/ item.conv = "c" /\ item.arg \in STRING \ {NUL}
    \/ item.conv = "s" /\ item.arg \in Seq(STRING \ {NUL})
    \/ item.conv = "s" /\ item.arg = Null /\ "0" \notin Range(item.flags)
    \/ item.conv = "p" /\ item.arg \in Nat \ {0} /\ item.precision.how = "none"

\* What the caller of a printf function has to see to (7.21.6.1): no conversion is
\* undefined, and each has an argument of its type.  A width has no leading zero,
\* which would be the flag.  How "%p" shows a null pointer is left to the library, and
\* so is a null string where zeros should pad it.
ProperItem(item) ==
    \/ item.conv = "text" /\ item.arg \in STRING \ {"%", NUL}
    \/ /\ item.flags \in Seq(DOMAIN FlagOf)
       /\ ProperAmount(item.width, 1) /\ ProperAmount(item.precision, 0)
       /\ \/ item.length = <<>> /\ ProperPlain(item)
          \/ /\ IsInteger(item) /\ item.arg \in Int
             /\ item.length \in LongLengths \cup ShortLengths

\* A conversion may be cut off where format_string_loop looks for the end: behind
\* the '%', the '.' or a length modifier.
ProperTail(tail) ==
    \/ tail \in {<<>>, <<"%">>}
    \/ \E w \in {[how |-> "none", value |-> 0]} \cup [how: {"number"}, value: 1..99] :
       \E end \in {<<".">>} \cup ({m[1] : m \in Modifiers} \ {<<>>, <<"I", "1", "6">>}) :
          tail = <<"%">> \o Amount(w) \o end

ProperInputs ==
    \A call \in Inputs :
        /\ call.items \in Seq(Range(call.items)) /\ \A item \in Range(call.items) : ProperItem(item)
        /\ ProperTail(call.tail)

\* No precision comes as a negative argument (there the library differs: it is
\* a precision of 0, not one omitted).
PlainPrecision == \A i \in DOMAIN input.items : input.items[i].precision.value >= 0

NumbersFit ==
    \A i \in DOMAIN input.items :
        /\ IsInteger(input.items[i]) => Printable(StandardCall(input.items[i]))
        /\ input.items[i].conv = "p" => Printable(PointerCall(input.items[i]))

\* What comes out is what the C standard says of the format, if its numbers fit the
\* buffer: every flag, width, precision and length modifier is taken for what it is,
\* in every combination; the zeros that pad, the prefix that takes places back, the
\* sign and the blanks come out at the right place and number; and the text between
\* conversions is untouched.  The end of the format is never printed.
PrintsFormat ==
    /\ phase = "done" /\ PlainPrecision /\ NumbersFit => given = Rendered
    /\ \A i \in DOMAIN given : given[i] # NUL

\* Whatever the format asks for, the buffer of print_integer is not overrun.
BufferHolds == \A c \in number : FitsBuffer(c)

\* The arguments are taken in step with the format: each conversion, stars included,
\* fetches as many arguments as it needs and of their types, so that the conversions
\* after it get theirs.
ArgumentsInStep ==
    /\ TypeOK
    /\ Len(taken) <= Len(args)
    /\ \A i \in DOMAIN taken : taken[i] = args[i].type
    /\ phase = "done" => Len(taken) = Len(args)

\* An array: as many of the characters as fit before a NUL, and nothing beyond its
\* size is touched, not even by the NUL; a null array is not written at all.
ArrayHolds ==
    LET room == IF input.dest.kind = "buffer" THEN MaxChars ELSE 0
        kept == Lesser(pos, room - 1)
    IN  cells = [i \in 1..Room |->
                   CASE i <= kept -> given[i]
                     [] i = kept + 1 /\ room > 0 -> NUL
                     [] OTHER -> Untouched]

\* What printf.h promises of the output.  snprintf: the result counts the characters
\* that could have been written, and the array holds what it has room for.  printf
\* and fctprintf: the function gets every character, up to IntMax, once and in order,
\* and no terminator.
OutputContract ==
    /\ phase = "done" => ret = Len(given) /\ ArrayHolds
    /\ input.dest.kind = "function" => sent = SubSeq(given, 1, Lesser(Len(given), IntMax))

\* The loop returns for every format: each round moves on in the format string.
Terminates == <>(phase = "done")
=============================================================================
