---------------------------- MODULE PrintInteger ----------------------------
(***************************************************************************)
(* The integer conversions of the printf library (src/src/library/printf/  *)
(* printf.c): print_integer, print_integer_finalization and out_rev_.  A   *)
(* converted number is built backwards in a buffer of BufSize characters:  *)
(* digits, padding zeros, the prefix of its base, the sign.  The loops     *)
(* that fill the buffer appear as the length they reach.                   *)
(*                                                                         *)
(* Not modelled: letter case (FLAGS_UPPERCASE).                            *)
(***************************************************************************)
EXTENDS Integers, Sequences, SequencesExt, FiniteSets

CONSTANTS
    BufSize,   \* PRINTF_INTEGER_BUFFER_SIZE
    Bits       \* width of printf_unsigned_value_t

ASSUME BufSizeAssumption == BufSize \in Nat \ {0}
ASSUME BitsAssumption == Bits \in Nat \ {0}

Flags == {"ZEROPAD", "LEFT", "PLUS", "SPACE", "HASH", "PRECISION", "POINTER"}

\* The arguments of print_integer; base 2, 8, 10 or 16.
Call == [value: Nat, negative: BOOLEAN, base: {2, 8, 10, 16},
         precision: Nat, width: Nat, flags: SUBSET Flags]

Lesser(a, b) == IF a < b THEN a ELSE b
Greater(a, b) == IF a < b THEN b ELSE a

DigitChars == <<"0", "1", "2", "3", "4", "5", "6", "7",
                "8", "9", "a", "b", "c", "d", "e", "f">>

\* `char`, n times.
Copies(char, n) == [i \in 1..n |-> char]

\* base^n, by recursion: the provers know nothing of ^.
Power(base, n) ==
    LET power[i \in 0..n] == IF i = 0 THEN 1 ELSE base * power[i - 1]
    IN  power[n]

\* The number of digits of a positive value: of the powers of the base not above it.
DigitCount(value, base) == Cardinality({n \in 0..(Bits - 1) : Power(base, n) <= value})

\* The digit at place i, the least significant at place 1.
DigitAt(value, base, i) == DigitChars[((value \div Power(base, i - 1)) % base) + 1]

-----------------------------------------------------------------------------
(* print_integer: the digits, least significant first, while there is room. *)

Digits(c) ==
    IF c.value = 0
    THEN IF "PRECISION" \in c.flags THEN <<>> ELSE <<"0">>
    ELSE [i \in 1..Lesser(DigitCount(c.value, c.base), BufSize) |->
            DigitAt(c.value, c.base, i)]

\* A zero has no prefix, except that "%#.0o" still shows its 0.
DropsHash(c) == c.value = 0 /\ ("PRECISION" \notin c.flags \/ c.base = 16)

(* print_integer_finalization. *)

SignFlag(c) == c.negative \/ c.flags \cap {"PLUS", "SPACE"} # {}

\* The width zeros may fill: one less when a sign takes a place.
ZeroWidth(c) ==
    IF "LEFT" \notin c.flags /\ "ZEROPAD" \in c.flags /\ SignFlag(c) /\ c.width > 0
    THEN c.width - 1 ELSE c.width

\* The length after padding zeros, first to the width, then to the precision.
PaddedLen(c) ==
    LET unpadded == Len(Digits(c))
        toWidth == IF "ZEROPAD" \in c.flags /\ "LEFT" \notin c.flags
                   THEN Greater(unpadded, Lesser(ZeroWidth(c), BufSize))
                   ELSE unpadded
    IN  Greater(toWidth, Lesser(c.precision, BufSize))

\* Padding zeros of an octal number serve as its prefix.
HasPrefix(c) ==
    \/ "POINTER" \in c.flags
    \/ /\ "HASH" \in c.flags /\ ~DropsHash(c)
       /\ ~(c.base = 8 /\ PaddedLen(c) > Len(Digits(c)))

\* Mutant: the same place for every base.
TakeBack_one(c) ==
    IF "PRECISION" \notin c.flags /\ PaddedLen(c) \in {c.precision, ZeroWidth(c)}
    THEN Lesser(PaddedLen(c) - Len(Digits(c)), 1) ELSE 0

\* Zeros that fill the width exactly give places back to the prefix.
TakeBack(c) ==
    LET padding == PaddedLen(c) - Len(Digits(c))
    IN  IF "PRECISION" \notin c.flags /\ PaddedLen(c) \in {c.precision, ZeroWidth(c)}
        THEN Lesser(padding, IF c.base \in {2, 16} THEN 2 ELSE 1)
        ELSE 0

Padded(c) ==
    Digits(c) \o Copies("0", (IF HasPrefix(c) THEN PaddedLen(c) - TakeBack(c)
                              ELSE PaddedLen(c)) - Len(Digits(c)))

\* Mutant: no check of the length.
Put_unchecked(buf, char) == Append(buf, char)

\* Appends a character if the buffer has room for it.
Put(buf, char) == IF Len(buf) < BufSize THEN Append(buf, char) ELSE buf

WithPrefix(c) ==
    IF ~HasPrefix(c) THEN Padded(c)
    ELSE Put(CASE c.base = 16 -> Put(Padded(c), "x")
               [] c.base = 2 -> Put(Padded(c), "b")
               [] OTHER -> Padded(c), "0")

\* The finished buffer, in reverse order.
Finished(c) ==
    CASE c.negative -> Put(WithPrefix(c), "-")
      [] ~c.negative /\ "PLUS" \in c.flags -> Put(WithPrefix(c), "+")
      [] ~c.negative /\ "PLUS" \notin c.flags /\ "SPACE" \in c.flags ->
            Put(WithPrefix(c), " ")
      [] OTHER -> WithPrefix(c)

\* out_rev_: the buffer in reading order, blanks on the side FLAGS_LEFT tells.
OutRev(buf, width, flags) ==
    LET blanks == Copies(" ", Greater(0, width - Len(buf)))
    IN  CASE "LEFT" \in flags -> Reverse(buf) \o blanks
          [] flags \cap {"LEFT", "ZEROPAD"} = {} -> blanks \o Reverse(buf)
          [] OTHER -> Reverse(buf)

print_integer(c) == OutRev(Finished(c), ZeroWidth(c), c.flags)

-----------------------------------------------------------------------------
(* The rendering the C standard asks for (7.21.6.1), written from its       *)
(* rules: at least `precision` digits, the prefix of '#', a sign, and the   *)
(* width filled with zeros after the prefix or with blanks.                 *)

StandardDigits(c) ==
    LET n == IF c.value = 0 THEN 0 ELSE DigitCount(c.value, c.base)
        least == IF "PRECISION" \in c.flags THEN c.precision ELSE 1
        shown == Copies("0", Greater(0, least - n))
                   \o [i \in 1..n |-> DigitAt(c.value, c.base, n + 1 - i)]
    IN  IF "HASH" \in c.flags /\ c.base = 8 /\ (shown = <<>> \/ Head(shown) # "0")
        THEN <<"0">> \o shown ELSE shown

StandardSign(c) ==
    (IF c.negative THEN <<"-">>
     ELSE IF "PLUS" \in c.flags THEN <<"+">>
     ELSE IF "SPACE" \in c.flags THEN <<" ">> ELSE <<>>)
    \o (IF c.base \in {2, 16} /\ ("POINTER" \in c.flags \/ ("HASH" \in c.flags /\ c.value # 0))
        THEN IF c.base = 16 THEN <<"0", "x">> ELSE <<"0", "b">> ELSE <<>>)

\* The number with its zeros, before blanks.
StandardBody(c) ==
    LET zeros == IF "ZEROPAD" \in c.flags /\ "LEFT" \notin c.flags
                 THEN Greater(0, c.width - Len(StandardSign(c) \o StandardDigits(c))) ELSE 0
    IN  StandardSign(c) \o Copies("0", zeros) \o StandardDigits(c)

Standard(c) ==
    LET blanks == Copies(" ", Greater(0, c.width - Len(StandardBody(c))))
    IN  IF "LEFT" \in c.flags THEN StandardBody(c) \o blanks ELSE blanks \o StandardBody(c)

-----------------------------------------------------------------------------
\* The buffer on the stack is never overrun: neither the digits, nor the padding
\* zeros, nor the prefix and the sign that follow, each with a check of its own, are
\* written past its end, and the prefix takes back zeros only, never digits.
FitsBuffer(c) ==
    /\ Len(Digits(c)) <= BufSize
    /\ PaddedLen(c) <= BufSize
    /\ TakeBack(c) <= PaddedLen(c) - Len(Digits(c))
    /\ Len(Finished(c)) <= BufSize

\* Numbers that print_integer prints as the standard asks for: those that fit the
\* buffer with their zeros, but for "%#.2b" of 0, which gets the prefix of a number
\* that is not zero ('#' is dropped on a zero under a precision in base 16 only).
Printable(c) ==
    /\ Len(StandardBody(c)) <= BufSize
    /\ ~(c.value = 0 /\ c.base = 2 /\ {"HASH", "PRECISION"} \subseteq c.flags)
=============================================================================
