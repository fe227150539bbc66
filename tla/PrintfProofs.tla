---------------------------- MODULE PrintfProofs ----------------------------
(***************************************************************************)
(* print_integer stays within its buffer for every value, flag, width and  *)
(* precision, whatever the size of the buffer: the lengths its loops and   *)
(* unchecked appends reach, bounded stage by stage.  And every entry point *)
(* keeps what printf.h promises of its output, for every format and every  *)
(* list of arguments, also those that do not fit each other.               *)
(*                                                                         *)
(* For a call that keeps to the rules (ProperInputs) the parser is followed*)
(* through a format of any length: Standing(k) says where it is, with the  *)
(* first k - 1 items behind it.  From that come the two theorems at the    *)
(* end: which arguments it takes, and that it prints what the C standard   *)
(* says, for which print_integer is shown to be the standard's number.     *)
(***************************************************************************)
EXTENDS Printf, FiniteSetTheorems, SequenceTheorems, WellFoundedInduction, TLAPS

\* All that the lengths depend on: nothing is asked of the value.
Sized(c) == c.width \in Nat /\ c.precision \in Nat /\ c.negative \in BOOLEAN

\* A sequence, of whatever elements.
IsSequence(s) == \E S : s \in Seq(S)

\* The number of digits is a number: it counts some of the places there are.
LEMMA DigitCountType == \A value, base : DigitCount(value, base) \in Nat
<1>1. TAKE value, base
<1>2. IsFiniteSet(0..(Bits - 1))
  BY FS_Interval, BitsAssumption
<1>3. {n \in 0..(Bits - 1) : Power(base, n) <= value} \subseteq 0..(Bits - 1)
  OBVIOUS
<1>4. IsFiniteSet({n \in 0..(Bits - 1) : Power(base, n) <= value})
  BY <1>2, <1>3, FS_Subset
<1>. QED
  BY <1>4, FS_CardinalityType DEF DigitCount

\* The digits are a sequence that fits.
LEMMA DigitsFit ==
    ASSUME NEW c, NEW S, "0" \in S,
           \A i \in Nat \ {0} : DigitAt(c.value, c.base, i) \in S
    PROVE  /\ Digits(c) \in Seq(S)
           /\ Len(Digits(c)) \in Nat
           /\ Len(Digits(c)) <= BufSize
<1>1. CASE c.value = 0
  <2> DEFINE none == <<>>
             zero == <<"0">>
  <2>1. none \in Seq(S) /\ Len(none) = 0
    OBVIOUS
  <2>2. zero \in Seq(S) /\ Len(zero) = 1
    OBVIOUS
  <2>3. Digits(c) = none \/ Digits(c) = zero
    BY <1>1 DEF Digits
  <2> HIDE DEF none, zero
  <2>4. 0 <= BufSize /\ 1 <= BufSize
    BY BufSizeAssumption
  <2>5. Len(Digits(c)) = 0 \/ Len(Digits(c)) = 1
    BY <2>1, <2>2, <2>3, Zenon
  <2>6. Digits(c) \in Seq(S)
    BY <2>1, <2>2, <2>3, Zenon
  <2> DEFINE l == Len(Digits(c))
  <2>7. l = 0 \/ l = 1
    BY <2>5
  <2> HIDE DEF l
  <2>8. l \in Nat /\ l <= BufSize
    BY <2>4, <2>7
  <2>. QED
    BY <2>6, <2>8 DEF l
<1>2. CASE c.value # 0
  <2> DEFINE n == Lesser(DigitCount(c.value, c.base), BufSize)
  <2>1. n \in Nat /\ n <= BufSize
    BY DigitCountType, BufSizeAssumption DEF Lesser
  <2>2. Digits(c) = [i \in 1..n |-> DigitAt(c.value, c.base, i)]
    BY <1>2 DEF Digits
  <2> HIDE DEF n
  <2>. QED
    BY <2>1, <2>2
<1>. QED
  BY <1>1, <1>2

\* Their number, without the set they are from.
LEMMA DigitsLen ==
    ASSUME NEW c
    PROVE  Len(Digits(c)) \in Nat /\ Len(Digits(c)) <= BufSize
<1> DEFINE S == {DigitAt(c.value, c.base, i) : i \in Nat \ {0}} \cup {"0"}
<1>1. "0" \in S /\ \A i \in Nat \ {0} : DigitAt(c.value, c.base, i) \in S
  OBVIOUS
<1> HIDE DEF S
<1>. QED
  BY <1>1, DigitsFit

\* Padding with zeros neither shortens the digits nor overruns the buffer.
LEMMA PaddingFits ==
    ASSUME NEW c, Sized(c)
    PROVE  /\ PaddedLen(c) \in Nat
           /\ Len(Digits(c)) <= PaddedLen(c)
           /\ PaddedLen(c) <= BufSize
<1>1. c.width \in Nat /\ c.precision \in Nat
  BY DEF Sized
<1>2. ZeroWidth(c) \in Nat
  BY <1>1 DEF ZeroWidth
<1> DEFINE w == Lesser(ZeroWidth(c), BufSize)
           p == Lesser(c.precision, BufSize)
<1>3. w \in Nat /\ p \in Nat /\ w <= BufSize /\ p <= BufSize
  BY <1>1, <1>2, BufSizeAssumption DEF Lesser
<1>4. \/ PaddedLen(c) = Greater(Len(Digits(c)), p)
      \/ PaddedLen(c) = Greater(Greater(Len(Digits(c)), w), p)
  BY DEF PaddedLen
<1> HIDE DEF w, p
<1>5. \A a, b \in Nat : /\ Greater(a, b) \in Nat
                        /\ a <= Greater(a, b)
                        /\ (a <= BufSize /\ b <= BufSize => Greater(a, b) <= BufSize)
  BY BufSizeAssumption DEF Greater
<1>6. Len(Digits(c)) \in Nat /\ Len(Digits(c)) <= BufSize
  BY DigitsLen
<1>7. CASE PaddedLen(c) = Greater(Len(Digits(c)), p)
  BY <1>3, <1>5, <1>6, <1>7
<1>8. CASE PaddedLen(c) = Greater(Greater(Len(Digits(c)), w), p)
  <2> DEFINE g == Greater(Len(Digits(c)), w)
  <2>1. g \in Nat /\ Len(Digits(c)) <= g /\ g <= BufSize
    BY <1>3, <1>5, <1>6
  <2>2. PaddedLen(c) = Greater(g, p)
    BY <1>8
  <2> HIDE DEF g
  <2>3. Greater(g, p) \in Nat /\ g <= Greater(g, p) /\ Greater(g, p) <= BufSize
    BY <2>1, <1>3, <1>5
  <2>. QED
    BY <2>1, <2>2, <2>3, <1>6, BufSizeAssumption
<1>. QED
  BY <1>4, <1>7, <1>8

\* The prefix takes back padding zeros, never digits.
LEMMA TakeBackFits ==
    ASSUME NEW c, Sized(c)
    PROVE  TakeBack(c) \in Nat /\ TakeBack(c) <= PaddedLen(c) - Len(Digits(c))
  BY DigitsLen, PaddingFits DEF TakeBack, Lesser

\* A buffer that fits still does after a checked append.
LEMMA PutFits ==
    ASSUME NEW S, NEW buf \in Seq(S), NEW char \in S, Len(buf) <= BufSize
    PROVE  Put(buf, char) \in Seq(S) /\ Len(Put(buf, char)) <= BufSize
  BY BufSizeAssumption DEF Put

\* The characters print_integer puts into its buffer.
BufferChars(c) ==
    {DigitAt(c.value, c.base, i) : i \in Nat \ {0}} \cup {"0", "x", "b", "+", "-", " "}

\* Everything print_integer writes fits its buffer.
LEMMA FinishedFits ==
    ASSUME NEW c, Sized(c)
    PROVE  /\ Finished(c) \in Seq(BufferChars(c)) /\ IsSequence(Finished(c))
           /\ Len(Finished(c)) <= BufSize
<1> DEFINE S == BufferChars(c)
           zeros == (IF HasPrefix(c) THEN PaddedLen(c) - TakeBack(c) ELSE PaddedLen(c))
                      - Len(Digits(c))
<1>1. zeros \in Nat /\ Len(Digits(c)) + zeros <= BufSize
  BY DigitsLen, PaddingFits, TakeBackFits, BufSizeAssumption
<1>2. Copies("0", zeros) \in Seq(S) /\ Len(Copies("0", zeros)) = zeros
  <2>1. zeros \in Nat
    BY <1>1
  <2>2. "0" \in S
    BY Zenon DEF BufferChars
  <2> HIDE DEF zeros, S
  <2>. QED
    BY <2>1, <2>2 DEF Copies
<1>3. Digits(c) \in Seq(S)
  <2>1. "0" \in S /\ \A i \in Nat \ {0} : DigitAt(c.value, c.base, i) \in S
    BY Zenon DEF BufferChars
  <2> HIDE DEF S
  <2>. QED
    BY <2>1, DigitsFit
<1>4. Padded(c) = Digits(c) \o Copies("0", zeros)
  BY DEF Padded
<1> HIDE DEF S, zeros
<1>5. Padded(c) \in Seq(S) /\ Len(Padded(c)) <= BufSize
  <2>1. Len(Padded(c)) = Len(Digits(c)) + zeros
    BY <1>2, <1>3, <1>4, ConcatProperties
  <2>. QED
    BY <1>1, <1>2, <1>3, <1>4, <2>1, ConcatProperties
<1>6. "0" \in S /\ "x" \in S /\ "b" \in S /\ "+" \in S /\ "-" \in S /\ " " \in S
  BY Zenon DEF S, BufferChars
<1>7. WithPrefix(c) \in Seq(S) /\ Len(WithPrefix(c)) <= BufSize
  <2>1. CASE ~HasPrefix(c)
    BY <2>1, <1>5 DEF WithPrefix
  <2>2. CASE HasPrefix(c) /\ c.base = 16
    <3>1. WithPrefix(c) = Put(Put(Padded(c), "x"), "0")
      BY <2>2 DEF WithPrefix
    <3>2. Put(Padded(c), "x") \in Seq(S) /\ Len(Put(Padded(c), "x")) <= BufSize
      BY <1>5, <1>6, PutFits
    <3>. QED
      BY <3>1, <3>2, <1>6, PutFits
  <2>3. CASE HasPrefix(c) /\ c.base = 2
    <3>1. WithPrefix(c) = Put(Put(Padded(c), "b"), "0")
      BY <2>3 DEF WithPrefix
    <3>2. Put(Padded(c), "b") \in Seq(S) /\ Len(Put(Padded(c), "b")) <= BufSize
      BY <1>5, <1>6, PutFits
    <3>. QED
      BY <3>1, <3>2, <1>6, PutFits
  <2>4. CASE HasPrefix(c) /\ c.base \notin {2, 16}
    <3>1. WithPrefix(c) = Put(Padded(c), "0")
      BY <2>4 DEF WithPrefix
    <3>. QED
      BY <3>1, <1>5, <1>6, PutFits
  <2>. QED
    BY <2>1, <2>2, <2>3, <2>4
<1>8. \/ Finished(c) = WithPrefix(c)
      \/ \E sign \in {"-", "+", " "} : Finished(c) = Put(WithPrefix(c), sign)
  <2>1. c.negative \in BOOLEAN
    BY DEF Sized
  <2>. QED
    BY <2>1 DEF Finished
<1>9. Finished(c) \in Seq(S) /\ Len(Finished(c)) <= BufSize
  BY <1>6, <1>7, <1>8, PutFits
<1>. QED
  BY <1>9 DEF IsSequence, S

\* The lengths stay within the buffer.
LEMMA SizedFits ==
    ASSUME NEW c, Sized(c)
    PROVE  FitsBuffer(c)
  BY DigitsLen, PaddingFits, TakeBackFits, FinishedFits DEF FitsBuffer

-----------------------------------------------------------------------------
\* print_integer never writes beyond its buffer, for any size of the buffer, width of
\* the value and call: the loops stop at the end, the prefix gives back only
\* zeros, and the appends behind it are checked one by one.
THEOREM BufferHoldsAlways == \A c \in Call : FitsBuffer(c)
<1>1. \A c \in Call : Sized(c)
  BY DEF Call, Sized
<1>. QED
  BY <1>1, SizedFits

-----------------------------------------------------------------------------
(* What is printed is a sequence, whatever is in it.                        *)

\* Copies of a character.
LEMMA CopiesAre ==
    ASSUME NEW S, NEW char \in S, NEW n \in Nat
    PROVE  Copies(char, n) \in Seq(S)
  BY DEF Copies

\* As many blanks as it takes.
LEMMA Blanks ==
    ASSUME NEW width \in Int, NEW len \in Nat
    PROVE  Copies(" ", Greater(0, width - len)) \in Seq({" "})
<1>1. Greater(0, width - len) \in Nat
  BY DEF Greater
<1>. QED
  BY <1>1, CopiesAre

\* One sequence behind another.
LEMMA Behind ==
    ASSUME NEW s, NEW t, IsSequence(s), IsSequence(t)
    PROVE  IsSequence(s \o t)
<1>1. PICK S : s \in Seq(S)
  BY DEF IsSequence
<1>2. PICK T : t \in Seq(T)
  BY DEF IsSequence
<1>3. s \in Seq(S \cup T) /\ t \in Seq(S \cup T)
  BY <1>1, <1>2
<1>4. s \o t \in Seq(S \cup T)
  BY <1>3, ConcatProperties
<1>. QED
  BY <1>4 DEF IsSequence

\* out_rev_
LEMMA OutRevIs ==
    ASSUME NEW buf, IsSequence(buf), NEW width \in Int, NEW flags
    PROVE  IsSequence(OutRev(buf, width, flags))
<1>1. PICK S : buf \in Seq(S)
  BY DEF IsSequence
<1>2. Reverse(buf) \in Seq(S)
  BY <1>1 DEF Reverse
<1> DEFINE blanks == Copies(" ", Greater(0, width - Len(buf)))
<1>3. blanks \in Seq({" "})
  <2>1. Len(buf) \in Nat
    BY <1>1
  <2>. QED
    BY <2>1, Blanks, Zenon
<1>6. IsSequence(Reverse(buf))
  BY <1>2 DEF IsSequence
<1>4. OutRev(buf, width, flags) \in {Reverse(buf) \o blanks, blanks \o Reverse(buf), Reverse(buf)}
  BY DEF OutRev
<1> HIDE DEF blanks
<1>5. IsSequence(blanks)
  BY <1>3 DEF IsSequence
<1>. QED
  BY <1>4, <1>5, <1>6, Behind

\* print_integer
LEMMA PrintsSequence ==
    ASSUME NEW c, Sized(c)
    PROVE  IsSequence(print_integer(c))
<1>1. ZeroWidth(c) \in Int
  BY DEF Sized, ZeroWidth
<1>. QED
  BY <1>1, FinishedFits, OutRevIs DEF print_integer

\* A conversion of characters, with its blanks.
LEMMA FieldIs ==
    ASSUME NEW chars, IsSequence(chars), spec.width \in Nat
    PROVE  IsSequence(Field(chars))
<1>1. Len(chars) \in Nat
  BY DEF IsSequence
<1> DEFINE blanks == Copies(" ", Greater(0, spec.width - Len(chars)))
<1>2. blanks \in Seq({" "})
  <2>1. spec.width \in Int
    OBVIOUS
  <2>. QED
    BY <1>1, <2>1, Blanks, Zenon
<1>3. Field(chars) \in {chars \o blanks, blanks \o chars}
  BY DEF Field
<1> HIDE DEF blanks
<1>4. IsSequence(blanks)
  BY <1>2 DEF IsSequence
<1>. QED
  BY <1>3, <1>4, Behind

\* A character as a sequence.
LEMMA OneIs == \A char : IsSequence(<<char>>)
<1>1. \A char : <<char>> \in Seq({char})
  OBVIOUS
<1>. QED
  BY <1>1 DEF IsSequence

\* The beginning of a sequence.
LEMMA BeginningIs ==
    ASSUME NEW s, IsSequence(s), NEW n \in Nat, n <= Len(s)
    PROVE  IsSequence(SubSeq(s, 1, n))
<1>1. PICK S : s \in Seq(S)
  BY DEF IsSequence
<1>2. SubSeq(s, 1, n) \in Seq(S)
  BY <1>1, SubSeqProperties
<1>. QED
  BY <1>2 DEF IsSequence

-----------------------------------------------------------------------------
(* The output gadgets.                                                      *)

\* What has been written while the loop runs.
Filled ==
    [i \in 1..Room |-> IF input.dest.kind = "buffer" /\ i <= Lesser(pos, MaxChars)
                       THEN given[i] ELSE Untouched]
Passed ==
    IF input.dest.kind = "function" THEN SubSeq(given, 1, Lesser(Len(given), MaxChars)) ELSE <<>>

\* How many characters may be written; those of an array are within it.
LEMMA MaxCharsIs ==
    ASSUME input.dest \in Destinations
    PROVE  /\ MaxChars \in Nat
           /\ input.dest.kind = "buffer" => MaxChars <= Room
<1>1. IntMax \in Nat /\ Room \in Nat
  BY WidthsAssumption
<1>2. CASE input.dest.kind = "buffer"
  <2>1. input.dest.size \in 0..Room
    BY <1>2 DEF Destinations
  <2>2. MaxChars = Lesser(input.dest.size, IntMax)
    BY <1>2 DEF MaxChars
  <2>. QED
    BY <1>1, <2>1, <2>2 DEF Lesser
<1>3. CASE input.dest.kind = "null"
  BY <1>3 DEF MaxChars
<1>4. CASE input.dest.kind \notin {"buffer", "null"}
  BY <1>1, <1>4 DEF MaxChars
<1>. QED
  BY <1>2, <1>3, <1>4

\* The beginning of a sequence, element by element.
LEMMA Beginning ==
    ASSUME NEW S, NEW s \in Seq(S), NEW n \in Nat, n <= Len(s)
    PROVE  SubSeq(s, 1, n) = [i \in 1..n |-> s[i]]
  BY SubSeqProperties

\* putchar_via_gadget, called for each character in turn, keeps the count and writes
\* what there is room for and no more.
LEMMA PutcharKeeps ==
    ASSUME input.dest \in Destinations, IsSequence(given), pos = Len(given),
           sent = Passed, cells = Filled,
           NEW chars, IsSequence(chars), putchar_via_gadget(chars), input' = input
    PROVE  /\ IsSequence(given') /\ pos' = Len(given')
           /\ sent' = Passed' /\ cells' = Filled'
<1> DEFINE m == MaxChars
           l == Len(chars)
           p == Len(given)
           w == Lesser(l, Greater(0, m - p))
           written == SubSeq(chars, 1, w)
<1>1. PICK S : given \in Seq(S)
  BY DEF IsSequence
<1>2. PICK T : chars \in Seq(T)
  BY DEF IsSequence
<1>3. given \in Seq(S \cup T) /\ chars \in Seq(S \cup T)
  BY <1>1, <1>2
<1>4. m \in Nat /\ l \in Nat /\ p \in Nat /\ m' = m
  BY <1>1, <1>2, MaxCharsIs DEF MaxChars
<1>5. w \in Nat /\ w <= l /\ (p <= m => w = Lesser(l, m - p)) /\ (p > m => w = 0)
  BY <1>4 DEF Lesser, Greater
<1>6. written = [i \in 1..w |-> chars[i]]
  BY <1>2, <1>5, Beginning
<1>7. /\ pos' = p + l
      /\ given' = given \o chars
      /\ cells' = [i \in DOMAIN cells |->
                     IF input.dest.kind = "buffer" /\ i - p \in DOMAIN written
                     THEN written[i - p] ELSE cells[i]]
      /\ sent' = IF input.dest.kind = "function" THEN sent \o written ELSE sent
  BY DEF putchar_via_gadget
<1>8. /\ given' \in Seq(S \cup T) /\ Len(given') = p + l
      /\ \A i \in 1..p : given'[i] = given[i]
      /\ \A i \in 1..l : given'[p + i] = chars[i]
  BY <1>3, <1>4, <1>7, ConcatProperties
<1> HIDE DEF m, l, p, w, written
<1>9. cells' = Filled'
  <2> DEFINE old(i) == IF input.dest.kind = "buffer" /\ i <= Lesser(p, m)
                       THEN given[i] ELSE Untouched
             new(i) == IF input.dest.kind = "buffer" /\ i <= Lesser(p + l, m)
                       THEN given'[i] ELSE Untouched
  <2>1. cells = [i \in 1..Room |-> old(i)]
    BY DEF Filled, m, p
  <2>2. Filled' = [i \in 1..Room |-> new(i)]
    BY <1>4, <1>7 DEF Filled, m
  <2>3. ASSUME NEW i \in 1..Room
        PROVE  (IF input.dest.kind = "buffer" /\ i - p \in DOMAIN written
                THEN written[i - p] ELSE old(i)) = new(i)
    <3>1. i \in Nat \ {0} /\ DOMAIN written = 1..w
      BY <1>6, WidthsAssumption
    <3>2. CASE input.dest.kind # "buffer"
      BY <3>2
    <3>3. CASE input.dest.kind = "buffer" /\ i <= p
      <4>1. i - p \notin 1..w /\ given'[i] = given[i]
        BY <1>4, <1>5, <1>8, <3>1, <3>3
      <4>2. i <= Lesser(p, m) <=> i <= Lesser(p + l, m)
        BY <1>4, <3>1, <3>3 DEF Lesser
      <4>. QED
        BY <3>1, <4>1, <4>2
    <3>4. CASE input.dest.kind = "buffer" /\ i > p
      <4>1. ~(i <= Lesser(p, m)) /\ i - p \in Nat \ {0} /\ p + (i - p) = i
        BY <1>4, <3>1, <3>4 DEF Lesser
      <4>2. i - p \in 1..w <=> i <= Lesser(p + l, m)
        BY <1>4, <1>5, <3>1, <3>4 DEF Lesser
      <4>3. ASSUME i - p \in 1..w PROVE written[i - p] = given'[i]
        <5>1. i - p \in 1..l
          BY <1>4, <1>5, <4>3
        <5>2. given'[p + (i - p)] = chars[i - p]
          BY <1>8, <5>1
        <5>. QED
          BY <1>6, <4>1, <4>3, <5>2
      <4>. QED
        BY <3>1, <4>1, <4>2, <4>3, <3>4
    <3>. QED
      BY <1>4, <3>1, <3>2, <3>3, <3>4
  <2>4. cells' = [i \in 1..Room |-> IF input.dest.kind = "buffer" /\ i - p \in DOMAIN written
                                    THEN written[i - p] ELSE old(i)]
    BY <1>7, <2>1
  <2> HIDE DEF old, new
  <2>. QED
    BY <2>2, <2>3, <2>4
<1>10. sent' = Passed'
  <2>1. CASE input.dest.kind # "function"
    BY <1>7, <2>1 DEF Passed
  <2>2. CASE input.dest.kind = "function"
    <3> DEFINE a == Lesser(p, m)
               z == Lesser(p + l, m)
    <3>1. a \in Nat /\ a <= p /\ z \in Nat /\ z <= p + l /\ z = a + w /\ (w > 0 => a = p)
      BY <1>4, <1>5 DEF Lesser
    <3>2. sent = SubSeq(given, 1, a) /\ Passed' = SubSeq(given', 1, z)
      BY <1>4, <1>7, <1>8, <2>2 DEF Passed, p, m
    <3> HIDE DEF a, z
    <3>3. sent = [i \in 1..a |-> given[i]] /\ Passed' = [i \in 1..z |-> given'[i]]
      BY <1>1, <1>8, <3>1, <3>2, Beginning DEF p
    <3>4. /\ sent \in Seq(S \cup T) /\ Len(sent) = a
          /\ written \in Seq(S \cup T) /\ Len(written) = w
      BY <1>3, <1>4, <1>5, <1>6, <3>1, <3>3 DEF p, l
    <3>5. /\ sent' \in Seq(S \cup T) /\ Len(sent') = a + w
          /\ \A i \in 1..a : sent'[i] = given[i]
          /\ \A i \in 1..w : sent'[a + i] = chars[i]
      <4>1. sent' = sent \o written
        BY <1>7, <2>2
      <4>2. /\ sent \o written \in Seq(S \cup T) /\ Len(sent \o written) = a + w
            /\ \A i \in 1..a : (sent \o written)[i] = sent[i]
            /\ \A i \in 1..w : (sent \o written)[a + i] = written[i]
        <5>1. /\ sent \o written \in Seq(S \cup T)
              /\ Len(sent \o written) = Len(sent) + Len(written)
              /\ \A i \in 1..Len(sent) + Len(written) :
                   (sent \o written)[i] = IF i <= Len(sent) THEN sent[i] ELSE written[i - Len(sent)]
          BY <3>4, ConcatProperties
        <5>2. \A i \in 1..w : a + i \in 1..a + w /\ ~(a + i <= a) /\ (a + i) - a = i
          BY <1>5, <3>1
        <5>3. \A i \in 1..a : i \in 1..a + w /\ i <= a
          BY <1>5, <3>1
        <5>. QED
          BY <3>4, <5>1, <5>2, <5>3
      <4>. QED
        BY <1>6, <3>3, <4>1, <4>2
    <3>6. Passed' \in Seq(S \cup T) /\ Len(Passed') = z
      BY <1>8, <3>1, <3>3
    <3>7. ASSUME NEW i \in 1..z PROVE sent'[i] = Passed'[i]
      <4>1. CASE i <= a
        BY <1>4, <1>8, <3>1, <3>3, <3>5, <4>1
      <4>2. CASE i > a
        <5>1. i - a \in 1..w /\ a + (i - a) = i /\ a = p
          BY <1>4, <1>5, <3>1, <4>2
        <5>2. sent'[a + (i - a)] = chars[i - a]
          BY <3>5, <5>1
        <5>3. i - a \in 1..l
          BY <1>4, <1>5, <5>1
        <5>4. given'[p + (i - a)] = chars[i - a]
          BY <1>8, <5>3
        <5>. QED
          BY <3>3, <5>1, <5>2, <5>4
      <4>. QED
        BY <3>1, <4>1, <4>2
    <3>. QED
      BY <3>1, <3>5, <3>6, <3>7, SeqEqual
  <2>. QED
    BY <2>1, <2>2
<1>. QED
  BY <1>7, <1>8, <1>9, <1>10 DEF IsSequence, p

\* The terminator goes behind the last character, or over it, and never behind the
\* end of the array.
LEMMA TerminationHolds ==
    ASSUME input.dest \in Destinations, IsSequence(given), pos = Len(given), cells = Filled,
           append_termination, UNCHANGED <<input, pos, given>>
    PROVE  ArrayHolds'
<1> DEFINE m == MaxChars
           array == input.dest.kind = "buffer"
           room == IF array THEN m ELSE 0
           kept == Lesser(pos, room - 1)
           want(i) == CASE i <= kept -> given[i]
                        [] i = kept + 1 /\ room > 0 -> NUL
                        [] OTHER -> Untouched
           old(i) == IF array /\ i <= Lesser(pos, m) THEN given[i] ELSE Untouched
<1>1. m \in Nat /\ (array => m <= Room) /\ pos \in Nat /\ Room \in Nat
  BY MaxCharsIs, WidthsAssumption DEF IsSequence
<1>2. cells = [i \in 1..Room |-> old(i)]
  BY DEF Filled
<1>3. ArrayHolds' <=> cells' = [i \in 1..Room |-> want(i)]
  BY DEF ArrayHolds, MaxChars
<1>4. cells' = IF array /\ m > 0 THEN [cells EXCEPT ![Lesser(pos, m - 1) + 1] = NUL] ELSE cells
  BY DEF append_termination
<1> HIDE DEF m, array
<1>5. CASE array /\ m > 0
  <2> DEFINE k == Lesser(pos, m - 1)
  <2>1. k \in Nat /\ k + 1 \in 1..Room /\ kept = k /\ room = m /\ room > 0
    BY <1>1, <1>5 DEF Lesser
  <2>2. \A i \in 1..Room : i <= Lesser(pos, m) /\ i # k + 1 <=> i <= k
    BY <1>1, <1>5 DEF Lesser
  <2> HIDE DEF k, room, kept
  <2>3. cells' = [i \in 1..Room |-> IF i = k + 1 THEN NUL ELSE old(i)]
    BY <1>2, <1>4, <1>5, <2>1 DEF k
  <2>4. ASSUME NEW i \in 1..Room PROVE (IF i = k + 1 THEN NUL ELSE old(i)) = want(i)
    <3>1. CASE i = k + 1
      BY <2>1, <3>1
    <3>2. CASE i # k + 1
      BY <1>5, <2>1, <2>2, <3>2
    <3>. QED
      BY <3>1, <3>2
  <2> HIDE DEF old, want
  <2>. QED
    BY <1>3, <2>3, <2>4
<1>6. CASE ~(array /\ m > 0)
  <2>1. room = 0 /\ kept < 0
    BY <1>1, <1>6 DEF Lesser
  <2>2. array => ~(1 <= Lesser(pos, m))
    BY <1>1, <1>6 DEF Lesser
  <2> HIDE DEF room, kept
  <2>3. ASSUME NEW i \in 1..Room PROVE old(i) = Untouched /\ want(i) = Untouched
    <3>1. ~(array /\ i <= Lesser(pos, m))
      BY <1>1, <1>6, <2>2 DEF Lesser
    <3>2. ~(i <= kept) /\ ~(room > 0)
      BY <1>1, <2>1 DEF kept, room, Lesser
    <3>. QED
      BY <3>1, <3>2
  <2> HIDE DEF old, want
  <2>. QED
    BY <1>2, <1>3, <1>4, <1>6, <2>3
<1>. QED
  BY <1>5, <1>6

-----------------------------------------------------------------------------
(* Every step of format_string_loop.                                        *)

\* The output so far; behind the loop, what printf.h promises.
Output ==
    /\ input.dest \in Destinations
    /\ IsSequence(given) /\ pos = Len(given) /\ sent = Passed
    /\ phase # "done" => cells = Filled
    /\ phase = "done" => ret = Len(given) /\ ArrayHolds

\* The conversion being parsed, and the numbers printed.
Parsed ==
    /\ spec = [flags |-> spec.flags, width |-> spec.width,
               precision |-> spec.precision, size |-> spec.size]
    /\ spec.width \in Nat /\ spec.precision \in Nat
    /\ \A c \in number : Sized(c)

IInv == Output /\ Parsed

\* Steps that print nothing.
LEMMA Silent ==
    ASSUME Output, UNCHANGED <<input, pos, cells, sent, given>>, phase # "done", phase' # "done"
    PROVE  Output'
  BY DEF Output, Filled, Passed, MaxChars

\* Steps that print.
LEMMA Printing ==
    ASSUME Output, input' = input, phase # "done", phase' # "done",
           NEW chars, IsSequence(chars), putchar_via_gadget(chars)
    PROVE  Output'
<1>1. IsSequence(given)' /\ pos' = Len(given') /\ sent' = Passed' /\ cells' = Filled'
  BY PutcharKeeps DEF Output, IsSequence
<1>. QED
  BY <1>1 DEF Output

\* What va_arg yields is of the kind asked for, also where it is undefined.
LEMMA VaArg == \A type, kind : va_arg(type, kind) \subseteq kind
  BY DEF va_arg

\* The value of a digit.
LEMMA DigitIs == \A char \in DOMAIN DigitValue : DigitValue[char] \in Nat
<1>1. SUFFICES ASSUME NEW char \in {DigitChars[i] : i \in 1..10}
               PROVE  (CHOOSE i \in 1..10 : DigitChars[i] = char) - 1 \in Nat
  BY DEF DigitValue
<1>2. \E i \in 1..10 : DigitChars[i] = char
  OBVIOUS
<1>3. (CHOOSE i \in 1..10 : DigitChars[i] = char) \in 1..10
  BY <1>2
<1>. QED
  BY <1>3

\* What StartSpec begins with.
LEMMA NoSpecIs ==
    /\ NoSpec = [flags |-> NoSpec.flags, width |-> NoSpec.width,
                 precision |-> NoSpec.precision, size |-> NoSpec.size]
    /\ NoSpec.width \in Nat /\ NoSpec.precision \in Nat
  BY DEF NoSpec

\* A round of atou_ takes one digit more into the width or the precision.
LEMMA Atou ==
    ASSUME IInv, NEW digits, NEW field \in {"width", "precision"}, NEW next,
           digits # "done", next # "done", atou_(digits, field, next)
    PROVE  IInv'
<1>1. Output'
  BY Silent DEF IInv, atou_, callVars, outVars
<1>2. CASE is_digit(CharAt(at))
  <2> DEFINE d == DigitValue[CharAt(at)]
  <2>1. d \in Nat
    BY <1>2, DigitIs DEF is_digit
  <2> HIDE DEF d
  <2>2. spec' = [spec EXCEPT ![field] = @ * 10 + d] /\ number' = number
    BY <1>2 DEF atou_, outVars, d
  <2>3. Parsed'
    <3>1. spec' = [spec EXCEPT !.width = @ * 10 + d] \/ spec' = [spec EXCEPT !.precision = @ * 10 + d]
      BY <2>2
    <3>. QED
      BY <2>1, <2>2, <3>1 DEF IInv, Parsed
  <2>. QED
    BY <1>1, <2>3 DEF IInv
<1>3. CASE ~is_digit(CharAt(at))
  BY <1>1, <1>3 DEF IInv, Parsed, atou_, outVars
<1>. QED
  BY <1>2, <1>3

\* The steps that parse a conversion print nothing, and leave a width and a precision
\* that are natural numbers, those taken from arguments included.
LEMMA Parsing ==
    ASSUME IInv,
           \/ StartSpec \/ parse_flags \/ Width \/ WidthArgument
           \/ NoPrecision \/ Precision \/ PrecisionArgument \/ Length
    PROVE  IInv'
<1>1. CASE StartSpec
  BY <1>1, Silent, NoSpecIs DEF IInv, Parsed, StartSpec, AdvanceTo, callVars, outVars
<1>2. CASE parse_flags
  BY <1>2, Silent DEF IInv, Parsed, parse_flags, callVars, outVars
<1>3. CASE Width
  BY <1>3, Silent DEF IInv, Parsed, Width, callVars, outVars
<1>4. CASE WidthArgument
  <2>1. PICK w \in Int : spec' = [spec EXCEPT !.width = Abs(w),
                                      !.flags = IF w < 0 THEN @ \cup {"LEFT"} ELSE @]
    BY <1>4, VaArg DEF WidthArgument
  <2>2. Abs(w) \in Nat
    BY DEF Abs
  <2>3. Parsed'
    BY <1>4, <2>1, <2>2 DEF IInv, Parsed, WidthArgument, outVars
  <2>. QED
    BY <1>4, <2>3, Silent DEF IInv, WidthArgument, AdvanceTo, callVars, outVars
<1>5. CASE NoPrecision
  BY <1>5, Silent DEF IInv, Parsed, NoPrecision, callVars, outVars
<1>6. CASE Precision
  BY <1>6, Silent DEF IInv, Parsed, Precision, AdvanceTo, callVars, outVars
<1>7. CASE PrecisionArgument
  <2>1. PICK p \in Int : spec' = [spec EXCEPT !.flags = @ \cup {"PRECISION"},
                                      !.precision = Greater(p, 0)]
    BY <1>7, VaArg DEF PrecisionArgument
  <2>2. Greater(p, 0) \in Nat
    BY DEF Greater
  <2>3. Parsed'
    BY <1>7, <2>1, <2>2 DEF IInv, Parsed, PrecisionArgument, outVars
  <2>. QED
    BY <1>7, <2>3, Silent DEF IInv, PrecisionArgument, AdvanceTo, callVars, outVars
<1>8. CASE Length
  <2> DEFINE m == ModifierAt(at)
  <2>1. spec' = [spec EXCEPT !.size = m[2]] /\ number' = number
    BY <1>8 DEF Length, outVars
  <2>2. phase = "length" /\ phase' \in {"specifier", "end"} /\ UNCHANGED <<input, outVars>>
    BY <1>8 DEF Length, AdvanceTo, callVars
  <2> HIDE DEF m
  <2>3. Parsed'
    BY <2>1 DEF IInv, Parsed
  <2>. QED
    BY <2>2, <2>3, Silent DEF IInv, outVars
<1>. QED
  BY <1>1, <1>2, <1>3, <1>4, <1>5, <1>6, <1>7, <1>8

\* A conversion that prints a sequence and records only calls within the bounds.
LEMMA Finishing ==
    ASSUME IInv, phase = "specifier", NEW type, NEW chars, IsSequence(chars),
           Finish(type, chars), \A c \in number' : Sized(c)
    PROVE  IInv'
<1>1. putchar_via_gadget(chars) /\ phase' = "text" /\ UNCHANGED <<input, spec>>
  BY DEF Finish, callVars
<1>2. Output'
  BY <1>1, Printing DEF IInv
<1>. QED
  BY <1>1, <1>2 DEF IInv, Parsed

\* The steps that print: the text, and the conversions.
LEMMA Converting ==
    ASSUME IInv, Text \/ Integer \/ Character \/ String \/ Pointer \/ OtherSpecifier
    PROVE  IInv'
<1>1. CASE Text
  BY <1>1, Printing, OneIs DEF IInv, Parsed, Text, callVars
<1>2. CASE Integer
  <2>1. PICK type, arg, value, c :
          /\ c = [value |-> Abs(value), negative |-> value < 0,
                  base |-> BaseOf(CharAt(at)), precision |-> spec.precision,
                  width |-> spec.width, flags |-> IntegerFlags(CharAt(at))]
          /\ Finish(type, print_integer(c)) /\ number' = {c}
    BY <1>2 DEF Integer
  <2>2. Sized(c)
    BY <2>1 DEF IInv, Parsed, Sized
  <2>. QED
    BY <1>2, <2>1, <2>2, PrintsSequence, Finishing DEF Integer
<1>3. CASE Character
  <2>1. PICK char : Finish("int", Field(<<char>>)) /\ number' = number
    BY <1>3 DEF Character
  <2>. QED
    BY <1>3, <2>1, OneIs, FieldIs, Finishing DEF IInv, Parsed, Character
<1>4. CASE String
  <2> DEFINE cut(p) == IF "PRECISION" \in spec.flags
                       THEN SubSeq(p, 1, Lesser(spec.precision, Len(p))) ELSE p
             null == <<")", "l", "l", "u", "n", "(">>
  <2>1. PICK p \in Seq(Symbols) :
          Finish("string", IF p = Null THEN OutRev(null, spec.width, spec.flags)
                           ELSE Field(cut(p)))
    BY <1>4, VaArg DEF String
  <2>2. IsSequence(null)
    <3>1. null \in Seq({")", "l", "u", "n", "("})
      OBVIOUS
    <3>. QED
      BY <3>1 DEF IsSequence
  <2>3. IsSequence(p) /\ Len(p) \in Nat
    BY DEF IsSequence
  <2>4. spec.width \in Nat /\ spec.precision \in Nat /\ \A c \in number' : Sized(c)
    BY <1>4 DEF IInv, Parsed, String
  <2>5. IsSequence(cut(p))
    <3>1. Lesser(spec.precision, Len(p)) \in Nat /\ Lesser(spec.precision, Len(p)) <= Len(p)
      BY <2>3, <2>4 DEF Lesser
    <3>. QED
      BY <2>3, <3>1, BeginningIs
  <2> HIDE DEF cut, null
  <2>6. IsSequence(IF p = Null THEN OutRev(null, spec.width, spec.flags) ELSE Field(cut(p)))
    BY <2>2, <2>4, <2>5, OutRevIs, FieldIs
  <2>. QED
    BY <1>4, <2>1, <2>4, <2>6, Finishing DEF String
<1>5. CASE Pointer
  <2> DEFINE nil == <<")", "l", "i", "n", "(">>
  <2>1. PICK value, c :
          /\ c = [value |-> value, negative |-> FALSE, base |-> 16,
                  precision |-> spec.precision, width |-> PointerWidth,
                  flags |-> spec.flags \cup {"ZEROPAD", "POINTER"}]
          /\ Finish("pointer", IF value = 0 THEN OutRev(nil, c.width, c.flags)
                               ELSE print_integer(c))
          /\ number' = IF value = 0 THEN number ELSE {c}
    BY <1>5 DEF Pointer
  <2>2. Sized(c) /\ c.width \in Nat
    BY <2>1, WidthsAssumption DEF IInv, Parsed, Sized
  <2>3. IsSequence(nil)
    <3>1. nil \in Seq({")", "l", "i", "n", "("})
      OBVIOUS
    <3>. QED
      BY <3>1 DEF IsSequence
  <2> HIDE DEF nil
  <2>4. IsSequence(IF value = 0 THEN OutRev(nil, c.width, c.flags) ELSE print_integer(c))
    BY <2>2, <2>3, OutRevIs, PrintsSequence
  <2>5. \A x \in number' : Sized(x)
    BY <2>1, <2>2 DEF IInv, Parsed
  <2>. QED
    BY <1>5, <2>1, <2>4, <2>5, Finishing DEF Pointer
<1>6. CASE OtherSpecifier
  BY <1>6, Printing, OneIs DEF IInv, Parsed, OtherSpecifier, callVars
<1>. QED
  BY <1>1, <1>2, <1>3, <1>4, <1>5, <1>6

\* The call begins with nothing printed and an array nobody wrote.
LEMMA InitHolds == Init => IInv
<1> SUFFICES ASSUME Init PROVE IInv
  OBVIOUS
<1>1. input.dest \in Destinations
  BY InputsAssumption DEF Init
<1>2. MaxChars \in Nat
  BY <1>1, MaxCharsIs
<1>3. given = <<>> /\ given \in Seq({}) /\ Len(given) = 0
  BY DEF Init
<1>4. Lesser(0, MaxChars) = 0
  BY <1>2 DEF Lesser
<1>5. SubSeq(given, 1, 0) = <<>>
  BY <1>3
<1>6. sent = Passed
  BY <1>3, <1>4, <1>5 DEF Init, Passed
<1>7. cells = Filled
  <2>1. cells = [i \in 1..Room |-> Untouched]
    BY DEF Init
  <2>2. \A i \in 1..Room : ~(i <= Lesser(pos, MaxChars))
    BY <1>4 DEF Init
  <2>. QED
    BY <2>1, <2>2 DEF Filled
<1>8. Output
  BY <1>1, <1>3, <1>6, <1>7 DEF Init, Output, IsSequence
<1>9. Parsed
  BY NoSpecIs DEF Init, Parsed
<1>. QED
  BY <1>8, <1>9 DEF IInv

\* Every step keeps the inductive invariant.
LEMMA NextKeeps == IInv /\ [Next]_vars => IInv'
<1> SUFFICES ASSUME IInv, [Next]_vars PROVE IInv'
  OBVIOUS
<1>1. CASE StartSpec \/ parse_flags \/ Width \/ WidthArgument
           \/ NoPrecision \/ Precision \/ PrecisionArgument \/ Length
  BY <1>1, Parsing
<1>2. CASE atou_("width_digits", "width", "precision")
  BY <1>2, Atou
<1>3. CASE atou_("precision_digits", "precision", "length")
  BY <1>3, Atou
<1>4. CASE Text \/ Integer \/ Character \/ String \/ Pointer \/ OtherSpecifier
  BY <1>4, Converting
<1>5. CASE EndOfText
  BY <1>5, Silent DEF IInv, Parsed, EndOfText, callVars, outVars
<1>6. CASE Return
  <2>1. ArrayHolds'
    BY <1>6, TerminationHolds DEF IInv, Output, Return, callVars
  <2>2. Output'
    BY <1>6, <2>1 DEF IInv, Output, Return, callVars, Passed, MaxChars
  <2>. QED
    BY <1>6, <2>2 DEF IInv, Parsed, Return
<1>7. CASE UNCHANGED vars
  BY <1>7 DEF vars, IInv, Output, Parsed, Filled, Passed, MaxChars, ArrayHolds
<1>. QED
  BY <1>1, <1>2, <1>3, <1>4, <1>5, <1>6, <1>7 DEF Next

\* While format_string_loop (printf.c:1039) runs, the output is what the gadget was
\* given, as far as there is room; behind it, what printf.h says.
THEOREM Invariant == Spec => []IInv
  BY InitHolds, NextKeeps, PTL DEF Spec

-----------------------------------------------------------------------------
\* Whatever the format and the arguments ask for, also where they do not fit each
\* other, no call of print_integer (printf.c:525) overruns its buffer.
THEOREM BufferCorrect == Spec => []BufferHolds
<1>1. IInv => BufferHolds
  BY SizedFits DEF IInv, Parsed, BufferHolds
<1>. QED
  BY <1>1, Invariant, PTL

\* For every format and all arguments: the result counts every character, an array of
\* any size gets as many as fit and a NUL, and nothing behind its size is written; the
\* output function gets each character once and in order.
THEOREM OutputCorrect == Spec => []OutputContract
<1>1. IInv => OutputContract
  BY DEF IInv, Output, OutputContract, Passed, MaxChars
<1>. QED
  BY <1>1, Invariant, PTL
\* Induction, over a set of numbers.
LEMMA NatSetInduction ==
    ASSUME NEW S, 0 \in S, \A n \in Nat : n \in S => n + 1 \in S
    PROVE  Nat \subseteq S
<1> SUFFICES ASSUME NEW a \in Nat, a \notin S PROVE FALSE
  OBVIOUS
<1> DEFINE T == Nat \ S
           R == OpToRel(<, Nat)
<1>1. T \subseteq Nat /\ T # {}
  OBVIOUS
<1> HIDE DEF T, R
<1>2. IsWellFoundedOn(R, Nat)
  BY NatLessThanWellFounded DEF R
<1>3. PICK x \in T : \A y \in T : ~(<<y, x>> \in R)
  BY <1>1, <1>2, WFMin
<1>4. x \in Nat /\ x \notin S
  BY DEF T
<1>5. x # 0
  BY <1>4
<1>6. x - 1 \in Nat /\ x - 1 < x /\ (x - 1) + 1 = x
  BY <1>4, <1>5
<1>7. x - 1 \notin S
  BY <1>4, <1>6
<1>8. x - 1 \in T
  BY <1>6, <1>7 DEF T
<1>9. <<x - 1, x>> \in R
  BY <1>4, <1>6 DEF OpToRel, R
<1>. QED
  BY <1>3, <1>8, <1>9

-----------------------------------------------------------------------------
(* Powers.                                                                  *)

\* The function that computes the powers up to the n-th.
PowersTo(g, base, n) == g = [i \in 0..n |-> IF i = 0 THEN 1 ELSE base * g[i - 1]]

\* Power is the last value of that function.
LEMMA PowerIs == \A base, n : Power(base, n) = (CHOOSE g : PowersTo(g, base, n))[n]
  BY DEF Power, PowersTo

\* There is one, for every n.
LEMMA PowersExist ==
    ASSUME NEW base
    PROVE  \A n \in Nat : \E g : PowersTo(g, base, n)
<1> DEFINE S == {n \in Nat : \E g : PowersTo(g, base, n)}
<1>1. 0 \in S
  <2> DEFINE g == [i \in 0..0 |-> 1]
  <2>1. [i \in 0..0 |-> IF i = 0 THEN 1 ELSE base * g[i - 1]] = g
    OBVIOUS
  <2>. QED
    BY <2>1 DEF PowersTo
<1>2. ASSUME NEW n \in Nat, n \in S PROVE n + 1 \in S
  <2>1. PICK g : PowersTo(g, base, n)
    BY <1>2
  <2> DEFINE h == [i \in 0..(n + 1) |-> IF i = n + 1 THEN base * g[n] ELSE g[i]]
  <2>2. ASSUME NEW i \in 0..(n + 1)
        PROVE  h[i] = IF i = 0 THEN 1 ELSE base * h[i - 1]
    <3>1. CASE i = n + 1
      BY <3>1
    <3>2. CASE i # n + 1
      BY <2>1, <3>2 DEF PowersTo
    <3>. QED
      BY <3>1, <3>2
  <2>3. h = [i \in 0..(n + 1) |-> IF i = 0 THEN 1 ELSE base * h[i - 1]]
    <3>1. h = [i \in 0..(n + 1) |-> h[i]]
      OBVIOUS
    <3> HIDE DEF h
    <3>. QED
      BY <2>2, <3>1
  <2> HIDE DEF h
  <2>4. PowersTo(h, base, n + 1)
    BY <2>3 DEF PowersTo
  <2>. QED
    BY <2>4
<1> HIDE DEF S
<1>3. Nat \subseteq S
  BY <1>1, <1>2, NatSetInduction
<1>. QED
  BY <1>3 DEF S

\* Two of them agree as far as both go.
LEMMA PowersAgree ==
    ASSUME NEW base, NEW n \in Nat, NEW m \in Nat, m <= n, NEW g, NEW h,
           PowersTo(g, base, n), PowersTo(h, base, m)
    PROVE  g[m] = h[m]
<1> DEFINE S == {i \in Nat : i <= m => g[i] = h[i]}
<1>1. 0 \in S
  BY DEF PowersTo
<1>2. ASSUME NEW i \in Nat, i \in S PROVE i + 1 \in S
  <2>1. CASE i + 1 <= m
    <3>1. g[i + 1] = base * g[i] /\ h[i + 1] = base * h[i]
      BY <2>1 DEF PowersTo
    <3>. QED
      BY <1>2, <2>1, <3>1
  <2>. QED
    BY <2>1
<1> HIDE DEF S
<1>3. Nat \subseteq S
  BY <1>1, <1>2, NatSetInduction
<1>. QED
  BY <1>3 DEF S

\* A power in terms of the one before it.
LEMMA PowerStep ==
    ASSUME NEW base, NEW n \in Nat
    PROVE  /\ Power(base, 0) = 1
           /\ Power(base, n + 1) = base * Power(base, n)
<1>1. PICK d : PowersTo(d, base, n + 1) /\ Power(base, n + 1) = d[n + 1]
  <2>1. \E g : PowersTo(g, base, n + 1)
    BY PowersExist
  <2>2. PowersTo((CHOOSE g : PowersTo(g, base, n + 1)), base, n + 1)
    BY <2>1
  <2>. QED
    BY <2>2, PowerIs
<1>2. PICK h : PowersTo(h, base, n) /\ Power(base, n) = h[n]
  <2>1. \E g : PowersTo(g, base, n)
    BY PowersExist
  <2>2. PowersTo((CHOOSE g : PowersTo(g, base, n)), base, n)
    BY <2>1
  <2>. QED
    BY <2>2, PowerIs
<1>3. PICK f : PowersTo(f, base, 0) /\ Power(base, 0) = f[0]
  <2>1. \E g : PowersTo(g, base, 0)
    BY PowersExist
  <2>2. PowersTo((CHOOSE g : PowersTo(g, base, 0)), base, 0)
    BY <2>1
  <2>. QED
    BY <2>2, PowerIs
<1>4. f[0] = 1
  BY <1>3 DEF PowersTo
<1>5. d[n + 1] = base * d[n]
  BY <1>1 DEF PowersTo
<1>6. d[n] = h[n]
  BY <1>1, <1>2, PowersAgree
<1>. QED
  BY <1>1, <1>2, <1>3, <1>4, <1>5, <1>6

\* Powers of a positive base are positive.
LEMMA PowerType ==
    ASSUME NEW base \in Nat \ {0}
    PROVE  \A n \in Nat : Power(base, n) \in Nat \ {0}
<1> DEFINE S == {n \in Nat : Power(base, n) \in Nat \ {0}}
<1>1. 0 \in S
  BY PowerStep
<1>2. ASSUME NEW n \in Nat, n \in S PROVE n + 1 \in S
  <2>1. Power(base, n + 1) = base * Power(base, n)
    BY PowerStep
  <2>2. \A a, b \in Nat \ {0} : a * b \in Nat \ {0}
    OBVIOUS
  <2>. QED
    BY <1>2, <2>1, <2>2
<1> HIDE DEF S
<1>3. Nat \subseteq S
  BY <1>1, <1>2, NatSetInduction
<1>. QED
  BY <1>3 DEF S

-----------------------------------------------------------------------------
(* Sequences of sequences.                                                  *)

\* The first k of them, one behind the other.
Upto(s, k) == FlattenSeq(SubSeq(s, 1, k))

\* The function FlattenSeq builds, up to the k-th.
Stage(g, s, i) == IF i = 1 THEN s[i] ELSE g[i - 1] \o s[i]
Stages(g, s, k) == g = [i \in 1..k |-> Stage(g, s, i)]

\* A value of that function.
LEMMA StageAt ==
    ASSUME NEW g, NEW s, NEW k, Stages(g, s, k), NEW i \in 1..k
    PROVE  g[i] = Stage(g, s, i)
  BY DEF Stages

\* There is one, as far as one likes.
LEMMA StagesExist ==
    ASSUME NEW s
    PROVE  \A k \in Nat : \E g : Stages(g, s, k)
<1> DEFINE S == {k \in Nat : \E g : Stages(g, s, k)}
<1>1. 0 \in S
  <2> DEFINE g == [i \in 1..0 |-> 1]
  <2>1. [i \in 1..0 |-> Stage(g, s, i)] = g
    OBVIOUS
  <2> HIDE DEF g
  <2>2. Stages(g, s, 0)
    BY <2>1 DEF Stages
  <2>. QED
    BY <2>2
<1>2. ASSUME NEW k \in Nat, k \in S PROVE k + 1 \in S
  <2>1. PICK g : Stages(g, s, k)
    BY <1>2
  <2> DEFINE h == [i \in 1..(k + 1) |-> IF i = k + 1 THEN Stage(g, s, i) ELSE g[i]]
  <2>2. ASSUME NEW i \in 1..(k + 1) PROVE h[i] = Stage(h, s, i)
    <3>1. i = 1 \/ (i - 1 \in 1..k /\ h[i - 1] = g[i - 1])
      OBVIOUS
    <3>2. CASE i = k + 1
      <4>1. h[i] = Stage(g, s, i)
        BY <3>2
      <4> HIDE DEF h
      <4>. QED
        BY <3>1, <4>1, Zenon DEF Stage
    <3>3. CASE i # k + 1
      <4>1. i \in 1..k /\ h[i] = g[i]
        BY <3>3
      <4>2. g[i] = Stage(g, s, i)
        BY <2>1, <4>1, StageAt
      <4> HIDE DEF h
      <4>. QED
        BY <3>1, <4>1, <4>2, Zenon DEF Stage
    <3>. QED
      BY <3>2, <3>3
  <2>3. h = [i \in 1..(k + 1) |-> Stage(h, s, i)]
    <3>1. h = [i \in 1..(k + 1) |-> h[i]]
      OBVIOUS
    <3> HIDE DEF h
    <3>. QED
      BY <2>2, <3>1
  <2> HIDE DEF h
  <2>4. Stages(h, s, k + 1)
    BY <2>3 DEF Stages
  <2>. QED
    BY <2>4
<1> HIDE DEF S
<1>3. Nat \subseteq S
  BY <1>1, <1>2, NatSetInduction
<1>. QED
  BY <1>3 DEF S

\* Two of them agree as far as both go.
LEMMA StagesAgree ==
    ASSUME NEW s, NEW k \in Nat, NEW m \in Nat \ {0}, m <= k, NEW g, NEW h,
           Stages(g, s, k), Stages(h, s, m)
    PROVE  g[m] = h[m]
<1> DEFINE S == {i \in Nat : 1 <= i /\ i <= m => g[i] = h[i]}
<1>1. 0 \in S
  OBVIOUS
<1>2. ASSUME NEW i \in Nat, i \in S PROVE i + 1 \in S
  <2>1. ASSUME i + 1 <= m PROVE g[i + 1] = h[i + 1]
    <3>1. i + 1 \in 1..k /\ i + 1 \in 1..m
      BY <2>1
    <3>2. g[i + 1] = Stage(g, s, i + 1) /\ h[i + 1] = Stage(h, s, i + 1)
      BY <3>1, StageAt
    <3>3. i + 1 = 1 \/ (i + 1) - 1 = i
      OBVIOUS
    <3>4. i + 1 = 1 \/ g[i] = h[i]
      BY <1>2, <2>1
    <3>. QED
      BY <3>2, <3>3, <3>4, Zenon DEF Stage
  <2>. QED
    BY <2>1
<1> HIDE DEF S
<1>3. Nat \subseteq S
  BY <1>1, <1>2, NatSetInduction
<1>. QED
  BY <1>3 DEF S

\* The value of FlattenSeq at a prefix.
LEMMA UptoIs ==
    ASSUME NEW X, NEW s \in Seq(X), NEW k \in 1..Len(s)
    PROVE  \E g : Stages(g, s, k) /\ Upto(s, k) = g[k]
<1> DEFINE t == SubSeq(s, 1, k)
<1>1. Len(t) = k /\ k \in Nat \ {0} /\ \A i \in 1..k : t[i] = s[i]
  BY SubSeqProperties
<1> HIDE DEF t
<1>2. PICK g : Stages(g, t, k)
  BY <1>1, StagesExist
<1>3. FlattenSeq(t) = (CHOOSE f : Stages(f, t, Len(t)))[Len(t)]
  BY <1>1 DEF FlattenSeq, Stages, Stage
<1> DEFINE f == CHOOSE f : Stages(f, t, k)
<1>4. Stages(f, t, k)
  BY <1>2
<1>5. FlattenSeq(t) = f[k]
  BY <1>1, <1>3
<1> HIDE DEF f
<1>6. Stages(f, s, k)
  <2>1. \A i \in 1..k : Stage(f, t, i) = Stage(f, s, i)
    BY <1>1, Zenon DEF Stage
  <2>. QED
    BY <1>4, <2>1 DEF Stages
<1>. QED
  BY <1>5, <1>6 DEF Upto, t

\* One more of them.
LEMMA UptoStep ==
    ASSUME NEW X, NEW s \in Seq(Seq(X))
    PROVE  /\ Upto(s, 0) = <<>>
           /\ \A k \in 1..Len(s) : Upto(s, k) = Upto(s, k - 1) \o s[k]
           /\ FlattenSeq(s) = Upto(s, Len(s))
<1>1. SubSeq(s, 1, 0) = <<>>
  OBVIOUS
<1>2. Upto(s, 0) = <<>>
  BY <1>1 DEF Upto, FlattenSeq
<1>3. ASSUME NEW k \in 1..Len(s) PROVE Upto(s, k) = Upto(s, k - 1) \o s[k]
  <2>1. PICK g : Stages(g, s, k) /\ Upto(s, k) = g[k]
    BY UptoIs
  <2>2. s[k] \in Seq(X) /\ k \in Nat \ {0} /\ k - 1 \in Nat
    OBVIOUS
  <2>3. CASE k = 1
    <3>1. g[k] = s[k]
      BY <2>1, <2>2, <2>3, StageAt DEF Stage
    <3>2. <<>> \o s[k] = s[k]
      BY <2>2
    <3>. QED
      BY <1>2, <2>1, <2>3, <3>1, <3>2
  <2>4. CASE k # 1
    <3>1. k - 1 \in 1..Len(s)
      BY <2>2, <2>4
    <3>2. PICK h : Stages(h, s, k - 1) /\ Upto(s, k - 1) = h[k - 1]
      BY <3>1, UptoIs
    <3>3. g[k] = g[k - 1] \o s[k]
      <4>1. g[k] = Stage(g, s, k)
        BY <2>1, <2>2, StageAt
      <4>. QED
        BY <2>4, <4>1, Zenon DEF Stage
    <3>4. g[k - 1] = h[k - 1]
      BY <2>1, <2>2, <3>1, <3>2, StagesAgree
    <3>. QED
      BY <2>1, <3>2, <3>3, <3>4
  <2>. QED
    BY <2>3, <2>4
<1>4. FlattenSeq(s) = Upto(s, Len(s))
  <2>1. SubSeq(s, 1, Len(s)) = s
    OBVIOUS
  <2>. QED
    BY <2>1 DEF Upto
<1>. QED
  BY <1>2, <1>3, <1>4

\* They are sequences.
LEMMA UptoType ==
    ASSUME NEW X, NEW s \in Seq(Seq(X))
    PROVE  \A k \in 0..Len(s) : Upto(s, k) \in Seq(X)
<1> DEFINE S == {k \in Nat : k <= Len(s) => Upto(s, k) \in Seq(X)}
<1>1. 0 \in S
  <2>1. Upto(s, 0) = <<>>
    BY UptoStep
  <2>2. <<>> \in Seq(X)
    OBVIOUS
  <2>3. Upto(s, 0) \in Seq(X)
    BY <2>1, <2>2, Zenon
  <2>. QED
    BY <2>3
<1>2. ASSUME NEW k \in Nat, k \in S PROVE k + 1 \in S
  <2>1. CASE k + 1 <= Len(s)
    <3>1. k + 1 \in 1..Len(s) /\ (k + 1) - 1 = k /\ k <= Len(s)
      BY <2>1
    <3>2. Upto(s, k + 1) = Upto(s, k) \o s[k + 1]
      BY <3>1, UptoStep
    <3>3. Upto(s, k) \in Seq(X) /\ s[k + 1] \in Seq(X)
      BY <1>2, <3>1
    <3>4. Upto(s, k + 1) \in Seq(X)
      BY <3>2, <3>3, ConcatProperties
    <3>. QED
      BY <3>4
  <2>. QED
    BY <2>1
<1> HIDE DEF S
<1>3. Nat \subseteq S
  BY <1>1, <1>2, NatSetInduction
<1>. QED
  BY <1>3 DEF S

\* The k-th of m stands behind the ones before it.
Placed(s, m, k) ==
    /\ Len(Upto(s, k)) = Len(Upto(s, k - 1)) + Len(s[k])
    /\ Len(Upto(s, k)) <= Len(Upto(s, m))
    /\ \A j \in 1..Len(s[k]) : Upto(s, m)[Len(Upto(s, k - 1)) + j] = s[k][j]

\* Each of the first m sequences is found where the ones before it end.
LEMMA UptoPlace ==
    ASSUME NEW X, NEW s \in Seq(Seq(X))
    PROVE  \A m \in 0..Len(s) : \A k \in 1..m : Placed(s, m, k)
<1> DEFINE S == {m \in Nat : m <= Len(s) => \A k \in 1..m : Placed(s, m, k)}
<1>1. 0 \in S
  OBVIOUS
<1>2. ASSUME NEW m \in Nat, m \in S PROVE m + 1 \in S
  <2> SUFFICES ASSUME m + 1 <= Len(s), NEW k \in 1..(m + 1) PROVE Placed(s, m + 1, k)
    BY DEF S
  <2>1. m + 1 \in 1..Len(s) /\ (m + 1) - 1 = m /\ m \in 0..Len(s)
    OBVIOUS
  <2> DEFINE u == Upto(s, m)
             v == Upto(s, m + 1)
             x == s[m + 1]
  <2>2. v = u \o x
    BY <2>1, UptoStep
  <2>3. u \in Seq(X) /\ v \in Seq(X) /\ x \in Seq(X)
    <3>1. x \in Seq(X)
      BY <2>1
    <3>2. m + 1 \in 0..Len(s)
      BY <2>1
    <3>. QED
      BY <2>1, <3>1, <3>2, UptoType
  <2>4. /\ Len(v) = Len(u) + Len(x)
        /\ \A i \in 1..Len(u) : v[i] = u[i]
        /\ \A i \in 1..Len(x) : v[Len(u) + i] = x[i]
    <3> HIDE DEF u, v, x
    <3>. QED
      BY <2>2, <2>3, ConcatProperties
  <2>5. CASE k = m + 1
    <3>1. k - 1 = m
      BY <2>5
    <3>2. Len(v) \in Nat
      BY <2>3
    <3>. QED
      BY <2>4, <2>5, <3>1, <3>2 DEF Placed
  <2>6. CASE k # m + 1
    <3>1. k \in 1..m /\ k \in 1..Len(s) /\ k - 1 \in 0..Len(s) /\ k \in 0..Len(s)
      BY <2>6
    <3>2. Placed(s, m, k)
      BY <1>2, <2>1, <3>1
    <3>3. Upto(s, k) \in Seq(X) /\ Upto(s, k - 1) \in Seq(X) /\ s[k] \in Seq(X)
      BY <3>1, UptoType
    <3> DEFINE a == Len(Upto(s, k - 1))
               b == Len(s[k])
               c == Len(Upto(s, k))
    <3>4. a \in Nat /\ b \in Nat /\ c = a + b /\ c <= Len(u) /\ Len(u) \in Nat /\ Len(x) \in Nat
      <4>1. c = a + b /\ c <= Len(u)
        BY <3>2, Zenon DEF Placed
      <4>2. \A t \in Seq(X) : Len(t) \in Nat
        OBVIOUS
      <4>. QED
        BY <2>3, <3>3, <4>1, <4>2, Zenon
    <3>5. \A j \in 1..b : u[a + j] = s[k][j]
      BY <3>2 DEF Placed
    <3> HIDE DEF a, b, c, u, v, x
    <3>6. \A j \in 1..b : a + j \in 1..Len(u)
      BY <3>4
    <3>7. c <= Len(v)
      BY <2>4, <3>4
    <3>8. \A j \in 1..b : v[a + j] = s[k][j]
      BY <2>4, <3>5, <3>6
    <3>. QED
      BY <3>4, <3>7, <3>8 DEF a, b, c, v, Placed
  <2>. QED
    BY <2>5, <2>6
<1> HIDE DEF S
<1>3. Nat \subseteq S
  BY <1>1, <1>2, NatSetInduction
<1>. QED
  BY <1>3 DEF S

-----------------------------------------------------------------------------
(* The parser: where it stands in the conversion it is parsing.             *)

ModifierNames == {m[1] : m \in Modifiers}

\* A conversion as it may be written, up to its letter.
Piece(e) ==
    /\ e.conv \in {"d", "i", "u", "x", "o", "b", "c", "s", "p", "%"}
    /\ e.flags \in Seq(DOMAIN FlagOf)
    /\ ProperAmount(e.width, 1) /\ ProperAmount(e.precision, 0)
    /\ e.length \in ModifierNames

\* Where its parts begin, from the '%', which is at 1.
PrecisionChars(e) ==
    IF e.precision.how = "none" THEN <<>> ELSE <<".">> \o Amount(e.precision)
WidthFrom(e) == 2 + Len(e.flags)
PrecisionFrom(e) == WidthFrom(e) + Len(Amount(e.width))
LengthFrom(e) == PrecisionFrom(e) + Len(PrecisionChars(e))
LetterAt(e) == LengthFrom(e) + Len(e.length)

\* The first r characters are there: all, or as many as the check for the end finds.
Reaches(e, r) ==
    \/ r = LetterAt(e)
    \/ /\ e.width.how # "star" /\ e.precision.how # "star"
       /\ \/ r = 1
          \/ r = PrecisionFrom(e) /\ e.precision.how # "none"
          \/ r = LetterAt(e) - 1 /\ e.length \notin {<<>>, <<"I", "1", "6">>}

\* What spec holds behind each part.
FlagsOf(chars) == {FlagOf[f] : f \in Range(chars)}
WidthFlags(e) ==
    FlagsOf(e.flags) \cup (IF e.width.how = "star" /\ e.width.value < 0 THEN {"LEFT"} ELSE {})
AllFlags(e) == WidthFlags(e) \cup (IF e.precision.how = "none" THEN {} ELSE {"PRECISION"})
PrecisionOf(e) == Greater(e.precision.value, 0)
SizeOf(name) ==
    (IF name \in LongLengths THEN {"LONG"} ELSE {})
      \cup (IF name = <<"l", "l">> THEN {"LONG_LONG"} ELSE {})
      \cup (IF name \in {<<"h">>, <<"h", "h">>, <<"I", "1", "6">>} THEN {"SHORT"} ELSE {})
      \cup (IF name \in {<<"h", "h">>, <<"I", "8">>} THEN {"CHAR"} ELSE {})
SpecOf(flags, width, precision, size) ==
    [flags |-> flags, width |-> width, precision |-> precision, size |-> size]

\* What the first j digits of a number amount to.
Partial(n, j) == IF j = 0 THEN 0 ELSE IF j = Len(NumberChars(n)) THEN n ELSE n \div 10

StarCount(a) == IF a.how = "star" THEN 1 ELSE 0

\* The parser within conversion e, written from behind b on, r characters of it; n
\* arguments belong to what is before it.
InFlags(e, b, r, n) ==
    \E j \in 0..Len(e.flags) :
        /\ at = b + 2 + j /\ r >= PrecisionFrom(e) /\ Len(taken) = n
        /\ spec = SpecOf({FlagOf[e.flags[i]] : i \in 1..j}, 0, 0, {})
AtWidth(e, b, r, n) ==
    /\ at = b + WidthFrom(e) /\ r >= PrecisionFrom(e) /\ Len(taken) = n
    /\ spec = SpecOf(FlagsOf(e.flags), 0, 0, {})
InWidth(e, b, r, n) ==
    /\ e.width.how = "number"
    /\ \E j \in 0..Len(Amount(e.width)) :
        /\ at = b + WidthFrom(e) + j /\ r >= PrecisionFrom(e) /\ Len(taken) = n
        /\ spec = SpecOf(FlagsOf(e.flags), Partial(e.width.value, j), 0, {})
AtPrecision(e, b, r, n) ==
    /\ at = b + PrecisionFrom(e) /\ r >= PrecisionFrom(e) /\ Len(taken) = n + StarCount(e.width)
    /\ spec = SpecOf(WidthFlags(e), Abs(e.width.value), 0, {})
InPrecision(e, b, r, n) ==
    /\ e.precision.how = "number"
    /\ \E j \in 0..Len(Amount(e.precision)) :
        /\ at = b + PrecisionFrom(e) + 1 + j /\ r >= LengthFrom(e)
        /\ Len(taken) = n + StarCount(e.width)
        /\ spec = SpecOf(AllFlags(e), Abs(e.width.value), Partial(e.precision.value, j), {})
AtLength(e, b, r, n) ==
    /\ at = b + LengthFrom(e) /\ r >= LengthFrom(e)
    /\ Len(taken) = n + StarCount(e.width) + StarCount(e.precision)
    /\ spec = SpecOf(AllFlags(e), Abs(e.width.value), PrecisionOf(e), {})
AtLetter(e, b, r, n) ==
    /\ at = b + LetterAt(e) /\ r = LetterAt(e)
    /\ Len(taken) = n + StarCount(e.width) + StarCount(e.precision)
    /\ spec = SpecOf(AllFlags(e), Abs(e.width.value), PrecisionOf(e), SizeOf(e.length))

Within(e, b, r, n) ==
    \/ phase = "flags" /\ InFlags(e, b, r, n)
    \/ phase = "width" /\ AtWidth(e, b, r, n)
    \/ phase = "width_digits" /\ InWidth(e, b, r, n)
    \/ phase = "precision" /\ AtPrecision(e, b, r, n)
    \/ phase = "precision_digits" /\ InPrecision(e, b, r, n)
    \/ phase = "length" /\ AtLength(e, b, r, n)
    \/ phase = "specifier" /\ AtLetter(e, b, r, n)

\* The conversion a tail is cut from.
CutItems ==
    [flags: {<<>>}, length: ModifierNames, conv: {"d"}, arg: {0},
     width: {[how |-> "none", value |-> 0]} \cup [how: {"number"}, value: 1..99],
     precision: {[how |-> "none", value |-> 0], [how |-> "number", value |-> 0]}]
CutFrom(e, tail) ==
    \/ tail = <<"%">>
    \/ e.precision.how # "none" /\ tail = <<"%">> \o Amount(e.width) \o <<".">>
    \/ /\ e.precision.how = "none" /\ e.length \notin {<<>>, <<"I", "1", "6">>}
       /\ tail = <<"%">> \o Amount(e.width) \o e.length
CutItem(tail) == CHOOSE e \in CutItems : CutFrom(e, tail)

\* The pieces of the format, and what comes before each.
Count == Len(input.items)
PieceCount == IF input.tail = <<>> THEN Count ELSE Count + 1
PieceAt(k) == IF k <= Count THEN input.items[k] ELSE CutItem(input.tail)
Spellings == [i \in DOMAIN input.items |-> Spell(input.items[i])]
ArgLists == [i \in DOMAIN input.items |-> ArgsOf(input.items[i])]
Renderings == [i \in DOMAIN input.items |-> Rendering(input.items[i])]
Begin(k) == Len(Upto(Spellings, k - 1))
ArgsBefore(k) == Len(Upto(ArgLists, k - 1))
Reach(k) == IF k <= Count THEN Len(Spell(input.items[k])) ELSE Len(input.tail)

\* The parser within the format, with the first k - 1 pieces behind it: in front of
\* the k-th, or within it, or behind them all.
InFront(k) == at = Begin(k) + 1 /\ Len(taken) = ArgsBefore(k)
Amid(k) ==
    /\ k \in 1..PieceCount /\ PieceAt(k).conv # "text"
    /\ Within(PieceAt(k), Begin(k), Reach(k), ArgsBefore(k))
Standing(k) ==
    /\ phase = "text" => InFront(k)
    /\ phase \in {"end", "done"} => k = Count + 1 /\ Len(taken) = ArgsBefore(k)
    /\ phase \notin {"text", "end", "done"} => Amid(k)
Place == \E k \in 1..(Count + 1) : Standing(k)

\* What has been printed by then.
Printed(k) == given = Upto(Renderings, k - 1)

-----------------------------------------------------------------------------
(* Characters: what a format is spelled with.                               *)

Digit == {"0", "1", "2", "3", "4", "5", "6", "7", "8", "9"}

\* The digits are those is_digit knows, with their values.
LEMMA DigitsAre ==
    /\ DOMAIN DigitValue = Digit
    /\ \A n \in 0..9 : DigitChars[n + 1] \in Digit /\ DigitValue[DigitChars[n + 1]] = n
    /\ \A n \in 1..9 : DigitChars[n + 1] # "0"
<1>1. /\ DigitChars[1] = "0" /\ DigitChars[2] = "1" /\ DigitChars[3] = "2" /\ DigitChars[4] = "3"
      /\ DigitChars[5] = "4" /\ DigitChars[6] = "5" /\ DigitChars[7] = "6" /\ DigitChars[8] = "7"
      /\ DigitChars[9] = "8" /\ DigitChars[10] = "9"
  BY DEF DigitChars
<1>2. \A i, j \in 1..10 : DigitChars[i] = DigitChars[j] => i = j
  BY <1>1
<1>3. DOMAIN DigitValue = {DigitChars[i] : i \in 1..10}
  BY DEF DigitValue
<1>4. {DigitChars[i] : i \in 1..10} = Digit
  BY <1>1 DEF Digit
<1>5. ASSUME NEW n \in 0..9 PROVE DigitChars[n + 1] \in Digit /\ DigitValue[DigitChars[n + 1]] = n
  <2>1. n + 1 \in 1..10
    OBVIOUS
  <2> DEFINE i == CHOOSE i \in 1..10 : DigitChars[i] = DigitChars[n + 1]
  <2>2. i \in 1..10 /\ DigitChars[i] = DigitChars[n + 1]
    BY <2>1
  <2>3. i = n + 1
    BY <1>2, <2>1, <2>2
  <2>4. DigitValue[DigitChars[n + 1]] = i - 1
    BY <2>1 DEF DigitValue
  <2> HIDE DEF i
  <2>. QED
    BY <1>4, <2>1, <2>3, <2>4
<1>6. \A n \in 1..9 : DigitChars[n + 1] # "0"
  BY <1>1
<1>. QED
  BY <1>3, <1>4, <1>5, <1>6

\* The digits of a number, and what atou_ makes of them one after the other.
LEMMA NumberIs ==
    ASSUME NEW n \in 0..99
    PROVE  /\ NumberChars(n) \in Seq(Digit) /\ Len(NumberChars(n)) \in 1..2
           /\ n > 0 => NumberChars(n)[1] # "0"
           /\ Partial(n, 0) = 0 /\ Partial(n, Len(NumberChars(n))) = n
           /\ \A j \in 1..Len(NumberChars(n)) :
                /\ Partial(n, j - 1) \in Nat
                /\ Partial(n, j - 1) * 10 + DigitValue[NumberChars(n)[j]] = Partial(n, j)
<1>1. CASE n < 10
  <2> DEFINE d == DigitChars[n + 1]
  <2>1. d \in Digit /\ DigitValue[d] = n /\ (n > 0 => d # "0")
    BY <1>1, DigitsAre
  <2>2. NumberChars(n) = <<d>>
    BY <1>1 DEF NumberChars
  <2> HIDE DEF d
  <2>3. NumberChars(n) \in Seq(Digit) /\ Len(NumberChars(n)) = 1 /\ NumberChars(n)[1] = d
    BY <2>1, <2>2
  <2>4. Partial(n, 0) = 0 /\ Partial(n, 1) = n
    BY <2>3 DEF Partial
  <2>. QED
    BY <2>1, <2>3, <2>4
<1>2. CASE n >= 10
  <2>1. n \div 10 \in 1..9 /\ n % 10 \in 0..9 /\ n = ((n \div 10) * 10) + (n % 10)
    BY <1>2
  <2> DEFINE d == DigitChars[(n \div 10) + 1]
             u == DigitChars[(n % 10) + 1]
  <2>2. d \in Digit /\ DigitValue[d] = n \div 10 /\ d # "0" /\ u \in Digit /\ DigitValue[u] = n % 10
    BY <2>1, DigitsAre
  <2>3. NumberChars(n) = <<d, u>>
    BY <1>2 DEF NumberChars
  <2> HIDE DEF d, u
  <2>4. /\ NumberChars(n) \in Seq(Digit) /\ Len(NumberChars(n)) = 2
        /\ NumberChars(n)[1] = d /\ NumberChars(n)[2] = u
    BY <2>2, <2>3
  <2>5. Partial(n, 0) = 0 /\ Partial(n, 1) = n \div 10 /\ Partial(n, 2) = n
    BY <2>4 DEF Partial
  <2>. QED
    BY <2>1, <2>2, <2>4, <2>5
<1>. QED
  BY <1>1, <1>2

\* A width or a precision as it is written.
LEMMA AmountIs ==
    ASSUME NEW a, NEW least \in Nat, ProperAmount(a, least)
    PROVE  /\ Amount(a) \in Seq(Digit \cup {"*"})
           /\ a.how \in {"none", "number", "star"} /\ a.value \in Int
           /\ a.how = "none" => Amount(a) = <<>> /\ Len(Amount(a)) = 0 /\ a.value = 0
           /\ a.how = "star" => Amount(a) = <<"*">> /\ Len(Amount(a)) = 1
           /\ a.how = "number" => Amount(a) = NumberChars(a.value) /\ a.value \in 0..99 /\ a.value >= least
<1>1. CASE a.how = "none"
  BY <1>1 DEF ProperAmount, Amount
<1>2. CASE a.how = "star"
  BY <1>2 DEF ProperAmount, Amount
<1>3. CASE a.how = "number"
  <2>1. a.value \in 0..99 /\ a.value >= least /\ Amount(a) = NumberChars(a.value)
    BY <1>3 DEF ProperAmount, Amount
  <2>2. Amount(a) \in Seq(Digit)
    BY <2>1, NumberIs
  <2>3. Amount(a) \in Seq(Digit \cup {"*"})
    BY <2>2
  <2>4. a.how # "none" /\ a.how # "star" /\ a.value \in Int
    BY <1>3, <2>1
  <2>. QED
    BY <1>3, <2>1, <2>3, <2>4, Zenon
<1>. QED
  BY <1>1, <1>2, <1>3 DEF ProperAmount

\* The length modifiers.
LEMMA ModifiersAre ==
    Modifiers =
      {<<<<>>, {}>>, <<<<"I">>, {}>>, <<<<"I", "1">>, {}>>, <<<<"I", "3">>, {}>>,
       <<<<"I", "3", "2">>, {}>>, <<<<"I", "6">>, {}>>,
       <<<<"l">>, {"LONG"}>>, <<<<"t">>, {"LONG"}>>, <<<<"j">>, {"LONG"}>>, <<<<"z">>, {"LONG"}>>,
       <<<<"I", "6", "4">>, {"LONG"}>>, <<<<"h">>, {"SHORT"}>>, <<<<"I", "1", "6">>, {"SHORT"}>>,
       <<<<"h", "h">>, {"SHORT", "CHAR"}>>, <<<<"l", "l">>, {"LONG", "LONG_LONG"}>>,
       <<<<"I", "8">>, {"CHAR"}>>}
<1>1. Modifiers =
        {<<m, {}>> : m \in {<<>>, <<"I">>, <<"I", "1">>, <<"I", "3">>, <<"I", "3", "2">>, <<"I", "6">>}}
          \cup {<<m, {"LONG"}>> : m \in {<<"l">>, <<"t">>, <<"j">>, <<"z">>, <<"I", "6", "4">>}}
          \cup {<<m, {"SHORT"}>> : m \in {<<"h">>, <<"I", "1", "6">>}}
          \cup {<<<<"h", "h">>, {"SHORT", "CHAR"}>>, <<<<"l", "l">>, {"LONG", "LONG_LONG"}>>,
                <<<<"I", "8">>, {"CHAR"}>>}
  BY DEF Modifiers
<1>. QED
  BY <1>1, Zenon

-----------------------------------------------------------------------------
(* How a conversion is spelled.                                            *)

\* The characters of formats and of what they print: strings, without the terminator.
\* The letters are named because the provers do not know that a literal is one.
Letters ==
    {"0", "1", "2", "3", "4", "5", "6", "7", "8", "9", "a", "b", "c", "d", "e", "f",
     "-", "+", " ", "#", "%", ".", "*", "h", "l", "z", "t", "j", "I",
     "i", "u", "x", "o", "s", "p", "n", "(", ")"}
Char == (STRING \cup Letters) \ {NUL}

\* None of them is the terminator.
LEMMA LettersAre == Letters \subseteq Char
  BY DEF Letters, Char, NUL

\* One more sequence at the end moves nothing.
LEMMA AtTheEnd ==
    ASSUME NEW X, NEW s \in Seq(X), NEW t \in Seq(X)
    PROVE  /\ s \o t \in Seq(X) /\ Len(s \o t) = Len(s) + Len(t)
           /\ Len(s) \in Nat /\ Len(t) \in Nat
           /\ \A i \in 1..Len(s) : (s \o t)[i] = s[i]
           /\ \A i \in 1..Len(t) : (s \o t)[Len(s) + i] = t[i]
<1>1. s \o t \in Seq(X) /\ Len(s \o t) = Len(s) + Len(t) /\ Len(s) \in Nat /\ Len(t) \in Nat
  OBVIOUS
<1>2. \A i \in 1..Len(s) : (s \o t)[i] = s[i]
  OBVIOUS
<1>3. \A i \in 1..Len(t) : (s \o t)[Len(s) + i] = t[i]
  OBVIOUS
<1>. QED
  BY <1>1, <1>2, <1>3, Zenon

\* The same, in one word.
Joined(u, s, t) ==
    /\ Len(u) = Len(s) + Len(t)
    /\ \A i \in 1..Len(s) : u[i] = s[i]
    /\ \A i \in 1..Len(t) : u[Len(s) + i] = t[i]

\* One sequence behind another.
LEMMA Join ==
    ASSUME NEW X, NEW s \in Seq(X), NEW t \in Seq(X)
    PROVE  s \o t \in Seq(X) /\ Joined(s \o t, s, t)
  BY AtTheEnd DEF Joined

\* The characters that are flags.
LEMMA FlagCharsAre == DOMAIN FlagOf = {"0", "-", "+", " ", "#"}
  BY DEF FlagOf

\* A larger set of elements.
LEMMA Wider == ASSUME NEW X, NEW Y, X \subseteq Y, NEW s \in Seq(X) PROVE s \in Seq(Y)
  OBVIOUS

\* The names of the length modifiers.
Initials == {"h", "l", "z", "t", "j", "I"}

\* A length modifier is at most three characters, of a few.
LEMMA NamesAre ==
    ASSUME NEW name \in ModifierNames
    PROVE  /\ name \in Seq(Initials \cup {"1", "2", "3", "4", "6", "8"})
           /\ Len(name) \in 0..3
           /\ Len(name) > 0 => name[1] \in Initials
           /\ Len(name) = 0 <=> name = <<>>
<1>1. name \in {<<>>, <<"I">>, <<"I", "1">>, <<"I", "3">>, <<"I", "3", "2">>, <<"I", "6">>,
                <<"l">>, <<"t">>, <<"j">>, <<"z">>, <<"I", "6", "4">>, <<"h">>, <<"I", "1", "6">>,
                <<"h", "h">>, <<"l", "l">>, <<"I", "8">>}
  <2>1. PICK m \in Modifiers : name = m[1]
    BY DEF ModifierNames
  <2>. QED
    BY <2>1, ModifiersAre
<1> DEFINE X == Initials \cup {"1", "2", "3", "4", "6", "8"}
<1>2. "I" \in X /\ "l" \in X /\ "t" \in X /\ "j" \in X /\ "z" \in X /\ "h" \in X
      /\ "1" \in X /\ "2" \in X /\ "3" \in X /\ "4" \in X /\ "6" \in X /\ "8" \in X
  BY DEF Initials
<1>3. "I" \in Initials /\ "l" \in Initials /\ "t" \in Initials /\ "j" \in Initials
      /\ "z" \in Initials /\ "h" \in Initials
  BY DEF Initials
<1> HIDE DEF X
<1>4. name \in Seq(X)
  <2>1. <<>> \in Seq(X) /\ <<"I">> \in Seq(X) /\ <<"I", "1">> \in Seq(X) /\ <<"I", "3">> \in Seq(X)
    BY <1>2
  <2>2. <<"I", "3", "2">> \in Seq(X) /\ <<"I", "6">> \in Seq(X) /\ <<"l">> \in Seq(X) /\ <<"t">> \in Seq(X)
    BY <1>2
  <2>3. <<"j">> \in Seq(X) /\ <<"z">> \in Seq(X) /\ <<"I", "6", "4">> \in Seq(X) /\ <<"h">> \in Seq(X)
    BY <1>2
  <2>4. <<"I", "1", "6">> \in Seq(X) /\ <<"h", "h">> \in Seq(X) /\ <<"l", "l">> \in Seq(X)
        /\ <<"I", "8">> \in Seq(X)
    BY <1>2
  <2>. QED
    BY <1>1, <2>1, <2>2, <2>3, <2>4, Zenon
<1>5. Len(name) \in 0..3 /\ (Len(name) > 0 => name[1] \in Initials) /\ (Len(name) = 0 <=> name = <<>>)
  BY <1>1, <1>3
<1>. QED
  BY <1>4, <1>5 DEF X

\* The parts of a conversion, and where they begin.
LEMMA PartsAre ==
    ASSUME NEW e, Piece(e)
    PROVE  /\ e.flags \in Seq(Char) /\ Amount(e.width) \in Seq(Char)
           /\ PrecisionChars(e) \in Seq(Char) /\ e.length \in Seq(Char) /\ e.conv \in Char
           /\ Len(e.flags) \in Nat /\ Len(Amount(e.width)) \in Nat
           /\ Len(PrecisionChars(e)) \in Nat /\ Len(e.length) \in Nat
           /\ WidthFrom(e) \in Nat /\ PrecisionFrom(e) \in Nat
           /\ LengthFrom(e) \in Nat /\ LetterAt(e) \in Nat
           /\ 2 <= WidthFrom(e) /\ WidthFrom(e) <= PrecisionFrom(e)
           /\ PrecisionFrom(e) <= LengthFrom(e) /\ LengthFrom(e) <= LetterAt(e)
<1>1. e.flags \in Seq(Char)
  <2>1. DOMAIN FlagOf \subseteq Char
    BY FlagCharsAre, LettersAre DEF Letters
  <2>. QED
    BY <2>1, Wider DEF Piece
<1>2. Digit \cup {"*"} \subseteq Char /\ Initials \cup {"1", "2", "3", "4", "6", "8"} \subseteq Char
  BY LettersAre DEF Digit, Initials, Letters
<1>3. Amount(e.width) \in Seq(Char)
  BY <1>2, AmountIs, Wider DEF Piece
<1>4. Amount(e.precision) \in Seq(Char)
  BY <1>2, AmountIs, Wider DEF Piece
<1>5. PrecisionChars(e) \in Seq(Char)
  <2>1. <<".">> \o Amount(e.precision) \in Seq(Char)
    <3>1. "." \in Char
      BY LettersAre DEF Letters
    <3>2. <<".">> \in Seq(Char)
      BY <3>1
    <3>. QED
      BY <1>4, <3>2, AtTheEnd
  <2>2. <<>> \in Seq(Char)
    OBVIOUS
  <2>. QED
    BY <2>1, <2>2, Zenon DEF PrecisionChars
<1>6. e.length \in Seq(Char)
  BY <1>2, NamesAre, Wider DEF Piece
<1>7. e.conv \in Char
  BY LettersAre DEF Piece, Letters
<1>8. \A s \in Seq(Char) : Len(s) \in Nat
  OBVIOUS
<1>9. /\ Len(e.flags) \in Nat /\ Len(Amount(e.width)) \in Nat
      /\ Len(PrecisionChars(e)) \in Nat /\ Len(e.length) \in Nat
  BY <1>1, <1>3, <1>5, <1>6, <1>8, Zenon
<1>12. /\ WidthFrom(e) \in Nat /\ PrecisionFrom(e) \in Nat
       /\ LengthFrom(e) \in Nat /\ LetterAt(e) \in Nat
       /\ 2 <= WidthFrom(e) /\ WidthFrom(e) <= PrecisionFrom(e)
       /\ PrecisionFrom(e) <= LengthFrom(e) /\ LengthFrom(e) <= LetterAt(e)
  <2> DEFINE a == Len(e.flags)
             b == Len(Amount(e.width))
             c == Len(PrecisionChars(e))
             d == Len(e.length)
  <2>1. a \in Nat /\ b \in Nat /\ c \in Nat /\ d \in Nat
    BY <1>9
  <2>2. WidthFrom(e) = 2 + a /\ PrecisionFrom(e) = 2 + a + b /\ LengthFrom(e) = 2 + a + b + c
        /\ LetterAt(e) = 2 + a + b + c + d
    BY DEF WidthFrom, PrecisionFrom, LengthFrom, LetterAt
  <2> HIDE DEF a, b, c, d
  <2>. QED
    BY <2>1, <2>2
<1>. QED
  BY <1>1, <1>3, <1>5, <1>6, <1>7, <1>9, <1>12

\* A conversion, character by character.
LEMMA SpellIs ==
    ASSUME NEW e, Piece(e)
    PROVE  /\ Spell(e) \in Seq(Char) /\ Len(Spell(e)) = LetterAt(e)
           /\ Spell(e)[1] = "%"
           /\ \A j \in 1..Len(e.flags) : Spell(e)[1 + j] = e.flags[j]
           /\ \A j \in 1..Len(Amount(e.width)) : Spell(e)[WidthFrom(e) + j - 1] = Amount(e.width)[j]
           /\ \A j \in 1..Len(PrecisionChars(e)) :
                Spell(e)[PrecisionFrom(e) + j - 1] = PrecisionChars(e)[j]
           /\ \A j \in 1..Len(e.length) : Spell(e)[LengthFrom(e) + j - 1] = e.length[j]
           /\ Spell(e)[LetterAt(e)] = e.conv
<1> DEFINE p == <<"%">>
           f == e.flags
           w == Amount(e.width)
           q == PrecisionChars(e)
           l == e.length
           c == <<e.conv>>
<1>1. p \in Seq(Char) /\ f \in Seq(Char) /\ w \in Seq(Char) /\ q \in Seq(Char)
      /\ l \in Seq(Char) /\ c \in Seq(Char)
  <2>1. "%" \in Char /\ e.conv \in Char
    BY PartsAre, LettersAre DEF Letters
  <2>2. p \in Seq(Char) /\ c \in Seq(Char)
    BY <2>1
  <2> HIDE DEF p, c
  <2>. QED
    BY <2>2, PartsAre, Zenon
<1>2. Len(p) = 1 /\ p[1] = "%" /\ Len(c) = 1 /\ c[1] = e.conv
  OBVIOUS
<1>3. e.conv # "text"
  BY DEF Piece
<1>4. Spell(e) = p \o f \o w \o q \o l \o c
  BY <1>3, Zenon DEF Spell, PrecisionChars
<1>5. /\ WidthFrom(e) = 2 + Len(f) /\ PrecisionFrom(e) = WidthFrom(e) + Len(w)
      /\ LengthFrom(e) = PrecisionFrom(e) + Len(q) /\ LetterAt(e) = LengthFrom(e) + Len(l)
  BY DEF WidthFrom, PrecisionFrom, LengthFrom, LetterAt
<1> HIDE DEF p, f, w, q, l, c
<1> DEFINE pf == p \o f
           pfw == pf \o w
           pfwq == pfw \o q
           pfwql == pfwq \o l
           all == pfwql \o c
<1>6. pf \in Seq(Char) /\ Joined(pf, p, f)
  BY <1>1, Join
<1>7. pfw \in Seq(Char) /\ Joined(pfw, pf, w)
  BY <1>1, <1>6, Join
<1>8. pfwq \in Seq(Char) /\ Joined(pfwq, pfw, q)
  BY <1>1, <1>7, Join
<1>9. pfwql \in Seq(Char) /\ Joined(pfwql, pfwq, l)
  BY <1>1, <1>8, Join
<1>10. all \in Seq(Char) /\ Joined(all, pfwql, c)
  BY <1>1, <1>9, Join
<1>18. Spell(e) = all
  BY <1>4
<1> HIDE DEF pf, pfw, pfwq, pfwql, all
<1>19. Len(f) \in Nat /\ Len(w) \in Nat /\ Len(q) \in Nat /\ Len(l) \in Nat
  BY <1>1
<1>11. Len(pf) = WidthFrom(e) - 1 /\ Len(pfw) = PrecisionFrom(e) - 1
       /\ Len(pfwq) = LengthFrom(e) - 1 /\ Len(pfwql) = LetterAt(e) - 1 /\ Len(all) = LetterAt(e)
  <2>1. Len(pf) = 1 + Len(f) /\ Len(pfw) = Len(pf) + Len(w) /\ Len(pfwq) = Len(pfw) + Len(q)
        /\ Len(pfwql) = Len(pfwq) + Len(l) /\ Len(all) = Len(pfwql) + 1
    BY <1>2, <1>6, <1>7, <1>8, <1>9, <1>10 DEF Joined
  <2>. QED
    BY <1>5, <1>19, <2>1
<1>20. WidthFrom(e) \in Nat /\ PrecisionFrom(e) \in Nat /\ LengthFrom(e) \in Nat /\ LetterAt(e) \in Nat
       /\ 2 <= WidthFrom(e) /\ WidthFrom(e) <= PrecisionFrom(e)
       /\ PrecisionFrom(e) <= LengthFrom(e) /\ LengthFrom(e) <= LetterAt(e)
  BY PartsAre
\* What is in a part stays there.
<1>21. \A i \in 1..(LetterAt(e) - 1) : all[i] = pfwql[i]
  BY <1>10, <1>11 DEF Joined
<1>22. \A i \in 1..(LengthFrom(e) - 1) : all[i] = pfwq[i]
  <2>1. \A i \in 1..(LengthFrom(e) - 1) : i \in 1..(LetterAt(e) - 1)
    BY <1>20
  <2>2. \A i \in 1..(LengthFrom(e) - 1) : pfwql[i] = pfwq[i]
    BY <1>9, <1>11 DEF Joined
  <2>. QED
    BY <1>21, <2>1, <2>2
<1>23. \A i \in 1..(PrecisionFrom(e) - 1) : all[i] = pfw[i]
  <2>1. \A i \in 1..(PrecisionFrom(e) - 1) : i \in 1..(LengthFrom(e) - 1)
    BY <1>20
  <2>2. \A i \in 1..(PrecisionFrom(e) - 1) : pfwq[i] = pfw[i]
    BY <1>8, <1>11 DEF Joined
  <2>. QED
    BY <1>22, <2>1, <2>2
<1>24. \A i \in 1..(WidthFrom(e) - 1) : all[i] = pf[i]
  <2>1. \A i \in 1..(WidthFrom(e) - 1) : i \in 1..(PrecisionFrom(e) - 1)
    BY <1>20
  <2>2. \A i \in 1..(WidthFrom(e) - 1) : pfw[i] = pf[i]
    BY <1>7, <1>11 DEF Joined
  <2>. QED
    BY <1>23, <2>1, <2>2
<1>13. all[1] = "%" /\ \A j \in 1..Len(f) : all[1 + j] = f[j]
  <2>1. 1 \in 1..(WidthFrom(e) - 1) /\ pf[1] = "%"
    BY <1>2, <1>6, <1>20 DEF Joined
  <2>2. ASSUME NEW j \in 1..Len(f) PROVE 1 + j \in 1..(WidthFrom(e) - 1) /\ pf[1 + j] = f[j]
    BY <1>2, <1>5, <1>6, <1>19 DEF Joined
  <2>. QED
    BY <1>24, <2>1, <2>2
<1>14. ASSUME NEW j \in 1..Len(w) PROVE all[WidthFrom(e) + j - 1] = w[j]
  <2>1. pfw[Len(pf) + j] = w[j]
    BY <1>7 DEF Joined
  <2>2. Len(pf) + j = WidthFrom(e) + j - 1 /\ WidthFrom(e) + j - 1 \in 1..(PrecisionFrom(e) - 1)
    BY <1>5, <1>11, <1>19, <1>20
  <2>. QED
    BY <1>23, <2>1, <2>2
<1>15. ASSUME NEW j \in 1..Len(q) PROVE all[PrecisionFrom(e) + j - 1] = q[j]
  <2>1. pfwq[Len(pfw) + j] = q[j]
    BY <1>8 DEF Joined
  <2>2. Len(pfw) + j = PrecisionFrom(e) + j - 1 /\ PrecisionFrom(e) + j - 1 \in 1..(LengthFrom(e) - 1)
    BY <1>5, <1>11, <1>19, <1>20
  <2>. QED
    BY <1>22, <2>1, <2>2
<1>16. ASSUME NEW j \in 1..Len(l) PROVE all[LengthFrom(e) + j - 1] = l[j]
  <2>1. pfwql[Len(pfwq) + j] = l[j]
    BY <1>9 DEF Joined
  <2>2. Len(pfwq) + j = LengthFrom(e) + j - 1 /\ LengthFrom(e) + j - 1 \in 1..(LetterAt(e) - 1)
    BY <1>5, <1>11, <1>19, <1>20
  <2>. QED
    BY <1>21, <2>1, <2>2
<1>17. all[LetterAt(e)] = e.conv
  <2>1. all[Len(pfwql) + 1] = c[1]
    BY <1>2, <1>10 DEF Joined
  <2>2. Len(pfwql) + 1 = LetterAt(e)
    BY <1>11, <1>20
  <2>. QED
    BY <1>2, <2>1, <2>2
<1>. QED
  BY <1>18, <1>10, <1>11, <1>13, <1>14, <1>15, <1>16, <1>17, Zenon DEF f, w, q, l

-----------------------------------------------------------------------------
(* What the loop meets within a conversion, and the step it takes there.   *)

\* Conversion e stands behind b in the format, r characters of it.
Spelled(e, b, r) ==
    /\ b \in Nat /\ r \in 1..LetterAt(e) /\ Reaches(e, r)
    /\ fmt \in Seq(Char) /\ b + r <= Len(fmt)
    /\ \A j \in 1..r : fmt[b + j] = Spell(e)[j]
    /\ r < LetterAt(e) => Len(fmt) = b + r

\* The characters of a piece, and the end of the format behind one that is cut off.
LEMMA CharIs ==
    ASSUME NEW e, NEW b, NEW r, Spelled(e, b, r)
    PROVE  /\ \A j \in 1..r : CharAt(b + j) = Spell(e)[j] /\ CharAt(b + j) # NUL
           /\ r < LetterAt(e) => CharAt(b + r + 1) = NUL
<1>1. b \in Nat /\ Len(fmt) \in Nat /\ b + r <= Len(fmt) /\ fmt \in Seq(Char)
  BY DEF Spelled
<1>2. ASSUME NEW j \in 1..r, r \in Nat PROVE CharAt(b + j) = Spell(e)[j] /\ CharAt(b + j) # NUL
  <2>1. b + j \in 1..Len(fmt)
    BY <1>1, <1>2
  <2>2. CharAt(b + j) = fmt[b + j]
    BY <1>1, <2>1 DEF CharAt
  <2>3. fmt[b + j] \in Char
    BY <1>1, <2>1
  <2>4. fmt[b + j] # NUL
    BY <2>3 DEF Char
  <2>. QED
    BY <2>2, <2>4 DEF Spelled
<1>3. ASSUME r < LetterAt(e), r \in Nat PROVE CharAt(b + r + 1) = NUL
  <2>1. Len(fmt) = b + r
    BY <1>3 DEF Spelled
  <2>2. ~(b + r + 1 <= Len(fmt))
    BY <1>1, <1>3, <2>1
  <2>. QED
    BY <2>2 DEF CharAt
<1>4. r \in Nat
  BY DEF Spelled
<1>. QED
  BY <1>2, <1>3, <1>4

\* What comes next, part by part.
Conversion == {"d", "i", "u", "x", "o", "b", "c", "s", "p", "%"}

\* Where the length modifier may begin there is one, or the letter.
LEMMA LengthChar ==
    ASSUME NEW e, NEW b, NEW r, Piece(e), Spelled(e, b, r), r >= LengthFrom(e)
    PROVE  CharAt(b + LengthFrom(e)) \in Initials \cup Conversion
<1>1. LengthFrom(e) \in 1..r /\ LetterAt(e) = LengthFrom(e) + Len(e.length) /\ Len(e.length) \in Nat
  BY PartsAre DEF Spelled, LetterAt
<1>2. CharAt(b + LengthFrom(e)) = Spell(e)[LengthFrom(e)]
  BY <1>1, CharIs
<1>3. CASE Len(e.length) = 0
  <2>1. LetterAt(e) = LengthFrom(e)
    BY <1>1, <1>3
  <2>2. Spell(e)[LetterAt(e)] = e.conv
    BY SpellIs
  <2>3. e.conv \in Conversion
    BY DEF Piece, Conversion
  <2>. QED
    BY <1>2, <2>1, <2>2, <2>3
<1>4. CASE Len(e.length) > 0
  <2>1. e.length[1] \in Initials
    BY <1>4, NamesAre DEF Piece
  <2>2. 1 \in 1..Len(e.length) /\ LengthFrom(e) + 1 - 1 = LengthFrom(e)
    BY <1>1, <1>4
  <2>3. Spell(e)[LengthFrom(e) + 1 - 1] = e.length[1]
    BY <2>2, SpellIs
  <2>. QED
    BY <1>2, <2>1, <2>2, <2>3
<1>. QED
  BY <1>1, <1>3, <1>4

\* Where the precision may begin there is its '.', or what comes behind it.
LEMMA PrecisionChar ==
    ASSUME NEW e, NEW b, NEW r, Piece(e), Spelled(e, b, r), r >= PrecisionFrom(e)
    PROVE  /\ e.precision.how = "none" =>
                LengthFrom(e) = PrecisionFrom(e)
                /\ CharAt(b + PrecisionFrom(e)) \in Initials \cup Conversion
           /\ e.precision.how # "none" =>
                /\ CharAt(b + PrecisionFrom(e)) = "."
                /\ LengthFrom(e) = PrecisionFrom(e) + 1 + Len(Amount(e.precision))
                /\ Len(Amount(e.precision)) \in Nat
                /\ r >= LengthFrom(e) => \A j \in 1..Len(Amount(e.precision)) :
                     CharAt(b + PrecisionFrom(e) + j) = Amount(e.precision)[j]
<1>1. PrecisionFrom(e) \in 1..r /\ r \in Nat /\ b \in Nat /\ LengthFrom(e) = PrecisionFrom(e) + Len(PrecisionChars(e))
      /\ LengthFrom(e) \in Nat
  BY PartsAre DEF Spelled, LengthFrom
<1>2. CASE e.precision.how = "none"
  <2>1. Len(PrecisionChars(e)) = 0
    BY <1>2 DEF PrecisionChars
  <2>2. LengthFrom(e) = PrecisionFrom(e)
    BY <1>1, <2>1
  <2>3. r >= LengthFrom(e)
    BY <2>2
  <2>4. CharAt(b + LengthFrom(e)) \in Initials \cup Conversion
    BY <2>3, LengthChar
  <2>. QED
    BY <1>2, <2>2, <2>4, Zenon
<1>3. CASE e.precision.how # "none"
  <2> DEFINE q == PrecisionChars(e)
             a == Amount(e.precision)
             p == PrecisionFrom(e)
  <2>1. a \in Seq(Char)
    <3>1. Digit \cup {"*"} \subseteq Char
      BY LettersAre DEF Digit, Letters
    <3>. QED
      BY <3>1, AmountIs, Wider DEF Piece
  <2>2. q = <<".">> \o a
    BY <1>3 DEF PrecisionChars
  <2>3. <<".">> \in Seq(Char)
    <3>1. "." \in Char
      BY LettersAre DEF Letters
    <3>. QED
      BY <3>1
  <2>4. Joined(q, <<".">>, a)
    BY <2>1, <2>2, <2>3, Join
  <2>5. \A j \in 1..Len(q) : Spell(e)[p + j - 1] = q[j]
    BY SpellIs
  <2>6. Len(a) \in Nat
    BY <2>1
  <2> HIDE DEF q, a, p
  <2>7. Len(q) = 1 + Len(a) /\ q[1] = "." /\ \A j \in 1..Len(a) : q[1 + j] = a[j]
    BY <2>4 DEF Joined
  <2>8. p \in 1..r /\ LengthFrom(e) = p + 1 + Len(a)
    BY <1>1, <2>6, <2>7 DEF p, q
  <2>9. CharAt(b + p) = "."
    <3>1. 1 \in 1..Len(q) /\ p + 1 - 1 = p
      BY <2>6, <2>7, <2>8
    <3>2. Spell(e)[p] = "."
      BY <2>5, <2>7, <3>1
    <3>. QED
      BY <2>8, <3>2, CharIs
  <2>10. ASSUME r >= LengthFrom(e), NEW j \in 1..Len(a)
         PROVE  CharAt(b + p + j) = a[j]
    <3>1. 1 + j \in 1..Len(q) /\ p + (1 + j) - 1 = p + j /\ p + j \in 1..r /\ b + (p + j) = b + p + j
      BY <1>1, <2>6, <2>7, <2>8, <2>10
    <3>2. Spell(e)[p + j] = a[j]
      BY <2>5, <2>7, <3>1
    <3>3. CharAt(b + (p + j)) = Spell(e)[p + j]
      BY <3>1, CharIs
    <3>. QED
      BY <3>1, <3>2, <3>3
  <2>. QED
    BY <1>3, <2>6, <2>8, <2>9, <2>10 DEF a, p
<1>. QED
  BY <1>2, <1>3

\* Where the width may begin there is one, or what comes behind it.
LEMMA WidthChar ==
    ASSUME NEW e, NEW b, NEW r, Piece(e), Spelled(e, b, r), r >= PrecisionFrom(e)
    PROVE  /\ PrecisionFrom(e) = WidthFrom(e) + Len(Amount(e.width))
           /\ Len(Amount(e.width)) \in Nat
           /\ e.width.how = "none" => PrecisionFrom(e) = WidthFrom(e)
           /\ \A j \in 1..Len(Amount(e.width)) :
                CharAt(b + WidthFrom(e) + j - 1) = Amount(e.width)[j]
<1> DEFINE w == Amount(e.width)
           o == WidthFrom(e)
<1>1. o \in Nat /\ 2 <= o /\ Len(w) \in Nat /\ PrecisionFrom(e) = o + Len(w) /\ r \in Nat /\ b \in Nat
  BY PartsAre DEF Spelled, PrecisionFrom
<1>2. \A j \in 1..Len(w) : Spell(e)[o + j - 1] = w[j]
  BY SpellIs
<1>3. e.width.how = "none" => Len(w) = 0
  BY DEF Amount
<1> HIDE DEF w, o
<1>4. ASSUME NEW j \in 1..Len(w) PROVE CharAt(b + o + j - 1) = w[j]
  <2>1. o + j - 1 \in 1..r /\ b + (o + j - 1) = b + o + j - 1
    BY <1>1
  <2>2. CharAt(b + (o + j - 1)) = Spell(e)[o + j - 1]
    BY <2>1, CharIs
  <2>. QED
    BY <1>2, <2>1, <2>2
<1>5. e.width.how = "none" => PrecisionFrom(e) = o
  BY <1>1, <1>3
<1>. QED
  BY <1>1, <1>4, <1>5 DEF w, o

\* Among the flags there are flags.
LEMMA FlagChar ==
    ASSUME NEW e, NEW b, NEW r, Piece(e), Spelled(e, b, r), r >= PrecisionFrom(e)
    PROVE  /\ WidthFrom(e) = 2 + Len(e.flags) /\ Len(e.flags) \in Nat
           /\ \A j \in 1..Len(e.flags) :
                CharAt(b + 1 + j) = e.flags[j] /\ e.flags[j] \in DOMAIN FlagOf
<1>1. WidthFrom(e) = 2 + Len(e.flags) /\ Len(e.flags) \in Nat /\ WidthFrom(e) <= PrecisionFrom(e)
      /\ b \in Nat /\ r \in Nat /\ WidthFrom(e) \in Nat /\ PrecisionFrom(e) \in Nat
  BY PartsAre DEF WidthFrom, Spelled
<1>2. ASSUME NEW j \in 1..Len(e.flags)
      PROVE  CharAt(b + 1 + j) = e.flags[j] /\ e.flags[j] \in DOMAIN FlagOf
  <2>1. 1 + j \in 1..r /\ b + (1 + j) = b + 1 + j
    BY <1>1
  <2>2. CharAt(b + (1 + j)) = Spell(e)[1 + j]
    BY <2>1, CharIs
  <2>3. Spell(e)[1 + j] = e.flags[j]
    BY SpellIs
  <2>4. e.flags \in Seq(DOMAIN FlagOf)
    BY DEF Piece
  <2>5. e.flags[j] \in DOMAIN FlagOf
    BY <2>4
  <2>. QED
    BY <2>1, <2>2, <2>3, <2>5
<1>. QED
  BY <1>1, <1>2

\* The sizes of numbers.
LEMMA AbsIs == \A v \in Int : Abs(v) \in Nat /\ (v >= 0 => Abs(v) = v) /\ (v <= 0 => Abs(v) = -v)
  BY DEF Abs

\* Behind the flags there is no flag, and the width is what it is.
LEMMA AfterFlags ==
    ASSUME NEW e, NEW b, NEW r, Piece(e), Spelled(e, b, r), r >= PrecisionFrom(e)
    PROVE  /\ CharAt(b + WidthFrom(e)) \notin DOMAIN FlagOf
           /\ e.width.how = "star" => CharAt(b + WidthFrom(e)) = "*"
           /\ e.width.how = "number" => CharAt(b + WidthFrom(e)) \in Digit
           /\ e.width.how = "none" =>
                CharAt(b + WidthFrom(e)) \in Initials \cup Conversion \cup {"."}
<1> DEFINE c == CharAt(b + WidthFrom(e))
<1>1. WidthFrom(e) \in Nat /\ b \in Nat
  BY PartsAre DEF Spelled
<1>2. e.width.how \in {"none", "number", "star"}
  BY AmountIs DEF Piece
<1>3. CASE e.width.how = "none"
  <2>1. PrecisionFrom(e) = WidthFrom(e)
    BY <1>3, WidthChar
  <2>2. c \in Initials \cup Conversion \cup {"."}
    BY <2>1, PrecisionChar
  <2> HIDE DEF c
  <2>3. c \notin DOMAIN FlagOf
    BY <2>2, FlagCharsAre DEF Initials, Conversion
  <2>. QED
    BY <1>3, <2>2, <2>3 DEF c
<1>4. CASE e.width.how = "star"
  <2>1. Amount(e.width) = <<"*">>
    BY <1>4 DEF Amount
  <2>2. 1 \in 1..Len(Amount(e.width)) /\ Amount(e.width)[1] = "*" /\ b + WidthFrom(e) + 1 - 1 = b + WidthFrom(e)
    BY <1>1, <2>1
  <2>3. c = "*"
    BY <2>2, WidthChar
  <2> HIDE DEF c
  <2>4. c \notin DOMAIN FlagOf
    BY <2>3, FlagCharsAre
  <2>. QED
    BY <1>4, <2>3, <2>4 DEF c
<1>5. CASE e.width.how = "number"
  <2> DEFINE s == NumberChars(e.width.value)
  <2>1. Amount(e.width) = s /\ e.width.value \in 0..99 /\ e.width.value >= 1
    BY <1>5, AmountIs DEF Piece
  <2>7. e.width.value > 0
    BY <2>1
  <2>2. s \in Seq(Digit) /\ Len(s) \in 1..2 /\ s[1] # "0"
    BY <2>1, <2>7, NumberIs, Zenon
  <2> HIDE DEF s
  <2>3. 1 \in 1..Len(s) /\ s[1] \in Digit /\ b + WidthFrom(e) + 1 - 1 = b + WidthFrom(e)
    BY <1>1, <2>2
  <2>4. c = s[1]
    BY <2>1, <2>3, WidthChar
  <2> HIDE DEF c
  <2>5. c \in Digit /\ c # "0"
    BY <2>2, <2>3, <2>4
  <2>6. c \notin DOMAIN FlagOf
    BY <2>5, FlagCharsAre DEF Digit
  <2>. QED
    BY <1>5, <2>5, <2>6 DEF c
<1>. QED
  BY <1>2, <1>3, <1>4, <1>5

\* The steps of the parser within a conversion, from one part to the next.
LEMMA FlagsStep ==
    ASSUME NEW e, NEW b, NEW r, NEW n \in Nat, Piece(e), Spelled(e, b, r),
           InFlags(e, b, r, n), parse_flags
    PROVE  \/ phase' = "flags" /\ InFlags(e, b, r, n)'
           \/ phase' = "width" /\ AtWidth(e, b, r, n)'
<1> DEFINE first(j) == {FlagOf[e.flags[i]] : i \in 1..j}
<1>1. PICK j \in 0..Len(e.flags) :
        /\ at = b + 2 + j /\ r >= PrecisionFrom(e) /\ Len(taken) = n
        /\ spec = SpecOf(first(j), 0, 0, {})
  BY DEF InFlags
<1>2. WidthFrom(e) = 2 + Len(e.flags) /\ Len(e.flags) \in Nat
      /\ \A i \in 1..Len(e.flags) : CharAt(b + 1 + i) = e.flags[i] /\ e.flags[i] \in DOMAIN FlagOf
  BY <1>1, FlagChar
<1>3. taken' = taken
  BY DEF parse_flags
<1>4. b \in Nat
  BY DEF Spelled
<1>5. CASE j < Len(e.flags)
  <2>1. j + 1 \in 1..Len(e.flags) /\ b + 1 + (j + 1) = at /\ at + 1 = b + 2 + (j + 1)
    <3>1. \A m, l, c \in Nat : m \in 0..l /\ m < l => m + 1 \in 1..l /\ c + 1 + (m + 1) = c + 2 + m
                                                     /\ (c + 2 + m) + 1 = c + 2 + (m + 1)
      OBVIOUS
    <3>2. j \in Nat
      OBVIOUS
    <3>. QED
      BY <1>1, <1>2, <1>4, <1>5, <3>1, <3>2, Zenon
  <2>2. CharAt(at) = e.flags[j + 1] /\ CharAt(at) \in DOMAIN FlagOf
    BY <1>2, <2>1
  <2>3. /\ spec' = [spec EXCEPT !.flags = @ \cup {FlagOf[CharAt(at)]}]
        /\ at' = at + 1 /\ phase' = "flags"
    BY <2>2 DEF parse_flags
  <2>4. first(j) \cup {FlagOf[e.flags[j + 1]]} = first(j + 1)
    <3>1. \A i \in 1..(j + 1) : i \in 1..j \/ i = j + 1
      BY <1>1
    <3>2. \A i \in 1..j : i \in 1..(j + 1)
      BY <1>1
    <3>3. j + 1 \in 1..(j + 1)
      BY <1>1
    <3>. QED
      BY <3>1, <3>2, <3>3
  <2> HIDE DEF first
  <2>5. spec' = SpecOf(first(j + 1), 0, 0, {})
    BY <1>1, <2>2, <2>3, <2>4 DEF SpecOf
  <2>6. j + 1 \in 0..Len(e.flags)
    BY <1>2, <2>1
  <2>7. InFlags(e, b, r, n)'
    BY <1>1, <1>3, <2>1, <2>3, <2>5, <2>6 DEF InFlags, first
  <2>. QED
    BY <2>3, <2>7
<1>6. CASE j = Len(e.flags)
  <2>1. at = b + WidthFrom(e)
    <3>1. \A l, c \in Nat : c + 2 + l = c + (2 + l)
      OBVIOUS
    <3>2. b + 2 + Len(e.flags) = b + (2 + Len(e.flags))
      BY <1>2, <1>4, <3>1, Zenon
    <3>3. at = b + 2 + Len(e.flags)
      BY <1>1, <1>6, Zenon
    <3>. QED
      BY <1>2, <3>2, <3>3, Zenon
  <2>2. CharAt(at) \notin DOMAIN FlagOf
    BY <1>1, <2>1, AfterFlags
  <2>3. phase' = "width" /\ at' = at /\ spec' = spec
    BY <2>2 DEF parse_flags
  <2>4. first(j) = FlagsOf(e.flags)
    <3>1. DOMAIN e.flags = 1..j
      BY <1>6 DEF Piece
    <3>. QED
      BY <3>1 DEF FlagsOf, Range
  <2> HIDE DEF first
  <2>5. AtWidth(e, b, r, n)'
    BY <1>1, <1>3, <2>1, <2>3, <2>4 DEF AtWidth
  <2>. QED
    BY <2>3, <2>5
<1>. QED
  BY <1>1, <1>2, <1>5, <1>6

\* What a number without digits amounts to, and with all.
LEMMA PartialEnds ==
    ASSUME NEW a, NEW least \in Nat, ProperAmount(a, least), a.how = "number"
    PROVE  /\ Amount(a) \in Seq(Digit) /\ Len(Amount(a)) \in Nat \ {0}
           /\ Partial(a.value, 0) = 0
           /\ Partial(a.value, Len(Amount(a))) = a.value /\ a.value \in Nat
           /\ \A j \in 1..Len(Amount(a)) :
                /\ Amount(a)[j] \in Digit
                /\ Partial(a.value, j - 1) * 10 + DigitValue[Amount(a)[j]] = Partial(a.value, j)
<1>1. Amount(a) = NumberChars(a.value) /\ a.value \in 0..99
  BY AmountIs
<1>2. \A s \in Seq(Digit) : \A j \in 1..Len(s) : s[j] \in Digit
  OBVIOUS
<1>3. \A s \in Seq(Digit) : Len(s) \in 1..2 => Len(s) \in Nat \ {0}
  OBVIOUS
<1>4. a.value \in Nat
  BY <1>1
<1>5. PICK v \in 0..99 : v = a.value
  BY <1>1
<1>6. /\ NumberChars(v) \in Seq(Digit) /\ Len(NumberChars(v)) \in 1..2
      /\ Partial(v, 0) = 0 /\ Partial(v, Len(NumberChars(v))) = v
      /\ \A j \in 1..Len(NumberChars(v)) :
           Partial(v, j - 1) * 10 + DigitValue[NumberChars(v)[j]] = Partial(v, j)
  BY NumberIs, Zenon
<1>. QED
  BY <1>1, <1>2, <1>3, <1>4, <1>5, <1>6, Zenon

\* format_string_loop looks for a width that is written out.
LEMMA WidthStep ==
    ASSUME NEW e, NEW b, NEW r, NEW n \in Nat, Piece(e), Spelled(e, b, r),
           AtWidth(e, b, r, n), Width
    PROVE  \/ phase' = "width_digits" /\ InWidth(e, b, r, n)'
           \/ phase' = "precision" /\ AtPrecision(e, b, r, n)'
<1>1. /\ at = b + WidthFrom(e) /\ r >= PrecisionFrom(e) /\ Len(taken) = n
      /\ spec = SpecOf(FlagsOf(e.flags), 0, 0, {})
  BY DEF AtWidth
<1>2. /\ at' = at /\ spec' = spec /\ taken' = taken /\ CharAt(at) # "*"
      /\ phase' = IF is_digit(CharAt(at)) THEN "width_digits" ELSE "precision"
  BY DEF Width
<1>3. e.width.how \in {"none", "number"}
  BY <1>1, <1>2, AfterFlags, AmountIs DEF Piece
<1>4. CASE e.width.how = "number"
  <2>1. is_digit(CharAt(at))
    BY <1>1, <1>4, AfterFlags, DigitsAre DEF is_digit
  <2>2. Partial(e.width.value, 0) = 0 /\ 0 \in 0..Len(Amount(e.width)) /\ b + WidthFrom(e) + 0 = at
    <3>1. ProperAmount(e.width, 1) /\ 1 \in Nat
      BY DEF Piece
    <3>2. Partial(e.width.value, 0) = 0 /\ Len(Amount(e.width)) \in Nat
      BY <1>4, <3>1, PartialEnds
    <3>3. b \in Nat /\ WidthFrom(e) \in Nat
      BY PartsAre DEF Spelled
    <3>4. \A x, y \in Nat : x + y + 0 = x + y /\ 0 \in 0..y
      OBVIOUS
    <3>. QED
      BY <1>1, <3>2, <3>3, <3>4
  <2>3. InWidth(e, b, r, n)'
    BY <1>1, <1>2, <1>4, <2>2 DEF InWidth
  <2>. QED
    BY <1>2, <2>1, <2>3
<1>5. CASE e.width.how = "none"
  <2>1. CharAt(at) \in Initials \cup Conversion \cup {"."}
    BY <1>1, <1>5, AfterFlags
  <2>2. ~is_digit(CharAt(at))
    BY <2>1, DigitsAre DEF is_digit, Initials, Conversion, Digit
  <2>3. PrecisionFrom(e) = WidthFrom(e)
    BY <1>1, <1>5, WidthChar
  <2>4. e.width.value = 0 /\ Abs(0) = 0 /\ StarCount(e.width) = 0 /\ n + 0 = n
    <3>1. ProperAmount(e.width, 1) /\ 1 \in Nat
      BY DEF Piece
    <3>2. e.width.value = 0
      BY <1>5, <3>1, AmountIs
    <3>3. Abs(0) = 0
      BY AbsIs
    <3>4. StarCount(e.width) = 0
      BY <1>5 DEF StarCount
    <3>. QED
      BY <3>2, <3>3, <3>4, n \in Nat
  <2>5. WidthFlags(e) = FlagsOf(e.flags)
    BY <1>5 DEF WidthFlags
  <2>6. AtPrecision(e, b, r, n)'
    BY <1>1, <1>2, <2>3, <2>4, <2>5 DEF AtPrecision
  <2>. QED
    BY <1>2, <2>2, <2>6
<1>. QED
  BY <1>3, <1>4, <1>5

\* A number that is parsed: one more digit, or what follows the last.
LEMMA DigitTaken ==
    ASSUME NEW a, NEW least \in Nat, ProperAmount(a, least), a.how = "number",
           NEW o \in Nat, NEW j \in 0..Len(Amount(a)), at = o + j,
           \A i \in 1..Len(Amount(a)) : CharAt(o + i - 1) = Amount(a)[i],
           CharAt(o + Len(Amount(a))) \notin Digit
    PROVE  /\ is_digit(CharAt(at)) =>
                /\ j + 1 \in 0..Len(Amount(a)) /\ at + 1 = o + (j + 1)
                /\ Partial(a.value, j) * 10 + DigitValue[CharAt(at)] = Partial(a.value, j + 1)
           /\ ~is_digit(CharAt(at)) => at = o + Len(Amount(a)) /\ Partial(a.value, j) = a.value
<1> DEFINE s == Amount(a)
           l == Len(s)
<1>1. /\ s \in Seq(Digit) /\ l \in Nat \ {0}
      /\ Partial(a.value, 0) = 0
      /\ Partial(a.value, l) = a.value /\ a.value \in Nat
      /\ \A i \in 1..l : s[i] \in Digit
      /\ \A i \in 1..l : Partial(a.value, i - 1) * 10 + DigitValue[s[i]] = Partial(a.value, i)
  BY PartialEnds
<1>2. \A i \in 1..l : CharAt(o + i - 1) = s[i]
  OBVIOUS
<1>3. CharAt(o + l) \notin Digit
  OBVIOUS
<1>4. \A c : is_digit(c) <=> c \in Digit
  BY DigitsAre, Zenon DEF is_digit
<1>5. j \in 0..l
  OBVIOUS
<1> HIDE DEF s, l
<1>6. CASE j = l
  <2>1. at = o + l
    BY <1>6
  <2>2. ~is_digit(CharAt(at))
    BY <1>3, <1>4, <2>1, Zenon
  <2>3. Partial(a.value, j) = a.value
    BY <1>1, <1>6, Zenon
  <2>. QED
    BY <2>1, <2>2, <2>3 DEF s, l
<1>7. CASE j # l
  <2>1. j + 1 \in 1..l /\ j + 1 \in 0..l /\ o + (j + 1) - 1 = o + j /\ (j + 1) - 1 = j /\ (o + j) + 1 = o + (j + 1)
    BY <1>1, <1>5, <1>7
  <2>2. CharAt(at) = s[j + 1]
    BY <1>2, <2>1, Zenon
  <2>3. CharAt(at) \in Digit
    BY <1>1, <2>1, <2>2, Zenon
  <2>4. Partial(a.value, (j + 1) - 1) * 10 + DigitValue[s[j + 1]] = Partial(a.value, j + 1)
    BY <1>1, <2>1, Zenon
  <2>5. Partial(a.value, j) * 10 + DigitValue[CharAt(at)] = Partial(a.value, j + 1)
    BY <2>1, <2>2, <2>4, Zenon
  <2>6. is_digit(CharAt(at))
    BY <1>4, <2>3, Zenon
  <2>7. at + 1 = o + (j + 1)
    BY <2>1, Zenon
  <2>. QED
    BY <2>1, <2>5, <2>6, <2>7 DEF s, l
<1>. QED
  BY <1>6, <1>7

\* Behind the width there is no digit, and a '.' if there is a precision.
LEMMA AfterWidth ==
    ASSUME NEW e, NEW b, NEW r, Piece(e), Spelled(e, b, r), r >= PrecisionFrom(e)
    PROVE  /\ CharAt(b + PrecisionFrom(e)) \notin Digit
           /\ CharAt(b + PrecisionFrom(e)) = "." <=> e.precision.how # "none"
<1> DEFINE c == CharAt(b + PrecisionFrom(e))
<1>1. (e.precision.how = "none" => c \in Initials \cup Conversion) /\ (e.precision.how # "none" => c = ".")
  BY PrecisionChar
<1> HIDE DEF c
<1>2. c \notin Digit /\ (c = "." <=> e.precision.how # "none")
  BY <1>1 DEF Initials, Conversion, Digit
<1>. QED
  BY <1>2 DEF c

\* A round of atou_ in the width.
LEMMA WidthDigitsStep ==
    ASSUME NEW e, NEW b, NEW r, NEW n \in Nat, Piece(e), Spelled(e, b, r),
           InWidth(e, b, r, n), atou_("width_digits", "width", "precision")
    PROVE  \/ phase' = "width_digits" /\ InWidth(e, b, r, n)'
           \/ phase' = "precision" /\ AtPrecision(e, b, r, n)'
<1> DEFINE l == Len(Amount(e.width))
           o == b + WidthFrom(e)
           v == e.width.value
<1>1. e.width.how = "number" /\ r >= PrecisionFrom(e) /\ Len(taken) = n
  BY DEF InWidth
<1>2. PICK j \in 0..l : /\ at = o + j
                        /\ spec = SpecOf(FlagsOf(e.flags), Partial(v, j), 0, {})
  BY DEF InWidth
<1>3. o \in Nat /\ l \in Nat /\ o + l = b + PrecisionFrom(e)
  <2>1. b \in Nat /\ WidthFrom(e) \in Nat
    BY PartsAre DEF Spelled
  <2>2. PrecisionFrom(e) = WidthFrom(e) + l /\ l \in Nat
    BY <1>1, WidthChar
  <2> HIDE DEF l
  <2>. QED
    BY <2>1, <2>2
<1>4. \A i \in 1..l : CharAt(o + i - 1) = Amount(e.width)[i]
  BY <1>1, WidthChar
<1>5. CharAt(o + l) \notin Digit
  BY <1>1, <1>3, AfterWidth
<1>6. ProperAmount(e.width, 1) /\ 1 \in Nat
  BY DEF Piece
<1>7. taken' = taken
  BY DEF atou_
<1> HIDE DEF o
<1>8. CASE is_digit(CharAt(at))
  <2>1. /\ j + 1 \in 0..l /\ at + 1 = o + (j + 1)
        /\ Partial(v, j) * 10 + DigitValue[CharAt(at)] = Partial(v, j + 1)
    BY <1>1, <1>2, <1>3, <1>4, <1>5, <1>6, <1>8, DigitTaken
  <2>2. /\ spec' = [spec EXCEPT !["width"] = @ * 10 + DigitValue[CharAt(at)]]
        /\ at' = at + 1 /\ phase' = "width_digits"
    BY <1>8 DEF atou_
  <2>3. spec' = [spec EXCEPT !["width"] = Partial(v, j + 1)]
    BY <1>2, <2>1, <2>2 DEF SpecOf
  <2>4. spec' = SpecOf(FlagsOf(e.flags), Partial(v, j + 1), 0, {})
    BY <1>2, <2>3 DEF SpecOf
  <2>5. InWidth(e, b, r, n)'
    BY <1>1, <1>7, <2>1, <2>2, <2>4 DEF InWidth, o
  <2>. QED
    BY <2>2, <2>5
<1>9. CASE ~is_digit(CharAt(at))
  <2>1. at = o + l /\ Partial(v, j) = v
    BY <1>1, <1>2, <1>3, <1>4, <1>5, <1>6, <1>9, DigitTaken
  <2>2. at' = at /\ spec' = spec /\ phase' = "precision"
    BY <1>9 DEF atou_
  <2>3. Abs(v) = v /\ v \in Nat
    <3>1. v \in 0..99
      BY <1>1, <1>6, AmountIs
    <3>2. \A x \in 0..99 : Abs(x) = x /\ x \in Nat
      BY AbsIs
    <3>. QED
      BY <3>1, <3>2, Zenon
  <2>4. StarCount(e.width) = 0 /\ WidthFlags(e) = FlagsOf(e.flags)
    BY <1>1 DEF StarCount, WidthFlags
  <2>5. Len(taken') = n + StarCount(e.width)
    <3>1. n + 0 = n
      OBVIOUS
    <3>. QED
      BY <1>1, <1>7, <2>4, <3>1, Zenon
  <2>6. AtPrecision(e, b, r, n)'
    BY <1>1, <1>2, <1>3, <2>1, <2>2, <2>3, <2>4, <2>5 DEF AtPrecision
  <2>. QED
    BY <2>2, <2>6
<1>. QED
  BY <1>8, <1>9

-----------------------------------------------------------------------------
(* The arguments of a conversion, and the steps that take one.             *)

\* What the last argument of a conversion is.
LastType(e) ==
    CASE e.conv = "s" -> "string"
      [] e.conv = "p" -> "pointer"
      [] IsInteger(e) /\ e.length \in LongLengths -> "long"
      [] OTHER -> "int"

\* The next argument is there, with the type it is asked for.
Fetches(type, value) ==
    Len(taken) < Len(args) /\ args[Len(taken) + 1] = [type |-> type, value |-> value]

\* The arguments of a conversion that is there with its letter, behind n others.
HasArgs(e, r, n) ==
    r = LetterAt(e) =>
        /\ ProperItem(e) /\ Len(ArgsOf(e)) \in Nat /\ n + Len(ArgsOf(e)) <= Len(args) /\ Len(args) \in Nat
        /\ \A j \in 1..Len(ArgsOf(e)) : args[n + j] = ArgsOf(e)[j]

\* The argument of a star.
LEMMA StarIs ==
    ASSUME NEW a, NEW X, [type |-> "int", value |-> a.value] \in X
    PROVE  /\ StarArg(a) \in Seq(X) /\ Len(StarArg(a)) = StarCount(a)
           /\ a.how = "star" => StarArg(a)[1] = [type |-> "int", value |-> a.value]
<1> DEFINE x == [type |-> "int", value |-> a.value]
<1>1. x \in X
  OBVIOUS
<1>2. StarArg(a) = IF a.how = "star" THEN <<x>> ELSE <<>>
  BY DEF StarArg
<1>3. StarCount(a) = IF a.how = "star" THEN 1 ELSE 0
  BY DEF StarCount
<1> HIDE DEF x
<1>4. /\ StarArg(a) \in Seq(X) /\ Len(StarArg(a)) = StarCount(a)
      /\ a.how = "star" => StarArg(a)[1] = x
  BY <1>1, <1>2, <1>3
<1>. QED
  BY <1>4 DEF x

\* What a precision begins with.
LEMMA DotIs == <<".">> \in Seq(Char)
<1>1. "." \in Char
  BY LettersAre DEF Letters
<1>. QED
  BY <1>1

\* The arguments of a conversion: the stars' first, then its own.
LEMMA ArgsOfIs ==
    ASSUME NEW e, Piece(e), ProperItem(e)
    PROVE  /\ Len(ArgsOf(e)) = StarCount(e.width) + StarCount(e.precision) + (IF e.conv = "%" THEN 0 ELSE 1)
           /\ e.width.how = "star" => ArgsOf(e)[1] = [type |-> "int", value |-> e.width.value]
           /\ e.precision.how = "star" =>
                ArgsOf(e)[StarCount(e.width) + 1] = [type |-> "int", value |-> e.precision.value]
           /\ e.conv # "%" =>
                ArgsOf(e)[StarCount(e.width) + StarCount(e.precision) + 1]
                  = [type |-> LastType(e), value |-> e.arg]
           /\ StarCount(e.width) \in 0..1 /\ StarCount(e.precision) \in 0..1
<1> DEFINE w == StarArg(e.width)
           q == StarArg(e.precision)
           t == [type |-> LastType(e), value |-> e.arg]
           l == <<t>>
           X == {[type |-> "int", value |-> e.width.value], [type |-> "int", value |-> e.precision.value], t}
<1>1. /\ w \in Seq(X) /\ Len(w) = StarCount(e.width)
      /\ e.width.how = "star" => w[1] = [type |-> "int", value |-> e.width.value]
  BY StarIs
<1>2. /\ q \in Seq(X) /\ Len(q) = StarCount(e.precision)
      /\ e.precision.how = "star" => q[1] = [type |-> "int", value |-> e.precision.value]
  BY StarIs
<1>3. l \in Seq(X) /\ Len(l) = 1 /\ l[1] = t
  OBVIOUS
<1>4. StarCount(e.width) \in 0..1 /\ StarCount(e.precision) \in 0..1
  BY DEF StarCount
<1>5. /\ e.width.how = "star" => StarCount(e.width) = 1
      /\ e.precision.how = "star" => StarCount(e.precision) = 1
      /\ e.width.how # "star" => StarCount(e.width) = 0
      /\ e.precision.how # "star" => StarCount(e.precision) = 0
  BY DEF StarCount
<1>6. e.conv # "text"
  BY DEF Piece
<1>7. CASE e.conv # "%"
  <2>1. ArgsOf(e) = w \o q \o l
    BY <1>6, <1>7, Zenon DEF ArgsOf, LastType
  <2> HIDE DEF w, q, l, t, X
  <2> DEFINE wq == w \o q
             all == wq \o l
  <2>2. wq \in Seq(X) /\ Joined(wq, w, q)
    BY <1>1, <1>2, Join
  <2>3. all \in Seq(X) /\ Joined(all, wq, l)
    BY <1>3, <2>2, Join
  <2>4. ArgsOf(e) = all
    BY <2>1
  <2> HIDE DEF wq, all
  <2>5. Len(wq) = StarCount(e.width) + StarCount(e.precision) /\ Len(all) = Len(wq) + 1
    BY <1>1, <1>2, <1>3, <2>2, <2>3 DEF Joined
  <2>6. all[StarCount(e.width) + StarCount(e.precision) + 1] = t
    BY <1>3, <2>3, <2>5 DEF Joined
  <2>7. \A i \in 1..(StarCount(e.width) + StarCount(e.precision)) : all[i] = wq[i]
    BY <2>3, <2>5 DEF Joined
  <2>8. ASSUME e.width.how = "star" PROVE all[1] = [type |-> "int", value |-> e.width.value]
    <3>1. StarCount(e.width) = 1
      BY <1>5, <2>8
    <3>2. 1 \in 1..(StarCount(e.width) + StarCount(e.precision)) /\ 1 \in 1..StarCount(e.width)
      BY <1>4, <3>1
    <3>3. wq[1] = w[1]
      BY <1>1, <2>2, <3>2 DEF Joined
    <3>. QED
      BY <1>1, <2>7, <2>8, <3>2, <3>3
  <2>9. ASSUME e.precision.how = "star"
        PROVE  all[StarCount(e.width) + 1] = [type |-> "int", value |-> e.precision.value]
    <3>1. StarCount(e.precision) = 1
      BY <1>5, <2>9
    <3>2. StarCount(e.width) + 1 \in 1..(StarCount(e.width) + StarCount(e.precision)) /\ 1 \in 1..StarCount(e.precision)
      BY <1>4, <3>1
    <3>3. wq[StarCount(e.width) + 1] = q[1]
      BY <1>1, <1>2, <2>2, <3>2 DEF Joined
    <3>. QED
      BY <1>2, <2>7, <2>9, <3>2, <3>3
  <2>10. Len(ArgsOf(e)) = StarCount(e.width) + StarCount(e.precision) + (IF e.conv = "%" THEN 0 ELSE 1)
    BY <1>7, <2>4, <2>5
  <2>. QED
    BY <1>4, <2>4, <2>6, <2>8, <2>9, <2>10 DEF t
<1>8. CASE e.conv = "%"
  <2>1. ArgsOf(e) = <<>>
    BY <1>8 DEF ArgsOf
  <2>2. e.width.how # "star" /\ e.precision.how # "star"
    <3>1. ~IsInteger(e)
      BY <1>8 DEF IsInteger
    <3>2. ProperPlain(e)
      BY <1>6, <3>1 DEF ProperItem
    <3>. QED
      BY <1>8, <3>2 DEF ProperPlain
  <2>3. StarCount(e.width) = 0 /\ StarCount(e.precision) = 0
    BY <1>5, <2>2
  <2>4. Len(ArgsOf(e)) = 0
    BY <2>1
  <2>. QED
    BY <1>8, <2>2, <2>3, <2>4
<1>. QED
  BY <1>7, <1>8

\* The part of a conversion that is there ends where Reaches says.
LEMMA ReachIs ==
    ASSUME NEW e, NEW b, NEW r, Piece(e), Spelled(e, b, r)
    PROVE  /\ r \in Nat /\ b \in Nat /\ 1 <= r /\ r <= LetterAt(e)
           /\ r >= PrecisionFrom(e) /\ r # PrecisionFrom(e) => r >= LengthFrom(e)
           /\ e.width.how = "star" \/ e.precision.how = "star" => r = LetterAt(e)
           /\ r < LetterAt(e) => e.width.how # "star" /\ e.precision.how # "star"
           /\ e.precision.how = "none" => LengthFrom(e) = PrecisionFrom(e)
           /\ e.precision.how # "none" => LengthFrom(e) > PrecisionFrom(e)
           /\ r > LengthFrom(e) => r = LetterAt(e) \/ r = LetterAt(e) - 1
           /\ r >= LengthFrom(e) /\ r # LetterAt(e) =>
                r = LetterAt(e) - 1 /\ e.length \notin {<<>>, <<"I", "1", "6">>}
<1>1. /\ r \in 1..LetterAt(e) /\ b \in Nat
      /\ \/ r = LetterAt(e)
         \/ /\ e.width.how # "star" /\ e.precision.how # "star"
            /\ \/ r = 1
               \/ r = PrecisionFrom(e) /\ e.precision.how # "none"
               \/ r = LetterAt(e) - 1 /\ e.length \notin {<<>>, <<"I", "1", "6">>}
  BY DEF Spelled, Reaches
<1>2. /\ WidthFrom(e) \in Nat /\ PrecisionFrom(e) \in Nat
      /\ LengthFrom(e) \in Nat /\ LetterAt(e) \in Nat
      /\ 2 <= WidthFrom(e) /\ WidthFrom(e) <= PrecisionFrom(e)
      /\ PrecisionFrom(e) <= LengthFrom(e) /\ LengthFrom(e) <= LetterAt(e)
      /\ LetterAt(e) = LengthFrom(e) + Len(e.length)
      /\ Len(e.length) \in Nat /\ (Len(e.length) = 0 <=> e.length = <<>>)
  BY PartsAre, NamesAre DEF LetterAt, Piece
<1>3. e.precision.how = "none" => LengthFrom(e) = PrecisionFrom(e)
  <2>1. e.precision.how = "none" => Len(PrecisionChars(e)) = 0
    BY DEF PrecisionChars
  <2>. QED
    BY <1>2, <2>1 DEF LengthFrom
<1>4. e.precision.how # "none" => LengthFrom(e) > PrecisionFrom(e)
  <2> SUFFICES ASSUME e.precision.how # "none" PROVE LengthFrom(e) > PrecisionFrom(e)
    OBVIOUS
  <2>1. Amount(e.precision) \in Seq(Char)
    <3>1. Digit \cup {"*"} \subseteq Char
      BY LettersAre DEF Digit, Letters
    <3>. QED
      BY <3>1, AmountIs, Wider DEF Piece
  <2>2. <<".">> \in Seq(Char)
    BY DotIs
  <2>3. Joined(PrecisionChars(e), <<".">>, Amount(e.precision)) /\ Len(Amount(e.precision)) \in Nat
    <3>1. PrecisionChars(e) = <<".">> \o Amount(e.precision)
      BY DEF PrecisionChars
    <3>2. Joined(<<".">> \o Amount(e.precision), <<".">>, Amount(e.precision))
      BY <2>1, <2>2, Join
    <3>3. Len(Amount(e.precision)) \in Nat
      BY <2>1
    <3>. QED
      BY <3>1, <3>2, <3>3
  <2>4. Len(PrecisionChars(e)) = 1 + Len(Amount(e.precision))
    BY <2>3 DEF Joined
  <2>5. LengthFrom(e) = PrecisionFrom(e) + Len(PrecisionChars(e))
    BY DEF LengthFrom
  <2>. QED
    BY <1>2, <2>3, <2>4, <2>5
<1>5. e.length # <<>> => Len(e.length) > 0
  BY <1>2
<1> DEFINE long == e.length # <<>>
           last == e.length = <<"I", "1", "6">>
           none == e.precision.how = "none"
           stars == e.width.how = "star" \/ e.precision.how = "star"
<1>6. \/ r = LetterAt(e)
      \/ ~stars /\ (r = 1 \/ (r = PrecisionFrom(e) /\ ~none) \/ (r = LetterAt(e) - 1 /\ long /\ ~last))
  BY <1>1
<1>7. (long => Len(e.length) > 0) /\ (none => LengthFrom(e) = PrecisionFrom(e)) /\ (~none => LengthFrom(e) > PrecisionFrom(e))
  BY <1>3, <1>4, <1>5
<1> HIDE DEF long, last, none, stars
<1>8. /\ r \in Nat /\ b \in Nat /\ 1 <= r /\ r <= LetterAt(e)
      /\ r >= PrecisionFrom(e) /\ r # PrecisionFrom(e) => r >= LengthFrom(e)
      /\ stars => r = LetterAt(e)
      /\ r < LetterAt(e) => ~stars
      /\ r > LengthFrom(e) => r = LetterAt(e) \/ r = LetterAt(e) - 1
      /\ r >= LengthFrom(e) /\ r # LetterAt(e) => r = LetterAt(e) - 1 /\ long /\ ~last
  BY <1>1, <1>2, <1>6, <1>7
<1>. QED
  BY <1>3, <1>4, <1>8, Zenon DEF long, last, none, stars

\* Moving on within a piece, or to its end where it is cut off.
LEMMA Advances ==
    ASSUME NEW e, NEW b, NEW r, Piece(e), Spelled(e, b, r), NEW j \in 1..(r + 1), NEW i, i = b + j,
           NEW next, AdvanceTo(i, next)
    PROVE  /\ at' = b + j
           /\ j <= r => phase' = next
           /\ j > r /\ r < LetterAt(e) => phase' = "end"
<1>1. r \in Nat /\ b \in Nat
  BY ReachIs
<1>2. at' = b + j /\ phase' = IF CharAt(b + j) = NUL THEN "end" ELSE next
  BY DEF AdvanceTo
<1>3. ASSUME j <= r PROVE phase' = next
  <2>1. j \in 1..r
    BY <1>1, <1>3
  <2>2. CharAt(b + j) # NUL
    BY <2>1, CharIs
  <2>. QED
    BY <1>2, <2>2
<1>4. ASSUME j > r, r < LetterAt(e) PROVE phase' = "end"
  <2>1. b + j = b + r + 1
    BY <1>1, <1>4
  <2>2. CharAt(b + r + 1) = NUL
    BY <1>4, CharIs
  <2>. QED
    BY <1>2, <2>1, <2>2
<1>. QED
  BY <1>2, <1>3, <1>4

\* va_arg yields the next argument where it fits.
LEMMA FetchesIs ==
    ASSUME NEW type, NEW value, NEW kind, value \in kind, Fetches(type, value)
    PROVE  va_arg(type, kind) = {value}
<1> DEFINE next == args[Len(taken) + 1]
<1>1. Len(taken) < Len(args) /\ next.type = type /\ next.value = value
  BY DEF Fetches
<1>2. va_arg(type, kind) = IF Len(taken) < Len(args) /\ next.type = type /\ next.value \in kind
                           THEN {next.value} ELSE Garbage[type] \cap kind
  BY DEF va_arg
<1> HIDE DEF next
<1>. QED
  BY <1>1, <1>2

\* The arguments of the stars are where they are asked for.
LEMMA StarFetches ==
    ASSUME NEW e, NEW r, NEW n \in Nat, Piece(e), HasArgs(e, r, n), r = LetterAt(e)
    PROVE  /\ e.width.how = "star" /\ Len(taken) = n => Fetches("int", e.width.value)
           /\ e.precision.how = "star" /\ Len(taken) = n + StarCount(e.width)
                => Fetches("int", e.precision.value)
<1> DEFINE m == Len(ArgsOf(e))
           w == StarCount(e.width)
           q == StarCount(e.precision)
<1>1. /\ ProperItem(e) /\ m \in Nat /\ n + m <= Len(args) /\ Len(args) \in Nat
      /\ \A j \in 1..m : args[n + j] = ArgsOf(e)[j]
  BY DEF HasArgs
<1>2. /\ m = w + q + (IF e.conv = "%" THEN 0 ELSE 1)
      /\ e.width.how = "star" => ArgsOf(e)[1] = [type |-> "int", value |-> e.width.value]
      /\ e.precision.how = "star" => ArgsOf(e)[w + 1] = [type |-> "int", value |-> e.precision.value]
      /\ w \in 0..1 /\ q \in 0..1
  BY <1>1, ArgsOfIs
<1>3. m >= w + q
  BY <1>2
<1>4. (e.width.how = "star" => w = 1) /\ (e.precision.how = "star" => q = 1)
  BY DEF StarCount
<1> HIDE DEF m, w, q
<1>5. ASSUME e.width.how = "star", Len(taken) = n PROVE Fetches("int", e.width.value)
  <2>1. 1 \in 1..m /\ n < Len(args)
    BY <1>1, <1>2, <1>3, <1>4, <1>5
  <2>2. args[n + 1] = [type |-> "int", value |-> e.width.value]
    BY <1>1, <1>2, <1>5, <2>1
  <2>. QED
    BY <1>5, <2>1, <2>2 DEF Fetches
<1>6. ASSUME e.precision.how = "star", Len(taken) = n + w PROVE Fetches("int", e.precision.value)
  <2>1. w + 1 \in 1..m /\ n + w < Len(args) /\ n + w + 1 = n + (w + 1)
    BY <1>1, <1>2, <1>3, <1>4, <1>6
  <2>2. args[n + (w + 1)] = [type |-> "int", value |-> e.precision.value]
    BY <1>1, <1>2, <1>6, <2>1
  <2>. QED
    BY <1>6, <2>1, <2>2 DEF Fetches
<1>. QED
  BY <1>5, <1>6 DEF w

\* A width that is a star.
LEMMA WidthArgumentStep ==
    ASSUME NEW e, NEW b, NEW r, NEW n \in Nat, Piece(e), Spelled(e, b, r), HasArgs(e, r, n),
           AtWidth(e, b, r, n), WidthArgument, taken \in Seq(Types)
    PROVE  /\ phase' = "precision" /\ AtPrecision(e, b, r, n)'
           /\ Fetches("int", e.width.value) /\ taken' = Append(taken, "int")
<1>1. /\ at = b + WidthFrom(e) /\ r >= PrecisionFrom(e) /\ Len(taken) = n
      /\ spec = SpecOf(FlagsOf(e.flags), 0, 0, {})
  BY DEF AtWidth
<1>2. e.width.how = "star"
  <2>1. CharAt(at) = "*"
    BY DEF WidthArgument
  <2>2. e.width.how \in {"none", "number", "star"}
    BY AmountIs DEF Piece
  <2>3. \A c \in Initials \cup Conversion \cup {"."} \cup Digit : c # "*"
    BY DEF Initials, Conversion, Digit
  <2>. QED
    BY <1>1, <2>1, <2>2, <2>3, AfterFlags
<1>3. r = LetterAt(e) /\ b \in Nat
  BY <1>2, ReachIs
<1>4. Fetches("int", e.width.value)
  BY <1>1, <1>2, <1>3, StarFetches
<1> DEFINE v == e.width.value
<1>5. v \in Int
  BY AmountIs DEF Piece
<1>6. va_arg("int", Int) = {v}
  BY <1>4, <1>5, FetchesIs
<1>7. spec' = [spec EXCEPT !.width = Abs(v), !.flags = IF v < 0 THEN @ \cup {"LEFT"} ELSE @]
      /\ taken' = Append(taken, "int") /\ AdvanceTo(at + 1, "precision")
  BY <1>6 DEF WidthArgument
<1>8. spec' = SpecOf(WidthFlags(e), Abs(v), 0, {})
  <2>1. WidthFlags(e) = IF v < 0 THEN FlagsOf(e.flags) \cup {"LEFT"} ELSE FlagsOf(e.flags)
    BY <1>2 DEF WidthFlags
  <2> HIDE DEF v
  <2>. QED
    BY <1>1, <1>7, <2>1 DEF SpecOf
<1>9. Len(taken') = n + StarCount(e.width)
  <2>1. Len(taken') = Len(taken) + 1
    BY <1>7
  <2>2. StarCount(e.width) = 1
    BY <1>2 DEF StarCount
  <2>. QED
    BY <1>1, <2>1, <2>2
<1>10. PrecisionFrom(e) \in 1..r /\ at + 1 = b + PrecisionFrom(e)
  <2>1. Len(Amount(e.width)) = 1
    BY <1>2, AmountIs DEF Piece
  <2>2. /\ WidthFrom(e) \in Nat /\ PrecisionFrom(e) = WidthFrom(e) + 1 /\ LetterAt(e) \in Nat
    BY <2>1, PartsAre DEF PrecisionFrom
  <2>. QED
    BY <1>1, <1>3, <2>2
<1>11. at' = b + PrecisionFrom(e) /\ phase' = "precision"
  <2>1. PrecisionFrom(e) \in 1..(r + 1) /\ PrecisionFrom(e) <= r
    BY <1>3, <1>10, PartsAre
  <2>. QED
    BY <1>7, <1>10, <2>1, Advances
<1>12. AtPrecision(e, b, r, n)'
  BY <1>1, <1>8, <1>9, <1>11 DEF AtPrecision
<1>. QED
  BY <1>4, <1>7, <1>11, <1>12

\* No precision.
LEMMA NoPrecisionStep ==
    ASSUME NEW e, NEW b, NEW r, NEW n \in Nat, Piece(e), Spelled(e, b, r),
           AtPrecision(e, b, r, n), NoPrecision
    PROVE  phase' = "length" /\ AtLength(e, b, r, n)'
<1>1. /\ at = b + PrecisionFrom(e) /\ r >= PrecisionFrom(e) /\ Len(taken) = n + StarCount(e.width)
      /\ spec = SpecOf(WidthFlags(e), Abs(e.width.value), 0, {})
  BY DEF AtPrecision
<1>2. /\ at' = at /\ spec' = spec /\ taken' = taken /\ CharAt(at) # "." /\ phase' = "length"
  BY DEF NoPrecision
<1>3. e.precision.how = "none"
  BY <1>1, <1>2, AfterWidth
<1>4. LengthFrom(e) = PrecisionFrom(e)
  BY <1>3, ReachIs
<1>5. StarCount(e.precision) = 0 /\ AllFlags(e) = WidthFlags(e)
  BY <1>3 DEF StarCount, AllFlags
<1>6. PrecisionOf(e) = 0
  <2>1. e.precision.value = 0
    BY <1>3 DEF Piece, ProperAmount
  <2>. QED
    BY <2>1 DEF PrecisionOf, Greater
<1>7. n + StarCount(e.width) = n + StarCount(e.width) + StarCount(e.precision)
  BY <1>5 DEF StarCount
<1>. QED
  BY <1>1, <1>2, <1>4, <1>5, <1>6, <1>7 DEF AtLength

\* A precision that is written out.
LEMMA PrecisionStep ==
    ASSUME NEW e, NEW b, NEW r, NEW n \in Nat, Piece(e), Spelled(e, b, r),
           AtPrecision(e, b, r, n), Precision
    PROVE  \/ phase' = "precision_digits" /\ InPrecision(e, b, r, n)'
           \/ phase' = "end" /\ r < LetterAt(e) /\ Len(taken') = n
<1>1. /\ at = b + PrecisionFrom(e) /\ r >= PrecisionFrom(e) /\ Len(taken) = n + StarCount(e.width)
      /\ spec = SpecOf(WidthFlags(e), Abs(e.width.value), 0, {})
  BY DEF AtPrecision
<1>2. /\ CharAt(at) = "." /\ CharAt(at + 1) # "*" /\ taken' = taken
      /\ AdvanceTo(at + 1, IF is_digit(CharAt(at + 1)) THEN "precision_digits" ELSE "length")
      /\ spec' = [spec EXCEPT !.flags = @ \cup {"PRECISION"}]
  BY DEF Precision
<1>3. e.precision.how # "none"
  BY <1>1, <1>2, AfterWidth
<1>4. /\ r \in Nat /\ b \in Nat /\ PrecisionFrom(e) \in Nat /\ LengthFrom(e) > PrecisionFrom(e)
      /\ LetterAt(e) >= LengthFrom(e) /\ LengthFrom(e) \in Nat /\ LetterAt(e) \in Nat
  BY <1>3, ReachIs, PartsAre
<1>5. at + 1 = b + (PrecisionFrom(e) + 1) /\ PrecisionFrom(e) + 1 \in 1..(r + 1)
  BY <1>1, <1>4
<1>6. CASE r = PrecisionFrom(e)
  <2>1. r < LetterAt(e) /\ PrecisionFrom(e) + 1 > r
    BY <1>4, <1>6
  <2>2. phase' = "end"
    BY <1>2, <1>5, <2>1, Advances
  <2>3. StarCount(e.width) = 0
    BY <2>1, ReachIs DEF StarCount
  <2>. QED
    BY <1>1, <1>2, <2>1, <2>2, <2>3
<1>7. CASE r # PrecisionFrom(e)
  <2>1. r >= LengthFrom(e) /\ PrecisionFrom(e) + 1 <= r
    <3>1. r >= LengthFrom(e)
      BY <1>1, <1>7, ReachIs
    <3>. QED
      BY <1>4, <3>1
  <2> DEFINE a == Amount(e.precision)
             p == PrecisionFrom(e)
  <2>2. /\ \A j \in 1..Len(a) : CharAt(b + p + j) = a[j]
        /\ LengthFrom(e) = p + 1 + Len(a)
    BY <1>1, <1>3, <2>1, PrecisionChar
  <2>3. e.precision.how \in {"none", "number", "star"}
    BY AmountIs DEF Piece
  <2>4. e.precision.how # "star"
    <3> SUFFICES ASSUME e.precision.how = "star" PROVE FALSE
      OBVIOUS
    <3>1. a = <<"*">> /\ Len(a) = 1
      BY AmountIs DEF Piece
    <3>2. 1 \in 1..Len(a) /\ a[1] = "*"
      BY <3>1
    <3>3. CharAt(b + p + 1) = "*"
      BY <2>2, <3>2
    <3>. QED
      BY <1>1, <1>2, <3>3
  <2>5. e.precision.how = "number"
    BY <1>3, <2>3, <2>4
  <2>6. ProperAmount(e.precision, 0) /\ 0 \in Nat
    BY DEF Piece
  <2>7. Len(a) \in Nat \ {0} /\ Partial(e.precision.value, 0) = 0 /\ \A j \in 1..Len(a) : a[j] \in Digit
    BY <2>5, <2>6, PartialEnds
  <2>8. 1 \in 1..Len(a) /\ 0 \in 0..Len(a)
    BY <2>7
  <2>9. CharAt(at + 1) \in Digit
    BY <1>1, <2>2, <2>7, <2>8
  <2>10. is_digit(CharAt(at + 1))
    BY <2>9, DigitsAre DEF is_digit
  <2>11. at' = b + (p + 1) /\ phase' = "precision_digits"
    BY <1>2, <1>5, <2>1, <2>10, Advances
  <2>12. b + (p + 1) = b + p + 1 + 0
    BY <1>4
  <2>13. spec' = SpecOf(AllFlags(e), Abs(e.width.value), 0, {})
    BY <1>1, <1>2, <1>3 DEF SpecOf, AllFlags
  <2>14. Partial(e.precision.value, 0)' = Partial(e.precision.value, 0)
    OBVIOUS
  <2> HIDE DEF a, p
  <2>15. InPrecision(e, b, r, n)'
    BY <1>1, <1>2, <2>1, <2>5, <2>7, <2>8, <2>11, <2>12, <2>13 DEF InPrecision, a, p
  <2>. QED
    BY <2>11, <2>15
<1>. QED
  BY <1>6, <1>7

\* A precision that is a star.
LEMMA PrecisionArgumentStep ==
    ASSUME NEW e, NEW b, NEW r, NEW n \in Nat, Piece(e), Spelled(e, b, r), HasArgs(e, r, n),
           AtPrecision(e, b, r, n), PrecisionArgument, taken \in Seq(Types)
    PROVE  /\ phase' = "length" /\ AtLength(e, b, r, n)'
           /\ Fetches("int", e.precision.value) /\ taken' = Append(taken, "int")
<1> DEFINE p == PrecisionFrom(e)
           v == e.precision.value
<1>1. /\ at = b + p /\ r >= p /\ Len(taken) = n + StarCount(e.width)
      /\ spec = SpecOf(WidthFlags(e), Abs(e.width.value), 0, {})
  BY DEF AtPrecision
<1>2. CharAt(at) = "." /\ CharAt(at + 1) = "*"
  BY DEF PrecisionArgument
<1>3. e.precision.how # "none"
  BY <1>1, <1>2, AfterWidth
<1>4. /\ r \in Nat /\ b \in Nat /\ p \in Nat /\ LengthFrom(e) > p
      /\ LetterAt(e) >= LengthFrom(e) /\ LengthFrom(e) \in Nat /\ LetterAt(e) \in Nat
  BY <1>3, ReachIs, PartsAre
<1>5. r >= LengthFrom(e)
  <2>1. r # p
    <3> SUFFICES ASSUME r = p PROVE FALSE
      OBVIOUS
    <3>1. r < LetterAt(e) /\ at + 1 = b + r + 1
      BY <1>1, <1>4
    <3>2. CharAt(b + r + 1) = NUL
      BY <3>1, CharIs
    <3>. QED
      BY <1>2, <3>1, <3>2 DEF NUL
  <2>. QED
    BY <1>1, <2>1, ReachIs
<1> DEFINE a == Amount(e.precision)
<1>6. /\ \A j \in 1..Len(a) : CharAt(b + p + j) = a[j]
      /\ LengthFrom(e) = p + 1 + Len(a)
  BY <1>1, <1>3, <1>5, PrecisionChar
<1>7. e.precision.how = "star"
  <2>1. e.precision.how \in {"none", "number", "star"}
    BY AmountIs DEF Piece
  <2>2. ASSUME e.precision.how = "number" PROVE FALSE
    <3>1. ProperAmount(e.precision, 0) /\ 0 \in Nat
      BY DEF Piece
    <3>2. Len(a) \in Nat \ {0} /\ \A j \in 1..Len(a) : a[j] \in Digit
      BY <2>2, <3>1, PartialEnds
    <3>3. 1 \in 1..Len(a)
      BY <3>2
    <3>4. CharAt(at + 1) \in Digit
      BY <1>1, <1>6, <3>2, <3>3
    <3>. QED
      BY <1>2, <3>4 DEF Digit
  <2>. QED
    BY <1>3, <2>1, <2>2
<1>8. r = LetterAt(e) /\ Len(a) = 1
  BY <1>7, ReachIs, AmountIs DEF Piece
<1>9. Fetches("int", v)
  BY <1>1, <1>7, <1>8, StarFetches
<1>10. v \in Int
  BY AmountIs DEF Piece
<1>11. va_arg("int", Int) = {v}
  BY <1>9, <1>10, FetchesIs
<1>12. spec' = [spec EXCEPT !.flags = @ \cup {"PRECISION"}, !.precision = Greater(v, 0)]
      /\ taken' = Append(taken, "int") /\ AdvanceTo(at + 2, "length")
  BY <1>11 DEF PrecisionArgument
<1>13. spec' = SpecOf(AllFlags(e), Abs(e.width.value), PrecisionOf(e), {})
  BY <1>1, <1>3, <1>12 DEF SpecOf, AllFlags, PrecisionOf
<1>14. Len(taken') = n + StarCount(e.width) + StarCount(e.precision)
  <2>1. Len(taken') = Len(taken) + 1
    BY <1>12
  <2>2. StarCount(e.precision) = 1
    BY <1>7 DEF StarCount
  <2>. QED
    BY <1>1, <2>1, <2>2
<1>15. LengthFrom(e) \in 1..(r + 1) /\ LengthFrom(e) <= r /\ at + 2 = b + LengthFrom(e)
  BY <1>1, <1>4, <1>5, <1>6, <1>8
<1>16. at' = b + LengthFrom(e) /\ phase' = "length"
  BY <1>12, <1>15, Advances
<1>17. AtLength(e, b, r, n)'
  BY <1>5, <1>13, <1>14, <1>16 DEF AtLength
<1>. QED
  BY <1>9, <1>12, <1>16, <1>17

\* A round of atou_ in the precision.
LEMMA PrecisionDigitsStep ==
    ASSUME NEW e, NEW b, NEW r, NEW n \in Nat, Piece(e), Spelled(e, b, r),
           InPrecision(e, b, r, n), atou_("precision_digits", "precision", "length")
    PROVE  \/ phase' = "precision_digits" /\ InPrecision(e, b, r, n)'
           \/ phase' = "length" /\ AtLength(e, b, r, n)'
<1> DEFINE l == Len(Amount(e.precision))
           o == b + PrecisionFrom(e) + 1
           v == e.precision.value
           w == Abs(e.width.value)
<1>1. e.precision.how = "number" /\ r >= LengthFrom(e) /\ Len(taken) = n + StarCount(e.width)
  BY DEF InPrecision
<1>2. PICK j \in 0..l : at = o + j /\ spec = SpecOf(AllFlags(e), w, Partial(v, j), {})
  BY DEF InPrecision
<1>3. /\ r \in Nat /\ b \in Nat /\ PrecisionFrom(e) \in Nat /\ LengthFrom(e) \in Nat
      /\ PrecisionFrom(e) <= LengthFrom(e)
  BY ReachIs, PartsAre
<1>4. r >= PrecisionFrom(e)
  BY <1>1, <1>3
<1>5. /\ LengthFrom(e) = PrecisionFrom(e) + 1 + l /\ l \in Nat
      /\ \A i \in 1..l : CharAt(b + PrecisionFrom(e) + i) = Amount(e.precision)[i]
  BY <1>1, <1>4, PrecisionChar
<1>6. o \in Nat /\ o + l = b + LengthFrom(e)
  <2> HIDE DEF l
  <2>. QED
    BY <1>3, <1>5
<1>7. \A i \in 1..l : CharAt(o + i - 1) = Amount(e.precision)[i]
  <2> HIDE DEF l
  <2>1. \A i \in 1..l : o + i - 1 = b + PrecisionFrom(e) + i
    BY <1>3, <1>5
  <2>. QED
    BY <1>5, <2>1, Zenon
<1>8. CharAt(o + l) \notin Digit
  <2>1. CharAt(o + l) \in Initials \cup Conversion
    BY <1>1, <1>6, LengthChar
  <2>. QED
    BY <2>1 DEF Initials, Conversion, Digit
<1>9. ProperAmount(e.precision, 0) /\ 0 \in Nat
  BY DEF Piece
<1>10. taken' = taken
  BY DEF atou_
<1> HIDE DEF o, w
<1>11. CASE is_digit(CharAt(at))
  <2>1. /\ j + 1 \in 0..l /\ at + 1 = o + (j + 1)
        /\ Partial(v, j) * 10 + DigitValue[CharAt(at)] = Partial(v, j + 1)
    BY <1>1, <1>2, <1>6, <1>7, <1>8, <1>9, <1>11, DigitTaken
  <2>2. /\ spec' = [spec EXCEPT !["precision"] = @ * 10 + DigitValue[CharAt(at)]]
        /\ at' = at + 1 /\ phase' = "precision_digits"
    BY <1>11 DEF atou_
  <2>3. spec' = [spec EXCEPT !["precision"] = Partial(v, j + 1)]
    BY <1>2, <2>1, <2>2 DEF SpecOf
  <2>4. spec' = SpecOf(AllFlags(e), w, Partial(v, j + 1), {})
    BY <1>2, <2>3 DEF SpecOf
  <2>5. InPrecision(e, b, r, n)'
    BY <1>1, <1>10, <2>1, <2>2, <2>4 DEF InPrecision, o, w
  <2>. QED
    BY <2>2, <2>5
<1>12. CASE ~is_digit(CharAt(at))
  <2>1. at = o + l /\ Partial(v, j) = v
    BY <1>1, <1>2, <1>6, <1>7, <1>8, <1>9, <1>12, DigitTaken
  <2>2. at' = at /\ spec' = spec /\ phase' = "length"
    BY <1>12 DEF atou_
  <2>3. PrecisionOf(e) = v
    <3>1. v \in 0..99
      BY <1>1, <1>9, AmountIs
    <3>2. \A x \in 0..99 : Greater(x, 0) = x
      BY DEF Greater
    <3>. QED
      BY <3>1, <3>2, Zenon DEF PrecisionOf
  <2>4. Len(taken') = n + StarCount(e.width) + StarCount(e.precision)
    <3>1. StarCount(e.precision) = 0
      BY <1>1 DEF StarCount
    <3>2. StarCount(e.width) \in Nat
      BY DEF StarCount
    <3>. QED
      BY <1>1, <1>10, <3>1, <3>2
  <2>5. AtLength(e, b, r, n)'
    BY <1>1, <1>2, <1>6, <2>1, <2>2, <2>3, <2>4 DEF AtLength, w
  <2>. QED
    BY <2>2, <2>5
<1>. QED
  BY <1>11, <1>12

\* The sizes of the modifiers.
LEMMA SizesAre == \A m \in Modifiers : m = <<m[1], SizeOf(m[1])>>
<1>1. \A s : (<<s, SizeOf(s)>>)[1] = s
  OBVIOUS
<1>2. SizeOf(<<>>) = {} /\ SizeOf(<<"I">>) = {} /\ SizeOf(<<"I", "1">>) = {}
      /\ SizeOf(<<"I", "3">>) = {} /\ SizeOf(<<"I", "3", "2">>) = {} /\ SizeOf(<<"I", "6">>) = {}
  BY DEF SizeOf, LongLengths
<1>3. SizeOf(<<"l">>) = {"LONG"} /\ SizeOf(<<"t">>) = {"LONG"} /\ SizeOf(<<"j">>) = {"LONG"}
      /\ SizeOf(<<"z">>) = {"LONG"} /\ SizeOf(<<"I", "6", "4">>) = {"LONG"}
  BY DEF SizeOf, LongLengths
<1>4. SizeOf(<<"h">>) = {"SHORT"} /\ SizeOf(<<"I", "1", "6">>) = {"SHORT"} /\ SizeOf(<<"I", "8">>) = {"CHAR"}
  BY DEF SizeOf, LongLengths
<1>5. SizeOf(<<"h", "h">>) = {"SHORT", "CHAR"} /\ SizeOf(<<"l", "l">>) = {"LONG", "LONG_LONG"}
  BY DEF SizeOf, LongLengths
<1> SUFFICES ASSUME NEW m \in Modifiers PROVE m = <<m[1], SizeOf(m[1])>>
  OBVIOUS
<1>6. \E s : m = <<s, SizeOf(s)>>
  BY <1>2, <1>3, <1>4, <1>5, ModifiersAre, Zenon
<1>. QED
  BY <1>1, <1>6, Zenon

NamedHere(m, i) == m[1] = SubSeq(fmt, i, Lesser(Len(fmt), i + Len(m[1]) - 1))

\* What it takes to be written at a position of the format.
LEMMA PartOf ==
    ASSUME NEW i \in Nat \ {0}, fmt \in Seq(Char), i <= Len(fmt) + 1, NEW s \in Seq(Char)
    PROVE  s = SubSeq(fmt, i, Lesser(Len(fmt), i + Len(s) - 1))
             <=> (i + Len(s) - 1 <= Len(fmt) /\ \A j \in 1..Len(s) : fmt[i + j - 1] = s[j])
<1> DEFINE n == Len(fmt)
           k == Len(s)
           q == Lesser(n, i + k - 1)
           t == SubSeq(fmt, i, q)
<1>1. n \in Nat /\ q \in Int /\ q <= n /\ i - 1 <= q /\ q <= i + k - 1 /\ (q = n \/ q = i + k - 1)
      /\ i <= n + 1
  <2>1. n \in Nat /\ k \in Nat
    OBVIOUS
  <2> HIDE DEF n, k
  <2>2. i <= n + 1
    BY DEF n
  <2>. QED
    BY <2>1, <2>2 DEF Lesser
<1>2. t \in Seq(Char) /\ Len(t) = q - i + 1 /\ \A j \in 1..(q - i + 1) : t[j] = fmt[i + j - 1]
  <2> HIDE DEF n, k, q
  <2>1. i \in 1..(Len(fmt) + 1) /\ q \in (i - 1)..Len(fmt)
    BY <1>1 DEF n
  <2>. QED
    BY <2>1, SubSeqProperties
<1>5. k \in Nat
  OBVIOUS
<1> HIDE DEF n, q, t, k
<1>3. ASSUME s = t PROVE i + k - 1 <= n /\ \A j \in 1..k : fmt[i + j - 1] = s[j]
  <2>1. q - i + 1 = k
    BY <1>2, <1>3 DEF k
  <2>2. i + k - 1 <= n
    BY <1>1, <1>5, <2>1
  <2>. QED
    BY <1>2, <1>3, <2>1, <2>2
<1>4. ASSUME i + k - 1 <= n, \A j \in 1..k : fmt[i + j - 1] = s[j] PROVE s = t
  <2>1. q = i + k - 1
    BY <1>1, <1>4, <1>5
  <2>2. q - i + 1 = k
    BY <1>1, <1>5, <2>1
  <2>3. \A j \in 1..k : t[j] = s[j]
    BY <1>2, <1>4, <2>2
  <2>4. Len(t) = k
    BY <1>2, <1>5, <2>2
  <2>5. Len(t) = Len(s) /\ \A j \in 1..Len(t) : t[j] = s[j]
    BY <2>3, <2>4 DEF k
  <2>. QED
    BY <1>2, <2>5, SeqEqual
<1>. QED
  BY <1>3, <1>4 DEF n, q, t, k

\* The longest modifier that is there is the one that was written.
LEMMA ModifierFound ==
    ASSUME NEW e, NEW b, NEW r, Piece(e), Spelled(e, b, r), r >= LengthFrom(e)
    PROVE  ModifierAt(b + LengthFrom(e)) = <<e.length, SizeOf(e.length)>>
<1> DEFINE i == b + LengthFrom(e)
           k == Len(e.length)
           n == Len(fmt)
           here == {m \in Modifiers : NamedHere(m, i)}
           mm == <<e.length, SizeOf(e.length)>>
<1>1. /\ r \in Nat /\ b \in Nat /\ 1 <= r /\ r <= LetterAt(e)
      /\ r >= LengthFrom(e) /\ r # LetterAt(e) => r = LetterAt(e) - 1
  BY ReachIs
<1>2. LengthFrom(e) \in Nat /\ LetterAt(e) \in Nat /\ k \in Nat /\ LengthFrom(e) >= 2
      /\ LetterAt(e) = LengthFrom(e) + k
  BY PartsAre DEF LetterAt
<1>3. n \in Nat /\ b + r <= n /\ (r < LetterAt(e) => n = b + r) /\ fmt \in Seq(Char)
  BY DEF Spelled
<1>4. i \in Nat \ {0} /\ i <= n /\ i + k = b + LetterAt(e)
  BY <1>1, <1>2, <1>3
<1>5. \A m : m \in here <=> m \in Modifiers /\ NamedHere(m, i)
  OBVIOUS
<1>6. ModifierAt(i) = CHOOSE m \in here : \A o \in here : Len(o[1]) <= Len(m[1])
  BY DEF ModifierAt, NamedHere
<1>7. \A m \in Modifiers : /\ m[1] \in ModifierNames /\ m[1] \in Seq(Char) /\ Len(m[1]) \in Nat
                           /\ \A j \in 1..Len(m[1]) : m[1][j] \notin Conversion
  <2> SUFFICES ASSUME NEW m \in Modifiers
               PROVE  /\ m[1] \in ModifierNames /\ m[1] \in Seq(Char) /\ Len(m[1]) \in Nat
                      /\ \A j \in 1..Len(m[1]) : m[1][j] \notin Conversion
    BY Zenon
  <2> DEFINE X == Initials \cup {"1", "2", "3", "4", "6", "8"}
  <2>1. m[1] \in ModifierNames
    BY DEF ModifierNames
  <2>2. m[1] \in Seq(X)
    BY <2>1, NamesAre
  <2>3. X \subseteq Char
    BY LettersAre DEF Initials, Letters
  <2>4. \A c \in X : c \notin Conversion
    BY DEF Initials, Conversion
  <2> HIDE DEF X
  <2>. QED
    BY <2>1, <2>2, <2>3, <2>4, Wider
<1>8. e.length \in Seq(Char)
  BY PartsAre
<1>9. mm \in Modifiers /\ mm[1] = e.length
  <2>1. PICK m \in Modifiers : m[1] = e.length
    BY DEF Piece, ModifierNames
  <2>2. m = mm
    BY <2>1, SizesAre, Zenon
  <2>. QED
    BY <2>1, <2>2
<1> HIDE DEF here, mm, n, i, k
<1>10. ASSUME NEW m \in Modifiers
       PROVE  NamedHere(m, i) <=> (/\ i + Len(m[1]) - 1 <= n
                                   /\ \A j \in 1..Len(m[1]) : fmt[i + j - 1] = m[1][j])
  <2>1. m[1] \in Seq(Char) /\ Len(m[1]) \in Nat /\ i <= Len(fmt) + 1
    BY <1>3, <1>4, <1>7, <1>10 DEF n
  <2>2. m[1] = SubSeq(fmt, i, Lesser(Len(fmt), i + Len(m[1]) - 1))
          <=> (i + Len(m[1]) - 1 <= Len(fmt) /\ \A j \in 1..Len(m[1]) : fmt[i + j - 1] = m[1][j])
    BY <1>3, <1>4, <2>1, PartOf, Zenon
  <2>. QED
    BY <2>2, Zenon DEF NamedHere, n
<1>11. mm \in here
  <2>1. i + k - 1 <= n
    BY <1>1, <1>2, <1>3, <1>4
  <2>2. ASSUME NEW j \in 1..k PROVE fmt[i + j - 1] = e.length[j]
    <3>1. LengthFrom(e) + j - 1 \in 1..r /\ i + j - 1 = b + (LengthFrom(e) + j - 1)
      BY <1>1, <1>2, <1>3, <2>2 DEF i
    <3>2. fmt[b + (LengthFrom(e) + j - 1)] = Spell(e)[LengthFrom(e) + j - 1]
      BY <3>1 DEF Spelled
    <3>3. Spell(e)[LengthFrom(e) + j - 1] = e.length[j]
      BY <2>2, SpellIs DEF k
    <3>. QED
      BY <3>1, <3>2, <3>3
  <2>. QED
    BY <1>5, <1>9, <1>10, <2>1, <2>2 DEF k
<1>12. ASSUME NEW m \in here PROVE Len(m[1]) <= k
  <2> SUFFICES ASSUME Len(m[1]) > k PROVE FALSE
    BY <1>2, <1>5, <1>7, <1>12
  <2>1. m \in Modifiers /\ Len(m[1]) \in Nat /\ i + Len(m[1]) - 1 <= n
        /\ \A j \in 1..Len(m[1]) : fmt[i + j - 1] = m[1][j]
    BY <1>5, <1>7, <1>10, <1>12
  <2>2. k + 1 \in 1..Len(m[1]) /\ i + (k + 1) - 1 = b + LetterAt(e) /\ b + LetterAt(e) <= n
    BY <1>1, <1>2, <1>3, <1>4, <2>1
  <2>3. r = LetterAt(e)
    BY <1>1, <1>2, <1>3, <2>2
  <2>4. fmt[b + LetterAt(e)] = e.conv
    <3>1. LetterAt(e) \in 1..r
      BY <1>1, <2>3
    <3>2. fmt[b + LetterAt(e)] = Spell(e)[LetterAt(e)]
      BY <3>1 DEF Spelled
    <3>. QED
      BY <3>2, SpellIs
  <2>5. m[1][k + 1] = e.conv
    BY <2>1, <2>2, <2>4
  <2>6. e.conv \in Conversion
    BY DEF Piece, Conversion
  <2>. QED
    BY <1>7, <2>1, <2>2, <2>5, <2>6
<1>13. \A o \in here : Len(o[1]) <= Len(mm[1])
  BY <1>9, <1>12 DEF k
<1> DEFINE c == CHOOSE m \in here : \A o \in here : Len(o[1]) <= Len(m[1])
<1>14. c \in here /\ \A o \in here : Len(o[1]) <= Len(c[1])
  BY <1>11, <1>13
<1> HIDE DEF c
<1>15. Len(c[1]) = k
  <2>1. Len(mm[1]) <= Len(c[1]) /\ Len(c[1]) <= k /\ Len(mm[1]) = k
    BY <1>9, <1>11, <1>12, <1>14 DEF k
  <2>2. Len(c[1]) \in Nat
    BY <1>5, <1>7, <1>14
  <2>. QED
    BY <1>2, <2>1, <2>2
<1>16. c[1] = e.length
  <2>1. \A j \in 1..k : c[1][j] = mm[1][j]
    BY <1>5, <1>9, <1>10, <1>11, <1>14, <1>15 DEF k
  <2>2. c[1] \in Seq(Char) /\ mm[1] \in Seq(Char) /\ Len(mm[1]) = k
    BY <1>5, <1>7, <1>8, <1>9, <1>14 DEF k
  <2>. QED
    BY <1>9, <1>15, <2>1, <2>2
<1>17. c = mm
  <2>1. c \in Modifiers
    BY <1>5, <1>14
  <2>. QED
    BY <1>16, <2>1, SizesAre, Zenon DEF mm
<1>. QED
  BY <1>6, <1>17 DEF c, i, mm

\* The length modifier.
LEMMA LengthStep ==
    ASSUME NEW e, NEW b, NEW r, NEW n \in Nat, Piece(e), Spelled(e, b, r),
           AtLength(e, b, r, n), Length
    PROVE  \/ phase' = "specifier" /\ AtLetter(e, b, r, n)'
           \/ phase' = "end" /\ r < LetterAt(e) /\ Len(taken') = n
<1> DEFINE m == ModifierAt(at)
           k == Len(e.length)
<1>1. /\ at = b + LengthFrom(e) /\ r >= LengthFrom(e)
      /\ Len(taken) = n + StarCount(e.width) + StarCount(e.precision)
      /\ spec = SpecOf(AllFlags(e), Abs(e.width.value), PrecisionOf(e), {})
  BY DEF AtLength
<1>2. m[1] = e.length /\ m[2] = SizeOf(e.length)
  <2>1. m = <<e.length, SizeOf(e.length)>>
    BY <1>1, ModifierFound
  <2> HIDE DEF m
  <2>. QED
    BY <2>1
<1>3. /\ spec' = [spec EXCEPT !.size = m[2]] /\ taken' = taken
      /\ IF m[1] \in {<<>>, <<"I", "1", "6">>}
         THEN at' = at + Len(m[1]) /\ phase' = "specifier"
         ELSE AdvanceTo(at + Len(m[1]), "specifier")
  BY DEF Length
<1> HIDE DEF m
<1>4. spec' = SpecOf(AllFlags(e), Abs(e.width.value), PrecisionOf(e), SizeOf(e.length))
  BY <1>1, <1>2, <1>3 DEF SpecOf
<1>5. /\ r \in Nat /\ b \in Nat /\ k \in Nat /\ LengthFrom(e) \in Nat /\ LengthFrom(e) >= 2
      /\ LetterAt(e) = LengthFrom(e) + k /\ r <= LetterAt(e)
      /\ r # LetterAt(e) => r = LetterAt(e) - 1
  BY <1>1, ReachIs, PartsAre DEF LetterAt
<1>6. r # LetterAt(e) => e.length \notin {<<>>, <<"I", "1", "6">>}
  BY <1>1, ReachIs, Zenon
<1>7. at + k = b + LetterAt(e) /\ LetterAt(e) \in 1..(r + 1)
  <2> HIDE DEF k
  <2>. QED
    BY <1>1, <1>5
<1>8. CASE r = LetterAt(e)
  <2>1. at' = b + LetterAt(e) /\ phase' = "specifier"
    <3>1. CASE e.length \in {<<>>, <<"I", "1", "6">>}
      BY <1>2, <1>3, <1>7, <3>1, Zenon
    <3>2. CASE e.length \notin {<<>>, <<"I", "1", "6">>}
      <4>1. AdvanceTo(at + k, "specifier")
        BY <1>2, <1>3, <3>2, Zenon
      <4>2. LetterAt(e) <= r
        BY <1>5, <1>8
      <4>. QED
        BY <1>7, <4>1, <4>2, Advances
    <3>. QED
      BY <3>1, <3>2, Zenon
  <2>2. AtLetter(e, b, r, n)'
    BY <1>1, <1>3, <1>4, <1>8, <2>1 DEF AtLetter
  <2>. QED
    BY <2>1, <2>2
<1>9. CASE r # LetterAt(e)
  <2>1. AdvanceTo(at + k, "specifier")
    BY <1>2, <1>3, <1>6, <1>9, Zenon
  <2>2. LetterAt(e) > r /\ r < LetterAt(e)
    BY <1>5, <1>9
  <2>3. phase' = "end"
    BY <1>7, <2>1, <2>2, Advances
  <2>4. StarCount(e.width) = 0 /\ StarCount(e.precision) = 0
    BY <2>2, ReachIs DEF StarCount
  <2>5. Len(taken') = n
    BY <1>1, <1>3, <2>4
  <2>. QED
    BY <2>2, <2>3, <2>5
<1>. QED
  BY <1>8, <1>9

\* What the letter is asked to print takes the last argument of the conversion.
LEMMA LetterIs ==
    ASSUME NEW e, NEW b, NEW r, NEW n \in Nat, Piece(e), Spelled(e, b, r), HasArgs(e, r, n),
           AtLetter(e, b, r, n)
    PROVE  /\ CharAt(at) = e.conv /\ ProperItem(e)
           /\ at + 1 = b + LetterAt(e) + 1
           /\ e.conv # "%" => Fetches(LastType(e), e.arg) /\ Len(taken) + 1 = n + Len(ArgsOf(e))
           /\ e.conv = "%" => Len(taken) = n + Len(ArgsOf(e))
           /\ spec = SpecOf(AllFlags(e), Abs(e.width.value), PrecisionOf(e), SizeOf(e.length))
<1> DEFINE w == StarCount(e.width)
           q == StarCount(e.precision)
           l == Len(ArgsOf(e))
<1>1. /\ at = b + LetterAt(e) /\ r = LetterAt(e)
      /\ Len(taken) = n + w + q
      /\ spec = SpecOf(AllFlags(e), Abs(e.width.value), PrecisionOf(e), SizeOf(e.length))
  BY DEF AtLetter
<1>2. CharAt(at) = e.conv
  <2>1. LetterAt(e) \in 1..r
    BY <1>1, ReachIs
  <2>. QED
    BY <1>1, <2>1, CharIs, SpellIs
<1>3. /\ ProperItem(e) /\ l \in Nat /\ n + l <= Len(args) /\ Len(args) \in Nat
      /\ \A j \in 1..l : args[n + j] = ArgsOf(e)[j]
  BY <1>1 DEF HasArgs
<1>4. /\ l = w + q + (IF e.conv = "%" THEN 0 ELSE 1)
      /\ e.conv # "%" => ArgsOf(e)[w + q + 1] = [type |-> LastType(e), value |-> e.arg]
      /\ w \in 0..1 /\ q \in 0..1
  BY <1>3, ArgsOfIs
<1> HIDE DEF w, q, l
<1>5. ASSUME e.conv # "%" PROVE Fetches(LastType(e), e.arg) /\ Len(taken) + 1 = n + l
  <2>1. w + q + 1 \in 1..l /\ Len(taken) + 1 = n + (w + q + 1) /\ Len(taken) < Len(args) /\ Len(taken) + 1 = n + l
    BY <1>1, <1>3, <1>4, <1>5
  <2>2. args[n + (w + q + 1)] = [type |-> LastType(e), value |-> e.arg]
    BY <1>3, <1>4, <1>5, <2>1
  <2>. QED
    BY <2>1, <2>2 DEF Fetches
<1>6. ASSUME e.conv = "%" PROVE Len(taken) = n + l
  BY <1>1, <1>4, <1>6
<1>. QED
  BY <1>1, <1>2, <1>3, <1>5, <1>6 DEF l

\* The conversion at hand, behind its letter.
BehindIt(e, b, n) ==
    phase = "text" /\ at = b + LetterAt(e) + 1 /\ Len(taken) = n + Len(ArgsOf(e))

\* va_arg asked for the last argument.
LEMMA LetterTaken ==
    ASSUME NEW e, NEW b, NEW r, NEW n \in Nat, Piece(e), Spelled(e, b, r), HasArgs(e, r, n),
           AtLetter(e, b, r, n), e.conv # "%", taken \in Seq(Types),
           taken' = Append(taken, LastType(e)), at' = at + 1, phase' = "text"
    PROVE  BehindIt(e, b, n)'
<1>1. Len(taken') = Len(taken) + 1
  BY SMT
<1>2. Len(taken) + 1 = n + Len(ArgsOf(e)) /\ at + 1 = b + LetterAt(e) + 1
  BY LetterIs
<1>3. Len(taken') = n + Len(ArgsOf(e)) /\ at' = b + LetterAt(e) + 1
  BY <1>1, <1>2, Zenon
<1>. QED
  BY <1>3, Zenon DEF BehindIt

\* The type of an integer is what its length modifier says.
LEMMA IntegerType ==
    ASSUME NEW e, ProperItem(e), Piece(e), IsInteger(e)
    PROVE  /\ e.arg \in Int /\ e.length \in LongLengths \cup ShortLengths
           /\ LastType(e) = IF SizeOf(e.length) \cap {"LONG", "LONG_LONG"} # {} THEN "long" ELSE "int"
<1>1. e.conv \in {"d", "i", "u", "x", "o", "b"}
  BY DEF IsInteger
<1>2. e.arg \in Int /\ e.length \in LongLengths \cup ShortLengths
  <2>1. e.conv # "text" /\ ~ProperPlain(e)
    BY <1>1 DEF ProperPlain
  <2>2. \/ e.length = <<>> /\ ProperPlain(e)
        \/ /\ IsInteger(e) /\ e.arg \in Int
           /\ e.length \in LongLengths \cup ShortLengths
    BY <2>1, Zenon DEF ProperItem
  <2>. QED
    BY <2>1, <2>2, Zenon
<1>3. SizeOf(e.length) \cap {"LONG", "LONG_LONG"} # {} <=> e.length \in LongLengths
  <2>1. "LONG" \in SizeOf(e.length) <=> e.length \in LongLengths
    BY DEF SizeOf
  <2>2. "LONG_LONG" \in SizeOf(e.length) => e.length = <<"l", "l">>
    BY DEF SizeOf
  <2>3. <<"l", "l">> \in LongLengths
    BY DEF LongLengths
  <2>. QED
    BY <2>1, <2>2, <2>3, Zenon
<1>4. e.conv # "s" /\ e.conv # "p"
  BY <1>1
<1>5. LastType(e) = IF e.length \in LongLengths THEN "long" ELSE "int"
  BY <1>4, Zenon DEF LastType
<1>. QED
  BY <1>2, <1>3, <1>5, Zenon

\* What a step does to the arguments: nothing, or it takes the next, as what it is.
Took ==
    \/ taken' = taken
    \/ \E type \in Types : \E value : Fetches(type, value) /\ taken' = Append(taken, type)

\* The letter of a conversion leads behind it, and takes its argument.
LEMMA LetterStep ==
    ASSUME NEW e, NEW b, NEW r, NEW n \in Nat, Piece(e), Spelled(e, b, r), HasArgs(e, r, n),
           AtLetter(e, b, r, n), taken \in Seq(Types),
           Integer \/ Character \/ String \/ Pointer \/ OtherSpecifier
    PROVE  BehindIt(e, b, n)' /\ Took
<1>1. /\ CharAt(at) = e.conv /\ ProperItem(e)
      /\ at + 1 = b + LetterAt(e) + 1
      /\ e.conv # "%" => Fetches(LastType(e), e.arg) /\ Len(taken) + 1 = n + Len(ArgsOf(e))
      /\ e.conv = "%" => Len(taken) = n + Len(ArgsOf(e))
      /\ spec = SpecOf(AllFlags(e), Abs(e.width.value), PrecisionOf(e), SizeOf(e.length))
  BY LetterIs
<1>2. LastType(e) \in Types
  BY DEF LastType, Types
<1>3. ASSUME e.conv # "%", taken' = Append(taken, LastType(e)) /\ at' = at + 1 /\ phase' = "text"
      PROVE  BehindIt(e, b, n)' /\ Took
  <2>1. BehindIt(e, b, n)'
    BY <1>3, LetterTaken
  <2>2. Took
    BY <1>1, <1>2, <1>3, Zenon DEF Took
  <2>. QED
    BY <2>1, <2>2
<1>4. \A type, chars : Finish(type, chars) => taken' = Append(taken, type) /\ at' = at + 1 /\ phase' = "text"
  BY DEF Finish
<1>5. CASE Integer
  <2>1. IsInteger(e) /\ e.conv # "%"
    BY <1>1, <1>5 DEF Integer, IsInteger
  <2> DEFINE type == IF SizeOf(e.length) \cap {"LONG", "LONG_LONG"} # {} THEN "long" ELSE "int"
  <2>2. LastType(e) = type
    BY <1>1, <2>1, IntegerType, Zenon
  <2>3. spec.size = SizeOf(e.length)
    BY <1>1 DEF SpecOf
  <2>4. \E chars : Finish(type, chars)
    BY <1>5, <2>3, Zenon DEF Integer
  <2> HIDE DEF type
  <2>. QED
    BY <1>3, <1>4, <2>1, <2>2, <2>4, Zenon
<1>6. CASE Character
  <2>1. e.conv = "c"
    BY <1>1, <1>6 DEF Character
  <2>2. LastType(e) = "int" /\ e.conv # "%"
    BY <2>1 DEF LastType, IsInteger
  <2>3. \E chars : Finish("int", chars)
    BY <1>6, Zenon DEF Character
  <2>. QED
    BY <1>3, <1>4, <2>2, <2>3, Zenon
<1>7. CASE String
  <2>1. e.conv = "s"
    BY <1>1, <1>7 DEF String
  <2>2. LastType(e) = "string" /\ e.conv # "%"
    BY <2>1 DEF LastType, IsInteger
  <2>3. \E chars : Finish("string", chars)
    BY <1>7, Zenon DEF String
  <2>. QED
    BY <1>3, <1>4, <2>2, <2>3, Zenon
<1>8. CASE Pointer
  <2>1. e.conv = "p"
    BY <1>1, <1>8 DEF Pointer
  <2>2. LastType(e) = "pointer" /\ e.conv # "%"
    BY <2>1 DEF LastType, IsInteger
  <2>3. \E chars : Finish("pointer", chars)
    BY <1>8, Zenon DEF Pointer
  <2>. QED
    BY <1>3, <1>4, <2>2, <2>3, Zenon
<1>9. CASE OtherSpecifier
  <2>1. e.conv = "%"
    BY <1>1, <1>9 DEF OtherSpecifier, Piece
  <2>2. taken' = taken /\ at' = at + 1 /\ phase' = "text"
    BY <1>9 DEF OtherSpecifier
  <2>3. Took
    BY <2>2 DEF Took
  <2>4. at' = b + LetterAt(e) + 1 /\ Len(taken') = n + Len(ArgsOf(e))
    BY <1>1, <2>1, <2>2, Zenon
  <2>5. BehindIt(e, b, n)'
    BY <2>2, <2>4, Zenon DEF BehindIt
  <2>. QED
    BY <2>3, <2>5
<1>. QED
  BY <1>5, <1>6, <1>7, <1>8, <1>9

\* The start of a conversion: its flags come next, unless the format ends at the '%'.
LEMMA StartStep ==
    ASSUME NEW e, NEW b, NEW r, NEW n \in Nat, Piece(e), Spelled(e, b, r),
           at = b + 1, Len(taken) = n, StartSpec
    PROVE  \/ phase' = "flags" /\ InFlags(e, b, r, n)'
           \/ phase' = "end" /\ r < LetterAt(e) /\ Len(taken') = n
<1>1. /\ r \in Nat /\ b \in Nat /\ 1 <= r /\ r <= LetterAt(e) /\ LetterAt(e) \in Nat
      /\ PrecisionFrom(e) \in Nat /\ LengthFrom(e) \in Nat /\ WidthFrom(e) \in Nat
      /\ 2 <= WidthFrom(e) /\ WidthFrom(e) <= PrecisionFrom(e)
      /\ PrecisionFrom(e) <= LengthFrom(e) /\ LengthFrom(e) <= LetterAt(e)
      /\ Len(e.flags) \in Nat
  BY ReachIs, PartsAre
<1>2. AdvanceTo(at + 1, "flags") /\ spec' = NoSpec /\ taken' = taken
  BY DEF StartSpec
<1>3. at + 1 = b + 2 /\ 2 \in 1..(r + 1)
  BY <1>1
<1>4. CASE r = 1
  <2>1. r < LetterAt(e) /\ 2 > r
    BY <1>1, <1>4
  <2>2. phase' = "end"
    BY <1>2, <1>3, <2>1, Advances
  <2>. QED
    BY <1>2, <2>1, <2>2
<1>5. CASE r # 1
  <2>1. 2 <= r
    BY <1>1, <1>5
  <2>2. at' = b + 2 /\ phase' = "flags"
    BY <1>2, <1>3, <2>1, Advances
  <2>3. r >= PrecisionFrom(e)
    <3>1. \/ r = LetterAt(e) \/ r = 1 \/ r = PrecisionFrom(e)
          \/ r = LetterAt(e) - 1 /\ e.length \notin {<<>>, <<"I", "1", "6">>}
      BY DEF Spelled, Reaches
    <3>2. ASSUME r = LetterAt(e) - 1, e.length # <<>> PROVE r >= PrecisionFrom(e)
      <4>1. LetterAt(e) = LengthFrom(e) + Len(e.length) /\ Len(e.length) \in Nat /\ Len(e.length) # 0
        BY <3>2, NamesAre DEF LetterAt, Piece
      <4>. QED
        BY <1>1, <3>2, <4>1
    <3>. QED
      BY <1>1, <1>5, <3>1, <3>2
  <2>4. spec' = SpecOf({FlagOf[e.flags[i]] : i \in 1..0}, 0, 0, {})
    <3>1. \A i \in 1..0 : FALSE
      OBVIOUS
    <3>2. {FlagOf[e.flags[i]] : i \in 1..0} = {}
      BY <3>1, Zenon
    <3>. QED
      BY <1>2, <3>2, Zenon DEF NoSpec, SpecOf
  <2>5. 0 \in 0..Len(e.flags) /\ b + 2 + 0 = b + 2
    BY <1>1
  <2>6. InFlags(e, b, r, n)'
    BY <1>2, <2>2, <2>3, <2>4, <2>5, Zenon DEF InFlags
  <2>. QED
    BY <2>2, <2>6
<1>. QED
  BY <1>4, <1>5

-----------------------------------------------------------------------------
(* The items of a proper call, and its tail, are pieces of that kind.      *)

\* The modifiers an item may have are among those the loop knows.
LEMMA LengthsAre == LongLengths \cup ShortLengths \subseteq ModifierNames
<1>1. \A name, size : <<name, size>> \in Modifiers => name \in ModifierNames
  <2> SUFFICES ASSUME NEW name, NEW size, <<name, size>> \in Modifiers PROVE name \in ModifierNames
    OBVIOUS
  <2>1. (<<name, size>>)[1] = name
    OBVIOUS
  <2>. QED
    BY <2>1, Zenon DEF ModifierNames
<1>2. /\ <<<<"l">>, {"LONG"}>> \in Modifiers /\ <<<<"l", "l">>, {"LONG", "LONG_LONG"}>> \in Modifiers
      /\ <<<<"z">>, {"LONG"}>> \in Modifiers /\ <<<<"t">>, {"LONG"}>> \in Modifiers
      /\ <<<<"j">>, {"LONG"}>> \in Modifiers /\ <<<<"I", "6", "4">>, {"LONG"}>> \in Modifiers
  BY ModifiersAre, Zenon
<1>3. /\ <<<<>>, {}>> \in Modifiers /\ <<<<"h">>, {"SHORT"}>> \in Modifiers
      /\ <<<<"h", "h">>, {"SHORT", "CHAR"}>> \in Modifiers /\ <<<<"I", "8">>, {"CHAR"}>> \in Modifiers
      /\ <<<<"I", "1", "6">>, {"SHORT"}>> \in Modifiers /\ <<<<"I", "3", "2">>, {}>> \in Modifiers
  BY ModifiersAre, Zenon
<1>4. LongLengths \subseteq ModifierNames
  BY <1>1, <1>2, Zenon DEF LongLengths
<1>5. ShortLengths \subseteq ModifierNames
  BY <1>1, <1>3, Zenon DEF ShortLengths
<1>. QED
  BY <1>4, <1>5

\* A conversion of a proper call is a piece.
LEMMA ProperPiece ==
    ASSUME NEW e, ProperItem(e), e.conv # "text"
    PROVE  Piece(e)
<1>1. /\ e.flags \in Seq(DOMAIN FlagOf)
      /\ ProperAmount(e.width, 1) /\ ProperAmount(e.precision, 0)
      /\ \/ e.length = <<>> /\ ProperPlain(e)
         \/ /\ IsInteger(e) /\ e.arg \in Int
            /\ e.length \in LongLengths \cup ShortLengths
  BY DEF ProperItem
<1>2. e.conv \in {"d", "i", "u", "x", "o", "b", "c", "s", "p", "%"}
  BY <1>1 DEF ProperPlain, IsInteger
<1>3. e.length \in ModifierNames
  <2>1. <<>> \in ShortLengths
    BY DEF ShortLengths
  <2>. QED
    BY <1>1, <2>1, LengthsAre
<1>. QED
  BY <1>1, <1>2, <1>3, Zenon DEF Piece

CutOf(w, p, l) ==
    [flags |-> <<>>, length |-> l, conv |-> "d", arg |-> 0, width |-> w, precision |-> p]

\* The conversion that a tail begins.
LEMMA TailBegins ==
    ASSUME NEW tail, ProperTail(tail), tail # <<>>
    PROVE  \E e \in CutItems : CutFrom(e, tail)
<1> DEFINE none == [how |-> "none", value |-> 0]
           zero == [how |-> "number", value |-> 0]
           Widths == {none} \cup [how: {"number"}, value: 1..99]
<1>1. \A w \in Widths, p \in {none, zero}, l \in ModifierNames : CutOf(w, p, l) \in CutItems
  BY DEF CutItems, CutOf
<1>2. <<>> \in ModifierNames
  <2>1. <<>> \in ShortLengths
    BY DEF ShortLengths
  <2>. QED
    BY <2>1, LengthsAre
<1>3. none \in Widths
  OBVIOUS
<1>4. none.how = "none" /\ zero.how = "number"
  OBVIOUS
<1>5. \A w, p, l : CutOf(w, p, l).width = w /\ CutOf(w, p, l).precision = p /\ CutOf(w, p, l).length = l
  BY DEF CutOf
<1>6. ProperTail(tail) <=>
        \/ tail \in {<<>>, <<"%">>}
        \/ \E w \in Widths : \E end \in {<<".">>} \cup (ModifierNames \ {<<>>, <<"I", "1", "6">>}) :
             tail = <<"%">> \o Amount(w) \o end
  BY Zenon DEF ProperTail, ModifierNames
<1> HIDE DEF none, zero, Widths
<1>7. CASE tail = <<"%">>
  <2>1. CutOf(none, none, <<>>) \in CutItems
    BY <1>1, <1>2, <1>3
  <2>. QED
    BY <1>7, <2>1, Zenon DEF CutFrom
<1>8. ASSUME NEW w \in Widths, tail = <<"%">> \o Amount(w) \o <<".">>
      PROVE  \E e \in CutItems : CutFrom(e, tail)
  <2>1. CutOf(w, zero, <<>>) \in CutItems
    BY <1>1, <1>2
  <2>2. zero.how # "none"
    BY <1>4
  <2> DEFINE e == CutOf(w, zero, <<>>)
  <2>4. e.width = w /\ e.precision.how # "none"
    BY <1>5, <2>2
  <2> HIDE DEF e
  <2>5. CutFrom(e, tail)
    BY <1>8, <2>4, Zenon DEF CutFrom
  <2>3. CutFrom(CutOf(w, zero, <<>>), tail)
    BY <2>5 DEF e
  <2>. QED
    BY <2>1, <2>3
<1>9. ASSUME NEW w \in Widths, NEW l \in ModifierNames \ {<<>>, <<"I", "1", "6">>},
             tail = <<"%">> \o Amount(w) \o l
      PROVE  \E e \in CutItems : CutFrom(e, tail)
  <2>1. CutOf(w, none, l) \in CutItems
    BY <1>1
  <2>2. l \notin {<<>>, <<"I", "1", "6">>}
    OBVIOUS
  <2> DEFINE e == CutOf(w, none, l)
  <2>4. e.width = w /\ e.precision.how = "none" /\ e.length = l
    BY <1>4, <1>5
  <2> HIDE DEF e
  <2>5. CutFrom(e, tail)
    BY <1>9, <2>2, <2>4, Zenon DEF CutFrom
  <2>3. CutFrom(CutOf(w, none, l), tail)
    BY <2>5 DEF e
  <2>. QED
    BY <2>1, <2>3
<1>. QED
  BY <1>6, <1>7, <1>8, <1>9, Zenon

\* The piece a tail begins has no flags and no stars.
LEMMA CutPiece ==
    ASSUME NEW e \in CutItems
    PROVE  /\ Piece(e) /\ e.conv # "text" /\ e.width.how # "star" /\ e.precision.how # "star"
           /\ e.flags = <<>>
<1>1. /\ e.flags = <<>> /\ e.length \in ModifierNames /\ e.conv = "d"
      /\ e.width \in {[how |-> "none", value |-> 0]} \cup [how: {"number"}, value: 1..99]
      /\ e.precision \in {[how |-> "none", value |-> 0], [how |-> "number", value |-> 0]}
  BY DEF CutItems
<1>2. ProperAmount(e.width, 1) /\ e.width.how # "star"
  BY <1>1 DEF ProperAmount
<1>3. ProperAmount(e.precision, 0) /\ e.precision.how # "star"
  BY <1>1 DEF ProperAmount
<1>4. <<>> \in Seq(DOMAIN FlagOf)
  OBVIOUS
<1>. QED
  BY <1>1, <1>2, <1>3, <1>4 DEF Piece

\* How far the tail goes into it.
LEMMA TailIs ==
    ASSUME NEW tail, NEW e \in CutItems, CutFrom(e, tail)
    PROVE  /\ Piece(e) /\ e.conv # "text" /\ tail \in Seq(Char)
           /\ Len(tail) \in 1..(LetterAt(e) - 1) /\ Reaches(e, Len(tail))
           /\ \A j \in 1..Len(tail) : tail[j] = Spell(e)[j]
<1> DEFINE a == Amount(e.width)
           l == e.length
           p == <<"%">>
           pa == p \o a
<1>1. Piece(e) /\ e.conv # "text" /\ e.width.how # "star" /\ e.precision.how # "star" /\ e.flags = <<>>
  BY CutPiece
<1>2. a \in Seq(Char) /\ l \in Seq(Char) /\ Len(a) \in Nat /\ Len(l) \in Nat
  BY <1>1, PartsAre
<1>3. p \in Seq(Char) /\ Len(p) = 1 /\ p[1] = "%"
  <2>1. "%" \in Char
    BY LettersAre DEF Letters
  <2>. QED
    BY <2>1
<1>4. pa \in Seq(Char) /\ Joined(pa, p, a)
  BY <1>2, <1>3, Join
<1>5. WidthFrom(e) = 2 /\ PrecisionFrom(e) = 2 + Len(a) /\ LengthFrom(e) \in Nat /\ LetterAt(e) \in Nat
      /\ LengthFrom(e) >= PrecisionFrom(e) /\ LetterAt(e) = LengthFrom(e) + Len(l)
  <2>1. Len(e.flags) = 0
    BY <1>1
  <2>2. WidthFrom(e) = 2
    BY <2>1 DEF WidthFrom
  <2>. QED
    BY <1>1, <2>2, PartsAre DEF PrecisionFrom, LetterAt
<1>6. /\ e.precision.how = "none" => LengthFrom(e) = PrecisionFrom(e)
      /\ e.precision.how # "none" => LengthFrom(e) > PrecisionFrom(e)
      /\ e.precision.how # "none" => PrecisionChars(e)[1] = "." /\ 1 \in 1..Len(PrecisionChars(e))
  <2>1. CASE e.precision.how = "none"
    <3>1. Len(PrecisionChars(e)) = 0
      BY <2>1 DEF PrecisionChars
    <3>. QED
      BY <1>2, <1>5, <2>1, <3>1 DEF LengthFrom
  <2>2. CASE e.precision.how # "none"
    <3>1. Amount(e.precision) \in Seq(Char)
      <4>1. Digit \cup {"*"} \subseteq Char
        BY LettersAre DEF Digit, Letters
      <4>. QED
        BY <1>1, <4>1, AmountIs, Wider DEF Piece
    <3>2. PrecisionChars(e) = <<".">> \o Amount(e.precision)
      BY <2>2 DEF PrecisionChars
    <3>6. Len(Amount(e.precision)) \in Nat
      BY <3>1
    <3>7. Joined(PrecisionChars(e), <<".">>, Amount(e.precision))
      BY <3>1, <3>2, DotIs, Join
    <3>3. Joined(PrecisionChars(e), <<".">>, Amount(e.precision)) /\ Len(Amount(e.precision)) \in Nat
      BY <3>6, <3>7
    <3>4. Len(PrecisionChars(e)) = 1 + Len(Amount(e.precision)) /\ PrecisionChars(e)[1] = "."
      BY <3>3 DEF Joined
    <3>5. LengthFrom(e) = PrecisionFrom(e) + Len(PrecisionChars(e))
      BY DEF LengthFrom
    <3>. QED
      BY <1>2, <1>5, <2>2, <3>3, <3>4, <3>5
  <2>. QED
    BY <2>1, <2>2
<1>7. /\ Spell(e)[1] = "%"
      /\ \A j \in 1..Len(a) : Spell(e)[WidthFrom(e) + j - 1] = a[j]
      /\ \A j \in 1..Len(PrecisionChars(e)) : Spell(e)[PrecisionFrom(e) + j - 1] = PrecisionChars(e)[j]
      /\ \A j \in 1..Len(l) : Spell(e)[LengthFrom(e) + j - 1] = l[j]
  BY <1>1, SpellIs
<1>8. Len(l) = 0 <=> l = <<>>
  BY <1>1, NamesAre DEF Piece
<1> HIDE DEF a, l, p, pa
<1>9. Len(pa) = 1 + Len(a) /\ \A j \in 1..(1 + Len(a)) : pa[j] = Spell(e)[j]
  <2>1. Len(pa) = 1 + Len(a) /\ pa[1] = "%" /\ \A j \in 1..Len(a) : pa[1 + j] = a[j]
    BY <1>3, <1>4 DEF Joined
  <2>2. ASSUME NEW j \in 1..(1 + Len(a)) PROVE pa[j] = Spell(e)[j]
    <3>1. CASE j = 1
      BY <1>7, <2>1, <3>1
    <3>2. CASE j # 1
      <4>1. j - 1 \in 1..Len(a) /\ 2 + (j - 1) - 1 = j /\ 1 + (j - 1) = j
        BY <1>2, <3>2
      <4>2. pa[1 + (j - 1)] = a[j - 1]
        BY <2>1, <4>1
      <4>3. Spell(e)[2 + (j - 1) - 1] = a[j - 1]
        BY <1>5, <1>7, <4>1
      <4>. QED
        BY <4>1, <4>2, <4>3
    <3>. QED
      BY <3>1, <3>2
  <2>. QED
    BY <2>1, <2>2
<1>10. CASE tail = p
  <2>1. Len(tail) = 1 /\ tail \in Seq(Char) /\ \A j \in 1..1 : tail[j] = Spell(e)[j]
    BY <1>3, <1>7, <1>10
  <2>2. 1 \in 1..(LetterAt(e) - 1)
    BY <1>2, <1>5
  <2>3. Reaches(e, 1)
    BY <1>1 DEF Reaches
  <2>. QED
    BY <1>1, <2>1, <2>2, <2>3
<1>11. CASE e.precision.how # "none" /\ tail = pa \o <<".">>
  <2>1. tail \in Seq(Char) /\ Joined(tail, pa, <<".">>)
    BY <1>4, <1>11, DotIs, Join
  <2>2. Len(tail) = Len(pa) + 1 /\ tail[Len(pa) + 1] = "." /\ \A j \in 1..Len(pa) : tail[j] = pa[j]
    BY <2>1 DEF Joined
  <2>3. Len(tail) = PrecisionFrom(e) /\ Len(tail) \in 1..(LetterAt(e) - 1)
    BY <1>2, <1>5, <1>6, <1>9, <1>11, <2>2
  <2>4. Reaches(e, Len(tail))
    BY <1>1, <1>11, <2>3 DEF Reaches
  <2>5. ASSUME NEW j \in 1..Len(tail) PROVE tail[j] = Spell(e)[j]
    <3>1. CASE j = Len(pa) + 1
      <4>1. j = PrecisionFrom(e) + 1 - 1
        BY <1>2, <1>5, <2>2, <2>3, <3>1
      <4>2. Spell(e)[PrecisionFrom(e) + 1 - 1] = "."
        BY <1>6, <1>7, <1>11
      <4>. QED
        BY <2>2, <3>1, <4>1, <4>2
    <3>2. CASE j # Len(pa) + 1
      <4>1. j \in 1..Len(pa) /\ j \in 1..(1 + Len(a))
        BY <1>2, <1>9, <2>2, <3>2
      <4>. QED
        BY <1>9, <2>2, <4>1
    <3>. QED
      BY <3>1, <3>2
  <2>. QED
    BY <1>1, <2>1, <2>3, <2>4, <2>5
<1>12. CASE e.precision.how = "none" /\ l \notin {<<>>, <<"I", "1", "6">>} /\ tail = pa \o l
  <2>1. tail \in Seq(Char) /\ Joined(tail, pa, l)
    BY <1>2, <1>4, <1>12, Join
  <2>2. Len(tail) = Len(pa) + Len(l) /\ (\A j \in 1..Len(l) : tail[Len(pa) + j] = l[j])
        /\ \A j \in 1..Len(pa) : tail[j] = pa[j]
    BY <2>1 DEF Joined
  <2>3. LengthFrom(e) = 2 + Len(a)
    BY <1>5, <1>6, <1>12
  <2>6. Len(tail) = LetterAt(e) - 1 /\ Len(tail) \in 1..(LetterAt(e) - 1)
    BY <1>2, <1>5, <1>9, <2>2, <2>3
  <2>4. Reaches(e, Len(tail))
    BY <1>1, <1>12, <2>6 DEF Reaches, l
  <2>5. ASSUME NEW j \in 1..Len(tail) PROVE tail[j] = Spell(e)[j]
    <3>1. CASE j > Len(pa)
      <4>1. j - Len(pa) \in 1..Len(l) /\ Len(pa) + (j - Len(pa)) = j /\ LengthFrom(e) + (j - Len(pa)) - 1 = j
        BY <1>2, <1>9, <2>2, <2>3, <2>6, <1>5, <3>1
      <4>2. Spell(e)[LengthFrom(e) + (j - Len(pa)) - 1] = l[j - Len(pa)]
        BY <1>7, <4>1
      <4>. QED
        BY <2>2, <4>1, <4>2
    <3>2. CASE ~(j > Len(pa))
      <4>1. j \in 1..Len(pa) /\ j \in 1..(1 + Len(a))
        BY <1>2, <1>9, <2>2, <3>2
      <4>. QED
        BY <1>9, <2>2, <4>1
    <3>. QED
      BY <3>1, <3>2
  <2>. QED
    BY <1>1, <2>1, <2>6, <2>4, <2>5
<1>. QED
  BY <1>10, <1>11, <1>12, Zenon DEF CutFrom, p, pa, a, l

-----------------------------------------------------------------------------
(* The whole format: where each piece begins, and what is before it.       *)

\* The call keeps to the rules.
Called == ProperInputs /\ input \in Inputs /\ fmt = Format /\ args = Args

\* The items of a proper call.
LEMMA ItemsAre ==
    ASSUME Called
    PROVE  /\ Count \in Nat /\ DOMAIN input.items = 1..Count
           /\ \A k \in 1..Count : ProperItem(input.items[k])
           /\ ProperTail(input.tail)
<1>1. /\ input.items \in Seq(Range(input.items))
      /\ \A item \in Range(input.items) : ProperItem(item)
      /\ ProperTail(input.tail)
  BY DEF Called, ProperInputs
<1>2. Len(input.items) \in Nat /\ DOMAIN input.items = 1..Len(input.items)
  BY <1>1
<1>3. \A k \in DOMAIN input.items : input.items[k] \in Range(input.items)
  BY DEF Range
<1>. QED
  BY <1>1, <1>2, <1>3, Zenon DEF Count

\* A character that is text.
LEMMA TextIs ==
    ASSUME NEW e, ProperItem(e), e.conv = "text"
    PROVE  /\ Spell(e) \in Seq(Char) /\ Len(Spell(e)) = 1
           /\ Spell(e)[1] = e.arg /\ e.arg \notin {"%", NUL}
           /\ ArgsOf(e) = <<>>
<1>1. e.arg \in STRING \ {"%", NUL}
  BY DEF ProperItem, IsInteger, ProperPlain
<1>2. Spell(e) = <<e.arg>>
  BY DEF Spell
<1>3. e.arg \in Char
  BY <1>1 DEF Char
<1>4. ArgsOf(e) = <<>>
  BY DEF ArgsOf
<1>. QED
  BY <1>1, <1>2, <1>3, <1>4

\* The arguments of an item are a sequence.
LEMMA ArgsOfType ==
    ASSUME NEW e, ProperItem(e)
    PROVE  ArgsOf(e) \in Seq(Range(ArgsOf(e))) /\ Len(ArgsOf(e)) \in Nat
<1>1. \E X : ArgsOf(e) \in Seq(X)
  <2>1. CASE e.conv \in {"text", "%"}
    <3>1. ArgsOf(e) = <<>>
      BY <2>1 DEF ArgsOf
    <3>2. <<>> \in Seq({})
      OBVIOUS
    <3>. QED
      BY <3>1, <3>2, Zenon
  <2>2. CASE e.conv \notin {"text", "%"}
    <3> DEFINE t == [type |-> LastType(e), value |-> e.arg]
               X == {[type |-> "int", value |-> e.width.value], [type |-> "int", value |-> e.precision.value], t}
               w == StarArg(e.width)
               q == StarArg(e.precision)
    <3>1. ArgsOf(e) = w \o q \o <<t>>
      BY <2>2, Zenon DEF ArgsOf, LastType
    <3>2. w \in Seq(X) /\ q \in Seq(X)
      BY StarIs
    <3>3. <<t>> \in Seq(X)
      OBVIOUS
    <3> HIDE DEF w, q, t, X
    <3>4. w \o q \in Seq(X)
      BY <3>2, Join
    <3>5. w \o q \o <<t>> \in Seq(X)
      BY <3>3, <3>4, Join
    <3>. QED
      BY <3>1, <3>5
  <2>. QED
    BY <2>1, <2>2
<1>2. PICK X : ArgsOf(e) \in Seq(X)
  BY <1>1
<1> DEFINE s == ArgsOf(e)
<1>3. s \in Seq(X)
  BY <1>2
<1> HIDE DEF s
<1>4. s \in Seq(Range(s)) /\ Len(s) \in Nat
  BY <1>3 DEF Range
<1>. QED
  BY <1>4 DEF s

\* The format and the arguments, piece by piece.
LEMMA SpellingsAre ==
    ASSUME Called
    PROVE  /\ Spellings \in Seq(Seq(Char)) /\ Len(Spellings) = Count
           /\ \A k \in 1..Count : Spellings[k] = Spell(input.items[k])
           /\ FlattenSeq(Spellings) = Upto(Spellings, Count)
           /\ Upto(Spellings, Count) \in Seq(Char)
<1>1. Count \in Nat /\ DOMAIN input.items = 1..Count
  BY ItemsAre
<1>2. ASSUME NEW k \in 1..Count PROVE Spell(input.items[k]) \in Seq(Char)
  <2> DEFINE e == input.items[k]
  <2>1. ProperItem(e)
    BY ItemsAre
  <2> HIDE DEF e
  <2>2. Spell(e) \in Seq(Char)
    BY <2>1, ProperPiece, SpellIs, TextIs
  <2>. QED
    BY <2>2 DEF e
<1>3. Spellings = [k \in 1..Count |-> Spell(input.items[k])]
  BY <1>1, Zenon DEF Spellings
<1>4. Spellings \in Seq(Seq(Char)) /\ Len(Spellings) = Count
      /\ \A k \in 1..Count : Spellings[k] = Spell(input.items[k])
  BY <1>1, <1>2, <1>3
<1>5. FlattenSeq(Spellings) = Upto(Spellings, Count)
  BY <1>4, UptoStep
<1>6. Upto(Spellings, Count) \in Seq(Char)
  <2>1. Count \in 0..Len(Spellings)
    BY <1>1, <1>4
  <2>. QED
    BY <1>4, <2>1, UptoType
<1>. QED
  BY <1>4, <1>5, <1>6

\* The arguments, item by item.
LEMMA ArgListsAre ==
    ASSUME Called
    PROVE  /\ \E X : ArgLists \in Seq(Seq(X))
           /\ Len(ArgLists) = Count
           /\ \A k \in 1..Count : ArgLists[k] = ArgsOf(input.items[k]) /\ Len(ArgsOf(input.items[k])) \in Nat
           /\ args = Upto(ArgLists, Count)
<1>1. Count \in Nat /\ DOMAIN input.items = 1..Count
  BY ItemsAre
<1> DEFINE X == UNION {Range(ArgsOf(input.items[k])) : k \in 1..Count}
<1>2. ASSUME NEW k \in 1..Count PROVE ArgsOf(input.items[k]) \in Seq(X) /\ Len(ArgsOf(input.items[k])) \in Nat
  <2>1. Range(ArgsOf(input.items[k])) \subseteq X
    BY Zenon
  <2> DEFINE e == input.items[k]
  <2>2. ProperItem(e)
    BY ItemsAre
  <2> HIDE DEF X
  <2>3. ArgsOf(e) \in Seq(Range(ArgsOf(e))) /\ Len(ArgsOf(e)) \in Nat
    BY <2>2, ArgsOfType
  <2>. QED
    BY <2>1, <2>3, Wider
<1> HIDE DEF X
<1>3. ArgLists = [k \in 1..Count |-> ArgsOf(input.items[k])]
  BY <1>1, Zenon DEF ArgLists
<1>4. ArgLists \in Seq(Seq(X)) /\ Len(ArgLists) = Count
      /\ \A k \in 1..Count : ArgLists[k] = ArgsOf(input.items[k])
  BY <1>1, <1>2, <1>3
<1>5. FlattenSeq(ArgLists) = Upto(ArgLists, Count)
  BY <1>4, UptoStep
<1>6. args = FlattenSeq(ArgLists)
  BY DEF Called, Args, ArgLists
<1>. QED
  BY <1>2, <1>4, <1>5, <1>6

\* Where each piece of the format begins, and what is before it.
LEMMA BeginsAre ==
    ASSUME Called, NEW k \in 1..Count
    PROVE  /\ Begin(k) \in Nat /\ Begin(k + 1) = Begin(k) + Len(Spell(input.items[k]))
           /\ Begin(k + 1) <= Begin(Count + 1) /\ Begin(k + 1) \in Nat
           /\ \A j \in 1..Len(Spell(input.items[k])) :
                Upto(Spellings, Count)[Begin(k) + j] = Spell(input.items[k])[j]
           /\ ArgsBefore(k) \in Nat /\ ArgsBefore(k + 1) = ArgsBefore(k) + Len(ArgsOf(input.items[k]))
           /\ ArgsBefore(k + 1) <= Len(args) /\ ArgsBefore(k + 1) \in Nat
           /\ \A j \in 1..Len(ArgsOf(input.items[k])) :
                args[ArgsBefore(k) + j] = ArgsOf(input.items[k])[j]
<1>1. Count \in Nat /\ Count \in 0..Count /\ (k + 1) - 1 = k /\ (Count + 1) - 1 = Count
      /\ k \in 0..Count /\ k - 1 \in 0..Count
  BY ItemsAre
<1>2. /\ Spellings \in Seq(Seq(Char)) /\ Len(Spellings) = Count /\ Spellings[k] = Spell(input.items[k])
  BY SpellingsAre
<1>3. Placed(Spellings, Count, k)
  BY <1>1, <1>2, UptoPlace
<1>4. /\ Begin(k) = Len(Upto(Spellings, k - 1)) /\ Begin(k + 1) = Len(Upto(Spellings, k))
      /\ Begin(Count + 1) = Len(Upto(Spellings, Count))
  BY <1>1, Zenon DEF Begin
<1>5. Begin(k) \in Nat /\ Begin(k + 1) \in Nat
  <2>1. Upto(Spellings, k - 1) \in Seq(Char) /\ Upto(Spellings, k) \in Seq(Char)
    BY <1>1, <1>2, UptoType
  <2>. QED
    BY <1>4, <2>1
<1>6. PICK X : ArgLists \in Seq(Seq(X))
  BY ArgListsAre
<1>7. Len(ArgLists) = Count /\ ArgLists[k] = ArgsOf(input.items[k]) /\ args = Upto(ArgLists, Count)
  BY ArgListsAre
<1>8. Placed(ArgLists, Count, k)
  BY <1>1, <1>6, <1>7, UptoPlace
<1>9. ArgsBefore(k) = Len(Upto(ArgLists, k - 1)) /\ ArgsBefore(k + 1) = Len(Upto(ArgLists, k))
  BY <1>1, Zenon DEF ArgsBefore
<1>10. ArgsBefore(k) \in Nat /\ ArgsBefore(k + 1) \in Nat
  <2>1. Upto(ArgLists, k - 1) \in Seq(X) /\ Upto(ArgLists, k) \in Seq(X)
    BY <1>1, <1>6, <1>7, UptoType
  <2>. QED
    BY <1>9, <2>1
<1>11. /\ Begin(k + 1) = Begin(k) + Len(Spell(input.items[k]))
       /\ Begin(k + 1) <= Begin(Count + 1)
       /\ \A j \in 1..Len(Spell(input.items[k])) :
            Upto(Spellings, Count)[Begin(k) + j] = Spell(input.items[k])[j]
  BY <1>2, <1>3, <1>4, Zenon DEF Placed
<1>12. /\ ArgsBefore(k + 1) = ArgsBefore(k) + Len(ArgsOf(input.items[k]))
       /\ ArgsBefore(k + 1) <= Len(args)
       /\ \A j \in 1..Len(ArgsOf(input.items[k])) :
            args[ArgsBefore(k) + j] = ArgsOf(input.items[k])[j]
  BY <1>7, <1>8, <1>9, Zenon DEF Placed
<1>. QED
  BY <1>5, <1>10, <1>11, <1>12

\* The format, and where its ends are.
LEMMA FormatIs ==
    ASSUME Called
    PROVE  /\ Count \in Nat
           /\ Begin(1) = 0 /\ ArgsBefore(1) = 0
           /\ Begin(Count + 1) = Len(Upto(Spellings, Count)) /\ Begin(Count + 1) \in Nat
           /\ ArgsBefore(Count + 1) = Len(args) /\ Len(args) \in Nat
           /\ input.tail \in Seq(Char) /\ Len(input.tail) \in Nat
           /\ fmt \in Seq(Char) /\ Joined(fmt, Upto(Spellings, Count), input.tail)
<1>1. Count \in Nat /\ (Count + 1) - 1 = Count /\ Count \in 0..Count
  BY ItemsAre
<1>2. PICK X : ArgLists \in Seq(Seq(X))
  BY ArgListsAre
<1>3. Upto(Spellings, 0) = <<>> /\ Upto(ArgLists, 0) = <<>>
  BY <1>2, SpellingsAre, UptoStep
<1>4. Begin(1) = 0 /\ ArgsBefore(1) = 0
  <2>1. 1 - 1 = 0 /\ Len(<<>>) = 0
    OBVIOUS
  <2>. QED
    BY <1>3, <2>1 DEF Begin, ArgsBefore
<1>5. Begin(Count + 1) = Len(Upto(Spellings, Count)) /\ Upto(Spellings, Count) \in Seq(Char)
  BY <1>1, SpellingsAre, Zenon DEF Begin
<1>6. Begin(Count + 1) \in Nat
  BY <1>5
<1>7. args = Upto(ArgLists, Count) /\ ArgsBefore(Count + 1) = Len(args)
  BY <1>1, ArgListsAre, Zenon DEF ArgsBefore
<1>8. Len(args) \in Nat
  <2>1. Upto(ArgLists, Count) \in Seq(X)
    BY <1>1, <1>2, ArgListsAre, UptoType
  <2>. QED
    BY <1>7, <2>1
<1>9. input.tail \in Seq(Char)
  <2>1. ProperTail(input.tail)
    BY ItemsAre
  <2>2. CASE input.tail = <<>>
    BY <2>2
  <2>3. CASE input.tail # <<>>
    BY <2>1, <2>3, TailBegins, TailIs
  <2>. QED
    BY <2>2, <2>3
<1>10. Len(input.tail) \in Nat
  BY <1>9
<1>11. fmt = Upto(Spellings, Count) \o input.tail
  BY SpellingsAre DEF Called, Format, Spellings
<1>12. fmt \in Seq(Char) /\ Joined(fmt, Upto(Spellings, Count), input.tail)
  BY <1>5, <1>9, <1>11, Join
<1>. QED
  BY <1>1, <1>4, <1>5, <1>6, <1>7, <1>8, <1>9, <1>10, <1>12

\* The characters of an item in the format.
LEMMA ItemChars ==
    ASSUME Called, NEW k \in 1..Count
    PROVE  \A j \in 1..Len(Spell(input.items[k])) :
              /\ fmt[Begin(k) + j] = Spell(input.items[k])[j]
              /\ Begin(k) + j \in 1..Begin(Count + 1)
<1> DEFINE s == Spell(input.items[k])
           u == Upto(Spellings, Count)
           b == Begin(k)
           c == Begin(k + 1)
           d == Begin(Count + 1)
<1>1. /\ b \in Nat /\ c = b + Len(s) /\ c <= d /\ c \in Nat
      /\ \A j \in 1..Len(s) : u[b + j] = s[j]
  BY BeginsAre
<1>2. d = Len(u) /\ d \in Nat /\ \A j \in 1..Len(u) : fmt[j] = u[j]
  BY FormatIs DEF Joined
<1> HIDE DEF s, u, b, c, d
<1>3. ASSUME NEW j \in 1..Len(s) PROVE fmt[b + j] = s[j] /\ b + j \in 1..d
  <2>1. b + j \in 1..d
    BY <1>1, <1>2
  <2>2. fmt[b + j] = u[b + j]
    BY <1>2, <2>1
  <2>. QED
    BY <1>1, <2>1, <2>2
<1>. QED
  BY <1>3 DEF s, b, d

\* A conversion of the call, at its place in the format.
LEMMA ItemPiece ==
    ASSUME Called, NEW k \in 1..Count, input.items[k].conv # "text"
    PROVE  /\ Piece(input.items[k]) /\ Reach(k) = LetterAt(input.items[k])
           /\ Spelled(input.items[k], Begin(k), Reach(k))
           /\ HasArgs(input.items[k], Reach(k), ArgsBefore(k))
           /\ CharAt(Begin(k) + 1) = "%"
<1> DEFINE e == input.items[k]
           b == Begin(k)
           r == LetterAt(e)
           n == ArgsBefore(k)
<1>1. ProperItem(e)
  BY ItemsAre
<1>2. Piece(e)
  BY <1>1, ProperPiece
<1>3. /\ Len(Spell(e)) = r /\ Spell(e)[1] = "%"
  BY <1>2, SpellIs
<1>4. Reach(k) = r
  <2>1. k <= Count
    BY ItemsAre
  <2>. QED
    BY <1>3, <2>1 DEF Reach
<1>5. r \in Nat /\ 2 <= r
  <2>1. /\ LetterAt(e) \in Nat /\ WidthFrom(e) \in Nat /\ PrecisionFrom(e) \in Nat /\ LengthFrom(e) \in Nat
        /\ 2 <= WidthFrom(e) /\ WidthFrom(e) <= PrecisionFrom(e)
        /\ PrecisionFrom(e) <= LengthFrom(e) /\ LengthFrom(e) <= LetterAt(e)
    BY <1>2, PartsAre
  <2> HIDE DEF e
  <2>. QED
    BY <2>1
<1>6. /\ b \in Nat
      /\ \A j \in 1..r : fmt[b + j] = Spell(e)[j] /\ b + j \in 1..Begin(Count + 1)
  BY <1>3, BeginsAre, ItemChars
<1>7. fmt \in Seq(Char) /\ Begin(Count + 1) \in Nat /\ Begin(Count + 1) <= Len(fmt)
  <2>1. /\ fmt \in Seq(Char) /\ Begin(Count + 1) \in Nat /\ Len(input.tail) \in Nat
        /\ Len(fmt) = Begin(Count + 1) + Len(input.tail)
    BY FormatIs DEF Joined
  <2>. QED
    BY <2>1
<1>8. HasArgs(e, r, n)
  <2>1. /\ n + Len(ArgsOf(e)) <= Len(args) /\ \A j \in 1..Len(ArgsOf(e)) : args[n + j] = ArgsOf(e)[j]
    BY BeginsAre
  <2>2. Len(ArgsOf(e)) \in Nat /\ Len(args) \in Nat
    BY ArgListsAre, FormatIs
  <2>. QED
    BY <1>1, <2>1, <2>2 DEF HasArgs
<1> HIDE DEF e, b, r, n
<1>9. b + r <= Len(fmt) /\ r \in 1..r /\ 1 \in 1..r
  <2>1. b + r \in 1..Begin(Count + 1)
    BY <1>5, <1>6
  <2>. QED
    BY <1>5, <1>6, <1>7, <2>1
<1>10. Spelled(e, b, r)
  <2>1. Reaches(e, r)
    BY DEF Reaches, r
  <2>2. r = LetterAt(e)
    BY DEF r
  <2>3. ~(r < r)
    BY <1>5
  <2>. QED
    BY <1>6, <1>7, <1>9, <2>1, <2>2, <2>3, Zenon DEF Spelled
<1>11. CharAt(b + 1) = "%"
  <2>1. CharAt(b + 1) = Spell(e)[1]
    BY <1>9, <1>10, CharIs
  <2>. QED
    BY <1>3, <2>1
<1>. QED
  BY <1>2, <1>4, <1>8, <1>10, <1>11 DEF e, b, r, n

\* The conversion that is cut off, at the end of the format.
LEMMA TailPiece ==
    ASSUME Called, input.tail # <<>>, NEW e, e = CutItem(input.tail)
    PROVE  /\ Piece(e) /\ e.conv # "text"
           /\ Spelled(e, Begin(Count + 1), Len(input.tail)) /\ Len(input.tail) < LetterAt(e)
           /\ CharAt(Begin(Count + 1) + 1) = "%"
<1> DEFINE t == input.tail
           r == Len(t)
           b == Begin(Count + 1)
<1>1. e \in CutItems /\ CutFrom(e, t)
  <2>1. ProperTail(t)
    BY ItemsAre
  <2>2. \E c \in CutItems : CutFrom(c, t)
    BY <2>1, TailBegins
  <2>. QED
    BY <2>2 DEF CutItem
<1>2. /\ Piece(e) /\ e.conv # "text"
      /\ r \in 1..(LetterAt(e) - 1) /\ Reaches(e, r)
      /\ \A j \in 1..r : t[j] = Spell(e)[j]
  BY <1>1, TailIs
<1>3. LetterAt(e) \in Nat /\ Spell(e)[1] = "%"
  BY <1>2, PartsAre, SpellIs
<1>4. /\ b \in Nat /\ fmt \in Seq(Char) /\ Len(fmt) = b + r
      /\ \A j \in 1..r : fmt[b + j] = t[j]
  BY FormatIs DEF Joined
<1> HIDE DEF t, r, b
<1>5. r \in 1..LetterAt(e) /\ r < LetterAt(e) /\ b + r <= Len(fmt) /\ 1 \in 1..r
  BY <1>2, <1>3, <1>4
<1>6. Spelled(e, b, r)
  BY <1>2, <1>4, <1>5, Zenon DEF Spelled
<1>7. CharAt(b + 1) = "%"
  <2>1. CharAt(b + 1) = Spell(e)[1]
    BY <1>5, <1>6, CharIs
  <2>. QED
    BY <1>3, <2>1
<1>. QED
  BY <1>2, <1>5, <1>6, <1>7 DEF t, r, b

\* A piece of the format that is a conversion.
LEMMA PieceIs ==
    ASSUME Called, NEW k \in 1..PieceCount, PieceAt(k).conv # "text"
    PROVE  /\ Piece(PieceAt(k)) /\ Spelled(PieceAt(k), Begin(k), Reach(k))
           /\ HasArgs(PieceAt(k), Reach(k), ArgsBefore(k)) /\ ArgsBefore(k) \in Nat
           /\ CharAt(Begin(k) + 1) = "%"
           /\ Reach(k) = LetterAt(PieceAt(k)) =>
                /\ k \in 1..Count /\ k + 1 \in 1..(Count + 1) /\ PieceAt(k) = input.items[k]
                /\ Begin(k + 1) = Begin(k) + LetterAt(PieceAt(k))
                /\ ArgsBefore(k + 1) = ArgsBefore(k) + Len(ArgsOf(PieceAt(k)))
           /\ Reach(k) < LetterAt(PieceAt(k)) => k = Count + 1
<1>1. Count \in Nat /\ k \in 1..(Count + 1) /\ (input.tail = <<>> => k \in 1..Count)
  BY FormatIs DEF PieceCount
<1>2. CASE k \in 1..Count
  <2>1. PieceAt(k) = input.items[k]
    BY <1>1, <1>2 DEF PieceAt
  <2> DEFINE e == input.items[k]
  <2>2. /\ Piece(e) /\ Reach(k) = LetterAt(e)
        /\ Spelled(e, Begin(k), Reach(k))
        /\ HasArgs(e, Reach(k), ArgsBefore(k))
        /\ CharAt(Begin(k) + 1) = "%"
    BY <1>2, <2>1, ItemPiece
  <2>3. /\ ArgsBefore(k) \in Nat
        /\ Begin(k + 1) = Begin(k) + Len(Spell(e))
        /\ ArgsBefore(k + 1) = ArgsBefore(k) + Len(ArgsOf(e))
    BY <1>2, BeginsAre
  <2>4. Len(Spell(e)) = LetterAt(e)
    BY <2>2, SpellIs
  <2>5. k + 1 \in 1..(Count + 1)
    BY <1>1, <1>2
  <2>6. ~(Reach(k) < LetterAt(e))
    <3>1. LetterAt(e) \in Nat
      BY <2>2, PartsAre
    <3>. QED
      BY <2>2, <3>1
  <2> HIDE DEF e
  <2>. QED
    BY <1>2, <2>1, <2>2, <2>3, <2>4, <2>5, <2>6, Zenon DEF e
<1>3. CASE k = Count + 1 /\ input.tail # <<>>
  <2>1. PieceAt(k) = CutItem(input.tail) /\ Reach(k) = Len(input.tail)
    BY <1>1, <1>3 DEF PieceAt, Reach
  <2> DEFINE e == PieceAt(k)
  <2>2. /\ Piece(e) /\ e.conv # "text"
        /\ Spelled(e, Begin(k), Reach(k)) /\ Reach(k) < LetterAt(e)
        /\ CharAt(Begin(k) + 1) = "%"
    BY <1>3, <2>1, TailPiece
  <2>3. Reach(k) # LetterAt(e)
    <3>1. LetterAt(e) \in Nat
      BY <2>2, PartsAre
    <3>. QED
      BY <2>2, <3>1
  <2>4. HasArgs(e, Reach(k), ArgsBefore(k))
    BY <2>3 DEF HasArgs
  <2>5. ArgsBefore(k) \in Nat
    BY <1>3, FormatIs
  <2> HIDE DEF e
  <2>. QED
    BY <1>3, <2>2, <2>3, <2>4, <2>5, Zenon DEF e
<1>. QED
  BY <1>1, <1>2, <1>3

\* What the loop meets between two pieces.
LEMMA NextIs ==
    ASSUME Called, NEW k \in 1..(Count + 1)
    PROVE  /\ CharAt(Begin(k) + 1) = "%" => k \in 1..PieceCount /\ PieceAt(k).conv # "text"
           /\ CharAt(Begin(k) + 1) = NUL => k = Count + 1
           /\ CharAt(Begin(k) + 1) \notin {"%", NUL} =>
                /\ k \in 1..Count /\ input.items[k].conv = "text"
                /\ CharAt(Begin(k) + 1) = input.items[k].arg
                /\ k + 1 \in 1..(Count + 1) /\ Begin(k + 1) = Begin(k) + 1
                /\ ArgsBefore(k + 1) = ArgsBefore(k)
           /\ ArgsBefore(k) \in Nat /\ Begin(k) \in Nat
<1> DEFINE c == CharAt(Begin(k) + 1)
<1>1. Count \in Nat
  BY FormatIs
<1>2. NUL # "%"
  BY DEF NUL
<1>3. CASE k \in 1..Count /\ input.items[k].conv # "text"
  <2>1. c = "%"
    BY <1>3, ItemPiece
  <2>2. k \in 1..PieceCount /\ PieceAt(k) = input.items[k]
    BY <1>1, <1>3 DEF PieceCount, PieceAt
  <2>3. ArgsBefore(k) \in Nat /\ Begin(k) \in Nat
    BY <1>3, BeginsAre
  <2>. QED
    BY <1>2, <1>3, <2>1, <2>2, <2>3
<1>4. CASE k \in 1..Count /\ input.items[k].conv = "text"
  <2> DEFINE e == input.items[k]
  <2>1. /\ Len(Spell(e)) = 1 /\ Spell(e)[1] = e.arg /\ e.arg \notin {"%", NUL} /\ ArgsOf(e) = <<>>
    BY <1>4, ItemsAre, TextIs
  <2>2. fmt[Begin(k) + 1] = e.arg /\ Begin(k) + 1 \in 1..Begin(Count + 1)
    <3>1. 1 \in 1..1
      OBVIOUS
    <3>. QED
      BY <1>4, <2>1, <3>1, ItemChars
  <2>3. /\ ArgsBefore(k) \in Nat /\ Begin(k) \in Nat /\ Begin(k + 1) = Begin(k) + Len(Spell(e))
        /\ ArgsBefore(k + 1) = ArgsBefore(k) + Len(ArgsOf(e))
    BY <1>4, BeginsAre
  <2>4. Len(ArgsOf(e)) = 0
    BY <2>1
  <2> HIDE DEF e
  <2>5. Begin(k + 1) = Begin(k) + 1 /\ ArgsBefore(k + 1) = ArgsBefore(k)
    BY <2>1, <2>3, <2>4
  <2>6. Begin(k) + 1 <= Len(fmt)
    <3>1. /\ Begin(Count + 1) \in Nat /\ Len(input.tail) \in Nat
          /\ Len(fmt) = Begin(Count + 1) + Len(input.tail)
      BY FormatIs DEF Joined
    <3>. QED
      BY <2>2, <2>3, <3>1
  <2>7. c = e.arg
    BY <2>2, <2>6 DEF CharAt
  <2>8. k + 1 \in 1..(Count + 1)
    BY <1>1, <1>4
  <2>. QED
    BY <1>4, <2>1, <2>3, <2>5, <2>7, <2>8 DEF e
<1>5. CASE k = Count + 1 /\ input.tail = <<>>
  <2>1. /\ Begin(k) \in Nat /\ Len(fmt) = Begin(k) + Len(input.tail) /\ ArgsBefore(k) \in Nat
    BY <1>5, FormatIs DEF Joined
  <2>2. Len(input.tail) = 0
    BY <1>5
  <2>3. ~(Begin(k) + 1 <= Len(fmt))
    BY <2>1, <2>2
  <2>4. c = NUL
    BY <2>3 DEF CharAt
  <2>. QED
    BY <1>2, <1>5, <2>1, <2>4
<1>6. CASE k = Count + 1 /\ input.tail # <<>>
  <2>1. c = "%"
    BY <1>6, TailPiece
  <2>2. k \in 1..PieceCount
    BY <1>1, <1>6 DEF PieceCount
  <2>3. PieceAt(k).conv # "text"
    <3>1. PieceAt(k) = CutItem(input.tail)
      BY <1>1, <1>6 DEF PieceAt
    <3>. QED
      BY <1>6, <3>1, TailPiece
  <2>4. Begin(k) \in Nat /\ ArgsBefore(k) \in Nat
    BY <1>6, FormatIs
  <2>. QED
    BY <1>2, <2>1, <2>2, <2>3, <2>4
<1>7. k \in 1..Count \/ k = Count + 1
  BY <1>1
<1>. QED
  BY <1>3, <1>4, <1>5, <1>6, <1>7

-----------------------------------------------------------------------------
(* Every step of format_string_loop leads on in the format.                *)

\* Nothing moves while the call is the same.
LEMMA Stays ==
    ASSUME UNCHANGED callVars
    PROVE  /\ Called => Called'
           /\ Count' = Count /\ PieceCount' = PieceCount
<1>1. input' = input /\ fmt' = fmt /\ args' = args
  BY DEF callVars
<1>2. Called => Called'
  BY <1>1 DEF Called, Format, Args
<1>3. Count' = Count /\ PieceCount' = PieceCount
  BY <1>1 DEF Count, PieceCount
<1>. QED
  BY <1>2, <1>3

\* The same of each place.
LEMMA StaysAt ==
    ASSUME UNCHANGED callVars, NEW k
    PROVE  /\ PieceAt(k)' = PieceAt(k) /\ Begin(k)' = Begin(k) /\ Reach(k)' = Reach(k)
           /\ ArgsBefore(k)' = ArgsBefore(k)
<1>1. input' = input /\ fmt' = fmt /\ args' = args
  BY DEF callVars
<1>2. Count' = Count
  BY Stays
<1>3. Spellings' = Spellings /\ ArgLists' = ArgLists
  BY <1>1 DEF Spellings, ArgLists
<1>4. PieceAt(k)' = PieceAt(k) /\ Reach(k)' = Reach(k)
  BY <1>1, <1>2 DEF PieceAt, Reach
<1>5. Begin(k)' = Begin(k) /\ ArgsBefore(k)' = ArgsBefore(k)
  BY <1>3 DEF Begin, ArgsBefore
<1>. QED
  BY <1>4, <1>5

\* Where a step within a conversion, or to its end, leads.
LEMMA Lands ==
    ASSUME Called, NEW k \in 1..PieceCount, PieceAt(k).conv # "text",
           NEW e, e = PieceAt(k), NEW b, b = Begin(k), NEW r, r = Reach(k), NEW n, n = ArgsBefore(k),
           UNCHANGED callVars,
           \/ Within(e, b, r, n)'
           \/ phase' = "end" /\ r < LetterAt(e) /\ Len(taken') = n
    PROVE  Standing(k)'
<1>1. PieceCount' = PieceCount /\ Count' = Count
  BY Stays
<1>2. PieceAt(k)' = e /\ Begin(k)' = b /\ Reach(k)' = r /\ ArgsBefore(k)' = n
  BY StaysAt
<1>3. CASE Within(e, b, r, n)'
  <2>1. phase' \in {"flags", "width", "width_digits", "precision", "precision_digits", "length", "specifier"}
    BY <1>3 DEF Within
  <2>2. Within(PieceAt(k), Begin(k), Reach(k), ArgsBefore(k))'
    BY <1>2, <1>3
  <2>3. PieceAt(k)'.conv # "text"
    BY <1>2
  <2>4. Amid(k)'
    BY <1>1, <2>2, <2>3 DEF Amid
  <2>. QED
    BY <2>1, <2>4 DEF Standing
<1>4. CASE phase' = "end" /\ r < LetterAt(e) /\ Len(taken') = n
  <2>1. k = Count + 1
    BY <1>4, PieceIs
  <2>. QED
    BY <1>1, <1>2, <1>4, <2>1 DEF Standing
<1>. QED
  BY <1>3, <1>4

\* The steps within a conversion, up to its letter.
Part ==
    \/ parse_flags
    \/ Width \/ WidthArgument \/ atou_("width_digits", "width", "precision")
    \/ NoPrecision
    \/ Precision \/ PrecisionArgument \/ atou_("precision_digits", "precision", "length")
    \/ Length

\* They print nothing.
LEMMA PartSame == Part => UNCHANGED callVars /\ given' = given
  BY DEF Part, parse_flags, Width, WidthArgument, atou_, NoPrecision, Precision, PrecisionArgument,
         Length, outVars

\* They stay with the conversion, or end with the format.
LEMMA PartStep ==
    ASSUME Called, NEW k \in 1..(Count + 1), Standing(k), taken \in Seq(Types), Part
    PROVE  Standing(k)' /\ Took
<1>0. phase \in {"flags", "width", "width_digits", "precision", "precision_digits", "length"}
  BY DEF Part, parse_flags, Width, WidthArgument, atou_, NoPrecision, Precision, PrecisionArgument, Length
<1>1. Amid(k)
  BY <1>0 DEF Standing
<1>2. k \in 1..PieceCount /\ PieceAt(k).conv # "text"
  BY <1>1 DEF Amid
<1>3. PICK e, b, r, n : e = PieceAt(k) /\ b = Begin(k) /\ r = Reach(k) /\ n = ArgsBefore(k)
  OBVIOUS
<1>4. Within(e, b, r, n)
  BY <1>1, <1>3 DEF Amid
<1>5. Piece(e) /\ Spelled(e, b, r) /\ HasArgs(e, r, n) /\ n \in Nat
  BY <1>2, <1>3, PieceIs
<1>6. UNCHANGED callVars
  BY PartSame
<1>7. SUFFICES /\ \/ Within(e, b, r, n)'
                  \/ phase' = "end" /\ r < LetterAt(e) /\ Len(taken') = n
               /\ Took
  BY <1>2, <1>3, <1>6, Lands
<1>8. CASE parse_flags
  <2>1. phase = "flags"
    BY <1>8 DEF parse_flags
  <2>2. InFlags(e, b, r, n)
    BY <1>4, <2>1 DEF Within
  <2>3. taken' = taken
    BY <1>8 DEF parse_flags
  <2>4. Within(e, b, r, n)'
    BY <1>5, <1>8, <2>2, FlagsStep DEF Within
  <2>. QED
    BY <2>3, <2>4 DEF Took
<1>9. CASE Width
  <2>1. phase = "width"
    BY <1>9 DEF Width
  <2>2. AtWidth(e, b, r, n)
    BY <1>4, <2>1 DEF Within
  <2>3. taken' = taken
    BY <1>9 DEF Width
  <2>4. Within(e, b, r, n)'
    BY <1>5, <1>9, <2>2, WidthStep DEF Within
  <2>. QED
    BY <2>3, <2>4 DEF Took
<1>10. CASE WidthArgument
  <2>1. phase = "width"
    BY <1>10 DEF WidthArgument
  <2>2. AtWidth(e, b, r, n)
    BY <1>4, <2>1 DEF Within
  <2>3. Within(e, b, r, n)'
    BY <1>5, <1>10, <2>2, WidthArgumentStep DEF Within
  <2>4. Fetches("int", e.width.value) /\ taken' = Append(taken, "int")
    BY <1>5, <1>10, <2>2, WidthArgumentStep
  <2>5. Took
    BY <2>4 DEF Took, Types
  <2>. QED
    BY <2>3, <2>5
<1>11. CASE atou_("width_digits", "width", "precision")
  <2>1. phase = "width_digits"
    BY <1>11 DEF atou_
  <2>2. InWidth(e, b, r, n)
    BY <1>4, <2>1 DEF Within
  <2>3. taken' = taken
    BY <1>11 DEF atou_
  <2>4. Within(e, b, r, n)'
    BY <1>5, <1>11, <2>2, WidthDigitsStep DEF Within
  <2>. QED
    BY <2>3, <2>4 DEF Took
<1>12. CASE NoPrecision
  <2>1. phase = "precision"
    BY <1>12 DEF NoPrecision
  <2>2. AtPrecision(e, b, r, n)
    BY <1>4, <2>1 DEF Within
  <2>3. taken' = taken
    BY <1>12 DEF NoPrecision
  <2>4. Within(e, b, r, n)'
    BY <1>5, <1>12, <2>2, NoPrecisionStep DEF Within
  <2>. QED
    BY <2>3, <2>4 DEF Took
<1>13. CASE Precision
  <2>1. phase = "precision"
    BY <1>13 DEF Precision
  <2>2. AtPrecision(e, b, r, n)
    BY <1>4, <2>1 DEF Within
  <2>3. taken' = taken
    BY <1>13 DEF Precision
  <2>4. Within(e, b, r, n)' \/ (phase' = "end" /\ r < LetterAt(e) /\ Len(taken') = n)
    BY <1>5, <1>13, <2>2, PrecisionStep DEF Within
  <2>. QED
    BY <2>3, <2>4 DEF Took
<1>14. CASE PrecisionArgument
  <2>1. phase = "precision"
    BY <1>14 DEF PrecisionArgument
  <2>2. AtPrecision(e, b, r, n)
    BY <1>4, <2>1 DEF Within
  <2>3. Within(e, b, r, n)'
    BY <1>5, <1>14, <2>2, PrecisionArgumentStep DEF Within
  <2>4. Fetches("int", e.precision.value) /\ taken' = Append(taken, "int")
    BY <1>5, <1>14, <2>2, PrecisionArgumentStep
  <2>5. Took
    BY <2>4 DEF Took, Types
  <2>. QED
    BY <2>3, <2>5
<1>15. CASE atou_("precision_digits", "precision", "length")
  <2>1. phase = "precision_digits"
    BY <1>15 DEF atou_
  <2>2. InPrecision(e, b, r, n)
    BY <1>4, <2>1 DEF Within
  <2>3. taken' = taken
    BY <1>15 DEF atou_
  <2>4. Within(e, b, r, n)'
    BY <1>5, <1>15, <2>2, PrecisionDigitsStep DEF Within
  <2>. QED
    BY <2>3, <2>4 DEF Took
<1>16. CASE Length
  <2>1. phase = "length"
    BY <1>16 DEF Length
  <2>2. AtLength(e, b, r, n)
    BY <1>4, <2>1 DEF Within
  <2>3. taken' = taken
    BY <1>16 DEF Length
  <2>4. Within(e, b, r, n)' \/ (phase' = "end" /\ r < LetterAt(e) /\ Len(taken') = n)
    BY <1>5, <1>16, <2>2, LengthStep DEF Within
  <2>. QED
    BY <2>3, <2>4 DEF Took
<1>. QED
  BY <1>8, <1>9, <1>10, <1>11, <1>12, <1>13, <1>14, <1>15, <1>16 DEF Part

Letter == Integer \/ Character \/ String \/ Pointer \/ OtherSpecifier

\* They leave the call alone.
LEMMA LetterSame == Letter => UNCHANGED callVars /\ phase = "specifier"
  BY DEF Letter, Integer, Character, String, Pointer, OtherSpecifier, Finish

\* The letter of a conversion leads to the front of the next piece.
LEMMA LetterLeads ==
    ASSUME Called, NEW k \in 1..(Count + 1), Standing(k), taken \in Seq(Types), Letter
    PROVE  /\ k \in 1..Count /\ k + 1 \in 1..(Count + 1) /\ input.items[k].conv # "text"
           /\ AtLetter(input.items[k], Begin(k), Reach(k), ArgsBefore(k))
           /\ Standing(k + 1)' /\ Took
<1>1. UNCHANGED callVars /\ phase = "specifier"
  BY LetterSame
<1>2. Amid(k)
  BY <1>1 DEF Standing
<1>3. k \in 1..PieceCount /\ PieceAt(k).conv # "text"
  BY <1>2 DEF Amid
<1>4. PICK e, b, r, n : e = PieceAt(k) /\ b = Begin(k) /\ r = Reach(k) /\ n = ArgsBefore(k)
  OBVIOUS
<1>5. AtLetter(e, b, r, n)
  BY <1>1, <1>2, <1>4 DEF Amid, Within
<1>6. Piece(e) /\ Spelled(e, b, r) /\ HasArgs(e, r, n) /\ n \in Nat
  BY <1>3, <1>4, PieceIs
<1>7. BehindIt(e, b, n)' /\ Took
  BY <1>5, <1>6, LetterStep DEF Letter
<1>8. r = LetterAt(e)
  BY <1>5 DEF AtLetter
<1>9. /\ k \in 1..Count /\ k + 1 \in 1..(Count + 1) /\ e = input.items[k]
      /\ Begin(k + 1) = b + LetterAt(e)
      /\ ArgsBefore(k + 1) = n + Len(ArgsOf(e))
  BY <1>3, <1>4, <1>8, PieceIs
<1>10. Begin(k + 1)' = Begin(k + 1) /\ ArgsBefore(k + 1)' = ArgsBefore(k + 1)
  BY <1>1, StaysAt
<1>11. phase' = "text" /\ at' = b + LetterAt(e) + 1 /\ Len(taken') = n + Len(ArgsOf(e))
  BY <1>7 DEF BehindIt
<1>12. InFront(k + 1)'
  BY <1>9, <1>10, <1>11 DEF InFront
<1>13. Standing(k + 1)'
  BY <1>11, <1>12 DEF Standing
<1>. QED
  BY <1>3, <1>4, <1>5, <1>7, <1>9, <1>13

\* A character that is text is a piece.
LEMMA TextLeads ==
    ASSUME Called, NEW k \in 1..(Count + 1), Standing(k), Text
    PROVE  /\ k \in 1..Count /\ k + 1 \in 1..(Count + 1) /\ input.items[k].conv = "text"
           /\ CharAt(at) = input.items[k].arg
           /\ Standing(k + 1)' /\ Took
<1>1. UNCHANGED callVars /\ phase = "text" /\ phase' = "text" /\ CharAt(at) \notin {"%", NUL}
      /\ at' = at + 1 /\ taken' = taken
  BY DEF Text
<1>2. at = Begin(k) + 1 /\ Len(taken) = ArgsBefore(k)
  BY <1>1 DEF Standing, InFront
<1>3. /\ k \in 1..Count /\ input.items[k].conv = "text"
      /\ CharAt(at) = input.items[k].arg
      /\ k + 1 \in 1..(Count + 1) /\ Begin(k + 1) = Begin(k) + 1
      /\ ArgsBefore(k + 1) = ArgsBefore(k) /\ Begin(k) \in Nat
  BY <1>1, <1>2, NextIs
<1>4. Begin(k + 1)' = Begin(k + 1) /\ ArgsBefore(k + 1)' = ArgsBefore(k + 1)
  BY <1>1, StaysAt
<1>5. at' = Begin(k + 1) + 1 /\ Len(taken') = ArgsBefore(k + 1)
  BY <1>1, <1>2, <1>3
<1>6. InFront(k + 1)'
  BY <1>4, <1>5 DEF InFront
<1>7. Standing(k + 1)'
  BY <1>1, <1>6 DEF Standing
<1>8. Took
  BY <1>1 DEF Took
<1>. QED
  BY <1>3, <1>7, <1>8

\* A '%' leads into the piece it begins.
LEMMA StartLeads ==
    ASSUME Called, NEW k \in 1..(Count + 1), Standing(k), StartSpec
    PROVE  Standing(k)' /\ Took
<1>1. UNCHANGED callVars /\ phase = "text" /\ CharAt(at) = "%" /\ taken' = taken
  BY DEF StartSpec
<1>2. at = Begin(k) + 1 /\ Len(taken) = ArgsBefore(k)
  BY <1>1 DEF Standing, InFront
<1>3. k \in 1..PieceCount /\ PieceAt(k).conv # "text"
  BY <1>1, <1>2, NextIs
<1>4. PICK e, b, r, n : e = PieceAt(k) /\ b = Begin(k) /\ r = Reach(k) /\ n = ArgsBefore(k)
  OBVIOUS
<1>5. Piece(e) /\ Spelled(e, b, r) /\ n \in Nat
  BY <1>3, <1>4, PieceIs
<1>6. \/ phase' = "flags" /\ InFlags(e, b, r, n)'
      \/ phase' = "end" /\ r < LetterAt(e) /\ Len(taken') = n
  BY <1>2, <1>4, <1>5, StartStep
<1>7. \/ Within(e, b, r, n)'
      \/ phase' = "end" /\ r < LetterAt(e) /\ Len(taken') = n
  BY <1>6 DEF Within
<1>8. Standing(k)'
  BY <1>1, <1>3, <1>4, <1>7, Lands
<1>9. Took
  BY <1>1 DEF Took
<1>. QED
  BY <1>8, <1>9

\* The end of the format is behind its last item.
LEMMA EndLeads ==
    ASSUME Called, NEW k \in 1..(Count + 1), Standing(k), EndOfText \/ Return
    PROVE  Standing(k)' /\ Took
<1>1. UNCHANGED callVars /\ phase \in {"text", "end"} /\ phase' \in {"end", "done"} /\ taken' = taken
  BY DEF EndOfText, Return
<1>2. Begin(k)' = Begin(k) /\ ArgsBefore(k)' = ArgsBefore(k) /\ Count' = Count
  BY <1>1, Stays, StaysAt
<1>3. k = Count + 1 /\ Len(taken) = ArgsBefore(k)
  <2>1. CASE EndOfText
    <3>1. phase = "text" /\ CharAt(at) = NUL
      BY <2>1 DEF EndOfText
    <3>2. at = Begin(k) + 1 /\ Len(taken) = ArgsBefore(k)
      BY <3>1 DEF Standing, InFront
    <3>. QED
      BY <3>1, <3>2, NextIs
  <2>2. CASE Return
    BY <2>2 DEF Return, Standing
  <2>. QED
    BY <2>1, <2>2
<1>4. Standing(k)'
  BY <1>1, <1>2, <1>3 DEF Standing
<1>5. Took
  BY <1>1 DEF Took
<1>. QED
  BY <1>4, <1>5

\* The steps by where they lead.
LEMMA NextCases ==
    ASSUME Next
    PROVE  Part \/ Letter \/ Text \/ StartSpec \/ EndOfText \/ Return
  BY DEF Next, Part, Letter

\* No step changes the call.
LEMMA CallStays == [Next]_vars => UNCHANGED callVars
  BY NextCases, PartSame, LetterSame
     DEF Text, StartSpec, EndOfText, Return, vars, callVars

\* A step that changes nothing changes nothing of that.
LEMMA StandingStays ==
    ASSUME Called, NEW k \in 1..(Count + 1), Standing(k), UNCHANGED vars
    PROVE  Standing(k)'
<1>1. UNCHANGED callVars
  BY DEF vars, callVars
<1>2. /\ phase' = phase /\ at' = at /\ taken' = taken /\ spec' = spec
  BY DEF vars
<1>3. Count' = Count /\ PieceCount' = PieceCount /\ PieceAt(k)' = PieceAt(k) /\ Begin(k)' = Begin(k)
      /\ Reach(k)' = Reach(k) /\ ArgsBefore(k)' = ArgsBefore(k)
  BY <1>1, Stays, StaysAt
<1>4. InFront(k)' = InFront(k)
  BY <1>2, <1>3 DEF InFront
<1>5. PICK e, b, r, n : e = PieceAt(k) /\ b = Begin(k) /\ r = Reach(k) /\ n = ArgsBefore(k)
  OBVIOUS
<1>6. Within(e, b, r, n)' = Within(e, b, r, n)
  BY <1>2 DEF Within, InFlags, AtWidth, InWidth, AtPrecision, InPrecision, AtLength, AtLetter
<1>7. Amid(k)' = Amid(k)
  BY <1>3, <1>5, <1>6 DEF Amid
<1>. QED
  BY <1>2, <1>3, <1>4, <1>7 DEF Standing

\* Every step leads on in the format, and asks for the next argument if for any.
LEMMA PlaceKeeps ==
    ASSUME Called, Place, taken \in Seq(Types), [Next]_vars
    PROVE  Place' /\ Took
<1>1. PICK k \in 1..(Count + 1) : Standing(k)
  BY DEF Place
<1>2. UNCHANGED callVars
  BY CallStays
<1>3. Count' = Count
  BY <1>2, Stays
<1>4. SUFFICES Took /\ \E m \in 1..(Count + 1) : Standing(m)'
  BY <1>3 DEF Place
<1>5. CASE Part
  BY <1>1, <1>5, PartStep
<1>6. CASE Letter
  BY <1>1, <1>6, LetterLeads
<1>7. CASE Text
  BY <1>1, <1>7, TextLeads
<1>8. CASE StartSpec
  BY <1>1, <1>8, StartLeads
<1>9. CASE EndOfText \/ Return
  BY <1>1, <1>9, EndLeads
<1>10. CASE UNCHANGED vars
  <2>1. taken' = taken
    BY <1>10 DEF vars
  <2>2. Standing(k)'
    BY <1>1, <1>10, StandingStays
  <2>3. Took
    BY <2>1 DEF Took
  <2>. QED
    BY <1>1, <2>2, <2>3
<1>. QED
  BY <1>5, <1>6, <1>7, <1>8, <1>9, <1>10, NextCases

\* The arguments taken so far are the first of those given.
Matches ==
    /\ taken \in Seq(Types) /\ Len(taken) <= Len(args)
    /\ \A i \in DOMAIN taken : taken[i] = args[i].type

\* An argument that was taken as what it is is one of those given.
LEMMA TookMatches ==
    ASSUME Matches, Took, args' = args
    PROVE  Matches'
<1>1. CASE taken' = taken
  BY <1>1 DEF Matches
<1>2. ASSUME NEW type \in Types, NEW value, Fetches(type, value), taken' = Append(taken, type)
      PROVE  Matches'
  <2>1. /\ taken \in Seq(Types) /\ Len(taken) < Len(args)
        /\ args[Len(taken) + 1].type = type
    BY <1>2 DEF Matches, Fetches
  <2>2. /\ taken' \in Seq(Types) /\ Len(taken') = Len(taken) + 1 /\ Len(taken) \in Nat
        /\ \A i \in 1..Len(taken) : taken'[i] = taken[i]
        /\ taken'[Len(taken) + 1] = type
    BY <1>2, <2>1
  <2>3. \A i \in 1..Len(taken) : taken[i] = args[i].type
    BY <2>1 DEF Matches
  <2>4. \A i \in 1..Len(taken') : i \in 1..Len(taken) \/ i = Len(taken) + 1
    BY <2>2
  <2>5. ASSUME NEW i \in 1..Len(taken')
        PROVE  taken'[i] = args[i].type
    <3>1. CASE i \in 1..Len(taken)
      BY <2>2, <2>3, <3>1
    <3>2. CASE i = Len(taken) + 1
      BY <2>1, <2>2, <3>2, Zenon
    <3>. QED
      BY <2>4, <3>1, <3>2
  <2>6. DOMAIN taken' = 1..Len(taken')
    BY <2>2
  <2>7. Len(taken') <= Len(args)
    BY <2>1, <2>2
  <2>. QED
    BY <1>2, <2>2, <2>5, <2>6, <2>7 DEF Matches
<1>. QED
  BY <1>1, <1>2 DEF Took

-----------------------------------------------------------------------------
(* The types of the rest of the state.                                     *)

\* The types of what is not tied to a place in the format.
Sizes == {"CHAR", "SHORT", "LONG", "LONG_LONG"}
Phases == {"text", "flags", "width", "width_digits", "precision", "precision_digits",
           "length", "specifier", "end", "done"}
Typed ==
    /\ at \in Nat \ {0} /\ phase \in Phases
    /\ spec.flags \subseteq Flags /\ spec.size \subseteq Sizes
    /\ number \subseteq Call /\ ret \in Nat \cup {-1}

\* The flags by their characters, whatever the character for a blank.
LEMMA FlagIs ==
    ASSUME NEW blank
    PROVE  \A c \in {"0", "-", "+", blank, "#"} :
             (CASE c = "0" -> "ZEROPAD" [] c = "-" -> "LEFT" [] c = "+" -> "PLUS"
                [] c = blank -> "SPACE" [] c = "#" -> "HASH") \in Flags
  BY DEF Flags

\* Every flag is one that the conversions know.
LEMMA FlagsAre == \A c \in DOMAIN FlagOf : FlagOf[c] \in Flags
<1>1. \A c \in {"0", "-", "+", " ", "#"} :
         FlagOf[c] = CASE c = "0" -> "ZEROPAD" [] c = "-" -> "LEFT" [] c = "+" -> "PLUS"
                       [] c = " " -> "SPACE" [] c = "#" -> "HASH"
  BY Zenon DEF FlagOf
<1>2. \A c \in {"0", "-", "+", " ", "#"} :
         (CASE c = "0" -> "ZEROPAD" [] c = "-" -> "LEFT" [] c = "+" -> "PLUS"
            [] c = " " -> "SPACE" [] c = "#" -> "HASH") \in Flags
  BY FlagIs, Zenon
<1>3. \A c \in {"0", "-", "+", " ", "#"} : FlagOf[c] \in Flags
  BY <1>1, <1>2, Zenon
<1>. QED
  BY <1>3, FlagCharsAre, Zenon

\* What the conversions compute with.
LEMMA UnsignedIs == \A v \in Int : \A bits \in Nat : Unsigned(v, bits) \in Nat
<1> SUFFICES ASSUME NEW v \in Int, NEW bits \in Nat PROVE Unsigned(v, bits) \in Nat
  OBVIOUS
<1> DEFINE p == Power(2, bits)
<1>1. p \in Nat \ {0}
  BY PowerType
<1> HIDE DEF p
<1>2. v % p \in Nat
  BY <1>1
<1>. QED
  BY <1>2 DEF Unsigned, p

\* A signed value is an integer.
LEMMA SignedIs == \A v \in Int : \A bits \in Nat : SignedOf(v, bits) \in Int
<1> SUFFICES ASSUME NEW v \in Int, NEW bits \in Nat PROVE SignedOf(v, bits) \in Int
  OBVIOUS
<1> DEFINE p == Power(2, bits)
           q == Power(2, bits - 1)
           u == Unsigned(v, bits)
<1>1. p \in Nat
  BY PowerType
<1>2. u \in Nat
  BY UnsignedIs
<1>3. SignedOf(v, bits) = IF u < q THEN u ELSE u - p
  BY DEF SignedOf
<1> HIDE DEF p, q, u
<1>. QED
  BY <1>1, <1>2, <1>3

\* The width of an argument.
LEMMA ArgBitsIs == ArgBits \in Nat
  BY WidthsAssumption, BitsAssumption DEF ArgBits

\* va_arg yields something of the kind, and every call that is recorded is a Call.
LEMMA VaArgIs == \A type, kind : va_arg(type, kind) \subseteq kind
  BY DEF va_arg

\* A record of these parts is a call of print_integer.
LEMMA CallIs ==
    ASSUME NEW value \in Nat, NEW negative \in BOOLEAN, NEW base \in {2, 8, 10, 16},
           NEW precision \in Nat, NEW width \in Nat, NEW flags \in SUBSET Flags
    PROVE  [value |-> value, negative |-> negative, base |-> base, precision |-> precision,
            width |-> width, flags |-> flags] \in Call
  BY DEF Call

\* The bases there are.
LEMMA BaseIs == \A char : BaseOf(char) \in {2, 8, 10, 16}
  BY DEF BaseOf

\* The call an integer conversion makes.
LEMMA IntegerCall ==
    ASSUME Typed, spec.width \in Nat, spec.precision \in Nat, Integer
    PROVE  number' \subseteq Call
<1>1. PICK type, arg, value, c :
        /\ arg \in va_arg(type, Int)
        /\ value = IF CharAt(at) \in {"d", "i"} THEN SignedOf(arg, ArgBits)
                   ELSE Unsigned(arg, ArgBits)
        /\ c = [value |-> Abs(value), negative |-> value < 0,
                base |-> BaseOf(CharAt(at)), precision |-> spec.precision,
                width |-> spec.width, flags |-> IntegerFlags(CharAt(at))]
        /\ number' = {c}
  BY DEF Integer
<1>2. arg \in Int
  BY <1>1, VaArgIs
<1>3. value \in Int
  <2>1. SignedOf(arg, ArgBits) \in Int
    BY <1>2, ArgBitsIs, SignedIs
  <2>2. Unsigned(arg, ArgBits) \in Nat
    BY <1>2, ArgBitsIs, UnsignedIs
  <2>. QED
    BY <1>1, <2>1, <2>2
<1>4. Abs(value) \in Nat
  BY <1>3, AbsIs
<1>5. IntegerFlags(CharAt(at)) \in SUBSET Flags
  BY DEF Typed, IntegerFlags
<1>6. BaseOf(CharAt(at)) \in {2, 8, 10, 16}
  BY BaseIs
<1>7. (value < 0) \in BOOLEAN
  BY <1>3
<1>8. c \in Call
  BY <1>1, <1>4, <1>5, <1>6, <1>7, CallIs
<1>. QED
  BY <1>1, <1>8

\* The call "%p" makes.
LEMMA PointerNumber ==
    ASSUME Typed, spec.width \in Nat, spec.precision \in Nat, Pointer
    PROVE  number' \subseteq Call
<1>1. PICK value, c :
        /\ value \in Nat
        /\ c = [value |-> value, negative |-> FALSE, base |-> 16,
                precision |-> spec.precision, width |-> PointerWidth,
                flags |-> spec.flags \cup {"ZEROPAD", "POINTER"}]
        /\ number' = IF value = 0 THEN number ELSE {c}
  BY VaArgIs DEF Pointer
<1>2. spec.flags \cup {"ZEROPAD", "POINTER"} \in SUBSET Flags
  BY DEF Typed, Flags
<1>3. PointerWidth \in Nat
  BY WidthsAssumption
<1>4. c \in Call
  BY <1>1, <1>2, <1>3, CallIs
<1>. QED
  BY <1>1, <1>4 DEF Typed

\* The record spec, and the count that is returned.
Formed ==
    /\ spec = [flags |-> spec.flags, width |-> spec.width,
               precision |-> spec.precision, size |-> spec.size]
    /\ spec.width \in Nat /\ spec.precision \in Nat /\ pos \in Nat

\* The types, within a conversion.
LEMMA PartTyped ==
    ASSUME Called, Place, Typed, Formed, Part
    PROVE  Typed'
<1>1. number' = number /\ ret' = ret
  BY DEF Part, parse_flags, Width, WidthArgument, atou_, NoPrecision, Precision, PrecisionArgument,
         Length, outVars
<1>2. SUFFICES /\ at' \in Nat \ {0} /\ phase' \in Phases
               /\ spec'.flags \subseteq Flags /\ spec'.size \subseteq Sizes
  BY <1>1 DEF Typed
<1>3. CASE parse_flags
  <2>1. CASE CharAt(at) \in DOMAIN FlagOf
    <3> DEFINE f == FlagOf[CharAt(at)]
    <3>1. f \in Flags
      BY <2>1, FlagsAre
    <3>2. spec' = [spec EXCEPT !.flags = @ \cup {f}] /\ at' = at + 1 /\ phase' = phase
      BY <1>3, <2>1 DEF parse_flags
    <3> HIDE DEF f
    <3>. QED
      BY <3>1, <3>2 DEF Typed, Formed
  <2>2. CASE CharAt(at) \notin DOMAIN FlagOf
    <3>1. phase' = "width" /\ at' = at /\ spec' = spec
      BY <1>3, <2>2 DEF parse_flags
    <3>. QED
      BY <3>1 DEF Typed, Phases
  <2>. QED
    BY <2>1, <2>2
<1>4. CASE Width \/ NoPrecision
  BY <1>4 DEF Width, NoPrecision, Typed, Phases
<1>5. CASE WidthArgument
  <2>1. PICK w : spec' = [spec EXCEPT !.width = Abs(w),
                                      !.flags = IF w < 0 THEN @ \cup {"LEFT"} ELSE @]
    BY <1>5 DEF WidthArgument
  <2>2. at' = at + 1 /\ phase' \in {"end", "precision"}
    BY <1>5 DEF WidthArgument, AdvanceTo
  <2>3. spec'.flags \subseteq Flags /\ spec'.size = spec.size
    <3>1. spec'.flags \subseteq spec.flags \cup {"LEFT"} /\ spec'.size = spec.size
      BY <2>1 DEF Formed
    <3>. QED
      BY <3>1 DEF Typed, Flags
  <2>. QED
    BY <2>2, <2>3 DEF Typed, Phases
<1>6. CASE Precision
  <2>1. at' = at + 1 /\ phase' \in {"end", "precision_digits", "length"}
        /\ spec' = [spec EXCEPT !.flags = @ \cup {"PRECISION"}]
    BY <1>6 DEF Precision, AdvanceTo
  <2>. QED
    BY <2>1 DEF Typed, Formed, Phases, Flags
<1>7. CASE PrecisionArgument
  <2>1. PICK p : spec' = [spec EXCEPT !.flags = @ \cup {"PRECISION"}, !.precision = Greater(p, 0)]
    BY <1>7 DEF PrecisionArgument
  <2>2. at' = at + 2 /\ phase' \in {"end", "length"}
    BY <1>7 DEF PrecisionArgument, AdvanceTo
  <2>3. spec'.flags = spec.flags \cup {"PRECISION"} /\ spec'.size = spec.size
    BY <2>1 DEF Formed
  <2>. QED
    BY <2>2, <2>3 DEF Typed, Phases, Flags
<1>8. ASSUME NEW digits \in Phases, NEW field \in {"width", "precision"}, NEW next \in Phases,
             atou_(digits, field, next)
      PROVE  /\ at' \in Nat \ {0} /\ phase' \in Phases
             /\ spec'.flags \subseteq Flags /\ spec'.size \subseteq Sizes
  <2>1. CASE is_digit(CharAt(at))
    <3>1. PICK v : spec' = [spec EXCEPT ![field] = v]
      BY <1>8, <2>1 DEF atou_
    <3>2. spec' = [spec EXCEPT !.width = v] \/ spec' = [spec EXCEPT !.precision = v]
      BY <3>1
    <3>3. spec'.flags = spec.flags /\ spec'.size = spec.size
      BY <3>2 DEF Formed
    <3>4. at' = at + 1 /\ phase' = phase
      BY <1>8, <2>1 DEF atou_
    <3>. QED
      BY <3>3, <3>4 DEF Typed
  <2>2. CASE ~is_digit(CharAt(at))
    BY <1>8, <2>2 DEF atou_, Typed
  <2>. QED
    BY <2>1, <2>2
<1>9. CASE atou_("width_digits", "width", "precision")
  <2>1. "width_digits" \in Phases /\ "precision" \in Phases
    BY DEF Phases
  <2>. QED
    BY <1>8, <1>9, <2>1
<1>10. CASE atou_("precision_digits", "precision", "length")
  <2>1. "precision_digits" \in Phases /\ "length" \in Phases
    BY DEF Phases
  <2>. QED
    BY <1>8, <1>10, <2>1
<1>11. CASE Length
  <2>1. PICK k \in 1..(Count + 1) : Standing(k)
    BY DEF Place
  <2>2. Amid(k) /\ phase = "length"
    BY <1>11, <2>1 DEF Length, Standing
  <2>3. PICK e, b, r, n : e = PieceAt(k) /\ b = Begin(k) /\ r = Reach(k) /\ n = ArgsBefore(k)
    OBVIOUS
  <2>4. AtLength(e, b, r, n)
    BY <2>2, <2>3 DEF Amid, Within
  <2>5. Piece(e) /\ Spelled(e, b, r)
    BY <2>2, <2>3, PieceIs DEF Amid
  <2>6. at = b + LengthFrom(e) /\ r >= LengthFrom(e)
    BY <2>4 DEF AtLength
  <2>7. ModifierAt(at) = <<e.length, SizeOf(e.length)>>
    BY <2>5, <2>6, ModifierFound
  <2>8. Len(e.length) \in Nat
    BY <2>5, PartsAre
  <2>9. SizeOf(e.length) \subseteq Sizes
    BY DEF SizeOf, Sizes
  <2> DEFINE m == ModifierAt(at)
             l == e.length
             s == SizeOf(e.length)
  <2>10. m[1] = l /\ m[2] = s
    BY <2>7
  <2>11. spec' = [spec EXCEPT !.size = m[2]] /\ at' = at + Len(m[1]) /\ phase' \in {"specifier", "end"}
    BY <1>11 DEF Length, AdvanceTo
  <2> HIDE DEF m, l, s
  <2>12. spec'.flags = spec.flags /\ spec'.size = s
    BY <2>10, <2>11 DEF Formed
  <2>13. at' \in Nat \ {0}
    <3>1. Len(l) \in Nat
      BY <2>8 DEF l
    <3>. QED
      BY <2>10, <2>11, <3>1 DEF Typed
  <2>14. s \subseteq Sizes
    BY <2>9 DEF s
  <2>. QED
    BY <2>11, <2>12, <2>13, <2>14 DEF Typed, Phases
<1>. QED
  BY <1>3, <1>4, <1>5, <1>6, <1>7, <1>9, <1>10, <1>11 DEF Part

\* The types, at its letter.
LEMMA LetterTyped ==
    ASSUME Typed, Formed, Letter
    PROVE  Typed'
<1>1. at' = at + 1 /\ phase' = "text" /\ spec' = spec /\ ret' = ret
  BY DEF Letter, Integer, Character, String, Pointer, OtherSpecifier, Finish
<1>2. number' \subseteq Call
  <2>1. CASE Integer
    BY <2>1, IntegerCall DEF Formed
  <2>2. CASE Pointer
    BY <2>2, PointerNumber DEF Formed
  <2>3. CASE Character \/ String \/ OtherSpecifier
    BY <2>3 DEF Character, String, OtherSpecifier, Typed
  <2>. QED
    BY <2>1, <2>2, <2>3 DEF Letter
<1>. QED
  BY <1>1, <1>2 DEF Typed, Phases

\* The types, at every step.
LEMMA TypedKeeps ==
    ASSUME Called, Place, Typed, Formed, [Next]_vars
    PROVE  Typed'
<1>1. CASE Part
  BY <1>1, PartTyped
<1>2. CASE Letter
  BY <1>2, LetterTyped
<1>3. CASE Text
  BY <1>3 DEF Text, Typed, Phases
<1>4. CASE StartSpec
  <2>1. spec' = NoSpec /\ at' = at + 1 /\ phase' \in {"end", "flags"} /\ number' = number /\ ret' = ret
    BY <1>4 DEF StartSpec, AdvanceTo, outVars
  <2>2. NoSpec.flags = {} /\ NoSpec.size = {}
    BY DEF NoSpec
  <2>. QED
    BY <2>1, <2>2 DEF Typed, Phases
<1>5. CASE EndOfText
  <2>1. spec' = spec /\ at' = at /\ phase' = "end" /\ number' = number /\ ret' = ret
    <3>1. at' = at /\ phase' = "end" /\ number' = number /\ ret' = ret
      BY <1>5 DEF EndOfText, outVars
    <3>. QED
      BY <1>5, <3>1 DEF EndOfText
  <2>. QED
    BY <2>1 DEF Typed, Phases
<1>6. CASE Return
  BY <1>6 DEF Return, Typed, Formed, Phases
<1>7. CASE UNCHANGED vars
  BY <1>7 DEF vars, Typed
<1>. QED
  BY <1>1, <1>2, <1>3, <1>4, <1>5, <1>6, <1>7, NextCases

\* The parser's invariant: where it stands in the format, and what it has fetched.
Parser == Called /\ Place /\ Typed /\ Matches

\* It holds before the first step.
LEMMA ParserBegins == ASSUME ProperInputs, Init PROVE Parser
<1>1. Called
  BY DEF Called, Init
<1>2. /\ at = 1 /\ phase = "text" /\ taken = <<>> /\ number = {} /\ ret = -1
      /\ spec.flags = {} /\ spec.size = {}
  BY DEF Init, NoSpec
<1>3. Len(taken) = 0 /\ taken \in Seq(Types) /\ DOMAIN taken = {}
  BY <1>2
<1>4. Count \in Nat /\ Begin(1) = 0 /\ ArgsBefore(1) = 0 /\ Len(args) \in Nat
  BY <1>1, FormatIs
<1>5. 1 \in 1..(Count + 1) /\ Standing(1)
  BY <1>2, <1>3, <1>4 DEF Standing, InFront
<1>6. Place
  BY <1>5 DEF Place
<1>7. Typed
  BY <1>2 DEF Typed, Phases
<1>8. Matches
  BY <1>3, <1>4 DEF Matches
<1>. QED
  BY <1>1, <1>6, <1>7, <1>8 DEF Parser

\* Every step keeps it.
LEMMA ParserKeeps ==
    ASSUME Parser, Formed, [Next]_vars
    PROVE  Parser'
<1>1. UNCHANGED callVars
  BY CallStays
<1>2. Called'
  BY <1>1, Stays DEF Parser
<1>3. Place' /\ Took
  BY PlaceKeeps DEF Parser, Matches
<1>4. Typed'
  BY TypedKeeps DEF Parser
<1>5. Matches'
  BY <1>1, <1>3, TookMatches DEF Parser, callVars
<1>. QED
  BY <1>2, <1>3, <1>4, <1>5 DEF Parser

\* It is more than ArgumentsInStep.
LEMMA ParserSuffices == Parser /\ Formed => ArgumentsInStep
<1> SUFFICES ASSUME Parser, Formed PROVE ArgumentsInStep
  OBVIOUS
<1>1. TypeOK
  BY DEF Parser, Typed, Formed, Matches, TypeOK, Phases, Sizes
<1>2. phase = "done" => Len(taken) = Len(args)
  <2> SUFFICES ASSUME phase = "done" PROVE Len(taken) = Len(args)
    OBVIOUS
  <2>1. PICK k \in 1..(Count + 1) : Standing(k)
    BY DEF Parser, Place
  <2>2. k = Count + 1 /\ Len(taken) = ArgsBefore(k)
    BY <2>1 DEF Standing
  <2>3. ArgsBefore(Count + 1) = Len(args)
    BY FormatIs DEF Parser
  <2>. QED
    BY <2>2, <2>3
<1>. QED
  BY <1>1, <1>2 DEF Parser, Matches, ArgumentsInStep

-----------------------------------------------------------------------------
(* What print_integer prints.  Copies and reversed buffers.                *)

\* Sequences, from both ends.
LEMMA CopiesHave ==
    ASSUME NEW X, NEW x \in X, NEW n \in Nat
    PROVE  /\ Copies(x, n) \in Seq(X) /\ Len(Copies(x, n)) = n
           /\ \A i \in 1..n : Copies(x, n)[i] = x
  BY DEF Copies

\* Copies behind copies.
LEMMA CopiesJoin ==
    ASSUME NEW x, NEW m \in Nat, NEW n \in Nat
    PROVE  Copies(x, m) \o Copies(x, n) = Copies(x, m + n)
<1> DEFINE a == Copies(x, m)
           b == Copies(x, n)
           c == Copies(x, m + n)
<1>1. /\ a \in Seq({x}) /\ Len(a) = m /\ (\A i \in 1..m : a[i] = x)
      /\ b \in Seq({x}) /\ Len(b) = n /\ (\A i \in 1..n : b[i] = x)
  BY CopiesHave
<1>2. c \in Seq({x}) /\ Len(c) = m + n /\ (\A i \in 1..(m + n) : c[i] = x)
  <2>1. m + n \in Nat
    OBVIOUS
  <2>. QED
    BY <2>1, CopiesHave
<1> HIDE DEF a, b, c
<1>3. a \o b \in Seq({x}) /\ Len(a \o b) = m + n
  BY <1>1, ConcatProperties
<1>4. \A i \in 1..Len(a \o b) : (a \o b)[i] = c[i]
  <2>1. \A i \in 1..Len(a \o b) : (a \o b)[i] \in {x}
    BY <1>3
  <2>. QED
    BY <1>2, <1>3, <2>1
<1>5. a \o b = c
  BY <1>2, <1>3, <1>4, SeqEqual
<1>. QED
  BY <1>5 DEF a, b, c

\* The elements of a reversed sequence.
LEMMA ReverseHas ==
    ASSUME NEW X, NEW s \in Seq(X)
    PROVE  /\ Reverse(s) \in Seq(X) /\ Len(Reverse(s)) = Len(s) /\ Len(s) \in Nat
           /\ \A i \in 1..Len(s) : Reverse(s)[i] = s[Len(s) - i + 1]
  BY DEF Reverse

\* Two sequences reversed, the second comes first.
LEMMA ReverseJoin ==
    ASSUME NEW X, NEW s \in Seq(X), NEW t \in Seq(X)
    PROVE  Reverse(s \o t) = Reverse(t) \o Reverse(s)
<1> DEFINE u == s \o t
           a == Reverse(s)
           b == Reverse(t)
           m == Len(s)
           n == Len(t)
           r == Reverse(u)
           v == b \o a
<1>1. /\ u \in Seq(X) /\ Len(u) = m + n /\ m \in Nat /\ n \in Nat
      /\ (\A i \in 1..m : u[i] = s[i])
      /\ (\A i \in 1..n : u[m + i] = t[i])
  BY AtTheEnd
<1>2. /\ a \in Seq(X) /\ Len(a) = m /\ (\A i \in 1..m : a[i] = s[m - i + 1])
      /\ b \in Seq(X) /\ Len(b) = n /\ (\A i \in 1..n : b[i] = t[n - i + 1])
  BY ReverseHas
<1> HIDE DEF u, a, b
<1>3. /\ v \in Seq(X) /\ Len(v) = n + m
      /\ (\A i \in 1..n : v[i] = b[i])
      /\ (\A i \in 1..m : v[n + i] = a[i])
  <2>1. a \in Seq(X) /\ b \in Seq(X) /\ Len(a) = m /\ Len(b) = n
    BY <1>2
  <2>. HIDE DEF m, n
  <2>2. /\ b \o a \in Seq(X) /\ Len(b \o a) = Len(b) + Len(a)
        /\ (\A i \in 1..Len(b) : (b \o a)[i] = b[i])
        /\ (\A i \in 1..Len(a) : (b \o a)[Len(b) + i] = a[i])
    <3>1. \A p, q \in Seq(X) :
             /\ p \o q \in Seq(X) /\ Len(p \o q) = Len(p) + Len(q)
             /\ (\A i \in 1..Len(p) : (p \o q)[i] = p[i])
             /\ (\A i \in 1..Len(q) : (p \o q)[Len(p) + i] = q[i])
      BY AtTheEnd
    <3>. QED
      BY <2>1, <3>1, Zenon
  <2>. QED
    BY <2>1, <2>2, Zenon
<1>4. /\ r \in Seq(X) /\ Len(r) = m + n
      /\ \A i \in 1..(m + n) : r[i] = u[m + n - i + 1]
  BY <1>1, ReverseHas
<1> HIDE DEF m, n, r, v
<1>5. ASSUME NEW i \in 1..(m + n)
      PROVE  r[i] = v[i]
  <2>1. m \in Nat /\ n \in Nat /\ r[i] = u[m + n - i + 1]
    BY <1>1, <1>4
  <2>2. CASE i <= n
    <3> DEFINE q == n - i + 1
    <3>1. i \in 1..n /\ q \in 1..n /\ m + n - i + 1 = m + q
      BY <2>1, <2>2
    <3>2. b[i] = t[q]
      BY <1>2, <3>1
    <3>. HIDE DEF q
    <3>3. u[m + q] = t[q] /\ v[i] = b[i]
      BY <1>1, <1>3, <3>1, Zenon
    <3>. QED
      BY <2>1, <3>1, <3>2, <3>3, Zenon
  <2>3. CASE i > n
    <3>1. PICK j \in 1..m : i = n + j
      <4>1. i - n \in 1..m /\ i = n + (i - n)
        BY <2>1, <2>3
      <4>. QED
        BY <4>1
    <3> DEFINE q == m - j + 1
    <3>2. q \in 1..m /\ m + n - i + 1 = q
      BY <2>1, <3>1
    <3>3. a[j] = s[q]
      BY <1>2
    <3>. HIDE DEF q
    <3>4. u[q] = s[q] /\ v[n + j] = a[j]
      BY <1>1, <1>3, <3>2, Zenon
    <3>. QED
      BY <2>1, <3>1, <3>2, <3>3, <3>4, Zenon
  <2>. QED
    BY <2>1, <2>2, <2>3
<1>6. Len(r) = Len(v) /\ \A i \in 1..Len(r) : r[i] = v[i]
  BY <1>1, <1>3, <1>4, <1>5
<1>7. r = v
  BY <1>3, <1>4, <1>6, SeqEqual
<1>. QED
  BY <1>7 DEF r, v, u, a, b

\* One element more at the end, one more at the front of the reverse.
LEMMA ReverseOne ==
    ASSUME NEW X, NEW s \in Seq(X), NEW x \in X
    PROVE  /\ Append(s, x) \in Seq(X) /\ Len(Append(s, x)) = Len(s) + 1
           /\ Reverse(Append(s, x)) = <<x>> \o Reverse(s)
<1>1. <<x>> \in Seq(X) /\ Append(s, x) = s \o <<x>> /\ Len(Append(s, x)) = Len(s) + 1
      /\ Append(s, x) \in Seq(X)
  OBVIOUS
<1>2. Reverse(<<x>>) = <<x>>
  <2> DEFINE o == <<x>>
  <2>1. o \in Seq(X) /\ Len(o) = 1 /\ o[1] = x
    OBVIOUS
  <2> HIDE DEF o
  <2>2. Reverse(o) \in Seq(X) /\ Len(Reverse(o)) = 1 /\ Reverse(o)[1] = x
    BY <2>1, ReverseHas
  <2>3. \A i \in 1..Len(o) : Reverse(o)[i] = o[i]
    BY <2>1, <2>2
  <2>4. Reverse(o) = o
    BY <2>1, <2>2, <2>3, SeqEqual
  <2>. QED
    BY <2>4 DEF o
<1>. QED
  BY <1>1, <1>2, ReverseJoin

\* Copies are the same reversed.
LEMMA ReverseCopies ==
    ASSUME NEW x, NEW n \in Nat
    PROVE  Reverse(Copies(x, n)) = Copies(x, n)
<1> DEFINE a == Copies(x, n)
<1>1. a \in Seq({x}) /\ Len(a) = n /\ \A i \in 1..n : a[i] = x
  BY CopiesHave
<1> HIDE DEF a
<1>2. Reverse(a) \in Seq({x}) /\ Len(Reverse(a)) = n
  BY <1>1, ReverseHas
<1>3. \A i \in 1..Len(a) : Reverse(a)[i] = a[i]
  <2>1. \A i \in 1..Len(Reverse(a)) : Reverse(a)[i] \in {x}
    BY <1>2
  <2>. QED
    BY <1>1, <1>2, <2>1
<1>4. Reverse(a) = a
  BY <1>1, <1>2, <1>3, SeqEqual
<1>. QED
  BY <1>4 DEF a

-----------------------------------------------------------------------------
(* A number in parts: its digits, its sign and mark, and the zeros.        *)

\* A call of print_integer for a conversion: what the callers see to.
Regular(c) ==
    /\ c.value \in Nat /\ c.width \in Nat /\ c.precision \in Nat /\ c.negative \in BOOLEAN
    /\ c.base \in {2, 8, 10, 16} /\ (c.base = 8 => c.value < Power(8, Bits))
    /\ "PRECISION" \notin c.flags => c.precision = 0
    /\ "PRECISION" \in c.flags => "ZEROPAD" \notin c.flags
    /\ c.base = 10 => "HASH" \notin c.flags
    /\ "POINTER" \in c.flags => c.base = 16 /\ c.value # 0 /\ "PRECISION" \notin c.flags

\* The parts of a number: its digits, most significant first, its sign, and the mark
\* of base 2 or 16.
Places(c) == IF c.value = 0 THEN 0 ELSE DigitCount(c.value, c.base)
Shown(c) == [i \in 1..Places(c) |-> DigitAt(c.value, c.base, Places(c) + 1 - i)]
Sign(c) ==
    IF c.negative THEN <<"-">>
    ELSE IF "PLUS" \in c.flags THEN <<"+">>
    ELSE IF "SPACE" \in c.flags THEN <<" ">> ELSE <<>>
Marked(c) == c.base \in {2, 16} /\ ("POINTER" \in c.flags \/ ("HASH" \in c.flags /\ c.value # 0))
Mark(c) == IF Marked(c) THEN IF c.base = 16 THEN <<"0", "x">> ELSE <<"0", "b">> ELSE <<>>

\* A digit is a character, and the first of a number is not a zero.
LEMMA DigitCharsAre ==
    /\ \A d \in 0..15 : DigitChars[d + 1] \in Letters
    /\ \A d \in 1..15 : DigitChars[d + 1] # "0"
<1>1. \A d \in 0..15 :
        \/ d = 0 \/ d = 1 \/ d = 2 \/ d = 3 \/ d = 4 \/ d = 5 \/ d = 6 \/ d = 7
        \/ d = 8 \/ d = 9 \/ d = 10 \/ d = 11 \/ d = 12 \/ d = 13 \/ d = 14 \/ d = 15
  OBVIOUS
<1> DEFINE L == {"0", "1", "2", "3", "4", "5", "6", "7", "8", "9", "a", "b", "c", "d", "e", "f"}
<1>2. \A d \in 0..15 : DigitChars[d + 1] \in L
  BY <1>1 DEF DigitChars
<1>3. \A d \in 1..15 : DigitChars[d + 1] # "0"
  BY <1>1 DEF DigitChars
<1>4. L \subseteq Letters
  BY Zenon DEF Letters
<1>. QED
  BY <1>2, <1>3, <1>4

\* A digit is a character.
LEMMA DigitIsChar ==
    ASSUME NEW value \in Nat, NEW base \in {2, 8, 10, 16}, NEW i \in Nat \ {0}
    PROVE  DigitAt(value, base, i) \in Letters
<1> DEFINE p == Power(base, i - 1)
           q == value \div p
           d == q % base
<1>1. p \in Nat \ {0}
  <2>1. base \in Nat \ {0} /\ i - 1 \in Nat
    OBVIOUS
  <2>. QED
    BY <2>1, PowerType
<1>2. q \in Nat
  <2>. HIDE DEF p
  <2>. QED
    BY <1>1
<1> HIDE DEF q
<1>3. d \in 0..15
  BY <1>2
<1>4. DigitAt(value, base, i) = DigitChars[d + 1]
  BY DEF DigitAt, q
<1> HIDE DEF d
<1>. QED
  BY <1>3, <1>4, DigitCharsAre

\* Powers grow.
LEMMA PowerGrows ==
    ASSUME NEW base \in {2, 8, 10, 16}
    PROVE  \A n \in Nat : n < Power(base, n) /\ Power(base, n) < Power(base, n + 1)
<1> DEFINE S == {n \in Nat : n < Power(base, n) /\ Power(base, n) < Power(base, n + 1)}
<1>0. base \in Nat \ {0} /\ base >= 2
  OBVIOUS
<1>1. 0 \in S
  <2>1. Power(base, 0) = 1 /\ Power(base, 0 + 1) = base * Power(base, 0)
    BY PowerStep
  <2>. QED
    BY <1>0, <2>1
<1>2. \A n \in Nat : n \in S => n + 1 \in S
  <2> SUFFICES ASSUME NEW n \in Nat, n \in S PROVE n + 1 \in S
    OBVIOUS
  <2> DEFINE a == Power(base, n)
             b == Power(base, n + 1)
             c == Power(base, (n + 1) + 1)
  <2>1. a \in Nat /\ b \in Nat /\ c \in Nat
    BY <1>0, PowerType
  <2>2. c = base * b
    BY PowerStep
  <2>3. n < a /\ a < b
    OBVIOUS
  <2> HIDE DEF a, b, c
  <2>4. c >= 2 * b
    BY <1>0, <2>1, <2>2
  <2>5. n + 1 < b /\ b < c
    BY <2>1, <2>3, <2>4
  <2>. QED
    BY <2>5 DEF b, c
<1> HIDE DEF S
<1>3. Nat \subseteq S
  BY <1>1, <1>2, NatSetInduction
<1>. QED
  BY <1>3 DEF S

\* The powers of a base up to a value: those before the first above it.
LEMMA PowersBelow ==
    ASSUME NEW base \in {2, 8, 10, 16}, NEW value \in Nat, value >= 1
    PROVE  \A k \in Nat : \E m \in 0..k :
              /\ {n \in 0..(k - 1) : Power(base, n) <= value} = 0..(m - 1)
              /\ m < k => value < Power(base, m) /\ value < Power(base, k)
              /\ k >= 1 => m >= 1
<1> DEFINE Below(k) == {n \in 0..(k - 1) : Power(base, n) <= value}
           Parts(k, m) == /\ Below(k) = 0..(m - 1)
                          /\ m < k => value < Power(base, m) /\ value < Power(base, k)
                          /\ k >= 1 => m >= 1
           S == {k \in Nat : \E m \in 0..k : Parts(k, m)}
<1>1. 0 \in S
  <2>1. Parts(0, 0)
    OBVIOUS
  <2>. QED
    BY <2>1
<1>2. \A k \in Nat : k \in S => k + 1 \in S
  <2> SUFFICES ASSUME NEW k \in Nat, NEW m \in 0..k, Parts(k, m)
               PROVE  \E j \in 0..(k + 1) : Parts(k + 1, j)
    OBVIOUS
  <2>1. Power(base, k) < Power(base, k + 1) /\ Power(base, k) \in Nat /\ Power(base, k + 1) \in Nat
    <3>1. base \in Nat \ {0} /\ k + 1 \in Nat
      OBVIOUS
    <3>. QED
      BY <3>1, PowerGrows, PowerType
  <2>2. Below(k) = 0..(m - 1)
    OBVIOUS
  <2>3. /\ Power(base, k) <= value => Below(k + 1) = Below(k) \cup {k}
        /\ ~(Power(base, k) <= value) => Below(k + 1) = Below(k)
    OBVIOUS
  <2>4. k = 0 => Power(base, k) = 1
    BY PowerStep
  <2> HIDE DEF Below
  <2>5. CASE Power(base, k) <= value
    <3>1. m = k
      BY <2>1, <2>5
    <3>2. Below(k + 1) = 0..((k + 1) - 1)
      <4>1. Below(k + 1) = (0..(m - 1)) \cup {k}
        BY <2>2, <2>3, <2>5, Zenon
      <4>2. (0..(m - 1)) \cup {k} = 0..((k + 1) - 1)
        BY <3>1
      <4>. QED
        BY <4>1, <4>2, Zenon
    <3>3. Parts(k + 1, k + 1)
      BY <3>2
    <3>. QED
      BY <3>3
  <2>6. CASE value < Power(base, k)
    <3>1. Below(k + 1) = 0..(m - 1)
      <4>1. ~(Power(base, k) <= value)
        BY <2>1, <2>6
      <4>. QED
        BY <2>2, <2>3, <4>1, Zenon
    <3>2. value < Power(base, m)
      BY <2>6
    <3>3. m >= 1
      BY <2>4, <2>6
    <3>4. value < Power(base, k + 1)
      BY <2>1, <2>6
    <3>5. Parts(k + 1, m)
      BY <3>1, <3>2, <3>3, <3>4
    <3>. QED
      BY <3>5
  <2>. QED
    BY <2>1, <2>5, <2>6
<1>3. Nat \subseteq S
  <2> HIDE DEF S
  <2>. QED
    BY <1>1, <1>2, NatSetInduction
<1>. QED
  BY <1>3

\* The digits of a positive number: at least one, and the first of them no zero if the
\* powers that are counted go far enough.
LEMMA DigitCountIs ==
    ASSUME NEW base \in {2, 8, 10, 16}, NEW value \in Nat, value >= 1
    PROVE  /\ DigitCount(value, base) \in Nat \ {0}
           /\ base = 8 /\ value < Power(8, Bits) =>
                DigitAt(value, base, DigitCount(value, base)) # "0"
<1>1. Bits \in Nat /\ Bits >= 1
  BY BitsAssumption
<1> DEFINE D == {n \in 0..(Bits - 1) : Power(base, n) <= value}
<1>2. PICK m \in 0..Bits : /\ D = 0..(m - 1)
                           /\ m < Bits => value < Power(base, m) /\ value < Power(base, Bits)
                           /\ Bits >= 1 => m >= 1
  BY <1>1, PowersBelow
<1>3. DigitCount(value, base) = m /\ m >= 1
  <2>1. Cardinality(D) = m
    <3>1. 0 \in Int /\ m - 1 \in Int
      OBVIOUS
    <3>2. Cardinality(0..(m - 1)) = IF 0 > m - 1 THEN 0 ELSE (m - 1) - 0 + 1
      BY <3>1, FS_Interval
    <3>3. Cardinality(0..(m - 1)) = m
      BY <1>1, <1>2, <3>2
    <3>4. D = 0..(m - 1)
      BY <1>2
    <3>. HIDE DEF D
    <3>. QED
      BY <3>3, <3>4, Zenon
  <2>. QED
    BY <1>1, <1>2, <2>1 DEF DigitCount
<1>4. ASSUME base = 8, value < Power(8, Bits)
      PROVE  DigitAt(value, base, m) # "0"
  <2> DEFINE p == Power(base, m - 1)
             q == value \div p
  <2>1. m - 1 \in D
    BY <1>2, <1>3
  <2>2. p <= value
    BY <2>1
  <2>3. value < Power(base, m)
    BY <1>1, <1>2, <1>4
  <2>4. Power(base, m) = base * p
    <3>1. m - 1 \in Nat /\ (m - 1) + 1 = m
      BY <1>3
    <3>2. Power(base, (m - 1) + 1) = base * Power(base, m - 1)
      BY <3>1, PowerStep
    <3>. QED
      BY <3>1, <3>2
  <2>5. p \in Nat \ {0}
    <3>1. base \in Nat \ {0} /\ m - 1 \in Nat
      BY <1>3
    <3>. QED
      BY <3>1, PowerType
  <2> HIDE DEF p
  <2>6. value < 8 * p
    BY <1>4, <2>3, <2>4
  <2>7. q \in 1..7
    <3>1. \A a \in Nat \ {0}, v \in Nat : a <= v /\ v < 8 * a => v \div a \in 1..7
      OBVIOUS
    <3>. QED
      BY <2>2, <2>5, <2>6, <3>1
  <2>8. q % base = q
    <3> HIDE DEF q
    <3>. QED
      BY <1>4, <2>7
  <2>9. DigitAt(value, base, m) = DigitChars[q + 1]
    BY <2>8 DEF DigitAt, p
  <2> HIDE DEF q
  <2>10. q \in 1..15
    BY <2>7
  <2>. QED
    BY <2>9, <2>10, DigitCharsAre
<1>. QED
  BY <1>3, <1>4

\* The zero of "0" itself.
Lone(c) == IF c.value = 0 /\ "PRECISION" \notin c.flags THEN 1 ELSE 0

\* So is a zero.
LEMMA ZeroIs == "0" \in Char /\ "0" \in Letters
  BY LettersAre, Zenon DEF Letters

\* The digits that are shown: none for zero, and no leading zero in octal.
LEMMA ShownIs ==
    ASSUME NEW c, Regular(c)
    PROVE  /\ Places(c) \in Nat /\ Shown(c) \in Seq(Char) /\ Len(Shown(c)) = Places(c)
           /\ c.value = 0 <=> Places(c) = 0
           /\ c.base = 8 /\ Places(c) # 0 => Shown(c)[1] # "0"
<1>1. c.value \in Nat /\ c.base \in {2, 8, 10, 16} /\ (c.base = 8 => c.value < Power(8, Bits))
  BY DEF Regular
<1>2. /\ c.value = 0 => Places(c) = 0
      /\ c.value # 0 => Places(c) = DigitCount(c.value, c.base)
  BY DEF Places
<1>3. Places(c) \in Nat /\ (c.value = 0 <=> Places(c) = 0)
  BY <1>1, <1>2, DigitCountIs
<1> DEFINE n == Places(c)
<1>4. Shown(c) = [i \in 1..n |-> DigitAt(c.value, c.base, n + 1 - i)]
  BY DEF Shown
<1>5. \A i \in 1..n : DigitAt(c.value, c.base, n + 1 - i) \in Char
  <2> SUFFICES ASSUME NEW i \in 1..n PROVE DigitAt(c.value, c.base, n + 1 - i) \in Char
    OBVIOUS
  <2>1. n + 1 - i \in Nat \ {0}
    BY <1>3
  <2> DEFINE j == n + 1 - i
  <2> HIDE DEF j
  <2>2. DigitAt(c.value, c.base, j) \in Letters
    BY <1>1, <2>1, DigitIsChar DEF j
  <2>. QED
    BY <2>2, LettersAre DEF j
<1> HIDE DEF n
<1>6. n \in Nat
  BY <1>3 DEF n
<1>7. Shown(c) \in Seq(Char) /\ Len(Shown(c)) = n
  BY <1>4, <1>5, <1>6
<1>8. ASSUME c.base = 8, n # 0
      PROVE  Shown(c)[1] # "0"
  <2>1. Shown(c)[1] = DigitAt(c.value, c.base, n + 1 - 1)
    BY <1>4, <1>6, <1>8
  <2>2. n + 1 - 1 = n
    BY <1>6
  <2>3. c.value # 0 /\ n = DigitCount(c.value, c.base) /\ c.value >= 1
    BY <1>1, <1>2, <1>3, <1>8 DEF n
  <2>4. DigitAt(c.value, c.base, n) # "0"
    BY <1>1, <1>8, <2>3, DigitCountIs
  <2>. QED
    BY <2>1, <2>2, <2>4
<1>. QED
  BY <1>3, <1>7, <1>8 DEF n

\* The digits in the buffer are the same in reverse order, if there is room for them.
LEMMA DigitsReversed ==
    ASSUME NEW c, Regular(c), Places(c) <= BufSize
    PROVE  /\ Digits(c) \in Seq(Char) /\ Len(Digits(c)) = Lone(c) + Places(c)
           /\ Lone(c) \in 0..1
           /\ Reverse(Digits(c)) = Copies("0", Lone(c)) \o Shown(c)
<1>1. CASE c.value # 0
  <2> DEFINE n == Places(c)
             d == Digits(c)
  <2>1. n \in Nat /\ n <= BufSize /\ Shown(c) \in Seq(Char) /\ Len(Shown(c)) = n
    BY ShownIs
  <2>2. n = DigitCount(c.value, c.base)
    BY <1>1 DEF Places
  <2>3. Lesser(n, BufSize) = n
    BY <2>1, BufSizeAssumption DEF Lesser
  <2>4. d = [i \in 1..n |-> DigitAt(c.value, c.base, i)]
    BY <1>1, <2>2, <2>3 DEF Digits
  <2>5. Shown(c) = [i \in 1..n |-> DigitAt(c.value, c.base, n + 1 - i)]
    BY DEF Shown
  <2>6. \A i \in 1..n : DigitAt(c.value, c.base, i) \in Char
    BY <2>1, DigitIsChar, LettersAre DEF Regular
  <2> HIDE DEF n, d
  <2>7. d \in Seq(Char) /\ Len(d) = n
    BY <2>1, <2>4, <2>6
  <2>8. Reverse(d) \in Seq(Char) /\ Len(Reverse(d)) = n /\ \A i \in 1..n : Reverse(d)[i] = d[n - i + 1]
    BY <2>7, ReverseHas
  <2>9. \A i \in 1..n : Reverse(d)[i] = Shown(c)[i]
    <3> SUFFICES ASSUME NEW i \in 1..n PROVE Reverse(d)[i] = Shown(c)[i]
      OBVIOUS
    <3>1. n - i + 1 \in 1..n /\ n - i + 1 = n + 1 - i
      BY <2>1
    <3>2. Reverse(d)[i] = d[n - i + 1]
      BY <2>8
    <3>3. d[n - i + 1] = DigitAt(c.value, c.base, n - i + 1)
      BY <2>4, <3>1
    <3>4. Shown(c)[i] = DigitAt(c.value, c.base, n + 1 - i)
      BY <2>5
    <3>. QED
      BY <3>1, <3>2, <3>3, <3>4
  <2>10. Reverse(d) = Shown(c)
    BY <2>1, <2>8, <2>9, SeqEqual
  <2>11. Lone(c) = 0
    BY <1>1 DEF Lone
  <2>12. Copies("0", 0) \o Shown(c) = Shown(c)
    <3>1. Copies("0", 0) = <<>>
      BY DEF Copies
    <3>. QED
      BY <2>1, <3>1
  <2>13. Len(d) = Lone(c) + n
    BY <2>1, <2>7, <2>11
  <2>14. Reverse(d) = Copies("0", Lone(c)) \o Shown(c)
    BY <2>10, <2>11, <2>12, Zenon
  <2>. QED
    BY <2>7, <2>11, <2>13, <2>14 DEF d, n
<1>2. CASE c.value = 0
  <2>1. Places(c) = 0
    BY <1>2 DEF Places
  <2>2. Shown(c) = <<>>
    BY <2>1 DEF Shown
  <2>3. CASE "PRECISION" \in c.flags
    <3>1. Digits(c) = <<>> /\ Lone(c) = 0
      BY <1>2, <2>3 DEF Digits, Lone
    <3>2. Copies("0", 0) = <<>> /\ Reverse(<<>>) = <<>>
      BY DEF Copies, Reverse
    <3>3. <<>> \o <<>> = <<>>
      OBVIOUS
    <3>4. <<>> \in Seq(Char) /\ Len(<<>>) = 0 + 0
      OBVIOUS
    <3>5. 0 \in 0..1
      OBVIOUS
    <3>. QED
      BY <2>1, <2>2, <3>1, <3>2, <3>3, <3>4, <3>5, Zenon
  <2>4. CASE "PRECISION" \notin c.flags
    <3>1. Digits(c) = <<"0">> /\ Lone(c) = 1
      BY <1>2, <2>4 DEF Digits, Lone
    <3>2. Copies("0", 1) = <<"0">>
      BY DEF Copies
    <3>3. Reverse(Copies("0", 1)) = Copies("0", 1)
      BY ReverseCopies
    <3>4. Copies("0", 1) \in Seq(Char) /\ Len(Copies("0", 1)) = 1
      BY ZeroIs, CopiesHave
    <3>5. Copies("0", 1) \o <<>> = Copies("0", 1)
      BY <3>4, ConcatEmptySeq
    <3>6. 1 \in 0..1 /\ 1 = 1 + 0
      OBVIOUS
    <3>. QED
      BY <2>1, <2>2, <3>1, <3>2, <3>3, <3>4, <3>5, <3>6, Zenon
  <2>. QED
    BY <2>3, <2>4
<1>. QED
  BY <1>1, <1>2

\* The sign is the last character the buffer gets.
LEMMA FourWays ==
    ASSUME NEW neg \in BOOLEAN, NEW plus \in BOOLEAN, NEW space \in BOOLEAN,
           NEW a, NEW b, NEW d, NEW e
    PROVE  LET x == CASE neg -> a [] ~neg /\ plus -> b [] ~neg /\ ~plus /\ space -> d [] OTHER -> e
               y == IF neg THEN a ELSE IF plus THEN b ELSE IF space THEN d ELSE e
           IN  x = y
  OBVIOUS

\* The sign is what print_integer adds last.
LEMMA SignIs ==
    ASSUME NEW c, Regular(c)
    PROVE  \/ /\ SignFlag(c)
              /\ \E x \in Char : Sign(c) = <<x>> /\ Finished(c) = Put(WithPrefix(c), x)
           \/ ~SignFlag(c) /\ Sign(c) = <<>> /\ Finished(c) = WithPrefix(c)
<1> DEFINE plus == "PLUS" \in c.flags
           space == "SPACE" \in c.flags
           neg == c.negative
<1>1. neg \in BOOLEAN /\ plus \in BOOLEAN /\ space \in BOOLEAN
  BY DEF Regular
<1>2. SignFlag(c) <=> neg \/ plus \/ space
  BY DEF SignFlag
<1>3. Sign(c) = IF neg THEN <<"-">> ELSE IF plus THEN <<"+">> ELSE IF space THEN <<" ">> ELSE <<>>
  BY Zenon DEF Sign
<1> DEFINE w == WithPrefix(c)
           a == Put(w, "-")
           b == Put(w, "+")
           d == Put(w, " ")
<1>4. Finished(c) = CASE neg -> a [] ~neg /\ plus -> b [] ~neg /\ ~plus /\ space -> d [] OTHER -> w
  BY Zenon DEF Finished
<1>5. "-" \in Char /\ "+" \in Char /\ " " \in Char
  BY LettersAre, Zenon DEF Letters
<1> HIDE DEF plus, space, neg, w, a, b, d
<1>6. Finished(c) = IF neg THEN a ELSE IF plus THEN b ELSE IF space THEN d ELSE w
  BY <1>1, <1>4, FourWays, Zenon
<1>7. CASE neg
  <2>1. Sign(c) = <<"-">> /\ Finished(c) = a
    BY <1>3, <1>6, <1>7, Zenon
  <2>. QED
    BY <1>2, <1>5, <1>7, <2>1, Zenon DEF a, w
<1>8. CASE ~neg /\ plus
  <2>1. Sign(c) = <<"+">> /\ Finished(c) = b
    BY <1>3, <1>6, <1>8, Zenon
  <2>. QED
    BY <1>2, <1>5, <1>8, <2>1, Zenon DEF b, w
<1>9. CASE ~neg /\ ~plus /\ space
  <2>1. Sign(c) = <<" ">> /\ Finished(c) = d
    BY <1>3, <1>6, <1>9, Zenon
  <2>. QED
    BY <1>2, <1>5, <1>9, <2>1, Zenon DEF d, w
<1>10. CASE ~neg /\ ~plus /\ ~space
  <2>1. Sign(c) = <<>> /\ Finished(c) = w
    BY <1>3, <1>6, <1>10, Zenon
  <2>. QED
    BY <1>2, <1>10, <2>1, Zenon DEF w
<1>. QED
  BY <1>1, <1>7, <1>8, <1>9, <1>10, Zenon

\* How long the sign and the mark are; together they are the standard's.
LEMMA SignMarkAre ==
    ASSUME NEW c, Regular(c)
    PROVE  /\ Sign(c) \in Seq(Char) /\ Len(Sign(c)) = IF SignFlag(c) THEN 1 ELSE 0
           /\ Mark(c) \in Seq(Char) /\ Len(Mark(c)) = IF Marked(c) THEN 2 ELSE 0
           /\ StandardSign(c) = Sign(c) \o Mark(c)
<1>1. Mark(c) \in Seq(Char) /\ Len(Mark(c)) = IF Marked(c) THEN 2 ELSE 0
  <2>1. "0" \in Char /\ "x" \in Char /\ "b" \in Char
    BY LettersAre, Zenon DEF Letters
  <2>2. <<"0", "x">> \in Seq(Char) /\ <<"0", "b">> \in Seq(Char) /\ <<>> \in Seq(Char)
    BY <2>1
  <2>3. Len(<<"0", "x">>) = 2 /\ Len(<<"0", "b">>) = 2 /\ Len(<<>>) = 0
    OBVIOUS
  <2>4. Mark(c) = IF Marked(c) THEN IF c.base = 16 THEN <<"0", "x">> ELSE <<"0", "b">> ELSE <<>>
    BY DEF Mark
  <2>. QED
    BY <2>2, <2>3, <2>4, Zenon
<1>2. StandardSign(c) = Sign(c) \o Mark(c)
  BY Zenon DEF StandardSign, Sign, Mark, Marked
<1>3. CASE SignFlag(c)
  <2>1. PICK x \in Char : Sign(c) = <<x>>
    BY <1>3, SignIs, Zenon
  <2>. QED
    <3>1. <<x>> \in Seq(Char) /\ Len(<<x>>) = 1
      OBVIOUS
    <3>2. Sign(c) \in Seq(Char) /\ Len(Sign(c)) = IF SignFlag(c) THEN 1 ELSE 0
      BY <1>3, <2>1, <3>1, Zenon
    <3>. QED
      BY <1>1, <1>2, <3>2, Zenon
<1>4. CASE ~SignFlag(c)
  <2>1. Sign(c) = <<>>
    BY <1>4, SignIs, Zenon
  <2>2. <<>> \in Seq(Char) /\ Len(<<>>) = 0
    OBVIOUS
  <2>3. Sign(c) \in Seq(Char) /\ Len(Sign(c)) = 0
    BY <2>1, <2>2, Zenon
  <2>. QED
    BY <1>1, <1>2, <1>4, <2>3
<1>. QED
  BY <1>3, <1>4

\* The zeros of the standard: those of the precision, the prefix of an octal number,
\* and those that fill the width.
Lead(c) == Greater(0, (IF "PRECISION" \in c.flags THEN c.precision ELSE 1) - Places(c))
Octal(c) == IF "HASH" \in c.flags /\ c.base = 8 /\ Lead(c) = 0 THEN 1 ELSE 0
Fill(c) ==
    IF "ZEROPAD" \in c.flags /\ "LEFT" \notin c.flags
    THEN Greater(0, c.width - (Len(Sign(c)) + Len(Mark(c)) + Lead(c) + Octal(c) + Places(c)))
    ELSE 0

\* Sequences of characters, one behind the other.
LEMMA JoinChars == \A p, q \in Seq(Char) :
    /\ p \o q \in Seq(Char) /\ Len(p \o q) = Len(p) + Len(q) /\ Len(p) \in Nat /\ Len(q) \in Nat
    /\ (\A i \in 1..Len(p) : (p \o q)[i] = p[i])
    /\ (\A i \in 1..Len(q) : (p \o q)[Len(p) + i] = q[i])
  BY AtTheEnd

\* Joining does not depend on the order it is done in.
LEMMA AssociateChars == \A p, q, r \in Seq(Char) : (p \o q) \o r = p \o (q \o r)
  BY ConcatAssociative

\* The greater of two.
LEMMA GreaterIs == \A a, b \in Int : Greater(a, b) \in {a, b} /\ Greater(a, b) >= a /\ Greater(a, b) >= b
  BY DEF Greater

\* The zeros of the parts are numbers.
LEMMA ZerosAre ==
    ASSUME NEW c, Regular(c)
    PROVE  Lead(c) \in Nat /\ Octal(c) \in 0..1 /\ Fill(c) \in Nat
<1>1. c.width \in Nat /\ c.precision \in Nat /\ Places(c) \in Nat
  BY ShownIs DEF Regular
<1>2. Lead(c) \in Nat
  <2> DEFINE q == (IF "PRECISION" \in c.flags THEN c.precision ELSE 1) - Places(c)
  <2>1. q \in Int
    BY <1>1
  <2> HIDE DEF q
  <2>2. Greater(0, q) \in Nat
    BY <2>1, GreaterIs
  <2>. QED
    BY <2>2 DEF Lead, q
<1>3. Octal(c) \in 0..1
  BY DEF Octal
<1>4. Fill(c) \in Nat
  <2> DEFINE q == c.width - (Len(Sign(c)) + Len(Mark(c)) + Lead(c) + Octal(c) + Places(c))
  <2>1. q \in Int
    BY <1>1, <1>2, <1>3, SignMarkAre
  <2> HIDE DEF q
  <2>2. Greater(0, q) \in Nat
    BY <2>1, GreaterIs
  <2>. QED
    BY <2>2 DEF Fill, q
<1>. QED
  BY <1>2, <1>3, <1>4

\* The digits of the standard: zeros and the digits.
LEMMA StandardDigitsAre ==
    ASSUME NEW c, Regular(c)
    PROVE  StandardDigits(c) = Copies("0", Lead(c) + Octal(c)) \o Shown(c)
<1> DEFINE z == Lead(c)
           n == Places(c)
           shown == Copies("0", z) \o Shown(c)
           zs == Copies("0", z)
           first == Head(shown)
<1>1. /\ n \in Nat /\ Shown(c) \in Seq(Char) /\ Len(Shown(c)) = n
      /\ c.base = 8 /\ n # 0 => Shown(c)[1] # "0"
  BY ShownIs
<1>2. z \in Nat
  BY ZerosAre
<1>3. StandardDigits(c) =
        IF "HASH" \in c.flags /\ c.base = 8 /\ (shown = <<>> \/ Head(shown) # "0")
        THEN <<"0">> \o shown ELSE shown
  <2>1. n = IF c.value = 0 THEN 0 ELSE DigitCount(c.value, c.base)
    BY DEF Places
  <2>2. z = Greater(0, (IF "PRECISION" \in c.flags THEN c.precision ELSE 1) - n)
    BY DEF Lead
  <2>3. Shown(c) = [i \in 1..n |-> DigitAt(c.value, c.base, n + 1 - i)]
    BY DEF Shown
  <2>. QED
    BY <2>1, <2>2, <2>3, Zenon DEF StandardDigits
<1>4. zs \in Seq(Char) /\ Len(zs) = z /\ \A i \in 1..z : zs[i] = "0"
  BY <1>2, ZeroIs, CopiesHave
<1> HIDE DEF z, n, zs
<1>5. shown = zs \o Shown(c)
  BY DEF zs
<1> HIDE DEF shown
<1>6. shown \in Seq(Char) /\ Len(shown) = z + n
      /\ (\A i \in 1..z : shown[i] = zs[i]) /\ (\A i \in 1..n : shown[z + i] = Shown(c)[i])
  BY <1>1, <1>4, <1>5, JoinChars, Zenon
<1>7. c.base = 8 => ((shown = <<>> \/ Head(shown) # "0") <=> z = 0)
  <2> SUFFICES ASSUME c.base = 8 PROVE (shown = <<>> \/ Head(shown) # "0") <=> z = 0
    OBVIOUS
  <2>1. CASE z = 0 /\ n = 0
    <3>1. shown = <<>>
      BY <1>6, <2>1
    <3>. QED
      BY <2>1, <3>1
  <2>2. CASE z = 0 /\ n # 0
    <3>1. shown[z + 1] = Shown(c)[1] /\ z + 1 = 1 /\ Len(shown) # 0
      BY <1>1, <1>6, <2>2
    <3>2. Head(shown) = shown[1]
      BY <1>6, <3>1
    <3>3. Head(shown) # "0"
      BY <1>1, <2>2, <3>1, <3>2
    <3>. QED
      BY <2>2, <3>3
  <2>3. CASE z # 0
    <3>1. shown[1] = "0" /\ Len(shown) # 0
      BY <1>1, <1>2, <1>4, <1>6, <2>3
    <3>2. Head(shown) = shown[1] /\ shown # <<>>
      BY <1>6, <3>1
    <3>. QED
      BY <2>3, <3>1, <3>2
  <2>. QED
    BY <2>1, <2>2, <2>3
<1>8. Octal(c) = IF "HASH" \in c.flags /\ c.base = 8 /\ z = 0 THEN 1 ELSE 0
  BY DEF Octal, z
<1>9. StandardDigits(c) = IF Octal(c) = 1 THEN <<"0">> \o shown ELSE shown
  BY <1>3, <1>7, <1>8
<1>10. CASE Octal(c) = 1
  <2>1. <<"0">> = Copies("0", 1)
    BY DEF Copies
  <2>2. Copies("0", 1) \o (zs \o Shown(c)) = (Copies("0", 1) \o zs) \o Shown(c)
    <3>1. Copies("0", 1) \in Seq(Char)
      BY ZeroIs, CopiesHave
    <3>. QED
      BY <1>1, <1>4, <3>1, AssociateChars, Zenon
  <2>3. Copies("0", 1) \o zs = Copies("0", 1 + z)
    BY <1>2, CopiesJoin DEF zs
  <2>4. 1 + z = z + Octal(c)
    BY <1>2, <1>10 DEF z
  <2>. QED
    BY <1>5, <1>9, <1>10, <2>1, <2>2, <2>3, <2>4, Zenon DEF z
<1>11. CASE Octal(c) # 1
  <2>1. z + Octal(c) = z
    BY <1>2, <1>8, <1>11
  <2>. QED
    BY <1>5, <1>9, <1>11, <2>1, Zenon DEF z, zs
<1>. QED
  BY <1>10, <1>11

-----------------------------------------------------------------------------
(* What the standard asks for, as sign, mark, zeros and digits.            *)

\* A number with its sign, its mark, and z zeros.
Body(c, z) == Sign(c) \o (Mark(c) \o (Copies("0", z) \o Shown(c)))

\* Zeros are characters.
LEMMA ZerosOf == \A n \in Nat : Copies("0", n) \in Seq(Char) /\ Len(Copies("0", n)) = n
  BY ZeroIs, CopiesHave

\* How long a number is that is put together of its parts.
LEMMA BodyIs ==
    ASSUME NEW c, Regular(c), NEW z \in Nat
    PROVE  /\ Body(c, z) \in Seq(Char)
           /\ Len(Body(c, z)) = Len(Sign(c)) + Len(Mark(c)) + z + Places(c)
<1> DEFINE zs == Copies("0", z)
           t == zs \o Shown(c)
           m == Mark(c) \o t
           b == Sign(c) \o m
<1>1. /\ Sign(c) \in Seq(Char) /\ Mark(c) \in Seq(Char) /\ Shown(c) \in Seq(Char)
      /\ Len(Shown(c)) = Places(c) /\ Len(Sign(c)) \in Nat /\ Len(Mark(c)) \in Nat /\ Places(c) \in Nat
  BY SignMarkAre, ShownIs
<1>2. zs \in Seq(Char) /\ Len(zs) = z
  BY ZerosOf
<1> HIDE DEF zs
<1>3. t \in Seq(Char) /\ Len(t) = Len(zs) + Len(Shown(c))
  BY <1>1, <1>2, JoinChars, Zenon
<1> HIDE DEF t
<1>4. m \in Seq(Char) /\ Len(m) = Len(Mark(c)) + Len(t)
  BY <1>1, <1>3, JoinChars, Zenon
<1> HIDE DEF m
<1>5. b \in Seq(Char) /\ Len(b) = Len(Sign(c)) + Len(m)
  BY <1>1, <1>4, JoinChars, Zenon
<1>6. Body(c, z) = b
  BY Zenon DEF Body, b, m, t, zs
<1> HIDE DEF b
<1>7. Len(b) = Len(Sign(c)) + Len(Mark(c)) + z + Places(c)
  BY <1>1, <1>2, <1>3, <1>4, <1>5
<1>. QED
  BY <1>5, <1>6, <1>7

\* The standard's number, put together so.
LEMMA StandardBodyIs ==
    ASSUME NEW c, Regular(c)
    PROVE  StandardBody(c) = Body(c, Fill(c) + Lead(c) + Octal(c))
<1> DEFINE a == Lead(c) + Octal(c)
           f == Fill(c)
           d == StandardDigits(c)
           s == StandardSign(c)
           sg == Sign(c)
           mk == Mark(c)
           sh == Shown(c)
           za == Copies("0", a)
           zf == Copies("0", f)
           zeros == IF "ZEROPAD" \in c.flags /\ "LEFT" \notin c.flags
                    THEN Greater(0, c.width - Len(s \o d)) ELSE 0
<1>1. a \in Nat /\ f \in Nat /\ Lead(c) \in Nat /\ Octal(c) \in Nat
  BY ZerosAre
<1>2. sg \in Seq(Char) /\ mk \in Seq(Char) /\ s = sg \o mk
  BY SignMarkAre
<1>3. sh \in Seq(Char) /\ Len(sh) = Places(c) /\ Places(c) \in Nat
  BY ShownIs
<1>4. d = za \o sh
  BY StandardDigitsAre
<1>5. za \in Seq(Char) /\ Len(za) = a /\ zf \in Seq(Char) /\ Len(zf) = f
  BY <1>1, ZerosOf
<1> DEFINE L == Len(sg) + Len(mk) + Lead(c) + Octal(c) + Places(c)
<1>6. Fill(c) = IF "ZEROPAD" \in c.flags /\ "LEFT" \notin c.flags THEN Greater(0, c.width - L) ELSE 0
  BY DEF Fill
<1>7. StandardBody(c) = s \o Copies("0", zeros) \o d
  BY Zenon DEF StandardBody
<1>8. Len(s \o d) = L
  <2> HIDE DEF s, d, sg, mk, sh, za
  <2>1. s \in Seq(Char) /\ Len(s) = Len(sg) + Len(mk) /\ Len(sg) \in Nat /\ Len(mk) \in Nat
    BY <1>2, JoinChars, Zenon
  <2>2. d \in Seq(Char) /\ Len(d) = Len(za) + Len(sh)
    BY <1>3, <1>4, <1>5, JoinChars, Zenon
  <2>3. Len(s \o d) = Len(s) + Len(d)
    BY <2>1, <2>2, JoinChars, Zenon
  <2>4. Len(s \o d) = (Len(sg) + Len(mk)) + (a + Places(c))
    BY <1>3, <1>5, <2>1, <2>2, <2>3, Zenon
  <2>5. (Len(sg) + Len(mk)) + (a + Places(c)) = L
    BY <1>1, <1>3, <2>1
  <2>. QED
    BY <2>4, <2>5, Zenon
<1>9. zeros = f
  <2> HIDE DEF L, s, d
  <2>. QED
    BY <1>6, <1>8, Zenon DEF f
<1>10. StandardBody(c) = (s \o zf) \o d
  <2> HIDE DEF zeros, f, s, d
  <2>. QED
    BY <1>7, <1>9, Zenon
<1> HIDE DEF s, d, zeros, L, sg, mk, sh
<1>11. (s \o zf) \o d = sg \o (mk \o (zf \o (za \o sh)))
  <2> HIDE DEF za, zf
  <2>1. (s \o zf) \o d = s \o (zf \o d)
    <3>1. s \in Seq(Char) /\ d \in Seq(Char)
      BY <1>2, <1>3, <1>4, <1>5, JoinChars, Zenon
    <3>. QED
      BY <1>5, <3>1, AssociateChars, Zenon
  <2>2. (sg \o mk) \o (zf \o d) = sg \o (mk \o (zf \o d))
    <3>1. d \in Seq(Char)
      BY <1>3, <1>4, <1>5, JoinChars, Zenon
    <3>2. zf \o d \in Seq(Char)
      BY <1>5, <3>1, JoinChars, Zenon
    <3>. QED
      BY <1>2, <3>2, AssociateChars, Zenon
  <2>. QED
    BY <1>2, <1>4, <2>1, <2>2, Zenon
<1>12. zf \o (za \o sh) = Copies("0", f + a) \o sh
  <2>1. zf \o za = Copies("0", f + a)
    BY <1>1, CopiesJoin
  <2> HIDE DEF za, zf
  <2>2. (zf \o za) \o sh = zf \o (za \o sh)
    BY <1>3, <1>5, AssociateChars, Zenon
  <2>. QED
    BY <2>1, <2>2, Zenon
<1>13. f + a = Fill(c) + Lead(c) + Octal(c)
  BY <1>1
<1> HIDE DEF f, a
<1>14. StandardBody(c) = sg \o (mk \o (Copies("0", Fill(c) + Lead(c) + Octal(c)) \o sh))
  BY <1>10, <1>11, <1>12, <1>13, Zenon
<1>. QED
  BY <1>14, Zenon DEF Body, sg, mk, sh

-----------------------------------------------------------------------------
(* The stages of print_integer: what each makes of the buffer.             *)

\* The zeros put into the buffer behind the digits, and the zero that is the prefix of
\* an octal number.
Zeros(c) == (IF HasPrefix(c) THEN PaddedLen(c) - TakeBack(c) ELSE PaddedLen(c)) - Len(Digits(c))
OctalPut(c) == IF HasPrefix(c) /\ c.base = 8 THEN 1 ELSE 0

\* What is known of a number that is printable.
Sizable(c) ==
    /\ Regular(c) /\ Printable(c)
    /\ Len(Sign(c)) + Len(Mark(c)) + (Fill(c) + Lead(c) + Octal(c)) + Places(c) <= BufSize

\* What fits the buffer, by the sizes of the parts.
LEMMA PrintableSizes ==
    ASSUME NEW c, Regular(c), Printable(c)
    PROVE  Sizable(c)
<1> DEFINE z == Fill(c) + Lead(c) + Octal(c)
<1>1. z \in Nat
  BY ZerosAre
<1>2. StandardBody(c) = Body(c, z)
  BY StandardBodyIs
<1> HIDE DEF z
<1>3. Len(Body(c, z)) = Len(Sign(c)) + Len(Mark(c)) + z + Places(c)
  BY <1>1, BodyIs
<1>4. Len(StandardBody(c)) <= BufSize
  BY DEF Printable
<1>. QED
  BY <1>2, <1>3, <1>4 DEF Sizable, z

\* Every quantity by a name.
LEMMA Quantities ==
    ASSUME NEW c, Sizable(c)
    PROVE  /\ Places(c) \in Nat /\ Lone(c) \in 0..1 /\ Len(Digits(c)) = Lone(c) + Places(c)
           /\ Places(c) <= BufSize /\ BufSize \in Nat /\ BufSize >= 1
           /\ c.width \in Nat /\ c.precision \in Nat /\ ZeroWidth(c) \in Nat
           /\ Lead(c) \in Nat /\ Octal(c) \in 0..1 /\ Fill(c) \in Nat
           /\ Len(Sign(c)) = (IF SignFlag(c) THEN 1 ELSE 0)
           /\ Len(Mark(c)) = (IF Marked(c) THEN 2 ELSE 0)
<1>1. Regular(c)
  BY DEF Sizable
<1>2. Places(c) \in Nat /\ Lead(c) \in Nat /\ Octal(c) \in 0..1 /\ Fill(c) \in Nat
  BY <1>1, ShownIs, ZerosAre
<1>3. /\ Len(Sign(c)) = (IF SignFlag(c) THEN 1 ELSE 0)
      /\ Len(Mark(c)) = (IF Marked(c) THEN 2 ELSE 0)
  BY <1>1, SignMarkAre
<1>4. BufSize \in Nat /\ BufSize >= 1
  BY BufSizeAssumption
<1>5. Places(c) <= BufSize
  <2> DEFINE s == Len(Sign(c))
             m == Len(Mark(c))
  <2>1. s \in Nat /\ m \in Nat
    BY <1>3
  <2>2. s + m + (Fill(c) + Lead(c) + Octal(c)) + Places(c) <= BufSize
    BY DEF Sizable
  <2> HIDE DEF s, m
  <2>. QED
    BY <1>2, <1>4, <2>1, <2>2
<1>6. c.width \in Nat /\ c.precision \in Nat
  BY <1>1 DEF Regular
<1>7. ZeroWidth(c) \in Nat
  BY <1>6 DEF ZeroWidth
<1>8. Lone(c) \in 0..1 /\ Len(Digits(c)) = Lone(c) + Places(c)
  BY <1>1, <1>5, DigitsReversed
<1>. QED
  BY <1>2, <1>3, <1>4, <1>5, <1>6, <1>7, <1>8

\* The prefix is the mark of base 2 or 16, or the zero of an octal number.
LEMMA PrefixIs ==
    ASSUME NEW c, Sizable(c)
    PROVE  /\ c.base \in {2, 16} => (HasPrefix(c) <=> Marked(c))
           /\ c.base = 10 => ~HasPrefix(c)
           /\ c.base \notin {2, 16} => ~Marked(c)
<1>1. Regular(c) /\ ~(c.value = 0 /\ c.base = 2 /\ {"HASH", "PRECISION"} \subseteq c.flags)
  BY DEF Sizable, Printable
<1>2. c.base = 10 => ~HasPrefix(c)
  BY <1>1 DEF Regular, HasPrefix
<1>3. ASSUME c.base \in {2, 16}
      PROVE  HasPrefix(c) <=> Marked(c)
  <2>1. HasPrefix(c) <=> "POINTER" \in c.flags \/ ("HASH" \in c.flags /\ ~DropsHash(c))
    BY <1>3 DEF HasPrefix
  <2>2. "HASH" \in c.flags => (DropsHash(c) <=> c.value = 0)
    BY <1>1, <1>3 DEF DropsHash
  <2>. QED
    BY <1>3, <2>1, <2>2 DEF Marked
<1>4. c.base \notin {2, 16} => ~Marked(c)
  BY DEF Marked
<1>. QED
  BY <1>2, <1>3, <1>4

\* The lesser of two.
LEMMA LesserIs == \A a, b \in Int : Lesser(a, b) \in {a, b} /\ Lesser(a, b) <= a /\ Lesser(a, b) <= b
  BY DEF Lesser

\* Under a precision.
LEMMA ZerosOfPrecision ==
    ASSUME NEW c, Sizable(c), "PRECISION" \in c.flags
    PROVE  Zeros(c) \in Nat /\ Zeros(c) + Lone(c) + OctalPut(c) = Fill(c) + Lead(c) + Octal(c)
<1> DEFINE n == Places(c)
           p == c.precision
           u == Len(Digits(c))
           P == PaddedLen(c)
           B == BufSize
           sg == Len(Sign(c))
           mk == Len(Mark(c))
           lead == Lead(c)
           oct == Octal(c)
           fill == Fill(c)
<1>1. "ZEROPAD" \notin c.flags
  BY DEF Sizable, Regular
<1>2. /\ n \in Nat /\ u = n /\ Lone(c) = 0 /\ B \in Nat /\ p \in Nat
      /\ lead \in Nat /\ oct \in 0..1 /\ fill = 0 /\ sg \in Nat /\ mk \in Nat
  BY <1>1, Quantities DEF Lone, Fill
<1>3. sg + mk + (fill + lead + oct) + n <= B
  BY DEF Sizable
<1>4. lead = Greater(0, p - n)
  BY DEF Lead
<1>5. P = Greater(u, Lesser(p, B))
  BY <1>1 DEF PaddedLen
<1>6. TakeBack(c) = 0
  BY DEF TakeBack
<1>7. DropsHash(c) <=> c.value = 0 /\ c.base = 16
  BY DEF DropsHash
<1>8. oct = 1 <=> "HASH" \in c.flags /\ c.base = 8 /\ lead = 0
  BY DEF Octal
<1>9. OctalPut(c) = (IF HasPrefix(c) /\ c.base = 8 THEN 1 ELSE 0)
  BY DEF OctalPut
<1>10. c.base = 8 => (HasPrefix(c) <=> "HASH" \in c.flags /\ ~(P > u))
  <2>1. "POINTER" \in c.flags => c.base = 16
    BY DEF Sizable, Regular
  <2>. QED
    BY <1>7, <2>1 DEF HasPrefix
<1>11. Zeros(c) = P - u
  <2>1. P \in Int
    BY <1>2, <1>5, GreaterIs, LesserIs
  <2> HIDE DEF P, u
  <2>. QED
    BY <1>2, <1>6, <2>1 DEF Zeros, P, u
<1> HIDE DEF n, p, u, P, B, sg, mk, lead, oct, fill
<1>12. P = n + lead
  BY <1>2, <1>3, <1>4, <1>5 DEF Greater, Lesser
<1>13. OctalPut(c) = oct
  BY <1>2, <1>8, <1>9, <1>10, <1>12
<1>14. Zeros(c) \in Nat /\ Zeros(c) + Lone(c) + OctalPut(c) = fill + lead + oct
  BY <1>2, <1>11, <1>12, <1>13
<1>. QED
  BY <1>14 DEF fill, lead, oct

\* Without a precision.
LEMMA ZerosOfWidth ==
    ASSUME NEW c, Sizable(c), "PRECISION" \notin c.flags
    PROVE  Zeros(c) \in Nat /\ Zeros(c) + Lone(c) + OctalPut(c) = Fill(c) + Lead(c) + Octal(c)
<1> DEFINE n == Places(c)
           w == c.width
           zw == ZeroWidth(c)
           u == Len(Digits(c))
           lone == Lone(c)
           P == PaddedLen(c)
           B == BufSize
           sg == Len(Sign(c))
           mk == Len(Mark(c))
           lead == Lead(c)
           oct == Octal(c)
           fill == Fill(c)
           put == OctalPut(c)
           tb == TakeBack(c)
           zs == Zeros(c)
           zp == "ZEROPAD" \in c.flags /\ "LEFT" \notin c.flags
           hp == HasPrefix(c)
           hash == "HASH" \in c.flags
<1>1. /\ n \in Nat /\ lone \in 0..1 /\ u = lone + n /\ B \in Nat /\ B >= 1 /\ n <= B
      /\ w \in Nat /\ zw \in Nat /\ lead \in Nat /\ oct \in 0..1 /\ fill \in Nat
      /\ sg = (IF SignFlag(c) THEN 1 ELSE 0)
      /\ mk = (IF Marked(c) THEN 2 ELSE 0)
  BY Quantities
<1>2. sg + mk + (fill + lead + oct) + n <= B
  BY DEF Sizable
<1>3. c.precision = 0 /\ (c.value = 0 <=> n = 0) /\ c.base \in {2, 8, 10, 16}
  BY ShownIs DEF Sizable, Regular
<1>4. lone = (IF n = 0 THEN 1 ELSE 0)
  BY <1>3 DEF Lone
<1>5. lead = Greater(0, 1 - n)
  BY DEF Lead
<1>6. zw = (IF zp /\ SignFlag(c) /\ w > 0 THEN w - 1 ELSE w)
  BY DEF ZeroWidth
<1>7. P = Greater(IF zp THEN Greater(u, Lesser(zw, B)) ELSE u, Lesser(0, B))
  BY <1>3 DEF PaddedLen
<1>8. fill = (IF zp THEN Greater(0, w - (sg + mk + lead + oct + n)) ELSE 0)
  BY DEF Fill
<1>9. oct = (IF hash /\ c.base = 8 /\ lead = 0 THEN 1 ELSE 0)
  BY DEF Octal
<1>10. put = (IF hp /\ c.base = 8 THEN 1 ELSE 0)
  BY DEF OctalPut
<1>11. c.base = 8 => (hp <=> hash /\ n # 0 /\ ~(P > u))
  <2>1. "POINTER" \in c.flags => c.base = 16
    BY DEF Sizable, Regular
  <2>2. DropsHash(c) <=> n = 0
    BY <1>3 DEF DropsHash
  <2>. QED
    BY <2>1, <2>2 DEF HasPrefix
<1>12. tb = IF P \in {0, zw} THEN Lesser(P - u, IF c.base \in {2, 16} THEN 2 ELSE 1) ELSE 0
  BY <1>3 DEF TakeBack
<1>13. zs = (IF hp THEN P - tb ELSE P) - u
  BY DEF Zeros
<1>14. (c.base \in {2, 16} => (hp <=> Marked(c))) /\ (c.base = 10 => ~hp) /\ (c.base \notin {2, 16} => ~Marked(c))
  BY PrefixIs
<1> HIDE DEF n, w, zw, u, lone, P, B, sg, mk, lead, oct, fill, put, tb, zs, zp, hp, hash
<1>15. lead = lone
  BY <1>1, <1>4, <1>5 DEF Greater
<1>16. CASE ~zp
  <2>1. P = u /\ fill = 0
    BY <1>1, <1>7, <1>8, <1>16 DEF Greater, Lesser
  <2>2. tb = 0
    BY <1>1, <1>12, <2>1 DEF Lesser
  <2>3. zs = 0
    BY <1>1, <1>13, <2>1, <2>2
  <2>4. put = oct
    BY <1>1, <1>4, <1>9, <1>10, <1>11, <1>15, <2>1
  <2>. QED
    BY <1>1, <1>15, <2>1, <2>3, <2>4 DEF zs, lone, put, fill, lead, oct
<1>17. CASE zp
  <2>1. zw <= B
    <3>1. zw <= w /\ w <= zw + sg
      BY <1>1, <1>6
    <3>2. fill = Greater(0, w - (sg + mk + lead + oct + n))
      BY <1>8, <1>17
    <3>3. mk \in 0..2 /\ sg \in 0..1
      BY <1>1
    <3>4. fill >= w - (sg + mk + lead + oct + n)
      BY <1>1, <3>2, <3>3 DEF Greater
    <3>. QED
      BY <1>1, <1>2, <3>1, <3>3, <3>4
  <2>2. P = Greater(u, zw)
    BY <1>1, <1>7, <1>17, <2>1 DEF Greater, Lesser
  <2>3. fill = Greater(0, zw - (mk + lead + oct + n))
    <3>1. fill = Greater(0, w - (sg + mk + lead + oct + n))
      BY <1>8, <1>17
    <3>2. CASE SignFlag(c) /\ w > 0
      <4>1. zw = w - 1 /\ sg = 1
        BY <1>1, <1>6, <1>17, <3>2
      <4>2. mk \in Nat
        BY <1>1
      <4>3. w - (sg + mk + lead + oct + n) = zw - (mk + lead + oct + n)
        BY <1>1, <4>1, <4>2
      <4>. QED
        BY <3>1, <4>3
    <3>3. CASE ~SignFlag(c)
      <4>1. zw = w /\ sg = 0
        BY <1>1, <1>6, <3>3
      <4>2. mk \in Nat
        BY <1>1
      <4>3. w - (sg + mk + lead + oct + n) = zw - (mk + lead + oct + n)
        BY <1>1, <4>1, <4>2
      <4>. QED
        BY <3>1, <4>3
    <3>4. CASE SignFlag(c) /\ ~(w > 0)
      <4>1. zw = 0 /\ w = 0 /\ sg = 1
        BY <1>1, <1>6, <3>4
      <4>2. mk \in Nat
        BY <1>1
      <4>3. Greater(0, w - (sg + mk + lead + oct + n)) = 0
        BY <1>1, <4>1, <4>2 DEF Greater
      <4>4. Greater(0, zw - (mk + lead + oct + n)) = 0
        BY <1>1, <4>1, <4>2 DEF Greater
      <4>. QED
        BY <3>1, <4>3, <4>4
    <3>. QED
      BY <3>2, <3>3, <3>4
  <2>4. CASE c.base \in {2, 16}
    <3>1. oct = 0 /\ put = 0
      BY <1>9, <1>10, <2>4
    <3>2. CASE hp
      <4>1. mk = 2
        BY <1>1, <1>14, <2>4, <3>2
      <4>2. tb = IF P \in {0, zw} THEN Lesser(P - u, 2) ELSE 0
        BY <1>12, <2>4
      <4>3. zs = P - tb - u
        BY <1>1, <1>13, <3>2
      <4>4. zs = fill
        BY <1>1, <1>15, <2>2, <2>3, <3>1, <4>1, <4>2, <4>3 DEF Greater, Lesser
      <4>. QED
        BY <1>1, <1>15, <3>1, <4>4 DEF zs, lone, put, fill, lead, oct
    <3>3. CASE ~hp
      <4>1. mk = 0
        BY <1>1, <1>14, <2>4, <3>3
      <4>2. zs = P - u
        BY <1>13, <3>3
      <4>3. zs = fill
        BY <1>1, <1>15, <2>2, <2>3, <3>1, <4>1, <4>2 DEF Greater
      <4>. QED
        BY <1>1, <1>15, <3>1, <4>3 DEF zs, lone, put, fill, lead, oct
    <3>. QED
      BY <3>2, <3>3
  <2>5. CASE c.base = 10
    <3>1. oct = 0 /\ put = 0 /\ mk = 0 /\ zs = P - u
      BY <1>1, <1>9, <1>10, <1>13, <1>14, <2>5
    <3>2. zs = fill
      BY <1>1, <1>15, <2>2, <2>3, <3>1 DEF Greater
    <3>. QED
      BY <1>1, <1>15, <3>1, <3>2 DEF zs, lone, put, fill, lead, oct
  <2>6. CASE c.base = 8
    <3>1. mk = 0
      BY <1>1, <1>14, <2>6
    <3>2. oct = IF hash /\ n # 0 THEN 1 ELSE 0
      BY <1>1, <1>4, <1>9, <1>15, <2>6
    <3>3. put = IF hash /\ n # 0 /\ ~(P > u) THEN 1 ELSE 0
      BY <1>10, <1>11, <2>6
    <3>4. CASE P > u
      <4>1. zs = P - u /\ put = 0
        BY <1>11, <1>13, <2>6, <3>3, <3>4
      <4>2. zs = fill + oct
        BY <1>1, <1>15, <2>2, <2>3, <3>1, <3>4, <4>1 DEF Greater
      <4>. QED
        BY <1>1, <1>15, <4>1, <4>2 DEF zs, lone, put, fill, lead, oct
    <3>5. CASE ~(P > u)
      <4>1. P = u /\ zw <= u
        BY <1>1, <2>2, <3>5 DEF Greater
      <4>2. tb = 0
        BY <1>1, <1>12, <2>6, <4>1 DEF Lesser
      <4>3. zs = 0
        BY <1>1, <1>13, <4>1, <4>2
      <4>4. put = oct
        BY <3>2, <3>3, <3>5
      <4>5. fill = 0
        BY <1>1, <1>15, <2>3, <3>1, <4>1 DEF Greater
      <4>. QED
        BY <1>1, <1>15, <4>3, <4>4, <4>5 DEF zs, lone, put, fill, lead, oct
    <3>. QED
      BY <3>4, <3>5
  <2>. QED
    BY <1>3, <2>4, <2>5, <2>6
<1>. QED
  BY <1>16, <1>17

\* A character put into a buffer with room for it comes first in reading order.
LEMMA PutFirst ==
    ASSUME NEW s \in Seq(Char), NEW x \in Char, Len(s) < BufSize
    PROVE  /\ Put(s, x) \in Seq(Char) /\ Len(Put(s, x)) = Len(s) + 1
           /\ Reverse(Put(s, x)) = <<x>> \o Reverse(s)
<1>1. Put(s, x) = Append(s, x)
  BY DEF Put
<1>. QED
  BY <1>1, ReverseOne

\* Two characters in a row.
LEMMA TwoChars == \A a, b \in Char : <<a>> \in Seq(Char) /\ <<a>> \o <<b>> = <<a, b>>
<1> SUFFICES ASSUME NEW a \in Char, NEW b \in Char
             PROVE  <<a>> \in Seq(Char) /\ <<a>> \o <<b>> = <<a, b>>
  OBVIOUS
<1>1. <<a>> \in Seq(Char) /\ <<b>> \in Seq(Char) /\ <<a, b>> \in Seq(Char)
  OBVIOUS
<1>2. Len(<<a>> \o <<b>>) = 2 /\ Len(<<a, b>>) = 2 /\ <<a>> \o <<b>> \in Seq(Char)
  OBVIOUS
<1>3. (<<a>> \o <<b>>)[1] = a /\ (<<a>> \o <<b>>)[2] = b
  OBVIOUS
<1>. QED
  <2> DEFINE s == <<a>> \o <<b>>
             t == <<a, b>>
  <2>1. t[1] = a /\ t[2] = b
    OBVIOUS
  <2>. HIDE DEF s, t
  <2>2. \A i \in 1..2 : i = 1 \/ i = 2
    OBVIOUS
  <2>3. \A i \in 1..Len(s) : s[i] = t[i]
    BY <1>2, <1>3, <2>1, <2>2 DEF s, t
  <2>4. s = t
    BY <1>1, <1>2, <2>3, SeqEqual DEF s, t
  <2>. QED
    BY <1>1, <2>4 DEF s, t

\* The padded digits in reading order.
LEMMA PaddedIs ==
    ASSUME NEW c, Sizable(c)
    PROVE  /\ Zeros(c) \in Nat /\ Padded(c) \in Seq(Char)
           /\ Len(Padded(c)) = Zeros(c) + Lone(c) + Places(c)
           /\ Reverse(Padded(c)) = Copies("0", Zeros(c) + Lone(c)) \o Shown(c)
           /\ Zeros(c) + Lone(c) + OctalPut(c) = Fill(c) + Lead(c) + Octal(c)
<1> DEFINE z == Zeros(c)
           l == Lone(c)
           d == Digits(c)
           sh == Shown(c)
           zs == Copies("0", z)
           ls == Copies("0", l)
<1>1. z \in Nat /\ z + l + OctalPut(c) = Fill(c) + Lead(c) + Octal(c)
  BY ZerosOfPrecision, ZerosOfWidth
<1>2. Regular(c) /\ l \in Nat /\ Places(c) \in Nat /\ Places(c) <= BufSize
  BY Quantities DEF Sizable
<1>3. d \in Seq(Char) /\ Len(d) = l + Places(c) /\ Reverse(d) = ls \o sh
  BY <1>2, DigitsReversed
<1>4. sh \in Seq(Char)
  BY <1>2, ShownIs
<1>5. Padded(c) = d \o zs
  BY Zenon DEF Padded, Zeros
<1>6. /\ zs \in Seq(Char) /\ Len(zs) = z /\ Reverse(zs) = zs
      /\ ls \in Seq(Char) /\ zs \o ls = Copies("0", z + l)
  BY <1>1, <1>2, ZerosOf, ReverseCopies, CopiesJoin
<1> HIDE DEF z, l, d, sh, zs, ls
<1>7. d \o zs \in Seq(Char) /\ Len(d \o zs) = Len(d) + Len(zs)
  BY <1>3, <1>6, JoinChars, Zenon
<1>8. Len(d \o zs) = z + l + Places(c)
  BY <1>1, <1>2, <1>3, <1>6, <1>7
<1>9. Reverse(d \o zs) = zs \o (ls \o sh)
  <2>1. Reverse(d \o zs) = Reverse(zs) \o Reverse(d)
    BY <1>3, <1>6, ReverseJoin
  <2>. QED
    BY <1>3, <1>6, <2>1, Zenon
<1>10. (zs \o ls) \o sh = zs \o (ls \o sh)
  BY <1>4, <1>6, AssociateChars, Zenon
<1>11. Reverse(Padded(c)) = Copies("0", z + l) \o sh
  BY <1>5, <1>6, <1>9, <1>10, Zenon
<1>12. Padded(c) \in Seq(Char) /\ Len(Padded(c)) = z + l + Places(c)
  BY <1>5, <1>7, <1>8, Zenon
<1>. QED
  BY <1>1, <1>11, <1>12 DEF z, l, sh

\* With the prefix: the mark, or one more zero.
LEMMA WithPrefixIs ==
    ASSUME NEW c, Sizable(c)
    PROVE  LET z == Fill(c) + Lead(c) + Octal(c)
           IN  /\ WithPrefix(c) \in Seq(Char) /\ Len(WithPrefix(c)) = Len(Mark(c)) + z + Places(c)
               /\ Reverse(WithPrefix(c)) = Mark(c) \o (Copies("0", z) \o Shown(c))
<1> DEFINE z == Fill(c) + Lead(c) + Octal(c)
           y == Zeros(c) + Lone(c)
           p == Padded(c)
           n == Places(c)
           sh == Shown(c)
           mk == Mark(c)
           t == Copies("0", y) \o sh
           w == WithPrefix(c)
<1>0. Regular(c) /\ c.base \in {2, 8, 10, 16}
  BY DEF Sizable, Regular
<1>1. /\ p \in Seq(Char) /\ Len(p) = y + n /\ y \in Nat /\ n \in Nat
      /\ Reverse(p) = t /\ y + OctalPut(c) = z /\ z \in Nat
  <2>1. Zeros(c) \in Nat /\ Lone(c) \in Nat /\ n \in Nat
    BY PaddedIs, Quantities
  <2>2. Fill(c) \in Nat /\ Lead(c) \in Nat /\ Octal(c) \in Nat
    BY Quantities
  <2>3. /\ p \in Seq(Char) /\ Len(p) = Zeros(c) + Lone(c) + n
        /\ Reverse(p) = t
        /\ Zeros(c) + Lone(c) + OctalPut(c) = z
    BY PaddedIs
  <2>. QED
    BY <2>1, <2>2, <2>3
<1>2. Len(Sign(c)) + Len(mk) + z + n <= BufSize /\ Len(Sign(c)) \in Nat /\ Len(mk) \in Nat /\ BufSize \in Nat
  BY Quantities DEF Sizable
<1>3. /\ c.base \in {2, 16} => (HasPrefix(c) <=> Marked(c))
      /\ c.base = 10 => ~HasPrefix(c)
      /\ c.base \notin {2, 16} => ~Marked(c)
  BY PrefixIs
<1>4. sh \in Seq(Char) /\ Copies("0", y) \in Seq(Char) /\ t \in Seq(Char)
  <2>1. sh \in Seq(Char) /\ Copies("0", y) \in Seq(Char)
    BY <1>0, <1>1, ShownIs, ZerosOf
  <2>. QED
    BY <2>1, JoinChars, Zenon
<1>5. "0" \in Char /\ "x" \in Char /\ "b" \in Char
  BY LettersAre, Zenon DEF Letters
<1>6. OctalPut(c) = (IF HasPrefix(c) /\ c.base = 8 THEN 1 ELSE 0)
  BY DEF OctalPut
<1>7. /\ Marked(c) /\ c.base = 16 => mk = <<"0", "x">>
      /\ Marked(c) /\ c.base = 2 => mk = <<"0", "b">>
      /\ ~Marked(c) => mk = <<>>
  BY DEF Mark
<1> HIDE DEF p, n, sh, mk, z, y, t
<1>8. CASE ~HasPrefix(c)
  <2>1. w = p /\ z = y
    BY <1>1, <1>6, <1>8 DEF WithPrefix, p
  <2>2. ~Marked(c)
    BY <1>3, <1>8
  <2>3. mk = <<>> /\ <<>> \o t = t /\ Len(mk) = 0
    BY <1>4, <1>7, <2>2
  <2>4. Reverse(w) = mk \o t
    BY <1>1, <2>1, <2>3, Zenon
  <2>5. w \in Seq(Char) /\ Len(w) = Len(mk) + z + n
    BY <1>1, <2>1, <2>3
  <2>. QED
    BY <2>1, <2>4, <2>5 DEF z, n, mk, t, sh
<1>9. CASE HasPrefix(c) /\ c.base = 8
  <2>1. w = Put(p, "0")
    BY <1>9 DEF WithPrefix, p
  <2>2. z = y + 1
    BY <1>1, <1>6, <1>9
  <2>3. mk = <<>> /\ Len(mk) = 0
    BY <1>3, <1>7, <1>9
  <2>4. Len(p) < BufSize
    BY <1>1, <1>2, <2>2, <2>3
  <2>5. w \in Seq(Char) /\ Len(w) = Len(p) + 1 /\ Reverse(w) = <<"0">> \o t
    BY <1>1, <1>5, <2>1, <2>4, PutFirst
  <2>6. Len(w) = Len(mk) + z + n
    BY <1>1, <2>2, <2>3, <2>5
  <2>7. <<"0">> \o t = Copies("0", z) \o sh
    <3> DEFINE o == Copies("0", 1)
               ys == Copies("0", y)
    <3>1. o = <<"0">>
      BY DEF Copies
    <3>2. o \in Seq(Char) /\ ys \in Seq(Char)
      BY <1>1, ZerosOf
    <3>3. o \o ys = Copies("0", z)
      <4>1. 1 \in Nat /\ y \in Nat /\ 1 + y = z
        BY <1>1, <2>2
      <4>2. o \o ys = Copies("0", 1 + y)
        BY <4>1, CopiesJoin
      <4>. QED
        BY <4>1, <4>2, Zenon
    <3> HIDE DEF o, ys
    <3>4. (o \o ys) \o sh = o \o (ys \o sh)
      BY <1>4, <3>2, AssociateChars, Zenon
    <3>. QED
      BY <3>1, <3>3, <3>4, Zenon DEF t, ys
  <2>8. Copies("0", z) \o sh \in Seq(Char)
    <3>1. Copies("0", z) \in Seq(Char)
      BY <1>1, ZerosOf
    <3>. QED
      BY <1>4, <3>1, JoinChars, Zenon
  <2>9. mk \o (Copies("0", z) \o sh) = Copies("0", z) \o sh
    BY <2>3, <2>8
  <2>. QED
    BY <2>5, <2>6, <2>7, <2>9 DEF z, n, mk, sh
<1>10. ASSUME NEW x \in Char, w = Put(Put(p, x), "0"), mk = <<"0", x>>, y = z
       PROVE  /\ w \in Seq(Char) /\ Len(w) = Len(mk) + z + n
              /\ Reverse(w) = mk \o (Copies("0", z) \o sh)
  <2> DEFINE q == Put(p, x)
             ox == <<x>>
             oo == <<"0">>
  <2>1. Len(mk) = 2
    BY <1>10
  <2>2. Len(p) < BufSize
    BY <1>1, <1>2, <1>10, <2>1
  <2>3. q \in Seq(Char) /\ Len(q) = Len(p) + 1 /\ Reverse(q) = ox \o t
    BY <1>1, <2>2, PutFirst
  <2> HIDE DEF q
  <2>4. Len(q) < BufSize
    BY <1>1, <1>2, <1>10, <2>1, <2>3
  <2>5. w = Put(q, "0")
    BY <1>10 DEF q
  <2>6. w \in Seq(Char) /\ Len(w) = Len(q) + 1 /\ Reverse(w) = oo \o Reverse(q)
    BY <1>5, <2>3, <2>4, <2>5, PutFirst
  <2>7. Len(w) = Len(mk) + z + n
    BY <1>1, <1>10, <2>1, <2>3, <2>6
  <2>8. ox \in Seq(Char) /\ oo \in Seq(Char) /\ oo \o ox = mk
    <3>1. \A a, b \in Char : <<a>> \in Seq(Char) /\ <<a>> \o <<b>> = <<a, b>>
      BY TwoChars
    <3>2. "0" \in Char /\ x \in Char
      BY <1>5
    <3>3. mk = <<"0", x>>
      BY <1>10
    <3>. QED
      BY <3>1, <3>2, <3>3, Zenon
  <2> HIDE DEF ox, oo
  <2>9. (oo \o ox) \o t = oo \o (ox \o t)
    BY <1>4, <2>8, AssociateChars, Zenon
  <2>. QED
    BY <1>10, <2>3, <2>6, <2>7, <2>8, <2>9, Zenon DEF t
<1>11. CASE HasPrefix(c) /\ c.base = 16
  <2>1. w = Put(Put(p, "x"), "0")
    BY <1>11 DEF WithPrefix, p
  <2>2. mk = <<"0", "x">> /\ y = z
    BY <1>1, <1>3, <1>6, <1>7, <1>11
  <2>. QED
    BY <1>5, <1>10, <2>1, <2>2 DEF z, n, mk, sh
<1>12. CASE HasPrefix(c) /\ c.base = 2
  <2>1. w = Put(Put(p, "b"), "0")
    BY <1>12 DEF WithPrefix, p
  <2>2. mk = <<"0", "b">> /\ y = z
    BY <1>1, <1>3, <1>6, <1>7, <1>12
  <2>. QED
    BY <1>5, <1>10, <2>1, <2>2 DEF z, n, mk, sh
<1>. QED
  BY <1>0, <1>3, <1>8, <1>9, <1>11, <1>12

\* The finished buffer is the number of the standard, reversed.
LEMMA FinishedIs ==
    ASSUME NEW c, Sizable(c)
    PROVE  /\ Finished(c) \in Seq(Char) /\ Len(Finished(c)) = Len(StandardBody(c))
           /\ Reverse(Finished(c)) = StandardBody(c) /\ StandardBody(c) \in Seq(Char)
<1> DEFINE z == Fill(c) + Lead(c) + Octal(c)
           w == WithPrefix(c)
           sg == Sign(c)
           m == Mark(c) \o (Copies("0", z) \o Shown(c))
           n == Places(c)
           mk == Len(Mark(c))
           f == Finished(c)
<1>0. Regular(c)
  BY DEF Sizable
<1>1. w \in Seq(Char) /\ Len(w) = mk + z + n /\ Reverse(w) = m
  BY WithPrefixIs
<1>2. Len(sg) + mk + z + n <= BufSize /\ Len(sg) \in Nat /\ mk \in Nat /\ BufSize \in Nat /\ n \in Nat /\ z \in Nat
  <2>1. Len(sg) \in Nat /\ mk \in Nat /\ BufSize \in Nat /\ n \in Nat
    BY Quantities
  <2>2. Fill(c) \in Nat /\ Lead(c) \in Nat /\ Octal(c) \in Nat
    BY Quantities
  <2>. QED
    BY <2>1, <2>2 DEF Sizable
<1>3. StandardBody(c) = Body(c, z)
  BY <1>0, StandardBodyIs
<1>4. Body(c, z) = sg \o m
  BY Zenon DEF Body
<1>5. Body(c, z) \in Seq(Char) /\ Len(Body(c, z)) = Len(sg) + mk + z + n
  <2> HIDE DEF z
  <2>. QED
    BY <1>0, <1>2, BodyIs
<1>6. \/ SignFlag(c) /\ \E x \in Char : sg = <<x>> /\ f = Put(w, x)
      \/ ~SignFlag(c) /\ sg = <<>> /\ f = w
  BY <1>0, SignIs, Zenon
<1> HIDE DEF w, sg, m, z, n, mk, f
<1>7. CASE SignFlag(c)
  <2>1. PICK x \in Char : sg = <<x>> /\ f = Put(w, x)
    BY <1>6, <1>7
  <2>2. Len(sg) = 1
    BY <2>1
  <2>3. Len(w) < BufSize
    BY <1>1, <1>2, <2>2
  <2>4. f \in Seq(Char) /\ Len(f) = Len(w) + 1 /\ Reverse(f) = <<x>> \o Reverse(w)
    BY <1>1, <2>1, <2>3, PutFirst
  <2>5. Len(f) = Len(sg) + mk + z + n
    BY <1>1, <1>2, <2>2, <2>4
  <2>6. Reverse(f) = sg \o m
    BY <1>1, <2>1, <2>4, Zenon
  <2>. QED
    BY <1>3, <1>4, <1>5, <2>4, <2>5, <2>6, Zenon DEF f
<1>8. CASE ~SignFlag(c)
  <2>1. sg = <<>> /\ f = w
    BY <1>6, <1>8
  <2>2. m \in Seq(Char)
    BY <1>1, ReverseHas
  <2>3. sg \o m = m /\ Len(sg) = 0
    BY <2>1, <2>2
  <2>4. Len(f) = Len(sg) + mk + z + n
    BY <1>1, <1>2, <2>1, <2>3
  <2>. QED
    BY <1>1, <1>3, <1>4, <1>5, <2>1, <2>3, <2>4, Zenon DEF f
<1>. QED
  BY <1>7, <1>8

\* No copies are nothing.
LEMMA NoCopies == \A x : Copies(x, 0) = <<>>
  BY DEF Copies

\* Three alternatives, one after the other.
LEMMA ThreeWays ==
    ASSUME NEW left \in BOOLEAN, NEW zero \in BOOLEAN, NEW a, NEW b, NEW d
    PROVE  (CASE left -> a [] ~left /\ ~zero -> b [] OTHER -> d)
              = IF left THEN a ELSE IF zero THEN d ELSE b
  OBVIOUS

\* out_rev_ by the flags.
LEMMA OutRevBy ==
    ASSUME NEW buf, NEW width, NEW flags
    PROVE  LET bl == Copies(" ", Greater(0, width - Len(buf)))
           IN  OutRev(buf, width, flags) =
                  IF "LEFT" \in flags THEN Reverse(buf) \o bl
                  ELSE IF "ZEROPAD" \in flags THEN Reverse(buf) ELSE bl \o Reverse(buf)
<1> DEFINE bl == Copies(" ", Greater(0, width - Len(buf)))
           left == "LEFT" \in flags
           zero == "ZEROPAD" \in flags
           none == flags \cap {"LEFT", "ZEROPAD"} = {}
           a == Reverse(buf) \o bl
           b == bl \o Reverse(buf)
           d == Reverse(buf)
<1>1. OutRev(buf, width, flags) = CASE left -> a [] none -> b [] OTHER -> d
  BY Zenon DEF OutRev
<1>2. none <=> ~left /\ ~zero
  OBVIOUS
<1> HIDE DEF bl, none, a, b, d
<1>3. left \in BOOLEAN /\ zero \in BOOLEAN /\ none \in BOOLEAN
  BY DEF none
<1>4. OutRev(buf, width, flags) = IF left THEN a ELSE IF zero THEN d ELSE b
  <2> HIDE DEF left, zero
  <2>. QED
    BY <1>1, <1>2, <1>3
<1>. QED
  BY <1>4, Zenon DEF a, b, d, bl

\* For every value, base, width, precision and flags it can be called with, if the
\* number fits the buffer: print_integer (printf.c:525) prints what the C standard asks
\* for, whatever zeros the prefix takes back in between.
THEOREM IntegerStandard ==
    ASSUME NEW c, Regular(c), Printable(c)
    PROVE  print_integer(c) = Standard(c)
<1> DEFINE f == Finished(c)
           s == StandardBody(c)
           zw == ZeroWidth(c)
           w == c.width
           k == Greater(0, zw - Len(f))
           j == Greater(0, w - Len(s))
           bl == Copies(" ", k)
           sb == Copies(" ", j)
           left == "LEFT" \in c.flags
           zero == "ZEROPAD" \in c.flags
<1>1. Sizable(c)
  BY PrintableSizes
<1>2. f \in Seq(Char) /\ Len(f) = Len(s) /\ Reverse(f) = s /\ s \in Seq(Char) /\ Len(s) \in Nat
  BY <1>1, FinishedIs
<1>3. print_integer(c) = IF left THEN Reverse(f) \o bl ELSE IF zero THEN Reverse(f) ELSE bl \o Reverse(f)
  BY OutRevBy, Zenon DEF print_integer
<1>4. Standard(c) = IF left THEN s \o sb ELSE sb \o s
  BY Zenon DEF Standard
<1>5. zw \in Nat /\ w \in Nat /\ (left \/ ~zero => zw = w)
  BY <1>1, Quantities DEF ZeroWidth
<1>6. left \/ ~zero => k = j
  BY <1>2, <1>5
<1>7. left \/ ~zero => bl = sb
  <2> HIDE DEF k, j, left, zero
  <2>. QED
    BY <1>6, Zenon
<1>8. ASSUME zero, ~left
      PROVE  sb \o s = s
  <2> DEFINE z == Fill(c) + Lead(c) + Octal(c)
             sg == Len(Sign(c))
             mk == Len(Mark(c))
             n == Places(c)
             fill == Fill(c)
             lead == Lead(c)
             oct == Octal(c)
  <2>1. sg \in Nat /\ mk \in Nat /\ n \in Nat /\ fill \in Nat /\ lead \in Nat /\ oct \in Nat /\ z \in Nat
    BY <1>1, Quantities
  <2>2. s = Body(c, z)
    BY StandardBodyIs
  <2>3. Len(s) = sg + mk + z + n
    <3> HIDE DEF z, s
    <3>1. Len(Body(c, z)) = sg + mk + z + n
      BY <2>1, BodyIs
    <3>. QED
      BY <2>2, <3>1, Zenon
  <2>4. fill = Greater(0, w - (sg + mk + lead + oct + n))
    BY <1>8 DEF Fill
  <2>5. z = fill + lead + oct
    OBVIOUS
  <2> HIDE DEF sg, mk, n, fill, lead, oct, z, s, w, bl, sb, k, zw, f
  <2> DEFINE need == sg + mk + lead + oct + n
             short == w - Len(s)
  <2>6. w \in Int
    BY <1>5
  <2>7. need \in Int /\ w - need \in Int
    BY <2>1, <2>6
  <2>8. fill >= w - need
    <3>1. fill = Greater(0, w - need)
      BY <2>4
    <3> HIDE DEF need
    <3>2. Greater(0, w - need) >= w - need
      BY <2>7, GreaterIs
    <3>. QED
      BY <3>1, <3>2, Zenon
  <2>9. Len(s) = need + fill
    BY <2>1, <2>3, <2>5
  <2>10. short \in Int /\ short <= 0
    <3> HIDE DEF need
    <3>. QED
      BY <2>1, <2>6, <2>7, <2>8, <2>9
  <2>11. j = Greater(0, short)
    OBVIOUS
  <2> HIDE DEF j, need, short
  <2>12. Greater(0, short) = 0
    <3>1. Greater(0, short) \in {0, short} /\ Greater(0, short) >= 0
      BY <2>10, GreaterIs
    <3>. QED
      BY <2>10, <3>1
  <2>13. j = 0
    BY <2>11, <2>12, Zenon
  <2>14. sb = <<>>
    BY <2>13, NoCopies, Zenon DEF sb
  <2>15. <<>> \o s = s
    BY <1>2
  <2>. QED
    BY <2>14, <2>15, Zenon
<1> HIDE DEF f, s, zw, w, k, j, bl, sb, left, zero
<1>9. left \in BOOLEAN /\ zero \in BOOLEAN
  BY DEF left, zero
<1>10. CASE left
  BY <1>2, <1>3, <1>4, <1>7, <1>10, Zenon
<1>11. CASE ~left /\ ~zero
  BY <1>2, <1>3, <1>4, <1>7, <1>11, Zenon
<1>12. CASE ~left /\ zero
  BY <1>2, <1>3, <1>4, <1>8, <1>12, Zenon
<1>. QED
  BY <1>9, <1>10, <1>11, <1>12, Zenon

\* Blanks are characters.
LEMMA BlankChars == \A n \in Nat : Copies(" ", n) \in Seq(Char)
<1>1. \A x \in Char : \A n \in Nat : Copies(x, n) \in Seq(Char)
  BY CopiesHave
<1>2. " " \in Char
  BY LettersAre, Zenon DEF Letters
<1>. QED
  BY <1>1, <1>2, Zenon

\* What is missing is a number.
LEMMA Short == \A a, b \in Int : Greater(0, a - b) \in Nat
  BY DEF Greater

\* out_rev_ and the fields print characters around characters.
LEMMA OutRevChars ==
    ASSUME NEW buf \in Seq(Char), NEW width \in Int, NEW flags
    PROVE  OutRev(buf, width, flags) \in Seq(Char)
<1> DEFINE bl == Copies(" ", Greater(0, width - Len(buf)))
           r == Reverse(buf)
<1>1. r \in Seq(Char) /\ Len(buf) \in Int
  BY ReverseHas
<1>2. bl \in Seq(Char)
  BY <1>1, Short, BlankChars, Zenon
<1>3. OutRev(buf, width, flags) = IF "LEFT" \in flags THEN r \o bl
                                  ELSE IF "ZEROPAD" \in flags THEN r ELSE bl \o r
  BY OutRevBy, Zenon
<1> HIDE DEF bl, r
<1>4. r \o bl \in Seq(Char) /\ bl \o r \in Seq(Char)
  BY <1>1, <1>2, JoinChars, Zenon
<1>. QED
  BY <1>1, <1>3, <1>4, Zenon

\* A field is of characters.
LEMMA FieldChars ==
    ASSUME NEW chars \in Seq(Char), spec.width \in Nat
    PROVE  Field(chars) \in Seq(Char)
<1> DEFINE bl == Copies(" ", Greater(0, spec.width - Len(chars)))
<1>1. Len(chars) \in Int /\ spec.width \in Int
  OBVIOUS
<1>2. bl \in Seq(Char)
  BY <1>1, Short, BlankChars, Zenon
<1>3. Field(chars) = IF "LEFT" \in spec.flags THEN chars \o bl ELSE bl \o chars
  BY Zenon DEF Field
<1> HIDE DEF bl
<1>4. chars \o bl \in Seq(Char) /\ bl \o chars \in Seq(Char)
  BY <1>2, JoinChars, Zenon
<1>. QED
  BY <1>3, <1>4, Zenon

\* print_integer prints characters, whatever it is called with.
LEMMA IntegerChars ==
    ASSUME NEW c, Sized(c), c.value \in Nat, c.base \in {2, 8, 10, 16}
    PROVE  print_integer(c) \in Seq(Char)
<1>1. \A i \in Nat \ {0} : DigitAt(c.value, c.base, i) \in Char
  BY DigitIsChar, LettersAre
<1>2. {"0", "x", "b", "+", "-", " "} \subseteq Char
  BY LettersAre, Zenon DEF Letters
<1>3. BufferChars(c) \subseteq Char
  BY <1>1, <1>2, Zenon DEF BufferChars
<1>4. Finished(c) \in Seq(Char)
  <2>1. Finished(c) \in Seq(BufferChars(c))
    BY FinishedFits
  <2>. QED
    BY <1>3, <2>1, Wider, Zenon
<1>5. ZeroWidth(c) \in Int
  BY DEF Sized, ZeroWidth
<1>. QED
  BY <1>4, <1>5, OutRevChars, Zenon DEF print_integer

-----------------------------------------------------------------------------
(* What the parser has read is what the standard means.                     *)

\* What the flags are not, whatever the character for a blank.
LEMMA FlagWhich ==
    ASSUME NEW blank, blank \notin {"0", "-", "+", "#"}
    PROVE  \A c \in {"0", "-", "+", blank, "#"} :
             LET x == CASE c = "0" -> "ZEROPAD" [] c = "-" -> "LEFT" [] c = "+" -> "PLUS"
                        [] c = blank -> "SPACE" [] c = "#" -> "HASH"
             IN  /\ x # "PRECISION" /\ x # "POINTER" /\ (x = "LEFT" => c = "-")
                 /\ (x = "ZEROPAD" => c = "0") /\ (c = "-" => x = "LEFT")
<1> DEFINE X(c) == CASE c = "0" -> "ZEROPAD" [] c = "-" -> "LEFT" [] c = "+" -> "PLUS"
                     [] c = blank -> "SPACE" [] c = "#" -> "HASH"
<1>1. X("0") = "ZEROPAD" /\ X("-") = "LEFT" /\ X("+") = "PLUS" /\ X("#") = "HASH" /\ X(blank) = "SPACE"
  OBVIOUS
<1> HIDE DEF X
<1>2. \A c \in {"0", "-", "+", blank, "#"} :
        /\ X(c) # "PRECISION" /\ X(c) # "POINTER" /\ (X(c) = "LEFT" => c = "-")
        /\ (X(c) = "ZEROPAD" => c = "0") /\ (c = "-" => X(c) = "LEFT")
  BY <1>1
<1>. QED
  BY <1>2, Zenon DEF X

\* The flags that are not written as a flag, and those that are.
LEMMA FlagNames ==
    \A c \in DOMAIN FlagOf :
        /\ FlagOf[c] # "PRECISION" /\ FlagOf[c] # "POINTER" /\ (FlagOf[c] = "LEFT" => c = "-")
        /\ (FlagOf[c] = "ZEROPAD" => c = "0") /\ (c = "-" => FlagOf[c] = "LEFT")
<1>1. \A c \in {"0", "-", "+", " ", "#"} :
         FlagOf[c] = CASE c = "0" -> "ZEROPAD" [] c = "-" -> "LEFT" [] c = "+" -> "PLUS"
                       [] c = " " -> "SPACE" [] c = "#" -> "HASH"
  BY Zenon DEF FlagOf
<1>2. \A c \in {"0", "-", "+", " ", "#"} :
        /\ FlagOf[c] # "PRECISION" /\ FlagOf[c] # "POINTER" /\ (FlagOf[c] = "LEFT" => c = "-")
        /\ (FlagOf[c] = "ZEROPAD" => c = "0") /\ (c = "-" => FlagOf[c] = "LEFT")
  <2>1. " " \notin {"0", "-", "+", "#"}
    BY Zenon
  <2>. QED
    BY <1>1, <2>1, FlagWhich, Zenon
<1>. QED
  BY <1>2, FlagCharsAre, Zenon

\* The flags of a conversion.
LEMMA FlagsMean ==
    ASSUME NEW e, e.flags \in Seq(DOMAIN FlagOf)
    PROVE  /\ "PRECISION" \notin FlagsOf(e.flags) /\ "POINTER" \notin FlagsOf(e.flags)
           /\ "LEFT" \in FlagsOf(e.flags) <=> "-" \in Range(e.flags)
           /\ "ZEROPAD" \in FlagsOf(e.flags) => "0" \in Range(e.flags)
<1> DEFINE R == Range(e.flags)
<1>1. R \subseteq DOMAIN FlagOf
  BY DEF Range
<1>2. FlagsOf(e.flags) = {FlagOf[f] : f \in R}
  BY DEF FlagsOf
<1> HIDE DEF R
<1>3. \A f \in R : /\ FlagOf[f] # "PRECISION" /\ FlagOf[f] # "POINTER" /\ (FlagOf[f] = "LEFT" => f = "-")
                   /\ (FlagOf[f] = "ZEROPAD" => f = "0") /\ (f = "-" => FlagOf[f] = "LEFT")
  BY <1>1, FlagNames, Zenon
<1>4. /\ "PRECISION" \notin FlagsOf(e.flags) /\ "POINTER" \notin FlagsOf(e.flags)
      /\ "LEFT" \in FlagsOf(e.flags) <=> "-" \in R
      /\ "ZEROPAD" \in FlagsOf(e.flags) => "0" \in R
  BY <1>2, <1>3, Zenon
<1>. QED
  BY <1>4 DEF R

\* A conversion whose precision is not a negative argument.
Plain(e) == e.precision.value >= 0

\* Flags, width and precision as read are as the standard takes them.
LEMMA SpecMeans ==
    ASSUME NEW e, Piece(e)
    PROVE  /\ "LEFT" \in AllFlags(e) <=> Left(e)
           /\ "ZEROPAD" \in AllFlags(e) => "0" \in Range(e.flags)
           /\ "POINTER" \notin AllFlags(e)
           /\ "PRECISION" \in AllFlags(e) <=> e.precision.how # "none"
           /\ e.precision.how = "none" => PrecisionOf(e) = 0
           /\ PrecisionOf(e) \in Nat /\ Abs(e.width.value) \in Nat
           /\ Plain(e) => /\ AllFlags(e) = StandardFlags(e)
                          /\ HasPrecision(e) <=> e.precision.how # "none"
                          /\ PrecisionOf(e) = IF HasPrecision(e) THEN e.precision.value ELSE 0
<1> DEFINE F == FlagsOf(e.flags)
           star == e.width.how = "star" /\ e.width.value < 0
           none == e.precision.how = "none"
           dash == "-" \in Range(e.flags)
<1>1. /\ "PRECISION" \notin F /\ "POINTER" \notin F
      /\ "LEFT" \in F <=> dash
      /\ "ZEROPAD" \in F => "0" \in Range(e.flags)
  BY FlagsMean DEF Piece
<1>2. AllFlags(e) = (F \cup (IF star THEN {"LEFT"} ELSE {})) \cup (IF none THEN {} ELSE {"PRECISION"})
  BY DEF AllFlags, WidthFlags
<1>3. Left(e) <=> dash \/ star
  BY DEF Left
<1>4. F = {FlagOf[f] : f \in Range(e.flags)}
  BY DEF FlagsOf
<1>5. e.precision.value \in Int /\ e.width.value \in Int /\ (none => e.precision.value = 0)
  <2>1. ProperAmount(e.width, 1) /\ ProperAmount(e.precision, 0)
    BY DEF Piece
  <2>2. \A a : ProperAmount(a, 0) \/ ProperAmount(a, 1) => a.value \in Int /\ (a.how = "none" => a.value = 0)
    BY DEF ProperAmount
  <2>. QED
    BY <2>1, <2>2
<1>6. PrecisionOf(e) \in Nat /\ (none => PrecisionOf(e) = 0) /\ (Plain(e) => PrecisionOf(e) = e.precision.value)
  BY <1>5 DEF PrecisionOf, Greater, Plain
<1>7. Abs(e.width.value) \in Nat
  BY <1>5, AbsIs
<1>8. Plain(e) => (HasPrecision(e) <=> ~none)
  BY DEF Plain, HasPrecision
<1> DEFINE S == {FlagOf[f] : f \in Range(e.flags)}
<1>9. StandardFlags(e) = S \cup (IF Left(e) THEN {"LEFT"} ELSE {}) \cup (IF HasPrecision(e) THEN {"PRECISION"} ELSE {})
  BY Zenon DEF StandardFlags
<1> HIDE DEF F, star, none, dash, S
<1>10. F = S
  BY <1>4 DEF S
<1>11. ASSUME Plain(e) PROVE AllFlags(e) = StandardFlags(e)
  BY <1>1, <1>2, <1>3, <1>8, <1>9, <1>10, <1>11
<1>12. "LEFT" \in AllFlags(e) <=> Left(e)
  BY <1>1, <1>2, <1>3
<1>13. ("ZEROPAD" \in AllFlags(e) => "0" \in Range(e.flags)) /\ "POINTER" \notin AllFlags(e)
       /\ ("PRECISION" \in AllFlags(e) <=> ~none)
  BY <1>1, <1>2
<1>14. ASSUME Plain(e) PROVE PrecisionOf(e) = IF HasPrecision(e) THEN e.precision.value ELSE 0
  BY <1>5, <1>6, <1>8, <1>14
<1>. QED
  BY <1>6, <1>7, <1>8, <1>11, <1>12, <1>13, <1>14 DEF none

\* An octal digit is more than a bit.
LEMMA PowersCompare == \A n \in Nat : \A m \in 0..n : Power(2, m) <= Power(8, n)
<1> DEFINE S == {n \in Nat : \A m \in 0..n : Power(2, m) <= Power(8, n)}
<1>0. \A n \in Nat : Power(2, n) \in Nat /\ Power(8, n) \in Nat
  BY PowerType
<1>1. 0 \in S
  <2>1. Power(2, 0) = 1 /\ Power(8, 0) = 1
    BY PowerStep
  <2>2. \A m \in 0..0 : m = 0
    OBVIOUS
  <2>. QED
    BY <2>1, <2>2
<1>2. \A n \in Nat : n \in S => n + 1 \in S
  <2> SUFFICES ASSUME NEW n \in Nat, n \in S PROVE n + 1 \in S
    OBVIOUS
  <2>1. Power(8, n + 1) = 8 * Power(8, n) /\ Power(2, n + 1) = 2 * Power(2, n)
    BY PowerStep
  <2>2. Power(8, n) \in Nat /\ Power(2, n) \in Nat
    BY <1>0
  <2>3. ASSUME NEW m \in 0..(n + 1) PROVE Power(2, m) <= Power(8, n + 1)
    <3>1. CASE m \in 0..n
      <4>1. Power(2, m) <= Power(8, n) /\ Power(2, m) \in Nat
        BY <1>0, <3>1
      <4>. QED
        BY <2>1, <2>2, <4>1
    <3>2. CASE m = n + 1
      <4>1. Power(2, n) <= Power(8, n)
        BY n \in 0..n
      <4>. QED
        BY <2>1, <2>2, <3>2, <4>1
    <3>. QED
      BY <3>1, <3>2
  <2>. QED
    BY <2>3
<1> HIDE DEF S
<1>3. Nat \subseteq S
  BY <1>1, <1>2, NatSetInduction
<1>. QED
  BY <1>3 DEF S

\* A value of a type is within its width.
LEMMA UnsignedFits ==
    ASSUME NEW v \in Int, NEW bits \in Nat, bits <= Bits
    PROVE  Unsigned(v, bits) \in Nat /\ Unsigned(v, bits) < Power(8, Bits)
<1> DEFINE p == Power(2, bits)
           q == Power(8, Bits)
<1>1. p \in Nat \ {0} /\ q \in Nat \ {0}
  BY BitsAssumption, PowerType
<1>2. p <= q
  BY BitsAssumption, PowersCompare
<1>3. Unsigned(v, bits) = v % p
  BY DEF Unsigned
<1> HIDE DEF p, q
<1>4. v % p \in Nat /\ v % p < p
  BY <1>1
<1>5. v % p < q
  <2> DEFINE x == v % p
  <2> HIDE DEF x
  <2>1. x \in Nat /\ x < p
    BY <1>4 DEF x
  <2>2. x < q
    BY <1>1, <1>2, <2>1
  <2>. QED
    BY <2>2 DEF x
<1>. QED
  BY <1>3, <1>4, <1>5 DEF q

\* The width of the type is that of the length modifier.
LEMMA BitsOf ==
    ASSUME NEW e, e.length \in LongLengths \cup ShortLengths, spec.size = SizeOf(e.length)
    PROVE  ArgBits = StandardBits(e)
<1> DEFINE s == SizeOf(e.length)
           long == e.length \in LongLengths
           char == e.length \in {<<"h", "h">>, <<"I", "8">>}
           short == e.length \in {<<"h">>, <<"I", "1", "6">>}
<1>1. "LONG" \in s <=> long
  BY DEF SizeOf
<1>2. "LONG_LONG" \in s <=> e.length = <<"l", "l">>
  BY DEF SizeOf
<1>3. "CHAR" \in s <=> char
  BY DEF SizeOf
<1>4. "SHORT" \in s <=> short \/ e.length = <<"h", "h">>
  BY DEF SizeOf
<1>5. s \subseteq {"LONG", "LONG_LONG", "SHORT", "CHAR"}
  BY DEF SizeOf
<1>6. e.length = <<"l", "l">> => long
  BY DEF LongLengths
<1>7. e.length = <<"h", "h">> => char
  OBVIOUS
<1>8. short => ~char /\ ~long
  BY DEF LongLengths
<1>9. ArgBits = CASE s \cap {"LONG", "LONG_LONG"} # {} -> Bits
                  [] "CHAR" \in s -> CharBits
                  [] s = {"SHORT"} -> ShortBits
                  [] OTHER -> IntBits
  BY DEF ArgBits
<1>10. StandardBits(e) = CASE long -> Bits [] char -> CharBits [] short -> ShortBits [] OTHER -> IntBits
  BY DEF StandardBits
<1>11. char => ~long
  BY DEF LongLengths
<1>12. e.length = <<"h", "h">> => ~short
  OBVIOUS
<1> DEFINE ll == e.length = <<"l", "l">>
           hh == e.length = <<"h", "h">>
<1>13. /\ long \in BOOLEAN /\ char \in BOOLEAN /\ short \in BOOLEAN /\ ll \in BOOLEAN /\ hh \in BOOLEAN
  OBVIOUS
<1> HIDE DEF s, long, char, short, ll, hh
<1>14. s \cap {"LONG", "LONG_LONG"} # {} <=> long
  BY <1>1, <1>2, <1>6 DEF ll
<1>15. ~long /\ ~char => (s = {"SHORT"} <=> short)
  BY <1>1, <1>2, <1>3, <1>4, <1>5, <1>6, <1>7 DEF ll, hh
<1>16. ArgBits = StandardBits(e)
  <2>1. CASE long
    <3>1. ArgBits = Bits
      BY <1>1, <1>3, <1>9, <1>11, <1>14, <2>1
    <3>2. StandardBits(e) = Bits
      BY <1>8, <1>10, <1>11, <2>1
    <3>. QED
      BY <3>1, <3>2
  <2>2. CASE ~long /\ char
    BY <1>3, <1>8, <1>9, <1>10, <1>14, <2>2
  <2>3. CASE ~long /\ ~char
    BY <1>3, <1>9, <1>10, <1>14, <1>15, <2>3
  <2>. QED
    BY <2>1, <2>2, <2>3
<1>. QED
  BY <1>16

\* No argument is wider than long.
LEMMA StandardBitsIs == \A e : StandardBits(e) \in Nat /\ StandardBits(e) <= Bits
<1> SUFFICES ASSUME NEW e PROVE StandardBits(e) \in Nat /\ StandardBits(e) <= Bits
  OBVIOUS
<1>1. StandardBits(e) \in {Bits, CharBits, ShortBits, IntBits}
  BY DEF StandardBits
<1>2. \A x \in {Bits, CharBits, ShortBits, IntBits} : x \in Nat /\ x <= Bits
  BY BitsAssumption, WidthsAssumption
<1>. QED
  BY <1>1, <1>2

-----------------------------------------------------------------------------
(* What a conversion prints.                                               *)

\* The parser has read the conversion e, and its argument is the next.
Ready(e) ==
    /\ Piece(e) /\ ProperItem(e) /\ CharAt(at) = e.conv
    /\ spec = SpecOf(AllFlags(e), Abs(e.width.value), PrecisionOf(e), SizeOf(e.length))
    /\ e.conv # "%" => Fetches(LastType(e), e.arg)

\* Its number fits the buffer.
Fits(e) ==
    /\ IsInteger(e) => Printable(StandardCall(e))
    /\ e.conv = "p" => Printable(PointerCall(e))

\* What it prints is of characters, and as the standard says.
Prints(e, chars) == chars \in Seq(Char) /\ (Plain(e) /\ Fits(e) => chars = Rendering(e))

\* The call of print_integer for e, as the code makes it.
CallOf(e, value) ==
    [value |-> Abs(value), negative |-> value < 0, base |-> BaseOf(e.conv),
     precision |-> PrecisionOf(e), width |-> Abs(e.width.value),
     flags |-> AllFlags(e) \ ((IF BaseOf(e.conv) = 10 THEN {"HASH"} ELSE {})
                    \cup (IF "PRECISION" \in AllFlags(e) THEN {"ZEROPAD"} ELSE {})
                    \cup (IF e.conv \in {"d", "i"} THEN {} ELSE {"PLUS", "SPACE"}))]
ValueOf(e) ==
    IF e.conv \in {"d", "i"} THEN SignedOf(e.arg, StandardBits(e)) ELSE Unsigned(e.arg, StandardBits(e))

\* The call is one print_integer is fit for.
LEMMA CallOfIs ==
    ASSUME NEW e, Piece(e), ProperItem(e), IsInteger(e),
           StandardBits(e) \in Nat, StandardBits(e) <= Bits
    PROVE  Regular(CallOf(e, ValueOf(e))) /\ Sized(CallOf(e, ValueOf(e)))
<1> DEFINE v == ValueOf(e)
           c == CallOf(e, v)
           F == AllFlags(e)
           b == BaseOf(e.conv)
           G == F \ ((IF b = 10 THEN {"HASH"} ELSE {})
                    \cup (IF "PRECISION" \in F THEN {"ZEROPAD"} ELSE {})
                    \cup (IF e.conv \in {"d", "i"} THEN {} ELSE {"PLUS", "SPACE"}))
<1>1. e.arg \in Int
  BY IntegerType
<1>2. v \in Int
  <2>1. SignedOf(e.arg, StandardBits(e)) \in Int
    BY <1>1, SignedIs
  <2>2. Unsigned(e.arg, StandardBits(e)) \in Nat
    BY <1>1, UnsignedIs
  <2>. QED
    BY <2>1, <2>2 DEF ValueOf
<1>3. Abs(v) \in Nat /\ (v < 0) \in BOOLEAN
  BY <1>2, AbsIs
<1>4. b \in {2, 8, 10, 16} /\ (b = 8 <=> e.conv = "o")
  BY BaseIs DEF BaseOf
<1>5. b = 8 => Abs(v) < Power(8, Bits)
  <2> SUFFICES ASSUME b = 8 PROVE Abs(v) < Power(8, Bits)
    OBVIOUS
  <2>1. v = Unsigned(e.arg, StandardBits(e))
    BY <1>4 DEF ValueOf
  <2>2. v \in Nat /\ v < Power(8, Bits)
    BY <1>1, <2>1, UnsignedFits
  <2>3. Abs(v) = v
    BY <2>2, AbsIs
  <2>. QED
    BY <2>2, <2>3
<1>6. /\ "POINTER" \notin F /\ ("PRECISION" \in F <=> e.precision.how # "none")
      /\ e.precision.how = "none" => PrecisionOf(e) = 0
      /\ PrecisionOf(e) \in Nat /\ Abs(e.width.value) \in Nat
  BY SpecMeans
<1>7. /\ c.value = Abs(v) /\ c.negative = (v < 0) /\ c.base = b /\ c.precision = PrecisionOf(e)
      /\ c.width = Abs(e.width.value) /\ c.flags = G
  BY DEF CallOf
<1> HIDE DEF v, c, F, b
<1>8. /\ "POINTER" \notin G /\ ("PRECISION" \in G <=> "PRECISION" \in F)
      /\ "PRECISION" \in G => "ZEROPAD" \notin G
      /\ b = 10 => "HASH" \notin G
  BY <1>6
<1> HIDE DEF G
<1>9. Regular(c)
  BY <1>3, <1>4, <1>5, <1>6, <1>7, <1>8 DEF Regular
<1>10. Sized(c)
  BY <1>3, <1>6, <1>7 DEF Sized
<1>. QED
  BY <1>9, <1>10 DEF c, v

\* And it is the one the standard's rules ask for.
LEMMA CallIsStandard ==
    ASSUME NEW e, Piece(e), IsInteger(e), Plain(e)
    PROVE  CallOf(e, ValueOf(e)) = StandardCall(e)
<1> DEFINE v == ValueOf(e)
           F == AllFlags(e)
           b == BaseOf(e.conv)
           cb == CASE e.conv = "x" -> 16 [] e.conv = "o" -> 8 [] e.conv = "b" -> 2 [] OTHER -> 10
           p == IF HasPrecision(e) THEN e.precision.value ELSE 0
           signed == e.conv \in {"d", "i"}
           G == F \ ((IF b = 10 THEN {"HASH"} ELSE {})
                    \cup (IF "PRECISION" \in F THEN {"ZEROPAD"} ELSE {})
                    \cup (IF signed THEN {} ELSE {"PLUS", "SPACE"}))
           H == StandardFlags(e)
                  \ ((IF HasPrecision(e) THEN {"ZEROPAD"} ELSE {})
                       \cup (IF e.conv \in {"d", "i", "u"} THEN {"HASH"} ELSE {})
                       \cup (IF signed THEN {} ELSE {"PLUS", "SPACE"}))
<1>1. F = StandardFlags(e) /\ (HasPrecision(e) <=> e.precision.how # "none") /\ PrecisionOf(e) = p
      /\ ("PRECISION" \in F <=> e.precision.how # "none")
  BY SpecMeans
<1>2. b = cb /\ (b = 10 <=> e.conv \in {"d", "i", "u"})
  BY DEF BaseOf, IsInteger
<1>3. G = H
  BY <1>1, <1>2
<1>4. StandardCall(e) = [value |-> Abs(v), negative |-> v < 0, base |-> cb, precision |-> p,
                         width |-> Abs(e.width.value), flags |-> H]
  BY Zenon DEF StandardCall, ValueOf
<1>5. CallOf(e, v) = [value |-> Abs(v), negative |-> v < 0, base |-> b, precision |-> PrecisionOf(e),
                         width |-> Abs(e.width.value), flags |-> G]
  BY Zenon DEF CallOf
<1> HIDE DEF v, F, b, cb, p, G, H
<1>. QED
  BY <1>1, <1>2, <1>3, <1>4, <1>5, Zenon DEF v

\* The integer conversions.
LEMMA IntegerPrints ==
    ASSUME NEW e, Ready(e), Integer
    PROVE  \E chars : Prints(e, chars) /\ given' = given \o chars
<1>1. Piece(e) /\ ProperItem(e) /\ CharAt(at) = e.conv
      /\ spec = SpecOf(AllFlags(e), Abs(e.width.value), PrecisionOf(e), SizeOf(e.length))
  BY DEF Ready
<1>2. IsInteger(e) /\ e.conv # "%"
  BY <1>1 DEF Integer, IsInteger
<1>3. Fetches(LastType(e), e.arg)
  BY <1>2 DEF Ready
<1>4. /\ e.arg \in Int /\ e.length \in LongLengths \cup ShortLengths
      /\ LastType(e) = IF SizeOf(e.length) \cap {"LONG", "LONG_LONG"} # {} THEN "long" ELSE "int"
  BY <1>1, <1>2, IntegerType
<1>5. va_arg(LastType(e), Int) = {e.arg}
  BY <1>3, <1>4, FetchesIs
<1>6. /\ spec.flags = AllFlags(e) /\ spec.width = Abs(e.width.value)
      /\ spec.precision = PrecisionOf(e) /\ spec.size = SizeOf(e.length)
  BY <1>1 DEF SpecOf
<1>7. ArgBits = StandardBits(e) /\ StandardBits(e) \in Nat /\ StandardBits(e) <= Bits
  BY <1>4, <1>6, BitsOf, StandardBitsIs
<1> DEFINE v == ValueOf(e)
           c == CallOf(e, v)
           type == IF spec.size \cap {"LONG", "LONG_LONG"} # {} THEN "long" ELSE "int"
<1>8. type = LastType(e)
  BY <1>4, <1>6
<1>9. \E arg \in va_arg(type, Int) :
      \E value \in {IF CharAt(at) \in {"d", "i"} THEN SignedOf(arg, ArgBits)
                    ELSE Unsigned(arg, ArgBits)} :
      \E d \in {[value |-> Abs(value), negative |-> value < 0,
                 base |-> BaseOf(CharAt(at)), precision |-> spec.precision,
                 width |-> spec.width, flags |-> IntegerFlags(CharAt(at))]} :
         Finish(type, print_integer(d)) /\ number' = {d}
  BY Zenon DEF Integer
<1>10. Finish(type, print_integer(c))
  <2> HIDE DEF type
  <2>1. PICK arg \in va_arg(type, Int) :
          \E value \in {IF CharAt(at) \in {"d", "i"} THEN SignedOf(arg, ArgBits)
                        ELSE Unsigned(arg, ArgBits)} :
          \E d \in {[value |-> Abs(value), negative |-> value < 0,
                     base |-> BaseOf(CharAt(at)), precision |-> spec.precision,
                     width |-> spec.width, flags |-> IntegerFlags(CharAt(at))]} :
             Finish(type, print_integer(d)) /\ number' = {d}
    BY <1>9
  <2>2. arg = e.arg
    BY <1>5, <1>8, <2>1
  <2>3. PICK value : /\ value = (IF CharAt(at) \in {"d", "i"} THEN SignedOf(arg, ArgBits)
                                 ELSE Unsigned(arg, ArgBits))
                     /\ Finish(type, print_integer(
                          [value |-> Abs(value), negative |-> value < 0,
                           base |-> BaseOf(CharAt(at)), precision |-> spec.precision,
                           width |-> spec.width, flags |-> IntegerFlags(CharAt(at))]))
    BY <2>1, Zenon
  <2>4. value = v
    BY <1>1, <1>7, <2>2, <2>3, Zenon DEF ValueOf
  <2>5. [value |-> Abs(value), negative |-> value < 0,
         base |-> BaseOf(CharAt(at)), precision |-> spec.precision,
         width |-> spec.width, flags |-> IntegerFlags(CharAt(at))] = c
    BY <1>1, <1>6, <2>4, Zenon DEF CallOf, IntegerFlags
  <2>. QED
    BY <2>3, <2>5, Zenon
<1>11. given' = given \o print_integer(c)
  BY <1>10, Zenon DEF Finish, putchar_via_gadget
<1>12. Regular(c) /\ Sized(c)
  BY <1>1, <1>2, <1>7, CallOfIs
<1>13. print_integer(c) \in Seq(Char)
  BY <1>12, IntegerChars DEF Regular
<1>14. ASSUME Plain(e), Fits(e) PROVE print_integer(c) = Rendering(e)
  <2>1. c = StandardCall(e)
    BY <1>1, <1>2, <1>14, CallIsStandard
  <2>2. Printable(StandardCall(e))
    BY <1>2, <1>14 DEF Fits
  <2> HIDE DEF c
  <2>3. print_integer(c) = Standard(c)
    BY <1>12, <2>1, <2>2, IntegerStandard
  <2>4. Rendering(e) = Standard(StandardCall(e))
    <3>1. e.conv \notin {"text"} /\ e.conv # "%" /\ e.conv # "c" /\ e.conv # "s" /\ e.conv # "p"
      BY <1>2 DEF IsInteger
    <3>. QED
      BY <3>1, Zenon DEF Rendering
  <2>. QED
    BY <2>1, <2>3, <2>4
<1>15. Prints(e, print_integer(c))
  BY <1>13, <1>14 DEF Prints
<1>. QED
  BY <1>11, <1>15

\* The arguments of the conversions that consist of their letter.
LEMMA PlainArg ==
    ASSUME NEW e, ProperItem(e), e.conv \in {"c", "s", "p", "%"}
    PROVE  /\ e.conv = "c" => e.arg \in STRING \ {NUL}
           /\ e.conv = "p" => e.arg \in Nat \ {0} /\ e.precision.how = "none"
           /\ e.conv = "s" => \/ e.arg \in Seq(STRING \ {NUL})
                              \/ e.arg = Null /\ "0" \notin Range(e.flags)
<1>1. ProperPlain(e)
  <2>1. e.conv # "text" /\ ~IsInteger(e)
    BY DEF IsInteger
  <2>. QED
    BY <2>1, Zenon DEF ProperItem
<1>. QED
  BY <1>1, Zenon DEF ProperPlain

\* The field of the code is that of the standard.
LEMMA FieldStandard ==
    ASSUME NEW e, Ready(e), NEW chars
    PROVE  Field(chars) = StandardField(e, chars)
<1>1. spec.flags = AllFlags(e) /\ spec.width = Abs(e.width.value)
  BY DEF Ready, SpecOf
<1>2. "LEFT" \in AllFlags(e) <=> Left(e)
  BY SpecMeans DEF Ready
<1>. QED
  BY <1>1, <1>2, Zenon DEF Field, StandardField

\* What has been read.
LEMMA ReadyIs ==
    ASSUME NEW e, Ready(e)
    PROVE  /\ spec.flags = AllFlags(e) /\ spec.width = Abs(e.width.value) /\ spec.width \in Nat
           /\ spec.precision = PrecisionOf(e) /\ spec.precision \in Nat
           /\ Piece(e) /\ ProperItem(e) /\ CharAt(at) = e.conv
<1>1. /\ spec.flags = AllFlags(e) /\ spec.width = Abs(e.width.value) /\ spec.precision = PrecisionOf(e)
      /\ Piece(e)
  BY DEF Ready, SpecOf
<1>2. PrecisionOf(e) \in Nat /\ Abs(e.width.value) \in Nat
  BY <1>1, SpecMeans
<1>. QED
  BY <1>1, <1>2 DEF Ready

\* "%c" prints its character.
LEMMA CharacterPrints ==
    ASSUME NEW e, Ready(e), Character
    PROVE  \E chars : Prints(e, chars) /\ given' = given \o chars
<1>1. e.conv = "c" /\ ProperItem(e) /\ spec.width \in Nat
  BY ReadyIs DEF Character
<1>2. e.arg \in STRING \ {NUL} /\ e.arg \in STRING
  BY <1>1, PlainArg
<1>3. LastType(e) = "int" /\ e.conv # "%"
  BY <1>1 DEF LastType, IsInteger
<1>4. va_arg("int", STRING) = {e.arg}
  <2>1. Fetches("int", e.arg)
    BY <1>3 DEF Ready
  <2>. QED
    BY <1>2, <2>1, FetchesIs
<1> DEFINE chars == Field(<<e.arg>>)
<1>5. Finish("int", chars)
  <2>1. PICK char \in va_arg("int", STRING) : Finish("int", Field(<<char>>))
    BY Zenon DEF Character
  <2>. QED
    BY <1>4, <2>1, Zenon
<1>6. given' = given \o chars
  BY <1>5, Zenon DEF Finish, putchar_via_gadget
<1>7. chars \in Seq(Char)
  <2>1. e.arg \in Char
    BY <1>2 DEF Char
  <2>2. <<e.arg>> \in Seq(Char)
    BY <2>1
  <2>. QED
    BY <1>1, <2>2, FieldChars
<1>8. chars = Rendering(e)
  <2>1. Rendering(e) = StandardField(e, <<e.arg>>)
    <3>1. e.conv \notin {"text"} /\ e.conv # "%" /\ e.conv # "s" /\ e.conv # "p"
      BY <1>1
    <3>. QED
      BY <1>1, <3>1, Zenon DEF Rendering
  <2>. QED
    BY <2>1, FieldStandard
<1>. QED
  BY <1>6, <1>7, <1>8, Zenon DEF Prints

\* "%%" prints a '%'.
LEMMA OtherPrints ==
    ASSUME NEW e, Ready(e), OtherSpecifier
    PROVE  \E chars : Prints(e, chars) /\ given' = given \o chars
<1>1. e.conv = "%"
  BY ReadyIs DEF OtherSpecifier, Piece
<1>2. given' = given \o <<"%">>
  <2>1. CharAt(at) = "%"
    BY <1>1, ReadyIs
  <2>. QED
    BY <2>1, Zenon DEF OtherSpecifier, putchar_via_gadget
<1>3. <<"%">> \in Seq(Char)
  <2>1. "%" \in Char
    BY LettersAre, Zenon DEF Letters
  <2>. QED
    BY <2>1
<1>4. Rendering(e) = <<"%">>
  <2>1. e.conv \notin {"text"} /\ e.conv # "c" /\ e.conv # "s" /\ e.conv # "p"
    BY <1>1
  <2>. QED
    BY <1>1, <2>1, Zenon DEF Rendering
<1>. QED
  BY <1>2, <1>3, <1>4, Zenon DEF Prints

\* The call of print_integer for a pointer.
LEMMA PointerCallIs ==
    ASSUME NEW e, Piece(e), ProperItem(e), e.conv = "p"
    PROVE  /\ Regular(PointerCall(e)) /\ Sized(PointerCall(e))
           /\ e.arg \in Nat \ {0} /\ Plain(e) /\ PrecisionOf(e) = 0
           /\ AllFlags(e) = StandardFlags(e)
<1> DEFINE F == AllFlags(e) \cup {"ZEROPAD", "POINTER"}
           c == PointerCall(e)
<1>1. e.arg \in Nat \ {0} /\ e.precision.how = "none"
  BY PlainArg
<1>2. /\ "POINTER" \notin AllFlags(e) /\ "PRECISION" \notin AllFlags(e) /\ PrecisionOf(e) = 0
  BY <1>1, SpecMeans
<1>3. PointerWidth \in Nat
  BY WidthsAssumption
<1>4. Plain(e)
  <2>1. ProperAmount(e.precision, 0)
    BY DEF Piece
  <2>. QED
    BY <1>1, <2>1 DEF Plain, ProperAmount
<1>5. AllFlags(e) = StandardFlags(e)
  BY <1>4, SpecMeans
<1>6. /\ c.value = e.arg /\ c.negative \in BOOLEAN /\ c.base = 16 /\ c.precision = 0
      /\ c.width = PointerWidth /\ c.flags = F
  BY <1>5 DEF PointerCall
<1>7. "PRECISION" \notin F
  BY <1>2
<1> HIDE DEF c, F
<1>8. Regular(c)
  BY <1>1, <1>3, <1>6, <1>7 DEF Regular
<1>9. Sized(c)
  BY <1>3, <1>6 DEF Sized
<1>. QED
  BY <1>1, <1>2, <1>4, <1>5, <1>8, <1>9 DEF c

\* "%p" prints its pointer.
LEMMA PointerPrints ==
    ASSUME NEW e, Ready(e), Pointer
    PROVE  \E chars : Prints(e, chars) /\ given' = given \o chars
<1>1. /\ e.conv = "p" /\ ProperItem(e) /\ Piece(e) /\ spec.precision = PrecisionOf(e)
      /\ spec.flags = AllFlags(e)
  BY ReadyIs DEF Pointer
<1>2. e.arg \in Nat \ {0} /\ e.precision.how = "none"
  BY <1>1, PlainArg
<1>3. LastType(e) = "pointer" /\ e.conv # "%"
  BY <1>1 DEF LastType, IsInteger
<1>4. va_arg("pointer", Nat) = {e.arg}
  <2>1. Fetches("pointer", e.arg)
    BY <1>3 DEF Ready
  <2>. QED
    BY <1>2, <2>1, FetchesIs
<1> DEFINE c == [value |-> e.arg, negative |-> FALSE, base |-> 16, precision |-> spec.precision,
                 width |-> PointerWidth, flags |-> spec.flags \cup {"ZEROPAD", "POINTER"}]
<1>5. Finish("pointer", print_integer(c))
  <2>1. PICK value \in va_arg("pointer", Nat) :
          \E d \in {[value |-> value, negative |-> FALSE, base |-> 16,
                  precision |-> spec.precision, width |-> PointerWidth,
                  flags |-> spec.flags \cup {"ZEROPAD", "POINTER"}]} :
             Finish("pointer",
                    IF value = 0 THEN OutRev(<<")", "l", "i", "n", "(">>, d.width, d.flags)
                    ELSE print_integer(d))
    BY Zenon DEF Pointer
  <2>2. value = e.arg /\ value # 0
    BY <1>2, <1>4, <2>1
  <2>. QED
    BY <2>1, <2>2, Zenon
<1>6. given' = given \o print_integer(c)
  BY <1>5, Zenon DEF Finish, putchar_via_gadget
<1>7. Regular(PointerCall(e)) /\ Sized(PointerCall(e)) /\ PrecisionOf(e) = 0
      /\ AllFlags(e) = StandardFlags(e)
  BY <1>1, PointerCallIs
<1>13. c = PointerCall(e)
  BY <1>1, <1>7, Zenon DEF PointerCall
<1> HIDE DEF c
<1>14. Regular(c)
  BY <1>7, <1>13, Zenon
<1>16. print_integer(c) \in Seq(Char)
  BY <1>7, <1>13, <1>14, IntegerChars DEF Regular
<1>17. ASSUME Fits(e) PROVE print_integer(c) = Rendering(e)
  <2>1. Printable(c)
    BY <1>1, <1>13, <1>17 DEF Fits
  <2>2. print_integer(c) = Standard(c)
    BY <1>14, <2>1, IntegerStandard
  <2>3. Rendering(e) = Standard(PointerCall(e))
    <3>1. e.conv \notin {"text"} /\ e.conv # "%" /\ e.conv # "c" /\ e.conv # "s"
      BY <1>1
    <3>. QED
      BY <1>1, <3>1, Zenon DEF Rendering
  <2>. QED
    BY <1>13, <2>2, <2>3
<1>. QED
  BY <1>6, <1>16, <1>17, Zenon DEF Prints

\* The text for a null string is put in backwards.
LEMMA NullText ==
    /\ <<")", "l", "l", "u", "n", "(">> \in Seq(Char)
    /\ <<"(", "n", "u", "l", "l", ")">> \in Seq(Char)
    /\ Reverse(<<")", "l", "l", "u", "n", "(">>) = <<"(", "n", "u", "l", "l", ")">>
    /\ Len(<<")", "l", "l", "u", "n", "(">>) = Len(<<"(", "n", "u", "l", "l", ")">>)
<1> DEFINE a == <<")", "l", "l", "u", "n", "(">>
           b == <<"(", "n", "u", "l", "l", ")">>
<1>1. ")" \in Char /\ "l" \in Char /\ "u" \in Char /\ "n" \in Char /\ "(" \in Char
  BY LettersAre, Zenon DEF Letters
<1>2. a \in Seq(Char) /\ b \in Seq(Char) /\ Len(a) = 6 /\ Len(b) = 6
  BY <1>1
<1>3. a[1] = ")" /\ a[2] = "l" /\ a[3] = "l" /\ a[4] = "u" /\ a[5] = "n" /\ a[6] = "("
  OBVIOUS
<1>4. b[1] = "(" /\ b[2] = "n" /\ b[3] = "u" /\ b[4] = "l" /\ b[5] = "l" /\ b[6] = ")"
  OBVIOUS
<1> HIDE DEF a, b
<1>5. Reverse(a) \in Seq(Char) /\ Len(Reverse(a)) = 6 /\ \A i \in 1..6 : Reverse(a)[i] = a[6 - i + 1]
  <2>1. /\ Reverse(a) \in Seq(Char) /\ Len(Reverse(a)) = Len(a)
        /\ \A i \in 1..Len(a) : Reverse(a)[i] = a[Len(a) - i + 1]
    BY <1>2, ReverseHas
  <2>. QED
    BY <1>2, <2>1, Zenon
<1>6. \A i \in 1..6 : i = 1 \/ i = 2 \/ i = 3 \/ i = 4 \/ i = 5 \/ i = 6
  OBVIOUS
<1>7. 6 - 1 + 1 = 6 /\ 6 - 2 + 1 = 5 /\ 6 - 3 + 1 = 4 /\ 6 - 4 + 1 = 3 /\ 6 - 5 + 1 = 2 /\ 6 - 6 + 1 = 1
  OBVIOUS
<1>8. \A i \in 1..6 : Reverse(a)[i] = b[i]
  BY <1>3, <1>4, <1>5, <1>6, <1>7
<1>9. Reverse(a) = b
  BY <1>2, <1>5, <1>8, SeqEqual
<1>. QED
  BY <1>2, <1>9 DEF a, b

\* What "%s" takes.
LEMMA SymbolsAre == Seq(STRING \ {NUL}) \subseteq Seq(Symbols) /\ Null \in Seq(Symbols)
                    /\ Null \notin Seq(STRING \ {NUL})
<1>1. STRING \ {NUL} \subseteq Symbols
  BY DEF Symbols
<1>2. Seq(STRING \ {NUL}) \subseteq Seq(Symbols)
  BY <1>1, Wider
<1>3. NUL \in Symbols
  BY DEF Symbols
<1>4. Null \in Seq(Symbols)
  BY <1>3 DEF Null
<1>5. Null \notin Seq(STRING \ {NUL})
  <2> SUFFICES ASSUME Null \in Seq(STRING \ {NUL}) PROVE FALSE
    OBVIOUS
  <2>1. Len(Null) = 1 /\ Null[1] = NUL
    BY DEF Null
  <2>2. Null[1] \in STRING \ {NUL}
    BY <2>1
  <2>. QED
    BY <2>1, <2>2
<1>. QED
  BY <1>2, <1>4, <1>5

\* "%s" prints its string, or as much as the precision says.
LEMMA StringPrints ==
    ASSUME NEW e, Ready(e), String
    PROVE  \E chars : Prints(e, chars) /\ given' = given \o chars
<1>1. /\ e.conv = "s" /\ ProperItem(e) /\ Piece(e)
      /\ spec.flags = AllFlags(e) /\ spec.width = Abs(e.width.value) /\ spec.width \in Nat
      /\ spec.precision = PrecisionOf(e) /\ spec.precision \in Nat
  BY ReadyIs DEF String
<1>2. \/ e.arg \in Seq(STRING \ {NUL})
      \/ e.arg = Null /\ "0" \notin Range(e.flags)
  BY <1>1, PlainArg
<1>3. LastType(e) = "string" /\ e.conv # "%"
  BY <1>1 DEF LastType, IsInteger
<1>4. va_arg("string", Seq(Symbols)) = {e.arg}
  <2>1. Fetches("string", e.arg)
    BY <1>3 DEF Ready
  <2>2. e.arg \in Seq(Symbols)
    BY <1>2, SymbolsAre
  <2>. QED
    BY <2>1, <2>2, FetchesIs
<1> DEFINE cut(p) == IF "PRECISION" \in spec.flags
                     THEN SubSeq(p, 1, Lesser(spec.precision, Len(p))) ELSE p
           back == <<")", "l", "l", "u", "n", "(">>
           text == <<"(", "n", "u", "l", "l", ")">>
           a == e.arg
           shown == IF HasPrecision(e) THEN SubSeq(a, 1, Lesser(e.precision.value, Len(a))) ELSE a
<1>5. Finish("string", IF a = Null THEN OutRev(back, spec.width, spec.flags) ELSE Field(cut(a)))
  <2>1. PICK p \in va_arg("string", Seq(Symbols)) :
          Finish("string", IF p = Null THEN OutRev(back, spec.width, spec.flags) ELSE Field(cut(p)))
    BY Zenon DEF String
  <2>2. p = a
    BY <1>4, <2>1
  <2>. QED
    BY <2>1, <2>2, Zenon
<1>6. Rendering(e) = StandardField(e, IF a = Null THEN text ELSE shown)
  <2>1. e.conv \notin {"text"} /\ e.conv # "%" /\ e.conv # "c" /\ e.conv # "p"
    BY <1>1
  <2>. QED
    BY <1>1, <2>1, Zenon DEF Rendering
<1>7. CASE a = Null
  <2> DEFINE chars == OutRev(back, spec.width, spec.flags)
  <2>1. given' = given \o chars
    <3> HIDE DEF chars
    <3>1. Finish("string", chars)
      BY <1>5, <1>7, Zenon DEF chars
    <3>. QED
      BY <3>1, Zenon DEF Finish, putchar_via_gadget
  <2>2. chars \in Seq(Char)
    <3>1. spec.width \in Int
      BY <1>1
    <3>. QED
      BY <3>1, NullText, OutRevChars, Zenon
  <2>3. chars = Field(text)
    <3>1. "ZEROPAD" \notin spec.flags
      <4>1. "0" \notin Range(e.flags)
        BY <1>2, <1>7, SymbolsAre
      <4>. QED
        BY <1>1, <4>1, SpecMeans
    <3> DEFINE bl == Copies(" ", Greater(0, spec.width - Len(back)))
               tl == Copies(" ", Greater(0, spec.width - Len(text)))
    <3>2. chars = IF "LEFT" \in spec.flags THEN Reverse(back) \o bl
                  ELSE IF "ZEROPAD" \in spec.flags THEN Reverse(back) ELSE bl \o Reverse(back)
      BY OutRevBy, Zenon
    <3>3. Field(text) = IF "LEFT" \in spec.flags THEN text \o tl ELSE tl \o text
      BY Zenon DEF Field
    <3>4. Reverse(back) = text /\ Len(back) = Len(text)
      BY NullText
    <3>5. bl = tl
      <4> HIDE DEF back, text
      <4>. QED
        BY <3>4, Zenon
    <3> HIDE DEF bl, tl, chars, back, text
    <3>. QED
      BY <3>1, <3>2, <3>3, <3>4, <3>5, Zenon
  <2>4. chars = Rendering(e)
    <3> HIDE DEF chars, text
    <3>1. Field(text) = StandardField(e, text)
      BY FieldStandard
    <3>. QED
      BY <1>6, <1>7, <2>3, <3>1, Zenon
  <2>. QED
    <3> HIDE DEF chars
    <3>. QED
      BY <2>1, <2>2, <2>4, Zenon DEF Prints
<1>8. CASE a # Null
  <2> DEFINE chars == Field(cut(a))
  <2>1. given' = given \o chars
    <3> HIDE DEF chars
    <3>1. Finish("string", chars)
      BY <1>5, <1>8, Zenon DEF chars
    <3>. QED
      BY <3>1, Zenon DEF Finish, putchar_via_gadget
  <2>2. a \in Seq(Char) /\ Len(a) \in Nat
    <3>1. STRING \ {NUL} \subseteq Char
      BY DEF Char
    <3>2. a \in Seq(STRING \ {NUL})
      BY <1>2, <1>8
    <3>. QED
      BY <3>1, <3>2, Wider
  <2>3. cut(a) \in Seq(Char)
    <3> DEFINE n == Lesser(spec.precision, Len(a))
    <3>1. n \in Nat /\ n <= Len(a)
      BY <1>1, <2>2 DEF Lesser
    <3> HIDE DEF n, a
    <3>2. SubSeq(a, 1, n) \in Seq(Char)
      BY <2>2, <3>1, SubSeqProperties
    <3>. QED
      BY <2>2, <3>2, Zenon DEF n
  <2>4. chars \in Seq(Char)
    <3> HIDE DEF cut
    <3>. QED
      BY <1>1, <2>3, FieldChars
  <2>5. ASSUME Plain(e) PROVE cut(a) = shown
    <3>1. /\ HasPrecision(e) <=> "PRECISION" \in spec.flags
          /\ HasPrecision(e) => spec.precision = e.precision.value
      BY <1>1, <2>5, SpecMeans
    <3> HIDE DEF a
    <3>. QED
      BY <3>1, Zenon
  <2>6. ASSUME Plain(e) PROVE chars = Rendering(e)
    <3> HIDE DEF cut, shown
    <3>1. chars = StandardField(e, cut(a))
      BY FieldStandard
    <3>. QED
      BY <1>6, <1>8, <2>5, <2>6, <3>1, Zenon
  <2>. QED
    <3> HIDE DEF chars
    <3>. QED
      BY <2>1, <2>4, <2>6, Zenon DEF Prints
<1>. QED
  BY <1>7, <1>8

\* Every conversion prints its item.
LEMMA LetterPrints ==
    ASSUME NEW e, Ready(e), Letter
    PROVE  \E chars : Prints(e, chars) /\ given' = given \o chars
  BY IntegerPrints, CharacterPrints, StringPrints, PointerPrints, OtherPrints DEF Letter

\* Text prints as itself.
LEMMA TextPrints ==
    ASSUME NEW e, ProperItem(e), e.conv = "text"
    PROVE  <<e.arg>> \in Seq(Char) /\ Rendering(e) = <<e.arg>>
<1>1. e.arg \in STRING \ {"%", NUL}
  BY DEF ProperItem, IsInteger, ProperPlain
<1>2. e.arg \in Char
  BY <1>1 DEF Char
<1>3. <<e.arg>> \in Seq(Char)
  BY <1>2
<1>4. e.conv \in {"text"}
  OBVIOUS
<1>5. e.conv # "%" /\ e.conv # "c" /\ e.conv # "s" /\ e.conv # "p"
  OBVIOUS
<1>6. Rendering(e) = <<e.arg>>
  BY <1>4, <1>5, Zenon DEF Rendering
<1>. QED
  BY <1>3, <1>6

\* What the standard asks for is of characters.
LEMMA StandardChars ==
    ASSUME NEW c, Regular(c), Sized(c), Printable(c)
    PROVE  Standard(c) \in Seq(Char)
  BY IntegerStandard, IntegerChars, Zenon DEF Regular

\* The standard's fields are of characters.
LEMMA StandardFieldChars ==
    ASSUME NEW e, Piece(e), NEW chars \in Seq(Char)
    PROVE  StandardField(e, chars) \in Seq(Char)
<1> DEFINE w == Abs(e.width.value)
           bl == Copies(" ", Greater(0, w - Len(chars)))
<1>1. w \in Int /\ Len(chars) \in Int
  BY SpecMeans
<1>2. bl \in Seq(Char)
  BY <1>1, Short, BlankChars, Zenon
<1>3. StandardField(e, chars) = IF Left(e) THEN chars \o bl ELSE bl \o chars
  BY Zenon DEF StandardField
<1> HIDE DEF bl
<1>4. chars \o bl \in Seq(Char) /\ bl \o chars \in Seq(Char)
  BY <1>2, JoinChars, Zenon
<1>. QED
  BY <1>3, <1>4, Zenon

\* What the standard says of an item is of characters.
LEMMA RenderingChars ==
    ASSUME NEW e, ProperItem(e), Plain(e), Fits(e)
    PROVE  Rendering(e) \in Seq(Char)
<1>1. CASE e.conv = "text"
  BY <1>1, TextPrints
<1>2. CASE e.conv # "text"
  <2>1. Piece(e)
    BY <1>2, ProperPiece
  <2>2. e.conv \in {"d", "i", "u", "x", "o", "b", "c", "s", "p", "%"}
    BY <2>1 DEF Piece
  <2>3. CASE e.conv = "%"
    <3>1. Rendering(e) = <<"%">>
      <4>1. e.conv \notin {"text"} /\ e.conv # "c" /\ e.conv # "s" /\ e.conv # "p"
        BY <2>3
      <4>. QED
        BY <2>3, <4>1, Zenon DEF Rendering
    <3>2. "%" \in Char
      BY LettersAre, Zenon DEF Letters
    <3>3. <<"%">> \in Seq(Char)
      BY <3>2
    <3>. QED
      BY <3>1, <3>3
  <2>4. CASE e.conv = "c"
    <3>1. Rendering(e) = StandardField(e, <<e.arg>>)
      <4>1. e.conv \notin {"text"} /\ e.conv # "%" /\ e.conv # "s" /\ e.conv # "p"
        BY <2>4
      <4>. QED
        BY <2>4, <4>1, Zenon DEF Rendering
    <3>2. e.arg \in Char
      BY <2>4, PlainArg DEF Char
    <3>3. <<e.arg>> \in Seq(Char)
      BY <3>2
    <3>. QED
      BY <2>1, <3>1, <3>3, StandardFieldChars, Zenon
  <2>5. CASE e.conv = "s"
    <3> DEFINE text == <<"(", "n", "u", "l", "l", ")">>
               a == e.arg
               n == Lesser(e.precision.value, Len(a))
               shown == IF HasPrecision(e) THEN SubSeq(a, 1, n) ELSE a
    <3>1. Rendering(e) = StandardField(e, IF a = Null THEN text ELSE shown)
      <4>1. e.conv \notin {"text"} /\ e.conv # "%" /\ e.conv # "c" /\ e.conv # "p"
        BY <2>5
      <4>. QED
        BY <2>5, <4>1, Zenon DEF Rendering
    <3>2. text \in Seq(Char)
      BY NullText
    <3>3. a # Null => shown \in Seq(Char)
      <4> SUFFICES ASSUME a # Null PROVE shown \in Seq(Char)
        OBVIOUS
      <4>1. a \in Seq(STRING \ {NUL})
        BY <2>5, PlainArg
      <4>2. STRING \ {NUL} \subseteq Char
        BY DEF Char
      <4>3. a \in Seq(Char) /\ Len(a) \in Nat
        BY <4>1, <4>2, Wider
      <4>4. e.precision.value \in Int
        <5>1. ProperAmount(e.precision, 0)
          BY <2>1 DEF Piece
        <5>. QED
          BY <5>1 DEF ProperAmount
      <4>5. n \in Nat /\ n <= Len(a)
        BY <4>3, <4>4 DEF Lesser, Plain
      <4> HIDE DEF n, a
      <4>6. SubSeq(a, 1, n) \in Seq(Char)
        BY <4>3, <4>5, SubSeqProperties
      <4>. QED
        BY <4>3, <4>6, Zenon
    <3> HIDE DEF text, shown
    <3>4. (IF a = Null THEN text ELSE shown) \in Seq(Char)
      BY <3>2, <3>3, Zenon
    <3>. QED
      BY <2>1, <3>1, <3>4, StandardFieldChars, Zenon
  <2>6. CASE e.conv = "p"
    <3>1. Rendering(e) = Standard(PointerCall(e))
      <4>1. e.conv \notin {"text"} /\ e.conv # "%" /\ e.conv # "c" /\ e.conv # "s"
        BY <2>6
      <4>. QED
        BY <2>6, <4>1, Zenon DEF Rendering
    <3>2. Regular(PointerCall(e)) /\ Sized(PointerCall(e))
      BY <2>1, <2>6, PointerCallIs
    <3>3. Printable(PointerCall(e))
      BY <2>6 DEF Fits
    <3>. QED
      BY <3>1, <3>2, <3>3, StandardChars, Zenon
  <2>7. CASE IsInteger(e)
    <3>1. Rendering(e) = Standard(StandardCall(e))
      <4>1. e.conv \notin {"text"} /\ e.conv # "%" /\ e.conv # "c" /\ e.conv # "s" /\ e.conv # "p"
        BY <2>7 DEF IsInteger
      <4>. QED
        BY <4>1, Zenon DEF Rendering
    <3>2. StandardBits(e) \in Nat /\ StandardBits(e) <= Bits
      BY StandardBitsIs
    <3>3. Regular(StandardCall(e)) /\ Sized(StandardCall(e))
      BY <2>1, <2>7, <3>2, CallOfIs, CallIsStandard
    <3>4. Printable(StandardCall(e))
      BY <2>7 DEF Fits
    <3>. QED
      BY <3>1, <3>3, <3>4, StandardChars, Zenon
  <2>. QED
    BY <2>2, <2>3, <2>4, <2>5, <2>6, <2>7 DEF IsInteger
<1>. QED
  BY <1>1, <1>2

-----------------------------------------------------------------------------
(* What the whole format prints.                                           *)

\* At the letter of a conversion everything is ready to print it.
LEMMA LetterReady ==
    ASSUME Called, NEW k \in 1..Count, input.items[k].conv # "text",
           AtLetter(input.items[k], Begin(k), Reach(k), ArgsBefore(k))
    PROVE  Ready(input.items[k])
<1>1. PICK e, b, r, n : e = input.items[k] /\ b = Begin(k) /\ r = Reach(k) /\ n = ArgsBefore(k)
  OBVIOUS
<1>2. Piece(e) /\ Spelled(e, b, r) /\ HasArgs(e, r, n)
  BY <1>1, ItemPiece
<1>3. n \in Nat
  BY <1>1, BeginsAre
<1>4. AtLetter(e, b, r, n)
  BY <1>1
<1>5. /\ CharAt(at) = e.conv /\ ProperItem(e)
      /\ e.conv # "%" => Fetches(LastType(e), e.arg)
      /\ spec = SpecOf(AllFlags(e), Abs(e.width.value), PrecisionOf(e), SizeOf(e.length))
  BY <1>2, <1>3, <1>4, LetterIs
<1>6. Ready(e)
  BY <1>2, <1>5 DEF Ready
<1>. QED
  BY <1>1, <1>6

\* What PrintsFormat asks of the call.
Good == PlainPrecision /\ NumbersFit

\* What the items of such a call print, item by item.
LEMMA RenderingsAre ==
    ASSUME Called, Good
    PROVE  /\ Renderings \in Seq(Seq(Char)) /\ Len(Renderings) = Count
           /\ \A k \in 1..Count : Renderings[k] = Rendering(input.items[k])
           /\ Rendered = Upto(Renderings, Count)
<1>1. Count \in Nat /\ DOMAIN input.items = 1..Count
  BY ItemsAre
<1>2. ASSUME NEW k \in 1..Count PROVE Rendering(input.items[k]) \in Seq(Char)
  <2> DEFINE e == input.items[k]
  <2>1. ProperItem(e)
    BY ItemsAre
  <2>2. Plain(e)
    BY <1>1 DEF Good, PlainPrecision, Plain
  <2>3. Fits(e)
    BY <1>1, Zenon DEF Good, NumbersFit, Fits
  <2> HIDE DEF e
  <2>4. Rendering(e) \in Seq(Char)
    BY <2>1, <2>2, <2>3, RenderingChars
  <2>. QED
    BY <2>4 DEF e
<1>3. Renderings = [k \in 1..Count |-> Rendering(input.items[k])]
  BY <1>1, Zenon DEF Renderings
<1>4. Renderings \in Seq(Seq(Char)) /\ Len(Renderings) = Count
      /\ \A k \in 1..Count : Renderings[k] = Rendering(input.items[k])
  BY <1>1, <1>2, <1>3
<1>5. FlattenSeq(Renderings) = Upto(Renderings, Count)
  BY <1>4, UptoStep
<1>6. Rendered = FlattenSeq(Renderings)
  BY Zenon DEF Rendered, Renderings
<1>. QED
  BY <1>4, <1>5, <1>6

\* One item more.
LEMMA PrintsOn ==
    ASSUME Called, NEW k \in 1..Count, Good => Printed(k), given \in Seq(Char),
           NEW chars, Prints(input.items[k], chars)
    PROVE  /\ given \o chars \in Seq(Char)
           /\ Good => given \o chars = Upto(Renderings, (k + 1) - 1)
<1>1. chars \in Seq(Char)
  BY DEF Prints
<1>2. given \o chars \in Seq(Char)
  BY <1>1, JoinChars, Zenon
<1>3. ASSUME Good PROVE given \o chars = Upto(Renderings, (k + 1) - 1)
  <2>1. Count \in Nat /\ DOMAIN input.items = 1..Count
    BY ItemsAre
  <2>2. Plain(input.items[k])
    BY <1>3, <2>1 DEF Good, PlainPrecision, Plain
  <2>3. Fits(input.items[k])
    BY <1>3, <2>1, Zenon DEF Good, NumbersFit, Fits
  <2>4. chars = Rendering(input.items[k])
    BY <2>2, <2>3 DEF Prints
  <2>5. Renderings \in Seq(Seq(Char)) /\ k \in 1..Len(Renderings)
        /\ Renderings[k] = Rendering(input.items[k])
    BY <1>3, RenderingsAre
  <2>6. Upto(Renderings, k) = Upto(Renderings, k - 1) \o Renderings[k]
    BY <2>5, UptoStep
  <2>7. (k + 1) - 1 = k
    OBVIOUS
  <2>8. given = Upto(Renderings, k - 1)
    BY <1>3 DEF Printed
  <2>. QED
    BY <2>4, <2>5, <2>6, <2>7, <2>8, Zenon
<1>. QED
  BY <1>2, <1>3

\* The rules do not change with a step.
LEMMA GoodStays ==
    ASSUME UNCHANGED callVars
    PROVE  (Good' <=> Good) /\ Renderings' = Renderings
<1>1. input' = input
  BY DEF callVars
<1>2. (PlainPrecision' <=> PlainPrecision) /\ (NumbersFit' <=> NumbersFit)
  BY <1>1 DEF PlainPrecision, NumbersFit
<1>3. Renderings' = Renderings
  BY <1>1 DEF Renderings
<1>. QED
  BY <1>2, <1>3 DEF Good

\* The parser stands in front of, within or behind an item, and what has been printed
\* is what the standard says of the items before it.
Faithful ==
    /\ given \in Seq(Char)
    /\ \E k \in 1..(Count + 1) : Standing(k) /\ (Good => Printed(k))

\* It holds before the first step.
LEMMA FaithfulBegins == ASSUME ProperInputs, Init PROVE Faithful
<1>1. Called
  BY DEF Called, Init
<1>2. at = 1 /\ phase = "text" /\ taken = <<>> /\ given = <<>>
  BY DEF Init
<1>3. Len(taken) = 0 /\ given \in Seq(Char)
  BY <1>2
<1>4. Count \in Nat /\ Begin(1) = 0 /\ ArgsBefore(1) = 0
  BY <1>1, FormatIs
<1>5. 1 \in 1..(Count + 1) /\ Standing(1)
  BY <1>2, <1>3, <1>4 DEF Standing, InFront
<1>6. ASSUME Good PROVE Printed(1)
  <2>1. Upto(Renderings, 0) = <<>>
    BY <1>1, <1>6, RenderingsAre, UptoStep
  <2>2. 1 - 1 = 0
    OBVIOUS
  <2>. QED
    BY <1>2, <2>1, <2>2 DEF Printed
<1>. QED
  BY <1>3, <1>5, <1>6 DEF Faithful

\* A step that prints nothing and stays with the item.
LEMMA FaithfulHere ==
    ASSUME given \in Seq(Char), NEW k \in 1..(Count + 1), Good => Printed(k),
           UNCHANGED callVars, given' = given, Standing(k)'
    PROVE  Faithful'
<1>1. Count' = Count
  BY Stays
<1>2. (Good' <=> Good) /\ Renderings' = Renderings
  BY GoodStays
<1>3. Good' => Printed(k)'
  BY <1>2 DEF Printed
<1>4. k \in 1..(Count' + 1)
  BY <1>1
<1>5. given' \in Seq(Char)
  OBVIOUS
<1>. QED
  BY <1>1, <1>3, <1>5 DEF Faithful

\* A step that prints the item.
LEMMA FaithfulNext ==
    ASSUME Called, given \in Seq(Char), NEW k \in 1..Count, Good => Printed(k),
           k + 1 \in 1..(Count + 1), NEW chars, Prints(input.items[k], chars),
           given' = given \o chars, UNCHANGED callVars, Standing(k + 1)'
    PROVE  Faithful'
<1>1. Count' = Count
  BY Stays
<1>2. (Good' <=> Good) /\ Renderings' = Renderings
  BY GoodStays
<1>3. given' \in Seq(Char) /\ (Good => given' = Upto(Renderings, (k + 1) - 1))
  BY PrintsOn
<1>4. Good' => Printed(k + 1)'
  BY <1>2, <1>3 DEF Printed
<1>. QED
  BY <1>1, <1>3, <1>4 DEF Faithful

\* Every step keeps it.
LEMMA FaithfulKeeps ==
    ASSUME Called, Faithful, taken \in Seq(Types), [Next]_vars
    PROVE  Faithful'
<1>1. PICK k \in 1..(Count + 1) : Standing(k) /\ (Good => Printed(k))
  BY DEF Faithful
<1>2. UNCHANGED callVars
  BY CallStays
<1>3. given \in Seq(Char)
  BY DEF Faithful
<1>4. CASE Part
  <2>1. Standing(k)' /\ given' = given
    BY <1>1, <1>4, PartStep, PartSame
  <2>. QED
    BY <1>1, <1>2, <1>3, <2>1, FaithfulHere
<1>5. CASE Letter
  <2>1. /\ k \in 1..Count /\ k + 1 \in 1..(Count + 1) /\ input.items[k].conv # "text"
        /\ AtLetter(input.items[k], Begin(k), Reach(k), ArgsBefore(k))
        /\ Standing(k + 1)'
    BY <1>1, <1>5, LetterLeads
  <2>2. Ready(input.items[k])
    BY <2>1, LetterReady
  <2>3. PICK chars : Prints(input.items[k], chars) /\ given' = given \o chars
    BY <1>5, <2>2, LetterPrints
  <2>. QED
    BY <1>1, <1>2, <1>3, <2>1, <2>3, FaithfulNext
<1>6. CASE Text
  <2>1. /\ k \in 1..Count /\ k + 1 \in 1..(Count + 1) /\ input.items[k].conv = "text"
        /\ CharAt(at) = input.items[k].arg
        /\ Standing(k + 1)'
    BY <1>1, <1>6, TextLeads
  <2>2. given' = given \o <<CharAt(at)>>
    BY <1>6 DEF Text, putchar_via_gadget
  <2>3. ProperItem(input.items[k])
    BY <2>1, ItemsAre
  <2>4. <<CharAt(at)>> \in Seq(Char) /\ Rendering(input.items[k]) = <<CharAt(at)>>
    BY <2>1, <2>3, TextPrints
  <2>5. Prints(input.items[k], <<CharAt(at)>>)
    BY <2>4 DEF Prints
  <2>. QED
    BY <1>1, <1>2, <1>3, <2>1, <2>2, <2>5, FaithfulNext
<1>7. CASE StartSpec \/ EndOfText \/ Return
  <2>1. Standing(k)'
    BY <1>1, <1>7, StartLeads, EndLeads
  <2>2. given' = given
    BY <1>7 DEF StartSpec, EndOfText, Return, outVars
  <2>. QED
    BY <1>1, <1>2, <1>3, <2>1, <2>2, FaithfulHere
<1>8. CASE UNCHANGED vars
  <2>1. Standing(k)' /\ given' = given
    BY <1>1, <1>8, StandingStays DEF vars
  <2>. QED
    BY <1>1, <1>2, <1>3, <2>1, FaithfulHere
<1>. QED
  BY <1>4, <1>5, <1>6, <1>7, <1>8, NextCases

\* It is more than PrintsFormat.
LEMMA FaithfulSuffices == ASSUME Called, Faithful PROVE PrintsFormat
<1>1. \A i \in DOMAIN given : given[i] # NUL
  <2>1. \A i \in DOMAIN given : given[i] \in Char
    BY DEF Faithful
  <2>. QED
    BY <2>1 DEF Char
<1>2. ASSUME phase = "done", Good PROVE given = Rendered
  <2>1. PICK k \in 1..(Count + 1) : Standing(k) /\ (Good => Printed(k))
    BY DEF Faithful
  <2>2. k = Count + 1
    BY <1>2, <2>1 DEF Standing
  <2>3. given = Upto(Renderings, k - 1)
    BY <1>2, <2>1 DEF Printed
  <2>4. k - 1 = Count
    BY <2>2, ItemsAre
  <2>. QED
    BY <1>2, <2>3, <2>4, RenderingsAre, Zenon
<1>. QED
  BY <1>1, <1>2 DEF PrintsFormat, Good

-----------------------------------------------------------------------------
\* For every proper call, of any length and with any arguments: format_string_loop
\* (printf.c:1039) asks va_arg for as many arguments as the format calls for, one
\* after the other and each with its type, stars included, and for all of them.
THEOREM ArgumentsCorrect ==
    ASSUME ProperInputs
    PROVE  Spec => []ArgumentsInStep
<1>1. Init => Parser
  BY ParserBegins
<1>2. IInv => Formed
  BY DEF IInv, Output, Parsed, Formed, IsSequence
<1>3. Parser /\ IInv /\ [Next]_vars => Parser'
  BY <1>2, ParserKeeps
<1>4. Parser /\ IInv => ArgumentsInStep
  BY <1>2, ParserSuffices
<1>. QED
  BY <1>1, <1>3, <1>4, Invariant, PTL DEF Spec

\* For every proper call whose numbers fit print_integer's buffer and whose precisions
\* are not negative: what format_string_loop (printf.c:1039) prints is what the C
\* standard says of the format, item by item, and for every such call or not, no NUL.
THEOREM FormatCorrect ==
    ASSUME ProperInputs
    PROVE  Spec => []PrintsFormat
<1>1. Init => Parser /\ Faithful
  BY ParserBegins, FaithfulBegins
<1>2. IInv => Formed
  BY DEF IInv, Output, Parsed, Formed, IsSequence
<1>3. Parser /\ Faithful /\ IInv /\ [Next]_vars => (Parser /\ Faithful)'
  <2> SUFFICES ASSUME Parser, Faithful, IInv, [Next]_vars PROVE Parser' /\ Faithful'
    OBVIOUS
  <2>1. Called /\ taken \in Seq(Types)
    BY DEF Parser, Matches
  <2>. QED
    BY <1>2, <2>1, ParserKeeps, FaithfulKeeps
<1>4. Parser /\ Faithful => PrintsFormat
  BY FaithfulSuffices DEF Parser
<1>. QED
  BY <1>1, <1>3, <1>4, Invariant, PTL DEF Spec
=============================================================================
