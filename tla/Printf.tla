------------------------------- MODULE Printf -------------------------------
(***************************************************************************)
(* Number conversion and formatted output: lib/cstd/src/stdio.c, the       *)
(* numbers of the kernel's stubout.c and of prgm/start.  A character is    *)
(* its code.  A format is a sequence of items: [k |-> "lit", ch] for a     *)
(* character, [k |-> "bad", ch] for a '%' before a character that is no    *)
(* conversion, and the conversions [k |-> "c"], "s", "p", and "d", "u",    *)
(* "x", "X" and "o" with their size class cls.  %g is left out.  An        *)
(* argument is [num, str]: its value, and the string at that value or      *)
(* <<WILD>>.                                                               *)
(***************************************************************************)
EXTENDS Integers, Sequences, SequencesExt

CONSTANTS
  LONG_BITS, INT_BITS,   \* widths of long and int
  TextMax                \* length of the longest text considered

Minus == 45
Percent == 37
Digit0 == 48
LetterA == 65
Null == <<40, 110, 117, 108, 108, 41>>   \* "(null)"
WILD == -2                               \* no string is at this address
JUNK == -1                               \* a character of a buffer before use

Smaller(a, b) == IF a < b THEN a ELSE b

ulong(v) == v % 2^LONG_BITS

\* va_arg(ls, int) and va_arg(ls, unsigned).
int(v) == LET u == v % 2^INT_BITS IN IF u < 2^(INT_BITS - 1) THEN u ELSE u - 2^INT_BITS
unsigned(v) == v % 2^INT_BITS

DigitChar(d) == IF d < 10 THEN Digit0 + d ELSE LetterA + d - 10

-----------------------------------------------------------------------------
(* Numbers.                                                                *)

\* The largest power of radix that is not above the number.
RECURSIVE Divisor(_, _, _)
Divisor(tmp, div, radix) ==
  IF tmp > 0 THEN Divisor(tmp \div radix, div * radix, radix) ELSE div

RECURSIVE FromTop(_, _, _)
FromTop(val, div, radix) ==
  IF div = 0 THEN <<>>
  ELSE <<DigitChar(val \div div)>> \o FromTop(val % div, div \div radix, radix)

\* Fault: the divisor is one power too high.
utoa_high(val, radix) ==
  IF val = 0 THEN <<Digit0>> ELSE FromTop(val, Divisor(val, 1, radix), radix)

utoa(val, radix) ==
  IF val = 0 THEN <<Digit0>> ELSE FromTop(val, Divisor(val \div radix, 1, radix), radix)

itoa(v, radix) ==
  IF v < 0 THEN <<Minus>> \o utoa(ulong(-v), radix) ELSE utoa(v, radix)

\* The kernel's, the same loops with a character put out at a time.
dputu(val, radix) ==
  IF val = 0 THEN <<Digit0>> ELSE FromTop(val, Divisor(val \div radix, 1, radix), radix)

\* dputl negates as a long: the least long stays what it is.
dputl(val, radix) ==
  (IF val < 0 THEN <<Minus>> ELSE <<>>)
  \o dputu(ulong(IF val < 0 THEN -val ELSE val), radix)

\* Digits from the last to the first, into str[len - 1] down to str[0].
RECURSIVE FromBottom(_, _)
FromBottom(value, radix) ==
  IF value = 0 THEN <<>>
  ELSE Append(FromBottom(value \div radix, radix), DigitChar(value % radix))

\* The string, or the length that max was too small for, and no string.
number_to_string(value, max, radix) ==
  LET str == IF value = 0 THEN <<Digit0>> ELSE FromBottom(value, radix)
  IN  IF Len(str) >= max THEN [str |-> <<>>, ret |-> IF value = 0 THEN 2 ELSE Len(str)]
                         ELSE [str |-> str, ret |-> 0]

-----------------------------------------------------------------------------
(* vsnprintf: i counts the characters of the text, of which those below    *)
(* len are stored.                                                         *)

Store(r, len, text) ==
  [r EXCEPT !.i = @ + Len(text),
            !.buf = [p \in DOMAIN @ |->
                       IF p > r.i /\ p <= Smaller(len, r.i + Len(text))
                       THEN text[p - r.i] ELSE @[p]]]

\* va_arg in format_int and in format_uint.
SignedArg(item, v) == IF item.cls = "long" THEN v ELSE int(v)
UnsignedArg(item, v) == IF item.cls = "long" THEN ulong(v) ELSE unsigned(v)

\* The radix that vsnprintf passes to format_uint, which does not use it.
Radix(item) == CASE item.k = "u" -> 10 [] item.k = "o" -> 8 [] OTHER -> 16

format_int(item, v) == itoa(SignedArg(item, v), 10)

format_uint(item, v, radix) == utoa(UnsignedArg(item, v), 10)

Number(item, v) ==
  CASE item.k = "d" -> format_int(item, v)
    [] item.k = "p" -> IF v = 0 THEN Null ELSE utoa(ulong(v), 16)
    [] OTHER        -> format_uint(item, v, Radix(item))

\* %c beyond len: the argument is not taken, the next conversion gets it.
Skips(r, len, item) == item.k = "c" /\ r.i >= len

Convert(r, len, item) ==
  LET arg == r.args[1]
      taken == [r EXCEPT !.args = Tail(@)]
  IN  CASE Skips(r, len, item) -> [r EXCEPT !.i = @ + 1]
        [] ~Skips(r, len, item) /\ (r.wild \/ r.args = <<>>) -> [r EXCEPT !.wild = TRUE]
        [] OTHER ->
           IF item.k = "c" THEN Store(taken, len, <<arg.num % 256>>)
           ELSE IF item.k # "s" THEN Store(taken, len, Number(item, arg.num))
           ELSE IF arg.str = <<WILD>> THEN [r EXCEPT !.wild = TRUE]
           ELSE Store(taken, len, arg.str)

Format(r, len, item) ==
  CASE item.k = "lit" -> Store(r, len, <<item.ch>>)
    [] item.k = "bad" -> Store(r, len, <<Percent, item.ch>>)
    [] OTHER -> Convert(r, len, item)

\* Fault: a text that fills the buffer is not ended.
Ended_short(r, len) == IF r.i < len THEN [r EXCEPT !.buf[r.i + 1] = 0] ELSE r

Ended(r, len) ==
  IF len = 0 THEN r ELSE [r EXCEPT !.buf[Smaller(r.i + 1, len)] = 0]

vsnprintf(len, fmt, args) ==
  Ended(FoldLeft(LAMBDA r, item : Format(r, len, item),
                 [i |-> 0, args |-> args, wild |-> FALSE,
                  buf |-> [p \in 1..(TextMax + 1) |-> JUNK]], fmt), len)

\* The characters before the first NUL, as strlen counts them.
String(buf) ==
  SubSeq(buf, 1, SelectInSeq(buf, LAMBDA ch : ch = 0) - 1)

-----------------------------------------------------------------------------
(* What a format and its arguments say.                                    *)

RECURSIVE Value(_, _)
Value(digits, radix) ==
  IF digits = <<>> THEN 0
  ELSE LET d == Last(digits)
       IN  Value(Front(digits), radix) * radix
           + (IF d < LetterA THEN d - Digit0 ELSE d - LetterA + 10)

\* The numeral of v in a radix, by its definition: the digit at a place is
\* that of the quotient by the radix to the power of the place.
Numeral(v, radix) ==
  LET mag == IF v < 0 THEN -v ELSE v
      n == CHOOSE k \in 1..LONG_BITS : /\ mag < radix^k
                                       /\ k = 1 \/ mag >= radix^(k - 1)
  IN  (IF v < 0 THEN <<Minus>> ELSE <<>>)
      \o [i \in 1..n |-> DigitChar((mag \div radix^(n - i)) % radix)]

\* digits is the numeral of v: no sign but '-', no zero in front.
Denotes(digits, v, radix) ==
  IF v < 0 THEN digits[1] = Minus /\ digits[2] # Digit0 /\ Value(Tail(digits), radix) = -v
  ELSE Value(digits, radix) = v /\ (digits[1] = Digit0 => v = 0)

Takes(item) == item.k \notin {"lit", "bad"}

Meaning(item, arg) ==
  CASE item.k = "lit" -> <<item.ch>>
    [] item.k = "bad" -> <<Percent, item.ch>>
    [] item.k = "c"   -> <<arg.num % 256>>
    [] item.k = "s"   -> arg.str
    [] item.k = "d"   -> Numeral(SignedArg(item, arg.num), 10)
    [] item.k = "p"   -> IF arg.num = 0 THEN Null ELSE Numeral(ulong(arg.num), 16)
    [] OTHER          -> Numeral(UnsignedArg(item, arg.num), Radix(item))

Text(fmt, args) ==
  FlattenSeq([n \in DOMAIN fmt |->
    LET before == Len(SelectSeq(SubSeq(fmt, 1, n), Takes))
    IN  Meaning(fmt[n], IF Takes(fmt[n]) THEN args[before] ELSE [num |-> 0, str |-> <<>>])])
=============================================================================
