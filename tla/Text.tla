-------------------------------- MODULE Text --------------------------------
(***************************************************************************)
(* Texts and numbers as the scalar values, the handlers and the formats    *)
(* of CTPP see them.  A text is a sequence of bytes; a real number is an   *)
(* exact fraction <<n, d>> in lowest terms with d > 0, so that W_FLOAT's   *)
(* rounding, infinities and not-a-number are outside of the model.  What   *)
(* the C library does with them (strtoll, strtod, printf, std::string's    *)
(* order) is defined here once.                                            *)
(***************************************************************************)
EXTENDS Integers, Sequences, FiniteSets
LOCAL INSTANCE FiniteSetsExt
LOCAL INSTANCE SequencesExt

Space == 32
Quote == 34
Hash == 35
Percent == 37
Amp == 38
Apos == 39
PlusSign == 43
Comma == 44
MinusSign == 45
Point == 46
Slash == 47
Zero == 48
Colon == 58
LtSign == 60
GtSign == 62
Backslash == 92
Underscore == 95
LetterE == 69
Letter_e == 101
Letter_n == 110
Letter_u == 117
Letter_x == 120

Digit(c) == c \in 48 .. 57
Lower(c) == c \in 97 .. 122
Upper(c) == c \in 65 .. 90
Letter(c) == Lower(c) \/ Upper(c)
ToUpper(c) == IF Lower(c) THEN c - 32 ELSE c
ToLower(c) == IF Upper(c) THEN c + 32 ELSE c

(* The byte at i, or NUL past the end, as in a C string. *)
CharAt(s, i) == IF i \in DOMAIN s THEN s[i] ELSE 0

(* The first index from i on whose byte is not of the class. *)
Skip(Class(_), s, i) == Min({j \in i .. Len(s) + 1 : ~Class(CharAt(s, j))} \cup {Len(s) + 1})

Repeat(c, n) == [i \in 1 .. n |-> c]
Mapped(Op(_), s) == FlattenSeq([i \in DOMAIN s |-> Op(s[i])])

RECURSIVE TextLess(_, _)
TextLess(s, t) ==
  IF s = <<>> \/ t = <<>> THEN Len(s) < Len(t)
  ELSE IF s[1] # t[1] THEN s[1] < t[1]
  ELSE TextLess(Tail(s), Tail(t))

-----------------------------------------------------------------------------
(* Fractions. *)
RECURSIVE Gcd(_, _)
Gcd(a, b) == IF b = 0 THEN a ELSE Gcd(b, a % b)
Abs(n) == IF n < 0 THEN -n ELSE n
Fraction(n, d) ==
  LET g == Gcd(Abs(n), Abs(d))
      s == IF d < 0 THEN -1 ELSE 1
  IN <<s * (n \div g), s * (d \div g)>>

Real(n)    == <<n, 1>>
Sum(x, y)  == Fraction(x[1] * y[2] + y[1] * x[2], x[2] * y[2])
Diff(x, y) == Fraction(x[1] * y[2] - y[1] * x[2], x[2] * y[2])
Prod(x, y) == Fraction(x[1] * y[1], x[2] * y[2])
Quot(x, y) == Fraction(x[1] * y[2], x[2] * y[1])
RealLess(x, y) == x[1] * y[2] < y[1] * x[2]

(* Integer division and conversion to an integer cut towards zero. *)
QuotInt(n, m) == LET q == Abs(n) \div Abs(m) IN IF (n < 0) # (m < 0) THEN -q ELSE q
Truncated(x) == QuotInt(x[1], x[2])

-----------------------------------------------------------------------------
(* Numbers to texts and back. *)
RECURSIVE Digits(_, _)
Digits(n, base) ==
  (IF n < base THEN <<>> ELSE Digits(n \div base, base))
    \o <<IF n % base < 10 THEN Zero + (n % base) ELSE 87 + (n % base)>>
IntText(n) == (IF n < 0 THEN <<MinusSign>> ELSE <<>>) \o Digits(Abs(n), 10)

(* %.*G of a number that is a multiple of 1/1000 and below a million. *)
Printable(x) == 1000 % x[2] = 0 /\ Abs(x[1]) < 1000000 * x[2]
Thousandths(m) == <<Zero + (m \div 100), Zero + ((m \div 10) % 10), Zero + (m % 10)>>
PointText(m) ==
  IF m = 0 THEN <<>>
  ELSE <<Point>> \o SubSeq(Thousandths(m), 1, IF m % 100 = 0 THEN 1 ELSE IF m % 10 = 0 THEN 2 ELSE 3)
RealText(x) ==
  (IF x[1] < 0 THEN <<MinusSign>> ELSE <<>>) \o Digits(Abs(x[1]) \div x[2], 10)
    \o PointText((Abs(x[1]) % x[2]) * (1000 \div x[2]))

ValueOf(digits, base) ==
  FoldLeft(LAMBDA n, c : n * base + (IF Digit(c) THEN c - Zero ELSE ToLower(c) - 87), 0, digits)

AfterSign(s, i) == IF CharAt(s, i) \in {PlusSign, MinusSign} THEN i + 1 ELSE i
AfterDigits(s, i) == Skip(Digit, s, i)
AfterPoint(s, i) == IF CharAt(s, i) = Point THEN AfterDigits(s, i + 1) ELSE i

SignOf(s, n) == IF CharAt(s, 1) = MinusSign THEN -n ELSE n
DigitsFrom(s, i) == SubSeq(s, i, AfterDigits(s, i) - 1)

(* strtoll in base ten: a sign and the digits that follow it. *)
StrToLL(s) == SignOf(s, ValueOf(DigitsFrom(s, AfterSign(s, 1)), 10))

(* strtod on a text of the form sign, digits up to b, point and digits up  *)
(* to c, exponent.                                                         *)
Exponent(s, c) == IF CharAt(s, c) \in {LetterE, Letter_e} THEN StrToLL(SubSeq(s, c + 1, Len(s))) ELSE 0
Scaled(n, p) == IF p < 0 THEN Fraction(n, 10 ^ (-p)) ELSE Real(n * 10 ^ p)
Decimal(s, b, c) ==
  Scaled(SignOf(s, ValueOf(SubSeq(s, AfterSign(s, 1), b - 1) \o SubSeq(s, b + 1, c - 1), 10)),
         Exponent(s, c) - (IF c = b THEN 0 ELSE c - b - 1))
DecimalFrom(s, b) == Decimal(s, b, AfterPoint(s, b))
StrToD(s) == DecimalFrom(s, AfterDigits(s, AfterSign(s, 1)))
=============================================================================
