------------------------------ MODULE Sprintf -------------------------------
(***************************************************************************)
(* FormatString (src/src/CTPP2Sprintf.cpp) and the StringBuffer it writes  *)
(* to (src/src/CTPP2StringBuffer.cpp).                                     *)
(*                                                                         *)
(* A format that ends early or names an unknown conversion makes           *)
(* FormatString return -1; what was put out until then is in the result,   *)
(* which the one caller uses without looking at the return value.  The     *)
(* conversions of reals (e, f, g) rest on the digits of DTOA and are left  *)
(* out, as are negative numbers in unsigned conversions of 32 and 64 bits. *)
(***************************************************************************)
EXTENDS Containers
LOCAL INSTANCE SequencesExt
LOCAL INSTANCE FiniteSetsExt

CONSTANT StringBufferLen  \* C_STRING_BUFFER_LEN
ASSUME StringBufferAssumption == StringBufferLen \in Nat

-----------------------------------------------------------------------------
(* StringBuffer: what was handed on, what is in the buffer.                *)
EmptyBuffer == [done |-> <<>>, buf |-> <<>>]
Flush(b) == [done |-> b.done \o b.buf, buf |-> <<>>]
Put(b, text) ==
  IF Len(text) > StringBufferLen - Len(b.buf)
  THEN [Flush(b) EXCEPT !.done = @ \o text]
  ELSE [b EXCEPT !.buf = @ \o text]

-----------------------------------------------------------------------------
(* Conversions.  d is a directive: its flags, width and precision (-1 if   *)
(* there is none), length, conversion and padding.                         *)

Padding(c, n) == Repeat(c, IF n > 0 THEN n ELSE 0)
Padded(d, s, c) ==
  LET pad == Padding(c, d.width - Len(s)) IN IF d.left THEN s \o pad ELSE pad \o s

LetterC(v) ==
  CASE v.k \in {"INT", "REAL"} -> GetInt(v) % 256
    [] v.k = "STRING" -> CharAt(v.s, 1)
    [] v.k = "ARRAY" -> 65
    [] v.k = "HASH" -> 72
    [] OTHER -> Space
FmtChar(d, v) ==
  IF v \in {Undef, Str(<<>>)} /\ d.width > 0
  THEN Padding(d.pad, d.width)
  ELSE Padded(d, <<LetterC(v)>>, d.pad)

FmtString(d, v) ==
  LET s == GetString(v)
  IN Padded(d, IF d.precision > 0 THEN SubSeq(s, 1, Min({d.precision, Len(s)})) ELSE s, d.pad)

(* The digits of a number that is cut to the width of its C type.          *)
Signed16(n) == LET m == n % 65536 IN IF m >= 32768 THEN m - 65536 ELSE m
Cut(n, conv, len) ==
  CASE len # "h" -> n
    [] len = "h" /\ conv = "d" -> Signed16(n)
    [] OTHER -> n % 65536
Base(conv) ==
  CASE conv = "o" -> 8
    [] conv \in {"x", "X", "p"} -> 16
    [] OTHER -> 10
DoFormat(n, conv) ==
  LET digits == Digits(Abs(n), Base(conv))
  IN IF conv = "X" THEN [i \in DOMAIN digits |-> ToUpper(digits[i])] ELSE digits

Sign(d, n) ==
  CASE n < 0 -> <<MinusSign>>
    [] n >= 0 /\ d.sign = "+" -> <<PlusSign>>
    [] n >= 0 /\ d.sign = " " -> <<Space>>
    [] OTHER -> <<>>
Prefix(d) ==
  CASE d.hash /\ d.conv = "o" -> <<Zero>>
    [] d.hash /\ d.conv \in {"x", "p"} -> <<Zero, Letter_x>>
    [] d.hash /\ d.conv = "X" -> <<Zero, 88>>
    [] OTHER -> <<>>
FmtDigits(d, sign, prefix, digits) ==
  LET zeros == Padding(Zero, d.precision - Len(digits))
      rest == d.width - Len(sign \o zeros \o digits)
  IN CASE d.pad = Zero -> sign \o prefix \o zeros \o Padding(Zero, rest) \o digits
       [] d.pad # Zero /\ d.left -> sign \o prefix \o zeros \o digits \o Padding(Space, rest)
       [] OTHER -> Padding(Space, rest - Len(prefix)) \o sign \o prefix \o zeros \o digits
FmtNumber(d, n) == FmtDigits(d, Sign(d, n), Prefix(d), DoFormat(n, d.conv))
FmtInt(d, v) == FmtNumber(d, Cut(GetInt(v), d.conv, d.len))

Converted(d, v) ==
  CASE d.conv = "c" -> FmtChar(d, v)
    [] d.conv = "s" -> FmtString(d, v)
    [] OTHER -> FmtInt(d, v)

-----------------------------------------------------------------------------
(* The directive at i, after '%'.  Each part is read at d.at, where the    *)
(* one before it ended; a star takes the argument d.next.                  *)
StarSign == 42
FlagChars == {MinusSign, PlusSign, Space, Hash, Zero}
Conversion(c) ==
  CASE c = 99 -> "c" [] c \in {100, 105} -> "d" [] c = 111 -> "o" [] c = 115 -> "s"
    [] c = Letter_u -> "u" [] c = Letter_x -> "x" [] c = 88 -> "X" [] c = 112 -> "p"
    [] OTHER -> "unknown"
FlagsTo(f, i, end, n) ==
  LET flags == {f[j] : j \in i .. end - 1}
      signs == {j \in i .. end - 1 : f[j] \in {PlusSign, Space}}
  IN [at |-> end, next |-> n, left |-> MinusSign \in flags, hash |-> Hash \in flags,
      sign |-> IF signs = {} THEN "" ELSE IF f[Max(signs)] = PlusSign THEN "+" ELSE " ",
      pad |-> IF Zero \in flags THEN Zero ELSE Space,
      width |-> -1, precision |-> -1, len |-> "", conv |-> "unknown"]
Flags(f, i, n) == FlagsTo(f, i, Skip(LAMBDA c : c \in FlagChars, f, i), n)
Given(f, i, d, args) ==
  IF CharAt(f, i) = StarSign
  THEN [v |-> IF d.next < Len(args.e) THEN GetInt(args.e[d.next + 1]) ELSE 0,
        d |-> [d EXCEPT !.at = i + 1, !.next = @ + 1]]
  ELSE [v |-> ValueOf(DigitsFrom(f, i), 10), d |-> [d EXCEPT !.at = AfterDigits(f, i)]]
WithWidth(g) == [g.d EXCEPT !.width = g.v]
Width(f, d, args) ==
  IF CharAt(f, d.at) = StarSign \/ Digit(CharAt(f, d.at))
  THEN WithWidth(Given(f, d.at, d, args)) ELSE d
WithPrecision(g) == [g.d EXCEPT !.precision = g.v]
Precision(f, d, args) ==
  IF CharAt(f, d.at) = Point THEN WithPrecision(Given(f, d.at + 1, d, args)) ELSE d
Ell(c) == c \in {108, 76}
Length(f, d) ==
  CASE CharAt(f, d.at) = 104 -> [d EXCEPT !.at = @ + 1, !.len = "h"]
    [] Ell(CharAt(f, d.at)) ->
         [d EXCEPT !.at = IF Ell(CharAt(f, @ + 1)) THEN @ + 2 ELSE @ + 1, !.len = "l"]
    [] OTHER -> d
Named(f, d) == [d EXCEPT !.conv = Conversion(CharAt(f, d.at))]
Directive(f, i, args, n) ==
  Named(f, Length(f, Precision(f, Width(f, Flags(f, i, n), args), args)))

(* What is put out from i on.  The second of two '%' is put out and then   *)
(* read again, as the start of a directive.                                *)
RECURSIVE FormatFrom(_, _, _, _, _)
Formatted(f, d, args, b) ==
  IF d.next > Len(args.e) THEN Throws
  ELSE IF d.at > Len(f) THEN b
  ELSE IF f[d.at] = Percent THEN FormatFrom(f, d.at, args, d.next, Put(b, <<Percent>>))
  ELSE IF d.next = Len(args.e) THEN Throws
  ELSE IF d.conv = "unknown" THEN b
  ELSE FormatFrom(f, d.at + 1, args, d.next + 1, Put(b, Converted(d, args.e[d.next + 1])))
FormatTo(f, i, percent, args, n, b) ==
  IF percent > Len(f) THEN Put(b, SubSeq(f, i, Len(f)))
  ELSE Formatted(f, Directive(f, percent + 1, args, n), args, Put(b, SubSeq(f, i, percent - 1)))
FormatFrom(f, i, args, n, b) ==
  FormatTo(f, i, Skip(LAMBDA c : c # Percent, f, i), args, n, b)

(* The text a call leaves in sResult, when the buffer has been flushed.    *)
Result(b) == IF b = Throws THEN Throws ELSE Str(Flush(b).done)
FormatString(f, args) == Result(FormatFrom(f, 1, args, 0, EmptyBuffer))
=============================================================================
