----------------------------- MODULE Reference ------------------------------
(***************************************************************************)
(* What the functions of the library are for, written the plain way: a     *)
(* text by characters is a sequence of characters, a rule for plural forms *)
(* means what it says, what was encoded can be decoded.  Nothing here is   *)
(* taken from the code of the function it is about.                        *)
(***************************************************************************)
EXTENDS Handlers
LOCAL INSTANCE SequencesExt
LOCAL INSTANCE FiniteSetsExt

-----------------------------------------------------------------------------
(* Encoding and decoding. *)

(* What of a value JSON keeps: a whole real comes back as an integer, a    *)
(* text that was used as a number as this number.                          *)
RECURSIVE ReadBack(_)
ReadBack(v) ==
  CASE v.k = "REAL" /\ v.r[2] = 1 -> IntVal(v.r[1])
    [] v.k = "STRING_INT" -> IntVal(v.uc[1])
    [] v.k = "STRING_REAL" -> RealVal(v.uc)
    [] v.k = "ARRAY" -> Arr([i \in DOMAIN v.e |-> ReadBack(v.e[i])])
    [] v.k = "HASH" -> HashVal([t \in DOMAIN v.m |-> ReadBack(v.m[t])])
    [] OTHER -> v
Reads(text, v) == Parse(text) = Found(Len(text) + 1, v)

(* Every byte replaced on its own, with no buffer.                         *)
Unbuffered(table, s) == FlattenSeq([i \in DOMAIN s |-> table[s[i]].text])
Marks == {Quote, Apos, LtSign, GtSign}
HexValue(c) == IF Digit(c) THEN c - Zero ELSE c - 55
RECURSIVE PercentDecoded(_)
PercentDecoded(s) ==
  CASE s = <<>> -> <<>>
    [] s # <<>> /\ s[1] = Percent ->
         <<16 * HexValue(s[2]) + HexValue(s[3])>> \o PercentDecoded(SubSeq(s, 4, Len(s)))
    [] OTHER -> <<s[1]>> \o PercentDecoded(Tail(s))

-----------------------------------------------------------------------------
(* Texts.  q is a sequence of bytes or of characters.                      *)
Characters(s) ==
  LET starts == SetToSortSeq({i \in DOMAIN s : ~Continues(s[i])}, <)
      end(k) == IF k = Len(starts) THEN Len(s) ELSE starts[k + 1] - 1
  IN [k \in DOMAIN starts |-> SubSeq(s, starts[k], end(k))]
Part(q, offset, n) == SubSeq(q, offset + 1, Min({offset + n, Len(q)}))
Spliced(q, offset, n, u) ==
  SubSeq(q, 1, Min({offset, Len(q)})) \o u \o SubSeq(q, offset + n + 1, Len(q))
RECURSIVE Substituted(_, _, _)
Substituted(s, t, u) ==
  IF Len(s) < Len(t) THEN s
  ELSE IF SubSeq(s, 1, Len(t)) = t THEN u \o Substituted(SubSeq(s, Len(t) + 1, Len(s)), t, u)
  ELSE <<s[1]>> \o Substituted(Tail(s), t, u)

(* A number with its digits in groups of three, read from the end.         *)
RECURSIVE InThrees(_, _)
InThrees(digits, sep) ==
  IF Len(digits) <= 3 THEN digits
  ELSE InThrees(SubSeq(digits, 1, Len(digits) - 3), sep)
         \o <<sep>> \o SubSeq(digits, Len(digits) - 2, Len(digits))

(* A text of blanks, a sign and digits, as the number it shows.            *)
Shown(s) == LET t == SelectSeq(s, LAMBDA c : c # Space) IN StrToLL(t)

-----------------------------------------------------------------------------
(* Numbers and orders. *)
StrictWeakOrder(S, C(_, _)) ==
  \A x, y, z \in S :
    /\ ~C(x, x)
    /\ C(x, y) => ~C(y, x)
    /\ C(x, y) /\ C(y, z) => C(x, z)
    /\ ~C(x, y) /\ ~C(y, x) /\ ~C(y, z) /\ ~C(z, y) => ~C(x, z)
Numeric(S) == \A v \in S : v.k \in {"INT", "REAL"}
Textual(S) == \A v \in S : v.k = "STRING"

(* The rule of a Russian catalogue.                                        *)
RussianForm(n) ==
  CASE n % 10 = 1 /\ n % 100 # 11 -> 1
    [] n % 10 \in 2 .. 4 /\ n % 100 \notin 12 .. 14 -> 2
    [] OTHER -> 3

(* The form a rule chooses for a count, as its grammar reads it.           *)
AsInt(b) == IF b THEN 1 ELSE 0
RECURSIVE Meaning(_, _)
Meaning(t, n) ==
  CASE t.op = "n" -> n
    [] t.op = "number" -> t.k
    [] t.op = "()" -> Meaning(t.a, n)
    [] t.op = "?" -> IF Meaning(t.a, n) # 0 THEN Meaning(t.b, n) ELSE Meaning(t.c, n)
    [] t.op = "&&" -> IF Meaning(t.a, n) = 0 THEN 0 ELSE Meaning(t.b, n)
    [] t.op = "||" -> IF Meaning(t.a, n) # 0 THEN Meaning(t.a, n) ELSE Meaning(t.b, n)
    [] t.op = "%" -> Meaning(t.a, n) % Meaning(t.b, n)
    [] t.op = "==" -> AsInt(Meaning(t.a, n) = Meaning(t.b, n))
    [] t.op = "!=" -> AsInt(Meaning(t.a, n) # Meaning(t.b, n))
    [] t.op = "<" -> AsInt(Meaning(t.a, n) < Meaning(t.b, n))
    [] t.op = ">" -> AsInt(Meaning(t.a, n) > Meaning(t.b, n))
    [] t.op = "<=" -> AsInt(Meaning(t.a, n) <= Meaning(t.b, n))
    [] t.op = ">=" -> AsInt(Meaning(t.a, n) >= Meaning(t.b, n))
=============================================================================
