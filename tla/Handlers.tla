------------------------------ MODULE Handlers ------------------------------
(***************************************************************************)
(* The functions a template may call (src/src/functions).                  *)
(*                                                                         *)
(* a is aArguments: the last argument of the call comes first.  A handler  *)
(* answers a value, Fails when it returns -1, and Throws.  Left out: what  *)
(* asks the system (time, dates, host name, random numbers), hashes and    *)
(* what needs roots, logarithms or a library (avg 'g' and 'q', log, iconv, *)
(* ICU).  Offsets and lengths are not negative.                            *)
(***************************************************************************)
EXTENDS Sprintf
LOCAL INSTANCE SequencesExt
LOCAL INSTANCE FiniteSetsExt

Fails == [k |-> "fails"]
Yes(b) == IntVal(IF b THEN 1 ELSE 0)
InOrder(a) == Reverse(a)
Joined(a) == LET e == InOrder(a) IN FlattenSeq([i \in DOMAIN e |-> GetString(e[i])])

-----------------------------------------------------------------------------
(* Texts. *)
FnConcat(a)   == Str(Joined(a))
Escaped(a, E(_)) == IF a = <<>> THEN Fails ELSE Str(E(Joined(a)).out)
FnHTMLEscape(a) == Escaped(a, HTMLEscape)
FnURLEscape(a)  == Escaped(a, URLEscape)
FnURIEscape(a)  == Escaped(a, URIEscape)
FnXMLEscape(a)  == Escaped(a, XMLEscape)
FnWMLEscape(a)  == Escaped(a, WMLEscape)
FnBase64Encode(a) == IF Len(a) # 1 THEN Fails ELSE Str(Base64Encode(GetString(a[1])))
FnBase64Decode(a) == IF Len(a) # 1 THEN Fails ELSE Str(Base64Decode(GetString(a[1])))
FnJSON(a) == IF Len(a) # 1 THEN Fails ELSE Str(CDT2JSON(a[1]))
FnJSONEscape(a) ==
  LET e == InOrder(a)
      part(v) == CASE v.k = "UNDEF" -> NullText
                   [] v.k = "STRING" -> DumpJSONString(v.s, TRUE, FALSE)
                   [] OTHER -> GetString(v)
  IN IF a = <<>> \/ \E i \in DOMAIN a : a[i].k \in Containers THEN Fails
     ELSE Str(FlattenSeq([i \in DOMAIN e |-> part(e[i])]))

EqualSign == 61
FnHrefParam(a) ==
  IF Len(a) # 2 THEN Fails
  ELSE Str(URLEscape(GetString(a[2])).out \o <<EqualSign>> \o URLEscape(GetString(a[1])).out
             \o Amp5)
(* The markup around the name and around the value is two marks here.      *)
FnFormParam(a) ==
  IF Len(a) # 2 THEN Fails
  ELSE Str(<<LtSign>> \o HTMLEscape(GetString(a[2])).out \o <<Quote>>
             \o HTMLEscape(GetString(a[1])).out \o <<GtSign>>)

(* std::string::substr *)
SubStr(s, from, n) == SubSeq(s, from + 1, Min({from + n, Len(s)}))
Rest(s, from) == SubSeq(s, from + 1, Len(s))

(* UINT_32 of a number, and a sum of two, in a small width.                *)
CONSTANT UIntRange  \* 2^32
ASSUME UIntAssumption == UIntRange \in Nat \ {0}
UInt(v) == GetInt(v) % UIntRange
FnSubstring(a) ==
  LET s == GetString(a[Len(a)])
      offset == UInt(a[Len(a) - 1])
      bytes == UInt(a[Len(a) - 2])
      end == (bytes + offset) % UIntRange
  IN CASE Len(a) = 0 -> Str(<<>>)
       [] Len(a) \in {2, 3, 4} /\ Len(s) < offset -> Str(<<>>)
       [] Len(a) = 2 /\ Len(s) >= offset -> Str(Rest(s, offset))
       [] Len(a) = 3 /\ Len(s) >= offset -> Str(SubStr(s, offset, bytes))
       [] Len(a) = 4 /\ Len(s) >= offset ->
            Str(SubStr(s, 0, offset) \o GetString(a[1])
                  \o (IF end > Len(s) THEN <<>> ELSE Rest(s, end)))
       [] OTHER -> Fails
FnTruncate(a) ==
  LET s == GetString(a[Len(a)])
      max == UInt(a[Len(a) - 1])
      addon == IF Len(a) = 3 THEN GetString(a[1]) ELSE <<>>
  IN IF Len(a) \notin {2, 3} THEN Fails
     ELSE Str(IF Len(s) > max THEN SubStr(s, 0, max) \o addon ELSE s)

(* string::find: the first place at or after from, 0 if there is none.     *)
FoundAt(s, t, from) ==
  LET at == {i \in from .. Len(s) - Len(t) + 1 : SubSeq(s, i, i + Len(t) - 1) = t}
  IN IF at = {} THEN 0 ELSE Min(at)
RECURSIVE ReplacedFrom(_, _, _, _)
ReplacedFrom(s, t, u, from) ==
  LET i == FoundAt(s, t, from)
  IN IF i = 0 THEN s
     ELSE ReplacedFrom(SubSeq(s, 1, i - 1) \o u \o SubSeq(s, i + Len(t), Len(s)), t, u, i + Len(u))
(* Of a search text that is not empty: an empty one is found for ever.     *)
FnReplace(a) ==
  IF Len(a) # 3 THEN Fails
  ELSE Str(ReplacedFrom(GetString(a[3]), GetString(a[2]), GetString(a[1]), 1))

-----------------------------------------------------------------------------
(* Texts by characters.  The scan steps over a character, which counts, or *)
(* over a byte that starts none, which does not; a character cut off by    *)
(* the end of the text ends it.                                            *)
RECURSIVE StepsFrom(_, _, _)
StepsFrom(s, i, n) ==
  LET len == utf_charlen(s, i)
      next == IF len < 0 THEN [pos |-> i + 1, n |-> n] ELSE [pos |-> i + len, n |-> n + 1]
  IN IF len = -3 THEN <<>> ELSE <<next>> \o StepsFrom(s, next.pos, next.n)
Steps(s) == StepsFrom(s, 1, 0)
Start == [pos |-> 1, n |-> 0]
(* Where the scan is when it has met Stop after a step, or at its end.     *)
ScannedTo(s, Stop(_)) ==
  LET steps == Steps(s)
      met == {k \in DOMAIN steps : Stop(steps[k].n)}
  IN IF steps = <<>> THEN Start
     ELSE IF met = {} THEN Last(steps) ELSE steps[Min(met)]

(* From the character after offset on, where the scan has stopped; where   *)
(* the part begins whose end the scan has found.                           *)
MBRest(s, offset, to) == IF to.n < offset THEN <<>> ELSE SubSeq(s, to.pos, Len(s))
MBStart(s, offset, to) ==
  Max({x.pos : x \in {y \in Range(Steps(s)) : y.n = offset /\ y.pos <= to}} \cup {1})
MBSpliced(s, from, to, u) == SubSeq(s, 1, from - 1) \o u \o SubSeq(s, to, Len(s))
FnMBSubstring(a) ==
  LET s == GetString(a[Len(a)])
      offset == UInt(a[Len(a) - 1])
      to == ScannedTo(s, LAMBDA n : n = (offset + UInt(a[Len(a) - 2])) % UIntRange).pos
  IN CASE Len(a) = 0 -> Str(<<>>)
       [] Len(a) = 2 -> Str(MBRest(s, offset, ScannedTo(s, LAMBDA n : n >= offset)))
       [] Len(a) = 3 -> Str(SubSeq(s, MBStart(s, offset, to), to - 1))
       [] Len(a) = 4 -> Str(MBSpliced(s, MBStart(s, offset, to), to, GetString(a[1])))
       [] OTHER -> Fails
FnMBTruncate(a) ==
  LET s == GetString(a[Len(a)])
      max == UInt(a[Len(a) - 1])
      to == ScannedTo(s, LAMBDA n : n >= max)
  IN CASE Len(a) = 2 -> Str(IF to.n = max THEN SubSeq(s, 1, to.pos - 1) ELSE s)
       [] Len(a) = 3 -> Str(IF to.n >= max THEN SubSeq(s, 1, to.pos - 1) \o GetString(a[1]) ELSE s)
       [] OTHER -> Fails
(* Here a byte that starts no character counts, too.                       *)
FnMBSize(a) ==
  IF Len(a) # 1 THEN Fails
  ELSE IntVal(IF a[1].k = "STRING" THEN Len(Steps(a[1].s)) ELSE Size(a[1]))

-----------------------------------------------------------------------------
(* Values. *)
FnDefault(a) == IF Len(a) # 2 THEN Fails ELSE IF Nonzero(a[2]) THEN a[2] ELSE a[1]
FnDefined(a) == IF a = <<>> THEN Fails ELSE Yes(Undef \notin Range(a))
FnInSet(a) ==
  IF Len(a) <= 1 THEN Fails
  ELSE Yes(\E i \in 1 .. Len(a) - 1 : Equal(a[Len(a)], a[i]))
FnInArray(a) ==
  CASE Len(a) # 2 -> Fails
    [] Len(a) = 2 /\ a[1].k = "UNDEF" -> Yes(FALSE)
    [] Len(a) = 2 /\ a[1].k = "ARRAY" -> Yes(\E i \in DOMAIN a[1].e : Equal(a[2], a[1].e[i]))
    [] OTHER -> Fails
(* The first element that is no hash, or that has the value, decides.      *)
FnAttrInArray(a) ==
  LET e == a[2].e
      bad == {i \in DOMAIN e : e[i].k # "HASH"}
      hit == {i \in DOMAIN e \ bad : Equal(a[3], GetCDTOf(e[i], GetString(a[1])))}
  IN CASE Len(a) # 3 -> Fails
       [] Len(a) = 3 /\ a[2].k = "UNDEF" -> Yes(FALSE)
       [] Len(a) = 3 /\ a[2].k = "ARRAY" ->
            IF bad \cup hit = {} THEN Yes(FALSE)
            ELSE IF Min(bad \cup hit) \in hit THEN Yes(TRUE) ELSE Fails
       [] OTHER -> Fails
FnList(a) == Arr(InOrder(a))
FnListElement(a) ==
  LET last == Len(a) - 1
      n == UInt(a[Len(a)])
  IN IF Len(a) <= 1 THEN Fails ELSE IF n >= last THEN Fails ELSE a[last - n]
FnError(a) == Fails
FnHashKeys(a) == IF Len(a) # 1 THEN Fails ELSE IF a[1].k # "HASH" THEN Fails ELSE GetHashKeys(a[1])
FnSize(a) == IF Len(a) # 1 THEN Fails ELSE IntVal(Size(a[1]))

(* The first of the greatest, counted from the end of the call.            *)
FnMax(a) ==
  IF a = <<>> THEN Fails
  ELSE LET most == {i \in DOMAIN a : \A j \in DOMAIN a : ~RealLess(GetFloat(a[i]), GetFloat(a[j]))}
       IN a[Min(most)]
FnMin(a) ==
  IF a = <<>> THEN Fails
  ELSE LET least == {i \in DOMAIN a : \A j \in DOMAIN a : ~RealLess(GetFloat(a[j]), GetFloat(a[i]))}
       IN a[Min(least)]

(* avg: arithmetic and harmonic.  A zero among the numbers makes the       *)
(* harmonic mean a division by zero.                                       *)
FnAvg(a) ==
  LET flag == ToLower(CharAt(GetString(a[Len(a)]), 1))
      n == Len(a) - 1
      total(Of(_)) == FoldLeft(LAMBDA x, i : Sum(x, Of(GetFloat(a[i]))), Real(0), [i \in 1 .. n |-> i])
  IN CASE Len(a) < 2 -> Fails
       [] Len(a) >= 2 /\ flag = 97 -> RealVal(Quot(total(LAMBDA x : x), Real(n)))
       [] Len(a) >= 2 /\ flag = 104 -> RealVal(Quot(Real(n), total(LAMBDA x : Quot(Real(1), x))))
       [] OTHER -> Fails

(* cast: sscanf of the leading number of a text, in the base of the flag   *)
(* (without 0x); of a text used as a number and of a container it fails.   *)
InBase(c, base) == IF base = 16 THEN HexDigit(ToLower(c)) ELSE c \in Zero .. Zero + base - 1
Scanned(s, base) ==
  LET a == AfterSign(s, Skip(White, s, 1))
      n == ValueOf(SubSeq(s, a, Skip(LAMBDA c : InBase(c, base), s, a) - 1), base)
  IN IF CharAt(s, a - 1) = MinusSign THEN -n ELSE n
FnCast(a) ==
  LET flag == ToLower(CharAt(GetString(a[2]), 1))
      v == a[1]
      base == CASE flag = 111 -> 8
                [] flag = 104 -> 16
                [] flag = 105 /\ CharAt(v.s, AfterSign(v.s, 1)) = Zero -> 8
                [] OTHER -> 10
  IN CASE Len(a) # 2 -> Fails
       [] Len(a) = 2 /\ flag = 115 -> Str(GetString(v))
       [] Len(a) = 2 /\ flag \in {111, 100, 105, 104, 102} ->
            CASE v.k \in {"UNDEF", "INT", "REAL"} ->
                   IF flag = 102 THEN RealVal(GetFloat(v)) ELSE IntVal(GetInt(v))
              [] v.k = "STRING" ->
                   IF flag = 102 THEN RealVal(StrToD(v.s)) ELSE IntVal(Scanned(v.s, base))
              [] OTHER -> Fails
       [] OTHER -> Fails

(* num_format: digits by threes from the point on; the separator is not    *)
(* empty.                                                                  *)
Grouped(digits, sep) ==
  LET n == Len(digits)
  IN FlattenSeq([i \in 1 .. n |->
       (IF i > 1 /\ (n - i + 1) % 3 = 0 THEN <<sep>> ELSE <<>>) \o <<digits[i]>>])
FnNumFormat(a) ==
  LET sep == CharAt(GetString(a[1]), 1)
      v == a[2]
      n == CastToNumber(v)
      text == IF n.t = "INT" THEN IntText(Truncated(n.x)) ELSE RealText(n.x)
      from == AfterSign(text, 1)
      point == AfterDigits(text, from)
  IN IF Len(a) # 2 THEN Fails
     ELSE Str(SubSeq(text, 1, from - 1) \o Grouped(SubSeq(text, from, point - 1), sep)
                \o SubSeq(text, point, Len(text)))

FnSprintf(a) ==
  IF a = <<>> THEN Fails
  ELSE FormatString(GetString(a[Len(a)]), Arr(InOrder(SubSeq(a, 1, Len(a) - 1))))

(* Which of three forms a Russian numeral takes; % keeps the sign in C.    *)
numeral_case(n) ==
  LET x == IF n < 0 THEN -(Abs(n) % 100) ELSE n % 100
      y == IF x < 0 THEN -(Abs(x) % 10) ELSE x % 10
  IN CASE x \in 11 .. 19 -> 3
       [] x \notin 11 .. 19 /\ y = 1 -> 1
       [] x \notin 11 .. 19 /\ y \in 2 .. 4 -> 2
       [] OTHER -> 3
FnRussianPlural(a) == Str(GetString(a[4 - numeral_case(GetInt(a[4]))]))
=============================================================================
