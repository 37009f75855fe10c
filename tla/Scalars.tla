------------------------------ MODULE Scalars -------------------------------
(***************************************************************************)
(* CDT (src/src/CDT.cpp): arithmetic, comparison and conversion.           *)
(*                                                                         *)
(* A value is what a handle shows of itself: its kind and, for a text, the *)
(* bytes, the kind of number its cell remembers (value_type) and that      *)
(* number (uc).  Arithmetic between any two kinds is written out by hand   *)
(* in three overloads per operator and twice, with and without assignment; *)
(* comparison in six operators and six methods.                            *)
(*                                                                         *)
(* THROW_EXCEPTION_IN_COMPARATORS is off, as in the build.  Numbers that   *)
(* do not fit 64 bits and divisors that are zero are left out.             *)
(***************************************************************************)
EXTENDS Text

Undef      == [k |-> "UNDEF"]
IntVal(n)     == [k |-> "INT", i |-> n]
RealVal(x) == [k |-> "REAL", r |-> x]
Str(s)     == [k |-> "STRING", s |-> s, vt |-> "NONE", uc |-> Real(0)]
Arr(e)     == [k |-> "ARRAY", e |-> e]
HashVal(m) == [k |-> "HASH", m |-> m]
Throws     == [k |-> "throws"]

TextKinds    == {"STRING", "STRING_INT", "STRING_REAL"}
NumericKinds == {"INT", "REAL", "STRING_INT", "STRING_REAL"}
Containers   == {"ARRAY", "HASH"}
IsText(v)    == v.k \in TextKinds

-----------------------------------------------------------------------------
(* Numbers of texts.                                                       *)

IntNum(n)  == [t |-> "INT", x |-> Real(n)]
RealNum(x) == [t |-> "REAL", x |-> x]

(* The number a text is taken for; kept says whether the cell remembers it.*)
(* The digits before the point end at b, those after it at c, those of the *)
(* exponent begin at d.                                                    *)
Taken(n, kept) == [t |-> n.t, x |-> n.x, kept |-> kept]
Exponential(s, d) ==
  IF AfterDigits(s, d) = Len(s) + 1 THEN Taken(RealNum(StrToD(s)), TRUE)
  ELSE Taken(RealNum(Real(0)), FALSE)
Fractional(s, b, c) ==
  CASE c = Len(s) + 1 ->
         Taken(RealNum(IF b = Len(s) THEN Real(0) ELSE Decimal(s, b, c)), TRUE)
    [] c <= Len(s) /\ (s[c] \notin {LetterE, Letter_e} \/ AfterSign(s, c + 1) > Len(s)) ->
         Taken(RealNum(Real(0)), TRUE)
    [] OTHER -> Exponential(s, AfterSign(s, c + 1))
NumberAt(s, b) ==
  IF b = Len(s) + 1 THEN Taken(IntNum(StrToLL(s)), TRUE) ELSE Fractional(s, b, AfterPoint(s, b))
TextNumber(s) ==
  IF s = <<>> THEN Taken(IntNum(0), TRUE) ELSE NumberAt(s, AfterDigits(s, AfterSign(s, 1)))

(* The value after CastToNumber, which is const and changes it all the     *)
(* same: the handle takes the kind its cell has, or the cell is given one. *)
CheckComplexDataType(v) ==
  IF v.vt = "NONE" THEN v ELSE [v EXCEPT !.k = "STRING_" \o v.vt]
(* Mutant: the kind is remembered, the number is not. *)
RememberedKindOnly(w, n) ==
  IF w.k # "STRING" \/ ~n.kept THEN w ELSE [w EXCEPT !.k = "STRING_" \o n.t, !.vt = n.t]
Remembered(w, n) ==
  IF w.k # "STRING" \/ ~n.kept THEN w
  ELSE [w EXCEPT !.k = "STRING_" \o n.t, !.vt = n.t, !.uc = n.x]
Numbered(v) ==
  IF v.k # "STRING" THEN v ELSE Remembered(CheckComplexDataType(v), TextNumber(v.s))

NumberOf(w) ==
  CASE w.k = "UNDEF" -> IntNum(0)
    [] w.k = "INT" -> IntNum(w.i)
    [] w.k = "REAL" -> RealNum(w.r)
    [] w.k = "STRING" -> RealNum(Real(0))
    [] w.k = "STRING_INT" -> [t |-> "INT", x |-> w.uc]
    [] w.k = "STRING_REAL" -> RealNum(w.uc)
    [] w.k = "ARRAY" -> IntNum(Len(w.e))
    [] w.k = "HASH" -> IntNum(Cardinality(DOMAIN w.m))
CastToNumber(v) == NumberOf(Numbered(v))

GetFloat(v) == IF v.k \in Containers THEN Real(0) ELSE CastToNumber(v).x
GetInt(v)   == Truncated(GetFloat(v))
GetUInt(v)  == GetInt(v) \* of numbers that are not negative
ToInt(v)    == IntVal(GetInt(v))
ToFloat(v)  == RealVal(GetFloat(v))

(* The text of a value; of a container its kind, with no address.          *)
GetString(v) ==
  CASE v.k = "UNDEF" -> <<>>
    [] v.k = "INT" -> IntText(v.i)
    [] v.k = "REAL" -> RealText(v.r)
    [] IsText(v) -> v.s
    [] v.k = "ARRAY" -> <<65, 82, 82, 65, 89>>
    [] v.k = "HASH" -> <<72, 65, 83, 72>>
ToStringVal(v) == Str(GetString(v))

Size(v) ==
  CASE IsText(v) -> Len(v.s)
    [] v.k = "ARRAY" -> Len(v.e)
    [] v.k = "HASH" -> Cardinality(DOMAIN v.m)
    [] OTHER -> 0

-----------------------------------------------------------------------------
(* Arithmetic on two numbers, of which one or none is a real.              *)
Number(n) == IF n.t = "INT" THEN IntVal(Truncated(n.x)) ELSE RealVal(n.x)
Negated(n) == [n EXCEPT !.x = Diff(Real(0), @)]
Both(a, b) == IF a.t = "INT" /\ b.t = "INT" THEN "INT" ELSE "REAL"
Added(a, b)      == Number([t |-> Both(a, b), x |-> Sum(a.x, b.x)])
Subtracted(a, b) == Number([t |-> Both(a, b), x |-> Diff(a.x, b.x)])
Multiplied(a, b) == Number([t |-> Both(a, b), x |-> Prod(a.x, b.x)])
Divided(a, b)    == Number([t |-> Both(a, b), x |-> Quot(a.x, b.x)])

(* The operators with an INT_64 or a W_FLOAT on the right. *)
PlusNumber(v, b) ==
  CASE v.k = "UNDEF" -> Number(b)
    [] v.k \in Containers -> Throws
    [] OTHER -> Added(CastToNumber(v), b)
MinusNumber(v, b) == PlusNumber(v, Negated(b))
TimesNumber(v, b) ==
  CASE v.k = "UNDEF" -> IntVal(0)
    [] v.k \in Containers -> Throws
    [] OTHER -> Multiplied(CastToNumber(v), b)
OverNumber(v, b) ==
  CASE v.k = "UNDEF" -> Divided(IntNum(0), b)
    [] v.k \in Containers -> Throws
    [] OTHER -> Divided(CastToNumber(v), b)

(* The operators with a CDT on the right; a container counts by its size.  *)
PlusCDT(v, w)  == Added(CastToNumber(v), CastToNumber(w))
MinusCDT(v, w) == Subtracted(CastToNumber(v), CastToNumber(w))
TimesCDT(v, w) == Multiplied(CastToNumber(v), CastToNumber(w))
OverCDT(v, w)  == Divided(CastToNumber(v), CastToNumber(w))

(* The operators with assignment.  A real added to an INT_VAL is cut.      *)
PlusAssignNumber(v, b) ==
  CASE v.k = "UNDEF" -> Number(b)
    [] v.k = "INT" -> IntVal(v.i + Truncated(b.x))
    [] v.k = "REAL" -> RealVal(Sum(v.r, b.x))
    [] IsText(v) -> Added(CastToNumber(v), b)
    [] OTHER -> Throws
MinusAssignNumber(v, b) == PlusAssignNumber(v, Negated(b))
TimesAssignNumber(v, b) ==
  CASE v.k = "UNDEF" -> Number([t |-> b.t, x |-> Real(0)])
    [] v.k = "REAL" -> RealVal(Prod(v.r, b.x))
    [] v.k = "INT" \/ IsText(v) -> Multiplied(CastToNumber(v), b)
    [] OTHER -> Throws
OverAssignNumber(v, b) ==
  CASE v.k = "UNDEF" -> Divided(IntNum(0), b)
    [] v.k = "REAL" -> RealVal(Quot(v.r, b.x))
    [] v.k = "INT" \/ IsText(v) -> Divided(CastToNumber(v), b)
    [] OTHER -> Throws

PlusAssignCDT(v, w)  == Added(CastToNumber(v), CastToNumber(w))
MinusAssignCDT(v, w) == Subtracted(CastToNumber(v), CastToNumber(w))
TimesAssignCDT(v, w) == Multiplied(CastToNumber(v), CastToNumber(w))
OverAssignCDT(v, w)  == Divided(CastToNumber(v), CastToNumber(w))

(* A number on the left: n / v is v / n.                                   *)
NumberPlus(n, v)  == PlusCDT(Number(n), v)
NumberMinus(n, v) == MinusCDT(Number(n), v)
NumberTimes(n, v) == TimesNumber(v, n)
NumberOver(n, v)  == OverNumber(v, n)

Incremented(v) ==
  CASE v.k = "UNDEF" -> v
    [] v.k \in Containers -> Throws
    [] OTHER -> Added(CastToNumber(v), IntNum(1))
PostIncremented(v) ==
  CASE v.k = "UNDEF" -> v
    [] v.k \in Containers -> Throws
    [] OTHER -> Added(CastToNumber(v), IntNum(1))
Decremented(v) ==
  CASE v.k = "UNDEF" -> v
    [] v.k \in Containers -> Throws
    [] OTHER -> Subtracted(CastToNumber(v), IntNum(1))
PostDecremented(v) ==
  CASE v.k = "UNDEF" -> v
    [] v.k \in Containers -> Throws
    [] OTHER -> Subtracted(CastToNumber(v), IntNum(1))

-----------------------------------------------------------------------------
(* Comparison with operators: of the kinds the two values have now.  Two   *)
(* values of kinds that do not compare make every operator but != FALSE.   *)
BothUndef(v, w)   == v.k = "UNDEF" /\ w.k = "UNDEF"
BothNumeric(v, w) == v.k \in NumericKinds /\ w.k \in NumericKinds
BothTexts(v, w)   == IsText(v) /\ IsText(w)

OpEqual(v, w) ==
  \/ BothUndef(v, w)
  \/ BothNumeric(v, w) /\ GetFloat(v) = GetFloat(w)
  \/ ~BothNumeric(v, w) /\ BothTexts(v, w) /\ v.s = w.s
OpNotEqual(v, w) == ~OpEqual(v, w)
OpGreater(v, w) ==
  \/ BothNumeric(v, w) /\ RealLess(GetFloat(w), GetFloat(v))
  \/ ~BothNumeric(v, w) /\ BothTexts(v, w) /\ TextLess(w.s, v.s)
OpLess(v, w) ==
  \/ BothNumeric(v, w) /\ RealLess(GetFloat(v), GetFloat(w))
  \/ ~BothNumeric(v, w) /\ BothTexts(v, w) /\ TextLess(v.s, w.s)
OpLessOrEqual(v, w) ==
  \/ BothUndef(v, w)
  \/ BothNumeric(v, w) /\ ~RealLess(GetFloat(w), GetFloat(v))
  \/ ~BothNumeric(v, w) /\ BothTexts(v, w) /\ ~TextLess(w.s, v.s)
OpGreaterOrEqual(v, w) ==
  \/ BothUndef(v, w)
  \/ BothNumeric(v, w) /\ ~RealLess(GetFloat(v), GetFloat(w))
  \/ ~BothNumeric(v, w) /\ BothTexts(v, w) /\ ~TextLess(v.s, w.s)

(* Comparison with methods: as texts when one of the two is a text that    *)
(* was not used as a number, else as numbers; containers never compare,    *)
(* but on the right of a text.                                             *)
ByNumber(v, w) == {v.k, w.k} \cap (Containers \cup {"STRING"}) = {}
ByText(v, w) ==
  \/ v.k = "STRING"
  \/ v.k \notin Containers /\ w.k = "STRING"
Equal(v, w) ==
  \/ ByNumber(v, w) /\ GetFloat(v) = GetFloat(w)
  \/ ByText(v, w) /\ GetString(v) = GetString(w)
NotEqual(v, w) == ~Equal(v, w)
GreaterThan(v, w) ==
  \/ ByNumber(v, w) /\ RealLess(GetFloat(w), GetFloat(v))
  \/ ByText(v, w) /\ TextLess(GetString(w), GetString(v))
LessThan(v, w) ==
  \/ ByNumber(v, w) /\ RealLess(GetFloat(v), GetFloat(w))
  \/ ByText(v, w) /\ TextLess(GetString(v), GetString(w))
GreaterOrEqual(v, w) == ~LessThan(v, w)
LessOrEqual(v, w) == ~GreaterThan(v, w)
=============================================================================
