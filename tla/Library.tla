------------------------------ MODULE Library -------------------------------
(***************************************************************************)
(* The library of the engine as a whole: the table of handlers, the values *)
(* that calls work on, the catalogues of gettext, and the calls.           *)
(*                                                                         *)
(* These parts share the program and no state, so that one of them moves   *)
(* at a time: the program first uses the table, then a machine as it was   *)
(* constructed is given one job: arithmetic on variables, calls, or        *)
(* loading catalogues.                                                     *)
(***************************************************************************)
EXTENDS SyscallFactory, TextNumbers, Reference, PluralForms
LOCAL INSTANCE SequencesExt

CONSTANTS
  Calls,        \* calls: [fn, args], the arguments as in the template
  Files,        \* catalogue files; a rule is a tree (see Rendered)
  CatalogKeys,  \* <<language, domain>>
  MaxLoads      \* bound: files loaded

VARIABLES
  job,      \* "table", "values", "calls", "gettext"
  answer,   \* the last call and what it gave
  catalogs, \* mCatalog
  loaded    \* the files loaded: a sequence of <<key, file>>

vars == <<factoryVars, scalarVars, job, answer, catalogs, loaded>>

NoAnswer == [fn |-> "", args |-> <<>>, is |-> Undef]

-----------------------------------------------------------------------------
(* The handler a name has (CreateHandler), applied to aArguments.          *)
Invoke(fn, a) ==
  CASE fn = "attr_in_array" -> FnAttrInArray(a)
    [] fn = "avg" -> FnAvg(a)
    [] fn = "base64_encode" -> FnBase64Encode(a)
    [] fn = "base64_decode" -> FnBase64Decode(a)
    [] fn = "cast" -> FnCast(a)
    [] fn = "concat" -> FnConcat(a)
    [] fn = "default" -> FnDefault(a)
    [] fn = "defined" -> FnDefined(a)
    [] fn = "error" -> FnError(a)
    [] fn = "form_param" -> FnFormParam(a)
    [] fn = "hash_keys" -> FnHashKeys(a)
    [] fn = "href_param" -> FnHrefParam(a)
    [] fn = "htmlescape" -> FnHTMLEscape(a)
    [] fn = "in_set" -> FnInSet(a)
    [] fn = "in_array" -> FnInArray(a)
    [] fn = "json" -> FnJSON(a)
    [] fn = "jsonescape" -> FnJSONEscape(a)
    [] fn = "list" -> FnList(a)
    [] fn = "list_element" -> FnListElement(a)
    [] fn = "min" -> FnMin(a)
    [] fn = "max" -> FnMax(a)
    [] fn = "mb_size" -> FnMBSize(a)
    [] fn = "mb_substr" -> FnMBSubstring(a)
    [] fn = "mb_truncate" -> FnMBTruncate(a)
    [] fn = "num_format" -> FnNumFormat(a)
    [] fn = "size" -> FnSize(a)
    [] fn = "sprintf" -> FnSprintf(a)
    [] fn = "substr" -> FnSubstring(a)
    [] fn = "replace" -> FnReplace(a)
    [] fn = "truncate" -> FnTruncate(a)
    [] fn = "uriescape" -> FnURIEscape(a)
    [] fn = "urlescape" -> FnURLEscape(a)
    [] fn = "wmlescape" -> FnWMLEscape(a)
    [] fn = "xmlescape" -> FnXMLEscape(a)
    [] fn = "russian_plural" -> FnRussianPlural(a)

(* The comparator given to SortArray; e[2] is the key or the index.        *)
GoesBefore(fn, e, x, y) ==
  CASE fn = "SortNum" -> SortCompareNum(x, y, "ASC")
    [] fn = "SortNumDesc" -> SortCompareNum(x, y, "DESC")
    [] fn = "SortStr" -> SortCompareStr(x, y, "ASC")
    [] fn = "SortStrDesc" -> SortCompareStr(x, y, "DESC")
    [] fn = "SortNumBy" -> SortCompareNumHashElement(x, y, e[2].s, "ASC")
    [] fn = "SortStrBy" -> SortCompareStrHashElement(x, y, e[2].s, "DESC")
    [] fn = "SortNumAt" -> SortCompareNumArrayElement(x, y, e[2].i, "DESC")
    [] fn = "SortStrAt" -> SortCompareStrArrayElement(x, y, e[2].i, "ASC")
Sorts == {"SortNum", "SortNumDesc", "SortStr", "SortStrDesc", "SortNumBy", "SortStrBy",
          "SortNumAt", "SortStrAt"}

(* What the program around the engine calls itself, on a CDT.              *)
Direct(fn, e) ==
  CASE fn = "FAST_MERGE" -> {MergeCDT(e[1], e[2], fn)}
    [] fn = "DEEP_MERGE" -> {MergeCDT(e[1], e[2], fn)}
    [] fn = "JoinArrayElements" -> {JoinArrayElements(e[1], e[2].s)}
    [] fn = "JoinHashKeys" -> {JoinHashKeys(e[1], e[2].s)}
    [] fn = "JoinHashValues" -> {JoinHashValues(e[1], e[2].s)}
    [] fn = "GetHashValues" -> {GetHashValues(e[1])}
    [] OTHER -> SortArray(e[1], LAMBDA x, y : GoesBefore(fn, e, x, y))

(* The text of a rule, whose tree has a number, n or an operator on top.   *)
RECURSIVE Rendered(_)
Rendered(t) ==
  CASE t.op = "n" -> <<Token("n")>>
    [] t.op = "number" -> <<NumberToken(t.k)>>
    [] t.op = "()" -> <<Token("(")>> \o Rendered(t.a) \o <<Token(")")>>
    [] t.op = "?" -> Rendered(t.a) \o <<Token("?")>> \o Rendered(t.b) \o <<Token(":")>> \o Rendered(t.c)
    [] OTHER -> Rendered(t.a) \o <<Token(t.op)>> \o Rendered(t.b)

-----------------------------------------------------------------------------
Init ==
  /\ FactoryInit /\ ScalarInit
  /\ job = "table" /\ answer = NoAnswer
  /\ catalogs = [k \in {} |-> NoCatalog] /\ loaded = <<>>

UseTable ==
  /\ job = "table" /\ FactoryNext
  /\ UNCHANGED <<scalarVars, job, answer, catalogs, loaded>>

(* With the table as InitLibrary leaves it, whole.                         *)
Begin(what) ==
  /\ job = "table" /\ phase = "ready"
  /\ Len(slots) = Len(aSTDFNList) /\ removed = {} /\ calls = <<>>
  /\ max = CHOOSE m \in MaxHandlers : \A k \in MaxHandlers : k <= m
  /\ job' = what
  /\ UNCHANGED <<factoryVars, scalarVars, answer, catalogs, loaded>>

Work ==
  /\ job = "values" /\ ScalarNext
  /\ UNCHANGED <<factoryVars, job, answer, catalogs, loaded>>

Call(call) ==
  /\ job = "calls" /\ answer = NoAnswer
  /\ \E is \in IF GetHandlerByName(Table, call.fn) # NoHandler
               THEN {Invoke(Folded(call.fn), InOrder(call.args))}
               ELSE Direct(call.fn, call.args) :
       answer' = [fn |-> call.fn, args |-> call.args, is |-> is]
  /\ UNCHANGED <<factoryVars, scalarVars, job, catalogs, loaded>>

Take ==
  /\ answer # NoAnswer /\ answer' = NoAnswer
  /\ UNCHANGED <<factoryVars, scalarVars, job, catalogs, loaded>>

(* The rule of every file is text; here it is made of its tree.            *)
Load(key, file) ==
  /\ job = "gettext" /\ Len(loaded) < MaxLoads
  /\ catalogs' = AddTranslation(catalogs, key,
       [i \in DOMAIN file |-> [file[i] EXCEPT !.rule = Rendered(@)]])
  /\ loaded' = Append(loaded, <<key, file>>)
  /\ UNCHANGED <<factoryVars, scalarVars, job, answer>>

Next ==
  \/ UseTable
  \/ Work \/ Take
  \/ \E what \in {"values", "calls", "gettext"} : Begin(what)
  \/ \E call \in Calls : Call(call)
  \/ \E key \in CatalogKeys, file \in Files : Load(key, file)

Spec == Init /\ [][Next]_vars

-----------------------------------------------------------------------------
(* Texts as numbers. *)

Sides == {View(v) : v \in Vars}
Numbers == {IntNum(-2), RealNum(<<3, 2>>)}
Same(S) == \A x, y \in S : x = Throws \/ y = Throws \/ GetFloat(x) = GetFloat(y)
(* The operators in their forms, on a value and a number.  (A number on    *)
(* the left of / is not among them: operator/ divides by it, line 4773.)   *)
FormsAgree(v, n) ==
  LET w == Number(n)
      keepsInt == ~(v.k = "INT" /\ n.t = "REAL") \* INT += REAL and -= cut the real
  IN /\ Same({PlusNumber(v, n), PlusCDT(v, w), PlusAssignCDT(v, w), NumberPlus(n, v)}
                \cup {x \in {PlusAssignNumber(v, n)} : keepsInt})
     /\ Same({MinusNumber(v, n), MinusCDT(v, w), MinusAssignCDT(v, w)}
                \cup {x \in {MinusAssignNumber(v, n)} : keepsInt})
     /\ Same({NumberMinus(n, v), MinusAssignCDT(w, v)})
     /\ Same({TimesNumber(v, n), TimesCDT(v, w), TimesAssignNumber(v, n), TimesAssignCDT(v, w),
               NumberTimes(n, v)})
     /\ Same({OverNumber(v, n), OverCDT(v, w), OverAssignNumber(v, n), OverAssignCDT(v, w)})
(* And on two values. *)
PairsAgree(v, w) ==
  /\ Same({PlusCDT(v, w), PlusCDT(w, v), PlusAssignCDT(v, w)})
  /\ Same({MinusCDT(v, w), MinusAssignCDT(v, w)})
  /\ Same({TimesCDT(v, w), TimesCDT(w, v), TimesAssignCDT(v, w)})
One(S) == Cardinality({x \in S : x[2]}) = 1
Ordered(v, w) ==
  /\ BothUndef(v, w) \/ BothNumeric(v, w) \/ BothTexts(v, w) =>
       /\ One({<<1, OpLess(v, w)>>, <<2, OpEqual(v, w)>>, <<3, OpGreater(v, w)>>})
       /\ OpLessOrEqual(v, w) = (OpLess(v, w) \/ OpEqual(v, w))
       /\ OpGreaterOrEqual(v, w) = OpLessOrEqual(w, v)
  /\ One({<<1, LessThan(v, w)>>, <<2, Equal(v, w)>>, <<3, GreaterThan(v, w)>>})
  /\ LessOrEqual(v, w) = (LessThan(v, w) \/ Equal(v, w))
  /\ GreaterOrEqual(v, w) = LessOrEqual(w, v) /\ NotEqual(v, w) = ~Equal(w, v)

(* However texts are shared, used as numbers, joined and computed with, a  *)
(* handle that says its text is a number has the number of this very text, *)
(* unless the text was changed in a cell that remembers a number: such a   *)
(* cell keeps the old one (line 3424), and nothing is said of it.  The     *)
(* forms of +, -, * and / on a value and a number, and of +, - and * on    *)
(* two values, give the same number; and of two values that compare        *)
(* exactly one of less, equal and greater holds, whoever is on the left.   *)
NumbersAgree ==
  job = "values" =>
    /\ \A v \in Vars : IsText(hand[v]) /\ hand[v].k # "STRING" /\ hand[v].p \notin altered =>
         LET n == TextNumber(View(v).s) IN hand[v].k = "STRING_" \o n.t /\ View(v).uc = n.x
    /\ \A v \in Sides : \A n \in Numbers : FormsAgree(v, n)
    /\ \A v, w \in Sides : PairsAgree(v, w) /\ Ordered(v, w)

-----------------------------------------------------------------------------
(* Calls. *)

(* What was written can be read: JSON gives back the value (a lone null is *)
(* not read at the end of a text), Base64 and the URL escape the text; an  *)
(* escape gives the same whatever is in its buffer, which does not run     *)
(* over, and leaves no byte that means something to the reader.            *)
RoundTrips ==
  LET fn == answer.fn
      e == answer.args
      v == answer.is
      s == e[1].s
      escaped(r, table) == r.out = Unbuffered(table, s) /\ r.top <= EscapeBufferLen
  IN CASE fn = "json" -> e[1] = Undef \/ Reads(v.s, ReadBack(e[1]))
       [] fn = "base64_encode" -> Base64Decode(v.s) = s /\ Len(v.s) % 4 = 0
       [] fn = "urlescape" -> escaped(URLEscape(s), URLTable) /\ PercentDecoded(v.s) = s
       [] fn = "uriescape" -> escaped(URIEscape(s), URITable) /\ PercentDecoded(v.s) = s
       [] fn = "htmlescape" -> escaped(HTMLEscape(s), HTMLTable) /\ Marks \cap Range(v.s) = {}
       [] fn = "xmlescape" -> escaped(XMLEscape(s), XMLTable) /\ Marks \cap Range(v.s) = {}
       [] fn = "wmlescape" -> escaped(WMLEscape(s), WMLTable) /\ Marks \cap Range(v.s) = {}
       [] OTHER -> TRUE

(* A text by bytes or by characters is what the reference says.  Left out: *)
(* mb_substr from the first character to the end, from beyond the end and  *)
(* of none of the first; a part of a text that is replaced beyond its end; *)
(* mb_truncate to none, and with an addon to the length the text has.      *)
TextAsSpecified(fn, e, v) ==
  LET s == e[1].s
      q == IF fn \in {"mb_substr", "mb_truncate", "mb_size"} THEN Characters(s)
           ELSE [i \in DOMAIN s |-> <<s[i]>>]
      text(parts) == Str(FlattenSeq(parts))
      i == e[2].i
      n == e[3].i
      beyond == fn = "mb_substr" /\ i > Len(q)
      nothing == fn = "mb_substr" /\ i = 0 /\ n = 0
      addon == IF Len(e) = 3 THEN <<e[3].s>> ELSE <<>>
  IN CASE fn = "mb_size" -> v = IntVal(Len(q))
       [] fn \in {"substr", "mb_substr"} /\ Len(e) = 2 ->
            (fn = "mb_substr" /\ i = 0) \/ v = text(SubSeq(q, i + 1, Len(q)))
       [] fn \in {"substr", "mb_substr"} /\ Len(e) = 3 ->
            beyond \/ nothing \/ v = text(Part(q, i, n))
       [] fn \in {"substr", "mb_substr"} /\ Len(e) = 4 ->
            i > Len(q) \/ nothing \/ v = text(Spliced(q, i, n, <<e[4].s>>))
       [] fn \in {"truncate", "mb_truncate"} ->
            \/ fn = "mb_truncate" /\ (i = 0 \/ (i = Len(q) /\ addon # <<>>))
            \/ v = text(IF Len(q) <= i THEN q ELSE SubSeq(q, 1, i) \o addon)
       [] fn = "replace" -> v = Str(Substituted(s, e[2].s, e[3].s))

(* A number is shown, chosen or read as the reference says.                *)
NumberAsSpecified(fn, e, v) ==
  LET all == {GetFloat(x) : x \in Range(e)}
      digits == IntText(Abs(e[1].i))
      f == e[1].s
      star == \E j \in DOMAIN f : f[j] = StarSign
      width == IF star THEN e[2].i ELSE ValueOf(SelectSeq(f, Digit), 10)
  IN CASE fn = "max" -> v \in Range(e) /\ \A x \in all : ~RealLess(GetFloat(v), x)
       [] fn = "min" -> v \in Range(e) /\ \A x \in all : ~RealLess(x, GetFloat(v))
       [] fn = "avg" ->
            LET of == {GetFloat(e[i]) : i \in 2 .. Len(e)}
            IN \E x, y \in of : ~RealLess(v.r, x) /\ ~RealLess(y, v.r)
       [] fn = "num_format" ->
            v = Str((IF e[1].i < 0 THEN <<MinusSign>> ELSE <<>>) \o InThrees(digits, e[2].s[1]))
       [] fn = "cast" -> v = IntVal(StrToLL(e[2].s))
       [] fn = "sprintf" ->
            Last(f) = 100 =>
              /\ Shown(v.s) = Last(e).i
              /\ Len(v.s) = width \/ (Len(v.s) > width /\ Len(v.s) <= Len(IntText(Last(e).i)) + 1)
       [] fn = "russian_plural" -> v = e[1 + RussianForm(e[1].i)]

(* A container holds what the reference says.                              *)
ContainerAsSpecified(fn, e, v) ==
  LET keys == [i \in DOMAIN v.e |-> v.e[i].s]
  IN CASE fn = "in_set" -> v = FnInArray(<<FnList(InOrder(Tail(e))), e[1]>>)
       [] fn = "hash_keys" ->
            /\ Range(keys) = DOMAIN e[1].m
            /\ \A i, j \in DOMAIN keys : i < j => TextLess(keys[i], keys[j])
       [] fn \in {"FAST_MERGE", "DEEP_MERGE"} ->
            {e[1].k, e[2].k} = {"HASH"} => \A call \in Calls : call.fn = fn /\ call.args[1].k = "HASH" =>
              LET w == call.args[1]
                  right == MergeCDT(e[2], w, fn)
              IN v = Throws \/ right = Throws \/ MergeCDT(v, w, fn) = MergeCDT(e[1], right, fn)
       [] fn \in Sorts ->
            LET S == Range(e[1].e)
                by == {IF fn \in {"SortNumBy", "SortStrBy"} THEN GetCDTOf(x, e[2].s)
                       ELSE IF fn \in {"SortNumAt", "SortStrAt"} THEN GetCDTAt(x, e[2].i)
                       ELSE x : x \in S}
            IN Numeric(by) \/ Textual(by) => StrictWeakOrder(S, LAMBDA x, y : GoesBefore(fn, e, x, y))

(* Of plural forms, the one the rule names for the count, whatever else    *)
(* was loaded: of a language loaded once, from a file without damage.      *)
FormsAsSpecified ==
  \A i \in DOMAIN loaded :
    LET key == loaded[i][1]
        file == loaded[i][2]
    IN (\A j \in DOMAIN loaded : loaded[j][1] = key => j = i) /\ (\A j \in DOMAIN file : ~file[j].damaged)
         => \A n \in 0 .. 25, j \in 2 .. Len(file) :
              LET form == Meaning(file[1].rule, n)
              IN /\ CalculatePluralForm(catalogs[key], n) = form
                 /\ FindMessage(catalogs, key, file[j].id) = file[j].forms[1]
                 /\ FindPluralMessage(catalogs, key, file[j].id, "many", n) =
                      IF form < Len(file[j].forms) THEN file[j].forms[form + 1] ELSE "throws"

TextCalls == {"mb_size", "substr", "mb_substr", "truncate", "mb_truncate", "replace"}
NumberCalls == {"max", "min", "avg", "num_format", "cast", "sprintf", "russian_plural"}
ContainerCalls == {"in_set", "hash_keys", "FAST_MERGE", "DEEP_MERGE"} \cup Sorts

(* A call of these functions answers what the plain definition of its      *)
(* function says: cut by bytes or by characters, replaced, grouped,        *)
(* padded, chosen, merged in any order, sorted by a strict weak order; and *)
(* gettext finds the form of the message that the rule of its language     *)
(* names for the count.  Nothing is said of list_element (the manual has   *)
(* its arguments in another order), of sorting numbers among texts, or of  *)
(* a rule that compares with what is computed on the right (1 == n % 10).  *)
AnswersAsSpecified ==
  LET fn == answer.fn
      e == answer.args
      v == answer.is
  IN /\ fn \in TextCalls => TextAsSpecified(fn, e, v)
     /\ fn \in NumberCalls => NumberAsSpecified(fn, e, v)
     /\ fn \in ContainerCalls => ContainerAsSpecified(fn, e, v)
     /\ FormsAsSpecified
=============================================================================
