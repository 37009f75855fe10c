-------------------------------- MODULE Json --------------------------------
(***************************************************************************)
(* Values written as JSON (DumpCDT2JSON, src/src/CTPP2Util.cpp) and read   *)
(* back (CTPP2JSONParser, src/src/CTPP2JSONParser.cpp).                    *)
(*                                                                         *)
(* The parser's methods take a position and answer the position after what *)
(* they found, NULL when they find something else, or throw.  Here they    *)
(* answer a record of that position and of what was found.  A text is in   *)
(* UTF-8, as the dumper assumes.                                           *)
(***************************************************************************)
EXTENDS Scalars, Encoding
LOCAL INSTANCE SequencesExt

Tab == 9
NewLine == 10
Return == 13
OpenBrace == 123
CloseBrace == 125
OpenBracket == 91
CloseBracket == 93
Star == 42
NullText == <<110, 117, 108, 108>>
TrueText == <<116, 114, 117, 101>>
FalseText == <<102, 97, 108, 115, 101>>

-----------------------------------------------------------------------------
(* Writing. *)

Hex(u, n) == LET d == Digits(u, 16) IN Repeat(Zero, n - Len(d)) \o d
Escape(c) == <<Backslash, c>>

(* One character of a text: escaped by name, as a code, or copied.         *)
DumpedChar(ch, ecma, htmlsafe) ==
  LET c == ch[1]
  IN CASE c \in {Quote, Backslash, Slash} -> Escape(c)
       [] c = 8  -> Escape(98)
       [] c = 12 -> Escape(102)
       [] c = NewLine -> Escape(110)
       [] c = Return -> Escape(114)
       [] c = Tab -> Escape(116)
       [] ecma /\ c = Apos -> Escape(Apos)
       [] ecma /\ c = 11 -> Escape(118)
       [] ecma /\ c = 0 -> Escape(Zero)
       [] OTHER ->
            IF c < Space \/ (htmlsafe /\ c \in {LtSign, GtSign})
            THEN Escape(Letter_u) \o Hex(c, 4)
            ELSE IF ch \in {<<226, 128, 168>>, <<226, 128, 169>>}
            THEN Escape(Letter_u) \o Hex(8064 + ch[3], 4)
            ELSE ch
RECURSIVE DumpJSONString(_, _, _)
DumpJSONString(s, ecma, htmlsafe) ==
  IF s = <<>> THEN <<>>
  ELSE LET n == utf_charlen(s, 1)
       IN DumpedChar(SubSeq(s, 1, n), ecma, htmlsafe)
            \o DumpJSONString(SubSeq(s, n + 1, Len(s)), ecma, htmlsafe)

KeysInOrder(m) == SetToSortSeq(DOMAIN m, TextLess)
Quoted(s) == <<Quote>> \o DumpJSONString(s, FALSE, TRUE) \o <<Quote>>
Separated(parts, sep) ==
  FlattenSeq([i \in DOMAIN parts |-> (IF i = 1 THEN <<>> ELSE sep) \o parts[i]])

(* A text that was used as a number is written as its text without quotes. *)
RECURSIVE CDT2JSON(_)
CDT2JSON(v) ==
  CASE v.k = "UNDEF" -> NullText
    [] v.k = "STRING" -> Quoted(v.s)
    [] v.k = "ARRAY" ->
         <<OpenBracket>> \o Separated([i \in DOMAIN v.e |-> CDT2JSON(v.e[i])], <<Comma>>)
           \o <<CloseBracket>>
    [] v.k = "HASH" ->
         LET ks == KeysInOrder(v.m)
             members == [i \in DOMAIN ks |-> Quoted(ks[i]) \o <<Colon>> \o CDT2JSON(v.m[ks[i]])]
         IN <<OpenBrace>> \o Separated(members, <<Comma>>) \o <<CloseBrace>>
    [] OTHER -> GetString(v)

-----------------------------------------------------------------------------
(* Reading. *)

NotFound == [pos |-> 0]
Failed   == [pos |-> -1]
Found(pos, v) == [pos |-> pos, v |-> v]
IsFound(r) == r.pos > 0
End(s) == Len(s) + 1

White(c) == c \in {Space, Tab, Return, NewLine}

(* The end of a comment: the byte after a star that ends nothing is not    *)
(* looked at, be it the star before the slash.                             *)
RECURSIVE CommentEnd(_, _)
CommentEnd(s, i) ==
  CASE i >= Len(s) -> End(s)
    [] CharAt(s, i) = Star -> IF s[i + 1] = Slash THEN i + 2 ELSE CommentEnd(s, i + 2)
    [] OTHER -> CommentEnd(s, i + 1)

(* The position after blanks and comments. *)
RECURSIVE IsWhiteSpace(_, _)
IsWhiteSpace(s, i) ==
  LET j == Skip(White, s, i)
  IN CASE CharAt(s, j) = Slash /\ CharAt(s, j + 1) = Star ->
            IsWhiteSpace(s, CommentEnd(s, j + 2))
       [] CharAt(s, j) = Slash /\ CharAt(s, j + 1) = Slash ->
            IsWhiteSpace(s, Skip(LAMBDA c : c # NewLine, s, j + 2))
       [] OTHER -> j

HexDigit(c) == Digit(c) \/ c \in 97 .. 102
Unescaped(c) ==
  CASE c = 97 -> 7
    [] c = 98 -> 8
    [] c = 116 -> Tab
    [] c = Letter_n -> NewLine
    [] c = 118 -> 11
    [] c = 102 -> 12
    [] c = 114 -> Return
    [] OTHER -> c

RECURSIVE StringFrom(_, _, _, _)
StringFrom(s, i, quote, text) ==
  IF i > Len(s) THEN Failed
  ELSE IF s[i] = quote THEN Found(i + 1, text)
  ELSE IF s[i] # Backslash THEN StringFrom(s, i + 1, quote, text \o <<s[i]>>)
  ELSE IF i = Len(s) THEN Failed
  ELSE IF s[i + 1] # Letter_u
       THEN StringFrom(s, i + 2, quote, text \o <<Unescaped(s[i + 1])>>)
  ELSE IF \E j \in i + 2 .. i + 5 : ~HexDigit(CharAt(s, j)) THEN Failed
  ELSE StringFrom(s, i + 6, quote,
                  text \o UnicodeToUTF8(ValueOf(SubSeq(s, i + 2, i + 5), 16)))
IsString(s, i) ==
  IF CharAt(s, i) \in {Quote, Apos} THEN StringFrom(s, i + 1, s[i], <<>>) ELSE NotFound

(* A word; not one that ends with the text. *)
IsStringCompatOldVersion(s, i) ==
  LET j == Skip(Letter, s, i)
  IN IF i > Len(s) \/ j > Len(s) THEN NotFound ELSE Found(j, SubSeq(s, i, j - 1))

(* sscanf %lli: a leading 0 makes it octal. *)
ScannedInt(s) ==
  LET a == AfterSign(s, 1)
      octal == Skip(LAMBDA c : c \in 48 .. 55, s, a)
      n == IF CharAt(s, a) = Zero THEN ValueOf(SubSeq(s, a, octal - 1), 8)
           ELSE ValueOf(SubSeq(s, a, Len(s)), 10)
  IN IF CharAt(s, 1) = MinusSign THEN -n ELSE n

(* An exponent only follows a point. *)
IsNum(s, i) ==
  LET a == AfterDigits(s, i + 1)
      b == AfterDigits(s, a + 1)
      c == AfterSign(s, b + 1)
      d == AfterDigits(s, c)
  IN CASE ~(Digit(CharAt(s, i)) \/ CharAt(s, i) \in {MinusSign, PlusSign}) -> NotFound
       [] CharAt(s, a) # Point -> Found(a, IntVal(ScannedInt(SubSeq(s, i, a - 1))))
       [] CharAt(s, a) = Point /\ CharAt(s, b) \notin {LetterE, Letter_e} ->
            Found(b, RealVal(StrToD(SubSeq(s, i, b - 1))))
       [] OTHER -> IF d = c THEN Failed ELSE Found(d, RealVal(StrToD(SubSeq(s, i, d - 1))))

Either(r, other) == IF r.pos # 0 THEN r ELSE other
NumberKey(s, i, num) == IF IsFound(num) THEN Found(num.pos, SubSeq(s, i, num.pos - 1)) ELSE num
IsKey(s, i) == Either(IsString(s, i), NumberKey(s, i, IsNum(s, i)))

Word(s, i) ==
  LET w == IsStringCompatOldVersion(s, i)
      t == IF IsFound(w) THEN [j \in DOMAIN w.v |-> ToLower(w.v[j])] ELSE <<>>
  IN CASE t = NullText -> Found(w.pos, Undef)
       [] t = FalseText -> Found(w.pos, IntVal(0))
       [] t = TrueText -> Found(w.pos, IntVal(1))
       [] OTHER -> NotFound

RECURSIVE IsValue(_, _), Members(_, _, _, _), Elements(_, _, _, _)

(* The members from i on, after '{' (first) or after ','.  Each step below *)
(* gets the position, blanks skipped, or the answer of the one before.     *)
NextMember(s, i, m) ==
  CASE CharAt(s, i) = CloseBrace -> Found(i + 1, HashVal(m))
    [] CharAt(s, i) = Comma -> Members(s, i + 1, m, FALSE)
    [] OTHER -> Failed
MemberValue(s, val, key, m) ==
  IF ~IsFound(val) THEN Failed
  ELSE NextMember(s, IsWhiteSpace(s, val.pos),
                  [t \in DOMAIN m \cup {key} |-> IF t = key THEN val.v ELSE m[t]])
MemberColon(s, i, key, m) ==
  IF CharAt(s, i) # Colon THEN Failed
  ELSE MemberValue(s, IsValue(s, IsWhiteSpace(s, i + 1)), key, m)
MemberKey(s, i, key, m, first) ==
  CASE key.pos = 0 ->
         IF first /\ CharAt(s, i) = CloseBrace THEN Found(i + 1, HashVal(m)) ELSE Failed
    [] key.pos < 0 -> Failed
    [] OTHER -> MemberColon(s, IsWhiteSpace(s, key.pos), key.v, m)
MemberAt(s, i, m, first) == MemberKey(s, i, IsKey(s, i), m, first)
Members(s, i, m, first) == MemberAt(s, IsWhiteSpace(s, i), m, first)
IsObject(s, i) ==
  IF CharAt(s, i) = OpenBrace THEN Members(s, i + 1, [t \in {} |-> Undef], TRUE) ELSE NotFound

NextElement(s, i, e) ==
  CASE CharAt(s, i) = CloseBracket -> Found(i + 1, Arr(e))
    [] CharAt(s, i) = Comma -> Elements(s, i + 1, e, FALSE)
    [] OTHER -> Failed
ElementValue(s, i, val, e, first) ==
  CASE val.pos = 0 ->
         IF first /\ CharAt(s, i) = CloseBracket THEN Found(i + 1, Arr(e)) ELSE Failed
    [] val.pos < 0 -> Failed
    [] OTHER -> NextElement(s, IsWhiteSpace(s, val.pos), Append(e, val.v))
ElementAt(s, i, e, first) == ElementValue(s, i, IsValue(s, i), e, first)
Elements(s, i, e, first) == ElementAt(s, IsWhiteSpace(s, i), e, first)
IsArray(s, i) ==
  IF CharAt(s, i) = OpenBracket THEN Elements(s, i + 1, <<>>, TRUE) ELSE NotFound

AsText(r) == IF IsFound(r) THEN Found(r.pos, Str(r.v)) ELSE r
IsValue(s, i) ==
  CASE i > Len(s) -> NotFound
    [] CharAt(s, i) = OpenBrace -> IsObject(s, i)
    [] CharAt(s, i) = OpenBracket -> IsArray(s, i)
    [] OTHER -> Either(IsNum(s, i), Either(AsText(IsString(s, i)), Word(s, i)))

Alone(s, val) ==
  IF ~IsFound(val) THEN Failed
  ELSE IF IsWhiteSpace(s, val.pos) = End(s) THEN val ELSE Failed
ParseAt(s, i) == IF i = End(s) THEN Failed ELSE Alone(s, IsValue(s, i))
Parse(s) == ParseAt(s, IsWhiteSpace(s, 1))
=============================================================================
