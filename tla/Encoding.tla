------------------------------ MODULE Encoding ------------------------------
(***************************************************************************)
(* Escaping and encoding of texts (src/src/CTPP2Util.cpp).                 *)
(*                                                                         *)
(* The escapes for URLs and markup collect their output in a buffer of     *)
(* CTPP_ESCAPE_BUFFER_LEN bytes (and one to spare) that is emptied when it *)
(* is full, and before a replacement when fewer bytes are free than a      *)
(* number written beside each replacement.                                 *)
(***************************************************************************)
EXTENDS Text
LOCAL INSTANCE SequencesExt

CONSTANT EscapeBufferLen  \* CTPP_ESCAPE_BUFFER_LEN
ASSUME EscapeBufferAssumption == EscapeBufferLen \in Nat /\ EscapeBufferLen >= 6

Byte == 0 .. 255

(* What a byte is replaced by, and the room that is asked for first; 0 for *)
(* a byte that is copied without asking.                                   *)
Copy(c) == [text |-> <<c>>, room |-> 0]
Entity(name, room) == [text |-> name, room |-> room]
Quot6 == <<38, 113, 117, 111, 116, 59>>
Apos6 == <<38, 97, 112, 111, 115, 59>>
Num39 == <<38, 35, 51, 57, 59>>
Lt4   == <<38, 108, 116, 59>>
Gt4   == <<38, 103, 116, 59>>
Amp5  == <<38, 97, 109, 112, 59>>
UpperHex(n) == IF n < 10 THEN Zero + n ELSE 55 + n

InURL(c) == Letter(c) \/ Digit(c) \/ c \in {Slash, Point, MinusSign, Underscore}
URLTable == [c \in Byte |->
  IF InURL(c) THEN Copy(c)
  ELSE Entity(<<Percent, UpperHex(c \div 16), UpperHex(c % 16)>>, 3)]
URITable == [c \in Byte |->
  IF InURL(c) THEN Copy(c)
  ELSE Entity(<<Percent, UpperHex(c \div 16), UpperHex(c % 16)>>, 3)]
HTMLTable == [c \in Byte |->
  CASE c = Quote  -> Entity(Quot6, 6)
    [] c = Apos   -> Entity(Num39, 5)
    [] c = LtSign -> Entity(Lt4, 4)
    [] c = GtSign -> Entity(Gt4, 4)
    [] c = Amp    -> Entity(Amp5, 5)
    [] OTHER      -> Copy(c)]
XMLTable == [c \in Byte |->
  CASE c = Quote  -> Entity(Quot6, 6)
    [] c = Apos   -> Entity(Apos6, 6)
    [] c = LtSign -> Entity(Lt4, 4)
    [] c = GtSign -> Entity(Gt4, 4)
    [] c = Amp    -> Entity(Amp5, 5)
    [] OTHER      -> Copy(c)]
(* A control character is written beyond the end of what is in the buffer, *)
(* which does not grow: it is dropped.                                     *)
WMLTable == [c \in Byte |->
  CASE c < Space  -> Entity(<<>>, 6)
    [] c = Quote  -> Entity(Quot6, 6)
    [] c = Apos   -> Entity(Apos6, 6)
    [] c = LtSign -> Entity(Lt4, 4)
    [] c = GtSign -> Entity(Gt4, 4)
    [] c = Amp    -> Entity(Amp5, 5)
    [] c = 36     -> Entity(<<36, 36>>, 4)
    [] OTHER      -> Copy(c)]

(* One round of the loop: st holds what was given out, the buffer and the  *)
(* highest it has been.                                                    *)
Emptied(st) == [st EXCEPT !.out = @ \o st.buf, !.buf = <<>>]
(* Mutant: the room for a replacement is not asked for. *)
EmittedWithoutRoom(st, e) ==
  LET buf == st.buf \o e.text
      st2 == [st EXCEPT !.buf = buf, !.top = IF Len(buf) > @ THEN Len(buf) ELSE @]
  IN IF Len(buf) = EscapeBufferLen THEN Emptied(st2) ELSE st2
Emitted(st, e) ==
  LET st1 == IF e.room > 0 /\ Len(st.buf) >= EscapeBufferLen - e.room THEN Emptied(st) ELSE st
      buf == st1.buf \o e.text
      st2 == [st1 EXCEPT !.buf = buf, !.top = IF Len(buf) > @ THEN Len(buf) ELSE @]
  IN IF Len(buf) = EscapeBufferLen THEN Emptied(st2) ELSE st2
Buffered(table, s) ==
  Emptied(FoldLeft(LAMBDA st, c : Emitted(st, table[c]),
                   [out |-> <<>>, buf |-> <<>>, top |-> 0], s))

URLEscape(s)  == Buffered(URLTable, s)
URIEscape(s)  == Buffered(URITable, s)
HTMLEscape(s) == Buffered(HTMLTable, s)
XMLEscape(s)  == Buffered(XMLTable, s)
WMLEscape(s)  == Buffered(WMLTable, s)

-----------------------------------------------------------------------------
(* UTF-8. *)
Continues(c) == c \div 64 = 2

(* Length of the character at i; -3: the text ends in it, -1: a byte that  *)
(* does not continue it, -2: a byte that starts none.                      *)
utf_charlen(s, i) ==
  LET lead == CharAt(s, i)
      len == CASE lead < 128 -> 1
               [] lead \in 192 .. 223 -> 2
               [] lead \in 224 .. 239 -> 3
               [] lead \in 240 .. 247 -> 4
               [] OTHER -> 0
      bad == {j \in i + 1 .. i + len - 1 : j > Len(s) \/ ~Continues(s[j])}
      first == CHOOSE j \in bad : \A h \in bad : j <= h
  IN IF i > Len(s) THEN -3
     ELSE IF len = 0 THEN -2
     ELSE IF bad = {} THEN len
     ELSE IF first > Len(s) THEN -3 ELSE -1

(* NUL is encoded in two bytes, so that it ends no C string.               *)
UnicodeToUTF8(u) ==
  CASE u = 0 -> <<192, 128>>
    [] u \in 1 .. 127 -> <<u>>
    [] u \in 128 .. 2047 -> <<192 + (u \div 64), 128 + (u % 64)>>
    [] u \in 2048 .. 65535 ->
         <<224 + (u \div 4096), 128 + ((u \div 64) % 64), 128 + (u % 64)>>
    [] OTHER -> <<240 + (u \div 262144), 128 + ((u \div 4096) % 64),
                  128 + ((u \div 64) % 64), 128 + (u % 64)>>

-----------------------------------------------------------------------------
(* Base64.  Decoding is of what Encode makes: whole groups of four.        *)
PadSign == 61
Base64Char(n) ==
  CASE n < 26 -> 65 + n
    [] n \in 26 .. 51 -> 71 + n
    [] n \in 52 .. 61 -> n - 4
    [] n = 62 -> PlusSign
    [] n = 63 -> Slash
Base64Rev(c) ==
  CASE Upper(c) -> c - 65
    [] Lower(c) -> c - 71
    [] Digit(c) -> c + 4
    [] c = PlusSign -> 62
    [] c = Slash -> 63
    [] OTHER -> 64

Base64Group(a, b, c, n) ==
  LET sextets == <<a \div 4, (a % 4) * 16 + (b \div 16), (b % 16) * 4 + (c \div 64), c % 64>>
  IN [i \in 1 .. 4 |-> IF i <= n + 1 THEN Base64Char(sextets[i]) ELSE PadSign]
Base64Encode(s) ==
  LET full == Len(s) \div 3
      rest == Len(s) % 3
      whole == [g \in 1 .. full |-> Base64Group(s[3 * g - 2], s[3 * g - 1], s[3 * g], 3)]
  IN FlattenSeq(whole) \o
       (IF rest = 0 THEN <<>>
        ELSE Base64Group(s[3 * full + 1], CharAt(s, 3 * full + 2), 0, rest))

Base64Decode(s) ==
  LET groups == Len(s) \div 4
      r(g, i) == Base64Rev(s[4 * (g - 1) + i])
      byte(g, i) ==
        CASE i = 1 -> (r(g, 1) * 4 + (r(g, 2) \div 16)) % 256
          [] i = 2 -> (r(g, 2) * 16 + (r(g, 3) \div 4)) % 256
          [] i = 3 -> (r(g, 3) * 64 + r(g, 4)) % 256
      kept(g, i) == g < groups \/ i = 1 \/ s[4 * (g - 1) + i + 1] # PadSign
  IN FlattenSeq([g \in 1 .. groups |->
       FlattenSeq([i \in 1 .. 3 |-> IF kept(g, i) THEN <<byte(g, i)>> ELSE <<>>])])
=============================================================================
