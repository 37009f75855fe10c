----------------------------- MODULE MCLibrary ------------------------------
(***************************************************************************)
(* The library for TLC: two variables, a table that is too small and one   *)
(* with two slots to spare, short texts of the bytes that matter to each   *)
(* handler.                                                                *)
(***************************************************************************)
EXTENDS Library
LOCAL INSTANCE SequencesExt

MCUserHandlers == {[owner |-> "user", name |-> "f", n |-> 1], [owner |-> "user", name |-> "F", n |-> 2],
                   [owner |-> "user", name |-> "g", n |-> 1]}
MCSpelled == [name \in {"F", "AVG"} |-> IF name = "F" THEN "f" ELSE "avg"]
MCCalledNames == {<<"f", "avg">>, <<"AVG">>}

(* 2, -3/2, "1", ".5", "1e1" *)
MCLiterals == {IntVal(2), RealVal(<<-3, 2>>), Str(<<49>>), Str(<<46, 53>>), Str(<<49, 101, 49>>)}
-----------------------------------------------------------------------------
(* Calls. *)
C(fn, args) == [fn |-> fn, args |-> args]
Upto(S, n) == UNION {[1 .. k -> S] : k \in 0 .. n}
a1 == <<97>>
b1 == <<98>>
e2 == <<195, 169>>
u3 == <<226, 128, 168>>
UsedInt == [k |-> "STRING_INT", s |-> <<55>>, vt |-> "INT", uc |-> Real(7)]
UsedReal == [k |-> "STRING_REAL", s |-> <<48, 46, 53>>, vt |-> "REAL", uc |-> <<1, 2>>]

(* Markup, a blank that % hides, a control character, a byte of UTF-8.     *)
Escapes == {C(fn, <<Str(s)>>) : fn \in {"htmlescape", "xmlescape", "wmlescape", "urlescape", "uriescape"},
                                s \in Upto({97, LtSign, Apos, 7, 169}, 3)}
Bases == {C("base64_encode", <<Str(s)>>) : s \in Upto({0, 255, 98}, 4)}

Atoms == {Undef, IntVal(-1), IntVal(10), RealVal(<<3, 2>>), RealVal(Real(2)), UsedInt, UsedReal,
          Str(<<>>), Str(a1 \o <<Quote, Backslash>>), Str(<<LtSign, NewLine>>), Str(e2 \o <<7>>),
          Str(u3 \o <<127>>), Str(<<Slash, Star>>)}
Hashes(S) == {HashVal(m) : m \in UNION {[K -> S] : K \in SUBSET {a1, <<Quote>>}}}
Pairable == {Undef, RealVal(<<3, 2>>), UsedInt, Str(e2 \o <<7>>), Str(<<Slash, Star>>)}
Flat == {Arr(e) : e \in Upto(Atoms, 1) \cup Upto(Pairable, 2)} \cup Hashes(Pairable)
Nested == {Arr(<<x, y>>) : x \in {Arr(<<>>), HashVal([t \in {} |-> Undef]), Arr(<<Undef>>)},
                           y \in Hashes({IntVal(0), Arr(<<Str(b1)>>)})}
Values == {C("json", <<v>>) : v \in Atoms \cup Flat \cup Nested}

Whole(S, n) == {FlattenSeq(w) : w \in Upto(S, n)}
Lines == Whole({a1, e2, u3}, 2) \cup Whole({a1, e2}, 3)
Cuts ==
  {C(fn, <<Str(s), IntVal(i)>>) : fn \in {"substr", "truncate", "mb_substr", "mb_truncate"}, s \in Lines, i \in 0 .. 4}
    \cup {C(fn, <<Str(s), IntVal(i), IntVal(n)>>) :
            fn \in {"substr", "mb_substr"}, s \in Lines, i \in 0 .. 4, n \in 0 .. 3}
    \cup {C(fn, <<Str(s), IntVal(i), IntVal(n), Str(b1)>>) :
            fn \in {"substr", "mb_substr"}, s \in Lines, i \in 0 .. 4, n \in 0 .. 3}
    \cup {C(fn, <<Str(s), IntVal(i), Str(b1)>>) : fn \in {"truncate", "mb_truncate"}, s \in Lines, i \in 0 .. 4}
    \cup {C("mb_size", <<Str(s)>>) : s \in Lines}
Replacements == {C("replace", <<Str(s), Str(t), Str(u)>>) :
                   s \in Upto({97, 98}, 4) \ Upto({97, 98}, 2), t \in Upto({97, 98}, 2) \ {<<>>}, u \in Upto({97, 98}, 2)}

Some == {IntVal(-1), IntVal(2), RealVal(<<3, 2>>), UsedInt}
Numerals ==
  {C(fn, e) : fn \in {"min", "max"}, e \in Upto(Some \cup {Undef, Str(a1)}, 3) \ {<<>>}}
    \cup {C("avg", <<Str(f)>> \o e) : f \in {a1, <<72>>},
            e \in Upto({IntVal(1), IntVal(4), RealVal(<<3, 2>>)}, 3) \ {<<>>}}
    \cup {C("num_format", <<IntVal(n), Str(<<Comma>>)>>) : n \in {0, 7, -12, 123, -1234, 12345, 1234567, -999999}}
    \cup {C("cast", <<Str(<<f>>), Str(IntText(n))>>) : f \in {100, 105}, n \in {0, 7, -12, 345}}
    \cup {C("russian_plural", <<IntVal(n), Str(a1), Str(b1), Str(e2)>>) : n \in 0 .. 25 \cup 100 .. 125}
Formats ==
  {C("sprintf", <<Str(<<Percent>> \o fl \o <<w, 100>>), IntVal(n)>>) :
      fl \in {<<>>, <<MinusSign>>, <<PlusSign>>, <<Space>>, <<MinusSign, PlusSign>>},
      w \in {49, 51, 53}, n \in {0, 5, -5, 42, -123}}
    \cup {C("sprintf", <<Str(<<Percent>> \o fl \o <<StarSign, 100>>), IntVal(w), IntVal(n)>>) :
            fl \in {<<>>, <<Zero>>, <<Zero, PlusSign>>}, w \in 1 .. 5, n \in {0, 5, -5, 42}}

Lists == {C("in_set", e) : e \in Upto(Some \cup {Str(<<50>>), Undef}, 3) \ Upto(Some \cup {Str(<<50>>), Undef}, 1)}
           \cup {C("hash_keys", <<HashVal([t \in K |-> Undef])>>) : K \in SUBSET {a1, b1, e2, <<97, 98>>}}
Parts == {[t \in {} |-> Undef], [t \in {a1} |-> Arr(<<IntVal(1)>>)], [t \in {a1} |-> Undef],
          [t \in {a1, b1} |-> IF t = a1 THEN Arr(<<>>) ELSE HashVal([r \in {} |-> Undef])], [t \in {b1} |-> HashVal([r \in {a1} |-> Arr(<<Undef>>)])],
          [t \in {b1} |-> HashVal([r \in {b1} |-> IntVal(2)])], [t \in {a1} |-> IntVal(3)]}
Merges == {C(fn, <<HashVal(d), HashVal(s)>>) : fn \in {"FAST_MERGE", "DEEP_MERGE"}, d \in Parts, s \in Parts}
Orders ==
  {C(fn, <<Arr(e)>>) : fn \in {"SortNum", "SortNumDesc", "SortStr", "SortStrDesc"},
      e \in [1 .. 3 -> {IntVal(2), IntVal(10), RealVal(<<3, 2>>)}]
              \cup [1 .. 3 -> {Str(<<49, 48>>), Str(<<50>>), Str(<<>>)}]}
    \cup {C(fn, <<Arr([i \in 1 .. 3 |-> HashVal([t \in {a1} |-> e[i]])]), Str(a1)>>) :
            fn \in {"SortNumBy", "SortStrBy"}, e \in [1 .. 3 -> {IntVal(2), IntVal(10), RealVal(<<3, 2>>)}]}
    \cup {C(fn, <<Arr([i \in 1 .. 3 |-> Arr(<<e[i]>>)]), IntVal(0)>>) :
            fn \in {"SortNumAt", "SortStrAt"}, e \in [1 .. 3 -> {Str(<<49, 48>>), Str(<<50>>), Str(<<>>)}]}

(* What no property is about: other handlers, and answers that differ from *)
(* the documentation.                                                      *)
Others ==
  {C("list_element", <<IntVal(i), IntVal(5), Str(a1), Undef>>) : i \in 0 .. 4} \cup
  {C("concat", <<Str(a1), IntVal(1)>>), C("default", <<Undef, Str(a1)>>), C("defined", <<Undef>>),
   C("error", <<Str(a1)>>), C("form_param", <<Str(a1), Str(<<Quote>>)>>),
   C("href_param", <<Str(a1), Str(<<Amp>>)>>), C("size", <<Arr(<<Undef>>)>>), C("list", <<Undef, Undef>>),
   C("jsonescape", <<Str(<<Apos>>), Undef>>), C("base64_decode", <<Str(<<89, 81, 61, 61>>)>>),
   C("attr_in_array", <<IntVal(1), Arr(<<HashVal([t \in {a1} |-> IntVal(1)])>>), Str(a1)>>),
   C("sprintf", <<Str(<<Percent, Percent, 97>>)>>),
   C("sprintf", <<Str(<<Percent, 120, Percent, 53, 115, Percent, 99>>), IntVal(255), Str(a1), IntVal(65)>>),
   C("JoinArrayElements", <<Arr(<<Undef, IntVal(1)>>), Str(a1)>>),
   C("JoinHashKeys", <<HashVal([t \in {a1, b1} |-> IntVal(1)]), Str(<<Comma>>)>>),
   C("JoinHashValues", <<HashVal([t \in {a1, b1} |-> IntVal(1)]), Str(<<Comma>>)>>),
   C("GetHashValues", <<HashVal([t \in {a1, b1} |-> IntVal(1)])>>),
   C("FAST_MERGE", <<HashVal([t \in {a1} |-> Undef]), Arr(<<Str(b1), Undef, Str(a1)>>)>>),
   C("FAST_MERGE", <<Arr(<<Undef>>), HashVal([t \in {a1} |-> Undef])>>)}

MCCalls == Escapes \cup Bases \cup Values \cup Cuts \cup Replacements \cup Numerals \cup Formats
             \cup Lists \cup Merges \cup Orders \cup Others

-----------------------------------------------------------------------------
(* Catalogues: rules of several languages and of every operator.           *)
N == [op |-> "n"]
K(k) == [op |-> "number", k |-> k]
Op(o, a, b) == [op |-> o, a |-> a, b |-> b]
If(a, b, c) == [op |-> "?", a |-> a, b |-> b, c |-> c]
In(a) == [op |-> "()", a |-> a]
Mod(k) == Op("%", N, K(k))
English == Op("!=", N, K(1))
French == Op(">", N, K(1))
Slavic ==
  If(Op("&&", Op("==", Mod(10), K(1)), Op("!=", Mod(100), K(11))), K(0),
     If(Op("&&", Op(">=", Mod(10), K(2)),
            Op("&&", Op("<=", Mod(10), K(4)),
               In(Op("||", Op("<", Mod(100), K(10)), Op(">=", Mod(100), K(20)))))),
        K(1), K(2)))
Latvian ==
  If(Op("&&", Op("==", Mod(10), K(1)), Op("!=", Mod(100), K(11))), K(0), If(Op("!=", N, K(0)), K(1), K(2)))
Irish == If(Op("==", N, K(1)), K(0), If(Op("==", N, K(2)), K(1), K(2)))
Nesting == If(In(If(Op("<", N, K(3)), K(0), N)), If(Op("||", Op("==", N, K(5)), Op("==", N, K(7))), K(1), K(0)), K(2))
Message(id, forms) == [id |-> id, forms |-> forms, rule |-> N, damaged |-> FALSE]
File(rule) == << [id |-> "", forms |-> <<"">>, rule |-> rule, damaged |-> FALSE],
                 Message("day", <<"d0", "d1", "d2">>), Message("one", <<"one">>) >>
MCFiles == {File(r) : r \in {K(0), English, French, Slavic, Latvian, Irish, Nesting}}
             \cup {[File(English) EXCEPT ![2].damaged = TRUE]}
MCCatalogKeys == {<<"ru", "d">>, <<"en", "d">>}
=============================================================================
