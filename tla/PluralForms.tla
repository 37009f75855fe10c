---------------------------- MODULE PluralForms -----------------------------
(***************************************************************************)
(* CTPP2GetText (src/src/CTPP2GetText.cpp): catalogues of translations and *)
(* the rule that chooses a plural form.                                    *)
(*                                                                         *)
(* A rule is compiled to instructions and to a separate sequence of the    *)
(* values they consume, in which a jump finds how many values and how many *)
(* instructions it skips.  An operator is emitted before its right operand,*)
(* and each level of the grammar takes at most one operator.               *)
(*                                                                         *)
(* A rule is a sequence of tokens; one that is not an expression makes the *)
(* code recurse without end and is left out, as are a catalogue without a  *)
(* rule (it takes the top of an empty stack) and a remainder by zero.      *)
(***************************************************************************)
EXTENDS Integers, Sequences, FiniteSets
LOCAL INSTANCE SequencesExt

Token(o) == [tok |-> o, n |-> 0]
NumberToken(k) == [tok |-> "number", n |-> k]

-----------------------------------------------------------------------------
(* Compilation.  st: where the parser is, v_pl_stack, v_pl_instructions.   *)
TokenAt(r, st) == IF st.pos \in DOMAIN r THEN r[st.pos].tok ELSE "end"
Skipped(st, k) == [st EXCEPT !.pos = @ + k]
Emit(st, op)   == [Skipped(st, 1) EXCEPT !.ins = Append(@, op)]
Push(st, v)    == [Skipped(st, 1) EXCEPT !.data = Append(@, v)]
Value(k)       == [variable |-> FALSE, i |-> k]
Variable       == [variable |-> TRUE, i |-> 0]

(* A jump and the two values it will take, then what it may skip.  extra:  *)
(* the values of the jump that ends what is skipped.                       *)
Jump(st, op) == [Emit(st, op) EXCEPT !.data = @ \o <<Value(0), Value(0)>>]
(* Mutant: the values of the jump that follows are forgotten. *)
PatchedWithoutExtra(before, after, extra) ==
  LET k == Len(before.data)
  IN [after EXCEPT !.data[k - 1] = Value(Len(after.data) - k),
                   !.data[k] = Value(Len(after.ins) - Len(before.ins))]
Patched(before, after, extra) ==
  LET k == Len(before.data)
  IN [after EXCEPT !.data[k - 1] = Value(Len(after.data) - k + extra),
                   !.data[k] = Value(Len(after.ins) - Len(before.ins))]

RECURSIVE IsTernaryExpr(_, _), IsOrExpr(_, _), IsAndExpr(_, _)

IsTerm(r, st) ==
  CASE TokenAt(r, st) = "number" -> Push(st, Value(r[st.pos].n))
    [] TokenAt(r, st) = "n" -> Push(st, Variable)
    [] TokenAt(r, st) = "(" -> Skipped(IsTernaryExpr(r, Skipped(st, 1)), 1)

(* Each level: its left operand, then what may follow it.                  *)
ModRest(r, left) == IF TokenAt(r, left) = "%" THEN IsTerm(r, Emit(left, "MOD")) ELSE left
IsModExpr(r, st) == ModRest(r, IsTerm(r, st))

LtOrGtRest(r, left) ==
  IF TokenAt(r, left) \in {">=", "<=", "<", ">"}
  THEN IsModExpr(r, Emit(left, TokenAt(r, left))) ELSE left
IsLtOrGtExpr(r, st) == LtOrGtRest(r, IsModExpr(r, st))

EqRest(r, left) ==
  IF TokenAt(r, left) \in {"==", "!="}
  THEN IsLtOrGtExpr(r, Emit(left, TokenAt(r, left))) ELSE left
IsEqExpr(r, st) == EqRest(r, IsLtOrGtExpr(r, st))

AndJump(r, jump) == Patched(jump, IsAndExpr(r, jump), 0)
AndRest(r, left) == IF TokenAt(r, left) = "&&" THEN AndJump(r, Jump(left, "JLAND")) ELSE left
IsAndExpr(r, st) == AndRest(r, IsEqExpr(r, st))

OrJump(r, jump) == Patched(jump, IsOrExpr(r, jump), 0)
OrRest(r, left) == IF TokenAt(r, left) = "||" THEN OrJump(r, Jump(left, "JLOR")) ELSE left
IsOrExpr(r, st) == OrRest(r, IsAndExpr(r, st))

ElseJump(r, jmp) == Patched(jmp, IsTernaryExpr(r, jmp), 0)
ThenJump(r, jn) == ElseJump(r, Jump(Patched(jn, IsTernaryExpr(r, jn), 2), "JMP"))
TernaryRest(r, cond) == IF TokenAt(r, cond) = "?" THEN ThenJump(r, Jump(cond, "JN")) ELSE cond
IsTernaryExpr(r, st) == TernaryRest(r, IsOrExpr(r, st))

(* The rule is added to what the catalogue has.                            *)
Compiled(cat, st) == [cat EXCEPT !.data = st.data, !.ins = Append(st.ins, "NONE")]
GeneratePluralRule(cat, r) ==
  Compiled(cat, IsTernaryExpr(r, [pos |-> 1, data |-> cat.data, ins |-> cat.ins]))

-----------------------------------------------------------------------------
(* Evaluation: the stack begins as the values, the first on top.           *)
Truth(b) == IF b THEN 1 ELSE 0
Applied(op, left, right) ==
  CASE op = "==" -> Truth(left = right)
    [] op = "!=" -> Truth(left # right)
    [] op = "<=" -> Truth(left <= right)
    [] op = ">=" -> Truth(left >= right)
    [] op = "<" -> Truth(left < right)
    [] op = ">" -> Truth(left > right)
    [] op = "MOD" -> left % right

RECURSIVE Evaluated(_, _, _)
Evaluated(ins, i, s) ==
  LET top == s[1]
      rest == SubSeq(s, 4, Len(s))
      left == SubSeq(s, 4 + s[2], Len(s))
      to(skip) == i + skip + 1
  IN IF i > Len(ins) THEN top
     ELSE CASE ins[i] = "NONE" -> Evaluated(ins, i + 1, s)
            [] ins[i] = "JLAND" ->
                 IF top = 0 THEN Evaluated(ins, to(s[3]), <<top>> \o left)
                 ELSE Evaluated(ins, i + 1, rest)
            [] ins[i] = "JLOR" ->
                 IF top # 0 THEN Evaluated(ins, to(s[3]), <<top>> \o left)
                 ELSE Evaluated(ins, i + 1, rest)
            [] ins[i] = "JN" ->
                 IF top = 0 THEN Evaluated(ins, to(s[3] + 1), left)
                 ELSE Evaluated(ins, i + 1, rest)
            [] ins[i] = "JMP" -> Evaluated(ins, to(s[3]), <<top>> \o left)
            [] OTHER -> Evaluated(ins, i + 1,
                                  <<Applied(ins[i], top, s[2])>> \o SubSeq(s, 3, Len(s)))
CalculatePluralForm(cat, count) ==
  Evaluated(cat.ins, 1,
            [i \in DOMAIN cat.data |-> IF cat.data[i].variable THEN count ELSE cat.data[i].i])

-----------------------------------------------------------------------------
(* Catalogues.  A file is the sequence of its messages, in the order of    *)
(* their ids: first the empty one, whose translation holds the rule.       *)
NoCatalog == [messages |-> [m \in {} |-> <<>>], data |-> <<>>, ins |-> <<>>]
WithMessage(cat, m) ==
  [cat EXCEPT !.messages = [id \in DOMAIN @ \cup {m.id} |-> IF id = m.id THEN m.forms ELSE @[id]]]
ExtractMessage(cat, m) ==
  WithMessage(IF m.id = "" THEN GeneratePluralRule(cat, m.rule) ELSE cat, m)

(* A damaged message ends the loading with an exception; what was loaded   *)
(* before it stays.                                                        *)
Loadable(file) ==
  LET bad == {i \in DOMAIN file : file[i].damaged}
  IN IF bad = {} THEN file ELSE SubSeq(file, 1, (CHOOSE i \in bad : \A j \in bad : i <= j) - 1)
AddTranslation(catalogs, key, file) ==
  LET old == IF key \in DOMAIN catalogs THEN catalogs[key] ELSE NoCatalog
      new == FoldLeft(ExtractMessage, old, Loadable(file))
  IN [k \in DOMAIN catalogs \cup {key} |-> IF k = key THEN new ELSE catalogs[k]]

Has(catalogs, key, id) ==
  key \in DOMAIN catalogs /\ id \in DOMAIN catalogs[key].messages
FindMessage(catalogs, key, id) ==
  IF Has(catalogs, key, id) THEN catalogs[key].messages[id][1] ELSE id
FindPluralMessage(catalogs, key, id, plural, count) ==
  IF ~Has(catalogs, key, id) THEN IF count > 1 THEN plural ELSE id
  ELSE LET forms == catalogs[key].messages[id]
           n == CalculatePluralForm(catalogs[key], count)
       IN IF n < Len(forms) THEN forms[n + 1] ELSE "throws"
=============================================================================
