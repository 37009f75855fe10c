---------------------------- MODULE TextNumbers -----------------------------
(***************************************************************************)
(* CDT (src/src/CDT.cpp): texts that are used as numbers.                  *)
(*                                                                         *)
(* The first time a text is used as a number its cell remembers the number *)
(* (uc) and its kind (value_type), and the handle takes a kind of its own  *)
(* (STRING_INT, STRING_REAL).  Other handles of the cell do not know until *)
(* they ask.  An operation that changes the text gives the handle a cell   *)
(* of its own first (Unshare), which copies the number of a handle that    *)
(* has one, and not the kind the cell remembers.                           *)
(***************************************************************************)
EXTENDS Scalars

CONSTANTS
  Vars,      \* the variables of the program
  Literals,  \* the values it assigns
  MaxText,   \* bound: bytes of a text
  MaxNumber  \* bound: size of a number

ASSUME TextBounds == MaxText \in Nat /\ MaxNumber \in Nat

VARIABLES
  hand,    \* per variable: a number, Undef, or a text's kind and cell
  cell,    \* _CDT: text, value_type, uc
  altered  \* cells whose text was changed after their number was taken

scalarVars == <<hand, cell, altered>>

Cells == 1 .. Cardinality(Vars)
NoCell == [s |-> <<>>, vt |-> "NONE", uc |-> Real(0)]
NewCell(s) == [NoCell EXCEPT !.s = s]

Fits(v) ==
  CASE v.k = "INT" -> Abs(v.i) <= MaxNumber
    [] v.k = "REAL" -> Printable(v.r) /\ Abs(v.r[1]) <= MaxNumber * v.r[2]
    [] IsText(v) -> Len(v.s) <= MaxText
    [] OTHER -> v.k = "UNDEF"

ViewIn(H, C, v) ==
  LET h == H[v]
  IN IF IsText(h) THEN [k |-> h.k, s |-> C[h.p].s, vt |-> C[h.p].vt, uc |-> C[h.p].uc] ELSE h
View(v) == ViewIn(hand, cell, v)

Holders(H, c) == {v \in Vars : IsText(H[v]) /\ H[v].p = c}

(* What is left of cells and marks when nothing refers to a cell.          *)
Store(H, C, A) ==
  /\ hand' = H
  /\ cell' = [c \in Cells |-> IF Holders(H, c) = {} THEN NoCell ELSE C[c]]
  /\ altered' = {c \in A : Holders(H, c) # {}}

(* operator=: the old value is destroyed; a text gets a new cell.          *)
Replace(v, x) ==
  IF IsText(x)
  THEN \E c \in {CHOOSE d \in Cells : Holders(hand, d) \subseteq {v}} :
         Store([hand EXCEPT ![v] = [k |-> "STRING", p |-> c]],
               [cell EXCEPT ![c] = NewCell(x.s)], altered \ {c})
  ELSE Store([hand EXCEPT ![v] = x], cell, altered)

(* The handles and the cells after CastToNumber, which writes the number   *)
(* to the cell whoever else refers to it: of v, and of v and then of w.    *)
TookIn(H, C, v) ==
  LET x == Numbered(ViewIn(H, C, v))
      c == H[v].p
  IN IF ~IsText(x) THEN [hand |-> H, cell |-> C]
     ELSE [hand |-> [H EXCEPT ![v].k = x.k], cell |-> [C EXCEPT ![c].vt = x.vt, ![c].uc = x.uc]]
Took(v) == TookIn(hand, cell, v)
TookBoth(v, w) == TookIn(Took(v).hand, Took(v).cell, w)

(* Unshare of a text, then its new bytes.                                  *)
Copied(v) ==
  LET x == View(v)
  IN [NewCell(x.s) EXCEPT !.uc = IF x.k = "STRING" THEN @ ELSE x.uc]
Rewrite(v, s) ==
  LET c == hand[v].p
      shared == Holders(hand, c) # {v}
      d == IF shared THEN CHOOSE e \in Cells : Holders(hand, e) = {} ELSE c
      own == IF shared THEN Copied(v) ELSE cell[c]
      keeps == hand[v].k # "STRING" \/ own.vt # "NONE"
  IN Store([hand EXCEPT ![v].p = d], [cell EXCEPT ![d] = [own EXCEPT !.s = s]],
           IF keeps THEN altered \cup {d} ELSE altered)

-----------------------------------------------------------------------------
ScalarInit ==
  /\ hand = [v \in Vars |-> Undef]
  /\ cell = [c \in Cells |-> NoCell]
  /\ altered = {}

Assign(v) == \E x \in Literals : Replace(v, x)

(* operator=(CDT) and the copy constructor share the cell.                 *)
AssignCDT(v, w) == Store([hand EXCEPT ![v] = hand[w]], cell, altered)

(* Every reading as a number: GetInt, GetFloat, an operator, a comparison. *)
Use(v) ==
  /\ IsText(hand[v])
  /\ Store(Took(v).hand, Took(v).cell, altered)

(* Concat, Append and Prepend: a number becomes a text, a text is changed  *)
(* in place.                                                               *)
Join(v, s) ==
  /\ Len(s) <= MaxText
  /\ IF IsText(hand[v]) THEN Rewrite(v, s) ELSE Replace(v, Str(s))
Concat(v) == \E x \in Literals : IsText(x) /\ Join(v, GetString(View(v)) \o x.s)
AppendCDT(v, w) == Join(v, GetString(View(v)) \o GetString(View(w)))
PrependCDT(v, w) == Join(v, GetString(View(w)) \o GetString(View(v)))

(* v op= w: both are used as numbers, then v becomes one.                  *)
Compute(v, w) ==
  \E x \in {PlusAssignCDT(View(v), View(w)), MinusAssignCDT(View(v), View(w)),
            TimesAssignCDT(View(v), View(w))} :
    /\ Fits(x)
    /\ Store([TookBoth(v, w).hand EXCEPT ![v] = x], TookBoth(v, w).cell, altered)
Step(v) ==
  \E x \in {Incremented(View(v)), Decremented(View(v))} :
    Fits(x) /\ Store([Took(v).hand EXCEPT ![v] = x], Took(v).cell, altered)

ScalarNext ==
  \E v \in Vars :
    \/ Assign(v) \/ Use(v) \/ Concat(v) \/ Step(v)
    \/ \E w \in Vars : AssignCDT(v, w) \/ AppendCDT(v, w) \/ PrependCDT(v, w) \/ Compute(v, w)
=============================================================================
