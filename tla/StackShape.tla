----------------------------- MODULE StackShape -----------------------------
(***************************************************************************)
(* What the code under construction does to the argument stack of the      *)
(* machine (VM.tla): for the current end of the code, which cells the      *)
(* stack holds in the current frame, whatever path led there.  The         *)
(* compiler appends instructions; each is executed here as it is appended, *)
(* and a jump that is patched later brings its cells along.                *)
(*                                                                         *)
(* Two paths that meet must bring the same cells.  An operand that names   *)
(* a place on the stack must find there what the compiler means.           *)
(***************************************************************************)
EXTENDS Integers, SequencesExt

(* A cell: a temporary value, a saved register, the saved HR of the loop   *)
(* of a level (0 is the root of the data), an argument of a block.         *)
Temp      == <<"temp", 0>>
Saved     == <<"register", 0>>
SavedHR(n) == <<"HR", n>>
Arg(n)    == <<"arg", n>>
Caller    == -1         \* HR inside of a block: whatever it was at the call

(* An argument of a block is counted from the top of the stack. *)
ArgCells(n) == [i \in 1..n |-> Arg(n - i)]

(* The shape of the stack at a place of the code; the empty set of shapes  *)
(* is a place that is never reached.                                       *)
At(cells, hr) == {[cells |-> cells, hr |-> hr]}
Nowhere == {}

(* at:    the shapes at the end of the code, at most one                   *)
(* trail: the instructions the running operation has appended, after the   *)
(*        last one before, each with the shapes in front of it             *)
(* ahead: jumps to places of the same operation that are not there yet     *)
(* wrong: what has gone wrong                                              *)
Flow(at) == [at |-> at, trail |-> <<>>, ahead |-> {}, wrong |-> {}]

NextPlace(f) == Len(f.trail) + 1
LastPlace(f) == Len(f.trail)
Live(f) == f.at # Nowhere
Top(f) == CHOOSE s \in f.at : TRUE

Wrong(f, ok, what) == IF ok THEN f ELSE [f EXCEPT !.wrong = @ \cup {what}]

(* The jumps from the given shapes lead here. *)
Join(f, from) ==
  LET all  == f.at \cup from
      some == CHOOSE s \in all : TRUE
      hrs  == {s.hr : s \in all}
  IN IF from = {} THEN f
     ELSE Wrong([f EXCEPT !.at = At(some.cells, IF hrs = {some.hr} THEN some.hr ELSE Caller)],
                \A s \in all : s.cells = some.cells, "join")

Arrived(f) ==
  LET here == {j \in f.ahead : j.to = NextPlace(f)}
  IN [Join(f, UNION {j.from : j \in here}) EXCEPT !.ahead = @ \ here]

(* One instruction: takes cells from the top and puts others there. *)
Effect(shape, pops, pushes) ==
  [shape EXCEPT !.cells = SubSeq(@, 1, Len(@) - pops) \o pushes]

Append1(f, op, pops, pushes) ==
  LET g == Arrived(f)
      enough == \A s \in g.at : Len(s.cells) >= pops
  IN [Wrong(g, enough, "operand") EXCEPT
        !.trail = Append(@, [op |-> op, at |-> g.at]),
        !.at = IF enough THEN {Effect(s, pops, pushes) : s \in g.at} ELSE Nowhere]

Plain(f, op) == Append1(f, op, 0, <<>>)
Push(f)      == Append1(f, "PUSH", 0, <<Temp>>)
Pop(f)       == Append1(f, "POP", 1, <<>>)

(* Jumps: patched later, within the operation, and backwards. *)
Branch(f, op) == Plain(f, op)
Goto(f, op)   == [Plain(f, op) EXCEPT !.at = Nowhere]
FromLast(f)   == f.trail[LastPlace(f)].at
BranchTo(f, op, to) == LET g == Plain(f, op) IN [g EXCEPT !.ahead = @ \cup {[to |-> to, from |-> FromLast(g)]}]
GotoTo(f, op, to)   == [BranchTo(f, op, to) EXCEPT !.at = Nowhere]
BackTo(f, op, shapes) ==
  LET g == Plain(f, op)
  IN Wrong(g, \A s \in shapes, t \in g.at : s.cells = t.cells, "join")

(* The operand on the stack, counted from the top, has to be this cell. *)
Reads(f, idx, cell) ==
  LET g == Arrived(f)
  IN Wrong(g, \A s \in g.at : idx \in 0..Len(s.cells) - 1 /\ s.cells[Len(s.cells) - idx] = cell, "operand")

(* HR has to be the item of the loop of this level. *)
ReadsHR(f, level) == LET g == Arrived(f) IN Wrong(g, \A s \in g.at : s.hr = level, "register")

SetHR(f, level) == [f EXCEPT !.at = {[s EXCEPT !.hr = level] : s \in @}]

PUSHA(f) ==
  LET g == Arrived(f)
  IN IF ~Live(g) THEN Plain(g, "PUSHA")
     ELSE Append1(g, "PUSHA", 0, [i \in 1..7 |-> Saved] \o <<SavedHR(Top(g).hr)>>)

POPA(f) ==
  LET g == Arrived(f)
      ok == \A s \in g.at : Len(s.cells) >= 8 /\ Last(s.cells)[1] = "HR"
      h == Append1(Wrong(g, ok, "operand"), "POPA", 8, <<>>)
  IN IF Live(g) /\ ok THEN SetHR(h, Last(Top(g).cells)[2]) ELSE h

(* The cells under the top n are drawn out of the stack. *)
Draw(f, op, n) ==
  [Reads(Plain(f, op), n, Temp) EXCEPT
     !.at = {[s EXCEPT !.cells = IF n < Len(@) THEN RemoveAt(@, Len(@) - n) ELSE @] : s \in @}]

(* The last instruction is taken back. *)
TakenBack(f) == [f EXCEPT !.at = FromLast(f), !.trail = Front(@)]

(* The end of an operation: its jumps have all arrived. *)
Settled(f) ==
  LET g == Arrived(f)
  IN [Wrong(g, g.ahead = {}, "jump") EXCEPT !.ahead = {}, !.trail = IF @ = <<>> THEN @ ELSE <<Last(@)>>]
=============================================================================
