------------------------------- MODULE MCCDT --------------------------------
(* Model checking of CDT, and of its refinement of ValueStore.             *)
EXTENDS CDT, TLC

RootSymmetry == Permutations(Roots)

(* thrown does not change what can happen next. *)
HeapView == heap

RECURSIVE Tree(_)
Tree(h) ==
  LET kids == [k \in DOMAIN heap[h.p].elems |-> Tree(heap[h.p].elems[k])]
  IN CASE h.t \in {"UNDEF", "INT"} -> [t |-> h.t]
       [] h.t = "STRING"           -> [t |-> "STRING", n |-> heap[h.p].str]
       [] OTHER                    -> [t |-> h.t, e |-> kids]

Values == INSTANCE ValueStore WITH
            val <- [r \in Roots |-> Tree(heap[Frame].elems[r])],
            MaxDepth <- MaxCells

(* Sharing is invisible: a program that uses CDT variables sees every      *)
(* operation change the value of its own variable and of no other.         *)
ImplementsValueStore == Values!Spec
=============================================================================
