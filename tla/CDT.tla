-------------------------------- MODULE CDT ---------------------------------
(***************************************************************************)
(* CDT (src/src/CDT.cpp): the dynamic value every register, stack element  *)
(* and template variable holds.  Strings, arrays and hashes live in cells  *)
(* (_CDT) that several handles share; a counter says how many, and a       *)
(* mutating operation first gives its handle a cell of its own (Unshare).  *)
(*                                                                         *)
(* A place is a C++ reference to a CDT: <<cell, key>>.  The variables of   *)
(* the program are the elements of the pseudo cell Frame.                  *)
(***************************************************************************)
EXTENDS Integers, Sequences, FiniteSets

CONSTANTS
  Roots,       \* CDT variables of the program
  HashKeys,    \* keys of hashes
  MaxLen,      \* bound: elements of an array
  MaxStr,      \* bound: pieces of a string; 0: the program has no strings
  MaxLive,     \* bound: cells in use between two operations
  NestedSource \* TRUE: any source may be assigned; FALSE: see SafeSource

ASSUME BoundsAssumption == MaxLen \in Nat \ {0} /\ MaxStr \in Nat /\ MaxLive \in Nat \ {0}
ASSUME NestedSourceAssumption == NestedSource \in BOOLEAN

MaxCells == MaxLive + 3   \* no operation allocates more than three cells
Cells == 1 .. MaxCells
Frame == 0
AllCells == {Frame} \cup Cells
Nil   == 0      \* the key of oNonExistentCDT in Frame
Temp  == 1      \* the key of the copy Swap makes
FrameKeys == Roots \cup {Nil, Temp}

ASSUME NamesAssumption == IsFiniteSet(Roots) /\ IsFiniteSet(HashKeys) /\ Nil \notin Roots /\ Temp \notin Roots

UndefH == [t |-> "UNDEF", p |-> 0]
IntH   == [t |-> "INT", p |-> 0]
RefTypes == {"STRING", "ARRAY", "HASH"}
Handle == [t : {"UNDEF", "INT"}, p : {0}] \cup [t : RefTypes, p : Cells]

IsRef(h) == h.t \in RefTypes

NoElems == [k \in {} |-> UndefH]
FreeCell == [live |-> FALSE, refcount |-> 0, str |-> 0, elems |-> NoElems]
NewCell(n, f) == [live |-> TRUE, refcount |-> 1, str |-> n, elems |-> f]

IsPos(k) == k \in 0 .. MaxLen - 1
BoxOf(k) == IF IsPos(k) THEN "ARRAY" ELSE "HASH"
Keys  == 0 .. MaxLen - 1 \cup HashKeys
Paths == {<<>>} \cup {<<k>> : k \in Keys} \cup {<<k, j>> : k, j \in Keys}

-----------------------------------------------------------------------------
(* Operators on a heap H.                                                  *)

At(H, pl) == H[pl[1]].elems[pl[2]]

WithCell(H, c, cell) == [d \in AllCells |-> IF d = c THEN cell ELSE H[d]]
WithElems(H, c, f)  == WithCell(H, c, [H[c] EXCEPT !.elems = f])
WithStr(H, c, n)    == WithCell(H, c, [H[c] EXCEPT !.str = n])
Counted(H, c, n)    == WithCell(H, c, [H[c] EXCEPT !.refcount = @ + n])
SetAt(H, pl, h)     ==
  WithElems(H, pl[1], [k \in DOMAIN H[pl[1]].elems |-> IF k = pl[2] THEN h ELSE H[pl[1]].elems[k]])

Fresh(H) == CHOOSE c \in Cells : ~H[c].live /\ \A d \in Cells : ~H[d].live => c <= d

Retain(H, h) == IF IsRef(h) THEN Counted(H, h.p, 1) ELSE H

(* The places that hold a handle to a cell; Referrers: those to cell d.    *)
SlotsOf(H, c)   == {c} \X {k \in DOMAIN H[c].elems : IsRef(H[c].elems[k])}
RefSlots(H)     == UNION {SlotsOf(H, c) : c \in AllCells}
Referrers(H, d) == {s \in RefSlots(H) : At(H, s).p = d}

(* Destroy: drop the reference at x; a cell whose last reference is        *)
(* dropped is deleted, and with it the references its elements hold.  The  *)
(* recursion keeps the places left to drop; every step drops one.          *)
Dropped(e) ==
  LET s  == CHOOSE p \in e.left : TRUE
      c  == At(e.heap, s).p
      H1 == Counted(SetAt(e.heap, s, UndefH), c, -1)
  IN IF e.left = {} THEN e
     ELSE IF H1[c].refcount # 0 THEN [heap |-> H1, left |-> e.left \ {s}]
     ELSE [heap |-> WithCell(H1, c, [H1[c] EXCEPT !.live = FALSE]), left |-> (e.left \ {s}) \cup SlotsOf(H1, c)]

Dropping(H, x) ==
  LET drop[n \in Nat] ==
        IF n = 0 THEN [heap |-> H, left |-> {x}] ELSE Dropped(drop[n - 1])
  IN drop

Swept(H) == [c \in AllCells |-> IF H[c].live THEN H[c] ELSE FreeCell]

Destroyed(H, x) ==
  IF ~IsRef(At(H, x)) THEN H ELSE Swept(Dropping(H, x)[Cardinality(RefSlots(H))].heap)

(* Unshare: the handle at pl gets a cell of its own, a copy of the shared  *)
(* one; every element copied is one more reference.                        *)
OwnCopy(H, pl, c) ==
  LET h  == At(H, pl)
      H1 == WithCell(Counted(H, h.p, -1), c, [H[h.p] EXCEPT !.refcount = 1])
  IN SetAt(H1, pl, [h EXCEPT !.p = c])

AllRetained(H, c) ==
  [d \in AllCells |->
     [H[d] EXCEPT !.refcount = @ + Cardinality({s \in SlotsOf(H, c) : At(H, s).p = d})]]

UnsharedShallow(H, pl) ==
  IF H[At(H, pl).p].refcount = 1 THEN H ELSE OwnCopy(H, pl, Fresh(H))
Unshared(H, pl) ==
  IF H[At(H, pl).p].refcount = 1 THEN H
  ELSE AllRetained(OwnCopy(H, pl, Fresh(H)), Fresh(H))

(* operator=(const CDT &).  The source may be nested in the target: its    *)
(* counter is raised around Destroy when it is 1.                          *)
AssignedUnguarded(H, x, y) ==
  IF x = y THEN H
  ELSE LET s == At(H, y)
           H1 == Destroyed(H, x)
       IN SetAt(Retain(H1, s), x, s)
Assigned(H, x, y) ==
  IF x = y THEN H
  ELSE LET s == At(H, y)
           only == IsRef(s) /\ H[s.p].refcount = 1
           H1 == IF ~IsRef(At(H, x)) THEN H
                 ELSE IF only
                 THEN Counted(Destroyed(Retain(H, s), x), s.p, -1)
                 ELSE Destroyed(H, x)
       IN SetAt(Retain(H1, s), x, s)

(* The place takes over a scalar or a cell made for it: operator= of a     *)
(* number or of a string.                                                  *)
ReplacedScalar(H, x, h) == SetAt(Destroyed(H, x), x, h)
Made(H, x, type, cell) ==
  LET c == Fresh(H) IN SetAt(WithCell(H, c, cell), x, [t |-> type, p |-> c])
ReplacedNew(H, x, type, cell) == Made(Destroyed(H, x), x, type, cell)

KeyFits(H, x, k) == At(H, x).t \in {"UNDEF", BoxOf(k)}

(* operator[]: creates the container, unshares it, creates the element.   *)
Container(H, x, k) ==
  IF At(H, x).t = "UNDEF" THEN ReplacedNew(H, x, BoxOf(k), NewCell(0, NoElems)) ELSE H
Extended(H, c, k) ==
  LET new == IF IsPos(k) THEN 0 .. k ELSE {k}
      old == DOMAIN H[c].elems
  IN WithElems(H, c, [i \in old \cup new |-> IF i \in old THEN H[c].elems[i] ELSE UndefH])

IndexedShared(H, x, k) ==
  LET H1 == Container(H, x, k) IN Extended(H1, At(H1, x).p, k)
Indexed(H, x, k) ==
  LET H1 == Unshared(Container(H, x, k), x) IN Extended(H1, At(H1, x).p, k)

(* r[k1][k2]... evaluated as an lvalue: the heap it leaves, the place it   *)
(* denotes, and whether every operator[] on the way accepted its operand.  *)
Step(e, k) ==
  IF ~e.ok \/ ~KeyFits(e.heap, e.place, k) THEN [e EXCEPT !.ok = FALSE]
  ELSE LET H1 == Indexed(e.heap, e.place, k)
       IN [heap |-> H1, place |-> <<At(H1, e.place).p, k>>, ok |-> TRUE]

(* A program's path has at most two keys (see Paths). *)
Lvalue(H, r, ks) ==
  LET e == [heap |-> H, place |-> <<Frame, r>>, ok |-> TRUE]
  IN IF ks = <<>> THEN e
     ELSE IF Len(ks) = 1 THEN Step(e, ks[1])
     ELSE Step(Step(e, ks[1]), ks[2])

(* r or r[k] read through the constant methods (GetCDT): the place, and    *)
(* whether CDTRangeException was thrown instead.                           *)
Rvalue(H, r, ks) ==
  LET h == H[Frame].elems[r]
      k == ks[1]
  IN IF ks = <<>> THEN [place |-> <<Frame, r>>, ok |-> TRUE]
     ELSE IF h.t # BoxOf(k) THEN [place |-> <<Frame, Nil>>, ok |-> TRUE]
     ELSE IF k \in DOMAIN H[h.p].elems THEN [place |-> <<h.p, k>>, ok |-> TRUE]
     ELSE [place |-> <<Frame, Nil>>, ok |-> ~IsPos(k)]

(* Cells reachable from a handle. *)
Reach(H, h) ==
  LET reach[n \in 0 .. MaxCells] ==
        IF n = 0 THEN (IF IsRef(h) THEN {h.p} ELSE {})
        ELSE LET R == reach[n - 1] IN R \cup {At(H, s).p : s \in {p \in RefSlots(H) : p[1] \in R}}
  IN reach[MaxCells]

-----------------------------------------------------------------------------
VARIABLES
  heap,      \* Frame and the cells
  thrown     \* what the last operation threw, or "none"

vars == <<heap, thrown>>

Init ==
  /\ heap = [c \in AllCells |->
               IF c = Frame
               THEN [live |-> TRUE, refcount |-> 1, str |-> 0,
                     elems |-> [r \in FrameKeys |-> UndefH]]
               ELSE FreeCell]
  /\ thrown = "none"

Bounded(H) == Cardinality({c \in Cells : H[c].live}) <= MaxLive

Return(H) == heap' = H /\ Bounded(heap') /\ thrown' = "none"
Throw(H, exception) == heap' = H /\ Bounded(heap') /\ thrown' = exception

(* r[ks] = int and r[ks] = string. *)
AssignInt(r, ks) ==
  \E x \in {Lvalue(heap, r, ks)} :
     \/ x.ok /\ Return(ReplacedScalar(x.heap, x.place, IntH))
     \/ ~x.ok /\ Throw(x.heap, "CDTAccessException")

AssignStr(r, ks) ==
  \E x \in {Lvalue(heap, r, ks)} :
     \/ x.ok /\ MaxStr > 0 /\ Return(ReplacedNew(x.heap, x.place, "STRING", NewCell(1, NoElems)))
     \/ ~x.ok /\ Throw(x.heap, "CDTAccessException")

(* The destructor of a variable; its slot is then free for another. *)
Destroy(r) == Return(ReplacedScalar(heap, <<Frame, r>>, UndefH))

(* Every reference to the source's cell lies inside the target, and there  *)
(* are at least two: operator= then frees it before it takes it.           *)
LostSource(H, x, y) ==
  LET s == At(H, y)
  IN /\ x # y /\ IsRef(s) /\ IsRef(At(H, x))
     /\ H[s.p].refcount > 1
     /\ ~Destroyed(H, x)[s.p].live

SafeSource(H, x, y) == NestedSource \/ ~LostSource(H, x, y)

(* r[ks] = q[js].  Clients never store a container inside itself. *)
Assign(r, ks, q, js) ==
  \E x \in {Lvalue(heap, r, ks)} :
  \E y \in {Rvalue(x.heap, q, js)} :
     \/ ~x.ok /\ Throw(x.heap, "CDTAccessException")
     \/ x.ok /\ ~y.ok /\ Throw(x.heap, "CDTRangeException")
     \/ /\ x.ok /\ y.ok
        /\ x.place[1] \notin Reach(x.heap, At(x.heap, y.place))
        /\ SafeSource(x.heap, x.place, y.place)
        /\ Return(Assigned(x.heap, x.place, y.place))

Erase(r, k) ==
  LET x  == <<Frame, r>>
      h  == At(heap, x)
      H1 == Unshared(heap, x)
      c  == At(H1, x).p
  IN \/ h.t # "HASH" /\ Throw(heap, "CDTAccessException")
     \/ /\ h.t = "HASH"
        /\ k \notin DOMAIN H1[c].elems /\ Return(H1)
     \/ /\ h.t = "HASH"
        /\ k \in DOMAIN H1[c].elems
        /\ LET H2 == Destroyed(H1, <<c, k>>)
           IN Return(WithElems(H2, c, [i \in DOMAIN H1[c].elems \ {k} |-> H2[c].elems[i]]))

(* PushBack and At do not unshare.  Their callers in the library build a   *)
(* result of their own (src/src/functions/FnList.cpp:63, FnSprintf.cpp:68, *)
(* JSON parser), so the array they change has one handle.                  *)
Private(h) == IsRef(h) => heap[h.p].refcount = 1

PushBack(r, q) ==
  LET x  == <<Frame, r>>
      h  == At(heap, x)
      v  == At(heap, <<Frame, q>>)
      H1 == IF h.t = "UNDEF" THEN ReplacedNew(heap, x, "ARRAY", NewCell(0, NoElems)) ELSE heap
      c  == At(H1, x).p
      n  == Cardinality(DOMAIN H1[c].elems)
  IN \/ h.t \notin {"UNDEF", "ARRAY"} /\ Throw(heap, "CDTAccessException")
     \/ /\ h.t \in {"UNDEF", "ARRAY"}
        /\ q # r /\ c \notin Reach(heap, v) /\ Private(h)
        /\ n < MaxLen
        /\ Return(Retain(WithElems(H1, c, [i \in 0 .. n |-> IF i < n THEN H1[c].elems[i] ELSE v]), v))

AtAssignInt(r, k) ==
  LET h == At(heap, <<Frame, r>>)
  IN \/ h.t # BoxOf(k) /\ Throw(heap, "CDTAccessException")
     \/ /\ h.t = BoxOf(k)
        /\ k \notin DOMAIN heap[h.p].elems /\ Throw(heap, "CDTRangeException")
     \/ /\ h.t = BoxOf(k)
        /\ k \in DOMAIN heap[h.p].elems
        /\ Private(h)
        /\ Return(ReplacedScalar(heap, <<h.p, k>>, IntH))

(* Concat and its aliases: a string grows in place once it is unshared, a  *)
(* number is replaced by a new string.                                     *)
Concat(r, ks) ==
  \E x \in {Lvalue(heap, r, ks)} :
     LET h  == At(x.heap, x.place)
         H1 == Unshared(x.heap, x.place)
         c  == At(H1, x.place).p
     IN \/ ~x.ok /\ Throw(x.heap, "CDTAccessException")
        \/ x.ok /\ h.t \in {"ARRAY", "HASH"} /\ Throw(x.heap, "CDTTypeCastException")
        \/ /\ x.ok /\ h.t = "UNDEF" /\ MaxStr > 0
           /\ Return(ReplacedNew(x.heap, x.place, "STRING", NewCell(1, NoElems)))
        \/ /\ x.ok /\ h.t = "INT" /\ MaxStr > 1
           /\ Return(ReplacedNew(x.heap, x.place, "STRING", NewCell(2, NoElems)))
        \/ /\ x.ok /\ h.t = "STRING"
           /\ H1[c].str < MaxStr
           /\ Return(WithStr(H1, c, H1[c].str + 1))

(* Swap goes through a copy, so the counters move three times. *)
Swap(r, q) ==
  LET tmp == <<Frame, Temp>>
      v  == At(heap, <<Frame, q>>)
      H1 == SetAt(Retain(heap, v), tmp, v)
      H2 == Assigned(H1, <<Frame, q>>, <<Frame, r>>)
      H3 == Assigned(H2, <<Frame, r>>, tmp)
  IN Return(ReplacedScalar(H3, tmp, UndefH))

Next ==
  \/ \E r \in Roots, ks \in Paths :
       AssignInt(r, ks) \/ AssignStr(r, ks) \/ Concat(r, ks)
  \/ \E r, q \in Roots, ks, js \in Paths : Len(js) < 2 /\ Len(ks) + Len(js) < 3 /\ Assign(r, ks, q, js)
  \/ \E r \in Roots, k \in Keys : AtAssignInt(r, k)
  \/ \E r \in Roots, k \in HashKeys : Erase(r, k)
  \/ \E r, q \in Roots : PushBack(r, q) \/ (r # q /\ Swap(r, q))
  \/ \E r \in Roots : Destroy(r)

Spec == Init /\ [][Next]_vars

-----------------------------------------------------------------------------
AllKeys == Keys \cup FrameKeys
CellType == [live : BOOLEAN, refcount : Nat, str : Nat, elems : UNION {[D -> Handle] : D \in SUBSET AllKeys}]

(* Counters are natural numbers, handles name cells, a deleted cell holds  *)
(* nothing, an array has no holes, and between two operations no copy of   *)
(* Swap is left.                                                           *)
Dense(H) ==
  \A c \in Cells : \A s \in Referrers(H, c) :
     At(H, s).t = "ARRAY" => \E n \in 0 .. MaxLen : DOMAIN H[c].elems = 0 .. n - 1
TypeOK ==
  /\ heap \in [AllCells -> CellType]
  /\ DOMAIN heap[Frame].elems = FrameKeys
  /\ heap[Frame].live
  /\ heap[Frame].elems[Nil] = UndefH /\ heap[Frame].elems[Temp] = UndefH
  /\ \A c \in Cells : ~heap[c].live => heap[c] = FreeCell
  /\ Dense(heap)

(* The counter of a cell is the number of handles to it, wherever they are *)
(* (variables, array elements, hash values), and a cell nothing refers to  *)
(* has been deleted: no leak and no early delete.                          *)
RefcountExact ==
  \A c \in Cells :
     /\ heap[c].refcount = Cardinality(Referrers(heap, c))
     /\ heap[c].live <=> heap[c].refcount > 0

(* No handle leads to a deleted cell. *)
NoDangling ==
  \A c \in AllCells :
     heap[c].live =>
       \A k \in DOMAIN heap[c].elems :
          IsRef(heap[c].elems[k]) => heap[heap[c].elems[k].p].live
=============================================================================
