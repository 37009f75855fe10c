----------------------------- MODULE CDT_proofs ------------------------------
(***************************************************************************)
(* Proofs about the counted cells of CDT: every counter is the number of   *)
(* the handles to its cell, after any operation on any number of nested    *)
(* and shared containers.                                                  *)
(*                                                                         *)
(* Within an operation the heap is followed from one helper to the next.   *)
(* Sound says what holds between two of them; a counter may be one higher  *)
(* than the handles (operator= protects its source), for the cell named by *)
(* the parameter g; Frame stands for none.                                 *)
(***************************************************************************)
EXTENDS CDT, FiniteSetTheorems, WellFoundedInduction, TLAPS

Shape(H) ==
  /\ H \in [AllCells -> CellType]
  /\ DOMAIN H[Frame].elems = FrameKeys
  /\ H[Frame].live
Clean(H) == \A c \in Cells : ~H[c].live => H[c] = FreeCell

Count(H, c) == Cardinality(Referrers(H, c))
One(c, g) == IF c = g THEN 1 ELSE 0
Exact(H, g) ==
  \A c \in Cells : H[c].refcount = Count(H, c) + One(c, g) /\ (H[c].live <=> H[c].refcount > 0)
Sound(H, g) == Shape(H) /\ Clean(H) /\ Exact(H, g) /\ Dense(H)

Place(H, x) == x \in AllCells \X AllKeys /\ x[2] \in DOMAIN H[x[1]].elems
Refers(h, c) == IsRef(h) /\ h.p = c

-----------------------------------------------------------------------------
(* Heaps, places and handles. *)

LEMMA CellsFinite ==
  /\ IsFiniteSet(Cells) /\ Cardinality(Cells) = MaxLive + 3
  /\ IsFiniteSet(AllCells) /\ Cells \subseteq AllCells /\ Frame \in AllCells /\ Frame \notin Cells
  /\ Cells \subseteq Nat
<1>1. MaxCells \in Nat /\ MaxCells = MaxLive + 3  BY BoundsAssumption DEF MaxCells
<1>2. IsFiniteSet(Cells) /\ Cardinality(Cells) = MaxCells
  <2>1. 1 \in Int /\ MaxCells \in Int  BY <1>1
  <2>2. Cardinality(1 .. MaxCells) = IF 1 > MaxCells THEN 0 ELSE MaxCells - 1 + 1
    BY <2>1, FS_Interval
  <2> QED BY <2>1, <2>2, <1>1, FS_Interval DEF Cells
<1>3. Frame \notin Cells /\ Cells \subseteq AllCells /\ Frame \in AllCells /\ Cells \subseteq Nat
  BY <1>1 DEF Cells, Frame, AllCells
<1>4. IsFiniteSet(AllCells)
  BY <1>2, FS_Singleton, FS_Union DEF AllCells
<1> QED BY <1>1, <1>2, <1>3, <1>4

LEMMA KeysFinite == IsFiniteSet(AllKeys) /\ FrameKeys \subseteq AllKeys /\ Keys \subseteq AllKeys
<1>1. IsFiniteSet(0 .. MaxLen - 1)
  BY BoundsAssumption, FS_Interval
<1>2. IsFiniteSet(Keys)
  BY <1>1, NamesAssumption, FS_Union DEF Keys
<1>3. IsFiniteSet({Nil, Temp})
  <2>1. {Nil, Temp} = {Nil} \cup {Temp}  OBVIOUS
  <2>2. IsFiniteSet({Nil}) /\ IsFiniteSet({Temp})  BY FS_Singleton
  <2>3. IsFiniteSet({Nil} \cup {Temp})  BY <2>2, FS_Union
  <2> QED BY <2>1, <2>3
<1>4. IsFiniteSet(FrameKeys)
  BY <1>3, NamesAssumption, FS_Union DEF FrameKeys
<1> QED BY <1>2, <1>4, FS_Union DEF AllKeys

LEMMA HandleFacts ==
  /\ UndefH \in Handle /\ ~IsRef(UndefH) /\ IntH \in Handle /\ ~IsRef(IntH)
  /\ \A h \in Handle : IsRef(h) => h.p \in Cells
  /\ \A t \in RefTypes, c \in Cells :
        [t |-> t, p |-> c] \in Handle /\ IsRef([t |-> t, p |-> c])
  BY DEF UndefH, IntH, Handle, IsRef, RefTypes

LEMMA CellFacts ==
  ASSUME NEW cell \in CellType
  PROVE  /\ cell.live \in BOOLEAN /\ cell.refcount \in Nat /\ cell.str \in Nat
         /\ DOMAIN cell.elems \subseteq AllKeys
         /\ cell.elems \in [DOMAIN cell.elems -> Handle]
         /\ \A k \in DOMAIN cell.elems : cell.elems[k] \in Handle
         /\ \A f, D : D \subseteq AllKeys /\ f \in [D -> Handle] => [cell EXCEPT !.elems = f] \in CellType
         /\ \A n \in Nat : [cell EXCEPT !.refcount = n] \in CellType
         /\ \A n \in Nat : [cell EXCEPT !.str = n] \in CellType
         /\ \A b \in BOOLEAN : [cell EXCEPT !.live = b] \in CellType
<1>1. PICK D \in SUBSET AllKeys : cell.elems \in [D -> Handle]
  BY DEF CellType
<1>2. DOMAIN cell.elems = D  BY <1>1
<1>3. cell \in [live : BOOLEAN, refcount : Nat, str : Nat, elems : UNION {[E -> Handle] : E \in SUBSET AllKeys}]
  BY DEF CellType
<1>4. \A f, E : E \subseteq AllKeys /\ f \in [E -> Handle] => f \in UNION {[F -> Handle] : F \in SUBSET AllKeys}
  OBVIOUS
<1> HIDE DEF CellType
<1>5. \A f, E : E \subseteq AllKeys /\ f \in [E -> Handle] => [cell EXCEPT !.elems = f] \in CellType
  BY <1>3, <1>4 DEF CellType
<1> QED BY <1>1, <1>2, <1>3, <1>5 DEF CellType

LEMMA NewCellFacts ==
  /\ FreeCell \in CellType /\ DOMAIN NoElems = {} /\ FreeCell.elems = NoElems
  /\ FreeCell.refcount = 0 /\ ~FreeCell.live
  /\ \A n \in Nat : NewCell(n, NoElems) \in CellType
<1>1. NoElems \in [{} -> Handle] /\ {} \in SUBSET AllKeys  BY DEF NoElems
<1>2. NoElems \in UNION {[D -> Handle] : D \in SUBSET AllKeys}  BY <1>1
<1> QED BY <1>2 DEF FreeCell, NewCell, CellType, NoElems

LEMMA SameCell ==
  ASSUME NEW a \in CellType, NEW b \in CellType, a.live = b.live, a.refcount = b.refcount,
         a.str = b.str, a.elems = b.elems
  PROVE  a = b
  BY DEF CellType

(* The places that hold references.                                        *)
LEMMA SlotFacts ==
  ASSUME NEW H, Shape(H)
  PROVE  /\ \A s : s \in RefSlots(H) <=> Place(H, s) /\ IsRef(At(H, s))
         /\ \A c, s : s \in SlotsOf(H, c) /\ c \in AllCells <=> s \in RefSlots(H) /\ s[1] = c
         /\ \A x : Place(H, x) => At(H, x) \in Handle
         /\ \A s \in RefSlots(H) : At(H, s).p \in Cells
         /\ IsFiniteSet(RefSlots(H))
         /\ \A c : IsFiniteSet(Referrers(H, c)) /\ Count(H, c) \in Nat
         /\ \A c : Count(H, c) = 0 <=> Referrers(H, c) = {}
         /\ \A c, s : s \in Referrers(H, c) <=> Place(H, s) /\ Refers(At(H, s), c)
<1>1. \A d \in AllCells : H[d] \in CellType  BY DEF Shape
<1>2. \A d \in AllCells : DOMAIN H[d].elems \subseteq AllKeys  BY <1>1, CellFacts
<1>3. \A s : s \in RefSlots(H) <=> Place(H, s) /\ IsRef(At(H, s))
  <2>1. ASSUME NEW s, s \in RefSlots(H)
        PROVE  Place(H, s) /\ IsRef(At(H, s))
    <3>1. PICK d \in AllCells : s \in SlotsOf(H, d)  BY <2>1 DEF RefSlots
    <3>2. PICK k \in DOMAIN H[d].elems : s = <<d, k>> /\ IsRef(H[d].elems[k])
      BY <3>1 DEF SlotsOf
    <3> QED BY <3>2, <1>2 DEF Place, At
  <2>2. ASSUME NEW s, Place(H, s), IsRef(At(H, s))
        PROVE  s \in RefSlots(H)
    <3>1. PICK d \in AllCells, k \in AllKeys : s = <<d, k>>  BY <2>2 DEF Place
    <3>2. s \in SlotsOf(H, d)  BY <2>2, <3>1 DEF Place, At, SlotsOf
    <3> QED BY <3>2 DEF RefSlots
  <2> QED BY <2>1, <2>2
<1>4. \A c, s : s \in SlotsOf(H, c) /\ c \in AllCells <=> s \in RefSlots(H) /\ s[1] = c
  <2>1. \A c, s : s \in SlotsOf(H, c) => s[1] = c  BY DEF SlotsOf
  <2>2. \A c, s : s \in SlotsOf(H, c) /\ c \in AllCells => s \in RefSlots(H)  BY DEF RefSlots
  <2>3. \A s \in RefSlots(H) : \E c \in AllCells : s \in SlotsOf(H, c)  BY DEF RefSlots
  <2> QED BY <2>1, <2>2, <2>3
<1>5. \A x : Place(H, x) => At(H, x) \in Handle
  <2> SUFFICES ASSUME NEW x, Place(H, x)  PROVE At(H, x) \in Handle
    OBVIOUS
  <2>1. x[1] \in AllCells /\ x[2] \in DOMAIN H[x[1]].elems  BY DEF Place
  <2>2. H[x[1]] \in CellType  BY <2>1, <1>1
  <2> QED BY <2>1, <2>2, CellFacts DEF At
<1>6. \A s \in RefSlots(H) : At(H, s).p \in Cells  BY <1>3, <1>5, HandleFacts
<1>7. IsFiniteSet(RefSlots(H))
  <2>1. IsFiniteSet(AllCells \X AllKeys)  BY CellsFinite, KeysFinite, FS_Product
  <2>2. RefSlots(H) \subseteq AllCells \X AllKeys  BY <1>3 DEF Place
  <2> QED BY <2>1, <2>2, FS_Subset
<1>8. \A c : IsFiniteSet(Referrers(H, c))
  <2>1. \A c : Referrers(H, c) \subseteq RefSlots(H)  BY DEF Referrers
  <2> QED BY <2>1, <1>7, FS_Subset
<1>9. \A c : Count(H, c) \in Nat /\ (Count(H, c) = 0 <=> Referrers(H, c) = {})
  BY <1>8, FS_CardinalityType, FS_EmptySet DEF Count
<1> QED BY <1>3, <1>4, <1>5, <1>6, <1>7, <1>8, <1>9 DEF Referrers, Refers

-----------------------------------------------------------------------------
(* What the helpers on a heap do. *)

LEMMA CellPut ==
  ASSUME NEW H \in [AllCells -> CellType], NEW c \in AllCells, NEW cell \in CellType
  PROVE  /\ WithCell(H, c, cell) \in [AllCells -> CellType]
         /\ WithCell(H, c, cell)[c] = cell
         /\ \A d \in AllCells : d # c => WithCell(H, c, cell)[d] = H[d]
  BY DEF WithCell

(* Only the handles decide who refers to a cell. *)
SameElems(H, G) == \A d \in AllCells : G[d].elems = H[d].elems
LEMMA SameReferrers ==
  ASSUME NEW H, NEW G, SameElems(H, G)
  PROVE  /\ RefSlots(G) = RefSlots(H)
         /\ \A x : Place(G, x) <=> Place(H, x)
         /\ \A x : Place(H, x) => At(G, x) = At(H, x)
         /\ \A c \in AllCells : SlotsOf(G, c) = SlotsOf(H, c)
         /\ \A c : Referrers(G, c) = Referrers(H, c) /\ Count(G, c) = Count(H, c)
<1>1. \A c \in AllCells : SlotsOf(G, c) = SlotsOf(H, c)  BY DEF SameElems, SlotsOf
<1>2. RefSlots(G) = RefSlots(H)  BY <1>1 DEF RefSlots
<1>3. \A x : Place(G, x) <=> Place(H, x)  BY DEF SameElems, Place
<1>4. \A x : x[1] \in AllCells => At(G, x) = At(H, x)  BY DEF SameElems, At
<1>5. \A s \in RefSlots(H) : s[1] \in AllCells  BY DEF RefSlots, SlotsOf
<1>6. \A c : Referrers(G, c) = Referrers(H, c)  BY <1>2, <1>4, <1>5 DEF Referrers
<1> QED BY <1>1, <1>2, <1>3, <1>4, <1>6 DEF Count, Place

LEMMA CountedFacts ==
  ASSUME NEW H, Shape(H), NEW c \in Cells, NEW n \in Int, H[c].refcount + n \in Nat
  PROVE  /\ Shape(Counted(H, c, n)) /\ SameElems(H, Counted(H, c, n))
         /\ \A d \in AllCells : d # c => Counted(H, c, n)[d] = H[d]
         /\ Counted(H, c, n)[c].refcount = H[c].refcount + n
         /\ Counted(H, c, n)[c].live = H[c].live /\ Counted(H, c, n)[c].str = H[c].str
<1> DEFINE cell == [H[c] EXCEPT !.refcount = @ + n]
<1>1. c \in AllCells /\ c # Frame  BY CellsFinite
<1>2. H \in [AllCells -> CellType] /\ H[c] \in CellType  BY <1>1 DEF Shape
<1>3. cell \in CellType  BY <1>2, CellFacts
<1>4. cell.refcount = H[c].refcount + n /\ cell.live = H[c].live /\ cell.str = H[c].str /\ cell.elems = H[c].elems
  BY <1>2 DEF CellType
<1> HIDE DEF cell
<1>5. Counted(H, c, n) = WithCell(H, c, cell)  BY DEF Counted, cell
<1>6. /\ WithCell(H, c, cell) \in [AllCells -> CellType] /\ WithCell(H, c, cell)[c] = cell
      /\ \A d \in AllCells : d # c => WithCell(H, c, cell)[d] = H[d]
  BY <1>1, <1>2, <1>3, CellPut
<1>7. SameElems(H, Counted(H, c, n))  BY <1>4, <1>5, <1>6 DEF SameElems
<1>8. Shape(Counted(H, c, n))  BY <1>1, <1>5, <1>6, CellsFinite DEF Shape
<1> QED BY <1>4, <1>5, <1>6, <1>7, <1>8

(* The cell c takes the elements f, with the keys of D.                    *)
Elements(c, D, f) == D \subseteq AllKeys /\ f \in [D -> Handle] /\ (c = Frame => D = FrameKeys)
ElemsOnly(H, R, c, f) ==
  /\ Shape(R) /\ R[c].elems = f
  /\ \A d \in AllCells : d # c => R[d] = H[d]
  /\ R[c].refcount = H[c].refcount /\ R[c].live = H[c].live /\ R[c].str = H[c].str

LEMMA ElemsPut ==
  ASSUME NEW H, Shape(H), NEW c \in AllCells, NEW D, NEW f, Elements(c, D, f)
  PROVE  ElemsOnly(H, WithElems(H, c, f), c, f)
<1> DEFINE cell == [H[c] EXCEPT !.elems = f]
<1>1. H \in [AllCells -> CellType] /\ H[c] \in CellType  BY DEF Shape
<1>2. cell \in CellType  BY <1>1, CellFacts DEF Elements
<1>3. cell.elems = f /\ cell.refcount = H[c].refcount /\ cell.live = H[c].live /\ cell.str = H[c].str
  BY <1>1 DEF CellType
<1> HIDE DEF cell
<1>4. WithElems(H, c, f) = WithCell(H, c, cell)  BY DEF WithElems, cell
<1>5. /\ WithCell(H, c, cell) \in [AllCells -> CellType] /\ WithCell(H, c, cell)[c] = cell
      /\ \A d \in AllCells : d # c => WithCell(H, c, cell)[d] = H[d]
  BY <1>1, <1>2, CellPut
<1>6. DOMAIN f = D /\ (c = Frame => D = FrameKeys)  BY DEF Elements
<1>7. Shape(WithElems(H, c, f))  BY <1>3, <1>4, <1>5, <1>6, CellsFinite DEF Shape
<1> QED BY <1>3, <1>4, <1>5, <1>7 DEF ElemsOnly

(* A handle stored at a place changes that place and nothing else.         *)
LEMMA StoredFacts ==
  ASSUME NEW H, Shape(H), NEW x, Place(H, x), NEW h \in Handle
  PROVE  /\ Shape(SetAt(H, x, h))
         /\ \A d \in AllCells :
               /\ SetAt(H, x, h)[d].live = H[d].live
               /\ SetAt(H, x, h)[d].refcount = H[d].refcount
               /\ SetAt(H, x, h)[d].str = H[d].str
               /\ DOMAIN SetAt(H, x, h)[d].elems = DOMAIN H[d].elems
         /\ \A d \in AllCells : d # x[1] => SetAt(H, x, h)[d] = H[d]
         /\ \A s : Place(SetAt(H, x, h), s) <=> Place(H, s)
         /\ At(SetAt(H, x, h), x) = h
         /\ \A s : Place(H, s) /\ s # x => At(SetAt(H, x, h), s) = At(H, s)
<1> DEFINE c == x[1]
           f == [k \in DOMAIN H[c].elems |-> IF k = x[2] THEN h ELSE H[c].elems[k]]
           G == SetAt(H, x, h)
<1>1. c \in AllCells /\ x = <<c, x[2]>> /\ x[2] \in DOMAIN H[c].elems  BY DEF Place
<1>2. H[c] \in CellType  BY <1>1 DEF Shape
<1>3. DOMAIN H[c].elems \subseteq AllKeys /\ \A k \in DOMAIN H[c].elems : H[c].elems[k] \in Handle
  BY <1>2, CellFacts
<1>4. f \in [DOMAIN H[c].elems -> Handle]  BY <1>3
<1>5. c = Frame => DOMAIN H[c].elems = FrameKeys  BY DEF Shape
<1>6. DOMAIN f = DOMAIN H[c].elems /\ f[x[2]] = h /\ \A k \in DOMAIN H[c].elems : k # x[2] => f[k] = H[c].elems[k]
  BY <1>1
<1>7. G = WithElems(H, c, f)  BY DEF SetAt
<1> HIDE DEF f, c
<1>8. /\ Shape(G) /\ G[c].elems = f /\ \A d \in AllCells : d # c => G[d] = H[d]
      /\ G[c].refcount = H[c].refcount /\ G[c].live = H[c].live /\ G[c].str = H[c].str
  <2>1. Shape(H) /\ c \in AllCells /\ Elements(c, DOMAIN H[c].elems, f)
    BY <1>1, <1>3, <1>4, <1>5 DEF Elements
  <2>2. ElemsOnly(H, G, c, f)  BY <2>1, <1>7, ElemsPut
  <2> QED BY <2>2 DEF ElemsOnly
<1> HIDE DEF G
<1>9. \A d \in AllCells : DOMAIN G[d].elems = DOMAIN H[d].elems  BY <1>6, <1>8
<1>10. \A s : Place(G, s) <=> Place(H, s)  BY <1>9 DEF Place
<1>11. At(G, x) = h  BY <1>1, <1>6, <1>8 DEF At, c
<1>12. ASSUME NEW s, Place(H, s), s # x
       PROVE  At(G, s) = At(H, s)
  <2>1. s[1] \in AllCells /\ s[2] \in DOMAIN H[s[1]].elems /\ s = <<s[1], s[2]>>  BY <1>12 DEF Place
  <2>2. CASE s[1] = c
    <3>1. s[2] # x[2]  BY <1>12, <2>1, <2>2, <1>1
    <3> QED BY <3>1, <2>1, <2>2, <1>6, <1>8 DEF At
  <2>3. CASE s[1] # c  BY <2>1, <2>3, <1>8 DEF At
  <2> QED BY <2>2, <2>3
<1> QED BY <1>8, <1>9, <1>10, <1>11, <1>12 DEF G, c

Bit(b) == IF b THEN 1 ELSE 0
LEMMA StoredCount ==
  ASSUME NEW H, Shape(H), NEW x, Place(H, x), NEW h \in Handle
  PROVE  /\ RefSlots(SetAt(H, x, h)) = (RefSlots(H) \ {x}) \cup (IF IsRef(h) THEN {x} ELSE {})
         /\ \A c : Referrers(SetAt(H, x, h), c) =
                     (Referrers(H, c) \ {x}) \cup (IF Refers(h, c) THEN {x} ELSE {})
         /\ \A c : Count(SetAt(H, x, h), c) =
                     Count(H, c) - Bit(Refers(At(H, x), c)) + Bit(Refers(h, c))
<1> DEFINE G == SetAt(H, x, h)
<1>1. /\ Shape(G) /\ \A s : Place(G, s) <=> Place(H, s)
      /\ At(G, x) = h /\ \A s : Place(H, s) /\ s # x => At(G, s) = At(H, s)
  BY StoredFacts
<1> HIDE DEF G
<1>2. \A s : s \in RefSlots(G) <=> s \in (RefSlots(H) \ {x}) \cup (IF IsRef(h) THEN {x} ELSE {})
  BY <1>1, SlotFacts
<1>3. \A c, s : s \in Referrers(G, c) <=> s \in (Referrers(H, c) \ {x}) \cup (IF Refers(h, c) THEN {x} ELSE {})
  BY <1>1, SlotFacts
<1>4. \A c : Referrers(G, c) = (Referrers(H, c) \ {x}) \cup (IF Refers(h, c) THEN {x} ELSE {})
  BY <1>3
<1>5. ASSUME NEW c
      PROVE  Count(G, c) = Count(H, c) - Bit(Refers(At(H, x), c)) + Bit(Refers(h, c))
  <2> DEFINE R == Referrers(H, c)
  <2>1. IsFiniteSet(R) /\ Cardinality(R) = Count(H, c) /\ Count(H, c) \in Nat  BY SlotFacts DEF Count
  <2>2. x \in R <=> Refers(At(H, x), c)  BY SlotFacts
  <2> HIDE DEF R
  <2>3. IsFiniteSet(R \ {x}) /\ Cardinality(R \ {x}) = IF x \in R THEN Cardinality(R) - 1 ELSE Cardinality(R)
    BY <2>1, FS_RemoveElement
  <2>4. Cardinality((R \ {x}) \cup {x}) = Cardinality(R \ {x}) + 1
    BY <2>3, FS_AddElement
  <2>5. Referrers(G, c) = (R \ {x}) \cup (IF Refers(h, c) THEN {x} ELSE {})  BY <1>4 DEF R
  <2>6. CASE Refers(h, c)
    <3>1. Referrers(G, c) = (R \ {x}) \cup {x}  BY <2>5, <2>6
    <3> QED BY <3>1, <2>1, <2>2, <2>3, <2>4, <2>6 DEF Count, Bit
  <2>7. CASE ~Refers(h, c)
    <3>1. Referrers(G, c) = R \ {x}  BY <2>5, <2>7
    <3> QED BY <3>1, <2>1, <2>2, <2>3, <2>7 DEF Count, Bit
  <2> QED BY <2>6, <2>7
<1>6. RefSlots(G) = (RefSlots(H) \ {x}) \cup (IF IsRef(h) THEN {x} ELSE {})  BY <1>2
<1> QED BY <1>4, <1>5, <1>6 DEF G

-----------------------------------------------------------------------------
(* Destroy.  Falling is what holds while it recurses from the place x of   *)
(* the heap H: the references of a deleted cell are left to be dropped,    *)
(* and nothing else changes in the cells that live.  The cells of C live   *)
(* on, because each is referred to from another of them, and from Frame at *)
(* last, by a place that is not x.                                         *)

Supported(H, x, C) ==
  /\ C \subseteq AllCells /\ Frame \in C
  /\ \A c \in C : H[c].live
  /\ \A c \in C \ {Frame} : \E s \in Referrers(H, c) : s[1] \in C /\ s # x

Remains(H, G, x) ==
  \A d \in AllCells : G[d].live =>
     /\ H[d].live /\ G[d].str = H[d].str /\ DOMAIN G[d].elems = DOMAIN H[d].elems
     /\ \A k \in DOMAIN H[d].elems : <<d, k>> # x => G[d].elems[k] = H[d].elems[k]

Falling(G, left, H, x, g, C) ==
  /\ Shape(G) /\ Exact(G, g)
  /\ left \subseteq RefSlots(G)
  /\ \A s \in RefSlots(G) : G[s[1]].live \/ s \in left
  /\ \A s \in left : s = x \/ ~G[s[1]].live
  /\ x \notin left => At(G, x) = UndefH
  /\ Place(G, x)
  /\ Remains(H, G, x)
  /\ \A c \in C : G[c].live

LEMMA FallingStarts ==
  ASSUME NEW H, NEW x, NEW g, NEW C, Shape(H), Clean(H), Exact(H, g),
         Place(H, x), IsRef(At(H, x)), Supported(H, x, C), H[x[1]].live
  PROVE  Falling(H, {x}, H, x, g, C)
<1>1. x \in RefSlots(H)  BY SlotFacts
<1>2. ASSUME NEW s \in RefSlots(H)
      PROVE  H[s[1]].live
  <2>1. s[1] \in AllCells /\ s[2] \in DOMAIN H[s[1]].elems  BY SlotFacts DEF Place
  <2>2. CASE s[1] = Frame  BY <2>2 DEF Shape
  <2>3. CASE s[1] \in Cells
    <3>1. ~H[s[1]].live => H[s[1]].elems = NoElems  BY <2>3, NewCellFacts DEF Clean
    <3> QED BY <3>1, <2>1, NewCellFacts
  <2> QED BY <2>1, <2>2, <2>3 DEF AllCells
<1>3. Remains(H, H, x)  BY DEF Remains
<1> QED BY <1>1, <1>2, <1>3 DEF Falling, Supported

LEMMA DroppedStep ==
  ASSUME NEW G, NEW left, NEW H, NEW x, NEW g \in AllCells, NEW C,
         Shape(H), Place(H, x), Supported(H, x, C),
         Falling(G, left, H, x, g, C), left # {},
         NEW e, e = Dropped([heap |-> G, left |-> left])
  PROVE  /\ Falling(e.heap, e.left, H, x, g, C)
         /\ Cardinality(RefSlots(e.heap)) = Cardinality(RefSlots(G)) - 1
<1> DEFINE s0 == CHOOSE p \in left : TRUE
           c == At(G, s0).p
           G0 == SetAt(G, s0, UndefH)
           G1 == Counted(G0, c, -1)
           dead == [G1[c] EXCEPT !.live = FALSE]
           G2 == WithCell(G1, c, dead)
<1>1. s0 \in left  OBVIOUS
<1>2. e = IF G1[c].refcount # 0 THEN [heap |-> G1, left |-> left \ {s0}]
          ELSE [heap |-> G2, left |-> (left \ {s0}) \cup SlotsOf(G1, c)]
  BY DEF Dropped
<1> HIDE DEF s0
<1>3. Shape(G) /\ Exact(G, g) /\ s0 \in RefSlots(G)  BY <1>1 DEF Falling
<1>4. Place(G, s0) /\ IsRef(At(G, s0)) /\ c \in Cells /\ Refers(At(G, s0), c)
  BY <1>3, SlotFacts DEF Refers
<1>5. UndefH \in Handle /\ ~IsRef(UndefH) /\ \A d : ~Refers(UndefH, d)  BY HandleFacts DEF Refers
<1>6. /\ Shape(G0)
      /\ \A d \in AllCells : /\ G0[d].live = G[d].live /\ G0[d].refcount = G[d].refcount
                             /\ G0[d].str = G[d].str /\ DOMAIN G0[d].elems = DOMAIN G[d].elems
      /\ \A s : Place(G0, s) <=> Place(G, s)
      /\ At(G0, s0) = UndefH
      /\ \A s : Place(G, s) /\ s # s0 => At(G0, s) = At(G, s)
  BY <1>3, <1>4, <1>5, StoredFacts
<1>7. /\ RefSlots(G0) = RefSlots(G) \ {s0}
      /\ \A d : Referrers(G0, d) = Referrers(G, d) \ {s0}
      /\ \A d : Count(G0, d) = Count(G, d) - Bit(Refers(At(G, s0), d))
  <2>1. \A d : Bit(Refers(UndefH, d)) = 0  BY <1>5 DEF Bit
  <2>2. /\ RefSlots(G0) = (RefSlots(G) \ {s0}) \cup (IF IsRef(UndefH) THEN {s0} ELSE {})
        /\ \A d : Referrers(G0, d) = (Referrers(G, d) \ {s0}) \cup (IF Refers(UndefH, d) THEN {s0} ELSE {})
        /\ \A d : Count(G0, d) = Count(G, d) - Bit(Refers(At(G, s0), d)) + Bit(Refers(UndefH, d))
    BY <1>3, <1>4, <1>5, StoredCount
  <2>3. \A d : Count(G, d) \in Nat /\ Bit(Refers(At(G, s0), d)) \in Nat
    BY <1>3, SlotFacts DEF Bit
  <2> QED BY <2>1, <2>2, <2>3, <1>5
<1> HIDE DEF G0
<1>8. \A d : Bit(Refers(At(G, s0), d)) = IF d = c THEN 1 ELSE 0
  BY <1>4 DEF Bit, Refers
<1>9. \A d : Count(G, d) \in Nat  BY <1>3, SlotFacts
<1>10. s0 \in Referrers(G, c) /\ Count(G, c) # 0  BY <1>3, <1>4, SlotFacts
<1>11. G[c].refcount \in Nat /\ G[c].refcount > 0 /\ G[c].live
  <2>1. G[c].refcount = Count(G, c) + One(c, g) /\ (G[c].live <=> G[c].refcount > 0)
    BY <1>3, <1>4 DEF Exact
  <2> QED BY <2>1, <1>9, <1>10 DEF One
<1>12. c \in AllCells /\ c # Frame  BY <1>4, CellsFinite
<1>13. /\ Shape(G1) /\ SameElems(G0, G1)
       /\ \A d \in AllCells : d # c => G1[d] = G0[d]
       /\ G1[c].refcount = G0[c].refcount - 1
       /\ G1[c].live = G0[c].live /\ G1[c].str = G0[c].str
  <2>1. G0[c].refcount + (-1) \in Nat /\ G0[c].refcount + (-1) = G0[c].refcount - 1 /\ -1 \in Int
    BY <1>6, <1>11, <1>12
  <2> QED BY <2>1, <1>4, <1>6, CountedFacts
<1> HIDE DEF G1
<1>14. /\ RefSlots(G1) = RefSlots(G) \ {s0}
       /\ \A s : Place(G1, s) <=> Place(G, s)
       /\ At(G1, s0) = UndefH
       /\ \A s : Place(G, s) /\ s # s0 => At(G1, s) = At(G, s)
       /\ \A d : Referrers(G1, d) = Referrers(G, d) \ {s0}
       /\ \A d : Count(G1, d) = Count(G, d) - IF d = c THEN 1 ELSE 0
  BY <1>4, <1>6, <1>7, <1>8, <1>13, SameReferrers
<1>15. \A d \in AllCells : /\ G1[d].live = G[d].live /\ G1[d].str = G[d].str
                           /\ DOMAIN G1[d].elems = DOMAIN G[d].elems
  BY <1>6, <1>13 DEF SameElems
<1>16. \A d \in Cells : G1[d].refcount = Count(G1, d) + One(d, g)
  <2> SUFFICES ASSUME NEW d \in Cells  PROVE G1[d].refcount = Count(G1, d) + One(d, g)
    OBVIOUS
  <2>1. G[d].refcount = Count(G, d) + One(d, g) /\ One(d, g) \in Nat /\ d \in AllCells
    BY <1>3, CellsFinite DEF Exact, One
  <2>2. CASE d = c  BY <2>1, <2>2, <1>6, <1>9, <1>13, <1>14
  <2>3. CASE d # c  BY <2>1, <2>3, <1>6, <1>9, <1>13, <1>14
  <2> QED BY <2>2, <2>3
<1>17. Cardinality(RefSlots(G1)) = Cardinality(RefSlots(G)) - 1
  <2>1. IsFiniteSet(RefSlots(G)) /\ s0 \in RefSlots(G)  BY <1>3, SlotFacts
  <2>2. RefSlots(G1) = RefSlots(G) \ {s0}  BY <1>14
  <2>3. Cardinality(RefSlots(G) \ {s0}) = Cardinality(RefSlots(G)) - 1
    BY <2>1, FS_RemoveElement
  <2> QED BY <2>2, <2>3
<1>18. Place(G1, x) /\ Place(G, x)  BY <1>14 DEF Falling
<1>19. x \notin left \ {s0} => At(G1, x) = UndefH
  BY <1>14, <1>18 DEF Falling
<1>20. s0 = x \/ ~G[s0[1]].live  BY <1>1 DEF Falling
<1>21. Remains(H, G1, x)
  <2> SUFFICES ASSUME NEW d \in AllCells, G1[d].live
               PROVE  /\ H[d].live /\ G1[d].str = H[d].str /\ DOMAIN G1[d].elems = DOMAIN H[d].elems
                      /\ \A k \in DOMAIN H[d].elems : <<d, k>> # x => G1[d].elems[k] = H[d].elems[k]
    BY DEF Remains
  <2>1. /\ H[d].live /\ G[d].str = H[d].str /\ DOMAIN G[d].elems = DOMAIN H[d].elems
        /\ \A k \in DOMAIN H[d].elems : <<d, k>> # x => G[d].elems[k] = H[d].elems[k]
    BY <1>15 DEF Falling, Remains
  <2>2. ASSUME NEW k \in DOMAIN H[d].elems, <<d, k>> # x
        PROVE  G1[d].elems[k] = H[d].elems[k]
    <3>1. <<d, k>>[1] = d /\ <<d, k>>[2] = k  OBVIOUS
    <3>2. <<d, k>> # s0  BY <1>15, <1>20, <2>2, <3>1
    <3>3. G[d] \in CellType  BY <1>3 DEF Shape
    <3>4. k \in AllKeys  BY <2>1, <3>3, CellFacts
    <3>5. Place(G, <<d, k>>)  BY <2>1, <3>1, <3>4 DEF Place
    <3>6. At(G1, <<d, k>>) = At(G, <<d, k>>)  BY <1>14, <3>2, <3>5
    <3> QED BY <2>1, <2>2, <3>1, <3>6 DEF At
  <2> QED BY <2>1, <2>2, <1>15
<1>22. \A d \in C : G1[d].live  BY <1>15 DEF Falling, Supported
<1>23. CASE G1[c].refcount # 0
  <2>1. e.heap = G1 /\ e.left = left \ {s0}  BY <1>2, <1>23
  <2>2. Exact(G1, g)
    <3>1. G1[c].refcount > 0  BY <1>23, <1>13, <1>11, <1>6, <1>12
    <3> SUFFICES ASSUME NEW d \in Cells  PROVE G1[d].live <=> G1[d].refcount > 0
      BY <1>16 DEF Exact
    <3>2. d \in AllCells /\ (G[d].live <=> G[d].refcount > 0)  BY <1>3, CellsFinite DEF Exact
    <3>3. CASE d = c  BY <3>1, <3>3, <1>11, <1>12, <1>15
    <3>4. CASE d # c  BY <3>2, <3>4, <1>6, <1>13, <1>15
    <3> QED BY <3>3, <3>4
  <2>3. left \ {s0} \subseteq RefSlots(G1)  BY <1>14 DEF Falling
  <2>4. \A s \in RefSlots(G1) : G1[s[1]].live \/ s \in left \ {s0}
    <3>1. \A s \in RefSlots(G1) : s[1] \in AllCells  BY <1>13, SlotFacts DEF Place
    <3> QED BY <3>1, <1>14, <1>15 DEF Falling
  <2>5. \A s \in left \ {s0} : s = x \/ ~G1[s[1]].live
    <3>1. \A s \in left : s[1] \in AllCells  BY <1>3, SlotFacts DEF Place, Falling
    <3> QED BY <3>1, <1>15 DEF Falling
  <2>6. Falling(G1, left \ {s0}, H, x, g, C)
    BY <2>2, <2>3, <2>4, <2>5, <1>13, <1>18, <1>19, <1>21, <1>22 DEF Falling
  <2> QED BY <2>1, <2>6, <1>17
<1>24. CASE G1[c].refcount = 0
  <2> DEFINE more == SlotsOf(G1, c)
             left2 == (left \ {s0}) \cup more
  <2>1. e.heap = G2 /\ e.left = left2  BY <1>2, <1>24
  <2>2. G1 \in [AllCells -> CellType] /\ G1[c] \in CellType  BY <1>12, <1>13 DEF Shape
  <2>3. dead \in CellType  BY <2>2, CellFacts
  <2>4. dead.live = FALSE /\ dead.refcount = G1[c].refcount /\ dead.str = G1[c].str /\ dead.elems = G1[c].elems
    BY <2>2 DEF CellType
  <2> HIDE DEF dead
  <2>5. /\ G2 \in [AllCells -> CellType] /\ G2[c] = dead
        /\ \A d \in AllCells : d # c => G2[d] = G1[d]
    BY <2>2, <2>3, <1>12, CellPut
  <2> HIDE DEF G2
  <2>6. SameElems(G1, G2)  BY <2>4, <2>5 DEF SameElems
  <2>7. Shape(G2)  BY <2>5, <1>12, <1>13, CellsFinite DEF Shape
  <2>8. /\ RefSlots(G2) = RefSlots(G1) /\ \A s : Place(G2, s) <=> Place(G1, s)
        /\ \A s : Place(G1, s) => At(G2, s) = At(G1, s)
        /\ \A d : Count(G2, d) = Count(G1, d)
    BY <2>6, SameReferrers
  <2>9. Exact(G2, g)
    <3> SUFFICES ASSUME NEW d \in Cells
                 PROVE  G2[d].refcount = Count(G2, d) + One(d, g) /\ (G2[d].live <=> G2[d].refcount > 0)
      BY DEF Exact
    <3>1. d \in AllCells /\ (G[d].live <=> G[d].refcount > 0)  BY <1>3, CellsFinite DEF Exact
    <3>2. CASE d = c  BY <3>2, <2>4, <2>5, <2>8, <1>16, <1>24
    <3>3. CASE d # c  BY <3>1, <3>3, <2>5, <2>8, <1>6, <1>13, <1>15, <1>16
    <3> QED BY <3>2, <3>3
  <2>10. \A s : s \in more <=> s \in RefSlots(G1) /\ s[1] = c  BY <1>12, <1>13, SlotFacts
  <2> HIDE DEF more
  <2>11. left2 \subseteq RefSlots(G2)  BY <2>8, <2>10, <1>14 DEF Falling
  <2>12. \A s \in RefSlots(G2) : G2[s[1]].live \/ s \in left2
    <3>1. \A s \in RefSlots(G1) : s[1] \in AllCells  BY <1>13, SlotFacts DEF Place
    <3>2. \A s \in RefSlots(G1) : s \in RefSlots(G) /\ s # s0  BY <1>14
    <3>3. \A s \in RefSlots(G) : G[s[1]].live \/ s \in left  BY DEF Falling
    <3> QED BY <3>1, <3>2, <3>3, <2>5, <2>8, <2>10, <1>15
  <2>13. \A s \in left2 : s = x \/ ~G2[s[1]].live
    <3>1. \A s \in left : s[1] \in AllCells  BY <1>3, SlotFacts DEF Place, Falling
    <3>2. \A s \in left : s = x \/ ~G[s[1]].live  BY DEF Falling
    <3>3. \A s \in more : ~G2[s[1]].live  BY <2>4, <2>5, <2>10
    <3>4. \A d \in AllCells : G2[d].live => G[d].live  BY <2>4, <2>5, <1>15
    <3> QED BY <3>1, <3>2, <3>3, <3>4
  <2>14. x \notin left2 => At(G2, x) = UndefH  BY <1>18, <1>19, <2>8
  <2>15. Remains(H, G2, x)
    BY <1>21, <2>4, <2>5 DEF Remains
  <2>16. c \notin C
    <3> SUFFICES ASSUME c \in C  PROVE FALSE
      OBVIOUS
    <3>1. PICK s \in Referrers(H, c) : s[1] \in C /\ s # x  BY <1>12 DEF Supported
    <3>2. Place(H, s) /\ Refers(At(H, s), c)  BY SlotFacts
    <3>3. s[1] \in AllCells /\ s[2] \in DOMAIN H[s[1]].elems /\ s = <<s[1], s[2]>>  BY <3>2 DEF Place
    <3>4. G[s[1]].live  BY <3>1 DEF Falling
    <3>5. DOMAIN G[s[1]].elems = DOMAIN H[s[1]].elems /\ G[s[1]].elems[s[2]] = H[s[1]].elems[s[2]]
      BY <3>1, <3>3, <3>4 DEF Falling, Remains
    <3>6. Place(G, s) /\ At(G, s) = At(H, s)  BY <3>2, <3>3, <3>5 DEF Place, At
    <3>7. s \in Referrers(G, c)  BY <3>2, <3>6, <1>3, SlotFacts
    <3>8. s # s0  BY <3>1, <3>4, <1>20
    <3>9. s \in Referrers(G1, c)  BY <3>7, <3>8, <1>14
    <3>10. Count(G1, c) # 0 /\ Count(G1, c) \in Nat  BY <3>9, <1>13, SlotFacts
    <3>11. G1[c].refcount = Count(G1, c) + One(c, g) /\ One(c, g) \in Nat  BY <1>4, <1>16 DEF One
    <3> QED BY <3>10, <3>11, <1>24
  <2>17. \A d \in C : G2[d].live  BY <2>5, <2>16, <1>22 DEF Supported
  <2>18. Place(G2, x)  BY <2>8, <1>18
  <2>19. Falling(G2, left2, H, x, g, C)
    BY <2>7, <2>9, <2>11, <2>12, <2>13, <2>14, <2>15, <2>17, <2>18 DEF Falling
  <2> QED BY <2>1, <2>8, <2>19, <1>17
<1> QED BY <1>23, <1>24

(* Induction over the numbers, for sets: a set of natural numbers that is  *)
(* not empty has a least element.                                          *)
LEMMA LeastNumber ==
  ASSUME NEW M, M \subseteq Nat, M # {}
  PROVE  \E n \in M : \A m \in M : n <= m
<1> DEFINE R == {pair \in Nat \X Nat : pair[1] < pair[2]}
<1>1. IsWellFoundedOn(R, Nat)  BY NatLessThanWellFounded DEF OpToRel
<1>2. PICK n \in M : \A m \in M : ~(<<m, n>> \in R)
  <2> HIDE DEF R
  <2> QED BY <1>1, WFMin
<1>3. \A m \in M : <<m, n>> \in Nat \X Nat  BY <1>2
<1>4. \A m \in M : ~(m < n)  BY <1>2, <1>3
<1> QED BY <1>2, <1>4

LEMMA Induction ==
  ASSUME NEW S, 0 \in S, \A n \in Nat : n \in S => n + 1 \in S
  PROVE  Nat \subseteq S
<1> DEFINE M == Nat \ S
<1>1. CASE M = {}  BY <1>1
<1>2. CASE M # {}
  <2>1. PICK n \in M : \A m \in M : n <= m  BY <1>2, LeastNumber
  <2>2. n # 0  BY <2>1
  <2>3. n - 1 \in Nat /\ n - 1 \notin M  BY <2>1, <2>2
  <2>4. n - 1 \in S  BY <2>3
  <2>5. (n - 1) + 1 \in S  BY <2>3, <2>4
  <2> QED BY <2>1, <2>5
<1> QED BY <1>1, <1>2

(* The recursion of Destroy has a solution: each of its steps is a         *)
(* function of the one before.                                             *)
LEMMA DroppingSolved ==
  ASSUME NEW e0
  PROVE  \E f : f = [n \in Nat |-> IF n = 0 THEN e0 ELSE Dropped(f[n - 1])]
<1> DEFINE Solves(f, n) == \A i \in 0 .. n : f[i] = IF i = 0 THEN e0 ELSE Dropped(f[i - 1])
           S == {n \in Nat : \E f : Solves(f, n)}
           U == {n \in Nat : \A f, h : Solves(f, n) /\ Solves(h, n) => f[n] = h[n]}
<1>1. \A f : \A n \in Nat : \A m \in 0 .. n : Solves(f, n) => Solves(f, m)
  OBVIOUS
<1>2. Nat \subseteq S
  <2>1. 0 \in S
    <3>1. Solves([i \in Nat |-> e0], 0)  OBVIOUS
    <3> QED BY <3>1
  <2>2. ASSUME NEW n \in Nat, n \in S
        PROVE  n + 1 \in S
    <3>1. PICK f : Solves(f, n)  BY <2>2
    <3> DEFINE h == [i \in Nat |-> IF i = n + 1 THEN Dropped(f[n]) ELSE f[i]]
    <3>2. \A i \in 0 .. n : h[i] = f[i] /\ (i # 0 => h[i - 1] = f[i - 1])  OBVIOUS
    <3>3. h[n + 1] = Dropped(f[n]) /\ h[n] = f[n]
      <4>1. n + 1 \in Nat /\ n # n + 1  OBVIOUS
      <4> QED BY <4>1
    <3> HIDE DEF h
    <3>4. ASSUME NEW i \in 0 .. n + 1
          PROVE  h[i] = IF i = 0 THEN e0 ELSE Dropped(h[i - 1])
      <4>1. CASE i \in 0 .. n  BY <3>1, <3>2, <4>1
      <4>2. CASE i = n + 1
        <5>1. i # 0 /\ i - 1 = n  BY <4>2
        <5> QED BY <3>3, <4>2, <5>1
      <4> QED BY <4>1, <4>2
    <3>5. Solves(h, n + 1)  BY <3>4
    <3>6. n + 1 \in Nat  OBVIOUS
    <3> HIDE DEF Solves
    <3> QED BY <3>5, <3>6
  <2> HIDE DEF S
  <2> QED BY <2>1, <2>2, Induction
<1>3. Nat \subseteq U
  <2>1. 0 \in U  OBVIOUS
  <2>2. ASSUME NEW n \in Nat, n \in U
        PROVE  n + 1 \in U
    <3>1. ASSUME NEW f, NEW h, Solves(f, n + 1), Solves(h, n + 1)
          PROVE  f[n + 1] = h[n + 1]
      <4>1. Solves(f, n) /\ Solves(h, n)  BY <3>1
      <4>2. f[n] = h[n]  BY <2>2, <4>1
      <4>3. n + 1 \in 0 .. n + 1 /\ n + 1 # 0 /\ (n + 1) - 1 = n  OBVIOUS
      <4> QED BY <3>1, <4>2, <4>3
    <3>2. n + 1 \in Nat  OBVIOUS
    <3> HIDE DEF Solves
    <3> QED BY <3>1, <3>2
  <2> HIDE DEF U
  <2> QED BY <2>1, <2>2, Induction
<1> DEFINE sol(n) == CHOOSE f : Solves(f, n)
           f == [n \in Nat |-> sol(n)[n]]
<1>4. \A n \in Nat : Solves(sol(n), n)
  <2> SUFFICES ASSUME NEW n \in Nat  PROVE Solves(sol(n), n)
    OBVIOUS
  <2>1. \E h : Solves(h, n)  BY <1>2
  <2> HIDE DEF Solves
  <2> QED BY <2>1
<1>5. ASSUME NEW i \in Nat
      PROVE  f[i] = IF i = 0 THEN e0 ELSE Dropped(f[i - 1])
  <2> HIDE DEF sol
  <2>1. Solves(sol(i), i)  BY <1>4
  <2>2. i \in 0 .. i  OBVIOUS
  <2>3. f[i] = IF i = 0 THEN e0 ELSE Dropped(sol(i)[i - 1])  BY <2>1, <2>2
  <2>4. CASE i = 0  BY <2>3, <2>4
  <2>5. CASE i # 0
    <3>1. i - 1 \in Nat /\ i - 1 \in 0 .. i  BY <2>5
    <3>2. Solves(sol(i - 1), i - 1) /\ Solves(sol(i), i - 1)  BY <1>1, <1>4, <2>1, <3>1
    <3> HIDE DEF Solves
    <3>3. sol(i)[i - 1] = sol(i - 1)[i - 1]  BY <1>3, <3>1, <3>2
    <3> QED BY <2>3, <2>5, <3>1, <3>3
  <2> QED BY <2>4, <2>5
<1> HIDE DEF sol
<1>6. f = [n \in Nat |-> IF n = 0 THEN e0 ELSE Dropped(f[n - 1])]  BY <1>5
<1> QED BY <1>6

LEMMA DroppingSteps ==
  ASSUME NEW H, NEW x
  PROVE  /\ Dropping(H, x)[0] = [heap |-> H, left |-> {x}]
         /\ \A n \in Nat : Dropping(H, x)[n + 1] = Dropped(Dropping(H, x)[n])
<1> DEFINE e0 == [heap |-> H, left |-> {x}]
           d == Dropping(H, x)
<1>1. d = CHOOSE f : f = [n \in Nat |-> IF n = 0 THEN e0 ELSE Dropped(f[n - 1])]
  BY DEF Dropping
<1> HIDE DEF d, e0
<1>2. d = [n \in Nat |-> IF n = 0 THEN e0 ELSE Dropped(d[n - 1])]
  BY <1>1, DroppingSolved
<1>3. d[0] = e0  BY <1>2
<1>4. ASSUME NEW n \in Nat
      PROVE  d[n + 1] = Dropped(d[n])
  <2>1. n + 1 \in Nat /\ n + 1 # 0 /\ (n + 1) - 1 = n  OBVIOUS
  <2> QED BY <1>2, <2>1
<1> QED BY <1>3, <1>4 DEF d, e0

-----------------------------------------------------------------------------
(* Live cells, arrays without holes, and what Destroy leaves.              *)

Boxed(H, h) ==
  h.t = "ARRAY" => \E n \in 0 .. MaxLen : DOMAIN H[h.p].elems = 0 .. n - 1

LEMMA PlaceLive ==
  ASSUME NEW H, Shape(H), Clean(H), NEW x, Place(H, x)
  PROVE  H[x[1]].live
<1>1. x[1] \in AllCells /\ x[2] \in DOMAIN H[x[1]].elems  BY DEF Place
<1>2. CASE x[1] = Frame  BY <1>2 DEF Shape
<1>3. CASE x[1] \in Cells
  <2>1. ~H[x[1]].live => H[x[1]].elems = NoElems  BY <1>3, NewCellFacts DEF Clean
  <2> QED BY <2>1, <1>1, NewCellFacts
<1> QED BY <1>1, <1>2, <1>3 DEF AllCells

LEMMA ReferredLive ==
  ASSUME NEW H, NEW g, Shape(H), Exact(H, g), NEW s \in RefSlots(H)
  PROVE  /\ At(H, s).p \in Cells /\ H[At(H, s).p].live
         /\ H[At(H, s).p].refcount = Count(H, At(H, s).p) + One(At(H, s).p, g)
         /\ Count(H, At(H, s).p) \in Nat /\ Count(H, At(H, s).p) > 0
<1> DEFINE c == At(H, s).p
<1>1. c \in Cells  BY SlotFacts
<1>2. s \in Referrers(H, c)  BY DEF Referrers
<1>3. Count(H, c) \in Nat /\ Count(H, c) # 0  BY <1>2, SlotFacts
<1>4. H[c].refcount = Count(H, c) + One(c, g) /\ (H[c].live <=> H[c].refcount > 0)
  BY <1>1 DEF Exact
<1>5. One(c, g) \in Nat  BY DEF One
<1> HIDE DEF c
<1>6. H[c].refcount > 0  BY <1>3, <1>4, <1>5
<1> QED BY <1>1, <1>3, <1>4, <1>6 DEF c

LEMMA DenseFacts ==
  ASSUME NEW H, Shape(H)
  PROVE  Dense(H) <=> \A s \in RefSlots(H) : Boxed(H, At(H, s))
<1>1. \A s \in RefSlots(H) : At(H, s).p \in Cells  BY SlotFacts
<1>2. \A c, s : s \in Referrers(H, c) <=> s \in RefSlots(H) /\ At(H, s).p = c
  BY DEF Referrers
<1> QED BY <1>1, <1>2 DEF Dense, Boxed

(* The handles that are left, and where they are, come from H.             *)
LEMMA RemainsRefs ==
  ASSUME NEW H, NEW D, NEW x, NEW g, Shape(H), Shape(D), Clean(D), Exact(D, g),
         Remains(H, D, x), ~IsRef(At(D, x))
  PROVE  /\ \A s \in RefSlots(D) : s \in RefSlots(H) /\ At(D, s) = At(H, s)
         /\ \A c : Referrers(D, c) \subseteq Referrers(H, c)
         /\ Dense(H) => Dense(D)
<1>1. ASSUME NEW s \in RefSlots(D)
      PROVE  s \in RefSlots(H) /\ At(D, s) = At(H, s)
  <2>1. Place(D, s) /\ IsRef(At(D, s)) /\ s # x  BY SlotFacts
  <2>2. D[s[1]].live  BY <2>1, PlaceLive
  <2>3. s = <<s[1], s[2]>> /\ s[1] \in AllCells /\ s[2] \in AllKeys /\ s[2] \in DOMAIN D[s[1]].elems
    BY <2>1 DEF Place
  <2>4. s[2] \in DOMAIN H[s[1]].elems /\ D[s[1]].elems[s[2]] = H[s[1]].elems[s[2]]
    BY <2>1, <2>2, <2>3 DEF Remains
  <2>5. Place(H, s) /\ At(D, s) = At(H, s)  BY <2>3, <2>4 DEF Place, At
  <2> QED BY <2>1, <2>5, SlotFacts
<1>2. \A c : Referrers(D, c) \subseteq Referrers(H, c)
  BY <1>1 DEF Referrers
<1>3. ASSUME Dense(H)
      PROVE  Dense(D)
  <2> SUFFICES ASSUME NEW s \in RefSlots(D)  PROVE Boxed(D, At(D, s))
    BY DenseFacts
  <2>1. Boxed(H, At(H, s)) /\ At(D, s) = At(H, s)  BY <1>1, <1>3, DenseFacts
  <2>2. At(D, s).p \in AllCells /\ D[At(D, s).p].live  BY ReferredLive, CellsFinite
  <2>3. DOMAIN D[At(D, s).p].elems = DOMAIN H[At(D, s).p].elems  BY <2>2 DEF Remains
  <2> QED BY <2>1, <2>3 DEF Boxed
<1> QED BY <1>1, <1>2, <1>3

(* An operation at x of the heap H keeps the cells of C and all their      *)
(* elements but x itself.                                                  *)
Stays(H, R, x, C) ==
  /\ \A c \in C : R[c].live
  /\ \A c \in C : \A k \in DOMAIN H[c].elems :
        <<c, k>> # x => k \in DOMAIN R[c].elems /\ R[c].elems[k] = H[c].elems[k]

LEMMA StaysRefers ==
  ASSUME NEW H, NEW R, NEW x, NEW C, Shape(H), Shape(R), Stays(H, R, x, C),
         NEW s, Place(H, s), s[1] \in C, s # x
  PROVE  Place(R, s) /\ At(R, s) = At(H, s)
<1>1. s = <<s[1], s[2]>> /\ s[1] \in AllCells /\ s[2] \in AllKeys /\ s[2] \in DOMAIN H[s[1]].elems
  BY DEF Place
<1>2. s[2] \in DOMAIN R[s[1]].elems /\ R[s[1]].elems[s[2]] = H[s[1]].elems[s[2]]
  BY <1>1 DEF Stays
<1> QED BY <1>1, <1>2 DEF Place, At

LEMMA StaysSupported ==
  ASSUME NEW H, NEW R, NEW x, NEW C, Shape(H), Shape(R), Supported(H, x, C), Stays(H, R, x, C)
  PROVE  Supported(R, x, C)
<1>1. ASSUME NEW c \in C \ {Frame}
      PROVE  \E s \in Referrers(R, c) : s[1] \in C /\ s # x
  <2>1. PICK s \in Referrers(H, c) : s[1] \in C /\ s # x  BY DEF Supported
  <2>2. Place(H, s) /\ Refers(At(H, s), c)  BY SlotFacts
  <2>3. Place(R, s) /\ At(R, s) = At(H, s)  BY <2>1, <2>2, StaysRefers
  <2>4. s \in Referrers(R, c)  BY <2>2, <2>3, SlotFacts
  <2> QED BY <2>1, <2>4
<1> QED BY <1>1 DEF Supported, Stays

LEMMA StaysOn ==
  ASSUME NEW H, NEW G, NEW R, NEW x, NEW C, Stays(H, G, x, C), Stays(G, R, x, C)
  PROVE  Stays(H, R, x, C)
  BY DEF Stays

LEMMA RemainsStays ==
  ASSUME NEW H, NEW D, NEW x, NEW C, C \subseteq AllCells, Remains(H, D, x), \A c \in C : D[c].live
  PROVE  Stays(H, D, x, C)
  BY DEF Remains, Stays

LEMMA Destroying ==
  ASSUME NEW H, NEW x, NEW g \in AllCells, NEW C, Sound(H, g),
         Place(H, x), Supported(H, x, C), x[1] \in C
  PROVE  /\ Sound(Destroyed(H, x), g)
         /\ Place(Destroyed(H, x), x) /\ ~IsRef(At(Destroyed(H, x), x))
         /\ Remains(H, Destroyed(H, x), x)
         /\ Stays(H, Destroyed(H, x), x, C)
<1>1. CASE ~IsRef(At(H, x))
  <2>1. Destroyed(H, x) = H  BY <1>1 DEF Destroyed
  <2> QED BY <1>1, <2>1 DEF Remains, Stays, Supported
<1>2. CASE IsRef(At(H, x))
  <2> DEFINE drop == Dropping(H, x)
             N == Cardinality(RefSlots(H))
             S == {n \in Nat :
                     /\ drop[n] = [heap |-> drop[n].heap, left |-> drop[n].left]
                     /\ Falling(drop[n].heap, drop[n].left, H, x, g, C)
                     /\ drop[n].left = {} \/ Cardinality(RefSlots(drop[n].heap)) + n = N}
  <2>1. Shape(H) /\ Clean(H) /\ Exact(H, g) /\ Dense(H)  BY DEF Sound
  <2>2. N \in Nat  BY <2>1, SlotFacts, FS_CardinalityType
  <2>3. drop[0] = [heap |-> H, left |-> {x}] /\ \A n \in Nat : drop[n + 1] = Dropped(drop[n])
    BY DroppingSteps
  <2> HIDE DEF drop, N
  <2>4. 0 \in S
    <3>1. H[x[1]].live  BY DEF Supported
    <3>2. Falling(H, {x}, H, x, g, C)  BY <1>2, <2>1, <3>1, FallingStarts
    <3>3. Cardinality(RefSlots(H)) + 0 = N  BY <2>2 DEF N
    <3> QED BY <2>3, <3>2, <3>3
  <2>5. ASSUME NEW n \in Nat, n \in S
        PROVE  n + 1 \in S
    <3> DEFINE e == drop[n]
               e1 == drop[n + 1]
    <3>1. /\ e = [heap |-> e.heap, left |-> e.left] /\ Falling(e.heap, e.left, H, x, g, C)
          /\ e.left = {} \/ Cardinality(RefSlots(e.heap)) + n = N
      BY <2>5
    <3>2. e1 = Dropped(e) /\ n + 1 \in Nat  BY <2>3
    <3> HIDE DEF e, e1
    <3>3. CASE e.left = {}
      <4>1. e1 = e  BY <3>2, <3>3 DEF Dropped
      <4> QED BY <3>1, <3>2, <3>3, <4>1 DEF e, e1
    <3>4. CASE e.left # {}
      <4>1. /\ Falling(e1.heap, e1.left, H, x, g, C)
            /\ Cardinality(RefSlots(e1.heap)) = Cardinality(RefSlots(e.heap)) - 1
        <5> DEFINE e0 == [heap |-> e.heap, left |-> e.left]
        <5>1. Falling(e.heap, e.left, H, x, g, C) /\ e0 = e  BY <3>1
        <5> HIDE DEF e0
        <5>2. e1 = Dropped(e0)  BY <3>2, <5>1
        <5> QED BY <2>1, <3>4, <5>1, <5>2, DroppedStep DEF e0
      <4>2. e1 = [heap |-> e1.heap, left |-> e1.left]
        BY <3>2, <3>4 DEF Dropped
      <4>3. Cardinality(RefSlots(e.heap)) \in Nat
        <5>1. Shape(e.heap)  BY <3>1 DEF Falling
        <5> QED BY <5>1, SlotFacts, FS_CardinalityType
      <4>4. Cardinality(RefSlots(e1.heap)) + (n + 1) = N  BY <3>1, <3>4, <4>1, <4>3
      <4> QED BY <3>2, <4>1, <4>2, <4>4 DEF e1
    <3> QED BY <3>3, <3>4
  <2>6. N \in S
    <3> HIDE DEF S
    <3>1. Nat \subseteq S  BY <2>4, <2>5, Induction
    <3> QED BY <2>2, <3>1
  <2> DEFINE F == drop[N].heap
             D == Destroyed(H, x)
  <2>7. Falling(F, {}, H, x, g, C)
    <3>1. Falling(F, drop[N].left, H, x, g, C) /\ (drop[N].left = {} \/ Cardinality(RefSlots(F)) + N = N)
      BY <2>6
    <3>2. CASE drop[N].left = {}  BY <3>1, <3>2
    <3>3. CASE Cardinality(RefSlots(F)) + N = N
      <4>1. Shape(F) /\ drop[N].left \subseteq RefSlots(F)  BY <3>1 DEF Falling
      <4>2. IsFiniteSet(RefSlots(F)) /\ Cardinality(RefSlots(F)) \in Nat
        BY <4>1, SlotFacts, FS_CardinalityType
      <4>3. Cardinality(RefSlots(F)) = 0  BY <3>3, <4>2, <2>2
      <4>4. RefSlots(F) = {}  BY <4>2, <4>3, FS_EmptySet
      <4>5. drop[N].left = {}  BY <4>1, <4>4
      <4> QED BY <3>1, <4>5
    <3> QED BY <3>1, <3>2, <3>3
  <2>8. D = Swept(F)  BY <1>2 DEF Destroyed, drop, N
  <2> HIDE DEF F, D, S
  <2>9. /\ Shape(F) /\ Exact(F, g) /\ \A s \in RefSlots(F) : F[s[1]].live
        /\ At(F, x) = UndefH /\ Place(F, x) /\ Remains(H, F, x) /\ \A c \in C : F[c].live
    BY <2>7 DEF Falling
  <2>10. /\ \A c \in AllCells : F[c].live => D[c] = F[c]
         /\ \A c \in AllCells : ~F[c].live => D[c] = FreeCell
    BY <2>8 DEF Swept
  <2>11. Shape(D)
    <3>1. D = [c \in AllCells |-> IF F[c].live THEN F[c] ELSE FreeCell]  BY <2>8 DEF Swept
    <3>2. \A c \in AllCells : F[c] \in CellType  BY <2>9 DEF Shape
    <3>3. D \in [AllCells -> CellType]  BY <3>1, <3>2, NewCellFacts
    <3>4. Frame \in AllCells  BY CellsFinite
    <3> QED BY <2>9, <2>10, <3>3, <3>4 DEF Shape
  <2>12. Clean(D)
    BY <2>10, CellsFinite DEF Clean
  <2>13. \A s : s \in RefSlots(D) <=> s \in RefSlots(F)
    <3>1. ASSUME NEW s, s \in RefSlots(F)
          PROVE  s \in RefSlots(D)
      <4>1. Place(F, s) /\ IsRef(At(F, s)) /\ F[s[1]].live  BY <3>1, <2>9, SlotFacts
      <4>2. D[s[1]] = F[s[1]]  BY <4>1, <2>10 DEF Place
      <4>3. Place(D, s) /\ IsRef(At(D, s))  BY <4>1, <4>2 DEF Place, At
      <4> QED BY <4>3, <2>11, SlotFacts
    <3>2. ASSUME NEW s, s \in RefSlots(D)
          PROVE  s \in RefSlots(F)
      <4>1. Place(D, s) /\ IsRef(At(D, s))  BY <3>2, <2>11, SlotFacts
      <4>2. s[1] \in AllCells /\ s[2] \in DOMAIN D[s[1]].elems  BY <4>1 DEF Place
      <4>3. F[s[1]].live  BY <4>2, <2>10, NewCellFacts
      <4>4. D[s[1]] = F[s[1]]  BY <4>2, <4>3, <2>10
      <4>5. Place(F, s) /\ IsRef(At(F, s))  BY <4>1, <4>4 DEF Place, At
      <4> QED BY <4>5, <2>9, SlotFacts
    <3> QED BY <3>1, <3>2
  <2>14. \A s \in RefSlots(F) : At(D, s) = At(F, s)
    <3>1. \A s \in RefSlots(F) : s[1] \in AllCells  BY <2>9, SlotFacts DEF Place
    <3> QED BY <3>1, <2>9, <2>10 DEF At
  <2>15. \A c : Referrers(D, c) = Referrers(F, c) /\ Count(D, c) = Count(F, c)
    <3>1. \A c, s : s \in Referrers(D, c) <=> s \in Referrers(F, c)
      BY <2>13, <2>14 DEF Referrers
    <3>2. \A c : Referrers(D, c) = Referrers(F, c)  BY <3>1
    <3> QED BY <3>2 DEF Count
  <2>16. Exact(D, g)
    <3> SUFFICES ASSUME NEW c \in Cells
                 PROVE  D[c].refcount = Count(D, c) + One(c, g) /\ (D[c].live <=> D[c].refcount > 0)
      BY DEF Exact
    <3>1. F[c].refcount = Count(F, c) + One(c, g) /\ (F[c].live <=> F[c].refcount > 0)
      BY <2>9 DEF Exact
    <3>2. c \in AllCells  BY CellsFinite
    <3>3. CASE F[c].live  BY <3>1, <3>2, <3>3, <2>10, <2>15
    <3>4. CASE ~F[c].live
      <4>1. F[c] \in CellType  BY <3>2, <2>9 DEF Shape
      <4>2. F[c].refcount \in Nat  BY <4>1, CellFacts
      <4>3. F[c].refcount = 0  BY <4>2, <3>1, <3>4
      <4>4. D[c].refcount = 0 /\ ~D[c].live  BY <3>2, <3>4, <2>10, NewCellFacts
      <4> QED BY <4>3, <4>4, <3>1, <2>15
    <3> QED BY <3>3, <3>4
  <2>17. Remains(H, D, x)
    <3>1. \A c \in AllCells : D[c].live => F[c].live  BY <2>10, NewCellFacts
    <3> QED BY <3>1, <2>9, <2>10 DEF Remains
  <2>18. Place(D, x) /\ ~IsRef(At(D, x))
    <3>1. x[1] \in AllCells /\ F[x[1]].live  BY <2>9 DEF Supported
    <3>2. D[x[1]] = F[x[1]]  BY <3>1, <2>10
    <3> QED BY <3>2, <2>9, HandleFacts DEF Place, At
  <2>19. Stays(H, D, x, C)
    <3>1. C \subseteq AllCells  BY DEF Supported
    <3>2. \A c \in C : D[c].live  BY <3>1, <2>9, <2>10
    <3> QED BY <3>1, <3>2, <2>17, RemainsStays
  <2>20. Dense(D)  BY <2>1, <2>11, <2>12, <2>16, <2>17, <2>18, RemainsRefs
  <2> QED BY <2>11, <2>12, <2>16, <2>17, <2>18, <2>19, <2>20 DEF Sound, D
<1> QED BY <1>1, <1>2

-----------------------------------------------------------------------------
(* Free cells: an operation is given those it may need, MaxCells being the *)
(* bound on the cells in use and three more.                               *)

Room(H, n) == n <= Cardinality({c \in Cells : ~H[c].live})

LEMMA FreeFinite ==
  ASSUME NEW H
  PROVE  /\ IsFiniteSet({c \in Cells : ~H[c].live})
         /\ Cardinality({c \in Cells : ~H[c].live}) \in Nat
<1>1. {c \in Cells : ~H[c].live} \subseteq Cells  OBVIOUS
<1> QED BY <1>1, CellsFinite, FS_Subset, FS_CardinalityType

LEMMA RoomFresh ==
  ASSUME NEW H, NEW n \in Nat, Room(H, n + 1)
  PROVE  Fresh(H) \in Cells /\ Fresh(H) \in AllCells /\ ~H[Fresh(H)].live
<1> DEFINE Free == {c \in Cells : ~H[c].live}
<1>1. IsFiniteSet(Free) /\ Cardinality(Free) \in Nat  BY FreeFinite
<1>2. n + 1 <= Cardinality(Free)  BY DEF Room
<1>3. Free \subseteq Nat  BY CellsFinite
<1>4. \E c \in Free : \A d \in Free : c <= d
  <2> HIDE DEF Free
  <2>1. Cardinality(Free) # 0  BY <1>1, <1>2
  <2>2. Free # {}  BY <2>1, <1>1, FS_EmptySet
  <2> QED BY <1>3, <2>2, LeastNumber
<1>5. \E c \in Cells : ~H[c].live /\ \A d \in Cells : ~H[d].live => c <= d
  BY <1>4
<1>6. Fresh(H) \in Cells /\ ~H[Fresh(H)].live  BY <1>5 DEF Fresh
<1> QED BY <1>6, CellsFinite

(* One cell taken, and none taken.                                         *)
LEMMA RoomTaken ==
  ASSUME NEW H, NEW R, NEW c, NEW n \in Nat,
         \A d \in Cells : R[d].live => H[d].live \/ d = c, Room(H, n + 1)
  PROVE  Room(R, n)
<1> DEFINE Free == {d \in Cells : ~H[d].live}
           FreeR == {d \in Cells : ~R[d].live}
<1>1. IsFiniteSet(Free) /\ Cardinality(Free) \in Nat /\ IsFiniteSet(FreeR) /\ Cardinality(FreeR) \in Nat
  BY FreeFinite
<1>2. Free \ {c} \subseteq FreeR  OBVIOUS
<1>3. n + 1 <= Cardinality(Free)  BY DEF Room
<1> HIDE DEF Free, FreeR
<1>4. /\ IsFiniteSet(Free \ {c})
      /\ Cardinality(Free \ {c}) = IF c \in Free THEN Cardinality(Free) - 1 ELSE Cardinality(Free)
  BY <1>1, FS_RemoveElement
<1>5. Cardinality(Free \ {c}) <= Cardinality(FreeR)  BY <1>1, <1>2, FS_Subset
<1>6. n <= Cardinality(FreeR)  BY <1>1, <1>3, <1>4, <1>5
<1> QED BY <1>6 DEF Room, FreeR

LEMMA RoomKept ==
  ASSUME NEW H, NEW R, NEW n \in Nat, \A d \in Cells : R[d].live => H[d].live, Room(H, n)
  PROVE  Room(R, n)
<1> DEFINE Free == {d \in Cells : ~H[d].live}
           FreeR == {d \in Cells : ~R[d].live}
<1>1. IsFiniteSet(Free) /\ Cardinality(Free) \in Nat /\ IsFiniteSet(FreeR) /\ Cardinality(FreeR) \in Nat
  BY FreeFinite
<1>2. Free \subseteq FreeR  OBVIOUS
<1>3. n <= Cardinality(Free)  BY DEF Room
<1> HIDE DEF Free, FreeR
<1>4. Cardinality(Free) <= Cardinality(FreeR)  BY <1>1, <1>2, FS_Subset
<1>5. n <= Cardinality(FreeR)  BY <1>1, <1>3, <1>4
<1> QED BY <1>5 DEF Room, FreeR

LEMMA RemainsRoom ==
  ASSUME NEW H, NEW D, NEW x, Remains(H, D, x)
  PROVE  \A n \in Nat : Room(H, n) => Room(D, n)
<1>1. \A d \in Cells : D[d].live => H[d].live  BY CellsFinite DEF Remains
<1> QED BY <1>1, RoomKept

-----------------------------------------------------------------------------
(* A place that holds no reference takes a handle: the counter of its cell *)
(* has been raised for it.                                                 *)

LEMMA Storing ==
  ASSUME NEW G, NEW g, NEW x, NEW h \in Handle, Sound(G, g), Place(G, x), ~IsRef(At(G, x)),
         Boxed(G, h), g = IF IsRef(h) THEN h.p ELSE Frame
  PROVE  Sound(SetAt(G, x, h), Frame)
<1> DEFINE R == SetAt(G, x, h)
<1>1. Shape(G) /\ Clean(G) /\ Exact(G, g) /\ Dense(G)  BY DEF Sound
<1>2. /\ Shape(R)
      /\ \A d \in AllCells : /\ R[d].live = G[d].live /\ R[d].refcount = G[d].refcount
                             /\ DOMAIN R[d].elems = DOMAIN G[d].elems
      /\ \A d \in AllCells : d # x[1] => R[d] = G[d]
      /\ At(R, x) = h /\ \A s : Place(G, s) /\ s # x => At(R, s) = At(G, s)
      /\ \A s : Place(R, s) <=> Place(G, s)
  BY <1>1, StoredFacts
<1>3. \A c : Count(R, c) = Count(G, c) - Bit(Refers(At(G, x), c)) + Bit(Refers(h, c))
  BY <1>1, StoredCount
<1> HIDE DEF R
<1>4. Clean(R)
  <2>1. G[x[1]].live  BY <1>1, PlaceLive
  <2> QED BY <1>1, <1>2, <2>1, CellsFinite DEF Clean
<1>5. Exact(R, Frame)
  <2> SUFFICES ASSUME NEW c \in Cells
               PROVE  R[c].refcount = Count(R, c) + One(c, Frame) /\ (R[c].live <=> R[c].refcount > 0)
    BY DEF Exact
  <2>1. c \in AllCells /\ c # Frame  BY CellsFinite
  <2>2. G[c].refcount = Count(G, c) + One(c, g) /\ (G[c].live <=> G[c].refcount > 0)
    BY <1>1 DEF Exact
  <2>3. Bit(Refers(At(G, x), c)) = 0 /\ Bit(Refers(h, c)) = One(c, g) /\ One(c, Frame) = 0
    BY <2>1 DEF Bit, Refers, One
  <2>4. Count(G, c) \in Nat /\ One(c, g) \in Nat  BY <1>1, SlotFacts DEF One
  <2>5. Count(R, c) = Count(G, c) + One(c, g)  BY <1>3, <2>3, <2>4
  <2>6. R[c].refcount = G[c].refcount /\ R[c].live = G[c].live  BY <1>2, <2>1
  <2> QED BY <2>2, <2>3, <2>4, <2>5, <2>6
<1>6. Dense(R)
  <2> SUFFICES ASSUME NEW s \in RefSlots(R)  PROVE Boxed(R, At(R, s))
    BY <1>2, DenseFacts
  <2>1. Place(G, s) /\ IsRef(At(R, s)) /\ At(R, s).p \in AllCells  BY <1>2, SlotFacts, CellsFinite
  <2>2. Boxed(G, At(R, s))
    <3>1. CASE s = x  BY <3>1, <1>2
    <3>2. CASE s # x
      <4>1. At(R, s) = At(G, s)  BY <3>2, <1>2, <2>1
      <4>2. s \in RefSlots(G)  BY <4>1, <2>1, <1>1, SlotFacts
      <4> QED BY <4>1, <4>2, <1>1, DenseFacts
    <3> QED BY <3>1, <3>2
  <2>3. DOMAIN R[At(R, s).p].elems = DOMAIN G[At(R, s).p].elems  BY <2>1, <1>2
  <2> QED BY <2>2, <2>3 DEF Boxed
<1> QED BY <1>2, <1>4, <1>5, <1>6 DEF Sound, R

(* What the place holds, and the rest, after it.                           *)
LEMMA StoredStays ==
  ASSUME NEW G, NEW x, NEW h \in Handle, NEW C, Shape(G), Place(G, x),
         C \subseteq AllCells, \A c \in C : G[c].live
  PROVE  /\ Place(SetAt(G, x, h), x) /\ At(SetAt(G, x, h), x) = h
         /\ Stays(G, SetAt(G, x, h), x, C)
         /\ \A n \in Nat : Room(G, n) => Room(SetAt(G, x, h), n)
         /\ \A d \in AllCells : d # x[1] => SetAt(G, x, h)[d] = G[d]
<1> DEFINE R == SetAt(G, x, h)
<1>1. /\ Shape(R)
      /\ \A d \in AllCells : R[d].live = G[d].live /\ DOMAIN R[d].elems = DOMAIN G[d].elems
      /\ \A d \in AllCells : d # x[1] => R[d] = G[d]
      /\ At(R, x) = h /\ \A s : Place(G, s) /\ s # x => At(R, s) = At(G, s)
      /\ \A s : Place(R, s) <=> Place(G, s)
  BY StoredFacts
<1> HIDE DEF R
<1>2. ASSUME NEW c \in C, NEW k \in DOMAIN G[c].elems, <<c, k>> # x
      PROVE  k \in DOMAIN R[c].elems /\ R[c].elems[k] = G[c].elems[k]
  <2>1. c \in AllCells /\ G[c] \in CellType  BY DEF Shape
  <2>2. k \in AllKeys  BY <2>1, CellFacts
  <2>3. Place(G, <<c, k>>)  BY <2>1, <2>2 DEF Place
  <2> QED BY <1>1, <1>2, <2>1, <2>3 DEF At
<1>3. Stays(G, R, x, C)  BY <1>1, <1>2 DEF Stays
<1>4. \A n \in Nat : Room(G, n) => Room(R, n)
  <2>1. \A d \in Cells : R[d].live => G[d].live  BY <1>1, CellsFinite
  <2> QED BY <2>1, RoomKept
<1> QED BY <1>1, <1>3, <1>4 DEF R

LEMMA ReplacingScalar ==
  ASSUME NEW H, NEW x, NEW C, NEW h \in Handle, Sound(H, Frame), Place(H, x), Supported(H, x, C),
         x[1] \in C, ~IsRef(h)
  PROVE  /\ Sound(ReplacedScalar(H, x, h), Frame)
         /\ Place(ReplacedScalar(H, x, h), x) /\ At(ReplacedScalar(H, x, h), x) = h
         /\ Stays(H, ReplacedScalar(H, x, h), x, C)
<1> DEFINE D == Destroyed(H, x)
<1>1. Sound(D, Frame) /\ Place(D, x) /\ ~IsRef(At(D, x)) /\ Stays(H, D, x, C)
  BY CellsFinite, Destroying
<1>2. ReplacedScalar(H, x, h) = SetAt(D, x, h)  BY DEF ReplacedScalar
<1> HIDE DEF D
<1>3. Boxed(D, h)  BY DEF Boxed, IsRef, RefTypes
<1>4. Sound(SetAt(D, x, h), Frame)  BY <1>1, <1>3, Storing
<1>5. C \subseteq AllCells /\ \A c \in C : D[c].live  BY <1>1 DEF Supported, Stays
<1>6. Place(SetAt(D, x, h), x) /\ At(SetAt(D, x, h), x) = h /\ Stays(D, SetAt(D, x, h), x, C)
  <2>1. Shape(D)  BY <1>1 DEF Sound
  <2> QED BY <1>1, <1>5, <2>1, StoredStays
<1>7. Stays(H, SetAt(D, x, h), x, C)  BY <1>1, <1>6, StaysOn
<1> QED BY <1>2, <1>4, <1>6, <1>7

(* A cell made for the place has that one handle.                          *)
LEMMA ReplacingNew ==
  ASSUME NEW H, NEW x, NEW C, NEW type \in RefTypes, NEW n \in Nat, NEW m \in Nat,
         Sound(H, Frame), Place(H, x), Supported(H, x, C), x[1] \in C, Room(H, m + 1),
         NEW R, R = ReplacedNew(H, x, type, NewCell(n, NoElems))
  PROVE  /\ Sound(R, Frame) /\ Place(R, x)
         /\ At(R, x).t = type /\ IsRef(At(R, x)) /\ At(R, x).p \in Cells
         /\ R[At(R, x).p].refcount = 1 /\ R[At(R, x).p].elems = NoElems
         /\ Stays(H, R, x, C) /\ Room(R, m)
<1> DEFINE D == Destroyed(H, x)
           c == Fresh(D)
           cell == NewCell(n, NoElems)
           G == WithCell(D, c, cell)
           h == [t |-> type, p |-> c]
<1>1. /\ Sound(D, Frame) /\ Place(D, x) /\ ~IsRef(At(D, x)) /\ Remains(H, D, x)
      /\ Stays(H, D, x, C)
  BY CellsFinite, Destroying
<1>2. R = SetAt(G, x, h)  BY DEF ReplacedNew, Made
<1>3. Shape(D) /\ Clean(D) /\ Exact(D, Frame) /\ Dense(D)  BY <1>1 DEF Sound
<1> HIDE DEF D
<1>4. m + 1 \in Nat /\ Room(D, m + 1)
  <2>1. m + 1 \in Nat  OBVIOUS
  <2> QED BY <2>1, <1>1, RemainsRoom
<1>5. c \in Cells /\ c \in AllCells /\ ~D[c].live /\ c # Frame  BY <1>4, RoomFresh, CellsFinite
<1> HIDE DEF c
<1>6. D[c] = FreeCell  BY <1>3, <1>5 DEF Clean
<1>7. cell \in CellType /\ cell.live /\ cell.refcount = 1 /\ cell.elems = NoElems
  BY NewCellFacts DEF NewCell
<1> HIDE DEF cell
<1>8. D \in [AllCells -> CellType]  BY <1>3 DEF Shape
<1>9. /\ G \in [AllCells -> CellType] /\ G[c] = cell
      /\ \A d \in AllCells : d # c => G[d] = D[d]
  BY <1>5, <1>7, <1>8, CellPut
<1> HIDE DEF G
<1>10. Shape(G)  BY <1>3, <1>5, <1>9, CellsFinite DEF Shape
<1>11. SameElems(D, G)  BY <1>6, <1>7, <1>9, NewCellFacts DEF SameElems
<1>12. /\ RefSlots(G) = RefSlots(D) /\ \A s : Place(G, s) <=> Place(D, s)
       /\ \A s : Place(D, s) => At(G, s) = At(D, s)
       /\ \A d : Count(G, d) = Count(D, d)
  BY <1>11, SameReferrers
<1>13. Clean(G)  BY <1>3, <1>7, <1>9, CellsFinite DEF Clean
<1>14. Exact(G, c)
  <2> SUFFICES ASSUME NEW d \in Cells
               PROVE  G[d].refcount = Count(G, d) + One(d, c) /\ (G[d].live <=> G[d].refcount > 0)
    BY DEF Exact
  <2>1. D[d].refcount = Count(D, d) + One(d, Frame) /\ (D[d].live <=> D[d].refcount > 0)
    BY <1>3 DEF Exact
  <2>2. One(d, Frame) = 0 /\ d \in AllCells /\ Count(D, d) \in Nat
    BY <1>3, CellsFinite, SlotFacts DEF One
  <2>3. CASE d = c
    <3>1. Count(D, c) = 0  BY <2>1, <2>2, <2>3, <1>6, NewCellFacts
    <3>2. One(d, c) = 1  BY <2>3 DEF One
    <3> QED BY <3>1, <3>2, <2>3, <1>7, <1>9, <1>12
  <2>4. CASE d # c
    <3>1. One(d, c) = 0  BY <2>4 DEF One
    <3> QED BY <3>1, <2>1, <2>2, <2>4, <1>9, <1>12
  <2> QED BY <2>3, <2>4
<1>15. Dense(G)
  <2> SUFFICES ASSUME NEW s \in RefSlots(G)  PROVE Boxed(G, At(G, s))
    BY <1>10, DenseFacts
  <2>1. s \in RefSlots(D) /\ Place(D, s) /\ At(G, s) = At(D, s)  BY <1>3, <1>12, SlotFacts
  <2>2. Boxed(D, At(D, s))  BY <2>1, <1>3, DenseFacts
  <2>3. At(D, s).p \in AllCells  BY <2>1, <1>3, SlotFacts, CellsFinite
  <2> QED BY <2>1, <2>2, <2>3, <1>11 DEF Boxed, SameElems
<1>16. Sound(G, c)  BY <1>10, <1>13, <1>14, <1>15 DEF Sound
<1>17. h \in Handle /\ IsRef(h) /\ h.p = c /\ h.t = type  BY <1>5, HandleFacts
<1> HIDE DEF h
<1>18. Boxed(G, h)
  <2>1. DOMAIN G[c].elems = 0 .. 0 - 1  BY <1>7, <1>9, NewCellFacts
  <2>2. 0 \in 0 .. MaxLen  BY BoundsAssumption
  <2> QED BY <2>1, <2>2, <1>17 DEF Boxed
<1>19. Place(G, x) /\ ~IsRef(At(G, x))  BY <1>1, <1>12
<1>20. Sound(R, Frame)  BY <1>2, <1>16, <1>17, <1>18, <1>19, Storing
<1>21. C \subseteq AllCells /\ \A d \in C : D[d].live /\ d # c /\ G[d].live
  BY <1>1, <1>5, <1>9 DEF Supported, Stays
<1>22. Stays(D, G, x, C)  BY <1>9, <1>21 DEF Stays
<1>23. /\ Place(R, x) /\ At(R, x) = h /\ Stays(G, R, x, C)
       /\ \A i \in Nat : Room(G, i) => Room(R, i)
       /\ \A d \in AllCells : d # x[1] => R[d] = G[d]
  BY <1>2, <1>10, <1>17, <1>19, <1>21, StoredStays
<1>24. Stays(H, R, x, C)
  <2>1. Stays(H, G, x, C)  BY <1>1, <1>22, StaysOn
  <2> QED BY <2>1, <1>23, StaysOn
<1>25. Room(R, m)
  <2>1. \A d \in Cells : G[d].live => D[d].live \/ d = c  BY <1>9, CellsFinite
  <2>2. Room(G, m)  BY <2>1, <1>4, RoomTaken
  <2> QED BY <2>2, <1>23
<1>26. R[c] = cell
  <2>1. c # x[1]  BY <1>21
  <2> QED BY <2>1, <1>5, <1>9, <1>23
<1> QED BY <1>5, <1>7, <1>17, <1>20, <1>23, <1>24, <1>25, <1>26

-----------------------------------------------------------------------------
(* Unshare: the copy has the one handle it was made for, and every element *)
(* copied is counted.                                                      *)

LEMMA Unsharing ==
  ASSUME NEW H, NEW x, NEW C, NEW m \in Nat, Sound(H, Frame), Place(H, x), IsRef(At(H, x)),
         C \subseteq AllCells, \A d \in C : H[d].live, x[1] \in C, Room(H, m + 1),
         NEW R, R = Unshared(H, x)
  PROVE  /\ Sound(R, Frame) /\ Place(R, x)
         /\ At(R, x).t = At(H, x).t /\ IsRef(At(R, x)) /\ At(R, x).p \in Cells
         /\ R[At(R, x).p].refcount = 1
         /\ Stays(H, R, x, C) /\ Room(R, m)
<1> DEFINE h == At(H, x)
           b == h.p
           c == Fresh(H)
<1>1. Shape(H) /\ Clean(H) /\ Exact(H, Frame) /\ Dense(H)  BY DEF Sound
<1>2. h \in Handle /\ IsRef(h) /\ x \in RefSlots(H)  BY <1>1, SlotFacts
<1>3. b \in Cells /\ b \in AllCells /\ b # Frame /\ H[b].live /\ H[b].refcount = Count(H, b) /\ Count(H, b) \in Nat /\ Count(H, b) > 0
  <2>1. /\ At(H, x).p \in Cells /\ H[At(H, x).p].live
        /\ H[At(H, x).p].refcount = Count(H, At(H, x).p) + One(At(H, x).p, Frame)
        /\ Count(H, At(H, x).p) \in Nat /\ Count(H, At(H, x).p) > 0
    BY <1>1, <1>2, ReferredLive
  <2>2. At(H, x).p # Frame /\ At(H, x).p \in AllCells  BY <2>1, CellsFinite
  <2> QED BY <2>1, <2>2 DEF One
<1>4. c \in Cells /\ c \in AllCells /\ c # Frame /\ ~H[c].live /\ c # b
  BY <1>3, RoomFresh, CellsFinite
<1>5. CASE H[b].refcount = 1
  <2>1. R = H  BY <1>5 DEF Unshared
  <2>2. Stays(H, H, x, C)  BY DEF Stays
  <2>3. Room(H, m)
    <3>1. \A d \in Cells : H[d].live => H[d].live \/ d = c  OBVIOUS
    <3> HIDE DEF c
    <3> QED BY <3>1, RoomTaken
  <2> QED BY <1>2, <1>3, <1>5, <2>1, <2>2, <2>3
<1>6. CASE H[b].refcount # 1
  <2> DEFINE G0 == Counted(H, b, -1)
             copy == [H[b] EXCEPT !.refcount = 1]
             G1 == WithCell(G0, c, copy)
             h2 == [h EXCEPT !.p = c]
             G2 == SetAt(G1, x, h2)
             Mine(d) == {s \in SlotsOf(G1, c) : At(G1, s).p = d}
  <2>1. R = AllRetained(G2, c)  BY <1>6 DEF Unshared, OwnCopy
  <2> HIDE DEF c
  <2>2. H[c] = FreeCell /\ Count(H, c) = 0 /\ Referrers(H, c) = {}
    <3>1. H[c] = FreeCell  BY <1>1, <1>4 DEF Clean
    <3>2. H[c].refcount = Count(H, c) + One(c, Frame) /\ One(c, Frame) = 0 /\ Count(H, c) \in Nat
      BY <1>1, <1>4, SlotFacts DEF Exact, One
    <3>3. Count(H, c) = 0  BY <3>1, <3>2, NewCellFacts
    <3> QED BY <3>1, <3>3, <1>1, SlotFacts
  <2>3. /\ Shape(G0) /\ SameElems(H, G0)
        /\ \A d \in AllCells : d # b => G0[d] = H[d]
        /\ G0[b].refcount = H[b].refcount - 1
        /\ G0[b].live = H[b].live
    <3>1. PICK n \in Int : n = -1  OBVIOUS
    <3>2. H[b].refcount + n \in Nat /\ H[b].refcount + n = H[b].refcount - 1  BY <1>3, <3>1
    <3>3. G0 = Counted(H, b, n)  BY <3>1
    <3> HIDE DEF b, G0
    <3>4. Shape(H) /\ b \in Cells /\ H[b].refcount + n \in Nat  BY <1>1, <1>3, <3>2
    <3>5. /\ Shape(Counted(H, b, n)) /\ SameElems(H, Counted(H, b, n))
          /\ \A d \in AllCells : d # b => Counted(H, b, n)[d] = H[d]
          /\ Counted(H, b, n)[b].refcount = H[b].refcount + n
          /\ Counted(H, b, n)[b].live = H[b].live
      BY <3>4, CountedFacts
    <3> QED BY <3>2, <3>3, <3>5
  <2>4. copy \in CellType /\ copy.refcount = 1 /\ copy.elems = H[b].elems /\ copy.live
    <3>1. H[b] \in CellType  BY <1>1, <1>3 DEF Shape
    <3>2. copy \in CellType  BY <3>1, CellFacts
    <3> QED BY <3>1, <3>2, <1>3 DEF CellType
  <2> HIDE DEF G0, copy
  <2>5. /\ G1 \in [AllCells -> CellType] /\ G1[c] = copy
        /\ \A d \in AllCells : d # c => G1[d] = G0[d]
    <3>1. G0 \in [AllCells -> CellType]  BY <2>3 DEF Shape
    <3> QED BY <3>1, <2>4, <1>4, CellPut
  <2> HIDE DEF G1
  <2>6. Shape(G1)  BY <2>3, <2>5, <1>4, CellsFinite DEF Shape
  <2>7. \A d \in AllCells : d # c => G1[d].elems = H[d].elems
    BY <2>3, <2>5 DEF SameElems
  <2>8. \A s : s \in SlotsOf(G1, c) <=> Place(G1, s) /\ IsRef(At(G1, s)) /\ s[1] = c
    BY <2>6, <1>4, SlotFacts
  <2>9. ASSUME NEW s, s \in SlotsOf(G1, c)
        PROVE  <<b, s[2]>> \in RefSlots(H) /\ At(H, <<b, s[2]>>) = At(G1, s)
    <3>1. Place(G1, s) /\ IsRef(At(G1, s)) /\ s[1] = c  BY <2>8, <2>9, ZenonT(30)
    <3>2. s[2] \in DOMAIN H[b].elems /\ s[2] \in AllKeys /\ At(G1, s) = H[b].elems[s[2]]
      BY <3>1, <2>4, <2>5 DEF Place, At
    <3> HIDE DEF b
    <3>3. Place(H, <<b, s[2]>>)
      BY <3>2, <1>3 DEF Place
    <3>4. At(H, <<b, s[2]>>) = At(G1, s)
      BY <3>2 DEF At
    <3> QED BY <3>1, <3>3, <3>4, <1>1, SlotFacts
  <2>10. \A d : Mine(d) # {} => Referrers(H, d) # {} /\ Count(H, d) # 0
    <3> SUFFICES ASSUME NEW d, NEW s, s \in Mine(d)  PROVE Referrers(H, d) # {} /\ Count(H, d) # 0
      OBVIOUS
    <3>1. <<b, s[2]>> \in Referrers(H, d)  BY <2>9 DEF Referrers
    <3> QED BY <3>1, <1>1, SlotFacts
  <2>11. \A d : /\ Referrers(G1, d) = Referrers(H, d) \cup Mine(d)
                /\ Referrers(H, d) \cap Mine(d) = {}
    <3>1. ASSUME NEW d, NEW s, s \in Referrers(G1, d)
          PROVE  s \in Referrers(H, d) \cup Mine(d)
      <4>1. Place(G1, s) /\ IsRef(At(G1, s)) /\ At(G1, s).p = d  BY <3>1, <2>6, SlotFacts DEF Refers
      <4>2. CASE s[1] = c  BY <4>1, <4>2, <2>8
      <4>3. CASE s[1] # c
        <5>1. Place(H, s) /\ At(H, s) = At(G1, s)  BY <4>1, <4>3, <2>7 DEF Place, At
        <5> QED BY <4>1, <5>1, <1>1, SlotFacts DEF Refers
      <4> QED BY <4>2, <4>3
    <3>2. ASSUME NEW d, NEW s, s \in Referrers(H, d)
          PROVE  s \in Referrers(G1, d) /\ s \notin Mine(d)
      <4>1. Place(H, s) /\ Refers(At(H, s), d)  BY <3>2, <1>1, SlotFacts
      <4>2. s[1] # c  BY <4>1, <1>1, <1>4, PlaceLive
      <4>3. Place(G1, s) /\ At(H, s) = At(G1, s)  BY <4>1, <4>2, <2>7 DEF Place, At
      <4> QED BY <4>1, <4>2, <4>3, <2>6, <2>8, SlotFacts
    <3>3. ASSUME NEW d, NEW s, s \in Mine(d)
          PROVE  s \in Referrers(G1, d)
      <4>1. Place(G1, s) /\ Refers(At(G1, s), d)  BY <3>3, <2>8 DEF Refers
      <4> QED BY <4>1, <2>6, SlotFacts
    <3> HIDE DEF Mine
    <3> QED BY <3>1, <3>2, <3>3
  <2>12. \A d : /\ IsFiniteSet(Mine(d)) /\ Cardinality(Mine(d)) \in Nat
                /\ Count(G1, d) = Count(H, d) + Cardinality(Mine(d))
    <3> SUFFICES ASSUME NEW d
                 PROVE  /\ IsFiniteSet(Mine(d)) /\ Cardinality(Mine(d)) \in Nat
                        /\ Count(G1, d) = Count(H, d) + Cardinality(Mine(d))
      OBVIOUS
    <3> HIDE DEF Mine
    <3>1. IsFiniteSet(Referrers(G1, d)) /\ IsFiniteSet(Referrers(H, d))  BY <1>1, <2>6, SlotFacts
    <3>2. Mine(d) \subseteq Referrers(G1, d)  BY <2>11
    <3>3. IsFiniteSet(Mine(d))  BY <3>1, <3>2, FS_Subset
    <3>4. Referrers(H, d) \cap Mine(d) = {} /\ Referrers(G1, d) = Referrers(H, d) \cup Mine(d)  BY <2>11
    <3>5. Cardinality(Referrers(H, d) \cup Mine(d)) =
             Cardinality(Referrers(H, d)) + Cardinality(Mine(d)) - Cardinality(Referrers(H, d) \cap Mine(d))
      BY <3>1, <3>3, FS_Union
    <3>6. Cardinality(Referrers(H, d) \cap Mine(d)) = 0  BY <3>4, FS_EmptySet
    <3>7. Cardinality(Mine(d)) \in Nat /\ Cardinality(Referrers(H, d)) \in Nat  BY <3>1, <3>3, FS_CardinalityType
    <3> QED BY <3>3, <3>4, <3>5, <3>6, <3>7 DEF Count
  <2>13. Place(G1, x) /\ At(G1, x) = h /\ x[1] # c
    <3>1. x[1] # c  BY <1>1, <1>4, PlaceLive
    <3> QED BY <3>1, <2>7 DEF Place, At
  <2>14. h2 \in Handle /\ IsRef(h2) /\ h2.t = h.t /\ h2.p = c
    <3>1. h2 = [t |-> h.t, p |-> c] /\ h.t \in RefTypes  BY <1>2 DEF Handle, IsRef
    <3> QED BY <3>1, <1>4, HandleFacts
  <2> HIDE DEF h, h2, Mine
  <2>15. /\ Shape(G2)
         /\ \A d \in AllCells : /\ G2[d].live = G1[d].live /\ G2[d].refcount = G1[d].refcount
                                /\ DOMAIN G2[d].elems = DOMAIN G1[d].elems
         /\ \A d \in AllCells : d # x[1] => G2[d] = G1[d]
         /\ \A s : Place(G2, s) <=> Place(G1, s)
         /\ At(G2, x) = h2 /\ \A s : Place(G1, s) /\ s # x => At(G2, s) = At(G1, s)
    BY <2>6, <2>13, <2>14, StoredFacts
  <2>16. \A d : Count(G2, d) = Count(G1, d) - Bit(Refers(h, d)) + Bit(Refers(h2, d))
    BY <2>6, <2>13, <2>14, StoredCount
  <2> HIDE DEF G2
  <2>17. \A d : {s \in SlotsOf(G2, c) : At(G2, s).p = d} = Mine(d)
    <3>1. G2[c] = G1[c]  BY <1>4, <2>13, <2>15
    <3>2. SlotsOf(G2, c) = SlotsOf(G1, c)  BY <3>1 DEF SlotsOf
    <3>3. \A s \in SlotsOf(G1, c) : At(G2, s) = At(G1, s)  BY <2>8, <3>1 DEF At
    <3> QED BY <3>2, <3>3 DEF Mine
  <2>18. /\ R \in [AllCells -> CellType]
         /\ \A d \in AllCells : /\ R[d].refcount = G2[d].refcount + Cardinality(Mine(d))
                                /\ R[d].live = G2[d].live /\ R[d].elems = G2[d].elems
                                /\ R[d].str = G2[d].str
    <3>1. R = [d \in AllCells |-> [G2[d] EXCEPT !.refcount = @ + Cardinality(Mine(d))]]
      BY <2>1, <2>17 DEF AllRetained
    <3>2. ASSUME NEW d \in AllCells
          PROVE  /\ [G2[d] EXCEPT !.refcount = @ + Cardinality(Mine(d))] \in CellType
                 /\ [G2[d] EXCEPT !.refcount = @ + Cardinality(Mine(d))].refcount = G2[d].refcount + Cardinality(Mine(d))
                 /\ [G2[d] EXCEPT !.refcount = @ + Cardinality(Mine(d))].live = G2[d].live
                 /\ [G2[d] EXCEPT !.refcount = @ + Cardinality(Mine(d))].elems = G2[d].elems
                 /\ [G2[d] EXCEPT !.refcount = @ + Cardinality(Mine(d))].str = G2[d].str
      <4>1. G2[d] \in CellType  BY <2>15 DEF Shape
      <4>2. G2[d].refcount + Cardinality(Mine(d)) \in Nat  BY <4>1, <2>12, CellFacts
      <4>3. [G2[d] EXCEPT !.refcount = @ + Cardinality(Mine(d))] \in CellType  BY <4>1, <4>2, CellFacts
      <4> QED BY <4>1, <4>3 DEF CellType
    <3> QED BY <3>1, <3>2
  <2>19. Shape(R) /\ SameElems(G2, R)
    BY <2>15, <2>18, CellsFinite DEF Shape, SameElems
  <2>20. /\ RefSlots(R) = RefSlots(G2) /\ \A s : Place(R, s) <=> Place(G2, s)
         /\ \A s : Place(G2, s) => At(R, s) = At(G2, s)
         /\ \A d : Count(R, d) = Count(G2, d)
    BY <2>19, SameReferrers
  <2>21. \A d \in AllCells : R[d].live <=> H[d].live \/ d = c
    BY <2>3, <2>4, <2>5, <2>15, <2>18
  <2>22. \A d \in AllCells : d # c => DOMAIN R[d].elems = DOMAIN H[d].elems
    BY <2>7, <2>15, <2>18
  <2>23. DOMAIN R[c].elems = DOMAIN H[b].elems  BY <1>4, <2>4, <2>5, <2>15, <2>18
  <2>24. Mine(c) = {} /\ Cardinality(Mine(c)) = 0  BY <2>2, <2>10, FS_EmptySet
  <2>25. \A d : Bit(Refers(h, d)) = (IF d = b THEN 1 ELSE 0) /\ Bit(Refers(h2, d)) = IF d = c THEN 1 ELSE 0
    BY <1>2, <2>14 DEF Bit, Refers, h
  <2>26. R[c].refcount = 1
    <3>1. G2[c].refcount = 1  BY <1>4, <2>4, <2>5, <2>15
    <3>2. R[c].refcount = G2[c].refcount + Cardinality(Mine(c))  BY <1>4, <2>18
    <3> QED BY <3>1, <3>2, <2>24
  <2>27. Exact(R, Frame)
    <3> SUFFICES ASSUME NEW d \in Cells
                 PROVE  R[d].refcount = Count(R, d) + One(d, Frame) /\ (R[d].live <=> R[d].refcount > 0)
      BY DEF Exact
    <3>1. d \in AllCells /\ One(d, Frame) = 0  BY CellsFinite DEF One
    <3>2. H[d].refcount = Count(H, d) /\ (H[d].live <=> H[d].refcount > 0) /\ Count(H, d) \in Nat
      <4>1. H[d].refcount = Count(H, d) + One(d, Frame) /\ (H[d].live <=> H[d].refcount > 0)  BY <1>1 DEF Exact
      <4>2. Count(H, d) \in Nat  BY <1>1, SlotFacts
      <4> QED BY <4>1, <4>2, <3>1
    <3>3. Cardinality(Mine(d)) \in Nat /\ Count(G1, d) = Count(H, d) + Cardinality(Mine(d))  BY <2>12
    <3>4. Count(R, d) = Count(H, d) + Cardinality(Mine(d)) - (IF d = b THEN 1 ELSE 0) + (IF d = c THEN 1 ELSE 0)
      <4>1. Count(R, d) = Count(G1, d) - Bit(Refers(h, d)) + Bit(Refers(h2, d))  BY <2>16, <2>20
      <4>2. Bit(Refers(h, d)) = (IF d = b THEN 1 ELSE 0) /\ Bit(Refers(h2, d)) = IF d = c THEN 1 ELSE 0
        BY <2>25
      <4> QED BY <4>1, <4>2, <3>2, <3>3
    <3>5. R[d].refcount = G1[d].refcount + Cardinality(Mine(d))  BY <2>15, <2>18, <3>1
    <3>6. CASE d = c
      <4>1. Count(R, d) = 1  BY <3>4, <3>6, <1>4, <2>2, <2>24
      <4> QED BY <4>1, <3>1, <3>6, <2>21, <2>26
    <3>7. CASE d = b
      <4>1. G1[d].refcount = H[d].refcount - 1  BY <3>7, <3>1, <1>4, <2>3, <2>5
      <4>2. H[d].refcount > 1  BY <3>7, <1>3, <1>6
      <4>3. R[d].refcount = Count(R, d)
        <5>1. d # c  BY <3>7, <1>4
        <5>2. Count(R, d) = Count(H, d) + Cardinality(Mine(d)) - 1 + 0  BY <3>4, <3>7, <5>1
        <5>3. R[d].refcount = Count(H, d) - 1 + Cardinality(Mine(d))  BY <3>2, <3>5, <4>1
        <5> QED BY <3>2, <3>3, <5>2, <5>3
      <4>4. R[d].refcount > 0  BY <3>2, <3>3, <3>5, <4>1, <4>2
      <4>5. R[d].live  BY <3>7, <1>3, <2>21
      <4>6. Count(R, d) \in Nat  BY <2>19, SlotFacts
      <4> QED BY <3>1, <4>3, <4>4, <4>5, <4>6
    <3>8. CASE d # b /\ d # c
      <4>1. G1[d].refcount = H[d].refcount  BY <3>8, <3>1, <2>3, <2>5
      <4>2. R[d].refcount = H[d].refcount + Cardinality(Mine(d)) /\ R[d].refcount = Count(R, d)
        BY <3>2, <3>3, <3>4, <3>5, <3>8, <4>1
      <4>3. R[d].live <=> H[d].live  BY <3>8, <3>1, <2>21
      <4>4. Cardinality(Mine(d)) # 0 => H[d].refcount > 0
        <5>1. Cardinality(Mine(d)) # 0 => Mine(d) # {}  BY FS_EmptySet
        <5> QED BY <5>1, <2>10, <3>2
      <4> QED BY <3>1, <3>2, <3>3, <4>2, <4>3, <4>4
    <3> QED BY <3>6, <3>7, <3>8
  <2>28. Clean(R)
    <3> SUFFICES ASSUME NEW d \in Cells, ~R[d].live  PROVE R[d] = FreeCell
      BY DEF Clean
    <3>1. d \in AllCells /\ ~H[d].live /\ d # c /\ d # b  BY <2>21, <1>3, CellsFinite
    <3>2. H[d] = FreeCell  BY <3>1, <1>1 DEF Clean
    <3>3. H[x[1]].live  BY <1>1, PlaceLive
    <3>4. d # x[1]  BY <3>1, <3>3
    <3>5. G2[d] = FreeCell  BY <3>1, <3>2, <3>4, <2>3, <2>5, <2>15
    <3>6. Mine(d) = {}
      <4>1. H[d].refcount = Count(H, d) + One(d, Frame)  BY <1>1 DEF Exact
      <4>2. Count(H, d) \in Nat /\ One(d, Frame) \in Nat  BY <1>1, SlotFacts DEF One
      <4>3. Count(H, d) = 0  BY <4>1, <4>2, <3>2, NewCellFacts
      <4> QED BY <4>3, <2>10
    <3>7. Cardinality(Mine(d)) = 0  BY <3>6, FS_EmptySet
    <3>8. /\ R[d] \in CellType /\ R[d].refcount = FreeCell.refcount + 0
          /\ R[d].live = FreeCell.live /\ R[d].str = FreeCell.str /\ R[d].elems = FreeCell.elems
      BY <3>1, <3>5, <3>7, <2>18
    <3>9. R[d].refcount = FreeCell.refcount  BY <3>8, NewCellFacts
    <3> QED BY <3>8, <3>9, NewCellFacts, SameCell
  <2>29. Dense(R)
    <3> SUFFICES ASSUME NEW s \in RefSlots(R)  PROVE Boxed(R, At(R, s))
      BY <2>19, DenseFacts
    <3>1. Place(G1, s) /\ IsRef(At(R, s)) /\ At(R, s) = At(G2, s)
      BY <2>15, <2>19, <2>20, SlotFacts
    <3>2. CASE s = x
      <4>1. At(R, s) = h2  BY <3>1, <3>2, <2>15
      <4>2. Boxed(H, h)  BY <1>1, <1>2, DenseFacts DEF h
      <4> QED BY <4>1, <4>2, <2>14, <2>23 DEF Boxed
    <3>3. CASE s # x
      <4>1. At(R, s) = At(G1, s)  BY <3>1, <3>3, <2>15
      <4>2. \E z \in RefSlots(H) : At(H, z) = At(R, s)
        <5>1. CASE s[1] = c
          <6>1. s \in SlotsOf(G1, c)  BY <3>1, <4>1, <5>1, <2>8
          <6> QED BY <6>1, <4>1, <2>9
        <5>2. CASE s[1] # c
          <6>1. Place(H, s) /\ At(H, s) = At(G1, s)  BY <3>1, <5>2, <2>7 DEF Place, At
          <6>2. s \in RefSlots(H)  BY <6>1, <3>1, <4>1, <1>1, SlotFacts
          <6> QED BY <6>1, <6>2, <4>1
        <5> QED BY <5>1, <5>2
      <4>3. PICK z \in RefSlots(H) : At(H, z) = At(R, s)  BY <4>2
      <4>4. Boxed(H, At(R, s))  BY <4>3, <1>1, DenseFacts
      <4>5. At(R, s).p \in AllCells /\ At(R, s).p # c
        <5>1. At(H, z).p \in Cells  BY <1>1, SlotFacts
        <5>2. z \in Referrers(H, At(H, z).p)  BY DEF Referrers
        <5> QED BY <5>1, <5>2, <4>3, <2>2, CellsFinite
      <4>6. DOMAIN R[At(R, s).p].elems = DOMAIN H[At(R, s).p].elems  BY <4>5, <2>22
      <4> QED BY <4>4, <4>6 DEF Boxed
    <3> QED BY <3>2, <3>3
  <2>30. Sound(R, Frame)  BY <2>19, <2>27, <2>28, <2>29 DEF Sound
  <2>31. Place(R, x) /\ At(R, x) = h2  BY <2>13, <2>15, <2>20
  <2>32. Stays(H, R, x, C)
    <3>1. \A d \in C : d \in AllCells /\ d # c  BY <1>4
    <3>2. \A d \in C : G1[d].live  BY <3>1, <2>3, <2>5
    <3>3. Stays(H, G1, x, C)  BY <3>1, <3>2, <2>7 DEF Stays
    <3>4. Stays(G1, G2, x, C)  BY <2>6, <2>13, <2>14, <3>2, StoredStays DEF G2
    <3>5. Stays(G2, R, x, C)
      <4>1. \A d \in C : R[d].live /\ R[d].elems = G2[d].elems  BY <3>1, <2>18, <2>21
      <4> QED BY <4>1 DEF Stays
    <3> QED BY <3>3, <3>4, <3>5, StaysOn
  <2>33. Room(R, m)
    <3>1. \A d \in Cells : R[d].live => H[d].live \/ d = c  BY <2>21, CellsFinite
    <3> QED BY <3>1, RoomTaken
  <2> QED BY <1>4, <2>14, <2>26, <2>30, <2>31, <2>32, <2>33 DEF h
<1> QED BY <1>5, <1>6

-----------------------------------------------------------------------------
(* operator[] and the places a program can name. *)

(* Elements that are no references come and go without a count.            *)
SameRefs(H, c, D, f) ==
  /\ Elements(c, D, f)
  /\ \A k \in DOMAIN H[c].elems : IsRef(H[c].elems[k]) => k \in D /\ f[k] = H[c].elems[k]
  /\ \A k \in D : IsRef(f[k]) => k \in DOMAIN H[c].elems /\ f[k] = H[c].elems[k]
  /\ \A s \in Referrers(H, c) : At(H, s).t = "ARRAY" => \E n \in 0 .. MaxLen : D = 0 .. n - 1

Reshaped(H, R, c, D, f) ==
  /\ \A s : s \in RefSlots(R) <=> s \in RefSlots(H)
  /\ \A s \in RefSlots(H) : At(R, s) = At(H, s)
  /\ R[c].elems = f /\ DOMAIN R[c].elems = D /\ R[c].refcount = H[c].refcount
  /\ \A d \in AllCells : R[d].live = H[d].live
  /\ \A d \in AllCells : d # c => R[d] = H[d]

LEMMA Reshaping ==
  ASSUME NEW H, NEW g, NEW c \in Cells, NEW D, NEW f, Sound(H, g), H[c].live,
         SameRefs(H, c, D, f), NEW R, R = WithElems(H, c, f)
  PROVE  Sound(R, g) /\ Reshaped(H, R, c, D, f)
<1>1. Shape(H) /\ Clean(H) /\ Exact(H, g) /\ Dense(H)  BY DEF Sound
<1>2. c \in AllCells /\ c # Frame  BY CellsFinite
<1>3. /\ Shape(R) /\ R[c].elems = f
      /\ \A d \in AllCells : d # c => R[d] = H[d]
      /\ R[c].refcount = H[c].refcount /\ R[c].live = H[c].live /\ R[c].str = H[c].str
  <2>1. Shape(H) /\ c \in AllCells /\ Elements(c, D, f)  BY <1>1, <1>2 DEF SameRefs
  <2>2. ElemsOnly(H, R, c, f)  BY <2>1, ElemsPut
  <2> QED BY <2>2 DEF ElemsOnly
<1>4. DOMAIN R[c].elems = D  BY <1>3 DEF SameRefs, Elements
<1>5. \A s : s \in RefSlots(R) <=> s \in RefSlots(H)
  <2>1. ASSUME NEW s, s \in RefSlots(R)
        PROVE  s \in RefSlots(H)
    <3>1. Place(R, s) /\ IsRef(At(R, s))  BY <2>1, <1>3, SlotFacts
    <3>2. CASE s[1] = c
      <4>1. s[2] \in DOMAIN H[c].elems /\ H[c].elems[s[2]] = R[c].elems[s[2]]
        BY <3>1, <3>2, <1>3, <1>4 DEF Place, At, SameRefs
      <4>2. Place(H, s) /\ IsRef(At(H, s))  BY <3>1, <3>2, <4>1 DEF Place, At
      <4> QED BY <4>2, <1>1, SlotFacts
    <3>3. CASE s[1] # c
      <4>1. Place(H, s) /\ IsRef(At(H, s))  BY <3>1, <3>3, <1>3 DEF Place, At
      <4> QED BY <4>1, <1>1, SlotFacts
    <3> QED BY <3>2, <3>3
  <2>2. ASSUME NEW s, s \in RefSlots(H)
        PROVE  s \in RefSlots(R)
    <3>1. Place(H, s) /\ IsRef(At(H, s))  BY <2>2, <1>1, SlotFacts
    <3>2. CASE s[1] = c
      <4>1. s[2] \in D /\ H[c].elems[s[2]] = R[c].elems[s[2]]
        BY <3>1, <3>2, <1>3 DEF Place, At, SameRefs
      <4>2. Place(R, s) /\ IsRef(At(R, s))  BY <3>1, <3>2, <4>1, <1>4 DEF Place, At
      <4> QED BY <4>2, <1>3, SlotFacts
    <3>3. CASE s[1] # c
      <4>1. Place(R, s) /\ IsRef(At(R, s))  BY <3>1, <3>3, <1>3 DEF Place, At
      <4> QED BY <4>1, <1>3, SlotFacts
    <3> QED BY <3>2, <3>3
  <2> QED BY <2>1, <2>2
<1>6. ASSUME NEW s \in RefSlots(H)
      PROVE  At(R, s) = At(H, s)
  <2>1. Place(H, s) /\ IsRef(At(H, s))  BY <1>1, SlotFacts
  <2>2. CASE s[1] = c  BY <2>1, <2>2, <1>3 DEF Place, At, SameRefs
  <2>3. CASE s[1] # c  BY <2>1, <2>3, <1>3 DEF Place, At
  <2> QED BY <2>2, <2>3
<1>7. \A d : Referrers(R, d) = Referrers(H, d) /\ Count(R, d) = Count(H, d)
  <2>1. \A d, s : s \in Referrers(R, d) <=> s \in Referrers(H, d)  BY <1>5, <1>6 DEF Referrers
  <2>2. ASSUME NEW d  PROVE Referrers(R, d) = Referrers(H, d)
    <3>1. \A s : s \in Referrers(R, d) <=> s \in Referrers(H, d)  BY <2>1
    <3> QED BY <3>1
  <2> QED BY <2>2 DEF Count
<1>8. \A d \in AllCells : R[d].refcount = H[d].refcount /\ R[d].live = H[d].live
  BY <1>3
<1>9. Exact(R, g)  BY <1>1, <1>7, <1>8, CellsFinite DEF Exact
<1>10. Clean(R)  BY <1>1, <1>3, CellsFinite DEF Clean
<1>11. Dense(R)
  <2> SUFFICES ASSUME NEW s \in RefSlots(R)  PROVE Boxed(R, At(R, s))
    BY <1>3, DenseFacts
  <2>1. s \in RefSlots(H) /\ At(R, s) = At(H, s) /\ Boxed(H, At(H, s)) /\ At(H, s).p \in AllCells
    BY <1>1, <1>5, <1>6, DenseFacts, SlotFacts, CellsFinite
  <2>2. CASE At(H, s).p = c
    <3>1. s \in Referrers(H, c)  BY <2>1, <2>2 DEF Referrers
    <3> QED BY <3>1, <2>1, <2>2, <1>4 DEF Boxed, SameRefs
  <2>3. CASE At(H, s).p # c  BY <2>1, <2>3, <1>3 DEF Boxed
  <2> QED BY <2>2, <2>3
<1> QED BY <1>3, <1>4, <1>5, <1>6, <1>8, <1>9, <1>10, <1>11 DEF Sound, Reshaped

LEMMA OnlyHandle ==
  ASSUME NEW H, Sound(H, Frame), NEW x, Place(H, x), IsRef(At(H, x)), H[At(H, x).p].refcount = 1
  PROVE  Referrers(H, At(H, x).p) = {x}
<1> DEFINE c == At(H, x).p
<1>1. Shape(H) /\ Exact(H, Frame)  BY DEF Sound
<1>2. x \in RefSlots(H)  BY <1>1, SlotFacts
<1>3. c \in Cells /\ H[c].refcount = Count(H, c) + One(c, Frame)  BY <1>1, <1>2, ReferredLive
<1>4. x \in Referrers(H, c)  BY <1>2 DEF Referrers
<1> HIDE DEF c
<1>5. One(c, Frame) = 0  BY <1>3, CellsFinite DEF One
<1>6. Count(H, c) \in Nat /\ IsFiniteSet(Referrers(H, c))  BY <1>1, SlotFacts
<1>7. Cardinality(Referrers(H, c)) = 1  BY <1>3, <1>5, <1>6 DEF Count, c
<1>8. \E z : Referrers(H, c) = {z}  BY <1>6, <1>7, FS_Singleton
<1> QED BY <1>4, <1>8 DEF c

(* One more cell on the way from Frame to a place.                         *)
LEMMA SupportedOn ==
  ASSUME NEW H, NEW g, NEW x, NEW C, Shape(H), Exact(H, g), Supported(H, x, C), Place(H, x),
         IsRef(At(H, x)), x[1] \in C, At(H, x).p \notin C, NEW k
  PROVE  Supported(H, <<At(H, x).p, k>>, C \cup {At(H, x).p})
<1> DEFINE c == At(H, x).p
           y == <<c, k>>
<1>1. x \in RefSlots(H)  BY SlotFacts
<1>2. c \in Cells /\ H[c].live  BY <1>1, ReferredLive
<1>3. x \in Referrers(H, c)  BY <1>1 DEF Referrers
<1>4. y[1] = c /\ c \notin C  OBVIOUS
<1> HIDE DEF c, y
<1>5. C \cup {c} \subseteq AllCells /\ Frame \in C \cup {c} /\ \A d \in C \cup {c} : H[d].live
  BY <1>2, CellsFinite DEF Supported
<1>6. ASSUME NEW d \in (C \cup {c}) \ {Frame}
      PROVE  \E s \in Referrers(H, d) : s[1] \in C \cup {c} /\ s # y
  <2>1. CASE d = c
    <3>1. x # y  BY <1>4
    <3> QED BY <2>1, <3>1, <1>3
  <2>2. CASE d \in C
    <3>1. PICK s \in Referrers(H, d) : s[1] \in C /\ s # x  BY <2>2 DEF Supported
    <3>2. s # y  BY <3>1, <1>4
    <3> QED BY <3>1, <3>2
  <2> QED BY <2>1, <2>2
<1>7. Supported(H, y, C \cup {c})  BY <1>5, <1>6 DEF Supported
<1> QED BY <1>7 DEF c, y

LEMMA OwnContainer ==
  ASSUME NEW H, NEW x, NEW C, NEW k, NEW m \in Nat, Sound(H, Frame), Place(H, x),
         Supported(H, x, C), x[1] \in C, KeyFits(H, x, k), Room(H, m + 1), NEW H1, NEW R,
         H1 = IF At(H, x).t = "UNDEF"
              THEN ReplacedNew(H, x, BoxOf(k), NewCell(0, NoElems)) ELSE H,
         R = Unshared(H1, x)
  PROVE  /\ Sound(R, Frame) /\ Place(R, x)
         /\ At(R, x).t = BoxOf(k) /\ IsRef(At(R, x)) /\ At(R, x).p \in Cells
         /\ R[At(R, x).p].refcount = 1
         /\ Stays(H, R, x, C) /\ Room(R, m)
<1>1. BoxOf(k) \in RefTypes /\ BoxOf(k) # "UNDEF"  BY DEF BoxOf, RefTypes
<1>2. CASE At(H, x).t = "UNDEF"
  <2>1. H1 = ReplacedNew(H, x, BoxOf(k), NewCell(0, NoElems))  BY <1>2
  <2>2. /\ Sound(H1, Frame) /\ Place(H1, x)
        /\ At(H1, x).t = BoxOf(k) /\ IsRef(At(H1, x)) /\ At(H1, x).p \in Cells
        /\ H1[At(H1, x).p].refcount = 1
        /\ Stays(H, H1, x, C) /\ Room(H1, m)
    <3>1. 0 \in Nat  OBVIOUS
    <3> QED BY <1>1, <2>1, <3>1, ReplacingNew
  <2>3. R = H1  BY <2>2 DEF Unshared
  <2> QED BY <2>2, <2>3
<1>3. CASE At(H, x).t # "UNDEF"
  <2>1. H1 = H /\ At(H, x).t = BoxOf(k)  BY <1>3 DEF KeyFits
  <2>2. IsRef(At(H, x))  BY <1>1, <2>1 DEF IsRef
  <2>3. C \subseteq AllCells /\ \A d \in C : H[d].live  BY DEF Supported
  <2>4. R = Unshared(H, x)  BY <2>1
  <2>5. /\ Sound(R, Frame) /\ Place(R, x)
        /\ At(R, x).t = At(H, x).t /\ IsRef(At(R, x)) /\ At(R, x).p \in Cells
        /\ R[At(R, x).p].refcount = 1
        /\ Stays(H, R, x, C) /\ Room(R, m)
    BY <2>2, <2>3, <2>4, Unsharing
  <2> QED BY <2>1, <2>5
<1> QED BY <1>2, <1>3

LEMMA Indexing ==
  ASSUME NEW H, NEW x, NEW C, NEW k \in Keys, NEW m \in Nat, Sound(H, Frame), Place(H, x),
         Supported(H, x, C), x[1] \in C, KeyFits(H, x, k), Room(H, m + 1),
         NEW R, R = Indexed(H, x, k)
  PROVE  /\ Sound(R, Frame) /\ At(R, x).p \in Cells
         /\ Place(R, <<At(R, x).p, k>>)
         /\ Supported(R, <<At(R, x).p, k>>, C \cup {At(R, x).p})
         /\ Stays(H, R, x, C) /\ Room(R, m)
<1> DEFINE H1 == IF At(H, x).t = "UNDEF"
                 THEN ReplacedNew(H, x, BoxOf(k), NewCell(0, NoElems)) ELSE H
           H2 == Unshared(H1, x)
           c == At(H2, x).p
           new == IF IsPos(k) THEN 0 .. k ELSE {k}
           old == DOMAIN H2[c].elems
           D == old \cup new
           f == [i \in D |-> IF i \in old THEN H2[c].elems[i] ELSE UndefH]
<1>1. R = WithElems(H2, c, f)  BY DEF Indexed, Container, Extended
<1>2. /\ Sound(H2, Frame) /\ Place(H2, x)
      /\ At(H2, x).t = BoxOf(k) /\ IsRef(At(H2, x)) /\ At(H2, x).p \in Cells
      /\ H2[At(H2, x).p].refcount = 1
      /\ Stays(H, H2, x, C) /\ Room(H2, m)
  <2> HIDE DEF H1
  <2>1. H1 = IF At(H, x).t = "UNDEF"
             THEN ReplacedNew(H, x, BoxOf(k), NewCell(0, NoElems)) ELSE H
    BY DEF H1
  <2> QED BY <2>1, OwnContainer
<1> HIDE DEF H1, H2
<1>3. Referrers(H2, c) = {x}  BY <1>2, OnlyHandle
<1>4. Shape(H2) /\ Exact(H2, Frame) /\ Dense(H2)  BY <1>2 DEF Sound
<1>5. c \in Cells /\ c \in AllCells /\ c # Frame /\ H2[c].live /\ x \in RefSlots(H2)
  <2>1. x \in RefSlots(H2)  BY <1>2, <1>4, SlotFacts
  <2> QED BY <2>1, <1>4, ReferredLive, CellsFinite
<1>6. Shape(H)  BY DEF Sound
<1>7. Supported(H2, x, C)  BY <1>2, <1>4, <1>6, StaysSupported
<1>8. c \notin C
  <2> SUFFICES ASSUME c \in C  PROVE FALSE
    OBVIOUS
  <2>1. \E s \in Referrers(H2, c) : s # x  BY <1>5, <1>7 DEF Supported
  <2> QED BY <2>1, <1>3
<1>9. H2[c] \in CellType  BY <1>4, <1>5 DEF Shape
<1>10. old \subseteq AllKeys /\ \A i \in old : H2[c].elems[i] \in Handle  BY <1>9, CellFacts
<1>11. k \in new /\ new \subseteq AllKeys
  <2>1. CASE IsPos(k)
    <3>1. k \in 0 .. k /\ 0 .. k \subseteq 0 .. MaxLen - 1  BY <2>1, BoundsAssumption DEF IsPos
    <3> QED BY <2>1, <3>1, KeysFinite DEF Keys
  <2>2. CASE ~IsPos(k)  BY <2>2, KeysFinite
  <2> QED BY <2>1, <2>2
<1>12. ASSUME NEW s \in Referrers(H2, c), At(H2, s).t = "ARRAY"
       PROVE  \E n \in 0 .. MaxLen : D = 0 .. n - 1
  <2>1. s = x /\ At(H2, x).t = "ARRAY"  BY <1>3, <1>12
  <2>2. IsPos(k) /\ new = 0 .. k  BY <2>1, <1>2 DEF BoxOf
  <2>3. PICK n \in 0 .. MaxLen : old = 0 .. n - 1  BY <2>1, <1>4, <1>5, DenseFacts DEF Boxed
  <2>4. k \in 0 .. MaxLen - 1  BY <2>2 DEF IsPos
  <2> HIDE DEF old, new
  <2>5. CASE n > k
    <3>1. D = 0 .. n - 1  BY <2>2, <2>3, <2>4, <2>5, BoundsAssumption
    <3> QED BY <3>1
  <2>6. CASE ~(n > k)
    <3>1. D = 0 .. (k + 1) - 1 /\ k + 1 \in 0 .. MaxLen  BY <2>2, <2>3, <2>4, <2>6, BoundsAssumption
    <3> QED BY <3>1
  <2> QED BY <2>5, <2>6
<1>13. D \subseteq AllKeys  BY <1>10, <1>11
<1>14. f \in [D -> Handle]  BY <1>10, HandleFacts
<1>15. \A i \in old : i \in D /\ f[i] = H2[c].elems[i]  OBVIOUS
<1>16. \A i \in D : IsRef(f[i]) => i \in old /\ f[i] = H2[c].elems[i]  BY HandleFacts
<1>27. \A i \in old : IsRef(H2[c].elems[i]) => i \in D /\ f[i] = H2[c].elems[i]  BY <1>15
<1> HIDE DEF f, D, c
<1>28. SameRefs(H2, c, D, f)  BY <1>5, <1>12, <1>13, <1>14, <1>16, <1>27 DEF SameRefs, Elements
<1>17. /\ Sound(R, Frame)
       /\ \A s \in RefSlots(H2) : At(R, s) = At(H2, s)
       /\ \A s : s \in RefSlots(R) <=> s \in RefSlots(H2)
       /\ DOMAIN R[c].elems = D
       /\ \A d \in AllCells : R[d].live = H2[d].live
       /\ \A d \in AllCells : d # c => R[d] = H2[d]
  <2>1. Sound(H2, Frame) /\ H2[c].live /\ c \in Cells /\ SameRefs(H2, c, D, f) /\ R = WithElems(H2, c, f)
    BY <1>1, <1>2, <1>5, <1>28
  <2>2. Sound(R, Frame) /\ Reshaped(H2, R, c, D, f)  BY <2>1, Reshaping
  <2> QED BY <2>2 DEF Reshaped
<1>18. At(R, x) = At(H2, x) /\ At(R, x).p = c  BY <1>5, <1>17 DEF c
<1>19. Stays(H2, R, x, C)
  <2>1. \A d \in C : d \in AllCells /\ d # c  BY <1>7, <1>8 DEF Supported
  <2>2. \A d \in C : R[d] = H2[d] /\ R[d].live  BY <2>1, <1>7, <1>17 DEF Supported
  <2> QED BY <2>2 DEF Stays
<1>20. Stays(H, R, x, C)  BY <1>2, <1>19, StaysOn
<1>21. Room(R, m)
  <2>1. \A d \in Cells : R[d].live => H2[d].live  BY <1>17, CellsFinite
  <2> QED BY <2>1, <1>2, RoomKept
<1>22. Shape(R) /\ Exact(R, Frame)  BY <1>17 DEF Sound
<1>23. Place(R, x) /\ IsRef(At(R, x))  BY <1>5, <1>17, <1>22, SlotFacts
<1>24. Supported(R, x, C)  BY <1>4, <1>7, <1>19, <1>22, StaysSupported
<1>25. Supported(R, <<c, k>>, C \cup {c})
  BY <1>8, <1>18, <1>22, <1>23, <1>24, SupportedOn
<1>26. Place(R, <<c, k>>)
  <2>1. k \in D /\ k \in AllKeys  BY <1>11 DEF D
  <2>2. <<c, k>>[1] = c /\ <<c, k>>[2] = k  OBVIOUS
  <2> QED BY <2>1, <2>2, <1>5, <1>17 DEF Place
<1> QED BY <1>5, <1>17, <1>18, <1>20, <1>21, <1>25, <1>26, ZenonT(30)

(* Between two operations the slots of oNonExistentCDT and of Swap's copy  *)
(* hold nothing.                                                           *)
Idle(H) == H[Frame].elems[Nil] = UndefH /\ H[Frame].elems[Temp] = UndefH
Good(H) == Sound(H, Frame) /\ Idle(H)

LEMMA StaysIdle ==
  ASSUME NEW H, NEW R, NEW x, NEW C, Shape(H), Idle(H), Frame \in C, Stays(H, R, x, C),
         x # <<Frame, Nil>>, x # <<Frame, Temp>>
  PROVE  Idle(R)
<1>1. Nil \in DOMAIN H[Frame].elems /\ Temp \in DOMAIN H[Frame].elems
  BY DEF Shape, FrameKeys
<1> QED BY <1>1 DEF Stays, Idle

(* A place a program can name by the variable r.                           *)
Named(H, r, x) ==
  /\ Place(H, x) /\ (x[1] = Frame => x = <<Frame, r>>)
  /\ \E C : Supported(H, x, C) /\ x[1] \in C

LEMMA NamedApart ==
  ASSUME NEW H, NEW r \in Roots, NEW x, Named(H, r, x)
  PROVE  x # <<Frame, Nil>> /\ x # <<Frame, Temp>>
  BY NamesAssumption DEF Named

LEMMA FrameNamed ==
  ASSUME NEW H, Shape(H), NEW r \in FrameKeys
  PROVE  /\ Place(H, <<Frame, r>>) /\ Supported(H, <<Frame, r>>, {Frame})
         /\ Named(H, r, <<Frame, r>>)
<1>1. r \in AllKeys /\ r \in DOMAIN H[Frame].elems /\ Frame \in AllCells
  BY KeysFinite, CellsFinite DEF Shape
<1>2. Place(H, <<Frame, r>>)  BY <1>1 DEF Place
<1>3. Supported(H, <<Frame, r>>, {Frame})  BY <1>1 DEF Supported, Shape
<1> QED BY <1>2, <1>3 DEF Named

(* What Lvalue answers: m more cells may still be allocated.               *)
Denotes(e, r, m) ==
  /\ Good(e.heap) /\ Named(e.heap, r, e.place) /\ Room(e.heap, m)
  /\ e = [heap |-> e.heap, place |-> e.place, ok |-> e.ok]

LEMMA Stepping ==
  ASSUME NEW e, NEW r \in Roots, NEW k \in Keys, NEW m \in Nat, Denotes(e, r, m + 1)
  PROVE  Denotes(Step(e, k), r, m)
<1> DEFINE H == e.heap
           x == e.place
           s == Step(e, k)
<1>1. /\ Good(H) /\ Named(H, r, x) /\ Room(H, m + 1)
      /\ e = [heap |-> H, place |-> x, ok |-> e.ok]
  BY DEF Denotes
<1>2. CASE ~e.ok \/ ~KeyFits(H, x, k)
  <2>1. s = [e EXCEPT !.ok = FALSE]  BY <1>2 DEF Step
  <2>2. s = [heap |-> H, place |-> x, ok |-> FALSE]
    <3> HIDE DEF s, H, x
    <3>1. PICK b : b = e.ok  OBVIOUS
    <3>2. e = [heap |-> H, place |-> x, ok |-> b]  BY <1>1, <3>1
    <3>3. s = [[heap |-> H, place |-> x, ok |-> b] EXCEPT !.ok = FALSE]  BY <2>1, <3>2
    <3> QED BY <3>3
  <2>3. Room(H, m)
    <3> HIDE DEF H
    <3>1. \A d \in Cells : H[d].live => H[d].live \/ d = Frame  OBVIOUS
    <3> QED BY <1>1, <3>1, RoomTaken
  <2> HIDE DEF s, H, x
  <2>4. s.heap = H /\ s.place = x /\ s.ok = FALSE  BY <2>2
  <2>5. Denotes(s, r, m)  BY <1>1, <2>2, <2>3, <2>4 DEF Denotes
  <2> QED BY <2>5 DEF s
<1>3. CASE e.ok /\ KeyFits(H, x, k)
  <2> DEFINE R == Indexed(H, x, k)
             c == At(R, x).p
  <2>1. s = [heap |-> R, place |-> <<c, k>>, ok |-> TRUE]  BY <1>3 DEF Step
  <2> HIDE DEF s
  <2>2. Sound(H, Frame) /\ Shape(H) /\ Idle(H) /\ Place(H, x)  BY <1>1 DEF Good, Sound, Named
  <2>3. PICK C : Supported(H, x, C) /\ x[1] \in C  BY <1>1 DEF Named
  <2>4. /\ Sound(R, Frame) /\ c \in Cells
        /\ Place(R, <<c, k>>) /\ Supported(R, <<c, k>>, C \cup {c})
        /\ Stays(H, R, x, C) /\ Room(R, m)
    BY <1>1, <1>3, <2>2, <2>3, Indexing
  <2> HIDE DEF R
  <2>5. Idle(R)
    <3>1. Frame \in C  BY <2>3 DEF Supported
    <3>2. x # <<Frame, Nil>> /\ x # <<Frame, Temp>>  BY <1>1, NamedApart
    <3> QED BY <2>2, <2>4, <3>1, <3>2, StaysIdle
  <2>6. Named(R, r, <<c, k>>)
    <3>1. <<c, k>>[1] = c /\ c # Frame  BY <2>4, CellsFinite
    <3> HIDE DEF c
    <3> QED BY <2>4, <3>1 DEF Named
  <2> HIDE DEF c
  <2>7. s.heap = R /\ s.place = <<c, k>> /\ s.ok = TRUE  BY <2>1
  <2>8. Good(R)  BY <2>4, <2>5 DEF Good
  <2>9. Denotes(s, r, m)  BY <2>1, <2>4, <2>6, <2>7, <2>8 DEF Denotes
  <2> QED BY <2>9 DEF s
<1> QED BY <1>2, <1>3

LEMMA Reaching ==
  ASSUME NEW H, NEW r \in Roots, NEW ks \in Paths, NEW m \in Nat, Good(H), Room(H, m + 2)
  PROVE  Denotes(Lvalue(H, r, ks), r, m)
<1> DEFINE e == [heap |-> H, place |-> <<Frame, r>>, ok |-> TRUE]
<1>1. e.heap = H /\ e.place = <<Frame, r>> /\ e = [heap |-> e.heap, place |-> e.place, ok |-> e.ok]
  OBVIOUS
<1>2. m + 1 \in Nat /\ m + 2 \in Nat /\ (m + 1) + 1 = m + 2  OBVIOUS
<1>3. Room(H, m + 1) /\ Room(H, m)
  <2>1. \A d \in Cells : H[d].live => H[d].live \/ d = Frame  OBVIOUS
  <2>2. Room(H, m + 1)  BY <1>2, <2>1, RoomTaken
  <2> QED BY <2>1, <2>2, RoomTaken
<1>4. Named(H, r, <<Frame, r>>)
  <2>1. r \in FrameKeys /\ Shape(H)  BY DEF FrameKeys, Good, Sound
  <2> QED BY <2>1, FrameNamed
<1> HIDE DEF e
<1>5. Denotes(e, r, m) /\ Denotes(e, r, m + 1) /\ Denotes(e, r, (m + 1) + 1)
  BY <1>1, <1>2, <1>3, <1>4 DEF Denotes
<1>6. CASE ks = <<>>
  <2>1. Lvalue(H, r, ks) = e  BY <1>6 DEF Lvalue, e
  <2> QED BY <2>1, <1>5
<1>7. CASE \E k \in Keys : ks = <<k>>
  <2>1. PICK k \in Keys : ks = <<k>>  BY <1>7
  <2>2. ks # <<>> /\ Len(ks) = 1 /\ ks[1] = k  BY <2>1
  <2>3. Lvalue(H, r, ks) = Step(e, k)  BY <2>2 DEF Lvalue, e
  <2> QED BY <2>3, <1>5, Stepping
<1>8. CASE \E k, j \in Keys : ks = <<k, j>>
  <2>1. PICK k \in Keys, j \in Keys : ks = <<k, j>>  BY <1>8
  <2>2. ks # <<>> /\ Len(ks) = 2 /\ ks[1] = k /\ ks[2] = j  BY <2>1
  <2>3. Lvalue(H, r, ks) = Step(Step(e, k), j)  BY <2>2 DEF Lvalue, e
  <2>4. Denotes(Step(e, k), r, m + 1)  BY <1>2, <1>5, Stepping
  <2>5. Denotes(Step(Step(e, k), j), r, m)  BY <2>4, Stepping
  <2> QED BY <2>3, <2>5
<1> QED BY <1>6, <1>7, <1>8 DEF Paths

-----------------------------------------------------------------------------
(* operator=(const CDT &). *)

LEMMA Counting ==
  ASSUME NEW H, NEW c \in Cells, Sound(H, Frame), H[c].live, NEW G, G = Counted(H, c, 1)
  PROVE  /\ Sound(G, c) /\ SameElems(H, G)
         /\ \A d \in AllCells : G[d].live = H[d].live
<1>1. Shape(H) /\ Clean(H) /\ Exact(H, Frame) /\ Dense(H)  BY DEF Sound
<1>2. c \in AllCells /\ c # Frame /\ H[c].refcount \in Nat
  <2>1. c \in AllCells /\ c # Frame  BY CellsFinite
  <2>2. H[c] \in CellType  BY <1>1, <2>1 DEF Shape
  <2> QED BY <2>1, <2>2, CellFacts
<1>3. /\ Shape(G) /\ SameElems(H, G) /\ \A d \in AllCells : d # c => G[d] = H[d]
      /\ G[c].refcount = H[c].refcount + 1 /\ G[c].live = H[c].live
  <2>1. 1 \in Int /\ H[c].refcount + 1 \in Nat /\ Shape(H)  BY <1>1, <1>2
  <2> QED BY <2>1, CountedFacts, ZenonT(30)
<1>4. \A d : Count(G, d) = Count(H, d)  BY <1>3, SameReferrers
<1>5. Exact(G, c)
  <2> SUFFICES ASSUME NEW d \in Cells
               PROVE  G[d].refcount = Count(G, d) + One(d, c) /\ (G[d].live <=> G[d].refcount > 0)
    BY DEF Exact
  <2>1. H[d].refcount = Count(H, d) + One(d, Frame) /\ (H[d].live <=> H[d].refcount > 0)
    BY <1>1 DEF Exact
  <2>2. One(d, Frame) = 0 /\ d \in AllCells /\ Count(H, d) \in Nat
    BY <1>1, CellsFinite, SlotFacts DEF One
  <2>3. CASE d = c
    <3>1. One(d, c) = 1  BY <2>3 DEF One
    <3>2. G[d].refcount = Count(H, d) + 1 /\ Count(G, d) = Count(H, d)
      BY <2>1, <2>2, <2>3, <1>3, <1>4
    <3>3. G[d].refcount > 0  BY <3>2, <2>2
    <3>4. G[d].live  BY <2>3, <1>3
    <3> QED BY <3>1, <3>2, <3>3, <3>4
  <2>4. CASE d # c
    <3>1. One(d, c) = 0  BY <2>4 DEF One
    <3> QED BY <3>1, <2>1, <2>2, <2>4, <1>3, <1>4
  <2> QED BY <2>3, <2>4
<1>6. Clean(G)  BY <1>1, <1>3, CellsFinite DEF Clean
<1>7. Dense(G)
  <2> SUFFICES ASSUME NEW s \in RefSlots(G)  PROVE Boxed(G, At(G, s))
    BY <1>3, DenseFacts
  <2>1. s \in RefSlots(H) /\ At(G, s) = At(H, s)  BY <1>1, <1>3, SameReferrers, SlotFacts
  <2>2. Boxed(H, At(H, s)) /\ At(H, s).p \in AllCells  BY <2>1, <1>1, DenseFacts, SlotFacts, CellsFinite
  <2> QED BY <2>1, <2>2, <1>3 DEF Boxed, SameElems
<1> QED BY <1>2, <1>3, <1>5, <1>6, <1>7 DEF Sound

LEMMA SameStays ==
  ASSUME NEW H, NEW G, NEW x, NEW C, SameElems(H, G), \A d \in AllCells : G[d].live = H[d].live,
         Supported(H, x, C)
  PROVE  Supported(G, x, C) /\ Stays(H, G, x, C)
<1>1. C \subseteq AllCells /\ \A d \in C : H[d].live  BY DEF Supported
<1>2. \A d : Referrers(G, d) = Referrers(H, d)  BY SameReferrers
<1>3. \A d \in C : G[d].live /\ G[d].elems = H[d].elems  BY <1>1 DEF SameElems
<1>4. Stays(H, G, x, C)  BY <1>3 DEF Stays
<1>5. Supported(G, x, C)  BY <1>2, <1>3 DEF Supported
<1> QED BY <1>4, <1>5

(* A source that stands on the way to the target, or in a variable, is not *)
(* lost with the target's former value.                                    *)
LEMMA SourceLives ==
  ASSUME NEW H, NEW x, NEW y, NEW C, Sound(H, Frame), Place(H, x), Place(H, y),
         Supported(H, x, C), x[1] \in C, y[1] \in C
  PROVE  ~LostSource(H, x, y)
<1> SUFFICES ASSUME LostSource(H, x, y)  PROVE FALSE
  OBVIOUS
<1> DEFINE c == At(H, y).p
<1>1. x # y /\ IsRef(At(H, y)) /\ ~Destroyed(H, x)[c].live  BY DEF LostSource
<1>2. Shape(H) /\ Exact(H, Frame)  BY DEF Sound
<1>3. y \in RefSlots(H) /\ y \in Referrers(H, c)
  <2>1. y \in RefSlots(H)  BY <1>1, <1>2, SlotFacts
  <2> QED BY <2>1 DEF Referrers
<1>4. c \in Cells /\ c \in AllCells /\ H[c].live  BY <1>2, <1>3, ReferredLive, CellsFinite
<1> HIDE DEF c
<1>5. Supported(H, x, C \cup {c})
  <2>1. \A d \in (C \cup {c}) \ {Frame} : \E s \in Referrers(H, d) : s[1] \in C /\ s # x
    BY <1>1, <1>3 DEF Supported
  <2>2. \A d \in (C \cup {c}) \ {Frame} : \E s \in Referrers(H, d) : s[1] \in C \cup {c} /\ s # x
    BY <2>1
  <2>3. C \cup {c} \subseteq AllCells /\ Frame \in C \cup {c} /\ \A d \in C \cup {c} : H[d].live
    BY <1>4 DEF Supported
  <2> QED BY <2>2, <2>3 DEF Supported
<1>6. Stays(H, Destroyed(H, x), x, C \cup {c})
  <2>1. x[1] \in C \cup {c} /\ Frame \in AllCells  BY CellsFinite
  <2> QED BY <1>5, <2>1, Destroying
<1>7. Destroyed(H, x)[c].live  BY <1>6 DEF Stays
<1> QED BY <1>1, <1>7

(* The place x is empty and the counter of the source s is raised for it.  *)
Owner(s) == IF IsRef(s) THEN s.p ELSE Frame
Ready(H, G, x, s, C) ==
  /\ Sound(G, Owner(s)) /\ Place(G, x) /\ ~IsRef(At(G, x)) /\ Boxed(G, s)
  /\ Stays(H, G, x, C)

LEMMA Emptied ==
  ASSUME NEW H, NEW x, NEW y, NEW C, Sound(H, Frame), Place(H, x), Place(H, y), IsRef(At(H, x)),
         Supported(H, x, C), x[1] \in C, IsRef(At(H, y)), H[At(H, y).p].refcount = 1,
         NEW G, G = Counted(Counted(Destroyed(Counted(H, At(H, y).p, 1), x), At(H, y).p, -1), At(H, y).p, 1)
  PROVE  Ready(H, G, x, At(H, y), C)
<1> DEFINE s == At(H, y)
           c == s.p
           H1 == Counted(H, c, 1)
           D == Destroyed(H1, x)
<1>1. Shape(H) /\ Exact(H, Frame) /\ Dense(H)  BY DEF Sound
<1>2. y \in RefSlots(H) /\ Boxed(H, s)  BY <1>1, SlotFacts, DenseFacts
<1>3. c \in Cells /\ c \in AllCells /\ H[c].live  BY <1>1, <1>2, ReferredLive, CellsFinite
<1>4. Owner(s) = c  BY DEF Owner
<1> HIDE DEF c, s
<1>5. Sound(H1, c) /\ SameElems(H, H1) /\ \A d \in AllCells : H1[d].live = H[d].live
  BY <1>3, Counting
<1> HIDE DEF H1
<1>6. Supported(H1, x, C) /\ Stays(H, H1, x, C)  BY <1>5, SameStays
<1>7. Place(H1, x)  BY <1>5, SameReferrers
<1>8. /\ Sound(D, c) /\ Place(D, x) /\ ~IsRef(At(D, x)) /\ Remains(H1, D, x)
      /\ Stays(H1, D, x, C)
  BY <1>3, <1>5, <1>6, <1>7, Destroying
<1>9. G = Counted(Counted(D, c, -1), c, 1)  BY DEF D, H1, c, s
<1> HIDE DEF D
<1>10. Shape(D) /\ Exact(D, c)  BY <1>8 DEF Sound
<1>11. D[c].refcount \in Nat /\ D[c].refcount > 0 /\ D[c].live
  <2>1. D[c].refcount = Count(D, c) + One(c, c) /\ (D[c].live <=> D[c].refcount > 0)
    BY <1>3, <1>10 DEF Exact
  <2>2. Count(D, c) \in Nat /\ One(c, c) = 1  BY <1>10, SlotFacts DEF One
  <2> QED BY <2>1, <2>2
<1>12. G = D
  <2> DEFINE D1 == Counted(D, c, -1)
  <2>1. PICK n \in Int : n = -1  OBVIOUS
  <2>2. D1 = Counted(D, c, n) /\ D[c].refcount + n \in Nat /\ D[c].refcount + n = D[c].refcount - 1
    BY <1>11, <2>1
  <2> HIDE DEF D1
  <2>3. /\ Shape(D1) /\ SameElems(D, D1) /\ \A d \in AllCells : d # c => D1[d] = D[d]
        /\ D1[c].refcount = D[c].refcount + n /\ D1[c].live = D[c].live /\ D1[c].str = D[c].str
    <3>1. Shape(D) /\ c \in Cells /\ D[c].refcount + n \in Nat  BY <1>3, <1>10, <2>2
    <3> QED BY <3>1, <2>2, CountedFacts
  <2>4. D1[c].refcount + 1 = D[c].refcount /\ D1[c].refcount + 1 \in Nat  BY <1>11, <2>2, <2>3
  <2>5. /\ Shape(G) /\ SameElems(D1, G) /\ \A d \in AllCells : d # c => G[d] = D1[d]
        /\ G[c].refcount = D1[c].refcount + 1 /\ G[c].live = D1[c].live /\ G[c].str = D1[c].str
    <3>1. Shape(D1) /\ c \in Cells /\ 1 \in Int /\ D1[c].refcount + 1 \in Nat  BY <1>3, <2>3, <2>4
    <3> QED BY <3>1, <1>9, CountedFacts DEF D1
  <2>6. G \in [AllCells -> CellType] /\ D \in [AllCells -> CellType]  BY <1>10, <2>5 DEF Shape
  <2>7. G[c] = D[c]
    <3>1. G[c] \in CellType /\ D[c] \in CellType  BY <1>3, <2>6
    <3>2. G[c].refcount = D[c].refcount /\ G[c].live = D[c].live /\ G[c].str = D[c].str
      BY <2>3, <2>4, <2>5
    <3>3. G[c].elems = D[c].elems  BY <1>3, <2>3, <2>5 DEF SameElems
    <3> QED BY <3>1, <3>2, <3>3, SameCell
  <2>8. \A d \in AllCells : G[d] = D[d]  BY <2>3, <2>5, <2>7
  <2> QED BY <2>6, <2>8
<1>13. Boxed(D, s)
  <2>1. DOMAIN D[c].elems = DOMAIN H1[c].elems  BY <1>3, <1>8, <1>11 DEF Remains
  <2>2. DOMAIN H1[c].elems = DOMAIN H[c].elems  BY <1>3, <1>5 DEF SameElems
  <2> QED BY <2>1, <2>2, <1>2 DEF Boxed, c
<1>14. Stays(H, D, x, C)  BY <1>6, <1>8, StaysOn
<1> QED BY <1>4, <1>8, <1>12, <1>13, <1>14 DEF Ready, s

LEMMA Assigning ==
  ASSUME NEW H, NEW x, NEW y, NEW C, Sound(H, Frame), Place(H, x), Place(H, y),
         Supported(H, x, C), x[1] \in C, ~LostSource(H, x, y), NEW R, R = Assigned(H, x, y)
  PROVE  Sound(R, Frame) /\ Stays(H, R, x, C)
<1> DEFINE s == At(H, y)
           only == IsRef(s) /\ H[s.p].refcount = 1
           H1 == IF ~IsRef(At(H, x)) THEN H
                 ELSE IF only
                 THEN Counted(Destroyed(Retain(H, s), x), s.p, -1)
                 ELSE Destroyed(H, x)
           G == Retain(H1, s)
           D == Destroyed(H, x)
<1>1. Shape(H) /\ Exact(H, Frame) /\ Dense(H)  BY DEF Sound
<1>2. s \in Handle  BY <1>1, SlotFacts
<1>3. IsRef(s) => s.p \in Cells /\ s.p \in AllCells /\ H[s.p].live /\ H[s.p].refcount > 0 /\ Boxed(H, s)
  <2> SUFFICES ASSUME IsRef(s)
               PROVE  s.p \in Cells /\ s.p \in AllCells /\ H[s.p].live /\ H[s.p].refcount > 0 /\ Boxed(H, s)
    OBVIOUS
  <2>1. y \in RefSlots(H)  BY <1>1, SlotFacts
  <2>2. s.p \in Cells /\ H[s.p].live /\ Boxed(H, s)  BY <2>1, <1>1, ReferredLive, DenseFacts
  <2> HIDE DEF s
  <2> QED BY <2>2, <1>1, CellsFinite DEF Exact
<1>4. C \subseteq AllCells /\ \A d \in C : H[d].live  BY DEF Supported
<1>5. CASE x = y
  <2>1. R = H  BY <1>5 DEF Assigned
  <2>2. Stays(H, H, x, C)  BY <1>4 DEF Stays
  <2> QED BY <2>1, <2>2
<1>6. CASE x # y
  <2>1. R = SetAt(G, x, s)  BY <1>6 DEF Assigned
  <2>2. Ready(H, G, x, s, C)
    <3>1. CASE ~IsRef(At(H, x))
      <4>1. H1 = H  BY <3>1
      <4> HIDE DEF H1
      <4>2. CASE IsRef(s)
        <5>1. G = Counted(H, s.p, 1)  BY <4>1, <4>2 DEF Retain
        <5> HIDE DEF s, G
        <5>2. Sound(G, s.p) /\ SameElems(H, G) /\ \A d \in AllCells : G[d].live = H[d].live
          BY <4>2, <5>1, <1>3, Counting
        <5>3. Stays(H, G, x, C)  BY <5>2, SameStays
        <5>4. Place(G, x) /\ At(G, x) = At(H, x)  BY <5>2, SameReferrers
        <5>5. Boxed(G, s)  BY <4>2, <5>2, <1>3 DEF Boxed, SameElems
        <5> QED BY <3>1, <4>2, <5>2, <5>3, <5>4, <5>5 DEF Ready, Owner
      <4>3. CASE ~IsRef(s)
        <5>1. G = H  BY <4>1, <4>3 DEF Retain
        <5>2. Boxed(H, s)  BY <4>3 DEF Boxed, IsRef, RefTypes
        <5>3. Stays(H, H, x, C)  BY <1>4 DEF Stays
        <5> HIDE DEF s, G
        <5> QED BY <3>1, <4>3, <5>1, <5>2, <5>3 DEF Ready, Owner
      <4> QED BY <4>2, <4>3
    <3>2. CASE IsRef(At(H, x)) /\ only
      <4>1. H1 = Counted(Destroyed(Counted(H, s.p, 1), x), s.p, -1)  BY <3>2 DEF Retain
      <4> HIDE DEF H1
      <4>2. G = Counted(Counted(Destroyed(Counted(H, s.p, 1), x), s.p, -1), s.p, 1)
        BY <3>2, <4>1 DEF Retain
      <4> HIDE DEF G
      <4> QED BY <3>2, <4>2, Emptied
    <3>3. CASE IsRef(At(H, x)) /\ ~only
      <4>1. H1 = D  BY <3>3
      <4> HIDE DEF H1
      <4>2. /\ Sound(D, Frame) /\ Place(D, x) /\ ~IsRef(At(D, x)) /\ Remains(H, D, x)
            /\ Stays(H, D, x, C)
        BY CellsFinite, Destroying
      <4>3. CASE IsRef(s)
        <5>1. G = Counted(D, s.p, 1)  BY <4>1, <4>3 DEF Retain
        <5>2. H[s.p].refcount # 1  BY <3>3, <4>3
        <5>3. s.p \in AllCells /\ H[s.p].refcount \in Nat /\ H[s.p].refcount > 0
          <6> HIDE DEF s
          <6>1. s.p \in AllCells /\ H[s.p].refcount > 0  BY <4>3, <1>3
          <6>2. H[s.p] \in CellType  BY <6>1, <1>1 DEF Shape
          <6> QED BY <6>1, <6>2, CellFacts
        <5>4. H[s.p].refcount > 1  BY <5>2, <5>3
        <5>5. D[s.p].live  BY <1>6, <3>3, <4>3, <5>4 DEF LostSource
        <5> HIDE DEF s, G, D
        <5>6. Sound(G, s.p) /\ SameElems(D, G) /\ \A d \in AllCells : G[d].live = D[d].live
          BY <4>2, <4>3, <5>1, <5>5, <1>3, Counting
        <5>7. Stays(H, G, x, C)
          <6>1. \A d \in C : G[d].live /\ G[d].elems = D[d].elems
            BY <1>4, <4>2, <5>6 DEF SameElems, Stays
          <6>2. Stays(D, G, x, C)  BY <6>1 DEF Stays
          <6> QED BY <4>2, <6>2, StaysOn
        <5>8. Place(G, x) /\ At(G, x) = At(D, x)  BY <4>2, <5>6, SameReferrers
        <5>9. Boxed(G, s)
          <6>1. DOMAIN D[s.p].elems = DOMAIN H[s.p].elems  BY <5>3, <5>5, <4>2 DEF Remains
          <6>2. G[s.p].elems = D[s.p].elems  BY <5>3, <5>6 DEF SameElems
          <6>3. Boxed(H, s)  BY <4>3, <1>3
          <6> QED BY <6>1, <6>2, <6>3 DEF Boxed
        <5> QED BY <4>2, <4>3, <5>6, <5>7, <5>8, <5>9 DEF Ready, Owner
      <4>4. CASE ~IsRef(s)
        <5>1. G = D  BY <4>1, <4>4 DEF Retain
        <5>2. Boxed(D, s)  BY <4>4 DEF Boxed, IsRef, RefTypes
        <5> HIDE DEF s, G, D
        <5> QED BY <4>2, <4>4, <5>1, <5>2 DEF Ready, Owner
      <4> QED BY <4>3, <4>4
    <3> QED BY <3>1, <3>2, <3>3
  <2> HIDE DEF G, s, H1
  <2>3. /\ Sound(G, Owner(s)) /\ Place(G, x) /\ ~IsRef(At(G, x)) /\ Boxed(G, s)
        /\ Stays(H, G, x, C)
    BY <2>2 DEF Ready
  <2>4. Sound(R, Frame)
    <3>1. Owner(s) = IF IsRef(s) THEN s.p ELSE Frame  BY DEF Owner
    <3> QED BY <1>2, <2>1, <2>3, <3>1, Storing
  <2>5. Stays(G, R, x, C)
    <3>1. Shape(G) /\ \A d \in C : G[d].live  BY <2>3 DEF Sound, Stays
    <3> QED BY <1>2, <1>4, <2>1, <2>3, <3>1, StoredStays
  <2> QED BY <2>3, <2>4, <2>5, StaysOn
<1> QED BY <1>5, <1>6

-----------------------------------------------------------------------------
(* Helpers of single operations. *)

LEMMA EqualHeaps ==
  ASSUME NEW A, NEW B, Shape(A), Shape(B), SameElems(A, B),
         \A d \in AllCells : A[d].live = B[d].live /\ A[d].refcount = B[d].refcount /\ A[d].str = B[d].str
  PROVE  A = B
<1>1. A \in [AllCells -> CellType] /\ B \in [AllCells -> CellType]  BY DEF Shape
<1>2. ASSUME NEW d \in AllCells
      PROVE  A[d] = B[d]
  <2>1. A[d] \in CellType /\ B[d] \in CellType  BY <1>1
  <2>2. A[d].elems = B[d].elems  BY DEF SameElems
  <2> QED BY <2>1, <2>2, SameCell
<1> QED BY <1>1, <1>2

LEMMA RetainFacts ==
  ASSUME NEW H, Shape(H), NEW h \in Handle, NEW G, G = Retain(H, h)
  PROVE  /\ Shape(G) /\ SameElems(H, G)
         /\ \A d \in AllCells : /\ G[d].live = H[d].live /\ G[d].str = H[d].str
                                /\ G[d].refcount = H[d].refcount + Bit(Refers(h, d))
<1>1. \A d \in AllCells : H[d].refcount \in Nat
  <2>1. \A d \in AllCells : H[d] \in CellType  BY DEF Shape
  <2> QED BY <2>1, CellFacts
<1>2. CASE ~IsRef(h)
  <2>1. G = H  BY <1>2 DEF Retain
  <2>2. \A d \in AllCells : Bit(Refers(h, d)) = 0 /\ H[d].refcount + 0 = H[d].refcount
    BY <1>1, <1>2 DEF Bit, Refers
  <2>3. \A d \in AllCells : H[d].refcount + Bit(Refers(h, d)) = H[d].refcount  BY <2>2
  <2> QED BY <2>1, <2>3 DEF SameElems
<1>3. CASE IsRef(h)
  <2> DEFINE c == h.p
  <2>1. G = Counted(H, c, 1)  BY <1>3 DEF Retain
  <2>2. \A d : Bit(Refers(h, d)) = IF d = c THEN 1 ELSE 0  BY <1>3 DEF Bit, Refers
  <2>3. c \in Cells /\ c \in AllCells  BY <1>3, HandleFacts, CellsFinite
  <2> HIDE DEF c
  <2>4. 1 \in Int /\ H[c].refcount + 1 \in Nat  BY <1>1, <2>3
  <2>5. /\ Shape(G) /\ SameElems(H, G) /\ \A d \in AllCells : d # c => G[d] = H[d]
        /\ G[c].refcount = H[c].refcount + 1 /\ G[c].live = H[c].live /\ G[c].str = H[c].str
    BY <2>1, <2>3, <2>4, CountedFacts
  <2>6. ASSUME NEW d \in AllCells
        PROVE  /\ G[d].live = H[d].live /\ G[d].str = H[d].str
               /\ G[d].refcount = H[d].refcount + Bit(Refers(h, d))
    <3>1. CASE d = c  BY <3>1, <2>2, <2>5
    <3>2. CASE d # c
      <4>1. Bit(Refers(h, d)) = 0 /\ H[d].refcount + 0 = H[d].refcount  BY <3>2, <2>2, <1>1
      <4> QED BY <3>2, <4>1, <2>5
    <3> QED BY <3>1, <3>2
  <2> QED BY <2>5, <2>6
<1> QED BY <1>2, <1>3

(* A handle that some place holds is about to be stored in another.        *)
LEMMA Retaining ==
  ASSUME NEW H, Sound(H, Frame), NEW y, Place(H, y), NEW G, G = Retain(H, At(H, y))
  PROVE  /\ Sound(G, Owner(At(H, y))) /\ SameElems(H, G) /\ Boxed(G, At(H, y))
         /\ \A d \in AllCells : G[d].live = H[d].live
<1> DEFINE v == At(H, y)
<1>1. Shape(H) /\ Exact(H, Frame) /\ Dense(H)  BY DEF Sound
<1>2. CASE ~IsRef(v)
  <2>1. G = H /\ Owner(v) = Frame  BY <1>2 DEF Retain, Owner
  <2>2. Boxed(H, v)  BY <1>2 DEF Boxed, IsRef, RefTypes
  <2> HIDE DEF v
  <2>3. Sound(G, Owner(v)) /\ SameElems(H, G) /\ Boxed(G, v)  BY <2>1, <2>2 DEF SameElems
  <2> QED BY <2>1, <2>3 DEF v
<1>3. CASE IsRef(v)
  <2>1. y \in RefSlots(H)  BY <1>1, <1>3, SlotFacts
  <2>2. v.p \in Cells /\ v.p \in AllCells /\ H[v.p].live /\ Boxed(H, v)
    BY <1>1, <2>1, ReferredLive, DenseFacts, CellsFinite
  <2>3. G = Counted(H, v.p, 1) /\ Owner(v) = v.p  BY <1>3 DEF Retain, Owner
  <2> HIDE DEF v
  <2>4. Sound(G, v.p) /\ SameElems(H, G) /\ \A d \in AllCells : G[d].live = H[d].live
    BY <2>2, <2>3, Counting
  <2>5. Boxed(G, v)  BY <2>2, <2>4 DEF Boxed, SameElems
  <2> QED BY <2>3, <2>4, <2>5 DEF v
<1> QED BY <1>2, <1>3

LEMMA Growing ==
  ASSUME NEW H, NEW c \in Cells, NEW n \in Nat, Sound(H, Frame), H[c].live,
         NEW R, R = WithStr(H, c, n)
  PROVE  /\ Sound(R, Frame) /\ SameElems(H, R)
         /\ \A d \in AllCells : R[d].live = H[d].live
<1> DEFINE cell == [H[c] EXCEPT !.str = n]
<1>1. Shape(H) /\ Clean(H) /\ Exact(H, Frame) /\ Dense(H)  BY DEF Sound
<1>2. c \in AllCells /\ c # Frame  BY CellsFinite
<1>3. H \in [AllCells -> CellType] /\ H[c] \in CellType  BY <1>1, <1>2 DEF Shape
<1>4. cell \in CellType  BY <1>3, CellFacts
<1>5. cell.refcount = H[c].refcount /\ cell.live = H[c].live /\ cell.elems = H[c].elems
  BY <1>3 DEF CellType
<1> HIDE DEF cell
<1>6. R = WithCell(H, c, cell)  BY DEF WithStr, cell
<1>7. /\ R \in [AllCells -> CellType] /\ R[c] = cell
      /\ \A d \in AllCells : d # c => R[d] = H[d]
  BY <1>2, <1>3, <1>4, <1>6, CellPut
<1>8. SameElems(H, R)  BY <1>5, <1>7 DEF SameElems
<1>9. Shape(R)  BY <1>1, <1>2, <1>7, CellsFinite DEF Shape
<1>10. \A d : Count(R, d) = Count(H, d)  BY <1>8, SameReferrers
<1>11. \A d \in AllCells : R[d].refcount = H[d].refcount /\ R[d].live = H[d].live
  BY <1>5, <1>7
<1>12. Exact(R, Frame)  BY <1>1, <1>10, <1>11, CellsFinite DEF Exact
<1>13. Clean(R)  BY <1>1, <1>5, <1>7, CellsFinite DEF Clean
<1>14. Dense(R)
  <2> SUFFICES ASSUME NEW s \in RefSlots(R)  PROVE Boxed(R, At(R, s))
    BY <1>9, DenseFacts
  <2>1. s \in RefSlots(H) /\ At(R, s) = At(H, s)  BY <1>1, <1>8, SameReferrers, SlotFacts
  <2>2. Boxed(H, At(H, s)) /\ At(H, s).p \in AllCells  BY <2>1, <1>1, DenseFacts, SlotFacts, CellsFinite
  <2> QED BY <2>1, <2>2, <1>8 DEF Boxed, SameElems
<1> QED BY <1>8, <1>9, <1>11, <1>12, <1>13, <1>14 DEF Sound

(* After an operation at a place that the variable r names.                *)
LEMMA GoodAfter ==
  ASSUME NEW H, NEW R, NEW r \in Roots, NEW x, NEW C, Good(H), Named(H, r, x),
         Supported(H, x, C), Sound(R, Frame), Stays(H, R, x, C)
  PROVE  Good(R)
<1>1. Shape(H) /\ Idle(H)  BY DEF Good, Sound
<1>2. Frame \in C  BY DEF Supported
<1>3. x # <<Frame, Nil>> /\ x # <<Frame, Temp>>  BY NamedApart
<1>4. Idle(R)  BY <1>1, <1>2, <1>3, StaysIdle
<1> QED BY <1>4 DEF Good

-----------------------------------------------------------------------------
(* The inductive invariant, and every operation of Next.                   *)

IInv == Good(heap) /\ Bounded(heap)

LEMMA BoundedRoom ==
  ASSUME NEW H, Bounded(H)
  PROVE  Room(H, 3) /\ Room(H, 1 + 2) /\ Room(H, 0 + 1)
<1> DEFINE Live == {c \in Cells : H[c].live}
           Free == {c \in Cells : ~H[c].live}
<1>1. Live \subseteq Cells /\ Cells \ Live = Free  OBVIOUS
<1>2. Cardinality(Live) <= MaxLive  BY DEF Bounded
<1> HIDE DEF Live, Free
<1>3. IsFiniteSet(Live) /\ Cardinality(Live) \in Nat  BY <1>1, CellsFinite, FS_Subset, FS_CardinalityType
<1>4. Cardinality(Cells \ Live) = Cardinality(Cells) - Cardinality(Live)
  <2>1. Cells \cap Live = Live  BY <1>1
  <2>2. IsFiniteSet(Cells)  BY CellsFinite
  <2>3. Cardinality(Cells \ Live) = Cardinality(Cells) - Cardinality(Cells \cap Live)
    BY <2>2, FS_Difference
  <2> QED BY <2>1, <2>3
<1>5. 3 <= Cardinality(Free)  BY <1>1, <1>2, <1>3, <1>4, CellsFinite, BoundsAssumption
<1>6. Room(H, 3)  BY <1>5 DEF Room, Free
<1>7. 0 + 1 <= Cardinality(Free)
  <2>1. Cardinality(Free) \in Nat  BY FreeFinite DEF Free
  <2> QED BY <1>5, <2>1
<1>8. Room(H, 0 + 1)  BY <1>7 DEF Room, Free
<1> QED BY <1>6, <1>8

LEMMA Reached ==
  ASSUME IInv, NEW r \in Roots, NEW ks \in Paths
  PROVE  Denotes(Lvalue(heap, r, ks), r, 0 + 1)
<1>1. Room(heap, 1 + 2)  BY BoundedRoom DEF IInv
<1>2. 1 \in Nat /\ 0 + 1 = 1  OBVIOUS
<1>3. Denotes(Lvalue(heap, r, ks), r, 1)  BY <1>1, <1>2, Reaching DEF IInv
<1> QED BY <1>2, <1>3

LEMMA Ending ==
  ASSUME NEW H, NEW exception, Good(H), Return(H) \/ Throw(H, exception)
  PROVE  IInv'
  BY DEF Return, Throw, IInv

LEMMA AssignIntStep ==
  ASSUME IInv, NEW r \in Roots, NEW ks \in Paths, AssignInt(r, ks)
  PROVE  IInv'
<1> DEFINE e == Lvalue(heap, r, ks)
           R == ReplacedScalar(e.heap, e.place, IntH)
<1>1. Return(R) \/ Throw(e.heap, "CDTAccessException")  BY DEF AssignInt
<1>2. Good(e.heap) /\ Named(e.heap, r, e.place)  BY Reached DEF Denotes
<1> HIDE DEF e
<1>3. Good(R)
  <2>1. PICK C : Supported(e.heap, e.place, C) /\ e.place[1] \in C  BY <1>2 DEF Named
  <2>2. Sound(e.heap, Frame) /\ Place(e.heap, e.place) /\ IntH \in Handle /\ ~IsRef(IntH)
    BY <1>2, HandleFacts DEF Good, Named
  <2>3. Sound(R, Frame) /\ Stays(e.heap, R, e.place, C)  BY <2>1, <2>2, ReplacingScalar
  <2> HIDE DEF R
  <2> QED BY <1>2, <2>1, <2>3, GoodAfter
<1> HIDE DEF R
<1> QED BY <1>1, <1>2, <1>3, Ending

LEMMA NewString ==
  ASSUME NEW e, NEW r \in Roots, NEW n \in Nat, Denotes(e, r, 0 + 1)
  PROVE  Good(ReplacedNew(e.heap, e.place, "STRING", NewCell(n, NoElems)))
<1> DEFINE R == ReplacedNew(e.heap, e.place, "STRING", NewCell(n, NoElems))
<1>1. Good(e.heap) /\ Named(e.heap, r, e.place) /\ Room(e.heap, 0 + 1)  BY DEF Denotes
<1>2. PICK C : Supported(e.heap, e.place, C) /\ e.place[1] \in C  BY <1>1 DEF Named
<1>3. Sound(e.heap, Frame) /\ Place(e.heap, e.place) /\ "STRING" \in RefTypes /\ 0 \in Nat
  BY <1>1 DEF Good, Named, RefTypes
<1>4. Sound(R, Frame) /\ Stays(e.heap, R, e.place, C)  BY <1>1, <1>2, <1>3, ReplacingNew
<1> HIDE DEF R
<1>5. Good(R)  BY <1>1, <1>2, <1>4, GoodAfter
<1> QED BY <1>5 DEF R

LEMMA AssignStrStep ==
  ASSUME IInv, NEW r \in Roots, NEW ks \in Paths, AssignStr(r, ks)
  PROVE  IInv'
<1> DEFINE e == Lvalue(heap, r, ks)
           R == ReplacedNew(e.heap, e.place, "STRING", NewCell(1, NoElems))
<1>1. Return(R) \/ Throw(e.heap, "CDTAccessException")  BY DEF AssignStr
<1>2. Denotes(e, r, 0 + 1)  BY Reached
<1> HIDE DEF e
<1>3. Good(R) /\ Good(e.heap)  BY <1>2, NewString DEF Denotes
<1> HIDE DEF R
<1> QED BY <1>1, <1>3, Ending

LEMMA DestroyStep ==
  ASSUME IInv, NEW r \in Roots, Destroy(r)
  PROVE  IInv'
<1> DEFINE x == <<Frame, r>>
           R == ReplacedScalar(heap, x, UndefH)
<1>1. Return(R)  BY DEF Destroy
<1>2. Good(heap) /\ Sound(heap, Frame) /\ Shape(heap) /\ r \in FrameKeys
  BY DEF IInv, Good, Sound, FrameKeys
<1>3. Place(heap, x) /\ Supported(heap, x, {Frame}) /\ Named(heap, r, x) /\ x[1] \in {Frame}
  BY <1>2, FrameNamed
<1> HIDE DEF x
<1>4. Sound(R, Frame) /\ Stays(heap, R, x, {Frame})
  BY <1>2, <1>3, HandleFacts, ReplacingScalar
<1> HIDE DEF R
<1>5. Good(R)  BY <1>2, <1>3, <1>4, GoodAfter
<1> QED BY <1>1, <1>5, Ending

LEMMA Reading ==
  ASSUME NEW H, Shape(H), NEW q \in Roots, NEW js \in Paths, Len(js) < 2
  PROVE  Place(H, Rvalue(H, q, js).place)
<1> DEFINE h == H[Frame].elems[q]
<1>1. q \in FrameKeys /\ Nil \in FrameKeys  BY DEF FrameKeys
<1>2. Place(H, <<Frame, q>>) /\ Place(H, <<Frame, Nil>>)
  <2>1. \A z \in FrameKeys : z \in AllKeys /\ z \in DOMAIN H[Frame].elems  BY KeysFinite DEF Shape
  <2> QED BY <2>1, <1>1, CellsFinite DEF Place
<1>3. CASE js = <<>>  BY <1>2, <1>3 DEF Rvalue
<1>4. CASE js # <<>>
  <2> DEFINE k == js[1]
  <2>1. CASE h.t # BoxOf(k)
    <3>1. Rvalue(H, q, js) = [place |-> <<Frame, Nil>>, ok |-> TRUE]  BY <1>4, <2>1 DEF Rvalue
    <3> QED BY <3>1, <1>2
  <2>2. CASE h.t = BoxOf(k) /\ k \in DOMAIN H[h.p].elems
    <3>1. Rvalue(H, q, js) = [place |-> <<h.p, k>>, ok |-> TRUE]  BY <1>4, <2>2 DEF Rvalue
    <3>2. h \in Handle /\ IsRef(h)
      <4>1. At(H, <<Frame, q>>) = h  BY DEF At
      <4>2. h \in Handle  BY <1>2, <4>1, SlotFacts
      <4> QED BY <2>2, <4>2 DEF BoxOf, IsRef, RefTypes
    <3>3. h.p \in AllCells  BY <3>2, HandleFacts, CellsFinite
    <3>4. H[h.p] \in CellType  BY <3>3 DEF Shape
    <3>5. k \in AllKeys  BY <2>2, <3>4, CellFacts
    <3>6. Place(H, <<h.p, k>>)  BY <2>2, <3>3, <3>5 DEF Place
    <3> QED BY <3>1, <3>6
  <2>3. CASE h.t = BoxOf(k) /\ k \notin DOMAIN H[h.p].elems
    <3>1. Rvalue(H, q, js) = [place |-> <<Frame, Nil>>, ok |-> ~IsPos(k)]  BY <1>4, <2>3 DEF Rvalue
    <3> QED BY <3>1, <1>2
  <2> QED BY <2>1, <2>2, <2>3
<1> QED BY <1>3, <1>4

LEMMA AssignStep ==
  ASSUME NestedSource = FALSE, IInv, NEW r \in Roots, NEW q \in Roots,
         NEW ks \in Paths, NEW js \in Paths, Len(js) < 2, Assign(r, ks, q, js)
  PROVE  IInv'
<1> DEFINE e == Lvalue(heap, r, ks)
           y == Rvalue(e.heap, q, js)
           R == Assigned(e.heap, e.place, y.place)
<1>1. \/ Throw(e.heap, "CDTAccessException") \/ Throw(e.heap, "CDTRangeException")
      \/ SafeSource(e.heap, e.place, y.place) /\ Return(R)
  BY DEF Assign
<1>2. Good(e.heap) /\ Named(e.heap, r, e.place)  BY Reached DEF Denotes
<1> HIDE DEF e
<1>3. Sound(e.heap, Frame) /\ Shape(e.heap) /\ Place(e.heap, e.place)  BY <1>2 DEF Good, Sound, Named
<1>4. Place(e.heap, y.place)  BY <1>3, Reading
<1> HIDE DEF y
<1>5. CASE SafeSource(e.heap, e.place, y.place) /\ Return(R)
  <2>1. ~LostSource(e.heap, e.place, y.place)  BY <1>5 DEF SafeSource
  <2>2. PICK C : Supported(e.heap, e.place, C) /\ e.place[1] \in C  BY <1>2 DEF Named
  <2>3. Sound(R, Frame) /\ Stays(e.heap, R, e.place, C)  BY <1>3, <1>4, <2>1, <2>2, Assigning
  <2> HIDE DEF R
  <2>4. Good(R)  BY <1>2, <2>2, <2>3, GoodAfter
  <2> QED BY <1>5, <2>4, Ending
<1> QED BY <1>1, <1>2, <1>5, Ending

LEMMA EraseStep ==
  ASSUME IInv, NEW r \in Roots, NEW k \in HashKeys, Erase(r, k)
  PROVE  IInv'
<1> DEFINE x  == <<Frame, r>>
           H1 == Unshared(heap, x)
           c  == At(H1, x).p
           D  == Destroyed(H1, <<c, k>>)
           Dm == DOMAIN H1[c].elems \ {k}
           f  == [i \in Dm |-> D[c].elems[i]]
           R  == WithElems(D, c, f)
<1>1. \/ Throw(heap, "CDTAccessException")
      \/ At(heap, x).t = "HASH" /\ Return(H1)
      \/ At(heap, x).t = "HASH" /\ k \in DOMAIN H1[c].elems /\ Return(R)
  BY DEF Erase
<1>2. Good(heap) /\ Sound(heap, Frame) /\ Shape(heap) /\ r \in FrameKeys /\ Room(heap, 0 + 1)
  BY BoundedRoom DEF IInv, Good, Sound, FrameKeys
<1>3. Place(heap, x) /\ Supported(heap, x, {Frame}) /\ Named(heap, r, x) /\ x[1] = Frame
  BY <1>2, FrameNamed
<1>4. CASE At(heap, x).t = "HASH"
  <2>1. IsRef(At(heap, x))  BY <1>4 DEF IsRef, RefTypes
  <2>2. {Frame} \subseteq AllCells /\ (\A d \in {Frame} : heap[d].live) /\ x[1] \in {Frame} /\ 0 \in Nat
    BY <1>2, <1>3, CellsFinite DEF Shape
  <2> HIDE DEF x
  <2>3. /\ Sound(H1, Frame) /\ Place(H1, x)
        /\ At(H1, x).t = At(heap, x).t /\ IsRef(At(H1, x)) /\ c \in Cells
        /\ H1[c].refcount = 1
        /\ Stays(heap, H1, x, {Frame})
    <3> DEFINE C == {Frame}
    <3>1. /\ Sound(heap, Frame) /\ Place(heap, x) /\ IsRef(At(heap, x)) /\ Room(heap, 0 + 1)
          /\ C \subseteq AllCells /\ (\A d \in C : heap[d].live) /\ x[1] \in C /\ 0 \in Nat
      BY <1>2, <1>3, <2>1, <2>2
    <3> HIDE DEF C
    <3>2. /\ Sound(H1, Frame) /\ Place(H1, x)
          /\ At(H1, x).t = At(heap, x).t /\ IsRef(At(H1, x)) /\ c \in Cells
          /\ H1[c].refcount = 1
          /\ Stays(heap, H1, x, C)
      BY <3>1, Unsharing
    <3> QED BY <3>2 DEF C
  <2> HIDE DEF H1
  <2>4. Good(H1)  BY <1>2, <1>3, <2>3, GoodAfter
  <2>5. CASE k \in DOMAIN H1[c].elems
    <3> DEFINE y == <<c, k>>
               C == {Frame} \cup {c}
    <3>1. Shape(H1) /\ Exact(H1, Frame) /\ c \in AllCells /\ c # Frame /\ c \notin {Frame}
      BY <2>3, CellsFinite DEF Sound
    <3>2. k \in AllKeys /\ DOMAIN H1[c].elems \subseteq AllKeys
      <4>1. H1[c] \in CellType  BY <3>1 DEF Shape
      <4> QED BY <2>5, <4>1, CellFacts
    <3>3. Place(H1, y)  BY <2>5, <3>1, <3>2 DEF Place
    <3>4. Supported(H1, x, {Frame})  BY <3>1, <1>2, FrameNamed DEF x
    <3>5. Supported(H1, y, C)  BY <3>1, <3>4, <2>2, <2>3, SupportedOn
    <3>6. y[1] \in C /\ Frame \in AllCells  BY CellsFinite
    <3>7. Referrers(H1, c) = {x}  BY <2>3, OnlyHandle
    <3> HIDE DEF c
    <3>8. /\ Sound(D, Frame) /\ Place(D, y) /\ ~IsRef(At(D, y)) /\ Remains(H1, D, y)
          /\ Stays(H1, D, y, C)
      BY <2>3, <3>3, <3>5, <3>6, Destroying DEF c
    <3> HIDE DEF D
    <3>9. D[c].live /\ DOMAIN D[c].elems = DOMAIN H1[c].elems
      <4>1. D[c].live  BY <3>8 DEF Stays
      <4> QED BY <4>1, <3>1, <3>8 DEF Remains
    <3>10. Shape(D) /\ Clean(D) /\ Exact(D, Frame)  BY <3>8 DEF Sound
    <3>11. Elements(c, Dm, f)
      <4>1. D[c] \in CellType  BY <3>1, <3>10 DEF Shape
      <4>2. \A i \in Dm : D[c].elems[i] \in Handle  BY <4>1, <3>9, CellFacts
      <4> QED BY <4>2, <3>1, <3>2 DEF Elements
    <3>12. \A s \in Referrers(D, c) : At(D, s).t # "ARRAY"
      <4>1. \A s \in RefSlots(D) : At(D, s) = At(H1, s)  BY <3>1, <3>8, <3>10, RemainsRefs
      <4>2. Referrers(D, c) \subseteq Referrers(H1, c)  BY <3>1, <3>8, <3>10, RemainsRefs
      <4>3. \A s \in Referrers(D, c) : s \in RefSlots(D) /\ s = x  BY <4>2, <3>7 DEF Referrers
      <4>4. At(H1, x).t = "HASH"  BY <1>4, <2>3
      <4> QED BY <4>1, <4>3, <4>4
    <3>13. SameRefs(D, c, Dm, f)
      <4>1. ~IsRef(D[c].elems[k])  BY <3>8 DEF At
      <4>2. \A i \in DOMAIN D[c].elems : IsRef(D[c].elems[i]) => i \in Dm /\ f[i] = D[c].elems[i]
        BY <4>1, <3>9
      <4>3. \A i \in Dm : IsRef(f[i]) => i \in DOMAIN D[c].elems /\ f[i] = D[c].elems[i]
        BY <3>9
      <4> QED BY <4>2, <4>3, <3>11, <3>12 DEF SameRefs
    <3> HIDE DEF f, Dm
    <3>14. c \in Cells  BY <2>3 DEF c
    <3>15. Sound(R, Frame) /\ Reshaped(D, R, c, Dm, f)
      BY <3>8, <3>9, <3>13, <3>14, Reshaping
    <3> HIDE DEF R
    <3>16. Idle(D)
      <4>1. y # <<Frame, Nil>> /\ y # <<Frame, Temp>> /\ Frame \in C /\ Idle(H1)
        BY <2>4, <3>1 DEF Good
      <4> QED BY <4>1, <3>1, <3>8, StaysIdle
    <3>17. R[Frame] = D[Frame]  BY <3>15, <3>1, CellsFinite DEF Reshaped
    <3>18. Good(R)  BY <3>15, <3>16, <3>17 DEF Good, Idle
    <3> HIDE DEF x
    <3> QED BY <1>1, <1>2, <2>4, <3>18, Ending
  <2> QED BY <1>1, <1>2, <2>4, <2>5, Ending
<1> QED BY <1>1, <1>2, <1>4, Ending

LEMMA AtAssignIntStep ==
  ASSUME IInv, NEW r \in Roots, NEW k \in Keys, AtAssignInt(r, k)
  PROVE  IInv'
<1> DEFINE x == <<Frame, r>>
           c == At(heap, x).p
           y == <<c, k>>
           C == {Frame} \cup {c}
           R == ReplacedScalar(heap, y, IntH)
<1>1. \/ Throw(heap, "CDTAccessException") \/ Throw(heap, "CDTRangeException")
      \/ At(heap, x).t = BoxOf(k) /\ k \in DOMAIN heap[c].elems /\ Return(R)
  BY DEF AtAssignInt
<1>2. Good(heap) /\ Sound(heap, Frame) /\ Shape(heap) /\ Exact(heap, Frame) /\ r \in FrameKeys
  BY DEF IInv, Good, Sound, FrameKeys
<1>3. Place(heap, x) /\ Supported(heap, x, {Frame}) /\ x[1] \in {Frame}
  BY <1>2, FrameNamed
<1> HIDE DEF x
<1>4. CASE At(heap, x).t = BoxOf(k) /\ k \in DOMAIN heap[c].elems /\ Return(R)
  <2>1. IsRef(At(heap, x))  BY <1>4 DEF BoxOf, IsRef, RefTypes
  <2>2. c \in Cells /\ c \in AllCells /\ c # Frame /\ c \notin {Frame}
    <3>1. At(heap, x) \in Handle  BY <1>2, <1>3, SlotFacts
    <3> QED BY <2>1, <3>1, HandleFacts, CellsFinite
  <2>3. Supported(heap, y, C)  BY <1>2, <1>3, <2>1, <2>2, SupportedOn
  <2>4. Place(heap, y)  BY <1>4, <2>2, KeysFinite DEF Place
  <2>5. y[1] \in C /\ y # <<Frame, Nil>> /\ y # <<Frame, Temp>> /\ Frame \in C  BY <2>2
  <2> HIDE DEF c
  <2>6. Sound(R, Frame) /\ Stays(heap, R, y, C)
    BY <1>2, <2>3, <2>4, <2>5, HandleFacts, ReplacingScalar
  <2> HIDE DEF R, y, C
  <2>7. Idle(heap)  BY <1>2 DEF Good
  <2>8. Idle(R)  BY <1>2, <2>5, <2>6, <2>7, StaysIdle
  <2>9. Good(R)  BY <2>6, <2>8 DEF Good
  <2> QED BY <1>4, <2>9, Ending
<1> QED BY <1>1, <1>2, <1>4, Ending

LEMMA ConcatStep ==
  ASSUME IInv, NEW r \in Roots, NEW ks \in Paths, Concat(r, ks)
  PROVE  IInv'
<1> DEFINE e  == Lvalue(heap, r, ks)
           N1 == ReplacedNew(e.heap, e.place, "STRING", NewCell(1, NoElems))
           N2 == ReplacedNew(e.heap, e.place, "STRING", NewCell(2, NoElems))
           H1 == Unshared(e.heap, e.place)
           c  == At(H1, e.place).p
           R  == WithStr(H1, c, H1[c].str + 1)
<1>1. \/ Throw(e.heap, "CDTAccessException") \/ Throw(e.heap, "CDTTypeCastException")
      \/ Return(N1) \/ Return(N2)
      \/ At(e.heap, e.place).t = "STRING" /\ Return(R)
  BY DEF Concat
<1>2. Denotes(e, r, 0 + 1)  BY Reached
<1> HIDE DEF e
<1>3. Good(e.heap) /\ Named(e.heap, r, e.place) /\ Room(e.heap, 0 + 1)  BY <1>2 DEF Denotes
<1>4. Good(N1) /\ Good(N2)
  <2>1. 1 \in Nat /\ 2 \in Nat  OBVIOUS
  <2> QED BY <1>2, <2>1, NewString
<1>5. CASE At(e.heap, e.place).t = "STRING" /\ Return(R)
  <2>1. PICK C : Supported(e.heap, e.place, C) /\ e.place[1] \in C  BY <1>3 DEF Named
  <2>2. Sound(e.heap, Frame) /\ Place(e.heap, e.place) /\ IsRef(At(e.heap, e.place)) /\ 0 \in Nat
    BY <1>3, <1>5 DEF Good, Named, IsRef, RefTypes
  <2>3. C \subseteq AllCells /\ \A d \in C : e.heap[d].live  BY <2>1 DEF Supported
  <2>4. /\ Sound(H1, Frame) /\ c \in Cells /\ H1[c].refcount = 1
        /\ Stays(e.heap, H1, e.place, C)
    BY <1>3, <2>1, <2>2, <2>3, Unsharing
  <2> HIDE DEF H1
  <2>5. Good(H1)  BY <1>3, <2>1, <2>4, GoodAfter
  <2> HIDE DEF c
  <2>6. H1[c].live  BY <2>4 DEF Sound, Exact
  <2>7. H1[c].str + 1 \in Nat
    <3>1. H1[c] \in CellType  BY <2>4, CellsFinite DEF Sound, Shape
    <3> QED BY <3>1, CellFacts
  <2>8. Sound(R, Frame) /\ SameElems(H1, R)  BY <2>4, <2>6, <2>7, Growing
  <2> HIDE DEF R
  <2>9. R[Frame].elems = H1[Frame].elems  BY <2>8, CellsFinite DEF SameElems
  <2>10. Good(R)  BY <2>5, <2>8, <2>9 DEF Good, Idle
  <2> QED BY <1>5, <2>10, Ending
<1> HIDE DEF N1, N2
<1> QED BY <1>1, <1>3, <1>4, <1>5, Ending

LEMMA SwapStep ==
  ASSUME IInv, NEW r \in Roots, NEW q \in Roots, Swap(r, q)
  PROVE  IInv'
<1> DEFINE tmp == <<Frame, Temp>>
           nil == <<Frame, Nil>>
           a  == <<Frame, r>>
           b  == <<Frame, q>>
           C  == {Frame}
           v  == At(heap, b)
           K  == Retain(heap, v)
           H1 == SetAt(K, tmp, v)
           H2 == Assigned(H1, b, a)
           H3 == Assigned(H2, a, tmp)
           R  == ReplacedScalar(H3, tmp, UndefH)
<1>1. Return(R)  BY DEF Swap
<1>2. Good(heap) /\ Sound(heap, Frame) /\ Shape(heap) /\ Idle(heap)  BY DEF IInv, Good, Sound
<1>3. r \in FrameKeys /\ q \in FrameKeys /\ Nil \in FrameKeys /\ Temp \in FrameKeys
  BY DEF FrameKeys
<1>4. /\ a[1] \in C /\ b[1] \in C /\ tmp[1] \in C /\ nil[1] \in C /\ Frame \in AllCells
      /\ nil # a /\ nil # b /\ nil # tmp
  BY NamesAssumption, CellsFinite DEF Nil, Temp
<1>5. \A G : Shape(G) => /\ Place(G, a) /\ Supported(G, a, C) /\ Place(G, b) /\ Supported(G, b, C)
                         /\ Place(G, tmp) /\ Supported(G, tmp, C) /\ Place(G, nil)
  BY <1>3, FrameNamed
<1>6. /\ Sound(K, Owner(v)) /\ SameElems(heap, K) /\ Boxed(K, v)
      /\ \A d \in AllCells : K[d].live = heap[d].live
  BY <1>2, <1>5, Retaining
<1>7. v \in Handle  BY <1>2, <1>5, SlotFacts
<1>8. At(heap, tmp) = UndefH /\ At(heap, nil) = UndefH  BY <1>2 DEF Idle, At
<1>9. At(K, tmp) = UndefH /\ At(K, nil) = UndefH /\ Shape(K)
  <2>1. Shape(K)  BY <1>6 DEF Sound
  <2> HIDE DEF K, tmp, nil
  <2>2. Place(heap, tmp) /\ Place(heap, nil)  BY <1>2, <1>5
  <2> QED BY <2>1, <2>2, <1>6, <1>8, SameReferrers
<1>10. Owner(v) = IF IsRef(v) THEN v.p ELSE Frame  BY DEF Owner
<1> HIDE DEF v, K, tmp, nil, a, b, C
<1>11. Sound(H1, Frame)  BY <1>5, <1>6, <1>7, <1>9, <1>10, HandleFacts, Storing
<1>12. At(H1, nil) = UndefH  BY <1>4, <1>5, <1>7, <1>9, StoredFacts
<1>13. Shape(H1)  BY <1>11 DEF Sound
<1> HIDE DEF H1
<1>14. Sound(H2, Frame) /\ Stays(H1, H2, b, C)
  <2>1. ~LostSource(H1, b, a)  BY <1>4, <1>5, <1>11, <1>13, SourceLives
  <2> QED BY <1>4, <1>5, <1>11, <1>13, <2>1, Assigning
<1>15. Shape(H2)  BY <1>14 DEF Sound
<1> HIDE DEF H2
<1>16. At(H2, nil) = UndefH  BY <1>4, <1>5, <1>12, <1>13, <1>14, <1>15, StaysRefers
<1>17. Sound(H3, Frame) /\ Stays(H2, H3, a, C)
  <2>1. ~LostSource(H2, a, tmp)  BY <1>4, <1>5, <1>14, <1>15, SourceLives
  <2> QED BY <1>4, <1>5, <1>14, <1>15, <2>1, Assigning
<1>18. Shape(H3)  BY <1>17 DEF Sound
<1> HIDE DEF H3
<1>19. At(H3, nil) = UndefH  BY <1>4, <1>5, <1>15, <1>16, <1>17, <1>18, StaysRefers
<1>20. Sound(R, Frame) /\ At(R, tmp) = UndefH /\ Stays(H3, R, tmp, C)
  BY <1>4, <1>5, <1>17, <1>18, HandleFacts, ReplacingScalar
<1>21. Shape(R)  BY <1>20 DEF Sound
<1> HIDE DEF R
<1>22. At(R, nil) = UndefH  BY <1>4, <1>5, <1>18, <1>19, <1>20, <1>21, StaysRefers
<1>23. Idle(R)  BY <1>20, <1>22 DEF Idle, At, tmp, nil
<1>24. Good(R)  BY <1>20, <1>23 DEF Good
<1> QED BY <1>1, <1>24, Ending

(* The last element of an array, which is no reference, takes the handle   *)
(* v: PushBack builds both at once.                                        *)
LEMMA Appended ==
  ASSUME NEW H, Shape(H), NEW c \in Cells, NEW n \in Nat, NEW v \in Handle, NEW f, NEW g,
         Elements(c, 0 .. n, f), Elements(c, 0 .. n, g), g[n] = v,
         \A i \in 0 .. n : i # n => g[i] = f[i],
         NEW K, K = Retain(WithElems(H, c, f), v), Place(K, <<c, n>>)
  PROVE  Retain(WithElems(H, c, g), v) = SetAt(K, <<c, n>>, v)
<1> DEFINE G == WithElems(H, c, f)
           W == WithElems(H, c, g)
           R == Retain(W, v)
           z == <<c, n>>
           S == SetAt(K, z, v)
<1>1. c \in AllCells  BY CellsFinite
<1>2. ElemsOnly(H, G, c, f) /\ ElemsOnly(H, W, c, g)  BY <1>1, ElemsPut
<1> HIDE DEF G, W
<1>3. Shape(G) /\ Shape(W)  BY <1>2 DEF ElemsOnly
<1>4. /\ Shape(K) /\ SameElems(G, K)
      /\ \A d \in AllCells : /\ K[d].live = G[d].live /\ K[d].str = G[d].str
                             /\ K[d].refcount = G[d].refcount + Bit(Refers(v, d))
  BY <1>3, RetainFacts DEF G
<1>5. /\ Shape(R) /\ SameElems(W, R)
      /\ \A d \in AllCells : /\ R[d].live = W[d].live /\ R[d].str = W[d].str
                             /\ R[d].refcount = W[d].refcount + Bit(Refers(v, d))
  BY <1>3, RetainFacts
<1>6. /\ Shape(S)
      /\ \A d \in AllCells : S[d].live = K[d].live /\ S[d].refcount = K[d].refcount
                             /\ S[d].str = K[d].str /\ DOMAIN S[d].elems = DOMAIN K[d].elems
      /\ \A d \in AllCells : d # c => S[d] = K[d]
      /\ At(S, z) = v
      /\ \A s : Place(K, s) /\ s # z => At(S, s) = At(K, s)
  BY <1>4, StoredFacts
<1> HIDE DEF R, S
<1>7. \A d \in AllCells : G[d].live = W[d].live /\ G[d].refcount = W[d].refcount /\ G[d].str = W[d].str
  BY <1>2 DEF ElemsOnly
<1>8. \A d \in AllCells : R[d].live = S[d].live /\ R[d].refcount = S[d].refcount /\ R[d].str = S[d].str
  BY <1>4, <1>5, <1>6, <1>7
<1>9. \A d \in AllCells : d # c => R[d].elems = S[d].elems
  BY <1>2, <1>4, <1>5, <1>6 DEF SameElems, ElemsOnly
<1>10. S[c].elems = R[c].elems
  <2>1. R[c].elems = g /\ K[c].elems = f  BY <1>1, <1>2, <1>4, <1>5 DEF SameElems, ElemsOnly
  <2>2. f \in [0 .. n -> Handle] /\ g \in [0 .. n -> Handle] /\ 0 .. n \subseteq AllKeys
    BY DEF Elements
  <2>3. DOMAIN S[c].elems = 0 .. n  BY <1>1, <1>6, <2>1, <2>2
  <2>4. S[c].elems \in [0 .. n -> Handle]
    <3>1. S[c] \in CellType  BY <1>1, <1>6 DEF Shape
    <3> QED BY <3>1, <2>3, CellFacts
  <2>5. \A i \in 0 .. n : S[c].elems[i] = g[i]
    <3> SUFFICES ASSUME NEW i \in 0 .. n  PROVE S[c].elems[i] = g[i]  OBVIOUS
    <3>1. CASE i = n  BY <3>1, <1>6 DEF At
    <3>2. CASE i # n
      <4>1. Place(K, <<c, i>>)  BY <1>1, <2>1, <2>2 DEF Place
      <4>2. At(S, <<c, i>>) = At(K, <<c, i>>)  BY <1>6, <3>2, <4>1
      <4>3. S[c].elems[i] = K[c].elems[i]  BY <4>2 DEF At
      <4> QED BY <4>3, <2>1, <3>2
    <3> QED BY <3>1, <3>2
  <2> DEFINE e == S[c].elems
  <2>6. e \in [0 .. n -> Handle] /\ \A i \in 0 .. n : e[i] = g[i]  BY <2>4, <2>5
  <2> HIDE DEF e
  <2>7. e = g  BY <2>2, <2>6
  <2> QED BY <2>1, <2>7 DEF e
<1>11. SameElems(R, S)
  <2> SUFFICES ASSUME NEW d \in AllCells  PROVE S[d].elems = R[d].elems  BY DEF SameElems
  <2> QED BY <1>9, <1>10
<1>12. R = S  BY <1>5, <1>6, <1>8, <1>11, EqualHeaps
<1> QED BY <1>12 DEF R, S, W

(* The array PushBack works on: one made for it, or one with one handle.   *)
LEMMA OwnArray ==
  ASSUME IInv, NEW x, NEW r \in FrameKeys, x = <<Frame, r>>, NEW H,
         H = IF At(heap, x).t = "UNDEF" THEN ReplacedNew(heap, x, "ARRAY", NewCell(0, NoElems)) ELSE heap,
         At(heap, x).t \in {"UNDEF", "ARRAY"}, Private(At(heap, x))
  PROVE  /\ Sound(H, Frame) /\ Place(H, x)
         /\ At(H, x).t = "ARRAY" /\ IsRef(At(H, x)) /\ At(H, x).p \in Cells
         /\ H[At(H, x).p].refcount = 1
         /\ Stays(heap, H, x, {Frame})
<1>1. Good(heap) /\ Sound(heap, Frame) /\ Shape(heap) /\ Room(heap, 0 + 1) /\ 0 \in Nat
  BY BoundedRoom DEF IInv, Good, Sound
<1>2. Place(heap, x) /\ Supported(heap, x, {Frame}) /\ x[1] \in {Frame}  BY <1>1, FrameNamed
<1>3. CASE At(heap, x).t = "UNDEF"
  <2>1. H = ReplacedNew(heap, x, "ARRAY", NewCell(0, NoElems)) /\ "ARRAY" \in RefTypes
    BY <1>3 DEF RefTypes
  <2> QED BY <1>1, <1>2, <2>1, ReplacingNew
<1>4. CASE At(heap, x).t = "ARRAY"
  <2>1. H = heap /\ IsRef(At(heap, x))  BY <1>4 DEF IsRef, RefTypes
  <2>2. heap[At(heap, x).p].refcount = 1  BY <2>1 DEF Private
  <2>3. At(heap, x).p \in Cells
    <3>1. At(heap, x) \in Handle  BY <1>1, <1>2, SlotFacts
    <3> QED BY <2>1, <3>1, HandleFacts
  <2>4. Stays(heap, heap, x, {Frame})  BY <1>1 DEF Stays, Shape
  <2> QED BY <1>1, <1>2, <1>4, <2>1, <2>2, <2>3, <2>4
<1> QED BY <1>3, <1>4

LEMMA PushBackStep ==
  ASSUME IInv, NEW r \in Roots, NEW q \in Roots, PushBack(r, q)
  PROVE  IInv'
<1> DEFINE x  == <<Frame, r>>
           b  == <<Frame, q>>
           h  == At(heap, x)
           v  == At(heap, b)
           H  == IF h.t = "UNDEF" THEN ReplacedNew(heap, x, "ARRAY", NewCell(0, NoElems)) ELSE heap
           c  == At(H, x).p
           n  == Cardinality(DOMAIN H[c].elems)
           f  == [i \in 0 .. n |-> IF i < n THEN H[c].elems[i] ELSE UndefH]
           g  == [i \in 0 .. n |-> IF i < n THEN H[c].elems[i] ELSE v]
           R  == Retain(WithElems(H, c, g), v)
<1>1. \/ Throw(heap, "CDTAccessException")
      \/ h.t \in {"UNDEF", "ARRAY"} /\ q # r /\ Private(h) /\ n < MaxLen /\ Return(R)
  BY Zenon DEF PushBack
<1>2. Good(heap) /\ Shape(heap) /\ r \in FrameKeys /\ q \in FrameKeys
  BY DEF IInv, Good, Sound, FrameKeys
<1>3. Place(heap, x) /\ Named(heap, r, x) /\ Supported(heap, x, {Frame}) /\ Place(heap, b)
  BY <1>2, FrameNamed
<1>4. CASE h.t \in {"UNDEF", "ARRAY"} /\ q # r /\ Private(h) /\ n < MaxLen /\ Return(R)
  <2>1. /\ Sound(H, Frame) /\ Place(H, x)
        /\ At(H, x).t = "ARRAY" /\ IsRef(At(H, x)) /\ c \in Cells
        /\ H[c].refcount = 1 /\ Stays(heap, H, x, {Frame})
    BY <1>2, <1>4, OwnArray, Zenon
  <2> HIDE DEF H
  <2>2. Good(H)  BY <1>2, <1>3, <2>1, GoodAfter
  <2>3. Shape(H) /\ Dense(H) /\ c \in AllCells /\ c # Frame /\ H[c].live /\ H[c] \in CellType
    <3>1. Shape(H) /\ Dense(H) /\ Exact(H, Frame)  BY <2>1 DEF Sound
    <3>2. H[c].live  BY <2>1, <3>1 DEF Exact
    <3> QED BY <2>1, <3>1, <3>2, CellsFinite DEF Shape
  <2>4. v = At(H, b) /\ Place(H, b) /\ v \in Handle
    <3>1. b[1] \in {Frame} /\ b # x  BY <1>4
    <3>2. v \in Handle  BY <1>2, <1>3, SlotFacts
    <3> HIDE DEF x, b
    <3> QED BY <1>2, <1>3, <2>1, <2>3, <3>1, <3>2, StaysRefers
  <2>5. Referrers(H, c) = {x}  BY <2>1, OnlyHandle
  <2>6. n \in Nat /\ DOMAIN H[c].elems = 0 .. n - 1
    <3>1. x \in RefSlots(H)  BY <2>1, <2>3, SlotFacts
    <3>2. Boxed(H, At(H, x))  BY <2>3, <3>1, DenseFacts
    <3>3. PICK m \in 0 .. MaxLen : DOMAIN H[c].elems = 0 .. m - 1  BY <2>1, <3>2 DEF Boxed
    <3>4. m \in Nat /\ 0 \in Int /\ m - 1 \in Int  BY BoundsAssumption
    <3>5. Cardinality(0 .. m - 1) = IF 0 > m - 1 THEN 0 ELSE m - 1 - 0 + 1
      BY <3>4, FS_Interval
    <3>6. Cardinality(0 .. m - 1) = m  BY <3>4, <3>5
    <3> QED BY <3>3, <3>4, <3>6
  <2> HIDE DEF n
  <2>7. n < MaxLen /\ 0 .. n \subseteq AllKeys /\ n \in 0 .. n /\ n + 1 \in 0 .. MaxLen /\ 0 .. n = 0 .. (n + 1) - 1
    <3>1. n < MaxLen  BY <1>4
    <3>2. 0 .. n \subseteq 0 .. MaxLen - 1  BY <2>6, <3>1, BoundsAssumption
    <3>3. 0 .. MaxLen - 1 \subseteq AllKeys  BY DEF AllKeys, Keys
    <3>4. n \in 0 .. n /\ n + 1 \in 0 .. MaxLen /\ n = (n + 1) - 1
      BY <2>6, <3>1, BoundsAssumption
    <3> QED BY <3>1, <3>2, <3>3, <3>4
  <2>8. Elements(c, 0 .. n, f) /\ Elements(c, 0 .. n, g)
    <3>1. \A i \in 0 .. n : i < n => i \in DOMAIN H[c].elems  BY <2>6
    <3>2. \A i \in 0 .. n : i < n => H[c].elems[i] \in Handle  BY <2>3, <3>1, CellFacts
    <3>3. UndefH \in Handle  BY HandleFacts
    <3>4. f \in [0 .. n -> Handle] /\ g \in [0 .. n -> Handle]  BY <3>2, <3>3, <2>4
    <3> HIDE DEF f, g
    <3> QED BY <3>4, <2>3, <2>7 DEF Elements
  <2>9. /\ f[n] = UndefH /\ g[n] = v /\ \A i \in 0 .. n : i # n => g[i] = f[i]
        /\ \A i \in 0 .. n : i # n => i \in DOMAIN H[c].elems /\ f[i] = H[c].elems[i]
    BY <2>6, <2>7
  <2> HIDE DEF f, g
  <2>10. SameRefs(H, c, 0 .. n, f)
    <3>1. \A k \in DOMAIN H[c].elems : k \in 0 .. n /\ k # n /\ f[k] = H[c].elems[k]
      <4>1. \A k \in 0 .. n - 1 : k \in 0 .. n /\ k # n  BY <2>6
      <4> QED BY <4>1, <2>6, <2>9
    <3>2. \A k \in 0 .. n : IsRef(f[k]) => k # n  BY <2>9, HandleFacts
    <3>3. \E m \in 0 .. MaxLen : 0 .. n = 0 .. m - 1  BY <2>7
    <3> QED BY <2>8, <2>9, <3>1, <3>2, <3>3 DEF SameRefs
  <2> DEFINE G == WithElems(H, c, f)
             K == Retain(G, v)
             z == <<c, n>>
             S == SetAt(K, z, v)
  <2>11. Sound(G, Frame) /\ Reshaped(H, G, c, 0 .. n, f)
    BY <2>1, <2>3, <2>10, Reshaping
  <2> HIDE DEF G
  <2>12. /\ Shape(G) /\ G[Frame] = H[Frame] /\ Place(G, z) /\ At(G, z) = UndefH
         /\ Place(G, b) /\ v = At(G, b)
    <3>1. Shape(G)  BY <2>11 DEF Sound
    <3>2. G[Frame] = H[Frame]  BY <2>3, <2>11, CellsFinite DEF Reshaped
    <3>3. G[c].elems = f /\ DOMAIN f = 0 .. n  BY <2>8, <2>11 DEF Reshaped, Elements
    <3>4. z[1] = c /\ z[2] = n /\ z \in AllCells \X AllKeys
      <4>1. c \in AllCells /\ n \in AllKeys  BY <2>3, <2>7, ZenonT(30)
      <4> QED BY <4>1
    <3>5. Place(G, z) /\ At(G, z) = UndefH  BY <2>7, <2>9, <3>3, <3>4 DEF Place, At
    <3>6. Place(G, b) /\ v = At(G, b)  BY <2>4, <3>2 DEF Place, At
    <3> QED BY <3>1, <3>2, <3>5, <3>6
  <2>13. /\ Sound(K, Owner(v)) /\ SameElems(G, K) /\ Boxed(K, v)
         /\ \A d \in AllCells : K[d].live = G[d].live
    BY <2>11, <2>12, Retaining
  <2>14. Place(K, z) /\ At(K, z) = UndefH  BY <2>12, <2>13, SameReferrers
  <2> HIDE DEF K
  <2>15. Sound(S, Frame)
    <3>1. Owner(v) = IF IsRef(v) THEN v.p ELSE Frame  BY DEF Owner
    <3> HIDE DEF z, v
    <3> QED BY <2>4, <2>13, <2>14, <3>1, HandleFacts, Storing
  <2>16. R = S
    <3>1. Place(Retain(WithElems(H, c, f), v), <<c, n>>)  BY <2>14 DEF K, G
    <3> HIDE DEF v
    <3> QED BY <2>1, <2>3, <2>4, <2>6, <2>8, <2>9, <3>1, Appended DEF K, G
  <2>17. S[Frame].elems = H[Frame].elems
    <3>1. Shape(K)  BY <2>13 DEF Sound
    <3>2. z[1] = c  OBVIOUS
    <3> HIDE DEF v, z
    <3>3. S[Frame] = K[Frame]  BY <2>3, <2>4, <2>14, <3>1, <3>2, CellsFinite, StoredFacts
    <3> QED BY <3>3, <2>12, <2>13, CellsFinite DEF SameElems
  <2>18. Good(S)  BY <2>2, <2>15, <2>17 DEF Good, Idle
  <2> HIDE DEF S, R
  <2> QED BY <1>4, <2>16, <2>18, Ending
<1> HIDE DEF R
<1> QED BY <1>1, <1>2, <1>4, Ending

-----------------------------------------------------------------------------
LEMMA InitIInv ==
  ASSUME Init
  PROVE  IInv
<1> DEFINE E == [r \in FrameKeys |-> UndefH]
           F == [live |-> TRUE, refcount |-> 1, str |-> 0, elems |-> E]
<1>1. \A c \in AllCells : heap[c] = IF c = Frame THEN F ELSE FreeCell  BY DEF Init
<1>2. E \in [FrameKeys -> Handle] /\ FrameKeys \in SUBSET AllKeys  BY HandleFacts, KeysFinite
<1>3. F \in CellType /\ FreeCell \in CellType
  <2>1. E \in UNION {[D -> Handle] : D \in SUBSET AllKeys}  BY <1>2
  <2> HIDE DEF E
  <2> QED BY <2>1, NewCellFacts DEF CellType
<1>4. F.live /\ F.elems = E /\ DOMAIN E = FrameKeys  OBVIOUS
<1>5. E[Nil] = UndefH /\ E[Temp] = UndefH /\ \A k \in FrameKeys : E[k] = UndefH  BY DEF FrameKeys
<1> HIDE DEF E, F
<1>6. heap[Frame] = F /\ \A c \in Cells : heap[c] = FreeCell  BY <1>1, CellsFinite
<1>7. Shape(heap)
  <2>1. heap \in [AllCells -> CellType]
    <3>1. heap = [c \in AllCells |-> IF c = Frame THEN F ELSE FreeCell]  BY DEF Init, F, E
    <3> QED BY <3>1, <1>3
  <2> QED BY <2>1, <1>4, <1>6 DEF Shape
<1>8. RefSlots(heap) = {}
  <2> SUFFICES ASSUME NEW s \in RefSlots(heap)  PROVE FALSE  OBVIOUS
  <2>1. Place(heap, s) /\ IsRef(At(heap, s))  BY <1>7, SlotFacts
  <2>2. s[1] \in AllCells /\ s[2] \in DOMAIN heap[s[1]].elems  BY <2>1 DEF Place
  <2>3. s[1] = Frame
    <3>1. \A c \in Cells : DOMAIN heap[c].elems = {}  BY <1>6, NewCellFacts
    <3>2. s[1] \notin Cells  BY <3>1, <2>2
    <3> QED BY <3>2, <2>2 DEF AllCells
  <2>4. s[2] \in FrameKeys /\ At(heap, s) = E[s[2]]  BY <2>2, <2>3, <1>4, <1>6 DEF At
  <2> QED BY <2>1, <2>4, <1>5, HandleFacts
<1>9. Clean(heap) /\ Dense(heap)
  <2>1. Clean(heap)  BY <1>6 DEF Clean
  <2>2. Dense(heap)  BY <1>8 DEF Dense, Referrers
  <2> QED BY <2>1, <2>2
<1>10. Exact(heap, Frame)
  <2> SUFFICES ASSUME NEW c \in Cells
               PROVE  /\ heap[c].refcount = Count(heap, c) + One(c, Frame)
                      /\ heap[c].live <=> heap[c].refcount > 0
    BY DEF Exact
  <2>1. Referrers(heap, c) = {}  BY <1>8 DEF Referrers
  <2>2. Count(heap, c) = 0  BY <2>1, <1>7, SlotFacts
  <2>3. One(c, Frame) = 0  BY CellsFinite DEF One
  <2>4. heap[c].refcount = 0 /\ ~heap[c].live  BY <1>6, NewCellFacts
  <2> QED BY <2>2, <2>3, <2>4
<1>11. Idle(heap)  BY <1>4, <1>5, <1>6 DEF Idle
<1>12. Bounded(heap)
  <2>1. {c \in Cells : heap[c].live} = {}  BY <1>6, NewCellFacts
  <2>2. Cardinality({c \in Cells : heap[c].live}) = 0  BY <2>1, FS_EmptySet
  <2> QED BY <2>2, BoundsAssumption DEF Bounded
<1> QED BY <1>7, <1>9, <1>10, <1>11, <1>12 DEF IInv, Good, Sound

LEMMA NextStep ==
  ASSUME NestedSource = FALSE, IInv, [Next]_vars
  PROVE  IInv'
<1>1. ASSUME NEW r \in Roots, NEW ks \in Paths, AssignInt(r, ks)  PROVE IInv'
  BY <1>1, AssignIntStep
<1>2. ASSUME NEW r \in Roots, NEW ks \in Paths, AssignStr(r, ks)  PROVE IInv'
  BY <1>2, AssignStrStep
<1>3. ASSUME NEW r \in Roots, NEW ks \in Paths, Concat(r, ks)  PROVE IInv'
  BY <1>3, ConcatStep
<1>4. ASSUME NEW r \in Roots, NEW q \in Roots, NEW ks \in Paths, NEW js \in Paths,
             Len(js) < 2, Assign(r, ks, q, js)
      PROVE  IInv'
  BY <1>4, AssignStep
<1>5. ASSUME NEW r \in Roots, NEW k \in Keys, AtAssignInt(r, k)  PROVE IInv'
  BY <1>5, AtAssignIntStep
<1>6. ASSUME NEW r \in Roots, NEW k \in HashKeys, Erase(r, k)  PROVE IInv'
  BY <1>6, EraseStep
<1>7. ASSUME NEW r \in Roots, NEW q \in Roots, PushBack(r, q)  PROVE IInv'
  BY <1>7, PushBackStep
<1>8. ASSUME NEW r \in Roots, NEW q \in Roots, Swap(r, q)  PROVE IInv'
  BY <1>8, SwapStep
<1>9. ASSUME NEW r \in Roots, Destroy(r)  PROVE IInv'
  BY <1>9, DestroyStep
<1>10. ASSUME UNCHANGED vars  PROVE IInv'
  BY <1>10 DEF vars, IInv, Good, Sound, Shape, Clean, Exact, Dense, Idle, Bounded, Count
<1> QED BY <1>1, <1>2, <1>3, <1>4, <1>5, <1>6, <1>7, <1>8, <1>9, <1>10 DEF Next

(* IInv holds in every state, when operator= is not given the one source   *)
(* that the target's former value takes with it (NestedSource).            *)
THEOREM CDTInductive ==
  ASSUME NestedSource = FALSE
  PROVE  Spec => []IInv
<1>1. Init => IInv  BY InitIInv
<1>2. IInv /\ [Next]_vars => IInv'  BY NextStep, Zenon
<1> QED BY <1>1, <1>2, PTL DEF Spec

(* The shape of the heap (Unshare, operator[], Destroy): counters are      *)
(* natural numbers, a deleted cell is empty, an array has no holes.        *)
THEOREM CDTTypeCorrect ==
  ASSUME NestedSource = FALSE
  PROVE  Spec => []TypeOK
<1>1. IInv => TypeOK  BY DEF IInv, Good, Idle, Sound, Shape, Clean, TypeOK
<1> QED BY <1>1, CDTInductive, PTL

(* The counter of a cell is the number of its handles, after any sequence  *)
(* of the operations on any variables, keys and nesting; a cell lives as   *)
(* long as that is not zero.                                               *)
THEOREM CDTRefcountExact ==
  ASSUME NestedSource = FALSE
  PROVE  Spec => []RefcountExact
<1>1. ASSUME IInv  PROVE RefcountExact
  <2> SUFFICES ASSUME NEW c \in Cells
               PROVE  /\ heap[c].refcount = Count(heap, c)
                      /\ heap[c].live <=> heap[c].refcount > 0
    BY DEF RefcountExact, Count
  <2>1. Shape(heap) /\ Exact(heap, Frame)  BY <1>1 DEF IInv, Good, Sound
  <2>2. One(c, Frame) = 0  BY CellsFinite DEF One
  <2>3. Count(heap, c) \in Nat  BY <2>1, SlotFacts
  <2>4. /\ heap[c].refcount = Count(heap, c) + One(c, Frame)
        /\ heap[c].live <=> heap[c].refcount > 0
    BY <2>1 DEF Exact
  <2> QED BY <2>2, <2>3, <2>4
<1>2. IInv => RefcountExact  BY <1>1
<1> QED BY <1>2, CDTInductive, PTL

(* No handle leads to a deleted cell: neither Destroy, nor operator= with  *)
(* its raised counter, nor Unshare leaves one behind.                      *)
THEOREM CDTNoDangling ==
  ASSUME NestedSource = FALSE
  PROVE  Spec => []NoDangling
<1>1. ASSUME IInv  PROVE NoDangling
  <2> SUFFICES ASSUME NEW c \in AllCells, NEW k \in DOMAIN heap[c].elems, IsRef(heap[c].elems[k])
               PROVE  heap[heap[c].elems[k].p].live
    BY DEF NoDangling
  <2>1. Shape(heap) /\ Exact(heap, Frame)  BY <1>1 DEF IInv, Good, Sound
  <2>2. k \in AllKeys
    <3>1. heap[c] \in CellType  BY <2>1 DEF Shape
    <3> QED BY <3>1, CellFacts
  <2>3. Place(heap, <<c, k>>) /\ IsRef(At(heap, <<c, k>>))  BY <2>2 DEF Place, At
  <2>4. <<c, k>> \in RefSlots(heap)  BY <2>1, <2>3, SlotFacts
  <2>5. heap[At(heap, <<c, k>>).p].live  BY <2>1, <2>4, ReferredLive
  <2> QED BY <2>5 DEF At
<1>2. IInv => NoDangling  BY <1>1
<1> QED BY <1>2, CDTInductive, PTL
=============================================================================
