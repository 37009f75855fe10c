----------------------------- MODULE ValueStore -----------------------------
(***************************************************************************)
(* What CDT promises to its clients: variables that hold values.  A copy   *)
(* is a copy: an operation on one variable never shows in another.  There  *)
(* are no cells, references or counters here, only trees.                  *)
(***************************************************************************)
EXTENDS Naturals, Sequences, FiniteSets, TLC

CONSTANTS Roots, HashKeys, MaxLen, MaxStr, MaxDepth

VARIABLES val, thrown

svars == <<val, thrown>>

Undef      == [t |-> "UNDEF"]
Int        == [t |-> "INT"]
Str(n)     == [t |-> "STRING", n |-> n]
Arr(f)     == [t |-> "ARRAY", e |-> f]
Hash(f)    == [t |-> "HASH", e |-> f]

IsBox(v) == v.t \in {"ARRAY", "HASH"}
IsPos(k) == k \in 0 .. MaxLen - 1
KeyFits(v, k) == v.t = "UNDEF" \/ v.t = (IF IsPos(k) THEN "ARRAY" ELSE "HASH")

SetElem(v, k, w) == [v EXCEPT !.e = k :> w @@ v.e]

(* v after v[k] was used as an lvalue: k exists. *)
With(v, k) ==
  IF IsPos(k)
  THEN LET old == IF v.t = "UNDEF" THEN {} ELSE DOMAIN v.e
           all == old \cup 0 .. k
       IN Arr([i \in all |-> IF i \in old THEN v.e[i] ELSE Undef])
  ELSE LET old == IF v.t = "UNDEF" THEN {} ELSE DOMAIN v.e
       IN Hash([i \in old \cup {k} |-> IF i \in old THEN v.e[i] ELSE Undef])

(* The tree after the lvalue path ks was resolved in it. *)
RECURSIVE Grown(_, _)
Grown(v, ks) ==
  IF ks = <<>> \/ ~KeyFits(v, Head(ks)) THEN v
  ELSE LET w == With(v, Head(ks))
           k == Head(ks)
       IN SetElem(w, k, Grown(w.e[k], Tail(ks)))

RECURSIVE PathFits(_, _)
PathFits(v, ks) ==
  IF ks = <<>> THEN TRUE
  ELSE /\ KeyFits(v, Head(ks))
       /\ PathFits(With(v, Head(ks)).e[Head(ks)], Tail(ks))

RECURSIVE At(_, _)
At(v, ks) == IF ks = <<>> THEN v ELSE At(v.e[Head(ks)], Tail(ks))

RECURSIVE Put(_, _, _)
Put(v, ks, w) ==
  IF ks = <<>> THEN w
  ELSE SetElem(v, Head(ks), Put(v.e[Head(ks)], Tail(ks), w))

(* Constant access: a key that is not there reads as undefined, a position *)
(* that is not there is an error.                                          *)
OutOfRange(v, k) == IsPos(k) /\ v.t = "ARRAY" /\ k \notin DOMAIN v.e
ReadAt(v, ks) ==
  IF ks = <<>> THEN v
  ELSE IF /\ IsBox(v)
          /\ v.t = (IF IsPos(ks[1]) THEN "ARRAY" ELSE "HASH")
          /\ ks[1] \in DOMAIN v.e
       THEN v.e[ks[1]] ELSE Undef
ReadFails(v, ks) == ks # <<>> /\ OutOfRange(v, ks[1])

RECURSIVE Depth(_)
Depth(v) ==
  IF IsBox(v)
  THEN 1 + (LET ds == {Depth(v.e[k]) : k \in DOMAIN v.e}
            IN IF ds = {} THEN 0 ELSE CHOOSE d \in ds : \A x \in ds : x <= d)
  ELSE 0

-----------------------------------------------------------------------------
Init == val = [r \in Roots |-> Undef] /\ thrown = "none"

Done(v) == thrown' = "none" /\ val' = v

(* Resolve the lvalue, then change what it denotes from x to Op(x). *)
Modify(r, ks, Op(_)) ==
  LET g == Grown(val[r], ks)
  IN \/ PathFits(val[r], ks) /\ Done([val EXCEPT ![r] = Put(g, ks, Op(At(g, ks)))])
     \/ /\ ~PathFits(val[r], ks)
        /\ thrown' = "CDTAccessException"
        /\ val' = [val EXCEPT ![r] = g]

Refuse(r, ks, why) ==
  thrown' = why /\ val' = [val EXCEPT ![r] = Grown(@, ks)]

AssignInt(r, ks)    == Modify(r, ks, LAMBDA x : Int)
AssignStr(r, ks)    == Modify(r, ks, LAMBDA x : Str(1))
Destroy(r)          == Done([val EXCEPT ![r] = Undef])

Assign(r, ks, q, js) ==
  LET grown == [val EXCEPT ![r] = Grown(@, ks)]
      src   == ReadAt(grown[q], js)
  IN \/ ~PathFits(val[r], ks) /\ Refuse(r, ks, "CDTAccessException")
     \/ PathFits(val[r], ks) /\ ReadFails(grown[q], js) /\ Refuse(r, ks, "CDTRangeException")
     \/ /\ PathFits(val[r], ks) /\ ~ReadFails(grown[q], js)
        /\ Done([grown EXCEPT ![r] = Put(@, ks, src)])

Erase(r, k) ==
  \/ val[r].t # "HASH" /\ Refuse(r, <<>>, "CDTAccessException")
  \/ /\ val[r].t = "HASH"
     /\ Done([val EXCEPT ![r] = Hash([i \in DOMAIN val[r].e \ {k} |-> val[r].e[i]])])

PushBack(r, q) ==
  LET v == IF val[r].t = "UNDEF" THEN Arr([i \in {} |-> Undef]) ELSE val[r]
      n == Cardinality(DOMAIN v.e)
  IN \/ val[r].t \notin {"UNDEF", "ARRAY"} /\ Refuse(r, <<>>, "CDTAccessException")
     \/ /\ val[r].t \in {"UNDEF", "ARRAY"}
        /\ Done([val EXCEPT ![r] = Arr([i \in 0 .. n |-> IF i < n THEN v.e[i] ELSE val[q]])])

AtAssignInt(r, k) ==
  \/ val[r].t # (IF IsPos(k) THEN "ARRAY" ELSE "HASH") /\ Refuse(r, <<>>, "CDTAccessException")
  \/ /\ val[r].t = (IF IsPos(k) THEN "ARRAY" ELSE "HASH")
     /\ k \notin DOMAIN val[r].e /\ Refuse(r, <<>>, "CDTRangeException")
  \/ /\ val[r].t = (IF IsPos(k) THEN "ARRAY" ELSE "HASH")
     /\ k \in DOMAIN val[r].e /\ Done([val EXCEPT ![r] = SetElem(@, k, Int)])

Concatenated(x) == IF x.t = "STRING" THEN Str(x.n + 1)
                   ELSE IF x.t = "INT" THEN Str(2) ELSE Str(1)
Concat(r, ks) ==
  LET x == At(Grown(val[r], ks), ks)
  IN \/ ~PathFits(val[r], ks) /\ Refuse(r, ks, "CDTAccessException")
     \/ /\ PathFits(val[r], ks) /\ IsBox(x)
        /\ Refuse(r, ks, "CDTTypeCastException")
     \/ /\ PathFits(val[r], ks) /\ ~IsBox(x)
        /\ Modify(r, ks, Concatenated)

Swap(r, q) == Done([val EXCEPT ![r] = val[q], ![q] = val[r]])

Keys  == 0 .. MaxLen - 1 \cup HashKeys
Paths == {<<>>} \cup {<<k>> : k \in Keys} \cup {<<k, j>> : k, j \in Keys}

Next ==
  \/ \E r \in Roots, ks \in Paths :
       AssignInt(r, ks) \/ AssignStr(r, ks) \/ Concat(r, ks)
  \/ \E r, q \in Roots, ks, js \in Paths : Assign(r, ks, q, js)
  \/ \E r \in Roots, k \in Keys : Erase(r, k) \/ AtAssignInt(r, k)
  \/ \E r, q \in Roots : PushBack(r, q) \/ Swap(r, q)
  \/ \E r \in Roots : Destroy(r)

Spec == Init /\ [][Next]_svars
=============================================================================
