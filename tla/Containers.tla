----------------------------- MODULE Containers -----------------------------
(***************************************************************************)
(* CDT (src/src/CDT.cpp): whole arrays and hashes joined, listed, merged   *)
(* and sorted, and the orders a sort may use (CDTSortRoutines.cpp).        *)
(*                                                                         *)
(* A merge that throws part of the way has no result here; the code leaves *)
(* its destination partly merged.  An empty array merged into a hash, which*)
(* the code reads past its end, is left out.                               *)
(***************************************************************************)
EXTENDS Json
LOCAL INSTANCE SequencesExt
LOCAL INSTANCE FiniteSetsExt

ValuesInOrder(m) == LET ks == KeysInOrder(m) IN [i \in DOMAIN ks |-> m[ks[i]]]
Texts(e) == [i \in DOMAIN e |-> GetString(e[i])]

JoinArrayElements(v, sep) ==
  IF v.k = "ARRAY" THEN Str(Separated(Texts(v.e), sep)) ELSE Throws
JoinHashKeys(v, sep) ==
  IF v.k = "HASH" THEN Str(Separated(KeysInOrder(v.m), sep)) ELSE Throws
JoinHashValues(v, sep) ==
  IF v.k = "HASH" THEN Str(Separated(Texts(ValuesInOrder(v.m)), sep)) ELSE Throws
GetHashKeys(v) ==
  IF v.k = "HASH"
  THEN LET ks == KeysInOrder(v.m) IN Arr([i \in DOMAIN ks |-> Str(ks[i])])
  ELSE Throws
GetHashValues(v) == IF v.k = "HASH" THEN Arr(ValuesInOrder(v.m)) ELSE Throws

(* Access that does not create: operator[] const, GetCDT.                  *)
GetCDTAt(v, i) ==
  CASE v.k # "ARRAY" -> Undef
    [] v.k = "ARRAY" /\ i < Len(v.e) -> v.e[i + 1]
    [] OTHER -> Throws
GetCDTOf(v, key) ==
  IF v.k = "HASH" /\ key \in DOMAIN v.m THEN v.m[key] ELSE Undef

Nonzero(v) ==
  CASE v.k = "UNDEF" -> FALSE
    [] v.k = "INT" -> v.i # 0
    [] v.k = "REAL" -> v.r # Real(0)
    [] OTHER -> Size(v) # 0

-----------------------------------------------------------------------------
(* Merging. *)

(* An array as keys and values in turn; the last key may lack its value,   *)
(* and of two equal keys the first counts.                                 *)
Pairs(e) ==
  LET keyAt == {i \in DOMAIN e : i % 2 = 1}
      first(t) == Min({i \in keyAt : GetString(e[i]) = t})
  IN [t \in {GetString(e[i]) : i \in keyAt} |->
        IF first(t) = Len(e) THEN Undef ELSE e[first(t) + 1]]
(* The hash of pairs as an array. *)
Listed(m) ==
  LET ks == KeysInOrder(m)
  IN FlattenSeq([i \in DOMAIN ks |-> <<Str(ks[i]), m[ks[i]]>>])
(* map::insert keeps what is there. *)
Inserted(m, n) ==
  [t \in DOMAIN m \cup DOMAIN n |-> IF t \in DOMAIN m THEN m[t] ELSE n[t]]

RECURSIVE MergeCDT(_, _, _)
MergeCDT(d, s, strategy) ==
  LET both == IF d.k = "HASH" /\ s.k = "HASH" THEN DOMAIN d.m \cap DOMAIN s.m ELSE {}
      merged(t) == MergeCDT(d.m[t], s.m[t], strategy)
  IN CASE d.k = "UNDEF" -> s
       [] d.k \in Containers /\ s.k = "UNDEF" -> d
       [] d.k = "ARRAY" /\ s.k = "ARRAY" -> Arr(d.e \o s.e)
       [] d.k = "ARRAY" /\ s.k = "HASH" -> Arr(d.e \o Listed(s.m))
       [] d.k = "HASH" /\ s.k = "ARRAY" -> HashVal(Inserted(d.m, Pairs(s.e)))
       [] d.k = "HASH" /\ s.k = "HASH" /\ strategy = "FAST_MERGE" ->
            HashVal(Inserted(d.m, s.m))
       [] d.k = "HASH" /\ s.k = "HASH" /\ strategy = "DEEP_MERGE" ->
            IF \E t \in both : merged(t) = Throws THEN Throws
            ELSE HashVal([t \in DOMAIN d.m \cup DOMAIN s.m |->
                            IF t \in both THEN merged(t) ELSE Inserted(d.m, s.m)[t]])
       [] OTHER -> Throws

-----------------------------------------------------------------------------
(* Sorting. *)

Before(less, greater, direction) == IF direction = "DESC" THEN greater ELSE less
SortCompareNum(x, y, direction) == Before(OpLess(x, y), ~OpLess(x, y) /\ OpGreater(x, y), direction)
SortCompareStr(x, y, direction) ==
  Before(LessThan(x, y), ~LessThan(x, y) /\ GreaterThan(x, y), direction)
SortCompareNumHashElement(x, y, key, direction) ==
  SortCompareNum(GetCDTOf(x, key), GetCDTOf(y, key), direction)
SortCompareStrHashElement(x, y, key, direction) ==
  SortCompareStr(GetCDTOf(x, key), GetCDTOf(y, key), direction)
SortCompareNumArrayElement(x, y, index, direction) ==
  SortCompareNum(GetCDTAt(x, index), GetCDTAt(y, index), direction)
SortCompareStrArrayElement(x, y, index, direction) ==
  SortCompareStr(GetCDTAt(x, index), GetCDTAt(y, index), direction)

(* What std::sort may make of an array: C(x, y) holds if x goes before y.  *)
SortArray(v, C(_, _)) ==
  IF v.k # "ARRAY" \/ Len(v.e) <= 1 THEN {v}
  ELSE LET n == Len(v.e)
           orders == {p \in [1 .. n -> 1 .. n] : \A i, j \in 1 .. n : i < j => p[i] # p[j]}
       IN {Arr([i \in 1 .. n |-> v.e[p[i]]]) :
             p \in {q \in orders : \A i, j \in 1 .. n : i < j => ~C(v.e[q[j]], v.e[q[i]])}}
=============================================================================
