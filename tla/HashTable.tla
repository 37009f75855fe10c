----------------------------- MODULE HashTable ------------------------------
(***************************************************************************)
(* HashTable and ReducedHashTable (src/src/CTPP2HashTable.cpp): the table  *)
(* of block names the compiler fills and the virtual machine searches.  A  *)
(* slot holds at most one element and there is no probing: while the slot  *)
(* a key belongs to is taken by another key, Put doubles the table.        *)
(*                                                                         *)
(* A hash is the function of its bits and the slot of a hash, hash & iBase, *)
(* is its restriction to the iPower lowest ones.  Two names may have the   *)
(* same hash: a search tells names apart by their hashes alone, Put by     *)
(* their texts too, and grows the table for ever if only the texts differ. *)
(***************************************************************************)
EXTENDS Integers, FiniteSets

CONSTANTS
  Keys,
  Values,     \* what the compiler stores: addresses in the code
  None,       \* -1: no value
  HashBits,   \* the bits of a hash
  Hash        \* HashFunc on Keys

Bits(p) == [0..p - 1 -> {0, 1}]

Element == [key : Keys, value : Values]

ASSUME NoneAssumption == None \notin Values \cup Element
ASSUME HashBitsAssumption == HashBits \in Nat /\ HashBits >= 1
ASSUME HashAssumption == Hash \in [Keys -> Bits(HashBits)]

VARIABLES
  iPower,
  aElements,   \* slot -> the key and value in it, or None
  iUsed,
  call,        \* the key and value of the Put under way, or None
  result       \* what the last Get returned

table == <<iPower, aElements, iUsed>>
vars  == <<table, call, result>>

Slot(k, p) == [i \in 0..p - 1 |-> Hash[k][i]]

Init ==
  /\ iPower = 1
  /\ aElements = [s \in Bits(1) |-> None]
  /\ iUsed = 0
  /\ call = None
  /\ result = None

Holds(s, k) == aElements[s] # None /\ aElements[s].key = k

(* The value stored for a key, if there is one. *)
Entry(k) ==
  LET s == Slot(k, iPower) IN IF Holds(s, k) THEN aElements[s].value ELSE None

(* A search compares hashes and not names. *)
Found(k) ==
  LET e == aElements[Slot(k, iPower)]
  IN IF e # None /\ Hash[e.key] = Hash[k] THEN e.value ELSE None

Get(k) ==
  /\ call = None
  /\ result' = Found(k)
  /\ UNCHANGED <<table, call>>

Put(k, v) ==
  /\ call = None
  /\ call' = [key |-> k, value |-> v]
  /\ UNCHANGED <<table, result>>

(* The three outcomes of one iteration of Put's loop. *)
ReplaceCounted ==
  /\ call # None
  /\ LET s == Slot(call.key, iPower)
     IN Holds(s, call.key) /\ aElements' = [aElements EXCEPT ![s] = call]
  /\ call' = None
  /\ iUsed' = iUsed + 1
  /\ UNCHANGED <<iPower, result>>
Replace ==
  /\ call # None
  /\ LET s == Slot(call.key, iPower)
     IN Holds(s, call.key) /\ aElements' = [aElements EXCEPT ![s] = call]
  /\ call' = None
  /\ UNCHANGED <<iPower, iUsed, result>>

Insert ==
  /\ call # None
  /\ LET s == Slot(call.key, iPower)
     IN aElements[s] = None /\ aElements' = [aElements EXCEPT ![s] = call]
  /\ iUsed' = iUsed + 1
  /\ call' = None
  /\ UNCHANGED <<iPower, result>>

(* Resize: an element goes to the new slot its hash gives it; of elements  *)
(* that met in one slot the last written would stay.  The table has no     *)
(* bound in the code.  Once the slots stand for whole hashes a doubling    *)
(* parts no two names any more: HashBits is the bound of iPower here, at   *)
(* which the loop goes on and nothing changes.                             *)
SamePower == iPower
GrownPower == IF iPower < HashBits THEN iPower + 1 ELSE iPower
MoversByOldSlot(s, p) ==
  {o \in DOMAIN aElements :
     aElements[o] # None /\ s = [i \in 0..p - 1 |-> IF i < iPower THEN o[i] ELSE 0]}
Movers(s, p) ==
  {o \in DOMAIN aElements : aElements[o] # None /\ Slot(aElements[o].key, p) = s}
Resized(p) ==
  [s \in Bits(p) |->
     IF Movers(s, p) = {} THEN None ELSE aElements[CHOOSE o \in Movers(s, p) : TRUE]]

Resize ==
  /\ call # None
  /\ LET s == Slot(call.key, iPower)
     IN aElements[s] # None /\ ~Holds(s, call.key)
  /\ iPower' = GrownPower
  /\ aElements' = Resized(GrownPower)
  /\ UNCHANGED <<iUsed, call, result>>

Iteration == Replace \/ Insert \/ Resize

Next ==
  \/ \E k \in Keys : Get(k)
  \/ \E k \in Keys, v \in Values : Put(k, v)
  \/ Iteration

Spec == Init /\ [][Next]_vars

(* Put runs its loop until it returns. *)
LiveSpec == Spec /\ WF_vars(Iteration)

-----------------------------------------------------------------------------
(* Type correctness: there are always 2^iPower slots.                      *)
TypeOK ==
  /\ iPower \in 1..HashBits
  /\ aElements \in [Bits(iPower) -> Element \cup {None}]
  /\ iUsed \in Nat
  /\ call \in Element \cup {None}
  /\ result \in Values \cup {None}

(* Every element is in the slot a search for its key looks at. *)
InPlace ==
  \A s \in DOMAIN aElements : aElements[s] # None => s = Slot(aElements[s].key, iPower)

(* The inductive invariant: after any number of doublings every element    *)
(* still stands where a search for its hash looks.                         *)
IInv == TypeOK /\ InPlace

(* iUsed counts the keys in the table: a replacement is not counted again  *)
(* and a resize loses none (lines 178, 183 and 222 to 236).                *)
UsedExact == iUsed = Cardinality({k \in Keys : Entry(k) # None})

Dict == INSTANCE Dictionary WITH
          entries <- [k \in Keys |-> Entry(k)], pending <- call, answer <- result

(* The table is a map of keys to values: however often it was doubled in   *)
(* the course of a Put, no earlier name is lost, or moved where Get does   *)
(* not look, or answered with the value of a name of another hash; and a   *)
(* name never gets in beside one that has its hash.                        *)
ImplementsDictionary == Dict!Spec

(* Another name that is in the table has the hash of k. *)
Collides(k) == \E l \in Keys \ {k} : Hash[l] = Hash[k] /\ Entry(l) # None

(* A put returns, unless the table holds another name with its hash: the   *)
(* doublings (lines 176 and 182) end at a size at which the two keys no    *)
(* longer share a slot.                                                    *)
PutReturns == (call # None /\ ~Collides(call.key)) ~> (call = None)

(* What the header says of Put, which returns 0 or -1: it returns.         *)
EveryPutReturns == (call # None) ~> (call = None)
=============================================================================
