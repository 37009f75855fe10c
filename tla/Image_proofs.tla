---------------------------- MODULE Image_proofs ----------------------------
(***************************************************************************)
(* Proofs about the program image: the table of names is a map, the pools  *)
(* the compiler fills are sound and are logs, the segments of the image    *)
(* lie apart, and what the loader accepts is the whole of the program.     *)
(***************************************************************************)
EXTENDS Image, FiniteSetTheorems, SequenceTheorems, WellFoundedInduction, TLAPS

(***************************************************************************)
(* The table of names: its invariant, that it refines Dictionary, and that *)
(* iUsed counts its keys.                                                  *)
(***************************************************************************)
USE DEF Bits, Slot

(* The slot of a key is a slot of the table, and sharing a slot of a table *)
(* is sharing the slot of every smaller one.                               *)
LEMMA SlotType ==
  ASSUME NEW k \in Keys, NEW p \in 1..HashBits
  PROVE  Slot(k, p) \in Bits(p)
BY HashAssumption, HashBitsAssumption

LEMMA SlotOfSmaller ==
  ASSUME NEW k \in Keys, NEW l \in Keys, NEW q \in 1..HashBits, NEW p \in 1..q,
         Slot(k, q) = Slot(l, q)
  PROVE  Slot(k, p) = Slot(l, p)
<1>1. \A i \in 0..q - 1 : Slot(k, q)[i] = Hash[k][i] /\ Slot(l, q)[i] = Hash[l][i]
  OBVIOUS
<1>2. \A i \in 0..p - 1 : i \in 0..q - 1
  BY HashBitsAssumption
<1>3. \A i \in 0..p - 1 : Hash[k][i] = Hash[l][i]
  BY <1>1, <1>2
<1> QED
  BY <1>3

(* Names with one hash share their slot. *)
LEMMA SlotOfHash ==
  ASSUME NEW k, NEW l, NEW p, Hash[k] = Hash[l]
  PROVE  Slot(k, p) = Slot(l, p)
OBVIOUS

-----------------------------------------------------------------------------
LEMMA Initially == Init => IInv
BY HashBitsAssumption DEF Init, IInv, TypeOK, InPlace

(* The table does not shrink, and does not outgrow the hashes. *)
LEMMA GrownPowerBounds ==
  ASSUME IInv
  PROVE  GrownPower \in 1..HashBits /\ iPower \in 1..GrownPower
BY HashBitsAssumption DEF IInv, TypeOK, GrownPower

(* What a growing table does: elements keep the key, no two of them meet.  *)
LEMMA ResizedElements ==
  ASSUME IInv, NEW s \in Bits(GrownPower)
  PROVE  /\ Resized(GrownPower)[s] # None =>
              \E o \in DOMAIN aElements :
                 /\ aElements[o] # None
                 /\ Resized(GrownPower)[s] = aElements[o]
                 /\ Slot(aElements[o].key, GrownPower) = s
         /\ \A o \in DOMAIN aElements :
              aElements[o] # None /\ Slot(aElements[o].key, GrownPower) = s
                => Resized(GrownPower)[s] = aElements[o]
<1> DEFINE p == GrownPower
<1>p. p \in 1..HashBits /\ iPower \in 1..p
  BY GrownPowerBounds
<1> HIDE DEF p
<1> SUFFICES /\ Resized(p)[s] # None =>
                  \E o \in DOMAIN aElements :
                     /\ aElements[o] # None
                     /\ Resized(p)[s] = aElements[o]
                     /\ Slot(aElements[o].key, p) = s
             /\ \A o \in DOMAIN aElements :
                  aElements[o] # None /\ Slot(aElements[o].key, p) = s
                    => Resized(p)[s] = aElements[o]
  BY DEF p
<1>1. Resized(p)[s] = IF Movers(s, p) = {} THEN None
                      ELSE aElements[CHOOSE o \in Movers(s, p) : TRUE]
  BY DEF Resized, p
<1>2. CASE Movers(s, p) = {}
  BY <1>1, <1>2 DEF Movers
<1>3. CASE Movers(s, p) # {}
  <2>1. PICK c \in Movers(s, p) : Resized(p)[s] = aElements[c]
    BY <1>1, <1>3
  <2>2. /\ c \in DOMAIN aElements
        /\ aElements[c] # None
        /\ Slot(aElements[c].key, p) = s
    BY <2>1 DEF Movers
  <2>3. ASSUME NEW o \in DOMAIN aElements,
               aElements[o] # None, Slot(aElements[o].key, p) = s
        PROVE  o = c
    <3>1. /\ aElements[o] \in Element /\ aElements[c] \in Element
      BY <2>2, <2>3 DEF IInv, TypeOK
    <3>2. aElements[o].key \in Keys /\ aElements[c].key \in Keys
      BY <3>1 DEF Element
    <3>3. Slot(aElements[o].key, iPower) = Slot(aElements[c].key, iPower)
      BY <1>p, <3>2, <2>2, <2>3, SlotOfSmaller
    <3> QED
      BY <3>3, <2>2, <2>3 DEF IInv, InPlace
  <2> QED
    BY <2>1, <2>2, <2>3
<1> QED
  BY <1>2, <1>3

LEMMA Preserved == IInv /\ [Next]_vars => IInv'
<1> SUFFICES ASSUME IInv, [Next]_vars PROVE IInv'
  OBVIOUS
<1>1. ASSUME NEW k \in Keys, Get(k) PROVE IInv'
  <2>1. Slot(k, iPower) \in DOMAIN aElements
    BY SlotType DEF IInv, TypeOK
  <2>2. Found(k) \in Values \cup {None}
    BY <2>1 DEF Found, IInv, TypeOK, Element
  <2> QED
    BY <1>1, <2>2 DEF Get, table, IInv, TypeOK, InPlace
<1>2. ASSUME NEW k \in Keys, NEW v \in Values, Put(k, v) PROVE IInv'
  BY <1>2 DEF Put, table, IInv, TypeOK, InPlace, Element
<1>3. ASSUME Replace \/ Insert PROVE IInv'
  <2> DEFINE s == Slot(call.key, iPower)
  <2>1. call \in Element /\ call.key \in Keys /\ iPower \in 1..HashBits
    BY <1>3 DEF Replace, Insert, IInv, TypeOK, Element
  <2>2. s \in DOMAIN aElements
    BY <2>1, SlotType DEF IInv, TypeOK
  <2>3. /\ aElements' = [aElements EXCEPT ![s] = call]
        /\ iPower' = iPower /\ call' = None /\ result' = result
        /\ iUsed' \in Nat
    <3>1. CASE Replace
      BY <3>1 DEF Replace, IInv, TypeOK
    <3>2. CASE Insert
      BY <3>2 DEF Insert, IInv, TypeOK
    <3> QED
      BY <1>3, <3>1, <3>2
  <2>4. TypeOK'
    BY <2>1, <2>2, <2>3 DEF IInv, TypeOK
  <2>5. InPlace'
    BY <2>1, <2>2, <2>3 DEF IInv, TypeOK, InPlace
  <2> QED
    BY <2>4, <2>5 DEF IInv
<1>4. ASSUME Resize PROVE IInv'
  <2> DEFINE p == GrownPower
  <2>1. p \in 1..HashBits
    BY GrownPowerBounds
  <2>2. iPower' = p /\ aElements' = Resized(p) /\ UNCHANGED <<iUsed, call, result>>
    BY <1>4 DEF Resize
  <2>3. DOMAIN Resized(p) = Bits(p)
    BY DEF Resized
  <2>4. \A s \in Bits(p) : Resized(p)[s] \in Element \cup {None}
    BY <2>1, ResizedElements DEF IInv, TypeOK
  <2>5. Resized(p) \in [Bits(p) -> Element \cup {None}]
    BY <2>3, <2>4 DEF Resized
  <2>6. TypeOK'
    BY <2>1, <2>2, <2>5 DEF IInv, TypeOK
  <2>7. \A s \in Bits(p) : Resized(p)[s] # None => s = Slot(Resized(p)[s].key, p)
    BY <2>1, ResizedElements
  <2>8. InPlace'
    BY <2>2, <2>3, <2>7 DEF InPlace
  <2> QED
    BY <2>6, <2>8 DEF IInv
<1>5. CASE UNCHANGED vars
  BY <1>5 DEF vars, table, IInv, TypeOK, InPlace
<1> QED
  BY <1>1, <1>2, <1>3, <1>4, <1>5 DEF Next, Iteration

(* The table is well-formed in every state. *)
THEOREM HashTableInvariant == Spec => []IInv
<1>1. Init => IInv
  BY Initially
<1>2. IInv /\ [Next]_vars => IInv'
  BY Preserved
<1> QED
  BY <1>1, <1>2, PTL DEF Spec

-----------------------------------------------------------------------------
(* What is stored after each step of Put. *)
LEMMA EntryAfterPut ==
  ASSUME IInv, Replace \/ Insert, NEW k \in Keys
  PROVE  Entry(k)' = IF k = call.key THEN call.value ELSE Entry(k)
<1> DEFINE s == Slot(call.key, iPower)
           t == Slot(k, iPower)
<1>1. call \in Element /\ call.key \in Keys /\ iPower \in 1..HashBits
  BY DEF Replace, Insert, IInv, TypeOK, Element
<1>2. s \in DOMAIN aElements /\ t \in DOMAIN aElements
  BY <1>1, SlotType DEF IInv, TypeOK
<1>3. /\ aElements' = [aElements EXCEPT ![s] = call] /\ iPower' = iPower
      /\ aElements[s] = None \/ aElements[s].key = call.key
  <2>1. CASE Replace
    BY <2>1 DEF Replace, Holds
  <2>2. CASE Insert
    BY <2>2 DEF Insert
  <2> QED
    BY <2>1, <2>2
<1>4. Entry(k)' = IF aElements'[t] # None /\ aElements'[t].key = k
                  THEN aElements'[t].value ELSE None
  BY <1>3 DEF Entry, Holds
<1>5. CASE t = s
  <2>1. aElements'[t] = call /\ call # None
    BY <1>1, <1>2, <1>3, <1>5, NoneAssumption
  <2>2. k # call.key => Entry(k) = None
    BY <1>3, <1>5 DEF Entry, Holds
  <2> QED
    BY <1>4, <2>1, <2>2
<1>6. CASE t # s
  <2>1. aElements'[t] = aElements[t]
    BY <1>2, <1>3, <1>6
  <2>2. k # call.key
    BY <1>6
  <2> QED
    BY <1>4, <2>1, <2>2 DEF Entry, Holds
<1> QED
  BY <1>5, <1>6

LEMMA EntryAfterResize ==
  ASSUME IInv, Resize, NEW k \in Keys
  PROVE  Entry(k)' = Entry(k)
<1> DEFINE p == GrownPower
           s == Slot(k, iPower)
           t == Slot(k, p)
<1>1. p \in 1..HashBits /\ iPower \in 1..HashBits
  BY GrownPowerBounds DEF IInv, TypeOK
<1>2. iPower' = p /\ aElements' = Resized(p)
  BY DEF Resize
<1>3. t \in Bits(p) /\ s \in DOMAIN aElements
  BY <1>1, SlotType DEF IInv, TypeOK
<1>4. Entry(k)' = IF Resized(p)[t] # None /\ Resized(p)[t].key = k
                  THEN Resized(p)[t].value ELSE None
  BY <1>2 DEF Entry, Holds
<1>5. CASE Holds(s, k)
  <2>1. aElements[s] # None /\ aElements[s].key = k
    BY <1>5 DEF Holds
  <2>2. Resized(p)[t] = aElements[s]
    BY <1>1, <1>3, <2>1, ResizedElements
  <2> QED
    BY <1>4, <1>5, <2>1, <2>2 DEF Entry
<1>6. CASE ~Holds(s, k)
  <2>1. ASSUME Resized(p)[t] # None, Resized(p)[t].key = k PROVE FALSE
    <3>1. PICK o \in DOMAIN aElements : aElements[o] # None /\ Resized(p)[t] = aElements[o]
      BY <1>1, <1>3, <2>1, ResizedElements
    <3>2. o = s
      BY <2>1, <3>1 DEF IInv, InPlace
    <3> QED
      BY <1>6, <2>1, <3>1, <3>2 DEF Holds
  <2> QED
    BY <1>4, <1>6, <2>1 DEF Entry
<1> QED
  BY <1>5, <1>6

LEMMA EntryUnchanged ==
  ASSUME UNCHANGED <<iPower, aElements>>, NEW k \in Keys
  PROVE  Entry(k)' = Entry(k)
BY DEF Entry, Holds

LEMMA EntryInitially ==
  ASSUME Init, NEW k \in Keys
  PROVE  Entry(k) = None
<1>1. Slot(k, 1) \in Bits(1)
  BY SlotType, HashBitsAssumption
<1> QED
  BY <1>1 DEF Init, Entry, Holds

(* A search answers for the one name in the table, if any, that has the    *)
(* hash it looks for.                                                      *)
LEMMA AnswersAlike ==
  ASSUME IInv, NEW k \in Keys
  PROVE  /\ \A l \in Keys : Hash[l] = Hash[k] /\ Entry(l) # None => Found(k) = Entry(l)
         /\ (\A l \in Keys : Hash[l] = Hash[k] => Entry(l) = None) => Found(k) = None
<1> DEFINE s == Slot(k, iPower)
           e == aElements[s]
<1>1. s \in DOMAIN aElements /\ iPower \in 1..HashBits
  BY SlotType DEF IInv, TypeOK
<1>2. Found(k) = IF e # None /\ Hash[e.key] = Hash[k] THEN e.value ELSE None
  BY DEF Found
<1>3. \A l \in Keys : Hash[l] = Hash[k] => Entry(l) = IF e # None /\ e.key = l THEN e.value ELSE None
  BY SlotOfHash DEF Entry, Holds
<1>4. e # None => e.key \in Keys /\ e.value \in Values
  BY <1>1 DEF IInv, TypeOK, Element
<1> HIDE DEF s, e
<1> QED
  BY <1>2, <1>3, <1>4, NoneAssumption

(* What enters the table finds no other name of its hash there. *)
LEMMA EntersAlone ==
  ASSUME IInv, Replace \/ Insert, NEW l \in Keys, Hash[l] = Hash[call.key], Entry(l) # None
  PROVE  l = call.key
<1> DEFINE s == Slot(call.key, iPower)
<1>1. Entry(l) = IF aElements[s] # None /\ aElements[s].key = l THEN aElements[s].value ELSE None
  BY SlotOfHash DEF Entry, Holds
<1>2. aElements[s] = None \/ aElements[s].key = call.key
  BY DEF Replace, Insert, Holds
<1> QED
  BY <1>1, <1>2

(* The table behaves as a dictionary: a step of it is a step of Dictionary *)
(* or, when Put only doubles the table, none.                              *)
LEMMA StepRefines == IInv /\ [Next]_vars => [Dict!Next]_(Dict!vars)
<1> SUFFICES ASSUME IInv, [Next]_vars PROVE [Dict!Next]_(Dict!vars)
  OBVIOUS
<1> DEFINE entries == [k \in Keys |-> Entry(k)]
<1>a. \A k \in Keys : Dict!Alike(k) = {l \in Keys : Hash[l] = Hash[k] /\ Entry(l) # None}
  BY DEF Dict!Alike
<1>1. ASSUME NEW k \in Keys, Get(k) PROVE Dict!Lookup(k)
  <2>1. entries' = entries
    BY <1>1, EntryUnchanged DEF Get, table
  <2>2. CASE Dict!Alike(k) = {}
    <3>1. \A l \in Keys : Hash[l] = Hash[k] => Entry(l) = None
      BY <1>a, <2>2
    <3>2. Found(k) = None
      BY <3>1, AnswersAlike
    <3> QED
      BY <1>1, <2>1, <2>2, <3>2 DEF Get, Dict!Lookup
  <2>3. CASE Dict!Alike(k) # {}
    <3>1. PICK l \in Dict!Alike(k) : TRUE
      BY <2>3
    <3>2. l \in Keys /\ Hash[l] = Hash[k] /\ Entry(l) # None
      BY <1>a, <3>1
    <3>3. Found(k) = entries[l]
      BY <3>2, AnswersAlike
    <3> QED
      BY <1>1, <2>1, <3>1, <3>3 DEF Get, Dict!Lookup
  <2> QED
    BY <2>2, <2>3
<1>2. ASSUME NEW k \in Keys, NEW v \in Values, Put(k, v) PROVE Dict!Begin(k, v)
  <2>1. entries' = entries
    BY <1>2, EntryUnchanged DEF Put, table
  <2> QED
    BY <1>2, <2>1 DEF Put, Dict!Begin
<1>3. ASSUME Replace \/ Insert PROVE Dict!Effect
  <2>1. call # None /\ call' = None /\ result' = result /\ call.key \in Keys
    BY <1>3 DEF Replace, Insert, IInv, TypeOK, Element
  <2>2. entries' = [entries EXCEPT ![call.key] = call.value]
    BY <1>3, EntryAfterPut
  <2>3. Dict!Alike(call.key) \subseteq {call.key}
    BY <1>3, <1>a, <2>1, EntersAlone
  <2> QED
    BY <2>1, <2>2, <2>3 DEF Dict!Effect
<1>4. ASSUME Resize PROVE UNCHANGED Dict!vars
  <2>1. entries' = entries
    BY <1>4, EntryAfterResize
  <2> QED
    BY <1>4, <2>1 DEF Resize, Dict!vars
<1>5. CASE UNCHANGED vars
  <2>1. entries' = entries
    BY <1>5, EntryUnchanged DEF vars, table
  <2> QED
    BY <1>5, <2>1 DEF vars, Dict!vars
<1> QED
  BY <1>1, <1>2, <1>3, <1>4, <1>5 DEF Next, Iteration, Dict!Next

(* No name is lost or misplaced by the doublings of the table, a search    *)
(* answers for the name in the table that has its hash, and two such names *)
(* are never in it, whatever the hashes are.                               *)
THEOREM HashTableImplementsDictionary == Spec => ImplementsDictionary
<1>1. Init => Dict!Init
  BY EntryInitially DEF Init, Dict!Init
<1>2. IInv /\ [Next]_vars => [Dict!Next]_(Dict!vars)
  BY StepRefines
<1> QED
  BY <1>1, <1>2, HashTableInvariant, PTL DEF Spec, ImplementsDictionary, Dict!Spec

-----------------------------------------------------------------------------
Stored == {k \in Keys : Entry(k) # None}
Counted == IsFiniteSet(Stored) /\ iUsed = Cardinality(Stored)

LEMMA CountedPreserved == IInv /\ Counted /\ [Next]_vars => Counted'
<1> SUFFICES ASSUME IInv, Counted, [Next]_vars PROVE Counted'
  OBVIOUS
<1>1. ASSUME UNCHANGED <<iPower, aElements, iUsed>> PROVE Counted'
  <2>1. Stored' = Stored
    BY <1>1, EntryUnchanged DEF Stored
  <2> QED
    BY <1>1, <2>1 DEF Counted
<1>2. ASSUME Replace PROVE Counted'
  <2>1. call \in Element /\ call.value # None /\ Entry(call.key) # None
    <3>1. call \in Element /\ Holds(Slot(call.key, iPower), call.key)
      BY <1>2 DEF Replace, IInv, TypeOK
    <3>2. call.key \in Keys /\ call.value \in Values
      BY <3>1 DEF Element
    <3>3. aElements[Slot(call.key, iPower)] \in Element
      BY <3>1, <3>2, SlotType DEF Holds, IInv, TypeOK
    <3> QED
      BY <3>1, <3>2, <3>3, NoneAssumption DEF Entry, Element
  <2>2. Stored' = Stored
    BY <1>2, <2>1, EntryAfterPut DEF Stored
  <2> QED
    BY <1>2, <2>2 DEF Counted, Replace
<1>3. ASSUME Insert PROVE Counted'
  <2>1. /\ call \in Element /\ call.key \in Keys /\ call.value # None
        /\ Entry(call.key) = None
    BY <1>3, NoneAssumption DEF Insert, IInv, TypeOK, Element, Entry, Holds
  <2>2. Stored' = Stored \cup {call.key}
    BY <1>3, <2>1, EntryAfterPut DEF Stored
  <2>3. call.key \notin Stored
    BY <2>1 DEF Stored
  <2>4. iUsed' = iUsed + 1
    BY <1>3 DEF Insert
  <2>5. /\ IsFiniteSet(Stored \cup {call.key})
        /\ Cardinality(Stored \cup {call.key}) = Cardinality(Stored) + 1
    BY <2>3, FS_AddElement DEF Counted
  <2> QED
    BY <2>2, <2>4, <2>5 DEF Counted
<1>4. ASSUME Resize PROVE Counted'
  <2>1. Stored' = Stored
    BY <1>4, EntryAfterResize DEF Stored
  <2> QED
    BY <1>4, <2>1 DEF Counted, Resize
<1>5. ASSUME \/ \E k \in Keys : Get(k)
             \/ \E k \in Keys, v \in Values : Put(k, v)
             \/ UNCHANGED vars
      PROVE  UNCHANGED <<iPower, aElements, iUsed>>
  BY <1>5 DEF Get, Put, vars, table
<1> QED
  BY <1>1, <1>2, <1>3, <1>4, <1>5 DEF Next, Iteration

(* iUsed is the number of names in the table. *)
THEOREM HashTableUsedExact == Spec => []UsedExact
<1>1. Init => Counted
  <2> SUFFICES ASSUME Init PROVE Counted
    OBVIOUS
  <2>1. Stored = {}
    BY EntryInitially DEF Stored
  <2> QED
    BY <2>1, FS_EmptySet DEF Counted, Init
<1>2. IInv /\ Counted /\ [Next]_vars => Counted'
  BY CountedPreserved
<1>3. Counted => UsedExact
  BY DEF Counted, Stored, UsedExact
<1> QED
  BY <1>1, <1>2, <1>3, HashTableInvariant, PTL DEF Spec

HIDE DEF Bits, Slot

(* The texts.                                                              *)

LEMMA TextIsSeq ==
  ASSUME NEW x, T!IsText(x)
  PROVE  Len(x) \in Nat /\ DOMAIN x = 1..Len(x) /\ x = [i \in 1..Len(x) |-> x[i]]
  BY DEF T!IsText

LEMMA TextsInit ==
  ASSUME T!Init
  PROVE  T!IInv
<1>1. iMaxTextSize \in Nat /\ iMaxOffsetsSize = 0
  BY PoolAssumptions DEF T!Init, T!SizesSound
<1>2. DOMAIN sText = 0..iMaxTextSize - 1 /\ DOMAIN aOffsets = 0..0 - 1
  BY <1>1 DEF T!Init, T!Block
<1> QED BY <1>1, <1>2
    DEF T!Init, T!IInv, T!TypeOK, T!InsideBlocks, T!NulTerminated, T!Allocated, T!Consecutive

(* Blocks that were allocated are as large as their sizes say, and hold    *)
(* what they held before and the text stored, with its NUL.                *)
LEMMA TextStored ==
  ASSUME T!IInv, NEW x \in Texts, T!StoreData(x)
  PROVE  LET end == iUsedTextSize + Len(x)
         IN /\ iMaxTextSize' \in Nat /\ DOMAIN sText' = 0..iMaxTextSize' - 1
            /\ iUsedTextSize' = end + 1 /\ iUsedTextSize' <= iMaxTextSize'
            /\ \A i \in 0..iUsedTextSize - 1 : sText'[i] = sText[i]
            /\ \A i \in iUsedTextSize..end - 1 : sText'[i] = x[i - iUsedTextSize + 1]
            /\ sText'[end] = Nul
<1> DEFINE end  == iUsedTextSize + Len(x)
           size == T!NewDataSize(end)
           room == IF T!IsFull(end) THEN T!Copied(sText, iUsedTextSize, size) ELSE sText
<1>1. Len(x) \in Nat /\ iUsedTextSize \in Nat /\ iMaxTextSize \in Nat /\ iUsedTextSize <= iMaxTextSize
      /\ DOMAIN sText = 0..iMaxTextSize - 1
  BY PoolAssumptions, TextIsSeq DEF T!TextsSound, T!IInv, T!TypeOK, T!Allocated
<1>2. size \in Nat /\ end < size
  BY <1>1 DEF T!NewDataSize, T!IsFull
<1>3. DOMAIN room = 0..size - 1
  BY <1>1 DEF T!Copied, T!NewDataSize, T!IsFull
<1>4. \A i \in 0..iUsedTextSize - 1 : room[i] = sText[i]
  BY <1>1, <1>2 DEF T!Copied
<1>5. /\ sText' = [i \in DOMAIN room |->
                     IF i \in iUsedTextSize..end - 1 THEN x[i - iUsedTextSize + 1]
                     ELSE IF i = end THEN Nul ELSE room[i]]
      /\ iMaxTextSize' = size /\ iUsedTextSize' = end + 1
  BY DEF T!StoreData, T!Stored, T!UsedAfter
<1> HIDE DEF room, size
<1>6. \A i \in 0..size - 1 : sText'[i] = IF i \in iUsedTextSize..end - 1 THEN x[i - iUsedTextSize + 1]
                                         ELSE IF i = end THEN Nul ELSE room[i]
  BY <1>3, <1>5
<1> HIDE DEF end
<1>7. end \in Nat /\ iUsedTextSize <= end  BY <1>1 DEF end
<1> QED BY <1>1, <1>2, <1>3, <1>4, <1>5, <1>6, <1>7 DEF end

LEMMA OffsetStored ==
  ASSUME T!IInv, NEW x \in Texts, T!StoreData(x)
  PROVE  /\ iMaxOffsetsSize' \in Nat /\ DOMAIN aOffsets' = 0..iMaxOffsetsSize' - 1
         /\ iUsedOffsetsSize' = iUsedOffsetsSize + 1 /\ iUsedOffsetsSize' <= iMaxOffsetsSize'
         /\ \A id \in 0..iUsedOffsetsSize - 1 : aOffsets'[id] = aOffsets[id]
         /\ aOffsets'[iUsedOffsetsSize] = [offset |-> iUsedTextSize, length |-> Len(x)]
<1> DEFINE size == T!NewIndexSize
           room == IF T!IndexFull THEN T!Copied(aOffsets, iUsedOffsetsSize, size) ELSE aOffsets
<1>1. iUsedOffsetsSize \in Nat /\ iMaxOffsetsSize \in Nat /\ iUsedOffsetsSize <= iMaxOffsetsSize
      /\ DOMAIN aOffsets = 0..iMaxOffsetsSize - 1
  BY DEF T!IInv, T!TypeOK, T!Allocated
<1>2. size \in Nat /\ iUsedOffsetsSize < size
  BY <1>1 DEF T!NewIndexSize, T!IndexFull
<1>3. DOMAIN room = 0..size - 1
  BY <1>1 DEF T!Copied, T!NewIndexSize, T!IndexFull
<1>4. \A i \in 0..iUsedOffsetsSize - 1 : room[i] = aOffsets[i]
  BY <1>1, <1>2 DEF T!Copied
<1>5. /\ aOffsets' = [i \in DOMAIN room |->
                        IF i = iUsedOffsetsSize THEN [offset |-> iUsedTextSize, length |-> Len(x)] ELSE room[i]]
      /\ iMaxOffsetsSize' = size /\ iUsedOffsetsSize' = iUsedOffsetsSize + 1
  BY DEF T!StoreData, T!Indexed
<1> HIDE DEF room, size
<1> QED BY <1>1, <1>2, <1>3, <1>4, <1>5

(* A text that was there is read as it was, and the new one is x.          *)
LEMMA TextsAfterStore ==
  ASSUME T!IInv, NEW x \in Texts, T!StoreData(x)
  PROVE  /\ \A id \in 0..iUsedOffsetsSize - 1 : T!Text(id)' = T!Text(id)
         /\ \A id : id = iUsedOffsetsSize => T!Text(id)' = x
<1>1. Len(x) \in Nat /\ x = [i \in 1..Len(x) |-> x[i]] /\ iUsedTextSize \in Nat /\ iUsedOffsetsSize \in Nat
  BY PoolAssumptions, TextIsSeq DEF T!TextsSound, T!IInv, T!TypeOK
<1>2. ASSUME NEW id \in 0..iUsedOffsetsSize - 1
      PROVE  T!Text(id)' = T!Text(id)
  <2>1. /\ aOffsets[id].offset \in Nat /\ aOffsets[id].length \in Nat
        /\ aOffsets[id].offset + aOffsets[id].length < iUsedTextSize
    BY DEF T!IInv, T!Consecutive
  <2>2. aOffsets'[id] = aOffsets[id]  BY OffsetStored
  <2>3. \A i \in 1..aOffsets[id].length : aOffsets[id].offset + i - 1 \in 0..iUsedTextSize - 1
    BY <1>1, <2>1
  <2>4. \A i \in 1..aOffsets[id].length :
          sText'[aOffsets[id].offset + i - 1] = sText[aOffsets[id].offset + i - 1]
    BY <2>3, TextStored
  <2> QED BY <2>2, <2>4 DEF T!Text
<1>3. ASSUME NEW id, id = iUsedOffsetsSize
      PROVE  T!Text(id)' = x
  <2>1. aOffsets'[id] = [offset |-> iUsedTextSize, length |-> Len(x)]
    BY <1>3, OffsetStored
  <2>2. \A i \in 1..Len(x) : iUsedTextSize + i - 1 \in iUsedTextSize..(iUsedTextSize + Len(x)) - 1
    BY <1>1
  <2>3. \A i \in 1..Len(x) : sText'[iUsedTextSize + i - 1] = x[(iUsedTextSize + i - 1) - iUsedTextSize + 1]
    BY <2>2, TextStored
  <2>4. \A i \in 1..Len(x) : (iUsedTextSize + i - 1) - iUsedTextSize + 1 = i
    BY <1>1
  <2>5. T!Text(id)' = [i \in 1..Len(x) |-> x[i]]
    BY <2>1, <2>3, <2>4 DEF T!Text
  <2> QED BY <1>1, <2>5
<1> QED BY <1>2, <1>3

LEMMA TextsStep ==
  ASSUME T!IInv, [T!Next]_(T!vars)
  PROVE  T!IInv'
<1>1. CASE \E x \in Texts : T!StoreData(x)
  <2>1. PICK x \in Texts : T!StoreData(x)  BY <1>1
  <2> DEFINE n == iUsedOffsetsSize
             end == iUsedTextSize + Len(x)
  <2>2. Len(x) \in Nat /\ iUsedTextSize \in Nat /\ n \in Nat
    BY PoolAssumptions, TextIsSeq DEF T!TextsSound, T!IInv, T!TypeOK
  <2>3. n' = n + 1 /\ iUsedTextSize' = end + 1  BY <2>1, TextStored, OffsetStored
  <2>4. T!Allocated'  BY <2>1, TextStored, OffsetStored DEF T!Allocated
  <2>5. T!TypeOK'
    <3>1. iMaxTextSize' \in Nat /\ iMaxOffsetsSize' \in Nat  BY <2>1, TextStored, OffsetStored
    <3>2. iTextId' = n /\ sTextResult' = sTextResult  BY <2>1 DEF T!StoreData
    <3> QED BY <2>2, <2>3, <3>1, <3>2 DEF T!IInv, T!TypeOK
  <2>6. T!InsideBlocks'  BY <2>2, <2>3, <2>4, <2>5 DEF T!Allocated, T!InsideBlocks, T!TypeOK
  <2>7. ASSUME NEW id \in 0..n
        PROVE  /\ aOffsets'[id] \in [offset : Nat, length : Nat]
               /\ aOffsets'[id].offset + aOffsets'[id].length < end + 1
               /\ T!Text(id)' \in Texts
               /\ sText'[aOffsets'[id].offset + aOffsets'[id].length] = Nul
    <3>1. CASE id = n
      <4>1. aOffsets'[id] = [offset |-> iUsedTextSize, length |-> Len(x)]  BY <2>1, <3>1, OffsetStored
      <4>2. T!Text(id)' = x  BY <2>1, <3>1, TextsAfterStore
      <4>3. sText'[end] = Nul  BY <2>1, TextStored
      <4> QED BY <2>2, <4>1, <4>2, <4>3
    <3>2. CASE id \in 0..n - 1
      <4>1. /\ aOffsets'[id] = aOffsets[id] /\ T!Text(id)' = T!Text(id)
        BY <2>1, <3>2, OffsetStored, TextsAfterStore
      <4>2. /\ aOffsets[id] \in [offset : Nat, length : Nat]
            /\ aOffsets[id].offset + aOffsets[id].length < iUsedTextSize
            /\ T!Text(id) \in Texts
            /\ sText[aOffsets[id].offset + aOffsets[id].length] = Nul
        BY <3>2 DEF T!IInv, T!Consecutive, T!NulTerminated
      <4>3. aOffsets[id].offset + aOffsets[id].length \in 0..iUsedTextSize - 1  BY <2>2, <4>2
      <4>4. sText'[aOffsets[id].offset + aOffsets[id].length] = sText[aOffsets[id].offset + aOffsets[id].length]
        BY <2>1, <4>3, TextStored
      <4> QED BY <2>2, <4>1, <4>2, <4>4
    <3> QED BY <2>2, <3>1, <3>2
  <2>8. \A id \in 0..n' - 1 : id \in 0..n  BY <2>2, <2>3
  <2>9. aOffsets'[n' - 1] = [offset |-> iUsedTextSize, length |-> Len(x)] /\ n' # 0
    BY <2>1, <2>2, <2>3, OffsetStored
  <2>10. T!Consecutive'  BY <2>2, <2>3, <2>7, <2>8, <2>9 DEF T!Consecutive
  <2>11. T!NulTerminated'
    <3>1. ASSUME NEW id \in 0..n' - 1
          PROVE  aOffsets'[id].offset + aOffsets'[id].length \in DOMAIN sText'
      <4>1. aOffsets'[id].offset + aOffsets'[id].length \in 0..iUsedTextSize' - 1
        BY <2>2, <2>3, <2>7, <2>8
      <4> QED BY <2>6, <4>1 DEF T!InsideBlocks
    <3> QED BY <2>7, <2>8, <3>1 DEF T!NulTerminated
  <2> QED BY <2>4, <2>5, <2>6, <2>10, <2>11 DEF T!IInv
<1>2. CASE \E id \in 0..iUsedOffsetsSize : T!GetData(id)
  <2>1. PICK id \in 0..iUsedOffsetsSize : T!GetData(id)  BY <1>2
  <2>2. UNCHANGED <<iMaxTextSize, iUsedTextSize, sText, iMaxOffsetsSize, iUsedOffsetsSize, aOffsets, iTextId>>
    BY <2>1 DEF T!GetData, T!text, T!index
  <2>3. sTextResult' \in Texts \cup {None}
    BY <2>1 DEF T!GetData, T!IInv, T!TypeOK, T!Consecutive
  <2> QED BY <2>2, <2>3
    DEF T!IInv, T!TypeOK, T!InsideBlocks, T!NulTerminated, T!Allocated, T!Consecutive, T!Text
<1>3. CASE UNCHANGED T!vars
  BY <1>3 DEF T!vars, T!text, T!index, T!IInv, T!TypeOK, T!InsideBlocks, T!NulTerminated, T!Allocated,
              T!Consecutive, T!Text
<1> QED BY <1>1, <1>2, <1>3 DEF T!Next

-----------------------------------------------------------------------------
(* The numbers and the index of their kinds.                               *)

LEMMA BytesOfBits ==
  ASSUME NEW n \in Nat
  PROVE  /\ D!BytePos(n) \in Nat /\ D!BitPos(n) \in 0..ByteBits - 1
         /\ n = ByteBits * D!BytePos(n) + D!BitPos(n)
  BY PoolAssumptions DEF D!ByteBitsSound, D!BytePos, D!BitPos

LEMMA ByteIsNat == \A n \in Nat : D!BytePos(n) \in Nat
  BY BytesOfBits

LEMMA NewIndexSound ==
  ASSUME NEW n \in Nat
  PROVE  D!IndexType(D!NewIndex(n)) /\ D!NewIndex(n).iMaxSize > 0
<1>1. PICK bytes \in Nat : bytes > 0 /\ bytes = n \div ByteBits + 1
  <2>1. n \div ByteBits \in Nat  BY BytesOfBits DEF D!BytePos
  <2> QED BY <2>1
<1> QED BY <1>1 DEF D!IndexType, D!NewIndex

(* SetBit writes inside of the bytes, which it has made more if need be:   *)
(* every other bit of them is what it was.                                 *)
LEMMA BitSet ==
  ASSUME NEW b, D!IndexType(b), b.iMaxSize > 0, NEW n \in Nat, NEW bit \in {0, 1}
  PROVE  LET c == D!SetBit(b, n, bit)
         IN /\ D!IndexType(c) /\ c.iMaxSize > 0
            /\ c.size >= b.size /\ D!BytePos(n) < c.size
            /\ D!GetBit(c, n) = bit
            /\ \A m \in Nat : m # n /\ D!BytePos(m) < b.size => D!GetBit(c, m) = D!GetBit(b, m)
<1> DEFINE byte == D!BytePos(n)
           pos  == D!BitPos(n)
           room == IF byte >= b.iMaxSize THEN D!ResizedIndex(b, byte) ELSE b
           flip(old) == IF bit # 0 THEN old \cup {pos} ELSE old \ {pos}
           c == D!SetBit(b, n, bit)
<1>1. byte \in Nat /\ pos \in 0..ByteBits - 1  BY BytesOfBits
<1>2. /\ b.iMaxSize \in Nat /\ b.size \in 0..b.iMaxSize
      /\ b.data \in [0..b.iMaxSize - 1 -> SUBSET (0..ByteBits - 1)]
      /\ DOMAIN b = {"iMaxSize", "size", "data"}
  BY DEF D!IndexType
<1>3. /\ DOMAIN room = {"iMaxSize", "size", "data"}
      /\ room.iMaxSize \in Nat /\ byte < room.iMaxSize /\ b.iMaxSize <= room.iMaxSize
      /\ room.data \in [0..room.iMaxSize - 1 -> SUBSET (0..ByteBits - 1)]
      /\ \A i \in 0..b.iMaxSize - 1 : room.data[i] = b.data[i]
  <2>1. CASE byte >= b.iMaxSize
    <3> DEFINE d == [i \in 0..byte * 2 - 1 |-> IF i < b.iMaxSize THEN b.data[i] ELSE {}]
    <3>1. room = [b EXCEPT !.iMaxSize = byte * 2, !.data = d]
      BY <2>1 DEF D!ResizedIndex
    <3>2. byte * 2 \in Nat /\ byte < byte * 2 /\ b.iMaxSize <= byte * 2  BY <1>1, <1>2, <2>1
    <3>3. \A i \in 0..byte * 2 - 1 : i < b.iMaxSize => b.data[i] \in SUBSET (0..ByteBits - 1)
      BY <1>2, <3>2
    <3>4. d \in [0..byte * 2 - 1 -> SUBSET (0..ByteBits - 1)]  BY <3>3
    <3>5. \A i \in 0..b.iMaxSize - 1 : d[i] = b.data[i]  BY <1>2, <3>2
    <3> HIDE DEF d
    <3>6. room.iMaxSize = byte * 2 /\ room.data = d /\ DOMAIN room = DOMAIN b  BY <1>2, <3>1
    <3> QED BY <1>2, <3>2, <3>4, <3>5, <3>6
  <2>2. CASE ~(byte >= b.iMaxSize)
    BY <1>1, <1>2, <2>2
  <2> QED BY <2>1, <2>2
<1>4. /\ c.size = D!UsedBytes(b, byte)
      /\ c.iMaxSize = room.iMaxSize
      /\ c.data = [i \in DOMAIN room.data |-> IF i = byte THEN flip(room.data[i]) ELSE room.data[i]]
      /\ DOMAIN c = {"iMaxSize", "size", "data"}
  <2>1. c = [room EXCEPT !.size = D!UsedBytes(b, byte),
                         !.data = [i \in DOMAIN @ |-> IF i = byte THEN flip(@[i]) ELSE @[i]]]
    BY DEF D!SetBit
  <2> HIDE DEF room, c, flip
  <2> QED BY <1>3, <2>1
<1>5. DOMAIN room.data = 0..room.iMaxSize - 1  BY <1>3
<1>6. \A i \in 0..room.iMaxSize - 1 : room.data[i] \subseteq 0..ByteBits - 1  BY <1>3
<1> HIDE DEF room
<1>7. \A old \in SUBSET (0..ByteBits - 1) : flip(old) \in SUBSET (0..ByteBits - 1)
  BY <1>1
<1>8. /\ c.size \in 0..room.iMaxSize /\ c.size >= b.size /\ byte < c.size
  BY <1>1, <1>2, <1>3, <1>4 DEF D!UsedBytes
<1>9. D!IndexType(c)
  <2> HIDE DEF flip, c
  <2>1. c.data \in [0..room.iMaxSize - 1 -> SUBSET (0..ByteBits - 1)]
    BY <1>4, <1>5, <1>6, <1>7
  <2> QED BY <1>3, <1>4, <1>8, <2>1 DEF D!IndexType
<1>10. D!GetBit(c, n) = bit
  <2>1. byte \in DOMAIN room.data  BY <1>1, <1>3, <1>5
  <2>2. c.data[byte] = flip(room.data[byte])  BY <1>4, <2>1
  <2>3. pos \in c.data[byte] <=> bit # 0  BY <2>2
  <2>4. byte < c.iMaxSize  BY <1>3, <1>4
  <2> HIDE DEF c, flip
  <2> QED BY <2>3, <2>4 DEF D!GetBit
<1>11. ASSUME NEW m \in Nat, m # n, D!BytePos(m) < b.size
       PROVE  D!GetBit(c, m) = D!GetBit(b, m)
  <2>1. D!BytePos(m) \in 0..b.iMaxSize - 1  BY <1>2, <1>11, BytesOfBits
  <2>2. room.data[D!BytePos(m)] = b.data[D!BytePos(m)] /\ D!BytePos(m) \in DOMAIN room.data
    BY <1>2, <1>3, <1>5, <2>1
  <2>3. D!BitPos(m) \in c.data[D!BytePos(m)] <=> D!BitPos(m) \in b.data[D!BytePos(m)]
    <3>1. CASE D!BytePos(m) = byte
      <4>1. D!BitPos(m) # pos  BY <1>11, <3>1, BytesOfBits
      <4>2. c.data[D!BytePos(m)] = flip(room.data[D!BytePos(m)])
        <5> HIDE DEF c, flip
        <5> QED BY <1>4, <2>2, <3>1
      <4> QED BY <2>2, <4>1, <4>2
    <3>2. CASE D!BytePos(m) # byte
      <4> HIDE DEF c, flip, byte
      <4> QED BY <1>4, <2>2, <3>2
    <3> QED BY <3>1, <3>2
  <2>4. D!BytePos(m) < b.iMaxSize /\ D!BytePos(m) < c.iMaxSize  BY <1>2, <1>3, <1>4, <2>1
  <2> HIDE DEF c
  <2> QED BY <2>3, <2>4 DEF D!GetBit
<1>12. c.iMaxSize > 0  BY <1>2, <1>3, <1>4
<1> QED BY <1>8, <1>9, <1>10, <1>11, <1>12

(* The kind of number a record of either bit holds. *)
Kinds(bit) == IF bit = 0 THEN Ints ELSE Floats

LEMMA NumbersInit ==
  ASSUME D!Init
  PROVE  D!IInv
<1>1. iMaxNumbers \in Nat /\ DefaultBits \in Nat
  BY PoolAssumptions DEF D!Init, D!SizesSound
<1>2. D!IndexType(oBitIndex) /\ oBitIndex.iMaxSize > 0
  BY <1>1, NewIndexSound DEF D!Init
<1>3. aNumbers \in [0..iMaxNumbers - 1 -> Ints \cup Floats \cup {Junk}]
  BY DEF D!Init
<1> QED BY <1>1, <1>2, <1>3
    DEF D!Init, D!IInv, D!TypeOK, D!InsideBlocks, D!ReducedAgrees, D!KindsKept

(* A record keeps its value and its bit, in the array and in what is       *)
(* dumped of the index; the new one has v and its own.                     *)
LEMMA NumberStored ==
  ASSUME D!IInv, NEW bit \in {0, 1}, NEW v \in Kinds(bit), D!Store(bit, v)
  PROVE  /\ D!IInv'
         /\ iUsedNumbers' = iUsedNumbers + 1
         /\ \A id \in 0..iUsedNumbers - 1 : D!Number(id)' = D!Number(id)
         /\ \A id : id = iUsedNumbers => D!Number(id)' = IF bit = 0 THEN <<"int", v>> ELSE <<"float", v>>
<1> DEFINE n == iUsedNumbers
           b == oBitIndex
           size == IF D!IsFull THEN D!GrownSize ELSE iMaxNumbers
<1>1. n \in Nat /\ iMaxNumbers \in Nat /\ n <= iMaxNumbers /\ D!IndexType(b) /\ b.iMaxSize > 0
  BY DEF D!IInv, D!TypeOK, D!KindsKept
<1>2. /\ n' = n + 1 /\ iMaxNumbers' = size /\ oBitIndex' = D!SetBit(b, n, bit)
      /\ iNumberId' = n /\ oNumberResult' = oNumberResult
      /\ aNumbers' = [i \in 0..size - 1 |->
                        IF i = n THEN v ELSE IF i < n \/ ~D!IsFull THEN aNumbers[i] ELSE Junk]
  BY DEF D!Store
<1>3. size \in Nat /\ n < size  BY <1>1 DEF D!IsFull, D!GrownSize
<1>4. /\ aNumbers'[n] = v
      /\ \A id \in 0..n - 1 : aNumbers'[id] = aNumbers[id]
  BY <1>1, <1>2, <1>3
<1>5. aNumbers' \in [0..size - 1 -> Ints \cup Floats \cup {Junk}]
  <2>1. \A i \in 0..iMaxNumbers - 1 : aNumbers[i] \in Ints \cup Floats \cup {Junk}
    BY DEF D!IInv, D!TypeOK
  <2>2. \A i \in 0..size - 1 : i < n \/ ~D!IsFull => i \in 0..iMaxNumbers - 1
    BY <1>1, <1>3
  <2>3. v \in Ints \cup Floats  BY DEF Kinds
  <2> HIDE DEF size
  <2> QED BY <1>2, <2>1, <2>2, <2>3
<1>6. /\ D!IndexType(oBitIndex') /\ oBitIndex'.iMaxSize > 0
      /\ oBitIndex'.size >= b.size /\ D!BytePos(n) < oBitIndex'.size
      /\ D!GetBit(oBitIndex', n) = bit
      /\ \A m \in Nat : m # n /\ D!BytePos(m) < b.size => D!GetBit(oBitIndex', m) = D!GetBit(b, m)
  BY <1>1, <1>2, BitSet
<1>7. b.size \in Nat /\ oBitIndex'.size \in Nat /\ oBitIndex'.iMaxSize \in Nat
      /\ oBitIndex'.size <= oBitIndex'.iMaxSize
      /\ DOMAIN oBitIndex'.data = 0..oBitIndex'.iMaxSize - 1
  BY <1>1, <1>6 DEF D!IndexType
<1>8. ASSUME NEW id \in 0..n - 1
      PROVE  /\ D!BytePos(id) < b.size /\ D!BytePos(id) < oBitIndex'.size
             /\ D!GetBit(oBitIndex', id) = D!GetBit(b, id)
             /\ aNumbers[id] \in Kinds(D!GetBit(b, id))
  <2>1. D!BytePos(id) < b.size /\ aNumbers[id] \in Kinds(D!GetBit(b, id))
    BY DEF D!IInv, D!KindsKept, Kinds
  <2>2. id \in Nat /\ id # n  BY <1>1
  <2>3. D!GetBit(oBitIndex', id) = D!GetBit(b, id)  BY <1>6, <2>1, <2>2
  <2>4. D!BytePos(id) < oBitIndex'.size
    <3>1. \A x, y, z \in Nat : x < y /\ z >= y => x < z  OBVIOUS
    <3>2. D!BytePos(id) \in Nat  BY <2>2, ByteIsNat
    <3> QED BY <1>6, <1>7, <2>1, <3>1, <3>2
  <2> QED BY <2>1, <2>3, <2>4
<1>9. \A id \in 0..n' - 1 :
        /\ D!BytePos(id) < oBitIndex'.size
        /\ aNumbers'[id] \in Kinds(D!GetBit(oBitIndex', id))
        /\ id \in DOMAIN aNumbers'
  <2>1. \A id \in 0..n' - 1 : (id = n \/ id \in 0..n - 1) /\ id \in 0..size - 1  BY <1>1, <1>2, <1>3
  <2> HIDE DEF n, b, size
  <2> QED BY <1>2, <1>4, <1>5, <1>6, <1>8, <2>1
<1>10. D!TypeOK'  BY <1>1, <1>2, <1>3, <1>5, <1>6 DEF D!IInv, D!TypeOK
<1>11. D!KindsKept'  BY <1>1, <1>2, <1>3, <1>6, <1>9 DEF D!KindsKept, Kinds
<1>12. \A id \in 0..n' - 1 :
         /\ D!BytePos(id) \in DOMAIN oBitIndex'.data
         /\ D!GetBitReduced(oBitIndex', id) = D!GetBit(oBitIndex', id)
  <2>1. ASSUME NEW id \in 0..n' - 1
        PROVE  D!BytePos(id) < oBitIndex'.size /\ D!BytePos(id) < oBitIndex'.iMaxSize
               /\ D!BytePos(id) \in Nat
    <3>1. id \in Nat  BY <1>1, <1>2
    <3>2. D!BytePos(id) \in Nat /\ D!BytePos(id) < oBitIndex'.size  BY <1>9, <3>1, ByteIsNat
    <3> QED BY <1>7, <3>2
  <2> QED BY <1>7, <2>1 DEF D!GetBit, D!GetBitReduced
<1>13. D!InsideBlocks' /\ D!ReducedAgrees'
  BY <1>9, <1>12 DEF D!InsideBlocks, D!IsAllocated, D!ReducedAgrees
<1>14. ASSUME NEW id \in 0..n - 1
       PROVE  D!Number(id)' = D!Number(id)
  <2>1. id \in 0..n' - 1  BY <1>1, <1>2
  <2>2. D!GetBitReduced(b, id) = D!GetBit(b, id)  BY DEF D!IInv, D!ReducedAgrees
  <2> QED BY <1>4, <1>8, <1>12, <2>1, <2>2 DEF D!Number
<1>15. ASSUME NEW id, id = n
       PROVE  D!Number(id)' = IF bit = 0 THEN <<"int", v>> ELSE <<"float", v>>
  <2>1. id \in 0..n' - 1  BY <1>1, <1>2, <1>15
  <2> QED BY <1>4, <1>6, <1>12, <1>15, <2>1 DEF D!Number
<1> QED BY <1>2, <1>10, <1>11, <1>13, <1>14, <1>15 DEF D!IInv

LEMMA NumbersAre ==
  ASSUME D!IInv, NEW id \in 0..iUsedNumbers - 1
  PROVE  D!Number(id) \in ({"int"} \X Ints) \cup ({"float"} \X Floats)
<1>1. D!GetBitReduced(oBitIndex, id) = D!GetBit(oBitIndex, id)
  BY DEF D!IInv, D!ReducedAgrees
<1>2. aNumbers[id] \in IF D!GetBit(oBitIndex, id) = 0 THEN Ints ELSE Floats
  BY DEF D!IInv, D!KindsKept
<1> QED BY <1>1, <1>2 DEF D!Number

LEMMA NumbersStep ==
  ASSUME D!IInv, [D!Next]_(D!vars)
  PROVE  D!IInv'
<1>1. CASE (\E v \in Ints : D!StoreInt(v)) \/ (\E v \in Floats : D!StoreFloat(v))
  BY <1>1, NumberStored DEF D!StoreInt, D!StoreFloat, Kinds
<1>2. CASE \E id \in 0..iUsedNumbers : D!Fetch(id)
  <2>1. PICK id \in 0..iUsedNumbers : D!Fetch(id)  BY <1>2
  <2>2. UNCHANGED <<iMaxNumbers, iUsedNumbers, aNumbers, oBitIndex, iNumberId>>
    BY <2>1 DEF D!Fetch, D!pool
  <2>3. oNumberResult' \in ({"int"} \X Ints) \cup ({"float"} \X Floats) \cup {None}
    <3>1. iUsedNumbers \in Nat  BY DEF D!IInv, D!TypeOK
    <3> QED BY <2>1, <3>1, NumbersAre DEF D!Fetch
  <2> QED BY <2>2, <2>3 DEF D!IInv, D!TypeOK, D!InsideBlocks, D!ReducedAgrees, D!KindsKept
<1>3. CASE UNCHANGED D!vars
  BY <1>3 DEF D!vars, D!pool, D!IInv, D!TypeOK, D!InsideBlocks, D!ReducedAgrees, D!KindsKept
<1> QED BY <1>1, <1>2, <1>3 DEF D!Next

-----------------------------------------------------------------------------
(* The compiler's pools and the table of names take turns; what comes      *)
(* after them leaves them alone.                                           *)

LEMMA PoolsStep ==
  ASSUME [ImageNext]_ImageVars
  PROVE  [T!Next]_(T!vars) /\ [D!Next]_(D!vars) /\ [Next]_vars
<1> USE DEF texts, numbers, names, disk, T!vars, T!text, T!index, D!vars, D!pool, vars, table
<1>1. CASE NameStep \/ TextStep \/ NumberStep
  BY <1>1 DEF NameStep, TextStep, NumberStep
<1>2. CASE DumpStep \/ Redump \/ GetCore \/ Open \/ Write \/ Damage \/ Load
  BY <1>2 DEF DumpStep, Dump, Redump, GetCore, Open, Write, Damage, Load
<1>3. CASE UNCHANGED ImageVars
  BY <1>3 DEF ImageVars
<1> QED BY <1>1, <1>2, <1>3 DEF ImageNext

(* Both pools of constants are well formed and stay inside of their        *)
(* blocks, every text is followed by a NUL, and the used part of the index *)
(* says of every number which kind it is (StaticText::StoreData,           *)
(* CTPP2StaticText.cpp:122; StaticData::StoreInt and StoreFloat, and       *)
(* BitIndex::SetBit).                                                      *)
THEOREM ImagePoolsSound == ImageSpec => []PoolsSound
<1>1. ImageInit => PoolsSound
  BY TextsInit, NumbersInit DEF ImageInit, PoolsSound
<1>2. PoolsSound /\ [ImageNext]_ImageVars => PoolsSound'
  BY PoolsStep, TextsStep, NumbersStep DEF PoolsSound
<1> QED BY <1>1, <1>2, PTL DEF ImageSpec

-----------------------------------------------------------------------------
(* What the pools promise.                                                 *)

(* A function on 1..n and the one that goes on with x at n + 1.            *)
LEMMA AppendedFunction ==
  ASSUME NEW S, NEW n \in Nat, NEW L \in [1..n -> S], NEW x \in S,
         NEW M \in [1..n + 1 -> S],
         \A i \in 1..n : M[i] = L[i], M[n + 1] = x
  PROVE  M = Append(L, x) /\ Len(L) = n
<1>1. L \in Seq(S) /\ Len(L) = n  OBVIOUS
<1>2. \A i \in 1..n + 1 : M[i] \in S
  <2>1. \A i \in 1..n + 1 : i \in 1..n \/ i = n + 1  OBVIOUS
  <2> QED BY <2>1
<1>3. M \in Seq(S) /\ Len(M) = n + 1  BY <1>2
<1>4. /\ Append(L, x) \in Seq(S) /\ Len(Append(L, x)) = n + 1
      /\ \A i \in 1..n : Append(L, x)[i] = L[i]
      /\ Append(L, x)[n + 1] = x
  BY <1>1, AppendProperties
<1>5. \A i \in 1..n + 1 : M[i] = Append(L, x)[i]
  <2>1. \A i \in 1..n + 1 : i \in 1..n \/ i = n + 1  OBVIOUS
  <2> QED BY <1>4, <2>1
<1> QED BY <1>1, <1>3, <1>4, <1>5, SeqEqual

LEMMA TextLogStep ==
  ASSUME T!IInv, [T!Next]_(T!vars)
  PROVE  [TextLog!Next]_(TextLog!vars)
<1> DEFINE n == iUsedOffsetsSize
           L == [i \in 1..n |-> T!Text(i - 1)]
<1>1. n \in Nat  BY DEF T!IInv, T!TypeOK
<1>2. L \in [1..n -> Texts] /\ Len(L) = n
  <2>1. \A i \in 1..n : T!Text(i - 1) \in Texts  BY <1>1 DEF T!IInv, T!Consecutive
  <2> QED BY <1>1, <2>1
<1>3. CASE \E x \in Texts : T!StoreData(x)
  <2>1. PICK x \in Texts : T!StoreData(x)  BY <1>3
  <2> DEFINE M == [i \in 1..n' |-> T!Text(i - 1)']
  <2>2. n' = n + 1 /\ iTextId' = n /\ sTextResult' = sTextResult
    BY <2>1 DEF T!StoreData
  <2>3. \A i \in 1..n : M[i] = L[i]
    <3>1. \A i \in 1..n : i - 1 \in 0..n - 1 /\ i \in 1..n'  BY <1>1, <2>2
    <3> QED BY <2>1, <3>1, TextsAfterStore
  <2>4. M[n + 1] = x
    <3>1. n + 1 \in 1..n' /\ (n + 1) - 1 = n  BY <1>1, <2>2
    <3>2. \A i \in 1..n' : i = n + 1 => T!Text(i - 1)' = x
      <4>1. \A i \in 1..n' : i = n + 1 => i - 1 = n  BY <1>1, <2>2
      <4> QED BY <2>1, <4>1, TextsAfterStore
    <3>3. \A i \in 1..n' : i = n + 1 => M[i] = x  BY <3>2
    <3> QED BY <3>1, <3>3
  <2>5. M \in [1..n + 1 -> Texts]
    <3>1. DOMAIN M = 1..n + 1 /\ M = [i \in 1..n + 1 |-> M[i]]  BY <2>2
    <3>2. \A i \in 1..n + 1 : i \in 1..n \/ i = n + 1  BY <1>1
    <3>3. \A i \in 1..n + 1 : M[i] \in Texts
      <4> HIDE DEF L, M
      <4> QED BY <1>2, <2>3, <2>4, <3>2
    <3> HIDE DEF M
    <3> QED BY <3>1, <3>3
  <2>6. L' = M  OBVIOUS
  <2>7. M = Append(L, x) /\ Len(L) = n
    <3> HIDE DEF L, M, n
    <3> QED BY <1>1, <1>2, <2>3, <2>4, <2>5, AppendedFunction
  <2> HIDE DEF M
  <2> QED BY <2>2, <2>6, <2>7 DEF TextLog!Next, TextLog!Store
<1>4. CASE \E id \in 0..n : T!GetData(id)
  <2>1. PICK id \in 0..n : T!GetData(id)  BY <1>4
  <2>2. UNCHANGED <<iUsedOffsetsSize, aOffsets, sText, iTextId>>
    BY <2>1 DEF T!GetData, T!text, T!index
  <2>3. L' = L  BY <2>2 DEF T!Text
  <2>4. sTextResult' = IF id < n THEN L[id + 1] ELSE None
    <3>1. id < n => L[id + 1] = T!Text(id)
      <4>1. id < n => id + 1 \in 1..n /\ (id + 1) - 1 = id  BY <1>1
      <4> QED BY <4>1
    <3> HIDE DEF L
    <3> QED BY <1>1, <2>1, <3>1 DEF T!GetData
  <2>5. TextLog!Fetch(id)  BY <1>2, <2>2, <2>3, <2>4 DEF TextLog!Fetch
  <2> QED BY <1>2, <2>1, <2>5 DEF TextLog!Next
<1>5. CASE UNCHANGED T!vars
  BY <1>5 DEF T!vars, T!text, T!index, TextLog!vars, T!Text
<1> QED BY <1>3, <1>4, <1>5 DEF T!Next

LEMMA NumberLogStep ==
  ASSUME D!IInv, [D!Next]_(D!vars)
  PROVE  [NumberLog!Next]_(NumberLog!vars)
<1> DEFINE n == iUsedNumbers
           R == ({"int"} \X Ints) \cup ({"float"} \X Floats)
           L == [i \in 1..n |-> D!Number(i - 1)]
<1>1. n \in Nat  BY DEF D!IInv, D!TypeOK
<1>2. L \in [1..n -> R] /\ Len(L) = n
  <2>1. \A i \in 1..n : i - 1 \in 0..n - 1  BY <1>1
  <2>2. \A i \in 1..n : D!Number(i - 1) \in R  BY <2>1, NumbersAre
  <2> HIDE DEF R
  <2> QED BY <1>1, <2>2
<1>3. ASSUME NEW bit \in {0, 1}, NEW v \in Kinds(bit), D!Store(bit, v)
      PROVE  NumberLog!Next
  <2> DEFINE M == [i \in 1..n' |-> D!Number(i - 1)']
             r == IF bit = 0 THEN <<"int", v>> ELSE <<"float", v>>
  <2>1. n' = n + 1 /\ iNumberId' = n /\ oNumberResult' = oNumberResult
    BY <1>3 DEF D!Store
  <2>2. r \in R  BY DEF Kinds
  <2>3. \A i \in 1..n : M[i] = L[i]
    <3>1. \A i \in 1..n : i - 1 \in 0..n - 1 /\ i \in 1..n'  BY <1>1, <2>1
    <3> QED BY <1>3, <3>1, NumberStored
  <2>4. M[n + 1] = r
    <3>1. n + 1 \in 1..n'  BY <1>1, <2>1
    <3>2. \A i \in 1..n' : i = n + 1 => D!Number(i - 1)' = r
      <4>1. \A i \in 1..n' : i = n + 1 => i - 1 = n  BY <1>1, <2>1
      <4> QED BY <1>3, <4>1, NumberStored
    <3>3. \A i \in 1..n' : i = n + 1 => M[i] = r  BY <3>2
    <3> HIDE DEF r
    <3> QED BY <3>1, <3>3
  <2>5. M \in [1..n + 1 -> R]
    <3>1. DOMAIN M = 1..n + 1 /\ M = [i \in 1..n + 1 |-> M[i]]  BY <2>1
    <3>2. \A i \in 1..n + 1 : i \in 1..n \/ i = n + 1  BY <1>1
    <3>3. \A i \in 1..n + 1 : M[i] \in R
      <4> HIDE DEF L, M, R, r
      <4> QED BY <1>2, <2>2, <2>3, <2>4, <3>2
    <3> HIDE DEF M
    <3> QED BY <3>1, <3>3
  <2>6. L' = M  OBVIOUS
  <2>7. M = Append(L, r) /\ Len(L) = n
    <3> HIDE DEF L, M, n, r, R
    <3> QED BY <1>1, <1>2, <2>2, <2>3, <2>4, <2>5, AppendedFunction
  <2> HIDE DEF M, r
  <2> QED BY <2>1, <2>2, <2>6, <2>7 DEF NumberLog!Next, NumberLog!Store
<1>4. CASE (\E v \in Ints : D!StoreInt(v)) \/ (\E v \in Floats : D!StoreFloat(v))
  <2> HIDE DEF n
  <2> QED BY <1>3, <1>4 DEF D!StoreInt, D!StoreFloat, Kinds
<1>5. CASE \E id \in 0..n : D!Fetch(id)
  <2>1. PICK id \in 0..n : D!Fetch(id)  BY <1>5
  <2>2. UNCHANGED <<iUsedNumbers, aNumbers, oBitIndex, iNumberId>>
    BY <2>1 DEF D!Fetch, D!pool
  <2>3. L' = L  BY <2>2 DEF D!Number
  <2>4. oNumberResult' = IF id < n THEN L[id + 1] ELSE None
    <3>1. id < n => L[id + 1] = D!Number(id)
      <4>1. id < n => id + 1 \in 1..n /\ (id + 1) - 1 = id  BY <1>1
      <4> QED BY <4>1
    <3> HIDE DEF L
    <3> QED BY <1>1, <2>1, <3>1 DEF D!Fetch
  <2>5. NumberLog!Fetch(id)  BY <1>2, <2>2, <2>3, <2>4 DEF NumberLog!Fetch
  <2> QED BY <1>2, <2>1, <2>5 DEF NumberLog!Next
<1>6. CASE UNCHANGED D!vars
  BY <1>6 DEF D!vars, D!pool, NumberLog!vars, D!Number
<1> QED BY <1>4, <1>5, <1>6 DEF D!Next

(* Both pools are logs: a record keeps the number it was stored under, is  *)
(* never lost or changed, and is what GetData, GetInt or GetFloat of this  *)
(* number returns, however often the blocks behind the pool were replaced. *)
THEOREM ImageImplementsLogs == ImageSpec => ImplementsLogs
<1>1. ImageInit => TextLog!Init /\ NumberLog!Init
  BY DEF ImageInit, T!Init, D!Init, TextLog!Init, NumberLog!Init
<1>2. PoolsSound /\ [ImageNext]_ImageVars => [TextLog!Next]_(TextLog!vars)
  BY PoolsStep, TextLogStep DEF PoolsSound
<1>3. PoolsSound /\ [ImageNext]_ImageVars => [NumberLog!Next]_(NumberLog!vars)
  BY PoolsStep, NumberLogStep DEF PoolsSound
<1> QED BY <1>1, <1>2, <1>3, ImagePoolsSound, PTL
    DEF ImageSpec, ImplementsLogs, TextLog!Spec, NumberLog!Spec

LEMMA TableSpec == ImageSpec => Spec
<1>1. ImageInit => Init  BY DEF ImageInit
<1>2. [ImageNext]_ImageVars => [Next]_vars  BY PoolsStep
<1> QED BY <1>1, <1>2, PTL DEF ImageSpec, Spec

(* What holds of the table of block names on its own holds of it in the    *)
(* image: it is a map, and iUsed counts its keys.                          *)
THEOREM ImageTableSound == ImageSpec => [](IInv /\ UsedExact) /\ ImplementsDictionary
  BY TableSpec, HashTableInvariant, HashTableUsedExact, HashTableImplementsDictionary, PTL

-----------------------------------------------------------------------------
(* The names of the syscalls, one behind the other.                        *)

(* A set of natural numbers that is not empty has a least element: what is *)
(* left of induction when there is no operator to instantiate.             *)
LEMMA LeastNumber ==
  ASSUME NEW M, M \subseteq Nat, M # {}
  PROVE  \E n \in M : \A m \in M : n <= m
<1> DEFINE R == {pair \in Nat \X Nat : pair[1] < pair[2]}
<1>1. IsWellFoundedOn(R, Nat)  BY NatLessThanWellFounded DEF OpToRel
<1>2. PICK n \in M : \A m \in M : ~(<<m, n>> \in R)
  <2> HIDE DEF R
  <2> QED BY <1>1, WFMin
<1>3. \A m \in M : <<m, n>> \in Nat \X Nat  BY <1>2
<1>4. \A m \in M : ~(m < n)  BY <1>2, <1>3
<1> QED BY <1>2, <1>4

LEMMA Induction ==
  ASSUME NEW S, 0 \in S, \A n \in Nat : n \in S => n + 1 \in S
  PROVE  Nat \subseteq S
<1> DEFINE M == Nat \ S
<1>1. CASE M = {}  BY <1>1
<1>2. CASE M # {}
  <2>1. PICK n \in M : \A m \in M : n <= m  BY <1>2, LeastNumber
  <2>2. n # 0  BY <2>1
  <2>3. n - 1 \in Nat /\ n - 1 \notin M  BY <2>1, <2>2
  <2>4. n - 1 \in S  BY <2>3
  <2>5. (n - 1) + 1 \in S  BY <2>3, <2>4
  <2> QED BY <2>1, <2>5
<1> QED BY <1>1, <1>2

(* The recursion over a list of names has a solution. *)
LEMMA NamesBeforeSolved ==
  ASSUME NEW list
  PROVE  \E f : f = [i \in Nat |-> IF i = 0 THEN <<>> ELSE f[i - 1] \o list[i] \o <<Nul>>]
<1> DEFINE Solves(g, n) == \A i \in 0..n : g[i] = IF i = 0 THEN <<>> ELSE g[i - 1] \o list[i] \o <<Nul>>
           S == {n \in Nat : \E g : Solves(g, n)}
           U == {n \in Nat : \A g, h : Solves(g, n) /\ Solves(h, n) => g[n] = h[n]}
<1>1. \A g : \A n \in Nat : \A m \in 0..n : Solves(g, n) => Solves(g, m)
  OBVIOUS
<1>2. Nat \subseteq S
  <2>1. 0 \in S
    <3>1. Solves([i \in Nat |-> <<>>], 0)  OBVIOUS
    <3> QED BY <3>1
  <2>2. ASSUME NEW n \in Nat, n \in S
        PROVE  n + 1 \in S
    <3>1. PICK g : Solves(g, n)  BY <2>2
    <3> DEFINE h == [i \in Nat |-> IF i = n + 1 THEN g[n] \o list[n + 1] \o <<Nul>> ELSE g[i]]
    <3>2. \A i \in 0..n : h[i] = g[i] /\ (i # 0 => h[i - 1] = g[i - 1])  OBVIOUS
    <3>3. h[n + 1] = g[n] \o list[n + 1] \o <<Nul>> /\ h[n] = g[n]
      <4>1. n + 1 \in Nat /\ n # n + 1  OBVIOUS
      <4> QED BY <4>1
    <3> HIDE DEF h
    <3>4. ASSUME NEW i \in 0..n + 1
          PROVE  h[i] = IF i = 0 THEN <<>> ELSE h[i - 1] \o list[i] \o <<Nul>>
      <4>1. CASE i \in 0..n  BY <3>1, <3>2, <4>1
      <4>2. CASE i = n + 1
        <5>1. i # 0 /\ i - 1 = n  BY <4>2
        <5> QED BY <3>3, <4>2, <5>1
      <4> QED BY <4>1, <4>2
    <3>5. Solves(h, n + 1)  BY <3>4
    <3>6. n + 1 \in Nat  OBVIOUS
    <3> HIDE DEF Solves
    <3> QED BY <3>5, <3>6
  <2> HIDE DEF S
  <2> QED BY <2>1, <2>2, Induction
<1>3. Nat \subseteq U
  <2>1. 0 \in U  OBVIOUS
  <2>2. ASSUME NEW n \in Nat, n \in U
        PROVE  n + 1 \in U
    <3>1. ASSUME NEW g, NEW h, Solves(g, n + 1), Solves(h, n + 1)
          PROVE  g[n + 1] = h[n + 1]
      <4>1. Solves(g, n) /\ Solves(h, n)  BY <3>1
      <4>2. g[n] = h[n]  BY <2>2, <4>1
      <4>3. n + 1 \in 0..n + 1 /\ n + 1 # 0 /\ (n + 1) - 1 = n  OBVIOUS
      <4> QED BY <3>1, <4>2, <4>3
    <3>2. n + 1 \in Nat  OBVIOUS
    <3> HIDE DEF Solves
    <3> QED BY <3>1, <3>2
  <2> HIDE DEF U
  <2> QED BY <2>1, <2>2, Induction
<1> DEFINE sol(n) == CHOOSE g : Solves(g, n)
           f == [n \in Nat |-> sol(n)[n]]
<1>4. \A n \in Nat : Solves(sol(n), n)
  <2> SUFFICES ASSUME NEW n \in Nat  PROVE Solves(sol(n), n)
    OBVIOUS
  <2>1. \E g : Solves(g, n)  BY <1>2
  <2> HIDE DEF Solves
  <2> QED BY <2>1
<1>5. ASSUME NEW i \in Nat
      PROVE  f[i] = IF i = 0 THEN <<>> ELSE f[i - 1] \o list[i] \o <<Nul>>
  <2> HIDE DEF sol
  <2>1. Solves(sol(i), i)  BY <1>4
  <2>2. i \in 0..i  OBVIOUS
  <2>3. sol(i)[i] = IF i = 0 THEN <<>> ELSE sol(i)[i - 1] \o list[i] \o <<Nul>>
    BY <2>1, <2>2
  <2>4. ASSUME i # 0
        PROVE  sol(i)[i - 1] = sol(i - 1)[i - 1]
    <3>1. i - 1 \in Nat /\ i - 1 \in 0..i  BY <2>4
    <3>2. Solves(sol(i), i - 1) /\ Solves(sol(i - 1), i - 1)  BY <1>1, <1>4, <2>1, <3>1
    <3> QED BY <1>3, <3>1, <3>2
  <2>5. i # 0 => i - 1 \in Nat  OBVIOUS
  <2> QED BY <2>3, <2>4, <2>5
<1>6. f = [i \in Nat |-> f[i]]  OBVIOUS
<1> HIDE DEF f
<1>7. f = [i \in Nat |-> IF i = 0 THEN <<>> ELSE f[i - 1] \o list[i] \o <<Nul>>]
  BY <1>5, <1>6
<1> QED BY <1>7

LEMMA NamesBeforeStep ==
  ASSUME NEW list
  PROVE  /\ NamesBefore(list, 0) = <<>>
         /\ \A n \in Nat : NamesBefore(list, n + 1) = NamesBefore(list, n) \o list[n + 1] \o <<Nul>>
<1> DEFINE b == CHOOSE f : f = [i \in Nat |-> IF i = 0 THEN <<>> ELSE f[i - 1] \o list[i] \o <<Nul>>]
<1>1. b = [i \in Nat |-> IF i = 0 THEN <<>> ELSE b[i - 1] \o list[i] \o <<Nul>>]
  BY NamesBeforeSolved
<1>2. \A n : NamesBefore(list, n) = b[n]
  BY DEF NamesBefore
<1> HIDE DEF b
<1>3. b[0] = <<>>  BY <1>1
<1>4. \A n \in Nat : b[n + 1] = b[n] \o list[n + 1] \o <<Nul>>
  <2> SUFFICES ASSUME NEW n \in Nat  PROVE b[n + 1] = b[n] \o list[n + 1] \o <<Nul>>
    OBVIOUS
  <2>1. n + 1 \in Nat /\ n + 1 # 0 /\ (n + 1) - 1 = n  OBVIOUS
  <2>2. b[n + 1] = IF n + 1 = 0 THEN <<>> ELSE b[(n + 1) - 1] \o list[n + 1] \o <<Nul>>
    BY <1>1, <2>1
  <2> QED BY <2>1, <2>2
<1> QED BY <1>2, <1>3, <1>4

(* Where a name lies in what is before the end of the list: behind the names *)
(* before it, and followed by a NUL.                                        *)
NamePlaced(list, id, data) ==
  /\ Len(NamesBefore(list, id)) <= Len(data)
  /\ \A i \in 1..Len(list[id]) : data[Len(NamesBefore(list, id - 1)) + i] = list[id][i]
  /\ data[Len(NamesBefore(list, id))] = Nul

(* A set of the characters of names, and of what is before them. *)
LEMMA NamesAreSeqs ==
  ASSUME NEW list \in SyscallLists
  PROVE  /\ Len(list) \in Nat
         /\ \E C : /\ Nul \in C
                  /\ \A i \in 1..Len(list) : list[i] \in Seq(C)
                  /\ \A n \in 0..Len(list) : NamesBefore(list, n) \in Seq(C)
<1> DEFINE C == {Nul} \cup UNION {{list[i][j] : j \in DOMAIN list[i]} : i \in DOMAIN list}
           S == {n \in Nat : n <= Len(list) => NamesBefore(list, n) \in Seq(C)}
<1>1. /\ Len(list) \in Nat
      /\ \A i \in 1..Len(list) : list[i] \in Seq(C)
  <2>1. T!IsText(list) /\ DOMAIN list = 1..Len(list) /\ Len(list) \in Nat
    BY ProgramAssumption, TextIsSeq
  <2>2. ASSUME NEW i \in 1..Len(list)
        PROVE  list[i] \in Seq(C)
    <3> DEFINE x == list[i]
               X == {x[j] : j \in DOMAIN x}
    <3>1. x \in Seq(X)  BY <2>1, ProgramAssumption DEF T!IsText
    <3>2. X \in {{list[k][j] : j \in DOMAIN list[k]} : k \in DOMAIN list}  BY <2>1
    <3>3. X \subseteq C  BY <3>2
    <3> HIDE DEF C, X, x
    <3>4. x \in Seq(C)  BY <3>1, <3>3
    <3> QED BY <3>4 DEF x
  <2> QED BY <2>1, <2>2
<1>2. Nul \in C  OBVIOUS
<1> HIDE DEF C
<1>3. <<Nul>> \in Seq(C)  BY <1>2
<1>4. 0 \in S
  <2>1. NamesBefore(list, 0) = <<>> /\ <<>> \in Seq(C)  BY NamesBeforeStep
  <2>2. NamesBefore(list, 0) \in Seq(C)  BY <2>1
  <2> QED BY <2>2
<1>5. ASSUME NEW n \in Nat, n \in S
      PROVE  n + 1 \in S
  <2>1. ASSUME n + 1 <= Len(list)
        PROVE  NamesBefore(list, n + 1) \in Seq(C)
    <3>1. NamesBefore(list, n) \in Seq(C) /\ list[n + 1] \in Seq(C)  BY <1>1, <1>5, <2>1
    <3>2. NamesBefore(list, n) \o list[n + 1] \in Seq(C)  BY <3>1, ConcatProperties
    <3>3. (NamesBefore(list, n) \o list[n + 1]) \o <<Nul>> \in Seq(C)  BY <1>3, <3>2, ConcatProperties
    <3> QED BY <3>3, NamesBeforeStep
  <2> QED BY <2>1
<1>6. Nat \subseteq S
  <2> HIDE DEF S
  <2> QED BY <1>4, <1>5, Induction
<1>7. \A n \in 0..Len(list) : NamesBefore(list, n) \in Seq(C)  BY <1>1, <1>6
<1> QED BY <1>1, <1>2, <1>7

LEMMA NameAdded ==
  ASSUME NEW list \in SyscallLists, NEW n \in 0..Len(list) - 1
  PROVE  LET NB(m) == NamesBefore(list, m)
         IN /\ Len(NB(n)) \in Nat /\ Len(list[n + 1]) \in Nat
            /\ Len(NB(n + 1)) = Len(NB(n)) + Len(list[n + 1]) + 1
            /\ \A i \in 1..Len(NB(n)) : NB(n + 1)[i] = NB(n)[i]
            /\ \A i \in 1..Len(list[n + 1]) : NB(n + 1)[Len(NB(n)) + i] = list[n + 1][i]
            /\ NB(n + 1)[Len(NB(n + 1))] = Nul
<1> DEFINE NB(m) == NamesBefore(list, m)
<1>1. Len(list) \in Nat  BY NamesAreSeqs
<1>2. PICK C : Nul \in C /\ (\A i \in 1..Len(list) : list[i] \in Seq(C))
               /\ \A m \in 0..Len(list) : NB(m) \in Seq(C)
  BY NamesAreSeqs
<1> DEFINE s == NB(n)
           t == list[n + 1]
           u == s \o t
           v == u \o <<Nul>>
<1>3. n + 1 \in 1..Len(list) /\ n \in Nat  BY <1>1
<1>4. s \in Seq(C) /\ t \in Seq(C) /\ Len(s) \in Nat /\ Len(t) \in Nat  BY <1>1, <1>2, <1>3
<1>5. NB(n + 1) = v  BY <1>3, NamesBeforeStep
<1> HIDE DEF NB, s, t
<1>6. u \in Seq(C) /\ Len(u) = Len(s) + Len(t)
      /\ \A i \in 1..Len(s) + Len(t) : u[i] = IF i <= Len(s) THEN s[i] ELSE t[i - Len(s)]
  BY <1>4, ConcatProperties
<1> HIDE DEF u
<1>7. v \in Seq(C) /\ Len(v) = Len(u) + 1
      /\ \A i \in 1..Len(u) + 1 : v[i] = IF i <= Len(u) THEN u[i] ELSE <<Nul>>[i - Len(u)]
  <2> DEFINE z == <<Nul>>
  <2>1. z \in Seq(C) /\ Len(z) = 1 /\ z[1] = Nul  BY <1>2
  <2> HIDE DEF z
  <2>2. u \in Seq(C) /\ z \in Seq(C)  BY <1>6, <2>1
  <2>3. /\ u \o z \in Seq(C) /\ Len(u \o z) = Len(u) + Len(z)
        /\ \A i \in 1..Len(u) + Len(z) : (u \o z)[i] = IF i <= Len(u) THEN u[i] ELSE z[i - Len(u)]
    BY ONLY <2>2, ConcatProperties
  <2> QED BY <2>1, <2>3 DEF z
<1> HIDE DEF v
<1>8. \A i \in 1..Len(s) : v[i] = s[i]
  <2>1. \A i \in 1..Len(s) : i \in 1..Len(u) + 1 /\ i <= Len(u) /\ i \in 1..Len(s) + Len(t) /\ i <= Len(s)
    BY <1>4, <1>6
  <2> QED BY <1>6, <1>7, <2>1
<1>9. \A i \in 1..Len(t) : v[Len(s) + i] = t[i]
  <2>1. \A i \in 1..Len(t) : LET j == Len(s) + i IN
           j \in 1..Len(u) + 1 /\ j <= Len(u) /\ j \in 1..Len(s) + Len(t) /\ ~(j <= Len(s)) /\ j - Len(s) = i
    BY <1>4, <1>6
  <2> QED BY <1>6, <1>7, <2>1
<1>10. v[Len(v)] = Nul
  <2>1. Len(v) \in 1..Len(u) + 1 /\ ~(Len(v) <= Len(u)) /\ Len(v) - Len(u) = 1  BY <1>4, <1>6, <1>7
  <2> QED BY <1>7, <2>1
<1> QED BY <1>4, <1>5, <1>6, <1>7, <1>8, <1>9, <1>10 DEF s, t, NB

LEMMA NamesPlaced ==
  ASSUME NEW list \in SyscallLists, NEW id \in 1..Len(list)
  PROVE  NamePlaced(list, id, NamesBefore(list, Len(list)))
<1> DEFINE NB(n) == NamesBefore(list, n)
           S == {n \in Nat : n <= Len(list) => \A k \in 1..n : NamePlaced(list, k, NB(n))}
<1>1. Len(list) \in Nat  BY NamesAreSeqs
<1>2. 0 \in S  OBVIOUS
<1>3. ASSUME NEW n \in Nat, n \in S
      PROVE  n + 1 \in S
  <2> SUFFICES ASSUME n + 1 <= Len(list)
               PROVE  \A k \in 1..n + 1 : NamePlaced(list, k, NB(n + 1))
    OBVIOUS
  <2>1. n \in 0..Len(list) - 1 /\ \A k \in 1..n : NamePlaced(list, k, NB(n))
    BY <1>1, <1>3
  <2> HIDE DEF S, NB
  <2>2. /\ Len(NB(n)) \in Nat /\ Len(list[n + 1]) \in Nat
        /\ Len(NB(n + 1)) = Len(NB(n)) + Len(list[n + 1]) + 1
        /\ \A i \in 1..Len(NB(n)) : NB(n + 1)[i] = NB(n)[i]
        /\ \A i \in 1..Len(list[n + 1]) : NB(n + 1)[Len(NB(n)) + i] = list[n + 1][i]
        /\ NB(n + 1)[Len(NB(n + 1))] = Nul
    BY NameAdded, <2>1 DEF NB
  <2>3. NB(n + 1) = NamesBefore(list, n + 1) /\ NB(n) = NamesBefore(list, n)  BY DEF NB
  <2>4. ASSUME NEW k \in 1..n
        PROVE  NamePlaced(list, k, NB(n + 1))
    <3> DEFINE m == Len(NamesBefore(list, k - 1))
    <3>1. NamePlaced(list, k, NB(n))  BY <2>1
    <3>2. k \in 0..Len(list) /\ Len(NamesBefore(list, k)) = m + Len(list[k]) + 1
          /\ m \in Nat /\ Len(list[k]) \in Nat
      <4>1. k - 1 \in 0..Len(list) - 1 /\ (k - 1) + 1 = k /\ k \in 0..Len(list)  BY <1>1, <2>1
      <4> QED BY NameAdded, <4>1
    <3> HIDE DEF m
    <3>3. Len(NamesBefore(list, k)) <= Len(NB(n)) /\ Len(NB(n)) <= Len(NB(n + 1))
      BY <2>2, <3>1 DEF NamePlaced
    <3>4. \A i \in 1..Len(list[k]) : m + i \in 1..Len(NB(n))
      BY <2>2, <3>2, <3>3
    <3>5. Len(NamesBefore(list, k)) \in 1..Len(NB(n))
      BY <2>2, <3>2, <3>3
    <3>6. \A i \in 1..Len(list[k]) : NB(n)[m + i] = list[k][i]
      BY <3>1 DEF NamePlaced, m
    <3>7. NB(n)[Len(NamesBefore(list, k))] = Nul
      BY <3>1 DEF NamePlaced
    <3>8. \A i \in 1..Len(list[k]) : NB(n + 1)[m + i] = list[k][i]
      BY <2>2, <3>4, <3>6
    <3>9. NB(n + 1)[Len(NamesBefore(list, k))] = Nul
      BY <2>2, <3>5, <3>7
    <3>10. Len(NamesBefore(list, k)) <= Len(NB(n + 1))
      BY <2>2, <3>2, <3>3
    <3> QED BY <3>8, <3>9, <3>10 DEF NamePlaced, m
  <2>5. NamePlaced(list, n + 1, NB(n + 1))
    <3>1. (n + 1) - 1 = n  OBVIOUS
    <3> QED BY <2>2, <2>3, <3>1 DEF NamePlaced
  <2>6. \A k \in 1..n + 1 : k \in 1..n \/ k = n + 1  OBVIOUS
  <2> QED BY <2>2, <2>4, <2>5, <2>6
<1>4. Nat \subseteq S
  <2> HIDE DEF S
  <2> QED BY <1>2, <1>3, Induction
<1> QED BY <1>1, <1>4
-----------------------------------------------------------------------------
(* Where the segments lie.                                                 *)

LEMMA AlignedSize ==
  ASSUME NEW n \in Nat
  PROVE  AlignSegment(n) \in Nat /\ AlignSegment(n) >= n /\ AlignSegment(n) % 8 = 0
BY DEF AlignSegment

LEMMA AlignedSum ==
  ASSUME NEW m \in Nat, NEW n \in Nat, m % 8 = 0, n % 8 = 0
  PROVE  (m + n) % 8 = 0
OBVIOUS

LEMMA OffsetsAre ==
  ASSUME NEW sizes \in [1..8 -> Nat], Len(sizes) = 8
  PROVE  LET o == Offsets(sizes)
         IN o[1] = HeaderSize /\ \A k \in 1..8 : o[k + 1] = o[k] + AlignSegment(sizes[k])
<1> DEFINE A(k) == AlignSegment(sizes[k])
           w1 == HeaderSize
           w2 == w1 + A(1)
           w3 == w2 + A(2)
           w4 == w3 + A(3)
           w5 == w4 + A(4)
           w6 == w5 + A(5)
           w7 == w6 + A(6)
           w8 == w7 + A(7)
           w9 == w8 + A(8)
           w == [k \in 1..9 |-> CASE k = 1 -> w1 [] k = 2 -> w2 [] k = 3 -> w3 [] k = 4 -> w4 [] k = 5 -> w5
                                  [] k = 6 -> w6 [] k = 7 -> w7 [] k = 8 -> w8 [] k = 9 -> w9]
           o == CHOOSE f : f = [k \in 1..Len(sizes) + 1 |->
                                  IF k = 1 THEN AlignSegment(HeaderSize) ELSE f[k - 1] + AlignSegment(sizes[k - 1])]
<1>1. w = [k \in 1..Len(sizes) + 1 |->
             IF k = 1 THEN AlignSegment(HeaderSize) ELSE w[k - 1] + AlignSegment(sizes[k - 1])]
  <2>1. /\ w[1] = w1 /\ w[2] = w2 /\ w[3] = w3 /\ w[4] = w4 /\ w[5] = w5
        /\ w[6] = w6 /\ w[7] = w7 /\ w[8] = w8 /\ w[9] = w9
    <3> HIDE DEF w1, w2, w3, w4, w5, w6, w7, w8, w9
    <3> QED OBVIOUS
  <2>2. w = [k \in 1..9 |-> w[k]]
    <3> HIDE DEF w1, w2, w3, w4, w5, w6, w7, w8, w9
    <3> QED OBVIOUS
  <2>3. w1 = AlignSegment(HeaderSize)  BY DEF AlignSegment, HeaderSize
  <2> HIDE DEF w
  <2>4. ASSUME NEW k \in 1..9
        PROVE  w[k] = IF k = 1 THEN AlignSegment(HeaderSize) ELSE w[k - 1] + A(k - 1)
    <3>1. \/ k = 1 \/ k = 2 \/ k = 3 \/ k = 4 \/ k = 5 \/ k = 6 \/ k = 7 \/ k = 8 \/ k = 9
      OBVIOUS
    <3>2. /\ w[2] = w[1] + A(1) /\ w[3] = w[2] + A(2) /\ w[4] = w[3] + A(3) /\ w[5] = w[4] + A(4)
          /\ w[6] = w[5] + A(5) /\ w[7] = w[6] + A(6) /\ w[8] = w[7] + A(7) /\ w[9] = w[8] + A(8)
      BY <2>1
    <3>3. w[1] = AlignSegment(HeaderSize)  BY <2>1, <2>3
    <3> HIDE DEF A, w1
    <3> QED BY <3>1, <3>2, <3>3
  <2> HIDE DEF w1, A
  <2>5. 1..Len(sizes) + 1 = 1..9  OBVIOUS
  <2> QED BY <2>2, <2>4, <2>5 DEF A
<1> HIDE DEF w
<1>2. o = [k \in 1..Len(sizes) + 1 |->
             IF k = 1 THEN AlignSegment(HeaderSize) ELSE o[k - 1] + AlignSegment(sizes[k - 1])]
  BY <1>1
<1>3. Offsets(sizes) = o  BY DEF Offsets
<1> HIDE DEF o
<1>4. o[1] = HeaderSize
  <2>1. AlignSegment(HeaderSize) = HeaderSize  BY DEF AlignSegment, HeaderSize
  <2>2. 1 \in 1..Len(sizes) + 1  OBVIOUS
  <2> QED BY <1>2, <2>1, <2>2
<1>5. ASSUME NEW k \in 1..8
      PROVE  o[k + 1] = o[k] + AlignSegment(sizes[k])
  <2>1. k + 1 \in 1..Len(sizes) + 1 /\ k + 1 # 1 /\ (k + 1) - 1 = k  OBVIOUS
  <2> QED BY <1>2, <2>1
<1> QED BY <1>3, <1>4, <1>5

(* Segments are aligned, and none reaches into the next. *)
LEMMA OffsetsApart ==
  ASSUME NEW sizes \in [1..8 -> Nat], Len(sizes) = 8
  PROVE  LET o == Offsets(sizes)
         IN /\ \A k \in 1..9 : o[k] \in Nat /\ o[k] >= HeaderSize /\ o[k] % 8 = 0
            /\ \A k \in 1..8 : o[k] + sizes[k] <= o[k + 1] /\ o[k + 1] <= o[9]
<1> DEFINE o == Offsets(sizes)
           Good(n) == n \in Nat /\ n >= HeaderSize /\ n % 8 = 0
<1>1. o[1] = HeaderSize /\ \A k \in 1..8 : o[k + 1] = o[k] + AlignSegment(sizes[k])
  BY OffsetsAre
<1> HIDE DEF o
<1>2. Good(o[1])  BY <1>1 DEF HeaderSize
<1>3. ASSUME NEW k \in 1..8, Good(o[k])
      PROVE  Good(o[k + 1]) /\ o[k] + sizes[k] <= o[k + 1] /\ o[k] <= o[k + 1]
  <2> DEFINE a == AlignSegment(sizes[k])
  <2>1. a \in Nat /\ a >= sizes[k] /\ a % 8 = 0 /\ sizes[k] \in Nat  BY AlignedSize
  <2>2. o[k + 1] = o[k] + a  BY <1>1
  <2> HIDE DEF a
  <2>3. (o[k] + a) % 8 = 0  BY <1>3, <2>1, AlignedSum
  <2> QED BY <1>3, <2>1, <2>2, <2>3 DEF HeaderSize
<1>4. /\ 1 + 1 = 2 /\ 2 + 1 = 3 /\ 3 + 1 = 4 /\ 4 + 1 = 5 /\ 5 + 1 = 6 /\ 6 + 1 = 7 /\ 7 + 1 = 8 /\ 8 + 1 = 9
      /\ 1 \in 1..8 /\ 2 \in 1..8 /\ 3 \in 1..8 /\ 4 \in 1..8 /\ 5 \in 1..8 /\ 6 \in 1..8 /\ 7 \in 1..8 /\ 8 \in 1..8
  OBVIOUS
<1> HIDE DEF Good
<1>5. /\ Good(o[1]) /\ Good(o[2]) /\ Good(o[3]) /\ Good(o[4]) /\ Good(o[5])
      /\ Good(o[6]) /\ Good(o[7]) /\ Good(o[8]) /\ Good(o[9])
  <2>1. Good(o[2])  BY <1>2, <1>3, <1>4
  <2>2. Good(o[3])  BY <2>1, <1>3, <1>4
  <2>3. Good(o[4])  BY <2>2, <1>3, <1>4
  <2>4. Good(o[5])  BY <2>3, <1>3, <1>4
  <2>5. Good(o[6])  BY <2>4, <1>3, <1>4
  <2>6. Good(o[7])  BY <2>5, <1>3, <1>4
  <2>7. Good(o[8])  BY <2>6, <1>3, <1>4
  <2>8. Good(o[9])  BY <2>7, <1>3, <1>4
  <2> QED BY <1>2, <2>1, <2>2, <2>3, <2>4, <2>5, <2>6, <2>7, <2>8
<1>6. \A k \in 1..9 : Good(o[k])
  <2>1. \A k \in 1..9 : k = 1 \/ k = 2 \/ k = 3 \/ k = 4 \/ k = 5 \/ k = 6 \/ k = 7 \/ k = 8 \/ k = 9
    OBVIOUS
  <2> QED BY <1>5, <2>1
<1>7. \A k \in 1..8 : o[k] + sizes[k] <= o[k + 1] /\ o[k] <= o[k + 1]
  <2>1. \A k \in 1..8 : k \in 1..9  OBVIOUS
  <2> QED BY <1>3, <1>6, <2>1
<1>8. \A k \in 1..8 : o[k + 1] <= o[9]
  <2>1. /\ o[1] <= o[2] /\ o[2] <= o[3] /\ o[3] <= o[4] /\ o[4] <= o[5]
        /\ o[5] <= o[6] /\ o[6] <= o[7] /\ o[7] <= o[8] /\ o[8] <= o[9]
    BY <1>4, <1>7
  <2>2. \A k \in 1..9 : o[k] \in Nat  BY <1>6 DEF Good
  <2>3. /\ o[2] \in Nat /\ o[3] \in Nat /\ o[4] \in Nat /\ o[5] \in Nat
        /\ o[6] \in Nat /\ o[7] \in Nat /\ o[8] \in Nat /\ o[9] \in Nat
    BY <2>2
  <2>4. /\ o[2] <= o[9] /\ o[3] <= o[9] /\ o[4] <= o[9] /\ o[5] <= o[9]
        /\ o[6] <= o[9] /\ o[7] <= o[9] /\ o[8] <= o[9] /\ o[9] <= o[9]
    BY <2>1, <2>3
  <2>5. \A k \in 1..8 : \/ k + 1 = 2 \/ k + 1 = 3 \/ k + 1 = 4 \/ k + 1 = 5
                        \/ k + 1 = 6 \/ k + 1 = 7 \/ k + 1 = 8 \/ k + 1 = 9
    OBVIOUS
  <2> QED BY <2>4, <2>5
<1> QED BY <1>6, <1>7, <1>8 DEF Good, o

LEMMA CountOfBlock ==
  ASSUME NEW n \in Nat, NEW block, DOMAIN block = 0..n - 1
  PROVE  Count(block) = n
<1>1. Cardinality(0..n - 1) = n
  <2>1. 0 \in Int /\ n - 1 \in Int  OBVIOUS
  <2>2. Cardinality(0..n - 1) = IF 0 > n - 1 THEN 0 ELSE (n - 1) - 0 + 1  BY <2>1, FS_Interval
  <2> QED BY <2>2
<1> QED BY <1>1 DEF Count

(* There are finitely many slots, as many as sets of bits. *)
LEMMA FiniteSlots ==
  ASSUME NEW p \in Nat
  PROVE  IsFiniteSet(Bits(p))
<1> USE DEF Bits
<1> DEFINE S == SUBSET (0..p - 1)
           f == [x \in S |-> [i \in 0..p - 1 |-> IF i \in x THEN 1 ELSE 0]]
<1>1. IsFiniteSet(S)
  <2>1. IsFiniteSet(0..p - 1)
    <3>1. 0 \in Int /\ p - 1 \in Int  OBVIOUS
    <3> QED BY <3>1, FS_Interval
  <2> QED BY <2>1, FS_SUBSET
<1>2. f \in [S -> Bits(p)]  OBVIOUS
<1>3. ASSUME NEW b \in Bits(p)
      PROVE  \E x \in S : f[x] = b
  <2> DEFINE x == {i \in 0..p - 1 : b[i] = 1}
  <2>1. x \in S  OBVIOUS
  <2>2. \A i \in 0..p - 1 : b[i] \in {0, 1}  OBVIOUS
  <2>3. b = [i \in 0..p - 1 |-> b[i]]  OBVIOUS
  <2>4. f[x] = [i \in 0..p - 1 |-> IF i \in x THEN 1 ELSE 0]  BY <2>1
  <2>5. \A i \in 0..p - 1 : (IF i \in x THEN 1 ELSE 0) = b[i]  BY <2>2
  <2> HIDE DEF f, x
  <2>6. f[x] = b  BY <2>3, <2>4, <2>5
  <2> QED BY <2>1, <2>6
<1> HIDE DEF f, S
<1>4. f \in Surjection(S, Bits(p))  BY <1>2, <1>3 DEF Surjection
<1> QED BY <1>1, <1>4, FS_Surjection

LEMMA EightNumbers ==
  ASSUME NEW a \in Nat, NEW b \in Nat, NEW c \in Nat, NEW d \in Nat,
         NEW e \in Nat, NEW f \in Nat, NEW g \in Nat, NEW h \in Nat
  PROVE  <<a, b, c, d, e, f, g, h>> \in [1..8 -> Nat] /\ Len(<<a, b, c, d, e, f, g, h>>) = 8
OBVIOUS

(* What the eight pools are: how long each is, and that what is used of    *)
(* the two blocks of characters ends with the last text.                   *)
LEMMA PoolsAre ==
  ASSUME PoolsSound, IInv, NEW code \in CodeSizes, NEW list \in SyscallLists
  PROVE  LET pools == Pools(code, list)
             sizes == Sizes(pools)
         IN /\ sizes \in [1..8 -> Nat] /\ Len(sizes) = 8
            /\ TextSize(pools[SYSCALLS_INDEX]) = Len(NamesBefore(list, Len(list)))
            /\ TextSize(pools[TEXT_INDEX]) = iUsedTextSize
<1> DEFINE pools == Pools(code, list)
           NB(n) == NamesBefore(list, n)
           total == Len(NB(Len(list)))
<1>1. Count(pools[CODE]) = code /\ code \in Nat
  <2>1. pools[CODE] = [i \in 0..code - 1 |-> "instruction"]  BY DEF Pools, CODE
  <2>2. code \in Nat  BY ProgramAssumption
  <2>3. DOMAIN pools[CODE] = 0..code - 1  BY <2>1
  <2> HIDE DEF pools
  <2> QED BY <2>2, <2>3, CountOfBlock
<1>2. Len(list) \in Nat /\ total \in Nat /\ NB(0) = <<>>
  <2>1. Len(list) \in Nat  BY NamesAreSeqs
  <2>2. NB(0) = <<>>  BY NamesBeforeStep
  <2>3. CASE Len(list) = 0
    BY <2>1, <2>2, <2>3
  <2>4. CASE Len(list) # 0
    <3> DEFINE n == Len(list) - 1
    <3>1. n \in 0..Len(list) - 1 /\ n + 1 = Len(list)  BY <2>1, <2>4
    <3>2. Len(NB(n)) \in Nat /\ Len(list[n + 1]) \in Nat /\ Len(NB(n + 1)) = Len(NB(n)) + Len(list[n + 1]) + 1
      BY <3>1, NameAdded
    <3> HIDE DEF n
    <3> QED BY <2>1, <2>2, <3>1, <3>2
  <2> QED BY <2>3, <2>4
<1>3. Count(pools[SYSCALLS_INDEX]) = Len(list) /\ TextSize(pools[SYSCALLS_INDEX]) = total
  <2> DEFINE b == pools[SYSCALLS_INDEX]
  <2>1. b = [i \in 0..Len(list) - 1 |-> [offset |-> Len(NB(i)), length |-> Len(list[i + 1])]]
    BY DEF Pools, SYSCALLS_INDEX
  <2>2. Count(b) = Len(list)
    <3>1. DOMAIN b = 0..Len(list) - 1  BY <2>1
    <3> HIDE DEF b
    <3> QED BY <1>2, <3>1, CountOfBlock
  <2>3. CASE Len(list) = 0
    BY <1>2, <2>2, <2>3 DEF TextSize
  <2>4. CASE Len(list) # 0
    <3> DEFINE n == Len(list) - 1
    <3>1. n \in 0..Len(list) - 1 /\ n + 1 = Len(list)  BY <1>2, <2>4
    <3>2. Len(NB(n + 1)) = Len(NB(n)) + Len(list[n + 1]) + 1  BY <3>1, NameAdded
    <3>3. b[n].offset = Len(NB(n)) /\ b[n].length = Len(list[n + 1])  BY <2>1, <3>1
    <3>4. TextSize(b) = b[n].offset + b[n].length + 1  BY <2>2, <2>4 DEF TextSize
    <3> HIDE DEF b, n, NB
    <3>5. TextSize(b) = total  BY <3>1, <3>2, <3>3, <3>4
    <3> QED BY <2>2, <3>5 DEF b
  <2> QED BY <2>2, <2>3, <2>4
<1>4. Count(pools[DATA]) = iUsedNumbers /\ iUsedNumbers \in Nat
  <2>1. iUsedNumbers \in Nat  BY DEF PoolsSound, D!IInv, D!TypeOK
  <2>2. DOMAIN pools[DATA] = 0..iUsedNumbers - 1  BY DEF Pools, DATA, Prefix
  <2> HIDE DEF pools
  <2> QED BY <2>1, <2>2, CountOfBlock
<1>5. Count(pools[TEXT_INDEX]) = iUsedOffsetsSize /\ iUsedOffsetsSize \in Nat
      /\ TextSize(pools[TEXT_INDEX]) = iUsedTextSize /\ iUsedTextSize \in Nat
  <2> DEFINE b == pools[TEXT_INDEX]
             n == iUsedOffsetsSize - 1
  <2>1. iUsedOffsetsSize \in Nat /\ iUsedTextSize \in Nat  BY DEF PoolsSound, T!IInv, T!TypeOK
  <2>2. b = [i \in 0..n |-> aOffsets[i]]  BY DEF Pools, TEXT_INDEX, Prefix
  <2>3. iUsedTextSize = IF iUsedOffsetsSize = 0 THEN 0
                        ELSE aOffsets[n].offset + aOffsets[n].length + 1
    BY DEF PoolsSound, T!IInv, T!Consecutive
  <2>4. Count(b) = iUsedOffsetsSize
    <3>1. DOMAIN b = 0..n  BY <2>2
    <3> HIDE DEF b
    <3> QED BY <2>1, <3>1, CountOfBlock
  <2>5. iUsedOffsetsSize # 0 => b[n] = aOffsets[n]
    <3>1. iUsedOffsetsSize # 0 => n \in 0..n  BY <2>1
    <3> QED BY <2>2, <3>1
  <2>6. TextSize(b) = IF iUsedOffsetsSize = 0 THEN 0 ELSE b[n].offset + b[n].length + 1
    BY <2>4 DEF TextSize
  <2> HIDE DEF b, n
  <2>7. TextSize(b) = iUsedTextSize  BY <2>3, <2>5, <2>6
  <2> QED BY <2>1, <2>4, <2>7 DEF b
<1>6. pools[BIT_INDEX].size \in Nat
  BY DEF PoolsSound, D!IInv, D!TypeOK, D!IndexType, Pools, BIT_INDEX
<1>7. Count(pools[CALLS]) \in Nat
  <2>1. DOMAIN aElements = Bits(iPower) /\ iPower \in Nat  BY HashBitsAssumption DEF IInv, TypeOK
  <2>2. pools[CALLS] = aElements  BY DEF Pools, CALLS
  <2> HIDE DEF pools
  <2> QED BY <2>1, <2>2, FiniteSlots, FS_CardinalityType DEF Count
<1> HIDE DEF pools, total
<1>8. Sizes(pools) =
        << 16 * code, total, 8 * Len(list), 8 * iUsedNumbers, iUsedTextSize, 8 * iUsedOffsetsSize,
           8 + pools[BIT_INDEX].size, 24 * Count(pools[CALLS]) >>
  BY <1>1, <1>3, <1>4, <1>5 DEF Sizes
<1>9. Sizes(pools) \in [1..8 -> Nat] /\ Len(Sizes(pools)) = 8
  <2>1. /\ 16 * code \in Nat /\ 8 * Len(list) \in Nat /\ 8 * iUsedNumbers \in Nat
        /\ 8 * iUsedOffsetsSize \in Nat /\ 8 + pools[BIT_INDEX].size \in Nat
        /\ 24 * Count(pools[CALLS]) \in Nat
    <3>1. \A n \in Nat : 8 * n \in Nat /\ 16 * n \in Nat /\ 24 * n \in Nat /\ 8 + n \in Nat  OBVIOUS
    <3>2. /\ code \in Nat /\ Len(list) \in Nat /\ iUsedNumbers \in Nat /\ iUsedOffsetsSize \in Nat
          /\ pools[BIT_INDEX].size \in Nat /\ Count(pools[CALLS]) \in Nat
      BY <1>1, <1>2, <1>4, <1>5, <1>6, <1>7
    <3> QED BY ONLY <3>1, <3>2, Zenon
  <2>2. total \in Nat /\ iUsedTextSize \in Nat  BY <1>2, <1>5
  <2> DEFINE t == << 16 * code, total, 8 * Len(list), 8 * iUsedNumbers, iUsedTextSize, 8 * iUsedOffsetsSize,
                     8 + pools[BIT_INDEX].size, 24 * Count(pools[CALLS]) >>
  <2>3. t \in [1..8 -> Nat] /\ Len(t) = 8  BY ONLY <2>1, <2>2, EightNumbers
  <2> HIDE DEF t
  <2> QED BY <1>8, <2>3 DEF t
<1> QED BY <1>3, <1>5, <1>9 DEF pools, total

LEMMA CopiesAre ==
  ASSUME NEW p, p = [k \in 1..8 |-> p[k]]
  PROVE  LET c == Copies(p)
         IN /\ c = [k \in 1..8 |-> c[k]]
            /\ c[1] = p[1] /\ c[3] = p[3] /\ c[4] = p[4] /\ c[6] = p[6] /\ c[8] = p[8]
            /\ c[2] = Prefix(p[2], TextSize(p[3])) /\ c[5] = Prefix(p[5], TextSize(p[6]))
            /\ c[7] = [size |-> p[7].size, data |-> Prefix(p[7].data, p[7].size)]
<1> USE DEF CODE, SYSCALLS, SYSCALLS_INDEX, DATA, TEXT, TEXT_INDEX, BIT_INDEX, CALLS
<1> DEFINE c2 == Prefix(p[2], TextSize(p[3]))
           c5 == Prefix(p[5], TextSize(p[6]))
           c7 == [size |-> p[7].size, data |-> Prefix(p[7].data, p[7].size)]
<1>1. Copies(p) = [k \in 1..8 |-> IF k = 2 THEN c2 ELSE IF k = 5 THEN c5 ELSE IF k = 7 THEN c7 ELSE p[k]]
  BY DEF Copies
<1> HIDE DEF c2, c5, c7
<1>2. \A k \in 1..8 : Copies(p)[k] = IF k = 2 THEN c2 ELSE IF k = 5 THEN c5 ELSE IF k = 7 THEN c7 ELSE p[k]
  BY <1>1
<1>3. Copies(p) = [k \in 1..8 |-> Copies(p)[k]]  BY <1>1
<1> QED BY <1>2, <1>3 DEF c2, c5, c7

(* A copy of what was copied is the same: a program dumped again has the   *)
(* segments it had.                                                        *)
LEMMA CopiedTwice ==
  ASSUME NEW p, p = [k \in 1..8 |-> p[k]]
  PROVE  LET c == Copies(p)
         IN c = [k \in 1..8 |-> c[k]] /\ Copies(c) = c /\ Sizes(c) = Sizes(p)
<1> DEFINE c == Copies(p)
           n == TextSize(p[3])
           m == TextSize(p[6])
<1>1. /\ c = [k \in 1..8 |-> c[k]]
      /\ c[1] = p[1] /\ c[3] = p[3] /\ c[4] = p[4] /\ c[6] = p[6] /\ c[8] = p[8]
      /\ c[2] = Prefix(p[2], n) /\ c[5] = Prefix(p[5], m)
      /\ c[7] = [size |-> p[7].size, data |-> Prefix(p[7].data, p[7].size)]
  BY CopiesAre
<1> DEFINE d == Copies(c)
<1> HIDE DEF c
<1>2. /\ d = [k \in 1..8 |-> d[k]]
      /\ d[1] = c[1] /\ d[3] = c[3] /\ d[4] = c[4] /\ d[6] = c[6] /\ d[8] = c[8]
      /\ d[2] = Prefix(c[2], TextSize(c[3])) /\ d[5] = Prefix(c[5], TextSize(c[6]))
      /\ d[7] = [size |-> c[7].size, data |-> Prefix(c[7].data, c[7].size)]
  BY <1>1, CopiesAre
<1> HIDE DEF d, n, m
<1>3. \A b, k : Prefix(Prefix(b, k), k) = Prefix(b, k)  BY DEF Prefix
<1>4. d[2] = c[2] /\ d[5] = c[5] /\ d[7] = c[7]
  <2>1. d[2] = c[2] /\ d[5] = c[5]  BY <1>1, <1>2, <1>3 DEF n, m
  <2>2. c[7].size = p[7].size /\ c[7].data = Prefix(p[7].data, p[7].size)  BY <1>1
  <2>3. d[7] = c[7]  BY <1>1, <1>2, <1>3, <2>2
  <2> QED BY <2>1, <2>3
<1>5. d = c
  <2>1. \A k \in 1..8 : k = 1 \/ k = 2 \/ k = 3 \/ k = 4 \/ k = 5 \/ k = 6 \/ k = 7 \/ k = 8  OBVIOUS
  <2>2. \A k \in 1..8 : d[k] = c[k]  BY <1>2, <1>4, <2>1
  <2> QED BY <1>1, <1>2, <2>2
<1>6. Sizes(c) = Sizes(p)
  <2>1. c[7].size = p[7].size  BY <1>1
  <2> QED BY <1>1, <2>1
      DEF Sizes, CODE, SYSCALLS_INDEX, DATA, TEXT_INDEX, BIT_INDEX, CALLS
<1> QED BY <1>1, <1>5, <1>6 DEF c, d

(* What every image is made of. *)
LEMMA SegmentsAre ==
  ASSUME PoolsSound, IInv, NEW code \in CodeSizes, NEW list \in SyscallLists
  PROVE  LET pools == Pools(code, list)
             sizes == Sizes(pools)
             segs == Segments(pools)
         IN /\ DOMAIN segs = 1..8 /\ Len(segs) = 8
            /\ \A k \in 1..8 : /\ segs[k].at = Offsets(sizes)[k] /\ segs[k].size = sizes[k]
                               /\ segs[k].what = Copies(pools)[k]
            /\ ImageSize(pools) = Offsets(sizes)[9]
<1> DEFINE pools == Pools(code, list)
           sizes == Sizes(pools)
           segs == Segments(pools)
<1>1. sizes \in [1..8 -> Nat]  BY PoolsAre
<1> HIDE DEF sizes, pools
<1>2. segs = [k \in 1..8 |-> [at |-> Offsets(sizes)[k], size |-> sizes[k], what |-> Copies(pools)[k]]]
  BY <1>1 DEF Segments, sizes
<1>3. Len(segs) = 8
  <2> DEFINE R == {segs[k] : k \in 1..8}
  <2>1. segs \in [1..8 -> R]  BY <1>2
  <2> HIDE DEF segs
  <2> QED BY <2>1
<1>4. ImageSize(pools) = Offsets(sizes)[9]  BY DEF ImageSize, CALLS, sizes
<1> QED BY <1>2, <1>3, <1>4 DEF sizes, pools

LEMMA PoolsUnchanged ==
  ASSUME UNCHANGED <<texts, numbers, names>>, NEW code, NEW list
  PROVE  Pools(code, list)' = Pools(code, list)
BY DEF Pools, Prefix, texts, numbers, names, table

(* An image of the pools, after a step that leaves them alone. *)
LEMMA ImageKept ==
  ASSUME UNCHANGED <<texts, numbers, names>>,
         image' # NoImage =>
           /\ DOMAIN image' = DOMAIN NoImage
           /\ image'.order \in Orders \cup {Native}
           /\ image'.code \in CodeSizes /\ image'.names \in SyscallLists
           /\ image'.iPower = iPower
           /\ LET pools == Pools(image'.code, image'.names)
              IN image'.segs = Segments(pools) /\ image'.size = ImageSize(pools)
  PROVE  MadeOfPools'
<1>1. iPower' = iPower  BY DEF names, table
<1>2. \A code, list : Pools(code, list)' = Pools(code, list)  BY PoolsUnchanged
<1> QED BY <1>1, <1>2 DEF MadeOfPools

LEMMA DumpLaysOut ==
  ASSUME ImageInv, DumpStep
  PROVE  ImageInv'
<1>1. PICK o \in Orders, n \in CodeSizes, l \in SyscallLists : Dump(o, n, l)
  BY DEF DumpStep
<1>2. ~Loaded /\ ~checked /\ file = None
  BY <1>1 DEF ImageInv, ReadOfImage, Dump
<1>3. ReadOfImage'
  BY <1>1, <1>2 DEF ReadOfImage, Dump, disk, Loaded
<1>4. MadeOfPools'
  <2> DEFINE segs == Segments(Pools(n, l))
             size == ImageSize(Pools(n, l))
  <2>1. image' = [order |-> o, code |-> n, names |-> l, iPower |-> iPower, segs |-> segs, size |-> size]
        /\ UNCHANGED <<texts, numbers, names>>
    BY <1>1 DEF Dump
  <2> HIDE DEF segs, size
  <2>2. /\ DOMAIN image' = DOMAIN NoImage
        /\ image'.order = o /\ image'.code = n /\ image'.names = l
        /\ image'.iPower = iPower /\ image'.segs = segs /\ image'.size = size
    BY <2>1 DEF NoImage
  <2> QED BY <2>1, <2>2, ImageKept DEF segs, size
<1> QED BY <1>3, <1>4 DEF ImageInv

LEMMA RedumpLaysOut ==
  ASSUME PoolsSound, IInv, ImageInv, Redump
  PROVE  ImageInv'
<1> DEFINE pools == Pools(image.code, image.names)
           segs == Segments(pools)
           size == ImageSize(pools)
<1>1. /\ image # NoImage /\ core = [k \in DOMAIN image.segs |-> core[k]]
      /\ \A k \in DOMAIN image.segs : core[k] = image.segs[k].what
  BY DEF ImageInv, ReadOfImage, Redump, Loaded
<1>2. /\ image.order \in Orders \cup {Native}
      /\ image.code \in CodeSizes /\ image.names \in SyscallLists
      /\ image.iPower = iPower /\ image.segs = segs /\ image.size = size
      /\ DOMAIN image = DOMAIN NoImage
  BY <1>1 DEF ImageInv, MadeOfPools
<1>3. pools = [k \in 1..8 |-> pools[k]]  BY DEF Pools
<1>4. core = Copies(pools)
  <2>1. DOMAIN segs = 1..8 /\ \A k \in 1..8 : segs[k].what = Copies(pools)[k]
    BY <1>2, SegmentsAre
  <2>2. Copies(pools) = [k \in 1..8 |-> Copies(pools)[k]]  BY <1>3, CopiesAre
  <2> HIDE DEF segs, pools
  <2> QED BY <1>1, <1>2, <2>1, <2>2
<1>5. Segments(core) = segs /\ ImageSize(core) = size
  <2>1. Sizes(core) = Sizes(pools) /\ Copies(core) = Copies(pools)  BY <1>3, <1>4, CopiedTwice
  <2> HIDE DEF pools
  <2> QED BY <2>1 DEF Segments, ImageSize
<1> HIDE DEF segs, size
<1>6. image' = [image EXCEPT !.order = Native, !.segs = segs, !.size = size]
      /\ UNCHANGED <<texts, numbers, names, file, core, checked>>
  BY <1>5 DEF Redump, disk
<1>7. /\ image'.order = Native /\ image'.code = image.code /\ image'.names = image.names
      /\ image'.iPower = iPower /\ image'.segs = segs /\ image'.size = size
      /\ DOMAIN image' = DOMAIN NoImage
  BY <1>2, <1>6 DEF NoImage
<1>8. MadeOfPools'  BY <1>2, <1>6, <1>7, ImageKept DEF segs, size
<1>9. image' # NoImage /\ image'.segs = image.segs
  <2>1. DOMAIN image.segs # {}
    <3>1. image.segs = segs /\ DOMAIN segs = 1..8  BY <1>2, SegmentsAre DEF segs
    <3> QED BY <3>1
  <2>2. DOMAIN NoImage.segs = {}  BY DEF NoImage
  <2>3. image'.segs = image.segs  BY <1>2, <1>7
  <2> QED BY <2>1, <2>2, <2>3
<1>10. ReadOfImage'
  BY <1>1, <1>6, <1>7, <1>9 DEF ReadOfImage, ImageInv, Loaded
<1> QED BY <1>8, <1>10 DEF ImageInv

(* Whatever of the image is in the file, all of it is if the checksum holds. *)
LEMMA WholeFile ==
  ASSUME PoolsSound, IInv, MadeOfPools, image # NoImage, ChecksumHolds, image.order = Native
  PROVE  \A k \in DOMAIN image.segs : Readable(k)
<1> DEFINE pools == Pools(image.code, image.names)
           sizes == Sizes(pools)
           segs == Segments(pools)
           o == Offsets(sizes)
<1>1. /\ image.code \in CodeSizes /\ image.names \in SyscallLists
      /\ image.segs = segs /\ image.size = ImageSize(pools)
  BY DEF MadeOfPools
<1>2. /\ DOMAIN segs = 1..8
      /\ \A k \in 1..8 : segs[k].at = o[k] /\ segs[k].size = sizes[k]
      /\ image.size = o[9]
  BY <1>1, SegmentsAre
<1>3. sizes \in [1..8 -> Nat] /\ Len(sizes) = 8  BY <1>1, PoolsAre
<1>4. /\ \A k \in 1..9 : o[k] \in Nat
      /\ \A k \in 1..8 : o[k] + sizes[k] <= o[k + 1] /\ o[k + 1] <= o[9]
  <2> HIDE DEF sizes
  <2> QED BY <1>3, OffsetsApart
<1> HIDE DEF o, sizes, segs
<1>5. ASSUME NEW k \in 1..8
      PROVE  o[k] + sizes[k] <= o[9]
  <2>1. k \in 1..9 /\ k + 1 \in 1..9 /\ 9 \in 1..9 /\ sizes[k] \in Nat  BY <1>3
  <2>2. o[k] \in Nat /\ o[k + 1] \in Nat /\ o[9] \in Nat  BY <1>4, <2>1
  <2> QED BY <1>4, <2>1, <2>2
<1> QED BY <1>1, <1>2, <1>5 DEF Readable, ChecksumHolds

LEMMA LoadReads ==
  ASSUME PoolsSound, IInv, ImageInv, Load
  PROVE  ImageInv'
<1>1. /\ image # NoImage /\ image' = image /\ file' = file
      /\ UNCHANGED <<texts, numbers, names>>
  BY DEF ImageInv, ReadOfImage, Load
<1>2. MadeOfPools'  BY <1>1, ImageKept DEF ImageInv, MadeOfPools
<1>3. core' = <<>> \/ (LoadedChecked /\ core' = Read)  BY DEF Load
<1>4. ASSUME LoadedChecked, core' = Read
      PROVE  /\ core' = [k \in DOMAIN image.segs |-> core'[k]]
             /\ \A k \in DOMAIN image.segs :
                  core'[k] = image.segs[k].what \/ (core'[k] = Junk /\ ~Compared)
  <2>1. core' = [k \in DOMAIN image.segs |-> core'[k]]
        /\ \A k \in DOMAIN image.segs : core'[k] = IF Readable(k) THEN image.segs[k].what ELSE Junk
    BY <1>4 DEF Read
  <2>2. Compared => \A k \in DOMAIN image.segs : Readable(k)
    BY <1>1, <1>4, WholeFile DEF ImageInv, LoadedChecked, Compared
  <2> QED BY <2>1, <2>2
<1>5. checked' => core' # <<>> /\ Compared  BY DEF Load
<1>6. ReadOfImage'
  BY <1>1, <1>3, <1>4, <1>5 DEF ReadOfImage, Loaded, Compared
<1> QED BY <1>2, <1>6 DEF ImageInv

LEMMA LayoutStep == PoolsSound /\ IInv /\ ImageInv /\ [ImageNext]_ImageVars => ImageInv'
<1> SUFFICES ASSUME PoolsSound, IInv, ImageInv, [ImageNext]_ImageVars
             PROVE  ImageInv'
  OBVIOUS
<1>1. CASE NameStep \/ TextStep \/ NumberStep
  <2>1. image' = image /\ image = NoImage /\ file' = file /\ core' = core /\ checked' = checked
    BY <1>1 DEF NameStep, TextStep, NumberStep, Compiling, disk
  <2> QED BY <2>1 DEF ImageInv, MadeOfPools, ReadOfImage, Loaded
<1>2. CASE DumpStep  BY <1>2, DumpLaysOut
<1>3. CASE Redump    BY <1>3, RedumpLaysOut
<1>4. CASE GetCore
  <2>1. image # NoImage /\ image' = image /\ file' = file /\ UNCHANGED <<texts, numbers, names>>
        /\ core' = [k \in DOMAIN image.segs |-> image.segs[k].what]
    BY <1>4 DEF GetCore
  <2>2. MadeOfPools'  BY <2>1, ImageKept DEF ImageInv, MadeOfPools
  <2>3. ReadOfImage'  BY <1>4, <2>1 DEF GetCore, ReadOfImage
  <2> QED BY <2>2, <2>3 DEF ImageInv
<1>5. CASE Open \/ Write \/ Damage
  <2>1. image # NoImage /\ image' = image /\ core' = core /\ checked' = checked /\ UNCHANGED <<texts, numbers, names>>
    BY <1>5 DEF Open, Write, Damage, ImageInv, ReadOfImage
  <2>2. MadeOfPools'  BY <2>1, ImageKept DEF ImageInv, MadeOfPools
  <2>3. ReadOfImage'  BY <2>1 DEF ImageInv, ReadOfImage, Loaded
  <2> QED BY <2>2, <2>3 DEF ImageInv
<1>6. CASE Load      BY <1>6, LoadReads
<1>7. CASE UNCHANGED ImageVars
  <2>1. image' = image /\ file' = file /\ core' = core /\ checked' = checked /\ UNCHANGED <<texts, numbers, names>>
    BY <1>7 DEF ImageVars, disk
  <2>2. MadeOfPools'  BY <2>1, ImageKept DEF ImageInv, MadeOfPools
  <2>3. ReadOfImage'  BY <2>1 DEF ImageInv, ReadOfImage, Loaded
  <2> QED BY <2>2, <2>3 DEF ImageInv
<1> QED BY <1>1, <1>2, <1>3, <1>4, <1>5, <1>6, <1>7 DEF ImageNext

LEMMA ImageInvariant == ImageSpec => [](PoolsSound /\ IInv /\ ImageInv)
<1>1. ImageInit => ImageInv
  BY DEF ImageInit, ImageInv, MadeOfPools, ReadOfImage, Loaded
<1>2. ImageSpec => []PoolsSound /\ []IInv  BY ImagePoolsSound, ImageTableSound, PTL
<1> QED BY <1>1, <1>2, LayoutStep, PTL DEF ImageSpec

(* The offsets computed when the size of the image is asked for are those  *)
(* the fields of the header get: no segment reaches into the header, the   *)
(* next segment or past the end, however many texts, names, numbers, calls *)
(* and instructions the program has, and after it is loaded and dumped.    *)
THEOREM ImageSegmentsApart == ImageSpec => []SegmentsApart
<1>1. PoolsSound /\ IInv /\ ImageInv => SegmentsApart
  <2> SUFFICES ASSUME PoolsSound, IInv, MadeOfPools, image # NoImage
               PROVE  SegmentsApart
    BY DEF ImageInv, SegmentsApart
  <2> DEFINE pools == Pools(image.code, image.names)
             sizes == Sizes(pools)
             segs == Segments(pools)
             o == Offsets(sizes)
  <2>1. /\ image.code \in CodeSizes /\ image.names \in SyscallLists
        /\ image.segs = segs /\ image.size = ImageSize(pools)
    BY DEF MadeOfPools
  <2>2. /\ DOMAIN segs = 1..8 /\ Len(segs) = 8
        /\ \A k \in 1..8 : segs[k].at = o[k] /\ segs[k].size = sizes[k]
        /\ image.size = o[9]
    BY <2>1, SegmentsAre
  <2>3. sizes \in [1..8 -> Nat] /\ Len(sizes) = 8  BY <2>1, PoolsAre
  <2>4. /\ \A k \in 1..9 : o[k] >= HeaderSize /\ o[k] % 8 = 0
        /\ \A k \in 1..8 : o[k] + sizes[k] <= o[k + 1]
    <3> HIDE DEF sizes
    <3> QED BY <2>3, OffsetsApart
  <2> HIDE DEF o, sizes, segs, pools
  <2>5. \A k \in 1..8 : (IF k = 8 THEN image.size ELSE segs[k + 1].at) = o[k + 1]
    <3>1. \A k \in 1..8 : k # 8 => k + 1 \in 1..8  OBVIOUS
    <3>2. 8 + 1 = 9  OBVIOUS
    <3> QED BY <2>2, <3>1, <3>2
  <2>6. \A k \in 1..8 : k \in 1..9  OBVIOUS
  <2> QED BY <2>1, <2>2, <2>4, <2>5, <2>6 DEF SegmentsApart
<1> QED BY <1>1, ImageInvariant, PTL

(* What is in the segments of a program that was compared with its checksum. *)
LEMMA CoreIs ==
  ASSUME PoolsSound, IInv, ImageInv, checked
  PROVE  LET pools == Pools(image.code, image.names)
         IN /\ image.code \in CodeSizes /\ image.names \in SyscallLists /\ image.iPower = iPower
            /\ core = Copies(pools)
<1> DEFINE pools == Pools(image.code, image.names)
           segs == Segments(pools)
<1>1. /\ image # NoImage /\ core = [k \in DOMAIN image.segs |-> core[k]]
      /\ \A k \in DOMAIN image.segs : core[k] = image.segs[k].what
  BY DEF ImageInv, ReadOfImage
<1>2. /\ image.code \in CodeSizes /\ image.names \in SyscallLists
      /\ image.iPower = iPower /\ image.segs = segs
  BY <1>1 DEF ImageInv, MadeOfPools
<1>3. pools = [k \in 1..8 |-> pools[k]]  BY DEF Pools
<1>4. DOMAIN segs = 1..8 /\ \A k \in 1..8 : segs[k].what = Copies(pools)[k]
  BY <1>2, SegmentsAre
<1>5. Copies(pools) = [k \in 1..8 |-> Copies(pools)[k]]  BY <1>3, CopiesAre
<1> HIDE DEF segs, pools
<1>6. core = Copies(pools)  BY <1>1, <1>2, <1>4, <1>5
<1> QED BY <1>2, <1>6 DEF pools

(* The names of syscalls are found by their numbers, and are C strings. *)
LEMMA SyscallsWhole ==
  ASSUME PoolsSound, IInv, NEW code \in CodeSizes, NEW list \in SyscallLists, NEW id \in 1..Len(list)
  PROVE  LET c == Copies(Pools(code, list))
         IN /\ TextIn(c[SYSCALLS], c[SYSCALLS_INDEX], id - 1) = list[id]
            /\ CString(c[SYSCALLS], c[SYSCALLS_INDEX], id - 1)
<1> DEFINE p == Pools(code, list)
           c == Copies(p)
           NB(n) == NamesBefore(list, n)
           data == NB(Len(list))
           m == Len(NB(id - 1))
           x == list[id]
<1>1. p = [k \in 1..8 |-> p[k]]  BY DEF Pools
<1>2. c[2] = Prefix(p[2], TextSize(p[3])) /\ c[3] = p[3]  BY <1>1, CopiesAre
<1>3. /\ p[2] = [i \in 0..Len(data) - 1 |-> data[i + 1]]
      /\ p[3] = [i \in 0..Len(list) - 1 |-> [offset |-> Len(NB(i)), length |-> Len(list[i + 1])]]
  BY DEF Pools
<1>4. TextSize(p[3]) = Len(data)  BY PoolsAre DEF SYSCALLS_INDEX
<1>5. Len(list) \in Nat /\ id - 1 \in 0..Len(list) - 1 /\ (id - 1) + 1 = id  BY NamesAreSeqs
<1>6. Len(x) \in Nat /\ x = [i \in 1..Len(x) |-> x[i]]
  BY <1>5, ProgramAssumption, TextIsSeq
<1>7. m \in Nat /\ Len(NB(id)) = m + Len(x) + 1  BY <1>5, NameAdded
<1>8. /\ Len(NB(id)) <= Len(data)
      /\ \A i \in 1..Len(x) : data[m + i] = x[i]
      /\ data[Len(NB(id))] = Nul
  BY NamesPlaced DEF NamePlaced
<1>9. Len(data) \in Nat
  <2>1. Len(list) # 0 /\ Len(list) - 1 \in 0..Len(list) - 1 /\ (Len(list) - 1) + 1 = Len(list)  BY <1>5
  <2>2. Len(NB((Len(list) - 1) + 1)) \in Nat  BY <2>1, NameAdded
  <2> QED BY <2>1, <2>2
<1>10. c[3][id - 1].offset = m /\ c[3][id - 1].length = Len(x)  BY <1>2, <1>3, <1>5
<1> HIDE DEF p, c, data, m, x, NB
<1>11. c[2] = [i \in 0..Len(data) - 1 |-> data[i + 1]]
  <2>1. c[2] = [i \in 0..Len(data) - 1 |-> p[2][i]]  BY <1>2, <1>4 DEF Prefix
  <2> QED BY <1>3, <2>1
<1>12. TextIn(c[2], c[3], id - 1) = x
  <2>1. TextIn(c[2], c[3], id - 1) = [i \in 1..Len(x) |-> c[2][m + i - 1]]  BY <1>10 DEF TextIn
  <2>2. ASSUME NEW i \in 1..Len(x)
        PROVE  c[2][m + i - 1] = x[i]
    <3>1. m + i - 1 \in 0..Len(data) - 1 /\ (m + i - 1) + 1 = m + i  BY <1>6, <1>7, <1>8, <1>9
    <3> QED BY <1>8, <1>11, <3>1
  <2> QED BY <1>6, <2>1, <2>2
<1>13. CString(c[2], c[3], id - 1)
  <2>1. m + Len(x) \in 0..Len(data) - 1 /\ (m + Len(x)) + 1 = Len(NB(id))  BY <1>6, <1>7, <1>8, <1>9
  <2>2. c[2][m + Len(x)] = Nul /\ m + Len(x) \in DOMAIN c[2]  BY <1>8, <1>11, <2>1
  <2> QED BY <1>10, <2>2 DEF CString
<1> QED BY <1>12, <1>13 DEF c, p, x, SYSCALLS, SYSCALLS_INDEX

(* So are the texts and the numbers. *)
LEMMA TextsWhole ==
  ASSUME PoolsSound, IInv, NEW code \in CodeSizes, NEW list \in SyscallLists, NEW id \in 0..iUsedOffsetsSize - 1
  PROVE  LET c == Copies(Pools(code, list)) IN TextIn(c[TEXT], c[TEXT_INDEX], id) = T!Text(id)
<1> DEFINE p == Pools(code, list)
           c == Copies(p)
           r == aOffsets[id]
<1>1. p = [k \in 1..8 |-> p[k]]  BY DEF Pools
<1>2. c[5] = Prefix(p[5], TextSize(p[6])) /\ c[6] = p[6]  BY <1>1, CopiesAre
<1>3. p[5] = sText /\ p[6] = Prefix(aOffsets, iUsedOffsetsSize)  BY DEF Pools
<1>4. TextSize(p[6]) = iUsedTextSize  BY PoolsAre DEF TEXT_INDEX
<1>5. /\ r \in [offset : Nat, length : Nat] /\ r.offset + r.length < iUsedTextSize
      /\ iUsedTextSize \in Nat
  BY DEF PoolsSound, T!IInv, T!Consecutive, T!TypeOK
<1>6. c[6][id] = r  BY <1>2, <1>3 DEF Prefix
<1> HIDE DEF p, c, r
<1>7. \A j \in 0..iUsedTextSize - 1 : c[5][j] = sText[j]  BY <1>2, <1>3, <1>4 DEF Prefix
<1>8. \A i \in 1..r.length : r.offset + i - 1 \in 0..iUsedTextSize - 1  BY <1>5
<1>9. TextIn(c[5], c[6], id) = [i \in 1..r.length |-> c[5][r.offset + i - 1]]  BY <1>6 DEF TextIn
<1>10. T!Text(id) = [i \in 1..r.length |-> sText[r.offset + i - 1]]  BY DEF T!Text, r
<1>11. TextIn(c[5], c[6], id) = T!Text(id)  BY <1>7, <1>8, <1>9, <1>10
<1> QED BY <1>11 DEF c, p, TEXT, TEXT_INDEX

(* Whatever is compared with its checksum and accepted is all of the       *)
(* program: the code, the names of its syscalls as C strings, its texts    *)
(* and numbers by their numbers, and its blocks by their hashes, whatever  *)
(* the file went through before.  (A file without a version, or of the     *)
(* other byte order, is not compared.)                                     *)
THEOREM ImageLoadsWhole == ImageSpec => []LoadsWhole
<1>1. PoolsSound /\ IInv /\ ImageInv => LoadsWhole
  <2> SUFFICES ASSUME PoolsSound, IInv, ImageInv, checked
               PROVE  LoadsWhole
    BY DEF LoadsWhole
  <2> DEFINE p == Pools(image.code, image.names)
  <2>1. /\ image.code \in CodeSizes /\ image.names \in SyscallLists /\ image.iPower = iPower
        /\ core = Copies(p)
    BY CoreIs
  <2>2. p = [k \in 1..8 |-> p[k]]  BY DEF Pools
  <2>3. Copies(p)[1] = p[1] /\ Copies(p)[4] = p[4] /\ Copies(p)[8] = p[8]  BY <2>2, CopiesAre
  <2>4. core[CODE] = [i \in 0..image.code - 1 |-> "instruction"]
    BY <2>1, <2>3 DEF CODE, Pools
  <2>5. \A id \in 1..Len(image.names) :
          /\ TextIn(core[SYSCALLS], core[SYSCALLS_INDEX], id - 1) = image.names[id]
          /\ CString(core[SYSCALLS], core[SYSCALLS_INDEX], id - 1)
    BY <2>1, SyscallsWhole
  <2>6. \A id \in 0..iUsedOffsetsSize - 1 : TextIn(core[TEXT], core[TEXT_INDEX], id) = T!Text(id)
    BY <2>1, TextsWhole
  <2>7. \A id \in 0..iUsedNumbers - 1 : core[DATA][id] = aNumbers[id]
    <3>1. core[4] = Prefix(aNumbers, iUsedNumbers)  BY <2>1, <2>3 DEF Pools
    <3> QED BY <3>1 DEF DATA, Prefix
  <2>8. core[CALLS] = aElements  BY <2>1, <2>3 DEF CALLS, Pools
  <2>9. core[CALLS] # Junk  BY <2>8, JunkAssumption DEF IInv, TypeOK
  <2>10. \A k \in Keys :
           LET e == core[CALLS][Slot(k, image.iPower)]
           IN Found(k) = IF e # None /\ Hash[e.key] = Hash[k] THEN e.value ELSE None
    BY <2>1, <2>8 DEF Found
  <2> QED BY <2>4, <2>5, <2>6, <2>7, <2>9, <2>10 DEF LoadsWhole
<1> QED BY <1>1, ImageInvariant, PTL
=============================================================================
