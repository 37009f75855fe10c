----------------------------- MODULE StaticData -----------------------------
(***************************************************************************)
(* StaticData (src/src/CTPP2StaticData.cpp) and its BitIndex: the pool of  *)
(* numeric constants.  A record is a union of an integer and a float; a    *)
(* bit of the index tells which of the two was stored.                     *)
(***************************************************************************)
EXTENDS BitIndex, Sequences

CONSTANTS
  Ints, Floats,   \* the numbers of each kind
  Junk,           \* what malloc leaves in a block
  None,           \* no such record
  DataSizes,      \* the constructor's iIMaxDataSize
  DefaultBits,    \* bits of the index of a pool without initial size: 32
  MaxRecords      \* bound: numbers stored

(* What a module that uses the pool assumes of its constants. *)
SizesSound == DataSizes \subseteq Nat /\ DefaultBits \in Nat

VARIABLES
  iMaxDataSize, iUsedDataSize, aData, oBitIndex,
  iDataId,   \* what the last Store returned
  fetched    \* the last record read from the pool, with its kind

pool == <<iMaxDataSize, iUsedDataSize, aData, oBitIndex>>
vars == <<pool, iDataId, fetched>>

Init ==
  /\ iMaxDataSize \in DataSizes
  /\ iUsedDataSize = 0
  /\ aData = [i \in 0..iMaxDataSize - 1 |-> Junk]
  /\ oBitIndex = NewIndex(IF iMaxDataSize # 0 THEN iMaxDataSize ELSE DefaultBits)
  /\ iDataId = -1
  /\ fetched = None

IsFull == iUsedDataSize = iMaxDataSize

DoubledSize == iMaxDataSize * 2
GrownSize == iMaxDataSize * 2 + 1

Store(bit, v) ==
  /\ iUsedDataSize < MaxRecords
  /\ LET size == IF IsFull THEN GrownSize ELSE iMaxDataSize
     IN /\ iMaxDataSize' = size
        /\ aData' = [i \in 0..size - 1 |->
                       IF i = iUsedDataSize THEN v
                       ELSE IF i < iUsedDataSize \/ ~IsFull THEN aData[i] ELSE Junk]
  /\ oBitIndex' = SetBit(oBitIndex, iUsedDataSize, bit)
  /\ iUsedDataSize' = iUsedDataSize + 1
  /\ iDataId' = iUsedDataSize
  /\ UNCHANGED fetched

StoreInt(v)   == v \in Ints   /\ Store(0, v)
StoreFloat(v) == v \in Floats /\ Store(1, v)

(* A record read with the kind its bit in the dumped index gives.  (The    *)
(* machine takes the kind from the instruction that names the record,      *)
(* src/src/CTPP2VM.cpp:607 and :616, and does not look at the index.)      *)
Number(id) ==
  IF GetBitReduced(oBitIndex, id) = 0 THEN <<"int", aData[id]>> ELSE <<"float", aData[id]>>

(* GetInt and GetFloat; of a record there is not, both return zero. *)
Fetch(id) ==
  /\ fetched' = IF id < iUsedDataSize THEN Number(id) ELSE None
  /\ UNCHANGED <<pool, iDataId>>

Next ==
  \/ \E v \in Ints : StoreInt(v)
  \/ \E v \in Floats : StoreFloat(v)
  \/ \E id \in 0..iUsedDataSize : Fetch(id)

Spec == Init /\ [][Next]_vars

-----------------------------------------------------------------------------
(* Type correctness; of the index too, whose used size is never more than  *)
(* the bytes allocated to it.                                              *)
TypeOK ==
  /\ iMaxDataSize \in Nat /\ iUsedDataSize \in Nat
  /\ aData \in [0..iMaxDataSize - 1 -> Ints \cup Floats \cup {Junk}]
  /\ IndexType(oBitIndex)
  /\ iDataId \in Nat \cup {-1}
  /\ fetched \in ({"int"} \X Ints) \cup ({"float"} \X Floats) \cup {None}

(* Every record lies in the block and has its bit in the index's block     *)
(* (lines 125 to 136): the two grow by different rules, the index to twice *)
(* the byte it misses.                                                     *)
InsideBlocks ==
  \A id \in 0..iUsedDataSize - 1 : id \in DOMAIN aData /\ IsAllocated(oBitIndex, id)

(* The index the compiler grew, and the used part of it, which is all that *)
(* is dumped with a program, say the same of every record.                 *)
ReducedAgrees ==
  \A id \in 0..iUsedDataSize - 1 : GetBit(oBitIndex, id) = GetBitReduced(oBitIndex, id)

(* The index has used the byte of every record, and its bit is the kind of *)
(* number the record holds.                                                *)
KindsKept ==
  /\ iUsedDataSize <= iMaxDataSize
  /\ oBitIndex.iMaxSize > 0
  /\ \A id \in 0..iUsedDataSize - 1 :
       /\ BytePos(id) < oBitIndex.size
       /\ aData[id] \in (IF GetBit(oBitIndex, id) = 0 THEN Ints ELSE Floats)

(* The inductive invariant. *)
IInv == TypeOK /\ InsideBlocks /\ ReducedAgrees /\ KindsKept
=============================================================================
