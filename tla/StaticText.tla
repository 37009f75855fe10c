----------------------------- MODULE StaticText -----------------------------
(***************************************************************************)
(* StaticText (src/src/CTPP2StaticText.cpp): the pool of string constants  *)
(* and names.  Texts lie one after the other, each followed by a NUL, in a *)
(* block of bytes that is replaced by a larger one when it is full; their  *)
(* offsets and lengths lie in a second such block.                         *)
(***************************************************************************)
EXTENDS Integers, Sequences

CONSTANTS
  Texts,        \* the texts stored: sequences of characters
  Nul,          \* the character '\0'
  Junk,         \* what malloc leaves in a block
  None,         \* NULL
  DataSizes,    \* the constructor's iIMaxDataSize
  IndexSizes,   \* the constructor's iIMaxDataOffsetsSize
  IndexBytes,   \* sizeof(TextDataIndex)
  MaxRecords    \* bound: texts stored

(* What a module that uses the pool assumes of its constants. *)
SizesSound ==
  /\ DataSizes \subseteq Nat /\ IndexSizes \subseteq Nat
  /\ IndexBytes \in Nat /\ IndexBytes > 1
IsText(x) == x \in Seq({x[i] : i \in DOMAIN x})
TextsSound == \A x \in Texts : IsText(x)

VARIABLES
  iMaxDataSize, iUsedDataSize, sData,
  iMaxDataOffsetsSize, iUsedDataOffsetsSize, aDataOffsets,
  iDataId,   \* what the last StoreData returned
  sResult    \* the text the last GetData returned

text  == <<iMaxDataSize, iUsedDataSize, sData>>
index == <<iMaxDataOffsetsSize, iUsedDataOffsetsSize, aDataOffsets>>
vars  == <<text, index, iDataId, sResult>>

(* malloc: a block is a function on the places it has. *)
Block(n) == [i \in 0..n - 1 |-> Junk]

(* A larger block with the first n places of an old one. *)
Copied(old, n, size) == [i \in 0..size - 1 |-> IF i < n THEN old[i] ELSE Junk]

(* The index is allocated in bytes here (line 93), in entries elsewhere.   *)
Init ==
  /\ iMaxDataSize \in DataSizes
  /\ iUsedDataSize = 0
  /\ sData = Block(iMaxDataSize)
  /\ iMaxDataOffsetsSize \in IndexSizes
  /\ iUsedDataOffsetsSize = 0
  /\ aDataOffsets = Block(iMaxDataOffsetsSize \div IndexBytes)
  /\ iDataId = -1
  /\ sResult = None

(* Room is needed for the NUL as well: the test is >=, not >. *)
IsFullLate(offset) == offset > iMaxDataSize
IsFull(offset) == offset >= iMaxDataSize

NewDataSize(offset) == IF IsFull(offset) THEN offset * 2 + 1 ELSE iMaxDataSize

StoredUncopied(x, offset) ==
  LET room == IF IsFull(offset) THEN Block(NewDataSize(offset)) ELSE sData
  IN [i \in DOMAIN room |->
        IF i \in iUsedDataSize..offset - 1 THEN x[i - iUsedDataSize + 1]
        ELSE IF i = offset THEN Nul ELSE room[i]]
Stored(x, offset) ==
  LET room == IF IsFull(offset)
              THEN Copied(sData, iUsedDataSize, NewDataSize(offset)) ELSE sData
  IN [i \in DOMAIN room |->
        IF i \in iUsedDataSize..offset - 1 THEN x[i - iUsedDataSize + 1]
        ELSE IF i = offset THEN Nul ELSE room[i]]

IndexFull == iUsedDataOffsetsSize = iMaxDataOffsetsSize

NewIndexSize == IF IndexFull THEN iMaxDataOffsetsSize * 2 + 1 ELSE iMaxDataOffsetsSize

(* A record written beyond the block is lost. *)
Indexed(x) ==
  LET room == IF IndexFull
              THEN Copied(aDataOffsets, iUsedDataOffsetsSize, NewIndexSize) ELSE aDataOffsets
  IN [i \in DOMAIN room |->
        IF i = iUsedDataOffsetsSize THEN [offset |-> iUsedDataSize, length |-> Len(x)] ELSE room[i]]

UsedWithoutNul(offset) == offset
UsedAfter(offset) == offset + 1

StoreData(x) ==
  /\ iUsedDataOffsetsSize < MaxRecords
  /\ LET offset == iUsedDataSize + Len(x)
     IN /\ sData' = Stored(x, offset)
        /\ iMaxDataSize' = NewDataSize(offset)
        /\ iUsedDataSize' = UsedAfter(offset)
  /\ aDataOffsets' = Indexed(x)
  /\ iMaxDataOffsetsSize' = NewIndexSize
  /\ iUsedDataOffsetsSize' = iUsedDataOffsetsSize + 1
  /\ iDataId' = iUsedDataOffsetsSize
  /\ UNCHANGED sResult

(* The length characters from offset on. *)
TextWithNul(id) ==
  LET r == aDataOffsets[id] IN [i \in 1..r.length + 1 |-> sData[r.offset + i - 1]]
Text(id) ==
  LET r == aDataOffsets[id] IN [i \in 1..r.length |-> sData[r.offset + i - 1]]

GetData(id) ==
  /\ sResult' = IF id >= iUsedDataOffsetsSize THEN None ELSE Text(id)
  /\ UNCHANGED <<text, index, iDataId>>

Next ==
  \/ \E x \in Texts : StoreData(x)
  \/ \E id \in 0..iUsedDataOffsetsSize : GetData(id)

Spec == Init /\ [][Next]_vars

-----------------------------------------------------------------------------
(* Type correctness; a text read back is a text, and not what malloc left. *)
TypeOK ==
  /\ iMaxDataSize \in Nat /\ iUsedDataSize \in Nat
  /\ iMaxDataOffsetsSize \in Nat /\ iUsedDataOffsetsSize \in Nat
  /\ iDataId \in Nat \cup {-1}
  /\ sResult \in Texts \cup {None}

(* StoreData writes inside its two blocks (lines 138 and 154): what it     *)
(* counts as used was allocated.                                           *)
InsideBlocks ==
  /\ 0..iUsedDataSize - 1 \subseteq DOMAIN sData
  /\ 0..iUsedDataOffsetsSize - 1 \subseteq DOMAIN aDataOffsets

(* A text is followed by a NUL in the block: the callers that take what    *)
(* GetData returns for a C string (the syscall factory, strcmp) read no    *)
(* further.                                                                *)
NulTerminated ==
  \A id \in 0..iUsedDataOffsetsSize - 1 :
     LET end == aDataOffsets[id].offset + aDataOffsets[id].length
     IN end \in DOMAIN sData /\ sData[end] = Nul

(* Both blocks have the places their sizes count.                          *)
Allocated ==
  /\ DOMAIN sData = 0..iMaxDataSize - 1 /\ iUsedDataSize <= iMaxDataSize
  /\ DOMAIN aDataOffsets = 0..iMaxDataOffsetsSize - 1 /\ iUsedDataOffsetsSize <= iMaxDataOffsetsSize

(* The texts fill what is used of the block, and the last one ends it.     *)
Consecutive ==
  /\ \A id \in 0..iUsedDataOffsetsSize - 1 :
       LET r == aDataOffsets[id]
       IN /\ r \in [offset : Nat, length : Nat]
          /\ r.offset + r.length < iUsedDataSize
          /\ Text(id) \in Texts
  /\ iUsedDataSize =
       IF iUsedDataOffsetsSize = 0 THEN 0
       ELSE LET r == aDataOffsets[iUsedDataOffsetsSize - 1] IN r.offset + r.length + 1

(* The inductive invariant, of a pool whose index starts out empty.        *)
IInv == TypeOK /\ InsideBlocks /\ NulTerminated /\ Allocated /\ Consecutive
=============================================================================
