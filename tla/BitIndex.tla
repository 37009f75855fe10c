------------------------------ MODULE BitIndex ------------------------------
(***************************************************************************)
(* BitIndex (src/src/CTPP2BitIndex.cpp): a growing array of bits, kept in  *)
(* bytes; here a value with the operations on it.  A byte is the set of    *)
(* the positions of its one bits, data the bytes that are allocated.       *)
(***************************************************************************)
EXTENDS Integers

CONSTANT ByteBits   \* bits of a byte: 8 in the code

ByteBitsSound == ByteBits \in Nat \ {0}

BytePos(offset) == offset \div ByteBits
BitPos(offset) == offset % ByteBits

IndexType(b) ==
  /\ DOMAIN b = {"iMaxSize", "size", "data"}
  /\ b.iMaxSize \in Nat
  /\ b.data \in [0..b.iMaxSize - 1 -> SUBSET (0..ByteBits - 1)]
  /\ b.size \in 0..b.iMaxSize

NewIndexExactBytes(n) ==
  [iMaxSize |-> n \div ByteBits, size |-> 0, data |-> [i \in 0..(n \div ByteBits) - 1 |-> {}]]
NewIndex(n) ==
  LET bytes == n \div ByteBits + 1
  IN [iMaxSize |-> bytes, size |-> 0, data |-> [i \in 0..bytes - 1 |-> {}]]

(* All iMaxSize bytes are copied; the new ones are zero. *)
ResizedUncopied(b, byte) ==
  [b EXCEPT !.iMaxSize = byte * 2, !.data = [i \in 0..byte * 2 - 1 |-> {}]]
ResizedIndex(b, byte) ==
  [b EXCEPT !.iMaxSize = byte * 2,
            !.data = [i \in 0..byte * 2 - 1 |-> IF i < b.iMaxSize THEN b.data[i] ELSE {}]]

UsedBytesLate(b, byte) == IF b.size < byte THEN byte + 1 ELSE b.size
UsedBytes(b, byte) == IF b.size <= byte THEN byte + 1 ELSE b.size

SetBit(b, offset, value) ==
  LET byte == BytePos(offset)
      room == IF byte >= b.iMaxSize THEN ResizedIndex(b, byte) ELSE b
      flip(old) == IF value # 0 THEN old \cup {BitPos(offset)} ELSE old \ {BitPos(offset)}
  IN [room EXCEPT !.size = UsedBytes(b, byte),
                  !.data = [i \in DOMAIN @ |-> IF i = byte THEN flip(@[i]) ELSE @[i]]]

(* Of a byte there is not, GetBit says 0 without looking. *)
GetBit(b, offset) ==
  IF BytePos(offset) < b.iMaxSize /\ BitPos(offset) \in b.data[BytePos(offset)] THEN 1 ELSE 0

(* ReducedBitIndex, which reads the dumped image, knows the used bytes. *)
GetBitReduced(b, offset) ==
  IF BytePos(offset) < b.size /\ BitPos(offset) \in b.data[BytePos(offset)] THEN 1 ELSE 0

(* The byte of a bit that was set is allocated. *)
IsAllocated(b, offset) == BytePos(offset) \in DOMAIN b.data
=============================================================================
