------------------------------- MODULE Image --------------------------------
(***************************************************************************)
(* A compiled program, from the pools the compiler fills to the virtual    *)
(* machine: the table of block names (HashTable), the texts (StaticText),  *)
(* the numbers (StaticData); VMDumper lays them out in one block of        *)
(* memory, SimpleCompiler::Save writes the block to a file, VMFileLoader   *)
(* reads it and VMMemoryCore finds the segments again.                     *)
(*                                                                         *)
(* The names of the syscalls are a StaticText too, taken here by what it   *)
(* promises (AppendLog).  Sizes are the bytes of the code; what a segment  *)
(* holds is a value, not its bytes.  The checksum tells every change.      *)
(***************************************************************************)
EXTENDS HashTable, Sequences

CONSTANTS
  Texts, Nul, Junk, TextSizes, MaxTexts,                        \* of StaticText
  Ints, Floats, ByteBits, NumberSizes, DefaultBits, MaxNumbers, \* of StaticData
  SyscallLists,  \* the names of syscalls a program uses, in order
  CodeSizes,     \* how many instructions it has
  Orders         \* byte orders of the machines programs are compiled on

Native == "little"   \* of the machine that loads them

VARIABLES
  iMaxTextSize, iUsedTextSize, sText, iMaxOffsetsSize, iUsedOffsetsSize, aOffsets,
  iTextId, sTextResult,
  iMaxNumbers, iUsedNumbers, aNumbers, oBitIndex, iNumberId, oNumberResult,
  image,   \* VMDumper's block, or NoImage
  file,    \* how much of the image is in the file, and what was damaged
  core,    \* the segments the last load gave; none if it was refused
  checked  \* whether they were compared with the checksum, or never left memory

texts   == <<iMaxTextSize, iUsedTextSize, sText, iMaxOffsetsSize, iUsedOffsetsSize, aOffsets, iTextId, sTextResult>>
numbers == <<iMaxNumbers, iUsedNumbers, aNumbers, oBitIndex, iNumberId, oNumberResult>>
names   == <<table, call, result>>
disk    == <<file, core, checked>>

T == INSTANCE StaticText WITH
       DataSizes <- TextSizes, IndexSizes <- {0}, IndexBytes <- 8, MaxRecords <- MaxTexts,
       iMaxDataSize <- iMaxTextSize, iUsedDataSize <- iUsedTextSize, sData <- sText,
       iMaxDataOffsetsSize <- iMaxOffsetsSize, iUsedDataOffsetsSize <- iUsedOffsetsSize,
       aDataOffsets <- aOffsets, iDataId <- iTextId, sResult <- sTextResult
D == INSTANCE StaticData WITH
       DataSizes <- NumberSizes, MaxRecords <- MaxNumbers,
       iMaxDataSize <- iMaxNumbers, iUsedDataSize <- iUsedNumbers, aData <- aNumbers,
       iDataId <- iNumberId, fetched <- oNumberResult

ASSUME PoolAssumptions == T!SizesSound /\ T!TextsSound /\ D!SizesSound /\ D!ByteBitsSound
ASSUME ProgramAssumption ==
  /\ CodeSizes \subseteq Nat /\ Orders \subseteq {"little", "big"}
  /\ \A list \in SyscallLists : T!IsText(list) /\ \A i \in DOMAIN list : T!IsText(list[i])
(* What cannot be read is told from what can. *)
ASSUME JunkAssumption == \A p \in 1..HashBits : Junk \notin [Bits(p) -> Element \cup {None}]

-----------------------------------------------------------------------------
(* VMDumper: the segments, in the order of the file.                       *)

AlignSegmentDown(n) == n - (n % 8)
AlignSegment(n) == IF n % 8 = 0 THEN n ELSE n + 8 - (n % 8)

Count(block) == Cardinality(DOMAIN block)
Prefix(block, n) == [i \in 0..n - 1 |-> block[i]]

(* Up to the end of the last text and its NUL. *)
TextSizeWithoutNul(offsets) ==
  LET n == Count(offsets) IN IF n = 0 THEN 0 ELSE offsets[n - 1].offset + offsets[n - 1].length
TextSize(offsets) ==
  LET n == Count(offsets) IN IF n = 0 THEN 0 ELSE offsets[n - 1].offset + offsets[n - 1].length + 1

CODE == 1
SYSCALLS == 2
SYSCALLS_INDEX == 3
DATA == 4
TEXT == 5
TEXT_INDEX == 6
BIT_INDEX == 7
CALLS == 8

(* What the segments are made of: the pools a program was compiled into. *)
NamesBefore(list, n) ==
  LET before[i \in Nat] == IF i = 0 THEN <<>> ELSE before[i - 1] \o list[i] \o <<Nul>> IN before[n]
Pools(code, list) ==
  LET nameData == NamesBefore(list, Len(list))
  IN << [i \in 0..code - 1 |-> "instruction"],
        [i \in 0..Len(nameData) - 1 |-> nameData[i + 1]],
        [i \in 0..Len(list) - 1 |-> [offset |-> Len(NamesBefore(list, i)), length |-> Len(list[i + 1])]],
        Prefix(aNumbers, iUsedNumbers),
        sText,
        Prefix(aOffsets, iUsedOffsetsSize),
        oBitIndex,
        aElements >>

Sizes(pools) ==
  << 16 * Count(pools[CODE]),
     TextSize(pools[SYSCALLS_INDEX]), 8 * Count(pools[SYSCALLS_INDEX]),
     8 * Count(pools[DATA]),
     TextSize(pools[TEXT_INDEX]), 8 * Count(pools[TEXT_INDEX]),
     8 + pools[BIT_INDEX].size,
     24 * Count(pools[CALLS]) >>

(* What is copied to the segments: the used part of a pool. *)
Copies(pools) ==
  [pools EXCEPT ![SYSCALLS]  = Prefix(@, TextSize(pools[SYSCALLS_INDEX])),
                ![TEXT]      = Prefix(@, TextSize(pools[TEXT_INDEX])),
                ![BIT_INDEX] = [size |-> @.size, data |-> Prefix(@.data, @.size)]]

HeaderSize == 112
Offsets(sizes) ==
  LET offset[k \in 1..Len(sizes) + 1] ==
        IF k = 1 THEN AlignSegment(HeaderSize) ELSE offset[k - 1] + AlignSegment(sizes[k - 1])
  IN offset

Segments(pools) ==
  LET sizes == Sizes(pools)
      offset == Offsets(sizes)
      copies == Copies(pools)
  IN [k \in DOMAIN sizes |-> [at |-> offset[k], size |-> sizes[k], what |-> copies[k]]]
ImageSize(pools) == Offsets(Sizes(pools))[CALLS + 1]

NoImage == [order |-> Native, code |-> 0, names |-> <<>>, iPower |-> 0, segs |-> <<>>, size |-> 0]

(* The program the compiler has made. *)
Dump(order, code, list) ==
  /\ image = NoImage /\ call = None
  /\ LET pools == Pools(code, list)
     IN image' = [ order |-> order, code |-> code, names |-> list, iPower |-> iPower,
                   segs |-> Segments(pools), size |-> ImageSize(pools) ]
  /\ UNCHANGED <<texts, numbers, names, disk>>

(* A program that was loaded, dumped again. *)
Loaded == core # <<>>
Redump ==
  /\ Loaded /\ Junk \notin {core[k] : k \in DOMAIN core}
  /\ image' = [image EXCEPT !.order = Native, !.segs = Segments(core), !.size = ImageSize(core)]
  /\ UNCHANGED <<texts, numbers, names, disk>>

-----------------------------------------------------------------------------
(* SimpleCompiler::Save opens the file, which empties it, and writes the   *)
(* block; a reader, or the end of the process, may come between.           *)

Version == 2   \* version[0], as VMDumper writes it

Open ==
  /\ image # NoImage
  /\ file' = [size |-> 0, version |-> Version, damaged |-> FALSE]
  /\ UNCHANGED <<texts, numbers, names, image, core, checked>>

Written == {image.segs[k].at : k \in DOMAIN image.segs} \cup {image.size}
Write ==
  /\ file # None
  /\ \E n \in Written : n > file.size /\ file' = [file EXCEPT !.size = n]
  /\ UNCHANGED <<texts, numbers, names, image, core, checked>>

(* A file that does not hold what was written: the byte of the version or  *)
(* anything else is another.                                               *)
Damage ==
  /\ file # None /\ file.size = image.size
  /\ \E version \in {0, Version} :
       file' = [file EXCEPT !.version = version, !.damaged = @ \/ version = file.version]
  /\ UNCHANGED <<texts, numbers, names, image, core, checked>>

(* SimpleCompiler::GetCore: the memory core of the block itself, on the    *)
(* machine that compiled it.                                               *)
GetCore ==
  /\ image # NoImage /\ image.order = Native
  /\ core' = [k \in DOMAIN image.segs |-> image.segs[k].what]
  /\ checked' = TRUE
  /\ UNCHANGED <<texts, numbers, names, image, file>>

(* Of a file of the other byte order, ConvertExecutable swaps the header   *)
(* but the fields of the table of calls, and these segments.               *)
FieldsConverted == 1..8 \ {CALLS}
Converted == {CODE, SYSCALLS, SYSCALLS_INDEX, DATA, TEXT, TEXT_INDEX}

(* Without a version (line 185) a file is taken as it is: no byte order is *)
(* looked at and nothing compared.                                         *)
Versioned == file.version >= 1

(* What is in the wrong order, past the end of the file or damaged is Junk. *)
Readable(k) ==
  /\ image.order # Native => Versioned /\ k \in FieldsConverted \cap Converted
  /\ image.segs[k].at + image.segs[k].size <= file.size
  /\ ~file.damaged
Read == [k \in DOMAIN image.segs |-> IF Readable(k) THEN image.segs[k].what ELSE Junk]

(* The checksum is compared only of a file with a version of which nothing *)
(* had to be converted.                                                    *)
ChecksumHolds == file.size = image.size /\ file.version = Version /\ ~file.damaged
Compared == Versioned /\ image.order = Native
LoadedUnchecked == file.size > 0
LoadedChecked == file.size > 0 /\ (Compared => ChecksumHolds)

(* What is damaged may be the magic, the mark of the byte order or of the  *)
(* format of floats, for which a file is refused whatever its checksum.    *)
Load ==
  /\ file # None
  /\ \/ LoadedChecked /\ core' = Read
     \/ (~LoadedChecked \/ file.damaged) /\ core' = <<>>
  /\ checked' = (core' # <<>> /\ Compared)
  /\ UNCHANGED <<texts, numbers, names, image, file>>

-----------------------------------------------------------------------------
ImageInit ==
  /\ Init /\ T!Init /\ D!Init
  /\ image = NoImage /\ file = None /\ core = <<>> /\ checked = FALSE

(* The compiler is done with its pools when they are dumped. *)
Compiling == image = NoImage /\ UNCHANGED <<image, disk>>

NameStep   == Compiling /\ Next /\ UNCHANGED <<texts, numbers>>
TextStep   == Compiling /\ T!Next /\ UNCHANGED <<names, numbers>>
NumberStep == Compiling /\ D!Next /\ UNCHANGED <<names, texts>>
DumpStep   == \E o \in Orders, n \in CodeSizes, l \in SyscallLists : Dump(o, n, l)

ImageNext == NameStep \/ TextStep \/ NumberStep \/ DumpStep \/ Redump \/ GetCore \/ Open \/ Write \/ Damage \/ Load

ImageVars == <<texts, numbers, names, image, disk>>
ImageSpec == ImageInit /\ [][ImageNext]_ImageVars

-----------------------------------------------------------------------------
(* The pools are well formed, inside of their blocks, and texts end with a *)
(* NUL (the machine looks syscalls up by C strings).                       *)
PoolsSound == T!IInv /\ D!IInv

TextLog == INSTANCE AppendLog WITH
  Records <- Texts, log <- [i \in 1..iUsedOffsetsSize |-> T!Text(i - 1)],
  stored <- iTextId, fetched <- sTextResult
NumberLog == INSTANCE AppendLog WITH
  Records <- ({"int"} \X Ints) \cup ({"float"} \X Floats),
  log <- [i \in 1..iUsedNumbers |-> D!Number(i - 1)],
  stored <- iNumberId, fetched <- oNumberResult

(* Both pools are logs: however their blocks grow, together with the index *)
(* of the kinds of numbers, a record stored keeps its number and is never  *)
(* lost or changed.                                                        *)
ImplementsLogs == TextLog!Spec /\ NumberLog!Spec

(* Every segment is aligned and lies behind the header, before the next    *)
(* segment and before the end of the image: the offsets of the header are  *)
(* computed twice, for the size and for the fields.                        *)
SegmentsApart ==
  image # NoImage =>
    \A k \in DOMAIN image.segs :
       LET s == image.segs[k]
           next == IF k = Len(image.segs) THEN image.size ELSE image.segs[k + 1].at
       IN s.at >= HeaderSize /\ s.at % 8 = 0 /\ s.at + s.size <= next

(* The image is that of the pools, which the compiler has left: a program  *)
(* that is loaded and dumped again has the same one.                       *)
MadeOfPools ==
  image # NoImage =>
    /\ DOMAIN image = DOMAIN NoImage
    /\ image.order \in Orders \cup {Native}
    /\ image.code \in CodeSizes /\ image.names \in SyscallLists
    /\ image.iPower = iPower
    /\ LET pools == Pools(image.code, image.names)
       IN image.segs = Segments(pools) /\ image.size = ImageSize(pools)

(* A load gives each segment as it was or Junk; what was compared with its *)
(* checksum, or never left memory, is of this byte order and has no Junk.  *)
ReadOfImage ==
  /\ file # None \/ Loaded \/ checked => image # NoImage
  /\ Loaded \/ checked =>
       /\ core = [k \in DOMAIN image.segs |-> core[k]]
       /\ \A k \in DOMAIN image.segs : core[k] = image.segs[k].what \/ core[k] = Junk
  /\ checked =>
       /\ image.order = Native
       /\ \A k \in DOMAIN image.segs : core[k] = image.segs[k].what

(* The inductive invariant, on top of that of the table and the pools. *)
ImageInv == MadeOfPools /\ ReadOfImage

(* What ReducedStaticText reads in a segment. *)
TextIn(data, offsets, id) == [i \in 1..offsets[id].length |-> data[offsets[id].offset + i - 1]]
CString(data, offsets, id) ==
  LET end == offsets[id].offset + offsets[id].length IN end \in DOMAIN data /\ data[end] = Nul

(* What the loader compares with its checksum and accepts is the program   *)
(* that was compiled, all of it: every text, number, syscall and block     *)
(* name is found by the number or the hash it has in the instructions,     *)
(* also if it was loaded and dumped before.  A file of this byte order     *)
(* that is being written, or is damaged and still has a version, is        *)
(* refused; of a file without a version, or of the other byte order,       *)
(* nothing is said.                                                        *)
LoadsWhole ==
  checked =>
    /\ core[CODE] = [i \in 0..image.code - 1 |-> "instruction"]
    /\ \A id \in 1..Len(image.names) :
         /\ TextIn(core[SYSCALLS], core[SYSCALLS_INDEX], id - 1) = image.names[id]
         /\ CString(core[SYSCALLS], core[SYSCALLS_INDEX], id - 1)
    /\ \A id \in 0..iUsedOffsetsSize - 1 : TextIn(core[TEXT], core[TEXT_INDEX], id) = T!Text(id)
    /\ \A id \in 0..iUsedNumbers - 1 : core[DATA][id] = aNumbers[id]
    /\ core[CALLS] # Junk
    /\ \A k \in Keys :
         LET e == core[CALLS][Slot(k, image.iPower)]
         IN Found(k) = IF e # None /\ Hash[e.key] = Hash[k] THEN e.value ELSE None
=============================================================================
