------------------------- MODULE ArgStackOps_proofs -------------------------
(***************************************************************************)
(* Lemmas about the operations of VMArgStack, on stack values: what each   *)
(* returns when its test lets it run is a stack again, and nothing above   *)
(* the newest base pointer has changed.  ArgStack_proofs needs them for    *)
(* one call at a time, VM_proofs for the calls an opcode chains.           *)
(***************************************************************************)
EXTENDS ArgStackOps, SequenceTheorems, TLAPS

(* A stack value the invariants allow. *)
GoodStack(s) ==
  /\ s \in StackType
  /\ s.vBasePointers # <<>>
  /\ s.vBasePointers[1] = iMaxStackSize
  /\ \A i, j \in 1 .. Len(s.vBasePointers) : i <= j => s.vBasePointers[j] <= s.vBasePointers[i]
  /\ s.iStackPointer <= s.vBasePointers[Len(s.vBasePointers)]

(* The constructor leaves a good stack. *)
LEMMA EmptyGood == GoodStack(EmptyStack)
BY MaxStackSizeAssumption, ValuesAssumption
   DEF GoodStack, EmptyStack, StackType, Positions

(* The newest base pointer of a good stack is a position or its end. *)
LEMMA BaseInArray ==
  ASSUME NEW s, GoodStack(s)
  PROVE  /\ Base(s) \in 0 .. iMaxStackSize
         /\ s.iStackPointer \in 0 .. iMaxStackSize
         /\ s.iStackPointer <= Base(s)
         /\ iMaxStackSize \in Nat
BY MaxStackSizeAssumption DEF GoodStack, StackType, Base

(* The operations keep a stack good when their test lets them run. *)
LEMMA PushedGood ==
  ASSUME NEW s, GoodStack(s), CanPush(s), NEW v \in Values
  PROVE  GoodStack(Pushed(s, v))
<1>1. s.iStackPointer - 1 \in Positions
  BY BaseInArray DEF CanPush, Positions
<1>2. Pushed(s, v).vBasePointers = s.vBasePointers
  BY DEF Pushed, GoodStack, StackType
<1>3. Pushed(s, v).iStackPointer = s.iStackPointer - 1
  BY DEF Pushed, GoodStack, StackType
<1>4. s.iStackPointer - 1 \in 0 .. iMaxStackSize
  BY <1>1, BaseInArray DEF Positions
<1>5. Pushed(s, v) \in StackType
  BY <1>1, <1>4 DEF Pushed, GoodStack, StackType
<1>6. s.iStackPointer - 1 <= s.vBasePointers[Len(s.vBasePointers)]
  BY <1>4, BaseInArray DEF Base
<1> QED
  BY <1>2, <1>3, <1>5, <1>6 DEF GoodStack

LEMMA ClearedGood ==
  ASSUME NEW s, GoodStack(s), NEW d \in Nat, CanClear(s, d)
  PROVE  GoodStack(Cleared(s, d))
<1>1. /\ Cleared(s, d).vBasePointers = s.vBasePointers
      /\ Cleared(s, d).iStackPointer = s.iStackPointer + d
  BY DEF Cleared, GoodStack, StackType
<1>2. /\ s.iStackPointer + d \in 0 .. iMaxStackSize
      /\ s.iStackPointer + d <= s.vBasePointers[Len(s.vBasePointers)]
  BY BaseInArray DEF CanClear, Base
<1>3. Cleared(s, d) \in StackType
  BY <1>2 DEF Cleared, GoodStack, StackType
<1> QED
  BY <1>1, <1>2, <1>3 DEF GoodStack

(* PopElement tests for equality only: the pointer is never above. *)
LEMMA PoppedGood ==
  ASSUME NEW s, GoodStack(s), CanPop(s)
  PROVE  GoodStack(Popped(s))
<1>1. CanClear(s, 1)
  BY BaseInArray DEF CanPop, CanClear
<1>2. Popped(s) = Cleared(s, 1)
  BY DEF Popped, Cleared
<1> QED
  BY <1>1, <1>2, ClearedGood

LEMMA StoredGood ==
  ASSUME NEW s, GoodStack(s), NEW p, NEW v \in Values
  PROVE  GoodStack(Stored(s, p, v))
BY DEF GoodStack, Stored, StackType

LEMMA SavedGood ==
  ASSUME NEW s, GoodStack(s), NEW d \in Nat, d <= Base(s) - s.iStackPointer
  PROVE  GoodStack(BaseSaved(s, d))
<1> DEFINE t  == BaseSaved(s, d)
           bp == s.vBasePointers
           b  == s.iStackPointer + d
<1>1. /\ t.vBasePointers = Append(bp, b)
      /\ t.iStackPointer = s.iStackPointer
      /\ t.aStack = s.aStack
  BY DEF BaseSaved, GoodStack, StackType
<1>2. b \in 0 .. iMaxStackSize /\ b <= Base(s)
  BY BaseInArray
<1>3. bp \in Seq(0 .. iMaxStackSize) /\ bp # <<>>
  BY DEF GoodStack, StackType
<1>4. t \in StackType
  <2>1. Append(bp, b) \in Seq(0 .. iMaxStackSize)
    BY <1>2, <1>3
  <2> QED
    BY <2>1 DEF BaseSaved, GoodStack, StackType
<1>5. /\ Len(t.vBasePointers) = Len(bp) + 1
      /\ t.vBasePointers[Len(bp) + 1] = b
      /\ \A i \in 1 .. Len(bp) : t.vBasePointers[i] = bp[i]
  BY <1>1, <1>2, <1>3
<1>6. ASSUME NEW i \in 1 .. Len(bp)
      PROVE  b <= bp[i] /\ bp[i] \in 0 .. iMaxStackSize
  <2>1. Len(bp) \in 1 .. Len(bp) /\ i <= Len(bp)
    BY <1>3
  <2>2. bp[Len(bp)] <= bp[i]
    BY <2>1 DEF GoodStack
  <2>3. bp[Len(bp)] \in 0 .. iMaxStackSize /\ bp[i] \in 0 .. iMaxStackSize
    BY <1>3, <2>1, ElementOfSeq
  <2> QED
    BY <1>2, <2>2, <2>3 DEF Base
<1>7. \A i, j \in 1 .. Len(t.vBasePointers) :
         i <= j => t.vBasePointers[j] <= t.vBasePointers[i]
  <2> SUFFICES ASSUME NEW i \in 1 .. Len(bp) + 1, NEW j \in 1 .. Len(bp) + 1, i <= j
               PROVE  t.vBasePointers[j] <= t.vBasePointers[i]
    BY <1>5
  <2>1. CASE j \in 1 .. Len(bp)
    <3>1. i \in 1 .. Len(bp)
      BY <2>1, <1>3
    <3> QED
      BY <2>1, <3>1, <1>5 DEF GoodStack
  <2>2. CASE j = Len(bp) + 1 /\ i \in 1 .. Len(bp)
    BY <2>2, <1>5, <1>6
  <2>3. CASE j = Len(bp) + 1 /\ i = Len(bp) + 1
    BY <2>3, <1>2, <1>5
  <2> QED
    BY <1>3, <2>1, <2>2, <2>3
<1>8. t.vBasePointers[1] = iMaxStackSize /\ t.vBasePointers # <<>>
  BY <1>3, <1>5, <1>1 DEF GoodStack
<1> QED
  <2>1. t.iStackPointer <= t.vBasePointers[Len(t.vBasePointers)]
    BY <1>1, <1>2, <1>5, BaseInArray
  <2> QED
    BY <1>4, <1>7, <1>8, <2>1 DEF GoodStack

LEMMA RestoredGood ==
  ASSUME NEW s, GoodStack(s), Len(s.vBasePointers) > 1
  PROVE  GoodStack(BaseRestored(s))
<1> DEFINE t  == BaseRestored(s)
           bp == s.vBasePointers
<1>1. /\ t.vBasePointers = SubSeq(bp, 1, Len(bp) - 1)
      /\ t.iStackPointer = s.iStackPointer
      /\ t.aStack = s.aStack
  BY DEF BaseRestored, GoodStack, StackType
<1>2. bp \in Seq(0 .. iMaxStackSize) /\ Len(bp) \in Nat
  BY DEF GoodStack, StackType
<1>3. /\ t.vBasePointers \in Seq(0 .. iMaxStackSize)
      /\ Len(t.vBasePointers) = Len(bp) - 1
      /\ \A i \in 1 .. Len(bp) - 1 : t.vBasePointers[i] = bp[i]
  <2>1. ASSUME NEW i \in 1 .. Len(bp) - 1
        PROVE  bp[i] \in 0 .. iMaxStackSize
    <3>1. i \in 1 .. Len(bp)
      BY <1>2
    <3> QED
      BY <1>2, <3>1, ElementOfSeq
  <2> QED
    BY <1>1, <1>2, <2>1, SubSeqProperties
<1>4. t \in StackType
  BY <1>1, <1>3 DEF BaseRestored, GoodStack, StackType
<1>5. bp[Len(bp)] <= bp[Len(bp) - 1]
  <2>1. /\ Len(bp) \in 1 .. Len(bp)
        /\ Len(bp) - 1 \in 1 .. Len(bp)
        /\ Len(bp) - 1 <= Len(bp)
    BY <1>2
  <2> QED
    BY <2>1 DEF GoodStack
<1>6. /\ bp[Len(bp)] \in 0 .. iMaxStackSize
      /\ bp[Len(bp) - 1] \in 0 .. iMaxStackSize
  <2>1. Len(bp) \in 1 .. Len(bp) /\ Len(bp) - 1 \in 1 .. Len(bp)
    BY <1>2
  <2> QED
    BY <1>2, <2>1, ElementOfSeq
<1>7. s.iStackPointer <= bp[Len(bp) - 1]
  BY <1>5, <1>6, BaseInArray DEF Base
<1>8. /\ t.vBasePointers # <<>>
      /\ t.vBasePointers[1] = iMaxStackSize
  BY <1>2, <1>3 DEF GoodStack
<1>9. \A i, j \in 1 .. Len(t.vBasePointers) :
         i <= j => t.vBasePointers[j] <= t.vBasePointers[i]
  <2> SUFFICES ASSUME NEW i \in 1 .. Len(t.vBasePointers), NEW j \in 1 .. Len(t.vBasePointers), i <= j
               PROVE  t.vBasePointers[j] <= t.vBasePointers[i]
    OBVIOUS
  <2>1. i \in 1 .. Len(bp) - 1 /\ j \in 1 .. Len(bp) - 1
    BY <1>3
  <2>2. i \in 1 .. Len(bp) /\ j \in 1 .. Len(bp)
    BY <1>2, <2>1
  <2>3. bp[j] <= bp[i]
    BY <2>2 DEF GoodStack
  <2> QED
    BY <1>3, <2>1, <2>3
<1>10. t.iStackPointer <= t.vBasePointers[Len(t.vBasePointers)]
  BY <1>1, <1>2, <1>3, <1>7
<1> QED
  BY <1>4, <1>8, <1>9, <1>10 DEF GoodStack

LEMMA ResetGood ==
  ASSUME NEW s, GoodStack(s)
  PROVE  GoodStack(ResetOf(s))
<1> DEFINE t == ResetOf(s)
<1>1. /\ t.iStackPointer = iMaxStackSize
      /\ t.vBasePointers = <<iMaxStackSize>>
      /\ t.aStack = s.aStack
  BY DEF ResetOf, GoodStack, StackType
<1>2. iMaxStackSize \in 0 .. iMaxStackSize
  BY MaxStackSizeAssumption
<1>3. <<iMaxStackSize>> \in Seq(0 .. iMaxStackSize) /\ Len(<<iMaxStackSize>>) = 1
  BY <1>2
<1>4. t \in StackType
  BY <1>2, <1>3 DEF ResetOf, GoodStack, StackType
<1>5. \A i, j \in 1 .. 1 : i <= j => t.vBasePointers[j] <= t.vBasePointers[i]
  BY <1>1, <1>2
<1> QED
  BY <1>1, <1>2, <1>3, <1>4, <1>5 DEF GoodStack

(* What GetElement lets through is a position of the array. *)
LEMMA AccessInArray ==
  ASSUME NEW s, GoodStack(s), NEW i \in Nat, Access(s, TopPos(s, i)) = Done
  PROVE  /\ TopPos(s, i) \in Positions
         /\ TopPos(s, i) < Base(s)
BY BaseInArray, OutcomeAssumption DEF Access, TopPos, Positions

-----------------------------------------------------------------------------
(* t is what calls between SaveBasePointer and RestoreBasePointer may make *)
(* of s: the same frames, and above the newest base the same elements.     *)
InFrame(s, t) ==
  /\ GoodStack(t)
  /\ t.vBasePointers = s.vBasePointers
  /\ \A p \in Positions : p >= Base(s) => t.aStack[p] = s.aStack[p]

LEMMA SameInFrame ==
  ASSUME NEW s, GoodStack(s)
  PROVE  InFrame(s, s)
BY DEF InFrame

LEMMA InFrameTransitive ==
  ASSUME NEW s, NEW t, NEW u, InFrame(s, t), InFrame(t, u)
  PROVE  InFrame(s, u)
BY DEF InFrame, Base

LEMMA PushedInFrame ==
  ASSUME NEW s, GoodStack(s), CanPush(s), NEW v \in Values
  PROVE  InFrame(s, Pushed(s, v))
<1>1. /\ Pushed(s, v).vBasePointers = s.vBasePointers
      /\ Pushed(s, v).aStack = [s.aStack EXCEPT ![s.iStackPointer - 1] = v]
  BY DEF Pushed, GoodStack, StackType
<1>2. ASSUME NEW p \in Positions, p >= Base(s)
      PROVE  p # s.iStackPointer - 1
  BY <1>2, BaseInArray DEF Positions
<1> QED
  BY <1>1, <1>2, PushedGood DEF InFrame, GoodStack, StackType

LEMMA ClearedInFrame ==
  ASSUME NEW s, GoodStack(s), NEW d \in Nat, CanClear(s, d)
  PROVE  InFrame(s, Cleared(s, d))
<1>1. /\ Cleared(s, d).vBasePointers = s.vBasePointers
      /\ Cleared(s, d).aStack = s.aStack
  BY DEF Cleared, GoodStack, StackType
<1> QED
  BY <1>1, ClearedGood DEF InFrame

(* An element is stored where GetElement lets it be reached. *)
LEMMA StoredInFrame ==
  ASSUME NEW s, GoodStack(s), NEW i \in Nat, Access(s, TopPos(s, i)) = Done, NEW v \in Values
  PROVE  InFrame(s, Stored(s, TopPos(s, i), v))
<1> DEFINE p == TopPos(s, i)
<1>1. /\ Stored(s, p, v).vBasePointers = s.vBasePointers
      /\ Stored(s, p, v).aStack = [s.aStack EXCEPT ![p] = v]
  BY DEF Stored, GoodStack, StackType
<1>2. p \in Positions /\ p < Base(s)
  BY AccessInArray
<1>3. ASSUME NEW q \in Positions, q >= Base(s)
      PROVE  q # p
  BY <1>2, <1>3, BaseInArray DEF Positions
<1>4. GoodStack(Stored(s, p, v))
  BY StoredGood
<1> QED
  BY <1>1, <1>2, <1>3, <1>4 DEF InFrame, GoodStack, StackType

(* What GetElement returns is a value. *)
LEMMA ElementIsValue ==
  ASSUME NEW s, GoodStack(s), NEW i \in Nat, Access(s, TopPos(s, i)) = Done
  PROVE  s.aStack[TopPos(s, i)] \in Values
BY AccessInArray DEF GoodStack, StackType

(* An opcode that moves the pointer inside of the frame and the elements   *)
(* below its base, several at a time.                                      *)
LEMMA MovedInFrame ==
  ASSUME NEW s, GoodStack(s), NEW n \in Nat, n <= Base(s), NEW a \in [Positions -> Values],
         \A p \in Positions : p >= Base(s) => a[p] = s.aStack[p]
  PROVE  InFrame(s, [s EXCEPT !.iStackPointer = n, !.aStack = a])
<1> DEFINE t == [s EXCEPT !.iStackPointer = n, !.aStack = a]
<1>1. s \in StackType /\ n \in 0 .. iMaxStackSize
  BY BaseInArray DEF GoodStack
<1>2. t.iStackPointer = n /\ t.vBasePointers = s.vBasePointers /\ t.aStack = a /\ t \in StackType
  BY <1>1 DEF StackType
<1>3. n <= s.vBasePointers[Len(s.vBasePointers)]
  BY DEF Base
<1>4. InFrame(s, t)
  <2> HIDE DEF t
  <2>1. GoodStack(t)
    BY <1>2, <1>3 DEF GoodStack
  <2> QED
    BY <1>2, <2>1 DEF InFrame
<1> QED
  BY <1>4
=============================================================================
