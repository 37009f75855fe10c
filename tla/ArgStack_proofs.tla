--------------------------- MODULE ArgStack_proofs ---------------------------
(***************************************************************************)
(* Proofs about ArgStack for every stack size, element set and bound on    *)
(* the number of frames.  TypeOK is not inductive: popping keeps the       *)
(* pointer inside the array only because the newest base pointer is in     *)
(* it, so the two invariants are proved together.                          *)
(***************************************************************************)
EXTENDS ArgStack, ArgStackOps_proofs, WellFoundedInduction

IInv == TypeOK /\ FramesNested

-----------------------------------------------------------------------------
LEMMA InvIsGood == IInv <=> /\ GoodStack(oVMArgStack)
                            /\ outcome \in Values \cup {Done, Overflow, Underflow}
BY DEF IInv, TypeOK, FramesNested, GoodStack

LEMMA AccessOutcome ==
  ASSUME NEW s, NEW p
  PROVE  Access(s, p) \in {Done, Overflow, Underflow}
BY DEF Access

(* The invariant holds initially and every call of the stack keeps it. *)
LEMMA InductiveInvariant == Init /\ [][Next]_vars => []IInv
<1>1. Init => IInv
  BY EmptyGood, InvIsGood DEF Init
<1>2. IInv /\ [Next]_vars => IInv'
  <2> SUFFICES ASSUME GoodStack(oVMArgStack),
                      outcome \in Values \cup {Done, Overflow, Underflow},
                      [Next]_vars
               PROVE  GoodStack(oVMArgStack') /\ outcome' \in Values \cup {Done, Overflow, Underflow}
    BY InvIsGood DEF IInv, TypeOK, FramesNested, GoodStack
  <2> USE DEF Return, Throw
  <2>1. ASSUME NEW v \in Values, PushElement(v)
        PROVE  GoodStack(oVMArgStack') /\ outcome' \in {Done, Overflow}
    BY <2>1, PushedGood DEF PushElement
  <2>2. CASE PopElement
    BY <2>2, PoppedGood DEF PopElement
  <2>3. ASSUME NEW i \in 0 .. iMaxStackSize, GetTopElement(i)
        PROVE  GoodStack(oVMArgStack') /\ outcome' \in Values \cup {Done, Overflow, Underflow}
    <3>1. CASE Access(oVMArgStack, TopPos(oVMArgStack, i)) = Done
      <4>1. TopPos(oVMArgStack, i) \in Positions
        BY <3>1, AccessInArray, MaxStackSizeAssumption
      <4>2. oVMArgStack.aStack[TopPos(oVMArgStack, i)] \in Values
        BY <4>1 DEF GoodStack, StackType
      <4> QED
        BY <2>3, <3>1, <4>2 DEF GetTopElement, GetElement
    <3>2. CASE Access(oVMArgStack, TopPos(oVMArgStack, i)) # Done
      BY <2>3, <3>2, AccessOutcome DEF GetTopElement, GetElement
    <3> QED
      BY <3>1, <3>2
  <2>4. ASSUME NEW i \in 0 .. iMaxStackSize, NEW v \in Values, AssignTopElement(i, v)
        PROVE  GoodStack(oVMArgStack') /\ outcome' \in {Done, Overflow, Underflow}
    BY <2>4, StoredGood, AccessOutcome DEF AssignTopElement
  <2>5. ASSUME NEW d \in 0 .. iMaxStackSize + 1, ClearStack(d)
        PROVE  GoodStack(oVMArgStack') /\ outcome' \in {Done, Underflow}
    BY <2>5, ClearedGood, MaxStackSizeAssumption DEF ClearStack
  <2>6. ASSUME NEW d \in 0 .. iMaxStackSize, SaveBasePointer(d)
        PROVE  GoodStack(oVMArgStack') /\ outcome' = Done
    BY <2>6, SavedGood, MaxStackSizeAssumption DEF SaveBasePointer
  <2>7. CASE RestoreBasePointer
    BY <2>7, RestoredGood DEF RestoreBasePointer
  <2>8. CASE Reset
    BY <2>8, ResetGood DEF Reset
  <2>9. CASE UNCHANGED vars
    BY <2>9 DEF vars
  <2> QED
    BY <2>1, <2>2, <2>3, <2>4, <2>5, <2>6, <2>7, <2>8, <2>9 DEF Next
<1> QED
  BY <1>1, <1>2, PTL

(* The stack pointer stays inside the array under every sequence of calls. *)
THEOREM ArgStackTypeCorrect == Spec => []TypeOK
BY InductiveInvariant, PTL DEF Spec, IInv

(* Frames stay nested: base pointers descend to the stack pointer.  This   *)
(* is why PopElement may test for equality only.                           *)
THEOREM ArgStackFramesNested == Spec => []FramesNested
BY InductiveInvariant, PTL DEF Spec, IInv

(* No call changes an element of a frame that is not the newest one.       *)
THEOREM ArgStackHiddenKept == Spec => HiddenKept
<1> DEFINE Kept == \A p \in Positions :
                     p >= Base(oVMArgStack)
                       => oVMArgStack'.aStack[p] = oVMArgStack.aStack[p]
<1>1. IInv /\ [Next]_vars => Kept \/ UNCHANGED vars
  <2> SUFFICES ASSUME GoodStack(oVMArgStack), Next,
                      NEW p \in Positions, p >= Base(oVMArgStack)
               PROVE  oVMArgStack'.aStack[p] = oVMArgStack.aStack[p]
    BY InvIsGood
  <2> USE DEF Return, Throw
  <2>0. oVMArgStack \in StackType
    BY DEF GoodStack
  <2>1. ASSUME NEW v \in Values, PushElement(v)
        PROVE  oVMArgStack'.aStack[p] = oVMArgStack.aStack[p]
    <3>1. p # oVMArgStack.iStackPointer - 1
      BY BaseInArray DEF Positions
    <3> QED
      BY <2>0, <2>1, <3>1 DEF PushElement, Pushed, StackType
  <2>2. ASSUME NEW i \in 0 .. iMaxStackSize, NEW v \in Values, AssignTopElement(i, v)
        PROVE  oVMArgStack'.aStack[p] = oVMArgStack.aStack[p]
    <3>1. CASE Access(oVMArgStack, TopPos(oVMArgStack, i)) = Done
      <4>1. TopPos(oVMArgStack, i) < Base(oVMArgStack)
        BY <3>1, AccessInArray, MaxStackSizeAssumption
      <4>2. p # TopPos(oVMArgStack, i)
        BY <4>1, BaseInArray DEF TopPos, Positions
      <4> QED
        BY <2>0, <2>2, <3>1, <4>2 DEF AssignTopElement, Stored, StackType
    <3>2. CASE Access(oVMArgStack, TopPos(oVMArgStack, i)) # Done
      BY <2>2, <3>2 DEF AssignTopElement
    <3> QED
      BY <3>1, <3>2
  <2>3. CASE PopElement
    BY <2>0, <2>3 DEF PopElement, Popped, StackType
  <2>4. ASSUME NEW i \in 0 .. iMaxStackSize, GetTopElement(i)
        PROVE  oVMArgStack'.aStack[p] = oVMArgStack.aStack[p]
    BY <2>4 DEF GetTopElement, GetElement
  <2>5. ASSUME NEW d \in 0 .. iMaxStackSize + 1, ClearStack(d)
        PROVE  oVMArgStack'.aStack[p] = oVMArgStack.aStack[p]
    BY <2>0, <2>5 DEF ClearStack, Cleared, StackType
  <2>6. ASSUME NEW d \in 0 .. iMaxStackSize, SaveBasePointer(d)
        PROVE  oVMArgStack'.aStack[p] = oVMArgStack.aStack[p]
    BY <2>0, <2>6 DEF SaveBasePointer, BaseSaved, StackType
  <2>7. CASE RestoreBasePointer
    BY <2>0, <2>7 DEF RestoreBasePointer, BaseRestored, StackType
  <2>8. CASE Reset
    BY <2>0, <2>8 DEF Reset, ResetOf, StackType
  <2> QED
    BY <2>1, <2>2, <2>3, <2>4, <2>5, <2>6, <2>7, <2>8 DEF Next
<1>2. Spec => [][Kept]_vars
  BY <1>1, InductiveInvariant, PTL DEF Spec
<1> QED
  BY <1>2 DEF HiddenKept

-----------------------------------------------------------------------------
(* The frames the array stands for.                                        *)

Low(s, i) == IF i = Len(s.vBasePointers) THEN s.iStackPointer ELSE s.vBasePointers[i + 1]

LEMMA BasesOf ==
  ASSUME NEW s, GoodStack(s)
  PROVE  LET bp == s.vBasePointers
         IN /\ Len(bp) \in Nat \ {0} /\ bp[1] = iMaxStackSize
            /\ \A i \in 1 .. Len(bp) : bp[i] \in Nat /\ bp[i] <= iMaxStackSize
            /\ \A i \in 1 .. Len(bp) : Low(s, i) \in Nat /\ Low(s, i) <= bp[i]
            /\ \A i \in 1 .. Len(bp) : i # Len(bp) => Low(s, i) >= Base(s) /\ Low(s, i) = bp[i + 1]
            /\ Low(s, Len(bp)) = s.iStackPointer /\ bp[Len(bp)] = Base(s)
<1> DEFINE bp == s.vBasePointers
<1>1. /\ bp \in Seq(0 .. iMaxStackSize) /\ bp # <<>> /\ s.iStackPointer \in 0 .. iMaxStackSize
      /\ bp[1] = iMaxStackSize
      /\ \A i, j \in 1 .. Len(bp) : i <= j => bp[j] <= bp[i]
      /\ s.iStackPointer <= bp[Len(bp)] /\ iMaxStackSize \in Nat
  BY MaxStackSizeAssumption DEF GoodStack, StackType
<1> HIDE DEF bp
<1>2. Len(bp) \in Nat \ {0} /\ \A i \in 1 .. Len(bp) : bp[i] \in Nat /\ bp[i] <= iMaxStackSize
  BY <1>1
<1>3. Base(s) = bp[Len(bp)]  BY DEF Base, bp
<1>4. ASSUME NEW i \in 1 .. Len(bp), i # Len(bp)
      PROVE  bp[i + 1] \in Nat /\ bp[i + 1] <= bp[i] /\ bp[i + 1] >= bp[Len(bp)]
  <2>1. i + 1 \in 1 .. Len(bp) /\ i <= i + 1 /\ i + 1 <= Len(bp) /\ Len(bp) \in 1 .. Len(bp)
    BY <1>2, <1>4
  <2> QED BY <1>1, <1>2, <2>1
<1> QED BY <1>1, <1>2, <1>3, <1>4 DEF Low, bp

LEMMA FrameIs ==
  ASSUME NEW s, GoodStack(s), NEW i \in 1 .. Len(s.vBasePointers)
  PROVE  LET n == s.vBasePointers[i] - Low(s, i)
         IN /\ n \in Nat /\ FrameOf(s, i) = [k \in 1 .. n |-> s.aStack[Low(s, i) + k - 1]]
            /\ FrameOf(s, i) \in Seq(Values) /\ Len(FrameOf(s, i)) = n
            /\ \A k \in 1 .. n : Low(s, i) + k - 1 \in Positions
<1> DEFINE n == s.vBasePointers[i] - Low(s, i)
           lo == Low(s, i)
<1>1. n \in Nat /\ lo \in Nat /\ lo + n <= iMaxStackSize  BY BasesOf
<1>2. FrameOf(s, i) = [k \in 1 .. n |-> s.aStack[lo + k - 1]]  BY DEF FrameOf, Low
<1> HIDE DEF n, lo
<1>3. \A k \in 1 .. n : lo + k - 1 \in Positions
  BY <1>1, MaxStackSizeAssumption DEF Positions
<1>4. \A k \in 1 .. n : s.aStack[lo + k - 1] \in Values
  BY <1>3 DEF GoodStack, StackType
<1>5. FrameOf(s, i) \in [1 .. n -> Values]  BY <1>2, <1>4
<1>6. FrameOf(s, i) \in Seq(Values) /\ Len(FrameOf(s, i)) = n
  <2> HIDE DEF FrameOf
  <2> QED BY <1>1, <1>5
<1> QED BY <1>1, <1>2, <1>3, <1>6 DEF n, lo

LEMMA FramesAre ==
  ASSUME NEW s, GoodStack(s)
  PROVE  LET L == Len(s.vBasePointers)
         IN /\ AbstractFrames(s) \in Seq(Seq(Values)) /\ Len(AbstractFrames(s)) = L
            /\ \A i \in 1 .. L : AbstractFrames(s)[i] = FrameOf(s, i)
<1> DEFINE L == Len(s.vBasePointers)
<1>1. L \in Nat  BY BasesOf
<1>2. AbstractFrames(s) = [i \in 1 .. L |-> FrameOf(s, i)]  BY DEF AbstractFrames
<1>3. \A i \in 1 .. L : FrameOf(s, i) \in Seq(Values)  BY FrameIs
<1> HIDE DEF L
<1>4. AbstractFrames(s) \in [1 .. L -> Seq(Values)]  BY <1>2, <1>3
<1>5. AbstractFrames(s) \in Seq(Seq(Values)) /\ Len(AbstractFrames(s)) = L  BY <1>1, <1>4
<1> QED BY <1>2, <1>5 DEF L

(* A set of natural numbers that is not empty has a least element: what is *)
(* left of induction when there is no operator to instantiate.             *)
LEMMA LeastNumber ==
  ASSUME NEW T, T \subseteq Nat, T # {}
  PROVE  \E n \in T : \A m \in T : n <= m
<1> DEFINE R == {pair \in Nat \X Nat : pair[1] < pair[2]}
<1>1. IsWellFoundedOn(R, Nat)  BY NatLessThanWellFounded DEF OpToRel
<1>2. PICK n \in T : \A m \in T : ~(<<m, n>> \in R)
  <2> HIDE DEF R
  <2> QED BY <1>1, WFMin
<1>3. \A m \in T : <<m, n>> \in Nat \X Nat  BY <1>2
<1>4. \A m \in T : ~(m < n)  BY <1>2, <1>3
<1> QED BY <1>2, <1>4

LEMMA Induction ==
  ASSUME NEW S, 0 \in S, \A n \in Nat : n \in S => n + 1 \in S
  PROVE  Nat \subseteq S
<1> DEFINE T == Nat \ S
<1>1. CASE T = {}  BY <1>1
<1>2. CASE T # {}
  <2>1. PICK n \in T : \A m \in T : n <= m  BY <1>2, LeastNumber
  <2>2. n # 0  BY <2>1
  <2>3. n - 1 \in Nat /\ n - 1 \notin T  BY <2>1, <2>2
  <2>4. n - 1 \in S  BY <2>3
  <2>5. (n - 1) + 1 \in S  BY <2>3, <2>4
  <2> QED BY <2>1, <2>5
<1> QED BY <1>1, <1>2

(* The frames hold what lies between the stack pointer and the end. *)
LEMMA TotalIs ==
  ASSUME NEW s, GoodStack(s)
  PROVE  Abs!Total(AbstractFrames(s)) = iMaxStackSize - s.iStackPointer
<1> DEFINE F == AbstractFrames(s)
           bp == s.vBasePointers
           L == Len(bp)
           t == CHOOSE f : f = [n \in 0 .. Len(F) |-> IF n = 0 THEN 0 ELSE f[n - 1] + Len(F[n])]
           e(n) == IF n = 0 THEN 0 ELSE iMaxStackSize - Low(s, n)
           w == [n \in 0 .. L |-> e(n)]
           S == {n \in Nat : n <= L => t[n] = w[n]}
<1>1. Len(F) = L /\ L \in Nat \ {0} /\ \A n \in 1 .. L : Len(F[n]) = bp[n] - Low(s, n)
  BY FramesAre, FrameIs, BasesOf
<1>2. ASSUME NEW n \in 1 .. L
      PROVE  w[n] = w[n - 1] + (bp[n] - Low(s, n))
  <2>1. Low(s, n) \in Nat /\ bp[n] \in Nat /\ iMaxStackSize \in Nat /\ bp[1] = iMaxStackSize
    BY BasesOf, MaxStackSizeAssumption
  <2>2. n \in 0 .. L /\ n # 0 /\ n - 1 \in 0 .. L  BY <1>1
  <2>3. n # 1 => bp[n] = Low(s, n - 1)
    <3>1. n # 1 => n - 1 \in 1 .. L /\ n - 1 # L /\ (n - 1) + 1 = n  BY <1>1
    <3> QED BY <3>1, BasesOf
  <2>4. w[n] = iMaxStackSize - Low(s, n)  BY <2>2
  <2>5. w[n - 1] = IF n = 1 THEN 0 ELSE iMaxStackSize - Low(s, n - 1)  BY <2>2
  <2> HIDE DEF w, bp, L
  <2> QED BY <2>1, <2>3, <2>4, <2>5
<1>3. w = [n \in 0 .. Len(F) |-> IF n = 0 THEN 0 ELSE w[n - 1] + Len(F[n])]
  <2>1. w = [n \in 0 .. L |-> w[n]] /\ w[0] = 0
    <3>1. e(0) = 0 /\ 0 \in 0 .. L  BY <1>1
    <3> HIDE DEF e, L
    <3> QED BY <3>1
  <2> HIDE DEF w, F, L
  <2>2. \A n \in 0 .. L : w[n] = IF n = 0 THEN 0 ELSE w[n - 1] + Len(F[n])
    <3>1. \A n \in 0 .. L : n # 0 => n \in 1 .. L  BY <1>1
    <3> QED BY <1>1, <1>2, <2>1, <3>1
  <2> QED BY <1>1, <2>1, <2>2
<1>4. t = [n \in 0 .. L |-> IF n = 0 THEN 0 ELSE t[n - 1] + Len(F[n])]
  <2>1. t = [n \in 0 .. Len(F) |-> IF n = 0 THEN 0 ELSE t[n - 1] + Len(F[n])]
    BY <1>3
  <2> HIDE DEF t, F, L
  <2> QED BY <1>1, <2>1
<1>5. Abs!Total(F) = t[L]
  <2>1. Abs!Total(F) = t[Len(F)]  BY DEF Abs!Total
  <2> HIDE DEF t, F, L
  <2> QED BY <1>1, <2>1
<1>6. w[0] = 0 /\ w[L] = iMaxStackSize - s.iStackPointer
  BY <1>1, BasesOf
<1> HIDE DEF t, w, F, L
<1>7. 0 \in S
  BY <1>1, <1>4, <1>6
<1>8. ASSUME NEW n \in Nat, n \in S
      PROVE  n + 1 \in S
  <2>1. ASSUME n + 1 <= L
        PROVE  t[n + 1] = w[n + 1]
    <3>1. n + 1 \in 0 .. L /\ n + 1 # 0 /\ (n + 1) - 1 = n /\ n + 1 \in 1 .. L /\ n <= L  BY <1>1, <2>1
    <3>2. t[n + 1] = t[n] + Len(F[n + 1])  BY <1>4, <3>1
    <3>3. w[n + 1] = w[n] + (bp[n + 1] - Low(s, n + 1))  BY <1>2, <3>1
    <3>4. t[n] = w[n]  BY <1>8, <3>1
    <3>5. Len(F[n + 1]) = bp[n + 1] - Low(s, n + 1)  BY <1>1, <3>1
    <3> QED BY <3>2, <3>3, <3>4, <3>5
  <2> QED BY <2>1
<1>9. Nat \subseteq S
  <2> HIDE DEF S
  <2> QED BY <1>7, <1>8, Induction
<1>10. t[L] = w[L]  BY <1>1, <1>9
<1> QED BY <1>5, <1>6, <1>10 DEF F

(* A sequence that agrees with another but in its last place. *)
LEMMA LastReplaced ==
  ASSUME NEW S, NEW F \in Seq(S), NEW G \in Seq(S), Len(G) = Len(F), Len(F) # 0,
         \A i \in 1 .. Len(F) - 1 : G[i] = F[i]
  PROVE  G = Append(SubSeq(F, 1, Len(F) - 1), G[Len(F)])
<1> DEFINE H == SubSeq(F, 1, Len(F) - 1)
           n == Len(F)
<1>1. n \in Nat \ {0} /\ G[n] \in S  BY ElementOfSeq
<1>2. H \in Seq(S) /\ Len(H) = n - 1 /\ \A i \in 1 .. n - 1 : H[i] = F[i]
  <2>1. \A i \in 1 .. n - 1 : F[i] \in S  BY <1>1
  <2> QED BY <1>1, <2>1, SubSeqProperties
<1> HIDE DEF H
<1>3. Append(H, G[n]) \in Seq(S) /\ Len(Append(H, G[n])) = n
  BY <1>1, <1>2
<1>4. ASSUME NEW i \in 1 .. n
      PROVE  Append(H, G[n])[i] = G[i]
  <2>1. CASE i = n  BY <1>1, <1>2, <2>1
  <2>2. CASE i # n
    <3>1. i \in 1 .. n - 1 /\ i \in 1 .. Len(H)  BY <1>1, <1>2, <2>2
    <3>2. Append(H, G[n])[i] = H[i]  BY <1>2, <3>1
    <3> QED BY <1>2, <3>1, <3>2
  <2> QED BY <2>1, <2>2
<1> QED
  <2> HIDE DEF n
  <2>1. Len(G) = n  BY DEF n
  <2>2. G = Append(H, G[n])  BY <1>3, <1>4, <2>1, SeqEqual
  <2> QED BY <2>2 DEF H, n

(* Two frames cut out of the same elements are equal. *)
LEMMA SameFrame ==
  ASSUME NEW s, GoodStack(s), NEW t, GoodStack(t),
         NEW i \in 1 .. Len(s.vBasePointers), NEW j \in 1 .. Len(t.vBasePointers),
         s.vBasePointers[i] = t.vBasePointers[j], Low(s, i) = Low(t, j),
         \A p \in Positions : p >= Low(s, i) => s.aStack[p] = t.aStack[p]
  PROVE  FrameOf(s, i) = FrameOf(t, j)
<1> DEFINE n == s.vBasePointers[i] - Low(s, i)
           lo == Low(s, i)
<1>1. /\ n \in Nat /\ lo \in Nat
      /\ FrameOf(s, i) = [k \in 1 .. n |-> s.aStack[lo + k - 1]]
      /\ FrameOf(t, j) = [k \in 1 .. n |-> t.aStack[lo + k - 1]]
      /\ \A k \in 1 .. n : lo + k - 1 \in Positions
  <2>1. /\ FrameOf(s, i) = [k \in 1 .. n |-> s.aStack[lo + k - 1]]
        /\ \A k \in 1 .. n : lo + k - 1 \in Positions
    BY FrameIs
  <2>2. FrameOf(t, j) = [k \in 1 .. t.vBasePointers[j] - Low(t, j) |-> t.aStack[Low(t, j) + k - 1]]
    BY FrameIs
  <2>3. n \in Nat /\ lo \in Nat
    BY BasesOf
  <2> QED BY <2>1, <2>2, <2>3
<1> HIDE DEF n, lo
<1>2. ASSUME NEW k \in 1 .. n
      PROVE  s.aStack[lo + k - 1] = t.aStack[lo + k - 1]
  <2>1. lo + k - 1 \in Positions  BY <1>1
  <2>2. lo + k - 1 >= lo  BY <1>1
  <2> QED BY <2>1, <2>2 DEF lo
<1> QED BY <1>1, <1>2

(* The newest frame is what lies between the pointer and the newest base. *)
LEMMA VisibleIs ==
  ASSUME NEW s, GoodStack(s)
  PROVE  LET F == AbstractFrames(s)
             V == F[Len(F)]
             n == Base(s) - s.iStackPointer
         IN /\ n \in Nat /\ V \in Seq(Values) /\ Len(V) = n
            /\ V = FrameOf(s, Len(s.vBasePointers))
            /\ \A k \in 1 .. n : V[k] = s.aStack[s.iStackPointer + k - 1]
<1> DEFINE L == Len(s.vBasePointers)
           n == Base(s) - s.iStackPointer
           f == FrameOf(s, L)
           lo == s.iStackPointer
<1>1. L \in 1 .. L /\ Low(s, L) = lo /\ s.vBasePointers[L] = Base(s)
  BY BasesOf
<1>2. AbstractFrames(s)[Len(AbstractFrames(s))] = f
  BY <1>1, FramesAre
<1>3. n \in Nat /\ f \in Seq(Values) /\ Len(f) = n /\ f = [k \in 1 .. n |-> s.aStack[lo + k - 1]]
  <2>1. LET m == s.vBasePointers[L] - Low(s, L)
        IN m \in Nat /\ f \in Seq(Values) /\ Len(f) = m
           /\ f = [k \in 1 .. m |-> s.aStack[Low(s, L) + k - 1]]
    <3> HIDE DEF L
    <3>1. L \in 1 .. Len(s.vBasePointers)  BY <1>1 DEF L
    <3> QED BY <3>1, FrameIs
  <2> HIDE DEF f, L
  <2> QED BY <1>1, <2>1
<1> HIDE DEF f, n, lo
<1>4. \A k \in 1 .. n : f[k] = s.aStack[lo + k - 1]  BY <1>3
<1> QED BY <1>2, <1>3, <1>4 DEF f, n, lo

(* A call that stays in the newest frame replaces that frame and no other. *)
LEMMA NewestReplaced ==
  ASSUME NEW s, GoodStack(s), NEW t, InFrame(s, t)
  PROVE  LET F == AbstractFrames(s)
         IN AbstractFrames(t) = Append(SubSeq(F, 1, Len(F) - 1), FrameOf(t, Len(t.vBasePointers)))
<1> DEFINE F == AbstractFrames(s)
           G == AbstractFrames(t)
           L == Len(s.vBasePointers)
<1>1. GoodStack(t) /\ t.vBasePointers = s.vBasePointers /\ Base(t) = Base(s)
  BY DEF InFrame, Base
<1>2. /\ F \in Seq(Seq(Values)) /\ Len(F) = L /\ G \in Seq(Seq(Values)) /\ Len(G) = L
      /\ L \in Nat \ {0}
      /\ \A i \in 1 .. L : F[i] = FrameOf(s, i) /\ G[i] = FrameOf(t, i)
  BY <1>1, FramesAre, BasesOf
<1>3. ASSUME NEW i \in 1 .. L - 1
      PROVE  G[i] = F[i]
  <2>1. i \in 1 .. L /\ i # L  BY <1>2
  <2>2. Low(s, i) = Low(t, i) /\ Low(s, i) \in Nat /\ Low(s, i) >= Base(s)
    BY <1>1, <2>1, BasesOf
  <2>3. ASSUME NEW p \in Positions, p >= Low(s, i)
        PROVE  s.aStack[p] = t.aStack[p]
    <3>1. p >= Base(s)
      BY <2>2, <2>3, BaseInArray DEF Positions
    <3> QED BY <3>1 DEF InFrame
  <2>4. FrameOf(s, i) = FrameOf(t, i)
    BY <1>1, <2>1, <2>2, <2>3, SameFrame
  <2> QED BY <1>2, <2>1, <2>4
<1> HIDE DEF F, G
<1>4. G = Append(SubSeq(F, 1, Len(F) - 1), G[Len(F)])
  BY <1>2, <1>3, LastReplaced
<1>5. G[Len(F)] = FrameOf(t, Len(t.vBasePointers))
  BY <1>1, <1>2
<1> QED BY <1>4, <1>5 DEF F, G

(* A push puts the element on top of the newest frame. *)
LEMMA PushedFrame ==
  ASSUME NEW s, GoodStack(s), CanPush(s), NEW v \in Values
  PROVE  LET F == AbstractFrames(s)
         IN AbstractFrames(Pushed(s, v)) = Append(SubSeq(F, 1, Len(F) - 1), <<v>> \o F[Len(F)])
<1> DEFINE t == Pushed(s, v)
           V == AbstractFrames(s)[Len(AbstractFrames(s))]
           W == AbstractFrames(t)[Len(AbstractFrames(t))]
           sp == s.iStackPointer
           n == Base(s) - sp
<1>1. InFrame(s, t) /\ GoodStack(t)  BY PushedInFrame DEF InFrame
<1>2. /\ t.iStackPointer = sp - 1 /\ Base(t) = Base(s)
      /\ t.aStack = [s.aStack EXCEPT ![sp - 1] = v]
      /\ s.aStack \in [Positions -> Values]
  BY DEF Pushed, GoodStack, StackType, Base
<1>3. sp \in Nat \ {0} /\ sp - 1 \in Positions /\ Base(s) \in Nat /\ n \in Nat
      /\ \A k \in 1 .. n : sp + k - 1 \in Positions
  BY BaseInArray DEF CanPush, Positions
<1>4. V \in Seq(Values) /\ Len(V) = n /\ \A k \in 1 .. n : V[k] = s.aStack[sp + k - 1]
  BY <1>1, VisibleIs
<1>5. W \in Seq(Values) /\ Len(W) = Base(t) - t.iStackPointer
      /\ (\A k \in 1 .. Base(t) - t.iStackPointer : W[k] = t.aStack[t.iStackPointer + k - 1])
      /\ W = FrameOf(t, Len(t.vBasePointers))
  <2> HIDE DEF t
  <2> QED BY <1>1, VisibleIs
<1> HIDE DEF V, W, t
<1>6. Len(W) = n + 1 /\ \A k \in 1 .. n + 1 : W[k] = t.aStack[sp - 1 + k - 1]
  BY <1>2, <1>3, <1>5
<1>7. <<v>> \o V \in Seq(Values) /\ Len(<<v>> \o V) = n + 1
      /\ \A k \in 1 .. n + 1 : (<<v>> \o V)[k] = IF k = 1 THEN v ELSE V[k - 1]
  <2>1. <<v>> \in Seq(Values) /\ Len(<<v>>) = 1 /\ <<v>>[1] = v  OBVIOUS
  <2> QED BY <1>3, <1>4, <2>1, ConcatProperties
<1> HIDE DEF n
<1>8. ASSUME NEW k \in 1 .. n + 1
      PROVE  W[k] = (<<v>> \o V)[k]
  <2>1. CASE k = 1
    <3>1. W[k] = t.aStack[sp - 1]  BY <1>3, <1>6, <2>1
    <3> QED BY <1>2, <1>3, <1>7, <2>1, <3>1
  <2>2. CASE k # 1
    <3>1. k - 1 \in 1 .. n  BY <1>3, <2>2
    <3>2. sp - 1 + k - 1 = sp + (k - 1) - 1 /\ sp + (k - 1) - 1 \in Positions /\ sp + (k - 1) - 1 # sp - 1
      BY <1>3, <2>2, <3>1
    <3>3. W[k] = s.aStack[sp + (k - 1) - 1]  BY <1>2, <1>6, <3>2
    <3> QED BY <1>4, <1>7, <2>2, <3>1, <3>3
  <2> QED BY <2>1, <2>2
<1>9. W = <<v>> \o V  BY <1>5, <1>6, <1>7, <1>8, SeqEqual
<1> QED BY <1>1, <1>5, <1>9, NewestReplaced DEF V, t

(* Clearing drops elements off the top of the newest frame. *)
LEMMA ClearedFrame ==
  ASSUME NEW s, GoodStack(s), NEW d \in Nat, CanClear(s, d)
  PROVE  LET F == AbstractFrames(s)
             V == F[Len(F)]
         IN AbstractFrames(Cleared(s, d))
              = Append(SubSeq(F, 1, Len(F) - 1), SubSeq(V, d + 1, Len(V)))
<1> DEFINE t == Cleared(s, d)
           V == AbstractFrames(s)[Len(AbstractFrames(s))]
           W == AbstractFrames(t)[Len(AbstractFrames(t))]
           sp == s.iStackPointer
           n == Base(s) - sp
           U == SubSeq(V, d + 1, n)
<1>1. InFrame(s, t) /\ GoodStack(t)  BY ClearedInFrame DEF InFrame
<1>2. t.iStackPointer = sp + d /\ Base(t) = Base(s) /\ t.aStack = s.aStack
  BY DEF Cleared, GoodStack, StackType, Base
<1>3. sp \in Nat /\ Base(s) \in Nat /\ n \in Nat /\ d <= n
  BY BaseInArray DEF CanClear
<1>4. V \in Seq(Values) /\ Len(V) = n /\ \A k \in 1 .. n : V[k] = s.aStack[sp + k - 1]
  BY <1>1, VisibleIs
<1>5. W \in Seq(Values) /\ Len(W) = Base(t) - t.iStackPointer
      /\ (\A k \in 1 .. Base(t) - t.iStackPointer : W[k] = t.aStack[t.iStackPointer + k - 1])
      /\ W = FrameOf(t, Len(t.vBasePointers))
  <2> HIDE DEF t
  <2> QED BY <1>1, VisibleIs
<1> HIDE DEF V, W, t
<1>6. Len(W) = n - d /\ \A k \in 1 .. n - d : W[k] = s.aStack[sp + d + k - 1]
  BY <1>2, <1>3, <1>5
<1> HIDE DEF n
<1>7. U \in Seq(Values) /\ Len(U) = n - d /\ \A k \in 1 .. n - d : U[k] = V[d + k]
  <2>1. \A k \in d + 1 .. n : V[k] \in Values  BY <1>3, <1>4, ElementOfSeq
  <2>2. /\ U \in Seq(Values)
        /\ Len(U) = IF d + 1 <= n THEN n - (d + 1) + 1 ELSE 0
        /\ \A k \in 1 .. n - (d + 1) + 1 : U[k] = V[(d + 1) + k - 1]
    BY ONLY <1>3, <2>1, SubSeqProperties, d \in Nat, d + 1 \in Int, n \in Int
  <2> HIDE DEF U
  <2>3. \A k \in 1 .. n - d : (d + 1) + k - 1 = d + k /\ k \in 1 .. n - (d + 1) + 1
    BY <1>3
  <2> QED BY <1>3, <2>2, <2>3
<1> HIDE DEF U
<1>8. ASSUME NEW k \in 1 .. n - d
      PROVE  W[k] = U[k]
  <2>1. d + k \in 1 .. n /\ sp + (d + k) - 1 = sp + d + k - 1  BY <1>3
  <2> QED BY <1>4, <1>6, <1>7, <2>1
<1>9. W = U  BY <1>5, <1>6, <1>7, <1>8, SeqEqual
<1> QED BY <1>1, <1>4, <1>5, <1>9, NewestReplaced DEF V, t, U

(* Assigning replaces one element of the newest frame. *)
LEMMA StoredFrame ==
  ASSUME NEW s, GoodStack(s), NEW i \in Nat, Access(s, TopPos(s, i)) = Done, NEW v \in Values
  PROVE  LET F == AbstractFrames(s)
         IN AbstractFrames(Stored(s, TopPos(s, i), v))
              = Append(SubSeq(F, 1, Len(F) - 1), [F[Len(F)] EXCEPT ![i + 1] = v])
<1> DEFINE p == TopPos(s, i)
           t == Stored(s, p, v)
           V == AbstractFrames(s)[Len(AbstractFrames(s))]
           W == AbstractFrames(t)[Len(AbstractFrames(t))]
           sp == s.iStackPointer
           n == Base(s) - sp
           U == [V EXCEPT ![i + 1] = v]
<1>1. InFrame(s, t) /\ GoodStack(t)  BY StoredInFrame DEF InFrame
<1>2. /\ t.iStackPointer = sp /\ Base(t) = Base(s)
      /\ t.aStack = [s.aStack EXCEPT ![p] = v]
      /\ s.aStack \in [Positions -> Values]
  BY DEF Stored, GoodStack, StackType, Base
<1>3. sp \in Nat /\ Base(s) \in Nat /\ n \in Nat /\ p = sp + i /\ p \in Positions /\ i + 1 \in 1 .. n
      /\ \A k \in 1 .. n : sp + k - 1 \in Positions
  <2>1. p \in Positions /\ p < Base(s) /\ p = sp + i  BY AccessInArray DEF TopPos
  <2> QED BY <2>1, BaseInArray DEF Positions
<1>4. V \in Seq(Values) /\ Len(V) = n /\ \A k \in 1 .. n : V[k] = s.aStack[sp + k - 1]
  BY <1>1, VisibleIs
<1>5. W \in Seq(Values) /\ Len(W) = Base(t) - t.iStackPointer
      /\ (\A k \in 1 .. Base(t) - t.iStackPointer : W[k] = t.aStack[t.iStackPointer + k - 1])
      /\ W = FrameOf(t, Len(t.vBasePointers))
  <2> HIDE DEF t
  <2> QED BY <1>1, VisibleIs
<1> HIDE DEF V, W, t, p
<1>6. Len(W) = n /\ \A k \in 1 .. n : W[k] = t.aStack[sp + k - 1]
  BY <1>2, <1>3, <1>5
<1> HIDE DEF n
<1>7. U \in Seq(Values) /\ Len(U) = n /\ \A k \in 1 .. n : U[k] = IF k = i + 1 THEN v ELSE V[k]
  BY <1>3, <1>4, ExceptSeq
<1> HIDE DEF U
<1>8. ASSUME NEW k \in 1 .. n
      PROVE  W[k] = U[k]
  <2>1. sp + k - 1 \in Positions  BY <1>3
  <2>2. CASE k = i + 1
    <3>1. sp + k - 1 = p  BY <1>3, <2>2
    <3> QED BY <1>2, <1>6, <1>7, <2>1, <2>2, <3>1
  <2>3. CASE k # i + 1
    <3>1. sp + k - 1 # p  BY <1>3, <2>3
    <3> QED BY <1>2, <1>4, <1>6, <1>7, <2>1, <2>3, <3>1
  <2> QED BY <2>2, <2>3
<1>9. W = U  BY <1>5, <1>6, <1>7, <1>8, SeqEqual
<1> QED BY <1>1, <1>5, <1>9, NewestReplaced DEF V, t, U, p

(* SaveBasePointer cuts the newest frame in two. *)
LEMMA SavedFrames ==
  ASSUME NEW s, GoodStack(s), NEW d \in Nat, d <= Base(s) - s.iStackPointer
  PROVE  LET F == AbstractFrames(s)
             V == F[Len(F)]
         IN AbstractFrames(BaseSaved(s, d))
              = SubSeq(F, 1, Len(F) - 1) \o << SubSeq(V, d + 1, Len(V)), SubSeq(V, 1, d) >>
<1> DEFINE t == BaseSaved(s, d)
           F == AbstractFrames(s)
           G == AbstractFrames(t)
           V == F[Len(F)]
           L == Len(s.vBasePointers)
           bp == s.vBasePointers
           sp == s.iStackPointer
           n == Base(s) - sp
           A == SubSeq(V, d + 1, n)
           B == SubSeq(V, 1, d)
           H == SubSeq(F, 1, L - 1)
<1>1. GoodStack(t)  BY SavedGood
<1>2. t.vBasePointers = Append(bp, sp + d) /\ t.iStackPointer = sp /\ t.aStack = s.aStack
  BY DEF BaseSaved, GoodStack, StackType
<1>3. /\ L \in Nat \ {0} /\ sp \in Nat /\ n \in Nat /\ d <= n /\ Base(s) = bp[L]
      /\ bp \in Seq(0 .. iMaxStackSize) /\ bp[L] \in Nat
  BY BasesOf, BaseInArray DEF GoodStack, StackType
<1>4. /\ F \in Seq(Seq(Values)) /\ Len(F) = L
      /\ \A i \in 1 .. L : F[i] = FrameOf(s, i)
  BY FramesAre
<1>5. V \in Seq(Values) /\ Len(V) = n /\ \A k \in 1 .. n : V[k] = s.aStack[sp + k - 1]
  BY VisibleIs
<1> HIDE DEF V, t
<1>6. /\ Len(t.vBasePointers) = L + 1
      /\ t.vBasePointers[L + 1] = sp + d
      /\ \A i \in 1 .. L : t.vBasePointers[i] = bp[i]
  BY <1>2, <1>3
<1>7. /\ G \in Seq(Seq(Values)) /\ Len(G) = L + 1
      /\ \A i \in 1 .. L + 1 : G[i] = FrameOf(t, i)
  BY <1>1, <1>6, FramesAre
<1> HIDE DEF F, G
<1>8. Low(t, L + 1) = sp /\ Low(t, L) = sp + d
  BY <1>2, <1>3, <1>6 DEF Low
<1>9. /\ A \in Seq(Values) /\ Len(A) = n - d /\ \A k \in 1 .. n - d : A[k] = V[d + k]
      /\ B \in Seq(Values) /\ Len(B) = d /\ \A k \in 1 .. d : B[k] = V[k]
  <2> HIDE DEF n
  <2>1. \A k \in 1 .. n : V[k] \in Values  BY <1>5, ElementOfSeq
  <2>2. (\A k \in d + 1 .. n : V[k] \in Values) /\ (\A k \in 1 .. d : V[k] \in Values)
    BY <1>3, <2>1
  <2>3. /\ A \in Seq(Values)
        /\ Len(A) = IF d + 1 <= n THEN n - (d + 1) + 1 ELSE 0
        /\ \A k \in 1 .. n - (d + 1) + 1 : A[k] = V[(d + 1) + k - 1]
    BY ONLY <1>3, <2>2, SubSeqProperties, d \in Nat, d + 1 \in Int, n \in Int
  <2>4. /\ B \in Seq(Values)
        /\ Len(B) = IF 1 <= d THEN d - 1 + 1 ELSE 0
        /\ \A k \in 1 .. d - 1 + 1 : B[k] = V[1 + k - 1]
    BY ONLY <2>2, SubSeqProperties, d \in Int, 1 \in Int
  <2> HIDE DEF A, B
  <2>5. \A k \in 1 .. n - d : (d + 1) + k - 1 = d + k /\ k \in 1 .. n - (d + 1) + 1
    BY <1>3
  <2>6. \A k \in 1 .. d : 1 + k - 1 = k /\ k \in 1 .. d - 1 + 1
    OBVIOUS
  <2>7. Len(A) = n - d /\ \A k \in 1 .. n - d : A[k] = V[d + k]
    BY <1>3, <2>3, <2>5
  <2>8. Len(B) = d  BY <2>4
  <2>9. \A k \in 1 .. d : B[k] = V[k]
    BY <2>4, <2>6
  <2> QED BY <2>3, <2>4, <2>7, <2>8, <2>9
<1> HIDE DEF A, B
<1>10. FrameOf(t, L) = A
  <2>1. L \in 1 .. L + 1  BY <1>3
  <2>2. LET m == t.vBasePointers[L] - Low(t, L)
        IN FrameOf(t, L) \in Seq(Values) /\ Len(FrameOf(t, L)) = m
           /\ FrameOf(t, L) = [k \in 1 .. m |-> t.aStack[Low(t, L) + k - 1]]
    <3> DEFINE i == L
    <3>1. i \in 1 .. Len(t.vBasePointers)  BY <1>6, <2>1
    <3> HIDE DEF i, L
    <3>2. LET m == t.vBasePointers[i] - Low(t, i)
          IN FrameOf(t, i) \in Seq(Values) /\ Len(FrameOf(t, i)) = m
             /\ FrameOf(t, i) = [k \in 1 .. m |-> t.aStack[Low(t, i) + k - 1]]
      BY <1>1, <3>1, FrameIs
    <3> QED BY <3>2 DEF i
  <2>3. t.vBasePointers[L] - Low(t, L) = n - d
    <3>1. t.vBasePointers[L] = Base(s) /\ Base(s) \in Nat
      <4>1. L \in 1 .. L  BY <1>3
      <4> HIDE DEF L
      <4> QED BY <1>3, <1>6, <4>1
    <3> HIDE DEF L
    <3> QED BY <1>3, <1>8, <3>1
  <2> HIDE DEF n
  <2>4. ASSUME NEW k \in 1 .. n - d
        PROVE  FrameOf(t, L)[k] = A[k]
    <3>1. d + k \in 1 .. n /\ sp + d + k - 1 = sp + (d + k) - 1  BY <1>3
    <3>2. FrameOf(t, L)[k] = t.aStack[sp + d + k - 1]  BY <1>8, <2>2, <2>3
    <3> QED BY <1>2, <1>5, <1>9, <3>1, <3>2
  <2> QED BY <1>9, <2>2, <2>3, <2>4, SeqEqual
<1>11. FrameOf(t, L + 1) = B
  <2>1. L + 1 \in 1 .. L + 1  BY <1>3
  <2>2. LET m == t.vBasePointers[L + 1] - Low(t, L + 1)
        IN FrameOf(t, L + 1) \in Seq(Values) /\ Len(FrameOf(t, L + 1)) = m
           /\ FrameOf(t, L + 1) = [k \in 1 .. m |-> t.aStack[Low(t, L + 1) + k - 1]]
    <3> DEFINE i == L + 1
    <3>1. i \in 1 .. Len(t.vBasePointers)  BY <1>6, <2>1
    <3> HIDE DEF i, L
    <3>2. LET m == t.vBasePointers[i] - Low(t, i)
          IN FrameOf(t, i) \in Seq(Values) /\ Len(FrameOf(t, i)) = m
             /\ FrameOf(t, i) = [k \in 1 .. m |-> t.aStack[Low(t, i) + k - 1]]
      BY <1>1, <3>1, FrameIs
    <3> QED BY <3>2 DEF i
  <2>3. t.vBasePointers[L + 1] - Low(t, L + 1) = d  BY <1>3, <1>6, <1>8
  <2> HIDE DEF n
  <2>4. ASSUME NEW k \in 1 .. d
        PROVE  FrameOf(t, L + 1)[k] = B[k]
    <3>1. k \in 1 .. n  BY <1>3
    <3>2. FrameOf(t, L + 1)[k] = t.aStack[sp + k - 1]  BY <1>8, <2>2, <2>3
    <3> QED BY <1>2, <1>5, <1>9, <3>1, <3>2
  <2> QED BY <1>9, <2>2, <2>3, <2>4, SeqEqual
<1>12. ASSUME NEW i \in 1 .. L - 1
       PROVE  G[i] = F[i]
  <2>1. i \in 1 .. L /\ i \in 1 .. L + 1 /\ i # L /\ i # L + 1 /\ i + 1 \in 1 .. L  BY <1>3
  <2>2. Low(s, i) = bp[i + 1] /\ Low(t, i) = bp[i + 1]
    BY <1>6, <2>1 DEF Low
  <2>3. FrameOf(s, i) = FrameOf(t, i)
    BY <1>1, <1>2, <1>6, <2>1, <2>2, SameFrame
  <2> QED BY <1>4, <1>7, <2>1, <2>3
<1>13. H \in Seq(Seq(Values)) /\ Len(H) = L - 1 /\ \A i \in 1 .. L - 1 : H[i] = F[i]
  <2>1. \A i \in 1 .. L - 1 : F[i] \in Seq(Values)
    <3>1. \A i \in 1 .. L - 1 : i \in 1 .. L  BY <1>3
    <3> QED BY <1>4, <3>1, ElementOfSeq
  <2> QED BY <1>3, <2>1, SubSeqProperties
<1> DEFINE T == <<A, B>>
<1>14. T \in Seq(Seq(Values)) /\ Len(T) = 2 /\ T[1] = A /\ T[2] = B
  BY <1>9
<1> HIDE DEF H, T
<1>15. H \o T \in Seq(Seq(Values)) /\ Len(H \o T) = Len(H) + Len(T)
       /\ \A i \in 1 .. Len(H) + Len(T) : (H \o T)[i] = IF i <= Len(H) THEN H[i] ELSE T[i - Len(H)]
  BY ONLY <1>13, <1>14, ConcatProperties
<1>16. ASSUME NEW i \in 1 .. L + 1
       PROVE  G[i] = (H \o T)[i]
  <2>1. i \in 1 .. L - 1 \/ i = L \/ i = L + 1  BY <1>3
  <2>2. i \in 1 .. Len(H) + Len(T)  BY <1>3, <1>13, <1>14
  <2>3. CASE i \in 1 .. L - 1
    BY <1>12, <1>13, <1>15, <2>2, <2>3
  <2>4. CASE i = L
    <3>1. i - Len(H) = 1 /\ ~(i <= Len(H))  BY <1>3, <1>13, <2>4
    <3> QED BY <1>7, <1>10, <1>14, <1>15, <2>2, <2>4, <3>1
  <2>5. CASE i = L + 1
    <3>1. i - Len(H) = 2 /\ ~(i <= Len(H))  BY <1>3, <1>13, <2>5
    <3> QED BY <1>7, <1>11, <1>14, <1>15, <2>2, <2>5, <3>1
  <2> QED BY <2>1, <2>3, <2>4, <2>5
<1>17. G = H \o T
  <2>1. Len(H \o T) = L + 1  BY <1>3, <1>13, <1>14, <1>15
  <2> QED BY <1>7, <1>15, <1>16, <2>1, SeqEqual
<1> QED BY <1>4, <1>5, <1>17 DEF G, H, T, F, V, A, B, t

(* RestoreBasePointer gives the newest frame back to the one below. *)
LEMMA RestoredFrames ==
  ASSUME NEW s, GoodStack(s), Len(s.vBasePointers) > 1
  PROVE  LET F == AbstractFrames(s)
         IN AbstractFrames(BaseRestored(s))
              = Append(SubSeq(F, 1, Len(F) - 2), F[Len(F)] \o F[Len(F) - 1])
<1> DEFINE t == BaseRestored(s)
           F == AbstractFrames(s)
           G == AbstractFrames(t)
           L == Len(s.vBasePointers)
           bp == s.vBasePointers
           sp == s.iStackPointer
           V == F[L]
           U == F[L - 1]
           n == bp[L] - sp
           m == bp[L - 1] - bp[L]
           H == SubSeq(F, 1, L - 2)
<1>1. GoodStack(t)  BY RestoredGood
<1>2. t.vBasePointers = SubSeq(bp, 1, L - 1) /\ t.iStackPointer = sp /\ t.aStack = s.aStack
  BY DEF BaseRestored, GoodStack, StackType
<1>3. /\ L \in Nat /\ L > 1 /\ L \in 1 .. L /\ L - 1 \in 1 .. L /\ L - 1 # L /\ (L - 1) + 1 = L
  BY BasesOf
<1>4. /\ sp \in Nat /\ bp[L] \in Nat /\ bp[L - 1] \in Nat /\ n \in Nat /\ m \in Nat
      /\ Low(s, L) = sp /\ Low(s, L - 1) = bp[L] /\ bp[L] = Base(s)
  <2>1. sp \in Nat /\ sp <= Base(s) /\ Base(s) \in Nat  BY BaseInArray
  <2>2. bp[L] = Base(s) /\ Low(s, L) = sp  BY BasesOf
  <2>3. bp[L - 1] \in Nat /\ Low(s, L - 1) = bp[L] /\ Low(s, L - 1) <= bp[L - 1]
    <3> DEFINE i == L - 1
    <3>1. i \in 1 .. L /\ i # L /\ i + 1 = L  BY <1>3
    <3> HIDE DEF i
    <3>2. bp[i] \in Nat /\ Low(s, i) = bp[i + 1] /\ Low(s, i) <= bp[i]
      BY <3>1, BasesOf
    <3> QED BY <3>1, <3>2 DEF i
  <2> QED BY <2>1, <2>2, <2>3
<1>5. /\ F \in Seq(Seq(Values)) /\ Len(F) = L
      /\ \A i \in 1 .. L : F[i] = FrameOf(s, i)
  BY FramesAre
<1>6. /\ Len(t.vBasePointers) = L - 1
      /\ \A i \in 1 .. L - 1 : t.vBasePointers[i] = bp[i]
  <2>1. bp \in Seq(0 .. iMaxStackSize)  BY DEF GoodStack, StackType
  <2>2. \A i \in 1 .. L - 1 : bp[i] \in 0 .. iMaxStackSize
    <3>1. \A i \in 1 .. L - 1 : i \in 1 .. L  BY <1>3
    <3> QED BY <2>1, <3>1, ElementOfSeq
  <2>3. /\ Len(SubSeq(bp, 1, L - 1)) = IF 1 <= L - 1 THEN (L - 1) - 1 + 1 ELSE 0
        /\ \A i \in 1 .. (L - 1) - 1 + 1 : SubSeq(bp, 1, L - 1)[i] = bp[1 + i - 1]
    BY <1>3, <2>2, SubSeqProperties
  <2>4. \A i \in 1 .. L - 1 : 1 + i - 1 = i /\ i \in 1 .. (L - 1) - 1 + 1  BY <1>3
  <2> HIDE DEF bp, L, t
  <2> QED BY <1>2, <1>3, <2>3, <2>4
<1> HIDE DEF t
<1>7. /\ G \in Seq(Seq(Values)) /\ Len(G) = L - 1
      /\ \A i \in 1 .. L - 1 : G[i] = FrameOf(t, i)
  BY <1>1, <1>6, FramesAre
<1>8. Low(t, L - 1) = sp  BY <1>2, <1>6 DEF Low
<1> HIDE DEF F, G
<1>9. /\ V \in Seq(Values) /\ Len(V) = n /\ \A k \in 1 .. n : V[k] = s.aStack[sp + k - 1]
  <2>1. LET q == s.vBasePointers[L] - Low(s, L)
        IN FrameOf(s, L) \in Seq(Values) /\ Len(FrameOf(s, L)) = q
           /\ FrameOf(s, L) = [k \in 1 .. q |-> s.aStack[Low(s, L) + k - 1]]
    BY <1>3, FrameIs
  <2>2. V = FrameOf(s, L)  BY <1>3, <1>5
  <2> HIDE DEF V
  <2> QED BY <1>4, <2>1, <2>2
<1>10. /\ U \in Seq(Values) /\ Len(U) = m /\ \A k \in 1 .. m : U[k] = s.aStack[bp[L] + k - 1]
  <2> DEFINE i == L - 1
  <2>0. i \in 1 .. L  BY <1>3
  <2>1. LET q == s.vBasePointers[i] - Low(s, i)
        IN FrameOf(s, i) \in Seq(Values) /\ Len(FrameOf(s, i)) = q
           /\ FrameOf(s, i) = [k \in 1 .. q |-> s.aStack[Low(s, i) + k - 1]]
    <3> HIDE DEF i
    <3> QED BY <2>0, FrameIs
  <2>2. U = FrameOf(s, i)  BY <1>3, <1>5
  <2>3. Low(s, i) = bp[L] /\ s.vBasePointers[i] - Low(s, i) = m  BY <1>4
  <2> HIDE DEF U, i, m
  <2> QED BY <2>1, <2>2, <2>3
<1> DEFINE W == V \o U
<1> HIDE DEF V, U
<1>11. W \in Seq(Values) /\ Len(W) = n + m
       /\ \A k \in 1 .. n + m : W[k] = IF k <= n THEN V[k] ELSE U[k - n]
  <2> HIDE DEF n, m
  <2>1. /\ V \o U \in Seq(Values) /\ Len(V \o U) = Len(V) + Len(U)
        /\ \A k \in 1 .. Len(V) + Len(U) : (V \o U)[k] = IF k <= Len(V) THEN V[k] ELSE U[k - Len(V)]
    BY ONLY <1>9, <1>10, ConcatProperties
  <2> QED BY <1>9, <1>10, <2>1
<1> HIDE DEF W
<1>12. FrameOf(t, L - 1) = W
  <2> DEFINE i == L - 1
  <2>0. i \in 1 .. Len(t.vBasePointers)  BY <1>3, <1>6
  <2>1. LET q == t.vBasePointers[i] - Low(t, i)
        IN FrameOf(t, i) \in Seq(Values) /\ Len(FrameOf(t, i)) = q
           /\ FrameOf(t, i) = [k \in 1 .. q |-> t.aStack[Low(t, i) + k - 1]]
    <3> HIDE DEF i
    <3> QED BY <1>1, <2>0, FrameIs
  <2>2. t.vBasePointers[i] - Low(t, i) = n + m /\ Low(t, i) = sp
    <3>1. t.vBasePointers[i] = bp[i]
      <4>1. i \in 1 .. L - 1  BY <1>3
      <4> HIDE DEF i, L
      <4> QED BY <1>6, <4>1
    <3> HIDE DEF bp, L
    <3> QED BY <1>4, <1>8, <3>1
  <2>3. ASSUME NEW k \in 1 .. n + m
        PROVE  FrameOf(t, i)[k] = W[k]
    <3>1. FrameOf(t, i)[k] = s.aStack[sp + k - 1]
      <4> HIDE DEF n, m, i
      <4> QED BY <1>2, <2>1, <2>2
    <3>2. CASE k <= n
      <4>1. k \in 1 .. n  BY <1>4, <3>2
      <4> HIDE DEF n, m, i
      <4> QED BY <1>9, <1>11, <3>1, <3>2, <4>1
    <3>3. CASE ~(k <= n)
      <4>1. k - n \in 1 .. m
        <5> HIDE DEF n, m
        <5> QED BY <1>4, <3>3
      <4>4. bp[L] + (k - n) - 1 = sp + k - 1
        <5> HIDE DEF bp, L
        <5> QED BY <1>4
      <4> HIDE DEF n, m, i
      <4> QED BY <1>10, <1>11, <3>1, <3>3, <4>1, <4>4
    <3> QED BY <3>2, <3>3
  <2> HIDE DEF i, n, m
  <2>4. FrameOf(t, i) = W
    BY <1>11, <2>1, <2>2, <2>3, SeqEqual
  <2> QED BY <2>4 DEF i
<1>13. ASSUME NEW i \in 1 .. L - 2
       PROVE  G[i] = F[i]
  <2>1. i \in 1 .. L /\ i \in 1 .. L - 1 /\ i # L /\ i # L - 1 /\ i + 1 \in 1 .. L - 1  BY <1>3
  <2>2. Low(s, i) = bp[i + 1] /\ Low(t, i) = bp[i + 1]
    BY <1>6, <2>1 DEF Low
  <2>3. FrameOf(s, i) = FrameOf(t, i)
    BY <1>1, <1>2, <1>6, <2>1, <2>2, SameFrame
  <2> QED BY <1>5, <1>7, <2>1, <2>3
<1> DEFINE K == L - 1
<1>14. K \in Nat \ {0} /\ L - 2 = K - 1
  <2> HIDE DEF L
  <2> QED BY <1>3
<1> DEFINE F1 == SubSeq(F, 1, K)
<1>15. F1 \in Seq(Seq(Values)) /\ Len(F1) = K /\ \A i \in 1 .. K : F1[i] = F[i]
  <2>1. \A i \in 1 .. K : F[i] \in Seq(Values)
    <3>1. \A i \in 1 .. K : i \in 1 .. L  BY <1>3
    <3> QED BY <1>5, <3>1, ElementOfSeq
  <2> QED BY <1>14, <2>1, SubSeqProperties
<1>16. SubSeq(F1, 1, K - 1) = H
  <2>1. H \in Seq(Seq(Values)) /\ Len(H) = K - 1 /\ \A i \in 1 .. K - 1 : H[i] = F[i]
    <3>1. \A i \in 1 .. K - 1 : F[i] \in Seq(Values)
      <4>1. \A i \in 1 .. K - 1 : i \in 1 .. L  BY <1>3
      <4> QED BY <1>5, <4>1, ElementOfSeq
    <3> QED BY <1>14, <3>1, SubSeqProperties
  <2>2. SubSeq(F1, 1, K - 1) \in Seq(Seq(Values)) /\ Len(SubSeq(F1, 1, K - 1)) = K - 1
        /\ \A i \in 1 .. K - 1 : SubSeq(F1, 1, K - 1)[i] = F1[i]
    <3> HIDE DEF F1
    <3>1. \A i \in 1 .. K - 1 : F1[i] \in Seq(Values)
      <4>1. \A i \in 1 .. K - 1 : i \in 1 .. Len(F1)  BY <1>14, <1>15
      <4> QED BY <1>15, <4>1, ElementOfSeq
    <3> QED BY <1>14, <3>1, SubSeqProperties
  <2> HIDE DEF F1, H
  <2>3. \A i \in 1 .. K - 1 : i \in 1 .. K  BY <1>14
  <2> HIDE DEF K
  <2> QED BY <1>15, <2>1, <2>2, <2>3, SeqEqual
<1>17. G = Append(SubSeq(F1, 1, K - 1), G[K])
  <2>1. \A i \in 1 .. K - 1 : i \in 1 .. L - 2 /\ i \in 1 .. K  BY <1>14
  <2>2. Len(G) = K  BY <1>7
  <2> HIDE DEF F1, K, H
  <2> QED BY <1>7, <1>13, <1>14, <1>15, <2>1, <2>2, LastReplaced
<1>18. G[K] = W  BY <1>3, <1>7, <1>12
<1> QED BY <1>5, <1>16, <1>17, <1>18 DEF G, H, F, V, U, W, K, t

(* An array without elements is one frame without elements. *)
LEMMA CleanFrames ==
  ASSUME NEW s, GoodStack(s), s.vBasePointers = <<iMaxStackSize>>, s.iStackPointer = iMaxStackSize
  PROVE  AbstractFrames(s) = << <<>> >>
<1>1. iMaxStackSize \in Nat  BY MaxStackSizeAssumption
<1>2. Len(s.vBasePointers) = 1 /\ Base(s) = iMaxStackSize  BY DEF Base
<1>3. AbstractFrames(s) \in Seq(Seq(Values)) /\ Len(AbstractFrames(s)) = 1
  BY <1>2, FramesAre
<1>4. AbstractFrames(s)[1] \in Seq(Values) /\ Len(AbstractFrames(s)[1]) = 0
  <2>1. LET F == AbstractFrames(s)
        IN F[Len(F)] \in Seq(Values) /\ Len(F[Len(F)]) = Base(s) - s.iStackPointer
    BY VisibleIs
  <2> QED BY <1>1, <1>2, <1>3, <2>1
<1>5. AbstractFrames(s)[1] = <<>>  BY <1>4, EmptySeq
<1> QED BY <1>3, <1>5

(* Every call of the stack is a step of the stack of frames, and refused   *)
(* where that one refuses.                                                 *)
THEOREM ArgStackImplementsFrameStack == Spec => ImplementsFrameStack
<1> USE DEF Abs!SetVisible, Abs!Hidden, Abs!Visible, Abs!Refuse
<1>1. Init => Abs!Init
  <2>1. AbstractFrames(EmptyStack) = << <<>> >>
    BY EmptyGood, CleanFrames DEF EmptyStack
  <2> QED BY <2>1 DEF Init, Abs!Init
<1>2. IInv /\ [Next]_vars => [Abs!Next]_(Abs!fvars)
  <2> SUFFICES ASSUME GoodStack(oVMArgStack), [Next]_vars
               PROVE  Abs!Next \/ UNCHANGED Abs!fvars
    BY InvIsGood
  <2> USE DEF Return, Throw
  <2> DEFINE s == oVMArgStack
             F == AbstractFrames(s)
             V == F[Len(F)]
             n == Base(s) - s.iStackPointer
  <2>0. /\ n \in Nat /\ Len(V) = n /\ Base(s) \in Nat /\ s.iStackPointer \in Nat /\ iMaxStackSize \in Nat
        /\ \A k \in 1 .. n : V[k] = s.aStack[s.iStackPointer + k - 1]
        /\ Abs!Total(F) = iMaxStackSize - s.iStackPointer
        /\ n <= iMaxStackSize
    BY VisibleIs, BaseInArray, TotalIs
  <2>1. ASSUME NEW v \in Values, PushElement(v)
        PROVE  Abs!Push(v)
    <3>1. CASE CanPush(s)
      <4>1. oVMArgStack' = Pushed(s, v) /\ outcome' = Done  BY <2>1, <3>1 DEF PushElement
      <4>2. AbstractFrames(oVMArgStack') = Append(SubSeq(F, 1, Len(F) - 1), <<v>> \o V)
        BY <3>1, <4>1, PushedFrame
      <4>3. Abs!Total(F) < iMaxStackSize
        <5> HIDE DEF F
        <5> QED BY <2>0, <3>1 DEF CanPush
      <4> QED BY <4>1, <4>2, <4>3 DEF Abs!Push
    <3>2. CASE ~CanPush(s)
      <4>1. oVMArgStack' = s /\ outcome' = Overflow  BY <2>1, <3>2 DEF PushElement
      <4>2. Abs!Total(F) = iMaxStackSize
        <5> HIDE DEF F
        <5> QED BY <2>0, <3>2 DEF CanPush
      <4> QED BY <4>1, <4>2 DEF Abs!Push
    <3> QED BY <3>1, <3>2
  <2>2. ASSUME PopElement
        PROVE  Abs!Drop(1)
    <3>1. CASE CanPop(s)
      <4>1. oVMArgStack' = Popped(s) /\ outcome' = Done  BY <2>2, <3>1 DEF PopElement
      <4>2. Popped(s) = Cleared(s, 1) /\ CanClear(s, 1)
        BY <3>1, BaseInArray DEF Popped, Cleared, CanPop, CanClear
      <4>3. AbstractFrames(oVMArgStack') = Append(SubSeq(F, 1, Len(F) - 1), SubSeq(V, 1 + 1, Len(V)))
        BY <4>1, <4>2, ClearedFrame
      <4>4. 1 <= Len(V)
        <5> HIDE DEF V
        <5> QED BY <2>0, <3>1 DEF CanPop
      <4> QED BY <4>1, <4>3, <4>4 DEF Abs!Drop
    <3>2. CASE ~CanPop(s)
      <4>1. oVMArgStack' = s /\ outcome' = Underflow  BY <2>2, <3>2 DEF PopElement
      <4>2. 1 > Len(V)
        <5> HIDE DEF V
        <5> QED BY <2>0, <3>2 DEF CanPop
      <4> QED BY <4>1, <4>2 DEF Abs!Drop
    <3> QED BY <3>1, <3>2
  <2>3. ASSUME NEW i \in 0 .. iMaxStackSize
        PROVE  /\ Access(s, TopPos(s, i)) = Done =>
                    i < Len(V) /\ V[i + 1] = s.aStack[TopPos(s, i)]
               /\ Access(s, TopPos(s, i)) # Done =>
                    i >= Len(V) /\ Access(s, TopPos(s, i)) = Underflow
    <3> HIDE DEF V
    <3>1. TopPos(s, i) = s.iStackPointer + i /\ i \in Nat /\ ~(s.iStackPointer + i < s.iStackPointer)
      BY <2>0 DEF TopPos
    <3>2. CASE i >= n
      <4>1. TopPos(s, i) >= Base(s)  BY <2>0, <3>1, <3>2
      <4>2. Access(s, TopPos(s, i)) = Underflow  BY <4>1 DEF Access
      <4> QED BY <2>0, <3>2, <4>2, OutcomeAssumption
    <3>3. CASE i < n
      <4>1. ~(TopPos(s, i) >= Base(s))  BY <2>0, <3>1, <3>3
      <4>2. Access(s, TopPos(s, i)) = Done  BY <3>1, <4>1 DEF Access
      <4>3. i + 1 \in 1 .. n /\ s.iStackPointer + (i + 1) - 1 = s.iStackPointer + i
        BY <2>0, <3>1, <3>3
      <4>4. V[i + 1] = s.aStack[s.iStackPointer + (i + 1) - 1]
        <5> HIDE DEF n
        <5> QED BY <2>0, <4>3
      <4> QED BY <2>0, <3>1, <3>3, <4>2, <4>3, <4>4
    <3> QED BY <2>0, <3>1, <3>2, <3>3
  <2>4. ASSUME NEW i \in 0 .. iMaxStackSize, GetTopElement(i)
        PROVE  Abs!Read(i)
    <3>1. CASE Access(s, TopPos(s, i)) = Done
      <4>1. oVMArgStack' = s /\ outcome' = s.aStack[TopPos(s, i)]
        BY <2>4, <3>1 DEF GetTopElement, GetElement
      <4> QED BY <2>3, <3>1, <4>1 DEF Abs!Read
    <3>2. CASE Access(s, TopPos(s, i)) # Done
      <4>1. oVMArgStack' = s /\ outcome' = Access(s, TopPos(s, i))
        BY <2>4, <3>2 DEF GetTopElement, GetElement
      <4> QED BY <2>3, <3>2, <4>1 DEF Abs!Read
    <3> QED BY <3>1, <3>2
  <2>5. ASSUME NEW i \in 0 .. iMaxStackSize, NEW v \in Values, AssignTopElement(i, v)
        PROVE  Abs!Write(i, v)
    <3>1. CASE Access(s, TopPos(s, i)) = Done
      <4>1. oVMArgStack' = Stored(s, TopPos(s, i), v) /\ outcome' = Done
        BY <2>5, <3>1 DEF AssignTopElement
      <4>2. i \in Nat  OBVIOUS
      <4>3. AbstractFrames(oVMArgStack') = Append(SubSeq(F, 1, Len(F) - 1), [V EXCEPT ![i + 1] = v])
        BY <3>1, <4>1, <4>2, StoredFrame
      <4> QED BY <2>3, <3>1, <4>1, <4>3 DEF Abs!Write
    <3>2. CASE Access(s, TopPos(s, i)) # Done
      <4>1. oVMArgStack' = s /\ outcome' = Access(s, TopPos(s, i))
        BY <2>5, <3>2 DEF AssignTopElement
      <4> QED BY <2>3, <3>2, <4>1 DEF Abs!Write
    <3> QED BY <3>1, <3>2
  <2>6. ASSUME NEW d \in 0 .. iMaxStackSize + 1, ClearStack(d)
        PROVE  Abs!Drop(d)
    <3>1. CASE CanClear(s, d)
      <4>1. oVMArgStack' = Cleared(s, d) /\ outcome' = Done  BY <2>6, <3>1 DEF ClearStack
      <4>2. d \in Nat  OBVIOUS
      <4>3. AbstractFrames(oVMArgStack') = Append(SubSeq(F, 1, Len(F) - 1), SubSeq(V, d + 1, Len(V)))
        BY <3>1, <4>1, <4>2, ClearedFrame
      <4>4. d <= Len(V)
        <5> HIDE DEF V
        <5> QED BY <2>0, <3>1, <4>2 DEF CanClear
      <4> QED BY <4>1, <4>3, <4>4 DEF Abs!Drop
    <3>2. CASE ~CanClear(s, d)
      <4>1. oVMArgStack' = s /\ outcome' = Underflow  BY <2>6, <3>2 DEF ClearStack
      <4>2. d \in Nat  OBVIOUS
      <4>3. d > Len(V)
        <5> HIDE DEF V
        <5> QED BY <2>0, <3>2, <4>2 DEF CanClear
      <4> QED BY <4>1, <4>3 DEF Abs!Drop
    <3> QED BY <3>1, <3>2
  <2>7. ASSUME NEW d \in 0 .. iMaxStackSize, SaveBasePointer(d)
        PROVE  Abs!Enter(d)
    <3>1. oVMArgStack' = BaseSaved(s, d) /\ outcome' = Done /\ d <= n  BY <2>7 DEF SaveBasePointer
    <3>2. d \in Nat  OBVIOUS
    <3>3. AbstractFrames(oVMArgStack')
            = SubSeq(F, 1, Len(F) - 1) \o << SubSeq(V, d + 1, Len(V)), SubSeq(V, 1, d) >>
      BY <3>1, <3>2, SavedFrames
    <3>4. d <= Len(V)
      <4> HIDE DEF V
      <4> QED BY <2>0, <3>1
    <3> QED BY <3>1, <3>3, <3>4 DEF Abs!Enter
  <2>8. ASSUME RestoreBasePointer
        PROVE  Abs!Leave
    <3>1. Len(s.vBasePointers) > 1 /\ oVMArgStack' = BaseRestored(s) /\ outcome' = Done
      BY <2>8 DEF RestoreBasePointer
    <3>2. AbstractFrames(oVMArgStack') = Append(SubSeq(F, 1, Len(F) - 2), V \o F[Len(F) - 1])
      BY <3>1, RestoredFrames
    <3>3. Len(F) > 1  BY <3>1, FramesAre
    <3> QED BY <3>1, <3>2, <3>3 DEF Abs!Leave
  <2>9. ASSUME Reset
        PROVE  Abs!Clean
    <3>1. oVMArgStack' = ResetOf(s) /\ outcome' = Done  BY <2>9 DEF Reset
    <3>2. ResetOf(s).vBasePointers = <<iMaxStackSize>> /\ ResetOf(s).iStackPointer = iMaxStackSize
      BY DEF ResetOf, GoodStack, StackType
    <3>3. AbstractFrames(ResetOf(s)) = << <<>> >>
      BY <3>2, ResetGood, CleanFrames
    <3> QED BY <3>1, <3>3 DEF Abs!Clean
  <2>10. UNCHANGED vars => UNCHANGED Abs!fvars
    BY DEF vars, Abs!fvars
  <2>11. 1 \in 0 .. iMaxStackSize + 1
         /\ \A i \in 0 .. iMaxStackSize : i \in 0 .. iMaxStackSize + 1
    BY <2>0
  <2> HIDE DEF F, V, n, s
  <2> QED
    BY <2>1, <2>2, <2>4, <2>5, <2>6, <2>7, <2>8, <2>9, <2>10, <2>11 DEF Next, Abs!Next
<1> QED
  BY <1>1, <1>2, InductiveInvariant, PTL DEF Spec, ImplementsFrameStack, Abs!Spec
=============================================================================
