--------------------------- MODULE Threads_proofs ---------------------------
(* Proofs about Threads, for any number of threads and iterations.         *)
EXTENDS Threads, TLAPS

USE DEF Threads, Free, Places, OutputPlaces, Ended, Exited

(* Before main has created one thread there is nothing to break. *)
LEMMA InitInv == Init => IInv
  BY ThreadsAssumption, NamesAssumption
  DEF Init, IInv, TypeOK, HeldInside, ProgramKept, CreatedInOrder, JoinedEnded

(* What main does, none of which touches a mutex a thread holds. *)
LEMMA MainInv ==
  ASSUME IInv, Main \/ CreateFails
  PROVE  IInv'
<1>1. CASE Load
  BY <1>1, NamesAssumption
  DEF Load, LoadedFirst, local, IInv, TypeOK, HeldInside, ProgramKept, CreatedInOrder, JoinedEnded
<1>2. CASE Create
  <2>1. iPos \in Threads  BY <1>2, ThreadsAssumption DEF Create, IInv, TypeOK
  <2>2. pc[iPos] = "uncreated"  BY <1>2, <2>1, ThreadsAssumption DEF Create, IInv, TypeOK, CreatedInOrder
  <2>3. TypeOK'  BY <1>2, <2>1, ThreadsAssumption DEF Create, shared, IInv, TypeOK
  <2>4. HeldInside'  BY <1>2, <2>1, <2>2 DEF Create, shared, IInv, TypeOK, HeldInside
  <2>5. ProgramKept'  BY <1>2, <2>1 DEF Create, shared, IInv, TypeOK, ProgramKept
  <2>6. CreatedInOrder'
    BY <1>2, <2>1, ThreadsAssumption DEF Create, shared, IInv, TypeOK, CreatedInOrder
  <2>7. JoinedEnded'  BY <1>2, <2>1 DEF Create, shared, IInv, TypeOK, JoinedEnded
  <2>8. QED  BY <2>3, <2>4, <2>5, <2>6, <2>7 DEF IInv
<1>3. CASE CreateFails
  BY <1>3 DEF CreateFails, shared, local, IInv, TypeOK, HeldInside, ProgramKept, CreatedInOrder, JoinedEnded
<1>4. CASE AllCreated
  BY <1>4, ThreadsAssumption
  DEF AllCreated, shared, local, IInv, TypeOK, HeldInside, ProgramKept, CreatedInOrder, JoinedEnded
<1>5. CASE Join
  BY <1>5, ThreadsAssumption
  DEF Join, shared, local, IInv, TypeOK, HeldInside, ProgramKept, CreatedInOrder, JoinedEnded
<1>6. CASE Cleanup
  BY <1>6, ThreadsAssumption
  DEF Cleanup, JoinedAll, shared, local, IInv, TypeOK, HeldInside, ProgramKept, CreatedInOrder, JoinedEnded
<1>7. QED  BY <1>1, <1>2, <1>3, <1>4, <1>5, <1>6 DEF Main

(* A thread that takes the mutex of the output. *)
LEMMA LockOutputInv ==
  ASSUME IInv, NEW t \in Threads, NEW at \in Places, NEW next \in OutputPlaces,
         at \notin OutputPlaces \cup {"uncreated", "finds", "ended"},
         next = "prints" => at = "printing",
         LockOutput(t, at, next)
  PROVE  IInv'
<1>1. TypeOK'  BY DEF LockOutput, IInv, TypeOK
<1>2. HeldInside'  BY NamesAssumption DEF LockOutput, IInv, TypeOK, HeldInside
<1>3. ProgramKept'  BY DEF LockOutput, IInv, TypeOK, ProgramKept
<1>4. JoinedEnded'  BY DEF LockOutput, IInv, TypeOK, JoinedEnded
<1>5. CreatedInOrder'  BY DEF LockOutput, IInv, TypeOK, CreatedInOrder
<1>6. QED  BY <1>1, <1>2, <1>3, <1>4, <1>5 DEF IInv

(* And one that gives it back. *)
LEMMA UnlockOutputInv ==
  ASSUME IInv, NEW t \in Threads, NEW at \in OutputPlaces,
         NEW next \in {"settingUp", "finding", "deleting"},
         UnlockOutput(t, at, next),
         iCount' \in [Threads -> Nat], printed' \in [Threads -> Nat], pVM' = pVM
  PROVE  IInv'
<1>1. TypeOK'  BY DEF UnlockOutput, IInv, TypeOK
<1>2. HeldInside'  BY NamesAssumption DEF UnlockOutput, IInv, TypeOK, HeldInside
<1>3. ProgramKept'  BY DEF UnlockOutput, IInv, TypeOK, ProgramKept
<1>4. JoinedEnded'  BY DEF UnlockOutput, IInv, TypeOK, JoinedEnded
<1>5. CreatedInOrder'  BY DEF UnlockOutput, IInv, TypeOK, CreatedInOrder
<1>6. QED  BY <1>1, <1>2, <1>3, <1>4, <1>5 DEF IInv

(* What a thread does with the map of programs and its machine.            *)
LEMMA OwnStepInv ==
  ASSUME IInv, NEW t \in Threads,
         SetUp(t) \/ LockTemplates(t) \/ Find(t) \/ RunVM(t) \/ Delete(t)
  PROVE  IInv'
<1>1. CASE SetUp(t)
  BY <1>1 DEF SetUp, shared, IInv, TypeOK, HeldInside, ProgramKept, CreatedInOrder, JoinedEnded
<1>2. CASE LockTemplates(t)
  BY <1>2, NamesAssumption DEF LockTemplates, IInv, TypeOK, HeldInside, ProgramKept, CreatedInOrder, JoinedEnded
<1>3. CASE Find(t)
  <2>1. templates[Hello] # None  BY <1>3 DEF Find, IInv, ProgramKept
  <2>2. /\ ~Exited /\ pc[t] = "finds"
        /\ pc' = [pc EXCEPT ![t] = "running"]
        /\ template_mutex' = Free
        /\ pVMMemoryCore' = [pVMMemoryCore EXCEPT ![t] = templates[Hello]]
        /\ UNCHANGED <<main, iPos, templates, output_mutex, mutexes, iCount, pVM, printed>>
    BY <1>3, <2>1 DEF Find
  <2>3. TypeOK'  BY <2>2, NamesAssumption DEF IInv, TypeOK
  <2>4. HeldInside'  BY <2>2 DEF IInv, TypeOK, HeldInside
  <2>5. ProgramKept'  BY <2>1, <2>2 DEF IInv, TypeOK, ProgramKept
  <2>6. CreatedInOrder' /\ JoinedEnded'  BY <2>2 DEF IInv, TypeOK, CreatedInOrder, JoinedEnded
  <2>7. QED  BY <2>3, <2>4, <2>5, <2>6 DEF IInv
<1>4. CASE RunVM(t)
  BY <1>4 DEF RunVM, shared, IInv, TypeOK, HeldInside, ProgramKept, CreatedInOrder, JoinedEnded
<1>5. CASE Delete(t)
  BY <1>5 DEF Delete, shared, IInv, TypeOK, HeldInside, ProgramKept, CreatedInOrder, JoinedEnded
<1>6. QED  BY <1>1, <1>2, <1>3, <1>4, <1>5

LEMMA StepInv == IInv /\ [Next]_vars => IInv'
<1> SUFFICES ASSUME IInv, [Next]_vars PROVE IInv'
  OBVIOUS
<1>1. CASE Main \/ CreateFails  BY <1>1, MainInv
<1>2. CASE \E t \in Threads : ThreadFunction(t)
  <2>1. PICK t \in Threads : ThreadFunction(t)  BY <1>2
  <2>2. LoopHead(0) \in {"finding", "deleting"} /\ LoopHead(iCount[t] + 1) \in {"finding", "deleting"}
    BY DEF LoopHead
  <2>3. CASE LockOutput(t, "initializing", "saysInitializing")  BY <2>3, LockOutputInv
  <2>4. CASE LockOutput(t, "ready", "saysReady")  BY <2>4, LockOutputInv
  <2>5. CASE LockOutput(t, "printing", "prints")  BY <2>5, LockOutputInv
  <2>6. CASE SayInitializing(t)
    BY <2>6, UnlockOutputInv DEF SayInitializing, IInv, TypeOK
  <2>7. CASE SayReady(t)
    BY <2>7, <2>2, UnlockOutputInv DEF SayReady, IInv, TypeOK
  <2>8. CASE PrintDocument(t)
    <3>1. iCount' \in [Threads -> Nat] /\ printed' \in [Threads -> Nat]
      BY <2>8 DEF PrintDocument, IInv, TypeOK
    <3>2. QED  BY <2>8, <3>1, <2>2, UnlockOutputInv DEF PrintDocument
  <2>9. CASE SetUp(t) \/ LockTemplates(t) \/ Find(t) \/ RunVM(t) \/ Delete(t)
    BY <2>9, OwnStepInv
  <2>10. QED
    BY <2>1, <2>3, <2>4, <2>5, <2>6, <2>7, <2>8, <2>9 DEF ThreadFunction
<1>3. CASE UNCHANGED vars
  BY <1>3 DEF vars, shared, local, IInv, TypeOK, HeldInside, ProgramKept, CreatedInOrder, JoinedEnded
<1>4. QED  BY <1>1, <1>2, <1>3 DEF Next

(* Mutual exclusion, and nothing shared is used before it is made or after *)
(* it is gone: the mutexes are held where the code locks and unlocks them, *)
(* a thread runs the program the map has, and only what ended is joined.   *)
THEOREM ThreadsInvariant == Spec => []IInv
  BY InitInv, StepInv, PTL DEF Spec

(* main destroys the mutexes and returns, with the map on its stack, when  *)
(* no thread holds one, has a machine, or will take another step.          *)
THEOREM ThreadsDestroyedUnused == Spec => []DestroyedUnused
<1>1. IInv => DestroyedUnused
  BY NamesAssumption DEF IInv, TypeOK, HeldInside, JoinedEnded, DestroyedUnused
<1>2. QED  BY <1>1, ThreadsInvariant, PTL
=============================================================================
