------------------------------ MODULE VM_proofs -----------------------------
(***************************************************************************)
(* Every run of the virtual machine is bounded, for every program, step    *)
(* limit and depth of calls.  The bound is not the limit itself: calls by  *)
(* name and straight code do not look at it, and the invariant pays for    *)
(* each instruction past the limit with the distance from the start of the *)
(* code and with the return addresses pushed.                              *)
(*                                                                         *)
(* The argument first sorts the fifty operations into the four ways in     *)
(* which one can end, so that the invariant is shown once for each way.    *)
(*                                                                         *)
(* Second part: what the operations do to the argument stack and to the    *)
(* registers, and which handlers they reach.                               *)
(*                                                                         *)
(* Third part: the table those handlers are in (SyscallFactory).           *)
(***************************************************************************)
EXTENDS VM, SyscallFactory, ArgStackOps_proofs

(* The four ways an iteration of the loop ends. *)
Stopped ==
  /\ status' \in {"halted", "thrown", "undefined"}
  /\ iIP' \in Nat
  /\ UNCHANGED <<loaded, iExecutedSteps, oVMCodeStack>>
Advanced == iIP < CodeSize(program) /\ Advance
Limited ==
  /\ iExecutedSteps < iMaxSteps
  /\ Going
  /\ iIP' \in Nat
  /\ oVMCodeStack' \in Seq(Nat)
  /\ Len(oVMCodeStack') <= iMaxCodeStackSize
Entered ==
  /\ iIP < CodeSize(program)
  /\ Len(oVMCodeStack) < iMaxCodeStackSize
  /\ \E ip \in Nat : ip < CodeSize(program) /\ Enter(ip)

Ends == status = "running" /\ (Stopped \/ Advanced \/ Limited \/ Entered)

LEMMA ThrowStops ==
  ASSUME ControlTypeOK, NEW e, Throw(e)
  PROVE  Stopped
  BY DEF ControlTypeOK, Throw, ThrowAt, Stopped

LEMMA InstrOperands ==
  ASSUME ControlTypeOK, NEW op, Fetch(op)
  PROVE  /\ status = "running" /\ iIP < CodeSize(program)
         /\ Instr.arg \in Nat
  BY DEF ControlTypeOK, WellFormed, Fetch, Instr, CodeSize

(* An operation that throws, or goes on to the next instruction. *)
LEMMA DataOperationsEnd ==
  ASSUME ControlTypeOK, Moves \/ Stacks \/ Computes \/ Others
  PROVE  Ends
<1> USE ThrowStops DEF Ends, Advanced, Stopped, Undefined, CDTException, Either, ControlTypeOK
<1>1. CASE Moves
  BY <1>1, InstrOperands
  DEF Moves, MOV, MOVIINT, MOVISTR, StoreInside, IMOVINT, IMOVSTR, MOVSIZE, AnyToReg, MOVIREGI, MOVIREGS
<1>2. CASE Stacks
  BY <1>2, InstrOperands
  DEF Stacks, PUSH, POP, PUSH13, PUSH47, PUSHA, POP13, POP47, POPA, PushRegisters, PopRegisters
<1>3. CASE Computes
  BY <1>3, InstrOperands
  DEF Computes, ARITHMETIC, IDIV, MOD, INC, DEC, StepTo, NEG, NOT, Assign, Reduce, CMP, SCMP, Compare
<1>4. CASE Others
  BY <1>4, InstrOperands
  DEF Others, CLEAR, OUTPUT, REPLACE, EXIST, DEFINED, Test, REPLINT, REPLSTR, REPLIND, Descend, XCHG,
      SAVEBP, RESTBP
<1> QED BY <1>1, <1>2, <1>3, <1>4

LEMMA StopsEnd ==
  ASSUME ControlTypeOK, Stops
  PROVE  Ends
<1> USE ThrowStops DEF Ends, Advanced, Stopped, Halt, ControlTypeOK
<1>1. CASE HLT  BY <1>1, InstrOperands DEF HLT
<1>2. CASE BRK  BY <1>2, InstrOperands DEF BRK
<1>3. CASE NOP  BY <1>3, InstrOperands DEF NOP
<1>4. CASE Illegal  BY <1>4, InstrOperands DEF Illegal
<1>5. CASE Finish  BY <1>5 DEF Finish
<1> QED BY <1>1, <1>2, <1>3, <1>4, <1>5 DEF Stops

LEMMA SyscallEnds ==
  ASSUME ControlTypeOK, SYSCALL
  PROVE  Ends
  BY InstrOperands, ThrowStops
  DEF SYSCALL, Ends, Stopped, Advanced, Undefined, ControlTypeOK

(* An operation that asks for the step limit goes on only below it. *)
LEMMA BelowLimit ==
  ASSUME ControlTypeOK, NEW e, Then(StepLimit, e) = Done
  PROVE  iExecutedSteps < iMaxSteps /\ e = Done
  BY MachineSizes, ExceptionsDiffer DEF Then, StepLimit, ControlTypeOK

LEMMA InCodeDone ==
  ASSUME ControlTypeOK, NEW ip \in Nat, InCode(ip) = Done
  PROVE  ip < CodeSize(program)
  BY ExceptionsDiffer DEF InCode, ControlTypeOK, WellFormed, CodeSize

(* Going on at an address leaves the return addresses as they are. *)
LEMMA JumpLimited ==
  ASSUME ControlTypeOK, CallsBounded, NEW ip \in Nat, iExecutedSteps < iMaxSteps, Jump(ip)
  PROVE  Limited
  BY DEF ControlTypeOK, CallsBounded, Jump, Limited

LEMMA AdvanceLimited ==
  ASSUME ControlTypeOK, CallsBounded, iIP < CodeSize(program), Advance
  PROVE  Advanced
  BY DEF Advanced

LEMMA EnterGrows ==
  ASSUME ControlTypeOK, CallsBounded, NEW ip \in Nat, Enter(ip)
  PROVE  /\ oVMCodeStack' \in Seq(Nat)
         /\ Len(oVMCodeStack') = Len(oVMCodeStack) + 1
<1>1. iIP + 1 \in Nat  BY DEF ControlTypeOK
<1> QED BY <1>1, AppendProperties DEF ControlTypeOK, Enter

LEMMA CanPushAddressDone ==
  ASSUME ControlTypeOK, CanPushAddress = Done
  PROVE  Len(oVMCodeStack) < iMaxCodeStackSize
  BY OutcomeAssumption DEF CanPushAddress

LEMMA EnterLimited ==
  ASSUME ControlTypeOK, CallsBounded, NEW ip \in Nat, iExecutedSteps < iMaxSteps,
         CanPushAddress = Done, Enter(ip)
  PROVE  Limited
<1>1. Len(oVMCodeStack) \in Nat  BY DEF ControlTypeOK
<1> QED BY <1>1, EnterGrows, CanPushAddressDone, MachineSizes DEF Enter, Limited

LEMMA CallToEnds ==
  ASSUME ControlTypeOK, CallsBounded, status = "running", NEW ip \in Nat, CallTo(ip)
  PROVE  Ends
<1> DEFINE e == Then(InCode(ip), CanPushAddress)
<1>1. CASE Then(StepLimit, e) # Done
  BY <1>1, ThrowStops DEF CallTo, Either, Ends
<1>2. CASE Then(StepLimit, e) = Done
  <2>1. Enter(ip)  BY <1>2 DEF CallTo, Either
  <2>2. iExecutedSteps < iMaxSteps /\ e = Done
    <3> HIDE DEF e
    <3> QED BY <1>2, BelowLimit
  <2>3. CanPushAddress = Done  BY <2>2 DEF Then
  <2> QED BY <2>1, <2>2, <2>3, EnterLimited DEF Ends
<1> QED BY <1>1, <1>2

LEMMA JumpToEnds ==
  ASSUME ControlTypeOK, CallsBounded, status = "running", NEW ip \in Nat, JumpTo(ip)
  PROVE  Ends
<1>1. CASE Then(StepLimit, InCode(ip)) # Done
  BY <1>1, ThrowStops DEF JumpTo, Either, Ends
<1>2. CASE Then(StepLimit, InCode(ip)) = Done
  BY <1>2, BelowLimit, JumpLimited DEF JumpTo, Either, Ends
<1> QED BY <1>1, <1>2

LEMMA JumpIfEnds ==
  ASSUME ControlTypeOK, CallsBounded, status = "running", iIP < CodeSize(program),
         NEW ip \in Nat, JumpIf(ip)
  PROVE  Ends
<1>1. CASE JumpTo(ip)  BY <1>1, JumpToEnds
<1>2. CASE Either(StepLimit, Advance /\ Keep)
  BY <1>2, ThrowStops DEF Either, Ends, Advanced
<1> QED BY <1>1, <1>2 DEF JumpIf

LEMMA WithoutLast ==
  ASSUME NEW t \in Seq(Nat), Len(t) \in Nat \ {0}
  PROVE  /\ t[Len(t)] \in Nat
         /\ SubSeq(t, 1, Len(t) - 1) \in Seq(Nat)
         /\ Len(SubSeq(t, 1, Len(t) - 1)) = Len(t) - 1
<1>1. PICK n \in Nat \ {0} : n = Len(t)  OBVIOUS
<1>2. \A k \in 1..n : t[k] \in Nat  BY <1>1, ElementOfSeq
<1>3. \A k \in 1..n - 1 : t[k] \in Nat  BY <1>2
<1>4. n - 1 \in Int /\ 1 \in Int  OBVIOUS
<1>5. /\ SubSeq(t, 1, n - 1) \in Seq(Nat)
      /\ Len(SubSeq(t, 1, n - 1)) = IF 1 <= n - 1 THEN (n - 1) - 1 + 1 ELSE 0
  BY <1>3, <1>4, SubSeqProperties
<1> QED BY <1>1, <1>2, <1>5

LEMMA RetEnds ==
  ASSUME ControlTypeOK, CallsBounded, RET
  PROVE  Ends
<1> DEFINE e == IF CanClear(oVMArgStack, Instr.arg) THEN Done ELSE Underflow
<1>1. status = "running"  BY DEF RET, Fetch
<1>2. CASE Then(StepLimit, e) # Done
  BY <1>1, <1>2, ThrowStops DEF RET, Either, Ends
<1>3. CASE Then(StepLimit, e) = Done /\ oVMCodeStack = <<>>
  BY <1>1, <1>3, ThrowStops DEF RET, Either, Ends
<1>4. CASE Then(StepLimit, e) = Done /\ oVMCodeStack # <<>>
  <2>1. /\ iIP' = oVMCodeStack[Len(oVMCodeStack)]
        /\ oVMCodeStack' = SubSeq(oVMCodeStack, 1, Len(oVMCodeStack) - 1)
        /\ Going
    BY <1>4 DEF RET, Either
  <2>2. iExecutedSteps < iMaxSteps
    <3> HIDE DEF e
    <3> QED BY <1>4, BelowLimit
  <2>3. Len(oVMCodeStack) \in Nat \ {0}
    BY <1>4, EmptySeq DEF ControlTypeOK
  <2>4. /\ oVMCodeStack[Len(oVMCodeStack)] \in Nat
        /\ SubSeq(oVMCodeStack, 1, Len(oVMCodeStack) - 1) \in Seq(Nat)
        /\ Len(SubSeq(oVMCodeStack, 1, Len(oVMCodeStack) - 1)) = Len(oVMCodeStack) - 1
    BY <2>3, WithoutLast DEF ControlTypeOK
  <2> QED BY <1>1, <2>1, <2>2, <2>3, <2>4, MachineSizes DEF Ends, Limited, CallsBounded
<1> QED BY <1>2, <1>3, <1>4

LEMMA LoopEnds ==
  ASSUME ControlTypeOK, CallsBounded, LOOP
  PROVE  Ends
<1> DEFINE e == Legal(IsReg(Instr.src) /\ IsReg(Instr.dst))
<1>1. status = "running" /\ iIP < CodeSize(program) /\ Instr.arg \in Nat
  BY InstrOperands DEF LOOP
<1>2. CASE Then(StepLimit, e) # Done
  BY <1>1, <1>2, ThrowStops DEF LOOP, Either, Ends
<1>3. CASE Then(StepLimit, e) = Done
  <2>1. iExecutedSteps < iMaxSteps
    <3> HIDE DEF e
    <3> QED BY <1>3, BelowLimit
  <2>2. \/ Advance \/ Jump(Instr.arg)
        \/ \E x : Throw(x)
        \/ ThrowAt(Instr.arg, "CDTException")
    BY <1>3 DEF LOOP, Either, CDTException
  <2> QED BY <1>1, <2>1, <2>2, ThrowStops, JumpLimited DEF Ends, Advanced, Stopped, ThrowAt
<1> QED BY <1>2, <1>3

(* A call by name is not limited. *)
LEMMA CallByNameEnds ==
  ASSUME ControlTypeOK, CallsBounded, status = "running", iIP < CodeSize(program),
         NEW name, NEW s, CallByName(name, s)
  PROVE  Ends
<1> DEFINE ip == program.calls[name]
<1>1. CASE CallError(ip) # Done
  BY <1>1, ThrowStops DEF CallByName, Ends
<1>2. CASE CallError(ip) = Done
  <2>1. Enter(ip)  BY <1>2 DEF CallByName
  <2>2. ip \in Nat /\ Then(InCode(ip), CanPushAddress) = Done
    BY <1>2, ExceptionsDiffer DEF CallError
  <2>3. InCode(ip) = Done /\ CanPushAddress = Done
    BY <2>2 DEF Then
  <2>4. ip < CodeSize(program) /\ Len(oVMCodeStack) < iMaxCodeStackSize
    <3> HIDE DEF ip
    <3> QED BY <2>2, <2>3, InCodeDone, CanPushAddressDone
  <2> QED BY <2>1, <2>2, <2>4 DEF Ends, Entered
<1> QED BY <1>1, <1>2

LEMMA TransfersEnd ==
  ASSUME ControlTypeOK, CallsBounded, Transfers
  PROVE  Ends
<1>1. CASE CALL  BY <1>1, InstrOperands, CallToEnds DEF CALL, Absolute
<1>2. CASE RCALL
  <2>1. status = "running" /\ Relative(Instr) \in Nat
    BY <1>2, InstrOperands, MachineSizes DEF RCALL, Relative, ControlTypeOK
  <2> QED BY <1>2, <2>1, CallToEnds DEF RCALL
<1>3. CASE JMP  BY <1>3, InstrOperands, JumpToEnds DEF JMP, Absolute
<1>4. CASE RJMP
  <2>1. status = "running" /\ Relative(Instr) \in Nat
    BY <1>4, InstrOperands, MachineSizes DEF RJMP, Relative, ControlTypeOK
  <2> QED BY <1>4, <2>1, JumpToEnds DEF RJMP
<1>5. CASE JXX  BY <1>5, InstrOperands, JumpIfEnds DEF JXX, Absolute
<1>6. CASE RJXX
  <2>1. status = "running" /\ iIP < CodeSize(program) /\ Relative(Instr) \in Nat
    BY <1>6, InstrOperands, MachineSizes DEF RJXX, Relative, ControlTypeOK
  <2> QED BY <1>6, <2>1, JumpIfEnds DEF RJXX
<1>7. CASE CALLNAME  BY <1>7, InstrOperands, CallByNameEnds DEF CALLNAME
<1>8. CASE CALLIND
  <2>1. status = "running" /\ iIP < CodeSize(program)  BY <1>8, InstrOperands DEF CALLIND
  <2>2. (\E x : Throw(x)) \/ (\E name, s : CallByName(name, s))
    BY <1>8 DEF CALLIND, Either
  <2> QED BY <2>1, <2>2, ThrowStops, CallByNameEnds DEF Ends
<1> QED BY <1>1, <1>2, <1>3, <1>4, <1>5, <1>6, <1>7, <1>8, RetEnds, LoopEnds, SyscallEnds DEF Transfers

LEMMA StepEnds ==
  ASSUME ControlTypeOK, CallsBounded, Step
  PROVE  Ends
  BY TransfersEnd, DataOperationsEnd, StopsEnd DEF Step

(* Past the limit, one more instruction is paid for by one more address,   *)
(* or by one more return address and the whole code.                       *)
LEMMA Paid ==
  ASSUME NEW n \in Nat, NEW depth \in Nat, NEW size \in Nat, NEW ip \in Nat, ip < size,
         NEW ip2 \in Nat, n <= depth * size + ip
  PROVE  /\ n + 1 <= depth * size + (ip + 1)
         /\ n + 1 <= (depth + 1) * size + ip2
<1>1. (depth + 1) * size = depth * size + size  OBVIOUS
<1>2. depth * size \in Nat  OBVIOUS
<1> QED BY <1>1, <1>2

LEMMA ControlInit ==
  ASSUME Init
  PROVE  ControlInv
<1>1. WellFormed(NoProgram)
  <2>1. DOMAIN NoProgram.code = {} /\ 0..NoProgram.size - 1 = {}  BY DEF NoProgram
  <2> QED BY <2>1 DEF NoProgram, WellFormed
<1>2. oVMCodeStack \in Seq(Nat) /\ Len(oVMCodeStack) = 0  BY DEF Init
<1> QED BY <1>1, <1>2, MachineSizes
    DEF Init, ControlInv, ControlTypeOK, CallsBounded, StepsWithReturns, StepBound

(* The invariant of the steps bounds them. *)
LEMMA Bounded ==
  ASSUME NEW steps \in Nat, NEW limit \in Nat, NEW depth \in Nat, NEW most \in Nat, NEW size \in Nat,
         NEW ip \in Nat, depth <= most,
         steps > limit => ip <= size /\ steps - limit <= depth * size + ip
  PROVE  steps <= limit + (most + 1) * size
<1>1. depth * size <= most * size /\ (most + 1) * size = most * size + size  OBVIOUS
<1>2. most * size \in Nat /\ depth * size \in Nat  OBVIOUS
<1> QED BY <1>1, <1>2

LEMMA StepsBounded ==
  ASSUME ControlTypeOK, CallsBounded, StepsWithReturns, status = "running"
  PROVE  iExecutedSteps <= iMaxSteps + (iMaxCodeStackSize + 1) * CodeSize(program)
<1>1. CodeSize(program) \in Nat /\ Len(oVMCodeStack) \in Nat
  BY DEF ControlTypeOK, WellFormed, CodeSize
<1> QED BY <1>1, MachineSizes, Bounded DEF ControlTypeOK, CallsBounded, StepsWithReturns

(* What is left of the bound when an iteration has ended: the invariant of *)
(* the steps suffices, the bound follows from it.                          *)
LEMMA StepKeepsControl ==
  ASSUME ControlInv, Ends
  PROVE  ControlInv'
<1> DEFINE C == CodeSize(program)
           L == Len(oVMCodeStack)
<1>1. /\ C \in Nat /\ L \in Nat /\ iIP \in Nat /\ iExecutedSteps \in Nat
      /\ iMaxSteps \in Nat /\ iMaxCodeStackSize \in Nat /\ L <= iMaxCodeStackSize
      /\ status = "running"
  BY MachineSizes DEF ControlInv, ControlTypeOK, CallsBounded, WellFormed, CodeSize, Ends
<1>2. program' = program /\ CodeSize(program)' = C
  BY DEF Ends, Stopped, Advanced, Advance, Limited, Entered, Enter, Going, loaded, CodeSize
<1>3. CASE Stopped
  <2>1. ControlTypeOK' /\ CallsBounded' /\ status' # "running"
    BY <1>2, <1>3 DEF Stopped, ControlInv, ControlTypeOK, CallsBounded
  <2>2. iExecutedSteps' <= iMaxSteps + (iMaxCodeStackSize + 1) * C
    BY <1>1, <1>3, StepsBounded DEF ControlInv, Stopped
  <2> QED BY <1>2, <2>1, <2>2 DEF ControlInv, StepsWithReturns, StepBound
<1>4. ASSUME Advanced \/ Limited \/ Entered
      PROVE  ControlTypeOK' /\ CallsBounded' /\ StepsWithReturns'
  <2>1. Going  BY <1>4 DEF Advanced, Advance, Limited, Entered, Enter
  <2>2. status' = "running" /\ iExecutedSteps' = iExecutedSteps + 1
    BY <1>1, <2>1 DEF Going
  <2>3. CASE Advanced
    <3>1. iIP < C /\ iIP' = iIP + 1 /\ oVMCodeStack' = oVMCodeStack
      BY <2>3 DEF Advanced, Advance
    <3>2. ControlTypeOK' /\ CallsBounded'
      BY <1>1, <1>2, <2>2, <3>1 DEF ControlInv, ControlTypeOK, CallsBounded
    <3>3. ASSUME iExecutedSteps' > iMaxSteps
          PROVE  iExecutedSteps' - iMaxSteps <= L * C + (iIP + 1)
      <4>1. iExecutedSteps - iMaxSteps \in Nat /\ iExecutedSteps - iMaxSteps <= L * C + iIP
        BY <1>1, <2>2, <3>3 DEF ControlInv, StepsWithReturns
      <4>2. (iExecutedSteps - iMaxSteps) + 1 <= L * C + (iIP + 1)
        <5> HIDE DEF C, L
        <5> QED BY <1>1, <3>1, <4>1, Paid
      <4> QED BY <1>1, <2>2, <4>2
    <3> QED BY <1>1, <1>2, <3>1, <3>2, <3>3 DEF StepsWithReturns
  <2>4. CASE Limited
    <3>1. iIP' \in Nat /\ oVMCodeStack' \in Seq(Nat) /\ CallsBounded' /\ iExecutedSteps < iMaxSteps
      BY <2>4 DEF Limited, CallsBounded
    <3>2. ControlTypeOK'
      BY <1>1, <1>2, <2>2, <3>1 DEF ControlInv, ControlTypeOK
    <3> QED BY <1>1, <2>2, <3>1, <3>2 DEF StepsWithReturns
  <2>5. CASE Entered
    <3>1. PICK ip \in Nat : iIP < C /\ L < iMaxCodeStackSize /\ ip < C /\ Enter(ip)
      BY <2>5 DEF Entered
    <3>2. iIP' = ip /\ oVMCodeStack' \in Seq(Nat) /\ Len(oVMCodeStack') = L + 1
      BY <3>1, EnterGrows DEF ControlInv, Enter
    <3>3. ControlTypeOK' /\ CallsBounded'
      BY <1>1, <1>2, <2>2, <3>1, <3>2 DEF ControlInv, ControlTypeOK, CallsBounded
    <3>4. ASSUME iExecutedSteps' > iMaxSteps
          PROVE  iExecutedSteps' - iMaxSteps <= (L + 1) * C + ip
      <4>1. iExecutedSteps - iMaxSteps \in Nat /\ iExecutedSteps - iMaxSteps <= L * C + iIP
        BY <1>1, <2>2, <3>4 DEF ControlInv, StepsWithReturns
      <4>2. (iExecutedSteps - iMaxSteps) + 1 <= (L + 1) * C + ip
        <5> HIDE DEF C, L
        <5> QED BY <1>1, <3>1, <4>1, Paid
      <4> QED BY <1>1, <2>2, <4>2
    <3> QED BY <1>1, <1>2, <3>1, <3>2, <3>3, <3>4 DEF StepsWithReturns
  <2> QED BY <1>4, <2>3, <2>4, <2>5
<1>5. ASSUME Advanced \/ Limited \/ Entered
      PROVE  status' = "running"
  BY <1>1, <1>5 DEF Advanced, Advance, Limited, Entered, Enter, Going
<1>6. ASSUME ControlTypeOK', CallsBounded', StepsWithReturns', status' = "running"
      PROVE  StepBound'
  <2>1. CodeSize(program)' \in Nat /\ Len(oVMCodeStack)' \in Nat
    BY <1>6 DEF ControlTypeOK, WellFormed, CodeSize
  <2>2. iExecutedSteps' <= iMaxSteps + (iMaxCodeStackSize + 1) * CodeSize(program)'
    BY <1>1, <1>6, <2>1, Bounded DEF ControlTypeOK, CallsBounded, StepsWithReturns
  <2> QED BY <2>2 DEF StepBound
<1> QED BY <1>3, <1>4, <1>5, <1>6 DEF Ends, ControlInv

(* Between runs: a program is loaded, the machine is reset, a run begins   *)
(* with the counter at zero and with whatever return addresses are left.   *)
LEMMA BetweenRuns ==
  ASSUME ControlInv, (\E p \in Programs : InitProgram(p)) \/ (\E v \in Values : Run(0, v)) \/ Reset
  PROVE  ControlInv'
<1>1. CASE \E p \in Programs : InitProgram(p)
  <2>1. PICK p \in Programs : InitProgram(p)  BY <1>1
  <2>2. WellFormed(program')  BY <2>1, ProgramsAssumption DEF InitProgram
  <2>3. /\ status' \in {"ready", "thrown"}
        /\ UNCHANGED <<iIP, iExecutedSteps, oVMCodeStack>>
    BY <2>1 DEF InitProgram
  <2> QED BY <2>2, <2>3
      DEF ControlInv, ControlTypeOK, CallsBounded, StepsWithReturns, StepBound
<1>2. CASE \E v \in Values : Run(0, v)
  <2>1. /\ status' = "running" /\ iIP' = 0 /\ iExecutedSteps' = 0
        /\ UNCHANGED <<program, oVMCodeStack>>
    BY <1>2 DEF Run, loaded
  <2>2. ControlTypeOK' /\ CallsBounded'
    BY <2>1 DEF ControlInv, ControlTypeOK, CallsBounded
  <2>3. StepsWithReturns'  BY <2>1, MachineSizes DEF StepsWithReturns
  <2>4. CodeSize(program)' \in Nat  BY <2>2 DEF ControlTypeOK, WellFormed, CodeSize
  <2>5. 0 <= iMaxSteps + (iMaxCodeStackSize + 1) * CodeSize(program)'
    BY <2>4, MachineSizes
  <2> QED BY <2>1, <2>2, <2>3, <2>5 DEF ControlInv, StepBound
<1>3. CASE Reset
  <2>1. /\ status # "running"
        /\ UNCHANGED <<status, program, iIP, iExecutedSteps>>
        /\ oVMCodeStack' = <<>>
    BY <1>3 DEF Reset, loaded
  <2>2. oVMCodeStack' \in Seq(Nat) /\ Len(oVMCodeStack') = 0  BY <2>1
  <2>3. ControlTypeOK'  BY <2>1, <2>2 DEF ControlInv, ControlTypeOK
  <2>4. CallsBounded'  BY <2>2, MachineSizes DEF CallsBounded
  <2> QED BY <2>1, <2>3, <2>4 DEF ControlInv, StepsWithReturns, StepBound, CodeSize
<1> QED BY <1>1, <1>2, <1>3

LEMMA ControlStuttering ==
  ASSUME ControlInv, UNCHANGED vars
  PROVE  ControlInv'
  BY DEF vars, loaded, ControlInv, ControlTypeOK, CallsBounded, StepsWithReturns, StepBound, CodeSize

(* What decides the next instruction stays well formed, no more return     *)
(* addresses are held than there is room for, and past the limit the steps *)
(* are paid for by the code and the return addresses (Run's loop, lines    *)
(* 191-2367, and CTPP2VMCodeStack.cpp).                                    *)
THEOREM VMControlInvariant == Spec => []ControlInv
<1>1. Init => ControlInv  BY ControlInit
<1>2. ControlInv /\ [Next]_vars => ControlInv'
  <2> SUFFICES ASSUME ControlInv, [Next]_vars  PROVE ControlInv'
    OBVIOUS
  <2>1. CASE Step
    BY <2>1, StepEnds, StepKeepsControl DEF ControlInv
  <2>2. CASE UNCHANGED vars
    BY <2>2, ControlStuttering
  <2> QED BY <2>1, <2>2, BetweenRuns DEF Next
<1> QED BY <1>1, <1>2, PTL DEF Spec

(* No run executes more than the limit and, for each return address there  *)
(* is room for and once more, the whole code: whatever the program, and    *)
(* whatever addresses the exception of an earlier run left (lines          *)
(* 252-281, 2366).                                                         *)
THEOREM VMStepBound == Spec => []StepBound
<1>1. ControlInv => StepBound  BY DEF ControlInv
<1> QED BY <1>1, VMControlInvariant, PTL

-----------------------------------------------------------------------------
(* The data.  An operation other than SAVEBP and RESTBP leaves the frames  *)
(* as they are, and of the elements only those of the newest one change.   *)
Within ==
  /\ InFrame(oVMArgStack, oVMArgStack')
  /\ oRegs' \in [Registers -> Values]
  /\ iFlags' \subseteq Flags

LEMMA DataIs ==
  DataInv <=> /\ GoodStack(oVMArgStack)
              /\ oRegs \in [Registers -> Values]
              /\ iFlags \subseteq Flags
BY DEF DataInv, DataTypeOK, FramesNested, GoodStack

LEMMA InstrIs ==
  ASSUME ControlTypeOK, NEW op, Fetch(op)
  PROVE  /\ Instr.src \in Nat /\ Instr.dst \in Nat /\ Instr.arg \in Nat /\ Instr.args \in Nat
         /\ Instr.src \in Constants => Instr.arg \in Values
  BY DEF ControlTypeOK, WellFormed, Fetch, Instr, CodeSize

LEMMA KeepWithin ==
  ASSUME DataInv, Keep
  PROVE  Within
  BY DataIs, SameInFrame DEF Keep, data, Within

LEMMA UndefinedWithin ==
  ASSUME DataInv, Undefined
  PROVE  Within
  BY KeepWithin DEF Undefined, Keep

LEMMA SetWithin ==
  ASSUME DataInv, NEW s, NEW regs, NEW flags, Set(s, regs, flags),
         InFrame(oVMArgStack, s), regs \in [Registers -> Values], flags \subseteq Flags
  PROVE  Within
  BY DEF Set, Within

LEMMA SetRegWithin ==
  ASSUME DataInv, NEW r, NEW v \in Values, SetReg(r, v)
  PROVE  Within
<1>1. WithReg(r, v) \in [Registers -> Values]  BY DataIs DEF WithReg
<1> QED BY <1>1, DataIs, SameInFrame, SetWithin DEF SetReg

LEMMA Reached ==
  ASSUME DataInv, NEW i \in Nat, Reach(i) = Done
  PROVE  /\ Elem(i) \in Values
         /\ \A v \in Values : InFrame(oVMArgStack, WithElem(i, v))
         /\ CanClear(oVMArgStack, i + 1)
<1>1. GoodStack(oVMArgStack) /\ Access(oVMArgStack, TopPos(oVMArgStack, i)) = Done
  BY DataIs DEF Reach
<1>2. TopPos(oVMArgStack, i) < Base(oVMArgStack)  BY <1>1, AccessInArray
<1> QED BY <1>1, <1>2, ElementIsValue, StoredInFrame, BaseInArray DEF Elem, WithElem, CanClear, TopPos

LEMMA SetElemWithin ==
  ASSUME DataInv, NEW i \in Nat, Reach(i) = Done, NEW v \in Values, SetElem(i, v)
  PROVE  Within
<1>1. InFrame(oVMArgStack, WithElem(i, v))  BY Reached
<1> QED BY <1>1, DataIs, SetWithin DEF SetElem

LEMMA DropWithin ==
  ASSUME DataInv, NEW d \in Nat, CanClear(oVMArgStack, d), NEW regs, NEW flags,
         Set(Cleared(oVMArgStack, d), regs, flags),
         regs \in [Registers -> Values], flags \subseteq Flags
  PROVE  Within
<1>1. InFrame(oVMArgStack, Cleared(oVMArgStack, d))  BY DataIs, ClearedInFrame
<1> QED BY <1>1, SetWithin

LEMMA OperandIsValue ==
  ASSUME DataInv, Instr.arg \in Nat, OperandError = Done
  PROVE  Operand \in Values
<1>1. CASE Instr.src = STACK
  BY <1>1, Reached DEF OperandError, Operand
<1>2. CASE Instr.src # STACK
  <2>1. IsReg(Instr.src)  BY <1>2, ExceptionsDiffer DEF OperandError, Legal
  <2> QED BY <1>2, <2>1, DataIs DEF Operand, IsReg
<1> QED BY <1>1, <1>2

(* Undef is the value 0, and the values are an interval from it. *)
LEMMA SmallValues ==
  /\ 0 \in Values /\ 1 \in Values /\ Undef \in Values
  /\ \A v \in Values : Decremented(v) \in Values /\ Incremented(v) \subseteq Values
                       /\ Negated(v) \subseteq Values
  BY MachineValues DEF Decremented, Incremented, Negated

LEMMA ThenDone ==
  ASSUME NEW e, NEW f, Then(e, f) = Done
  PROVE  e = Done /\ f = Done
  BY DEF Then

LEMMA LegalDone ==
  ASSUME NEW c \in BOOLEAN, Legal(c) = Done
  PROVE  c
  BY ExceptionsDiffer DEF Legal

(* What every operation starts from. *)
DataReady == ControlTypeOK /\ DataInv

LEMMA MovesWithin ==
  ASSUME DataReady, Moves
  PROVE  Within
<1> USE DEF DataReady
<1>1. CASE MOV
  <2>1. Fetch("MOV") /\ Instr.arg \in Nat /\ (Instr.src \in Constants => Instr.arg \in Values)
    BY <1>1, InstrIs DEF MOV
  <2>2. CASE Keep  BY <2>2, KeepWithin
  <2>3. CASE /\ Then(Legal(IsReg(Instr.dst)), IF Instr.src \in Constants THEN Done ELSE OperandError) = Done
             /\ SetReg(Instr.dst, Loaded)
    <3>1. (IF Instr.src \in Constants THEN Done ELSE OperandError) = Done  BY <2>3, ThenDone
    <3>2. Loaded \in Values  BY <2>1, <3>1, OperandIsValue DEF Loaded
    <3> QED BY <2>3, <3>2, SetRegWithin
  <2> QED BY <1>1, <2>2, <2>3 DEF MOV, Either
<1>2. CASE MOVISTR
  <2>1. CASE Keep  BY <2>1, KeepWithin
  <2>2. ASSUME NEW v \in Values, Set(oVMArgStack, WithReg(Instr.dst, v), {"EQ"}) \/ Set(oVMArgStack, WithReg(Instr.dst, v), {"NE"})
        PROVE  Within
    <3>1. WithReg(Instr.dst, v) \in [Registers -> Values]  BY DataIs DEF WithReg
    <3> QED BY <2>2, <3>1, DataIs, SameInFrame, SetWithin DEF Flags
  <2> QED BY <1>2, <2>1, <2>2, SmallValues DEF MOVISTR, Either
<1>3. CASE MOVSIZE
  <2> DEFINE e == Then(Legal(IsReg(Instr.dst) \/ (Instr.dst = STACK /\ IsReg(Instr.src))),
                       Then(OperandError, IF Instr.dst = STACK THEN Reach(Instr.arg) ELSE Done))
             s(n) == IF Instr.dst = STACK THEN WithElem(Instr.arg, n) ELSE oVMArgStack
             regs(n) == IF Instr.dst = STACK THEN oRegs ELSE WithReg(Instr.dst, n)
             flags(n) == IF n = 0 THEN {"EQ"} ELSE {}
  <2>1. Instr.arg \in Nat  BY <1>3, InstrIs DEF MOVSIZE
  <2>2. CASE Keep  BY <2>2, KeepWithin
  <2>3. ASSUME NEW n \in Values, e = Done, Set(s(n), regs(n), flags(n))
        PROVE  Within
    <3>1. (IF Instr.dst = STACK THEN Reach(Instr.arg) ELSE Done) = Done
      BY <2>3, ThenDone
    <3>2. InFrame(oVMArgStack, s(n))  BY <2>1, <3>1, Reached, DataIs, SameInFrame
    <3>3. regs(n) \in [Registers -> Values]  BY DataIs DEF WithReg
    <3>4. flags(n) \subseteq Flags  BY DEF Flags
    <3> HIDE DEF s, regs, flags
    <3> QED BY <2>3, <3>2, <3>3, <3>4, SetWithin
  <2>4. Keep \/ \E n \in Values : e = Done /\ Set(s(n), regs(n), flags(n))
    BY <1>3 DEF MOVSIZE, Either
  <2> HIDE DEF e, s, regs, flags
  <2> QED BY <2>2, <2>3, <2>4
<1>4. CASE MOVIINT \/ MOVIREGI \/ MOVIREGS
  <2>1. CASE Keep  BY <2>1, KeepWithin
  <2>2. CASE Undefined  BY <2>2, UndefinedWithin
  <2>3. CASE AnyToReg  BY <2>3, SetRegWithin DEF AnyToReg
  <2> QED BY <1>4, <2>1, <2>2, <2>3 DEF MOVIINT, MOVIREGI, MOVIREGS, Either, CDTException
<1>5. CASE IMOVINT \/ IMOVSTR
  BY <1>5, KeepWithin DEF IMOVINT, IMOVSTR, StoreInside, Either, CDTException
<1> QED BY <1>1, <1>2, <1>3, <1>4, <1>5 DEF Moves

(* As many registers as there is room for are stored, below the elements   *)
(* of the frame.                                                           *)
LEMMA PushedRegistersWithin ==
  ASSUME DataInv, NEW first \in Registers, NEW last \in Registers, first <= last,
         PushRegisters(first, last)
  PROVE  Within
<1> DEFINE sp == oVMArgStack.iStackPointer
           n  == last - first + 1
           k  == IF n <= sp THEN n ELSE sp
           a  == [p \in Positions |->
                    IF p \in sp - k..sp - 1 THEN oRegs[first + (sp - 1 - p)] ELSE oVMArgStack.aStack[p]]
           s  == [oVMArgStack EXCEPT !.iStackPointer = sp - k, !.aStack = a]
<1>1. /\ GoodStack(oVMArgStack) /\ oVMArgStack \in StackType
      /\ sp \in 0..iMaxStackSize /\ iMaxStackSize \in Nat
      /\ Base(oVMArgStack) \in 0..iMaxStackSize /\ sp <= Base(oVMArgStack)
  BY DataIs, BaseInArray DEF GoodStack
<1>2. n \in Nat /\ k \in 0..sp /\ k <= n  BY <1>1 DEF Registers, LastReg
<1>3. ASSUME NEW p \in Positions, p \in sp - k..sp - 1
      PROVE  oRegs[first + (sp - 1 - p)] \in Values
  <2>1. first + (sp - 1 - p) \in Registers
    BY <1>1, <1>2, <1>3 DEF Registers, LastReg, Positions
  <2> QED BY <2>1, DataIs
<1>4. a \in [Positions -> Values]
  <2>1. \A p \in Positions : oVMArgStack.aStack[p] \in Values  BY <1>1 DEF StackType
  <2> QED BY <1>3, <2>1
<1>5. \A p \in Positions : p >= Base(oVMArgStack) => a[p] = oVMArgStack.aStack[p]
  BY <1>1, <1>2 DEF Positions
<1>6. sp - k \in Nat /\ sp - k <= Base(oVMArgStack)  BY <1>1, <1>2
<1>7. InFrame(oVMArgStack, s)
  <2> HIDE DEF a, k
  <2> QED BY <1>1, <1>4, <1>5, <1>6, MovedInFrame
<1>8. Set(s, oRegs, iFlags)  BY DEF PushRegisters
<1> HIDE DEF s
<1> QED BY <1>7, <1>8, DataIs, SetWithin

(* As many registers are read as the frame has elements. *)
LEMMA PoppedRegistersWithin ==
  ASSUME DataInv, NEW first \in Registers, NEW last \in Registers, first <= last,
         PopRegisters(first, last)
  PROVE  Within
<1> DEFINE sp   == oVMArgStack.iStackPointer
           room == Base(oVMArgStack) - sp
           n    == last - first + 1
           k    == IF n <= room THEN n ELSE room
           at(r) == CHOOSE p \in 0..k - 1 : PoppedInto(first, last, k, p) = r
           regs == [r \in Registers |->
                      IF \E p \in 0..k - 1 : PoppedInto(first, last, k, p) = r
                      THEN oVMArgStack.aStack[sp + at(r)] ELSE oRegs[r]]
<1>1. /\ GoodStack(oVMArgStack) /\ oVMArgStack \in StackType
      /\ sp \in 0..iMaxStackSize /\ iMaxStackSize \in Nat
      /\ Base(oVMArgStack) \in 0..iMaxStackSize /\ sp <= Base(oVMArgStack)
  BY DataIs, BaseInArray DEF GoodStack
<1>2. k \in Nat /\ k <= room  BY <1>1 DEF Registers, LastReg
<1>3. ASSUME NEW p \in 0..k - 1
      PROVE  oVMArgStack.aStack[sp + p] \in Values
  <2>1. sp + p \in Positions  BY <1>1, <1>2 DEF Positions
  <2> QED BY <1>1, <2>1 DEF StackType
<1>4. ASSUME NEW r \in Registers, \E p \in 0..k - 1 : PoppedInto(first, last, k, p) = r
      PROVE  oVMArgStack.aStack[sp + at(r)] \in Values
  <2>1. at(r) \in 0..k - 1  BY <1>4
  <2> HIDE DEF at, k
  <2> QED BY <1>3, <2>1
<1>5. regs \in [Registers -> Values]
  <2> HIDE DEF at, k
  <2> QED BY <1>4, DataIs
<1>6. CanClear(oVMArgStack, k)  BY <1>1, <1>2 DEF CanClear
<1>7. Set(Cleared(oVMArgStack, k), regs, iFlags)  BY DEF PopRegisters
<1> HIDE DEF k, regs
<1> QED BY <1>2, <1>5, <1>6, <1>7, DataIs, DropWithin

LEMMA PushWithin ==
  ASSUME DataReady, PUSH
  PROVE  Within
<1> USE DEF DataReady
<1> DEFINE i == Instr
           sources == CASE IsReg(i.src) -> {oRegs[i.src]}
                        [] i.src \in Constants -> {i.arg}
                        [] i.src \in Indirect -> Values
                        [] i.src = STACK -> {Elem(i.arg)}
           flags(v) == IF i.src # IND_STR THEN {iFlags}
                       ELSE {{"EQ"}} \cup (IF v = Undef THEN {{}} ELSE {})
           e == CASE i.src = STACK -> Reach(i.arg)
                  [] i.src \in Indirect -> Legal(IsReg(i.dst))
                  [] OTHER -> Legal(IsReg(i.src) \/ i.src \in Constants)
           room == IF CanPush(oVMArgStack) THEN Done ELSE Overflow
<1>1. i.arg \in Nat /\ (i.src \in Constants => i.arg \in Values)  BY InstrIs DEF PUSH
<1>2. \/ Keep
      \/ \E v \in sources : \E f \in flags(v) :
           e = Done /\ CanPush(oVMArgStack) /\ Set(Pushed(oVMArgStack, v), oRegs, f)
  <2>1. \/ Keep
        \/ /\ Then(e, room) = Done
           /\ \E v \in sources : \E f \in flags(v) : Set(Pushed(oVMArgStack, v), oRegs, f)
    BY DEF PUSH, Either, CDTException
  <2>2. Then(e, room) = Done => e = Done /\ CanPush(oVMArgStack)
    <3>1. Then(e, room) = Done => e = Done /\ room = Done
      <4> HIDE DEF e, room
      <4> QED BY ThenDone
    <3> QED BY <3>1, OutcomeAssumption
  <2> HIDE DEF e, room, sources, flags
  <2> QED BY <2>1, <2>2
<1>3. ASSUME e = Done PROVE sources \subseteq Values
  <2>1. CASE IsReg(i.src)
    <3>1. sources = {oRegs[i.src]}  BY <2>1 DEF IsReg, Registers, LastReg, Constants, Indirect, INT, FLOAT, STR, IND_VAL, IND_STR, STACK
    <3> QED BY <2>1, <3>1, DataIs DEF IsReg
  <2>2. CASE i.src \in Constants
    <3>1. sources = {i.arg}  BY <2>2 DEF IsReg, Registers, LastReg, Constants, Indirect, INT, FLOAT, STR, IND_VAL, IND_STR, STACK
    <3> QED BY <2>2, <3>1, <1>1
  <2>3. CASE i.src \in Indirect
    BY <2>3 DEF IsReg, Registers, LastReg, Constants, Indirect, INT, FLOAT, STR, IND_VAL, IND_STR, STACK
  <2>4. CASE i.src = STACK
    <3>1. sources = {Elem(i.arg)} /\ e = Reach(i.arg)
      BY <2>4 DEF IsReg, Registers, LastReg, Constants, Indirect, INT, FLOAT, STR, IND_VAL, IND_STR, STACK
    <3> QED BY <1>1, <1>3, <3>1, Reached
  <2>5. CASE ~(IsReg(i.src) \/ i.src \in Constants) /\ i.src \notin Indirect /\ i.src # STACK
    <3>1. e = Legal(IsReg(i.src) \/ i.src \in Constants)  BY <2>5
    <3> QED BY <1>3, <2>5, <3>1, LegalDone
  <2> QED BY <2>1, <2>2, <2>3, <2>4, <2>5
<1>4. \A v : \A f \in flags(v) : f \subseteq Flags  BY DataIs DEF Flags
<1>5. ASSUME NEW v \in Values, NEW f, f \subseteq Flags, CanPush(oVMArgStack),
             Set(Pushed(oVMArgStack, v), oRegs, f)
      PROVE  Within
  <2>1. InFrame(oVMArgStack, Pushed(oVMArgStack, v))  BY <1>5, DataIs, PushedInFrame
  <2> QED BY <1>5, <2>1, DataIs, SetWithin
<1> HIDE DEF e, sources, flags
<1> QED BY <1>2, <1>3, <1>4, <1>5, KeepWithin

LEMMA StacksWithin ==
  ASSUME DataReady, Stacks
  PROVE  Within
<1>1. CASE POP
  BY <1>1, KeepWithin, PoppedRegistersWithin DEF POP, IsReg, Registers, LastReg, DataReady
<1>2. CASE PUSH13 \/ PUSH47 \/ PUSHA
  BY <1>2, PushedRegistersWithin DEF PUSH13, PUSH47, PUSHA, Registers, LastReg, DataReady
<1>3. CASE POP13 \/ POP47 \/ POPA
  BY <1>3, PoppedRegistersWithin DEF POP13, POP47, POPA, Registers, LastReg, DataReady
<1> QED BY <1>1, <1>2, <1>3, PushWithin DEF Stacks

(* The result is written over the second element and the first dropped. *)
LEMMA ReduceWithin ==
  ASSUME DataInv, Reach(1) = Done, NEW v \in Values, Reduce(v)
  PROVE  Within
<1> DEFINE s == WithElem(1, v)
<1>1. InFrame(oVMArgStack, s) /\ CanClear(oVMArgStack, 2)  BY Reached
<1>2. s.iStackPointer = oVMArgStack.iStackPointer /\ Base(s) = Base(oVMArgStack)
  BY DataIs DEF WithElem, Stored, Base, GoodStack, StackType
<1>3. GoodStack(oVMArgStack) /\ GoodStack(s)  BY <1>1, DataIs DEF InFrame
<1>4. CanClear(s, 1)
  BY <1>1, <1>2, <1>3, BaseInArray DEF CanClear
<1> HIDE DEF s
<1>5. InFrame(s, Cleared(s, 1))  BY <1>3, <1>4, ClearedInFrame
<1>6. InFrame(oVMArgStack, Cleared(s, 1))  BY <1>1, <1>5, InFrameTransitive
<1> QED BY <1>6, DataIs, SetWithin DEF Reduce, s

LEMMA AssignWithin ==
  ASSUME DataInv, Instr.arg \in Nat, OperandError = Done, NEW v \in Values, Assign(v)
  PROVE  Within
<1>1. CASE Instr.src = STACK
  BY <1>1, SetElemWithin DEF Assign, OperandError
<1>2. CASE Instr.src # STACK
  BY <1>2, SetRegWithin DEF Assign
<1> QED BY <1>1, <1>2

LEMMA StepToWithin ==
  ASSUME DataInv, NEW values, values \subseteq Values, StepTo(values)
  PROVE  Within
<1>1. CASE Keep  BY <1>1, KeepWithin
<1>2. CASE \E v \in values : SetReg(Instr.src, v)  BY <1>2, SetRegWithin
<1>3. CASE \E v \in values : Reach(0) = Done /\ SetElem(0, v)  BY <1>3, SetElemWithin
<1> QED BY <1>1, <1>2, <1>3 DEF StepTo, Either, CDTException

(* The operands compared are dropped, as many as are on the stack. *)
LEMMA CompareWithin ==
  ASSUME DataInv, NEW numeric \in BOOLEAN, Compare(numeric)
  PROVE  Within
<1> DEFINE n == IF Instr.dst = STACK THEN 1 ELSE 0
           m == IF Instr.src = STACK THEN 1 ELSE 0
           first  == IF n = 1 THEN Reach(0) ELSE Done
           second == IF m = 1 THEN Reach(n) ELSE Done
           flags  == IF numeric THEN NumberFlags(Taken(Instr.src, n), Taken(Instr.dst, 0))
                     ELSE TextFlags
<1>1. n \in {0, 1} /\ m \in {0, 1} /\ n + m \in Nat  OBVIOUS
<1>2. CanClear(oVMArgStack, 0)  BY DataIs, BaseInArray DEF CanClear
<1>3. first = Done => CanClear(oVMArgStack, n)
  <2>1. CASE n = 0  BY <1>2, <2>1
  <2>2. CASE n = 1
    <3>1. Reach(0) = Done => CanClear(oVMArgStack, 0 + 1)  BY Reached
    <3> QED BY <2>2, <3>1
  <2> QED BY <1>1, <2>1, <2>2
<1>4. first = Done /\ second = Done => CanClear(oVMArgStack, n + m)
  <2>1. CASE m = 0  BY <1>1, <1>3, <2>1
  <2>2. CASE m = 1
    <3>1. n \in Nat  OBVIOUS
    <3>2. Reach(n) = Done => CanClear(oVMArgStack, n + 1)
      <4> HIDE DEF n
      <4> QED BY <3>1, Reached
    <3> QED BY <2>2, <3>2
  <2> QED BY <1>1, <2>1, <2>2
<1>5. \A f \in flags : f \subseteq Flags
  <2>1. \A v, w : \A f \in Orders(v, w) : f \subseteq Flags  BY DEF Orders, Flags
  <2>2. \A v : Parities(v) \subseteq Flags  BY DEF Parities, Flags
  <2> QED BY <2>1, <2>2 DEF NumberFlags, TextFlags
<1>6. \/ Keep
      \/ first = Done /\ Set(Cleared(oVMArgStack, n), oRegs, iFlags)
      \/ first = Done /\ second = Done
         /\ \E f \in flags : Set(Cleared(oVMArgStack, n + m), oRegs, f)
  BY DEF Compare, Either
<1> HIDE DEF first, second, flags
<1>7. n \in Nat  BY <1>1
<1> HIDE DEF n, m
<1>8. CASE first = Done /\ Set(Cleared(oVMArgStack, n), oRegs, iFlags)
  BY <1>3, <1>7, <1>8, DataIs, DropWithin
<1>9. CASE first = Done /\ second = Done
           /\ \E f \in flags : Set(Cleared(oVMArgStack, n + m), oRegs, f)
  BY <1>1, <1>4, <1>5, <1>9, DataIs, DropWithin
<1> QED BY <1>6, <1>8, <1>9, KeepWithin

LEMMA ComputesWithin ==
  ASSUME DataReady, Computes
  PROVE  Within
<1> USE DEF DataReady
<1>1. CASE ARITHMETIC \/ IDIV \/ MOD
  <2>1. CASE Keep \/ Undefined  BY <2>1, KeepWithin, UndefinedWithin
  <2>2. CASE Reach(1) = Done /\ \E v \in Values : Reduce(v)  BY <2>2, ReduceWithin
  <2>3. \/ Keep \/ Undefined
        \/ TwoOnTop(Instr) = Done /\ \E v \in Values : Reduce(v)
    BY <1>1, ThenDone DEF ARITHMETIC, IDIV, MOD, Either, CDTException
  <2>4. TwoOnTop(Instr) = Done => Reach(1) = Done  BY ThenDone DEF TwoOnTop
  <2> QED BY <2>1, <2>2, <2>3, <2>4
<1>2. CASE INC \/ DEC
  <2>1. Old \in Values \/ Reach(0) # Done \/ ~IsReg(Instr.src)
    BY DataIs, Reached DEF Old, IsReg
  <2>2. CASE Old \in Values
    BY <1>2, <2>2, SmallValues, StepToWithin DEF INC, DEC
  <2>3. CASE Instr.src = STACK /\ Reach(0) # Done
    BY <1>2, <2>3, KeepWithin DEF INC, DEC, StepTo, Either, CDTException, IsReg, Registers, LastReg, STACK
  <2>4. CASE Instr.src # STACK /\ ~IsReg(Instr.src)
    BY <1>2, <2>4, KeepWithin DEF INC, DEC, StepTo
  <2>5. CASE Instr.src # STACK /\ IsReg(Instr.src)
    BY <2>2, <2>5, DataIs DEF Old, IsReg
  <2>6. CASE Instr.src = STACK /\ Reach(0) = Done
    BY <2>2, <2>6, Reached DEF Old
  <2> QED BY <2>3, <2>4, <2>5, <2>6
<1>3. CASE NEG \/ NOT
  <2>1. Instr.arg \in Nat  BY <1>3, InstrIs DEF NEG, NOT
  <2>2. CASE Keep  BY <2>2, KeepWithin
  <2>3. CASE OperandError = Done /\ \E v \in Values : Assign(v)
    BY <2>1, <2>3, AssignWithin
  <2>4. OperandError = Done => Negated(Operand) \subseteq Values
    BY <2>1, OperandIsValue, SmallValues
  <2> QED BY <1>3, <2>2, <2>3, <2>4, SmallValues DEF NEG, NOT, Either
<1>4. CASE CMP \/ SCMP  BY <1>4, CompareWithin DEF CMP, SCMP
<1> QED BY <1>1, <1>2, <1>3, <1>4 DEF Computes

(* Two elements of the frame are stored, one after the other. *)
LEMMA ExchangedWithin ==
  ASSUME DataInv, NEW n \in Nat, Reach(n) = Done,
         Set(Stored(WithElem(n, Elem(0)), TopPos(oVMArgStack, 0), Elem(n)), oRegs, iFlags)
  PROVE  Within
<1> DEFINE s == WithElem(n, Elem(0))
<1>1. Reach(0) = Done
  <2>1. GoodStack(oVMArgStack) /\ Access(oVMArgStack, TopPos(oVMArgStack, n)) = Done
    BY DataIs DEF Reach
  <2>2. TopPos(oVMArgStack, n) < Base(oVMArgStack)  BY <2>1, AccessInArray
  <2> QED BY <2>1, <2>2, BaseInArray DEF Reach, Access, TopPos
<1>2. /\ InFrame(oVMArgStack, s)
      /\ Elem(n) \in Values
  BY <1>1, Reached
<1>3. /\ s.iStackPointer = oVMArgStack.iStackPointer
      /\ s.vBasePointers = oVMArgStack.vBasePointers
  BY DataIs DEF WithElem, Stored, GoodStack, StackType
<1>4. Access(s, TopPos(s, 0)) = Done /\ TopPos(s, 0) = TopPos(oVMArgStack, 0)
  BY <1>1, <1>3 DEF Reach, Access, TopPos, Base
<1> HIDE DEF s
<1>5. InFrame(s, Stored(s, TopPos(oVMArgStack, 0), Elem(n)))
  BY <1>2, <1>4, StoredInFrame DEF InFrame
<1>6. InFrame(oVMArgStack, Stored(s, TopPos(oVMArgStack, 0), Elem(n)))
  BY <1>2, <1>5, InFrameTransitive
<1> QED BY <1>6, DataIs, SetWithin DEF s

LEMMA OthersWithin ==
  ASSUME DataReady, Others, ~SAVEBP, ~RESTBP
  PROVE  Within
<1> USE DEF DataReady
<1>1. CASE CLEAR
  <2>1. Instr.arg \in Nat  BY <1>1, InstrIs DEF CLEAR
  <2>2. CASE Keep \/ Undefined  BY <2>2, KeepWithin, UndefinedWithin
  <2>3. CASE SetReg(Instr.dst, Undef)  BY <2>3, SmallValues, SetRegWithin
  <2>4. CASE ~IsReg(Instr.src) /\ OperandError = Done /\ SetElem(Instr.arg, Undef)
    <3>1. Reach(Instr.arg) = Done
      BY <2>4, ExceptionsDiffer DEF OperandError, Legal
    <3> QED BY <2>1, <2>4, <3>1, SmallValues, SetElemWithin
  <2> QED BY <1>1, <2>2, <2>3, <2>4 DEF CLEAR, Either
<1>2. CASE OUTPUT
  <2> DEFINE e == CASE Instr.src = STACK -> Reach(0)
                    [] Instr.src \in Indirect -> Legal(IsReg(Instr.dst))
                    [] OTHER -> Legal(IsReg(Instr.src) \/ Instr.src \in Constants)
  <2>1. CASE Keep  BY <2>1, KeepWithin
  <2>2. CASE Instr.src = STACK /\ e = Done /\ Set(Cleared(oVMArgStack, 1), oRegs, iFlags)
    <3>1. e = Reach(0)  BY <2>2 DEF Indirect, STACK, IND_VAL, IND_STR
    <3>2. CanClear(oVMArgStack, 0 + 1)
      <4> HIDE DEF e
      <4> QED BY <2>2, <3>1, Reached
    <3> QED BY <2>2, <3>2, DataIs, DropWithin
  <2> QED BY <1>2, <2>1, <2>2 DEF OUTPUT, Either, CDTException
<1>3. CASE REPLACE
  <2> DEFINE found == IF IsReg(Instr.src) THEN {oRegs[Instr.src]} ELSE Values
             legal == IsReg(Instr.src) \/ (Instr.src \in Indirect /\ (IsReg(Instr.dst) \/ Instr.dst = STACK))
  <2>1. found \subseteq Values  BY DataIs DEF IsReg
  <2>2. CASE Keep  BY <2>2, KeepWithin
  <2>3. CASE Then(Legal(legal), Reach(0)) = Done /\ \E v \in found : SetElem(0, v)
    <3>1. Reach(0) = Done
      <4> HIDE DEF legal
      <4> QED BY <2>3, ThenDone
    <3> HIDE DEF found
    <3> QED BY <2>1, <2>3, <3>1, SetElemWithin
  <2> QED BY <1>3, <2>2, <2>3 DEF REPLACE, Either, CDTException
<1>4. CASE EXIST \/ DEFINED
  <2>1. CASE Keep  BY <2>1, KeepWithin
  <2>2. ASSUME NEW h \in BOOLEAN, Set(oVMArgStack, oRegs, IF h THEN {"EQ"} ELSE {"NE"})
        PROVE  Within
    BY <2>2, DataIs, SameInFrame, SetWithin DEF Flags
  <2> QED BY <1>4, <2>1, <2>2 DEF EXIST, DEFINED, Test, Either, Holds
<1>5. CASE REPLINT \/ REPLSTR \/ REPLIND
  <2>1. CASE Keep  BY <2>1, KeepWithin
  <2>2. CASE Then(OperandError, Reach(0)) = Done /\ \E v \in Values : SetElem(0, v)
    <3>1. Reach(0) = Done  BY <2>2, ThenDone
    <3> QED BY <2>2, <3>1, SetElemWithin
  <2> QED BY <1>5, <2>1, <2>2 DEF REPLINT, REPLSTR, REPLIND, Descend, Either, CDTException
<1>6. CASE XCHG
  <2>1. Instr.arg \in Nat  BY <1>6, InstrIs DEF XCHG
  <2>2. \/ Keep
        \/ /\ Then(Legal(Instr.src = STACK), Then(Reach(Instr.arg), Legal(Instr.dst = STACK))) = Done
           /\ Set(Stored(WithElem(Instr.arg, Elem(0)), TopPos(oVMArgStack, 0), Elem(Instr.arg)),
                  oRegs, iFlags)
    BY <1>6 DEF XCHG, Either
  <2>3. Then(Legal(Instr.src = STACK), Then(Reach(Instr.arg), Legal(Instr.dst = STACK))) = Done
          => Reach(Instr.arg) = Done
    BY ThenDone
  <2> QED BY <2>1, <2>2, <2>3, KeepWithin, ExchangedWithin
<1> QED BY <1>1, <1>2, <1>3, <1>4, <1>5, <1>6 DEF Others

(* SAVEBP and RESTBP move the frame and leave the elements alone. *)
Reframed ==
  /\ GoodStack(oVMArgStack')
  /\ oVMArgStack'.aStack = oVMArgStack.aStack
  /\ UNCHANGED <<oRegs, iFlags>>

LEMMA FramesReframed ==
  ASSUME DataReady, SAVEBP \/ RESTBP
  PROVE  Within \/ Reframed
<1> USE DEF DataReady
<1>1. GoodStack(oVMArgStack)  BY DataIs
<1>2. CASE Undefined  BY <1>2, UndefinedWithin
<1>3. CASE SAVEBP /\ ~Undefined
  <2>1. Instr.arg \in Nat  BY <1>3, InstrIs DEF SAVEBP
  <2>2. /\ TopPos(oVMArgStack, Instr.arg) <= Base(oVMArgStack)
        /\ Set(BaseSaved(oVMArgStack, Instr.arg), oRegs, iFlags)
    BY <1>3 DEF SAVEBP
  <2>3. Instr.arg <= Base(oVMArgStack) - oVMArgStack.iStackPointer
    BY <1>1, <2>1, <2>2, BaseInArray DEF TopPos
  <2>4. GoodStack(BaseSaved(oVMArgStack, Instr.arg))  BY <1>1, <2>1, <2>3, SavedGood
  <2>5. BaseSaved(oVMArgStack, Instr.arg).aStack = oVMArgStack.aStack
    BY <1>1 DEF BaseSaved, GoodStack, StackType
  <2> QED BY <2>2, <2>4, <2>5 DEF Set, Reframed
<1>4. CASE RESTBP /\ ~Undefined
  <2>1. /\ Len(oVMArgStack.vBasePointers) > 1
        /\ Set(BaseRestored(oVMArgStack), oRegs, iFlags)
    BY <1>4 DEF RESTBP
  <2>2. GoodStack(BaseRestored(oVMArgStack))  BY <1>1, <2>1, RestoredGood
  <2>3. BaseRestored(oVMArgStack).aStack = oVMArgStack.aStack
    BY <1>1 DEF BaseRestored, GoodStack, StackType
  <2> QED BY <2>1, <2>2, <2>3 DEF Set, Reframed
<1> QED BY <1>2, <1>3, <1>4

(* The name is drawn from the frame, and the arguments after it move up. *)
LEMMA DrawnInFrame ==
  ASSUME DataInv, NEW n \in Nat, Reach(n) = Done
  PROVE  InFrame(oVMArgStack, Drawn(oVMArgStack, n))
<1> DEFINE sp == oVMArgStack.iStackPointer
           a  == [p \in Positions |->
                    IF p \in sp + 1..sp + n THEN oVMArgStack.aStack[p - 1] ELSE oVMArgStack.aStack[p]]
<1>1. /\ GoodStack(oVMArgStack) /\ oVMArgStack \in StackType
      /\ sp \in 0..iMaxStackSize /\ iMaxStackSize \in Nat
      /\ Base(oVMArgStack) \in 0..iMaxStackSize
      /\ sp + n < Base(oVMArgStack)
  <2>1. GoodStack(oVMArgStack) /\ Access(oVMArgStack, TopPos(oVMArgStack, n)) = Done
    BY DataIs DEF Reach
  <2> QED BY <2>1, AccessInArray, BaseInArray DEF TopPos, GoodStack
<1>2. a \in [Positions -> Values]
  <2>1. \A p \in Positions : oVMArgStack.aStack[p] \in Values  BY <1>1 DEF StackType
  <2>2. \A p \in Positions : p \in sp + 1..sp + n => p - 1 \in Positions
    BY <1>1 DEF Positions
  <2> QED BY <2>1, <2>2
<1>3. \A p \in Positions : p >= Base(oVMArgStack) => a[p] = oVMArgStack.aStack[p]
  BY <1>1 DEF Positions
<1>4. sp + 1 \in Nat /\ sp + 1 <= Base(oVMArgStack)  BY <1>1
<1>5. Drawn(oVMArgStack, n) = [oVMArgStack EXCEPT !.iStackPointer = sp + 1, !.aStack = a]
  BY DEF Drawn
<1>6. InFrame(oVMArgStack, [oVMArgStack EXCEPT !.iStackPointer = sp + 1, !.aStack = a])
  <2> HIDE DEF a
  <2> QED BY <1>1, <1>2, <1>3, <1>4, MovedInFrame
<1> QED BY <1>5, <1>6

LEMMA SyscallWithin ==
  ASSUME DataReady, SYSCALL
  PROVE  Within
<1> USE DEF DataReady
<1> DEFINE s == Cleared(oVMArgStack, Instr.args)
<1>1. Instr.args \in Nat  BY InstrIs DEF SYSCALL
<1>2. GoodStack(oVMArgStack)  BY DataIs
<1>3. \/ Keep \/ Undefined
      \/ /\ UNCHANGED <<oRegs, iFlags>>
         /\ \/ UNCHANGED oVMArgStack
            \/ CanClear(oVMArgStack, Instr.args) /\ oVMArgStack' = s
            \/ /\ CanClear(oVMArgStack, Instr.args) /\ CanPush(s)
               /\ \E v \in Values : oVMArgStack' = Pushed(s, v)
  BY DEF SYSCALL
<1>4. CanClear(oVMArgStack, Instr.args) => InFrame(oVMArgStack, s)
  BY <1>1, <1>2, ClearedInFrame
<1>5. ASSUME CanClear(oVMArgStack, Instr.args), CanPush(s), NEW v \in Values
      PROVE  InFrame(oVMArgStack, Pushed(s, v))
  <2>1. InFrame(oVMArgStack, s)  BY <1>4, <1>5
  <2> HIDE DEF s
  <2>2. InFrame(s, Pushed(s, v))  BY <1>5, <2>1, PushedInFrame DEF InFrame
  <2> QED BY <2>1, <2>2, InFrameTransitive
<1> HIDE DEF s
<1> QED BY <1>2, <1>3, <1>4, <1>5, DataIs, SameInFrame, KeepWithin, UndefinedWithin DEF Within

LEMMA LoopWithin ==
  ASSUME DataReady, LOOP
  PROVE  Within
<1> USE DEF DataReady
<1> DEFINE left == Decremented(oRegs[Instr.src])
           regs == WithReg(Instr.src, left)
           legal == IsReg(Instr.src) /\ IsReg(Instr.dst)
<1>1. \/ Keep
      \/ /\ Then(StepLimit, Legal(legal)) = Done
         /\ \/ Set(oVMArgStack, regs, iFlags)
            \/ \E n \in Incremented(regs[Instr.dst]) :
                 Set(oVMArgStack, [regs EXCEPT ![Instr.dst] = n], iFlags)
  BY DEF LOOP, Either, CDTException
<1>2. Then(StepLimit, Legal(legal)) = Done => legal
  <2>1. legal \in BOOLEAN  BY DEF IsReg
  <2> HIDE DEF legal
  <2> QED BY <2>1, ThenDone, LegalDone
<1>3. legal => regs \in [Registers -> Values]
  BY DataIs, SmallValues DEF IsReg, WithReg
<1>4. ASSUME legal, NEW n \in Incremented(regs[Instr.dst])
      PROVE  [regs EXCEPT ![Instr.dst] = n] \in [Registers -> Values]
  <2>1. regs \in [Registers -> Values] /\ Instr.dst \in Registers  BY <1>3, <1>4 DEF IsReg
  <2> HIDE DEF regs
  <2>2. n \in Values  BY <1>4, <2>1, SmallValues
  <2> QED BY <2>1, <2>2
<1>5. GoodStack(oVMArgStack) /\ iFlags \subseteq Flags  BY DataIs
<1>6. InFrame(oVMArgStack, oVMArgStack)  BY <1>5, SameInFrame
<1> HIDE DEF regs, legal
<1> QED BY <1>1, <1>2, <1>3, <1>4, <1>5, <1>6, KeepWithin, SetWithin

LEMMA TransfersWithin ==
  ASSUME DataReady, Transfers
  PROVE  Within
<1> USE DEF DataReady
<1>1. CASE CALL \/ RCALL \/ JMP \/ RJMP \/ JXX \/ RJXX
  BY <1>1, KeepWithin
  DEF CALL, RCALL, JMP, RJMP, JXX, RJXX, CallTo, JumpIf, JumpTo, Either
<1>2. ASSUME NEW name, NEW s, CallByName(name, s), InFrame(oVMArgStack, s)
      PROVE  Within
  BY <1>2, DataIs, SetWithin DEF CallByName
<1>3. InFrame(oVMArgStack, oVMArgStack)  BY DataIs, SameInFrame
<1>4. CASE RET
  <2>1. Instr.arg \in Nat  BY <1>4, InstrIs DEF RET
  <2> DEFINE drop == IF CanClear(oVMArgStack, Instr.arg) THEN Done ELSE Underflow
  <2>2. \/ Keep
        \/ /\ Then(StepLimit, drop) = Done
           /\ Set(Cleared(oVMArgStack, Instr.arg), oRegs, iFlags)
    BY <1>4 DEF RET, Either
  <2>3. Then(StepLimit, drop) = Done => drop = Done
    <3> HIDE DEF drop
    <3> QED BY ThenDone
  <2>4. drop = Done => CanClear(oVMArgStack, Instr.arg)  BY OutcomeAssumption
  <2> HIDE DEF drop
  <2> QED BY <2>1, <2>2, <2>3, <2>4, DataIs, KeepWithin, DropWithin
<1>5. CASE CALLNAME
  BY <1>2, <1>3, <1>5 DEF CALLNAME
<1>6. CASE CALLIND
  <2> DEFINE s == IF Instr.src = STACK THEN Drawn(oVMArgStack, Instr.arg) ELSE oVMArgStack
  <2>1. Instr.arg \in Nat  BY <1>6, InstrIs DEF CALLIND
  <2>2. \/ Keep
        \/ OperandError = Done /\ (Set(s, oRegs, iFlags) \/ CallByName(Operand, s))
    BY <1>6 DEF CALLIND, Either
  <2>3. OperandError = Done => InFrame(oVMArgStack, s)
    BY <1>3, <2>1, DrawnInFrame DEF OperandError
  <2> HIDE DEF s
  <2> QED BY <1>2, <2>2, <2>3, DataIs, KeepWithin, SetWithin
<1> QED BY <1>1, <1>4, <1>5, <1>6, LoopWithin, SyscallWithin DEF Transfers

LEMMA StopsWithin ==
  ASSUME DataReady, Stops
  PROVE  Within
  BY KeepWithin DEF DataReady, Stops, HLT, BRK, NOP, Illegal, Finish, Halt, Keep

(* Every iteration of the loop. *)
LEMMA StepWithin ==
  ASSUME DataReady, Step
  PROVE  Within \/ Reframed
  BY TransfersWithin, MovesWithin, StacksWithin, ComputesWithin, OthersWithin, FramesReframed, StopsWithin
  DEF Step

(* What a run begins on is what the last one left, or what Reset makes of  *)
(* it; neither touches an element.                                         *)
LEMMA BetweenRunsData ==
  ASSUME DataInv, (\E p \in Programs : InitProgram(p)) \/ (\E v \in Values : Run(0, v)) \/ Reset
  PROVE  DataInv' /\ oVMArgStack'.aStack = oVMArgStack.aStack
<1> USE DataIs
<1>1. DataInv' <=> /\ GoodStack(oVMArgStack')
                   /\ oRegs' \in [Registers -> Values]
                   /\ iFlags' \subseteq Flags
  BY DEF DataInv, DataTypeOK, FramesNested, GoodStack
<1>2. CASE \E p \in Programs : InitProgram(p)
  BY <1>1, <1>2 DEF InitProgram, data
<1>3. CASE \E v \in Values : Run(0, v)
  BY <1>1, <1>3 DEF Run
<1>4. CASE Reset
  <2>1. GoodStack(oVMArgStack') /\ oVMArgStack'.aStack = oVMArgStack.aStack
    BY <1>4, ResetGood DEF Reset, ResetOf, GoodStack, StackType
  <2> QED BY <1>1, <1>4, <2>1, SmallValues DEF Reset
<1> QED BY <1>2, <1>3, <1>4

LEMMA StepKeepsData ==
  ASSUME DataReady, Step
  PROVE  /\ DataInv'
         /\ \A p \in Positions :
              p >= Base(oVMArgStack) => oVMArgStack'.aStack[p] = oVMArgStack.aStack[p]
<1>1. DataInv' <=> /\ GoodStack(oVMArgStack')
                   /\ oRegs' \in [Registers -> Values]
                   /\ iFlags' \subseteq Flags
  BY DEF DataInv, DataTypeOK, FramesNested, GoodStack
<1>2. CASE Within  BY <1>1, <1>2 DEF Within, InFrame
<1>3. CASE Reframed  BY <1>1, <1>3, DataIs DEF Reframed, DataReady
<1> QED BY <1>2, <1>3, StepWithin

LEMMA DataInit ==
  ASSUME Init
  PROVE  DataInv
  BY DataIs, EmptyGood, SmallValues, MachineFlags DEF Init

(* The flags, the registers and the stack hold values of their types and   *)
(* the frames stay nested, whatever the program and whatever its operands: *)
(* over all the opcodes, and when a run starts on what the exception of an *)
(* earlier one left (Run's loop, and VMArgStack's own tests, which are all *)
(* that keeps the pointers inside of the array).                           *)
THEOREM VMDataInvariant == Spec => []DataInv
<1>1. Init => DataInv  BY DataInit
<1>2. ControlInv /\ DataInv /\ [Next]_vars => DataInv'
  <2> SUFFICES ASSUME ControlInv, DataInv, [Next]_vars  PROVE DataInv'
    OBVIOUS
  <2>1. CASE Step  BY <2>1, StepKeepsData DEF DataReady, ControlInv
  <2>2. CASE UNCHANGED vars
    BY <2>2 DEF vars, data, DataInv, DataTypeOK, FramesNested
  <2> QED BY <2>1, <2>2, BetweenRunsData DEF Next
<1> QED BY <1>1, <1>2, VMControlInvariant, PTL DEF Spec

(* In no state do the base pointers cross each other or the stack pointer  *)
(* (SAVEBP and RESTBP, lines 2240-2262, test nothing themselves).          *)
THEOREM VMFramesNested == Spec => []FramesNested
<1>1. DataInv => FramesNested  BY DEF DataInv
<1> QED BY <1>1, VMDataInvariant, PTL

(* No opcode, whatever it chains of pushes, pops and assignments, changes  *)
(* an element above the newest base pointer: a block's caller finds its    *)
(* own elements as it left them.                                           *)
THEOREM VMCallersKept == Spec => CallersKept
<1>1. ControlInv /\ DataInv /\ [Next]_vars
        => [\A p \in Positions :
              p >= Base(oVMArgStack) => oVMArgStack'.aStack[p] = oVMArgStack.aStack[p]]_vars
  <2> SUFFICES ASSUME ControlInv, DataInv, Next
               PROVE  \A p \in Positions :
                        p >= Base(oVMArgStack) => oVMArgStack'.aStack[p] = oVMArgStack.aStack[p]
    OBVIOUS
  <2>1. CASE Step  BY <2>1, StepKeepsData DEF DataReady, ControlInv
  <2> QED BY <2>1, BetweenRunsData DEF Next
<1> QED BY <1>1, VMControlInvariant, VMDataInvariant, PTL DEF Spec, CallersKept

-----------------------------------------------------------------------------
(* The map of syscalls. *)

(* Init leaves a program ready only when the factory knew every name, and  *)
(* then it has filled an entry for each, in the new map or in the old.     *)
LEMMA LoadedResolved ==
  ASSUME CallsInv, NEW p \in Programs, InitProgram(p)
  PROVE  CallsInv'
<1> DEFINE n == Len(p.syscalls)
<1>1. n \in Nat  BY ProgramsAssumption DEF WellFormed
<1>2. iMaxCalls \in Nat  BY DEF CallsInv, CallsResolved
<1>3. iMaxCalls' \in Nat /\ n <= iMaxCalls'  BY <1>1, <1>2 DEF InitProgram
<1>4. ASSUME status' \in {"ready", "running"}, NEW c \in 0..n - 1
      PROVE  c \in DOMAIN aCallTranslationMap' /\ aCallTranslationMap'[c] = p.syscalls[c + 1]
  <2>1. Filled(p) = n  BY <1>4 DEF InitProgram, Filled
  <2>2. c \in 0..iMaxCalls' - 1 /\ c < Filled(p)
    <3>1. \A m \in Nat, k \in Nat : k <= m => \A d \in 0..k - 1 : d \in 0..m - 1 /\ d < k
      OBVIOUS
    <3> HIDE DEF n
    <3>2. c \in 0..iMaxCalls' - 1  BY <1>1, <1>3, <3>1
    <3>3. c < n  BY <1>1, <3>1
    <3> QED BY <2>1, <3>2, <3>3
  <2> QED BY <2>2 DEF InitProgram
<1>5. program' = p /\ UNCHANGED dispatched  BY DEF InitProgram, data
<1> QED BY <1>3, <1>4, <1>5 DEF CallsInv, CallsResolved, DispatchesOwn

(* A syscall, and what is not one. *)
LEMMA StepDispatchesOwn ==
  ASSUME ControlInv, CallsInv, Step
  PROVE  DispatchesOwn'
<1>1. CASE UNCHANGED dispatched
  BY <1>1 DEF CallsInv, DispatchesOwn
<1>2. CASE SYSCALL /\ ~UNCHANGED dispatched
  <2>1. dispatched' = <<aCallTranslationMap[Instr.arg],
                        IF Instr.arg < Len(program.syscalls)
                        THEN program.syscalls[Instr.arg + 1] ELSE Unknown>>
    BY <1>2 DEF SYSCALL, Keep, Undefined, data
  <2>2. status = "running" /\ Instr.arg \in Nat /\ Len(program.syscalls) \in Nat
    BY <1>2, InstrOperands DEF SYSCALL, ControlInv, ControlTypeOK, WellFormed
  <2>3. Instr.arg < Len(program.syscalls)
          => aCallTranslationMap[Instr.arg] = program.syscalls[Instr.arg + 1]
    BY <2>2 DEF CallsInv, CallsResolved
  <2> QED BY <2>1, <2>3 DEF DispatchesOwn
<1>3. SYSCALL \/ UNCHANGED dispatched
  <2> USE DEF Either, Keep, data, Set, Undefined, Halt, CDTException, SetReg, SetElem
  <2>1. CASE Transfers
    BY <2>1 DEF Transfers, CALL, RCALL, JMP, RJMP, JXX, RJXX, RET, LOOP, CALLNAME, CALLIND, CallTo, JumpIf,
                JumpTo, CallByName
  <2>2. CASE Moves
    BY <2>2 DEF Moves, MOV, MOVIINT, MOVISTR, IMOVINT, IMOVSTR, MOVSIZE, MOVIREGI, MOVIREGS, AnyToReg,
                StoreInside
  <2>3. CASE Stacks
    BY <2>3 DEF Stacks, PUSH, POP, PUSH13, PUSH47, PUSHA, POP13, POP47, POPA, PushRegisters, PopRegisters
  <2>4. CASE Computes
    BY <2>4 DEF Computes, ARITHMETIC, IDIV, MOD, INC, DEC, NEG, NOT, CMP, SCMP, Compare, Assign, StepTo,
                Reduce
  <2>5. CASE Others
    BY <2>5 DEF Others, CLEAR, OUTPUT, REPLACE, EXIST, DEFINED, Test, REPLINT, REPLSTR, REPLIND, Descend,
                XCHG, SAVEBP, RESTBP
  <2>6. CASE Stops
    BY <2>6 DEF Stops, HLT, BRK, NOP, Illegal, Finish
  <2> QED BY <2>1, <2>2, <2>3, <2>4, <2>5, <2>6 DEF Step
<1> QED BY <1>1, <1>2, <1>3

LEMMA CallsStep ==
  ASSUME ControlInv, CallsInv, [Next]_vars
  PROVE  CallsInv'
<1>1. CASE Step
  <2>1. status = "running" /\ UNCHANGED loaded
    BY <1>1, StepEnds
    DEF ControlInv, Ends, Stopped, Advanced, Advance, Limited, Entered, Enter, Going
  <2> QED BY <1>1, <2>1, StepDispatchesOwn DEF CallsInv, CallsResolved, loaded
<1>2. CASE \E p \in Programs : InitProgram(p)  BY <1>2, LoadedResolved
<1>3. CASE (\E v \in Values : Run(0, v)) \/ Reset \/ UNCHANGED vars
  BY <1>3 DEF Run, Reset, vars, loaded, data, CallsInv, CallsResolved, DispatchesOwn
<1> QED BY <1>1, <1>2, <1>3 DEF Next

LEMMA CallsInit ==
  ASSUME Init
  PROVE  CallsInv
  BY DEF Init, CallsInv, CallsResolved, DispatchesOwn

(* A syscall instruction reaches the handler the program names, also on a  *)
(* machine that keeps the larger map of an earlier program or one half     *)
(* filled when Init failed (VM::Init, lines 126-156, and SYSCALL, line     *)
(* 225).                                                                   *)
THEOREM VMDispatchesOwn == Spec => []DispatchesOwn
<1>1. Init => CallsInv  BY CallsInit
<1>2. ControlInv /\ CallsInv /\ [Next]_vars => CallsInv'  BY CallsStep
<1>3. CallsInv => DispatchesOwn  BY DEF CallsInv
<1> QED BY <1>1, <1>2, <1>3, VMControlInvariant, PTL DEF Spec

(* The three parts together: the invariant the runs check.                 *)
THEOREM VMInvariant == Spec => []IInv
<1>1. Init => CallsInv  BY CallsInit
<1>2. ControlInv /\ CallsInv /\ [Next]_vars => CallsInv'  BY CallsStep
<1>3. ControlInv /\ DataInv /\ CallsInv => IInv  BY DEF IInv
<1> QED BY <1>1, <1>2, <1>3, VMControlInvariant, VMDataInvariant, PTL DEF Spec

-----------------------------------------------------------------------------
(***************************************************************************)
(* Third part: the table those handlers are in (SyscallFactory).           *)
(*                                                                         *)
(* The invariant says of each name of the library, after the turns that    *)
(* the set-up and the destructor have made so far, whether its handler is  *)
(* in its slot, was too many for the table, was taken out or was deleted.  *)
(* No handler is in two slots: without this the destructor could delete    *)
(* one by its name and leave it in another slot.                           *)
(***************************************************************************)

Size == Len(aSTDFNList)

(* The list names no function twice. *)
LEMMA NamedOnce ==
  /\ Size = 50 /\ DOMAIN aSTDFNList = 1..50
  /\ \A i, j \in 1..Size : aSTDFNList[i] = aSTDFNList[j] => i = j
<1> DEFINE l == aSTDFNList
           u == "_"
<1>1. Len(l) = 50 /\ DOMAIN l = 1..50
  BY DEF aSTDFNList
<1>2. u \notin {
         "__ctpp2_emitter", "avg", "attr_in_array", "base64_encode",
         "base64_decode", "cast", "concat", "context", "date_format",
         "default", "defined", "english_spellout", "error", "form_param",
         "gettext", "get_type", "hash_keys", "href_param", "hostname",
         "htmlescape", "in_set", "in_array", "jsonescape", "json", "list",
         "list_element", "log", "min", "max", "mb_size", "mb_substr",
         "mb_truncate", "num_format", "obj_dump", "random", "replace",
         "russian_plural", "russian_spellout", "size", "sprintf", "substr",
         "time", "truncate", "ucfirst", "uriescape", "urlescape", "version",
         "xmlescape", "wmlescape"}
  OBVIOUS
<1>3. l[1] = "__ctpp2_emitter" /\ l[2] = "avg" /\ l[3] = "attr_in_array" /\
      l[4] = "base64_encode" /\ l[5] = "base64_decode" /\ l[6] = "cast" /\
      l[7] = "concat" /\ l[8] = "context" /\ l[9] = "date_format" /\
      l[10] = "default" /\ l[11] = "defined" /\
      l[12] = "english_spellout" /\ l[13] = "error" /\
      l[14] = "form_param" /\ l[15] = u /\ l[16] = "gettext" /\
      l[17] = "get_type" /\ l[18] = "hash_keys" /\ l[19] = "href_param" /\
      l[20] = "hostname" /\ l[21] = "htmlescape" /\ l[22] = "in_set" /\
      l[23] = "in_array" /\ l[24] = "jsonescape" /\ l[25] = "json" /\
      l[26] = "list" /\ l[27] = "list_element" /\ l[28] = "log" /\
      l[29] = "min" /\ l[30] = "max" /\ l[31] = "mb_size" /\
      l[32] = "mb_substr" /\ l[33] = "mb_truncate" /\
      l[34] = "num_format" /\ l[35] = "obj_dump" /\ l[36] = "random" /\
      l[37] = "replace" /\ l[38] = "russian_plural" /\
      l[39] = "russian_spellout" /\ l[40] = "size" /\ l[41] = "sprintf" /\
      l[42] = "substr" /\ l[43] = "time" /\ l[44] = "truncate" /\
      l[45] = "ucfirst" /\ l[46] = "uriescape" /\ l[47] = "urlescape" /\
      l[48] = "version" /\ l[49] = "xmlescape" /\ l[50] = "wmlescape"
  BY DEF aSTDFNList
<1> HIDE DEF u, l
<1>4. \A i, j \in 1..50 : l[i] = l[j] => i = j
  BY <1>2, <1>3
<1> QED BY <1>1, <1>4 DEF l, Size

LEMMA NamesAreFolded ==
  ASSUME NEW i \in 1..Size
  PROVE  aSTDFNList[i] \in LibraryNames /\ Folded(aSTDFNList[i]) = aSTDFNList[i]
<1>1. aSTDFNList[i] \in LibraryNames
  BY NamedOnce DEF LibraryNames, Size
<1> QED BY <1>1, SpelledAssumption DEF Folded


(* The handler of the name at a place of the list. *)
Own(i) == LibraryHandler(aSTDFNList[i])

LEMMA OwnIs ==
  ASSUME NEW i \in 1..Size
  PROVE  /\ Own(i).owner = "library" /\ Own(i).name = aSTDFNList[i]
         /\ Own(i) # NoHandler /\ Folded(Own(i).name) = aSTDFNList[i]
         /\ \A j \in 1..Size : Own(j) = Own(i) => i = j
<1>1. \A j \in 1..Size : Own(j).name = aSTDFNList[j]
  BY DEF Own, LibraryHandler
<1>2. Own(i).owner = "library" /\ NoHandler.owner = "nobody"
  BY DEF Own, LibraryHandler, NoHandler
<1>3. \A j \in 1..Size : Own(j) = Own(i) => i = j
  BY <1>1, NamedOnce
<1>4. Own(i) # NoHandler
  BY <1>2
<1> QED BY <1>1, <1>2, <1>3, <1>4, NamesAreFolded

(* A name leads to a slot with a handler that exists and has the name.     *)
Leading ==
  \A f \in DOMAIN refs :
    refs[f] \in DOMAIN slots /\ slots[refs[f]] \in live /\ Folded(slots[refs[f]].name) = f
(* No handler is in two slots.                                             *)
Single ==
  \A i, j \in DOMAIN slots : slots[i] = slots[j] /\ slots[i] # NoHandler => i = j
(* The handlers that exist are the library's, or have another name.        *)
Owned ==
  \A h \in live :
    \/ h.owner = "user" /\ Folded(h.name) \notin LibraryNames
    \/ \E i \in 1..Size : h = Own(i)
Sound ==
  /\ max \in Nat /\ slots \in Seq(live \cup {NoHandler}) /\ Len(slots) <= max
  /\ Leading /\ Single /\ Owned
(* The handlers of the library when n turns of the set-up and m of the     *)
(* destructor are made: under their names are those the table had room for *)
(* and nobody took out, and it is these that the destructor deletes.       *)
Kept(n, m) ==
  /\ \A i \in 1..Size :
       /\ Own(i) \in live <=> i <= n /\ (i > m \/ i > max \/ Own(i) \in removed)
       /\ aSTDFNList[i] \in DOMAIN refs <=> i <= n /\ i > m /\ i <= max /\ Own(i) \notin removed
       /\ Own(i) \in removed => i <= max
  /\ \A h \in removed : h.owner = "library" => \E i \in 1..Size : h = Own(i)
Calling ==
  \E prog \in CalledNames :
    /\ DOMAIN calls = DOMAIN prog
    /\ \A i \in DOMAIN prog : calls[i] \in live /\ Folded(calls[i].name) = Folded(prog[i])
Left ==
  {h \in live : h.owner = "library"} =
    {LibraryHandler(aSTDFNList[i]) : i \in max + 1 .. Len(aSTDFNList)}
      \cup {h \in removed : h.owner = "library"}
Lesser(n) == IF n <= max THEN n ELSE max
FactoryInv ==
  /\ phase \in {"constructing", "ready", "running", "destructing", "down"}
  /\ phase # "down" => Sound
  /\ phase = "constructing" =>
       /\ aFunctions \in 1..Size /\ Kept(aFunctions - 1, 0)
       /\ removed = {} /\ Len(slots) = Lesser(aFunctions - 1)
  /\ phase \in {"ready", "running"} => Kept(Size, 0)
  /\ phase = "running" => Calling
  /\ phase = "destructing" => aFunctions \in 1..Size /\ Kept(Size, aFunctions - 1)
  /\ phase = "down" => Left

LEMMA FactoryStart == FactoryInit => FactoryInv
<1> SUFFICES ASSUME FactoryInit PROVE FactoryInv
  OBVIOUS
<1>1. max \in Nat /\ phase = "constructing" /\ aFunctions = 1 /\ live = {}
  BY SizesAssumption DEF FactoryInit
<1>2. slots = <<>> /\ DOMAIN refs = {} /\ removed = {}
  BY DEF FactoryInit
<1>3. slots \in Seq(live \cup {NoHandler}) /\ Len(slots) = 0 /\ DOMAIN slots = {}
  <2> DEFINE none == <<>>
  <2>1. slots = none
    BY <1>2
  <2>2. none \in Seq(live \cup {NoHandler}) /\ Len(none) = 0 /\ DOMAIN none = {}
    OBVIOUS
  <2> QED BY <1>2, <2>1, <2>2
<1>4. Sound
  BY <1>1, <1>2, <1>3 DEF Sound, Leading, Single, Owned
<1>5. Kept(0, 0) /\ Lesser(0) = 0
  BY <1>1, <1>2, NamedOnce DEF Kept, Lesser
<1>6. aFunctions \in 1..Size /\ aFunctions - 1 = 0
  BY <1>1, NamedOnce
<1> QED BY <1>1, <1>2, <1>3, <1>4, <1>5, <1>6 DEF FactoryInv

(* NoHandler does not exist. *)
LEMMA NobodyLives ==
  ASSUME Owned
  PROVE  NoHandler \notin live
<1>1. NoHandler.owner = "nobody"
  BY DEF NoHandler
<1> QED BY <1>1, OwnIs DEF Owned

LEMMA FactoryPhases == FactoryInv => NamesResolve
<1> SUFFICES ASSUME FactoryInv PROVE NamesResolve
  OBVIOUS
<1>1. phase # "down" => Leading /\ \A i \in DOMAIN slots : slots[i] \in live \cup {NoHandler}
  BY DEF FactoryInv, Sound
<1> QED BY <1>1 DEF FactoryInv, NamesResolve, Leading, Calling, Left


(* What registering does to a table with room, and to one without.         *)
LEMMA RegisteredIs ==
  ASSUME NEW t, NEW h, h # NoHandler, NEW S, t.slots \in Seq(S), max \in Nat
  PROVE  LET r == RegisterHandler(t, h)
             f == Folded(h.name)
         IN /\ Len(t.slots) = max => r = t
            /\ Len(t.slots) # max =>
                 /\ r.slots = Append(t.slots, h)
                 /\ DOMAIN r.refs = DOMAIN t.refs \cup {f}
                 /\ \A g \in DOMAIN t.refs : r.refs[g] = t.refs[g]
                 /\ f \notin DOMAIN t.refs => r.refs[f] = Len(t.slots) + 1
<1> DEFINE f == Folded(h.name)
           r == RegisterHandler(t, h)
           moved == [g \in DOMAIN t.refs \cup {f} |-> IF g \in DOMAIN t.refs THEN t.refs[g] ELSE Len(t.slots) + 1]
           more == Append(t.slots, h)
<1>1. CASE Len(t.slots) = max
  BY <1>1 DEF RegisterHandler
<1>2. CASE Len(t.slots) # max
  <2>1. r = [slots |-> more, refs |-> moved]
    BY <1>2 DEF RegisterHandler
  <2>2. /\ DOMAIN moved = DOMAIN t.refs \cup {f}
        /\ \A g \in DOMAIN t.refs : moved[g] = t.refs[g]
        /\ f \notin DOMAIN t.refs => moved[f] = Len(t.slots) + 1
    OBVIOUS
  <2> HIDE DEF r, moved, more
  <2>3. r.slots = more /\ r.refs = moved
    BY <2>1
  <2> QED BY <1>2, <2>2, <2>3 DEF r, more
<1> QED BY <1>1, <1>2

LEMMA RemovedIs ==
  ASSUME NEW t, NEW name
  PROVE  LET r == RemoveHandler(t, name)
             f == Folded(name)
         IN /\ DOMAIN r.refs = DOMAIN t.refs \ {f}
            /\ \A g \in DOMAIN t.refs \ {f} : r.refs[g] = t.refs[g]
            /\ f \notin DOMAIN t.refs => r.slots = t.slots
            /\ f \in DOMAIN t.refs => r.slots = [t.slots EXCEPT ![t.refs[f]] = NoHandler]
<1> DEFINE f == Folded(name)
           r == RemoveHandler(t, name)
           rest == [g \in DOMAIN t.refs \ {f} |-> t.refs[g]]
           holed == [t.slots EXCEPT ![t.refs[f]] = NoHandler]
<1>1. CASE f \notin DOMAIN t.refs
  <2>1. r = t
    BY <1>1 DEF RemoveHandler
  <2> QED BY <1>1, <2>1
<1>2. CASE f \in DOMAIN t.refs
  <2>1. r = [slots |-> holed, refs |-> rest]
    BY <1>2 DEF RemoveHandler
  <2>2. DOMAIN rest = DOMAIN t.refs \ {f} /\ \A g \in DOMAIN t.refs \ {f} : rest[g] = t.refs[g]
    OBVIOUS
  <2> HIDE DEF r, rest, holed
  <2>3. r.slots = holed /\ r.refs = rest
    BY <2>1
  <2> QED BY <1>2, <2>2, <2>3 DEF r, holed
<1> QED BY <1>1, <1>2

(* The handler a name of the library leads to is the library's.            *)
LEMMA LeadsToOwn ==
  ASSUME Leading, Owned, NEW i \in 1..Size, aSTDFNList[i] \in DOMAIN refs
  PROVE  slots[refs[aSTDFNList[i]]] = Own(i)
<1> DEFINE h == slots[refs[aSTDFNList[i]]]
<1>1. h \in live /\ Folded(h.name) = aSTDFNList[i]
  BY DEF Leading
<1>2. aSTDFNList[i] \in LibraryNames
  BY NamesAreFolded
<1>3. PICK j \in 1..Size : h = Own(j)
  BY <1>1, <1>2 DEF Owned
<1>4. Folded(h.name) = aSTDFNList[j]
  BY <1>3, OwnIs
<1> QED BY <1>1, <1>3, <1>4, NamedOnce

-----------------------------------------------------------------------------
(* The steps. *)

(* A handler that did not exist is made and registered, if there is room.  *)
LEMMA Registering ==
  ASSUME Sound, NEW h, h # NoHandler, h \notin live,
         SetTable(RegisterHandler(Table, h)), live' = live \cup {h}, max' = max
  PROVE  /\ slots' \in Seq(live' \cup {NoHandler}) /\ Len(slots') <= max'
         /\ Leading' /\ Single'
         /\ Len(slots) = max => Len(slots') = max /\ DOMAIN refs' = DOMAIN refs
         /\ Len(slots) # max =>
              Len(slots') = Len(slots) + 1 /\ DOMAIN refs' = DOMAIN refs \cup {Folded(h.name)}
<1> DEFINE r == RegisterHandler(Table, h)
           f == Folded(h.name)
           S == live' \cup {NoHandler}
           longer == Append(slots, h)
<1>1. /\ max \in Nat /\ Leading /\ Single /\ Len(slots) <= max
      /\ slots \in Seq(live \cup {NoHandler})
  BY DEF Sound
<1>2. Table.slots = slots /\ Table.refs = refs
  BY DEF Table
<1>3. /\ Len(slots) = max => r = Table
      /\ Len(slots) # max =>
           /\ r.slots = Append(slots, h)
           /\ DOMAIN r.refs = DOMAIN refs \cup {f}
           /\ \A g \in DOMAIN refs : r.refs[g] = refs[g]
           /\ f \notin DOMAIN refs => r.refs[f] = Len(slots) + 1
  <2>1. Table.slots \in Seq(live \cup {NoHandler})
    BY <1>1, <1>2
  <2> QED BY <1>1, <1>2, <2>1, RegisteredIs
<1>4. slots' = r.slots /\ refs' = r.refs
  <2>1. SetTable(r)
    OBVIOUS
  <2> HIDE DEF r
  <2> QED BY <2>1 DEF SetTable
<1> HIDE DEF r
<1>5. CASE Len(slots) = max
  <2>1. slots' = slots /\ refs' = refs
    BY <1>2, <1>3, <1>4, <1>5
  <2>2. slots' \in Seq(S)
    BY <1>1, <2>1
  <2>3. Leading' /\ Single'
    BY <1>1, <2>1 DEF Leading, Single
  <2> QED BY <1>1, <1>5, <2>1, <2>2, <2>3
<1>6. CASE Len(slots) # max
  <2>1. /\ slots' = longer
        /\ DOMAIN refs' = DOMAIN refs \cup {f}
        /\ \A g \in DOMAIN refs : refs'[g] = refs[g]
        /\ f \notin DOMAIN refs => refs'[f] = Len(slots) + 1
    BY <1>3, <1>4, <1>6
  <2>2. slots \in Seq(S) /\ h \in S /\ Len(slots) \in Nat
    BY <1>1
  <2> HIDE DEF S
  <2>3. /\ longer \in Seq(S) /\ Len(longer) = Len(slots) + 1
        /\ longer[Len(slots) + 1] = h
        /\ \A i \in 1..Len(slots) : longer[i] = slots[i]
    BY <2>2, AppendProperties
  <2>4. DOMAIN slots = 1..Len(slots) /\ DOMAIN longer = 1..Len(slots) + 1
    BY <2>2, <2>3, LenProperties
  <2> HIDE DEF longer
  <2>5. /\ slots' \in Seq(S) /\ Len(slots') = Len(slots) + 1
        /\ slots'[Len(slots) + 1] = h
        /\ \A i \in 1..Len(slots) : slots'[i] = slots[i]
        /\ DOMAIN slots = 1..Len(slots) /\ DOMAIN slots' = 1..Len(slots) + 1
    BY <2>1, <2>3, <2>4
  <2>6. Len(slots') <= max'
    <3>1. Len(slots) \in Nat /\ Len(slots) < max /\ max \in Nat
      BY <1>1, <1>6, <2>2
    <3>2. Len(slots') = Len(slots) + 1 /\ max' = max
      BY <2>5
    <3> QED BY <3>1, <3>2
  <2>7. ASSUME NEW g \in DOMAIN refs'
        PROVE  refs'[g] \in DOMAIN slots' /\ slots'[refs'[g]] \in live' /\ Folded(slots'[refs'[g]].name) = g
    <3>1. CASE g \in DOMAIN refs
      <4>1. refs[g] \in DOMAIN slots /\ slots[refs[g]] \in live /\ Folded(slots[refs[g]].name) = g
        BY <1>1, <3>1 DEF Leading
      <4>2. refs'[g] = refs[g] /\ refs[g] \in 1..Len(slots) /\ slots'[refs[g]] = slots[refs[g]]
        BY <2>1, <2>5, <3>1, <4>1
      <4> QED BY <2>2, <2>5, <4>1, <4>2
    <3>2. CASE g \notin DOMAIN refs
      <4>1. g = f /\ refs'[g] = Len(slots) + 1
        BY <2>1, <3>2
      <4> QED BY <2>2, <2>5, <4>1
    <3> QED BY <3>1, <3>2
  <2>8. Leading'
    BY <2>7 DEF Leading
  <2>9. ASSUME NEW i \in DOMAIN slots', NEW j \in DOMAIN slots', slots'[i] = slots'[j], slots'[i] # NoHandler
        PROVE  i = j
    <3>1. \A k \in 1..Len(slots) : slots'[k] = slots[k] /\ slots[k] # h
      BY <1>1, <2>5
    <3>2. \A k \in DOMAIN slots' : k \in 1..Len(slots) \/ k = Len(slots) + 1
      BY <2>2, <2>5
    <3>3. CASE i \in 1..Len(slots) /\ j \in 1..Len(slots)
      BY <1>1, <2>5, <2>9, <3>1, <3>3 DEF Single
    <3> QED BY <2>5, <2>9, <3>1, <3>2, <3>3
  <2>10. Single'
    BY <2>9 DEF Single
  <2> QED BY <1>6, <2>1, <2>5, <2>6, <2>8, <2>10 DEF S
<1> QED BY <1>5, <1>6

(* A name is forgotten, and the handler it led to is in no slot.           *)
LEMMA Removing ==
  ASSUME Sound, NEW name, Folded(name) \in DOMAIN refs,
         SetTable(RemoveHandler(Table, name)), max' = max,
         live' \subseteq live, live \ {slots[refs[Folded(name)]]} \subseteq live'
  PROVE  /\ slots' \in Seq(live' \cup {NoHandler}) /\ Len(slots') <= max'
         /\ Leading' /\ Single'
         /\ DOMAIN refs' = DOMAIN refs \ {Folded(name)}
<1> DEFINE r == RemoveHandler(Table, name)
           f == Folded(name)
           h == slots[refs[f]]
<1>1. /\ max \in Nat /\ Leading /\ Single /\ Len(slots) <= max
      /\ slots \in Seq(live \cup {NoHandler})
  BY DEF Sound
<1>2. Table.slots = slots /\ Table.refs = refs
  BY DEF Table
<1>3. slots' = r.slots /\ refs' = r.refs
  <2>1. SetTable(r)
    OBVIOUS
  <2> HIDE DEF r
  <2> QED BY <2>1 DEF SetTable
<1>4. /\ DOMAIN refs' = DOMAIN refs \ {f}
      /\ \A g \in DOMAIN refs \ {f} : refs'[g] = refs[g]
      /\ slots' = [slots EXCEPT ![refs[f]] = NoHandler]
  <2> DEFINE t == Table
  <2>1. /\ DOMAIN r.refs = DOMAIN t.refs \ {f}
        /\ \A g \in DOMAIN t.refs \ {f} : r.refs[g] = t.refs[g]
        /\ f \in DOMAIN t.refs => r.slots = [t.slots EXCEPT ![t.refs[f]] = NoHandler]
    BY RemovedIs
  <2>2. f \in DOMAIN refs
    OBVIOUS
  <2>3. t.slots = slots /\ t.refs = refs
    BY <1>2
  <2> HIDE DEF r, f, t
  <2> QED BY <1>3, <2>1, <2>2, <2>3
<1>5. f \in DOMAIN refs /\ live' \subseteq live /\ live \ {h} \subseteq live'
  OBVIOUS
<1> HIDE DEF r, f, h
<1>6. refs[f] \in DOMAIN slots /\ h \in live /\ Folded(h.name) = f
  BY <1>1, <1>5 DEF Leading, h
<1>7. DOMAIN slots' = DOMAIN slots /\ slots'[refs[f]] = NoHandler
      /\ \A i \in DOMAIN slots : i # refs[f] => slots'[i] = slots[i]
  BY <1>4, <1>6
<1>8. ASSUME NEW i \in DOMAIN slots
      PROVE  slots'[i] \in live' \cup {NoHandler}
  <2>1. CASE i = refs[f] \/ slots[i] = NoHandler
    BY <1>7, <2>1
  <2>2. CASE i # refs[f] /\ slots[i] # NoHandler
    <3>1. slots[i] # h
      BY <1>1, <1>6, <2>2 DEF Single, h
    <3>2. slots[i] \in live
      BY <1>1, <2>2
    <3> QED BY <1>5, <1>7, <2>2, <3>1, <3>2
  <2> QED BY <2>1, <2>2
<1>9. slots' \in Seq(live' \cup {NoHandler}) /\ Len(slots') = Len(slots)
  <2>1. Len(slots) \in Nat /\ DOMAIN slots = 1..Len(slots)
    BY <1>1
  <2>2. slots' = [i \in 1..Len(slots) |-> slots'[i]]
    BY <1>4, <1>7, <2>1
  <2> QED BY <1>8, <2>1, <2>2
<1>10. ASSUME NEW g \in DOMAIN refs'
       PROVE  refs'[g] \in DOMAIN slots' /\ slots'[refs'[g]] \in live' /\ Folded(slots'[refs'[g]].name) = g
  <2>1. g \in DOMAIN refs /\ g # f /\ refs'[g] = refs[g]
    BY <1>4
  <2>2. refs[g] \in DOMAIN slots /\ slots[refs[g]] \in live /\ Folded(slots[refs[g]].name) = g
    BY <1>1, <2>1 DEF Leading
  <2>3. refs[g] # refs[f] /\ slots[refs[g]] # h
    BY <1>6, <2>1, <2>2 DEF h
  <2> QED BY <1>5, <1>7, <2>1, <2>2, <2>3
<1>11. Leading'
  BY <1>10 DEF Leading
<1>12. Single'
  BY <1>1, <1>7 DEF Single
<1> QED BY <1>1, <1>4, <1>9, <1>11, <1>12 DEF f

LEMMA InitLibraryKeeps ==
  ASSUME FactoryInv, InitLibrary
  PROVE  FactoryInv'
<1> PICK n \in 1..Size : n = aFunctions
  BY DEF InitLibrary, Turn, FactoryInv
<1> DEFINE h == Own(n)
           name == aSTDFNList[n]
<1>1. phase = "constructing" /\ max' = max /\ removed' = removed
      /\ aFunctions' = n + 1 /\ (phase' = IF n = Size THEN "ready" ELSE "constructing")
      /\ live' = live \cup {h} /\ SetTable(RegisterHandler(Table, h))
  BY DEF InitLibrary, Turn, Own, Size
<1>2. Sound /\ Kept(n - 1, 0) /\ removed = {} /\ Len(slots) = Lesser(n - 1)
  BY <1>1 DEF FactoryInv
<1>3. /\ Size = 50 /\ n - 1 \in Nat /\ n \in Nat /\ (n - 1) + 1 = n /\ max \in Nat
      /\ \A i \in 1..Size : i \in Nat /\ i > 0
  <2> HIDE DEF h, name
  <2>1. Size = 50
    BY NamedOnce
  <2>2. max \in Nat
    BY <1>2 DEF Sound
  <2> QED BY <2>1, <2>2
<1>4. h # NoHandler /\ Folded(h.name) = name /\ h \notin live /\ name \notin DOMAIN refs
  <2>1. h # NoHandler /\ Folded(h.name) = name
    BY OwnIs
  <2>2. ~(n <= n - 1)
    BY <1>3
  <2> QED BY <1>2, <2>1, <2>2 DEF Kept
<1>5. /\ slots' \in Seq(live' \cup {NoHandler}) /\ Len(slots') <= max'
      /\ Leading' /\ Single'
      /\ Len(slots) = max => Len(slots') = max /\ DOMAIN refs' = DOMAIN refs
      /\ Len(slots) # max => Len(slots') = Len(slots) + 1 /\ DOMAIN refs' = DOMAIN refs \cup {name}
  BY <1>1, <1>2, <1>4, Registering
<1>6. Owned'
  BY <1>1, <1>2 DEF Sound, Owned
<1>7. Sound'
  BY <1>1, <1>3, <1>5, <1>6 DEF Sound
<1>8. Len(slots') = Lesser(n) /\ DOMAIN refs' = DOMAIN refs \cup (IF n <= max THEN {name} ELSE {})
  <2>1. CASE n <= max
    <3>1. Len(slots) = n - 1 /\ Len(slots) # max
      BY <1>2, <1>3, <2>1 DEF Lesser
    <3> QED BY <1>3, <1>5, <2>1, <3>1 DEF Lesser
  <2>2. CASE ~(n <= max)
    <3>1. Len(slots) = max
      BY <1>2, <1>3, <2>2 DEF Lesser
    <3> QED BY <1>3, <1>5, <2>2, <3>1 DEF Lesser
  <2> QED BY <2>1, <2>2
<1>9. ASSUME NEW i \in 1..Size
      PROVE  /\ Own(i) \in live' <=> i <= n
             /\ aSTDFNList[i] \in DOMAIN refs' <=> i <= n /\ i <= max
  <2>1. /\ Own(i) \in live <=> i <= n - 1
        /\ aSTDFNList[i] \in DOMAIN refs <=> i <= n - 1 /\ i <= max
    <3>1. i > 0 /\ Own(i) \notin removed
      BY <1>2, <1>3
    <3> QED BY <1>2, <3>1 DEF Kept
  <2>2. (Own(i) = h <=> i = n) /\ (aSTDFNList[i] = name <=> i = n)
    BY OwnIs, NamedOnce
  <2>3. i <= n <=> i <= n - 1 \/ i = n
    BY <1>3
  <2>4. live' = live \cup {h}
    BY <1>1
  <2> HIDE DEF h, name
  <2> QED BY <2>4, <1>8, <2>1, <2>2, <2>3
<1> HIDE DEF h, name
<1>10. Kept(n, 0)'
  <2>1. ASSUME NEW i \in 1..Size
        PROVE  /\ Own(i) \in live' <=> i <= n /\ (i > 0 \/ i > max' \/ Own(i) \in removed')
               /\ aSTDFNList[i] \in DOMAIN refs' <=> i <= n /\ i > 0 /\ i <= max' /\ Own(i) \notin removed'
               /\ Own(i) \in removed' => i <= max'
    <3>1. i > 0 /\ max' = max /\ Own(i) \notin removed'
      BY <1>1, <1>2, <1>3
    <3> QED BY <1>9, <3>1
  <2> QED BY <1>1, <1>2, <2>1 DEF Kept
<1>11. CASE n = Size
  BY <1>1, <1>7, <1>10, <1>11 DEF FactoryInv
<1>12. CASE n # Size
  <2>1. phase' = "constructing" /\ removed' = {} /\ aFunctions' \in 1..Size /\ aFunctions' - 1 = n
    BY <1>1, <1>2, <1>3, <1>12
  <2>2. Len(slots') = Lesser(aFunctions - 1)'
    BY <1>1, <1>8, <2>1 DEF Lesser
  <2>3. Kept(aFunctions - 1, 0)'
    BY <1>10, <2>1 DEF Kept
  <2> QED BY <1>7, <2>1, <2>2, <2>3 DEF FactoryInv
<1> QED BY <1>11, <1>12

LEMMA RegisterKeeps ==
  ASSUME FactoryInv, NEW h \in UserHandlers, Register(h)
  PROVE  FactoryInv'
<1>1. /\ phase = "ready" /\ phase' = "ready" /\ max' = max /\ removed' = removed
      /\ live' = live \cup {h} /\ h \notin live /\ Folded(h.name) \notin LibraryNames
      /\ SetTable(RegisterHandler(Table, h))
  BY DEF Register
<1>2. Sound /\ Kept(Size, 0)
  BY <1>1 DEF FactoryInv
<1>3. h.owner = "user" /\ h # NoHandler
  <2>1. NoHandler.owner = "nobody"
    BY DEF NoHandler
  <2> QED BY <2>1, OwnersAssumption
<1>4. /\ slots' \in Seq(live' \cup {NoHandler}) /\ Len(slots') <= max'
      /\ Leading' /\ Single'
      /\ DOMAIN refs' = DOMAIN refs \/ DOMAIN refs' = DOMAIN refs \cup {Folded(h.name)}
  BY <1>1, <1>2, <1>3, Registering
<1>5. Owned'
  BY <1>1, <1>2, <1>3 DEF Sound, Owned
<1>6. Sound'
  BY <1>1, <1>2, <1>4, <1>5 DEF Sound
<1>7. \A i \in 1..Size : Own(i) # h /\ aSTDFNList[i] # Folded(h.name)
  BY <1>1, <1>3, OwnIs, NamesAreFolded
<1>8. \A i \in 1..Size : /\ Own(i) \in live' <=> Own(i) \in live
                         /\ aSTDFNList[i] \in DOMAIN refs' <=> aSTDFNList[i] \in DOMAIN refs
  BY <1>1, <1>4, <1>7
<1>9. Kept(Size, 0)'
  BY <1>1, <1>2, <1>8 DEF Kept
<1> QED BY <1>1, <1>6, <1>9 DEF FactoryInv

LEMMA TakeOutKeeps ==
  ASSUME FactoryInv, NEW name, TakeOut(name)
  PROVE  FactoryInv'
<1> DEFINE f == Folded(name)
           h == slots[refs[f]]
<1>1. /\ phase = "ready" /\ phase' = "ready" /\ max' = max /\ live' = live
      /\ SetTable(RemoveHandler(Table, name))
      /\ Table.slots = slots /\ Table.refs = refs
  BY DEF TakeOut, Table
<1>2. Sound /\ Kept(Size, 0) /\ Leading /\ Owned
  BY <1>1 DEF FactoryInv, Sound
<1>3. f \in DOMAIN refs
  BY <1>1 DEF TakeOut, GetHandlerByName
<1>4. GetHandlerByName(Table, name) = h
  BY <1>1, <1>3 DEF GetHandlerByName
<1>5. removed' = removed \cup {h}
  BY <1>4 DEF TakeOut
<1>6. /\ slots' \in Seq(live' \cup {NoHandler}) /\ Len(slots') <= max'
      /\ Leading' /\ Single' /\ DOMAIN refs' = DOMAIN refs \ {f}
  <2>1. live' \subseteq live /\ live \ {h} \subseteq live'
    BY <1>1
  <2> QED BY <1>1, <1>2, <1>3, <2>1, Removing
<1> HIDE DEF f, h
<1>7. h \in live /\ Folded(h.name) = f
  BY <1>2, <1>3 DEF Leading, h
<1>8. Sound'
  <2>1. Owned'
    BY <1>1, <1>2 DEF Owned
  <2> QED BY <1>1, <1>2, <1>6, <2>1 DEF Sound
<1>9. ASSUME NEW i \in 1..Size PROVE Own(i) = h <=> aSTDFNList[i] = f
  <2>1. Own(i) = h => aSTDFNList[i] = f
    BY <1>7, OwnIs
  <2>2. aSTDFNList[i] = f => Own(i) = h
    BY <1>2, <1>3, LeadsToOwn DEF h
  <2> QED BY <2>1, <2>2
<1>10. Kept(Size, 0)'
  <2>1. ASSUME NEW i \in 1..Size
        PROVE  /\ Own(i) \in live' <=> i <= Size /\ (i > 0 \/ i > max' \/ Own(i) \in removed')
               /\ aSTDFNList[i] \in DOMAIN refs' <=> i <= Size /\ i > 0 /\ i <= max' /\ Own(i) \notin removed'
               /\ Own(i) \in removed' => i <= max'
    <3>1. i > 0 /\ i <= Size
      BY NamedOnce
    <3>2. /\ Own(i) \in live
          /\ aSTDFNList[i] \in DOMAIN refs <=> i <= max /\ Own(i) \notin removed
          /\ Own(i) \in removed => i <= max
      BY <1>2, <3>1 DEF Kept
    <3> QED BY <1>1, <1>3, <1>5, <1>6, <1>9, <3>1, <3>2
  <2>2. ASSUME NEW k \in removed', k.owner = "library"
        PROVE  \E i \in 1..Size : k = Own(i)
    <3>1. k \in removed \/ k \in live
      BY <1>5, <1>7
    <3>2. k.owner # "user"
      BY <2>2
    <3> QED BY <1>2, <2>2, <3>1, <3>2 DEF Kept, Owned
  <2> QED BY <2>1, <2>2 DEF Kept
<1> QED BY <1>1, <1>8, <1>10 DEF FactoryInv

LEMMA DeleteKeeps ==
  ASSUME FactoryInv, NEW h, Delete(h)
  PROVE  FactoryInv'
<1>1. /\ max' = max /\ phase' = phase /\ slots' = slots /\ refs' = refs /\ removed' = removed
      /\ phase \in {"ready", "down"} /\ live' = live \ {h} /\ h.owner = "user"
      /\ phase = "ready" => \A i \in DOMAIN slots : slots[i] # h
  BY DEF Delete
<1>2. CASE phase = "ready"
  <2>1. /\ max \in Nat /\ Leading /\ Single /\ Owned /\ Kept(Size, 0)
        /\ slots \in Seq(live \cup {NoHandler}) /\ Len(slots) <= max
    BY <1>2 DEF FactoryInv, Sound
  <2>2. \A i \in 1..Size : Own(i) # h
    <3>1. \A i \in 1..Size : Own(i).owner = "library"
      BY OwnIs
    <3> QED BY <1>1, <3>1
  <2>3. \A i \in DOMAIN slots : slots[i] \in live' \cup {NoHandler}
    BY <1>1, <1>2, <2>1
  <2>4. slots \in Seq(live' \cup {NoHandler})
    <3>1. Len(slots) \in Nat /\ DOMAIN slots = 1..Len(slots) /\ slots = [i \in 1..Len(slots) |-> slots[i]]
      BY <2>1
    <3> QED BY <2>3, <3>1
  <2>5. Leading'
    BY <1>1, <1>2, <2>1 DEF Leading
  <2>6. Owned' /\ Single'
    BY <1>1, <2>1 DEF Owned, Single
  <2>7. Kept(Size, 0)'
    BY <1>1, <2>1, <2>2 DEF Kept
  <2>8. Sound'
    BY <1>1, <2>1, <2>4, <2>5, <2>6 DEF Sound
  <2> QED BY <1>1, <1>2, <2>7, <2>8 DEF FactoryInv
<1>3. CASE phase = "down"
  <2>1. Left
    BY <1>3 DEF FactoryInv
  <2>2. {k \in live' : k.owner = "library"} = {k \in live : k.owner = "library"}
    BY <1>1
  <2>3. Left'
    BY <1>1, <2>1, <2>2 DEF Left
  <2> QED BY <1>1, <1>3, <2>3 DEF FactoryInv
<1> QED BY <1>1, <1>2, <1>3

(* A step that leaves the table, the handlers and those taken out alone.   *)
LEMMA TableStays ==
  ASSUME UNCHANGED <<max, slots, refs, live, removed>>
  PROVE  /\ Sound => Sound'
         /\ \A n, m : Kept(n, m) => Kept(n, m)'
         /\ Left => Left'
<1>1. max' = max /\ slots' = slots /\ refs' = refs /\ live' = live /\ removed' = removed
  OBVIOUS
<1>2. (Leading => Leading') /\ (Single => Single') /\ (Owned => Owned')
  BY <1>1 DEF Leading, Single, Owned
<1>3. Sound => Sound'
  BY <1>1, <1>2 DEF Sound
<1>4. ASSUME NEW n, NEW m, Kept(n, m) PROVE Kept(n, m)'
  BY <1>1, <1>4 DEF Kept
<1>5. Left => Left'
  BY <1>1 DEF Left
<1> QED BY <1>3, <1>4, <1>5

LEMMA VMInitKeeps ==
  ASSUME FactoryInv, NEW prog \in CalledNames, VMInit(prog)
  PROVE  FactoryInv'
<1>1. /\ UNCHANGED <<max, slots, refs, live, removed>>
      /\ phase = "ready" /\ phase' = "running"
      /\ \A i \in DOMAIN prog : GetHandlerByName(Table, prog[i]) # NoHandler
      /\ calls' = [i \in DOMAIN prog |-> GetHandlerByName(Table, prog[i])]
  BY DEF VMInit
<1>2. Sound /\ Leading /\ Kept(Size, 0)
  BY <1>1 DEF FactoryInv, Sound
<1>3. ASSUME NEW i \in DOMAIN prog
      PROVE  calls'[i] \in live' /\ Folded(calls'[i].name) = Folded(prog[i])
  <2>1. calls'[i] = GetHandlerByName(Table, prog[i]) /\ calls'[i] # NoHandler
    BY <1>1
  <2>2. Folded(prog[i]) \in DOMAIN refs /\ calls'[i] = slots[refs[Folded(prog[i])]]
    <3>1. Table.refs = refs /\ Table.slots = slots
      BY DEF Table
    <3> QED BY <2>1, <3>1 DEF GetHandlerByName
  <2>3. live' = live
    BY <1>1
  <2> QED BY <1>2, <2>2, <2>3 DEF Leading
<1>4. DOMAIN calls' = DOMAIN prog
  BY <1>1
<1>5. Calling'
  BY <1>3, <1>4 DEF Calling
<1>6. Sound' /\ Kept(Size, 0)'
  BY <1>1, <1>2, TableStays
<1> QED BY <1>1, <1>5, <1>6 DEF FactoryInv

LEMMA RunEndsKeeps ==
  ASSUME FactoryInv, RunEnds
  PROVE  FactoryInv'
<1>1. /\ UNCHANGED <<max, slots, refs, live, removed>>
      /\ phase = "running" /\ phase' = "ready"
  BY DEF RunEnds
<1>2. Sound /\ Kept(Size, 0)
  BY <1>1 DEF FactoryInv
<1>3. Sound' /\ Kept(Size, 0)'
  BY <1>1, <1>2, TableStays
<1> QED BY <1>1, <1>3 DEF FactoryInv

LEMMA DestructKeeps ==
  ASSUME FactoryInv, Destruct
  PROVE  FactoryInv'
<1>1. /\ UNCHANGED <<max, slots, refs, live, removed>>
      /\ phase = "ready" /\ phase' = "destructing" /\ aFunctions' = 1
  BY DEF Destruct
<1>2. Sound /\ Kept(Size, 0)
  BY <1>1 DEF FactoryInv
<1>3. Sound' /\ Kept(Size, 0)'
  BY <1>1, <1>2, TableStays
<1>4. aFunctions' \in 1..Size /\ aFunctions' - 1 = 0
  BY <1>1, NamedOnce
<1>5. Kept(Size, aFunctions - 1)'
  BY <1>3, <1>4 DEF Kept
<1> QED BY <1>1, <1>3, <1>4, <1>5 DEF FactoryInv

(* When the destructor is through the list, what is left of the library's  *)
(* is what it had no room for and what was taken out.                      *)
LEMMA WhatIsLeft ==
  ASSUME NEW limit \in Nat, NEW there, NEW gone,
         \A i \in 1..Size : Own(i) \in there <=> i > limit \/ Own(i) \in gone,
         \A h \in there \cup gone : h.owner = "library" => \E i \in 1..Size : h = Own(i)
  PROVE  {h \in there : h.owner = "library"} =
           {LibraryHandler(aSTDFNList[i]) : i \in limit + 1 .. Len(aSTDFNList)}
             \cup {h \in gone : h.owner = "library"}
<1>1. Size = 50 /\ Size = Len(aSTDFNList)
  BY NamedOnce DEF Size
<1>2. \A i : i \in limit + 1..Size <=> i \in 1..Size /\ i > limit
  BY <1>1
<1>3. ASSUME NEW h
      PROVE  h \in there /\ h.owner = "library"
             <=> \/ \E i \in limit + 1..Size : h = Own(i)
                 \/ h \in gone /\ h.owner = "library"
  BY <1>2, OwnIs
<1>4. \A i \in limit + 1..Size : Own(i) = LibraryHandler(aSTDFNList[i])
  BY DEF Own
<1>5. {h \in there : h.owner = "library"} =
        {LibraryHandler(aSTDFNList[i]) : i \in limit + 1..Size} \cup {h \in gone : h.owner = "library"}
  BY <1>3, <1>4
<1> QED BY <1>1, <1>5

LEMMA DestroyLibraryKeeps ==
  ASSUME FactoryInv, DestroyLibrary
  PROVE  FactoryInv'
<1> PICK n \in 1..Size : n = aFunctions
  BY DEF DestroyLibrary, Turn, FactoryInv
<1> DEFINE name == aSTDFNList[n]
           h == GetHandlerByName(Table, name)
<1>1. /\ phase = "destructing" /\ max' = max /\ removed' = removed
      /\ aFunctions' = n + 1 /\ (phase' = IF n = Size THEN "down" ELSE "destructing")
      /\ live' = live \ {h} /\ SetTable(RemoveHandler(Table, name))
  BY DEF DestroyLibrary, Turn, Size
<1>2. Sound /\ Leading /\ Owned /\ Kept(Size, n - 1)
  BY <1>1 DEF FactoryInv, Sound
<1>3. /\ Size = 50 /\ n \in Nat /\ n <= Size /\ n > n - 1 /\ max \in Nat
      /\ \A i \in 1..Size : i <= Size /\ (i > n - 1 <=> i > n \/ i = n) /\ ~(n > n)
  <2> HIDE DEF h, name
  <2>1. Size = 50
    BY NamedOnce
  <2>2. max \in Nat
    BY <1>2 DEF Sound
  <2> QED BY <2>1, <2>2
<1>4. Folded(name) = name
  BY NamesAreFolded
<1>5. Table.slots = slots /\ Table.refs = refs
  BY DEF Table
<1>6. ASSUME name \in DOMAIN refs PROVE Sound' /\ Kept(Size, n)'
  <2>1. h = slots[refs[name]]
    BY <1>4, <1>5, <1>6 DEF GetHandlerByName
  <2>2. h = Own(n)
    BY <1>2, <1>6, <2>1, LeadsToOwn
  <2>3. /\ slots' \in Seq(live' \cup {NoHandler}) /\ Len(slots') <= max'
        /\ Leading' /\ Single' /\ DOMAIN refs' = DOMAIN refs \ {name}
    <3>1. live' \subseteq live /\ live \ {slots[refs[Folded(name)]]} \subseteq live'
      BY <1>1, <1>4, <2>1
    <3>2. /\ slots' \in Seq(live' \cup {NoHandler}) /\ Len(slots') <= max'
          /\ Leading' /\ Single' /\ DOMAIN refs' = DOMAIN refs \ {Folded(name)}
      BY <1>1, <1>2, <1>4, <1>6, <3>1, Removing
    <3> QED BY <1>4, <3>2
  <2>4. \A i \in 1..Size : (Own(i) = h <=> i = n) /\ (aSTDFNList[i] = name <=> i = n)
    BY <2>2, OwnIs, NamedOnce
  <2> HIDE DEF h, name
  <2>5. n <= max /\ Own(n) \notin removed
    BY <1>2, <1>6 DEF Kept, name
  <2>6. ASSUME NEW i \in 1..Size
        PROVE  /\ Own(i) \in live' <=> i <= Size /\ (i > n \/ i > max' \/ Own(i) \in removed')
               /\ aSTDFNList[i] \in DOMAIN refs' <=> i <= Size /\ i > n /\ i <= max' /\ Own(i) \notin removed'
               /\ Own(i) \in removed' => i <= max'
    <3>1. /\ Own(i) \in live <=> (i > n \/ i = n) \/ i > max \/ Own(i) \in removed
          /\ aSTDFNList[i] \in DOMAIN refs <=> (i > n \/ i = n) /\ i <= max /\ Own(i) \notin removed
          /\ Own(i) \in removed => i <= max
      BY <1>2, <1>3 DEF Kept
    <3>2. Own(i) \in live' <=> Own(i) \in live /\ i # n
      BY <1>1, <2>4
    <3>3. aSTDFNList[i] \in DOMAIN refs' <=> aSTDFNList[i] \in DOMAIN refs /\ i # n
      BY <2>3, <2>4
    <3>4. ~(n > max) /\ (i > n => i # n) /\ i <= Size
      BY <1>3, <2>5
    <3> QED BY <1>1, <2>5, <3>1, <3>2, <3>3, <3>4
  <2>7. Kept(Size, n)'
    BY <1>1, <1>2, <2>6 DEF Kept
  <2>8. Owned'
    BY <1>1, <1>2 DEF Owned
  <2>9. Sound'
    BY <1>1, <1>3, <2>3, <2>8 DEF Sound
  <2> QED BY <2>7, <2>9
<1>7. ASSUME name \notin DOMAIN refs PROVE Sound' /\ Kept(Size, n)'
  <2>1. h = NoHandler /\ RemoveHandler(Table, name) = Table
    BY <1>4, <1>5, <1>7 DEF GetHandlerByName, RemoveHandler
  <2>2. h \notin live
    BY <1>2, <2>1, NobodyLives
  <2>3. SetTable(Table) /\ live' = live
    BY <1>1, <2>1, <2>2
  <2>4. slots' = slots /\ refs' = refs
    BY <1>5, <2>3 DEF SetTable
  <2>5. UNCHANGED <<max, slots, refs, live, removed>>
    BY <1>1, <2>3, <2>4
  <2>6. Sound' /\ Kept(Size, n - 1)'
    BY <1>2, <2>5, TableStays
  <2>7. n > max \/ Own(n) \in removed
    BY <1>2, <1>3, <1>7 DEF Kept
  <2> HIDE DEF h, name
  <2>8. ASSUME NEW i \in 1..Size
        PROVE  /\ Own(i) \in live' <=> i <= Size /\ (i > n \/ i > max' \/ Own(i) \in removed')
               /\ aSTDFNList[i] \in DOMAIN refs' <=> i <= Size /\ i > n /\ i <= max' /\ Own(i) \notin removed'
               /\ Own(i) \in removed' => i <= max'
    <3>1. /\ Own(i) \in live <=> (i > n \/ i = n) \/ i > max \/ Own(i) \in removed
          /\ aSTDFNList[i] \in DOMAIN refs <=> (i > n \/ i = n) /\ i <= max /\ Own(i) \notin removed
          /\ Own(i) \in removed => i <= max
      BY <1>2, <1>3 DEF Kept
    <3>2. (n > max => ~(n <= max)) /\ i <= Size
      BY <1>3
    <3> QED BY <1>1, <2>3, <2>4, <2>7, <3>1, <3>2
  <2>9. Kept(Size, n)'
    BY <1>1, <1>2, <2>8 DEF Kept
  <2> QED BY <2>6, <2>9
<1>8. Sound' /\ Kept(Size, n)'
  BY <1>6, <1>7
<1> HIDE DEF h, name
<1>9. CASE n = Size
  <2>1. \A i \in 1..Size : Own(i) \in live' <=> i > max' \/ Own(i) \in removed'
    <3>1. \A i \in 1..Size : i <= Size /\ ~(i > n)
      BY <1>3, <1>9
    <3> QED BY <1>8, <3>1 DEF Kept
  <2>2. \A k \in live' \cup removed' : k.owner = "library" => \E i \in 1..Size : k = Own(i)
    <3>1. ASSUME NEW k \in live', k.owner = "library"
          PROVE  \E i \in 1..Size : k = Own(i)
      <4>1. k.owner # "user"
        BY <3>1
      <4>2. Owned'
        BY <1>8 DEF Sound
      <4> QED BY <3>1, <4>1, <4>2 DEF Owned
    <3> QED BY <1>8, <3>1 DEF Kept
  <2>3. max' \in Nat
    BY <1>1, <1>3
  <2>4. {k \in live' : k.owner = "library"} =
          {LibraryHandler(aSTDFNList[i]) : i \in max' + 1 .. Len(aSTDFNList)}
            \cup {k \in removed' : k.owner = "library"}
    <3> DEFINE there == live'
               gone == removed'
               limit == max'
    <3>1. /\ limit \in Nat
          /\ \A i \in 1..Size : Own(i) \in there <=> i > limit \/ Own(i) \in gone
          /\ \A k \in there \cup gone : k.owner = "library" => \E i \in 1..Size : k = Own(i)
      BY <2>1, <2>2, <2>3
    <3> HIDE DEF there, gone, limit
    <3>2. {k \in there : k.owner = "library"} =
            {LibraryHandler(aSTDFNList[i]) : i \in limit + 1 .. Len(aSTDFNList)}
              \cup {k \in gone : k.owner = "library"}
      BY <3>1, WhatIsLeft
    <3> QED BY <3>2 DEF there, gone, limit
  <2>5. Left'
    BY <2>4 DEF Left
  <2> QED BY <1>1, <1>9, <2>5 DEF FactoryInv
<1>10. CASE n # Size
  <2>1. phase' = "destructing" /\ aFunctions' \in 1..Size /\ aFunctions' - 1 = n
    BY <1>1, <1>3, <1>10
  <2>2. Kept(Size, aFunctions - 1)'
    BY <1>8, <2>1 DEF Kept
  <2> QED BY <1>8, <2>1, <2>2 DEF FactoryInv
<1> QED BY <1>9, <1>10

LEMMA FactoryStep == FactoryInv /\ [FactoryNext]_factoryVars => FactoryInv'
<1> SUFFICES ASSUME FactoryInv, [FactoryNext]_factoryVars PROVE FactoryInv'
  OBVIOUS
<1>1. CASE InitLibrary
  BY <1>1, InitLibraryKeeps
<1>2. CASE Destruct
  BY <1>2, DestructKeeps
<1>3. CASE DestroyLibrary
  BY <1>3, DestroyLibraryKeeps
<1>4. ASSUME NEW h \in UserHandlers, Register(h) \/ Delete(h) PROVE FactoryInv'
  BY <1>4, RegisterKeeps, DeleteKeeps
<1>5. ASSUME NEW name \in Removable, TakeOut(name) PROVE FactoryInv'
  BY <1>5, TakeOutKeeps
<1>6. ASSUME NEW prog \in CalledNames, VMInit(prog) PROVE FactoryInv'
  BY <1>6, VMInitKeeps
<1>7. CASE RunEnds
  BY <1>7, RunEndsKeeps
<1>8. CASE UNCHANGED factoryVars
  <2>1. /\ phase' = phase /\ aFunctions' = aFunctions /\ max' = max /\ calls' = calls /\ live' = live
        /\ slots' = slots
        /\ UNCHANGED <<max, slots, refs, live, removed>> /\ removed' = removed
    BY <1>8 DEF factoryVars
  <2>2. (Sound => Sound') /\ (Left => Left') /\ (Calling => Calling')
    BY <2>1, TableStays DEF Calling
  <2>3. /\ Kept(aFunctions - 1, 0) => Kept(aFunctions - 1, 0)'
        /\ Kept(Size, 0) => Kept(Size, 0)'
        /\ Kept(Size, aFunctions - 1) => Kept(Size, aFunctions - 1)'
    BY <2>1 DEF Kept
  <2>4. Len(slots) = Lesser(aFunctions - 1) => Len(slots') = Lesser(aFunctions - 1)'
    BY <2>1 DEF Lesser
  <2> QED BY <2>1, <2>2, <2>3, <2>4 DEF FactoryInv
<1> QED BY <1>1, <1>2, <1>3, <1>4, <1>5, <1>6, <1>7, <1>8 DEF FactoryNext

(* Names, slots, calls and what the destructor deletes by name fit         *)
(* together, for tables of any size and any registering and removing, in   *)
(* the loops of the set-up and of the destructor too.                      *)
THEOREM FactoryNamesResolve == FactorySpec => []NamesResolve
<1>1. FactorySpec => []FactoryInv
  BY FactoryStart, FactoryStep, PTL DEF FactorySpec
<1> QED BY <1>1, FactoryPhases, PTL
=============================================================================
