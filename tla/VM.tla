--------------------------------- MODULE VM ---------------------------------
(***************************************************************************)
(* The virtual machine (src/src/CTPP2VM.cpp): eight registers, flags, the  *)
(* stack of arguments, the stack of return addresses, and a limit on the   *)
(* instructions it executes.  One action is one iteration of Run's loop.   *)
(*                                                                         *)
(* A value stands for a CDT by the whole number GetInt gives, of a text    *)
(* the number it spells; 0 also for what has none (undefined, other texts, *)
(* arrays), for the negative and for less than one.  What an instruction   *)
(* finds inside of an array or hash, or computes by arithmetic, is any     *)
(* value.  A block name is the value that holds it; 0 is the empty name.   *)
(* What is output is left out.                                             *)
(***************************************************************************)
EXTENDS ArgStackOps

CONSTANTS
  MaxValue,            \* bound: values are 0..MaxValue
  iMaxCodeStackSize,   \* constructor arguments
  iMaxSteps,
  iDebugLevel,
  Programs,            \* the programs loaded
  Handlers,            \* names in the syscall factory
  Unknown,             \* what an entry of the call map never written holds
  Word,                \* 2^32: addresses are computed modulo Word
  InitialFlags,        \* what the flags may hold before an instruction sets them
  MaxFrames,           \* bound: base pointers saved at a time
  MaxRuns              \* bound: programs loaded

NoCall == -1

(* Operands of an instruction (include/CTPP2VMOpcodes.h); 8..15 are never  *)
(* encoded.                                                                *)
LastReg == 7
Registers == 0..LastReg
STACK   == 16
IND_VAL == 17
IND_STR == 18
INT     == 19
FLOAT   == 20
STR     == 21
Constants == {INT, FLOAT, STR}
Indirect == {IND_VAL, IND_STR}

Flags == {"NE", "EQ", "LT", "GT", "PF", "NPF"}

ASSUME MachineValues == MaxValue \in Nat \ {0} /\ Values = 0..MaxValue /\ Undef = 0
ASSUME MachineSizes ==
  /\ iMaxCodeStackSize \in Nat
  /\ iMaxSteps \in Nat
  /\ Word \in Nat \ {0}
ASSUME MachineFlags == InitialFlags \subseteq SUBSET Flags
ASSUME ExceptionsDiffer ==
  Done \notin {"ExecutionLimitReached", "CodeSegmentOverrun", "InvalidCall", "IllegalOpcode", "ZeroDivision"}

(* A program: its instructions, the addresses the hash table gives to      *)
(* block names, and the names of the syscalls it uses.                     *)
CodeSize(p) == p.size
WellFormed(p) ==
  /\ p.size \in Nat
  /\ DOMAIN p.code = 0..p.size - 1
  /\ \A a \in DOMAIN p.code :
       /\ {p.code[a].src, p.code[a].dst, p.code[a].arg, p.code[a].args} \subseteq Nat
       /\ p.code[a].src \in Constants => p.code[a].arg \in Values   \* the constant itself
  /\ p.calls \in [Values -> Nat \cup {NoCall}]
  /\ p.syscalls \in Seq(STRING)
ASSUME ProgramsAssumption == \A p \in Programs : WellFormed(p)

VARIABLES
  status,      \* "new", "ready", "running", "halted", "thrown", "undefined"
  exception,   \* the exception Run or Init was left by, or Done
  program, iMaxUsedCalls, iMaxCalls, aCallTranslationMap, runs,
  iIP, iExecutedSteps, iFlags, oRegs, oVMArgStack, oVMCodeStack,
  dispatched   \* the handler the last SYSCALL called, and the one it named

loaded == <<program, iMaxUsedCalls, iMaxCalls, aCallTranslationMap, runs>>
data   == <<iFlags, oRegs, oVMArgStack, dispatched>>
vars   == <<status, exception, loaded, iIP, iExecutedSteps, data, oVMCodeStack>>

NoProgram == [size |-> 0, code |-> <<>>, calls |-> [v \in Values |-> NoCall], syscalls |-> <<>>]

(* The constructor; nothing sets iFlags before an instruction does. *)
Init ==
  /\ status = "new"
  /\ exception = Done
  /\ program = NoProgram
  /\ iMaxUsedCalls = 0 /\ iMaxCalls = 0
  /\ aCallTranslationMap = [c \in {} |-> Unknown]
  /\ runs = 0
  /\ iIP = 0
  /\ iExecutedSteps = 0
  /\ iFlags \in InitialFlags
  /\ oRegs = [r \in Registers |-> Undef]
  /\ oVMArgStack = EmptyStack
  /\ oVMCodeStack = <<>>
  /\ dispatched = <<Unknown, Unknown>>

-----------------------------------------------------------------------------
(* VM::Init: the handlers of the program's syscalls, up to the first one   *)
(* the factory has not.  The map is replaced only when it is too small.    *)
KnownCalls(p) ==
  LET missing == {c \in DOMAIN p.syscalls : p.syscalls[c] \notin Handlers}
  IN IF missing = {} THEN Len(p.syscalls)
     ELSE (CHOOSE c \in missing : \A d \in missing : c <= d) - 1

FilledIfGrown(p) == IF Len(p.syscalls) >= iMaxCalls THEN KnownCalls(p) ELSE 0
Filled(p) == KnownCalls(p)

InitProgram(p) ==
  /\ status \notin {"running", "undefined"}
  /\ runs < MaxRuns
  /\ runs' = runs + 1
  /\ program' = p
  /\ iMaxUsedCalls' = Len(p.syscalls)
  /\ iMaxCalls' = IF Len(p.syscalls) >= iMaxCalls THEN Len(p.syscalls) ELSE iMaxCalls
  /\ aCallTranslationMap' =
       [c \in 0..iMaxCalls' - 1 |->
          IF c < Filled(p) THEN p.syscalls[c + 1]
          ELSE IF Len(p.syscalls) >= iMaxCalls THEN Unknown ELSE aCallTranslationMap[c]]
  /\ IF KnownCalls(p) = Len(p.syscalls)
     THEN status' = "ready" /\ exception' = Done
     ELSE status' = "thrown" /\ exception' = "InvalidSyscall"
  /\ UNCHANGED <<iIP, iExecutedSteps, data, oVMCodeStack>>

(* The entry of Run: the data goes to DR.  Neither the stacks nor the      *)
(* other registers are cleared; Reset does that, and is not called here.   *)
Run(ip, oCDT) ==
  /\ status = "ready"
  /\ status' = "running"
  /\ oRegs' = [oRegs EXCEPT ![3] = oCDT]
  /\ iIP' = ip
  /\ iExecutedSteps' = 0
  /\ UNCHANGED <<exception, loaded, iFlags, oVMArgStack, dispatched, oVMCodeStack>>

Reset ==
  /\ status \notin {"running", "undefined"}
  /\ oRegs' = [r \in Registers |-> Undef]
  /\ iFlags' = {}
  /\ oVMArgStack' = ResetOf(oVMArgStack)
  /\ oVMCodeStack' = <<>>
  /\ UNCHANGED <<status, exception, loaded, iIP, iExecutedSteps, dispatched>>

-----------------------------------------------------------------------------
(* How an iteration of the loop ends. *)

Fetch(op) ==
  /\ status = "running"
  /\ iIP < CodeSize(program)
  /\ program.code[iIP].op = op

Instr == program.code[iIP]

GoingUncounted == UNCHANGED <<status, exception, loaded, iExecutedSteps>>
Going == UNCHANGED <<status, exception, loaded>> /\ iExecutedSteps' = iExecutedSteps + 1

Advance == Going /\ iIP' = iIP + 1 /\ UNCHANGED oVMCodeStack

ThrowAt(ip, e) ==
  /\ status' = "thrown"
  /\ exception' = e
  /\ iIP' = ip
  /\ UNCHANGED <<loaded, iExecutedSteps, oVMCodeStack>>
Throw(e) == ThrowAt(iIP, e)

(* Undefined behaviour: nothing is said of what follows. *)
Undefined ==
  /\ status' = "undefined"
  /\ UNCHANGED <<exception, loaded, iIP, iExecutedSteps, data, oVMCodeStack>>

Set(s, regs, flags) ==
  oVMArgStack' = s /\ oRegs' = regs /\ iFlags' = flags /\ UNCHANGED dispatched

Keep == UNCHANGED data

(* The exception the instruction is left by before it changes anything,    *)
(* or else its effect.                                                     *)
Either(e, effect) == (e # Done /\ Throw(e) /\ Keep) \/ (e = Done /\ effect)

Legal(condition) == IF condition THEN Done ELSE "IllegalOpcode"
Then(e, f) == IF e # Done THEN e ELSE f

IsReg(x) == x \in Registers
Reach(i) == Access(oVMArgStack, TopPos(oVMArgStack, i))
Elem(i) == oVMArgStack.aStack[TopPos(oVMArgStack, i)]
WithElem(i, v) == Stored(oVMArgStack, TopPos(oVMArgStack, i), v)
WithReg(r, v) == [oRegs EXCEPT ![r] = v]
SetElem(i, v) == Set(WithElem(i, v), oRegs, iFlags)
SetReg(r, v) == Set(oVMArgStack, WithReg(r, v), iFlags)

(* The operand in the source register or on the stack. *)
OperandError == IF Instr.src = STACK THEN Reach(Instr.arg) ELSE Legal(IsReg(Instr.src))
Operand == IF Instr.src = STACK THEN Elem(Instr.arg) ELSE oRegs[Instr.src]

(* A text is converted first and becomes the next number; ++ leaves the    *)
(* undefined value, and takes most negative ones to others.                *)
Incremented(v) ==
  (IF v = 0 THEN {0} ELSE {}) \cup {IF v < MaxValue THEN v + 1 ELSE MaxValue}
Decremented(v) == IF v = 0 THEN 0 ELSE v - 1

(* Nonzero() and GetType() != UNDEF: known of every value but 0. *)
Holds(v) == IF v = 0 THEN {TRUE, FALSE} ELSE {TRUE}

(* Most CDT operations may find a value of the wrong type. *)
CDTException == Throw("CDTException") /\ Keep

-----------------------------------------------------------------------------
(* Jumps and calls: 0x01, 0x06, 0x07.                                      *)

StepLimitOff == Done
StepLimit == IF iExecutedSteps >= iMaxSteps THEN "ExecutionLimitReached" ELSE Done
InCode(ip) == IF ip >= CodeSize(program) THEN "CodeSegmentOverrun" ELSE Done

Jump(ip) == Going /\ iIP' = ip /\ UNCHANGED oVMCodeStack

CanPushOneMore == IF Len(oVMCodeStack) <= iMaxCodeStackSize THEN Done ELSE Overflow
CanPushAddress == IF Len(oVMCodeStack) < iMaxCodeStackSize THEN Done ELSE Overflow
Enter(ip) == Going /\ iIP' = ip /\ oVMCodeStack' = Append(oVMCodeStack, iIP + 1)

Absolute(i) == i.arg
Relative(i) == (iIP + i.arg) % Word

CallTo(ip) ==
  Either(Then(StepLimit, Then(InCode(ip), CanPushAddress)), Enter(ip) /\ Keep)
CALL  == Fetch("CALL")  /\ CallTo(Absolute(Instr))
RCALL == Fetch("RCALL") /\ CallTo(Relative(Instr))

JumpTo(ip) == Either(Then(StepLimit, InCode(ip)), Jump(ip) /\ Keep)
JMP  == Fetch("JMP")  /\ JumpTo(Absolute(Instr))
RJMP == Fetch("RJMP") /\ JumpTo(Relative(Instr))

JumpIf(ip) ==
  IF Instr.flags \cap iFlags = {} THEN Either(StepLimit, Advance /\ Keep) ELSE JumpTo(ip)
JXX  == Fetch("JXX")  /\ JumpIf(Absolute(Instr))
RJXX == Fetch("RJXX") /\ JumpIf(Relative(Instr))

(* The frame's elements are dropped before the address is looked at. *)
RET ==
  /\ Fetch("RET")
  /\ LET drop == CanClear(oVMArgStack, Instr.arg)
         s    == Cleared(oVMArgStack, Instr.arg)
     IN Either(Then(StepLimit, IF drop THEN Done ELSE Underflow),
               \/ /\ oVMCodeStack = <<>>
                  /\ Throw(Underflow) /\ Set(s, oRegs, iFlags)
               \/ /\ oVMCodeStack # <<>>
                  /\ iIP' = oVMCodeStack[Len(oVMCodeStack)]
                  /\ oVMCodeStack' = SubSeq(oVMCodeStack, 1, Len(oVMCodeStack) - 1)
                  /\ Going /\ Set(s, oRegs, iFlags))

(* The address of the loop is looked at only when it is taken, after the   *)
(* iteration was counted down.  What is left may be a part of one.         *)
LOOP ==
  /\ Fetch("LOOP")
  /\ LET i     == Instr
         left  == Decremented(oRegs[i.src])
         regs  == WithReg(i.src, left)
     IN Either(Then(StepLimit, Legal(IsReg(i.src) /\ IsReg(i.dst))),
          \/ left = 0 /\ Advance /\ Set(oVMArgStack, regs, iFlags)
          \/ /\ InCode(i.arg) # Done
             /\ Throw(InCode(i.arg)) /\ Set(oVMArgStack, regs, iFlags)
          \/ /\ InCode(i.arg) = Done
             /\ Jump(i.arg)
             /\ \E n \in Incremented(regs[i.dst]) :
                  Set(oVMArgStack, [regs EXCEPT ![i.dst] = n], iFlags)
          \/ CDTException                                 \* from the decrement
          \/ /\ InCode(i.arg) = Done                      \* from the increment
             /\ ThrowAt(i.arg, "CDTException") /\ Set(oVMArgStack, regs, iFlags))

(* A call by name asks for no step limit. *)
CallErrorUnknown(ip) == Then(InCode(ip), CanPushAddress)
CallError(ip) == IF ip \in Nat THEN Then(InCode(ip), CanPushAddress) ELSE "InvalidCall"

CallByName(name, s) ==
  LET ip == program.calls[name]
      e  == CallError(ip)
  IN \/ e # Done /\ Throw(e) /\ Set(s, oRegs, iFlags)
     \/ e = Done /\ Enter(ip) /\ Set(s, oRegs, iFlags)

CALLNAME == Fetch("CALLNAME") /\ CallByName(Instr.arg, oVMArgStack)

(* The name is taken out from under the arguments pushed after it. *)
Drawn(s, n) ==
  [s EXCEPT !.iStackPointer = @ + 1,
            !.aStack = [p \in Positions |->
               IF p \in s.iStackPointer + 1..s.iStackPointer + n THEN s.aStack[p - 1]
               ELSE s.aStack[p]]]

CALLIND ==
  /\ Fetch("CALLIND")
  /\ LET i == Instr
         s == IF i.src = STACK THEN Drawn(oVMArgStack, i.arg) ELSE oVMArgStack
     IN Either(OperandError,
          \/ Operand = 0 /\ Throw("InvalidCall") /\ Set(s, oRegs, iFlags)
          \/ Operand # 0 /\ CallByName(Operand, s))

(* Line 225 lets a call number pass that is one too large.  The handler is *)
(* given args elements from the top on, before their number is compared    *)
(* with the frame (line 242): they may lie beyond the array.               *)
SYSCALL ==
  /\ Fetch("SYSCALL")
  /\ LET i == Instr
         s == Cleared(oVMArgStack, i.args)
         filled == i.arg \in DOMAIN aCallTranslationMap /\ aCallTranslationMap[i.arg] # Unknown
         inArray == oVMArgStack.iStackPointer + i.args <= iMaxStackSize
     IN \/ i.arg > iMaxUsedCalls /\ Throw("InvalidSyscall") /\ Keep
        \/ i.arg <= iMaxUsedCalls /\ ~(filled /\ inArray) /\ Undefined
        \/ /\ i.arg <= iMaxUsedCalls /\ filled
           /\ dispatched' = <<aCallTranslationMap[i.arg],
                              IF i.arg < Len(program.syscalls)
                              THEN program.syscalls[i.arg + 1] ELSE Unknown>>
           /\ UNCHANGED <<oRegs, iFlags>>
           /\ \/ UNCHANGED oVMArgStack /\ Throw("InvalidSyscall")   \* the handler failed
              \/ UNCHANGED oVMArgStack /\ Throw("CDTException")     \* it threw
              \/ /\ ~CanClear(oVMArgStack, i.args)
                 /\ UNCHANGED oVMArgStack /\ Throw(Underflow)
              \/ /\ CanClear(oVMArgStack, i.args) /\ ~CanPush(s)
                 /\ oVMArgStack' = s /\ Throw(Overflow)
              \/ /\ CanClear(oVMArgStack, i.args) /\ CanPush(s)
                 /\ \E oResult \in Values : oVMArgStack' = Pushed(s, oResult)
                 /\ Advance

-----------------------------------------------------------------------------
(* Stack operations: 0x02. *)

PUSH ==
  /\ Fetch("PUSH")
  /\ LET i == Instr
         sources == CASE IsReg(i.src) -> {oRegs[i.src]}
                      [] i.src \in Constants -> {i.arg}
                      [] i.src \in Indirect -> Values
                      [] i.src = STACK -> {Elem(i.arg)}
         flags(v) == IF i.src # IND_STR THEN {iFlags}
                     ELSE {{"EQ"}} \cup (IF v = Undef THEN {{}} ELSE {})
         e == CASE i.src = STACK -> Reach(i.arg)
                [] i.src \in Indirect -> Legal(IsReg(i.dst))
                [] OTHER -> Legal(IsReg(i.src) \/ i.src \in Constants)
     IN Either(Then(e, IF CanPush(oVMArgStack) THEN Done ELSE Overflow),
            \/ \E v \in sources : \E f \in flags(v) : Advance /\ Set(Pushed(oVMArgStack, v), oRegs, f)
            \/ i.src = IND_VAL /\ CDTException)

(* The registers first..last, one at a time, until there is no room. *)
PushRegisters(first, last) ==
  LET sp == oVMArgStack.iStackPointer
      n  == last - first + 1
      k  == IF n <= sp THEN n ELSE sp
      s  == [oVMArgStack EXCEPT
               !.iStackPointer = sp - k,
               !.aStack = [p \in Positions |->
                  IF p \in sp - k..sp - 1 THEN oRegs[first + (sp - 1 - p)] ELSE oVMArgStack.aStack[p]]]
  IN \/ k = n /\ Advance /\ Set(s, oRegs, iFlags)
     \/ k < n /\ Throw(Overflow) /\ Set(s, oRegs, iFlags)

(* The registers last..first, one at a time, until the frame is empty. *)
PoppedForward(first, last, k, p) == first + p
PoppedInto(first, last, k, p) == last - p
PopRegisters(first, last) ==
  LET sp   == oVMArgStack.iStackPointer
      room == Base(oVMArgStack) - sp
      n    == last - first + 1
      k    == IF n <= room THEN n ELSE room
      regs == [r \in Registers |->
                 IF \E p \in 0..k - 1 : PoppedInto(first, last, k, p) = r
                 THEN oVMArgStack.aStack[sp + (CHOOSE p \in 0..k - 1 : PoppedInto(first, last, k, p) = r)]
                 ELSE oRegs[r]]
  IN \/ k = n /\ Advance /\ Set(Cleared(oVMArgStack, k), regs, iFlags)
     \/ k < n /\ Throw(Underflow) /\ Set(Cleared(oVMArgStack, k), regs, iFlags)

POP ==
  /\ Fetch("POP")
  /\ \/ ~IsReg(Instr.src) /\ Throw("IllegalOpcode") /\ Keep
     \/ IsReg(Instr.src) /\ PopRegisters(Instr.src, Instr.src)

PUSH13 == Fetch("PUSH13") /\ PushRegisters(0, 3)
PUSH47 == Fetch("PUSH47") /\ PushRegisters(4, 7)
PUSHA  == Fetch("PUSHA")  /\ PushRegisters(0, LastReg)
POP13  == Fetch("POP13")  /\ PopRegisters(0, 3)
POP47  == Fetch("POP47")  /\ PopRegisters(4, 7)
POPA   == Fetch("POPA")   /\ PopRegisters(0, LastReg)

-----------------------------------------------------------------------------
(* Arithmetic: 0x03.  The two topmost elements are replaced by the result. *)

StackOnly(i) == Legal(i.src = STACK /\ i.dst = STACK)
TwoOnTop(i) == Then(StackOnly(i), Reach(1))

Reduce(v) == Advance /\ Set(Cleared(WithElem(1, v), 1), oRegs, iFlags)

ARITHMETIC ==
  /\ \E op \in {"ADD", "SUB", "MUL", "DIV", "CONCAT"} : Fetch(op)
  /\ Either(TwoOnTop(Instr), CDTException \/ \E v \in Values : Reduce(v))

IDIV ==
  /\ Fetch("IDIV")
  /\ Either(TwoOnTop(Instr),
            \/ Elem(0) = 0 /\ Throw("ZeroDivision") /\ Keep
            \/ \E v \in Values : Reduce(v))             \* 0: by a negative one

(* There is no test for zero (line 975). *)
MOD ==
  /\ Fetch("MOD")
  /\ Either(TwoOnTop(Instr),
            \/ Elem(0) = 0 /\ Undefined
            \/ \E v \in Values : Reduce(v))             \* 0: by a negative one

(* A register or the top element becomes v; any other operand is ignored.  *)
Old == IF Instr.src = STACK THEN Elem(0) ELSE oRegs[Instr.src]

StepTo(values) ==
  LET i == Instr
  IN \/ ~IsReg(i.src) /\ i.src # STACK /\ Advance /\ Keep
     \/ IsReg(i.src) /\ (CDTException \/ \E v \in values : Advance /\ SetReg(i.src, v))
     \/ /\ i.src = STACK
        /\ Either(Reach(0), CDTException \/ \E v \in values : Advance /\ SetElem(0, v))

INC == Fetch("INC") /\ StepTo(Incremented(Old))
DEC == Fetch("DEC") /\ StepTo({Decremented(Old)})

(* The operand becomes v. *)
Assign(v) ==
  Advance /\ (IF Instr.src = STACK THEN SetElem(Instr.arg, v) ELSE SetReg(Instr.src, v))

Negated(v) == IF v = 0 THEN Values ELSE {0, v}   \* text is left as it is
NEG == Fetch("NEG") /\ Either(OperandError, \E v \in Negated(Operand) : Assign(v))
NOT == Fetch("NOT") /\ Either(OperandError, \E h \in Holds(Operand) : Assign(IF h THEN Undef ELSE 1))

-----------------------------------------------------------------------------
(* Register operations: 0x04. *)

Loaded == IF Instr.src \in Constants THEN Instr.arg ELSE Operand

MOV ==
  /\ Fetch("MOV")
  /\ Either(Then(Legal(IsReg(Instr.dst)), IF Instr.src \in Constants THEN Done ELSE OperandError),
            Advance /\ SetReg(Instr.dst, Loaded))

BetweenRegs == Legal(IsReg(Instr.dst) /\ IsReg(Instr.src))
AnyToReg == \E v \in Values : Advance /\ SetReg(Instr.dst, v)

MOVIINT == Fetch("MOVIINT") /\ Either(BetweenRegs, CDTException \/ AnyToReg)

MOVISTR ==
  /\ Fetch("MOVISTR")
  /\ Either(BetweenRegs,
            \/ \E v \in Values : Advance /\ Set(oVMArgStack, WithReg(Instr.dst, v), {"EQ"})
            \/ Advance /\ Set(oVMArgStack, WithReg(Instr.dst, Undef), {"NE"}))

(* A value stored inside of the one in a register may turn this one, if    *)
(* it was undefined, into an array or a hash.                              *)
StoreInside == Either(BetweenRegs, CDTException \/ (Advance /\ Keep))
IMOVINT == Fetch("IMOVINT") /\ StoreInside
IMOVSTR == Fetch("IMOVSTR") /\ StoreInside

MOVSIZE ==
  /\ Fetch("MOVSIZE")
  /\ LET i == Instr
         e == Then(Legal(IsReg(i.dst) \/ (i.dst = STACK /\ IsReg(i.src))),
                   Then(OperandError, IF i.dst = STACK THEN Reach(i.arg) ELSE Done))
     IN Either(e, \E n \in Values :
                    /\ Advance
                    /\ Set(IF i.dst = STACK THEN WithElem(i.arg, n) ELSE oVMArgStack,
                           IF i.dst = STACK THEN oRegs ELSE WithReg(i.dst, n),
                           IF n = 0 THEN {"EQ"} ELSE {}))

ThreeRegs == Then(BetweenRegs, Legal(IsReg(Instr.arg)))

(* The entry of a hash is found by counting from its first; nothing        *)
(* compares the count with the size (lines 1433-1443).                     *)
MOVIREGI == Fetch("MOVIREGI") /\ Either(ThreeRegs, CDTException \/ AnyToReg \/ Undefined)
MOVIREGS == Fetch("MOVIREGS") /\ Either(ThreeRegs, CDTException \/ AnyToReg)

-----------------------------------------------------------------------------
(* Comparisons: 0x05.  The destination is taken, and popped, first.        *)

Orders(v, w) ==
  IF v = 0 /\ w = 0 THEN {{"LT", "NE"}, {"GT", "NE"}, {"EQ"}}
  ELSE IF v < w THEN {{"LT", "NE"}} ELSE IF v > w THEN {{"GT", "NE"}} ELSE {{"EQ"}}
Parities(v) == IF v = 0 THEN {"PF", "NPF"} ELSE IF v % 2 = 0 THEN {"PF"} ELSE {"NPF"}

NumberFlags(v, w) == {f \cup {p} : f \in Orders(v, w), p \in Parities(v)}
TextFlags == Orders(0, 0)

Taken(x, depth) ==
  IF x = STACK THEN Elem(depth) ELSE IF IsReg(x) THEN oRegs[x] ELSE 0

Compare(numeric) ==
  LET i == Instr
      n == IF i.dst = STACK THEN 1 ELSE 0
      m == IF i.src = STACK THEN 1 ELSE 0
      second == IF m = 1 THEN Reach(n) ELSE Done
  IN Either(IF n = 1 THEN Reach(0) ELSE Done,
       \/ second # Done /\ Throw(second) /\ Set(Cleared(oVMArgStack, n), oRegs, iFlags)
       \/ /\ second = Done
          /\ \E f \in IF numeric THEN NumberFlags(Taken(i.src, n), Taken(i.dst, 0))
                     ELSE TextFlags :
               Advance /\ Set(Cleared(oVMArgStack, n + m), oRegs, f))

CMP  == Fetch("CMP")  /\ Compare(TRUE)
SCMP == Fetch("SCMP") /\ Compare(FALSE)

-----------------------------------------------------------------------------
(* Other operations: 0x08. *)

CLEAR ==
  /\ Fetch("CLEAR")
  /\ LET i == Instr
     IN \/ IsReg(i.src) /\ ~IsReg(i.dst) /\ Undefined      \* oRegs is overrun
        \/ IsReg(i.src) /\ IsReg(i.dst) /\ Advance /\ SetReg(i.dst, Undef)
        \/ ~IsReg(i.src) /\ Either(OperandError, Advance /\ SetElem(i.arg, Undef))

OUTPUT ==
  /\ Fetch("OUTPUT")
  /\ LET i == Instr
         e == CASE i.src = STACK -> Reach(0)
                [] i.src \in Indirect -> Legal(IsReg(i.dst))
                [] OTHER -> Legal(IsReg(i.src) \/ i.src \in Constants)
     IN Either(e,
          \/ Advance /\ (IF i.src = STACK THEN Set(Cleared(oVMArgStack, 1), oRegs, iFlags) ELSE Keep)
          \/ i.src = IND_VAL /\ CDTException)

REPLACE ==
  /\ Fetch("REPLACE")
  /\ LET i == Instr
         legal == IsReg(i.src) \/ (i.src \in Indirect /\ (IsReg(i.dst) \/ i.dst = STACK))
         found == IF IsReg(i.src) THEN {oRegs[i.src]} ELSE Values
     IN Either(Then(Legal(legal), Reach(0)),
          \/ \E v \in found : Advance /\ SetElem(0, v)
          \/ i.src = IND_VAL /\ CDTException)

Test == Either(OperandError, \E h \in Holds(Operand) :
                 Advance /\ Set(oVMArgStack, oRegs, IF h THEN {"EQ"} ELSE {"NE"}))
EXIST   == Fetch("EXIST")   /\ Test
DEFINED == Fetch("DEFINED") /\ Test

(* The top element becomes the one inside of it that the operand names.    *)
Descend == Either(Then(OperandError, Reach(0)),
                  CDTException \/ \E v \in Values : (Advance /\ SetElem(0, v)))
REPLINT == Fetch("REPLINT") /\ Descend
REPLSTR == Fetch("REPLSTR") /\ Descend
REPLIND == Fetch("REPLIND") /\ Descend

XCHG ==
  /\ Fetch("XCHG")
  /\ LET i == Instr
         e == Then(Legal(i.src = STACK), Then(Reach(i.arg), Legal(i.dst = STACK)))
     IN Either(e, Advance /\ Set(Stored(WithElem(i.arg, Elem(0)), TopPos(oVMArgStack, 0), Elem(i.arg)),
                                 oRegs, iFlags))

(* Neither checks anything.  A base pointer above the current one would    *)
(* let the stack pointer pass its base, and then the array; the last base  *)
(* pointer is read by every access.  A program that does either is not     *)
(* followed any further.                                                   *)
SAVEBP ==
  /\ Fetch("SAVEBP")
  /\ Len(oVMArgStack.vBasePointers) < MaxFrames
  /\ \/ TopPos(oVMArgStack, Instr.arg) > Base(oVMArgStack) /\ Undefined
     \/ /\ TopPos(oVMArgStack, Instr.arg) <= Base(oVMArgStack)
        /\ Advance /\ Set(BaseSaved(oVMArgStack, Instr.arg), oRegs, iFlags)

RESTBP ==
  /\ Fetch("RESTBP")
  /\ \/ Len(oVMArgStack.vBasePointers) = 1 /\ Undefined
     \/ /\ Len(oVMArgStack.vBasePointers) > 1
        /\ Advance /\ Set(BaseRestored(oVMArgStack), oRegs, iFlags)

-----------------------------------------------------------------------------
(* 0xFF, and what is none of the operations. *)

Halt ==
  /\ status' = "halted"
  /\ UNCHANGED <<exception, loaded, iIP, iExecutedSteps, data, oVMCodeStack>>

HLT == Fetch("HLT") /\ Halt
BRK == Fetch("BRK") /\ (IF iDebugLevel > 0 THEN Halt ELSE Advance /\ Keep)
NOP == Fetch("NOP") /\ Advance /\ Keep

Illegal == Fetch("ILLEGAL") /\ Throw("IllegalOpcode") /\ Keep

(* The loop is left at the end of the code. *)
Finish == status = "running" /\ iIP >= CodeSize(program) /\ Halt

Transfers == CALL \/ RCALL \/ JMP \/ RJMP \/ JXX \/ RJXX \/ RET \/ LOOP \/ CALLNAME \/ CALLIND \/ SYSCALL
Moves == MOV \/ MOVIINT \/ MOVISTR \/ IMOVINT \/ IMOVSTR \/ MOVSIZE \/ MOVIREGI \/ MOVIREGS
Stacks == PUSH \/ POP \/ PUSH13 \/ PUSH47 \/ PUSHA \/ POP13 \/ POP47 \/ POPA
Computes == ARITHMETIC \/ IDIV \/ MOD \/ INC \/ DEC \/ NEG \/ NOT \/ CMP \/ SCMP
Others == CLEAR \/ OUTPUT \/ REPLACE \/ EXIST \/ DEFINED \/ REPLINT \/ REPLSTR \/ REPLIND \/ XCHG
            \/ SAVEBP \/ RESTBP
Stops == HLT \/ BRK \/ NOP \/ Illegal \/ Finish

Step == Transfers \/ Moves \/ Stacks \/ Computes \/ Others \/ Stops

Next ==
  \/ \E p \in Programs : InitProgram(p)
  \/ \E oCDT \in Values : Run(0, oCDT)
  \/ Reset
  \/ Step

Spec == Init /\ [][Next]_vars

(* The thread that called Run keeps executing the loop. *)
LiveSpec == Spec /\ WF_vars(Step)

-----------------------------------------------------------------------------
(* Type correctness: of what decides the next instruction, and of what     *)
(* the instructions work on.                                               *)
ControlTypeOK ==
  /\ status \in {"new", "ready", "running", "halted", "thrown", "undefined"}
  /\ WellFormed(program)
  /\ iIP \in Nat
  /\ iExecutedSteps \in Nat
  /\ oVMCodeStack \in Seq(Nat)
DataTypeOK ==
  /\ iFlags \subseteq Flags
  /\ oRegs \in [Registers -> Values]
  /\ oVMArgStack \in StackType

CallsBounded == Len(oVMCodeStack) <= iMaxCodeStackSize

(* Only jumps, loops, calls by address and returns compare the steps with  *)
(* the limit (lines 374, 404, 427, 451, 508, 538, 1684, 1732).  Past it a  *)
(* program can go on in a straight line, or enter one more block by name,  *)
(* which takes one more return address.                                    *)
StepsWithReturns ==
  status = "running" /\ iExecutedSteps > iMaxSteps
    => /\ iIP <= CodeSize(program)
       /\ iExecutedSteps - iMaxSteps <= Len(oVMCodeStack) * CodeSize(program) + iIP

(* A run is bounded whatever the program and whatever an earlier run left: *)
(* by the limit, and after it the code once for each return address there  *)
(* is room for, and once more.                                             *)
StepBound ==
  status \in {"running", "halted"}
    => iExecutedSteps <= iMaxSteps + (iMaxCodeStackSize + 1) * CodeSize(program)

(* Frames stay nested over all the opcodes, also when a run starts on what *)
(* the exception of an earlier one left on the stack.                      *)
FramesNested ==
  LET bp == oVMArgStack.vBasePointers
  IN /\ bp # <<>>
     /\ bp[1] = iMaxStackSize
     /\ \A i, j \in 1..Len(bp) : i <= j => bp[j] <= bp[i]
     /\ oVMArgStack.iStackPointer <= bp[Len(bp)]

(* A program that Init has accepted finds each of its syscalls in the map, *)
(* whatever an earlier program has left there.                             *)
CallsResolved ==
  /\ iMaxCalls \in Nat
  /\ status \in {"ready", "running"} =>
       \A c \in 0..Len(program.syscalls) - 1 :
          /\ c \in DOMAIN aCallTranslationMap
          /\ aCallTranslationMap[c] = program.syscalls[c + 1]

(* A syscall of a program reaches the handler of its own name, also when   *)
(* Init has kept the larger map of an earlier program (line 133) or has    *)
(* failed in between.                                                      *)
DispatchesOwn == dispatched[2] # Unknown => dispatched[1] = dispatched[2]

(* The inductive invariant, in a part for each third of the state. *)
ControlInv == ControlTypeOK /\ CallsBounded /\ StepsWithReturns /\ StepBound
DataInv == DataTypeOK /\ FramesNested
CallsInv == CallsResolved /\ DispatchesOwn
IInv == ControlInv /\ DataInv /\ CallsInv

(* An opcode, whatever it chains of pushes, pops and assignments, changes  *)
(* no element the caller of the current block has on the stack.            *)
CallersKept ==
  [][\A p \in Positions :
       p >= Base(oVMArgStack) => oVMArgStack'.aStack[p] = oVMArgStack.aStack[p]]_vars

(* Every run ends, whatever the program. *)
Terminates == (status = "running") ~> (status # "running")
=============================================================================
