-------------------------------- MODULE MCVM --------------------------------
(* Model checking of VM: every short program of control transfers, and     *)
(* programs that put each other operation to work, well and badly formed.  *)
EXTENDS VM

Val == 0..MaxValue
SomeFlags == SUBSET {"NE"}

I(o, s, d, a) == [op |-> o, src |-> s, dst |-> d, arg |-> a, flags |-> {}, args |-> 0]
J(o, f, a) == [op |-> o, src |-> 0, dst |-> 0, arg |-> a, flags |-> f, args |-> 0]
S(n, k) == [op |-> "SYSCALL", src |-> 0, dst |-> 0, arg |-> n, flags |-> {}, args |-> k]

Program(code, calls, syscalls) ==
  [ size |-> Len(code), code |-> [a \in 0..Len(code) - 1 |-> code[a + 1]],
    calls |-> [v \in Val |-> IF v \in DOMAIN calls THEN calls[v] ELSE NoCall],
    syscalls |-> syscalls ]

(* Every program of three transfers. *)
TransferSet ==
  { I("PUSH", 3, 0, 0), I("EXIST", 3, 0, 0), I("RET", 0, 0, 0), I("RET", 0, 0, 1),
    I("CALL", 0, 0, 1), I("RCALL", 0, 0, Word - 1), I("JMP", 0, 0, 0), J("JXX", {"EQ"}, 0),
    J("RJXX", {"NE"}, 2), I("LOOP", 3, 1, 0), I("CALLNAME", 0, 0, 0), I("CALLNAME", 0, 0, 1),
    I("CALLIND", STACK, 0, 0) }

ControlPrograms == { Program(code, <<2, 3>>, <<>>) : code \in [1..3 -> TransferSet] }

(* Every operation on every kind of operand, on an empty stack, on a full  *)
(* one, and on one whose lower half belongs to the caller.                 *)
Prefixes ==
  LET P == I("PUSH", 3, 0, 0)
  IN { <<>>, [k \in 1..iMaxStackSize |-> P], <<P, P, I("SAVEBP", 0, 0, 1)>> }

Plain ==
  { I(o, 0, 0, 0) : o \in {"PUSH13", "PUSH47", "PUSHA", "POP13", "POP47", "POPA",
                           "RESTBP", "BRK", "NOP", "HLT", "ILLEGAL"} }
OneOperand ==
  { I(o, s, 0, a) : o \in {"INC", "DEC", "NEG", "NOT", "EXIST", "DEFINED", "REPLINT", "REPLSTR", "REPLIND",
                           "CALLIND", "POP", "RET", "SAVEBP", "RJMP", "JMP", "CALL", "RCALL", "CALLNAME"},
                    s \in {3, STACK, 22}, a \in 0..2 }
TwoOperands ==
  { I(o, s, d, a) : o \in {"PUSH", "MOV", "OUTPUT", "REPLACE", "CLEAR", "XCHG", "CMP", "SCMP", "MOVSIZE"},
                    s \in {3, STACK, IND_VAL, IND_STR, INT, 22}, d \in {0, STACK, 22}, a \in 0..2 }
Others2 ==
  { I(o, s, d, a) : o \in {"ADD", "IDIV", "MOD", "MOVIINT", "MOVISTR", "IMOVINT", "IMOVSTR", "MOVIREGI",
                           "MOVIREGS", "LOOP"},
                    s \in {3, STACK}, d \in {0, STACK}, a \in {0, 2, 9} }

(* Programs that save the registers, change two of them, and restore them. *)
Saving(push, pop) ==
  Program(<<I("MOV", INT, 0, 1), I("MOV", INT, 5, 2), I(push, 0, 0, 0), I("MOV", INT, 0, 2),
            I("CLEAR", 0, 5, 0), I("INC", 3, 0, 0), I(pop, 0, 0, 0), I("HLT", 0, 0, 0)>>, <<>>, <<>>)
SavePrograms == {Saving("PUSH13", "POP13"), Saving("PUSH47", "POP47"), Saving("PUSHA", "POPA")}

OperationPrograms ==
  SavePrograms \cup
  { Program(Append(prefix, i), <<2, 9>>, <<>>) :
      prefix \in Prefixes, i \in Plain \cup OneOperand \cup TwoOperands \cup Others2 }

(* Programs with syscalls, some of them unknown, and with calls too many   *)
(* by one; the first leaves frames, arguments and a return address behind. *)
SyscallPrograms ==
  { Program(<<I("PUSH", 3, 0, 0), I("SAVEBP", 0, 0, 1), I("PUSH", 3, 0, 0), I("CALL", 0, 0, 4), S(0, 1), S(2, 0)>>,
            <<>>, <<"a", "b">>),
    Program(<<I("PUSH", 3, 0, 0), S(1, 1), S(0, 3)>>, <<>>, <<"b", "a">>),
    Program(<<S(0, 0), S(1, 0), I("POP", 0, 0, 0), I("BRK", 0, 0, 0), S(4, 0)>>, <<>>, <<"c">>),
    Program(<<I("RET", 0, 0, 0), S(0, 0)>>, <<>>, <<>>),
    Program(<<S(0, 0)>>, <<>>, <<"a", "none", "b">>) }

AllPrograms == ControlPrograms \cup SyscallPrograms \cup OperationPrograms

(* After a program with syscalls, others.  (Only control programs and the  *)
(* programs of one operation have blocks.)                                 *)
First ==
  /\ runs = 0
  /\ \E p \in Programs : InitProgram(p)

Again ==
  /\ runs > 0 /\ program.calls[1] = NoCall
  /\ \E p \in SyscallPrograms : InitProgram(p)

MCNext ==
  \/ First \/ Again
  \/ \E oCDT \in Values : Run(0, oCDT)
  \/ Reset
  \/ Step

MCSpec == Init /\ [][MCNext]_vars /\ WF_vars(Step)

(* What PUSH13, PUSH47 and PUSHA save, POP13, POP47 and POPA put back in   *)
(* the same registers (lines 724-812).                                     *)
RegistersRestored ==
  [][(program \in SavePrograms /\ status = "running" /\ status' = "halted") =>
       /\ program.code[2].op # "PUSH47" => oRegs'[0] = 1
       /\ program.code[2].op # "PUSH13" => oRegs'[5] = 2
       /\ \A r \in Registers \ {0, 3, 5} : oRegs'[r] = Undef]_vars
=============================================================================
