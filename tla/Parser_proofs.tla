---------------------------- MODULE Parser_proofs ---------------------------
(***************************************************************************)
(* Proofs about Parser: for every template, however its constructs are     *)
(* nested and included, the compiler knows the stack of the machine.       *)
(*                                                                         *)
(* The inductive invariant says what the stack holds.  Under the values of *)
(* the expression that is being read are the arguments of the block the    *)
(* code belongs to and eight cells for every loop; a context says how many *)
(* of each.  Every open operator and every file stands in a context, every *)
(* open expression on a number of values, and every jump that is still to  *)
(* be patched brings the stack of the place where it will be patched.      *)
(***************************************************************************)
EXTENDS Parser, FiniteSetTheorems, SequenceTheorems, WellFoundedInduction, TLAPS

(* What lies under the values of an expression: the arguments of a block,  *)
(* the register at its start, and the loops that are open.                 *)
Context == [args : Nat, hr : {0, Caller}, level : Nat]
Root == [args |-> 0, hr |-> 0, level |-> 0]
Block(n) == [args |-> n, hr |-> Caller, level |-> 0]
Inside(x) == [x EXCEPT !.level = @ + 1]
HROf(x) == IF x.level = 0 THEN x.hr ELSE x.level

CellAt(x, i) ==
  LET j == i - x.args
  IN IF i <= x.args THEN Arg(x.args - i)
     ELSE IF j > 8 * x.level THEN Temp
     ELSE IF j % 8 # 0 THEN Saved
     ELSE SavedHR(IF j = 8 THEN x.hr ELSE j \div 8 - 1)
Height(x, k) == x.args + 8 * x.level + k
Cells(x, k) == [i \in 1..Height(x, k) |-> CellAt(x, i)]
Shape(x, r, k) == [cells |-> Cells(x, k), hr |-> r]
Shapes == UNION {{Shape(x, r, k) : r \in Int, k \in Nat} : x \in Context}
Opcodes == {"ADD", "CALLIND", "CALLNAME", "CMP", "DEFINED", "EXIST", "HLT", "IMOVSTR", "JE", "JMP", "JXX",
            "LOOP", "MOV", "MOVIREGI", "MOVSIZE", "NEG", "OUTPUT", "POP", "POPA", "PUSH", "PUSHA", "REPLACE",
            "REPLIND", "RESTBP", "RET", "RETURNED", "RJMP", "RJXX", "SAVEBP", "SYSCALL", "XCHG"}
Instruction == [op : Opcodes, at : SUBSET Shapes]

(* Code that leaves k values over x, HR being r.  pending are the jumps on *)
(* their way: how many instructions ahead, with how many values.           *)
Pending(f, x, r, pending) ==
  \A j \in f.ahead : \E q \in pending :
    j.to = Len(f.trail) + q[1] /\ j.from \subseteq {Shape(x, r, q[2])}
FlowSound(f, x, r, k, pending) ==
  /\ f = [at |-> f.at, trail |-> f.trail, ahead |-> f.ahead, wrong |-> {}]
  /\ f.at \subseteq {Shape(x, r, k)}
  /\ f.trail \in Seq(Instruction)
  /\ Pending(f, x, r, pending)

(* A scope per loop, with the depth behind its eight cells.                *)
ScopesSound(scopes, x) ==
  /\ scopes = [i \in 1..x.level |-> scopes[i]] /\ Len(scopes) = x.level
  /\ \A i \in 1..x.level : \A rec \in scopes[i] : rec.stack_depth = 8 * i /\ rec.scope_number = i

CompilerOf(depth, level, saved, scopes, flow) ==
  [iStackDepth |-> depth, iScopeNumber |-> level, vSavedStackDepths |-> saved, scopes |-> scopes, flow |-> flow]
CompilerSound(c, x, k, d, saved, pending) ==
  /\ c = CompilerOf(8 * x.level + d, x.level, saved, c.scopes, c.flow)
  /\ ScopesSound(c.scopes, x)
  /\ FlowSound(c.flow, x, HROf(x), k, pending)

-----------------------------------------------------------------------------
(* The open operators of a file. *)

(* The place a loop goes back to, and the jump out of it before.           *)
RetSound(ret, x) ==
  /\ ret.iIP - 2 \in 1..Len(ret.code) /\ ret.iIP \in 1..Len(ret.code)
  /\ \A i \in {ret.iIP, ret.iIP - 2} : \A s \in ret.code[i].at : \E r \in Int : s = Shape(x, r, 0)
  /\ ret.code[ret.iIP - 2].op = "JE"

(* Operator o is open in context x; what it holds is in context y.         *)
BranchSound(o, x, y) ==
  /\ o.k = "branch" /\ y = x /\ o.else \in BOOLEAN
  /\ o = [k |-> "branch", caller |-> o.caller, exits |-> o.exits, else |-> o.else]
  /\ o.caller \subseteq {Shape(x, HROf(x), 0)} /\ o.exits \subseteq {Shape(x, HROf(x), 0)}
ForeachSound(o, x, y) ==
  /\ o.k = "foreach" /\ y = Inside(x)
  /\ o = [k |-> "foreach", ret |-> o.ret, bOldFlag |-> (x.level # 0)]
  /\ RetSound(o.ret, y)
BlockSound(o, x, y) ==
  /\ o.k = "block" /\ x.level = 0 /\ o.args \in Nat /\ y = Block(o.args)
  /\ o = [k |-> "block", skip |-> o.skip, base |-> 0, args |-> o.args]
  /\ o.skip \subseteq {Shape(x, HROf(x), 0)}
VerboseSound(o, x, y) ==
  /\ o.k = "verbose" /\ y = x
  /\ o = [k |-> "verbose", bOldVerboseMode |-> o.bOldVerboseMode]
OpSound(o, x, y) ==
  BranchSound(o, x, y) \/ ForeachSound(o, x, y) \/ BlockSound(o, x, y) \/ VerboseSound(o, x, y)

(* The arguments of the block that is open in the file have their places.  *)
NamesSound(p, x) ==
  p.bInBlock =>
    /\ IsFiniteSet(DOMAIN p.mCurrentBlock) /\ Cardinality(DOMAIN p.mCurrentBlock) = x.args
    /\ \A a \in DOMAIN p.mCurrentBlock : p.mCurrentBlock[a] \in 0..x.args - 1

(* g[n] is the context behind the first n operators.                       *)
OpsSound(ops, g) ==
  /\ \A n \in 0..Len(ops) : g[n] \in Context
  /\ \A n \in 1..Len(ops) : OpSound(ops[n], g[n - 1], g[n])
BlocksSound(ops, g) ==
  /\ \A m, n \in 1..Len(ops) : ops[m].k = "block" /\ ops[n].k = "block" => m = n
  /\ \A m \in 1..Len(ops) : ops[m].k = "block" => g[0].level = 0
  /\ \A n \in 0..Len(ops) :
       (\A m \in 1..n : ops[m].k # "block") => g[n].args = g[0].args /\ g[n].hr = g[0].hr
  /\ \A m, n \in 1..Len(ops) : ops[m].k = "block" /\ m <= n => g[n].args = ops[m].args
VerboseModes(ops) ==
  \A n \in 1..Len(ops) :
    ops[n].k = "verbose" => ops[n].bOldVerboseMode = (\E m \in 1..n - 1 : ops[m].k = "verbose")
BreaksSound(p, x, y) ==
  /\ p.vBreakJMPPoints = [i \in 1..Len(p.vBreakJMPPoints) |-> p.vBreakJMPPoints[i]]
  /\ Len(p.vBreakJMPPoints) \in Nat
  /\ Len(p.vBreakJMPPoints) = Cardinality(OpenIn(p, "foreach"))
  /\ y.level = (IF OpenIn(p, "block") = {} THEN x.level ELSE 0) + Len(p.vBreakJMPPoints)
  /\ \A i \in 1..Len(p.vBreakJMPPoints) :
       p.vBreakJMPPoints[i] \subseteq {Shape([y EXCEPT !.level = x.level + i], x.level + i, 0)}
FileSound(p, g) ==
  /\ p = [ops |-> p.ops, bInForeach |-> (g[Len(p.ops)].level # 0), bInBlock |-> (OpenIn(p, "block") # {}),
          bVerboseMode |-> (OpenIn(p, "verbose") # {}), mCurrentBlock |-> p.mCurrentBlock,
          vBreakJMPPoints |-> p.vBreakJMPPoints]
  /\ p.ops = [n \in 1..Len(p.ops) |-> p.ops[n]] /\ Len(p.ops) \in Nat
  /\ OpsSound(p.ops, g) /\ BlocksSound(p.ops, g) /\ VerboseModes(p.ops)
  /\ BreaksSound(p, g[0], g[Len(p.ops)])
  /\ NamesSound(p, g[Len(p.ops)])

Behind(p, g) == g[Len(p.ops)]
FilesSound(files, G) ==
  /\ files = [i \in 1..Len(files) |-> files[i]] /\ Len(files) \in 1..MaxLevel
  /\ \A i \in 1..Len(files) : FileSound(files[i], G[i])
  /\ G[1][0] = Root
  /\ \A i \in 2..Len(files) : G[i][0] = Behind(files[i - 1], G[i - 1])
Here(files, G) == Behind(files[Len(files)], G[Len(files)])

-----------------------------------------------------------------------------
(* The open expressions. *)

One(b) == IF b THEN 1 ELSE 0
Held(e) ==
  IF e.k = "statement" THEN IF e.of = "call" THEN e.iArgCount - 1 + One(e.bIsVariable) ELSE 0
  ELSE IF e.k = "logical" THEN One(e.rel) + One(e.add) + One(e.mul)
  ELSE IF e.k = "function" THEN e.n - 1
  ELSE IF e.k = "variable" THEN 1 + One(e.complex /\ ~e.block)
  ELSE 0

CallSound(e) ==
  /\ e \in [k : {"statement"}, of : {"call"}, bIsVariable : BOOLEAN, iFormalArgCount : Nat, iArgCount : Nat,
            listed : BOOLEAN]
  /\ e.listed \/ e.iArgCount = 0
StatementSound(e) ==
  /\ e.k = "statement"
  /\ \/ e.of \in {"var", "if", "unless", "elsif", "foreach", "callee"}
     \/ e.of = "call" /\ CallSound(e)
LogicalSound(e, x, k) ==
  /\ e \in [k : {"logical"}, of : {"parenthesis", "argument", "key"}, or : SUBSET {Shape(x, HROf(x), k)},
            ands : SUBSET {Shape(x, HROf(x), k)}, inOr : BOOLEAN, inAnd : BOOLEAN,
            rel : BOOLEAN, add : BOOLEAN, mul : BOOLEAN]
InnerSound(e, x, k) ==
  \/ LogicalSound(e, x, k)
  \/ e = [k |-> "unary"]
  \/ e \in [k : {"function"}, n : Nat \ {0}]
  \/ e \in [k : {"variable"}, complex : BOOLEAN, block : BOOLEAN, iterator : BOOLEAN]
(* An argument belongs to a function, a key to a variable.                 *)
Belongs(outer, e) ==
  e.k = "logical" => /\ e.of = "argument" => outer.k = "function"
                     /\ e.of = "key" => outer.k = "variable"

(* K[n] is the number of values under the frame after the first n.         *)
FramesSound(frames, x, K) ==
  /\ frames = [i \in 1..Len(frames) |-> frames[i]] /\ Len(frames) \in Nat
  /\ K[0] = 0
  /\ \A i \in 1..Len(frames) : K[i] = K[i - 1] + Held(frames[i]) /\ K[i] \in Int
  /\ \A i \in 1..Len(frames) : IF i = 1 THEN StatementSound(frames[i])
                               ELSE K[i - 1] \in Nat /\ InnerSound(frames[i], x, K[i - 1]) /\ Belongs(frames[i - 1], frames[i])
AtSound(a, frames) ==
  /\ a \in {"text", "operand", "factor", "step", "path", "arguments", "done", "error", "undefined"}
  /\ a \in {"text", "done", "error", "undefined"} <=> frames = <<>>
  /\ a \in {"step", "path"} => frames[Len(frames)].k = "variable"
  /\ a = "arguments" => Len(frames) = 1 /\ frames[1].of = "call"
Valued(a) == IF a \in {"factor", "arguments"} THEN 1 ELSE 0

SavedDepths(x, frames) ==
  IF frames # <<>> /\ frames[1].of = "call" THEN <<8 * x.level + One(frames[1].bIsVariable)>> ELSE <<>>

(* A constant that may be taken back was pushed where there was a value    *)
(* less.                                                                   *)
LastPushed(f, x, r, k) ==
  f.trail # <<>> /\ f.trail[Len(f.trail)].at \subseteq {Shape(x, r, k - 1)}
TopKnown(f, x, k) ==
  f.trail # <<>> /\ f.trail[Len(f.trail)].op = "PUSH" => k > 0 /\ LastPushed(f, x, HROf(x), k)
TrailSound(a, f, x, k) == a = "factor" => TopKnown(f, x, k)

(* What is read in context x, and the code for it.                         *)
ExprSound(x, frames, K, a, c) ==
  LET k == K[Len(frames)] + Valued(a)
  IN /\ FramesSound(frames, x, K) /\ AtSound(a, frames)
     /\ k \in Nat
     /\ CompilerSound(c, x, k, k, SavedDepths(x, frames), {})
     /\ TrailSound(a, c.flow, x, k)

SizesSound(sizes) ==
  /\ sizes = [b \in DOMAIN sizes |-> sizes[b]]
  /\ DOMAIN sizes \subseteq BlockNames /\ \A b \in DOMAIN sizes : sizes[b] \in Nat

(* The condition of an ELSIF belongs to the branch that is open.           *)
ElsifSound(frames, files) ==
  frames # <<>> /\ frames[1].of = "elsif" =>
    LET p == Last(files) IN p.ops # <<>> /\ p.ops[Len(p.ops)].k = "branch"

Sound(G, K) ==
  /\ FilesSound(parsers, G)
  /\ ExprSound(Here(parsers, G), expr, K, at, oCompiler) /\ ElsifSound(expr, parsers)
  /\ SizesSound(mBlockArgSizes) /\ eResultOperator \in {"constant", "variable"}

IInv == \E G, K : Sound(G, K)
-----------------------------------------------------------------------------
(* A set of natural numbers has a least element, a bounded one a greatest. *)
LEMMA LeastNumber ==
  ASSUME NEW M, M \subseteq Nat, M # {}
  PROVE  \E n \in M : \A m \in M : n <= m
<1> DEFINE R == {pair \in Nat \X Nat : pair[1] < pair[2]}
<1>1. IsWellFoundedOn(R, Nat)
  BY NatLessThanWellFounded DEF OpToRel
<1>2. PICK n \in M : \A m \in M : ~(<<m, n>> \in R)
  <2> HIDE DEF R
  <2> QED BY <1>1, WFMin
<1>3. \A m \in M : <<m, n>> \in Nat \X Nat
  BY <1>2
<1>4. \A m \in M : ~(m < n)
  BY <1>2, <1>3
<1> QED BY <1>2, <1>4

LEMMA GreatestNumber ==
  ASSUME NEW b \in Nat, NEW M, M \subseteq 0..b, M # {}
  PROVE  \E n \in M : \A m \in M : m <= n
<1> DEFINE U == {u \in Nat : b - u \in M}
<1>1. \A m \in M : b - m \in U
  OBVIOUS
<1>2. U \subseteq Nat /\ U # {}
  BY <1>1
<1>3. \A u \in U : u \in Nat /\ b - u \in M
  OBVIOUS
<1> HIDE DEF U
<1>4. PICK u \in U : \A v \in U : u <= v
  BY <1>2, LeastNumber
<1>5. ASSUME NEW m \in M PROVE m <= b - u
  <2>1. u <= b - m /\ m \in 0..b /\ u \in Nat
    BY <1>1, <1>3, <1>4
  <2> QED BY <2>1
<1> QED BY <1>3, <1>5

(* Lists: what is appended, replaced at the end and taken from it.         *)
IsList(s, n) == s = [i \in 1..n |-> s[i]] /\ Len(s) = n

Longer(t, s, n, e) == IsList(t, n + 1) /\ t[n + 1] = e /\ \A i \in 1..n : t[i] = s[i]
Shorter(t, s, n) == IsList(t, n - 1) /\ \A i \in 1..n - 1 : t[i] = s[i]
Renewed(t, s, n, e) == IsList(t, n) /\ t[n] = e /\ \A i \in 1..n - 1 : t[i] = s[i]

LEMMA ListType ==
  ASSUME NEW n \in Nat, NEW s, s = [i \in 1..n |-> s[i]]
  PROVE  s \in Seq({s[i] : i \in 1..n}) /\ Len(s) = n /\ DOMAIN s = 1..n
<1> DEFINE T == {s[i] : i \in 1..n}
<1>1. \A i \in 1..n : s[i] \in T
  OBVIOUS
<1> HIDE DEF T
<1>2. s \in [1..n -> T]
  BY <1>1
<1>3. s \in Seq(T) /\ Len(s) = n
  BY <1>2
<1> QED BY <1>2, <1>3 DEF T

LEMMA AppendList ==
  ASSUME NEW n \in Nat, NEW s, IsList(s, n), NEW e
  PROVE  Longer(Append(s, e), s, n, e)
<1> DEFINE T == {s[i] : i \in 1..n} \cup {e}
           t == Append(s, e)
<1>1. s \in Seq({s[i] : i \in 1..n}) /\ Len(s) = n
  BY ListType DEF IsList
<1>2. s \in Seq(T) /\ e \in T
  BY <1>1
<1> HIDE DEF T
<1>3. /\ t \in Seq(T) /\ Len(t) = n + 1 /\ t[n + 1] = e
      /\ \A i \in 1..n : t[i] = s[i]
  BY <1>1, <1>2
<1> HIDE DEF t
<1>4. t = [i \in 1..n + 1 |-> t[i]]
  BY <1>3
<1> QED BY <1>3, <1>4 DEF IsList, Longer, t

LEMMA FrontList ==
  ASSUME NEW n \in Nat, n > 0, NEW s, IsList(s, n)
  PROVE  Shorter(Front(s), s, n) /\ Last(s) = s[n]
<1> DEFINE T == {s[i] : i \in 1..n}
           t == Front(s)
<1>1. s \in Seq(T) /\ Len(s) = n
  BY ListType DEF IsList
<1> HIDE DEF T
<1>2. t = SubSeq(s, 1, n - 1)
  BY <1>1 DEF Front
<1>3. /\ t \in Seq(T) /\ Len(t) = n - 1
      /\ \A i \in 1..n - 1 : t[i] = s[i]
  BY <1>1, <1>2
<1> HIDE DEF t
<1>4. t = [i \in 1..n - 1 |-> t[i]]
  BY <1>3
<1> QED BY <1>1, <1>3, <1>4 DEF IsList, Last, Shorter, t

LEMMA ReplacedList ==
  ASSUME NEW n \in Nat, n > 0, NEW s, IsList(s, n), NEW e
  PROVE  Renewed(Front(s) \o <<e>>, s, n, e) /\ Front(s) \o <<e>> = Append(Front(s), e)
<1> DEFINE f == Front(s)
           m == n - 1
           t == Append(f, e)
<1>1. IsList(f, m) /\ m \in Nat /\ m + 1 = n /\ \A i \in 1..m : f[i] = s[i]
  BY FrontList DEF Shorter
<1>2. f \o <<e>> = Append(f, e)
  <2>1. f \in Seq({f[i] : i \in 1..m})
    BY <1>1, ListType DEF IsList
  <2> DEFINE T == {f[i] : i \in 1..m} \cup {e}
  <2>2. f \in Seq(T) /\ e \in T
    BY <2>1
  <2> HIDE DEF T, f
  <2> QED BY <2>2, AppendIsConcat
<1> HIDE DEF f, m
<1>3. Longer(t, f, m, e)
  BY <1>1, AppendList
<1> HIDE DEF t
<1>4. Renewed(t, s, n, e)
  <2>1. n - 1 = m
    BY DEF m
  <2> QED BY <1>1, <1>3, <2>1 DEF Longer, Renewed
<1> QED BY <1>2, <1>4 DEF f, t

LEMMA UpdatedList ==
  ASSUME NEW n \in Nat, n > 0, NEW s, IsList(s, n), NEW e
  PROVE  Renewed([s EXCEPT ![n] = e], s, n, e)
<1> DEFINE t == [s EXCEPT ![n] = e]
<1>1. s = [i \in 1..n |-> s[i]] /\ DOMAIN s = 1..n /\ n \in DOMAIN s
  BY ListType DEF IsList
<1>2. t = [i \in 1..n |-> IF i = n THEN e ELSE s[i]]
  BY <1>1
<1>3. \A i \in 1..n : t[i] = IF i = n THEN e ELSE s[i]
  <2> HIDE DEF t
  <2> QED BY <1>2
<1> HIDE DEF t
<1>4. t = [i \in 1..n |-> t[i]]
  BY <1>2, <1>3
<1>5. Len(t) = n
  BY <1>4, ListType
<1>6. t[n] = e /\ \A i \in 1..n - 1 : t[i] = s[i]
  BY <1>3
<1> QED BY <1>4, <1>5, <1>6 DEF IsList, Renewed, t

-----------------------------------------------------------------------------
(* The cells. *)

AllCells == {"temp", "register", "HR", "arg"} \X Int
USE DEF Temp, Saved, SavedHR, Arg

LEMMA Joined ==
  ASSUME NEW S, NEW s \in Seq(S), NEW t \in Seq(S), NEW w, w = s \o t
  PROVE  /\ w \in Seq(S) /\ Len(w) = Len(s) + Len(t)
         /\ \A i \in 1..Len(s) : w[i] = s[i]
         /\ \A i \in 1..Len(t) : w[Len(s) + i] = t[i]
BY ConcatProperties

LEMMA ContextType ==
  ASSUME NEW x \in Context
  PROVE  /\ x.args \in Nat /\ x.level \in Nat /\ x.hr \in Int /\ x.hr \in {0, Caller}
         /\ x = [args |-> x.args, hr |-> x.hr, level |-> x.level]
         /\ HROf(x) \in Int
<1>1. PICK n \in Int : n = Caller
  BY DEF Caller
<1> QED BY <1>1 DEF Context, HROf

LEMMA CellsType ==
  ASSUME NEW x \in Context, NEW k \in Nat
  PROVE  /\ Cells(x, k) \in Seq(AllCells)
         /\ Height(x, k) \in Nat
         /\ Len(Cells(x, k)) = Height(x, k)
         /\ \A i \in 1..Height(x, k) : Cells(x, k)[i] = CellAt(x, i)
<1>1. x.args \in Nat /\ x.level \in Nat /\ x.hr \in Int
  BY ContextType
<1>2. Height(x, k) \in Nat
  BY <1>1 DEF Height
<1>3. ASSUME NEW i \in 1..Height(x, k) PROVE CellAt(x, i) \in AllCells
  BY <1>1, <1>2, <1>3 DEF CellAt, AllCells
<1>4. Cells(x, k) \in Seq(AllCells)
  BY <1>2, <1>3 DEF Cells
<1>5. DOMAIN Cells(x, k) = 1..Height(x, k)
  BY DEF Cells
<1> QED BY <1>2, <1>4, <1>5 DEF Cells

LEMMA TempAbove ==
  ASSUME NEW x \in Context, NEW i \in Int, i > x.args + 8 * x.level
  PROVE  CellAt(x, i) = Temp
BY ContextType DEF CellAt

CellsAfter(cells, pops, pushes) == SubSeq(cells, 1, Len(cells) - pops) \o pushes
LEMMA EffectOf ==
  ASSUME NEW cells, NEW r, NEW pops, NEW pushes
  PROVE  Effect([cells |-> cells, hr |-> r], pops, pushes) =
           [cells |-> CellsAfter(cells, pops, pushes), hr |-> r]
<1> DEFINE s == [cells |-> cells, hr |-> r]
           w == SubSeq(cells, 1, Len(cells) - pops) \o pushes
<1>1. s.cells = cells
  OBVIOUS
<1>2. Effect(s, pops, pushes) = [s EXCEPT !.cells = w]
  BY <1>1 DEF Effect
<1>3. [s EXCEPT !.cells = w] = [cells |-> w, hr |-> r]
  <2> HIDE DEF w
  <2> QED OBVIOUS
<1> QED BY <1>2, <1>3 DEF CellsAfter

(* Values are taken from the top, and others put there. *)
LEMMA TempsEffect ==
  ASSUME NEW x \in Context, NEW r \in Int, NEW k \in Nat, NEW pops \in 0..k, NEW pushes \in Seq({Temp})
  PROVE  Effect(Shape(x, r, k), pops, pushes) = Shape(x, r, k - pops + Len(pushes))
<1> DEFINE m == Height(x, k) - pops
           n == Len(pushes)
           c == SubSeq(Cells(x, k), 1, m)
           w == c \o pushes
<1>1. x.args \in Nat /\ x.level \in Nat /\ Height(x, k) = x.args + 8 * x.level + k
  BY ContextType DEF Height
<1>2. m \in Nat /\ m <= Height(x, k) /\ m >= x.args + 8 * x.level
  BY <1>1
<1>3. c \in Seq(AllCells) /\ Len(c) = m /\ \A i \in 1..m : c[i] = CellAt(x, i)
  <2>1. Cells(x, k) \in Seq(AllCells) /\ Len(Cells(x, k)) = Height(x, k)
        /\ \A i \in 1..Height(x, k) : Cells(x, k)[i] = CellAt(x, i)
    BY CellsType
  <2> QED BY <1>2, <2>1
<1>4. n \in Nat /\ pushes \in Seq(AllCells) /\ \A i \in 1..n : pushes[i] = Temp
  <2>1. Temp \in AllCells
    BY DEF AllCells
  <2> QED BY <2>1
<1>5. Height(x, k - pops + n) = m + n /\ k - pops + n \in Nat
  BY <1>1, <1>4 DEF Height
<1> HIDE DEF m, n, c, w
<1>6. w = [i \in 1..m + n |-> CellAt(x, i)]
  <2>1. Len(w) = m + n /\ w \in Seq(AllCells)
    BY <1>2, <1>3, <1>4 DEF n, w
  <2>2. ASSUME NEW i \in 1..m + n PROVE w[i] = CellAt(x, i)
    <3>1. CASE i <= m
      BY <1>2, <1>3, <1>4, <3>1 DEF n, w
    <3>2. CASE i > m
      <4>1. i - m \in 1..n /\ w[i] = pushes[i - m]
        BY <1>2, <1>3, <1>4, <3>2 DEF n, w
      <4>2. CellAt(x, i) = Temp
        BY <1>1, <1>2, <3>2, TempAbove
      <4> QED BY <1>4, <4>1, <4>2
    <3> QED BY <1>2, <1>4, <3>1, <3>2
  <2> QED BY <2>1, <2>2
<1>7. Cells(x, k - pops + n) = w
  BY <1>5, <1>6 DEF Cells
<1>8. Len(Cells(x, k)) = Height(x, k)
  BY CellsType
<1>9. Effect(Shape(x, r, k), pops, pushes) = [cells |-> w, hr |-> r]
  <2>1. Effect([cells |-> Cells(x, k), hr |-> r], pops, pushes) =
          [cells |-> CellsAfter(Cells(x, k), pops, pushes), hr |-> r]
    BY EffectOf
  <2> QED BY <1>8, <2>1 DEF Shape, CellsAfter, m, c, w
<1> QED BY <1>7, <1>9 DEF Shape, n

(* A loop puts seven registers and HR under what comes then. *)
Registers(x) == [i \in 1..7 |-> Saved] \o <<SavedHR(HROf(x))>>

LEMMA RegistersType ==
  ASSUME NEW x \in Context
  PROVE  /\ Registers(x) \in Seq(AllCells) /\ Len(Registers(x)) = 8
         /\ \A i \in 1..7 : Registers(x)[i] = Saved
         /\ Registers(x)[8] = SavedHR(HROf(x))
<1>1. Saved \in AllCells /\ SavedHR(HROf(x)) \in AllCells
  BY ContextType DEF AllCells
<1>2. [i \in 1..7 |-> Saved] \in Seq(AllCells) /\ Len([i \in 1..7 |-> Saved]) = 7
  BY <1>1
<1>3. <<SavedHR(HROf(x))>> \in Seq(AllCells) /\ Len(<<SavedHR(HROf(x))>>) = 1
  BY <1>1
<1> QED BY <1>1, <1>2, <1>3 DEF Registers

LEMMA InsideType ==
  ASSUME NEW x \in Context
  PROVE  /\ Inside(x) \in Context
         /\ Inside(x).args = x.args /\ Inside(x).hr = x.hr /\ Inside(x).level = x.level + 1
         /\ HROf(Inside(x)) = x.level + 1
         /\ Height(Inside(x), 0) = Height(x, 0) + 8
<1>1. Inside(x) = [args |-> x.args, hr |-> x.hr, level |-> x.level + 1]
  BY ContextType DEF Inside
<1> QED BY <1>1, ContextType DEF Context, HROf, Height

LEMMA InsideCells ==
  ASSUME NEW x \in Context
  PROVE  /\ \A i \in 1..Height(x, 0) : CellAt(Inside(x), i) = CellAt(x, i)
         /\ \A i \in 1..8 : CellAt(Inside(x), Height(x, 0) + i) = Registers(x)[i]
<1> DEFINE y == Inside(x)
<1>1. x.args \in Nat /\ x.level \in Nat /\ y.args = x.args /\ y.hr = x.hr /\ y.level = x.level + 1
  BY ContextType, InsideType
<1>2. Height(x, 0) = x.args + 8 * x.level
  BY <1>1 DEF Height
<1> HIDE DEF y
<1>5. (\A i \in 1..7 : Registers(x)[i] = Saved) /\ Registers(x)[8] = SavedHR(HROf(x))
  BY RegistersType
<1>3. ASSUME NEW i \in 1..Height(x, 0) PROVE CellAt(y, i) = CellAt(x, i)
  <2>1. ~(i - x.args > 8 * x.level) /\ ~(i - x.args > 8 * y.level)
    BY <1>1, <1>2
  <2> QED BY <1>1, <2>1 DEF CellAt
<1>4. ASSUME NEW i \in 1..8 PROVE CellAt(y, Height(x, 0) + i) = Registers(x)[i]
  <2>1. (Height(x, 0) + i) - x.args = 8 * x.level + i /\ ~(Height(x, 0) + i <= x.args)
    BY <1>1, <1>2
  <2>2. ~(8 * x.level + i > 8 * y.level)
    BY <1>1
  <2>3. CASE i = 8
    <3>1. 8 * x.level + i = 8 * (x.level + 1) /\ (8 * (x.level + 1) = 8 <=> x.level = 0)
      BY <1>1, <2>3
    <3>2. \A n \in Nat : (8 * (n + 1)) % 8 = 0 /\ (8 * (n + 1)) \div 8 = n + 1
      OBVIOUS
    <3>3. (8 * x.level + i) % 8 = 0 /\ (8 * x.level + i) \div 8 = x.level + 1 /\ (8 * x.level + i = 8 <=> x.level = 0)
      BY <1>1, <3>1, <3>2
    <3>4. CellAt(y, Height(x, 0) + i) = SavedHR(IF x.level = 0 THEN x.hr ELSE (x.level + 1) - 1)
      BY <1>1, <2>1, <2>2, <3>3 DEF CellAt
    <3>5. (x.level + 1) - 1 = x.level
      BY <1>1
    <3> QED BY <1>5, <2>3, <3>4, <3>5 DEF HROf
  <2>4. CASE i # 8
    <3>1. (8 * x.level + i) % 8 # 0
      BY <1>1, <2>4
    <3>2. CellAt(y, Height(x, 0) + i) = Saved
      BY <1>1, <2>1, <2>2, <3>1 DEF CellAt
    <3>3. i \in 1..7
      BY <2>4
    <3> QED BY <1>5, <3>2, <3>3
  <2> QED BY <2>3, <2>4
<1> QED BY <1>3, <1>4 DEF y

LEMMA PushRegisters ==
  ASSUME NEW x \in Context, NEW r \in Int
  PROVE  Effect(Shape(x, r, 0), 0, Registers(x)) = Shape(Inside(x), r, 0)
<1> DEFINE c == SubSeq(Cells(x, 0), 1, Len(Cells(x, 0)) - 0)
           w == c \o Registers(x)
           h == Height(x, 0)
<1>1. /\ Cells(x, 0) \in Seq(AllCells) /\ h \in Nat /\ Len(Cells(x, 0)) = h
      /\ \A i \in 1..h : Cells(x, 0)[i] = CellAt(x, i)
  BY CellsType
<1>2. c \in Seq(AllCells) /\ Len(c) = h /\ \A i \in 1..h : c[i] = CellAt(x, i)
  BY <1>1
<1>3. Height(Inside(x), 0) = h + 8
  BY InsideType
<1>7. Registers(x) \in Seq(AllCells) /\ Len(Registers(x)) = 8
  BY RegistersType
<1>8. /\ \A i \in 1..h : CellAt(Inside(x), i) = CellAt(x, i)
      /\ \A i \in 1..8 : CellAt(Inside(x), h + i) = Registers(x)[i]
  BY InsideCells
<1> HIDE DEF c, w, h
<1>4. w = [i \in 1..h + 8 |-> CellAt(Inside(x), i)]
  <2>0. /\ w \in Seq(AllCells) /\ Len(w) = Len(c) + Len(Registers(x))
        /\ \A i \in 1..Len(c) : w[i] = c[i]
        /\ \A i \in 1..Len(Registers(x)) : w[Len(c) + i] = Registers(x)[i]
    <3>1. c \in Seq(AllCells) /\ Registers(x) \in Seq(AllCells) /\ w = c \o Registers(x)
      BY <1>2, <1>7 DEF w
    <3> QED BY <3>1, Joined
  <2>1. w \in Seq(AllCells) /\ Len(w) = h + 8
    BY <1>1, <1>2, <1>7, <2>0
  <2>2. ASSUME NEW i \in 1..h + 8 PROVE w[i] = CellAt(Inside(x), i)
    <3>1. CASE i <= h
      <4>1. i \in 1..h
        BY <1>1, <3>1
      <4>2. w[i] = c[i]
        BY <1>1, <1>2, <2>0, <3>1
      <4> QED BY <1>2, <1>8, <4>1, <4>2
    <3>2. CASE i > h
      <4> DEFINE j == i - h
      <4>1. j \in 1..8 /\ i = h + j
        BY <1>1, <3>2
      <4> HIDE DEF j
      <4>2. w[i] = Registers(x)[j]
        BY <1>2, <1>7, <2>0, <4>1
      <4> QED BY <1>8, <4>1, <4>2
    <3> QED BY <1>1, <3>1, <3>2
  <2> QED BY <2>1, <2>2
<1>5. Cells(Inside(x), 0) = w
  BY <1>3, <1>4 DEF Cells
<1>6. Effect([cells |-> Cells(x, 0), hr |-> r], 0, Registers(x)) =
        [cells |-> CellsAfter(Cells(x, 0), 0, Registers(x)), hr |-> r]
  BY EffectOf
<1> QED BY <1>5, <1>6 DEF Shape, CellsAfter, c, w

LEMMA PopRegisters ==
  ASSUME NEW x \in Context, NEW r \in Int
  PROVE  /\ Effect(Shape(Inside(x), r, 0), 8, <<>>) = Shape(x, r, 0)
         /\ Len(Cells(Inside(x), 0)) >= 8
         /\ Last(Cells(Inside(x), 0)) = SavedHR(HROf(x))
<1> DEFINE y == Inside(x)
           h == Height(x, 0)
           c == SubSeq(Cells(y, 0), 1, Len(Cells(y, 0)) - 8)
           w == c \o <<>>
<1>1. y \in Context /\ Height(y, 0) = h + 8 /\ h \in Nat
  BY InsideType, CellsType
<1>2. /\ Cells(y, 0) \in Seq(AllCells) /\ Len(Cells(y, 0)) = h + 8
      /\ \A i \in 1..h + 8 : Cells(y, 0)[i] = CellAt(y, i)
  BY <1>1, CellsType
<1>3. c \in Seq(AllCells) /\ Len(c) = h /\ \A i \in 1..h : c[i] = CellAt(x, i)
  <2>1. \A i \in 1..h : CellAt(y, i) = CellAt(x, i)
    BY InsideCells
  <2> QED BY <1>1, <1>2, <2>1
<1> HIDE DEF c, w, h, y
<1>4. w = [i \in 1..h |-> CellAt(x, i)]
  BY <1>1, <1>3 DEF w
<1>5. Cells(x, 0) = w
  BY <1>4 DEF Cells, h
<1>6. Effect([cells |-> Cells(y, 0), hr |-> r], 8, <<>>) =
        [cells |-> CellsAfter(Cells(y, 0), 8, <<>>), hr |-> r]
  BY EffectOf
<1>7. Last(Cells(y, 0)) = SavedHR(HROf(x))
  <2>1. Last(Cells(y, 0)) = CellAt(y, h + 8)
    BY <1>1, <1>2 DEF Last
  <2>2. CellAt(y, h + 8) = Registers(x)[8]
    BY InsideCells DEF y, h
  <2> QED BY <2>1, <2>2, RegistersType
<1> QED BY <1>1, <1>2, <1>5, <1>6, <1>7 DEF Shape, CellsAfter, c, w, y

(* Where the arguments of the block and the HR of an outer loop are. *)
LEMMA ArgumentPlace ==
  ASSUME NEW x \in Context, NEW k \in Nat, NEW n \in 0..x.args - 1
  PROVE  LET idx == n + (8 * x.level + k)
         IN idx \in 0..Height(x, k) - 1 /\ Cells(x, k)[Height(x, k) - idx] = Arg(n)
<1>1. x.args \in Nat /\ x.level \in Nat /\ Height(x, k) = x.args + 8 * x.level + k
  BY ContextType DEF Height
<1>2. Height(x, k) - (n + (8 * x.level + k)) = x.args - n /\ x.args - n \in 1..Height(x, k)
      /\ n + (8 * x.level + k) \in 0..Height(x, k) - 1
  BY <1>1
<1>3. Cells(x, k)[x.args - n] = CellAt(x, x.args - n)
  BY <1>2, CellsType
<1>4. CellAt(x, x.args - n) = Arg(n)
  BY <1>1 DEF CellAt
<1> QED BY <1>2, <1>3, <1>4

LEMMA IteratorPlace ==
  ASSUME NEW x \in Context, NEW k \in Nat, NEW n \in 1..x.level - 1
  PROVE  LET idx == (8 * x.level + k) - 8 * n - 8
         IN idx \in 0..Height(x, k) - 1 /\ Cells(x, k)[Height(x, k) - idx] = SavedHR(n)
<1>1. x.args \in Nat /\ x.level \in Nat /\ Height(x, k) = x.args + 8 * x.level + k
  BY ContextType DEF Height
<1> DEFINE i == x.args + 8 * (n + 1)
<1>2. Height(x, k) - ((8 * x.level + k) - 8 * n - 8) = i /\ i \in 1..Height(x, k)
      /\ (8 * x.level + k) - 8 * n - 8 \in 0..Height(x, k) - 1
  BY <1>1
<1>3. Cells(x, k)[i] = CellAt(x, i)
  BY <1>2, CellsType
<1>4. CellAt(x, i) = SavedHR(n)
  <2>1. /\ i - x.args = 8 * (n + 1) /\ ~(i <= x.args) /\ ~(8 * (n + 1) > 8 * x.level)
        /\ (8 * (n + 1)) % 8 = 0 /\ (8 * (n + 1)) \div 8 = n + 1 /\ 8 * (n + 1) # 8
    BY <1>1
  <2> HIDE DEF i
  <2> QED BY <1>1, <2>1 DEF CellAt
<1> QED BY <1>2, <1>3, <1>4

-----------------------------------------------------------------------------
(* The flow of the code. *)

FlowOf(here, trail, ahead) == [at |-> here, trail |-> trail, ahead |-> ahead, wrong |-> {}]

LEMMA FlowFields ==
  ASSUME NEW here, NEW trail, NEW ahead, NEW new
  PROVE  LET f == FlowOf(here, trail, ahead)
         IN /\ f.at = here /\ f.trail = trail /\ f.ahead = ahead /\ f.wrong = {}
            /\ [f EXCEPT !.at = new] = FlowOf(new, trail, ahead)
            /\ [f EXCEPT !.trail = new] = FlowOf(here, new, ahead)
            /\ [f EXCEPT !.ahead = new] = FlowOf(here, trail, new)
BY DEF FlowOf

LEMMA FlowSoundIs ==
  ASSUME NEW f, NEW x, NEW r, NEW k, NEW pending
  PROVE  FlowSound(f, x, r, k, pending) <=>
           /\ f = FlowOf(f.at, f.trail, f.ahead)
           /\ f.at \subseteq {Shape(x, r, k)}
           /\ f.trail \in Seq(Instruction)
           /\ Pending(f, x, r, pending)
BY DEF FlowSound, FlowOf

LEMMA ShapeType ==
  ASSUME NEW x \in Context, NEW r \in Int, NEW k \in Nat
  PROVE  Shape(x, r, k) \in Shapes /\ Shape(x, r, k).cells = Cells(x, k) /\ Shape(x, r, k).hr = r
BY DEF Shape, Shapes

(* Jumps that bring what is there join. *)
Joining(here, from, s) == IF from = {} THEN here ELSE {s}

LEMMA JoinSame ==
  ASSUME NEW x \in Context, NEW r \in Int, NEW k \in Nat, NEW here, NEW trail, NEW ahead, NEW from,
         here \subseteq {Shape(x, r, k)}, from \subseteq {Shape(x, r, k)}
  PROVE  Join(FlowOf(here, trail, ahead), from) =
           FlowOf(Joining(here, from, Shape(x, r, k)), trail, ahead)
<1> DEFINE f == FlowOf(here, trail, ahead)
           s == Shape(x, r, k)
           all == f.at \cup from
           some == CHOOSE z \in all : TRUE
           hrs == {z.hr : z \in all}
<1>1. f.at = here /\ f.wrong = {} /\ [f EXCEPT !.at = {s}] = FlowOf({s}, trail, ahead)
  BY DEF FlowOf
<1>2. CASE from = {}
  BY <1>2 DEF Join, Joining
<1>3. CASE from # {}
  <2>1. all = {s} /\ some = s
    BY <1>1, <1>3
  <2>2. s.cells = Cells(x, k) /\ s.hr = r
    BY ShapeType
  <2>3. hrs = {r} /\ \A z \in all : z.cells = some.cells
    BY <2>1, <2>2
  <2>4. At(some.cells, IF hrs = {some.hr} THEN some.hr ELSE Caller) = {s}
    BY <2>1, <2>2, <2>3 DEF At, Shape
  <2> HIDE DEF f, s, all, some, hrs
  <2>5. Join(f, from) = [f EXCEPT !.at = At(some.cells, IF hrs = {some.hr} THEN some.hr ELSE Caller)]
    BY <1>3, <2>3 DEF Join, Wrong, all, some, hrs
  <2> QED BY <1>1, <1>3, <2>4, <2>5 DEF f, s, Joining
<1> QED BY <1>2, <1>3

(* The jumps to the next place arrive. *)
Ready(pending, k, later) ==
  \A q \in pending : \/ q[1] = 1 /\ q[2] = k
                     \/ q[1] \in Nat /\ q[1] > 1 /\ q[2] \in Nat /\ <<q[1] - 1, q[2]>> \in later

(* What g, the end of f with the jumps to the next place, is. *)
Arrives(g, f, x, r, k, later) ==
  /\ g = FlowOf(g.at, f.trail, g.ahead)
  /\ f.at \subseteq g.at /\ g.at \subseteq {Shape(x, r, k)}
  /\ \A j \in g.ahead : \E q \in later : j.to = Len(f.trail) + 1 + q[1] /\ j.from \subseteq {Shape(x, r, q[2])}
  /\ f.ahead = {} => g.at = f.at /\ g.ahead = {}

LEMMA ArrivedSound ==
  ASSUME NEW x \in Context, NEW r \in Int, NEW k \in Nat, NEW pending, NEW later, NEW f,
         FlowSound(f, x, r, k, pending), Ready(pending, k, later)
  PROVE  Arrives(Arrived(f), f, x, r, k, later)
<1> DEFINE now == {j \in f.ahead : j.to = NextPlace(f)}
           from == UNION {j.from : j \in now}
           here == Joining(f.at, from, Shape(x, r, k))
           g == FlowOf(here, f.trail, f.ahead)
<1>1. /\ f = FlowOf(f.at, f.trail, f.ahead) /\ f.at \subseteq {Shape(x, r, k)}
      /\ f.trail \in Seq(Instruction) /\ Len(f.trail) \in Nat
      /\ \A j \in f.ahead : \E q \in pending : j.to = Len(f.trail) + q[1] /\ j.from \subseteq {Shape(x, r, q[2])}
  BY FlowSoundIs DEF Pending
<1>2. ASSUME NEW j \in now PROVE j.from \subseteq {Shape(x, r, k)}
  <2>1. PICK q \in pending : j.to = Len(f.trail) + q[1] /\ j.from \subseteq {Shape(x, r, q[2])}
    BY <1>1
  <2>2. j.to = Len(f.trail) + 1
    BY DEF NextPlace
  <2> HIDE DEF now, from, here, g
  <2>3. q[2] = k
    <3>1. CASE q[1] = 1 /\ q[2] = k
      BY <3>1
    <3>2. CASE q[1] \in Nat /\ q[1] > 1
      BY <1>1, <2>1, <2>2, <3>2
    <3> QED BY <3>1, <3>2 DEF Ready
  <2> QED BY <2>1, <2>3
<1>3. from \subseteq {Shape(x, r, k)}
  BY <1>2
<1>4. Join(f, from) = g
  <2>1. Join(FlowOf(f.at, f.trail, f.ahead), from) = g
    <3> HIDE DEF from
    <3> QED BY <1>1, <1>3, JoinSame
  <2> QED BY <1>1, <2>1
<1>5. Arrived(f) = FlowOf(here, f.trail, f.ahead \ now)
  <2>1. g.ahead = f.ahead /\ [g EXCEPT !.ahead = f.ahead \ now] = FlowOf(here, f.trail, f.ahead \ now)
    <3> HIDE DEF here, now
    <3> QED BY DEF FlowOf
  <2> QED BY <1>4, <2>1 DEF Arrived
<1>6. ASSUME NEW j \in f.ahead \ now
      PROVE  \E q \in later : j.to = Len(f.trail) + 1 + q[1] /\ j.from \subseteq {Shape(x, r, q[2])}
  <2>1. PICK q \in pending : j.to = Len(f.trail) + q[1] /\ j.from \subseteq {Shape(x, r, q[2])}
    BY <1>1
  <2>2. j.to # Len(f.trail) + 1
    BY DEF NextPlace
  <2> HIDE DEF now, from, here, g
  <2>3. q[1] \in Nat /\ q[1] > 1 /\ <<q[1] - 1, q[2]>> \in later
    BY <1>1, <2>1, <2>2 DEF Ready
  <2>4. j.to = Len(f.trail) + 1 + (q[1] - 1)
    <3>1. \A a, b \in Nat : a + b = a + 1 + (b - 1)
      OBVIOUS
    <3>2. Len(f.trail) \in Nat /\ q[1] \in Nat /\ j.to = Len(f.trail) + q[1]
      BY <1>1, <2>1, <2>3
    <3> QED BY <3>1, <3>2
  <2> DEFINE p == <<q[1] - 1, q[2]>>
  <2>5. p \in later /\ p[1] = q[1] - 1 /\ p[2] = q[2]
    BY <2>3
  <2> HIDE DEF p
  <2> QED BY <2>1, <2>4, <2>5
<1>7. here \subseteq {Shape(x, r, k)} /\ f.at \subseteq here
  <2> HIDE DEF from
  <2> QED BY <1>1 DEF Joining
<1>8. f.ahead = {} => here = f.at /\ f.ahead \ now = {}
  BY DEF Joining
<1>9. Arrived(f).at = here /\ Arrived(f).ahead = f.ahead \ now
  <2> HIDE DEF here, now
  <2> QED BY <1>5 DEF FlowOf
<1> HIDE DEF here, now
<1> QED BY <1>5, <1>6, <1>7, <1>8, <1>9 DEF Arrives

(* g is f and one more instruction, reached from the given shapes. *)
Grown(g, f, op, S) == \E from : from \subseteq S /\ g.trail = Append(f.trail, [op |-> op, at |-> from])

OneMore(g, f, op, S) ==
  /\ Len(f.trail) \in Nat /\ Len(g.trail) = Len(f.trail) + 1
  /\ \A i \in 1..Len(f.trail) : g.trail[i] = f.trail[i]
  /\ g.trail[Len(g.trail)].op = op /\ g.trail[Len(g.trail)].at \subseteq S

LEMMA GrownMore ==
  ASSUME NEW f, NEW g, NEW op \in Opcodes, NEW x \in Context, NEW r \in Int, NEW k \in Nat,
         f.trail \in Seq(Instruction), Grown(g, f, op, {Shape(x, r, k)})
  PROVE  OneMore(g, f, op, {Shape(x, r, k)}) /\ g.trail \in Seq(Instruction) /\ FromLast(g) \subseteq {Shape(x, r, k)}
<1>1. PICK from : from \subseteq {Shape(x, r, k)} /\ g.trail = Append(f.trail, [op |-> op, at |-> from])
  BY DEF Grown
<1> DEFINE i == [op |-> op, at |-> from]
<1>2. i \in Instruction /\ i.op = op /\ i.at = from
  BY <1>1, ShapeType DEF Instruction
<1> HIDE DEF i
<1>3. g.trail = Append(f.trail, i)
  BY <1>1 DEF i
<1>4. /\ g.trail \in Seq(Instruction) /\ Len(f.trail) \in Nat /\ Len(g.trail) = Len(f.trail) + 1
      /\ (\A n \in 1..Len(f.trail) : g.trail[n] = f.trail[n]) /\ g.trail[Len(g.trail)] = i
  BY <1>2, <1>3
<1> QED BY <1>1, <1>2, <1>4 DEF FromLast, LastPlace, OneMore

LEMMA GrownTrail ==
  ASSUME NEW f, NEW g, NEW op \in Opcodes, NEW x \in Context, NEW r \in Int, NEW k \in Nat,
         f.trail \in Seq(Instruction), Grown(g, f, op, {Shape(x, r, k)})
  PROVE  /\ g.trail \in Seq(Instruction)
         /\ Len(f.trail) \in Nat /\ Len(g.trail) = Len(f.trail) + 1
         /\ \A i \in 1..Len(f.trail) : g.trail[i] = f.trail[i]
         /\ g.trail[Len(g.trail)].op = op /\ g.trail[Len(g.trail)].at \subseteq {Shape(x, r, k)}
         /\ FromLast(g) \subseteq {Shape(x, r, k)}
<1>1. OneMore(g, f, op, {Shape(x, r, k)}) /\ g.trail \in Seq(Instruction) /\ FromLast(g) \subseteq {Shape(x, r, k)}
  BY GrownMore
<1> QED BY <1>1, Zenon DEF OneMore

Takes(x, y, r, k, m, pops, pushes) ==
  Effect(Shape(x, r, k), pops, pushes) = Shape(y, r, m) /\ Height(x, k) >= pops

Appended(g, f, op, x, y, r, k, m, later) ==
  /\ FlowSound(g, y, r, m, later) /\ Grown(g, f, op, {Shape(x, r, k)})
  /\ f.at = {} /\ f.ahead = {} => g.at = {}

LEMMA AppendInto ==
  ASSUME NEW x \in Context, NEW y \in Context, NEW r \in Int, NEW k \in Nat, NEW m \in Nat,
         NEW pending, NEW later, NEW f, NEW op \in Opcodes, NEW pops, NEW pushes,
         FlowSound(f, x, r, k, pending), Ready(pending, k, later),
         Takes(x, y, r, k, m, pops, pushes), x = y \/ later = {}
  PROVE  Appended(Append1(f, op, pops, pushes), f, op, x, y, r, k, m, later)
<1> DEFINE a == Arrived(f)
           after == {Effect(s, pops, pushes) : s \in a.at}
           i == [op |-> op, at |-> a.at]
           t == Append(f.trail, i)
           g == Append1(f, op, pops, pushes)
<1>1. Arrives(a, f, x, r, k, later)
  BY ArrivedSound
<1>2. /\ a = FlowOf(a.at, f.trail, a.ahead) /\ a.at \subseteq {Shape(x, r, k)}
      /\ \A j \in a.ahead : \E q \in later : j.to = Len(f.trail) + 1 + q[1] /\ j.from \subseteq {Shape(x, r, q[2])}
  BY <1>1 DEF Arrives
<1>0. Effect(Shape(x, r, k), pops, pushes) = Shape(y, r, m) /\ Height(x, k) >= pops
  BY DEF Takes
<1>3. \A s \in a.at : Len(s.cells) >= pops
  <2>1. Shape(x, r, k).cells = Cells(x, k) /\ Len(Cells(x, k)) = Height(x, k)
    BY ShapeType, CellsType
  <2> HIDE DEF a
  <2> QED BY <1>0, <1>2, <2>1
<1>4. after \subseteq {Shape(y, r, m)}
  <2> HIDE DEF a
  <2> QED BY <1>0, <1>2
<1>5. g = FlowOf(after, t, a.ahead)
  <2>1. a.trail = f.trail
    <3> HIDE DEF a
    <3> QED BY <1>2 DEF FlowOf
  <2>2. g = [a EXCEPT !.trail = t, !.at = after]
    BY <1>3, <2>1 DEF Append1, Wrong
  <2> HIDE DEF after, i, t, a, g
  <2>3. [a EXCEPT !.trail = t] = FlowOf(a.at, t, a.ahead)
    <3>1. \A here, ahead : [FlowOf(here, f.trail, ahead) EXCEPT !.trail = t] = FlowOf(here, t, ahead)
      BY DEF FlowOf
    <3> QED BY <1>2, <3>1
  <2>4. [FlowOf(a.at, t, a.ahead) EXCEPT !.at = after] = FlowOf(after, t, a.ahead)
    <3> QED BY DEF FlowOf
  <2> QED BY <2>2, <2>3, <2>4
<1>6. f.trail \in Seq(Instruction) /\ Len(f.trail) \in Nat
  BY FlowSoundIs
<1> HIDE DEF a, after, g, t
<1>7. g.at = after /\ g.trail = t /\ g.ahead = a.ahead
  BY <1>5 DEF FlowOf
<1>8. Grown(g, f, op, {Shape(x, r, k)})
  BY <1>2, <1>7 DEF Grown, t
<1>9. g.trail \in Seq(Instruction) /\ Len(g.trail) = Len(f.trail) + 1
  BY <1>6, <1>8, GrownTrail
<1>10. Pending(g, y, r, later)
  BY <1>2, <1>7, <1>9 DEF Pending
<1>11. g = FlowOf(g.at, g.trail, g.ahead) /\ g.at \subseteq {Shape(y, r, m)}
  BY <1>4, <1>5, <1>7
<1>12. f.at = {} /\ f.ahead = {} => g.at = {}
  <2>1. f.at = {} /\ f.ahead = {} => a.at = {}
    BY <1>1 DEF Arrives
  <2> QED BY <1>7, <2>1 DEF after
<1> QED BY <1>8, <1>9, <1>10, <1>11, <1>12, FlowSoundIs DEF g, Appended

LEMMA AppendSound ==
  ASSUME NEW x \in Context, NEW r \in Int, NEW k \in Nat,
         NEW pending, NEW later, NEW f, NEW op \in Opcodes, NEW pops \in 0..k, NEW pushes \in Seq({Temp}),
         FlowSound(f, x, r, k, pending), Ready(pending, k, later)
  PROVE  LET g == Append1(f, op, pops, pushes)
         IN FlowSound(g, x, r, k - pops + Len(pushes), later) /\ Grown(g, f, op, {Shape(x, r, k)})
<1>1. k - pops + Len(pushes) \in Nat /\ Height(x, k) >= pops
  BY ContextType DEF Height
<1>2. Effect(Shape(x, r, k), pops, pushes) = Shape(x, r, k - pops + Len(pushes))
  BY TempsEffect
<1>3. Takes(x, x, r, k, k - pops + Len(pushes), pops, pushes)
  BY <1>1, <1>2 DEF Takes
<1>4. Appended(Append1(f, op, pops, pushes), f, op, x, x, r, k, k - pops + Len(pushes), later)
  BY <1>1, <1>3, AppendInto
<1> QED BY <1>4 DEF Appended

LEMMA PlainSound ==
  ASSUME NEW x \in Context, NEW r \in Int, NEW k \in Nat,
         NEW pending, NEW later, NEW f, NEW op \in Opcodes,
         FlowSound(f, x, r, k, pending), Ready(pending, k, later)
  PROVE  FlowSound(Plain(f, op), x, r, k, later) /\ Grown(Plain(f, op), f, op, {Shape(x, r, k)})
<1>1. 0 \in 0..k /\ <<>> \in Seq({Temp}) /\ k - 0 + Len(<<>>) = k
  OBVIOUS
<1> QED BY <1>1, AppendSound DEF Plain

LEMMA PushSound ==
  ASSUME NEW x \in Context, NEW r \in Int, NEW k \in Nat,
         NEW pending, NEW later, NEW f,
         FlowSound(f, x, r, k, pending), Ready(pending, k, later)
  PROVE  FlowSound(Push(f), x, r, k + 1, later) /\ Grown(Push(f), f, "PUSH", {Shape(x, r, k)})
<1>1. 0 \in 0..k /\ <<Temp>> \in Seq({Temp}) /\ k - 0 + Len(<<Temp>>) = k + 1
  OBVIOUS
<1>0. "PUSH" \in Opcodes
  BY DEF Opcodes
<1>2. LET g == Append1(f, "PUSH", 0, <<Temp>>)
      IN FlowSound(g, x, r, k - 0 + Len(<<Temp>>), later) /\ Grown(g, f, "PUSH", {Shape(x, r, k)})
  BY <1>0, <1>1, AppendSound
<1> QED BY <1>1, <1>2 DEF Push

LEMMA PopSound ==
  ASSUME NEW x \in Context, NEW r \in Int, NEW k \in Nat, k > 0,
         NEW pending, NEW later, NEW f,
         FlowSound(f, x, r, k, pending), Ready(pending, k, later)
  PROVE  FlowSound(Pop(f), x, r, k - 1, later) /\ Grown(Pop(f), f, "POP", {Shape(x, r, k)})
<1>1. 1 \in 0..k /\ <<>> \in Seq({Temp}) /\ k - 1 + Len(<<>>) = k - 1
  OBVIOUS
<1>0. "POP" \in Opcodes
  BY DEF Opcodes
<1>2. LET g == Append1(f, "POP", 1, <<>>)
      IN FlowSound(g, x, r, k - 1 + Len(<<>>), later) /\ Grown(g, f, "POP", {Shape(x, r, k)})
  BY <1>0, <1>1, AppendSound
<1> QED BY <1>1, <1>2 DEF Pop

(* The jumps that are on their way may only become more. *)
LEMMA FlowWeaker ==
  ASSUME NEW x, NEW r, NEW k, NEW pending, NEW more, NEW f,
         FlowSound(f, x, r, k, pending), pending \subseteq more
  PROVE  FlowSound(f, x, r, k, more)
BY DEF FlowSound, Pending

(* Nothing is left at the end of the code. *)
LEMMA NowhereSound ==
  ASSUME NEW x, NEW r, NEW k, NEW m, NEW pending, NEW f, FlowSound(f, x, r, k, pending)
  PROVE  FlowSound([f EXCEPT !.at = Nowhere], x, r, m, pending)
<1> DEFINE g == [f EXCEPT !.at = Nowhere]
<1>1. f = FlowOf(f.at, f.trail, f.ahead) /\ f.trail \in Seq(Instruction) /\ Pending(f, x, r, pending)
  BY FlowSoundIs
<1>2. g = FlowOf({}, f.trail, f.ahead)
  <2>1. \A a, t, h : [FlowOf(a, t, h) EXCEPT !.at = Nowhere] = FlowOf({}, t, h)
    BY DEF FlowOf, Nowhere
  <2> QED BY <1>1, <2>1
<1>3. g.at = {} /\ g.trail = f.trail /\ g.ahead = f.ahead
  BY <1>2 DEF FlowOf
<1> HIDE DEF g
<1>4. Pending(g, x, r, pending)
  BY <1>1, <1>3 DEF Pending
<1> QED BY <1>1, <1>2, <1>3, <1>4, FlowSoundIs DEF g

LEMMA BranchToSound ==
  ASSUME NEW x \in Context, NEW r \in Int, NEW k \in Nat, NEW m, NEW n \in Nat,
         NEW pending, NEW later, NEW f, NEW op \in Opcodes,
         FlowSound(f, x, r, k, pending), Ready(pending, k, later)
  PROVE  LET to == NextPlace(f) + n
         IN /\ FlowSound(BranchTo(f, op, to), x, r, k, later \cup {<<n, k>>})
            /\ FlowSound(GotoTo(f, op, to), x, r, m, later \cup {<<n, k>>})
            /\ Len(BranchTo(f, op, to).trail) = Len(f.trail) + 1
            /\ Len(GotoTo(f, op, to).trail) = Len(f.trail) + 1
<1> DEFINE to == NextPlace(f) + n
           g == Plain(f, op)
           new == {[to |-> to, from |-> FromLast(g)]}
           b == [g EXCEPT !.ahead = @ \cup new]
<1>1. FlowSound(g, x, r, k, later) /\ Grown(g, f, op, {Shape(x, r, k)})
  BY PlainSound
<1>2. f.trail \in Seq(Instruction)
  BY FlowSoundIs
<1>3. Len(g.trail) = Len(f.trail) + 1 /\ FromLast(g) \subseteq {Shape(x, r, k)} /\ Len(f.trail) \in Nat
  BY <1>1, <1>2, GrownTrail
<1>4. to = Len(g.trail) + n
  BY <1>3 DEF NextPlace
<1>5. g = FlowOf(g.at, g.trail, g.ahead) /\ g.at \subseteq {Shape(x, r, k)}
      /\ g.trail \in Seq(Instruction) /\ Pending(g, x, r, later)
  BY <1>1, FlowSoundIs
<1>6. b = FlowOf(g.at, g.trail, g.ahead \cup new)
  <2> HIDE DEF g, new
  <2>1. \A a, t, h : [FlowOf(a, t, h) EXCEPT !.ahead = @ \cup new] = FlowOf(a, t, h \cup new)
    BY DEF FlowOf
  <2> QED BY <1>5, <2>1
<1>7. b.at = g.at /\ b.trail = g.trail /\ b.ahead = g.ahead \cup new
  <2> HIDE DEF g, b, new
  <2> QED BY <1>6 DEF FlowOf
<1>8. Pending(b, x, r, later \cup {<<n, k>>})
  <2> DEFINE q == <<n, k>>
             i == [to |-> to, from |-> FromLast(g)]
  <2>1. i.to = Len(g.trail) + q[1] /\ i.from \subseteq {Shape(x, r, q[2])}
    BY <1>3, <1>4
  <2>2. b.ahead = g.ahead \cup {i} /\ b.trail = g.trail
    BY <1>7
  <2> HIDE DEF g, b, q, new, i
  <2>3. \A j \in b.ahead : \E p \in later \cup {q} : j.to = Len(b.trail) + p[1] /\ j.from \subseteq {Shape(x, r, p[2])}
    BY <1>5, <2>1, <2>2 DEF Pending
  <2> QED BY <2>3 DEF Pending, q
<1> HIDE DEF g, b, new
<1>9. FlowSound(b, x, r, k, later \cup {<<n, k>>})
  BY <1>5, <1>6, <1>7, <1>8, FlowSoundIs
<1>10. BranchTo(f, op, to) = b
  BY DEF BranchTo, b, new, g
<1>11. GotoTo(f, op, to) = [b EXCEPT !.at = Nowhere]
  BY <1>10 DEF GotoTo
<1>12. FlowSound([b EXCEPT !.at = Nowhere], x, r, m, later \cup {<<n, k>>})
  BY <1>9, NowhereSound
<1>13. [b EXCEPT !.at = Nowhere].trail = b.trail
  BY <1>6 DEF FlowOf
<1> QED BY <1>3, <1>7, <1>9, <1>10, <1>11, <1>12, <1>13

LEMMA GotoSound ==
  ASSUME NEW x \in Context, NEW r \in Int, NEW k \in Nat, NEW m,
         NEW pending, NEW later, NEW f, NEW op \in Opcodes,
         FlowSound(f, x, r, k, pending), Ready(pending, k, later)
  PROVE  /\ FlowSound(Goto(f, op), x, r, m, later)
         /\ Goto(f, op).at = {}
         /\ FromLast(Goto(f, op)) \subseteq {Shape(x, r, k)}
<1> DEFINE g == Plain(f, op)
<1>1. FlowSound(g, x, r, k, later) /\ Grown(g, f, op, {Shape(x, r, k)})
  BY PlainSound
<1>2. f.trail \in Seq(Instruction)
  BY FlowSoundIs
<1>3. FromLast(g) \subseteq {Shape(x, r, k)}
  BY <1>1, <1>2, GrownTrail
<1>4. FlowSound([g EXCEPT !.at = Nowhere], x, r, m, later)
  BY <1>1, NowhereSound
<1>5. [g EXCEPT !.at = Nowhere].trail = g.trail /\ [g EXCEPT !.at = Nowhere].at = {}
  <2>1. g = FlowOf(g.at, g.trail, g.ahead)
    BY <1>1, FlowSoundIs
  <2> HIDE DEF g
  <2>2. \A a, t, h : [FlowOf(a, t, h) EXCEPT !.at = Nowhere].trail = t /\ [FlowOf(a, t, h) EXCEPT !.at = Nowhere].at = {}
    BY DEF FlowOf, Nowhere
  <2> QED BY <2>1, <2>2
<1>6. Goto(f, op) = [g EXCEPT !.at = Nowhere]
  BY DEF Goto
<1> HIDE DEF g
<1> QED BY <1>3, <1>4, <1>5, <1>6 DEF FromLast, LastPlace

LEMMA JoinSound ==
  ASSUME NEW x \in Context, NEW r \in Int, NEW k \in Nat, NEW pending, NEW f, NEW from,
         FlowSound(f, x, r, k, pending), from \subseteq {Shape(x, r, k)}
  PROVE  FlowSound(Join(f, from), x, r, k, pending) /\ Join(f, from).trail = f.trail
<1> DEFINE here == Joining(f.at, from, Shape(x, r, k))
           g == Join(f, from)
<1>1. f = FlowOf(f.at, f.trail, f.ahead) /\ f.at \subseteq {Shape(x, r, k)}
      /\ f.trail \in Seq(Instruction) /\ Pending(f, x, r, pending)
  BY FlowSoundIs
<1>2. Join(FlowOf(f.at, f.trail, f.ahead), from) = FlowOf(here, f.trail, f.ahead)
  BY <1>1, JoinSame
<1>3. g = FlowOf(here, f.trail, f.ahead)
  BY <1>1, <1>2
<1>4. here \subseteq {Shape(x, r, k)}
  BY <1>1 DEF Joining
<1> HIDE DEF here, g
<1>5. g.at = here /\ g.trail = f.trail /\ g.ahead = f.ahead
  BY <1>3 DEF FlowOf
<1>6. Pending(g, x, r, pending)
  BY <1>1, <1>5 DEF Pending
<1> QED BY <1>1, <1>3, <1>4, <1>5, <1>6, FlowSoundIs DEF g

(* All the jumps have arrived. *)
LEMMA ArrivedAll ==
  ASSUME NEW x \in Context, NEW r \in Int, NEW k \in Nat, NEW pending, NEW f,
         FlowSound(f, x, r, k, pending), Ready(pending, k, {})
  PROVE  /\ FlowSound(Arrived(f), x, r, k, {}) /\ Arrived(f).trail = f.trail /\ Arrived(f).ahead = {}
         /\ f.at \subseteq Arrived(f).at
<1> DEFINE g == Arrived(f)
<1>1. Arrives(g, f, x, r, k, {})
  BY ArrivedSound
<1>2. f.trail \in Seq(Instruction)
  BY FlowSoundIs
<1> HIDE DEF g
<1>3. g = FlowOf(g.at, f.trail, g.ahead) /\ f.at \subseteq g.at /\ g.at \subseteq {Shape(x, r, k)} /\ g.ahead = {}
  BY <1>1 DEF Arrives
<1>4. g.trail = f.trail
  BY <1>3 DEF FlowOf
<1>5. Pending(g, x, r, {})
  BY <1>3 DEF Pending
<1>6. FlowSound(g, x, r, k, {})
  BY <1>2, <1>3, <1>4, <1>5, FlowSoundIs
<1> QED BY <1>3, <1>4, <1>6 DEF g

LEMMA AlwaysReady == \A k : Ready({}, k, {}) /\ Ready({<<1, k>>}, k, {})
BY DEF Ready

(* Where the end of the code is not reached, nothing is known of it.       *)
LEMMA EmptySound ==
  ASSUME NEW x, NEW y, NEW r, NEW q, NEW k, NEW m, NEW f, FlowSound(f, x, r, k, {}), f.at = {}
  PROVE  FlowSound(f, y, q, m, {})
BY DEF FlowSound, Pending

LEMMA ReadsSound ==
  ASSUME NEW x \in Context, NEW r \in Int, NEW k \in Nat, NEW pending, NEW f, NEW idx, NEW cell,
         FlowSound(f, x, r, k, pending), Ready(pending, k, {}),
         idx \in 0..Height(x, k) - 1, Cells(x, k)[Height(x, k) - idx] = cell
  PROVE  FlowSound(Reads(f, idx, cell), x, r, k, {}) /\ Reads(f, idx, cell).trail = f.trail
<1> DEFINE g == Arrived(f)
<1>1. FlowSound(g, x, r, k, {}) /\ g.trail = f.trail
  BY ArrivedAll
<1>2. g.at \subseteq {Shape(x, r, k)}
  BY <1>1, FlowSoundIs
<1>3. Shape(x, r, k).cells = Cells(x, k) /\ Len(Cells(x, k)) = Height(x, k)
  BY ShapeType, CellsType
<1>4. \A s \in g.at : idx \in 0..Len(s.cells) - 1 /\ s.cells[Len(s.cells) - idx] = cell
  <2> HIDE DEF g
  <2> QED BY <1>2, <1>3
<1> QED BY <1>1, <1>4 DEF Reads, Wrong

LEMMA ReadsHRSound ==
  ASSUME NEW x \in Context, NEW r \in Int, NEW k \in Nat, NEW pending, NEW f,
         FlowSound(f, x, r, k, pending), Ready(pending, k, {})
  PROVE  FlowSound(ReadsHR(f, r), x, r, k, {}) /\ ReadsHR(f, r).trail = f.trail
<1> DEFINE g == Arrived(f)
<1>1. FlowSound(g, x, r, k, {}) /\ g.trail = f.trail
  BY ArrivedAll
<1>2. g.at \subseteq {Shape(x, r, k)}
  BY <1>1, FlowSoundIs
<1>3. Shape(x, r, k).hr = r
  BY ShapeType
<1>4. \A s \in g.at : s.hr = r
  <2> HIDE DEF g
  <2> QED BY <1>2, <1>3
<1> QED BY <1>1, <1>4 DEF ReadsHR, Wrong

LEMMA SetHRSound ==
  ASSUME NEW x \in Context, NEW r \in Int, NEW q \in Int, NEW k \in Nat, NEW f,
         FlowSound(f, x, r, k, {})
  PROVE  FlowSound(SetHR(f, q), x, q, k, {}) /\ SetHR(f, q).trail = f.trail
<1> DEFINE here == {[s EXCEPT !.hr = q] : s \in f.at}
           g == SetHR(f, q)
<1>1. f = FlowOf(f.at, f.trail, f.ahead) /\ f.at \subseteq {Shape(x, r, k)}
      /\ f.trail \in Seq(Instruction) /\ Pending(f, x, r, {})
  BY FlowSoundIs
<1>2. g = FlowOf(here, f.trail, f.ahead)
  <2>1. \A a, t, h, n : [FlowOf(a, t, h) EXCEPT !.at = n] = FlowOf(n, t, h)
    BY DEF FlowOf
  <2>2. g = [f EXCEPT !.at = here]
    BY DEF SetHR
  <2> HIDE DEF g, here
  <2> QED BY <1>1, <2>1, <2>2
<1>3. [Shape(x, r, k) EXCEPT !.hr = q] = Shape(x, q, k)
  <2> DEFINE cells == Cells(x, k)
  <2> HIDE DEF cells
  <2>1. [[cells |-> cells, hr |-> r] EXCEPT !.hr = q] = [cells |-> cells, hr |-> q]
    OBVIOUS
  <2> QED BY <2>1 DEF Shape, cells
<1>4. here \subseteq {Shape(x, q, k)}
  BY <1>1, <1>3
<1> HIDE DEF here, g
<1>5. g.at = here /\ g.trail = f.trail /\ g.ahead = f.ahead
  BY <1>2 DEF FlowOf
<1>6. Pending(g, x, q, {})
  BY <1>1, <1>5 DEF Pending
<1> QED BY <1>1, <1>2, <1>4, <1>5, <1>6, FlowSoundIs DEF g

LEMMA HR_Type ==
  ASSUME NEW x \in Context PROVE HROf(x) \in Int
BY ContextType

LEMMA PUSHASound ==
  ASSUME NEW x \in Context, NEW pending, NEW f,
         FlowSound(f, x, HROf(x), 0, pending), Ready(pending, 0, {})
  PROVE  FlowSound(PUSHA(f), Inside(x), HROf(x), 0, {}) /\ Grown(PUSHA(f), f, "PUSHA", {Shape(x, HROf(x), 0)})
<1> DEFINE g == Arrived(f)
           r == HROf(x)
<1>0. r \in Int /\ 0 \in Nat /\ Inside(x) \in Context
  BY ContextType, InsideType
<1>1. FlowSound(g, x, r, 0, {}) /\ g.trail = f.trail
  BY <1>0, ArrivedAll
<1>2. g.at \subseteq {Shape(x, r, 0)}
  BY <1>1, FlowSoundIs
<1>3. "PUSHA" \in Opcodes
  BY DEF Opcodes
<1>4. Ready({}, 0, {})
  BY AlwaysReady
<1>5. Height(x, 0) >= 0
  BY CellsType
<1>6. CASE Live(g)
  <2>1. g.at = {Shape(x, r, 0)}
    BY <1>2, <1>6 DEF Live, Nowhere
  <2>2. Top(g).hr = r
    <3>1. Top(g) = Shape(x, r, 0)
      BY <2>1 DEF Top
    <3>2. Shape(x, r, 0).hr = r
      BY <1>0, ShapeType
    <3> QED BY <3>1, <3>2
  <2>3. PUSHA(f) = Append1(g, "PUSHA", 0, Registers(x))
    <3>1. PUSHA(f) = Append1(g, "PUSHA", 0, [i \in 1..7 |-> Saved] \o <<SavedHR(Top(g).hr)>>)
      BY <1>6 DEF PUSHA
    <3> QED BY <2>2, <3>1 DEF Registers
  <2>4. Effect(Shape(x, r, 0), 0, Registers(x)) = Shape(Inside(x), r, 0)
    BY <1>0, PushRegisters
  <2> HIDE DEF g, r
  <2>5. LET h == Append1(g, "PUSHA", 0, Registers(x))
        IN FlowSound(h, Inside(x), r, 0, {}) /\ Grown(h, g, "PUSHA", {Shape(x, r, 0)})
    <3>1. Takes(x, Inside(x), r, 0, 0, 0, Registers(x))
      BY <1>5, <2>4 DEF Takes
    <3>2. Appended(Append1(g, "PUSHA", 0, Registers(x)), g, "PUSHA", x, Inside(x), r, 0, 0, {})
      BY <1>0, <1>1, <1>3, <1>4, <3>1, AppendInto
    <3> QED BY <3>2 DEF Appended
  <2> QED BY <1>1, <2>3, <2>5 DEF Grown, r
<1>7. CASE ~Live(g)
  <2>1. PUSHA(f) = Append1(g, "PUSHA", 0, <<>>) /\ g.at = {}
    BY <1>7 DEF PUSHA, Plain, Live, Nowhere
  <2>2. Effect(Shape(x, r, 0), 0, <<>>) = Shape(x, r, 0 - 0 + Len(<<>>))
    <3>1. 0 \in 0..0 /\ <<>> \in Seq({Temp})
      OBVIOUS
    <3> QED BY <1>0, <3>1, TempsEffect
  <2>3. 0 - 0 + Len(<<>>) = 0
    OBVIOUS
  <2>4. g.ahead = {}
    BY <1>0, ArrivedAll
  <2> HIDE DEF g, r
  <2>5. LET h == Append1(g, "PUSHA", 0, <<>>)
        IN FlowSound(h, x, r, 0, {}) /\ Grown(h, g, "PUSHA", {Shape(x, r, 0)}) /\ h.at = {}
    <3>1. Takes(x, x, r, 0, 0, 0, <<>>)
      BY <1>5, <2>2, <2>3 DEF Takes
    <3>2. Appended(Append1(g, "PUSHA", 0, <<>>), g, "PUSHA", x, x, r, 0, 0, {})
      BY <1>0, <1>1, <1>3, <1>4, <3>1, AppendInto
    <3> QED BY <2>1, <2>4, <3>2 DEF Appended
  <2>6. FlowSound(PUSHA(f), Inside(x), r, 0, {})
    BY <2>1, <2>5, EmptySound
  <2> QED BY <1>1, <2>1, <2>5, <2>6 DEF Grown, r
<1> QED BY <1>6, <1>7

LEMMA POPASound ==
  ASSUME NEW x \in Context, NEW r \in Int, NEW pending, NEW f,
         FlowSound(f, Inside(x), r, 0, pending), Ready(pending, 0, {})
  PROVE  FlowSound(POPA(f), x, HROf(x), 0, {})
<1> DEFINE g == Arrived(f)
           y == Inside(x)
           h == Append1(g, "POPA", 8, <<>>)
<1>0. y \in Context /\ HROf(x) \in Int /\ 0 \in Nat
  BY ContextType, InsideType
<1>1. FlowSound(g, y, r, 0, {}) /\ g.trail = f.trail /\ g.ahead = {}
  BY <1>0, ArrivedAll
<1>2. g.at \subseteq {Shape(y, r, 0)}
  BY <1>1, FlowSoundIs
<1>3. "POPA" \in Opcodes
  BY DEF Opcodes
<1>4. Ready({}, 0, {})
  BY AlwaysReady
<1>5. /\ Effect(Shape(y, r, 0), 8, <<>>) = Shape(x, r, 0)
      /\ Len(Cells(y, 0)) >= 8 /\ Last(Cells(y, 0)) = SavedHR(HROf(x))
      /\ Height(y, 0) >= 8
  BY <1>0, PopRegisters, CellsType
<1>6. Shape(y, r, 0).cells = Cells(y, 0)
  BY <1>0, ShapeType
<1>7. SavedHR(HROf(x))[1] = "HR" /\ SavedHR(HROf(x))[2] = HROf(x)
  OBVIOUS
<1>8. \A s \in g.at : Len(s.cells) >= 8 /\ Last(s.cells)[1] = "HR" /\ Last(s.cells)[2] = HROf(x)
  <2> HIDE DEF g, y
  <2> QED BY <1>2, <1>5, <1>6, <1>7
<1>9. POPA(f) = IF Live(g) THEN SetHR(h, Last(Top(g).cells)[2]) ELSE h
  BY <1>8 DEF POPA, Wrong
<1>10. FlowSound(h, x, r, 0, {}) /\ (g.at = {} => h.at = {})
  <2> HIDE DEF g, y
  <2>1. Takes(y, x, r, 0, 0, 8, <<>>)
    BY <1>5 DEF Takes
  <2>2. FlowSound(g, y, r, 0, {}) /\ g.ahead = {}
    BY <1>1
  <2>3. Appended(Append1(g, "POPA", 8, <<>>), g, "POPA", y, x, r, 0, 0, {})
    BY <1>0, <1>3, <1>4, <2>1, <2>2, AppendInto
  <2> QED BY <2>2, <2>3 DEF Appended
<1> HIDE DEF h, y, g
<1>11. CASE Live(g)
  <2>1. Top(g) \in g.at
    BY <1>11 DEF Live, Top, Nowhere
  <2>2. POPA(f) = SetHR(h, HROf(x))
    BY <1>8, <1>9, <1>11, <2>1
  <2> QED BY <1>0, <1>10, <2>2, SetHRSound
<1>12. CASE ~Live(g)
  <2>1. POPA(f) = h /\ h.at = {}
    BY <1>9, <1>10, <1>12 DEF Live, Nowhere
  <2> QED BY <1>10, <2>1, EmptySound
<1> QED BY <1>11, <1>12

(* The jump back, and the jumps out of a loop: HR differs, the cells agree. *)
SameCells(S, x) == \A s \in S : \E r \in Int : s = Shape(x, r, 0)

LEMMA BackToSound ==
  ASSUME NEW x \in Context, NEW r \in Int, NEW f, NEW op \in Opcodes, NEW shapes,
         FlowSound(f, x, r, 0, {}), SameCells(shapes, x)
  PROVE  FlowSound(BackTo(f, op, shapes), x, r, 0, {})
<1> DEFINE g == Plain(f, op)
<1>0. 0 \in Nat /\ Ready({}, 0, {})
  BY AlwaysReady
<1>1. FlowSound(g, x, r, 0, {})
  BY <1>0, PlainSound
<1>2. g.at \subseteq {Shape(x, r, 0)}
  BY <1>1, FlowSoundIs
<1>3. \A q \in Int : Shape(x, q, 0).cells = Cells(x, 0)
  BY <1>0, ShapeType
<1> HIDE DEF g
<1>4. \A s \in shapes, t \in g.at : s.cells = t.cells
  BY <1>2, <1>3 DEF SameCells
<1> QED BY <1>1, <1>4 DEF BackTo, Wrong, g

LEMMA JoinMixed ==
  ASSUME NEW x \in Context, NEW r \in Int, NEW f, NEW from,
         FlowSound(f, x, r, 0, {}), SameCells(from, x)
  PROVE  \E q \in Int : FlowSound(Join(f, from), x, q, 0, {})
<1> DEFINE all == f.at \cup from
           some == CHOOSE s \in all : TRUE
           hrs == {s.hr : s \in all}
           q == IF hrs = {some.hr} THEN some.hr ELSE Caller
           new == At(some.cells, q)
           g == [f EXCEPT !.at = new]
<1>0. 0 \in Nat /\ \A p \in Int : Shape(x, p, 0).cells = Cells(x, 0) /\ Shape(x, p, 0).hr = p
  BY ShapeType
<1>1. f = FlowOf(f.at, f.trail, f.ahead) /\ f.at \subseteq {Shape(x, r, 0)}
      /\ f.trail \in Seq(Instruction) /\ Pending(f, x, r, {})
  BY FlowSoundIs
<1>2. CASE from = {}
  BY <1>2 DEF Join
<1>3. CASE from # {}
  <2>1. \A s \in all : \E p \in Int : s = Shape(x, p, 0)
    BY <1>1 DEF SameCells
  <2>2. some \in all
    BY <1>3
  <2> HIDE DEF all, some
  <2>3. PICK p \in Int : some = Shape(x, p, 0)
    BY <2>1, <2>2
  <2>4. \A s \in all : s.cells = Cells(x, 0)
    BY <1>0, <2>1
  <2>5. some.cells = Cells(x, 0) /\ some.hr \in Int
    BY <1>0, <2>3
  <2>6. q \in Int
    BY <2>5 DEF Caller
  <2> HIDE DEF q
  <2>7. new = {Shape(x, q, 0)}
    BY <2>5 DEF At, Shape
  <2>8. g = FlowOf(new, f.trail, f.ahead)
    <3>1. \A a, t, h, n : [FlowOf(a, t, h) EXCEPT !.at = n] = FlowOf(n, t, h)
      BY DEF FlowOf
    <3> HIDE DEF new
    <3> QED BY <1>1, <3>1
  <2>9. Join(f, from) = g
    BY <1>3, <2>4, <2>5 DEF Join, Wrong, all, some, q
  <2>10. g.at = new /\ g.trail = f.trail /\ g.ahead = f.ahead
    <3> HIDE DEF g
    <3> QED BY <2>8 DEF FlowOf
  <2> HIDE DEF g, new
  <2>11. Pending(g, x, q, {})
    BY <1>1, <2>10 DEF Pending
  <2>12. FlowSound(g, x, q, 0, {})
    BY <1>1, <2>7, <2>8, <2>10, <2>11, FlowSoundIs
  <2> QED BY <2>6, <2>9, <2>12
<1> QED BY <1>2, <1>3

(* What is under the values above it is drawn out of the stack. *)
LEMMA Drawn ==
  ASSUME NEW x \in Context, NEW r \in Int, NEW k \in Nat, NEW n \in 0..k - 1
  PROVE  LET c == Cells(x, k)
         IN /\ n \in 0..Height(x, k) - 1 /\ c[Height(x, k) - n] = Temp
            /\ n < Len(c) /\ RemoveAt(c, Len(c) - n) = Cells(x, k - 1)
<1> DEFINE c == Cells(x, k)
           h == Height(x, k)
           s == SubSeq(c, 1, (h - n) - 1)
           t == SubSeq(c, (h - n) + 1, h)
           w == s \o t
<1>1. x.args \in Nat /\ x.level \in Nat /\ h = x.args + 8 * x.level + k
  BY ContextType DEF Height
<1>2. /\ c \in Seq(AllCells) /\ h \in Nat /\ Len(c) = h
      /\ \A i \in 1..h : c[i] = CellAt(x, i)
  BY CellsType
<1>3. n \in 0..h - 1 /\ h - n \in 1..h /\ h - n > x.args + 8 * x.level
  BY <1>1
<1>4. \A i \in Int : i > x.args + 8 * x.level => CellAt(x, i) = Temp
  BY TempAbove
<1>5. c[h - n] = Temp
  BY <1>2, <1>3, <1>4
<1>6. RemoveAt(c, Len(c) - n) = w
  BY <1>2 DEF RemoveAt
<1>7. s \in Seq(AllCells) /\ Len(s) = h - n - 1 /\ \A i \in 1..h - n - 1 : s[i] = c[i]
  <2> HIDE DEF h, c
  <2> QED BY <1>2, <1>3
<1>8. t \in Seq(AllCells) /\ Len(t) = n /\ \A i \in 1..n : t[i] = c[(h - n) + i]
  <2> HIDE DEF h, c
  <2> QED BY <1>2, <1>3
<1>9. Height(x, k - 1) = h - 1 /\ h - 1 \in Nat
  BY <1>1 DEF Height
<1> HIDE DEF c, h, s, t, w
<1>10. /\ w \in Seq(AllCells) /\ Len(w) = h - 1
       /\ \A i \in 1..h - n - 1 : w[i] = c[i]
       /\ \A i \in 1..n : w[(h - n - 1) + i] = c[(h - n) + i]
  <2>1. s \in Seq(AllCells) /\ t \in Seq(AllCells) /\ w = s \o t
    BY <1>7, <1>8 DEF w
  <2>2. /\ w \in Seq(AllCells) /\ Len(w) = Len(s) + Len(t)
        /\ \A i \in 1..Len(s) : w[i] = s[i]
        /\ \A i \in 1..Len(t) : w[Len(s) + i] = t[i]
    BY <2>1, Joined
  <2>3. Len(s) = h - n - 1 /\ Len(t) = n /\ Len(s) + Len(t) = h - 1
    BY <1>2, <1>3, <1>7, <1>8
  <2>4. \A i \in 1..h - n - 1 : w[i] = c[i]
    BY <1>7, <2>2, <2>3
  <2>5. \A i \in 1..n : w[(h - n - 1) + i] = c[(h - n) + i]
    BY <1>8, <2>2, <2>3
  <2> QED BY <2>2, <2>3, <2>4, <2>5
<1>11. \A i \in 1..h - 1 : w[i] = CellAt(x, i)
  <2> TAKE i \in 1..h - 1
  <2>1. CASE i <= h - n - 1
    BY <1>2, <1>3, <1>10, <2>1
  <2>2. CASE i > h - n - 1
    <3>1. i - (h - n - 1) \in 1..n /\ (h - n - 1) + (i - (h - n - 1)) = i
          /\ (h - n) + (i - (h - n - 1)) = i + 1 /\ i + 1 \in 1..h
      BY <1>2, <1>3, <2>2
    <3>2. w[i] = c[i + 1]
      BY <1>10, <3>1
    <3>3. i > x.args + 8 * x.level /\ i + 1 > x.args + 8 * x.level
      <4>1. x.args + 8 * x.level \in Nat /\ h - n \in Int /\ h - n > x.args + 8 * x.level /\ i \in Int
        BY <1>1, <1>3
      <4>2. \A a, b \in Int, d \in Nat : b > d /\ a > b - 1 => a > d /\ a + 1 > d
        OBVIOUS
      <4> HIDE DEF h
      <4> QED BY <2>2, <4>1, <4>2
    <3> QED BY <1>2, <1>4, <3>1, <3>2, <3>3
  <2> QED BY <1>2, <1>3, <2>1, <2>2
<1>12. w = [i \in 1..h - 1 |-> CellAt(x, i)]
  BY <1>9, <1>10, <1>11
<1>13. Cells(x, k - 1) = w
  BY <1>9, <1>12 DEF Cells
<1> QED BY <1>2, <1>3, <1>5, <1>6, <1>13 DEF h, c

LEMMA DrawSound ==
  ASSUME NEW x \in Context, NEW r \in Int, NEW k \in Nat, NEW n \in 0..k - 1, NEW f, NEW op \in Opcodes,
         FlowSound(f, x, r, k, {})
  PROVE  FlowSound(Draw(f, op, n), x, r, k - 1, {})
<1> DEFINE g == Reads(Plain(f, op), n, Temp)
           here == {[s EXCEPT !.cells = IF n < Len(@) THEN RemoveAt(@, Len(@) - n) ELSE @] : s \in g.at}
           h == Draw(f, op, n)
<1>0. Ready({}, k, {})
  BY AlwaysReady
<1>1. FlowSound(Plain(f, op), x, r, k, {})
  BY <1>0, PlainSound
<1>2. LET c == Cells(x, k)
      IN /\ n \in 0..Height(x, k) - 1 /\ c[Height(x, k) - n] = Temp
         /\ n < Len(c) /\ RemoveAt(c, Len(c) - n) = Cells(x, k - 1)
  BY Drawn
<1>3. FlowSound(g, x, r, k, {})
  BY <1>0, <1>1, <1>2, ReadsSound
<1>4. g = FlowOf(g.at, g.trail, g.ahead) /\ g.at \subseteq {Shape(x, r, k)}
      /\ g.trail \in Seq(Instruction) /\ Pending(g, x, r, {})
  BY <1>3, FlowSoundIs
<1>5. h = FlowOf(here, g.trail, g.ahead)
  <2>1. h = [g EXCEPT !.at = here]
    BY DEF Draw
  <2> HIDE DEF h, g, here
  <2>2. \A a, t, e, i : [FlowOf(a, t, e) EXCEPT !.at = i] = FlowOf(i, t, e)
    BY DEF FlowOf
  <2> QED BY <1>4, <2>1, <2>2
<1>6. [Shape(x, r, k) EXCEPT !.cells = IF n < Len(@) THEN RemoveAt(@, Len(@) - n) ELSE @] = Shape(x, r, k - 1)
  <2> DEFINE c == Cells(x, k)
             d == Cells(x, k - 1)
             v == IF n < Len(c) THEN RemoveAt(c, Len(c) - n) ELSE c
  <2>1. v = d
    BY <1>2
  <2> HIDE DEF c, d
  <2>2. [[cells |-> c, hr |-> r] EXCEPT !.cells = IF n < Len(@) THEN RemoveAt(@, Len(@) - n) ELSE @] = [cells |-> v, hr |-> r]
    <3> DEFINE z == [cells |-> c, hr |-> r]
    <3>1. z.cells = c
      OBVIOUS
    <3>2. [z EXCEPT !.cells = IF n < Len(@) THEN RemoveAt(@, Len(@) - n) ELSE @] = [z EXCEPT !.cells = v]
      BY <3>1
    <3> HIDE DEF v
    <3>3. [z EXCEPT !.cells = v] = [cells |-> v, hr |-> r]
      OBVIOUS
    <3> QED BY <3>2, <3>3
  <2> QED BY <2>1, <2>2 DEF Shape, c, d
<1>7. here \subseteq {Shape(x, r, k - 1)}
  <2> HIDE DEF g
  <2> QED BY <1>4, <1>6
<1> HIDE DEF here, g, h
<1>8. h.at = here /\ h.trail = g.trail /\ h.ahead = g.ahead
  BY <1>5 DEF FlowOf
<1>9. Pending(h, x, r, {})
  BY <1>4, <1>8 DEF Pending
<1> QED BY <1>4, <1>5, <1>7, <1>8, <1>9, FlowSoundIs DEF h

(* The constant that was pushed last is taken back. *)
LEMMA TakenBackSound ==
  ASSUME NEW x \in Context, NEW r \in Int, NEW k \in Nat, k > 0, NEW f,
         FlowSound(f, x, r, k, {}), LastPushed(f, x, r, k)
  PROVE  FlowSound(TakenBack(f), x, r, k - 1, {})
<1> DEFINE here == FromLast(f)
           t == Front(f.trail)
           g == TakenBack(f)
<1>1. f = FlowOf(f.at, f.trail, f.ahead) /\ f.trail \in Seq(Instruction) /\ Pending(f, x, r, {})
  BY FlowSoundIs
<1>2. here \subseteq {Shape(x, r, k - 1)}
  BY DEF LastPushed, FromLast, LastPlace
<1>3. t \in Seq(Instruction)
  BY <1>1 DEF Front, LastPushed
<1>4. g = FlowOf(here, t, f.ahead)
  <2>1. g = [f EXCEPT !.at = here, !.trail = t]
    BY DEF TakenBack
  <2> HIDE DEF g, here, t
  <2>2. \A a, b, e, i : [FlowOf(a, b, e) EXCEPT !.at = i] = FlowOf(i, b, e)
    BY DEF FlowOf
  <2>3. \A a, b, e, i : [FlowOf(a, b, e) EXCEPT !.trail = i] = FlowOf(a, i, e)
    BY DEF FlowOf
  <2>4. g = [[f EXCEPT !.at = here] EXCEPT !.trail = t]
    BY <2>1
  <2>5. [f EXCEPT !.at = here] = FlowOf(here, f.trail, f.ahead)
    BY <1>1, <2>2
  <2>6. [FlowOf(here, f.trail, f.ahead) EXCEPT !.trail = t] = FlowOf(here, t, f.ahead)
    BY <2>3
  <2> QED BY <2>4, <2>5, <2>6
<1> HIDE DEF here, t, g
<1>5. g.at = here /\ g.trail = t /\ g.ahead = f.ahead
  BY <1>4 DEF FlowOf
<1>6. Pending(g, x, r, {})
  BY <1>1, <1>5 DEF Pending
<1> QED BY <1>2, <1>3, <1>4, <1>5, <1>6, FlowSoundIs DEF g

(* The end of an operation. *)
Cut(trail) == IF trail = <<>> THEN trail ELSE <<Last(trail)>>

LEMMA SettledSound ==
  ASSUME NEW x \in Context, NEW r \in Int, NEW k \in Nat, NEW pending, NEW f,
         FlowSound(f, x, r, k, pending), Ready(pending, k, {})
  PROVE  /\ FlowSound(Settled(f), x, r, k, {})
         /\ Settled(f).trail = Cut(f.trail)
         /\ FlowSound([Settled(f) EXCEPT !.trail = <<>>], x, r, k, {})
         /\ [Settled(f) EXCEPT !.trail = <<>>].trail = <<>>
<1> DEFINE g == Arrived(f)
           h == Settled(f)
           e == [h EXCEPT !.trail = <<>>]
           cut == Cut(g.trail)
<1>1. FlowSound(g, x, r, k, {}) /\ g.trail = f.trail /\ g.ahead = {}
  BY ArrivedAll
<1>2. g = FlowOf(g.at, g.trail, g.ahead) /\ g.at \subseteq {Shape(x, r, k)} /\ g.trail \in Seq(Instruction)
  BY <1>1, FlowSoundIs
<1>3. \A a, b, c, i : [FlowOf(a, b, c) EXCEPT !.trail = i] = FlowOf(a, i, c)
  BY DEF FlowOf
<1>4. h = FlowOf(g.at, cut, {})
  <2>1. h = [g EXCEPT !.ahead = {}, !.trail = cut]
    BY <1>1 DEF Settled, Wrong, Cut
  <2> HIDE DEF g, h, cut
  <2>2. h = [[g EXCEPT !.ahead = {}] EXCEPT !.trail = cut]
    BY <2>1
  <2>3. [g EXCEPT !.ahead = {}] = FlowOf(g.at, g.trail, {})
    <3>1. [FlowOf(g.at, g.trail, g.ahead) EXCEPT !.ahead = {}] = FlowOf(g.at, g.trail, {})
      BY DEF FlowOf
    <3>2. g = FlowOf(g.at, g.trail, g.ahead)
      BY <1>2
    <3> QED BY <3>1, <3>2
  <2>4. [FlowOf(g.at, g.trail, {}) EXCEPT !.trail = cut] = FlowOf(g.at, cut, {})
    BY <1>3
  <2> QED BY <2>2, <2>3, <2>4
<1>5. cut \in Seq(Instruction)
  <2> HIDE DEF g
  <2>1. CASE g.trail = <<>>
    BY <1>2, <2>1 DEF Cut
  <2>2. CASE g.trail # <<>>
    <3>1. Last(g.trail) \in Instruction
      BY <1>2, <2>2 DEF Last
    <3>2. cut = <<Last(g.trail)>>
      BY <2>2 DEF Cut
    <3> HIDE DEF cut
    <3> QED BY <3>1, <3>2
  <2> QED BY <2>1, <2>2
<1> HIDE DEF g, h, cut
<1>6. e = FlowOf(g.at, <<>>, {})
  BY <1>3, <1>4
<1>7. <<>> \in Seq(Instruction)
  OBVIOUS
<1>8. \A trail \in Seq(Instruction) : FlowSound(FlowOf(g.at, trail, {}), x, r, k, {})
  <2> TAKE trail \in Seq(Instruction)
  <2> DEFINE w == FlowOf(g.at, trail, {})
  <2>1. w.at = g.at /\ w.trail = trail /\ w.ahead = {} /\ w = FlowOf(w.at, w.trail, w.ahead)
    BY DEF FlowOf
  <2> HIDE DEF w
  <2>2. Pending(w, x, r, {})
    BY <2>1 DEF Pending
  <2>3. FlowSound(w, x, r, k, {})
    BY <1>2, <2>1, <2>2, FlowSoundIs
  <2> QED BY <2>3 DEF w
<1>9. h.trail = cut /\ e.trail = <<>>
  <2> HIDE DEF e
  <2> QED BY <1>4, <1>6 DEF FlowOf
<1>10. FlowSound(h, x, r, k, {})
  BY <1>4, <1>5, <1>8
<1>11. FlowSound(e, x, r, k, {})
  <2> HIDE DEF e
  <2> QED BY <1>6, <1>7, <1>8
<1> QED BY <1>1, <1>9, <1>10, <1>11 DEF h, cut, g

-----------------------------------------------------------------------------
(* The methods of the compiler. *)

LEMMA CompilerFields ==
  ASSUME NEW depth, NEW level, NEW saved, NEW scopes, NEW flow
  PROVE  LET c == CompilerOf(depth, level, saved, scopes, flow)
         IN /\ c.iStackDepth = depth /\ c.iScopeNumber = level /\ c.vSavedStackDepths = saved
            /\ c.scopes = scopes /\ c.flow = flow
BY DEF CompilerOf

LEMMA CompilerSoundIs ==
  ASSUME NEW c, NEW x, NEW k, NEW d, NEW saved, NEW pending, CompilerSound(c, x, k, d, saved, pending)
  PROVE  /\ c.iStackDepth = 8 * x.level + d /\ c.iScopeNumber = x.level /\ c.vSavedStackDepths = saved
         /\ ScopesSound(c.scopes, x)
         /\ FlowSound(c.flow, x, HROf(x), k, pending)
<1>1. /\ c = CompilerOf(8 * x.level + d, x.level, saved, c.scopes, c.flow)
      /\ ScopesSound(c.scopes, x) /\ FlowSound(c.flow, x, HROf(x), k, pending)
  BY DEF CompilerSound
<1> QED BY <1>1, CompilerFields

LEMMA EmitSound ==
  ASSUME NEW x \in Context, NEW k, NEW m, NEW d \in Int, NEW delta \in Int, NEW saved, NEW pending, NEW later,
         NEW c, NEW f,
         CompilerSound(c, x, k, d, saved, pending), FlowSound(f, x, HROf(x), m, later)
  PROVE  CompilerSound(Emit(c, f, delta), x, m, d + delta, saved, later) /\ Emit(c, f, delta).flow = f
<1> DEFINE e == Emit(c, f, delta)
           depth == c.iStackDepth + delta
           sc == c.scopes
<1>1. /\ c = CompilerOf(8 * x.level + d, x.level, saved, sc, c.flow)
      /\ ScopesSound(sc, x)
  BY DEF CompilerSound
<1>2. c.iStackDepth = 8 * x.level + d
  BY CompilerSoundIs
<1>3. depth = 8 * x.level + (d + delta)
  BY <1>2, ContextType
<1>4. e = CompilerOf(depth, x.level, saved, sc, f)
  <2>1. e = [[c EXCEPT !.flow = f] EXCEPT !.iStackDepth = depth]
    BY DEF Emit
  <2> HIDE DEF depth, sc, e
  <2>2. [CompilerOf(8 * x.level + d, x.level, saved, sc, c.flow) EXCEPT !.flow = f] =
          CompilerOf(8 * x.level + d, x.level, saved, sc, f)
    BY DEF CompilerOf
  <2>3. [CompilerOf(8 * x.level + d, x.level, saved, sc, f) EXCEPT !.iStackDepth = depth] =
          CompilerOf(depth, x.level, saved, sc, f)
    BY DEF CompilerOf
  <2>4. [c EXCEPT !.flow = f] = CompilerOf(8 * x.level + d, x.level, saved, sc, f)
    BY <1>1, <2>2
  <2> QED BY <2>1, <2>3, <2>4
<1> HIDE DEF e, depth, sc
<1>5. e.scopes = sc /\ e.flow = f
  BY <1>4, CompilerFields
<1> QED BY <1>1, <1>3, <1>4, <1>5 DEF CompilerSound, e

(* Jumps to the next instruction may be left to whatever comes then. *)
Soon(k) == {<<1, k>>}
Compiling(c, x, k, d, saved) == CompilerSound(c, x, k, d, saved, Soon(k))

LEMMA SoonReady == \A k : Ready(Soon(k), k, {}) /\ Ready({}, k, {})
BY DEF Ready, Soon

LEMMA CompilerWeaker ==
  ASSUME NEW x, NEW k, NEW d, NEW saved, NEW pending, NEW more, NEW c,
         CompilerSound(c, x, k, d, saved, pending), pending \subseteq more
  PROVE  CompilerSound(c, x, k, d, saved, more)
BY FlowWeaker DEF CompilerSound

LEMMA StartCompiling ==
  ASSUME NEW x, NEW k, NEW d, NEW saved, NEW c, CompilerSound(c, x, k, d, saved, {})
  PROVE  Compiling(c, x, k, d, saved)
<1>1. {} \subseteq Soon(k)
  OBVIOUS
<1> QED BY <1>1, CompilerWeaker DEF Compiling

LEMMA AppendC ==
  ASSUME NEW x \in Context, NEW k \in Nat, NEW d \in Int, NEW delta \in Int, NEW saved, NEW pending, NEW later,
         NEW c, NEW op \in Opcodes, NEW pops \in 0..k, NEW pushes \in Seq({Temp}),
         CompilerSound(c, x, k, d, saved, pending), Ready(pending, k, later)
  PROVE  LET e == Emit(c, Append1(c.flow, op, pops, pushes), delta)
         IN /\ CompilerSound(e, x, k - pops + Len(pushes), d + delta, saved, later)
            /\ Grown(e.flow, c.flow, op, {Shape(x, HROf(x), k)})
<1> DEFINE f == Append1(c.flow, op, pops, pushes)
           m == k - pops + Len(pushes)
           r == HROf(x)
<1>1. FlowSound(c.flow, x, r, k, pending)
  BY CompilerSoundIs
<1>2. r \in Int
  BY ContextType
<1> HIDE DEF r
<1>3. FlowSound(f, x, r, m, later) /\ Grown(f, c.flow, op, {Shape(x, r, k)})
  BY <1>1, <1>2, AppendSound
<1> HIDE DEF f, m
<1>4. CompilerSound(Emit(c, f, delta), x, m, d + delta, saved, later) /\ Emit(c, f, delta).flow = f
  BY <1>3, EmitSound DEF r
<1> QED BY <1>3, <1>4 DEF f, m, r

LEMMA PlainC ==
  ASSUME NEW x \in Context, NEW k \in Nat, NEW d \in Int, NEW saved, NEW pending, NEW later,
         NEW c, NEW op \in Opcodes,
         CompilerSound(c, x, k, d, saved, pending), Ready(pending, k, later)
  PROVE  LET e == Emit(c, Plain(c.flow, op), 0)
         IN /\ CompilerSound(e, x, k, d, saved, later)
            /\ Grown(e.flow, c.flow, op, {Shape(x, HROf(x), k)})
<1>1. FlowSound(c.flow, x, HROf(x), k, pending) /\ HROf(x) \in Int
  BY CompilerSoundIs, ContextType
<1>2. FlowSound(Plain(c.flow, op), x, HROf(x), k, later)
      /\ Grown(Plain(c.flow, op), c.flow, op, {Shape(x, HROf(x), k)})
  BY <1>1, PlainSound
<1>3. d + 0 = d
  OBVIOUS
<1>4. CompilerSound(Emit(c, Plain(c.flow, op), 0), x, k, d + 0, saved, later)
      /\ Emit(c, Plain(c.flow, op), 0).flow = Plain(c.flow, op)
  BY <1>2, EmitSound
<1> QED BY <1>2, <1>3, <1>4

LEMMA PushConstSound ==
  ASSUME NEW x \in Context, NEW k \in Nat, NEW d \in Int, NEW saved, NEW pending, NEW later,
         NEW c, CompilerSound(c, x, k, d, saved, pending), Ready(pending, k, later)
  PROVE  /\ CompilerSound(PushConst(c), x, k + 1, d + 1, saved, later)
         /\ LastPushed(PushConst(c).flow, x, HROf(x), k + 1)
<1>1. FlowSound(c.flow, x, HROf(x), k, pending) /\ HROf(x) \in Int
  BY CompilerSoundIs, ContextType
<1>2. FlowSound(Push(c.flow), x, HROf(x), k + 1, later)
      /\ Grown(Push(c.flow), c.flow, "PUSH", {Shape(x, HROf(x), k)})
  BY <1>1, PushSound
<1>3. CompilerSound(Emit(c, Push(c.flow), 1), x, k + 1, d + 1, saved, later)
      /\ Emit(c, Push(c.flow), 1).flow = Push(c.flow)
  BY <1>2, EmitSound
<1>4. "PUSH" \in Opcodes /\ c.flow.trail \in Seq(Instruction) /\ k + 1 - 1 = k
  BY <1>1, FlowSoundIs DEF Opcodes
<1> DEFINE g == Push(c.flow)
<1>5. LastPushed(g, x, HROf(x), k + 1)
  <2> HIDE DEF g
  <2>1. Grown(g, c.flow, "PUSH", {Shape(x, HROf(x), k)})
    BY <1>2 DEF g
  <2>2. /\ g.trail \in Seq(Instruction)
        /\ Len(c.flow.trail) \in Nat /\ Len(g.trail) = Len(c.flow.trail) + 1
        /\ g.trail[Len(g.trail)].at \subseteq {Shape(x, HROf(x), k)}
    BY <1>1, <1>4, <2>1, GrownTrail
  <2> QED BY <1>4, <2>2 DEF LastPushed
<1> QED BY <1>3, <1>5 DEF PushConst

LEMMA PopVariableSound ==
  ASSUME NEW x \in Context, NEW k \in Nat, k > 0, NEW d \in Int, NEW saved, NEW pending, NEW later,
         NEW c, CompilerSound(c, x, k, d, saved, pending), Ready(pending, k, later)
  PROVE  CompilerSound(PopVariable(c), x, k - 1, d - 1, saved, later)
<1>1. FlowSound(c.flow, x, HROf(x), k, pending) /\ HROf(x) \in Int
  BY CompilerSoundIs, ContextType
<1>2. FlowSound(Pop(c.flow), x, HROf(x), k - 1, later)
  BY <1>1, PopSound
<1>3. CompilerSound(Emit(c, Pop(c.flow), -1), x, k - 1, d + (-1), saved, later)
  BY <1>2, EmitSound
<1>4. d + (-1) = d - 1
  OBVIOUS
<1> QED BY <1>3, <1>4 DEF PopVariable

LEMMA ExistSound ==
  ASSUME NEW x \in Context, NEW k \in Nat, NEW d \in Int, NEW saved, NEW pending, NEW later,
         NEW c, CompilerSound(c, x, k, d, saved, pending), Ready(pending, k, later)
  PROVE  CompilerSound(ExistStackVariable(c), x, k, d, saved, later)
<1>1. "EXIST" \in Opcodes
  BY DEF Opcodes
<1> QED BY <1>1, PlainC DEF ExistStackVariable

LEMMA OutputStaticSound ==
  ASSUME NEW x \in Context, NEW k \in Nat, NEW d \in Int, NEW saved, NEW pending, NEW later,
         NEW c, CompilerSound(c, x, k, d, saved, pending), Ready(pending, k, later)
  PROVE  CompilerSound(OutputStaticData(c), x, k, d, saved, later)
<1>1. "OUTPUT" \in Opcodes
  BY DEF Opcodes
<1> QED BY <1>1, PlainC DEF OutputStaticData

LEMMA CondJumpSound ==
  ASSUME NEW x \in Context, NEW k \in Nat, NEW d \in Int, NEW saved, NEW pending, NEW later,
         NEW c, CompilerSound(c, x, k, d, saved, pending), Ready(pending, k, later)
  PROVE  /\ CompilerSound(CondJump(c), x, k, d, saved, later)
         /\ FromLast(CondJump(c).flow) \subseteq {Shape(x, HROf(x), k)}
<1> DEFINE e == CondJump(c)
<1>1. "JXX" \in Opcodes
  BY DEF Opcodes
<1>2. CompilerSound(e, x, k, d, saved, later) /\ Grown(e.flow, c.flow, "JXX", {Shape(x, HROf(x), k)})
  BY <1>1, PlainC DEF CondJump, Branch
<1>3. FlowSound(c.flow, x, HROf(x), k, pending) /\ HROf(x) \in Int
  BY CompilerSoundIs, ContextType
<1>4. c.flow.trail \in Seq(Instruction)
  BY <1>3, FlowSoundIs
<1> HIDE DEF e
<1>5. FromLast(e.flow) \subseteq {Shape(x, HROf(x), k)}
  BY <1>1, <1>2, <1>3, <1>4, GrownTrail
<1> QED BY <1>2, <1>5 DEF e

LEMMA GotoC ==
  ASSUME NEW x \in Context, NEW k \in Nat, NEW m, NEW d \in Int, NEW saved, NEW pending, NEW later,
         NEW c, NEW op \in Opcodes, CompilerSound(c, x, k, d, saved, pending), Ready(pending, k, later)
  PROVE  LET e == Emit(c, Goto(c.flow, op), 0)
         IN /\ CompilerSound(e, x, m, d, saved, later) /\ e.flow.at = {}
            /\ FromLast(e.flow) \subseteq {Shape(x, HROf(x), k)}
<1>1. FlowSound(c.flow, x, HROf(x), k, pending) /\ HROf(x) \in Int
  BY CompilerSoundIs, ContextType
<1> DEFINE f == Goto(c.flow, op)
<1>2. FlowSound(f, x, HROf(x), m, later) /\ f.at = {} /\ FromLast(f) \subseteq {Shape(x, HROf(x), k)}
  BY <1>1, GotoSound
<1> HIDE DEF f
<1>3. CompilerSound(Emit(c, f, 0), x, m, d + 0, saved, later) /\ Emit(c, f, 0).flow = f
  BY <1>2, EmitSound
<1>4. d + 0 = d
  OBVIOUS
<1> QED BY <1>2, <1>3, <1>4 DEF f

LEMMA UncondJumpSound ==
  ASSUME NEW x \in Context, NEW k \in Nat, NEW m, NEW d \in Int, NEW saved, NEW pending, NEW later,
         NEW c, CompilerSound(c, x, k, d, saved, pending), Ready(pending, k, later)
  PROVE  /\ CompilerSound(UncondJump(c), x, m, d, saved, later)
         /\ FromLast(UncondJump(c).flow) \subseteq {Shape(x, HROf(x), k)}
<1>1. "JMP" \in Opcodes
  BY DEF Opcodes
<1> QED BY <1>1, GotoC DEF UncondJump

LEMMA BranchToC ==
  ASSUME NEW x \in Context, NEW k \in Nat, NEW m, NEW n \in Nat, NEW d \in Int, NEW saved, NEW pending, NEW later,
         NEW c, NEW op \in Opcodes, CompilerSound(c, x, k, d, saved, pending), Ready(pending, k, later)
  PROVE  LET to == NextPlace(c.flow) + n
         IN /\ CompilerSound(Emit(c, BranchTo(c.flow, op, to), 0), x, k, d, saved, later \cup {<<n, k>>})
            /\ CompilerSound(Emit(c, GotoTo(c.flow, op, to), 0), x, m, d, saved, later \cup {<<n, k>>})
<1>1. FlowSound(c.flow, x, HROf(x), k, pending) /\ HROf(x) \in Int
  BY CompilerSoundIs, ContextType
<1> DEFINE f == BranchTo(c.flow, op, NextPlace(c.flow) + n)
           g == GotoTo(c.flow, op, NextPlace(c.flow) + n)
           after == later \cup {<<n, k>>}
<1>2. FlowSound(f, x, HROf(x), k, after) /\ FlowSound(g, x, HROf(x), m, after)
  BY <1>1, BranchToSound
<1> HIDE DEF f, g, after
<1>3. CompilerSound(Emit(c, f, 0), x, k, d + 0, saved, after)
  BY <1>2, EmitSound
<1>4. CompilerSound(Emit(c, g, 0), x, m, d + 0, saved, after)
  BY <1>2, EmitSound
<1>5. d + 0 = d
  OBVIOUS
<1> QED BY <1>3, <1>4, <1>5 DEF f, g, after

LEMMA RJumpSound ==
  ASSUME NEW x \in Context, NEW k \in Nat, NEW n \in Nat, NEW d \in Int, NEW saved, NEW pending, NEW later,
         NEW c, CompilerSound(c, x, k, d, saved, pending), Ready(pending, k, later)
  PROVE  CompilerSound(RJump(c, n), x, k, d, saved, later \cup {<<n, k>>})
<1>1. "RJXX" \in Opcodes
  BY DEF Opcodes
<1> QED BY <1>1, BranchToC DEF RJump

LEMMA RUncondJumpSound ==
  ASSUME NEW x \in Context, NEW k \in Nat, NEW m, NEW n \in Nat, NEW d \in Int, NEW saved, NEW pending, NEW later,
         NEW c, CompilerSound(c, x, k, d, saved, pending), Ready(pending, k, later)
  PROVE  CompilerSound(RUncondJump(c, n), x, m, d, saved, later \cup {<<n, k>>})
<1>1. "RJMP" \in Opcodes
  BY DEF Opcodes
<1> QED BY <1>1, BranchToC DEF RUncondJump

LEMMA UncondJumpToSound ==
  ASSUME NEW x \in Context, NEW k \in Nat, NEW m, NEW n \in Nat, NEW d \in Int, NEW saved, NEW pending, NEW later,
         NEW c, CompilerSound(c, x, k, d, saved, pending), Ready(pending, k, later)
  PROVE  CompilerSound(UncondJumpTo(c, LastPlace(c.flow) + 1 + n), x, m, d, saved, later \cup {<<n, k>>})
<1>1. "JMP" \in Opcodes
  BY DEF Opcodes
<1>2. NextPlace(c.flow) = LastPlace(c.flow) + 1
  BY DEF NextPlace, LastPlace
<1> QED BY <1>1, <1>2, BranchToC DEF UncondJumpTo

LEMMA PatchedSound ==
  ASSUME NEW x \in Context, NEW k \in Nat, NEW d \in Int, NEW saved, NEW pending,
         NEW c, NEW from, CompilerSound(c, x, k, d, saved, pending), from \subseteq {Shape(x, HROf(x), k)}
  PROVE  CompilerSound(Patched(c, from), x, k, d, saved, pending)
<1>1. FlowSound(c.flow, x, HROf(x), k, pending) /\ HROf(x) \in Int
  BY CompilerSoundIs, ContextType
<1>2. FlowSound(Join(c.flow, from), x, HROf(x), k, pending)
  BY <1>1, JoinSound
<1>3. CompilerSound(Emit(c, Join(c.flow, from), 0), x, k, d + 0, saved, pending)
  BY <1>2, EmitSound
<1>4. d + 0 = d
  OBVIOUS
<1> QED BY <1>3, <1>4 DEF Patched

LEMMA DecrDepthSound ==
  ASSUME NEW x \in Context, NEW k \in Nat, NEW d \in Int, NEW saved, NEW pending,
         NEW c, CompilerSound(c, x, k, d, saved, pending)
  PROVE  CompilerSound(DecrDepth(c), x, k, d - 1, saved, pending) /\ DecrDepth(c).flow = c.flow
<1>1. FlowSound(c.flow, x, HROf(x), k, pending) /\ HROf(x) \in Int
  BY CompilerSoundIs, ContextType
<1>3. CompilerSound(Emit(c, c.flow, -1), x, k, d + (-1), saved, pending) /\ Emit(c, c.flow, -1).flow = c.flow
  BY <1>1, EmitSound
<1>4. d + (-1) = d - 1
  OBVIOUS
<1> QED BY <1>3, <1>4 DEF DecrDepth

(* An operator takes values and leaves its result. *)
LEMMA OperatorSound ==
  ASSUME NEW x \in Context, NEW k \in Nat, NEW n \in 0..k, NEW d \in Int, NEW delta \in Int, NEW saved,
         NEW c, NEW op \in Opcodes, op # "PUSH", delta = 1 - n, Compiling(c, x, k, d, saved)
  PROVE  LET e == Emit(c, Append1(c.flow, op, n, <<Temp>>), delta)
         IN /\ CompilerSound(e, x, k - n + 1, d - n + 1, saved, {}) /\ TopKnown(e.flow, x, k - n + 1)
<1> DEFINE t == <<Temp>>
           e == Emit(c, Append1(c.flow, op, n, t), delta)
<1>1. t \in Seq({Temp}) /\ Len(t) = 1
  OBVIOUS
<1> HIDE DEF t
<1>2. CompilerSound(c, x, k, d, saved, Soon(k)) /\ Ready(Soon(k), k, {})
  BY SoonReady DEF Compiling
<1>3. CompilerSound(e, x, k - n + Len(t), d + delta, saved, {}) /\ Grown(e.flow, c.flow, op, {Shape(x, HROf(x), k)})
  BY <1>1, <1>2, AppendC
<1>4. FlowSound(c.flow, x, HROf(x), k, Soon(k)) /\ HROf(x) \in Int
  BY <1>2, CompilerSoundIs, ContextType
<1>5. c.flow.trail \in Seq(Instruction)
  BY <1>4, FlowSoundIs
<1> DEFINE g == e.flow
           f == c.flow
<1> HIDE DEF e, g, f
<1>6. g.trail[Len(g.trail)].op = op /\ g.trail[Len(g.trail)].at \subseteq {Shape(x, HROf(x), k)}
  <2>1. Grown(g, f, op, {Shape(x, HROf(x), k)}) /\ f.trail \in Seq(Instruction) /\ HROf(x) \in Int
    BY <1>3, <1>4, <1>5 DEF f, g
  <2> QED BY <2>1, GrownTrail
<1>7. k - n + Len(t) = k - n + 1 /\ d + delta = d - n + 1
  BY <1>1
<1> QED BY <1>3, <1>6, <1>7 DEF TopKnown, e, t, g

LEMMA OpArithmeticSound ==
  ASSUME NEW x \in Context, NEW k \in Nat, k > 1, NEW d \in Int, NEW saved, NEW c, Compiling(c, x, k, d, saved)
  PROVE  Compiling(OpArithmetic(c), x, k - 1, d - 1, saved) /\ TopKnown(OpArithmetic(c).flow, x, k - 1)
<1>1. 2 \in 0..k /\ -1 \in Int /\ -1 = 1 - 2 /\ k - 2 + 1 = k - 1 /\ d - 2 + 1 = d - 1
  OBVIOUS
<1>2. "ADD" \in Opcodes /\ "ADD" # "PUSH"
  BY DEF Opcodes
<1> DEFINE e == Emit(c, Append1(c.flow, "ADD", 2, <<Temp>>), -1)
<1>3. CompilerSound(e, x, k - 2 + 1, d - 2 + 1, saved, {}) /\ TopKnown(e.flow, x, k - 2 + 1)
  BY <1>1, <1>2, OperatorSound
<1>4. e = OpArithmetic(c)
  BY DEF OpArithmetic
<1> HIDE DEF e
<1> QED BY <1>1, <1>3, <1>4, StartCompiling

LEMMA OpUnarySound ==
  ASSUME NEW x \in Context, NEW k \in Nat, k > 0, NEW d \in Int, NEW saved, NEW c, Compiling(c, x, k, d, saved)
  PROVE  Compiling(OpUnary(c), x, k, d, saved) /\ TopKnown(OpUnary(c).flow, x, k)
<1>1. 1 \in 0..k /\ 0 \in Int /\ 0 = 1 - 1 /\ k - 1 + 1 = k /\ d - 1 + 1 = d
  OBVIOUS
<1>2. "NEG" \in Opcodes /\ "NEG" # "PUSH"
  BY DEF Opcodes
<1> DEFINE e == Emit(c, Append1(c.flow, "NEG", 1, <<Temp>>), 0)
<1>3. CompilerSound(e, x, k - 1 + 1, d - 1 + 1, saved, {}) /\ TopKnown(e.flow, x, k - 1 + 1)
  BY <1>1, <1>2, OperatorSound
<1>4. e = OpUnary(c)
  BY DEF OpUnary
<1> HIDE DEF e
<1> QED BY <1>1, <1>3, <1>4, StartCompiling

LEMMA ExecuteSyscallSound ==
  ASSUME NEW x \in Context, NEW k \in Nat, NEW n \in 0..k, NEW d \in Int, NEW saved, NEW c, Compiling(c, x, k, d, saved)
  PROVE  Compiling(ExecuteSyscall(c, n), x, k - n + 1, d - n + 1, saved)
<1>1. -(n - 1) \in Int /\ -(n - 1) = 1 - n
  OBVIOUS
<1>2. "SYSCALL" \in Opcodes /\ "SYSCALL" # "PUSH"
  BY DEF Opcodes
<1> DEFINE e == Emit(c, Append1(c.flow, "SYSCALL", n, <<Temp>>), -(n - 1))
<1>3. CompilerSound(e, x, k - n + 1, d - n + 1, saved, {})
  BY <1>1, <1>2, OperatorSound
<1>4. e = ExecuteSyscall(c, n)
  BY DEF ExecuteSyscall
<1> HIDE DEF e
<1> QED BY <1>3, <1>4, StartCompiling

LEMMA OpCmpSound ==
  ASSUME NEW x \in Context, NEW k \in Nat, k > 1, NEW d \in Int, NEW saved, NEW c, Compiling(c, x, k, d, saved)
  PROVE  CompilerSound(OpCmp(c), x, k - 2, d - 2, saved, {})
<1> DEFINE t == <<>>
           e == Emit(c, Append1(c.flow, "CMP", 2, t), -2)
<1>1. 2 \in 0..k /\ -2 \in Int /\ k - 2 + Len(t) = k - 2 /\ d + (-2) = d - 2 /\ t \in Seq({Temp})
  OBVIOUS
<1>2. "CMP" \in Opcodes
  BY DEF Opcodes
<1>3. CompilerSound(c, x, k, d, saved, Soon(k)) /\ Ready(Soon(k), k, {})
  BY SoonReady DEF Compiling
<1> HIDE DEF t
<1>4. CompilerSound(e, x, k - 2 + Len(t), d + (-2), saved, {})
  BY <1>1, <1>2, <1>3, AppendC
<1> QED BY <1>1, <1>4 DEF OpCmp, t

(* A comparison: a jump to one constant, or over it to the end.            *)
LEMMA ComparedSound ==
  ASSUME NEW x \in Context, NEW k \in Nat, k > 1, NEW d \in Int, NEW saved, NEW c, Compiling(c, x, k, d, saved)
  PROVE  Compiling(Compared(c), x, k - 1, d - 1, saved) /\ TopKnown(Compared(c).flow, x, k - 1)
<1> DEFINE c1 == OpCmp(c)
           c2 == RJump(c1, 3)
           c3 == PushConst(c2)
           c4 == RUncondJump(c3, 2)
           c5 == PushConst(c4)
           c6 == DecrDepth(c5)
           m == k - 2
           e == d - 2
<1>0. m \in Nat /\ e \in Int /\ m + 1 \in Nat /\ e + 1 \in Int /\ k - 1 = m + 1 /\ d - 1 = e + 1 + 1 - 1 /\ e + 1 + 1 \in Int
  OBVIOUS
<1>1. CompilerSound(c1, x, m, e, saved, {})
  BY OpCmpSound
<1>2. Ready({}, m, {}) /\ Ready({<<3, m>>}, m, {<<2, m>>}) /\ Ready({<<2, m>>}, m + 1, {<<1, m>>})
      /\ Ready({<<1, m>>} \cup {<<2, m + 1>>}, m, {<<1, m + 1>>})
  BY <1>0 DEF Ready
<1>3. {} \cup {<<3, m>>} = {<<3, m>>} /\ 2 \in Nat /\ 3 \in Nat
  OBVIOUS
<1> HIDE DEF m, e
<1>4. CompilerSound(c2, x, m, e, saved, {<<3, m>>})
  <2> HIDE DEF c1
  <2>1. CompilerSound(c2, x, m, e, saved, {} \cup {<<3, m>>})
    BY <1>0, <1>1, <1>2, <1>3, RJumpSound
  <2> QED BY <1>3, <2>1
<1>5. CompilerSound(c3, x, m + 1, e + 1, saved, {<<2, m>>})
  <2> HIDE DEF c2
  <2> QED BY <1>0, <1>2, <1>4, PushConstSound
<1>6. CompilerSound(c4, x, m, e + 1, saved, {<<1, m>>} \cup {<<2, m + 1>>})
  <2> HIDE DEF c3
  <2> QED BY <1>0, <1>2, <1>3, <1>5, RUncondJumpSound
<1>7. CompilerSound(c5, x, m + 1, e + 1 + 1, saved, {<<1, m + 1>>}) /\ LastPushed(c5.flow, x, HROf(x), m + 1)
  <2> HIDE DEF c4
  <2> QED BY <1>0, <1>2, <1>6, PushConstSound
<1>8. CompilerSound(c6, x, m + 1, e + 1 + 1 - 1, saved, {<<1, m + 1>>}) /\ c6.flow = c5.flow
  <2> HIDE DEF c5
  <2> QED BY <1>0, <1>7, DecrDepthSound
<1>9. c6 = Compared(c)
  BY DEF Compared
<1>10. m + 1 > 0
  BY <1>0
<1> HIDE DEF c6
<1> QED BY <1>0, <1>7, <1>8, <1>9, <1>10 DEF Compiling, Soon, TopKnown

(* The test of an operand of && or ||. *)
LEMMA TestedSound ==
  ASSUME NEW x \in Context, NEW k \in Nat, k > 0, NEW d \in Int, NEW saved, NEW c, Compiling(c, x, k, d, saved)
  PROVE  /\ CompilerSound(Tested(c), x, k - 1, d - 1, saved, {})
         /\ TestedJump(Tested(c)) \subseteq {Shape(x, HROf(x), k - 1)}
<1> DEFINE c1 == ExistStackVariable(c)
           c2 == PopVariable(c1)
           c3 == CondJump(c2)
           m == k - 1
           e == d - 1
<1>0. m \in Nat /\ e \in Int
  OBVIOUS
<1>1. CompilerSound(c, x, k, d, saved, Soon(k)) /\ Ready(Soon(k), k, {}) /\ Ready({}, k, {}) /\ Ready({}, m, {})
  BY SoonReady DEF Compiling
<1>2. CompilerSound(c1, x, k, d, saved, {})
  BY <1>1, ExistSound
<1>3. CompilerSound(c2, x, m, e, saved, {})
  <2> HIDE DEF c1
  <2> QED BY <1>1, <1>2, PopVariableSound
<1> HIDE DEF m, e
<1>4. CompilerSound(c3, x, m, e, saved, {}) /\ FromLast(c3.flow) \subseteq {Shape(x, HROf(x), m)}
  <2> HIDE DEF c2
  <2> QED BY <1>0, <1>1, <1>3, CondJumpSound
<1> QED BY <1>4 DEF Tested, TestedJump, m, e

LEMMA DecidedSound ==
  ASSUME NEW x \in Context, NEW k \in Nat, k > 0, NEW d \in Int, NEW saved, NEW c, Compiling(c, x, k, d, saved),
         NEW jumps, jumps \subseteq {Shape(x, HROf(x), k - 1)}
  PROVE  Compiling(Decided(c, jumps), x, k, d, saved) /\ TopKnown(Decided(c, jumps).flow, x, k)
<1> DEFINE c1 == Tested(c)
           c2 == PushConst(c1)
           c3 == UncondJumpTo(c2, LastPlace(c2.flow) + 3)
           from == jumps \cup TestedJump(c1)
           c4 == Patched(c3, from)
           c5 == PushConst(c4)
           c6 == DecrDepth(c5)
           m == k - 1
           e == d - 1
<1>0. m \in Nat /\ e \in Int /\ k = m + 1 /\ d = e + 1 + 1 - 1 /\ e + 1 \in Int /\ e + 1 + 1 \in Int /\ 2 \in Nat
  OBVIOUS
<1>1. CompilerSound(c1, x, m, e, saved, {}) /\ TestedJump(c1) \subseteq {Shape(x, HROf(x), m)}
  BY TestedSound
<1>2. from \subseteq {Shape(x, HROf(x), m)}
  BY <1>1
<1>3. Ready({}, m, {}) /\ Ready({}, m + 1, {}) /\ Ready({<<2, m + 1>>}, m, {<<1, m + 1>>})
      /\ {} \cup {<<2, m + 1>>} = {<<2, m + 1>>}
  BY <1>0 DEF Ready
<1> HIDE DEF m, e, from, c1
<1>4. CompilerSound(c2, x, m + 1, e + 1, saved, {})
  BY <1>0, <1>1, <1>3, PushConstSound
<1> HIDE DEF c2
<1>5. CompilerSound(c3, x, m, e + 1, saved, {<<2, m + 1>>})
  <2>1. LastPlace(c2.flow) + 3 = LastPlace(c2.flow) + 1 + 2
    <3>1. FlowSound(c2.flow, x, HROf(x), m + 1, {})
      BY <1>4, CompilerSoundIs
    <3>2. Len(c2.flow.trail) \in Nat
      BY <3>1, FlowSoundIs
    <3> QED BY <3>2 DEF LastPlace
  <2>2. CompilerSound(UncondJumpTo(c2, LastPlace(c2.flow) + 1 + 2), x, m, e + 1, saved, {} \cup {<<2, m + 1>>})
    BY <1>0, <1>3, <1>4, UncondJumpToSound
  <2> QED BY <1>3, <2>1, <2>2
<1> HIDE DEF c3
<1>6. CompilerSound(c4, x, m, e + 1, saved, {<<2, m + 1>>})
  BY <1>0, <1>2, <1>5, PatchedSound
<1> HIDE DEF c4
<1>7. CompilerSound(c5, x, m + 1, e + 1 + 1, saved, {<<1, m + 1>>}) /\ LastPushed(c5.flow, x, HROf(x), m + 1)
  BY <1>0, <1>3, <1>6, PushConstSound
<1> HIDE DEF c5
<1>8. CompilerSound(c6, x, m + 1, e + 1 + 1 - 1, saved, {<<1, m + 1>>}) /\ c6.flow = c5.flow
  BY <1>0, <1>7, DecrDepthSound
<1>9. c6 = Decided(c, jumps)
  BY DEF Decided, c1, c2, c3, c4, c5, from
<1> HIDE DEF c6
<1> QED BY <1>0, <1>7, <1>8, <1>9 DEF Compiling, Soon, TopKnown

(* What waits for its second operand in e is computed: m values stay.      *)
LEMMA SimpleSound ==
  ASSUME NEW x \in Context, NEW m \in Nat, m > 0, NEW d \in Int, NEW saved, NEW c, NEW e, e.add \in BOOLEAN,
         Compiling(c, x, m + One(e.add), d + One(e.add), saved), TopKnown(c.flow, x, m + One(e.add))
  PROVE  Compiling(Simple(c, e), x, m, d, saved) /\ TopKnown(Simple(c, e).flow, x, m)
<1>1. CASE e.add
  <2>1. m + One(e.add) = m + 1 /\ d + One(e.add) = d + 1 /\ m + 1 \in Nat /\ m + 1 > 1 /\ d + 1 \in Int
        /\ m + 1 - 1 = m /\ d + 1 - 1 = d
    BY <1>1 DEF One
  <2>2. Compiling(OpArithmetic(c), x, m + 1 - 1, d + 1 - 1, saved) /\ TopKnown(OpArithmetic(c).flow, x, m + 1 - 1)
    BY <2>1, OpArithmeticSound
  <2> QED BY <1>1, <2>1, <2>2 DEF Simple
<1>2. CASE ~e.add
  <2>1. m + One(e.add) = m /\ d + One(e.add) = d
    BY <1>2 DEF One
  <2> QED BY <1>2, <2>1 DEF Simple
<1> QED BY <1>1, <1>2

LEMMA RelatedSound ==
  ASSUME NEW x \in Context, NEW m \in Nat, m > 0, NEW d \in Int, NEW saved, NEW c, NEW e, NEW n \in Nat,
         e.add \in BOOLEAN, e.rel \in BOOLEAN, n = One(e.rel) + One(e.add),
         Compiling(c, x, m + n, d + n, saved), TopKnown(c.flow, x, m + n)
  PROVE  Compiling(Related(c, e), x, m, d, saved) /\ TopKnown(Related(c, e).flow, x, m)
<1> DEFINE p == m + One(e.rel)
           q == d + One(e.rel)
<1>1. p \in Nat /\ p > 0 /\ q \in Int /\ p + One(e.add) = m + n /\ q + One(e.add) = d + n
  BY DEF One
<1> HIDE DEF p, q
<1>2. Compiling(Simple(c, e), x, p, q, saved) /\ TopKnown(Simple(c, e).flow, x, p)
  BY <1>1, SimpleSound
<1>3. CASE e.rel
  <2>1. p > 1 /\ p - 1 = m /\ q - 1 = d
    BY <1>3 DEF One, p, q
  <2> QED BY <1>1, <1>2, <1>3, <2>1, ComparedSound DEF Related
<1>4. CASE ~e.rel
  <2>1. p = m /\ q = d
    BY <1>4 DEF One, p, q
  <2> QED BY <1>2, <1>4, <2>1 DEF Related
<1> QED BY <1>3, <1>4

LEMMA ConjoinedSound ==
  ASSUME NEW x \in Context, NEW m \in Nat, m > 0, NEW d \in Int, NEW saved, NEW c, NEW e, NEW n \in Nat,
         e.add \in BOOLEAN, e.rel \in BOOLEAN, n = One(e.rel) + One(e.add),
         e.inAnd \in BOOLEAN, e.ands \subseteq {Shape(x, HROf(x), m - 1)},
         Compiling(c, x, m + n, d + n, saved), TopKnown(c.flow, x, m + n)
  PROVE  Compiling(Conjoined(c, e), x, m, d, saved) /\ TopKnown(Conjoined(c, e).flow, x, m)
<1>1. Compiling(Related(c, e), x, m, d, saved) /\ TopKnown(Related(c, e).flow, x, m)
  BY RelatedSound
<1>2. CASE e.inAnd
  BY <1>1, <1>2, DecidedSound DEF Conjoined
<1>3. CASE ~e.inAnd
  BY <1>1, <1>3 DEF Conjoined
<1> QED BY <1>2, <1>3

LEMMA DisjoinedSound ==
  ASSUME NEW x \in Context, NEW m \in Nat, m > 0, NEW d \in Int, NEW saved, NEW c, NEW e, NEW n \in Nat,
         e.add \in BOOLEAN, e.rel \in BOOLEAN, n = One(e.rel) + One(e.add),
         e.inAnd \in BOOLEAN, e.ands \subseteq {Shape(x, HROf(x), m - 1)},
         e.inOr \in BOOLEAN, e.or \subseteq {Shape(x, HROf(x), m - 1)},
         Compiling(c, x, m + n, d + n, saved), TopKnown(c.flow, x, m + n)
  PROVE  Compiling(Disjoined(c, e), x, m, d, saved) /\ TopKnown(Disjoined(c, e).flow, x, m)
<1>1. Compiling(Conjoined(c, e), x, m, d, saved) /\ TopKnown(Conjoined(c, e).flow, x, m)
  BY ConjoinedSound
<1>2. CASE e.inOr
  BY <1>1, <1>2, DecidedSound DEF Disjoined
<1>3. CASE ~e.inOr
  BY <1>1, <1>3 DEF Disjoined
<1> QED BY <1>2, <1>3

-----------------------------------------------------------------------------
(* Variables. *)

LEMMA CompilingFlow ==
  ASSUME NEW x \in Context, NEW k, NEW d, NEW saved, NEW c, Compiling(c, x, k, d, saved)
  PROVE  /\ FlowSound(c.flow, x, HROf(x), k, Soon(k)) /\ Ready(Soon(k), k, {}) /\ Ready({}, k, {}) /\ HROf(x) \in Int
         /\ c.iStackDepth = 8 * x.level + d /\ c.iScopeNumber = x.level /\ ScopesSound(c.scopes, x)
BY CompilerSoundIs, SoonReady, ContextType DEF Compiling

LEMMA EmitCompiling ==
  ASSUME NEW x \in Context, NEW k, NEW m, NEW d \in Int, NEW delta \in Int, NEW saved, NEW later,
         NEW c, NEW f,
         Compiling(c, x, k, d, saved), FlowSound(f, x, HROf(x), m, later), later \subseteq Soon(m)
  PROVE  Compiling(Emit(c, f, delta), x, m, d + delta, saved)
<1>1. FlowSound(f, x, HROf(x), m, Soon(m))
  BY FlowWeaker
<1> QED BY <1>1, EmitSound DEF Compiling

LEMMA PrepareComplexSound ==
  ASSUME NEW x \in Context, NEW k \in Nat, NEW d \in Int, NEW saved, NEW c, Compiling(c, x, k, d, saved)
  PROVE  /\ Compiling(PreparePushComplexVariable(c), x, k + 1, d + 1, saved)
         /\ Compiling(PushConst(c), x, k + 1, d + 1, saved)
<1>1. FlowSound(Push(c.flow), x, HROf(x), k + 1, {})
  BY CompilingFlow, PushSound
<1>2. {} \subseteq Soon(k + 1)
  OBVIOUS
<1> QED BY <1>1, <1>2, EmitCompiling DEF PreparePushComplexVariable, PushConst

LEMMA ClearComplexSound ==
  ASSUME NEW x \in Context, NEW k \in Nat, k > 1, NEW d \in Int, NEW saved, NEW c, Compiling(c, x, k, d, saved)
  PROVE  Compiling(ClearPushComplexVariable(c), x, k - 1, d - 1, saved)
<1> DEFINE t == <<Temp, Temp>>
           f == Append1(c.flow, "XCHG", 2, t)
           r == HROf(x)
<1>1. t \in Seq({Temp}) /\ 2 \in 0..k /\ k - 2 + Len(t) = k /\ d + (-1) = d - 1
  OBVIOUS
<1>2. "XCHG" \in Opcodes
  BY DEF Opcodes
<1>3. FlowSound(c.flow, x, r, k, Soon(k)) /\ Ready(Soon(k), k, {}) /\ Ready({}, k, {}) /\ r \in Int
  BY CompilingFlow
<1> HIDE DEF t, r
<1>4. FlowSound(f, x, r, k - 2 + Len(t), {})
  BY <1>1, <1>2, <1>3, AppendSound
<1> HIDE DEF f
<1>5. FlowSound(Pop(f), x, r, k - 1, {})
  <2>1. k > 0 /\ k - 2 + Len(t) = k
    BY <1>1
  <2>2. FlowSound(f, x, r, k, {}) /\ Ready({}, k, {})
    BY <1>3, <1>4, <2>1
  <2> QED BY <1>3, <2>1, <2>2, PopSound
<1>6. {} \subseteq Soon(k - 1)
  OBVIOUS
<1>7. Compiling(Emit(c, Pop(f), -1), x, k - 1, d + (-1), saved)
  BY <1>5, <1>6, EmitCompiling DEF r
<1> QED BY <1>1, <1>7 DEF ClearPushComplexVariable, f, t

LEMMA IndirectCallSound ==
  ASSUME NEW x \in Context, NEW k \in Nat, k > 1, NEW d \in Int, NEW saved, NEW c, Compiling(c, x, k, d, saved)
  PROVE  Compiling(IndirectCall(c), x, k - 1, d - 1, saved)
<1> DEFINE t == <<Temp>>
           f == Pop(c.flow)
           g == Append1(f, "REPLIND", 1, t)
           r == HROf(x)
           m == k - 1
<1>1. t \in Seq({Temp}) /\ m \in Nat /\ 1 \in 0..m /\ m - 1 + Len(t) = m /\ d + (-1) = d - 1
  OBVIOUS
<1>2. "REPLIND" \in Opcodes
  BY DEF Opcodes
<1>3. FlowSound(c.flow, x, r, k, Soon(k)) /\ Ready(Soon(k), k, {}) /\ Ready({}, m, {}) /\ r \in Int
  BY CompilingFlow, SoonReady
<1> HIDE DEF t, r
<1>4. FlowSound(f, x, r, m, {})
  <2>1. k > 0
    OBVIOUS
  <2>2. Ready(Soon(k), k, {})
    BY <1>3
  <2> QED BY <1>3, <2>1, <2>2, PopSound
<1> HIDE DEF f, m
<1>5. FlowSound(g, x, r, m - 1 + Len(t), {})
  BY <1>1, <1>2, <1>3, <1>4, AppendSound
<1> HIDE DEF g
<1>6. {} \subseteq Soon(m)
  OBVIOUS
<1>7. Compiling(Emit(c, g, -1), x, m, d + (-1), saved)
  BY <1>1, <1>5, <1>6, EmitCompiling DEF r
<1> QED BY <1>1, <1>7 DEF IndirectCall, f, g, t, m

LEMMA TakeValueSound ==
  ASSUME NEW x \in Context, NEW k \in Nat, k > 0, NEW d \in Int, NEW saved, NEW c, Compiling(c, x, k, d, saved)
  PROVE  Compiling(TakeValue(c), x, k, d, saved)
<1>1. Compiling(PushConst(c), x, k + 1, d + 1, saved)
  BY PrepareComplexSound
<1>2. k + 1 \in Nat /\ k + 1 > 1 /\ d + 1 \in Int /\ k + 1 - 1 = k /\ d + 1 - 1 = d
  OBVIOUS
<1>3. Compiling(IndirectCall(PushConst(c)), x, k + 1 - 1, d + 1 - 1, saved)
  BY <1>1, <1>2, IndirectCallSound
<1> QED BY <1>2, <1>3 DEF TakeValue

LEMMA BlockVariableSound ==
  ASSUME NEW x \in Context, NEW k \in Nat, NEW saved, NEW c, Compiling(c, x, k, k, saved), NEW n \in 0..x.args - 1
  PROVE  Compiling(PushBlockVariable(c, n), x, k + 1, k + 1, saved)
<1> DEFINE r == HROf(x)
           f == Reads(c.flow, BlockVariablePlace(c, n), Arg(n))
<1>1. FlowSound(c.flow, x, r, k, Soon(k)) /\ Ready(Soon(k), k, {}) /\ Ready({}, k, {}) /\ r \in Int
  BY CompilingFlow
<1>2. BlockVariablePlace(c, n) = n + (8 * x.level + k)
  BY CompilingFlow DEF BlockVariablePlace
<1>3. LET idx == n + (8 * x.level + k)
      IN idx \in 0..Height(x, k) - 1 /\ Cells(x, k)[Height(x, k) - idx] = Arg(n)
  BY ArgumentPlace
<1>4. FlowSound(f, x, r, k, {})
  <2> HIDE DEF r
  <2> QED BY <1>1, <1>2, <1>3, ReadsSound
<1> HIDE DEF r, f
<1>5. FlowSound(Push(f), x, r, k + 1, {})
  BY <1>1, <1>4, PushSound
<1>6. {} \subseteq Soon(k + 1)
  OBVIOUS
<1> QED BY <1>5, <1>6, EmitCompiling DEF PushBlockVariable, f, r

LEMMA LocalScopeSound ==
  ASSUME NEW x \in Context, NEW k \in Nat, NEW d \in Int, NEW saved, NEW c, Compiling(c, x, k, d, saved)
  PROVE  Compiling(PrepareLocalScope(c, x.level), x, k + 1, d + 1, saved)
<1> DEFINE r == HROf(x)
           f == IF x.level > 0 THEN ReadsHR(c.flow, x.level) ELSE c.flow
<1>1. FlowSound(c.flow, x, r, k, Soon(k)) /\ Ready(Soon(k), k, {}) /\ Ready({}, k, {}) /\ r \in Int
  BY CompilingFlow
<1>2. FlowSound(Push(f), x, r, k + 1, {})
  <2>1. CASE x.level > 0
    <3>1. r = x.level /\ f = ReadsHR(c.flow, x.level)
      BY <1>1, <2>1, ContextType DEF HROf
    <3>2. FlowSound(f, x, r, k, {})
      BY <1>1, <3>1, ReadsHRSound
    <3> HIDE DEF r, f
    <3> QED BY <1>1, <3>2, PushSound
  <2>2. CASE ~(x.level > 0)
    <3>1. f = c.flow
      BY <1>1, <2>2
    <3> HIDE DEF r, f
    <3> QED BY <1>1, <3>1, PushSound
  <2> QED BY <2>1, <2>2
<1>3. {} \subseteq Soon(k + 1)
  OBVIOUS
<1> HIDE DEF f, r
<1> QED BY <1>2, <1>3, EmitCompiling DEF PrepareLocalScope, f, r

(* The last instruction is jumped over where a value was found.            *)
LEMMA PushVariableSound ==
  ASSUME NEW x \in Context, NEW k \in Nat, NEW d \in Int, NEW saved, NEW c, Compiling(c, x, k, d, saved)
  PROVE  Compiling(PushVariable(c), x, k, d, saved)
<1> DEFINE r == HROf(x)
           f == Plain(c.flow, "REPLACE")
           g == Plain(f, "DEFINED")
           h == BranchTo(g, "JE", LastPlace(g) + 3)
           e == Plain(h, "REPLACE")
<1>0. {"REPLACE", "DEFINED", "JE"} \subseteq Opcodes
  BY DEF Opcodes
<1>1. FlowSound(c.flow, x, r, k, Soon(k)) /\ Ready(Soon(k), k, {}) /\ Ready({}, k, {}) /\ r \in Int
  BY CompilingFlow
<1>2. Ready({<<2, k>>}, k, {<<1, k>>}) /\ {} \cup {<<2, k>>} = {<<2, k>>} /\ 2 \in Nat /\ d + 0 = d
  BY DEF Ready
<1> HIDE DEF r
<1>3. FlowSound(f, x, r, k, {})
  BY <1>0, <1>1, PlainSound
<1> HIDE DEF f
<1>4. FlowSound(g, x, r, k, {})
  BY <1>0, <1>1, <1>3, PlainSound
<1>5. NextPlace(g) + 2 = LastPlace(g) + 3
  <2>1. Len(g.trail) \in Nat
    BY <1>4, FlowSoundIs
  <2> HIDE DEF g
  <2> QED BY <2>1 DEF NextPlace, LastPlace
<1> HIDE DEF g
<1>6. FlowSound(h, x, r, k, {<<2, k>>})
  <2>1. FlowSound(BranchTo(g, "JE", NextPlace(g) + 2), x, r, k, {} \cup {<<2, k>>})
    BY <1>0, <1>1, <1>2, <1>4, BranchToSound
  <2> QED BY <1>2, <1>5, <2>1
<1> HIDE DEF h
<1>7. FlowSound(e, x, r, k, {<<1, k>>})
  BY <1>0, <1>1, <1>2, <1>6, PlainSound
<1> HIDE DEF e
<1>8. {<<1, k>>} \subseteq Soon(k)
  BY DEF Soon
<1>9. Compiling(Emit(c, e, 0), x, k, d + 0, saved)
  BY <1>7, <1>8, EmitCompiling DEF r
<1>10. PushVariable(c) = Emit(c, e, 0)
  BY DEF PushVariable, e, f, g, h
<1> QED BY <1>2, <1>9, <1>10

(* The scopes of a name. *)
LEMMA SymbolSound ==
  ASSUME NEW c, NEW x \in Context, ScopesSound(c.scopes, x), NEW szName, Known(c, szName)
  PROVE  LET rec == Symbol(c, szName)
         IN rec.scope_number \in 1..x.level /\ rec.stack_depth = 8 * rec.scope_number
<1> DEFINE N == {i \in DOMAIN c.scopes : Declares(c.scopes[i], szName)}
           P(i) == /\ Declares(c.scopes[i], szName)
                   /\ \A j \in DOMAIN c.scopes : Declares(c.scopes[j], szName) => j <= i
           i0 == CHOOSE i \in DOMAIN c.scopes : P(i)
           rec0 == CHOOSE rec \in c.scopes[i0] : rec.name = szName
<1>1. /\ DOMAIN c.scopes = 1..x.level /\ x.level \in Nat
      /\ \A i \in 1..x.level : \A rec \in c.scopes[i] : rec.stack_depth = 8 * i /\ rec.scope_number = i
  <2>1. x.level \in Nat
    BY ContextType
  <2> QED BY <2>1 DEF ScopesSound
<1>2. \E i \in DOMAIN c.scopes : P(i)
  <2>1. N \subseteq 0..x.level /\ N # {}
    BY <1>1 DEF Known
  <2>2. PICK i \in N : \A j \in N : j <= i
    <3> HIDE DEF N
    <3> QED BY <1>1, <2>1, GreatestNumber
  <2> QED BY <2>2
<1> HIDE DEF P
<1>3. i0 \in DOMAIN c.scopes /\ P(i0)
  BY <1>2
<1>4. Symbol(c, szName) = rec0
  BY DEF Symbol, P
<1> HIDE DEF i0
<1>5. rec0 \in c.scopes[i0]
  BY <1>3 DEF P, Declares
<1> HIDE DEF rec0
<1>6. i0 \in 1..x.level /\ rec0.stack_depth = 8 * i0 /\ rec0.scope_number = i0
  BY <1>1, <1>3, <1>5
<1> QED BY <1>4, <1>6

(* The item of the loop the name belongs to, however deep it is.           *)
LEMMA IteratorFlow ==
  ASSUME NEW x \in Context, NEW k \in Nat, NEW saved, NEW c, Compiling(c, x, k, k, saved), NEW n \in 1..x.level,
         NEW rec, rec.scope_number = n, rec.stack_depth = 8 * n
  PROVE  LET item == IF rec.scope_number = c.iScopeNumber
                     THEN Push(Plain(ReadsHR(c.flow, LoopOf(rec)), "IMOVSTR"))
                     ELSE Push(Plain(Plain(Reads(c.flow, ScopedPlace(c, rec), SavedHR(LoopOf(rec))), "MOV"), "IMOVSTR"))
         IN FlowSound(item, x, HROf(x), k + 1, {})
<1> DEFINE r == HROf(x)
<1>1. FlowSound(c.flow, x, r, k, Soon(k)) /\ Ready(Soon(k), k, {}) /\ Ready({}, k, {}) /\ r \in Int /\ c.iScopeNumber = x.level
  BY CompilingFlow
<1>2. "IMOVSTR" \in Opcodes /\ "MOV" \in Opcodes
  BY DEF Opcodes
<1>3. x.level \in Nat /\ n \in Nat /\ n > 0 /\ LoopOf(rec) = n
  BY ContextType DEF LoopOf, Level
<1>4. CASE n = x.level
  <2> DEFINE f == ReadsHR(c.flow, x.level)
             g == Plain(f, "IMOVSTR")
  <2>1. r = x.level
    BY <1>3, <1>4 DEF HROf
  <2>2. FlowSound(f, x, r, k, {})
    BY <1>1, <2>1, ReadsHRSound
  <2> HIDE DEF f, r
  <2>3. FlowSound(g, x, r, k, {})
    BY <1>1, <1>2, <2>2, PlainSound
  <2> HIDE DEF g
  <2>4. FlowSound(Push(g), x, r, k + 1, {})
    BY <1>1, <2>3, PushSound
  <2> QED BY <1>1, <1>3, <1>4, <2>4 DEF f, g, r
<1>5. CASE n # x.level
  <2> DEFINE f == Reads(c.flow, ScopedPlace(c, rec), SavedHR(n))
             g == Plain(f, "MOV")
             h == Plain(g, "IMOVSTR")
  <2>1. n \in 1..x.level - 1
    BY <1>3, <1>5
  <2>2. LET idx == (8 * x.level + k) - 8 * n - 8
        IN idx \in 0..Height(x, k) - 1 /\ Cells(x, k)[Height(x, k) - idx] = SavedHR(n)
    BY <2>1, IteratorPlace
  <2>3. ScopedPlace(c, rec) = (8 * x.level + k) - 8 * n - 8
    BY CompilingFlow DEF ScopedPlace
  <2>4. FlowSound(f, x, r, k, {})
    <3> HIDE DEF r
    <3> QED BY <1>1, <2>2, <2>3, ReadsSound
  <2> HIDE DEF f, r
  <2>5. FlowSound(g, x, r, k, {})
    BY <1>1, <1>2, <2>4, PlainSound
  <2> HIDE DEF g
  <2>6. FlowSound(h, x, r, k, {})
    BY <1>1, <1>2, <2>5, PlainSound
  <2> HIDE DEF h
  <2>7. FlowSound(Push(h), x, r, k + 1, {})
    BY <1>1, <2>6, PushSound
  <2> QED BY <1>1, <1>3, <1>5, <2>7 DEF f, g, h, r
<1> QED BY <1>4, <1>5

LEMMA ScopedVariableSound ==
  ASSUME NEW x \in Context, NEW k \in Nat, NEW saved, NEW c, Compiling(c, x, k, k, saved),
         NEW szName, Known(c, szName)
  PROVE  Compiling(PushScopedVariable(c, szName), x, k + 1, k + 1, saved)
<1> DEFINE r == HROf(x)
           m == k + 1
           rec == Symbol(c, szName)
           item == IF rec.scope_number = c.iScopeNumber
                   THEN Push(Plain(ReadsHR(c.flow, LoopOf(rec)), "IMOVSTR"))
                   ELSE Push(Plain(Plain(Reads(c.flow, ScopedPlace(c, rec), SavedHR(LoopOf(rec))), "MOV"), "IMOVSTR"))
           f == Plain(item, "REPLACE")
           tried == Plain(f, "DEFINED")
           h1 == BranchTo(tried, "JE", LastPlace(tried) + 5)
           h2 == Pop(h1)
           h3 == Push(h2)
           h4 == Plain(h3, "REPLACE")
<1>0. {"REPLACE", "DEFINED", "JE"} \subseteq Opcodes /\ m \in Nat /\ m > 0 /\ m - 1 = k /\ 4 \in Nat
  BY DEF Opcodes
<1>1. rec.scope_number \in 1..x.level /\ rec.stack_depth = 8 * rec.scope_number
  BY CompilingFlow, SymbolSound
<1>2. /\ Ready({}, m, {}) /\ Ready({<<4, m>>}, m, {<<3, m>>}) /\ Ready({<<3, m>>}, k, {<<2, m>>})
      /\ Ready({<<2, m>>}, m, {<<1, m>>}) /\ {} \cup {<<4, m>>} = {<<4, m>>}
  BY <1>0 DEF Ready
<1>3. r \in Int
  BY CompilingFlow
<1> HIDE DEF rec, m
<1>4. FlowSound(item, x, r, m, {})
  BY <1>1, IteratorFlow DEF m
<1> HIDE DEF item, r
<1>5. FlowSound(f, x, r, m, {})
  BY <1>0, <1>2, <1>3, <1>4, PlainSound
<1> HIDE DEF f
<1>6. FlowSound(tried, x, r, m, {})
  BY <1>0, <1>2, <1>3, <1>5, PlainSound
<1>7. NextPlace(tried) + 4 = LastPlace(tried) + 5
  <2>1. Len(tried.trail) \in Nat
    BY <1>6, FlowSoundIs
  <2> HIDE DEF tried
  <2> QED BY <2>1 DEF NextPlace, LastPlace
<1> HIDE DEF tried
<1>8. FlowSound(h1, x, r, m, {<<4, m>>})
  <2>1. FlowSound(BranchTo(tried, "JE", NextPlace(tried) + 4), x, r, m, {} \cup {<<4, m>>})
    BY <1>0, <1>2, <1>3, <1>6, BranchToSound
  <2> QED BY <1>2, <1>7, <2>1
<1> HIDE DEF h1
<1>9. FlowSound(h2, x, r, k, {<<3, m>>})
  <2>1. FlowSound(h2, x, r, m - 1, {<<3, m>>})
    BY <1>0, <1>2, <1>3, <1>8, PopSound
  <2> QED BY <1>0, <2>1
<1> HIDE DEF h2
<1>10. FlowSound(h3, x, r, m, {<<2, m>>})
  BY <1>2, <1>3, <1>9, PushSound DEF m
<1> HIDE DEF h3
<1>11. FlowSound(h4, x, r, m, {<<1, m>>})
  BY <1>0, <1>2, <1>3, <1>10, PlainSound
<1> HIDE DEF h4
<1>12. {<<1, m>>} \subseteq Soon(m)
  BY DEF Soon
<1>13. Compiling(Emit(c, h4, 1), x, m, k + 1, saved)
  BY <1>11, <1>12, EmitCompiling DEF r
<1>14. PushScopedVariable(c, szName) = Emit(c, h4, 1)
  BY DEF PushScopedVariable, h4, h3, h2, h1, tried, f, item, rec
<1> QED BY <1>13, <1>14 DEF m

-----------------------------------------------------------------------------
(* Loops. *)

LEMMA ScopesInside ==
  ASSUME NEW x \in Context, NEW scopes, ScopesSound(scopes, x), NEW szNS, NEW n, n = x.level + 1
  PROVE  LET s == Append(scopes, {})
         IN /\ Len(s) = n /\ s[n] = {}
            /\ ScopesSound([s EXCEPT ![n] = {[name |-> szNS, stack_depth |-> 8 * n, scope_number |-> n]}], Inside(x))
<1> DEFINE rec == [name |-> szNS, stack_depth |-> 8 * n, scope_number |-> n]
           new == {rec}
           old == {}
           s == Append(scopes, old)
           t == [s EXCEPT ![n] = new]
<1>1. x.level \in Nat /\ n \in Nat /\ n > 0 /\ n - 1 = x.level /\ Inside(x).level = n
  BY ContextType, InsideType
<1>2. /\ IsList(scopes, x.level)
      /\ \A i \in 1..x.level : \A q \in scopes[i] : q.stack_depth = 8 * i /\ q.scope_number = i
  BY DEF ScopesSound, IsList
<1>3. \A q \in new : q.stack_depth = 8 * n /\ q.scope_number = n
  OBVIOUS
<1> HIDE DEF new
<1>4. IsList(s, n) /\ (\A i \in 1..x.level : s[i] = scopes[i]) /\ s[n] = old
  <2>1. Longer(s, scopes, x.level, old)
    BY <1>1, <1>2, AppendList
  <2> QED BY <2>1 DEF Longer
<1> HIDE DEF s
<1>5. Renewed(t, s, n, new)
  BY <1>1, <1>4, UpdatedList
<1> HIDE DEF t
<1>6. \A i \in 1..n : \A q \in t[i] : q.stack_depth = 8 * i /\ q.scope_number = i
  BY <1>1, <1>2, <1>3, <1>4, <1>5 DEF Renewed
<1>7. ScopesSound(t, Inside(x)) /\ Len(s) = n
  BY <1>1, <1>4, <1>5, <1>6 DEF ScopesSound, IsList, Renewed
<1> QED BY <1>4, <1>7 DEF new, t, s, old

LEMMA ScopesOutside ==
  ASSUME NEW x \in Context, NEW scopes, ScopesSound(scopes, Inside(x))
  PROVE  ScopesSound(Front(scopes), x)
<1> DEFINE n == x.level + 1
           m == x.level
           t == Front(scopes)
<1>1. m \in Nat /\ n \in Nat /\ n > 0 /\ n - 1 = m /\ Inside(x).level = n
  BY ContextType, InsideType
<1>2. /\ IsList(scopes, n)
      /\ \A i \in 1..n : \A rec \in scopes[i] : rec.stack_depth = 8 * i /\ rec.scope_number = i
  BY <1>1 DEF ScopesSound, IsList
<1> HIDE DEF n
<1>3. Shorter(t, scopes, n)
  BY <1>1, <1>2, FrontList
<1> HIDE DEF t, m
<1>4. IsList(t, m) /\ \A i \in 1..m : t[i] = scopes[i] /\ i \in 1..n
  BY <1>1, <1>3 DEF Shorter
<1>5. \A i \in 1..m : \A rec \in t[i] : rec.stack_depth = 8 * i /\ rec.scope_number = i
  BY <1>2, <1>4
<1>6. ScopesSound(t, x)
  BY <1>4, <1>5 DEF ScopesSound, IsList, m
<1> QED BY <1>6 DEF t

LEMMA PlainMore ==
  ASSUME NEW x \in Context, NEW r \in Int, NEW f, NEW op \in Opcodes, FlowSound(f, x, r, 0, {})
  PROVE  FlowSound(Plain(f, op), x, r, 0, {}) /\ OneMore(Plain(f, op), f, op, {Shape(x, r, 0)})
<1> DEFINE g == Plain(f, op)
<1>1. 0 \in Nat /\ Ready({}, 0, {})
  BY SoonReady
<1>2. FlowSound(g, x, r, 0, {}) /\ Grown(g, f, op, {Shape(x, r, 0)})
  BY <1>1, PlainSound
<1>3. f.trail \in Seq(Instruction)
  BY FlowSoundIs
<1> HIDE DEF g
<1>4. OneMore(g, f, op, {Shape(x, r, 0)})
  BY <1>1, <1>2, <1>3, GrownMore
<1> QED BY <1>2, <1>4 DEF g

LEMMA LoopFlow ==
  ASSUME NEW x \in Context, NEW f, FlowSound(f, x, HROf(x), 1, {})
  PROVE  LET g == SetHR(Plain(Plain(Branch(Plain(Plain(PUSHA(Pop(f)), "MOV"), "MOVSIZE"), "JE"), "MOV"), "MOVIREGI"), x.level + 1)
         IN /\ FlowSound(g, Inside(x), HROf(Inside(x)), 0, {})
            /\ RetSound([code |-> g.trail, iIP |-> LastPlace(g)], Inside(x))
<1> DEFINE y == Inside(x)
           r == HROf(x)
           f1 == Pop(f)
           f2 == PUSHA(f1)
           f3 == Plain(f2, "MOV")
           f4 == Plain(f3, "MOVSIZE")
           f5 == Plain(f4, "JE")
           f6 == Plain(f5, "MOV")
           f7 == Plain(f6, "MOVIREGI")
           g == SetHR(f7, x.level + 1)
<1>0. y \in Context /\ r \in Int /\ x.level + 1 \in Int /\ HROf(y) = x.level + 1 /\ x.level \in Nat
  <2>1. x.level \in Nat /\ y.level = x.level + 1 /\ y \in Context /\ r \in Int
    BY ContextType, InsideType
  <2> QED BY <2>1 DEF HROf
<1>1. {"MOV", "MOVSIZE", "JE", "MOVIREGI"} \subseteq Opcodes
  BY DEF Opcodes
<1>2. Ready({}, 1, {}) /\ Ready({}, 0, {}) /\ 1 \in Nat /\ 0 \in Nat /\ 1 > 0 /\ 1 - 1 = 0
  BY SoonReady
<1>3. FlowSound(f1, x, r, 0, {})
  <2>1. FlowSound(f1, x, r, 1 - 1, {})
    BY <1>0, <1>2, PopSound
  <2> QED BY <1>2, <2>1
<1> HIDE DEF f1
<1>4. FlowSound(f2, y, r, 0, {})
  BY <1>2, <1>3, PUSHASound
<1> HIDE DEF f2, y, r
<1>5. FlowSound(f3, y, r, 0, {})
  BY <1>0, <1>1, <1>2, <1>4, PlainSound
<1> HIDE DEF f3
<1>6. FlowSound(f4, y, r, 0, {})
  BY <1>0, <1>1, <1>2, <1>5, PlainSound
<1> HIDE DEF f4
<1>7. FlowSound(f5, y, r, 0, {}) /\ OneMore(f5, f4, "JE", {Shape(y, r, 0)})
  BY <1>0, <1>1, <1>6, PlainMore
<1> HIDE DEF f5
<1>8. FlowSound(f6, y, r, 0, {}) /\ OneMore(f6, f5, "MOV", {Shape(y, r, 0)})
  BY <1>0, <1>1, <1>7, PlainMore
<1> HIDE DEF f6
<1>9. FlowSound(f7, y, r, 0, {}) /\ OneMore(f7, f6, "MOVIREGI", {Shape(y, r, 0)})
  BY <1>0, <1>1, <1>8, PlainMore
<1> HIDE DEF f7
<1>10. FlowSound(g, y, HROf(y), 0, {}) /\ g.trail = f7.trail
  <2> DEFINE q == x.level + 1
  <2>1. q \in Int /\ HROf(y) = q
    BY <1>0
  <2> HIDE DEF q
  <2>2. FlowSound(SetHR(f7, q), y, q, 0, {}) /\ SetHR(f7, q).trail = f7.trail
    BY <1>0, <1>2, <1>9, <2>1, SetHRSound
  <2> QED BY <2>1, <2>2 DEF q
<1> DEFINE n == Len(f4.trail)
<1>12. /\ n \in Nat /\ Len(f5.trail) = n + 1
       /\ f5.trail[Len(f5.trail)].op = "JE" /\ f5.trail[Len(f5.trail)].at \subseteq {Shape(y, r, 0)}
  BY <1>7 DEF OneMore
<1>13. /\ Len(f5.trail) \in Nat /\ Len(f6.trail) = Len(f5.trail) + 1
       /\ \A i \in 1..Len(f5.trail) : f6.trail[i] = f5.trail[i]
  BY <1>8 DEF OneMore
<1>14. /\ Len(f6.trail) \in Nat /\ Len(f7.trail) = Len(f6.trail) + 1
       /\ \A i \in 1..Len(f6.trail) : f7.trail[i] = f6.trail[i]
       /\ f7.trail[Len(f7.trail)].at \subseteq {Shape(y, r, 0)}
  BY <1>9 DEF OneMore
<1> HIDE DEF n
<1>15. /\ LastPlace(g) = n + 3 /\ Len(g.trail) = n + 3
       /\ g.trail[n + 1].op = "JE" /\ g.trail[n + 1].at \subseteq {Shape(y, r, 0)}
       /\ g.trail[n + 3].at \subseteq {Shape(y, r, 0)}
  <2>1. Len(f5.trail) = n + 1 /\ Len(f6.trail) = n + 2 /\ Len(f7.trail) = n + 3
    BY <1>12, <1>13, <1>14
  <2>2. n + 1 \in 1..Len(f5.trail) /\ n + 1 \in 1..Len(f6.trail)
    BY <1>12, <2>1
  <2>3. f7.trail[n + 1] = f5.trail[n + 1]
    BY <1>13, <1>14, <2>2
  <2> HIDE DEF g
  <2> QED BY <1>10, <1>12, <1>14, <2>1, <2>3 DEF LastPlace
<1> HIDE DEF g
<1> DEFINE ret == [code |-> g.trail, iIP |-> LastPlace(g)]
<1>16. RetSound(ret, y)
  <2>1. ret.code = g.trail /\ ret.iIP = n + 3 /\ ret.iIP - 2 = n + 1 /\ n + 1 \in 1..n + 3 /\ n + 3 \in 1..n + 3
    BY <1>12, <1>15
  <2> HIDE DEF ret
  <2>2. \A i \in {ret.iIP, ret.iIP - 2} : \A s \in ret.code[i].at : s = Shape(y, r, 0)
    BY <1>15, <2>1
  <2> QED BY <1>0, <1>15, <2>1, <2>2 DEF RetSound
<1> QED BY <1>0, <1>10, <1>16 DEF g, f7, f6, f5, f4, f3, f2, f1, y, Branch

(* The loop starts: its value is taken, HR is the item, a scope is opened. *)
LEMMA ChangeScopeSound ==
  ASSUME NEW x \in Context, NEW saved, NEW c, CompilerSound(c, x, 1, 1, saved, {}), NEW szNS
  PROVE  LET c1 == ChangeScope(c, NoSymbol)
         IN /\ CompilerSound(StoreScopedVariable(c1, szNS), Inside(x), 0, 0, saved, {})
            /\ RetSound(RetPoint(c1), Inside(x))
<1> DEFINE y == Inside(x)
           n == x.level + 1
           f == SetHR(Plain(Plain(Branch(Plain(Plain(PUSHA(Pop(c.flow)), "MOV"), "MOVSIZE"), "JE"), "MOV"), "MOVIREGI"), x.level + 1)
           old == {}
           s == Append(c.scopes, old)
           new == {[name |-> szNS, stack_depth |-> 8 * n, scope_number |-> n]}
           t == [s EXCEPT ![n] = new]
           c1 == ChangeScope(c, NoSymbol)
           c2 == StoreScopedVariable(c1, szNS)
<1>1. /\ c = CompilerOf(8 * x.level + 1, x.level, saved, c.scopes, c.flow)
      /\ ScopesSound(c.scopes, x) /\ FlowSound(c.flow, x, HROf(x), 1, {})
      /\ c.iStackDepth = 8 * x.level + 1 /\ c.iScopeNumber = x.level
  BY CompilerSoundIs DEF CompilerSound
<1>2. FlowSound(f, y, HROf(y), 0, {}) /\ RetSound([code |-> f.trail, iIP |-> LastPlace(f)], y)
  BY <1>1, LoopFlow
<1>3. x.level \in Nat /\ y.level = n /\ y \in Context /\ 8 * x.level + 1 + 7 = 8 * n /\ 8 * y.level + 0 = 8 * n
  BY ContextType, InsideType
<1>4. ScopesSound(t, y) /\ Len(s) = n /\ s[n] = {}
  <2>1. n = x.level + 1 /\ ScopesSound(c.scopes, x)
    BY <1>1
  <2> HIDE DEF n, y
  <2>2. LET u == Append(c.scopes, {})
        IN /\ Len(u) = n /\ u[n] = {}
           /\ ScopesSound([u EXCEPT ![n] = {[name |-> szNS, stack_depth |-> 8 * n, scope_number |-> n]}], Inside(x))
    BY <2>1, ScopesInside, Zenon
  <2> QED BY <2>2, Zenon DEF y
<1>5. c1 = CompilerOf(8 * n, n, saved, s, f)
  <2> DEFINE g == c.flow
             o == c.scopes
             d == 8 * x.level + 1
             l == x.level
             e == 8 * n
  <2>1. c1 = [[[[c EXCEPT !.flow = f] EXCEPT !.iStackDepth = e] EXCEPT !.iScopeNumber = n] EXCEPT !.scopes = s]
    <3>1. c1 = [[[[c EXCEPT !.flow = f] EXCEPT !.iStackDepth = @ + 7] EXCEPT !.iScopeNumber = n] EXCEPT !.scopes = Append(@, old)]
      <4>1. Level(c.iStackDepth + 7) = x.level + 1
        BY <1>1, <1>3 DEF Level
      <4>2. c.iScopeNumber + 1 = x.level + 1
        BY <1>1
      <4> HIDE DEF c1, f
      <4> QED BY <4>1, <4>2 DEF ChangeScope, c1, f
    <3>2. c.iStackDepth + 7 = e
      BY <1>1, <1>3
    <3> HIDE DEF c1, e, n, f, old
    <3>3. [c EXCEPT !.flow = f].iStackDepth = c.iStackDepth
      OBVIOUS
    <3>4. [[[c EXCEPT !.flow = f] EXCEPT !.iStackDepth = e] EXCEPT !.iScopeNumber = n].scopes = c.scopes
      OBVIOUS
    <3> QED BY <3>1, <3>2, <3>3, <3>4
  <2>2. c = CompilerOf(d, l, saved, o, g)
    BY <1>1
  <2> HIDE DEF f, s, n, d, l, o, g, e, c1
  <2>3. [CompilerOf(d, l, saved, o, g) EXCEPT !.flow = f] = CompilerOf(d, l, saved, o, f)
    BY DEF CompilerOf
  <2>4. [CompilerOf(d, l, saved, o, f) EXCEPT !.iStackDepth = e] = CompilerOf(e, l, saved, o, f)
    BY DEF CompilerOf
  <2>5. [CompilerOf(e, l, saved, o, f) EXCEPT !.iScopeNumber = n] = CompilerOf(e, n, saved, o, f)
    BY DEF CompilerOf
  <2>6. [CompilerOf(e, n, saved, o, f) EXCEPT !.scopes = s] = CompilerOf(e, n, saved, s, f)
    BY DEF CompilerOf
  <2>7. c1 = CompilerOf(e, n, saved, s, f)
    BY <2>1, <2>2, <2>3, <2>4, <2>5, <2>6
  <2> QED BY <2>7 DEF e
<1> HIDE DEF c1
<1>6. c1.scopes = s /\ c1.flow = f /\ c1.iStackDepth = 8 * n /\ c1.iScopeNumber = n
  <2> HIDE DEF s, f, n
  <2> QED BY <1>5, CompilerFields
<1>7. c2 = [c1 EXCEPT !.scopes = t]
  <2>1. Last(s) = {} /\ Len(s) = n
    BY <1>4 DEF Last
  <2>2. ~Declares(Last(c1.scopes), szNS)
    BY <1>6, <2>1 DEF Declares
  <2>3. c2 = [c1 EXCEPT !.scopes[Len(c1.scopes)] = @ \cup
                {[name |-> szNS, stack_depth |-> c1.iStackDepth, scope_number |-> c1.iScopeNumber]}]
    BY <2>2 DEF StoreScopedVariable
  <2> HIDE DEF c2, s, n, f
  <2>4. c2 = [c1 EXCEPT !.scopes[n] = s[n] \cup new]
    BY <1>6, <2>1, <2>3
  <2>5. s[n] \cup new = new
    BY <1>4
  <2> QED BY <1>6, <2>4, <2>5
<1>8. c2 = CompilerOf(8 * n, n, saved, t, f)
  <2> HIDE DEF c2, t, s, f, n
  <2>1. [CompilerOf(8 * n, n, saved, s, f) EXCEPT !.scopes = t] = CompilerOf(8 * n, n, saved, t, f)
    BY DEF CompilerOf
  <2> QED BY <1>5, <1>7, <2>1
<1> HIDE DEF c2, t, f, s, n, y
<1>9. c2.scopes = t /\ c2.flow = f
  BY <1>8, CompilerFields
<1>10. CompilerSound(c2, y, 0, 0, saved, {})
  BY <1>2, <1>3, <1>4, <1>8, <1>9 DEF CompilerSound
<1>11. RetSound(RetPoint(c1), y)
  BY <1>2, <1>6 DEF RetPoint
<1> QED BY <1>10, <1>11 DEF c2, c1, y

LEMMA ResetScopeSound ==
  ASSUME NEW x \in Context, NEW saved, NEW c, CompilerSound(c, Inside(x), 0, 0, saved, {}),
         NEW ret, RetSound(ret, Inside(x)), NEW breaks, SameCells(breaks, Inside(x))
  PROVE  CompilerSound(ResetScope(c, ret, breaks), x, 0, 0, saved, {})
<1> DEFINE y == Inside(x)
           r == HROf(y)
           looped == BackTo(c.flow, "LOOP", ret.code[ret.iIP].at)
           exit == ret.code[ret.iIP - 2]
           from == exit.at \cup breaks
           ended == Join(looped, from)
           f == POPA(ended)
           s == Front(c.scopes)
           c1 == ResetScope(c, ret, breaks)
<1>1. /\ c = CompilerOf(8 * y.level + 0, y.level, saved, c.scopes, c.flow)
      /\ ScopesSound(c.scopes, y) /\ FlowSound(c.flow, y, r, 0, {})
      /\ c.iStackDepth = 8 * y.level + 0 /\ c.iScopeNumber = y.level
  BY CompilerSoundIs DEF CompilerSound
<1>2. x.level \in Nat /\ y.level = x.level + 1 /\ y \in Context /\ r \in Int
  BY ContextType, InsideType
<1>3. SameCells(ret.code[ret.iIP].at, y) /\ SameCells(exit.at, y) /\ exit.op = "JE" /\ "LOOP" \in Opcodes
  BY DEF RetSound, SameCells, Opcodes
<1>4. FlowSound(looped, y, r, 0, {})
  <2> HIDE DEF r, y
  <2> QED BY <1>1, <1>2, <1>3, BackToSound
<1>5. SameCells(from, y)
  <2> HIDE DEF exit, y
  <2>1. SameCells(breaks, y)
    BY DEF y
  <2> QED BY <1>3, <2>1 DEF SameCells
<1> HIDE DEF from
<1>6. PICK q \in Int : FlowSound(ended, y, q, 0, {})
  <2> HIDE DEF looped, r, y
  <2> QED BY <1>2, <1>4, <1>5, JoinMixed
<1>7. FlowSound(f, x, HROf(x), 0, {})
  <2> HIDE DEF ended
  <2>1. Ready({}, 0, {})
    BY SoonReady
  <2> QED BY <1>6, <2>1, POPASound
<1>8. ScopesSound(s, x)
  BY <1>1, ScopesOutside
<1>9. c1 = CompilerOf(8 * x.level + 0, x.level, saved, s, f)
  <2> DEFINE g == c.flow
             o == c.scopes
             d == 8 * y.level + 0
             l == y.level
             e == 8 * x.level + 0
             m == x.level
  <2>1. c1 = [[[[c EXCEPT !.flow = f] EXCEPT !.iStackDepth = e] EXCEPT !.iScopeNumber = m] EXCEPT !.scopes = s]
    <3>1. Wrong(ended, exit.op = "JE", "jump") = ended
      BY <1>3 DEF Wrong
    <3>2. c1 = [[[[c EXCEPT !.flow = f] EXCEPT !.iStackDepth = @ - 8] EXCEPT !.iScopeNumber = @ - 1] EXCEPT !.scopes = Front(@)]
      BY <3>1 DEF ResetScope, from
    <3>3. c.iStackDepth - 8 = e /\ c.iScopeNumber - 1 = m
      BY <1>1, <1>2
    <3> HIDE DEF c1, e, m, f
    <3>4. [c EXCEPT !.flow = f].iStackDepth = c.iStackDepth
      OBVIOUS
    <3>5. [[c EXCEPT !.flow = f] EXCEPT !.iStackDepth = e].iScopeNumber = c.iScopeNumber
      OBVIOUS
    <3>6. [[[c EXCEPT !.flow = f] EXCEPT !.iStackDepth = e] EXCEPT !.iScopeNumber = m].scopes = c.scopes
      OBVIOUS
    <3> QED BY <3>2, <3>3, <3>4, <3>5, <3>6
  <2>2. c = CompilerOf(d, l, saved, o, g)
    BY <1>1
  <2> HIDE DEF f, s, d, l, o, g, e, m, c1
  <2>3. [CompilerOf(d, l, saved, o, g) EXCEPT !.flow = f] = CompilerOf(d, l, saved, o, f)
    BY DEF CompilerOf
  <2>4. [CompilerOf(d, l, saved, o, f) EXCEPT !.iStackDepth = e] = CompilerOf(e, l, saved, o, f)
    BY DEF CompilerOf
  <2>5. [CompilerOf(e, l, saved, o, f) EXCEPT !.iScopeNumber = m] = CompilerOf(e, m, saved, o, f)
    BY DEF CompilerOf
  <2>6. [CompilerOf(e, m, saved, o, f) EXCEPT !.scopes = s] = CompilerOf(e, m, saved, s, f)
    BY DEF CompilerOf
  <2>7. c1 = CompilerOf(e, m, saved, s, f)
    BY <2>1, <2>2, <2>3, <2>4, <2>5, <2>6
  <2> QED BY <2>7 DEF e, m
<1> HIDE DEF c1, s, f
<1>10. c1.scopes = s /\ c1.flow = f
  BY <1>9, CompilerFields
<1>11. CompilerSound(c1, x, 0, 0, saved, {})
  BY <1>7, <1>8, <1>9, <1>10 DEF CompilerSound
<1> QED BY <1>11 DEF c1

-----------------------------------------------------------------------------
(* Calls and blocks. *)

LEMMA PrepareCallSound ==
  ASSUME NEW x \in Context, NEW k, NEW d, NEW pending, NEW c, CompilerSound(c, x, k, d, <<>>, pending)
  PROVE  CompilerSound(PrepareCallBlock(c), x, k, d, <<8 * x.level + d>>, pending)
<1> DEFINE n == 8 * x.level + d
           s == <<n>>
           e == PrepareCallBlock(c)
           none == <<>>
           l == x.level
           o == c.scopes
           g == c.flow
<1>1. c = CompilerOf(n, l, none, o, g) /\ c.iStackDepth = n /\ c.vSavedStackDepths = none
      /\ ScopesSound(o, x) /\ FlowSound(g, x, HROf(x), k, pending)
  BY CompilerSoundIs DEF CompilerSound
<1>2. e = [c EXCEPT !.vSavedStackDepths = s]
  <2>1. e = [c EXCEPT !.vSavedStackDepths = Append(@, c.iStackDepth)]
    BY DEF PrepareCallBlock
  <2>2. Append(none, n) = s
    OBVIOUS
  <2> HIDE DEF e, n, s, none
  <2> QED BY <1>1, <2>1, <2>2
<1> HIDE DEF e, n, s, none, l, o, g
<1>3. [CompilerOf(n, l, none, o, g) EXCEPT !.vSavedStackDepths = s] = CompilerOf(n, l, s, o, g)
  BY DEF CompilerOf
<1>4. e = CompilerOf(n, l, s, o, g)
  BY <1>1, <1>2, <1>3
<1>5. e.scopes = o /\ e.flow = g
  BY <1>4, CompilerFields
<1>6. CompilerSound(e, x, k, d, s, pending)
  BY <1>1, <1>4, <1>5 DEF CompilerSound, n, l
<1> QED BY <1>6 DEF e, s, n

(* The block drops its arguments, or throws where they are more than were  *)
(* pushed; the name of the block goes from under them.                     *)
LEMMA CallFlow ==
  ASSUME NEW x \in Context, NEW n \in Nat, NEW b \in BOOLEAN, NEW taken \in Nat, taken >= n,
         NEW f, FlowSound(f, x, HROf(x), n + One(b), {})
  PROVE  LET saved == Plain(f, "SAVEBP")
             called == IF b THEN Draw(saved, "CALLIND", n + 1 - 1) ELSE Plain(saved, "CALLNAME")
             returned == IF taken > n THEN [called EXCEPT !.at = Nowhere] ELSE Append1(called, "RETURNED", taken, <<>>)
         IN FlowSound(Plain(returned, "RESTBP"), x, HROf(x), 0, {})
<1> DEFINE r == HROf(x)
           k == n + One(b)
           t == <<>>
           saved == Plain(f, "SAVEBP")
           drawn == Draw(saved, "CALLIND", n + 1 - 1)
           named == Plain(saved, "CALLNAME")
           called == IF b THEN drawn ELSE named
           nowhere == [called EXCEPT !.at = Nowhere]
           dropped == Append1(called, "RETURNED", n, t)
           returned == IF taken > n THEN nowhere ELSE Append1(called, "RETURNED", taken, t)
<1>0. {"SAVEBP", "CALLIND", "CALLNAME", "RETURNED", "RESTBP"} \subseteq Opcodes /\ r \in Int /\ k \in Nat
      /\ Ready({}, k, {}) /\ Ready({}, n, {}) /\ Ready({}, 0, {}) /\ 0 \in Nat /\ t \in Seq({Temp}) /\ n - n + Len(t) = 0 /\ n \in 0..n
  BY SoonReady, ContextType DEF Opcodes, One
<1> HIDE DEF r, t
<1>1. FlowSound(saved, x, r, k, {})
  <2>1. FlowSound(f, x, r, k, {})
    BY DEF r
  <2> HIDE DEF k
  <2> QED BY <1>0, <2>1, PlainSound
<1> HIDE DEF saved
<1>2. FlowSound(called, x, r, n, {})
  <2>1. CASE b
    <3>1. k = n + 1 /\ n + 1 - 1 = n /\ n \in 0..k - 1 /\ k - 1 = n
      BY <2>1 DEF One
    <3> DEFINE e == Draw(saved, "CALLIND", n)
    <3> HIDE DEF k
    <3>2. FlowSound(e, x, r, k - 1, {})
      BY <1>0, <1>1, <3>1, DrawSound
    <3>3. called = e
      BY <2>1, <3>1
    <3> HIDE DEF e, called
    <3> QED BY <3>1, <3>2, <3>3
  <2>2. CASE ~b
    <3>1. k = n
      BY <2>2 DEF One
    <3> HIDE DEF k
    <3>2. FlowSound(named, x, r, n, {})
      BY <1>0, <1>1, <3>1, PlainSound
    <3> HIDE DEF named
    <3> QED BY <2>2, <3>2
  <2> QED BY <2>1, <2>2
<1> HIDE DEF called, k
<1>3. FlowSound(returned, x, r, 0, {})
  <2>1. FlowSound(nowhere, x, r, 0, {})
    BY <1>2, NowhereSound
  <2>2. FlowSound(dropped, x, r, n - n + Len(t), {})
    BY <1>0, <1>2, AppendSound
  <2>3. CASE taken > n
    <3> HIDE DEF nowhere
    <3> QED BY <2>1, <2>3
  <2>4. CASE ~(taken > n)
    <3>1. taken = n
      BY <2>4
    <3>2. returned = dropped
      BY <2>4, <3>1
    <3> HIDE DEF dropped, returned
    <3> QED BY <1>0, <2>2, <3>2
  <2> QED BY <2>3, <2>4
<1> HIDE DEF returned
<1>4. FlowSound(Plain(returned, "RESTBP"), x, r, 0, {})
  BY <1>0, <1>3, PlainSound
<1> QED BY <1>4 DEF returned, nowhere, called, drawn, named, saved, r, t

LEMMA CallBlockSound ==
  ASSUME NEW x \in Context, NEW n \in Nat, NEW b \in BOOLEAN, NEW k, k = n + One(b), NEW taken \in Nat, taken >= n,
         NEW c, CompilerSound(c, x, k, k, <<8 * x.level + One(b)>>, {})
  PROVE  CompilerSound(CallBlock(c, b, n, taken), x, 0, 0, <<>>, {})
<1> DEFINE saved == Plain(c.flow, "SAVEBP")
           called == IF b THEN Draw(saved, "CALLIND", n + 1 - 1) ELSE Plain(saved, "CALLNAME")
           returned == IF taken > n THEN [called EXCEPT !.at = Nowhere] ELSE Append1(called, "RETURNED", taken, <<>>)
           f == Plain(returned, "RESTBP")
           u == 8 * x.level + One(b)
           d == 8 * x.level + k
           v == <<u>>
           l == x.level
           o == c.scopes
           g == c.flow
           e == 8 * x.level + 0
           none == <<>>
           c1 == CallBlock(c, b, n, taken)
<1>1. c = CompilerOf(d, l, v, o, g) /\ c.iStackDepth = d /\ c.vSavedStackDepths = v
      /\ ScopesSound(o, x) /\ FlowSound(g, x, HROf(x), k, {})
  <2> HIDE DEF v
  <2>1. CompilerSound(c, x, k, k, v, {})
    BY DEF v
  <2>2. c = CompilerOf(8 * x.level + k, x.level, v, c.scopes, c.flow)
    BY <2>1 DEF CompilerSound
  <2> QED BY <2>1, <2>2, CompilerSoundIs
<1>2. FlowSound(f, x, HROf(x), 0, {})
  BY <1>1, CallFlow
<1>3. Last(v) = u /\ Front(v) = none
  <2>1. Len(v) = 1 /\ v[1] = u
    OBVIOUS
  <2>2. v \in Seq({u})
    OBVIOUS
  <2> HIDE DEF v, u
  <2>3. Front(v) = none
    BY <2>1, <2>2 DEF Front
  <2> QED BY <2>1, <2>3 DEF Last
<1>4. n = d - u /\ u - (IF b THEN 1 ELSE 0) = e
  BY ContextType DEF One
<1>5. c1 = [[[c EXCEPT !.flow = f] EXCEPT !.iStackDepth = e] EXCEPT !.vSavedStackDepths = none]
  <2>1. n = PushedSince(c)
    <3> HIDE DEF d, u, v
    <3> QED BY <1>1, <1>3, <1>4 DEF PushedSince
  <2>2. Wrong(saved, n = PushedSince(c), "frame") = saved
    BY <2>1 DEF Wrong
  <2>3. c1 = [[[c EXCEPT !.flow = f] EXCEPT !.iStackDepth = Last(c.vSavedStackDepths) - (IF b THEN 1 ELSE 0)]
                EXCEPT !.vSavedStackDepths = Front(@)]
    <3> DEFINE i == IF b THEN 1 ELSE 0
               ff == IF b THEN Draw(saved, "CALLIND", n + i - 1) ELSE Plain(saved, "CALLNAME")
    <3>1. ff = called
      <4> HIDE DEF saved
      <4> QED OBVIOUS
    <3> DEFINE ret == IF taken > n THEN [ff EXCEPT !.at = Nowhere] ELSE Append1(ff, "RETURNED", taken, <<>>)
    <3>2. ret = returned
      <4> HIDE DEF ff, called
      <4> QED BY <3>1
    <3>3. c1 = [[[c EXCEPT !.flow = Plain(ret, "RESTBP")] EXCEPT !.iStackDepth = Last(c.vSavedStackDepths) - i]
                EXCEPT !.vSavedStackDepths = Front(@)]
      <4> HIDE DEF saved
      <4> QED BY <2>2 DEF CallBlock, saved
    <3> HIDE DEF ret, returned, c1
    <3> QED BY <3>2, <3>3
  <2> HIDE DEF c1, f, e, u, v, none
  <2>4. [[c EXCEPT !.flow = f] EXCEPT !.iStackDepth = e].vSavedStackDepths = c.vSavedStackDepths
    OBVIOUS
  <2> QED BY <1>1, <1>3, <1>4, <2>3, <2>4
<1> HIDE DEF c1, f, e, u, v, none, d, l, o, g
<1>6. [CompilerOf(d, l, v, o, g) EXCEPT !.flow = f] = CompilerOf(d, l, v, o, f)
  BY DEF CompilerOf
<1>7. [CompilerOf(d, l, v, o, f) EXCEPT !.iStackDepth = e] = CompilerOf(e, l, v, o, f)
  BY DEF CompilerOf
<1>8. [CompilerOf(e, l, v, o, f) EXCEPT !.vSavedStackDepths = none] = CompilerOf(e, l, none, o, f)
  BY DEF CompilerOf
<1>9. c1 = CompilerOf(e, l, none, o, f)
  BY <1>1, <1>5, <1>6, <1>7, <1>8
<1>10. c1.scopes = o /\ c1.flow = f
  BY <1>9, CompilerFields
<1>11. CompilerSound(c1, x, 0, 0, none, {})
  BY <1>1, <1>2, <1>9, <1>10 DEF CompilerSound, e, l
<1> QED BY <1>11 DEF c1, none

(* Outside of loops the context may change with what the stack holds.      *)
LEMMA OtherContext ==
  ASSUME NEW x, NEW y, x.level = y.level, NEW k, NEW m, NEW d, NEW saved, NEW pending, NEW later, NEW c,
         CompilerSound(c, x, k, d, saved, pending), FlowSound(c.flow, y, HROf(y), m, later)
  PROVE  CompilerSound(c, y, m, d, saved, later)
<1>1. ScopesSound(c.scopes, x) /\ c = CompilerOf(8 * x.level + d, x.level, saved, c.scopes, c.flow)
  BY DEF CompilerSound
<1>2. ScopesSound(c.scopes, y)
  BY <1>1 DEF ScopesSound
<1> QED BY <1>1, <1>2 DEF CompilerSound

LEMMA BlockContext ==
  ASSUME NEW n \in Nat
  PROVE  /\ Block(n) \in Context /\ Block(n).level = 0 /\ Block(n).args = n /\ HROf(Block(n)) = Caller /\ Caller \in Int
         /\ Cells(Block(n), 0) = ArgCells(n)
         /\ At(ArgCells(n), Caller) = {Shape(Block(n), Caller, 0)}
<1> DEFINE y == Block(n)
<1>1. y \in Context /\ y.level = 0 /\ y.args = n /\ y.hr = Caller /\ HROf(y) = Caller
  BY DEF Context, Block, HROf
<1>2. PICK i \in Int : i = Caller
  BY DEF Caller
<1> HIDE DEF y
<1>3. Height(y, 0) = n /\ \A j \in 1..n : CellAt(y, j) = Arg(n - j)
  BY <1>1 DEF Height, CellAt
<1>4. Cells(y, 0) = ArgCells(n)
  BY <1>3 DEF Cells, ArgCells
<1>5. At(ArgCells(n), Caller) = {Shape(y, Caller, 0)}
  BY <1>4 DEF At, Shape
<1> QED BY <1>1, <1>2, <1>4, <1>5 DEF y

LEMMA StartBlockSound ==
  ASSUME NEW x \in Context, x.level = 0, NEW saved, NEW c, CompilerSound(c, x, 0, 0, saved, {}), NEW n \in Nat
  PROVE  /\ CompilerSound(BlockBody(StartBlock(c), n), Block(n), 0, 0, saved, {})
         /\ FromLast(StartBlock(c).flow) \subseteq {Shape(x, HROf(x), 0)} /\ StartBlock(c).iStackDepth = 0
<1> DEFINE y == Block(n)
           c1 == StartBlock(c)
           f == [c1.flow EXCEPT !.at = At(ArgCells(n), Caller)]
           c2 == BlockBody(c1, n)
           there == {Shape(y, Caller, 0)}
<1>1. "JMP" \in Opcodes /\ Ready({}, 0, {}) /\ 0 \in Nat /\ 0 \in Int /\ 0 + 0 = 0
  BY SoonReady DEF Opcodes
<1>2. CompilerSound(c1, x, 0, 0, saved, {}) /\ FromLast(c1.flow) \subseteq {Shape(x, HROf(x), 0)}
  BY <1>1, GotoC DEF StartBlock
<1>3. c1.iStackDepth = 0 /\ FlowSound(c1.flow, x, HROf(x), 0, {})
  <2> HIDE DEF c1
  <2>1. c1.iStackDepth = 8 * x.level + 0 /\ FlowSound(c1.flow, x, HROf(x), 0, {})
    BY <1>2, CompilerSoundIs
  <2> QED BY <2>1
<1>4. y \in Context /\ y.level = 0 /\ HROf(y) = Caller /\ At(ArgCells(n), Caller) = there
  BY BlockContext
<1> HIDE DEF c1, y
<1>5. FlowSound(f, y, HROf(y), 0, {}) /\ f = [c1.flow EXCEPT !.at = there]
  <2>1. c1.flow = FlowOf(c1.flow.at, c1.flow.trail, c1.flow.ahead) /\ c1.flow.trail \in Seq(Instruction) /\ Pending(c1.flow, x, HROf(x), {})
    BY <1>3, FlowSoundIs
  <2> DEFINE g == c1.flow
             e == FlowOf(there, g.trail, g.ahead)
  <2>2. f = e
    <3>1. f = [g EXCEPT !.at = there]
      BY <1>4
    <3> HIDE DEF f, there, g
    <3>2. [FlowOf(g.at, g.trail, g.ahead) EXCEPT !.at = there] = FlowOf(there, g.trail, g.ahead)
      BY DEF FlowOf
    <3>3. g = FlowOf(g.at, g.trail, g.ahead)
      BY <2>1 DEF g
    <3> QED BY <3>1, <3>2, <3>3
  <2> HIDE DEF e, f, there
  <2>3. e.at = there /\ e.trail = c1.flow.trail /\ e.ahead = c1.flow.ahead /\ e = FlowOf(e.at, e.trail, e.ahead)
    BY DEF FlowOf, e
  <2>4. Pending(e, y, HROf(y), {})
    BY <2>1, <2>3 DEF Pending
  <2>5. e.at \subseteq {Shape(y, HROf(y), 0)}
    BY <1>4, <2>3 DEF there
  <2>6. FlowSound(e, y, HROf(y), 0, {})
    BY <2>1, <2>3, <2>4, <2>5, FlowSoundIs
  <2> QED BY <1>4, <2>2, <2>6 DEF f
<1>6. c2 = Emit(c1, f, 0)
  BY DEF BlockBody
<1> HIDE DEF f, c2
<1>7. CompilerSound(c2, y, 0, 0, saved, {})
  <2>2. c1 = CompilerOf(8 * x.level + 0, x.level, saved, c1.scopes, c1.flow) /\ ScopesSound(c1.scopes, x)
    BY <1>2 DEF CompilerSound
  <2> DEFINE m == 8 * x.level + 0
             o == c1.scopes
             fl == c1.flow
  <2>3. c2 = [[c1 EXCEPT !.flow = f] EXCEPT !.iStackDepth = c1.iStackDepth + 0]
    BY <1>6 DEF Emit
  <2>4. c1.iStackDepth + 0 = m
    BY <1>3
  <2> HIDE DEF m, o, fl
  <2>5. [CompilerOf(m, x.level, saved, o, fl) EXCEPT !.flow = f] = CompilerOf(m, x.level, saved, o, f)
    BY DEF CompilerOf
  <2>6. [CompilerOf(m, x.level, saved, o, f) EXCEPT !.iStackDepth = m] = CompilerOf(m, x.level, saved, o, f)
    BY DEF CompilerOf
  <2>7. c2 = CompilerOf(m, x.level, saved, o, f)
    <3>1. c1 = CompilerOf(m, x.level, saved, o, fl)
      BY <2>2 DEF m, o, fl
    <3> QED BY <2>3, <2>4, <2>5, <2>6, <3>1
  <2>8. c2.scopes = o /\ c2.flow = f
    BY <2>7, CompilerFields
  <2>9. ScopesSound(o, y)
    BY <1>4, <2>2 DEF ScopesSound, o
  <2>10. m = 8 * y.level + 0 /\ x.level = y.level
    BY <1>4 DEF m
  <2> QED BY <1>5, <2>7, <2>8, <2>9, <2>10 DEF CompilerSound
<1> QED BY <1>2, <1>3, <1>7 DEF c2, c1, y

LEMMA EndBlockSound ==
  ASSUME NEW x \in Context, x.level = 0, NEW n \in Nat, NEW saved, NEW c, CompilerSound(c, Block(n), 0, 0, saved, {}),
         NEW skip, skip \subseteq {Shape(x, HROf(x), 0)}
  PROVE  CompilerSound(Patched(EndBlock(c, n), skip), x, 0, 0, saved, {})
<1> DEFINE y == Block(n)
           r == HROf(y)
           g == Arrived(c.flow)
           h == Wrong(g, \A s \in g.at : s.cells = ArgCells(n), "frame")
           f == Goto(h, "RET")
           e == EndBlock(c, n)
<1>1. "RET" \in Opcodes /\ Ready({}, 0, {}) /\ 0 \in Nat /\ 0 \in Int /\ 0 + 0 = 0
  BY SoonReady DEF Opcodes
<1>2. y \in Context /\ y.level = 0 /\ r \in Int /\ Cells(y, 0) = ArgCells(n)
  BY BlockContext
<1> HIDE DEF y, r
<1>3. CompilerSound(c, y, 0, 0, saved, {}) /\ FlowSound(c.flow, y, r, 0, {})
  <2>1. CompilerSound(c, y, 0, 0, saved, {})
    BY DEF y
  <2> QED BY <2>1, CompilerSoundIs DEF r
<1>4. FlowSound(g, y, r, 0, {})
  BY <1>1, <1>2, <1>3, ArrivedAll
<1> HIDE DEF g
<1>5. h = g
  <2>1. g.at \subseteq {Shape(y, r, 0)}
    BY <1>4, FlowSoundIs
  <2>2. \A s \in g.at : s.cells = ArgCells(n)
    BY <1>1, <1>2, <2>1, ShapeType
  <2> QED BY <2>2 DEF Wrong
<1>6. FlowSound(Goto(g, "RET"), y, r, 0, {}) /\ Goto(g, "RET").at = {}
  BY <1>1, <1>2, <1>4, GotoSound
<1>7. f = Goto(g, "RET")
  <2> HIDE DEF h
  <2> QED BY <1>5
<1> HIDE DEF f
<1>8. FlowSound(f, y, r, 0, {}) /\ f.at = {}
  BY <1>6, <1>7
<1>9. FlowSound(f, x, HROf(x), 0, {})
  BY <1>8, EmptySound
<1>10. e = Emit(c, f, 0)
  BY DEF EndBlock, f, h, g
<1> HIDE DEF e
<1>11. CompilerSound(e, y, 0, 0 + 0, saved, {}) /\ e.flow = f
  BY <1>1, <1>2, <1>3, <1>8, <1>10, EmitSound DEF r
<1>12. CompilerSound(e, x, 0, 0, saved, {})
  BY <1>1, <1>2, <1>9, <1>11, OtherContext
<1>13. CompilerSound(Patched(e, skip), x, 0, 0, saved, {})
  BY <1>1, <1>12, PatchedSound
<1> QED BY <1>13 DEF e

-----------------------------------------------------------------------------
(* The rest of the methods, and the end of an operation. *)

LEMMA NewCompilerSound == CompilerSound(NewCompiler, Root, 0, 0, <<>>, {})
<1> DEFINE x == Root
           t == <<Temp>>
           none == <<>>
           start == At(<<>>, Caller)
           f0 == Flow(start)
           f1 == Append1(f0, "SYSCALL", 0, t)
           f2 == Plain(f1, "MOV")
           f3 == SetHR(f2, 0)
           f4 == Pop(f3)
           f5 == Settled(f4)
<1>1. {"SYSCALL", "MOV"} \subseteq Opcodes /\ 0 \in Nat /\ 0 \in 0..0 /\ 0 \in Int /\ 1 \in Nat /\ 1 > 0 /\ 1 - 1 = 0
      /\ t \in Seq({Temp}) /\ 0 - 0 + Len(t) = 1
  BY DEF Opcodes
<1>2. x \in Context /\ x.level = 0 /\ x.args = 0 /\ HROf(x) = 0
  BY DEF Context, Root, HROf
<1>3. Caller \in Int
  BY BlockContext
<1>4. Ready({}, 0, {}) /\ Ready({}, 1, {})
  BY SoonReady
<1>5. FlowSound(f0, x, Caller, 0, {})
  <2>1. Cells(x, 0) = <<>>
    <3>1. Height(x, 0) = 0
      BY <1>2 DEF Height
    <3> QED BY <3>1 DEF Cells
  <2>2. start = {Shape(x, Caller, 0)}
    BY <2>1 DEF At, Shape
  <2>3. f0 = FlowOf(start, none, {})
    BY DEF Flow, FlowOf
  <2> DEFINE none1 == none
  <2> HIDE DEF f0, start, none, x
  <2>4. f0.at = start /\ f0.trail = none /\ f0.ahead = {}
    BY <2>3 DEF FlowOf
  <2>5. none \in Seq(Instruction)
    BY DEF none
  <2>6. Pending(f0, x, Caller, {})
    BY <2>4 DEF Pending
  <2> QED BY <2>2, <2>3, <2>4, <2>5, <2>6, FlowSoundIs
<1> HIDE DEF f0, t
<1>6. FlowSound(f1, x, Caller, 1, {})
  <2>1. FlowSound(f1, x, Caller, 0 - 0 + Len(t), {})
    BY <1>1, <1>2, <1>3, <1>4, <1>5, AppendSound
  <2> QED BY <1>1, <2>1
<1> HIDE DEF f1
<1>7. FlowSound(f2, x, Caller, 1, {})
  BY <1>1, <1>2, <1>3, <1>4, <1>6, PlainSound
<1> HIDE DEF f2
<1>8. FlowSound(f3, x, 0, 1, {})
  BY <1>1, <1>2, <1>3, <1>7, SetHRSound
<1> HIDE DEF f3
<1>9. FlowSound(f4, x, 0, 0, {})
  <2>1. FlowSound(f4, x, 0, 1 - 1, {})
    BY <1>1, <1>2, <1>4, <1>8, PopSound
  <2> QED BY <1>1, <2>1
<1> HIDE DEF f4
<1>10. FlowSound(f5, x, 0, 0, {})
  BY <1>1, <1>2, <1>4, <1>9, SettledSound
<1>11. NewCompiler = CompilerOf(8 * x.level + 0, x.level, none, none, f5)
  <2>1. NewCompiler = CompilerOf(0, 0, none, none, f5)
    BY DEF NewCompiler, CompilerOf, f4, f3, f2, f1, f0, t
  <2> HIDE DEF f5, none
  <2> QED BY <1>2, <2>1
<1>12. ScopesSound(none, x)
  <2>1. none = [i \in 1..0 |-> none[i]] /\ Len(none) = 0
    OBVIOUS
  <2> QED BY <1>2, <2>1 DEF ScopesSound
<1> HIDE DEF f5, none, x
<1>13. NewCompiler.scopes = none /\ NewCompiler.flow = f5
  BY <1>11, CompilerFields
<1>14. CompilerSound(NewCompiler, x, 0, 0, none, {})
  BY <1>2, <1>10, <1>11, <1>12, <1>13 DEF CompilerSound
<1> QED BY <1>14 DEF x, none

LEMMA OutputSound ==
  ASSUME NEW x \in Context, NEW saved, NEW c, CompilerSound(c, x, 1, 1, saved, {})
  PROVE  CompilerSound(OutputVariable(c), x, 0, 0, saved, {})
<1> DEFINE t == <<>>
           e == Emit(c, Append1(c.flow, "OUTPUT", 1, t), -1)
<1>1. "OUTPUT" \in Opcodes /\ 1 \in 0..1 /\ 1 \in Nat /\ -1 \in Int /\ 1 \in Int /\ t \in Seq({Temp})
      /\ 1 - 1 + Len(t) = 0 /\ 1 + (-1) = 0 /\ Ready({}, 1, {})
  BY SoonReady DEF Opcodes
<1> HIDE DEF t
<1>2. CompilerSound(e, x, 1 - 1 + Len(t), 1 + (-1), saved, {})
  BY <1>1, AppendC
<1> HIDE DEF e
<1>3. CompilerSound(e, x, 0, 0, saved, {})
  BY <1>1, <1>2
<1> QED BY <1>3 DEF OutputVariable, e, t

LEMMA RemoveSound ==
  ASSUME NEW x \in Context, NEW saved, NEW c, CompilerSound(c, x, 1, 1, saved, {}), LastPushed(c.flow, x, HROf(x), 1)
  PROVE  CompilerSound(RemoveInstruction(c), x, 0, 0, saved, {})
<1> DEFINE f == TakenBack(c.flow)
<1>1. FlowSound(c.flow, x, HROf(x), 1, {}) /\ HROf(x) \in Int
  BY CompilerSoundIs, ContextType
<1>2. 1 \in Nat /\ 1 > 0 /\ 1 - 1 = 0 /\ 1 + (-1) = 0 /\ -1 \in Int /\ 1 \in Int
  OBVIOUS
<1>3. FlowSound(f, x, HROf(x), 1 - 1, {})
  BY <1>1, <1>2, TakenBackSound
<1>4. FlowSound(f, x, HROf(x), 0, {})
  BY <1>2, <1>3
<1> HIDE DEF f
<1>5. CompilerSound(Emit(c, f, -1), x, 0, 1 + (-1), saved, {})
  BY <1>2, <1>4, EmitSound
<1>6. CompilerSound(Emit(c, f, -1), x, 0, 0, saved, {})
  BY <1>2, <1>5
<1> QED BY <1>6 DEF RemoveInstruction, f

LEMMA HaltSound ==
  ASSUME NEW x \in Context, NEW saved, NEW c, CompilerSound(c, x, 0, 0, saved, {})
  PROVE  CompilerSound(Halt(c), x, 0, 0, saved, {})
<1>1. "HLT" \in Opcodes /\ Ready({}, 0, {}) /\ 0 \in Nat /\ 0 \in Int
  BY SoonReady DEF Opcodes
<1> QED BY <1>1, GotoC DEF Halt

(* The code at the end of an operation.                                    *)
Kept(c) == [c EXCEPT !.flow = Settled(@)]
Cleared(c) == [c EXCEPT !.flow = [Settled(@) EXCEPT !.trail = <<>>]]

LEMMA OtherFlow ==
  ASSUME NEW x, NEW k, NEW d, NEW saved, NEW pending, NEW later, NEW c, NEW f,
         CompilerSound(c, x, k, d, saved, pending), FlowSound(f, x, HROf(x), k, later)
  PROVE  CompilerSound([c EXCEPT !.flow = f], x, k, d, saved, later) /\ [c EXCEPT !.flow = f].flow = f
<1> DEFINE e == [c EXCEPT !.flow = f]
           m == 8 * x.level + d
           l == x.level
           o == c.scopes
           g == c.flow
<1>1. c = CompilerOf(m, l, saved, o, g) /\ ScopesSound(o, x)
  BY DEF CompilerSound
<1> HIDE DEF m, l, o, g
<1>2. [CompilerOf(m, l, saved, o, g) EXCEPT !.flow = f] = CompilerOf(m, l, saved, o, f)
  BY DEF CompilerOf
<1>3. e = CompilerOf(m, l, saved, o, f)
  BY <1>1, <1>2
<1> HIDE DEF e
<1>4. e.scopes = o /\ e.flow = f
  BY <1>3, CompilerFields
<1>5. CompilerSound(e, x, k, d, saved, later)
  BY <1>1, <1>3, <1>4 DEF CompilerSound, m, l
<1> QED BY <1>4, <1>5 DEF e

LEMMA EndSound ==
  ASSUME NEW x \in Context, NEW k \in Nat, NEW d, NEW saved, NEW pending, Ready(pending, k, {}), NEW c,
         CompilerSound(c, x, k, d, saved, pending)
  PROVE  /\ CompilerSound(Kept(c), x, k, d, saved, {}) /\ Kept(c).flow.trail = Cut(c.flow.trail)
         /\ CompilerSound(Cleared(c), x, k, d, saved, {}) /\ Cleared(c).flow.trail = <<>>
<1> DEFINE f == Settled(c.flow)
           g == [f EXCEPT !.trail = <<>>]
<1>1. FlowSound(c.flow, x, HROf(x), k, pending) /\ HROf(x) \in Int
  BY CompilerSoundIs, ContextType
<1>2. FlowSound(f, x, HROf(x), k, {}) /\ FlowSound(g, x, HROf(x), k, {}) /\ f.trail = Cut(c.flow.trail) /\ g.trail = <<>>
  BY <1>1, SettledSound
<1>3. Kept(c) = [c EXCEPT !.flow = f] /\ Cleared(c) = [c EXCEPT !.flow = g]
  BY DEF Kept, Cleared
<1> HIDE DEF f, g
<1>4. CompilerSound([c EXCEPT !.flow = f], x, k, d, saved, {}) /\ [c EXCEPT !.flow = f].flow = f
  BY <1>2, OtherFlow
<1>5. CompilerSound([c EXCEPT !.flow = g], x, k, d, saved, {}) /\ [c EXCEPT !.flow = g].flow = g
  BY <1>2, OtherFlow
<1> QED BY <1>2, <1>3, <1>4, <1>5

(* What is known of the last instruction stays so.                         *)
LEMMA TopKept ==
  ASSUME NEW x, NEW k, NEW f, NEW g, f.trail \in Seq(Instruction), g.trail = Cut(f.trail), TopKnown(f, x, k)
  PROVE  TopKnown(g, x, k)
<1>1. CASE f.trail = <<>>
  BY <1>1 DEF Cut, TopKnown
<1>2. CASE f.trail # <<>>
  <2>1. g.trail = <<Last(f.trail)>> /\ Last(f.trail) = f.trail[Len(f.trail)]
    BY <1>2 DEF Cut, Last
  <2>2. Len(g.trail) = 1 /\ g.trail[1] = f.trail[Len(f.trail)] /\ g.trail # <<>>
    BY <2>1
  <2> QED BY <1>2, <2>2 DEF TopKnown, LastPushed
<1> QED BY <1>1, <1>2

-----------------------------------------------------------------------------
(* The open expressions: a frame is opened, closed and changed.            *)

Kinds == {"statement", "logical", "unary", "function", "variable"}

LEMMA OneType == \A b \in BOOLEAN : One(b) \in 0..1
BY DEF One

LEMMA InnerType ==
  ASSUME NEW e, NEW x, NEW k, InnerSound(e, x, k)
  PROVE  e.k \in {"logical", "unary", "function", "variable"} /\ Held(e) \in Nat
<1>1. CASE LogicalSound(e, x, k)
  BY <1>1, OneType DEF LogicalSound, Held
<1>2. CASE e = [k |-> "unary"]
  BY <1>2 DEF Held
<1>3. CASE e \in [k : {"function"}, n : Nat \ {0}]
  BY <1>3 DEF Held
<1>4. CASE e \in [k : {"variable"}, complex : BOOLEAN, block : BOOLEAN, iterator : BOOLEAN]
  <2>1. e.k = "variable"
    BY <1>4
  <2>2. One(e.complex /\ ~e.block) \in Nat
    BY DEF One
  <2> QED BY <2>1, <2>2 DEF Held
<1> QED BY <1>1, <1>2, <1>3, <1>4 DEF InnerSound

LEMMA FrameOf ==
  ASSUME NEW frames, NEW x, NEW K, FramesSound(frames, x, K)
  PROVE  /\ IsList(frames, Len(frames)) /\ Len(frames) \in Nat /\ K[0] = 0
         /\ frames # <<>> <=> Len(frames) > 0
         /\ \A i \in 1..Len(frames) : K[i] = K[i - 1] + Held(frames[i]) /\ K[i] \in Int
         /\ Len(frames) > 0 => StatementSound(frames[1])
         /\ \A i \in 2..Len(frames) :
              K[i - 1] \in Nat /\ InnerSound(frames[i], x, K[i - 1]) /\ Belongs(frames[i - 1], frames[i])
<1> DEFINE n == Len(frames)
<1>1. frames = [i \in 1..n |-> frames[i]] /\ n \in Nat
  BY DEF FramesSound
<1>2. IsList(frames, n)
  BY <1>1 DEF IsList
<1>3. frames # <<>> <=> n > 0
  <2>1. frames \in Seq({frames[i] : i \in 1..n})
    BY <1>1, ListType
  <2> DEFINE T == {frames[i] : i \in 1..n}
  <2> HIDE DEF T
  <2> QED BY <2>1 DEF T
<1>4. n > 0 => 1 \in 1..n
  BY <1>1
<1>5. \A i \in 2..n : i \in 1..n /\ i # 1
  BY <1>1
<1>6. \A i \in 1..n : IF i = 1 THEN StatementSound(frames[i])
                      ELSE K[i - 1] \in Nat /\ InnerSound(frames[i], x, K[i - 1]) /\ Belongs(frames[i - 1], frames[i])
  BY DEF FramesSound
<1> HIDE DEF n
<1>7. \A i \in 2..n : K[i - 1] \in Nat /\ InnerSound(frames[i], x, K[i - 1]) /\ Belongs(frames[i - 1], frames[i])
  BY <1>5, <1>6
<1>8. n > 0 => StatementSound(frames[1])
  BY <1>4, <1>6
<1>9. K[0] = 0 /\ \A i \in 1..n : K[i] = K[i - 1] + Held(frames[i]) /\ K[i] \in Int
  BY DEF FramesSound, n
<1> QED BY <1>1, <1>2, <1>3, <1>7, <1>8, <1>9 DEF n

LEMMA FramesAre ==
  ASSUME NEW n \in Nat, NEW frames, IsList(frames, n), NEW x, NEW K, K[0] = 0,
         \A i \in 1..n : K[i] = K[i - 1] + Held(frames[i]) /\ K[i] \in Int,
         n > 0 => StatementSound(frames[1]),
         \A i \in 2..n :
              K[i - 1] \in Nat /\ InnerSound(frames[i], x, K[i - 1]) /\ Belongs(frames[i - 1], frames[i])
  PROVE  FramesSound(frames, x, K)
<1>1. frames = [i \in 1..n |-> frames[i]] /\ Len(frames) = n
  BY DEF IsList
<1>2. \A i \in 1..n : i = 1 \/ i \in 2..n
  OBVIOUS
<1>3. 1 \in 1..n => n > 0
  OBVIOUS
<1> QED BY <1>1, <1>2, <1>3 DEF FramesSound

(* What is done with the innermost frame: the number of frames and of the  *)
(* values under them, the outermost frame stays.                           *)
Standing(t, x, L, n, first) ==
  /\ FramesSound(t, x, L) /\ Len(t) = n /\ n \in Nat /\ n > 0 /\ t # <<>> /\ t[1] = first

Pushed(t, x, L, s, K, n, first, e) ==
  /\ Standing(t, x, L, n + 1, first)
  /\ \A i \in 0..n : L[i] = K[i]
  /\ L[n + 1] = K[n] + Held(e) /\ t[n + 1] = e
  /\ \A i \in 1..n : t[i] = s[i]
Popped(t, x, s, K, n, first) ==
  /\ Standing(t, x, K, n - 1, first) /\ K[n - 1] \in Nat /\ InnerSound(s[n], x, K[n - 1])
  /\ K[n] = K[n - 1] + Held(s[n])
  /\ Last(s) = s[n] /\ Belongs(s[n - 1], s[n])
  /\ \A i \in 1..n - 1 : t[i] = s[i]

LEMMA FramePushed ==
  ASSUME NEW x, NEW s, NEW K, NEW n, NEW first, Standing(s, x, K, n, first),
         NEW e, K[n] \in Nat, InnerSound(e, x, K[n]), Belongs(s[n], e)
  PROVE  \E L : Pushed(Append(s, e), x, L, s, K, n, first, e)
<1> DEFINE m == n + 1
           t == Append(s, e)
           L == [i \in 0..m |-> IF i = m THEN K[n] + Held(e) ELSE K[i]]
<1>1. /\ IsList(s, n) /\ n \in Nat /\ n > 0 /\ K[0] = 0 /\ s[1] = first
      /\ \A i \in 1..n : K[i] = K[i - 1] + Held(s[i]) /\ K[i] \in Int
      /\ StatementSound(s[1])
      /\ \A i \in 2..n : K[i - 1] \in Nat /\ InnerSound(s[i], x, K[i - 1]) /\ Belongs(s[i - 1], s[i])
  <2>1. FramesSound(s, x, K) /\ Len(s) = n /\ n \in Nat /\ n > 0 /\ s[1] = first
    BY DEF Standing
  <2> QED BY <2>1, FrameOf
<1>2. Longer(t, s, n, e)
  BY <1>1, AppendList
<1>3. IsList(t, m) /\ t[m] = e /\ \A i \in 1..n : t[i] = s[i]
  BY <1>2 DEF Longer
<1>4. L[m] = K[n] + Held(e) /\ \A i \in 0..n : L[i] = K[i]
  BY <1>1
<1>5. Held(e) \in Nat
  BY InnerType
<1> HIDE DEF t, L
<1>6. m \in Nat /\ m - 1 = n /\ m > 0 /\ m # 1 /\ \A i \in 1..m : i = m \/ (i \in 1..n /\ i \in 0..n /\ i - 1 \in 0..n)
  BY <1>1
<1>7. \A i \in 2..m : i = m \/ (i \in 2..n /\ i \in 1..n /\ i - 1 \in 1..n /\ i - 1 \in 0..n)
  BY <1>1
<1>8. n \in 1..n /\ 1 \in 1..n /\ 0 \in 0..n /\ n \in 0..n
  BY <1>1
<1> HIDE DEF m
<1>9. L[0] = 0
  BY <1>1, <1>4, <1>8
<1>10. \A i \in 1..m : L[i] = L[i - 1] + Held(t[i]) /\ L[i] \in Int
  <2> TAKE i \in 1..m
  <2>1. CASE i = m
    <3>1. L[i] = K[n] + Held(e) /\ L[i - 1] = K[n] /\ t[i] = e
      BY <1>3, <1>4, <1>6, <1>8, <2>1
    <3> QED BY <1>5, <3>1
  <2>2. CASE i # m
    BY <1>1, <1>3, <1>4, <1>6, <2>2
  <2> QED BY <2>1, <2>2
<1>11. StatementSound(t[1]) /\ t[1] = first
  BY <1>1, <1>3, <1>8
<1>12. \A i \in 2..m : L[i - 1] \in Nat /\ InnerSound(t[i], x, L[i - 1]) /\ Belongs(t[i - 1], t[i])
  <2> TAKE i \in 2..m
  <2>1. CASE i = m
    BY <1>3, <1>4, <1>6, <1>8, <2>1
  <2>2. CASE i # m
    <3>1. i \in 2..n /\ L[i - 1] = K[i - 1] /\ t[i] = s[i] /\ t[i - 1] = s[i - 1]
      BY <1>3, <1>4, <1>7, <2>2
    <3> QED BY <1>1, <3>1
  <2> QED BY <2>1, <2>2
<1>13. FramesSound(t, x, L)
  BY <1>3, <1>6, <1>9, <1>10, <1>11, <1>12, FramesAre
<1>14. Standing(t, x, L, m, first)
  <2>1. Len(t) = m /\ t # <<>>
    BY <1>3, <1>6, <1>13, FrameOf DEF IsList
  <2> QED BY <1>6, <1>11, <1>13, <2>1 DEF Standing
<1>15. Pushed(t, x, L, s, K, n, first, e)
  BY <1>3, <1>4, <1>14 DEF Pushed, m
<1> QED BY <1>15 DEF t

LEMMA FramePopped ==
  ASSUME NEW x, NEW s, NEW K, NEW n, NEW first, Standing(s, x, K, n, first), n > 1
  PROVE  Popped(Front(s), x, s, K, n, first)
<1> DEFINE m == n - 1
           t == Front(s)
<1>1. /\ IsList(s, n) /\ n \in Nat /\ n > 0 /\ K[0] = 0 /\ s[1] = first
      /\ \A i \in 1..n : K[i] = K[i - 1] + Held(s[i]) /\ K[i] \in Int
      /\ StatementSound(s[1])
      /\ \A i \in 2..n : K[i - 1] \in Nat /\ InnerSound(s[i], x, K[i - 1]) /\ Belongs(s[i - 1], s[i])
  <2>1. FramesSound(s, x, K) /\ Len(s) = n /\ n \in Nat /\ n > 0 /\ s[1] = first
    BY DEF Standing
  <2> QED BY <2>1, FrameOf
<1>2. Shorter(t, s, n) /\ Last(s) = s[n]
  BY <1>1, FrontList
<1> HIDE DEF t
<1>3. IsList(t, m) /\ \A i \in 1..m : t[i] = s[i]
  BY <1>2 DEF Shorter
<1>4. m \in Nat /\ m > 0 /\ n \in 2..n /\ n \in 1..n /\ 1 \in 1..m /\ (\A i \in 1..m : i \in 1..n) /\ (\A i \in 2..m : i \in 2..n /\ i \in 1..m /\ i - 1 \in 1..m)
  BY <1>1
<1>5. K[m] \in Nat /\ InnerSound(s[n], x, K[m]) /\ Belongs(s[m], s[n]) /\ K[n] = K[m] + Held(s[n])
  BY <1>1, <1>4
<1> HIDE DEF m
<1>6. \A i \in 1..m : K[i] = K[i - 1] + Held(t[i]) /\ K[i] \in Int
  BY <1>1, <1>3, <1>4
<1>7. \A i \in 2..m : K[i - 1] \in Nat /\ InnerSound(t[i], x, K[i - 1]) /\ Belongs(t[i - 1], t[i])
  BY <1>1, <1>3, <1>4
<1>8. StatementSound(t[1]) /\ t[1] = first
  BY <1>1, <1>3, <1>4
<1>9. FramesSound(t, x, K)
  BY <1>1, <1>3, <1>4, <1>6, <1>7, <1>8, FramesAre
<1>10. Standing(t, x, K, m, first)
  <2>1. Len(t) = m /\ t # <<>>
    BY <1>3, <1>4, <1>9, FrameOf DEF IsList
  <2> QED BY <1>4, <1>8, <1>9, <2>1 DEF Standing
<1>11. Popped(t, x, s, K, n, first)
  BY <1>2, <1>3, <1>5, <1>10 DEF Popped, m
<1> QED BY <1>11 DEF t

Changed(t, x, L, s, K, n, first, e) ==
  /\ Standing(t, x, L, n, first)
  /\ L[n] = K[n - 1] + Held(e) /\ L[n - 1] = K[n - 1] /\ t[n] = e /\ t[n - 1] = s[n - 1]

LEMMA FrameReplaced ==
  ASSUME NEW x, NEW s, NEW K, NEW n, NEW first, Standing(s, x, K, n, first), n > 1,
         NEW e, InnerSound(e, x, K[n - 1]), Belongs(s[n - 1], e), NEW t, t = Front(s) \o <<e>>
  PROVE  \E L : Changed(t, x, L, s, K, n, first, e)
<1> DEFINE m == n - 1
           f == Front(s)
<1>1. n \in Nat /\ IsList(s, n)
  <2>1. FramesSound(s, x, K) /\ Len(s) = n /\ n \in Nat
    BY DEF Standing
  <2> QED BY <2>1, FrameOf
<1>2. m \in Nat /\ m > 0 /\ m + 1 = n /\ n > 0 /\ m \in 1..m /\ m \in 0..m
  BY <1>1
<1>3. /\ Standing(f, x, K, m, first) /\ K[m] \in Nat
      /\ \A i \in 1..m : f[i] = s[i]
  <2>1. Popped(f, x, s, K, n, first)
    BY FramePopped
  <2> HIDE DEF f
  <2> QED BY <2>1 DEF Popped
<1>4. t = Append(f, e)
  BY <1>1, <1>2, ReplacedList
<1>5. f[m] = s[m] /\ InnerSound(e, x, K[m]) /\ Belongs(s[m], e)
  BY <1>2, <1>3
<1> HIDE DEF f, m
<1>6. PICK L : Pushed(t, x, L, f, K, m, first, e)
  BY <1>3, <1>4, <1>5, FramePushed
<1>7. /\ Standing(t, x, L, n, first)
      /\ L[n] = K[m] + Held(e) /\ L[m] = K[m] /\ t[n] = e /\ t[m] = s[m]
  BY <1>2, <1>5, <1>6 DEF Pushed
<1> QED BY <1>7 DEF Changed, m

LEMMA FrameFirst ==
  ASSUME NEW x, NEW e, StatementSound(e)
  PROVE  \E L : Standing(<<e>>, x, L, 1, e) /\ L[1] = Held(e) /\ Held(e) \in Int
<1> DEFINE t == <<e>>
           L == [i \in 0..1 |-> IF i = 0 THEN 0 ELSE Held(e)]
<1>1. IsList(t, 1) /\ t[1] = e /\ t # <<>>
  BY DEF IsList
<1>2. Held(e) \in Int
  <2>1. CASE e.of = "call"
    <3>1. e.bIsVariable \in BOOLEAN /\ e.iArgCount \in Nat /\ e.k = "statement"
      BY <2>1 DEF StatementSound, CallSound
    <3>2. One(e.bIsVariable) \in Nat
      BY DEF One
    <3>3. e.iArgCount - 1 + One(e.bIsVariable) \in Int
      BY <3>1, <3>2
    <3> QED BY <2>1, <3>1, <3>3 DEF Held
  <2>2. CASE e.of # "call"
    BY <2>2 DEF StatementSound, Held
  <2> QED BY <2>1, <2>2
<1>3. L[0] = 0 /\ L[1] = Held(e)
  OBVIOUS
<1> HIDE DEF t, L
<1>4. \A i \in 1..1 : L[i] = L[i - 1] + Held(t[i]) /\ L[i] \in Int
  BY <1>1, <1>2, <1>3
<1>5. FramesSound(t, x, L)
  <2>1. \A i \in 2..1 : FALSE
    OBVIOUS
  <2> QED BY <1>1, <1>3, <1>4, <2>1, FramesAre
<1>6. Standing(t, x, L, 1, e)
  BY <1>1, <1>5 DEF Standing, IsList
<1> QED BY <1>2, <1>3, <1>6 DEF t

LEMMA NoFrames ==
  ASSUME NEW x
  PROVE  \E L : FramesSound(<<>>, x, L) /\ L[0] = 0
<1> DEFINE L == [i \in {0} |-> 0]
           none == <<>>
<1>1. L[0] = 0
  OBVIOUS
<1>2. none = [i \in 1..0 |-> none[i]] /\ Len(none) = 0
  OBVIOUS
<1>3. IsList(none, 0)
  BY <1>2 DEF IsList
<1> HIDE DEF L, none
<1>4. (\A i \in 1..0 : FALSE) /\ (\A i \in 2..0 : FALSE) /\ ~(0 > 0) /\ 0 \in Nat
  OBVIOUS
<1>5. FramesSound(none, x, L)
  BY <1>1, <1>3, <1>4, FramesAre
<1> QED BY <1>1, <1>5 DEF none

(* How the actions write it. *)
LEMMA TwoMore ==
  ASSUME NEW n \in Nat, NEW s, IsList(s, n), NEW a, NEW b
  PROVE  s \o <<a, b>> = Append(Append(s, a), b)
<1> DEFINE T == {s[i] : i \in 1..n} \cup {a, b}
           w == s \o <<a, b>>
           v == Append(Append(s, a), b)
<1>1. s \in Seq({s[i] : i \in 1..n}) /\ Len(s) = n
  BY ListType DEF IsList
<1>2. s \in Seq(T) /\ a \in T /\ b \in T
  BY <1>1
<1> HIDE DEF T
<1>3. <<a, b>> \in Seq(T) /\ Len(<<a, b>>) = 2 /\ <<a, b>>[1] = a /\ <<a, b>>[2] = b
  BY <1>2
<1>4. /\ w \in Seq(T) /\ Len(w) = n + 2 /\ \A i \in 1..n : w[i] = s[i]
      /\ w[n + 1] = a /\ w[n + 2] = b
  <2> DEFINE ab == <<a, b>>
  <2>1. w \in Seq(T) /\ Len(w) = Len(s) + Len(ab) /\ (\A i \in 1..Len(s) : w[i] = s[i]) /\ \A i \in 1..Len(ab) : w[Len(s) + i] = ab[i]
    BY <1>2, <1>3, Joined
  <2> HIDE DEF w
  <2>2. 1 \in 1..Len(ab) /\ 2 \in 1..Len(ab)
    BY <1>3
  <2> QED BY <1>1, <1>3, <2>1, <2>2
<1>5. /\ v \in Seq(T) /\ Len(v) = n + 2 /\ \A i \in 1..n : v[i] = s[i]
      /\ v[n + 1] = a /\ v[n + 2] = b
  <2> DEFINE u == Append(s, a)
  <2>1. u \in Seq(T) /\ Len(u) = n + 1 /\ (\A i \in 1..n : u[i] = s[i]) /\ u[n + 1] = a
    BY <1>1, <1>2
  <2>2. v = Append(u, b)
    OBVIOUS
  <2> HIDE DEF u, v
  <2>3. v \in Seq(T) /\ Len(v) = n + 1 + 1 /\ (\A i \in 1..n + 1 : v[i] = u[i]) /\ v[n + 1 + 1] = b
    BY <1>2, <2>1, <2>2
  <2> QED BY <2>1, <2>3
<1> HIDE DEF w, v
<1>6. \A i \in 1..n + 2 : i \in 1..n \/ i = n + 1 \/ i = n + 2
  OBVIOUS
<1>7. \A i \in 1..Len(w) : w[i] = v[i]
  BY <1>4, <1>5, <1>6
<1>8. w = v
  BY <1>4, <1>5, <1>7
<1> QED BY <1>8 DEF w, v

LEMMA EndedTwo ==
  ASSUME NEW n \in Nat, n > 1, NEW s, IsList(s, n)
  PROVE  SubSeq(s, 1, n - 2) = Front(Front(s)) /\ SubSeq(s, 1, n - 1) = Front(s)
<1> DEFINE m == n - 1
           t == Front(s)
<1>1. m \in Nat /\ m > 0 /\ n > 0 /\ m - 1 = n - 2 /\ Len(s) = n
  BY DEF IsList
<1>2. IsList(t, m) /\ \A i \in 1..m : t[i] = s[i]
  BY <1>1, FrontList DEF Shorter
<1>3. s \in Seq({s[i] : i \in 1..n})
  BY ListType DEF IsList
<1>4. t = SubSeq(s, 1, n - 1)
  BY <1>1 DEF Front
<1> HIDE DEF t
<1>5. Len(t) = m
  BY <1>2 DEF IsList
<1>6. Front(t) = SubSeq(t, 1, n - 2)
  BY <1>1, <1>5 DEF Front
<1>7. t \in Seq({t[i] : i \in 1..m})
  BY <1>1, <1>2, ListType DEF IsList
<1> HIDE DEF m
<1>8. SubSeq(t, 1, n - 2) = SubSeq(s, 1, n - 2)
  <2> DEFINE S == {s[i] : i \in 1..n}
             T == {t[i] : i \in 1..m}
             u == SubSeq(s, 1, n - 2)
             v == SubSeq(t, 1, n - 2)
             p == n - 2
  <2>1. p \in Nat /\ p <= m /\ p <= n /\ Len(s) = n /\ Len(t) = m /\ \A i \in 1..p : i \in 1..m
    BY <1>1, <1>5
  <2>2. s \in Seq(S) /\ t \in Seq(T)
    BY <1>3, <1>7
  <2> HIDE DEF S, T, p
  <2>3. Len(SubSeq(s, 1, p)) = p /\ SubSeq(s, 1, p) \in Seq(S) /\ \A i \in 1..p : SubSeq(s, 1, p)[i] = s[i]
    BY <2>1, <2>2
  <2>4. Len(SubSeq(t, 1, p)) = p /\ SubSeq(t, 1, p) \in Seq(T) /\ \A i \in 1..p : SubSeq(t, 1, p)[i] = t[i]
    BY <1>1, <2>1, <2>2
  <2>5. \A i \in 1..p : SubSeq(s, 1, p)[i] = SubSeq(t, 1, p)[i]
    BY <1>2, <2>1, <2>3, <2>4
  <2>6. SubSeq(s, 1, p) = SubSeq(t, 1, p)
    <3> DEFINE a == SubSeq(s, 1, p)
               b == SubSeq(t, 1, p)
    <3>1. Len(a) = Len(b) /\ \A i \in 1..Len(a) : a[i] = b[i]
      BY <2>3, <2>4, <2>5
    <3> HIDE DEF a, b
    <3>2. a \in Seq(S) /\ b \in Seq(T)
      BY <2>3, <2>4 DEF a, b
    <3>3. a = b
      BY <3>1, <3>2
    <3> QED BY <3>3 DEF a, b
  <2> QED BY <2>6 DEF p
<1> QED BY <1>4, <1>6, <1>8 DEF t

-----------------------------------------------------------------------------
(* A step of an expression: the files stay as they are.                    *)

LEMMA HereType ==
  ASSUME NEW files, NEW G, FilesSound(files, G)
  PROVE  /\ Here(files, G) \in Context
         /\ IsList(files, Len(files)) /\ Len(files) \in Nat /\ Len(files) > 0
         /\ Last(files) = files[Len(files)] /\ FileSound(Last(files), G[Len(files)])
         /\ Here(files, G) = G[Len(files)][Len(Last(files).ops)]
<1> DEFINE n == Len(files)
           p == files[n]
           g == G[n]
<1>1. files = [i \in 1..n |-> files[i]] /\ n \in 1..MaxLevel /\ \A i \in 1..n : FileSound(files[i], G[i])
  BY DEF FilesSound
<1>2. n \in Nat /\ n > 0 /\ n \in 1..n
  BY <1>1, ParserBounds
<1>3. FileSound(p, g)
  BY <1>1, <1>2
<1>4. Last(files) = p
  BY DEF Last
<1>5. Here(files, G) = g[Len(p.ops)]
  BY DEF Here, Behind
<1>6. IsList(files, n)
  BY <1>1 DEF IsList
<1> HIDE DEF n, p, g
<1>7. Len(p.ops) \in Nat /\ OpsSound(p.ops, g)
  BY <1>3 DEF FileSound
<1>8. g[Len(p.ops)] \in Context
  BY <1>7 DEF OpsSound
<1> QED BY <1>2, <1>3, <1>4, <1>5, <1>6, <1>8 DEF n, p, g

(* The expression that is read, on n frames, with k values.                *)
Reading(G, K, x, n, k, saved) ==
  /\ FilesSound(parsers, G) /\ x = Here(parsers, G) /\ x \in Context
  /\ Standing(expr, x, K, n, expr[1]) /\ expr[n] = Innermost
  /\ AtSound(at, expr)
  /\ k = K[n] + Valued(at) /\ k \in Nat /\ K[n] \in Int
  /\ saved = SavedDepths(x, expr)
  /\ CompilerSound(oCompiler, x, k, k, saved, {}) /\ Compiling(oCompiler, x, k, k, saved)
  /\ TrailSound(at, oCompiler.flow, x, k) /\ ElsifSound(expr, parsers)
  /\ SizesSound(mBlockArgSizes) /\ eResultOperator \in {"constant", "variable"}

LEMMA ReadingNow ==
  ASSUME IInv, expr # <<>>
  PROVE  \E G, K, x, n, k, saved : Reading(G, K, x, n, k, saved)
<1>1. PICK G, K : Sound(G, K)
  BY DEF IInv
<1> DEFINE x == Here(parsers, G)
           n == Len(expr)
           k == K[n] + Valued(at)
           saved == SavedDepths(x, expr)
<1>2. /\ FilesSound(parsers, G) /\ ExprSound(x, expr, K, at, oCompiler) /\ ElsifSound(expr, parsers)
      /\ SizesSound(mBlockArgSizes) /\ eResultOperator \in {"constant", "variable"}
  BY <1>1 DEF Sound
<1>3. /\ FramesSound(expr, x, K) /\ AtSound(at, expr) /\ k \in Nat
      /\ CompilerSound(oCompiler, x, k, k, saved, {}) /\ TrailSound(at, oCompiler.flow, x, k)
  BY <1>2 DEF ExprSound
<1>4. x \in Context
  BY <1>2, HereType
<1>5. n \in Nat /\ n > 0 /\ K[n] \in Int
  <2> HIDE DEF x
  <2>1. Len(expr) \in Nat /\ Len(expr) > 0 /\ \A i \in 1..Len(expr) : K[i] \in Int
    BY <1>3, FrameOf
  <2> QED BY <2>1
<1>6. expr[n] = Innermost
  BY DEF Innermost, Last
<1> HIDE DEF x, n
<1>7. Standing(expr, x, K, n, expr[1])
  BY <1>3, <1>5 DEF Standing, n
<1> HIDE DEF k, saved
<1>8. Compiling(oCompiler, x, k, k, saved)
  BY <1>3, StartCompiling
<1>9. x = Here(parsers, G) /\ k = K[n] + Valued(at) /\ saved = SavedDepths(x, expr)
  BY DEF x, k, saved
<1>10. Reading(G, K, x, n, k, saved)
  BY <1>2, <1>3, <1>4, <1>5, <1>6, <1>7, <1>8, <1>9 DEF Reading
<1> QED BY <1>10

LEMMA ReadOn ==
  ASSUME NEW G, NEW K, NEW x, NEW n, NEW k, NEW saved, Reading(G, K, x, n, k, saved), Keep,
         NEW L, NEW m, NEW j \in Nat, Standing(expr', x, L, m, expr[1]), AtSound(at', expr'),
         j = L[m] + Valued(at'), CompilerSound(oCompiler', x, j, j, saved, {}),
         at' = "factor" => TopKnown(oCompiler'.flow, x, j),
         eResultOperator' \in {"constant", "variable"}
  PROVE  IInv'
<1>1. /\ FilesSound(parsers, G) /\ x = Here(parsers, G) /\ SizesSound(mBlockArgSizes)
      /\ saved = SavedDepths(x, expr) /\ Standing(expr, x, K, n, expr[1])
  BY DEF Reading
<1>2. parsers' = parsers /\ mBlockArgSizes' = mBlockArgSizes
  BY DEF Keep
<1>3. FilesSound(parsers', G) /\ x = Here(parsers', G) /\ SizesSound(mBlockArgSizes')
  BY <1>1, <1>2
<1>4. expr # <<>> /\ expr' # <<>> /\ expr'[1] = expr[1] /\ Len(expr') = m /\ FramesSound(expr', x, L)
  BY <1>1 DEF Standing
<1>5. SavedDepths(x, expr') = saved
  BY <1>1, <1>4 DEF SavedDepths
<1>6. TrailSound(at', oCompiler'.flow, x, j)
  BY DEF TrailSound
<1>7. ExprSound(x, expr', L, at', oCompiler')
  BY <1>4, <1>5, <1>6 DEF ExprSound
<1>8. ElsifSound(expr', parsers')
  <2>1. ElsifSound(expr, parsers)
    BY DEF Reading
  <2> QED BY <1>2, <1>4, <2>1 DEF ElsifSound
<1>9. Sound(G, L)'
  BY <1>3, <1>7, <1>8 DEF Sound
<1> QED BY <1>9 DEF IInv

(* Where the parser is when there are expressions.                         *)
LEMMA Inside1 ==
  ASSUME NEW frames, frames # <<>>
  PROVE  AtSound("operand", frames) /\ AtSound("factor", frames)
BY DEF AtSound

LEMMA CompiledSound ==
  ASSUME NEW x \in Context, NEW j \in Nat, NEW d, NEW saved, NEW c, Compiling(c, x, j, d, saved), Compile(c)
  PROVE  CompilerSound(oCompiler', x, j, d, saved, {}) /\ TopKnown(oCompiler'.flow, x, j)
<1>1. oCompiler' = Cleared(c)
  BY DEF Compile, Cleared
<1>2. CompilerSound(c, x, j, d, saved, Soon(j)) /\ Ready(Soon(j), j, {})
  BY SoonReady DEF Compiling
<1>3. CompilerSound(Cleared(c), x, j, d, saved, {}) /\ Cleared(c).flow.trail = <<>>
  BY <1>2, EndSound
<1> QED BY <1>1, <1>3 DEF TopKnown

LEMMA KeptSound ==
  ASSUME NEW x \in Context, NEW j \in Nat, NEW d, NEW saved, NEW c, Compiling(c, x, j, d, saved), CompileKeeping(c),
         TopKnown(c.flow, x, j)
  PROVE  CompilerSound(oCompiler', x, j, d, saved, {}) /\ TopKnown(oCompiler'.flow, x, j)
<1>1. oCompiler' = Kept(c)
  BY DEF CompileKeeping, Kept
<1>2. CompilerSound(c, x, j, d, saved, Soon(j)) /\ Ready(Soon(j), j, {})
  BY SoonReady DEF Compiling
<1>3. CompilerSound(Kept(c), x, j, d, saved, {}) /\ Kept(c).flow.trail = Cut(c.flow.trail)
  BY <1>2, EndSound
<1>4. FlowSound(c.flow, x, HROf(x), j, Soon(j))
  BY <1>2, CompilerSoundIs
<1>5. c.flow.trail \in Seq(Instruction)
  BY <1>4, FlowSoundIs
<1> DEFINE f == c.flow
           g == Kept(c).flow
<1>6. f.trail \in Seq(Instruction) /\ g.trail = Cut(f.trail) /\ TopKnown(f, x, j)
  BY <1>3, <1>5
<1> HIDE DEF f, g
<1>7. TopKnown(g, x, j)
  BY <1>6, TopKept
<1> QED BY <1>1, <1>3, <1>7 DEF g

(* Only the outermost frame is a statement.                                *)
LEMMA InnerNow ==
  ASSUME NEW G, NEW K, NEW x, NEW n, NEW k, NEW saved, Reading(G, K, x, n, k, saved)
  PROVE  /\ n = 1 => StatementSound(Innermost) /\ Innermost.k = "statement" /\ k = Held(Innermost) + Valued(at)
         /\ n # 1 => /\ n > 1 /\ n - 1 > 0 /\ Popped(Front(expr), x, expr, K, n, expr[1])
                     /\ Innermost.k \in {"logical", "unary", "function", "variable"}
                     /\ InnerSound(Innermost, x, K[n - 1]) /\ K[n - 1] \in Nat
                     /\ k = K[n - 1] + Held(Innermost) + Valued(at) /\ Held(Innermost) \in Nat
                     /\ Belongs(expr[n - 1], Innermost)
         /\ n \in Nat /\ n > 0 /\ IsList(expr, n) /\ Len(expr) = n /\ expr # <<>>
<1>1. /\ Standing(expr, x, K, n, expr[1]) /\ expr[n] = Innermost /\ k = K[n] + Valued(at)
  BY DEF Reading
<1>2. FramesSound(expr, x, K) /\ Len(expr) = n /\ n \in Nat /\ n > 0 /\ expr # <<>>
  BY <1>1 DEF Standing
<1>3. IsList(expr, n) /\ StatementSound(expr[1]) /\ K[0] = 0 /\ \A i \in 1..n : K[i] = K[i - 1] + Held(expr[i])
  BY <1>2, FrameOf
<1>4. ASSUME n = 1
      PROVE  StatementSound(Innermost) /\ Innermost.k = "statement" /\ k = Held(Innermost) + Valued(at)
  <2>1. K[1] = K[0] + Held(expr[1]) /\ StatementSound(Innermost) /\ Innermost = expr[1]
    BY <1>1, <1>2, <1>3, <1>4
  <2>2. Innermost.k = "statement"
    BY <2>1 DEF StatementSound
  <2>3. Held(Innermost) \in Int
    BY <2>1, FrameFirst
  <2> DEFINE h == Held(Innermost)
  <2> HIDE DEF h
  <2>4. K[1] = 0 + h /\ h \in Int
    BY <1>3, <2>1, <2>3 DEF h
  <2>5. K[1] = h
    BY <2>4
  <2> QED BY <1>1, <1>4, <2>1, <2>2, <2>5 DEF h
<1>5. ASSUME n # 1
      PROVE  /\ n > 1 /\ n - 1 > 0 /\ Popped(Front(expr), x, expr, K, n, expr[1])
             /\ Innermost.k \in {"logical", "unary", "function", "variable"}
             /\ InnerSound(Innermost, x, K[n - 1]) /\ K[n - 1] \in Nat
             /\ k = K[n - 1] + Held(Innermost) + Valued(at) /\ Held(Innermost) \in Nat
             /\ Belongs(expr[n - 1], Innermost)
  <2>1. n > 1 /\ n - 1 > 0
    BY <1>2, <1>5
  <2>2. Popped(Front(expr), x, expr, K, n, expr[1])
    BY <1>1, <2>1, FramePopped
  <2>3. InnerSound(Innermost, x, K[n - 1]) /\ K[n - 1] \in Nat /\ K[n] = K[n - 1] + Held(Innermost)
        /\ Belongs(expr[n - 1], Innermost)
    BY <1>1, <2>2 DEF Popped
  <2>4. Innermost.k \in {"logical", "unary", "function", "variable"} /\ Held(Innermost) \in Nat
    BY <2>3, InnerType
  <2> QED BY <1>1, <2>1, <2>2, <2>3, <2>4
<1> QED BY <1>2, <1>3, <1>4, <1>5

(* A constant is pushed, and may be taken back.                            *)
LEMMA ConstantStep == IInv /\ Constant => IInv'
<1> SUFFICES ASSUME IInv, Constant PROVE IInv'
  OBVIOUS
<1>1. at = "operand" /\ expr # <<>> /\ CompileKeeping(PushConst(oCompiler)) /\ at' = "factor" /\ expr' = expr /\ Keep
  BY DEF Constant, AnyFactor, Operand, InExpr
<1>2. PICK G, K, x, n, k, saved : Reading(G, K, x, n, k, saved)
  BY <1>1, ReadingNow
<1>3. /\ x \in Context /\ k \in Nat /\ k \in Int /\ k = K[n] + Valued(at) /\ K[n] \in Int
      /\ Standing(expr, x, K, n, expr[1]) /\ Compiling(oCompiler, x, k, k, saved)
  BY <1>2 DEF Reading
<1>4. k = K[n] /\ k + 1 \in Nat /\ k + 1 > 0 /\ k + 1 = K[n] + Valued(at')
  BY <1>1, <1>3 DEF Valued
<1> DEFINE c == PushConst(oCompiler)
<1>5. Ready(Soon(k), k, {}) /\ CompilerSound(oCompiler, x, k, k, saved, Soon(k))
  BY <1>3, SoonReady DEF Compiling
<1>6. CompilerSound(c, x, k + 1, k + 1, saved, {}) /\ LastPushed(c.flow, x, HROf(x), k + 1)
  BY <1>3, <1>5, PushConstSound
<1>7. CompileKeeping(c)
  BY <1>1
<1> HIDE DEF c
<1>8. Compiling(c, x, k + 1, k + 1, saved) /\ TopKnown(c.flow, x, k + 1)
  BY <1>4, <1>6, StartCompiling DEF TopKnown
<1>9. CompilerSound(oCompiler', x, k + 1, k + 1, saved, {}) /\ TopKnown(oCompiler'.flow, x, k + 1)
  BY <1>3, <1>4, <1>7, <1>8, KeptSound
<1>10. Standing(expr', x, K, n, expr[1]) /\ AtSound(at', expr')
  BY <1>1, <1>3, Inside1
<1>11. eResultOperator' \in {"constant", "variable"}
  BY DEF Constant, ResultIs
<1> QED BY <1>1, <1>2, <1>4, <1>9, <1>10, <1>11, ReadOn

LEMMA NewFrame ==
  ASSUME NEW x, NEW k
  PROVE  /\ \A of \in {"parenthesis", "argument", "key"} :
              InnerSound(Logical(of), x, k) /\ Held(Logical(of)) = 0 /\ Logical(of).k = "logical" /\ Logical(of).of = of
         /\ InnerSound([k |-> "unary"], x, k) /\ Held([k |-> "unary"]) = 0 /\ [k |-> "unary"].k = "unary"
<1>1. ASSUME NEW of \in {"parenthesis", "argument", "key"}
      PROVE  InnerSound(Logical(of), x, k) /\ Held(Logical(of)) = 0 /\ Logical(of).k = "logical" /\ Logical(of).of = of
  <2> DEFINE e == Logical(of)
  <2>1. LogicalSound(e, x, k)
    BY DEF LogicalSound, Logical
  <2>2. e.k = "logical" /\ e.of = of /\ e.rel = FALSE /\ e.add = FALSE /\ e.mul = FALSE
    BY DEF Logical
  <2> HIDE DEF e
  <2>3. Held(e) = 0
    BY <2>2 DEF Held, One
  <2> QED BY <2>1, <2>2, <2>3 DEF InnerSound, e
<1>2. InnerSound([k |-> "unary"], x, k) /\ Held([k |-> "unary"]) = 0 /\ [k |-> "unary"].k = "unary"
  BY DEF InnerSound, Held
<1> QED BY <1>1, <1>2

LEMMA FrameOpened ==
  ASSUME NEW G, NEW K, NEW x, NEW n, NEW k, NEW saved, Reading(G, K, x, n, k, saved), K[n] \in Nat,
         NEW e, InnerSound(e, x, K[n]), Belongs(Innermost, e)
  PROVE  \E L : /\ Standing(Append(expr, e), x, L, n + 1, expr[1])
                /\ L[n + 1] = K[n] + Held(e) /\ L[n] = K[n] /\ Append(expr, e)[n + 1] = e
<1>1. Standing(expr, x, K, n, expr[1]) /\ expr[n] = Innermost
  BY DEF Reading
<1>2. n \in Nat /\ n \in 0..n
  BY <1>1 DEF Standing
<1>3. Belongs(expr[n], e)
  BY <1>1
<1>4. PICK L : Pushed(Append(expr, e), x, L, expr, K, n, expr[1], e)
  BY <1>1, <1>3, FramePushed
<1> QED BY <1>2, <1>4 DEF Pushed

LEMMA ParenthesisStep == IInv /\ (Parenthesis \/ Unary) => IInv'
<1> SUFFICES ASSUME IInv, Parenthesis \/ Unary PROVE IInv'
  OBVIOUS
<1>1. PICK e \in {Logical("parenthesis"), [k |-> "unary"]} :
        at = "operand" /\ expr # <<>> /\ expr' = Append(expr, e) /\ at' = at /\ oCompiler' = oCompiler
        /\ eResultOperator' = eResultOperator /\ Keep
  BY DEF Parenthesis, Unary, AnyFactor, Operand, InExpr, Nested
<1>2. PICK G, K, x, n, k, saved : Reading(G, K, x, n, k, saved)
  BY <1>1, ReadingNow
<1>3. /\ x \in Context /\ k \in Nat /\ k = K[n] + Valued(at) /\ K[n] \in Int
      /\ Standing(expr, x, K, n, expr[1]) /\ CompilerSound(oCompiler, x, k, k, saved, {})
      /\ eResultOperator \in {"constant", "variable"}
  BY <1>2 DEF Reading
<1>4. k = K[n] /\ K[n] \in Nat
  BY <1>1, <1>3 DEF Valued
<1>5. InnerSound(e, x, K[n]) /\ Held(e) = 0 /\ Belongs(Innermost, e)
  BY NewFrame DEF Belongs
<1>6. PICK L : /\ Standing(Append(expr, e), x, L, n + 1, expr[1])
               /\ L[n + 1] = K[n] + Held(e)
  BY <1>2, <1>4, <1>5, FrameOpened
<1>7. Standing(expr', x, L, n + 1, expr[1]) /\ k = L[n + 1] + Valued(at')
  BY <1>1, <1>4, <1>5, <1>6 DEF Valued
<1>8. AtSound(at', expr') /\ at' # "factor"
  BY <1>1, <1>7, Inside1 DEF Standing
<1>9. CompilerSound(oCompiler', x, k, k, saved, {}) /\ eResultOperator' \in {"constant", "variable"}
  BY <1>1, <1>3
<1> QED BY <1>1, <1>2, <1>3, <1>7, <1>8, <1>9, ReadOn

LEMMA ApplyUnaryStep == IInv /\ ApplyUnary => IInv'
<1> SUFFICES ASSUME IInv, ApplyUnary PROVE IInv'
  OBVIOUS
<1>1. at = "factor" /\ expr # <<>> /\ Innermost.k = "unary" /\ expr' = Front(expr) /\ at' = at
      /\ eResultOperator' = eResultOperator /\ Keep /\ (oCompiler' = oCompiler \/ CompileKeeping(OpUnary(oCompiler)))
  BY DEF ApplyUnary, Factor, InExpr
<1>2. PICK G, K, x, n, k, saved : Reading(G, K, x, n, k, saved)
  BY <1>1, ReadingNow
<1>3. /\ x \in Context /\ k \in Nat /\ k \in Int
      /\ CompilerSound(oCompiler, x, k, k, saved, {}) /\ Compiling(oCompiler, x, k, k, saved)
      /\ TrailSound(at, oCompiler.flow, x, k) /\ eResultOperator \in {"constant", "variable"}
  BY <1>2 DEF Reading
<1>4. /\ n > 1 /\ Popped(Front(expr), x, expr, K, n, expr[1]) /\ K[n - 1] \in Nat
      /\ k = K[n - 1] + Held(Innermost) + Valued(at)
  BY <1>1, <1>2, InnerNow
<1>5. k = K[n - 1] + Valued(at') /\ k > 0
  BY <1>1, <1>4 DEF Held, Valued
<1>6. Standing(expr', x, K, n - 1, expr[1])
  BY <1>1, <1>4 DEF Popped
<1>7. AtSound(at', expr')
  BY <1>1, <1>6, Inside1 DEF Standing
<1>8. CompilerSound(oCompiler', x, k, k, saved, {}) /\ TopKnown(oCompiler'.flow, x, k)
  <2>1. CASE oCompiler' = oCompiler
    BY <1>1, <1>3, <2>1 DEF TrailSound
  <2>2. CASE CompileKeeping(OpUnary(oCompiler))
    <3> DEFINE c == OpUnary(oCompiler)
    <3>1. Compiling(c, x, k, k, saved) /\ TopKnown(c.flow, x, k)
      BY <1>3, <1>5, OpUnarySound
    <3>2. CompileKeeping(c)
      BY <2>2
    <3> HIDE DEF c
    <3> QED BY <1>3, <3>1, <3>2, KeptSound
  <2> QED BY <1>1, <2>1, <2>2
<1>9. eResultOperator' \in {"constant", "variable"}
  BY <1>1, <1>3
<1> QED BY <1>1, <1>2, <1>3, <1>5, <1>6, <1>7, <1>8, <1>9, ReadOn

(* A call of LogicalOrExpr over b values, with an operand on top.          *)
LogicalNow(K, x, n, k, b) ==
  /\ n > 1 /\ b = K[n - 1] /\ b \in Nat /\ b + 1 \in Nat /\ b + 1 > 0
  /\ LogicalSound(Innermost, x, b) /\ Belongs(expr[n - 1], Innermost) /\ Popped(Front(expr), x, expr, K, n, expr[1])
  /\ Innermost.rel \in BOOLEAN /\ Innermost.add \in BOOLEAN /\ Innermost.mul \in BOOLEAN
  /\ Innermost.inAnd \in BOOLEAN /\ Innermost.inOr \in BOOLEAN
  /\ Innermost.ands \subseteq {Shape(x, HROf(x), b)} /\ Innermost.or \subseteq {Shape(x, HROf(x), b)}
  /\ Innermost.k = "logical"
  /\ k = b + 1 + One(Innermost.rel) + One(Innermost.add) + One(Innermost.mul)

LEMMA LogicalFields ==
  ASSUME NEW e, NEW x, NEW b, LogicalSound(e, x, b)
  PROVE  /\ e.rel \in BOOLEAN /\ e.add \in BOOLEAN /\ e.mul \in BOOLEAN /\ e.inAnd \in BOOLEAN /\ e.inOr \in BOOLEAN
         /\ e.ands \subseteq {Shape(x, HROf(x), b)} /\ e.or \subseteq {Shape(x, HROf(x), b)}
         /\ e.k = "logical" /\ e.of \in {"parenthesis", "argument", "key"}
         /\ Held(e) = One(e.rel) + One(e.add) + One(e.mul)
<1> DEFINE S == {Shape(x, HROf(x), b)}
<1>1. e \in [k : {"logical"}, of : {"parenthesis", "argument", "key"}, or : SUBSET S,
             ands : SUBSET S, inOr : BOOLEAN, inAnd : BOOLEAN, rel : BOOLEAN, add : BOOLEAN, mul : BOOLEAN]
  BY DEF LogicalSound
<1> HIDE DEF S
<1>2. /\ e.rel \in BOOLEAN /\ e.add \in BOOLEAN /\ e.mul \in BOOLEAN /\ e.inAnd \in BOOLEAN /\ e.inOr \in BOOLEAN
      /\ e.ands \subseteq S /\ e.or \subseteq S /\ e.k = "logical" /\ e.of \in {"parenthesis", "argument", "key"}
  BY <1>1
<1>3. Held(e) = One(e.rel) + One(e.add) + One(e.mul)
  BY <1>2 DEF Held
<1> QED BY <1>2, <1>3 DEF S

LEMMA LogicalReading ==
  ASSUME NEW G, NEW K, NEW x, NEW n, NEW k, NEW saved, Reading(G, K, x, n, k, saved), Factor("logical")
  PROVE  /\ LogicalNow(K, x, n, k, K[n - 1]) /\ at = "factor" /\ expr # <<>> /\ x \in Context /\ k \in Nat /\ k \in Int
         /\ Compiling(oCompiler, x, k, k, saved) /\ TopKnown(oCompiler.flow, x, k)
         /\ eResultOperator \in {"constant", "variable"}
         /\ Held(Innermost) = One(Innermost.rel) + One(Innermost.add) + One(Innermost.mul)
<1> DEFINE b == K[n - 1]
           e == Innermost
<1>1. at = "factor" /\ expr # <<>> /\ e.k = "logical"
  BY DEF Factor, InExpr
<1>2. /\ x \in Context /\ k \in Nat /\ k \in Int /\ Compiling(oCompiler, x, k, k, saved)
      /\ TrailSound(at, oCompiler.flow, x, k) /\ eResultOperator \in {"constant", "variable"}
  BY DEF Reading
<1>3. /\ n > 1 /\ Popped(Front(expr), x, expr, K, n, expr[1]) /\ InnerSound(e, x, b) /\ b \in Nat
      /\ k = b + Held(e) + Valued(at) /\ Belongs(expr[n - 1], e)
  BY <1>1, InnerNow
<1> HIDE DEF b, e
<1>4. LogicalSound(e, x, b)
  <2>1. ~(e = [k |-> "unary"]) /\ ~(e \in [k : {"function"}, n : Nat \ {0}])
        /\ ~(e \in [k : {"variable"}, complex : BOOLEAN, block : BOOLEAN, iterator : BOOLEAN])
    BY <1>1
  <2> QED BY <1>3, <2>1 DEF InnerSound
<1>5. /\ e.rel \in BOOLEAN /\ e.add \in BOOLEAN /\ e.mul \in BOOLEAN /\ e.inAnd \in BOOLEAN /\ e.inOr \in BOOLEAN
      /\ e.ands \subseteq {Shape(x, HROf(x), b)} /\ e.or \subseteq {Shape(x, HROf(x), b)}
      /\ e.k = "logical" /\ Held(e) = One(e.rel) + One(e.add) + One(e.mul)
  BY <1>4, LogicalFields
<1>6. One(e.rel) \in Nat /\ One(e.add) \in Nat /\ One(e.mul) \in Nat
  BY DEF One
<1>7. k = b + 1 + One(e.rel) + One(e.add) + One(e.mul) /\ b + 1 \in Nat /\ b + 1 > 0
  <2>1. Valued(at) = 1
    BY <1>1 DEF Valued
  <2> QED BY <1>3, <1>5, <1>6, <2>1
<1>8. LogicalNow(K, x, n, k, b)
  BY <1>3, <1>4, <1>5, <1>7 DEF LogicalNow, b, e
<1> QED BY <1>1, <1>2, <1>5, <1>8 DEF TrailSound, b, e

LEMMA LogicalChanged ==
  ASSUME NEW G, NEW K, NEW x, NEW n, NEW k, NEW saved, Reading(G, K, x, n, k, saved), NEW b, LogicalNow(K, x, n, k, b),
         NEW e, LogicalSound(e, x, b), e.of = Innermost.of, Replaced(e)
  PROVE  \E L : Standing(expr', x, L, n, expr[1]) /\ L[n] = b + One(e.rel) + One(e.add) + One(e.mul) /\ expr' # <<>>
<1>1. Standing(expr, x, K, n, expr[1]) /\ expr' = Front(expr) \o <<e>>
  BY DEF Reading, Replaced
<1>2. n > 1 /\ b = K[n - 1] /\ Belongs(expr[n - 1], Innermost) /\ Innermost.k = "logical" /\ b \in Nat
  BY DEF LogicalNow
<1>3. Belongs(expr[n - 1], e) /\ InnerSound(e, x, K[n - 1])
  BY <1>2 DEF Belongs, InnerSound
<1>4. PICK L : Standing(expr', x, L, n, expr[1]) /\ L[n] = K[n - 1] + Held(e)
  <2>1. PICK L : Changed(expr', x, L, expr, K, n, expr[1], e)
    BY <1>1, <1>2, <1>3, FrameReplaced
  <2> QED BY <2>1 DEF Changed
<1>5. Held(e) = One(e.rel) + One(e.add) + One(e.mul)
  BY LogicalFields
<1>6. One(e.rel) \in Nat /\ One(e.add) \in Nat /\ One(e.mul) \in Nat
  BY DEF One
<1>7. L[n] = b + One(e.rel) + One(e.add) + One(e.mul)
  BY <1>2, <1>4, <1>5, <1>6
<1> QED BY <1>4, <1>7 DEF Standing

LEMMA MulStep == IInv /\ (MulOp \/ ApplyMul) => IInv'
<1> SUFFICES ASSUME IInv, MulOp \/ ApplyMul PROVE IInv'
  OBVIOUS
<1> DEFINE t == [Innermost EXCEPT !.mul = TRUE]
           u == [Innermost EXCEPT !.mul = FALSE]
<1>1. Factor("logical") /\ Keep /\ expr # <<>>
  BY DEF MulOp, ApplyMul, Factor, InExpr
<1>2. PICK G, K, x, n, k, saved : Reading(G, K, x, n, k, saved)
  BY <1>1, ReadingNow
<1> DEFINE b == K[n - 1]
<1>3. /\ LogicalNow(K, x, n, k, b) /\ x \in Context /\ k \in Nat /\ k \in Int /\ at = "factor"
      /\ Compiling(oCompiler, x, k, k, saved) /\ TopKnown(oCompiler.flow, x, k)
      /\ eResultOperator \in {"constant", "variable"}
  BY <1>1, <1>2, LogicalReading
<1>4. CompilerSound(oCompiler, x, k, k, saved, {})
  BY <1>2 DEF Reading
<1> HIDE DEF b
<1>5. /\ LogicalSound(Innermost, x, b) /\ b \in Nat
      /\ k = b + 1 + One(Innermost.rel) + One(Innermost.add) + One(Innermost.mul)
  BY <1>3 DEF LogicalNow
<1>6. ASSUME NEW v \in BOOLEAN
      PROVE  LET e == [Innermost EXCEPT !.mul = v]
             IN LogicalSound(e, x, b) /\ e.of = Innermost.of /\ e.rel = Innermost.rel /\ e.add = Innermost.add /\ e.mul = v
  BY <1>5 DEF LogicalSound
<1>7. One(Innermost.rel) \in Nat /\ One(Innermost.add) \in Nat /\ One(TRUE) = 1 /\ One(FALSE) = 0
  BY DEF One
<1>8. CASE MulOp
  <2>1. ~Innermost.mul /\ Replaced(t) /\ at' = "operand" /\ oCompiler' = oCompiler /\ eResultOperator' = eResultOperator
    BY <1>8 DEF MulOp
  <2>2. LogicalSound(t, x, b) /\ t.of = Innermost.of /\ t.rel = Innermost.rel /\ t.add = Innermost.add /\ t.mul = TRUE
    BY <1>6
  <2> HIDE DEF t
  <2>3. PICK L : Standing(expr', x, L, n, expr[1]) /\ L[n] = b + One(t.rel) + One(t.add) + One(t.mul) /\ expr' # <<>>
    BY <1>2, <1>3, <2>1, <2>2, LogicalChanged
  <2>4. k = L[n] + Valued(at')
    <3>1. One(Innermost.mul) = 0 /\ One(t.mul) = 1 /\ Valued(at') = 0
      BY <2>1, <2>2 DEF One, Valued
    <3> QED BY <1>5, <1>7, <2>2, <2>3, <3>1
  <2>5. AtSound(at', expr') /\ at' # "factor" /\ CompilerSound(oCompiler', x, k, k, saved, {})
    BY <1>4, <2>1, <2>3, Inside1
  <2>6. eResultOperator' \in {"constant", "variable"}
    BY <1>3, <2>1
  <2> QED BY <1>1, <1>2, <1>3, <2>3, <2>4, <2>5, <2>6, ReadOn
<1>9. CASE ApplyMul
  <2>1. Innermost.mul /\ Replaced(u) /\ at' = at /\ Compile(OpArithmetic(oCompiler)) /\ eResultOperator' = "variable"
    BY <1>9 DEF ApplyMul
  <2>2. LogicalSound(u, x, b) /\ u.of = Innermost.of /\ u.rel = Innermost.rel /\ u.add = Innermost.add /\ u.mul = FALSE
    BY <1>6
  <2> HIDE DEF u
  <2>3. PICK L : Standing(expr', x, L, n, expr[1]) /\ L[n] = b + One(u.rel) + One(u.add) + One(u.mul) /\ expr' # <<>>
    BY <1>2, <1>3, <2>1, <2>2, LogicalChanged
  <2>4. k - 1 = L[n] + Valued(at') /\ k > 1 /\ k - 1 \in Nat /\ k - 1 \in Int
    <3>1. One(Innermost.mul) = 1 /\ One(u.mul) = 0 /\ Valued(at') = 1
      BY <1>3, <2>1, <2>2 DEF One, Valued
    <3> QED BY <1>5, <1>7, <2>2, <2>3, <3>1
  <2> DEFINE c == OpArithmetic(oCompiler)
             j == k - 1
  <2>5. Compiling(c, x, j, j, saved)
    BY <1>3, <2>4, OpArithmeticSound
  <2>6. Compile(c) /\ j \in Nat
    BY <2>1, <2>4
  <2> HIDE DEF c, j
  <2>7. CompilerSound(oCompiler', x, j, j, saved, {}) /\ TopKnown(oCompiler'.flow, x, j)
    BY <1>3, <2>5, <2>6, CompiledSound
  <2>8. AtSound(at', expr') /\ j = L[n] + Valued(at')
    BY <1>3, <2>1, <2>3, <2>4, Inside1 DEF j
  <2> QED BY <1>1, <1>2, <2>1, <2>3, <2>6, <2>7, <2>8, ReadOn
<1> QED BY <1>8, <1>9

(* An operator waits for its second operand, over what was computed.       *)
LEMMA BinaryStep ==
  ASSUME NEW G, NEW K, NEW x, NEW n, NEW k, NEW saved, Reading(G, K, x, n, k, saved), NEW b, LogicalNow(K, x, n, k, b),
         NEW c, NEW e, Binary(c, e), LogicalSound(e, x, b), e.of = Innermost.of,
         NEW j, j = b + One(e.rel) + One(e.add) + One(e.mul), Compiling(c, x, j, j, saved)
  PROVE  IInv'
<1>1. Compile(c) /\ Replaced(e) /\ at' = "operand" /\ eResultOperator' = eResultOperator /\ Keep
  BY DEF Binary
<1>2. x \in Context /\ eResultOperator \in {"constant", "variable"}
  BY DEF Reading
<1>3. j \in Nat
  <2>1. b \in Nat
    BY DEF LogicalNow
  <2>2. One(e.rel) \in Nat /\ One(e.add) \in Nat /\ One(e.mul) \in Nat
    BY DEF One
  <2> QED BY <2>1, <2>2
<1>4. PICK L : Standing(expr', x, L, n, expr[1]) /\ L[n] = j /\ expr' # <<>>
  BY <1>1, LogicalChanged
<1>5. CompilerSound(oCompiler', x, j, j, saved, {})
  BY <1>1, <1>2, <1>3, CompiledSound
<1>6. j = L[n] + Valued(at') /\ AtSound(at', expr') /\ at' # "factor" /\ eResultOperator' \in {"constant", "variable"}
  BY <1>1, <1>2, <1>3, <1>4, Inside1 DEF Valued
<1> QED BY <1>1, <1>3, <1>4, <1>5, <1>6, ReadOn

(* What is computed at the end of an operand, over b values: those that    *)
(* wait and the operand become one.                                        *)
Computed(c, e, x, b, saved) ==
  /\ Compiling(Simple(c, e), x, b + 1 + One(e.rel), b + 1 + One(e.rel), saved)
  /\ Compiling(Related(c, e), x, b + 1, b + 1, saved)
  /\ Compiling(Conjoined(c, e), x, b + 1, b + 1, saved)
  /\ Compiling(Disjoined(c, e), x, b + 1, b + 1, saved)
  /\ TopKnown(Disjoined(c, e).flow, x, b + 1)

LEMMA OperandComputed ==
  ASSUME NEW G, NEW K, NEW x, NEW n, NEW k, NEW saved, Reading(G, K, x, n, k, saved), Operator
  PROVE  /\ LogicalNow(K, x, n, k, K[n - 1]) /\ K[n - 1] \in Nat /\ x \in Context
         /\ Innermost.mul = FALSE /\ One(Innermost.mul) = 0
         /\ Computed(oCompiler, Innermost, x, K[n - 1], saved)
<1> DEFINE b == K[n - 1]
           m == b + 1
           e == Innermost
           w == One(e.rel) + One(e.add)
           p == m + One(e.rel)
<1>1. Factor("logical") /\ ~Innermost.mul
  BY DEF Operator
<1>2. /\ LogicalNow(K, x, n, k, b) /\ x \in Context /\ k \in Nat /\ k \in Int /\ at = "factor" /\ expr # <<>>
      /\ Compiling(oCompiler, x, k, k, saved) /\ TopKnown(oCompiler.flow, x, k)
  BY <1>1, LogicalReading
<1> HIDE DEF b, e
<1>3. /\ b \in Nat /\ e.rel \in BOOLEAN /\ e.add \in BOOLEAN /\ e.mul \in BOOLEAN /\ e.inAnd \in BOOLEAN /\ e.inOr \in BOOLEAN
      /\ e.ands \subseteq {Shape(x, HROf(x), b)} /\ e.or \subseteq {Shape(x, HROf(x), b)}
      /\ k = b + 1 + One(e.rel) + One(e.add) + One(e.mul)
  BY <1>2 DEF LogicalNow, e
<1>4. One(e.rel) \in Nat /\ One(e.add) \in Nat /\ One(e.mul) = 0 /\ e.mul = FALSE
  BY <1>1, <1>3 DEF One, e
<1>5. m \in Nat /\ m > 0 /\ m - 1 = b /\ m \in Int /\ w \in Nat /\ k = m + w /\ p \in Nat /\ p > 0 /\ p \in Int /\ k = p + One(e.add)
  BY <1>3, <1>4
<1>6. Compiling(oCompiler, x, p + One(e.add), p + One(e.add), saved) /\ TopKnown(oCompiler.flow, x, p + One(e.add))
      /\ Compiling(oCompiler, x, m + w, m + w, saved) /\ TopKnown(oCompiler.flow, x, m + w)
      /\ e.ands \subseteq {Shape(x, HROf(x), m - 1)} /\ e.or \subseteq {Shape(x, HROf(x), m - 1)}
      /\ w = One(e.rel) + One(e.add)
  BY <1>2, <1>3, <1>5
<1> HIDE DEF p, m, w
<1>7. Compiling(Simple(oCompiler, e), x, p, p, saved)
  BY <1>2, <1>3, <1>5, <1>6, SimpleSound
<1>8. Compiling(Related(oCompiler, e), x, m, m, saved)
  BY <1>2, <1>3, <1>5, <1>6, RelatedSound
<1>9. Compiling(Conjoined(oCompiler, e), x, m, m, saved)
  BY <1>2, <1>3, <1>5, <1>6, ConjoinedSound
<1>10. Compiling(Disjoined(oCompiler, e), x, m, m, saved) /\ TopKnown(Disjoined(oCompiler, e).flow, x, m)
  BY <1>2, <1>3, <1>5, <1>6, DisjoinedSound
<1>11. Computed(oCompiler, e, x, b, saved)
  BY <1>7, <1>8, <1>9, <1>10 DEF Computed, p, m
<1> QED BY <1>2, <1>3, <1>4, <1>11 DEF e, b

LEMMA SimpleStep == IInv /\ (AddOp \/ Relation) => IInv'
<1> SUFFICES ASSUME IInv, AddOp \/ Relation PROVE IInv'
  OBVIOUS
<1> DEFINE e == Innermost
           c == Simple(oCompiler, e)
           t == [Innermost EXCEPT !.add = TRUE]
           u == [Innermost EXCEPT !.add = FALSE, !.rel = TRUE]
<1>1. Operator /\ expr # <<>>
  BY DEF AddOp, Relation, Operator, Factor, InExpr
<1>2. PICK G, K, x, n, k, saved : Reading(G, K, x, n, k, saved)
  BY <1>1, ReadingNow
<1> DEFINE b == K[n - 1]
           m == b + 1
           p == m + One(e.rel)
<1>a. LogicalNow(K, x, n, k, b) /\ b \in Nat /\ e.mul = FALSE /\ One(e.mul) = 0 /\ Computed(oCompiler, e, x, b, saved)
  BY <1>1, <1>2, OperandComputed
<1> HIDE DEF b, e
<1>3. /\ LogicalNow(K, x, n, k, b) /\ b \in Nat /\ e.mul = FALSE /\ One(e.mul) = 0
      /\ Compiling(c, x, p, p, saved)
  BY <1>a DEF Computed
<1>4. LogicalSound(e, x, b) /\ e.rel \in BOOLEAN
  BY <1>3 DEF LogicalNow, e
<1>5. /\ LogicalSound(t, x, b) /\ t.of = e.of /\ t.rel = e.rel /\ t.add = TRUE /\ t.mul = e.mul
      /\ LogicalSound(u, x, b) /\ u.of = e.of /\ u.rel = TRUE /\ u.add = FALSE /\ u.mul = e.mul
  BY <1>4 DEF LogicalSound, e
<1>6. One(TRUE) = 1 /\ One(FALSE) = 0 /\ One(e.rel) \in Nat
  BY DEF One
<1>7. CASE AddOp
  <2>1. Binary(c, t)
    BY <1>7 DEF AddOp, e
  <2> HIDE DEF t, c
  <2>2. p = b + One(t.rel) + One(t.add) + One(t.mul)
    <3>1. One(t.rel) = One(e.rel) /\ One(t.add) = 1 /\ One(t.mul) = 0
      BY <1>3, <1>5, <1>6
    <3> QED BY <1>3, <1>6, <3>1
  <2> HIDE DEF p
  <2> QED BY <1>2, <1>3, <1>5, <2>1, <2>2, BinaryStep DEF e
<1>8. CASE Relation
  <2>1. Binary(c, u) /\ ~e.rel
    BY <1>8 DEF Relation, e
  <2> HIDE DEF u, c
  <2>2. p = b + One(u.rel) + One(u.add) + One(u.mul)
    <3>1. One(e.rel) = 0
      BY <2>1 DEF One
    <3>2. One(u.rel) = 1 /\ One(u.add) = 0 /\ One(u.mul) = 0
      BY <1>3, <1>5, <1>6
    <3> QED BY <1>3, <1>6, <3>1, <3>2
  <2> HIDE DEF p
  <2> QED BY <1>2, <1>3, <1>5, <2>1, <2>2, BinaryStep DEF e
<1> QED BY <1>7, <1>8

LEMMA AndStep == IInv /\ And => IInv'
<1> SUFFICES ASSUME IInv, And PROVE IInv'
  OBVIOUS
<1> DEFINE e == Innermost
           r == Related(oCompiler, e)
           c == Tested(r)
           t == [Innermost EXCEPT !.add = FALSE, !.rel = FALSE, !.inAnd = TRUE, !.ands = @ \cup TestedJump(c)]
<1>1. Operator /\ expr # <<>> /\ Binary(c, t)
  BY DEF And, Operator, Factor, InExpr
<1>2. PICK G, K, x, n, k, saved : Reading(G, K, x, n, k, saved)
  BY <1>1, ReadingNow
<1> DEFINE b == K[n - 1]
           m == b + 1
<1>a. LogicalNow(K, x, n, k, b) /\ b \in Nat /\ x \in Context /\ e.mul = FALSE /\ Computed(oCompiler, e, x, b, saved)
  BY <1>1, <1>2, OperandComputed
<1>3. /\ LogicalNow(K, x, n, k, b) /\ b \in Nat /\ m \in Nat /\ m > 0 /\ m - 1 = b /\ x \in Context /\ e.mul = FALSE
      /\ Compiling(r, x, m, m, saved)
  <2> HIDE DEF b, e
  <2> QED BY <1>a DEF Computed
<1>4. LogicalSound(e, x, b) /\ e.ands \subseteq {Shape(x, HROf(x), b)}
  BY <1>3 DEF LogicalNow
<1> HIDE DEF b, r, m
<1>5. CompilerSound(c, x, m - 1, m - 1, saved, {}) /\ TestedJump(c) \subseteq {Shape(x, HROf(x), m - 1)}
  BY <1>3, TestedSound
<1>6. Compiling(c, x, b, b, saved) /\ TestedJump(c) \subseteq {Shape(x, HROf(x), b)}
  BY <1>3, <1>5, StartCompiling
<1> DEFINE jumps == TestedJump(c)
           S == {Shape(x, HROf(x), b)}
<1> HIDE DEF c
<1>7. jumps \subseteq S /\ e \in [k : {"logical"}, of : {"parenthesis", "argument", "key"}, or : SUBSET S,
             ands : SUBSET S, inOr : BOOLEAN, inAnd : BOOLEAN, rel : BOOLEAN, add : BOOLEAN, mul : BOOLEAN]
  BY <1>4, <1>6 DEF LogicalSound
<1> HIDE DEF jumps, S
<1>8. LogicalSound(t, x, b) /\ t.of = e.of /\ t.rel = FALSE /\ t.add = FALSE /\ t.mul = e.mul
  <2> DEFINE js == e.ands \cup jumps
  <2>1. t = [e EXCEPT !.add = FALSE, !.rel = FALSE, !.inAnd = TRUE, !.ands = js]
    BY DEF jumps
  <2>2. js \subseteq S
    BY <1>7
  <2> HIDE DEF js, t, e
  <2>3. t \in [k : {"logical"}, of : {"parenthesis", "argument", "key"}, or : SUBSET S,
             ands : SUBSET S, inOr : BOOLEAN, inAnd : BOOLEAN, rel : BOOLEAN, add : BOOLEAN, mul : BOOLEAN]
        /\ t.of = e.of /\ t.rel = FALSE /\ t.add = FALSE /\ t.mul = e.mul
    BY <1>7, <2>1, <2>2
  <2> QED BY <2>3 DEF LogicalSound, S
<1> HIDE DEF t
<1>9. b = b + One(t.rel) + One(t.add) + One(t.mul)
  <2>1. One(t.rel) = 0 /\ One(t.add) = 0 /\ One(t.mul) = 0
    BY <1>3, <1>8 DEF One
  <2> QED BY <1>3, <2>1
<1> QED BY <1>1, <1>2, <1>3, <1>6, <1>8, <1>9, BinaryStep

LEMMA OrStep == IInv /\ Or => IInv'
<1> SUFFICES ASSUME IInv, Or PROVE IInv'
  OBVIOUS
<1> DEFINE e == Innermost
           r == Conjoined(oCompiler, e)
           c == Tested(r)
           t == [Innermost EXCEPT !.add = FALSE, !.rel = FALSE, !.inAnd = FALSE, !.ands = {},
                                  !.inOr = TRUE, !.or = @ \cup TestedJump(c)]
<1>1. Operator /\ expr # <<>> /\ Binary(c, t)
  BY DEF Or, Operator, Factor, InExpr
<1>2. PICK G, K, x, n, k, saved : Reading(G, K, x, n, k, saved)
  BY <1>1, ReadingNow
<1> DEFINE b == K[n - 1]
           m == b + 1
<1>a. LogicalNow(K, x, n, k, b) /\ b \in Nat /\ x \in Context /\ e.mul = FALSE /\ Computed(oCompiler, e, x, b, saved)
  BY <1>1, <1>2, OperandComputed
<1>3. /\ LogicalNow(K, x, n, k, b) /\ b \in Nat /\ m \in Nat /\ m > 0 /\ m - 1 = b /\ x \in Context /\ e.mul = FALSE
      /\ Compiling(r, x, m, m, saved)
  <2> HIDE DEF b, e
  <2> QED BY <1>a DEF Computed
<1>4. LogicalSound(e, x, b) /\ e.or \subseteq {Shape(x, HROf(x), b)}
  BY <1>3 DEF LogicalNow
<1> HIDE DEF b, r, m
<1>5. CompilerSound(c, x, m - 1, m - 1, saved, {}) /\ TestedJump(c) \subseteq {Shape(x, HROf(x), m - 1)}
  BY <1>3, TestedSound
<1>6. Compiling(c, x, b, b, saved) /\ TestedJump(c) \subseteq {Shape(x, HROf(x), b)}
  BY <1>3, <1>5, StartCompiling
<1> DEFINE jumps == TestedJump(c)
           S == {Shape(x, HROf(x), b)}
<1> HIDE DEF c
<1>7. jumps \subseteq S /\ e \in [k : {"logical"}, of : {"parenthesis", "argument", "key"}, or : SUBSET S,
             ands : SUBSET S, inOr : BOOLEAN, inAnd : BOOLEAN, rel : BOOLEAN, add : BOOLEAN, mul : BOOLEAN]
  BY <1>4, <1>6 DEF LogicalSound
<1> HIDE DEF jumps, S
<1>8. LogicalSound(t, x, b) /\ t.of = e.of /\ t.rel = FALSE /\ t.add = FALSE /\ t.mul = e.mul
  <2> DEFINE js == e.or \cup jumps
             none == {}
  <2>1. t = [e EXCEPT !.add = FALSE, !.rel = FALSE, !.inAnd = FALSE, !.ands = none, !.inOr = TRUE, !.or = js]
    BY DEF jumps
  <2>2. js \subseteq S /\ none \subseteq S
    BY <1>7
  <2> HIDE DEF js, t, e, none
  <2>3. t \in [k : {"logical"}, of : {"parenthesis", "argument", "key"}, or : SUBSET S,
             ands : SUBSET S, inOr : BOOLEAN, inAnd : BOOLEAN, rel : BOOLEAN, add : BOOLEAN, mul : BOOLEAN]
        /\ t.of = e.of /\ t.rel = FALSE /\ t.add = FALSE /\ t.mul = e.mul
    BY <1>7, <2>1, <2>2
  <2> QED BY <2>3 DEF LogicalSound, S
<1> HIDE DEF t
<1>9. b = b + One(t.rel) + One(t.add) + One(t.mul)
  <2>1. One(t.rel) = 0 /\ One(t.add) = 0 /\ One(t.mul) = 0
    BY <1>3, <1>8 DEF One
  <2> QED BY <1>3, <2>1
<1> QED BY <1>1, <1>2, <1>3, <1>6, <1>8, <1>9, BinaryStep

LEMMA CloseStep == IInv /\ Close => IInv'
<1> SUFFICES ASSUME IInv, Close PROVE IInv'
  OBVIOUS
<1> DEFINE e == Innermost
           c == Disjoined(oCompiler, e)
<1>1. /\ Operator /\ expr # <<>> /\ at = "factor" /\ CompileKeeping(c) /\ expr' = Front(expr) /\ at' = at /\ Keep
      /\ eResultOperator' = ResultOf(e)
  BY DEF Close, Operator, Factor, InExpr
<1>2. PICK G, K, x, n, k, saved : Reading(G, K, x, n, k, saved)
  BY <1>1, ReadingNow
<1> DEFINE b == K[n - 1]
           j == b + 1
<1>3. LogicalNow(K, x, n, k, b) /\ b \in Nat /\ x \in Context /\ Computed(oCompiler, e, x, b, saved)
  BY <1>1, <1>2, OperandComputed
<1>4. Standing(expr', x, K, n - 1, expr[1])
  BY <1>1, <1>3 DEF LogicalNow, Popped
<1>5. j = K[n - 1] + Valued(at') /\ AtSound(at', expr') /\ j \in Nat
  BY <1>1, <1>3, <1>4, Inside1 DEF Standing, Valued
<1>6. eResultOperator' \in {"constant", "variable"}
  BY <1>1, <1>2 DEF Reading, ResultOf
<1> HIDE DEF b, e
<1>7. Compiling(c, x, j, j, saved) /\ TopKnown(c.flow, x, j)
  BY <1>3 DEF Computed
<1> HIDE DEF c, j
<1>8. CompilerSound(oCompiler', x, j, j, saved, {}) /\ TopKnown(oCompiler'.flow, x, j)
  BY <1>1, <1>3, <1>5, <1>7, KeptSound
<1> QED BY <1>1, <1>2, <1>4, <1>5, <1>6, <1>8, ReadOn

LEMMA InnerKind ==
  ASSUME NEW e, NEW x, NEW k, InnerSound(e, x, k)
  PROVE  /\ e.k = "function" => e \in [k : {"function"}, n : Nat \ {0}]
         /\ e.k = "variable" => e \in [k : {"variable"}, complex : BOOLEAN, block : BOOLEAN, iterator : BOOLEAN]
<1>1. LogicalSound(e, x, k) => e.k = "logical"
  BY LogicalFields
<1>2. e = [k |-> "unary"] => e.k = "unary"
  OBVIOUS
<1>3. e \in [k : {"function"}, n : Nat \ {0}] => e.k = "function"
  OBVIOUS
<1>4. e \in [k : {"variable"}, complex : BOOLEAN, block : BOOLEAN, iterator : BOOLEAN] => e.k = "variable"
  OBVIOUS
<1> QED BY <1>1, <1>2, <1>3, <1>4, Zenon DEF InnerSound

(* A frame with an expression of its own.                                  *)
Owns(e, l) == \/ e.k = "function" /\ l = Logical("argument")
              \/ e.k = "variable" /\ l = Logical("key")
Reached(t, x, L, m, first, v) == Standing(t, x, L, m, first) /\ L[m] = v /\ t # <<>>

LEMMA FramesOpened ==
  ASSUME NEW x, NEW s, NEW K, NEW n, NEW first, Standing(s, x, K, n, first), K[n] \in Nat,
         NEW e, InnerSound(e, x, K[n]), NEW l, Owns(e, l), NEW t, t = s \o <<e, l>>, NEW p, p = n + 2
  PROVE  \E L : Reached(t, x, L, p, first, K[n] + Held(e))
<1> DEFINE u == Append(s, e)
           m == n + 1
<1>1. e.k # "logical" /\ Held(e) \in Nat
  <2>1. Held(e) \in Nat
    BY InnerType
  <2> QED BY <2>1 DEF Owns
<1>2. Belongs(s[n], e) /\ IsList(s, n) /\ n \in Nat
  BY <1>1, FrameOf DEF Belongs, Standing
<1>3. PICK L : Pushed(u, x, L, s, K, n, first, e)
  BY <1>2, FramePushed
<1> HIDE DEF u
<1>4. Standing(u, x, L, m, first) /\ L[m] = K[n] + Held(e) /\ u[m] = e /\ L[m] \in Nat
  BY <1>1, <1>3 DEF Pushed
<1>5. InnerSound(l, x, L[m]) /\ Held(l) = 0 /\ Belongs(u[m], l)
  <2>1. CASE e.k = "function" /\ l = Logical("argument")
    BY <1>4, <2>1, NewFrame DEF Belongs
  <2>2. CASE e.k = "variable" /\ l = Logical("key")
    BY <1>4, <2>2, NewFrame DEF Belongs
  <2> QED BY <2>1, <2>2 DEF Owns
<1>6. t = Append(u, l)
  BY <1>2, TwoMore DEF u
<1> HIDE DEF m
<1>7. PICK L2 : Pushed(t, x, L2, u, L, m, first, l)
  BY <1>4, <1>5, <1>6, FramePushed
<1>8. Standing(t, x, L2, m + 1, first) /\ L2[m + 1] = L[m]
  BY <1>4, <1>5, <1>7 DEF Pushed
<1>9. m + 1 = p
  BY <1>2 DEF m
<1> QED BY <1>4, <1>8, <1>9 DEF Standing, Reached

LEMMA FunctionStep == IInv /\ Function => IInv'
<1> SUFFICES ASSUME IInv, Function PROVE IInv'
  OBVIOUS
<1>1. at = "operand" /\ expr # <<>> /\ Keep
  BY DEF Function, Operand, InExpr
<1>2. PICK G, K, x, n, k, saved : Reading(G, K, x, n, k, saved)
  BY <1>1, ReadingNow
<1>3. /\ x \in Context /\ k \in Nat /\ k \in Int /\ k = K[n] + Valued(at) /\ K[n] \in Int
      /\ Standing(expr, x, K, n, expr[1]) /\ Compiling(oCompiler, x, k, k, saved)
      /\ CompilerSound(oCompiler, x, k, k, saved, {}) /\ eResultOperator \in {"constant", "variable"}
  BY <1>2 DEF Reading
<1>4. k = K[n] /\ K[n] \in Nat /\ 0 \in 0..k
  BY <1>1, <1>3 DEF Valued
<1>5. CASE Compile(ExecuteSyscall(oCompiler, 0)) /\ at' = "factor" /\ eResultOperator' = "variable" /\ expr' = expr
  <2> DEFINE c == ExecuteSyscall(oCompiler, 0)
             j == k + 1
  <2>1. Compiling(c, x, k - 0 + 1, k - 0 + 1, saved)
    BY <1>3, <1>4, ExecuteSyscallSound
  <2>2. k - 0 + 1 = j /\ j \in Nat /\ j = K[n] + Valued(at')
    BY <1>3, <1>4, <1>5 DEF Valued
  <2>3. Compile(c)
    BY <1>5
  <2> HIDE DEF c, j
  <2>4. CompilerSound(oCompiler', x, j, j, saved, {}) /\ TopKnown(oCompiler'.flow, x, j)
    BY <1>3, <2>1, <2>2, <2>3, CompiledSound
  <2>5. Standing(expr', x, K, n, expr[1]) /\ AtSound(at', expr') /\ eResultOperator' \in {"constant", "variable"}
    BY <1>1, <1>3, <1>5, Inside1
  <2> QED BY <1>1, <1>2, <2>2, <2>4, <2>5, ReadOn
<1>6. CASE /\ expr' = expr \o << [k |-> "function", n |-> 1], Logical("argument") >>
           /\ UNCHANGED <<at, oCompiler, eResultOperator>>
  <2> DEFINE e == [k |-> "function", n |-> 1]
             l == Logical("argument")
             p == n + 2
  <2>1. InnerSound(e, x, K[n]) /\ Held(e) = 0 /\ Owns(e, l)
    BY DEF InnerSound, Held, Owns
  <2>2. expr' = expr \o <<e, l>> /\ at' = "operand"
    BY <1>1, <1>6
  <2> HIDE DEF e, l, p
  <2>a. PICK L : Reached(expr', x, L, p, expr[1], K[n] + Held(e))
    BY <1>3, <1>4, <2>1, <2>2, FramesOpened DEF p
  <2>3. Standing(expr', x, L, p, expr[1]) /\ L[p] = K[n] + 0 /\ expr' # <<>>
    BY <2>1, <2>a DEF Reached
  <2>4. k = L[p] + Valued(at') /\ AtSound(at', expr') /\ at' # "factor"
    <3>1. Valued(at') = 0 /\ AtSound(at', expr') /\ at' # "factor"
      BY <2>2, <2>3, Inside1 DEF Valued
    <3>2. L[p] = K[n] + 0
      BY <2>3
    <3> QED BY <1>4, <3>1, <3>2
  <2>5. CompilerSound(oCompiler', x, k, k, saved, {}) /\ eResultOperator' \in {"constant", "variable"}
    BY <1>3, <1>6
  <2> QED BY <1>1, <1>2, <1>3, <2>3, <2>4, <2>5, ReadOn
<1> QED BY <1>5, <1>6 DEF Function

(* The function or the variable around an argument or a key.               *)
Around(K, x, n, b, e) ==
  /\ n \in Nat /\ n > 2 /\ Standing(Front(Front(expr)), x, K, n - 2, expr[1]) /\ K[n - 2] \in Nat
  /\ Enclosing = e /\ Ended(2) = Front(Front(expr)) /\ InnerSound(e, x, K[n - 2])
  /\ b = K[n - 2] + Held(e)

LEMMA EnclosingFrame ==
  ASSUME NEW G, NEW K, NEW x, NEW n, NEW k, NEW saved, Reading(G, K, x, n, k, saved), NEW b, LogicalNow(K, x, n, k, b),
         Innermost.of \in {"argument", "key"}
  PROVE  \E e : /\ Around(K, x, n, b, e)
                /\ Innermost.of = "argument" => e \in [k : {"function"}, n : Nat \ {0}]
                /\ Innermost.of = "key" =>
                     e \in [k : {"variable"}, complex : BOOLEAN, block : BOOLEAN, iterator : BOOLEAN]
<1> DEFINE e == expr[n - 1]
           s == Front(expr)
           m == n - 1
<1>1. /\ n \in Nat /\ n > 1 /\ IsList(expr, n) /\ Len(expr) = n /\ Popped(s, x, expr, K, n, expr[1])
      /\ b = K[m] /\ Belongs(e, Innermost) /\ Innermost.k = "logical"
  BY InnerNow DEF LogicalNow
<1>2. /\ Innermost.of = "argument" => e.k = "function"
      /\ Innermost.of = "key" => e.k = "variable"
  BY <1>1 DEF Belongs
<1>3. /\ Standing(s, x, K, m, expr[1]) /\ \A i \in 1..m : s[i] = expr[i]
  BY <1>1 DEF Popped
<1>4. m \in Nat /\ m > 0 /\ m \in 1..m /\ m - 1 = n - 2 /\ s[m] = e
  BY <1>1, <1>3
<1>5. m > 1
  <2> SUFFICES ASSUME m = 1 PROVE FALSE
    <3> HIDE DEF m
    <3> QED BY <1>4
  <2>1. FramesSound(s, x, K) /\ Len(s) = m
    BY <1>3 DEF Standing
  <2>2. StatementSound(s[1])
    BY <1>4, <2>1, FrameOf
  <2>3. e.k = "statement"
    BY <1>4, <2>2 DEF StatementSound
  <2> QED BY <1>2, <2>3
<1>6. /\ Standing(Front(s), x, K, m - 1, expr[1]) /\ K[m - 1] \in Nat /\ InnerSound(s[m], x, K[m - 1])
      /\ K[m] = K[m - 1] + Held(s[m])
  <2>1. Popped(Front(s), x, s, K, m, expr[1])
    BY <1>3, <1>5, FramePopped
  <2> QED BY <2>1 DEF Popped
<1>7. Enclosing = e /\ Ended(2) = Front(s)
  BY <1>1, EndedTwo DEF Enclosing, Ended
<1>8. n > 2
  BY <1>1, <1>5
<1> HIDE DEF m, s, e
<1>9. Around(K, x, n, b, e)
  BY <1>1, <1>4, <1>6, <1>7, <1>8 DEF Around, s
<1>10. /\ Innermost.of = "argument" => e \in [k : {"function"}, n : Nat \ {0}]
       /\ Innermost.of = "key" =>
            e \in [k : {"variable"}, complex : BOOLEAN, block : BOOLEAN, iterator : BOOLEAN]
  BY <1>2, <1>4, <1>6, InnerKind
<1> QED BY <1>9, <1>10

LEMMA CommaStep == IInv /\ Comma => IInv'
<1> SUFFICES ASSUME IInv, Comma PROVE IInv'
  OBVIOUS
<1> DEFINE e == Innermost
           c == Disjoined(oCompiler, e)
           f == [Enclosing EXCEPT !.n = @ + 1]
           l == Logical("argument")
<1>1. /\ Operator /\ expr # <<>> /\ e.of = "argument" /\ Compile(c) /\ at' = "operand" /\ Keep
      /\ expr' = Ended(2) \o <<f, l>> /\ eResultOperator' = eResultOperator
  BY DEF Comma, Operator, Factor, InExpr
<1>2. PICK G, K, x, n, k, saved : Reading(G, K, x, n, k, saved)
  BY <1>1, ReadingNow
<1> DEFINE b == K[n - 1]
           j == b + 1
<1>3. LogicalNow(K, x, n, k, b) /\ b \in Nat /\ x \in Context /\ Computed(oCompiler, e, x, b, saved)
  BY <1>1, <1>2, OperandComputed
<1> HIDE DEF b
<1>4. PICK g : Around(K, x, n, b, g) /\ g \in [k : {"function"}, n : Nat \ {0}]
  BY <1>1, <1>2, <1>3, EnclosingFrame
<1> HIDE DEF e
<1>5. /\ n \in Nat /\ n > 2 /\ Standing(Front(Front(expr)), x, K, n - 2, expr[1]) /\ K[n - 2] \in Nat
      /\ Enclosing = g /\ Ended(2) = Front(Front(expr)) /\ b = K[n - 2] + Held(g)
  BY <1>4 DEF Around
<1> DEFINE m == n - 2
           s == Front(Front(expr))
<1>6. f \in [k : {"function"}, n : Nat \ {0}] /\ f.n = g.n + 1 /\ f.k = "function" /\ g.k = "function" /\ g.n \in Nat
  BY <1>4, <1>5
<1> HIDE DEF f
<1>7. InnerSound(f, x, K[m]) /\ Held(f) = g.n /\ Held(g) = g.n - 1 /\ Owns(f, l)
  BY <1>6 DEF InnerSound, Held, Owns
<1>8. expr' = s \o <<f, l>> /\ Standing(s, x, K, m, expr[1]) /\ K[m] \in Nat
  BY <1>1, <1>5
<1>a. n = m + 2 /\ b = K[m] + Held(g)
  BY <1>5
<1> HIDE DEF s, m, l
<1>b. PICK L : Reached(expr', x, L, n, expr[1], K[m] + Held(f))
  BY <1>7, <1>8, <1>a, FramesOpened
<1>9. Standing(expr', x, L, n, expr[1]) /\ L[n] = K[m] + Held(f) /\ expr' # <<>>
  BY <1>b DEF Reached
<1>10. j = L[n] + Valued(at') /\ j \in Nat /\ AtSound(at', expr') /\ at' # "factor"
  <2>1. Valued(at') = 0 /\ AtSound(at', expr') /\ at' # "factor"
    BY <1>1, <1>9, Inside1 DEF Valued
  <2>2. /\ b \in Nat /\ K[m] \in Nat /\ g.n \in Nat /\ Held(f) = g.n /\ Held(g) = g.n - 1
        /\ L[n] = K[m] + Held(f) /\ b = K[m] + Held(g)
    BY <1>3, <1>6, <1>7, <1>8, <1>9, <1>a
  <2> QED BY <2>1, <2>2
<1>11. Compiling(c, x, j, j, saved)
  BY <1>3 DEF Computed
<1> HIDE DEF c, j
<1>12. CompilerSound(oCompiler', x, j, j, saved, {})
  BY <1>1, <1>3, <1>10, <1>11, CompiledSound
<1>13. eResultOperator' \in {"constant", "variable"}
  BY <1>1, <1>2 DEF Reading
<1> QED BY <1>1, <1>2, <1>9, <1>10, <1>12, <1>13, ReadOn

LEMMA CloseFunctionStep == IInv /\ CloseFunction => IInv'
<1> SUFFICES ASSUME IInv, CloseFunction PROVE IInv'
  OBVIOUS
<1> DEFINE e == Innermost
           d == Disjoined(oCompiler, e)
           c == ExecuteSyscall(d, Enclosing.n)
<1>1. /\ Operator /\ expr # <<>> /\ at = "factor" /\ e.of = "argument" /\ Compile(c) /\ at' = at /\ Keep
      /\ expr' = Ended(2) /\ eResultOperator' = "variable"
  BY DEF CloseFunction, Operator, Factor, InExpr
<1>2. PICK G, K, x, n, k, saved : Reading(G, K, x, n, k, saved)
  BY <1>1, ReadingNow
<1> DEFINE b == K[n - 1]
           m == b + 1
<1>3. LogicalNow(K, x, n, k, b) /\ b \in Nat /\ x \in Context /\ Computed(oCompiler, e, x, b, saved)
  BY <1>1, <1>2, OperandComputed
<1> HIDE DEF b
<1>4. PICK g : Around(K, x, n, b, g) /\ g \in [k : {"function"}, n : Nat \ {0}]
  BY <1>1, <1>2, <1>3, EnclosingFrame
<1> HIDE DEF e
<1>5. /\ n \in Nat /\ n > 2 /\ Standing(Front(Front(expr)), x, K, n - 2, expr[1]) /\ K[n - 2] \in Nat
      /\ Enclosing = g /\ Ended(2) = Front(Front(expr)) /\ b = K[n - 2] + Held(g)
  BY <1>4 DEF Around
<1>6. g.k = "function" /\ g.n \in Nat /\ g.n > 0 /\ Held(g) = g.n - 1
  BY <1>4 DEF Held
<1> DEFINE i == g.n
           j == K[n - 2] + 1
<1>7. i \in 0..m /\ m - i + 1 = j /\ m \in Nat /\ m \in Int /\ j \in Nat
  BY <1>3, <1>5, <1>6
<1>8. Compiling(d, x, m, m, saved)
  BY <1>3 DEF Computed
<1> HIDE DEF d, m
<1>9. c = ExecuteSyscall(d, i)
  BY <1>5
<1> HIDE DEF c, i, j
<1>10. Compiling(c, x, m - i + 1, m - i + 1, saved)
  BY <1>3, <1>7, <1>8, <1>9, ExecuteSyscallSound
<1>11. Compiling(c, x, j, j, saved)
  BY <1>7, <1>10
<1>12. CompilerSound(oCompiler', x, j, j, saved, {}) /\ TopKnown(oCompiler'.flow, x, j)
  BY <1>1, <1>3, <1>7, <1>11, CompiledSound
<1>13. Standing(expr', x, K, n - 2, expr[1]) /\ j = K[n - 2] + Valued(at')
  BY <1>1, <1>5 DEF Valued, j
<1>14. AtSound(at', expr') /\ eResultOperator' \in {"constant", "variable"}
  BY <1>1, <1>13, Inside1 DEF Standing
<1> QED BY <1>1, <1>2, <1>7, <1>12, <1>13, <1>14, ReadOn

-----------------------------------------------------------------------------
(* The files that are open. *)

FileOf(ops, inForeach, inBlock, verbose, names, breaks) ==
  [ops |-> ops, bInForeach |-> inForeach, bInBlock |-> inBlock, bVerboseMode |-> verbose,
   mCurrentBlock |-> names, vBreakJMPPoints |-> breaks]

LEMMA FileFields ==
  ASSUME NEW ops, NEW f, NEW b, NEW v, NEW names, NEW breaks, NEW new
  PROVE  LET p == FileOf(ops, f, b, v, names, breaks)
         IN /\ p.ops = ops /\ p.bInForeach = f /\ p.bInBlock = b /\ p.bVerboseMode = v
            /\ p.mCurrentBlock = names /\ p.vBreakJMPPoints = breaks
            /\ [p EXCEPT !.ops = new] = FileOf(new, f, b, v, names, breaks)
            /\ [p EXCEPT !.bInForeach = new] = FileOf(ops, new, b, v, names, breaks)
            /\ [p EXCEPT !.bInBlock = new] = FileOf(ops, f, new, v, names, breaks)
            /\ [p EXCEPT !.bVerboseMode = new] = FileOf(ops, f, b, new, names, breaks)
            /\ [p EXCEPT !.mCurrentBlock = new] = FileOf(ops, f, b, v, new, breaks)
            /\ [p EXCEPT !.vBreakJMPPoints = new] = FileOf(ops, f, b, v, names, new)
BY DEF FileOf

FileFacts(p, g, m) ==
  /\ p = FileOf(p.ops, g[m].level # 0, OpenIn(p, "block") # {}, OpenIn(p, "verbose") # {},
                p.mCurrentBlock, p.vBreakJMPPoints)
  /\ IsList(p.ops, m) /\ m \in Nat
  /\ OpsSound(p.ops, g) /\ BlocksSound(p.ops, g) /\ VerboseModes(p.ops)
  /\ BreaksSound(p, g[0], g[m]) /\ NamesSound(p, g[m])

LEMMA FileIs ==
  ASSUME NEW p, NEW g, NEW m, m = Len(p.ops)
  PROVE  FileSound(p, g) <=> FileFacts(p, g, m)
<1>1. IsList(p.ops, m) <=> p.ops = [n \in 1..Len(p.ops) |-> p.ops[n]]
  BY DEF IsList
<1>2. FileOf(p.ops, g[m].level # 0, OpenIn(p, "block") # {}, OpenIn(p, "verbose") # {}, p.mCurrentBlock, p.vBreakJMPPoints)
        = [ops |-> p.ops, bInForeach |-> (g[m].level # 0), bInBlock |-> (OpenIn(p, "block") # {}),
           bVerboseMode |-> (OpenIn(p, "verbose") # {}), mCurrentBlock |-> p.mCurrentBlock,
           vBreakJMPPoints |-> p.vBreakJMPPoints]
  BY DEF FileOf
<1> QED BY <1>1, <1>2, Zenon DEF FileSound, FileFacts

LEMMA FieldsBack ==
  ASSUME NEW q, NEW ops, NEW f, NEW b, NEW v, NEW names, NEW breaks, q = FileOf(ops, f, b, v, names, breaks)
  PROVE  /\ q.ops = ops /\ q.bInForeach = f /\ q.bInBlock = b /\ q.bVerboseMode = v
         /\ q.mCurrentBlock = names /\ q.vBreakJMPPoints = breaks
         /\ q = FileOf(q.ops, q.bInForeach, q.bInBlock, q.bVerboseMode, q.mCurrentBlock, q.vBreakJMPPoints)
BY DEF FileOf

Parts(p, g, m, x, z) ==
  /\ p.bInBlock = (OpenIn(p, "block") # {}) /\ p.bVerboseMode = (OpenIn(p, "verbose") # {})
  /\ p.bInForeach = (z.level # 0)
  /\ IsList(p.ops, m) /\ m \in Nat
  /\ OpsSound(p.ops, g) /\ BlocksSound(p.ops, g) /\ VerboseModes(p.ops)
  /\ BreaksSound(p, x, z) /\ NamesSound(p, z)

LEMMA FileParts ==
  ASSUME NEW p, NEW g, FileSound(p, g), NEW m, m = Len(p.ops)
  PROVE  Parts(p, g, m, g[0], g[m])
<1>1. FileFacts(p, g, m)
  BY FileIs
<1> DEFINE ops == p.ops
           f == (g[m].level # 0)
           b == (OpenIn(p, "block") # {})
           v == (OpenIn(p, "verbose") # {})
           names == p.mCurrentBlock
           breaks == p.vBreakJMPPoints
<1>2. p = FileOf(ops, f, b, v, names, breaks)
  BY <1>1 DEF FileFacts
<1> HIDE DEF ops, f, b, v, names, breaks
<1>3. p.bInForeach = f /\ p.bInBlock = b /\ p.bVerboseMode = v
  BY <1>2, FieldsBack
<1> QED BY <1>1, <1>3, Zenon DEF f, b, v, FileFacts, Parts

(* What is known of file i: G[i][0] is where it was included, and its      *)
(* operators lead to Behind.                                               *)
FileLevel(p, x, y) ==
  /\ x \in Context /\ y \in Context
  /\ IsFiniteSet(OpenIn(p, "foreach")) /\ y.level = x.level + Cardinality(OpenIn(p, "foreach"))
  /\ Len(p.vBreakJMPPoints) = Cardinality(OpenIn(p, "foreach"))
  /\ p.bInForeach = (y.level # 0) /\ p.bInBlock = (OpenIn(p, "block") # {})
  /\ p.bVerboseMode = (OpenIn(p, "verbose") # {})
  /\ OpenIn(p, "block") = {} => y.args = x.args

LEMMA FileLevels ==
  ASSUME NEW p, NEW g, FileSound(p, g)
  PROVE  FileLevel(p, g[0], Behind(p, g))
<1> DEFINE m == Len(p.ops)
           x == g[0]
           y == g[m]
           F == OpenIn(p, "foreach")
           B == OpenIn(p, "block")
<1>1. Parts(p, g, m, x, y)
  BY FileParts
<1> HIDE DEF x, y
<1>2. /\ p.bInBlock = (B # {}) /\ p.bVerboseMode = (OpenIn(p, "verbose") # {}) /\ p.bInForeach = (y.level # 0)
      /\ IsList(p.ops, m) /\ m \in Nat /\ OpsSound(p.ops, g) /\ BlocksSound(p.ops, g) /\ BreaksSound(p, x, y)
  BY <1>1, Zenon DEF Parts
<1>3. x \in Context /\ y \in Context
  BY <1>2 DEF OpsSound, x, y
<1>4. DOMAIN p.ops = 1..m
  BY <1>2, ListType DEF IsList
<1>5. IsFiniteSet(F)
  <2>1. IsFiniteSet(1..m)
    BY <1>2, FS_Interval
  <2>2. F \subseteq 1..m
    BY <1>4 DEF OpenIn
  <2> QED BY <2>1, <2>2, FS_Subset
<1>6. B # {} => x.level = 0
  <2>1. \A n \in 1..m : p.ops[n].k = "block" => g[0].level = 0
    BY <1>2 DEF BlocksSound
  <2> QED BY <1>4, <2>1 DEF OpenIn, x
<1>7. B = {} => y.args = x.args
  <2>1. \A n \in 0..m : (\A i \in 1..n : p.ops[i].k # "block") => g[n].args = g[0].args /\ g[n].hr = g[0].hr
    BY <1>2 DEF BlocksSound
  <2>2. B = {} => \A i \in 1..m : p.ops[i].k # "block"
    BY <1>4 DEF OpenIn
  <2>3. m \in 0..m
    BY <1>2
  <2> QED BY <2>1, <2>2, <2>3 DEF x, y
<1>8. Len(p.vBreakJMPPoints) = Cardinality(F) /\ y.level = (IF B = {} THEN x.level ELSE 0) + Cardinality(F)
  BY <1>2 DEF BreaksSound
<1>9. y.level = x.level + Cardinality(F)
  <2>1. (IF B = {} THEN x.level ELSE 0) = x.level
    BY <1>6
  <2> QED BY <1>8, <2>1
<1>10. Behind(p, g) = y /\ g[0] = x
  BY DEF Behind, x, y
<1> HIDE DEF m
<1>11. FileLevel(p, x, y)
  BY <1>2, <1>3, <1>5, <1>7, <1>8, <1>9 DEF FileLevel
<1> QED BY <1>10, <1>11

(* The loops that are open in the first files are the level behind them.   *)
OpenUpTo(files, i, k) == UNION {{j} \X OpenIn(files[j], k) : j \in 1..i}
Counted(files, G, i) ==
  IsFiniteSet(OpenUpTo(files, i, "foreach")) /\ Cardinality(OpenUpTo(files, i, "foreach")) = Behind(files[i], G[i]).level

LEMMA LevelsCounted ==
  ASSUME NEW files, NEW G, FilesSound(files, G), NEW n \in 1..Len(files)
  PROVE  Counted(files, G, n)
<1> DEFINE U(i) == OpenUpTo(files, i, "foreach")
           F(i) == OpenIn(files[i], "foreach")
           M == {i \in 1..Len(files) : ~Counted(files, G, i)}
<1>1. /\ Len(files) \in Nat /\ Len(files) > 0 /\ G[1][0] = Root
      /\ \A i \in 1..Len(files) : FileLevel(files[i], G[i][0], Behind(files[i], G[i]))
      /\ \A i \in 2..Len(files) : G[i][0] = Behind(files[i - 1], G[i - 1])
  <2>1. Len(files) \in Nat /\ Len(files) > 0
    BY HereType
  <2>2. \A i \in 1..Len(files) : FileSound(files[i], G[i])
    BY DEF FilesSound
  <2> QED BY <2>1, <2>2, FileLevels DEF FilesSound
<1>2. SUFFICES ASSUME ~Counted(files, G, n) PROVE FALSE
  OBVIOUS
<1>3. M \subseteq Nat /\ M # {}
  BY <1>1, <1>2
<1>4. PICK m \in M : \A i \in M : m <= i
  <2> HIDE DEF M
  <2> QED BY <1>3, LeastNumber
<1>5. m \in 1..Len(files) /\ ~Counted(files, G, m)
  BY <1>4
<1> DEFINE y == Behind(files[m], G[m])
           x == G[m][0]
           pairs == {m} \X F(m)
<1>6. /\ x \in Context /\ y \in Context /\ IsFiniteSet(F(m)) /\ y.level = x.level + Cardinality(F(m))
  BY <1>1, <1>5 DEF FileLevel
<1>7. IsFiniteSet(pairs) /\ Cardinality(pairs) = Cardinality(F(m)) /\ Cardinality(F(m)) \in Nat
  <2> DEFINE one == {m}
             S == F(m)
  <2>1. IsFiniteSet(one) /\ Cardinality(one) = 1
    BY FS_Singleton
  <2>2. IsFiniteSet(S) /\ Cardinality(S) \in Nat
    BY <1>6, FS_CardinalityType
  <2> HIDE DEF one, S
  <2>3. IsFiniteSet(one \X S) /\ Cardinality(one \X S) = Cardinality(one) * Cardinality(S)
    BY <2>1, <2>2, FS_Product
  <2>4. Cardinality(one \X S) = Cardinality(S)
    BY <2>1, <2>2, <2>3
  <2> QED BY <2>2, <2>3, <2>4 DEF one, S
<1>8. CASE m = 1
  <2>1. 1..m = {1}
    BY <1>8
  <2>2. U(m) = pairs
    BY <1>8, <2>1 DEF OpenUpTo
  <2>3. x.level = 0
    BY <1>1, <1>8 DEF Root
  <2> HIDE DEF pairs
  <2>4. Counted(files, G, m)
    BY <1>6, <1>7, <2>2, <2>3 DEF Counted
  <2> QED BY <1>5, <2>4
<1>9. CASE m # 1
  <2> DEFINE k == m - 1
  <2>1. k \in 1..Len(files) /\ m \in 2..Len(files) /\ k < m /\ 1..m = 1..k \cup {m} /\ m \notin 1..k
    BY <1>1, <1>5, <1>9
  <2>2. Counted(files, G, k)
    BY <1>1, <1>4, <2>1
  <2>3. x = Behind(files[k], G[k])
    BY <1>1, <2>1
  <2> HIDE DEF k
  <2>4. IsFiniteSet(U(k)) /\ Cardinality(U(k)) = x.level
    BY <2>2, <2>3 DEF Counted
  <2>5. U(m) = U(k) \cup pairs
    BY <2>1 DEF OpenUpTo
  <2>6. U(k) \cap pairs = {}
    BY <2>1 DEF OpenUpTo
  <2>7. IsFiniteSet(U(m)) /\ Cardinality(U(m)) = y.level
    <3> DEFINE S == U(k)
    <3>1. x.level \in Nat
      BY <1>6, ContextType
    <3> HIDE DEF pairs, S
    <3>2. IsFiniteSet(S) /\ IsFiniteSet(pairs) /\ S \cap pairs = {} /\ Cardinality(S) = x.level
      BY <1>7, <2>4, <2>6 DEF S
    <3>3. IsFiniteSet(S \cup pairs) /\ Cardinality(S \cup pairs) = Cardinality(S) + Cardinality(pairs) - Cardinality(S \cap pairs)
      BY <3>2, FS_Union
    <3>4. Cardinality(S \cap pairs) = 0
      BY <3>2, FS_EmptySet
    <3>5. Cardinality(S \cup pairs) = y.level
      BY <1>6, <1>7, <3>1, <3>2, <3>3, <3>4
    <3> QED BY <2>5, <3>3, <3>5 DEF S
  <2> QED BY <1>5, <2>7 DEF Counted
<1> QED BY <1>8, <1>9

LEMMA LoopsOpen ==
  ASSUME NEW G, FilesSound(parsers, G), NEW x, x = Here(parsers, G)
  PROVE  Cardinality(OpenAll("foreach")) = x.level
<1> DEFINE n == Len(parsers)
<1>1. IsList(parsers, n) /\ n \in Nat /\ n > 0
  BY HereType
<1>2. DOMAIN parsers = 1..n
  BY <1>1, ListType DEF IsList
<1>3. OpenAll("foreach") = OpenUpTo(parsers, n, "foreach")
  BY <1>2 DEF OpenAll, OpenUpTo
<1>4. n \in 1..Len(parsers)
  BY <1>1
<1>5. Counted(parsers, G, n)
  BY <1>4, LevelsCounted
<1>6. Cardinality(OpenUpTo(parsers, n, "foreach")) = x.level
  BY <1>5 DEF Counted, Here
<1> QED BY <1>3, <1>6

-----------------------------------------------------------------------------
(* A name, and the path behind it. *)

LEMMA NamedSound ==
  ASSUME NEW G, FilesSound(parsers, G), NEW x, x = Here(parsers, G), NEW k \in Nat, NEW saved,
         NEW c, Compiling(c, x, k, k, saved), NEW szName
  PROVE  Compiling(Named(c, szName), x, k + 1, k + 1, saved)
<1> DEFINE g == G[Len(parsers)]
<1>1. x \in Context /\ Parser = Last(parsers) /\ FileSound(Parser, g) /\ x = g[Len(Parser.ops)]
  BY HereType DEF Parser
<1>2. k \in Int /\ k + 1 \in Nat /\ k + 1 \in Int /\ k + 1 > 0
  OBVIOUS
<1> HIDE DEF g
<1>3. NamesSound(Parser, x)
  BY <1>1 DEF FileSound
<1>4. CASE bIsBlockVar(szName)
  <2> DEFINE i == Parser.mCurrentBlock[szName]
  <2>1. Parser.bInBlock /\ szName \in DOMAIN Parser.mCurrentBlock
    BY <1>4 DEF bIsBlockVar
  <2>2. i \in 0..x.args - 1
    BY <1>3, <2>1 DEF NamesSound
  <2>3. Named(c, szName) = PushBlockVariable(c, i)
    BY <1>4 DEF Named
  <2> HIDE DEF i
  <2> QED BY <1>1, <2>2, <2>3, BlockVariableSound
<1>5. CASE ~bIsBlockVar(szName) /\ Parser.bInForeach /\ Known(c, szName)
  <2>1. Named(c, szName) = PushScopedVariable(c, szName)
    BY <1>5 DEF Named
  <2> QED BY <1>1, <1>5, <2>1, ScopedVariableSound
<1>6. CASE ~bIsBlockVar(szName) /\ ~(Parser.bInForeach /\ Known(c, szName))
  <2> DEFINE local == PrepareLocalScope(c, Cardinality(OpenAll("foreach")))
             item == TakeValue(local)
             j == k + 1
  <2>1. Compiling(local, x, k + 1, k + 1, saved)
    BY <1>1, <1>2, LoopsOpen, LocalScopeSound
  <2>2. Named(c, szName) = PushVariable(item) \/ Named(c, szName) = PushVariable(local)
    BY <1>6 DEF Named
  <2> HIDE DEF local
  <2>3. j \in Nat /\ j \in Int /\ j > 0 /\ Compiling(local, x, j, j, saved)
    BY <1>2, <2>1
  <2> HIDE DEF j
  <2>4. Compiling(item, x, j, j, saved)
    BY <1>1, <2>3, TakeValueSound
  <2> HIDE DEF item
  <2>5. Compiling(PushVariable(item), x, j, j, saved) /\ Compiling(PushVariable(local), x, j, j, saved)
    BY <1>1, <2>3, <2>4, PushVariableSound
  <2> QED BY <2>2, <2>5 DEF j
<1> QED BY <1>4, <1>5, <1>6

LEMMA VariableStep == ASSUME NEW szName PROVE IInv /\ Variable(szName) => IInv'
<1> SUFFICES ASSUME IInv, Variable(szName) PROVE IInv'
  OBVIOUS
<1>1. at = "operand" /\ expr # <<>> /\ Keep
  BY DEF Variable, Operand, InExpr
<1>2. PICK G, K, x, n, k, saved : Reading(G, K, x, n, k, saved)
  BY <1>1, ReadingNow
<1>3. /\ x \in Context /\ k \in Nat /\ k \in Int /\ k = K[n] + Valued(at) /\ K[n] \in Int
      /\ Standing(expr, x, K, n, expr[1]) /\ Compiling(oCompiler, x, k, k, saved)
      /\ FilesSound(parsers, G) /\ x = Here(parsers, G) /\ eResultOperator \in {"constant", "variable"}
  BY <1>2 DEF Reading
<1>4. k = K[n] /\ K[n] \in Nat /\ k + 1 \in Nat /\ k + 1 \in Int /\ k + 1 > 0
  BY <1>1, <1>3 DEF Valued
<1>5. CASE /\ LET c == Named(oCompiler, szName)
              IN Compile(IF IsIteratorName(szName) THEN TakeValue(c) ELSE c)
           /\ at' = "factor" /\ eResultOperator' = "variable" /\ expr' = expr
  <2> DEFINE c == Named(oCompiler, szName)
             t == TakeValue(c)
             d == IF IsIteratorName(szName) THEN t ELSE c
             j == k + 1
  <2>1. Compiling(c, x, j, j, saved)
    BY <1>3, NamedSound
  <2>2. Compile(d)
    BY <1>5
  <2>3. j \in Nat /\ j \in Int /\ j > 0 /\ j = K[n] + Valued(at')
    BY <1>4, <1>5 DEF Valued
  <2> HIDE DEF c, j
  <2>4. Compiling(t, x, j, j, saved)
    BY <1>3, <2>1, <2>3, TakeValueSound
  <2> HIDE DEF t
  <2>5. Compiling(d, x, j, j, saved)
    BY <2>1, <2>4
  <2> HIDE DEF d
  <2>6. CompilerSound(oCompiler', x, j, j, saved, {}) /\ TopKnown(oCompiler'.flow, x, j)
    BY <1>3, <2>2, <2>3, <2>5, CompiledSound
  <2>7. Standing(expr', x, K, n, expr[1]) /\ AtSound(at', expr') /\ eResultOperator' \in {"constant", "variable"}
    BY <1>1, <1>3, <1>5, Inside1
  <2> QED BY <1>1, <1>2, <2>3, <2>6, <2>7, ReadOn
<1>6. ASSUME NEW complex \in {~bInsideComplexVariable},
             LET prepare == complex /\ ~bIsBlockVar(szName)
             IN Compile(Named(IF prepare THEN PreparePushComplexVariable(oCompiler) ELSE oCompiler, szName)),
             Nested([k |-> "variable", complex |-> complex, block |-> bIsBlockVar(szName),
                     iterator |-> IsIteratorName(szName)]),
             at' = "step", eResultOperator' = eResultOperator
      PROVE  IInv'
  <2> DEFINE e == [k |-> "variable", complex |-> complex, block |-> bIsBlockVar(szName), iterator |-> IsIteratorName(szName)]
             prepare == complex /\ ~bIsBlockVar(szName)
             q == PreparePushComplexVariable(oCompiler)
             p == IF prepare THEN q ELSE oCompiler
             c == Named(p, szName)
             w == One(e.complex /\ ~e.block)
             i == k + w
             j == i + 1
  <2>1. e \in [k : {"variable"}, complex : BOOLEAN, block : BOOLEAN, iterator : BOOLEAN]
    <3>1. complex \in BOOLEAN
      BY <1>6
    <3>2. bIsBlockVar(szName) \in BOOLEAN /\ IsIteratorName(szName) \in BOOLEAN
      BY DEF bIsBlockVar, IsIteratorName
    <3> QED BY <3>1, <3>2
  <2>2. (e.complex /\ ~e.block) <=> prepare
    OBVIOUS
  <2>3. Compile(c) /\ expr' = Append(expr, e)
    BY <1>6 DEF Nested
  <2>4. e.k = "variable" /\ InnerSound(e, x, K[n]) /\ Held(e) = 1 + w /\ w \in Nat /\ Belongs(Innermost, e)
    <3>1. e.k = "variable"
      OBVIOUS
    <3> HIDE DEF e
    <3> QED BY <2>1, <3>1 DEF InnerSound, Held, Belongs, One
  <2>5. (prepare => w = 1) /\ (~prepare => w = 0)
    <3> HIDE DEF e, prepare
    <3> QED BY <2>2 DEF One
  <2> HIDE DEF e, w, prepare
  <2>6. i \in Nat /\ j \in Nat /\ j = K[n] + Held(e)
    BY <1>3, <1>4, <2>4
  <2>7. Compiling(p, x, i, i, saved)
    <3>1. Compiling(q, x, k + 1, k + 1, saved)
      BY <1>3, PrepareComplexSound
    <3> HIDE DEF q
    <3>2. CASE prepare
      BY <2>5, <3>1, <3>2
    <3>3. CASE ~prepare
      <4>1. i = k /\ p = oCompiler
        BY <1>3, <2>5, <3>3
      <4> HIDE DEF i, p
      <4> QED BY <1>3, <4>1
    <3> QED BY <3>2, <3>3
  <2> HIDE DEF p, i
  <2>8. Compiling(c, x, j, j, saved)
    BY <1>3, <2>6, <2>7, NamedSound
  <2> HIDE DEF c, j
  <2>9. CompilerSound(oCompiler', x, j, j, saved, {})
    BY <1>3, <2>3, <2>6, <2>8, CompiledSound
  <2>10. PICK L : Pushed(Append(expr, e), x, L, expr, K, n, expr[1], e)
    <3>1. Standing(expr, x, K, n, expr[1]) /\ K[n] \in Nat /\ InnerSound(e, x, K[n]) /\ Belongs(expr[n], e)
      BY <1>2, <1>3, <1>4, <2>4 DEF Reading
    <3> QED BY <3>1, FramePushed
  <2>11. Standing(expr', x, L, n + 1, expr[1]) /\ L[n + 1] = j /\ expr'[n + 1] = e
    BY <2>3, <2>6, <2>10 DEF Pushed
  <2>12. AtSound(at', expr') /\ j = L[n + 1] + Valued(at') /\ at' # "factor"
    <3>1. Len(expr') = n + 1 /\ expr' # <<>>
      BY <2>11 DEF Standing
    <3>2. AtSound(at', expr')
      BY <1>6, <2>4, <2>11, <3>1 DEF AtSound
    <3>3. Valued(at') = 0 /\ at' # "factor"
      BY <1>6 DEF Valued
    <3> QED BY <2>6, <2>11, <3>2, <3>3
  <2>13. eResultOperator' \in {"constant", "variable"}
    BY <1>3, <1>6
  <2> QED BY <1>1, <1>2, <2>6, <2>9, <2>11, <2>12, <2>13, ReadOn
<1> QED BY <1>5, <1>6 DEF Variable

(* A variable, over b values, in the middle of its path.                   *)
VariableNow(K, x, n, k, b) ==
  /\ n \in Nat /\ n > 1 /\ b = K[n - 1] /\ b \in Nat /\ Popped(Front(expr), x, expr, K, n, expr[1])
  /\ Innermost \in [k : {"variable"}, complex : BOOLEAN, block : BOOLEAN, iterator : BOOLEAN]
  /\ k = b + 1 + One(Innermost.complex /\ ~Innermost.block)

LEMMA VariableReading ==
  ASSUME NEW G, NEW K, NEW x, NEW n, NEW k, NEW saved, Reading(G, K, x, n, k, saved), at \in {"step", "path"}
  PROVE  VariableNow(K, x, n, k, K[n - 1])
<1> DEFINE e == Innermost
           b == K[n - 1]
<1>1. AtSound(at, expr) /\ expr[n] = e
  BY DEF Reading
<1>2. n \in Nat /\ Len(expr) = n
  BY InnerNow
<1>3. e.k = "variable"
  BY <1>1, <1>2 DEF AtSound
<1>4. n # 1
  BY <1>3, InnerNow
<1>5. /\ n > 1 /\ Popped(Front(expr), x, expr, K, n, expr[1]) /\ InnerSound(e, x, b) /\ b \in Nat
      /\ k = b + Held(e) + Valued(at)
  BY <1>4, InnerNow
<1> HIDE DEF e, b
<1>6. e \in [k : {"variable"}, complex : BOOLEAN, block : BOOLEAN, iterator : BOOLEAN]
  BY <1>3, <1>5, InnerKind
<1>7. Held(e) = 1 + One(e.complex /\ ~e.block) /\ One(e.complex /\ ~e.block) \in Nat /\ Valued(at) = 0
  BY <1>3 DEF Held, One, Valued
<1>8. k = b + 1 + One(e.complex /\ ~e.block)
  BY <1>5, <1>7
<1> QED BY <1>2, <1>5, <1>6, <1>8 DEF VariableNow, e, b

LEMMA ItemSound ==
  ASSUME NEW x \in Context, NEW k \in Nat, k > 0, NEW saved, Compiling(oCompiler, x, k, k, saved)
  PROVE  Compiling(Item(oCompiler), x, k, k, saved)
<1> DEFINE t == TakeValue(oCompiler)
<1>1. k \in Int
  OBVIOUS
<1>2. Compiling(t, x, k, k, saved)
  BY <1>1, TakeValueSound
<1>3. Item(oCompiler) = t \/ Item(oCompiler) = oCompiler
  BY DEF Item
<1> QED BY <1>2, <1>3

(* The iterator of a loop is looked up once only.                          *)
LEMMA NoIteratorIs ==
  ASSUME NEW K, NEW x, NEW n, NEW k, NEW b, VariableNow(K, x, n, k, b)
  PROVE  /\ InnerSound(NoIterator, x, b) /\ NoIterator.k = "variable" /\ k = b + Held(NoIterator)
         /\ k \in Nat /\ k > 0 /\ k \in Int /\ Standing(Front(expr), x, K, n - 1, expr[1])
<1> DEFINE e == Innermost
           f == NoIterator
<1>1. /\ e \in [k : {"variable"}, complex : BOOLEAN, block : BOOLEAN, iterator : BOOLEAN] /\ b \in Nat
      /\ k = b + 1 + One(e.complex /\ ~e.block) /\ Popped(Front(expr), x, expr, K, n, expr[1])
  BY DEF VariableNow
<1>2. f = [e EXCEPT !.iterator = FALSE]
  BY DEF NoIterator
<1> HIDE DEF e, f
<1>3. /\ f \in [k : {"variable"}, complex : BOOLEAN, block : BOOLEAN, iterator : BOOLEAN]
      /\ f.complex = e.complex /\ f.block = e.block /\ f.k = "variable"
  BY <1>1, <1>2
<1>4. InnerSound(f, x, b) /\ Held(f) = 1 + One(e.complex /\ ~e.block)
  BY <1>3 DEF InnerSound, Held
<1>5. One(e.complex /\ ~e.block) \in Nat
  BY DEF One
<1>6. k = b + Held(f) /\ k \in Nat /\ k > 0 /\ k \in Int
  BY <1>1, <1>4, <1>5
<1> QED BY <1>1, <1>3, <1>4, <1>6 DEF Popped, f

LEMMA DotStep == IInv /\ Dot => IInv'
<1> SUFFICES ASSUME IInv, Dot PROVE IInv'
  OBVIOUS
<1>1. /\ at \in {"step", "path"} /\ expr # <<>> /\ Replaced(NoIterator) /\ at' = "path" /\ Keep
      /\ eResultOperator' = eResultOperator
  BY DEF Dot, InPath, InExpr
<1>2. PICK internal \in BOOLEAN : Compile(IndirectCall(PushConst(IF internal THEN oCompiler ELSE Item(oCompiler))))
  BY DEF Dot
<1>3. PICK G, K, x, n, k, saved : Reading(G, K, x, n, k, saved)
  BY <1>1, ReadingNow
<1> DEFINE b == K[n - 1]
           f == NoIterator
           i == Item(oCompiler)
           d == IF internal THEN oCompiler ELSE i
           c == TakeValue(d)
<1>4. VariableNow(K, x, n, k, b)
  BY <1>1, <1>3, VariableReading
<1>5. /\ x \in Context /\ Standing(expr, x, K, n, expr[1]) /\ Compiling(oCompiler, x, k, k, saved)
      /\ eResultOperator \in {"constant", "variable"}
  BY <1>3 DEF Reading
<1>6. /\ InnerSound(f, x, b) /\ f.k = "variable" /\ k = b + Held(f) /\ k \in Nat /\ k > 0 /\ k \in Int
  BY <1>4, NoIteratorIs
<1>7. n > 1 /\ b = K[n - 1] /\ Belongs(expr[n - 1], f) /\ expr' = Front(expr) \o <<f>>
  BY <1>1, <1>4, <1>6 DEF VariableNow, Belongs, Replaced
<1>8. Compile(c)
  BY <1>2 DEF TakeValue
<1>9. Compiling(i, x, k, k, saved)
  BY <1>5, <1>6, ItemSound
<1> HIDE DEF i, f
<1>10. Compiling(d, x, k, k, saved)
  BY <1>5, <1>9
<1> HIDE DEF d
<1>11. Compiling(c, x, k, k, saved)
  BY <1>5, <1>6, <1>10, TakeValueSound
<1> HIDE DEF c
<1>12. CompilerSound(oCompiler', x, k, k, saved, {})
  BY <1>5, <1>6, <1>8, <1>11, CompiledSound
<1>13. PICK L : Changed(expr', x, L, expr, K, n, expr[1], f)
  BY <1>5, <1>6, <1>7, FrameReplaced
<1>14. Standing(expr', x, L, n, expr[1]) /\ L[n] = b + Held(f) /\ expr'[n] = f
  BY <1>13 DEF Changed
<1> HIDE DEF b
<1>15. k = L[n] + Valued(at') /\ AtSound(at', expr') /\ at' # "factor"
  <2>1. Len(expr') = n /\ expr' # <<>>
    BY <1>14 DEF Standing
  <2>2. AtSound(at', expr') /\ at' # "factor"
    BY <1>1, <1>6, <1>14, <2>1 DEF AtSound
  <2>3. Valued(at') = 0
    BY <1>1 DEF Valued
  <2> QED BY <1>6, <1>14, <2>2, <2>3
<1>16. eResultOperator' \in {"constant", "variable"}
  BY <1>1, <1>5
<1> QED BY <1>1, <1>3, <1>6, <1>12, <1>14, <1>15, <1>16, ReadOn

LEMMA IndexStep == IInv /\ Index => IInv'
<1> SUFFICES ASSUME IInv, Index PROVE IInv'
  OBVIOUS
<1> DEFINE f == NoIterator
           l == Logical("key")
           c == Item(oCompiler)
<1>1. /\ at \in {"step", "path"} /\ expr # <<>> /\ Compile(c) /\ expr' = Front(expr) \o <<f, l>> /\ at' = "operand"
      /\ Keep /\ eResultOperator' = eResultOperator
  BY DEF Index, InPath, InExpr
<1>2. PICK G, K, x, n, k, saved : Reading(G, K, x, n, k, saved)
  BY <1>1, ReadingNow
<1> DEFINE b == K[n - 1]
           m == n - 1
           p == n + 1
           s == Front(expr)
<1>3. VariableNow(K, x, n, k, b)
  BY <1>1, <1>2, VariableReading
<1>4. x \in Context /\ Compiling(oCompiler, x, k, k, saved) /\ eResultOperator \in {"constant", "variable"}
  BY <1>2 DEF Reading
<1>5. /\ InnerSound(f, x, b) /\ f.k = "variable" /\ k = b + Held(f) /\ k \in Nat /\ k > 0 /\ k \in Int
      /\ Standing(s, x, K, m, expr[1])
  BY <1>3, NoIteratorIs
<1>6. b \in Nat /\ K[m] = b /\ p = m + 2 /\ Owns(f, l)
  BY <1>3, <1>5 DEF VariableNow, Owns
<1>7. Compiling(c, x, k, k, saved)
  BY <1>4, <1>5, ItemSound
<1> HIDE DEF c, f, l, b, m, p, s
<1>8. CompilerSound(oCompiler', x, k, k, saved, {})
  BY <1>1, <1>4, <1>5, <1>7, CompiledSound
<1>9. expr' = s \o <<f, l>> /\ K[m] \in Nat /\ InnerSound(f, x, K[m])
  BY <1>1, <1>5, <1>6 DEF s
<1>10. PICK L : Reached(expr', x, L, p, expr[1], K[m] + Held(f))
  BY <1>5, <1>6, <1>9, FramesOpened
<1>11. Standing(expr', x, L, p, expr[1]) /\ L[p] = k /\ expr' # <<>>
  BY <1>5, <1>6, <1>10 DEF Reached
<1>12. k = L[p] + Valued(at') /\ AtSound(at', expr') /\ at' # "factor"
  <2>1. Valued(at') = 0 /\ AtSound(at', expr') /\ at' # "factor"
    BY <1>1, <1>11, Inside1 DEF Valued
  <2> QED BY <1>5, <1>11, <2>1
<1>13. eResultOperator' \in {"constant", "variable"}
  BY <1>1, <1>4
<1> QED BY <1>1, <1>2, <1>5, <1>8, <1>11, <1>12, <1>13, ReadOn

LEMMA CloseIndexStep == IInv /\ CloseIndex => IInv'
<1> SUFFICES ASSUME IInv, CloseIndex PROVE IInv'
  OBVIOUS
<1> DEFINE e == Innermost
           d == Disjoined(oCompiler, e)
           c == IndirectCall(d)
<1>1. /\ Operator /\ expr # <<>> /\ e.of = "key" /\ Compile(c) /\ expr' = Front(expr) /\ at' = "path" /\ Keep
      /\ eResultOperator' = eResultOperator
  BY DEF CloseIndex, Operator, Factor, InExpr
<1>2. PICK G, K, x, n, k, saved : Reading(G, K, x, n, k, saved)
  BY <1>1, ReadingNow
<1> DEFINE b == K[n - 1]
           m == b + 1
<1>3. LogicalNow(K, x, n, k, b) /\ b \in Nat /\ x \in Context /\ Computed(oCompiler, e, x, b, saved)
  BY <1>1, <1>2, OperandComputed
<1>4. Popped(Front(expr), x, expr, K, n, expr[1]) /\ n \in Nat /\ n > 1 /\ Len(expr) = n
  BY <1>2, <1>3, InnerNow DEF LogicalNow
<1> HIDE DEF b
<1>5. PICK g : Around(K, x, n, b, g) /\ g \in [k : {"variable"}, complex : BOOLEAN, block : BOOLEAN, iterator : BOOLEAN]
  BY <1>1, <1>2, <1>3, EnclosingFrame
<1> HIDE DEF e
<1>6. K[n - 2] \in Nat /\ Enclosing = g /\ b = K[n - 2] + Held(g) /\ g.k = "variable"
  BY <1>5 DEF Around
<1>7. Held(g) = 1 + One(g.complex /\ ~g.block) /\ One(g.complex /\ ~g.block) \in Nat
  BY <1>6 DEF Held, One
<1>8. m \in Nat /\ m \in Int /\ m > 1 /\ m - 1 = b
  BY <1>3, <1>6, <1>7
<1>9. Compiling(d, x, m, m, saved)
  BY <1>3 DEF Computed
<1> HIDE DEF d, m
<1>10. Compiling(c, x, m - 1, m - 1, saved)
  BY <1>3, <1>8, <1>9, IndirectCallSound
<1>11. Compiling(c, x, b, b, saved)
  BY <1>8, <1>10
<1> HIDE DEF c
<1>12. CompilerSound(oCompiler', x, b, b, saved, {})
  BY <1>1, <1>3, <1>11, CompiledSound
<1>13. /\ Standing(expr', x, K, n - 1, expr[1]) /\ expr'[n - 1] = g
  <2>1. Standing(Front(expr), x, K, n - 1, expr[1]) /\ \A i \in 1..n - 1 : Front(expr)[i] = expr[i]
    BY <1>4 DEF Popped
  <2>2. n - 1 \in 1..n - 1
    BY <1>4
  <2>3. expr[n - 1] = g
    BY <1>4, <1>6 DEF Enclosing
  <2> QED BY <1>1, <2>1, <2>2, <2>3
<1>14. b = K[n - 1] + Valued(at') /\ AtSound(at', expr') /\ at' # "factor"
  <2>1. Len(expr') = n - 1 /\ expr' # <<>>
    BY <1>13 DEF Standing
  <2>2. AtSound(at', expr') /\ at' # "factor"
    BY <1>1, <1>6, <1>13, <2>1 DEF AtSound
  <2>3. Valued(at') = 0 /\ b = K[n - 1]
    BY <1>1 DEF Valued, b
  <2> QED BY <1>3, <2>2, <2>3
<1>15. eResultOperator' \in {"constant", "variable"}
  BY <1>1, <1>2 DEF Reading
<1> QED BY <1>1, <1>2, <1>3, <1>12, <1>13, <1>14, <1>15, ReadOn

LEMMA EndPathStep == IInv /\ EndPath => IInv'
<1> SUFFICES ASSUME IInv, EndPath PROVE IInv'
  OBVIOUS
<1> DEFINE e == Innermost
           twice == e.complex /\ ~e.block
           d == ClearPushComplexVariable(oCompiler)
           c == IF twice THEN d ELSE oCompiler
<1>1. /\ at = "path" /\ expr # <<>> /\ Compile(c) /\ expr' = Front(expr) /\ at' = "factor" /\ Keep
      /\ eResultOperator' = "variable"
  BY DEF EndPath, InExpr
<1>2. PICK G, K, x, n, k, saved : Reading(G, K, x, n, k, saved)
  BY <1>1, ReadingNow
<1> DEFINE b == K[n - 1]
           j == b + 1
<1>3. VariableNow(K, x, n, k, b)
  BY <1>1, <1>2, VariableReading
<1>4. x \in Context /\ Compiling(oCompiler, x, k, k, saved) /\ k \in Nat /\ k \in Int
  BY <1>2 DEF Reading
<1>5. /\ b \in Nat /\ k = b + 1 + One(twice) /\ Standing(expr', x, K, n - 1, expr[1])
  BY <1>1, <1>3 DEF VariableNow, Popped
<1> HIDE DEF b, twice
<1>6. j \in Nat /\ (twice => k > 1 /\ k - 1 = j) /\ (~twice => k = j)
  BY <1>5 DEF One
<1>7. Compiling(c, x, j, j, saved)
  <2>1. CASE twice
    <3>1. Compiling(d, x, k - 1, k - 1, saved)
      BY <1>4, <1>6, <2>1, ClearComplexSound
    <3> HIDE DEF d, j
    <3> QED BY <1>6, <2>1, <3>1
  <2>2. CASE ~twice
    <3> HIDE DEF j
    <3> QED BY <1>4, <1>6, <2>2
  <2> QED BY <2>1, <2>2
<1> HIDE DEF c
<1>8. j = K[n - 1] + Valued(at') /\ AtSound(at', expr') /\ eResultOperator' \in {"constant", "variable"}
  BY <1>1, <1>5, Inside1 DEF Valued, Standing, b
<1> HIDE DEF j
<1>9. CompilerSound(oCompiler', x, j, j, saved, {}) /\ TopKnown(oCompiler'.flow, x, j)
  BY <1>1, <1>4, <1>6, <1>7, CompiledSound
<1> QED BY <1>1, <1>2, <1>5, <1>6, <1>8, <1>9, ReadOn

(* The expressions. *)
LEMMA ExpressionStep == IInv /\ Expressions => IInv'
BY ConstantStep, ParenthesisStep, ApplyUnaryStep, MulStep, SimpleStep, AndStep, OrStep, CloseStep, FunctionStep,
   CommaStep, CloseFunctionStep, VariableStep, DotStep, IndexStep, CloseIndexStep, EndPathStep
   DEF Expressions

-----------------------------------------------------------------------------
(* Between two statements, and the outermost frame. *)

Between(G, x) ==
  /\ FilesSound(parsers, G) /\ x = Here(parsers, G) /\ x \in Context /\ SizesSound(mBlockArgSizes)
  /\ CompilerSound(oCompiler, x, 0, 0, <<>>, {}) /\ Compiling(oCompiler, x, 0, 0, <<>>)
  /\ expr = <<>> /\ eResultOperator \in {"constant", "variable"}

LEMMA TextNow ==
  ASSUME IInv, at = "text"
  PROVE  \E G, x : Between(G, x)
<1>1. PICK G, K : Sound(G, K)
  BY DEF IInv
<1> DEFINE x == Here(parsers, G)
           none == <<>>
           k == K[Len(expr)] + Valued(at)
<1>2. /\ FilesSound(parsers, G) /\ ExprSound(x, expr, K, at, oCompiler)
      /\ SizesSound(mBlockArgSizes) /\ eResultOperator \in {"constant", "variable"}
  BY <1>1 DEF Sound
<1>3. /\ FramesSound(expr, x, K) /\ AtSound(at, expr)
      /\ CompilerSound(oCompiler, x, k, k, SavedDepths(x, expr), {})
  BY <1>2 DEF ExprSound
<1>4. x \in Context
  BY <1>2, HereType
<1>5. expr = <<>> /\ Valued(at) = 0
  BY <1>3 DEF AtSound, Valued
<1>6. SavedDepths(x, expr) = none
  BY <1>5 DEF SavedDepths
<1>7. k = 0
  <2>1. Len(expr) = 0 /\ K[0] = 0
    BY <1>3, <1>5, FrameOf
  <2> QED BY <1>5, <2>1
<1> HIDE DEF x, none, k
<1>8. CompilerSound(oCompiler, x, 0, 0, none, {})
  BY <1>3, <1>6, <1>7
<1>9. Compiling(oCompiler, x, 0, 0, none)
  BY <1>8, StartCompiling
<1>10. Between(G, x)
  BY <1>2, <1>4, <1>5, <1>8, <1>9 DEF Between, x, none
<1> QED BY <1>10

LEMMA TextOn ==
  ASSUME NEW G, FilesSound(parsers', G), NEW x, x = Here(parsers', G), expr' = <<>>,
         at' \in {"text", "done", "error", "undefined"}, CompilerSound(oCompiler', x, 0, 0, <<>>, {}),
         SizesSound(mBlockArgSizes'), eResultOperator' \in {"constant", "variable"}
  PROVE  IInv'
<1> DEFINE none == <<>>
<1>1. PICK L : FramesSound(none, x, L) /\ L[0] = 0
  BY NoFrames
<1>2. SavedDepths(x, none) = none /\ Len(none) = 0 /\ Valued(at') = 0 /\ AtSound(at', none)
  BY DEF SavedDepths, Valued, AtSound
<1>3. L[Len(none)] + Valued(at') = 0
  BY <1>1, <1>2
<1>4. TrailSound(at', oCompiler'.flow, x, 0)
  BY DEF TrailSound
<1>5. expr' = none /\ CompilerSound(oCompiler', x, 0, 0, none, {})
  OBVIOUS
<1> HIDE DEF none
<1>6. ExprSound(x, expr', L, at', oCompiler')
  BY <1>1, <1>2, <1>3, <1>4, <1>5 DEF ExprSound
<1>7. ElsifSound(expr', parsers')
  BY DEF ElsifSound
<1>8. Sound(G, L)'
  BY <1>6, <1>7 DEF Sound
<1> QED BY <1>8 DEF IInv

LEMMA NoElsif ==
  ASSUME NEW e, NEW files, e.of # "elsif"
  PROVE  ElsifSound(<<e>>, files)
BY DEF ElsifSound

LEMMA StatementOn ==
  ASSUME NEW G, FilesSound(parsers', G), NEW x, x = Here(parsers', G), NEW e, expr' = <<e>>, StatementSound(e),
         ElsifSound(<<e>>, parsers'),
         at' = "operand" \/ (at' = "arguments" /\ e.of = "call"), NEW k \in Nat, k = Held(e) + Valued(at'),
         CompilerSound(oCompiler', x, k, k, IF e.of = "call" THEN <<8 * x.level + One(e.bIsVariable)>> ELSE <<>>, {}),
         SizesSound(mBlockArgSizes'), eResultOperator' \in {"constant", "variable"}
  PROVE  IInv'
<1> DEFINE t == <<e>>
           saved == IF e.of = "call" THEN <<8 * x.level + One(e.bIsVariable)>> ELSE <<>>
<1>1. PICK L : Standing(t, x, L, 1, e) /\ L[1] = Held(e)
  BY FrameFirst
<1>2. t[1] = e /\ t # <<>> /\ Len(t) = 1
  OBVIOUS
<1>3. CompilerSound(oCompiler', x, k, k, saved, {}) /\ expr' = t
  OBVIOUS
<1> HIDE DEF t
<1>4. SavedDepths(x, t) = saved
  BY <1>2 DEF SavedDepths
<1>5. AtSound(at', t)
  BY <1>2 DEF AtSound
<1>6. TrailSound(at', oCompiler'.flow, x, k)
  BY DEF TrailSound
<1> HIDE DEF saved
<1>7. FramesSound(t, x, L) /\ L[Len(t)] + Valued(at') = k
  BY <1>1, <1>2 DEF Standing
<1>8. ExprSound(x, expr', L, at', oCompiler')
  BY <1>3, <1>4, <1>5, <1>6, <1>7 DEF ExprSound
<1>9. ElsifSound(expr', parsers')
  BY DEF t
<1>10. Sound(G, L)'
  BY <1>8, <1>9 DEF Sound
<1> QED BY <1>10 DEF IInv

LEMMA TextStep == IInv /\ Text => IInv'
<1> SUFFICES ASSUME IInv, Text PROVE IInv'
  OBVIOUS
<1> DEFINE c == OutputStaticData(oCompiler)
           none == <<>>
<1>1. /\ at = "text" /\ Compile(c) /\ at' = at /\ parsers' = parsers /\ mBlockArgSizes' = mBlockArgSizes
      /\ expr' = expr /\ eResultOperator' = eResultOperator
  BY DEF Text, InText
<1>2. PICK G, x : Between(G, x)
  BY <1>1, TextNow
<1>3. /\ FilesSound(parsers, G) /\ x = Here(parsers, G) /\ x \in Context /\ SizesSound(mBlockArgSizes)
      /\ CompilerSound(oCompiler, x, 0, 0, none, {}) /\ expr = <<>> /\ eResultOperator \in {"constant", "variable"}
  BY <1>2 DEF Between
<1>4. 0 \in Nat /\ 0 \in Int /\ Ready({}, 0, {})
  BY SoonReady
<1> HIDE DEF none
<1>5. CompilerSound(c, x, 0, 0, none, {})
  BY <1>3, <1>4, OutputStaticSound
<1> HIDE DEF c
<1>6. Compiling(c, x, 0, 0, none)
  BY <1>5, StartCompiling
<1>7. CompilerSound(oCompiler', x, 0, 0, none, {})
  BY <1>1, <1>3, <1>4, <1>6, CompiledSound
<1>8. FilesSound(parsers', G) /\ x = Here(parsers', G) /\ expr' = <<>> /\ at' \in {"text", "done", "error", "undefined"}
      /\ SizesSound(mBlockArgSizes') /\ eResultOperator' \in {"constant", "variable"}
  BY <1>1, <1>3
<1> QED BY <1>7, <1>8, TextOn DEF none

LEMMA StartStatementStep ==
  ASSUME IInv, NEW s \in {"var", "if", "unless", "foreach", "callee"}, StartStatement(s)
  PROVE  IInv'
<1> DEFINE e == [k |-> "statement", of |-> s]
           none == <<>>
<1>1. /\ at = "text" /\ expr' = <<e>> /\ at' = "operand" /\ oCompiler' = oCompiler /\ parsers' = parsers
      /\ mBlockArgSizes' = mBlockArgSizes /\ eResultOperator' = eResultOperator
  BY DEF StartStatement, InText, Statement, Keep
<1>2. PICK G, x : Between(G, x)
  BY <1>1, TextNow
<1>3. /\ FilesSound(parsers, G) /\ x = Here(parsers, G) /\ x \in Context /\ SizesSound(mBlockArgSizes)
      /\ CompilerSound(oCompiler, x, 0, 0, none, {}) /\ eResultOperator \in {"constant", "variable"}
  BY <1>2 DEF Between
<1>4. StatementSound(e) /\ e.of # "call" /\ e.of # "elsif" /\ Held(e) = 0
  BY DEF StatementSound, Held
<1>5. 0 \in Nat /\ 0 = Held(e) + Valued(at')
  BY <1>1, <1>4 DEF Valued
<1> HIDE DEF e
<1>6. CompilerSound(oCompiler', x, 0, 0, IF e.of = "call" THEN <<8 * x.level + One(e.bIsVariable)>> ELSE none, {})
  BY <1>1, <1>3, <1>4
<1>7. FilesSound(parsers', G) /\ x = Here(parsers', G) /\ SizesSound(mBlockArgSizes')
      /\ eResultOperator' \in {"constant", "variable"}
  BY <1>1, <1>3
<1>8. ElsifSound(<<e>>, parsers')
  BY <1>4, NoElsif
<1> QED BY <1>1, <1>4, <1>5, <1>6, <1>7, <1>8, StatementOn

(* The value of a statement is on the stack.                               *)
Answered(G, x) ==
  /\ FilesSound(parsers, G) /\ x = Here(parsers, G) /\ x \in Context /\ SizesSound(mBlockArgSizes)
  /\ CompilerSound(oCompiler, x, 1, 1, <<>>, {}) /\ Compiling(oCompiler, x, 1, 1, <<>>)
  /\ TopKnown(oCompiler.flow, x, 1) /\ eResultOperator \in {"constant", "variable"}
  /\ expr # <<>> /\ expr[1] = Innermost /\ ElsifSound(expr, parsers)

LEMMA StatementReading ==
  ASSUME IInv, Factor("statement"), Innermost.of # "call"
  PROVE  \E G, x : Answered(G, x)
<1> DEFINE e == Innermost
           none == <<>>
<1>1. at = "factor" /\ expr # <<>> /\ e.k = "statement"
  BY DEF Factor, InExpr
<1>2. PICK G, K, x, n, k, saved : Reading(G, K, x, n, k, saved)
  BY <1>1, ReadingNow
<1>3. /\ FilesSound(parsers, G) /\ x = Here(parsers, G) /\ x \in Context /\ SizesSound(mBlockArgSizes)
      /\ CompilerSound(oCompiler, x, k, k, saved, {}) /\ Compiling(oCompiler, x, k, k, saved)
      /\ TopKnown(oCompiler.flow, x, k) /\ eResultOperator \in {"constant", "variable"}
      /\ saved = SavedDepths(x, expr) /\ expr[n] = e /\ ElsifSound(expr, parsers)
  BY <1>1, <1>2 DEF Reading, TrailSound
<1>4. n = 1 /\ k = Held(e) + Valued(at)
  BY <1>1, <1>2, InnerNow
<1>5. saved = none
  BY <1>3, <1>4 DEF SavedDepths
<1>6. k = 1
  BY <1>1, <1>4 DEF Held, Valued
<1>7. Answered(G, x)
  BY <1>1, <1>3, <1>4, <1>5, <1>6 DEF Answered
<1> QED BY <1>7

(* The end of a statement, and of the code for it. *)
LEMMA EndStatementStep ==
  ASSUME NEW G, NEW x, Answered(G, x), EndStatement, Keep, NEW c, Compile(c), CompilerSound(c, x, 0, 0, <<>>, {})
  PROVE  IInv'
<1> DEFINE none == <<>>
<1>1. /\ FilesSound(parsers, G) /\ x = Here(parsers, G) /\ x \in Context /\ SizesSound(mBlockArgSizes)
  BY DEF Answered
<1>2. CompilerSound(c, x, 0, 0, none, {}) /\ 0 \in Nat
  OBVIOUS
<1> HIDE DEF none
<1>3. Compiling(c, x, 0, 0, none)
  BY <1>2, StartCompiling
<1>4. CompilerSound(oCompiler', x, 0, 0, none, {})
  BY <1>1, <1>2, <1>3, CompiledSound
<1>5. FilesSound(parsers', G) /\ x = Here(parsers', G) /\ SizesSound(mBlockArgSizes') /\ expr' = <<>>
      /\ at' \in {"text", "done", "error", "undefined"} /\ eResultOperator' \in {"constant", "variable"}
  BY <1>1 DEF Keep, EndStatement
<1> QED BY <1>4, <1>5, TextOn DEF none

LEMMA VarStep == IInv /\ VarOperator => IInv'
<1> SUFFICES ASSUME IInv, VarOperator PROVE IInv'
  OBVIOUS
<1>1. CASE StartStatement("var")
  BY <1>1, StartStatementStep
<1>2. CASE Condition("var") /\ Compile(OutputVariable(oCompiler)) /\ Keep
  <2> DEFINE c == OutputVariable(oCompiler)
  <2>1. Factor("statement") /\ Innermost.of # "call" /\ EndStatement
    BY <1>2 DEF Condition
  <2>2. PICK G, x : Answered(G, x)
    BY <2>1, StatementReading
  <2>3. CompilerSound(c, x, 0, 0, <<>>, {})
    BY <2>2, OutputSound DEF Answered
  <2>4. Compile(c) /\ Keep
    BY <1>2
  <2> HIDE DEF c
  <2> QED BY <2>1, <2>2, <2>3, <2>4, EndStatementStep
<1> QED BY <1>1, <1>2 DEF VarOperator

-----------------------------------------------------------------------------
(* <TMPL_call>. *)

LEMMA StartCallStep ==
  ASSUME NEW G, FilesSound(parsers, G), NEW x, x = Here(parsers, G), x \in Context, SizesSound(mBlockArgSizes),
         eResultOperator \in {"constant", "variable"}, NEW b \in BOOLEAN, NEW k \in Nat, k = One(b),
         CompilerSound(oCompiler, x, k, k, <<>>, {}), NEW n \in Nat, StartCall(oCompiler, CallFrame(b, n))
  PROVE  IInv'
<1> DEFINE e == CallFrame(b, n)
           c == PrepareCallBlock(oCompiler)
           saved == <<8 * x.level + k>>
<1>1. /\ Compile(c) /\ expr' = <<e>> /\ at' = "arguments" /\ eResultOperator' = eResultOperator
      /\ parsers' = parsers /\ mBlockArgSizes' = mBlockArgSizes
  BY DEF StartCall, Keep
<1>2. e.k = "statement" /\ e.of = "call" /\ e.bIsVariable = b /\ e.iFormalArgCount = n /\ e.iArgCount = 0
  BY DEF CallFrame
<1>3. StatementSound(e)
  <2>1. CallSound(e)
    BY DEF CallFrame, CallSound
  <2> QED BY <1>2, <2>1 DEF StatementSound
<1> HIDE DEF e
<1>4. k = Held(e) + Valued(at') /\ k \in Int
  BY <1>1, <1>2 DEF Held, Valued
<1>5. CompilerSound(c, x, k, k, saved, {})
  BY PrepareCallSound
<1> HIDE DEF c, saved
<1>6. Compiling(c, x, k, k, saved)
  BY <1>5, StartCompiling
<1>7. CompilerSound(oCompiler', x, k, k, saved, {})
  BY <1>1, <1>6, CompiledSound
<1>8. (IF e.of = "call" THEN <<8 * x.level + One(e.bIsVariable)>> ELSE <<>>) = saved
  BY <1>2 DEF saved
<1>9. CompilerSound(oCompiler', x, k, k, IF e.of = "call" THEN <<8 * x.level + One(e.bIsVariable)>> ELSE <<>>, {})
  BY <1>7, <1>8
<1>10. FilesSound(parsers', G) /\ x = Here(parsers', G) /\ SizesSound(mBlockArgSizes')
       /\ eResultOperator' \in {"constant", "variable"}
  BY <1>1
<1>11. ElsifSound(<<e>>, parsers')
  BY <1>2, NoElsif
<1> QED BY <1>1, <1>2, <1>3, <1>4, <1>9, <1>10, <1>11, StatementOn

LEMMA CallStep == IInv /\ CallOperator => IInv'
<1> SUFFICES ASSUME IInv, CallOperator PROVE IInv'
  OBVIOUS
<1>1. ASSUME InText, NEW b \in DOMAIN mBlockArgSizes, StartCall(oCompiler, CallFrame(FALSE, mBlockArgSizes[b]))
      PROVE  IInv'
  <2> DEFINE n == mBlockArgSizes[b]
             no == FALSE
  <2>1. PICK G, x : Between(G, x)
    BY <1>1, TextNow DEF InText
  <2>2. /\ FilesSound(parsers, G) /\ x = Here(parsers, G) /\ x \in Context /\ SizesSound(mBlockArgSizes)
        /\ CompilerSound(oCompiler, x, 0, 0, <<>>, {}) /\ eResultOperator \in {"constant", "variable"}
    BY <2>1 DEF Between
  <2>3. n \in Nat /\ no \in BOOLEAN /\ 0 = One(no) /\ 0 \in Nat
    BY <1>1, <2>2 DEF SizesSound, One
  <2>4. StartCall(oCompiler, CallFrame(no, n))
    BY <1>1
  <2> HIDE DEF n, no
  <2> QED BY <2>2, <2>3, <2>4, StartCallStep
<1>2. CASE StartStatement("callee")
  BY <1>2, StartStatementStep
<1>3. CASE Factor("statement") /\ Innermost.of = "callee" /\ StartCall(oCompiler, CallFrame(TRUE, 0))
  <2> DEFINE yes == TRUE
             n == 0
  <2>1. PICK G, x : Answered(G, x)
    BY <1>3, StatementReading
  <2>2. /\ FilesSound(parsers, G) /\ x = Here(parsers, G) /\ x \in Context /\ SizesSound(mBlockArgSizes)
        /\ CompilerSound(oCompiler, x, 1, 1, <<>>, {}) /\ eResultOperator \in {"constant", "variable"}
    BY <2>1 DEF Answered
  <2>3. n \in Nat /\ yes \in BOOLEAN /\ 1 = One(yes) /\ 1 \in Nat
    BY DEF One
  <2>4. StartCall(oCompiler, CallFrame(yes, n))
    BY <1>3
  <2> HIDE DEF n, yes
  <2> QED BY <2>2, <2>3, <2>4, StartCallStep
<1> QED BY <1>1, <1>2, <1>3 DEF CallOperator

(* The call that is read, with its arguments so far on the stack.          *)
Calling(G, x, e, k) ==
  /\ FilesSound(parsers, G) /\ x = Here(parsers, G) /\ x \in Context /\ SizesSound(mBlockArgSizes)
  /\ e = Innermost /\ StatementSound(e) /\ e.of = "call" /\ CallSound(e)
  /\ k \in Nat /\ k = e.iArgCount + One(e.bIsVariable)
  /\ CompilerSound(oCompiler, x, k, k, <<8 * x.level + One(e.bIsVariable)>>, {})
  /\ eResultOperator \in {"constant", "variable"}

LEMMA CallReading ==
  ASSUME IInv, at = "arguments"
  PROVE  \E G, x, e, k : Calling(G, x, e, k)
<1> DEFINE e == Innermost
<1>1. expr # <<>>
  BY DEF IInv, Sound, ExprSound, AtSound
<1>2. PICK G, K, x, n, k, saved : Reading(G, K, x, n, k, saved)
  BY <1>1, ReadingNow
<1>3. /\ FilesSound(parsers, G) /\ x = Here(parsers, G) /\ x \in Context /\ SizesSound(mBlockArgSizes)
      /\ CompilerSound(oCompiler, x, k, k, saved, {}) /\ k \in Nat
      /\ eResultOperator \in {"constant", "variable"} /\ AtSound(at, expr)
      /\ saved = SavedDepths(x, expr) /\ expr[n] = e
  BY <1>2 DEF Reading
<1>4. n = 1 /\ e.of = "call" /\ expr[1] = e
  <2>1. Len(expr) = n
    BY <1>2, InnerNow
  <2> QED BY <1>3, <2>1 DEF AtSound
<1>5. StatementSound(e) /\ e.k = "statement" /\ k = Held(e) + Valued(at)
  BY <1>2, <1>4, InnerNow
<1>6. CallSound(e)
  BY <1>4, <1>5 DEF StatementSound
<1>7. k = e.iArgCount + One(e.bIsVariable)
  <2>1. e.iArgCount \in Nat /\ One(e.bIsVariable) \in Nat
    BY <1>6 DEF CallSound, One
  <2>2. Held(e) = e.iArgCount - 1 + One(e.bIsVariable) /\ Valued(at) = 1
    BY <1>4, <1>5 DEF Held, Valued
  <2> QED BY <1>5, <2>1, <2>2
<1>8. saved = <<8 * x.level + One(e.bIsVariable)>>
  BY <1>1, <1>3, <1>4 DEF SavedDepths
<1>9. CompilerSound(oCompiler, x, k, k, <<8 * x.level + One(e.bIsVariable)>>, {})
  BY <1>3, <1>8
<1> HIDE DEF e
<1>10. Calling(G, x, e, k)
  BY <1>3, <1>4, <1>5, <1>6, <1>7, <1>9 DEF Calling, e
<1> QED BY <1>10

LEMMA ArgumentStep == IInv /\ Argument => IInv'
<1> SUFFICES ASSUME IInv, Argument PROVE IInv'
  OBVIOUS
<1> DEFINE f == [Innermost EXCEPT !.iArgCount = @ + 1, !.listed = TRUE]
<1>1. /\ at = "arguments" /\ expr' = <<f>> /\ at' = "operand" /\ oCompiler' = oCompiler /\ eResultOperator' = eResultOperator
      /\ parsers' = parsers /\ mBlockArgSizes' = mBlockArgSizes
  BY DEF Argument, Keep
<1>2. PICK G, x, e, k : Calling(G, x, e, k)
  BY <1>1, CallReading
<1>3. /\ FilesSound(parsers, G) /\ x = Here(parsers, G) /\ SizesSound(mBlockArgSizes)
      /\ e = Innermost /\ CallSound(e) /\ k \in Nat /\ k = e.iArgCount + One(e.bIsVariable)
      /\ CompilerSound(oCompiler, x, k, k, <<8 * x.level + One(e.bIsVariable)>>, {})
      /\ eResultOperator \in {"constant", "variable"}
  BY <1>2 DEF Calling
<1>4. f = [e EXCEPT !.iArgCount = e.iArgCount + 1, !.listed = TRUE]
  BY <1>3
<1> HIDE DEF f
<1>5. /\ f.k = "statement" /\ f.of = "call" /\ f.bIsVariable = e.bIsVariable /\ f.iArgCount = e.iArgCount + 1
      /\ CallSound(f)
  <2> DEFINE C == [k : {"statement"}, of : {"call"}, bIsVariable : BOOLEAN, iFormalArgCount : Nat, iArgCount : Nat,
                   listed : BOOLEAN]
             m == e.iArgCount + 1
             yes == TRUE
             g == [e EXCEPT !.iArgCount = m]
  <2>1. e \in C /\ m \in Nat /\ yes \in BOOLEAN /\ yes
    BY <1>3 DEF CallSound
  <2>2. f = [g EXCEPT !.listed = yes]
    BY <1>4
  <2> HIDE DEF m, yes
  <2>3. g \in C /\ g.bIsVariable = e.bIsVariable /\ g.iArgCount = m
    BY <2>1
  <2> HIDE DEF g
  <2>4. f \in C /\ f.bIsVariable = e.bIsVariable /\ f.iArgCount = m /\ f.listed = yes
    BY <2>1, <2>2, <2>3
  <2>5. f.k = "statement" /\ f.of = "call"
    BY <2>4
  <2>6. CallSound(f)
    BY <2>1, <2>4 DEF CallSound
  <2> QED BY <2>4, <2>5, <2>6 DEF m
<1>6. e.iArgCount \in Nat
  BY <1>3 DEF CallSound
<1>7. StatementSound(f)
  BY <1>5 DEF StatementSound
<1>8. k = Held(f) + Valued(at')
  <2>1. Held(f) = f.iArgCount - 1 + One(f.bIsVariable)
    <3> HIDE DEF f
    <3> QED BY <1>5 DEF Held
  <2>a. Valued(at') = 0
    BY <1>1 DEF Valued
  <2>2. One(e.bIsVariable) \in Nat
    BY DEF One
  <2> QED BY <1>3, <1>5, <1>6, <2>1, <2>2, <2>a
<1>9. CompilerSound(oCompiler', x, k, k, IF f.of = "call" THEN <<8 * x.level + One(f.bIsVariable)>> ELSE <<>>, {})
  BY <1>1, <1>3, <1>5
<1>10. FilesSound(parsers', G) /\ x = Here(parsers', G) /\ SizesSound(mBlockArgSizes')
       /\ eResultOperator' \in {"constant", "variable"}
  BY <1>1, <1>3
<1>11. ElsifSound(<<f>>, parsers')
  BY <1>5, NoElsif
<1> QED BY <1>1, <1>3, <1>7, <1>8, <1>9, <1>10, <1>11, StatementOn

LEMMA EndArgumentStep == IInv /\ EndArgument => IInv'
<1> SUFFICES ASSUME IInv, EndArgument PROVE IInv'
  OBVIOUS
<1>1. /\ at = "factor" /\ expr # <<>> /\ Innermost.k = "statement" /\ Innermost.of = "call" /\ at' = "arguments" /\ expr' = expr
      /\ oCompiler' = oCompiler /\ eResultOperator' = eResultOperator /\ Keep
  BY DEF EndArgument, Factor, InExpr
<1>2. PICK G, K, x, n, k, saved : Reading(G, K, x, n, k, saved)
  BY <1>1, ReadingNow
<1>3. /\ k = K[n] + Valued(at) /\ k \in Nat /\ CompilerSound(oCompiler, x, k, k, saved, {})
      /\ Standing(expr, x, K, n, expr[1]) /\ eResultOperator \in {"constant", "variable"} /\ expr[n] = Innermost
  BY <1>2 DEF Reading
<1>4. n = 1 /\ Len(expr) = n
  BY <1>1, <1>2, InnerNow
<1>5. AtSound(at', expr') /\ k = K[n] + Valued(at') /\ at' # "factor"
  BY <1>1, <1>3, <1>4 DEF AtSound, Valued
<1>6. Standing(expr', x, K, n, expr[1]) /\ CompilerSound(oCompiler', x, k, k, saved, {})
      /\ eResultOperator' \in {"constant", "variable"}
  BY <1>1, <1>3
<1> QED BY <1>1, <1>2, <1>3, <1>5, <1>6, ReadOn

(* What is proved of templates that make use of nothing the compiler does  *)
(* not handle; only the break outside of a loop is left to them.           *)
Handled == Uses \subseteq {"break in include"}

(* The block takes what is given to it, or its call ends with an exception.*)
LEMMA TakenEnough ==
  ASSUME Handled, NEW e, CallSound(e), ArityChecked(e), NEW taken \in Taken(e)
  PROVE  taken \in Nat /\ taken >= e.iArgCount
<1>1. e.bIsVariable \in BOOLEAN /\ e.iFormalArgCount \in Nat /\ e.iArgCount \in Nat
  BY DEF CallSound
<1>2. taken = IF e.bIsVariable THEN e.iArgCount ELSE e.iFormalArgCount
  <2>1. "other arity" \notin Uses
    BY Zenon DEF Handled
  <2> QED BY <2>1, Zenon DEF Taken
<1>3. e.listed \/ e.iArgCount = 0
  BY DEF CallSound
<1> QED BY <1>1, <1>2, <1>3 DEF ArityChecked

LEMMA EndCallStep == Handled /\ IInv /\ EndCall => IInv'
<1> SUFFICES ASSUME Handled, IInv, EndCall PROVE IInv'
  OBVIOUS
<1> DEFINE none == <<>>
<1>1. at = "arguments" /\ ArityChecked(Innermost) /\ EndStatement /\ Keep
  BY DEF EndCall
<1>2. PICK taken \in Taken(Innermost) :
        Compile(CallBlock(oCompiler, Innermost.bIsVariable, Innermost.iArgCount, taken))
  BY DEF EndCall
<1>3. PICK G, x, e, k : Calling(G, x, e, k)
  BY <1>1, CallReading
<1>4. /\ FilesSound(parsers, G) /\ x = Here(parsers, G) /\ x \in Context /\ SizesSound(mBlockArgSizes)
      /\ e = Innermost /\ CallSound(e) /\ k = e.iArgCount + One(e.bIsVariable)
      /\ CompilerSound(oCompiler, x, k, k, <<8 * x.level + One(e.bIsVariable)>>, {})
  BY <1>3 DEF Calling
<1> DEFINE n == e.iArgCount
           b == e.bIsVariable
           c == CallBlock(oCompiler, b, n, taken)
<1>5. n \in Nat /\ b \in BOOLEAN /\ taken \in Nat /\ taken >= n /\ Compile(c)
  <2>1. ArityChecked(e) /\ taken \in Taken(e) /\ Compile(c)
    BY <1>1, <1>2, <1>4
  <2> HIDE DEF c
  <2>2. taken \in Nat /\ taken >= e.iArgCount
    BY <1>4, <2>1, TakenEnough
  <2> QED BY <1>4, <2>1, <2>2 DEF CallSound
<1> HIDE DEF n, b
<1>6. k = n + One(b) /\ CompilerSound(oCompiler, x, k, k, <<8 * x.level + One(b)>>, {})
  BY <1>4 DEF n, b
<1>7. CompilerSound(c, x, 0, 0, none, {})
  BY <1>4, <1>5, <1>6, CallBlockSound
<1> HIDE DEF c, none
<1>8. Compiling(c, x, 0, 0, none) /\ 0 \in Nat
  BY <1>7, StartCompiling
<1>9. CompilerSound(oCompiler', x, 0, 0, none, {})
  BY <1>4, <1>5, <1>8, CompiledSound
<1>10. FilesSound(parsers', G) /\ x = Here(parsers', G) /\ SizesSound(mBlockArgSizes') /\ expr' = <<>>
       /\ at' \in {"text", "done", "error", "undefined"} /\ eResultOperator' \in {"constant", "variable"}
  BY <1>1, <1>4 DEF Keep, EndStatement
<1> QED BY <1>9, <1>10, TextOn DEF none

-----------------------------------------------------------------------------
(* A file that is replaced, added, or left behind.                         *)

(* The last of the files stands in context y.                              *)
Stands(files, y) == \E H : FilesSound(files, H) /\ Here(files, H) = y

LEMMA FileRenewed ==
  ASSUME NEW files, NEW G, FilesSound(files, G), NEW n, n = Len(files), NEW q, NEW h, FileSound(q, h),
         h[0] = G[n][0], NEW t, t = Front(files) \o <<q>>
  PROVE  Stands(t, h[Len(q.ops)])
<1> DEFINE H == [i \in 1..n |-> IF i = n THEN h ELSE G[i]]
<1>1. /\ IsList(files, n) /\ n \in 1..MaxLevel /\ \A i \in 1..n : FileSound(files[i], G[i])
      /\ G[1][0] = Root
      /\ \A i \in 2..n : G[i][0] = Behind(files[i - 1], G[i - 1])
  BY DEF FilesSound, IsList
<1>2. n \in Nat /\ n > 0
  BY <1>1, ParserBounds
<1>3. IsList(t, n) /\ t[n] = q /\ \A i \in 1..n - 1 : t[i] = files[i]
  <2>1. Renewed(t, files, n, q)
    BY <1>1, <1>2, ReplacedList
  <2> QED BY <2>1 DEF Renewed
<1>4. Len(t) = n /\ t = [i \in 1..n |-> t[i]]
  BY <1>3 DEF IsList
<1>5. H[n] = h /\ \A i \in 1..n - 1 : H[i] = G[i]
  BY <1>2
<1> HIDE DEF H
<1>6. \A i \in 1..n : FileSound(t[i], H[i])
  <2> SUFFICES ASSUME NEW i \in 1..n PROVE FileSound(t[i], H[i])
    OBVIOUS
  <2>1. CASE i = n
    BY <1>3, <1>5, <2>1
  <2>2. CASE i # n
    <3>1. i \in 1..n - 1
      BY <1>2, <2>2
    <3> QED BY <1>1, <1>3, <1>5, <3>1
  <2> QED BY <2>1, <2>2
<1>7. \A i \in 1..n : H[i][0] = G[i][0]
  <2> SUFFICES ASSUME NEW i \in 1..n PROVE H[i][0] = G[i][0]
    OBVIOUS
  <2>1. CASE i = n
    BY <1>5, <2>1
  <2>2. CASE i # n
    <3>1. i \in 1..n - 1
      BY <1>2, <2>2
    <3> QED BY <1>5, <3>1
  <2> QED BY <2>1, <2>2
<1>8. H[1][0] = Root /\ \A i \in 2..n : H[i][0] = Behind(t[i - 1], H[i - 1])
  <2>1. H[1][0] = Root
    BY <1>1, <1>2, <1>7
  <2>2. ASSUME NEW i \in 2..n PROVE H[i][0] = Behind(t[i - 1], H[i - 1])
    <3>1. i \in 1..n /\ i - 1 \in 1..n - 1
      BY <1>2
    <3> QED BY <1>1, <1>3, <1>5, <1>7, <3>1
  <2> QED BY <2>1, <2>2
<1>9. FilesSound(t, H)
  BY <1>1, <1>4, <1>6, <1>8 DEF FilesSound
<1>10. Here(t, H) = h[Len(q.ops)]
  BY <1>3, <1>4, <1>5 DEF Here, Behind
<1> HIDE DEF H
<1> QED BY <1>9, <1>10 DEF Stands

LEMMA FileAdded ==
  ASSUME NEW files, NEW G, FilesSound(files, G), NEW n, n = Len(files), n # MaxLevel, NEW q, NEW h, FileSound(q, h),
         h[0] = Here(files, G), NEW t, t = Append(files, q)
  PROVE  Stands(t, h[Len(q.ops)])
<1> DEFINE H == [i \in 1..n + 1 |-> IF i = n + 1 THEN h ELSE G[i]]
<1>1. /\ IsList(files, n) /\ n \in 1..MaxLevel /\ \A i \in 1..n : FileSound(files[i], G[i])
      /\ G[1][0] = Root
      /\ \A i \in 2..n : G[i][0] = Behind(files[i - 1], G[i - 1])
  BY DEF FilesSound, IsList
<1>2. n \in Nat /\ n > 0 /\ n + 1 \in 1..MaxLevel
  BY <1>1, ParserBounds
<1>3. IsList(t, n + 1) /\ t[n + 1] = q /\ \A i \in 1..n : t[i] = files[i]
  BY <1>1, <1>2, AppendList DEF Longer
<1>4. Len(t) = n + 1 /\ t = [i \in 1..n + 1 |-> t[i]]
  BY <1>3 DEF IsList
<1>5. H[n + 1] = h /\ \A i \in 1..n : H[i] = G[i]
  BY <1>2
<1> HIDE DEF H
<1>6. \A i \in 1..n + 1 : FileSound(t[i], H[i])
  <2> SUFFICES ASSUME NEW i \in 1..n + 1 PROVE FileSound(t[i], H[i])
    OBVIOUS
  <2>1. CASE i = n + 1
    BY <1>3, <1>5, <2>1
  <2>2. CASE i # n + 1
    <3>1. i \in 1..n
      BY <1>2, <2>2
    <3> QED BY <1>1, <1>3, <1>5, <3>1
  <2> QED BY <2>1, <2>2
<1>7. H[1][0] = Root
  BY <1>1, <1>2, <1>5
<1>8. \A i \in 2..n + 1 : H[i][0] = Behind(t[i - 1], H[i - 1])
  <2> SUFFICES ASSUME NEW i \in 2..n + 1 PROVE H[i][0] = Behind(t[i - 1], H[i - 1])
    OBVIOUS
  <2>1. i - 1 \in 1..n /\ t[i - 1] = files[i - 1] /\ H[i - 1] = G[i - 1]
    <3>1. i - 1 \in 1..n
      BY <1>2
    <3> QED BY <1>3, <1>5, <3>1
  <2>2. CASE i = n + 1
    <3>1. i - 1 = n
      BY <1>2, <2>2
    <3>2. h[0] = Behind(files[n], G[n])
      BY DEF Here
    <3> QED BY <1>5, <2>1, <2>2, <3>1, <3>2
  <2>3. CASE i # n + 1
    <3>1. i \in 2..n /\ i \in 1..n
      BY <1>2, <2>3
    <3> QED BY <1>1, <1>5, <2>1, <3>1
  <2> QED BY <2>2, <2>3
<1>9. FilesSound(t, H)
  BY <1>2, <1>4, <1>6, <1>7, <1>8 DEF FilesSound
<1>10. Here(t, H) = h[Len(q.ops)]
  BY <1>3, <1>4, <1>5 DEF Here, Behind
<1> HIDE DEF H
<1> QED BY <1>9, <1>10 DEF Stands

LEMMA FileEnded ==
  ASSUME NEW files, NEW G, FilesSound(files, G), NEW n, n = Len(files), n # 1, files[n].ops = <<>>
  PROVE  FilesSound(Front(files), G) /\ Here(Front(files), G) = Here(files, G)
<1> DEFINE t == Front(files)
           m == n - 1
<1>1. /\ IsList(files, n) /\ n \in 1..MaxLevel /\ \A i \in 1..n : FileSound(files[i], G[i])
      /\ G[1][0] = Root
      /\ \A i \in 2..n : G[i][0] = Behind(files[i - 1], G[i - 1])
  BY DEF FilesSound, IsList
<1>2. n \in Nat /\ n > 0 /\ m \in 1..MaxLevel /\ m \in Nat /\ n \in 2..n /\ n - 1 = m
  BY <1>1, ParserBounds
<1>3. IsList(t, m) /\ \A i \in 1..m : t[i] = files[i]
  BY <1>1, <1>2, FrontList DEF Shorter
<1> HIDE DEF t
<1>4. Len(t) = m /\ t = [i \in 1..m |-> t[i]]
  BY <1>3 DEF IsList
<1>5. \A i \in 1..m : i \in 1..n
  BY <1>2
<1>6. \A i \in 2..m : i \in 2..n /\ i - 1 \in 1..m
  BY <1>2
<1>7. FilesSound(t, G)
  <2>1. \A i \in 1..m : FileSound(t[i], G[i])
    BY <1>1, <1>3, <1>5
  <2>2. \A i \in 2..m : G[i][0] = Behind(t[i - 1], G[i - 1])
    BY <1>1, <1>3, <1>6
  <2> QED BY <1>1, <1>2, <1>4, <2>1, <2>2 DEF FilesSound
<1>8. Here(t, G) = Here(files, G)
  <2>1. Here(t, G) = Behind(files[m], G[m])
    <3>1. m \in 1..m
      BY <1>2
    <3> QED BY <1>3, <1>4, <3>1 DEF Here
  <2>2. G[n][0] = Behind(files[m], G[m])
    BY <1>1, <1>2
  <2>3. Here(files, G) = G[n][0]
    <3>1. Len(files[n].ops) = 0
      OBVIOUS
    <3> QED BY <3>1 DEF Here, Behind
  <2> QED BY <2>1, <2>2, <2>3
<1> QED BY <1>7, <1>8 DEF t

(* A file that starts where another includes it. *)
LEMMA NewFile ==
  ASSUME NEW x \in Context
  PROVE  \E h : FileSound(NewParser(x.level # 0), h) /\ h[0] = x /\ h[Len(NewParser(x.level # 0).ops)] = x
<1> DEFINE h == [i \in {0} |-> x]
           none == <<>>
           f == (x.level # 0)
           no == FALSE
           p == FileOf(none, f, no, no, none, none)
<1>1. h[0] = x /\ Len(none) = 0 /\ 0 \in Nat /\ DOMAIN none = {}
  OBVIOUS
<1>2. NewParser(f) = p
  BY DEF NewParser, FileOf
<1>3. p.ops = none /\ p.bInForeach = f /\ p.bInBlock = no /\ p.bVerboseMode = no /\ p.vBreakJMPPoints = none /\ p.mCurrentBlock = none
  BY DEF FileOf
<1> HIDE DEF h
<1>4. IsList(none, 0)
  BY DEF IsList
<1>5. OpenIn(p, "block") = {} /\ OpenIn(p, "verbose") = {} /\ OpenIn(p, "foreach") = {}
  <2>1. \A k : OpenIn(p, k) = {}
    <3> HIDE DEF none, p
    <3> QED BY <1>1, <1>3 DEF OpenIn
  <2> QED BY <2>1
<1> HIDE DEF none, p
<1>6. OpsSound(none, h) /\ BlocksSound(none, h) /\ VerboseModes(none)
  BY <1>1 DEF OpsSound, BlocksSound, VerboseModes
<1>7. BreaksSound(p, x, x)
  <2>1. Cardinality({}) = 0 /\ x.level \in Nat
    BY FS_EmptySet, ContextType
  <2>2. none = [i \in 1..0 |-> none[i]]
    BY <1>4 DEF IsList
  <2>3. Len(p.vBreakJMPPoints) = 0 /\ p.vBreakJMPPoints = [i \in 1..Len(p.vBreakJMPPoints) |-> p.vBreakJMPPoints[i]]
    BY <1>1, <1>3, <2>2
  <2>4. Len(p.vBreakJMPPoints) = Cardinality(OpenIn(p, "foreach"))
        /\ x.level = (IF OpenIn(p, "block") = {} THEN x.level ELSE 0) + Len(p.vBreakJMPPoints)
    <3>1. Cardinality(OpenIn(p, "foreach")) = 0 /\ OpenIn(p, "block") = {}
      BY <1>5, <2>1, Zenon
    <3> QED BY <2>1, <2>3, <3>1
  <2>5. \A i \in 1..Len(p.vBreakJMPPoints) :
          p.vBreakJMPPoints[i] \subseteq {Shape([x EXCEPT !.level = x.level + i], x.level + i, 0)}
    BY <2>3
  <2> QED BY <1>1, <2>3, <2>4, <2>5 DEF BreaksSound
<1>8. NamesSound(p, x)
  BY <1>3 DEF NamesSound
<1>9. p = FileOf(p.ops, h[0].level # 0, OpenIn(p, "block") # {}, OpenIn(p, "verbose") # {}, p.mCurrentBlock, p.vBreakJMPPoints)
  <2>1. no = (OpenIn(p, "block") # {}) /\ no = (OpenIn(p, "verbose") # {}) /\ f = (h[0].level # 0)
    BY <1>1, <1>5
  <2>2. p = FileOf(none, f, no, no, none, none)
    BY DEF p
  <2> HIDE DEF no, f
  <2> QED BY <1>3, <2>1, <2>2
<1>10. FileSound(p, h)
  <2>1. Len(p.ops) = 0 /\ FileFacts(p, h, 0)
    BY <1>1, <1>3, <1>4, <1>6, <1>7, <1>8, <1>9 DEF FileFacts
  <2> QED BY <2>1, FileIs
<1>11. FileSound(p, h) /\ h[0] = x /\ h[Len(p.ops)] = x
  BY <1>1, <1>3, <1>10
<1> HIDE DEF f
<1>12. \E w : FileSound(NewParser(f), w) /\ w[0] = x /\ w[Len(NewParser(f).ops)] = x
  BY <1>2, <1>11
<1> QED BY <1>12 DEF f

-----------------------------------------------------------------------------
(* An operator that is opened or closed.                                   *)

LEMMA OpenMore ==
  ASSUME NEW p, NEW q, NEW m \in Nat, IsList(p.ops, m), NEW o, Longer(q.ops, p.ops, m, o), NEW k
  PROVE  /\ OpenIn(q, k) = IF o.k = k THEN OpenIn(p, k) \cup {m + 1} ELSE OpenIn(p, k)
         /\ m + 1 \notin OpenIn(p, k) /\ OpenIn(p, k) \subseteq 1..m /\ IsFiniteSet(OpenIn(p, k))
         /\ o.k = k => Cardinality(OpenIn(q, k)) = Cardinality(OpenIn(p, k)) + 1
<1>1. DOMAIN p.ops = 1..m
  BY ListType DEF IsList
<1>2. DOMAIN q.ops = 1..m + 1 /\ q.ops[m + 1] = o /\ \A i \in 1..m : q.ops[i] = p.ops[i]
  <2>1. IsList(q.ops, m + 1) /\ q.ops[m + 1] = o /\ \A i \in 1..m : q.ops[i] = p.ops[i]
    BY DEF Longer
  <2>2. DOMAIN q.ops = 1..m + 1
    BY <2>1, ListType DEF IsList
  <2> QED BY <2>1, <2>2
<1>3. 1..m + 1 = 1..m \cup {m + 1} /\ m + 1 \notin 1..m
  OBVIOUS
<1>4. OpenIn(q, k) = IF o.k = k THEN OpenIn(p, k) \cup {m + 1} ELSE OpenIn(p, k)
  BY <1>1, <1>2, <1>3 DEF OpenIn
<1>5. m + 1 \notin OpenIn(p, k) /\ OpenIn(p, k) \subseteq 1..m
  BY <1>1, <1>3 DEF OpenIn
<1>6. IsFiniteSet(OpenIn(p, k))
  <2>1. IsFiniteSet(1..m)
    BY FS_Interval
  <2> QED BY <1>5, <2>1, FS_Subset
<1>7. o.k = k => Cardinality(OpenIn(q, k)) = Cardinality(OpenIn(p, k)) + 1
  BY <1>4, <1>5, <1>6, FS_AddElement
<1> QED BY <1>4, <1>5, <1>6, <1>7

(* What the context behind an operator has to do with the one in front.    *)
Follows(o, x, y) ==
  IF o.k = "block" THEN x.level = 0 /\ y.level = 0 /\ y.args = o.args
  ELSE y.args = x.args /\ y.hr = x.hr /\ y.level = IF o.k = "foreach" THEN x.level + 1 ELSE x.level

LEMMA OpFollows ==
  ASSUME NEW o, NEW x \in Context, NEW y, OpSound(o, x, y)
  PROVE  Follows(o, x, y) /\ y \in Context /\ o.k \in {"branch", "foreach", "block", "verbose"}
<1>1. CASE BranchSound(o, x, y)
  BY <1>1 DEF BranchSound, Follows
<1>2. CASE VerboseSound(o, x, y)
  BY <1>2 DEF VerboseSound, Follows
<1>3. CASE ForeachSound(o, x, y)
  BY <1>3, InsideType DEF ForeachSound, Follows
<1>4. CASE BlockSound(o, x, y)
  BY <1>4, BlockContext DEF BlockSound, Follows
<1> QED BY <1>1, <1>2, <1>3, <1>4 DEF OpSound

Opening(s, m, g, o, y, t, h) ==
  /\ OpSound(o, g[m], y) /\ Longer(t, s, m, o) /\ h[m + 1] = y /\ (\A i \in 0..m : h[i] = g[i])
  /\ o.k = "block" => g[0].level = 0 /\ \A i \in 1..m : s[i].k # "block"
  /\ o.k = "verbose" => o.bOldVerboseMode = (\E i \in 1..m : s[i].k = "verbose")

LEMMA OpsMore ==
  ASSUME NEW s, NEW m \in Nat, IsList(s, m), NEW g, OpsSound(s, g), BlocksSound(s, g), VerboseModes(s),
         NEW o, NEW y \in Context, NEW t, NEW h, Opening(s, m, g, o, y, t, h)
  PROVE  OpsSound(t, h) /\ BlocksSound(t, h) /\ VerboseModes(t)
<1>a. /\ OpSound(o, g[m], y) /\ Longer(t, s, m, o) /\ h[m + 1] = y /\ (\A i \in 0..m : h[i] = g[i])
      /\ o.k = "block" => g[0].level = 0 /\ \A i \in 1..m : s[i].k # "block"
      /\ o.k = "verbose" => o.bOldVerboseMode = (\E i \in 1..m : s[i].k = "verbose")
  BY Zenon DEF Opening
<1>1. Len(s) = m /\ Len(t) = m + 1 /\ t[m + 1] = o /\ \A i \in 1..m : t[i] = s[i]
  BY <1>a DEF IsList, Longer
<1>2. /\ \A i \in 0..m : g[i] \in Context
      /\ \A i \in 1..m : OpSound(s[i], g[i - 1], g[i])
  BY <1>a, <1>1 DEF OpsSound
<1>3. Follows(o, g[m], y)
  BY <1>a, <1>2, OpFollows
<1>4. /\ \A i \in 0..m + 1 : i \in 0..m \/ i = m + 1
      /\ \A i \in 1..m + 1 : i \in 1..m \/ i = m + 1
      /\ \A i \in 1..m : i \in 0..m /\ i - 1 \in 0..m
      /\ 0 \in 0..m /\ m \in 0..m /\ (m + 1) - 1 = m
  OBVIOUS
<1>5. OpsSound(t, h)
  <2>1. \A i \in 0..m + 1 : h[i] \in Context
    BY <1>a, <1>2, <1>4
  <2>2. ASSUME NEW i \in 1..m + 1 PROVE OpSound(t[i], h[i - 1], h[i])
    <3>1. CASE i = m + 1
      <4>1. h[i - 1] = g[m]
        BY <1>a, <1>4, <3>1
      <4> QED BY <1>a, <1>1, <3>1, <4>1
    <3>2. CASE i \in 1..m
      BY <1>a, <1>1, <1>2, <1>4, <3>2
    <3> QED BY <1>a, <1>4, <3>1, <3>2
  <2> QED BY <1>a, <1>1, <2>1, <2>2 DEF OpsSound
<1>6. /\ \A i, j \in 1..m : s[i].k = "block" /\ s[j].k = "block" => i = j
      /\ \A i \in 1..m : s[i].k = "block" => g[0].level = 0
      /\ \A n \in 0..m : (\A i \in 1..n : s[i].k # "block") => g[n].args = g[0].args /\ g[n].hr = g[0].hr
      /\ \A i, n \in 1..m : s[i].k = "block" /\ i <= n => g[n].args = s[i].args
  BY <1>a, <1>1 DEF BlocksSound
<1>7. BlocksSound(t, h)
  <2>1. ASSUME NEW i \in 1..m + 1, NEW j \in 1..m + 1, t[i].k = "block", t[j].k = "block" PROVE i = j
    BY <1>a, <1>1, <1>4, <1>6, <2>1
  <2>2. ASSUME NEW i \in 1..m + 1, t[i].k = "block" PROVE h[0].level = 0
    BY <1>a, <1>1, <1>4, <1>6, <2>2
  <2>3. ASSUME NEW n \in 0..m + 1, \A i \in 1..n : t[i].k # "block"
        PROVE  h[n].args = h[0].args /\ h[n].hr = h[0].hr
    <3>1. CASE n = m + 1
      <4>1. o.k # "block" /\ \A i \in 1..m : s[i].k # "block"
        BY <1>a, <1>1, <1>4, <2>3, <3>1
      <4>2. g[m].args = g[0].args /\ g[m].hr = g[0].hr
        BY <1>a, <1>4, <1>6, <4>1
      <4>3. y.args = g[m].args /\ y.hr = g[m].hr
        BY <1>a, <1>3, <4>1 DEF Follows
      <4> QED BY <1>a, <1>4, <3>1, <4>2, <4>3
    <3>2. CASE n \in 0..m
      <4>1. \A i \in 1..n : i \in 1..m
        BY <3>2
      <4>2. \A i \in 1..n : s[i].k # "block"
        BY <1>a, <1>1, <2>3, <4>1
      <4> QED BY <1>a, <1>4, <1>6, <3>2, <4>2
    <3> QED BY <1>a, <1>4, <3>1, <3>2
  <2>4. ASSUME NEW i \in 1..m + 1, NEW n \in 1..m + 1, t[i].k = "block", i <= n PROVE h[n].args = t[i].args
    <3>1. CASE i = m + 1
      <4>1. n = m + 1
        BY <2>4, <3>1
      <4>2. y.args = o.args
        BY <1>a, <1>1, <1>3, <2>4, <3>1 DEF Follows
      <4> QED BY <1>a, <1>1, <3>1, <4>1, <4>2
    <3>2. CASE i \in 1..m /\ n = m + 1
      <4>1. o.k # "block"
        BY <1>a, <1>1, <2>4, <3>2
      <4>2. y.args = g[m].args
        BY <1>a, <1>3, <4>1 DEF Follows
      <4>3. m \in 1..m /\ i <= m
        BY <3>2
      <4> QED BY <1>a, <1>1, <1>6, <2>4, <3>2, <4>2, <4>3
    <3>3. CASE i \in 1..m /\ n \in 1..m
      <4>1. h[n] = g[n] /\ t[i] = s[i]
        BY <1>a, <1>1, <1>4, <3>3
      <4>2. g[n].args = s[i].args
        BY <1>6, <2>4, <3>3, <4>1
      <4> QED BY <4>1, <4>2
    <3> QED BY <1>4, <3>1, <3>2, <3>3
  <2> QED BY <1>a, <1>1, <2>1, <2>2, <2>3, <2>4 DEF BlocksSound
<1>8. VerboseModes(t)
  <2> SUFFICES ASSUME NEW n \in 1..m + 1, t[n].k = "verbose"
               PROVE  t[n].bOldVerboseMode = (\E i \in 1..n - 1 : t[i].k = "verbose")
    BY <1>a, <1>1 DEF VerboseModes
  <2>1. \A i \in 1..n - 1 : t[i] = s[i]
    BY <1>a, <1>1
  <2>2. CASE n = m + 1
    BY <1>a, <1>1, <1>4, <2>1, <2>2
  <2>3. CASE n \in 1..m
    <3>1. s[n].bOldVerboseMode = (\E i \in 1..n - 1 : s[i].k = "verbose")
      BY <1>a, <1>1, <2>3 DEF VerboseModes
    <3> QED BY <1>a, <1>1, <2>1, <2>3, <3>1
  <2> QED BY <1>a, <1>4, <2>2, <2>3
<1> QED BY <1>5, <1>7, <1>8

(* The same operators but the last.                                        *)
LEMMA OpsFewer ==
  ASSUME NEW s, NEW m \in Nat, m > 0, IsList(s, m), NEW g, OpsSound(s, g), BlocksSound(s, g), VerboseModes(s),
         NEW t, Shorter(t, s, m)
  PROVE  OpsSound(t, g) /\ BlocksSound(t, g) /\ VerboseModes(t)
<1> DEFINE p == m - 1
<1>1. Len(s) = m /\ Len(t) = p /\ p \in Nat /\ \A i \in 1..p : t[i] = s[i]
  BY DEF IsList, Shorter
<1>2. (\A i \in 1..p : i \in 1..m) /\ (\A i \in 0..p : i \in 0..m)
  OBVIOUS
<1> HIDE DEF p
<1>3. OpsSound(t, g)
  BY <1>1, <1>2 DEF OpsSound
<1>4. BlocksSound(t, g)
  <2>1. /\ \A i, j \in 1..m : s[i].k = "block" /\ s[j].k = "block" => i = j
        /\ \A i \in 1..m : s[i].k = "block" => g[0].level = 0
        /\ \A n \in 0..m : (\A i \in 1..n : s[i].k # "block") => g[n].args = g[0].args /\ g[n].hr = g[0].hr
        /\ \A i, n \in 1..m : s[i].k = "block" /\ i <= n => g[n].args = s[i].args
    BY <1>1 DEF BlocksSound
  <2>2. ASSUME NEW n \in 0..p, \A i \in 1..n : t[i].k # "block"
        PROVE  g[n].args = g[0].args /\ g[n].hr = g[0].hr
    <3>1. \A i \in 1..n : i \in 1..p
      BY <1>1
    <3>2. \A i \in 1..n : s[i].k # "block"
      BY <1>1, <2>2, <3>1
    <3> QED BY <1>2, <2>1, <3>2
  <2> QED BY <1>1, <1>2, <2>1, <2>2 DEF BlocksSound
<1>5. VerboseModes(t)
  <2> SUFFICES ASSUME NEW n \in 1..p, t[n].k = "verbose"
               PROVE  t[n].bOldVerboseMode = (\E i \in 1..n - 1 : t[i].k = "verbose")
    BY <1>1 DEF VerboseModes
  <2>1. \A i \in 1..n - 1 : i \in 1..p
    BY <1>1
  <2>2. s[n].bOldVerboseMode = (\E i \in 1..n - 1 : s[i].k = "verbose")
    BY <1>1, <1>2 DEF VerboseModes
  <2> QED BY <1>1, <2>1, <2>2
<1> QED BY <1>3, <1>4, <1>5

LEMMA SameButLevel ==
  ASSUME NEW x \in Context, NEW y \in Context, x.args = y.args, x.hr = y.hr, NEW v
  PROVE  [x EXCEPT !.level = v] = [y EXCEPT !.level = v]
BY ContextType DEF Context

(* The jumps out of a loop start in the context of the loop.               *)
BreaksOf(breaks, x, y) ==
  \A i \in 1..Len(breaks) : breaks[i] \subseteq {Shape([y EXCEPT !.level = x.level + i], x.level + i, 0)}

LEMMA BreaksAre ==
  ASSUME NEW p, NEW x, NEW y, NEW n, n = Len(p.vBreakJMPPoints)
  PROVE  BreaksSound(p, x, y) <=>
           /\ IsList(p.vBreakJMPPoints, n) /\ n \in Nat /\ n = Cardinality(OpenIn(p, "foreach"))
           /\ y.level = (IF OpenIn(p, "block") = {} THEN x.level ELSE 0) + n
           /\ BreaksOf(p.vBreakJMPPoints, x, y)
BY DEF BreaksSound, BreaksOf, IsList

LEMMA BreaksElsewhere ==
  ASSUME NEW breaks, NEW x, NEW y \in Context, NEW z \in Context, y.args = z.args, y.hr = z.hr, BreaksOf(breaks, x, y)
  PROVE  BreaksOf(breaks, x, z)
<1> SUFFICES ASSUME NEW i \in 1..Len(breaks)
             PROVE  breaks[i] \subseteq {Shape([z EXCEPT !.level = x.level + i], x.level + i, 0)}
  BY DEF BreaksOf
<1> DEFINE v == x.level + i
<1>1. breaks[i] \subseteq {Shape([y EXCEPT !.level = v], v, 0)}
  BY DEF BreaksOf
<1> HIDE DEF v
<1>2. [y EXCEPT !.level = v] = [z EXCEPT !.level = v]
  BY SameButLevel
<1>3. breaks[i] \subseteq {Shape([z EXCEPT !.level = v], v, 0)}
  BY <1>1, <1>2
<1> QED BY <1>3 DEF v

LEMMA BreaksMore ==
  ASSUME NEW p, NEW q, NEW x \in Context, NEW z \in Context, BreaksSound(p, x, z), NEW m \in Nat, IsList(p.ops, m),
         NEW o, Longer(q.ops, p.ops, m, o), NEW y \in Context, Follows(o, z, y),
         o.k = "block" => OpenIn(p, "block") = {},
         q.vBreakJMPPoints = IF o.k = "foreach" THEN Append(p.vBreakJMPPoints, {}) ELSE p.vBreakJMPPoints
  PROVE  BreaksSound(q, x, y)
<1> DEFINE b == p.vBreakJMPPoints
           c == q.vBreakJMPPoints
           n == Len(b)
           k == Len(c)
<1>1. /\ IsList(b, n) /\ n \in Nat /\ n = Cardinality(OpenIn(p, "foreach"))
      /\ z.level = (IF OpenIn(p, "block") = {} THEN x.level ELSE 0) + n
      /\ BreaksOf(b, x, z)
  BY BreaksAre
<1>2. /\ \A kind : OpenIn(q, kind) = IF o.k = kind THEN OpenIn(p, kind) \cup {m + 1} ELSE OpenIn(p, kind)
      /\ o.k = "foreach" => Cardinality(OpenIn(q, "foreach")) = Cardinality(OpenIn(p, "foreach")) + 1
  BY OpenMore
<1>3. x.level \in Nat /\ y.level \in Nat /\ z.level \in Nat
  BY ContextType
<1> HIDE DEF b, n
<1>4. CASE o.k = "foreach"
  <2>1. /\ OpenIn(q, "block") = OpenIn(p, "block") /\ Cardinality(OpenIn(q, "foreach")) = n + 1
        /\ y.args = z.args /\ y.hr = z.hr /\ y.level = z.level + 1 /\ c = Append(b, {})
    <3>1. OpenIn(q, "block") = OpenIn(p, "block")
      BY <1>2, <1>4
    <3> QED BY <1>1, <1>2, <1>4, <3>1 DEF Follows, b
  <2>2. Longer(c, b, n, {})
    BY <1>1, <2>1, AppendList
  <2> HIDE DEF c
  <2>3. IsList(c, n + 1) /\ c[n + 1] = {} /\ (\A i \in 1..n : c[i] = b[i]) /\ Len(c) = n + 1 /\ Len(b) = n
    BY <1>1, <2>2 DEF Longer, IsList
  <2>4. BreaksOf(b, x, y)
    BY <1>1, <2>1, BreaksElsewhere
  <2>5. BreaksOf(c, x, y)
    <3> SUFFICES ASSUME NEW i \in 1..n + 1
                 PROVE  c[i] \subseteq {Shape([y EXCEPT !.level = x.level + i], x.level + i, 0)}
      BY <2>3 DEF BreaksOf
    <3>1. CASE i = n + 1
      BY <2>3, <3>1
    <3>2. CASE i \in 1..n
      BY <2>3, <2>4, <3>2 DEF BreaksOf
    <3> QED BY <1>1, <3>1, <3>2
  <2>6. k = n + 1 /\ k \in Nat /\ IsList(c, k) /\ k = Cardinality(OpenIn(q, "foreach"))
    BY <1>1, <2>1, <2>3
  <2>7. y.level = (IF OpenIn(q, "block") = {} THEN x.level ELSE 0) + k
    BY <1>1, <1>3, <2>1, <2>6
  <2> QED BY <2>5, <2>6, <2>7, BreaksAre DEF c
<1>5. CASE o.k = "block"
  <2>1. n = 0 /\ x.level = 0 /\ y.level = 0 /\ c = b /\ OpenIn(q, "foreach") = OpenIn(p, "foreach")
    <3>1. z.level = 0 /\ y.level = 0 /\ OpenIn(p, "block") = {} /\ OpenIn(q, "foreach") = OpenIn(p, "foreach") /\ c = b
      BY <1>2, <1>5 DEF Follows, b
    <3>2. z.level = x.level + n
      BY <1>1, <3>1
    <3>3. n = 0 /\ x.level = 0
      BY <1>1, <1>3, <3>1, <3>2
    <3> QED BY <3>1, <3>3
  <2>2. OpenIn(q, "block") # {}
    BY <1>2, <1>5
  <2> HIDE DEF c
  <2>3. k = n /\ k \in Nat /\ IsList(c, k) /\ k = Cardinality(OpenIn(q, "foreach")) /\ k = 0
    BY <1>1, <2>1 DEF n
  <2>4. y.level = (IF OpenIn(q, "block") = {} THEN x.level ELSE 0) + k
    BY <2>1, <2>2, <2>3
  <2>5. BreaksOf(c, x, y)
    BY <2>3 DEF BreaksOf
  <2> QED BY <2>3, <2>4, <2>5, BreaksAre DEF c
<1>6. CASE o.k \notin {"foreach", "block"}
  <2>1. /\ OpenIn(q, "block") = OpenIn(p, "block") /\ OpenIn(q, "foreach") = OpenIn(p, "foreach")
        /\ y.args = z.args /\ y.hr = z.hr /\ y.level = z.level /\ c = b
    BY <1>2, <1>6 DEF Follows, b
  <2> HIDE DEF c
  <2>2. k = n /\ k \in Nat /\ IsList(c, k) /\ k = Cardinality(OpenIn(q, "foreach"))
    BY <1>1, <2>1 DEF n
  <2>3. y.level = (IF OpenIn(q, "block") = {} THEN x.level ELSE 0) + k
    BY <1>1, <2>1, <2>2
  <2>4. BreaksOf(c, x, y)
    BY <1>1, <2>1, BreaksElsewhere
  <2> QED BY <2>2, <2>3, <2>4, BreaksAre DEF c
<1> QED BY <1>4, <1>5, <1>6

LEMMA BreaksFewer ==
  ASSUME NEW p, NEW q, NEW x \in Context, NEW z \in Context, BreaksSound(p, x, z), NEW m \in Nat, m > 0, IsList(p.ops, m),
         NEW o, o = p.ops[m], Shorter(q.ops, p.ops, m), NEW y \in Context, Follows(o, y, z),
         o.k = "block" => OpenIn(q, "block") = {} /\ x.level = 0,
         q.vBreakJMPPoints = IF o.k = "foreach" THEN Front(p.vBreakJMPPoints) ELSE p.vBreakJMPPoints
  PROVE  /\ BreaksSound(q, x, y)
         /\ o.k = "foreach" => /\ Len(p.vBreakJMPPoints) \in Nat /\ Len(p.vBreakJMPPoints) > 0
                               /\ IsList(p.vBreakJMPPoints, Len(p.vBreakJMPPoints))
<1> DEFINE b == p.vBreakJMPPoints
           c == q.vBreakJMPPoints
           n == Len(b)
           k == Len(c)
           l == m - 1
<1>1. /\ IsList(b, n) /\ n \in Nat /\ n = Cardinality(OpenIn(p, "foreach"))
      /\ z.level = (IF OpenIn(p, "block") = {} THEN x.level ELSE 0) + n
      /\ BreaksOf(b, x, z)
  BY BreaksAre
<1>2. l \in Nat /\ IsList(q.ops, l) /\ Longer(p.ops, q.ops, l, o)
  <2>1. m = l + 1 /\ l \in Nat
    OBVIOUS
  <2> HIDE DEF l
  <2>2. IsList(q.ops, l) /\ \A i \in 1..l : q.ops[i] = p.ops[i]
    <3>1. l = m - 1
      BY DEF l
    <3> QED BY <3>1 DEF Shorter
  <2> QED BY <2>1, <2>2 DEF Longer
<1> HIDE DEF l
<1>3. /\ \A kind : OpenIn(p, kind) = IF o.k = kind THEN OpenIn(q, kind) \cup {l + 1} ELSE OpenIn(q, kind)
      /\ o.k = "foreach" => Cardinality(OpenIn(p, "foreach")) = Cardinality(OpenIn(q, "foreach")) + 1
      /\ IsFiniteSet(OpenIn(q, "foreach"))
  BY <1>2, OpenMore
<1>4. x.level \in Nat /\ y.level \in Nat /\ z.level \in Nat
  BY ContextType
<1> HIDE DEF b, n
<1>5. CASE o.k = "foreach"
  <2>1. /\ OpenIn(q, "block") = OpenIn(p, "block") /\ n = Cardinality(OpenIn(q, "foreach")) + 1
        /\ y.args = z.args /\ y.hr = z.hr /\ z.level = y.level + 1 /\ c = Front(b)
    <3>1. OpenIn(q, "block") = OpenIn(p, "block")
      BY <1>3, <1>5
    <3> QED BY <1>1, <1>3, <1>5, <3>1 DEF Follows, b
  <2>2. Cardinality(OpenIn(q, "foreach")) \in Nat
    BY <1>3, FS_CardinalityType
  <2>3. n > 0 /\ n - 1 \in Nat /\ n - 1 = Cardinality(OpenIn(q, "foreach"))
    BY <1>1, <2>1, <2>2
  <2>4. Shorter(c, b, n)
    BY <1>1, <2>1, <2>3, FrontList
  <2> HIDE DEF c
  <2>5. IsList(c, n - 1) /\ (\A i \in 1..n - 1 : c[i] = b[i]) /\ Len(c) = n - 1 /\ Len(b) = n
    BY <1>1, <2>4 DEF Shorter, IsList
  <2>6. BreaksOf(b, x, y)
    BY <1>1, <2>1, BreaksElsewhere
  <2>7. BreaksOf(c, x, y)
    <3> SUFFICES ASSUME NEW i \in 1..n - 1
                 PROVE  c[i] \subseteq {Shape([y EXCEPT !.level = x.level + i], x.level + i, 0)}
      BY <2>5 DEF BreaksOf
    <3>1. i \in 1..n
      BY <1>1
    <3> QED BY <2>5, <2>6, <3>1 DEF BreaksOf
  <2>8. k = n - 1 /\ k \in Nat /\ IsList(c, k) /\ k = Cardinality(OpenIn(q, "foreach"))
    BY <2>3, <2>5
  <2>9. y.level = (IF OpenIn(q, "block") = {} THEN x.level ELSE 0) + k
    <3> DEFINE base == IF OpenIn(p, "block") = {} THEN x.level ELSE 0
    <3>1. z.level = base + n /\ base \in Nat
      BY <1>1, <1>4
    <3>2. base = IF OpenIn(q, "block") = {} THEN x.level ELSE 0
      BY <2>1
    <3> HIDE DEF base
    <3>3. z.level = y.level + 1 /\ k = n - 1 /\ n \in Nat /\ y.level \in Nat
      BY <1>1, <1>4, <2>1, <2>8
    <3>4. y.level = base + k
      BY <3>1, <3>3
    <3> QED BY <3>2, <3>4
  <2>10. BreaksSound(q, x, y)
    BY <2>7, <2>8, <2>9, BreaksAre DEF c
  <2> QED BY <1>1, <2>3, <2>10 DEF b, n
<1>6. CASE o.k = "block"
  <2>1. n = 0 /\ x.level = 0 /\ y.level = 0 /\ c = b /\ OpenIn(q, "foreach") = OpenIn(p, "foreach") /\ OpenIn(q, "block") = {}
    <3>1. /\ z.level = 0 /\ y.level = 0 /\ OpenIn(q, "block") = {} /\ OpenIn(q, "foreach") = OpenIn(p, "foreach") /\ c = b
          /\ x.level = 0
      BY <1>3, <1>6 DEF Follows, b
    <3> QED BY <1>1, <1>4, <3>1
  <2> HIDE DEF c
  <2>3. k = n /\ k \in Nat /\ IsList(c, k) /\ k = Cardinality(OpenIn(q, "foreach")) /\ k = 0
    BY <1>1, <2>1 DEF n
  <2>4. y.level = (IF OpenIn(q, "block") = {} THEN x.level ELSE 0) + k
    BY <2>1, <2>3
  <2>5. BreaksOf(c, x, y)
    BY <2>3 DEF BreaksOf
  <2>6. BreaksSound(q, x, y)
    BY <2>3, <2>4, <2>5, BreaksAre DEF c
  <2> QED BY <1>6, <2>6
<1>7. CASE o.k \notin {"foreach", "block"}
  <2>1. /\ OpenIn(q, "block") = OpenIn(p, "block") /\ OpenIn(q, "foreach") = OpenIn(p, "foreach")
        /\ y.args = z.args /\ y.hr = z.hr /\ y.level = z.level /\ c = b
    BY <1>3, <1>7 DEF Follows, b
  <2> HIDE DEF c
  <2>2. k = n /\ k \in Nat /\ IsList(c, k) /\ k = Cardinality(OpenIn(q, "foreach"))
    BY <1>1, <2>1 DEF n
  <2>3. y.level = (IF OpenIn(q, "block") = {} THEN x.level ELSE 0) + k
    BY <1>1, <2>1, <2>2
  <2>4. BreaksOf(c, x, y)
    BY <1>1, <2>1, BreaksElsewhere
  <2>5. BreaksSound(q, x, y)
    BY <2>2, <2>3, <2>4, BreaksAre DEF c
  <2> QED BY <1>7, <2>5
<1> QED BY <1>5, <1>6, <1>7

NamesFit(names, x) ==
  /\ IsFiniteSet(DOMAIN names) /\ Cardinality(DOMAIN names) = x.args
  /\ \A a \in DOMAIN names : names[a] \in 0..x.args - 1

LEMMA NamesAre ==
  ASSUME NEW p, NEW x
  PROVE  NamesSound(p, x) <=> (p.bInBlock => NamesFit(p.mCurrentBlock, x))
BY DEF NamesSound, NamesFit

(* The file with one operator more.                                        *)
FileWith(p, o, y, names) ==
  FileOf(Append(p.ops, o), y.level # 0, p.bInBlock \/ o.k = "block", p.bVerboseMode \/ o.k = "verbose", names,
         IF o.k = "foreach" THEN Append(p.vBreakJMPPoints, {}) ELSE p.vBreakJMPPoints)

LEMMA FilePushed ==
  ASSUME NEW p, NEW g, FileSound(p, g), NEW m, m = Len(p.ops), NEW o, NEW y \in Context, OpSound(o, g[m], y),
         NEW names, o.k # "block" => names = p.mCurrentBlock,
         o.k = "block" => ~p.bInBlock /\ NamesFit(names, y),
         o.k = "verbose" => o.bOldVerboseMode = p.bVerboseMode
  PROVE  LET q == FileWith(p, o, y, names)
         IN \E h : FileSound(q, h) /\ h[0] = g[0] /\ h[Len(q.ops)] = y
<1> DEFINE q == FileWith(p, o, y, names)
           x == g[0]
           z == g[m]
           n == m + 1
           h == [i \in 0..n |-> IF i = n THEN y ELSE g[i]]
<1>1. /\ p.bInBlock = (OpenIn(p, "block") # {}) /\ p.bVerboseMode = (OpenIn(p, "verbose") # {})
      /\ IsList(p.ops, m) /\ m \in Nat
      /\ OpsSound(p.ops, g) /\ BlocksSound(p.ops, g) /\ VerboseModes(p.ops)
      /\ BreaksSound(p, x, z) /\ NamesSound(p, z)
  <2>1. Parts(p, g, m, g[0], g[m])
    BY FileParts
  <2> QED BY <2>1, Zenon DEF Parts
<1>2. /\ q.ops = Append(p.ops, o) /\ q.bInForeach = (y.level # 0) /\ q.bInBlock = (p.bInBlock \/ o.k = "block")
      /\ q.bVerboseMode = (p.bVerboseMode \/ o.k = "verbose") /\ q.mCurrentBlock = names
      /\ q.vBreakJMPPoints = IF o.k = "foreach" THEN Append(p.vBreakJMPPoints, {}) ELSE p.vBreakJMPPoints
      /\ q = FileOf(q.ops, q.bInForeach, q.bInBlock, q.bVerboseMode, q.mCurrentBlock, q.vBreakJMPPoints)
  <2> DEFINE ops == Append(p.ops, o)
             f == (y.level # 0)
             b == (p.bInBlock \/ o.k = "block")
             v == (p.bVerboseMode \/ o.k = "verbose")
             breaks == IF o.k = "foreach" THEN Append(p.vBreakJMPPoints, {}) ELSE p.vBreakJMPPoints
  <2>1. q = FileOf(ops, f, b, v, names, breaks)
    BY DEF FileWith
  <2> HIDE DEF q, ops, f, b, v, breaks
  <2>2. /\ q.ops = ops /\ q.bInForeach = f /\ q.bInBlock = b /\ q.bVerboseMode = v
        /\ q.mCurrentBlock = names /\ q.vBreakJMPPoints = breaks
        /\ q = FileOf(q.ops, q.bInForeach, q.bInBlock, q.bVerboseMode, q.mCurrentBlock, q.vBreakJMPPoints)
    BY <2>1, FieldsBack
  <2> QED BY <2>2, Zenon DEF ops, f, b, v, breaks
<1> HIDE DEF q
<1>3. n \in Nat /\ h[n] = y /\ (\A i \in 0..m : h[i] = g[i]) /\ h[0] = x
  <2>1. m \in Nat
    BY <1>1
  <2>2. n \in Nat /\ n \in 0..n /\ \A i \in 0..m : i \in 0..n /\ i # n
    BY <2>1
  <2>3. 0 \in 0..m
    BY <2>1
  <2> HIDE DEF n
  <2>4. h[n] = y /\ \A i \in 0..m : h[i] = g[i]
    BY <2>2
  <2> QED BY <2>2, <2>3, <2>4
<1> HIDE DEF h
<1>4. Longer(q.ops, p.ops, m, o) /\ IsList(q.ops, n) /\ Len(q.ops) = n
  <2>1. Longer(q.ops, p.ops, m, o)
    BY <1>1, <1>2, AppendList
  <2> QED BY <2>1 DEF Longer, IsList
<1>5. x \in Context /\ z \in Context
  BY <1>1 DEF OpsSound
<1>6. Follows(o, z, y) /\ o.k \in {"branch", "foreach", "block", "verbose"}
  BY <1>5, OpFollows
<1>7. \A kind : OpenIn(q, kind) = IF o.k = kind THEN OpenIn(p, kind) \cup {n} ELSE OpenIn(p, kind)
  BY <1>1, <1>4, OpenMore
<1>8. \A kind : OpenIn(p, kind) = {i \in 1..m : p.ops[i].k = kind}
  <2>1. DOMAIN p.ops = 1..m
    BY <1>1, ListType DEF IsList
  <2> QED BY <2>1 DEF OpenIn
<1>9. p.bInBlock = (OpenIn(p, "block") # {}) /\ p.bVerboseMode = (OpenIn(p, "verbose") # {})
  BY <1>1
<1>10. o.k = "block" => OpenIn(p, "block") = {}
  BY <1>9
<1>11. OpsSound(q.ops, h) /\ BlocksSound(q.ops, h) /\ VerboseModes(q.ops)
  <2>1. o.k = "block" => x.level = 0 /\ \A i \in 1..m : p.ops[i].k # "block"
    <3> SUFFICES ASSUME o.k = "block" PROVE x.level = 0 /\ \A i \in 1..m : p.ops[i].k # "block"
      OBVIOUS
    <3>1. \A i \in 1..m : p.ops[i].k # "block"
      BY <1>8, <1>10
    <3>2. z.level = 0
      BY <1>6 DEF Follows
    <3>3. z.level = x.level + Len(p.vBreakJMPPoints) /\ Len(p.vBreakJMPPoints) \in Nat
      <4> DEFINE b == Len(p.vBreakJMPPoints)
      <4>1. OpenIn(p, "block") = {}
        BY <1>10
      <4>2. b \in Nat /\ z.level = (IF OpenIn(p, "block") = {} THEN x.level ELSE 0) + b
        BY <1>1, BreaksAre
      <4> QED BY <4>1, <4>2
    <3>4. x.level \in Nat
      BY <1>5, ContextType
    <3> QED BY <3>1, <3>2, <3>3, <3>4
  <2>2. o.k = "verbose" => o.bOldVerboseMode = (\E i \in 1..m : p.ops[i].k = "verbose")
    <3>1. (OpenIn(p, "verbose") # {}) <=> (\E i \in 1..m : p.ops[i].k = "verbose")
      BY <1>8
    <3>2. (OpenIn(p, "verbose") # {}) = (\E i \in 1..m : p.ops[i].k = "verbose")
      BY <3>1
    <3> QED BY <1>9, <3>2, Zenon
  <2>3. h[m + 1] = y
    BY <1>3
  <2>4. Opening(p.ops, m, g, o, y, q.ops, h)
    BY <1>3, <1>4, <2>1, <2>2, <2>3, Zenon DEF Opening
  <2> QED BY <1>1, <2>4, OpsMore
<1>12. BreaksSound(q, x, y)
  BY <1>1, <1>2, <1>4, <1>5, <1>6, <1>10, BreaksMore
<1>13. NamesSound(q, y)
  <2>1. CASE o.k = "block"
    BY <1>2, <2>1, NamesAre
  <2>2. CASE o.k # "block"
    <3>1. y.args = z.args /\ q.mCurrentBlock = p.mCurrentBlock /\ q.bInBlock = p.bInBlock
      BY <1>2, <1>6, <1>9, <2>2 DEF Follows
    <3> QED BY <1>1, <3>1 DEF NamesSound
  <2> QED BY <2>1, <2>2
<1>14. q.bInBlock = (OpenIn(q, "block") # {}) /\ q.bVerboseMode = (OpenIn(q, "verbose") # {})
  <2>1. (p.bInBlock \/ o.k = "block") <=> (OpenIn(q, "block") # {})
    BY <1>7, <1>9
  <2>2. (p.bVerboseMode \/ o.k = "verbose") <=> (OpenIn(q, "verbose") # {})
    BY <1>7, <1>9
  <2>3. /\ (p.bInBlock \/ o.k = "block") = (OpenIn(q, "block") # {})
        /\ (p.bVerboseMode \/ o.k = "verbose") = (OpenIn(q, "verbose") # {})
    BY <2>1, <2>2
  <2> QED BY <1>2, <2>3
<1>15. q = FileOf(q.ops, h[n].level # 0, OpenIn(q, "block") # {}, OpenIn(q, "verbose") # {}, q.mCurrentBlock, q.vBreakJMPPoints)
  <2>1. q.bInForeach = (h[n].level # 0)
    BY <1>2, <1>3
  <2> QED BY <1>2, <1>14, <2>1
<1>16. n = Len(q.ops) /\ BreaksSound(q, h[0], h[n]) /\ NamesSound(q, h[n])
  BY <1>3, <1>4, <1>12, <1>13
<1> HIDE DEF n, x, z
<1>17. FileSound(q, h)
  <2>1. FileFacts(q, h, n)
    BY <1>3, <1>4, <1>11, <1>15, <1>16, Zenon DEF FileFacts
  <2> QED BY <1>4, <2>1, FileIs
<1> QED BY <1>3, <1>4, <1>17 DEF q, x

(* The file without its last operator.                                     *)
FileWithout(p, o, y) ==
  FileOf(Front(p.ops), y.level # 0, p.bInBlock /\ o.k # "block",
         IF o.k = "verbose" THEN o.bOldVerboseMode ELSE p.bVerboseMode, p.mCurrentBlock,
         IF o.k = "foreach" THEN Front(p.vBreakJMPPoints) ELSE p.vBreakJMPPoints)

LEMMA FilePopped ==
  ASSUME NEW p, NEW g, FileSound(p, g), NEW m, m = Len(p.ops), m # 0, NEW o, o = p.ops[m], NEW y, y = g[m - 1]
  PROVE  LET q == FileWithout(p, o, y)
         IN /\ FileSound(q, g) /\ g[Len(q.ops)] = y /\ y \in Context /\ OpSound(o, y, g[m])
            /\ p.bInForeach = (g[m].level # 0) /\ Len(q.ops) = m - 1
<1> DEFINE q == FileWithout(p, o, y)
           x == g[0]
           z == g[m]
           n == m - 1
<1>1. /\ p.bInBlock = (OpenIn(p, "block") # {}) /\ p.bVerboseMode = (OpenIn(p, "verbose") # {})
      /\ p.bInForeach = (z.level # 0)
      /\ IsList(p.ops, m) /\ m \in Nat
      /\ OpsSound(p.ops, g) /\ BlocksSound(p.ops, g) /\ VerboseModes(p.ops)
      /\ BreaksSound(p, x, z) /\ NamesSound(p, z)
  <2>1. Parts(p, g, m, g[0], g[m])
    BY FileParts
  <2> QED BY <2>1, Zenon DEF Parts
<1>a. m > 0
  BY <1>1
<1>2. /\ q.ops = Front(p.ops) /\ q.bInForeach = (y.level # 0) /\ q.bInBlock = (p.bInBlock /\ o.k # "block")
      /\ q.bVerboseMode = (IF o.k = "verbose" THEN o.bOldVerboseMode ELSE p.bVerboseMode) /\ q.mCurrentBlock = p.mCurrentBlock
      /\ q.vBreakJMPPoints = IF o.k = "foreach" THEN Front(p.vBreakJMPPoints) ELSE p.vBreakJMPPoints
      /\ q = FileOf(q.ops, q.bInForeach, q.bInBlock, q.bVerboseMode, q.mCurrentBlock, q.vBreakJMPPoints)
  <2> DEFINE ops == Front(p.ops)
             f == (y.level # 0)
             b == (p.bInBlock /\ o.k # "block")
             v == IF o.k = "verbose" THEN o.bOldVerboseMode ELSE p.bVerboseMode
             names == p.mCurrentBlock
             breaks == IF o.k = "foreach" THEN Front(p.vBreakJMPPoints) ELSE p.vBreakJMPPoints
  <2>1. q = FileOf(ops, f, b, v, names, breaks)
    BY DEF FileWithout
  <2> HIDE DEF q, ops, f, b, v, names, breaks
  <2>2. /\ q.ops = ops /\ q.bInForeach = f /\ q.bInBlock = b /\ q.bVerboseMode = v
        /\ q.mCurrentBlock = names /\ q.vBreakJMPPoints = breaks
        /\ q = FileOf(q.ops, q.bInForeach, q.bInBlock, q.bVerboseMode, q.mCurrentBlock, q.vBreakJMPPoints)
    BY <2>1, FieldsBack
  <2> QED BY <2>2, Zenon DEF ops, f, b, v, names, breaks
<1> HIDE DEF q
<1>3. Shorter(q.ops, p.ops, m) /\ IsList(q.ops, n) /\ Len(q.ops) = n /\ (\A i \in 1..n : q.ops[i] = p.ops[i])
  <2>1. Shorter(q.ops, p.ops, m)
    BY <1>a, <1>1, <1>2, FrontList
  <2> QED BY <2>1 DEF Shorter, IsList
<1>4. n \in Nat /\ n + 1 = m /\ m \in 1..m /\ n \in 0..m /\ 0 \in 0..m /\ m \in 0..m /\ n = m - 1
  BY <1>1
<1> HIDE DEF n
<1>5. x \in Context /\ z \in Context /\ y \in Context /\ OpSound(o, y, z)
  <2>1. Len(p.ops) = m
    OBVIOUS
  <2> QED BY <1>1, <1>4, <2>1 DEF OpsSound
<1>6. Follows(o, y, z) /\ o.k \in {"branch", "foreach", "block", "verbose"}
  BY <1>5, OpFollows
<1>7. Longer(p.ops, q.ops, n, o)
  BY <1>1, <1>3, <1>4 DEF Longer
<1>8. \A kind : OpenIn(p, kind) = IF o.k = kind THEN OpenIn(q, kind) \cup {m} ELSE OpenIn(q, kind)
  <2>1. m = n + 1
    BY <1>4
  <2>2. n \in Nat /\ IsList(q.ops, n) /\ Longer(p.ops, q.ops, n, o)
    BY <1>3, <1>4, <1>7
  <2>3. ASSUME NEW kind PROVE OpenIn(p, kind) = IF o.k = kind THEN OpenIn(q, kind) \cup {m} ELSE OpenIn(q, kind)
    BY <2>1, <2>2, OpenMore
  <2> QED BY <2>3
<1>9. \A kind : OpenIn(q, kind) = {i \in 1..n : p.ops[i].k = kind}
  <2>1. DOMAIN q.ops = 1..n
    BY <1>3, <1>4, ListType DEF IsList
  <2> QED BY <1>3, <2>1 DEF OpenIn
<1>10. p.bInBlock = (OpenIn(p, "block") # {}) /\ p.bVerboseMode = (OpenIn(p, "verbose") # {}) /\ p.bInForeach = (z.level # 0)
  BY <1>1
<1>11. OpsSound(q.ops, g) /\ BlocksSound(q.ops, g) /\ VerboseModes(q.ops)
  BY <1>a, <1>1, <1>3, OpsFewer
<1>12. o.k = "block" => OpenIn(q, "block") = {} /\ x.level = 0
  <2> SUFFICES ASSUME o.k = "block" PROVE OpenIn(q, "block") = {} /\ x.level = 0
    OBVIOUS
  <2>1. /\ \A i \in 1..m : p.ops[i].k = "block" => i = m
        /\ x.level = 0
    BY <1>4 DEF BlocksSound, FileSound
  <2>2. \A i \in 1..n : i \in 1..m /\ i # m
    BY <1>4
  <2> QED BY <1>9, <2>1, <2>2
<1>13. BreaksSound(q, x, y)
  <2>1. /\ x \in Context /\ z \in Context /\ y \in Context /\ BreaksSound(p, x, z) /\ m \in Nat /\ m > 0 /\ IsList(p.ops, m)
        /\ o = p.ops[m] /\ Shorter(q.ops, p.ops, m) /\ Follows(o, y, z)
        /\ o.k = "block" => OpenIn(q, "block") = {} /\ x.level = 0
        /\ q.vBreakJMPPoints = IF o.k = "foreach" THEN Front(p.vBreakJMPPoints) ELSE p.vBreakJMPPoints
    BY <1>a, <1>1, <1>2, <1>3, <1>5, <1>6, <1>12
  <2> HIDE DEF x, z
  <2> QED BY <2>1, BreaksFewer
<1>14. NamesSound(q, y)
  <2>1. CASE o.k = "block"
    BY <1>2, <2>1, NamesAre
  <2>2. CASE o.k # "block"
    <3>1. y.args = z.args /\ q.mCurrentBlock = p.mCurrentBlock /\ q.bInBlock = p.bInBlock
      BY <1>2, <1>6, <1>10, <2>2 DEF Follows
    <3> QED BY <1>1, <3>1 DEF NamesSound
  <2> QED BY <2>1, <2>2
<1>15. q.bInBlock = (OpenIn(q, "block") # {})
  <2>1. (p.bInBlock /\ o.k # "block") <=> (OpenIn(q, "block") # {})
    BY <1>8, <1>10, <1>12
  <2>2. (p.bInBlock /\ o.k # "block") = (OpenIn(q, "block") # {})
    BY <2>1
  <2> QED BY <1>2, <2>2
<1>16. q.bVerboseMode = (OpenIn(q, "verbose") # {})
  <2>1. CASE o.k = "verbose"
    <3>1. p.ops[m].bOldVerboseMode = (\E i \in 1..m - 1 : p.ops[i].k = "verbose")
      BY <1>1, <1>4, <2>1 DEF VerboseModes
    <3>2. (OpenIn(q, "verbose") # {}) <=> (\E i \in 1..n : p.ops[i].k = "verbose")
      BY <1>9
    <3>3. (OpenIn(q, "verbose") # {}) = (\E i \in 1..n : p.ops[i].k = "verbose")
      BY <3>2
    <3> QED BY <1>2, <1>4, <2>1, <3>1, <3>3
  <2>2. CASE o.k # "verbose"
    <3>1. OpenIn(q, "verbose") = OpenIn(p, "verbose")
      BY <1>8, <2>2
    <3> QED BY <1>2, <1>10, <2>2, <3>1
  <2> QED BY <2>1, <2>2
<1>17. q = FileOf(q.ops, g[n].level # 0, OpenIn(q, "block") # {}, OpenIn(q, "verbose") # {}, q.mCurrentBlock, q.vBreakJMPPoints)
  <2>1. q.bInForeach = (g[n].level # 0)
    BY <1>2, <1>4
  <2>2. q = FileOf(q.ops, q.bInForeach, q.bInBlock, q.bVerboseMode, q.mCurrentBlock, q.vBreakJMPPoints)
    BY <1>2
  <2> QED BY <1>15, <1>16, <2>1, <2>2
<1>18. n = Len(q.ops) /\ BreaksSound(q, g[0], g[n]) /\ NamesSound(q, g[n])
  BY <1>3, <1>4, <1>13, <1>14
<1> HIDE DEF x, z
<1>19. FileSound(q, g)
  <2>1. FileFacts(q, g, n)
    BY <1>3, <1>4, <1>11, <1>17, <1>18, Zenon DEF FileFacts
  <2> QED BY <1>3, <2>1, FileIs
<1> QED BY <1>3, <1>4, <1>5, <1>10, <1>19 DEF q, z

(* The file with another branch in place of the last.                      *)
LEMMA BranchRenewed ==
  ASSUME NEW s, NEW m \in Nat, m > 0, IsList(s, m), NEW g, OpsSound(s, g), BlocksSound(s, g), VerboseModes(s),
         s[m].k = "branch", NEW e, BranchSound(e, g[m], g[m]), NEW t, Renewed(t, s, m, e)
  PROVE  OpsSound(t, g) /\ BlocksSound(t, g) /\ VerboseModes(t)
<1>1. Len(s) = m /\ Len(t) = m /\ t[m] = e /\ e.k = "branch" /\ m \in 1..m /\ \A i \in 1..m - 1 : t[i] = s[i]
  <2>1. e.k = "branch"
    BY DEF BranchSound
  <2>2. m \in 1..m
    OBVIOUS
  <2>3. Len(s) = m /\ Len(t) = m /\ t[m] = e /\ \A i \in 1..m - 1 : t[i] = s[i]
    BY Zenon DEF IsList, Renewed
  <2> QED BY <2>1, <2>2, <2>3
<1>2. \A i \in 1..m : i \in 1..m - 1 \/ i = m
  OBVIOUS
<1>3. \A i \in 1..m : t[i].k = s[i].k
  BY <1>1, <1>2
<1>4. \A i \in 1..m : t[i].k # "branch" => t[i] = s[i]
  BY <1>1, <1>2
<1>5. g[m - 1] = g[m]
  <2>1. OpSound(s[m], g[m - 1], g[m])
    BY <1>1 DEF OpsSound
  <2> QED BY <2>1 DEF OpSound, BranchSound, ForeachSound, BlockSound, VerboseSound
<1>6. OpsSound(t, g)
  <2>1. ASSUME NEW i \in 1..m PROVE OpSound(t[i], g[i - 1], g[i])
    <3>1. CASE i = m
      <4>1. BranchSound(e, g[i - 1], g[i])
        BY <1>5, <3>1
      <4> QED BY <1>1, <3>1, <4>1 DEF OpSound
    <3>2. CASE i \in 1..m - 1
      <4>1. OpSound(s[i], g[i - 1], g[i])
        BY <1>1 DEF OpsSound
      <4> QED BY <1>1, <3>2, <4>1
    <3> QED BY <1>2, <3>1, <3>2
  <2>2. \A i \in 0..m : g[i] \in Context
    BY <1>1 DEF OpsSound
  <2> QED BY <1>1, <2>1, <2>2 DEF OpsSound
<1>7. BlocksSound(t, g)
  <2>1. /\ \A i, j \in 1..m : s[i].k = "block" /\ s[j].k = "block" => i = j
        /\ \A i \in 1..m : s[i].k = "block" => g[0].level = 0
        /\ \A n \in 0..m : (\A i \in 1..n : s[i].k # "block") => g[n].args = g[0].args /\ g[n].hr = g[0].hr
        /\ \A i, n \in 1..m : s[i].k = "block" /\ i <= n => g[n].args = s[i].args
    BY <1>1 DEF BlocksSound
  <2>2. ASSUME NEW n \in 0..m, \A i \in 1..n : t[i].k # "block"
        PROVE  g[n].args = g[0].args /\ g[n].hr = g[0].hr
    <3>1. \A i \in 1..n : i \in 1..m
      OBVIOUS
    <3>2. \A i \in 1..n : s[i].k # "block"
      BY <1>3, <2>2, <3>1
    <3> QED BY <2>1, <3>2
  <2>3. ASSUME NEW i \in 1..m, NEW n \in 1..m, t[i].k = "block", i <= n PROVE g[n].args = t[i].args
    <3>1. t[i] = s[i]
      BY <1>4, <2>3
    <3> QED BY <2>1, <2>3, <3>1
  <2>4. /\ \A i, j \in 1..m : t[i].k = "block" /\ t[j].k = "block" => i = j
        /\ \A i \in 1..m : t[i].k = "block" => g[0].level = 0
    BY <1>3, <2>1
  <2> QED BY <1>1, <2>2, <2>3, <2>4 DEF BlocksSound
<1>8. VerboseModes(t)
  <2> SUFFICES ASSUME NEW n \in 1..m, t[n].k = "verbose"
               PROVE  t[n].bOldVerboseMode = (\E i \in 1..n - 1 : t[i].k = "verbose")
    BY <1>1 DEF VerboseModes
  <2>1. \A i \in 1..n - 1 : i \in 1..m
    OBVIOUS
  <2>2. t[n] = s[n] /\ s[n].bOldVerboseMode = (\E i \in 1..n - 1 : s[i].k = "verbose")
    BY <1>1, <1>3, <1>4 DEF VerboseModes
  <2>3. (\E i \in 1..n - 1 : s[i].k = "verbose") <=> (\E i \in 1..n - 1 : t[i].k = "verbose")
    BY <1>3, <2>1
  <2>4. (\E i \in 1..n - 1 : s[i].k = "verbose") = (\E i \in 1..n - 1 : t[i].k = "verbose")
    BY <2>3
  <2> QED BY <2>2, <2>4
<1> QED BY <1>6, <1>7, <1>8

(* The lists of a file are replaced, and its operators are of the same     *)
(* kinds.                                                                  *)
Changing(p, g, m, q, s, breaks) ==
  /\ q = FileOf(s, p.bInForeach, p.bInBlock, p.bVerboseMode, p.mCurrentBlock, breaks)
  /\ IsList(s, m) /\ \A i \in 1..m : s[i].k = p.ops[i].k
  /\ OpsSound(s, g) /\ BlocksSound(s, g) /\ VerboseModes(s) /\ BreaksSound(q, g[0], g[m])

LEMMA FileChanged ==
  ASSUME NEW p, NEW g, FileSound(p, g), NEW m, m = Len(p.ops), NEW s, NEW breaks, NEW q, Changing(p, g, m, q, s, breaks)
  PROVE  FileSound(q, g) /\ Len(q.ops) = m
<1>a. /\ q = FileOf(s, p.bInForeach, p.bInBlock, p.bVerboseMode, p.mCurrentBlock, breaks)
      /\ IsList(s, m) /\ \A i \in 1..m : s[i].k = p.ops[i].k
      /\ OpsSound(s, g) /\ BlocksSound(s, g) /\ VerboseModes(s) /\ BreaksSound(q, g[0], g[m])
  BY Zenon DEF Changing
<1>1. Parts(p, g, m, g[0], g[m])
  BY FileParts
<1>2. /\ p.bInBlock = (OpenIn(p, "block") # {}) /\ p.bVerboseMode = (OpenIn(p, "verbose") # {})
      /\ p.bInForeach = (g[m].level # 0)
      /\ IsList(p.ops, m) /\ m \in Nat /\ NamesSound(p, g[m])
  BY <1>1, Zenon DEF Parts
<1>3. /\ q.ops = s /\ q.bInForeach = p.bInForeach /\ q.bInBlock = p.bInBlock /\ q.bVerboseMode = p.bVerboseMode
      /\ q.mCurrentBlock = p.mCurrentBlock
      /\ q = FileOf(q.ops, q.bInForeach, q.bInBlock, q.bVerboseMode, q.mCurrentBlock, q.vBreakJMPPoints)
  BY <1>a, FieldsBack
<1>4. DOMAIN p.ops = 1..m /\ DOMAIN s = 1..m /\ Len(s) = m
  BY <1>a, <1>2, ListType DEF IsList
<1>5. \A k : OpenIn(q, k) = OpenIn(p, k)
  BY <1>a, <1>3, <1>4 DEF OpenIn
<1>6. NamesSound(q, g[m])
  BY <1>2, <1>3 DEF NamesSound
<1>7. q = FileOf(q.ops, g[m].level # 0, OpenIn(q, "block") # {}, OpenIn(q, "verbose") # {}, q.mCurrentBlock, q.vBreakJMPPoints)
  <2>1. q.bInForeach = (g[m].level # 0) /\ q.bInBlock = (OpenIn(q, "block") # {}) /\ q.bVerboseMode = (OpenIn(q, "verbose") # {})
    BY <1>2, <1>3, <1>5
  <2> QED BY <1>3, <2>1
<1>8. FileFacts(q, g, m)
  BY <1>a, <1>2, <1>3, <1>6, <1>7, Zenon DEF FileFacts
<1>9. m = Len(q.ops)
  BY <1>3, <1>4
<1> QED BY <1>8, <1>9, FileIs

Replacing(p, g, m, e, t, q) ==
  /\ FileSound(p, g) /\ m = Len(p.ops) /\ m # 0 /\ p.ops[m].k = "branch"
  /\ BranchSound(e, g[m], g[m]) /\ Renewed(t, p.ops, m, e)
  /\ q = FileOf(t, p.bInForeach, p.bInBlock, p.bVerboseMode, p.mCurrentBlock, p.vBreakJMPPoints)

LEMMA FileReplaced ==
  ASSUME NEW p, NEW g, NEW m, NEW e, NEW t, NEW q, Replacing(p, g, m, e, t, q)
  PROVE  FileSound(q, g) /\ Len(q.ops) = m
<1>0. /\ FileSound(p, g) /\ m = Len(p.ops) /\ m # 0 /\ p.ops[m].k = "branch"
      /\ BranchSound(e, g[m], g[m]) /\ Renewed(t, p.ops, m, e)
      /\ q = FileOf(t, p.bInForeach, p.bInBlock, p.bVerboseMode, p.mCurrentBlock, p.vBreakJMPPoints)
  BY DEF Replacing
<1>1. Parts(p, g, m, g[0], g[m]) /\ FileFacts(p, g, m)
  BY <1>0, FileParts, FileIs
<1>2. /\ p.bInBlock = (OpenIn(p, "block") # {}) /\ p.bVerboseMode = (OpenIn(p, "verbose") # {})
      /\ p.bInForeach = (g[m].level # 0)
      /\ IsList(p.ops, m) /\ m \in Nat /\ OpsSound(p.ops, g) /\ BlocksSound(p.ops, g) /\ VerboseModes(p.ops)
      /\ BreaksSound(p, g[0], g[m])
  BY <1>1, Zenon DEF Parts
<1>3. m > 0
  BY <1>0, <1>2
<1>4. OpsSound(t, g) /\ BlocksSound(t, g) /\ VerboseModes(t)
  BY <1>0, <1>2, <1>3, BranchRenewed
<1>5. IsList(t, m) /\ \A i \in 1..m : t[i].k = p.ops[i].k
  <2>1. IsList(t, m) /\ t[m] = e /\ e.k = "branch" /\ \A i \in 1..m - 1 : t[i] = p.ops[i]
    BY <1>0 DEF Renewed, BranchSound
  <2>3. p.ops[m].k = "branch"
    BY <1>0
  <2>2. \A i \in 1..m : i \in 1..m - 1 \/ i = m
    BY <1>2
  <2> QED BY <2>1, <2>2, <2>3
<1>7. BreaksSound(q, g[0], g[m])
  <2>1. q.ops = t /\ q.vBreakJMPPoints = p.vBreakJMPPoints
    BY <1>0, FieldsBack
  <2>2. DOMAIN p.ops = 1..m /\ DOMAIN t = 1..m
    BY <1>2, <1>5, ListType DEF IsList
  <2>3. \A k : OpenIn(q, k) = OpenIn(p, k)
    BY <1>5, <2>1, <2>2 DEF OpenIn
  <2> QED BY <1>2, <2>1, <2>3 DEF BreaksSound
<1>8. Changing(p, g, m, q, t, p.vBreakJMPPoints)
  BY <1>0, <1>4, <1>5, <1>7, Zenon DEF Changing
<1>9. FileSound(p, g) /\ m = Len(p.ops) /\ Changing(p, g, m, q, t, p.vBreakJMPPoints)
  BY <1>0, <1>8
<1> QED BY <1>9, FileChanged

(* The breaks of the loop that is open start where the loop is.            *)
LEMMA BreaksHere ==
  ASSUME NEW p, NEW g, FileSound(p, g), NEW m, m = Len(p.ops), NEW x, x = g[m],
         NEW n, n = Len(p.vBreakJMPPoints), n # 0
  PROVE  /\ IsList(p.vBreakJMPPoints, n) /\ n \in Nat /\ n > 0
         /\ [x EXCEPT !.level = g[0].level + n] = x /\ g[0].level + n = x.level /\ HROf(x) = x.level
         /\ p.vBreakJMPPoints[n] \subseteq {Shape(x, HROf(x), 0)}
<1>1. Parts(p, g, m, g[0], g[m])
  BY FileParts
<1>2. /\ IsList(p.ops, m) /\ m \in Nat /\ OpsSound(p.ops, g) /\ BlocksSound(p.ops, g) /\ BreaksSound(p, g[0], x)
  BY <1>1, Zenon DEF Parts
<1>3. /\ IsList(p.vBreakJMPPoints, n) /\ n \in Nat
      /\ x.level = (IF OpenIn(p, "block") = {} THEN g[0].level ELSE 0) + n
      /\ BreaksOf(p.vBreakJMPPoints, g[0], x)
  BY <1>2, BreaksAre
<1>4. x \in Context /\ g[0] \in Context
  <2>1. Len(p.ops) = m
    OBVIOUS
  <2> QED BY <1>2, <2>1 DEF OpsSound
<1>5. g[0].level \in Nat /\ x.level \in Nat
  BY <1>4, ContextType
<1>6. OpenIn(p, "block") # {} => g[0].level = 0
  <2>1. DOMAIN p.ops = 1..m /\ Len(p.ops) = m
    BY <1>2, ListType DEF IsList
  <2>2. \A i \in 1..m : p.ops[i].k = "block" => g[0].level = 0
    BY <1>2, <2>1 DEF BlocksSound
  <2> QED BY <2>1, <2>2 DEF OpenIn
<1>7. g[0].level + n = x.level /\ n > 0
  <2>1. g[0].level + n = x.level
    <3>1. (IF OpenIn(p, "block") = {} THEN g[0].level ELSE 0) = g[0].level
      BY <1>6
    <3> QED BY <1>3, <3>1
  <2> QED BY <1>3, <2>1
<1>8. HROf(x) = x.level
  BY <1>3, <1>5, <1>7 DEF HROf
<1>9. [x EXCEPT !.level = g[0].level + n] = x
  BY <1>4, <1>7 DEF Context
<1>10. p.vBreakJMPPoints[n] \subseteq {Shape(x, HROf(x), 0)}
  <2>1. n \in 1..Len(p.vBreakJMPPoints)
    BY <1>3, <1>7
  <2>2. p.vBreakJMPPoints[n] \subseteq {Shape([x EXCEPT !.level = g[0].level + n], g[0].level + n, 0)}
    BY <1>3, <2>1 DEF BreaksOf
  <2> QED BY <1>7, <1>8, <1>9, <2>2
<1> QED BY <1>3, <1>7, <1>8, <1>9, <1>10

(* A file whose fields are assigned.                                       *)
Edited(p, t, s, u, w) ==
  /\ t.ops = s /\ t.bInForeach = p.bInForeach /\ t.vBreakJMPPoints = p.vBreakJMPPoints
  /\ t.mCurrentBlock = p.mCurrentBlock
  /\ t = FileOf(s, p.bInForeach, p.bInBlock, p.bVerboseMode, p.mCurrentBlock, p.vBreakJMPPoints)
  /\ [t EXCEPT !.bInForeach = u, !.vBreakJMPPoints = w]
       = FileOf(s, u, p.bInBlock, p.bVerboseMode, p.mCurrentBlock, w)
  /\ [t EXCEPT !.bInBlock = u, !.mCurrentBlock = w]
       = FileOf(s, p.bInForeach, u, p.bVerboseMode, w, p.vBreakJMPPoints)
  /\ [t EXCEPT !.bInBlock = u]
       = FileOf(s, p.bInForeach, u, p.bVerboseMode, p.mCurrentBlock, p.vBreakJMPPoints)
  /\ [t EXCEPT !.bVerboseMode = u]
       = FileOf(s, p.bInForeach, p.bInBlock, u, p.mCurrentBlock, p.vBreakJMPPoints)
  /\ [p EXCEPT !.vBreakJMPPoints = w]
       = FileOf(p.ops, p.bInForeach, p.bInBlock, p.bVerboseMode, p.mCurrentBlock, w)

LEMMA FileEdited ==
  ASSUME NEW p, NEW g, FileSound(p, g), NEW s, NEW u, NEW w
  PROVE  Edited(p, [p EXCEPT !.ops = s], s, u, w)
<1> DEFINE m == Len(p.ops)
           ops == p.ops
           f == (g[m].level # 0)
           b == (OpenIn(p, "block") # {})
           v == (OpenIn(p, "verbose") # {})
           names == p.mCurrentBlock
           breaks == p.vBreakJMPPoints
           t == [p EXCEPT !.ops = s]
<1>1. FileFacts(p, g, m)
  BY FileIs
<1>2. p = FileOf(ops, f, b, v, names, breaks)
  BY <1>1 DEF FileFacts
<1> HIDE DEF m, ops, f, b, v, names, breaks
<1>3. p.bInForeach = f /\ p.bInBlock = b /\ p.bVerboseMode = v
  BY <1>2, FileFields
<1>4. t = FileOf(s, f, b, v, names, breaks)
  BY <1>2, FileFields
<1>5. [p EXCEPT !.vBreakJMPPoints = w] = FileOf(ops, f, b, v, names, w)
  BY <1>2, FileFields
<1> HIDE DEF t
<1>6. t.ops = s /\ t.bInForeach = f /\ t.vBreakJMPPoints = breaks /\ t.mCurrentBlock = names
  BY <1>4, FileFields
<1>8. [t EXCEPT !.bInForeach = u, !.vBreakJMPPoints = w] = FileOf(s, u, b, v, names, w)
  <2> DEFINE t1 == [t EXCEPT !.bInForeach = u]
  <2>1. t1 = FileOf(s, u, b, v, names, breaks)
    BY <1>4, FileFields
  <2>2. [t EXCEPT !.bInForeach = u, !.vBreakJMPPoints = w] = [t1 EXCEPT !.vBreakJMPPoints = w]
    OBVIOUS
  <2> HIDE DEF t1
  <2>3. [t1 EXCEPT !.vBreakJMPPoints = w] = FileOf(s, u, b, v, names, w)
    BY <2>1, FileFields
  <2> QED BY <2>2, <2>3
<1>9. [t EXCEPT !.bInBlock = u] = FileOf(s, f, u, v, names, breaks)
  BY <1>4, FileFields
<1>10. [t EXCEPT !.bInBlock = u, !.mCurrentBlock = w] = FileOf(s, f, u, v, w, breaks)
  <2> DEFINE t1 == [t EXCEPT !.bInBlock = u]
  <2>1. [t EXCEPT !.bInBlock = u, !.mCurrentBlock = w] = [t1 EXCEPT !.mCurrentBlock = w]
    OBVIOUS
  <2>2. t1 = FileOf(s, f, u, v, names, breaks)
    BY <1>9
  <2> HIDE DEF t1
  <2>3. [t1 EXCEPT !.mCurrentBlock = w] = FileOf(s, f, u, v, w, breaks)
    BY <2>2, FileFields
  <2> QED BY <2>1, <2>3
<1>11. [t EXCEPT !.bVerboseMode = u] = FileOf(s, f, b, u, names, breaks)
  BY <1>4, FileFields
<1>12. Edited(p, t, s, u, w)
  BY <1>3, <1>4, <1>5, <1>6, <1>8, <1>9, <1>10, <1>11, Zenon DEF ops, names, breaks, Edited
<1> QED BY <1>12 DEF t

(* A jump more leaves the loop that is open.                               *)
Breaking(p, g, m, x, n, e, t, q) ==
  /\ FileSound(p, g) /\ m = Len(p.ops) /\ x = g[m] /\ n = Len(p.vBreakJMPPoints) /\ n # 0
  /\ e \subseteq {Shape(x, HROf(x), 0)} /\ Renewed(t, p.vBreakJMPPoints, n, e)
  /\ q = FileOf(p.ops, p.bInForeach, p.bInBlock, p.bVerboseMode, p.mCurrentBlock, t)

LEMMA FileBroken ==
  ASSUME NEW p, NEW g, NEW m, NEW x, NEW n, NEW e, NEW t, NEW q, Breaking(p, g, m, x, n, e, t, q)
  PROVE  FileSound(q, g) /\ Len(q.ops) = m
<1>0. /\ FileSound(p, g) /\ m = Len(p.ops) /\ x = g[m] /\ n = Len(p.vBreakJMPPoints) /\ n # 0
      /\ e \subseteq {Shape(x, HROf(x), 0)} /\ Renewed(t, p.vBreakJMPPoints, n, e)
  BY DEF Breaking
<1>1. Parts(p, g, m, g[0], g[m])
  BY <1>0, FileParts
<1>2. /\ IsList(p.ops, m) /\ m \in Nat /\ OpsSound(p.ops, g) /\ BlocksSound(p.ops, g) /\ VerboseModes(p.ops)
      /\ BreaksSound(p, g[0], x)
  BY <1>0, <1>1, Zenon DEF Parts
<1>3. /\ n \in Nat /\ n > 0 /\ [x EXCEPT !.level = g[0].level + n] = x /\ g[0].level + n = HROf(x)
  BY <1>0, BreaksHere
<1>4. q = FileOf(p.ops, p.bInForeach, p.bInBlock, p.bVerboseMode, p.mCurrentBlock, t)
  BY Zenon DEF Breaking
<1>5. q.ops = p.ops /\ q.vBreakJMPPoints = t
  BY <1>4, FieldsBack
<1>6. IsList(t, n) /\ t[n] = e /\ Len(t) = n /\ \A i \in 1..n - 1 : t[i] = p.vBreakJMPPoints[i]
  BY <1>0 DEF Renewed, IsList
<1>7. BreaksOf(t, g[0], x)
  <2>1. BreaksOf(p.vBreakJMPPoints, g[0], x)
    BY <1>2, BreaksAre
  <2> SUFFICES ASSUME NEW i \in 1..n
               PROVE  t[i] \subseteq {Shape([x EXCEPT !.level = g[0].level + i], g[0].level + i, 0)}
    BY <1>6 DEF BreaksOf
  <2>2. CASE i = n
    <3>1. t[i] \subseteq {Shape(x, HROf(x), 0)} /\ g[0].level + i = HROf(x)
      BY <1>0, <1>3, <1>6, <2>2
    <3>2. [x EXCEPT !.level = g[0].level + i] = x
      BY <1>3, <2>2
    <3> QED BY <3>1, <3>2
  <2>3. CASE i # n
    <3>1. i \in 1..n - 1
      BY <1>3, <2>3
    <3> QED BY <1>0, <1>6, <2>1, <3>1 DEF BreaksOf
  <2> QED BY <2>2, <2>3
<1>8. BreaksSound(q, g[0], x)
  <2>1. \A k : OpenIn(q, k) = OpenIn(p, k)
    BY <1>5 DEF OpenIn
  <2>2. n = Cardinality(OpenIn(p, "foreach")) /\ x.level = (IF OpenIn(p, "block") = {} THEN g[0].level ELSE 0) + n
    BY <1>0, <1>2, BreaksAre
  <2>3. n = Cardinality(OpenIn(q, "foreach")) /\ x.level = (IF OpenIn(q, "block") = {} THEN g[0].level ELSE 0) + n
    BY <2>1, <2>2
  <2>4. n = Len(q.vBreakJMPPoints) /\ IsList(q.vBreakJMPPoints, n) /\ BreaksOf(q.vBreakJMPPoints, g[0], x) /\ n \in Nat
    BY <1>3, <1>5, <1>6, <1>7
  <2>5. ASSUME NEW r, NEW z, n = Len(r.vBreakJMPPoints), IsList(r.vBreakJMPPoints, n), BreaksOf(r.vBreakJMPPoints, z, x),
               n = Cardinality(OpenIn(r, "foreach")), x.level = (IF OpenIn(r, "block") = {} THEN z.level ELSE 0) + n
        PROVE  BreaksSound(r, z, x)
    BY <2>4, <2>5, BreaksAre
  <2> QED BY <2>3, <2>4, <2>5
<1>9. Changing(p, g, m, q, p.ops, t)
  BY <1>0, <1>2, <1>4, <1>8, Zenon DEF Changing
<1>10. FileSound(p, g) /\ m = Len(p.ops) /\ Changing(p, g, m, q, p.ops, t)
  BY <1>0, <1>9
<1> QED BY <1>10, FileChanged

-----------------------------------------------------------------------------
(* The file that is read, and what becomes of it.                          *)

Current(G, x, p, g, m) ==
  /\ FilesSound(parsers, G) /\ x = Here(parsers, G) /\ x \in Context
  /\ p = Parser /\ g = G[Len(parsers)] /\ FileSound(p, g)
  /\ m = Len(p.ops) /\ m \in Nat /\ IsList(p.ops, m) /\ x = g[m]
  /\ p.bInForeach = (x.level # 0) /\ p.bInBlock \in BOOLEAN /\ p.bVerboseMode \in BOOLEAN

LEMMA CurrentFile ==
  ASSUME NEW G, FilesSound(parsers, G), NEW x, x = Here(parsers, G)
  PROVE  \E p, g, m : Current(G, x, p, g, m)
<1> DEFINE n == Len(parsers)
           p == parsers[n]
           g == G[n]
           m == Len(p.ops)
<1>1. n \in 1..MaxLevel /\ (\A i \in 1..n : FileSound(parsers[i], G[i])) /\ p = Parser
  BY DEF FilesSound, Parser, Last
<1>2. n \in 1..n
  BY <1>1, ParserBounds
<1>3. FileSound(p, g)
  BY <1>1, <1>2
<1>4. x = g[m]
  BY DEF Here, Behind
<1>5. x \in Context
  BY HereType
<1>6. g = G[Len(parsers)]
  OBVIOUS
<1> HIDE DEF n, p, g
<1>7. Parts(p, g, m, g[0], g[m])
  BY <1>3, FileParts
<1>8. IsList(p.ops, m) /\ m \in Nat /\ p.bInForeach = (x.level # 0)
      /\ p.bInBlock = (OpenIn(p, "block") # {}) /\ p.bVerboseMode = (OpenIn(p, "verbose") # {})
  BY <1>4, <1>7, Zenon DEF Parts
<1>9. Current(G, x, p, g, m)
  BY <1>1, <1>3, <1>4, <1>5, <1>6, <1>8 DEF Current
<1> QED BY <1>9

(* File q starts where the file with the contexts g does, and ends in y.   *)
Leads(g, q, y) == \E h : FileSound(q, h) /\ h[0] = g[0] /\ h[Len(q.ops)] = y

LEMMA BecomeFile ==
  ASSUME NEW G, NEW x, NEW p, NEW g, NEW m, Current(G, x, p, g, m), NEW q, Become(q), NEW y, Leads(g, q, y)
  PROVE  Stands(parsers', y)
<1>0. PICK h : FileSound(q, h) /\ h[0] = g[0] /\ h[Len(q.ops)] = y
  BY DEF Leads
<1>1. FilesSound(parsers, G) /\ g = G[Len(parsers)] /\ parsers' = Front(parsers) \o <<q>>
  BY DEF Current, Become
<1> DEFINE n == Len(parsers)
           t == parsers'
<1>2. FilesSound(parsers, G) /\ n = Len(parsers) /\ FileSound(q, h) /\ h[0] = G[n][0] /\ t = Front(parsers) \o <<q>>
  BY <1>0, <1>1
<1> HIDE DEF n, t
<1>3. Stands(t, h[Len(q.ops)])
  BY <1>2, FileRenewed
<1> QED BY <1>0, <1>3 DEF t

(* The parser is in the text again, in a context that may be another one.  *)
LEMMA TextBecome ==
  ASSUME NEW G, NEW x, NEW p, NEW g, NEW m, Current(G, x, p, g, m), NEW q, Become(q),
         NEW y \in Context, Leads(g, q, y), CompilerSound(oCompiler', y, 0, 0, <<>>, {}), SizesSound(mBlockArgSizes'),
         at' = "text", expr' = <<>>, eResultOperator' \in {"constant", "variable"}
  PROVE  IInv'
<1>1. PICK H : FilesSound(parsers', H) /\ Here(parsers', H) = y
  BY BecomeFile DEF Stands
<1>2. FilesSound(parsers', H) /\ y = Here(parsers', H) /\ at' \in {"text", "done", "error", "undefined"}
  BY <1>1
<1> QED BY <1>2, TextOn

(* The code for an operator, that is complete.                             *)
LEMMA TextCompiled ==
  ASSUME NEW G, NEW x, NEW p, NEW g, NEW m, Current(G, x, p, g, m), NEW q, Become(q),
         NEW y \in Context, Leads(g, q, y), NEW c, Compile(c), CompilerSound(c, y, 0, 0, <<>>, {}),
         SizesSound(mBlockArgSizes'), at' = "text", expr' = <<>>, eResultOperator' \in {"constant", "variable"}
  PROVE  IInv'
<1> DEFINE none == <<>>
<1>1. CompilerSound(c, y, 0, 0, none, {}) /\ 0 \in Nat
  OBVIOUS
<1> HIDE DEF none
<1>2. Compiling(c, y, 0, 0, none)
  BY <1>1, StartCompiling
<1>3. CompilerSound(oCompiler', y, 0, 0, none, {})
  BY <1>1, <1>2, CompiledSound
<1>4. CompilerSound(oCompiler', y, 0, 0, <<>>, {})
  BY <1>3 DEF none
<1> QED BY <1>4, TextBecome

(* In the text, in a file with an operator open.                           *)
Standing1(G, x, p, g, m, o) ==
  /\ Current(G, x, p, g, m) /\ SizesSound(mBlockArgSizes) /\ eResultOperator \in {"constant", "variable"} /\ expr = <<>>
  /\ CompilerSound(oCompiler, x, 0, 0, <<>>, {}) /\ m # 0 /\ o = Op /\ o = p.ops[m] /\ Op = Last(p.ops)

LEMMA CurrentNow ==
  ASSUME IInv, at = "text"
  PROVE  \E G, x, p, g, m : Current(G, x, p, g, m) /\ Between(G, x)
<1>1. PICK G, x : Between(G, x)
  BY TextNow
<1>2. FilesSound(parsers, G) /\ x = Here(parsers, G)
  BY <1>1 DEF Between
<1>3. PICK p, g, m : Current(G, x, p, g, m)
  BY <1>2, CurrentFile
<1> QED BY <1>1, <1>3

LEMMA WithinNow ==
  ASSUME IInv, at = "text", NEW k, Within(k)
  PROVE  \E G, x, p, g, m, o : Standing1(G, x, p, g, m, o) /\ o.k = k
<1>1. PICK G, x, p, g, m : Current(G, x, p, g, m) /\ Between(G, x)
  BY CurrentNow
<1> DEFINE o == Op
<1>2. p = Parser /\ m = Len(p.ops) /\ p.ops # <<>> /\ o.k = k /\ IsList(p.ops, m) /\ m \in Nat
  BY <1>1 DEF Current, Within
<1>3. o = p.ops[m] /\ o = Last(p.ops)
  BY <1>2 DEF Op, Last
<1>4. m # 0
  <2>1. p.ops \in Seq({p.ops[i] : i \in 1..m})
    BY <1>2, ListType DEF IsList
  <2> QED BY <1>2, <2>1
<1> HIDE DEF o
<1>5. o = Op
  BY DEF o
<1>6. SizesSound(mBlockArgSizes) /\ eResultOperator \in {"constant", "variable"} /\ expr = <<>>
      /\ CompilerSound(oCompiler, x, 0, 0, <<>>, {})
  BY <1>1 DEF Between
<1>7. Standing1(G, x, p, g, m, o)
  BY <1>1, <1>3, <1>4, <1>5, <1>6 DEF Standing1
<1> QED BY <1>2, <1>7

-----------------------------------------------------------------------------
(* Operators are opened and closed.                                        *)

OpenedSo(p, x, o, y, names) ==
  /\ o.k = "branch" /\ y = x => Opened(o) = FileWith(p, o, y, names)
  /\ o.k = "foreach" /\ y.level # 0 =>
       [Opened(o) EXCEPT !.bInForeach = TRUE, !.vBreakJMPPoints = Append(@, {})] = FileWith(p, o, y, names)
  /\ o.k = "verbose" /\ y = x => [Opened(o) EXCEPT !.bVerboseMode = TRUE] = FileWith(p, o, y, names)
  /\ o.k = "block" /\ (y.level # 0) = p.bInForeach =>
       [Opened(o) EXCEPT !.bInBlock = TRUE, !.mCurrentBlock = names] = FileWith(p, o, y, names)
ClosedSo(p, x, o, y) ==
  /\ o.k = "branch" /\ y = x => Closed = FileWithout(p, o, y)
  /\ o.k = "foreach" =>
       [Closed EXCEPT !.bInForeach = (y.level # 0), !.vBreakJMPPoints = Front(@)] = FileWithout(p, o, y)
  /\ o.k = "verbose" /\ y = x => [Closed EXCEPT !.bVerboseMode = o.bOldVerboseMode] = FileWithout(p, o, y)
  /\ o.k = "block" /\ (y.level # 0) = p.bInForeach => [Closed EXCEPT !.bInBlock = FALSE] = FileWithout(p, o, y)

LEMMA OpenedAs ==
  ASSUME NEW G, NEW x, NEW p, NEW g, NEW m, Current(G, x, p, g, m), NEW o, NEW y, NEW names,
         p.mCurrentBlock = names \/ o.k = "block"
  PROVE  OpenedSo(p, x, o, y, names)
<1> DEFINE s == Append(p.ops, o)
           t == [p EXCEPT !.ops = s]
           yes == TRUE
           w == Append(p.vBreakJMPPoints, {})
           f == p.bInForeach
           b == p.bInBlock
           v == p.bVerboseMode
           breaks == p.vBreakJMPPoints
<1>1. p = Parser /\ FileSound(p, g) /\ f = (x.level # 0) /\ b \in BOOLEAN /\ v \in BOOLEAN
  BY DEF Current
<1>2. Opened(o) = t
  BY <1>1 DEF Opened
<1> HIDE DEF s, yes, w
<1>a. Edited(p, t, s, yes, w) /\ Edited(p, t, s, yes, names)
  <2>1. FileSound(p, g)
    BY <1>1
  <2> QED BY <2>1, FileEdited
<1> HIDE DEF t
<1>3. /\ t.vBreakJMPPoints = p.vBreakJMPPoints
      /\ t = FileOf(s, f, b, v, p.mCurrentBlock, breaks)
      /\ [t EXCEPT !.bInForeach = yes, !.vBreakJMPPoints = w] = FileOf(s, yes, b, v, p.mCurrentBlock, w)
      /\ [t EXCEPT !.bInBlock = yes, !.mCurrentBlock = names] = FileOf(s, f, yes, v, names, breaks)
      /\ [t EXCEPT !.bVerboseMode = yes] = FileOf(s, f, b, yes, p.mCurrentBlock, breaks)
  BY <1>a, Zenon DEF Edited
<1> HIDE DEF f, b, v, breaks
<1>4. FileWith(p, o, y, names) = FileOf(s, y.level # 0, b \/ o.k = "block", v \/ o.k = "verbose", names,
                                        IF o.k = "foreach" THEN w ELSE breaks)
  BY DEF FileWith, s, b, v, w, breaks
<1>5. yes = TRUE
  BY DEF yes
<1>6. ASSUME o.k = "branch", y = x
      PROVE  Opened(o) = FileWith(p, o, y, names)
  <2>1. (y.level # 0) = f /\ (b \/ o.k = "block") = b /\ (v \/ o.k = "verbose") = v /\ p.mCurrentBlock = names
        /\ (IF o.k = "foreach" THEN w ELSE breaks) = breaks
    BY <1>1, <1>6
  <2> QED BY <1>2, <1>3, <1>4, <2>1
<1>7. ASSUME o.k = "foreach", y.level # 0
      PROVE  [Opened(o) EXCEPT !.bInForeach = TRUE, !.vBreakJMPPoints = Append(@, {})] = FileWith(p, o, y, names)
  <2>1. (y.level # 0) = yes /\ (b \/ o.k = "block") = b /\ (v \/ o.k = "verbose") = v /\ p.mCurrentBlock = names
        /\ (IF o.k = "foreach" THEN w ELSE breaks) = w
    BY <1>1, <1>5, <1>7
  <2>2. [t EXCEPT !.bInForeach = yes, !.vBreakJMPPoints = w] = FileWith(p, o, y, names)
    BY <1>3, <1>4, <2>1
  <2>3. Append(t.vBreakJMPPoints, {}) = w
    BY <1>3 DEF w, breaks
  <2> QED BY <1>2, <2>2, <2>3 DEF yes
<1>8. ASSUME o.k = "verbose", y = x
      PROVE  [Opened(o) EXCEPT !.bVerboseMode = TRUE] = FileWith(p, o, y, names)
  <2>1. (y.level # 0) = f /\ (b \/ o.k = "block") = b /\ (v \/ o.k = "verbose") = yes /\ p.mCurrentBlock = names
        /\ (IF o.k = "foreach" THEN w ELSE breaks) = breaks
    BY <1>1, <1>5, <1>8
  <2>2. [t EXCEPT !.bVerboseMode = yes] = FileWith(p, o, y, names)
    BY <1>3, <1>4, <2>1
  <2> QED BY <1>2, <2>2 DEF yes
<1>9. ASSUME o.k = "block", (y.level # 0) = p.bInForeach
      PROVE  [Opened(o) EXCEPT !.bInBlock = TRUE, !.mCurrentBlock = names] = FileWith(p, o, y, names)
  <2>1. (y.level # 0) = f /\ (b \/ o.k = "block") = yes /\ (v \/ o.k = "verbose") = v
        /\ (IF o.k = "foreach" THEN w ELSE breaks) = breaks
    BY <1>1, <1>5, <1>9 DEF f
  <2>2. [t EXCEPT !.bInBlock = yes, !.mCurrentBlock = names] = FileWith(p, o, y, names)
    BY <1>3, <1>4, <2>1
  <2> QED BY <1>2, <2>2 DEF yes
<1> QED BY <1>6, <1>7, <1>8, <1>9, Zenon DEF OpenedSo

LEMMA ClosedAs ==
  ASSUME NEW G, NEW x, NEW p, NEW g, NEW m, Current(G, x, p, g, m), NEW o, NEW y
  PROVE  ClosedSo(p, x, o, y)
<1> DEFINE s == Front(p.ops)
           t == [p EXCEPT !.ops = s]
           no == FALSE
           w == Front(p.vBreakJMPPoints)
           f == p.bInForeach
           b == p.bInBlock
           v == p.bVerboseMode
           old == o.bOldVerboseMode
           there == (y.level # 0)
           breaks == p.vBreakJMPPoints
           names == p.mCurrentBlock
<1>1. p = Parser /\ FileSound(p, g) /\ f = (x.level # 0) /\ b \in BOOLEAN /\ v \in BOOLEAN
  BY DEF Current
<1>2. Closed = t
  BY <1>1 DEF Closed
<1> HIDE DEF s, no, w, old, there
<1>a. Edited(p, t, s, there, w) /\ Edited(p, t, s, no, w) /\ Edited(p, t, s, old, w)
  <2>1. FileSound(p, g)
    BY <1>1
  <2> QED BY <2>1, FileEdited
<1> HIDE DEF t
<1>3. /\ t.vBreakJMPPoints = breaks
      /\ t = FileOf(s, f, b, v, names, breaks)
      /\ [t EXCEPT !.bInForeach = there, !.vBreakJMPPoints = w] = FileOf(s, there, b, v, names, w)
      /\ [t EXCEPT !.bInBlock = no] = FileOf(s, f, no, v, names, breaks)
      /\ [t EXCEPT !.bVerboseMode = old] = FileOf(s, f, b, old, names, breaks)
  BY <1>a, Zenon DEF Edited
<1> HIDE DEF f, b, v, breaks, names
<1>4. FileWithout(p, o, y) = FileOf(s, there, b /\ o.k # "block", IF o.k = "verbose" THEN old ELSE v, names,
                                    IF o.k = "foreach" THEN w ELSE breaks)
  BY DEF FileWithout, s, b, v, w, breaks, names, old, there
<1>5. no = FALSE /\ there = (y.level # 0)
  BY DEF no, there
<1>6. ASSUME o.k = "branch", y = x
      PROVE  Closed = FileWithout(p, o, y)
  <2>1. there = f /\ (b /\ o.k # "block") = b /\ (IF o.k = "verbose" THEN old ELSE v) = v
        /\ (IF o.k = "foreach" THEN w ELSE breaks) = breaks
    BY <1>1, <1>5, <1>6
  <2> QED BY <1>2, <1>3, <1>4, <2>1
<1>7. ASSUME o.k = "foreach"
      PROVE  [Closed EXCEPT !.bInForeach = (y.level # 0), !.vBreakJMPPoints = Front(@)] = FileWithout(p, o, y)
  <2>1. (b /\ o.k # "block") = b /\ (IF o.k = "verbose" THEN old ELSE v) = v
        /\ (IF o.k = "foreach" THEN w ELSE breaks) = w
    BY <1>1, <1>7
  <2>2. [t EXCEPT !.bInForeach = there, !.vBreakJMPPoints = w] = FileWithout(p, o, y)
    BY <1>3, <1>4, <2>1
  <2>3. Front(t.vBreakJMPPoints) = w
    BY <1>3 DEF w, breaks
  <2> QED BY <1>2, <2>2, <2>3 DEF there
<1>8. ASSUME o.k = "verbose", y = x
      PROVE  [Closed EXCEPT !.bVerboseMode = o.bOldVerboseMode] = FileWithout(p, o, y)
  <2>1. there = f /\ (b /\ o.k # "block") = b /\ (IF o.k = "verbose" THEN old ELSE v) = old
        /\ (IF o.k = "foreach" THEN w ELSE breaks) = breaks
    BY <1>1, <1>5, <1>8
  <2>2. [t EXCEPT !.bVerboseMode = old] = FileWithout(p, o, y)
    BY <1>3, <1>4, <2>1
  <2> QED BY <1>2, <2>2 DEF old
<1>9. ASSUME o.k = "block", (y.level # 0) = p.bInForeach
      PROVE  [Closed EXCEPT !.bInBlock = FALSE] = FileWithout(p, o, y)
  <2>1. there = f /\ (b /\ o.k # "block") = no /\ (IF o.k = "verbose" THEN old ELSE v) = v
        /\ (IF o.k = "foreach" THEN w ELSE breaks) = breaks
    BY <1>1, <1>5, <1>9 DEF f
  <2>2. [t EXCEPT !.bInBlock = no] = FileWithout(p, o, y)
    BY <1>3, <1>4, <2>1
  <2> QED BY <1>2, <2>2 DEF no
<1> QED BY <1>6, <1>7, <1>8, <1>9, Zenon DEF ClosedSo

LEMMA OpenLeads ==
  ASSUME NEW G, NEW x, NEW p, NEW g, NEW m, Current(G, x, p, g, m), NEW o, NEW y \in Context, OpSound(o, x, y),
         NEW names, o.k # "block" => names = p.mCurrentBlock,
         o.k = "block" => ~p.bInBlock /\ NamesFit(names, y),
         o.k = "verbose" => o.bOldVerboseMode = p.bVerboseMode
  PROVE  Leads(g, FileWith(p, o, y, names), y)
<1> DEFINE q == FileWith(p, o, y, names)
<1>1. FileSound(p, g) /\ m = Len(p.ops) /\ OpSound(o, g[m], y)
  BY DEF Current
<1>2. \E h : FileSound(q, h) /\ h[0] = g[0] /\ h[Len(q.ops)] = y
  BY <1>1, FilePushed
<1> HIDE DEF q
<1>3. Leads(g, q, y)
  BY <1>2 DEF Leads
<1> QED BY <1>3 DEF q

LEMMA CloseLeads ==
  ASSUME NEW G, NEW x, NEW p, NEW g, NEW m, Current(G, x, p, g, m), m # 0, NEW o, o = p.ops[m], NEW y, y = g[m - 1]
  PROVE  /\ Leads(g, FileWithout(p, o, y), y) /\ y \in Context /\ OpSound(o, y, x)
<1> DEFINE q == FileWithout(p, o, y)
<1>1. FileSound(p, g) /\ m = Len(p.ops) /\ x = g[m]
  BY DEF Current
<1>2. FileSound(q, g) /\ g[Len(q.ops)] = y /\ y \in Context /\ OpSound(o, y, g[m])
  BY <1>1, FilePopped
<1> HIDE DEF q
<1>3. Leads(g, q, y)
  BY <1>2 DEF Leads
<1> QED BY <1>1, <1>2, <1>3 DEF q

-----------------------------------------------------------------------------
(* <TMPL_verbose>. *)

LEMMA VerboseStep == IInv /\ VerboseOperator => IInv'
<1> SUFFICES ASSUME IInv, VerboseOperator PROVE IInv'
  OBVIOUS
<1> DEFINE o == [k |-> "verbose", bOldVerboseMode |-> Parser.bVerboseMode]
           q == [Opened(o) EXCEPT !.bVerboseMode = TRUE]
<1>1. /\ at = "text" /\ Become(q) /\ at' = at /\ oCompiler' = oCompiler /\ mBlockArgSizes' = mBlockArgSizes
      /\ expr' = expr /\ eResultOperator' = eResultOperator
  BY DEF VerboseOperator, InText
<1>2. PICK G, x, p, g, m : Current(G, x, p, g, m) /\ Between(G, x)
  BY <1>1, CurrentNow
<1>3. /\ SizesSound(mBlockArgSizes) /\ eResultOperator \in {"constant", "variable"} /\ expr = <<>>
      /\ CompilerSound(oCompiler, x, 0, 0, <<>>, {})
  BY <1>2 DEF Between
<1>4. p = Parser /\ x \in Context
  BY <1>2 DEF Current
<1> DEFINE names == p.mCurrentBlock
<1>5. o.k = "verbose" /\ o.bOldVerboseMode = p.bVerboseMode /\ o = [k |-> "verbose", bOldVerboseMode |-> o.bOldVerboseMode]
  BY <1>4
<1> HIDE DEF o
<1>6. q = FileWith(p, o, x, names)
  <2>1. OpenedSo(p, x, o, x, names)
    BY <1>2, OpenedAs
  <2> QED BY <1>5, <2>1, Zenon DEF OpenedSo
<1> HIDE DEF q
<1>7. OpSound(o, x, x)
  BY <1>5 DEF OpSound, VerboseSound
<1>8. Leads(g, q, x)
  BY <1>2, <1>4, <1>5, <1>6, <1>7, OpenLeads
<1>9. CompilerSound(oCompiler', x, 0, 0, <<>>, {}) /\ SizesSound(mBlockArgSizes') /\ at' = "text" /\ expr' = <<>>
      /\ eResultOperator' \in {"constant", "variable"}
  BY <1>1, <1>3
<1> QED BY <1>1, <1>2, <1>4, <1>8, <1>9, TextBecome

(* The operator that is open, and what closing it leads to.                *)
Closing(G, x, p, g, m, o, y) ==
  /\ Current(G, x, p, g, m) /\ SizesSound(mBlockArgSizes) /\ eResultOperator \in {"constant", "variable"} /\ expr = <<>>
  /\ CompilerSound(oCompiler, x, 0, 0, <<>>, {}) /\ Compiling(oCompiler, x, 0, 0, <<>>)
  /\ o = Op /\ x \in Context /\ y \in Context /\ OpSound(o, y, x) /\ Leads(g, FileWithout(p, o, y), y)
  /\ m # 0 /\ o = p.ops[m] /\ p = Parser

LEMMA ClosingNow ==
  ASSUME IInv, at = "text", NEW k, Within(k)
  PROVE  \E G, x, p, g, m, o, y : Closing(G, x, p, g, m, o, y) /\ o.k = k
<1>1. PICK G, x, p, g, m, o : Standing1(G, x, p, g, m, o) /\ o.k = k
  BY WithinNow
<1> DEFINE y == g[m - 1]
<1>2. /\ Current(G, x, p, g, m) /\ SizesSound(mBlockArgSizes) /\ eResultOperator \in {"constant", "variable"} /\ expr = <<>>
      /\ CompilerSound(oCompiler, x, 0, 0, <<>>, {}) /\ m # 0 /\ o = Op /\ o = p.ops[m]
  BY <1>1 DEF Standing1
<1>3. x \in Context /\ p = Parser
  BY <1>2 DEF Current
<1>4. Compiling(oCompiler, x, 0, 0, <<>>)
  <2> DEFINE none == <<>>
  <2>1. CompilerSound(oCompiler, x, 0, 0, none, {}) /\ 0 \in Nat
    BY <1>2
  <2> HIDE DEF none
  <2>2. Compiling(oCompiler, x, 0, 0, none)
    BY <1>3, <2>1, StartCompiling
  <2> QED BY <2>2 DEF none
<1>5. Leads(g, FileWithout(p, o, y), y) /\ y \in Context /\ OpSound(o, y, x)
  BY <1>2, CloseLeads
<1> HIDE DEF y
<1>6. Closing(G, x, p, g, m, o, y)
  BY <1>2, <1>3, <1>4, <1>5 DEF Closing
<1> QED BY <1>1, <1>6

LEMMA EndVerboseStep == IInv /\ EndVerbose => IInv'
<1> SUFFICES ASSUME IInv, EndVerbose PROVE IInv'
  OBVIOUS
<1> DEFINE q == [Closed EXCEPT !.bVerboseMode = Op.bOldVerboseMode]
<1>1. /\ at = "text" /\ Within("verbose") /\ Become(q) /\ at' = at /\ oCompiler' = oCompiler /\ mBlockArgSizes' = mBlockArgSizes
      /\ expr' = expr /\ eResultOperator' = eResultOperator
  BY DEF EndVerbose, InText
<1>2. PICK G, x, p, g, m, o, y : Closing(G, x, p, g, m, o, y) /\ o.k = "verbose"
  BY <1>1, ClosingNow
<1>3. /\ Current(G, x, p, g, m) /\ SizesSound(mBlockArgSizes) /\ eResultOperator \in {"constant", "variable"} /\ expr = <<>>
      /\ CompilerSound(oCompiler, x, 0, 0, <<>>, {}) /\ o = Op /\ y \in Context /\ OpSound(o, y, x)
      /\ Leads(g, FileWithout(p, o, y), y)
  BY <1>2 DEF Closing
<1>4. y = x
  BY <1>2, <1>3 DEF OpSound, BranchSound, ForeachSound, BlockSound, VerboseSound
<1>5. q = FileWithout(p, o, y)
  <2>1. ClosedSo(p, x, o, y)
    BY <1>3, ClosedAs
  <2> QED BY <1>2, <1>3, <1>4, <2>1, Zenon DEF ClosedSo
<1> HIDE DEF q
<1>6. Leads(g, q, y)
  BY <1>3, <1>5
<1>7. CompilerSound(oCompiler', y, 0, 0, <<>>, {}) /\ SizesSound(mBlockArgSizes') /\ at' = "text" /\ expr' = <<>>
      /\ eResultOperator' \in {"constant", "variable"}
  BY <1>1, <1>3, <1>4
<1> QED BY <1>1, <1>3, <1>6, <1>7, TextBecome

-----------------------------------------------------------------------------
(* <TMPL_if>, <TMPL_unless>, <TMPL_elsif>. *)

Condition1(c, from, x) == CompilerSound(c, x, 0, 0, <<>>, {}) /\ from \subseteq {Shape(x, HROf(x), 0)}

LEMMA StoredSound ==
  ASSUME Handled, NEW G, NEW x, Answered(G, x), ConditionAllowed, NEW r \in StoreComparisonResult(oCompiler)
  PROVE  Condition1(r[1], IF r[2] THEN FromLast(r[1].flow) ELSE {}, x)
<1> DEFINE none == <<>>
           c == oCompiler
<1>1. /\ x \in Context /\ CompilerSound(c, x, 1, 1, none, {}) /\ Compiling(c, x, 1, 1, none)
      /\ TopKnown(c.flow, x, 1) /\ eResultOperator \in {"constant", "variable"}
  BY DEF Answered
<1>2. 1 \in Nat /\ 1 > 0 /\ 1 - 1 = 0 /\ 1 \in Int /\ 0 \in Nat /\ 0 \in Int /\ Ready({}, 0, {})
  BY SoonReady
<1>3. CASE eResultOperator = "variable"
  <2> DEFINE e == Tested(c)
             from == TestedJump(e)
  <2> DEFINE yes == TRUE
  <2>a. StoreComparisonResult(c) = {<<e, yes>>}
    BY <1>3, Zenon DEF StoreComparisonResult
  <2>b. yes = TRUE /\ from = FromLast(e.flow)
    BY DEF TestedJump
  <2>1. r[1] = e /\ r[2] /\ FromLast(r[1].flow) = from
    <3> HIDE DEF e, from, yes
    <3>1. r = <<e, yes>>
      BY <2>a
    <3>2. r[1] = e /\ r[2] = yes
      BY <3>1
    <3> QED BY <2>b, <3>2
  <2> HIDE DEF c, none
  <2>2. CompilerSound(e, x, 1 - 1, 1 - 1, none, {}) /\ from \subseteq {Shape(x, HROf(x), 1 - 1)}
    BY <1>1, <1>2, TestedSound
  <2> HIDE DEF e, from
  <2>3. Condition1(e, from, x)
    BY <1>2, <2>2 DEF Condition1, none
  <2> QED BY <2>1, <2>3
<1>4. CASE eResultOperator = "constant"
  <2> DEFINE e == RemoveInstruction(c)
             j == UncondJump(e)
             f == c.flow
             t == f.trail
             last == Last(t).op
  <2>1. t # <<>> /\ last = "PUSH"
    <3>1. LastOp = "PUSH"
      BY <1>4, Zenon DEF ConditionAllowed, Handled
    <3>2. LastOp = IF t = <<>> THEN "" ELSE last
      BY DEF LastOp
    <3> HIDE DEF last, t
    <3>3. "PUSH" # ""
      OBVIOUS
    <3> QED BY <3>1, <3>2, <3>3
  <2>2. \/ r[1] = e /\ r[2] = FALSE
        \/ r[1] = j /\ r[2] = TRUE
    <3> DEFINE yes == TRUE
               no == FALSE
    <3>1. StoreComparisonResult(c) = {<<e, no>>, <<j, yes>>}
      <4>1. eResultOperator # "variable"
        BY <1>4
      <4> QED BY <4>1, Zenon DEF StoreComparisonResult
    <3> HIDE DEF e, j, yes, no
    <3>2. r = <<e, no>> \/ r = <<j, yes>>
      BY <3>1
    <3>3. (r[1] = e /\ r[2] = no) \/ (r[1] = j /\ r[2] = yes)
      BY <3>2
    <3> QED BY <3>3 DEF yes, no
  <2>3. LastPushed(f, x, HROf(x), 1)
    <3>1. last = t[Len(t)].op
      BY DEF Last
    <3>2. TopKnown(f, x, 1)
      BY <1>1
    <3> QED BY <2>1, <3>1, <3>2 DEF TopKnown
  <2> HIDE DEF none, c, t, last, f
  <2>4. CompilerSound(e, x, 0, 0, none, {})
    BY <1>1, <2>3, RemoveSound DEF f
  <2> HIDE DEF e
  <2>5. CompilerSound(j, x, 0, 0, none, {}) /\ FromLast(j.flow) \subseteq {Shape(x, HROf(x), 0)}
    BY <1>1, <1>2, <2>4, UncondJumpSound
  <2> HIDE DEF j
  <2>6. CASE r[1] = e /\ r[2] = FALSE
    BY <2>4, <2>6 DEF Condition1, none
  <2>7. CASE r[1] = j /\ r[2] = TRUE
    BY <2>5, <2>7 DEF Condition1, none
  <2> QED BY <2>2, <2>6, <2>7
<1> QED BY <1>1, <1>3, <1>4

(* The value of a condition, and the file it is in.                        *)
LEMMA AnswerNow ==
  ASSUME IInv, NEW s, s # "call", Condition(s)
  PROVE  \E G, x, p, g, m : Answered(G, x) /\ Current(G, x, p, g, m)
<1>1. Factor("statement") /\ Innermost.of # "call"
  BY DEF Condition
<1>2. PICK G, x : Answered(G, x)
  BY <1>1, StatementReading
<1>3. FilesSound(parsers, G) /\ x = Here(parsers, G)
  BY <1>2 DEF Answered
<1>4. PICK p, g, m : Current(G, x, p, g, m)
  BY <1>3, CurrentFile
<1> QED BY <1>2, <1>4

LEMMA IfStep ==
  ASSUME Handled, IInv, NEW s \in {"if", "unless"}, Branching(s)
  PROVE  IInv'
<1>1. Condition(s) /\ ConditionAllowed /\ mBlockArgSizes' = mBlockArgSizes /\ s # "call"
  BY DEF Branching
<1>2. PICK r \in StoreComparisonResult(oCompiler) :
        /\ Compile(r[1])
        /\ Become(Opened([k |-> "branch", caller |-> IF r[2] THEN FromLast(r[1].flow) ELSE {}, exits |-> {}, else |-> FALSE]))
  BY DEF Branching
<1>3. PICK G, x, p, g, m : Answered(G, x) /\ Current(G, x, p, g, m)
  BY <1>1, AnswerNow
<1> DEFINE from == IF r[2] THEN FromLast(r[1].flow) ELSE {}
           c == r[1]
           o == [k |-> "branch", caller |-> from, exits |-> {}, else |-> FALSE]
           q == Opened(o)
<1>4. Condition1(c, from, x)
  BY <1>1, <1>3, StoredSound
<1>5. Compile(c) /\ Become(q)
  BY <1>2
<1> HIDE DEF c, from
<1>6. CompilerSound(c, x, 0, 0, <<>>, {}) /\ from \subseteq {Shape(x, HROf(x), 0)}
  BY <1>4 DEF Condition1
<1>7. SizesSound(mBlockArgSizes') /\ at' = "text" /\ expr' = <<>> /\ eResultOperator' \in {"constant", "variable"}
  BY <1>1, <1>3 DEF Answered, Condition, EndStatement
<1>8. x \in Context
  BY <1>3 DEF Current
<1>9. o.k = "branch" /\ OpSound(o, x, x)
  <2>1. BranchSound(o, x, x)
    BY <1>6 DEF BranchSound
  <2> QED BY <2>1 DEF OpSound
<1> DEFINE names == p.mCurrentBlock
<1> HIDE DEF o
<1>10. q = FileWith(p, o, x, names)
  <2>1. OpenedSo(p, x, o, x, names)
    BY <1>3, OpenedAs
  <2> QED BY <1>9, <2>1, Zenon DEF OpenedSo
<1> HIDE DEF q
<1>11. Leads(g, q, x)
  BY <1>3, <1>8, <1>9, <1>10, OpenLeads
<1> QED BY <1>3, <1>5, <1>6, <1>7, <1>8, <1>11, TextCompiled

(* The branch that is open is replaced by another one.                     *)
LEMMA BranchLeads ==
  ASSUME NEW G, NEW x, NEW p, NEW g, NEW m, Current(G, x, p, g, m), m # 0, p.ops[m].k = "branch", NEW e, BranchSound(e, x, x),
         NEW t, Renewed(t, p.ops, m, e),
         NEW q, q = FileOf(t, p.bInForeach, p.bInBlock, p.bVerboseMode, p.mCurrentBlock, p.vBreakJMPPoints)
  PROVE  Leads(g, q, x) /\ q.ops = t
<1>1. FileSound(p, g) /\ m = Len(p.ops) /\ x = g[m]
  BY DEF Current
<1>2. q.ops = t
  BY FieldsBack
<1>3. Replacing(p, g, m, e, t, q)
  BY <1>1, Zenon DEF Replacing
<1>4. FileSound(q, g) /\ Len(q.ops) = m
  BY <1>3, FileReplaced
<1> QED BY <1>1, <1>2, <1>4 DEF Leads

LEMMA ElsifConditionStep == Handled /\ IInv /\ ElsifCondition => IInv'
<1> SUFFICES ASSUME Handled, IInv, ElsifCondition PROVE IInv'
  OBVIOUS
<1>1. Condition("elsif") /\ ConditionAllowed /\ mBlockArgSizes' = mBlockArgSizes /\ "elsif" # "call"
  BY DEF ElsifCondition, Branching
<1>2. PICK r \in StoreComparisonResult(oCompiler) :
        /\ Compile(r[1])
        /\ Become([Parser EXCEPT !.ops[Len(Parser.ops)].caller = IF r[2] THEN FromLast(r[1].flow) ELSE {}])
  BY DEF ElsifCondition, Branching
<1>3. PICK G, x, p, g, m : Answered(G, x) /\ Current(G, x, p, g, m)
  BY <1>1, AnswerNow
<1> DEFINE from == IF r[2] THEN FromLast(r[1].flow) ELSE {}
           c == r[1]
           o == p.ops[m]
           e == [o EXCEPT !.caller = from]
           t == [p.ops EXCEPT ![m] = e]
           q == [p EXCEPT !.ops = t]
<1>4. Condition1(c, from, x)
  BY <1>1, <1>3, StoredSound
<1>5. p = Parser /\ m = Len(p.ops) /\ m \in Nat /\ IsList(p.ops, m) /\ x = g[m] /\ x \in Context /\ FileSound(p, g)
  BY <1>3 DEF Current
<1>6. Compile(c) /\ Become([p EXCEPT !.ops[m].caller = from])
  BY <1>2, <1>5
<1> HIDE DEF c, from
<1>7. CompilerSound(c, x, 0, 0, <<>>, {}) /\ from \subseteq {Shape(x, HROf(x), 0)}
  BY <1>4 DEF Condition1
<1>8. SizesSound(mBlockArgSizes') /\ at' = "text" /\ expr' = <<>> /\ eResultOperator' \in {"constant", "variable"}
  BY <1>1, <1>3 DEF Answered, Condition, EndStatement
<1>9. m > 0 /\ o.k = "branch"
  <2>1. expr # <<>> /\ expr[1] = Innermost /\ ElsifSound(expr, parsers)
    BY <1>3 DEF Answered
  <2>2. expr[1].of = "elsif"
    BY <1>1, <2>1 DEF Condition
  <2>3. p.ops # <<>> /\ p.ops[Len(p.ops)].k = "branch"
    BY <1>5, <2>1, <2>2 DEF ElsifSound, Parser
  <2>4. p.ops \in Seq({p.ops[i] : i \in 1..m})
    BY <1>5, ListType DEF IsList
  <2> QED BY <1>5, <2>3, <2>4
<1>10. BranchSound(o, x, x)
  <2>1. OpSound(o, g[m - 1], g[m])
    <3>1. Parts(p, g, m, g[0], g[m])
      BY <1>5, FileParts
    <3>2. OpsSound(p.ops, g)
      BY <3>1, Zenon DEF Parts
    <3> QED BY <1>5, <1>9, <3>2 DEF OpsSound
  <2>2. BranchSound(o, g[m - 1], g[m])
    BY <1>9, <2>1 DEF OpSound, ForeachSound, BlockSound, VerboseSound
  <2> QED BY <1>5, <2>2 DEF BranchSound
<1>11. BranchSound(e, x, x)
  BY <1>7, <1>10 DEF BranchSound
<1>12. Become(q)
  BY <1>6
<1> HIDE DEF e
<1>13. Renewed(t, p.ops, m, e)
  BY <1>5, <1>9, UpdatedList
<1> HIDE DEF t
<1>a. q = FileOf(t, p.bInForeach, p.bInBlock, p.bVerboseMode, p.mCurrentBlock, p.vBreakJMPPoints)
  <2>1. Edited(p, q, t, 0, 0)
    BY <1>5, FileEdited
  <2> HIDE DEF q
  <2> QED BY <2>1, Zenon DEF Edited
<1> HIDE DEF q
<1>14. Leads(g, q, x)
  BY <1>3, <1>9, <1>11, <1>13, <1>a, BranchLeads
<1> QED BY <1>3, <1>5, <1>6, <1>7, <1>8, <1>12, <1>14, TextCompiled

(* A branch ends: the jump to the end starts where the branch does.        *)
BranchOn(g, x) == \E q : Become(q) /\ Leads(g, q, x) /\ q.ops # <<>> /\ q.ops[Len(q.ops)].k = "branch"

LEMMA BranchEnded ==
  ASSUME NEW else \in BOOLEAN, NEW G, NEW x, NEW p, NEW g, NEW m, NEW o, NEW y, Closing(G, x, p, g, m, o, y), o.k = "branch",
         EndOfBranch(else)
  PROVE  BranchOn(g, x) /\ CompilerSound(oCompiler', x, 0, 0, <<>>, {})
<1> DEFINE none == <<>>
           c == EndBranch(oCompiler)
           from == FromLast(c.flow)
           d == Patched(c, o.caller)
           e == [o EXCEPT !.caller = {}, !.exits = @ \cup from, !.else = else]
           s == Front(p.ops)
           t == Append(s, e)
           q1 == [p EXCEPT !.ops = s]
           q == [q1 EXCEPT !.ops = t]
<1>1. /\ Current(G, x, p, g, m) /\ CompilerSound(oCompiler, x, 0, 0, none, {}) /\ o = Op /\ x \in Context /\ y \in Context
      /\ OpSound(o, y, x) /\ m # 0 /\ o = p.ops[m] /\ p = Parser
  BY DEF Closing
<1>2. m \in Nat /\ IsList(p.ops, m) /\ FileSound(p, g) /\ m = Len(p.ops)
  BY <1>1 DEF Current
<1>3. BranchSound(o, x, x)
  <2>1. BranchSound(o, y, x)
    BY <1>1 DEF OpSound, ForeachSound, BlockSound, VerboseSound
  <2> QED BY <2>1 DEF BranchSound
<1>4. 0 \in Nat /\ 0 \in Int /\ Ready({}, 0, {})
  BY SoonReady
<1>5. Compile(d) /\ Become([Closed EXCEPT !.ops = Append(@, e)])
  BY <1>1, Zenon DEF EndOfBranch
<1> HIDE DEF none
<1>6. CompilerSound(c, x, 0, 0, none, {}) /\ from \subseteq {Shape(x, HROf(x), 0)}
  <2>1. CompilerSound(UncondJump(oCompiler), x, 0, 0, none, {})
        /\ FromLast(UncondJump(oCompiler).flow) \subseteq {Shape(x, HROf(x), 0)}
    BY <1>1, <1>4, UncondJumpSound
  <2> QED BY <2>1 DEF EndBranch
<1> HIDE DEF c, from
<1>7. o.caller \subseteq {Shape(x, HROf(x), 0)}
  BY <1>3 DEF BranchSound
<1>8. CompilerSound(d, x, 0, 0, none, {})
  BY <1>1, <1>4, <1>6, <1>7, PatchedSound
<1> HIDE DEF d
<1>9. Compiling(d, x, 0, 0, none)
  BY <1>1, <1>4, <1>8, StartCompiling
<1>10. CompilerSound(oCompiler', x, 0, 0, none, {})
  BY <1>1, <1>4, <1>5, <1>9, CompiledSound
<1>11. BranchSound(e, x, x) /\ e.k = "branch"
  <2> DEFINE A == o.caller
             B == o.exits
             C == o.else
             D == B \cup from
             e1 == [o EXCEPT !.caller = {}]
             e2 == [e1 EXCEPT !.exits = D]
             S == {Shape(x, HROf(x), 0)}
  <2>1. o = [k |-> "branch", caller |-> A, exits |-> B, else |-> C] /\ B \subseteq S
    BY <1>3 DEF BranchSound
  <2>2. D \subseteq S
    BY <1>6, <2>1
  <2>3. e = [e2 EXCEPT !.else = else]
    OBVIOUS
  <2> HIDE DEF A, B, C, D, e
  <2>4. e1 = [k |-> "branch", caller |-> {}, exits |-> B, else |-> C]
    BY <2>1
  <2> HIDE DEF e1
  <2>5. e2 = [k |-> "branch", caller |-> {}, exits |-> D, else |-> C]
    BY <2>4
  <2> HIDE DEF e2
  <2>6. e = [k |-> "branch", caller |-> {}, exits |-> D, else |-> else]
    BY <2>3, <2>5
  <2> QED BY <2>2, <2>6 DEF BranchSound
<1> HIDE DEF e
<1>12. Renewed(t, p.ops, m, e)
  <2>1. m > 0
    BY <1>1, <1>2
  <2>2. Renewed(s \o <<e>>, p.ops, m, e) /\ s \o <<e>> = t
    BY <1>2, <2>1, ReplacedList
  <2> QED BY <2>2
<1>13. Become(q)
  <2>1. Closed = q1
    BY <1>1 DEF Closed
  <2>2. q1.ops = s
    <3>1. Edited(p, q1, s, 0, 0)
      BY <1>2, FileEdited
    <3> HIDE DEF q1
    <3> QED BY <3>1, Zenon DEF Edited
  <2>3. Become([q1 EXCEPT !.ops = Append(q1.ops, e)])
    BY <1>5, <2>1
  <2> HIDE DEF q1
  <2> QED BY <2>2, <2>3
<1>14. q = FileOf(t, p.bInForeach, p.bInBlock, p.bVerboseMode, p.mCurrentBlock, p.vBreakJMPPoints)
  <2> DEFINE i == p.bInForeach
             b == p.bInBlock
             v == p.bVerboseMode
             names == p.mCurrentBlock
             breaks == p.vBreakJMPPoints
  <2>1. Edited(p, q1, s, 0, 0)
    BY <1>2, FileEdited
  <2> HIDE DEF q1
  <2>2. q1 = FileOf(s, i, b, v, names, breaks)
    BY <2>1, Zenon DEF Edited
  <2> HIDE DEF i, b, v, names, breaks, s, t
  <2>3. q = FileOf(t, i, b, v, names, breaks)
    BY <2>2, FileFields
  <2> QED BY <2>3 DEF i, b, v, names, breaks
<1> HIDE DEF q, t
<1>15. Leads(g, q, x) /\ q.ops = t
  <2>1. m # 0 /\ p.ops[m].k = "branch"
    BY <1>1
  <2> QED BY <1>1, <1>11, <1>12, <1>14, <2>1, BranchLeads
<1>16. q.ops # <<>> /\ q.ops[Len(q.ops)].k = "branch"
  <2>1. Len(t) = m /\ t[m] = e
    BY <1>12 DEF Renewed, IsList
  <2>2. t # <<>>
    BY <1>1, <2>1
  <2> QED BY <1>11, <1>15, <2>1, <2>2
<1> QED BY <1>10, <1>13, <1>15, <1>16 DEF BranchOn, none

LEMMA ElsifStep == IInv /\ Elsif => IInv'
<1> SUFFICES ASSUME IInv, Elsif PROVE IInv'
  OBVIOUS
<1> DEFINE e == [k |-> "statement", of |-> "elsif"]
           none == <<>>
<1>1. /\ at = "text" /\ Within("branch") /\ EndOfBranch(FALSE) /\ expr' = <<e>> /\ at' = "operand"
      /\ mBlockArgSizes' = mBlockArgSizes /\ eResultOperator' = eResultOperator
  BY DEF Elsif, InText, Statement
<1>2. PICK G, x, p, g, m, o, y : Closing(G, x, p, g, m, o, y) /\ o.k = "branch"
  BY <1>1, ClosingNow
<1>3. Current(G, x, p, g, m) /\ x \in Context /\ SizesSound(mBlockArgSizes) /\ eResultOperator \in {"constant", "variable"}
  BY <1>2 DEF Closing
<1>4. BranchOn(g, x) /\ CompilerSound(oCompiler', x, 0, 0, none, {})
  <2>1. FALSE \in BOOLEAN
    OBVIOUS
  <2> QED BY <1>1, <1>2, <2>1, BranchEnded
<1>5. PICK q : Become(q) /\ Leads(g, q, x) /\ q.ops # <<>> /\ q.ops[Len(q.ops)].k = "branch"
  BY <1>4 DEF BranchOn
<1>6. Stands(parsers', x)
  BY <1>3, <1>5, BecomeFile
<1>7. PICK H : FilesSound(parsers', H) /\ Here(parsers', H) = x
  BY <1>6 DEF Stands
<1>8. Last(parsers') = q
  <2> DEFINE n == Len(parsers)
  <2>1. IsList(parsers, n) /\ n \in Nat /\ n > 0
    <3>1. FilesSound(parsers, G)
      BY <1>3 DEF Current
    <3>2. IsList(parsers, n) /\ n \in 1..MaxLevel
      BY <3>1 DEF FilesSound, IsList
    <3> QED BY <3>2, ParserBounds
  <2> HIDE DEF n
  <2>2. Renewed(Front(parsers) \o <<q>>, parsers, n, q)
    BY <2>1, ReplacedList
  <2>3. Renewed(parsers', parsers, n, q)
    BY <1>5, <2>2 DEF Become
  <2> QED BY <2>3 DEF Renewed, IsList, Last
<1>9. StatementSound(e) /\ e.of # "call" /\ Held(e) = 0
  BY DEF StatementSound, Held
<1>10. ElsifSound(<<e>>, parsers')
  BY <1>5, <1>8 DEF ElsifSound
<1>11. 0 \in Nat /\ 0 = Held(e) + Valued(at')
  BY <1>1, <1>9 DEF Valued
<1> HIDE DEF e
<1>12. CompilerSound(oCompiler', x, 0, 0, IF e.of = "call" THEN <<8 * x.level + One(e.bIsVariable)>> ELSE none, {})
  BY <1>4, <1>9
<1>13. FilesSound(parsers', H) /\ x = Here(parsers', H) /\ SizesSound(mBlockArgSizes')
      /\ eResultOperator' \in {"constant", "variable"}
  BY <1>1, <1>3, <1>7
<1> QED BY <1>1, <1>9, <1>10, <1>11, <1>12, <1>13, StatementOn

LEMMA ElseStep == IInv /\ Else => IInv'
<1> SUFFICES ASSUME IInv, Else PROVE IInv'
  OBVIOUS
<1>1. /\ at = "text" /\ Within("branch") /\ EndOfBranch(TRUE) /\ at' = at /\ expr' = expr
      /\ mBlockArgSizes' = mBlockArgSizes /\ eResultOperator' = eResultOperator
  BY DEF Else, InText
<1>2. PICK G, x, p, g, m, o, y : Closing(G, x, p, g, m, o, y) /\ o.k = "branch"
  BY <1>1, ClosingNow
<1>3. Current(G, x, p, g, m) /\ x \in Context /\ SizesSound(mBlockArgSizes) /\ eResultOperator \in {"constant", "variable"}
      /\ expr = <<>>
  BY <1>2 DEF Closing
<1>4. BranchOn(g, x) /\ CompilerSound(oCompiler', x, 0, 0, <<>>, {})
  <2>1. TRUE \in BOOLEAN
    OBVIOUS
  <2> QED BY <1>1, <1>2, <2>1, BranchEnded
<1>5. PICK q : Become(q) /\ Leads(g, q, x)
  BY <1>4 DEF BranchOn
<1>6. SizesSound(mBlockArgSizes') /\ at' = "text" /\ expr' = <<>> /\ eResultOperator' \in {"constant", "variable"}
  BY <1>1, <1>3
<1> QED BY <1>3, <1>4, <1>5, <1>6, TextBecome

LEMMA EndIfStep == IInv /\ EndIf => IInv'
<1> SUFFICES ASSUME IInv, EndIf PROVE IInv'
  OBVIOUS
<1> DEFINE none == <<>>
           c == EndBranch(oCompiler)
           from == FromLast(c.flow)
           q == Closed
<1>1. /\ at = "text" /\ Within("branch") /\ Become(q) /\ at' = at /\ expr' = expr
      /\ Compile(Patched(c, Op.caller \cup Op.exits \cup from))
      /\ mBlockArgSizes' = mBlockArgSizes /\ eResultOperator' = eResultOperator
  BY DEF EndIf, InText
<1>2. PICK G, x, p, g, m, o, y : Closing(G, x, p, g, m, o, y) /\ o.k = "branch"
  BY <1>1, ClosingNow
<1>3. /\ Current(G, x, p, g, m) /\ SizesSound(mBlockArgSizes) /\ eResultOperator \in {"constant", "variable"} /\ expr = <<>>
      /\ CompilerSound(oCompiler, x, 0, 0, none, {}) /\ o = Op /\ y \in Context /\ OpSound(o, y, x) /\ x \in Context
      /\ Leads(g, FileWithout(p, o, y), y)
  BY <1>2 DEF Closing
<1>4. y = x /\ o.caller \subseteq {Shape(x, HROf(x), 0)} /\ o.exits \subseteq {Shape(x, HROf(x), 0)}
  <2>1. BranchSound(o, y, x)
    BY <1>2, <1>3 DEF OpSound, ForeachSound, BlockSound, VerboseSound
  <2> QED BY <2>1 DEF BranchSound
<1>5. q = FileWithout(p, o, y)
  <2>1. ClosedSo(p, x, o, y)
    BY <1>3, ClosedAs
  <2> QED BY <1>2, <1>4, <2>1, Zenon DEF ClosedSo
<1>6. 0 \in Nat /\ 0 \in Int /\ Ready({}, 0, {})
  BY SoonReady
<1> HIDE DEF none, q
<1>7. CompilerSound(c, x, 0, 0, none, {}) /\ from \subseteq {Shape(x, HROf(x), 0)}
  <2>1. CompilerSound(UncondJump(oCompiler), x, 0, 0, none, {})
        /\ FromLast(UncondJump(oCompiler).flow) \subseteq {Shape(x, HROf(x), 0)}
    BY <1>3, <1>6, UncondJumpSound
  <2> QED BY <2>1 DEF EndBranch
<1> HIDE DEF c, from
<1> DEFINE jumps == o.caller \cup o.exits \cup from
           d == Patched(c, jumps)
<1>8. jumps \subseteq {Shape(x, HROf(x), 0)} /\ Compile(d)
  BY <1>1, <1>3, <1>4, <1>7
<1> HIDE DEF jumps
<1>9. CompilerSound(d, x, 0, 0, none, {})
  BY <1>3, <1>6, <1>7, <1>8, PatchedSound
<1> HIDE DEF d
<1>10. CompilerSound(d, x, 0, 0, <<>>, {}) /\ Leads(g, q, x) /\ Become(q)
  BY <1>1, <1>3, <1>4, <1>5, <1>9 DEF none
<1>11. SizesSound(mBlockArgSizes') /\ at' = "text" /\ expr' = <<>> /\ eResultOperator' \in {"constant", "variable"}
  BY <1>1, <1>3
<1> QED BY <1>3, <1>8, <1>10, <1>11, TextCompiled

-----------------------------------------------------------------------------
(* <TMPL_foreach>, <TMPL_break>. *)

LEMMA StartForeachStep ==
  ASSUME IInv, NEW szNS, Condition("foreach"), mBlockArgSizes' = mBlockArgSizes, NEW c1, c1 = ChangeScope(oCompiler, NoSymbol),
         Compile(StoreScopedVariable(c1, szNS)),
         NEW o, o = [k |-> "foreach", ret |-> RetPoint(c1), bOldFlag |-> Parser.bInForeach],
         Become([Opened(o) EXCEPT !.bInForeach = TRUE, !.vBreakJMPPoints = Append(@, {})])
  PROVE  IInv'
<1> DEFINE none == <<>>
           c == StoreScopedVariable(c1, szNS)
           q == [Opened(o) EXCEPT !.bInForeach = TRUE, !.vBreakJMPPoints = Append(@, {})]
<1>1. PICK G, x, p, g, m : Answered(G, x) /\ Current(G, x, p, g, m)
  BY AnswerNow
<1> DEFINE y == Inside(x)
           names == p.mCurrentBlock
<1>2. x \in Context /\ p = Parser /\ p.bInForeach = (x.level # 0)
  BY <1>1 DEF Current
<1>3. CompilerSound(oCompiler, x, 1, 1, none, {})
  BY <1>1 DEF Answered
<1>4. CompilerSound(c, y, 0, 0, none, {}) /\ RetSound(RetPoint(c1), y)
  <2> HIDE DEF none
  <2>1. LET b == ChangeScope(oCompiler, NoSymbol)
        IN /\ CompilerSound(StoreScopedVariable(b, szNS), Inside(x), 0, 0, none, {})
           /\ RetSound(RetPoint(b), Inside(x))
    BY <1>2, <1>3, ChangeScopeSound, Zenon
  <2> QED BY <2>1, Zenon
<1>5. y \in Context /\ y.level # 0
  BY <1>2 DEF Context, Inside
<1>6. o.k = "foreach" /\ OpSound(o, x, y)
  <2> DEFINE r == RetPoint(c1)
             old == (x.level # 0)
  <2>1. o = [k |-> "foreach", ret |-> r, bOldFlag |-> old] /\ RetSound(r, y)
    BY <1>2, <1>4
  <2> HIDE DEF r, old
  <2>2. o.k = "foreach" /\ o.ret = r /\ o = [k |-> "foreach", ret |-> o.ret, bOldFlag |-> old]
    BY <2>1
  <2>3. ForeachSound(o, x, y)
    BY <2>1, <2>2 DEF ForeachSound, old
  <2> QED BY <2>2, <2>3 DEF OpSound
<1> HIDE DEF c, y, none
<1>7. q = FileWith(p, o, y, names)
  <2>1. OpenedSo(p, x, o, y, names)
    BY <1>1, OpenedAs
  <2> QED BY <1>5, <1>6, <2>1, Zenon DEF OpenedSo
<1>8. Become(q) /\ Compile(c)
  BY DEF c
<1> HIDE DEF q
<1>9. Leads(g, q, y)
  BY <1>1, <1>5, <1>6, <1>7, OpenLeads
<1>10. SizesSound(mBlockArgSizes') /\ at' = "text" /\ expr' = <<>> /\ eResultOperator' \in {"constant", "variable"}
  BY <1>1 DEF Answered, Condition, EndStatement
<1>11. CompilerSound(c, y, 0, 0, <<>>, {})
  BY <1>4 DEF none
<1> QED BY <1>1, <1>5, <1>8, <1>9, <1>10, <1>11, TextCompiled

LEMMA ForeachStep == Handled /\ IInv /\ ForeachOperator => IInv'
<1> SUFFICES ASSUME Handled, IInv, ForeachOperator PROVE IInv'
  OBVIOUS
<1>1. CASE StartStatement("foreach")
  BY <1>1, StartStatementStep
<1>2. CASE ~StartStatement("foreach")
  <2> DEFINE c1 == ChangeScope(oCompiler, NoSymbol)
             o == [k |-> "foreach", ret |-> RetPoint(c1), bOldFlag |-> Parser.bInForeach]
  <2>1. PICK szNS \in Names :
          /\ Condition("foreach") /\ mBlockArgSizes' = mBlockArgSizes
          /\ Compile(StoreScopedVariable(c1, szNS))
          /\ Become([Opened(o) EXCEPT !.bInForeach = TRUE, !.vBreakJMPPoints = Append(@, {})])
    <3>1. LoopTexts = {NoSymbol}
      BY Zenon DEF LoopTexts, Handled
    <3>2. PICK szNS \in Names, szLoopName \in LoopTexts :
            /\ Condition("foreach") /\ mBlockArgSizes' = mBlockArgSizes
            /\ LET c == ChangeScope(oCompiler, szLoopName)
               IN /\ Compile(StoreScopedVariable(c, szNS))
                  /\ Become([Opened([k |-> "foreach", ret |-> RetPoint(c), bOldFlag |-> Parser.bInForeach])
                               EXCEPT !.bInForeach = TRUE, !.vBreakJMPPoints = Append(@, {})])
      BY <1>2, Zenon DEF ForeachOperator
    <3>3. szLoopName = NoSymbol
      BY <3>1, <3>2
    <3> QED BY <3>2, <3>3
  <2>2. o = [k |-> "foreach", ret |-> RetPoint(c1), bOldFlag |-> Parser.bInForeach]
    OBVIOUS
  <2>3. c1 = ChangeScope(oCompiler, NoSymbol)
    OBVIOUS
  <2> HIDE DEF c1, o
  <2> QED BY <2>1, <2>2, <2>3, StartForeachStep
<1> QED BY <1>1, <1>2

(* The jumps out of the loop that is open.                                 *)
LEMMA LoopBreaks ==
  ASSUME NEW G, NEW x, NEW p, NEW g, NEW m, Current(G, x, p, g, m), m # 0, p.ops[m].k = "foreach"
  PROVE  SameCells(Last(p.vBreakJMPPoints), x)
<1> DEFINE n == Len(p.vBreakJMPPoints)
           F == OpenIn(p, "foreach")
<1>1. FileSound(p, g) /\ m = Len(p.ops) /\ m \in Nat /\ IsList(p.ops, m) /\ x = g[m] /\ x \in Context
  BY DEF Current
<1>2. BreaksSound(p, g[0], g[m])
  <2>1. Parts(p, g, m, g[0], g[m])
    BY <1>1, FileParts
  <2> QED BY <2>1, Zenon DEF Parts
<1>3. n = Cardinality(F)
  BY <1>2 DEF BreaksSound
<1>4. DOMAIN p.ops = 1..m
  BY <1>1, ListType DEF IsList
<1>5. m \in F /\ F \subseteq 1..m
  BY <1>1, <1>4 DEF OpenIn
<1>6. n # 0
  <2> HIDE DEF n, F
  <2>1. IsFiniteSet(1..m)
    BY <1>1, FS_Interval
  <2>2. IsFiniteSet(F)
    BY <1>5, <2>1, FS_Subset
  <2>3. Cardinality(F) # 0
    BY <1>5, <2>2, FS_EmptySet
  <2> QED BY <1>3, <2>3
<1> HIDE DEF n
<1>7. n = Len(p.vBreakJMPPoints)
  BY DEF n
<1>8. p.vBreakJMPPoints[n] \subseteq {Shape(x, HROf(x), 0)}
  BY <1>1, <1>6, <1>7, BreaksHere
<1>9. Last(p.vBreakJMPPoints) = p.vBreakJMPPoints[n]
  BY <1>7 DEF Last
<1>10. HROf(x) \in Int
  BY <1>1, ContextType
<1> QED BY <1>8, <1>9, <1>10 DEF SameCells

LEMMA EndForeachStep == IInv /\ EndForeach => IInv'
<1> SUFFICES ASSUME IInv, EndForeach PROVE IInv'
  OBVIOUS
<1> DEFINE none == <<>>
           q == [Closed EXCEPT !.bInForeach = Op.bOldFlag, !.vBreakJMPPoints = Front(@)]
<1>1. /\ at = "text" /\ Within("foreach") /\ Become(q) /\ at' = at /\ expr' = expr
      /\ Compile(ResetScope(oCompiler, Op.ret, Last(Parser.vBreakJMPPoints)))
      /\ mBlockArgSizes' = mBlockArgSizes /\ eResultOperator' = eResultOperator
  BY DEF EndForeach, InText
<1>2. PICK G, x, p, g, m, o, y : Closing(G, x, p, g, m, o, y) /\ o.k = "foreach"
  BY <1>1, ClosingNow
<1>3. /\ Current(G, x, p, g, m) /\ SizesSound(mBlockArgSizes) /\ eResultOperator \in {"constant", "variable"} /\ expr = <<>>
      /\ CompilerSound(oCompiler, x, 0, 0, none, {}) /\ o = Op /\ y \in Context /\ OpSound(o, y, x) /\ x \in Context
      /\ Leads(g, FileWithout(p, o, y), y) /\ m # 0 /\ o = p.ops[m] /\ p = Parser
  BY <1>2 DEF Closing
<1>4. x = Inside(y) /\ RetSound(o.ret, x) /\ o.bOldFlag = (y.level # 0)
  <2>1. ForeachSound(o, y, x)
    BY <1>2, <1>3 DEF OpSound, BranchSound, BlockSound, VerboseSound
  <2> DEFINE r == o.ret
             old == (y.level # 0)
  <2>2. o = [k |-> "foreach", ret |-> r, bOldFlag |-> old] /\ x = Inside(y) /\ RetSound(r, x)
    BY <2>1 DEF ForeachSound
  <2> HIDE DEF r, old
  <2>3. o.bOldFlag = old /\ o.ret = r
    BY <2>2
  <2> QED BY <2>2, <2>3 DEF old
<1>5. q = FileWithout(p, o, y)
  <2>1. ClosedSo(p, x, o, y)
    BY <1>3, ClosedAs
  <2> QED BY <1>2, <1>3, <1>4, <2>1, Zenon DEF ClosedSo
<1> HIDE DEF q
<1> DEFINE breaks == Last(p.vBreakJMPPoints)
           ret == o.ret
           c == ResetScope(oCompiler, ret, breaks)
<1>6. SameCells(breaks, x)
  BY <1>2, <1>3, LoopBreaks
<1>7. Compile(c)
  BY <1>1, <1>3
<1> HIDE DEF breaks, ret, none
<1>8. CompilerSound(oCompiler, Inside(y), 0, 0, none, {}) /\ RetSound(ret, Inside(y)) /\ SameCells(breaks, Inside(y))
  BY <1>3, <1>4, <1>6 DEF ret
<1>9. CompilerSound(c, y, 0, 0, none, {})
  BY <1>3, <1>8, ResetScopeSound
<1> HIDE DEF c
<1>10. CompilerSound(c, y, 0, 0, <<>>, {}) /\ Leads(g, q, y) /\ Become(q) /\ y \in Context
  BY <1>1, <1>3, <1>5, <1>9 DEF none
<1>11. SizesSound(mBlockArgSizes') /\ at' = "text" /\ expr' = <<>> /\ eResultOperator' \in {"constant", "variable"}
  BY <1>1, <1>3
<1> QED BY <1>3, <1>7, <1>10, <1>11, TextCompiled

-----------------------------------------------------------------------------
(* Where the parser starts, and where an exception leaves it.              *)

LEMMA FirstFile == Stands(<<NewParser(FALSE)>>, Root)
<1> DEFINE q == NewParser(Root.level # 0)
           s == <<q>>
<1>1. Root \in Context /\ (Root.level # 0) = FALSE
  BY DEF Root, Context
<1>2. PICK h : FileSound(q, h) /\ h[0] = Root /\ h[Len(q.ops)] = Root
  BY <1>1, NewFile
<1> DEFINE G == [i \in 1..1 |-> h]
<1>3. G[1] = h
  OBVIOUS
<1> HIDE DEF G
<1>4. s = <<NewParser(FALSE)>>
  <2> DEFINE f == (Root.level # 0)
             no == FALSE
  <2>1. f = no
    BY <1>1
  <2> HIDE DEF f, no
  <2>2. NewParser(f) = NewParser(no)
    BY <2>1
  <2>3. s = <<NewParser(no)>>
    BY <2>2 DEF f
  <2> QED BY <2>3 DEF no
<1> HIDE DEF q
<1>5. s = [i \in 1..Len(s) |-> s[i]] /\ Len(s) = 1 /\ s[1] = q
  OBVIOUS
<1> HIDE DEF s
<1>6. FilesSound(s, G)
  <2>1. 1 \in 1..MaxLevel
    BY ParserBounds
  <2>2. \A i \in 1..1 : FileSound(s[i], G[i])
    BY <1>2, <1>3, <1>5
  <2>3. \A i \in 2..1 : G[i][0] = Behind(s[i - 1], G[i - 1])
    OBVIOUS
  <2> QED BY <1>2, <1>3, <1>5, <2>1, <2>2, <2>3 DEF FilesSound
<1>7. Here(s, G) = Root
  BY <1>2, <1>3, <1>5 DEF Here, Behind
<1> QED BY <1>4, <1>6, <1>7 DEF Stands

LEMMA NoSizes == SizesSound([b \in {} |-> 0])
BY DEF SizesSound

LEMMA FailStep ==
  ASSUME NEW outcome \in {"error", "undefined"}, Fail(outcome)
  PROVE  IInv'
<1>1. /\ at' = outcome /\ oCompiler' = NewCompiler /\ parsers' = << NewParser(FALSE) >>
      /\ mBlockArgSizes' = [b \in {} |-> 0] /\ expr' = <<>> /\ eResultOperator' = "variable"
  BY DEF Fail
<1>2. Stands(parsers', Root)
  BY <1>1, FirstFile
<1>3. PICK H : FilesSound(parsers', H) /\ Here(parsers', H) = Root
  BY <1>2 DEF Stands
<1>4. CompilerSound(oCompiler', Root, 0, 0, <<>>, {})
  BY <1>1, NewCompilerSound
<1>5. SizesSound(mBlockArgSizes')
  BY <1>1, NoSizes
<1>6. at' \in {"text", "done", "error", "undefined"} /\ expr' = <<>> /\ eResultOperator' \in {"constant", "variable"}
      /\ FilesSound(parsers', H) /\ Root = Here(parsers', H)
  BY <1>1, <1>3
<1> QED BY <1>4, <1>5, <1>6, TextOn

LEMMA InitStep == Init => IInv
<1> SUFFICES ASSUME Init PROVE IInv
  OBVIOUS
<1> DEFINE x == Root
           none == <<>>
<1>1. /\ at = "text" /\ oCompiler = NewCompiler /\ parsers = << NewParser(FALSE) >>
      /\ mBlockArgSizes = [b \in {} |-> 0] /\ expr = none /\ eResultOperator = "variable"
  BY DEF Init
<1>2. Stands(parsers, x)
  BY <1>1, FirstFile
<1>3. PICK G : FilesSound(parsers, G) /\ Here(parsers, G) = x
  BY <1>2 DEF Stands
<1>4. CompilerSound(oCompiler, x, 0, 0, none, {})
  BY <1>1, NewCompilerSound
<1>5. SizesSound(mBlockArgSizes)
  BY <1>1, NoSizes
<1>6. PICK K : FramesSound(none, x, K) /\ K[0] = 0
  BY NoFrames
<1>7. SavedDepths(x, none) = none /\ Len(none) = 0 /\ Valued(at) = 0 /\ AtSound(at, none)
  BY <1>1 DEF SavedDepths, Valued, AtSound
<1>8. K[Len(none)] + Valued(at) = 0
  BY <1>6, <1>7
<1>9. TrailSound(at, oCompiler.flow, x, 0) /\ ElsifSound(expr, parsers)
  BY <1>1 DEF TrailSound, ElsifSound
<1> HIDE DEF x, none
<1>10. ExprSound(x, expr, K, at, oCompiler)
  BY <1>1, <1>4, <1>6, <1>7, <1>8, <1>9 DEF ExprSound
<1>11. Sound(G, K)
  BY <1>1, <1>3, <1>5, <1>9, <1>10 DEF Sound
<1> QED BY <1>11 DEF IInv

LEMMA SyntaxErrorStep == IInv /\ SyntaxError => IInv'
BY FailStep DEF SyntaxError

(* A break outside of the loops of its file ends the model; another one is *)
(* one more jump out of the loop.                                          *)
LEMMA BreakStep == IInv /\ BreakOperator => IInv'
<1> SUFFICES ASSUME IInv, BreakOperator PROVE IInv'
  OBVIOUS
<1> DEFINE c == UncondJump(oCompiler)
           from == FromLast(c.flow)
           breaks == Parser.vBreakJMPPoints
<1>1. at = "text"
  BY DEF BreakOperator, InText
<1>2. CASE Fail("undefined")
  BY <1>2, FailStep
<1>3. CASE ~Fail("undefined")
  <2> DEFINE none == <<>>
  <2>1. /\ breaks # <<>> /\ Compile(c)
        /\ Become([Parser EXCEPT !.vBreakJMPPoints[Len(Parser.vBreakJMPPoints)] = @ \cup from])
        /\ at' = at /\ expr' = expr /\ mBlockArgSizes' = mBlockArgSizes /\ eResultOperator' = eResultOperator
    BY <1>3, Zenon DEF BreakOperator
  <2>2. PICK G, x, p, g, m : Current(G, x, p, g, m) /\ Between(G, x)
    BY <1>1, CurrentNow
  <2>3. /\ SizesSound(mBlockArgSizes) /\ eResultOperator \in {"constant", "variable"} /\ expr = <<>>
        /\ CompilerSound(oCompiler, x, 0, 0, none, {})
    BY <2>2 DEF Between
  <2>4. p = Parser /\ x \in Context /\ FileSound(p, g) /\ m = Len(p.ops) /\ x = g[m]
    BY <2>2 DEF Current
  <2> HIDE DEF none
  <2>5. CompilerSound(c, x, 0, 0, none, {}) /\ from \subseteq {Shape(x, HROf(x), 0)}
    <3>1. 0 \in Nat /\ 0 \in Int /\ Ready({}, 0, {})
      BY SoonReady
    <3> QED BY <2>3, <2>4, <3>1, UncondJumpSound
  <2> HIDE DEF c, from
  <2> DEFINE n == Len(breaks)
             e == breaks[n] \cup from
             t == [breaks EXCEPT ![n] = e]
             q == [p EXCEPT !.vBreakJMPPoints = t]
  <2>6. n # 0 /\ breaks = p.vBreakJMPPoints /\ IsList(breaks, n) /\ n \in Nat
    <3>1. BreaksSound(p, g[0], g[m])
      <4>1. Parts(p, g, m, g[0], g[m])
        BY <2>4, FileParts
      <4> QED BY <4>1, Zenon DEF Parts
    <3>2. breaks = p.vBreakJMPPoints
      BY <2>4
    <3> HIDE DEF breaks
    <3>3. IsList(breaks, n) /\ n \in Nat
      BY <3>1, <3>2 DEF BreaksSound, IsList
    <3>4. n # 0
      <4>1. breaks \in Seq({breaks[i] : i \in 1..n})
        BY <3>3, ListType DEF IsList
      <4> QED BY <2>1, <4>1
    <3> QED BY <3>2, <3>3, <3>4
  <2>7. Become(q)
    BY <2>1, <2>4
  <2> HIDE DEF breaks
  <2>8. n = Len(p.vBreakJMPPoints) /\ breaks[n] \subseteq {Shape(x, HROf(x), 0)} /\ n > 0
    <3>1. n = Len(p.vBreakJMPPoints)
      BY <2>6
    <3> HIDE DEF n
    <3> QED BY <2>4, <2>6, <3>1, BreaksHere
  <2>9. e \subseteq {Shape(x, HROf(x), 0)}
    BY <2>5, <2>8
  <2> HIDE DEF e
  <2>10. Renewed(t, p.vBreakJMPPoints, n, e)
    BY <2>6, <2>8, UpdatedList
  <2> HIDE DEF t, n
  <2>a. q = FileOf(p.ops, p.bInForeach, p.bInBlock, p.bVerboseMode, p.mCurrentBlock, t)
    <3> DEFINE t1 == [p EXCEPT !.ops = p.ops]
    <3>1. Edited(p, t1, p.ops, 0, t)
      BY <2>4, FileEdited
    <3> HIDE DEF t1
    <3> QED BY <3>1, Zenon DEF Edited
  <2> HIDE DEF q
  <2>b. FileSound(p, g) /\ m = Len(p.ops) /\ x = g[m] /\ n = Len(p.vBreakJMPPoints) /\ n # 0
    BY <2>4, <2>6, <2>8
  <2>c. Breaking(p, g, m, x, n, e, t, q)
    BY <2>9, <2>10, <2>a, <2>b, Zenon DEF Breaking
  <2>11. FileSound(q, g) /\ Len(q.ops) = m
    BY <2>c, FileBroken
  <2>12. Leads(g, q, x)
    BY <2>4, <2>11 DEF Leads
  <2>13. SizesSound(mBlockArgSizes') /\ at' = "text" /\ expr' = <<>> /\ eResultOperator' \in {"constant", "variable"}
    BY <1>1, <2>1, <2>3
  <2>14. Compile(c) /\ CompilerSound(c, x, 0, 0, <<>>, {})
    BY <2>1, <2>5 DEF none
  <2> QED BY <2>2, <2>4, <2>7, <2>12, <2>13, <2>14, TextCompiled
<1> QED BY <1>2, <1>3

-----------------------------------------------------------------------------
(* <TMPL_block>. *)

(* Every argument of a block has a place of its own on the stack.          *)
LEMMA BlockArgsFit ==
  ASSUME NEW vArgs \in ArgLists
  PROVE  Len(vArgs) \in Nat /\ NamesFit(BlockArgs(vArgs), Block(Len(vArgs)))
<1> DEFINE n == Len(vArgs)
           D == {vArgs[i] : i \in DOMAIN vArgs}
           t == BlockArgs(vArgs)
           Placed(a) == {i \in 0..n - 1 : vArgs[n - i] = a}
<1>1. IsList(vArgs, n) /\ n \in Nat /\ \A i, j \in 1..n : vArgs[i] = vArgs[j] => i = j
  <2>1. /\ vArgs = [i \in 1..n |-> vArgs[i]] /\ n \in Nat
        /\ \A i, j \in 1..n : vArgs[i] = vArgs[j] => i = j
    BY ArgumentsNamedOnce
  <2> QED BY <2>1 DEF IsList
<1>2. DOMAIN vArgs = 1..n
  BY <1>1, ListType DEF IsList
<1> HIDE DEF n
<1>3. IsFiniteSet(1..n) /\ Cardinality(1..n) = n
  <2>1. 1 \in Int /\ n \in Int /\ Cardinality(1..n) = IF 1 > n THEN 0 ELSE n - 1 + 1
    BY <1>1, FS_Interval
  <2>2. IsFiniteSet(1..n)
    BY <1>1, FS_Interval
  <2> QED BY <1>1, <2>1, <2>2
<1>4. IsFiniteSet(D) /\ Cardinality(D) = n
  <2> DEFINE f == [i \in 1..n |-> vArgs[i]]
  <2>1. f \in Bijection(1..n, D)
    <3>1. \A i \in 1..n : f[i] = vArgs[i]
      OBVIOUS
    <3>2. \A d \in D : \E i \in 1..n : f[i] = d
      BY <1>2, <3>1
    <3>3. f \in [1..n -> D]
      BY <1>2
    <3>4. \A i, j \in 1..n : f[i] = f[j] => i = j
      BY <1>1, <3>1
    <3> HIDE DEF f, D
    <3> QED BY <3>2, <3>3, <3>4 DEF Bijection, Injection, Surjection, IsInjective
  <2> HIDE DEF f, D
  <2>2. ExistsBijection(1..n, D)
    BY <2>1 DEF ExistsBijection
  <2> QED BY <1>3, <2>2, FS_Bijection
<1>5. ASSUME NEW a \in D PROVE \E i \in 0..n - 1 : vArgs[n - i] = a
  <2>1. PICK j \in 1..n : vArgs[j] = a
    BY <1>2
  <2>2. n - j \in 0..n - 1 /\ n - (n - j) = j
    BY <1>1
  <2> QED BY <2>1, <2>2
<1>6. DOMAIN t = D /\ \A a \in D : t[a] \in 0..n - 1
  <2>1. t = [a \in D |-> CHOOSE i \in 0..n - 1 : vArgs[n - i] = a]
    BY DEF BlockArgs, n
  <2> HIDE DEF t, D
  <2>2. DOMAIN t = D
    BY <2>1
  <2>3. ASSUME NEW a \in D PROVE t[a] \in 0..n - 1
    <3> DEFINE P(i) == i \in 0..n - 1 /\ vArgs[n - i] = a
               i0 == CHOOSE i \in 0..n - 1 : vArgs[n - i] = a
    <3>1. \E i \in 0..n - 1 : vArgs[n - i] = a
      BY <1>5
    <3>2. i0 \in 0..n - 1
      BY <3>1
    <3>3. t[a] = i0
      BY <2>1
    <3> QED BY <3>2, <3>3
  <2> QED BY <2>2, <2>3
<1> HIDE DEF t, D
<1>7. Block(n).args = n
  BY DEF Block
<1>8. NamesFit(t, Block(n))
  BY <1>4, <1>6, <1>7 DEF NamesFit
<1> QED BY <1>1, <1>8 DEF n, t

LEMMA MoreSizes ==
  ASSUME NEW sizes, SizesSound(sizes), NEW sBlockName \in BlockNames, NEW n \in Nat
  PROVE  SizesSound([b \in DOMAIN sizes \cup {sBlockName} |-> IF b = sBlockName THEN n ELSE sizes[b]])
<1> DEFINE D == DOMAIN sizes \cup {sBlockName}
           t == [b \in D |-> IF b = sBlockName THEN n ELSE sizes[b]]
<1>1. DOMAIN sizes \subseteq BlockNames /\ \A b \in DOMAIN sizes : sizes[b] \in Nat
  BY DEF SizesSound
<1>2. D \subseteq BlockNames
  BY <1>1
<1>3. DOMAIN t = D /\ \A b \in D : t[b] = IF b = sBlockName THEN n ELSE sizes[b]
  OBVIOUS
<1>4. \A b \in D : t[b] \in Nat
  BY <1>1
<1>5. t = [b \in DOMAIN t |-> t[b]]
  OBVIOUS
<1> HIDE DEF t, D
<1>6. SizesSound(t)
  BY <1>2, <1>3, <1>4, <1>5 DEF SizesSound
<1> QED BY <1>6 DEF t, D

LEMMA BlockStep ==
  ASSUME Handled, IInv, NEW sBlockName \in BlockNames, NEW vArgs \in ArgLists, BlockOperator(sBlockName, vArgs)
  PROVE  IInv'
<1> DEFINE none == <<>>
           c1 == StartBlock(oCompiler)
           n == Len(vArgs)
           c == BlockBody(c1, n)
           from == FromLast(c1.flow)
           o == [k |-> "block", skip |-> from, base |-> c1.iStackDepth, args |-> n]
           names == BlockArgs(vArgs)
           q == [Opened(o) EXCEPT !.bInBlock = TRUE, !.mCurrentBlock = names]
           y == Block(n)
<1>1. /\ at = "text" /\ ~Parser.bInBlock /\ Become(q) /\ Compile(c) /\ at' = at /\ expr' = expr /\ eResultOperator' = eResultOperator
      /\ mBlockArgSizes' = [b \in DOMAIN mBlockArgSizes \cup {sBlockName} |->
                              IF b = sBlockName THEN n ELSE mBlockArgSizes[b]]
  BY DEF BlockOperator, InText
<1>2. ~Parser.bInForeach
  BY Zenon DEF BlockOperator, Handled
<1>3. PICK G, x, p, g, m : Current(G, x, p, g, m) /\ Between(G, x)
  BY <1>1, CurrentNow
<1>4. /\ SizesSound(mBlockArgSizes) /\ eResultOperator \in {"constant", "variable"} /\ expr = none
      /\ CompilerSound(oCompiler, x, 0, 0, none, {})
  BY <1>3 DEF Between
<1>5. p = Parser /\ x \in Context /\ p.bInForeach = (x.level # 0) /\ x.level = 0
  BY <1>2, <1>3 DEF Current
<1>6. n \in Nat /\ NamesFit(names, y)
  BY BlockArgsFit
<1> HIDE DEF n, none, names
<1>7. CompilerSound(c, y, 0, 0, none, {}) /\ from \subseteq {Shape(x, HROf(x), 0)} /\ c1.iStackDepth = 0
  BY <1>4, <1>5, <1>6, StartBlockSound
<1> HIDE DEF c, from
<1>8. y \in Context /\ y.level = 0
  BY <1>6, BlockContext
<1>9. o.k = "block" /\ o.args = n /\ o.skip = from /\ o = [k |-> "block", skip |-> o.skip, base |-> 0, args |-> o.args]
  <2>1. o = [k |-> "block", skip |-> from, base |-> 0, args |-> n]
    BY <1>7
  <2> HIDE DEF o, c1
  <2> QED BY <2>1
<1> HIDE DEF o, c1
<1>10. OpSound(o, x, y)
  <2>1. BlockSound(o, x, y)
    BY <1>5, <1>6, <1>7, <1>9 DEF BlockSound
  <2> QED BY <2>1 DEF OpSound
<1> HIDE DEF y
<1>11. q = FileWith(p, o, y, names)
  <2>1. OpenedSo(p, x, o, y, names)
    BY <1>3, <1>9, OpenedAs
  <2>2. o.k = "block" /\ (y.level # 0) = p.bInForeach
    BY <1>5, <1>8, <1>9
  <2> HIDE DEF q
  <2>3. [Opened(o) EXCEPT !.bInBlock = TRUE, !.mCurrentBlock = names] = FileWith(p, o, y, names)
    BY <2>1, <2>2, Zenon DEF OpenedSo
  <2> QED BY <2>3 DEF q
<1> HIDE DEF q
<1>12. Leads(g, q, y)
  <2>1. ~p.bInBlock /\ o.k # "verbose" /\ o.k = "block"
    BY <1>1, <1>5, <1>9
  <2>2. Leads(g, FileWith(p, o, y, names), y)
    BY <1>3, <1>6, <1>8, <1>10, <2>1, OpenLeads
  <2> QED BY <1>11, <2>2
<1>13. SizesSound(mBlockArgSizes')
  <2>1. SizesSound([b \in DOMAIN mBlockArgSizes \cup {sBlockName} |-> IF b = sBlockName THEN n ELSE mBlockArgSizes[b]])
    BY <1>4, <1>6, MoreSizes
  <2> QED BY <1>1, <2>1
<1>14. at' = "text" /\ expr' = <<>> /\ eResultOperator' \in {"constant", "variable"} /\ CompilerSound(c, y, 0, 0, <<>>, {})
  BY <1>1, <1>4, <1>7 DEF none
<1>15. Become(q) /\ Compile(c)
  BY <1>1
<1> QED BY <1>3, <1>8, <1>12, <1>13, <1>14, <1>15, TextCompiled

LEMMA EndBlockStep == IInv /\ EndBlockOperator => IInv'
<1> SUFFICES ASSUME IInv, EndBlockOperator PROVE IInv'
  OBVIOUS
<1> DEFINE none == <<>>
           count == Cardinality(DOMAIN Parser.mCurrentBlock)
           q == [Closed EXCEPT !.bInBlock = FALSE]
<1>1. /\ at = "text" /\ Within("block") /\ Become(q) /\ at' = at /\ expr' = expr
      /\ Compile(Patched(EndBlock(oCompiler, count), Op.skip))
      /\ mBlockArgSizes' = mBlockArgSizes /\ eResultOperator' = eResultOperator
  BY DEF EndBlockOperator, InText
<1>2. PICK G, x, p, g, m, o, y : Closing(G, x, p, g, m, o, y) /\ o.k = "block"
  BY <1>1, ClosingNow
<1>3. /\ Current(G, x, p, g, m) /\ SizesSound(mBlockArgSizes) /\ eResultOperator \in {"constant", "variable"} /\ expr = none
      /\ CompilerSound(oCompiler, x, 0, 0, none, {}) /\ o = Op /\ y \in Context /\ OpSound(o, y, x) /\ x \in Context
      /\ Leads(g, FileWithout(p, o, y), y) /\ m # 0 /\ o = p.ops[m] /\ p = Parser
  BY <1>2 DEF Closing
<1>4. y.level = 0 /\ o.args \in Nat /\ x = Block(o.args) /\ o.skip \subseteq {Shape(y, HROf(y), 0)}
  <2>1. BlockSound(o, y, x)
    BY <1>2, <1>3 DEF OpSound, BranchSound, ForeachSound, VerboseSound
  <2> QED BY <2>1, Zenon DEF BlockSound
<1>5. x.level = 0 /\ x.args = o.args
  BY <1>4, BlockContext
<1>6. q = FileWithout(p, o, y)
  <2>1. ClosedSo(p, x, o, y)
    BY <1>3, ClosedAs
  <2>2. (y.level # 0) = p.bInForeach
    BY <1>3, <1>4, <1>5 DEF Current
  <2> QED BY <1>2, <2>1, <2>2, Zenon DEF ClosedSo
<1>7. count = o.args
  <2>1. FileSound(p, g) /\ m = Len(p.ops) /\ m \in Nat /\ IsList(p.ops, m) /\ x = g[m]
    BY <1>3 DEF Current
  <2>2. Parts(p, g, m, g[0], g[m])
    BY <2>1, FileParts
  <2>3. p.bInBlock = (OpenIn(p, "block") # {}) /\ NamesSound(p, x)
    BY <2>1, <2>2, Zenon DEF Parts
  <2>4. m \in OpenIn(p, "block")
    <3>1. DOMAIN p.ops = 1..m
      BY <2>1, ListType DEF IsList
    <3>2. m \in 1..m /\ p.ops[m].k = "block"
      BY <1>2, <1>3, <2>1
    <3> QED BY <3>1, <3>2 DEF OpenIn
  <2>5. Cardinality(DOMAIN p.mCurrentBlock) = x.args
    BY <2>3, <2>4 DEF NamesSound
  <2> QED BY <1>3, <1>5, <2>5
<1> HIDE DEF count, q, none
<1> DEFINE n == o.args
           skip == o.skip
           c == Patched(EndBlock(oCompiler, n), skip)
<1>8. n \in Nat /\ CompilerSound(oCompiler, Block(n), 0, 0, none, {}) /\ skip \subseteq {Shape(y, HROf(y), 0)} /\ Compile(c)
  BY <1>1, <1>3, <1>4, <1>7
<1> HIDE DEF n, skip
<1>9. CompilerSound(c, y, 0, 0, none, {})
  BY <1>3, <1>4, <1>8, EndBlockSound
<1> HIDE DEF c
<1>10. CompilerSound(c, y, 0, 0, <<>>, {}) /\ Leads(g, q, y) /\ Become(q) /\ y \in Context
  BY <1>1, <1>3, <1>6, <1>9 DEF none
<1>11. SizesSound(mBlockArgSizes') /\ at' = "text" /\ expr' = <<>> /\ eResultOperator' \in {"constant", "variable"}
  BY <1>1, <1>3 DEF none
<1> QED BY <1>3, <1>8, <1>10, <1>11, TextCompiled

-----------------------------------------------------------------------------
(* <TMPL_include>, the end of a file. *)

LEMMA IncludeStep == IInv /\ IncludeOperator => IInv'
<1> SUFFICES ASSUME IInv, IncludeOperator PROVE IInv'
  OBVIOUS
<1>1. CASE Fail("error")
  BY <1>1, FailStep
<1>2. CASE ~Fail("error")
  <2> DEFINE q == NewParser(Parser.bInForeach)
             n == Len(parsers)
             t == parsers'
  <2>1. /\ at = "text" /\ n # MaxLevel /\ t = Append(parsers, q) /\ at' = at /\ oCompiler' = oCompiler
        /\ mBlockArgSizes' = mBlockArgSizes /\ expr' = expr /\ eResultOperator' = eResultOperator
    BY <1>2 DEF IncludeOperator, InText
  <2>2. PICK G, x, p, g, m : Current(G, x, p, g, m) /\ Between(G, x)
    BY <2>1, CurrentNow
  <2>3. /\ SizesSound(mBlockArgSizes) /\ eResultOperator \in {"constant", "variable"} /\ expr = <<>>
        /\ CompilerSound(oCompiler, x, 0, 0, <<>>, {})
    BY <2>2 DEF Between
  <2>4. x \in Context /\ Parser.bInForeach = (x.level # 0) /\ FilesSound(parsers, G) /\ x = Here(parsers, G)
    BY <2>2 DEF Current
  <2>5. PICK h : FileSound(q, h) /\ h[0] = x /\ h[Len(q.ops)] = x
    <3> DEFINE r == NewParser(x.level # 0)
    <3>1. \E h : FileSound(r, h) /\ h[0] = x /\ h[Len(r.ops)] = x
      BY <2>4, NewFile
    <3>2. q = r
      BY <2>4
    <3> HIDE DEF q, r
    <3> QED BY <3>1, <3>2
  <2> HIDE DEF q, n, t
  <2>6. n = Len(parsers) /\ h[0] = Here(parsers, G)
    BY <2>4, <2>5 DEF n
  <2>7. Stands(t, h[Len(q.ops)])
    BY <2>1, <2>4, <2>5, <2>6, FileAdded
  <2>8. PICK H : FilesSound(parsers', H) /\ Here(parsers', H) = x
    BY <2>5, <2>7 DEF Stands, t
  <2>9. /\ x = Here(parsers', H) /\ expr' = <<>> /\ at' \in {"text", "done", "error", "undefined"}
        /\ CompilerSound(oCompiler', x, 0, 0, <<>>, {}) /\ SizesSound(mBlockArgSizes')
        /\ eResultOperator' \in {"constant", "variable"}
    BY <2>1, <2>3, <2>8
  <2> QED BY <2>8, <2>9, TextOn
<1> QED BY <1>1, <1>2

LEMMA EndOfTextStep == IInv /\ EndOfText => IInv'
<1> SUFFICES ASSUME IInv, EndOfText PROVE IInv'
  OBVIOUS
<1> DEFINE none == <<>>
           c == Halt(oCompiler)
<1>1. CASE Fail("error")
  BY <1>1, FailStep
<1>2. CASE ~Fail("error")
  <2>1. at = "text" /\ Parser.ops = <<>> /\ mBlockArgSizes' = mBlockArgSizes /\ expr' = expr /\ eResultOperator' = eResultOperator
    BY <1>2 DEF EndOfText, InText
  <2>2. PICK G, x, p, g, m : Current(G, x, p, g, m) /\ Between(G, x)
    BY <2>1, CurrentNow
  <2>3. /\ SizesSound(mBlockArgSizes) /\ eResultOperator \in {"constant", "variable"} /\ expr = <<>>
        /\ CompilerSound(oCompiler, x, 0, 0, none, {})
    BY <2>2 DEF Between
  <2>4. x \in Context /\ FilesSound(parsers, G) /\ x = Here(parsers, G)
    BY <2>2 DEF Current
  <2>5. expr' = <<>> /\ SizesSound(mBlockArgSizes') /\ eResultOperator' \in {"constant", "variable"}
    BY <2>1, <2>3
  <2>6. CASE Len(parsers) = 1
    <3>1. at' = "done" /\ Compile(c) /\ parsers' = parsers
      BY <1>2, <2>6 DEF EndOfText
    <3> HIDE DEF none
    <3>2. CompilerSound(c, x, 0, 0, none, {})
      BY <2>3, <2>4, HaltSound
    <3> HIDE DEF c
    <3>3. Compiling(c, x, 0, 0, none) /\ 0 \in Nat
      BY <2>4, <3>2, StartCompiling
    <3>4. CompilerSound(oCompiler', x, 0, 0, none, {})
      BY <2>4, <3>1, <3>3, CompiledSound
    <3>5. /\ FilesSound(parsers', G) /\ x = Here(parsers', G) /\ at' \in {"text", "done", "error", "undefined"}
          /\ CompilerSound(oCompiler', x, 0, 0, <<>>, {})
      BY <2>4, <3>1, <3>4 DEF none
    <3> QED BY <2>5, <3>5, TextOn
  <2>7. CASE Len(parsers) # 1
    <3> DEFINE n == Len(parsers)
    <3>1. at' = at /\ oCompiler' = oCompiler /\ parsers' = Front(parsers)
      BY <1>2, <2>7 DEF EndOfText
    <3>2. n = Len(parsers) /\ n # 1 /\ parsers[n].ops = <<>>
      BY <2>1, <2>7 DEF Parser, Last
    <3> HIDE DEF n
    <3>3. FilesSound(Front(parsers), G) /\ Here(Front(parsers), G) = Here(parsers, G)
      BY <2>4, <3>2, FileEnded
    <3>4. /\ FilesSound(parsers', G) /\ x = Here(parsers', G) /\ at' \in {"text", "done", "error", "undefined"}
          /\ CompilerSound(oCompiler', x, 0, 0, <<>>, {})
      BY <2>1, <2>3, <2>4, <3>1, <3>3
    <3> QED BY <2>5, <3>4, TextOn
  <2> QED BY <2>6, <2>7
<1> QED BY <1>1, <1>2

-----------------------------------------------------------------------------
(* The invariant is inductive. *)

LEMMA StatementStep == Handled /\ IInv /\ Statements => IInv'
<1> SUFFICES ASSUME Handled, IInv, Statements PROVE IInv'
  OBVIOUS
<1>1. CASE Text
  BY <1>1, TextStep
<1>2. CASE VarOperator
  BY <1>2, VarStep
<1>3. CASE IfOperator
  <2>1. CASE StartStatement("if")
    BY <2>1, StartStatementStep
  <2>2. CASE Branching("if")
    BY <2>2, IfStep
  <2> QED BY <1>3, <2>1, <2>2 DEF IfOperator
<1>4. CASE UnlessOperator
  <2>1. CASE StartStatement("unless")
    BY <2>1, StartStatementStep
  <2>2. CASE Branching("unless")
    BY <2>2, IfStep
  <2> QED BY <1>4, <2>1, <2>2 DEF UnlessOperator
<1>5. CASE Elsif
  BY <1>5, ElsifStep
<1>6. CASE ElsifCondition
  BY <1>6, ElsifConditionStep
<1>7. CASE Else
  BY <1>7, ElseStep
<1>8. CASE EndIf
  BY <1>8, EndIfStep
<1>9. CASE ForeachOperator
  BY <1>9, ForeachStep
<1>10. CASE EndForeach
  BY <1>10, EndForeachStep
<1>11. CASE BreakOperator
  BY <1>11, BreakStep
<1>12. CASE \E b \in BlockNames, vArgs \in ArgLists : BlockOperator(b, vArgs)
  BY <1>12, BlockStep
<1>13. CASE EndBlockOperator
  BY <1>13, EndBlockStep
<1>14. CASE CallOperator
  BY <1>14, CallStep
<1>15. CASE Argument
  BY <1>15, ArgumentStep
<1>16. CASE EndArgument
  BY <1>16, EndArgumentStep
<1>17. CASE EndCall
  BY <1>17, EndCallStep
<1>18. CASE IncludeOperator
  BY <1>18, IncludeStep
<1>19. CASE VerboseOperator
  BY <1>19, VerboseStep
<1>20. CASE EndVerbose
  BY <1>20, EndVerboseStep
<1>21. CASE EndOfText
  BY <1>21, EndOfTextStep
<1>22. CASE SyntaxError
  BY <1>22, SyntaxErrorStep
<1> QED
  BY <1>1, <1>2, <1>3, <1>4, <1>5, <1>6, <1>7, <1>8, <1>9, <1>10, <1>11, <1>12, <1>13, <1>14, <1>15, <1>16, <1>17,
     <1>18, <1>19, <1>20, <1>21, <1>22 DEF Statements

LEMMA UnchangedStep == IInv /\ UNCHANGED vars => IInv'
<1> SUFFICES ASSUME IInv, UNCHANGED vars PROVE IInv'
  OBVIOUS
<1>1. /\ at' = at /\ oCompiler' = oCompiler /\ parsers' = parsers /\ mBlockArgSizes' = mBlockArgSizes
      /\ expr' = expr /\ eResultOperator' = eResultOperator
  BY DEF vars
<1>2. PICK G, K : Sound(G, K)
  BY DEF IInv
<1>3. Sound(G, K)'
  BY <1>1, <1>2 DEF Sound
<1> QED BY <1>3 DEF IInv

LEMMA NextStep == Handled /\ IInv /\ [Next]_vars => IInv'
BY ExpressionStep, StatementStep, UnchangedStep DEF Next

-----------------------------------------------------------------------------
(* The files that are open. *)

(* The arguments of the block of a file are those of the files it includes. *)
LEMMA ArgumentsKept ==
  ASSUME NEW files, NEW G, FilesSound(files, G), NEW b \in 1..Len(files), NEW n, Behind(files[b], G[b]).args = n,
         \A i \in 1..Len(files) : i > b => OpenIn(files[i], "block") = {}
  PROVE  Here(files, G).args = n
<1> DEFINE M == {i \in b..Len(files) : Behind(files[i], G[i]).args # n}
<1>1. /\ Len(files) \in Nat /\ Len(files) > 0
      /\ \A i \in 1..Len(files) : FileLevel(files[i], G[i][0], Behind(files[i], G[i]))
      /\ \A i \in 2..Len(files) : G[i][0] = Behind(files[i - 1], G[i - 1])
  <2>1. Len(files) \in Nat /\ Len(files) > 0
    BY HereType
  <2>2. \A i \in 1..Len(files) : FileSound(files[i], G[i])
    BY DEF FilesSound
  <2> QED BY <2>1, <2>2, FileLevels DEF FilesSound
<1>2. SUFFICES ASSUME Here(files, G).args # n PROVE FALSE
  OBVIOUS
<1>3. M \subseteq Nat /\ M # {}
  <2>1. Len(files) \in M
    BY <1>1, <1>2 DEF Here
  <2> QED BY <1>1, <2>1
<1>4. PICK m \in M : \A i \in M : m <= i
  <2> HIDE DEF M
  <2> QED BY <1>3, LeastNumber
<1>5. m \in b..Len(files) /\ Behind(files[m], G[m]).args # n /\ m # b
  BY <1>4
<1> DEFINE k == m - 1
<1>6. k \in b..Len(files) /\ m \in 2..Len(files) /\ m \in 1..Len(files) /\ m > b /\ k < m
  BY <1>1, <1>5
<1>7. Behind(files[k], G[k]).args = n
  BY <1>1, <1>4, <1>6
<1>8. G[m][0] = Behind(files[k], G[k])
  BY <1>1, <1>6
<1>9. Behind(files[m], G[m]).args = G[m][0].args
  BY <1>1, <1>6 DEF FileLevel
<1> QED BY <1>5, <1>7, <1>8, <1>9

-----------------------------------------------------------------------------
(* What the properties say follows from the invariant. *)

Now(G, x, k) ==
  /\ FilesSound(parsers, G) /\ x = Here(parsers, G) /\ x \in Context /\ k \in Nat
  /\ CompilerSound(oCompiler, x, k, k, SavedDepths(x, expr), {}) /\ AtSound(at, expr)
  /\ SizesSound(mBlockArgSizes) /\ eResultOperator \in {"constant", "variable"}

LEMMA NowIs ==
  ASSUME IInv
  PROVE  \E G, x, k : Now(G, x, k)
<1>1. PICK G, K : Sound(G, K)
  BY DEF IInv
<1> DEFINE x == Here(parsers, G)
           k == K[Len(expr)] + Valued(at)
<1>2. FilesSound(parsers, G) /\ ExprSound(x, expr, K, at, oCompiler)
      /\ SizesSound(mBlockArgSizes) /\ eResultOperator \in {"constant", "variable"}
  BY <1>1 DEF Sound
<1>3. x \in Context
  BY <1>2, HereType
<1> HIDE DEF x
<1>4. k \in Nat /\ CompilerSound(oCompiler, x, k, k, SavedDepths(x, expr), {}) /\ AtSound(at, expr)
  BY <1>2 DEF ExprSound
<1>5. x = Here(parsers, G)
  BY DEF x
<1> HIDE DEF k
<1>6. Now(G, x, k)
  BY <1>2, <1>3, <1>4, <1>5 DEF Now
<1> QED BY <1>6

LEMMA NothingWrong == IInv => oCompiler.flow.wrong = {}
<1> SUFFICES ASSUME IInv PROVE oCompiler.flow.wrong = {}
  OBVIOUS
<1>1. PICK G, x, k : Now(G, x, k)
  BY NowIs
<1>2. CompilerSound(oCompiler, x, k, k, SavedDepths(x, expr), {})
  BY <1>1 DEF Now
<1>3. FlowSound(oCompiler.flow, x, HROf(x), k, {})
  BY <1>2, CompilerSoundIs
<1> QED BY <1>3 DEF FlowSound

LEMMA TypesKept == IInv => TypeOK
<1> SUFFICES ASSUME IInv PROVE TypeOK
  OBVIOUS
<1>1. PICK G, x, k : Now(G, x, k)
  BY NowIs
<1>2. /\ FilesSound(parsers, G) /\ x \in Context /\ k \in Nat
      /\ CompilerSound(oCompiler, x, k, k, SavedDepths(x, expr), {}) /\ AtSound(at, expr)
      /\ SizesSound(mBlockArgSizes) /\ eResultOperator \in {"constant", "variable"}
  BY <1>1 DEF Now
<1>3. at \in {"text", "operand", "factor", "step", "path", "arguments", "done", "error", "undefined"}
  BY <1>2 DEF AtSound
<1>4. Len(parsers) \in 1..MaxLevel
  BY <1>2 DEF FilesSound
<1>5. oCompiler.iStackDepth \in Int /\ oCompiler.iScopeNumber \in Nat
  <2>1. oCompiler.iStackDepth = 8 * x.level + k /\ oCompiler.iScopeNumber = x.level
    BY <1>2, CompilerSoundIs
  <2>2. x.level \in Nat
    BY <1>2, ContextType
  <2> QED BY <1>2, <2>1, <2>2
<1>6. DOMAIN mBlockArgSizes \subseteq BlockNames /\ \A b \in DOMAIN mBlockArgSizes : mBlockArgSizes[b] \in Nat
  BY <1>2 DEF SizesSound
<1> QED BY <1>2, <1>3, <1>4, <1>5, <1>6 DEF TypeOK

(* The greatest of some numbers.                                           *)
LEMMA MaxIs ==
  ASSUME NEW n \in Nat, NEW S, S \subseteq 1..n, S # {}
  PROVE  Max(S) \in S /\ \A i \in S : i <= Max(S)
<1>1. PICK b \in S : \A i \in S : i <= b
  <2>1. S \subseteq 0..n
    OBVIOUS
  <2> QED BY <2>1, GreatestNumber
<1>2. \A i \in S : b >= i
  BY <1>1
<1>3. Max(S) \in S /\ \A i \in S : Max(S) >= i
  BY <1>2 DEF Max
<1> QED BY <1>3

(* The arguments of the context are those of the block the code is in.     *)
BlockNow(block) ==
  LET files == {i \in DOMAIN parsers : OpenIn(parsers[i], "block") # {}}
      inner == parsers[Max(files)]
  IN block = IF files = {} THEN [base |-> 0, args |-> 0]
             ELSE inner.ops[Max(OpenIn(inner, "block"))]

LEMMA BlockArguments ==
  ASSUME NEW G, FilesSound(parsers, G), NEW block, BlockNow(block)
  PROVE  block.base = 0 /\ block.args = Here(parsers, G).args
<1> DEFINE files == {i \in DOMAIN parsers : OpenIn(parsers[i], "block") # {}}
           b == Max(files)
           inner == parsers[b]
           B == OpenIn(inner, "block")
           l == Max(B)
           n == Len(parsers)
<1>1. IsList(parsers, n) /\ n \in Nat /\ n > 0
  BY HereType
<1>2. DOMAIN parsers = 1..n
  BY <1>1, ListType DEF IsList
<1>3. (\A i \in 1..n : FileSound(parsers[i], G[i])) /\ G[1][0] = Root
  BY DEF FilesSound
<1>4. CASE files = {}
  <2>1. block = [base |-> 0, args |-> 0]
    BY <1>4 DEF BlockNow
  <2>2. \A i \in 1..n : OpenIn(parsers[i], "block") = {}
    BY <1>2, <1>4
  <2>3. 1 \in 1..n
    BY <1>1
  <2>4. Behind(parsers[1], G[1]).args = 0
    <3>1. FileLevel(parsers[1], G[1][0], Behind(parsers[1], G[1]))
      BY <1>3, <2>3, FileLevels
    <3>2. Behind(parsers[1], G[1]).args = G[1][0].args
      BY <2>2, <2>3, <3>1 DEF FileLevel
    <3>3. Root.args = 0
      BY DEF Root
    <3> QED BY <1>3, <3>2, <3>3
  <2>5. 1 \in 1..Len(parsers) /\ \A i \in 1..Len(parsers) : i > 1 => OpenIn(parsers[i], "block") = {}
    BY <2>2, <2>3
  <2>6. Here(parsers, G).args = 0
    BY <2>4, <2>5, ArgumentsKept
  <2> QED BY <2>1, <2>6
<1>5. CASE files # {}
  <2>1. block = inner.ops[l]
    BY <1>5 DEF BlockNow
  <2>2. files \subseteq 1..n /\ \A i \in 1..n : i \notin files => OpenIn(parsers[i], "block") = {}
    BY <1>2
  <2>3. b \in files /\ \A i \in files : i <= b
    <3> HIDE DEF files
    <3> QED BY <1>1, <1>5, <2>2, MaxIs
  <2>4. B # {} /\ b \in 1..n
    BY <2>2, <2>3
  <2> DEFINE m == Len(inner.ops)
             g == G[b]
  <2>5. FileSound(inner, g)
    BY <1>3, <2>4
  <2>6. \A i \in 1..n : i > b => OpenIn(parsers[i], "block") = {}
    <3> SUFFICES ASSUME NEW i \in 1..n, i > b PROVE OpenIn(parsers[i], "block") = {}
      OBVIOUS
    <3>1. i \notin files
      <4> HIDE DEF files
      <4>1. b \in Int /\ i \in Int
        BY <1>1, <2>4
      <4> QED BY <2>3, <4>1
    <3> QED BY <2>2, <3>1
  <2> HIDE DEF files, b
  <2> HIDE DEF inner, g
  <2>7. Parts(inner, g, m, g[0], g[m])
    BY <2>5, FileParts
  <2>8. IsList(inner.ops, m) /\ m \in Nat /\ BlocksSound(inner.ops, g) /\ OpsSound(inner.ops, g)
    BY <2>7, Zenon DEF Parts
  <2>9. DOMAIN inner.ops = 1..m
    BY <2>8, ListType DEF IsList
  <2>10. B \subseteq 1..m /\ \A i \in B : inner.ops[i].k = "block"
    BY <2>9 DEF OpenIn
  <2>11. l \in B
    <3> HIDE DEF B
    <3> QED BY <2>4, <2>8, <2>10, MaxIs
  <2>12. l \in 1..m /\ inner.ops[l].k = "block"
    BY <2>10, <2>11
  <2> HIDE DEF l, B
  <2>13. g[m].args = inner.ops[l].args
    <3>1. \A i, j \in 1..Len(inner.ops) : inner.ops[i].k = "block" /\ i <= j => g[j].args = inner.ops[i].args
      BY <2>8 DEF BlocksSound
    <3>2. m \in 1..m /\ l <= m
      BY <2>8, <2>12
    <3> QED BY <2>12, <3>1, <3>2
  <2>14. inner.ops[l].base = 0
    <3> DEFINE o == inner.ops[l]
    <3>1. OpSound(o, g[l - 1], g[l])
      BY <2>8, <2>12 DEF OpsSound
    <3>2. BlockSound(o, g[l - 1], g[l])
      BY <2>12, <3>1 DEF OpSound, BranchSound, ForeachSound, VerboseSound
    <3> DEFINE s == o.skip
               a == o.args
    <3>3. o = [k |-> "block", skip |-> s, base |-> 0, args |-> a]
      BY <3>2, Zenon DEF BlockSound
    <3> HIDE DEF o, s, a
    <3>4. o.base = 0
      BY <3>3
    <3> QED BY <3>4 DEF o
  <2>15. Here(parsers, G).args = inner.ops[l].args
    <3>1. Behind(inner, g).args = inner.ops[l].args
      BY <2>13 DEF Behind
    <3>2. b \in 1..Len(parsers) /\ Behind(parsers[b], G[b]).args = inner.ops[l].args
      BY <2>4, <3>1 DEF inner, g
    <3>3. \A i \in 1..Len(parsers) : i > b => OpenIn(parsers[i], "block") = {}
      BY <2>6
    <3> QED BY <3>2, <3>3, ArgumentsKept
  <2> QED BY <2>1, <2>14, <2>15
<1> QED BY <1>4, <1>5

LEMMA DepthKnown == IInv => DepthExact
<1> SUFFICES ASSUME IInv PROVE DepthExact
  OBVIOUS
<1>1. PICK G, x, k : Now(G, x, k)
  BY NowIs
<1>2. /\ FilesSound(parsers, G) /\ x = Here(parsers, G) /\ x \in Context /\ k \in Nat
      /\ CompilerSound(oCompiler, x, k, k, SavedDepths(x, expr), {})
  BY <1>1 DEF Now
<1> DEFINE files == {i \in DOMAIN parsers : OpenIn(parsers[i], "block") # {}}
           inner == parsers[Max(files)]
           block == IF files = {} THEN [base |-> 0, args |-> 0] ELSE inner.ops[Max(OpenIn(inner, "block"))]
<1>3. BlockNow(block)
  BY DEF BlockNow
<1>4. DepthExact <=> \A s \in oCompiler.flow.at : oCompiler.iStackDepth - block.base = Len(s.cells) - block.args
  BY Zenon DEF DepthExact
<1> HIDE DEF block
<1>5. block.base = 0 /\ block.args = x.args
  BY <1>2, <1>3, BlockArguments
<1>6. oCompiler.iStackDepth = 8 * x.level + k /\ FlowSound(oCompiler.flow, x, HROf(x), k, {})
  BY <1>2, CompilerSoundIs
<1>7. ASSUME NEW s \in oCompiler.flow.at
      PROVE  oCompiler.iStackDepth - block.base = Len(s.cells) - block.args
  <2>1. s = Shape(x, HROf(x), k)
    BY <1>6 DEF FlowSound
  <2>2. s.cells = Cells(x, k)
    BY <2>1 DEF Shape
  <2>3. Len(s.cells) = x.args + 8 * x.level + k
    BY <1>2, <2>2, CellsType DEF Height
  <2>4. x.args \in Nat /\ x.level \in Nat
    BY <1>2, ContextType
  <2> DEFINE h == Len(s.cells)
             d == oCompiler.iStackDepth
  <2>5. h = x.args + 8 * x.level + k /\ d = 8 * x.level + k
    BY <1>6, <2>3
  <2> HIDE DEF h, d
  <2>6. d - 0 = h - x.args
    BY <1>2, <2>4, <2>5
  <2> QED BY <1>5, <2>6 DEF h, d
<1> QED BY <1>4, <1>7

LEMMA FlagsKnown == IInv => FlagsExact
<1> SUFFICES ASSUME IInv PROVE FlagsExact
  OBVIOUS
<1>1. PICK G, x, k : Now(G, x, k)
  BY NowIs
<1>2. /\ FilesSound(parsers, G) /\ x = Here(parsers, G) /\ x \in Context /\ k \in Nat
      /\ CompilerSound(oCompiler, x, k, k, SavedDepths(x, expr), {})
  BY <1>1 DEF Now
<1> DEFINE n == Len(parsers)
<1>3. IsList(parsers, n) /\ n \in Nat /\ n > 0
  BY <1>2, HereType
<1>4. DOMAIN parsers = 1..n
  BY <1>3, ListType DEF IsList
<1>5. \A i \in 1..n : FileSound(parsers[i], G[i])
  BY <1>2 DEF FilesSound
<1>6. ASSUME NEW i \in DOMAIN parsers
      PROVE  /\ parsers[i].bInForeach = (\E j \in 1..i : OpenIn(parsers[j], "foreach") # {})
             /\ parsers[i].bInBlock = (OpenIn(parsers[i], "block") # {})
             /\ parsers[i].bVerboseMode = (OpenIn(parsers[i], "verbose") # {})
             /\ Len(parsers[i].vBreakJMPPoints) = Cardinality(OpenIn(parsers[i], "foreach"))
  <2> DEFINE p == parsers[i]
             y == Behind(p, G[i])
             U == OpenUpTo(parsers, i, "foreach")
  <2>1. FileLevel(p, G[i][0], y)
    BY <1>4, <1>5, FileLevels
  <2>2. i \in 1..Len(parsers)
    BY <1>4
  <2>3. Counted(parsers, G, i)
    BY <1>2, <2>2, LevelsCounted
  <2>4. IsFiniteSet(U) /\ Cardinality(U) = y.level
    BY <2>3 DEF Counted
  <2>5. U # {} <=> \E j \in 1..i : OpenIn(parsers[j], "foreach") # {}
    <3> DEFINE S(j) == OpenIn(parsers[j], "foreach")
    <3>1. U = UNION {{j} \X S(j) : j \in 1..i}
      BY DEF OpenUpTo
    <3> HIDE DEF S, U
    <3>2. ASSUME U # {} PROVE \E j \in 1..i : S(j) # {}
      <4>1. PICK u \in U : TRUE
        BY <3>2
      <4>2. PICK j \in 1..i : u \in {j} \X S(j)
        BY <3>1, <4>1
      <4> QED BY <4>2
    <3>3. ASSUME NEW j \in 1..i, S(j) # {} PROVE U # {}
      <4>1. PICK w \in S(j) : TRUE
        BY <3>3
      <4>2. <<j, w>> \in {j} \X S(j)
        BY <4>1
      <4>3. {j} \X S(j) \in {{l} \X S(l) : l \in 1..i}
        OBVIOUS
      <4>4. <<j, w>> \in U
        BY <3>1, <4>2, <4>3
      <4> QED BY <4>4
    <3>4. U # {} <=> \E j \in 1..i : S(j) # {}
      BY <3>2, <3>3
    <3> QED BY <3>4 DEF S
  <2> HIDE DEF U, y
  <2>6. y.level # 0 <=> U # {}
    BY <2>4, FS_EmptySet
  <2>7. p.bInForeach = (y.level # 0) /\ p.bInBlock = (OpenIn(p, "block") # {})
        /\ p.bVerboseMode = (OpenIn(p, "verbose") # {}) /\ Len(p.vBreakJMPPoints) = Cardinality(OpenIn(p, "foreach"))
    BY <2>1 DEF FileLevel
  <2> QED BY <2>5, <2>6, <2>7
<1>7. oCompiler.iScopeNumber = x.level /\ ScopesSound(oCompiler.scopes, x)
      /\ oCompiler.vSavedStackDepths = SavedDepths(x, expr)
  BY <1>2, CompilerSoundIs
<1>8. oCompiler.iScopeNumber = Cardinality(OpenAll("foreach"))
  BY <1>2, <1>7, LoopsOpen
<1>9. Len(oCompiler.scopes) = oCompiler.iScopeNumber
  BY <1>7 DEF ScopesSound
<1>10. Len(oCompiler.vSavedStackDepths) = (IF expr # <<>> /\ expr[1].of = "call" THEN 1 ELSE 0)
  <2> DEFINE d == 8 * x.level + One(expr[1].bIsVariable)
  <2>1. SavedDepths(x, expr) = IF expr # <<>> /\ expr[1].of = "call" THEN <<d>> ELSE <<>>
    BY DEF SavedDepths
  <2> HIDE DEF d
  <2>2. Len(<<d>>) = 1 /\ Len(<<>>) = 0
    OBVIOUS
  <2> QED BY <1>7, <2>1, <2>2
<1> QED BY <1>6, <1>8, <1>9, <1>10 DEF FlagsExact

-----------------------------------------------------------------------------
(* Handled: the templates use nothing of Doubtful, which the compiler does *)
(* not handle (a condition that is a sum or a negated constant, a block in *)
(* a loop, a call with another number of arguments, a loop over the        *)
(* iterator of an open loop), but a break in an included file, which ends  *)
(* the run.  Of these templates the theorems below are true whatever their *)
(* length and nesting.                                                     *)

(* The stack of the machine is the one the open constructs call for, in    *)
(* every state of the parser: the invariant is inductive.                  *)
THEOREM StackKnown == ASSUME Handled PROVE Spec => []IInv
<1>1. Init => IInv
  BY InitStep
<1>2. IInv /\ [Next]_vars => IInv'
  BY NextStep
<1> QED BY <1>1, <1>2, PTL DEF Spec

(* The state of the parser and of the compiler is always of its type.      *)
THEOREM ParserTypes == ASSUME Handled PROVE Spec => []TypeOK
<1>1. Spec => []IInv
  BY StackKnown
<1> QED BY <1>1, TypesKept, PTL

(* iStackDepth, that the names of loops and calls are addressed by, is the *)
(* depth of the stack wherever the code can be reached.                    *)
THEOREM DepthIsExact == ASSUME Handled PROVE Spec => []DepthExact
<1>1. Spec => []IInv
  BY StackKnown
<1> QED BY <1>1, DepthKnown, PTL

(* Every jump that is patched leads to an instruction, with the stack that *)
(* the other ways to it bring: of ||, &&, branches, loops and breaks.      *)
THEOREM JumpsAlwaysAgree == ASSUME Handled PROVE Spec => []JumpsAgree
<1>1. Spec => []IInv
  BY StackKnown
<1>2. IInv => JumpsAgree
  BY NothingWrong DEF JumpsAgree
<1> QED BY <1>1, <1>2, PTL

(* An operand that is addressed on the stack is the argument, the item or  *)
(* the name of the block that is meant.                                    *)
THEOREM OperandsAreExact == ASSUME Handled PROVE Spec => []OperandsExact
<1>1. Spec => []IInv
  BY StackKnown
<1>2. IInv => OperandsExact
  BY NothingWrong DEF OperandsExact
<1> QED BY <1>1, <1>2, PTL

(* A call passes the number of the arguments it pushed, and a block that   *)
(* returns has nothing but its arguments on the stack.                     *)
THEOREM FramesAreExact == ASSUME Handled PROVE Spec => []FramesExact
<1>1. Spec => []IInv
  BY StackKnown
<1>2. IInv => FramesExact
  BY NothingWrong DEF FramesExact
<1> QED BY <1>1, <1>2, PTL

(* The flags of every parser, saved by an operator and restored at its     *)
(* end or handed to an included file, tell which operators are open.       *)
THEOREM FlagsAreExact == ASSUME Handled PROVE Spec => []FlagsExact
<1>1. Spec => []IInv
  BY StackKnown
<1> QED BY <1>1, FlagsKnown, PTL
=============================================================================
