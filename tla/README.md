# A TLA+ model of CTPP2

CTPP2 compiles text templates to a small instruction set and runs the result
on a virtual machine written in C++. These modules model the machine, the
values it works on, the compiler with its tables and images, the library of functions and
the multithreaded harness; TLC checks them on small
instances and TLAPS proves the invariants that matter most for every size.
Paths below are relative to the repository root (`src/` here is
the repository's own `src` directory: `src/CTPP2VM.cpp`; headers are in `include/`).

Run a check with `tlc -config MCX.cfg MCX.tla` (`MCThreads.cfg` goes with `Threads.tla`, `ArgStack.cfg`
and `SymbolTable.cfg` with the modules of their names), a proof with `tlapm X_proofs.tla`
(those about `HashTable` and the pools are in `Image_proofs`, that about `SyscallFactory` is in `VM_proofs`).

## 1. The system

A template goes through four stages.

    text --CTPP2Parser--> calls of CTPP2Compiler --> code, pools, block names
         --VMDumper--> image --loader--> VMMemoryCore --VM::Run--> OutputCollector

The parser calls the compiler for each construct it recognises; there is no
syntax tree. The compiler appends instructions, patches the targets of
jumps, and stores constants and names in `StaticText`, `StaticData` and
`HashTable`. `VMDumper` copies them into one block of memory and
`VMMemoryCore` reads that. A `VM` executes a `VMMemoryCore` over a `CDT` of the
caller's data; syscalls go to handlers registered in a `SyscallFactory`.

| Component | State it keeps | Operations | What makes it hard | What makes it correct |
|---|---|---|---|---|
| `VMArgStack` | array growing down, stack pointer, base pointers | push, pop, read, clear, save/restore base, reset | frames are only a convention on numbers; two operations check nothing | frames are nested; a frame cannot touch the one under it |
| `VM`, `VMCodeStack` | eight registers, flags, both stacks, instruction pointer, step count, map of syscalls | `Init`, `Run`, `Reset`, about 55 opcodes | used again after exceptions, without `Reset`; effects in several parts with a throw between them; limit compared in some opcodes only | each run ends and is bounded; the stacks stay well formed; a syscall reaches its own handler |
| `CDT` | a type and a value or a pointer to a counted cell | assignment, element access, append, erase, destroy, swap | copy on write through nested containers; a source that lives in its target | counts exact, nothing dangling, sharing invisible |
| `SymbolTable` | records per name, names per scope, a counter of ids | add, look up, mark and unmark a scope | membership in a scope is told by comparing reused ids | a stack of scopes |
| `HashTable` | 2^n slots without probing | put, get, resize | one put may double the table several times; a search compares hashes only | a map; put returns, unless another name has the same hash |
| `StaticText` | block of bytes, index of offsets | store, get | two blocks that grow separately, room for a NUL | writes inside its blocks; an append-only log |
| `StaticData`, `BitIndex` | block of numbers, bits of their kinds | store, get | block and bits grow by different rules | as above, and each number keeps its kind |
| `CTPP2Compiler` | stack depth, open loops and scopes, code | one method per construct | its count of the depth must be the machine's | every variable is found where it was put |
| `CTPP2Parser` | position, open blocks and loops, includes | recursive descent | no tree: jumps are patched after the fact; flags handed through includes | every jump leads to an instruction, with the stack expected there; recursion ends |
| Program image (`VMDumper`, `VMMemoryCore`, file loader, `SimpleCompiler::Save`) | one block of segments, a file | dump, save, load, byte swap | sizes summed twice; a file half written | what is loaded is what was dumped, or nothing |
| `SyscallFactory`, `STDLibInitializer` | table of handlers of fixed size, index by name | register, remove, find, set up, destroy | removing leaves a hole; destruction goes by name | a name finds its handler; what is owned is deleted once |
| Multithreaded harness (`multithread/CTPP2MT.cpp`) | a shared map of templates, two mutexes, a machine per thread | a loop of finding and running | a lock kept over `continue`; main destroys what threads use | no thread waits for ever; nothing is used after it is gone |
| Texts as numbers (`CDT::CastToNumber`) | a number remembered in a shared cell | arithmetic, comparison, joining | the number may be that of another text | a text is the number it reads as |
| GetText | catalogues, a small program per plural rule | load, look up, evaluate | a one-pass compiler with patched distances | the form the rule names |
| JSON, `Sprintf`, escapes, sorting, merging, handlers | local to a call | parse, write, cut, order | byte and character offsets, fixed buffers | what is written can be read; the answer a plain definition gives |
| Source loader, collectors, loggers | directories, a stream | search, write | | |

A `CDT` has no lock and its counter is not atomic, and a machine belongs to one
thread; apart from the harness the program is sequential. Its hard behaviours are
therefore, the harness aside, not interleavings of threads but long sequences of legal calls, an exception
between two steps of an operation, a machine used again after one, sharing
behind values, and limits at their boundary. `PROJECT.json` lists each at its line.

## 2. The modules

| Modules | Code | State and actions |
|---|---|---|
| `ArgStackOps`, `ArgStack` | `src/CTPP2VMArgStack.cpp` | `iStackPointer`, `vBasePointers`, `aStack` as in the class. `ArgStackOps` has the methods as operators on a stack value, so that the machine chains several in one step; `ArgStack` calls one per step. |
| `FrameStack` | abstract | a sequence of frames, only the newest of which can be reached |
| `VM` | `src/CTPP2VM.cpp`, `src/CTPP2VMCodeStack.cpp`, `include/CTPP2VMOpcodes.h` | One action per opcode, which is one iteration of the loop of `Run`; `InitProgram`, `Run`, `Reset`. `status` says whether the loop is running, ended, or was left by `exception`. Uses `ArgStackOps`. |
| `CDT` | `src/CDT.cpp` | `heap`: cells with their counter and elements; the program's variables are the elements of a pseudo cell, `Frame`, with the slots of `oNonExistentCDT` and of the copy `Swap` makes. One action per mutating method, from the resolution of the path that leads to its operand to the last counter. The recursion of `Destroy` is a set of places whose references are left to be dropped. |
| `ValueStore` | abstract | variables that hold trees; no sharing |
| `SymbolTable` | `include/CTPP2SymbolTable.hpp` | the members of the class; one action per method |
| `ScopeStack` | abstract | a sequence of partial functions |
| `HashTable` | `src/CTPP2HashTable.cpp` | slots by the low bits of the hash; `Put` is one step for the call and one per iteration of its loop (`Replace`, `Insert`, `Resize`) |
| `Dictionary` | abstract | a map, with the put that is under way |
| `StaticText` | `src/CTPP2StaticText.cpp` | both blocks as functions on the places that are allocated |
| `BitIndex`, `StaticData` | `src/CTPP2BitIndex.cpp`, `src/CTPP2StaticData.cpp` | the block of numbers, and the bits as sets per byte |
| `AppendLog` | abstract | a sequence that grows; shared by the two pools |
| `Image` | `src/CTPP2VMDumper.cpp`, `src/CTPP2VMFileLoader.cpp`, `src/CTPP2VMMemoryCore.cpp`, `src/CTPP2SimpleCompiler.cpp` | Composes `HashTable`, `StaticText` and `StaticData`: filling the pools, `Dump`, `Open` and `Write` of `Save`, `GetCore`, `Load`. `file` says how much is written, its version and whether it is damaged (`Damage`); a load may come in between. |
| `StackShape` | `src/CTPP2VM.cpp`, `src/CTPP2VMOpcodeCollector.cpp` | what emitted code does to the machine's stack: the set of stacks that can reach the next instruction, and the promises made by jumps not patched yet |
| `Compiler` | `src/CTPP2Compiler.cpp` | one operator per method on a compiler value, which carries a `StackShape` |
| `Parser` | `src/CTPP2Parser.cpp` | Composes the parsers of all open files with one `Compiler`. One action per construct and per place where the parser returns from one; templates are all sequences of these. |
| `SyscallFactory` | `src/CTPP2SyscallFactory.cpp`, `src/CTPP2VMSTDLib.cpp`, `src/CTPP2SimpleVM.cpp` | from `SimpleVM`'s constructor to its destructor, whose loops over the list of the library are one step per turn (`aFunctions` is the place in it); between them the owner registers, removes and deletes handlers, and the programs of `CalledNames` look up names |
| `Text`, `Scalars`, `TextNumbers` | `src/CDT.cpp` | texts as sequences of bytes, numbers as fractions; the operators of `CDT` as functions of their operands; `TextNumbers` has the cells, shared handles and the number a cell remembers |
| `Containers` | `src/CDT.cpp`, `src/CDTSortRoutines.cpp` | joining, keys, merging, the six comparators |
| `Encoding`, `Json` | `src/CTPP2Util.cpp`, `src/CTPP2JSONParser.cpp` | escapes with the place in their buffer, Base64, UTF-8; writing and parsing JSON |
| `Sprintf` | `src/CTPP2Sprintf.cpp`, `src/CTPP2StringBuffer.cpp` | directives over the buffer that flushes |
| `Handlers` | `src/functions/` | one operator per handler, on arguments in the order of the template |
| `PluralForms` | `src/CTPP2GetText.cpp` | the rule compiler with its two arrays, the evaluator, catalogues |
| `Reference` | none | the plain definitions answers are compared with |
| `Library` | `src/CTPP2VMSTDLib.cpp`, `src/CTPP2SimpleVM.cpp` | Composes all of the library: use of the table, then one job over texts as numbers, calls by name, or catalogues |
| `Threads` | `multithread/CTPP2MT.cpp` | main and each thread with a place in its code; a step goes up to the next call that may wait or that others see |

An `MC` module gives the constants of its component for TLC: programs, templates, hashes, calls. Where the
constants are plain sets the component is checked itself. A refinement that is proved is stated in the component
(`ArgStack`, `SymbolTable`, `HashTable`, `Image`); that of `ValueStore`, whose mapping is recursive, in `MCCDT`.
An exception is an outcome of an action that changes what the code has
changed by then: `RET` drops the elements of its frame before it finds that there
is no return address, `LOOP` counts down before it finds that its target is
outside of the code.

### Abstractions

* **Values in `VM`.** A value is its whole number, `0..MaxValue`; 0 also stands
  for all that has none. What is found inside of a container, and
  the result of arithmetic, is any value. A condition the abstraction cannot decide is
  taken both ways. So the machine of the model does everything the program's does and
  more; invariants hold of the program, and `Terminates`, which does not depend on
  data, does too. That `CDT` behaves as a value is what `CDT.tla` checks.
* **Undefined behaviour.** `MOD` by zero (line 975), a syscall
  number equal to the size of the map (line 225 compares with `>`), an operand the
  dispatch does not rule out: the machine goes to `status = "undefined"`, of
  which nothing is claimed. `SYSCALL` still chooses any entry if the number is within the allocated map.
* **`CDT`.** A string is its number of pieces, an integer has no value, an
  array its elements. A container is never put inside of itself (no client does, and
  nothing in `CDT` prevents it); iterators, sorting and arithmetic are left out.
* **Addresses** are computed modulo `Word` where the code computes them in 32
  bits: relative jumps backwards are large unsigned numbers.
* **`HashTable`.** A hash is the function of its bits, and any two names may have the same one. `Put` then doubles the
  table for ever, which the model bounds: from `HashBits` on, where a slot is a whole hash, a doubling parts no two names any more, and
  `iPower` stays as it is while the loop goes on. (In the code it grows until memory ends or `1 << iPower` overflows.)
* **`SaveBasePointer`** checks nothing. Its one caller, `SAVEBP`, follows the
  pushes of as many elements (`CallBlock`, `src/CTPP2Compiler.cpp:398`); the model
  assumes that number and lets everything else be in any order. `FramesExact` of the `compiler` run shows the number right.
* **Compiler and parser.** A name, an operator or an expression's operand is a choice; no text is read. Code is not kept
  but followed: `StackShape` holds the stacks with which each place can be reached, and a jump not patched yet
  the stacks it will bring. `Uses` admits the constructs of section 5.2 that the compiler does not handle. The name before `as` is
  one of an open loop only with `"iterator loop"` among them; elsewhere it is in no table (`NoSymbol`).
* **Image.** A segment holds values, not bytes; the checksum tells every change. A file is how much of it is there, its version, and
  whether something else is damaged. What is past the end of a file, damaged or in the wrong byte order is `Junk`; a file with damage may
  also be refused for another reason than its checksum. `checked` says whether what was loaded had been compared
  (`GetCore`, which reads the block in memory, counts as that).
* **Library.** The parts share the process and no state, so after the table is used one of them moves at a
  time. Texts are bytes. Calls do not change their arguments (but see `attr_in_array` in 5.2), so a call is one step whose answer is a function.

## 3. The runs

| Run | Shows | Bounds, and why they are enough |
|---|---|---|
| `arg_stack` | Type, `FramesNested`, `HiddenKept`, and the refinement of `FrameStack`, over every sequence of calls | 4 elements, 4 base pointers, 2 values: a full stack, an empty frame over a full one, three frames deep |
| `cdt_counts` | `RefcountExact`, `NoDangling` over arrays in arrays shared by two variables | 3 live cells; no strings. Every pair of a shared outer and a shared inner array fits |
| `cdt_values` | `ImplementsValueStore`: sharing is invisible, for strings, arrays and hashes | 3 live cells, arrays of one element, one hash key, strings of two pieces |
| `cdt_nested_source` | fails: finding 1 | as `cdt_counts`, with any source of an assignment |
| `symbol_table` | the inductive invariant, `RefusesExactly`, `NothingLost`, refinement of `ScopeStack` | 2 names, 3 scopes: shadowing twice, and ids given out again |
| `image` | of the table: the inductive invariant, `UsedExact`, refinement of `Dictionary`, `PutReturns`; of the pools: `PoolsSound`, refinement of `AppendLog`; of the whole: `SegmentsApart`, `LoadsWhole` | 4 keys, two of which part only at the fourth bit, so that one `Put` doubles three times, and two have the same hash; empty, small and exactly filled blocks, three growths of the text index, bytes of 2 bits and 9 numbers; images of programs with up to two (`Few`) names, texts and numbers together, which leave every segment empty or not; both byte orders; files in every state of being written, with another version, or damaged |
| `image_collision` | fails: finding 3 | as `image` |
| `compiler` | `DepthExact`, `JumpsAgree`, `OperandsExact`, `FramesExact`, `FlagsExact` over every template | 4 things open at a time (operators, included files, calls of the parser, operands waited for), at most 3 of them operators and files and then no further statement with an expression but `elsif`, 2 names, one block with up to two arguments, one include within the first file: loops in loops, branches in loops, calls in branches, breaks out of any of them |
| `compiler_condition` | fails: finding 2 | conditions that are sums |
| `library` | `NamesResolve`; `NumbersAgree`; `RoundTrips`; `AnswersAsSpecified` | a table too small for the library and one with two slots to spare, three handlers of the owner of which two share a name but for case; two variables over `1`, `.5`, `1e1`, an integer and a fraction; 5866 calls over the bytes that matter to each, elements to be sorted all of one kind; a constant rule, those of five languages and a nested one, counts 0 to 25 |
| `threads` | `IInv`, `DestroyedUnused`, `AllPrinted` | three threads, two documents each, two names |
| `vm` | `IInv`, `StepBound`, `Terminates` of every program of three control transfers out of 13; `DispatchesOwn` over programs run one after the other on one machine; `FramesNested`, `CallersKept`, `RegistersRestored` of each opcode with each kind of operand | limit 12, one return address, 3 runs: the limit is met and passed by loops of transfers, and not by the programs that fill the stack first; programs that fail to load, throw, and leave things on the stacks; each opcode on an empty stack, on a full one (8, what `PUSHA` needs) and inside of a frame |

`MaxFrames`, `MaxRuns`, `MaxRecords`, `MaxScopes`, `MaxLive`, `MaxLen`, `MaxStr` and
`MaxValue` bound only the model. `MaxCells` is `MaxLive + 3`, so that an operation never runs out of
cells half way. `cdt_*` use `VIEW HeapView`, which leaves out the outcome of the
last call (no action reads it), and the symmetry of variables; `compiler` uses `VIEW ParserView`.
In `library`, `EscapeBufferLen` is 7 and `StringBufferLen` 3, so that every buffer is met, and passed
by a longer text, within a few bytes (the code has 1024); `UIntRange` is 64 in place of 2^32, above every
length that occurs. `MaxText`, `MaxNumber` and `MaxLoads` bound only the model.
`vm` does not check deadlock, because after
`MaxRuns` programs the machine of the model stops; nor does `compiler`, whose template ends, `library`, whose
job is done, and `threads`, which returns. That no thread is stuck before is `AllPrinted`.

In `VM`, `InitialFlags` are the values `iFlags` may have before an instruction sets it: the
constructor does not initialise it.

**Fairness.** `VM!LiveSpec` (and `MCVM!MCSpec`) has weak fairness of `Step` alone: the thread that called
`Run` keeps going round its loop, nobody has to start a program. `HashTable!LiveSpec`
has weak fairness of an iteration of `Put`'s loop, and so has `MCImage!MCSpec`. Both are single-threaded loops
without waiting. `Threads!LiveSpec` has weak fairness of main, which waits only for threads to end, once
and for good, and strong fairness of each thread: a mutex is free again and again, and a
scheduler that gives it to others for ever is not one the harness can run under. Nobody has to fail to create a thread.

## 4. The proofs

| Theorem | Says, for every value of the constants |
|---|---|
| `CDTRefcountExact`, `CDTNoDangling`, `CDTTypeCorrect` | every counter is the number of handles, no handle leads to a deleted cell and no array has holes, after any operations on any number of shared and nested containers; of assignment, but for the source of finding 1 (`NestedSource = FALSE`) |
| `VMControlInvariant`, `VMStepBound` | every run is bounded, whatever the program |
| `VMDataInvariant`, `VMFramesNested`, `VMCallersKept` | the stack and the registers are well formed after every opcode, the saved base pointers descend, and no opcode changes what the caller of a block has on the stack |
| `VMDispatchesOwn`, `VMInvariant` | a machine used again reaches the handlers of the program it was initialised with last; all of the inductive invariant |
| `ImagePoolsSound`, `ImageImplementsLogs`, `ImageTableSound` | the pools of texts and numbers stay inside of their blocks and are append-only logs; the table beside them stays a map |
| `ImageSegmentsApart`, `ImageLoadsWhole` | the segments of an image are aligned, apart and inside of it; what the loader compared with its checksum and accepted is the whole program, of whatever byte order programs and however damaged files may be |
| `ArgStackTypeCorrect`, `ArgStackFramesNested`, `ArgStackHiddenKept`, `ArgStackImplementsFrameStack` | the pointers stay in the array; base pointers descend to the stack pointer; nothing above the base is changed; every call is one of a bounded stack of frames |
| `SymbolTableInvariant`, `SymbolTableRefusesExactly`, `SymbolTableNothingLost`, `SymbolTableImplementsScopeStack` | comparing ids refuses exactly the names of the current scope; leaving a scope loses nothing of the outer ones; the table is a stack of scopes |
| `StackKnown`, `ParserTypes`, `DepthIsExact`, `JumpsAlwaysAgree`, `OperandsAreExact`, `FramesAreExact`, `FlagsAreExact` | for every template, however its constructs are nested and included, the compiler knows the machine's stack: its count of the depth, what each jump brings to the place it leads to, where an operand is, what a call passes and a block returns with, and the flags of every open parser; of templates that use nothing the compiler does not handle (`Handled`) |
| `FactoryNamesResolve` | in a table of any size, in the middle of the set-up and of the destructor too, a name leads to a handler that exists and has it; a machine's calls do; what the destructor leaves is what the table was too small for and what the owner took out |
| `HashTableInvariant`, `HashTableUsedExact`, `HashTableImplementsDictionary` | every element is where a search looks, `iUsed` counts the keys, the table refines a map in which names of one hash are one name to a search; for every hash function |
| `ThreadsInvariant`, `ThreadsDestroyedUnused` | a mutex is held exactly inside of its section, the program of a thread is the one loaded, and nothing is destroyed while a thread may use it, for any number of threads and iterations |

* **CDT.** The invariant `IInv` is what `TypeOK` and `RefcountExact` say, about a heap. Within an
  operation the heap passes from helper to helper, and there the counters are not exact: assignment raises that
  of its source before it destroys the target. `Sound(H, g)` allows one such cell, `g`; each helper has a lemma
  that takes a sound heap to a sound heap (`Destroying`, `Unsharing`, `Indexing`, `Storing`, `Assigning`).
  `Destroy` recurses. `Falling` holds before and after each reference it drops: what is left to drop belongs to deleted cells,
  counters are exact, and the cells that live are as they were. Each drop takes one reference away, so
  there are no more of them than references (`DroppingSteps`, by induction over a set of numbers).
  What the operation still needs must survive that: the cells on the way from a variable to the target, each referred to
  from another of them by a place that is not the target (`Supported`), are never deleted. `Room` counts free cells, so that
  `Fresh` finds one in the bound `MaxCells`.
  The lemmas on assignment need one more fact, that the source outlives the former value of the target; with
  `NestedSource = FALSE` that is the guard of `Assign` (finding 1 is what happens without it), and for the two assignments of
  `Swap` it is proved (`SourceLives`).
* **Machine: control.** `CALLNAME`, `CALLIND` and straight code do not look at the limit.
  Past it a program goes forward only, or enters a block and leaves
  one more return address behind; `RET` compares again. So
  `iExecutedSteps - iMaxSteps <= Len(oVMCodeStack) * CodeSize + iIP` is kept
  (`StepsWithReturns`) and bounds the excess by `(iMaxCodeStackSize + 1) * CodeSize`. The proof first
  sorts the operations into the four ways an iteration can end (`Ends`): it
  stops, goes on, transfers below the limit, or enters a block.
* **Machine: data.** An opcode chains calls of the argument stack, eight in `PUSHA`, and in `SYSCALL` one for each
  argument. `InFrame(s, t)` is what any chain of them without `SAVEBP` or `RESTBP` may make of a stack, and it is
  transitive; `Within` says it of a step. `RESTBP`, `SAVEBP` and the clearing of the stack by `InitProgram` are the other
  cases. `CallersKept` follows from both. For `DispatchesOwn` the invariant `CallsResolved` says that the map, which `InitProgram`
  keeps when it is large enough, answers each of the program's syscalls with its name.
* **Image.** `PoolsSound` holds each pool's own invariant: the offsets of the texts are consecutive and inside of
  what is allocated; the bits are as many as the numbers and tell their kinds. `ImageInv` adds that an image was made of the pools
  as they are and that a load gives each segment as it was, or as junk where the byte order differs.
  The offsets of the eight segments are sums of aligned sizes (`OffsetsAre`, `OffsetsApart`). Names of syscalls
  are laid out by a recursive function over the list (`NamesPlaced`, by induction over a set of numbers).
  `ReadOfImage` says that what was compared is of this byte order and without junk, from which `ImageLoadsWhole` follows; files that are
  loaded without being compared are outside of its claim (5.2).
* **Argument stack.** `TypeOK /\ FramesNested` is inductive. `PopElement` tests
  for equality with the base pointer, which is enough only while the stack pointer is
  not above it; `FramesNested` says that, and that restoring a base pointer keeps it so. For the refinement, the frames are cut
  out of the array between neighbouring base pointers, and the bound of `FrameStack`, on the elements of all frames together,
  is the size of the array because those lengths add up to it (`TotalIs`).
* **Symbol table.** `RefusesExactly` is not inductive: a scope that is left gives its
  ids back. The invariant gives each open scope an interval of ids, makes ids grow along
  the records of a name, and says that a scope lists a name once, exactly if
  one record of that name has an id in its interval. `UnmarkScope` takes
  one record per listed name; with the invariant those are the ones of its interval. For the refinement
  (`ScopesAre`), a scope is the partial function of the names it lists to the data of those records; a search
  from the newest record finds the innermost scope that binds the name.
* **Compiler and parser.** None of the five properties is inductive by itself: what a jump brings, or where an operand is,
  follows from what the stack holds, and that from everything that is open. The invariant (`IInv`) therefore describes the stack.
  A context says how many arguments of a block and how many loops, of eight cells each, lie under the values of the expression
  being read; `Cells(x, k)` is the stack of a context with `k` values. Every open operator and every file stands
  in a context that the construct around it determines, every open expression on a number of values (`K`), and every jump that is not
  patched yet brings the stack of the place where it will be patched (`Pending`). Each instruction has a lemma that takes code
  that leaves `k` values to code that leaves some other number (`PUSHASound`, `DrawSound`, `TakenBackSound`), each method of the compiler has
  one by these, and each action of the parser by those.
* **Table of handlers.** `NamesResolve` says nothing of the names of the library while the table is in use, and needs it when they
  are destroyed. `Kept(n, m)` says of each of them, after n turns of the set-up and m of the destructor, whether its handler exists and
  whether its name is in the table: it had room, was not taken out, and its turn is made and not undone. `Owned` says that no other
  handler has such a name, so what a name of the library leads to is the library's own (`LeadsToOwn`); `Single`
  that no handler is in two slots, or the destructor would leave one that it deletes in the other.
  The theorem is about `FactorySpec`; a step of `Library` is one of `FactoryNext` or leaves the table alone, which its `Next` shows line by line
  but the prover cannot be told: `Library` uses recursive operators.
* **Hash table.** `InPlace` is inductive: `Resize` moves an element by more bits of
  its hash, and two elements that did not share a slot do not share
  a longer prefix. For the refinement, what is stored under a name is the same before and after a `Resize`, and
  a search answers for whatever name in the table has its hash; since that name would be in the same slot, there is one at most,
  and `Put` never gets another in.
* **Threads.** `DestroyedUnused` follows from what main has joined: `JoinedEnded` says it of the
  threads below `iPos`, `HeldInside` that a thread that ended holds no mutex. That `Find` never takes the
  branch that keeps the mutex needs `CreatedInOrder` and `ProgramKept`: a thread exists only after `Load`.

Assumptions are those named in the modules: sizes are natural numbers, programs are
well formed (`WellFormed`), the outcomes are
distinct, `Junk` is no segment. TLC evaluates each in the runs. Besides these, two groups of theorems have a hypothesis of their
own: `NestedSource = FALSE` of the `CDT` theorems, and `Handled` of those on the parser; the runs
`cdt_counts` and `compiler` give the constants these values. `Handled` is `Uses \subseteq {"break in include"}`: templates
in which no condition ends in a constant as the operand of a sum or of a negation, no block is defined inside of a loop, no block has another number of arguments than a call of
it expects, and no loop is over the iterator of an open loop. These are the constructs that the code miscompiles (finding 2 and section 5.2), so without the hypothesis the theorems
are false. That a block does not name an argument twice (`ArgumentsNamedOnce`) is what `src/CTPP2Parser.cpp:2942` sees to; that a handler
of the owner does not take a name of the library is the guard of `Register`, and what happens otherwise is in 5.2.

Where a proof needs induction over numbers it takes the least element of a set of numbers, because the library's
induction theorems have an operator as a parameter, which the provers cannot instantiate. That serves for a bounded
count, not for trees and texts.

Only model-checked:

* `Terminates`, `PutReturns` and `AllPrinted`: liveness is out of the prover's reach. `VMStepBound` is the safety half of the first.
* `ImplementsValueStore`: the value of a handle is a tree, by recursion over the heap. What it needs of the counters is proved.
* `NumbersAgree`, `RoundTrips` and `AnswersAsSpecified` of the library: texts, trees and tables in recursive operators throughout.
* `RegistersRestored`: it is about the programs of `MCVM` that save and restore registers.

## 5. Findings

### 5.1 Shown by a run

1. **`src/CDT.cpp:324`.** Assignment to a container from an element of its own
   is protected from the container's destruction only if the element's
   counter is 1. If the container holds two references to it, both are dropped
   and the cell is freed before line 369 takes a reference. The comment at line 312
   says that such a source is handled. Four steps show it (`cdt_nested_source`).
2. **`src/CTPP2Parser.cpp:2728`.** A condition whose last operand is a constant is taken for a
   constant, though it is a sum: the instruction taken back is the addition and not the
    push. Both operands stay on the stack (`compiler_condition`).
3. **`src/CTPP2HashTable.cpp:176`.** `Put` of a block name with the hash of another in the table resizes it and
   tries again, at every size with the same outcome: it does not return (`image_collision`). The header calls the class a hash
   without collisions (`include/CTPP2HashTable.hpp:111`) and gives `Put` two results. `HashFunc` gives
   `CT` and `B5`, or `ap` and `g6`, the same number. `PutReturns` is what is left, of names without such a neighbour. Until
   then a search for the one name answers the address of the other, because `Get` compares hashes only (line 142).

### 5.2 Met while modelling

These come from reading the code; the modules leave the case out by a named
condition or a restricted input, or a property says which inputs it is about.

Values:

* `Concat`, `Append` and `Prepend` on a text that was used as a number keep the number of the old text
  (`src/CDT.cpp:3424`; `altered` in `TextNumbers`). Taking the number writes it to the cell all copies of the text
  share (4546-4548), also in `++`, `--` and the assigning operators, so the text that keeps a stale number need not be the one that was used: after
  `v = "1"; w = v; ++v`, joining `"1"` to `w` leaves the number 1 on the text `11`. `NumbersAgree` says nothing of such cells.
* `number / CDT` divides the `CDT` by the number (lines 4773-4793): the form is not among those `NumbersAgree` compares. `INT += real` truncates, `INT + real` does not (1320).
* `==` and its kin, `Equal` and the JSON of a text depend on whether the text was used as a number before;
  `.5` is then written without quotes and cannot be parsed back (`src/CTPP2Util.cpp:749`).
* Comparators are not a strict weak order on elements that are part numbers, part texts (`src/CDTSortRoutines.cpp:52`); `AnswersAsSpecified`
  is about elements of one kind.
   `SortArray` sorts without unsharing.
* `MergeCDT` of a hash and an empty array reads past its end (4309); an exception leaves it half merged; a deep
  merge of values of different kinds is not associative.
* With `THROW_EXCEPTION_IN_COMPARATORS`, `!=` on a text calls itself without end (2028-2070).

Compiler and parser:

* A `break` in a file that is included inside of a `foreach` takes the last of an empty list (`src/CTPP2Parser.cpp:2305`).
* A block defined inside of a `foreach` reads its arguments from the wrong places (`src/CTPP2Compiler.cpp:529`).
* A `foreach` whose value is written `__iter_` and the name of an open loop is compiled by a branch of its own
  (`src/CTPP2Compiler.cpp:285-314`) that neither counts nor marks a scope, while `ResetScope` (365) counts down and unmarks for it too. The new
  loop variable is declared in the scope of the outer loop and with its number, so inside of the inner loop a name of the outer one
  is read from the register of the inner; at the end of the inner loop the names of the outer one are gone, and at
  the end of the outer the table is unmarked once too often. From a loop further out the value is read at `iDepth - 1`, where `PUSHA` keeps another register than
  `HR`. With `"iterator loop"` in `Uses` TLC finds `OperandsExact` and `FlagsExact` violated.
* An include inside of a block admits blocks in it, which `doc/template_language.rst:339` rules out.
* The number of arguments is not compared when a block is called through a variable, or
  is defined again later (`src/CTPP2Parser.cpp:2222`).

Image and pools:

* A file of the other byte order is converted in part, without its checksum being compared
  (`src/CTPP2VMFileLoader.cpp:54-151`): the table of calls, its offset and the size of the bit index stay as they are. A file whose first byte of the version is 0
  is taken as it is, without any comparison (line 185). The model loads both, with `Junk` where it belongs, and `LoadsWhole`
  does not speak of them (`checked`).
* `HashTable::Resize` raises `iPower` before it allocates (`src/CTPP2HashTable.cpp:206-210`): a failure leaves the number of slots wrong.
* `StaticText`'s constructor allocates the initial index in bytes, `StoreData` counts entries
  (`src/CTPP2StaticText.cpp:93`). The compiler uses the default, 0. With another, `PoolsSound` fails.

Functions:

* `mb_substr` from 0 skips the first character; from beyond the end, or none of the first, it gives the whole text.
  `mb_truncate` appends its addon to a text that is not cut (line 108) and gives the whole text for 0
  (`doc/template_language.rst:599`). `substr` with four arguments wraps around in `iBytes + iOffset`.
* `replace` of an empty text does not end (`FnReplace.cpp:64`). `random` of an empty range divides by zero.
* `list_element` takes the index first, as `tests/testdata/functions.tmpl:50` does; `doc/template_language.rst:568` says last.
  The function is called in the run and left out of `AnswersAsSpecified`.
* `avg` with `q` adds its flag argument too. `attr_in_array` inserts the key it looks for.
* `sprintf`: the second `%` of `%%` is read again as the beginning of a directive (`src/CTPP2Sprintf.cpp:833`).
* JSON: numbers with an exponent, and `null` at the end of the text, are written and not
  read back; `010` is octal; `\u00E9` in upper case is refused; a comment that ends in `**/` is not closed
  (`src/CTPP2JSONParser.cpp:322-337`). Writing a truncated character runs past the end (`src/CTPP2Util.cpp:665`).
* `WMLEscape` drops control characters. `Base64Decode` of an empty text writes to an empty buffer (901-920).
* GetText: each level of a plural rule takes one operator although the grammar's comment (line 74 and above) says any number;
  the operator is emitted before its right operand, so `1 == n % 10` is miscompiled (no such rule is among the inputs of `library`); a malformed
  rule recurses without end (613-623); a catalogue without a rule evaluates an empty stack; loading a language
  twice appends to its rule.

Table of handlers and harness:

* `DestroyLibrary` deletes by name: a handler of the owner under a name of the library, registered
  before it, or after that was removed, is deleted with it. Of two handlers under one name the second cannot be removed.
* The `continue` at `multithread/CTPP2MT.cpp:107` keeps the mutex locked. It is never taken, because main loads the
  template first; with the load after the creation of threads `AllPrinted` fails.

The limit of steps is not absolute (`include/CTPP2VM.hpp:65` calls it the maximum number of
executed steps); the proved bound says by how much a run can exceed it.

## 6. Not modelled, and what is left

* **Out of TLC's reach:** conversion of floating point (`CTPP2DTOA`, third-party code; `FmtFloat` and `FmtSci` of
  `Sprintf`; numbers in `Text` are fractions, what `printf` makes of them an external operator).
* **Input and output:** source loader, collectors, loggers, the bytes of catalogue files, JSON files. Of the collector
  over iconv: a character split between two calls of `Collect` is lost, since each call skips what it cannot convert.
* **Library calls without logic of their own:** dates, time, hashes, random numbers, iconv, ICU, spelling out, logging, `obj_dump`, `context`.
* **Characters of a template:** the parser reads constructs; spelling, white space removed by tags, and messages
  are left out.
* **Of `CDT`:** iterators, pointers to foreign objects; arithmetic is on exact fractions, so overflow and rounding are not seen.

What would come next: the file's other byte order, for which the conversion of each segment would have to be modelled word by word; and
the comparisons and the arithmetic of `CDT` on numbers of fixed width.
