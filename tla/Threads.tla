------------------------------- MODULE Threads ------------------------------
(***************************************************************************)
(* The multithreaded harness (src/multithread/CTPP2MT.cpp): main loads a   *)
(* program and starts threads that each run it on a machine of their own,  *)
(* again and again.  They share the map of programs and the output, each   *)
(* behind a mutex; main destroys both mutexes when it has joined them all. *)
(*                                                                         *)
(* A step of a thread is what it does up to its next call that may wait or *)
(* that the others see.  What a machine does is VM.tla.                    *)
(***************************************************************************)
EXTENDS Integers

CONSTANTS
  MAX_THREADS,
  MAX_ITERATIONS,
  Names,           \* of programs
  Hello,           \* "hello.ct2"
  None

Threads == 0..MAX_THREADS - 1   \* in the order they are created
Free == -1

ASSUME ThreadsAssumption == MAX_THREADS \in Nat /\ MAX_ITERATIONS \in Nat
ASSUME NamesAssumption == Hello \in Names /\ None \notin Names

VARIABLES
  main,            \* what main is at
  iPos,            \* the thread it creates or joins
  templates,       \* name -> the program loaded, or None
  output_mutex,    \* the thread that holds it, or Free
  template_mutex,
  mutexes,         \* "usable" or "destroyed"
  pc,              \* what a thread is at
  iCount,
  pVMMemoryCore,   \* the program a thread runs
  pVM,             \* the threads that have a machine
  printed          \* documents a thread has written

shared == <<templates, output_mutex, template_mutex, mutexes>>
local  == <<pc, iCount, pVMMemoryCore, pVM, printed>>
vars   == <<main, iPos, shared, local>>

Init ==
  /\ main = "load" /\ iPos = 0
  /\ templates = [n \in Names |-> None]
  /\ output_mutex = Free /\ template_mutex = Free
  /\ mutexes = "usable"
  /\ pc = [t \in Threads |-> "uncreated"]
  /\ iCount = [t \in Threads |-> 0]
  /\ pVMMemoryCore = [t \in Threads |-> None]
  /\ pVM = {}
  /\ printed = [t \in Threads |-> 0]

-----------------------------------------------------------------------------
(* main. *)

LoadedLater == templates
LoadedFirst == [templates EXCEPT ![Hello] = Hello]
Load ==
  /\ main = "load"
  /\ templates' = LoadedFirst
  /\ main' = "create"
  /\ UNCHANGED <<iPos, output_mutex, template_mutex, mutexes, local>>

Create ==
  /\ main = "create" /\ iPos < MAX_THREADS
  /\ pc' = [pc EXCEPT ![iPos] = "initializing"]
  /\ iPos' = iPos + 1
  /\ UNCHANGED <<main, shared, iCount, pVMMemoryCore, pVM, printed>>

(* pthread_create fails: main returns, and the process ends. *)
CreateFails ==
  /\ main = "create" /\ iPos < MAX_THREADS
  /\ main' = "failed"
  /\ UNCHANGED <<iPos, shared, local>>

AllCreated ==
  /\ main = "create" /\ iPos = MAX_THREADS
  /\ main' = "join"
  /\ iPos' = 0
  /\ UNCHANGED <<shared, local>>

Ended(t) == pc[t] = "ended"
Join ==
  /\ main = "join" /\ iPos < MAX_THREADS
  /\ Ended(iPos)
  /\ iPos' = iPos + 1
  /\ UNCHANGED <<main, shared, local>>

JoinedButLast == iPos + 1 >= MAX_THREADS
JoinedAll == iPos = MAX_THREADS
Cleanup ==
  /\ main = "join" /\ JoinedAll
  /\ mutexes' = "destroyed"
  /\ main' = "returned"
  /\ UNCHANGED <<iPos, templates, output_mutex, template_mutex, local>>

Exited == main \in {"failed", "returned"}

-----------------------------------------------------------------------------
(* ThreadFunction. *)

(* From one place to the next, which is by the lock of a mutex. *)
LockOutput(t, at, next) ==
  /\ ~Exited /\ pc[t] = at
  /\ output_mutex = Free
  /\ output_mutex' = t
  /\ pc' = [pc EXCEPT ![t] = next]
  /\ UNCHANGED <<main, iPos, templates, template_mutex, mutexes, iCount, pVMMemoryCore, pVM, printed>>

UnlockForgotten(t, at, next) ==
  /\ ~Exited /\ pc[t] = at
  /\ pc' = [pc EXCEPT ![t] = next]
  /\ UNCHANGED <<main, iPos, shared, pVMMemoryCore>>
UnlockOutput(t, at, next) ==
  /\ ~Exited /\ pc[t] = at
  /\ output_mutex' = Free
  /\ pc' = [pc EXCEPT ![t] = next]
  /\ UNCHANGED <<main, iPos, templates, template_mutex, mutexes, pVMMemoryCore>>

LoopHead(n) == IF n < MAX_ITERATIONS THEN "finding" ELSE "deleting"

SayInitializing(t) ==
  /\ UnlockOutput(t, "saysInitializing", "settingUp")
  /\ UNCHANGED <<iCount, pVM, printed>>

SetUp(t) ==
  /\ ~Exited /\ pc[t] = "settingUp"
  /\ pVM' = pVM \cup {t}
  /\ pc' = [pc EXCEPT ![t] = "ready"]
  /\ UNCHANGED <<main, iPos, shared, iCount, pVMMemoryCore, printed>>

SayReady(t) ==
  /\ UnlockOutput(t, "saysReady", LoopHead(0))
  /\ UNCHANGED <<iCount, pVM, printed>>

LockTemplates(t) ==
  /\ ~Exited /\ pc[t] = "finding"
  /\ template_mutex = Free
  /\ template_mutex' = t
  /\ pc' = [pc EXCEPT ![t] = "finds"]
  /\ UNCHANGED <<main, iPos, templates, output_mutex, mutexes, iCount, pVMMemoryCore, pVM, printed>>

(* A thread that does not find its program goes on to the next iteration   *)
(* with the mutex locked, which it then waits for.                         *)
Find(t) ==
  /\ ~Exited /\ pc[t] = "finds"
  /\ IF templates[Hello] = None
     THEN /\ iCount' = [iCount EXCEPT ![t] = @ + 1]
          /\ pc' = [pc EXCEPT ![t] = LoopHead(iCount[t] + 1)]
          /\ UNCHANGED <<template_mutex, pVMMemoryCore>>
     ELSE /\ pVMMemoryCore' = [pVMMemoryCore EXCEPT ![t] = templates[Hello]]
          /\ template_mutex' = Free
          /\ pc' = [pc EXCEPT ![t] = "running"]
          /\ UNCHANGED iCount
  /\ UNCHANGED <<main, iPos, templates, output_mutex, mutexes, pVM, printed>>

RunVM(t) ==
  /\ ~Exited /\ pc[t] = "running"
  /\ pc' = [pc EXCEPT ![t] = "printing"]
  /\ UNCHANGED <<main, iPos, shared, iCount, pVMMemoryCore, pVM, printed>>

PrintDocument(t) ==
  /\ UnlockOutput(t, "prints", LoopHead(iCount[t] + 1))
  /\ printed' = [printed EXCEPT ![t] = @ + 1]
  /\ iCount' = [iCount EXCEPT ![t] = @ + 1]
  /\ UNCHANGED pVM

Delete(t) ==
  /\ ~Exited /\ pc[t] = "deleting"
  /\ pVM' = pVM \ {t}
  /\ pc' = [pc EXCEPT ![t] = "ended"]
  /\ UNCHANGED <<main, iPos, shared, iCount, pVMMemoryCore, printed>>

-----------------------------------------------------------------------------
Main == Load \/ Create \/ AllCreated \/ Join \/ Cleanup

ThreadFunction(t) ==
  \/ LockOutput(t, "initializing", "saysInitializing")
  \/ SayInitializing(t)
  \/ SetUp(t)
  \/ LockOutput(t, "ready", "saysReady")
  \/ SayReady(t)
  \/ LockTemplates(t)
  \/ Find(t)
  \/ RunVM(t)
  \/ LockOutput(t, "printing", "prints")
  \/ PrintDocument(t)
  \/ Delete(t)

Next == Main \/ CreateFails \/ \E t \in Threads : ThreadFunction(t)

Spec == Init /\ [][Next]_vars

(* The scheduler runs every thread that can run.  A mutex that is unlocked *)
(* again and again is given at some time to each of those that wait for    *)
(* it, which takes strong fairness of the steps that lock one.             *)
LiveSpec == Spec /\ WF_vars(Main) /\ \A t \in Threads : SF_vars(ThreadFunction(t))

-----------------------------------------------------------------------------
OutputPlaces == {"saysInitializing", "saysReady", "prints"}
Places ==
  OutputPlaces \cup
  {"uncreated", "initializing", "settingUp", "ready", "finding", "finds", "running", "printing",
   "deleting", "ended"}

(* Type correctness. *)
TypeOK ==
  /\ main \in {"load", "create", "join", "failed", "returned"}
  /\ iPos \in 0..MAX_THREADS
  /\ templates \in [Names -> Names \cup {None}]
  /\ output_mutex \in Threads \cup {Free} /\ template_mutex \in Threads \cup {Free}
  /\ mutexes \in {"usable", "destroyed"}
  /\ pc \in [Threads -> Places]
  /\ iCount \in [Threads -> Nat]
  /\ pVMMemoryCore \in [Threads -> Names \cup {None}]
  /\ pVM \subseteq Threads
  /\ printed \in [Threads -> Nat]

(* A mutex is held exactly by the thread that is between its lock and its  *)
(* unlock; so no two are, and none waits for a mutex that it holds.        *)
HeldInside ==
  \A t \in Threads :
     /\ output_mutex = t <=> pc[t] \in OutputPlaces
     /\ template_mutex = t <=> pc[t] = "finds"

(* A thread that is started finds the program, which was loaded before;    *)
(* the one it runs after it unlocked the map stays the one in the map.     *)
ProgramKept ==
  /\ main # "load" => templates[Hello] # None
  /\ \A t \in Threads :
       /\ pc[t] # "uncreated" \/ pVMMemoryCore[t] # None => main # "load"
       /\ pVMMemoryCore[t] # None => templates[Hello] = pVMMemoryCore[t]
       /\ pc[t] \in {"running", "printing", "prints"} => pVMMemoryCore[t] # None

(* What main has joined has ended. *)
JoinedEnded ==
  /\ main = "join" => \A t \in 0..iPos - 1 : Ended(t)
  /\ main = "returned" => \A t \in Threads : Ended(t)
  /\ mutexes = "destroyed" => main = "returned"
  /\ \A t \in Threads : Ended(t) => t \notin pVM

(* Threads are created in their order; the next one has not started yet. *)
CreatedInOrder ==
  main \in {"load", "create"} => \A t \in iPos..MAX_THREADS - 1 : pc[t] = "uncreated"

(* The inductive invariant. *)
IInv == TypeOK /\ HeldInside /\ ProgramKept /\ CreatedInOrder /\ JoinedEnded

(* The mutexes and the programs, which lie on the stack of main, are used  *)
(* by no thread any more when main destroys them and returns.              *)
DestroyedUnused ==
  mutexes = "destroyed" => /\ output_mutex = Free /\ template_mutex = Free
               /\ \A t \in Threads : Ended(t) /\ t \notin pVM

(* If the threads can be created, each of them prints its documents, all   *)
(* of them, and main returns.                                              *)
AllPrinted ==
  <>[](main = "failed" \/ (main = "returned" /\ \A t \in Threads : printed[t] = MAX_ITERATIONS))
=============================================================================
