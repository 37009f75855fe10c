----------------------------- MODULE AppendLog ------------------------------
(***************************************************************************)
(* What the compiler's constant pools promise: a log of records.  A record *)
(* is stored at the end, its number is its place in the log, and the       *)
(* number gives the same record back for ever.                             *)
(***************************************************************************)
EXTENDS Integers, Sequences

CONSTANTS
  Records,
  None      \* no such record

VARIABLES
  log,
  stored,   \* the number the last Store returned, or -1
  fetched   \* the record the last Fetch returned, or None

vars == <<log, stored, fetched>>

Init == log = <<>> /\ stored = -1 /\ fetched = None

Store(r) ==
  /\ log' = Append(log, r)
  /\ stored' = Len(log)
  /\ UNCHANGED fetched

Fetch(id) ==
  /\ fetched' = IF id < Len(log) THEN log[id + 1] ELSE None
  /\ UNCHANGED <<log, stored>>

Next ==
  \/ \E r \in Records : Store(r)
  \/ \E id \in 0..Len(log) : Fetch(id)

Spec == Init /\ [][Next]_vars
=============================================================================
