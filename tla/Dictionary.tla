----------------------------- MODULE Dictionary -----------------------------
(***************************************************************************)
(* What a hash table promises: a map of names to values, in which a Put    *)
(* that has begun takes effect at one moment, once, and a lookup answers   *)
(* the latest value put, or that there is none.  Names of one hash are one *)
(* name to a lookup: at most one of them gets in, and answers for all.     *)
(***************************************************************************)
CONSTANTS Keys, Values, None, Hash

VARIABLES
  entries,   \* the map: a value or None for every key
  pending,   \* the Put under way, or None
  answer     \* what the last lookup returned

vars == <<entries, pending, answer>>

Init ==
  /\ entries = [k \in Keys |-> None]
  /\ pending = None
  /\ answer = None

(* The names that are in and that a lookup of k cannot tell from it. *)
Alike(k) == {l \in Keys : Hash[l] = Hash[k] /\ entries[l] # None}

Begin(k, v) ==
  /\ pending = None
  /\ pending' = [key |-> k, value |-> v]
  /\ UNCHANGED <<entries, answer>>

Effect ==
  /\ pending # None
  /\ Alike(pending.key) \subseteq {pending.key}
  /\ entries' = [entries EXCEPT ![pending.key] = pending.value]
  /\ pending' = None
  /\ UNCHANGED answer

Lookup(k) ==
  /\ pending = None
  /\ \/ Alike(k) = {} /\ answer' = None
     \/ \E l \in Alike(k) : answer' = entries[l]
  /\ UNCHANGED <<entries, pending>>

Next ==
  \/ \E k \in Keys, v \in Values : Begin(k, v)
  \/ Effect
  \/ \E k \in Keys : Lookup(k)

Spec == Init /\ [][Next]_vars
=============================================================================
