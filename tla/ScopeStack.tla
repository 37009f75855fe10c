----------------------------- MODULE ScopeStack -----------------------------
(***************************************************************************)
(* What SymbolTable promises to the compiler: a stack of scopes, each a    *)
(* partial function from names to data.  A name may be added once to the   *)
(* innermost scope; a lookup finds the innermost binding; leaving a scope  *)
(* takes back exactly what was added in it.                                *)
(***************************************************************************)
EXTENDS Naturals, Sequences

CONSTANTS Names, Data, Null

VARIABLES
  scopes,   \* outermost first
  added,    \* whether the last addition was accepted
  found     \* what the last lookup found

avars == <<scopes, added, found>>

Bindings == UNION {[D -> Data] : D \in SUBSET Names}

Init == scopes = << [n \in {} |-> Null] >> /\ added = FALSE /\ found = Null

Innermost == scopes[Len(scopes)]
Outer     == SubSeq(scopes, 1, Len(scopes) - 1)

Bind(n, d) ==
  /\ added' = (n \notin DOMAIN Innermost)
  /\ scopes' = IF n \in DOMAIN Innermost THEN scopes
               ELSE Append(Outer, [m \in DOMAIN Innermost \cup {n} |->
                                     IF m = n THEN d ELSE Innermost[m]])
  /\ UNCHANGED found

LookUp(n) ==
  LET I == {i \in DOMAIN scopes : n \in DOMAIN scopes[i]}
  IN /\ \/ I = {} /\ found' = Null
        \/ \E i \in I : (\A j \in I : j <= i) /\ found' = scopes[i][n]
     /\ UNCHANGED <<scopes, added>>

Enter == scopes' = Append(scopes, [n \in {} |-> Null]) /\ UNCHANGED <<added, found>>

Leave == Len(scopes) > 1 /\ scopes' = Outer /\ UNCHANGED <<added, found>>

Next ==
  \/ \E n \in Names, d \in Data : Bind(n, d)
  \/ \E n \in Names : LookUp(n)
  \/ Enter
  \/ Leave

Spec == Init /\ [][Next]_avars
=============================================================================
