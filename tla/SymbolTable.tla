---------------------------- MODULE SymbolTable -----------------------------
(***************************************************************************)
(* SymbolTable (src/include/CTPP2SymbolTable.hpp): the compiler's table of *)
(* loop variables.  There is one vector of records per name, the innermost *)
(* last, and one list of the names added per scope.  Whether a name is     *)
(* already in the current scope is told by numbers only: a symbol's id is  *)
(* not smaller than the id counter was when the scope was entered.         *)
(***************************************************************************)
EXTENDS Integers, Sequences, FiniteSets

CONSTANTS
  Names,       \* symbol names
  Data,        \* what the compiler stores with a symbol
  Null,        \* the NULL record
  MaxScopes    \* bound: scopes open at a time

ASSUME NullAssumption == Null \notin Data
ASSUME MaxScopesAssumption == MaxScopes \in Nat \ {0}

SymbolRecord == [symbol_id : Nat, symbol_data : Data]
ScopeVars    == [varlist : Seq(Names), last_var_id : Nat]

VARIABLES
  iLastVarId, iCurrentScope, mSymbolTable, vScopeLastVarList,
  iSymbolId,   \* what the last AddSymbol returned
  pRecord      \* the data of what the last GetSymbol returned

table == <<iLastVarId, iCurrentScope, mSymbolTable, vScopeLastVarList>>
vars  == <<table, iSymbolId, pRecord>>

Last(s) == s[Len(s)]

(* A name the map does not hold is a name without records: UnmarkScope     *)
(* erases a vector that became empty (line 245).                           *)
Init ==
  /\ iLastVarId = 0
  /\ iCurrentScope = 0
  /\ mSymbolTable = [n \in Names |-> <<>>]
  /\ vScopeLastVarList = << [varlist |-> <<>>, last_var_id |-> 0] >>
  /\ iSymbolId = -1
  /\ pRecord = Null

(* Line 189: is the newest symbol of that name of the current scope? *)
DeclaredAnywhere(n) == mSymbolTable[n] # <<>>
DeclaredHere(n) ==
  /\ mSymbolTable[n] # <<>>
  /\ Last(vScopeLastVarList).last_var_id <= Last(mSymbolTable[n]).symbol_id

AddSymbol(n, d) ==
  \/ /\ DeclaredHere(n)
     /\ iSymbolId' = -1
     /\ UNCHANGED <<table, pRecord>>
  \/ /\ ~DeclaredHere(n)
     /\ vScopeLastVarList' =
          [vScopeLastVarList EXCEPT ![iCurrentScope + 1].varlist = Append(@, n)]
     /\ mSymbolTable' =
          [mSymbolTable EXCEPT ![n] =
             Append(@, [symbol_id |-> iLastVarId, symbol_data |-> d])]
     /\ iLastVarId' = iLastVarId + 1
     /\ iSymbolId' = iLastVarId
     /\ UNCHANGED <<iCurrentScope, pRecord>>

GetSymbol(n) ==
  /\ pRecord' = IF mSymbolTable[n] = <<>> THEN Null ELSE Last(mSymbolTable[n]).symbol_data
  /\ UNCHANGED <<table, iSymbolId>>

MarkScope ==
  /\ Len(vScopeLastVarList) < MaxScopes
  /\ iCurrentScope' = iCurrentScope + 1
  /\ vScopeLastVarList' = Append(vScopeLastVarList, [varlist |-> <<>>, last_var_id |-> iLastVarId])
  /\ UNCHANGED <<iLastVarId, mSymbolTable, iSymbolId, pRecord>>

(* Each occurrence of a name in the scope's list takes one record off its  *)
(* vector, while there is one.                                             *)
WithoutOne(s, varlist, n) == IF s = <<>> THEN s ELSE SubSeq(s, 1, Len(s) - 1)
Without(s, varlist, n) ==
  LET times == Cardinality({i \in DOMAIN varlist : varlist[i] = n})
  IN SubSeq(s, 1, Len(s) - times)

(* The compiler unmarks only a scope it has marked (ResetScope after       *)
(* ChangeScope), so the constructor's scope stays.                         *)
UnmarkScope ==
  /\ Len(vScopeLastVarList) > 1
  /\ LET scope == Last(vScopeLastVarList)
     IN /\ iLastVarId' = scope.last_var_id
        /\ mSymbolTable' = [n \in Names |-> Without(mSymbolTable[n], scope.varlist, n)]
  /\ vScopeLastVarList' = SubSeq(vScopeLastVarList, 1, Len(vScopeLastVarList) - 1)
  /\ iCurrentScope' = iCurrentScope - 1
  /\ UNCHANGED <<iSymbolId, pRecord>>

Next ==
  \/ \E n \in Names, d \in Data : AddSymbol(n, d)
  \/ \E n \in Names : GetSymbol(n)
  \/ MarkScope
  \/ UnmarkScope

Spec == Init /\ [][Next]_vars

-----------------------------------------------------------------------------
(* Type correctness.  iCurrentScope is the index of the last scope: the    *)
(* two ways AddSymbol finds the current scope (lines 187 and 192) agree.   *)
TypeOK ==
  /\ iLastVarId \in Nat
  /\ mSymbolTable \in [Names -> Seq(SymbolRecord)]
  /\ vScopeLastVarList \in Seq(ScopeVars)
  /\ vScopeLastVarList # <<>>
  /\ iCurrentScope = Len(vScopeLastVarList) - 1
  /\ iSymbolId \in Nat \cup {-1}
  /\ pRecord \in Data \cup {Null}

First(i) == vScopeLastVarList[i].last_var_id
Beyond(i) == IF i = Len(vScopeLastVarList) THEN iLastVarId ELSE First(i + 1)
Lists(i, n) ==
  \E p \in DOMAIN vScopeLastVarList[i].varlist : vScopeLastVarList[i].varlist[p] = n
Owns(i, n, k) == First(i) <= mSymbolTable[n][k].symbol_id /\ mSymbolTable[n][k].symbol_id < Beyond(i)

(* The parts of the inductive invariant: the scopes cut the ids in use     *)
(* into intervals; ids grow along the vector of a name; a scope lists a    *)
(* name once; it lists it iff exactly one record of the name has an id of  *)
(* its interval; and the id of every record is of some interval.           *)
Intervals ==
  /\ First(1) = 0
  /\ \A i \in DOMAIN vScopeLastVarList : First(i) <= Beyond(i)
  /\ \A i, j \in DOMAIN vScopeLastVarList : i < j => Beyond(i) <= First(j)
IdsGrow ==
  \A n \in Names : \A k \in DOMAIN mSymbolTable[n] :
     /\ mSymbolTable[n][k].symbol_id < iLastVarId
     /\ \A l \in DOMAIN mSymbolTable[n] :
           k < l => mSymbolTable[n][k].symbol_id < mSymbolTable[n][l].symbol_id
ListedOnce ==
  \A i \in DOMAIN vScopeLastVarList :
     LET varlist == vScopeLastVarList[i].varlist
     IN \A p, q \in DOMAIN varlist : varlist[p] = varlist[q] => p = q
OwnedIffListed ==
  \A i \in DOMAIN vScopeLastVarList, n \in Names :
     Lists(i, n) <=> \E k \in DOMAIN mSymbolTable[n] : Owns(i, n, k)
OwnedOnce ==
  \A i \in DOMAIN vScopeLastVarList, n \in Names : \A k, l \in DOMAIN mSymbolTable[n] :
     Owns(i, n, k) /\ Owns(i, n, l) => k = l

EachOwned ==
  \A n \in Names : \A k \in DOMAIN mSymbolTable[n] :
     \E i \in DOMAIN vScopeLastVarList : Owns(i, n, k)

(* The inductive invariant: each name is owned by exactly the scopes whose *)
(* lists hold it, and the ids and intervals of the scopes grow.            *)
IInv == TypeOK /\ Intervals /\ IdsGrow /\ ListedOnce /\ OwnedIffListed /\ OwnedOnce /\ EachOwned

(* AddSymbol refuses a name exactly when the current scope has added it:   *)
(* comparing ids (line 189) is as good as looking it up in the list, also  *)
(* after scopes were left and their ids were given out again.              *)
RefusesExactly == \A n \in Names : DeclaredHere(n) <=> Lists(Len(vScopeLastVarList), n)

(* Leaving a scope restores the table as it was when the scope was marked, *)
(* so that what GetSymbol finds for an outer loop is never lost: a lookup  *)
(* fails only for a name no open scope lists.                              *)
NothingLost ==
  \A n \in Names :
     mSymbolTable[n] # <<>> <=> \E i \in DOMAIN vScopeLastVarList : Lists(i, n)

(* The scopes the vectors stand for. *)
Scope(i) ==
  LET own(n) == {k \in DOMAIN mSymbolTable[n] : Owns(i, n, k)}
  IN [n \in {m \in Names : own(m) # {}} |->
        mSymbolTable[n][CHOOSE k \in own(n) : TRUE].symbol_data]

Abs == INSTANCE ScopeStack WITH
         scopes <- [i \in DOMAIN vScopeLastVarList |-> Scope(i)],
         added  <- iSymbolId # -1,
         found  <- pRecord

(* The table behaves as a stack of scopes: shadowing, refusal, lookup and  *)
(* leaving a scope are those of partial functions put on a stack.          *)
ImplementsScopeStack == Abs!Spec
=============================================================================
