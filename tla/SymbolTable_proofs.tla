------------------------- MODULE SymbolTable_proofs --------------------------
(***************************************************************************)
(* Proofs about SymbolTable, for any names and data and any number of open *)
(* scopes.                                                                 *)
(***************************************************************************)
EXTENDS SymbolTable, FiniteSetTheorems, SequenceTheorems, TLAPS

Scopes == DOMAIN vScopeLastVarList
L == Len(vScopeLastVarList)

(* What TypeOK says of the parts of the table. *)
LEMMA Typing ==
  ASSUME TypeOK
  PROVE  /\ L \in Nat \ {0} /\ Scopes = 1 .. L /\ iCurrentScope + 1 = L
         /\ iLastVarId \in Nat
         /\ \A i \in Scopes : First(i) \in Nat /\ Beyond(i) \in Nat
         /\ \A i \in Scopes : vScopeLastVarList[i] \in ScopeVars
         /\ \A i \in Scopes : vScopeLastVarList[i].varlist \in Seq(Names)
         /\ \A n \in Names : mSymbolTable[n] \in Seq(SymbolRecord)
         /\ \A n \in Names : \A k \in DOMAIN mSymbolTable[n] : mSymbolTable[n][k].symbol_id \in Nat
<1>1. L \in Nat \ {0} /\ Scopes = 1 .. L /\ iCurrentScope + 1 = L /\ iLastVarId \in Nat
  BY DEF TypeOK, L, Scopes
<1>2. \A i \in Scopes : vScopeLastVarList[i] \in ScopeVars
  BY DEF TypeOK, Scopes
<1>3. \A i \in Scopes : First(i) \in Nat /\ vScopeLastVarList[i].varlist \in Seq(Names)
  BY <1>2 DEF ScopeVars, First
<1>4. \A i \in Scopes : Beyond(i) \in Nat
  <2>1. \A i \in Scopes : i # L => i + 1 \in Scopes BY <1>1
  <2>. QED BY <1>1, <1>3, <2>1 DEF Beyond, L
<1>5. \A n \in Names : mSymbolTable[n] \in Seq(SymbolRecord)
  BY DEF TypeOK
<1>6. ASSUME NEW n \in Names, NEW k \in DOMAIN mSymbolTable[n]
      PROVE  mSymbolTable[n][k].symbol_id \in Nat
  <2>1. mSymbolTable[n][k] \in SymbolRecord BY <1>5
  <2>. QED BY <2>1 DEF SymbolRecord
<1>. QED BY <1>1, <1>2, <1>3, <1>4, <1>5, <1>6

(* The current scope owns the newest record of a name or none at all.      *)
LEMMA RefusesLemma ==
  ASSUME IInv
  PROVE  RefusesExactly
<1> SUFFICES ASSUME NEW n \in Names
             PROVE  DeclaredHere(n) <=> Lists(L, n)
  BY DEF RefusesExactly, L
<1>1. L \in Scopes
  BY Typing DEF IInv
<1>2. mSymbolTable[n] \in Seq(SymbolRecord)
  BY Typing DEF IInv
<1>3. \A k \in DOMAIN mSymbolTable[n] : mSymbolTable[n][k].symbol_id \in Nat
  BY Typing DEF IInv
<1>4. First(L) \in Nat /\ Beyond(L) = iLastVarId
  BY <1>1, Typing DEF IInv, Beyond, L
<1>5. ASSUME DeclaredHere(n) PROVE Lists(L, n)
  <2>1. Len(mSymbolTable[n]) \in DOMAIN mSymbolTable[n]
    BY <1>2, <1>5 DEF DeclaredHere
  <2>2. Owns(L, n, Len(mSymbolTable[n]))
    BY <2>1, <1>4, <1>5 DEF DeclaredHere, Owns, Last, First, L, IInv, IdsGrow
  <2>. QED BY <2>1, <2>2, <1>1 DEF IInv, OwnedIffListed, Scopes
<1>6. ASSUME Lists(L, n) PROVE DeclaredHere(n)
  <2>1. PICK k \in DOMAIN mSymbolTable[n] : Owns(L, n, k)
    BY <1>1, <1>6 DEF IInv, OwnedIffListed, Scopes
  <2>2. /\ mSymbolTable[n] # <<>>
        /\ Len(mSymbolTable[n]) \in DOMAIN mSymbolTable[n]
        /\ k \in Nat /\ Len(mSymbolTable[n]) \in Nat /\ k <= Len(mSymbolTable[n])
    BY <2>1, <1>2
  <2>3. mSymbolTable[n][k].symbol_id <= mSymbolTable[n][Len(mSymbolTable[n])].symbol_id
    BY <2>1, <2>2, <1>3 DEF IInv, IdsGrow
  <2>. QED BY <2>1, <2>2, <2>3, <1>3, <1>4 DEF DeclaredHere, Owns, Last, First, L
<1>. QED BY <1>5, <1>6

(* A name the list holds once is counted once.                             *)
LEMMA TimesLemma ==
  ASSUME NEW list \in Seq(Names), NEW n,
         \A p, q \in DOMAIN list : list[p] = list[q] => p = q
  PROVE  Cardinality({i \in DOMAIN list : list[i] = n})
           = IF \E p \in DOMAIN list : list[p] = n THEN 1 ELSE 0
<1> DEFINE at == {i \in DOMAIN list : list[i] = n}
<1>1. CASE \E p \in DOMAIN list : list[p] = n
  <2>1. PICK p \in DOMAIN list : list[p] = n BY <1>1
  <2>2. at = {p} BY <2>1
  <2>. QED BY <2>2, <1>1, FS_Singleton
<1>2. CASE ~ \E p \in DOMAIN list : list[p] = n
  <2>1. at = {} BY <1>2
  <2>. QED BY <2>1, <1>2, FS_EmptySet
<1>. QED BY <1>1, <1>2

LEMMA InitLemma ==
  ASSUME Init
  PROVE  IInv
<1>1. TypeOK BY DEF Init, TypeOK, ScopeVars
<1>2. /\ vScopeLastVarList = << [varlist |-> <<>>, last_var_id |-> 0] >>
      /\ Len(vScopeLastVarList) = 1 /\ DOMAIN vScopeLastVarList = {1}
      /\ First(1) = 0 /\ Beyond(1) = 0
      /\ \A n : ~Lists(1, n)
      /\ \A n \in Names : DOMAIN mSymbolTable[n] = {}
  BY DEF Init, First, Beyond, Lists
<1>3. Intervals /\ IdsGrow /\ ListedOnce
  BY <1>2 DEF Intervals, IdsGrow, ListedOnce
<1>4. OwnedIffListed /\ OwnedOnce /\ EachOwned
  BY <1>2 DEF OwnedIffListed, OwnedOnce, EachOwned
<1>. QED BY <1>1, <1>3, <1>4 DEF IInv

-----------------------------------------------------------------------------
(* Scope i lists the names it did, and each of its records is where it was.*)
Stays(i) ==
  \A m \in Names :
    /\ Lists(i, m)' <=> Lists(i, m)
    /\ \A k \in DOMAIN mSymbolTable[m] :
          Owns(i, m, k) => /\ k \in DOMAIN mSymbolTable'[m]
                           /\ mSymbolTable'[m][k] = mSymbolTable[m][k]
                           /\ Owns(i, m, k)'

(* One lemma per action that changes the table: the invariant is kept, and *)
(* what becomes of the scopes.                                             *)

LEMMA AddLemma ==
  ASSUME IInv, NEW n \in Names, NEW d \in Data, AddSymbol(n, d), ~DeclaredHere(n)
  PROVE  /\ IInv'
         /\ L' = L /\ \A i \in 1 .. L - 1 : Stays(i)
         /\ \A m \in Names : Lists(L, m)' <=> Lists(L, m) \/ m = n
         /\ \A m \in Names : \A k \in DOMAIN mSymbolTable[m] :
               Owns(L, m, k) => /\ k \in DOMAIN mSymbolTable'[m]
                                /\ mSymbolTable'[m][k] = mSymbolTable[m][k]
                                /\ Owns(L, m, k)'
         /\ \E k \in DOMAIN mSymbolTable'[n] :
               Owns(L, n, k)' /\ mSymbolTable'[n][k].symbol_data = d
<1> DEFINE new == [symbol_id |-> iLastVarId, symbol_data |-> d]
           M(m) == mSymbolTable[m]
<1>0. TypeOK BY DEF IInv
<1>1. /\ vScopeLastVarList' = [vScopeLastVarList EXCEPT ![L].varlist = Append(@, n)]
      /\ mSymbolTable' = [mSymbolTable EXCEPT ![n] = Append(@, new)]
      /\ iLastVarId' = iLastVarId + 1
      /\ iSymbolId' = iLastVarId
      /\ UNCHANGED <<iCurrentScope, pRecord>>
  BY <1>0, Typing DEF AddSymbol
<1>2. /\ L \in Nat \ {0} /\ Scopes = 1 .. L /\ iLastVarId \in Nat
      /\ vScopeLastVarList[L] \in ScopeVars /\ vScopeLastVarList[L].varlist \in Seq(Names)
      /\ new \in SymbolRecord
  BY <1>0, Typing DEF SymbolRecord
<1>3. TypeOK'
  <2>1. vScopeLastVarList' \in Seq(ScopeVars) /\ Len(vScopeLastVarList') = L
    <3>1. [vScopeLastVarList[L] EXCEPT !.varlist = Append(@, n)] \in ScopeVars
      <4>1. Append(vScopeLastVarList[L].varlist, n) \in Seq(Names) BY <1>2
      <4>. QED BY <4>1, <1>2 DEF ScopeVars
    <3>. QED BY <3>1, <1>1, <1>2, <1>0 DEF TypeOK, L, Scopes
  <2>2. mSymbolTable' \in [Names -> Seq(SymbolRecord)]
    BY <1>0, <1>1, <1>2 DEF TypeOK
  <2>. QED BY <1>0, <1>1, <1>2, <2>1, <2>2 DEF TypeOK, L
<1>4. /\ L' = L /\ Scopes' = Scopes
      /\ \A i \in Scopes : First(i)' = First(i)
      /\ \A i \in Scopes : Beyond(i)' = IF i = L THEN Beyond(i) + 1 ELSE Beyond(i)
      /\ Beyond(L) = iLastVarId
  <2>1. L' = L /\ Scopes' = Scopes BY <1>1, <1>2, <1>0 DEF TypeOK, L, Scopes
  <2>2. \A i \in Scopes : First(i)' = First(i) BY <1>1, <1>2, <1>0 DEF TypeOK, First, L, ScopeVars, Scopes
  <2>3. \A i \in Scopes : i # L => i + 1 \in Scopes BY <1>2
  <2>. QED BY <1>1, <2>1, <2>2, <2>3, <1>2 DEF Beyond, L, First
<1>5. /\ vScopeLastVarList'[L].varlist = Append(vScopeLastVarList[L].varlist, n)
      /\ \A i \in Scopes : i # L => vScopeLastVarList'[i] = vScopeLastVarList[i]
  BY <1>1, <1>2, <1>0 DEF TypeOK, L, Scopes
<1>6. /\ mSymbolTable'[n] = Append(M(n), new)
      /\ \A m \in Names : m # n => mSymbolTable'[m] = M(m)
  BY <1>1, <1>0 DEF TypeOK
<1>a. PICK N \in Nat : N = Len(M(n)) BY <1>0, Typing
<1>7. /\ Len(mSymbolTable'[n]) = N + 1
      /\ DOMAIN mSymbolTable'[n] = 1 .. N + 1
      /\ DOMAIN M(n) = 1 .. N
      /\ \A k \in DOMAIN M(n) : mSymbolTable'[n][k] = M(n)[k]
      /\ mSymbolTable'[n][N + 1].symbol_id = iLastVarId
  <2>1. M(n) \in Seq(SymbolRecord) BY <1>0, Typing
  <2>. QED BY <2>1, <1>6, <1>2, <1>a
<1>8. Intervals'
  <2>1. \A i \in Scopes : First(i) \in Nat /\ Beyond(i) \in Nat BY <1>0, Typing
  <2>2. First(1) = 0 /\ 1 \in Scopes BY <1>2 DEF IInv, Intervals
  <2>3. \A i \in Scopes : First(i) <= Beyond(i) BY DEF IInv, Intervals, Scopes
  <2>4. \A i, j \in Scopes : i < j => Beyond(i) <= First(j) /\ i # L
    BY <1>2 DEF IInv, Intervals, Scopes
  <2>5. First(1)' = 0 BY <2>2, <1>4
  <2>6. \A i \in Scopes : First(i)' <= Beyond(i)' BY <2>1, <2>3, <1>4
  <2>7. \A i, j \in Scopes : i < j => Beyond(i)' <= First(j)' BY <2>1, <2>4, <1>4
  <2>. QED BY <2>5, <2>6, <2>7, <1>4 DEF Intervals, Scopes
<1>9. IdsGrow'
  <2> SUFFICES ASSUME NEW m \in Names, NEW k \in DOMAIN mSymbolTable'[m]
               PROVE  /\ mSymbolTable'[m][k].symbol_id < iLastVarId'
                      /\ \A l \in DOMAIN mSymbolTable'[m] :
                            k < l => mSymbolTable'[m][k].symbol_id < mSymbolTable'[m][l].symbol_id
    BY DEF IdsGrow
  <2>1. CASE m # n
    BY <2>1, <1>0, <1>1, <1>2, <1>6, Typing DEF IInv, IdsGrow
  <2>2. CASE m = n
    <3>1. \A j \in DOMAIN M(n) : M(n)[j].symbol_id \in Nat /\ M(n)[j].symbol_id < iLastVarId
      BY <1>0, Typing DEF IInv, IdsGrow
    <3>2. \A j, l \in DOMAIN M(n) : j < l => M(n)[j].symbol_id < M(n)[l].symbol_id
      BY DEF IInv, IdsGrow
    <3>. QED BY <2>2, <3>1, <3>2, <1>1, <1>2, <1>7
  <2>. QED BY <2>1, <2>2
<1>10. ~Lists(L, n)
  <2>1. DeclaredHere(n) <=> Lists(L, n) BY RefusesLemma DEF RefusesExactly, L
  <2>. QED BY <2>1
<1>11. ListedOnce'
  <2> SUFFICES ASSUME NEW i \in Scopes
               PROVE  \A p, q \in DOMAIN vScopeLastVarList'[i].varlist :
                         vScopeLastVarList'[i].varlist[p] = vScopeLastVarList'[i].varlist[q] => p = q
    BY <1>4 DEF ListedOnce, Scopes
  <2>1. \A p, q \in DOMAIN vScopeLastVarList[i].varlist :
           vScopeLastVarList[i].varlist[p] = vScopeLastVarList[i].varlist[q] => p = q
    BY DEF IInv, ListedOnce, Scopes
  <2>2. CASE i # L BY <2>1, <2>2, <1>5
  <2>3. CASE i = L
    BY <2>1, <2>3, <1>5, <1>2, <1>10 DEF Lists
  <2>. QED BY <2>2, <2>3
<1>12. ASSUME NEW i \in Scopes, NEW m \in Names
       PROVE  Lists(i, m)' <=> Lists(i, m) \/ (i = L /\ m = n)
  <2>1. CASE i # L BY <2>1, <1>5 DEF Lists
  <2>2. CASE i = L
    <3> DEFINE list == vScopeLastVarList[i].varlist
    <3>1. list \in Seq(Names) /\ vScopeLastVarList'[i].varlist = Append(list, n) BY <2>2, <1>2, <1>5
    <3>2. /\ DOMAIN vScopeLastVarList'[i].varlist = 1 .. Len(list) + 1 /\ Len(list) \in Nat
          /\ DOMAIN list = 1 .. Len(list)
          /\ \A p \in 1 .. Len(list) : vScopeLastVarList'[i].varlist[p] = list[p]
          /\ vScopeLastVarList'[i].varlist[Len(list) + 1] = n
      BY <3>1
    <3>3. Lists(i, m)' <=> \E p \in 1 .. Len(list) + 1 : vScopeLastVarList'[i].varlist[p] = m
      BY <3>2 DEF Lists
    <3>4. Lists(i, m) <=> \E p \in 1 .. Len(list) : list[p] = m
      BY <3>2 DEF Lists
    <3>5. 1 .. Len(list) + 1 = 1 .. Len(list) \cup {Len(list) + 1}
      BY <3>2
    <3>. HIDE DEF list
    <3>. QED BY <3>2, <3>3, <3>4, <3>5, <2>2
  <2>. QED BY <2>1, <2>2
<1>13. ASSUME NEW i \in Scopes, NEW m \in Names, NEW k \in DOMAIN M(m)
       PROVE  /\ k \in DOMAIN mSymbolTable'[m] /\ mSymbolTable'[m][k] = M(m)[k]
              /\ Owns(i, m, k)' <=> Owns(i, m, k)
  <2>1. k \in DOMAIN mSymbolTable'[m] /\ mSymbolTable'[m][k] = M(m)[k]
    BY <1>6, <1>7
  <2>2. M(m)[k].symbol_id \in Nat /\ M(m)[k].symbol_id < iLastVarId
    BY <1>0, Typing DEF IInv, IdsGrow
  <2>3. Beyond(i) \in Nat BY <1>0, Typing
  <2>. QED BY <2>1, <2>2, <2>3, <1>2, <1>4 DEF Owns
<1>14. ASSUME NEW i \in Scopes
       PROVE  Owns(i, n, N + 1)' <=> i = L
  <2>1. Beyond(i) \in Nat /\ First(i) \in Nat /\ First(L) \in Nat BY <1>0, Typing, <1>2
  <2>2. First(L) <= Beyond(L) BY <1>2 DEF IInv, Intervals, Scopes
  <2>3. i # L => Beyond(i) <= First(L) BY <1>2 DEF IInv, Intervals, Scopes
  <2>. QED BY <2>1, <2>2, <2>3, <1>2, <1>4, <1>7 DEF Owns
<1>15. OwnedIffListed'
  <2> SUFFICES ASSUME NEW i \in Scopes, NEW m \in Names
               PROVE  Lists(i, m)' <=> \E k \in DOMAIN mSymbolTable'[m] : Owns(i, m, k)'
    BY <1>4 DEF OwnedIffListed, Scopes
  <2>1. Lists(i, m) <=> \E k \in DOMAIN M(m) : Owns(i, m, k) BY DEF IInv, OwnedIffListed, Scopes
  <2>2. CASE m # n BY <2>1, <2>2, <1>6, <1>12, <1>13
  <2>3. CASE m = n BY <2>1, <2>3, <1>7, <1>12, <1>13, <1>14
  <2>. QED BY <2>2, <2>3
<1>16. OwnedOnce'
  <2> SUFFICES ASSUME NEW i \in Scopes, NEW m \in Names,
                      NEW k \in DOMAIN mSymbolTable'[m], NEW l \in DOMAIN mSymbolTable'[m],
                      Owns(i, m, k)', Owns(i, m, l)'
               PROVE  k = l
    BY <1>4 DEF OwnedOnce, Scopes
  <2>1. \A j, h \in DOMAIN M(m) : Owns(i, m, j) /\ Owns(i, m, h) => j = h BY DEF IInv, OwnedOnce, Scopes
  <2>2. CASE m # n BY <2>1, <2>2, <1>6, <1>13
  <2>3. CASE m = n
    <3>1. i = L => \A j \in DOMAIN M(n) : ~Owns(i, n, j)
      BY <1>10 DEF IInv, OwnedIffListed, Scopes
    <3>. QED BY <2>1, <2>3, <3>1, <1>7, <1>13, <1>14
  <2>. QED BY <2>2, <2>3
<1>17. EachOwned'
  <2> SUFFICES ASSUME NEW m \in Names, NEW k \in DOMAIN mSymbolTable'[m]
               PROVE  \E i \in Scopes : Owns(i, m, k)'
    BY <1>4 DEF EachOwned, Scopes
  <2>1. \A j \in DOMAIN M(m) : \E i \in Scopes : Owns(i, m, j) BY DEF IInv, EachOwned, Scopes
  <2>2. CASE k \in DOMAIN M(m) BY <2>1, <2>2, <1>13
  <2>3. CASE m = n /\ k = N + 1 BY <2>3, <1>2, <1>14
  <2>. QED BY <2>2, <2>3, <1>6, <1>7
<1>18. IInv'
  BY <1>3, <1>8, <1>9, <1>11, <1>15, <1>16, <1>17 DEF IInv
<1>19. L \in Scopes /\ \A i \in 1 .. L - 1 : i \in Scopes /\ i # L
  BY <1>2
<1>20. \A i \in 1 .. L - 1 : Stays(i)
  BY <1>12, <1>13, <1>19 DEF Stays
<1>21. \A m \in Names : Lists(L, m)' <=> Lists(L, m) \/ m = n
  BY <1>4, <1>12, <1>19
<1>22. ASSUME NEW m \in Names, NEW k \in DOMAIN M(m), Owns(L, m, k)
       PROVE  /\ k \in DOMAIN mSymbolTable'[m] /\ mSymbolTable'[m][k] = M(m)[k]
              /\ Owns(L, m, k)'
  BY <1>4, <1>13, <1>19, <1>22
<1>23. Owns(L, n, N + 1)' /\ N + 1 \in DOMAIN mSymbolTable'[n] /\ mSymbolTable'[n][N + 1].symbol_data = d
  <2>1. mSymbolTable'[n][N + 1] = new
    <3>1. M(n) \in Seq(SymbolRecord) BY <1>0, Typing
    <3>. QED BY <3>1, <1>6, <1>2, <1>a
  <2>. QED BY <2>1, <1>4, <1>7, <1>14, <1>19
<1>. QED BY <1>4, <1>18, <1>20, <1>21, <1>22, <1>23

LEMMA MarkLemma ==
  ASSUME IInv, MarkScope
  PROVE  /\ IInv'
         /\ L' = L + 1 /\ \A i \in Scopes : Stays(i)
         /\ \A m \in Names : ~Lists(L, m)'
<1> DEFINE new == [varlist |-> <<>>, last_var_id |-> iLastVarId]
<1>0. TypeOK BY DEF IInv
<1>a. PICK N \in Nat \ {0} : N = L BY <1>0, Typing
<1>1. /\ vScopeLastVarList' = Append(vScopeLastVarList, new)
      /\ iCurrentScope' = iCurrentScope + 1
      /\ UNCHANGED <<iLastVarId, mSymbolTable, iSymbolId, pRecord>>
  BY DEF MarkScope
<1>2. /\ vScopeLastVarList \in Seq(ScopeVars) /\ new \in ScopeVars
      /\ iLastVarId \in Nat /\ Scopes = 1 .. N
      /\ \A i \in Scopes : First(i) \in Nat /\ Beyond(i) \in Nat
  BY <1>0, <1>a, Typing DEF TypeOK, ScopeVars
<1>3. /\ L' = N + 1 /\ Scopes' = 1 .. N + 1
      /\ \A i \in 1 .. N : vScopeLastVarList'[i] = vScopeLastVarList[i]
      /\ vScopeLastVarList'[N + 1] = new
  BY <1>1, <1>2, <1>a DEF L, Scopes
<1>4. TypeOK'
  BY <1>0, <1>1, <1>2 DEF TypeOK
<1>5. /\ \A i \in 1 .. N : First(i)' = First(i) /\ Beyond(i)' = Beyond(i)
      /\ First(N + 1)' = iLastVarId /\ Beyond(N + 1)' = iLastVarId
      /\ Beyond(N) = iLastVarId
  <2>1. /\ \A i \in 1 .. N : First(i)' = First(i)
        /\ First(N + 1)' = iLastVarId
    BY <1>3 DEF First
  <2>2. Beyond(N + 1)' = iLastVarId /\ Beyond(N) = iLastVarId
    BY <1>1, <1>3, <1>a DEF Beyond, L
  <2>3. ASSUME NEW i \in 1 .. N PROVE Beyond(i)' = Beyond(i)
    <3>1. CASE i = N BY <3>1, <2>1, <2>2, <1>3, <1>a DEF Beyond, L, First
    <3>2. CASE i # N
      <4>1. i + 1 \in 1 .. N BY <3>2
      <4>. QED BY <4>1, <3>2, <2>1, <1>3, <1>a DEF Beyond, L, First
    <3>. QED BY <3>1, <3>2
  <2>. QED BY <2>1, <2>2, <2>3
<1>6. /\ \A i \in 1 .. N, m \in Names : Lists(i, m)' <=> Lists(i, m)
      /\ \A m \in Names : ~Lists(N + 1, m)'
  BY <1>3 DEF Lists
<1>7. \A i \in 1 .. N, m \in Names : \A k \in DOMAIN mSymbolTable[m] :
         Owns(i, m, k)' <=> Owns(i, m, k)
  BY <1>1, <1>5 DEF Owns
<1>8. \A m \in Names : \A k \in DOMAIN mSymbolTable[m] : ~Owns(N + 1, m, k)'
  BY <1>0, <1>1, <1>5, Typing DEF Owns
<1>9. Intervals'
  <2>1. First(1) = 0 /\ \A i \in 1 .. N : First(i) <= Beyond(i)
    BY <1>2 DEF IInv, Intervals, Scopes
  <2>2. \A i, j \in 1 .. N : i < j => Beyond(i) <= First(j)
    BY <1>2 DEF IInv, Intervals, Scopes
  <2>3. \A i \in 1 .. N : Beyond(i) <= iLastVarId
    <3> SUFFICES ASSUME NEW i \in 1 .. N PROVE Beyond(i) <= iLastVarId OBVIOUS
    <3>1. i # N => Beyond(i) <= First(N) BY <2>2
    <3>2. First(N) <= iLastVarId BY <2>1, <1>5
    <3>3. N \in 1 .. N BY <1>a
    <3>. QED BY <3>1, <3>2, <3>3, <1>2, <1>5
  <2>4. First(1)' = 0 BY <2>1, <1>5
  <2>5. \A i \in 1 .. N + 1 : First(i)' <= Beyond(i)' BY <2>1, <1>2, <1>5
  <2>6. ASSUME NEW i \in 1 .. N + 1, NEW j \in 1 .. N + 1, i < j PROVE Beyond(i)' <= First(j)'
    <3>1. i \in 1 .. N BY <2>6
    <3>2. CASE j = N + 1 BY <3>1, <3>2, <2>3, <1>5
    <3>3. CASE j # N + 1
      <4>1. j \in 1 .. N BY <3>3
      <4>. QED BY <3>1, <4>1, <2>2, <2>6, <1>5
    <3>. QED BY <3>2, <3>3
  <2>. QED BY <2>4, <2>5, <2>6, <1>3 DEF Intervals, Scopes
<1>10. IdsGrow' BY <1>1 DEF IInv, IdsGrow
<1>11. ListedOnce'
  BY <1>2, <1>3 DEF IInv, ListedOnce, Scopes
<1>12. OwnedIffListed'
  <2> SUFFICES ASSUME NEW i \in 1 .. N + 1, NEW m \in Names
               PROVE  Lists(i, m)' <=> \E k \in DOMAIN mSymbolTable[m] : Owns(i, m, k)'
    BY <1>1, <1>3 DEF OwnedIffListed, Scopes
  <2>1. CASE i \in 1 .. N BY <2>1, <1>2, <1>6, <1>7 DEF IInv, OwnedIffListed, Scopes
  <2>2. CASE i = N + 1 BY <2>2, <1>6, <1>8
  <2>. QED BY <2>1, <2>2
<1>13. OwnedOnce'
  <2> SUFFICES ASSUME NEW i \in 1 .. N + 1, NEW m \in Names,
                      NEW k \in DOMAIN mSymbolTable[m], NEW l \in DOMAIN mSymbolTable[m],
                      Owns(i, m, k)', Owns(i, m, l)'
               PROVE  k = l
    BY <1>1, <1>3 DEF OwnedOnce, Scopes
  <2>1. CASE i \in 1 .. N BY <2>1, <1>2, <1>7 DEF IInv, OwnedOnce, Scopes
  <2>2. CASE i = N + 1 BY <2>2, <1>8
  <2>. QED BY <2>1, <2>2
<1>14. EachOwned'
  BY <1>1, <1>2, <1>3, <1>7 DEF IInv, EachOwned, Scopes
<1>15. IInv' BY <1>4, <1>9, <1>10, <1>11, <1>12, <1>13, <1>14 DEF IInv
<1>16. \A i \in Scopes : Stays(i)
  BY <1>1, <1>2, <1>6, <1>7 DEF Stays
<1>17. \A m \in Names : ~Lists(L, m)'
  BY <1>3, <1>6
<1>. QED BY <1>3, <1>a, <1>15, <1>16, <1>17

(* A prefix of a sequence.                                                 *)
LEMMA PrefixLemma ==
  ASSUME NEW S, NEW s \in Seq(S), NEW n \in 0 .. Len(s)
  PROVE  /\ SubSeq(s, 1, n) \in Seq(S)
         /\ DOMAIN SubSeq(s, 1, n) = 1 .. n
         /\ \A k \in 1 .. n : SubSeq(s, 1, n)[k] = s[k]
OBVIOUS

LEMMA UnmarkLemma ==
  ASSUME IInv, UnmarkScope
  PROVE  IInv' /\ L > 1 /\ L' = L - 1 /\ \A i \in 1 .. L - 1 : Stays(i)
<1>0. TypeOK BY DEF IInv
<1>a. PICK N \in Nat \ {0} : N = L BY <1>0, Typing
<1> DEFINE list == vScopeLastVarList[N].varlist
           times(m) == IF Lists(N, m) THEN 1 ELSE 0
<1>1. /\ N > 1
      /\ vScopeLastVarList' = SubSeq(vScopeLastVarList, 1, N - 1)
      /\ iLastVarId' = First(N)
      /\ mSymbolTable' = [m \in Names |-> Without(mSymbolTable[m], list, m)]
      /\ iCurrentScope' = iCurrentScope - 1
      /\ UNCHANGED <<iSymbolId, pRecord>>
  BY <1>a DEF UnmarkScope, Last, First, L
<1>2. /\ vScopeLastVarList \in Seq(ScopeVars)
      /\ iLastVarId \in Nat /\ Scopes = 1 .. N /\ N \in Scopes
      /\ \A i \in Scopes : First(i) \in Nat /\ Beyond(i) \in Nat
      /\ list \in Seq(Names)
      /\ Beyond(N) = iLastVarId
      /\ First(N) <= Beyond(N)
      /\ \A i \in 1 .. N - 1 : Beyond(i) <= First(N)
  <2>1. Scopes = 1 .. N /\ N \in Scopes BY <1>0, <1>a, Typing
  <2>2. Beyond(N) = iLastVarId BY <1>a DEF Beyond, L
  <2>3. First(N) <= Beyond(N) /\ \A i \in 1 .. N - 1 : Beyond(i) <= First(N)
    BY <2>1 DEF IInv, Intervals, Scopes
  <2>. QED BY <1>0, <2>1, <2>2, <2>3, Typing DEF TypeOK
<1>3. /\ L' = N - 1 /\ Scopes' = 1 .. N - 1
      /\ \A i \in 1 .. N - 1 : vScopeLastVarList'[i] = vScopeLastVarList[i]
  BY <1>1, <1>2, <1>a DEF L, Scopes
<1>4. \A i \in 1 .. N - 1 : First(i)' = First(i) /\ Beyond(i)' = Beyond(i)
  <2>1. \A i \in 1 .. N - 1 : First(i)' = First(i) BY <1>3 DEF First
  <2>2. ASSUME NEW i \in 1 .. N - 1 PROVE Beyond(i)' = Beyond(i)
    <3>1. CASE i = N - 1 BY <3>1, <1>1, <1>3, <1>a DEF Beyond, L, First
    <3>2. CASE i # N - 1
      <4>1. i + 1 \in 1 .. N - 1 BY <3>2
      <4>. QED BY <4>1, <3>2, <2>1, <1>3, <1>a DEF Beyond, L, First
    <3>. QED BY <3>1, <3>2
  <2>. QED BY <2>1, <2>2
<1>5. ASSUME NEW m \in Names
      PROVE  mSymbolTable'[m] = SubSeq(mSymbolTable[m], 1, Len(mSymbolTable[m]) - times(m))
  <2>1. \A p, q \in DOMAIN list : list[p] = list[q] => p = q
    BY <1>2 DEF IInv, ListedOnce, Scopes
  <2>2. Cardinality({i \in DOMAIN list : list[i] = m}) = times(m)
    BY <2>1, <1>2, TimesLemma DEF Lists
  <2>. QED BY <2>2, <1>1 DEF Without
<1>6. ASSUME NEW m \in Names
      PROVE  /\ DOMAIN mSymbolTable'[m] = {k \in DOMAIN mSymbolTable[m] : ~Owns(N, m, k)}
             /\ \A k \in DOMAIN mSymbolTable'[m] : mSymbolTable'[m][k] = mSymbolTable[m][k]
             /\ mSymbolTable'[m] \in Seq(SymbolRecord)
  <2> DEFINE s == mSymbolTable[m]
  <2>1. /\ s \in Seq(SymbolRecord) /\ Len(s) \in Nat /\ DOMAIN s = 1 .. Len(s)
        /\ \A k \in DOMAIN s : s[k].symbol_id \in Nat
    BY <1>0, Typing
  <2>2. Lists(N, m) <=> \E k \in DOMAIN s : Owns(N, m, k)
    BY <1>2 DEF IInv, OwnedIffListed, Scopes
  <2>3. \A k, l \in DOMAIN s : Owns(N, m, k) /\ Owns(N, m, l) => k = l
    BY <1>2 DEF IInv, OwnedOnce, Scopes
  <2>4. ASSUME NEW k \in DOMAIN s, Owns(N, m, k) PROVE k = Len(s)
    <3>1. Len(s) \in DOMAIN s BY <2>1
    <3>2. k < Len(s) => s[k].symbol_id < s[Len(s)].symbol_id BY <3>1 DEF IInv, IdsGrow
    <3>3. s[Len(s)].symbol_id < iLastVarId BY <3>1 DEF IInv, IdsGrow
    <3>4. k < Len(s) => Owns(N, m, Len(s))
      <4> SUFFICES ASSUME k < Len(s) PROVE Owns(N, m, Len(s)) OBVIOUS
      <4>1. First(N) <= s[k].symbol_id BY <2>4 DEF Owns
      <4>2. First(N) \in Nat /\ s[k].symbol_id \in Nat /\ s[Len(s)].symbol_id \in Nat
        BY <3>1, <2>1, <1>2
      <4>3. First(N) <= s[Len(s)].symbol_id BY <4>1, <4>2, <3>2
      <4>4. s[Len(s)].symbol_id < Beyond(N) BY <3>3, <1>2
      <4>. QED BY <4>3, <4>4 DEF Owns
    <3>. QED BY <3>1, <3>4, <2>1, <2>3, <2>4
  <2>5. CASE Lists(N, m)
    <3>1. Len(s) \in DOMAIN s /\ Owns(N, m, Len(s)) BY <2>5, <2>2, <2>4
    <3>2. mSymbolTable'[m] = SubSeq(s, 1, Len(s) - 1) BY <1>5, <2>5
    <3>3. {k \in DOMAIN s : ~Owns(N, m, k)} = 1 .. Len(s) - 1 BY <3>1, <2>1, <2>4
    <3>4. Len(s) - 1 \in 0 .. Len(s) BY <3>1, <2>1
    <3>. QED BY <3>2, <3>3, <3>4, <2>1, PrefixLemma
  <2>6. CASE ~Lists(N, m)
    <3>1. mSymbolTable'[m] = SubSeq(s, 1, Len(s) - 0) BY <1>5, <2>6
    <3>2. {k \in DOMAIN s : ~Owns(N, m, k)} = 1 .. Len(s) BY <2>1, <2>2, <2>6
    <3>3. Len(s) - 0 = Len(s) /\ Len(s) \in 0 .. Len(s) BY <2>1
    <3>. QED BY <3>1, <3>2, <3>3, <2>1, PrefixLemma
  <2>. QED BY <2>5, <2>6
<1>7. TypeOK'
  <2>1. vScopeLastVarList' \in Seq(ScopeVars) /\ Len(vScopeLastVarList') = N - 1
    BY <1>1, <1>2, <1>a DEF L
  <2>2. mSymbolTable' \in [Names -> Seq(SymbolRecord)] BY <1>1, <1>6
  <2>3. iCurrentScope = N - 1 BY <1>0, <1>a DEF TypeOK, L
  <2>4. vScopeLastVarList' # <<>>
    <3>1. N - 1 # 0 BY <1>1
    <3>. QED BY <3>1, <2>1, EmptySeq
  <2>5. iLastVarId' \in Nat BY <1>1, <1>2
  <2>6. iCurrentScope' = Len(vScopeLastVarList') - 1 BY <1>1, <2>1, <2>3
  <2>7. iSymbolId' \in Nat \cup {-1} /\ pRecord' \in Data \cup {Null} BY <1>0, <1>1 DEF TypeOK
  <2>. QED BY <2>1, <2>2, <2>4, <2>5, <2>6, <2>7 DEF TypeOK
<1>8. ASSUME NEW m \in Names, NEW k \in DOMAIN mSymbolTable'[m]
      PROVE  /\ \A i \in 1 .. N - 1 : Owns(i, m, k)' <=> Owns(i, m, k)
             /\ \E i \in 1 .. N - 1 : Owns(i, m, k)
             /\ mSymbolTable'[m][k].symbol_id < iLastVarId'
  <2>1. k \in DOMAIN mSymbolTable[m] /\ ~Owns(N, m, k) /\ mSymbolTable'[m][k] = mSymbolTable[m][k]
    BY <1>6
  <2>2. \A i \in 1 .. N - 1 : Owns(i, m, k)' <=> Owns(i, m, k)
    BY <2>1, <1>4 DEF Owns
  <2>3. PICK i \in 1 .. N - 1 : Owns(i, m, k)
    BY <2>1, <1>2 DEF IInv, EachOwned, Scopes
  <2>4. mSymbolTable[m][k].symbol_id \in Nat BY <2>1, <1>0, Typing
  <2>5. mSymbolTable'[m][k].symbol_id < iLastVarId'
    <3>1. mSymbolTable[m][k].symbol_id < Beyond(i) BY <2>3 DEF Owns
    <3>2. Beyond(i) <= First(N) /\ First(N) \in Nat /\ Beyond(i) \in Nat BY <1>2
    <3>3. mSymbolTable[m][k].symbol_id < First(N) BY <3>1, <3>2, <2>4
    <3>. QED BY <3>3, <2>1, <1>1
  <2>. QED BY <2>2, <2>3, <2>5
<1>9. ASSUME NEW m \in Names, NEW i \in 1 .. N - 1, NEW k \in DOMAIN mSymbolTable[m], Owns(i, m, k)
      PROVE  k \in DOMAIN mSymbolTable'[m]
  <2>1. mSymbolTable[m][k].symbol_id \in Nat BY <1>0, Typing
  <2>2. ~Owns(N, m, k) BY <2>1, <1>2, <1>9 DEF Owns
  <2>. QED BY <2>2, <1>6
<1>10. Intervals'
  BY <1>1, <1>2, <1>3, <1>4 DEF IInv, Intervals, Scopes
<1>11. IdsGrow'
  <2> SUFFICES ASSUME NEW m \in Names, NEW k \in DOMAIN mSymbolTable'[m],
                      NEW l \in DOMAIN mSymbolTable'[m], k < l
               PROVE  mSymbolTable'[m][k].symbol_id < mSymbolTable'[m][l].symbol_id
    BY <1>8 DEF IdsGrow
  <2>. QED BY <1>6 DEF IInv, IdsGrow
<1>12. ListedOnce'
  BY <1>2, <1>3 DEF IInv, ListedOnce, Scopes
<1>13. \A i \in 1 .. N - 1, m \in Names : Lists(i, m)' <=> Lists(i, m)
  BY <1>3 DEF Lists
<1>14. OwnedIffListed'
  <2> SUFFICES ASSUME NEW i \in 1 .. N - 1, NEW m \in Names
               PROVE  Lists(i, m)' <=> \E k \in DOMAIN mSymbolTable'[m] : Owns(i, m, k)'
    BY <1>3 DEF OwnedIffListed, Scopes
  <2>1. Lists(i, m) <=> \E k \in DOMAIN mSymbolTable[m] : Owns(i, m, k)
    <3>1. i \in DOMAIN vScopeLastVarList BY <1>2 DEF Scopes
    <3>. QED BY <3>1 DEF IInv, OwnedIffListed
  <2>. QED BY <2>1, <1>6, <1>8, <1>9, <1>13
<1>15. OwnedOnce'
  <2> SUFFICES ASSUME NEW i \in 1 .. N - 1, NEW m \in Names,
                      NEW k \in DOMAIN mSymbolTable'[m], NEW l \in DOMAIN mSymbolTable'[m],
                      Owns(i, m, k)', Owns(i, m, l)'
               PROVE  k = l
    BY <1>3 DEF OwnedOnce, Scopes
  <2>1. i \in DOMAIN vScopeLastVarList BY <1>2 DEF Scopes
  <2>2. k \in DOMAIN mSymbolTable[m] /\ l \in DOMAIN mSymbolTable[m] BY <1>6
  <2>3. Owns(i, m, k) /\ Owns(i, m, l) BY <1>8
  <2>. QED BY <2>1, <2>2, <2>3 DEF IInv, OwnedOnce
<1>16. EachOwned'
  BY <1>3, <1>8 DEF EachOwned, Scopes
<1>17. IInv' BY <1>7, <1>10, <1>11, <1>12, <1>14, <1>15, <1>16 DEF IInv
<1>18. ASSUME NEW i \in 1 .. N - 1
       PROVE  Stays(i)
  <2>1. ASSUME NEW m \in Names, NEW k \in DOMAIN mSymbolTable[m], Owns(i, m, k)
        PROVE  /\ k \in DOMAIN mSymbolTable'[m] /\ mSymbolTable'[m][k] = mSymbolTable[m][k]
               /\ Owns(i, m, k)'
    <3>1. k \in DOMAIN mSymbolTable'[m] BY <2>1, <1>9
    <3>. QED BY <2>1, <3>1, <1>6, <1>8
  <2>. QED BY <2>1, <1>13 DEF Stays
<1>. QED BY <1>1, <1>3, <1>17, <1>18, <1>a

(* A step that leaves the table alone leaves the invariant alone.          *)
LEMMA SameTable ==
  ASSUME IInv, UNCHANGED table, TypeOK'
  PROVE  IInv'
BY DEF IInv, table, Intervals, IdsGrow, ListedOnce, OwnedIffListed, OwnedOnce, EachOwned,
       First, Beyond, Lists, Owns

-----------------------------------------------------------------------------
(* The table always has the shape the inductive invariant describes: the   *)
(* scopes cut the ids in use into intervals, and every name's vector has   *)
(* exactly one record for every open scope that lists the name.            *)
THEOREM SymbolTableInvariant == Spec => []IInv
<1>1. Init => IInv BY InitLemma
<1>2. IInv /\ [Next]_vars => IInv'
  <2> SUFFICES ASSUME IInv, [Next]_vars PROVE IInv' OBVIOUS
  <2>0. TypeOK BY DEF IInv
  <2>1. ASSUME NEW n \in Names, NEW d \in Data, AddSymbol(n, d) PROVE IInv'
    <3>1. CASE ~DeclaredHere(n) BY <2>1, <3>1, AddLemma
    <3>2. CASE DeclaredHere(n)
      <4>1. UNCHANGED table /\ iSymbolId' = -1 /\ UNCHANGED pRecord BY <2>1, <3>2 DEF AddSymbol
      <4>2. TypeOK' BY <4>1, <2>0 DEF TypeOK, table
      <4>. QED BY <4>1, <4>2, SameTable
    <3>. QED BY <3>1, <3>2
  <2>2. ASSUME NEW n \in Names, GetSymbol(n) PROVE IInv'
    <3>1. pRecord' \in Data \cup {Null}
      <4>1. mSymbolTable[n] \in Seq(SymbolRecord) BY <2>0 DEF TypeOK
      <4>2. mSymbolTable[n] # <<>> => Last(mSymbolTable[n]) \in SymbolRecord BY <4>1 DEF Last
      <4>. QED BY <4>2, <2>2 DEF GetSymbol, SymbolRecord
    <3>2. UNCHANGED <<table, iSymbolId>> BY <2>2 DEF GetSymbol
    <3>3. TypeOK' BY <3>1, <3>2, <2>0 DEF TypeOK, table
    <3>. QED BY <3>2, <3>3, SameTable
  <2>3. CASE MarkScope BY <2>3, MarkLemma
  <2>4. CASE UnmarkScope BY <2>4, UnmarkLemma
  <2>5. CASE UNCHANGED vars
    <3>1. UNCHANGED table /\ TypeOK' BY <2>5, <2>0 DEF vars, table, TypeOK
    <3>. QED BY <3>1, SameTable
  <2>. QED BY <2>1, <2>2, <2>3, <2>4, <2>5 DEF Next
<1>. QED BY <1>1, <1>2, PTL DEF Spec

(* AddSymbol's comparison of ids (line 189) decides rightly whether the    *)
(* current scope has the name, after any sequence of scopes entered and    *)
(* left.                                                                   *)
THEOREM SymbolTableRefusesExactly == Spec => []RefusesExactly
BY SymbolTableInvariant, RefusesLemma, PTL

(* A name has a record exactly while an open scope lists it: leaving an    *)
(* inner scope never takes a record of an outer one.                       *)
THEOREM SymbolTableNothingLost == Spec => []NothingLost
<1>1. IInv => NothingLost
  <2> SUFFICES ASSUME IInv, NEW n \in Names
               PROVE  mSymbolTable[n] # <<>> <=> \E i \in Scopes : Lists(i, n)
    BY DEF NothingLost, Scopes
  <2>1. mSymbolTable[n] \in Seq(SymbolRecord) BY Typing DEF IInv
  <2>2. \A i \in Scopes : Lists(i, n) <=> \E k \in DOMAIN mSymbolTable[n] : Owns(i, n, k)
    BY DEF IInv, OwnedIffListed, Scopes
  <2>3. \A k \in DOMAIN mSymbolTable[n] : \E i \in Scopes : Owns(i, n, k)
    BY DEF IInv, EachOwned, Scopes
  <2>4. mSymbolTable[n] # <<>> <=> \E k \in DOMAIN mSymbolTable[n] : TRUE
    <3>1. DOMAIN mSymbolTable[n] = 1 .. Len(mSymbolTable[n]) /\ Len(mSymbolTable[n]) \in Nat
      BY <2>1
    <3>2. mSymbolTable[n] = <<>> <=> Len(mSymbolTable[n]) = 0 BY <2>1, EmptySeq
    <3>3. Len(mSymbolTable[n]) # 0 => 1 \in DOMAIN mSymbolTable[n] BY <3>1
    <3>. QED BY <3>1, <3>2, <3>3
  <2>. QED BY <2>2, <2>3, <2>4
<1>. QED BY <1>1, SymbolTableInvariant, PTL

-----------------------------------------------------------------------------
(* The scopes the vectors stand for.                                       *)

ScopesAre ==
  \A i \in Scopes :
    /\ Scope(i) = [n \in DOMAIN Scope(i) |-> Scope(i)[n]]
    /\ DOMAIN Scope(i) = {n \in Names : Lists(i, n)}
    /\ \A n \in DOMAIN Scope(i) : Scope(i)[n] \in Data
    /\ \A n \in DOMAIN Scope(i) : \E k \in DOMAIN mSymbolTable[n] : Owns(i, n, k)
    /\ \A n \in DOMAIN Scope(i) : \A k \in DOMAIN mSymbolTable[n] :
         Owns(i, n, k) => Scope(i)[n] = mSymbolTable[n][k].symbol_data

(* A scope binds the names it lists, each to the data of the one record it *)
(* owns.                                                                   *)
LEMMA ScopeLemma == IInv => ScopesAre
<1> SUFFICES ASSUME IInv, NEW i \in Scopes
             PROVE  /\ Scope(i) = [n \in DOMAIN Scope(i) |-> Scope(i)[n]]
                    /\ DOMAIN Scope(i) = {n \in Names : Lists(i, n)}
                    /\ \A n \in DOMAIN Scope(i) : Scope(i)[n] \in Data
                    /\ \A n \in DOMAIN Scope(i) : \E k \in DOMAIN mSymbolTable[n] : Owns(i, n, k)
                    /\ \A n \in DOMAIN Scope(i) : \A k \in DOMAIN mSymbolTable[n] :
                         Owns(i, n, k) => Scope(i)[n] = mSymbolTable[n][k].symbol_data
  BY DEF ScopesAre
<1> DEFINE own(n) == {k \in DOMAIN mSymbolTable[n] : Owns(i, n, k)}
           D == {m \in Names : own(m) # {}}
           data(n) == mSymbolTable[n][CHOOSE k \in own(n) : TRUE].symbol_data
<1>1. Scope(i) = [n \in D |-> data(n)] BY DEF Scope
<1>2. D = {n \in Names : Lists(i, n)} BY DEF IInv, OwnedIffListed, Scopes
<1>3. ASSUME NEW n \in D, NEW k \in own(n)
      PROVE  data(n) = mSymbolTable[n][k].symbol_data
  <2>1. (CHOOSE j \in own(n) : TRUE) \in own(n) BY <1>3
  <2>2. \A j \in own(n) : j = k BY <1>3 DEF IInv, OwnedOnce, Scopes
  <2>. QED BY <2>1, <2>2
<1>4. ASSUME NEW n \in D
      PROVE  data(n) \in Data /\ \E k \in DOMAIN mSymbolTable[n] : Owns(i, n, k)
  <2>1. PICK k \in own(n) : TRUE BY <1>4
  <2>2. mSymbolTable[n] \in Seq(SymbolRecord) BY Typing DEF IInv
  <2>3. mSymbolTable[n][k] \in SymbolRecord BY <2>1, <2>2
  <2>4. data(n) = mSymbolTable[n][k].symbol_data BY <1>3, <2>1
  <2> HIDE DEF data
  <2>. QED BY <2>1, <2>3, <2>4 DEF SymbolRecord
<1> HIDE DEF D, data
<1>5. DOMAIN Scope(i) = D /\ \A n \in D : Scope(i)[n] = data(n) BY <1>1
<1>6. \A n \in D : n \in Names BY <1>2
<1>7. Scope(i) = [n \in DOMAIN Scope(i) |-> Scope(i)[n]] BY <1>1, <1>5
<1>. QED BY <1>2, <1>3, <1>4, <1>5, <1>6, <1>7

LEMMA ScopeValue ==
  ASSUME ScopesAre, NEW i \in Scopes, NEW n \in DOMAIN Scope(i),
         NEW k \in DOMAIN mSymbolTable[n], Owns(i, n, k)
  PROVE  Scope(i)[n] = mSymbolTable[n][k].symbol_data
BY DEF ScopesAre

(* A scope that stays, with the same records, is the same partial function.*)
LEMMA SameScope ==
  ASSUME ScopesAre, ScopesAre', NEW i \in Scopes, i \in Scopes', Stays(i)
  PROVE  Scope(i)' = Scope(i)
<1>1. DOMAIN Scope(i)' = DOMAIN Scope(i) BY DEF ScopesAre, Stays
<1>2. ASSUME NEW n \in DOMAIN Scope(i)
      PROVE  Scope(i)'[n] = Scope(i)[n]
  <2>1. n \in Names BY DEF ScopesAre
  <2>2. PICK k \in DOMAIN mSymbolTable[n] : Owns(i, n, k) BY DEF ScopesAre
  <2>3. k \in DOMAIN mSymbolTable'[n] /\ mSymbolTable'[n][k] = mSymbolTable[n][k] /\ Owns(i, n, k)'
    BY <2>1, <2>2 DEF Stays
  <2>4. Scope(i)[n] = mSymbolTable[n][k].symbol_data BY <2>2 DEF ScopesAre
  <2>5. Scope(i)'[n] = mSymbolTable'[n][k].symbol_data BY <1>1, <2>3 DEF ScopesAre
  <2>. QED BY <2>3, <2>4, <2>5
<1>3. Scope(i) = [n \in DOMAIN Scope(i) |-> Scope(i)[n]]
      /\ Scope(i)' = [n \in DOMAIN Scope(i)' |-> Scope(i)'[n]]
  BY DEF ScopesAre
<1>. QED BY <1>1, <1>2, <1>3

AbstractScopes == [i \in Scopes |-> Scope(i)]

Bindings == UNION {[D -> Data] : D \in SUBSET Names}

(* They are a stack of partial functions from names to data. *)
LEMMA AbstractLemma ==
  IInv => /\ AbstractScopes \in Seq(Bindings) /\ Len(AbstractScopes) = L
          /\ \A i \in Scopes : AbstractScopes[i] = Scope(i)
<1> SUFFICES ASSUME IInv
             PROVE  /\ AbstractScopes \in Seq(Bindings) /\ Len(AbstractScopes) = L
                    /\ \A i \in Scopes : AbstractScopes[i] = Scope(i)
  OBVIOUS
<1>1. ScopesAre BY ScopeLemma
<1>2. L \in Nat /\ Scopes = 1 .. L BY Typing DEF IInv
<1>3. ASSUME NEW i \in Scopes
      PROVE  Scope(i) \in Bindings
  <2>1. DOMAIN Scope(i) \in SUBSET Names BY <1>1 DEF ScopesAre
  <2>2. Scope(i) \in [DOMAIN Scope(i) -> Data] BY <1>1 DEF ScopesAre
  <2>. QED BY <2>1, <2>2 DEF Bindings
<1>4. AbstractScopes = [i \in 1 .. L |-> Scope(i)] BY <1>2 DEF AbstractScopes
<1>5. AbstractScopes \in [1 .. L -> Bindings] BY <1>2, <1>3, <1>4
<1>6. AbstractScopes \in Seq(Bindings) /\ Len(AbstractScopes) = L
  <2> HIDE DEF L
  <2>. QED BY <1>2, <1>5
<1>. QED BY <1>2, <1>4, <1>6

(* Each operation of the table is the one of the stack of scopes.          *)
LEMMA BindLemma ==
  ASSUME IInv, IInv', NEW n \in Names, NEW d \in Data, AddSymbol(n, d),
         ScopesAre, ScopesAre',
         AbstractScopes \in Seq(Bindings), Len(AbstractScopes) = L,
         \A i \in Scopes : AbstractScopes[i] = Scope(i),
         AbstractScopes' \in Seq(Bindings), Len(AbstractScopes') = L',
         \A i \in Scopes' : AbstractScopes'[i] = Scope(i)'
  PROVE  Abs!Bind(n, d)
<1> DEFINE A == [i \in DOMAIN vScopeLastVarList |-> Scope(i)]
           B == [i \in DOMAIN vScopeLastVarList |-> Scope(i)]'
           X == A[Len(A)]
           Y == [m \in DOMAIN X \cup {n} |-> IF m = n THEN d ELSE X[m]]
<1>1. L \in Nat \ {0} /\ Scopes = 1 .. L /\ L \in Scopes /\ L' \in Nat /\ Scopes' = 1 .. L'
      /\ iLastVarId \in Nat
  <2>1. TypeOK /\ TypeOK' BY DEF IInv
  <2>2. L' \in Nat /\ Scopes' = 1 .. L' BY <2>1 DEF TypeOK, L, Scopes
  <2>. QED BY <2>1, <2>2, Typing
<1>4. /\ A = AbstractScopes /\ B = AbstractScopes'
      /\ A \in Seq(Bindings) /\ Len(A) = L /\ B \in Seq(Bindings) /\ Len(B) = L'
      /\ \A i \in Scopes : A[i] = Scope(i)
      /\ \A i \in Scopes' : B[i] = Scope(i)'
  <2>1. A = AbstractScopes /\ B = AbstractScopes' BY DEF AbstractScopes, Scopes
  <2> HIDE DEF A, B
  <2>. QED BY <2>1
<1>2. X = Scope(L)
  <2> HIDE DEF A
  <2>. QED BY <1>1, <1>4
<1>3. DeclaredHere(n) <=> n \in DOMAIN X
  <2>1. DeclaredHere(n) <=> Lists(L, n) BY RefusesLemma DEF RefusesExactly, L
  <2>. QED BY <1>1, <1>2, <2>1 DEF ScopesAre
<1>5. CASE DeclaredHere(n)
  <2>1. UNCHANGED table /\ iSymbolId' = -1 /\ pRecord' = pRecord BY <1>5 DEF AddSymbol
  <2>2. B = A
    BY <2>1 DEF table, Scope, Owns, First, Beyond
  <2>3. n \in DOMAIN X BY <1>3, <1>5
  <2>. QED BY <2>1, <2>2, <2>3 DEF Abs!Bind, Abs!Innermost, Abs!Outer
<1>6. CASE ~DeclaredHere(n)
  <2> HIDE DEF A, B
  <2>1. /\ L' = L /\ \A i \in 1 .. L - 1 : Stays(i)
        /\ \A m \in Names : Lists(L, m)' <=> Lists(L, m) \/ m = n
        /\ \A m \in Names : \A k \in DOMAIN mSymbolTable[m] :
              Owns(L, m, k) => /\ k \in DOMAIN mSymbolTable'[m]
                               /\ mSymbolTable'[m][k] = mSymbolTable[m][k]
                               /\ Owns(L, m, k)'
        /\ \E k \in DOMAIN mSymbolTable'[n] :
              Owns(L, n, k)' /\ mSymbolTable'[n][k].symbol_data = d
    BY <1>6, AddLemma
  <2>2. iSymbolId' # -1 /\ pRecord' = pRecord BY <1>1, <1>6 DEF AddSymbol
  <2>3. PICK N \in Nat \ {0} : N = L BY <1>1
  <2>4. /\ Scopes = 1 .. N /\ Scopes' = 1 .. N /\ N \in 1 .. N
        /\ \A m \in Names : Lists(N, m)' <=> Lists(N, m) \/ m = n
    BY <1>1, <2>1, <2>3
  <2>5. B[N] = Y
    <3>1. B[N] = Scope(N)' /\ X = Scope(N) BY <1>2, <1>4, <2>3, <2>4
    <3>2. DOMAIN Scope(N)' = DOMAIN X \cup {n}
      <4>1. DOMAIN Scope(N)' = {m \in Names : Lists(N, m)'} BY <2>4 DEF ScopesAre
      <4>2. DOMAIN X = {m \in Names : Lists(N, m)} BY <2>4, <3>1 DEF ScopesAre
      <4>. QED BY <2>4, <4>1, <4>2
    <3>3. ASSUME NEW m \in DOMAIN X \cup {n}
          PROVE  Scope(N)'[m] = IF m = n THEN d ELSE X[m]
      <4>1. \A k \in DOMAIN mSymbolTable'[m] :
               Owns(N, m, k)' => Scope(N)'[m] = mSymbolTable'[m][k].symbol_data
        <5>1. m \in DOMAIN Scope(N)' /\ N \in Scopes' BY <2>4, <3>2
        <5> HIDE DEF X
        <5>. QED BY <5>1 DEF ScopesAre
      <4>2. CASE m = n
        <5>1. PICK k \in DOMAIN mSymbolTable'[n] :
                 Owns(N, n, k)' /\ mSymbolTable'[n][k].symbol_data = d
          BY <2>1, <2>3
        <5>. QED BY <4>1, <4>2, <5>1
      <4>3. CASE m # n
        <5>1. m \in DOMAIN X /\ m \in Names BY <2>4, <3>1, <4>3 DEF ScopesAre
        <5>2. PICK k \in DOMAIN mSymbolTable[m] : Owns(N, m, k) BY <2>4, <3>1, <5>1 DEF ScopesAre
        <5>3. X[m] = mSymbolTable[m][k].symbol_data
          <6>1. m \in DOMAIN Scope(N) /\ N \in Scopes BY <2>4, <3>1, <5>1
          <6>2. Scope(N)[m] = mSymbolTable[m][k].symbol_data BY <6>1, <5>2, ScopeValue
          <6>. QED BY <3>1, <6>2
        <5>4. k \in DOMAIN mSymbolTable'[m] /\ mSymbolTable'[m][k] = mSymbolTable[m][k] /\ Owns(N, m, k)'
          BY <2>1, <2>3, <5>1, <5>2
        <5>. QED BY <4>1, <4>3, <5>3, <5>4
      <4>. QED BY <4>2, <4>3
    <3>4. Scope(N)' = [m \in DOMAIN Scope(N)' |-> Scope(N)'[m]] BY <2>4 DEF ScopesAre
    <3>. QED BY <3>1, <3>2, <3>3, <3>4
  <2>6. ASSUME NEW i \in 1 .. N - 1
        PROVE  B[i] = A[i]
    <3>1. i \in Scopes /\ i \in Scopes' /\ Stays(i) BY <2>1, <2>3, <2>4
    <3>2. Scope(i)' = Scope(i) BY <3>1, SameScope
    <3>. QED BY <1>4, <3>1, <3>2
  <2>7. B = Append(SubSeq(A, 1, Len(A) - 1), Y)
    <3> DEFINE H == SubSeq(A, 1, N - 1)
    <3>1. /\ A \in Seq(Bindings) /\ Len(A) = N /\ B \in Seq(Bindings) /\ Len(B) = N
          /\ Y \in Bindings
      <4>1. Len(A) = N /\ Len(B) = N BY <1>4, <2>1, <2>3
      <4>2. Y \in Bindings
        <5>1. B \in Seq(Bindings) /\ N \in 1 .. Len(B) BY <1>4, <2>4, <4>1
        <5>2. B[N] \in Bindings BY <5>1, ElementOfSeq
        <5>. QED BY <2>5, <5>2
      <4>. QED BY <1>4, <4>1, <4>2
    <3> HIDE DEF Y
    <3>2. H \in Seq(Bindings) /\ Len(H) = N - 1 /\ \A i \in 1 .. N - 1 : H[i] = A[i]
      BY <2>3, <3>1
    <3> HIDE DEF H
    <3>3. B = Append(H, Y)
      <4>1. Append(H, Y) \in Seq(Bindings) /\ Len(Append(H, Y)) = N BY <2>3, <3>1, <3>2
      <4>2. ASSUME NEW i \in 1 .. N
            PROVE  B[i] = Append(H, Y)[i]
        <5>1. CASE i = N BY <2>5, <3>1, <3>2, <5>1
        <5>2. CASE i # N
          <6>1. i \in 1 .. N - 1 /\ i \in 1 .. Len(H) BY <3>2, <5>2
          <6>2. Append(H, Y)[i] = H[i] BY <3>1, <3>2, <6>1
          <6>. QED BY <2>6, <3>2, <6>1, <6>2
        <5>. QED BY <5>1, <5>2
      <4>. QED BY <3>1, <4>1, <4>2, SeqEqual
    <3>. QED BY <3>1, <3>3 DEF H
  <2>8. n \notin DOMAIN X BY <1>3, <1>6
  <2>. QED BY <2>2, <2>7, <2>8 DEF A, B, Abs!Bind, Abs!Innermost, Abs!Outer
<1>. QED BY <1>5, <1>6

(* The newest record of a name is of the innermost scope that binds it.    *)
LEMMA LookUpLemma ==
  ASSUME IInv, NEW n \in Names, GetSymbol(n),
         ScopesAre,
         AbstractScopes \in Seq(Bindings), Len(AbstractScopes) = L,
         \A i \in Scopes : AbstractScopes[i] = Scope(i)
  PROVE  Abs!LookUp(n)
<1> DEFINE A == AbstractScopes
           I == {i \in DOMAIN A : n \in DOMAIN A[i]}
           s == mSymbolTable[n]
<1>1. A = [i \in DOMAIN vScopeLastVarList |-> Scope(i)] BY DEF AbstractScopes, Scopes
<1>2. UNCHANGED table /\ UNCHANGED iSymbolId
      /\ pRecord' = IF s = <<>> THEN Null ELSE Last(s).symbol_data
  BY DEF GetSymbol
<1>3. [i \in DOMAIN vScopeLastVarList |-> Scope(i)]' = [i \in DOMAIN vScopeLastVarList |-> Scope(i)]
  BY <1>2 DEF table, Scope, Owns, First, Beyond
<1>4. DOMAIN A = Scopes /\ I = {i \in Scopes : Lists(i, n)}
  BY <1>1 DEF Scopes, ScopesAre
<1>5. /\ s \in Seq(SymbolRecord) /\ Len(s) \in Nat /\ DOMAIN s = 1 .. Len(s)
      /\ \A k \in DOMAIN s : s[k].symbol_id \in Nat
      /\ Scopes \subseteq Nat /\ \A i \in Scopes : First(i) \in Nat /\ Beyond(i) \in Nat
  BY Typing DEF IInv
<1>6. \A i \in Scopes : Lists(i, n) <=> \E k \in DOMAIN s : Owns(i, n, k)
  BY DEF IInv, OwnedIffListed, Scopes
<1>7. CASE s = <<>>
  <2>1. I = {} BY <1>4, <1>5, <1>6, <1>7
  <2> HIDE DEF A
  <2>. QED BY <1>1, <1>2, <1>3, <1>7, <2>1 DEF Abs!LookUp
<1>8. CASE s # <<>>
  <2>1. PICK k \in DOMAIN s : k = Len(s) BY <1>5, <1>8, EmptySeq
  <2>2. PICK i \in Scopes : Owns(i, n, k) BY <2>1 DEF IInv, EachOwned, Scopes
  <2>3. i \in I BY <1>4, <1>6, <2>1, <2>2
  <2>4. A[i][n] = s[k].symbol_data
    <3>1. n \in DOMAIN Scope(i) /\ A[i] = Scope(i) BY <1>4, <2>2, <2>3 DEF ScopesAre
    <3>2. Scope(i)[n] = s[k].symbol_data BY <2>2, <3>1, ScopeValue
    <3>. QED BY <3>1, <3>2
  <2>5. ASSUME NEW j \in I, ~(j <= i)
        PROVE  FALSE
    <3>1. j \in Scopes /\ i < j BY <1>4, <1>5, <2>5
    <3>2. PICK l \in DOMAIN s : Owns(j, n, l) BY <1>4, <1>6
    <3>3. Beyond(i) <= First(j) BY <3>1 DEF IInv, Intervals, Scopes
    <3>4. s[k].symbol_id < Beyond(i) /\ First(j) <= s[l].symbol_id
      BY <2>2, <3>2 DEF Owns
    <3>5. s[k].symbol_id < s[l].symbol_id BY <1>5, <3>1, <3>3, <3>4
    <3>6. l < k => s[l].symbol_id < s[k].symbol_id BY <2>1 DEF IInv, IdsGrow
    <3>7. l < k \/ l = k BY <1>5, <2>1
    <3>. QED BY <1>5, <3>5, <3>6, <3>7
  <2>6. pRecord' = A[i][n] BY <1>2, <1>8, <2>1, <2>4 DEF Last
  <2> HIDE DEF A
  <2>. QED BY <1>1, <1>2, <1>3, <2>3, <2>5, <2>6 DEF Abs!LookUp
<1>. QED BY <1>7, <1>8

(* The table of scopes is a stack of partial functions: adding, looking    *)
(* up, entering and leaving a scope are those of the stack.                *)
THEOREM SymbolTableImplementsScopeStack == Spec => ImplementsScopeStack
<1> DEFINE Right == /\ ScopesAre
                    /\ AbstractScopes \in Seq(Bindings) /\ Len(AbstractScopes) = L
                    /\ \A i \in Scopes : AbstractScopes[i] = Scope(i)
<1>0. IInv => Right BY ScopeLemma, AbstractLemma
<1>1. IInv' => Right' BY <1>0, PTL
<1>2. Init => Abs!Init
  <2> SUFFICES ASSUME Init PROVE Abs!Init OBVIOUS
  <2>1. Right BY <1>0, InitLemma
  <2>2. L = 1 /\ Scopes = {1} /\ \A n : ~Lists(1, n) BY DEF Init, L, Scopes, Lists
  <2>3. Scope(1) = [n \in {} |-> Null] BY <2>1, <2>2 DEF ScopesAre
  <2>4. AbstractScopes = << [n \in {} |-> Null] >> BY <2>1, <2>2, <2>3
  <2>5. [i \in DOMAIN vScopeLastVarList |-> Scope(i)] = << [n \in {} |-> Null] >>
    BY <2>4 DEF AbstractScopes, Scopes
  <2>. QED BY <2>5 DEF Init, Abs!Init
<1>3. IInv /\ IInv' /\ [Next]_vars => [Abs!Next]_(Abs!avars)
  <2> SUFFICES ASSUME IInv, IInv', [Next]_vars
               PROVE  Abs!Next \/ UNCHANGED Abs!avars
    OBVIOUS
  <2>0. Right /\ Right' BY <1>0, <1>1
  <2> HIDE DEF Right
  <2> DEFINE A == AbstractScopes
             B == AbstractScopes'
  <2>1. ASSUME NEW n \in Names, NEW d \in Data, AddSymbol(n, d) PROVE Abs!Next
    <3>1. Abs!Bind(n, d) BY <2>0, <2>1, BindLemma DEF Right
    <3>. QED BY <3>1 DEF Abs!Next
  <2>2. ASSUME NEW n \in Names, GetSymbol(n) PROVE Abs!Next
    <3>1. Abs!LookUp(n) BY <2>0, <2>2, LookUpLemma DEF Right
    <3>. QED BY <3>1 DEF Abs!Next
  <2>3. /\ A = [i \in DOMAIN vScopeLastVarList |-> Scope(i)]
        /\ B = [i \in DOMAIN vScopeLastVarList |-> Scope(i)]'
    BY DEF AbstractScopes, Scopes
  <2>4. /\ L \in Nat \ {0} /\ Scopes = 1 .. L /\ L' \in Nat /\ Scopes' = 1 .. L'
        /\ A \in Seq(Bindings) /\ Len(A) = L /\ B \in Seq(Bindings) /\ Len(B) = L'
        /\ ScopesAre /\ ScopesAre'
        /\ \A i \in Scopes : A[i] = Scope(i)
        /\ \A i \in Scopes' : B[i] = Scope(i)'
    <3>1. TypeOK /\ TypeOK' BY DEF IInv
    <3>2. L' \in Nat /\ Scopes' = 1 .. L' BY <3>1 DEF TypeOK, L, Scopes
    <3>. QED BY <2>0, <3>1, <3>2, Typing DEF Right
  <2>5. PICK N \in Nat \ {0} : N = L BY <2>4
  <2> HIDE DEF A, B
  <2>6. ASSUME MarkScope PROVE Abs!Next
    <3>1. L' = N + 1 /\ (\A i \in 1 .. N : Stays(i)) /\ \A m \in Names : ~Lists(L, m)'
      BY <2>4, <2>5, <2>6, MarkLemma
    <3>2. N + 1 \in Scopes' /\ \A i \in 1 .. N : i \in Scopes /\ i \in Scopes'
      BY <2>4, <2>5, <3>1
    <3>3. \A i \in 1 .. N : B[i] = A[i]
      BY <2>4, <3>1, <3>2, SameScope
    <3>4. Scope(N + 1)' = [m \in {} |-> Null]
      <4> DEFINE j == N + 1
      <4>1. j \in Scopes' /\ \A m \in Names : ~Lists(j, m)' BY <3>1, <3>2
      <4> HIDE DEF j
      <4>2. DOMAIN Scope(j)' = {} /\ Scope(j)' = [m \in DOMAIN Scope(j)' |-> Scope(j)'[m]]
        BY <2>4, <4>1 DEF ScopesAre
      <4>3. Scope(j)' = [m \in {} |-> Null] BY <4>2
      <4>. QED BY <4>3 DEF j
    <3>5. B = Append(A, [m \in {} |-> Null])
      <4> DEFINE e == [m \in {} |-> Null]
      <4>1. B[N + 1] = e BY <2>4, <3>2, <3>4
      <4>2. e \in Bindings
        <5>1. N + 1 \in 1 .. Len(B) BY <2>4, <2>5, <3>1
        <5>2. B[N + 1] \in Bindings BY <2>4, <5>1, ElementOfSeq
        <5>. QED BY <4>1, <5>2
      <4> HIDE DEF e
      <4>3. Append(A, e) \in Seq(Bindings) /\ Len(Append(A, e)) = N + 1
        BY <2>4, <2>5, <4>2
      <4>4. ASSUME NEW i \in 1 .. N + 1
            PROVE  B[i] = Append(A, e)[i]
        <5>1. CASE i = N + 1 BY <2>4, <2>5, <4>1, <4>2, <5>1
        <5>2. CASE i # N + 1
          <6>1. i \in 1 .. N /\ i \in 1 .. Len(A) BY <2>4, <2>5, <5>2
          <6>2. Append(A, e)[i] = A[i] BY <2>4, <4>2, <6>1
          <6>. QED BY <3>3, <6>1, <6>2
        <5>. QED BY <5>1, <5>2
      <4>5. B = Append(A, e) BY <2>4, <3>1, <4>3, <4>4, SeqEqual
      <4>. QED BY <4>5 DEF e
    <3>6. iSymbolId' = iSymbolId /\ pRecord' = pRecord BY <2>6 DEF MarkScope
    <3>7. Abs!Enter BY <2>3, <3>5, <3>6 DEF Abs!Enter
    <3>. QED BY <3>7 DEF Abs!Next
  <2>7. ASSUME UnmarkScope PROVE Abs!Next
    <3>1. N > 1 /\ L' = N - 1 /\ \A i \in 1 .. N - 1 : Stays(i)
      BY <2>5, <2>7, UnmarkLemma
    <3>2. \A i \in 1 .. N - 1 : i \in Scopes /\ i \in Scopes' BY <2>4, <2>5, <3>1
    <3>3. \A i \in 1 .. N - 1 : B[i] = A[i] BY <2>4, <3>1, <3>2, SameScope
    <3>4. B = SubSeq(A, 1, Len(A) - 1)
      <4> DEFINE H == SubSeq(A, 1, N - 1)
      <4>1. H \in Seq(Bindings) /\ Len(H) = N - 1 /\ \A i \in 1 .. N - 1 : H[i] = A[i]
        BY <2>4, <2>5, <3>1
      <4> HIDE DEF H
      <4>2. B = H BY <2>4, <3>1, <3>3, <4>1, SeqEqual
      <4>. QED BY <2>4, <2>5, <4>2 DEF H
    <3>5. iSymbolId' = iSymbolId /\ pRecord' = pRecord BY <2>7 DEF UnmarkScope
    <3>6. Len(A) > 1 BY <2>4, <2>5, <3>1
    <3>7. Abs!Leave BY <2>3, <3>4, <3>5, <3>6 DEF Abs!Leave, Abs!Outer
    <3>. QED BY <3>7 DEF Abs!Next
  <2>8. CASE UNCHANGED vars
    BY <2>8 DEF vars, table, Scope, Owns, First, Beyond, Abs!avars
  <2>. QED BY <2>1, <2>2, <2>6, <2>7, <2>8 DEF Next
<1>. QED
  BY <1>2, <1>3, SymbolTableInvariant, PTL DEF Spec, ImplementsScopeStack, Abs!Spec
=============================================================================
