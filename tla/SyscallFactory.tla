--------------------------- MODULE SyscallFactory ---------------------------
(***************************************************************************)
(* SyscallFactory (src/src/CTPP2SyscallFactory.cpp) and the set-up of the  *)
(* standard library in it (src/src/CTPP2VMSTDLib.cpp), from SimpleVM's     *)
(* constructor to its destructor; between them the owner of the factory    *)
(* registers and removes handlers and runs programs.  A turn of the loops  *)
(* over the list of the library is one action.                             *)
(*                                                                         *)
(* A handler is the object: whose it is, the name it has, a number.  The   *)
(* owner deletes its own handlers, those no slot holds any more, and does  *)
(* not take a name of the library: DestroyLibrary deletes what it finds    *)
(* under such a name, whoever made it.                                     *)
(***************************************************************************)
EXTENDS Naturals, Sequences

CONSTANTS
  MaxHandlers,  \* the sizes of the table (iMaxFunctions)
  UserHandlers, \* the handlers the owner may make
  Spelled,      \* other spellings of a name: function to the lower-case one
  Removable,    \* the names the owner may remove
  CalledNames   \* of the programs it may run: sequences of names they call

VARIABLES
  phase,    \* "constructing", "ready", "running", "destructing", "down"
  aFunctions, \* the place in the list InitLibrary or DestroyLibrary is at
  max,      \* iMaxHandlers
  slots,    \* aHandlers, up to iCurrHandlers
  refs,     \* mHandlerRefs: lower-case name to slot
  calls,    \* aCallTranslationMap of the machine
  live,     \* the handlers that exist
  removed   \* the handlers that were taken out with RemoveHandler

factoryVars == <<phase, aFunctions, max, slots, refs, calls, live, removed>>

NoHandler == [owner |-> "nobody", name |-> "", n |-> 0]
LibraryHandler(name) == [owner |-> "library", name |-> name, n |-> 0]

(* The names of a build without MD5, ICONV and ICU.                        *)
aSTDFNList == <<
  "__ctpp2_emitter", "avg", "attr_in_array", "base64_encode", "base64_decode", "cast",
  "concat", "context", "date_format", "default", "defined", "english_spellout", "error",
  "form_param", "_", "gettext", "get_type", "hash_keys", "href_param", "hostname",
  "htmlescape", "in_set", "in_array", "jsonescape", "json", "list", "list_element", "log",
  "min", "max", "mb_size", "mb_substr", "mb_truncate", "num_format", "obj_dump", "random",
  "replace", "russian_plural", "russian_spellout", "size", "sprintf", "substr", "time",
  "truncate", "ucfirst", "uriescape", "urlescape", "version", "xmlescape", "wmlescape" >>
LibraryNames == {aSTDFNList[i] : i \in DOMAIN aSTDFNList}

(* strcasecmp *)
Folded(name) == IF name \in DOMAIN Spelled THEN Spelled[name] ELSE name

ASSUME SizesAssumption == MaxHandlers \subseteq Nat
ASSUME OwnersAssumption == \A h \in UserHandlers : h.owner = "user"
ASSUME SpelledAssumption == \A name \in DOMAIN Spelled : name \notin LibraryNames

-----------------------------------------------------------------------------
(* The table as a value: its slots and references.                         *)
Table == [slots |-> slots, refs |-> refs]
RegisterHandler(t, h) ==
  IF Len(t.slots) = max \/ h = NoHandler THEN t
  ELSE [slots |-> Append(t.slots, h),
        refs |-> [f \in DOMAIN t.refs \cup {Folded(h.name)} |->
                    IF f \in DOMAIN t.refs THEN t.refs[f] ELSE Len(t.slots) + 1]]
GetHandlerById(t, id) == IF id \in DOMAIN t.slots THEN t.slots[id] ELSE NoHandler
GetHandlerByName(t, name) ==
  IF Folded(name) \in DOMAIN t.refs THEN t.slots[t.refs[Folded(name)]] ELSE NoHandler
(* Mutant: the name is not forgotten. *)
RemoveHandlerKeepsName(t, name) ==
  IF Folded(name) \notin DOMAIN t.refs THEN t
  ELSE [t EXCEPT !.slots[t.refs[Folded(name)]] = NoHandler]
RemoveHandler(t, name) ==
  IF Folded(name) \notin DOMAIN t.refs THEN t
  ELSE [slots |-> [t.slots EXCEPT ![t.refs[Folded(name)]] = NoHandler],
        refs |-> [f \in DOMAIN t.refs \ {Folded(name)} |-> t.refs[f]]]

-----------------------------------------------------------------------------
FactoryInit ==
  /\ phase = "constructing" /\ aFunctions = 1 /\ max \in MaxHandlers
  /\ slots = <<>> /\ refs = [f \in {} |-> 0]
  /\ calls = <<>> /\ live = {} /\ removed = {}

SetTable(t) == slots' = t.slots /\ refs' = t.refs

(* A turn of the loop over the list, and what phase begins after the last. *)
Turn(now, next) ==
  /\ phase = now /\ aFunctions' = aFunctions + 1
  /\ phase' = IF aFunctions = Len(aSTDFNList) THEN next ELSE now

(* Every handler of the list is made, registered or not.                   *)
InitLibrary ==
  /\ Turn("constructing", "ready")
  /\ LET h == LibraryHandler(aSTDFNList[aFunctions])
     IN SetTable(RegisterHandler(Table, h)) /\ live' = live \cup {h}
  /\ UNCHANGED <<max, calls, removed>>

Register(h) ==
  /\ phase = "ready" /\ h \notin live /\ h \notin removed
  /\ Folded(h.name) \notin LibraryNames
  /\ SetTable(RegisterHandler(Table, h))
  /\ live' = live \cup {h}
  /\ UNCHANGED <<phase, aFunctions, max, calls, removed>>
TakeOut(name) ==
  /\ phase = "ready" /\ GetHandlerByName(Table, name) # NoHandler
  /\ SetTable(RemoveHandler(Table, name))
  /\ removed' = removed \cup {GetHandlerByName(Table, name)}
  /\ UNCHANGED <<phase, aFunctions, max, calls, live>>
Delete(h) ==
  /\ phase \in {"ready", "down"} /\ h \in live /\ h.owner = "user"
  /\ phase = "ready" => \A i \in DOMAIN slots : slots[i] # h
  /\ live' = live \ {h}
  /\ UNCHANGED <<phase, aFunctions, max, slots, refs, calls, removed>>

(* VM::Init: names to handlers, or an exception for one that is not there. *)
VMInit(prog) ==
  /\ phase = "ready"
  /\ \A i \in DOMAIN prog : GetHandlerByName(Table, prog[i]) # NoHandler
  /\ phase' = "running"
  /\ calls' = [i \in DOMAIN prog |-> GetHandlerByName(Table, prog[i])]
  /\ UNCHANGED <<aFunctions, max, slots, refs, live, removed>>
RunEnds ==
  /\ phase = "running" /\ phase' = "ready"
  /\ UNCHANGED <<aFunctions, max, slots, refs, calls, live, removed>>

Destruct ==
  /\ phase = "ready" /\ phase' = "destructing" /\ aFunctions' = 1
  /\ UNCHANGED <<max, slots, refs, calls, live, removed>>
(* What is deleted is what the names lead to, one after the other.         *)
DestroyLibrary ==
  /\ Turn("destructing", "down")
  /\ LET name == aSTDFNList[aFunctions]
     IN /\ SetTable(RemoveHandler(Table, name))
        /\ live' = live \ {GetHandlerByName(Table, name)}
  /\ UNCHANGED <<max, calls, removed>>

FactoryNext ==
  \/ InitLibrary \/ RunEnds \/ Destruct \/ DestroyLibrary
  \/ \E h \in UserHandlers : Register(h) \/ Delete(h)
  \/ \E name \in Removable : TakeOut(name)
  \/ \E prog \in CalledNames : VMInit(prog)

FactorySpec == FactoryInit /\ [][FactoryNext]_factoryVars

-----------------------------------------------------------------------------
(* A name always leads to a handler that exists and has this name, a slot  *)
(* to a handler that exists or to none, in the loops of the constructor    *)
(* and the destructor too; every entry of a machine's table of calls is a  *)
(* handler that exists and has the program's name.  When the library has   *)
(* been destroyed, those of its handlers are left that the table was too   *)
(* small for and those the owner took out, and no other.                   *)
NamesResolve ==
  /\ phase # "down" =>
       /\ \A f \in DOMAIN refs :
            refs[f] \in DOMAIN slots /\ slots[refs[f]] \in live /\ Folded(slots[refs[f]].name) = f
       /\ \A i \in DOMAIN slots : slots[i] \in live \cup {NoHandler}
  /\ phase = "running" =>
       \E prog \in CalledNames :
         /\ DOMAIN calls = DOMAIN prog
         /\ \A i \in DOMAIN prog : calls[i] \in live /\ Folded(calls[i].name) = Folded(prog[i])
  /\ phase = "down" =>
       {h \in live : h.owner = "library"} =
         {LibraryHandler(aSTDFNList[i]) : i \in max + 1 .. Len(aSTDFNList)}
           \cup {h \in removed : h.owner = "library"}
=============================================================================
