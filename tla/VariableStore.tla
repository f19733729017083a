---------------------------- MODULE VariableStore ----------------------------
(***************************************************************************)
(* The UEFI variable store (src/efi/variables.rs) behind SetVariable and   *)
(* GetNextVariableName (src/efi/runtime_services.rs): a fixed table of     *)
(* slots, and a client that walks it with GetNextVariableName while it or  *)
(* anyone else keeps calling SetVariable between two steps of the walk.    *)
(***************************************************************************)
EXTENDS Integers, FiniteSetsExt

CONSTANTS
  MaxVariables,  \* MAX_VARIABLES (32)
  MaxDataLen,    \* MAX_DATA_LEN (512)
  Name,          \* names that fit in MAX_NAME_UNITS
  EmptyName,     \* the zero-length name that starts an enumeration
  Vendor,        \* vendor GUIDs
  Attributes,    \* attribute words
  Data,          \* non-empty payloads
  LenOf,         \* payload -> its length in bytes
  NoData,        \* the empty payload, which deletes
  Unused         \* a slot with in_use false

Key == [name : Name, guid : Vendor]
Variable == [name : Name, guid : Vendor, attributes : Attributes, data : Data]
Payload == [attributes : Attributes, data : Data]
Slots == 1 .. MaxVariables

ASSUME StoreAssumption ==
  /\ MaxVariables \in Nat \ {0}
  /\ MaxDataLen \in Nat
  /\ LenOf \in [Data -> Nat]
  /\ NoData \notin Data
  /\ Unused \notin Variable \cup Payload

VARIABLES
  store  \* VARS

EmptyStore == [i \in Slots |-> Unused]

-----------------------------------------------------------------------------
(* Operators on a table t; persist.rs applies them to a merged one too. *)

KeyOf(v) == [name |-> v.name, guid |-> v.guid]

InUse(t) == {i \in Slots : t[i] # Unused}
Free(t) == {i \in Slots : t[i] = Unused}

(* The slots a (name, guid) lookup matches; every lookup takes the first. *)
SlotsOf(t, k) == {i \in InUse(t) : KeyOf(t[i]) = k}
Keys(t) == {KeyOf(t[i]) : i \in InUse(t)}

TooLong(d) == d # NoData /\ LenOf[d] > MaxDataLen

(* set() succeeds. *)
Settable(t, k, d) ==
  /\ ~TooLong(d)
  /\ d = NoData => SlotsOf(t, k) # {}
  /\ d # NoData => SlotsOf(t, k) # {} \/ Free(t) # {}

(* Mutants of SetVar: a new slot is filled although the key exists; a      *)
(* deletion compares GUIDs only.                                           *)
SetVar_Appends(t, k, a, d) ==
  IF d = NoData
  THEN [t EXCEPT ![Min(SlotsOf(t, k))] = Unused]
  ELSE LET i == IF Free(t) # {} THEN Min(Free(t)) ELSE Min(SlotsOf(t, k))
       IN  [t EXCEPT ![i] = [name |-> k.name, guid |-> k.guid, attributes |-> a, data |-> d]]

SetVar_DeletesByGuid(t, k, a, d) ==
  IF d = NoData
  THEN [i \in Slots |-> IF t[i] # Unused /\ t[i].guid = k.guid THEN Unused ELSE t[i]]
  ELSE LET i == IF SlotsOf(t, k) # {} THEN Min(SlotsOf(t, k)) ELSE Min(Free(t))
       IN  [t EXCEPT ![i] = [name |-> k.name, guid |-> k.guid, attributes |-> a, data |-> d]]

(* The table after a successful set(): delete, overwrite in place (name    *)
(* and GUID stay), or fill the first free slot.                            *)
SetVar(t, k, a, d) ==
  IF d = NoData
  THEN [t EXCEPT ![Min(SlotsOf(t, k))] = Unused]
  ELSE LET i == IF SlotsOf(t, k) # {} THEN Min(SlotsOf(t, k)) ELSE Min(Free(t))
       IN  [t EXCEPT ![i] = [name |-> k.name, guid |-> k.guid, attributes |-> a, data |-> d]]

(* get(): the variable a lookup finds, Unused when it finds none. *)
Lookup(t, k) == IF SlotsOf(t, k) = {} THEN Unused ELSE t[Min(SlotsOf(t, k))]

(* Mutant of KnownPrevious: the search stops one slot short. *)
KnownPrevious_Short(t, prev) ==
  prev.name = EmptyName \/ SlotsOf(t, prev) \ {MaxVariables} # {}

(* get_next(): where the scan starts; an empty previous name starts over.  *)
(* None when the previous variable is gone (EFI_INVALID_PARAMETER).        *)
KnownPrevious(t, prev) == prev.name = EmptyName \/ SlotsOf(t, prev) # {}

(* Mutants of StartIndex: one slot too far, and not past the previous one. *)
StartIndex_Skips(t, prev) ==
  IF prev.name = EmptyName THEN 1 ELSE Min(SlotsOf(t, prev)) + 2

StartIndex_Repeats(t, prev) ==
  IF prev.name = EmptyName THEN 1 ELSE Min(SlotsOf(t, prev))

StartIndex(t, prev) ==
  IF prev.name = EmptyName THEN 1 ELSE Min(SlotsOf(t, prev)) + 1

(* The in-use slots from there on; the scan returns the first. *)
Ahead(t, prev) == {i \in InUse(t) : i >= StartIndex(t, prev)}
=============================================================================
