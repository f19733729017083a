----------------------------- MODULE VariableWalk -----------------------------
(***************************************************************************)
(* SetVariable and GetNextVariableName, interleaved: a client enumerates   *)
(* the store with one GetNextVariableName call at a time while SetVariable *)
(* calls add, overwrite and delete variables in between.                   *)
(***************************************************************************)
EXTENDS VariableStore

CONSTANTS
  MaxWrites  \* bound on SetVariable calls in a run

VARIABLES
  previous,  \* the (name, GUID) the client passes to the next call
  walking,   \* "idle", "walking", "done" (EFI_NOT_FOUND) or "lost" (its
             \* previous variable is gone)
  reported,  \* history: how often this walk has returned each key (up to 2)
  settled,   \* history: keys present since this walk began, never deleted
  intact,    \* history: no variable the client passed back was ever deleted
  rewound,   \* history: this walk was handed a variable with the empty name,
             \* which, passed back, starts the enumeration over
  writes     \* SetVariable calls so far

clientVars == <<previous, walking, reported, settled, intact, rewound>>
walkVars == <<store, clientVars, writes>>

ASSUME WalkAssumption == MaxWrites \in Nat /\ Vendor # {}

Start == [name |-> EmptyName, guid |-> CHOOSE g \in Vendor : TRUE]

WalkInit ==
  /\ store = EmptyStore
  /\ previous = Start
  /\ walking = "idle"
  /\ reported = [k \in Key |-> 0]
  /\ settled = {}
  /\ intact = TRUE
  /\ rewound = FALSE
  /\ writes = 0

(* SetVariable: EFI_SUCCESS; an empty payload deletes. *)
CallSetVariable(k, a, d) ==
  /\ writes < MaxWrites
  /\ Settable(store, k, d)
  /\ store' = SetVar(store, k, a, d)
  /\ settled' = settled \cap Keys(store')
  /\ intact' = (intact /\ (d = NoData /\ k = previous => walking # "walking"))
  /\ writes' = writes + 1
  /\ UNCHANGED <<previous, walking, reported, rewound>>

(* SetVariable: EFI_OUT_OF_RESOURCES or EFI_NOT_FOUND. *)
SetVariableFails(k, d) ==
  /\ ~Settable(store, k, d)
  /\ UNCHANGED walkVars

BeginWalk ==
  /\ walking # "walking"
  /\ walking' = "walking"
  /\ previous' = Start
  /\ reported' = [k \in Key |-> 0]
  /\ settled' = Keys(store)
  /\ intact' = TRUE
  /\ rewound' = FALSE
  /\ UNCHANGED <<store, writes>>

(* GetNextVariableName with a buffer of MAX_NAME_UNITS + 1 units. *)
GetNextVariableName ==
  /\ walking = "walking"
  /\ IF ~KnownPrevious(store, previous)
     THEN walking' = "lost" /\ UNCHANGED <<previous, reported, rewound>>
     ELSE IF Ahead(store, previous) = {}
     THEN walking' = "done" /\ UNCHANGED <<previous, reported, rewound>>
     ELSE LET k == KeyOf(store[Min(Ahead(store, previous))])
          IN  /\ previous' = k
              /\ reported' = [reported EXCEPT ![k] = IF @ < 2 THEN @ + 1 ELSE 2]
              /\ rewound' = (rewound \/ k.name = EmptyName)
              /\ UNCHANGED walking
  /\ UNCHANGED <<store, settled, intact, writes>>

WalkNext ==
  \/ \E k \in Key, a \in Attributes, d \in Data \cup {NoData} : CallSetVariable(k, a, d)
  \/ \E k \in Key, d \in Data \cup {NoData} : SetVariableFails(k, d)
  \/ BeginWalk
  \/ GetNextVariableName

WalkSpec == WalkInit /\ [][WalkNext]_walkVars

(* A client that has begun a walk keeps calling until it is answered       *)
(* EFI_NOT_FOUND or EFI_INVALID_PARAMETER.                                 *)
FairWalkSpec == WalkSpec /\ WF_walkVars(GetNextVariableName)

-----------------------------------------------------------------------------
(* Every variable has its type. *)
WalkTypeOK ==
  /\ store \in [Slots -> Variable \cup {Unused}]
  /\ previous \in Key \cup {Start}
  /\ walking \in {"idle", "walking", "done", "lost"}
  /\ reported \in [Key -> 0 .. 2]
  /\ settled \subseteq Key
  /\ intact \in BOOLEAN
  /\ rewound \in BOOLEAN
  /\ writes \in 0 .. MaxWrites

(* The dedup rule of set(): no two slots hold the same (name, GUID), so    *)
(* every first-match lookup is the only match.                             *)
KeysUnique ==
  \A i, j \in InUse(store) : KeyOf(store[i]) = KeyOf(store[j]) => i = j

(* A finished walk whose own position was never deleted and that was never *)
(* handed a variable with the empty name has returned every variable that  *)
(* was there all along exactly once, whatever SetVariable calls happened   *)
(* between its steps.                                                      *)
WalkComplete ==
  walking = "done" /\ intact /\ ~rewound => \A k \in settled : reported[k] = 1

(* A walk never loses its place unless its own position was deleted; one   *)
(* that met the empty name does not either.                                *)
WalkKeepsItsPlace == walking = "lost" => ~intact

(* A variable with the empty name, which set() accepts, is in the store. *)
Nameless == \E k \in Keys(store) : k.name = EmptyName

(* Once SetVariable calls stop every walk comes to its end, but for one    *)
(* that was handed a variable with the empty name while that variable is   *)
(* still there: get_next takes that name for the start of an enumeration.  *)
WalkEnds == walking = "walking" ~> walking # "walking" \/ (rewound /\ Nameless)

-----------------------------------------------------------------------------
(* The table t read as a map: what a lookup of each key finds. *)
Contents(t) == [k \in Key |->
  IF Lookup(t, k) = Unused THEN Unused
  ELSE [attributes |-> Lookup(t, k).attributes, data |-> Lookup(t, k).data]]

Map == INSTANCE VariableMap WITH
  Keyspace <- Key,
  Values <- Payload,
  Absent <- Unused,
  Capacity <- MaxVariables,
  value <- Contents(store)

(* The slot table implements the map: each SetVariable changes one key,    *)
(* and a new key is taken only while there is room for it.                 *)
RefinesMap == Map!MapSpec

-----------------------------------------------------------------------------
(* What comments and documents say.                                        *)

(* variables.rs:140, "Matches EFI_GET_NEXT_VARIABLE_NAME's contract":      *)
(* every walk comes to its end.                                            *)
EveryWalkEnds == walking = "walking" ~> walking # "walking"
=============================================================================
