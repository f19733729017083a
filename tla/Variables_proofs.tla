-------------------------- MODULE Variables_proofs --------------------------
(***************************************************************************)
(* Proofs about the variable store, its enumeration and its copy on the    *)
(* card, for every table size, set of names, settings and payloads, and    *)
(* every sequence of calls, saves, failed saves, mounts and resets: first  *)
(* the table by itself, then a walk (VariableWalk), then what survives a   *)
(* reset (NvStore).                                                        *)
(***************************************************************************)
EXTENDS VariableWalk, NvStore, Loops, FiniteSetTheorems, SequenceTheorems, TLAPS

Table == [Slots -> Variable \cup {Unused}]

Unique(t) == \A i, j \in InUse(t) : KeyOf(t[i]) = KeyOf(t[j]) => i = j

(* Slots are positive numbers, and what a slot in use holds is a variable  *)
(* with a key.                                                             *)
LEMMA SlotFacts ==
  ASSUME NEW t \in Table
  PROVE  /\ Slots \subseteq Nat /\ \A i \in Slots : 1 <= i
         /\ \A i \in InUse(t) : i \in Slots /\ t[i] \in Variable /\ KeyOf(t[i]) \in Key
<1>1. Slots \subseteq Nat /\ \A i \in Slots : 1 <= i
  BY StoreAssumption DEF Slots
<1>2. \A i \in InUse(t) : i \in Slots /\ t[i] \in Variable
  BY DEF InUse, Table
<1>3. \A v \in Variable : KeyOf(v) \in Key
  BY DEF Variable, KeyOf, Key
<1>4. QED
  BY <1>1, <1>2, <1>3

(* A successful set() writes one slot: it empties the slot of the key, or  *)
(* fills the slot of the key, or fills a free slot when the key has none.  *)
LEMMA OneSlotChanges ==
  ASSUME NEW t \in Table, NEW k \in Key, NEW a \in Attributes,
         NEW d \in Data \cup {NoData}, Settable(t, k, d)
  PROVE  \E i \in Slots, v \in Variable \cup {Unused} :
           /\ SetVar(t, k, a, d) = [t EXCEPT ![i] = v]
           /\ d = NoData => v = Unused /\ i \in SlotsOf(t, k)
           /\ d # NoData => /\ v \in Variable /\ KeyOf(v) = k
                            /\ v.attributes = a /\ v.data = d
                            /\ \/ i \in SlotsOf(t, k)
                               \/ t[i] = Unused /\ SlotsOf(t, k) = {}
<1>1. /\ SlotsOf(t, k) \subseteq Slots /\ Free(t) \subseteq Slots
      /\ SlotsOf(t, k) \subseteq Nat /\ Free(t) \subseteq Nat
  BY StoreAssumption DEF SlotsOf, InUse, Free, Slots
<1>2. CASE d = NoData
  <2>1. SlotsOf(t, k) # {}
    BY <1>2 DEF Settable
  <2>2. Min(SlotsOf(t, k)) \in SlotsOf(t, k)
    BY <1>1, <2>1, MinIn
  <2>3. SetVar(t, k, a, d) = [t EXCEPT ![Min(SlotsOf(t, k))] = Unused]
    BY <1>2 DEF SetVar
  <2>4. QED
    BY <1>1, <1>2, <2>2, <2>3
<1>3. CASE d # NoData
  <2> DEFINE i == IF SlotsOf(t, k) # {} THEN Min(SlotsOf(t, k)) ELSE Min(Free(t))
             v == [name |-> k.name, guid |-> k.guid, attributes |-> a, data |-> d]
  <2>1. v \in Variable /\ KeyOf(v) = k /\ v.attributes = a /\ v.data = d
    BY <1>3 DEF Variable, Key, KeyOf
  <2>2. i \in Slots /\ (i \in SlotsOf(t, k) \/ (t[i] = Unused /\ SlotsOf(t, k) = {}))
    <3>1. CASE SlotsOf(t, k) # {}
      BY <1>1, <3>1, MinIn
    <3>2. CASE SlotsOf(t, k) = {}
      <4>1. Free(t) # {}
        BY <1>3, <3>2 DEF Settable
      <4>2. Min(Free(t)) \in Free(t)
        BY <1>1, <4>1, MinIn
      <4>3. QED
        BY <1>1, <3>2, <4>2 DEF Free
    <3>3. QED
      BY <3>1, <3>2
  <2>3. SetVar(t, k, a, d) = [t EXCEPT ![i] = v]
    BY <1>3 DEF SetVar
  <2> HIDE DEF i, v
  <2>4. QED
    BY <1>3, <2>1, <2>2, <2>3
<1>4. QED
  BY <1>2, <1>3

(* set() keeps the table well formed and its keys unique. *)
LEMMA SetVarKeepsUnique ==
  ASSUME NEW t \in Table, NEW k \in Key, NEW a \in Attributes,
         NEW d \in Data \cup {NoData}, Settable(t, k, d), Unique(t)
  PROVE  SetVar(t, k, a, d) \in Table /\ Unique(SetVar(t, k, a, d))
<1>1. PICK i \in Slots, v \in Variable \cup {Unused} :
        /\ SetVar(t, k, a, d) = [t EXCEPT ![i] = v]
        /\ d = NoData => v = Unused /\ i \in SlotsOf(t, k)
        /\ d # NoData => /\ v \in Variable /\ KeyOf(v) = k
                         /\ \/ i \in SlotsOf(t, k)
                            \/ t[i] = Unused /\ SlotsOf(t, k) = {}
  BY OneSlotChanges
<1> DEFINE u == [t EXCEPT ![i] = v]
<1>2. u \in Table
  BY DEF Table
<1>3. u[i] = v /\ \A j \in Slots \ {i} : u[j] = t[j]
  BY DEF Table
<1> HIDE DEF u
<1>4. Unique(u)
  <2> SUFFICES ASSUME NEW x \in InUse(u), NEW y \in InUse(u),
                      KeyOf(u[x]) = KeyOf(u[y]), x # y
               PROVE  FALSE
    BY DEF Unique
  <2>1. x \in Slots /\ y \in Slots /\ u[x] # Unused /\ u[y] # Unused
    BY DEF InUse
  <2>2. ASSUME NEW z \in Slots, z # i, u[z] # Unused, KeyOf(u[z]) = k, v # Unused, d # NoData
        PROVE  FALSE
    <3>1. z \in SlotsOf(t, k)
      BY <1>3, <2>2 DEF SlotsOf, InUse
    <3>2. i \in SlotsOf(t, k)
      BY <1>1, <2>2, <3>1
    <3>3. QED
      BY <2>2, <3>1, <3>2 DEF SlotsOf, Unique
  <2>3. CASE x # i /\ y # i
    BY <1>3, <2>1, <2>3 DEF Unique, InUse
  <2>4. CASE x = i \/ y = i
    <3>1. v # Unused /\ d # NoData /\ KeyOf(v) = k
      BY <1>1, <1>3, <2>1, <2>4
    <3>2. QED
      BY <1>3, <2>1, <2>2, <2>4, <3>1
  <2>5. QED
    BY <2>3, <2>4
<1>5. QED
  BY <1>1, <1>2, <1>4 DEF u

(* A key has at most one slot, so it is the first match. *)
LEMMA OnlySlot ==
  ASSUME NEW t \in Table, Unique(t), NEW k, NEW p \in SlotsOf(t, k)
  PROVE  SlotsOf(t, k) = {p} /\ Min(SlotsOf(t, k)) = p
<1>1. SlotsOf(t, k) = {p}
  BY DEF Unique, SlotsOf
<1>2. SlotsOf(t, k) \subseteq Nat
  BY StoreAssumption DEF SlotsOf, InUse, Slots
<1>3. QED
  BY <1>1, <1>2, MinIn

(* get() finds the variable of the one slot that has the key. *)
LEMMA LookupFinds ==
  ASSUME NEW t \in Table, Unique(t), NEW k
  PROVE  /\ SlotsOf(t, k) = {} => Lookup(t, k) = Unused
         /\ \A p \in SlotsOf(t, k) :
              Lookup(t, k) = t[p] /\ Lookup(t, k) \in Variable /\ Lookup(t, k) # Unused
<1>1. SlotsOf(t, k) = {} => Lookup(t, k) = Unused
  BY DEF Lookup
<1>2. ASSUME NEW p \in SlotsOf(t, k)
      PROVE  Lookup(t, k) = t[p] /\ Lookup(t, k) \in Variable /\ Lookup(t, k) # Unused
  <2>1. SlotsOf(t, k) # {} /\ Min(SlotsOf(t, k)) = p
    BY OnlySlot
  <2>2. t[p] \in Variable
    BY SlotFacts DEF SlotsOf
  <2>3. QED
    BY <2>1, <2>2, StoreAssumption DEF Lookup
<1>3. QED
  BY <1>1, <1>2

(* A successful set() changes what get() returns for its key and for no    *)
(* other.                                                                  *)
LEMMA SetVarLookup ==
  ASSUME NEW t \in Table, NEW k \in Key, NEW a \in Attributes,
         NEW d \in Data \cup {NoData}, Settable(t, k, d), Unique(t), NEW j \in Key
  PROVE  /\ j # k => Lookup(SetVar(t, k, a, d), j) = Lookup(t, j)
         /\ j = k /\ d = NoData => Lookup(SetVar(t, k, a, d), j) = Unused
         /\ j = k /\ d # NoData =>
              /\ Lookup(SetVar(t, k, a, d), j) \in Variable
              /\ Lookup(SetVar(t, k, a, d), j).attributes = a
              /\ Lookup(SetVar(t, k, a, d), j).data = d
<1>1. PICK i \in Slots, v \in Variable \cup {Unused} :
        /\ SetVar(t, k, a, d) = [t EXCEPT ![i] = v]
        /\ d = NoData => v = Unused /\ i \in SlotsOf(t, k)
        /\ d # NoData => /\ v \in Variable /\ KeyOf(v) = k
                         /\ v.attributes = a /\ v.data = d
                         /\ \/ i \in SlotsOf(t, k)
                            \/ t[i] = Unused /\ SlotsOf(t, k) = {}
  BY OneSlotChanges
<1>2. PICK u : u = SetVar(t, k, a, d)
  OBVIOUS
<1>3. u \in Table /\ Unique(u)
  BY <1>2, SetVarKeepsUnique
<1>4. u[i] = v /\ \A n \in Slots \ {i} : u[n] = t[n]
  BY <1>1, <1>2 DEF Table
<1>5. ASSUME j # k PROVE Lookup(u, j) = Lookup(t, j)
  <2>1. i \notin SlotsOf(t, j) /\ i \notin SlotsOf(u, j)
    BY <1>1, <1>4, <1>5 DEF SlotsOf, InUse
  <2>2. SlotsOf(u, j) = SlotsOf(t, j)
    BY <1>4, <2>1 DEF SlotsOf, InUse
  <2>3. CASE SlotsOf(t, j) = {}
    BY <1>3, <2>2, <2>3, LookupFinds
  <2>4. ASSUME NEW p \in SlotsOf(t, j) PROVE Lookup(u, j) = Lookup(t, j)
    <3>1. u[p] = t[p]
      BY <1>4, <2>1 DEF SlotsOf, InUse
    <3>2. Lookup(u, j) = u[p] /\ Lookup(t, j) = t[p]
      BY <1>3, <2>2, LookupFinds
    <3>3. QED
      BY <3>1, <3>2
  <2>5. QED
    BY <2>3, <2>4
<1>6. CASE d = NoData
  <2>1. SlotsOf(t, k) = {i}
    BY <1>1, <1>6, OnlySlot
  <2>2. SlotsOf(u, k) = {}
    BY <1>1, <1>4, <1>6, <2>1 DEF SlotsOf, InUse
  <2>3. Lookup(u, k) = Unused
    BY <1>3, <2>2, LookupFinds
  <2>4. QED
    BY <1>2, <1>5, <1>6, <2>3
<1>7. CASE d # NoData
  <2>1. v # Unused
    BY <1>1, <1>7, StoreAssumption
  <2>2. i \in SlotsOf(u, k)
    BY <1>1, <1>4, <1>7, <2>1 DEF SlotsOf, InUse
  <2>3. Lookup(u, k) = v
    BY <1>3, <1>4, <2>2, LookupFinds
  <2>4. QED
    BY <1>1, <1>2, <1>5, <1>7, <2>3
<1>8. QED
  BY <1>6, <1>7

-----------------------------------------------------------------------------
(* The inductive invariant.  While a walk is under way and its position    *)
(* has not been deleted, the position is a slot p, 0 where an enumeration  *)
(* starts, and, unless the walk was sent back there by an empty name, it   *)
(* has returned exactly the settled variables in slots up to p, once each. *)
(* SetVariable cannot move a settled variable: it overwrites in place, and *)
(* a key it re-creates is settled no more.                                 *)
StoreInv == store \in Table /\ Unique(store)

At(p) ==
  \/ previous.name = EmptyName /\ p = 0
  \/ previous.name # EmptyName /\ p \in SlotsOf(store, previous)

Returned(p) ==
  \A i \in InUse(store) : KeyOf(store[i]) \in settled =>
    reported[KeyOf(store[i])] = (IF i <= p THEN 1 ELSE 0)

WalkType ==
  /\ previous \in Key \cup {Start}
  /\ reported \in [Key -> 0 .. 2]
  /\ settled \subseteq Keys(store)

Placed == walking = "walking" /\ intact => \E p \in {0} \cup Slots : At(p)

OnCourse == walking = "walking" /\ intact /\ ~rewound =>
  \E p \in {0} \cup Slots : At(p) /\ Returned(p)

Finished == walking = "done" /\ intact /\ ~rewound => \A k \in settled : reported[k] = 1

Stranded == walking = "lost" => ~intact

WalkInv == StoreInv /\ WalkType /\ Placed /\ OnCourse /\ Finished /\ Stranded

(* A write that does not delete the walk's position leaves it in place. *)
LEMMA WriteKeepsPlace ==
  ASSUME StoreInv, NEW k \in Key, NEW a \in Attributes,
         NEW d \in Data \cup {NoData}, CallSetVariable(k, a, d),
         NEW p \in {0} \cup Slots, At(p),
         ~ (d = NoData /\ k = previous)
  PROVE  At(p)'
<1>0. store \in Table /\ Unique(store) /\ Settable(store, k, d)
      /\ store' = SetVar(store, k, a, d)
      /\ UNCHANGED <<previous, reported>> /\ settled' = settled \cap Keys(store')
  BY DEF StoreInv, CallSetVariable
<1>1. PICK i \in Slots, v \in Variable \cup {Unused} :
        /\ SetVar(store, k, a, d) = [store EXCEPT ![i] = v]
        /\ d = NoData => v = Unused /\ i \in SlotsOf(store, k)
        /\ d # NoData => /\ v \in Variable /\ KeyOf(v) = k
                         /\ \/ i \in SlotsOf(store, k)
                            \/ store[i] = Unused /\ SlotsOf(store, k) = {}
  BY <1>0, OneSlotChanges
<1>2. store'[i] = v /\ \A j \in Slots \ {i} : store'[j] = store[j]
  BY <1>0, <1>1 DEF Table
<1>3. At(p)'
  <2>1. CASE previous.name = EmptyName
    BY <1>0, <2>1 DEF At
  <2>2. CASE previous.name # EmptyName
    <3>1. p \in SlotsOf(store, previous)
      BY <2>2 DEF At
    <3>2. p \in Slots /\ store[p] # Unused /\ KeyOf(store[p]) = previous
      BY <3>1 DEF SlotsOf, InUse
    <3>3. CASE p # i
      BY <1>0, <1>2, <2>2, <3>2, <3>3 DEF At, SlotsOf, InUse
    <3>4. CASE p = i
      <4>1. k = previous
        BY <1>1, <3>2, <3>4 DEF SlotsOf
      <4>2. d # NoData /\ v \in Variable /\ KeyOf(v) = previous
        BY <1>1, <4>1
      <4>3. v # Unused
        BY <4>2, StoreAssumption
      <4>4. QED
        BY <1>0, <1>2, <2>2, <3>2, <3>4, <4>2, <4>3 DEF At, SlotsOf, InUse
    <3>5. QED
      BY <3>3, <3>4
  <2>3. QED
    BY <2>1, <2>2
<1>4. QED
  BY <1>3

(* A write leaves what the walk has returned alone. *)
LEMMA WriteKeepsCourse ==
  ASSUME StoreInv, WalkType, NEW k \in Key, NEW a \in Attributes,
         NEW d \in Data \cup {NoData}, CallSetVariable(k, a, d),
         NEW p \in {0} \cup Slots, Returned(p)
  PROVE  Returned(p)'
<1>0. store \in Table /\ Unique(store) /\ Settable(store, k, d)
      /\ store' = SetVar(store, k, a, d)
      /\ UNCHANGED <<previous, reported>> /\ settled' = settled \cap Keys(store')
  BY DEF StoreInv, CallSetVariable
<1>1. PICK i \in Slots, v \in Variable \cup {Unused} :
        /\ SetVar(store, k, a, d) = [store EXCEPT ![i] = v]
        /\ d = NoData => v = Unused /\ i \in SlotsOf(store, k)
        /\ d # NoData => /\ v \in Variable /\ KeyOf(v) = k
                         /\ \/ i \in SlotsOf(store, k)
                            \/ store[i] = Unused /\ SlotsOf(store, k) = {}
  BY <1>0, OneSlotChanges
<1>2. store'[i] = v /\ \A j \in Slots \ {i} : store'[j] = store[j]
  BY <1>0, <1>1 DEF Table
<1>3. Returned(p)'
  <2> SUFFICES ASSUME NEW j \in InUse(store'), KeyOf(store'[j]) \in settled'
               PROVE  reported[KeyOf(store'[j])] = (IF j <= p THEN 1 ELSE 0)
    BY <1>0 DEF Returned
  <2>1. j \in Slots /\ store'[j] # Unused /\ KeyOf(store'[j]) \in settled
    BY <1>0 DEF InUse
  <2>2. j \in InUse(store) /\ KeyOf(store[j]) = KeyOf(store'[j])
    <3>1. CASE j # i
      BY <1>2, <2>1, <3>1 DEF InUse
    <3>2. CASE j = i
      <4>1. d # NoData /\ KeyOf(store'[j]) = k
        BY <1>1, <1>2, <2>1, <3>2
      <4>2. SlotsOf(store, k) # {}
        <5>1. k \in Keys(store)
          BY <2>1, <4>1 DEF WalkType
        <5>2. QED
          BY <5>1 DEF Keys, SlotsOf
      <4>3. i \in SlotsOf(store, k)
        BY <1>1, <4>1, <4>2
      <4>4. QED
        BY <3>2, <4>1, <4>3 DEF SlotsOf
    <3>3. QED
      BY <3>1, <3>2
  <2>3. QED
    BY <2>1, <2>2 DEF Returned
<1>4. QED
  BY <1>3

(* What GetNextVariableName hands out is a variable of the store, which    *)
(* the walk then stands at, or at the start again if it has no name.       *)
LEMMA StepHandsOut ==
  ASSUME StoreInv, WalkType, GetNextVariableName,
         KnownPrevious(store, previous), Ahead(store, previous) # {}
  PROVE  WalkType' /\ \E q \in {0} \cup Slots : At(q)'
<1>0. store' = store /\ settled' = settled
  BY DEF GetNextVariableName
<1>1. Ahead(store, previous) \subseteq Nat /\ Ahead(store, previous) \subseteq InUse(store)
  BY StoreAssumption DEF Ahead, InUse, Slots
<1>2. PICK q \in InUse(store) : q = Min(Ahead(store, previous))
  BY <1>1, MinIn
<1>3. PICK k \in Key : k = KeyOf(store[q])
  BY SlotFacts DEF StoreInv
<1>4. /\ previous' = k
      /\ reported' = [reported EXCEPT ![k] = IF @ < 2 THEN @ + 1 ELSE 2]
  BY <1>2, <1>3 DEF GetNextVariableName
<1>5. WalkType'
  BY <1>0, <1>3, <1>4 DEF WalkType
<1>6. CASE k.name = EmptyName
  <2>1. At(0)'
    BY <1>4, <1>6 DEF At
  <2>2. QED
    BY <1>5, <2>1
<1>7. CASE k.name # EmptyName
  <2>1. q \in Slots /\ q \in SlotsOf(store, k)
    BY <1>2, <1>3 DEF SlotsOf, InUse
  <2>2. At(q)'
    BY <1>0, <1>4, <1>7, <2>1 DEF At
  <2>3. QED
    BY <1>5, <2>1, <2>2
<1>8. QED
  BY <1>6, <1>7

(* GetNextVariableName on course: the walk steps to the next slot in use   *)
(* or, with none left, has returned every settled variable.                *)
LEMMA StepKeepsCourse ==
  ASSUME StoreInv, WalkType, GetNextVariableName,
         NEW p \in {0} \cup Slots, At(p), Returned(p)
  PROVE  /\ Ahead(store, previous) = {} => \A k \in settled : reported[k] = 1
         /\ Ahead(store, previous) # {} /\ ~rewound' =>
              \E q \in {0} \cup Slots : At(q)' /\ Returned(q)'
<1>0. store \in Table /\ Unique(store) /\ store' = store /\ settled' = settled
  BY DEF StoreInv, GetNextVariableName
<1>1. KnownPrevious(store, previous)
  BY DEF At, KnownPrevious
<1>2. StartIndex(store, previous) = p + 1
  <2>1. CASE previous.name = EmptyName
    BY <2>1 DEF At, StartIndex
  <2>2. CASE previous.name # EmptyName
    <3>1. p \in SlotsOf(store, previous)
      BY <2>2 DEF At
    <3>2. Min(SlotsOf(store, previous)) = p
      BY <1>0, <3>1, OnlySlot
    <3>3. QED
      BY <2>2, <3>2 DEF StartIndex
  <2>3. QED
    BY <2>1, <2>2
<1>3. Ahead(store, previous) = {i \in InUse(store) : i >= p + 1}
  BY <1>2 DEF Ahead
<1>4. p \in Nat /\ InUse(store) \subseteq Slots /\ Slots \subseteq Nat
  BY StoreAssumption DEF InUse, Slots
<1>5. \A i \in InUse(store) : KeyOf(store[i]) \in Key
  BY <1>0, SlotFacts
<1>6. ASSUME Ahead(store, previous) = {}, NEW k \in settled
      PROVE  reported[k] = 1
  <2>1. PICK i \in InUse(store) : KeyOf(store[i]) = k
    BY DEF WalkType, Keys
  <2>2. i <= p
    <3>1. ~ (i >= p + 1) /\ i \in Nat
      BY <1>3, <1>4, <1>6, <2>1
    <3>2. QED
      BY <1>4, <3>1
  <2>3. QED
    BY <2>1, <2>2 DEF Returned
<1>7. ASSUME Ahead(store, previous) # {}, ~rewound'
      PROVE  \E q \in {0} \cup Slots : At(q)' /\ Returned(q)'
  <2>1. PICK q \in Ahead(store, previous) :
          q = Min(Ahead(store, previous)) /\ \A y \in Ahead(store, previous) : q <= y
    <3>1. Ahead(store, previous) \subseteq Nat
      BY <1>3, <1>4
    <3>2. QED
      BY <1>7, <3>1, MinIn
  <2>2. q \in InUse(store) /\ q \in Slots /\ q \in Nat /\ q >= p + 1
    BY <1>3, <1>4, <2>1
  <2>3. PICK k \in Key : k = KeyOf(store[q])
    BY <1>5, <2>2
  <2>4. /\ previous' = k
        /\ reported' = [reported EXCEPT ![k] = IF @ < 2 THEN @ + 1 ELSE 2]
        /\ rewound' = (rewound \/ k.name = EmptyName)
    BY <1>1, <1>7, <2>1, <2>3 DEF GetNextVariableName
  <2>6. At(q)'
    <3>1. previous'.name # EmptyName
      BY <1>7, <2>4
    <3>2. q \in SlotsOf(store, k)
      BY <2>2, <2>3 DEF SlotsOf
    <3>3. QED
      BY <1>0, <2>4, <3>1, <3>2 DEF At
  <2>7. Returned(q)'
    <3> SUFFICES ASSUME NEW i \in InUse(store), KeyOf(store[i]) \in settled
                 PROVE  reported'[KeyOf(store[i])] = (IF i <= q THEN 1 ELSE 0)
      BY <1>0 DEF Returned
    <3>1. /\ i \in Nat /\ KeyOf(store[i]) \in Key
          /\ reported[KeyOf(store[i])] = (IF i <= p THEN 1 ELSE 0)
      BY <1>4, <1>5 DEF Returned
    <3>2. CASE i = q
      BY <1>4, <2>2, <2>3, <2>4, <3>1, <3>2 DEF WalkType
    <3>3. CASE i # q
      <4>1. KeyOf(store[i]) # k
        BY <1>0, <2>2, <2>3, <3>3 DEF Unique
      <4>2. reported'[KeyOf(store[i])] = reported[KeyOf(store[i])]
        BY <2>3, <2>4, <3>1, <4>1 DEF WalkType
      <4>3. i <= q <=> i <= p
        BY <1>3, <1>4, <2>1, <2>2, <3>1, <3>3
      <4>4. QED
        BY <3>1, <4>2, <4>3
    <3>4. QED
      BY <3>2, <3>3
  <2>8. QED
    BY <2>2, <2>6, <2>7
<1>8. QED
  BY <1>6, <1>7

(* A walk that has not begun satisfies the walk invariant. *)
LEMMA WalkInvInit ==
  ASSUME WalkInit
  PROVE  WalkInv
<1>1. store \in Table /\ InUse(store) = {}
  BY DEF WalkInit, EmptyStore, Table, InUse
<1>2. QED
  BY <1>1 DEF WalkInit, WalkInv, StoreInv, Unique, WalkType, Placed, OnCourse, Finished, Stranded

(* SetVariable and GetNextVariableName keep the walk invariant. *)
LEMMA WalkInvStep ==
  ASSUME WalkInv, [WalkNext]_walkVars
  PROVE  WalkInv'
<1> USE DEF WalkInv
<1>1. CASE UNCHANGED walkVars
  BY <1>1 DEF walkVars, clientVars, StoreInv, WalkType, Placed, OnCourse, Finished, Stranded,
              At, Returned
<1>2. ASSUME NEW k \in Key, NEW a \in Attributes, NEW d \in Data \cup {NoData},
             CallSetVariable(k, a, d)
      PROVE  WalkInv'
  <2>1. StoreInv'
    BY <1>2, SetVarKeepsUnique DEF StoreInv, CallSetVariable
  <2>2. WalkType'
    BY <1>2 DEF WalkType, CallSetVariable
  <2>3. walking' = walking /\ settled' \subseteq settled /\ reported' = reported
        /\ rewound' = rewound
        /\ (intact' => intact /\ (d = NoData /\ k = previous => walking # "walking"))
    BY <1>2 DEF CallSetVariable
  <2>8. Placed'
    <3> SUFFICES ASSUME walking' = "walking", intact'
                 PROVE  (\E p \in {0} \cup Slots : At(p))'
      BY DEF Placed
    <3>1. walking = "walking" /\ intact /\ ~ (d = NoData /\ k = previous)
      BY <2>3
    <3>2. PICK p \in {0} \cup Slots : At(p)
      BY <3>1 DEF Placed
    <3>3. At(p)'
      BY <1>2, <3>1, <3>2, WriteKeepsPlace
    <3>4. QED
      BY <3>3
  <2>4. OnCourse'
    <3> SUFFICES ASSUME walking' = "walking", intact', ~rewound'
                 PROVE  (\E p \in {0} \cup Slots : At(p) /\ Returned(p))'
      BY DEF OnCourse
    <3>1. walking = "walking" /\ intact /\ ~rewound /\ ~ (d = NoData /\ k = previous)
      BY <2>3
    <3>2. PICK p \in {0} \cup Slots : At(p) /\ Returned(p)
      BY <3>1 DEF OnCourse
    <3>3. At(p)' /\ Returned(p)'
      BY <1>2, <3>1, <3>2, WriteKeepsPlace, WriteKeepsCourse
    <3>4. QED
      BY <3>3
  <2>5. Finished'
    BY <2>3 DEF Finished
  <2>6. Stranded'
    BY <2>3 DEF Stranded
  <2>7. QED
    BY <2>1, <2>2, <2>4, <2>5, <2>6, <2>8
<1>3. ASSUME NEW k \in Key, NEW d \in Data \cup {NoData}, SetVariableFails(k, d)
      PROVE  WalkInv'
  BY <1>1, <1>3 DEF SetVariableFails
<1>4. CASE BeginWalk
  <2>1. StoreInv' /\ WalkType'
    BY <1>4 DEF BeginWalk, StoreInv, WalkType
  <2>2. At(0)' /\ Returned(0)'
    <3>1. \A i \in InUse(store) : i \in Nat /\ 1 <= i /\ KeyOf(store[i]) \in Key
      BY SlotFacts DEF StoreInv
    <3>2. QED
      BY <1>4, <3>1 DEF BeginWalk, At, Start, Returned
  <2>3. QED
    BY <1>4, <2>1, <2>2 DEF BeginWalk, Placed, OnCourse, Finished, Stranded
<1>5. CASE GetNextVariableName
  <2>1. StoreInv' /\ settled' = settled /\ intact' = intact /\ walking = "walking"
    BY <1>5 DEF GetNextVariableName, StoreInv
  <2>2. CASE ~KnownPrevious(store, previous)
    <3>1. walking' = "lost" /\ UNCHANGED <<previous, reported, rewound, store>>
      BY <1>5, <2>2 DEF GetNextVariableName
    <3>2. ~intact
      BY <2>1, <2>2 DEF Placed, At, KnownPrevious
    <3>3. QED
      BY <2>1, <3>1, <3>2 DEF WalkType, Placed, OnCourse, Finished, Stranded
  <2>3. CASE KnownPrevious(store, previous) /\ Ahead(store, previous) = {}
    <3>1. walking' = "done" /\ UNCHANGED <<previous, reported, rewound, store>>
      BY <1>5, <2>3 DEF GetNextVariableName
    <3>2. intact /\ ~rewound => \A k \in settled : reported[k] = 1
      BY <1>5, <2>1, <2>3, StepKeepsCourse DEF OnCourse
    <3>3. QED
      BY <2>1, <3>1, <3>2 DEF WalkType, Placed, OnCourse, Finished, Stranded
  <2>4. CASE KnownPrevious(store, previous) /\ Ahead(store, previous) # {}
    <3>1. walking' = "walking" /\ (rewound => rewound')
      BY <1>5, <2>4 DEF GetNextVariableName
    <3>2. WalkType' /\ \E q \in {0} \cup Slots : At(q)'
      BY <1>5, <2>4, StepHandsOut
    <3>3. intact /\ ~rewound' => \E q \in {0} \cup Slots : At(q)' /\ Returned(q)'
      BY <1>5, <2>1, <2>4, <3>1, StepKeepsCourse DEF OnCourse
    <3>4. QED
      BY <2>1, <3>1, <3>2, <3>3 DEF Placed, OnCourse, Finished, Stranded
  <2>5. QED
    BY <2>2, <2>3, <2>4
<1>6. QED
  BY <1>1, <1>2, <1>3, <1>4, <1>5 DEF WalkNext

-----------------------------------------------------------------------------
(* No step spoils the table. *)
LEMMA StoreInvStep ==
  ASSUME StoreInv, [WalkNext]_walkVars
  PROVE  StoreInv'
<1>1. ASSUME NEW k \in Key, NEW a \in Attributes, NEW d \in Data \cup {NoData},
             CallSetVariable(k, a, d)
      PROVE  StoreInv'
  BY <1>1, SetVarKeepsUnique DEF StoreInv, CallSetVariable
<1>2. CASE UNCHANGED store
  BY <1>2 DEF StoreInv
<1>3. QED
  BY <1>1, <1>2 DEF WalkNext, SetVariableFails, BeginWalk, GetNextVariableName, walkVars

(* SetVariable never makes a second slot for a (name, GUID) pair. *)
THEOREM KeysStayUnique == WalkSpec => []KeysUnique
<1>1. WalkInit => StoreInv
  BY WalkInvInit DEF WalkInv
<1>2. StoreInv /\ [WalkNext]_walkVars => StoreInv'
  BY StoreInvStep
<1>3. StoreInv => KeysUnique
  BY DEF StoreInv, Unique, KeysUnique
<1>4. QED
  BY <1>1, <1>2, <1>3, PTL DEF WalkSpec

(* Every reachable state satisfies the walk invariant. *)
LEMMA WalkInvHolds ==
  WalkSpec => []WalkInv
<1>1. WalkInit => WalkInv
  BY WalkInvInit
<1>2. WalkInv /\ [WalkNext]_walkVars => WalkInv'
  BY WalkInvStep
<1>3. QED
  BY <1>1, <1>2, PTL DEF WalkSpec

(* GetNextVariableName enumerates completely under any interleaving of     *)
(* SetVariable calls, unless the walk itself is handed a variable with the *)
(* empty name, which starts it over.                                       *)
THEOREM WalksAreComplete ==
  WalkSpec => []WalkComplete
<1>1. WalkInv => WalkComplete
  BY DEF WalkInv, Finished, WalkComplete
<1>2. QED
  BY <1>1, WalkInvHolds, PTL

(* GetNextVariableName never answers EFI_INVALID_PARAMETER to a client     *)
(* whose own position was not deleted: no other SetVariable call makes the *)
(* walk lose its place.                                                    *)
THEOREM WalksKeepTheirPlace ==
  WalkSpec => []WalkKeepsItsPlace
<1>1. WalkInv => WalkKeepsItsPlace
  BY DEF WalkInv, Stranded, WalkKeepsItsPlace
<1>2. QED
  BY <1>1, WalkInvHolds, PTL

-----------------------------------------------------------------------------
(* The map has a key exactly when a slot does. *)
LEMMA ContentsAt ==
  ASSUME NEW t \in Table, Unique(t), NEW k \in Key
  PROVE  Contents(t)[k] = Unused <=> SlotsOf(t, k) = {}
<1>1. CASE SlotsOf(t, k) = {}
  BY <1>1, LookupFinds DEF Contents
<1>2. ASSUME NEW p \in SlotsOf(t, k) PROVE Contents(t)[k] # Unused
  <2>1. Lookup(t, k) \in Variable /\ Lookup(t, k) # Unused
    BY LookupFinds
  <2>2. Contents(t)[k] = [attributes |-> Lookup(t, k).attributes, data |-> Lookup(t, k).data]
    BY <2>1 DEF Contents
  <2>3. Contents(t)[k] \in Payload
    BY <2>1, <2>2 DEF Variable, Payload
  <2>4. QED
    BY <2>3, StoreAssumption
<1>3. QED
  BY <1>1, <1>2

(* A successful set() changes the map at its key and nowhere else. *)
LEMMA SetVarIsAssign ==
  ASSUME NEW t \in Table, NEW k \in Key, NEW a \in Attributes,
         NEW d \in Data \cup {NoData}, Settable(t, k, d), Unique(t)
  PROVE  Contents(SetVar(t, k, a, d)) =
           [Contents(t) EXCEPT ![k] =
              IF d = NoData THEN Unused ELSE [attributes |-> a, data |-> d]]
<1>1. PICK u : u = SetVar(t, k, a, d)
  OBVIOUS
<1>2. \A j \in Key \ {k} : Contents(u)[j] = Contents(t)[j]
  BY <1>1, SetVarLookup DEF Contents
<1>3. Contents(u)[k] = IF d = NoData THEN Unused ELSE [attributes |-> a, data |-> d]
  <2>1. CASE d = NoData
    BY <1>1, <2>1, SetVarLookup DEF Contents
  <2>2. CASE d # NoData
    <3>1. Lookup(u, k) \in Variable /\ Lookup(u, k).attributes = a /\ Lookup(u, k).data = d
      BY <1>1, <2>2, SetVarLookup
    <3>2. Lookup(u, k) # Unused
      BY <3>1, StoreAssumption
    <3>3. QED
      BY <2>2, <3>1, <3>2 DEF Contents
  <2>3. QED
    BY <2>1, <2>2
<1>4. QED
  BY <1>1, <1>2, <1>3 DEF Contents

(* While a slot is free, the map has fewer keys than the table has slots. *)
LEMMA FreeMeansRoom ==
  ASSUME NEW t \in Table, Unique(t), NEW i \in Free(t)
  PROVE  Cardinality({k \in Key : Contents(t)[k] # Unused}) < MaxVariables
<1> DEFINE D == {k \in Key : Contents(t)[k] # Unused}
           S == InUse(t)
           f == [j \in S |-> KeyOf(t[j])]
<1>1. MaxVariables \in Nat /\ MaxVariables >= 1
  BY StoreAssumption
<1>2. IsFiniteSet(Slots) /\ Cardinality(Slots) = MaxVariables
  BY <1>1, FS_Interval DEF Slots
<1>3. i \in Slots /\ S \in SUBSET (Slots \ {i})
  BY DEF Free, InUse
<1>4. IsFiniteSet(Slots \ {i}) /\ Cardinality(Slots \ {i}) = MaxVariables - 1
  BY <1>2, <1>3, FS_RemoveElement
<1>5. IsFiniteSet(S) /\ Cardinality(S) <= MaxVariables - 1
  BY <1>3, <1>4, FS_Subset
<1>6. \A j \in S : KeyOf(t[j]) \in D
  <2> SUFFICES ASSUME NEW j \in S PROVE KeyOf(t[j]) \in D
    OBVIOUS
  <2>1. KeyOf(t[j]) \in Key
    BY SlotFacts
  <2>2. j \in SlotsOf(t, KeyOf(t[j]))
    BY DEF SlotsOf
  <2>3. QED
    BY <2>1, <2>2, ContentsAt
<1>7. \A k \in D : \E j \in S : KeyOf(t[j]) = k
  <2> SUFFICES ASSUME NEW k \in D PROVE \E j \in S : KeyOf(t[j]) = k
    OBVIOUS
  <2>1. SlotsOf(t, k) # {}
    BY ContentsAt
  <2>2. QED
    BY <2>1 DEF SlotsOf
<1>8. f \in Surjection(S, D)
  <2> HIDE DEF D, S
  <2>1. f \in [S -> D]
    BY <1>6
  <2>2. \A k \in D : \E j \in S : f[j] = k
    BY <1>7
  <2>3. QED
    BY <2>1, <2>2 DEF Surjection
<1> HIDE DEF D, S, f
<1>9. Cardinality(D) <= Cardinality(S) /\ IsFiniteSet(D)
  BY <1>5, <1>8, FS_Surjection
<1>10. Cardinality(D) \in Nat /\ Cardinality(S) \in Nat
  BY <1>5, <1>9, FS_CardinalityType
<1>11. Cardinality(D) < MaxVariables
  BY <1>1, <1>5, <1>9, <1>10
<1>12. QED
  BY <1>11 DEF D

(* The slot table implements the map of VariableMap: a SetVariable call    *)
(* assigns or erases one key, a key that is new is taken only while the    *)
(* map has fewer than MAX_VARIABLES keys, and everything else - a refused  *)
(* call, an enumeration - leaves the map alone.                            *)
THEOREM StoreIsAMap == WalkSpec => RefinesMap
<1>1. WalkInit => StoreInv
  BY WalkInvInit DEF WalkInv
<1>2. StoreInv /\ [WalkNext]_walkVars => StoreInv'
  BY StoreInvStep
<1>3. WalkInit => Map!MapInit
  <2> SUFFICES ASSUME WalkInit PROVE Map!MapInit
    OBVIOUS
  <2>1. \A k \in Key : SlotsOf(store, k) = {}
    BY DEF WalkInit, EmptyStore, SlotsOf, InUse
  <2>2. QED
    BY <2>1 DEF Map!MapInit, Contents, Lookup
<1>4. StoreInv /\ [WalkNext]_walkVars => [Map!MapNext]_(Contents(store))
  <2> SUFFICES ASSUME StoreInv, [WalkNext]_walkVars
               PROVE  Map!MapNext \/ Contents(store)' = Contents(store)
    OBVIOUS
  <2>1. ASSUME NEW k \in Key, NEW a \in Attributes, NEW d \in Data \cup {NoData},
               CallSetVariable(k, a, d)
        PROVE  Map!MapNext
    <3>1. /\ store \in Table /\ Unique(store) /\ Settable(store, k, d)
          /\ store' = SetVar(store, k, a, d)
      BY <2>1 DEF StoreInv, CallSetVariable
    <3>2. Contents(store)' =
            [Contents(store) EXCEPT ![k] =
               IF d = NoData THEN Unused ELSE [attributes |-> a, data |-> d]]
      BY <3>1, SetVarIsAssign
    <3>3. CASE d = NoData
      <4>1. k \in Map!Defined
        <5>1. PICK p : p \in SlotsOf(store, k)
          BY <3>1, <3>3 DEF Settable
        <5>2. QED
          BY <3>1, <5>1, ContentsAt DEF Map!Defined
      <4>2. Map!Erase(k)
        BY <3>2, <3>3, <4>1 DEF Map!Erase
      <4>3. QED
        BY <4>2 DEF Map!MapNext
    <3>4. CASE d # NoData
      <4>1. [attributes |-> a, data |-> d] \in Payload
        BY <3>4 DEF Payload
      <4>2. k \in Map!Defined \/ Cardinality(Map!Defined) < MaxVariables
        <5>1. CASE SlotsOf(store, k) # {}
          BY <3>1, <5>1, ContentsAt DEF Map!Defined
        <5>2. CASE SlotsOf(store, k) = {}
          <6>1. Free(store) # {}
            BY <3>1, <3>4, <5>2 DEF Settable
          <6>2. QED
            BY <3>1, <6>1, FreeMeansRoom DEF Map!Defined
        <5>3. QED
          BY <5>1, <5>2
      <4>3. PICK v \in Payload : v = [attributes |-> a, data |-> d]
        BY <4>1
      <4>4. Contents(store)' = [Contents(store) EXCEPT ![k] = v]
        BY <3>2, <3>4, <4>3
      <4>5. Map!Assign(k, v)
        BY <4>2, <4>4 DEF Map!Assign, Map!Cardinality, Cardinality
      <4>6. QED
        BY <4>5 DEF Map!MapNext
    <3>5. QED
      BY <3>3, <3>4
  <2>2. CASE UNCHANGED store
    BY <2>2
  <2>3. QED
    BY <2>1, <2>2 DEF WalkNext, SetVariableFails, BeginWalk, GetNextVariableName, walkVars
<1>5. QED
  BY <1>1, <1>2, <1>3, <1>4, PTL DEF WalkSpec, RefinesMap, Map!MapSpec

-----------------------------------------------------------------------------
(* A table set() can have made. *)
Fits(t) == \A i \in InUse(t) : ~TooLong(t[i].data)
Well(t) == t \in Table /\ Unique(t) /\ Fits(t)

WellTable == {t \in Table : Well(t)}
Records == Seq(Variable)

-----------------------------------------------------------------------------
(* set() and the keys of the table. *)
LEMMA SetVarKeys ==
  ASSUME NEW t, Well(t), NEW k \in Key, NEW a \in Attributes,
         NEW d \in Data \cup {NoData}, Settable(t, k, d)
  PROVE  /\ Well(SetVar(t, k, a, d))
         /\ d = NoData => Keys(t) \ {k} \subseteq Keys(SetVar(t, k, a, d))
         /\ d # NoData => Keys(t) \subseteq Keys(SetVar(t, k, a, d))
<1>0. t \in Table /\ Unique(t) /\ Fits(t)
  BY DEF Well
<1>1. PICK i \in Slots, v \in Variable \cup {Unused} :
        /\ SetVar(t, k, a, d) = [t EXCEPT ![i] = v]
        /\ d = NoData => v = Unused /\ i \in SlotsOf(t, k)
        /\ d # NoData => /\ v \in Variable /\ KeyOf(v) = k
                         /\ v.attributes = a /\ v.data = d
                         /\ \/ i \in SlotsOf(t, k)
                            \/ t[i] = Unused /\ SlotsOf(t, k) = {}
  BY <1>0, OneSlotChanges
<1>2. PICK u : u = SetVar(t, k, a, d)
  OBVIOUS
<1>3. u \in Table /\ Unique(u)
  BY <1>0, <1>2, SetVarKeepsUnique
<1>4. u[i] = v /\ \A n \in Slots \ {i} : u[n] = t[n]
  BY <1>0, <1>1, <1>2 DEF Table
<1>5. Fits(u)
  <2> SUFFICES ASSUME NEW n \in InUse(u) PROVE ~TooLong(u[n].data)
    BY DEF Fits
  <2>1. CASE n = i
    <3>1. d # NoData /\ u[n].data = d
      BY <1>1, <1>4, <2>1 DEF InUse
    <3>2. QED
      BY <3>1 DEF Settable
  <2>2. CASE n # i
    BY <1>0, <1>4, <2>2 DEF InUse, Fits
  <2>3. QED
    BY <2>1, <2>2
<1>6. ASSUME NEW j \in Keys(t), d = NoData => j # k
      PROVE  j \in Keys(u)
  <2>1. PICK n \in InUse(t) : KeyOf(t[n]) = j
    BY DEF Keys
  <2>2. CASE n # i
    BY <1>4, <2>1, <2>2 DEF InUse, Keys
  <2>3. CASE n = i
    <3>1. i \in SlotsOf(t, k)
      BY <1>1, <2>3 DEF InUse
    <3>2. j = k /\ d # NoData
      BY <1>6, <2>1, <2>3, <3>1 DEF SlotsOf
    <3>3. v # Unused /\ KeyOf(v) = k
      BY <1>1, <3>2, StoreAssumption
    <3>4. QED
      BY <1>4, <3>2, <3>3 DEF InUse, Keys
  <2>4. QED
    BY <2>2, <2>3
<1>7. QED
  BY <1>2, <1>3, <1>5, <1>6 DEF Well

(* The table after reset, which holds the smoke test's variable. *)
LEMMA BootStoreWell == Well(BootStore)
<1>1. EmptyStore \in Table /\ InUse(EmptyStore) = {} /\ Free(EmptyStore) = Slots
  BY DEF EmptyStore, Table, InUse, Free
<1>2. Well(EmptyStore)
  BY <1>1 DEF Well, Unique, Fits
<1>3. 1 \in Slots
  BY StoreAssumption DEF Slots
<1>4. SmokeTest \in Key /\ SmokeData \in Data /\ NV \in Attributes /\ SmokeData # NoData
  BY NvAssumption, StoreAssumption
<1>5. Settable(EmptyStore, SmokeTest, SmokeData)
  BY <1>1, <1>3, <1>4, NvAssumption DEF Settable
<1>6. QED
  BY <1>2, <1>4, <1>5, SetVarKeys DEF BootStore

-----------------------------------------------------------------------------
(* serialize: its loop over the slots has a run, the records so far. *)
SerialStep(t) ==
  [n \in 1 .. MaxVariables |->
     [s \in Records |-> IF t[n] = Unused THEN s ELSE Append(s, t[n])]]

LEMMA SerializeRuns ==
  ASSUME NEW t \in Table
  PROVE  \E g : /\ Run(g, <<>>, SerialStep(t), MaxVariables, Records)
                /\ Serialized(t) = g[MaxVariables]
<1>0. MaxVariables \in Nat
  BY StoreAssumption
<1>1. \A n \in 1 .. MaxVariables : t[n] = Unused \/ t[n] \in Variable
  BY DEF Table, Slots
<1>2. \A n \in 1 .. MaxVariables, s \in Records :
        (IF t[n] = Unused THEN s ELSE Append(s, t[n])) \in Records
  BY <1>1, AppendProperties DEF Records
<1>3. Steps(SerialStep(t), MaxVariables, Records)
  BY <1>2 DEF Steps, SerialStep
<1>4. <<>> \in Records
  BY EmptySeq DEF Records
<1>5. PICK g : Run(g, <<>>, SerialStep(t), MaxVariables, Records)
  BY <1>0, <1>3, <1>4, Iterates
<1>6. \A n \in 1 .. MaxVariables :
        g[n] = IF t[n] = Unused THEN g[n - 1] ELSE Append(g[n - 1], t[n])
  <2> SUFFICES ASSUME NEW n \in 1 .. MaxVariables
               PROVE  g[n] = IF t[n] = Unused THEN g[n - 1] ELSE Append(g[n - 1], t[n])
    OBVIOUS
  <2>1. n - 1 \in 0 .. MaxVariables
    BY <1>0
  <2>2. g[n - 1] \in Records /\ g[n] = SerialStep(t)[n][g[n - 1]]
    BY <1>5, <2>1 DEF Run
  <2>3. QED
    BY <2>2 DEF SerialStep
<1> DEFINE Body(f) == [n \in 0 .. MaxVariables |->
                         IF n = 0 THEN <<>>
                         ELSE IF t[n] = Unused THEN f[n - 1] ELSE Append(f[n - 1], t[n])]
           From == CHOOSE f : f = Body(f)
<1>7. g = Body(g)
  <2>1. g \in [0 .. MaxVariables -> Records] /\ g[0] = <<>>
    BY <1>5 DEF Run
  <2>2. ASSUME NEW n \in 0 .. MaxVariables PROVE g[n] = Body(g)[n]
    <3>1. CASE n = 0
      BY <2>1, <3>1
    <3>2. CASE n # 0
      <4>1. n \in 1 .. MaxVariables
        BY <1>0, <3>2
      <4>2. QED
        BY <1>6, <3>2, <4>1
    <3>3. QED
      BY <3>1, <3>2
  <2>3. DOMAIN g = 0 .. MaxVariables /\ g = [n \in 0 .. MaxVariables |-> g[n]]
    BY <2>1
  <2>4. QED
    BY <2>2, <2>3
<1>8. From = Body(From)
  BY <1>7
<1>9. Serialized(t) = From[MaxVariables]
  BY DEF Serialized
<1> HIDE DEF From
<1>10. \A n \in 0 .. MaxVariables : From[n] = g[n]
  <2> DEFINE P == {n \in 0 .. MaxVariables : From[n] = g[n]}
  <2>1. 0 \in P
    BY <1>0, <1>7, <1>8
  <2>2. ASSUME NEW n \in 0 .. MaxVariables - 1, n \in P PROVE n + 1 \in P
    <3>1. n + 1 \in 0 .. MaxVariables /\ n + 1 # 0 /\ (n + 1) - 1 = n
      BY <1>0
    <3>2. /\ From[n + 1] = IF t[n + 1] = Unused THEN From[n] ELSE Append(From[n], t[n + 1])
          /\ g[n + 1] = IF t[n + 1] = Unused THEN g[n] ELSE Append(g[n], t[n + 1])
      BY <1>7, <1>8, <3>1
    <3>3. QED
      BY <2>2, <3>1, <3>2
  <2> HIDE DEF P
  <2>3. \A n \in 0 .. MaxVariables : n \in P
    BY <1>0, <2>1, <2>2, UpTo
  <2>4. QED
    BY <2>3 DEF P
<1>11. QED
  BY <1>0, <1>5, <1>9, <1>10

(* FERRO.VAR holds exactly the variables of the table. *)
LEMMA SerializedHolds ==
  ASSUME NEW t \in Table
  PROVE  /\ Serialized(t) \in Records /\ Len(Serialized(t)) <= MaxVariables
         /\ \A i \in InUse(t) : \E m \in DOMAIN Serialized(t) : Serialized(t)[m] = t[i]
         /\ \A m \in DOMAIN Serialized(t) : \E i \in InUse(t) : Serialized(t)[m] = t[i]
<1>0. MaxVariables \in Nat
  BY StoreAssumption
<1>1. PICK g : /\ Run(g, <<>>, SerialStep(t), MaxVariables, Records)
               /\ Serialized(t) = g[MaxVariables]
  BY SerializeRuns
<1> DEFINE Holds(n) ==
             /\ g[n] \in Records /\ Len(g[n]) <= n
             /\ \A i \in InUse(t) : i <= n => \E m \in 1 .. Len(g[n]) : g[n][m] = t[i]
             /\ \A m \in 1 .. Len(g[n]) : \E i \in InUse(t) : g[n][m] = t[i]
           P == {n \in 0 .. MaxVariables : Holds(n)}
<1>2. 0 \in P
  <2>1. g[0] = <<>>
    BY <1>1 DEF Run
  <2>2. \A i \in InUse(t) : i \in Nat /\ 1 <= i
    BY SlotFacts
  <2>3. g[0] \in Records /\ Len(g[0]) = 0
    BY <2>1, EmptySeq DEF Records
  <2>4. Holds(0)
    BY <2>2, <2>3
  <2>5. QED
    BY <1>0, <2>4
<1>3. ASSUME NEW n \in 0 .. MaxVariables - 1, n \in P
      PROVE  n + 1 \in P
  <2>0. n \in Nat /\ n + 1 \in 1 .. MaxVariables /\ n \in 0 .. MaxVariables
        /\ (n + 1) - 1 = n /\ n + 1 \in Slots
    BY <1>0 DEF Slots
  <2>1. Holds(n) /\ g[n] \in Records
    BY <1>3
  <2>2. g[n + 1] = IF t[n + 1] = Unused THEN g[n] ELSE Append(g[n], t[n + 1])
    <3>1. g[n + 1] = SerialStep(t)[n + 1][g[n]]
      BY <1>1, <2>0 DEF Run
    <3>2. QED
      BY <2>0, <2>1, <3>1 DEF SerialStep
  <2>3. \A i \in InUse(t) : i \in Nat
    BY SlotFacts
  <2>4. CASE t[n + 1] = Unused
    <3>1. g[n + 1] = g[n]
      BY <2>2, <2>4
    <3>2. n + 1 \notin InUse(t)
      BY <2>4 DEF InUse
    <3>3. \A i \in InUse(t) : i <= n + 1 => i <= n
      BY <2>0, <2>3, <3>2
    <3>4. Len(g[n]) \in Nat
      BY <2>1 DEF Records
    <3>5. Len(g[n + 1]) <= n + 1
      BY <2>0, <2>1, <3>1, <3>4
    <3>6. Holds(n + 1)
      BY <2>1, <3>1, <3>3, <3>5
    <3> HIDE DEF Holds
    <3>7. QED
      BY <2>0, <3>6
  <2>5. CASE t[n + 1] # Unused
    <3>1. t[n + 1] \in Variable /\ n + 1 \in InUse(t)
      BY <2>0, <2>5 DEF Table, InUse
    <3>2. PICK s \in Seq(Variable) : s = g[n]
      BY <2>1 DEF Records
    <3>3. g[n + 1] = Append(s, t[n + 1]) /\ Len(s) \in Nat
      BY <2>2, <2>5, <3>2
    <3>4. /\ g[n + 1] \in Seq(Variable) /\ Len(g[n + 1]) = Len(s) + 1
          /\ \A m \in 1 .. Len(s) : g[n + 1][m] = s[m]
          /\ g[n + 1][Len(s) + 1] = t[n + 1]
      BY <3>1, <3>3, AppendProperties
    <3>5. Len(g[n + 1]) <= n + 1
      BY <2>0, <2>1, <3>2, <3>3, <3>4
    <3>6. ASSUME NEW i \in InUse(t), i <= n + 1
          PROVE  \E m \in 1 .. Len(g[n + 1]) : g[n + 1][m] = t[i]
      <4>1. CASE i = n + 1
        BY <3>3, <3>4, <4>1
      <4>2. CASE i # n + 1
        <5>1. i <= n
          BY <2>0, <2>3, <3>6, <4>2
        <5>2. PICK m \in 1 .. Len(s) : s[m] = t[i]
          BY <2>1, <3>2, <5>1
        <5>3. QED
          BY <3>3, <3>4, <5>2
      <4>3. QED
        BY <4>1, <4>2
    <3>7. ASSUME NEW m \in 1 .. Len(g[n + 1])
          PROVE  \E i \in InUse(t) : g[n + 1][m] = t[i]
      <4>1. CASE m = Len(s) + 1
        BY <3>1, <3>4, <4>1
      <4>2. CASE m # Len(s) + 1
        <5>1. m \in 1 .. Len(s)
          BY <3>3, <3>4, <4>2
        <5>2. QED
          BY <2>1, <3>2, <3>4, <5>1
      <4>3. QED
        BY <4>1, <4>2
    <3>8. Holds(n + 1)
      BY <3>4, <3>5, <3>6, <3>7 DEF Records
    <3> HIDE DEF Holds
    <3>9. QED
      BY <2>0, <3>8
  <2>6. QED
    BY <2>4, <2>5
<1> HIDE DEF P
<1>4. \A n \in 0 .. MaxVariables : n \in P
  BY <1>0, <1>2, <1>3, UpTo
<1>5. Holds(MaxVariables)
  BY <1>0, <1>4 DEF P
<1>6. DOMAIN g[MaxVariables] = 1 .. Len(g[MaxVariables])
  BY <1>5, LenProperties DEF Records
<1>7. \A i \in InUse(t) : i <= MaxVariables
  BY <1>0 DEF InUse, Slots
<1>8. QED
  BY <1>1, <1>5, <1>6, <1>7

-----------------------------------------------------------------------------
(* deserialize: merging a record keeps a table one set() can have made,    *)
(* and merging a variable the table already holds changes nothing.         *)
LEMMA MergeFacts ==
  ASSUME NEW t, Well(t), NEW v \in Variable
  PROVE  /\ Well(Merge(t, v))
         /\ (\E i \in InUse(t) : v = t[i]) => Merge(t, v) = t
<1>0. t \in Table /\ Unique(t) /\ Fits(t)
  BY DEF Well
<1>1. /\ KeyOf(v) \in Key /\ v.attributes \in Attributes /\ v.data \in Data
      /\ v = [name |-> KeyOf(v).name, guid |-> KeyOf(v).guid,
              attributes |-> v.attributes, data |-> v.data]
  BY DEF Variable, KeyOf, Key
<1>2. v.data # NoData
  BY <1>1, StoreAssumption
<1>3. Well(Merge(t, v))
  <2>1. CASE Settable(t, KeyOf(v), v.data)
    BY <1>1, <2>1, SetVarKeys DEF Merge
  <2>2. CASE ~Settable(t, KeyOf(v), v.data)
    BY <2>2 DEF Merge
  <2>3. QED
    BY <2>1, <2>2
<1>4. ASSUME NEW i \in InUse(t), v = t[i] PROVE Merge(t, v) = t
  <2>1. i \in SlotsOf(t, KeyOf(v)) /\ i \in Slots
    BY <1>4 DEF SlotsOf, InUse
  <2>2. Min(SlotsOf(t, KeyOf(v))) = i /\ SlotsOf(t, KeyOf(v)) # {}
    BY <1>0, <2>1, OnlySlot
  <2>3. ~TooLong(v.data)
    BY <1>0, <1>4 DEF Fits
  <2>4. Settable(t, KeyOf(v), v.data)
    BY <1>2, <2>2, <2>3 DEF Settable
  <2>5. Merge(t, v) = SetVar(t, KeyOf(v), v.attributes, v.data)
    BY <2>4 DEF Merge
  <2>6. SetVar(t, KeyOf(v), v.attributes, v.data) = [t EXCEPT ![i] = v]
    <3>1. SetVar(t, KeyOf(v), v.attributes, v.data) =
            [t EXCEPT ![i] = [name |-> KeyOf(v).name, guid |-> KeyOf(v).guid,
                              attributes |-> v.attributes, data |-> v.data]]
      BY <1>2, <2>2 DEF SetVar
    <3>2. QED
      BY <1>1, <3>1
  <2>7. [t EXCEPT ![i] = v] = t
    BY <1>0, <1>4, <2>1 DEF Table
  <2>8. QED
    BY <2>5, <2>6, <2>7
<1>5. QED
  BY <1>3, <1>4

MergeStep(records) ==
  [n \in 1 .. Len(records) |-> [t \in WellTable |-> Merge(t, records[n])]]

(* deserialize's loop over the records has a run, the table after each. *)
LEMMA DeserializeRuns ==
  ASSUME NEW t, Well(t), NEW records \in Records
  PROVE  \E g : /\ Run(g, t, MergeStep(records), Len(records), WellTable)
                /\ Deserialized(t, records) = g[Len(records)]
<1>0. PICK N \in Nat : N = Len(records)
  BY LenProperties DEF Records
<1>1. \A n \in 1 .. N : records[n] \in Variable
  BY <1>0, ElementOfSeq DEF Records
<1>2. \A n \in 1 .. N, x \in WellTable : Merge(x, records[n]) \in WellTable
  <2> SUFFICES ASSUME NEW n \in 1 .. N, NEW x \in WellTable
               PROVE  Merge(x, records[n]) \in WellTable
    OBVIOUS
  <2>1. Well(x) /\ records[n] \in Variable
    BY <1>1 DEF WellTable
  <2>2. Well(Merge(x, records[n]))
    BY <2>1, MergeFacts
  <2>3. QED
    BY <2>2 DEF WellTable, Well
<1>3. Steps(MergeStep(records), N, WellTable)
  BY <1>0, <1>2 DEF Steps, MergeStep
<1>4. t \in WellTable
  BY DEF Well, WellTable
<1>5. PICK g : Run(g, t, MergeStep(records), N, WellTable)
  BY <1>3, <1>4, Iterates
<1>6. \A n \in 1 .. N : g[n] = Merge(g[n - 1], records[n])
  <2> SUFFICES ASSUME NEW n \in 1 .. N PROVE g[n] = Merge(g[n - 1], records[n])
    OBVIOUS
  <2>1. n - 1 \in 0 .. N
    OBVIOUS
  <2>2. g[n - 1] \in WellTable /\ g[n] = MergeStep(records)[n][g[n - 1]]
    BY <1>5, <2>1 DEF Run
  <2>3. QED
    BY <1>0, <2>2 DEF MergeStep
<1> DEFINE Body(f) == [n \in 0 .. Len(records) |->
                         IF n = 0 THEN t ELSE Merge(f[n - 1], records[n])]
           Merged == CHOOSE f : f = Body(f)
<1>7. g = Body(g)
  <2>1. g \in [0 .. N -> WellTable] /\ g[0] = t
    BY <1>5 DEF Run
  <2>2. ASSUME NEW n \in 0 .. N PROVE g[n] = Body(g)[n]
    <3>1. CASE n = 0
      BY <1>0, <2>1, <3>1
    <3>2. CASE n # 0
      <4>1. n \in 1 .. N
        BY <3>2
      <4>2. QED
        BY <1>0, <1>6, <3>2, <4>1
    <3>3. QED
      BY <3>1, <3>2
  <2>3. DOMAIN g = 0 .. N /\ g = [n \in 0 .. N |-> g[n]]
    BY <2>1
  <2>4. QED
    BY <1>0, <2>2, <2>3
<1>8. Merged = Body(Merged)
  BY <1>7
<1>9. Deserialized(t, records) = Merged[Len(records)]
  BY DEF Deserialized
<1> HIDE DEF Merged
<1>10. \A n \in 0 .. N : Merged[n] = g[n]
  <2> DEFINE P == {n \in 0 .. N : Merged[n] = g[n]}
  <2>1. 0 \in P
    BY <1>0, <1>7, <1>8
  <2>2. ASSUME NEW n \in 0 .. N - 1, n \in P PROVE n + 1 \in P
    <3>1. n + 1 \in 0 .. N /\ n + 1 # 0 /\ (n + 1) - 1 = n
      OBVIOUS
    <3>2. /\ Merged[n + 1] = Merge(Merged[n], records[n + 1])
          /\ g[n + 1] = Merge(g[n], records[n + 1])
      BY <1>0, <1>7, <1>8, <3>1
    <3>3. QED
      BY <2>2, <3>1, <3>2
  <2> HIDE DEF P
  <2>3. \A n \in 0 .. N : n \in P
    BY <2>1, <2>2, UpTo
  <2>4. QED
    BY <2>3 DEF P
<1>11. QED
  BY <1>0, <1>5, <1>9, <1>10

LEMMA DeserializedWell ==
  ASSUME NEW t, Well(t), NEW records \in Records
  PROVE  Well(Deserialized(t, records))
<1>1. PICK g : /\ Run(g, t, MergeStep(records), Len(records), WellTable)
               /\ Deserialized(t, records) = g[Len(records)]
  BY DeserializeRuns
<1>2. Len(records) \in 0 .. Len(records)
  BY LenProperties DEF Records
<1>3. QED
  BY <1>1, <1>2 DEF Run, WellTable

(* Merging what serialize wrote into the table it was written from changes *)
(* nothing: no record is lost, added or moved to another slot.             *)
LEMMA RoundTrip ==
  ASSUME NEW t, Well(t)
  PROVE  Deserialized(t, Serialized(t)) = t
<1>0. t \in Table
  BY DEF Well
<1>1. PICK records \in Records :
        /\ records = Serialized(t)
        /\ \A m \in DOMAIN records : \E i \in InUse(t) : records[m] = t[i]
  BY <1>0, SerializedHolds
<1>2. PICK N \in Nat : N = Len(records) /\ DOMAIN records = 1 .. N
  BY LenProperties DEF Records
<1>3. PICK g : /\ Run(g, t, MergeStep(records), Len(records), WellTable)
               /\ Deserialized(t, records) = g[Len(records)]
  BY DeserializeRuns
<1> DEFINE P == {n \in 0 .. N : g[n] = t}
<1>4. 0 \in P
  BY <1>3 DEF Run
<1>5. ASSUME NEW n \in 0 .. N - 1, n \in P PROVE n + 1 \in P
  <2>1. n + 1 \in 1 .. N /\ (n + 1) - 1 = n /\ n + 1 \in 0 .. N
    OBVIOUS
  <2>2. t \in WellTable
    BY DEF Well, WellTable
  <2>3. g[n + 1] = MergeStep(records)[n + 1][g[n]]
    BY <1>2, <1>3, <2>1 DEF Run
  <2>4. g[n + 1] = Merge(t, records[n + 1])
    BY <1>2, <1>5, <2>1, <2>2, <2>3 DEF MergeStep
  <2>5. records[n + 1] \in Variable
    BY <1>2, <2>1, ElementOfSeq DEF Records
  <2>6. Merge(t, records[n + 1]) = t
    BY <1>1, <1>2, <2>1, <2>5, MergeFacts
  <2>7. QED
    BY <2>1, <2>4, <2>6
<1> HIDE DEF P
<1>6. \A n \in 0 .. N : n \in P
  BY <1>4, <1>5, UpTo
<1>7. QED
  BY <1>1, <1>2, <1>3, <1>6 DEF P

-----------------------------------------------------------------------------
(* The inductive invariant: the table is one set() can have made, the file *)
(* holds records, and the two properties themselves.                       *)
FileOK(f) == f = NoFile \/ (f \in Records /\ Len(f) <= MaxVariables)

HistoryOK ==
  /\ mounted \in BOOLEAN /\ usb_on \in BOOLEAN /\ in_app \in BOOLEAN
  /\ calls \in 0 .. MaxCalls /\ torn \in BOOLEAN /\ private \in BOOLEAN
  /\ outcome \in {"none", "saved", "too large", "sd error", "torn"}

NvInv ==
  /\ Well(store)
  /\ FileOK(file)
  /\ settings \in [Setting -> Value]
  /\ HistoryOK
  /\ LoadedVariablesKept
  /\ CacheMatchesStore

(* What a lookup of a setting decodes to is a value of that setting, and   *)
(* depends on nothing but the lookup.                                      *)
LEMMA DecodeFacts ==
  ASSUME NEW t \in Table, Unique(t)
  PROVE  /\ SettingsFrom(t) \in [Setting -> Value]
         /\ \A s \in Setting : [name |-> s, guid |-> Ferro] \in Key
<1>1. \A s \in Setting : Decode(t, s) \in Value
  <2> SUFFICES ASSUME NEW s \in Setting PROVE Decode(t, s) \in Value
    OBVIOUS
  <2>1. PICK v : v = Lookup(t, [name |-> s, guid |-> Ferro])
    OBVIOUS
  <2>2. Default[s] \in 0 .. 2
    BY NvAssumption DEF Value
  <2>3. QED
    BY <2>1, <2>2 DEF Decode, Value
<1>2. \A s \in Setting : [name |-> s, guid |-> Ferro] \in Key
  BY NvAssumption DEF Key
<1>3. QED
  BY <1>1, <1>2 DEF SettingsFrom

LEMMA KeysTyped ==
  ASSUME NEW t \in Table
  PROVE  Keys(t) \subseteq Key
BY SlotFacts DEF Keys

(* A saved file holds the keys of the table. *)
LEMMA SavedKeys ==
  ASSUME NEW t \in Table
  PROVE  Serialized(t) # NoFile /\ FileOK(Serialized(t)) /\ Keys(t) \subseteq FileKeys(Serialized(t))
<1>1. PICK r : r = Serialized(t)
  OBVIOUS
<1>2. /\ r \in Records /\ Len(r) <= MaxVariables
      /\ \A i \in InUse(t) : \E m \in DOMAIN r : r[m] = t[i]
  BY <1>1, SerializedHolds
<1>3. r # NoFile
  BY <1>2, NvAssumption DEF Records
<1>4. \A k \in Keys(t) : k \in FileKeys(r)
  BY <1>2, <1>3 DEF Keys, FileKeys
<1>5. QED
  BY <1>1, <1>2, <1>3, <1>4 DEF FileOK

(* Whatever a save leaves on the card is a file of records; only a save    *)
(* that says so writes all of the table, and only a torn one mixes old and *)
(* new records or loses old ones.                                          *)
LEMMA SaveLeaves ==
  ASSUME NEW t \in Table, NEW f, FileOK(f), NEW r \in SaveResults(t, f)
  PROVE  /\ FileOK(r.file)
         /\ r.ok \in {"saved", "too large", "sd error", "torn"}
         /\ r.ok = "saved" => r.file = Serialized(t)
         /\ r.ok \in {"too large", "sd error"} => r.file = f
<1> DEFINE new == Serialized(t)
           old == IF f = NoFile THEN <<>> ELSE f
           size == Min({Len(old), Len(new)})
           Mix(cut) == [n \in 1 .. size |-> IF n <= cut THEN new[n] ELSE old[n]]
           Cuts == IF f = NoFile THEN {} ELSE 1 .. Len(new)
<1>1. \/ r = [file |-> f, ok |-> "too large"]
      \/ r = [file |-> new, ok |-> "saved"]
      \/ r = [file |-> f, ok |-> "sd error"]
      \/ \E cut \in Cuts : r = [file |-> Mix(cut), ok |-> "torn"]
      \/ \E left \in Len(new) .. (Len(old) - 1) :
           r = [file |-> SubSeq(old, 1, left), ok |-> "torn"]
  BY DEF SaveResults
<1>2. FileOK(new) /\ new \in Records
  BY SavedKeys, SerializedHolds
<1>3. ASSUME NEW cut \in Cuts PROVE FileOK(Mix(cut))
  <2>1. f \in Records /\ Len(f) <= MaxVariables /\ old = f
    BY <1>3 DEF FileOK
  <2> HIDE DEF new, old
  <2>2. /\ Len(old) \in Nat /\ Len(new) \in Nat /\ MaxVariables \in Nat
        /\ \A n \in 1 .. Len(new) : new[n] \in Variable
        /\ \A n \in 1 .. Len(old) : old[n] \in Variable
    BY <1>2, <2>1, ElementOfSeq, LenProperties, StoreAssumption DEF Records
  <2>3. size \in Nat /\ size <= Len(old) /\ size <= Len(new)
    <3>1. {Len(old), Len(new)} \subseteq Nat /\ {Len(old), Len(new)} # {}
      BY <2>2
    <3>2. QED
      BY <3>1, MinIn
  <2> HIDE DEF size
  <2>4. \A n \in 1 .. size : (IF n <= cut THEN new[n] ELSE old[n]) \in Variable
    BY <2>2, <2>3
  <2>5. Mix(cut) \in [1 .. size -> Variable]
    BY <2>4
  <2>6. Mix(cut) \in Seq(Variable) /\ Len(Mix(cut)) = size
    BY <2>3, <2>5
  <2>7. size <= MaxVariables
    BY <2>1, <2>2, <2>3
  <2>8. QED
    BY <2>6, <2>7 DEF FileOK, Records
<1>9. ASSUME NEW left \in Len(new) .. (Len(old) - 1) PROVE FileOK(SubSeq(old, 1, left))
  <2>1. f # NoFile
    <3>1. SUFFICES ASSUME f = NoFile PROVE FALSE
      OBVIOUS
    <3>2. Len(old) = 0
      BY <3>1
    <3>3. Len(new) \in Nat
      BY <1>2, LenProperties DEF Records
    <3>4. QED
      BY <3>2, <3>3
  <2>2. f \in Records /\ Len(f) <= MaxVariables /\ old = f
    BY <2>1 DEF FileOK
  <2>3. f \in Seq(Variable) /\ Len(f) \in Nat /\ Len(new) \in Nat /\ MaxVariables \in Nat
    BY <1>2, <2>2, LenProperties, StoreAssumption DEF Records
  <2> HIDE DEF new, old
  <2>4. left \in 0 .. Len(f)
    BY <2>2, <2>3
  <2>5. SubSeq(f, 1, left) \in Seq(Variable) /\ Len(SubSeq(f, 1, left)) = left
    BY <2>3, <2>4
  <2>6. QED
    BY <2>2, <2>3, <2>4, <2>5 DEF FileOK, Records
<1> HIDE DEF new, old, Mix, Cuts
<1>4. CASE r = [file |-> f, ok |-> "too large"]
  BY <1>4
<1>5. CASE r = [file |-> new, ok |-> "saved"]
  BY <1>2, <1>5 DEF new
<1>6. CASE r = [file |-> f, ok |-> "sd error"]
  BY <1>6
<1>7. ASSUME NEW cut \in Cuts, r = [file |-> Mix(cut), ok |-> "torn"]
      PROVE  FileOK(r.file) /\ r.ok = "torn"
  BY <1>3, <1>7
<1>10. ASSUME NEW left \in Len(new) .. (Len(old) - 1),
              r = [file |-> SubSeq(old, 1, left), ok |-> "torn"]
       PROVE  FileOK(r.file) /\ r.ok = "torn"
  BY <1>9, <1>10
<1>8. QED
  BY <1>1, <1>4, <1>5, <1>6, <1>7, <1>10

(* A save that follows a step: what it does to the file, to its outcome    *)
(* and to the torn flag keeps the card's half of the invariant.            *)
LEMMA SaveKeeps ==
  ASSUME NvInv, NEW t \in Table, NEW K, K \subseteq Keys(t), K \subseteq kept, SaveTo(t)
  PROVE  /\ FileOK(file') /\ torn' \in BOOLEAN
         /\ outcome' \in {"none", "saved", "too large", "sd error", "torn"}
         /\ ~torn' => K \subseteq FileKeys(file')
<1>0. FileOK(file) /\ torn \in BOOLEAN /\ (~torn => kept \subseteq FileKeys(file))
  BY DEF NvInv, HistoryOK, LoadedVariablesKept
<1>1. PICK r \in SaveResults(t, file) :
        /\ file' = r.file
        /\ outcome' = r.ok
        /\ torn' = ((torn \/ r.ok = "torn") /\ r.ok # "saved")
  BY DEF SaveTo
<1>2. /\ FileOK(r.file)
      /\ r.ok \in {"saved", "too large", "sd error", "torn"}
      /\ r.ok = "saved" => r.file = Serialized(t)
      /\ r.ok \in {"too large", "sd error"} => r.file = file
  BY <1>0, SaveLeaves
<1>3. ASSUME ~torn' PROVE K \subseteq FileKeys(file')
  <2>1. CASE r.ok = "saved"
    BY <1>1, <1>2, <2>1, SavedKeys
  <2>2. CASE r.ok # "saved"
    <3>1. ~torn /\ r.ok # "torn"
      BY <1>1, <1>3, <2>2
    <3>2. QED
      BY <1>0, <1>1, <1>2, <2>2, <3>1
  <2>3. QED
    BY <2>1, <2>2
<1>4. QED
  BY <1>1, <1>2, <1>3

LEMMA AutosaveKeeps ==
  ASSUME NvInv, NEW t \in Table, NEW K, K \subseteq Keys(t), K \subseteq kept,
         Autosave(t) \/ (outcome' = "none" /\ UNCHANGED <<file, torn>>)
  PROVE  /\ FileOK(file') /\ torn' \in BOOLEAN
         /\ outcome' \in {"none", "saved", "too large", "sd error", "torn"}
         /\ ~torn' => K \subseteq FileKeys(file')
<1>1. CASE SaveTo(t)
  BY <1>1, SaveKeeps
<1>2. CASE outcome' = "none" /\ UNCHANGED <<file, torn>>
  BY <1>2 DEF NvInv, HistoryOK, LoadedVariablesKept
<1>3. QED
  BY <1>1, <1>2 DEF Autosave

-----------------------------------------------------------------------------
LEMMA NvInit == Init => NvInv
<1> SUFFICES ASSUME Init PROVE NvInv
  OBVIOUS
<1>1. Well(BootStore) /\ BootStore \in Table /\ Unique(BootStore)
  BY BootStoreWell DEF Well
<1>2. SettingsFrom(BootStore) \in [Setting -> Value]
  BY <1>1, DecodeFacts
<1>3. MaxCalls \in Nat
  BY NvAssumption
<1>4. HistoryOK
  <2>1. usb_on \in BOOLEAN
    BY DEF Init
  <2>2. calls \in 0 .. MaxCalls
    BY <1>3 DEF Init
  <2>3. mounted \in BOOLEAN /\ in_app \in BOOLEAN /\ torn \in BOOLEAN /\ private \in BOOLEAN
    BY DEF Init
  <2>4. outcome = "none"
    BY DEF Init
  <2>5. QED
    BY <2>1, <2>2, <2>3, <2>4 DEF HistoryOK
<1>5. FileOK(file) /\ LoadedVariablesKept /\ CacheMatchesStore
  BY DEF Init, FileOK, LoadedVariablesKept, CacheMatchesStore
<1>6. QED
  BY <1>1, <1>2, <1>4, <1>5 DEF Init, NvInv

LEMMA RebootKeeps == NvInv /\ Reboot => NvInv'
<1> SUFFICES ASSUME NvInv, Reboot PROVE NvInv'
  OBVIOUS
<1>1. Well(BootStore) /\ BootStore \in Table /\ Unique(BootStore)
  BY BootStoreWell DEF Well
<1>2. SettingsFrom(BootStore) \in [Setting -> Value]
  BY <1>1, DecodeFacts
<1>3. HistoryOK'
  BY DEF Reboot, NvInv, HistoryOK
<1>4. FileOK(file)' /\ LoadedVariablesKept' /\ CacheMatchesStore'
  BY DEF Reboot, NvInv, FileOK, LoadedVariablesKept, CacheMatchesStore
<1>5. Well(store')
  BY <1>1 DEF Reboot
<1>6. settings' \in [Setting -> Value]
  BY <1>2 DEF Reboot
<1>7. QED
  BY <1>3, <1>4, <1>5, <1>6 DEF NvInv

(* A successful set() under a key that is no setting's changes no setting. *)
LEMMA OtherKeys ==
  ASSUME NEW t \in Table, Unique(t), NEW k \in Key, NEW a \in Attributes,
         NEW d \in Data \cup {NoData}, Settable(t, k, d)
  PROVE  \A s \in Setting : [name |-> s, guid |-> Ferro] # k =>
           Decode(SetVar(t, k, a, d), s) = Decode(t, s)
<1> SUFFICES ASSUME NEW s \in Setting, [name |-> s, guid |-> Ferro] # k
             PROVE  Decode(SetVar(t, k, a, d), s) = Decode(t, s)
  OBVIOUS
<1>1. [name |-> s, guid |-> Ferro] \in Key
  BY DecodeFacts
<1>2. Lookup(SetVar(t, k, a, d), [name |-> s, guid |-> Ferro]) =
        Lookup(t, [name |-> s, guid |-> Ferro])
  BY <1>1, SetVarLookup
<1>3. QED
  BY <1>2 DEF Decode

LEMMA SetVariableKeeps ==
  ASSUME NvInv, NEW k \in Key, NEW a \in Attributes, NEW d \in Data \cup {NoData},
         SetVariable(k, a, d)
  PROVE  NvInv'
<1>0. Well(store) /\ store \in Table /\ Unique(store) /\ Settable(store, k, d)
  BY DEF NvInv, Well, SetVariable
<1>1. store' = SetVar(store, k, a, d)
  BY DEF SetVariable
<1>2. /\ Well(store') /\ store' \in Table
      /\ d = NoData => Keys(store) \ {k} \subseteq Keys(store')
      /\ d # NoData => Keys(store) \subseteq Keys(store')
  BY <1>0, <1>1, SetVarKeys DEF Well
<1>3. kept' \subseteq kept /\ kept' \subseteq Keys(store')
  <2>1. kept \subseteq Keys(store) /\ kept' = IF d = NoData THEN kept \ {k} ELSE kept
    BY DEF NvInv, LoadedVariablesKept, SetVariable
  <2>2. QED
    BY <1>2, <2>1
<1>4. Autosave(store') \/ (outcome' = "none" /\ UNCHANGED <<file, torn>>)
  BY DEF SetVariable
<1>5. PICK t \in Table : t = store'
  BY <1>2
<1>6. /\ FileOK(file') /\ torn' \in BOOLEAN
      /\ outcome' \in {"none", "saved", "too large", "sd error", "torn"}
      /\ ~torn' => kept' \subseteq FileKeys(file')
  <2>1. PICK K : K = kept'
    OBVIOUS
  <2>2. Autosave(t) \/ (outcome' = "none" /\ UNCHANGED <<file, torn>>)
    BY <1>4, <1>5
  <2>3. QED
    BY <1>3, <1>5, <2>1, <2>2, AutosaveKeeps
<1>7. CacheMatchesStore'
  <2> SUFFICES ASSUME private' PROVE settings' = SettingsFrom(store')
    BY DEF CacheMatchesStore
  <2>1. private /\ k.guid # Ferro /\ settings' = settings
    BY DEF SetVariable
  <2>2. settings = SettingsFrom(store)
    BY <2>1 DEF NvInv, CacheMatchesStore
  <2>3. \A s \in Setting : Decode(store', s) = Decode(store, s)
    <3> SUFFICES ASSUME NEW s \in Setting PROVE Decode(store', s) = Decode(store, s)
      OBVIOUS
    <3>1. [name |-> s, guid |-> Ferro] # k
      BY <2>1
    <3>2. QED
      BY <1>0, <1>1, <3>1, OtherKeys
  <2>4. QED
    BY <2>1, <2>2, <2>3 DEF SettingsFrom
<1>8. HistoryOK'
  <2>1. calls \in 0 .. MaxCalls /\ MaxCalls \in Nat
    BY NvAssumption DEF NvInv, HistoryOK
  <2>2. calls' \in 0 .. MaxCalls
    BY <2>1 DEF SetVariable
  <2>3. private' \in BOOLEAN
    BY DEF SetVariable
  <2>4. mounted' \in BOOLEAN /\ usb_on' \in BOOLEAN /\ in_app' \in BOOLEAN
    BY DEF SetVariable, NvInv, HistoryOK
  <2>5. QED
    BY <1>6, <2>2, <2>3, <2>4 DEF HistoryOK
<1>9. settings' \in [Setting -> Value]
  BY DEF SetVariable, NvInv
<1>10. QED
  BY <1>2, <1>3, <1>6, <1>7, <1>8, <1>9 DEF NvInv, LoadedVariablesKept

(* A menu change that fits reads back as the value the menu shows.  The    *)
(* byte written for b exists by the assumption on payloads.                *)
LEMMA SettingReadsBack ==
  ASSUME NEW t \in Table, Unique(t), NEW s \in Setting, NEW b \in 0 .. (Themes[s] - 1),
         NEW d, d = (CHOOSE e \in DOMAIN ByteOf : ByteOf[e] = b)
  PROVE  /\ d \in Data /\ d # NoData
         /\ Settable(t, [name |-> s, guid |-> Ferro], d) =>
              Decode(SetVar(t, [name |-> s, guid |-> Ferro], NV, d), s) = b
<1>1. PICK k \in Key : k = [name |-> s, guid |-> Ferro]
  BY DecodeFacts
<1>2. \E e \in DOMAIN ByteOf : ByteOf[e] = b
  BY NvAssumption
<1>3. d \in DOMAIN ByteOf /\ ByteOf[d] = b
  BY <1>2
<1>4. d \in Data /\ d # NoData
  BY <1>3, NvAssumption, StoreAssumption
<1>5. ASSUME Settable(t, k, d) PROVE Decode(SetVar(t, k, NV, d), s) = b
  <2>1. PICK v : v = Lookup(SetVar(t, k, NV, d), k)
    OBVIOUS
  <2>2. v \in Variable /\ v.data = d
    BY <1>4, <1>5, <2>1, SetVarLookup, NvAssumption
  <2>3. v # Unused
    BY <2>2, StoreAssumption
  <2>4. Themes[s] \in {2, 3}
    BY NvAssumption
  <2>5. b \in 0 .. 2 /\ (Themes[s] = 2 => b \in 0 .. 1)
    BY <2>4
  <2>6. Decode(SetVar(t, k, NV, d), s) =
          IF Themes[s] = 2 THEN (IF b = 0 THEN 0 ELSE 1) ELSE IF b \in 1 .. 2 THEN b ELSE 0
    BY <1>1, <1>3, <2>1, <2>2, <2>3 DEF Decode
  <2>7. QED
    BY <2>5, <2>6
<1>6. QED
  BY <1>1, <1>4, <1>5

LEMMA ChangeSettingKeeps ==
  ASSUME NvInv, NEW s \in Setting, NEW b \in 0 .. (Themes[s] - 1), ChangeSetting(s, b)
  PROVE  NvInv'
<1>1. PICK k \in Key : k = [name |-> s, guid |-> Ferro]
  BY DecodeFacts, BootStoreWell DEF Well
<1>2. PICK d : d = (CHOOSE e \in DOMAIN ByteOf : ByteOf[e] = b)
  OBVIOUS
<1>3. /\ store' = IF Settable(store, k, d) THEN SetVar(store, k, NV, d) ELSE store
      /\ Autosave(IF Settable(store, k, d) THEN SetVar(store, k, NV, d) ELSE store)
      /\ settings' = [settings EXCEPT ![s] = b]
      /\ private' = (private /\ Settable(store, k, d))
      /\ calls < MaxCalls /\ calls' = calls + 1
      /\ in_app' = FALSE
      /\ UNCHANGED <<mounted, usb_on, kept>>
  BY <1>1, <1>2 DEF ChangeSetting
<1>4. Well(store) /\ store \in Table /\ Unique(store)
  BY DEF NvInv, Well
<1>5. /\ d \in Data \cup {NoData} /\ d # NoData
      /\ Settable(store, k, d) => Decode(SetVar(store, k, NV, d), s) = b
  BY <1>1, <1>2, <1>4, SettingReadsBack
<1>6. NV \in Attributes
  BY NvAssumption
<1>7. Well(store') /\ store' \in Table /\ Keys(store) \subseteq Keys(store')
  <2>1. CASE Settable(store, k, d)
    <3>1. store' = SetVar(store, k, NV, d)
      BY <1>3, <2>1
    <3>2. QED
      BY <1>4, <1>5, <1>6, <2>1, <3>1, SetVarKeys DEF Well
  <2>2. CASE ~Settable(store, k, d)
    BY <1>3, <1>4, <2>2
  <2>3. QED
    BY <2>1, <2>2
<1>8. kept' \subseteq kept /\ kept' \subseteq Keys(store')
  BY <1>3, <1>7 DEF NvInv, LoadedVariablesKept
<1>9. /\ FileOK(file') /\ torn' \in BOOLEAN
      /\ outcome' \in {"none", "saved", "too large", "sd error", "torn"}
      /\ ~torn' => kept' \subseteq FileKeys(file')
  <2>1. PICK t \in Table : t = store'
    BY <1>7
  <2>2. PICK K : K = kept'
    OBVIOUS
  <2>3. Autosave(t)
    BY <1>3, <2>1
  <2>4. QED
    BY <1>8, <2>1, <2>2, <2>3, AutosaveKeeps
<1>10. settings \in [Setting -> Value] /\ b \in Value
  BY NvAssumption DEF NvInv, Value
<1>11. settings' \in [Setting -> Value]
  BY <1>3, <1>10
<1>12. CacheMatchesStore'
  <2> SUFFICES ASSUME private' PROVE settings' = SettingsFrom(store')
    BY DEF CacheMatchesStore
  <2>1. private /\ Settable(store, k, d) /\ store' = SetVar(store, k, NV, d)
    BY <1>3
  <2>2. settings = SettingsFrom(store)
    BY <2>1 DEF NvInv, CacheMatchesStore
  <2>3. Decode(store', s) = b
    BY <1>5, <2>1
  <2>4. \A x \in Setting \ {s} : Decode(store', x) = Decode(store, x)
    <3> SUFFICES ASSUME NEW x \in Setting, x # s
                 PROVE  Decode(store', x) = Decode(store, x)
      OBVIOUS
    <3>1. [name |-> x, guid |-> Ferro] # k
      BY <1>1
    <3>2. QED
      BY <1>4, <1>5, <1>6, <2>1, <3>1, OtherKeys
  <2>5. \A x \in Setting : settings'[x] = Decode(store', x)
    <3> SUFFICES ASSUME NEW x \in Setting PROVE settings'[x] = Decode(store', x)
      OBVIOUS
    <3>1. CASE x = s
      BY <1>3, <1>10, <2>3, <3>1
    <3>2. CASE x # s
      BY <1>3, <1>10, <2>2, <2>4, <3>2 DEF SettingsFrom
    <3>3. QED
      BY <3>1, <3>2
  <2>6. QED
    BY <1>11, <2>5 DEF SettingsFrom
<1>13. HistoryOK'
  <2>1. calls \in 0 .. MaxCalls /\ MaxCalls \in Nat
    BY NvAssumption DEF NvInv, HistoryOK
  <2>2. calls' \in 0 .. MaxCalls
    BY <1>3, <2>1
  <2>3. private' \in BOOLEAN
    BY <1>3
  <2>4. mounted' \in BOOLEAN /\ usb_on' \in BOOLEAN /\ in_app' \in BOOLEAN
    BY <1>3 DEF NvInv, HistoryOK
  <2>5. QED
    BY <1>9, <2>2, <2>3, <2>4 DEF HistoryOK
<1>14. QED
  BY <1>7, <1>8, <1>9, <1>11, <1>12, <1>13 DEF NvInv, LoadedVariablesKept

LEMMA BootFromSdKeeps == NvInv /\ BootFromSd => NvInv'
<1> SUFFICES ASSUME NvInv, BootFromSd PROVE NvInv'
  OBVIOUS
<1>1. /\ HistoryOK'
      /\ FileOK(file) /\ file' = file /\ torn' = torn /\ private' = private
  BY DEF BootFromSd, NvInv, HistoryOK
<1>2. CASE UNCHANGED <<store, settings, kept>>
  <2>1. LoadedVariablesKept' /\ CacheMatchesStore'
    BY <1>1, <1>2 DEF NvInv, LoadedVariablesKept, CacheMatchesStore
  <2>2. QED
    BY <1>1, <1>2, <2>1 DEF NvInv
<1>3. CASE BootLoads
  <2>1. file \in Records
    BY <1>1, <1>3 DEF FileOK, BootLoads
  <2>2. Well(store')
    BY <1>3, <2>1, DeserializedWell DEF BootLoads, NvInv
  <2>3. settings' = SettingsFrom(store') /\ settings' \in [Setting -> Value]
    <3>1. PICK t \in Table : t = store' /\ Unique(t)
      BY <2>2 DEF Well
    <3>2. settings' = SettingsFrom(t)
      BY <1>3, <3>1 DEF BootLoads
    <3>3. QED
      BY <3>1, <3>2, DecodeFacts
  <2>4. kept' \subseteq Keys(store') /\ kept' \subseteq FileKeys(file')
    BY <1>1, <1>3 DEF BootLoads
  <2>5. LoadedVariablesKept' /\ CacheMatchesStore'
    BY <2>3, <2>4 DEF LoadedVariablesKept, CacheMatchesStore
  <2>6. QED
    BY <1>1, <2>2, <2>3, <2>5 DEF NvInv
<1>4. QED
  BY <1>2, <1>3 DEF BootFromSd

LEMMA SaveVariablesKeeps == NvInv /\ SaveVariablesToSd => NvInv'
<1> SUFFICES ASSUME NvInv, SaveVariablesToSd PROVE NvInv'
  OBVIOUS
<1>1. store \in Table /\ SaveTo(store)
  BY DEF NvInv, Well, SaveVariablesToSd
<1>2. kept' \subseteq kept /\ kept' \subseteq Keys(store) /\ store' = store
  BY DEF SaveVariablesToSd
<1>3. /\ FileOK(file') /\ torn' \in BOOLEAN
      /\ outcome' \in {"none", "saved", "too large", "sd error", "torn"}
      /\ ~torn' => kept' \subseteq FileKeys(file')
  <2>1. PICK K : K = kept'
    OBVIOUS
  <2>2. QED
    BY <1>1, <1>2, <2>1, SaveKeeps
<1>4. HistoryOK'
  <2>1. mounted' \in BOOLEAN /\ in_app' \in BOOLEAN
    BY DEF SaveVariablesToSd
  <2>2. usb_on' \in BOOLEAN /\ private' \in BOOLEAN /\ calls' \in 0 .. MaxCalls
    BY DEF SaveVariablesToSd, NvInv, HistoryOK
  <2>3. QED
    BY <1>3, <2>1, <2>2 DEF HistoryOK
<1>5. LoadedVariablesKept'
  BY <1>2, <1>3 DEF LoadedVariablesKept
<1>6. CacheMatchesStore'
  BY DEF SaveVariablesToSd, NvInv, CacheMatchesStore
<1>7. Well(store)' /\ settings' \in [Setting -> Value]
  BY DEF SaveVariablesToSd, NvInv
<1>8. QED
  BY <1>3, <1>4, <1>5, <1>6, <1>7 DEF NvInv

LEMMA NvStep == NvInv /\ [Next]_vars => NvInv'
<1> SUFFICES ASSUME NvInv, [Next]_vars PROVE NvInv'
  OBVIOUS
<1>1. CASE Reboot
  BY <1>1, RebootKeeps
<1>2. ASSUME NEW k \in Key, NEW a \in Attributes, NEW d \in Data \cup {NoData},
             SetVariable(k, a, d)
      PROVE  NvInv'
  BY <1>2, SetVariableKeeps
<1>3. ASSUME NEW s \in Setting, NEW b \in 0 .. (Themes[s] - 1), ChangeSetting(s, b)
      PROVE  NvInv'
  BY <1>3, ChangeSettingKeeps
<1>4. CASE BootFromSd
  BY <1>4, BootFromSdKeeps
<1>5. CASE SaveVariablesToSd
  BY <1>5, SaveVariablesKeeps
<1>6. CASE UNCHANGED vars
  BY <1>6 DEF NvInv, HistoryOK, LoadedVariablesKept, CacheMatchesStore,
              vars, ramVars, history
<1>7. QED
  BY <1>1, <1>2, <1>3, <1>4, <1>5, <1>6 DEF Next

LEMMA NvInvHolds == Spec => []NvInv
<1>1. Init => NvInv
  BY NvInit
<1>2. NvInv /\ [Next]_vars => NvInv'
  BY NvStep
<1>3. QED
  BY <1>1, <1>2, PTL DEF Spec

-----------------------------------------------------------------------------
(* Every variable has its type: no save, however it fails, leaves a file   *)
(* longer than the table or with anything but records in it.               *)
THEOREM NvTypeCorrect == Spec => []TypeOK
<1>1. NvInv => TypeOK
  <2> SUFFICES ASSUME NvInv PROVE TypeOK
    OBVIOUS
  <2>1. store \in Table /\ kept \subseteq Key
    BY KeysTyped DEF NvInv, Well, LoadedVariablesKept
  <2>2. file = NoFile \/ (Len(file) <= MaxVariables /\ \A n \in DOMAIN file : file[n] \in Variable)
    <3>1. ASSUME file \in Records PROVE \A n \in DOMAIN file : file[n] \in Variable
      BY <3>1, ElementOfSeq, LenProperties DEF Records
    <3>2. QED
      BY <3>1 DEF NvInv, FileOK
  <2>3. QED
    BY <2>1, <2>2 DEF NvInv, HistoryOK, TypeOK, Table
<1>2. QED
  BY <1>1, NvInvHolds, PTL

(* Variables a session merged from the card completely stay in the live    *)
(* store, and on the card unless a save was torn, until someone deletes    *)
(* them: persist::load before persist::save is enough to lose nothing.     *)
THEOREM NothingLoadedIsLost == Spec => []LoadedVariablesKept
<1>1. NvInv => LoadedVariablesKept
  BY DEF NvInv
<1>2. QED
  BY <1>1, NvInvHolds, PTL

(* While only the menu changes settings, and each change fits, settings.rs *)
(* caches what GetVariable would return.                                   *)
THEOREM CacheIsTheStore == Spec => []CacheMatchesStore
<1>1. NvInv => CacheMatchesStore
  BY DEF NvInv
<1>2. QED
  BY <1>1, NvInvHolds, PTL

(* BOOT FROM SD with the card in sync changes no variable and no setting:  *)
(* deserialize undoes serialize, for every table the calls can make.       *)
THEOREM ReloadIsIdentity == Spec => ReloadChangesNothing
<1> DEFINE Reload == BootFromSd /\ InSync => store' = store /\ (private => settings' = settings)
<1>1. NvInv /\ [Next]_vars => [Reload]_vars
  <2> SUFFICES ASSUME NvInv, BootFromSd, InSync
               PROVE  store' = store /\ (private => settings' = settings)
    OBVIOUS
  <2>1. CASE UNCHANGED <<store, settings, kept>>
    BY <2>1
  <2>2. CASE BootLoads
    <3>1. Deserialized(store, file) = store
      BY RoundTrip DEF NvInv, InSync
    <3>2. store' = store /\ settings' = SettingsFrom(store)
      BY <2>2, <3>1 DEF BootLoads
    <3>3. private => settings = SettingsFrom(store)
      BY DEF NvInv, CacheMatchesStore
    <3>4. QED
      BY <3>2, <3>3
  <2>3. QED
    BY <2>1, <2>2 DEF BootFromSd
<1>2. QED
  BY <1>1, NvInvHolds, PTL DEF Spec, ReloadChangesNothing
=============================================================================
