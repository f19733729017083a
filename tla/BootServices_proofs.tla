------------------------- MODULE BootServices_proofs -------------------------
(***************************************************************************)
(* Machine-checked proofs about Boot Services, for every memory layout,    *)
(* every set of page counts that does not overflow u64, and every table    *)
(* size: first the protocol database by itself, then the allocator, the    *)
(* ExitBootServices handshake, the images and the memory map.              *)
(***************************************************************************)
EXTENDS BootServices, Loops, FiniteSetTheorems, TLAPS

(* install and uninstall keep a table entry well formed and in use. *)
LEMMA PutType ==
  ASSUME NEW e \in HandleEntry, NEW g \in Guid, NEW p \in Interface,
         \E s \in Slot : e.protocols[s] = NoEntry
  PROVE  Put(e, g, p) \in HandleEntry /\ Put(e, g, p).in_use = e.in_use
<1> DEFINE open == {s \in Slot : e.protocols[s] = NoEntry}
<1>1. open \subseteq Nat /\ open # {}
  BY DbAssumption DEF Slot
<1>2. Min(open) \in Slot
  BY <1>1, MinIn
<1>3. [guid |-> g, interface |-> p] \in Entry
  BY DEF Entry
<1> HIDE DEF open
<1>4. Put(e, g, p) = [e EXCEPT !.protocols[Min(open)] = [guid |-> g, interface |-> p]]
  BY DEF Put, open
<1>5. QED
  BY <1>2, <1>3, <1>4 DEF HandleEntry

(* uninstall keeps a table entry well formed and in use. *)
LEMMA DropType ==
  ASSUME NEW e \in HandleEntry, NEW g \in Guid
  PROVE  Drop(e, g) \in HandleEntry /\ Drop(e, g).in_use = e.in_use
<1> DEFINE held == {s \in Slot : e.protocols[s] # NoEntry /\ e.protocols[s].guid = g}
<1>1. CASE held = {}
  BY <1>1 DEF Drop
<1>2. CASE held # {}
  <2>1. held \subseteq Nat
    BY DbAssumption DEF Slot
  <2>2. Min(held) \in Slot
    BY <1>2, <2>1, MinIn
  <2> HIDE DEF held
  <2>3. Drop(e, g) = [e EXCEPT !.protocols[Min(held)] = NoEntry]
    BY <1>2 DEF Drop, held
  <2>4. QED
    BY <2>2, <2>3 DEF HandleEntry
<1>3. QED
  BY <1>1, <1>2

(* A handle find_or_create_handle returns is well formed. *)
LEMMA FreshType ==
  /\ EmptyHandle \in HandleEntry
  /\ Fresh \in HandleEntry /\ Fresh.in_use
  /\ \E s \in Slot : Fresh.protocols[s] = NoEntry
<1>1. EmptyHandle \in HandleEntry
  BY DEF EmptyHandle, HandleEntry
<1>2. 1 \in Slot
  BY DbAssumption DEF Slot
<1>3. QED
  BY <1>1, <1>2 DEF EmptyHandle, HandleEntry, Fresh

(* Replacing one live entry by a live entry, or one vacant entry by a      *)
(* fresh one, keeps the table well formed.                                 *)
LEMMA TableUpdate ==
  ASSUME DbTypeOK, NEW i \in Index, NEW e \in HandleEntry, e.in_use,
         handles' = [handles EXCEPT ![i] = e]
  PROVE  DbTypeOK'
  BY DEF DbTypeOK

(* Every database operation keeps the table well formed. *)
LEMMA DbStepType == DbTypeOK /\ [DbNext]_handles => DbTypeOK'
<1> SUFFICES ASSUME DbTypeOK, [DbNext]_handles PROVE DbTypeOK'
  OBVIOUS
<1>0. \A i \in Index : handles[i] \in HandleEntry
  BY DEF DbTypeOK
<1>v. Vacant # {} => Min(Vacant) \in Index
  <2>1. Vacant \subseteq Nat
    BY DbAssumption DEF Vacant, Index
  <2>2. QED
    BY <2>1, MinIn DEF Vacant
<1>1. ASSUME NEW g \in Guid, NEW p \in Interface, InstallOnNew(g, p)
      PROVE  DbTypeOK'
  BY <1>1, <1>v, FreshType, PutType, TableUpdate DEF InstallOnNew
<1>2. ASSUME NEW i \in Index, NEW g \in Guid, NEW p \in Interface, InstallOn(i, g, p)
      PROVE  DbTypeOK'
  <2>1. handles[i].in_use /\ \E s \in Slot : handles[i].protocols[s] = NoEntry
    BY <1>2 DEF InstallOn, Live, OpenSlots
  <2>2. Put(handles[i], g, p) \in HandleEntry /\ Put(handles[i], g, p).in_use
    BY <1>0, <2>1, PutType
  <2>3. QED
    BY <1>2, <2>2, TableUpdate DEF InstallOn
<1>3. ASSUME InstallFails PROVE DbTypeOK'
  BY <1>3 DEF InstallFails, DbTypeOK
<1>4. ASSUME NEW i \in Index, NEW g \in Guid, NEW p \in Interface, Reinstall(i, g, p)
      PROVE  DbTypeOK'
  <2> DEFINE d == Drop(handles[i], g)
  <2>1. d \in HandleEntry /\ d.in_use
    BY <1>0, <1>4, DropType DEF Reinstall, Live
  <2> HIDE DEF d
  <2>2. CASE \E s \in Slot : d.protocols[s] = NoEntry
    <3>1. Put(d, g, p) \in HandleEntry /\ Put(d, g, p).in_use
      BY <2>1, <2>2, PutType
    <3>2. handles' = [handles EXCEPT ![i] = Put(d, g, p)]
      BY <1>4, <2>2 DEF Reinstall, d
    <3>3. QED
      BY <3>1, <3>2, TableUpdate
  <2>3. CASE ~ \E s \in Slot : d.protocols[s] = NoEntry
    BY <1>4, <2>3 DEF Reinstall, d, DbTypeOK
  <2>4. QED
    BY <2>2, <2>3
<1>5. ASSUME NEW i \in Index, NEW g \in Guid, Uninstall(i, g)
      PROVE  DbTypeOK'
  <2>1. Drop(handles[i], g) \in HandleEntry /\ Drop(handles[i], g).in_use
    BY <1>0, <1>5, DropType DEF Uninstall, Live
  <2>2. QED
    BY <1>5, <2>1, TableUpdate DEF Uninstall
<1>6. CASE UNCHANGED handles
  BY <1>6 DEF DbTypeOK
<1>7. QED
  BY <1>1, <1>2, <1>3, <1>4, <1>5, <1>6 DEF DbNext

(* The table stays well formed whatever sequence of install, reinstall and *)
(* uninstall calls arrives, and a vacant entry never carries a protocol.   *)
THEOREM DbTypeCorrect == DbSpec => []DbTypeOK
<1>1. DbInit => DbTypeOK
  BY FreshType DEF DbInit, DbTypeOK, EmptyHandle
<1>2. QED
  BY <1>1, DbStepType, PTL DEF DbSpec

-----------------------------------------------------------------------------
(* The handles that carry a GUID, as LocateHandle lists them: none when no *)
(* handle does, otherwise the one with the least index first.              *)
LEMMA FirstHandle ==
  ASSUME NEW g
  PROVE  /\ HandlesWith(g) = <<>> <=> Carriers(g) = {}
         /\ Carriers(g) # {} => HandlesWith(g)[1] = Handle(Min(Carriers(g)))
<1>1. Carriers(g) \subseteq Index /\ Index \subseteq Nat
  BY DbAssumption DEF Carriers, Live, Index
<1>2. IsFiniteSet(Index)
  BY DbAssumption, FS_Interval DEF Index
<1>3. IsFiniteSet(Carriers(g)) /\ Cardinality(Carriers(g)) \in Nat
  BY <1>1, <1>2, FS_Subset, FS_CardinalityType
<1>4. Carriers(g) = {} <=> Cardinality(Carriers(g)) = 0
  BY <1>3, FS_EmptySet
<1>5. HandlesWith(g) = <<>> <=> Cardinality(Carriers(g)) = 0
  BY <1>3 DEF HandlesWith
<1>6. ASSUME Carriers(g) # {}
      PROVE  HandlesWith(g)[1] = Handle(Min(Carriers(g)))
  <2> DEFINE least == Min(Carriers(g))
             Before(i) == {j \in Carriers(g) : j < i}
  <2>1. least \in Carriers(g) /\ \A j \in Carriers(g) : least <= j
    BY <1>1, <1>6, MinIn
  <2>2. \A i \in Carriers(g) : Cardinality(Before(i)) = 0 <=> Before(i) = {}
    BY <1>3, FS_Subset, FS_EmptySet
  <2>3. \A i \in Carriers(g) : Before(i) = {} <=> i = least
    <3> HIDE DEF least
    <3>1. Carriers(g) \subseteq Nat
      BY <1>1
    <3>2. QED
      BY <2>1, <3>1
  <2>4. (CHOOSE i \in Carriers(g) : Cardinality(Before(i)) = 1 - 1) = least
    BY <2>1, <2>2, <2>3
  <2>5. 1 \in 1 .. Cardinality(Carriers(g))
    BY <1>3, <1>4, <1>6
  <2>6. QED
    BY <2>4, <2>5 DEF HandlesWith
<1>7. QED
  BY <1>4, <1>5, <1>6

(* LocateProtocol gives a caller the interface that LocateHandle followed  *)
(* by HandleProtocol would have given it, and fails exactly when they do,  *)
(* whatever was installed, reinstalled and uninstalled before.             *)
THEOREM LookupsAlwaysAgree == DbSpec => []LookupsAgree
<1>1. DbTypeOK => LookupsAgree
  <2> SUFFICES ASSUME DbTypeOK, NEW g \in Guid
               PROVE  /\ (Locate(g) = NoEntry) <=> (HandlesWith(g) = <<>>)
                      /\ HandlesWith(g) # <<>> =>
                           Locate(g) = HandleProtocol(HandlesWith(g)[1] - 1, g)
    BY DEF LookupsAgree
  <2>1. CASE Carriers(g) = {}
    BY <2>1, FirstHandle DEF Locate
  <2>2. CASE Carriers(g) # {}
    <3> DEFINE i == Min(Carriers(g))
               s == Min(SlotsWith(i, g))
    <3>1. Carriers(g) \subseteq Nat
      BY DbAssumption DEF Carriers, Live, Index
    <3>2. i \in Carriers(g) /\ i \in Nat
      BY <2>2, <3>1, MinIn
    <3>3. i \in Index /\ SlotsWith(i, g) # {} /\ SlotsWith(i, g) \subseteq Nat
      <4> HIDE DEF i
      <4>1. i \in Index /\ SlotsWith(i, g) # {}
        BY <3>2 DEF Carriers, Live
      <4>2. SlotsWith(i, g) \subseteq Nat
        BY DbAssumption DEF SlotsWith, Slot
      <4>3. QED
        BY <4>1, <4>2
    <3>4. s \in SlotsWith(i, g)
      BY <3>3, MinIn
    <3>5. handles[i].protocols[s] \in Entry
      BY <3>3, <3>4 DEF SlotsWith, DbTypeOK, HandleEntry
    <3>6. Locate(g) = handles[i].protocols[s].interface
      BY <2>2 DEF Locate
    <3>7. Locate(g) # NoEntry
      BY <3>5, <3>6, DbAssumption DEF Entry
    <3>8. HandlesWith(g) # <<>> /\ HandlesWith(g)[1] - 1 = i
      BY <2>2, <3>2, FirstHandle DEF Handle
    <3>9. HandleProtocol(i, g) = handles[i].protocols[s].interface
      BY <3>2 DEF HandleProtocol
    <3>10. QED
      BY <3>6, <3>7, <3>8, <3>9
  <2>3. QED
    BY <2>1, <2>2
<1>2. QED
  BY <1>1, DbTypeCorrect, PTL

-----------------------------------------------------------------------------
(* The slot table as bags.  Filling an open slot adds one installation,    *)
(* emptying a taken one removes one, and nothing else is counted anew.     *)
SlotTable == [Slot -> Entry \cup {NoEntry}]

Fills(t, k, e, u) ==
  /\ t \in SlotTable /\ k \in Slot /\ e \in Entry
  /\ t[k] = NoEntry /\ u = [t EXCEPT ![k] = e]

LEMMA CountTypes ==
  ASSUME NEW t \in SlotTable, NEW e
  PROVE  /\ IsFiniteSet({s \in Slot : t[s] = e}) /\ Times(t, e) \in Nat
         /\ IsFiniteSet({s \in Slot : t[s] # NoEntry}) /\ Taken(t) \in Nat
<1>1. IsFiniteSet(Slot)
  BY DbAssumption, FS_Interval DEF Slot
<1>2. {s \in Slot : t[s] = e} \subseteq Slot /\ {s \in Slot : t[s] # NoEntry} \subseteq Slot
  OBVIOUS
<1>3. IsFiniteSet({s \in Slot : t[s] = e}) /\ IsFiniteSet({s \in Slot : t[s] # NoEntry})
  BY <1>1, <1>2, FS_Subset
<1>4. QED
  BY <1>3, FS_CardinalityType DEF Times, Taken

LEMMA FillCounts ==
  ASSUME NEW t, NEW k, NEW e, NEW u, Fills(t, k, e, u)
  PROVE  /\ u \in SlotTable
         /\ Times(u, e) = Times(t, e) + 1 /\ Taken(u) = Taken(t) + 1
         /\ \A f \in Entry \ {e} : Times(u, f) = Times(t, f)
         /\ Taken(t) < MaxProtocols
<1>0. /\ t \in SlotTable /\ k \in Slot /\ e \in Entry
      /\ t[k] = NoEntry /\ u = [t EXCEPT ![k] = e]
  BY DEF Fills
<1>1. NoEntry \notin Entry
  BY DbAssumption
<1>2. u \in SlotTable /\ u[k] = e /\ \A s \in Slot \ {k} : u[s] = t[s]
  BY <1>0 DEF SlotTable
<1>3. Times(u, e) = Times(t, e) + 1
  <2> DEFINE S == {s \in Slot : t[s] = e}
  <2>1. k \notin S /\ {s \in Slot : u[s] = e} = S \cup {k}
    BY <1>0, <1>1, <1>2
  <2>2. IsFiniteSet(S)
    BY <1>0, CountTypes
  <2> HIDE DEF S
  <2>3. Cardinality(S \cup {k}) = Cardinality(S) + 1
    BY <2>1, <2>2, FS_AddElement
  <2>4. QED
    BY <2>1, <2>3 DEF Times, S
<1>4. Taken(u) = Taken(t) + 1 /\ Taken(t) < MaxProtocols
  <2> DEFINE S == {s \in Slot : t[s] # NoEntry}
  <2>1. k \notin S /\ {s \in Slot : u[s] # NoEntry} = S \cup {k} /\ S \cup {k} \subseteq Slot
    BY <1>0, <1>1, <1>2
  <2>2. IsFiniteSet(S) /\ Cardinality(S) \in Nat
    BY <1>0, CountTypes, FS_CardinalityType
  <2>3. IsFiniteSet(Slot) /\ Cardinality(Slot) = MaxProtocols
    BY DbAssumption, FS_Interval DEF Slot
  <2> HIDE DEF S
  <2>4. Cardinality(S \cup {k}) = Cardinality(S) + 1
    BY <2>1, <2>2, FS_AddElement
  <2>5. Cardinality(S \cup {k}) <= Cardinality(Slot)
    BY <2>1, <2>3, FS_Subset
  <2>6. Cardinality(S) < MaxProtocols
    BY <2>2, <2>3, <2>4, <2>5, DbAssumption
  <2>7. QED
    BY <2>1, <2>4, <2>6 DEF Taken, S
<1>5. ASSUME NEW f \in Entry \ {e} PROVE Times(u, f) = Times(t, f)
  <2>1. {s \in Slot : u[s] = f} = {s \in Slot : t[s] = f}
    BY <1>0, <1>1, <1>2
  <2>2. QED
    BY <2>1 DEF Times
<1>6. QED
  BY <1>2, <1>3, <1>4, <1>5

LEMMA EmptyCounts ==
  ASSUME NEW t \in SlotTable, NEW k, NEW e, NEW u, Fills(u, k, e, t)
  PROVE  /\ Times(u, e) = Times(t, e) - 1 /\ Taken(u) = Taken(t) - 1
         /\ \A f \in Entry \ {e} : Times(u, f) = Times(t, f)
         /\ Times(t, e) > 0
<1>1. /\ Times(t, e) = Times(u, e) + 1 /\ Taken(t) = Taken(u) + 1
      /\ \A f \in Entry \ {e} : Times(t, f) = Times(u, f)
  BY FillCounts
<1>2. u \in SlotTable
  BY DEF Fills
<1>3. Times(u, e) \in Nat /\ Taken(u) \in Nat
  BY <1>2, CountTypes
<1>4. Times(u, e) = Times(t, e) - 1 /\ Taken(u) = Taken(t) - 1 /\ Times(t, e) > 0
  BY ONLY <1>1, <1>3
<1>5. QED
  BY <1>1, <1>4

(* install adds an entry to a handle's bag. *)
LEMMA PutAdds ==
  ASSUME NEW h \in HandleEntry, NEW g \in Guid, NEW p \in Interface,
         \E s \in Slot : h.protocols[s] = NoEntry, NEW e, e = [guid |-> g, interface |-> p]
  PROVE  /\ Taken(Put(h, g, p).protocols) = Taken(h.protocols) + 1
         /\ Taken(h.protocols) < MaxProtocols
         /\ \A f \in Entry : Times(Put(h, g, p).protocols, f)
                              = IF f = e THEN Times(h.protocols, f) + 1 ELSE Times(h.protocols, f)
<1> DEFINE open == {s \in Slot : h.protocols[s] = NoEntry}
<1>1. open \subseteq Nat /\ open # {}
  BY DbAssumption DEF Slot
<1>2. PICK k \in Slot : k = Min(open) /\ h.protocols[k] = NoEntry
  BY <1>1, MinIn
<1>3. PICK t \in SlotTable : t = h.protocols
  BY DEF HandleEntry, SlotTable
<1>4. e \in Entry
  BY DEF Entry
<1>5. PICK u : u = [t EXCEPT ![k] = e]
  OBVIOUS
<1>6. Put(h, g, p).protocols = u
  BY <1>2, <1>3, <1>5 DEF Put, HandleEntry
<1>7. /\ Times(u, e) = Times(t, e) + 1 /\ Taken(u) = Taken(t) + 1
      /\ \A f \in Entry \ {e} : Times(u, f) = Times(t, f)
      /\ Taken(t) < MaxProtocols
  <2>1. Fills(t, k, e, u)
    BY <1>2, <1>3, <1>4, <1>5 DEF Fills
  <2>2. QED
    BY <2>1, FillCounts
<1>8. QED
  BY <1>3, <1>6, <1>7

(* uninstall takes one entry of that GUID out of a handle's bag, if there  *)
(* is one.                                                                 *)
LEMMA DropRemoves ==
  ASSUME NEW h \in HandleEntry, NEW g \in Guid
  PROVE  \/ Drop(h, g) = h
         \/ \E e \in Entry :
              /\ e.guid = g /\ Times(h.protocols, e) > 0
              /\ \E s \in Slot : Drop(h, g).protocols[s] = NoEntry
              /\ Taken(Drop(h, g).protocols) = Taken(h.protocols) - 1
              /\ \A f \in Entry : Times(Drop(h, g).protocols, f)
                                   = IF f = e THEN Times(h.protocols, f) - 1 ELSE Times(h.protocols, f)
<1> DEFINE held == {s \in Slot : h.protocols[s] # NoEntry /\ h.protocols[s].guid = g}
<1>1. CASE held = {}
  BY <1>1 DEF Drop
<1>2. CASE held # {}
  <2>1. held \subseteq Nat
    BY DbAssumption DEF Slot
  <2>2. PICK k \in Slot : k = Min(held) /\ h.protocols[k] # NoEntry /\ h.protocols[k].guid = g
    BY <1>2, <2>1, MinIn
  <2>3. PICK t \in SlotTable : t = h.protocols
    BY DEF HandleEntry, SlotTable
  <2>4. PICK e \in Entry : e = t[k] /\ e.guid = g
    BY <2>2, <2>3 DEF SlotTable
  <2>5. PICK u : u = [t EXCEPT ![k] = NoEntry]
    OBVIOUS
  <2>6. Drop(h, g).protocols = u
    <3> HIDE DEF held
    <3>1. Drop(h, g) = [h EXCEPT !.protocols[Min(held)] = NoEntry]
      BY <1>2 DEF Drop, held
    <3>2. QED
      BY <2>2, <2>3, <2>5, <3>1 DEF HandleEntry
  <2>7. /\ u \in SlotTable /\ u[k] = NoEntry
        /\ Times(u, e) = Times(t, e) - 1 /\ Taken(u) = Taken(t) - 1
        /\ \A f \in Entry \ {e} : Times(u, f) = Times(t, f)
        /\ Times(t, e) > 0
    <3>1. u \in SlotTable /\ u[k] = NoEntry /\ t = [u EXCEPT ![k] = e]
      BY <2>4, <2>5 DEF SlotTable
    <3>2. Fills(u, k, e, t)
      BY <3>1 DEF Fills
    <3>3. /\ Times(u, e) = Times(t, e) - 1 /\ Taken(u) = Taken(t) - 1
          /\ \A f \in Entry \ {e} : Times(u, f) = Times(t, f)
          /\ Times(t, e) > 0
      <4>1. t \in SlotTable
        BY <2>3
      <4>2. QED
        BY ONLY <3>2, <4>1, EmptyCounts
    <3>4. QED
      BY <3>1, <3>3
  <2>8. QED
    BY <2>2, <2>3, <2>4, <2>6, <2>7
<1>3. QED
  BY <1>1, <1>2

(* One handle's bag changes from what handle i had to what entry h has.    *)
LEMMA BagsChange ==
  ASSUME DbTypeOK, NEW i \in Index, NEW h \in HandleEntry, handles' = [handles EXCEPT ![i] = h]
  PROVE  /\ Bags' = [Bags EXCEPT ![i] = [e \in Entry |-> Times(h.protocols, e)]]
         /\ Loads' = [Loads EXCEPT ![i] = Taken(h.protocols)]
<1>1. handles \in [Index -> HandleEntry]
  BY DEF DbTypeOK
<1>2. handles'[i] = h /\ \A j \in Index \ {i} : handles'[j] = handles[j]
  BY <1>1
<1>3. \A j \in Index : handles'[j].protocols = IF j = i THEN h.protocols ELSE handles[j].protocols
  BY <1>2
<1>4. Loads' = [j \in Index |-> Taken(handles'[j].protocols)]
  BY DEF Loads, Taken
<1>5. Bags' = [j \in Index |-> [e \in Entry |-> Times(handles'[j].protocols, e)]]
  BY DEF Bags, Times
<1>6. Loads' = [Loads EXCEPT ![i] = Taken(h.protocols)]
  <2>1. \A j \in Index : Loads'[j] = IF j = i THEN Taken(h.protocols) ELSE Loads[j]
    BY <1>3, <1>4 DEF Loads
  <2>2. QED
    BY <1>4, <2>1 DEF Loads
<1>7. PICK B : B = [e \in Entry |-> Times(h.protocols, e)]
  OBVIOUS
<1>8. \A j \in Index : Bags'[j] = IF j = i THEN B ELSE Bags[j]
  BY <1>3, <1>5, <1>7 DEF Bags
<1>9. Bags' = [Bags EXCEPT ![i] = B]
  BY <1>5, <1>8 DEF Bags
<1>10. QED
  BY <1>6, <1>7, <1>9

LEMMA RegistryInit == DbInit => Registry!RegInit
<1> SUFFICES ASSUME DbInit PROVE Registry!RegInit
  OBVIOUS
<1>1. handles = [i \in Index |-> EmptyHandle] /\ NoEntry \notin Entry
  BY DbAssumption DEF DbInit
<1>2. Live = {}
  BY <1>1 DEF Live, EmptyHandle
<1>3. ASSUME NEW i \in Index
      PROVE  Taken(handles[i].protocols) = 0 /\ \A e \in Entry : Times(handles[i].protocols, e) = 0
  <2>1. PICK t : t = handles[i].protocols /\ \A s \in Slot : t[s] = NoEntry
    BY <1>1 DEF EmptyHandle
  <2>2. {s \in Slot : t[s] # NoEntry} = {} /\ \A e \in Entry : {s \in Slot : t[s] = e} = {}
    BY <1>1, <2>1
  <2>3. Taken(t) = 0 /\ \A e \in Entry : Times(t, e) = 0
    BY <2>2, FS_EmptySet DEF Taken, Times
  <2>4. QED
    BY <2>1, <2>3
<1>4. Bags = [i \in Index |-> [e \in Entry |-> 0]] /\ Loads = [i \in Index |-> 0]
  BY <1>3 DEF Bags, Loads
<1>5. QED
  BY <1>2, <1>4 DEF Registry!RegInit

(* A live handle's entry is replaced: the set of live handles stays. *)
LEMMA LiveStays ==
  ASSUME DbTypeOK, NEW i \in Live, NEW h \in HandleEntry, h.in_use,
         handles' = [handles EXCEPT ![i] = h]
  PROVE  Live' = Live
BY DEF DbTypeOK, Live

(* install puts (g, p) on live handle i, whose entry has become h. *)
Puts(i, g, p, h) ==
  /\ i \in Live /\ g \in Guid /\ p \in Interface /\ h \in HandleEntry /\ h.in_use
  /\ \E s \in Slot : h.protocols[s] = NoEntry
  /\ handles' = [handles EXCEPT ![i] = Put(h, g, p)]

LEMMA PutsChange ==
  ASSUME DbTypeOK, NEW i, NEW g, NEW p, NEW h, Puts(i, g, p, h)
  PROVE  /\ i \in Index /\ Live' = Live
         /\ Bags' = [Bags EXCEPT ![i] = [e \in Entry |-> Times(Put(h, g, p).protocols, e)]]
         /\ Loads' = [Loads EXCEPT ![i] = Taken(Put(h, g, p).protocols)]
<1>1. PICK n \in HandleEntry : n = Put(h, g, p) /\ n.in_use
  BY PutType DEF Puts
<1>2. i \in Live /\ i \in Index /\ handles' = [handles EXCEPT ![i] = n]
  BY <1>1 DEF Live, Puts
<1>3. Live' = Live
  BY <1>1, <1>2, LiveStays
<1>4. /\ Bags' = [Bags EXCEPT ![i] = [e \in Entry |-> Times(n.protocols, e)]]
      /\ Loads' = [Loads EXCEPT ![i] = Taken(n.protocols)]
  BY <1>1, <1>2, BagsChange
<1>5. QED
  BY <1>1, <1>2, <1>3, <1>4

LEMMA RegistryStep ==
  ASSUME DbTypeOK, [DbNext]_handles
  PROVE  [Registry!RegNext]_(Registry!regVars)
<1>0. \A i \in Index : handles[i] \in HandleEntry
  BY DEF DbTypeOK
<1>b. \A i \in Index : /\ Bags[i] = [e \in Entry |-> Times(handles[i].protocols, e)]
                        /\ Loads[i] = Taken(handles[i].protocols)
  BY DEF Bags, Loads
<1>1. ASSUME NEW g \in Guid, NEW p \in Interface, InstallOnNew(g, p)
      PROVE  Registry!RegNext
  <2>1. PICK i \in Index : i = Min(Vacant) /\ ~handles[i].in_use
    <3>1. Vacant \subseteq Nat /\ Vacant # {}
      BY <1>1, DbAssumption DEF Vacant, Index, InstallOnNew
    <3>2. QED
      BY <3>1, MinIn DEF Vacant
  <2>2. handles[i] = EmptyHandle /\ handles[i].protocols = Fresh.protocols
    BY <2>1 DEF DbTypeOK, EmptyHandle, Fresh
  <2>3. PICK n \in HandleEntry : n = Put(Fresh, g, p) /\ n.in_use
    BY FreshType, PutType
  <2>4. handles' = [handles EXCEPT ![i] = n]
    BY <1>1, <2>1, <2>3 DEF InstallOnNew
  <2>5. i \notin Live /\ Live' = Live \cup {i}
    BY <2>1, <2>3, <2>4 DEF Live, DbTypeOK
  <2>6. /\ Bags' = [Bags EXCEPT ![i] = [f \in Entry |-> Times(n.protocols, f)]]
        /\ Loads' = [Loads EXCEPT ![i] = Taken(n.protocols)]
    BY <2>3, <2>4, BagsChange
  <2>7. PICK e \in Entry : e = [guid |-> g, interface |-> p]
    BY DEF Entry
  <2>8. /\ Taken(n.protocols) = Loads[i] + 1
        /\ \A f \in Entry : Times(n.protocols, f) = IF f = e THEN Bags[i][f] + 1 ELSE Bags[i][f]
    <3>1. /\ Taken(n.protocols) = Taken(Fresh.protocols) + 1
          /\ \A f \in Entry : Times(n.protocols, f)
                 = IF f = e THEN Times(Fresh.protocols, f) + 1 ELSE Times(Fresh.protocols, f)
      BY <2>3, <2>7, FreshType, PutAdds
    <3>2. /\ Loads[i] = Taken(Fresh.protocols)
          /\ \A f \in Entry : Bags[i][f] = Times(Fresh.protocols, f)
      <4>1. /\ Loads[i] = Taken(handles[i].protocols)
            /\ \A f \in Entry : Bags[i][f] = Times(handles[i].protocols, f)
        BY <1>b
      <4>2. QED
        BY <2>2, <4>1, Zenon
    <3>3. QED
      BY <3>1, <3>2
  <2>9. [f \in Entry |-> Times(n.protocols, f)] = Registry!Plus(Bags[i], e)
    BY <1>b, <2>8 DEF Registry!Plus
  <2>10. Registry!CreateWith(i, e)
    BY <2>5, <2>6, <2>8, <2>9 DEF Registry!CreateWith
  <2>11. QED
    BY <2>10 DEF Registry!RegNext
<1>2. ASSUME NEW i \in Live, NEW g \in Guid, NEW p \in Interface,
             \E s \in Slot : handles[i].protocols[s] = NoEntry,
             handles' = [handles EXCEPT ![i] = Put(handles[i], g, p)]
      PROVE  Registry!RegNext
  <2>1. PICK h \in HandleEntry : h = handles[i] /\ h.in_use
    BY <1>0 DEF Live
  <2>2. /\ i \in Index /\ Live' = Live
        /\ Bags' = [Bags EXCEPT ![i] = [f \in Entry |-> Times(Put(h, g, p).protocols, f)]]
        /\ Loads' = [Loads EXCEPT ![i] = Taken(Put(h, g, p).protocols)]
    <3>1. Puts(i, g, p, h)
      BY <1>2, <2>1 DEF Puts
    <3>2. QED
      BY <3>1, PutsChange
  <2>3. PICK e \in Entry : e = [guid |-> g, interface |-> p]
    BY DEF Entry
  <2>4. /\ Taken(Put(h, g, p).protocols) = Taken(h.protocols) + 1
        /\ Taken(h.protocols) < MaxProtocols
        /\ \A f \in Entry : Times(Put(h, g, p).protocols, f)
               = IF f = e THEN Times(h.protocols, f) + 1 ELSE Times(h.protocols, f)
    BY <1>2, <2>1, <2>3, PutAdds
  <2>5. /\ Taken(Put(h, g, p).protocols) = Loads[i] + 1 /\ Loads[i] < MaxProtocols
        /\ [f \in Entry |-> Times(Put(h, g, p).protocols, f)] = Registry!Plus(Bags[i], e)
    <3>1. PICK b : b = Bags[i] /\ b = [f \in Entry |-> Times(h.protocols, f)]
      BY <1>b, <2>1, <2>2
    <3>2. Registry!Plus(Bags[i], e) = [b EXCEPT ![e] = @ + 1]
      BY ONLY <3>1 DEF Registry!Plus
    <3>3. [f \in Entry |-> Times(Put(h, g, p).protocols, f)] = [b EXCEPT ![e] = @ + 1]
      BY ONLY <2>4, <3>1, e \in Entry
    <3>4. Loads[i] = Taken(h.protocols)
      BY <1>b, <2>1, <2>2
    <3>5. QED
      BY <2>4, <3>2, <3>3, <3>4
  <2>6. Registry!Add(i, e)
    BY <1>2, <2>2, <2>5 DEF Registry!Add
  <2>7. QED
    BY <2>2, <2>6 DEF Registry!RegNext
<1>3. ASSUME NEW i \in Live, NEW g \in Guid, Uninstall(i, g)
      PROVE  Registry!RegNext \/ UNCHANGED Registry!regVars
  <2>1. PICK h \in HandleEntry : h = handles[i] /\ h.in_use /\ i \in Index
    BY <1>0 DEF Live
  <2>2. PICK d \in HandleEntry : d = Drop(h, g) /\ d.in_use /\ handles' = [handles EXCEPT ![i] = d]
    BY <1>3, <2>1, DropType DEF Uninstall
  <2>3. /\ Bags' = [Bags EXCEPT ![i] = [f \in Entry |-> Times(d.protocols, f)]]
        /\ Loads' = [Loads EXCEPT ![i] = Taken(d.protocols)] /\ Live' = Live
    BY <2>1, <2>2, BagsChange, LiveStays
  <2>4. CASE d = h
    <3>1. handles' = handles
      BY <2>1, <2>2, <2>4 DEF DbTypeOK
    <3>2. QED
      BY <3>1 DEF Registry!regVars, Live, Bags, Loads, Times, Taken
  <2>5. ASSUME NEW e \in Entry, Times(h.protocols, e) > 0,
               Taken(d.protocols) = Taken(h.protocols) - 1,
               \A f \in Entry : Times(d.protocols, f)
                   = IF f = e THEN Times(h.protocols, f) - 1 ELSE Times(h.protocols, f)
        PROVE  Registry!RegNext
    <3>1. /\ Bags[i][e] > 0 /\ Taken(d.protocols) = Loads[i] - 1
          /\ [f \in Entry |-> Times(d.protocols, f)] = Registry!Minus(Bags[i], e)
      BY <1>b, <2>1, <2>5 DEF Registry!Minus
    <3>2. Registry!Remove(i, e)
      BY <2>3, <3>1 DEF Registry!Remove
    <3>3. QED
      BY <2>1, <3>2 DEF Registry!RegNext
  <2>6. QED
    BY <2>2, <2>4, <2>5, DropRemoves
<1>4. ASSUME NEW i \in Live, NEW g \in Guid, NEW p \in Interface, Reinstall(i, g, p)
      PROVE  Registry!RegNext \/ UNCHANGED Registry!regVars
  <2>1. PICK h \in HandleEntry : h = handles[i] /\ h.in_use /\ i \in Index
    BY <1>0 DEF Live
  <2>2. PICK d \in HandleEntry : d = Drop(h, g) /\ d.in_use
    BY <2>1, DropType
  <2>3. handles' = IF \E s \in Slot : d.protocols[s] = NoEntry
                   THEN [handles EXCEPT ![i] = Put(d, g, p)] ELSE handles
    BY <1>4, <2>1, <2>2 DEF Reinstall
  <2>4. CASE ~ \E s \in Slot : d.protocols[s] = NoEntry
    BY <2>3, <2>4 DEF Registry!regVars, Live, Bags, Loads, Times, Taken
  <2>5. CASE d = h /\ \E s \in Slot : d.protocols[s] = NoEntry
    BY <1>2, <2>1, <2>3, <2>5
  <2>6. ASSUME NEW old \in Entry, old.guid = g, Times(h.protocols, old) > 0,
               \E s \in Slot : d.protocols[s] = NoEntry,
               Taken(d.protocols) = Taken(h.protocols) - 1,
               \A f \in Entry : Times(d.protocols, f)
                   = IF f = old THEN Times(h.protocols, f) - 1 ELSE Times(h.protocols, f)
        PROVE  Registry!RegNext
    <3>1. /\ Live' = Live
          /\ Bags' = [Bags EXCEPT ![i] = [f \in Entry |-> Times(Put(d, g, p).protocols, f)]]
          /\ Loads' = [Loads EXCEPT ![i] = Taken(Put(d, g, p).protocols)]
      <4>1. Puts(i, g, p, d)
        BY <1>4, <2>2, <2>3, <2>6 DEF Puts
      <4>2. QED
        BY <4>1, PutsChange
    <3>2. PICK e \in Entry : e = [guid |-> g, interface |-> p] /\ e.guid = g
      <4>1. [guid |-> g, interface |-> p] \in Entry /\ [guid |-> g, interface |-> p].guid = g
        BY DEF Entry
      <4>2. QED
        BY <4>1, Zenon
    <3>3. /\ Taken(Put(d, g, p).protocols) = Taken(d.protocols) + 1
          /\ \A f \in Entry : Times(Put(d, g, p).protocols, f)
                 = IF f = e THEN Times(d.protocols, f) + 1 ELSE Times(d.protocols, f)
      BY <2>6, <3>2, PutAdds
    <3>4. Bags[i] \in [Entry -> Nat] /\ Loads[i] \in Nat
      <4>1. h.protocols \in SlotTable
        BY DEF HandleEntry, SlotTable
      <4>2. Taken(h.protocols) \in Nat /\ \A f \in Entry : Times(h.protocols, f) \in Nat
        BY <4>1, CountTypes
      <4>3. Loads[i] = Taken(h.protocols) /\ Bags[i] = [f \in Entry |-> Times(h.protocols, f)]
        BY <1>b, <2>1
      <4>4. QED
        BY <4>2, <4>3
    <3>5. Taken(Put(d, g, p).protocols) = Loads[i]
      <4>1. Loads[i] = Taken(h.protocols)
        BY <1>b, <2>1
      <4>2. Taken(d.protocols) = Taken(h.protocols) - 1
        BY <2>6
      <4>3. QED
        BY ONLY <3>3, <3>4, <4>1, <4>2
    <3>6. PICK M : M = Registry!Minus(Bags[i], old)
      OBVIOUS
    <3>7. M = [f \in Entry |-> Times(d.protocols, f)]
      <4>1. PICK b : b = Bags[i] /\ b = [f \in Entry |-> Times(h.protocols, f)]
        BY <1>b, <2>1
      <4>2. M = [b EXCEPT ![old] = @ - 1]
        BY ONLY <3>6, <4>1 DEF Registry!Minus
      <4>3. QED
        BY ONLY <2>6, <4>1, <4>2, old \in Entry
    <3>8. [f \in Entry |-> Times(Put(d, g, p).protocols, f)] = Registry!Plus(M, e)
      BY <3>3, <3>7 DEF Registry!Plus
    <3>9. Loads' = Loads
      BY <2>1, <3>1, <3>5 DEF Loads
    <3>10. Bags[i][old] > 0
      BY <1>b, <2>1, <2>6
    <3>11. Registry!Replace(i, old, e)
      BY <2>6, <3>1, <3>2, <3>6, <3>8, <3>9, <3>10 DEF Registry!Replace
    <3>12. QED
      BY <2>1, <3>11 DEF Registry!RegNext
  <2>7. QED
    BY <2>2, <2>4, <2>5, <2>6, DropRemoves
<1>5. CASE UNCHANGED handles
  BY <1>5 DEF Registry!regVars, Live, Bags, Loads, Times, Taken
<1>6. QED
  <2>1. ASSUME NEW i \in Index, NEW g \in Guid, NEW p \in Interface, InstallOn(i, g, p)
        PROVE  Registry!RegNext
    BY <1>2, <2>1 DEF InstallOn, OpenSlots
  <2>2. ASSUME NEW i \in Index, NEW g \in Guid, Uninstall(i, g) PROVE i \in Live
    BY <2>2 DEF Uninstall
  <2>3. ASSUME NEW i \in Index, NEW g \in Guid, NEW p \in Interface, Reinstall(i, g, p)
        PROVE i \in Live
    BY <2>3 DEF Reinstall
  <2>4. InstallFails => UNCHANGED handles
    BY DEF InstallFails
  <2>5. QED
    BY <1>1, <1>3, <1>4, <1>5, <2>1, <2>2, <2>3, <2>4 DEF DbNext

(* The slot table with its first-open and first-match searches implements  *)
(* a registry that knows neither slots nor their order: each call adds,    *)
(* removes or replaces one entry of one handle's bag or changes nothing,   *)
(* and an entry is added only while the handle has room.                   *)
THEOREM TableIsARegistry == DbSpec => RefinesRegistry
BY DbTypeCorrect, RegistryInit, RegistryStep, PTL DEF DbSpec, RefinesRegistry, Registry!RegSpec

-----------------------------------------------------------------------------
(* Reducing a number below the modulus leaves it alone. *)
LEMMA SmallMod ==
  ASSUME NEW a \in Nat, NEW m \in Nat, a < m
  PROVE  a % m = a
  OBVIOUS

(* The page-allocator half of the inductive invariant. *)
MemInv ==
  /\ next_free_page \in Nat
  /\ FirmwareEnd <= next_free_page /\ next_free_page <= RamLimit
  /\ generation \in 0 .. MaxGeneration
  /\ granted \subseteq Grant
  /\ GrantsDisjoint

(* One successful allocate_pages: the bump pointer moves up by exactly the *)
(* request, the key moves by one, and the new range overlaps no older one. *)
LEMMA AllocateStep ==
  ASSUME MemInv, NEW n \in Nat, RamLimit + n < AddrPages,
         NEW owner \in Owner, Allocate(n, owner)
  PROVE  /\ MemInv'
         /\ next_free_page' = next_free_page + n
         /\ generation' = generation + 1
<1>1. next_free_page \in Nat /\ RamLimit \in Nat /\ AddrPages \in Nat /\ FirmwareEnd \in Nat
      /\ MaxGeneration \in Nat
  BY LayoutAssumption DEF MemInv
<1>2. Bumped(n) = next_free_page + n
  BY <1>1, SmallMod DEF Bumped, MemInv
<1>3. next_free_page' = next_free_page + n /\ next_free_page' <= RamLimit
  BY <1>2 DEF Allocate, Fits
<1>4. generation' = generation + 1 /\ generation' \in 0 .. MaxGeneration
  BY <1>1 DEF Allocate, MemInv
<1> DEFINE new == [base |-> next_free_page, pages |-> n, owner |-> owner]
<1>5. granted' = granted \cup {new}
  BY DEF Allocate
<1>6. new \in Grant
  BY <1>1 DEF Grant
<1>7. granted' \subseteq Grant
  BY <1>5, <1>6 DEF MemInv
<1>8. GrantsDisjoint'
  <2> SUFFICES ASSUME NEW g \in granted'
               PROVE  /\ FirmwareEnd <= g.base /\ g.base + g.pages <= next_free_page'
                      /\ \A h \in granted' \ {g} :
                           g.base + g.pages <= h.base \/ h.base + h.pages <= g.base
    BY DEF GrantsDisjoint
  <2>1. \A h \in granted : /\ h.base \in Nat /\ h.pages \in Nat
                          /\ FirmwareEnd <= h.base /\ h.base + h.pages <= next_free_page
    BY DEF MemInv, Grant, GrantsDisjoint
  <2>2. new.base = next_free_page /\ new.pages = n
    OBVIOUS
  <2>3. CASE g = new
    BY <1>1, <1>3, <1>5, <2>1, <2>2, <2>3 DEF MemInv
  <2>4. CASE g \in granted
    <3>1. g.base + g.pages <= next_free_page'
      BY <1>1, <1>3, <2>1, <2>4
    <3>2. \A h \in granted \ {g} : g.base + g.pages <= h.base \/ h.base + h.pages <= g.base
      BY <2>4 DEF MemInv, GrantsDisjoint
    <3>3. g.base + g.pages <= new.base
      BY <2>1, <2>2, <2>4
    <3>4. QED
      BY <1>5, <2>1, <2>4, <3>1, <3>2, <3>3
  <2>5. QED
    BY <1>5, <2>3, <2>4
<1>9. QED
  BY <1>1, <1>3, <1>4, <1>7, <1>8 DEF MemInv

(* A caller that already holds a map: its key is not from the future, and  *)
(* if the key is still current then so is the map.                         *)
SeenInv ==
  seen # NoMap =>
    /\ seen.key \in 0 .. generation
    /\ seen.key = generation => seen.map = MapFor(next_free_page)

(* The inductive invariant behind the memory properties. *)
MemoryInv == MemInv /\ SeenInv

(* Every step of Boot Services, seen from the allocator: either one        *)
(* successful allocation by a named kind of service that leaves the        *)
(* caller's map alone, or nothing happens to the allocator and the map is  *)
(* left alone or fetched afresh.                                           *)
GatedAllocation ==
  /\ ~exited
  /\ \E n \in PageCounts \cup ImagePages \cup {PoolPages(b) : b \in PoolSizes} :
       Allocate(n, "gated") \/ Allocate(n, "image")
  /\ UNCHANGED <<exited, running, seen>>

QueryAllocation ==
  /\ Allocate(1, "query")
  /\ UNCHANGED <<exited, running, seen>>

NoAllocation ==
  /\ UNCHANGED memVars
  /\ UNCHANGED seen \/ seen' = [key |-> generation, map |-> MemoryMap]
  /\ exited => exited'
  /\ exited => UNCHANGED running

(* Every step of BootServices is, to the allocator, a grant to a service   *)
(* that ExitBootServices stops, a grant to one it does not, or no grant.   *)
LEMMA StepKinds ==
  [Next]_vars => GatedAllocation \/ QueryAllocation \/ NoAllocation
<1> SUFFICES ASSUME [Next]_vars
             PROVE  GatedAllocation \/ QueryAllocation \/ NoAllocation
  OBVIOUS
<1> USE DEF GatedAllocation, QueryAllocation, NoAllocation
<1>1. ASSUME NEW n \in PageCounts, AllocatePages(n)
      PROVE  GatedAllocation \/ NoAllocation
  BY <1>1 DEF AllocatePages, AllocateFails, bootVars
<1>2. ASSUME NEW b \in PoolSizes, AllocatePool(b)
      PROVE  GatedAllocation \/ NoAllocation
  BY <1>2 DEF AllocatePool, AllocateFails, bootVars
<1>3. ASSUME NEW n \in ImagePages, LoadImageFails(n)
      PROVE  GatedAllocation \/ NoAllocation
  BY <1>3 DEF LoadImageFails, AllocateFails, bootVars
<1>4. ASSUME NEW n \in ImagePages, NEW off \in EntryPages, LoadImage(n, off)
      PROVE  GatedAllocation
  BY <1>4 DEF LoadImage
<1>5. ASSUME NEW answer, AnswerInPages(answer, "query")
      PROVE  QueryAllocation \/ NoAllocation
  BY <1>5 DEF AnswerInPages, AllocateFails, bootVars
<1>6. ASSUME RefusedAfterExit \/ GetMemoryMap
      PROVE  NoAllocation
  BY <1>6 DEF RefusedAfterExit, GetMemoryMap, vars, bootVars
<1>13. ASSUME NEW k \in 0 .. MaxGeneration, ExitBootServices(k)
      PROVE  NoAllocation
  <2>1. UNCHANGED memVars /\ UNCHANGED seen /\ UNCHANGED running
    BY <1>13 DEF ExitBootServices
  <2>2. exited => exited'
    BY <1>13, Zenon DEF ExitBootServices
  <2>3. QED
    BY <2>1, <2>2
<1>7. ASSUME NEW i \in Index, StartImage(i) PROVE NoAllocation
  BY <1>7 DEF StartImage
<1>8. ASSUME NEW g \in Guid, InstallNew(g) PROVE NoAllocation
  BY <1>8 DEF InstallNew
<1>9. ASSUME NEW i \in Index, NEW g \in Guid, ChangeProtocols(i, g) PROVE NoAllocation
  BY <1>9 DEF ChangeProtocols, bootVars
<1>10. ASSUME NEW o \in FirmwareObject, FirmwareHandle(o) PROVE NoAllocation
  BY <1>10 DEF FirmwareHandle
<1>11. CASE UNCHANGED vars
  BY <1>11 DEF vars, bootVars
<1>12. QED
  BY <1>1, <1>2, <1>3, <1>4, <1>5, <1>6, <1>7, <1>8, <1>9, <1>10, <1>11, <1>13
     DEF Next, LocateHandleBuffer, LocateAllHandles, ProtocolsPerHandle

(* Requests that callers make are naturals, so NoWrap bounds them all. *)
LEMMA RequestBound ==
  ASSUME NoWrap,
         NEW n \in PageCounts \cup ImagePages \cup {PoolPages(b) : b \in PoolSizes} \cup {1}
  PROVE  n \in Nat /\ RamLimit + n < AddrPages
<1>1. \A b \in PoolSizes : PoolPages(b) \in Nat
  <2> SUFFICES ASSUME NEW b \in PoolSizes PROVE PoolPages(b) \in Nat
    OBVIOUS
  <2> DEFINE a == b + PageBytes - 1
             m == AddrPages * PageBytes
             q == (a % m) \div PageBytes
  <2>1. b \in Nat /\ PageBytes \in Nat /\ PageBytes > 0 /\ AddrPages \in Nat /\ AddrPages > 0
    BY BootAssumption, LayoutAssumption
  <2>2. a \in Nat
    BY <2>1
  <2>3. m \in Nat /\ m > 0
    BY <2>1, Z3
  <2> HIDE DEF a, m
  <2>4. a % m \in Nat
    BY <2>2, <2>3
  <2>5. q \in Nat
    BY <2>1, <2>4
  <2> HIDE DEF q
  <2>6. {1, q} \subseteq Nat
    BY <2>5
  <2>7. Max({1, q}) \in {1, q}
    <3>1. \E x \in {1, q} : \A y \in {1, q} : x >= y
      BY <2>5
    <3>2. QED
      BY <3>1 DEF Max
  <2>8. QED
    BY <2>6, <2>7 DEF PoolPages, q, a, m
<1>2. QED
  BY <1>1, BootAssumption DEF NoWrap

(* memory::init establishes the allocator invariant. *)
LEMMA MemoryInit == Init => MemoryInv
<1>1. SUFFICES ASSUME Init PROVE MemoryInv
  OBVIOUS
<1>2. MemInv
  BY <1>1, LayoutAssumption DEF Init, MemInit, MemInv, GrantsDisjoint
<1>3. SeenInv
  BY <1>1 DEF Init, SeenInv
<1>4. QED
  BY <1>2, <1>3 DEF MemoryInv

(* Every service keeps the allocator invariant. *)
LEMMA MemoryStep ==
  ASSUME NoWrap, MemoryInv, [Next]_vars
  PROVE  MemoryInv'
<1> USE DEF MemoryInv
<1>1. ASSUME NEW n \in Nat, RamLimit + n < AddrPages, NEW owner \in Owner,
             Allocate(n, owner), UNCHANGED seen
      PROVE  MemoryInv'
  <2>1. MemInv' /\ generation' = generation + 1
    BY <1>1, AllocateStep
  <2>2. generation \in Nat
    BY LayoutAssumption DEF MemInv
  <2>3. SeenInv'
    BY <1>1, <2>1, <2>2 DEF SeenInv
  <2>4. QED
    BY <2>1, <2>3
<1>2. CASE GatedAllocation
  <2>1. PICK n \in PageCounts \cup ImagePages \cup {PoolPages(b) : b \in PoolSizes} :
              Allocate(n, "gated") \/ Allocate(n, "image")
    BY <1>2 DEF GatedAllocation
  <2>2. n \in Nat /\ RamLimit + n < AddrPages
    BY RequestBound
  <2>3. UNCHANGED seen
    BY <1>2 DEF GatedAllocation
  <2>4. "gated" \in Owner /\ "image" \in Owner
    BY DEF Owner
  <2>5. QED
    BY <1>1, <2>1, <2>2, <2>3, <2>4, Zenon
<1>3. CASE QueryAllocation
  <2>1. 1 \in Nat /\ RamLimit + 1 < AddrPages
    BY RequestBound
  <2>2. "query" \in Owner
    BY DEF Owner
  <2>3. QED
    BY <1>1, <1>3, <2>1, <2>2, Zenon DEF QueryAllocation
<1>4. CASE NoAllocation
  <2>1. MemInv'
    BY <1>4 DEF NoAllocation, memVars, MemInv, GrantsDisjoint
  <2>2. generation \in Nat
    BY LayoutAssumption DEF MemInv
  <2>3. SeenInv'
    BY <1>4, <2>2 DEF NoAllocation, memVars, SeenInv, MemoryMap
  <2>4. QED
    BY <2>1, <2>3
<1>5. QED
  BY <1>2, <1>3, <1>4, StepKinds

(* No two ranges Boot Services ever hand out overlap, whatever services    *)
(* asked for them and in whatever order, as long as no request overflows   *)
(* the u64 address computation.                                            *)
THEOREM AllocationsAreDisjoint ==
  ASSUME NoWrap PROVE Spec => []GrantsDisjoint
<1>1. MemoryInv => GrantsDisjoint
  BY DEF MemoryInv, MemInv
<1>2. MemoryInv /\ [Next]_vars => MemoryInv'
  BY MemoryStep
<1>3. QED
  BY <1>1, <1>2, MemoryInit, PTL DEF Spec

(* The map-key handshake is sound: a key that ExitBootServices accepts     *)
(* belongs to the memory map as it is now.                                 *)
THEOREM HandshakeIsSound ==
  ASSUME NoWrap PROVE Spec => []CurrentKeyMeansCurrentMap
<1>1. MemoryInv => CurrentKeyMeansCurrentMap
  BY DEF MemoryInv, SeenInv, CurrentKeyMeansCurrentMap, MemoryMap
<1>2. MemoryInv /\ [Next]_vars => MemoryInv'
  BY MemoryStep
<1>3. QED
  BY <1>1, <1>2, MemoryInit, PTL DEF Spec

(* After a successful ExitBootServices no gated service allocates or       *)
(* starts an image, for any number of calls in any order.                  *)
THEOREM GatedServicesStayStopped == Spec => GatedServicesStop
<1> DEFINE Quiet ==
      exited =>
        /\ \A g \in granted' \ granted : g.owner = "query"
        /\ running' = running
        /\ exited'
<1>1. [Next]_vars => [Quiet]_vars
  <2> SUFFICES ASSUME [Next]_vars PROVE Quiet
    OBVIOUS
  <2>1. CASE GatedAllocation
    BY <2>1 DEF GatedAllocation
  <2>2. CASE QueryAllocation
    <3>1. \A g \in granted' \ granted : g.owner = "query"
      BY <2>2 DEF QueryAllocation, Allocate
    <3>2. QED
      BY <2>2, <3>1 DEF QueryAllocation
  <2>3. CASE NoAllocation
    BY <2>3 DEF NoAllocation, memVars
  <2>4. QED
    BY <2>1, <2>2, <2>3, StepKinds
<1>2. QED
  BY <1>1, PTL DEF Spec, GatedServicesStop

-----------------------------------------------------------------------------
(* The image half: the two parallel tables agree with the handle table. *)
ImageInv ==
  /\ DbTypeOK
  /\ loaded_image \in [Index -> [base : Nat, pages : Nat, entry : Nat]]
  /\ entry_points \in [Index -> Nat]
  /\ creator \in [Index -> {"none", "client", "image", "firmware"}]
  /\ \A i \in Index : handles[i].in_use <=> creator[i] # "none"
  /\ \A i \in Index : entry_points[i] = 0 => loaded_image[i] = EmptyImage
  /\ \A i \in Index : entry_points[i] # 0 =>
       /\ creator[i] = "image"
       /\ [base |-> loaded_image[i].base, pages |-> loaded_image[i].pages,
           owner |-> "image"] \in granted
       /\ entry_points[i] = loaded_image[i].base + loaded_image[i].entry
  /\ \A i, j \in Index : i # j /\ entry_points[i] # 0 /\ entry_points[j] # 0 =>
       \/ loaded_image[i].base + loaded_image[i].pages <= loaded_image[j].base
       \/ loaded_image[j].base + loaded_image[j].pages <= loaded_image[i].base

(* Every step, seen from the handle table: no handle changes hands, or one *)
(* vacant index becomes a handle of its creator, or an image is loaded.    *)
HandlesKept ==
  /\ DbTypeOK'
  /\ \A i \in Index : handles'[i].in_use = handles[i].in_use
  /\ UNCHANGED <<loaded_image, entry_points, creator>>

HandleMade ==
  /\ \E i \in Vacant, e \in HandleEntry, c \in {"client", "firmware"} :
       /\ e.in_use
       /\ handles' = [handles EXCEPT ![i] = e]
       /\ creator' = [creator EXCEPT ![i] = c]
  /\ UNCHANGED <<loaded_image, entry_points>>

ImageMade ==
  \E n \in ImagePages : \E off \in EntryPages : LoadImage(n, off)

(* find_or_create_handle takes an index that really is vacant. *)
LEMMA VacantMin == Vacant # {} => Min(Vacant) \in Vacant
<1>1. Vacant \subseteq Nat
  BY DbAssumption DEF Vacant, Index
<1>2. QED
  BY <1>1, MinIn

(* The handles ui.rs makes for firmware objects are well-formed entries. *)
LEMMA FirmwareEntryType ==
  ASSUME NEW o \in FirmwareObject
  PROVE  LET e == [Fresh EXCEPT !.protocols =
               [s \in Slot |-> IF s <= Len(ProtocolsOf[o])
                               THEN [guid |-> ProtocolsOf[o][s], interface |-> ClientInterface]
                               ELSE NoEntry]]
         IN  e \in HandleEntry /\ e.in_use
<1>1. ProtocolsOf[o] \in Seq(Guid)
  BY BootAssumption
<1>2. \A s \in Slot : s <= Len(ProtocolsOf[o]) => ProtocolsOf[o][s] \in Guid
  BY <1>1, DbAssumption DEF Slot
<1>3. ClientInterface \in Interface
  BY InterfaceAssumption
<1> DEFINE f == [s \in Slot |-> IF s <= Len(ProtocolsOf[o])
                               THEN [guid |-> ProtocolsOf[o][s], interface |-> ClientInterface]
                               ELSE NoEntry]
<1>4. f \in [Slot -> Entry \cup {NoEntry}]
  BY <1>2, <1>3 DEF Entry
<1> HIDE DEF f
<1>5. [Fresh EXCEPT !.protocols = f] \in HandleEntry /\ [Fresh EXCEPT !.protocols = f].in_use
  BY <1>4, FreshType DEF HandleEntry
<1>6. QED
  BY <1>5 DEF f

(* Every step of BootServices, to the handle table, keeps which handles    *)
(* are in use, makes one for a client or the firmware, or one for an image. *)
LEMMA HandleStepKinds ==
  ASSUME DbTypeOK, [Next]_vars
  PROVE  HandlesKept \/ HandleMade \/ ImageMade
<1>1. ASSUME UNCHANGED handles, UNCHANGED <<loaded_image, entry_points, creator>>
      PROVE  HandlesKept
  BY <1>1 DEF HandlesKept, DbTypeOK
<1>2. ASSUME NEW g \in Guid, InstallNew(g) PROVE HandleMade
  <2>1. Vacant # {} /\ handles' = [handles EXCEPT ![Min(Vacant)] = Put(Fresh, g, ClientInterface)]
    BY <1>2 DEF InstallNew, InstallOnNew
  <2>2. Put(Fresh, g, ClientInterface) \in HandleEntry /\ Put(Fresh, g, ClientInterface).in_use
    BY FreshType, PutType, InterfaceAssumption
  <2>3. QED
    BY <1>2, <2>1, <2>2, VacantMin DEF InstallNew, HandleMade
<1>3. ASSUME NEW i \in Index, NEW g \in Guid, ChangeProtocols(i, g) PROVE HandlesKept
  <2>1. DbNext
    BY <1>3, InterfaceAssumption DEF ChangeProtocols, DbNext
  <2>2. DbTypeOK'
    BY <2>1, DbStepType
  <2>3. handles[i] \in HandleEntry /\ handles[i].in_use /\ handles \in [Index -> HandleEntry]
    BY <1>3 DEF ChangeProtocols, InstallOn, Reinstall, Uninstall, Live, DbTypeOK
  <2>4. \A j \in Index : handles'[j].in_use = handles[j].in_use
    <3>1. CASE InstallOn(i, g, ClientInterface)
      BY <2>3, <3>1, PutType, InterfaceAssumption DEF InstallOn, OpenSlots
    <3>2. CASE Reinstall(i, g, ClientInterface)
      <4> DEFINE d == Drop(handles[i], g)
      <4>1. d \in HandleEntry /\ d.in_use = handles[i].in_use
        BY <2>3, DropType
      <4> HIDE DEF d
      <4>2. CASE \E s \in Slot : d.protocols[s] = NoEntry
        <5>1. Put(d, g, ClientInterface).in_use = d.in_use
          BY <4>1, <4>2, PutType, InterfaceAssumption
        <5>2. handles' = [handles EXCEPT ![i] = Put(d, g, ClientInterface)]
          BY <3>2, <4>2 DEF Reinstall, d
        <5>3. QED
          BY <2>3, <4>1, <5>1, <5>2
      <4>3. CASE ~ \E s \in Slot : d.protocols[s] = NoEntry
        BY <3>2, <4>3 DEF Reinstall, d
      <4>4. QED
        BY <4>2, <4>3
    <3>3. CASE Uninstall(i, g)
      BY <2>3, <3>3, DropType DEF Uninstall
    <3>4. QED
      BY <1>3, <3>1, <3>2, <3>3 DEF ChangeProtocols
  <2>5. QED
    BY <1>3, <2>2, <2>4 DEF HandlesKept, ChangeProtocols, bootVars
<1>4. ASSUME NEW o \in FirmwareObject, FirmwareHandle(o) PROVE HandleMade
  BY <1>4, VacantMin, FirmwareEntryType DEF FirmwareHandle, HandleMade
<1>5. CASE ImageMade
  BY <1>5
<1>6. CASE \/ \E n \in PageCounts : AllocatePages(n)
           \/ \E b \in PoolSizes : AllocatePool(b)
           \/ RefusedAfterExit \/ GetMemoryMap
           \/ \E k \in 0 .. MaxGeneration : ExitBootServices(k)
           \/ \E n \in ImagePages : LoadImageFails(n)
           \/ \E i \in Index : StartImage(i)
           \/ \E g \in Guid : LocateHandleBuffer(g)
           \/ LocateAllHandles
           \/ \E i \in Index : ProtocolsPerHandle(i)
           \/ UNCHANGED vars
  <2>1. UNCHANGED handles /\ UNCHANGED <<loaded_image, entry_points, creator>>
    BY <1>6 DEF AllocatePages, AllocatePool, RefusedAfterExit, GetMemoryMap, ExitBootServices,
                LoadImageFails, StartImage, LocateHandleBuffer, LocateAllHandles,
                ProtocolsPerHandle, AnswerInPages, vars, bootVars
  <2>2. QED
    BY <1>1, <2>1
<1>7. QED
  BY <1>2, <1>3, <1>4, <1>5, <1>6 DEF Next, ImageMade

(* No step takes back a range that was handed out. *)
LEMMA GrantsOnlyGrow == [Next]_vars => granted \subseteq granted'
  BY StepKinds DEF GatedAllocation, QueryAllocation, NoAllocation, Allocate, memVars

(* The empty tables satisfy the image invariant. *)
LEMMA ImageInit == Init => ImageInv
<1>1. SUFFICES ASSUME Init PROVE ImageInv
  OBVIOUS
<1>2. DbTypeOK
  BY <1>1, FreshType DEF Init, DbInit, DbTypeOK
<1>3. QED
  BY <1>1, <1>2 DEF Init, DbInit, ImageInv, EmptyImage, EmptyHandle

(* Every service keeps the image invariant, LoadImage included. *)
LEMMA ImageStep ==
  ASSUME NoWrap, MemoryInv, ImageInv, [Next]_vars
  PROVE  ImageInv'
<1>0. granted \subseteq granted'
  BY GrantsOnlyGrow
<1>1. CASE HandlesKept
  BY <1>0, <1>1 DEF HandlesKept, ImageInv, PagesOf, EmptyImage
<1>2. CASE HandleMade
  <2>1. PICK i \in Vacant, e \in HandleEntry, c \in {"client", "firmware"} :
          /\ e.in_use
          /\ handles' = [handles EXCEPT ![i] = e]
          /\ creator' = [creator EXCEPT ![i] = c]
    BY <1>2 DEF HandleMade
  <2>2. i \in Index /\ ~handles[i].in_use
    BY DEF Vacant
  <2>3. DbTypeOK'
    BY <2>1, <2>2, TableUpdate DEF ImageInv
  <2>4. UNCHANGED <<loaded_image, entry_points>>
    BY <1>2 DEF HandleMade
  <2>5. entry_points[i] = 0
    BY <2>2 DEF ImageInv
  <2>6. /\ creator' \in [Index -> {"none", "client", "image", "firmware"}]
        /\ \A k \in Index : handles'[k].in_use <=> creator'[k] # "none"
    BY <2>1, <2>2 DEF ImageInv, DbTypeOK
  <2>7. \A k \in Index : entry_points[k] # 0 => creator'[k] = "image"
    BY <2>1, <2>2, <2>5 DEF ImageInv
  <2>8. QED
    BY <1>0, <2>3, <2>4, <2>6, <2>7 DEF ImageInv, PagesOf, EmptyImage
<1>3. CASE ImageMade
  <2>0. PICK n \in ImagePages : \E off \in EntryPages : LoadImage(n, off)
    BY <1>3 DEF ImageMade
  <2>1. PICK off \in EntryPages : LoadImage(n, off)
    BY <2>0
  <2> DEFINE i == Min(Vacant)
             img == [base |-> next_free_page, pages |-> n, entry |-> off]
             new == [base |-> next_free_page, pages |-> n, owner |-> "image"]
  <2>2. i \in Index /\ ~handles[i].in_use
    BY <2>1, VacantMin DEF LoadImage, Vacant
  <2> HIDE DEF i
  <2>3. n \in Nat /\ off \in Nat
    BY BootAssumption
  <2>4. next_free_page \in Nat /\ next_free_page > 0
    BY LayoutAssumption DEF MemoryInv, MemInv
  <2>5. /\ handles' = [handles EXCEPT ![i] = Put(Fresh, LoadedImage, ImageInterface)]
        /\ loaded_image' = [loaded_image EXCEPT ![i] = img]
        /\ entry_points' = [entry_points EXCEPT ![i] = next_free_page + off]
        /\ creator' = [creator EXCEPT ![i] = "image"]
        /\ granted' = granted \cup {new}
    BY <2>1 DEF LoadImage, Allocate, i
  <2>6. Put(Fresh, LoadedImage, ImageInterface) \in HandleEntry
        /\ Put(Fresh, LoadedImage, ImageInterface).in_use
    BY FreshType, PutType, BootAssumption, InterfaceAssumption
  <2>7. DbTypeOK'
    BY <2>2, <2>5, <2>6, TableUpdate DEF ImageInv
  <2>8. /\ loaded_image' \in [Index -> [base : Nat, pages : Nat, entry : Nat]]
        /\ entry_points' \in [Index -> Nat]
        /\ creator' \in [Index -> {"none", "client", "image", "firmware"}]
    BY <2>2, <2>3, <2>4, <2>5 DEF ImageInv
  <2>9. \A k \in Index : handles'[k].in_use <=> creator'[k] # "none"
    BY <2>2, <2>5, <2>6 DEF ImageInv, DbTypeOK
  <2>10. \A k \in Index : entry_points'[k] = 0 => loaded_image'[k] = EmptyImage
    BY <2>2, <2>3, <2>4, <2>5 DEF ImageInv
  <2>11. \A k \in Index : entry_points'[k] # 0 =>
           /\ creator'[k] = "image"
           /\ [base |-> loaded_image'[k].base, pages |-> loaded_image'[k].pages,
               owner |-> "image"] \in granted'
           /\ entry_points'[k] = loaded_image'[k].base + loaded_image'[k].entry
    <3> SUFFICES ASSUME NEW k \in Index, entry_points'[k] # 0
                 PROVE  /\ creator'[k] = "image"
                        /\ [base |-> loaded_image'[k].base, pages |-> loaded_image'[k].pages,
                            owner |-> "image"] \in granted'
                        /\ entry_points'[k] = loaded_image'[k].base + loaded_image'[k].entry
      OBVIOUS
    <3>1. CASE k = i
      <4>1. loaded_image'[k] = img /\ entry_points'[k] = next_free_page + off
        BY <2>2, <2>5, <3>1 DEF ImageInv
      <4>2. QED
        BY <2>2, <2>5, <3>1, <4>1 DEF ImageInv
    <3>2. CASE k # i
      <4>1. /\ loaded_image'[k] = loaded_image[k] /\ entry_points'[k] = entry_points[k]
            /\ creator'[k] = creator[k]
        BY <2>2, <2>5, <3>2 DEF ImageInv
      <4>2. QED
        BY <1>0, <4>1 DEF ImageInv
    <3>3. QED
      BY <3>1, <3>2
  <2>12. \A k \in Index : entry_points[k] # 0 =>
           loaded_image[k].base + loaded_image[k].pages <= next_free_page
    BY DEF ImageInv, MemoryInv, MemInv, GrantsDisjoint
  <2>13. \A k, j \in Index : k # j /\ entry_points'[k] # 0 /\ entry_points'[j] # 0 =>
           \/ loaded_image'[k].base + loaded_image'[k].pages <= loaded_image'[j].base
           \/ loaded_image'[j].base + loaded_image'[j].pages <= loaded_image'[k].base
    BY <2>2, <2>3, <2>4, <2>5, <2>12 DEF ImageInv
  <2>14. QED
    BY <2>7, <2>8, <2>9, <2>10, <2>11, <2>13 DEF ImageInv
<1>4. QED
  BY <1>1, <1>2, <1>3, HandleStepKinds DEF ImageInv

(* Both inductive invariants hold in every reachable state. *)
LEMMA ImageInvariant == ASSUME NoWrap PROVE Spec => [](MemoryInv /\ ImageInv)
<1>1. Init => MemoryInv /\ ImageInv
  BY MemoryInit, ImageInit
<1>2. MemoryInv /\ ImageInv /\ [Next]_vars => MemoryInv' /\ ImageInv'
  BY MemoryStep, ImageStep
<1>3. QED
  BY <1>1, <1>2, PTL DEF Spec

(* StartImage on a handle enters at that handle's own image base plus its  *)
(* own file's entry offset, whatever the files' entry offsets and sizes:   *)
(* the parallel tables line up for any number of handles and loads.        *)
THEOREM ImagesLineUp == ASSUME NoWrap PROVE Spec => []EntryPointsLineUp
<1>1. MemoryInv /\ ImageInv => EntryPointsLineUp
  <2> SUFFICES ASSUME ImageInv, NEW i \in Index, entry_points[i] # 0
               PROVE  /\ i \in Live /\ creator[i] = "image"
                      /\ [base |-> loaded_image[i].base, pages |-> loaded_image[i].pages,
                          owner |-> "image"] \in granted
                      /\ entry_points[i] = loaded_image[i].base + loaded_image[i].entry
                      /\ loaded_image[i].entry < loaded_image[i].pages =>
                           entry_points[i] \in PagesOf(loaded_image[i])
                      /\ \A j \in Index \ {i} :
                           PagesOf(loaded_image[i]) \cap PagesOf(loaded_image[j]) = {}
    BY DEF EntryPointsLineUp
  <2>1. i \in Live
    BY DEF ImageInv, Live
  <2>2. ASSUME NEW j \in Index \ {i}
        PROVE  PagesOf(loaded_image[i]) \cap PagesOf(loaded_image[j]) = {}
    <3>1. /\ loaded_image[i] \in [base : Nat, pages : Nat, entry : Nat]
          /\ loaded_image[j] \in [base : Nat, pages : Nat, entry : Nat]
      BY DEF ImageInv
    <3>2. CASE entry_points[j] = 0
      <4>1. loaded_image[j].base = 0 /\ loaded_image[j].pages = 0
        BY <3>2 DEF ImageInv, EmptyImage
      <4>2. QED
        BY <4>1 DEF PagesOf
    <3>3. CASE entry_points[j] # 0
      BY <3>1, <3>3 DEF ImageInv, PagesOf
    <3>4. QED
      BY <3>2, <3>3
  <2>3. loaded_image[i].entry < loaded_image[i].pages =>
          entry_points[i] \in PagesOf(loaded_image[i])
    <3>1. loaded_image[i] \in [base : Nat, pages : Nat, entry : Nat]
      BY DEF ImageInv
    <3>2. entry_points[i] = loaded_image[i].base + loaded_image[i].entry
      BY DEF ImageInv
    <3>3. QED
      BY <3>1, <3>2 DEF PagesOf
  <2>4. QED
    BY <2>1, <2>2, <2>3 DEF ImageInv
<1>2. QED
  BY <1>1, ImageInvariant, PTL

(* A handle given out once is never given out again for something else. *)
THEOREM HandlesAreForever == ASSUME NoWrap PROVE Spec => HandlesKeepTheirIdentity
<1> DEFINE Kept == \A i \in Index : creator[i] # "none" =>
                     creator'[i] = creator[i] /\ handles'[i].in_use
<1>1. MemoryInv /\ ImageInv /\ ImageInv' /\ [Next]_vars => [Kept]_vars
  <2> SUFFICES ASSUME ImageInv, ImageInv', [Next]_vars PROVE Kept
    OBVIOUS
  <2>1. CASE HandlesKept
    BY <2>1 DEF HandlesKept, ImageInv
  <2>2. CASE HandleMade
    BY <2>2 DEF HandleMade, ImageInv, Vacant
  <2>3. CASE ImageMade
    <3>1. Min(Vacant) \in Index /\ ~handles[Min(Vacant)].in_use
      BY <2>3, VacantMin DEF ImageMade, LoadImage, Vacant
    <3>2. creator' = [creator EXCEPT ![Min(Vacant)] = "image"]
      BY <2>3 DEF ImageMade, LoadImage
    <3>3. QED
      BY <3>1, <3>2 DEF ImageInv
  <2>4. QED
    BY <2>1, <2>2, <2>3, HandleStepKinds DEF ImageInv
<1>2. QED
  BY <1>1, ImageInvariant, PTL DEF Spec, HandlesKeepTheirIdentity

-----------------------------------------------------------------------------
(* The remaining variables keep their types. *)
RestType ==
  /\ exited \in BOOLEAN
  /\ own_handle \in [FirmwareObject -> {Null} \cup {Handle(i) : i \in Index}]
  /\ running \subseteq Nat
  /\ seen \in {NoMap} \cup
       [key : 0 .. MaxGeneration, map : {MapFor(b) : b \in FirmwareEnd .. RamLimit}]

(* Every service keeps the types of the state outside the two invariants. *)
LEMMA RestStep ==
  ASSUME MemoryInv, ImageInv, RestType, [Next]_vars
  PROVE  RestType'
<1>1. exited' \in BOOLEAN
  <2>1. CASE UNCHANGED exited
    BY <2>1 DEF RestType
  <2>2. ASSUME NEW k \in 0 .. MaxGeneration, ExitBootServices(k) PROVE exited' \in BOOLEAN
    BY <2>2, Zenon DEF ExitBootServices
  <2>3. UNCHANGED exited \/ \E k \in 0 .. MaxGeneration : ExitBootServices(k)
    BY DEF Next, AllocatePages, AllocatePool, RefusedAfterExit, GetMemoryMap, LoadImageFails,
           LoadImage, StartImage, LocateHandleBuffer, LocateAllHandles, ProtocolsPerHandle,
           AnswerInPages, InstallNew, ChangeProtocols, FirmwareHandle, vars, bootVars
  <2>4. QED
    BY <2>1, <2>2, <2>3
<1>2. own_handle' \in [FirmwareObject -> {Null} \cup {Handle(i) : i \in Index}]
  <2>1. CASE UNCHANGED own_handle
    BY <2>1 DEF RestType
  <2>2. ASSUME NEW o \in FirmwareObject, FirmwareHandle(o)
        PROVE  own_handle' \in [FirmwareObject -> {Null} \cup {Handle(i) : i \in Index}]
    <3>1. Min(Vacant) \in Index
      BY <2>2, VacantMin DEF FirmwareHandle, Vacant
    <3>2. own_handle' = [own_handle EXCEPT ![o] = Handle(Min(Vacant))]
      BY <2>2 DEF FirmwareHandle
    <3>3. QED
      BY <3>1, <3>2 DEF RestType
  <2>3. UNCHANGED own_handle \/ \E o \in FirmwareObject : FirmwareHandle(o)
    BY DEF Next, AllocatePages, AllocatePool, RefusedAfterExit, GetMemoryMap, ExitBootServices,
           LoadImageFails, LoadImage, StartImage, LocateHandleBuffer, LocateAllHandles,
           ProtocolsPerHandle, AnswerInPages, InstallNew, ChangeProtocols, vars, bootVars
  <2>4. QED
    BY <2>1, <2>2, <2>3
<1>3. running' \subseteq Nat
  <2>1. CASE UNCHANGED running
    BY <2>1 DEF RestType
  <2>2. ASSUME NEW i \in Index, StartImage(i) PROVE running' \subseteq Nat
    BY <2>2 DEF StartImage, RestType, ImageInv
  <2>3. UNCHANGED running \/ \E i \in Index : StartImage(i)
    BY DEF Next, AllocatePages, AllocatePool, RefusedAfterExit, GetMemoryMap, ExitBootServices,
           LoadImageFails, LoadImage, LocateHandleBuffer, LocateAllHandles, ProtocolsPerHandle,
           AnswerInPages, InstallNew, ChangeProtocols, FirmwareHandle, vars, bootVars
  <2>4. QED
    BY <2>1, <2>2, <2>3
<1>4. seen' \in {NoMap} \cup
        [key : 0 .. MaxGeneration, map : {MapFor(b) : b \in FirmwareEnd .. RamLimit}]
  <2>1. CASE UNCHANGED seen
    BY <2>1 DEF RestType
  <2>2. CASE seen' = [key |-> generation, map |-> MemoryMap]
    <3>1. next_free_page \in FirmwareEnd .. RamLimit /\ generation \in 0 .. MaxGeneration
      BY LayoutAssumption DEF MemoryInv, MemInv
    <3>2. QED
      BY <2>2, <3>1 DEF MemoryMap
  <2>3. QED
    BY <2>1, <2>2, StepKinds DEF GatedAllocation, QueryAllocation, NoAllocation
<1>5. QED
  BY <1>1, <1>2, <1>3, <1>4 DEF RestType

(* Type correctness of Boot Services. *)
THEOREM TypeCorrect == ASSUME NoWrap PROVE Spec => []TypeOK
<1> DEFINE All == MemoryInv /\ ImageInv /\ RestType
<1>1. Init => All
  <2>1. Init => RestType
    BY DEF Init, RestType
  <2>2. QED
    BY <2>1, MemoryInit, ImageInit
<1>2. All /\ [Next]_vars => All'
  BY MemoryStep, ImageStep, RestStep
<1>3. All => TypeOK
  BY LayoutAssumption DEF MemoryInv, MemInv, ImageInv, RestType, TypeOK
<1>4. QED
  BY <1>1, <1>2, <1>3, PTL DEF Spec

-----------------------------------------------------------------------------
(* The memory map, built region by region: it tiles 0 .. e - 1 when every  *)
(* page below e, and no page from e on, has exactly one descriptor.        *)
Descriptor == [start : Nat, end : Nat, ty : {Conventional, BootCode, BootData, Mmio}]

Tiles(map, e) ==
  /\ map \in Seq(Descriptor)
  /\ \A p \in Nat : p < e => \E i \in DOMAIN map : Covering(map, p) = {i}
  /\ \A p \in Nat : p >= e => Covering(map, p) = {}

(* Pushing the next region keeps the tiling, gives its own pages its type  *)
(* and leaves the others their type.                                       *)
LEMMA PushTiles ==
  ASSUME NEW map, NEW e \in Nat, Tiles(map, e),
         NEW r \in Descriptor, r.start = e, e <= r.end
  PROVE  /\ Tiles(Push(map, r), r.end)
         /\ \A p \in Nat : TypesOf(Push(map, r), p) =
              IF e <= p /\ p < r.end THEN {r.ty} ELSE TypesOf(map, p)
<1>0. /\ map \in Seq(Descriptor) /\ Len(map) \in Nat /\ DOMAIN map = 1 .. Len(map)
      /\ r.end \in Nat
  BY DEF Tiles, Descriptor
<1>1. CASE r.end > e
  <2> DEFINE new == Append(map, r)
  <2>1. Push(map, r) = new
    BY <1>1 DEF Push
  <2>2. /\ new \in Seq(Descriptor) /\ DOMAIN new = DOMAIN map \cup {Len(map) + 1}
        /\ Len(map) + 1 \notin DOMAIN map
        /\ new[Len(map) + 1] = r /\ \A i \in DOMAIN map : new[i] = map[i]
    BY <1>0
  <2> HIDE DEF new
  <2>3. ASSUME NEW p \in Nat, e <= p, p < r.end
        PROVE  Covering(new, p) = {Len(map) + 1} /\ TypesOf(new, p) = {r.ty}
    <3>1. Covering(map, p) = {}
      BY <2>3 DEF Tiles
    <3>2. Covering(new, p) = {Len(map) + 1}
      BY <2>2, <2>3, <3>1 DEF Covering
    <3>3. TypesOf(new, p) = {new[i].ty : i \in Covering(new, p)}
      BY DEF TypesOf, Covering
    <3>4. QED
      BY <2>2, <3>2, <3>3
  <2>4. ASSUME NEW p \in Nat, ~(e <= p /\ p < r.end)
        PROVE  Covering(new, p) = Covering(map, p) /\ TypesOf(new, p) = TypesOf(map, p)
    <3>1. Covering(new, p) = Covering(map, p)
      BY <1>0, <2>2, <2>4 DEF Covering
    <3>2. /\ TypesOf(new, p) = {new[i].ty : i \in Covering(new, p)}
          /\ TypesOf(map, p) = {map[i].ty : i \in Covering(map, p)}
      BY DEF TypesOf, Covering
    <3>3. \A i \in Covering(map, p) : new[i] = map[i]
      BY <2>2 DEF Covering
    <3>4. QED
      BY <3>1, <3>2, <3>3
  <2>5. Tiles(new, r.end)
    <3>1. ASSUME NEW p \in Nat, p < r.end
          PROVE  \E i \in DOMAIN new : Covering(new, p) = {i}
      <4>1. CASE e <= p
        BY <2>2, <2>3, <3>1, <4>1
      <4>2. CASE ~(e <= p)
        <5>1. PICK i \in DOMAIN map : Covering(map, p) = {i}
          BY <4>2 DEF Tiles
        <5>2. QED
          BY <2>2, <2>4, <4>2, <5>1
      <4>3. QED
        BY <4>1, <4>2
    <3>2. ASSUME NEW p \in Nat, p >= r.end
          PROVE  Covering(new, p) = {}
      BY <1>0, <1>1, <2>4, <3>2 DEF Tiles
    <3>3. QED
      BY <2>2, <3>1, <3>2 DEF Tiles
  <2>6. QED
    BY <2>1, <2>3, <2>4, <2>5
<1>2. CASE r.end = e
  BY <1>0, <1>2 DEF Push
<1>3. QED
  BY <1>0, <1>1, <1>2

(* The same of a region given by its bounds. *)
LEMMA PushRegion ==
  ASSUME NEW map, NEW a \in Nat, NEW b \in Nat, a <= b, Tiles(map, a),
         NEW ty \in {Conventional, BootCode, BootData, Mmio}
  PROVE  /\ Tiles(Push(map, Region(a, b, ty)), b)
         /\ \A p \in Nat : TypesOf(Push(map, Region(a, b, ty)), p) =
              IF a <= p /\ p < b THEN {ty} ELSE TypesOf(map, p)
<1> DEFINE r == Region(a, b, ty)
<1>1. r \in Descriptor /\ r.start = a /\ r.end = b /\ r.ty = ty
  BY DEF Region, Descriptor
<1> HIDE DEF r
<1>2. /\ Tiles(Push(map, r), r.end)
      /\ \A p \in Nat : TypesOf(Push(map, r), p) =
           IF a <= p /\ p < r.end THEN {r.ty} ELSE TypesOf(map, p)
  BY <1>1, PushTiles
<1>3. QED
  BY <1>1, <1>2 DEF r

(* The eight regions of get_memory_map, pushed in turn, tile everything    *)
(* below LocalEnd, as long as the bump pointer is below the framebuffer.   *)
LEMMA MapTiles ==
  ASSUME NEW bump \in Nat, FirmwareEnd <= bump, bump <= FbBase
  PROVE  /\ Tiles(MapFor(bump), LocalEnd)
         /\ \A p \in Nat : FirmwareEnd <= p /\ p < bump => TypesOf(MapFor(bump), p) = {BootData}
         /\ \A p \in Nat : FbBase <= p /\ p < FbEnd => TypesOf(MapFor(bump), p) = {Mmio}
<1>0. /\ FirmwareStart \in Nat /\ FirmwareEnd \in Nat /\ FbBase \in Nat /\ FbEnd \in Nat
      /\ RamLimit \in Nat /\ LocalBase \in Nat /\ LocalEnd \in Nat
      /\ 0 <= FirmwareStart /\ FirmwareStart <= FirmwareEnd
      /\ FbBase <= FbEnd /\ FbEnd <= RamLimit /\ RamLimit <= LocalBase /\ LocalBase <= LocalEnd
  BY LayoutAssumption
<1> DEFINE m1 == Push(<<>>, Region(0, FirmwareStart, Conventional))
           m2 == Push(m1, Region(FirmwareStart, FirmwareEnd, BootCode))
           m3 == Push(m2, Region(FirmwareEnd, bump, BootData))
           m4 == Push(m3, Region(bump, FbBase, Conventional))
           m5 == Push(m4, Region(FbBase, FbEnd, Mmio))
           m6 == Push(m5, Region(FbEnd, RamLimit, Conventional))
           m7 == Push(m6, Region(RamLimit, LocalBase, Mmio))
           m8 == Push(m7, Region(LocalBase, LocalEnd, Mmio))
<1>1. MapFor(bump) = m8
  BY DEF MapFor, Candidates
<1>2. Tiles(<<>>, 0)
  BY DEF Tiles, Covering
<1>3. Tiles(m1, FirmwareStart)
  BY <1>0, <1>2, PushRegion
<1> HIDE DEF m1
<1>4. Tiles(m2, FirmwareEnd)
  BY <1>0, <1>3, PushRegion
<1> HIDE DEF m2
<1>5. /\ Tiles(m3, bump)
      /\ \A p \in Nat : FirmwareEnd <= p /\ p < bump => TypesOf(m3, p) = {BootData}
  BY <1>0, <1>4, PushRegion
<1> HIDE DEF m3
<1>6. /\ Tiles(m4, FbBase)
      /\ \A p \in Nat : FirmwareEnd <= p /\ p < bump => TypesOf(m4, p) = {BootData}
  BY <1>0, <1>5, PushRegion, SMTT(30)
<1> HIDE DEF m4
<1>7. /\ Tiles(m5, FbEnd)
      /\ \A p \in Nat : FirmwareEnd <= p /\ p < bump => TypesOf(m5, p) = {BootData}
      /\ \A p \in Nat : FbBase <= p /\ p < FbEnd => TypesOf(m5, p) = {Mmio}
  BY <1>0, <1>6, PushRegion, SMTT(30)
<1> HIDE DEF m5
<1>8. /\ Tiles(m6, RamLimit)
      /\ \A p \in Nat : p < FbEnd => TypesOf(m6, p) = TypesOf(m5, p)
  BY <1>0, <1>7, PushRegion
<1> HIDE DEF m6
<1>9. /\ Tiles(m7, LocalBase)
      /\ \A p \in Nat : p < FbEnd => TypesOf(m7, p) = TypesOf(m6, p)
  BY <1>0, <1>8, PushRegion
<1> HIDE DEF m7
<1>10. /\ Tiles(m8, LocalEnd)
       /\ \A p \in Nat : p < FbEnd => TypesOf(m8, p) = TypesOf(m7, p)
  BY <1>0, <1>9, PushRegion
<1> HIDE DEF m8
<1>11. \A p \in Nat : p < FbEnd => TypesOf(m8, p) = TypesOf(m5, p)
  BY <1>8, <1>9, <1>10
<1>12. QED
  BY <1>0, <1>1, <1>7, <1>10, <1>11

(* For every memory layout: until the allocator runs into the framebuffer  *)
(* each page has exactly one descriptor in the map the caller gets, every  *)
(* page any service handed out is boot-services data, and the framebuffer  *)
(* is never offered as memory (memory.rs get_memory_map).                  *)
THEOREM MapIsAPartition == ASSUME NoWrap PROVE Spec => []MapPartitionsMemory
<1>1. MemoryInv => MapPartitionsMemory
  <2> SUFFICES ASSUME MemoryInv, next_free_page <= FbBase
               PROVE  /\ \A p \in 0 .. (LocalEnd - 1) : Cardinality(Covering(MemoryMap, p)) = 1
                      /\ \A g \in granted : \A p \in PagesOf(g) :
                           TypesOf(MemoryMap, p) = {BootData}
                      /\ \A p \in FbBase .. (FbEnd - 1) : TypesOf(MemoryMap, p) = {Mmio}
    BY DEF MapPartitionsMemory
  <2>0. /\ next_free_page \in Nat /\ FirmwareEnd <= next_free_page
        /\ granted \subseteq Grant /\ GrantsDisjoint
        /\ FirmwareEnd \in Nat /\ FbBase \in Nat /\ FbEnd \in Nat /\ LocalEnd \in Nat
    BY LayoutAssumption DEF MemoryInv, MemInv
  <2>1. /\ Tiles(MemoryMap, LocalEnd)
        /\ \A p \in Nat : FirmwareEnd <= p /\ p < next_free_page
             => TypesOf(MemoryMap, p) = {BootData}
        /\ \A p \in Nat : FbBase <= p /\ p < FbEnd => TypesOf(MemoryMap, p) = {Mmio}
    BY <2>0, MapTiles DEF MemoryMap
  <2>2. ASSUME NEW p \in 0 .. (LocalEnd - 1)
        PROVE  Cardinality(Covering(MemoryMap, p)) = 1
    <3>1. p \in Nat /\ p < LocalEnd
      BY <2>0
    <3>2. PICK i : Covering(MemoryMap, p) = {i}
      BY <2>1, <3>1 DEF Tiles
    <3>3. QED
      BY <3>2, FS_Singleton
  <2>3. ASSUME NEW g \in granted, NEW p \in PagesOf(g)
        PROVE  TypesOf(MemoryMap, p) = {BootData}
    <3>1. /\ g.base \in Nat /\ g.pages \in Nat
          /\ FirmwareEnd <= g.base /\ g.base + g.pages <= next_free_page
      BY <2>0 DEF Grant, GrantsDisjoint
    <3>2. p \in Nat /\ FirmwareEnd <= p /\ p < next_free_page
      BY <2>0, <3>1 DEF PagesOf
    <3>3. QED
      BY <2>1, <3>2
  <2>4. ASSUME NEW p \in FbBase .. (FbEnd - 1)
        PROVE  TypesOf(MemoryMap, p) = {Mmio}
    BY <2>0, <2>1
  <2>5. QED
    BY <2>2, <2>3, <2>4
<1>2. MemoryInv /\ [Next]_vars => MemoryInv'
  BY MemoryStep
<1>3. QED
  BY <1>1, <1>2, MemoryInit, PTL DEF Spec
=============================================================================
