----------------------------- MODULE ProtocolDb -----------------------------
(***************************************************************************)
(* The handle/protocol database (src/efi/protocol_db.rs) and the Boot      *)
(* Services entry points that only touch it (src/efi/boot_services.rs).    *)
(* A handle is a table index plus one; 0 is the null handle.  Callers pass *)
(* handles the firmware gave them, so an index is always in range.         *)
(***************************************************************************)
EXTENDS Integers, Sequences, FiniteSetsExt

CONSTANTS
  MaxHandles,    \* MAX_HANDLES (32)
  MaxProtocols,  \* MAX_PROTOCOLS_PER_HANDLE (8)
  Guid,          \* protocol GUIDs
  Interface,     \* interface pointers
  NoEntry        \* None in an Option<ProtocolEntry> slot

Entry == [guid : Guid, interface : Interface]

ASSUME DbAssumption ==
  /\ MaxHandles \in Nat \ {0}
  /\ MaxProtocols \in Nat \ {0}
  /\ NoEntry \notin Entry \cup Interface

VARIABLE handles  \* HANDLES: index -> [in_use, protocols]

Index == 0 .. (MaxHandles - 1)
Slot == 1 .. MaxProtocols
Handle(i) == i + 1
Null == 0

HandleEntry == [in_use : BOOLEAN, protocols : [Slot -> Entry \cup {NoEntry}]]
EmptyHandle == [in_use |-> FALSE, protocols |-> [s \in Slot |-> NoEntry]]

DbInit == handles = [i \in Index |-> EmptyHandle]

-----------------------------------------------------------------------------
(* Reading the table. *)
Live == {i \in Index : handles[i].in_use}

SlotsWith(i, g) ==
  {s \in Slot : handles[i].protocols[s] # NoEntry /\ handles[i].protocols[s].guid = g}

OpenSlots(i) == {s \in Slot : handles[i].protocols[s] = NoEntry}

(* Mutant of Vacant: a handle with no protocols left counts as vacant. *)
Vacant_Emptied == {i \in Index : \A s \in Slot : handles[i].protocols[s] = NoEntry}

(* Indices find_or_create_handle(null) may take; it takes the least. *)
Vacant == {i \in Index : ~handles[i].in_use}

(* handles_with(g): the indices exposing g, in table order. *)
Carriers(g) == {i \in Live : SlotsWith(i, g) # {}}

HandlesWith(g) ==
  [n \in 1 .. Cardinality(Carriers(g)) |->
     Handle(CHOOSE i \in Carriers(g) :
              Cardinality({j \in Carriers(g) : j < i}) = n - 1)]

(* Mutant of HandleProtocol: the last matching slot wins. *)
HandleProtocol_LastSlot(i, g) ==
  IF i \in Carriers(g)
  THEN handles[i].protocols[Max(SlotsWith(i, g))].interface
  ELSE NoEntry

(* handle_protocol(h, g): the interface in the first slot holding g. *)
HandleProtocol(i, g) ==
  IF i \in Carriers(g)
  THEN handles[i].protocols[Min(SlotsWith(i, g))].interface
  ELSE NoEntry

(* locate(g): the first slot, of the first live handle, that holds g. *)
Locate(g) ==
  IF Carriers(g) = {} THEN NoEntry
  ELSE LET i == Min(Carriers(g))
       IN  handles[i].protocols[Min(SlotsWith(i, g))].interface

(* protocols_on_handle(h): the GUIDs in h's occupied slots, in slot order. *)
ProtocolsOn(i) ==
  LET occupied == SelectSeq([s \in Slot |-> handles[i].protocols[s]],
                            LAMBDA e : e # NoEntry)
  IN  [n \in DOMAIN occupied |-> occupied[n].guid]

-----------------------------------------------------------------------------
(* install(index, g, p) on a handle that has an open slot. *)
Put(entry, g, p) ==
  LET open == {s \in Slot : entry.protocols[s] = NoEntry}
  IN  [entry EXCEPT !.protocols[Min(open)] = [guid |-> g, interface |-> p]]

(* Mutant of Drop: empties every slot that holds g. *)
Drop_All(entry, g) ==
  [entry EXCEPT !.protocols =
     [s \in Slot |-> IF entry.protocols[s] # NoEntry /\ entry.protocols[s].guid = g
                     THEN NoEntry ELSE entry.protocols[s]]]

(* uninstall(index, g): empties the first slot that holds g, if any does. *)
Drop(entry, g) ==
  LET held == {s \in Slot : entry.protocols[s] # NoEntry /\ entry.protocols[s].guid = g}
  IN  IF held = {} THEN entry
      ELSE [entry EXCEPT !.protocols[Min(held)] = NoEntry]

(* find_or_create_handle(null): the least vacant index, wiped and in use. *)
Fresh == [EmptyHandle EXCEPT !.in_use = TRUE]

(* InstallProtocolInterface on a null handle: create, then install.  A     *)
(* fresh handle always has room, so only the table can be full.            *)
InstallOnNew(g, p) ==
  /\ Vacant # {}
  /\ handles' = [handles EXCEPT ![Min(Vacant)] = Put(Fresh, g, p)]

(* InstallProtocolInterface on a handle the caller already holds. *)
InstallOn(i, g, p) ==
  /\ i \in Live
  /\ OpenSlots(i) # {}
  /\ handles' = [handles EXCEPT ![i] = Put(handles[i], g, p)]

(* EFI_OUT_OF_RESOURCES: no vacant handle, or no open slot on this one. *)
InstallFails ==
  /\ Vacant = {} \/ \E i \in Live : OpenSlots(i) = {}
  /\ UNCHANGED handles

(* ReinstallProtocolInterface: uninstall, whose result is ignored, then    *)
(* install; EFI_OUT_OF_RESOURCES when the handle is full of other GUIDs.   *)
Reinstall(i, g, p) ==
  /\ i \in Live
  /\ LET dropped == Drop(handles[i], g)
     IN  handles' =
           IF \E s \in Slot : dropped.protocols[s] = NoEntry
           THEN [handles EXCEPT ![i] = Put(dropped, g, p)]
           ELSE handles

(* UninstallProtocolInterface; EFI_NOT_FOUND leaves the table alone. *)
Uninstall(i, g) ==
  /\ i \in Live
  /\ handles' = [handles EXCEPT ![i] = Drop(handles[i], g)]

DbNext ==
  \/ \E g \in Guid, p \in Interface : InstallOnNew(g, p)
  \/ \E i \in Index, g \in Guid, p \in Interface : InstallOn(i, g, p)
  \/ InstallFails
  \/ \E i \in Index, g \in Guid, p \in Interface : Reinstall(i, g, p)
  \/ \E i \in Index, g \in Guid : Uninstall(i, g)

DbSpec == DbInit /\ [][DbNext]_handles

-----------------------------------------------------------------------------
(* Every slot of the table is empty or an entry, and only live handles     *)
(* carry entries: find_or_create_handle wipes what it hands out.           *)
DbTypeOK ==
  /\ handles \in [Index -> HandleEntry]
  /\ \A i \in Index : ~handles[i].in_use => handles[i] = EmptyHandle

(* LocateProtocol and the LocateHandle + HandleProtocol walk give a caller *)
(* the same interface: both pick the first carrier and its first slot.     *)
LookupsAgree ==
  \A g \in Guid :
    /\ (Locate(g) = NoEntry) <=> (HandlesWith(g) = <<>>)
    /\ HandlesWith(g) # <<>> => Locate(g) = HandleProtocol(HandlesWith(g)[1] - 1, g)

-----------------------------------------------------------------------------
(* The table as bags of entries, one for each handle. *)
Times(protocols, e) == Cardinality({s \in Slot : protocols[s] = e})
Taken(protocols) == Cardinality({s \in Slot : protocols[s] # NoEntry})

Bags == [i \in Index |-> [e \in Entry |-> Times(handles[i].protocols, e)]]
Loads == [i \in Index |-> Taken(handles[i].protocols)]

Registry == INSTANCE ProtocolRegistry WITH
  HandleIds <- Index,
  Entries <- Entry,
  Capacity <- MaxProtocols,
  created <- Live,
  carries <- Bags,
  load <- Loads

(* The slot table implements the registry: every call is one operation on  *)
(* one handle's bag, adding to it only while it has room, or leaves every  *)
(* bag alone (protocol_db.rs install, uninstall).                          *)
RefinesRegistry == Registry!RegSpec
=============================================================================
