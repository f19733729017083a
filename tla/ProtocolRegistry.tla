-------------------------- MODULE ProtocolRegistry --------------------------
(***************************************************************************)
(* What the protocol database promises, without slots or table order: each *)
(* handle carries a bag of (GUID, interface) pairs of bounded size, a      *)
(* handle once created never goes away, and one call changes one handle.   *)
(***************************************************************************)
EXTENDS Integers

CONSTANTS
  HandleIds,
  Entries,    \* records with a field guid
  Capacity    \* how many installations a handle has room for

VARIABLES
  created,  \* handles that exist
  carries,  \* handle -> entry -> how many times it is installed
  load      \* handle -> how many installations it carries, duplicates counted

regVars == <<created, carries, load>>

RegInit ==
  /\ created = {}
  /\ carries = [h \in HandleIds |-> [e \in Entries |-> 0]]
  /\ load = [h \in HandleIds |-> 0]

Plus(bag, e) == [bag EXCEPT ![e] = @ + 1]
Minus(bag, e) == [bag EXCEPT ![e] = @ - 1]

CreateWith(h, e) ==
  /\ h \notin created
  /\ created' = created \cup {h}
  /\ carries' = [carries EXCEPT ![h] = Plus(carries[h], e)]
  /\ load' = [load EXCEPT ![h] = @ + 1]

Add(h, e) ==
  /\ h \in created
  /\ load[h] < Capacity
  /\ carries' = [carries EXCEPT ![h] = Plus(carries[h], e)]
  /\ load' = [load EXCEPT ![h] = @ + 1]
  /\ UNCHANGED created

Remove(h, e) ==
  /\ h \in created
  /\ carries[h][e] > 0
  /\ carries' = [carries EXCEPT ![h] = Minus(carries[h], e)]
  /\ load' = [load EXCEPT ![h] = @ - 1]
  /\ UNCHANGED created

Replace(h, old, new) ==
  /\ h \in created
  /\ old.guid = new.guid
  /\ carries[h][old] > 0
  /\ carries' = [carries EXCEPT ![h] = Plus(Minus(carries[h], old), new)]
  /\ UNCHANGED <<created, load>>

RegNext ==
  \E h \in HandleIds, e \in Entries :
    \/ CreateWith(h, e)
    \/ Add(h, e)
    \/ Remove(h, e)
    \/ \E old \in Entries : Replace(h, old, e)

RegSpec == RegInit /\ [][RegNext]_regVars
=============================================================================
