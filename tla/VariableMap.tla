----------------------------- MODULE VariableMap -----------------------------
(***************************************************************************)
(* What the variable store promises: a map from (name, GUID) to attributes *)
(* and data with a bounded number of keys, changed one key at a time.      *)
(***************************************************************************)
EXTENDS Integers, FiniteSets

CONSTANTS Keyspace, Values, Absent, Capacity

VARIABLE value  \* key -> its attributes and data, or Absent

Defined == {k \in Keyspace : value[k] # Absent}

MapInit == value = [k \in Keyspace |-> Absent]

Assign(k, v) ==
  /\ k \in Defined \/ Cardinality(Defined) < Capacity
  /\ value' = [value EXCEPT ![k] = v]

Erase(k) ==
  /\ k \in Defined
  /\ value' = [value EXCEPT ![k] = Absent]

MapNext == \E k \in Keyspace : Erase(k) \/ \E v \in Values : Assign(k, v)

MapSpec == MapInit /\ [][MapNext]_value
=============================================================================
