----------------------------- MODULE StoreKinds -----------------------------
(***************************************************************************)
(* The stores callers share, and what each accepts: MemoryEntityStore,     *)
(* CoordEntityStore and MapEntityStore (chton/src/store/mod.rs) and        *)
(* CoordMapStoreIo (chton/src/io/coord_map_io.rs).                         *)
(***************************************************************************)
EXTENDS Naturals, Sequences, FiniteSets

CONSTANTS
  Keys,         (* keys that every store can represent                     *)
  LongKeys,     (* keys beyond the capacity of a coordinate path           *)
  Data,         (* values that fit a record slot                           *)
  LargeData,    (* values that do not                                      *)
  PathOf,       (* str_to_coordpath: the path of each of Keys              *)
  COORDS,       (* Coord::N_VALID: coordinates are 0 .. COORDS - 1         *)
  NONE,         (* no value                                                *)
  DONE,         (* the answer ()                                           *)
  FAILED        (* an Err or a panic                                       *)

Kinds    == {"memory", "coord", "map", "io"}
AllKeys  == Keys \cup LongKeys
AllData  == Data \cup LargeData
Entry    == [key : AllKeys, value : AllData]

(* A HashMap takes any key; str_to_coordpath and key_of refuse long ones.   *)
Representable(kind, k) == kind = "memory" \/ k \in Keys

(* put_path refuses a value longer than max_value_len.                      *)
Fits(kind, v) == kind \in {"memory", "coord"} \/ v \in Data

Accepted(kind, e) == Representable(kind, e.key) /\ Fits(kind, e.value)

Stores     == [AllKeys -> AllData \cup {NONE}]
EmptyStore == [k \in AllKeys |-> NONE]

With(store, entry) == [store EXCEPT ![entry.key] = entry.value]

(* A store after the first entries were put one by one into an empty one.   *)
HoldsFirst(store, entries, count) ==
  \A k \in AllKeys :
    \/ /\ store[k] = NONE
       /\ \A i \in 1 .. count : entries[i].key # k
    \/ \E i \in 1 .. count :
         /\ entries[i].key = k
         /\ entries[i].value = store[k]
         /\ \A j \in i + 1 .. count : entries[j].key # k

KeysIn(store) == { k \in AllKeys : store[k] # NONE }
=============================================================================
