---------------------------- MODULE CoordMapSpec ----------------------------
(***************************************************************************)
(* What CoordMapStore promises its callers (chton/src/map/mod.rs and the   *)
(* CoordMap contract it implements): a map from coordinate paths to        *)
(* values, where every put and remove answers with the value it replaced.  *)
(* Flushing, closing and reopening the store change nothing of it.         *)
(***************************************************************************)
CONSTANTS
  Paths,      (* the keys                                                  *)
  Values,     (* the values that fit a record slot                         *)
  NONE,       (* no value: the key is absent                               *)
  TOO_LARGE   (* the answer to a put whose value does not fit              *)

VARIABLES map, result

Init ==
  /\ map = [p \in Paths |-> NONE]
  /\ result = NONE

Put(p, v) ==
  /\ result' = map[p]
  /\ map' = [map EXCEPT ![p] = v]

RefusePut ==
  /\ result' = TOO_LARGE
  /\ UNCHANGED map

Remove(p) ==
  /\ result' = map[p]
  /\ map' = [map EXCEPT ![p] = NONE]

Clear ==
  /\ map' = [p \in Paths |-> NONE]
  /\ UNCHANGED result

Next ==
  \/ \E p \in Paths : Remove(p)
  \/ \E p \in Paths, v \in Values : Put(p, v)
  \/ RefusePut
  \/ Clear

Spec == Init /\ [][Next]_<<map, result>>
=============================================================================
