-------------------------- MODULE EntityStoreSpec --------------------------
(***************************************************************************)
(* What the callers of a shared store may rely on: every operation takes   *)
(* effect at once, replace_from with all its entries, whatever the others  *)
(* do meanwhile.  The two ways a replace_from can fail are part of it.     *)
(***************************************************************************)
EXTENDS StoreKinds

CONSTANTS
  Lists,      (* the entries that are passed to replace_from               *)
  AxisChecks  (* the (axis, value) pairs that are passed to axis_filtered  *)

VARIABLES
  kind,   (* which store it is                                             *)
  store,  (* its entries                                                   *)
  last    (* the last operation that ended, and its answer                 *)

Init ==
  /\ kind \in Kinds
  /\ store = EmptyStore
  /\ last = [name |-> "new", arg |-> NONE, answer |-> DONE]

Ends(name, arg, answer) ==
  /\ last' = [name |-> name, arg |-> arg, answer |-> answer]
  /\ UNCHANGED kind

(* axis_filtered: the entries whose path has the given value on every axis  *)
(* named, in whatever order and however often the axes are named.           *)
Matching(checks) ==
  { k \in KeysIn(store) \cap Keys :
      \A i \in 1 .. Len(checks) :
        /\ checks[i].axis < Len(PathOf[k])
        /\ PathOf[k][checks[i].axis + 1] = checks[i].value }

Read ==
  /\ \/ \E k \in AllKeys :
          Ends("get", k, IF Representable(kind, k) THEN store[k]
                         ELSE IF kind = "io" THEN FAILED ELSE NONE)
     \/ \E k \in AllKeys :
          Ends("contains", k, Representable(kind, k) /\ store[k] # NONE)
     \/ Ends("len", NONE, Cardinality(KeysIn(store)))
     \/ Ends("values", NONE, store)
     \/ \E checks \in AxisChecks : Ends("filter", checks, Matching(checks))
  /\ UNCHANGED store

Insert(e) ==
  \/ /\ Accepted(kind, e)
     /\ store' = With(store, e)
     /\ Ends("insert", e, IF kind = "io" THEN DONE ELSE store[e.key])
  \/ /\ ~ Accepted(kind, e)
     /\ Ends("insert", e, FAILED)
     /\ UNCHANGED store

Remove(k) ==
  \/ /\ Representable(kind, k)
     /\ store' = [store EXCEPT ![k] = NONE]
     /\ Ends("remove", k, IF kind = "io" THEN DONE ELSE store[k])
  \/ /\ ~ Representable(kind, k)
     /\ Ends("remove", k, IF kind = "io" THEN FAILED ELSE NONE)
     /\ UNCHANGED store

Clear ==
  /\ store' = EmptyStore
  /\ Ends("clear", NONE, DONE)

Becomes(entries, count) == store' \in Stores /\ HoldsFirst(store', entries, count)

Replace(entries) ==
  /\ \A i \in 1 .. Len(entries) : Accepted(kind, entries[i])
  /\ Becomes(entries, Len(entries))
  /\ Ends("replace", entries, DONE)

(* The old entries are gone and those before the refused one are in; but    *)
(* MapEntityStore maps every key before it touches the store.               *)
ReplaceFails(entries) ==
  /\ \/ /\ kind = "map"
        /\ \E i \in 1 .. Len(entries) : ~ Representable(kind, entries[i].key)
        /\ UNCHANGED store
     \/ /\ kind = "map" => \A i \in 1 .. Len(entries) : Representable(kind, entries[i].key)
        /\ \E i \in 1 .. Len(entries) :
             /\ ~ Accepted(kind, entries[i])
             /\ \A j \in 1 .. i - 1 : Accepted(kind, entries[j])
             /\ Becomes(entries, i - 1)
  /\ Ends("replace", entries, FAILED)

(* apply_batch promises no more than its operations one by one.             *)
BatchEnds(answer) == Ends("batch", NONE, answer) /\ UNCHANGED store

Next ==
  \/ Read
  \/ \E e \in Entry : Insert(e)
  \/ \E k \in AllKeys : Remove(k)
  \/ Clear
  \/ \E entries \in Lists : Replace(entries) \/ ReplaceFails(entries)
  \/ \E answer \in {DONE, FAILED} : BatchEnds(answer)

Spec == Init /\ [][Next]_<<kind, store, last>>
=============================================================================
