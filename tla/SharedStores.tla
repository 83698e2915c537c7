---------------------------- MODULE SharedStores ----------------------------
(***************************************************************************)
(* Several callers of one store behind a Cell2.  An operation that borrows *)
(* the cell once is one step; replace_from keeps its borrow for a step per *)
(* entry; apply_batch of CoordMapStoreIo borrows anew for every operation, *)
(* for is_buffered and for flush; proximity borrows anew for every path.   *)
(***************************************************************************)
EXTENDS StoreKinds

CONSTANTS
  Callers,
  NOBODY,   (* the cell is not borrowed                                    *)
  Lists,    (* the entries that are passed to replace_from                 *)
  Batches,  (* the operations passed to apply_batch; value NONE deletes    *)
  AxisChecks,  (* the (axis, value) pairs passed to axis_filtered          *)
  Cubes     (* the keys on the paths around a center, in proximity's order *)

Op    == [key : AllKeys, value : AllData \cup {NONE}]
Check == [axis : Nat, value : Nat]

ASSUME SharedAssumption ==
  /\ NOBODY \notin Callers
  /\ Keys \cap LongKeys = {}
  /\ Data \cap LargeData = {}
  /\ NONE \notin AllData
  /\ DONE # FAILED
  /\ COORDS \in Nat
  /\ PathOf \in [Keys -> Seq(0 .. COORDS - 1)]

ASSUME CallsAssumption ==
  /\ Lists \subseteq Seq(Entry)
  /\ Batches \subseteq Seq(Op)
  /\ AxisChecks \subseteq Seq(Check)
  /\ Cubes \subseteq Seq(Keys)
  /\ \A cube \in Cubes : \A i, j \in 1 .. Len(cube) : cube[i] = cube[j] => i = j

VARIABLES
  kind,       (* which store it is                                         *)
  store,      (* its entries                                               *)
  buffered,   (* CoordMapStore.dirty                                       *)
  holder,     (* the caller whose borrow spans steps                       *)
  call,       (* per caller: the operation under way and what is left      *)
  before,     (* the entries when the cell was last borrowed for replace   *)
  unsettled,  (* per caller: keys its batch changed, not yet flushed       *)
  touched,    (* per caller: keys that changed since its proximity began   *)
  last        (* the last operation that ended, and its answer             *)

vars == <<kind, store, buffered, holder, call, before, unsettled, touched, last>>

Idle == [at |-> "idle", todo |-> <<>>, all |-> <<>>, found |-> <<>>]
Under(operation, list) == [at |-> operation, todo |-> list, all |-> list, found |-> <<>>]

Init ==
  /\ kind \in Kinds
  /\ store = EmptyStore
  /\ buffered = FALSE
  /\ holder = NOBODY
  /\ call = [c \in Callers |-> Idle]
  /\ before = EmptyStore
  /\ unsettled = [c \in Callers |-> {}]
  /\ touched = [c \in Callers |-> {}]
  /\ last = [name |-> "new", arg |-> NONE, answer |-> DONE]

At(c, place) == call[c].at = place
Free == holder = NOBODY
Ends(name, arg, answer) == last' = [name |-> name, arg |-> arg, answer |-> answer]
Returns(c) == call' = [call EXCEPT ![c] = Idle]

IsMap == kind \in {"map", "io"}

(***************************************************************************)
(* Operations of one borrow, or of none when the key is refused first.     *)
(***************************************************************************)
Get(c, k) ==
  /\ At(c, "idle")
  /\ IF Representable(kind, k)
     THEN Free /\ Ends("get", k, store[k])
     ELSE Ends("get", k, IF kind = "io" THEN FAILED ELSE NONE)
  /\ UNCHANGED <<kind, store, buffered, holder, call, before, unsettled>>

(* values, and list of CoordMapStoreIo. *)
ReadAll(c) ==
  /\ At(c, "idle")
  /\ Free
  /\ Ends("values", NONE, store)
  /\ UNCHANGED <<kind, store, buffered, holder, call, before, unsettled>>

Contains(c, k) ==
  /\ At(c, "idle")
  /\ kind # "io"
  /\ \/ Free /\ Representable(kind, k) /\ Ends("contains", k, store[k] # NONE)
     \/ ~ Representable(kind, k) /\ Ends("contains", k, FALSE)
  /\ UNCHANGED <<kind, store, buffered, holder, call, before, unsettled>>

Count(c) ==
  /\ At(c, "idle")
  /\ kind # "io"
  /\ Free
  /\ Ends("len", NONE, Cardinality(KeysIn(store)))
  /\ UNCHANGED <<kind, store, buffered, holder, call, before, unsettled>>

(* axis_filtered of CoordEntityStore: checks of axes 0, 1, .. in this order *)
(* are a prefix and take the subtree under it, any other a scan.            *)
IsPrefix(checks) ==
  /\ checks # <<>>
  /\ \A i \in 1 .. Len(checks) : checks[i].axis = i - 1

Subtree(checks) ==
  IF \E i \in 1 .. Len(checks) : checks[i].value >= COORDS THEN {}
  ELSE { k \in KeysIn(store) :
           /\ Len(checks) <= Len(PathOf[k])
           /\ SubSeq(PathOf[k], 1, Len(checks))
                = [i \in 1 .. Len(checks) |-> checks[i].value] }

Scan(checks) ==
  { k \in KeysIn(store) :
      ~ \E i \in 1 .. Len(checks) :
          \/ checks[i].axis >= Len(PathOf[k])
          \/ PathOf[k][checks[i].axis + 1] # checks[i].value }

AxisFiltered(c, checks) ==
  /\ At(c, "idle")
  /\ kind = "coord"
  /\ Free
  /\ Ends("filter", checks, IF IsPrefix(checks) THEN Subtree(checks) ELSE Scan(checks))
  /\ UNCHANGED <<kind, store, buffered, holder, call, before, unsettled>>

(***************************************************************************)
(* proximity of MapEntityStore: get_path in a borrow of its own for every  *)
(* path, which nothing keeps together; call.found gathers the results.     *)
(***************************************************************************)
Proximity(c, cube) ==
  /\ At(c, "idle")
  /\ kind = "map"
  /\ call' = [call EXCEPT ![c] = Under("proximity", cube)]
  /\ UNCHANGED <<kind, store, buffered, holder, before, unsettled, last>>

(* Mutant: the first path without an entry ends the query. *)
ProximityNextStops(c) ==
  LET k == Head(call[c].todo) IN
  /\ At(c, "proximity")
  /\ call[c].todo # <<>>
  /\ Free
  /\ call' = [call EXCEPT ![c].todo = IF store[k] = NONE THEN <<>> ELSE Tail(@),
                          ![c].found = IF store[k] = NONE THEN @
                                       ELSE Append(@, [key |-> k, value |-> store[k]])]
  /\ UNCHANGED <<kind, store, buffered, holder, before, unsettled, last>>

ProximityNext(c) ==
  LET k == Head(call[c].todo) IN
  /\ At(c, "proximity")
  /\ call[c].todo # <<>>
  /\ Free
  /\ call' = [call EXCEPT ![c].todo = Tail(@),
                          ![c].found = IF store[k] = NONE THEN @
                                       ELSE Append(@, [key |-> k, value |-> store[k]])]
  /\ UNCHANGED <<kind, store, buffered, holder, before, unsettled, last>>

ProximityEnds(c) ==
  /\ At(c, "proximity")
  /\ call[c].todo = <<>>
  /\ Returns(c)
  /\ UNCHANGED <<kind, store, buffered, holder, before, unsettled, last>>

Insert(c, e) ==
  /\ At(c, "idle")
  /\ Free
  /\ Accepted(kind, e)
  /\ store' = With(store, e)
  /\ buffered' = IsMap
  /\ Ends("insert", e, IF kind = "io" THEN DONE ELSE store[e.key])
  /\ UNCHANGED <<kind, holder, call, before, unsettled>>

InsertRefused(c, e) ==
  /\ At(c, "idle")
  /\ Free \/ ~ Representable(kind, e.key)
  /\ ~ Accepted(kind, e)
  /\ Ends("insert", e, FAILED)
  /\ UNCHANGED <<kind, store, buffered, holder, call, before, unsettled>>

Remove(c, k) ==
  /\ At(c, "idle")
  /\ Free
  /\ Representable(kind, k)
  /\ store' = [store EXCEPT ![k] = NONE]
  /\ buffered' = (buffered \/ (IsMap /\ store[k] # NONE))
  /\ Ends("remove", k, IF kind = "io" THEN DONE ELSE store[k])
  /\ UNCHANGED <<kind, holder, call, before, unsettled>>

RemoveRefused(c, k) ==
  /\ At(c, "idle")
  /\ ~ Representable(kind, k)
  /\ Ends("remove", k, IF kind = "io" THEN FAILED ELSE NONE)
  /\ UNCHANGED <<kind, store, buffered, holder, call, before, unsettled>>

Clear(c) ==
  /\ At(c, "idle")
  /\ Free
  /\ kind # "io"
  /\ store' = EmptyStore
  /\ buffered' = FALSE
  /\ Ends("clear", NONE, DONE)
  /\ UNCHANGED <<kind, holder, call, before, unsettled>>

Settle ==
  /\ buffered' = FALSE
  /\ unsettled' = [c \in Callers |-> {}]

(* flush of MapEntityStore and of CoordMapStoreIo, when it succeeds. *)
Flush(c) ==
  /\ At(c, "idle")
  /\ Free
  /\ IsMap
  /\ Settle
  /\ UNCHANGED <<kind, store, holder, call, before, last>>

(***************************************************************************)
(* replace_from: clear and put under one borrow.                           *)
(***************************************************************************)
Begin(c, entries) ==
  /\ holder' = c
  /\ before' = store
  /\ store' = EmptyStore
  /\ buffered' = FALSE
  /\ call' = [call EXCEPT ![c] = Under("replace", entries)]
  /\ UNCHANGED <<kind, unsettled, last>>

AllRepresentable(entries) ==
  \A i \in 1 .. Len(entries) : Representable(kind, entries[i].key)

(* Mutant: MapEntityStore maps its keys under the borrow, as they come. *)
ReplaceMapsLate(c, entries) ==
  /\ At(c, "idle")
  /\ Free
  /\ kind # "io"
  /\ Begin(c, entries)

Replace(c, entries) ==
  /\ At(c, "idle")
  /\ Free
  /\ kind # "io"
  /\ kind = "map" => AllRepresentable(entries)
  /\ Begin(c, entries)

(* MapEntityStore panics on a key before it borrows. *)
ReplaceRefused(c, entries) ==
  /\ At(c, "idle")
  /\ kind = "map"
  /\ ~ AllRepresentable(entries)
  /\ Ends("replace", entries, FAILED)
  /\ UNCHANGED <<kind, store, buffered, holder, call, before, unsettled>>

ReplaceNext(c) ==
  /\ At(c, "replace")
  /\ call[c].todo # <<>>
  /\ Accepted(kind, Head(call[c].todo))
  /\ store' = With(store, Head(call[c].todo))
  /\ buffered' = IsMap
  /\ call' = [call EXCEPT ![c].todo = Tail(@)]
  /\ UNCHANGED <<kind, holder, before, unsettled, last>>

(* The end of the entries, or an entry that panics; the guard is dropped.   *)
ReplaceEnds(c) ==
  /\ At(c, "replace")
  /\ \/ call[c].todo = <<>> /\ Ends("replace", call[c].all, DONE)
     \/ /\ call[c].todo # <<>>
        /\ ~ Accepted(kind, Head(call[c].todo))
        /\ Ends("replace", call[c].all, FAILED)
  /\ holder' = NOBODY
  /\ before' = EmptyStore
  /\ Returns(c)
  /\ UNCHANGED <<kind, store, buffered, unsettled>>

(***************************************************************************)
(* apply_batch of CoordMapStoreIo, the only kind it is modelled for: no    *)
(* borrow of that kind spans steps, so the cell is free at each of them.   *)
(***************************************************************************)
Batch(c, ops) ==
  /\ At(c, "idle")
  /\ kind = "io"
  /\ call' = [call EXCEPT ![c] = Under("batch", ops)]
  /\ unsettled' = [unsettled EXCEPT ![c] = {}]
  /\ UNCHANGED <<kind, store, buffered, holder, before, last>>

BatchOp(c) == Head(call[c].todo)
Changes(op) == op.value # NONE \/ store[op.key] # NONE

(* Mutant: a delete in a batch does not mark the map. *)
BatchNextMarksWrites(c) ==
  LET op == BatchOp(c) IN
  /\ At(c, "batch")
  /\ call[c].todo # <<>>
  /\ Representable(kind, op.key)
  /\ op.value = NONE \/ Fits(kind, op.value)
  /\ store' = With(store, op)
  /\ buffered' = (buffered \/ op.value # NONE)
  /\ unsettled' = [unsettled EXCEPT ![c] = IF Changes(op) THEN @ \cup {op.key} ELSE @]
  /\ call' = [call EXCEPT ![c].todo = Tail(@)]
  /\ IF op.value = NONE THEN Ends("remove", op.key, DONE) ELSE Ends("insert", op, DONE)
  /\ UNCHANGED <<kind, holder, before>>

BatchNext(c) ==
  LET op == BatchOp(c) IN
  /\ At(c, "batch")
  /\ call[c].todo # <<>>
  /\ Representable(kind, op.key)
  /\ op.value = NONE \/ Fits(kind, op.value)
  /\ store' = With(store, op)
  /\ buffered' = (buffered \/ Changes(op))
  /\ unsettled' = [unsettled EXCEPT ![c] = IF Changes(op) THEN @ \cup {op.key} ELSE @]
  /\ call' = [call EXCEPT ![c].todo = Tail(@)]
  /\ IF op.value = NONE THEN Ends("remove", op.key, DONE) ELSE Ends("insert", op, DONE)
  /\ UNCHANGED <<kind, holder, before>>

BatchFails(c) ==
  LET op == BatchOp(c) IN
  /\ At(c, "batch")
  /\ call[c].todo # <<>>
  /\ \/ ~ Representable(kind, op.key)
     \/ op.value # NONE /\ ~ Fits(kind, op.value)
  /\ Ends("batch", NONE, FAILED)
  /\ Returns(c)
  /\ UNCHANGED <<kind, store, buffered, holder, before, unsettled>>

(* Mutant: the batch leaves the buffer to the caller, as write does. *)
BatchCheckSkips(c) ==
  /\ At(c, "batch")
  /\ call[c].todo = <<>>
  /\ Returns(c)
  /\ Ends("batch", NONE, DONE)
  /\ UNCHANGED <<kind, store, buffered, holder, before, unsettled>>

(* is_buffered, in a borrow of its own. *)
BatchCheck(c) ==
  /\ At(c, "batch")
  /\ call[c].todo = <<>>
  /\ \/ buffered /\ call' = [call EXCEPT ![c].at = "batch_flush"] /\ UNCHANGED last
     \/ ~ buffered /\ Returns(c) /\ Ends("batch", NONE, DONE)
  /\ UNCHANGED <<kind, store, buffered, holder, before, unsettled>>

BatchFlush(c) ==
  /\ At(c, "batch_flush")
  /\ \/ Settle /\ Ends("batch", NONE, DONE)
     \/ Ends("batch", NONE, FAILED) /\ UNCHANGED <<buffered, unsettled>>
  /\ Returns(c)
  /\ UNCHANGED <<kind, store, holder, before>>

Step(c) ==
    \/ \E k \in AllKeys :
         Get(c, k) \/ Contains(c, k) \/ Remove(c, k) \/ RemoveRefused(c, k)
    \/ \E e \in Entry : Insert(c, e) \/ InsertRefused(c, e)
    \/ ReadAll(c)
    \/ Count(c)
    \/ \E checks \in AxisChecks : AxisFiltered(c, checks)
    \/ \E cube \in Cubes : Proximity(c, cube)
    \/ ProximityNext(c)
    \/ ProximityEnds(c)
    \/ Clear(c)
    \/ Flush(c)
    \/ \E entries \in Lists : Replace(c, entries) \/ ReplaceRefused(c, entries)
    \/ ReplaceNext(c)
    \/ ReplaceEnds(c)
    \/ \E ops \in Batches : Batch(c, ops)
    \/ BatchNext(c)
    \/ BatchFails(c)
    \/ BatchCheck(c)
    \/ BatchFlush(c)

Touch ==
  touched' = [c \in Callers |->
                IF call[c].at = "proximity" /\ call'[c].at = "proximity"
                THEN touched[c] \cup { k \in AllKeys : store'[k] # store[k] } ELSE {}]

Next == (\E c \in Callers : Step(c)) /\ Touch

Spec == Init /\ [][Next]_vars

(***************************************************************************)
(* Properties.                                                             *)
(***************************************************************************)
(* What the other callers can have seen of the entries.                     *)
Visible == IF Free THEN store ELSE before

Abstract == INSTANCE EntityStoreSpec WITH store <- Visible

(* Every operation takes effect at once for all callers: no get, values or  *)
(* answer shows a replace_from half done, one that ends well leaves exactly *)
(* its entries, and one that fails on a key leaves a MapEntityStore alone.  *)
ImplementsEntityStore == Abstract!Spec

(* A CoordMapStoreIo that is not buffered has no change of any batch left   *)
(* to flush, whoever flushed last.                                          *)
UnbufferedIsSettled ==
  ~ buffered => \A c \in Callers : unsettled[c] = {}

(* "When the call returns the operations are applied and, for a channel     *)
(* that buffers, on the medium" (FileIo::apply_batch): a batch that answers *)
(* Ok left nothing unflushed, whichever caller's flush that was.            *)
BatchSettles ==
  [][\A c \in Callers :
       /\ call[c].at \in {"batch", "batch_flush"}
       /\ call'[c].at = "idle"
       /\ last'.answer = DONE
       => unsettled'[c] = {}]_vars

(* A proximity query that others write beside is no snapshot, but when it   *)
(* ends it is right about every key of the cube that nobody changed since   *)
(* it began: the key is in the result, with its value, exactly when it is   *)
(* in the store.                                                            *)
Found(c) == { call[c].found[i] : i \in 1 .. Len(call[c].found) }

ProximityRightOfUntouched ==
  \A c \in Callers :
    At(c, "proximity") /\ call[c].todo = <<>> =>
      \A i \in 1 .. Len(call[c].all) :
        LET k == call[c].all[i] IN
        k \notin touched[c] =>
          { e.value : e \in { f \in Found(c) : f.key = k } } = {store[k]} \ {NONE}
=============================================================================
