--------------------------- MODULE CoordMapStore ---------------------------
(***************************************************************************)
(* CoordMapStore<N> over TreeStrategy<N> (chton/src/map/mod.rs and         *)
(* chton/src/binding/mod.rs).  Every write to the origin is a step of its  *)
(* own: an operation may fail at any of them, leaving what it did before   *)
(* in place, and the process may stop between any two.  What the code does *)
(* between two writes (reads, checks, assignments) belongs to the step of  *)
(* the write that follows, or to the last step of the operation.           *)
(***************************************************************************)
EXTENDS TreeStrategy

CONSTANTS
  Paths,        (* the keys used, some of Path                             *)
  Payloads,     (* the values callers pass: sequences of words             *)
  NONE,         (* None: the key is absent                                 *)
  FAILED,       (* any MapError but ValueTooLarge                          *)
  TOO_LARGE,    (* MapError::ValueTooLarge                                 *)
  FaultyOps,    (* the operations whose origin writes may fail             *)
  MAX_FAULTS,   (* how many of them fail in one behaviour                  *)
  ReopenWhen    (* "clean": not is_buffered(); "flushed": the header is up *)
                (* to date; "crash": at any moment                         *)

ASSUME StoreAssumption ==
  /\ Paths \subseteq Path
  /\ Payloads \subseteq Seq(0 .. MAX_OFFSET)
  /\ MAX_FAULTS \in Nat
  /\ ReopenWhen \in {"clean", "flushed", "crash"}
  /\ {NONE, FAILED, TOO_LARGE} \cap Seq(Nat) = {} /\ NONE # FAILED

VARIABLES
  strategy,  (* TreeStrategy: bump, free_head, record_count                *)
  origin,    (* Box<dyn Origin>: what has been written                     *)
  len,       (* CoordMapStore.len                                          *)
  dirty,     (* CoordMapStore.dirty                                        *)
  op,        (* the operation under way: where it is and its locals        *)
  result,    (* what the last operation that answers answered              *)
  synced,    (* every write so far was followed by an Origin::flush        *)
  faults,    (* writes that failed so far                                  *)
  wounds,    (* what failures left: "header" until it is next written,     *)
             (* "spans" (a remove or a clear) until a clear succeeds       *)
  unmarked,  (* the slots whose bit was not written when last it should be *)
  torn       (* the keys of which, since the last clear, a put was cut off *)
             (* between its leaf and its last write                        *)

vars == <<strategy, origin, len, dirty, op, result, synced, faults, wounds,
          unmarked, torn>>

MaxValueLen == RECORD_SLOT_SIZE - 1
Values      == { v \in Payloads : Len(v) <= MaxValueLen }
NoSlot      == [node |-> 0, index |-> 0]
Idle        == [at |-> "idle", name |-> "none", path |-> <<>>, value |-> <<>>,
                slot |-> NoSlot, target |-> ABSENT, prev |-> NONE]

Init ==
  /\ strategy = NewStrategy
  /\ origin = EmptyOrigin
  /\ len = 0
  /\ dirty = FALSE
  /\ op = Idle
  /\ result = NONE
  /\ synced = TRUE
  /\ faults = 0
  /\ wounds = {}
  /\ unmarked = {}
  /\ torn = {}

(***************************************************************************)
(* Reading.                                                                *)
(***************************************************************************)
ReadRecord(o, offset) ==
  LET size == o.word[offset] IN
  IF \/ offset >= o.len
     \/ size > MaxValueLen
     \/ offset + 1 + size > o.len
  THEN FAILED
  ELSE [i \in 1 .. size |-> o.word[offset + i]]

Lookup(o, path) ==
  LET offset == Locate(o, path).record_offset IN
  IF CorruptPath(o, path) THEN FAILED
  ELSE IF offset = ABSENT THEN NONE
  ELSE ReadRecord(o, offset)

(* iter: the record of every path the walk lists, or the first error.  *)
Entries(o) ==
  LET value(p) == ReadRecord(o, Locate(o, p).record_offset) IN
  IF IterIsCorrupt(o) \/ \E p \in IterPaths(o) : value(p) = FAILED
  THEN FAILED
  ELSE [p \in IterPaths(o) |-> value(p)]

(***************************************************************************)
(* Steps.  A step that writes either writes and goes on, or fails, ends    *)
(* the operation with the error and keeps the strategy it had come to.     *)
(***************************************************************************)
At(place) == op.at = place
BitPlaces == {"link_bit", "leaf_bit", "unleaf_bit"}

(* An operation ends before its next write: what that leaves undone.        *)
Cut ==
  /\ unmarked' = unmarked \cup (IF op.at \in BitPlaces THEN {op.slot} ELSE {})
  /\ torn' = torn \cup (IF op.at \in {"leaf_bit", "length", "payload"}
                        THEN {op.path} ELSE {})

Abort(name, s) ==
  /\ Cut
  /\ strategy' = s
  /\ op' = Idle
  /\ result' = FAILED
  /\ wounds' = wounds \cup CASE name = "put"               -> {"header"}
                             [] name \in {"remove", "clear"} -> {"header", "spans"}
                             [] name = "flush"             -> {}
  /\ UNCHANGED <<origin, len, dirty, synced>>

Fails(name, s) ==
  /\ name \in FaultyOps
  /\ faults < MAX_FAULTS
  /\ faults' = faults + 1
  /\ Abort(name, s)

(* A read, or a first write, fails before anything has changed.  *)
FailsUnchanged(name) ==
  /\ name \in FaultyOps
  /\ faults < MAX_FAULTS
  /\ faults' = faults + 1
  /\ result' = FAILED
  /\ UNCHANGED <<strategy, origin, len, dirty, op, synced, wounds, unmarked, torn>>

Writes(o) ==
  /\ origin' = o
  /\ synced' = FALSE
  /\ unmarked' = unmarked \ (IF op.at \in BitPlaces THEN {op.slot} ELSE {})
  /\ UNCHANGED <<faults, wounds, torn>>

(***************************************************************************)
(* put_path                                                                *)
(***************************************************************************)
PutTooLarge(value) ==
  /\ At("idle")
  /\ Len(value) > MaxValueLen
  /\ result' = TOO_LARGE
  /\ UNCHANGED <<strategy, origin, len, dirty, op, synced, faults, wounds, unmarked, torn>>

(* Mutant: the value is not held against the record slot. *)
PutUnbounded(path, value) ==
  /\ At("idle")
  /\ op' = [Idle EXCEPT !.at = "locate", !.name = "put",
                        !.path = path, !.value = value]
  /\ UNCHANGED <<strategy, origin, len, dirty, result, synced, faults, wounds, unmarked, torn>>

Put(path, value) ==
  /\ At("idle")
  /\ Len(value) <= MaxValueLen
  /\ op' = [Idle EXCEPT !.at = "locate", !.name = "put",
                        !.path = path, !.value = value]
  /\ UNCHANGED <<strategy, origin, len, dirty, result, synced, faults, wounds, unmarked, torn>>

Found == Locate(origin, op.path)
Go(place) == op' = [op EXCEPT !.at = place]

(* locate_or_create, alloc_node: bump moves before the span is zeroed. *)
PutAllocNode ==
  /\ At("locate")
  /\ ~ CorruptPath(origin, op.path)
  /\ ~ Found.at_leaf
  /\ strategy.bump + NODE_SIZE <= MAX_OFFSET
  /\ LET moved == [strategy EXCEPT !.bump = @ + NODE_SIZE] IN
     \/ /\ strategy' = moved
        /\ Writes(ZeroNode(origin, strategy.bump))
        /\ op' = [op EXCEPT !.at = "link",
                            !.slot = [node |-> Found.node, index |-> Found.index],
                            !.target = strategy.bump]
        /\ UNCHANGED <<len, dirty, result>>
     \/ Fails("put", moved)

PutLinkNode ==
  /\ At("link")
  /\ \/ /\ Writes(WriteSlotWord(origin, op.slot, op.target))
        /\ Go("link_bit")
        /\ UNCHANGED <<strategy, len, dirty, result>>
     \/ Fails("put", strategy)

(* Mutant: a failure gives the node back to the bump area. *)
PutLinkNodeBitRollsBack ==
  /\ At("link_bit")
  /\ \/ /\ Writes(WriteSlotBit(origin, op.slot, op.target))
        /\ op' = [op EXCEPT !.at = "locate", !.slot = NoSlot, !.target = ABSENT]
        /\ UNCHANGED <<strategy, len, dirty, result>>
     \/ Fails("put", [strategy EXCEPT !.bump = op.target])

PutLinkNodeBit ==
  /\ At("link_bit")
  /\ \/ /\ Writes(WriteSlotBit(origin, op.slot, op.target))
        /\ op' = [op EXCEPT !.at = "locate", !.slot = NoSlot, !.target = ABSENT]
        /\ UNCHANGED <<strategy, len, dirty, result>>
     \/ Fails("put", strategy)

PutAllocRecord ==
  /\ At("locate")
  /\ ~ CorruptPath(origin, op.path)
  /\ Found.at_leaf
  /\ Found.record_offset = ABSENT
  /\ ~ AllocFails(origin, strategy)
  /\ strategy' = AfterAllocRecord(origin, strategy)
  /\ op' = [op EXCEPT !.at = "leaf",
                      !.slot = [node |-> Found.node, index |-> Found.index],
                      !.target = AllocatedRecord(strategy)]
  /\ UNCHANGED <<origin, len, dirty, result, synced, faults, wounds, unmarked, torn>>

PutLeaf ==
  /\ At("leaf")
  /\ \/ /\ Writes(WriteSlotWord(origin, op.slot, op.target))
        /\ Go("leaf_bit")
        /\ UNCHANGED <<strategy, len, dirty, result>>
     \/ Fails("put", strategy)

PutLeafBit ==
  /\ At("leaf_bit")
  /\ \/ /\ Writes(WriteSlotBit(origin, op.slot, op.target))
        /\ len' = len + 1
        /\ Go("length")
        /\ UNCHANGED <<strategy, dirty, result>>
     \/ Fails("put", strategy)

(* Mutant: the payload is left alone when the length is the same. *)
WriteLengthIfChanged(record, prev) ==
  /\ Writes(WriteWords(origin, record, <<Len(op.value)>>))
  /\ IF op.value = <<>> \/ origin.word[record] = Len(op.value)
     THEN dirty' = TRUE /\ result' = prev /\ op' = Idle
     ELSE /\ op' = [op EXCEPT !.at = "payload", !.slot = NoSlot,
                              !.target = record, !.prev = prev]
          /\ UNCHANGED <<dirty, result>>
  /\ UNCHANGED <<strategy, len>>

(* The length goes first; an empty value is complete with it. *)
WriteLength(record, prev) ==
  /\ Writes(WriteWords(origin, record, <<Len(op.value)>>))
  /\ IF op.value = <<>>
     THEN dirty' = TRUE /\ result' = prev /\ op' = Idle
     ELSE /\ op' = [op EXCEPT !.at = "payload", !.slot = NoSlot,
                              !.target = record, !.prev = prev]
          /\ UNCHANGED <<dirty, result>>
  /\ UNCHANGED <<strategy, len>>

PutLength ==
  /\ At("length")
  /\ WriteLength(op.target, NONE) \/ Fails("put", strategy)

(* Mutant: an overwrite is counted as an entry. *)
PutOverwriteCounted ==
  /\ At("locate")
  /\ ~ CorruptPath(origin, op.path)
  /\ Found.record_offset # ABSENT
  /\ ReadRecord(origin, Found.record_offset) # FAILED
  /\ Writes(WriteWords(origin, Found.record_offset, <<Len(op.value)>>))
  /\ len' = len + 1
  /\ op' = [op EXCEPT !.at = "payload", !.target = Found.record_offset]
  /\ UNCHANGED <<strategy, dirty, result>>

PutOverwrite ==
  /\ At("locate")
  /\ ~ CorruptPath(origin, op.path)
  /\ Found.record_offset # ABSENT
  /\ LET prev == ReadRecord(origin, Found.record_offset) IN
     /\ prev # FAILED
     /\ WriteLength(Found.record_offset, prev) \/ Fails("put", strategy)

PutPayload ==
  /\ At("payload")
  /\ \/ /\ Writes(WriteWords(origin, op.target + 1, op.value))
        /\ dirty' = TRUE
        /\ result' = op.prev
        /\ op' = Idle
        /\ UNCHANGED <<strategy, len>>
     \/ Fails("put", strategy)

(* A read fails, of the way to the leaf, of the record or of its free link. *)
PutUnread == At("locate") /\ Fails("put", strategy)

(* locate_or_create, read_record or alloc_record report corruption, or the *)
(* offsets have run out.                                                   *)
PutRefused ==
  /\ At("locate")
  /\ \/ CorruptPath(origin, op.path)
     \/ /\ Found.record_offset # ABSENT
        /\ ReadRecord(origin, Found.record_offset) = FAILED
     \/ /\ Found.at_leaf
        /\ Found.record_offset = ABSENT
        /\ AllocFails(origin, strategy)
     \/ /\ ~ Found.at_leaf
        /\ strategy.bump + NODE_SIZE > MAX_OFFSET
  /\ Abort("put", strategy)
  /\ UNCHANGED faults

(***************************************************************************)
(* remove_path: the record joins the free list before its slot is cleared. *)
(***************************************************************************)
RemoveNothing(path) ==
  /\ At("idle")
  /\ Lookup(origin, path) \in {NONE, FAILED}
  /\ result' = Lookup(origin, path)
  /\ UNCHANGED <<strategy, origin, len, dirty, op, synced, faults, wounds, unmarked, torn>>

(* Mutant: free_head moves before the link is written. *)
RemoveAfterHead(path) ==
  /\ At("idle")
  /\ Lookup(origin, path) \notin {NONE, FAILED}
  /\ LET slot == Locate(origin, path) IN
     /\ Writes(WriteWords(origin, slot.record_offset, <<slot.record_offset>>))
     /\ strategy' = [strategy EXCEPT !.free_head = slot.record_offset]
     /\ op' = [Idle EXCEPT !.at = "unleaf", !.name = "remove", !.path = path,
                 !.slot = [node |-> slot.node, index |-> slot.index],
                 !.target = slot.record_offset,
                 !.prev = Lookup(origin, path)]
     /\ UNCHANGED <<len, dirty, result>>

Remove(path) ==
  /\ At("idle")
  /\ Lookup(origin, path) \notin {NONE, FAILED}
  /\ LET slot == Locate(origin, path) IN
     /\ Writes(WriteWords(origin, slot.record_offset, <<strategy.free_head>>))
     /\ strategy' = [strategy EXCEPT !.free_head = slot.record_offset]
     /\ op' = [Idle EXCEPT !.at = "unleaf", !.name = "remove", !.path = path,
                 !.slot = [node |-> slot.node, index |-> slot.index],
                 !.target = slot.record_offset,
                 !.prev = Lookup(origin, path)]
     /\ UNCHANGED <<len, dirty, result>>

(* A read of the way or of the record fails, or the write of the link. *)
RemoveFails == At("idle") /\ FailsUnchanged("remove")

(* Mutant: the node is dropped as if the entry were its last. *)
RemoveLeafDropsNode ==
  /\ At("unleaf")
  /\ Writes(ZeroNode(origin, op.slot.node))
  /\ Go("unleaf_bit")
  /\ UNCHANGED <<strategy, len, dirty, result>>

RemoveLeaf ==
  /\ At("unleaf")
  /\ \/ /\ Writes(WriteSlotWord(origin, op.slot, ABSENT))
        /\ Go("unleaf_bit")
        /\ UNCHANGED <<strategy, len, dirty, result>>
     \/ Fails("remove", strategy)

(* Mutant: a remove does not mark the header. *)
RemoveLeafBitClean ==
  /\ At("unleaf_bit")
  /\ Writes(WriteSlotBit(origin, op.slot, ABSENT))
  /\ len' = IF len = 0 THEN 0 ELSE len - 1
  /\ result' = op.prev
  /\ op' = Idle
  /\ UNCHANGED <<strategy, dirty>>

RemoveLeafBit ==
  /\ At("unleaf_bit")
  /\ \/ /\ Writes(WriteSlotBit(origin, op.slot, ABSENT))
        /\ len' = IF len = 0 THEN 0 ELSE len - 1
        /\ dirty' = TRUE
        /\ result' = op.prev
        /\ op' = Idle
        /\ UNCHANGED strategy
     \/ Fails("remove", strategy)

(***************************************************************************)
(* clear_checked: reset forgets the allocations, then zeroes the root.     *)
(***************************************************************************)
Clear ==
  /\ At("idle")
  /\ \/ /\ strategy' = NewStrategy
        /\ Writes(ZeroNode(origin, ROOT_OFFSET))
        /\ op' = [Idle EXCEPT !.at = "clear_header", !.name = "clear"]
        /\ UNCHANGED <<len, dirty, result>>
     \/ Fails("clear", NewStrategy)

ClearHeader ==
  /\ At("clear_header")
  /\ \/ /\ origin' = WriteHeader(origin, strategy)
        /\ len' = 0
        /\ dirty' = FALSE
        /\ op' = Idle
        /\ synced' = FALSE
        /\ wounds' = {}
        /\ unmarked' = {}
        /\ torn' = {}
        /\ UNCHANGED <<strategy, result, faults>>
     \/ Fails("clear", strategy)

(***************************************************************************)
(* flush: the header, then the origin's own flush.                         *)
(***************************************************************************)
Flush ==
  /\ At("idle")
  /\ LET counted == [strategy EXCEPT !.record_count = len] IN
     \/ /\ strategy' = counted
        /\ Writes(WriteHeader(origin, counted))
        /\ op' = [Idle EXCEPT !.at = "sync", !.name = "flush"]
        /\ UNCHANGED <<len, dirty, result>>
     \/ Fails("flush", counted)

FlushOrigin ==
  /\ At("sync")
  /\ \/ /\ dirty' = FALSE
        /\ synced' = TRUE
        /\ op' = Idle
        /\ wounds' = wounds \ {"header"}
        /\ UNCHANGED <<strategy, origin, len, result, faults, unmarked, torn>>
     \/ Fails("flush", strategy)

(***************************************************************************)
(* load: the store is dropped, or its process ends, and is opened again.   *)
(***************************************************************************)
HeaderIsCurrent ==
  LoadOrNew(origin) = [strategy EXCEPT !.record_count = len]

Reopen ==
  /\ CASE ReopenWhen = "clean"   -> At("idle") /\ ~ dirty
       [] ReopenWhen = "flushed" -> At("idle") /\ HeaderIsCurrent
       [] ReopenWhen = "crash"   -> TRUE
  /\ ~ LoadIsCorrupt(origin)
  /\ strategy' = LoadOrNew(origin)
  /\ len' = LoadOrNew(origin).record_count
  /\ dirty' = FALSE
  /\ op' = Idle
  /\ wounds' = wounds \ {"header"}
  /\ Cut
  /\ UNCHANGED <<origin, result, synced, faults>>

Next ==
  \/ \E p \in Paths : RemoveNothing(p) \/ Remove(p)
  \/ \E p \in Paths, v \in Payloads : Put(p, v)
  \/ \E v \in Payloads : PutTooLarge(v)
  \/ PutAllocNode \/ PutLinkNode \/ PutLinkNodeBit
  \/ PutAllocRecord \/ PutLeaf \/ PutLeafBit \/ PutLength
  \/ PutOverwrite \/ PutPayload \/ PutUnread \/ PutRefused
  \/ RemoveLeaf \/ RemoveLeafBit \/ RemoveFails
  \/ Clear \/ ClearHeader
  \/ Flush \/ FlushOrigin
  \/ Reopen

Spec == Init /\ [][Next]_vars

(***************************************************************************)
(* Properties.                                                             *)
(***************************************************************************)
(* Once a remove or a clear has failed only a clear is followed further. *)
ThenCleared == "spans" \in wounds => op.name \in {"none", "clear"}

(* The type invariant.  After a failed put a record may read as words that   *)
(* no caller stored, those of a node that was there before a clear too.     *)
Readable(value) == value \in Seq(Nat) /\ Len(value) <= MaxValueLen

TypeOK ==
  /\ strategy \in [bump : Nat, free_head : Nat, record_count : Nat]
  /\ origin.header \in [bump : Nat, free_head : Nat, record_count : Nat]
  /\ origin.word \in [0 .. MAX_OFFSET -> Nat]
  /\ origin.len \in 0 .. MAX_OFFSET
  /\ len \in Nat
  /\ dirty \in BOOLEAN /\ synced \in BOOLEAN
  /\ op.path \in Paths \cup {<<>>}
  /\ op.prev = NONE \/ Readable(op.prev)
  /\ op.target \in Nat
  /\ result \in {NONE, FAILED, TOO_LARGE} \/ Readable(result)
  /\ faults \in 0 .. MAX_FAULTS
  /\ wounds \subseteq {"header", "spans"}
  /\ unmarked \subseteq [node : Nat, index : Nat]
  /\ torn \subseteq Paths

(* The nodes the root reaches, the records the leaves reference and the     *)
(* records chained from free_head, as the origin holds them.                *)
ReachableNodes ==
  (UNION { { NodesTo(origin, p)[d] : d \in 1 .. DEPTH } : p \in Path }) \ {ABSENT}

RecordOf(p) == Locate(origin, p).record_offset
StoredPaths == { p \in Path : RecordOf(p) # ABSENT }

(* The first n links of the free list, ABSENT where it has ended. *)
FreeLinks(n) ==
  LET link[i \in 1 .. n] ==
        IF i = 1 THEN strategy.free_head
        ELSE IF link[i - 1] = ABSENT THEN ABSENT ELSE origin.word[link[i - 1]]
  IN  link

Spans ==
  LET n     == strategy.bump \div RECORD_SLOT_SIZE + 1
      links == FreeLinks(n)
  IN  { <<"node", m, m, NODE_SIZE>> : m \in ReachableNodes }
      \cup { <<"record", p, RecordOf(p), RECORD_SLOT_SIZE>> : p \in StoredPaths }
      \cup { <<"free", i, links[i], RECORD_SLOT_SIZE>> :
               i \in { j \in 1 .. n : links[j] # ABSENT } }

Intact == At("idle") /\ "spans" \notin wounds

AllApart(spans) ==
  \A s, t \in spans :
    <<s[1], s[2]>> = <<t[1], t[2]>> \/ Apart(s[3], s[4], t[3], t[4])

(* Nodes, records and free records never share a word and all lie below     *)
(* bump; no two keys share a record; the free list ends.  It bounds its     *)
(* own walk by the records that fit below bump.  No failed put breaks this; *)
(* a failed remove or clear does, until a clear succeeds.                   *)
SpansDisjoint ==
  Intact =>
    LET spans == Spans IN
    /\ AllApart(spans)
    /\ \A s \in spans : ROOT_OFFSET <= s[3] /\ s[3] + s[4] <= strategy.bump

(* "All allocations append after it, so nodes and records can never         *)
(* overlap" (the doc of TreeStrategy::new), with or without a flush before  *)
(* the process ends.                                                        *)
NodesAndRecordsApart == At("idle") => AllApart(Spans)

(* iter, which follows the bitmaps and reads every record it lists, answers *)
(* what get, which follows the slots, answers key by key: with all entries  *)
(* but those behind a slot whose bitmap write failed, and with an error     *)
(* when one of them cannot be read.  That takes a put of that very key that *)
(* was cut off: no other failure can make the store impossible to list.     *)
Hidden(p) ==
  \E d \in 1 .. DEPTH : [node |-> NodesTo(origin, p)[d], index |-> p[d]] \in unmarked

IterAgreesWithGet ==
  Intact =>
    LET listed == { p \in StoredPaths : ~ Hidden(p) }
        broken == { p \in StoredPaths : Lookup(origin, p) = FAILED }
    IN  /\ Entries(origin) = IF listed \cap broken # {} THEN FAILED
                             ELSE [p \in listed |-> Lookup(origin, p)]
        /\ broken \subseteq torn

(* "True when the strategy header is not yet written to the origin" (the    *)
(* field's doc): a store that is not dirty reopens with the same strategy   *)
(* and the same len, unless an operation failed since the header was last   *)
(* written: a failed put or remove changes the strategy and not dirty.      *)
DirtyTracksHeader ==
  At("idle") /\ ~ dirty /\ "header" \notin wounds => HeaderIsCurrent

(* "Whether the store holds buffered state that is not yet durable": a store *)
(* that says no has nothing written since the origin was last flushed.      *)
BufferedUntilDurable == At("idle") /\ ~ dirty => synced

(* load never takes a header this code wrote for a corrupt one.             *)
LoadNeverRefused == "spans" \notin wounds => ~ LoadIsCorrupt(origin)

(* No write of a put or a remove, completed or failing, changes what any    *)
(* other key reads as, unless that key is broken already: what earlier      *)
(* failures left behind is never handed out as part of another's record.    *)
OtherKeysUntouched ==
  [][{op.name, op'.name} \cap {"put", "remove"} # {} /\ "spans" \notin wounds =>
       \A q \in Paths \ {op.path, op'.path} :
         Lookup(origin, q) # FAILED => Lookup(origin', q) = Lookup(origin, q)]_origin

(* A put that answers without an error is read back, whatever puts failed   *)
(* before.                                                                  *)
PutTakesEffect ==
  [][op.name = "put" /\ op' = Idle /\ result' # FAILED /\ "spans" \notin wounds =>
       Lookup(origin', op.path) = op.value]_vars

(* len is the number of entries, also after a reopen that takes it from the *)
(* header instead of walking the tree; each failed write leaves it short by *)
(* one entry at most, never too large: is_empty trusts it, flush persists it. *)
LenWithinFaults ==
  Intact =>
    /\ len <= Cardinality(StoredPaths)
    /\ Cardinality(StoredPaths) <= len + faults
=============================================================================
