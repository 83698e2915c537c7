--------------------------- MODULE TreeAllocator ---------------------------
(***************************************************************************)
(* The allocation layer of TreeStrategy (chton/src/binding/mod.rs): nodes  *)
(* and records cut from one bump area, freed records recycled through a    *)
(* list that is threaded through the storage of the records themselves,    *)
(* and the header that a later load trusts.                                *)
(*                                                                         *)
(* Positions and sizes count 8-byte words: the first word of a record is   *)
(* its length prefix while the record is in use and the free list link     *)
(* while it is free.  The owner (the map layer) is the environment: it may *)
(* write anything into what it was given, which is why the links survive   *)
(* only if what it was given never overlaps what is free.                  *)
(***************************************************************************)
EXTENDS Naturals, Sequences

CONSTANTS
  ROOT_OFFSET,       (* first word after the header; offset 0 means absent *)
  NODE_SIZE,         (* words of a node: bitmap and slots                  *)
  RECORD_SLOT_SIZE,  (* words of a record: length prefix and payload       *)
  MAX_OFFSET,        (* u64::MAX: where checked_add gives up               *)
  Words              (* what the owner stores in its nodes and records     *)

ASSUME SizesAssumption ==
  /\ ROOT_OFFSET \in Nat \ {0}
  /\ NODE_SIZE \in Nat \ {0}
  /\ RECORD_SLOT_SIZE \in Nat \ {0}
  /\ MAX_OFFSET \in Nat
  /\ ROOT_OFFSET + NODE_SIZE <= MAX_OFFSET
  /\ Words \subseteq Nat

VARIABLES
  bump,        (* strategy: where the next allocation goes                 *)
  free_head,   (* strategy: first free record, ABSENT when there is none   *)
  word,        (* origin: the words it holds, 0 where nothing was written  *)
  origin_len,  (* origin: its length                                       *)
  header,      (* origin: the allocation fields of the last header written *)
  nodes,       (* the nodes handed to the owner                            *)
  records,     (* the records the owner has in use                         *)
  free         (* the records given back, in the order they were           *)

vars == <<bump, free_head, word, origin_len, header, nodes, records, free>>

ABSENT  == 0
Offsets == 0 .. MAX_OFFSET

(* A header of zero bytes fails the magic check: load keeps the fresh state. *)
NoHeader == [bump |-> 0, free_head |-> ABSENT]
(* Mutant: the root span is not reserved. *)
FreshOverRoot == [bump |-> ROOT_OFFSET, free_head |-> ABSENT]

Fresh    == [bump |-> ROOT_OFFSET + NODE_SIZE, free_head |-> ABSENT]
Current  == [bump |-> bump, free_head |-> free_head]
(* Mutant: load without the magic check. *)
LoadedUnchecked == header

Loaded   == IF header = NoHeader THEN Fresh ELSE header

Later(m, n) == IF m >= n THEN m ELSE n
Zeroed(o, size) ==
  [p \in Offsets |-> IF o <= p /\ p < o + size THEN 0 ELSE word[p]]

Init ==
  /\ bump = Fresh.bump
  /\ free_head = ABSENT
  /\ word = [o \in Offsets |-> 0]
  /\ origin_len = 0
  /\ header = NoHeader
  /\ nodes = {ROOT_OFFSET}
  /\ records = {}
  /\ free = <<>>

(***************************************************************************)
(* What the strategy does.                                                 *)
(***************************************************************************)
(* Mutant: bump + node_size without checked_add. *)
AllocNodeUnchecked ==
  /\ bump <= MAX_OFFSET
  /\ bump' = bump + NODE_SIZE
  /\ word' = Zeroed(bump, NODE_SIZE)
  /\ origin_len' = Later(origin_len, bump + NODE_SIZE)
  /\ nodes' = nodes \cup {bump}
  /\ UNCHANGED <<free_head, header, records, free>>

AllocNode ==
  /\ bump + NODE_SIZE <= MAX_OFFSET
  /\ bump' = bump + NODE_SIZE
  /\ word' = Zeroed(bump, NODE_SIZE)
  /\ origin_len' = Later(origin_len, bump + NODE_SIZE)
  /\ nodes' = nodes \cup {bump}
  /\ UNCHANGED <<free_head, header, records, free>>

(* The zeroing write failed: bump has moved already, the span is lost. *)
AllocNodeFails ==
  /\ bump + NODE_SIZE <= MAX_OFFSET
  /\ bump' = bump + NODE_SIZE
  /\ UNCHANGED <<free_head, word, origin_len, header, nodes, records, free>>

AllocRecordFromBump ==
  /\ free_head = ABSENT
  /\ bump + RECORD_SLOT_SIZE <= MAX_OFFSET
  /\ bump' = bump + RECORD_SLOT_SIZE
  /\ records' = records \cup {bump}
  /\ UNCHANGED <<free_head, word, origin_len, header, nodes, free>>

(* Mutant: the head is handed out and not popped. *)
AllocRecordUnpopped ==
  /\ free_head # ABSENT
  /\ records' = records \cup {free_head}
  /\ UNCHANGED <<bump, free_head, word, origin_len, header, nodes, free>>

AllocRecordFromFreeList ==
  /\ free_head # ABSENT
  /\ free_head < origin_len
  /\ free_head' = word[free_head]
  /\ records' = records \cup {free_head}
  /\ free' = SubSeq(free, 1, Len(free) - 1)
  /\ UNCHANGED <<bump, word, origin_len, header, nodes>>

(* Mutant: free_head moves before the link is written. *)
FreeRecordAfterHead(r) ==
  /\ r \in records
  /\ r < origin_len
  /\ free_head' = r
  /\ word' = [word EXCEPT ![r] = free_head']
  /\ records' = records \ {r}
  /\ free' = Append(free, r)
  /\ UNCHANGED <<bump, origin_len, header, nodes>>

(* The owner reads the record before it frees it, so its prefix was written. *)
FreeRecord(r) ==
  /\ r \in records
  /\ r < origin_len
  /\ word' = [word EXCEPT ![r] = free_head]
  /\ free_head' = r
  /\ records' = records \ {r}
  /\ free' = Append(free, r)
  /\ UNCHANGED <<bump, origin_len, header, nodes>>

WriteHeader ==
  /\ header' = Current
  /\ origin_len' = Later(origin_len, ROOT_OFFSET)
  /\ UNCHANGED <<bump, free_head, word, nodes, records, free>>

(* Mutant: reset forgets to empty the free list. *)
ResetKeepsFreeHead ==
  /\ bump' = Fresh.bump
  /\ word' = Zeroed(ROOT_OFFSET, NODE_SIZE)
  /\ origin_len' = Later(origin_len, ROOT_OFFSET + NODE_SIZE)
  /\ nodes' = {ROOT_OFFSET}
  /\ records' = {}
  /\ free' = <<>>
  /\ UNCHANGED <<free_head, header>>

(* The first write of reset; the second is WriteHeader. *)
Reset ==
  /\ bump' = Fresh.bump
  /\ free_head' = ABSENT
  /\ word' = Zeroed(ROOT_OFFSET, NODE_SIZE)
  /\ origin_len' = Later(origin_len, ROOT_OFFSET + NODE_SIZE)
  /\ nodes' = {ROOT_OFFSET}
  /\ records' = {}
  /\ free' = <<>>
  /\ UNCHANGED header

(* That write failed: the allocations are forgotten, the root is as it was. *)
(* The owner still finds them from the root, which is CoordMapStore's       *)
(* business; here they are no longer its own.                               *)
ResetFails ==
  /\ bump' = Fresh.bump
  /\ free_head' = ABSENT
  /\ nodes' = {ROOT_OFFSET}
  /\ records' = {}
  /\ free' = <<>>
  /\ UNCHANGED <<word, origin_len, header>>

(* The checks of load on the fields it adopts. *)
LoadAccepts ==
  /\ Loaded.bump >= ROOT_OFFSET + NODE_SIZE
  /\ Loaded.free_head # ABSENT => Loaded.free_head < origin_len

(* The strategy is dropped after a flush and loaded again from the header. *)
Reopen ==
  /\ Loaded = Current
  /\ LoadAccepts
  /\ bump' = Loaded.bump
  /\ free_head' = Loaded.free_head
  /\ UNCHANGED <<word, origin_len, header, nodes, records, free>>

(***************************************************************************)
(* What the owner does with what it holds.                                 *)
(***************************************************************************)
WriteWords(o, ws) ==
  /\ word' = [p \in Offsets |-> IF o <= p /\ p < o + Len(ws)
                                THEN ws[p - o + 1] ELSE word[p]]
  /\ origin_len' = Later(origin_len, o + Len(ws))
  /\ UNCHANGED <<bump, free_head, header, nodes, records, free>>

WriteSlot ==
  \E n \in nodes, i \in 0 .. NODE_SIZE - 1, w \in Words : WriteWords(n + i, <<w>>)

(* The length prefix or the payload: one write each. *)
WriteRecord ==
  \E r \in records :
    \/ \E w \in Words : WriteWords(r, <<w>>)
    \/ \E n \in 1 .. RECORD_SLOT_SIZE - 1 : \E ws \in [1 .. n -> Words] :
         WriteWords(r + 1, ws)

Next ==
  \/ AllocNode
  \/ AllocNodeFails
  \/ AllocRecordFromBump
  \/ AllocRecordFromFreeList
  \/ \E r \in records : FreeRecord(r)
  \/ WriteHeader
  \/ Reset
  \/ ResetFails
  \/ Reopen
  \/ WriteSlot
  \/ WriteRecord

Spec == Init /\ [][Next]_vars

(***************************************************************************)
(* Properties.                                                             *)
(***************************************************************************)
(* The type invariant. *)
TypeOK ==
  /\ bump \in Offsets
  /\ free_head \in Nat
  /\ word \in [Offsets -> Nat]
  /\ origin_len \in Nat
  /\ header \in [bump : Nat, free_head : Nat]
  /\ nodes \subseteq Nat
  /\ records \subseteq Nat
  /\ free \in Seq(Nat)

Apart(o, m, p, n) == o + m <= p \/ p + n <= o

(* No two of the nodes and records in use share a word: "nodes and records  *)
(* can never overlap" (the doc of TreeStrategy::new), whatever the order of *)
(* allocations, frees, failed writes, resets and reopens.                   *)
NoOverlap ==
  /\ \A m, n \in nodes : m # n => Apart(m, NODE_SIZE, n, NODE_SIZE)
  /\ \A q, r \in records :
       q # r => Apart(q, RECORD_SLOT_SIZE, r, RECORD_SLOT_SIZE)
  /\ \A n \in nodes, r \in records : Apart(n, NODE_SIZE, r, RECORD_SLOT_SIZE)

(* What alloc_record would hand out next is no part of anything in use: a   *)
(* record is never given to two keys, however it was recycled.              *)
NextRecord == IF free_head # ABSENT THEN free_head ELSE bump

NextRecordIsUnused ==
  /\ \A n \in nodes : Apart(NextRecord, RECORD_SLOT_SIZE, n, NODE_SIZE)
  /\ \A r \in records :
       Apart(NextRecord, RECORD_SLOT_SIZE, r, RECORD_SLOT_SIZE)

(* The links stored in the freed records, read from free_head on, spell the *)
(* records that were freed, last one first, and end in ABSENT: no owner's   *)
(* write and no reuse breaks, shortens or closes the list into a cycle.     *)
FreeListThreaded ==
  /\ free_head = IF free = <<>> THEN ABSENT ELSE free[Len(free)]
  /\ \A i \in 1 .. Len(free) :
       word[free[i]] = IF i = 1 THEN ABSENT ELSE free[i - 1]

(* load and alloc_record report corruption when a free list head lies past  *)
(* the end of the origin, load also when bump lies inside the root: no      *)
(* header ever written, and no state the strategy gets into, is refused.    *)
NeverCorrupt ==
  /\ LoadAccepts
  /\ free_head # ABSENT => free_head < origin_len

(***************************************************************************)
(* The inductive invariant: everything given out or given back lies below  *)
(* bump, apart from everything else, and what was given back was written.  *)
(***************************************************************************)
FreeRecords == { free[i] : i \in 1 .. Len(free) }

BelowBump ==
  /\ ROOT_OFFSET + NODE_SIZE <= bump
  /\ \A n \in nodes : ROOT_OFFSET <= n /\ n + NODE_SIZE <= bump
  /\ \A r \in records \cup FreeRecords :
       ROOT_OFFSET + NODE_SIZE <= r /\ r + RECORD_SLOT_SIZE <= bump

FreeIsApart ==
  /\ \A i, j \in 1 .. Len(free) :
       i # j => Apart(free[i], RECORD_SLOT_SIZE, free[j], RECORD_SLOT_SIZE)
  /\ \A i \in 1 .. Len(free), r \in records :
       Apart(free[i], RECORD_SLOT_SIZE, r, RECORD_SLOT_SIZE)
  /\ \A i \in 1 .. Len(free), n \in nodes :
       Apart(free[i], RECORD_SLOT_SIZE, n, NODE_SIZE)
  /\ \A i \in 1 .. Len(free) : free[i] < origin_len

IInv ==
  /\ TypeOK
  /\ NoOverlap
  /\ BelowBump
  /\ FreeIsApart
  /\ FreeListThreaded
  /\ LoadAccepts
=============================================================================
