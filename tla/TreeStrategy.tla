---------------------------- MODULE TreeStrategy ----------------------------
(***************************************************************************)
(* The storage format of TreeStrategy<N> (chton/src/binding/mod.rs) over   *)
(* an origin: the reading side as operators on an origin, the writes as    *)
(* functions from an origin to an origin.                                  *)
(*                                                                         *)
(* An origin is [header, word, len]: the header is one unit at offset 0,   *)
(* every other offset holds one 8-byte word, 0 from len on.  A node is a   *)
(* bitmap word followed by FANOUT slots; bit i of the bitmap says          *)
(* that slot i is present.  A record is a length word followed by the      *)
(* words of its payload.                                                   *)
(***************************************************************************)
EXTENDS Naturals, Sequences, FiniteSets

CONSTANTS
  DEPTH,             (* N: the levels of the tree                          *)
  FANOUT,            (* Coord::N_VALID: the slots of a node                *)
  RECORD_SLOT_SIZE,  (* words of a record                                  *)
  MAX_OFFSET         (* u64::MAX: where checked_add gives up               *)

ABSENT       == 0
ROOT_OFFSET  == 1
BITMAP_WORDS == 1
NODE_SIZE    == BITMAP_WORDS + FANOUT
Path         == [1 .. DEPTH -> 0 .. FANOUT - 1]

ASSUME LayoutAssumption ==
  /\ DEPTH \in Nat \ {0}
  /\ FANOUT \in Nat \ {0}
  /\ RECORD_SLOT_SIZE \in Nat \ {0}
  /\ MAX_OFFSET \in Nat
  /\ ROOT_OFFSET + NODE_SIZE <= MAX_OFFSET

(***************************************************************************)
(* The origin: reads past the end return nothing, writes extend it with    *)
(* zeros.                                                                  *)
(***************************************************************************)
NoHeader    == [bump |-> 0, free_head |-> ABSENT, record_count |-> 0]
EmptyOrigin ==
  [header |-> NoHeader, word |-> [pos \in 0 .. MAX_OFFSET |-> 0], len |-> 0]

Later(m, n) == IF m >= n THEN m ELSE n
Apart(o, m, p, n) == o + m <= p \/ p + n <= o

WriteWords(o, pos, ws) ==
  LET end == pos + Len(ws)
  IN  [o EXCEPT
        !.word = [p \in 0 .. MAX_OFFSET |->
                    IF pos <= p /\ p < end THEN ws[p - pos + 1] ELSE o.word[p]],
        !.len = Later(o.len, end)]

(***************************************************************************)
(* Reading the tree.                                                       *)
(***************************************************************************)
SlotPos(node, index) == node + BITMAP_WORDS + index
ReadSlot(o, node, index) == o.word[SlotPos(node, index)]
(* 1 << i, the bit of slot i in a bitmap. *)
Bit[i \in 0 .. FANOUT - 1] == IF i = 0 THEN 1 ELSE 2 * Bit[i - 1]

InBitmap(o, node, index) == (o.word[node] \div Bit[index]) % 2 = 1
ChildInBounds(o, child) == child + NODE_SIZE <= o.len

(* The nodes on the way to `path`, ABSENT from the first missing child on. *)
NodesTo(o, path) ==
  LET at[d \in 1 .. DEPTH] ==
        IF d = 1 THEN ROOT_OFFSET
        ELSE IF at[d - 1] = ABSENT THEN ABSENT
        ELSE LET child == ReadSlot(o, at[d - 1], path[d - 1])
             IN  IF ChildInBounds(o, child) THEN child ELSE ABSENT
  IN  at

(* check_child_in_bounds fails on the way to `path`. *)
CorruptPath(o, path) ==
  \E d \in 1 .. DEPTH - 1 :
    LET node  == NodesTo(o, path)[d]
        child == ReadSlot(o, node, path[d])
    IN  node # ABSENT /\ child # ABSENT /\ ~ ChildInBounds(o, child)

(* Where the walk ends: the leaf slot, or the first absent child's slot. *)
Locate(o, path) ==
  LET nodes == NodesTo(o, path)
      depth == CHOOSE d \in 1 .. DEPTH :
                 /\ nodes[d] # ABSENT
                 /\ d = DEPTH \/ nodes[d + 1] = ABSENT
  IN  [node          |-> nodes[depth],
       index         |-> path[depth],
       at_leaf       |-> depth = DEPTH,
       record_offset |-> IF depth = DEPTH
                         THEN ReadSlot(o, nodes[depth], path[depth])
                         ELSE ABSENT]

(* What iter lists: the walk follows the bitmap.                           *)
IterPaths(o) ==
  { path \in Path :
      LET nodes == NodesTo(o, path) IN
      \A d \in 1 .. DEPTH :
        /\ nodes[d] # ABSENT
        /\ InBitmap(o, nodes[d], path[d])
        /\ ReadSlot(o, nodes[d], path[d]) # ABSENT }

(* The walk comes to a child that lies outside the origin, and ends there.  *)
IterIsCorrupt(o) ==
  \E path \in Path, d \in 1 .. DEPTH - 1 :
    LET nodes == NodesTo(o, path) IN
    /\ \A e \in 1 .. d :
         /\ nodes[e] # ABSENT
         /\ InBitmap(o, nodes[e], path[e])
         /\ ReadSlot(o, nodes[e], path[e]) # ABSENT
    /\ ~ ChildInBounds(o, ReadSlot(o, nodes[d], path[d]))

(***************************************************************************)
(* Writing the tree.                                                       *)
(***************************************************************************)
ZeroNode(o, node) == WriteWords(o, node, [i \in 1 .. NODE_SIZE |-> 0])

WriteSlotWord(o, slot, value) ==
  WriteWords(o, SlotPos(slot.node, slot.index), <<value>>)

(* Mutant: clearing a slot clears the bits of its neighbours. *)
WriteSlotBitZeroes(o, slot, value) ==
  LET bit  == Bit[slot.index]
      rest == IF InBitmap(o, slot.node, slot.index)
              THEN o.word[slot.node] - bit ELSE o.word[slot.node]
  IN  WriteWords(o, slot.node, <<IF value = ABSENT THEN 0 ELSE rest + bit>>)

(* The second write of write_slot: read the bitmap, set or clear the bit.  *)
WriteSlotBit(o, slot, value) ==
  LET bit  == Bit[slot.index]
      rest == IF InBitmap(o, slot.node, slot.index)
              THEN o.word[slot.node] - bit ELSE o.word[slot.node]
  IN  WriteWords(o, slot.node, <<IF value = ABSENT THEN rest ELSE rest + bit>>)

(***************************************************************************)
(* The strategy: what is kept in memory and what the header holds.         *)
(***************************************************************************)
NewStrategy ==
  [bump |-> ROOT_OFFSET + NODE_SIZE, free_head |-> ABSENT, record_count |-> 0]

WriteHeader(o, strategy) ==
  [o EXCEPT !.header = strategy, !.len = Later(o.len, ROOT_OFFSET)]

(* load: zero bytes fail the magic check and leave the fresh strategy. *)
LoadOrNew(o) == IF o.header = NoHeader THEN NewStrategy ELSE o.header

(* Mutant: a bump right after the root is refused. *)
LoadRefusesEmpty(o) ==
  /\ o.header # NoHeader
  /\ \/ o.header.bump <= ROOT_OFFSET + NODE_SIZE
     \/ o.header.free_head # ABSENT /\ o.header.free_head >= o.len

LoadIsCorrupt(o) ==
  /\ o.header # NoHeader
  /\ \/ o.header.bump < ROOT_OFFSET + NODE_SIZE
     \/ o.header.free_head # ABSENT /\ o.header.free_head >= o.len

(* Mutant: bump + record_slot_size without checked_add. *)
AllocUnchecked(o, s) == s.free_head # ABSENT /\ s.free_head >= o.len

(* alloc_record: the offset handed out, and the strategy afterwards. *)
AllocFails(o, s) ==
  IF s.free_head # ABSENT THEN s.free_head >= o.len
  ELSE s.bump + RECORD_SLOT_SIZE > MAX_OFFSET
AllocatedRecord(s) == IF s.free_head # ABSENT THEN s.free_head ELSE s.bump
(* Mutant: the free list head is not popped. *)
AfterAllocUnpopped(o, s) ==
  IF s.free_head # ABSENT THEN s ELSE [s EXCEPT !.bump = @ + RECORD_SLOT_SIZE]

AfterAllocRecord(o, s) ==
  IF s.free_head # ABSENT
  THEN [s EXCEPT !.free_head = o.word[s.free_head]]
  ELSE [s EXCEPT !.bump = @ + RECORD_SLOT_SIZE]
=============================================================================
