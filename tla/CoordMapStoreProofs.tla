------------------------ MODULE CoordMapStoreProofs ------------------------
(***************************************************************************)
(* What CoordMapStore keeps true whatever the depth, the fanout, the       *)
(* record size, the keys and values, and however many writes fail.         *)
(*                                                                         *)
(* The theorems about the layout are about behaviours that stay Covered:   *)
(* after a failed remove or clear only a clear follows, and a store is not *)
(* reopened with a header that is behind.  What happens in the second case *)
(* the run MCStaleHeader shows.                                            *)
(***************************************************************************)
EXTENDS CoordMapStoreRefinement, TreeStrategyProofs

Covered ==
  /\ ThenCleared
  /\ ReopenWhen # "crash"
  /\ ReopenWhen = "clean" => "header" \notin wounds

(***************************************************************************)
(* The inductive invariant.                                                *)
(***************************************************************************)
PutPlaces    == {"locate", "link", "link_bit", "leaf", "leaf_bit", "length", "payload"}
RemovePlaces == {"unleaf", "unleaf_bit"}
Places       == {"idle", "clear_header", "sync"} \cup PutPlaces \cup RemovePlaces
Names        == {"none", "put", "remove", "clear", "flush"}
Slots        == [node : Nat, index : Nat]
Answers      == { v \in Seq(Nat) : Len(v) <= MaxValueLen } \cup {NONE}
Op           == [at : Places, name : Names, path : Paths \cup {<<>>},
                 value : Seq(Nat), slot : Slots, target : Nat, prev : Answers]

(* Where an operation is tells what it is. *)
OpNamed ==
  /\ op.at = "idle" => op = Idle
  /\ op.at \in PutPlaces =>
       /\ op.name = "put"
       /\ op.path \in Paths
       /\ op.value \in Payloads /\ Len(op.value) <= MaxValueLen
  /\ op.at \in RemovePlaces => op.name = "remove" /\ op.path \in Paths
  /\ op.at = "sync" => op.name = "flush"
  /\ op.at = "clear_header" => op.name = "clear" /\ strategy = NewStrategy

TypeInv ==
  /\ strategy \in Header
  /\ origin \in Origin
  /\ len \in Nat
  /\ dirty \in BOOLEAN /\ synced \in BOOLEAN
  /\ op \in Op
  /\ result \in Answers \cup {FAILED, TOO_LARGE}
  /\ faults \in 0 .. MAX_FAULTS
  /\ wounds \subseteq {"header", "spans"}
  /\ unmarked \subseteq Slots /\ torn \subseteq Paths

(* The header is one this code wrote. *)
HeaderSound ==
  origin.header # NoHeader =>
    /\ origin.header.bump >= ROOT_OFFSET + NODE_SIZE
    /\ origin.header.free_head # ABSENT => origin.header.free_head < origin.len

(* The nodes and records of the tree, with the one an operation has         *)
(* allocated and not linked yet and without the one it has freed already.   *)
NodesHeld ==
  NodesOf(origin) \cup (IF At("link") THEN {op.target} ELSE {})
RecordsHeld ==
  (RecordsOf(origin) \cup (IF At("leaf") THEN {op.target} ELSE {}))
    \ (IF At("unleaf") THEN {op.target} ELSE {})

Sound(n, f) ==
  /\ Chain(origin, strategy.free_head, n, f)
  /\ Laid(strategy.bump, NodesHeld, RecordsHeld, n, f)

SomeFreeList == \E n \in Nat : \E f \in [1 .. n -> Nat] : Sound(n, f)

(* The slot of an operation on a leaf is the leaf slot of its path.  *)
AtLeafSlot ==
  /\ NodesTo(origin, op.path)[DEPTH] # ABSENT
  /\ op.slot = [node |-> NodesTo(origin, op.path)[DEPTH], index |-> op.path[DEPTH]]

(* What the operation under way has come to. *)
InFlight ==
  /\ At("link") =>
       /\ \E k \in 1 .. DEPTH - 1 :
            /\ NodesTo(origin, op.path)[k] # ABSENT
            /\ op.slot = [node |-> NodesTo(origin, op.path)[k], index |-> op.path[k]]
       /\ ReadSlot(origin, op.slot.node, op.slot.index) = ABSENT
       /\ op.target # ABSENT /\ op.target \notin NodesOf(origin)
       /\ op.target + NODE_SIZE <= origin.len
       /\ \A i \in 0 .. FANOUT - 1 : ReadSlot(origin, op.target, i) = ABSENT
       /\ origin.word[op.target] = 0
  /\ At("link_bit") =>
       /\ op.slot.node \in NodesOf(origin) /\ op.slot.index \in 0 .. FANOUT - 1
       /\ op.slot = [node |-> op.slot.node, index |-> op.slot.index]
       /\ op.target # ABSENT
       /\ ReadSlot(origin, op.slot.node, op.slot.index) = op.target
  /\ At("leaf") =>
       /\ AtLeafSlot
       /\ RecordAt(origin, op.path) = ABSENT
       /\ op.target # ABSENT /\ op.target \notin RecordsOf(origin)
  /\ op.at \in {"leaf_bit", "unleaf", "unleaf_bit"} => AtLeafSlot
  /\ op.at \in {"leaf_bit", "length", "payload", "unleaf"} =>
       op.target # ABSENT /\ RecordAt(origin, op.path) = op.target
  /\ At("payload") =>
       /\ op.target < origin.len
       /\ origin.word[op.target] = Len(op.value)
  /\ At("unleaf_bit") => RecordAt(origin, op.path) = ABSENT
  /\ At("clear_header") =>
       /\ \A i \in 0 .. FANOUT - 1 : ReadSlot(origin, ROOT_OFFSET, i) = ABSENT
       /\ origin.word[ROOT_OFFSET] = 0

(* len against the entries: one behind while a put adds its own, one ahead *)
(* while a remove takes its own away.                                      *)
Ahead     == IF At("unleaf_bit") THEN 1 ELSE 0
Behind    == IF At("leaf_bit") THEN 1 ELSE 0

Counted ==
  /\ IsFiniteSet(Stored(origin))
  /\ ~ At("clear_header") =>
       /\ len + Behind <= Cardinality(Stored(origin)) + Ahead
       /\ Cardinality(Stored(origin)) + Ahead <= len + Behind + faults

(* A slot has its bit exactly when it is in use, but the one whose bit is   *)
(* about to be written and those whose bit was not.                         *)
MarkedAt(m, i) ==
  LET slot == [node |-> m, index |-> i] IN
  ~ (At("unleaf_bit") /\ op.slot = slot) =>
    (InBitmap(origin, m, i) <=>
       /\ ReadSlot(origin, m, i) # ABSENT
       /\ slot \notin unmarked
       /\ ~ (op.at \in {"link_bit", "leaf_bit"} /\ op.slot = slot))

Marked == \A m \in NodesOf(origin), i \in 0 .. FANOUT - 1 : MarkedAt(m, i)

Whole == "spans" \notin wounds \/ At("clear_header")

WholeInv == Tree(origin) /\ SomeFreeList /\ InFlight /\ Counted /\ Marked

StrategySound ==
  /\ strategy.bump >= ROOT_OFFSET + NODE_SIZE
  /\ strategy.free_head # ABSENT => strategy.free_head < origin.len

IInv ==
  /\ TypeInv /\ OpNamed /\ HeaderSound /\ StrategySound
  /\ Whole => WholeInv

(***************************************************************************)
(* Types.                                                                  *)
(***************************************************************************)
LEMMA ValueSizes ==
  /\ MaxValueLen \in Nat /\ MaxValueLen + 1 = RECORD_SLOT_SIZE
  /\ Paths \subseteq Path
  /\ \A v \in Payloads : v \in Seq(0 .. MAX_OFFSET) /\ v \in Seq(Nat) /\ Len(v) \in Nat
  /\ NewStrategy \in Header /\ NewStrategy.bump = ROOT_OFFSET + NODE_SIZE
  /\ NewStrategy.free_head = ABSENT /\ NewStrategy.record_count = 0
  /\ NewStrategy # NoHeader
  /\ NoHeader \in Header
<1>1. \A v \in Payloads : v \in Seq(0 .. MAX_OFFSET)
  BY StoreAssumption
<1>2. Seq(0 .. MAX_OFFSET) \subseteq Seq(Nat)
  BY Sizes
<1>3. NewStrategy # NoHeader
  BY Sizes DEF NewStrategy, NoHeader
<1> QED
  BY <1>1, <1>2, <1>3, StoreAssumption, Sizes
     DEF MaxValueLen, NewStrategy, NoHeader, Header

LEMMA IdleType ==
  /\ Idle \in Op
  /\ Idle.at = "idle" /\ Idle.name = "none" /\ Idle.path = <<>>
<1>1. NONE \in Answers /\ <<>> \in Seq(Nat) /\ <<>> \in Paths \cup {<<>>}
  BY DEF Answers
<1>2. NoSlot \in Slots /\ ABSENT \in Nat /\ "idle" \in Places /\ "none" \in Names
  BY DEF NoSlot, Slots, ABSENT, Places, Names
<1> QED
  BY <1>1, <1>2 DEF Idle, Op

LEMMA OpFields ==
  ASSUME op \in Op
  PROVE  /\ op.at \in Places /\ op.path \in Paths \cup {<<>>} /\ op.value \in Seq(Nat)
         /\ op.slot \in Slots /\ op.target \in Nat /\ op.prev \in Answers
         /\ op.slot.node \in Nat /\ op.slot.index \in Nat
BY DEF Op, Slots

LEMMA OpGoes ==
  ASSUME op \in Op, NEW place \in Places, Go(place)
  PROVE  /\ op' \in Op
         /\ op'.at = place /\ op'.name = op.name /\ op'.path = op.path
         /\ op'.value = op.value /\ op'.slot = op.slot /\ op'.target = op.target
         /\ op'.prev = op.prev
BY DEF Go, Op

(* A record that reads reads as words, no more than fit. *)
LEMMA ReadRecordIs ==
  ASSUME NEW o \in Origin, NEW r \in Nat
  PROVE  \/ ReadRecord(o, r) = FAILED
         \/ /\ r < o.len /\ o.word[r] \in Nat /\ o.word[r] <= MaxValueLen
            /\ r + 1 + o.word[r] <= o.len
            /\ ReadRecord(o, r) = [i \in 1 .. o.word[r] |-> o.word[r + i]]
            /\ ReadRecord(o, r) \in Answers
<1> SUFFICES ASSUME ReadRecord(o, r) # FAILED
             PROVE  /\ r < o.len /\ o.word[r] \in Nat /\ o.word[r] <= MaxValueLen
                    /\ r + 1 + o.word[r] <= o.len
                    /\ ReadRecord(o, r) = [i \in 1 .. o.word[r] |-> o.word[r + i]]
                    /\ ReadRecord(o, r) \in Answers
  OBVIOUS
<1> DEFINE size == o.word[r]
<1>1. o.len \in 0 .. MAX_OFFSET /\ o.word \in [0 .. MAX_OFFSET -> Nat]
  BY DEF Origin
<1>2. ~ (r >= o.len) /\ ~ (size > MaxValueLen) /\ ~ (r + 1 + size > o.len)
  BY DEF ReadRecord
<1>3. ReadRecord(o, r) = [i \in 1 .. size |-> o.word[r + i]]
  BY DEF ReadRecord
<1>4. r < o.len /\ r \in 0 .. MAX_OFFSET
  BY <1>1, <1>2, Sizes
<1>5. size \in Nat
  BY <1>1, <1>4
<1> HIDE DEF size
<1>6. size <= MaxValueLen /\ r + 1 + size <= o.len
  BY <1>1, <1>2, <1>5, ValueSizes
<1>7. \A i \in 1 .. size : o.word[r + i] \in Nat
  <2>1. \A i \in 1 .. size : r + i \in 0 .. MAX_OFFSET
    BY <1>1, <1>5, <1>6, Sizes
  <2> QED
    BY <1>1, <2>1
<1> DEFINE v == [i \in 1 .. size |-> o.word[r + i]]
<1>8. v \in Seq(Nat) /\ Len(v) = size
  BY <1>5, <1>7
<1> HIDE DEF v
<1>9. v \in Answers
  BY <1>6, <1>8 DEF Answers
<1> QED
  BY <1>3, <1>4, <1>5, <1>6, <1>9 DEF v, size
(***************************************************************************)
(* What the invariant says at hand.                                        *)
(***************************************************************************)
LEMMA Holds ==
  ASSUME IInv, Whole
  PROVE  /\ origin \in Origin /\ strategy \in Header /\ op \in Op
         /\ Tree(origin) /\ SomeFreeList /\ InFlight /\ Counted /\ Marked
         /\ NodesHeld \in SUBSET Nat /\ RecordsHeld \in SUBSET Nat
         /\ NodesSpaced(origin)
         /\ strategy.bump \in Nat /\ strategy.bump <= MAX_OFFSET
<1>1. /\ origin \in Origin /\ strategy \in Header /\ op \in Op
      /\ Tree(origin) /\ SomeFreeList /\ InFlight /\ Counted /\ Marked
  BY DEF IInv, TypeInv, WholeInv
<1>2. op.target \in Nat
  BY <1>1, OpFields
<1>3. NodesHeld \in SUBSET Nat /\ NodesOf(origin) \subseteq NodesHeld
  BY <1>1, <1>2, NodeType DEF NodesHeld
<1>4. RecordsHeld \in SUBSET Nat
  BY <1>1, <1>2, RecordType DEF RecordsHeld
<1>5. PICK n \in Nat : \E f \in [1 .. n -> Nat] : Sound(n, f)
  BY <1>1 DEF SomeFreeList
<1>6. PICK f \in [1 .. n -> Nat] : Sound(n, f)
  BY <1>5
<1>7. Laid(strategy.bump, NodesHeld, RecordsHeld, n, f)
  BY <1>6 DEF Sound
<1>8. NodesSpaced(origin)
  BY <1>3, <1>7 DEF Laid, NodesSpaced
<1>9. strategy.bump \in Nat /\ strategy.bump <= MAX_OFFSET
  BY <1>1, <1>7 DEF Laid, Header
<1> QED
  BY <1>1, <1>3, <1>4, <1>8, <1>9

(* A slot that neither this step nor the next write is about keeps its mark. *)
LEMMA MarkedApart ==
  ASSUME NEW m, NEW i, MarkedAt(m, i),
         ReadSlot(origin', m, i) = ReadSlot(origin, m, i),
         InBitmap(origin', m, i) <=> InBitmap(origin, m, i),
         [node |-> m, index |-> i] \in unmarked' <=> [node |-> m, index |-> i] \in unmarked,
         op.at \in BitPlaces => op.slot # [node |-> m, index |-> i],
         op'.at \in BitPlaces => op'.slot # [node |-> m, index |-> i]
  PROVE  MarkedAt(m, i)'
BY DEF MarkedAt, BitPlaces, At

LEMMA MarkedKept ==
  ASSUME Marked, NodesOf(origin') = NodesOf(origin), unmarked' = unmarked,
         \A m \in NodesOf(origin), i \in 0 .. FANOUT - 1 :
           /\ ReadSlot(origin', m, i) = ReadSlot(origin, m, i)
           /\ InBitmap(origin', m, i) <=> InBitmap(origin, m, i),
         op.at \notin BitPlaces, op'.at \notin BitPlaces
  PROVE  Marked'
<1> SUFFICES ASSUME NEW m \in NodesOf(origin'), NEW i \in 0 .. FANOUT - 1
             PROVE  MarkedAt(m, i)'
  BY DEF Marked
<1>1. MarkedAt(m, i)
  BY DEF Marked
<1> QED
  BY <1>1, MarkedApart

(* No bit of an empty bitmap is set. *)
LEMMA NoBits ==
  ASSUME NEW o, NEW m, o.word[m] = 0
  PROVE  \A i \in 0 .. FANOUT - 1 : ~ InBitmap(o, m, i)
<1> SUFFICES ASSUME NEW i \in 0 .. FANOUT - 1 PROVE ~ InBitmap(o, m, i)
  OBVIOUS
<1>1. Bit[i] \in Nat /\ Bit[i] # 0
  BY BitStep
<1>2. 0 \div Bit[i] = 0
  BY <1>1
<1> QED
  BY <1>2 DEF InBitmap

(* A write inside a node the store holds leaves the free list alone. *)
LEMMA InsideNode ==
  ASSUME NEW b \in Nat, NEW N \in SUBSET Nat, NEW R \in SUBSET Nat, NEW n \in Nat,
         NEW f \in [1 .. n -> Nat], Laid(b, N, R, n, f),
         NEW m \in N, NEW lo \in Nat, NEW size \in Nat,
         m <= lo, lo + size <= m + NODE_SIZE
  PROVE  /\ \A i \in 1 .. n : Apart(f[i], RECORD_SLOT_SIZE, lo, size)
         /\ \A r \in R : Apart(r, RECORD_SLOT_SIZE, lo, size)
<1>1. ASSUME NEW i \in 1 .. n PROVE Apart(f[i], RECORD_SLOT_SIZE, lo, size)
  <2>1. Apart(m, NODE_SIZE, f[i], RECORD_SLOT_SIZE)
    BY DEF Laid
  <2> QED
    BY <2>1, Sizes DEF Apart
<1>2. ASSUME NEW r \in R PROVE Apart(r, RECORD_SLOT_SIZE, lo, size)
  <2>1. Apart(m, NODE_SIZE, r, RECORD_SLOT_SIZE)
    BY DEF Laid
  <2> QED
    BY <2>1, Sizes DEF Apart
<1> QED
  BY <1>1, <1>2

(* A write inside a record the store holds leaves all else alone. *)
LEMMA InsideRecord ==
  ASSUME NEW b \in Nat, NEW N \in SUBSET Nat, NEW R \in SUBSET Nat, NEW n \in Nat,
         NEW f \in [1 .. n -> Nat], Laid(b, N, R, n, f),
         NEW r \in R, NEW lo \in Nat, NEW size \in Nat,
         r <= lo, lo + size <= r + RECORD_SLOT_SIZE
  PROVE  /\ \A i \in 1 .. n : Apart(f[i], RECORD_SLOT_SIZE, lo, size)
         /\ \A m \in N : Apart(m, NODE_SIZE, lo, size)
         /\ \A s \in R : s # r => Apart(s, RECORD_SLOT_SIZE, lo, size)
<1>1. ASSUME NEW i \in 1 .. n PROVE Apart(f[i], RECORD_SLOT_SIZE, lo, size)
  <2>1. Apart(r, RECORD_SLOT_SIZE, f[i], RECORD_SLOT_SIZE)
    BY DEF Laid
  <2> QED
    BY <2>1, Sizes DEF Apart
<1>2. ASSUME NEW m \in N PROVE Apart(m, NODE_SIZE, lo, size)
  <2>1. Apart(m, NODE_SIZE, r, RECORD_SLOT_SIZE)
    BY DEF Laid
  <2> QED
    BY <2>1, Sizes DEF Apart
<1>3. ASSUME NEW s \in R, s # r PROVE Apart(s, RECORD_SLOT_SIZE, lo, size)
  <2>1. Apart(s, RECORD_SLOT_SIZE, r, RECORD_SLOT_SIZE)
    BY <1>3 DEF Laid
  <2> QED
    BY <2>1, Sizes DEF Apart
<1> QED
  BY <1>1, <1>2, <1>3

(* A write past bump leaves all that is held alone. *)
LEMMA PastBump ==
  ASSUME NEW b \in Nat, NEW N \in SUBSET Nat, NEW R \in SUBSET Nat, NEW n \in Nat,
         NEW f \in [1 .. n -> Nat], Laid(b, N, R, n, f), NEW size \in Nat
  PROVE  /\ \A i \in 1 .. n : Apart(f[i], RECORD_SLOT_SIZE, b, size)
         /\ \A m \in N : Apart(m, NODE_SIZE, b, size)
         /\ \A r \in R : Apart(r, RECORD_SLOT_SIZE, b, size)
BY DEF Laid, Apart

(***************************************************************************)
(* Steps that write and keep the strategy.                                 *)
(***************************************************************************)
LEMMA WriteFrame ==
  ASSUME IInv, strategy' = strategy, NEW lo, NEW size, Wrote(origin, origin', lo, size)
  PROVE  HeaderSound' /\ StrategySound'
<1>1. /\ strategy.free_head \in Nat /\ origin.header.free_head \in Nat
      /\ origin.len \in Nat /\ origin'.len \in Nat
  BY DEF IInv, TypeInv, Header, Origin, Wrote
<1>2. origin'.header = origin.header /\ origin.len <= origin'.len
  BY DEF Wrote
<1>3. HeaderSound'
  BY <1>1, <1>2 DEF IInv, HeaderSound
<1>4. StrategySound'
  BY <1>1, <1>2 DEF IInv, StrategySound
<1> QED
  BY <1>3, <1>4

(***************************************************************************)
(* Steps that fail.                                                        *)
(***************************************************************************)
LEMMA AbortFrame ==
  ASSUME IInv, NEW s \in Header, NEW name \in {"put", "remove", "clear", "flush"},
         s.bump >= ROOT_OFFSET + NODE_SIZE,
         s.free_head # ABSENT => s.free_head < origin.len,
         Abort(name, s), faults' \in 0 .. MAX_FAULTS
  PROVE  /\ TypeInv' /\ OpNamed' /\ HeaderSound' /\ StrategySound'
         /\ op'.at = "idle" /\ op'.name = "none"
         /\ "spans" \in wounds' <=> ("spans" \in wounds \/ name \in {"remove", "clear"})
<1>1. wounds' \subseteq {"header", "spans"}
      /\ ("spans" \in wounds' <=> ("spans" \in wounds \/ name \in {"remove", "clear"}))
  <2>1. wounds \subseteq {"header", "spans"}
    BY DEF IInv, TypeInv
  <2>2. CASE name = "put"
    BY <2>1, <2>2 DEF Abort
  <2>3. CASE name \in {"remove", "clear"}
    <3>1. wounds' = wounds \cup {"header", "spans"}
      BY <2>3 DEF Abort
    <3> QED
      BY <2>1, <2>3, <3>1
  <2>4. CASE name = "flush"
    <3>1. wounds' = wounds \cup {}
      BY <2>4 DEF Abort
    <3> QED
      BY <2>1, <2>4, <3>1
  <2> QED
    BY <2>2, <2>3, <2>4
<1>2. /\ strategy' = s /\ op' = Idle /\ result' = FAILED
      /\ origin' = origin /\ len' = len /\ dirty' = dirty /\ synced' = synced
  BY DEF Abort
<1>3. TypeInv'
  <2>1. unmarked' \subseteq Slots
    <3>1. op.slot \in Slots /\ unmarked \subseteq Slots
      BY OpFields DEF IInv, TypeInv
    <3> QED
      BY <3>1 DEF Abort, Cut
  <2>2. torn' \subseteq Paths
    <3>1. op.at \in {"leaf_bit", "length", "payload"} => op.path \in Paths
      BY DEF IInv, OpNamed, PutPlaces
    <3>2. torn \subseteq Paths
      BY DEF IInv, TypeInv
    <3> QED
      BY <3>1, <3>2 DEF Abort, Cut
  <2> QED
    BY <1>1, <1>2, <2>1, <2>2, IdleType DEF IInv, TypeInv
<1>4. OpNamed'
  BY <1>2, IdleType DEF OpNamed, PutPlaces, RemovePlaces
<1>5. HeaderSound' /\ StrategySound'
  BY <1>2 DEF IInv, HeaderSound, StrategySound
<1> QED
  BY <1>1, <1>2, <1>3, <1>4, <1>5, IdleType

(* A failed put keeps what it allocated off the free list, and nothing of   *)
(* what it did is in the way of another operation.                          *)
LEMMA PutAborted ==
  ASSUME IInv, Whole, op.at \in PutPlaces, NEW s \in Header,
         s.free_head = strategy.free_head,
         strategy.bump <= s.bump, s.bump <= MAX_OFFSET,
         Abort("put", s), faults' \in 0 .. MAX_FAULTS,
         faults' = faults + 1 \/ (faults' = faults /\ At("locate"))
  PROVE  IInv'
<1>1. /\ strategy' = s /\ op' = Idle /\ op'.at = "idle"
      /\ origin' = origin /\ len' = len
  BY IdleType DEF Abort
<1>2. TypeInv' /\ OpNamed' /\ HeaderSound' /\ StrategySound'
  <2>1. strategy.bump \in Nat /\ s.bump \in Nat /\ strategy.free_head \in Nat
    BY DEF IInv, TypeInv, Header
  <2>2. s.bump >= ROOT_OFFSET + NODE_SIZE
    BY <2>1, Sizes DEF IInv, StrategySound
  <2>3. s.free_head # ABSENT => s.free_head < origin.len
    BY DEF IInv, StrategySound
  <2> QED
    BY <2>2, <2>3, AbortFrame
<1>3. /\ Tree(origin) /\ SomeFreeList /\ Counted /\ Marked
      /\ NodesHeld \in SUBSET Nat /\ RecordsHeld \in SUBSET Nat
      /\ strategy.bump \in Nat
  BY Holds
<1>4. faults \in Nat /\ len \in Nat
  BY DEF IInv, TypeInv
<1>5. SomeFreeList'
  <2>1. PICK n \in Nat : \E f \in [1 .. n -> Nat] : Sound(n, f)
    BY <1>3 DEF SomeFreeList
  <2>2. PICK f \in [1 .. n -> Nat] : Sound(n, f)
    BY <2>1
  <2>3. NodesHeld' \in SUBSET NodesHeld /\ RecordsHeld' \in SUBSET RecordsHeld
    BY <1>1 DEF NodesHeld, RecordsHeld, At, PutPlaces
  <2>4. s.bump \in Nat
    BY DEF Header
  <2>5. Laid(s.bump, NodesHeld', RecordsHeld', n, f)
    BY <1>3, <2>2, <2>3, <2>4, LaidFewer DEF Sound
  <2>6. Sound(n, f)'
    BY <1>1, <2>2, <2>5 DEF Sound
  <2> QED
    BY <2>6 DEF SomeFreeList
<1>6. InFlight'
  BY <1>1 DEF InFlight, At
<1>7. Counted'
  <2>1. IsFiniteSet(Stored(origin)) /\ Cardinality(Stored(origin)) \in Nat
    BY <1>3, FS_CardinalityType DEF Counted
  <2>2. /\ ~ At("clear_header") /\ ~ At("unleaf_bit")
        /\ At("leaf_bit") => ~ At("locate")
    BY DEF At, PutPlaces
  <2>3. /\ len + Behind <= Cardinality(Stored(origin))
        /\ Cardinality(Stored(origin)) <= len + Behind + faults
    BY <1>3, <1>4, <2>1, <2>2 DEF Counted, Ahead, Behind
  <2>4. Ahead' = 0 /\ Behind' = 0
    BY <1>1 DEF Ahead, Behind, At
  <2>5. Behind = (IF At("leaf_bit") THEN 1 ELSE 0)
    BY DEF Behind
  <2>6. len <= Cardinality(Stored(origin)) /\ Cardinality(Stored(origin)) <= len + faults'
    BY <1>4, <2>1, <2>2, <2>3, <2>5
  <2> QED
    BY <1>1, <1>4, <2>1, <2>4, <2>6 DEF Counted
<1>8. Marked'
  <2> SUFFICES ASSUME NEW m \in NodesOf(origin), NEW i \in 0 .. FANOUT - 1
               PROVE  MarkedAt(m, i)'
    BY <1>1 DEF Marked
  <2>1. MarkedAt(m, i) /\ op.at # "unleaf_bit"
    BY <1>3 DEF Marked, PutPlaces
  <2>2. unmarked' = unmarked \cup (IF op.at \in {"link_bit", "leaf_bit"} THEN {op.slot} ELSE {})
    BY <2>1 DEF Abort, Cut, BitPlaces
  <2> QED
    BY <1>1, <2>1, <2>2 DEF MarkedAt, At
<1> QED
  BY <1>1, <1>2, <1>3, <1>5, <1>6, <1>7, <1>8 DEF IInv, WholeInv

(* After a failed remove or clear nothing is claimed of the layout. *)
LEMMA SpansAborted ==
  ASSUME IInv, NEW s \in Header, NEW name \in {"remove", "clear"},
         s.bump >= ROOT_OFFSET + NODE_SIZE,
         s.free_head # ABSENT => s.free_head < origin.len,
         Abort(name, s), faults' \in 0 .. MAX_FAULTS
  PROVE  IInv'
<1>1. /\ TypeInv' /\ OpNamed' /\ HeaderSound' /\ StrategySound'
      /\ op'.at = "idle" /\ "spans" \in wounds'
  BY AbortFrame
<1> QED
  BY <1>1 DEF IInv, Whole, At
(***************************************************************************)
(* The start, and steps that leave the origin alone.                       *)
(***************************************************************************)
LEMMA FreshSpans ==
  ASSUME NEW o
  PROVE  \E n \in Nat : \E f \in [1 .. n -> Nat] :
           /\ Chain(o, ABSENT, n, f)
           /\ Laid(ROOT_OFFSET + NODE_SIZE, {ROOT_OFFSET}, {}, n, f)
<1> DEFINE f == [i \in 1 .. 0 |-> 0]
<1>1. f \in [1 .. 0 -> Nat] /\ 0 \in Nat /\ \A i \in 1 .. 0 : FALSE
  OBVIOUS
<1>2. Chain(o, ABSENT, 0, f)
  BY <1>1 DEF Chain
<1>3. Laid(ROOT_OFFSET + NODE_SIZE, {ROOT_OFFSET}, {}, 0, f)
  BY <1>1, Sizes DEF Laid
<1> HIDE DEF f
<1> QED
  BY <1>1, <1>2, <1>3

LEMMA EmptyStored ==
  ASSUME NEW o, \A p \in Path : RecordAt(o, p) = ABSENT
  PROVE  Stored(o) = {} /\ IsFiniteSet(Stored(o)) /\ Cardinality(Stored(o)) = 0
<1>1. Stored(o) = {}
  BY DEF Stored
<1> QED
  BY <1>1, FS_EmptySet

LEMMA InitInv == Init => IInv
<1> SUFFICES ASSUME Init PROVE IInv
  OBVIOUS
<1>1. /\ strategy = NewStrategy /\ origin = EmptyOrigin /\ len = 0 /\ dirty = FALSE
      /\ op = Idle /\ result = NONE /\ synced = TRUE /\ faults = 0 /\ wounds = {}
      /\ unmarked = {} /\ torn = {}
  BY DEF Init
<1>2. origin \in Origin /\ origin.header = NoHeader /\ origin.len = 0
  <2>1. [pos \in 0 .. MAX_OFFSET |-> 0] \in [0 .. MAX_OFFSET -> Nat]
    OBVIOUS
  <2>2. 0 \in 0 .. MAX_OFFSET
    BY Sizes
  <2> QED
    BY <1>1, <2>1, <2>2, ValueSizes DEF EmptyOrigin, Origin
<1>3. \A i \in 0 .. FANOUT - 1 : ReadSlot(origin, ROOT_OFFSET, i) = ABSENT
  <2> SUFFICES ASSUME NEW i \in 0 .. FANOUT - 1
               PROVE  ReadSlot(origin, ROOT_OFFSET, i) = ABSENT
    OBVIOUS
  <2>1. SlotPos(ROOT_OFFSET, i) \in 0 .. MAX_OFFSET
    BY Sizes DEF SlotPos
  <2> QED
    BY <1>1, <2>1, Sizes DEF ReadSlot, EmptyOrigin
<1>4. /\ Tree(origin) /\ NodesOf(origin) = {ROOT_OFFSET} /\ RecordsOf(origin) = {}
      /\ Stored(origin) = {} /\ IsFiniteSet(Stored(origin))
      /\ Cardinality(Stored(origin)) = 0
  BY <1>3, BareRoot, EmptyStored
<1>5. TypeInv
  <2>1. NONE \in Answers /\ 0 \in 0 .. MAX_FAULTS
    BY StoreAssumption DEF Answers
  <2> QED
    BY <1>1, <1>2, <2>1, IdleType, ValueSizes DEF TypeInv
<1>6. OpNamed /\ ~ At("clear_header")
  BY <1>1, IdleType DEF OpNamed, At, PutPlaces, RemovePlaces
<1>7. HeaderSound /\ StrategySound
  BY <1>1, <1>2, ValueSizes, Sizes DEF HeaderSound, StrategySound
<1>8. SomeFreeList
  <2>1. NodesHeld = {ROOT_OFFSET} /\ RecordsHeld = {}
    BY <1>1, <1>4, IdleType DEF NodesHeld, RecordsHeld, At
  <2> QED
    BY <1>1, <2>1, FreshSpans, ValueSizes DEF SomeFreeList, Sound
<1>9. InFlight
  BY <1>1, IdleType DEF InFlight, At
<1>10. Counted
  BY <1>1, <1>4, IdleType DEF Counted, Ahead, Behind, At
<1>11. Marked
  <2>1. origin.word[ROOT_OFFSET] = 0
    BY <1>1, Sizes DEF EmptyOrigin
  <2> QED
    BY <1>1, <1>3, <1>4, <2>1, NoBits, IdleType DEF Marked, MarkedAt, At
<1> QED
  BY <1>4, <1>5, <1>6, <1>7, <1>8, <1>9, <1>10, <1>11 DEF IInv, WholeInv

(* Only an answer, a flag or the place between two operations changes. *)
LEMMA OriginKept ==
  ASSUME IInv, TypeInv', OpNamed',
         strategy' = strategy \/ strategy' = [strategy EXCEPT !.record_count = len],
         origin' = origin, len' = len, unmarked' = unmarked, faults' \in Nat, faults <= faults',
         "spans" \in wounds' <=> "spans" \in wounds,
         op.at \in {"idle", "sync"}, op'.at \in {"idle", "sync", "locate"}
  PROVE  IInv'
<1>1. origin' = origin
  OBVIOUS
<1>2. strategy'.bump = strategy.bump /\ strategy'.free_head = strategy.free_head
  BY DEF IInv, TypeInv, Header
<1>3. HeaderSound' /\ StrategySound'
  BY <1>1, <1>2 DEF IInv, HeaderSound, StrategySound
<1>4. SUFFICES ASSUME Whole' PROVE WholeInv'
  BY <1>3 DEF IInv
<1>5. Whole
  BY <1>4 DEF Whole, At
<1>6. Tree(origin) /\ SomeFreeList /\ Counted /\ Marked
  BY <1>5, Holds
<1>7. SomeFreeList'
  <2>1. NodesHeld' = NodesHeld /\ RecordsHeld' = RecordsHeld
    BY <1>1 DEF NodesHeld, RecordsHeld, At
  <2> QED
    BY <1>1, <1>2, <1>6, <2>1 DEF SomeFreeList, Sound
<1>8. InFlight'
  BY DEF InFlight, At
<1>9. Counted'
  <2>1. IsFiniteSet(Stored(origin)) /\ Cardinality(Stored(origin)) \in Nat
        /\ faults \in Nat /\ len \in Nat
    BY <1>6, FS_CardinalityType DEF Counted, IInv, TypeInv
  <2>2. len <= Cardinality(Stored(origin)) /\ Cardinality(Stored(origin)) <= len + faults
    BY <1>6, <2>1 DEF Counted, Ahead, Behind, At
  <2> QED
    BY <1>1, <2>1, <2>2 DEF Counted, Ahead, Behind, At
<1>10. Marked'
  BY <1>1, <1>6, MarkedKept DEF BitPlaces
<1> QED
  BY <1>1, <1>6, <1>7, <1>8, <1>9, <1>10 DEF WholeInv
LEMMA PutTooLargeInv ==
  ASSUME IInv, NEW v \in Payloads, PutTooLarge(v) PROVE IInv'
<1>1. /\ At("idle") /\ result' = TOO_LARGE
      /\ UNCHANGED <<strategy, origin, len, dirty, op, synced, faults, wounds, unmarked, torn>>
  BY DEF PutTooLarge
<1>2. TypeInv' /\ OpNamed'
  BY <1>1 DEF IInv, TypeInv, OpNamed
<1> QED
  BY <1>1, <1>2, OriginKept DEF At, IInv, TypeInv

LEMMA RemoveNothingInv ==
  ASSUME IInv, NEW p \in Paths, RemoveNothing(p) PROVE IInv'
<1>1. /\ At("idle") /\ result' \in {NONE, FAILED}
      /\ UNCHANGED <<strategy, origin, len, dirty, op, synced, faults, wounds, unmarked, torn>>
  BY DEF RemoveNothing
<1>2. NONE \in Answers
  BY DEF Answers
<1>3. TypeInv' /\ OpNamed'
  BY <1>1, <1>2 DEF IInv, TypeInv, OpNamed
<1> QED
  BY <1>1, <1>3, OriginKept DEF At, IInv, TypeInv

LEMMA RemoveFailsInv ==
  ASSUME IInv, RemoveFails PROVE IInv'
<1>1. /\ At("idle") /\ result' = FAILED
      /\ faults < MAX_FAULTS /\ faults' = faults + 1
      /\ UNCHANGED <<strategy, origin, len, dirty, op, synced, wounds, unmarked, torn>>
  BY DEF RemoveFails, FailsUnchanged
<1>2. faults \in Nat /\ faults' \in 0 .. MAX_FAULTS /\ faults <= faults'
  BY <1>1, StoreAssumption DEF IInv, TypeInv
<1>3. TypeInv' /\ OpNamed'
  BY <1>1, <1>2 DEF IInv, TypeInv, OpNamed
<1> QED
  BY <1>1, <1>2, <1>3, OriginKept DEF At

LEMMA PutInv ==
  ASSUME IInv, NEW p \in Paths, NEW v \in Payloads, Put(p, v) PROVE IInv'
<1>1. /\ At("idle") /\ Len(v) <= MaxValueLen
      /\ op' = [Idle EXCEPT !.at = "locate", !.name = "put", !.path = p, !.value = v]
      /\ UNCHANGED <<strategy, origin, len, dirty, result, synced, faults, wounds, unmarked, torn>>
  BY DEF Put
<1>2. /\ op' \in Op
      /\ op'.at = "locate" /\ op'.name = "put" /\ op'.path = p /\ op'.value = v
  <2>1. "locate" \in Places /\ "put" \in Names /\ v \in Seq(Nat)
    BY ValueSizes DEF Places, PutPlaces, Names
  <2> QED
    BY <1>1, <2>1, IdleType DEF Op
<1>3. TypeInv'
  BY <1>1, <1>2 DEF IInv, TypeInv
<1>4. OpNamed'
  BY <1>1, <1>2 DEF OpNamed, PutPlaces, RemovePlaces
<1> QED
  BY <1>1, <1>2, <1>3, <1>4, OriginKept DEF At, IInv, TypeInv

(***************************************************************************)
(* Flush and reopen.                                                       *)
(***************************************************************************)
LEMMA FlushOriginInv ==
  ASSUME IInv, FlushOrigin PROVE IInv'
<1>1. At("sync") /\ wounds \subseteq {"header", "spans"} /\ faults \in 0 .. MAX_FAULTS
      /\ strategy \in Header /\ StrategySound
  BY DEF FlushOrigin, IInv, TypeInv
<1>2. CASE Fails("flush", strategy)
  <2>1. Abort("flush", strategy) /\ faults' \in 0 .. MAX_FAULTS /\ faults <= faults'
    BY <1>1, <1>2, StoreAssumption DEF Fails
  <2>2. /\ TypeInv' /\ OpNamed' /\ op'.at = "idle"
        /\ "spans" \in wounds' <=> "spans" \in wounds
    BY <1>1, <2>1, AbortFrame DEF StrategySound
  <2> QED
    BY <1>1, <2>1, <2>2, OriginKept DEF Abort, Cut, BitPlaces, At
<1>3. CASE ~ Fails("flush", strategy)
  <2>1. /\ dirty' = FALSE /\ synced' = TRUE /\ op' = Idle /\ wounds' = wounds \ {"header"}
        /\ UNCHANGED <<strategy, origin, len, result, faults, unmarked, torn>>
    BY <1>3 DEF FlushOrigin
  <2>2. TypeInv'
    BY <1>1, <2>1, IdleType DEF IInv, TypeInv
  <2>3. OpNamed'
    BY <2>1, IdleType DEF OpNamed, PutPlaces, RemovePlaces
  <2> QED
    BY <1>1, <2>1, <2>2, <2>3, IdleType, OriginKept DEF At
<1> QED
  BY <1>2, <1>3

LEMMA FlushInv ==
  ASSUME IInv, Flush PROVE IInv'
<1> DEFINE counted == [strategy EXCEPT !.record_count = len]
<1>1. At("idle") /\ wounds \subseteq {"header", "spans"} /\ faults \in 0 .. MAX_FAULTS
      /\ strategy \in Header /\ StrategySound /\ len \in Nat /\ origin \in Origin
  BY DEF Flush, IInv, TypeInv
<1>2. /\ counted \in Header /\ counted.bump = strategy.bump
      /\ counted.free_head = strategy.free_head
  BY <1>1 DEF Header
<1>3. CASE Fails("flush", counted)
  <2> HIDE DEF counted
  <2>1. Abort("flush", counted) /\ faults' \in 0 .. MAX_FAULTS /\ faults <= faults'
    BY <1>1, <1>3, StoreAssumption DEF Fails
  <2>2. /\ TypeInv' /\ OpNamed' /\ op'.at = "idle"
        /\ "spans" \in wounds' <=> "spans" \in wounds
    BY <1>1, <1>2, <2>1, AbortFrame DEF StrategySound
  <2> QED
    BY <1>1, <2>1, <2>2, OriginKept DEF Abort, Cut, BitPlaces, At, counted
<1>4. CASE ~ Fails("flush", counted)
  <2>1. /\ strategy' = counted /\ origin' = WriteHeader(origin, counted) /\ synced' = FALSE
        /\ op' = [Idle EXCEPT !.at = "sync", !.name = "flush"]
        /\ UNCHANGED <<len, dirty, result, faults, wounds, unmarked, torn>>
    BY <1>1, <1>4 DEF Flush, Writes, BitPlaces, At
  <2> HIDE DEF counted
  <2>2. /\ origin' \in Origin /\ origin'.word = origin.word /\ origin'.header = counted
        /\ origin.len <= origin'.len
    <3>1. Later(origin.len, ROOT_OFFSET) \in 0 .. MAX_OFFSET
          /\ origin.len <= Later(origin.len, ROOT_OFFSET)
      BY <1>1, Sizes DEF Later, Origin
    <3> QED
      BY <1>1, <1>2, <2>1, <3>1 DEF WriteHeader, Origin
  <2>3. op' \in Op /\ op'.at = "sync" /\ op'.name = "flush"
    <3>1. "sync" \in Places /\ "flush" \in Names
      BY DEF Places, Names
    <3> QED
      BY <2>1, <3>1, IdleType DEF Op
  <2>4. TypeInv'
    BY <1>1, <1>2, <2>1, <2>2, <2>3 DEF IInv, TypeInv
  <2>5. OpNamed'
    BY <2>3 DEF OpNamed, PutPlaces, RemovePlaces
  <2>6. /\ strategy.free_head \in Nat /\ origin.len \in Nat /\ origin'.len \in Nat
    BY <1>1, <2>2 DEF Header, Origin
  <2>7. HeaderSound' /\ StrategySound'
    BY <1>1, <1>2, <2>1, <2>2, <2>6 DEF StrategySound, HeaderSound
  <2>8. SUFFICES ASSUME Whole' PROVE WholeInv'
    BY <2>4, <2>5, <2>7 DEF IInv
  <2>9. Whole
    BY <2>1, <2>3, <2>8 DEF Whole, At
  <2>10. Tree(origin) /\ SomeFreeList /\ Counted /\ Marked
    BY <2>9, Holds
  <2>11. /\ SameTree(origin, origin')
         /\ \A m \in NodesOf(origin), i \in 0 .. FANOUT - 1 :
              /\ ReadSlot(origin', m, i) = ReadSlot(origin, m, i)
              /\ InBitmap(origin', m, i) <=> InBitmap(origin, m, i)
    <3>1. \A m \in NodesOf(origin), i \in 0 .. FANOUT - 1 :
              /\ ReadSlot(origin', m, i) = ReadSlot(origin, m, i)
              /\ InBitmap(origin', m, i) <=> InBitmap(origin, m, i)
      BY <2>2 DEF ReadSlot, InBitmap
    <3> QED
      BY <1>1, <2>2, <2>10, <3>1, SlotsKeptSame
  <2>12. SomeFreeList'
    <3>1. PICK n \in Nat : \E f \in [1 .. n -> Nat] : Sound(n, f)
      BY <2>10 DEF SomeFreeList
    <3>2. PICK f \in [1 .. n -> Nat] : Sound(n, f)
      BY <3>1
    <3>3. NodesHeld' = NodesHeld /\ RecordsHeld' = RecordsHeld
      BY <1>1, <2>3, <2>11 DEF NodesHeld, RecordsHeld, At, SameTree
    <3>4. \A i \in 1 .. n : f[i] < origin'.len
      BY <2>2, <2>6, <3>2 DEF Sound, Chain
    <3>5. Chain(origin', strategy'.free_head, n, f)
      BY <1>2, <2>1, <2>2, <3>2, <3>4 DEF Sound, Chain
    <3>6. Sound(n, f)'
      BY <1>2, <2>1, <3>2, <3>3, <3>5 DEF Sound
    <3> QED
      BY <3>6 DEF SomeFreeList
  <2>13. InFlight'
    BY <2>3 DEF InFlight, At
  <2>14. Counted'
    BY <1>1, <2>1, <2>3, <2>10, <2>11 DEF Counted, Ahead, Behind, At, SameTree
  <2>15. Marked'
    BY <1>1, <2>1, <2>3, <2>10, <2>11, MarkedKept DEF BitPlaces, At, SameTree
  <2> QED
    BY <2>11, <2>12, <2>13, <2>14, <2>15 DEF WholeInv, SameTree
<1> QED
  BY <1>3, <1>4

(* A reopen takes up the strategy there was. *)
(* A covered reopen finds the header current. *)
LEMMA ReopensCurrent ==
  ASSUME Covered, DirtyTracksHeader, Reopen
  PROVE  LoadOrNew(origin) = [strategy EXCEPT !.record_count = len] /\ At("idle")
<1>1. ReopenWhen \in {"clean", "flushed"}
  BY StoreAssumption DEF Covered
<1>2. CASE ReopenWhen = "clean"
  <2>1. At("idle") /\ ~ dirty
    BY <1>2 DEF Reopen
  <2>2. "header" \notin wounds
    BY <1>2 DEF Covered
  <2> QED
    BY <2>1, <2>2 DEF DirtyTracksHeader, HeaderIsCurrent
<1>3. CASE ReopenWhen = "flushed"
  BY <1>3 DEF Reopen, HeaderIsCurrent
<1> QED
  BY <1>1, <1>2, <1>3

LEMMA ReopenInv ==
  ASSUME IInv, Covered, DirtyTracksHeader, Reopen PROVE IInv'
<1>1. /\ LoadOrNew(origin) = [strategy EXCEPT !.record_count = len]
      /\ At("idle")
  BY ReopensCurrent
<1>2. /\ strategy \in Header /\ len \in Nat /\ wounds \subseteq {"header", "spans"}
      /\ faults \in 0 .. MAX_FAULTS
  BY DEF IInv, TypeInv
<1>3. /\ strategy' = [strategy EXCEPT !.record_count = len]
      /\ len' = strategy'.record_count
      /\ dirty' = FALSE /\ op' = Idle /\ wounds' = wounds \ {"header"}
      /\ UNCHANGED <<origin, result, synced, faults, unmarked, torn>>
  BY <1>1 DEF Reopen, Cut, BitPlaces, At
<1>4. strategy' \in Header /\ len' = len
  BY <1>2, <1>3 DEF Header
<1>5. TypeInv'
  BY <1>2, <1>3, <1>4, IdleType DEF IInv, TypeInv
<1>6. OpNamed'
  BY <1>3, IdleType DEF OpNamed, PutPlaces, RemovePlaces
<1> QED
  BY <1>1, <1>2, <1>3, <1>4, <1>5, <1>6, IdleType, OriginKept DEF At
(***************************************************************************)
(* The steps of a put.                                                     *)
(***************************************************************************)
LEMMA PlaceWhole ==
  ASSUME IInv, ThenCleared, op.at \in PutPlaces \cup RemovePlaces \cup {"sync"}
  PROVE  "spans" \notin wounds /\ Whole
BY DEF IInv, OpNamed, ThenCleared, Whole, PutPlaces, RemovePlaces

(* A put goes on. *)
LEMMA PutGoes ==
  ASSUME IInv, op.at \in PutPlaces, op' \in Op, op'.at \in PutPlaces,
         op'.name = op.name, op'.path = op.path, op'.value = op.value
  PROVE  OpNamed'
BY DEF IInv, OpNamed, PutPlaces, RemovePlaces

(* A write into what the store holds leaves the free list as it is. *)
LEMMA FreeListAfter ==
  ASSUME IInv, Whole, strategy' = strategy,
         NEW lo \in Nat, NEW size \in Nat, Wrote(origin, origin', lo, size),
         NodesHeld' \in SUBSET NodesHeld, RecordsHeld' \in SUBSET RecordsHeld,
         \/ \E m \in NodesHeld : m <= lo /\ lo + size <= m + NODE_SIZE
         \/ \E r \in RecordsHeld : r <= lo /\ lo + size <= r + RECORD_SLOT_SIZE
  PROVE  SomeFreeList'
<1>1. /\ origin \in Origin /\ strategy \in Header /\ SomeFreeList
      /\ NodesHeld \in SUBSET Nat /\ RecordsHeld \in SUBSET Nat
      /\ strategy.bump \in Nat /\ strategy.bump <= MAX_OFFSET
  BY Holds
<1>2. PICK n \in Nat : \E f \in [1 .. n -> Nat] : Sound(n, f)
  BY <1>1 DEF SomeFreeList
<1>3. PICK f \in [1 .. n -> Nat] : Sound(n, f)
  BY <1>2
<1>4. /\ Chain(origin, strategy.free_head, n, f)
      /\ Laid(strategy.bump, NodesHeld, RecordsHeld, n, f)
  BY <1>3 DEF Sound
<1>5. \A i \in 1 .. n : Apart(f[i], RECORD_SLOT_SIZE, lo, size)
  <2>1. CASE \E m \in NodesHeld : m <= lo /\ lo + size <= m + NODE_SIZE
    BY <1>1, <1>4, <2>1, InsideNode
  <2>2. CASE \E r \in RecordsHeld : r <= lo /\ lo + size <= r + RECORD_SLOT_SIZE
    BY <1>1, <1>4, <2>2, InsideRecord
  <2> QED
    BY <2>1, <2>2
<1>6. Chain(origin', strategy.free_head, n, f)
  BY <1>1, <1>4, <1>5, ChainKept
<1>7. Laid(strategy.bump, NodesHeld', RecordsHeld', n, f)
  BY <1>1, <1>4, LaidFewer
<1>8. Sound(n, f)'
  BY <1>6, <1>7 DEF Sound
<1> QED
  BY <1>8 DEF SomeFreeList

(* A write into a record the store holds leaves the tree as it is. *)
LEMMA RecordWritten ==
  ASSUME IInv, Whole, NEW r \in RecordsHeld, NEW lo \in Nat, NEW size \in Nat,
         r <= lo, lo + size <= r + RECORD_SLOT_SIZE, Wrote(origin, origin', lo, size)
  PROVE  /\ SameTree(origin, origin')
         /\ \A m \in NodesOf(origin), i \in 0 .. FANOUT - 1 :
              /\ ReadSlot(origin', m, i) = ReadSlot(origin, m, i)
              /\ InBitmap(origin', m, i) <=> InBitmap(origin, m, i)
         /\ \A s \in RecordsHeld : s # r => Apart(s, RECORD_SLOT_SIZE, lo, size)
<1>1. /\ origin \in Origin /\ Tree(origin) /\ SomeFreeList
      /\ NodesHeld \in SUBSET Nat /\ RecordsHeld \in SUBSET Nat
      /\ strategy.bump \in Nat
  BY Holds
<1>2. PICK n \in Nat : \E f \in [1 .. n -> Nat] : Sound(n, f)
  BY <1>1 DEF SomeFreeList
<1>3. PICK f \in [1 .. n -> Nat] : Sound(n, f)
  BY <1>2
<1>4. Laid(strategy.bump, NodesHeld, RecordsHeld, n, f)
  BY <1>3 DEF Sound
<1>5. \A m \in NodesHeld : Apart(m, NODE_SIZE, lo, size)
  BY <1>1, <1>4, InsideRecord
<1>6. ASSUME NEW s \in RecordsHeld, s # r PROVE Apart(s, RECORD_SLOT_SIZE, lo, size)
  <2>1. Apart(s, RECORD_SLOT_SIZE, r, RECORD_SLOT_SIZE)
    BY <1>4, <1>6 DEF Laid
  <2> QED
    BY <1>1, <2>1, Sizes DEF Apart
<1>7. \A m \in NodesOf(origin) : Apart(m, NODE_SIZE, lo, size)
  BY <1>5 DEF NodesHeld
<1> QED
  BY <1>1, <1>6, <1>7, ApartKept

(* Every span held lies within the offsets. *)
LEMMA HeldBelow ==
  ASSUME IInv, Whole
  PROVE  /\ \A m \in NodesHeld : m >= 1 /\ m + NODE_SIZE <= MAX_OFFSET
         /\ \A m \in NodesHeld : m + NODE_SIZE <= strategy.bump
         /\ \A r \in RecordsHeld : r >= 1 /\ r + RECORD_SLOT_SIZE <= MAX_OFFSET
         /\ \A r \in RecordsHeld : r + RECORD_SLOT_SIZE <= strategy.bump
<1>1. /\ SomeFreeList /\ NodesHeld \in SUBSET Nat /\ RecordsHeld \in SUBSET Nat
      /\ strategy.bump \in Nat
  BY Holds
<1>2. PICK n \in Nat : \E f \in [1 .. n -> Nat] : Sound(n, f)
  BY <1>1 DEF SomeFreeList
<1>3. PICK f \in [1 .. n -> Nat] : Sound(n, f)
  BY <1>2
<1>4. Laid(strategy.bump, NodesHeld, RecordsHeld, n, f)
  BY <1>3 DEF Sound
<1> QED
  BY <1>1, <1>4, Sizes DEF Laid

(* The failing half of every write of a put that keeps the strategy. *)
LEMMA PutFails ==
  ASSUME IInv, Whole, op.at \in PutPlaces, Fails("put", strategy) PROVE IInv'
<1>1. Abort("put", strategy) /\ faults' = faults + 1 /\ faults' \in 0 .. MAX_FAULTS
  BY StoreAssumption DEF Fails, IInv, TypeInv
<1>2. strategy \in Header /\ strategy.bump <= strategy.bump /\ strategy.bump <= MAX_OFFSET
  BY Holds
<1> QED
  BY <1>1, <1>2, PutAborted

LEMMA PutUnreadInv ==
  ASSUME IInv, ThenCleared, PutUnread PROVE IInv'
<1>1. At("locate") /\ Fails("put", strategy)
  BY DEF PutUnread
<1>2. op.at \in PutPlaces
  BY <1>1 DEF At, PutPlaces
<1> QED
  BY <1>1, <1>2, PlaceWhole, PutFails

LEMMA PutRefusedInv ==
  ASSUME IInv, ThenCleared, PutRefused PROVE IInv'
<1>1. At("locate") /\ Abort("put", strategy) /\ faults' = faults
  BY DEF PutRefused
<1>2. op.at \in PutPlaces
  BY <1>1 DEF At, PutPlaces
<1>3. Whole
  BY <1>2, PlaceWhole
<1>4. strategy \in Header /\ strategy.bump \in Nat /\ strategy.bump <= MAX_OFFSET
  BY <1>3, Holds
<1>5. faults' \in 0 .. MAX_FAULTS
  BY <1>1 DEF IInv, TypeInv
<1> QED
  BY <1>1, <1>2, <1>3, <1>4, <1>5, PutAborted

(* A node zeroed at bump is out of the way of all there is. *)
LEMMA NodeZeroed ==
  ASSUME IInv, Whole, At("locate"), NEW b \in Nat, b = strategy.bump,
         b + NODE_SIZE <= MAX_OFFSET, origin' = ZeroNode(origin, b)
  PROVE  /\ origin' \in Origin
         /\ origin'.header = origin.header
         /\ origin.len <= origin'.len /\ b + NODE_SIZE <= origin'.len
         /\ \A p \in 0 .. MAX_OFFSET :
              origin'.word[p] = IF b <= p /\ p < b + NODE_SIZE THEN 0 ELSE origin.word[p]
         /\ Wrote(origin, origin', b, NODE_SIZE)
         /\ SameTree(origin, origin')
         /\ \A m \in NodesOf(origin), i \in 0 .. FANOUT - 1 :
              /\ ReadSlot(origin', m, i) = ReadSlot(origin, m, i)
              /\ InBitmap(origin', m, i) <=> InBitmap(origin, m, i)
         /\ \A m \in NodesOf(origin) : Apart(m, NODE_SIZE, b, NODE_SIZE)
         /\ \A r \in RecordsOf(origin) : Apart(r, RECORD_SLOT_SIZE, b, NODE_SIZE)
<1>1. /\ origin \in Origin /\ Tree(origin) /\ SomeFreeList
      /\ NodesHeld \in SUBSET Nat /\ RecordsHeld \in SUBSET Nat
  BY Holds
<1>2. /\ origin' \in Origin
      /\ origin'.header = origin.header
      /\ origin.len <= origin'.len /\ b + NODE_SIZE <= origin'.len
      /\ \A p \in 0 .. MAX_OFFSET :
           origin'.word[p] = IF b <= p /\ p < b + NODE_SIZE THEN 0 ELSE origin.word[p]
  BY <1>1, ZeroNodeIs
<1>3. Wrote(origin, origin', b, NODE_SIZE)
  BY <1>2, Sizes DEF Wrote
<1>4. PICK n \in Nat : \E f \in [1 .. n -> Nat] : Sound(n, f)
  BY <1>1 DEF SomeFreeList
<1>5. PICK f \in [1 .. n -> Nat] : Sound(n, f)
  BY <1>4
<1>6. /\ \A m \in NodesHeld : Apart(m, NODE_SIZE, b, NODE_SIZE)
      /\ \A r \in RecordsHeld : Apart(r, RECORD_SLOT_SIZE, b, NODE_SIZE)
  BY <1>1, <1>5, PastBump, Sizes DEF Sound
<1>7. NodesHeld = NodesOf(origin) /\ RecordsHeld = RecordsOf(origin)
  BY DEF NodesHeld, RecordsHeld, At
<1>8. /\ SameTree(origin, origin')
      /\ \A m \in NodesOf(origin), i \in 0 .. FANOUT - 1 :
           /\ ReadSlot(origin', m, i) = ReadSlot(origin, m, i)
           /\ InBitmap(origin', m, i) <=> InBitmap(origin, m, i)
  BY <1>1, <1>3, <1>6, <1>7, ApartKept, Sizes
<1> QED
  BY <1>2, <1>3, <1>6, <1>7, <1>8

LEMMA PutAllocNodeInv ==
  ASSUME IInv, ThenCleared, PutAllocNode PROVE IInv'
<1> DEFINE b == strategy.bump
           moved == [strategy EXCEPT !.bump = @ + NODE_SIZE]
<1>1. /\ At("locate") /\ ~ CorruptPath(origin, op.path) /\ ~ Found.at_leaf
      /\ b + NODE_SIZE <= MAX_OFFSET
  BY DEF PutAllocNode
<1>2. op.at \in PutPlaces
  BY <1>1 DEF At, PutPlaces
<1>3. "spans" \notin wounds /\ Whole
  BY <1>2, PlaceWhole
<1>4. /\ origin \in Origin /\ strategy \in Header /\ op \in Op
      /\ Tree(origin) /\ SomeFreeList /\ Counted /\ Marked
      /\ NodesHeld \in SUBSET Nat /\ RecordsHeld \in SUBSET Nat
      /\ b \in Nat
  BY <1>3, Holds
<1>5. /\ moved \in Header /\ moved.bump = b + NODE_SIZE
      /\ moved.free_head = strategy.free_head
  BY <1>4, Sizes DEF Header
<1>6. ASSUME Fails("put", moved) PROVE IInv'
  <2>1. Abort("put", moved) /\ faults' = faults + 1 /\ faults' \in 0 .. MAX_FAULTS
    BY <1>6, StoreAssumption DEF Fails, IInv, TypeInv
  <2>2. strategy.bump <= moved.bump /\ moved.bump <= MAX_OFFSET
    BY <1>1, <1>4, <1>5, Sizes
  <2> HIDE DEF moved
  <2> QED
    BY <1>2, <1>3, <1>5, <2>1, <2>2, PutAborted
<1>7. ASSUME ~ Fails("put", moved) PROVE IInv'
  <2>1. /\ strategy' = moved /\ origin' = ZeroNode(origin, b) /\ synced' = FALSE
        /\ op' = [op EXCEPT !.at = "link",
                            !.slot = [node |-> Found.node, index |-> Found.index],
                            !.target = b]
        /\ UNCHANGED <<len, dirty, result, faults, wounds, unmarked, torn>>
    BY <1>1, <1>7 DEF PutAllocNode, Writes, BitPlaces, At
  <2> DEFINE path == op.path
  <2>2. path \in Path /\ path \in Paths
    BY <1>2, ValueSizes DEF IInv, OpNamed
  <2>3. PICK k \in 1 .. DEPTH :
          /\ \A d \in 1 .. k : NodesTo(origin, path)[d] # ABSENT
          /\ \A d \in k + 1 .. DEPTH : NodesTo(origin, path)[d] = ABSENT
          /\ Locate(origin, path).node = NodesTo(origin, path)[k]
          /\ Locate(origin, path).index = path[k]
          /\ Locate(origin, path).at_leaf <=> k = DEPTH
    BY LocateIs
  <2>4. k \in 1 .. DEPTH - 1 /\ k \in 1 .. k /\ k + 1 \in k + 1 .. DEPTH
    BY <1>1, <2>3, Sizes DEF Found
  <2> DEFINE node == NodesTo(origin, path)[k]
             index == path[k]
             slot == [node |-> node, index |-> index]
  <2>5. /\ node \in Nat /\ node # ABSENT /\ node \in NodesOf(origin)
        /\ index \in 0 .. FANOUT - 1
    BY <1>4, <2>2, <2>3, <2>4, WalkType, InNodesOf, Sizes
  <2>6. ReadSlot(origin, node, index) = ABSENT
    <3>1. NodesTo(origin, path)[k + 1] = StepDown(origin, node, index)
      BY <2>4, WalkStep
    <3>2. StepDown(origin, node, index) = ABSENT
      BY <2>3, <2>4, <3>1
    <3>3. ReadSlot(origin, node, index) # ABSENT
            => ChildInBounds(origin, ReadSlot(origin, node, index))
      BY <1>1, <2>4, <2>5 DEF CorruptPath
    <3> QED
      BY <2>5, <3>2, <3>3 DEF StepDown
  <2>7. /\ op' \in Op /\ op'.at = "link" /\ op'.slot = slot /\ op'.target = b
        /\ op'.name = op.name /\ op'.path = op.path /\ op'.value = op.value
    <3>1. Found.node = node /\ Found.index = index
      BY <2>3 DEF Found
    <3>2. slot \in Slots /\ "link" \in Places
      BY <2>5 DEF Slots, Places, PutPlaces
    <3>3. op' = [op EXCEPT !.at = "link", !.slot = slot, !.target = b]
      BY <2>1, <3>1
    <3> HIDE DEF slot, b
    <3> QED
      BY <1>4, <3>2, <3>3 DEF Op
  <2> HIDE DEF moved
  <2>8. /\ origin' \in Origin
        /\ origin'.header = origin.header
        /\ origin.len <= origin'.len /\ b + NODE_SIZE <= origin'.len
        /\ \A p \in 0 .. MAX_OFFSET :
             origin'.word[p] = IF b <= p /\ p < b + NODE_SIZE THEN 0 ELSE origin.word[p]
    BY <1>1, <1>3, <1>4, <2>1, NodeZeroed
  <2>9. /\ Wrote(origin, origin', b, NODE_SIZE)
        /\ SameTree(origin, origin')
        /\ \A m \in NodesOf(origin), i \in 0 .. FANOUT - 1 :
             /\ ReadSlot(origin', m, i) = ReadSlot(origin, m, i)
             /\ InBitmap(origin', m, i) <=> InBitmap(origin, m, i)
        /\ \A m \in NodesOf(origin) : Apart(m, NODE_SIZE, b, NODE_SIZE)
    BY <1>1, <1>3, <1>4, <2>1, NodeZeroed
  <2>10. PICK n \in Nat : \E f \in [1 .. n -> Nat] : Sound(n, f)
    BY <1>4 DEF SomeFreeList
  <2>11. PICK f \in [1 .. n -> Nat] : Sound(n, f)
    BY <2>10
  <2>12. /\ Chain(origin, strategy.free_head, n, f)
         /\ Laid(b, NodesHeld, RecordsHeld, n, f)
    BY <2>11 DEF Sound
  <2>13. \A i \in 1 .. n : Apart(f[i], RECORD_SLOT_SIZE, b, NODE_SIZE)
    BY <1>4, <2>12, PastBump, Sizes
  <2>14. NodesHeld = NodesOf(origin) /\ RecordsHeld = RecordsOf(origin)
    BY <1>1 DEF NodesHeld, RecordsHeld, At
  <2>16. SomeFreeList'
    <3>1. Chain(origin', strategy.free_head, n, f)
      BY <1>4, <2>9, <2>12, <2>13, ChainKept, Sizes
    <3>2. NodesHeld' = NodesHeld \cup {b} /\ RecordsHeld' = RecordsHeld
      BY <2>7, <2>14, <2>9 DEF NodesHeld, RecordsHeld, At, SameTree
    <3>3. Laid(b + NODE_SIZE, NodesHeld', RecordsHeld', n, f)
      BY <1>1, <1>4, <2>12, <3>2, LaidNode
    <3>4. Sound(n, f)'
      BY <1>5, <2>1, <3>1, <3>3 DEF Sound
    <3> QED
      BY <3>4 DEF SomeFreeList
  <2>17. InFlight'
    <3>1. NodesTo(origin', path)[k] = node
      BY <2>2, <2>4, <2>9, Sizes DEF SameTree, SameWay
    <3>2. ReadSlot(origin', node, index) = ABSENT
      BY <2>5, <2>6, <2>9
    <3>3. b # ABSENT /\ b \notin NodesOf(origin')
      <4>1. b \notin NodesOf(origin)
        BY <1>4, <2>9, Sizes DEF Apart
      <4>2. b # ABSENT
        BY <1>4, Sizes DEF IInv, StrategySound
      <4> QED
        BY <2>9, <4>1, <4>2 DEF SameTree
    <3>4. ASSUME NEW i \in 0 .. FANOUT - 1 PROVE ReadSlot(origin', b, i) = ABSENT
      <4>1. SlotPos(b, i) \in 0 .. MAX_OFFSET
            /\ b <= SlotPos(b, i) /\ SlotPos(b, i) < b + NODE_SIZE
        BY <1>1, <1>4, Sizes DEF SlotPos
      <4> QED
        BY <2>8, <4>1, Sizes DEF ReadSlot
    <3>5. op'.slot.node = node /\ op'.slot.index = index
      BY <2>7
    <3>7. origin'.word[b] = 0
      <4>1. b \in 0 .. MAX_OFFSET /\ b <= b /\ b < b + NODE_SIZE
        BY <1>1, <1>4, Sizes
      <4> HIDE DEF b
      <4> QED
        BY <2>8, <4>1
    <3>6. \E j \in 1 .. DEPTH - 1 :
            /\ NodesTo(origin', op'.path)[j] # ABSENT
            /\ op'.slot = [node |-> NodesTo(origin', op'.path)[j], index |-> op'.path[j]]
      BY <2>4, <2>5, <2>7, <3>1
    <3> HIDE DEF node, index, slot, b
    <3> QED
      BY <2>7, <2>8, <3>2, <3>3, <3>4, <3>5, <3>6, <3>7 DEF InFlight, At, b
  <2>18. Counted'
    BY <1>1, <1>4, <2>1, <2>7, <2>9 DEF Counted, Ahead, Behind, At, SameTree
  <2>19. Marked'
    BY <1>1, <1>4, <2>1, <2>7, <2>9, MarkedKept DEF BitPlaces, At, SameTree
  <2>20. TypeInv'
    BY <1>5, <2>1, <2>7, <2>8 DEF IInv, TypeInv
  <2>21. OpNamed'
    <3>1. op'.at \in PutPlaces
      BY <2>7 DEF PutPlaces
    <3> QED
      BY <1>2, <2>7, <3>1, PutGoes
  <2>22. HeaderSound' /\ StrategySound'
    <3>1. /\ strategy.free_head \in Nat /\ origin.len \in Nat /\ origin'.len \in Nat
          /\ origin.header.free_head \in Nat
      BY <1>4, <2>8 DEF Header, Origin
    <3>2. HeaderSound'
      BY <2>8, <3>1 DEF IInv, HeaderSound
    <3>3. StrategySound'
      BY <1>4, <1>5, <2>1, <2>8, <3>1, Sizes DEF IInv, StrategySound
    <3> QED
      BY <3>2, <3>3
  <2> QED
    BY <2>9, <2>16, <2>17, <2>18, <2>19, <2>20, <2>21, <2>22 DEF IInv, WholeInv, SameTree
<1> QED
  BY <1>6, <1>7

LEMMA WordWritten ==
  ASSUME NEW o \in Origin, NEW pos \in Nat, NEW v \in Nat, pos + 1 <= MAX_OFFSET,
         NEW w, w = WriteWords(o, pos, <<v>>)
  PROVE  Wrote(o, w, pos, 1) /\ w.word[pos] = v /\ pos + 1 <= w.len
<1>1. /\ w \in Origin
      /\ w.header = o.header
      /\ o.len <= w.len /\ pos + 1 <= w.len
      /\ w.word[pos] = v
      /\ \A p \in 0 .. MAX_OFFSET : p # pos => w.word[p] = o.word[p]
  BY WriteWordIs
<1>2. \A p \in 0 .. MAX_OFFSET : p < pos \/ pos + 1 <= p => p # pos
  OBVIOUS
<1> QED
  BY <1>1, <1>2 DEF Wrote

LEMMA SlotWordWritten ==
  ASSUME NEW o \in Origin, NEW slot \in Slots, slot.index \in 0 .. FANOUT - 1,
         slot.node + NODE_SIZE <= MAX_OFFSET, NEW v \in Nat,
         NEW w, w = WriteSlotWord(o, slot, v)
  PROVE  /\ SlotPos(slot.node, slot.index) \in Nat
         /\ slot.node <= SlotPos(slot.node, slot.index)
         /\ SlotPos(slot.node, slot.index) + 1 <= slot.node + NODE_SIZE
         /\ Wrote(o, w, SlotPos(slot.node, slot.index), 1)
         /\ ReadSlot(w, slot.node, slot.index) = v
         /\ \A pos \in 0 .. MAX_OFFSET :
              pos # SlotPos(slot.node, slot.index) => w.word[pos] = o.word[pos]
<1> DEFINE pos == SlotPos(slot.node, slot.index)
<1>1. /\ pos \in Nat /\ slot.node <= pos /\ pos + 1 <= slot.node + NODE_SIZE
      /\ pos + 1 <= MAX_OFFSET
  BY Sizes DEF SlotPos, Slots
<1>2. w = WriteWords(o, pos, <<v>>)
  BY DEF WriteSlotWord
<1> HIDE DEF pos
<1>3. Wrote(o, w, pos, 1) /\ w.word[pos] = v
  BY <1>1, <1>2, WordWritten
<1>4. \A p \in 0 .. MAX_OFFSET : p # pos => w.word[p] = o.word[p]
  BY <1>1, <1>3 DEF Wrote
<1> QED
  BY <1>1, <1>3, <1>4 DEF pos, ReadSlot

(* The new node hangs from the tree, and no record has moved. *)
LEMMA NodeLinked ==
  ASSUME IInv, Whole, At("link"), origin' = WriteSlotWord(origin, op.slot, op.target)
  PROVE  /\ op.slot.node \in NodesOf(origin) /\ op.slot.index \in 0 .. FANOUT - 1
         /\ op.slot = [node |-> op.slot.node, index |-> op.slot.index]
         /\ op.target # ABSENT
         /\ Tree(origin') /\ NodesOf(origin') = NodesOf(origin) \cup {op.target}
         /\ \A p \in Path : RecordAt(origin', p) = RecordAt(origin, p)
         /\ \A i \in 0 .. FANOUT - 1 : ReadSlot(origin', op.target, i) = ABSENT
         /\ \A i \in 0 .. FANOUT - 1 : ~ InBitmap(origin', op.target, i)
         /\ ReadSlot(origin', op.slot.node, op.slot.index) = op.target
         /\ \E lo \in Nat :
              /\ Wrote(origin, origin', lo, 1)
              /\ op.slot.node <= lo /\ lo + 1 <= op.slot.node + NODE_SIZE
         /\ \A m \in NodesOf(origin), i \in 0 .. FANOUT - 1 :
              /\ ~ (m = op.slot.node /\ i = op.slot.index) =>
                   ReadSlot(origin', m, i) = ReadSlot(origin, m, i)
              /\ InBitmap(origin', m, i) <=> InBitmap(origin, m, i)
<1> DEFINE q == op.path
           c == op.target
           s == op.slot
           pos == SlotPos(s.node, s.index)
<1>1. /\ origin \in Origin /\ op \in Op
      /\ Tree(origin) /\ SomeFreeList /\ InFlight
      /\ NodesSpaced(origin)
  BY Holds
<1>2. /\ ReadSlot(origin, s.node, s.index) = ABSENT
      /\ c # ABSENT /\ c \notin NodesOf(origin) /\ c + NODE_SIZE <= origin.len
      /\ \A i \in 0 .. FANOUT - 1 : ReadSlot(origin, c, i) = ABSENT
      /\ origin.word[c] = 0
  BY <1>1 DEF InFlight
<1>3. PICK k \in 1 .. DEPTH - 1 :
        /\ NodesTo(origin, q)[k] # ABSENT
        /\ s = [node |-> NodesTo(origin, q)[k], index |-> q[k]]
  BY <1>1 DEF InFlight
<1>4. s.node = NodesTo(origin, q)[k] /\ s.index = q[k]
      /\ s = [node |-> s.node, index |-> s.index]
  BY <1>3
<1>5. q \in Path /\ k \in 1 .. DEPTH /\ c \in Nat /\ s \in Slots
  <2>1. op.at \in PutPlaces
    BY DEF At, PutPlaces
  <2> QED
    BY <1>1, <2>1, ValueSizes, OpFields, Sizes DEF IInv, OpNamed
<1>6. /\ s.node \in NodesOf(origin) /\ s.index \in 0 .. FANOUT - 1
      /\ s.node \in Nat /\ s.node + NODE_SIZE <= MAX_OFFSET
  BY <1>1, <1>3, <1>4, <1>5, InNodesOf, NodeType, Sizes
<1>7. /\ pos \in Nat /\ s.node <= pos /\ pos + 1 <= s.node + NODE_SIZE
      /\ Wrote(origin, origin', pos, 1)
      /\ ReadSlot(origin', s.node, s.index) = c
      /\ \A p \in 0 .. MAX_OFFSET : p # pos => origin'.word[p] = origin.word[p]
  <2> HIDE DEF s, c
  <2> QED
    BY <1>1, <1>5, <1>6, SlotWordWritten DEF s, c
<1> HIDE DEF q, c, s
<1>8. /\ \A i \in 0 .. FANOUT - 1 : ReadSlot(origin', c, i) = ABSENT
      /\ \A i \in 0 .. FANOUT - 1 : ~ InBitmap(origin', c, i)
  <2>1. NodesHeld = NodesOf(origin) \cup {c}
    BY DEF NodesHeld, c
  <2>2. Apart(s.node, NODE_SIZE, c, NODE_SIZE) /\ c + NODE_SIZE <= MAX_OFFSET
    <3>1. PICK n \in Nat : \E f \in [1 .. n -> Nat] : Sound(n, f)
      BY <1>1 DEF SomeFreeList
    <3>2. PICK f \in [1 .. n -> Nat] : Sound(n, f)
      BY <3>1
    <3>3. Apart(s.node, NODE_SIZE, c, NODE_SIZE)
      BY <1>2, <1>6, <2>1, <3>2 DEF Sound, Laid
    <3> QED
      BY <2>1, <3>3, HeldBelow
  <2>3. ASSUME NEW i \in 0 .. FANOUT - 1 PROVE ReadSlot(origin', c, i) = ABSENT
    <3>1. SlotPos(c, i) \in 0 .. MAX_OFFSET /\ SlotPos(c, i) # pos
      BY <1>5, <1>6, <1>7, <2>2, Sizes DEF SlotPos, Apart
    <3> QED
      BY <1>2, <1>7, <3>1 DEF ReadSlot
  <2>4. \A i \in 0 .. FANOUT - 1 : ~ InBitmap(origin', c, i)
    <3>1. c \in 0 .. MAX_OFFSET /\ c # pos
      BY <1>5, <1>6, <1>7, <2>2, Sizes DEF Apart
    <3>2. origin'.word[c] = 0
      BY <1>2, <1>7, <3>1
    <3> QED
      BY <3>2, NoBits
  <2> QED
    BY <2>3, <2>4
<1>9. /\ Tree(origin')
      /\ \A p \in Path : RecordAt(origin', p) = RecordAt(origin, p)
      /\ NodesOf(origin') = NodesOf(origin) \cup {c}
  <2>1. origin' \in Origin /\ origin.len <= origin'.len
    BY <1>7 DEF Wrote
  <2>2. c + NODE_SIZE <= origin'.len
    BY <1>1, <1>2, <1>5, <2>1, Sizes DEF Origin
  <2> QED
    BY <1>1, <1>2, <1>3, <1>4, <1>5, <1>7, <1>8, <2>1, <2>2, ChildLinked
<1>10. \A m \in NodesOf(origin), i \in 0 .. FANOUT - 1 :
         /\ ~ (m = s.node /\ i = s.index) =>
              ReadSlot(origin', m, i) = ReadSlot(origin, m, i)
         /\ InBitmap(origin', m, i) <=> InBitmap(origin, m, i)
  BY <1>1, <1>6, <1>7, SlotWritten
<1> HIDE DEF pos
<1> QED
  BY <1>2, <1>4, <1>6, <1>7, <1>8, <1>9, <1>10 DEF s, c

LEMMA PutLinkNodeInv ==
  ASSUME IInv, ThenCleared, PutLinkNode PROVE IInv'
<1>1. At("link")
  BY DEF PutLinkNode
<1>2. op.at \in PutPlaces
  BY <1>1 DEF At, PutPlaces
<1>3. "spans" \notin wounds /\ Whole
  BY <1>2, PlaceWhole
<1>4. op \in Op /\ Tree(origin) /\ InFlight /\ Counted /\ Marked
  BY <1>3, Holds
<1>5. CASE Fails("put", strategy)
  BY <1>2, <1>3, <1>5, PutFails
<1>6. CASE ~ Fails("put", strategy)
  <2> DEFINE c == op.target
             s == op.slot
  <2>1. /\ origin' = WriteSlotWord(origin, s, c) /\ synced' = FALSE
        /\ Go("link_bit")
        /\ UNCHANGED <<strategy, len, dirty, result, faults, wounds, unmarked, torn>>
    BY <1>1, <1>6 DEF PutLinkNode, Writes, BitPlaces, At
  <2>2. /\ s.node \in NodesOf(origin) /\ s.index \in 0 .. FANOUT - 1
        /\ s = [node |-> s.node, index |-> s.index]
        /\ c # ABSENT
        /\ Tree(origin') /\ NodesOf(origin') = NodesOf(origin) \cup {c}
        /\ \A p \in Path : RecordAt(origin', p) = RecordAt(origin, p)
        /\ \A i \in 0 .. FANOUT - 1 : ReadSlot(origin', c, i) = ABSENT
        /\ \A i \in 0 .. FANOUT - 1 : ~ InBitmap(origin', c, i)
        /\ ReadSlot(origin', s.node, s.index) = c
        /\ \E lo \in Nat :
             /\ Wrote(origin, origin', lo, 1)
             /\ s.node <= lo /\ lo + 1 <= s.node + NODE_SIZE
        /\ \A m \in NodesOf(origin), i \in 0 .. FANOUT - 1 :
             /\ ~ (m = s.node /\ i = s.index) =>
                  ReadSlot(origin', m, i) = ReadSlot(origin, m, i)
             /\ InBitmap(origin', m, i) <=> InBitmap(origin, m, i)
    BY <1>1, <1>3, <2>1, NodeLinked
  <2>3. /\ op' \in Op /\ op'.at = "link_bit" /\ op'.slot = s /\ op'.target = c
        /\ op'.name = op.name /\ op'.path = op.path /\ op'.value = op.value
    <3>1. "link_bit" \in Places
      BY DEF Places, PutPlaces
    <3> QED
      BY <1>4, <2>1, <3>1, OpGoes
  <2>4. NodesHeld = NodesOf(origin) \cup {c} /\ RecordsHeld = RecordsOf(origin)
    BY <1>1 DEF NodesHeld, RecordsHeld, At
  <2> HIDE DEF c, s
  <2>5. RecordsOf(origin') = RecordsOf(origin) /\ Stored(origin') = Stored(origin)
    BY <2>2 DEF RecordsOf, Stored
  <2>6. NodesHeld' = NodesHeld /\ RecordsHeld' = RecordsHeld
    BY <2>2, <2>3, <2>4, <2>5 DEF NodesHeld, RecordsHeld, At
  <2>7. SomeFreeList'
    <3>1. s.node \in NodesHeld
      BY <2>2, <2>4
    <3> QED
      BY <1>3, <2>1, <2>2, <2>6, <3>1, FreeListAfter
  <2>8. InFlight'
    BY <2>2, <2>3 DEF InFlight, At
  <2>9. Counted'
    BY <1>1, <1>4, <2>1, <2>3, <2>5 DEF Counted, Ahead, Behind, At
  <2>10. Marked'
    <3> SUFFICES ASSUME NEW m \in NodesOf(origin'), NEW i \in 0 .. FANOUT - 1
                 PROVE  MarkedAt(m, i)'
      BY DEF Marked
    <3>1. CASE m \notin NodesOf(origin)
      BY <2>2, <3>1 DEF MarkedAt
    <3>2. CASE m = s.node /\ i = s.index
      <4>1. ~ InBitmap(origin, m, i)
        <5>1. ReadSlot(origin, m, i) = ABSENT
          BY <1>1, <1>4, <3>2 DEF InFlight, s
        <5> QED
          BY <1>1, <1>4, <2>2, <3>2, <5>1 DEF Marked, MarkedAt, At
      <4>2. ~ InBitmap(origin', m, i) /\ s = [node |-> m, index |-> i]
        BY <2>2, <3>2, <4>1
      <4> QED
        BY <2>3, <4>2 DEF MarkedAt
    <3>3. CASE m \in NodesOf(origin) /\ ~ (m = s.node /\ i = s.index)
      <4>1. /\ ReadSlot(origin', m, i) = ReadSlot(origin, m, i)
            /\ InBitmap(origin', m, i) <=> InBitmap(origin, m, i)
        BY <2>2, <3>3
      <4>2. MarkedAt(m, i) /\ op.at \notin BitPlaces
        BY <1>1, <1>4, <3>3 DEF Marked, BitPlaces, At
      <4>3. op'.slot # [node |-> m, index |-> i]
        BY <2>2, <2>3, <3>3
      <4> QED
        BY <2>1, <4>1, <4>2, <4>3, MarkedApart
    <3> QED
      BY <3>1, <3>2, <3>3
  <2>11. TypeInv'
    BY <2>1, <2>2, <2>3 DEF IInv, TypeInv, Wrote
  <2>12. OpNamed'
    <3>1. op'.at \in PutPlaces
      BY <2>3 DEF PutPlaces
    <3> QED
      BY <1>2, <2>3, <3>1, PutGoes
  <2>13. HeaderSound' /\ StrategySound'
    BY <2>1, <2>2, WriteFrame
  <2> QED
    BY <2>2, <2>7, <2>8, <2>9, <2>10, <2>11, <2>12, <2>13 DEF IInv, WholeInv
<1> QED
  BY <1>5, <1>6

LEMMA SlotBitWritten ==
  ASSUME IInv, Whole, NEW v \in Nat,
         op.slot.node \in NodesOf(origin), op.slot.index \in 0 .. FANOUT - 1,
         origin' = WriteSlotBit(origin, op.slot, v)
  PROVE  /\ SameTree(origin, origin')
         /\ Wrote(origin, origin', op.slot.node, 1)
         /\ op.slot.node <= op.slot.node /\ op.slot.node + 1 <= op.slot.node + NODE_SIZE
         /\ \A m \in NodesOf(origin), i \in 0 .. FANOUT - 1 :
              /\ ReadSlot(origin', m, i) = ReadSlot(origin, m, i)
              /\ ~ (m = op.slot.node /\ i = op.slot.index) =>
                   (InBitmap(origin', m, i) <=> InBitmap(origin, m, i))
         /\ InBitmap(origin', op.slot.node, op.slot.index) <=> v # ABSENT
<1> DEFINE s == op.slot
<1>1. origin \in Origin /\ op \in Op /\ Tree(origin) /\ NodesSpaced(origin)
  BY Holds
<1>2. /\ s.node \in NodesOf(origin) /\ s.index \in 0 .. FANOUT - 1
      /\ s.node \in Nat /\ s.node + NODE_SIZE <= MAX_OFFSET
  BY <1>1, NodeType
<1>3. /\ s \in [node : Nat, index : 0 .. FANOUT - 1] /\ s.node + 1 <= MAX_OFFSET
      /\ s.node <= s.node /\ s.node + 1 <= s.node + NODE_SIZE
  <2>1. s \in Slots
    BY <1>1, OpFields
  <2> QED
    BY <1>2, <2>1, Sizes DEF Slots
<1> HIDE DEF s
<1>4. BitWritten(origin, origin', s.node, s.index, v)
  BY <1>1, <1>3, WriteSlotBitIs DEF s
<1>5. /\ SameTree(origin, origin')
      /\ Wrote(origin, origin', s.node, 1)
      /\ \A m \in NodesOf(origin), i \in 0 .. FANOUT - 1 :
           /\ ReadSlot(origin', m, i) = ReadSlot(origin, m, i)
           /\ ~ (m = s.node /\ i = s.index) =>
                (InBitmap(origin', m, i) <=> InBitmap(origin, m, i))
      /\ InBitmap(origin', s.node, s.index) <=> v # ABSENT
  BY <1>1, <1>2, <1>4, BitKept
<1> QED
  BY <1>3, <1>5 DEF s

LEMMA PutLinkNodeBitInv ==
  ASSUME IInv, ThenCleared, PutLinkNodeBit PROVE IInv'
<1>1. At("link_bit")
  BY DEF PutLinkNodeBit
<1>2. op.at \in PutPlaces
  BY <1>1 DEF At, PutPlaces
<1>3. "spans" \notin wounds /\ Whole
  BY <1>2, PlaceWhole
<1>4. /\ origin \in Origin /\ op \in Op
      /\ Tree(origin) /\ InFlight /\ Counted /\ Marked
      /\ NodesSpaced(origin)
  BY <1>3, Holds
<1>5. CASE Fails("put", strategy)
  BY <1>2, <1>3, <1>5, PutFails
<1>6. CASE ~ Fails("put", strategy)
  <2>1. /\ origin' = WriteSlotBit(origin, op.slot, op.target) /\ synced' = FALSE
        /\ op' = [op EXCEPT !.at = "locate", !.slot = NoSlot, !.target = ABSENT]
        /\ UNCHANGED <<strategy, len, dirty, result, faults, wounds, torn>>
        /\ unmarked' = unmarked \ {op.slot}
    BY <1>1, <1>6 DEF PutLinkNodeBit, Writes, BitPlaces, At
  <2> DEFINE s == op.slot
             c == op.target
  <2>2. /\ s.node \in NodesOf(origin) /\ s.index \in 0 .. FANOUT - 1 /\ c # ABSENT
        /\ s = [node |-> s.node, index |-> s.index]
        /\ ReadSlot(origin, s.node, s.index) # ABSENT
    BY <1>1, <1>4 DEF InFlight
  <2>3. s.node \in Nat /\ c \in Nat
    BY <1>4, OpFields
  <2>4. /\ op' \in Op /\ op'.at = "locate"
        /\ op'.name = op.name /\ op'.path = op.path /\ op'.value = op.value
    <3>1. "locate" \in Places /\ NoSlot \in Slots /\ ABSENT \in Nat
      BY DEF Places, PutPlaces, NoSlot, Slots, ABSENT
    <3> QED
      BY <1>4, <2>1, <3>1 DEF Op
  <2>6. /\ SameTree(origin, origin')
        /\ Wrote(origin, origin', s.node, 1)
        /\ \A m \in NodesOf(origin), i \in 0 .. FANOUT - 1 :
             /\ ReadSlot(origin', m, i) = ReadSlot(origin, m, i)
             /\ ~ (m = s.node /\ i = s.index) =>
                  (InBitmap(origin', m, i) <=> InBitmap(origin, m, i))
        /\ InBitmap(origin', s.node, s.index)
    BY <1>3, <2>1, <2>2, <2>3, SlotBitWritten DEF s, c
  <2>7. NodesHeld' = NodesHeld /\ RecordsHeld' = RecordsHeld
    BY <1>1, <2>4, <2>6 DEF NodesHeld, RecordsHeld, At, SameTree
  <2>8. SomeFreeList'
    <3>1. s.node \in NodesHeld /\ s.node <= s.node /\ s.node + 1 <= s.node + NODE_SIZE
      BY <2>2, <2>3, Sizes DEF NodesHeld
    <3> QED
      BY <1>3, <2>1, <2>3, <2>6, <2>7, <3>1, FreeListAfter
  <2>9. InFlight'
    BY <2>4 DEF InFlight, At
  <2>10. Counted'
    BY <1>1, <1>4, <2>1, <2>4, <2>6 DEF Counted, Ahead, Behind, At, SameTree
  <2>11. Marked'
    <3> SUFFICES ASSUME NEW m \in NodesOf(origin'), NEW i \in 0 .. FANOUT - 1
                 PROVE  MarkedAt(m, i)'
      BY DEF Marked
    <3>1. m \in NodesOf(origin) /\ ReadSlot(origin', m, i) = ReadSlot(origin, m, i)
      BY <2>6 DEF SameTree
    <3>2. op'.at \notin BitPlaces
      BY <2>4 DEF BitPlaces
    <3>3. CASE s = [node |-> m, index |-> i]
      <4>1. InBitmap(origin', m, i) /\ ReadSlot(origin, m, i) # ABSENT
        BY <2>2, <2>6, <3>3
      <4>2. [node |-> m, index |-> i] \notin unmarked'
        BY <2>1, <3>3 DEF s
      <4> QED
        BY <3>1, <3>2, <4>1, <4>2 DEF MarkedAt, BitPlaces
    <3>4. CASE s # [node |-> m, index |-> i]
      <4>1. ~ (m = s.node /\ i = s.index)
        BY <2>2, <3>4
      <4>2. InBitmap(origin', m, i) <=> InBitmap(origin, m, i)
        BY <2>6, <3>1, <4>1
      <4>3. [node |-> m, index |-> i] \in unmarked' <=> [node |-> m, index |-> i] \in unmarked
        BY <2>1, <3>4 DEF s
      <4>4. MarkedAt(m, i)
        BY <1>4, <3>1 DEF Marked
      <4> QED
        BY <3>1, <3>2, <3>4, <4>2, <4>3, <4>4, MarkedApart DEF s
    <3> QED
      BY <3>3, <3>4
  <2>12. TypeInv'
    BY <2>1, <2>4, <2>6 DEF IInv, TypeInv, Wrote
  <2>13. OpNamed'
    <3>1. op'.at \in PutPlaces
      BY <2>4 DEF PutPlaces
    <3> QED
      BY <1>2, <2>4, <3>1, PutGoes
  <2>14. HeaderSound' /\ StrategySound'
    BY <2>1, <2>6, WriteFrame
  <2> QED
    BY <2>6, <2>8, <2>9, <2>10, <2>11, <2>12, <2>13, <2>14 DEF IInv, WholeInv, SameTree
<1> QED
  BY <1>5, <1>6
(* What alloc_record hands out is apart from all that is held, and the free *)
(* list is sound without it.                                                *)
LEMMA RecordAllocated ==
  ASSUME IInv, Whole, At("locate"), ~ AllocFails(origin, strategy),
         NEW s, s = AfterAllocRecord(origin, strategy),
         NEW t, t = AllocatedRecord(strategy)
  PROVE  /\ s \in Header /\ s.bump >= ROOT_OFFSET + NODE_SIZE
         /\ s.free_head # ABSENT => s.free_head < origin.len
         /\ t \in Nat /\ t # ABSENT /\ t \notin RecordsOf(origin)
         /\ \E n \in Nat : \E f \in [1 .. n -> Nat] :
              /\ Chain(origin, s.free_head, n, f)
              /\ Laid(s.bump, NodesOf(origin), RecordsOf(origin) \cup {t}, n, f)
<1> DEFINE b == strategy.bump
           h == strategy.free_head
           N == NodesOf(origin)
           R == RecordsOf(origin)
<1>1. /\ origin \in Origin /\ strategy \in Header /\ SomeFreeList
      /\ NodesHeld = N /\ RecordsHeld = R /\ N \in SUBSET Nat /\ R \in SUBSET Nat
      /\ b \in Nat /\ b <= MAX_OFFSET /\ h \in Nat
  <2>1. NodesHeld = N /\ RecordsHeld = R
    BY DEF NodesHeld, RecordsHeld, At
  <2> QED
    BY <2>1, Holds DEF Header
<1>2. b >= ROOT_OFFSET + NODE_SIZE /\ (h # ABSENT => h < origin.len)
  BY DEF IInv, StrategySound
<1>3. PICK n \in Nat : \E f \in [1 .. n -> Nat] : Sound(n, f)
  BY <1>1 DEF SomeFreeList
<1>4. PICK f \in [1 .. n -> Nat] : Sound(n, f)
  BY <1>3
<1>5. Chain(origin, h, n, f) /\ Laid(b, N, R, n, f)
  BY <1>1, <1>4 DEF Sound
<1>6. \A r \in R : r + RECORD_SLOT_SIZE <= b
  BY <1>5 DEF Laid
<1>7. ASSUME h = ABSENT
      PROVE  /\ s = [strategy EXCEPT !.bump = @ + RECORD_SLOT_SIZE] /\ t = b
             /\ b + RECORD_SLOT_SIZE <= MAX_OFFSET
  BY <1>1, <1>7, Sizes DEF AfterAllocRecord, AllocatedRecord, AllocFails
<1>8. ASSUME h # ABSENT
      PROVE  s = [strategy EXCEPT !.free_head = origin.word[h]] /\ t = h
  BY <1>8 DEF AfterAllocRecord, AllocatedRecord
<1>9. CASE h = ABSENT
  <2>1. /\ s \in Header /\ s.bump = b + RECORD_SLOT_SIZE /\ s.free_head = h
    BY <1>1, <1>7, <1>9, Sizes DEF Header
  <2> HIDE DEF b, h, N, R
  <2>2. s.bump >= ROOT_OFFSET + NODE_SIZE
    BY <1>1, <1>2, <2>1, Sizes
  <2>3. t \in Nat /\ t # ABSENT /\ t \notin R
    BY <1>1, <1>2, <1>6, <1>7, <1>9, Sizes
  <2>4. Laid(s.bump, N, R \cup {t}, n, f)
    BY <1>1, <1>5, <1>7, <1>9, <2>1, LaidRecord
  <2>5. \E k \in Nat : \E g \in [1 .. k -> Nat] :
          Chain(origin, s.free_head, k, g) /\ Laid(s.bump, N, R \cup {t}, k, g)
    BY <1>5, <2>1, <2>4
  <2> QED
    BY <1>2, <2>1, <2>2, <2>3, <2>5 DEF N, R
<1>10. CASE h # ABSENT
  <2>1. h < origin.len /\ h \in 0 .. MAX_OFFSET /\ origin.word[h] \in Nat
    BY <1>1, <1>2, <1>10, Sizes DEF Origin
  <2>2. s \in Header /\ s.bump = b /\ s.free_head = origin.word[h]
    BY <1>1, <1>8, <1>10, <2>1 DEF Header
  <2> HIDE DEF b, h, N, R
  <2>3. n # 0 /\ n \in 1 .. n /\ h = f[n] /\ n - 1 \in Nat
    BY <1>5, <1>10 DEF Chain
  <2>4. PICK g \in [1 .. n - 1 -> Nat] :
          /\ Laid(b, N, R \cup {h}, n - 1, g)
          /\ Chain(origin, origin.word[h], n - 1, g)
    BY <1>1, <1>5, <2>3, LaidPop
  <2>5. t = h /\ t \in Nat /\ t # ABSENT
    BY <1>1, <1>8, <1>10
  <2>6. t \notin R
    <3> SUFFICES ASSUME t \in R PROVE FALSE
      OBVIOUS
    <3>1. Apart(h, RECORD_SLOT_SIZE, f[n], RECORD_SLOT_SIZE)
      BY <1>5, <2>3, <2>5 DEF Laid
    <3> QED
      BY <1>1, <2>3, <3>1, Sizes DEF Apart
  <2>7. s.free_head # ABSENT => s.free_head < origin.len
    BY <2>2, <2>3, <2>4 DEF Chain
  <2>8. \E k \in Nat : \E e \in [1 .. k -> Nat] :
          Chain(origin, s.free_head, k, e) /\ Laid(s.bump, N, R \cup {t}, k, e)
    BY <2>2, <2>3, <2>4, <2>5
  <2> QED
    BY <1>2, <2>2, <2>5, <2>6, <2>7, <2>8 DEF N, R
<1> QED
  BY <1>9, <1>10

LEMMA PutAllocRecordInv ==
  ASSUME IInv, ThenCleared, PutAllocRecord PROVE IInv'
<1> DEFINE s == AfterAllocRecord(origin, strategy)
           t == AllocatedRecord(strategy)
           q == op.path
           slot == [node |-> Found.node, index |-> Found.index]
<1>1. /\ At("locate") /\ Found.at_leaf /\ Found.record_offset = ABSENT
      /\ ~ AllocFails(origin, strategy)
      /\ strategy' = s
      /\ op' = [op EXCEPT !.at = "leaf", !.slot = slot, !.target = t]
      /\ UNCHANGED <<origin, len, dirty, result, synced, faults, wounds, unmarked, torn>>
  BY DEF PutAllocRecord
<1>2. op.at \in PutPlaces /\ "leaf" \in PutPlaces /\ "leaf" \in Places
  BY <1>1 DEF At, PutPlaces, Places
<1>3. "spans" \notin wounds /\ Whole
  BY <1>2, PlaceWhole
<1>4. /\ origin \in Origin /\ op \in Op
      /\ Tree(origin) /\ Counted /\ Marked
  BY <1>3, Holds
<1> HIDE DEF s, t
<1>5. /\ s \in Header /\ s.bump >= ROOT_OFFSET + NODE_SIZE
      /\ s.free_head # ABSENT => s.free_head < origin.len
      /\ t \in Nat /\ t # ABSENT /\ t \notin RecordsOf(origin)
  BY <1>1, <1>3, RecordAllocated DEF s, t
<1>6. \E n \in Nat : \E f \in [1 .. n -> Nat] :
         /\ Chain(origin, s.free_head, n, f)
         /\ Laid(s.bump, NodesOf(origin), RecordsOf(origin) \cup {t}, n, f)
  BY <1>1, <1>3, RecordAllocated DEF s, t
<1>7. q \in Path /\ q \in Paths
  BY <1>2, ValueSizes DEF IInv, OpNamed
<1>8. /\ NodesTo(origin, q)[DEPTH] # ABSENT
      /\ Found.node = NodesTo(origin, q)[DEPTH] /\ Found.index = q[DEPTH]
      /\ RecordAt(origin, q) = ABSENT
  <2>1. PICK k \in 1 .. DEPTH :
          /\ \A d \in 1 .. k : NodesTo(origin, q)[d] # ABSENT
          /\ Locate(origin, q).node = NodesTo(origin, q)[k]
          /\ Locate(origin, q).index = q[k]
          /\ Locate(origin, q).at_leaf <=> k = DEPTH
          /\ Locate(origin, q).record_offset = RecordAt(origin, q)
    BY LocateIs
  <2>2. k = DEPTH /\ DEPTH \in 1 .. k
    BY <1>1, <2>1, Sizes DEF Found
  <2> QED
    BY <1>1, <2>1, <2>2 DEF Found
<1>9. slot \in Slots
  <2>1. NodesTo(origin, q)[DEPTH] \in Nat /\ q[DEPTH] \in Nat
    BY <1>4, <1>7, WalkType, Sizes
  <2> QED
    BY <1>8, <2>1 DEF Slots
<1>10. /\ op' \in Op /\ op'.at = "leaf" /\ op'.slot = slot /\ op'.target = t
       /\ op'.name = op.name /\ op'.path = q /\ op'.value = op.value
  <2> HIDE DEF slot
  <2> QED
    BY <1>1, <1>2, <1>4, <1>5, <1>9 DEF Op
<1>11. SomeFreeList'
  <2>1. NodesHeld' = NodesOf(origin) /\ RecordsHeld' = RecordsOf(origin) \cup {t}
    BY <1>1, <1>10 DEF NodesHeld, RecordsHeld, At
  <2> QED
    BY <1>1, <1>6, <2>1 DEF SomeFreeList, Sound
<1>12. InFlight'
  <2>1. AtLeafSlot'
    BY <1>1, <1>8, <1>10 DEF AtLeafSlot
  <2> QED
    BY <1>1, <1>5, <1>8, <1>10, <2>1 DEF InFlight, At
<1>13. Counted'
  BY <1>1, <1>4, <1>10 DEF Counted, Ahead, Behind, At
<1>14. Marked'
  BY <1>1, <1>4, <1>10, MarkedKept DEF BitPlaces, At
<1>15. TypeInv'
  BY <1>1, <1>5, <1>10 DEF IInv, TypeInv
<1>16. OpNamed'
  BY <1>2, <1>10, PutGoes
<1>17. HeaderSound' /\ StrategySound'
  BY <1>1, <1>5 DEF IInv, HeaderSound, StrategySound
<1> QED
  BY <1>1, <1>4, <1>11, <1>12, <1>13, <1>14, <1>15, <1>16, <1>17 DEF IInv, WholeInv
(***************************************************************************)
(* The two writes of a leaf slot, by a put and by a remove.                *)
(***************************************************************************)
LeafPlaces == {"leaf", "leaf_bit", "unleaf", "unleaf_bit"}

LEMMA LeafSlot ==
  ASSUME IInv, Whole, op.at \in LeafPlaces
  PROVE  /\ op.path \in Path /\ op.slot \in Slots /\ op.target \in Nat
         /\ NodesTo(origin, op.path)[DEPTH] # ABSENT
         /\ op.slot.node = NodesTo(origin, op.path)[DEPTH]
         /\ op.slot.index = op.path[DEPTH]
         /\ op.slot = [node |-> op.slot.node, index |-> op.slot.index]
         /\ op.slot.node \in NodesOf(origin) /\ op.slot.index \in 0 .. FANOUT - 1
         /\ op.slot.node \in Nat /\ op.slot.node + NODE_SIZE <= MAX_OFFSET
<1>1. op.at \in PutPlaces \/ op.at \in RemovePlaces
  BY DEF LeafPlaces, PutPlaces, RemovePlaces
<1>2. op.path \in Path
  BY <1>1, ValueSizes DEF IInv, OpNamed
<1>3. origin \in Origin /\ op \in Op /\ InFlight
  BY Holds
<1>4. op.slot \in Slots /\ op.target \in Nat
  BY <1>3, OpFields
<1>5. AtLeafSlot
  BY <1>3 DEF InFlight, LeafPlaces, At
<1>6. /\ NodesTo(origin, op.path)[DEPTH] # ABSENT
      /\ op.slot.node = NodesTo(origin, op.path)[DEPTH]
      /\ op.slot.index = op.path[DEPTH]
      /\ op.slot = [node |-> op.slot.node, index |-> op.slot.index]
  BY <1>5 DEF AtLeafSlot
<1>7. op.slot.node \in NodesOf(origin) /\ op.slot.index \in 0 .. FANOUT - 1
  BY <1>2, <1>6, InNodesOf, Sizes
<1>8. op.slot.node \in Nat /\ op.slot.node + NODE_SIZE <= MAX_OFFSET
  BY <1>3, <1>7, NodeType
<1> QED
  BY <1>2, <1>4, <1>6, <1>7, <1>8

LEMMA LeafSlotWritten ==
  ASSUME IInv, Whole, op.at \in {"leaf", "unleaf"}, NEW v \in Nat, v \notin RecordsOf(origin),
         origin' = WriteSlotWord(origin, op.slot, v)
  PROVE  /\ Tree(origin') /\ NodesOf(origin') = NodesOf(origin)
         /\ NodesTo(origin', op.path)[DEPTH] = NodesTo(origin, op.path)[DEPTH]
         /\ RecordAt(origin', op.path) = v
         /\ \A p \in Path \ {op.path} : SameWay(origin, origin', p)
         /\ \E lo \in Nat :
              /\ Wrote(origin, origin', lo, 1)
              /\ op.slot.node <= lo /\ lo + 1 <= op.slot.node + NODE_SIZE
         /\ ReadSlot(origin', op.slot.node, op.slot.index) = v
         /\ \A m \in NodesOf(origin), i \in 0 .. FANOUT - 1 :
              /\ ~ (m = op.slot.node /\ i = op.slot.index) =>
                   ReadSlot(origin', m, i) = ReadSlot(origin, m, i)
              /\ InBitmap(origin', m, i) <=> InBitmap(origin, m, i)
<1> DEFINE s == op.slot
           q == op.path
           pos == SlotPos(s.node, s.index)
<1>1. origin \in Origin /\ Tree(origin) /\ NodesSpaced(origin)
  BY Holds
<1>2. op.at \in LeafPlaces
  BY DEF LeafPlaces
<1>3. /\ q \in Path /\ s \in Slots /\ NodesTo(origin, q)[DEPTH] # ABSENT
      /\ s.node = NodesTo(origin, q)[DEPTH] /\ s.index = q[DEPTH]
      /\ s.node \in NodesOf(origin) /\ s.index \in 0 .. FANOUT - 1
      /\ s.node \in Nat /\ s.node + NODE_SIZE <= MAX_OFFSET
  BY <1>2, LeafSlot
<1>4. /\ pos \in Nat /\ s.node <= pos /\ pos + 1 <= s.node + NODE_SIZE
      /\ Wrote(origin, origin', pos, 1)
      /\ ReadSlot(origin', s.node, s.index) = v
      /\ \A p \in 0 .. MAX_OFFSET : p # pos => origin'.word[p] = origin.word[p]
  <2> HIDE DEF s, q
  <2> QED
    BY <1>1, <1>3, SlotWordWritten DEF s
<1> HIDE DEF s, q
<1>5. /\ Tree(origin')
      /\ \A p \in Path \ {q} : SameWay(origin, origin', p)
      /\ \A d \in 1 .. DEPTH : NodesTo(origin', q)[d] = NodesTo(origin, q)[d]
      /\ RecordAt(origin', q) = v
      /\ NodesOf(origin') = NodesOf(origin)
  <2>1. origin' \in Origin /\ origin.len <= origin'.len
    BY <1>4 DEF Wrote
  <2> QED
    BY <1>1, <1>3, <1>4, <2>1, LeafWritten
<1>6. \A m \in NodesOf(origin), i \in 0 .. FANOUT - 1 :
        /\ ~ (m = s.node /\ i = s.index) =>
             ReadSlot(origin', m, i) = ReadSlot(origin, m, i)
        /\ InBitmap(origin', m, i) <=> InBitmap(origin, m, i)
  BY <1>1, <1>3, <1>4, SlotWritten
<1>7. DEPTH \in 1 .. DEPTH
  BY Sizes
<1> HIDE DEF pos
<1> QED
  BY <1>4, <1>5, <1>6, <1>7 DEF s, q

LEMMA LeafBitWritten ==
  ASSUME IInv, Whole, op.at \in {"leaf_bit", "unleaf_bit"}, NEW v \in Nat,
         origin' = WriteSlotBit(origin, op.slot, v)
  PROVE  /\ SameTree(origin, origin')
         /\ Wrote(origin, origin', op.slot.node, 1)
         /\ op.slot.node <= op.slot.node /\ op.slot.node + 1 <= op.slot.node + NODE_SIZE
         /\ \A m \in NodesOf(origin), i \in 0 .. FANOUT - 1 :
              /\ ReadSlot(origin', m, i) = ReadSlot(origin, m, i)
              /\ ~ (m = op.slot.node /\ i = op.slot.index) =>
                   (InBitmap(origin', m, i) <=> InBitmap(origin, m, i))
         /\ InBitmap(origin', op.slot.node, op.slot.index) <=> v # ABSENT
<1>1. op.at \in LeafPlaces
  BY DEF LeafPlaces
<1>2. op.slot.node \in NodesOf(origin) /\ op.slot.index \in 0 .. FANOUT - 1
  BY <1>1, LeafSlot
<1> QED
  BY <1>2, SlotBitWritten

LEMMA RemoveAborts ==
  ASSUME IInv, NEW name \in {"remove", "clear"}, Fails(name, strategy) PROVE IInv'
<1>1. Abort(name, strategy) /\ faults' \in 0 .. MAX_FAULTS
  BY StoreAssumption DEF Fails, IInv, TypeInv
<1>2. strategy \in Header /\ StrategySound
  BY DEF IInv, TypeInv
<1> QED
  BY <1>1, <1>2, SpansAborted DEF StrategySound

(* The place of an operation within a remove. *)
LEMMA RemoveGoes ==
  ASSUME IInv, op.at \in RemovePlaces, op' \in Op, op'.at \in RemovePlaces,
         op'.name = op.name, op'.path = op.path
  PROVE  OpNamed'
BY DEF IInv, OpNamed, PutPlaces, RemovePlaces

LEMMA PutLeafInv ==
  ASSUME IInv, ThenCleared, PutLeaf PROVE IInv'
<1>1. At("leaf")
  BY DEF PutLeaf
<1>2. op.at \in PutPlaces /\ op.at \in LeafPlaces /\ op.at \in {"leaf", "unleaf"}
  BY <1>1 DEF At, PutPlaces, LeafPlaces
<1>3. "spans" \notin wounds /\ Whole
  BY <1>2, PlaceWhole
<1>4. /\ origin \in Origin /\ op \in Op /\ Tree(origin) /\ InFlight /\ Counted /\ Marked
  BY <1>3, Holds
<1>5. CASE Fails("put", strategy)
  BY <1>2, <1>3, <1>5, PutFails
<1>6. CASE ~ Fails("put", strategy)
  <2> DEFINE s == op.slot
             q == op.path
             t == op.target
  <2>1. /\ origin' = WriteSlotWord(origin, s, t) /\ synced' = FALSE
        /\ Go("leaf_bit")
        /\ UNCHANGED <<strategy, len, dirty, result, faults, wounds, unmarked, torn>>
    BY <1>1, <1>6 DEF PutLeaf, Writes, BitPlaces, At
  <2>2. /\ q \in Path /\ t \in Nat /\ NodesTo(origin, q)[DEPTH] # ABSENT
        /\ s.node = NodesTo(origin, q)[DEPTH] /\ s.index = q[DEPTH]
        /\ s = [node |-> s.node, index |-> s.index]
        /\ s.node \in NodesOf(origin)
    BY <1>2, <1>3, LeafSlot
  <2>3. RecordAt(origin, q) = ABSENT /\ t # ABSENT /\ t \notin RecordsOf(origin)
    BY <1>1, <1>4 DEF InFlight
  <2>4. /\ op' \in Op /\ op'.at = "leaf_bit" /\ op'.slot = s /\ op'.target = t
        /\ op'.name = op.name /\ op'.path = q /\ op'.value = op.value
    <3>1. "leaf_bit" \in Places
      BY DEF Places, PutPlaces
    <3> QED
      BY <1>4, <2>1, <3>1, OpGoes
  <2>5. /\ Tree(origin') /\ NodesOf(origin') = NodesOf(origin)
        /\ NodesTo(origin', q)[DEPTH] = NodesTo(origin, q)[DEPTH]
        /\ RecordAt(origin', q) = t
        /\ \A p \in Path \ {q} : SameWay(origin, origin', p)
        /\ \E lo \in Nat :
             /\ Wrote(origin, origin', lo, 1)
             /\ s.node <= lo /\ lo + 1 <= s.node + NODE_SIZE
        /\ \A m \in NodesOf(origin), i \in 0 .. FANOUT - 1 :
             /\ ~ (m = s.node /\ i = s.index) =>
                  ReadSlot(origin', m, i) = ReadSlot(origin, m, i)
             /\ InBitmap(origin', m, i) <=> InBitmap(origin, m, i)
    BY <1>2, <1>3, <2>1, <2>2, <2>3, LeafSlotWritten
  <2> HIDE DEF s, q, t
  <2>6. \A p \in Path : RecordAt(origin', p) = IF p = q THEN t ELSE RecordAt(origin, p)
    BY <2>5 DEF SameWay
  <2>7. RecordsOf(origin') = RecordsOf(origin) \cup {t}
        /\ Stored(origin') = Stored(origin) \cup {q} /\ q \notin Stored(origin)
    <3>1. \A r : r \in RecordsOf(origin') => r \in RecordsOf(origin) \cup {t}
      BY <2>6 DEF RecordsOf
    <3>2. \A r : r \in RecordsOf(origin) => r \in RecordsOf(origin')
      BY <2>3, <2>6 DEF RecordsOf
    <3>3. t \in RecordsOf(origin')
      BY <2>2, <2>3, <2>6 DEF RecordsOf
    <3>4. Stored(origin') = Stored(origin) \cup {q} /\ q \notin Stored(origin)
      BY <2>2, <2>3, <2>6 DEF Stored
    <3> QED
      BY <3>1, <3>2, <3>3, <3>4
  <2>8. NodesHeld' = NodesHeld /\ RecordsHeld' = RecordsHeld /\ s.node \in NodesHeld
    BY <1>1, <2>2, <2>4, <2>5, <2>7 DEF NodesHeld, RecordsHeld, At, t
  <2>9. SomeFreeList'
    <3>1. PICK lo \in Nat : /\ Wrote(origin, origin', lo, 1)
                            /\ s.node <= lo /\ lo + 1 <= s.node + NODE_SIZE
      BY <2>5
    <3> QED
      BY <1>3, <2>1, <2>8, <3>1, FreeListAfter
  <2>10. InFlight'
    <3>1. AtLeafSlot'
      BY <2>2, <2>4, <2>5 DEF AtLeafSlot
    <3> QED
      BY <2>3, <2>4, <2>5, <3>1 DEF InFlight, At
  <2>11. Counted'
    <3>1. IsFiniteSet(Stored(origin)) /\ Cardinality(Stored(origin)) \in Nat
          /\ faults \in Nat /\ len \in Nat
      BY <1>4, FS_CardinalityType DEF Counted, IInv, TypeInv
    <3>2. /\ IsFiniteSet(Stored(origin'))
          /\ Cardinality(Stored(origin')) = Cardinality(Stored(origin)) + 1
      BY <2>7, <3>1, FS_AddElement
    <3>3. len <= Cardinality(Stored(origin)) /\ Cardinality(Stored(origin)) <= len + faults
      BY <1>1, <1>4, <3>1 DEF Counted, Ahead, Behind, At
    <3>4. Ahead' = 0 /\ Behind' = 1
      BY <2>4 DEF Ahead, Behind, At
    <3> QED
      BY <2>1, <3>1, <3>2, <3>3, <3>4 DEF Counted
  <2>12. Marked'
    <3> SUFFICES ASSUME NEW m \in NodesOf(origin), NEW i \in 0 .. FANOUT - 1
                 PROVE  MarkedAt(m, i)'
      BY <2>5 DEF Marked
    <3>1. MarkedAt(m, i) /\ op.at \notin BitPlaces
      BY <1>1, <1>4 DEF Marked, BitPlaces, At
    <3>2. CASE m = s.node /\ i = s.index
      <4>1. ReadSlot(origin, m, i) = ABSENT
        BY <2>2, <2>3, <3>2 DEF RecordAt
      <4>2. ~ InBitmap(origin, m, i)
        BY <3>1, <4>1 DEF MarkedAt, BitPlaces, At
      <4>3. ~ InBitmap(origin', m, i) /\ s = [node |-> m, index |-> i]
        BY <2>2, <2>5, <3>2, <4>2
      <4> QED
        BY <2>4, <4>3 DEF MarkedAt
    <3>3. CASE ~ (m = s.node /\ i = s.index)
      <4>1. /\ ReadSlot(origin', m, i) = ReadSlot(origin, m, i)
            /\ InBitmap(origin', m, i) <=> InBitmap(origin, m, i)
        BY <2>5, <3>3
      <4>2. op'.slot # [node |-> m, index |-> i]
        BY <2>2, <2>4, <3>3
      <4> QED
        BY <2>1, <3>1, <4>1, <4>2, MarkedApart
    <3> QED
      BY <3>2, <3>3
  <2>13. TypeInv'
    BY <2>1, <2>4, <2>5 DEF IInv, TypeInv, Wrote
  <2>14. OpNamed'
    <3>1. op'.at \in PutPlaces
      BY <2>4 DEF PutPlaces
    <3> QED
      BY <1>2, <2>4, <3>1, PutGoes DEF q
  <2>15. HeaderSound' /\ StrategySound'
    BY <2>1, <2>5, WriteFrame
  <2> QED
    BY <2>5, <2>9, <2>10, <2>11, <2>12, <2>13, <2>14, <2>15 DEF IInv, WholeInv
<1> QED
  BY <1>5, <1>6
LEMMA PutLeafBitInv ==
  ASSUME IInv, ThenCleared, PutLeafBit PROVE IInv'
<1>1. At("leaf_bit")
  BY DEF PutLeafBit
<1>2. op.at \in PutPlaces /\ op.at \in LeafPlaces /\ op.at \in {"leaf_bit", "unleaf_bit"}
  BY <1>1 DEF At, PutPlaces, LeafPlaces
<1>3. "spans" \notin wounds /\ Whole
  BY <1>2, PlaceWhole
<1>4. /\ origin \in Origin /\ op \in Op /\ Tree(origin) /\ InFlight /\ Counted /\ Marked
  BY <1>3, Holds
<1>5. CASE Fails("put", strategy)
  BY <1>2, <1>3, <1>5, PutFails
<1>6. CASE ~ Fails("put", strategy)
  <2> DEFINE s == op.slot
             t == op.target
  <2>1. /\ origin' = WriteSlotBit(origin, s, t) /\ synced' = FALSE
        /\ Go("length") /\ len' = len + 1
        /\ UNCHANGED <<strategy, dirty, result, faults, wounds, torn>>
        /\ unmarked' = unmarked \ {op.slot}
    BY <1>1, <1>6 DEF PutLeafBit, Writes, BitPlaces, At
  <2>2. /\ t \in Nat /\ op.path \in Path /\ s.node \in NodesOf(origin)
        /\ s.node \in Nat /\ s.index \in 0 .. FANOUT - 1
    BY <1>2, <1>3, LeafSlot
  <2>3. t # ABSENT /\ RecordAt(origin, op.path) = t
    BY <1>1, <1>4 DEF InFlight, At
  <2>14. /\ s = [node |-> s.node, index |-> s.index]
         /\ ReadSlot(origin, s.node, s.index) # ABSENT
    <3>1. /\ NodesTo(origin, op.path)[DEPTH] # ABSENT
          /\ s.node = NodesTo(origin, op.path)[DEPTH] /\ s.index = op.path[DEPTH]
          /\ s = [node |-> s.node, index |-> s.index]
      BY <1>2, <1>3, LeafSlot
    <3> QED
      BY <2>3, <3>1 DEF RecordAt
  <2>4. /\ op' \in Op /\ op'.at = "length" /\ op'.target = t
        /\ op'.name = op.name /\ op'.path = op.path /\ op'.value = op.value
    <3>1. "length" \in Places
      BY DEF Places, PutPlaces
    <3> QED
      BY <1>4, <2>1, <3>1, OpGoes
  <2>5. /\ SameTree(origin, origin')
        /\ Wrote(origin, origin', s.node, 1)
        /\ s.node <= s.node /\ s.node + 1 <= s.node + NODE_SIZE
        /\ \A m \in NodesOf(origin), i \in 0 .. FANOUT - 1 :
             /\ ReadSlot(origin', m, i) = ReadSlot(origin, m, i)
             /\ ~ (m = s.node /\ i = s.index) =>
                  (InBitmap(origin', m, i) <=> InBitmap(origin, m, i))
        /\ InBitmap(origin', s.node, s.index)
    BY <1>2, <1>3, <2>1, <2>2, <2>3, LeafBitWritten
  <2> HIDE DEF s, t
  <2>6. NodesHeld' = NodesHeld /\ RecordsHeld' = RecordsHeld /\ s.node \in NodesHeld
    BY <1>1, <2>2, <2>4, <2>5 DEF NodesHeld, RecordsHeld, At, SameTree
  <2>7. SomeFreeList'
    BY <1>3, <2>1, <2>2, <2>5, <2>6, FreeListAfter
  <2>8. InFlight'
    <3>1. RecordAt(origin', op.path) = t
      BY <2>2, <2>3, <2>5 DEF SameTree, SameWay
    <3> QED
      BY <2>3, <2>4, <3>1 DEF InFlight, At
  <2>9. Counted'
    <3>1. IsFiniteSet(Stored(origin)) /\ Cardinality(Stored(origin)) \in Nat
          /\ faults \in Nat /\ len \in Nat
      BY <1>4, FS_CardinalityType DEF Counted, IInv, TypeInv
    <3>2. /\ len + 1 <= Cardinality(Stored(origin))
          /\ Cardinality(Stored(origin)) <= len + 1 + faults
      BY <1>1, <1>4, <3>1 DEF Counted, Ahead, Behind, At
    <3>3. Ahead' = 0 /\ Behind' = 0
      BY <2>4 DEF Ahead, Behind, At
    <3>4. Stored(origin') = Stored(origin)
      BY <2>5 DEF SameTree
    <3> QED
      BY <2>1, <3>1, <3>2, <3>3, <3>4 DEF Counted
  <2>10. Marked'
    <3> SUFFICES ASSUME NEW m \in NodesOf(origin'), NEW i \in 0 .. FANOUT - 1
                 PROVE  MarkedAt(m, i)'
      BY DEF Marked
    <3>1. m \in NodesOf(origin) /\ ReadSlot(origin', m, i) = ReadSlot(origin, m, i)
      BY <2>5 DEF SameTree
    <3>2. op'.at \notin BitPlaces
      BY <2>4 DEF BitPlaces
    <3>3. CASE s = [node |-> m, index |-> i]
      <4>1. InBitmap(origin', m, i) /\ ReadSlot(origin, m, i) # ABSENT
        BY <2>14, <2>5, <3>3
      <4>2. [node |-> m, index |-> i] \notin unmarked'
        BY <2>1, <3>3 DEF s
      <4> QED
        BY <3>1, <3>2, <4>1, <4>2 DEF MarkedAt, BitPlaces
    <3>4. CASE s # [node |-> m, index |-> i]
      <4>1. ~ (m = s.node /\ i = s.index)
        BY <2>14, <3>4
      <4>2. InBitmap(origin', m, i) <=> InBitmap(origin, m, i)
        BY <2>5, <3>1, <4>1
      <4>3. [node |-> m, index |-> i] \in unmarked' <=> [node |-> m, index |-> i] \in unmarked
        BY <2>1, <3>4 DEF s
      <4>4. MarkedAt(m, i)
        BY <1>4, <3>1 DEF Marked
      <4> QED
        BY <3>1, <3>2, <3>4, <4>2, <4>3, <4>4, MarkedApart DEF s
    <3> QED
      BY <3>3, <3>4
  <2>11. TypeInv'
    <3>1. len' \in Nat
      BY <2>1 DEF IInv, TypeInv
    <3> QED
      BY <2>1, <2>4, <2>5, <3>1 DEF IInv, TypeInv, Wrote
  <2>12. OpNamed'
    <3>1. op'.at \in PutPlaces
      BY <2>4 DEF PutPlaces
    <3> QED
      BY <1>2, <2>4, <3>1, PutGoes
  <2>13. HeaderSound' /\ StrategySound'
    BY <2>1, <2>5, WriteFrame
  <2> QED
    BY <2>5, <2>7, <2>8, <2>9, <2>10, <2>11, <2>12, <2>13 DEF IInv, WholeInv, SameTree
<1> QED
  BY <1>5, <1>6

LEMMA RemoveLeafInv ==
  ASSUME IInv, ThenCleared, RemoveLeaf PROVE IInv'
<1>1. At("unleaf")
  BY DEF RemoveLeaf
<1>2. op.at \in RemovePlaces /\ op.at \in LeafPlaces /\ op.at \in {"leaf", "unleaf"}
  BY <1>1 DEF At, RemovePlaces, LeafPlaces
<1>3. "spans" \notin wounds /\ Whole
  BY <1>2, PlaceWhole
<1>4. /\ origin \in Origin /\ op \in Op /\ Tree(origin) /\ InFlight /\ Counted /\ Marked
  BY <1>3, Holds
<1>5. CASE Fails("remove", strategy)
  BY <1>5, RemoveAborts
<1>6. CASE ~ Fails("remove", strategy)
  <2> DEFINE s == op.slot
             q == op.path
             t == op.target
  <2>1. /\ origin' = WriteSlotWord(origin, s, ABSENT) /\ synced' = FALSE
        /\ Go("unleaf_bit")
        /\ UNCHANGED <<strategy, len, dirty, result, faults, wounds, unmarked, torn>>
    BY <1>1, <1>6 DEF RemoveLeaf, Writes, BitPlaces, At
  <2>2. /\ q \in Path /\ t \in Nat /\ NodesTo(origin, q)[DEPTH] # ABSENT
        /\ s.node = NodesTo(origin, q)[DEPTH] /\ s.index = q[DEPTH]
        /\ s = [node |-> s.node, index |-> s.index]
        /\ s.node \in NodesOf(origin)
    BY <1>2, <1>3, LeafSlot
  <2>3. /\ RecordAt(origin, q) = t /\ t # ABSENT
        /\ ABSENT \in Nat /\ ABSENT \notin RecordsOf(origin)
    <3>1. RecordAt(origin, q) = t /\ t # ABSENT
      BY <1>1, <1>4 DEF InFlight, At
    <3>2. ABSENT \in Nat /\ ABSENT \notin RecordsOf(origin)
      BY <1>4, RecordType, Sizes
    <3> QED
      BY <3>1, <3>2
  <2>4. /\ op' \in Op /\ op'.at = "unleaf_bit" /\ op'.slot = s /\ op'.target = t
        /\ op'.name = op.name /\ op'.path = q
    <3>1. "unleaf_bit" \in Places
      BY DEF Places, RemovePlaces
    <3> QED
      BY <1>4, <2>1, <3>1, OpGoes
  <2>5. /\ Tree(origin') /\ NodesOf(origin') = NodesOf(origin)
        /\ NodesTo(origin', q)[DEPTH] = NodesTo(origin, q)[DEPTH]
        /\ RecordAt(origin', q) = ABSENT
        /\ \A p \in Path \ {q} : SameWay(origin, origin', p)
        /\ \E lo \in Nat :
             /\ Wrote(origin, origin', lo, 1)
             /\ s.node <= lo /\ lo + 1 <= s.node + NODE_SIZE
        /\ ReadSlot(origin', s.node, s.index) = ABSENT
        /\ \A m \in NodesOf(origin), i \in 0 .. FANOUT - 1 :
             /\ ~ (m = s.node /\ i = s.index) =>
                  ReadSlot(origin', m, i) = ReadSlot(origin, m, i)
             /\ InBitmap(origin', m, i) <=> InBitmap(origin, m, i)
    BY <1>2, <1>3, <2>1, <2>2, <2>3, LeafSlotWritten
  <2> HIDE DEF s, q, t
  <2>6. \A p \in Path : RecordAt(origin', p) = IF p = q THEN ABSENT ELSE RecordAt(origin, p)
    BY <2>5 DEF SameWay
  <2>7. RecordsOf(origin') = RecordsOf(origin) \ {t}
        /\ Stored(origin') = Stored(origin) \ {q} /\ q \in Stored(origin)
    <3>1. \A p \in Path : RecordAt(origin, p) = t => p = q
      BY <1>4, <2>2, <2>3 DEF Tree
    <3>2. \A r : r \in RecordsOf(origin') => r \in RecordsOf(origin) \ {t}
      BY <2>6, <3>1 DEF RecordsOf
    <3>3. \A r : r \in RecordsOf(origin) \ {t} => r \in RecordsOf(origin')
      BY <2>3, <2>6 DEF RecordsOf
    <3>4. Stored(origin') = Stored(origin) \ {q} /\ q \in Stored(origin)
      BY <2>2, <2>3, <2>6 DEF Stored
    <3> QED
      BY <3>2, <3>3, <3>4
  <2>8. NodesHeld' = NodesHeld /\ RecordsHeld' = RecordsHeld /\ s.node \in NodesHeld
    BY <1>1, <2>2, <2>4, <2>5, <2>7 DEF NodesHeld, RecordsHeld, At, t
  <2>9. SomeFreeList'
    <3>1. PICK lo \in Nat : /\ Wrote(origin, origin', lo, 1)
                            /\ s.node <= lo /\ lo + 1 <= s.node + NODE_SIZE
      BY <2>5
    <3> QED
      BY <1>3, <2>1, <2>8, <3>1, FreeListAfter
  <2>10. InFlight'
    <3>1. AtLeafSlot'
      BY <2>2, <2>4, <2>5 DEF AtLeafSlot
    <3> QED
      BY <2>4, <2>5, <3>1 DEF InFlight, At
  <2>11. Counted'
    <3>1. IsFiniteSet(Stored(origin)) /\ Cardinality(Stored(origin)) \in Nat
          /\ faults \in Nat /\ len \in Nat
      BY <1>4, FS_CardinalityType DEF Counted, IInv, TypeInv
    <3>2. /\ IsFiniteSet(Stored(origin')) /\ Cardinality(Stored(origin')) \in Nat
          /\ Cardinality(Stored(origin')) = Cardinality(Stored(origin)) - 1
      BY <2>7, <3>1, FS_RemoveElement, FS_CardinalityType
    <3>3. len <= Cardinality(Stored(origin)) /\ Cardinality(Stored(origin)) <= len + faults
      BY <1>1, <1>4, <3>1 DEF Counted, Ahead, Behind, At
    <3>4. Ahead' = 1 /\ Behind' = 0
      BY <2>4 DEF Ahead, Behind, At
    <3> QED
      BY <2>1, <3>1, <3>2, <3>3, <3>4 DEF Counted
  <2>12. Marked'
    <3> SUFFICES ASSUME NEW m \in NodesOf(origin), NEW i \in 0 .. FANOUT - 1
                 PROVE  MarkedAt(m, i)'
      BY <2>5 DEF Marked
    <3>1. MarkedAt(m, i) /\ op.at \notin BitPlaces
      BY <1>1, <1>4 DEF Marked, BitPlaces, At
    <3>2. CASE m = s.node /\ i = s.index
      BY <2>2, <2>4, <3>2 DEF MarkedAt, At
    <3>3. CASE ~ (m = s.node /\ i = s.index)
      <4>1. /\ ReadSlot(origin', m, i) = ReadSlot(origin, m, i)
            /\ InBitmap(origin', m, i) <=> InBitmap(origin, m, i)
        BY <2>5, <3>3
      <4>2. op'.slot # [node |-> m, index |-> i]
        BY <2>2, <2>4, <3>3
      <4> QED
        BY <2>1, <3>1, <4>1, <4>2, MarkedApart
    <3> QED
      BY <3>2, <3>3
  <2>13. TypeInv'
    BY <2>1, <2>4, <2>5 DEF IInv, TypeInv, Wrote
  <2>14. OpNamed'
    <3>1. op'.at \in RemovePlaces
      BY <2>4 DEF RemovePlaces
    <3> QED
      BY <1>2, <2>4, <3>1, RemoveGoes DEF q
  <2>15. HeaderSound' /\ StrategySound'
    BY <2>1, <2>5, WriteFrame
  <2> QED
    BY <2>5, <2>9, <2>10, <2>11, <2>12, <2>13, <2>14, <2>15 DEF IInv, WholeInv
<1> QED
  BY <1>5, <1>6

LEMMA RemoveLeafBitInv ==
  ASSUME IInv, ThenCleared, RemoveLeafBit PROVE IInv'
<1>1. At("unleaf_bit")
  BY DEF RemoveLeafBit
<1>2. op.at \in RemovePlaces /\ op.at \in LeafPlaces /\ op.at \in {"leaf_bit", "unleaf_bit"}
  BY <1>1 DEF At, RemovePlaces, LeafPlaces
<1>3. "spans" \notin wounds /\ Whole
  BY <1>2, PlaceWhole
<1>4. /\ origin \in Origin /\ op \in Op /\ Tree(origin) /\ InFlight /\ Counted /\ Marked
  BY <1>3, Holds
<1>5. CASE Fails("remove", strategy)
  BY <1>5, RemoveAborts
<1>6. CASE ~ Fails("remove", strategy)
  <2> DEFINE s == op.slot
  <2>1. /\ origin' = WriteSlotBit(origin, s, ABSENT) /\ synced' = FALSE
        /\ len' = IF len = 0 THEN 0 ELSE len - 1
        /\ dirty' = TRUE /\ result' = op.prev /\ op' = Idle
        /\ UNCHANGED <<strategy, faults, wounds, torn>>
        /\ unmarked' = unmarked \ {op.slot}
    BY <1>1, <1>6 DEF RemoveLeafBit, Writes, BitPlaces, At
  <2>2. /\ op.path \in Path /\ s.node \in NodesOf(origin)
        /\ s.node \in Nat /\ s.index \in 0 .. FANOUT - 1
        /\ NodesTo(origin, op.path)[DEPTH] # ABSENT
        /\ s.node = NodesTo(origin, op.path)[DEPTH] /\ s.index = op.path[DEPTH]
        /\ s = [node |-> s.node, index |-> s.index]
    BY <1>2, <1>3, LeafSlot
  <2>3. ReadSlot(origin, s.node, s.index) = ABSENT
    <3>1. RecordAt(origin, op.path) = ABSENT
      BY <1>1, <1>4 DEF InFlight
    <3> QED
      BY <2>2, <3>1 DEF RecordAt
  <2>4. /\ SameTree(origin, origin')
        /\ Wrote(origin, origin', s.node, 1)
        /\ s.node <= s.node /\ s.node + 1 <= s.node + NODE_SIZE
        /\ \A m \in NodesOf(origin), i \in 0 .. FANOUT - 1 :
             /\ ReadSlot(origin', m, i) = ReadSlot(origin, m, i)
             /\ ~ (m = s.node /\ i = s.index) =>
                  (InBitmap(origin', m, i) <=> InBitmap(origin, m, i))
        /\ ~ InBitmap(origin', s.node, s.index)
    <3>1. ABSENT \in Nat
      BY Sizes
    <3> QED
      BY <1>2, <1>3, <2>1, <3>1, LeafBitWritten
  <2> HIDE DEF s
  <2>5. /\ op' \in Op /\ op'.at = "idle"
    BY <2>1, IdleType
  <2>6. NodesHeld' = NodesHeld /\ RecordsHeld' = RecordsHeld /\ s.node \in NodesHeld
    BY <1>1, <2>2, <2>4, <2>5 DEF NodesHeld, RecordsHeld, At, SameTree
  <2>7. SomeFreeList'
    BY <1>3, <2>1, <2>2, <2>4, <2>6, FreeListAfter
  <2>8. InFlight'
    BY <2>5 DEF InFlight, At
  <2>9. len' \in Nat /\ Counted'
    <3>1. IsFiniteSet(Stored(origin)) /\ Cardinality(Stored(origin)) \in Nat
          /\ faults \in Nat /\ len \in Nat
      BY <1>4, FS_CardinalityType DEF Counted, IInv, TypeInv
    <3>2. /\ len <= Cardinality(Stored(origin)) + 1
          /\ Cardinality(Stored(origin)) + 1 <= len + faults
      BY <1>1, <1>4, <3>1 DEF Counted, Ahead, Behind, At
    <3>3. Ahead' = 0 /\ Behind' = 0
      BY <2>5 DEF Ahead, Behind, At
    <3>4. Stored(origin') = Stored(origin)
      BY <2>4 DEF SameTree
    <3>5. len' \in Nat /\ len' <= Cardinality(Stored(origin))
          /\ Cardinality(Stored(origin)) <= len' + faults
      BY <2>1, <3>1, <3>2
    <3> QED
      BY <2>1, <3>1, <3>3, <3>4, <3>5 DEF Counted
  <2>10. Marked'
    <3> SUFFICES ASSUME NEW m \in NodesOf(origin'), NEW i \in 0 .. FANOUT - 1
                 PROVE  MarkedAt(m, i)'
      BY DEF Marked
    <3>1. m \in NodesOf(origin) /\ ReadSlot(origin', m, i) = ReadSlot(origin, m, i)
      BY <2>4 DEF SameTree
    <3>2. op'.at \notin BitPlaces
      BY <2>5 DEF BitPlaces
    <3>3. CASE s = [node |-> m, index |-> i]
      <4>1. ~ InBitmap(origin', m, i) /\ ReadSlot(origin, m, i) = ABSENT
        BY <2>3, <2>4, <3>3
      <4> QED
        BY <3>1, <4>1 DEF MarkedAt
    <3>4. CASE s # [node |-> m, index |-> i]
      <4>1. ~ (m = s.node /\ i = s.index)
        BY <2>2, <3>4
      <4>2. InBitmap(origin', m, i) <=> InBitmap(origin, m, i)
        BY <2>4, <3>1, <4>1
      <4>3. [node |-> m, index |-> i] \in unmarked' <=> [node |-> m, index |-> i] \in unmarked
        BY <2>1, <3>4 DEF s
      <4>4. MarkedAt(m, i)
        BY <1>4, <3>1 DEF Marked
      <4> QED
        BY <3>1, <3>2, <3>4, <4>2, <4>3, <4>4, MarkedApart DEF s
    <3> QED
      BY <3>3, <3>4
  <2>11. TypeInv'
    <3>1. result' \in Answers
      BY <1>4, <2>1, OpFields
    <3> QED
      BY <2>1, <2>4, <2>5, <2>9, <3>1 DEF IInv, TypeInv, Wrote
  <2>12. OpNamed'
    BY <2>1, IdleType DEF OpNamed, PutPlaces, RemovePlaces
  <2>13. HeaderSound' /\ StrategySound'
    BY <2>1, <2>4, WriteFrame
  <2> QED
    BY <2>4, <2>7, <2>8, <2>9, <2>10, <2>11, <2>12, <2>13 DEF IInv, WholeInv, SameTree
<1> QED
  BY <1>5, <1>6
(***************************************************************************)
(* The writes of a record.                                                 *)
(***************************************************************************)
(* A write into a record in use, by an operation between two of its links.  *)
LEMMA RecordStep ==
  ASSUME IInv, Whole, op.at \in {"locate", "length", "payload"}, op'.at \in {"idle", "payload"},
         NEW r \in RecordsOf(origin), NEW lo \in Nat, NEW size \in Nat,
         r <= lo, lo + size <= r + RECORD_SLOT_SIZE, Wrote(origin, origin', lo, size),
         UNCHANGED <<strategy, len, faults, wounds, unmarked>>
  PROVE  /\ Tree(origin') /\ SomeFreeList' /\ Counted' /\ Marked'
         /\ HeaderSound' /\ StrategySound'
         /\ \A p \in Path : RecordAt(origin', p) = RecordAt(origin, p)
<1>1. /\ Tree(origin) /\ Counted /\ Marked
  BY Holds
<1>2. NodesHeld = NodesOf(origin) /\ RecordsHeld = RecordsOf(origin)
  BY DEF NodesHeld, RecordsHeld, At
<1>3. /\ SameTree(origin, origin')
      /\ \A m \in NodesOf(origin), i \in 0 .. FANOUT - 1 :
           /\ ReadSlot(origin', m, i) = ReadSlot(origin, m, i)
           /\ InBitmap(origin', m, i) <=> InBitmap(origin, m, i)
  BY <1>2, RecordWritten
<1>4. NodesHeld' = NodesHeld /\ RecordsHeld' = RecordsHeld
  BY <1>2, <1>3 DEF NodesHeld, RecordsHeld, At, SameTree
<1>5. SomeFreeList'
  BY <1>2, <1>4, FreeListAfter
<1>6. Counted'
  BY <1>1, <1>3 DEF Counted, Ahead, Behind, At, SameTree
<1>7. Marked'
  BY <1>1, <1>3, MarkedKept DEF BitPlaces, SameTree
<1>8. HeaderSound' /\ StrategySound'
  BY WriteFrame
<1> QED
  BY <1>3, <1>5, <1>6, <1>7, <1>8 DEF SameTree, SameWay

(* The length of a value goes where the record of the path is. *)
LEMMA LengthWritten ==
  ASSUME IInv, Whole, op.at \in {"locate", "length"},
         NEW r \in Nat, r # ABSENT, RecordAt(origin, op.path) = r,
         NEW prev, WriteLength(r, prev)
  PROVE  /\ Wrote(origin, origin', r, 1) /\ r <= r /\ r + 1 <= r + RECORD_SLOT_SIZE
         /\ origin'.word[r] = Len(op.value) /\ r + 1 <= origin'.len
         /\ Len(op.value) \in Nat /\ Len(op.value) <= MaxValueLen
         /\ op.path \in Path
<1>1. op.at \in PutPlaces
  BY DEF PutPlaces
<1>2. /\ op.path \in Path /\ op.value \in Payloads /\ Len(op.value) <= MaxValueLen
      /\ origin \in Origin
  BY <1>1, ValueSizes DEF IInv, OpNamed, TypeInv
<1>3. r \in RecordsHeld
  BY <1>2 DEF RecordsOf, RecordsHeld, At
<1>4. r + 1 <= MAX_OFFSET /\ r <= r /\ r + 1 <= r + RECORD_SLOT_SIZE
  BY <1>3, HeldBelow, Sizes
<1>5. Len(op.value) \in Nat
  BY <1>2, ValueSizes
<1>6. origin' = WriteWords(origin, r, <<Len(op.value)>>)
  BY DEF WriteLength, Writes
<1>7. Wrote(origin, origin', r, 1) /\ origin'.word[r] = Len(op.value) /\ r + 1 <= origin'.len
  BY <1>2, <1>4, <1>5, <1>6, WordWritten
<1> QED
  BY <1>2, <1>4, <1>5, <1>7

(* The payload of a value fills the rest of the record of the path. *)
LEMMA PayloadWritten ==
  ASSUME IInv, Whole, At("payload"),
         NEW t, t = op.target, NEW v, v = op.value, NEW size, size = Len(op.value),
         origin' = WriteWords(origin, op.target + 1, op.value)
  PROVE  /\ t \in Nat /\ t # ABSENT /\ RecordAt(origin, op.path) = t
         /\ op.path \in Path /\ v \in Seq(Nat) /\ size \in Nat /\ size <= MaxValueLen
         /\ Written(origin, origin', t + 1, v, size)
         /\ Wrote(origin, origin', t + 1, size)
         /\ t + 1 \in Nat /\ t <= t + 1 /\ (t + 1) + size <= t + RECORD_SLOT_SIZE
<1>1. op.at \in PutPlaces
  BY DEF At, PutPlaces
<1>2. origin \in Origin /\ op \in Op /\ InFlight
  BY Holds
<1>3. t \in Nat
  BY <1>2, OpFields
<1>4. t # ABSENT /\ RecordAt(origin, op.path) = t
  BY <1>2 DEF InFlight, At
<1>5. op.path \in Path /\ v \in Payloads /\ size <= MaxValueLen
  BY <1>1, ValueSizes DEF IInv, OpNamed
<1>6. v \in Seq(Nat) /\ size \in Nat
  BY <1>5, ValueSizes
<1>7. v \in [1 .. size -> Nat]
  BY <1>6
<1>8. t \in RecordsHeld
  BY <1>4, <1>5 DEF RecordsOf, RecordsHeld, At
<1>9. /\ t + 1 \in Nat /\ t <= t + 1
      /\ (t + 1) + size <= t + RECORD_SLOT_SIZE /\ (t + 1) + size <= MAX_OFFSET
  <2>1. t + RECORD_SLOT_SIZE <= MAX_OFFSET
    BY <1>8, HeldBelow
  <2> QED
    BY <1>3, <1>5, <1>6, <2>1, ValueSizes, Sizes
<1>10. Written(origin, origin', t + 1, v, size)
  BY <1>2, <1>6, <1>7, <1>9, WriteWordsIs
<1>11. Wrote(origin, origin', t + 1, size)
  <2>1. \A p \in 0 .. MAX_OFFSET : p < t + 1 \/ (t + 1) + size <= p
                                     => origin'.word[p] = origin.word[p]
    <3> SUFFICES ASSUME NEW p \in 0 .. MAX_OFFSET, p < t + 1 \/ (t + 1) + size <= p
                 PROVE  origin'.word[p] = origin.word[p]
      OBVIOUS
    <3>1. ~ (t + 1 <= p /\ p < (t + 1) + size)
      BY <1>3, <1>6
    <3> QED
      BY <1>10, <3>1 DEF Written
  <2> QED
    BY <1>10, <2>1 DEF Written, Wrote
<1> QED
  BY <1>3, <1>4, <1>5, <1>6, <1>9, <1>10, <1>11

LEMMA WriteLengthInv ==
  ASSUME IInv, Whole, op.at \in {"locate", "length"},
         NEW r \in Nat, r # ABSENT, RecordAt(origin, op.path) = r,
         NEW prev \in Answers, WriteLength(r, prev)
  PROVE  IInv'
<1>1. op.at \in PutPlaces
  BY DEF PutPlaces
<1>2. /\ op.path \in Path /\ op.value \in Payloads /\ Len(op.value) <= MaxValueLen
  BY <1>1, ValueSizes DEF IInv, OpNamed
<1>3. op \in Op
  BY Holds
<1>4. r \in RecordsOf(origin)
  BY <1>2 DEF RecordsOf
<1>5. UNCHANGED <<strategy, len, faults, wounds, unmarked, torn>> /\ synced' = FALSE
  BY DEF WriteLength, Writes, BitPlaces
<1>6. /\ Wrote(origin, origin', r, 1) /\ r <= r /\ r + 1 <= r + RECORD_SLOT_SIZE
      /\ origin'.word[r] = Len(op.value) /\ r + 1 <= origin'.len
  BY LengthWritten
<1>7. \/ dirty' = TRUE /\ result' = prev /\ op' = Idle
      \/ /\ op' = [op EXCEPT !.at = "payload", !.slot = NoSlot, !.target = r, !.prev = prev]
         /\ UNCHANGED <<dirty, result>>
  BY DEF WriteLength
<1>8. \/ op' = Idle
       \/ /\ op'.at = "payload" /\ op'.target = r
          /\ op'.name = op.name /\ op'.path = op.path /\ op'.value = op.value
  BY <1>3, <1>7 DEF Op
<1>9. op' \in Op /\ op'.at \in {"idle", "payload"}
  <2>1. "payload" \in Places /\ NoSlot \in Slots
    BY DEF Places, PutPlaces, NoSlot, Slots
  <2> QED
    BY <1>3, <1>7, <2>1, IdleType DEF Op
<1>10. /\ Tree(origin') /\ SomeFreeList' /\ Counted' /\ Marked'
       /\ HeaderSound' /\ StrategySound'
       /\ \A p \in Path : RecordAt(origin', p) = RecordAt(origin, p)
  BY <1>4, <1>5, <1>6, <1>9, RecordStep
<1>11. InFlight'
  <2>1. CASE op' = Idle
    BY <2>1, IdleType DEF InFlight, At
  <2>2. CASE op'.at = "payload" /\ op'.target = r /\ op'.path = op.path /\ op'.value = op.value
    <3>1. r < origin'.len
      BY <1>6 DEF Wrote, Origin
    <3>2. RecordAt(origin', op'.path) = r
      BY <1>2, <1>10, <2>2
    <3> QED
      BY <1>6, <2>2, <3>1, <3>2 DEF InFlight, At
  <2> QED
    BY <1>8, <2>1, <2>2
<1>12. TypeInv'
  BY <1>5, <1>6, <1>7, <1>9 DEF IInv, TypeInv, Wrote
<1>13. OpNamed'
  <2>1. CASE op' = Idle
    BY <2>1, IdleType DEF OpNamed, PutPlaces, RemovePlaces
  <2>2. CASE op'.at = "payload" /\ op'.name = op.name /\ op'.path = op.path
             /\ op'.value = op.value
    <3>1. op'.at \in PutPlaces
      BY <2>2 DEF PutPlaces
    <3> QED
      BY <1>1, <1>9, <2>2, <3>1, PutGoes
  <2> QED
    BY <1>8, <2>1, <2>2
<1> QED
  BY <1>10, <1>11, <1>12, <1>13 DEF IInv, WholeInv

LEMMA PutLengthInv ==
  ASSUME IInv, ThenCleared, PutLength PROVE IInv'
<1>1. At("length") /\ (WriteLength(op.target, NONE) \/ Fails("put", strategy))
  BY DEF PutLength
<1>2. op.at \in PutPlaces /\ op.at \in {"locate", "length"}
  BY <1>1 DEF At, PutPlaces
<1>3. "spans" \notin wounds /\ Whole
  BY <1>2, PlaceWhole
<1>4. op \in Op /\ InFlight
  BY <1>3, Holds
<1>5. op.target \in Nat /\ NONE \in Answers
  BY <1>4, OpFields DEF Answers
<1>6. op.target # ABSENT /\ RecordAt(origin, op.path) = op.target
  BY <1>1, <1>4 DEF InFlight, At
<1> QED
  BY <1>1, <1>2, <1>3, <1>5, <1>6, PutFails, WriteLengthInv

LEMMA PutOverwriteInv ==
  ASSUME IInv, ThenCleared, PutOverwrite PROVE IInv'
<1> DEFINE r == Found.record_offset
           prev == ReadRecord(origin, r)
<1>1. /\ At("locate") /\ r # ABSENT /\ prev # FAILED
      /\ WriteLength(r, prev) \/ Fails("put", strategy)
  BY DEF PutOverwrite
<1>2. op.at \in PutPlaces /\ op.at \in {"locate", "length"}
  BY <1>1 DEF At, PutPlaces
<1>3. "spans" \notin wounds /\ Whole
  BY <1>2, PlaceWhole
<1>4. origin \in Origin
  BY <1>3, Holds
<1>5. op.path \in Path
  BY <1>2, ValueSizes DEF IInv, OpNamed
<1>6. RecordAt(origin, op.path) = r
  BY RecordLocated DEF Found
<1>7. r \in Nat
  BY <1>4, <1>5, <1>6, RecordType
<1> HIDE DEF r
<1>8. prev \in Answers
  BY <1>1, <1>4, <1>7, ReadRecordIs
<1> HIDE DEF prev
<1> QED
  BY <1>1, <1>2, <1>3, <1>6, <1>7, <1>8, PutFails, WriteLengthInv

LEMMA PutPayloadInv ==
  ASSUME IInv, ThenCleared, PutPayload PROVE IInv'
<1>1. At("payload")
  BY DEF PutPayload
<1>2. op.at \in PutPlaces /\ op.at \in {"locate", "length", "payload"}
  BY <1>1 DEF At, PutPlaces
<1>3. "spans" \notin wounds /\ Whole
  BY <1>2, PlaceWhole
<1>4. origin \in Origin /\ op \in Op /\ InFlight
  BY <1>3, Holds
<1>5. CASE Fails("put", strategy)
  BY <1>2, <1>3, <1>5, PutFails
<1>6. CASE ~ Fails("put", strategy)
  <2> DEFINE t == op.target
             size == Len(op.value)
  <2>1. /\ origin' = WriteWords(origin, t + 1, op.value) /\ synced' = FALSE
        /\ dirty' = TRUE /\ result' = op.prev /\ op' = Idle
        /\ UNCHANGED <<strategy, len, faults, wounds, unmarked, torn>>
    BY <1>1, <1>6 DEF PutPayload, Writes, BitPlaces, At
  <2>2. /\ t \in Nat /\ t # ABSENT /\ RecordAt(origin, op.path) = t
        /\ op.path \in Path /\ size \in Nat
        /\ Wrote(origin, origin', t + 1, size)
        /\ t + 1 \in Nat /\ t <= t + 1 /\ (t + 1) + size <= t + RECORD_SLOT_SIZE
    BY <1>1, <1>3, <2>1, PayloadWritten
  <2> HIDE DEF t, size
  <2>3. t \in RecordsOf(origin)
    BY <2>2 DEF RecordsOf
  <2>4. op.prev \in Answers
    BY <1>4, OpFields
  <2>5. op' \in Op /\ op'.at \in {"idle", "payload"}
    BY <2>1, IdleType
  <2>6. /\ Tree(origin') /\ SomeFreeList' /\ Counted' /\ Marked'
         /\ HeaderSound' /\ StrategySound'
    BY <1>2, <1>3, <2>1, <2>2, <2>3, <2>5, RecordStep
  <2>7. InFlight'
    BY <2>1, IdleType DEF InFlight, At
  <2>8. TypeInv'
    BY <2>1, <2>2, <2>4, <2>5 DEF IInv, TypeInv, Wrote
  <2>9. OpNamed'
    BY <2>1, IdleType DEF OpNamed, PutPlaces, RemovePlaces
  <2> QED
    BY <2>6, <2>7, <2>8, <2>9 DEF IInv, WholeInv
<1> QED
  BY <1>5, <1>6
(***************************************************************************)
(* remove_path and clear_checked.                                          *)
(***************************************************************************)
(* A key that get answers with a value: its record, and where its slot is.  *)
LEMMA FoundIs ==
  ASSUME NEW o \in Origin, NEW p \in Path, Lookup(o, p) \notin {NONE, FAILED},
         NEW r, r = RecordAt(o, p)
  PROVE  /\ r \in Nat /\ r # ABSENT /\ r < o.len
         /\ Lookup(o, p) = ReadRecord(o, r) /\ Lookup(o, p) \in Answers
         /\ Locate(o, p).record_offset = r
         /\ NodesTo(o, p)[DEPTH] # ABSENT /\ NodesTo(o, p)[DEPTH] \in Nat
         /\ Locate(o, p).node = NodesTo(o, p)[DEPTH] /\ Locate(o, p).index = p[DEPTH]
<1>1. PICK k \in 1 .. DEPTH :
        /\ \A d \in k + 1 .. DEPTH : NodesTo(o, p)[d] = ABSENT
        /\ Locate(o, p).node = NodesTo(o, p)[k]
        /\ Locate(o, p).index = p[k]
        /\ Locate(o, p).record_offset = RecordAt(o, p)
  BY LocateIs
<1>2. /\ r \in Nat /\ r # ABSENT /\ Lookup(o, p) = ReadRecord(o, r)
  BY <1>1, RecordType DEF Lookup
<1>3. r < o.len /\ Lookup(o, p) \in Answers
  BY <1>2, ReadRecordIs
<1>4. NodesTo(o, p)[DEPTH] # ABSENT
  BY <1>2 DEF RecordAt
<1>5. k = DEPTH
  <2> SUFFICES ASSUME k # DEPTH PROVE FALSE
    OBVIOUS
  <2>1. DEPTH \in k + 1 .. DEPTH
    BY Sizes
  <2> QED
    BY <1>1, <1>4, <2>1
<1>6. NodesTo(o, p)[DEPTH] \in Nat
  BY WalkType, Sizes
<1> QED
  BY <1>1, <1>2, <1>3, <1>4, <1>5, <1>6

LEMMA RemoveInv ==
  ASSUME IInv, ThenCleared, NEW p \in Paths, Remove(p) PROVE IInv'
<1> DEFINE r == RecordAt(origin, p)
           slot == [node |-> Locate(origin, p).node, index |-> Locate(origin, p).index]
           h == strategy.free_head
<1>0. At("idle") /\ Lookup(origin, p) \notin {NONE, FAILED}
  BY DEF Remove
<1>1. origin \in Origin /\ strategy \in Header /\ p \in Path /\ h \in Nat
  BY ValueSizes DEF IInv, TypeInv, Header
<1>2. /\ r \in Nat /\ r # ABSENT /\ r < origin.len
      /\ Lookup(origin, p) \in Answers
      /\ Locate(origin, p).record_offset = r
      /\ NodesTo(origin, p)[DEPTH] # ABSENT /\ NodesTo(origin, p)[DEPTH] \in Nat
      /\ Locate(origin, p).node = NodesTo(origin, p)[DEPTH]
      /\ Locate(origin, p).index = p[DEPTH]
  BY <1>0, <1>1, FoundIs
<1>3. /\ origin' = WriteWords(origin, r, <<h>>) /\ synced' = FALSE
      /\ strategy' = [strategy EXCEPT !.free_head = r]
      /\ op' = [Idle EXCEPT !.at = "unleaf", !.name = "remove", !.path = p,
                  !.slot = slot, !.target = r, !.prev = Lookup(origin, p)]
      /\ UNCHANGED <<len, dirty, result, faults, wounds, unmarked, torn>>
  BY <1>0, <1>2 DEF Remove, Writes, BitPlaces, At
<1>4. slot \in Slots /\ slot = [node |-> NodesTo(origin, p)[DEPTH], index |-> p[DEPTH]]
  BY <1>1, <1>2, Sizes DEF Slots
<1> HIDE DEF r, slot, h
<1>5. /\ op' \in Op /\ op'.at = "unleaf" /\ op'.name = "remove" /\ op'.path = p
      /\ op'.slot = slot /\ op'.target = r
  <2>1. "unleaf" \in Places /\ "remove" \in Names /\ p \in Paths \cup {<<>>}
    BY DEF Places, RemovePlaces, Names
  <2> QED
    BY <1>2, <1>3, <1>4, <2>1, IdleType DEF Op
<1>6. r + 1 <= MAX_OFFSET
  BY <1>1, <1>2, Sizes DEF Origin
<1>7. Wrote(origin, origin', r, 1) /\ origin'.word[r] = h /\ r + 1 <= origin'.len
  BY <1>1, <1>2, <1>3, <1>6, WordWritten
<1>8. origin' \in Origin /\ origin'.header = origin.header
      /\ origin.len <= origin'.len /\ r < origin'.len
      /\ origin.len \in Nat /\ origin'.len \in Nat
  BY <1>1, <1>2, <1>7 DEF Wrote, Origin
<1>9. /\ strategy' \in Header /\ strategy'.bump = strategy.bump /\ strategy'.free_head = r
  BY <1>1, <1>2, <1>3 DEF Header
<1>10. TypeInv'
  BY <1>3, <1>5, <1>8, <1>9 DEF IInv, TypeInv
<1>11. OpNamed'
  BY <1>5 DEF OpNamed, PutPlaces, RemovePlaces
<1>12. HeaderSound' /\ StrategySound'
  <2>1. origin.header.free_head \in Nat
    BY <1>1 DEF Origin, Header
  <2>2. HeaderSound'
    BY <1>8, <2>1 DEF IInv, HeaderSound
  <2>3. StrategySound'
    BY <1>8, <1>9 DEF IInv, StrategySound
  <2> QED
    BY <2>2, <2>3
<1>13. ASSUME Whole' PROVE WholeInv'
  <2>1. Whole
    BY <1>3, <1>5, <1>13 DEF Whole, At
  <2>2. /\ Tree(origin) /\ SomeFreeList /\ Counted /\ Marked
        /\ NodesHeld \in SUBSET Nat /\ RecordsHeld \in SUBSET Nat
        /\ strategy.bump \in Nat
    BY <2>1, Holds
  <2>3. NodesHeld = NodesOf(origin) /\ RecordsHeld = RecordsOf(origin)
    BY <1>0 DEF NodesHeld, RecordsHeld, At
  <2>4. r \in RecordsOf(origin) /\ r \in RecordsHeld
    BY <1>1, <1>2, <2>3 DEF RecordsOf, r
  <2>5. r <= r /\ r + 1 <= r + RECORD_SLOT_SIZE /\ 1 \in Nat
    BY <1>2, Sizes
  <2>6. /\ SameTree(origin, origin')
        /\ \A m \in NodesOf(origin), i \in 0 .. FANOUT - 1 :
             /\ ReadSlot(origin', m, i) = ReadSlot(origin, m, i)
             /\ InBitmap(origin', m, i) <=> InBitmap(origin, m, i)
    BY <1>2, <1>7, <2>1, <2>4, <2>5, RecordWritten
  <2>7. SomeFreeList'
    <3>1. PICK n \in Nat : \E f \in [1 .. n -> Nat] : Sound(n, f)
      BY <2>2 DEF SomeFreeList
    <3>2. PICK f \in [1 .. n -> Nat] : Sound(n, f)
      BY <3>1
    <3>3. /\ Chain(origin, h, n, f)
          /\ Laid(strategy.bump, NodesHeld, RecordsHeld, n, f)
      BY <3>2 DEF Sound, h
    <3>4. \A i \in 1 .. n : Apart(f[i], RECORD_SLOT_SIZE, r, 1)
      <4> SUFFICES ASSUME NEW i \in 1 .. n PROVE Apart(f[i], RECORD_SLOT_SIZE, r, 1)
        OBVIOUS
      <4>1. Apart(r, RECORD_SLOT_SIZE, f[i], RECORD_SLOT_SIZE)
        BY <2>4, <3>3 DEF Laid
      <4> QED
        BY <1>2, <4>1, Sizes DEF Apart
    <3>5. Chain(origin', h, n, f)
      BY <1>1, <1>2, <1>7, <2>5, <3>3, <3>4, ChainKept
    <3>6. PICK g \in [1 .. n + 1 -> Nat] :
            /\ Laid(strategy.bump, NodesHeld, RecordsHeld \ {r}, n + 1, g)
            /\ Chain(origin', r, n + 1, g)
      BY <1>7, <1>8, <2>2, <2>4, <3>3, <3>5, LaidPush
    <3>7. NodesHeld' = NodesHeld /\ RecordsHeld' = RecordsHeld \ {r}
      BY <1>5, <2>3, <2>6 DEF NodesHeld, RecordsHeld, At, SameTree
    <3>8. n + 1 \in Nat
      OBVIOUS
    <3>9. Sound(n + 1, g)'
      BY <1>9, <3>6, <3>7 DEF Sound
    <3> QED
      BY <3>8, <3>9 DEF SomeFreeList
  <2>8. InFlight'
    <3>1. /\ NodesTo(origin', p)[DEPTH] = NodesTo(origin, p)[DEPTH]
          /\ RecordAt(origin', p) = r
      BY <1>1, <2>6, Sizes DEF SameTree, SameWay, r
    <3>2. AtLeafSlot'
      BY <1>2, <1>4, <1>5, <3>1 DEF AtLeafSlot
    <3> QED
      BY <1>2, <1>5, <3>1, <3>2 DEF InFlight, At
  <2>9. Counted'
    BY <1>0, <1>3, <1>5, <2>2, <2>6 DEF Counted, Ahead, Behind, At, SameTree
  <2>10. Marked'
    BY <1>0, <1>3, <1>5, <2>2, <2>6, MarkedKept DEF BitPlaces, At, SameTree
  <2> QED
    BY <2>6, <2>7, <2>8, <2>9, <2>10 DEF WholeInv, SameTree
<1> QED
  BY <1>10, <1>11, <1>12, <1>13 DEF IInv

(* A root without children is all there is. *)
LEMMA BareStore ==
  ASSUME origin' \in Origin, strategy' = NewStrategy, faults' \in Nat,
         \A i \in 0 .. FANOUT - 1 : ReadSlot(origin', ROOT_OFFSET, i) = ABSENT,
         origin'.word[ROOT_OFFSET] = 0,
         op'.at \in {"idle", "clear_header"}, op'.at = "idle" => len' = 0
  PROVE  WholeInv'
<1>1. /\ Tree(origin') /\ NodesOf(origin') = {ROOT_OFFSET} /\ RecordsOf(origin') = {}
      /\ Stored(origin') = {} /\ IsFiniteSet(Stored(origin'))
      /\ Cardinality(Stored(origin')) = 0
  BY BareRoot, EmptyStored
<1>2. SomeFreeList'
  <2>1. NodesHeld' = {ROOT_OFFSET} /\ RecordsHeld' = {}
    BY <1>1 DEF NodesHeld, RecordsHeld, At
  <2> QED
    BY <2>1, FreshSpans, ValueSizes DEF SomeFreeList, Sound
<1>3. InFlight'
  BY DEF InFlight, At
<1>4. Counted'
  BY <1>1 DEF Counted, Ahead, Behind, At
<1>5. Marked'
  BY <1>1, NoBits DEF Marked, MarkedAt, At
<1> QED
  BY <1>1, <1>2, <1>3, <1>4, <1>5 DEF WholeInv

LEMMA ClearInv ==
  ASSUME IInv, Clear PROVE IInv'
<1>1. /\ origin \in Origin /\ faults \in 0 .. MAX_FAULTS /\ MAX_FAULTS \in Nat
  BY StoreAssumption DEF IInv, TypeInv
<1>2. CASE Fails("clear", NewStrategy)
  <2>1. Abort("clear", NewStrategy) /\ faults' \in 0 .. MAX_FAULTS
    BY <1>1, <1>2 DEF Fails
  <2>2. NewStrategy.bump >= ROOT_OFFSET + NODE_SIZE
    BY ValueSizes, Sizes
  <2> QED
    BY <2>1, <2>2, SpansAborted, ValueSizes
<1>3. CASE ~ Fails("clear", NewStrategy)
  <2>1. /\ At("idle") /\ strategy' = NewStrategy
        /\ origin' = ZeroNode(origin, ROOT_OFFSET) /\ synced' = FALSE
        /\ op' = [Idle EXCEPT !.at = "clear_header", !.name = "clear"]
        /\ UNCHANGED <<len, dirty, result, faults, wounds, unmarked, torn>>
    BY <1>3 DEF Clear, Writes, BitPlaces, At
  <2>2. op' \in Op /\ op'.at = "clear_header" /\ op'.name = "clear"
    <3>1. "clear_header" \in Places /\ "clear" \in Names
      BY DEF Places, Names
    <3> QED
      BY <2>1, <3>1, IdleType DEF Op
  <2>3. ROOT_OFFSET \in Nat /\ ROOT_OFFSET + NODE_SIZE <= MAX_OFFSET
    BY Sizes
  <2>4. /\ origin' \in Origin /\ origin'.header = origin.header
        /\ origin.len <= origin'.len
        /\ \A pos \in 0 .. MAX_OFFSET :
             origin'.word[pos] = IF ROOT_OFFSET <= pos /\ pos < ROOT_OFFSET + NODE_SIZE
                                 THEN 0 ELSE origin.word[pos]
    BY <1>1, <2>1, <2>3, ZeroNodeIs
  <2>5. ASSUME NEW i \in 0 .. FANOUT - 1 PROVE ReadSlot(origin', ROOT_OFFSET, i) = ABSENT
    <3>1. /\ SlotPos(ROOT_OFFSET, i) \in 0 .. MAX_OFFSET
          /\ ROOT_OFFSET <= SlotPos(ROOT_OFFSET, i)
          /\ SlotPos(ROOT_OFFSET, i) < ROOT_OFFSET + NODE_SIZE
      BY Sizes DEF SlotPos
    <3> QED
      BY <2>4, <3>1, Sizes DEF ReadSlot
  <2>6. WholeInv'
    <3>1. origin'.word[ROOT_OFFSET] = 0
      BY <2>3, <2>4, Sizes
    <3> QED
      BY <1>1, <2>1, <2>2, <2>4, <2>5, <3>1, BareStore
  <2>7. TypeInv'
    BY <2>1, <2>2, <2>4, ValueSizes DEF IInv, TypeInv
  <2>8. OpNamed'
    BY <2>1, <2>2 DEF OpNamed, PutPlaces, RemovePlaces
  <2>9. HeaderSound' /\ StrategySound'
    <3>1. /\ origin.header.free_head \in Nat /\ origin.len \in Nat /\ origin'.len \in Nat
      BY <1>1, <2>4 DEF Origin, Header
    <3>2. HeaderSound'
      BY <2>4, <3>1 DEF IInv, HeaderSound
    <3>3. StrategySound'
      BY <2>1, ValueSizes, Sizes DEF StrategySound
    <3> QED
      BY <3>2, <3>3
  <2> QED
    BY <2>6, <2>7, <2>8, <2>9 DEF IInv
<1> QED
  BY <1>2, <1>3

LEMMA ClearHeaderInv ==
  ASSUME IInv, ClearHeader PROVE IInv'
<1>1. /\ At("clear_header") /\ strategy = NewStrategy
      /\ origin \in Origin /\ faults \in 0 .. MAX_FAULTS /\ MAX_FAULTS \in Nat
  BY StoreAssumption DEF ClearHeader, At, IInv, TypeInv, OpNamed
<1>2. CASE Fails("clear", strategy)
  BY <1>2, RemoveAborts
<1>3. CASE ~ Fails("clear", strategy)
  <2>1. /\ origin' = WriteHeader(origin, strategy) /\ len' = 0 /\ dirty' = FALSE
        /\ op' = Idle /\ synced' = FALSE /\ wounds' = {}
        /\ unmarked' = {} /\ torn' = {}
        /\ UNCHANGED <<strategy, result, faults>>
    BY <1>3 DEF ClearHeader
  <2>2. Whole
    BY <1>1 DEF Whole
  <2>3. /\ \A i \in 0 .. FANOUT - 1 : ReadSlot(origin, ROOT_OFFSET, i) = ABSENT
        /\ origin.word[ROOT_OFFSET] = 0
    BY <1>1, <2>2, Holds DEF InFlight
  <2>4. /\ origin' \in Origin /\ origin'.word = origin.word /\ origin'.header = NewStrategy
    <3>1. Later(origin.len, ROOT_OFFSET) \in 0 .. MAX_OFFSET
      BY <1>1, Sizes DEF Later, Origin
    <3> QED
      BY <1>1, <2>1, <3>1, ValueSizes DEF WriteHeader, Origin
  <2>5. \A i \in 0 .. FANOUT - 1 : ReadSlot(origin', ROOT_OFFSET, i) = ABSENT
    BY <2>3, <2>4 DEF ReadSlot
  <2>6. WholeInv'
    <3>1. origin'.word[ROOT_OFFSET] = 0
      BY <2>3, <2>4
    <3> QED
      BY <1>1, <2>1, <2>4, <2>5, <3>1, BareStore, IdleType
  <2>7. TypeInv'
    BY <1>1, <2>1, <2>4, IdleType DEF IInv, TypeInv
  <2>8. OpNamed'
    BY <2>1, IdleType DEF OpNamed, PutPlaces, RemovePlaces
  <2>9. HeaderSound' /\ StrategySound'
    BY <1>1, <2>1, <2>4, ValueSizes, Sizes DEF HeaderSound, StrategySound
  <2> QED
    BY <2>6, <2>7, <2>8, <2>9 DEF IInv
<1> QED
  BY <1>2, <1>3
(***************************************************************************)
(* The dirty flag.  It needs no assumption on how the store is reopened,   *)
(* and nothing of the layout: only what kind of record each of strategy,   *)
(* header and operation is, and where the header has been written.         *)
(***************************************************************************)
OriginShape == origin \in [header : {origin.header}, word : {origin.word}, len : {origin.len}]
OpShape ==
  op \in [at : {op.at}, name : {op.name}, path : {op.path}, value : {op.value},
          slot : {op.slot}, target : {op.target}, prev : {op.prev}]
HeaderShape(h) ==
  /\ h \in [bump : Nat, free_head : {h.free_head}, record_count : {h.record_count}]
  /\ h.bump >= ROOT_OFFSET + NODE_SIZE

DirtyInv ==
  /\ OriginShape /\ OpShape
  /\ HeaderShape(strategy)
  /\ origin.header = NoHeader \/ HeaderShape(origin.header)
  /\ At("sync") => origin.header = strategy /\ strategy.record_count = len
  /\ At("clear_header") => strategy = NewStrategy
  /\ DirtyTracksHeader

OffRecord == {"idle", "sync", "clear_header"}

LEMMA IdleShape ==
  ASSUME NEW o, o = Idle
  PROVE  /\ o.at = "idle"
         /\ o \in [at : {o.at}, name : {o.name}, path : {o.path}, value : {o.value},
                   slot : {o.slot}, target : {o.target}, prev : {o.prev}]
BY DEF Idle

LEMMA WordsShape ==
  ASSUME OriginShape, NEW pos, NEW ws, origin' = WriteWords(origin, pos, ws)
  PROVE  OriginShape' /\ origin'.header = origin.header
<1> DEFINE word == [p \in 0 .. MAX_OFFSET |->
                     IF pos <= p /\ p < pos + Len(ws) THEN ws[p - pos + 1] ELSE origin.word[p]]
           length == Later(origin.len, pos + Len(ws))
<1>1. origin' = [origin EXCEPT !.word = word, !.len = length]
  BY DEF WriteWords
<1> HIDE DEF word, length
<1> QED
  BY <1>1 DEF OriginShape

LEMMA HeaderShapes ==
  ASSUME OriginShape, NEW s, origin' = WriteHeader(origin, s)
  PROVE  OriginShape' /\ origin'.header = s
<1> DEFINE length == Later(origin.len, ROOT_OFFSET)
<1>1. origin' = [origin EXCEPT !.header = s, !.len = length]
  BY DEF WriteHeader
<1> HIDE DEF length
<1> QED
  BY <1>1 DEF OriginShape

LEMMA FreshHeader == HeaderShape(NewStrategy) /\ NewStrategy.record_count = 0
BY Sizes DEF HeaderShape, NewStrategy

LEMMA HeaderFields ==
  ASSUME NEW h, HeaderShape(h), NEW n
  PROVE  /\ h # NoHeader
         /\ HeaderShape([h EXCEPT !.record_count = n])
         /\ [h EXCEPT !.record_count = n].record_count = n
         /\ [[h EXCEPT !.record_count = n] EXCEPT !.record_count = n]
              = [h EXCEPT !.record_count = n]
         /\ h.record_count = n => [h EXCEPT !.record_count = n] = h
<1>1. h # NoHeader
  BY Sizes DEF HeaderShape, NoHeader
<1>2. h \in [bump : Nat, free_head : {h.free_head}, record_count : {h.record_count}]
  BY DEF HeaderShape
<1> DEFINE g == [h EXCEPT !.record_count = n]
<1>3. /\ g.bump = h.bump /\ g.free_head = h.free_head /\ g.record_count = n
      /\ g \in [bump : Nat, free_head : {h.free_head}, record_count : {n}]
  BY <1>2
<1>4. h.record_count = n => g = h
  BY <1>2
<1> HIDE DEF g
<1>5. HeaderShape(g)
  BY <1>3 DEF HeaderShape
<1>6. [g EXCEPT !.record_count = n] = g
  BY <1>3
<1> QED
  BY <1>1, <1>3, <1>4, <1>5, <1>6 DEF g

(* An operation goes on to a place of a put or a remove. *)
LEMMA GoesOn ==
  ASSUME OriginShape', OpShape', HeaderShape(strategy'),
         origin'.header = NoHeader \/ HeaderShape(origin'.header),
         op'.at \notin OffRecord
  PROVE  DirtyInv'
BY DEF DirtyInv, DirtyTracksHeader, At, OffRecord

(* An operation ends, and the header is known to be behind. *)
LEMMA EndsBehind ==
  ASSUME OriginShape', HeaderShape(strategy'),
         origin'.header = NoHeader \/ HeaderShape(origin'.header),
         op' = Idle, dirty' = TRUE \/ "header" \in wounds'
  PROVE  DirtyInv'
<1>1. OpShape' /\ op'.at = "idle"
  BY IdleShape DEF OpShape
<1> QED
  BY <1>1 DEF DirtyInv, DirtyTracksHeader, At

(* An operation ends, and the header is up to date. *)
LEMMA EndsCurrent ==
  ASSUME OriginShape', HeaderShape(strategy'),
         origin'.header = NoHeader \/ HeaderShape(origin'.header),
         op' = Idle, HeaderIsCurrent'
  PROVE  DirtyInv'
<1>1. OpShape' /\ op'.at = "idle"
  BY IdleShape DEF OpShape
<1> QED
  BY <1>1 DEF DirtyInv, DirtyTracksHeader, At

LEMMA AbortBehind ==
  ASSUME DirtyInv, NEW s, HeaderShape(s), NEW name \in {"put", "remove", "clear"},
         Abort(name, s)
  PROVE  DirtyInv'
<1>1. /\ strategy' = s /\ op' = Idle /\ origin' = origin
  BY DEF Abort
<1>2. "header" \in wounds'
  <2>1. CASE name = "put"
    BY <2>1 DEF Abort
  <2>2. CASE name \in {"remove", "clear"}
    BY <2>2 DEF Abort
  <2> QED
    BY <2>1, <2>2
<1>3. OriginShape' /\ (origin'.header = NoHeader \/ HeaderShape(origin'.header))
  BY <1>1 DEF DirtyInv, OriginShape
<1> QED
  BY <1>1, <1>2, <1>3, EndsBehind

LEMMA DirtyInit == Init => DirtyInv
<1> SUFFICES ASSUME Init PROVE DirtyInv
  OBVIOUS
<1>1. strategy = NewStrategy /\ origin = EmptyOrigin /\ len = 0 /\ op = Idle
  BY DEF Init
<1>2. OriginShape /\ origin.header = NoHeader
  BY <1>1 DEF OriginShape, EmptyOrigin
<1>3. OpShape /\ op.at = "idle"
  BY <1>1, IdleShape DEF OpShape
<1>4. HeaderIsCurrent
  BY <1>1, <1>2, FreshHeader, HeaderFields DEF HeaderIsCurrent, LoadOrNew
<1> QED
  BY <1>1, <1>2, <1>3, <1>4, FreshHeader DEF DirtyInv, DirtyTracksHeader, At

LEMMA DirtyPut ==
  ASSUME DirtyInv,
         \/ \E p \in Paths, v \in Payloads : Put(p, v)
         \/ PutAllocNode \/ PutLinkNode \/ PutLinkNodeBit \/ PutAllocRecord
         \/ PutLeaf \/ PutLeafBit \/ PutLength \/ PutOverwrite \/ PutPayload
         \/ PutUnread \/ PutRefused
  PROVE  DirtyInv'
<1>1. /\ OriginShape /\ OpShape /\ HeaderShape(strategy)
      /\ origin.header = NoHeader \/ HeaderShape(origin.header)
  BY DEF DirtyInv
<1>2. ASSUME NEW p, NEW v, Put(p, v) PROVE DirtyInv'
  <2>1. /\ origin' = origin /\ strategy' = strategy
        /\ op' = [Idle EXCEPT !.at = "locate", !.name = "put", !.path = p, !.value = v]
    BY <1>2 DEF Put
  <2>2. OpShape' /\ op'.at = "locate"
    BY <2>1 DEF Idle, OpShape
  <2> QED
    BY <1>1, <2>1, <2>2, GoesOn DEF OriginShape, OffRecord
<1>3. ASSUME Fails("put", strategy) \/ PutUnread \/ PutRefused PROVE DirtyInv'
  BY <1>1, <1>3, AbortBehind DEF Fails, PutUnread, PutRefused
<1>4. ASSUME NEW pos, NEW ws, origin' = WriteWords(origin, pos, ws)
      PROVE  /\ OriginShape'
             /\ origin'.header = NoHeader \/ HeaderShape(origin'.header)
  BY <1>1, <1>4, WordsShape
<1>5. ASSUME NEW place, place \notin OffRecord, Go(place)
      PROVE  OpShape' /\ op'.at \notin OffRecord
  <2>1. op' = [op EXCEPT !.at = place]
    BY <1>5 DEF Go
  <2>2. op'.at = place /\ OpShape'
    BY <1>1, <2>1 DEF OpShape
  <2> QED
    BY <1>5, <2>2
<1>6. ASSUME NEW place, place \notin OffRecord, NEW slot, NEW target,
             op' = [op EXCEPT !.at = place, !.slot = slot, !.target = target]
      PROVE  OpShape' /\ op'.at \notin OffRecord
  <2>1. op'.at = place /\ OpShape'
    BY <1>1, <1>6 DEF OpShape
  <2> QED
    BY <1>6, <2>1
<1>7. ASSUME PutAllocNode PROVE DirtyInv'
  <2> DEFINE moved == [strategy EXCEPT !.bump = @ + NODE_SIZE]
             slot == [node |-> Found.node, index |-> Found.index]
             zeroes == [i \in 1 .. NODE_SIZE |-> 0]
  <2>1. HeaderShape(moved)
    BY <1>1, Sizes DEF HeaderShape
  <2>2. CASE Fails("put", moved)
    <3> HIDE DEF moved
    <3> QED
      BY <2>1, <2>2, AbortBehind DEF Fails
  <2>3. CASE ~ Fails("put", moved)
    <3>1. /\ strategy' = moved /\ origin' = WriteWords(origin, strategy.bump, zeroes)
          /\ op' = [op EXCEPT !.at = "link", !.slot = slot, !.target = strategy.bump]
      BY <1>7, <2>3 DEF PutAllocNode, Writes, ZeroNode
    <3>2. "link" \notin OffRecord
      BY DEF OffRecord
    <3> HIDE DEF moved, slot, zeroes
    <3>3. OpShape' /\ op'.at \notin OffRecord
      BY <1>6, <3>1, <3>2
    <3>4. HeaderShape(strategy')
      BY <2>1, <3>1
    <3>5. OriginShape' /\ (origin'.header = NoHeader \/ HeaderShape(origin'.header))
      BY <1>4, <3>1
    <3> QED
      BY <3>3, <3>4, <3>5, GoesOn
  <2> QED
    BY <2>2, <2>3
<1>8. ASSUME PutLinkNode \/ PutLeaf PROVE DirtyInv'
  <2>1. CASE Fails("put", strategy)
    BY <1>3, <2>1
  <2>2. CASE ~ Fails("put", strategy)
    <3>1. /\ strategy' = strategy
          /\ origin' = WriteWords(origin, SlotPos(op.slot.node, op.slot.index), <<op.target>>)
          /\ Go("link_bit") \/ Go("leaf_bit")
      BY <1>8, <2>2 DEF PutLinkNode, PutLeaf, Writes, WriteSlotWord
    <3>2. OpShape' /\ op'.at \notin OffRecord
      BY <1>5, <3>1 DEF OffRecord
    <3>3. OriginShape' /\ (origin'.header = NoHeader \/ HeaderShape(origin'.header))
      BY <1>4, <3>1
    <3> QED
      BY <1>1, <3>1, <3>2, <3>3, GoesOn
  <2> QED
    BY <2>1, <2>2
<1>9. ASSUME NEW slot, NEW value, origin' = WriteSlotBit(origin, slot, value)
      PROVE  /\ OriginShape'
             /\ origin'.header = NoHeader \/ HeaderShape(origin'.header)
  <2>1. \E ws : origin' = WriteWords(origin, slot.node, ws)
    BY <1>9 DEF WriteSlotBit
  <2> QED
    BY <1>4, <2>1
<1>10. ASSUME PutLinkNodeBit PROVE DirtyInv'
  <2>1. CASE Fails("put", strategy)
    BY <1>3, <2>1
  <2>2. CASE ~ Fails("put", strategy)
    <3>1. /\ strategy' = strategy /\ origin' = WriteSlotBit(origin, op.slot, op.target)
          /\ op' = [op EXCEPT !.at = "locate", !.slot = NoSlot, !.target = ABSENT]
      BY <1>10, <2>2 DEF PutLinkNodeBit, Writes
    <3>2. OpShape' /\ op'.at \notin OffRecord
      BY <1>6, <3>1 DEF OffRecord
    <3>3. OriginShape' /\ (origin'.header = NoHeader \/ HeaderShape(origin'.header))
      BY <1>9, <3>1
    <3> QED
      BY <1>1, <3>1, <3>2, <3>3, GoesOn
  <2> QED
    BY <2>1, <2>2
<1>11. ASSUME PutLeafBit PROVE DirtyInv'
  <2>1. CASE Fails("put", strategy)
    BY <1>3, <2>1
  <2>2. CASE ~ Fails("put", strategy)
    <3>1. /\ strategy' = strategy /\ origin' = WriteSlotBit(origin, op.slot, op.target)
          /\ Go("length")
      BY <1>11, <2>2 DEF PutLeafBit, Writes
    <3>2. OpShape' /\ op'.at \notin OffRecord
      BY <1>5, <3>1 DEF OffRecord
    <3>3. OriginShape' /\ (origin'.header = NoHeader \/ HeaderShape(origin'.header))
      BY <1>9, <3>1
    <3> QED
      BY <1>1, <3>1, <3>2, <3>3, GoesOn
  <2> QED
    BY <2>1, <2>2
<1>12. ASSUME PutAllocRecord PROVE DirtyInv'
  <2> DEFINE slot == [node |-> Found.node, index |-> Found.index]
             target == AllocatedRecord(strategy)
  <2>1. /\ strategy' = AfterAllocRecord(origin, strategy) /\ origin' = origin
        /\ op' = [op EXCEPT !.at = "leaf", !.slot = slot, !.target = target]
    BY <1>12 DEF PutAllocRecord
  <2> HIDE DEF slot, target
  <2>2. OpShape' /\ op'.at \notin OffRecord
    BY <1>6, <2>1 DEF OffRecord
  <2>3. HeaderShape(strategy')
    <3>1. CASE strategy' = [strategy EXCEPT !.free_head = origin.word[strategy.free_head]]
      <4> DEFINE next == origin.word[strategy.free_head]
      <4>1. strategy' = [strategy EXCEPT !.free_head = next]
        BY <3>1
      <4> HIDE DEF next
      <4> QED
        BY <1>1, <4>1 DEF HeaderShape
    <3>2. CASE strategy' = [strategy EXCEPT !.bump = @ + RECORD_SLOT_SIZE]
      BY <1>1, <3>2, Sizes DEF HeaderShape
    <3> QED
      BY <2>1, <3>1, <3>2 DEF AfterAllocRecord
  <2>4. OriginShape' /\ (origin'.header = NoHeader \/ HeaderShape(origin'.header))
    BY <1>1, <2>1 DEF OriginShape
  <2> QED
    BY <2>2, <2>3, <2>4, GoesOn
<1>13. ASSUME NEW r, NEW prev, WriteLength(r, prev) PROVE DirtyInv'
  <2>1. /\ origin' = WriteWords(origin, r, <<Len(op.value)>>) /\ strategy' = strategy
        /\ \/ op' = Idle /\ dirty' = TRUE
           \/ op' = [op EXCEPT !.at = "payload", !.slot = NoSlot, !.target = r, !.prev = prev]
    BY <1>13 DEF WriteLength, Writes
  <2>2. OriginShape' /\ (origin'.header = NoHeader \/ HeaderShape(origin'.header))
    BY <1>4, <2>1
  <2>3. CASE op' = Idle /\ dirty' = TRUE
    BY <1>1, <2>1, <2>2, <2>3, EndsBehind
  <2>4. CASE op' = [op EXCEPT !.at = "payload", !.slot = NoSlot, !.target = r, !.prev = prev]
    <3>1. OpShape' /\ op'.at = "payload"
      BY <1>1, <2>4 DEF OpShape
    <3> QED
      BY <1>1, <2>1, <2>2, <3>1, GoesOn DEF OffRecord
  <2> QED
    BY <2>1, <2>3, <2>4
<1>14. ASSUME PutLength \/ PutOverwrite PROVE DirtyInv'
  BY <1>3, <1>13, <1>14 DEF PutLength, PutOverwrite
<1>15. ASSUME PutPayload PROVE DirtyInv'
  <2>1. CASE Fails("put", strategy)
    BY <1>3, <2>1
  <2>2. CASE ~ Fails("put", strategy)
    <3>1. /\ strategy' = strategy /\ origin' = WriteWords(origin, op.target + 1, op.value)
          /\ op' = Idle /\ dirty' = TRUE
      BY <1>15, <2>2 DEF PutPayload, Writes
    <3>2. OriginShape' /\ (origin'.header = NoHeader \/ HeaderShape(origin'.header))
      BY <1>4, <3>1
    <3> QED
      BY <1>1, <3>1, <3>2, EndsBehind
  <2> QED
    BY <2>1, <2>2
<1> QED
  BY <1>2, <1>3, <1>7, <1>8, <1>10, <1>11, <1>12, <1>14, <1>15
LEMMA DirtyRemove ==
  ASSUME DirtyInv,
         \/ \E p \in Paths : RemoveNothing(p) \/ Remove(p)
         \/ \E v \in Payloads : PutTooLarge(v)
         \/ RemoveLeaf \/ RemoveLeafBit \/ RemoveFails
  PROVE  DirtyInv'
<1>1. /\ OriginShape /\ OpShape /\ HeaderShape(strategy)
      /\ origin.header = NoHeader \/ HeaderShape(origin.header)
  BY DEF DirtyInv
<1>2. ASSUME NEW p, NEW v, RemoveNothing(p) \/ PutTooLarge(v) \/ RemoveFails
      PROVE  DirtyInv'
  <2>1. UNCHANGED <<strategy, origin, len, dirty, op, wounds>>
    BY <1>2 DEF RemoveNothing, PutTooLarge, RemoveFails, FailsUnchanged
  <2> QED
    BY <2>1 DEF DirtyInv, OriginShape, OpShape, DirtyTracksHeader, HeaderIsCurrent, At
<1>3. ASSUME Fails("remove", strategy) PROVE DirtyInv'
  BY <1>1, <1>3, AbortBehind DEF Fails
<1>4. ASSUME NEW pos, NEW ws, origin' = WriteWords(origin, pos, ws)
      PROVE  /\ OriginShape'
             /\ origin'.header = NoHeader \/ HeaderShape(origin'.header)
  BY <1>1, <1>4, WordsShape
<1>5. ASSUME NEW p, Remove(p) PROVE DirtyInv'
  <2> DEFINE r == Locate(origin, p).record_offset
             slot == [node |-> Locate(origin, p).node, index |-> Locate(origin, p).index]
             prev == Lookup(origin, p)
  <2>1. /\ origin' = WriteWords(origin, r, <<strategy.free_head>>)
        /\ strategy' = [strategy EXCEPT !.free_head = r]
        /\ op' = [Idle EXCEPT !.at = "unleaf", !.name = "remove", !.path = p,
                    !.slot = slot, !.target = r, !.prev = prev]
    BY <1>5 DEF Remove, Writes
  <2> HIDE DEF r, slot, prev
  <2>2. HeaderShape(strategy')
    BY <1>1, <2>1 DEF HeaderShape
  <2>3. OpShape' /\ op'.at = "unleaf"
    BY <2>1 DEF Idle, OpShape
  <2>4. OriginShape' /\ (origin'.header = NoHeader \/ HeaderShape(origin'.header))
    BY <1>4, <2>1
  <2> QED
    BY <2>2, <2>3, <2>4, GoesOn DEF OffRecord
<1>6. ASSUME RemoveLeaf PROVE DirtyInv'
  <2>1. CASE Fails("remove", strategy)
    BY <1>3, <2>1
  <2>2. CASE ~ Fails("remove", strategy)
    <3>1. /\ strategy' = strategy
          /\ origin' = WriteWords(origin, SlotPos(op.slot.node, op.slot.index), <<ABSENT>>)
          /\ op' = [op EXCEPT !.at = "unleaf_bit"]
      BY <1>6, <2>2 DEF RemoveLeaf, Writes, WriteSlotWord, Go
    <3>2. OpShape' /\ op'.at = "unleaf_bit"
      BY <1>1, <3>1 DEF OpShape
    <3>3. OriginShape' /\ (origin'.header = NoHeader \/ HeaderShape(origin'.header))
      BY <1>4, <3>1
    <3> QED
      BY <1>1, <3>1, <3>2, <3>3, GoesOn DEF OffRecord
  <2> QED
    BY <2>1, <2>2
<1>7. ASSUME RemoveLeafBit PROVE DirtyInv'
  <2>1. CASE Fails("remove", strategy)
    BY <1>3, <2>1
  <2>2. CASE ~ Fails("remove", strategy)
    <3>1. /\ strategy' = strategy /\ origin' = WriteSlotBit(origin, op.slot, ABSENT)
          /\ op' = Idle /\ dirty' = TRUE
      BY <1>7, <2>2 DEF RemoveLeafBit, Writes
    <3>2. \E ws : origin' = WriteWords(origin, op.slot.node, ws)
      BY <3>1 DEF WriteSlotBit
    <3>3. OriginShape' /\ (origin'.header = NoHeader \/ HeaderShape(origin'.header))
      BY <1>4, <3>2
    <3> QED
      BY <1>1, <3>1, <3>3, EndsBehind
  <2> QED
    BY <2>1, <2>2
<1> QED
  BY <1>2, <1>5, <1>6, <1>7

LEMMA DirtyFlush ==
  ASSUME DirtyInv, Clear \/ ClearHeader \/ Flush \/ FlushOrigin \/ Reopen
  PROVE  DirtyInv'
<1>1. /\ OriginShape /\ OpShape /\ HeaderShape(strategy)
      /\ origin.header = NoHeader \/ HeaderShape(origin.header)
  BY DEF DirtyInv
<1>2. ASSUME Clear PROVE DirtyInv'
  <2> DEFINE zeroes == [i \in 1 .. NODE_SIZE |-> 0]
  <2>1. CASE Fails("clear", NewStrategy)
    BY <2>1, AbortBehind, FreshHeader DEF Fails
  <2>2. CASE ~ Fails("clear", NewStrategy)
    <3>1. /\ strategy' = NewStrategy /\ origin' = WriteWords(origin, ROOT_OFFSET, zeroes)
          /\ op' = [Idle EXCEPT !.at = "clear_header", !.name = "clear"]
      BY <1>2, <2>2 DEF Clear, Writes, ZeroNode
    <3> HIDE DEF zeroes
    <3>2. OpShape' /\ op'.at = "clear_header"
      BY <3>1 DEF Idle, OpShape
    <3>3. OriginShape' /\ (origin'.header = NoHeader \/ HeaderShape(origin'.header))
      BY <1>1, <3>1, WordsShape
    <3> QED
      BY <3>1, <3>2, <3>3, FreshHeader DEF DirtyInv, DirtyTracksHeader, At
  <2> QED
    BY <2>1, <2>2
<1>3. ASSUME ClearHeader PROVE DirtyInv'
  <2>1. strategy = NewStrategy
    BY <1>3 DEF ClearHeader, DirtyInv
  <2>2. CASE Fails("clear", strategy)
    BY <1>1, <2>2, AbortBehind DEF Fails
  <2>3. CASE ~ Fails("clear", strategy)
    <3>1. /\ strategy' = NewStrategy /\ origin' = WriteHeader(origin, NewStrategy)
          /\ len' = 0 /\ op' = Idle
      BY <1>3, <2>1, <2>3 DEF ClearHeader
    <3>2. OriginShape' /\ origin'.header = NewStrategy
      BY <1>1, <3>1, HeaderShapes
    <3>3. HeaderIsCurrent'
      BY <3>1, <3>2, FreshHeader, HeaderFields DEF HeaderIsCurrent, LoadOrNew
    <3> QED
      BY <3>1, <3>2, <3>3, FreshHeader, EndsCurrent
  <2> QED
    BY <2>2, <2>3
<1>4. ASSUME Flush PROVE DirtyInv'
  <2> DEFINE counted == [strategy EXCEPT !.record_count = len]
  <2>1. /\ HeaderShape(counted) /\ counted.record_count = len
        /\ [counted EXCEPT !.record_count = len] = counted
    BY <1>1, HeaderFields
  <2>2. CASE Fails("flush", counted)
    <3> HIDE DEF counted
    <3>1. /\ strategy' = counted /\ op' = Idle /\ wounds' = wounds
          /\ origin' = origin /\ len' = len /\ dirty' = dirty
      BY <2>2 DEF Fails, Abort
    <3>2. OriginShape' /\ (origin'.header = NoHeader \/ HeaderShape(origin'.header))
      BY <1>1, <3>1 DEF OriginShape
    <3>3. OpShape' /\ op'.at = "idle"
      BY <3>1, IdleShape DEF OpShape
    <3>4. DirtyTracksHeader'
      <4> SUFFICES ASSUME ~ dirty, "header" \notin wounds PROVE HeaderIsCurrent'
        BY <3>1 DEF DirtyTracksHeader
      <4>1. HeaderIsCurrent
        BY <1>4 DEF Flush, DirtyInv, DirtyTracksHeader
      <4>2. LoadOrNew(origin) = counted
        BY <4>1 DEF HeaderIsCurrent, counted
      <4> QED
        BY <2>1, <3>1, <4>2 DEF HeaderIsCurrent
    <3> QED
      BY <2>1, <3>1, <3>2, <3>3, <3>4 DEF DirtyInv, At
  <2>3. CASE ~ Fails("flush", counted)
    <3>1. /\ strategy' = counted /\ origin' = WriteHeader(origin, counted) /\ len' = len
          /\ op' = [Idle EXCEPT !.at = "sync", !.name = "flush"]
      BY <1>4, <2>3 DEF Flush, Writes
    <3> HIDE DEF counted
    <3>2. OpShape' /\ op'.at = "sync"
      BY <3>1 DEF Idle, OpShape
    <3>3. OriginShape' /\ origin'.header = counted
      BY <1>1, <3>1, HeaderShapes
    <3> QED
      BY <2>1, <3>1, <3>2, <3>3 DEF DirtyInv, DirtyTracksHeader, At
  <2> QED
    BY <2>2, <2>3
<1>5. ASSUME FlushOrigin PROVE DirtyInv'
  <2>1. origin.header = strategy /\ strategy.record_count = len
    BY <1>5 DEF FlushOrigin, DirtyInv
  <2>2. HeaderIsCurrent
    BY <1>1, <2>1, HeaderFields DEF HeaderIsCurrent, LoadOrNew
  <2>3. /\ strategy' = strategy /\ origin' = origin /\ len' = len /\ op' = Idle
    BY <1>5 DEF FlushOrigin, Fails, Abort
  <2> QED
    BY <1>1, <2>2, <2>3, EndsCurrent DEF OriginShape, HeaderIsCurrent
<1>6. ASSUME Reopen PROVE DirtyInv'
  <2> DEFINE h == LoadOrNew(origin)
  <2>1. HeaderShape(h)
    BY <1>1, FreshHeader DEF LoadOrNew
  <2>2. /\ strategy' = h /\ len' = h.record_count /\ origin' = origin /\ op' = Idle
        /\ LoadOrNew(origin') = h
    BY <1>6 DEF Reopen
  <2> HIDE DEF h
  <2>3. [h EXCEPT !.record_count = h.record_count] = h
    BY <2>1, HeaderFields
  <2>4. HeaderIsCurrent'
    BY <2>2, <2>3 DEF HeaderIsCurrent
  <2> QED
    BY <1>1, <2>1, <2>2, <2>4, EndsCurrent DEF OriginShape
<1> QED
  BY <1>2, <1>3, <1>4, <1>5, <1>6

LEMMA DirtyStep == DirtyInv /\ [Next]_vars => DirtyInv'
<1> SUFFICES ASSUME DirtyInv, [Next]_vars PROVE DirtyInv'
  OBVIOUS
<1>1. CASE UNCHANGED vars
  BY <1>1 DEF vars, DirtyInv, OriginShape, OpShape, DirtyTracksHeader, HeaderIsCurrent, At
<1>2. CASE Next
  BY <1>2, DirtyPut, DirtyRemove, DirtyFlush DEF Next
<1> QED
  BY <1>1, <1>2

(* A store that is not dirty reopens with the strategy and the len it has,  *)
(* unless an operation failed since the header was last written: whatever   *)
(* fails, and whenever the process ends, a crash between two writes too.    *)
(* flush, clear_checked and the dirty flag in map/mod.rs.                   *)
THEOREM DirtyTracks == Spec => []DirtyTracksHeader
<1>1. DirtyInv => DirtyTracksHeader
  BY DEF DirtyInv
<1> QED
  BY <1>1, DirtyInit, DirtyStep, PTL DEF Spec
(***************************************************************************)
(* The theorems on the layout.                                             *)
(***************************************************************************)
LEMMA StepInv ==
  IInv /\ Covered /\ DirtyTracksHeader /\ [Next]_vars => IInv'
<1> SUFFICES ASSUME IInv, Covered, DirtyTracksHeader, [Next]_vars PROVE IInv'
  OBVIOUS
<1>1. ThenCleared
  BY DEF Covered
<1>2. CASE UNCHANGED vars
  <2>1. /\ TypeInv' = TypeInv /\ OpNamed' = OpNamed /\ HeaderSound' = HeaderSound
        /\ StrategySound' = StrategySound /\ Whole' = Whole
    BY <1>2 DEF vars, TypeInv, OpNamed, HeaderSound, StrategySound, Whole, At
  <2>2. /\ NodesHeld' = NodesHeld /\ RecordsHeld' = RecordsHeld
    BY <1>2 DEF vars, NodesHeld, RecordsHeld, At
  <2>3. SomeFreeList' <=> SomeFreeList
    BY <1>2, <2>2 DEF vars, SomeFreeList, Sound
  <2>4. InFlight' <=> InFlight
    BY <1>2 DEF vars, InFlight, AtLeafSlot, At
  <2>5. (Counted' <=> Counted) /\ (Marked' <=> Marked)
    BY <1>2 DEF vars, Counted, Marked, MarkedAt, Ahead, Behind, At
  <2>6. WholeInv' <=> WholeInv
    BY <1>2, <2>3, <2>4, <2>5 DEF vars, WholeInv
  <2> QED
    BY <2>1, <2>6 DEF IInv
<1>3. CASE Next
  <2>1. CASE \E p \in Paths : RemoveNothing(p) \/ Remove(p)
    BY <1>1, <2>1, RemoveNothingInv, RemoveInv
  <2>2. CASE \E p \in Paths, v \in Payloads : Put(p, v)
    BY <2>2, PutInv
  <2>3. CASE \E v \in Payloads : PutTooLarge(v)
    BY <2>3, PutTooLargeInv
  <2>4. CASE PutAllocNode \/ PutLinkNode \/ PutLinkNodeBit
    BY <1>1, <2>4, PutAllocNodeInv, PutLinkNodeInv, PutLinkNodeBitInv
  <2>5. CASE PutAllocRecord \/ PutLeaf \/ PutLeafBit \/ PutLength
    BY <1>1, <2>5, PutAllocRecordInv, PutLeafInv, PutLeafBitInv, PutLengthInv
  <2>6. CASE PutOverwrite \/ PutPayload \/ PutUnread \/ PutRefused
    BY <1>1, <2>6, PutOverwriteInv, PutPayloadInv, PutUnreadInv, PutRefusedInv
  <2>7. CASE RemoveLeaf \/ RemoveLeafBit \/ RemoveFails
    BY <1>1, <2>7, RemoveLeafInv, RemoveLeafBitInv, RemoveFailsInv
  <2>8. CASE Clear \/ ClearHeader
    BY <2>8, ClearInv, ClearHeaderInv
  <2>9. CASE Flush \/ FlushOrigin
    BY <2>9, FlushInv, FlushOriginInv
  <2>10. CASE Reopen
    BY <2>10, ReopenInv
  <2> QED
    BY <1>3, <2>1, <2>2, <2>3, <2>4, <2>5, <2>6, <2>7, <2>8, <2>9, <2>10 DEF Next
<1> QED
  BY <1>2, <1>3

(* The tree, the free list, len and the bitmaps are sound in every state of *)
(* every operation, at each of its writes, with any number of failed puts   *)
(* and flushes behind.                                                      *)
THEOREM LayoutInvariant == Spec /\ []Covered => []IInv
BY InitInv, StepInv, DirtyTracks, PTL DEF Spec

(* The types of what the store keeps and answers. *)
THEOREM StoreTypes == Spec /\ []Covered => []TypeOK
<1>1. IInv => TypeOK
  <2> SUFFICES ASSUME IInv PROVE TypeOK
    OBVIOUS
  <2>1. /\ strategy \in Header /\ origin \in Origin /\ len \in Nat
        /\ dirty \in BOOLEAN /\ synced \in BOOLEAN
        /\ op \in Op /\ result \in Answers \cup {FAILED, TOO_LARGE}
        /\ faults \in 0 .. MAX_FAULTS /\ wounds \subseteq {"header", "spans"}
        /\ unmarked \subseteq [node : Nat, index : Nat] /\ torn \subseteq Paths
    BY DEF IInv, TypeInv, Slots
  <2>2. op.path \in Paths \cup {<<>>} /\ op.target \in Nat /\ op.prev \in Answers
    BY <2>1, OpFields
  <2>3. \A a \in Answers : a = NONE \/ Readable(a)
    BY DEF Answers, Readable
  <2>4. op.prev = NONE \/ Readable(op.prev)
    BY <2>2, <2>3
  <2>5. result \in {NONE, FAILED, TOO_LARGE} \/ Readable(result)
    BY <2>1, <2>3
  <2>6. /\ strategy \in [bump : Nat, free_head : Nat, record_count : Nat]
        /\ origin.header \in [bump : Nat, free_head : Nat, record_count : Nat]
        /\ origin.word \in [0 .. MAX_OFFSET -> Nat]
        /\ origin.len \in 0 .. MAX_OFFSET
    BY <2>1 DEF Header, Origin
  <2> QED
    BY <2>1, <2>2, <2>4, <2>5, <2>6 DEF TypeOK
<1> QED
  BY <1>1, LayoutInvariant, PTL

(* load never refuses a header this code wrote: its bump is past the root   *)
(* and its free list head within what has been written.                     *)
THEOREM LoadSucceeds == Spec /\ []Covered => []LoadNeverRefused
<1>1. IInv => LoadNeverRefused
  <2> SUFFICES ASSUME IInv, LoadIsCorrupt(origin) PROVE FALSE
    BY DEF LoadNeverRefused
  <2>1. /\ origin.header # NoHeader
        /\ origin.header.bump \in Nat /\ origin.header.free_head \in Nat
        /\ origin.len \in Nat
    BY DEF LoadIsCorrupt, IInv, TypeInv, Origin, Header
  <2> QED
    BY <2>1, Sizes DEF LoadIsCorrupt, IInv, HeaderSound
<1> QED
  BY <1>1, LayoutInvariant, PTL

LEMMA StoredIs == StoredPaths = Stored(origin)
BY RecordLocated DEF StoredPaths, RecordOf, Stored

(* len is the number of entries but for one for each failed write, and      *)
(* never above it.                                                          *)
THEOREM LenIsCount == Spec /\ []Covered => []LenWithinFaults
<1>1. IInv => LenWithinFaults
  <2> SUFFICES ASSUME IInv, Intact
               PROVE  /\ len <= Cardinality(StoredPaths)
                      /\ Cardinality(StoredPaths) <= len + faults
    BY DEF LenWithinFaults
  <2>1. At("idle") /\ Whole
    BY DEF Intact, Whole
  <2>2. Counted /\ len \in Nat /\ faults \in Nat
    BY <2>1, Holds DEF IInv, TypeInv
  <2>3. Cardinality(Stored(origin)) \in Nat
    BY <2>2, FS_CardinalityType DEF Counted
  <2> QED
    BY <2>1, <2>2, <2>3, StoredIs DEF Counted, Ahead, Behind, At
<1> QED
  BY <1>1, LayoutInvariant, PTL

(***************************************************************************)
(* The spans.                                                              *)
(***************************************************************************)
(* FreeLinks follows the free list to its end. *)
LEMMA FreeLinksIs ==
  ASSUME NEW k \in Nat, NEW f \in [1 .. k -> Nat],
         Chain(origin, strategy.free_head, k, f), \A i \in 1 .. k : f[i] # ABSENT,
         NEW n \in Nat
  PROVE  FreeLinks(n) = [i \in 1 .. n |-> IF i <= k THEN f[k + 1 - i] ELSE ABSENT]
<1> DEFINE Next1(link, i) ==
             IF i = 1 THEN strategy.free_head
             ELSE IF link[i - 1] = ABSENT THEN ABSENT ELSE origin.word[link[i - 1]]
           Is(link) == link = [i \in 1 .. n |-> Next1(link, i)]
           g == [i \in 1 .. n |-> IF i <= k THEN f[k + 1 - i] ELSE ABSENT]
<1>1. ASSUME NEW i \in 1 .. n PROVE g[i] = Next1(g, i)
  <2>1. CASE i = 1
    <3>1. CASE k = 0
      BY <2>1, <3>1 DEF Chain
    <3>2. CASE k # 0
      BY <2>1, <3>2 DEF Chain
    <3> QED
      BY <3>1, <3>2
  <2>2. CASE i # 1
    <3>1. i - 1 \in 1 .. n
      BY <2>2
    <3>2. CASE i - 1 <= k
      <4>1. g[i - 1] = f[k + 1 - (i - 1)] /\ k + 1 - (i - 1) \in 1 .. k
        BY <2>2, <3>1, <3>2
      <4>2. g[i - 1] # ABSENT
        BY <4>1
      <4>3. origin.word[g[i - 1]]
              = IF k + 1 - (i - 1) = 1 THEN ABSENT ELSE f[(k + 1 - (i - 1)) - 1]
        BY <4>1 DEF Chain
      <4>4. (k + 1 - (i - 1) = 1) <=> ~ (i <= k)
        BY <3>2
      <4>5. (k + 1 - (i - 1)) - 1 = k + 1 - i
        OBVIOUS
      <4>6. g[i] = IF i <= k THEN f[k + 1 - i] ELSE ABSENT
        OBVIOUS
      <4> HIDE DEF g
      <4>7. g[i] = origin.word[g[i - 1]]
        BY <4>3, <4>4, <4>5, <4>6
      <4> QED
        BY <2>2, <4>2, <4>7
    <3>3. CASE ~ (i - 1 <= k)
      <4>1. g[i - 1] = ABSENT /\ ~ (i <= k)
        BY <3>1, <3>3
      <4> QED
        BY <2>2, <4>1
    <3> QED
      BY <3>2, <3>3
  <2> QED
    BY <2>1, <2>2
<1>2. Is(g)
  <2>1. g = [i \in 1 .. n |-> g[i]]
    OBVIOUS
  <2> HIDE DEF g
  <2> QED
    BY <1>1, <2>1
<1>3. ASSUME NEW h, Is(h) PROVE h = g
  <2> DEFINE S == { i \in 1 .. n : h[i] = g[i] }
  <2>1. \A i \in 1 .. n : h[i] = Next1(h, i)
    BY <1>3
  <2>2. \A i \in 1 .. n : g[i] = Next1(g, i)
    BY <1>1
  <2>3. h = [i \in 1 .. n |-> h[i]] /\ g = [i \in 1 .. n |-> g[i]]
    BY <1>3
  <2> HIDE DEF g, Is
  <2>4. CASE n = 0
    BY <2>3, <2>4
  <2>5. CASE n # 0
    <3>1. 1 \in S
      BY <2>1, <2>2, <2>5
    <3>2. ASSUME NEW i \in 1 .. n - 1, i \in S PROVE i + 1 \in S
      <4>1. i + 1 \in 1 .. n /\ i + 1 # 1 /\ (i + 1) - 1 = i
        OBVIOUS
      <4>2. h[i] = g[i]
        BY <3>2
      <4>3. h[i + 1] = IF h[i] = ABSENT THEN ABSENT ELSE origin.word[h[i]]
        BY <2>1, <4>1
      <4>4. g[i + 1] = IF g[i] = ABSENT THEN ABSENT ELSE origin.word[g[i]]
        BY <2>2, <4>1
      <4>5. h[i + 1] = g[i + 1]
        BY <4>2, <4>3, <4>4
      <4> QED
        BY <4>1, <4>5
    <3>3. 1 .. n \subseteq S
      <4> HIDE DEF S
      <4> QED
        BY <3>1, <3>2, UpTo
    <3>4. \A i \in 1 .. n : h[i] = g[i]
      BY <3>3
    <3> QED
      BY <2>3, <3>4
  <2> QED
    BY <2>4, <2>5
<1>4. FreeLinks(n) = CHOOSE link : Is(link)
  BY DEF FreeLinks
<1> HIDE DEF Is, g
<1>5. Is(CHOOSE link : Is(link))
  BY <1>2
<1> QED
  BY <1>3, <1>4, <1>5 DEF g

(* Nodes, records and free records share no word and lie below bump; no two *)
(* keys share a record, and the free list is without a loop.                *)
THEOREM SpansApart == Spec /\ []Covered => []SpansDisjoint
<1>1. IInv => SpansDisjoint
  <2> SUFFICES ASSUME IInv, Intact
               PROVE  /\ AllApart(Spans)
                      /\ \A s \in Spans : ROOT_OFFSET <= s[3] /\ s[3] + s[4] <= strategy.bump
    BY DEF SpansDisjoint
  <2>1. At("idle") /\ Whole
    BY DEF Intact, Whole
  <2>2. /\ origin \in Origin /\ Tree(origin) /\ SomeFreeList /\ strategy.bump \in Nat
    BY <2>1, Holds
  <2>3. PICK k \in Nat : \E f \in [1 .. k -> Nat] : Sound(k, f)
    BY <2>2 DEF SomeFreeList
  <2>4. PICK f \in [1 .. k -> Nat] : Sound(k, f)
    BY <2>3
  <2>5. NodesHeld = NodesOf(origin) /\ RecordsHeld = RecordsOf(origin)
    BY <2>1 DEF NodesHeld, RecordsHeld, At
  <2>6. /\ Chain(origin, strategy.free_head, k, f)
        /\ Laid(strategy.bump, NodesOf(origin), RecordsOf(origin), k, f)
    BY <2>4, <2>5 DEF Sound
  <2> DEFINE n == strategy.bump \div RECORD_SLOT_SIZE + 1
             links == FreeLinks(n)
             N == NodesOf(origin)
             R == RecordsOf(origin)
  <2>7. n \in Nat
    BY <2>2, Sizes
  <2>8. \A i \in 1 .. k : f[i] # ABSENT
    BY <2>6, Sizes DEF Laid
  <2> HIDE DEF n
  <2>9. links = [i \in 1 .. n |-> IF i <= k THEN f[k + 1 - i] ELSE ABSENT]
    BY <2>6, <2>7, <2>8, FreeLinksIs
  <2> HIDE DEF links
  <2>10. \A i \in 1 .. n : links[i] # ABSENT => k + 1 - i \in 1 .. k /\ links[i] = f[k + 1 - i]
    BY <2>3, <2>7, <2>9
  <2>11. ReachableNodes = N
    BY DEF ReachableNodes, NodesOf
  <2>12. ASSUME NEW p \in StoredPaths
         PROVE  RecordOf(p) \in R /\ p \in Path /\ RecordOf(p) = RecordAt(origin, p)
                /\ RecordOf(p) # ABSENT
    BY <2>12, RecordLocated DEF StoredPaths, RecordOf, RecordsOf
  <2> DEFINE Node(s) == \E m \in N : s = <<"node", m, m, NODE_SIZE>>
             Record(s) == \E p \in StoredPaths :
                            s = <<"record", p, RecordOf(p), RECORD_SLOT_SIZE>>
             Free(s) == \E i \in 1 .. n :
                          links[i] # ABSENT /\ s = <<"free", i, links[i], RECORD_SLOT_SIZE>>
  <2>13. ASSUME NEW s \in Spans PROVE Node(s) \/ Record(s) \/ Free(s)
    BY <2>11, <2>13 DEF Spans, n, links
  <2> HIDE DEF N, R
  <2>14. /\ \A m \in N : ROOT_OFFSET <= m /\ m + NODE_SIZE <= strategy.bump
         /\ \A r \in R : ROOT_OFFSET <= r /\ r + RECORD_SLOT_SIZE <= strategy.bump
         /\ \A i \in 1 .. k : ROOT_OFFSET <= f[i] /\ f[i] + RECORD_SLOT_SIZE <= strategy.bump
         /\ \A m, j \in N : m # j => Apart(m, NODE_SIZE, j, NODE_SIZE)
         /\ \A r, s \in R : r # s => Apart(r, RECORD_SLOT_SIZE, s, RECORD_SLOT_SIZE)
         /\ \A i, j \in 1 .. k : i # j => Apart(f[i], RECORD_SLOT_SIZE, f[j], RECORD_SLOT_SIZE)
         /\ \A r \in R, i \in 1 .. k : Apart(r, RECORD_SLOT_SIZE, f[i], RECORD_SLOT_SIZE)
         /\ \A m \in N, r \in R : Apart(m, NODE_SIZE, r, RECORD_SLOT_SIZE)
         /\ \A m \in N, i \in 1 .. k : Apart(m, NODE_SIZE, f[i], RECORD_SLOT_SIZE)
    BY <2>6 DEF Laid, N, R
  <2>15. ASSUME NEW s \in Spans
         PROVE  ROOT_OFFSET <= s[3] /\ s[3] + s[4] <= strategy.bump
    <3>1. CASE Node(s)
      BY <2>14, <3>1
    <3>2. CASE Record(s)
      BY <2>12, <2>14, <3>2
    <3>3. CASE Free(s)
      BY <2>10, <2>14, <3>3
    <3> QED
      BY <2>13, <3>1, <3>2, <3>3
  <2>16. \A x, a, y, b : Apart(x, a, y, b) => Apart(y, b, x, a)
    BY DEF Apart
  <2>17. ASSUME NEW s \in Spans, NEW t \in Spans, <<s[1], s[2]>> # <<t[1], t[2]>>
         PROVE  Apart(s[3], s[4], t[3], t[4])
    <3>1. CASE Node(s)
      <4>1. PICK m \in N : s = <<"node", m, m, NODE_SIZE>>
        BY <3>1
      <4>2. CASE Node(t)
        BY <2>14, <2>17, <4>1, <4>2
      <4>3. CASE Record(t)
        BY <2>12, <2>14, <4>1, <4>3
      <4>4. CASE Free(t)
        BY <2>10, <2>14, <4>1, <4>4
      <4> QED
        BY <2>13, <4>2, <4>3, <4>4
    <3>2. CASE Record(s)
      <4>1. PICK p \in StoredPaths : s = <<"record", p, RecordOf(p), RECORD_SLOT_SIZE>>
        BY <3>2
      <4>2. CASE Node(t)
        BY <2>12, <2>14, <2>16, <4>1, <4>2
      <4>3. CASE Record(t)
        <5>1. PICK q \in StoredPaths : t = <<"record", q, RecordOf(q), RECORD_SLOT_SIZE>>
          BY <4>3
        <5>2. p # q
          BY <2>17, <4>1, <5>1
        <5>3. RecordOf(p) # RecordOf(q)
          BY <2>2, <2>12, <5>2 DEF Tree
        <5> QED
          BY <2>12, <2>14, <4>1, <5>1, <5>3
      <4>4. CASE Free(t)
        BY <2>10, <2>12, <2>14, <4>1, <4>4
      <4> QED
        BY <2>13, <4>2, <4>3, <4>4
    <3>3. CASE Free(s)
      <4>1. PICK i \in 1 .. n :
              links[i] # ABSENT /\ s = <<"free", i, links[i], RECORD_SLOT_SIZE>>
        BY <3>3
      <4>2. CASE Node(t)
        BY <2>10, <2>14, <2>16, <4>1, <4>2
      <4>3. CASE Record(t)
        BY <2>10, <2>12, <2>14, <2>16, <4>1, <4>3
      <4>4. CASE Free(t)
        <5>1. PICK j \in 1 .. n :
                links[j] # ABSENT /\ t = <<"free", j, links[j], RECORD_SLOT_SIZE>>
          BY <4>4
        <5>2. i # j
          BY <2>17, <4>1, <5>1
        <5>3. k + 1 - i # k + 1 - j
          BY <2>3, <2>7, <5>2
        <5> QED
          BY <2>10, <2>14, <4>1, <5>1, <5>3
      <4> QED
        BY <2>13, <4>2, <4>3, <4>4
    <3> QED
      BY <2>13, <3>1, <3>2, <3>3
  <2> QED
    BY <2>15, <2>17 DEF AllApart
<1> QED
  BY <1>1, LayoutInvariant, PTL
(***************************************************************************)
(* What one operation does to the other keys.                              *)
(***************************************************************************)
(* A write that touches no word of the record of q leaves what q reads as.  *)
LEMMA ReadsSame ==
  ASSUME NEW o \in Origin, NEW r \in Nat, NEW lo \in Nat, NEW size \in Nat, NEW w,
         Wrote(o, w, lo, size), Apart(r, RECORD_SLOT_SIZE, lo, size),
         ReadRecord(o, r) # FAILED
  PROVE  ReadRecord(w, r) = ReadRecord(o, r)
<1> DEFINE n == o.word[r]
<1>1. /\ r < o.len /\ n \in Nat /\ n <= MaxValueLen /\ r + 1 + n <= o.len
      /\ ReadRecord(o, r) = [i \in 1 .. n |-> o.word[r + i]]
  BY ReadRecordIs
<1>2. /\ o.len \in Nat /\ w.len \in Nat /\ w.len <= MAX_OFFSET
      /\ o.len <= w.len
      /\ \A p \in 0 .. MAX_OFFSET : p < lo \/ lo + size <= p => w.word[p] = o.word[p]
  BY DEF Wrote, Origin
<1> HIDE DEF n
<1>3. \A i \in 0 .. n : w.word[r + i] = o.word[r + i]
  <2> SUFFICES ASSUME NEW i \in 0 .. n PROVE w.word[r + i] = o.word[r + i]
    OBVIOUS
  <2>1. r + i \in 0 .. MAX_OFFSET
    BY <1>1, <1>2, Sizes
  <2>2. r + i < lo \/ lo + size <= r + i
    BY <1>1, ValueSizes, Sizes DEF Apart
  <2> QED
    BY <1>2, <2>1, <2>2
<1>4. w.word[r] = n
  <2>1. 0 \in 0 .. n /\ r + 0 = r
    BY <1>1
  <2>2. w.word[r + 0] = o.word[r + 0]
    BY <1>3, <2>1
  <2> QED
    BY <2>1, <2>2 DEF n
<1>5. ~ (r >= w.len) /\ ~ (n > MaxValueLen) /\ ~ (r + 1 + n > w.len)
  BY <1>1, <1>2, ValueSizes
<1>6. ReadRecord(w, r) = [i \in 1 .. n |-> w.word[r + i]]
  BY <1>4, <1>5 DEF ReadRecord
<1>7. \A i \in 1 .. n : w.word[r + i] = o.word[r + i]
  <2>1. \A i \in 1 .. n : i \in 0 .. n
    BY <1>1
  <2> QED
    BY <1>3, <2>1
<1> QED
  BY <1>1, <1>6, <1>7

(* A write that leaves the record of q where it is and as it is. *)
Spares(q) ==
  /\ RecordAt(origin', q) = RecordAt(origin, q)
  /\ RecordAt(origin, q) # ABSENT =>
       \E lo, size \in Nat :
         /\ Wrote(origin, origin', lo, size)
         /\ Apart(RecordAt(origin, q), RECORD_SLOT_SIZE, lo, size)

LEMMA SparedReads ==
  ASSUME IInv, IInv', Whole, Whole', NEW q \in Path, Spares(q),
         Lookup(origin, q) # FAILED
  PROVE  Lookup(origin', q) = Lookup(origin, q)
<1>1. /\ origin \in Origin /\ ~ CorruptPath(origin, q) /\ ~ CorruptPath(origin', q)
  BY DEF IInv, TypeInv, WholeInv, Tree
<1>2. /\ Locate(origin, q).record_offset = RecordAt(origin, q)
      /\ Locate(origin', q).record_offset = RecordAt(origin, q)
  BY RecordLocated DEF Spares
<1>3. RecordAt(origin, q) \in Nat
  BY <1>1, RecordType
<1>4. CASE RecordAt(origin, q) = ABSENT
  BY <1>1, <1>2, <1>4 DEF Lookup
<1>5. CASE RecordAt(origin, q) # ABSENT
  <2>1. /\ Lookup(origin, q) = ReadRecord(origin, RecordAt(origin, q))
        /\ Lookup(origin', q) = ReadRecord(origin', RecordAt(origin, q))
    BY <1>1, <1>2, <1>5 DEF Lookup
  <2>2. PICK lo, size \in Nat :
          /\ Wrote(origin, origin', lo, size)
          /\ Apart(RecordAt(origin, q), RECORD_SLOT_SIZE, lo, size)
    BY <1>5 DEF Spares
  <2> QED
    BY <1>1, <1>3, <2>1, <2>2, ReadsSame
<1> QED
  BY <1>4, <1>5

(* Every record but the one a remove has just freed is held. *)
LEMMA RecordIsHeld ==
  ASSUME IInv, Whole, NEW q \in Path, q # op.path \/ ~ At("unleaf"),
         RecordAt(origin, q) # ABSENT
  PROVE  RecordAt(origin, q) \in RecordsHeld
<1>1. Tree(origin) /\ InFlight
  BY Holds
<1>2. RecordAt(origin, q) \in RecordsOf(origin)
  BY DEF RecordsOf
<1>3. CASE At("unleaf")
  <2>1. op.path \in Path
    BY <1>3, ValueSizes DEF IInv, OpNamed, At, RemovePlaces
  <2>2. op.target # ABSENT /\ RecordAt(origin, op.path) = op.target
    BY <1>1, <1>3 DEF InFlight, At
  <2>3. RecordAt(origin, q) # op.target
    BY <1>1, <1>3, <2>1, <2>2 DEF Tree
  <2> QED
    BY <1>2, <2>3 DEF RecordsHeld
<1> QED
  BY <1>2, <1>3 DEF RecordsHeld

(* A write inside a node, inside another record or past bump.  *)
LEMMA WriteSpares ==
  ASSUME IInv, Whole, NEW q \in Path, q # op.path \/ ~ At("unleaf"),
         RecordAt(origin', q) = RecordAt(origin, q),
         NEW lo \in Nat, NEW size \in Nat, Wrote(origin, origin', lo, size),
         \/ \E m \in NodesHeld : m <= lo /\ lo + size <= m + NODE_SIZE
         \/ \E r \in RecordsHeld :
              r # RecordAt(origin, q) /\ r <= lo /\ lo + size <= r + RECORD_SLOT_SIZE
         \/ lo = strategy.bump
  PROVE  Spares(q)
<1> SUFFICES ASSUME RecordAt(origin, q) # ABSENT
             PROVE  Apart(RecordAt(origin, q), RECORD_SLOT_SIZE, lo, size)
  BY DEF Spares
<1> DEFINE r == RecordAt(origin, q)
<1>1. r \in RecordsHeld
  BY RecordIsHeld
<1>2. /\ SomeFreeList /\ NodesHeld \in SUBSET Nat /\ RecordsHeld \in SUBSET Nat
      /\ strategy.bump \in Nat
  BY Holds
<1>3. PICK n \in Nat : \E f \in [1 .. n -> Nat] : Sound(n, f)
  BY <1>2 DEF SomeFreeList
<1>4. PICK f \in [1 .. n -> Nat] : Sound(n, f)
  BY <1>3
<1>5. Laid(strategy.bump, NodesHeld, RecordsHeld, n, f)
  BY <1>4 DEF Sound
<1> HIDE DEF r
<1>6. CASE \E m \in NodesHeld : m <= lo /\ lo + size <= m + NODE_SIZE
  BY <1>1, <1>2, <1>5, <1>6, InsideNode DEF r
<1>7. CASE \E s \in RecordsHeld : s # r /\ s <= lo /\ lo + size <= s + RECORD_SLOT_SIZE
  BY <1>1, <1>2, <1>5, <1>7, InsideRecord DEF r
<1>8. CASE lo = strategy.bump
  BY <1>1, <1>2, <1>5, <1>8, PastBump DEF r
<1> QED
  BY <1>6, <1>7, <1>8 DEF r

LEMMA UnwrittenSpares ==
  ASSUME IInv, NEW q \in Path, origin' = origin PROVE Spares(q)
<1>1. origin \in Origin
  BY DEF IInv, TypeInv
<1>2. RecordAt(origin, q) \in Nat
  BY <1>1, RecordType
<1>3. Wrote(origin, origin', 0, 0) /\ Apart(RecordAt(origin, q), RECORD_SLOT_SIZE, 0, 0)
  BY <1>1, <1>2, Sizes DEF Wrote, Apart, Origin
<1> QED
  BY <1>3 DEF Spares
LEMMA PutNodeSpares ==
  ASSUME IInv, ThenCleared, PutAllocNode \/ PutLinkNode \/ PutLinkNodeBit, NEW q \in Path
  PROVE  Spares(q)
<1>1. op.at \in PutPlaces /\ ~ At("unleaf")
  BY DEF PutAllocNode, PutLinkNode, PutLinkNodeBit, At, PutPlaces
<1>2. "spans" \notin wounds /\ Whole
  BY <1>1, PlaceWhole
<1>3. CASE PutAllocNode /\ ~ Fails("put", [strategy EXCEPT !.bump = @ + NODE_SIZE])
  <2> DEFINE b == strategy.bump
  <2>1. At("locate") /\ b + NODE_SIZE <= MAX_OFFSET /\ origin' = ZeroNode(origin, b)
    BY <1>3 DEF PutAllocNode, Writes
  <2>2. b \in Nat
    BY <1>2, Holds
  <2>3. SameTree(origin, origin') /\ Wrote(origin, origin', b, NODE_SIZE)
    BY <1>2, <2>1, <2>2, NodeZeroed
  <2>4. RecordAt(origin', q) = RecordAt(origin, q)
    BY <2>3 DEF SameTree, SameWay
  <2> QED
    BY <1>1, <1>2, <2>2, <2>3, <2>4, WriteSpares, Sizes
<1>4. CASE PutLinkNode /\ ~ Fails("put", strategy)
  <2>1. At("link") /\ origin' = WriteSlotWord(origin, op.slot, op.target)
    BY <1>4 DEF PutLinkNode, Writes
  <2>2. /\ op.slot.node \in NodesOf(origin)
        /\ RecordAt(origin', q) = RecordAt(origin, q)
        /\ \E lo \in Nat :
             /\ Wrote(origin, origin', lo, 1)
             /\ op.slot.node <= lo /\ lo + 1 <= op.slot.node + NODE_SIZE
    BY <1>2, <2>1, NodeLinked
  <2>3. op.slot.node \in NodesHeld
    BY <2>2 DEF NodesHeld
  <2> QED
    BY <1>1, <1>2, <2>2, <2>3, WriteSpares
<1>5. CASE PutLinkNodeBit /\ ~ Fails("put", strategy)
  <2>1. At("link_bit") /\ origin' = WriteSlotBit(origin, op.slot, op.target)
    BY <1>5 DEF PutLinkNodeBit, Writes
  <2>2. /\ op.slot.node \in NodesOf(origin) /\ op.slot.index \in 0 .. FANOUT - 1
        /\ op.target \in Nat /\ op.slot.node \in Nat
    <3>1. origin \in Origin /\ op \in Op /\ InFlight
      BY <1>2, Holds
    <3> QED
      BY <2>1, <3>1, NodeType, OpFields DEF InFlight
  <2>3. /\ SameTree(origin, origin') /\ Wrote(origin, origin', op.slot.node, 1)
        /\ op.slot.node <= op.slot.node /\ op.slot.node + 1 <= op.slot.node + NODE_SIZE
    BY <1>2, <2>1, <2>2, SlotBitWritten
  <2>4. RecordAt(origin', q) = RecordAt(origin, q) /\ op.slot.node \in NodesHeld
    BY <2>2, <2>3 DEF SameTree, SameWay, NodesHeld
  <2> QED
    BY <1>1, <1>2, <2>2, <2>3, <2>4, WriteSpares
<1>6. CASE origin' = origin
  BY <1>6, UnwrittenSpares
<1> QED
  BY <1>3, <1>4, <1>5, <1>6
     DEF Fails, Abort, PutAllocNode, PutLinkNode, PutLinkNodeBit

LEMMA LeafSpares ==
  ASSUME IInv, ThenCleared, PutLeaf \/ PutLeafBit \/ RemoveLeaf \/ RemoveLeafBit,
         NEW q \in Path, q # op.path
  PROVE  Spares(q)
<1>1. op.at \in LeafPlaces /\ (op.at \in PutPlaces \/ op.at \in RemovePlaces)
  BY DEF PutLeaf, PutLeafBit, RemoveLeaf, RemoveLeafBit, At, LeafPlaces, PutPlaces,
         RemovePlaces
<1>2. "spans" \notin wounds /\ Whole
  BY <1>1, PlaceWhole
<1>3. /\ origin \in Origin /\ InFlight
      /\ op.slot.node \in NodesOf(origin) /\ op.slot.node \in NodesHeld
      /\ op.slot.node \in Nat /\ op.target \in Nat /\ ABSENT \in Nat
  BY <1>1, <1>2, Holds, LeafSlot DEF NodesHeld, ABSENT
<1>4. ASSUME op.at \in {"leaf", "unleaf"}, NEW v \in Nat, v \notin RecordsOf(origin),
             origin' = WriteSlotWord(origin, op.slot, v)
      PROVE  Spares(q)
  <2>1. /\ \A p \in Path \ {op.path} : SameWay(origin, origin', p)
        /\ \E lo \in Nat :
             /\ Wrote(origin, origin', lo, 1)
             /\ op.slot.node <= lo /\ lo + 1 <= op.slot.node + NODE_SIZE
    BY <1>2, <1>4, LeafSlotWritten
  <2>2. RecordAt(origin', q) = RecordAt(origin, q)
    BY <2>1 DEF SameWay
  <2> QED
    BY <1>2, <1>3, <2>1, <2>2, WriteSpares
<1>5. ASSUME op.at \in {"leaf_bit", "unleaf_bit"}, NEW v \in Nat,
             origin' = WriteSlotBit(origin, op.slot, v)
      PROVE  Spares(q)
  <2>1. /\ SameTree(origin, origin') /\ Wrote(origin, origin', op.slot.node, 1)
        /\ op.slot.node <= op.slot.node /\ op.slot.node + 1 <= op.slot.node + NODE_SIZE
    BY <1>2, <1>5, LeafBitWritten
  <2>2. RecordAt(origin', q) = RecordAt(origin, q)
    BY <2>1 DEF SameTree, SameWay
  <2> QED
    BY <1>2, <1>3, <2>1, <2>2, WriteSpares
<1>6. CASE origin' = origin
  BY <1>6, UnwrittenSpares
<1>7. CASE PutLeaf /\ ~ Fails("put", strategy)
  <2>1. op.at = "leaf" /\ origin' = WriteSlotWord(origin, op.slot, op.target)
    BY <1>7 DEF PutLeaf, Writes, At
  <2>2. op.target \notin RecordsOf(origin)
    BY <1>3, <2>1 DEF InFlight, At
  <2> QED
    BY <1>3, <1>4, <2>1, <2>2
<1>8. CASE RemoveLeaf /\ ~ Fails("remove", strategy)
  <2>1. op.at = "unleaf" /\ origin' = WriteSlotWord(origin, op.slot, ABSENT)
    BY <1>8 DEF RemoveLeaf, Writes, At
  <2>2. ABSENT \notin RecordsOf(origin)
    BY DEF RecordsOf
  <2> QED
    BY <1>3, <1>4, <2>1, <2>2
<1>9. CASE PutLeafBit /\ ~ Fails("put", strategy)
  <2>1. op.at = "leaf_bit" /\ origin' = WriteSlotBit(origin, op.slot, op.target)
    BY <1>9 DEF PutLeafBit, Writes, At
  <2> QED
    BY <1>3, <1>5, <2>1
<1>10. CASE RemoveLeafBit /\ ~ Fails("remove", strategy)
  <2>1. op.at = "unleaf_bit" /\ origin' = WriteSlotBit(origin, op.slot, ABSENT)
    BY <1>10 DEF RemoveLeafBit, Writes, At
  <2> QED
    BY <1>3, <1>5, <2>1
<1> QED
  BY <1>6, <1>7, <1>8, <1>9, <1>10
     DEF Fails, Abort, PutLeaf, PutLeafBit, RemoveLeaf, RemoveLeafBit
LEMMA RecordSpares ==
  ASSUME IInv, Whole, ~ At("unleaf"), NEW p \in Path, NEW q \in Path, p # q, q # op.path,
         NEW r \in Nat, r # ABSENT, RecordAt(origin, p) = r,
         NEW lo \in Nat, NEW size \in Nat, r <= lo, lo + size <= r + RECORD_SLOT_SIZE,
         Wrote(origin, origin', lo, size)
  PROVE  Spares(q)
<1>1. r \in RecordsHeld
  BY DEF RecordsHeld, RecordsOf
<1>2. SameTree(origin, origin')
  BY <1>1, RecordWritten
<1>3. RecordAt(origin', q) = RecordAt(origin, q)
  BY <1>2 DEF SameTree, SameWay
<1>4. RecordAt(origin, q) # r
  <2>1. Tree(origin)
    BY Holds
  <2> QED
    BY <2>1 DEF Tree
<1> QED
  BY <1>1, <1>3, <1>4, WriteSpares

LEMMA ValueSpares ==
  ASSUME IInv, ThenCleared, PutLength \/ PutOverwrite \/ PutPayload,
         NEW q \in Path, q # op.path
  PROVE  Spares(q)
<1>1. op.at \in PutPlaces /\ ~ At("unleaf")
  BY DEF PutLength, PutOverwrite, PutPayload, At, PutPlaces
<1>2. "spans" \notin wounds /\ Whole
  BY <1>1, PlaceWhole
<1>3. /\ origin \in Origin /\ InFlight /\ op.target \in Nat /\ op.path \in Path
  BY <1>1, <1>2, Holds, OpFields, ValueSizes DEF IInv, OpNamed
<1>4. CASE origin' = origin
  BY <1>4, UnwrittenSpares
<1>5. ASSUME op.at \in {"locate", "length"}, NEW r \in Nat, r # ABSENT,
             RecordAt(origin, op.path) = r, NEW prev, WriteLength(r, prev)
      PROVE  Spares(q)
  <2>1. Wrote(origin, origin', r, 1) /\ r <= r /\ r + 1 <= r + RECORD_SLOT_SIZE
    BY <1>2, <1>5, LengthWritten
  <2> QED
    BY <1>1, <1>2, <1>3, <1>5, <2>1, RecordSpares
<1>6. CASE At("length") /\ WriteLength(op.target, NONE)
  BY <1>3, <1>5, <1>6 DEF InFlight, At
<1>7. CASE /\ At("locate") /\ Found.record_offset # ABSENT
           /\ \E prev : WriteLength(Found.record_offset, prev)
  <2>1. RecordAt(origin, op.path) = Found.record_offset
    BY RecordLocated DEF Found
  <2>2. Found.record_offset \in Nat
    BY <1>3, <2>1, RecordType
  <2> QED
    BY <1>5, <1>7, <2>1, <2>2 DEF At
<1>8. CASE At("payload") /\ origin' = WriteWords(origin, op.target + 1, op.value)
  <2> DEFINE t == op.target
             size == Len(op.value)
  <2>1. /\ t \in Nat /\ t # ABSENT /\ RecordAt(origin, op.path) = t /\ size \in Nat
        /\ Wrote(origin, origin', t + 1, size)
        /\ t + 1 \in Nat /\ t <= t + 1 /\ (t + 1) + size <= t + RECORD_SLOT_SIZE
    BY <1>2, <1>8, PayloadWritten
  <2> HIDE DEF t, size
  <2> QED
    BY <1>1, <1>2, <1>3, <2>1, RecordSpares
<1> QED
  BY <1>4, <1>6, <1>7, <1>8
     DEF PutLength, PutOverwrite, PutPayload, Fails, Abort, Writes

LEMMA RemoveSpares ==
  ASSUME IInv, Whole, NEW p \in Paths, Remove(p), NEW q \in Path, q # p, q # op.path
  PROVE  Spares(q)
<1> DEFINE r == RecordAt(origin, p)
<1>1. /\ At("idle") /\ Lookup(origin, p) \notin {NONE, FAILED}
      /\ p \in Path /\ origin \in Origin /\ strategy.free_head \in Nat
  BY ValueSizes DEF Remove, IInv, TypeInv, Header
<1>2. CASE origin' = origin
  BY <1>2, UnwrittenSpares
<1>3. CASE origin' # origin
  <2>1. /\ r \in Nat /\ r # ABSENT /\ r < origin.len
        /\ Locate(origin, p).record_offset = r
    BY <1>1, FoundIs
  <2>2. origin' = WriteWords(origin, r, <<strategy.free_head>>)
    BY <1>3, <2>1 DEF Remove, Writes, Fails, Abort
  <2>3. r + 1 <= MAX_OFFSET /\ r <= r /\ r + 1 <= r + RECORD_SLOT_SIZE
    BY <1>1, <2>1, Sizes DEF Origin
  <2> HIDE DEF r
  <2>4. Wrote(origin, origin', r, 1)
    BY <1>1, <2>1, <2>2, <2>3, WordWritten
  <2>5. ~ At("unleaf")
    BY <1>1 DEF At
  <2> QED
    BY <1>1, <2>1, <2>3, <2>4, <2>5, RecordSpares DEF r
<1> QED
  BY <1>2, <1>3
LEMMA WritesKeepWounds ==
  ASSUME Next, origin' # origin, "spans" \notin wounds PROVE "spans" \notin wounds'
<1>1. CASE \E p \in Paths : RemoveNothing(p) \/ Remove(p)
  BY <1>1 DEF RemoveNothing, Remove, Fails, Abort, Writes
<1>2. CASE \E p \in Paths, v \in Payloads : Put(p, v)
  BY <1>2 DEF Put
<1>3. CASE \E v \in Payloads : PutTooLarge(v)
  BY <1>3 DEF PutTooLarge
<1>4. CASE PutAllocNode \/ PutLinkNode \/ PutLinkNodeBit
  BY <1>4 DEF PutAllocNode, PutLinkNode, PutLinkNodeBit, Fails, Abort, Writes
<1>5. CASE PutAllocRecord \/ PutLeaf \/ PutLeafBit \/ PutLength
  BY <1>5 DEF PutAllocRecord, PutLeaf, PutLeafBit, PutLength, WriteLength, Fails, Abort, Writes
<1>6. CASE PutOverwrite \/ PutPayload \/ PutUnread \/ PutRefused
  BY <1>6 DEF PutOverwrite, PutPayload, PutUnread, PutRefused, WriteLength, Fails, Abort, Writes
<1>7. CASE RemoveLeaf \/ RemoveLeafBit \/ RemoveFails
  BY <1>7 DEF RemoveLeaf, RemoveLeafBit, RemoveFails, FailsUnchanged, Fails, Abort, Writes
<1>8. CASE Clear \/ ClearHeader
  BY <1>8 DEF Clear, ClearHeader, Fails, Abort, Writes
<1>9. CASE Flush \/ FlushOrigin
  BY <1>9 DEF Flush, FlushOrigin, Fails, Abort, Writes
<1>10. CASE Reopen
  BY <1>10 DEF Reopen
<1> QED
  BY <1>1, <1>2, <1>3, <1>4, <1>5, <1>6, <1>7, <1>8, <1>9, <1>10 DEF Next

LEMMA StepSpares ==
  ASSUME IInv, ThenCleared, Next, "spans" \notin wounds,
         {op.name, op'.name} \cap {"put", "remove"} # {},
         NEW q \in Path, q \notin {op.path, op'.path}
  PROVE  Spares(q)
<1>1. Whole /\ q # op.path
  BY DEF Whole
<1>2. CASE origin' = origin
  BY <1>2, UnwrittenSpares
<1>3. CASE \E p \in Paths : RemoveNothing(p) \/ Remove(p)
  <2>1. PICK p \in Paths : RemoveNothing(p) \/ Remove(p)
    BY <1>3
  <2>2. CASE RemoveNothing(p)
    BY <1>2, <2>2 DEF RemoveNothing
  <2>3. CASE Remove(p) /\ origin' # origin
    <3>1. op' = [Idle EXCEPT !.at = "unleaf", !.name = "remove", !.path = p,
                   !.slot = [node |-> Locate(origin, p).node, index |-> Locate(origin, p).index],
                   !.target = Locate(origin, p).record_offset,
                   !.prev = Lookup(origin, p)]
      BY <2>3 DEF Remove
    <3>2. q # p
      BY <3>1 DEF Idle
    <3> QED
      BY <1>1, <2>3, <3>2, RemoveSpares
  <2> QED
    BY <1>2, <2>1, <2>2, <2>3
<1>4. CASE \E p \in Paths, v \in Payloads : Put(p, v)
  BY <1>2, <1>4 DEF Put
<1>5. CASE \E v \in Payloads : PutTooLarge(v)
  BY <1>2, <1>5 DEF PutTooLarge
<1>6. CASE PutAllocNode \/ PutLinkNode \/ PutLinkNodeBit
  BY <1>1, <1>6, PutNodeSpares
<1>7. CASE PutLeaf \/ PutLeafBit \/ RemoveLeaf \/ RemoveLeafBit
  BY <1>1, <1>7, LeafSpares
<1>8. CASE PutLength \/ PutOverwrite \/ PutPayload
  BY <1>1, <1>8, ValueSpares
<1>9. CASE PutAllocRecord \/ PutUnread \/ PutRefused \/ RemoveFails
  BY <1>2, <1>9 DEF PutAllocRecord, PutUnread, PutRefused, RemoveFails, FailsUnchanged, Fails,
       Abort
<1>10. CASE Clear \/ ClearHeader \/ Flush \/ FlushOrigin
  <2>1. op.name \in {"none", "clear", "flush"}
    BY <1>10 DEF Clear, ClearHeader, Flush, FlushOrigin, At, IInv, OpNamed, Idle
  <2>2. op'.name \in {"none", "clear", "flush"}
    BY <1>10 DEF Clear, ClearHeader, Flush, FlushOrigin, Fails, Abort, Idle
  <2> QED
    BY <2>1, <2>2
<1>11. CASE Reopen
  BY <1>2, <1>11 DEF Reopen
<1> QED
  BY <1>3, <1>4, <1>5, <1>6, <1>7, <1>8, <1>9, <1>10, <1>11 DEF Next

(* No write of a put or a remove of one key, in whatever order the writes   *)
(* fail, changes what any other key reads as.                               *)
THEOREM OthersUntouched == Spec /\ []Covered => OtherKeysUntouched
<1>1. IInv /\ IInv' /\ Covered /\ [Next]_vars =>
        [{op.name, op'.name} \cap {"put", "remove"} # {} /\ "spans" \notin wounds =>
           \A q \in Paths \ {op.path, op'.path} :
             Lookup(origin, q) # FAILED => Lookup(origin', q) = Lookup(origin, q)]_origin
  <2> SUFFICES ASSUME IInv, IInv', Covered, Next, origin' # origin, "spans" \notin wounds,
                      {op.name, op'.name} \cap {"put", "remove"} # {},
                      NEW q \in Paths \ {op.path, op'.path},
                      Lookup(origin, q) # FAILED
               PROVE  Lookup(origin', q) = Lookup(origin, q)
    BY DEF vars
  <2>1. q \in Path /\ ThenCleared /\ Whole
    BY StoreAssumption DEF Covered, Whole
  <2>2. Spares(q)
    BY <2>1, StepSpares
  <2>3. Whole'
    BY WritesKeepWounds DEF Whole
  <2> QED
    BY <2>1, <2>2, <2>3, SparedReads
<1> QED
  BY <1>1, LayoutInvariant, PTL DEF Spec, OtherKeysUntouched
(* A record that holds a value, its length first, reads as that value. *)
LEMMA ReadsAs ==
  ASSUME NEW o \in Origin, NEW r \in Nat, NEW v \in Seq(Nat), Len(v) <= MaxValueLen,
         r + 1 + Len(v) <= o.len, o.word[r] = Len(v),
         \A i \in 1 .. Len(v) : o.word[r + i] = v[i]
  PROVE  ReadRecord(o, r) = v
<1> DEFINE n == Len(v)
<1>1. n \in Nat /\ o.len \in Nat /\ v = [i \in 1 .. n |-> v[i]]
  BY DEF Origin
<1> HIDE DEF n
<1>2. o.word[r] = n /\ n <= MaxValueLen /\ r + 1 + n <= o.len
      /\ \A i \in 1 .. n : o.word[r + i] = v[i]
  BY DEF n
<1>3. ~ (r >= o.len) /\ ~ (n > MaxValueLen) /\ ~ (r + 1 + n > o.len)
  BY <1>1, <1>2, ValueSizes
<1>4. ReadRecord(o, r) = [i \in 1 .. n |-> o.word[r + i]]
  BY <1>2, <1>3 DEF ReadRecord
<1> QED
  BY <1>1, <1>2, <1>4

(* The last write of a put: its path leads to a record that holds the value. *)
LEMMA PutStored ==
  ASSUME IInv, ThenCleared, PutLength \/ PutOverwrite \/ PutPayload, op' = Idle,
         result' # FAILED
  PROVE  \E r \in Nat :
           /\ r # ABSENT /\ RecordAt(origin', op.path) = r
           /\ origin' \in Origin /\ ReadRecord(origin', r) = op.value
<1>1. op.at \in PutPlaces /\ op.at \in {"locate", "length", "payload"}
  BY DEF PutLength, PutOverwrite, PutPayload, At, PutPlaces
<1>2. "spans" \notin wounds /\ Whole
  BY <1>1, PlaceWhole
<1>3. /\ origin \in Origin /\ InFlight /\ op.target \in Nat /\ op.path \in Path
      /\ op.value \in Seq(Nat) /\ Len(op.value) \in Nat /\ Len(op.value) <= MaxValueLen
  BY <1>1, <1>2, Holds, OpFields, ValueSizes DEF IInv, OpNamed
<1>4. ASSUME NEW r \in Nat, r # ABSENT, RecordAt(origin, op.path) = r,
             NEW lo \in Nat, NEW size \in Nat, r <= lo, lo + size <= r + RECORD_SLOT_SIZE,
             Wrote(origin, origin', lo, size)
      PROVE  RecordAt(origin', op.path) = r /\ origin' \in Origin
  <2>1. r \in RecordsHeld
    BY <1>1, <1>3, <1>4 DEF RecordsOf, RecordsHeld, At
  <2>2. SameTree(origin, origin')
    BY <1>2, <1>4, <2>1, RecordWritten
  <2> QED
    BY <1>3, <1>4, <2>2 DEF SameTree, SameWay, Wrote
<1>5. ASSUME op.at \in {"locate", "length"}, NEW r \in Nat, r # ABSENT,
             RecordAt(origin, op.path) = r, NEW prev, WriteLength(r, prev)
      PROVE  /\ RecordAt(origin', op.path) = r /\ origin' \in Origin
             /\ ReadRecord(origin', r) = op.value
  <2>1. /\ Wrote(origin, origin', r, 1) /\ r <= r /\ r + 1 <= r + RECORD_SLOT_SIZE
        /\ origin'.word[r] = Len(op.value) /\ r + 1 <= origin'.len
    BY <1>2, <1>5, LengthWritten
  <2>2. RecordAt(origin', op.path) = r /\ origin' \in Origin
    BY <1>4, <1>5, <2>1
  <2>3. op.value = <<>>
    <3>1. CASE op.value # <<>>
      <4>1. op' = [op EXCEPT !.at = "payload", !.slot = NoSlot, !.target = r, !.prev = prev]
        BY <1>5, <3>1 DEF WriteLength
      <4>2. op \in Op
        BY <1>2, Holds
      <4>3. op'.at = "payload"
        BY <4>1, <4>2 DEF Op
      <4> QED
        BY <4>3, IdleType
    <3> QED
      BY <3>1
  <2>4. Len(op.value) = 0 /\ origin'.len \in Nat
    BY <2>2, <2>3 DEF Origin
  <2>5. r + 1 + Len(op.value) <= origin'.len
    BY <2>1, <2>4
  <2>6. \A i \in 1 .. Len(op.value) : origin'.word[r + i] = op.value[i]
    BY <2>4
  <2>7. ReadRecord(origin', r) = op.value
    BY <1>3, <2>1, <2>2, <2>5, <2>6, ReadsAs
  <2> QED
    BY <2>2, <2>7
<1>6. CASE At("length") /\ WriteLength(op.target, NONE)
  <2>1. op.target # ABSENT /\ RecordAt(origin, op.path) = op.target
    BY <1>3, <1>6 DEF InFlight, At
  <2>2. /\ RecordAt(origin', op.path) = op.target /\ origin' \in Origin
        /\ ReadRecord(origin', op.target) = op.value
    BY <1>3, <1>5, <1>6, <2>1 DEF At
  <2> QED
    BY <1>3, <2>1, <2>2
<1>7. CASE /\ At("locate") /\ Found.record_offset # ABSENT
           /\ WriteLength(Found.record_offset, ReadRecord(origin, Found.record_offset))
  <2>1. RecordAt(origin, op.path) = Found.record_offset
    BY RecordLocated DEF Found
  <2>2. Found.record_offset \in Nat
    BY <1>3, <2>1, RecordType
  <2>3. /\ RecordAt(origin', op.path) = Found.record_offset /\ origin' \in Origin
        /\ ReadRecord(origin', Found.record_offset) = op.value
    BY <1>5, <1>7, <2>1, <2>2 DEF At
  <2> QED
    BY <1>7, <2>2, <2>3
<1>8. CASE At("payload") /\ origin' = WriteWords(origin, op.target + 1, op.value)
  <2> DEFINE t == op.target
             v == op.value
             size == Len(op.value)
  <2>1. /\ t \in Nat /\ t # ABSENT /\ RecordAt(origin, op.path) = t
        /\ v \in Seq(Nat) /\ size \in Nat /\ size <= MaxValueLen
        /\ Written(origin, origin', t + 1, v, size)
        /\ Wrote(origin, origin', t + 1, size)
        /\ t + 1 \in Nat /\ t <= t + 1 /\ (t + 1) + size <= t + RECORD_SLOT_SIZE
    BY <1>2, <1>8, PayloadWritten
  <2>2. /\ t < origin.len /\ origin.word[t] = size /\ size = Len(v)
    BY <1>3, <1>8 DEF InFlight, At
  <2> HIDE DEF t, v, size
  <2>3. RecordAt(origin', op.path) = t /\ origin' \in Origin
    BY <1>4, <2>1
  <2>4. /\ origin.len \in Nat /\ origin'.len \in Nat /\ origin'.len <= MAX_OFFSET
    BY <1>3, <2>3 DEF Origin
  <2>5. /\ t + 1 + size <= origin'.len
        /\ \A p \in 0 .. MAX_OFFSET :
             origin'.word[p] = IF t + 1 <= p /\ p < (t + 1) + size
                               THEN v[p - (t + 1) + 1] ELSE origin.word[p]
    BY <2>1 DEF Written
  <2>6. origin'.word[t] = size
    <3>1. t \in 0 .. MAX_OFFSET /\ ~ (t + 1 <= t)
      BY <2>1, <2>4, <2>5, Sizes
    <3> QED
      BY <2>2, <2>5, <3>1
  <2>7. \A i \in 1 .. size : origin'.word[t + i] = v[i]
    <3> SUFFICES ASSUME NEW i \in 1 .. size PROVE origin'.word[t + i] = v[i]
      OBVIOUS
    <3>1. /\ t + i \in 0 .. MAX_OFFSET /\ t + 1 <= t + i /\ t + i < (t + 1) + size
          /\ (t + i) - (t + 1) + 1 = i
      BY <2>1, <2>4, <2>5, Sizes
    <3>2. origin'.word[t + i] = v[(t + i) - (t + 1) + 1]
      BY <2>5, <3>1
    <3> QED
      BY <3>1, <3>2
  <2>8. ReadRecord(origin', t) = v
    <3>1. /\ Len(v) <= MaxValueLen /\ t + 1 + Len(v) <= origin'.len
          /\ origin'.word[t] = Len(v)
          /\ \A i \in 1 .. Len(v) : origin'.word[t + i] = v[i]
      BY <2>1, <2>2, <2>5, <2>6, <2>7
    <3> QED
      BY <2>1, <2>3, <3>1, ReadsAs
  <2> QED
    BY <2>1, <2>3, <2>8 DEF v
<1> QED
  BY <1>6, <1>7, <1>8 DEF PutLength, PutOverwrite, PutPayload, Fails, Abort, Writes

(* A put that answers without an error is read back, whatever puts failed   *)
(* before it.                                                               *)
THEOREM PutIsRead == Spec /\ []Covered => PutTakesEffect
<1>1. IInv /\ IInv' /\ Covered /\ [Next]_vars =>
        [op.name = "put" /\ op' = Idle /\ result' # FAILED /\ "spans" \notin wounds =>
           Lookup(origin', op.path) = op.value]_vars
  <2> SUFFICES ASSUME IInv, IInv', Covered, Next, op.name = "put", op' = Idle,
                      result' # FAILED, "spans" \notin wounds
               PROVE  Lookup(origin', op.path) = op.value
    OBVIOUS
  <2>1. ThenCleared /\ op \in Op
    BY DEF Covered, IInv, TypeInv
  <2>2. op.at \in PutPlaces
    BY <2>1 DEF IInv, OpNamed, Op, Places, Idle
  <2>3. op.at \notin {"idle", "unleaf", "unleaf_bit", "sync", "clear_header"}
        /\ op'.at = "idle"
    BY <2>2, IdleType DEF PutPlaces
  <2>4. PutLength \/ PutOverwrite \/ PutPayload
    <3>1. CASE PutAllocNode \/ PutLinkNode \/ PutLinkNodeBit \/ PutAllocRecord
               \/ PutLeaf \/ PutLeafBit
      <4>1. op'.at # "idle"
        BY <2>1, <3>1 DEF PutAllocNode, PutLinkNode, PutLinkNodeBit, PutAllocRecord,
             PutLeaf, PutLeafBit, Fails, Abort, Go, Op
      <4> QED
        BY <2>3, <4>1
    <3>2. ~ PutUnread /\ ~ PutRefused
      BY DEF PutUnread, PutRefused, Fails, Abort
    <3>3. ~ Reopen
      BY <2>3, StoreAssumption DEF Reopen, Covered, At
    <3> QED
      BY <2>3, <3>1, <3>2, <3>3
         DEF Next, RemoveNothing, Remove, Put, PutTooLarge, RemoveLeaf, RemoveLeafBit,
             RemoveFails, Clear, ClearHeader, Flush, FlushOrigin, At
  <2>5. PICK r \in Nat :
          /\ r # ABSENT /\ RecordAt(origin', op.path) = r
          /\ origin' \in Origin /\ ReadRecord(origin', r) = op.value
    BY <2>1, <2>4, PutStored
  <2>6. ~ CorruptPath(origin', op.path)
    <3>1. op.path \in Path
      BY <2>2, ValueSizes DEF IInv, OpNamed
    <3>2. Whole'
      <4>1. CASE origin' = origin
        BY <2>4, <4>1 DEF PutLength, PutOverwrite, PutPayload, WriteLength, Fails, Abort,
             Writes, Whole
      <4> QED
        BY <4>1, WritesKeepWounds DEF Whole
    <3> QED
      BY <3>1, <3>2 DEF IInv, WholeInv, Tree
  <2> QED
    BY <2>5, <2>6, RecordLocated DEF Lookup
<1> QED
  BY <1>1, LayoutInvariant, PTL DEF Spec, PutTakesEffect

(***************************************************************************)
(* What iter answers, whatever has failed.                                 *)
(***************************************************************************)
(* The record of the operation's key is linked and is not, or no longer,    *)
(* that of a value.                                                         *)
HalfWritten(p) == p = op.path /\ op.at \in {"leaf_bit", "length", "payload", "unleaf"}

(* What one key reads as, before and after. *)
LEMMA LookupIs ==
  ASSUME NEW o \in Origin, NEW p \in Path, ~ CorruptPath(o, p)
  PROVE  /\ RecordAt(o, p) = ABSENT => Lookup(o, p) = NONE
         /\ RecordAt(o, p) # ABSENT =>
              Lookup(o, p) = ReadRecord(o, RecordAt(o, p)) /\ Lookup(o, p) # NONE
<1>1. Locate(o, p).record_offset = RecordAt(o, p) /\ RecordAt(o, p) \in Nat
  BY RecordLocated, RecordType
<1>2. RecordAt(o, p) = ABSENT => Lookup(o, p) = NONE
  BY <1>1 DEF Lookup
<1>3. ASSUME RecordAt(o, p) # ABSENT
      PROVE  Lookup(o, p) = ReadRecord(o, RecordAt(o, p)) /\ Lookup(o, p) # NONE
  <2>1. Lookup(o, p) = ReadRecord(o, RecordAt(o, p))
    BY <1>1, <1>3 DEF Lookup
  <2> DEFINE r == RecordAt(o, p)
             v == [i \in 1 .. o.word[r] |-> o.word[r + i]]
  <2>2. CASE ReadRecord(o, r) = FAILED
    BY <2>1, <2>2, StoreAssumption
  <2>3. CASE ReadRecord(o, r) # FAILED
    <3>1. /\ r < o.len /\ o.word[r] \in Nat /\ r + 1 + o.word[r] <= o.len
          /\ ReadRecord(o, r) = v
      BY <1>1, <2>3, ReadRecordIs
    <3>2. v \in Seq(Nat)
      <4>1. \A i \in 1 .. o.word[r] : r + i \in 0 .. MAX_OFFSET
        <5> DEFINE size == o.word[r]
        <5>1. size \in Nat /\ r \in Nat /\ r + 1 + size <= o.len /\ o.len \in 0 .. MAX_OFFSET
          BY <1>1, <3>1 DEF Origin
        <5> HIDE DEF r, size
        <5>2. \A i \in 1 .. size : r + i \in 0 .. MAX_OFFSET
          BY <5>1, Sizes
        <5> QED
          BY <5>2 DEF size
      <4>2. \A i \in 1 .. o.word[r] : o.word[r + i] \in Nat
        BY <4>1 DEF Origin
      <4> QED
        BY <3>1, <4>2
    <3> HIDE DEF v, r
    <3> QED
      BY <2>1, <3>1, <3>2, StoreAssumption DEF r
  <2> QED
    BY <2>1, <2>2, <2>3
<1> QED
  BY <1>2, <1>3

LEMMA ValuesApart == FAILED \notin Answers /\ NONE # FAILED
BY StoreAssumption DEF Answers

(* A write of the header is none of what a key reads as. *)
LEMMA HeaderSpares ==
  ASSUME NEW o \in Origin, NEW w \in Origin, Tree(o), w.word = o.word, o.len <= w.len,
         NEW p \in Path, Lookup(o, p) # FAILED
  PROVE  Lookup(w, p) = Lookup(o, p)
<1>1. SameTree(o, w)
  <2>1. \A m \in NodesOf(o), i \in 0 .. FANOUT - 1 : ReadSlot(w, m, i) = ReadSlot(o, m, i)
    BY DEF ReadSlot
  <2> QED
    BY <2>1, SlotsKeptSame
<1>2. /\ RecordAt(w, p) = RecordAt(o, p) /\ ~ CorruptPath(w, p) /\ ~ CorruptPath(o, p)
      /\ RecordAt(o, p) \in Nat
  BY <1>1, RecordType DEF SameTree, SameWay, Tree
<1>3. CASE RecordAt(o, p) = ABSENT
  BY <1>2, <1>3, LookupIs
<1>4. CASE RecordAt(o, p) # ABSENT
  <2> DEFINE r == RecordAt(o, p)
             n == o.word[r]
  <2>1. Lookup(w, p) = ReadRecord(w, r) /\ Lookup(o, p) = ReadRecord(o, r)
    BY <1>2, <1>4, LookupIs
  <2>2. /\ r < o.len /\ n \in Nat /\ n <= MaxValueLen /\ r + 1 + n <= o.len
        /\ ReadRecord(o, r) = [i \in 1 .. n |-> o.word[r + i]]
        /\ w.word[r] = n /\ o.len \in Nat /\ w.len \in Nat /\ r \in Nat
    BY <1>2, <2>1, ReadRecordIs DEF Origin
  <2> HIDE DEF r, n
  <2>3. ~ (r >= w.len) /\ ~ (n > MaxValueLen) /\ ~ (r + 1 + n > w.len)
    BY <2>2, ValueSizes
  <2>4. ReadRecord(w, r) = [i \in 1 .. n |-> w.word[r + i]]
    BY <2>2, <2>3 DEF ReadRecord
  <2> QED
    BY <2>1, <2>2, <2>4
<1> QED
  BY <1>3, <1>4

LEMMA NotTheEmptyPath == <<>> \notin Path
<1> SUFFICES ASSUME <<>> \in Path PROVE FALSE
  OBVIOUS
<1>1. DOMAIN <<>> = 1 .. DEPTH
  BY DEF Path
<1>2. DOMAIN <<>> = {}
  OBVIOUS
<1>3. 1 \in 1 .. DEPTH
  BY Sizes
<1> QED
  BY <1>1, <1>2, <1>3

(* A store whose root has no children holds nothing.  *)
LEMMA NothingHeld ==
  ASSUME NEW o \in Origin, \A i \in 0 .. FANOUT - 1 : ReadSlot(o, ROOT_OFFSET, i) = ABSENT
  PROVE  \A p \in Path : Lookup(o, p) = NONE
<1>1. Tree(o) /\ \A p \in Path : RecordAt(o, p) = ABSENT
  BY BareRoot
<1> QED
  BY <1>1, LookupIs DEF Tree

(* A key that cannot be read is one of which a put was cut off. *)
KeysRead == \A p \in Path : p \notin torn /\ ~ HalfWritten(p) => Lookup(origin, p) # FAILED

LEMMA BareReads ==
  ASSUME origin' \in Origin,
         \A i \in 0 .. FANOUT - 1 : ReadSlot(origin', ROOT_OFFSET, i) = ABSENT
  PROVE  KeysRead'
BY NothingHeld, ValuesApart DEF KeysRead

(* Nothing is written; a key that was being written still is, or is torn. *)
LEMMA ReadsKept ==
  ASSUME KeysRead, origin' = origin, torn \subseteq torn',
         \A p \in Path : HalfWritten(p) => p \in torn' \/ (HalfWritten(p))'
  PROVE  KeysRead'
BY DEF KeysRead

(* An operation is cut off: its key is torn if it was half written.  *)
LEMMA CutReads ==
  ASSUME KeysRead, Cut, origin' = origin, op.at # "unleaf" PROVE KeysRead'
<1>1. torn \subseteq torn' /\ \A p \in Path : HalfWritten(p) => p \in torn'
  BY DEF Cut, HalfWritten
<1> QED
  BY <1>1, ReadsKept

(* The keys but that of the operation read as before, and its own is        *)
(* readable or half written.                                                *)
LEMMA OwnRead ==
  ASSUME KeysRead, IInv, IInv', Covered, Whole, Whole', Next, "spans" \notin wounds,
         torn' = torn, NEW p \in Path, p \in {op.path, op'.path},
         {op.name, op'.name} \cap {"put", "remove"} # {},
         \A q \in Path : q \in {op.path, op'.path} => q = p,
         p \notin torn /\ ~ (HalfWritten(p))' => Lookup(origin', p) # FAILED
  PROVE  KeysRead'
<1> SUFFICES ASSUME NEW q \in Path, q \notin torn, ~ (HalfWritten(q))'
             PROVE  Lookup(origin', q) # FAILED
  BY DEF KeysRead
<1>1. CASE q = p
  BY <1>1
<1>2. CASE q # p
  <2>1. q \notin {op.path, op'.path} /\ ThenCleared
    BY <1>2 DEF Covered
  <2>2. Lookup(origin, q) # FAILED
    BY <2>1 DEF KeysRead, HalfWritten
  <2>3. Spares(q)
    BY <2>1, StepSpares
  <2> QED
    BY <2>2, <2>3, SparedReads
<1> QED
  BY <1>1, <1>2

(* A step of a put or a remove that goes on. *)
LEMMA GoesOnRead ==
  ASSUME KeysRead, IInv, IInv', Covered, Whole, Whole', Next, "spans" \notin wounds,
         torn' = torn, op.path \in Path, op.name \in {"put", "remove"},
         op'.path = op.path \/ op' = Idle,
         op.path \notin torn /\ ~ (HalfWritten(op.path))' => Lookup(origin', op.path) # FAILED
  PROVE  KeysRead'
<1>1. \A q \in Path : q \in {op.path, op'.path} => q = op.path
  BY IdleType, NotTheEmptyPath
<1>2. op.path \in {op.path, op'.path} /\ {op.name, op'.name} \cap {"put", "remove"} # {}
  OBVIOUS
<1> QED
  BY <1>1, <1>2, OwnRead

(* A key that is absent reads as absent. *)
LEMMA AbsentRead ==
  ASSUME IInv', Whole', NEW p \in Path, RecordAt(origin', p) = ABSENT
  PROVE  Lookup(origin', p) # FAILED
<1>1. origin' \in Origin /\ ~ CorruptPath(origin', p)
  BY DEF IInv, TypeInv, WholeInv, Tree
<1> QED
  BY <1>1, LookupIs, ValuesApart

LEMMA NodeReads ==
  ASSUME KeysRead, IInv, IInv', Covered, Whole, Whole',
         PutAllocNode \/ PutLinkNode \/ PutLinkNodeBit
  PROVE  KeysRead'
<1>1. /\ op.at \in {"locate", "link", "link_bit"} /\ op.at \in PutPlaces
      /\ op.name = "put" /\ op.path \in Path
      /\ ThenCleared /\ op \in Op
  BY ValueSizes DEF PutAllocNode, PutLinkNode, PutLinkNodeBit, At, PutPlaces, IInv, OpNamed,
     TypeInv, Covered
<1>2. "spans" \notin wounds
  BY <1>1, PlaceWhole
<1>3. CASE Cut /\ origin' = origin
  BY <1>1, <1>3, CutReads
<1>4. CASE ~ (Cut /\ origin' = origin)
  <2>1. torn' = torn /\ op'.path = op.path
    BY <1>1, <1>4 DEF PutAllocNode, PutLinkNode, PutLinkNodeBit, Fails, Abort, Writes, Go, Op
  <2>2. ASSUME op.path \notin torn PROVE Lookup(origin', op.path) # FAILED
    <3>1. Lookup(origin, op.path) # FAILED
      BY <1>1, <2>2 DEF KeysRead, HalfWritten
    <3>2. Spares(op.path)
      BY <1>1, PutNodeSpares DEF At
    <3> QED
      BY <1>1, <3>1, <3>2, SparedReads
  <2>3. Next
    BY DEF Next
  <2> QED
    BY <1>1, <1>2, <2>1, <2>2, <2>3, GoesOnRead
<1> QED
  BY <1>3, <1>4

LEMMA LeafReads ==
  ASSUME KeysRead, IInv, IInv', Covered, Whole, Whole',
         PutLeaf \/ PutLeafBit \/ RemoveLeaf \/ RemoveLeafBit
  PROVE  KeysRead'
<1>1. /\ op.at \in LeafPlaces /\ op.at \in PutPlaces \cup RemovePlaces
      /\ op.name \in {"put", "remove"} /\ op.path \in Path
      /\ ThenCleared /\ op \in Op /\ origin \in Origin /\ InFlight
  BY ValueSizes, Holds
     DEF PutLeaf, PutLeafBit, RemoveLeaf, RemoveLeafBit, At, LeafPlaces, PutPlaces,
         RemovePlaces, IInv, OpNamed, Covered
<1>2. "spans" \notin wounds
  BY <1>1, PlaceWhole
<1>3. Next
  BY DEF Next
<1>4. CASE Fails("put", strategy) /\ op.at \in {"leaf", "leaf_bit"}
  BY <1>4, CutReads DEF Fails, Abort
<1>5. ~ Fails("remove", strategy)
  <2> SUFFICES ASSUME Fails("remove", strategy) PROVE FALSE
    OBVIOUS
  <2>1. "spans" \in wounds' /\ op'.at = "idle"
    BY IdleType DEF Fails, Abort
  <2> QED
    BY <2>1 DEF Whole, At
<1>6. CASE (PutLeaf \/ PutLeafBit) /\ ~ Fails("put", strategy)
  <2>1. torn' = torn /\ (Go("leaf_bit") \/ Go("length"))
    BY <1>6 DEF PutLeaf, PutLeafBit, Writes
  <2>2. op'.at \in {"leaf_bit", "length"} /\ op'.path = op.path
    BY <1>1, <2>1 DEF Go, Op
  <2>3. (HalfWritten(op.path))'
    BY <2>2 DEF HalfWritten
  <2> QED
    BY <1>1, <1>2, <1>3, <2>1, <2>2, <2>3, GoesOnRead
<1>7. CASE RemoveLeaf
  <2>1. torn' = torn /\ Go("unleaf_bit")
    BY <1>5, <1>7 DEF RemoveLeaf, Writes
  <2>2. op'.at = "unleaf_bit" /\ op'.path = op.path
    BY <1>1, <2>1 DEF Go, Op
  <2>3. RecordAt(origin', op.path) = ABSENT
    BY <2>2 DEF IInv, WholeInv, InFlight, At
  <2>4. Lookup(origin', op.path) # FAILED
    BY <1>1, <2>3, AbsentRead
  <2> QED
    BY <1>1, <1>2, <1>3, <2>1, <2>2, <2>4, GoesOnRead
<1>8. CASE RemoveLeafBit
  <2>1. /\ op.at = "unleaf_bit" /\ op' = Idle /\ torn' = torn
        /\ origin' = WriteSlotBit(origin, op.slot, ABSENT)
    BY <1>5, <1>8 DEF RemoveLeafBit, Writes, At
  <2>2. RecordAt(origin, op.path) = ABSENT
    BY <1>1, <2>1 DEF InFlight, At
  <2>3. SameTree(origin, origin')
    <3>1. ABSENT \in Nat
      BY Sizes
    <3> QED
      BY <1>1, <2>1, <3>1, LeafBitWritten
  <2>4. RecordAt(origin', op.path) = ABSENT
    BY <1>1, <2>2, <2>3 DEF SameTree, SameWay
  <2>5. Lookup(origin', op.path) # FAILED
    BY <1>1, <2>4, AbsentRead
  <2> QED
    BY <1>1, <1>2, <1>3, <2>1, <2>5, GoesOnRead
<1> QED
  BY <1>4, <1>5, <1>6, <1>7, <1>8 DEF PutLeaf, PutLeafBit, At

LEMMA ValueReads ==
  ASSUME KeysRead, IInv, IInv', Covered, Whole, Whole', PutLength \/ PutOverwrite \/ PutPayload
  PROVE  KeysRead'
<1>1. /\ op.at \in {"locate", "length", "payload"} /\ op.at \in PutPlaces
      /\ op.name = "put" /\ op.path \in Path
      /\ ThenCleared /\ op \in Op /\ op.prev \in Answers /\ op.value \in Seq(Nat)
  BY ValueSizes, OpFields
     DEF PutLength, PutOverwrite, PutPayload, At, PutPlaces, IInv, OpNamed, TypeInv, Covered
<1>2. "spans" \notin wounds
  BY <1>1, PlaceWhole
<1>3. Next
  BY DEF Next
<1>4. CASE Fails("put", strategy)
  BY <1>1, <1>4, CutReads DEF Fails, Abort
<1>5. CASE ~ Fails("put", strategy)
  <2>1. /\ torn' = torn
        /\ \/ op' = Idle /\ result' # FAILED
           \/ op'.at = "payload" /\ op'.path = op.path
    <3>1. ASSUME NEW r, NEW prev, prev # FAILED, WriteLength(r, prev)
          PROVE  /\ torn' = torn
                 /\ \/ op' = Idle /\ result' # FAILED
                    \/ op'.at = "payload" /\ op'.path = op.path
      BY <1>1, <3>1 DEF WriteLength, Writes, Op
    <3>2. CASE PutLength
      BY <1>5, <3>1, <3>2, ValuesApart DEF PutLength
    <3>3. CASE PutOverwrite
      BY <1>5, <3>1, <3>3 DEF PutOverwrite
    <3>4. CASE PutPayload
      BY <1>1, <1>5, <3>4, ValuesApart DEF PutPayload, Writes
    <3> QED
      BY <3>2, <3>3, <3>4
  <2>2. CASE op' = Idle /\ result' # FAILED
    <3>1. PICK r \in Nat :
            /\ r # ABSENT /\ RecordAt(origin', op.path) = r
            /\ origin' \in Origin /\ ReadRecord(origin', r) = op.value
      BY <1>1, <2>2, PutStored
    <3>2. ~ CorruptPath(origin', op.path)
      BY <1>1 DEF IInv, WholeInv, Tree
    <3>3. Lookup(origin', op.path) = op.value
      BY <1>1, <3>1, <3>2, LookupIs
    <3>4. Lookup(origin', op.path) # FAILED
      BY <1>1, <3>3, StoreAssumption
    <3> QED
      BY <1>1, <1>2, <1>3, <2>1, <2>2, <3>4, GoesOnRead
  <2>3. CASE op'.at = "payload" /\ op'.path = op.path
    <3>1. (HalfWritten(op.path))'
      BY <2>3 DEF HalfWritten
    <3> QED
      BY <1>1, <1>2, <1>3, <2>1, <2>3, <3>1, GoesOnRead
  <2> QED
    BY <2>1, <2>2, <2>3
<1> QED
  BY <1>4, <1>5

LEMMA RemoveReads ==
  ASSUME KeysRead, IInv, IInv', Covered, Whole, Whole', NEW p \in Paths, Remove(p)
  PROVE  KeysRead'
<1>1. /\ op = Idle /\ op.at = "idle" /\ op.path = <<>> /\ p \in Path /\ torn' = torn
      /\ op'.at = "unleaf" /\ op'.name = "remove" /\ op'.path = p
  BY ValueSizes, IdleType DEF Remove, Writes, At, Idle, IInv, OpNamed
<1>2. "spans" \notin wounds /\ (HalfWritten(p))'
  BY <1>1 DEF Whole, At, HalfWritten
<1>3. Next
  BY DEF Next
<1>4. \A q \in Path : q \in {op.path, op'.path} => q = p
  BY <1>1, NotTheEmptyPath
<1> QED
  BY <1>1, <1>2, <1>3, <1>4, OwnRead

LEMMA ClearReads ==
  ASSUME IInv, IInv', Whole', Clear \/ ClearHeader PROVE KeysRead'
<1>1. CASE Clear
  <2>1. op'.at = "clear_header"
    <3>1. CASE Fails("clear", NewStrategy)
      <4>1. "spans" \in wounds'
        BY <3>1 DEF Fails, Abort
      <4> QED
        BY <4>1 DEF Whole, At
    <3>2. CASE ~ Fails("clear", NewStrategy)
      BY <1>1, <3>2 DEF Clear, Idle
    <3> QED
      BY <3>1, <3>2
  <2> QED
    BY <2>1, BareReads DEF IInv, TypeInv, WholeInv, InFlight, At
<1>2. CASE ClearHeader
  <2>1. /\ op.at = "clear_header" /\ origin \in Origin
        /\ \A i \in 0 .. FANOUT - 1 : ReadSlot(origin, ROOT_OFFSET, i) = ABSENT
    BY <1>2, Holds DEF ClearHeader, InFlight, At, Whole
  <2>2. origin'.word = origin.word
    BY <1>2, <2>1 DEF ClearHeader, Fails, Abort, WriteHeader, Origin
  <2>3. /\ origin' \in Origin
        /\ \A i \in 0 .. FANOUT - 1 : ReadSlot(origin', ROOT_OFFSET, i) = ABSENT
    BY <2>1, <2>2 DEF IInv, TypeInv, ReadSlot
  <2> QED
    BY <2>3, BareReads
<1> QED
  BY <1>1, <1>2

LEMMA FlushReads ==
  ASSUME KeysRead, IInv, IInv', Whole, Whole', Flush PROVE KeysRead'
<1> DEFINE counted == [strategy EXCEPT !.record_count = len]
<1>1. op.at = "idle"
  BY DEF Flush, At
<1>2. CASE Fails("flush", counted)
  <2>1. Cut /\ origin' = origin
    BY <1>2 DEF Fails, Abort
  <2> QED
    BY <1>1, <2>1, CutReads
<1>3. CASE ~ Fails("flush", counted)
  <2>1. torn' = torn /\ origin' = WriteHeader(origin, counted)
    BY <1>3 DEF Flush, Writes
  <2> HIDE DEF counted
  <2>2. origin \in Origin /\ origin' \in Origin /\ Tree(origin)
    BY DEF IInv, TypeInv, WholeInv
  <2>3. origin'.word = origin.word /\ origin.len <= origin'.len
    <3>1. origin'.word = origin.word /\ origin'.len = Later(origin.len, ROOT_OFFSET)
      BY <2>1, <2>2 DEF WriteHeader, Origin
    <3>2. origin.len \in Nat /\ ROOT_OFFSET \in Nat
      BY <2>2, Sizes DEF Origin
    <3> QED
      BY <3>1, <3>2 DEF Later
  <2>4. ASSUME NEW q \in Path, q \notin torn PROVE Lookup(origin', q) # FAILED
    <3>1. Lookup(origin, q) # FAILED
      BY <1>1, <2>4 DEF KeysRead, HalfWritten
    <3> QED
      BY <2>2, <2>3, <3>1, HeaderSpares
  <2> QED
    BY <2>1, <2>4 DEF KeysRead
<1> QED
  BY <1>2, <1>3

(* The steps that write nothing: they end an operation or begin one. *)
LEMMA QuietReads ==
  ASSUME KeysRead, IInv, Covered,
         \/ \E p \in Paths : RemoveNothing(p)
         \/ \E p \in Paths, v \in Payloads : Put(p, v)
         \/ \E v \in Payloads : PutTooLarge(v)
         \/ PutAllocRecord \/ PutUnread \/ PutRefused \/ RemoveFails
         \/ FlushOrigin \/ Reopen
  PROVE  KeysRead'
<1>1. op.at \in {"idle", "locate", "sync"} /\ \A p \in Path : ~ HalfWritten(p)
  <2>1. op.at \in {"idle", "locate", "sync"}
    BY StoreAssumption
       DEF RemoveNothing, Put, PutTooLarge, PutAllocRecord, PutUnread, PutRefused, RemoveFails,
           FlushOrigin, Reopen, Covered, At
  <2> QED
    BY <2>1 DEF HalfWritten
<1>2. CASE \E p \in Paths : RemoveNothing(p)
  BY <1>1, <1>2, ReadsKept DEF RemoveNothing
<1>3. CASE \E p \in Paths, v \in Payloads : Put(p, v)
  BY <1>1, <1>3, ReadsKept DEF Put
<1>4. CASE \E v \in Payloads : PutTooLarge(v)
  BY <1>1, <1>4, ReadsKept DEF PutTooLarge
<1>5. CASE PutAllocRecord \/ RemoveFails
  BY <1>1, <1>5, ReadsKept DEF PutAllocRecord, RemoveFails, FailsUnchanged
<1>6. CASE PutUnread \/ PutRefused
  BY <1>1, <1>6, CutReads DEF PutUnread, PutRefused, Fails, Abort
<1>7. CASE FlushOrigin
  BY <1>1, <1>7, ReadsKept, CutReads DEF FlushOrigin, Fails, Abort
<1>8. CASE Reopen
  <2>1. Cut /\ origin' = origin
    BY <1>8 DEF Reopen
  <2> QED
    BY <1>1, <2>1, CutReads
<1> QED
  BY <1>2, <1>3, <1>4, <1>5, <1>6, <1>7, <1>8

(* Nothing but a clear makes a wounded store whole. *)
LEMMA OnlyClearHeals ==
  ASSUME IInv, ThenCleared, Next, ~ Whole, Whole' PROVE Clear
<1>1. op.at = "idle" /\ "spans" \in wounds
  <2>1. /\ "spans" \in wounds /\ op.at # "clear_header" /\ op.name \in {"none", "clear"}
        /\ op \in Op
    BY DEF Whole, At, ThenCleared, IInv, TypeInv
  <2>2. op.at \in Places
    BY <2>1 DEF Op
  <2> QED
    BY <2>1, <2>2 DEF IInv, OpNamed, Places
<1>2. CASE \E p \in Paths : RemoveNothing(p) \/ Remove(p)
  BY <1>1, <1>2 DEF RemoveNothing, Remove, Writes, Whole, At, Idle
<1>3. CASE \E p \in Paths, v \in Payloads : Put(p, v)
  BY <1>1, <1>3 DEF Put, Whole, At, Idle
<1>4. CASE (\E v \in Payloads : PutTooLarge(v)) \/ RemoveFails
  BY <1>1, <1>4 DEF PutTooLarge, RemoveFails, FailsUnchanged, Whole, At
<1>5. CASE Flush
  <2>1. ASSUME NEW t, Fails("flush", t) PROVE "spans" \in wounds' /\ op'.at = "idle"
    BY <1>1, <2>1, IdleType DEF Fails, Abort
  <2>2. ASSUME NEW o, Writes(o) PROVE "spans" \in wounds'
    BY <1>1, <2>2 DEF Writes
  <2>3. "spans" \in wounds' /\ op'.at \in {"idle", "sync"}
    BY <1>5, <2>1, <2>2 DEF Flush, Idle
  <2> QED
    BY <2>3 DEF Whole, At
<1>6. CASE Reopen
  BY <1>1, <1>6 DEF Reopen, Whole, At, Idle
<1> QED
  BY <1>1, <1>2, <1>3, <1>4, <1>5, <1>6
     DEF Next, PutAllocNode, PutLinkNode, PutLinkNodeBit, PutAllocRecord, PutLeaf, PutLeafBit,
         PutLength, PutOverwrite, PutPayload, PutUnread, PutRefused, RemoveLeaf, RemoveLeafBit,
         ClearHeader, FlushOrigin, At

LEMMA ReadStep ==
  IInv /\ IInv' /\ Covered /\ (Whole => KeysRead) /\ [Next]_vars => (Whole => KeysRead)'
<1> SUFFICES ASSUME IInv, IInv', Covered, Whole => KeysRead, [Next]_vars, Whole'
             PROVE  KeysRead'
  OBVIOUS
<1>1. CASE UNCHANGED vars
  BY <1>1 DEF vars, Whole, At, KeysRead, HalfWritten
<1>2. CASE Next /\ ~ Whole
  BY <1>2, OnlyClearHeals, ClearReads DEF Covered
<1>3. CASE Next /\ Whole
  <2>1. CASE \E p \in Paths : RemoveNothing(p) \/ Remove(p)
    BY <1>3, <2>1, QuietReads, RemoveReads
  <2>2. CASE \/ \E p \in Paths, v \in Payloads : Put(p, v)
             \/ \E v \in Payloads : PutTooLarge(v)
             \/ PutAllocRecord \/ PutUnread \/ PutRefused \/ RemoveFails
             \/ FlushOrigin \/ Reopen
    BY <1>3, <2>2, QuietReads
  <2>3. CASE \/ PutAllocNode \/ PutLinkNode \/ PutLinkNodeBit
             \/ PutLeaf \/ PutLeafBit \/ RemoveLeaf \/ RemoveLeafBit
             \/ PutLength \/ PutOverwrite \/ PutPayload
    BY <1>3, <2>3, NodeReads, LeafReads, ValueReads
  <2>4. CASE Clear \/ ClearHeader \/ Flush
    BY <1>3, <2>4, ClearReads, FlushReads
  <2> QED
    BY <1>3, <2>1, <2>2, <2>3, <2>4 DEF Next
<1> QED
  BY <1>1, <1>2, <1>3

LEMMA ReadInit == Init => KeysRead
<1> SUFFICES ASSUME Init PROVE KeysRead
  OBVIOUS
<1>1. origin = EmptyOrigin /\ origin \in Origin
  BY InitInv DEF Init, IInv, TypeInv
<1>2. ASSUME NEW i \in 0 .. FANOUT - 1 PROVE ReadSlot(origin, ROOT_OFFSET, i) = ABSENT
  <2>1. SlotPos(ROOT_OFFSET, i) \in 0 .. MAX_OFFSET
    BY Sizes DEF SlotPos
  <2> QED
    BY <1>1, <2>1, Sizes DEF ReadSlot, EmptyOrigin
<1> QED
  BY <1>1, <1>2, NothingHeld, ValuesApart DEF KeysRead

(* The walk of iter comes to the stored keys that no cleared bit hides.  *)
LEMMA ListedAre ==
  ASSUME IInv, Intact
  PROVE  /\ IterPaths(origin) = { p \in Stored(origin) : ~ Hidden(p) }
         /\ ~ IterIsCorrupt(origin)
<1>1. op.at = "idle" /\ Whole
  BY DEF Intact, Whole, At
<1>2. Marked /\ Tree(origin)
  BY <1>1, Holds
<1>3. ASSUME NEW p \in Stored(origin), NEW d \in 1 .. DEPTH
      PROVE  /\ NodesTo(origin, p)[d] # ABSENT
             /\ ReadSlot(origin, NodesTo(origin, p)[d], p[d]) # ABSENT
             /\ InBitmap(origin, NodesTo(origin, p)[d], p[d]) <=>
                  [node |-> NodesTo(origin, p)[d], index |-> p[d]] \notin unmarked
  <2>1. /\ p \in Path /\ NodesTo(origin, p)[DEPTH] # ABSENT
        /\ ReadSlot(origin, NodesTo(origin, p)[DEPTH], p[DEPTH]) # ABSENT
    BY <1>3 DEF Stored, RecordAt
  <2>2. NodesTo(origin, p)[d] # ABSENT
    BY <2>1, AbsentBelow, Sizes
  <2>3. ReadSlot(origin, NodesTo(origin, p)[d], p[d]) # ABSENT
    <3>1. CASE d = DEPTH
      BY <2>1, <3>1
    <3>2. CASE d # DEPTH
      <4>1. d \in 1 .. DEPTH - 1 /\ d + 1 \in 1 .. DEPTH /\ DEPTH >= d + 1
        BY <3>2, Sizes
      <4>2. NodesTo(origin, p)[d + 1] # ABSENT
        BY <2>1, <4>1, AbsentBelow, Sizes
      <4>3. NodesTo(origin, p)[d + 1] = StepDown(origin, NodesTo(origin, p)[d], p[d])
        BY <4>1, WalkStep
      <4> QED
        BY <2>2, <4>2, <4>3 DEF StepDown
    <3> QED
      BY <3>1, <3>2
  <2>4. NodesTo(origin, p)[d] \in NodesOf(origin) /\ p[d] \in 0 .. FANOUT - 1
    BY <2>1, <2>2, InNodesOf, Sizes
  <2>5. MarkedAt(NodesTo(origin, p)[d], p[d])
    BY <1>2, <2>4 DEF Marked
  <2> QED
    BY <1>1, <2>2, <2>3, <2>5 DEF MarkedAt, At
<1>4. ASSUME NEW p \in IterPaths(origin) PROVE p \in Stored(origin) /\ ~ Hidden(p)
  <2>1. p \in Path /\ \A d \in 1 .. DEPTH :
          /\ NodesTo(origin, p)[d] # ABSENT
          /\ InBitmap(origin, NodesTo(origin, p)[d], p[d])
          /\ ReadSlot(origin, NodesTo(origin, p)[d], p[d]) # ABSENT
    BY <1>4 DEF IterPaths
  <2>2. p \in Stored(origin)
    BY <2>1, Sizes DEF Stored, RecordAt
  <2> QED
    BY <1>3, <2>1, <2>2 DEF Hidden
<1>5. ASSUME NEW p \in Stored(origin), ~ Hidden(p) PROVE p \in IterPaths(origin)
  <2>1. p \in Path
    BY DEF Stored
  <2> QED
    BY <1>3, <1>5, <2>1 DEF IterPaths, Hidden
<1>6. ~ IterIsCorrupt(origin)
  <2> SUFFICES ASSUME IterIsCorrupt(origin) PROVE FALSE
    OBVIOUS
  <2>1. PICK p \in Path, d \in 1 .. DEPTH - 1 :
          /\ \A e \in 1 .. d :
               /\ NodesTo(origin, p)[e] # ABSENT
               /\ InBitmap(origin, NodesTo(origin, p)[e], p[e])
               /\ ReadSlot(origin, NodesTo(origin, p)[e], p[e]) # ABSENT
          /\ ~ ChildInBounds(origin, ReadSlot(origin, NodesTo(origin, p)[d], p[d]))
    BY DEF IterIsCorrupt
  <2>2. d \in 1 .. d
    BY Sizes
  <2>3. CorruptPath(origin, p)
    BY <2>1, <2>2 DEF CorruptPath
  <2> QED
    BY <1>2, <2>3 DEF Tree
<1> QED
  BY <1>4, <1>5, <1>6

(* iter, which follows the bitmaps, answers with every entry get finds,     *)
(* each with the value get answers, whichever puts and flushes failed at    *)
(* whichever write: all but those below a slot whose bitmap write failed.   *)
(* It answers with an error only while a put of a key it lists has been cut *)
(* off after its leaf was written.  iter_node, write_slot and iter.         *)
THEOREM IterAnswersAsGet == Spec /\ []Covered => []IterAgreesWithGet
<1>1. IInv /\ (Whole => KeysRead) => IterAgreesWithGet
  <2> DEFINE listed == { p \in StoredPaths : ~ Hidden(p) }
             broken == { p \in StoredPaths : Lookup(origin, p) = FAILED }
             value(p) == ReadRecord(origin, Locate(origin, p).record_offset)
  <2> SUFFICES ASSUME IInv, Whole => KeysRead, Intact
               PROVE  /\ Entries(origin) = IF listed \cap broken # {} THEN FAILED
                                           ELSE [p \in listed |-> Lookup(origin, p)]
                      /\ broken \subseteq torn
    BY DEF IterAgreesWithGet
  <2>1. op.at = "idle" /\ KeysRead /\ Tree(origin)
    BY Holds DEF Intact, Whole, At
  <2>2. IterPaths(origin) = listed /\ ~ IterIsCorrupt(origin)
    BY ListedAre, StoredIs
  <2>3. ASSUME NEW p \in StoredPaths PROVE p \in Path /\ value(p) = Lookup(origin, p)
    BY <2>1 DEF StoredPaths, RecordOf, Lookup, Tree
  <2>4. broken \subseteq torn
    BY <2>1, <2>3 DEF KeysRead, HalfWritten
  <2>5. (\E p \in listed : value(p) = FAILED) <=> listed \cap broken # {}
    BY <2>3
  <2>6. [p \in listed |-> value(p)] = [p \in listed |-> Lookup(origin, p)]
    BY <2>3
  <2>7. Entries(origin) = IF \E p \in listed : value(p) = FAILED THEN FAILED
                          ELSE [p \in listed |-> value(p)]
    BY <2>2 DEF Entries
  <2> QED
    BY <2>4, <2>5, <2>6, <2>7
<1>2. Init => (Whole => KeysRead)
  BY ReadInit
<1> QED
  BY <1>1, <1>2, ReadStep, LayoutInvariant, PTL DEF Spec

(* Only a failed remove or a failed clear wounds the spans. *)
LEMMA NoSpanWounds ==
  ASSUME FaultyOps \cap {"remove", "clear"} = {}, "spans" \notin wounds, [Next]_vars
  PROVE  "spans" \notin wounds'
<1>1. CASE UNCHANGED vars
  BY <1>1 DEF vars
<1>2. ASSUME NEW name \in {"put", "flush"}, NEW s, Abort(name, s)
      PROVE  "spans" \notin wounds'
  BY <1>2 DEF Abort
<1>3. ASSUME NEW name \in {"put", "remove", "clear", "flush"}, NEW s, Fails(name, s)
      PROVE  "spans" \notin wounds'
  <2>1. name \in {"put", "flush"} /\ Abort(name, s)
    BY <1>3 DEF Fails
  <2> QED
    BY <1>2, <2>1
<1>4. ASSUME wounds' \subseteq wounds PROVE "spans" \notin wounds'
  BY <1>4
<1>5. CASE \E p \in Paths : RemoveNothing(p) \/ Remove(p)
  BY <1>3, <1>4, <1>5 DEF RemoveNothing, Remove, Writes
<1>6. CASE \E p \in Paths, v \in Payloads : Put(p, v)
  BY <1>4, <1>6 DEF Put
<1>7. CASE \E v \in Payloads : PutTooLarge(v)
  BY <1>4, <1>7 DEF PutTooLarge
<1>8. CASE PutAllocNode \/ PutLinkNode \/ PutLinkNodeBit
  BY <1>3, <1>4, <1>8 DEF PutAllocNode, PutLinkNode, PutLinkNodeBit, Writes
<1>9. CASE PutAllocRecord \/ PutLeaf \/ PutLeafBit \/ PutLength
  BY <1>3, <1>4, <1>9 DEF PutAllocRecord, PutLeaf, PutLeafBit, PutLength, WriteLength, Writes
<1>10. CASE PutOverwrite \/ PutPayload \/ PutUnread \/ PutRefused
  BY <1>2, <1>3, <1>4, <1>10
     DEF PutOverwrite, PutPayload, PutUnread, PutRefused, WriteLength, Writes
<1>11. CASE RemoveLeaf \/ RemoveLeafBit \/ RemoveFails
  BY <1>3, <1>4, <1>11 DEF RemoveLeaf, RemoveLeafBit, RemoveFails, FailsUnchanged, Writes
<1>12. CASE Clear \/ ClearHeader
  BY <1>3, <1>4, <1>12 DEF Clear, ClearHeader, Writes
<1>13. CASE Flush \/ FlushOrigin
  BY <1>3, <1>4, <1>13 DEF Flush, FlushOrigin, Writes
<1>14. CASE Reopen
  BY <1>4, <1>14 DEF Reopen
<1> QED
  BY <1>1, <1>5, <1>6, <1>7, <1>8, <1>9, <1>10, <1>11, <1>12, <1>13, <1>14 DEF Next

(* Where no remove or clear fails, and a store is reopened only with its    *)
(* header up to date, every behaviour is covered.                           *)
LEMMA AlwaysCovered ==
  ASSUME FaultyOps \cap {"remove", "clear"} = {}, ReopenWhen = "flushed"
  PROVE  Spec => []Covered
<1>1. Init => "spans" \notin wounds
  BY DEF Init
<1>2. "spans" \notin wounds /\ [Next]_vars => ("spans" \notin wounds)'
  BY NoSpanWounds
<1>3. "spans" \notin wounds => Covered
  BY DEF Covered, ThenCleared
<1> QED
  BY <1>1, <1>2, <1>3, PTL DEF Spec

(* Nothing but the constants: puts and flushes may fail at any write and as *)
(* often as they like, and what a store promises holds in every behaviour.  *)
THEOREM FailedPutsAreHarmless ==
  ASSUME FaultyOps \cap {"remove", "clear"} = {}, ReopenWhen = "flushed"
  PROVE  Spec => /\ [](SpansDisjoint /\ IterAgreesWithGet /\ LenWithinFaults)
                 /\ OtherKeysUntouched
                 /\ PutTakesEffect
BY AlwaysCovered, SpansApart, IterAnswersAsGet, LenIsCount, OthersUntouched, PutIsRead, PTL
(***************************************************************************)
(* What the store is for its callers: a map, as long as no write fails and *)
(* the offsets last.                                                       *)
(***************************************************************************)
(* A put that needs a node or a fresh record finds the offsets for it.  *)
HasRoom ==
  At("locate") =>
    /\ ~ Found.at_leaf => strategy.bump + NODE_SIZE <= MAX_OFFSET
    /\ Found.at_leaf /\ Found.record_offset = ABSENT /\ strategy.free_head = ABSENT =>
         strategy.bump + RECORD_SLOT_SIZE <= MAX_OFFSET

AllRead == \A p \in Paths : ~ HalfWritten(p) => Lookup(origin, p) # FAILED

(* A put that makes its way to its leaf, or has just made it, has found     *)
(* nothing there.                                                           *)
NothingBefore ==
  /\ op.at \in {"locate", "link", "link_bit", "leaf", "leaf_bit", "length"} => op.prev = NONE
  /\ op.at \in {"link", "link_bit"} => RecordAt(origin, op.path) = ABSENT

MapInv == IInv /\ wounds = {} /\ AllRead /\ NothingBefore

EffectiveAt(p) == IF AnswerPending(p) THEN op.prev ELSE Lookup(origin, p)
(***************************************************************************)
(* Without failures.                                                       *)
(***************************************************************************)
LEMMA NoFaults ==
  ASSUME FaultyOps = {}, NEW name, NEW s PROVE ~ Fails(name, s) /\ ~ PutUnread /\ ~ RemoveFails
BY DEF Fails, PutUnread, RemoveFails, FailsUnchanged

LEMMA NeverRefused ==
  ASSUME MapInv, HasRoom PROVE ~ PutRefused
<1> SUFFICES ASSUME PutRefused PROVE FALSE
  OBVIOUS
<1>1. /\ At("locate") /\ Whole /\ origin \in Origin /\ Tree(origin) /\ strategy \in Header
      /\ StrategySound
  BY Holds DEF PutRefused, MapInv, Whole, IInv
<1>2. op.path \in Paths /\ op.path \in Path
  BY <1>1, ValueSizes DEF At, MapInv, IInv, OpNamed, PutPlaces
<1>3. ~ CorruptPath(origin, op.path)
  BY <1>1, <1>2 DEF Tree
<1>4. ~ HalfWritten(op.path)
  BY <1>1 DEF HalfWritten, At
<1>5. Lookup(origin, op.path) # FAILED
  BY <1>2, <1>4 DEF MapInv, AllRead
<1>6. ~ (Found.record_offset # ABSENT /\ ReadRecord(origin, Found.record_offset) = FAILED)
  BY <1>3, <1>5 DEF Lookup, Found
<1>7. ~ (/\ Found.at_leaf
         /\ Found.record_offset = ABSENT
         /\ AllocFails(origin, strategy))
  <2>1. strategy.free_head \in Nat /\ origin.len \in Nat /\ strategy.bump \in Nat
    BY <1>1 DEF Header, Origin
  <2>2. strategy.free_head # ABSENT => ~ (strategy.free_head >= origin.len)
    BY <1>1, <2>1 DEF StrategySound
  <2>3. strategy.bump + RECORD_SLOT_SIZE \in Nat
    BY <2>1, Sizes
  <2> QED
    BY <1>1, <2>1, <2>2, <2>3, Sizes DEF AllocFails, HasRoom
<1>8. ~ (~ Found.at_leaf /\ strategy.bump + NODE_SIZE > MAX_OFFSET)
  <2>1. strategy.bump + NODE_SIZE \in Nat /\ MAX_OFFSET \in Nat
    BY <1>1, Sizes DEF Header
  <2> QED
    BY <1>1, <2>1 DEF HasRoom
<1> QED
  BY <1>3, <1>6, <1>7, <1>8 DEF PutRefused

(* So no step leaves a wound. *)
LEMMA Unwounded ==
  ASSUME FaultyOps = {}, MapInv, HasRoom, [Next]_vars PROVE wounds' = {}
<1>1. ~ PutRefused
  BY NeverRefused
<1>2. (\A name, s : ~ Fails(name, s)) /\ ~ PutUnread /\ ~ RemoveFails
  BY NoFaults
<1>3. wounds = {}
  BY DEF MapInv
<1>4. CASE UNCHANGED vars
  BY <1>3, <1>4 DEF vars
<1>5. CASE \E p \in Paths : RemoveNothing(p) \/ Remove(p)
  BY <1>2, <1>3, <1>5 DEF RemoveNothing, Remove, Writes
<1>6. CASE \E p \in Paths, v \in Payloads : Put(p, v)
  BY <1>3, <1>6 DEF Put
<1>7. CASE \E v \in Payloads : PutTooLarge(v)
  BY <1>3, <1>7 DEF PutTooLarge
<1>8. CASE PutAllocNode \/ PutLinkNode \/ PutLinkNodeBit
  BY <1>2, <1>3, <1>8 DEF PutAllocNode, PutLinkNode, PutLinkNodeBit, Writes
<1>9. CASE PutAllocRecord \/ PutLeaf \/ PutLeafBit \/ PutLength
  BY <1>2, <1>3, <1>9 DEF PutAllocRecord, PutLeaf, PutLeafBit, PutLength, WriteLength, Writes
<1>10. CASE PutOverwrite \/ PutPayload
  BY <1>2, <1>3, <1>10 DEF PutOverwrite, PutPayload, WriteLength, Writes
<1>11. CASE RemoveLeaf \/ RemoveLeafBit
  BY <1>2, <1>3, <1>11 DEF RemoveLeaf, RemoveLeafBit, Writes
<1>12. CASE Clear \/ ClearHeader
  BY <1>2, <1>3, <1>12 DEF Clear, ClearHeader, Writes
<1>13. CASE Flush \/ FlushOrigin
  BY <1>2, <1>3, <1>13 DEF Flush, FlushOrigin, Writes
<1>14. CASE Reopen
  BY <1>3, <1>14 DEF Reopen
<1> QED
  BY <1>1, <1>2, <1>4, <1>5, <1>6, <1>7, <1>8, <1>9, <1>10, <1>11, <1>12, <1>13, <1>14 DEF Next

(* The next state is whole too. *)
LEMMA StaysWhole ==
  ASSUME FaultyOps = {}, ReopenWhen # "crash", MapInv, HasRoom, DirtyTracksHeader, [Next]_vars
  PROVE  IInv' /\ wounds' = {} /\ Whole /\ Whole'
<1>1. wounds = {} /\ wounds' = {} /\ IInv
  BY Unwounded DEF MapInv
<1>2. Covered
  BY <1>1 DEF Covered, ThenCleared
<1> QED
  BY <1>1, <1>2, StepInv DEF Whole

(* What a step of a put or a remove leaves alone: every other key. *)
LEMMA OthersStay ==
  ASSUME MapInv, IInv', Whole', Next, {op.name, op'.name} \cap {"put", "remove"} # {},
         NEW q \in Paths, q # op.path, q # op'.path
  PROVE  (EffectiveAt(q))' = EffectiveAt(q) /\ Lookup(origin', q) # FAILED
<1>1. /\ IInv /\ "spans" \notin wounds /\ Whole /\ ThenCleared /\ q \in Path
  BY ValueSizes DEF MapInv, Whole, ThenCleared
<1>2. Lookup(origin, q) # FAILED
  BY DEF MapInv, AllRead, HalfWritten
<1>3. Spares(q)
  BY <1>1, StepSpares
<1>4. Lookup(origin', q) = Lookup(origin, q)
  BY <1>1, <1>2, <1>3, SparedReads
<1> QED
  BY <1>2, <1>4 DEF EffectiveAt, AnswerPending
(* A step is one of the map or none. *)
Mapped ==
  /\ AllRead' /\ NothingBefore'
  /\ Map!Next \/ UNCHANGED <<Effective, result>>

LEMMA EffectiveIs ==
  /\ Effective = [p \in Paths |-> EffectiveAt(p)]
  /\ Effective' = [p \in Paths |-> (EffectiveAt(p))']
BY DEF Effective, EffectiveAt

LEMMA SilentStep ==
  ASSUME result' = result, NothingBefore',
         \A q \in Paths :
           /\ (EffectiveAt(q))' = EffectiveAt(q)
           /\ ~ (HalfWritten(q))' => Lookup(origin', q) # FAILED
  PROVE  Mapped
<1>1. Effective' = Effective
  BY EffectiveIs
<1>2. AllRead'
  BY DEF AllRead
<1> QED
  BY <1>1, <1>2 DEF Mapped

(* A step of an operation that goes on. *)
LEMMA GoingOn ==
  ASSUME MapInv, IInv', Whole', Next, op.name \in {"put", "remove"},
         result' = result, NothingBefore',
         NEW p \in Paths, p = op.path, op'.path = p,
         (EffectiveAt(p))' = EffectiveAt(p),
         ~ (HalfWritten(p))' => Lookup(origin', p) # FAILED
  PROVE  Mapped
<1>1. \A q \in Paths : q # p =>
        (EffectiveAt(q))' = EffectiveAt(q) /\ Lookup(origin', q) # FAILED
  BY OthersStay
<1> QED
  BY <1>1, SilentStep

(* The step with which an operation answers: its key now has the value v.   *)
LEMMA Answering ==
  ASSUME MapInv, IInv', Whole', Next, op.name \in {"put", "remove"}, op' = Idle,
         NEW p \in Paths, p = op.path, NEW v \in Values \cup {NONE},
         v # FAILED, Lookup(origin', p) = v, result' = EffectiveAt(p)
  PROVE  Mapped
<1>1. op'.at = "idle" /\ op'.path = <<>>
  BY IdleType
<1>2. \A q \in Paths : q # op'.path
  BY <1>1, NotTheEmptyPath, ValueSizes
<1>3. \A q \in Paths : q # p =>
        (EffectiveAt(q))' = EffectiveAt(q) /\ Lookup(origin', q) # FAILED
  BY <1>2, OthersStay
<1>4. AllRead'
  BY <1>3 DEF AllRead
<1>5. NothingBefore'
  BY <1>1 DEF NothingBefore
<1>6. (EffectiveAt(p))' = v
  BY <1>1 DEF EffectiveAt, AnswerPending
<1>7. Effective' = [Effective EXCEPT ![p] = v]
  <2>1. \A q \in Paths : (EffectiveAt(q))' = IF q = p THEN v ELSE EffectiveAt(q)
    BY <1>3, <1>6
  <2> QED
    BY <2>1, EffectiveIs
<1>8. result' = Effective[p]
  BY EffectiveIs
<1>9. Map!Next
  BY <1>7, <1>8 DEF Map!Next, Map!Put, Map!Remove
<1> QED
  BY <1>4, <1>5, <1>9 DEF Mapped
(***************************************************************************)
(* The steps of a put.                                                     *)
(***************************************************************************)
LEMMA Context ==
  ASSUME MapInv
  PROVE  /\ IInv /\ Whole /\ "spans" \notin wounds /\ ThenCleared
         /\ origin \in Origin /\ op \in Op
         /\ Tree(origin) /\ InFlight /\ \A p \in Path : ~ CorruptPath(origin, p)
         /\ op.at \in PutPlaces =>
              op.name = "put" /\ op.path \in Paths /\ op.path \in Path
         /\ op.at \in RemovePlaces =>
              op.name = "remove" /\ op.path \in Paths /\ op.path \in Path
<1>1. IInv /\ Whole /\ "spans" \notin wounds /\ ThenCleared
  BY DEF MapInv, Whole, ThenCleared
<1> QED
  BY <1>1, Holds, ValueSizes DEF IInv, OpNamed, Tree

LEMMA NextContext ==
  ASSUME IInv', Whole'
  PROVE  origin' \in Origin /\ Tree(origin') /\ InFlight'
         /\ \A p \in Path : ~ CorruptPath(origin', p)
BY DEF IInv, TypeInv, WholeInv, Tree

(* A key that is absent and stays so. *)
LEMMA StaysAbsent ==
  ASSUME MapInv, IInv', Whole', NEW p \in Path,
         RecordAt(origin, p) = ABSENT, RecordAt(origin', p) = ABSENT
  PROVE  Lookup(origin, p) = NONE /\ Lookup(origin', p) = NONE /\ NONE # FAILED
BY Context, NextContext, LookupIs, ValuesApart

LEMMA MapAllocNode ==
  ASSUME FaultyOps = {}, MapInv, IInv', Whole', PutAllocNode PROVE Mapped
<1>1. /\ At("locate") /\ ~ Found.at_leaf /\ strategy.bump + NODE_SIZE <= MAX_OFFSET
      /\ origin' = ZeroNode(origin, strategy.bump) /\ result' = result
      /\ op' = [op EXCEPT !.at = "link",
                          !.slot = [node |-> Found.node, index |-> Found.index],
                          !.target = strategy.bump]
  BY NoFaults DEF PutAllocNode, Writes
<1>2. /\ op.name = "put" /\ op.path \in Paths /\ op.path \in Path
      /\ IInv /\ Whole /\ origin \in Origin /\ op \in Op /\ op.at = "locate"
  BY <1>1, Context DEF At, PutPlaces
<1>3. op'.at = "link" /\ op'.path = op.path /\ op'.prev = op.prev
  BY <1>1, <1>2 DEF Op
<1>4. RecordAt(origin, op.path) = ABSENT
  <2>1. PICK k \in 1 .. DEPTH :
          /\ \A d \in k + 1 .. DEPTH : NodesTo(origin, op.path)[d] = ABSENT
          /\ Locate(origin, op.path).node = NodesTo(origin, op.path)[k]
          /\ Locate(origin, op.path).index = op.path[k]
          /\ Locate(origin, op.path).record_offset = RecordAt(origin, op.path)
          /\ Locate(origin, op.path).at_leaf <=> k = DEPTH
    BY LocateIs
  <2>2. k # DEPTH
    BY <1>1, <2>1 DEF Found
  <2>3. DEPTH \in k + 1 .. DEPTH
    BY <2>2, Sizes
  <2> QED
    BY <2>1, <2>3 DEF RecordAt
<1>5. RecordAt(origin', op.path) = ABSENT
  <2>1. strategy.bump \in Nat
    BY <1>2, Holds
  <2>2. SameTree(origin, origin')
    BY <1>1, <1>2, <2>1, NodeZeroed
  <2> QED
    BY <1>2, <1>4, <2>2 DEF SameTree, SameWay
<1>6. Lookup(origin, op.path) = NONE /\ Lookup(origin', op.path) = NONE /\ NONE # FAILED
  BY <1>2, <1>4, <1>5, StaysAbsent
<1>7. NothingBefore'
  BY <1>2, <1>3, <1>5 DEF NothingBefore, MapInv
<1>8. (EffectiveAt(op.path))' = EffectiveAt(op.path)
  BY <1>2, <1>3, <1>6 DEF EffectiveAt, AnswerPending
<1>9. Next
  BY DEF Next
<1> QED
  BY <1>1, <1>2, <1>3, <1>6, <1>7, <1>8, <1>9, GoingOn

LEMMA MapLinkNode ==
  ASSUME FaultyOps = {}, MapInv, IInv', Whole', PutLinkNode \/ PutLinkNodeBit PROVE Mapped
<1>1. /\ op.at \in {"link", "link_bit"} /\ result' = result
      /\ op.name = "put" /\ op.path \in Paths /\ op.path \in Path
      /\ IInv /\ Whole /\ origin \in Origin /\ op \in Op /\ InFlight
  BY NoFaults, Context DEF PutLinkNode, PutLinkNodeBit, At, PutPlaces
<1>2. RecordAt(origin, op.path) = ABSENT /\ op.prev = NONE
  BY <1>1 DEF MapInv, NothingBefore
<1>3. /\ RecordAt(origin', op.path) = ABSENT
      /\ op'.at \in {"link_bit", "locate"} /\ op'.path = op.path /\ op'.prev = op.prev
  <2>1. CASE PutLinkNode
    <3>1. At("link") /\ origin' = WriteSlotWord(origin, op.slot, op.target) /\ Go("link_bit")
      BY <2>1, NoFaults DEF PutLinkNode, Writes
    <3>2. RecordAt(origin', op.path) = ABSENT
      BY <1>1, <1>2, <3>1, NodeLinked
    <3>3. "link_bit" \in Places
      BY DEF Places, PutPlaces
    <3> QED
      BY <1>1, <3>1, <3>2, <3>3, OpGoes
  <2>2. CASE PutLinkNodeBit
    <3>1. /\ At("link_bit") /\ origin' = WriteSlotBit(origin, op.slot, op.target)
          /\ op' = [op EXCEPT !.at = "locate", !.slot = NoSlot, !.target = ABSENT]
      BY <2>2, NoFaults DEF PutLinkNodeBit, Writes
    <3>2. /\ op.slot.node \in NodesOf(origin) /\ op.slot.index \in 0 .. FANOUT - 1
          /\ op.target \in Nat
      BY <1>1, <3>1, OpFields DEF InFlight
    <3>3. SameTree(origin, origin')
      BY <1>1, <3>1, <3>2, SlotBitWritten
    <3>4. RecordAt(origin', op.path) = ABSENT
      BY <1>1, <1>2, <3>3 DEF SameTree, SameWay
    <3> QED
      BY <1>1, <3>1, <3>4 DEF Op
  <2> QED
    BY <2>1, <2>2
<1>4. Lookup(origin, op.path) = NONE /\ Lookup(origin', op.path) = NONE /\ NONE # FAILED
  BY <1>1, <1>2, <1>3, StaysAbsent
<1>5. NothingBefore'
  BY <1>2, <1>3 DEF NothingBefore
<1>6. (EffectiveAt(op.path))' = EffectiveAt(op.path)
  BY <1>1, <1>3, <1>4 DEF EffectiveAt, AnswerPending
<1>7. Next
  BY DEF Next
<1> QED
  BY <1>1, <1>3, <1>4, <1>5, <1>6, <1>7, GoingOn
LEMMA MapAllocRecord ==
  ASSUME FaultyOps = {}, MapInv, IInv', Whole', PutAllocRecord PROVE Mapped
<1>1. /\ op.at = "locate" /\ op'.at = "leaf" /\ op'.path = op.path /\ op'.prev = op.prev
      /\ op.name = "put" /\ op.path \in Paths /\ origin' = origin /\ result' = result
  BY Context DEF PutAllocRecord, At, PutPlaces, Op
<1>2. Lookup(origin, op.path) # FAILED /\ op.prev = NONE
  BY <1>1 DEF MapInv, AllRead, HalfWritten, NothingBefore
<1>3. NothingBefore'
  BY <1>1, <1>2 DEF NothingBefore
<1>4. (EffectiveAt(op.path))' = EffectiveAt(op.path)
  BY <1>1 DEF EffectiveAt, AnswerPending
<1>5. Next
  BY DEF Next
<1> QED
  BY <1>1, <1>2, <1>3, <1>4, <1>5, GoingOn

LEMMA MapLeaf ==
  ASSUME FaultyOps = {}, MapInv, IInv', Whole', PutLeaf \/ PutLeafBit PROVE Mapped
<1>1. /\ op.at \in {"leaf", "leaf_bit"} /\ result' = result
      /\ op.name = "put" /\ op.path \in Paths /\ op.path \in Path
      /\ origin \in Origin /\ op \in Op /\ InFlight /\ ~ CorruptPath(origin, op.path)
  BY NoFaults, Context DEF PutLeaf, PutLeafBit, At, PutPlaces
<1>2. op.prev = NONE
  BY <1>1 DEF MapInv, NothingBefore
<1>3. op'.at \in {"leaf_bit", "length"} /\ op'.path = op.path /\ op'.prev = op.prev
  <2>1. Go("leaf_bit") \/ Go("length")
    BY NoFaults DEF PutLeaf, PutLeafBit
  <2>2. "leaf_bit" \in Places /\ "length" \in Places
    BY DEF Places, PutPlaces
  <2> QED
    BY <1>1, <2>1, <2>2, OpGoes
<1>4. EffectiveAt(op.path) = NONE
  <2>1. CASE op.at = "leaf"
    <3>1. RecordAt(origin, op.path) = ABSENT
      BY <1>1, <2>1 DEF InFlight, At
    <3> QED
      BY <1>1, <2>1, <3>1, LookupIs DEF EffectiveAt, AnswerPending
  <2>2. CASE op.at = "leaf_bit"
    BY <1>2, <2>2 DEF EffectiveAt, AnswerPending
  <2> QED
    BY <1>1, <2>1, <2>2
<1>5. (EffectiveAt(op.path))' = NONE
  BY <1>2, <1>3 DEF EffectiveAt, AnswerPending
<1>6. (HalfWritten(op.path))' /\ NothingBefore'
  BY <1>2, <1>3 DEF HalfWritten, NothingBefore
<1>7. Next
  BY DEF Next
<1> QED
  BY <1>1, <1>3, <1>4, <1>5, <1>6, <1>7, GoingOn

(* The steps that write a value: a put that goes on keeps the old one in    *)
(* prev, one that ends answers with it.                                     *)
LEMMA MapValue ==
  ASSUME FaultyOps = {}, MapInv, IInv', Whole', PutLength \/ PutOverwrite \/ PutPayload
  PROVE  Mapped
<1>1. /\ op.at \in {"locate", "length", "payload"}
      /\ op.name = "put" /\ op.path \in Paths /\ op.path \in Path
      /\ IInv /\ ThenCleared /\ origin \in Origin /\ op \in Op /\ op.prev \in Answers
      /\ ~ CorruptPath(origin, op.path)
  BY Context, OpFields DEF PutLength, PutOverwrite, PutPayload, At, PutPlaces
<1>2. Next
  BY DEF Next
<1>3. op.value \in Values /\ op.value \in Seq(Nat) /\ op.value # FAILED
  <2>1. op.value \in Payloads /\ Len(op.value) <= MaxValueLen
    BY <1>1 DEF IInv, OpNamed, PutPlaces
  <2>2. op.value \in Seq(Nat)
    BY <2>1, ValueSizes
  <2> QED
    BY <2>1, <2>2, StoreAssumption DEF Values
<1>4. ASSUME op' = Idle, result' = EffectiveAt(op.path), result' # FAILED PROVE Mapped
  <2>1. PICK r \in Nat :
          /\ r # ABSENT /\ RecordAt(origin', op.path) = r
          /\ origin' \in Origin /\ ReadRecord(origin', r) = op.value
    BY <1>1, <1>4, PutStored
  <2>2. ~ CorruptPath(origin', op.path)
    BY <1>1, NextContext
  <2>3. Lookup(origin', op.path) = op.value
    BY <1>1, <2>1, <2>2, LookupIs
  <2> QED
    BY <1>1, <1>2, <1>3, <1>4, <2>3, Answering
<1>5. ASSUME NEW r, NEW prev, WriteLength(r, prev), prev = EffectiveAt(op.path),
             prev # FAILED
      PROVE  Mapped
  <2>1. CASE op.value = <<>>
    BY <1>4, <1>5, <2>1 DEF WriteLength
  <2>2. CASE op.value # <<>>
    <3>1. /\ op' = [op EXCEPT !.at = "payload", !.slot = NoSlot, !.target = r, !.prev = prev]
          /\ result' = result
      BY <1>5, <2>2 DEF WriteLength
    <3>2. op'.at = "payload" /\ op'.path = op.path /\ op'.prev = prev
      BY <1>1, <3>1 DEF Op
    <3>3. (EffectiveAt(op.path))' = EffectiveAt(op.path)
      BY <1>5, <3>2 DEF EffectiveAt, AnswerPending
    <3>4. (HalfWritten(op.path))' /\ NothingBefore'
      BY <3>2 DEF HalfWritten, NothingBefore
    <3> QED
      BY <1>1, <1>2, <3>1, <3>2, <3>3, <3>4, GoingOn
  <2> QED
    BY <2>1, <2>2
<1>6. CASE PutLength
  <2>1. WriteLength(op.target, NONE) /\ op.at = "length"
    BY <1>6, NoFaults DEF PutLength, At
  <2>2. EffectiveAt(op.path) = NONE
    BY <2>1 DEF EffectiveAt, AnswerPending, MapInv, NothingBefore
  <2> QED
    BY <1>5, <2>1, <2>2, ValuesApart
<1>7. CASE PutOverwrite
  <2>1. /\ op.at = "locate" /\ Found.record_offset # ABSENT
        /\ ReadRecord(origin, Found.record_offset) # FAILED
        /\ WriteLength(Found.record_offset, ReadRecord(origin, Found.record_offset))
    BY <1>7, NoFaults DEF PutOverwrite, At
  <2>2. EffectiveAt(op.path) = ReadRecord(origin, Found.record_offset)
    BY <1>1, <2>1 DEF EffectiveAt, AnswerPending, Lookup, Found
  <2> QED
    BY <1>5, <2>1, <2>2
<1>8. CASE PutPayload
  <2>1. op.at = "payload" /\ op' = Idle /\ result' = op.prev
    BY <1>8, NoFaults DEF PutPayload, At
  <2>2. EffectiveAt(op.path) = op.prev
    BY <2>1 DEF EffectiveAt, AnswerPending
  <2> QED
    BY <1>1, <1>4, <2>1, <2>2, ValuesApart
<1> QED
  BY <1>6, <1>7, <1>8
(***************************************************************************)
(* The steps of a remove, and the rest.                                    *)
(***************************************************************************)
(* A step that keeps the origin and lies between operations.  *)
LEMMA OriginStays ==
  ASSUME MapInv, origin' = origin, NothingBefore',
         op.at \in {"idle", "sync"}, op'.at \in {"idle", "locate", "sync"}
  PROVE  Effective' = Effective /\ AllRead'
<1>1. ASSUME NEW q \in Paths
      PROVE  (EffectiveAt(q))' = EffectiveAt(q) /\ Lookup(origin', q) # FAILED
  BY DEF MapInv, AllRead, HalfWritten, EffectiveAt, AnswerPending
<1>2. Effective' = Effective
  BY <1>1, EffectiveIs
<1>3. AllRead'
  BY <1>1 DEF AllRead
<1> QED
  BY <1>2, <1>3

LEMMA MapPut ==
  ASSUME MapInv, NEW p \in Paths, NEW v \in Payloads, Put(p, v) PROVE Mapped
<1>1. /\ op.at = "idle" /\ origin' = origin /\ result' = result
      /\ op'.at = "locate" /\ op'.prev = NONE
  BY DEF Put, At, Idle
<1>2. NothingBefore'
  BY <1>1 DEF NothingBefore
<1> QED
  BY <1>1, <1>2, OriginStays DEF Mapped

LEMMA MapRefusePut ==
  ASSUME MapInv, NEW v \in Payloads, PutTooLarge(v) PROVE Mapped
<1>1. op.at = "idle" /\ origin' = origin /\ op' = op /\ result' = TOO_LARGE
  BY DEF PutTooLarge, At
<1>2. NothingBefore'
  BY <1>1 DEF NothingBefore
<1>3. Effective' = Effective /\ AllRead'
  BY <1>1, <1>2, OriginStays
<1> QED
  BY <1>1, <1>2, <1>3 DEF Mapped, Map!Next, Map!RefusePut

LEMMA MapRemoveNothing ==
  ASSUME MapInv, NEW p \in Paths, RemoveNothing(p) PROVE Mapped
<1>1. /\ op.at = "idle" /\ origin' = origin /\ op' = op
      /\ Lookup(origin, p) \in {NONE, FAILED} /\ result' = Lookup(origin, p)
  BY DEF RemoveNothing, At
<1>2. Lookup(origin, p) = NONE
  BY <1>1 DEF MapInv, AllRead, HalfWritten
<1>3. NothingBefore'
  BY <1>1 DEF NothingBefore
<1>4. Effective' = Effective /\ AllRead'
  BY <1>1, <1>3, OriginStays
<1>5. Effective[p] = NONE
  BY <1>1, <1>2, EffectiveIs DEF EffectiveAt, AnswerPending
<1>6. Effective' = [Effective EXCEPT ![p] = NONE] /\ result' = Effective[p]
  BY <1>1, <1>2, <1>4, <1>5, EffectiveIs
<1> QED
  BY <1>3, <1>4, <1>6 DEF Mapped, Map!Next, Map!Remove

LEMMA MapRemove ==
  ASSUME FaultyOps = {}, MapInv, IInv', Whole', NEW p \in Paths, Remove(p) PROVE Mapped
<1>1. /\ op = Idle /\ op.at = "idle" /\ op.path = <<>>
  BY Context, IdleType DEF Remove, At, IInv, OpNamed
<1>2. /\ op'.at = "unleaf" /\ op'.name = "remove" /\ op'.path = p
      /\ op'.prev = Lookup(origin, p) /\ result' = result
  BY NoFaults DEF Remove, Idle
<1>3. (EffectiveAt(p))' = EffectiveAt(p) /\ (HalfWritten(p))'
  BY <1>1, <1>2 DEF EffectiveAt, AnswerPending, HalfWritten
<1>4. NothingBefore'
  BY <1>2 DEF NothingBefore
<1>5. Next
  BY DEF Next
<1>6. \A q \in Paths : q # <<>>
  BY NotTheEmptyPath, ValueSizes
<1>7. {op.name, op'.name} \cap {"put", "remove"} # {}
  BY <1>2
<1>8. \A q \in Paths : q # p =>
        (EffectiveAt(q))' = EffectiveAt(q) /\ Lookup(origin', q) # FAILED
  BY <1>1, <1>2, <1>5, <1>6, <1>7, OthersStay
<1> QED
  BY <1>2, <1>3, <1>4, <1>8, SilentStep

LEMMA MapRemoveLeaf ==
  ASSUME FaultyOps = {}, MapInv, IInv', Whole', RemoveLeaf \/ RemoveLeafBit PROVE Mapped
<1>1. /\ op.at \in {"unleaf", "unleaf_bit"} /\ op.at \in LeafPlaces
      /\ op.at \in RemovePlaces
      /\ op.name = "remove" /\ op.path \in Paths /\ op.path \in Path
      /\ IInv /\ Whole /\ origin \in Origin /\ op \in Op /\ InFlight
  BY Context DEF RemoveLeaf, RemoveLeafBit, At, RemovePlaces, LeafPlaces
<1>2. Next
  BY DEF Next
<1>3. /\ origin' \in Origin /\ InFlight' /\ ~ CorruptPath(origin', op.path)
  BY <1>1, NextContext
<1>4. CASE RemoveLeaf
  <2>1. op.at = "unleaf" /\ Go("unleaf_bit") /\ result' = result
    BY <1>4, NoFaults DEF RemoveLeaf, At
  <2>2. op'.at = "unleaf_bit" /\ op'.path = op.path /\ op'.prev = op.prev
    <3>1. "unleaf_bit" \in Places
      BY DEF Places, RemovePlaces
    <3> QED
      BY <1>1, <2>1, <3>1, OpGoes
  <2>3. RecordAt(origin', op.path) = ABSENT
    BY <1>3, <2>2 DEF InFlight, At
  <2>4. Lookup(origin', op.path) # FAILED
    BY <1>1, <1>3, <2>3, LookupIs, ValuesApart
  <2>5. (EffectiveAt(op.path))' = EffectiveAt(op.path)
    BY <2>1, <2>2 DEF EffectiveAt, AnswerPending
  <2>6. NothingBefore'
    BY <2>2 DEF NothingBefore
  <2> QED
    BY <1>1, <1>2, <2>1, <2>2, <2>4, <2>5, <2>6, GoingOn
<1>5. CASE RemoveLeafBit
  <2>1. /\ op.at = "unleaf_bit" /\ op' = Idle /\ result' = op.prev
        /\ origin' = WriteSlotBit(origin, op.slot, ABSENT)
    BY <1>5, NoFaults DEF RemoveLeafBit, Writes, At
  <2>2. RecordAt(origin, op.path) = ABSENT
    BY <1>1, <2>1 DEF InFlight, At
  <2>3. op.slot.node \in NodesOf(origin) /\ op.slot.index \in 0 .. FANOUT - 1
    BY <1>1, LeafSlot
  <2>4. SameTree(origin, origin')
    <3>1. ABSENT \in Nat
      BY Sizes
    <3> QED
      BY <1>1, <2>1, <2>3, <3>1, SlotBitWritten
  <2>5. RecordAt(origin', op.path) = ABSENT
    BY <1>1, <2>2, <2>4 DEF SameTree, SameWay
  <2>6. Lookup(origin', op.path) = NONE /\ NONE # FAILED
    BY <1>1, <1>3, <2>5, LookupIs, ValuesApart
  <2>7. result' = EffectiveAt(op.path)
    BY <2>1 DEF EffectiveAt, AnswerPending
  <2> QED
    BY <1>1, <1>2, <2>1, <2>6, <2>7, Answering
<1> QED
  BY <1>4, <1>5

LEMMA MapClear ==
  ASSUME FaultyOps = {}, MapInv, IInv', Whole', Clear \/ ClearHeader PROVE Mapped
<1>1. CASE Clear
  <2>1. op'.at = "clear_header" /\ result' = result
    BY <1>1, NoFaults DEF Clear, Idle
  <2>2. origin' \in Origin /\ \A i \in 0 .. FANOUT - 1 : ReadSlot(origin', ROOT_OFFSET, i) = ABSENT
    BY <2>1, NextContext DEF InFlight, At
  <2>3. \A p \in Paths : Lookup(origin', p) = NONE
    BY <2>2, NothingHeld, ValueSizes
  <2>4. \A p \in Paths : (EffectiveAt(p))' = NONE
    BY <2>1, <2>3 DEF EffectiveAt, AnswerPending
  <2>5. Effective' = [p \in Paths |-> NONE]
    BY <2>4, EffectiveIs
  <2>6. AllRead' /\ NothingBefore'
    BY <2>1, <2>3, ValuesApart DEF AllRead, NothingBefore
  <2> QED
    BY <2>1, <2>5, <2>6 DEF Mapped, Map!Next, Map!Clear
<1>2. CASE ClearHeader
  <2>1. /\ op.at = "clear_header" /\ op'.at = "idle" /\ result' = result
        /\ origin' = WriteHeader(origin, strategy)
    BY <1>2, NoFaults, IdleType DEF ClearHeader, At
  <2>2. origin \in Origin /\ \A i \in 0 .. FANOUT - 1 : ReadSlot(origin, ROOT_OFFSET, i) = ABSENT
    BY <2>1, Context DEF InFlight, At
  <2>3. origin' \in Origin /\ origin'.word = origin.word
    BY <2>1, <2>2, NextContext DEF WriteHeader, Origin
  <2>4. \A i \in 0 .. FANOUT - 1 : ReadSlot(origin', ROOT_OFFSET, i) = ABSENT
    BY <2>2, <2>3 DEF ReadSlot
  <2>5. \A p \in Paths : Lookup(origin, p) = NONE /\ Lookup(origin', p) = NONE
    BY <2>2, <2>3, <2>4, NothingHeld, ValueSizes
  <2>6. \A p \in Paths : (EffectiveAt(p))' = EffectiveAt(p)
    BY <2>1, <2>5 DEF EffectiveAt, AnswerPending
  <2>7. NothingBefore'
    BY <2>1 DEF NothingBefore
  <2> QED
    BY <2>1, <2>5, <2>6, <2>7, ValuesApart, SilentStep
<1> QED
  BY <1>1, <1>2

LEMMA MapFlush ==
  ASSUME FaultyOps = {}, MapInv, IInv', Whole', Flush \/ FlushOrigin PROVE Mapped
<1>1. CASE Flush
  <2> DEFINE counted == [strategy EXCEPT !.record_count = len]
  <2>1. /\ op.at = "idle" /\ op'.at = "sync" /\ result' = result
        /\ origin' = WriteHeader(origin, counted)
    BY <1>1, NoFaults DEF Flush, Writes, At, Idle
  <2> HIDE DEF counted
  <2>2. origin \in Origin /\ origin' \in Origin /\ Tree(origin)
    BY Context, NextContext
  <2>3. origin'.word = origin.word /\ origin.len <= origin'.len
    <3>1. origin'.word = origin.word /\ origin'.len = Later(origin.len, ROOT_OFFSET)
      BY <2>1, <2>2 DEF WriteHeader, Origin
    <3>2. origin.len \in Nat /\ ROOT_OFFSET \in Nat
      BY <2>2, Sizes DEF Origin
    <3> QED
      BY <3>1, <3>2 DEF Later
  <2>4. ASSUME NEW q \in Paths
        PROVE  Lookup(origin', q) = Lookup(origin, q) /\ Lookup(origin, q) # FAILED
    <3>1. q \in Path /\ Lookup(origin, q) # FAILED
      BY <2>1, ValueSizes DEF MapInv, AllRead, HalfWritten
    <3> QED
      BY <2>2, <2>3, <3>1, HeaderSpares
  <2>5. \A q \in Paths : (EffectiveAt(q))' = EffectiveAt(q)
    BY <2>1, <2>4 DEF EffectiveAt, AnswerPending
  <2>6. NothingBefore'
    BY <2>1 DEF NothingBefore
  <2> QED
    BY <2>1, <2>4, <2>5, <2>6, SilentStep
<1>2. CASE FlushOrigin
  <2>1. op.at = "sync" /\ op'.at = "idle" /\ origin' = origin /\ result' = result
    BY <1>2, NoFaults, IdleType DEF FlushOrigin, At
  <2>2. NothingBefore'
    BY <2>1 DEF NothingBefore
  <2> QED
    BY <2>1, <2>2, OriginStays DEF Mapped
<1> QED
  BY <1>1, <1>2

LEMMA MapReopen ==
  ASSUME ReopenWhen # "crash", MapInv, Reopen PROVE Mapped
<1>1. op.at = "idle" /\ op'.at = "idle" /\ origin' = origin /\ result' = result
  BY StoreAssumption, IdleType DEF Reopen, At
<1>2. NothingBefore'
  BY <1>1 DEF NothingBefore
<1> QED
  BY <1>1, <1>2, OriginStays DEF Mapped

LEMMA MapStutter ==
  ASSUME MapInv, UNCHANGED vars PROVE Mapped
BY DEF vars, Mapped, MapInv, AllRead, NothingBefore, HalfWritten, Effective, AnswerPending

LEMMA MapStep ==
  ASSUME FaultyOps = {}, ReopenWhen # "crash", MapInv, HasRoom, DirtyTracksHeader, [Next]_vars
  PROVE  MapInv' /\ [Map!Next]_<<Effective, result>>
<1>1. IInv' /\ wounds' = {} /\ Whole'
  BY StaysWhole
<1>2. Mapped
  BY <1>1, NoFaults, NeverRefused, MapPut, MapRefusePut, MapRemoveNothing, MapRemove, MapAllocNode,
     MapLinkNode, MapAllocRecord, MapLeaf, MapValue, MapRemoveLeaf, MapClear, MapFlush,
     MapReopen, MapStutter DEF Next
<1> QED
  BY <1>1, <1>2 DEF Mapped, MapInv

LEMMA MapInit == Init => MapInv /\ Map!Init
<1> SUFFICES ASSUME Init PROVE MapInv /\ Map!Init
  OBVIOUS
<1>1. IInv /\ wounds = {} /\ result = NONE /\ op.at = "idle" /\ origin = EmptyOrigin
  BY InitInv, IdleType DEF Init
<1>2. origin \in Origin /\ \A i \in 0 .. FANOUT - 1 : ReadSlot(origin, ROOT_OFFSET, i) = ABSENT
  <2>1. origin \in Origin
    BY <1>1 DEF IInv, TypeInv
  <2> SUFFICES ASSUME NEW i \in 0 .. FANOUT - 1
               PROVE  ReadSlot(origin, ROOT_OFFSET, i) = ABSENT
    BY <2>1
  <2>2. SlotPos(ROOT_OFFSET, i) \in 0 .. MAX_OFFSET
    BY Sizes DEF SlotPos
  <2> QED
    BY <1>1, <2>2, Sizes DEF ReadSlot, EmptyOrigin
<1>3. \A p \in Paths : Lookup(origin, p) = NONE
  BY <1>2, NothingHeld, ValueSizes
<1>4. AllRead /\ NothingBefore
  BY <1>1, <1>3, ValuesApart DEF AllRead, NothingBefore
<1>5. Effective = [p \in Paths |-> NONE]
  BY <1>1, <1>3 DEF Effective, AnswerPending
<1> QED
  BY <1>1, <1>4, <1>5 DEF MapInv, Map!Init

(* What callers see of a store whose writes succeed is a map: put and       *)
(* remove answer with the value they replace, and growing the tree, reusing *)
(* records, flushing, clearing and reopening change no other key.  It is so *)
(* while the offsets last and a store is reopened with its header written.  *)
THEOREM ImplementsTheMap ==
  ASSUME FaultyOps = {}, ReopenWhen # "crash"
  PROVE  Spec /\ []HasRoom => ImplementsMap
<1>1. Init => MapInv /\ Map!Init
  BY MapInit
<1>2. MapInv /\ HasRoom /\ DirtyTracksHeader /\ [Next]_vars =>
        MapInv' /\ [Map!Next]_<<Effective, result>>
  BY MapStep
<1> QED
  BY <1>1, <1>2, DirtyTracks, PTL DEF Spec, ImplementsMap, Map!Spec
(***************************************************************************)
(* What the store is for its origin: the owner of a TreeAllocator, as long *)
(* as no write fails.                                                      *)
(***************************************************************************)
(* What the allocator takes for in use is what the store holds.  *)
AllocInUse == NodesInUse = NodesHeld /\ RecordsInUse = RecordsHeld

LEMMA InUseIs == AllocInUse
<1>1. ReachableNodes = NodesOf(origin)
  BY DEF ReachableNodes, NodesOf
<1>2. { RecordOf(p) : p \in StoredPaths } = RecordsOf(origin)
  BY RecordLocated DEF RecordOf, StoredPaths, RecordsOf
<1> QED
  BY <1>1, <1>2 DEF AllocInUse, NodesInUse, NodesHeld, RecordsInUse, RecordsHeld, At

LEMMA InUseNext == AllocInUse'
BY InUseIs, PTL

(* The list that free_head starts, oldest record first. *)
Lists(n, f) ==
  /\ Chain(origin, strategy.free_head, n, f)
  /\ \A i \in 1 .. n : f[i] # ABSENT
  /\ n <= MAX_OFFSET

FreeListSpelt == \A n \in Nat : \A f \in [1 .. n -> Nat] : Lists(n, f) => FreeOldestFirst = f

LEMMA SpeltIs == FreeListSpelt
<1> SUFFICES ASSUME NEW n \in Nat, NEW f \in [1 .. n -> Nat], Lists(n, f)
             PROVE  FreeOldestFirst = f
  BY DEF FreeListSpelt
<1> DEFINE links  == FreeLinks(MAX_OFFSET)
           linked == { i \in 1 .. MAX_OFFSET : links[i] # ABSENT }
           length == Cardinality(linked)
<1>1. /\ Chain(origin, strategy.free_head, n, f)
      /\ \A i \in 1 .. n : f[i] # ABSENT
      /\ n <= MAX_OFFSET /\ MAX_OFFSET \in Nat
  BY Sizes DEF Lists
<1>2. links = [i \in 1 .. MAX_OFFSET |-> IF i <= n THEN f[n + 1 - i] ELSE ABSENT]
  BY <1>1, FreeLinksIs
<1> HIDE DEF links
<1>3. \A i \in 1 .. n : i \in 1 .. MAX_OFFSET /\ n + 1 - i \in 1 .. n
  BY <1>1
<1>4. linked = 1 .. n
  <2>1. \A i \in 1 .. n : i \in linked
    BY <1>1, <1>2, <1>3
  <2>2. ASSUME NEW i \in linked PROVE i \in 1 .. n
    BY <1>1, <1>2
  <2> QED
    BY <2>1, <2>2
<1>5. length = n
  <2>1. Cardinality(1 .. n) = n
    BY FS_Interval
  <2> QED
    BY <1>4, <2>1
<1>6. FreeOldestFirst = [i \in 1 .. n |-> links[n + 1 - i]]
  BY <1>5 DEF FreeOldestFirst, links
<1>7. ASSUME NEW i \in 1 .. n PROVE links[n + 1 - i] = f[i]
  <2>1. n + 1 - i \in 1 .. MAX_OFFSET /\ n + 1 - i <= n /\ n + 1 - (n + 1 - i) = i
    BY <1>1
  <2> QED
    BY <1>2, <2>1
<1> QED
  BY <1>6, <1>7

LEMMA SpeltNext == FreeListSpelt'
BY SpeltIs, PTL

(* The offsets bound the free records. *)
LEMMA FewFree ==
  ASSUME NEW b \in Nat, NEW N, NEW R, NEW n \in Nat, NEW f \in [1 .. n -> Nat],
         Laid(b, N, R, n, f)
  PROVE  n <= MAX_OFFSET /\ \A i \in 1 .. n : f[i] # ABSENT
<1>1. b <= MAX_OFFSET /\ RECORD_SLOT_SIZE \in Nat \ {0} /\ MAX_OFFSET \in Nat /\ ROOT_OFFSET = 1
  BY Sizes DEF Laid, ROOT_OFFSET
<1>2. ASSUME NEW i \in 1 .. n PROVE f[i] \in 1 .. MAX_OFFSET /\ f[i] # ABSENT
  <2>1. ROOT_OFFSET <= f[i] /\ f[i] + RECORD_SLOT_SIZE <= b
    BY DEF Laid
  <2> QED
    BY <1>1, <2>1 DEF ABSENT
<1>3. ASSUME NEW i \in 1 .. n, NEW j \in 1 .. n, f[i] = f[j] PROVE i = j
  <2>1. i # j => Apart(f[i], RECORD_SLOT_SIZE, f[j], RECORD_SLOT_SIZE)
    BY DEF Laid
  <2> QED
    BY <1>1, <1>3, <2>1 DEF Apart
<1>4. n <= MAX_OFFSET
  <2> SUFFICES ASSUME ~ (n <= MAX_OFFSET) PROVE FALSE
    OBVIOUS
  <2>1. /\ IsFiniteSet(1 .. n) /\ Cardinality(1 .. n) = n
        /\ IsFiniteSet(1 .. MAX_OFFSET) /\ Cardinality(1 .. MAX_OFFSET) = MAX_OFFSET
    BY <1>1, FS_Interval
  <2>2. f \in [1 .. n -> 1 .. MAX_OFFSET]
    BY <1>2
  <2>3. Cardinality(1 .. MAX_OFFSET) < Cardinality(1 .. n)
    BY <1>1, <2>1
  <2>4. \E i, j \in 1 .. n : i # j /\ f[i] = f[j]
    BY <2>1, <2>2, <2>3, FS_PigeonHole
  <2> QED
    BY <1>3, <2>4
<1> QED
  BY <1>2, <1>4

(* The invariant, read as the allocator sees the state. *)
LEMMA AllocHolds ==
  ASSUME IInv, Whole
  PROVE  \E n \in Nat : \E f \in [1 .. n -> Nat] :
           /\ Sound(n, f) /\ FreeOldestFirst = f /\ f \in Seq(Nat) /\ Len(f) = n
<1>1. strategy.bump \in Nat /\ SomeFreeList
  BY Holds
<1>2. PICK n \in Nat : \E f \in [1 .. n -> Nat] : Sound(n, f)
  BY <1>1 DEF SomeFreeList
<1>3. PICK f \in [1 .. n -> Nat] : Sound(n, f)
  BY <1>2
<1>4. n <= MAX_OFFSET /\ \A i \in 1 .. n : f[i] # ABSENT
  BY <1>1, <1>3, FewFree DEF Sound
<1>5. Lists(n, f)
  BY <1>3, <1>4 DEF Lists, Sound
<1>6. FreeOldestFirst = f
  BY <1>5, SpeltIs DEF FreeListSpelt
<1> QED
  BY <1>3, <1>6
(***************************************************************************)
(* What leaves the free list alone.                                        *)
(***************************************************************************)
LEMMA ChainSpelt ==
  ASSUME IInv, Whole, NEW n \in Nat, NEW f \in [1 .. n -> Nat], Sound(n, f),
         Chain(origin', strategy'.free_head, n, f)
  PROVE  FreeOldestFirst' = f
<1>1. strategy.bump \in Nat
  BY Holds
<1>2. n <= MAX_OFFSET /\ \A i \in 1 .. n : f[i] # ABSENT
  BY <1>1, FewFree DEF Sound
<1> QED
  BY <1>2, SpeltNext DEF FreeListSpelt, Lists

LEMMA ListKept ==
  ASSUME IInv, Whole, strategy'.free_head = strategy.free_head,
         NEW lo \in Nat, NEW size \in Nat, Wrote(origin, origin', lo, size),
         \/ \E m \in NodesHeld : m <= lo /\ lo + size <= m + NODE_SIZE
         \/ \E r \in RecordsHeld : r <= lo /\ lo + size <= r + RECORD_SLOT_SIZE
         \/ lo = strategy.bump
  PROVE  FreeOldestFirst' = FreeOldestFirst
<1>1. /\ origin \in Origin /\ strategy.bump \in Nat
      /\ NodesHeld \in SUBSET Nat /\ RecordsHeld \in SUBSET Nat
  BY Holds
<1>2. PICK n \in Nat : \E f \in [1 .. n -> Nat] : Sound(n, f) /\ FreeOldestFirst = f
  BY AllocHolds
<1>3. PICK f \in [1 .. n -> Nat] : Sound(n, f) /\ FreeOldestFirst = f
  BY <1>2
<1>4. /\ Chain(origin, strategy.free_head, n, f)
      /\ Laid(strategy.bump, NodesHeld, RecordsHeld, n, f)
  BY <1>3 DEF Sound
<1>5. \A i \in 1 .. n : Apart(f[i], RECORD_SLOT_SIZE, lo, size)
  <2>1. CASE \E m \in NodesHeld : m <= lo /\ lo + size <= m + NODE_SIZE
    BY <1>1, <1>4, <2>1, InsideNode
  <2>2. CASE \E r \in RecordsHeld : r <= lo /\ lo + size <= r + RECORD_SLOT_SIZE
    BY <1>1, <1>4, <2>2, InsideRecord
  <2>3. CASE lo = strategy.bump
    BY <1>1, <1>4, <2>3, PastBump
  <2> QED
    BY <2>1, <2>2, <2>3
<1>6. Chain(origin', strategy.free_head, n, f)
  BY <1>1, <1>4, <1>5, ChainKept
<1> QED
  BY <1>3, <1>6, ChainSpelt

LEMMA ListSame ==
  ASSUME IInv, Whole, strategy'.free_head = strategy.free_head,
         origin'.word = origin.word, origin'.len \in Nat, origin.len <= origin'.len
  PROVE  FreeOldestFirst' = FreeOldestFirst
<1>1. origin \in Origin
  BY Holds
<1>2. PICK n \in Nat : \E f \in [1 .. n -> Nat] : Sound(n, f) /\ FreeOldestFirst = f
  BY AllocHolds
<1>3. PICK f \in [1 .. n -> Nat] : Sound(n, f) /\ FreeOldestFirst = f
  BY <1>2
<1>4. Chain(origin, strategy.free_head, n, f) /\ origin.len \in Nat
  BY <1>1, <1>3, Sizes DEF Sound, Origin
<1>5. Chain(origin', strategy.free_head, n, f)
  BY <1>4 DEF Chain
<1> QED
  BY <1>3, <1>5, ChainSpelt

(* A write inside what the store holds is the owner's to make. *)
LEMMA OwnerWrites ==
  ASSUME IInv, Whole, strategy' = strategy,
         NEW pos \in Nat, NEW ws, origin' = WriteWords(origin, pos, ws),
         NEW size \in Nat, size = Len(ws), Wrote(origin, origin', pos, size),
         \/ \E m \in NodesHeld : m <= pos /\ pos + size <= m + NODE_SIZE
         \/ \E r \in RecordsHeld : r <= pos /\ pos + size <= r + RECORD_SLOT_SIZE,
         NodesHeld' = NodesHeld, RecordsHeld' = RecordsHeld
  PROVE  Alloc!WriteWords(pos, ws)
<1>1. origin \in Origin
  BY Holds
<1>2. FreeOldestFirst' = FreeOldestFirst
  BY ListKept
<1>3. NodesInUse' = NodesInUse /\ RecordsInUse' = RecordsInUse
  BY InUseIs, InUseNext DEF AllocInUse
<1>4. origin'.header = origin.header
  BY DEF Wrote
<1> DEFINE word == [p \in 0 .. MAX_OFFSET |->
                      IF pos <= p /\ p < pos + Len(ws) THEN ws[p - pos + 1]
                      ELSE origin.word[p]]
           length == Later(origin.len, pos + Len(ws))
<1>5. origin'.word = word /\ origin'.len = length
  BY <1>1 DEF WriteWords, Origin
<1>6. length = Alloc!Later(origin.len, pos + Len(ws))
  BY DEF Later, Alloc!Later
<1>7. AllocFields(origin.header)' = AllocFields(origin.header)
  BY <1>4 DEF AllocFields
<1> QED
  BY <1>2, <1>3, <1>5, <1>6, <1>7 DEF Alloc!WriteWords, Alloc!Offsets
(***************************************************************************)
(* The steps of the store, each as a step of the allocator.                *)
(***************************************************************************)
AllocStep == [Alloc!Next]_(Alloc!vars)

(* What is neither allocated nor freed nor written does not concern it.  *)
LEMMA AllocQuiet ==
  ASSUME IInv, Whole, origin' = origin,
         strategy'.bump = strategy.bump, strategy'.free_head = strategy.free_head,
         op.at \notin {"link", "leaf", "unleaf"}, op'.at \notin {"link", "leaf", "unleaf"}
  PROVE  AllocStep
<1>1. origin \in Origin /\ origin.len \in Nat
  BY Holds, Sizes DEF Origin
<1>2. FreeOldestFirst' = FreeOldestFirst
  BY <1>1, ListSame
<1>3. NodesHeld' = NodesHeld /\ RecordsHeld' = RecordsHeld
  BY DEF NodesHeld, RecordsHeld, At
<1>4. NodesInUse' = NodesInUse /\ RecordsInUse' = RecordsInUse
  BY <1>3, InUseIs, InUseNext DEF AllocInUse
<1>5. AllocFields(origin.header)' = AllocFields(origin.header)
  BY DEF AllocFields
<1> QED
  BY <1>2, <1>4, <1>5 DEF AllocStep, Alloc!vars

(* A word of a node, written by its owner. *)
LEMMA OwnerWritesNode ==
  ASSUME Words = Nat, IInv, Whole, strategy' = strategy,
         NEW m \in NodesHeld, NEW i \in 0 .. NODE_SIZE - 1, NEW w \in Nat,
         NEW pos, pos = m + i, origin' = WriteWords(origin, pos, <<w>>),
         NodesHeld' = NodesHeld, RecordsHeld' = RecordsHeld
  PROVE  AllocStep
<1>1. /\ origin \in Origin /\ NodesHeld \in SUBSET Nat /\ NodesInUse = NodesHeld
  BY Holds, InUseIs DEF AllocInUse
<1>2. /\ m \in Nat /\ i \in Nat /\ pos \in Nat
      /\ pos + 1 <= MAX_OFFSET /\ m <= pos /\ pos + 1 <= m + NODE_SIZE
  BY <1>1, HeldBelow, Sizes
<1>3. Wrote(origin, origin', pos, 1)
  BY <1>1, <1>2, WordWritten
<1>4. Alloc!WriteWords(pos, <<w>>)
  <2> DEFINE ws == <<w>>
  <2>1. 1 = Len(ws)
    OBVIOUS
  <2> HIDE DEF ws
  <2>2. origin' = WriteWords(origin, pos, ws)
    BY DEF ws
  <2>3. Alloc!WriteWords(pos, ws)
    BY <1>2, <1>3, <2>1, <2>2, OwnerWrites
  <2> QED
    BY <2>3 DEF ws
<1>5. Alloc!WriteSlot
  BY <1>1, <1>4 DEF Alloc!WriteSlot
<1> QED
  BY <1>5 DEF AllocStep, Alloc!Next

(* The length prefix of a record. *)
LEMMA OwnerWritesLength ==
  ASSUME Words = Nat, IInv, Whole, strategy' = strategy,
         NEW r \in RecordsHeld, NEW w \in Nat, origin' = WriteWords(origin, r, <<w>>),
         NodesHeld' = NodesHeld, RecordsHeld' = RecordsHeld
  PROVE  AllocStep
<1>1. /\ origin \in Origin /\ RecordsHeld \in SUBSET Nat /\ RecordsInUse = RecordsHeld
  BY Holds, InUseIs DEF AllocInUse
<1>2. r \in Nat /\ r + 1 <= MAX_OFFSET /\ r <= r /\ r + 1 <= r + RECORD_SLOT_SIZE
  BY <1>1, HeldBelow, Sizes
<1>3. Wrote(origin, origin', r, 1)
  BY <1>1, <1>2, WordWritten
<1>4. Alloc!WriteWords(r, <<w>>)
  <2> DEFINE ws == <<w>>
  <2>1. 1 = Len(ws)
    OBVIOUS
  <2> HIDE DEF ws
  <2>2. origin' = WriteWords(origin, r, ws)
    BY DEF ws
  <2>3. Alloc!WriteWords(r, ws)
    BY <1>2, <1>3, <2>1, <2>2, OwnerWrites
  <2> QED
    BY <2>3 DEF ws
<1>5. Alloc!WriteRecord
  BY <1>1, <1>4 DEF Alloc!WriteRecord
<1> QED
  BY <1>5 DEF AllocStep, Alloc!Next

(* The payload of a record. *)
LEMMA OwnerWritesPayload ==
  ASSUME Words = Nat, IInv, Whole, strategy' = strategy,
         NEW r \in RecordsHeld, NEW pos, pos = r + 1,
         NEW n \in 1 .. RECORD_SLOT_SIZE - 1, NEW ws \in [1 .. n -> Nat],
         origin' = WriteWords(origin, pos, ws), Wrote(origin, origin', pos, n),
         NodesHeld' = NodesHeld, RecordsHeld' = RecordsHeld
  PROVE  AllocStep
<1>1. /\ RecordsHeld \in SUBSET Nat /\ RecordsInUse = RecordsHeld
  BY Holds, InUseIs DEF AllocInUse
<1>2. /\ r \in Nat /\ pos \in Nat /\ n \in Nat /\ n = Len(ws)
      /\ r <= pos /\ pos + n <= r + RECORD_SLOT_SIZE
  BY <1>1, Sizes
<1>3. Alloc!WriteWords(pos, ws)
  BY <1>2, OwnerWrites
<1>4. Alloc!WriteRecord
  BY <1>1, <1>3 DEF Alloc!WriteRecord
<1> QED
  BY <1>4 DEF AllocStep, Alloc!Next

(* What a write of one word leaves at its place. *)
LEMMA WordAt ==
  ASSUME NEW o \in Origin, NEW pos \in 0 .. MAX_OFFSET, NEW w, NEW v,
         v = WriteWords(o, pos, <<w>>), v \in Origin
  PROVE  w \in Nat
<1> DEFINE word == [p \in 0 .. MAX_OFFSET |->
                      IF pos <= p /\ p < pos + Len(<<w>>) THEN <<w>>[p - pos + 1]
                      ELSE o.word[p]]
<1>1. v.word = word
  BY DEF WriteWords, Origin
<1>2. word[pos] = w
  BY Sizes
<1>3. v.word[pos] \in Nat
  BY DEF Origin
<1> QED
  BY <1>1, <1>2, <1>3

(* The bitmap of a node. *)
LEMMA OwnerWritesBit ==
  ASSUME Words = Nat, IInv, Whole, strategy' = strategy,
         NEW m \in NodesHeld, NEW slot, m = slot.node, NEW value,
         origin' = WriteSlotBit(origin, slot, value), origin' \in Origin,
         NodesHeld' = NodesHeld, RecordsHeld' = RecordsHeld
  PROVE  AllocStep
<1> DEFINE rest == IF InBitmap(origin, slot.node, slot.index)
                   THEN origin.word[slot.node] - Bit[slot.index]
                   ELSE origin.word[slot.node]
           w    == IF value = ABSENT THEN rest ELSE rest + Bit[slot.index]
<1>1. origin' = WriteWords(origin, m, <<w>>)
  BY DEF WriteSlotBit
<1> HIDE DEF w
<1>2. /\ origin \in Origin /\ NodesHeld \in SUBSET Nat
  BY Holds
<1>3. m \in Nat /\ m + 0 = m /\ 0 \in 0 .. NODE_SIZE - 1 /\ m \in 0 .. MAX_OFFSET
  BY <1>2, HeldBelow, Sizes
<1>4. w \in Nat
  BY <1>1, <1>2, <1>3, WordAt
<1> QED
  BY <1>1, <1>3, <1>4, OwnerWritesNode
LEMMA AllocatesNode ==
  ASSUME FaultyOps = {}, IInv, Whole, PutAllocNode PROVE AllocStep
<1> DEFINE b == strategy.bump
<1>1. /\ At("locate") /\ b + NODE_SIZE <= MAX_OFFSET
      /\ strategy' = [strategy EXCEPT !.bump = @ + NODE_SIZE]
      /\ origin' = ZeroNode(origin, b)
      /\ op'.at = "link" /\ op'.target = b
  <2>1. op \in Op
    BY Holds
  <2> QED
    BY <2>1, NoFaults DEF PutAllocNode, Writes, Op
<1>2. origin \in Origin /\ strategy \in Header /\ b \in Nat
  BY Holds
<1>3. /\ origin'.header = origin.header
      /\ Wrote(origin, origin', b, NODE_SIZE)
      /\ SameTree(origin, origin')
  BY <1>1, <1>2, NodeZeroed
<1>4. strategy'.bump = b + NODE_SIZE /\ strategy'.free_head = strategy.free_head
  BY <1>1, <1>2 DEF Header
<1>5. FreeOldestFirst' = FreeOldestFirst
  BY <1>2, <1>3, <1>4, Sizes, ListKept
<1>6. NodesHeld' = NodesHeld \cup {b} /\ RecordsHeld' = RecordsHeld
  BY <1>1, <1>3 DEF NodesHeld, RecordsHeld, At, SameTree
<1>7. NodesInUse' = NodesInUse \cup {b} /\ RecordsInUse' = RecordsInUse
  BY <1>6, InUseIs, InUseNext DEF AllocInUse
<1> DEFINE zeros == [i \in 1 .. NODE_SIZE |-> 0]
           word  == [p \in 0 .. MAX_OFFSET |->
                       IF b <= p /\ p < b + Len(zeros) THEN zeros[p - b + 1]
                       ELSE origin.word[p]]
<1>8. zeros \in Seq(Nat) /\ Len(zeros) = NODE_SIZE
  BY Sizes
<1>9. origin'.word = word /\ origin'.len = Later(origin.len, b + Len(zeros))
  BY <1>1, <1>2 DEF ZeroNode, WriteWords, Origin
<1>10. word = Alloc!Zeroed(b, NODE_SIZE)
  <2>1. ASSUME NEW p \in 0 .. MAX_OFFSET, b <= p, p < b + NODE_SIZE
        PROVE  zeros[p - b + 1] = 0
    BY <1>2, <2>1, Sizes
  <2> HIDE DEF zeros
  <2>2. word = [p \in 0 .. MAX_OFFSET |->
                  IF b <= p /\ p < b + NODE_SIZE THEN 0 ELSE origin.word[p]]
    BY <1>8, <2>1
  <2> QED
    BY <2>2 DEF Alloc!Zeroed, Alloc!Offsets
<1>11. origin'.len = Alloc!Later(origin.len, b + NODE_SIZE)
  <2> HIDE DEF zeros
  <2> QED
    BY <1>8, <1>9 DEF Later, Alloc!Later
<1>12. AllocFields(origin.header)' = AllocFields(origin.header)
  BY <1>3 DEF AllocFields
<1> HIDE DEF word, zeros
<1>13. Alloc!AllocNode
  BY <1>1, <1>4, <1>5, <1>7, <1>9, <1>10, <1>11, <1>12 DEF Alloc!AllocNode
<1> QED
  BY <1>13 DEF AllocStep, Alloc!Next

LEMMA LinksNode ==
  ASSUME FaultyOps = {}, Words = Nat, IInv, Whole, PutLinkNode PROVE AllocStep
<1>1. /\ At("link") /\ strategy' = strategy
      /\ origin' = WriteSlotWord(origin, op.slot, op.target) /\ Go("link_bit")
  BY NoFaults DEF PutLinkNode, Writes
<1>2. op \in Op /\ op.target \in Nat
  BY Holds, OpFields
<1>3. op'.at = "link_bit" /\ op.at = "link"
  BY <1>1, <1>2 DEF Go, Op, At
<1>4. /\ op.slot.node \in NodesOf(origin) /\ op.slot.index \in 0 .. FANOUT - 1
      /\ NodesOf(origin') = NodesOf(origin) \cup {op.target}
      /\ \A p \in Path : RecordAt(origin', p) = RecordAt(origin, p)
  BY <1>1, NodeLinked
<1>5. NodesHeld' = NodesHeld /\ RecordsHeld' = RecordsHeld /\ op.slot.node \in NodesHeld
  BY <1>3, <1>4 DEF NodesHeld, RecordsHeld, RecordsOf, At
<1> DEFINE i == BITMAP_WORDS + op.slot.index
           pos == SlotPos(op.slot.node, op.slot.index)
<1>6. i \in 0 .. NODE_SIZE - 1 /\ pos = op.slot.node + i
  <2>1. op.slot.node \in Nat
    BY <1>2, OpFields
  <2> QED
    BY <1>4, <2>1, Sizes DEF SlotPos
<1>7. origin' = WriteWords(origin, pos, <<op.target>>)
  BY <1>1 DEF WriteSlotWord
<1> HIDE DEF i, pos
<1> QED
  BY <1>1, <1>2, <1>5, <1>6, <1>7, OwnerWritesNode

LEMMA SetsLinkBit ==
  ASSUME FaultyOps = {}, Words = Nat, IInv, Whole, PutLinkNodeBit PROVE AllocStep
<1>1. /\ At("link_bit") /\ strategy' = strategy
      /\ origin' = WriteSlotBit(origin, op.slot, op.target) /\ op'.at = "locate"
  <2>1. op \in Op
    BY Holds
  <2> QED
    BY <2>1, NoFaults DEF PutLinkNodeBit, Writes, Op
<1>2. op \in Op /\ op.target \in Nat /\ InFlight
  BY Holds, OpFields
<1>3. op.slot.node \in NodesOf(origin) /\ op.slot.index \in 0 .. FANOUT - 1
  BY <1>1, <1>2 DEF InFlight
<1>4. SameTree(origin, origin') /\ origin' \in Origin
  <2>1. SameTree(origin, origin') /\ Wrote(origin, origin', op.slot.node, 1)
    BY <1>1, <1>2, <1>3, SlotBitWritten
  <2> QED
    BY <2>1 DEF Wrote
<1>5. NodesHeld' = NodesHeld /\ RecordsHeld' = RecordsHeld /\ op.slot.node \in NodesHeld
  BY <1>1, <1>3, <1>4 DEF NodesHeld, RecordsHeld, At, SameTree
<1> QED
  BY <1>1, <1>4, <1>5, OwnerWritesBit

(* The record of one path changes, those of all others stay. *)
LEMMA RecordMoves ==
  ASSUME NEW o, NEW w, NEW q \in Path, NEW v, NEW r,
         RecordAt(o, q) = r, RecordAt(w, q) = v,
         \A p \in Path \ {q} :
           /\ RecordAt(w, p) = RecordAt(o, p)
           /\ RecordAt(o, p) # ABSENT => RecordAt(o, p) # r
  PROVE  RecordsOf(w) = (RecordsOf(o) \ {r}) \cup ({v} \ {ABSENT})
<1>1. \A s : s \in RecordsOf(w) <=> s # ABSENT /\ \E p \in Path : s = RecordAt(w, p)
  BY DEF RecordsOf
<1>2. \A s : s \in RecordsOf(o) <=> s # ABSENT /\ \E p \in Path : s = RecordAt(o, p)
  BY DEF RecordsOf
<1>3. ASSUME NEW s, s \in RecordsOf(w) PROVE s \in (RecordsOf(o) \ {r}) \cup ({v} \ {ABSENT})
  <2>1. PICK p \in Path : s # ABSENT /\ s = RecordAt(w, p)
    BY <1>1, <1>3
  <2>2. CASE p = q
    BY <2>1, <2>2
  <2>3. CASE p # q
    BY <1>2, <2>1, <2>3
  <2> QED
    BY <2>2, <2>3
<1>4. ASSUME NEW s, s \in RecordsOf(o), s # r PROVE s \in RecordsOf(w)
  <2>1. PICK p \in Path : s # ABSENT /\ s = RecordAt(o, p)
    BY <1>2, <1>4
  <2>2. p # q
    BY <1>4, <2>1
  <2> QED
    BY <1>1, <2>1, <2>2
<1>5. v # ABSENT => v \in RecordsOf(w)
  BY <1>1
<1> QED
  BY <1>3, <1>4, <1>5

LEMMA WritesLeaf ==
  ASSUME FaultyOps = {}, Words = Nat, IInv, Whole, PutLeaf \/ RemoveLeaf PROVE AllocStep
<1> DEFINE q == op.path
           t == op.target
           v == IF At("leaf") THEN t ELSE ABSENT
<1>1. /\ op.at \in {"leaf", "unleaf"} /\ strategy' = strategy
      /\ origin' = WriteSlotWord(origin, op.slot, v)
      /\ Go("leaf_bit") \/ Go("unleaf_bit")
  <2>1. CASE PutLeaf
    BY <2>1, NoFaults DEF PutLeaf, Writes, At
  <2>2. CASE RemoveLeaf
    BY <2>2, NoFaults DEF RemoveLeaf, Writes, At
  <2> QED
    BY <2>1, <2>2
<1>2. /\ op \in Op /\ t \in Nat /\ origin \in Origin /\ Tree(origin) /\ InFlight
  BY Holds, OpFields
<1>3. op'.at \in {"leaf_bit", "unleaf_bit"}
  BY <1>1, <1>2 DEF Go, Op
<1>4. op.at \in LeafPlaces
  BY <1>1 DEF LeafPlaces
<1>5. /\ q \in Path
      /\ op.slot.node \in NodesOf(origin) /\ op.slot.index \in 0 .. FANOUT - 1
      /\ op.slot.node \in Nat
  BY <1>4, LeafSlot
<1>6. /\ At("leaf") => RecordAt(origin, q) = ABSENT /\ t # ABSENT /\ t \notin RecordsOf(origin)
      /\ ~ At("leaf") => RecordAt(origin, q) = t /\ t # ABSENT
      /\ ABSENT \notin RecordsOf(origin)
  BY <1>1, <1>2 DEF InFlight, At, RecordsOf
<1>7. v \in Nat /\ v \notin RecordsOf(origin)
  BY <1>2, <1>6, Sizes
<1>8. /\ NodesOf(origin') = NodesOf(origin) /\ RecordAt(origin', q) = v
      /\ \A p \in Path \ {q} : RecordAt(origin', p) = RecordAt(origin, p)
  <2> HIDE DEF v
  <2> QED
    BY <1>1, <1>7, LeafSlotWritten DEF SameWay
<1>9. \A p \in Path \ {q} : RecordAt(origin, p) # ABSENT => RecordAt(origin, p) # RecordAt(origin, q)
  BY <1>2, <1>5 DEF Tree
<1> HIDE DEF q, t
<1>10. RecordsOf(origin') = (RecordsOf(origin) \ {RecordAt(origin, q)}) \cup ({v} \ {ABSENT})
  BY <1>5, <1>8, <1>9, RecordMoves
<1>11. RecordsHeld' = RecordsHeld
  BY <1>1, <1>3, <1>6, <1>10 DEF RecordsHeld, At, t
<1>12. NodesHeld' = NodesHeld /\ op.slot.node \in NodesHeld
  BY <1>1, <1>3, <1>5, <1>8 DEF NodesHeld, At
<1> HIDE DEF v
<1> DEFINE i == BITMAP_WORDS + op.slot.index
           pos == SlotPos(op.slot.node, op.slot.index)
<1>13. i \in 0 .. NODE_SIZE - 1 /\ pos = op.slot.node + i
  BY <1>5, Sizes DEF SlotPos
<1>14. origin' = WriteWords(origin, pos, <<v>>)
  BY <1>1 DEF WriteSlotWord
<1> HIDE DEF i, pos
<1> QED
  BY <1>1, <1>7, <1>11, <1>12, <1>13, <1>14, OwnerWritesNode

LEMMA WritesLeafBit ==
  ASSUME FaultyOps = {}, Words = Nat, IInv, Whole, PutLeafBit \/ RemoveLeafBit
  PROVE  AllocStep
<1> DEFINE v == IF At("leaf_bit") THEN op.target ELSE ABSENT
<1>1. /\ op.at \in {"leaf_bit", "unleaf_bit"} /\ strategy' = strategy
      /\ origin' = WriteSlotBit(origin, op.slot, v)
      /\ Go("length") \/ op' = Idle
  <2>1. CASE PutLeafBit
    BY <2>1, NoFaults DEF PutLeafBit, Writes, At
  <2>2. CASE RemoveLeafBit
    BY <2>2, NoFaults DEF RemoveLeafBit, Writes, At
  <2> QED
    BY <2>1, <2>2
<1>2. op \in Op /\ op.target \in Nat
  BY Holds, OpFields
<1>3. op'.at \in {"length", "idle"}
  BY <1>1, <1>2, IdleType DEF Go, Op
<1>4. op.at \in LeafPlaces /\ v \in Nat
  BY <1>1, <1>2, Sizes DEF LeafPlaces
<1>5. op.slot.node \in NodesOf(origin)
  BY <1>4, LeafSlot
<1> HIDE DEF v
<1>6. SameTree(origin, origin') /\ origin' \in Origin
  <2>1. SameTree(origin, origin') /\ Wrote(origin, origin', op.slot.node, 1)
    BY <1>1, <1>4, LeafBitWritten
  <2> QED
    BY <2>1 DEF Wrote
<1>7. NodesHeld' = NodesHeld /\ RecordsHeld' = RecordsHeld /\ op.slot.node \in NodesHeld
  BY <1>1, <1>3, <1>5, <1>6 DEF NodesHeld, RecordsHeld, At, SameTree
<1> QED
  BY <1>1, <1>6, <1>7, OwnerWritesBit
LEMMA AllocatesRecord ==
  ASSUME IInv, Whole, PutAllocRecord PROVE AllocStep
<1> DEFINE h == strategy.free_head
           b == strategy.bump
           t == AllocatedRecord(strategy)
           s == AfterAllocRecord(origin, strategy)
<1>1. /\ At("locate") /\ ~ AllocFails(origin, strategy)
      /\ strategy' = s /\ origin' = origin /\ op'.at = "leaf" /\ op'.target = t
  <2>1. op \in Op
    BY Holds
  <2> QED
    BY <2>1 DEF PutAllocRecord, Op
<1>2. origin \in Origin /\ strategy \in Header /\ b \in Nat /\ h \in Nat /\ origin.len \in Nat
  BY Holds, Sizes DEF Header, Origin
<1>3. t \notin RecordsOf(origin)
  BY <1>1, RecordAllocated
<1>4. NodesHeld' = NodesHeld /\ RecordsHeld' = RecordsHeld \cup {t}
  BY <1>1 DEF NodesHeld, RecordsHeld, At
<1>5. NodesInUse' = NodesInUse /\ RecordsInUse' = RecordsInUse \cup {t}
  BY <1>4, InUseIs, InUseNext DEF AllocInUse
<1>6. AllocFields(origin.header)' = AllocFields(origin.header)
  BY <1>1 DEF AllocFields
<1>7. CASE h = ABSENT
  <2>1. /\ s = [strategy EXCEPT !.bump = @ + RECORD_SLOT_SIZE] /\ t = b
        /\ b + RECORD_SLOT_SIZE <= MAX_OFFSET
    BY <1>1, <1>2, <1>7, Sizes DEF AfterAllocRecord, AllocatedRecord, AllocFails
  <2>2. strategy'.bump = b + RECORD_SLOT_SIZE /\ strategy'.free_head = h
    BY <1>1, <1>2, <2>1 DEF Header
  <2>3. FreeOldestFirst' = FreeOldestFirst
    BY <1>1, <1>2, <2>2, ListSame
  <2>4. h = Alloc!ABSENT
    BY <1>7, Sizes DEF Alloc!ABSENT
  <2>5. Alloc!AllocRecordFromBump
    BY <1>1, <1>5, <1>6, <2>1, <2>2, <2>3, <2>4 DEF Alloc!AllocRecordFromBump
  <2> QED
    BY <2>5 DEF AllocStep, Alloc!Next
<1>8. CASE h # ABSENT
  <2>1. s = [strategy EXCEPT !.free_head = origin.word[h]] /\ t = h /\ h < origin.len
    BY <1>1, <1>2, <1>8 DEF AfterAllocRecord, AllocatedRecord, AllocFails
  <2>2. strategy'.bump = b /\ strategy'.free_head = origin.word[h]
    BY <1>1, <1>2, <2>1 DEF Header
  <2>3. PICK n \in Nat : \E f \in [1 .. n -> Nat] :
          Sound(n, f) /\ FreeOldestFirst = f /\ f \in Seq(Nat) /\ Len(f) = n
    BY AllocHolds
  <2>4. PICK f \in [1 .. n -> Nat] :
          Sound(n, f) /\ FreeOldestFirst = f /\ f \in Seq(Nat) /\ Len(f) = n
    BY <2>3
  <2>5. Chain(origin, h, n, f) /\ n <= MAX_OFFSET /\ \A i \in 1 .. n : f[i] # ABSENT
    BY <1>2, <2>4, FewFree DEF Sound
  <2> DEFINE g == [i \in 1 .. n - 1 |-> f[i]]
  <2>6. n # 0 /\ n \in 1 .. n /\ h = f[n] /\ n - 1 \in Nat
    BY <1>8, <2>5 DEF Chain
  <2>7. g \in [1 .. n - 1 -> Nat] /\ \A i \in 1 .. n - 1 : g[i] = f[i] /\ i \in 1 .. n
    BY <2>6
  <2>8. SubSeq(f, 1, n - 1) = g
    BY <2>4, <2>6
  <2> HIDE DEF g
  <2>9. Chain(origin', strategy'.free_head, n - 1, g)
    <3>1. origin.word[h] = IF n = 1 THEN ABSENT ELSE f[n - 1]
      BY <2>5, <2>6 DEF Chain
    <3>2. n # 1 => n - 1 \in 1 .. n - 1
      BY <2>6
    <3>3. origin.word[h] = IF n - 1 = 0 THEN ABSENT ELSE g[n - 1]
      BY <2>6, <2>7, <3>1, <3>2
    <3>4. \A i \in 1 .. n - 1 :
            g[i] < origin.len /\ origin.word[g[i]] = IF i = 1 THEN ABSENT ELSE g[i - 1]
      <4>1. \A i \in 1 .. n - 1 : i # 1 => i - 1 \in 1 .. n - 1
        BY <2>6
      <4> QED
        BY <2>5, <2>7, <4>1 DEF Chain
    <3> QED
      BY <1>1, <2>2, <3>3, <3>4 DEF Chain
  <2>10. FreeOldestFirst' = g
    <3>1. n - 1 <= MAX_OFFSET /\ \A i \in 1 .. n - 1 : g[i] # ABSENT
      BY <2>5, <2>6, <2>7, Sizes
    <3> QED
      BY <2>6, <2>7, <2>9, <3>1, SpeltNext DEF FreeListSpelt, Lists
  <2>11. h # Alloc!ABSENT
    BY <1>8, Sizes DEF Alloc!ABSENT
  <2>12. Alloc!AllocRecordFromFreeList
    BY <1>1, <1>5, <1>6, <2>1, <2>2, <2>4, <2>8, <2>10, <2>11
       DEF Alloc!AllocRecordFromFreeList
  <2> QED
    BY <2>12 DEF AllocStep, Alloc!Next
<1> QED
  BY <1>7, <1>8

(* A write inside a record of the tree, by an operation on its value. *)
LEMMA ValueHeld ==
  ASSUME IInv, Whole, op.at \in {"locate", "length", "payload"}, op'.at \in {"idle", "payload"},
         NEW r \in Nat, r # ABSENT, NEW p \in Path, RecordAt(origin, p) = r,
         NEW lo \in Nat, NEW size \in Nat, r <= lo, lo + size <= r + RECORD_SLOT_SIZE,
         Wrote(origin, origin', lo, size)
  PROVE  r \in RecordsHeld /\ NodesHeld' = NodesHeld /\ RecordsHeld' = RecordsHeld
<1>1. r \in RecordsOf(origin)
  BY DEF RecordsOf
<1>2. r \in RecordsHeld
  BY <1>1 DEF RecordsHeld, At
<1>3. SameTree(origin, origin')
  BY <1>2, RecordWritten
<1> QED
  BY <1>2, <1>3 DEF NodesHeld, RecordsHeld, At, SameTree

LEMMA WritesLength ==
  ASSUME FaultyOps = {}, Words = Nat, IInv, Whole, PutLength \/ PutOverwrite
  PROVE  AllocStep
<1>1. origin \in Origin /\ InFlight /\ op.target \in Nat /\ op \in Op
  BY Holds, OpFields
<1>2. op.at \in {"locate", "length"} /\ op.at \in PutPlaces
  BY DEF PutLength, PutOverwrite, At, PutPlaces
<1>3. op.path \in Path
  BY <1>2, ValueSizes DEF IInv, OpNamed
<1>4. \E r \in Nat : \E prev :
        r # ABSENT /\ RecordAt(origin, op.path) = r /\ WriteLength(r, prev)
  <2>1. CASE PutLength
    BY <1>1, <2>1, NoFaults DEF PutLength, InFlight, At
  <2>2. CASE PutOverwrite
    <3>1. RecordAt(origin, op.path) = Found.record_offset
      BY RecordLocated DEF Found
    <3>2. Found.record_offset \in Nat
      BY <1>1, <1>3, <3>1, RecordType
    <3> QED
      BY <2>2, <3>1, <3>2, NoFaults DEF PutOverwrite
  <2> QED
    BY <2>1, <2>2
<1>5. PICK r \in Nat : \E prev :
        r # ABSENT /\ RecordAt(origin, op.path) = r /\ WriteLength(r, prev)
  BY <1>4
<1>6. PICK prev : r # ABSENT /\ RecordAt(origin, op.path) = r /\ WriteLength(r, prev)
  BY <1>5
<1>7. /\ Wrote(origin, origin', r, 1) /\ r <= r /\ r + 1 <= r + RECORD_SLOT_SIZE
      /\ Len(op.value) \in Nat
  BY <1>2, <1>6, LengthWritten
<1>8. origin' = WriteWords(origin, r, <<Len(op.value)>>) /\ strategy' = strategy
  BY <1>6 DEF WriteLength, Writes
<1>9. op'.at \in {"idle", "payload"}
  BY <1>1, <1>6, IdleType DEF WriteLength, Op
<1>10. r \in RecordsHeld /\ NodesHeld' = NodesHeld /\ RecordsHeld' = RecordsHeld
  BY <1>2, <1>3, <1>6, <1>7, <1>9, ValueHeld
<1> QED
  BY <1>7, <1>8, <1>10, OwnerWritesLength

LEMMA WritesPayload ==
  ASSUME FaultyOps = {}, Words = Nat, IInv, Whole, PutPayload PROVE AllocStep
<1> DEFINE t == op.target
           v == op.value
           n == Len(op.value)
           pos == t + 1
<1>1. /\ At("payload") /\ strategy' = strategy /\ op'.at = "idle"
      /\ origin' = WriteWords(origin, op.target + 1, op.value)
  BY NoFaults, IdleType DEF PutPayload, Writes
<1>2. origin \in Origin /\ InFlight
  BY Holds
<1>3. /\ t \in Nat /\ t # ABSENT /\ RecordAt(origin, op.path) = t
      /\ op.path \in Path /\ v \in Seq(Nat) /\ n \in Nat /\ n <= MaxValueLen
      /\ Wrote(origin, origin', t + 1, n)
      /\ t + 1 \in Nat /\ t <= t + 1 /\ (t + 1) + n <= t + RECORD_SLOT_SIZE
  BY <1>1, PayloadWritten
<1>4. op.at \in {"locate", "length", "payload"} /\ op'.at \in {"idle", "payload"}
  BY <1>1 DEF At
<1>5. t < origin.len
  BY <1>1, <1>2 DEF InFlight
<1>6. origin' = WriteWords(origin, pos, v) /\ n = Len(v)
  BY <1>1
<1> HIDE DEF t, v, n
<1>7. t \in RecordsHeld /\ NodesHeld' = NodesHeld /\ RecordsHeld' = RecordsHeld
  BY <1>3, <1>4, ValueHeld
<1>8. CASE n = 0
  <2>1. origin'.word = origin.word
    <3> DEFINE word == [p \in 0 .. MAX_OFFSET |->
                          IF pos <= p /\ p < pos + Len(v) THEN v[p - pos + 1]
                          ELSE origin.word[p]]
    <3>1. origin'.word = word
      BY <1>2, <1>6 DEF WriteWords, Origin
    <3>2. \A p \in 0 .. MAX_OFFSET : word[p] = origin.word[p]
      BY <1>3, <1>6, <1>8, Sizes
    <3> QED
      BY <1>2, <3>1, <3>2 DEF Origin
  <2>2. origin'.len = origin.len /\ origin.len \in Nat
    <3>1. origin'.len = Later(origin.len, pos + Len(v)) /\ origin.len \in 0 .. MAX_OFFSET
      BY <1>2, <1>6 DEF WriteWords, Origin
    <3> QED
      BY <1>3, <1>5, <1>6, <1>8, <3>1, Sizes DEF Later
  <2>3. FreeOldestFirst' = FreeOldestFirst
    BY <1>1, <2>1, <2>2, ListSame
  <2>4. NodesInUse' = NodesInUse /\ RecordsInUse' = RecordsInUse
    BY <1>7, InUseIs, InUseNext DEF AllocInUse
  <2>5. AllocFields(origin.header)' = AllocFields(origin.header)
    BY <1>3 DEF AllocFields, Wrote
  <2> QED
    BY <1>1, <2>1, <2>2, <2>3, <2>4, <2>5 DEF AllocStep, Alloc!vars
<1>9. CASE n # 0
  <2>1. n \in 1 .. RECORD_SLOT_SIZE - 1
    BY <1>3, <1>9, ValueSizes, Sizes
  <2>2. v \in [1 .. n -> Nat]
    BY <1>3, <1>6
  <2>3. Wrote(origin, origin', pos, n)
    BY <1>3
  <2> HIDE DEF pos
  <2>4. pos = t + 1
    BY DEF pos
  <2> QED
    BY <1>1, <1>6, <1>7, <2>1, <2>2, <2>3, <2>4, OwnerWritesPayload
<1> QED
  BY <1>8, <1>9
LEMMA FreesRecord ==
  ASSUME FaultyOps = {}, IInv, Whole, NEW p \in Paths, Remove(p) PROVE AllocStep
<1> DEFINE r == RecordAt(origin, p)
           h == strategy.free_head
           b == strategy.bump
<1>1. /\ At("idle") /\ Lookup(origin, p) \notin {NONE, FAILED} /\ p \in Path
      /\ origin \in Origin /\ strategy \in Header /\ h \in Nat /\ b \in Nat
      /\ NodesHeld \in SUBSET Nat /\ RecordsHeld \in SUBSET Nat
  BY ValueSizes, Holds DEF Remove, Header
<1>2. /\ r \in Nat /\ r # ABSENT /\ r < origin.len
      /\ Locate(origin, p).record_offset = r
  BY <1>1, FoundIs
<1>3. /\ origin' = WriteWords(origin, r, <<h>>)
      /\ strategy' = [strategy EXCEPT !.free_head = r]
      /\ op'.at = "unleaf" /\ op'.target = r
  <2>1. op' = [Idle EXCEPT !.at = "unleaf", !.name = "remove", !.path = p,
                 !.slot = [node |-> Locate(origin, p).node, index |-> Locate(origin, p).index],
                 !.target = r, !.prev = Lookup(origin, p)]
    BY <1>2, NoFaults DEF Remove
  <2>2. op'.at = "unleaf" /\ op'.target = r
    BY <2>1 DEF Idle
  <2> QED
    BY <1>2, <2>2, NoFaults DEF Remove, Writes
<1>4. r + 1 <= MAX_OFFSET /\ r \in 0 .. MAX_OFFSET /\ r <= r /\ r + 1 <= r + RECORD_SLOT_SIZE
  BY <1>1, <1>2, Sizes DEF Origin
<1>5. r \in RecordsOf(origin)
  BY <1>1, <1>2 DEF RecordsOf
<1> HIDE DEF r
<1>6. r \in RecordsHeld
  BY <1>1, <1>5 DEF RecordsHeld, At
<1>7. Wrote(origin, origin', r, 1) /\ origin'.word[r] = h
  BY <1>1, <1>2, <1>3, <1>4, WordWritten
<1>8. SameTree(origin, origin')
  BY <1>2, <1>4, <1>6, <1>7, RecordWritten
<1>9. NodesHeld' = NodesHeld /\ RecordsHeld' = RecordsHeld \ {r}
  BY <1>1, <1>3, <1>8 DEF NodesHeld, RecordsHeld, At, SameTree
<1>10. /\ NodesInUse' = NodesInUse /\ RecordsInUse' = RecordsInUse \ {r}
       /\ r \in RecordsInUse
  BY <1>6, <1>9, InUseIs, InUseNext DEF AllocInUse
<1>11. strategy'.bump = b /\ strategy'.free_head = r
  BY <1>1, <1>2, <1>3 DEF Header
<1>12. PICK n \in Nat : \E f \in [1 .. n -> Nat] :
         Sound(n, f) /\ FreeOldestFirst = f /\ f \in Seq(Nat) /\ Len(f) = n
  BY AllocHolds
<1>13. PICK f \in [1 .. n -> Nat] :
         Sound(n, f) /\ FreeOldestFirst = f /\ f \in Seq(Nat) /\ Len(f) = n
  BY <1>12
<1>14. /\ Chain(origin, h, n, f) /\ Laid(b, NodesHeld, RecordsHeld, n, f)
       /\ \A i \in 1 .. n : f[i] # ABSENT
  BY <1>1, <1>13, FewFree DEF Sound
<1>15. \A i \in 1 .. n : Apart(f[i], RECORD_SLOT_SIZE, r, 1)
  <2> SUFFICES ASSUME NEW i \in 1 .. n PROVE Apart(f[i], RECORD_SLOT_SIZE, r, 1)
    OBVIOUS
  <2>1. Apart(r, RECORD_SLOT_SIZE, f[i], RECORD_SLOT_SIZE)
    BY <1>6, <1>14 DEF Laid
  <2> QED
    BY <1>2, <2>1, Sizes DEF Apart
<1>16. Chain(origin', h, n, f)
  BY <1>1, <1>2, <1>7, <1>14, <1>15, ChainKept
<1>17. r < origin'.len
  BY <1>1, <1>2, <1>7, Sizes DEF Wrote, Origin
<1>18. n + 1 <= MAX_OFFSET
  <2>1. \E g \in [1 .. n + 1 -> Nat] :
          Laid(b, NodesHeld, RecordsHeld \ {r}, n + 1, g) /\ Chain(origin', r, n + 1, g)
    BY <1>1, <1>6, <1>7, <1>14, <1>16, <1>17, LaidPush
  <2>2. PICK g \in [1 .. n + 1 -> Nat] : Laid(b, NodesHeld, RecordsHeld \ {r}, n + 1, g)
    BY <2>1
  <2>3. n + 1 \in Nat
    OBVIOUS
  <2> QED
    BY <1>1, <2>2, <2>3, FewFree
<1> DEFINE g == Append(f, r)
<1>19. /\ g \in [1 .. n + 1 -> Nat] /\ g[n + 1] = r
       /\ \A i \in 1 .. n : g[i] = f[i]
       /\ \A i \in 1 .. n + 1 : i \in 1 .. n \/ i = n + 1
       /\ n + 1 \in Nat /\ n + 1 # 0
  <2>1. f \in Seq(Nat) /\ Len(f) = n /\ r \in Nat
    BY <1>2, <1>13
  <2>2. g \in Seq(Nat) /\ Len(g) = n + 1
    BY <2>1
  <2>3. g[n + 1] = r /\ \A i \in 1 .. n : g[i] = f[i]
    BY <2>1
  <2> HIDE DEF g
  <2>4. g \in [1 .. n + 1 -> Nat]
    BY <2>2
  <2> QED
    BY <2>3, <2>4
<1> HIDE DEF g
<1>20. Chain(origin', r, n + 1, g) /\ \A i \in 1 .. n + 1 : g[i] # ABSENT
  <2>1. r = IF n + 1 = 0 THEN ABSENT ELSE g[n + 1]
    BY <1>19
  <2>2. ASSUME NEW i \in 1 .. n
        PROVE  /\ g[i] < origin'.len /\ g[i] # ABSENT
               /\ origin'.word[g[i]] = IF i = 1 THEN ABSENT ELSE g[i - 1]
    <3>1. i # 1 => i - 1 \in 1 .. n
      OBVIOUS
    <3> QED
      BY <1>14, <1>16, <1>19, <3>1 DEF Chain
  <2>3. origin'.word[r] = IF n + 1 = 1 THEN ABSENT ELSE g[n]
    <3>1. CASE n = 0
      BY <1>7, <1>14, <3>1 DEF Chain
    <3>2. CASE n # 0
      <4>1. n \in 1 .. n /\ n + 1 # 1 /\ h = f[n]
        BY <1>14, <3>2 DEF Chain
      <4> QED
        BY <1>7, <1>19, <4>1
    <3> QED
      BY <3>1, <3>2
  <2>4. /\ g[n + 1] < origin'.len /\ g[n + 1] # ABSENT
        /\ origin'.word[g[n + 1]] = IF n + 1 = 1 THEN ABSENT ELSE g[(n + 1) - 1]
    <3>1. (n + 1) - 1 = n
      OBVIOUS
    <3> QED
      BY <1>2, <1>17, <1>19, <2>3, <3>1
  <2> QED
    BY <1>19, <2>1, <2>2, <2>4 DEF Chain
<1>21. FreeOldestFirst' = g
  BY <1>11, <1>18, <1>19, <1>20, SpeltNext DEF FreeListSpelt, Lists
<1>22. origin'.word = [origin.word EXCEPT ![r] = h] /\ origin'.len = origin.len
  <2> DEFINE word == [pos \in 0 .. MAX_OFFSET |->
                        IF r <= pos /\ pos < r + Len(<<h>>) THEN <<h>>[pos - r + 1]
                        ELSE origin.word[pos]]
  <2>1. origin'.word = word /\ origin'.len = Later(origin.len, r + 1)
    BY <1>1, <1>3 DEF WriteWords, Origin
  <2>2. word = [origin.word EXCEPT ![r] = h]
    <3>1. \A pos \in 0 .. MAX_OFFSET :
            word[pos] = IF pos = r THEN h ELSE origin.word[pos]
      BY <1>2, <1>4, Sizes
    <3> QED
      BY <1>1, <3>1 DEF Origin
  <2>3. Later(origin.len, r + 1) = origin.len
    BY <1>1, <1>2, Sizes DEF Later, Origin
  <2> QED
    BY <2>1, <2>2, <2>3
<1>23. AllocFields(origin.header)' = AllocFields(origin.header)
  BY <1>7 DEF AllocFields, Wrote
<1>24. Alloc!FreeRecord(r)
  BY <1>2, <1>10, <1>11, <1>13, <1>21, <1>22, <1>23 DEF Alloc!FreeRecord, g
<1> QED
  BY <1>10, <1>24 DEF AllocStep, Alloc!Next

(* An empty store, as its allocator sees it. *)
LEMMA BareAlloc ==
  ASSUME \A i \in 0 .. FANOUT - 1 : ReadSlot(origin, ROOT_OFFSET, i) = ABSENT,
         strategy = NewStrategy, op.at \in {"idle", "clear_header"}
  PROVE  NodesInUse = {ROOT_OFFSET} /\ RecordsInUse = {} /\ FreeOldestFirst = <<>>
<1>1. NodesOf(origin) = {ROOT_OFFSET} /\ RecordsOf(origin) = {}
  BY BareRoot
<1>2. NodesHeld = {ROOT_OFFSET} /\ RecordsHeld = {}
  BY <1>1 DEF NodesHeld, RecordsHeld, At
<1> DEFINE f == [i \in 1 .. 0 |-> 0]
<1>3. f \in [1 .. 0 -> Nat] /\ 0 \in Nat /\ f = <<>>
  OBVIOUS
<1> HIDE DEF f
<1>4. Lists(0, f)
  BY ValueSizes, Sizes DEF Lists, Chain
<1>5. FreeOldestFirst = <<>>
  BY <1>3, <1>4, SpeltIs DEF FreeListSpelt
<1> QED
  BY <1>2, <1>5, InUseIs DEF AllocInUse

IsBare ==
  /\ \A i \in 0 .. FANOUT - 1 : ReadSlot(origin, ROOT_OFFSET, i) = ABSENT
  /\ strategy = NewStrategy /\ op.at \in {"idle", "clear_header"}
BareSeen ==
  IsBare => NodesInUse = {ROOT_OFFSET} /\ RecordsInUse = {} /\ FreeOldestFirst = <<>>

LEMMA BareIs == BareSeen
BY BareAlloc DEF BareSeen, IsBare

LEMMA BareNext == BareSeen'
BY BareIs, PTL

LEMMA ResetsAll ==
  ASSUME FaultyOps = {}, IInv, Clear PROVE AllocStep
<1>1. /\ strategy' = NewStrategy /\ origin' = ZeroNode(origin, ROOT_OFFSET)
      /\ op'.at = "clear_header"
  <2>1. op' = [Idle EXCEPT !.at = "clear_header", !.name = "clear"]
    BY NoFaults DEF Clear
  <2> QED
    BY <2>1, NoFaults DEF Clear, Writes, Idle
<1>2. origin \in Origin /\ ROOT_OFFSET \in Nat /\ ROOT_OFFSET + NODE_SIZE <= MAX_OFFSET
  BY Sizes DEF IInv, TypeInv
<1>3. /\ origin'.header = origin.header
      /\ \A pos \in 0 .. MAX_OFFSET :
           origin'.word[pos] = IF ROOT_OFFSET <= pos /\ pos < ROOT_OFFSET + NODE_SIZE
                               THEN 0 ELSE origin.word[pos]
      /\ origin' \in Origin
  BY <1>1, <1>2, ZeroNodeIs
<1>4. \A i \in 0 .. FANOUT - 1 : ReadSlot(origin', ROOT_OFFSET, i) = ABSENT
  <2> SUFFICES ASSUME NEW i \in 0 .. FANOUT - 1
               PROVE  ReadSlot(origin', ROOT_OFFSET, i) = ABSENT
    OBVIOUS
  <2>1. /\ SlotPos(ROOT_OFFSET, i) \in 0 .. MAX_OFFSET
        /\ ROOT_OFFSET <= SlotPos(ROOT_OFFSET, i)
        /\ SlotPos(ROOT_OFFSET, i) < ROOT_OFFSET + NODE_SIZE
    BY Sizes DEF SlotPos
  <2> QED
    BY <1>3, <2>1, Sizes DEF ReadSlot
<1>5. NodesInUse' = {ROOT_OFFSET} /\ RecordsInUse' = {} /\ FreeOldestFirst' = <<>>
  BY <1>1, <1>4, BareNext DEF BareSeen, IsBare
<1>6. /\ strategy'.bump = Alloc!Fresh.bump /\ strategy'.free_head = Alloc!ABSENT
  BY <1>1, ValueSizes, Sizes DEF Alloc!Fresh, Alloc!ABSENT
<1>7. origin'.word = Alloc!Zeroed(ROOT_OFFSET, NODE_SIZE)
  <2>1. Alloc!Zeroed(ROOT_OFFSET, NODE_SIZE)
          = [pos \in 0 .. MAX_OFFSET |->
               IF ROOT_OFFSET <= pos /\ pos < ROOT_OFFSET + NODE_SIZE
               THEN 0 ELSE origin.word[pos]]
    BY DEF Alloc!Zeroed, Alloc!Offsets
  <2> QED
    BY <1>3, <2>1 DEF Origin
<1>8. origin'.len = Alloc!Later(origin.len, ROOT_OFFSET + NODE_SIZE)
  <2> DEFINE zeros == [i \in 1 .. NODE_SIZE |-> 0]
  <2>1. Len(zeros) = NODE_SIZE
    BY Sizes
  <2>2. origin'.len = Later(origin.len, ROOT_OFFSET + Len(zeros))
    BY <1>1, <1>2 DEF ZeroNode, WriteWords, Origin
  <2> HIDE DEF zeros
  <2> QED
    BY <2>1, <2>2 DEF Later, Alloc!Later
<1>9. AllocFields(origin.header)' = AllocFields(origin.header)
  BY <1>3 DEF AllocFields
<1>10. Alloc!Reset
  BY <1>5, <1>6, <1>7, <1>8, <1>9 DEF Alloc!Reset
<1> QED
  BY <1>10 DEF AllocStep, Alloc!Next

LEMMA WritesHeader ==
  ASSUME FaultyOps = {}, IInv, Whole, Flush \/ ClearHeader PROVE AllocStep
<1>1. /\ op.at \in {"idle", "clear_header"} /\ op'.at \in {"idle", "sync"}
      /\ \E s \in Header : origin' = WriteHeader(origin, s) /\ strategy' = s
           /\ s.bump = strategy.bump /\ s.free_head = strategy.free_head
  <2>1. strategy \in Header /\ len \in Nat
    BY DEF IInv, TypeInv
  <2>2. CASE Flush
    <3> DEFINE s == [strategy EXCEPT !.record_count = len]
    <3>1. /\ At("idle") /\ strategy' = s /\ origin' = WriteHeader(origin, s)
          /\ op' = [Idle EXCEPT !.at = "sync", !.name = "flush"]
      BY <2>2, NoFaults DEF Flush, Writes
    <3>2. s \in Header /\ s.bump = strategy.bump /\ s.free_head = strategy.free_head
      BY <2>1 DEF Header
    <3>3. op'.at = "sync"
      BY <3>1 DEF Idle
    <3> QED
      BY <3>1, <3>2, <3>3 DEF At
  <2>3. CASE ClearHeader
    BY <2>1, <2>3, NoFaults, IdleType DEF ClearHeader, At
  <2> QED
    BY <2>2, <2>3
<1>2. PICK s \in Header : /\ origin' = WriteHeader(origin, s) /\ strategy' = s
                          /\ s.bump = strategy.bump /\ s.free_head = strategy.free_head
  BY <1>1
<1>3. origin \in Origin /\ Tree(origin)
  BY Holds
<1>4. /\ origin'.word = origin.word /\ origin'.header = s
      /\ origin'.len = Later(origin.len, ROOT_OFFSET)
      /\ origin' \in Origin /\ origin.len <= origin'.len /\ origin'.len \in Nat
  <2>1. /\ origin'.word = origin.word /\ origin'.header = s
        /\ origin'.len = Later(origin.len, ROOT_OFFSET)
    BY <1>2, <1>3 DEF WriteHeader, Origin
  <2>2. Later(origin.len, ROOT_OFFSET) \in 0 .. MAX_OFFSET /\ origin.len \in Nat
        /\ origin.len <= Later(origin.len, ROOT_OFFSET)
    BY <1>3, Sizes DEF Later, Origin
  <2>3. origin' \in Origin
    BY <1>2, <1>3, <2>2 DEF WriteHeader, Origin
  <2> QED
    BY <2>1, <2>2, <2>3
<1>5. SameTree(origin, origin')
  <2>1. \A m \in NodesOf(origin), i \in 0 .. FANOUT - 1 :
          ReadSlot(origin', m, i) = ReadSlot(origin, m, i)
    BY <1>4 DEF ReadSlot
  <2> QED
    BY <1>3, <1>4, <2>1, SlotsKeptSame
<1>6. FreeOldestFirst' = FreeOldestFirst
  BY <1>2, <1>4, ListSame
<1>7. NodesHeld' = NodesHeld /\ RecordsHeld' = RecordsHeld
  BY <1>1, <1>5 DEF NodesHeld, RecordsHeld, At, SameTree
<1>8. NodesInUse' = NodesInUse /\ RecordsInUse' = RecordsInUse
  BY <1>7, InUseIs, InUseNext DEF AllocInUse
<1>9. AllocFields(origin.header)' = Alloc!Current
  BY <1>2, <1>4 DEF AllocFields, Alloc!Current
<1>10. origin'.len = Alloc!Later(origin.len, ROOT_OFFSET)
  BY <1>4 DEF Later, Alloc!Later
<1>11. strategy'.bump = strategy.bump /\ strategy'.free_head = strategy.free_head
  BY <1>2
<1>12. Alloc!WriteHeader
  BY <1>4, <1>6, <1>8, <1>9, <1>10, <1>11 DEF Alloc!WriteHeader
<1> QED
  BY <1>12 DEF AllocStep, Alloc!Next
LEMMA AllocInit == Init => Alloc!Init
<1> SUFFICES ASSUME Init PROVE Alloc!Init
  OBVIOUS
<1>1. strategy = NewStrategy /\ origin = EmptyOrigin /\ op.at = "idle"
  BY IdleType DEF Init
<1>2. \A i \in 0 .. FANOUT - 1 : ReadSlot(origin, ROOT_OFFSET, i) = ABSENT
  <2> SUFFICES ASSUME NEW i \in 0 .. FANOUT - 1
               PROVE  ReadSlot(origin, ROOT_OFFSET, i) = ABSENT
    OBVIOUS
  <2>1. SlotPos(ROOT_OFFSET, i) \in 0 .. MAX_OFFSET
    BY Sizes DEF SlotPos
  <2> QED
    BY <1>1, <2>1, Sizes DEF ReadSlot, EmptyOrigin
<1>3. NodesInUse = {ROOT_OFFSET} /\ RecordsInUse = {} /\ FreeOldestFirst = <<>>
  BY <1>1, <1>2, BareAlloc
<1>4. strategy.bump = Alloc!Fresh.bump /\ strategy.free_head = Alloc!ABSENT
  BY <1>1, ValueSizes, Sizes DEF Alloc!Fresh, Alloc!ABSENT
<1>5. origin.word = [pos \in Alloc!Offsets |-> 0] /\ origin.len = 0
  BY <1>1 DEF EmptyOrigin, Alloc!Offsets
<1>6. AllocFields(origin.header) = Alloc!NoHeader
  BY <1>1 DEF EmptyOrigin, NoHeader, AllocFields, Alloc!NoHeader, ABSENT, Alloc!ABSENT
<1> QED
  BY <1>3, <1>4, <1>5, <1>6 DEF Alloc!Init

LEMMA AllocAnswers ==
  ASSUME FaultyOps = {}, IInv, Whole,
         \/ \E p \in Paths : RemoveNothing(p)
         \/ \E p \in Paths, v \in Payloads : Put(p, v)
         \/ \E v \in Payloads : PutTooLarge(v)
         \/ PutRefused \/ FlushOrigin
  PROVE  AllocStep
<1>1. CASE \E p \in Paths : RemoveNothing(p)
  BY <1>1, AllocQuiet DEF RemoveNothing, At
<1>2. CASE \E p \in Paths, v \in Payloads : Put(p, v)
  <2>1. /\ origin' = origin /\ strategy' = strategy /\ op.at = "idle"
        /\ \E p \in Paths, v \in Payloads :
             op' = [Idle EXCEPT !.at = "locate", !.name = "put", !.path = p, !.value = v]
    BY <1>2 DEF Put, At
  <2>2. op'.at = "locate"
    BY <2>1 DEF Idle
  <2> QED
    BY <2>1, <2>2, AllocQuiet
<1>3. CASE \E v \in Payloads : PutTooLarge(v)
  BY <1>3, AllocQuiet DEF PutTooLarge, At
<1>4. CASE PutRefused
  BY <1>4, IdleType, AllocQuiet DEF PutRefused, Abort, At
<1>5. CASE FlushOrigin
  BY <1>5, NoFaults, IdleType, AllocQuiet DEF FlushOrigin, At
<1> QED
  BY <1>1, <1>2, <1>3, <1>4, <1>5

LEMMA AllocReopens ==
  ASSUME IInv, Whole, Covered, DirtyTracksHeader, Reopen PROVE AllocStep
<1>1. LoadOrNew(origin) = [strategy EXCEPT !.record_count = len] /\ At("idle")
  BY ReopensCurrent
<1>2. strategy' = [strategy EXCEPT !.record_count = len] /\ origin' = origin /\ op' = Idle
  BY <1>1 DEF Reopen
<1>3. strategy \in Header
  BY Holds
<1>4. strategy'.bump = strategy.bump /\ strategy'.free_head = strategy.free_head
  BY <1>2, <1>3 DEF Header
<1>5. op.at = "idle" /\ op'.at = "idle"
  BY <1>1, <1>2, IdleType DEF At
<1> QED
  BY <1>2, <1>4, <1>5, AllocQuiet

LEMMA AllocStutters ==
  ASSUME UNCHANGED vars PROVE AllocStep
<1>1. origin' = origin /\ strategy' = strategy /\ op' = op
  BY DEF vars
<1>2. NodesHeld' = NodesHeld /\ RecordsHeld' = RecordsHeld
  BY <1>1 DEF NodesHeld, RecordsHeld, At
<1>3. NodesInUse' = NodesInUse /\ RecordsInUse' = RecordsInUse
  BY <1>2, InUseIs, InUseNext DEF AllocInUse
<1>4. FreeOldestFirst' = FreeOldestFirst
  BY <1>1 DEF FreeOldestFirst, FreeLinks
<1> QED
  BY <1>1, <1>3, <1>4 DEF AllocStep, Alloc!vars, AllocFields

LEMMA AllocSteps ==
  ASSUME FaultyOps = {}, Words = Nat, IInv, "spans" \notin wounds, Covered,
         DirtyTracksHeader, [Next]_vars
  PROVE  AllocStep
<1>1. Whole
  BY DEF Whole
<1>2. CASE UNCHANGED vars
  BY <1>2, AllocStutters
<1>3. CASE \/ \E p \in Paths : RemoveNothing(p)
           \/ \E p \in Paths, v \in Payloads : Put(p, v)
           \/ \E v \in Payloads : PutTooLarge(v)
           \/ PutRefused \/ FlushOrigin
  BY <1>1, <1>3, AllocAnswers
<1>4. CASE \E p \in Paths : Remove(p)
  BY <1>1, <1>4, FreesRecord
<1>5. CASE PutAllocNode \/ PutLinkNode \/ PutLinkNodeBit \/ PutAllocRecord
  BY <1>1, <1>5, AllocatesNode, LinksNode, SetsLinkBit, AllocatesRecord
<1>6. CASE PutLeaf \/ RemoveLeaf \/ PutLeafBit \/ RemoveLeafBit
  BY <1>1, <1>6, WritesLeaf, WritesLeafBit
<1>7. CASE PutLength \/ PutOverwrite \/ PutPayload
  BY <1>1, <1>7, WritesLength, WritesPayload
<1>8. CASE Clear \/ ClearHeader \/ Flush
  BY <1>1, <1>8, ResetsAll, WritesHeader
<1>9. CASE Reopen
  BY <1>1, <1>9, AllocReopens
<1>10. ~ PutUnread /\ ~ RemoveFails
  BY NoFaults
<1> QED
  BY <1>2, <1>3, <1>4, <1>5, <1>6, <1>7, <1>8, <1>9, <1>10 DEF Next

(* While no write fails every write of the store goes into a node or a      *)
(* record it has been given and not given back, every record it frees is    *)
(* one it has in use, and the list of the freed ones is the allocator's: so *)
(* NoOverlap, NextRecordIsUnused and FreeListThreaded of TreeAllocator are  *)
(* facts about the nodes, leaves and links CoordMapStore::put, remove,      *)
(* clear and flush leave in the origin, inside an operation as well.        *)
(* Words = Nat lets the owner of TreeAllocator write anything.              *)
THEOREM ImplementsTheAllocator ==
  ASSUME FaultyOps = {}, Words = Nat
  PROVE  Spec /\ []Covered => ImplementsAllocator
<1>1. Init => Alloc!Init /\ "spans" \notin wounds
  BY AllocInit DEF Init
<1>2. "spans" \notin wounds /\ [Next]_vars => ("spans" \notin wounds)'
  BY NoSpanWounds
<1>3. IInv /\ "spans" \notin wounds /\ Covered /\ DirtyTracksHeader /\ [Next]_vars =>
        [Alloc!Next]_(Alloc!vars)
  BY AllocSteps DEF AllocStep
<1> QED
  BY <1>1, <1>2, <1>3, LayoutInvariant, DirtyTracks, PTL DEF Spec, ImplementsAllocator, Alloc!Spec

(* A store that is reopened only with its header up to date needs no more:  *)
(* each of its behaviours is one of the allocator's.                        *)
COROLLARY AlwaysTheAllocator ==
  ASSUME FaultyOps = {}, Words = Nat, ReopenWhen = "flushed"
  PROVE  Spec => ImplementsAllocator
<1>1. FaultyOps \cap {"remove", "clear"} = {}
  OBVIOUS
<1> QED
  BY <1>1, AlwaysCovered, ImplementsTheAllocator, PTL
=============================================================================
