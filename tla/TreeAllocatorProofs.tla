------------------------ MODULE TreeAllocatorProofs ------------------------
(***************************************************************************)
(* Proofs about TreeAllocator for every header, node and record size, and  *)
(* every choice of the owner: IInv is inductive, and with it no two spans  *)
(* in use overlap, the free list stays threaded, and load and alloc_record *)
(* never report corruption.                                                *)
(***************************************************************************)
EXTENDS TreeAllocator, SequenceTheorems, TLAPS

(* A record on the free list was cut below bump, past the root, and written. *)
LEMMA FreeBounds ==
  ASSUME IInv
  PROVE  /\ Len(free) \in Nat
         /\ \A i \in 1 .. Len(free) :
              /\ free[i] \in Nat
              /\ free[i] \in FreeRecords
              /\ ROOT_OFFSET + NODE_SIZE <= free[i]
              /\ free[i] + RECORD_SLOT_SIZE <= bump
              /\ free[i] < origin_len
  <1>1. free \in Seq(Nat) /\ Len(free) \in Nat
    BY DEF IInv, TypeOK
  <1>2. \A i \in 1 .. Len(free) : free[i] \in Nat
    BY <1>1
  <1>3. \A i \in 1 .. Len(free) : free[i] \in FreeRecords
    BY DEF FreeRecords
  <1>4. \A i \in 1 .. Len(free) :
          /\ ROOT_OFFSET + NODE_SIZE <= free[i]
          /\ free[i] + RECORD_SLOT_SIZE <= bump
    BY <1>3 DEF IInv, BelowBump
  <1>5. \A i \in 1 .. Len(free) : free[i] < origin_len
    BY DEF IInv, FreeIsApart
  <1> QED
    BY <1>1, <1>2, <1>3, <1>4, <1>5

LEMMA Bounds ==
  ASSUME IInv
  PROVE  /\ bump \in Nat /\ bump <= MAX_OFFSET
         /\ origin_len \in Nat
         /\ free_head \in Nat
  BY SizesAssumption DEF IInv, TypeOK, Offsets

(* What is written inside a span in use leaves every free list link alone.  *)
LEMMA WriteInUseKeepsLinks ==
  ASSUME IInv, NEW o \in Nat, NEW n \in Nat, NEW ws \in [1 .. n -> Nat],
         WriteWords(o, ws), o + n <= bump,
         \A i \in 1 .. Len(free) : Apart(free[i], RECORD_SLOT_SIZE, o, n)
  PROVE  IInv'
<1> USE SizesAssumption
<1>1. Len(ws) = n
  OBVIOUS
<1>2. /\ word' = [p \in Offsets |-> IF o <= p /\ p < o + n THEN ws[p - o + 1] ELSE word[p]]
      /\ origin_len' = Later(origin_len, o + n)
      /\ UNCHANGED <<bump, free_head, header, nodes, records, free>>
  BY <1>1 DEF WriteWords
<1>3. TypeOK'
  <2>1. ASSUME NEW p \in Offsets
        PROVE  (IF o <= p /\ p < o + n THEN ws[p - o + 1] ELSE word[p]) \in Nat
    <3>1. word[p] \in Nat /\ p \in Nat
      BY <2>1 DEF IInv, TypeOK, Offsets
    <3>2. o <= p /\ p < o + n => p - o + 1 \in 1 .. n
      BY <3>1
    <3> QED
      BY <3>1, <3>2
  <2>2. word' \in [Offsets -> Nat]
    BY <1>2, <2>1
  <2> QED
    BY <1>2, <2>2 DEF IInv, TypeOK, Later
<1>4. NoOverlap' /\ BelowBump'
  BY <1>2 DEF IInv, NoOverlap, BelowBump, FreeRecords, Apart
<1>5. FreeIsApart'
  BY <1>2 DEF IInv, TypeOK, FreeIsApart, Apart, Later
<1>6. FreeListThreaded'
  <2>1. ASSUME NEW i \in 1 .. Len(free) PROVE word'[free[i]] = word[free[i]]
    <3>1. free[i] \in Offsets /\ free[i] \in Nat
      BY <2>1, FreeBounds, Bounds DEF Offsets
    <3>2. ~ (o <= free[i] /\ free[i] < o + n)
      BY <3>1 DEF Apart
    <3> QED
      BY <1>2, <3>1, <3>2
  <2> QED
    BY <1>2, <2>1 DEF IInv, FreeListThreaded
<1>7. LoadAccepts'
  BY <1>2 DEF IInv, TypeOK, LoadAccepts, Loaded, Later, Fresh, NoHeader
<1> QED
  BY <1>3, <1>4, <1>5, <1>6, <1>7 DEF IInv

LEMMA InitIInv == Init => IInv
<1> SUFFICES ASSUME Init PROVE IInv
  OBVIOUS
<1> USE SizesAssumption
<1>1. TypeOK
  BY DEF Init, TypeOK, Offsets, Fresh, NoHeader, ABSENT
<1>2. NoOverlap /\ BelowBump /\ FreeIsApart
  BY DEF Init, NoOverlap, BelowBump, FreeIsApart, FreeRecords, Fresh
<1>3. FreeListThreaded
  BY DEF Init, FreeListThreaded
<1>4. LoadAccepts
  BY DEF Init, LoadAccepts, Loaded, Fresh, NoHeader
<1> QED
  BY <1>1, <1>2, <1>3, <1>4 DEF IInv

LEMMA AllocNodeStep == IInv /\ AllocNode => IInv'
<1> SUFFICES ASSUME IInv, AllocNode PROVE IInv'
  OBVIOUS
<1> USE SizesAssumption
<1>1. TypeOK'
  BY DEF IInv, TypeOK, AllocNode, Zeroed, Offsets, Later
<1>2. NoOverlap'
  BY DEF IInv, TypeOK, AllocNode, NoOverlap, BelowBump, Apart, Offsets
<1>3. BelowBump'
  BY DEF IInv, TypeOK, AllocNode, BelowBump, FreeRecords, Offsets
<1>4. FreeIsApart'
  <2>1. free' = free /\ records' = records /\ nodes' = nodes \cup {bump}
    BY DEF AllocNode
  <2>2. \A i \in 1 .. Len(free) : Apart(free[i], RECORD_SLOT_SIZE, bump, NODE_SIZE)
    BY FreeBounds DEF Apart
  <2>3. \A i \in 1 .. Len(free) : free[i] < origin_len'
    <3>1. origin_len <= origin_len' /\ origin_len' \in Nat
      BY Bounds DEF AllocNode, Later
    <3> QED
      BY <3>1, FreeBounds, Bounds
  <2> QED
    BY <2>1, <2>2, <2>3 DEF IInv, FreeIsApart, Apart
<1>5. FreeListThreaded'
  <2>1. ASSUME NEW i \in 1 .. Len(free)
        PROVE  word'[free[i]] = word[free[i]]
    <3>1. free[i] \in Offsets /\ ~(bump <= free[i])
      BY FreeBounds, Bounds, <2>1 DEF Offsets
    <3> QED
      BY <3>1 DEF AllocNode, Zeroed
  <2> QED
    BY <2>1 DEF IInv, AllocNode, FreeListThreaded
<1>6. LoadAccepts'
  BY DEF IInv, TypeOK, AllocNode, LoadAccepts, Loaded, Later, Offsets, Fresh, NoHeader
<1> QED
  BY <1>1, <1>2, <1>3, <1>4, <1>5, <1>6 DEF IInv

LEMMA AllocNodeFailsStep == IInv /\ AllocNodeFails => IInv'
<1> SUFFICES ASSUME IInv, AllocNodeFails PROVE IInv'
  OBVIOUS
<1> USE SizesAssumption
<1>1. TypeOK'
  BY DEF IInv, TypeOK, AllocNodeFails, Offsets
<1>2. BelowBump'
  <2>1. (records \cup FreeRecords)' = records \cup FreeRecords /\ nodes' = nodes
    BY DEF AllocNodeFails, FreeRecords
  <2>2. bump \in Nat /\ bump' = bump + NODE_SIZE
    BY DEF AllocNodeFails, IInv, TypeOK, Offsets
  <2>3. \A n \in nodes : n \in Nat
    BY DEF IInv, TypeOK
  <2>4. \A r \in records \cup FreeRecords : r \in Nat
    BY FreeBounds DEF IInv, TypeOK, FreeRecords
  <2> QED
    BY <2>1, <2>2, <2>3, <2>4 DEF IInv, BelowBump
<1>3. NoOverlap' /\ FreeIsApart' /\ FreeListThreaded' /\ LoadAccepts'
  BY DEF IInv, AllocNodeFails, NoOverlap, FreeIsApart, FreeListThreaded,
         LoadAccepts, Loaded, Apart, Fresh, NoHeader
<1> QED
  BY <1>1, <1>2, <1>3 DEF IInv

LEMMA AllocRecordFromBumpStep == IInv /\ AllocRecordFromBump => IInv'
<1> SUFFICES ASSUME IInv, AllocRecordFromBump PROVE IInv'
  OBVIOUS
<1> USE SizesAssumption
<1>1. TypeOK'
  BY DEF IInv, TypeOK, AllocRecordFromBump, Offsets
<1>2. NoOverlap'
  BY DEF IInv, TypeOK, AllocRecordFromBump, NoOverlap, BelowBump, Apart, Offsets
<1>3. BelowBump'
  <2>1. /\ (records \cup FreeRecords)' = records \cup FreeRecords \cup {bump}
        /\ nodes' = nodes
    BY DEF AllocRecordFromBump, FreeRecords
  <2>2. bump \in Nat /\ bump' = bump + RECORD_SLOT_SIZE
    BY DEF AllocRecordFromBump, IInv, TypeOK, Offsets
  <2>3. \A n \in nodes : n \in Nat
    BY DEF IInv, TypeOK
  <2>4. \A r \in records \cup FreeRecords : r \in Nat
    BY FreeBounds DEF IInv, TypeOK, FreeRecords
  <2> QED
    BY <2>1, <2>2, <2>3, <2>4 DEF IInv, BelowBump
<1>4. FreeIsApart'
  <2>1. /\ free' = free /\ nodes' = nodes /\ records' = records \cup {bump}
        /\ origin_len' = origin_len
    BY DEF AllocRecordFromBump
  <2>2. \A i \in 1 .. Len(free) :
          Apart(free[i], RECORD_SLOT_SIZE, bump, RECORD_SLOT_SIZE)
    BY FreeBounds DEF Apart
  <2> QED
    BY <2>1, <2>2 DEF IInv, FreeIsApart, Apart
<1>5. FreeListThreaded' /\ LoadAccepts'
  BY DEF IInv, AllocRecordFromBump, FreeListThreaded, LoadAccepts, Loaded,
         Fresh, NoHeader
<1> QED
  BY <1>1, <1>2, <1>3, <1>4, <1>5 DEF IInv

(* The record popped is the last one freed: what is left is a shorter list. *)
LEMMA AllocRecordFromFreeListStep == IInv /\ AllocRecordFromFreeList => IInv'
<1> SUFFICES ASSUME IInv, AllocRecordFromFreeList PROVE IInv'
  OBVIOUS
<1> USE SizesAssumption
<1> DEFINE n == Len(free)
<1>1. n \in Nat \ {0} /\ free_head = free[n]
  BY FreeBounds DEF IInv, TypeOK, FreeListThreaded, AllocRecordFromFreeList
<1>2. /\ free' \in Seq(Nat)
      /\ Len(free') = n - 1
      /\ \A i \in 1 .. n - 1 : free'[i] = free[i]
  <2>1. free' = SubSeq(free, 1, n - 1) /\ n - 1 \in Int
    BY <1>1 DEF AllocRecordFromFreeList
  <2>2. \A i \in 1 .. n - 1 : free[i] \in Nat
    BY FreeBounds
  <2> HIDE DEF n
  <2>3. /\ SubSeq(free, 1, n - 1) \in Seq(Nat)
        /\ Len(SubSeq(free, 1, n - 1)) = IF 1 <= n - 1 THEN n - 1 - 1 + 1 ELSE 0
        /\ \A i \in 1 .. n - 1 - 1 + 1 : SubSeq(free, 1, n - 1)[i] = free[1 + i - 1]
    BY <2>1, <2>2, SubSeqProperties
  <2> QED
    BY <1>1, <2>1, <2>3
<1>3. \A i \in 1 .. n : free[i] \in FreeRecords /\ free[i] \in Nat
  BY FreeBounds
<1>4. free_head' = IF n = 1 THEN ABSENT ELSE free[n - 1]
  <2>1. free_head' = word[free[n]]
    BY <1>1 DEF AllocRecordFromFreeList
  <2>2. word[free[n]] = IF n = 1 THEN ABSENT ELSE free[n - 1]
    <3>1. n \in 1 .. Len(free)
      BY <1>1
    <3> QED
      BY <3>1 DEF IInv, FreeListThreaded
  <2> QED
    BY <2>1, <2>2
<1>5. TypeOK'
  <2>1. free_head' \in Nat
    <3>1. CASE n = 1
      BY <3>1, <1>4 DEF ABSENT
    <3>2. CASE n # 1
      <4> HIDE DEF n
      <4>1. n - 1 \in 1 .. n
        BY <1>1, <3>2
      <4> QED
        BY <4>1, <3>2, <1>3, <1>4
    <3> QED
      BY <3>1, <3>2
  <2>2. records' \subseteq Nat
    BY <1>1, <1>3 DEF IInv, TypeOK, AllocRecordFromFreeList
  <2> QED
    BY <1>2, <2>1, <2>2 DEF IInv, TypeOK, AllocRecordFromFreeList
<1>6. NoOverlap'
  <2>1. /\ records' = records \cup {free[n]}
        /\ nodes' = nodes
    BY <1>1 DEF AllocRecordFromFreeList
  <2>2. \A r \in records : Apart(free[n], RECORD_SLOT_SIZE, r, RECORD_SLOT_SIZE)
    BY <1>1 DEF IInv, FreeIsApart
  <2>3. \A m \in nodes : Apart(free[n], RECORD_SLOT_SIZE, m, NODE_SIZE)
    BY <1>1 DEF IInv, FreeIsApart
  <2> QED
    BY <2>1, <2>2, <2>3 DEF IInv, NoOverlap, Apart
<1>7. BelowBump'
  <2>1. (records \cup FreeRecords)' \subseteq records \cup FreeRecords
    BY <1>1, <1>2, <1>3 DEF AllocRecordFromFreeList, FreeRecords
  <2> QED
    BY <2>1 DEF IInv, AllocRecordFromFreeList, BelowBump
<1>8. FreeIsApart'
  <2>1. /\ records' = records \cup {free[n]}
        /\ nodes' = nodes /\ origin_len' = origin_len
    BY <1>1 DEF AllocRecordFromFreeList
  <2>2. \A i \in 1 .. n - 1 : i \in 1 .. n /\ i # n
    BY <1>1
  <2>3. \A i \in 1 .. n - 1 :
          Apart(free[i], RECORD_SLOT_SIZE, free[n], RECORD_SLOT_SIZE)
    BY <1>1, <2>2 DEF IInv, FreeIsApart
  <2>4. /\ \A i, j \in 1 .. Len(free') : i # j =>
             Apart(free'[i], RECORD_SLOT_SIZE, free'[j], RECORD_SLOT_SIZE)
        /\ \A i \in 1 .. Len(free') : free'[i] < origin_len'
        /\ \A i \in 1 .. Len(free'), m \in nodes :
             Apart(free'[i], RECORD_SLOT_SIZE, m, NODE_SIZE)
    BY <1>2, <2>1, <2>2 DEF IInv, FreeIsApart
  <2>5. \A i \in 1 .. Len(free'), r \in records' :
             Apart(free'[i], RECORD_SLOT_SIZE, r, RECORD_SLOT_SIZE)
    BY <1>2, <2>1, <2>2, <2>3 DEF IInv, FreeIsApart
  <2> QED
    BY <2>1, <2>4, <2>5 DEF FreeIsApart, Apart
<1>9. FreeListThreaded'
  <2>1. free' = <<>> <=> n = 1
    BY <1>1, <1>2
  <2> QED
    BY <1>1, <1>2, <1>4, <2>1 DEF IInv, AllocRecordFromFreeList, FreeListThreaded
<1>10. LoadAccepts'
  BY DEF IInv, AllocRecordFromFreeList, LoadAccepts, Loaded, Fresh, NoHeader
<1> QED
  BY <1>5, <1>6, <1>7, <1>8, <1>9, <1>10 DEF IInv

(* The record freed becomes the new end of the list and links to the old.   *)
LEMMA FreeRecordStep ==
  ASSUME IInv, NEW r \in records, FreeRecord(r)
  PROVE  IInv'
<1> USE SizesAssumption
<1> DEFINE n == Len(free)
<1>1. /\ r \in Nat /\ r \in Offsets /\ r < origin_len
      /\ r # ABSENT
  <2>1. /\ r \in Nat /\ ROOT_OFFSET + NODE_SIZE <= r
        /\ r + RECORD_SLOT_SIZE <= bump
    BY DEF IInv, TypeOK, BelowBump
  <2> QED
    BY <2>1, Bounds DEF FreeRecord, Offsets, ABSENT
<1>2. /\ free' \in Seq(Nat)
      /\ n \in Nat /\ Len(free') = n + 1
      /\ \A i \in 1 .. n : free'[i] = free[i]
      /\ free'[n + 1] = r
  BY <1>1, FreeBounds, AppendProperties DEF FreeRecord, IInv, TypeOK
<1>3. TypeOK'
  BY <1>1, <1>2 DEF IInv, TypeOK, FreeRecord
<1>4. NoOverlap'
  BY DEF IInv, FreeRecord, NoOverlap
<1>5. BelowBump'
  <2>1. (records \cup FreeRecords)' \subseteq records \cup FreeRecords
    <3>1. ASSUME NEW i \in 1 .. Len(free') PROVE free'[i] \in records \cup FreeRecords
      <4>1. CASE i = n + 1
        BY <4>1, <1>2
      <4>2. CASE i \in 1 .. n
        BY <4>2, <1>2, FreeBounds
      <4> QED
        BY <4>1, <4>2, <1>2
    <3> QED
      BY <3>1 DEF FreeRecord, FreeRecords
  <2> QED
    BY <2>1 DEF IInv, FreeRecord, BelowBump
<1>6. FreeIsApart'
  <2>1. /\ records' = records \ {r}
        /\ nodes' = nodes /\ origin_len' = origin_len
    BY DEF FreeRecord
  <2>2. \A i \in 1 .. n : Apart(free[i], RECORD_SLOT_SIZE, r, RECORD_SLOT_SIZE)
    BY DEF IInv, FreeIsApart
  <2>3. \A q \in records' : Apart(r, RECORD_SLOT_SIZE, q, RECORD_SLOT_SIZE)
    BY <2>1 DEF IInv, NoOverlap
  <2>4. \A m \in nodes : Apart(r, RECORD_SLOT_SIZE, m, NODE_SIZE)
    BY DEF IInv, NoOverlap, Apart
  <2>5. \A i \in 1 .. Len(free') : i = n + 1 \/ i \in 1 .. n
    BY <1>2
  <2>6. \A i, j \in 1 .. Len(free') : i # j =>
          Apart(free'[i], RECORD_SLOT_SIZE, free'[j], RECORD_SLOT_SIZE)
    BY <1>2, <2>2, <2>5 DEF IInv, FreeIsApart, Apart
  <2>7. \A i \in 1 .. Len(free') : free'[i] < origin_len'
    BY <1>1, <1>2, <2>1, <2>5 DEF IInv, FreeIsApart
  <2>8. \A i \in 1 .. Len(free'), q \in records' :
          Apart(free'[i], RECORD_SLOT_SIZE, q, RECORD_SLOT_SIZE)
    BY <1>2, <2>1, <2>3, <2>5 DEF IInv, FreeIsApart
  <2>9. \A i \in 1 .. Len(free'), m \in nodes' :
          Apart(free'[i], RECORD_SLOT_SIZE, m, NODE_SIZE)
    BY <1>2, <2>1, <2>4, <2>5 DEF IInv, FreeIsApart
  <2> QED
    BY <2>6, <2>7, <2>8, <2>9 DEF FreeIsApart, Apart
<1>7. FreeListThreaded'
  <2>1. free_head' = free'[Len(free')] /\ free' # <<>>
    BY <1>2 DEF FreeRecord
  <2>2. ASSUME NEW i \in 1 .. n
        PROVE  word'[free'[i]] = IF i = 1 THEN ABSENT ELSE free'[i - 1]
    <3>1. free[i] # r /\ free[i] \in Offsets
      <4>1. Apart(free[i], RECORD_SLOT_SIZE, r, RECORD_SLOT_SIZE)
        BY DEF IInv, FreeIsApart
      <4>2. /\ free[i] \in Nat
            /\ free[i] + RECORD_SLOT_SIZE <= bump
        BY FreeBounds
      <4> QED
        BY <1>1, <4>1, <4>2, Bounds DEF Apart, Offsets
    <3>2. word'[free[i]] = word[free[i]]
      BY <3>1 DEF FreeRecord, IInv, TypeOK
    <3>3. i # 1 => i - 1 \in 1 .. n
      BY <1>2
    <3> QED
      BY <1>2, <3>2, <3>3 DEF IInv, FreeListThreaded
  <2>3. word'[free'[n + 1]] = IF n + 1 = 1 THEN ABSENT ELSE free'[n]
    <3>1. word'[r] = free_head
      BY <1>1 DEF FreeRecord, IInv, TypeOK
    <3>2. CASE n = 0
      <4>1. free = <<>>
        BY <3>2 DEF IInv, TypeOK
      <4> QED
        BY <1>2, <3>1, <3>2, <4>1 DEF IInv, FreeListThreaded
    <3>3. CASE n # 0
      <4>1. free # <<>> /\ n \in 1 .. n
        BY <1>2, <3>3
      <4> QED
        BY <1>2, <3>1, <3>3, <4>1 DEF IInv, FreeListThreaded
    <3> QED
      BY <3>2, <3>3
  <2>4. ASSUME NEW i \in 1 .. Len(free')
        PROVE  word'[free'[i]] = IF i = 1 THEN ABSENT ELSE free'[i - 1]
    <3>1. CASE i \in 1 .. n
      BY <3>1, <2>2
    <3>2. CASE i = n + 1
      BY <1>2, <3>2, <2>3
    <3> QED
      BY <1>2, <3>1, <3>2
  <2> QED
    BY <2>1, <2>4 DEF FreeListThreaded
<1>8. LoadAccepts'
  BY DEF IInv, FreeRecord, LoadAccepts, Loaded, Fresh, NoHeader
<1> QED
  BY <1>3, <1>4, <1>5, <1>6, <1>7, <1>8 DEF IInv

LEMMA WriteHeaderStep == IInv /\ WriteHeader => IInv'
<1> SUFFICES ASSUME IInv, WriteHeader PROVE IInv'
  OBVIOUS
<1> USE SizesAssumption
<1>1. TypeOK'
  BY Bounds DEF IInv, TypeOK, WriteHeader, Later, Current
<1>2. NoOverlap' /\ BelowBump'
  BY DEF IInv, WriteHeader, NoOverlap, BelowBump, FreeRecords
<1>3. origin_len <= origin_len' /\ origin_len' \in Nat
  BY Bounds DEF WriteHeader, Later
<1>4. FreeIsApart' /\ FreeListThreaded'
  <2>1. \A i \in 1 .. Len(free) : free[i] < origin_len'
    BY <1>3, FreeBounds, Bounds
  <2> QED
    BY <2>1 DEF IInv, WriteHeader, FreeIsApart, FreeListThreaded, Apart
<1>5. LoadAccepts'
  <2>1. free_head # ABSENT => free_head < origin_len'
    <3>1. CASE Len(free) = 0
      BY <3>1 DEF IInv, FreeListThreaded, TypeOK
    <3>2. CASE Len(free) # 0
      <4>1. Len(free) \in 1 .. Len(free)
        BY <3>2, FreeBounds
      <4>2. free_head = free[Len(free)]
        BY <3>2 DEF IInv, FreeListThreaded
      <4> QED
        BY <1>3, <4>1, <4>2, FreeBounds, Bounds
    <3> QED
      BY <3>1, <3>2
  <2>2. header' # NoHeader /\ header' = Current /\ bump >= ROOT_OFFSET + NODE_SIZE
    BY Bounds DEF WriteHeader, Current, NoHeader, IInv, BelowBump
  <2> QED
    BY <2>1, <2>2 DEF WriteHeader, LoadAccepts, Loaded, Current
<1> QED
  BY <1>1, <1>2, <1>4, <1>5 DEF IInv

LEMMA ResetStep == IInv /\ Reset => IInv'
<1> SUFFICES ASSUME IInv, Reset PROVE IInv'
  OBVIOUS
<1> USE SizesAssumption
<1>1. TypeOK'
  BY Bounds DEF IInv, TypeOK, Reset, Zeroed, Offsets, Later, Fresh, ABSENT
<1>2. NoOverlap' /\ BelowBump' /\ FreeIsApart' /\ FreeListThreaded'
  BY DEF Reset, NoOverlap, BelowBump, FreeIsApart, FreeListThreaded,
         FreeRecords, Fresh
<1>3. LoadAccepts'
  <2>1. header' = header /\ origin_len <= origin_len' /\ origin_len' \in Nat
    BY Bounds DEF Reset, Later
  <2>2. Loaded' = Loaded /\ Loaded.free_head \in Nat
    BY <2>1 DEF Loaded, Fresh, NoHeader, IInv, TypeOK, ABSENT
  <2> QED
    BY <2>1, <2>2, Bounds DEF IInv, LoadAccepts
<1> QED
  BY <1>1, <1>2, <1>3 DEF IInv

LEMMA ResetFailsStep == IInv /\ ResetFails => IInv'
<1> SUFFICES ASSUME IInv, ResetFails PROVE IInv'
  OBVIOUS
<1> USE SizesAssumption
<1>1. TypeOK'
  BY Bounds DEF IInv, TypeOK, ResetFails, Offsets, Fresh, ABSENT
<1>2. NoOverlap' /\ BelowBump' /\ FreeIsApart' /\ FreeListThreaded'
  BY DEF ResetFails, NoOverlap, BelowBump, FreeIsApart, FreeListThreaded,
         FreeRecords, Fresh
<1>3. LoadAccepts'
  BY DEF IInv, ResetFails, LoadAccepts, Loaded, Fresh, NoHeader
<1> QED
  BY <1>1, <1>2, <1>3 DEF IInv

LEMMA ReopenStep == IInv /\ Reopen => IInv'
<1> SUFFICES ASSUME IInv, Reopen PROVE IInv'
  OBVIOUS
<1>1. UNCHANGED vars
  BY DEF Reopen, Current, vars
<1> QED
  BY <1>1 DEF IInv, TypeOK, NoOverlap, BelowBump, FreeIsApart, FreeRecords,
              FreeListThreaded, LoadAccepts, Loaded, vars

LEMMA WriteSlotStep == IInv /\ WriteSlot => IInv'
<1> SUFFICES ASSUME IInv, WriteSlot PROVE IInv'
  OBVIOUS
<1> USE SizesAssumption
<1>1. PICK n \in nodes, i \in 0 .. NODE_SIZE - 1, w \in Words : WriteWords(n + i, <<w>>)
  BY DEF WriteSlot
<1>2. n \in Nat /\ n + NODE_SIZE <= bump
  BY DEF IInv, TypeOK, BelowBump
<1>3. n + i \in Nat /\ (n + i) + 1 <= bump /\ <<w>> \in [1 .. 1 -> Nat]
  BY <1>2, Bounds
<1>4. \A j \in 1 .. Len(free) : Apart(free[j], RECORD_SLOT_SIZE, n + i, 1)
  <2>1. \A j \in 1 .. Len(free) : Apart(free[j], RECORD_SLOT_SIZE, n, NODE_SIZE)
    BY DEF IInv, FreeIsApart
  <2>2. \A j \in 1 .. Len(free) : free[j] \in Nat
    BY FreeBounds
  <2>3. i \in Nat /\ i + 1 <= NODE_SIZE /\ NODE_SIZE \in Nat /\ RECORD_SLOT_SIZE \in Nat
    OBVIOUS
  <2> SUFFICES ASSUME NEW j \in 1 .. Len(free)
               PROVE  Apart(free[j], RECORD_SLOT_SIZE, n + i, 1)
    OBVIOUS
  <2>4. free[j] \in Nat /\ Apart(free[j], RECORD_SLOT_SIZE, n, NODE_SIZE)
    BY <2>1, <2>2
  <2> QED
    BY <1>2, <2>3, <2>4 DEF Apart
<1> QED
  BY <1>1, <1>3, <1>4, WriteInUseKeepsLinks

(* A run of words inside a record in use. *)
LEMMA WriteInRecord ==
  ASSUME IInv, NEW r \in records, NEW i \in Nat, NEW n \in Nat, i + n <= RECORD_SLOT_SIZE,
         NEW ws \in [1 .. n -> Words], WriteWords(r + i, ws)
  PROVE  IInv'
<1> USE SizesAssumption
<1>1. r \in Nat /\ r + RECORD_SLOT_SIZE <= bump
  BY DEF IInv, TypeOK, BelowBump
<1>2. r + i \in Nat /\ (r + i) + n <= bump /\ ws \in [1 .. n -> Nat]
  <2>1. bump \in Nat
    BY Bounds
  <2>2. (r + i) + n <= bump
    BY <1>1, <2>1
  <2>3. \A j \in 1 .. n : ws[j] \in Nat
    OBVIOUS
  <2>4. ws \in [1 .. n -> Nat]
    BY <2>3
  <2> QED
    BY <1>1, <2>2, <2>4
<1>3. \A j \in 1 .. Len(free) : Apart(free[j], RECORD_SLOT_SIZE, r + i, n)
  <2>1. \A j \in 1 .. Len(free) :
          Apart(free[j], RECORD_SLOT_SIZE, r, RECORD_SLOT_SIZE)
    BY DEF IInv, FreeIsApart
  <2>2. \A j \in 1 .. Len(free) : free[j] \in Nat
    BY FreeBounds
  <2> QED
    BY <1>1, <2>1, <2>2 DEF Apart
<1> QED
  BY <1>2, <1>3, WriteInUseKeepsLinks

LEMMA WriteRecordStep == IInv /\ WriteRecord => IInv'
<1> SUFFICES ASSUME IInv, WriteRecord PROVE IInv'
  OBVIOUS
<1> USE SizesAssumption
<1>1. PICK r \in records :
        \/ \E w \in Words : WriteWords(r, <<w>>)
        \/ \E n \in 1 .. RECORD_SLOT_SIZE - 1 : \E ws \in [1 .. n -> Words] :
             WriteWords(r + 1, ws)
  BY DEF WriteRecord
<1>2. CASE \E w \in Words : WriteWords(r, <<w>>)
  <2>1. PICK w \in Words : WriteWords(r, <<w>>)
    BY <1>2
  <2>2. r + 0 = r
    BY DEF IInv, TypeOK
  <2>3. <<w>> \in [1 .. 1 -> Words] /\ 0 \in Nat /\ 1 \in Nat /\ 0 + 1 <= RECORD_SLOT_SIZE
    OBVIOUS
  <2>4. WriteWords(r + 0, <<w>>)
    BY <2>1, <2>2
  <2> HIDE SizesAssumption
  <2> QED
    BY <2>3, <2>4, WriteInRecord
<1>3. CASE \E n \in 1 .. RECORD_SLOT_SIZE - 1 : \E ws \in [1 .. n -> Words] :
             WriteWords(r + 1, ws)
  BY <1>3, WriteInRecord
<1> QED
  BY <1>1, <1>2, <1>3

LEMMA StutterStep == IInv /\ UNCHANGED vars => IInv'
  BY DEF IInv, TypeOK, NoOverlap, BelowBump, FreeIsApart, FreeRecords,
         FreeListThreaded, LoadAccepts, Loaded, vars

(* The inductive invariant holds in every reachable state.                  *)
THEOREM InductiveInvariant == Spec => []IInv
<1>1. IInv /\ [Next]_vars => IInv'
  BY AllocNodeStep, AllocNodeFailsStep, AllocRecordFromBumpStep,
     AllocRecordFromFreeListStep, FreeRecordStep, WriteHeaderStep, ResetStep,
     ResetFailsStep, ReopenStep, WriteSlotStep, WriteRecordStep, StutterStep DEF Next
<1> QED
  BY <1>1, InitIInv, PTL DEF Spec

(* Every variable stays in its type, whatever the sizes.                    *)
THEOREM TypeCorrect == Spec => []TypeOK
<1>1. IInv => TypeOK
  BY DEF IInv
<1> QED
  BY <1>1, InductiveInvariant, PTL

(* TreeStrategy::new promises that nodes and records can never overlap: they *)
(* never do, for every node size, record size and order of the operations,   *)
(* as long as the strategy is not reopened from a stale header.              *)
THEOREM AllocationsNeverOverlap == Spec => []NoOverlap
<1>1. IInv => NoOverlap
  BY DEF IInv
<1> QED
  BY <1>1, InductiveInvariant, PTL

(* free_record and alloc_record keep the list threaded through the records.  *)
THEOREM FreeListStaysThreaded == Spec => []FreeListThreaded
<1>1. IInv => FreeListThreaded
  BY DEF IInv
<1> QED
  BY <1>1, InductiveInvariant, PTL

LEMMA HeadIsLastFreed ==
  ASSUME IInv, free_head # ABSENT
  PROVE  Len(free) \in 1 .. Len(free) /\ free_head = free[Len(free)]
  <1>1. free # <<>> /\ free_head = free[Len(free)]
    BY DEF IInv, FreeListThreaded
  <1>2. Len(free) # 0
    BY <1>1 DEF IInv, TypeOK
  <1> QED
    BY <1>1, <1>2, FreeBounds

(* alloc_record never hands out a span of which any part is in use.          *)
THEOREM RecordsAreHandedOutOnce == Spec => []NextRecordIsUnused
<1>1. IInv => NextRecordIsUnused
  <2> SUFFICES ASSUME IInv PROVE NextRecordIsUnused
    OBVIOUS
  <2>1. CASE free_head = ABSENT
    <3>1. NextRecord = bump
      BY <2>1 DEF NextRecord
    <3> QED
      BY <3>1 DEF IInv, BelowBump, NextRecordIsUnused, Apart
  <2>2. CASE free_head # ABSENT
    <3>1. NextRecord = free[Len(free)] /\ Len(free) \in 1 .. Len(free)
      BY <2>2, HeadIsLastFreed DEF NextRecord
    <3> QED
      BY <3>1 DEF IInv, FreeIsApart, NextRecordIsUnused
  <2> QED
    BY <2>1, <2>2
<1> QED
  BY <1>1, InductiveInvariant, PTL

(* load accepts every header ever written and alloc_record never meets a     *)
(* free list head past the end of the origin.                                *)
THEOREM CorruptionIsNeverReported == Spec => []NeverCorrupt
<1>1. IInv => NeverCorrupt
  <2> SUFFICES ASSUME IInv PROVE NeverCorrupt
    OBVIOUS
  <2>1. LoadAccepts
    BY DEF IInv
  <2>2. free_head # ABSENT => free_head < origin_len
    BY HeadIsLastFreed, FreeBounds
  <2> QED
    BY <2>1, <2>2 DEF NeverCorrupt
<1> QED
  BY <1>1, InductiveInvariant, PTL
=============================================================================
