------------------------ MODULE TreeStrategyProofs ------------------------
(***************************************************************************)
(* Facts about the storage format, for every depth, fanout and record      *)
(* size: what NodesTo computes (it is a recursive function, so its own     *)
(* equation comes first), how far a walk reaches, and what a write does to *)
(* the walks of all other paths.                                           *)
(*                                                                         *)
(* Induction is on sets of naturals: every one that is not empty has a     *)
(* least member, which the well-foundedness of the finite sets gives.      *)
(***************************************************************************)
EXTENDS TreeStrategy, FiniteSetTheorems, WellFoundedInduction, TLAPS

(***************************************************************************)
(* Induction.                                                              *)
(***************************************************************************)
(* A set of naturals with a member has a least one. *)
LEMMA LeastNat ==
  ASSUME NEW S \in SUBSET Nat, S # {}
  PROVE  \E n \in S : \A m \in S : n <= m
<1> DEFINE T == { 0 .. n : n \in S }
<1>1. T \subseteq FiniteSubsetsOf(Nat)
  <2> SUFFICES ASSUME NEW n \in S PROVE 0 .. n \in FiniteSubsetsOf(Nat)
    OBVIOUS
  <2>1. IsFiniteSet(0 .. n)
    BY FS_Interval
  <2> QED
    BY <2>1 DEF FiniteSubsetsOf
<1>2. PICK x \in T : \A y \in T : <<y, x>> \notin StrictSubsetOrdering(Nat)
  <2>1. T # {}
    OBVIOUS
  <2> HIDE DEF T
  <2> QED
    BY <1>1, <2>1, WFMin, FS_StrictSubsetOrderingWellFounded
<1>3. PICK n \in S : x = 0 .. n
  OBVIOUS
<1>4. ASSUME NEW m \in S, m < n PROVE FALSE
  <2>1. n \in 0 .. n /\ n \notin 0 .. m
    BY <1>4
  <2>2. 0 .. m \subseteq 0 .. n /\ 0 .. m # 0 .. n
    BY <1>4, <2>1
  <2>3. <<0 .. m, 0 .. n>> \in StrictSubsetOrdering(Nat)
    BY <2>2 DEF StrictSubsetOrdering
  <2>4. 0 .. m \in T
    OBVIOUS
  <2> QED
    BY <1>2, <1>3, <2>3, <2>4
<1> QED
  BY <1>4

(* Induction over 1 .. m, on a set. *)
LEMMA UpTo ==
  ASSUME NEW m \in Nat, NEW S,
         1 \in S, \A n \in 1 .. m - 1 : n \in S => n + 1 \in S
  PROVE  1 .. m \subseteq S
<1> DEFINE Missing == { n \in 1 .. m : n \notin S }
<1>1. SUFFICES ASSUME Missing # {} PROVE FALSE
  OBVIOUS
<1>2. PICK n \in Missing : \A k \in Missing : n <= k
  <2>1. Missing \in SUBSET Nat
    OBVIOUS
  <2> HIDE DEF Missing
  <2> QED
    BY <1>1, <2>1, LeastNat
<1>3. n # 1 /\ n - 1 \in 1 .. m - 1 /\ n - 1 \notin Missing
  BY <1>2
<1>4. n - 1 \in S
  BY <1>3
<1> QED
  BY <1>2, <1>3, <1>4

(***************************************************************************)
(* The walk to a path.                                                     *)
(***************************************************************************)
(* The child a walk goes on to from `node`, ABSENT from ABSENT. *)
StepDown(o, node, index) ==
  IF node = ABSENT THEN ABSENT
  ELSE IF ChildInBounds(o, ReadSlot(o, node, index))
       THEN ReadSlot(o, node, index) ELSE ABSENT

Walked(o, path, at, d) ==
  IF d = 1 THEN ROOT_OFFSET ELSE StepDown(o, at[d - 1], path[d - 1])

(* There is a function that satisfies the equation NodesTo chooses one of.  *)
LEMMA WalkExists ==
  ASSUME NEW o, NEW path, NEW m \in Nat \ {0}
  PROVE  \E at : at = [d \in 1 .. m |-> Walked(o, path, at, d)]
<1> DEFINE W(n, at) == at = [d \in 1 .. n |-> Walked(o, path, at, d)]
           S == { n \in 1 .. m : \E at : W(n, at) }
<1>1. 1 \in S
  <2>1. W(1, [d \in 1 .. 1 |-> ROOT_OFFSET])
    BY DEF Walked
  <2> QED
    BY <2>1
<1>2. ASSUME NEW n \in 1 .. m - 1, n \in S PROVE n + 1 \in S
  <2>1. PICK at : W(n, at)
    BY <1>2
  <2> DEFINE up == [d \in 1 .. n + 1 |->
                      IF d <= n THEN at[d] ELSE StepDown(o, at[n], path[n])]
  <2>2. ASSUME NEW d \in 1 .. n + 1 PROVE up[d] = Walked(o, path, up, d)
    <3>1. CASE d = 1
      BY <2>1, <3>1 DEF Walked
    <3>2. CASE d # 1 /\ d <= n
      <4>1. d - 1 \in 1 .. n /\ up[d - 1] = at[d - 1]
        BY <3>2
      <4> QED
        BY <2>1, <3>2, <4>1 DEF Walked
    <3>3. CASE d = n + 1
      <4>1. up[d - 1] = at[n] /\ d - 1 = n
        BY <3>3
      <4>2. up[d] = StepDown(o, at[n], path[n])
        BY <3>3
      <4> QED
        BY <3>3, <4>1, <4>2 DEF Walked
    <3> QED
      BY <3>1, <3>2, <3>3
  <2>3. W(n + 1, up)
    BY <2>2
  <2>4. \E above : W(n + 1, above)
    BY <2>3
  <2>5. n + 1 \in 1 .. m
    OBVIOUS
  <2> QED
    BY <2>4, <2>5
<1>3. 1 .. m \subseteq S
  <2> HIDE DEF S
  <2> QED
    BY <1>1, <1>2, UpTo
<1> QED
  BY <1>3

(* The equation of NodesTo. *)
LEMMA NodesToIs ==
  ASSUME NEW o, NEW path
  PROVE  NodesTo(o, path)
           = [d \in 1 .. DEPTH |-> Walked(o, path, NodesTo(o, path), d)]
<1>1. NodesTo(o, path)
        = CHOOSE at : at = [d \in 1 .. DEPTH |-> Walked(o, path, at, d)]
  BY DEF NodesTo, Walked, StepDown
<1>2. \E at : at = [d \in 1 .. DEPTH |-> Walked(o, path, at, d)]
  BY WalkExists, LayoutAssumption
<1> QED
  BY <1>1, <1>2

Header == [bump : Nat, free_head : Nat, record_count : Nat]
Origin == [header : Header, word : [0 .. MAX_OFFSET -> Nat], len : 0 .. MAX_OFFSET]

LEMMA Sizes ==
  /\ DEPTH \in Nat /\ DEPTH >= 1 /\ 1 \in 1 .. DEPTH /\ DEPTH \in 1 .. DEPTH
  /\ FANOUT \in Nat /\ FANOUT >= 1
  /\ NODE_SIZE \in Nat /\ NODE_SIZE = FANOUT + 1 /\ NODE_SIZE >= 2
  /\ RECORD_SLOT_SIZE \in Nat /\ RECORD_SLOT_SIZE >= 1
  /\ MAX_OFFSET \in Nat
  /\ ROOT_OFFSET = 1 /\ ABSENT = 0 /\ BITMAP_WORDS = 1
  /\ 1 + NODE_SIZE <= MAX_OFFSET
  /\ 1 \in 0 .. MAX_OFFSET
  /\ \A p \in Path, d \in 1 .. DEPTH : p[d] \in 0 .. FANOUT - 1
BY LayoutAssumption DEF NODE_SIZE, BITMAP_WORDS, ROOT_OFFSET, ABSENT, Path

(* One level of the walk at a time. *)
LEMMA WalkStep ==
  ASSUME NEW o, NEW path
  PROVE  /\ NodesTo(o, path)[1] = ROOT_OFFSET
         /\ \A d \in 1 .. DEPTH - 1 :
              NodesTo(o, path)[d + 1] = StepDown(o, NodesTo(o, path)[d], path[d])
<1> DEFINE at == NodesTo(o, path)
<1>1. at = [d \in 1 .. DEPTH |-> Walked(o, path, at, d)]
  BY NodesToIs
<1> HIDE DEF at
<1>2. at[1] = ROOT_OFFSET
  BY <1>1, Sizes DEF Walked
<1>3. ASSUME NEW d \in 1 .. DEPTH - 1
      PROVE  at[d + 1] = StepDown(o, at[d], path[d])
  <2>1. d + 1 \in 1 .. DEPTH /\ d + 1 # 1 /\ (d + 1) - 1 = d
    BY Sizes
  <2>2. at[d + 1] = Walked(o, path, at, d + 1)
    BY <1>1, <2>1
  <2> QED
    BY <2>1, <2>2 DEF Walked
<1> QED
  BY <1>2, <1>3 DEF at

(* Every node on the way is absent or fits into the offsets there are. *)
LEMMA WalkType ==
  ASSUME NEW o \in Origin, NEW path \in Path
  PROVE  \A d \in 1 .. DEPTH :
           /\ NodesTo(o, path)[d] \in Nat
           /\ NodesTo(o, path)[d] # ABSENT => NodesTo(o, path)[d] + NODE_SIZE <= MAX_OFFSET
<1> DEFINE at == NodesTo(o, path)
           S  == { d \in 1 .. DEPTH :
                     at[d] \in Nat /\ (at[d] # ABSENT => at[d] + NODE_SIZE <= MAX_OFFSET) }
<1>1. 1 \in S
  BY WalkStep, Sizes
<1>2. ASSUME NEW d \in 1 .. DEPTH - 1, d \in S PROVE d + 1 \in S
  <2>1. at[d + 1] = StepDown(o, at[d], path[d])
    BY WalkStep
  <2>2. at[d] \in Nat /\ (at[d] # ABSENT => at[d] + NODE_SIZE <= MAX_OFFSET)
    BY <1>2
  <2>3. d \in 1 .. DEPTH /\ d + 1 \in 1 .. DEPTH /\ path[d] \in 0 .. FANOUT - 1
    BY Sizes
  <2> HIDE DEF at
  <2>4. CASE at[d] = ABSENT
    BY <2>1, <2>3, <2>4, Sizes DEF StepDown
  <2>5. CASE at[d] # ABSENT
    <3>1. SlotPos(at[d], path[d]) \in 0 .. MAX_OFFSET
      BY <2>2, <2>3, <2>5, Sizes DEF SlotPos
    <3>2. ReadSlot(o, at[d], path[d]) \in Nat
      BY <3>1 DEF ReadSlot, Origin
    <3>3. o.len \in 0 .. MAX_OFFSET
      BY DEF Origin
    <3> QED
      BY <2>1, <2>3, <2>5, <3>2, <3>3, Sizes DEF StepDown, ChildInBounds
  <2> QED
    BY <2>4, <2>5
<1>3. 1 .. DEPTH \subseteq S
  <2> HIDE DEF S
  <2> QED
    BY <1>1, <1>2, UpTo, Sizes
<1> QED
  BY <1>3

(* Once a child is missing, everything below it is. *)
LEMMA AbsentBelow ==
  ASSUME NEW o, NEW path, NEW d \in 1 .. DEPTH, NodesTo(o, path)[d] = ABSENT
  PROVE  \A e \in 1 .. DEPTH : e >= d => NodesTo(o, path)[e] = ABSENT
<1> DEFINE at == NodesTo(o, path)
           S  == { e \in 1 .. DEPTH : e >= d => at[e] = ABSENT }
<1>1. 1 \in S
  BY WalkStep, Sizes
<1>2. ASSUME NEW e \in 1 .. DEPTH - 1, e \in S PROVE e + 1 \in S
  <2>1. at[e + 1] = StepDown(o, at[e], path[e])
    BY WalkStep
  <2>2. e + 1 \in 1 .. DEPTH
    BY Sizes
  <2> HIDE DEF at
  <2>3. CASE e >= d
    <3>1. at[e] = ABSENT
      BY <1>2, <2>3
    <3> QED
      BY <2>1, <2>2, <3>1 DEF StepDown
  <2>4. CASE e + 1 = d
    BY <2>2, <2>4 DEF at
  <2>5. CASE e + 1 < d
    BY <2>2, <2>5
  <2> QED
    BY <2>3, <2>4, <2>5
<1>3. 1 .. DEPTH \subseteq S
  <2> HIDE DEF S
  <2> QED
    BY <1>1, <1>2, UpTo, Sizes
<1> QED
  BY <1>3

(* Where Locate ends: the last node there is on the way. *)
RecordAt(o, path) ==
  IF NodesTo(o, path)[DEPTH] = ABSENT THEN ABSENT
  ELSE ReadSlot(o, NodesTo(o, path)[DEPTH], path[DEPTH])

LEMMA LocateIs ==
  ASSUME NEW o, NEW path
  PROVE  \E k \in 1 .. DEPTH :
           /\ \A d \in 1 .. k : NodesTo(o, path)[d] # ABSENT
           /\ \A d \in k + 1 .. DEPTH : NodesTo(o, path)[d] = ABSENT
           /\ Locate(o, path).node = NodesTo(o, path)[k]
           /\ Locate(o, path).index = path[k]
           /\ Locate(o, path).at_leaf <=> k = DEPTH
           /\ Locate(o, path).record_offset = RecordAt(o, path)
<1> DEFINE at == NodesTo(o, path)
           Last(d) == at[d] # ABSENT /\ (d = DEPTH \/ at[d + 1] = ABSENT)
           Ends == { d \in 1 .. DEPTH : d = DEPTH \/ at[d + 1] = ABSENT }
<1>1. PICK k \in Ends : \A d \in Ends : k <= d
  <2>1. DEPTH \in Ends /\ Ends \in SUBSET Nat
    BY Sizes
  <2> HIDE DEF Ends
  <2> QED
    BY <2>1, LeastNat
<1>2. k \in 1 .. DEPTH /\ (k = DEPTH \/ at[k + 1] = ABSENT)
  BY <1>1
<1>3. \A d \in 1 .. k : at[d] # ABSENT
  <2>1. SUFFICES ASSUME NEW d \in 1 .. k, at[d] = ABSENT PROVE FALSE
    OBVIOUS
  <2>2. d # 1
    BY <2>1, WalkStep, Sizes
  <2>3. d - 1 \in 1 .. DEPTH /\ (d - 1) + 1 = d /\ d - 1 < k
    BY <1>2, <2>2, Sizes
  <2>4. d - 1 \in Ends
    BY <2>1, <2>3
  <2> QED
    BY <1>1, <2>3, <2>4
<1>4. \A d \in k + 1 .. DEPTH : at[d] = ABSENT
  <2> SUFFICES ASSUME NEW d \in k + 1 .. DEPTH PROVE at[d] = ABSENT
    OBVIOUS
  <2>1. k + 1 \in 1 .. DEPTH /\ at[k + 1] = ABSENT /\ d \in 1 .. DEPTH /\ d >= k + 1
    BY <1>2, Sizes
  <2> QED
    BY <2>1, AbsentBelow
<1>5. Last(k) /\ k \in 1 .. DEPTH
  BY <1>2, <1>3
<1>6. ASSUME NEW d \in 1 .. DEPTH, Last(d) PROVE d = k
  <2>1. ~ d > k
    BY <1>2, <1>4, <1>6
  <2>2. ~ d < k
    <3>1. SUFFICES ASSUME d < k PROVE FALSE
      OBVIOUS
    <3>2. d + 1 \in 1 .. k /\ d # DEPTH
      BY <1>2, <3>1
    <3> QED
      BY <1>3, <1>6, <3>2
  <2> QED
    BY <1>2, <2>1, <2>2
<1>7. (CHOOSE d \in 1 .. DEPTH : Last(d)) = k
  <2> HIDE DEF Last
  <2> QED
    BY <1>5, <1>6
<1>8. (k = DEPTH) = (at[DEPTH] # ABSENT)
  BY <1>2, <1>3, <1>4, Sizes
<1> DEFINE depth == CHOOSE d \in 1 .. DEPTH : Last(d)
<1>9. Locate(o, path) =
        [node          |-> at[depth],
         index         |-> path[depth],
         at_leaf       |-> depth = DEPTH,
         record_offset |-> IF depth = DEPTH
                           THEN ReadSlot(o, at[depth], path[depth]) ELSE ABSENT]
  BY DEF Locate
<1> HIDE DEF depth
<1>11. depth = k
  BY <1>7 DEF depth
<1>12. /\ Locate(o, path).node = at[k]
       /\ Locate(o, path).index = path[k]
       /\ Locate(o, path).at_leaf <=> k = DEPTH
       /\ Locate(o, path).record_offset
            = IF k = DEPTH THEN ReadSlot(o, at[k], path[k]) ELSE ABSENT
  <2>1. Locate(o, path).node = at[k] /\ Locate(o, path).index = path[k]
    BY <1>9, <1>11
  <2>2. Locate(o, path).at_leaf <=> depth = DEPTH
    <3> DEFINE leaf == depth = DEPTH
    <3>1. Locate(o, path).at_leaf = leaf
      <4>1. Locate(o, path) =
              [node          |-> at[depth],
               index         |-> path[depth],
               at_leaf       |-> leaf,
               record_offset |-> IF depth = DEPTH
                                 THEN ReadSlot(o, at[depth], path[depth]) ELSE ABSENT]
        BY <1>9
      <4> HIDE DEF leaf
      <4> QED
        BY <4>1
    <3> QED
      BY <3>1
  <2>3. Locate(o, path).record_offset
          = IF depth = DEPTH THEN ReadSlot(o, at[depth], path[depth]) ELSE ABSENT
    BY <1>9
  <2> QED
    BY <1>11, <2>1, <2>2, <2>3
<1>10. RecordAt(o, path) = IF k = DEPTH THEN ReadSlot(o, at[k], path[k]) ELSE ABSENT
  BY <1>8 DEF RecordAt
<1> HIDE DEF at
<1> QED
  BY <1>2, <1>3, <1>4, <1>10, <1>12 DEF at

LEMMA RecordLocated ==
  ASSUME NEW o, NEW path
  PROVE  Locate(o, path).record_offset = RecordAt(o, path)
BY LocateIs

(* The nodes of a level depend on the path down to that level only. *)
LEMMA SharedWay ==
  ASSUME NEW o, NEW p, NEW q, NEW k \in 1 .. DEPTH,
         \A d \in 1 .. k - 1 : p[d] = q[d]
  PROVE  \A d \in 1 .. k : NodesTo(o, p)[d] = NodesTo(o, q)[d]
<1> DEFINE S == { d \in 1 .. k : NodesTo(o, p)[d] = NodesTo(o, q)[d] }
<1>1. 1 \in S
  BY WalkStep
<1>2. ASSUME NEW d \in 1 .. k - 1, d \in S PROVE d + 1 \in S
  <2>1. d \in 1 .. DEPTH - 1 /\ d + 1 \in 1 .. k /\ p[d] = q[d]
    BY Sizes
  <2>2. /\ NodesTo(o, p)[d + 1] = StepDown(o, NodesTo(o, p)[d], p[d])
        /\ NodesTo(o, q)[d + 1] = StepDown(o, NodesTo(o, q)[d], q[d])
    BY <2>1, WalkStep
  <2> QED
    BY <1>2, <2>1, <2>2
<1>3. 1 .. k \subseteq S
  <2>1. k \in Nat
    BY Sizes
  <2> HIDE DEF S
  <2> QED
    BY <1>1, <1>2, <2>1, UpTo
<1> QED
  BY <1>3

(***************************************************************************)
(* What writes do to walks.                                                *)
(***************************************************************************)
(* A write that leaves the slots on the way alone leaves the way alone.     *)
LEMMA WayKept ==
  ASSUME NEW o \in Origin, NEW w \in Origin, NEW path \in Path, NEW k \in 1 .. DEPTH,
         ~ CorruptPath(o, path), o.len <= w.len,
         \A d \in 1 .. k - 1 :
           NodesTo(o, path)[d] # ABSENT =>
             ReadSlot(w, NodesTo(o, path)[d], path[d])
               = ReadSlot(o, NodesTo(o, path)[d], path[d])
  PROVE  \A d \in 1 .. k : NodesTo(w, path)[d] = NodesTo(o, path)[d]
<1> DEFINE S == { d \in 1 .. k : NodesTo(w, path)[d] = NodesTo(o, path)[d] }
<1>1. 1 \in S
  BY WalkStep
<1>2. ASSUME NEW d \in 1 .. k - 1, d \in S PROVE d + 1 \in S
  <2> DEFINE node == NodesTo(o, path)[d]
             slot == ReadSlot(o, node, path[d])
  <2>1. d \in 1 .. DEPTH - 1 /\ d \in 1 .. DEPTH /\ d + 1 \in 1 .. k
    BY Sizes
  <2>2. /\ NodesTo(o, path)[d + 1] = StepDown(o, node, path[d])
        /\ NodesTo(w, path)[d + 1] = StepDown(w, node, path[d])
    BY <1>2, <2>1, WalkStep
  <2>3. node # ABSENT /\ slot # ABSENT => ChildInBounds(o, slot)
    BY <2>1 DEF CorruptPath
  <2>4. node # ABSENT => ReadSlot(w, node, path[d]) = slot
    OBVIOUS
  <2>5. node # ABSENT => slot \in Nat
    <3>1. node # ABSENT => SlotPos(node, path[d]) \in 0 .. MAX_OFFSET
      BY <2>1, WalkType, Sizes DEF SlotPos
    <3> QED
      BY <3>1 DEF ReadSlot, Origin
  <2>6. o.len \in Nat /\ w.len \in Nat
    BY DEF Origin
  <2> HIDE DEF node, slot
  <2>7. StepDown(w, node, path[d]) = StepDown(o, node, path[d])
    <3>1. CASE node = ABSENT
      BY <3>1 DEF StepDown
    <3>2. CASE node # ABSENT /\ slot = ABSENT
      BY <2>4, <3>2 DEF StepDown, slot
    <3>3. CASE node # ABSENT /\ slot # ABSENT
      BY <2>3, <2>4, <2>5, <2>6, <3>3, Sizes DEF StepDown, ChildInBounds, slot
    <3> QED
      BY <3>1, <3>2, <3>3
  <2> QED
    BY <2>1, <2>2, <2>7
<1>3. 1 .. k \subseteq S
  <2>1. k \in Nat
    BY Sizes
  <2> HIDE DEF S
  <2> QED
    BY <1>1, <1>2, <2>1, UpTo
<1> QED
  BY <1>3

(* A write that leaves every slot a path reads alone, the leaf slot too.    *)
LEMMA PathKept ==
  ASSUME NEW o \in Origin, NEW w \in Origin, NEW path \in Path,
         ~ CorruptPath(o, path), o.len <= w.len,
         \A d \in 1 .. DEPTH :
           NodesTo(o, path)[d] # ABSENT =>
             ReadSlot(w, NodesTo(o, path)[d], path[d])
               = ReadSlot(o, NodesTo(o, path)[d], path[d])
  PROVE  /\ \A d \in 1 .. DEPTH : NodesTo(w, path)[d] = NodesTo(o, path)[d]
         /\ RecordAt(w, path) = RecordAt(o, path)
         /\ ~ CorruptPath(w, path)
<1>1. \A d \in 1 .. DEPTH : NodesTo(w, path)[d] = NodesTo(o, path)[d]
  BY WayKept, Sizes
<1>2. RecordAt(w, path) = RecordAt(o, path)
  BY <1>1, Sizes DEF RecordAt
<1>3. ASSUME NEW d \in 1 .. DEPTH - 1,
             NodesTo(w, path)[d] # ABSENT,
             ReadSlot(w, NodesTo(w, path)[d], path[d]) # ABSENT
      PROVE  ChildInBounds(w, ReadSlot(w, NodesTo(w, path)[d], path[d]))
  <2> DEFINE node == NodesTo(o, path)[d]
             slot == ReadSlot(o, node, path[d])
  <2>1. d \in 1 .. DEPTH
    BY Sizes
  <2>2. NodesTo(w, path)[d] = node /\ ReadSlot(w, node, path[d]) = slot
    BY <1>1, <1>3, <2>1
  <2>3. ChildInBounds(o, slot)
    BY <1>3, <2>2 DEF CorruptPath
  <2>4. slot \in Nat
    <3>1. SlotPos(node, path[d]) \in 0 .. MAX_OFFSET
      BY <1>3, <2>1, <2>2, WalkType, Sizes DEF SlotPos
    <3> QED
      BY <3>1 DEF ReadSlot, Origin
  <2>5. o.len \in Nat /\ w.len \in Nat
    BY DEF Origin
  <2> HIDE DEF node, slot
  <2> QED
    BY <2>2, <2>3, <2>4, <2>5, Sizes DEF ChildInBounds
<1>4. ~ CorruptPath(w, path)
  BY <1>3 DEF CorruptPath
<1> QED
  BY <1>1, <1>2, <1>4

(* What a write does to an origin. *)
Written(o, w, pos, ws, size) ==
  /\ w \in Origin
  /\ w.header = o.header
  /\ o.len <= w.len /\ pos + size <= w.len
  /\ \A p \in 0 .. MAX_OFFSET :
       w.word[p] = IF pos <= p /\ p < pos + size
                   THEN ws[p - pos + 1] ELSE o.word[p]

LEMMA WriteWordsIs ==
  ASSUME NEW o \in Origin, NEW pos \in Nat, NEW size \in Nat,
         NEW ws, ws \in [1 .. size -> Nat], Len(ws) = size, pos + size <= MAX_OFFSET,
         NEW w, w = WriteWords(o, pos, ws)
  PROVE  Written(o, w, pos, ws, size)
<1> DEFINE word == [p \in 0 .. MAX_OFFSET |->
                      IF pos <= p /\ p < pos + size THEN ws[p - pos + 1] ELSE o.word[p]]
<1>1. w = [o EXCEPT !.word = word, !.len = Later(o.len, pos + size)]
  BY DEF WriteWords
<1>2. word \in [0 .. MAX_OFFSET -> Nat]
  <2> SUFFICES ASSUME NEW p \in 0 .. MAX_OFFSET
               PROVE  (IF pos <= p /\ p < pos + size
                       THEN ws[p - pos + 1] ELSE o.word[p]) \in Nat
    OBVIOUS
  <2>1. o.word[p] \in Nat
    BY DEF Origin
  <2>2. pos <= p /\ p < pos + size => p - pos + 1 \in 1 .. size
    OBVIOUS
  <2> QED
    BY <2>1, <2>2
<1>3. o.len \in 0 .. MAX_OFFSET
  BY DEF Origin
<1>4. /\ Later(o.len, pos + size) \in 0 .. MAX_OFFSET
      /\ o.len <= Later(o.len, pos + size) /\ pos + size <= Later(o.len, pos + size)
  BY <1>3, Sizes DEF Later
<1>5. \A p \in 0 .. MAX_OFFSET :
         word[p] = IF pos <= p /\ p < pos + size THEN ws[p - pos + 1] ELSE o.word[p]
  OBVIOUS
<1> HIDE DEF word
<1>6. w.word = word /\ w.len = Later(o.len, pos + size) /\ w.header = o.header
  BY <1>1 DEF Origin
<1>7. w \in Origin
  BY <1>1, <1>2, <1>4 DEF Origin
<1> QED
  BY <1>4, <1>5, <1>6, <1>7 DEF Written

LEMMA WriteWordIs ==
  ASSUME NEW o \in Origin, NEW pos \in Nat, NEW v \in Nat, pos + 1 <= MAX_OFFSET,
         NEW w, w = WriteWords(o, pos, <<v>>)
  PROVE  /\ w \in Origin
         /\ w.header = o.header
         /\ o.len <= w.len /\ pos + 1 <= w.len
         /\ w.word[pos] = v
         /\ \A p \in 0 .. MAX_OFFSET : p # pos => w.word[p] = o.word[p]
<1> DEFINE ws == <<v>>
<1>1. ws \in [1 .. 1 -> Nat] /\ Len(ws) = 1 /\ ws[1] = v
  OBVIOUS
<1>2. w = WriteWords(o, pos, ws)
  OBVIOUS
<1> HIDE DEF ws
<1>3. Written(o, w, pos, ws, 1)
  BY <1>1, <1>2, WriteWordsIs
<1>4. pos \in 0 .. MAX_OFFSET /\ pos - pos + 1 = 1
  BY Sizes
<1> QED
  BY <1>1, <1>3, <1>4 DEF Written

LEMMA ZeroNodeIs ==
  ASSUME NEW o \in Origin, NEW node \in Nat, node + NODE_SIZE <= MAX_OFFSET,
         NEW w, w = ZeroNode(o, node)
  PROVE  /\ w \in Origin
         /\ w.header = o.header
         /\ o.len <= w.len /\ node + NODE_SIZE <= w.len
         /\ \A p \in 0 .. MAX_OFFSET :
              w.word[p] = IF node <= p /\ p < node + NODE_SIZE THEN 0 ELSE o.word[p]
<1> DEFINE ws == [i \in 1 .. NODE_SIZE |-> 0]
<1>1. ws \in [1 .. NODE_SIZE -> Nat] /\ Len(ws) = NODE_SIZE
  BY Sizes
<1>2. \A i \in 1 .. NODE_SIZE : ws[i] = 0
  OBVIOUS
<1>3. w = WriteWords(o, node, ws)
  BY DEF ZeroNode
<1> HIDE DEF ws
<1>4. Written(o, w, node, ws, NODE_SIZE)
  BY <1>1, <1>3, WriteWordsIs, Sizes
<1>5. \A p \in 0 .. MAX_OFFSET :
        node <= p /\ p < node + NODE_SIZE => ws[p - node + 1] = 0
  BY <1>2, Sizes
<1> QED
  BY <1>4, <1>5 DEF Written

(***************************************************************************)
(* The tree as a whole: no child pointer is broken, and every node and     *)
(* every record has one way from the root to it.                           *)
(***************************************************************************)
NodesOf(o) ==
  (UNION { { NodesTo(o, p)[d] : d \in 1 .. DEPTH } : p \in Path }) \ {ABSENT}
RecordsOf(o) == { RecordAt(o, p) : p \in Path } \ {ABSENT}

Tree(o) ==
  /\ \A p \in Path : ~ CorruptPath(o, p)
  /\ \A p, q \in Path, d, e \in 1 .. DEPTH :
       NodesTo(o, p)[d] # ABSENT /\ NodesTo(o, p)[d] = NodesTo(o, q)[e] =>
         d = e /\ \A i \in 1 .. d - 1 : p[i] = q[i]
  /\ \A p, q \in Path :
       RecordAt(o, p) # ABSENT /\ RecordAt(o, p) = RecordAt(o, q) => p = q

NodesSpaced(o) ==
  \A m, n \in NodesOf(o) : m # n => Apart(m, NODE_SIZE, n, NODE_SIZE)

LEMMA InNodesOf ==
  ASSUME NEW o
  PROVE  \A n : n \in NodesOf(o) <=>
           n # ABSENT /\ \E p \in Path, d \in 1 .. DEPTH : n = NodesTo(o, p)[d]
BY DEF NodesOf

LEMMA SameNodes ==
  ASSUME NEW o, NEW w,
         \A p \in Path, d \in 1 .. DEPTH : NodesTo(w, p)[d] = NodesTo(o, p)[d]
  PROVE  NodesOf(w) = NodesOf(o)
<1>1. \A n : n \in NodesOf(w) => n \in NodesOf(o)
  <2> SUFFICES ASSUME NEW n, n \in NodesOf(w) PROVE n \in NodesOf(o)
    OBVIOUS
  <2>1. PICK p \in Path, d \in 1 .. DEPTH : n # ABSENT /\ n = NodesTo(w, p)[d]
    BY InNodesOf
  <2>2. n = NodesTo(o, p)[d]
    BY <2>1
  <2> QED
    BY <2>1, <2>2, InNodesOf
<1>2. \A n : n \in NodesOf(o) => n \in NodesOf(w)
  <2> SUFFICES ASSUME NEW n, n \in NodesOf(o) PROVE n \in NodesOf(w)
    OBVIOUS
  <2>1. PICK p \in Path, d \in 1 .. DEPTH : n # ABSENT /\ n = NodesTo(o, p)[d]
    BY InNodesOf
  <2>2. n = NodesTo(w, p)[d]
    BY <2>1
  <2> QED
    BY <2>1, <2>2, InNodesOf
<1> QED
  BY <1>1, <1>2

(* Two ways that read the same slot are one way down to it. *)
LEMMA SlotsAreOwn ==
  ASSUME NEW o \in Origin, Tree(o), NodesSpaced(o),
         NEW p \in Path, NEW q \in Path, NEW d \in 1 .. DEPTH, NEW e \in 1 .. DEPTH,
         NodesTo(o, p)[d] # ABSENT, NodesTo(o, q)[e] # ABSENT,
         SlotPos(NodesTo(o, p)[d], p[d]) = SlotPos(NodesTo(o, q)[e], q[e])
  PROVE  d = e /\ \A i \in 1 .. d : p[i] = q[i]
<1> DEFINE m == NodesTo(o, p)[d]
           n == NodesTo(o, q)[e]
<1>1. m \in Nat /\ n \in Nat /\ m \in NodesOf(o) /\ n \in NodesOf(o)
  BY WalkType, InNodesOf
<1>2. p[d] \in 0 .. FANOUT - 1 /\ q[e] \in 0 .. FANOUT - 1
  BY Sizes
<1>3. m + 1 + p[d] = n + 1 + q[e]
  BY Sizes DEF SlotPos
<1> HIDE DEF m, n
<1>4. m = n
  <2>1. ~ Apart(m, NODE_SIZE, n, NODE_SIZE)
    BY <1>1, <1>2, <1>3, Sizes DEF Apart
  <2> QED
    BY <1>1, <2>1 DEF NodesSpaced
<1>5. p[d] = q[e]
  BY <1>1, <1>2, <1>3, <1>4
<1>6. d = e /\ \A i \in 1 .. d - 1 : p[i] = q[i]
  BY <1>4 DEF Tree, m, n
<1> QED
  BY <1>5, <1>6

(* The walk of one path is what it was. *)
SameWay(o, w, p) ==
  /\ \A d \in 1 .. DEPTH : NodesTo(w, p)[d] = NodesTo(o, p)[d]
  /\ RecordAt(w, p) = RecordAt(o, p)
  /\ ~ CorruptPath(w, p)

(* A write that touches no slot in use leaves the tree as it is. *)
LEMMA SlotsKept ==
  ASSUME NEW o \in Origin, NEW w \in Origin, Tree(o), o.len <= w.len,
         \A p \in Path, d \in 1 .. DEPTH :
           NodesTo(o, p)[d] # ABSENT =>
             ReadSlot(w, NodesTo(o, p)[d], p[d]) = ReadSlot(o, NodesTo(o, p)[d], p[d])
  PROVE  /\ Tree(w)
         /\ \A p \in Path : SameWay(o, w, p)
         /\ NodesOf(w) = NodesOf(o)
         /\ RecordsOf(w) = RecordsOf(o)
<1>1. ASSUME NEW p \in Path PROVE SameWay(o, w, p)
  <2>1. ~ CorruptPath(o, p)
    BY DEF Tree
  <2> QED
    BY <2>1, PathKept DEF SameWay
<1>2. \A p \in Path, d \in 1 .. DEPTH : NodesTo(w, p)[d] = NodesTo(o, p)[d]
  BY <1>1 DEF SameWay
<1>3. \A p \in Path : RecordAt(w, p) = RecordAt(o, p)
  BY <1>1 DEF SameWay
<1>4. \A p \in Path : ~ CorruptPath(w, p)
  BY <1>1 DEF SameWay
<1>5. Tree(w)
  BY <1>2, <1>3, <1>4 DEF Tree
<1>6. NodesOf(w) = NodesOf(o)
  BY <1>2, SameNodes
<1>7. RecordsOf(w) = RecordsOf(o)
  BY <1>3 DEF RecordsOf
<1> QED
  BY <1>1, <1>5, <1>6, <1>7

(* A write of a leaf slot changes the record of its path and nothing else.  *)
LEMMA LeafWritten ==
  ASSUME NEW o \in Origin, NEW w \in Origin, Tree(o), NodesSpaced(o), o.len <= w.len,
         NEW q \in Path, NodesTo(o, q)[DEPTH] # ABSENT,
         NEW v \in Nat, v \notin RecordsOf(o),
         ReadSlot(w, NodesTo(o, q)[DEPTH], q[DEPTH]) = v,
         \A pos \in 0 .. MAX_OFFSET :
           pos # SlotPos(NodesTo(o, q)[DEPTH], q[DEPTH]) => w.word[pos] = o.word[pos]
  PROVE  /\ Tree(w)
         /\ \A p \in Path \ {q} : SameWay(o, w, p)
         /\ \A d \in 1 .. DEPTH : NodesTo(w, q)[d] = NodesTo(o, q)[d]
         /\ RecordAt(w, q) = v
         /\ NodesOf(w) = NodesOf(o)
<1> DEFINE slot == SlotPos(NodesTo(o, q)[DEPTH], q[DEPTH])
<1>1. \A p \in Path : ~ CorruptPath(o, p)
  BY DEF Tree
<1>2. ASSUME NEW p \in Path, NEW d \in 1 .. DEPTH, NodesTo(o, p)[d] # ABSENT,
             p # q \/ d # DEPTH
      PROVE  ReadSlot(w, NodesTo(o, p)[d], p[d]) = ReadSlot(o, NodesTo(o, p)[d], p[d])
  <2> DEFINE pos == SlotPos(NodesTo(o, p)[d], p[d])
  <2>1. pos # slot
    <3>1. SUFFICES ASSUME pos = slot PROVE FALSE
      OBVIOUS
    <3>2. d = DEPTH /\ \A i \in 1 .. DEPTH : p[i] = q[i]
      BY <1>2, <3>1, SlotsAreOwn, Sizes
    <3>3. p = q
      BY <3>2 DEF Path
    <3> QED
      BY <1>2, <3>2, <3>3
  <2>2. pos \in 0 .. MAX_OFFSET
    BY <1>2, WalkType, Sizes DEF SlotPos
  <2> QED
    BY <2>1, <2>2 DEF ReadSlot
<1>3. ASSUME NEW p \in Path \ {q} PROVE SameWay(o, w, p)
  BY <1>1, <1>2, PathKept DEF SameWay
<1>4. \A d \in 1 .. DEPTH : NodesTo(w, q)[d] = NodesTo(o, q)[d]
  <2>1. \A d \in 1 .. DEPTH - 1 : d \in 1 .. DEPTH /\ d # DEPTH
    BY Sizes
  <2> QED
    BY <1>1, <1>2, <2>1, WayKept, Sizes
<1>5. RecordAt(w, q) = v
  BY <1>4, Sizes DEF RecordAt
<1>6. ~ CorruptPath(w, q)
  <2> SUFFICES ASSUME NEW d \in 1 .. DEPTH - 1,
                      NodesTo(w, q)[d] # ABSENT,
                      ReadSlot(w, NodesTo(w, q)[d], q[d]) # ABSENT
               PROVE  ChildInBounds(w, ReadSlot(w, NodesTo(w, q)[d], q[d]))
    BY DEF CorruptPath
  <2> DEFINE child == ReadSlot(o, NodesTo(o, q)[d], q[d])
  <2>1. d \in 1 .. DEPTH /\ d # DEPTH
    BY Sizes
  <2>2. NodesTo(w, q)[d] = NodesTo(o, q)[d]
    BY <1>4, <2>1
  <2>3. ReadSlot(w, NodesTo(w, q)[d], q[d]) = child
    BY <1>2, <2>1, <2>2
  <2>4. ChildInBounds(o, child)
    BY <1>1, <2>2, <2>3 DEF CorruptPath
  <2>5. child \in Nat
    <3>1. SlotPos(NodesTo(o, q)[d], q[d]) \in 0 .. MAX_OFFSET
      BY <2>1, <2>2, WalkType, Sizes DEF SlotPos
    <3> QED
      BY <3>1 DEF ReadSlot, Origin
  <2>6. o.len \in Nat /\ w.len \in Nat
    BY DEF Origin
  <2> HIDE DEF child
  <2> QED
    BY <2>3, <2>4, <2>5, <2>6, Sizes DEF ChildInBounds
<1>7. \A p \in Path, d \in 1 .. DEPTH : NodesTo(w, p)[d] = NodesTo(o, p)[d]
  BY <1>3, <1>4 DEF SameWay
<1>8. \A p \in Path : RecordAt(w, p) = IF p = q THEN v ELSE RecordAt(o, p)
  BY <1>3, <1>5 DEF SameWay
<1>9. \A p \in Path : RecordAt(o, p) # ABSENT => RecordAt(o, p) # v
  BY DEF RecordsOf
<1>10. Tree(w)
  <2>1. \A p \in Path : ~ CorruptPath(w, p)
    BY <1>3, <1>6 DEF SameWay
  <2>2. \A p, r \in Path, d, e \in 1 .. DEPTH :
          NodesTo(w, p)[d] # ABSENT /\ NodesTo(w, p)[d] = NodesTo(w, r)[e] =>
            d = e /\ \A i \in 1 .. d - 1 : p[i] = r[i]
    BY <1>7 DEF Tree
  <2>3. \A p, r \in Path :
          RecordAt(w, p) # ABSENT /\ RecordAt(w, p) = RecordAt(w, r) => p = r
    BY <1>8, <1>9 DEF Tree
  <2> QED
    BY <2>1, <2>2, <2>3 DEF Tree
<1>11. NodesOf(w) = NodesOf(o)
  BY <1>7, SameNodes
<1> QED
  BY <1>3, <1>4, <1>5, <1>10, <1>11

(* A node that a slot on the way to q links in: the paths through that slot *)
(* reach it, and nothing below it; no other path changes.                   *)
LEMMA ChildLinked ==
  ASSUME NEW o \in Origin, NEW w \in Origin, Tree(o), NodesSpaced(o), o.len <= w.len,
         NEW q \in Path, NEW k \in 1 .. DEPTH - 1,
         NodesTo(o, q)[k] # ABSENT, ReadSlot(o, NodesTo(o, q)[k], q[k]) = ABSENT,
         NEW c \in Nat, c # ABSENT, c \notin NodesOf(o), c + NODE_SIZE <= w.len,
         \A i \in 0 .. FANOUT - 1 : ReadSlot(w, c, i) = ABSENT,
         ReadSlot(w, NodesTo(o, q)[k], q[k]) = c,
         \A pos \in 0 .. MAX_OFFSET :
           pos # SlotPos(NodesTo(o, q)[k], q[k]) => w.word[pos] = o.word[pos]
  PROVE  /\ Tree(w)
         /\ \A p \in Path : RecordAt(w, p) = RecordAt(o, p)
         /\ NodesOf(w) = NodesOf(o) \cup {c}
<1> DEFINE Through(p) == \A i \in 1 .. k : p[i] = q[i]
           slot == SlotPos(NodesTo(o, q)[k], q[k])
<1>0. /\ DEPTH \in Nat /\ k \in Nat /\ k \in 1 .. DEPTH /\ k + 1 \in 1 .. DEPTH /\ k # DEPTH
      /\ \A p \in Path : ~ CorruptPath(o, p)
  BY Sizes DEF Tree
<1>1. ASSUME NEW p \in Path, NEW d \in 1 .. DEPTH, NodesTo(o, p)[d] # ABSENT,
             d # k \/ ~ Through(p)
      PROVE  ReadSlot(w, NodesTo(o, p)[d], p[d]) = ReadSlot(o, NodesTo(o, p)[d], p[d])
  <2> DEFINE pos == SlotPos(NodesTo(o, p)[d], p[d])
  <2>1. pos # slot
    BY <1>0, <1>1, SlotsAreOwn
  <2>2. pos \in 0 .. MAX_OFFSET
    BY <1>1, WalkType, Sizes DEF SlotPos
  <2> QED
    BY <2>1, <2>2 DEF ReadSlot
<1>2. ASSUME NEW p \in Path, ~ Through(p) PROVE SameWay(o, w, p)
  BY <1>0, <1>1, <1>2, PathKept DEF SameWay
<1>3. ASSUME NEW p \in Path, Through(p)
      PROVE  /\ \A d \in 1 .. k : NodesTo(o, p)[d] = NodesTo(o, q)[d]
             /\ \A d \in 1 .. k : NodesTo(w, p)[d] = NodesTo(o, p)[d]
             /\ \A d \in k + 1 .. DEPTH : NodesTo(o, p)[d] = ABSENT
             /\ NodesTo(w, p)[k + 1] = c
             /\ \A d \in k + 2 .. DEPTH : NodesTo(w, p)[d] = ABSENT
             /\ ReadSlot(w, NodesTo(w, p)[k], p[k]) = c
  <2>1. \A d \in 1 .. k : NodesTo(o, p)[d] = NodesTo(o, q)[d]
    BY <1>0, <1>3, SharedWay
  <2>2. \A d \in 1 .. k : NodesTo(w, p)[d] = NodesTo(o, p)[d]
    <3>1. \A d \in 1 .. k - 1 : d \in 1 .. DEPTH /\ d # k
      BY <1>0
    <3> QED
      BY <1>0, <1>1, <3>1, WayKept
  <2>3. p[k] = q[k] /\ k \in 1 .. k /\ k \in 1 .. DEPTH - 1
    BY <1>0, <1>3
  <2>4. NodesTo(o, p)[k + 1] = ABSENT
    <3>1. NodesTo(o, p)[k + 1] = StepDown(o, NodesTo(o, q)[k], q[k])
      BY <2>1, <2>3, WalkStep
    <3> QED
      BY <3>1 DEF StepDown
  <2>5. NodesTo(w, p)[k + 1] = c
    <3>1. NodesTo(w, p)[k + 1] = StepDown(w, NodesTo(o, q)[k], q[k])
      BY <2>1, <2>2, <2>3, WalkStep
    <3> QED
      BY <3>1 DEF StepDown, ChildInBounds
  <2>6. \A d \in k + 1 .. DEPTH : NodesTo(o, p)[d] = ABSENT
    BY <1>0, <2>4, AbsentBelow
  <2>7. \A d \in k + 2 .. DEPTH : NodesTo(w, p)[d] = ABSENT
    <3>1. SUFFICES ASSUME NEW d \in k + 2 .. DEPTH PROVE NodesTo(w, p)[d] = ABSENT
      OBVIOUS
    <3>2. k + 1 \in 1 .. DEPTH - 1 /\ (k + 1) + 1 = k + 2 /\ k + 2 \in 1 .. DEPTH
          /\ d \in 1 .. DEPTH /\ d >= k + 2
      BY <1>0
    <3>3. NodesTo(w, p)[k + 2] = StepDown(w, c, p[k + 1])
      BY <2>5, <3>2, WalkStep
    <3>4. p[k + 1] \in 0 .. FANOUT - 1
      BY <1>0, Sizes
    <3>5. NodesTo(w, p)[k + 2] = ABSENT
      BY <3>3, <3>4 DEF StepDown
    <3> QED
      BY <3>2, <3>5, AbsentBelow
  <2>8. ReadSlot(w, NodesTo(w, p)[k], p[k]) = c
    BY <2>1, <2>2, <2>3
  <2> QED
    BY <2>1, <2>2, <2>5, <2>6, <2>7, <2>8
<1>4. ASSUME NEW p \in Path, NEW d \in 1 .. DEPTH
      PROVE  NodesTo(w, p)[d] = IF Through(p) /\ d = k + 1 THEN c ELSE NodesTo(o, p)[d]
  <2>1. CASE ~ Through(p)
    BY <1>2, <2>1 DEF SameWay
  <2>2. CASE Through(p)
    <3>1. d \in 1 .. k \/ d = k + 1 \/ d \in k + 2 .. DEPTH
      BY <1>0
    <3>2. d \in k + 2 .. DEPTH => d \in k + 1 .. DEPTH /\ d # k + 1
      BY <1>0
    <3>3. d \in 1 .. k => d # k + 1
      BY <1>0
    <3> HIDE DEF Through
    <3> QED
      BY <1>3, <2>2, <3>1, <3>2, <3>3
  <2> QED
    BY <2>1, <2>2
<1>5. ASSUME NEW p \in Path PROVE RecordAt(w, p) = RecordAt(o, p)
  <2>1. CASE ~ Through(p)
    BY <1>2, <2>1 DEF SameWay
  <2>2. CASE Through(p)
    <3>1. DEPTH \in k + 1 .. DEPTH
      BY <1>0, Sizes
    <3>2. RecordAt(o, p) = ABSENT
      BY <1>3, <2>2, <3>1 DEF RecordAt
    <3>3. RecordAt(w, p) = ABSENT
      <4>1. CASE k + 1 = DEPTH
        <5>1. RecordAt(w, p) = ReadSlot(w, c, p[DEPTH])
          BY <1>3, <2>2, <4>1 DEF RecordAt
        <5> QED
          BY <5>1, Sizes
      <4>2. CASE k + 1 # DEPTH
        <5>1. DEPTH \in k + 2 .. DEPTH
          BY <1>0, <4>2, Sizes
        <5> QED
          BY <1>3, <2>2, <5>1 DEF RecordAt
      <4> QED
        BY <4>1, <4>2
    <3> QED
      BY <3>2, <3>3
  <2> QED
    BY <2>1, <2>2
<1>6. ASSUME NEW p \in Path PROVE ~ CorruptPath(w, p)
  <2>1. CASE ~ Through(p)
    BY <1>2, <2>1 DEF SameWay
  <2>2. CASE Through(p)
    <3> SUFFICES ASSUME NEW d \in 1 .. DEPTH - 1,
                        NodesTo(w, p)[d] # ABSENT,
                        ReadSlot(w, NodesTo(w, p)[d], p[d]) # ABSENT
                 PROVE  ChildInBounds(w, ReadSlot(w, NodesTo(w, p)[d], p[d]))
      BY DEF CorruptPath
    <3>1. d \in 1 .. DEPTH /\ (d \in 1 .. k - 1 \/ d = k \/ d = k + 1 \/ d \in k + 2 .. DEPTH)
      BY <1>0
    <3>2. CASE d \in 1 .. k - 1
      <4> DEFINE child == ReadSlot(o, NodesTo(o, p)[d], p[d])
      <4>1. d # k /\ d \in 1 .. k
        BY <1>0, <3>2
      <4>2. NodesTo(w, p)[d] = NodesTo(o, p)[d]
        BY <1>3, <2>2, <4>1
      <4>3. ReadSlot(w, NodesTo(w, p)[d], p[d]) = child
        BY <1>1, <3>1, <4>1, <4>2
      <4>4. ChildInBounds(o, child)
        BY <1>0, <4>2, <4>3 DEF CorruptPath
      <4>5. child \in Nat
        <5>1. SlotPos(NodesTo(o, p)[d], p[d]) \in 0 .. MAX_OFFSET
          BY <3>1, <4>2, WalkType, Sizes DEF SlotPos
        <5> QED
          BY <5>1 DEF ReadSlot, Origin
      <4>6. o.len \in Nat /\ w.len \in Nat
        BY DEF Origin
      <4> HIDE DEF child
      <4> QED
        BY <4>3, <4>4, <4>5, <4>6, Sizes DEF ChildInBounds
    <3>3. CASE d = k
      BY <1>3, <2>2, <3>3 DEF ChildInBounds
    <3>4. CASE d = k + 1
      <4>1. ReadSlot(w, NodesTo(w, p)[d], p[d]) = ABSENT
        BY <1>3, <2>2, <3>1, <3>4, Sizes
      <4> QED
        BY <4>1
    <3>5. CASE d \in k + 2 .. DEPTH
      BY <1>3, <2>2, <3>5
    <3> QED
      BY <3>1, <3>2, <3>3, <3>4, <3>5
  <2> QED
    BY <2>1, <2>2
<1>7. \A p \in Path, d \in 1 .. DEPTH : NodesTo(o, p)[d] # c
  BY InNodesOf
<1>8. ASSUME NEW p \in Path, NEW r \in Path, NEW d \in 1 .. DEPTH, NEW e \in 1 .. DEPTH,
             NodesTo(w, p)[d] # ABSENT, NodesTo(w, p)[d] = NodesTo(w, r)[e]
      PROVE  d = e /\ \A i \in 1 .. d - 1 : p[i] = r[i]
  <2>1. CASE NodesTo(w, p)[d] = c
    <3>1. Through(p) /\ d = k + 1
      BY <1>4, <1>7, <2>1
    <3>2. Through(r) /\ e = k + 1
      BY <1>4, <1>7, <1>8, <2>1
    <3> QED
      BY <1>0, <3>1, <3>2
  <2>2. CASE NodesTo(w, p)[d] # c
    <3>1. NodesTo(w, p)[d] = NodesTo(o, p)[d] /\ NodesTo(w, r)[e] = NodesTo(o, r)[e]
      BY <1>4, <1>8, <2>2
    <3>2. NodesTo(o, p)[d] # ABSENT /\ NodesTo(o, p)[d] = NodesTo(o, r)[e]
      BY <1>8, <3>1
    <3> HIDE DEF Through, slot
    <3> QED
      BY <3>2 DEF Tree
  <2> QED
    BY <2>1, <2>2
<1>9. Tree(w)
  <2>1. \A p, r \in Path :
          RecordAt(w, p) # ABSENT /\ RecordAt(w, p) = RecordAt(w, r) => p = r
    BY <1>5 DEF Tree
  <2> QED
    BY <1>6, <1>8, <2>1 DEF Tree
<1>10. NodesOf(w) = NodesOf(o) \cup {c}
  <2>1. ASSUME NEW n, n \in NodesOf(w) PROVE n \in NodesOf(o) \cup {c}
    <3>1. PICK p \in Path, d \in 1 .. DEPTH : n # ABSENT /\ n = NodesTo(w, p)[d]
      BY <2>1, InNodesOf
    <3>2. n = c \/ n = NodesTo(o, p)[d]
      BY <1>4, <3>1
    <3> QED
      BY <3>1, <3>2, InNodesOf
  <2>2. ASSUME NEW n, n \in NodesOf(o) PROVE n \in NodesOf(w)
    <3>1. PICK p \in Path, d \in 1 .. DEPTH : n # ABSENT /\ n = NodesTo(o, p)[d]
      BY <2>2, InNodesOf
    <3>2. ~ (Through(p) /\ d = k + 1)
      <4>1. Through(p) /\ d = k + 1 => NodesTo(o, p)[d] = ABSENT
        <5>1. k + 1 \in k + 1 .. DEPTH
          BY <1>0
        <5> HIDE DEF Through
        <5> QED
          BY <1>3, <5>1
      <4> HIDE DEF Through
      <4> QED
        BY <3>1, <4>1
    <3>3. n = NodesTo(w, p)[d]
      BY <1>4, <3>1, <3>2
    <3> QED
      BY <3>1, <3>3, InNodesOf
  <2>3. c \in NodesOf(w)
    <3>1. Through(q) /\ NodesTo(w, q)[k + 1] = c
      BY <1>3
    <3> QED
      BY <1>0, <3>1, InNodesOf
  <2> QED
    BY <2>1, <2>2, <2>3
<1> QED
  BY <1>5, <1>9, <1>10

(* Below a root without children there is nothing. *)
LEMMA BareRoot ==
  ASSUME NEW o, \A i \in 0 .. FANOUT - 1 : ReadSlot(o, ROOT_OFFSET, i) = ABSENT
  PROVE  /\ Tree(o)
         /\ \A p \in Path : RecordAt(o, p) = ABSENT
         /\ NodesOf(o) = {ROOT_OFFSET}
         /\ RecordsOf(o) = {}
<1>1. ASSUME NEW p \in Path
      PROVE  /\ NodesTo(o, p)[1] = ROOT_OFFSET
             /\ \A d \in 2 .. DEPTH : NodesTo(o, p)[d] = ABSENT
             /\ ReadSlot(o, ROOT_OFFSET, p[1]) = ABSENT
  <2>1. NodesTo(o, p)[1] = ROOT_OFFSET
    BY WalkStep
  <2>2. ReadSlot(o, ROOT_OFFSET, p[1]) = ABSENT
    BY Sizes
  <2>3. ASSUME NEW d \in 2 .. DEPTH PROVE NodesTo(o, p)[d] = ABSENT
    <3>1. 1 \in 1 .. DEPTH - 1 /\ 2 \in 1 .. DEPTH /\ d \in 1 .. DEPTH /\ d >= 2
      BY Sizes
    <3>2. NodesTo(o, p)[1 + 1] = StepDown(o, NodesTo(o, p)[1], p[1])
      BY <3>1, WalkStep
    <3>3. NodesTo(o, p)[2] = ABSENT
      BY <2>1, <2>2, <3>2 DEF StepDown
    <3> QED
      BY <3>1, <3>3, AbsentBelow
  <2> QED
    BY <2>1, <2>2, <2>3
<1>2. ASSUME NEW p \in Path, NEW d \in 1 .. DEPTH
      PROVE  NodesTo(o, p)[d] = IF d = 1 THEN ROOT_OFFSET ELSE ABSENT
  <2>1. d # 1 => d \in 2 .. DEPTH
    BY Sizes
  <2> QED
    BY <1>1, <2>1
<1>3. ASSUME NEW p \in Path PROVE RecordAt(o, p) = ABSENT
  <2>1. NodesTo(o, p)[DEPTH] = ABSENT \/ DEPTH = 1
    BY <1>2, Sizes
  <2>2. DEPTH = 1 => RecordAt(o, p) = ABSENT
    BY <1>1 DEF RecordAt
  <2> QED
    BY <2>1, <2>2 DEF RecordAt
<1>4. ASSUME NEW p \in Path PROVE ~ CorruptPath(o, p)
  <2> SUFFICES ASSUME NEW d \in 1 .. DEPTH - 1,
                      NodesTo(o, p)[d] # ABSENT,
                      ReadSlot(o, NodesTo(o, p)[d], p[d]) # ABSENT
               PROVE  FALSE
    BY DEF CorruptPath
  <2>1. d \in 1 .. DEPTH
    BY Sizes
  <2>2. d = 1
    BY <1>2, <2>1
  <2> QED
    BY <1>1, <2>2
<1>5. ASSUME NEW p \in Path, NEW q \in Path, NEW d \in 1 .. DEPTH, NEW e \in 1 .. DEPTH,
             NodesTo(o, p)[d] # ABSENT, NodesTo(o, p)[d] = NodesTo(o, q)[e]
      PROVE  d = e /\ \A i \in 1 .. d - 1 : p[i] = q[i]
  <2>1. d = 1 /\ e = 1
    BY <1>2, <1>5, Sizes
  <2> QED
    BY <2>1
<1>6. Tree(o)
  BY <1>3, <1>4, <1>5 DEF Tree
<1>7. NodesOf(o) = {ROOT_OFFSET}
  <2>1. \A n : n \in NodesOf(o) => n = ROOT_OFFSET
    BY <1>2, InNodesOf
  <2>2. ROOT_OFFSET \in NodesOf(o)
    <3> DEFINE p == [d \in 1 .. DEPTH |-> 0]
    <3>1. p \in Path
      BY Sizes DEF Path
    <3> HIDE DEF p
    <3>2. NodesTo(o, p)[1] = ROOT_OFFSET
      BY WalkStep
    <3> QED
      BY <3>1, <3>2, InNodesOf, Sizes
  <2> QED
    BY <2>1, <2>2
<1>8. RecordsOf(o) = {}
  BY <1>3 DEF RecordsOf
<1> QED
  BY <1>3, <1>6, <1>7, <1>8

(***************************************************************************)
(* Bitmaps.                                                                *)
(***************************************************************************)
LEMMA BitIs ==
  Bit = [i \in 0 .. FANOUT - 1 |-> IF i = 0 THEN 1 ELSE 2 * Bit[i - 1]]
<1> DEFINE W(n, b) == b = [i \in 0 .. n - 1 |-> IF i = 0 THEN 1 ELSE 2 * b[i - 1]]
           S == { n \in 1 .. FANOUT : \E b : W(n, b) }
<1>1. 1 \in S
  <2>1. W(1, [i \in 0 .. 0 |-> 1])
    OBVIOUS
  <2>2. 1 \in 1 .. FANOUT
    BY Sizes
  <2> QED
    BY <2>1, <2>2
<1>2. ASSUME NEW n \in 1 .. FANOUT - 1, n \in S PROVE n + 1 \in S
  <2>1. PICK b : W(n, b)
    BY <1>2
  <2> DEFINE up == [i \in 0 .. n |-> IF i < n THEN b[i] ELSE 2 * b[n - 1]]
  <2>2. ASSUME NEW i \in 0 .. n
        PROVE  up[i] = IF i = 0 THEN 1 ELSE 2 * up[i - 1]
    <3>1. CASE i = 0
      BY <2>1, <3>1, Sizes
    <3>2. CASE i # 0 /\ i < n
      <4>1. i - 1 \in 0 .. n /\ i - 1 < n /\ i \in 0 .. n - 1 /\ up[i - 1] = b[i - 1]
        BY <3>2
      <4>2. b[i] = 2 * b[i - 1]
        BY <2>1, <3>2, <4>1
      <4> QED
        BY <3>2, <4>1, <4>2
    <3>3. CASE i = n
      <4>1. up[i - 1] = b[n - 1]
        BY <3>3
      <4> QED
        BY <3>3, <4>1
    <3> QED
      BY <3>1, <3>2, <3>3
  <2>3. W(n + 1, up)
    <3>1. (n + 1) - 1 = n
      OBVIOUS
    <3> QED
      BY <2>2, <3>1
  <2>4. \E c : W(n + 1, c)
    BY <2>3
  <2>5. n + 1 \in 1 .. FANOUT
    BY Sizes
  <2> QED
    BY <2>4, <2>5
<1>3. 1 .. FANOUT \subseteq S
  <2> HIDE DEF S
  <2> QED
    BY <1>1, <1>2, UpTo, Sizes
<1>4. \E b : b = [i \in 0 .. FANOUT - 1 |-> IF i = 0 THEN 1 ELSE 2 * b[i - 1]]
  <2>1. FANOUT \in S
    BY <1>3, Sizes
  <2> QED
    BY <2>1
<1>5. Bit = CHOOSE b : b = [i \in 0 .. FANOUT - 1 |-> IF i = 0 THEN 1 ELSE 2 * b[i - 1]]
  BY DEF Bit
<1> QED
  BY <1>4, <1>5

LEMMA BitStep ==
  /\ Bit[0] = 1
  /\ \A i \in 0 .. FANOUT - 2 : Bit[i + 1] = 2 * Bit[i]
  /\ \A i \in 0 .. FANOUT - 1 : Bit[i] \in Nat \ {0}
<1>1. Bit[0] = 1
  BY BitIs, Sizes
<1>2. ASSUME NEW i \in 0 .. FANOUT - 2 PROVE Bit[i + 1] = 2 * Bit[i]
  <2>1. i + 1 \in 0 .. FANOUT - 1 /\ i + 1 # 0 /\ (i + 1) - 1 = i
    BY Sizes
  <2> QED
    BY <2>1, BitIs
<1> DEFINE S == { n \in 1 .. FANOUT : Bit[n - 1] \in Nat \ {0} }
<1>3. 1 \in S
  BY <1>1, Sizes
<1>4. ASSUME NEW n \in 1 .. FANOUT - 1, n \in S PROVE n + 1 \in S
  <2>1. n - 1 \in 0 .. FANOUT - 2 /\ (n - 1) + 1 = n /\ (n + 1) - 1 = n
        /\ n + 1 \in 1 .. FANOUT
    BY Sizes
  <2>2. Bit[n] = 2 * Bit[n - 1]
    BY <1>2, <2>1
  <2>3. Bit[n - 1] \in Nat \ {0}
    BY <1>4
  <2> QED
    BY <2>1, <2>2, <2>3
<1>5. 1 .. FANOUT \subseteq S
  <2> HIDE DEF S
  <2> QED
    BY <1>3, <1>4, UpTo, Sizes
<1>6. ASSUME NEW i \in 0 .. FANOUT - 1 PROVE Bit[i] \in Nat \ {0}
  <2>1. i + 1 \in 1 .. FANOUT /\ (i + 1) - 1 = i
    BY Sizes
  <2>2. i + 1 \in S
    BY <1>5, <2>1
  <2> QED
    BY <2>1, <2>2
<1> QED
  BY <1>1, <1>2, <1>6

LEMMA Halved ==
  ASSUME NEW w \in Nat, NEW b \in Nat \ {0}
  PROVE  w \div (2 * b) = (w \div b) \div 2
OBVIOUS
(* w has bit i: what InBitmap asks of a bitmap word. *)
Has(w, i) == (w \div Bit[i]) % 2 = 1

(* Setting a bit that is clear sets it and no other. *)
LEMMA BitAdded ==
  ASSUME NEW w \in Nat, NEW i \in 0 .. FANOUT - 1, ~ Has(w, i)
  PROVE  /\ w + Bit[i] \in Nat
         /\ Has(w + Bit[i], i)
         /\ \A j \in 0 .. FANOUT - 1 : j # i => (Has(w + Bit[i], j) <=> Has(w, j))
<1> DEFINE v == w + Bit[i]
           Claim(j) ==
             /\ j <= i => v \div Bit[j] = (w \div Bit[j]) + Bit[i - j]
             /\ j > i  => v \div Bit[j] = w \div Bit[j]
           S == { n \in 1 .. FANOUT : Claim(n - 1) }
<1>0. /\ Bit[i] \in Nat \ {0} /\ v \in Nat
      /\ \A j \in 0 .. FANOUT - 1 : Bit[j] \in Nat \ {0}
      /\ \A j \in 0 .. FANOUT - 1 : w \div Bit[j] \in Nat /\ v \div Bit[j] \in Nat
  <2>1. \A j \in 0 .. FANOUT - 1 : Bit[j] \in Nat \ {0}
    BY BitStep
  <2> QED
    BY <2>1
<1>1. (w \div Bit[i]) % 2 = 0
  <2>1. w \div Bit[i] \in Nat
    BY <1>0
  <2>2. (w \div Bit[i]) % 2 # 1
    BY DEF Has
  <2> QED
    BY <2>1, <2>2
<1>2. 1 \in S
  <2>1. w \div 1 = w /\ v \div 1 = v
    BY <1>0
  <2>2. Claim(0)
    BY <2>1, BitStep
  <2> QED
    BY <2>2, Sizes
<1>3. ASSUME NEW n \in 1 .. FANOUT - 1, n \in S PROVE n + 1 \in S
  <2>1. /\ n - 1 \in 0 .. FANOUT - 2 /\ n - 1 \in 0 .. FANOUT - 1
        /\ (n - 1) + 1 = n /\ (n + 1) - 1 = n
        /\ n + 1 \in 1 .. FANOUT /\ n \in 0 .. FANOUT - 1 /\ n \in Nat
    BY Sizes
  <2>2. Bit[n] = 2 * Bit[n - 1]
    BY <2>1, BitStep
  <2>3. /\ w \div Bit[n] = (w \div Bit[n - 1]) \div 2
        /\ v \div Bit[n] = (v \div Bit[n - 1]) \div 2
    BY <1>0, <2>1, <2>2, Halved
  <2>4. Claim(n - 1)
    BY <1>3
  <2>5. CASE n <= i
    <3>1. i - n \in 0 .. FANOUT - 2 /\ (i - n) + 1 = i - (n - 1) /\ i - n \in 0 .. FANOUT - 1
      BY <2>1, <2>5, Sizes
    <3>2. Bit[i - (n - 1)] = 2 * Bit[i - n]
      BY <3>1, BitStep
    <3>3. v \div Bit[n - 1] = (w \div Bit[n - 1]) + 2 * Bit[i - n]
      BY <2>1, <2>4, <2>5, <3>2
    <3>4. w \div Bit[n - 1] \in Nat /\ Bit[i - n] \in Nat
      BY <1>0, <2>1, <3>1
    <3>5. v \div Bit[n] = (w \div Bit[n]) + Bit[i - n]
      <4> DEFINE a == w \div Bit[n - 1]
                 b == v \div Bit[n - 1]
                 c == Bit[i - n]
      <4>1. a \in Nat /\ c \in Nat /\ b = a + 2 * c
        BY <3>3, <3>4
      <4> HIDE DEF a, b, c
      <4>2. b \div 2 = (a \div 2) + c
        BY <4>1
      <4> QED
        BY <2>3, <4>2 DEF a, b, c
    <3> QED
      BY <2>1, <2>5, <3>5
  <2>6. CASE n = i + 1
    <3>1. n - 1 = i /\ i - (n - 1) = 0
      BY <2>6
    <3>2. v \div Bit[i] = (w \div Bit[i]) + 1
      BY <2>4, <3>1, BitStep
    <3>3. v \div Bit[n] = w \div Bit[n]
      <4> DEFINE a == w \div Bit[i]
                 b == v \div Bit[i]
      <4>1. a \in Nat /\ a % 2 = 0 /\ b = a + 1
        BY <1>0, <1>1, <3>2
      <4>2. w \div Bit[n] = a \div 2 /\ v \div Bit[n] = b \div 2
        BY <2>3, <3>1
      <4> HIDE DEF a, b
      <4> QED
        BY <4>1, <4>2
    <3> QED
      BY <2>1, <2>6, <3>3
  <2>7. CASE n > i + 1
    <3>1. v \div Bit[n - 1] = w \div Bit[n - 1]
      BY <2>1, <2>4, <2>7
    <3>2. v \div Bit[n] = w \div Bit[n]
      BY <2>3, <3>1
    <3> QED
      BY <2>1, <2>7, <3>2
  <2> QED
    BY <2>1, <2>5, <2>6, <2>7
<1>4. 1 .. FANOUT \subseteq S
  <2> HIDE DEF S
  <2> QED
    BY <1>2, <1>3, UpTo, Sizes
<1>5. ASSUME NEW j \in 0 .. FANOUT - 1 PROVE Claim(j)
  <2>1. j + 1 \in S /\ (j + 1) - 1 = j
    BY <1>4, Sizes
  <2> QED
    BY <2>1
<1>6. Has(v, i)
  <2>1. i - i = 0
    OBVIOUS
  <2>2. v \div Bit[i] = (w \div Bit[i]) + 1
    BY <1>5, <2>1, BitStep
  <2> DEFINE a == w \div Bit[i]
  <2>3. a \in Nat /\ a % 2 = 0
    BY <1>0, <1>1
  <2> HIDE DEF a
  <2>4. (a + 1) % 2 = 1
    BY <2>3
  <2> QED
    BY <2>2, <2>4 DEF Has, a
<1>7. ASSUME NEW j \in 0 .. FANOUT - 1, j # i PROVE Has(v, j) <=> Has(w, j)
  <2>1. CASE j > i
    BY <1>5, <2>1 DEF Has
  <2>2. CASE j < i
    <3>1. i - j - 1 \in 0 .. FANOUT - 2 /\ (i - j - 1) + 1 = i - j
          /\ i - j - 1 \in 0 .. FANOUT - 1
      BY <2>2, Sizes
    <3>2. Bit[i - j] = 2 * Bit[i - j - 1] /\ Bit[i - j - 1] \in Nat
      BY <3>1, BitStep
    <3>3. v \div Bit[j] = (w \div Bit[j]) + 2 * Bit[i - j - 1]
      BY <1>5, <2>2, <3>2
    <3> DEFINE a == w \div Bit[j]
               c == Bit[i - j - 1]
    <3>4. a \in Nat /\ c \in Nat
      BY <1>0, <3>2
    <3> HIDE DEF a, c
    <3>5. (a + 2 * c) % 2 = a % 2
      BY <3>4
    <3> QED
      BY <3>3, <3>5 DEF Has, a, c
  <2> QED
    BY <1>7, <2>1, <2>2
<1> QED
  BY <1>0, <1>6, <1>7

(* Clearing a bit that is set clears it and no other. *)
LEMMA BitTaken ==
  ASSUME NEW w \in Nat, NEW i \in 0 .. FANOUT - 1, Has(w, i)
  PROVE  /\ w - Bit[i] \in Nat
         /\ ~ Has(w - Bit[i], i)
         /\ \A j \in 0 .. FANOUT - 1 : j # i => (Has(w - Bit[i], j) <=> Has(w, j))
<1> DEFINE b == Bit[i]
           v == w - b
<1>1. b \in Nat \ {0}
  BY BitStep
<1>2. w \div b \in Nat /\ (w \div b) % 2 = 1
  BY <1>1 DEF Has
<1>3. w >= b
  <2> HIDE DEF b
  <2>1. w < b => w \div b = 0
    BY <1>1
  <2> QED
    BY <1>1, <1>2, <2>1
<1>4. v \in Nat /\ w = v + b
  <2> HIDE DEF b
  <2> QED
    BY <1>1, <1>3
<1>5. w \div b = (v \div b) + 1
  <2> HIDE DEF b, v
  <2> QED
    BY <1>1, <1>4
<1>6. ~ Has(v, i)
  <2> DEFINE q == v \div b
  <2>1. q \in Nat /\ (q + 1) % 2 = 1
    <3>1. v \div b \in Nat
      <4> HIDE DEF b, v
      <4> QED
        BY <1>1, <1>4
    <3> QED
      BY <1>2, <1>5, <3>1
  <2> HIDE DEF q
  <2>2. q % 2 # 1
    BY <2>1
  <2> QED
    BY <2>2 DEF Has, q
<1> HIDE DEF v
<1>7. \A j \in 0 .. FANOUT - 1 : j # i => (Has(v + Bit[i], j) <=> Has(v, j))
  BY <1>4, <1>6, BitAdded
<1> QED
  BY <1>4, <1>6, <1>7 DEF v
(* The second write of write_slot touches the bitmap word, in which it sets *)
(* or clears the bit of the slot and no other.                              *)
BitWritten(o, w, node, index, value) ==
  /\ w \in Origin
  /\ w.header = o.header
  /\ o.len <= w.len
  /\ \A p \in 0 .. MAX_OFFSET : p # node => w.word[p] = o.word[p]
  /\ Has(w.word[node], index) <=> value # ABSENT
  /\ \A i \in 0 .. FANOUT - 1 :
       i # index => (Has(w.word[node], i) <=> Has(o.word[node], i))

LEMMA WriteSlotBitIs ==
  ASSUME NEW o \in Origin, NEW slot \in [node : Nat, index : 0 .. FANOUT - 1],
         NEW value \in Nat, slot.node + 1 <= MAX_OFFSET,
         NEW w, w = WriteSlotBit(o, slot, value)
  PROVE  BitWritten(o, w, slot.node, slot.index, value)
<1> DEFINE node == slot.node
           i    == slot.index
           old  == o.word[node]
           rest == IF Has(old, i) THEN old - Bit[i] ELSE old
           new  == IF value = ABSENT THEN rest ELSE rest + Bit[i]
<1>1. node \in Nat /\ i \in 0 .. FANOUT - 1 /\ node \in 0 .. MAX_OFFSET
  BY Sizes
<1>2. old \in Nat
  BY <1>1 DEF Origin
<1>3. w = WriteWords(o, node, <<new>>)
  BY DEF WriteSlotBit, InBitmap, Has
<1> HIDE DEF node, i, old
<1>4. /\ rest \in Nat /\ ~ Has(rest, i)
      /\ \A j \in 0 .. FANOUT - 1 : j # i => (Has(rest, j) <=> Has(old, j))
  <2>1. CASE Has(old, i)
    <3>1. rest = old - Bit[i]
      BY <2>1
    <3> HIDE DEF rest
    <3> QED
      BY <1>1, <1>2, <2>1, <3>1, BitTaken
  <2>2. CASE ~ Has(old, i)
    <3>1. rest = old
      BY <2>2
    <3> HIDE DEF rest
    <3> QED
      BY <1>2, <2>2, <3>1
  <2> QED
    BY <2>1, <2>2
<1> HIDE DEF rest
<1>5. /\ new \in Nat
      /\ Has(new, i) <=> value # ABSENT
      /\ \A j \in 0 .. FANOUT - 1 : j # i => (Has(new, j) <=> Has(old, j))
  <2>1. CASE value = ABSENT
    <3>1. new = rest
      BY <2>1
    <3> HIDE DEF new
    <3> QED
      BY <1>4, <2>1, <3>1
  <2>2. CASE value # ABSENT
    <3>1. new = rest + Bit[i]
      BY <2>2
    <3>2. /\ rest + Bit[i] \in Nat
          /\ Has(rest + Bit[i], i)
          /\ \A j \in 0 .. FANOUT - 1 : j # i => (Has(rest + Bit[i], j) <=> Has(rest, j))
      BY <1>1, <1>4, BitAdded
    <3> HIDE DEF new
    <3> QED
      BY <1>4, <2>2, <3>1, <3>2
  <2> QED
    BY <2>1, <2>2
<1> HIDE DEF new
<1>6. /\ w \in Origin /\ w.header = o.header /\ o.len <= w.len
      /\ w.word[node] = new
      /\ \A p \in 0 .. MAX_OFFSET : p # node => w.word[p] = o.word[p]
  <2>1. node + 1 <= MAX_OFFSET
    BY DEF node
  <2> QED
    BY <1>1, <1>3, <1>5, <2>1, WriteWordIs
<1> QED
  BY <1>5, <1>6 DEF BitWritten, node, i, old
(***************************************************************************)
(* Writes by region.                                                       *)
(***************************************************************************)
(* w is o after a write into lo .. lo + size - 1. *)
Wrote(o, w, lo, size) ==
  /\ w \in Origin
  /\ w.header = o.header
  /\ o.len <= w.len
  /\ \A p \in 0 .. MAX_OFFSET : p < lo \/ lo + size <= p => w.word[p] = o.word[p]

Stored(o) == { p \in Path : RecordAt(o, p) # ABSENT }

SameTree(o, w) ==
  /\ Tree(w)
  /\ \A p \in Path : SameWay(o, w, p)
  /\ NodesOf(w) = NodesOf(o)
  /\ RecordsOf(w) = RecordsOf(o)
  /\ Stored(w) = Stored(o)

LEMMA NodeType ==
  ASSUME NEW o \in Origin
  PROVE  \A m \in NodesOf(o) : m \in Nat /\ m # ABSENT /\ m + NODE_SIZE <= MAX_OFFSET
BY WalkType, InNodesOf

LEMMA RecordType ==
  ASSUME NEW o \in Origin
  PROVE  /\ \A p \in Path : RecordAt(o, p) \in Nat
         /\ \A r \in RecordsOf(o) : r \in Nat /\ r # ABSENT
<1>1. ASSUME NEW p \in Path PROVE RecordAt(o, p) \in Nat
  <2> DEFINE m == NodesTo(o, p)[DEPTH]
  <2>1. m \in Nat /\ (m # ABSENT => m + NODE_SIZE <= MAX_OFFSET)
    BY WalkType, Sizes
  <2>2. p[DEPTH] \in 0 .. FANOUT - 1
    BY Sizes
  <2> HIDE DEF m
  <2>3. m # ABSENT => SlotPos(m, p[DEPTH]) \in 0 .. MAX_OFFSET
    BY <2>1, <2>2, Sizes DEF SlotPos
  <2>4. m # ABSENT => ReadSlot(o, m, p[DEPTH]) \in Nat
    BY <2>3 DEF ReadSlot, Origin
  <2> QED
    BY <2>4, Sizes DEF RecordAt, m
<1> QED
  BY <1>1 DEF RecordsOf

LEMMA SlotsKeptSame ==
  ASSUME NEW o \in Origin, NEW w \in Origin, Tree(o), o.len <= w.len,
         \A m \in NodesOf(o), i \in 0 .. FANOUT - 1 : ReadSlot(w, m, i) = ReadSlot(o, m, i)
  PROVE  SameTree(o, w)
<1>1. \A p \in Path, d \in 1 .. DEPTH :
        NodesTo(o, p)[d] # ABSENT =>
          ReadSlot(w, NodesTo(o, p)[d], p[d]) = ReadSlot(o, NodesTo(o, p)[d], p[d])
  BY InNodesOf, Sizes
<1>2. /\ Tree(w)
      /\ \A p \in Path : SameWay(o, w, p)
      /\ NodesOf(w) = NodesOf(o)
      /\ RecordsOf(w) = RecordsOf(o)
  BY <1>1, SlotsKept
<1>3. Stored(w) = Stored(o)
  BY <1>2 DEF Stored, SameWay
<1> QED
  BY <1>2, <1>3 DEF SameTree

(* A write outside of the nodes. *)
LEMMA ApartKept ==
  ASSUME NEW o \in Origin, Tree(o), NEW lo \in Nat, NEW size \in Nat, NEW w,
         Wrote(o, w, lo, size),
         \A m \in NodesOf(o) : Apart(m, NODE_SIZE, lo, size)
  PROVE  /\ SameTree(o, w)
         /\ \A m \in NodesOf(o), i \in 0 .. FANOUT - 1 :
              /\ ReadSlot(w, m, i) = ReadSlot(o, m, i)
              /\ InBitmap(w, m, i) <=> InBitmap(o, m, i)
<1>1. ASSUME NEW m \in NodesOf(o), NEW p \in Nat, m <= p, p < m + NODE_SIZE
      PROVE  w.word[p] = o.word[p]
  <2>1. m \in Nat /\ m + NODE_SIZE <= MAX_OFFSET
    BY NodeType
  <2>2. p \in 0 .. MAX_OFFSET /\ (p < lo \/ lo + size <= p)
    BY <1>1, <2>1, Sizes DEF Apart
  <2> QED
    BY <2>2 DEF Wrote
<1>2. ASSUME NEW m \in NodesOf(o), NEW i \in 0 .. FANOUT - 1
      PROVE  /\ ReadSlot(w, m, i) = ReadSlot(o, m, i)
             /\ InBitmap(w, m, i) <=> InBitmap(o, m, i)
  <2>1. m \in Nat
    BY NodeType
  <2>2. w.word[m] = o.word[m]
    BY <1>1, <2>1, Sizes
  <2>3. w.word[SlotPos(m, i)] = o.word[SlotPos(m, i)]
    BY <1>1, <2>1, Sizes DEF SlotPos
  <2> QED
    BY <2>2, <2>3 DEF ReadSlot, InBitmap
<1> QED
  BY <1>2, SlotsKeptSame DEF Wrote

(* A write of the bitmap of a node. *)
LEMMA BitKept ==
  ASSUME NEW o \in Origin, Tree(o), NodesSpaced(o), NEW node \in NodesOf(o),
         NEW index \in 0 .. FANOUT - 1, NEW value, NEW w,
         BitWritten(o, w, node, index, value)
  PROVE  /\ SameTree(o, w)
         /\ Wrote(o, w, node, 1)
         /\ \A m \in NodesOf(o), i \in 0 .. FANOUT - 1 :
              /\ ReadSlot(w, m, i) = ReadSlot(o, m, i)
              /\ ~ (m = node /\ i = index) => (InBitmap(w, m, i) <=> InBitmap(o, m, i))
         /\ InBitmap(w, node, index) <=> value # ABSENT
<1>1. node \in Nat
  BY NodeType
<1>2. Wrote(o, w, node, 1)
  BY <1>1 DEF BitWritten, Wrote
<1>3. ASSUME NEW m \in NodesOf(o), m # node
      PROVE  w.word[m] = o.word[m]
  <2>1. m \in 0 .. MAX_OFFSET
    BY NodeType, Sizes
  <2> QED
    BY <1>3, <2>1 DEF BitWritten
<1>4. ASSUME NEW m \in NodesOf(o), NEW i \in 0 .. FANOUT - 1
      PROVE  ReadSlot(w, m, i) = ReadSlot(o, m, i)
  <2>1. m \in Nat /\ m + NODE_SIZE <= MAX_OFFSET
    BY NodeType
  <2>2. m # node => Apart(m, NODE_SIZE, node, NODE_SIZE)
    BY DEF NodesSpaced
  <2>3. SlotPos(m, i) \in 0 .. MAX_OFFSET /\ SlotPos(m, i) # node
    BY <1>1, <2>1, <2>2, Sizes DEF SlotPos, Apart
  <2> QED
    BY <2>3 DEF BitWritten, ReadSlot
<1>5. ASSUME NEW m \in NodesOf(o), NEW i \in 0 .. FANOUT - 1, ~ (m = node /\ i = index)
      PROVE  InBitmap(w, m, i) <=> InBitmap(o, m, i)
  <2>1. CASE m = node
    BY <1>5, <2>1 DEF BitWritten, InBitmap, Has
  <2>2. CASE m # node
    BY <1>3, <2>2 DEF InBitmap
  <2> QED
    BY <2>1, <2>2
<1>6. InBitmap(w, node, index) <=> value # ABSENT
  BY DEF BitWritten, InBitmap, Has
<1>7. SameTree(o, w)
  <2>1. w \in Origin /\ o.len <= w.len
    BY DEF BitWritten
  <2> QED
    BY <1>4, <2>1, SlotsKeptSame
<1> QED
  BY <1>2, <1>4, <1>5, <1>6, <1>7

(* A slot is told by its position. *)
LEMMA SlotPosOwn ==
  ASSUME NEW o \in Origin, NodesSpaced(o), NEW m \in NodesOf(o), NEW n \in NodesOf(o),
         NEW i \in 0 .. FANOUT - 1, NEW j \in 0 .. FANOUT - 1,
         SlotPos(m, i) = SlotPos(n, j)
  PROVE  m = n /\ i = j
<1>1. m \in Nat /\ n \in Nat
  BY NodeType
<1>2. m + 1 + i = n + 1 + j
  BY Sizes DEF SlotPos
<1>3. m = n
  <2>1. ~ Apart(m, NODE_SIZE, n, NODE_SIZE)
    BY <1>1, <1>2, Sizes DEF Apart
  <2> QED
    BY <2>1 DEF NodesSpaced
<1> QED
  BY <1>1, <1>2, <1>3

(* A write of a slot keeps every bitmap and every other slot. *)
LEMMA SlotWritten ==
  ASSUME NEW o \in Origin, NodesSpaced(o), NEW node \in NodesOf(o),
         NEW index \in 0 .. FANOUT - 1, NEW w,
         Wrote(o, w, SlotPos(node, index), 1)
  PROVE  \A m \in NodesOf(o), i \in 0 .. FANOUT - 1 :
           /\ ~ (m = node /\ i = index) => ReadSlot(w, m, i) = ReadSlot(o, m, i)
           /\ InBitmap(w, m, i) <=> InBitmap(o, m, i)
<1> SUFFICES ASSUME NEW m \in NodesOf(o), NEW i \in 0 .. FANOUT - 1
             PROVE  /\ ~ (m = node /\ i = index) => ReadSlot(w, m, i) = ReadSlot(o, m, i)
                    /\ InBitmap(w, m, i) <=> InBitmap(o, m, i)
  OBVIOUS
<1>1. /\ m \in Nat /\ m + NODE_SIZE <= MAX_OFFSET
      /\ node \in Nat /\ node + NODE_SIZE <= MAX_OFFSET
  BY NodeType
<1>2. m # node => Apart(m, NODE_SIZE, node, NODE_SIZE)
  BY DEF NodesSpaced
<1>3. w.word[m] = o.word[m]
  <2>1. m \in 0 .. MAX_OFFSET
        /\ (m < SlotPos(node, index) \/ SlotPos(node, index) + 1 <= m)
    BY <1>1, <1>2, Sizes DEF SlotPos, Apart
  <2> QED
    BY <2>1 DEF Wrote
<1>4. ASSUME ~ (m = node /\ i = index) PROVE ReadSlot(w, m, i) = ReadSlot(o, m, i)
  <2>1. SlotPos(m, i) # SlotPos(node, index)
    BY <1>4, SlotPosOwn
  <2>2. SlotPos(m, i) \in 0 .. MAX_OFFSET /\ SlotPos(node, index) \in Nat
    BY <1>1, Sizes DEF SlotPos
  <2>3. SlotPos(m, i) < SlotPos(node, index) \/ SlotPos(node, index) + 1 <= SlotPos(m, i)
    BY <2>1, <2>2
  <2> QED
    BY <2>2, <2>3 DEF Wrote, ReadSlot
<1> QED
  BY <1>3, <1>4 DEF InBitmap
(***************************************************************************)
(* The free list and the spans below bump.                                 *)
(***************************************************************************)
(* The free list: f[1] was freed first, f[n] is its head. *)
Chain(o, head, n, f) ==
  /\ head = IF n = 0 THEN ABSENT ELSE f[n]
  /\ \A i \in 1 .. n : f[i] < o.len /\ o.word[f[i]] = IF i = 1 THEN ABSENT ELSE f[i - 1]

(* The spans in use and the free ones lie below bump, apart from each other. *)
Laid(bump, nodes, records, n, f) ==
  /\ ROOT_OFFSET + NODE_SIZE <= bump /\ bump <= MAX_OFFSET
  /\ \A m \in nodes : ROOT_OFFSET <= m /\ m + NODE_SIZE <= bump
  /\ \A r \in records : ROOT_OFFSET <= r /\ r + RECORD_SLOT_SIZE <= bump
  /\ \A i \in 1 .. n : ROOT_OFFSET <= f[i] /\ f[i] + RECORD_SLOT_SIZE <= bump
  /\ \A m, k \in nodes : m # k => Apart(m, NODE_SIZE, k, NODE_SIZE)
  /\ \A r, s \in records : r # s => Apart(r, RECORD_SLOT_SIZE, s, RECORD_SLOT_SIZE)
  /\ \A i, j \in 1 .. n : i # j => Apart(f[i], RECORD_SLOT_SIZE, f[j], RECORD_SLOT_SIZE)
  /\ \A r \in records, i \in 1 .. n : Apart(r, RECORD_SLOT_SIZE, f[i], RECORD_SLOT_SIZE)
  /\ \A m \in nodes, r \in records : Apart(m, NODE_SIZE, r, RECORD_SLOT_SIZE)
  /\ \A m \in nodes, i \in 1 .. n : Apart(m, NODE_SIZE, f[i], RECORD_SLOT_SIZE)

LEMMA ChainKept ==
  ASSUME NEW o \in Origin, NEW head, NEW n \in Nat, NEW f \in [1 .. n -> Nat],
         Chain(o, head, n, f), NEW lo \in Nat, NEW size \in Nat, NEW w,
         Wrote(o, w, lo, size),
         \A i \in 1 .. n : Apart(f[i], RECORD_SLOT_SIZE, lo, size)
  PROVE  Chain(w, head, n, f)
<1>1. ASSUME NEW i \in 1 .. n
      PROVE  f[i] < w.len /\ w.word[f[i]] = o.word[f[i]]
  <2>1. f[i] \in Nat /\ o.len \in 0 .. MAX_OFFSET /\ w.len \in Nat
    BY DEF Origin, Wrote
  <2>2. f[i] < o.len /\ o.len <= w.len
    BY DEF Chain, Wrote
  <2>3. f[i] \in 0 .. MAX_OFFSET
    BY <2>1, <2>2, Sizes
  <2>4. f[i] < lo \/ lo + size <= f[i]
    BY <2>1, Sizes DEF Apart
  <2> QED
    BY <2>1, <2>2, <2>3, <2>4 DEF Wrote
<1> QED
  BY <1>1 DEF Chain

(* Fewer spans in use, a higher bump. *)
LEMMA LaidFewer ==
  ASSUME NEW b \in Nat, NEW c \in Nat, NEW N \in SUBSET Nat, NEW R \in SUBSET Nat,
         NEW n \in Nat, NEW f \in [1 .. n -> Nat], Laid(b, N, R, n, f),
         NEW M \in SUBSET N, NEW Q \in SUBSET R, b <= c, c <= MAX_OFFSET
  PROVE  Laid(c, M, Q, n, f)
<1>1. ROOT_OFFSET + NODE_SIZE <= c
  BY Sizes DEF Laid
<1>2. \A m \in M : m \in N /\ m \in Nat /\ ROOT_OFFSET <= m /\ m + NODE_SIZE <= c
  BY Sizes DEF Laid
<1>3. \A r \in Q : r \in R /\ r \in Nat /\ ROOT_OFFSET <= r /\ r + RECORD_SLOT_SIZE <= c
  BY Sizes DEF Laid
<1>4. \A i \in 1 .. n : ROOT_OFFSET <= f[i] /\ f[i] + RECORD_SLOT_SIZE <= c
  BY Sizes DEF Laid
<1> QED
  BY <1>1, <1>2, <1>3, <1>4 DEF Laid

(* A node allocated at bump. *)
LEMMA LaidNode ==
  ASSUME NEW b \in Nat, NEW N \in SUBSET Nat, NEW R \in SUBSET Nat,
         NEW n \in Nat, NEW f \in [1 .. n -> Nat], Laid(b, N, R, n, f),
         b + NODE_SIZE <= MAX_OFFSET
  PROVE  Laid(b + NODE_SIZE, N \cup {b}, R, n, f)
<1>1. ROOT_OFFSET <= b /\ ROOT_OFFSET + NODE_SIZE <= b + NODE_SIZE
  BY Sizes DEF Laid
<1>2. \A m \in N : m \in Nat /\ ROOT_OFFSET <= m /\ m + NODE_SIZE <= b + NODE_SIZE
                   /\ m + NODE_SIZE <= b /\ Apart(m, NODE_SIZE, b, NODE_SIZE)
                   /\ Apart(b, NODE_SIZE, m, NODE_SIZE)
  BY Sizes DEF Laid, Apart
<1>3. \A r \in R : /\ ROOT_OFFSET <= r /\ r + RECORD_SLOT_SIZE <= b + NODE_SIZE
                   /\ Apart(b, NODE_SIZE, r, RECORD_SLOT_SIZE)
  BY Sizes DEF Laid, Apart
<1>4. \A i \in 1 .. n : /\ ROOT_OFFSET <= f[i] /\ f[i] + RECORD_SLOT_SIZE <= b + NODE_SIZE
                        /\ Apart(b, NODE_SIZE, f[i], RECORD_SLOT_SIZE)
  BY Sizes DEF Laid, Apart
<1>5. \A m \in N \cup {b} : ROOT_OFFSET <= m /\ m + NODE_SIZE <= b + NODE_SIZE
  BY <1>1, <1>2, Sizes
<1>6. \A m, k \in N \cup {b} : m # k => Apart(m, NODE_SIZE, k, NODE_SIZE)
  BY <1>2 DEF Laid
<1>7. \A m \in N \cup {b}, r \in R : Apart(m, NODE_SIZE, r, RECORD_SLOT_SIZE)
  BY <1>3 DEF Laid
<1>8. \A m \in N \cup {b}, i \in 1 .. n : Apart(m, NODE_SIZE, f[i], RECORD_SLOT_SIZE)
  BY <1>4 DEF Laid
<1> QED
  BY <1>1, <1>3, <1>4, <1>5, <1>6, <1>7, <1>8 DEF Laid

(* A record allocated at bump. *)
LEMMA LaidRecord ==
  ASSUME NEW b \in Nat, NEW N \in SUBSET Nat, NEW R \in SUBSET Nat,
         NEW n \in Nat, NEW f \in [1 .. n -> Nat], Laid(b, N, R, n, f),
         b + RECORD_SLOT_SIZE <= MAX_OFFSET
  PROVE  Laid(b + RECORD_SLOT_SIZE, N, R \cup {b}, n, f)
<1>1. ROOT_OFFSET <= b /\ ROOT_OFFSET + NODE_SIZE <= b + RECORD_SLOT_SIZE
  BY Sizes DEF Laid
<1>2. \A m \in N : m \in Nat /\ ROOT_OFFSET <= m /\ m + NODE_SIZE <= b + RECORD_SLOT_SIZE
                   /\ Apart(m, NODE_SIZE, b, RECORD_SLOT_SIZE)
  BY Sizes DEF Laid, Apart
<1>3. \A r \in R : /\ r \in Nat /\ ROOT_OFFSET <= r
                   /\ r + RECORD_SLOT_SIZE <= b + RECORD_SLOT_SIZE
                   /\ Apart(b, RECORD_SLOT_SIZE, r, RECORD_SLOT_SIZE)
                   /\ Apart(r, RECORD_SLOT_SIZE, b, RECORD_SLOT_SIZE)
  BY Sizes DEF Laid, Apart
<1>4. \A i \in 1 .. n : /\ ROOT_OFFSET <= f[i]
                        /\ f[i] + RECORD_SLOT_SIZE <= b + RECORD_SLOT_SIZE
                        /\ Apart(b, RECORD_SLOT_SIZE, f[i], RECORD_SLOT_SIZE)
  BY Sizes DEF Laid, Apart
<1>5. \A r \in R \cup {b} : ROOT_OFFSET <= r /\ r + RECORD_SLOT_SIZE <= b + RECORD_SLOT_SIZE
  BY <1>1, <1>3, Sizes
<1>6. \A r, s \in R \cup {b} : r # s => Apart(r, RECORD_SLOT_SIZE, s, RECORD_SLOT_SIZE)
  BY <1>3 DEF Laid
<1>7. \A m \in N, r \in R \cup {b} : Apart(m, NODE_SIZE, r, RECORD_SLOT_SIZE)
  BY <1>2 DEF Laid
<1>8. \A r \in R \cup {b}, i \in 1 .. n : Apart(r, RECORD_SLOT_SIZE, f[i], RECORD_SLOT_SIZE)
  BY <1>4 DEF Laid
<1> QED
  BY <1>1, <1>2, <1>4, <1>5, <1>6, <1>7, <1>8, Sizes DEF Laid

(* A record popped from the free list. *)
LEMMA LaidPop ==
  ASSUME NEW b \in Nat, NEW N \in SUBSET Nat, NEW R \in SUBSET Nat,
         NEW n \in Nat, NEW f \in [1 .. n -> Nat], Laid(b, N, R, n, f), n # 0,
         NEW o, NEW head, Chain(o, head, n, f)
  PROVE  \E g \in [1 .. n - 1 -> Nat] :
           /\ Laid(b, N, R \cup {head}, n - 1, g)
           /\ Chain(o, o.word[head], n - 1, g)
<1> DEFINE g == [i \in 1 .. n - 1 |-> f[i]]
<1>1. g \in [1 .. n - 1 -> Nat] /\ n \in 1 .. n /\ head = f[n] /\ head \in Nat
  BY DEF Chain
<1>2. \A i \in 1 .. n - 1 : g[i] = f[i] /\ i \in 1 .. n /\ i # n
  OBVIOUS
<1> HIDE DEF g
<1>3. Chain(o, o.word[head], n - 1, g)
  <2>1. o.word[head] = IF n = 1 THEN ABSENT ELSE f[n - 1]
    BY <1>1 DEF Chain
  <2>2. n # 1 => n - 1 \in 1 .. n - 1
    BY <1>1
  <2>3. o.word[head] = IF n - 1 = 0 THEN ABSENT ELSE g[n - 1]
    BY <1>1, <1>2, <2>1, <2>2
  <2>4. ASSUME NEW i \in 1 .. n - 1
        PROVE  g[i] < o.len /\ o.word[g[i]] = IF i = 1 THEN ABSENT ELSE g[i - 1]
    <3>1. i # 1 => i - 1 \in 1 .. n - 1
      OBVIOUS
    <3>2. f[i] < o.len /\ o.word[f[i]] = IF i = 1 THEN ABSENT ELSE f[i - 1]
      BY <1>2 DEF Chain
    <3> QED
      BY <1>2, <3>1, <3>2
  <2> QED
    BY <2>3, <2>4 DEF Chain
<1>4. Laid(b, N, R \cup {head}, n - 1, g)
  <2>1. \A r \in R : Apart(r, RECORD_SLOT_SIZE, head, RECORD_SLOT_SIZE)
                     /\ Apart(head, RECORD_SLOT_SIZE, r, RECORD_SLOT_SIZE)
    BY <1>1 DEF Laid, Apart
  <2>2. \A r \in R \cup {head} : ROOT_OFFSET <= r /\ r + RECORD_SLOT_SIZE <= b
    BY <1>1 DEF Laid
  <2>3. \A r, s \in R \cup {head} : r # s => Apart(r, RECORD_SLOT_SIZE, s, RECORD_SLOT_SIZE)
    BY <2>1 DEF Laid
  <2>4. \A m \in N, r \in R \cup {head} : Apart(m, NODE_SIZE, r, RECORD_SLOT_SIZE)
    BY <1>1 DEF Laid
  <2>5. \A r \in R \cup {head}, i \in 1 .. n - 1 :
          Apart(r, RECORD_SLOT_SIZE, g[i], RECORD_SLOT_SIZE)
    BY <1>1, <1>2 DEF Laid
  <2> QED
    BY <1>2, <2>2, <2>3, <2>4, <2>5 DEF Laid
<1> QED
  BY <1>1, <1>3, <1>4

(* A record pushed on the free list. *)
LEMMA LaidPush ==
  ASSUME NEW b \in Nat, NEW N \in SUBSET Nat, NEW R \in SUBSET Nat,
         NEW n \in Nat, NEW f \in [1 .. n -> Nat], Laid(b, N, R, n, f),
         NEW o, NEW head, Chain(o, head, n, f),
         NEW r \in R, r < o.len, o.word[r] = head
  PROVE  \E g \in [1 .. n + 1 -> Nat] :
           Laid(b, N, R \ {r}, n + 1, g) /\ Chain(o, r, n + 1, g)
<1> DEFINE g == [i \in 1 .. n + 1 |-> IF i <= n THEN f[i] ELSE r]
<1>1. g \in [1 .. n + 1 -> Nat] /\ r \in Nat
  OBVIOUS
<1>2. /\ \A i \in 1 .. n + 1 : i \in 1 .. n \/ i = n + 1
      /\ \A i \in 1 .. n : g[i] = f[i] /\ i # n + 1
      /\ g[n + 1] = r /\ n + 1 \in 1 .. n + 1 /\ n + 1 # 0
  OBVIOUS
<1> HIDE DEF g
<1>3. Chain(o, r, n + 1, g)
  <2>1. r = IF n + 1 = 0 THEN ABSENT ELSE g[n + 1]
    BY <1>2
  <2>2. ASSUME NEW i \in 1 .. n + 1
        PROVE  g[i] < o.len /\ o.word[g[i]] = IF i = 1 THEN ABSENT ELSE g[i - 1]
    <3>1. CASE i \in 1 .. n
      <4>1. i # 1 => i - 1 \in 1 .. n
        BY <3>1
      <4>2. f[i] < o.len /\ o.word[f[i]] = IF i = 1 THEN ABSENT ELSE f[i - 1]
        BY <3>1 DEF Chain
      <4> QED
        BY <1>2, <3>1, <4>1, <4>2
    <3>2. CASE i = n + 1
      <4>1. i - 1 = n /\ (i = 1 <=> n = 0) /\ (n # 0 => n \in 1 .. n)
        BY <3>2
      <4>2. o.word[r] = IF n = 0 THEN ABSENT ELSE f[n]
        BY DEF Chain
      <4> QED
        BY <1>2, <3>2, <4>1, <4>2
    <3> QED
      BY <1>2, <3>1, <3>2
  <2> QED
    BY <2>1, <2>2 DEF Chain
<1>4. Laid(b, N, R \ {r}, n + 1, g)
  <2>1. ASSUME NEW i \in 1 .. n + 1
        PROVE  /\ ROOT_OFFSET <= g[i] /\ g[i] + RECORD_SLOT_SIZE <= b
               /\ \A s \in R \ {r} : Apart(s, RECORD_SLOT_SIZE, g[i], RECORD_SLOT_SIZE)
               /\ \A m \in N : Apart(m, NODE_SIZE, g[i], RECORD_SLOT_SIZE)
    <3>1. CASE i \in 1 .. n
      BY <1>2, <3>1 DEF Laid
    <3>2. CASE i = n + 1
      BY <1>2, <3>2 DEF Laid
    <3> QED
      BY <1>2, <3>1, <3>2
  <2>2. ASSUME NEW i \in 1 .. n + 1, NEW j \in 1 .. n + 1, i # j
        PROVE  Apart(g[i], RECORD_SLOT_SIZE, g[j], RECORD_SLOT_SIZE)
    <3>1. \A k \in 1 .. n : Apart(r, RECORD_SLOT_SIZE, f[k], RECORD_SLOT_SIZE)
                            /\ Apart(f[k], RECORD_SLOT_SIZE, r, RECORD_SLOT_SIZE)
      BY DEF Laid, Apart
    <3>2. CASE i \in 1 .. n /\ j \in 1 .. n
      BY <1>2, <2>2, <3>2 DEF Laid
    <3>3. CASE i \in 1 .. n /\ j = n + 1
      BY <1>2, <3>1, <3>3
    <3>4. CASE i = n + 1 /\ j \in 1 .. n
      BY <1>2, <3>1, <3>4
    <3> QED
      BY <1>2, <2>2, <3>2, <3>3, <3>4
  <2> QED
    BY <2>1, <2>2 DEF Laid
<1> QED
  BY <1>1, <1>3, <1>4
=============================================================================
