----------------------------- MODULE Cell2Proofs -----------------------------
(***************************************************************************)
(* Proofs about Cell2 for any number of threads, cells and guards, when    *)
(* every thread drops the guard it took last first: a guard is alive only  *)
(* inside the critical section, borrows are exclusive, only reentry        *)
(* panics, and the section is held only by a thread with something left to *)
(* release.                                                                *)
(***************************************************************************)
EXTENDS Cell2, FiniteSetTheorems, SequenceTheorems, TLAPS

(* The guards on one cell are finitely many. *)
LEMMA OnIsFinite ==
  ASSUME NEW gs \in Seq(Guard), NEW c
  PROVE  IsFiniteSet(On(gs, c)) /\ Cardinality(On(gs, c)) \in Nat
<1>1. Len(gs) \in Nat
  OBVIOUS
<1>2. IsFiniteSet(1 .. Len(gs))
  BY <1>1, FS_Interval
<1>3. IsFiniteSet(On(gs, c))
  BY <1>2, FS_Subset DEF On
<1> QED
  BY <1>3, FS_CardinalityType

(* Dropping the last guard leaves those before it as they were. *)
LEMMA DropLast ==
  ASSUME NEW gs \in Seq(Guard), gs # <<>>
  PROVE  /\ Len(gs) \in Nat \ {0}
         /\ gs[Len(gs)] \in Guard
         /\ Without(gs, Len(gs)) = <<>> <=> Len(gs) = 1
         /\ Without(gs, Len(gs)) \in Seq(Guard)
         /\ Len(Without(gs, Len(gs))) = Len(gs) - 1
         /\ \A i \in 1 .. Len(gs) - 1 : Without(gs, Len(gs))[i] = gs[i]
         /\ \A c : On(Without(gs, Len(gs)), c) = On(gs, c) \ {Len(gs)}
<1> DEFINE n == Len(gs)
           front == SubSeq(gs, 1, n - 1)
           back == SubSeq(gs, n + 1, n)
<1>1. n \in Nat \ {0} /\ gs[n] \in Guard
  OBVIOUS
<1>2. /\ front \in Seq(Guard) /\ Len(front) = n - 1
      /\ \A i \in 1 .. n - 1 : front[i] = gs[i]
  <2>1. 1 \in Int /\ n - 1 \in Int /\ \A i \in 1 .. n - 1 : gs[i] \in Guard
    BY <1>1
  <2> HIDE DEF n
  <2>2. /\ front \in Seq(Guard)
        /\ Len(front) = IF 1 <= n - 1 THEN (n - 1) - 1 + 1 ELSE 0
        /\ \A i \in 1 .. (n - 1) - 1 + 1 : front[i] = gs[1 + i - 1]
    BY <2>1, SubSeqProperties
  <2>3. Len(front) = n - 1
    BY <1>1, <2>2
  <2>4. ASSUME NEW i \in 1 .. n - 1
        PROVE  front[i] = gs[i]
    <3>1. i \in 1 .. (n - 1) - 1 + 1 /\ 1 + i - 1 = i
      BY <1>1
    <3> QED
      BY <2>2, <3>1, Zenon
  <2> QED
    BY <2>2, <2>3, <2>4
<1>3. back = <<>>
  BY <1>1
<1>4. Without(gs, n) = front
  BY <1>2, <1>3 DEF Without
<1>5. \A c : On(front, c) = On(gs, c) \ {n}
  BY <1>1, <1>2 DEF On
<1>6. front = <<>> <=> n = 1
  <2>1. n = 1 => front = <<>>
    BY SubSeqEmpty
  <2>2. front = <<>> => Len(front) = 0
    BY EmptySeq
  <2>3. front = <<>> => n = 1
    BY <1>1, <1>2, <2>2
  <2> QED
    BY <2>1, <2>3
<1> QED
  BY <1>1, <1>2, <1>4, <1>5, <1>6

(* Taking one more guard adds its index to those on its cell, and no other. *)
LEMMA TakeOne ==
  ASSUME NEW gs \in Seq(Guard), NEW g \in Guard
  PROVE  /\ Append(gs, g) \in Seq(Guard)
         /\ Len(Append(gs, g)) = Len(gs) + 1
         /\ Append(gs, g)[Len(gs) + 1] = g
         /\ \A i \in 1 .. Len(gs) : Append(gs, g)[i] = gs[i]
         /\ On(Append(gs, g), g.cell) = On(gs, g.cell) \cup {Len(gs) + 1}
         /\ \A c : c # g.cell => On(Append(gs, g), c) = On(gs, c)
<1> DEFINE n == Len(gs)
           more == Append(gs, g)
<1>1. /\ n \in Nat /\ more \in Seq(Guard) /\ Len(more) = n + 1
      /\ more[n + 1] = g
      /\ \A i \in 1 .. n : more[i] = gs[i]
  OBVIOUS
<1>2. On(more, g.cell) = On(gs, g.cell) \cup {n + 1}
  BY <1>1 DEF On
<1>3. \A c : c # g.cell => On(more, c) = On(gs, c)
  BY <1>1 DEF On
<1> QED
  BY <1>1, <1>2, <1>3

(* No guards, no borrows. *)
LEMMA CountsNone ==
  ASSUME NEW n, NEW c
  PROVE  Counts(n, <<>>, c) <=> n = 0
<1>1. On(<<>>, c) = {}
  BY DEF On
<1>2. Cardinality(On(<<>>, c)) = 0
  BY <1>1, FS_EmptySet
<1>3. n = EXCLUSIVE => n # 0
  BY DEF EXCLUSIVE
<1> QED
  BY <1>1, <1>2, <1>3 DEF Counts

(* What Borrow does to the count of the cell it borrows, and of any other.  *)
LEMMA CountsMore ==
  ASSUME NEW gs \in Seq(Guard), NEW g \in Guard, NEW n, NEW c,
         Counts(n, gs, c),
         c = g.cell => IF g.mut THEN n = 0 ELSE n # EXCLUSIVE
  PROVE  Counts(IF c # g.cell THEN n ELSE IF g.mut THEN EXCLUSIVE ELSE n + 1,
                Append(gs, g), c)
<1> DEFINE hs == Append(gs, g)
           k == Len(gs)
<1>1. /\ k \in Nat /\ Len(hs) = k + 1 /\ hs[k + 1] = g
      /\ \A i \in 1 .. k : hs[i] = gs[i]
      /\ On(gs, c) \subseteq 1 .. k
  BY TakeOne DEF On
<1>2. CASE c # g.cell
  <2>1. On(hs, c) = On(gs, c)
    BY <1>2, TakeOne
  <2>2. CASE n = EXCLUSIVE
    <3>1. PICK i \in 1 .. k : On(gs, c) = {i} /\ gs[i].mut
      BY <2>2 DEF Counts
    <3>2. i \in 1 .. Len(hs) /\ On(hs, c) = {i} /\ hs[i].mut
      BY <1>1, <2>1, <3>1
    <3> QED
      BY <1>2, <2>2, <3>2 DEF Counts
  <2>3. CASE n # EXCLUSIVE
    <3>1. n = Cardinality(On(hs, c)) /\ \A i \in On(gs, c) : ~ gs[i].mut
      BY <2>1, <2>3 DEF Counts
    <3>2. \A i \in On(hs, c) : ~ hs[i].mut
      BY <1>1, <2>1, <3>1
    <3> QED
      BY <1>2, <2>3, <3>1, <3>2 DEF Counts
  <2> QED
    BY <2>2, <2>3
<1>3. CASE c = g.cell /\ g.mut
  <2>1. n = 0 /\ Cardinality(On(gs, c)) = 0
    BY <1>3 DEF Counts, EXCLUSIVE
  <2>2. On(gs, c) = {}
    BY <2>1, OnIsFinite, FS_EmptySet
  <2>3. On(hs, c) = On(gs, c) \cup {k + 1}
    BY <1>3, TakeOne
  <2>4. On(hs, c) = {k + 1} /\ k + 1 \in 1 .. Len(hs) /\ hs[k + 1].mut
    BY <1>1, <1>3, <2>2, <2>3
  <2> QED
    BY <1>3, <2>4 DEF Counts
<1>4. CASE c = g.cell /\ ~ g.mut
  <2>1. n = Cardinality(On(gs, c)) /\ \A i \in On(gs, c) : ~ gs[i].mut
    BY <1>4 DEF Counts
  <2>2. n \in Nat
    BY <2>1, OnIsFinite
  <2>3. On(hs, c) = On(gs, c) \cup {k + 1}
    BY <1>4, TakeOne
  <2>4. k + 1 \notin On(gs, c) /\ IsFiniteSet(On(gs, c))
    BY <1>1, OnIsFinite
  <2>5. Cardinality(On(hs, c)) = n + 1
    BY <2>1, <2>3, <2>4, FS_AddElement
  <2>6. \A i \in On(hs, c) : ~ hs[i].mut
    BY <1>1, <1>4, <2>1, <2>3
  <2>7. n + 1 # EXCLUSIVE
    BY <2>2 DEF EXCLUSIVE
  <2> QED
    BY <1>4, <2>5, <2>6, <2>7 DEF Counts
<1> QED
  BY <1>2, <1>3, <1>4

(* What DropInner does to the counts, and that it never counts below zero.  *)
LEMMA CountsFewer ==
  ASSUME NEW gs \in Seq(Guard), gs # <<>>, NEW n, NEW c, Counts(n, gs, c)
  PROVE  LET g == gs[Len(gs)]
             m == IF c # g.cell THEN n ELSE IF g.mut THEN 0 ELSE n - 1
         IN  /\ Counts(m, Without(gs, Len(gs)), c)
             /\ c = g.cell /\ ~ g.mut => n - 1 \in Nat
<1> DEFINE k == Len(gs)
           g == gs[k]
           hs == Without(gs, k)
<1>1. /\ k \in Nat \ {0} /\ g \in Guard /\ Len(hs) = k - 1
      /\ \A i \in 1 .. k - 1 : hs[i] = gs[i]
      /\ On(hs, c) = On(gs, c) \ {k}
  BY DropLast
<1>2. On(gs, c) \subseteq 1 .. k /\ (k \in On(gs, c) <=> c = g.cell)
  BY <1>1 DEF On
<1>3. On(hs, c) \subseteq 1 .. k - 1
  BY <1>1, <1>2
<1>4. CASE c # g.cell
  <2>1. On(hs, c) = On(gs, c)
    BY <1>1, <1>2, <1>4
  <2>2. CASE n = EXCLUSIVE
    <3>1. PICK i \in 1 .. k : On(gs, c) = {i} /\ gs[i].mut
      BY <2>2 DEF Counts
    <3>2. i \in 1 .. Len(hs) /\ On(hs, c) = {i} /\ hs[i].mut
      BY <1>1, <1>3, <2>1, <3>1
    <3> QED
      BY <1>4, <2>2, <3>2 DEF Counts
  <2>3. CASE n # EXCLUSIVE
    <3>1. n = Cardinality(On(hs, c)) /\ \A i \in On(gs, c) : ~ gs[i].mut
      BY <2>1, <2>3 DEF Counts
    <3>2. \A i \in On(hs, c) : ~ hs[i].mut
      BY <1>1, <1>3, <2>1, <3>1
    <3> QED
      BY <1>4, <2>3, <3>1, <3>2 DEF Counts
  <2> QED
    BY <2>2, <2>3
<1>5. CASE c = g.cell /\ g.mut
  <2>1. n = EXCLUSIVE
    BY <1>2, <1>5 DEF Counts
  <2>2. On(gs, c) = {k}
    BY <1>2, <1>5, <2>1 DEF Counts
  <2>3. On(hs, c) = {}
    BY <1>1, <2>2
  <2>4. Cardinality(On(hs, c)) = 0
    BY <2>3, FS_EmptySet
  <2>5. 0 # EXCLUSIVE
    BY DEF EXCLUSIVE
  <2> QED
    BY <1>5, <2>3, <2>4, <2>5 DEF Counts
<1>6. CASE c = g.cell /\ ~ g.mut
  <2>1. n # EXCLUSIVE
    BY <1>2, <1>6 DEF Counts
  <2>2. n = Cardinality(On(gs, c)) /\ \A i \in On(gs, c) : ~ gs[i].mut
    BY <2>1 DEF Counts
  <2>3. IsFiniteSet(On(gs, c)) /\ n \in Nat /\ n # 0
    <3>1. IsFiniteSet(On(gs, c)) /\ n \in Nat
      BY <2>2, OnIsFinite
    <3>2. On(gs, c) # {}
      BY <1>2, <1>6
    <3> QED
      BY <2>2, <3>1, <3>2, FS_EmptySet
  <2>4. Cardinality(On(hs, c)) = n - 1
    BY <1>1, <1>2, <1>6, <2>2, <2>3, FS_RemoveElement
  <2>5. \A i \in On(hs, c) : ~ hs[i].mut
    BY <1>1, <1>3, <2>2
  <2>6. n - 1 \in Nat /\ n - 1 # EXCLUSIVE
    BY <2>3 DEF EXCLUSIVE
  <2> QED
    BY <1>6, <2>4, <2>5, <2>6 DEF Counts
<1> QED
  BY <1>4, <1>5, <1>6

LEMMA InitIInv == Init => IInv
<1> SUFFICES ASSUME Init PROVE IInv
  OBVIOUS
<1> USE CellAssumption
<1>1. TypeOK
  BY DEF Init, TypeOK, Places
<1>2. InsideWhileGuarded /\ OldestIsOutermost
  BY DEF Init, InsideWhileGuarded, OldestIsOutermost, InProgress
<1>3. FlagsCountGuards
  BY DEF Init, FlagsCountGuards
<1> QED
  BY <1>1, <1>2, <1>3 DEF IInv

(* At most one thread is inside: the others have nothing. *)
LEMMA OthersHoldNothing ==
  ASSUME IInv, NEW t \in Threads, owner = t \/ owner = NOBODY,
         NEW u \in Threads, u # t
  PROVE  owner # u /\ guards[u] = <<>> /\ at[u] = NO_GUARD /\ ~ InProgress(u)
BY CellAssumption DEF IInv, InsideWhileGuarded

LEMMA AcquireStep ==
  ASSUME IInv, NEW t \in Threads, NEW c \in Cells, NEW mut \in BOOLEAN,
         Acquire(t, c, mut)
  PROVE  IInv'
<1> USE CellAssumption
<1> DEFINE g == [cell |-> c, mut |-> mut, nested |-> owner = t]
<1>1. g \in Guard /\ g # NO_GUARD
  <2>1. (owner = t) \in BOOLEAN
    OBVIOUS
  <2>2. g \in Guard
    BY <2>1, Zenon DEF Guard
  <2> QED
    BY <2>2
<1>2. TypeOK'
  BY <1>1 DEF IInv, TypeOK, Acquire, Places
<1>3. /\ at' = [at EXCEPT ![t] = g] /\ pc' = [pc EXCEPT ![t] = "borrowing"]
      /\ at'[t] = g /\ pc'[t] = "borrowing"
      /\ \A u \in Threads : u # t => at'[u] = at[u] /\ pc'[u] = pc[u]
  BY DEF IInv, TypeOK, Acquire
<1>4. /\ owner' = t /\ guards' = guards /\ flag' = flag
      /\ owner = t \/ owner = NOBODY
      /\ ~ InProgress(t)
  BY DEF Acquire, InProgress
<1>5. InsideWhileGuarded'
  BY <1>1, <1>3, <1>4 DEF IInv, InsideWhileGuarded, InProgress
<1>6. g.nested <=> guards[t] # <<>>
  BY <1>4 DEF IInv, InsideWhileGuarded
<1>7. OldestIsOutermost'
  BY <1>3, <1>4, <1>6 DEF IInv, OldestIsOutermost, InProgress
<1>8. FlagsCountGuards'
  <2> SUFFICES ASSUME NEW d \in Cells PROVE Counts(flag[d], guards[t], d)
    BY <1>4 DEF FlagsCountGuards
  <2>1. CASE owner = t
    BY <2>1 DEF IInv, FlagsCountGuards
  <2>2. CASE owner = NOBODY
    BY <2>2, CountsNone DEF IInv, InsideWhileGuarded, FlagsCountGuards
  <2> QED
    BY <1>4, <2>1, <2>2
<1> QED
  BY <1>2, <1>5, <1>7, <1>8 DEF IInv

LEMMA BorrowStep ==
  ASSUME IInv, NEW t \in Threads, Borrow(t)
  PROVE  IInv'
<1> USE CellAssumption
<1> DEFINE g == at[t]
           gs == guards[t]
           n == Len(gs)
<1>1. /\ InProgress(t) /\ g \in Guard /\ gs \in Seq(Guard) /\ n \in Nat
      /\ owner = t /\ g.cell \in Cells /\ g.mut \in BOOLEAN
  BY DEF IInv, TypeOK, InsideWhileGuarded, Borrow, InProgress, Guard
<1>2. /\ guards'[t] = Append(gs, g) /\ at'[t] = NO_GUARD
      /\ pc'[t] = "running" /\ owner' = t
      /\ \A u \in Threads : u # t =>
           guards'[u] = guards[u] /\ at'[u] = at[u] /\ pc'[u] = pc[u]
      /\ flag'[g.cell] = (IF g.mut THEN EXCLUSIVE ELSE flag[g.cell] + 1)
      /\ \A c \in Cells : c # g.cell => flag'[c] = flag[c]
  BY <1>1 DEF IInv, TypeOK, Borrow
<1>3. TypeOK'
  BY <1>1, TakeOne DEF IInv, TypeOK, Borrow, Places, CanBorrow, EXCLUSIVE
<1>4. Append(gs, g) # <<>>
  BY <1>1
<1>5. InsideWhileGuarded'
  BY <1>1, <1>2, <1>4 DEF IInv, InsideWhileGuarded, InProgress
<1>6. OldestIsOutermost'
  <2>1. g.nested <=> n + 1 # 1
    BY <1>1 DEF IInv, OldestIsOutermost
  <2>2. \A i \in 1 .. Len(guards'[t]) : guards'[t][i].nested <=> i # 1
    BY <1>1, <1>2, <2>1, TakeOne DEF IInv, OldestIsOutermost
  <2>3. ~ InProgress(t)'
    BY <1>2 DEF InProgress
  <2>4. ASSUME NEW u \in Threads, u # t
        PROVE  /\ \A i \in 1 .. Len(guards'[u]) : guards'[u][i].nested <=> i # 1
               /\ InProgress(u)' => (at'[u].nested <=> guards'[u] # <<>>)
    BY <1>2, <2>4 DEF IInv, OldestIsOutermost, InProgress
  <2> QED
    BY <2>2, <2>3, <2>4 DEF OldestIsOutermost
<1>7. FlagsCountGuards'
  <2> SUFFICES ASSUME NEW c \in Cells
               PROVE  Counts(flag'[c], guards'[t], c)
    BY <1>1, <1>2 DEF FlagsCountGuards
  <2>1. Counts(flag[c], gs, c)
    BY <1>1 DEF IInv, FlagsCountGuards
  <2>2. c = g.cell => IF g.mut THEN flag[c] = 0 ELSE flag[c] # EXCLUSIVE
    BY DEF Borrow, CanBorrow
  <2>3. flag'[c] = IF c # g.cell THEN flag[c]
                   ELSE IF g.mut THEN EXCLUSIVE ELSE flag[c] + 1
    BY <1>2
  <2> QED
    BY <1>1, <1>2, <2>1, <2>2, <2>3, CountsMore
<1> QED
  BY <1>3, <1>5, <1>6, <1>7 DEF IInv

(* A borrow is refused only where the thread has a guard already. *)
LEMMA RefusedOnReentry ==
  ASSUME IInv, NEW t \in Threads, Panic(t)
  PROVE  /\ owner = t
         /\ \E i \in 1 .. Len(guards[t]) : guards[t][i].cell = at[t].cell
<1> DEFINE c == at[t].cell
<1>1. owner = t /\ c \in Cells /\ guards[t] \in Seq(Guard)
  BY CellAssumption DEF IInv, TypeOK, InsideWhileGuarded, Panic, InProgress, Guard
<1>2. flag[c] # 0
  BY DEF Panic, CanBorrow, EXCLUSIVE
<1>3. Counts(flag[c], guards[t], c)
  BY <1>1 DEF IInv, FlagsCountGuards
<1>4. On(guards[t], c) # {}
  BY <1>2, <1>3, FS_EmptySet DEF Counts
<1> QED
  BY <1>1, <1>4 DEF On

LEMMA PanicStep ==
  ASSUME IInv, NEW t \in Threads, Panic(t)
  PROVE  IInv'
<1> USE CellAssumption
<1>1. owner = t /\ guards[t] # <<>>
  BY RefusedOnReentry
<1>2. /\ at'[t] = NO_GUARD /\ pc'[t] = "unwinding"
      /\ \A u \in Threads : u # t => at'[u] = at[u] /\ pc'[u] = pc[u]
      /\ owner' = owner /\ guards' = guards /\ flag' = flag
  BY DEF IInv, TypeOK, Panic
<1>3. TypeOK'
  BY DEF IInv, TypeOK, Panic, Places
<1>4. InsideWhileGuarded'
  BY <1>1, <1>2 DEF IInv, InsideWhileGuarded, InProgress
<1>5. OldestIsOutermost'
  BY <1>2 DEF IInv, OldestIsOutermost, InProgress
<1>6. FlagsCountGuards'
  BY <1>2 DEF IInv, FlagsCountGuards
<1> QED
  BY <1>3, <1>4, <1>5, <1>6 DEF IInv

LEMMA DropInnerStep ==
  ASSUME LastFirst, IInv, NEW t \in Threads, NEW k, DropInner(t, k)
  PROVE  IInv'
<1> USE CellAssumption
<1> DEFINE gs == guards[t]
           n == Len(gs)
           g == gs[n]
           rest == Without(gs, n)
<1>1. /\ k = n /\ gs \in Seq(Guard) /\ gs # <<>> /\ ~ InProgress(t)
      /\ g \in Guard /\ g.cell \in Cells /\ g # NO_GUARD /\ n \in Nat \ {0}
  <2>1. k = n /\ k \in 1 .. Len(gs) /\ gs \in Seq(Guard) /\ ~ InProgress(t)
    BY DEF IInv, TypeOK, DropInner, InProgress
  <2>2. gs # <<>> /\ g \in Guard /\ n \in Nat \ {0}
    BY <2>1
  <2> QED
    BY <2>1, <2>2 DEF Guard
<1>2. owner = t
  BY <1>1 DEF IInv, InsideWhileGuarded
<1>3. /\ guards'[t] = rest /\ at'[t] = g
      /\ pc'[t] \in {"releasing", "unwind_releasing"} /\ owner' = t
      /\ \A u \in Threads : u # t =>
           guards'[u] = guards[u] /\ at'[u] = at[u] /\ pc'[u] = pc[u]
      /\ flag'[g.cell] = (IF g.mut THEN 0 ELSE flag[g.cell] - 1)
      /\ \A c \in Cells : c # g.cell => flag'[c] = flag[c]
  BY <1>1, <1>2 DEF IInv, TypeOK, DropInner
<1>4. \A c \in Cells : Counts(flag[c], gs, c)
  BY <1>2 DEF IInv, FlagsCountGuards
<1>5. \A c \in Cells : Counts(flag'[c], rest, c)
  <2> SUFFICES ASSUME NEW c \in Cells PROVE Counts(flag'[c], rest, c)
    OBVIOUS
  <2>1. flag'[c] = IF c # g.cell THEN flag[c]
                   ELSE IF g.mut THEN 0 ELSE flag[c] - 1
    BY <1>3
  <2> QED
    BY <1>1, <1>4, <2>1, CountsFewer
<1>6. ~ g.mut => flag[g.cell] - 1 \in Nat
  BY <1>1, <1>4, CountsFewer
<1>7. TypeOK'
  <2>1. flag' \in [Cells -> Nat \cup {EXCLUSIVE}]
    BY <1>1, <1>6 DEF IInv, TypeOK, DropInner
  <2>2. guards' \in [Threads -> Seq(Guard)]
    BY <1>1, DropLast DEF IInv, TypeOK, DropInner
  <2> QED
    BY <1>1, <2>1, <2>2 DEF IInv, TypeOK, DropInner, Places
<1>8. InsideWhileGuarded'
  BY <1>1, <1>2, <1>3 DEF IInv, InsideWhileGuarded, InProgress
<1>9. OldestIsOutermost'
  <2>1. Len(rest) = n - 1 /\ \A i \in 1 .. n - 1 : rest[i] = gs[i]
    BY <1>1, DropLast
  <2>2. rest \in Seq(Guard)
    BY <1>1, DropLast
  <2>3. rest = <<>> <=> n = 1
    BY <1>1, DropLast
  <2>4. g.nested <=> n # 1
    <3>1. n \in 1 .. Len(guards[t])
      BY <1>1
    <3> QED
      BY <3>1 DEF IInv, OldestIsOutermost
  <2>5. \A i \in 1 .. Len(rest) : rest[i].nested <=> i # 1
    BY <1>1, <2>1 DEF IInv, OldestIsOutermost
  <2> QED
    BY <1>3, <2>3, <2>4, <2>5 DEF IInv, OldestIsOutermost, InProgress
<1>10. FlagsCountGuards'
  BY <1>2, <1>3, <1>5 DEF FlagsCountGuards
<1> QED
  BY <1>7, <1>8, <1>9, <1>10 DEF IInv

LEMMA ReleaseStep ==
  ASSUME IInv, NEW t \in Threads, Release(t)
  PROVE  IInv'
<1> USE CellAssumption
<1>1. InProgress(t) /\ owner = t /\ (at[t].nested <=> guards[t] # <<>>)
  BY DEF IInv, InsideWhileGuarded, OldestIsOutermost, Release, InProgress
<1>2. /\ at'[t] = NO_GUARD /\ pc'[t] \in {"running", "unwinding"}
      /\ \A u \in Threads : u # t => at'[u] = at[u] /\ pc'[u] = pc[u]
      /\ guards' = guards /\ flag' = flag
      /\ owner' = IF guards[t] # <<>> THEN t ELSE NOBODY
  BY <1>1 DEF IInv, TypeOK, Release
<1>3. TypeOK'
  BY DEF IInv, TypeOK, Release, Places
<1>4. InsideWhileGuarded'
  BY <1>1, <1>2, OthersHoldNothing DEF IInv, InsideWhileGuarded, InProgress
<1>5. OldestIsOutermost'
  BY <1>2 DEF IInv, OldestIsOutermost, InProgress
<1>6. FlagsCountGuards'
  <2> SUFFICES ASSUME NEW c \in Cells
               PROVE  /\ owner' = NOBODY => flag[c] = 0
                      /\ \A u \in Threads :
                           owner' = u => Counts(flag[c], guards[u], c)
    BY <1>2 DEF FlagsCountGuards
  <2>1. Counts(flag[c], guards[t], c)
    BY <1>1 DEF IInv, FlagsCountGuards
  <2>2. guards[t] = <<>> => flag[c] = 0
    BY <2>1, CountsNone
  <2> QED
    BY <1>2, <2>1, <2>2
<1> QED
  BY <1>3, <1>4, <1>5, <1>6 DEF IInv

LEMMA CaughtStep ==
  ASSUME IInv, NEW t \in Threads, Caught(t)
  PROVE  IInv'
<1> USE CellAssumption
<1>1. /\ pc[t] = "unwinding" /\ pc'[t] = "running"
      /\ \A u \in Threads : u # t => pc'[u] = pc[u]
      /\ at' = at /\ owner' = owner /\ guards' = guards /\ flag' = flag
  BY DEF IInv, TypeOK, Caught
<1>2. TypeOK'
  BY DEF IInv, TypeOK, Caught, Places
<1>3. InsideWhileGuarded'
  BY <1>1 DEF IInv, InsideWhileGuarded, InProgress
<1>4. OldestIsOutermost'
  BY <1>1 DEF IInv, OldestIsOutermost, InProgress
<1>5. FlagsCountGuards'
  BY <1>1 DEF IInv, FlagsCountGuards
<1> QED
  BY <1>2, <1>3, <1>4, <1>5 DEF IInv

LEMMA StutterStep ==
  ASSUME IInv, UNCHANGED vars
  PROVE  IInv'
BY DEF vars, IInv, TypeOK, InsideWhileGuarded, InProgress, OldestIsOutermost,
       FlagsCountGuards

LEMMA NextIInv ==
  ASSUME LastFirst, IInv, [Next]_vars
  PROVE  IInv'
<1>1. CASE UNCHANGED vars
  BY <1>1, StutterStep
<1>2. CASE Next
  <2> SUFFICES ASSUME NEW t \in Threads,
                      \/ \E c \in Cells, mut \in BOOLEAN : Acquire(t, c, mut)
                      \/ Borrow(t)
                      \/ Panic(t)
                      \/ \E i \in 1 .. MAX_GUARDS : DropInner(t, i)
                      \/ Release(t)
                      \/ Caught(t)
               PROVE  IInv'
    BY <1>2 DEF Next
  <2> QED
    BY AcquireStep, BorrowStep, PanicStep, DropInnerStep, ReleaseStep, CaughtStep
<1> QED
  BY <1>1, <1>2

(* IInv holds of every behaviour in which guards are dropped last first. *)
THEOREM InductiveInvariant ==
  ASSUME LastFirst
  PROVE  Spec => []IInv
<1>1. IInv /\ [Next]_vars => IInv'
  BY NextIInv
<1> QED
  BY InitIInv, <1>1, PTL DEF Spec

(* TypeOK: RefCell counts stay borrow counts, and no state is lost track of *)
(* by a guard that is made, dropped or unwound.                             *)
THEOREM TypeCorrect ==
  ASSUME LastFirst
  PROVE  Spec => []TypeOK
<1>1. IInv => TypeOK
  BY DEF IInv
<1> QED
  BY InductiveInvariant, <1>1, PTL

(* GuardHoldsSection: the thread of a live guard is inside the critical     *)
(* section from acquire to release.                                         *)
THEOREM GuardsAreInside ==
  ASSUME LastFirst
  PROVE  Spec => []GuardHoldsSection
<1>1. IInv => GuardHoldsSection
  BY DEF IInv, InsideWhileGuarded, InProgress, GuardHoldsSection
<1> QED
  BY InductiveInvariant, <1>1, PTL

(* BorrowsExclusive: guards of two threads are never alive together, and a  *)
(* mutable guard is alone on its cell.                                      *)
THEOREM BorrowsAreExclusive ==
  ASSUME LastFirst
  PROVE  Spec => []BorrowsExclusive
<1>1. ASSUME IInv PROVE BorrowsExclusive
  <2> SUFFICES ASSUME NEW t \in Threads, NEW u \in Threads,
                      NEW i \in 1 .. Len(guards[t]),
                      NEW j \in 1 .. Len(guards[u])
               PROVE  /\ t = u
                      /\ guards[t][i].cell = guards[u][j].cell /\ guards[t][i].mut
                           => i = j
    BY DEF BorrowsExclusive
  <2>1. guards[t] \in Seq(Guard) /\ guards[u] \in Seq(Guard)
    BY <1>1 DEF IInv, TypeOK
  <2>2. guards[t] # <<>> /\ guards[u] # <<>>
    BY <2>1
  <2>3. owner = t /\ t = u
    BY <1>1, <2>2 DEF IInv, InsideWhileGuarded
  <2>4. ASSUME guards[t][i].cell = guards[t][j].cell, guards[t][i].mut, j \in 1 .. Len(guards[t])
        PROVE  i = j
    <3> DEFINE c == guards[t][i].cell
    <3>1. i \in 1 .. Len(guards[t]) /\ guards[t][i] \in Guard
      BY <2>1
    <3>2. c \in Cells /\ i \in On(guards[t], c) /\ j \in On(guards[t], c)
      BY <2>4, <3>1 DEF On, Guard
    <3>3. Counts(flag[c], guards[t], c)
      BY <1>1, <2>3, <3>2 DEF IInv, FlagsCountGuards
    <3> QED
      BY <2>4, <3>2, <3>3 DEF Counts
  <2> QED
    BY <2>3, <2>4
<1> QED
  BY InductiveInvariant, <1>1, PTL

(* SectionIsReturned: whoever is inside still has the release of the        *)
(* outermost acquire to do, whatever panics lost on the way.                *)
THEOREM SectionIsAlwaysReturned ==
  ASSUME LastFirst
  PROVE  Spec => []SectionIsReturned
<1>1. ASSUME IInv PROVE SectionIsReturned
  <2> SUFFICES ASSUME NEW t \in Threads, owner = t
               PROVE  \/ \E i \in 1 .. Len(guards[t]) : ~ guards[t][i].nested
                      \/ at[t] # NO_GUARD /\ ~ at[t].nested
    BY DEF SectionIsReturned
  <2>1. CASE guards[t] # <<>>
    <3>1. 1 \in 1 .. Len(guards[t])
      BY <1>1, <2>1 DEF IInv, TypeOK
    <3> QED
      BY <1>1, <3>1 DEF IInv, OldestIsOutermost
  <2>2. CASE guards[t] = <<>>
    BY <1>1, <2>2 DEF IInv, InsideWhileGuarded, OldestIsOutermost
  <2> QED
    BY <2>1, <2>2
<1> QED
  BY InductiveInvariant, <1>1, PTL

(* PanicsOnlyOnReentry: a borrow panics only where its own thread has a     *)
(* guard of the same cell.                                                  *)
THEOREM OnlyReentryPanics ==
  ASSUME LastFirst
  PROVE  Spec => PanicsOnlyOnReentry
<1> DEFINE Reentry ==
             \A t \in Threads :
               pc[t] = "borrowing" /\ pc'[t] = "unwinding" =>
                 \E i \in 1 .. Len(guards[t]) : guards[t][i].cell = at[t].cell
<1>1. ASSUME IInv, [Next]_vars PROVE [Reentry]_vars
  <2> SUFFICES ASSUME Next, NEW u \in Threads,
                      pc[u] = "borrowing", pc'[u] = "unwinding"
               PROVE  \E i \in 1 .. Len(guards[u]) : guards[u][i].cell = at[u].cell
    BY <1>1
  <2>1. pc \in [Threads -> Places]
    BY <1>1 DEF IInv, TypeOK
  <2>2. PICK t \in Threads :
          \/ \E c \in Cells, mut \in BOOLEAN : Acquire(t, c, mut)
          \/ Borrow(t)
          \/ Panic(t)
          \/ \E i \in 1 .. MAX_GUARDS : DropInner(t, i)
          \/ Release(t)
          \/ Caught(t)
    BY DEF Next
  <2>3. t = u
    BY <2>1, <2>2 DEF Acquire, Borrow, Panic, DropInner, Release, Caught
  <2>4. Panic(t)
    BY <2>1, <2>2, <2>3 DEF Acquire, Borrow, DropInner, Release, Caught
  <2> QED
    BY <1>1, <2>3, <2>4, RefusedOnReentry
<1> QED
  BY InductiveInvariant, <1>1, PTL DEF Spec, PanicsOnlyOnReentry
=============================================================================
