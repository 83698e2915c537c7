----------------------------- MODULE FsIoProofs -----------------------------
(***************************************************************************)
(* What FsIo keeps true for any callers, keys, values, batches and         *)
(* prefixes, whatever calls of the file system fail and whenever the       *)
(* process restarts.                                                       *)
(***************************************************************************)
EXTENDS FsIo, TLAPS

(***************************************************************************)
(* The inductive invariant.                                                *)
(***************************************************************************)
Names     == Seq(Segments)
Contents  == Seq(Nat)
Handles   == Keys \cup Callers \cup {NONE}
Ops       == Seq([key : Keys \cup BadKeys, value : Data \cup {NONE}])
Places    == {"idle", "batch", "open", "write", "remove", "read", "walk"}
Call      == [at : Places, todo : Ops, key : Names, handle : Handles,
              got : Contents, left : SUBSET Names, found : SUBSET Keys,
              sure : SUBSET Keys]

TypeInv ==
  /\ dirs \in SUBSET Names
  /\ file \in [Keys -> Contents \cup {NONE}]
  /\ orphan \in [Callers -> Contents \cup {NONE}]
  /\ call \in [Callers -> Call]
  /\ possible \in [Keys -> SUBSET (Contents \cup {NONE, ANY})]

(* The directories are closed upwards, and files stand in directories. *)
Rooted ==
  /\ <<>> \in dirs
  /\ \A d \in dirs : Ancestors(d) \subseteq dirs
  /\ \A k \in Keys : file[k] # NONE => Ancestors(k) \subseteq dirs /\ k \notin dirs

Prefix(s, t) == Len(s) <= Len(t) /\ \A i \in 1 .. Len(s) : s[i] = t[i]

(* Where a call is, its locals are these. *)
LocalsOf(c) ==
  /\ call[c].at \in {"idle", "batch", "open", "remove"} => call[c].got = <<>>
  /\ call[c].at \in {"open", "write", "remove", "read"} => call[c].key \in Keys
  /\ call[c].at \in {"open", "write"} =>
       /\ call[c].todo # <<>> /\ Op(c).value \in Data
       /\ Ancestors(call[c].key) \subseteq dirs
  /\ call[c].at = "remove" => call[c].todo # <<>>
  /\ call[c].at = "write" => Prefix(call[c].got, Op(c).value)

(* An open file has content; by its name it is the file of the call's key.  *)
OpenOf(c) ==
  call[c].at \in {"read", "write"} =>
    /\ call[c].handle # NONE /\ Content(call[c].handle) # NONE
    /\ call[c].handle \in Keys => call[c].handle = call[c].key

(* Nobody else is changing what a call is sure of. *)
AloneOf(c) ==
  \A k \in call[c].sure, d \in Callers : d # c => ~ Changing(d, k)

(* What a call is about to leave its key with is among the possible; where  *)
(* it is not alone, anything is.                                            *)
ChangeOf(c) ==
  \A k \in Keys : Changing(c, k) =>
    IF k \in call[c].sure
    THEN /\ call[c].at \in {"open", "write"} =>
              \A s \in Contents : Prefix(s, Op(c).value) => s \in possible[k]
         /\ call[c].at = "write" => call[c].handle = k /\ file[k] = call[c].got
         /\ call[c].at = "remove" => file[k] # NONE \/ k \in dirs
    ELSE k \in dirs \/ ANY \in possible[k]

(* What a call has read of a file it has to itself is how the file begins.  *)
ReadOf(c) ==
  call[c].at = "read" /\ call[c].key \in call[c].sure =>
    call[c].handle = call[c].key /\ Prefix(call[c].got, file[call[c].key])

(* A file that is there and was not found yet is below a directory still to *)
(* be walked.                                                               *)
WalkOf(c) ==
  call[c].at = "walk" =>
    \A k \in call[c].sure :
      /\ {NONE, ANY} \cap possible[k] = {} =>
           k \in call[c].found \/ call[c].left \cap Ancestors(k) # {}
      /\ possible[k] = {NONE} => k \notin call[c].found

CallInv(c) ==
  LocalsOf(c) /\ OpenOf(c) /\ AloneOf(c) /\ ChangeOf(c) /\ ReadOf(c) /\ WalkOf(c)

IInv ==
  /\ TypeInv
  /\ Rooted
  /\ KeysAreWhole
  /\ \A c \in Callers : CallInv(c)
(***************************************************************************)
(* Sequences, directories and files.                                       *)
(***************************************************************************)
LEMMA FirstOf ==
  ASSUME NEW S, NEW k \in Seq(S), NEW n \in 0 .. Len(k)
  PROVE  /\ SubSeq(k, 1, n) \in Seq(S) /\ Len(SubSeq(k, 1, n)) = n
         /\ \A i \in 1 .. n : SubSeq(k, 1, n)[i] = k[i]
OBVIOUS

LEMMA HeadIs ==
  ASSUME NEW S, NEW s \in Seq(S), s # <<>>
  PROVE  Head(s) \in S
OBVIOUS

LEMMA SameSeq ==
  ASSUME NEW S, NEW s \in Seq(S), NEW t \in Seq(S), Len(s) = Len(t),
         \A i \in 1 .. Len(s) : s[i] = t[i]
  PROVE  s = t
OBVIOUS

(* The ancestors of a path: all that is shorter and agrees with it.         *)
LEMMA AncestorIs ==
  ASSUME NEW k \in Names, NEW d
  PROVE  d \in Ancestors(k) <=>
           d \in Names /\ Len(d) < Len(k) /\ \A i \in 1 .. Len(d) : d[i] = k[i]
<1>1. ASSUME d \in Ancestors(k)
      PROVE  d \in Names /\ Len(d) < Len(k) /\ \A i \in 1 .. Len(d) : d[i] = k[i]
  <2>1. PICK n \in 0 .. Len(k) - 1 : d = SubSeq(k, 1, n)
    BY <1>1 DEF Ancestors
  <2>2. n \in 0 .. Len(k) /\ n < Len(k)
    BY DEF Names
  <2>3. /\ SubSeq(k, 1, n) \in Seq(Segments) /\ Len(SubSeq(k, 1, n)) = n
        /\ \A i \in 1 .. n : SubSeq(k, 1, n)[i] = k[i]
    BY <2>2, FirstOf DEF Names
  <2> QED
    BY <2>1, <2>2, <2>3 DEF Names
<1>2. ASSUME d \in Names, Len(d) < Len(k), \A i \in 1 .. Len(d) : d[i] = k[i]
      PROVE  d \in Ancestors(k)
  <2> DEFINE n == Len(d)
             t == SubSeq(k, 1, n)
  <2>1. n \in 0 .. Len(k) /\ n \in 0 .. Len(k) - 1
    BY <1>2 DEF Names
  <2>2. /\ t \in Seq(Segments) /\ Len(t) = n /\ \A i \in 1 .. n : t[i] = k[i]
    BY <2>1, FirstOf DEF Names
  <2>3. d = t
    <3> HIDE DEF t
    <3> QED
      BY <1>2, <2>2, SameSeq DEF Names
  <2> QED
    BY <2>1, <2>3 DEF Ancestors
<1> QED
  BY <1>1, <1>2

LEMMA AncestorsOfAncestor ==
  ASSUME NEW k \in Names, NEW d \in Ancestors(k)
  PROVE  d \in Names /\ Ancestors(d) \subseteq Ancestors(k)
<1>1. d \in Names /\ Len(d) < Len(k) /\ \A i \in 1 .. Len(d) : d[i] = k[i]
  BY AncestorIs
<1> SUFFICES ASSUME NEW e \in Ancestors(d) PROVE e \in Ancestors(k)
  BY <1>1
<1>2. e \in Names /\ Len(e) < Len(d) /\ \A i \in 1 .. Len(e) : e[i] = d[i]
  BY <1>1, AncestorIs
<1>3. Len(e) < Len(k) /\ \A i \in 1 .. Len(e) : e[i] = k[i]
  <2>1. Len(e) \in Nat /\ Len(d) \in Nat /\ Len(k) \in Nat
    BY <1>1, <1>2 DEF Names
  <2>2. \A i \in 1 .. Len(e) : i \in 1 .. Len(d)
    BY <1>2, <2>1
  <2> QED
    BY <1>1, <1>2, <2>1, <2>2
<1> QED
  BY <1>2, <1>3, AncestorIs

(* From every ancestor one step leads towards the path. *)
LEMMA TowardsKey ==
  ASSUME NEW k \in Names, NEW d \in Ancestors(k)
  PROVE  ChildOf(k, d) \/ \E e \in Ancestors(k) : ChildOf(e, d)
<1>1. d \in Names /\ Len(d) < Len(k) /\ \A i \in 1 .. Len(d) : d[i] = k[i]
  BY AncestorIs
<1> DEFINE n == Len(d)
           e == SubSeq(k, 1, n + 1)
<1>2. n \in Nat /\ Len(k) \in Nat /\ n + 1 \in 0 .. Len(k) /\ n \in 0 .. Len(k)
  BY <1>1 DEF Names
<1>3. /\ e \in Names /\ Len(e) = n + 1 /\ \A i \in 1 .. n + 1 : e[i] = k[i]
  BY <1>2, FirstOf DEF Names
<1> HIDE DEF e
<1>4. ASSUME NEW t \in Names, n \in 0 .. Len(t), \A i \in 1 .. n : t[i] = d[i]
      PROVE  SubSeq(t, 1, n) = d
  <2>1. /\ SubSeq(t, 1, n) \in Seq(Segments) /\ Len(SubSeq(t, 1, n)) = n
        /\ \A i \in 1 .. n : SubSeq(t, 1, n)[i] = t[i]
    BY <1>4, FirstOf DEF Names
  <2> QED
    BY <1>1, <1>4, <2>1, SameSeq DEF Names
<1>5. CASE Len(k) = n + 1
  <2>1. SubSeq(k, 1, n) = d
    BY <1>1, <1>2, <1>4
  <2> QED
    BY <1>5, <2>1 DEF ChildOf
<1>6. CASE Len(k) # n + 1
  <2>1. e \in Ancestors(k)
    <3>1. Len(e) < Len(k) /\ \A i \in 1 .. Len(e) : e[i] = k[i]
      BY <1>2, <1>3, <1>6
    <3> QED
      BY <1>3, <3>1, AncestorIs
  <2>2. SubSeq(e, 1, n) = d
    <3>1. n \in 0 .. Len(e) /\ \A i \in 1 .. n : e[i] = d[i]
      BY <1>1, <1>2, <1>3
    <3> QED
      BY <1>3, <1>4, <3>1
  <2>3. ChildOf(e, d)
    BY <1>3, <2>2 DEF ChildOf
  <2> QED
    BY <2>1, <2>3
<1> QED
  BY <1>5, <1>6

(* The parts of a value are what it begins with. *)
LEMMA PartIs ==
  ASSUME NEW v \in Contents, NEW s \in Contents
  PROVE  s \in Parts(v) <=> Prefix(s, v)
<1>1. ASSUME s \in Parts(v) PROVE Prefix(s, v)
  <2>1. PICK n \in 0 .. Len(v) : s = SubSeq(v, 1, n)
    BY <1>1 DEF Parts
  <2> QED
    BY <2>1, FirstOf DEF Prefix, Contents
<1>2. ASSUME Prefix(s, v) PROVE s \in Parts(v)
  <2> DEFINE n == Len(s)
             t == SubSeq(v, 1, n)
  <2>1. n \in 0 .. Len(v) /\ \A i \in 1 .. n : s[i] = v[i]
    BY <1>2 DEF Prefix, Contents
  <2>2. t \in Seq(Nat) /\ Len(t) = n /\ \A i \in 1 .. n : t[i] = v[i]
    BY <2>1, FirstOf DEF Contents
  <2>3. s = t
    <3> HIDE DEF t
    <3> QED
      BY <2>1, <2>2, SameSeq DEF Contents
  <2> QED
    BY <2>1, <2>3 DEF Parts
<1> QED
  BY <1>1, <1>2

LEMMA PrefixWhole ==
  ASSUME NEW s \in Contents, NEW t \in Contents, Prefix(s, t), Len(s) >= Len(t)
  PROVE  s = t
<1>1. Len(s) = Len(t) /\ \A i \in 1 .. Len(s) : s[i] = t[i]
  BY DEF Prefix, Contents
<1> QED
  BY <1>1, SameSeq DEF Contents

LEMMA PrefixGrows ==
  ASSUME NEW s \in Contents, NEW t \in Contents, Prefix(s, t), Len(s) < Len(t),
         NEW w, w = t[Len(s) + 1]
  PROVE  Append(s, w) \in Contents /\ Prefix(Append(s, w), t)
<1>1. Len(s) \in Nat /\ Len(t) \in Nat /\ Len(s) + 1 \in 1 .. Len(t) /\ w \in Nat
  BY DEF Contents
<1>2. /\ Append(s, w) \in Contents /\ Len(Append(s, w)) = Len(s) + 1
      /\ Append(s, w)[Len(s) + 1] = w
      /\ \A i \in 1 .. Len(s) : Append(s, w)[i] = s[i]
  BY <1>1 DEF Contents
<1>3. \A i \in 1 .. Len(s) + 1 : Append(s, w)[i] = t[i]
  BY <1>1, <1>2 DEF Prefix
<1> QED
  BY <1>1, <1>2, <1>3 DEF Prefix

LEMMA PutAtType ==
  ASSUME NEW content \in Contents, NEW position \in Nat \ {0}, NEW word \in Nat
  PROVE  PutAt(content, position, word) \in Contents
<1> DEFINE n == IF position > Len(content) THEN position ELSE Len(content)
<1>1. n \in Nat
  BY DEF Contents
<1>2. \A p \in 1 .. n : (IF p = position THEN word
                         ELSE IF p <= Len(content) THEN content[p] ELSE 0) \in Nat
  BY DEF Contents
<1> QED
  BY <1>1, <1>2 DEF PutAt, Contents

LEMMA PutAtEnd ==
  ASSUME NEW s \in Contents, NEW word \in Nat
  PROVE  PutAt(s, Len(s) + 1, word) = Append(s, word)
<1> DEFINE t == PutAt(s, Len(s) + 1, word)
           u == Append(s, word)
<1>1. Len(s) \in Nat /\ Len(s) + 1 \in Nat \ {0} /\ Len(s) + 1 > Len(s)
  BY DEF Contents
<1>2. t \in Contents
  BY <1>1, PutAtType
<1>3. t = [p \in 1 .. Len(s) + 1 |->
             IF p = Len(s) + 1 THEN word ELSE IF p <= Len(s) THEN s[p] ELSE 0]
  BY <1>1 DEF PutAt
<1>4. /\ u \in Contents /\ Len(u) = Len(s) + 1 /\ u[Len(s) + 1] = word
      /\ \A i \in 1 .. Len(s) : u[i] = s[i]
  BY DEF Contents
<1>5. Len(t) = Len(s) + 1
  BY <1>1, <1>3
<1>6. \A i \in 1 .. Len(s) + 1 : t[i] = u[i]
  <2> SUFFICES ASSUME NEW i \in 1 .. Len(s) + 1 PROVE t[i] = u[i]
    OBVIOUS
  <2>1. t[i] = IF i = Len(s) + 1 THEN word ELSE IF i <= Len(s) THEN s[i] ELSE 0
    BY <1>3
  <2> HIDE DEF t, u
  <2> QED
    BY <1>1, <1>4, <2>1
<1> HIDE DEF t, u
<1>7. t = u
  BY <1>2, <1>4, <1>5, <1>6, SameSeq DEF Contents
<1> QED
  BY <1>7 DEF t, u

(***************************************************************************)
(* The calls a step leaves alone, and the call that is over.               *)
(***************************************************************************)
LEMMA IdleCall ==
  /\ Idle \in Call
  /\ \A todo \in Ops : [Idle EXCEPT !.at = "batch", !.todo = todo] \in Call
<1>1. <<>> \in Ops /\ <<>> \in Names /\ <<>> \in Contents /\ NONE \in Handles
  BY DEF Ops, Names, Contents, Handles
<1> QED
  BY <1>1 DEF Idle, Call, Places

LEMMA CallOf ==
  ASSUME TypeInv, NEW c \in Callers
  PROVE  /\ call[c] \in Call
         /\ call[c].at \in Places /\ call[c].todo \in Ops /\ call[c].key \in Names
         /\ call[c].handle \in Handles /\ call[c].got \in Contents
         /\ call[c].left \in SUBSET Names /\ call[c].found \in SUBSET Keys
         /\ call[c].sure \in SUBSET Keys
<1>1. call[c] \in Call
  BY DEF TypeInv
<1> QED
  BY <1>1 DEF Call

LEMMA CallStep ==
  ASSUME TypeInv, NEW c \in Callers, NEW v \in Call, call' = [call EXCEPT ![c] = v]
  PROVE  /\ call' \in [Callers -> Call]
         /\ call'[c] = v
         /\ \A d \in Callers : d # c => call'[d] = call[d]
BY DEF TypeInv

(* Who neither works on a key nor is sure of one has nothing to lose. *)
LEMMA AtRest ==
  ASSUME NEW c \in Callers, call'[c].at \in {"idle", "batch"},
         call'[c].got = <<>>, call'[c].sure = {}
  PROVE  CallInv(c)'
<1>1. LocalsOf(c)'
  BY DEF LocalsOf
<1>2. OpenOf(c)'
  BY DEF OpenOf
<1>3. AloneOf(c)'
  BY DEF AloneOf
<1>4. ChangeOf(c)'
  BY DEF ChangeOf, Changing
<1>5. ReadOf(c)'
  BY DEF ReadOf
<1>6. WalkOf(c)'
  BY DEF WalkOf
<1> QED
  BY <1>1, <1>2, <1>3, <1>4, <1>5, <1>6 DEF CallInv

(* What a call may lose to others without a break of its promises: keys it  *)
(* was sure of, and the name of the file it has open.                       *)
LEMMA Kept ==
  ASSUME TypeInv, NEW d \in Callers, CallInv(d),
         call'[d].at = call[d].at, call'[d].todo = call[d].todo,
         call'[d].key = call[d].key, call'[d].got = call[d].got,
         call'[d].left = call[d].left, call'[d].found = call[d].found,
         call'[d].sure \subseteq call[d].sure,
         dirs \subseteq dirs',
         call[d].at \in {"read", "write"} =>
           /\ call'[d].handle # NONE /\ Content(call[d].handle)' # NONE
           /\ call'[d].handle \in Keys => call'[d].handle = call[d].key
           /\ call[d].key \in call'[d].sure => call'[d].handle = call[d].handle,
         \A k \in call'[d].sure : file'[k] = file[k] /\ possible'[k] = possible[k],
         AloneOf(d)',
         \A k \in Keys : Changing(d, k) /\ k \notin call'[d].sure =>
           k \in dirs' \/ ANY \in possible'[k]
  PROVE  CallInv(d)'
<1>1. LocalsOf(d)'
  BY DEF CallInv, LocalsOf, Op
<1>2. OpenOf(d)'
  BY DEF OpenOf
<1>3. ChangeOf(d)'
  <2> SUFFICES ASSUME NEW k \in Keys, Changing(d, k)'
               PROVE  (IF k \in call[d].sure
                       THEN /\ call[d].at \in {"open", "write"} =>
                                 \A s \in Contents : Prefix(s, Op(d).value) => s \in possible[k]
                            /\ call[d].at = "write" => call[d].handle = k /\ file[k] = call[d].got
                            /\ call[d].at = "remove" => file[k] # NONE \/ k \in dirs
                       ELSE k \in dirs \/ ANY \in possible[k])'
    BY DEF ChangeOf
  <2>1. Changing(d, k)
    BY DEF Changing
  <2>2. CASE k \in call'[d].sure
    <3>1. /\ call[d].at \in {"open", "write"} =>
               \A s \in Contents : Prefix(s, Op(d).value) => s \in possible[k]
          /\ call[d].at = "write" => call[d].handle = k /\ file[k] = call[d].got
          /\ call[d].at = "remove" => file[k] # NONE \/ k \in dirs
      BY <2>1, <2>2 DEF CallInv, ChangeOf
    <3>2. Op(d)' = Op(d)
      BY DEF Op
    <3>3. call[d].key = k
      BY <2>1 DEF Changing
    <3> QED
      BY <2>2, <3>1, <3>2, <3>3
  <2>3. CASE k \notin call'[d].sure
    BY <2>1, <2>3
  <2> QED
    BY <2>2, <2>3
<1>4. ReadOf(d)'
  BY DEF CallInv, ReadOf
<1>5. WalkOf(d)'
  BY DEF CallInv, WalkOf
<1> QED
  BY <1>1, <1>2, <1>3, <1>4, <1>5 DEF CallInv
LEMMA ClosesOwn ==
  ASSUME TypeInv, NEW c \in Callers, Close(c)
  PROVE  /\ orphan' \in [Callers -> Contents \cup {NONE}]
         /\ \A d \in Callers : d # c =>
              \A o \in Callers : call[d].handle = o => orphan'[o] = orphan[o]
BY DEF Close, TypeInv

(* A step that changes no file but the one the call was changing already.   *)
LEMMA OthersStand ==
  ASSUME IInv, NEW c \in Callers,
         \A d \in Callers : d # c => call'[d] = call[d],
         dirs \subseteq dirs',
         \A k \in Keys : Changing(c, k)' => Changing(c, k),
         \A k \in Keys : ~ Changing(c, k) => file'[k] = file[k] /\ possible'[k] = possible[k],
         \A k \in Keys : file[k] # NONE => file'[k] # NONE,
         \A d \in Callers : d # c =>
           \A o \in Callers : call[d].handle = o /\ orphan[o] # NONE => orphan'[o] # NONE,
         \A k \in Keys : Changing(c, k) /\ k \notin call[c].sure /\ ANY \in possible[k] =>
           k \in dirs \/ ANY \in possible'[k]
  PROVE  \A d \in Callers : d # c => CallInv(d)'
<1> SUFFICES ASSUME NEW d \in Callers, d # c PROVE CallInv(d)'
  OBVIOUS
<1>1. TypeInv /\ CallInv(d) /\ CallInv(c)
  BY DEF IInv
<1>2. call'[d] = call[d]
  OBVIOUS
<1>3. call[d].handle \in Handles /\ call[d].sure \in SUBSET Keys
  BY <1>1, CallOf
<1>4. ASSUME call[d].at \in {"read", "write"}
      PROVE  /\ call'[d].handle # NONE /\ Content(call[d].handle)' # NONE
             /\ call'[d].handle \in Keys => call'[d].handle = call[d].key
             /\ call[d].key \in call'[d].sure => call'[d].handle = call[d].handle
  <2>1. /\ call[d].handle # NONE /\ Content(call[d].handle) # NONE
        /\ call[d].handle \in Keys => call[d].handle = call[d].key
    BY <1>1, <1>4 DEF CallInv, OpenOf
  <2>2. Content(call[d].handle)' # NONE
    <3>1. CASE call[d].handle \in Keys
      <4>1. file[call[d].handle] # NONE
        BY <2>1, <3>1 DEF Content
      <4>2. file'[call[d].handle] # NONE
        BY <3>1, <4>1
      <4> QED
        BY <1>2, <3>1, <4>2 DEF Content
    <3>2. CASE call[d].handle \notin Keys
      <4>1. call[d].handle \in Callers
        BY <1>3, <2>1, <3>2 DEF Handles
      <4>2. orphan[call[d].handle] # NONE
        BY <2>1, <3>2 DEF Content
      <4>3. orphan'[call[d].handle] # NONE
        BY <4>1, <4>2
      <4> QED
        BY <1>2, <3>2, <4>3 DEF Content
    <3> QED
      BY <3>1, <3>2
  <2> QED
    BY <1>2, <2>1, <2>2
<1>5. \A k \in call[d].sure : ~ Changing(c, k)
  BY <1>1 DEF CallInv, AloneOf
<1>6. \A k \in call'[d].sure : file'[k] = file[k] /\ possible'[k] = possible[k]
  BY <1>2, <1>3, <1>5
<1>7. AloneOf(d)'
  <2> SUFFICES ASSUME NEW k \in call'[d].sure, NEW e \in Callers, e # d, Changing(e, k)'
               PROVE  FALSE
    BY DEF AloneOf
  <2>1. k \in call[d].sure /\ k \in Keys
    BY <1>2, <1>3
  <2>2. Changing(e, k)
    BY <2>1 DEF Changing
  <2> QED
    BY <1>1, <2>1, <2>2 DEF CallInv, AloneOf
<1>8. ASSUME NEW k \in Keys, Changing(d, k), k \notin call'[d].sure
      PROVE  k \in dirs' \/ ANY \in possible'[k]
  <2>1. k \in dirs \/ ANY \in possible[k]
    BY <1>1, <1>2, <1>8 DEF CallInv, ChangeOf
  <2>2. k \notin call[c].sure
    BY <1>1, <1>8 DEF CallInv, AloneOf
  <2> QED
    BY <2>1, <2>2
<1> HIDE DEF IInv
<1> QED
  <2>1. dirs \subseteq dirs'
    OBVIOUS
  <2>2. /\ call'[d].at = call[d].at /\ call'[d].todo = call[d].todo
        /\ call'[d].key = call[d].key /\ call'[d].got = call[d].got
        /\ call'[d].left = call[d].left /\ call'[d].found = call[d].found
        /\ call'[d].sure \subseteq call[d].sure
    BY <1>2
  <2>3. call[d].at \in {"read", "write"} =>
           /\ call'[d].handle # NONE /\ Content(call[d].handle)' # NONE
           /\ call'[d].handle \in Keys => call'[d].handle = call[d].key
           /\ call[d].key \in call'[d].sure => call'[d].handle = call[d].handle
    BY <1>4
  <2>4. \A k \in Keys : Changing(d, k) /\ k \notin call'[d].sure =>
           k \in dirs' \/ ANY \in possible'[k]
    BY <1>8
  <2> QED
    BY <1>1, <1>6, <1>7, <2>1, <2>2, <2>3, <2>4, Kept

(* A step that changes no file and makes directories at most. *)
LEMMA GrownStep ==
  ASSUME IInv, NEW c \in Callers, NEW v \in Call, call' = [call EXCEPT ![c] = v],
         \A k \in Keys : Changing(c, k)' => Changing(c, k),
         Close(c) \/ UNCHANGED orphan, UNCHANGED <<file, possible>>,
         dirs \subseteq dirs', dirs' \in SUBSET Names, Rooted', CallInv(c)'
  PROVE  IInv'
<1>1. TypeInv
  BY DEF IInv
<1>2. /\ call' \in [Callers -> Call] /\ \A d \in Callers : d # c => call'[d] = call[d]
  BY <1>1, CallStep
<1>3. orphan' \in [Callers -> Contents \cup {NONE}]
  BY <1>1, ClosesOwn DEF TypeInv
<1>4. TypeInv'
  BY <1>1, <1>2, <1>3 DEF TypeInv
<1>5. KeysAreWhole'
  BY DEF IInv, KeysAreWhole
<1>6. \A d \in Callers : d # c =>
        \A o \in Callers : call[d].handle = o /\ orphan[o] # NONE => orphan'[o] # NONE
  BY <1>1, ClosesOwn
<1>7. \A d \in Callers : d # c => CallInv(d)'
  <2>1. file' = file /\ possible' = possible
    OBVIOUS
  <2>2. \A k \in Keys : ~ Changing(c, k) => file'[k] = file[k] /\ possible'[k] = possible[k]
    BY <2>1
  <2>3. \A k \in Keys : file[k] # NONE => file'[k] # NONE
    BY <2>1
  <2>4. \A k \in Keys : Changing(c, k) /\ k \notin call[c].sure /\ ANY \in possible[k] =>
          k \in dirs \/ ANY \in possible'[k]
    BY <2>1
  <2> QED
    BY <1>2, <1>6, <2>1, <2>2, <2>3, <2>4, OthersStand
<1> QED
  BY <1>4, <1>5, <1>7 DEF IInv

(* A step that changes no file and no directory. *)
LEMMA StillStep ==
  ASSUME IInv, NEW c \in Callers, NEW v \in Call, call' = [call EXCEPT ![c] = v],
         \A k \in Keys : Changing(c, k)' => Changing(c, k),
         Close(c) \/ UNCHANGED orphan, UNCHANGED <<dirs, file, possible>>, CallInv(c)'
  PROVE  IInv'
<1>1. dirs \subseteq dirs' /\ dirs' \in SUBSET Names /\ Rooted'
  BY DEF IInv, TypeInv, Rooted
<1> QED
  BY <1>1, GrownStep

(***************************************************************************)
(* The calls that change no file.                                          *)
(***************************************************************************)
LEMMA InitHolds == Init => IInv
<1> SUFFICES ASSUME Init PROVE IInv
  OBVIOUS
<1>1. Idle \in Call
  BY IdleCall
<1>2. TypeInv
  <2>1. <<>> \in Names /\ dirs = {<<>>}
    BY DEF Init, Names
  <2>2. dirs \in SUBSET Names
    BY <2>1
  <2>3. /\ file \in [Keys -> Contents \cup {NONE}]
        /\ orphan \in [Callers -> Contents \cup {NONE}]
        /\ possible \in [Keys -> SUBSET (Contents \cup {NONE, ANY})]
    BY DEF Init
  <2>4. call \in [Callers -> Call]
    BY <1>1 DEF Init
  <2> QED
    BY <2>2, <2>3, <2>4 DEF TypeInv
<1>3. Rooted
  <2>1. dirs = {<<>>} /\ \A k \in Keys : file[k] = NONE
    BY DEF Init
  <2>2. Ancestors(<<>>) = {}
    <3>1. Len(<<>>) = 0 /\ 0 .. 0 - 1 = {}
      OBVIOUS
    <3> QED
      BY <3>1 DEF Ancestors
  <2> QED
    BY <2>1, <2>2 DEF Rooted
<1>4. KeysAreWhole
  BY DEF Init, KeysAreWhole
<1>5. ASSUME NEW c \in Callers PROVE CallInv(c)
  <2>1. call[c] = Idle
    BY DEF Init
  <2>2. call[c].at = "idle" /\ call[c].got = <<>> /\ call[c].sure = {}
    BY <2>1 DEF Idle
  <2> QED
    BY <2>2 DEF CallInv, LocalsOf, OpenOf, AloneOf, ChangeOf, Changing, ReadOf, WalkOf
<1> QED
  BY <1>2, <1>3, <1>4, <1>5 DEF IInv

LEMMA GiveUpStep ==
  ASSUME IInv, NEW c \in Callers, NEW value, Returns(c, value),
         UNCHANGED <<file, possible>>,
         dirs \subseteq dirs', dirs' \in SUBSET Names, Rooted'
  PROVE  IInv'
<1>1. TypeInv /\ Idle \in Call /\ call' = [call EXCEPT ![c] = Idle] /\ Close(c)
  BY IdleCall DEF IInv, Returns
<1>2. call'[c] = Idle
  BY <1>1, CallStep
<1>3. call'[c].at = "idle" /\ call'[c].got = <<>> /\ call'[c].sure = {}
  BY <1>2 DEF Idle
<1>4. CallInv(c)'
  BY <1>3, AtRest
<1>5. \A k \in Keys : Changing(c, k)' => Changing(c, k)
  BY <1>3 DEF Changing
<1> QED
  BY <1>1, <1>4, <1>5, GrownStep

LEMMA ReturnStep ==
  ASSUME IInv, NEW c \in Callers, NEW value, Returns(c, value),
         UNCHANGED <<dirs, file, possible>>
  PROVE  IInv'
<1>1. dirs \subseteq dirs' /\ dirs' \in SUBSET Names /\ Rooted'
  BY DEF IInv, TypeInv, Rooted
<1> QED
  BY <1>1, GiveUpStep

LEMMA BatchStep ==
  ASSUME IInv, NEW c \in Callers, NEW ops \in Batches, Batch(c, ops)
  PROVE  IInv'
<1> DEFINE v == [Idle EXCEPT !.at = "batch", !.todo = ops]
<1>1. ops \in Ops
  BY FsAssumption DEF Ops
<1>2. TypeInv /\ v \in Call /\ call' = [call EXCEPT ![c] = v] /\ UNCHANGED orphan
      /\ UNCHANGED <<dirs, file, possible>>
  BY <1>1, IdleCall DEF IInv, Batch
<1>3. v.at = "batch" /\ v.got = <<>> /\ v.sure = {}
  BY DEF Idle
<1> HIDE DEF v
<1>4. call'[c] = v
  BY <1>2, CallStep
<1>5. CallInv(c)'
  BY <1>3, <1>4, AtRest
<1>6. \A k \in Keys : Changing(c, k)' => Changing(c, k)
  BY <1>3, <1>4 DEF Changing
<1> QED
  BY <1>2, <1>5, <1>6, StillStep

LEMMA ReadStep ==
  ASSUME IInv, NEW c \in Callers, NEW k \in Keys, Read(c, k)
  PROVE  IInv'
<1>1. UNCHANGED <<dirs, file, possible>>
  BY DEF Read
<1>2. CASE file[k] # NONE
  <2> DEFINE v == [Idle EXCEPT !.at = "read", !.key = k, !.handle = k,
                                              !.sure = {k} \cap Quiet]
  <2>1. TypeInv /\ call' = [call EXCEPT ![c] = v] /\ UNCHANGED orphan
    BY <1>2 DEF IInv, Read, Reading
  <2>2. v \in Call
    <3>1. <<>> \in Ops /\ k \in Names /\ <<>> \in Contents /\ k \in Handles
          /\ {k} \cap Quiet \in SUBSET Keys
      BY FsAssumption DEF Ops, Names, Contents, Handles
    <3> QED
      BY <3>1 DEF Idle, Call, Places
  <2>4. /\ v.at = "read" /\ v.key = k /\ v.handle = k /\ v.got = <<>>
        /\ v.sure = {k} \cap Quiet
    BY DEF Idle
  <2> HIDE DEF v
  <2>5. call'[c] = v /\ \A d \in Callers : d # c => call'[d] = call[d]
    BY <2>1, <2>2, CallStep
  <2>6. \A j \in Keys : Changing(c, j)' => Changing(c, j)
    BY <2>4, <2>5 DEF Changing
  <2>7. CallInv(c)'
    <3>1. LocalsOf(c)'
      BY <2>4, <2>5 DEF LocalsOf
    <3>2. OpenOf(c)'
      <4>1. Content(k)' # NONE /\ k # NONE
        BY <1>1, <1>2, FsAssumption DEF Content
      <4>2. call'[c].handle = k /\ call'[c].key = k
        BY <2>4, <2>5
      <4> QED
        BY <4>1, <4>2 DEF OpenOf, Content
    <3>3. AloneOf(c)'
      <4> SUFFICES ASSUME NEW j \in call'[c].sure, NEW d \in Callers, d # c, Changing(d, j)'
                   PROVE  FALSE
        BY DEF AloneOf
      <4>1. j \in Quiet
        BY <2>4, <2>5
      <4>2. Changing(d, j)
        BY <2>5 DEF Changing
      <4> QED
        BY <4>1, <4>2 DEF Quiet, Busy
    <3>4. ChangeOf(c)'
      BY <2>4, <2>5 DEF ChangeOf, Changing
    <3>5. ReadOf(c)'
      <4>1. Prefix(<<>>, file'[k])
        <5>1. file[k] \in Contents /\ file' = file
          BY <1>1, <1>2, <2>1 DEF TypeInv
        <5> QED
          BY <5>1 DEF Prefix, Contents
      <4> QED
        BY <2>4, <2>5, <4>1 DEF ReadOf
    <3>6. WalkOf(c)'
      BY <2>4, <2>5 DEF WalkOf
    <3> QED
      BY <3>1, <3>2, <3>3, <3>4, <3>5, <3>6 DEF CallInv
  <2> QED
    BY <1>1, <2>1, <2>2, <2>6, <2>7, StillStep
<1>3. CASE file[k] = NONE
  <2>1. Returns(c, IF Blocked(k) \/ k \in dirs THEN FAILED ELSE NONE)
    BY <1>3 DEF Read
  <2> QED
    BY <1>1, <2>1, ReturnStep
<1> QED
  BY <1>2, <1>3
(* What a call has open is a file with content. *)
LEMMA OpenContent ==
  ASSUME IInv, NEW c \in Callers, call[c].at \in {"read", "write"}
  PROVE  /\ Content(call[c].handle) \in Contents
         /\ call[c].handle \in Keys \/ call[c].handle \in Callers
<1>1. TypeInv /\ call[c].handle \in Handles
  BY CallOf DEF IInv
<1>2. call[c].handle # NONE /\ Content(call[c].handle) # NONE
  BY DEF IInv, CallInv, OpenOf
<1>3. CASE call[c].handle \in Keys
  BY <1>1, <1>2, <1>3 DEF Content, TypeInv
<1>4. CASE call[c].handle \notin Keys
  <2>1. call[c].handle \in Callers
    BY <1>1, <1>2, <1>4 DEF Handles
  <2> QED
    BY <1>1, <1>2, <1>4, <2>1 DEF Content, TypeInv
<1> QED
  BY <1>3, <1>4

(* Nobody begins a change in a step that changes one call and no place. *)
LEMMA AloneStill ==
  ASSUME NEW c \in Callers, AloneOf(c), call'[c].sure = call[c].sure,
         \A d \in Callers : d # c => call'[d] = call[d]
  PROVE  AloneOf(c)'
BY DEF AloneOf, Changing

LEMMA ReadWordStep ==
  ASSUME IInv, NEW c \in Callers, ReadWord(c)
  PROVE  IInv'
<1> DEFINE h       == call[c].handle
           content == Content(h)
           got     == call[c].got
           w       == content[Len(got) + 1]
           v       == [call[c] EXCEPT !.got = Append(got, w)]
<1>1. TypeInv /\ CallInv(c) /\ call[c] \in Call /\ got \in Contents
  BY CallOf DEF IInv
<1>2. /\ call[c].at = "read" /\ Len(got) < Len(content) /\ call' = [call EXCEPT ![c] = v]
      /\ UNCHANGED <<dirs, file, orphan, possible>>
  BY DEF ReadWord, At
<1>3. content \in Contents
  BY <1>2, OpenContent
<1>4. w \in Nat /\ Append(got, w) \in Contents
  <2> HIDE DEF content, got
  <2>1. Len(got) \in Nat /\ Len(content) \in Nat /\ Len(got) + 1 \in 1 .. Len(content)
    BY <1>1, <1>2, <1>3 DEF Contents
  <2> QED
    BY <1>1, <1>3, <2>1 DEF Contents
<1> HIDE DEF content, w
<1>5. v \in Call
  BY <1>1, <1>4 DEF Call
<1>6. /\ v.at = "read" /\ v.todo = call[c].todo /\ v.key = call[c].key /\ v.handle = h
      /\ v.got = Append(got, w) /\ v.sure = call[c].sure
  BY <1>1, <1>2 DEF Call
<1> HIDE DEF v
<1>7. call'[c] = v /\ \A d \in Callers : d # c => call'[d] = call[d]
  BY <1>1, <1>2, <1>5, CallStep
<1>8. \A k \in Keys : Changing(c, k)' => Changing(c, k)
  BY <1>6, <1>7 DEF Changing
<1>9. CallInv(c)'
  <2>1. LocalsOf(c)'
    BY <1>1, <1>2, <1>6, <1>7 DEF LocalsOf, CallInv
  <2>2. OpenOf(c)'
    <3>1. h # NONE /\ Content(h) # NONE /\ (h \in Keys => h = call[c].key)
      BY <1>1, <1>2 DEF CallInv, OpenOf
    <3>2. Content(h)' # NONE
      BY <1>2, <1>6, <1>7, <3>1 DEF Content
    <3>3. call'[c].handle = h /\ call'[c].key = call[c].key
      BY <1>6, <1>7
    <3> QED
      BY <1>2, <3>1, <3>2, <3>3 DEF OpenOf
  <2>3. AloneOf(c)'
    BY <1>1, <1>6, <1>7, AloneStill DEF CallInv
  <2>4. ChangeOf(c)'
    BY <1>6, <1>7 DEF ChangeOf, Changing
  <2>5. ReadOf(c)'
    <3> SUFFICES ASSUME call[c].key \in call[c].sure
                 PROVE  h = call[c].key /\ Prefix(Append(got, w), file[call[c].key])
      BY <1>2, <1>6, <1>7 DEF ReadOf
    <3>1. h = call[c].key /\ Prefix(got, file[call[c].key]) /\ call[c].key \in Keys
      BY <1>1, <1>2 DEF CallInv, ReadOf, LocalsOf
    <3>2. content = file[call[c].key]
      BY <3>1 DEF content, Content
    <3>3. w = content[Len(got) + 1]
      BY DEF w
    <3> HIDE DEF got
    <3>4. Prefix(Append(got, w), content)
      BY <1>1, <1>2, <1>3, <3>1, <3>2, <3>3, PrefixGrows
    <3> QED
      BY <3>1, <3>2, <3>4
  <2>6. WalkOf(c)'
    BY <1>6, <1>7 DEF WalkOf
  <2> QED
    BY <2>1, <2>2, <2>3, <2>4, <2>5, <2>6 DEF CallInv
<1> QED
  BY <1>2, <1>5, <1>8, <1>9, StillStep

LEMMA ListStep ==
  ASSUME IInv, NEW c \in Callers, NEW p \in Prefixes, List(c, p)
  PROVE  IInv'
<1>1. UNCHANGED <<dirs, file, possible>>
  BY DEF List
<1>2. CASE p \in dirs
  <2> DEFINE v == [Idle EXCEPT !.at = "walk", !.key = p, !.left = {p},
                               !.sure = Quiet \cap Under(p)]
  <2>1. TypeInv /\ call' = [call EXCEPT ![c] = v] /\ UNCHANGED orphan
    BY <1>2 DEF IInv, List
  <2>2. v \in Call
    <3>1. /\ <<>> \in Ops /\ p \in Names /\ <<>> \in Contents /\ NONE \in Handles
          /\ {p} \in SUBSET Names /\ Quiet \cap Under(p) \in SUBSET Keys
      BY FsAssumption DEF Ops, Names, Contents, Handles, Quiet
    <3> QED
      BY <3>1 DEF Idle, Call, Places
  <2>3. /\ v.at = "walk" /\ v.key = p /\ v.got = <<>> /\ v.left = {p} /\ v.found = {}
        /\ v.sure = Quiet \cap Under(p)
    BY DEF Idle
  <2> HIDE DEF v
  <2>4. call'[c] = v /\ \A d \in Callers : d # c => call'[d] = call[d]
    BY <2>1, <2>2, CallStep
  <2>5. \A k \in Keys : Changing(c, k)' => Changing(c, k)
    BY <2>3, <2>4 DEF Changing
  <2>6. CallInv(c)'
    <3>1. LocalsOf(c)' /\ OpenOf(c)'
      BY <2>3, <2>4 DEF LocalsOf, OpenOf
    <3>2. AloneOf(c)'
      <4> SUFFICES ASSUME NEW k \in call'[c].sure, NEW d \in Callers, d # c, Changing(d, k)'
                   PROVE  FALSE
        BY DEF AloneOf
      <4>1. k \in Quiet
        BY <2>3, <2>4
      <4>2. Changing(d, k)
        BY <2>4 DEF Changing
      <4> QED
        BY <4>1, <4>2 DEF Quiet, Busy
    <3>3. ChangeOf(c)' /\ ReadOf(c)'
      BY <2>3, <2>4 DEF ChangeOf, Changing, ReadOf
    <3>4. WalkOf(c)'
      <4>1. \A k \in Under(p) : {p} \cap Ancestors(k) # {}
        BY DEF Under
      <4> QED
        BY <2>3, <2>4, <4>1 DEF WalkOf
    <3> QED
      BY <3>1, <3>2, <3>3, <3>4 DEF CallInv
  <2> QED
    BY <1>1, <2>1, <2>2, <2>5, <2>6, StillStep
<1>3. CASE p \notin dirs
  <2>1. Returns(c, [keys |-> {}])
    BY <1>3 DEF List
  <2> QED
    BY <1>1, <2>1, ReturnStep
<1> QED
  BY <1>2, <1>3

LEMMA WalkStep ==
  ASSUME IInv, NEW c \in Callers, Walk(c)
  PROVE  IInv'
<1>1. PICK d \in call[c].left :
        call' = [call EXCEPT
          ![c].left = (@ \ {d}) \cup { e \in dirs : ChildOf(e, d) },
          ![c].found = @ \cup { k \in Keys : file[k] # NONE /\ ChildOf(k, d) }]
  BY DEF Walk
<1> DEFINE left  == (call[c].left \ {d}) \cup { e \in dirs : ChildOf(e, d) }
           found == call[c].found \cup { k \in Keys : file[k] # NONE /\ ChildOf(k, d) }
           v     == [call[c] EXCEPT !.left = left, !.found = found]
<1>2. TypeInv /\ CallInv(c) /\ Rooted /\ KeysAreWhole /\ call[c] \in Call
  BY CallOf DEF IInv
<1>3. /\ call[c].at = "walk" /\ call' = [call EXCEPT ![c] = v]
      /\ UNCHANGED <<dirs, file, orphan, possible>>
  BY <1>1 DEF Walk, At
<1>4. left \in SUBSET Names /\ found \in SUBSET Keys /\ call[c].sure \in SUBSET Keys
  <2>1. dirs \in SUBSET Names
    BY <1>2 DEF TypeInv
  <2> QED
    BY <1>2, <2>1, CallOf
<1> HIDE DEF left, found
<1>5. v \in Call
  BY <1>2, <1>4 DEF Call
<1>6. /\ v.at = "walk" /\ v.got = call[c].got /\ v.sure = call[c].sure
      /\ v.left = left /\ v.found = found
  BY <1>2, <1>3 DEF Call
<1> HIDE DEF v
<1>7. call'[c] = v /\ \A e \in Callers : e # c => call'[e] = call[e]
  BY <1>2, <1>3, <1>5, CallStep
<1>8. \A k \in Keys : Changing(c, k)' => Changing(c, k)
  BY <1>6, <1>7 DEF Changing
<1>9. CallInv(c)'
  <2>1. LocalsOf(c)' /\ OpenOf(c)'
    BY <1>6, <1>7 DEF LocalsOf, OpenOf
  <2>2. AloneOf(c)'
    BY <1>2, <1>6, <1>7, AloneStill DEF CallInv
  <2>3. ChangeOf(c)' /\ ReadOf(c)'
    BY <1>6, <1>7 DEF ChangeOf, Changing, ReadOf
  <2>4. WalkOf(c)'
    <3> SUFFICES ASSUME NEW k \in call[c].sure
                 PROVE  /\ {NONE, ANY} \cap possible[k] = {} =>
                             k \in found \/ left \cap Ancestors(k) # {}
                        /\ possible[k] = {NONE} => k \notin found
      BY <1>3, <1>6, <1>7 DEF WalkOf
    <3>1. /\ {NONE, ANY} \cap possible[k] = {} =>
                k \in call[c].found \/ call[c].left \cap Ancestors(k) # {}
          /\ possible[k] = {NONE} => k \notin call[c].found
      BY <1>2, <1>3 DEF CallInv, WalkOf
    <3>2. k \in Keys /\ k \in Names /\ (ANY \in possible[k] \/ file[k] \in possible[k])
      BY <1>2, <1>4, FsAssumption DEF KeysAreWhole, Names
    <3>3. ASSUME {NONE, ANY} \cap possible[k] = {}, k \notin call[c].found,
                 d \in Ancestors(k)
          PROVE  k \in found \/ left \cap Ancestors(k) # {}
      <4>1. file[k] # NONE
        BY <3>2, <3>3
      <4>2. Ancestors(k) \subseteq dirs
        BY <1>2, <3>2, <4>1 DEF Rooted
      <4>3. CASE ChildOf(k, d)
        BY <3>2, <4>1, <4>3 DEF found
      <4>4. CASE \E e \in Ancestors(k) : ChildOf(e, d)
        BY <4>2, <4>4 DEF left
      <4> QED
        BY <3>2, <3>3, <4>3, <4>4, TowardsKey
    <3>4. ASSUME {NONE, ANY} \cap possible[k] = {}, d \notin Ancestors(k)
          PROVE  k \in found \/ left \cap Ancestors(k) # {}
      BY <3>1, <3>4 DEF left, found
    <3>5. ASSUME {NONE, ANY} \cap possible[k] = {}, k \in call[c].found PROVE k \in found
      BY <3>5 DEF found
    <3>6. ASSUME possible[k] = {NONE} PROVE k \notin found
      <4>1. file[k] = NONE
        BY <3>2, <3>6, FsAssumption
      <4> QED
        BY <3>1, <3>6, <4>1 DEF found
    <3> QED
      BY <3>3, <3>4, <3>5, <3>6
  <2> QED
    BY <2>1, <2>2, <2>3, <2>4 DEF CallInv
<1> QED
  BY <1>3, <1>5, <1>8, <1>9, StillStep
(***************************************************************************)
(* The beginning of a change, and the restart.                             *)
(***************************************************************************)
(* A call begins to change a key: it is alone at it, and may leave it with  *)
(* what it is to do, or it is not, and nobody can tell what will be left.   *)
LEMMA BeginStep ==
  ASSUME IInv, NEW c \in Callers, NEW k \in Keys, NEW place \in {"open", "remove"},
         NEW outcomes \in SUBSET (Contents \cup {NONE, ANY}),
         call[c].at = "batch", call[c].todo # <<>>, Begin(c, k, place, outcomes),
         UNCHANGED <<file, orphan>>, dirs \subseteq dirs', dirs' \in SUBSET Names, Rooted',
         place = "open" =>
           /\ Op(c).value \in Data /\ outcomes = Parts(Op(c).value)
           /\ Ancestors(k) \subseteq dirs',
         place = "remove" => file[k] # NONE \/ k \in dirs
  PROVE  IInv'
<1>1. TypeInv /\ KeysAreWhole /\ CallInv(c) /\ call[c] \in Call
  BY CallOf DEF IInv
<1> DEFINE v == [call[c] EXCEPT !.at = place, !.key = k,
                                !.sure = IF Busy(k) THEN {} ELSE {k}]
           w(d) == [call[d] EXCEPT !.sure = @ \ {k}]
<1>2. /\ call' = [d \in Callers |-> IF d = c THEN v ELSE w(d)]
      /\ possible' = [possible EXCEPT ![k] = IF Busy(k) THEN {ANY} ELSE @ \cup outcomes]
  BY DEF Begin
<1>3. k \in Names
  BY FsAssumption DEF Names
<1>4. /\ v \in Call /\ v.at = place /\ v.key = k /\ v.todo = call[c].todo
      /\ v.got = call[c].got /\ v.sure = IF Busy(k) THEN {} ELSE {k}
  <2> DEFINE s == IF Busy(k) THEN {} ELSE {k}
  <2>1. s \in SUBSET Keys /\ place \in Places
    BY DEF Places
  <2> HIDE DEF s
  <2> QED
    BY <1>1, <1>3, <2>1 DEF Call
<1>5. ASSUME NEW d \in Callers
      PROVE  /\ w(d) \in Call /\ w(d).at = call[d].at /\ w(d).todo = call[d].todo
             /\ w(d).key = call[d].key /\ w(d).handle = call[d].handle
             /\ w(d).got = call[d].got /\ w(d).left = call[d].left
             /\ w(d).found = call[d].found /\ w(d).sure = call[d].sure \ {k}
  <2>1. call[d] \in Call
    BY <1>1, CallOf
  <2> QED
    BY <2>1 DEF Call
<1> HIDE DEF v, w
<1>6. call'[c] = v /\ \A d \in Callers : d # c => call'[d] = w(d)
  BY <1>2
<1>7. call' \in [Callers -> Call]
  BY <1>2, <1>4, <1>5
<1>8. /\ possible'[k] = IF Busy(k) THEN {ANY} ELSE possible[k] \cup outcomes
      /\ \A j \in Keys : j # k => possible'[j] = possible[j]
      /\ possible' \in [Keys -> SUBSET (Contents \cup {NONE, ANY})]
  BY <1>1, <1>2 DEF TypeInv
<1>9. TypeInv'
  BY <1>1, <1>7, <1>8 DEF TypeInv
<1>10. KeysAreWhole'
  BY <1>1, <1>8 DEF KeysAreWhole
<1>11. \A d \in Callers, j \in Keys : d # c /\ Changing(d, j)' => Changing(d, j)
  BY <1>5, <1>6 DEF Changing
<1>12. CallInv(c)'
  <2>1. LocalsOf(c)'
    <3>1. call[c].got = <<>>
      BY <1>1 DEF CallInv, LocalsOf
    <3>2. Op(c)' = Op(c)
      BY <1>4, <1>6 DEF Op
    <3> QED
      BY <1>4, <1>6, <3>1, <3>2 DEF LocalsOf
  <2>2. OpenOf(c)' /\ ReadOf(c)' /\ WalkOf(c)'
    BY <1>4, <1>6 DEF OpenOf, ReadOf, WalkOf
  <2>3. AloneOf(c)'
    <3> SUFFICES ASSUME NEW j \in call'[c].sure, NEW d \in Callers, d # c, Changing(d, j)'
                 PROVE  FALSE
      BY DEF AloneOf
    <3>1. j = k /\ ~ Busy(k)
      BY <1>4, <1>6
    <3>2. Changing(d, k)
      BY <1>11, <3>1
    <3> QED
      BY <3>1, <3>2 DEF Busy
  <2>4. ChangeOf(c)'
    <3>1. \A j \in Keys : Changing(c, j)' => j = k
      BY <1>4, <1>6 DEF Changing
    <3>2. CASE Busy(k)
      <4>1. call'[c].sure = {} /\ ANY \in possible'[k]
        BY <1>4, <1>6, <1>8, <3>2
      <4> QED
        BY <3>1, <4>1 DEF ChangeOf
    <3>3. CASE ~ Busy(k)
      <4>1. call'[c].sure = {k} /\ outcomes \subseteq possible'[k]
        BY <1>4, <1>6, <1>8, <3>3
      <4>2. call'[c].at \in {"open", "write"} =>
              \A s \in Contents : Prefix(s, Op(c)'.value) => s \in possible'[k]
        <5>1. Op(c)' = Op(c)
          BY <1>4, <1>6 DEF Op
        <5>2. ASSUME place = "open", NEW s \in Contents, Prefix(s, Op(c).value)
              PROVE  s \in possible'[k]
          <6>1. Op(c).value \in Contents /\ outcomes = Parts(Op(c).value)
            BY <5>2, FsAssumption DEF Contents
          <6> QED
            BY <4>1, <5>2, <6>1, PartIs
        <5> QED
          BY <1>4, <1>6, <5>1, <5>2
      <4>3. call'[c].at # "write"
        BY <1>4, <1>6
      <4>4. call'[c].at = "remove" => file'[k] # NONE \/ k \in dirs'
        BY <1>4, <1>6
      <4> QED
        BY <3>1, <4>1, <4>2, <4>3, <4>4 DEF ChangeOf
    <3> QED
      BY <3>2, <3>3
  <2> QED
    BY <2>1, <2>2, <2>3, <2>4 DEF CallInv
<1>13. ASSUME NEW d \in Callers, d # c PROVE CallInv(d)'
  <2>1. CallInv(d)
    BY DEF IInv
  <2>2. call'[d] = w(d)
    BY <1>6, <1>13
  <2>3. /\ call'[d].at = call[d].at /\ call'[d].todo = call[d].todo
        /\ call'[d].key = call[d].key /\ call'[d].got = call[d].got
        /\ call'[d].left = call[d].left /\ call'[d].found = call[d].found
        /\ call'[d].handle = call[d].handle /\ call'[d].sure = call[d].sure \ {k}
    BY <1>5, <2>2
  <2>4. call[d].at \in {"read", "write"} =>
          /\ call'[d].handle # NONE /\ Content(call[d].handle)' # NONE
          /\ call'[d].handle \in Keys => call'[d].handle = call[d].key
          /\ call[d].key \in call'[d].sure => call'[d].handle = call[d].handle
    BY <2>1, <2>3 DEF CallInv, OpenOf, Content
  <2>5. \A j \in call'[d].sure : file'[j] = file[j] /\ possible'[j] = possible[j]
    <3>1. call[d].sure \in SUBSET Keys
      BY <1>1, CallOf
    <3> QED
      BY <1>8, <2>3, <3>1
  <2>6. AloneOf(d)'
    <3> SUFFICES ASSUME NEW j \in call'[d].sure, NEW e \in Callers, e # d, Changing(e, j)'
                 PROVE  FALSE
      BY DEF AloneOf
    <3>1. j \in call[d].sure /\ j # k /\ j \in Keys
      BY <1>1, <2>3, CallOf
    <3>2. e # c
      BY <1>4, <1>6, <3>1 DEF Changing
    <3>3. Changing(e, j)
      BY <1>11, <3>1, <3>2
    <3> QED
      BY <2>1, <3>1, <3>3 DEF CallInv, AloneOf
  <2>7. ASSUME NEW j \in Keys, Changing(d, j), j \notin call'[d].sure
        PROVE  j \in dirs' \/ ANY \in possible'[j]
    <3>1. CASE j = k
      <4>1. Busy(k)
        BY <2>7, <3>1 DEF Busy
      <4> QED
        BY <1>8, <3>1, <4>1
    <3>2. CASE j # k
      <4>1. j \in dirs \/ ANY \in possible[j]
        BY <2>1, <2>3, <2>7, <3>2 DEF CallInv, ChangeOf
      <4> QED
        BY <1>8, <3>2, <4>1
    <3> QED
      BY <3>1, <3>2
  <2>8. \A j \in Keys : Changing(d, j) /\ j \notin call'[d].sure =>
          j \in dirs' \/ ANY \in possible'[j]
    BY <2>7
  <2>9. call'[d].sure \subseteq call[d].sure
    BY <2>3
  <2> QED
    BY <1>1, <2>1, <2>3, <2>4, <2>5, <2>6, <2>8, <2>9, Kept
<1>14. \A d \in Callers : CallInv(d)'
  BY <1>12, <1>13
<1> QED
  BY <1>9, <1>10, <1>14 DEF IInv

LEMMA RestartStep ==
  ASSUME IInv, Restart
  PROVE  IInv'
<1>1. TypeInv /\ Idle \in Call
  BY IdleCall DEF IInv
<1>2. /\ call' = [c \in Callers |-> Idle] /\ orphan' = [c \in Callers |-> NONE]
      /\ UNCHANGED <<dirs, file, possible>>
  BY DEF Restart
<1>3. TypeInv'
  BY <1>1, <1>2 DEF TypeInv
<1>4. Rooted' /\ KeysAreWhole'
  BY <1>2 DEF IInv, Rooted, KeysAreWhole
<1>5. ASSUME NEW c \in Callers PROVE CallInv(c)'
  <2>1. call'[c].at = "idle" /\ call'[c].got = <<>> /\ call'[c].sure = {}
    BY <1>2 DEF Idle
  <2> QED
    BY <2>1, AtRest
<1> QED
  BY <1>3, <1>4, <1>5 DEF IInv

(* The directories above a name no file is in the way of. *)
LEMMA DirsGrow ==
  ASSUME IInv, NEW p \in Names, ~ Blocked(p), dirs' = dirs \cup Ancestors(p), UNCHANGED file
  PROVE  dirs' \in SUBSET Names /\ Rooted' /\ dirs \subseteq dirs'
<1>1. TypeInv /\ Rooted
  BY DEF IInv
<1>2. \A j \in Keys : file[j] # NONE => j \notin Ancestors(p)
  BY DEF Blocked
<1>3. \A d \in Ancestors(p) : d \in Names /\ Ancestors(d) \subseteq Ancestors(p)
  BY AncestorsOfAncestor
<1>4. dirs' \in SUBSET Names
  BY <1>1, <1>3 DEF TypeInv
<1>5. <<>> \in dirs' /\ \A d \in dirs' : Ancestors(d) \subseteq dirs'
  BY <1>1, <1>3 DEF Rooted
<1>6. ASSUME NEW j \in Keys, file'[j] # NONE
      PROVE  Ancestors(j) \subseteq dirs' /\ j \notin dirs'
  <2>1. file[j] # NONE
    BY <1>6
  <2>2. j \notin Ancestors(p)
    BY <1>2, <2>1
  <2> QED
    BY <1>1, <2>1, <2>2 DEF Rooted
<1>7. Rooted'
  BY <1>5, <1>6 DEF Rooted
<1> QED
  BY <1>4, <1>7

LEMMA WriteDirsStep ==
  ASSUME IInv, NEW c \in Callers, WriteDirs(c)
  PROVE  IInv'
<1> DEFINE k == Op(c).key
<1>1. /\ call[c].at = "batch" /\ call[c].todo # <<>> /\ Op(c).value # NONE /\ k \in Keys
      /\ UNCHANGED file
  BY DEF WriteDirs, At
<1>2. k \in Names
  BY <1>1, FsAssumption DEF Names
<1>3. CASE /\ ~ Blocked(k) /\ dirs' = dirs \cup Ancestors(k)
           /\ Begin(c, k, "open", Parts(Op(c).value)) /\ UNCHANGED orphan
  <2>1. Op(c).value \in Data
    <3>1. call[c].todo \in Ops
      BY CallOf DEF IInv
    <3>2. Op(c) \in [key : Keys \cup BadKeys, value : Data \cup {NONE}]
      <4> DEFINE R == [key : Keys \cup BadKeys, value : Data \cup {NONE}]
      <4>1. call[c].todo \in Seq(R) /\ call[c].todo # <<>>
        BY <1>1, <3>1 DEF Ops
      <4> HIDE DEF R
      <4>2. Head(call[c].todo) \in R
        BY <4>1, HeadIs
      <4> QED
        BY <4>2 DEF R, Op
    <3> QED
      BY <1>1, <3>2
  <2>2. Parts(Op(c).value) \in SUBSET (Contents \cup {NONE, ANY})
    <3>1. Op(c).value \in Seq(Nat)
      BY <2>1, FsAssumption
    <3>2. \A n \in 0 .. Len(Op(c).value) : SubSeq(Op(c).value, 1, n) \in Contents
      BY <3>1, FirstOf DEF Contents
    <3> QED
      BY <3>2 DEF Parts
  <2> HIDE DEF k
  <2>3. dirs' \in SUBSET Names /\ Rooted' /\ dirs \subseteq dirs'
    BY <1>1, <1>2, <1>3, DirsGrow
  <2>4. Ancestors(k) \subseteq dirs'
    BY <1>3
  <2> QED
    BY <1>1, <1>3, <2>1, <2>2, <2>3, <2>4, BeginStep
<1>4. CASE \E p \in Ancestors(k) :
             /\ ~ Blocked(p) /\ dirs' = dirs \cup Ancestors(p)
             /\ Returns(c, FAILED) /\ UNCHANGED <<file, possible>>
  <2> HIDE DEF k
  <2> PICK p \in Ancestors(k) :
        /\ ~ Blocked(p) /\ dirs' = dirs \cup Ancestors(p)
        /\ Returns(c, FAILED) /\ UNCHANGED <<file, possible>>
    BY <1>4
  <2>1. p \in Names
    BY <1>2, AncestorsOfAncestor
  <2>2. dirs' \in SUBSET Names /\ Rooted' /\ dirs \subseteq dirs'
    BY <2>1, DirsGrow
  <2> QED
    BY <2>2, GiveUpStep
<1> QED
  BY <1>3, <1>4 DEF WriteDirs

LEMMA DeleteTestStep ==
  ASSUME IInv, NEW c \in Callers, DeleteTest(c)
  PROVE  IInv'
<1> DEFINE k == Op(c).key
<1>1. TypeInv /\ Rooted /\ CallInv(c) /\ call[c] \in Call
  BY CallOf DEF IInv
<1>2. /\ call[c].at = "batch" /\ call[c].todo # <<>> /\ k \in Keys
      /\ UNCHANGED <<dirs, file, orphan>>
  BY DEF DeleteTest, At
<1>3. CASE file[k] # NONE \/ k \in dirs
  <2>1. Begin(c, k, "remove", {NONE})
    BY <1>3 DEF DeleteTest
  <2>2. dirs' \in SUBSET Names /\ Rooted' /\ dirs \subseteq dirs'
    BY <1>1, <1>2 DEF TypeInv, Rooted
  <2> HIDE DEF k
  <2> QED
    BY <1>2, <1>3, <2>1, <2>2, BeginStep
<1>4. CASE ~ (file[k] # NONE \/ k \in dirs)
  <2> DEFINE v == [call[c] EXCEPT !.todo = Tail(call[c].todo)]
  <2>1. call' = [call EXCEPT ![c] = v] /\ UNCHANGED possible
    BY <1>4 DEF DeleteTest
  <2>2. v \in Call
    <3>1. Tail(call[c].todo) \in Ops
      <4>1. call[c].todo \in Ops
        BY <1>1, CallOf
      <4> QED
        BY <1>2, <4>1 DEF Ops
    <3> QED
      BY <1>1, <3>1 DEF Call
  <2>3. v.at = "batch" /\ v.got = call[c].got /\ v.sure = call[c].sure
    BY <1>1, <1>2 DEF Call
  <2> HIDE DEF v
  <2>4. call'[c] = v /\ \A d \in Callers : d # c => call'[d] = call[d]
    BY <1>1, <2>1, <2>2, CallStep
  <2>5. \A j \in Keys : Changing(c, j)' => Changing(c, j)
    BY <2>3, <2>4 DEF Changing
  <2>6. CallInv(c)'
    <3>1. LocalsOf(c)'
      BY <1>1, <1>2, <2>3, <2>4 DEF CallInv, LocalsOf
    <3>2. AloneOf(c)'
      BY <1>1, <2>3, <2>4, AloneStill DEF CallInv
    <3>3. OpenOf(c)' /\ ChangeOf(c)' /\ ReadOf(c)' /\ WalkOf(c)'
      BY <2>3, <2>4 DEF OpenOf, ChangeOf, Changing, ReadOf, WalkOf
    <3> QED
      BY <3>1, <3>2, <3>3 DEF CallInv
  <2> QED
    BY <1>2, <2>1, <2>2, <2>5, <2>6, StillStep
<1> QED
  BY <1>3, <1>4

(***************************************************************************)
(* The steps of a write.                                                   *)
(***************************************************************************)
(* Who changes a key it is not sure of changes it to anything: nobody can   *)
(* tell what the key holds, unless it is a directory's name.                *)
LEMMA UnsureIsAny ==
  ASSUME IInv, NEW c \in Callers, NEW k \in Keys, Changing(c, k), k \notin call[c].sure
  PROVE  k \in dirs \/ ANY \in possible[k]
BY DEF IInv, CallInv, ChangeOf

LEMMA OpValue ==
  ASSUME IInv, NEW c \in Callers, call[c].at \in {"open", "write"}
  PROVE  /\ call[c].key \in Keys /\ call[c].todo # <<>> /\ Op(c).value \in Contents
         /\ Changing(c, call[c].key) /\ Ancestors(call[c].key) \subseteq dirs
<1>1. call[c].todo # <<>> /\ Op(c).value \in Data /\ call[c].key \in Keys
      /\ Ancestors(call[c].key) \subseteq dirs
  BY DEF IInv, CallInv, LocalsOf
<1>2. Op(c).value \in Contents
  BY <1>1, FsAssumption DEF Contents
<1>3. Changing(c, call[c].key)
  BY DEF Changing
<1> QED
  BY <1>1, <1>2, <1>3

LEMMA WriteOpenStep ==
  ASSUME IInv, NEW c \in Callers, WriteOpen(c)
  PROVE  IInv'
<1>1. TypeInv /\ Rooted /\ KeysAreWhole /\ CallInv(c) /\ call[c] \in Call
  BY CallOf DEF IInv
<1> PICK k \in Keys : k = call[c].key
  BY <1>1 DEF WriteOpen, At, CallInv, LocalsOf
<1> DEFINE v == [call[c] EXCEPT !.at = "write", !.handle = k]
<1>2. /\ call[c].at = "open" /\ k \notin dirs /\ file' = [file EXCEPT ![k] = <<>>]
      /\ call' = [call EXCEPT ![c] = v] /\ UNCHANGED <<dirs, orphan, possible>>
  BY DEF WriteOpen, At
<1>3. /\ call[c].todo # <<>> /\ Op(c).value \in Contents /\ Changing(c, k)
      /\ Ancestors(k) \subseteq dirs /\ Op(c).value \in Data
  BY <1>1, <1>2, OpValue DEF CallInv, LocalsOf
<1>4. v \in Call
  <2>1. k \in Handles
    BY DEF Handles
  <2> QED
    BY <1>1, <2>1 DEF Call, Places
<1>5. /\ v.at = "write" /\ v.todo = call[c].todo /\ v.key = k /\ v.handle = k
      /\ v.got = <<>> /\ v.sure = call[c].sure
  <2>1. call[c].got = <<>>
    BY <1>1, <1>2 DEF CallInv, LocalsOf
  <2> QED
    BY <1>1, <2>1 DEF Call
<1> HIDE DEF v
<1>6. /\ call' \in [Callers -> Call] /\ call'[c] = v
      /\ \A d \in Callers : d # c => call'[d] = call[d]
  BY <1>1, <1>2, <1>4, CallStep
<1>7. /\ file'[k] = <<>> /\ \A j \in Keys : j # k => file'[j] = file[j]
      /\ file' \in [Keys -> Contents \cup {NONE}]
  <2>1. <<>> \in Contents
    BY DEF Contents
  <2> QED
    BY <1>1, <1>2, <1>3, <2>1 DEF TypeInv
<1>8. TypeInv'
  BY <1>1, <1>2, <1>6, <1>7 DEF TypeInv
<1>9. <<>> # NONE
  <2>1. <<>> \in Seq(Nat)
    OBVIOUS
  <2> QED
    BY <2>1, FsAssumption
<1>10. Rooted'
  BY <1>1, <1>2, <1>3, <1>7 DEF Rooted
<1>11. Prefix(<<>>, Op(c).value)
  BY <1>3 DEF Prefix, Contents
<1>12. k \in call[c].sure => \A s \in Contents : Prefix(s, Op(c).value) => s \in possible[k]
  BY <1>1, <1>2, <1>3 DEF CallInv, ChangeOf
<1>13. KeysAreWhole'
  <2>1. ANY \in possible[k] \/ <<>> \in possible[k]
    <3>1. <<>> \in Contents
      BY DEF Contents
    <3> QED
      BY <1>2, <1>3, <1>11, <1>12, <3>1, UnsureIsAny
  <2> QED
    BY <1>1, <1>2, <1>7, <2>1 DEF KeysAreWhole
<1>14. CallInv(c)'
  <2>1. Op(c)' = Op(c)
    BY <1>5, <1>6 DEF Op
  <2>2. LocalsOf(c)'
    BY <1>2, <1>3, <1>5, <1>6, <1>11, <2>1 DEF LocalsOf
  <2>3. OpenOf(c)'
    <3>1. Content(k)' # NONE /\ k # NONE
      BY <1>3, <1>7, <1>9, FsAssumption DEF Content
    <3>2. call'[c].handle = k /\ call'[c].key = k
      BY <1>5, <1>6
    <3> QED
      BY <3>1, <3>2 DEF OpenOf, Content
  <2>4. AloneOf(c)'
    BY <1>1, <1>5, <1>6, AloneStill DEF CallInv
  <2>5. ChangeOf(c)'
    <3>1. \A j \in Keys : Changing(c, j)' => j = k
      BY <1>5, <1>6 DEF Changing
    <3>2. CASE k \in call[c].sure
      <4>1. \A s \in Contents : Prefix(s, Op(c)'.value) => s \in possible'[k]
        BY <1>2, <1>12, <2>1, <3>2
      <4> QED
        BY <1>5, <1>6, <1>7, <3>1, <3>2, <4>1 DEF ChangeOf
    <3>3. CASE k \notin call[c].sure
      <4>1. k \in dirs' \/ ANY \in possible'[k]
        BY <1>2, <1>3, <3>3, UnsureIsAny
      <4> QED
        BY <1>5, <1>6, <3>1, <3>3, <4>1 DEF ChangeOf
    <3> QED
      BY <3>2, <3>3
  <2>6. ReadOf(c)' /\ WalkOf(c)'
    BY <1>5, <1>6 DEF ReadOf, WalkOf
  <2> QED
    BY <2>2, <2>3, <2>4, <2>5, <2>6 DEF CallInv
<1>15. \A d \in Callers : d # c => CallInv(d)'
  <2>1. \A j \in Keys : Changing(c, j)' => Changing(c, j)
    BY <1>3, <1>5, <1>6 DEF Changing
  <2>2. \A j \in Keys : ~ Changing(c, j) => file'[j] = file[j] /\ possible'[j] = possible[j]
    BY <1>2, <1>3, <1>7
  <2>3. \A j \in Keys : file[j] # NONE => file'[j] # NONE
    BY <1>7, <1>9
  <2>4. \A d \in Callers : d # c =>
          \A o \in Callers : call[d].handle = o /\ orphan[o] # NONE => orphan'[o] # NONE
    BY <1>2
  <2>5. \A j \in Keys : Changing(c, j) /\ j \notin call[c].sure /\ ANY \in possible[j] =>
          j \in dirs \/ ANY \in possible'[j]
    BY <1>2
  <2> QED
    BY <1>2, <1>6, <2>1, <2>2, <2>3, <2>4, <2>5, OthersStand
<1> QED
  BY <1>8, <1>10, <1>13, <1>14, <1>15 DEF IInv
LEMMA WriteWordStep ==
  ASSUME IInv, NEW c \in Callers, WriteWord(c)
  PROVE  IInv'
<1>1. TypeInv /\ Rooted /\ KeysAreWhole /\ CallInv(c) /\ call[c] \in Call
      /\ call[c].got \in Contents /\ call[c].at = "write"
  BY CallOf DEF IInv, WriteWord, At
<1> PICK k \in Keys : k = call[c].key
  BY <1>1 DEF CallInv, LocalsOf
<1> PICK h : h = call[c].handle
  OBVIOUS
<1> PICK got \in Contents : got = call[c].got
  BY <1>1
<1>2. /\ call[c].todo # <<>> /\ Op(c).value \in Contents /\ Changing(c, k)
      /\ Ancestors(k) \subseteq dirs /\ Op(c).value \in Data
      /\ Prefix(got, Op(c).value) /\ Len(got) < Len(Op(c).value)
  BY <1>1, OpValue DEF CallInv, LocalsOf, WriteWord, Written
<1> PICK word : word = Op(c).value[Len(got) + 1]
  OBVIOUS
<1> DEFINE v == [call[c] EXCEPT !.got = Append(got, word)]
<1>3. /\ call' = [call EXCEPT ![c] = v] /\ UNCHANGED <<dirs, possible>>
      /\ IF h \in Keys
         THEN file' = [file EXCEPT ![h] = PutAt(file[h], Len(got) + 1, word)] /\ UNCHANGED orphan
         ELSE orphan' = [orphan EXCEPT ![h] = PutAt(orphan[h], Len(got) + 1, word)]
              /\ UNCHANGED file
  BY DEF WriteWord, Written
<1>4. /\ word \in Nat /\ Len(got) + 1 \in Nat \ {0}
      /\ Append(got, word) \in Contents /\ Prefix(Append(got, word), Op(c).value)
  <2>1. Len(got) \in Nat /\ Len(Op(c).value) \in Nat /\ Len(got) + 1 \in 1 .. Len(Op(c).value)
    BY <1>2 DEF Contents
  <2>2. word \in Nat
    BY <1>2, <2>1 DEF Contents
  <2> QED
    BY <1>2, <2>1, <2>2, PrefixGrows
<1>5. /\ v \in Call /\ v.at = "write" /\ v.todo = call[c].todo /\ v.key = k /\ v.handle = h
      /\ v.got = Append(got, word) /\ v.sure = call[c].sure
  BY <1>1, <1>4 DEF Call
<1> HIDE DEF v
<1>6. /\ call' \in [Callers -> Call] /\ call'[c] = v
      /\ \A d \in Callers : d # c => call'[d] = call[d]
  BY <1>1, <1>3, <1>5, CallStep
<1>7. /\ Content(h) \in Contents /\ (h \in Keys \/ h \in Callers)
      /\ (h \in Keys => h = k) /\ h # NONE
  BY <1>1, OpenContent DEF CallInv, OpenOf
<1>8. PutAt(Content(h), Len(got) + 1, word) \in Contents
  BY <1>4, <1>7, PutAtType
<1>9. NONE \notin Contents
  BY FsAssumption DEF Contents
<1>10. \/ /\ h = k /\ file'[k] = PutAt(file[k], Len(got) + 1, word) /\ file[k] \in Contents
          /\ file'[k] \in Contents /\ \A j \in Keys : j # k => file'[j] = file[j]
          /\ file' \in [Keys -> Contents \cup {NONE}] /\ orphan' = orphan
       \/ /\ h \in Callers /\ h \notin Keys /\ orphan'[h] \in Contents
          /\ \A o \in Callers : o # h => orphan'[o] = orphan[o]
          /\ orphan' \in [Callers -> Contents \cup {NONE}] /\ file' = file
  <2>1. CASE h \in Keys
    <3>1. file[k] \in Contents /\ PutAt(file[k], Len(got) + 1, word) \in Contents /\ h = k
      BY <1>7, <1>8, <2>1 DEF Content
    <3>2. file' = [file EXCEPT ![k] = PutAt(file[k], Len(got) + 1, word)] /\ orphan' = orphan
      BY <1>3, <2>1, <3>1
    <3> QED
      BY <1>1, <3>1, <3>2 DEF TypeInv
  <2>2. CASE h \notin Keys
    <3>1. h \in Callers /\ PutAt(orphan[h], Len(got) + 1, word) \in Contents
      BY <1>7, <1>8, <2>2 DEF Content
    <3>2. orphan' = [orphan EXCEPT ![h] = PutAt(orphan[h], Len(got) + 1, word)] /\ file' = file
      BY <1>3, <2>2
    <3> QED
      BY <1>1, <2>2, <3>1, <3>2 DEF TypeInv
  <2> QED
    BY <2>1, <2>2
<1>11. TypeInv'
  BY <1>1, <1>3, <1>6, <1>10 DEF TypeInv
<1>12. \A j \in Keys : file[j] = NONE <=> file'[j] = NONE
  BY <1>9, <1>10
<1>13. Rooted'
  BY <1>1, <1>3, <1>12 DEF Rooted
<1>14. k \in call[c].sure =>
         /\ \A s \in Contents : Prefix(s, Op(c).value) => s \in possible[k]
         /\ h = k /\ file[k] = got
  BY <1>1, <1>2 DEF CallInv, ChangeOf
<1>15. k \in call[c].sure => file'[k] = Append(got, word)
  <2>1. PutAt(got, Len(got) + 1, word) = Append(got, word)
    BY <1>4, PutAtEnd
  <2>2. k \notin Callers
    BY FsAssumption
  <2> QED
    BY <1>10, <1>14, <2>1, <2>2
<1>16. KeysAreWhole'
  <2>1. ANY \in possible[k] \/ file'[k] \in possible[k]
    <3>1. CASE k \in call[c].sure
      BY <1>4, <1>14, <1>15, <3>1
    <3>2. CASE k \notin call[c].sure /\ h = k
      <4>1. file[k] # NONE
        BY <1>7, <1>9, <3>2 DEF Content
      <4> QED
        BY <1>1, <1>2, <3>2, <4>1, UnsureIsAny DEF Rooted
    <3>3. CASE file' = file
      BY <1>1, <3>3 DEF KeysAreWhole
    <3> QED
      BY <1>10, <3>1, <3>2, <3>3
  <2>2. \A j \in Keys : j # k => file'[j] = file[j]
    BY <1>10
  <2> QED
    BY <1>1, <1>3, <2>1, <2>2 DEF KeysAreWhole
<1>17. CallInv(c)'
  <2>1. Op(c)' = Op(c)
    BY <1>5, <1>6 DEF Op
  <2>2. LocalsOf(c)'
    BY <1>2, <1>3, <1>4, <1>5, <1>6, <2>1 DEF LocalsOf
  <2>3. OpenOf(c)'
    <3>1. Content(h)' # NONE
      BY <1>7, <1>9, <1>10 DEF Content
    <3>2. call'[c].handle = h /\ call'[c].key = k
      BY <1>5, <1>6
    <3> QED
      BY <1>7, <3>1, <3>2 DEF OpenOf, Content
  <2>4. AloneOf(c)'
    BY <1>1, <1>5, <1>6, AloneStill DEF CallInv
  <2>5. ChangeOf(c)'
    <3>1. \A j \in Keys : Changing(c, j)' => j = k
      BY <1>5, <1>6 DEF Changing
    <3>2. CASE k \in call[c].sure
      <4>1. \A s \in Contents : Prefix(s, Op(c)'.value) => s \in possible'[k]
        BY <1>3, <1>14, <2>1, <3>2
      <4> QED
        BY <1>5, <1>6, <1>14, <1>15, <3>1, <3>2, <4>1 DEF ChangeOf
    <3>3. CASE k \notin call[c].sure
      <4>1. k \in dirs' \/ ANY \in possible'[k]
        BY <1>2, <1>3, <3>3, UnsureIsAny
      <4> QED
        BY <1>5, <1>6, <3>1, <3>3, <4>1 DEF ChangeOf
    <3> QED
      BY <3>2, <3>3
  <2>6. ReadOf(c)' /\ WalkOf(c)'
    BY <1>5, <1>6 DEF ReadOf, WalkOf
  <2> QED
    BY <2>2, <2>3, <2>4, <2>5, <2>6 DEF CallInv
<1>18. \A d \in Callers : d # c => CallInv(d)'
  <2>1. \A j \in Keys : Changing(c, j)' => Changing(c, j)
    BY <1>2, <1>5, <1>6 DEF Changing
  <2>2. \A j \in Keys : ~ Changing(c, j) => file'[j] = file[j] /\ possible'[j] = possible[j]
    BY <1>2, <1>3, <1>10
  <2>3. \A j \in Keys : file[j] # NONE => file'[j] # NONE
    BY <1>12
  <2>4. \A d \in Callers : d # c =>
          \A o \in Callers : call[d].handle = o /\ orphan[o] # NONE => orphan'[o] # NONE
    BY <1>9, <1>10
  <2>5. \A j \in Keys : Changing(c, j) /\ j \notin call[c].sure /\ ANY \in possible[j] =>
          j \in dirs \/ ANY \in possible'[j]
    BY <1>3
  <2>6. dirs' = dirs
    BY <1>3
  <2> QED
    BY <1>6, <2>1, <2>2, <2>3, <2>4, <2>5, <2>6, OthersStand
<1> QED
  BY <1>11, <1>13, <1>16, <1>17, <1>18 DEF IInv

(* A call whose change is over leaves its key with what it holds. *)
LEMMA EndStep ==
  ASSUME IInv, NEW c \in Callers, NEW k \in Keys, Changing(c, k),
         NEW v \in Call, v.at \in {"idle", "batch"}, v.got = <<>>, v.sure = {},
         call' = [call EXCEPT ![c] = v], Close(c), UNCHANGED <<dirs, file>>,
         NEW outcome \in SUBSET (Contents \cup {NONE, ANY}),
         possible' = [possible EXCEPT ![k] = outcome],
         ANY \in outcome \/ file[k] \in outcome,
         k \notin call[c].sure /\ ANY \in possible[k] => k \in dirs \/ ANY \in outcome
  PROVE  IInv'
<1>1. TypeInv /\ Rooted /\ KeysAreWhole
  BY DEF IInv
<1>2. /\ call' \in [Callers -> Call] /\ call'[c] = v
      /\ \A d \in Callers : d # c => call'[d] = call[d]
  BY <1>1, CallStep
<1>3. /\ possible'[k] = outcome /\ \A j \in Keys : j # k => possible'[j] = possible[j]
      /\ possible' \in [Keys -> SUBSET (Contents \cup {NONE, ANY})]
  BY <1>1 DEF TypeInv
<1>4. TypeInv'
  BY <1>1, <1>2, <1>3, ClosesOwn DEF TypeInv
<1>5. Rooted' /\ KeysAreWhole'
  BY <1>1, <1>3 DEF Rooted, KeysAreWhole
<1>6. CallInv(c)'
  BY <1>2, AtRest
<1>7. \A d \in Callers : d # c => CallInv(d)'
  <2>1. \A j \in Keys : Changing(c, j)' => Changing(c, j)
    BY <1>2 DEF Changing
  <2>2. \A j \in Keys : ~ Changing(c, j) => file'[j] = file[j] /\ possible'[j] = possible[j]
    BY <1>3
  <2>3. \A j \in Keys : file[j] # NONE => file'[j] # NONE
    OBVIOUS
  <2>4. \A d \in Callers : d # c =>
          \A o \in Callers : call[d].handle = o /\ orphan[o] # NONE => orphan'[o] # NONE
    BY <1>1, ClosesOwn
  <2>5. \A j \in Keys : Changing(c, j) /\ j \notin call[c].sure /\ ANY \in possible[j] =>
          j \in dirs \/ ANY \in possible'[j]
    BY <1>3 DEF Changing
  <2>6. dirs' = dirs
    OBVIOUS
  <2> QED
    BY <1>2, <2>1, <2>2, <2>3, <2>4, <2>5, <2>6, OthersStand
<1> QED
  BY <1>4, <1>5, <1>6, <1>7 DEF IInv
LEMMA WriteOpenFailsStep ==
  ASSUME IInv, NEW c \in Callers, WriteOpenFails(c)
  PROVE  IInv'
<1>1. TypeInv /\ Rooted /\ Idle \in Call /\ call[c].at = "open" /\ call[c].key \in dirs
  BY IdleCall DEF IInv, WriteOpenFails, At
<1> PICK k \in Keys : k = call[c].key /\ Changing(c, k)
  BY <1>1, OpValue
<1>2. file[k] = NONE
  BY <1>1 DEF Rooted
<1>3. /\ call' = [call EXCEPT ![c] = Idle] /\ Close(c) /\ UNCHANGED <<dirs, file>>
      /\ possible' = [possible EXCEPT ![k] = {NONE}]
  BY DEF WriteOpenFails, Returns
<1>4. Idle.at = "idle" /\ Idle.got = <<>> /\ Idle.sure = {}
  BY DEF Idle
<1>5. {NONE} \in SUBSET (Contents \cup {NONE, ANY}) /\ file[k] \in {NONE} /\ k \in dirs
  BY <1>1, <1>2
<1> QED
  BY <1>1, <1>3, <1>4, <1>5, EndStep

(* The call when its operation is over. *)
LEMMA NextOpIs ==
  ASSUME TypeInv, NEW c \in Callers, call[c].todo # <<>>
  PROVE  /\ NextOp(c) \in Call /\ NextOp(c).at = "batch" /\ NextOp(c).got = <<>>
         /\ NextOp(c).sure = {} /\ NextOp(c).handle = NONE
<1>1. Tail(call[c].todo) \in Ops
  <2>1. call[c].todo \in Ops
    BY CallOf
  <2> QED
    BY <2>1 DEF Ops
<1>2. NextOp(c) \in Call
  BY <1>1, IdleCall DEF NextOp
<1> QED
  BY <1>2 DEF NextOp, Idle

LEMMA WriteEndsStep ==
  ASSUME IInv, NEW c \in Callers, WriteEnds(c)
  PROVE  IInv'
<1>1. TypeInv /\ KeysAreWhole /\ CallInv(c) /\ call[c].at = "write"
      /\ Written(c) = Len(Op(c).value) /\ call[c].got \in Contents
  BY CallOf DEF IInv, WriteEnds, At
<1>2. call[c].todo # <<>> /\ Op(c).value \in Contents /\ Prefix(call[c].got, Op(c).value)
  BY <1>1, OpValue DEF CallInv, LocalsOf
<1> PICK k \in Keys : k = call[c].key /\ Changing(c, k)
  BY <1>1, OpValue
<1> PICK v : v = NextOp(c)
  OBVIOUS
<1>3. v \in Call /\ v.at = "batch" /\ v.got = <<>> /\ v.sure = {}
  BY <1>1, <1>2, NextOpIs
<1> PICK outcome : outcome = IF k \in call[c].sure THEN {Op(c).value} ELSE possible[k]
  OBVIOUS
<1>4. /\ call' = [call EXCEPT ![c] = v] /\ Close(c) /\ UNCHANGED <<dirs, file>>
      /\ possible' = [possible EXCEPT ![k] = outcome]
  BY DEF WriteEnds, OpDone
<1>5. call[c].got = Op(c).value
  <2>1. Len(call[c].got) = Len(Op(c).value)
    BY <1>1 DEF Written
  <2> QED
    BY <1>1, <1>2, <2>1, SameSeq DEF Prefix, Contents
<1>6. k \in call[c].sure => file[k] = Op(c).value
  BY <1>1, <1>5 DEF CallInv, ChangeOf
<1>7. outcome \in SUBSET (Contents \cup {NONE, ANY})
  BY <1>1, <1>2 DEF TypeInv
<1>8. ANY \in outcome \/ file[k] \in outcome
  BY <1>1, <1>6 DEF KeysAreWhole
<1>9. k \notin call[c].sure /\ ANY \in possible[k] => k \in dirs \/ ANY \in outcome
  OBVIOUS
<1>10. v.at \in {"idle", "batch"}
  BY <1>3
<1> QED
  BY <1>3, <1>4, <1>7, <1>8, <1>9, <1>10, EndStep

(***************************************************************************)
(* The removal of a file that others may have open.                        *)
(***************************************************************************)
LEMMA DeleteFileStep ==
  ASSUME IInv, NEW c \in Callers, DeleteFile(c)
  PROVE  IInv'
<1>1. TypeInv /\ Rooted /\ KeysAreWhole /\ CallInv(c) /\ call[c].at = "remove"
  BY DEF IInv, DeleteFile, At
<1> DEFINE holders == { d \in Callers : call[d].handle = call[c].key }
<1>0. \E o \in Callers \ { call[d].handle : d \in Callers \ holders } :
        /\ orphan' = IF holders = {} THEN orphan ELSE [orphan EXCEPT ![o] = file[call[c].key]]
        /\ call' = [d \in Callers |->
                      IF d = c THEN NextOp(c)
                      ELSE IF d \in holders THEN [call[d] EXCEPT !.handle = o] ELSE call[d]]
  BY Zenon DEF DeleteFile
<1> PICK o \in Callers \ { call[d].handle : d \in Callers \ holders } :
      /\ orphan' = IF holders = {} THEN orphan ELSE [orphan EXCEPT ![o] = file[call[c].key]]
      /\ call' = [d \in Callers |->
                    IF d = c THEN NextOp(c)
                    ELSE IF d \in holders THEN [call[d] EXCEPT !.handle = o] ELSE call[d]]
  BY <1>0
<1> PICK k \in Keys : k = call[c].key
  BY <1>1 DEF CallInv, LocalsOf
<1> PICK open \in SUBSET Callers : open = holders
  OBVIOUS
<1> PICK v : v = NextOp(c)
  OBVIOUS
<1>2. o \in Callers /\ \A d \in Callers \ open : call[d].handle # o
  OBVIOUS
<1>3. v \in Call /\ v.at = "batch" /\ v.got = <<>> /\ v.sure = {} /\ v.handle = NONE
  BY <1>1, NextOpIs DEF CallInv, LocalsOf
<1>4. /\ file[k] # NONE /\ file' = [file EXCEPT ![k] = NONE] /\ dirs' = dirs
      /\ orphan' = IF open = {} THEN orphan ELSE [orphan EXCEPT ![o] = file[k]]
      /\ possible' = [possible EXCEPT ![k] = IF k \in call[c].sure THEN {NONE} ELSE @]
      /\ call' = [d \in Callers |->
                    IF d = c THEN v
                    ELSE IF d \in open THEN [call[d] EXCEPT !.handle = o] ELSE call[d]]
  <2>1. /\ file[k] # NONE /\ file' = [file EXCEPT ![k] = NONE] /\ dirs' = dirs
        /\ possible' = [possible EXCEPT ![k] = IF k \in call[c].sure THEN {NONE} ELSE @]
    BY DEF DeleteFile
  <2> HIDE DEF holders
  <2> QED
    BY <2>1, Zenon
<1>5. ASSUME NEW d \in Callers, d # c
      PROVE  /\ call'[d] \in Call /\ call'[d].at = call[d].at /\ call'[d].todo = call[d].todo
             /\ call'[d].key = call[d].key /\ call'[d].got = call[d].got
             /\ call'[d].left = call[d].left /\ call'[d].found = call[d].found
             /\ call'[d].sure = call[d].sure
             /\ call'[d].handle = IF d \in open THEN o ELSE call[d].handle
  <2>1. call[d] \in Call
    BY <1>1, CallOf
  <2>2. CASE d \in open
    <3>1. o \in Handles
      BY <1>2, <2>2 DEF Handles
    <3>2. call'[d] = [call[d] EXCEPT !.handle = o]
      BY <1>4, <1>5, <2>2
    <3> QED
      BY <2>1, <2>2, <3>1, <3>2 DEF Call
  <2>3. CASE d \notin open
    <3>1. call'[d] = call[d]
      BY <1>4, <1>5, <2>3
    <3> QED
      BY <2>1, <2>3, <3>1
  <2> QED
    BY <2>2, <2>3
<1>6. call'[c] = v
  BY <1>4
<1>7. /\ file'[k] = NONE /\ \A j \in Keys : j # k => file'[j] = file[j]
      /\ file' \in [Keys -> Contents \cup {NONE}]
  BY <1>1, <1>4 DEF TypeInv
<1>8. /\ possible'[k] = IF k \in call[c].sure THEN {NONE} ELSE possible[k]
      /\ \A j \in Keys : j # k => possible'[j] = possible[j]
      /\ possible' \in [Keys -> SUBSET (Contents \cup {NONE, ANY})]
  BY <1>1, <1>4 DEF TypeInv
<1>9. /\ orphan' \in [Callers -> Contents \cup {NONE}]
      /\ open # {} => orphan'[o] = file[k]
      /\ \A p \in Callers : p # o \/ open = {} => orphan'[p] = orphan[p]
  <2>1. CASE open = {}
    BY <1>1, <1>4, <2>1 DEF TypeInv
  <2>2. CASE open # {}
    <3>1. orphan' = [orphan EXCEPT ![o] = file[k]]
      BY <1>4, <2>2
    <3> QED
      BY <1>1, <1>2, <2>2, <3>1 DEF TypeInv
  <2> QED
    BY <2>1, <2>2
<1>10. TypeInv'
  <2>1. call' \in [Callers -> Call]
    <3>1. \A d \in Callers : call'[d] \in Call
      BY <1>3, <1>5, <1>6
    <3> QED
      BY <1>4, <3>1
  <2> QED
    BY <1>1, <1>4, <1>7, <1>8, <1>9, <2>1 DEF TypeInv
<1>11. Rooted'
  BY <1>1, <1>4, <1>7 DEF Rooted
<1>12. Changing(c, k) /\ k \notin dirs
  BY <1>1, <1>4 DEF Changing, Rooted
<1>13. KeysAreWhole'
  <2>1. ANY \in possible'[k] \/ file'[k] \in possible'[k]
    BY <1>7, <1>8, <1>12, UnsureIsAny
  <2> QED
    BY <1>1, <1>7, <1>8, <2>1 DEF KeysAreWhole
<1>14. CallInv(c)'
  BY <1>3, <1>6, AtRest
<1>15. ASSUME NEW d \in Callers, d # c PROVE CallInv(d)'
  <2>1. CallInv(d) /\ call[d].handle \in Handles /\ call[d].sure \in SUBSET Keys
    BY <1>1, CallOf DEF IInv
  <2>2. k \notin call[d].sure
    BY <1>12, <1>15, <2>1 DEF CallInv, AloneOf
  <2>3. ASSUME call[d].at \in {"read", "write"}
        PROVE  /\ call'[d].handle # NONE /\ Content(call[d].handle)' # NONE
               /\ call'[d].handle \in Keys => call'[d].handle = call[d].key
               /\ call[d].key \in call'[d].sure => call'[d].handle = call[d].handle
    <3>1. /\ call[d].handle # NONE /\ Content(call[d].handle) # NONE
          /\ call[d].handle \in Keys => call[d].handle = call[d].key
      BY <2>1, <2>3 DEF CallInv, OpenOf
    <3>2. CASE d \in open
      <4>1. call'[d].handle = o /\ o \in Callers
        BY <1>2, <1>5, <1>15, <3>2
      <4>2. o \notin Keys /\ o # NONE
        BY <4>1, FsAssumption
      <4>3. Content(call[d].handle)' # NONE
        BY <1>4, <1>9, <3>2, <4>1, <4>2 DEF Content
      <4>4. call[d].key = k
        BY <3>1, <3>2
      <4> QED
        BY <1>5, <1>15, <2>2, <4>1, <4>2, <4>3, <4>4
    <3>3. CASE d \notin open
      <4>1. call'[d].handle = call[d].handle /\ call[d].handle # k
        BY <1>5, <1>15, <3>3
      <4>2. CASE call[d].handle \in Keys
        BY <1>7, <3>1, <4>1, <4>2 DEF Content
      <4>3. CASE call[d].handle \notin Keys
        <5>1. call[d].handle \in Callers
          BY <2>1, <3>1, <4>3 DEF Handles
        <5>2. orphan'[call[d].handle] = orphan[call[d].handle]
          BY <1>2, <1>9, <3>3, <5>1
        <5> QED
          BY <3>1, <4>1, <4>3, <5>2 DEF Content
      <4> QED
        BY <3>1, <4>1, <4>2, <4>3
    <3> QED
      BY <3>2, <3>3
  <2>4. \A j \in call'[d].sure : file'[j] = file[j] /\ possible'[j] = possible[j]
    BY <1>5, <1>7, <1>8, <1>15, <2>1, <2>2
  <2>5. AloneOf(d)'
    <3> SUFFICES ASSUME NEW j \in call'[d].sure, NEW e \in Callers, e # d, Changing(e, j)'
                 PROVE  FALSE
      BY DEF AloneOf
    <3>1. j \in call[d].sure /\ j \in Keys
      BY <1>5, <1>15, <2>1
    <3>2. e # c
      BY <1>3, <1>6 DEF Changing
    <3>3. Changing(e, j)
      BY <1>5, <3>2 DEF Changing
    <3> QED
      BY <2>1, <3>1, <3>3 DEF CallInv, AloneOf
  <2>6. ASSUME NEW j \in Keys, Changing(d, j), j \notin call'[d].sure
        PROVE  j \in dirs' \/ ANY \in possible'[j]
    <3>1. j \in dirs \/ ANY \in possible[j]
      BY <1>5, <1>15, <2>1, <2>6 DEF CallInv, ChangeOf
    <3>2. j = k => k \notin call[c].sure
      BY <1>1, <1>15, <2>6 DEF CallInv, AloneOf
    <3> QED
      BY <1>4, <1>8, <3>1, <3>2
  <2>7. \A j \in Keys : Changing(d, j) /\ j \notin call'[d].sure =>
          j \in dirs' \/ ANY \in possible'[j]
    BY <2>6
  <2>8. /\ call'[d].at = call[d].at /\ call'[d].todo = call[d].todo
        /\ call'[d].key = call[d].key /\ call'[d].got = call[d].got
        /\ call'[d].left = call[d].left /\ call'[d].found = call[d].found
        /\ call'[d].sure \subseteq call[d].sure
    BY <1>5, <1>15
  <2>9. dirs \subseteq dirs'
    BY <1>4
  <2> QED
    BY <1>1, <2>1, <2>3, <2>4, <2>5, <2>7, <2>8, <2>9, Kept
<1>16. \A d \in Callers : CallInv(d)'
  BY <1>14, <1>15
<1> QED
  BY <1>10, <1>11, <1>13, <1>16 DEF IInv
(***************************************************************************)
(* The theorems.                                                           *)
(***************************************************************************)
LEMMA NextHolds == IInv /\ [Next]_vars => IInv'
<1> SUFFICES ASSUME IInv, [Next]_vars PROVE IInv'
  OBVIOUS
<1>1. CASE UNCHANGED vars
  <2>1. /\ dirs' = dirs /\ file' = file /\ orphan' = orphan /\ call' = call
        /\ possible' = possible
    BY <1>1 DEF vars
  <2> QED
    BY <2>1 DEF IInv, TypeInv, Rooted, KeysAreWhole, CallInv, LocalsOf, OpenOf, AloneOf,
                ChangeOf, ReadOf, WalkOf, Changing, Content, Op
<1>2. ASSUME NEW c \in Callers, NEW ops \in Batches, Batch(c, ops) PROVE IInv'
  BY <1>2, BatchStep
<1>3. ASSUME NEW c \in Callers, WriteDirs(c) PROVE IInv'
  BY <1>3, WriteDirsStep
<1>4. ASSUME NEW c \in Callers, WriteOpen(c) PROVE IInv'
  BY <1>4, WriteOpenStep
<1>5. ASSUME NEW c \in Callers, WriteOpenFails(c) PROVE IInv'
  BY <1>5, WriteOpenFailsStep
<1>6. ASSUME NEW c \in Callers, WriteWord(c) PROVE IInv'
  BY <1>6, WriteWordStep
<1>7. ASSUME NEW c \in Callers, WriteFails(c) PROVE IInv'
  BY <1>7, ReturnStep DEF WriteFails
<1>8. ASSUME NEW c \in Callers, WriteEnds(c) PROVE IInv'
  BY <1>8, WriteEndsStep
<1>9. ASSUME NEW c \in Callers, DeleteTest(c) PROVE IInv'
  BY <1>9, DeleteTestStep
<1>10. ASSUME NEW c \in Callers, DeleteFile(c) PROVE IInv'
  BY <1>10, DeleteFileStep
<1>11. ASSUME NEW c \in Callers, DeleteFails(c) \/ OpRefused(c) \/ BatchEnds(c) PROVE IInv'
  BY <1>11, ReturnStep DEF DeleteFails, OpRefused, BatchEnds
<1>12. ASSUME NEW c \in Callers, NEW k \in Keys, Read(c, k) PROVE IInv'
  BY <1>12, ReadStep
<1>13. ASSUME NEW c \in Callers, ReadWord(c) PROVE IInv'
  BY <1>13, ReadWordStep
<1>14. ASSUME NEW c \in Callers, ReadEnds(c) \/ WalkEnds(c) PROVE IInv'
  BY <1>14, ReturnStep DEF ReadEnds, WalkEnds
<1>15. ASSUME NEW c \in Callers, NEW p \in Prefixes, List(c, p) PROVE IInv'
  BY <1>15, ListStep
<1>16. ASSUME NEW c \in Callers, Walk(c) PROVE IInv'
  BY <1>16, WalkStep
<1>17. CASE Restart
  BY <1>17, RestartStep
<1> QED
  BY <1>1, <1>2, <1>3, <1>4, <1>5, <1>6, <1>7, <1>8, <1>9, <1>10, <1>11, <1>12, <1>13,
     <1>14, <1>15, <1>16, <1>17 DEF Next

(* The inductive invariant: whatever the callers do, in any order, and      *)
(* whatever fails or is cut by a restart, every call's promises stand.      *)
THEOREM FilesInvariant == Spec => []IInv
<1>1. Init => IInv
  BY InitHolds
<1>2. IInv /\ [Next]_vars => IInv'
  BY NextHolds
<1> QED
  BY <1>1, <1>2, PTL DEF Spec

(* The directory is a tree: a file stands in a directory and is none, and   *)
(* an open file has content, by its name or, after a delete, without.       *)
THEOREM DirectoryIsTree == Spec => []TreeOK
<1>1. IInv => TreeOK
  BY DEF IInv, Rooted, CallInv, OpenOf, TreeOK
<1> QED
  BY <1>1, FilesInvariant, PTL

(* fs::write and remove_file, step by step, beside other callers: a key     *)
(* holds what a write or delete of it left, or was cut at, and writes of    *)
(* other keys never matter.                                                 *)
THEOREM FilesAreWhole == Spec => []KeysAreWhole
<1>1. IInv => KeysAreWhole
  BY DEF IInv
<1> QED
  BY <1>1, FilesInvariant, PTL

(* list walks directories that others fill: it holds every key that was     *)
(* there all along and none that never was.                                 *)
THEOREM WalkSeesQuietKeys == Spec => []ListSeesQuietKeys
<1>1. IInv => ListSeesQuietKeys
  BY DEF IInv, CallInv, WalkOf, ListSeesQuietKeys, At
<1> QED
  BY <1>1, FilesInvariant, PTL

(* delete tests, then removes: what is gone in between was taken by another *)
(* caller.                                                                  *)
THEOREM RemoveFailsOnlyInRace == Spec => []DeleteFailsOnlyInRace
<1>1. IInv => DeleteFailsOnlyInRace
  <2> SUFFICES ASSUME IInv, NEW c \in Callers, call[c].at = "remove",
                      file[call[c].key] = NONE, call[c].key \in call[c].sure
               PROVE  call[c].key \in dirs
    BY DEF DeleteFailsOnlyInRace, At
  <2>1. CallInv(c) /\ call[c].key \in Keys /\ Changing(c, call[c].key)
    BY DEF IInv, CallInv, LocalsOf, Changing
  <2> QED
    BY <2>1 DEF CallInv, ChangeOf
<1> QED
  BY <1>1, FilesInvariant, PTL

(* read, a part at a time: it answers what the key holds when nobody        *)
(* changed it meanwhile.                                                    *)
THEOREM ReadsAnswerWholes == Spec => ReadsAreWhole
<1>1. IInv /\ [Next]_vars =>
        [\A c \in Callers :
           ReadEnds(c) /\ call[c].key \in call[c].sure /\ ANY \notin possible[call[c].key]
           => answer'.value \in possible[call[c].key]]_vars
  <2> SUFFICES ASSUME IInv, NEW c \in Callers, ReadEnds(c), call[c].key \in call[c].sure,
                      ANY \notin possible[call[c].key]
               PROVE  answer'.value \in possible[call[c].key]
    OBVIOUS
  <2>1. TypeInv /\ KeysAreWhole /\ CallInv(c)
    BY DEF IInv
  <2> PICK k \in Keys : k = call[c].key
    BY <2>1 DEF CallInv, LocalsOf, ReadEnds, At
  <2> PICK got \in Contents : got = call[c].got
    BY <2>1, CallOf
  <2>2. call[c].at = "read" /\ Len(got) >= Len(Content(call[c].handle)) /\ answer'.value = got
    BY DEF ReadEnds, At, Returns
  <2>3. call[c].handle = k /\ Prefix(got, file[k])
    BY <2>1, <2>2 DEF CallInv, ReadOf
  <2>4. file[k] \in Contents /\ Len(got) >= Len(file[k])
    BY <2>2, <2>3, OpenContent DEF Content
  <2>5. got = file[k]
    BY <2>3, <2>4, PrefixWhole
  <2> QED
    BY <2>1, <2>2, <2>5 DEF KeysAreWhole
<1> QED
  BY <1>1, FilesInvariant, PTL DEF Spec, ReadsAreWhole
=============================================================================
