------------------------- MODULE SharedStoresProofs -------------------------
(***************************************************************************)
(* SharedStores, proved for any callers, keys, values, lists and batches.  *)
(***************************************************************************)
EXTENDS SharedStores, Integers, TLAPS

(***************************************************************************)
(* The inductive invariant.                                                *)
(***************************************************************************)
Item     == Op \cup AllKeys
Places   == {"idle", "proximity", "replace", "batch", "batch_flush"}
CallType == [at : Places, todo : Seq(Item), all : Seq(Item), found : Seq(Op)]

TypeInv ==
  /\ kind \in Kinds
  /\ store \in Stores
  /\ before \in Stores
  /\ buffered \in BOOLEAN
  /\ holder \in Callers \cup {NOBODY}
  /\ call \in [Callers -> CallType]
  /\ unsettled \in [Callers -> SUBSET AllKeys]
  /\ touched \in [Callers -> SUBSET AllKeys]

(* What a call outside of replace_from works on, by where it is.            *)
Fitting(new) ==
  /\ new.at \in {"batch", "batch_flush"} => kind = "io" /\ new.todo \in Seq(Op)
  /\ new.at = "proximity" => kind = "map" /\ new.todo \in Seq(Keys) /\ new.all \in Cubes

(* Only a CoordMapStoreIo runs batches, and it alone has keys to settle.    *)
BatchInv ==
  /\ \A c \in Callers : Fitting(call[c])
  /\ kind # "io" => \A c \in Callers : unsettled[c] = {}
  /\ UnbufferedIsSettled

(* Whoever is inside a replace_from holds the cell.                         *)
HolderInv ==
  /\ \A c \in Callers : holder = c <=> call[c].at = "replace"
  /\ kind = "io" => holder = NOBODY

(* Only a MemoryEntityStore holds keys beyond the capacity of a path.       *)
KeysInv ==
  kind # "memory" => \A k \in LongKeys : store[k] = NONE /\ before[k] = NONE

(* How many of the items of a call are done; the others are still to do.    *)
Passed(c) == Len(call[c].all) - Len(call[c].todo)

Underway(c) ==
  /\ Len(call[c].todo) <= Len(call[c].all)
  /\ \A i \in 1 .. Len(call[c].todo) : call[c].todo[i] = call[c].all[Passed(c) + i]

(* A replace_from has put the entries it is through with, and nothing else. *)
Replacing(c) ==
  /\ call[c].all \in Lists
  /\ Underway(c)
  /\ \A i \in 1 .. Passed(c) : Accepted(kind, call[c].all[i])
  /\ HoldsFirst(store, call[c].all, Passed(c))
  /\ kind = "map" => AllRepresentable(call[c].all)

ReplaceInv == \A c \in Callers : call[c].at = "replace" => Replacing(c)

IInv == TypeInv /\ BatchInv /\ HolderInv /\ KeysInv /\ ReplaceInv

-----------------------------------------------------------------------------
LEMMA Difference ==
  \A m, n \in Nat :
    /\ n # 0 /\ n <= m => m - n \in Nat /\ m - n < m
    /\ m - (n - 1) = m - n + 1
  OBVIOUS

LEMMA EntriesAreOps == Entry \subseteq Op
  BY DEF Entry, Op

LEMMA WithInStores ==
  ASSUME NEW s \in Stores, NEW e \in Op
  PROVE  /\ With(s, e) \in Stores
         /\ With(s, e)[e.key] = e.value
         /\ \A k \in AllKeys \ {e.key} : With(s, e)[k] = s[k]
  BY DEF Stores, Op, With

LEMMA EmptyInStores ==
  /\ EmptyStore \in Stores
  /\ \A k \in AllKeys : EmptyStore[k] = NONE
  BY DEF Stores, EmptyStore

(* One more entry is put: the store holds one more of the first entries.    *)
LEMMA HoldsOneMore ==
  ASSUME NEW entries \in Seq(Entry), NEW n \in Nat, n < Len(entries),
         NEW s \in Stores, HoldsFirst(s, entries, n)
  PROVE  HoldsFirst(With(s, entries[n + 1]), entries, n + 1)
<1> DEFINE e == entries[n + 1]
<1>1. e \in Op /\ e.key \in AllKeys
  BY EntriesAreOps DEF Op
<1> SUFFICES ASSUME NEW k \in AllKeys
             PROVE  \/ /\ With(s, e)[k] = NONE
                       /\ \A i \in 1 .. n + 1 : entries[i].key # k
                    \/ \E i \in 1 .. n + 1 :
                         /\ entries[i].key = k
                         /\ entries[i].value = With(s, e)[k]
                         /\ \A j \in i + 1 .. n + 1 : entries[j].key # k
  BY DEF HoldsFirst
<1>2. CASE k = e.key
  <2>1. With(s, e)[k] = e.value
    BY <1>1, <1>2, WithInStores
  <2> QED
    BY <2>1, <1>2
<1>3. CASE k # e.key
  <2>1. With(s, e)[k] = s[k]
    BY <1>1, <1>3, WithInStores
  <2>2. CASE s[k] = NONE /\ \A i \in 1 .. n : entries[i].key # k
    BY <2>1, <2>2, <1>3
  <2>3. CASE \E i \in 1 .. n : /\ entries[i].key = k
                               /\ entries[i].value = s[k]
                               /\ \A j \in i + 1 .. n : entries[j].key # k
    BY <2>1, <2>3, <1>3
  <2> QED
    BY <2>2, <2>3 DEF HoldsFirst
<1> QED
  BY <1>2, <1>3

LEMMA CallTypes ==
  /\ Idle \in CallType
  /\ \A name \in Places, list \in Seq(Item) :
       /\ Under(name, list) \in CallType
       /\ Under(name, list).at = name
       /\ Under(name, list).todo = list
       /\ Under(name, list).all = list
       /\ Under(name, list).found = <<>>
<1>1. <<>> \in Seq(Item) /\ <<>> \in Seq(Op)
  OBVIOUS
<1>2. Idle \in CallType
  BY <1>1 DEF Idle, CallType, Places
<1> QED
  BY <1>1, <1>2 DEF CallType, Under

LEMMA ListTypes ==
  /\ Lists \subseteq Seq(Item) /\ Batches \subseteq Seq(Item) /\ Cubes \subseteq Seq(Item)
  /\ Entry \subseteq Item
<1>1. Entry \subseteq Item /\ Op \subseteq Item /\ Keys \subseteq Item
  BY EntriesAreOps DEF Item, AllKeys
<1> QED
  BY <1>1, CallsAssumption

(* An operation that changes neither entries nor calls keeps everything.    *)
LEMMA ReadOnly ==
  ASSUME IInv, Touch,
         UNCHANGED <<kind, store, buffered, holder, call, before, unsettled>>
  PROVE  IInv'
<1>1. TypeInv'
  BY DEF IInv, TypeInv, Touch
<1>2. BatchInv'
  BY DEF IInv, BatchInv, Fitting, UnbufferedIsSettled
<1>3. HolderInv'
  BY DEF IInv, HolderInv
<1>4. KeysInv'
  BY DEF IInv, KeysInv
<1>5. ReplaceInv'
  BY DEF IInv, ReplaceInv, Replacing, Underway, Passed, AllRepresentable
<1> QED
  BY <1>1, <1>2, <1>3, <1>4, <1>5 DEF IInv

LEMMA FreeMeansNoReplace ==
  ASSUME HolderInv, Free
  PROVE  \A c \in Callers : call[c].at # "replace"
  BY SharedAssumption DEF HolderInv, Free

(* Insert, Remove and Clear: the cell is free, so no replace_from is under  *)
(* way, and what they put a store accepts.                                  *)
LEMMA OneBorrow ==
  ASSUME IInv, Touch, Free, store' \in Stores, buffered' \in BOOLEAN,
         kind # "memory" => \A k \in LongKeys : store'[k] = store[k] \/ store'[k] = NONE,
         kind = "io" /\ ~ buffered' => ~ buffered,
         UNCHANGED <<kind, holder, call, before, unsettled>>
  PROVE  IInv'
<1>1. TypeInv'
  BY DEF IInv, TypeInv, Touch
<1>2. BatchInv'
  BY DEF IInv, BatchInv, Fitting, UnbufferedIsSettled
<1>3. HolderInv'
  BY DEF IInv, HolderInv
<1>4. KeysInv'
  BY DEF IInv, KeysInv
<1>5. ReplaceInv'
  BY FreeMeansNoReplace DEF IInv, ReplaceInv
<1> QED
  BY <1>1, <1>2, <1>3, <1>4, <1>5 DEF IInv

LEMMA InsertStep ==
  ASSUME IInv, Touch, NEW c \in Callers, NEW e \in Entry, Insert(c, e)
  PROVE  IInv'
<1>1. e \in Op /\ e.key \in AllKeys
  BY EntriesAreOps DEF Op
<1>2. store' \in Stores /\ \A k \in AllKeys \ {e.key} : store'[k] = store[k]
  BY <1>1, WithInStores DEF Insert, IInv, TypeInv
<1>3. kind # "memory" => e.key \notin LongKeys
  BY SharedAssumption DEF Insert, Accepted, Representable
<1>4. kind # "memory" => \A k \in LongKeys : store'[k] = store[k] \/ store'[k] = NONE
  BY <1>2, <1>3 DEF AllKeys
<1>5. kind = "io" => IsMap
  BY DEF IsMap
<1>6. buffered' = IsMap /\ IsMap \in BOOLEAN
  BY DEF Insert, IsMap
<1>7. Free /\ UNCHANGED <<kind, holder, call, before, unsettled>>
  BY DEF Insert
<1> QED
  BY <1>2, <1>4, <1>5, <1>6, <1>7, OneBorrow

LEMMA RemoveStep ==
  ASSUME IInv, Touch, NEW c \in Callers, NEW k \in AllKeys, Remove(c, k)
  PROVE  IInv'
<1>1. store' \in Stores /\ \A l \in AllKeys : store'[l] = store[l] \/ store'[l] = NONE
  BY DEF Remove, IInv, TypeInv, Stores
<1>2. buffered' \in BOOLEAN /\ (buffered => buffered')
  BY DEF Remove, IInv, TypeInv, IsMap
<1> QED
  BY <1>1, <1>2, OneBorrow DEF Remove, AllKeys

LEMMA ClearStep ==
  ASSUME IInv, Touch, NEW c \in Callers, Clear(c)
  PROVE  IInv'
<1>1. \A k \in LongKeys : store'[k] = NONE
  BY EmptyInStores DEF Clear, AllKeys
<1> QED
  BY <1>1, EmptyInStores, OneBorrow DEF Clear

LEMMA SettleStep ==
  ASSUME IInv, Touch, NEW c \in Callers, Flush(c)
  PROVE  IInv'
<1>1. TypeInv'
  BY DEF IInv, TypeInv, Touch, Flush, Settle
<1>2. BatchInv'
  BY DEF IInv, BatchInv, Fitting, UnbufferedIsSettled, Flush, Settle
<1>3. HolderInv' /\ KeysInv'
  BY DEF IInv, HolderInv, KeysInv, Flush
<1>4. ReplaceInv'
  BY DEF IInv, ReplaceInv, Replacing, Underway, Passed, AllRepresentable, Flush
<1> QED
  BY <1>1, <1>2, <1>3, <1>4 DEF IInv

(* The call of one caller goes on, outside of a replace_from.               *)
LEMMA CallStep ==
  ASSUME IInv, Touch, NEW c \in Callers, NEW new \in CallType,
         call' = [call EXCEPT ![c] = new],
         call[c].at # "replace", new.at # "replace",
         Fitting(new),
         store' \in Stores, store' = store \/ Free,
         kind # "memory" => \A k \in LongKeys : store'[k] = store[k] \/ store'[k] = NONE,
         buffered' \in BOOLEAN,
         unsettled' \in [Callers -> SUBSET AllKeys],
         kind # "io" \/ ~ buffered' => \A d \in Callers : unsettled'[d] = {},
         UNCHANGED <<kind, holder, before>>
  PROVE  IInv'
<1>1. /\ call' \in [Callers -> CallType]
      /\ call'[c] = new
      /\ \A d \in Callers \ {c} : call'[d] = call[d]
  BY DEF IInv, TypeInv
<1>2. touched' \in [Callers -> SUBSET AllKeys]
  BY DEF Touch, IInv, TypeInv
<1>3. TypeInv'
  BY <1>1, <1>2 DEF IInv, TypeInv
<1>4. BatchInv'
  BY <1>1 DEF IInv, BatchInv, Fitting, UnbufferedIsSettled
<1>5. HolderInv'
  BY <1>1 DEF IInv, HolderInv
<1>6. KeysInv'
  BY DEF IInv, KeysInv
<1>7. ReplaceInv'
  <2> SUFFICES ASSUME NEW d \in Callers, call'[d].at = "replace"
               PROVE  Replacing(d)'
    BY DEF ReplaceInv
  <2>1. d # c
    BY <1>1
  <2>2. call'[d] = call[d]
    BY <1>1, <2>1
  <2>3. store' = store
    BY <2>2, FreeMeansNoReplace DEF IInv
  <2>4. Replacing(d)
    BY <2>2 DEF IInv, ReplaceInv
  <2> QED
    BY <2>2, <2>3, <2>4 DEF Replacing, Underway, Passed, AllRepresentable
<1> QED
  BY <1>3, <1>4, <1>5, <1>6, <1>7 DEF IInv

LEMMA ProximityStep ==
  ASSUME IInv, Touch, NEW c \in Callers,
         (\E cube \in Cubes : Proximity(c, cube)) \/ ProximityNext(c) \/ ProximityEnds(c)
  PROVE  IInv'
<1>1. /\ call[c] \in CallType
      /\ UNCHANGED <<kind, store, buffered, holder, before, unsettled>>
  BY DEF IInv, TypeInv, Proximity, ProximityNext, ProximityEnds
<1>2. /\ store' \in Stores
      /\ buffered' \in BOOLEAN
      /\ unsettled' \in [Callers -> SUBSET AllKeys]
  BY <1>1 DEF IInv, TypeInv
<1>3. kind # "io" \/ ~ buffered' => \A d \in Callers : unsettled'[d] = {}
  BY <1>1 DEF IInv, BatchInv, Fitting, UnbufferedIsSettled
<1>4. ASSUME NEW cube \in Cubes, Proximity(c, cube)
      PROVE  IInv'
  <2> DEFINE new == Under("proximity", cube)
  <2>1. new \in CallType /\ new.at = "proximity" /\ Fitting(new)
    BY <1>4, CallTypes, ListTypes, CallsAssumption DEF Places, Fitting, Proximity
  <2>2. call' = [call EXCEPT ![c] = new] /\ call[c].at = "idle"
    BY <1>4 DEF Proximity, At
  <2> HIDE DEF new
  <2> QED
    BY <1>1, <1>2, <1>3, <2>1, <2>2, CallStep
<1>5. ASSUME ProximityNext(c)
      PROVE  IInv'
  <2> DEFINE k    == Head(call[c].todo)
             rest == Tail(call[c].todo)
             more == IF store[k] = NONE THEN call[c].found
                     ELSE Append(call[c].found, [key |-> k, value |-> store[k]])
             new  == [call[c] EXCEPT !.todo = rest, !.found = more]
  <2>1. call' = [call EXCEPT ![c] = new] /\ call[c].at = "proximity" /\ call[c].todo # <<>>
    BY <1>5 DEF ProximityNext, At, IInv, TypeInv
  <2>2. new \in CallType /\ new.at = "proximity" /\ Fitting(new)
    <3>1. call[c].todo \in Seq(Keys) /\ kind = "map" /\ call[c].all \in Cubes
      BY <2>1 DEF IInv, BatchInv, Fitting
    <3>2. rest \in Seq(Keys) /\ rest \in Seq(Item) /\ k \in AllKeys
      BY <1>1, <2>1, <3>1 DEF CallType, AllKeys
    <3>3. [key |-> k, value |-> store[k]] \in Op
      BY <3>2 DEF Op, IInv, TypeInv, Stores
    <3>. HIDE DEF k, rest
    <3>4. more \in Seq(Op)
      BY <1>1, <3>3 DEF CallType
    <3>. HIDE DEF more
    <3>5. new \in CallType
      BY <1>1, <3>2, <3>4 DEF CallType
    <3> QED
      BY <1>1, <2>1, <3>1, <3>2, <3>5 DEF CallType, Fitting
  <2> HIDE DEF new
  <2> QED
    BY <1>1, <1>2, <1>3, <2>1, <2>2, CallStep
<1>6. ASSUME ProximityEnds(c)
      PROVE  IInv'
  <2>1. call' = [call EXCEPT ![c] = Idle] /\ call[c].at = "proximity"
    BY <1>6 DEF ProximityEnds, Returns, At
  <2>2. Idle \in CallType /\ Idle.at = "idle" /\ Fitting(Idle)
    BY CallTypes DEF Idle, Fitting
  <2> QED
    BY <1>1, <1>2, <1>3, <2>1, <2>2, CallStep
<1> QED
  BY <1>4, <1>5, <1>6

(***************************************************************************)
(* replace_from.                                                           *)
(***************************************************************************)
LEMMA ReplaceStep ==
  ASSUME IInv, Touch, NEW c \in Callers, NEW entries \in Lists, Replace(c, entries)
  PROVE  IInv'
<1> DEFINE new == Under("replace", entries)
<1>1. /\ new \in CallType
      /\ new.at = "replace" /\ new.todo = entries /\ new.all = entries
  BY CallTypes, ListTypes DEF Places
<1>2. /\ call' = [call EXCEPT ![c] = new]
      /\ call[c].at = "idle"
      /\ Free
      /\ kind # "io"
      /\ holder' = c
      /\ before' = store
      /\ store' = EmptyStore
      /\ buffered' = FALSE
      /\ UNCHANGED <<kind, unsettled>>
      /\ kind = "map" => AllRepresentable(entries)
  BY DEF Replace, Begin, At
<1> HIDE DEF new
<1>3. /\ call' \in [Callers -> CallType]
      /\ call'[c] = new
      /\ \A d \in Callers \ {c} : call'[d] = call[d]
  BY <1>1, <1>2 DEF IInv, TypeInv
<1>4. touched' \in [Callers -> SUBSET AllKeys]
  BY DEF Touch, IInv, TypeInv
<1>5. TypeInv'
  BY <1>2, <1>3, <1>4, EmptyInStores DEF IInv, TypeInv
<1>6. BatchInv'
  BY <1>1, <1>2, <1>3 DEF IInv, BatchInv, Fitting, UnbufferedIsSettled
<1>7. HolderInv'
  BY <1>1, <1>2, <1>3, FreeMeansNoReplace DEF IInv, HolderInv
<1>8. KeysInv'
  BY <1>2, EmptyInStores DEF IInv, KeysInv, AllKeys
<1>9. ReplaceInv'
  <2> SUFFICES ASSUME NEW d \in Callers, call'[d].at = "replace"
               PROVE  Replacing(d)'
    BY DEF ReplaceInv
  <2>1. d = c
    BY <1>2, <1>3, FreeMeansNoReplace DEF IInv
  <2>2. entries \in Seq(Entry)
    BY CallsAssumption
  <2>3. Underway(c)' /\ Passed(c)' = 0
    <3>1. call'[c].todo = entries /\ call'[c].all = entries /\ Len(entries) \in Nat
      BY <1>1, <1>3, <2>2
    <3>2. Passed(c)' = 0
      BY <3>1 DEF Passed
    <3> QED
      BY <3>1, <3>2 DEF Underway
  <2>4. HoldsFirst(store, call[c].all, Passed(c))'
    BY <1>2, <2>3, EmptyInStores DEF HoldsFirst
  <2> QED
    BY <1>1, <1>2, <1>3, <2>1, <2>3, <2>4 DEF Replacing, AllRepresentable
<1> QED
  BY <1>5, <1>6, <1>7, <1>8, <1>9 DEF IInv

(* The entry that is next is the one after those that are done.             *)
LEMMA NextItem ==
  ASSUME IInv, NEW c \in Callers, call[c].at = "replace", call[c].todo # <<>>
  PROVE  /\ call[c] \in CallType
         /\ call[c].all \in Seq(Entry)
         /\ Passed(c) \in Nat
         /\ Passed(c) < Len(call[c].all)
         /\ Head(call[c].todo) = call[c].all[Passed(c) + 1]
         /\ Head(call[c].todo) \in Entry
<1>1. call[c] \in CallType /\ Replacing(c)
  BY DEF IInv, TypeInv, ReplaceInv
<1>2. call[c].all \in Seq(Entry)
  BY <1>1, CallsAssumption DEF Replacing
<1>3. Len(call[c].todo) \in Nat \ {0} /\ Len(call[c].todo) <= Len(call[c].all)
  BY <1>1 DEF CallType, Replacing, Underway
<1>4. Head(call[c].todo) = call[c].todo[1]
  BY <1>1 DEF CallType
<1>5. Len(call[c].all) \in Nat
  BY <1>2
<1>6. Passed(c) \in Nat /\ Passed(c) < Len(call[c].all)
  BY <1>3, <1>5, Difference DEF Passed
<1>7. call[c].todo[1] = call[c].all[Passed(c) + 1]
  BY <1>1, <1>3 DEF Replacing, Underway
<1>8. call[c].all[Passed(c) + 1] \in Entry
  BY <1>2, <1>6
<1> QED
  BY <1>1, <1>2, <1>4, <1>6, <1>7, <1>8

LEMMA ReplaceNextStep ==
  ASSUME IInv, Touch, NEW c \in Callers, ReplaceNext(c)
  PROVE  IInv'
<1> DEFINE e   == Head(call[c].todo)
           n   == Passed(c)
           new == [call[c] EXCEPT !.todo = Tail(@)]
<1>1. /\ call' = [call EXCEPT ![c] = new]
      /\ call[c].at = "replace"
      /\ call[c].todo # <<>>
      /\ Accepted(kind, e)
      /\ store' = With(store, e)
      /\ buffered' = IsMap
      /\ UNCHANGED <<kind, holder, before, unsettled>>
  BY DEF ReplaceNext, At, IInv, TypeInv
<1>2. /\ call[c].all \in Seq(Entry) /\ call[c] \in CallType
      /\ n \in Nat /\ n < Len(call[c].all)
      /\ e = call[c].all[n + 1] /\ e \in Entry /\ e \in Op
  BY <1>1, NextItem, EntriesAreOps
<1>3. /\ new \in CallType
      /\ new.at = "replace" /\ new.all = call[c].all /\ new.todo = Tail(call[c].todo)
  <2>1. Tail(call[c].todo) \in Seq(Item)
    BY <1>1, <1>2 DEF CallType
  <2> QED
    BY <1>1, <1>2, <2>1 DEF CallType
<1> HIDE DEF new
<1>4. /\ call' \in [Callers -> CallType]
      /\ call'[c] = new
      /\ \A d \in Callers \ {c} : call'[d] = call[d]
  BY <1>1, <1>3 DEF IInv, TypeInv
<1>5. store' \in Stores /\ \A k \in AllKeys \ {e.key} : store'[k] = store[k]
  BY <1>1, <1>2, WithInStores DEF IInv, TypeInv
<1>6. touched' \in [Callers -> SUBSET AllKeys]
  BY DEF Touch, IInv, TypeInv
<1>7. IsMap \in BOOLEAN /\ (kind = "io" => IsMap)
  BY DEF IsMap
<1>8. TypeInv'
  BY <1>1, <1>4, <1>5, <1>6, <1>7 DEF IInv, TypeInv
<1>9. BatchInv'
  BY <1>1, <1>3, <1>4, <1>7 DEF IInv, BatchInv, Fitting, UnbufferedIsSettled
<1>10. HolderInv'
  BY <1>1, <1>3, <1>4 DEF IInv, HolderInv
<1>11. KeysInv'
  <2>1. kind # "memory" => e.key \notin LongKeys
    BY <1>1, SharedAssumption DEF Accepted, Representable
  <2> QED
    BY <1>1, <1>5, <2>1 DEF IInv, KeysInv, AllKeys
<1>12. ReplaceInv'
  <2> SUFFICES ASSUME NEW d \in Callers, call'[d].at = "replace"
               PROVE  Replacing(d)'
    BY DEF ReplaceInv
  <2>1. d = c
    BY <1>1, <1>4 DEF IInv, HolderInv
  <2>2. Replacing(c)
    BY <1>1 DEF IInv, ReplaceInv
  <2>3. Underway(c)' /\ Passed(c)' = n + 1
    <3>1. /\ Len(new.todo) = Len(call[c].todo) - 1
          /\ \A i \in 1 .. Len(new.todo) : new.todo[i] = call[c].todo[i + 1]
      BY <1>1, <1>2, <1>3 DEF CallType
    <3>2. Len(call[c].todo) \in Nat /\ Len(call[c].all) \in Nat
      BY <1>2 DEF CallType
    <3>3. call'[c].todo = new.todo /\ call'[c].all = call[c].all
      BY <1>3, <1>4
    <3>4. Passed(c)' = n + 1
      <4>1. Passed(c)' = Len(call[c].all) - (Len(call[c].todo) - 1)
        BY <3>1, <3>3 DEF Passed
      <4>2. n = Len(call[c].all) - Len(call[c].todo)
        BY DEF Passed
      <4> QED
        BY <3>2, <4>1, <4>2, Difference
    <3>5. \A i \in 1 .. Len(call[c].todo) : call[c].todo[i] = call[c].all[n + i]
      BY <2>2 DEF Replacing, Underway
    <3>6. ASSUME NEW i \in 1 .. Len(new.todo)
          PROVE  new.todo[i] = call[c].all[n + 1 + i]
      <4>1. i \in Nat /\ i + 1 \in 1 .. Len(call[c].todo)
        BY <3>1, <3>2
      <4>2. n + 1 + i = n + (i + 1)
        BY <1>2, <4>1
      <4> QED
        BY <3>1, <3>5, <4>1, <4>2
    <3>7. Len(new.todo) <= Len(call[c].all)
      BY <2>2, <3>1, <3>2 DEF Replacing, Underway
    <3> QED
      BY <3>3, <3>4, <3>6, <3>7 DEF Underway
  <2>4. \A i \in 1 .. n + 1 : Accepted(kind, call[c].all[i])
    BY <1>1, <1>2, <2>2 DEF Replacing
  <2>5. HoldsFirst(store', call[c].all, n + 1)
    BY <1>1, <1>2, <2>2, HoldsOneMore DEF Replacing, IInv, TypeInv
  <2> QED
    BY <1>1, <1>3, <1>4, <2>1, <2>2, <2>3, <2>4, <2>5 DEF Replacing, AllRepresentable
<1> QED
  BY <1>8, <1>9, <1>10, <1>11, <1>12 DEF IInv

LEMMA ReplaceEndsStep ==
  ASSUME IInv, Touch, NEW c \in Callers, ReplaceEnds(c)
  PROVE  IInv'
<1>1. /\ call' = [call EXCEPT ![c] = Idle]
      /\ call[c].at = "replace"
      /\ holder' = NOBODY
      /\ before' = EmptyStore
      /\ UNCHANGED <<kind, store, buffered, unsettled>>
  BY DEF ReplaceEnds, Returns, At
<1>2. Idle \in CallType /\ Idle.at = "idle"
  BY CallTypes DEF Idle
<1>3. /\ call' \in [Callers -> CallType]
      /\ call'[c] = Idle
      /\ \A d \in Callers \ {c} : call'[d] = call[d]
  BY <1>1, <1>2 DEF IInv, TypeInv
<1>4. \A d \in Callers : call'[d].at # "replace"
  BY <1>1, <1>2, <1>3 DEF IInv, HolderInv
<1>5. touched' \in [Callers -> SUBSET AllKeys]
  BY DEF Touch, IInv, TypeInv
<1>6. TypeInv'
  BY <1>1, <1>3, <1>5, EmptyInStores DEF IInv, TypeInv
<1>7. BatchInv'
  BY <1>1, <1>2, <1>3 DEF IInv, BatchInv, Fitting, UnbufferedIsSettled
<1>8. HolderInv'
  BY <1>1, <1>4, SharedAssumption DEF HolderInv
<1>9. KeysInv'
  BY <1>1, EmptyInStores DEF IInv, KeysInv, AllKeys
<1>10. ReplaceInv'
  BY <1>4 DEF ReplaceInv
<1> QED
  BY <1>6, <1>7, <1>8, <1>9, <1>10 DEF IInv

(***************************************************************************)
(* apply_batch.                                                            *)
(***************************************************************************)
LEMMA BatchStep ==
  ASSUME IInv, Touch, NEW c \in Callers, NEW ops \in Batches, Batch(c, ops)
  PROVE  IInv'
<1> DEFINE new == Under("batch", ops)
<1>1. /\ call' = [call EXCEPT ![c] = new]
      /\ call[c].at = "idle"
      /\ kind = "io"
      /\ unsettled' = [unsettled EXCEPT ![c] = {}]
      /\ UNCHANGED <<kind, store, buffered, holder, before>>
  BY DEF Batch, At
<1>2. new \in CallType /\ new.at = "batch" /\ Fitting(new)
  BY <1>1, CallTypes, ListTypes, CallsAssumption DEF Places, Fitting
<1> HIDE DEF new
<1>3. /\ store' \in Stores
      /\ buffered' \in BOOLEAN
      /\ unsettled' \in [Callers -> SUBSET AllKeys]
  BY <1>1 DEF IInv, TypeInv
<1>4. ~ buffered' => \A d \in Callers : unsettled'[d] = {}
  BY <1>1 DEF IInv, TypeInv, BatchInv, UnbufferedIsSettled
<1> QED
  BY <1>1, <1>2, <1>3, <1>4, CallStep

(* What an operation of a batch works on.                                   *)
LEMMA BatchItem ==
  ASSUME IInv, NEW c \in Callers, call[c].at = "batch", call[c].todo # <<>>
  PROVE  /\ kind = "io"
         /\ Free
         /\ BatchOp(c) \in Op
         /\ BatchOp(c).key \in AllKeys
         /\ Tail(call[c].todo) \in Seq(Op)
<1>1. kind = "io" /\ call[c].todo \in Seq(Op)
  BY DEF IInv, BatchInv, Fitting
<1>2. Free
  BY <1>1 DEF IInv, HolderInv, Free
<1>3. BatchOp(c) \in Op
  BY <1>1 DEF BatchOp
<1> QED
  BY <1>1, <1>2, <1>3 DEF Op

LEMMA BatchNextStep ==
  ASSUME IInv, Touch, NEW c \in Callers, BatchNext(c)
  PROVE  IInv'
<1> DEFINE op  == BatchOp(c)
           new == [call[c] EXCEPT !.todo = Tail(@)]
<1>1. /\ call' = [call EXCEPT ![c] = new]
      /\ call[c].at = "batch"
      /\ call[c].todo # <<>>
      /\ Representable(kind, op.key)
      /\ store' = With(store, op)
      /\ buffered' = (buffered \/ Changes(op))
      /\ unsettled' = [unsettled EXCEPT ![c] = IF Changes(op) THEN @ \cup {op.key} ELSE @]
      /\ UNCHANGED <<kind, holder, before>>
  BY DEF BatchNext, At, IInv, TypeInv
<1>2. /\ kind = "io" /\ Free
      /\ op \in Op /\ op.key \in AllKeys
      /\ Tail(call[c].todo) \in Seq(Op)
  BY <1>1, BatchItem
<1>3. new \in CallType /\ new.at = "batch" /\ Fitting(new)
  <2>1. Tail(call[c].todo) \in Seq(Item)
    BY <1>2 DEF Item
  <2>2. call[c] \in CallType
    BY DEF IInv, TypeInv
  <2>3. new \in CallType /\ new.at = "batch" /\ new.todo = Tail(call[c].todo)
    BY <1>1, <2>1, <2>2 DEF CallType
  <2> QED
    BY <1>2, <2>3 DEF Fitting
<1> HIDE DEF new, op
<1>4. store' \in Stores /\ \A k \in AllKeys \ {op.key} : store'[k] = store[k]
  BY <1>1, <1>2, WithInStores DEF IInv, TypeInv
<1>5. \A k \in LongKeys : store'[k] = store[k] \/ store'[k] = NONE
  BY <1>1, <1>2, <1>4, SharedAssumption DEF Representable, AllKeys
<1>6. /\ buffered \in BOOLEAN
      /\ unsettled \in [Callers -> SUBSET AllKeys]
      /\ ~ buffered => \A d \in Callers : unsettled[d] = {}
  BY DEF IInv, TypeInv, BatchInv, UnbufferedIsSettled
<1>7. buffered' \in BOOLEAN
  BY <1>1, <1>6
<1>8. unsettled' \in [Callers -> SUBSET AllKeys]
  BY <1>1, <1>2, <1>6
<1>9. ~ buffered' => \A d \in Callers : unsettled'[d] = {}
  <2>1. ~ buffered' => ~ buffered /\ ~ Changes(op)
    BY <1>1
  <2>2. ~ Changes(op) => unsettled' = unsettled
    BY <1>1, <1>6
  <2> QED
    BY <1>6, <2>1, <2>2
<1> QED
  BY <1>1, <1>2, <1>3, <1>4, <1>5, <1>7, <1>8, <1>9, CallStep

LEMMA BatchEndsStep ==
  ASSUME IInv, Touch, NEW c \in Callers,
         BatchFails(c) \/ BatchCheck(c) \/ BatchFlush(c)
  PROVE  IInv'
<1> DEFINE flush == [call[c] EXCEPT !.at = "batch_flush"]
<1>1. /\ call[c].at \in {"batch", "batch_flush"}
      /\ call' = [call EXCEPT ![c] = Idle] \/ call' = [call EXCEPT ![c] = flush]
      /\ (Settle \/ UNCHANGED <<buffered, unsettled>>)
      /\ UNCHANGED <<kind, store, holder, before>>
  BY DEF BatchFails, BatchCheck, BatchFlush, Returns, At, IInv, TypeInv
<1>2. call[c] \in CallType /\ Fitting(call[c])
  BY DEF IInv, TypeInv, BatchInv
<1>3. Idle \in CallType /\ Idle.at = "idle" /\ Fitting(Idle)
  BY CallTypes DEF Idle, Fitting
<1>4. flush \in CallType /\ flush.at = "batch_flush" /\ Fitting(flush)
  BY <1>1, <1>2 DEF CallType, Places, Fitting
<1> HIDE DEF flush
<1>5. PICK new \in {Idle, flush} : call' = [call EXCEPT ![c] = new]
  BY <1>1
<1>6. new \in CallType /\ new.at # "replace" /\ Fitting(new)
  BY <1>3, <1>4, <1>5
<1>7. /\ store' \in Stores
      /\ buffered' \in BOOLEAN
      /\ unsettled' \in [Callers -> SUBSET AllKeys]
  BY <1>1 DEF IInv, TypeInv, Settle
<1>8. kind # "io" \/ ~ buffered' => \A d \in Callers : unsettled'[d] = {}
  BY <1>1 DEF IInv, BatchInv, UnbufferedIsSettled, Settle
<1> QED
  BY <1>1, <1>5, <1>6, <1>7, <1>8, CallStep

(***************************************************************************)
(* The invariant.                                                          *)
(***************************************************************************)
LEMMA InitEstablishes == Init => IInv
<1> SUFFICES ASSUME Init PROVE IInv
  OBVIOUS
<1>1. \A c \in Callers : call[c] = Idle /\ call[c].at = "idle"
  BY DEF Init, Idle
<1>2. TypeInv
  BY CallTypes, EmptyInStores DEF Init, TypeInv
<1>3. BatchInv
  BY <1>1 DEF Init, BatchInv, Fitting, UnbufferedIsSettled
<1>4. HolderInv
  BY <1>1, SharedAssumption DEF Init, HolderInv
<1>5. KeysInv
  BY EmptyInStores DEF Init, KeysInv, AllKeys
<1>6. ReplaceInv
  BY <1>1 DEF ReplaceInv
<1> QED
  BY <1>2, <1>3, <1>4, <1>5, <1>6 DEF IInv

LEMMA StepKeeps ==
  ASSUME IInv, Touch, NEW c \in Callers, Step(c)
  PROVE  IInv'
<1>1. ASSUME NEW k \in AllKeys, Get(c, k) \/ Contains(c, k) \/ RemoveRefused(c, k)
      PROVE  IInv'
  BY <1>1, ReadOnly DEF Get, Contains, RemoveRefused
<1>2. ASSUME NEW e \in Entry, InsertRefused(c, e)
      PROVE  IInv'
  BY <1>2, ReadOnly DEF InsertRefused
<1>3. ASSUME ReadAll(c) \/ Count(c)
      PROVE  IInv'
  BY <1>3, ReadOnly DEF ReadAll, Count
<1>4. ASSUME NEW checks \in AxisChecks, AxisFiltered(c, checks)
      PROVE  IInv'
  BY <1>4, ReadOnly DEF AxisFiltered
<1>5. ASSUME NEW entries \in Lists, ReplaceRefused(c, entries)
      PROVE  IInv'
  BY <1>5, ReadOnly DEF ReplaceRefused
<1> QED
  BY <1>1, <1>2, <1>3, <1>4, <1>5, InsertStep, RemoveStep, ClearStep, SettleStep,
     ProximityStep, ReplaceStep, ReplaceNextStep, ReplaceEndsStep,
     BatchStep, BatchNextStep, BatchEndsStep
  DEF Step

LEMMA NextKeeps == IInv /\ [Next]_vars => IInv'
<1> SUFFICES ASSUME IInv, [Next]_vars PROVE IInv'
  OBVIOUS
<1>1. CASE Next
  BY <1>1, StepKeeps DEF Next
<1>2. CASE UNCHANGED vars
  <2>1. UNCHANGED <<kind, store, buffered, holder, call, before, unsettled, touched>>
    BY <1>2 DEF vars
  <2>2. TypeInv'
    BY <2>1 DEF IInv, TypeInv
  <2>3. BatchInv' /\ HolderInv' /\ KeysInv'
    BY <2>1 DEF IInv, BatchInv, Fitting, UnbufferedIsSettled, HolderInv, KeysInv
  <2>4. ReplaceInv'
    BY <2>1 DEF IInv, ReplaceInv, Replacing, Underway, Passed, AllRepresentable
  <2> QED
    BY <2>2, <2>3, <2>4 DEF IInv
<1> QED
  BY <1>1, <1>2

LEMMA Invariant == Spec => []IInv
  BY InitEstablishes, NextKeeps, PTL DEF Spec

(* No run of a shared store reaches a state in which a channel that is not  *)
(* buffered owes one of its batches a flush.                                *)
THEOREM Settled == Spec => []UnbufferedIsSettled
<1>1. IInv => UnbufferedIsSettled
  BY DEF IInv, BatchInv
<1> QED
  BY <1>1, Invariant, PTL

(***************************************************************************)
(* A batch that answers Ok.                                                *)
(***************************************************************************)
LEMMA OthersWait ==
  ASSUME IInv, NEW c \in Callers, Step(c)
  PROVE  \A d \in Callers \ {c} : call'[d] = call[d]
<1> USE DEF IInv, TypeInv
<1>1. ASSUME NEW k \in AllKeys, Get(c, k) \/ Contains(c, k) \/ Remove(c, k) \/ RemoveRefused(c, k)
      PROVE  UNCHANGED call
  BY <1>1 DEF Get, Contains, Remove, RemoveRefused
<1>2. ASSUME NEW e \in Entry, Insert(c, e) \/ InsertRefused(c, e)
      PROVE  UNCHANGED call
  BY <1>2 DEF Insert, InsertRefused
<1>3. ASSUME \/ ReadAll(c) \/ Count(c) \/ Clear(c) \/ Flush(c)
             \/ \E checks \in AxisChecks : AxisFiltered(c, checks)
             \/ \E entries \in Lists : ReplaceRefused(c, entries)
      PROVE  UNCHANGED call
  BY <1>3 DEF ReadAll, Count, Clear, Flush, AxisFiltered, ReplaceRefused
<1>4. ASSUME \/ \E cube \in Cubes : Proximity(c, cube)
             \/ ProximityNext(c) \/ ProximityEnds(c)
             \/ \E entries \in Lists : Replace(c, entries)
             \/ ReplaceNext(c) \/ ReplaceEnds(c)
             \/ \E ops \in Batches : Batch(c, ops)
             \/ BatchNext(c) \/ BatchFails(c) \/ BatchCheck(c) \/ BatchFlush(c)
      PROVE  \A d \in Callers \ {c} : call'[d] = call[d]
  BY <1>4 DEF Proximity, ProximityNext, ProximityEnds, Replace, Begin, ReplaceNext,
     ReplaceEnds, Batch, BatchNext, BatchFails, BatchCheck, BatchFlush, Returns
<1> QED
  BY <1>1, <1>2, <1>3, <1>4 DEF Step

LEMMA OwnBatch ==
  ASSUME IInv, NEW c \in Callers, Step(c),
         call[c].at \in {"batch", "batch_flush"}, call'[c].at = "idle", last'.answer = DONE
  PROVE  unsettled'[c] = {}
<1>1. \/ BatchNext(c) \/ BatchFails(c) \/ BatchCheck(c) \/ BatchFlush(c)
  BY DEF Step, At, Get, Contains, Remove, RemoveRefused, Insert, InsertRefused, ReadAll,
     Count, Clear, Flush, AxisFiltered, ReplaceRefused, Proximity, ProximityNext,
     ProximityEnds, Replace, ReplaceNext, ReplaceEnds, Batch
<1>2. ~ BatchNext(c)
  <2> SUFFICES ASSUME BatchNext(c) PROVE FALSE
    OBVIOUS
  <2>1. call' = [call EXCEPT ![c].todo = Tail(@)] /\ call[c].at = "batch"
    BY DEF BatchNext, At
  <2>2. call'[c].at = "batch"
    BY <2>1 DEF IInv, TypeInv, CallType
  <2> QED
    BY <2>2
<1>3. ~ BatchFails(c)
  BY SharedAssumption DEF BatchFails, Ends
<1>4. CASE BatchCheck(c)
  <2>1. ASSUME call' = [call EXCEPT ![c].at = "batch_flush"]
        PROVE  FALSE
    BY <2>1 DEF IInv, TypeInv, CallType
  <2>2. ~ buffered /\ UNCHANGED unsettled
    BY <1>4, <2>1 DEF BatchCheck
  <2> QED
    BY <2>2 DEF IInv, BatchInv, UnbufferedIsSettled
<1>5. CASE BatchFlush(c)
  <2>1. Settle
    BY <1>5, SharedAssumption DEF BatchFlush, Ends
  <2> QED
    BY <2>1 DEF Settle
<1> QED
  BY <1>1, <1>2, <1>3, <1>4, <1>5

(* A batch that answered Ok left none of its changes unflushed, whoever of  *)
(* the callers flushed them.                                                *)
THEOREM OkMeansSettled == Spec => BatchSettles
<1> DEFINE A == \A c \in Callers :
                  /\ call[c].at \in {"batch", "batch_flush"}
                  /\ call'[c].at = "idle"
                  /\ last'.answer = DONE
                  => unsettled'[c] = {}
<1>1. ASSUME IInv, Next
      PROVE  A
  <2>1. PICK d \in Callers : Step(d)
    BY <1>1 DEF Next
  <2> QED
    BY <1>1, <2>1, OthersWait, OwnBatch
<1>2. IInv /\ [Next]_vars => [A]_vars
  BY <1>1
<1> QED
  BY <1>2, Invariant, PTL DEF Spec, BatchSettles

(***************************************************************************)
(* The store implements EntityStoreSpec: what the callers see changes only *)
(* as that specification allows.                                           *)
(***************************************************************************)
LEMMA AbstractTerms ==
  /\ Abstract!Kinds = Kinds /\ Abstract!AllKeys = AllKeys
  /\ Abstract!Entry = Entry /\ Abstract!Stores = Stores
  /\ Abstract!EmptyStore = EmptyStore
  /\ \A k : Abstract!Representable(kind, k) <=> Representable(kind, k)
  /\ \A e : Abstract!Accepted(kind, e) <=> Accepted(kind, e)
  /\ \A s, e : Abstract!With(s, e) = With(s, e)
  /\ \A s : Abstract!KeysIn(s) = KeysIn(s)
  /\ \A s, list, n : Abstract!HoldsFirst(s, list, n) <=> HoldsFirst(s, list, n)
BY DEF Abstract!Kinds, Kinds, Abstract!AllKeys, AllKeys, Abstract!AllData, AllData,
   Abstract!Entry, Entry, Abstract!Stores, Stores, Abstract!EmptyStore, EmptyStore,
   Abstract!Representable, Representable, Abstract!Fits, Fits, Abstract!Accepted, Accepted,
   Abstract!With, With, Abstract!KeysIn, KeysIn, Abstract!HoldsFirst, HoldsFirst

(* The subtree and the scan of axis_filtered answer alike.                  *)
LEMMA FilterMatches ==
  ASSUME IInv, kind = "coord", Free, NEW checks \in AxisChecks
  PROVE  (IF IsPrefix(checks) THEN Subtree(checks) ELSE Scan(checks))
           = Abstract!Matching(checks)
<1>1. Visible = store
  BY DEF Visible
<1>2. KeysIn(store) \subseteq Keys
  BY DEF IInv, KeysInv, KeysIn, AllKeys
<1>3. checks \in Seq(Check) /\ Len(checks) \in Nat
  BY CallsAssumption
<1>4. \A i \in 1 .. Len(checks) : checks[i].axis \in Nat /\ checks[i].value \in Nat
  <2>1. \A i \in 1 .. Len(checks) : checks[i] \in Check
    BY <1>3
  <2> QED
    BY <2>1 DEF Check
<1>5. \A k \in Keys : PathOf[k] \in Seq(0 .. COORDS - 1) /\ Len(PathOf[k]) \in Nat
  BY SharedAssumption
<1>6. Abstract!Matching(checks)
        = { k \in KeysIn(store) :
              \A i \in 1 .. Len(checks) :
                /\ checks[i].axis < Len(PathOf[k])
                /\ PathOf[k][checks[i].axis + 1] = checks[i].value }
  BY <1>1, <1>2, AbstractTerms DEF Abstract!Matching
<1>7. Scan(checks) = Abstract!Matching(checks)
  <2> SUFFICES ASSUME NEW k \in KeysIn(store)
               PROVE  (~ \E i \in 1 .. Len(checks) :
                           \/ checks[i].axis >= Len(PathOf[k])
                           \/ PathOf[k][checks[i].axis + 1] # checks[i].value)
                      <=> \A i \in 1 .. Len(checks) :
                            /\ checks[i].axis < Len(PathOf[k])
                            /\ PathOf[k][checks[i].axis + 1] = checks[i].value
    BY <1>6 DEF Scan
  <2>1. \A i \in 1 .. Len(checks) :
           ~ (checks[i].axis >= Len(PathOf[k])) <=> checks[i].axis < Len(PathOf[k])
    BY <1>2, <1>4, <1>5
  <2> QED
    BY <2>1
<1>8. ASSUME IsPrefix(checks)
      PROVE  Subtree(checks) = Abstract!Matching(checks)
  <2>1. Len(checks) # 0 /\ \A i \in 1 .. Len(checks) : checks[i].axis = i - 1
    BY <1>3, <1>8 DEF IsPrefix
  <2>2. CASE \E i \in 1 .. Len(checks) : checks[i].value >= COORDS
    <3>1. PICK i \in 1 .. Len(checks) : checks[i].value >= COORDS
      BY <2>2
    <3>2. \A k \in Keys : checks[i].axis < Len(PathOf[k])
                           => PathOf[k][checks[i].axis + 1] # checks[i].value
      BY <1>4, <1>5, <3>1, SharedAssumption
    <3> QED
      BY <1>2, <1>6, <2>2, <3>2 DEF Subtree
  <2>3. CASE ~ \E i \in 1 .. Len(checks) : checks[i].value >= COORDS
    <3> SUFFICES ASSUME NEW k \in KeysIn(store)
                 PROVE  (/\ Len(checks) <= Len(PathOf[k])
                         /\ SubSeq(PathOf[k], 1, Len(checks))
                              = [i \in 1 .. Len(checks) |-> checks[i].value])
                        <=> \A i \in 1 .. Len(checks) :
                              /\ checks[i].axis < Len(PathOf[k])
                              /\ PathOf[k][checks[i].axis + 1] = checks[i].value
      BY <1>6, <2>3 DEF Subtree
    <3>1. PathOf[k] \in Seq(0 .. COORDS - 1) /\ Len(PathOf[k]) \in Nat
      BY <1>2, <1>5
    <3>2. SubSeq(PathOf[k], 1, Len(checks)) = [i \in 1 .. Len(checks) |-> PathOf[k][i]]
      BY <1>3, <3>1
    <3>3. (Len(checks) <= Len(PathOf[k]))
            <=> \A i \in 1 .. Len(checks) : checks[i].axis < Len(PathOf[k])
      BY <1>3, <2>1, <3>1
    <3>4. (SubSeq(PathOf[k], 1, Len(checks)) = [i \in 1 .. Len(checks) |-> checks[i].value])
            <=> \A i \in 1 .. Len(checks) : PathOf[k][i] = checks[i].value
      BY <3>2
    <3>5. \A i \in 1 .. Len(checks) : checks[i].axis + 1 = i
      BY <1>3, <2>1
    <3> QED
      BY <3>3, <3>4, <3>5
  <2> QED
    BY <2>2, <2>3
<1> QED
  BY <1>7, <1>8

LEMMA InitImplements == Init => Abstract!Init
  BY AbstractTerms DEF Init, Abstract!Init, Visible, Free

(* The operations of one borrow.                                            *)
LEMMA ReadImplements ==
  ASSUME IInv, NEW c \in Callers,
         \/ \E k \in AllKeys : Get(c, k) \/ Contains(c, k)
         \/ ReadAll(c) \/ Count(c)
         \/ \E checks \in AxisChecks : AxisFiltered(c, checks)
  PROVE  Abstract!Read
<1>1. UNCHANGED Visible /\ UNCHANGED kind
  BY DEF Get, Contains, ReadAll, Count, AxisFiltered, Visible, Free
<1>2. Free => Visible = store
  BY DEF Visible
<1>3. ASSUME NEW k \in AllKeys, Get(c, k) PROVE Abstract!Read
  BY <1>1, <1>2, <1>3, AbstractTerms DEF Get, Abstract!Read, Abstract!Ends, Ends
<1>4. ASSUME NEW k \in AllKeys, Contains(c, k) PROVE Abstract!Read
  <2>1. last' = [name |-> "contains", arg |-> k,
                 answer |-> Representable(kind, k) /\ Visible[k] # NONE]
    BY <1>2, <1>4 DEF Contains, Ends
  <2> QED
    BY <1>1, <2>1, AbstractTerms DEF Abstract!Read, Abstract!Ends
<1>5. ASSUME ReadAll(c) PROVE Abstract!Read
  BY <1>1, <1>2, <1>5 DEF ReadAll, Abstract!Read, Abstract!Ends, Ends
<1>6. ASSUME Count(c) PROVE Abstract!Read
  <2>1. last' = [name |-> "len", arg |-> NONE, answer |-> Cardinality(KeysIn(Visible))]
    BY <1>2, <1>6 DEF Count, Ends
  <2>2. Abstract!Cardinality(KeysIn(Visible)) = Cardinality(KeysIn(Visible))
    BY DEF Abstract!Cardinality, Cardinality
  <2>3. Abstract!KeysIn(Visible) = KeysIn(Visible)
    BY AbstractTerms
  <2> QED
    BY <1>1, <2>1, <2>2, <2>3 DEF Abstract!Read, Abstract!Ends
<1>7. ASSUME NEW checks \in AxisChecks, AxisFiltered(c, checks) PROVE Abstract!Read
  <2>1. last' = [name |-> "filter", arg |-> checks, answer |-> Abstract!Matching(checks)]
    BY <1>7, FilterMatches DEF AxisFiltered, Ends
  <2> QED
    BY <1>1, <2>1 DEF Abstract!Read, Abstract!Ends
<1> QED
  BY <1>3, <1>4, <1>5, <1>6, <1>7

LEMMA WriteImplements ==
  ASSUME IInv, NEW c \in Callers,
         \/ \E e \in Entry : Insert(c, e) \/ InsertRefused(c, e)
         \/ \E k \in AllKeys : Remove(c, k) \/ RemoveRefused(c, k)
         \/ Clear(c)
  PROVE  Abstract!Next
<1>1. Free => Visible = store
  BY DEF Visible
<1>2. Free /\ UNCHANGED holder => Visible' = store'
  BY DEF Visible, Free
<1>3. ASSUME NEW e \in Entry, Insert(c, e) PROVE Abstract!Next
  <2>1. Abstract!Insert(e)
    BY <1>1, <1>2, <1>3, AbstractTerms DEF Insert, Abstract!Insert, Abstract!Ends, Ends
  <2> QED
    BY <2>1, AbstractTerms DEF Abstract!Next
<1>4. ASSUME NEW e \in Entry, InsertRefused(c, e) PROVE Abstract!Next
  <2>1. UNCHANGED Visible
    BY <1>4 DEF InsertRefused, Visible, Free
  <2>2. Abstract!Insert(e)
    BY <1>4, <2>1, AbstractTerms DEF InsertRefused, Abstract!Insert, Abstract!Ends, Ends
  <2> QED
    BY <2>2, AbstractTerms DEF Abstract!Next
<1>5. ASSUME NEW k \in AllKeys, Remove(c, k) PROVE Abstract!Next
  <2>1. Abstract!Remove(k)
    BY <1>1, <1>2, <1>5, AbstractTerms DEF Remove, Abstract!Remove, Abstract!Ends, Ends
  <2> QED
    BY <2>1, AbstractTerms DEF Abstract!Next
<1>6. ASSUME NEW k \in AllKeys, RemoveRefused(c, k) PROVE Abstract!Next
  <2>1. UNCHANGED Visible
    BY <1>6 DEF RemoveRefused, Visible, Free
  <2>2. Abstract!Remove(k)
    BY <1>6, <2>1, AbstractTerms DEF RemoveRefused, Abstract!Remove, Abstract!Ends, Ends
  <2> QED
    BY <2>2, AbstractTerms DEF Abstract!Next
<1>7. ASSUME Clear(c) PROVE Abstract!Next
  BY <1>2, <1>7, AbstractTerms DEF Clear, Abstract!Clear, Abstract!Ends, Ends, Abstract!Next
<1> QED
  BY <1>3, <1>4, <1>5, <1>6, <1>7

(* Steps the callers do not see: a replace_from until it ends, because no   *)
(* one else can borrow the cell, and what moves only the caller.            *)
LEMMA SilentSteps ==
  ASSUME IInv, NEW c \in Callers,
         \/ \E cube \in Cubes : Proximity(c, cube)
         \/ ProximityNext(c) \/ ProximityEnds(c) \/ Flush(c)
         \/ \E entries \in Lists : Replace(c, entries)
         \/ ReplaceNext(c)
         \/ \E ops \in Batches : Batch(c, ops)
  PROVE  UNCHANGED <<kind, Visible, last>>
<1>1. ASSUME \/ \E cube \in Cubes : Proximity(c, cube)
             \/ ProximityNext(c) \/ ProximityEnds(c) \/ Flush(c)
             \/ \E ops \in Batches : Batch(c, ops)
      PROVE  UNCHANGED <<kind, Visible, last>>
  BY <1>1 DEF Proximity, ProximityNext, ProximityEnds, Flush, Batch, Visible, Free
<1>2. ASSUME NEW entries \in Lists, Replace(c, entries)
      PROVE  UNCHANGED <<kind, Visible, last>>
  BY <1>2, SharedAssumption DEF Replace, Begin, Visible, Free
<1>3. ASSUME ReplaceNext(c)
      PROVE  UNCHANGED <<kind, Visible, last>>
  <2>1. holder = c
    BY <1>3 DEF ReplaceNext, At, IInv, HolderInv
  <2> QED
    BY <1>3, <2>1, SharedAssumption DEF ReplaceNext, Visible, Free
<1> QED
  BY <1>1, <1>2, <1>3

(* The whole of a replace_from becomes visible when its guard is dropped.   *)
LEMMA ReplaceImplements ==
  ASSUME IInv, NEW c \in Callers,
         (\E entries \in Lists : ReplaceRefused(c, entries)) \/ ReplaceEnds(c)
  PROVE  Abstract!Next
<1>1. ASSUME NEW entries \in Lists, ReplaceRefused(c, entries) PROVE Abstract!Next
  <2>1. UNCHANGED Visible
    BY <1>1 DEF ReplaceRefused, Visible, Free
  <2>2. Abstract!ReplaceFails(entries)
    BY <1>1, <2>1, AbstractTerms
    DEF ReplaceRefused, AllRepresentable, Abstract!ReplaceFails, Abstract!Ends, Ends
  <2> QED
    BY <2>2 DEF Abstract!Next
<1>2. ASSUME ReplaceEnds(c) PROVE Abstract!Next
  <2> DEFINE entries == call[c].all
             n       == Passed(c)
  <2>1. call[c].at = "replace" /\ Replacing(c) /\ call[c] \in CallType
    BY <1>2 DEF ReplaceEnds, At, IInv, ReplaceInv, TypeInv
  <2>2. Visible' = store /\ UNCHANGED kind /\ store \in Stores
    BY <1>2 DEF ReplaceEnds, Visible, Free, IInv, TypeInv
  <2>3. /\ entries \in Lists
        /\ \A i \in 1 .. n : Accepted(kind, entries[i])
        /\ HoldsFirst(store, entries, n)
        /\ kind = "map" => \A i \in 1 .. Len(entries) : Representable(kind, entries[i].key)
    BY <2>1 DEF Replacing, AllRepresentable
  <2>4. CASE call[c].todo = <<>> /\ Ends("replace", entries, DONE)
    <3>1. n = Len(entries)
      <4>1. Len(call[c].todo) = 0 /\ Len(entries) \in Nat
        BY <2>1, <2>4 DEF CallType
      <4> QED
        BY <4>1 DEF Passed
    <3>2. Abstract!Replace(entries)
      BY <2>2, <2>3, <2>4, <3>1, AbstractTerms
      DEF Abstract!Replace, Abstract!Becomes, Abstract!Ends, Ends
    <3> QED
      BY <2>3, <3>2 DEF Abstract!Next
  <2>5. CASE /\ call[c].todo # <<>>
             /\ ~ Accepted(kind, Head(call[c].todo))
             /\ Ends("replace", entries, FAILED)
    <3>1. /\ n \in Nat /\ n < Len(entries)
          /\ Head(call[c].todo) = entries[n + 1]
          /\ Len(entries) \in Nat
      BY <2>1, <2>5, NextItem
    <3>2. n + 1 \in 1 .. Len(entries) /\ (n + 1) - 1 = n
      BY <3>1
    <3> HIDE DEF n, entries
    <3>3. \E i \in 1 .. Len(entries) :
             /\ ~ Accepted(kind, entries[i])
             /\ \A j \in 1 .. i - 1 : Accepted(kind, entries[j])
             /\ Visible' \in Stores
             /\ HoldsFirst(Visible', entries, i - 1)
      BY <2>2, <2>3, <2>5, <3>1, <3>2
    <3>4. Abstract!ReplaceFails(entries)
      BY <2>2, <2>3, <2>5, <3>3, AbstractTerms
      DEF Abstract!ReplaceFails, Abstract!Becomes, Abstract!Ends, Ends
    <3> QED
      BY <2>3, <3>4 DEF Abstract!Next
  <2> QED
    BY <1>2, <2>4, <2>5 DEF ReplaceEnds
<1> QED
  BY <1>1, <1>2

(* Each operation of a batch is one of the abstract store.                  *)
LEMMA BatchImplements ==
  ASSUME IInv, NEW c \in Callers,
         BatchNext(c) \/ BatchFails(c) \/ BatchCheck(c) \/ BatchFlush(c)
  PROVE  Abstract!Next \/ UNCHANGED <<kind, Visible, last>>
<1>1. ASSUME BatchNext(c) PROVE Abstract!Next
  <2> DEFINE op == BatchOp(c)
  <2>1. /\ op.key \in AllKeys /\ op \in Op /\ kind = "io" /\ Free
        /\ Representable(kind, op.key)
        /\ op.value = NONE \/ Fits(kind, op.value)
        /\ store' = With(store, op)
        /\ IF op.value = NONE THEN Ends("remove", op.key, DONE) ELSE Ends("insert", op, DONE)
        /\ UNCHANGED <<kind, holder>>
    BY <1>1, BatchItem DEF BatchNext, At
  <2> HIDE DEF op
  <2>2. Visible = store /\ Visible' = store'
    BY <2>1 DEF Visible, Free
  <2>3. CASE op.value = NONE
    <3>1. Abstract!Remove(op.key)
      BY <2>1, <2>2, <2>3, AbstractTerms DEF With, Ends, Abstract!Remove, Abstract!Ends
    <3> QED
      BY <2>1, <3>1, AbstractTerms DEF Abstract!Next
  <2>4. CASE op.value # NONE
    <3>1. op \in Entry /\ Accepted(kind, op)
      BY <2>1, <2>4 DEF Op, Entry, Accepted
    <3>2. Abstract!Insert(op)
      BY <2>1, <2>2, <2>4, <3>1, AbstractTerms DEF Ends, Abstract!Insert, Abstract!Ends
    <3> QED
      BY <3>1, <3>2, AbstractTerms DEF Abstract!Next
  <2> QED
    BY <2>3, <2>4
<1>2. ASSUME BatchFails(c) \/ BatchCheck(c) \/ BatchFlush(c)
      PROVE  Abstract!Next \/ UNCHANGED <<kind, Visible, last>>
  <2>1. UNCHANGED <<kind, Visible>>
    BY <1>2 DEF BatchFails, BatchCheck, BatchFlush, Visible, Free
  <2>2. \/ UNCHANGED last
        \/ Ends("batch", NONE, DONE) \/ Ends("batch", NONE, FAILED)
    BY <1>2 DEF BatchFails, BatchCheck, BatchFlush
  <2> QED
    BY <2>1, <2>2 DEF Ends, Abstract!Next, Abstract!BatchEnds, Abstract!Ends
<1> QED
  BY <1>1, <1>2

(* No interleaving of callers shows them anything but whole operations.     *)
THEOREM Implements == Spec => ImplementsEntityStore
<1>1. ASSUME IInv, [Next]_vars
      PROVE  [Abstract!Next]_<<kind, Visible, last>>
  <2>1. ASSUME NEW c \in Callers, Step(c)
        PROVE  Abstract!Next \/ UNCHANGED <<kind, Visible, last>>
    BY <2>1, <1>1, ReadImplements, WriteImplements, SilentSteps, ReplaceImplements,
       BatchImplements
    DEF Step, Abstract!Next
  <2>2. CASE UNCHANGED vars
    BY <2>2 DEF vars, Visible, Free
  <2> QED
    BY <1>1, <2>1, <2>2 DEF Next
<1> QED
  BY <1>1, InitImplements, Invariant, PTL DEF Spec, ImplementsEntityStore, Abstract!Spec

(***************************************************************************)
(* proximity.  What it found so far is right about the keys it is past and *)
(* nobody changed, and says nothing of the keys it has still to reach.     *)
(***************************************************************************)
RightAbout(c, k) ==
  /\ \A i \in 1 .. Len(call[c].found) : call[c].found[i].key = k =>
       call[c].found[i].value = store[k] /\ store[k] # NONE
  /\ store[k] # NONE => \E i \in 1 .. Len(call[c].found) : call[c].found[i].key = k

Gathering(c) ==
  /\ call[c].all \in Cubes
  /\ Underway(c)
  /\ \A i \in 1 .. Len(call[c].found) :
       \E j \in 1 .. Passed(c) : call[c].found[i].key = call[c].all[j]
  /\ \A j \in 1 .. Passed(c) : call[c].all[j] \notin touched[c] => RightAbout(c, call[c].all[j])

ProximityInv == \A c \in Callers : call[c].at = "proximity" => Gathering(c)

LEMMA GatherFirst ==
  ASSUME IInv, NEW c \in Callers, NEW cube \in Cubes, Proximity(c, cube)
  PROVE  Gathering(c)'
<1>1. call'[c] = Under("proximity", cube)
  BY DEF Proximity, IInv, TypeInv
<1>2. /\ call'[c].todo = cube /\ call'[c].all = cube /\ call'[c].found = <<>>
      /\ Len(cube) \in Nat
  BY <1>1, CallTypes, ListTypes, CallsAssumption DEF Places
<1>3. Passed(c)' = 0
  BY <1>2 DEF Passed
<1>4. Underway(c)'
  BY <1>2, <1>3 DEF Underway
<1> QED
  BY <1>2, <1>3, <1>4 DEF Gathering

LEMMA GatherNext ==
  ASSUME IInv, Touch, NEW c \in Callers, Gathering(c), ProximityNext(c)
  PROVE  Gathering(c)'
<1> DEFINE all   == call[c].all
           todo  == call[c].todo
           found == call[c].found
           n     == Passed(c)
           k     == Head(todo)
           more  == IF store[k] = NONE THEN found
                    ELSE Append(found, [key |-> k, value |-> store[k]])
<1>1. /\ call[c] \in CallType /\ call[c].at = "proximity" /\ todo # <<>>
      /\ todo \in Seq(Keys) /\ all \in Cubes /\ all \in Seq(Keys)
      /\ UNCHANGED store
  BY CallsAssumption DEF ProximityNext, At, IInv, TypeInv, BatchInv, Fitting
<1>2. /\ found \in Seq(Op) /\ Len(found) \in Nat
      /\ Len(all) \in Nat
      /\ Len(todo) \in Nat /\ Len(todo) # 0
      /\ Len(Tail(todo)) = Len(todo) - 1
      /\ k = todo[1]
      /\ \A i \in 1 .. Len(todo) - 1 : Tail(todo)[i] = todo[i + 1]
  BY <1>1 DEF CallType
<1>3. /\ Len(todo) <= Len(all)
      /\ \A i \in 1 .. Len(todo) : todo[i] = all[n + i]
  BY DEF Gathering, Underway
<1>4. n = Len(all) - Len(todo)
  BY DEF Passed
<1>5. n \in Nat /\ n < Len(all)
  BY <1>2, <1>3, <1>4, Difference
<1>6. /\ call'[c].at = "proximity" /\ call'[c].all = all
      /\ call'[c].todo = Tail(todo)
      /\ call'[c].found = more
  BY <1>1 DEF ProximityNext, IInv, TypeInv, CallType
<1>7. Passed(c)' = n + 1
  <2>1. Passed(c)' = Len(all) - (Len(todo) - 1)
    BY <1>2, <1>6 DEF Passed
  <2> QED
    BY <1>2, <1>4, <2>1, Difference
<1>8. touched'[c] = touched[c]
  <2>1. touched'[c] = touched[c] \cup { l \in AllKeys : store'[l] # store[l] }
    BY <1>1, <1>6 DEF Touch
  <2> QED
    BY <1>1, <2>1 DEF IInv, TypeInv
<1>9. \A i \in 1 .. Len(found) : \E j \in 1 .. n : found[i].key = all[j]
  BY DEF Gathering
<1>10. \A j \in 1 .. n : all[j] \notin touched[c] => RightAbout(c, all[j])
  BY DEF Gathering
<1>11. k = all[n + 1] /\ k \in Keys
  BY <1>1, <1>2, <1>3
<1> HIDE DEF all, todo, found, n, k
<1>12. \A j \in 1 .. n : all[j] # k
  BY <1>1, <1>2, <1>5, <1>11, CallsAssumption
<1>13. \A i \in 1 .. Len(found) : found[i].key # k
  BY <1>9, <1>12
<1>14. /\ store[k] = NONE => more = found
       /\ store[k] # NONE => /\ Len(more) = Len(found) + 1
                             /\ more[Len(more)] = [key |-> k, value |-> store[k]]
                             /\ \A i \in 1 .. Len(found) : more[i] = found[i]
  BY <1>2
<1> HIDE DEF more
<1>15. /\ \A i \in 1 .. Len(more) :
            \/ i \in 1 .. Len(found) /\ more[i] = found[i]
            \/ more[i] = [key |-> k, value |-> store[k]] /\ store[k] # NONE
       /\ \A i \in 1 .. Len(found) : i \in 1 .. Len(more) /\ more[i] = found[i]
       /\ store[k] # NONE => \E i \in 1 .. Len(more) : more[i] = [key |-> k, value |-> store[k]]
  <2>1. CASE store[k] = NONE
    <3>1. more = found
      BY <1>14, <2>1
    <3> QED
      BY <2>1, <3>1
  <2>2. CASE store[k] # NONE
    <3>1. Len(more) = Len(found) + 1 /\ Len(more) \in 1 .. Len(more)
      BY <1>2, <1>14, <2>2
    <3>2. \A i \in 1 .. Len(more) : i \in 1 .. Len(found) \/ i = Len(more)
      BY <1>2, <3>1
    <3>3. \A i \in 1 .. Len(found) : i \in 1 .. Len(more)
      BY <1>2, <3>1
    <3>4. more[Len(more)] = [key |-> k, value |-> store[k]] /\ \A i \in 1 .. Len(found) : more[i] = found[i]
      BY <1>14, <2>2
    <3> QED
      BY <2>2, <3>1, <3>2, <3>3, <3>4, Zenon
  <2> QED
    BY <2>1, <2>2
<1>16. Underway(c)'
  <2>1. Len(Tail(todo)) <= Len(all)
    BY <1>2, <1>3
  <2>2. ASSUME NEW i \in 1 .. Len(Tail(todo))
        PROVE  Tail(todo)[i] = all[n + 1 + i]
    <3>1. i \in 1 .. Len(todo) - 1 /\ i + 1 \in 1 .. Len(todo) /\ n + (i + 1) = n + 1 + i
      BY <1>2, <1>5
    <3> QED
      BY <1>2, <1>3, <3>1
  <2> QED
    BY <1>6, <1>7, <2>1, <2>2 DEF Underway
<1>17. \A i \in 1 .. Len(more) : \E j \in 1 .. n + 1 : more[i].key = all[j]
  <2>1. n + 1 \in 1 .. n + 1 /\ \A j \in 1 .. n : j \in 1 .. n + 1
    BY <1>5
  <2>2. \A i \in 1 .. Len(found) : \E j \in 1 .. n + 1 : found[i].key = all[j]
    BY <1>9, <2>1, Zenon
  <2>3. [key |-> k, value |-> store[k]].key = all[n + 1]
    BY <1>11
  <2> QED
    BY <1>15, <2>1, <2>2, <2>3, Zenon
<1>18. ASSUME NEW j \in 1 .. n + 1, all[j] \notin touched[c]
       PROVE  /\ \A i \in 1 .. Len(more) : more[i].key = all[j] =>
                   more[i].value = store[all[j]] /\ store[all[j]] # NONE
              /\ store[all[j]] # NONE => \E i \in 1 .. Len(more) : more[i].key = all[j]
  <2>1. CASE j = n + 1
    BY <1>11, <1>13, <1>15, <2>1
  <2>2. CASE j # n + 1
    <3>1. j \in 1 .. n
      BY <1>5, <2>2
    <3>2. /\ \A i \in 1 .. Len(found) : found[i].key = all[j] =>
                found[i].value = store[all[j]] /\ store[all[j]] # NONE
          /\ store[all[j]] # NONE => \E i \in 1 .. Len(found) : found[i].key = all[j]
      BY <1>10, <1>18, <3>1 DEF RightAbout, found
    <3> QED
      BY <1>12, <1>15, <3>1, <3>2
  <2> QED
    BY <2>1, <2>2
<1> QED
  BY <1>1, <1>6, <1>7, <1>8, <1>16, <1>17, <1>18 DEF Gathering, RightAbout

(* A write of another caller touches the keys it changes.                   *)
LEMMA GatherAside ==
  ASSUME IInv, Touch, NEW c \in Callers, Gathering(c), UNCHANGED call[c],
         call[c].at = "proximity"
  PROVE  Gathering(c)'
<1>1. /\ touched[c] \subseteq touched'[c]
      /\ \A k \in AllKeys : k \notin touched'[c] => store'[k] = store[k]
  BY DEF Touch, IInv, TypeInv
<1>2. Underway(c)' /\ Passed(c)' = Passed(c)
  BY DEF Gathering, Underway, Passed
<1>3. call[c].all \in Seq(Keys) /\ \A j \in 1 .. Len(call[c].all) : call[c].all[j] \in AllKeys
  BY CallsAssumption DEF Gathering, AllKeys
<1>4. \A j \in 1 .. Passed(c) : j \in 1 .. Len(call[c].all)
  <2>1. call[c] \in CallType /\ Len(call[c].todo) \in Nat /\ Len(call[c].all) \in Nat
    BY <1>3 DEF IInv, TypeInv, CallType
  <2>2. Len(call[c].todo) <= Len(call[c].all)
    BY DEF Gathering, Underway
  <2>3. \A m, l \in Nat : l <= m => \A j \in 1 .. m - l : j \in 1 .. m
    OBVIOUS
  <2> QED
    BY <2>1, <2>2, <2>3 DEF Passed
<1>5. ASSUME NEW j \in 1 .. Passed(c), call[c].all[j] \notin touched'[c]
      PROVE  RightAbout(c, call[c].all[j])'
  <2>1. call[c].all[j] \notin touched[c] /\ store'[call[c].all[j]] = store[call[c].all[j]]
    BY <1>1, <1>3, <1>4, <1>5
  <2>2. RightAbout(c, call[c].all[j])
    BY <2>1 DEF Gathering
  <2> QED
    BY <2>1, <2>2 DEF RightAbout
<1> QED
  BY <1>2, <1>5 DEF Gathering

LEMMA ProximityKept == IInv /\ ProximityInv /\ [Next]_vars => ProximityInv'
<1> SUFFICES ASSUME IInv, ProximityInv, [Next]_vars,
                    NEW c \in Callers, call'[c].at = "proximity"
             PROVE  Gathering(c)'
  BY DEF ProximityInv
<1>1. CASE UNCHANGED vars
  <2>1. UNCHANGED <<call, store, touched>>
    BY <1>1 DEF vars
  <2>2. Gathering(c)
    BY <2>1 DEF ProximityInv
  <2> QED
    BY <2>1, <2>2 DEF Gathering, Underway, Passed, RightAbout
<1>2. ASSUME Touch, NEW d \in Callers, Step(d)
      PROVE  Gathering(c)'
  <2>1. CASE UNCHANGED call[c]
    BY <1>2, <2>1, GatherAside DEF ProximityInv
  <2>2. CASE call'[c] # call[c]
    <3>1. d = c
      BY <1>2, <2>2, OthersWait
    <3>2. \/ \E cube \in Cubes : Proximity(c, cube)
          \/ ProximityNext(c)
      <4>1. ASSUME NEW new \in {Idle, [call[c] EXCEPT !.at = "batch_flush"]},
                   call' = [call EXCEPT ![c] = new]
            PROVE  FALSE
        <5>1. call'[c] = new
          BY <4>1 DEF IInv, TypeInv
        <5>2. new.at # "proximity"
          BY DEF Idle, IInv, TypeInv, CallType
        <5> QED
          BY <5>1, <5>2
      <4>2. ~ ProximityEnds(c) /\ ~ ReplaceEnds(c) /\ ~ BatchFails(c) /\ ~ BatchFlush(c)
        BY <4>1 DEF ProximityEnds, ReplaceEnds, BatchFails, BatchFlush, Returns
      <4>3. ~ BatchCheck(c)
        BY <4>1 DEF BatchCheck, Returns, IInv, TypeInv
      <4>4. ASSUME NEW at \in {"replace", "batch"}, NEW list,
                   call' = [call EXCEPT ![c] = Under(at, list)]
            PROVE  FALSE
        BY <4>4 DEF Under, IInv, TypeInv
      <4>5. /\ \A entries \in Lists : ~ Replace(c, entries)
            /\ \A ops \in Batches : ~ Batch(c, ops)
        BY <4>4 DEF Replace, Begin, Batch
      <4>6. ASSUME call[c].at # "proximity", call' = [call EXCEPT ![c].todo = Tail(@)]
            PROVE  FALSE
        BY <4>6 DEF IInv, TypeInv, CallType
      <4>7. ~ ReplaceNext(c) /\ ~ BatchNext(c)
        BY <4>6 DEF ReplaceNext, BatchNext, At
      <4> QED
        BY <1>2, <2>2, <3>1, <4>2, <4>3, <4>5, <4>7
        DEF Step, Get, Contains, Remove, RemoveRefused, Insert, InsertRefused, ReadAll,
            Count, Clear, Flush, AxisFiltered, ReplaceRefused
    <3>3. ProximityNext(c) => Gathering(c)
      BY DEF ProximityNext, At, ProximityInv
    <3> QED
      BY <1>2, <3>2, <3>3, GatherFirst, GatherNext
  <2> QED
    BY <2>1, <2>2
<1> QED
  BY <1>1, <1>2 DEF Next

(* However the other callers write, the result of a proximity query is      *)
(* right about every key of the cube that none of them changed.             *)
THEOREM ProximityIsRight == Spec => []ProximityRightOfUntouched
<1>1. Init => ProximityInv
  BY DEF Init, Idle, ProximityInv
<1>2. ASSUME IInv, ProximityInv
      PROVE  ProximityRightOfUntouched
  <2> SUFFICES ASSUME NEW c \in Callers, call[c].at = "proximity", call[c].todo = <<>>,
                      NEW i \in 1 .. Len(call[c].all), call[c].all[i] \notin touched[c]
               PROVE  { e.value : e \in { f \in Found(c) : f.key = call[c].all[i] } }
                        = {store[call[c].all[i]]} \ {NONE}
    BY DEF ProximityRightOfUntouched, At
  <2>1. Gathering(c) /\ call[c] \in CallType
    BY <1>2 DEF ProximityInv, IInv, TypeInv
  <2>2. Passed(c) = Len(call[c].all)
    <3>1. Len(call[c].todo) = 0 /\ Len(call[c].all) \in Nat
      BY <2>1 DEF CallType
    <3> QED
      BY <3>1 DEF Passed
  <2>3. RightAbout(c, call[c].all[i])
    BY <2>1, <2>2 DEF Gathering
  <2> QED
    BY <2>3 DEF RightAbout, Found
<1> QED
  BY <1>1, <1>2, ProximityKept, Invariant, PTL DEF Spec
=============================================================================
