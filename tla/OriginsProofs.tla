---------------------------- MODULE OriginsProofs ----------------------------
(***************************************************************************)
(* Origins, proved for any bytes, buffers, data, images and readers.       *)
(***************************************************************************)
EXTENDS Origins, Integers, SequenceTheorems, TLAPS

(***************************************************************************)
(* What the operators on regions return.                                   *)
(***************************************************************************)
LEMMA ResizedBytes ==
  ASSUME NEW bytes \in Seq(Byte), NEW size \in Nat
  PROVE  /\ Resized(bytes, size) \in Seq(Byte)
         /\ Len(Resized(bytes, size)) = size
         /\ \A p \in 1 .. size :
              Resized(bytes, size)[p] = IF p <= Len(bytes) THEN bytes[p] ELSE 0
<1>1. Resized(bytes, size) \in [1 .. size -> Byte]
  BY RegionAssumption DEF Resized
<1> QED
  BY <1>1 DEF Resized

LEMMA OverwrittenBytes ==
  ASSUME NEW bytes \in Seq(Byte), NEW offset \in Nat, NEW data \in Seq(Byte)
  PROVE  /\ Overwritten(bytes, offset, data) \in Seq(Byte)
         /\ Len(Overwritten(bytes, offset, data)) = Len(bytes)
         /\ \A p \in 1 .. Len(bytes) :
              Overwritten(bytes, offset, data)[p]
                = IF p \in Covers(offset, Len(data)) THEN data[p - offset] ELSE bytes[p]
<1>1. \A p \in Covers(offset, Len(data)) : p - offset \in 1 .. Len(data)
  BY DEF Covers
<1>2. \A p \in Covers(offset, Len(data)) : data[p - offset] \in Byte
  BY <1>1
<1>3. Overwritten(bytes, offset, data) \in [1 .. Len(bytes) -> Byte]
  BY <1>2 DEF Overwritten
<1> QED
  BY <1>3 DEF Overwritten

LEMMA ExtendedBytes ==
  ASSUME NEW bytes \in Seq(Byte), NEW offset \in Nat, NEW data \in Seq(Byte)
  PROVE  /\ Extended(bytes, offset, data) \in Seq(Byte)
         /\ Len(Extended(bytes, offset, data)) = Greatest(Len(bytes), offset + Len(data))
         /\ \A p \in 1 .. Greatest(Len(bytes), offset + Len(data)) :
              Extended(bytes, offset, data)[p]
                = IF p \in Covers(offset, Len(data)) THEN data[p - offset]
                  ELSE IF p <= Len(bytes) THEN bytes[p] ELSE 0
<1> DEFINE size == Greatest(Len(bytes), offset + Len(data))
<1>1. size \in Nat
  BY DEF Greatest
<1> HIDE DEF size
<1>2. /\ Resized(bytes, size) \in Seq(Byte)
      /\ Len(Resized(bytes, size)) = size
      /\ \A p \in 1 .. size : Resized(bytes, size)[p] = IF p <= Len(bytes) THEN bytes[p] ELSE 0
  BY <1>1, ResizedBytes
<1>3. Extended(bytes, offset, data) = Overwritten(Resized(bytes, size), offset, data)
  BY DEF Extended, size
<1>4. /\ Extended(bytes, offset, data) \in Seq(Byte)
      /\ Len(Extended(bytes, offset, data)) = size
      /\ \A p \in 1 .. size :
           Extended(bytes, offset, data)[p]
             = IF p \in Covers(offset, Len(data)) THEN data[p - offset]
               ELSE IF p <= Len(bytes) THEN bytes[p] ELSE 0
  BY <1>2, <1>3, OverwrittenBytes
<1> QED
  BY <1>4 DEF size

(* A write inside the region does not resize it.                            *)
LEMMA ExtendedInside ==
  ASSUME NEW bytes \in Seq(Byte), NEW offset \in Nat, NEW data \in Seq(Byte),
         offset + Len(data) <= Len(bytes)
  PROVE  Extended(bytes, offset, data) = Overwritten(bytes, offset, data)
<1>1. Greatest(Len(bytes), offset + Len(data)) = Len(bytes)
  BY DEF Greatest
<1>2. Resized(bytes, Len(bytes)) = bytes
  BY DEF Resized
<1> QED
  BY <1>1, <1>2 DEF Extended

LEMMA FileWrittenBytes ==
  ASSUME NEW bytes \in Seq(Byte), NEW offset \in Nat, NEW data \in Seq(Byte)
  PROVE  /\ FileWritten(bytes, offset, data) \in Seq(Byte)
         /\ Len(FileWritten(bytes, offset, data))
              = IF data = <<>> THEN Len(bytes) ELSE Greatest(Len(bytes), offset + Len(data))
         /\ \A p \in 1 .. Len(bytes) :
              p \notin Covers(offset, Len(data)) => FileWritten(bytes, offset, data)[p] = bytes[p]
<1>1. \A p \in 1 .. Len(bytes) : p \in 1 .. Greatest(Len(bytes), offset + Len(data))
  BY DEF Greatest
<1>2. CASE data = <<>>
  BY <1>2 DEF FileWritten
<1>3. CASE data # <<>>
  <2>1. FileWritten(bytes, offset, data) = Extended(bytes, offset, data)
    BY <1>3 DEF FileWritten
  <2> DEFINE new == Extended(bytes, offset, data)
  <2>2. /\ new \in Seq(Byte)
        /\ Len(new) = Greatest(Len(bytes), offset + Len(data))
        /\ \A p \in 1 .. Greatest(Len(bytes), offset + Len(data)) :
             new[p] = IF p \in Covers(offset, Len(data)) THEN data[p - offset]
                      ELSE IF p <= Len(bytes) THEN bytes[p] ELSE 0
    BY ExtendedBytes
  <2> HIDE DEF new
  <2>3. \A p \in 1 .. Len(bytes) : p \notin Covers(offset, Len(data)) => new[p] = bytes[p]
    BY <1>1, <2>2
  <2> QED
    BY <1>3, <2>1, <2>2, <2>3 DEF new
<1> QED
  BY <1>2, <1>3

(* The first bytes of what a write was given.                               *)
LEMMA PartOfData ==
  ASSUME NEW data \in Seq(Byte), NEW i \in 0 .. Len(data)
  PROVE  /\ SubSeq(data, 1, i) \in Seq(Byte)
         /\ Len(SubSeq(data, 1, i)) = i
         /\ \A offset \in Nat : Covers(offset, i) \subseteq Covers(offset, Len(data))
<1>1. Len(data) \in Nat /\ i \in Nat /\ i <= Len(data)
  OBVIOUS
<1>2. SubSeq(data, 1, i) \in Seq(Byte) /\ Len(SubSeq(data, 1, i)) = i
  BY <1>1
<1>3. \A offset \in Nat : Covers(offset, i) \subseteq Covers(offset, Len(data))
  BY <1>1 DEF Covers
<1> QED
  BY <1>2, <1>3

LEMMA SliceBytes ==
  ASSUME NEW bytes \in Seq(Byte), NEW offset \in Nat, NEW size \in Nat
  PROVE  Slice(bytes, offset, size) \in Seq(Byte) /\ Len(Slice(bytes, offset, size)) \in Nat
<1>1. offset + 1 \in Nat \ {0} /\ Least(offset + size, Len(bytes)) \in Nat
      /\ Least(offset + size, Len(bytes)) <= Len(bytes)
  BY DEF Least
<1> QED
  BY <1>1 DEF Slice

(* What a read returns of a region.                                         *)
LEMMA StartsBytes ==
  ASSUME NEW found \in Seq(Byte)
  PROVE  /\ found \in Starts(found)
         /\ \A part \in Starts(found) : Len(part) \in Nat
<1>1. /\ Len(found) \in Nat
      /\ \A n \in 0 .. Len(found) : Len(SubSeq(found, 1, n)) = n
  OBVIOUS
<1>2. SubSeq(found, 1, Len(found)) = found
  BY <1>1, SeqEqual
<1>3. Len(found) = 0 => found = <<>>
  OBVIOUS
<1>4. Len(found) \in { m \in 0 .. Len(found) : m = 0 => found = <<>> }
  BY <1>1, <1>3
<1>5. found \in Starts(found)
  BY <1>2, <1>4 DEF Starts
<1>6. \A part \in Starts(found) : \E n \in 0 .. Len(found) : part = SubSeq(found, 1, n)
  BY DEF Starts
<1>7. ASSUME NEW part \in Starts(found) PROVE Len(part) \in Nat
  BY <1>1, <1>6
<1> QED
  BY <1>5, <1>7

(* A prefix of a region.                                                    *)
LEMMA PrefixBytes ==
  ASSUME NEW bytes \in Seq(Byte), NEW size \in 0 .. Len(bytes)
  PROVE  /\ SubSeq(bytes, 1, size) \in Seq(Byte)
         /\ Len(SubSeq(bytes, 1, size)) = size
         /\ \A p \in 1 .. size : SubSeq(bytes, 1, size)[p] = bytes[p]
         /\ size = Len(bytes) => SubSeq(bytes, 1, size) = bytes
<1>1. size \in Nat /\ size <= Len(bytes)
  OBVIOUS
<1>2. /\ SubSeq(bytes, 1, size) \in Seq(Byte)
      /\ Len(SubSeq(bytes, 1, size)) = size
      /\ \A p \in 1 .. size : SubSeq(bytes, 1, size)[p] = bytes[p]
  BY <1>1
<1> QED
  BY <1>2, SeqEqual

(* Regions that agree up to a position have the same bytes before it.       *)
LEMMA SameSlice ==
  ASSUME NEW left \in Seq(Byte), NEW right \in Seq(Byte), NEW m \in Nat, NEW n \in Nat,
         1 <= m, n <= Len(left), n <= Len(right),
         \A p \in 1 .. n : left[p] = right[p]
  PROVE  SubSeq(left, m, n) = SubSeq(right, m, n)
<1> DEFINE l == SubSeq(left, m, n)
           r == SubSeq(right, m, n)
<1>1. \A p \in m .. n : p \in 1 .. Len(left) /\ p \in 1 .. Len(right)
  OBVIOUS
<1>2. (\A p \in m .. n : left[p] \in Byte) /\ (\A p \in m .. n : right[p] \in Byte)
  BY <1>1
<1>3. /\ l \in Seq(Byte) /\ Len(l) = IF m <= n THEN n - m + 1 ELSE 0
      /\ \A i \in 1 .. n - m + 1 : l[i] = left[m + i - 1]
  BY <1>2, SubSeqProperties
<1>4. /\ r \in Seq(Byte) /\ Len(r) = IF m <= n THEN n - m + 1 ELSE 0
      /\ \A i \in 1 .. n - m + 1 : r[i] = right[m + i - 1]
  BY <1>2, SubSeqProperties
<1> HIDE DEF l, r
<1>5. \A i \in 1 .. Len(l) : i \in 1 .. n - m + 1 /\ m + i - 1 \in 1 .. n
  BY <1>3
<1>6. l = r
  BY <1>3, <1>4, <1>5, SeqEqual
<1> QED
  BY <1>6 DEF l, r

(***************************************************************************)
(* The inductive invariant: the properties of the runs, and that a byte    *)
(* that was flushed and not written since is in both the file and what of  *)
(* it is on the medium.                                                    *)
(***************************************************************************)
Kept ==
  kind \in Files =>
    \A p \in DOMAIN flushed :
      /\ p \in 1 .. Len(content) /\ content[p] = flushed[p]
      /\ p \in 1 .. Len(durable) /\ durable[p] = flushed[p]
      /\ kind = "mapped" => p <= len

(* Between the seek and the read of a locked reader nobody moves the cursor.*)
Aimed ==
  \A r \in Readers :
    reader[r].at = "sought" =>
      /\ kind = "file"
      /\ reader[r].size \in Sizes
      /\ Locked => /\ cursor = reader[r].offset
                   /\ \A q \in Readers \ {r} : reader[q] = Idle

IInv == TypeOK /\ LenIsExact /\ MappingCoversLen /\ Kept /\ Aimed

(* The regions and numbers of a state.                                      *)
LEMMA StateTypes ==
  ASSUME TypeOK
  PROVE  /\ content \in Seq(Byte) /\ Len(content) \in Offsets /\ Len(content) \in Nat
         /\ durable \in Seq(Byte) /\ Len(durable) \in Offsets /\ Len(durable) \in Nat
         /\ len \in Nat /\ len <= MAX_END
         /\ MAX_END \in Nat
         /\ Offsets \subseteq Nat /\ 0 \in Offsets
BY RegionAssumption DEF TypeOK, Region, Offsets

LEMMA ChunkTypes ==
  ASSUME NEW data \in Chunks
  PROVE  data \in Seq(Byte) /\ Len(data) \in Nat
BY RegionAssumption

LEMMA InitEstablishes == Init => IInv
<1> SUFFICES ASSUME Init PROVE IInv
  OBVIOUS
<1>1. content \in Seq(Byte) /\ Len(content) \in Offsets /\ 0 \in Offsets /\ 0 \in Nat
  BY OriginsAssumption, RegionAssumption DEF Init, Offsets
<1>2. Idle \in [at : {"idle", "sought"}, offset : Offsets, size : Sizes \cup {0}]
  BY <1>1 DEF Idle
<1>3. content \in Region
  BY <1>1, OriginsAssumption DEF Init, Region
<1>4. TypeOK
  BY <1>1, <1>2, <1>3 DEF Init, TypeOK
<1>5. LenIsExact /\ MappingCoversLen
  BY <1>1 DEF Init, LenIsExact, MappingCoversLen
<1>6. DOMAIN flushed = {}
  BY DEF Init
<1>7. Kept /\ Aimed
  BY <1>6 DEF Init, Kept, Aimed, Idle
<1> QED
  BY <1>4, <1>5, <1>7 DEF IInv

(* A step that moves only the answer, or nothing.                           *)
LEMMA OnlyAnswers ==
  ASSUME IInv,
         UNCHANGED <<kind, content, durable, len, mapped, cursor, reader, flushed, exact>>
  PROVE  IInv'
<1>1. TypeOK'
  BY DEF IInv, TypeOK
<1>2. LenIsExact' /\ MappingCoversLen'
  BY DEF IInv, LenIsExact, MappingCoversLen
<1>3. Kept' /\ Aimed'
  BY DEF IInv, Kept, Aimed
<1> QED
  BY <1>1, <1>2, <1>3 DEF IInv

(* A step of a reader.                                                      *)
LEMMA ReaderStep ==
  ASSUME IInv, NEW r \in Readers,
         \/ \E offset \in Offsets, size \in Sizes : FileSeek(r, offset, size)
         \/ FileRead(r) \/ FileReadFails(r)
  PROVE  IInv'
<1>1. UNCHANGED <<kind, content, durable, len, mapped, flushed, exact>>
  BY DEF FileSeek, FileRead, FileReadFails
<1>2. LenIsExact' /\ MappingCoversLen' /\ Kept'
  BY <1>1 DEF IInv, LenIsExact, MappingCoversLen, Kept
<1>3. reader \in [Readers -> [at : {"idle", "sought"}, offset : Offsets, size : Sizes \cup {0}]]
  BY DEF IInv, TypeOK
<1>4. Idle \in [at : {"idle", "sought"}, offset : Offsets, size : Sizes \cup {0}]
      /\ Idle.at = "idle"
  BY StateTypes DEF Idle, IInv
<1>5. ASSUME NEW offset \in Offsets, NEW size \in Sizes, FileSeek(r, offset, size)
      PROVE  IInv'
  <2> DEFINE new == [at |-> "sought", offset |-> offset, size |-> size]
  <2>1. /\ new \in [at : {"idle", "sought"}, offset : Offsets, size : Sizes \cup {0}]
        /\ new.offset = offset /\ new.size = size
    OBVIOUS
  <2>2. /\ reader' = [reader EXCEPT ![r] = new] /\ cursor' = offset /\ kind = "file"
        /\ IF Locked THEN Exclusive ELSE reader[r] = Idle
    BY <1>5 DEF FileSeek
  <2> HIDE DEF new
  <2>3. /\ reader'[r] = new
        /\ \A q \in Readers \ {r} : reader'[q] = reader[q]
        /\ reader' \in [Readers -> [at : {"idle", "sought"}, offset : Offsets, size : Sizes \cup {0}]]
    BY <1>3, <2>1, <2>2
  <2>4. TypeOK'
    BY <1>1, <2>2, <2>3, StateTypes DEF IInv, TypeOK
  <2>5. Aimed'
    BY <1>1, <1>4, <2>1, <2>2, <2>3 DEF IInv, Aimed, Exclusive
  <2> QED
    BY <1>2, <2>4, <2>5 DEF IInv
<1>6. ASSUME FileRead(r) \/ FileReadFails(r)
      PROVE  IInv'
  <2>1. reader' = [reader EXCEPT ![r] = Idle] /\ reader[r].at = "sought"
    BY <1>6 DEF FileRead, FileReadFails
  <2>2. /\ reader'[r] = Idle
        /\ \A q \in Readers \ {r} : reader'[q] = reader[q]
        /\ reader' \in [Readers -> [at : {"idle", "sought"}, offset : Offsets, size : Sizes \cup {0}]]
    BY <1>3, <1>4, <2>1
  <2>3. cursor' \in Nat
    <3>1. cursor \in Nat /\ content \in Seq(Byte) /\ reader[r].size \in Nat
      BY <1>3, StateTypes, RegionAssumption DEF IInv, TypeOK
    <3>2. \A part \in Starts(Slice(content, cursor, reader[r].size)) : Len(part) \in Nat
      BY <3>1, SliceBytes, StartsBytes
    <3> QED
      BY <1>6, <3>1, <3>2 DEF FileRead, FileReadFails
  <2>4. TypeOK'
    BY <1>1, <2>2, <2>3 DEF IInv, TypeOK
  <2>5. Aimed'
    BY <1>1, <1>4, <2>1, <2>2 DEF IInv, Aimed
  <2> QED
    BY <1>2, <2>4, <2>5 DEF IInv
<1> QED
  BY <1>5, <1>6

(* With no reader inside a read, a step need not mind the cursor.           *)
LEMMA ExclusiveAims == Exclusive /\ UNCHANGED reader => Aimed'
  BY DEF Exclusive, Aimed, Idle

(* A write or an erase of size bytes at the offset, by an exclusive caller, *)
(* that leaves alone what lies outside of them.                             *)
LEMMA WriteKeeps ==
  ASSUME IInv, NEW offset \in Nat, NEW size \in Nat,
         flushed' = Outside(flushed, offset, size),
         content' \in Seq(Byte), Len(content) <= Len(content') \/ kind = "mapped",
         kind = "mapped" => len <= Len(content'),
         \A p \in 1 .. Least(Len(content), Len(content')) :
           p \notin Covers(offset, size) => content'[p] = content[p],
         len' \in Nat, kind = "mapped" => len' >= len,
         UNCHANGED <<kind, durable>>
  PROVE  Kept'
<1>1. DOMAIN flushed' = DOMAIN flushed \ Covers(offset, size)
      /\ \A p \in DOMAIN flushed' : flushed'[p] = flushed[p]
  BY DEF Outside
<1>2. Len(content) \in Nat /\ Len(content') \in Nat /\ len \in Nat
  BY StateTypes DEF IInv
<1> SUFFICES ASSUME kind \in Files, NEW p \in DOMAIN flushed, p \notin Covers(offset, size)
             PROVE  /\ p \in 1 .. Len(content') /\ content'[p] = flushed[p]
                    /\ p \in 1 .. Len(durable) /\ durable[p] = flushed[p]
                    /\ kind = "mapped" => p <= len'
  BY <1>1 DEF Kept
<1>3. /\ p \in 1 .. Len(content) /\ content[p] = flushed[p]
      /\ p \in 1 .. Len(durable) /\ durable[p] = flushed[p]
      /\ kind = "mapped" => p <= len
  BY DEF IInv, Kept
<1>4. p \in 1 .. Len(content')
  BY <1>2, <1>3
<1>5. p \in 1 .. Least(Len(content), Len(content'))
  BY <1>2, <1>3, <1>4 DEF Least
<1>6. kind = "mapped" => p <= len'
  BY <1>2, <1>3
<1> QED
  BY <1>3, <1>4, <1>5, <1>6

LEMMA MemoryAndBlockStep ==
  ASSUME IInv, NEW offset \in Offsets,
         \/ \E data \in Chunks : MemoryWrite(offset, data) \/ BlockWrite(offset, data)
         \/ \E to \in Offsets : Erase(offset, to)
  PROVE  IInv'
<1>1. /\ kind \notin Files
      /\ Exclusive
      /\ UNCHANGED <<kind, durable, len, mapped, cursor, reader, exact>>
  BY DEF MemoryWrite, BlockWrite, Erase, Written, Files
<1>2. offset \in Nat /\ content \in Seq(Byte) /\ Len(content) \in Nat
      /\ Len(content) <= MAX_END /\ MAX_END \in Nat
  BY StateTypes DEF IInv, Offsets
<1>3. content' \in Seq(Byte) /\ Len(content') <= MAX_END
      /\ (kind = "block" => Len(content') = Len(content))
  <2>1. ASSUME NEW data \in Chunks, MemoryWrite(offset, data)
        PROVE  content' \in Seq(Byte) /\ Len(content') <= MAX_END /\ kind # "block"
    <3>1. content' = Extended(content, offset, data) /\ offset + Len(data) <= MAX_END
          /\ kind = "memory"
      BY <2>1 DEF MemoryWrite, Written
    <3> QED
      BY <1>2, <3>1, ChunkTypes, ExtendedBytes DEF Greatest
  <2>2. ASSUME NEW data \in Chunks, BlockWrite(offset, data)
        PROVE  content' \in Seq(Byte) /\ Len(content') = Len(content)
    BY <1>2, <2>2, ChunkTypes, OverwrittenBytes DEF BlockWrite
  <2>3. ASSUME NEW to \in Offsets, Erase(offset, to)
        PROVE  content' \in Seq(Byte) /\ Len(content') = Len(content)
    <3> DEFINE erased == [i \in 1 .. Erased(offset, to) |-> ERASED]
    <3>1. Erased(offset, to) \in Nat
      BY <1>2, StateTypes DEF Erased, IInv
    <3>2. erased \in Seq(Byte)
      BY <3>1, RegionAssumption
    <3>3. content' = Overwritten(content, offset, erased)
      BY <2>3 DEF Erase
    <3> HIDE DEF erased
    <3> QED
      BY <1>2, <3>2, <3>3, OverwrittenBytes
  <2> QED
    BY <1>2, <2>1, <2>2, <2>3
<1>4. TypeOK'
  BY <1>1, <1>3, StateTypes DEF IInv, TypeOK, Region, Offsets
<1>5. LenIsExact' /\ MappingCoversLen' /\ Kept'
  BY <1>1 DEF LenIsExact, MappingCoversLen, Kept, Files
<1> QED
  BY <1>1, <1>4, <1>5, ExclusiveAims DEF IInv

LEMMA FileWriteStep ==
  ASSUME IInv, NEW offset \in Offsets, NEW data \in Chunks, FileWrite(offset, data)
  PROVE  IInv'
<1>1. /\ kind = "file" /\ Exclusive /\ offset + Len(data) <= MAX_END
      /\ flushed' = Outside(flushed, offset, Len(data))
      /\ content' = FileWritten(content, offset, data)
      /\ cursor' = offset + Len(data)
      /\ len' = Greatest(len, offset + Len(data))
      /\ exact' = (exact /\ (data # <<>> \/ offset <= len))
      /\ UNCHANGED <<kind, durable, mapped, reader>>
  BY DEF FileWrite, Written
<1>2. /\ offset \in Nat /\ content \in Seq(Byte) /\ Len(content) \in Nat
      /\ Len(content) <= MAX_END /\ MAX_END \in Nat /\ len \in Nat /\ len <= MAX_END
      /\ data \in Seq(Byte) /\ Len(data) \in Nat /\ (data = <<>> => Len(data) = 0)
  BY StateTypes, ChunkTypes DEF IInv, Offsets
<1>3. /\ content' \in Seq(Byte)
      /\ Len(content') = IF data = <<>> THEN Len(content)
                         ELSE Greatest(Len(content), offset + Len(data))
      /\ \A p \in 1 .. Len(content) : p \notin Covers(offset, Len(data)) => content'[p] = content[p]
  BY <1>1, <1>2, FileWrittenBytes
<1>4. Len(content') <= MAX_END /\ Len(content) <= Len(content') /\ Len(content') \in Nat
  BY <1>1, <1>2, <1>3 DEF Greatest
<1>5. len' \in Offsets /\ cursor' \in Nat /\ exact' \in BOOLEAN
  BY <1>1, <1>2 DEF Greatest, Offsets
<1>6. TypeOK'
  BY <1>1, <1>3, <1>4, <1>5 DEF IInv, TypeOK, Region
<1>7. LenIsExact'
  <2> SUFFICES ASSUME exact' PROVE len' = Len(content')
    BY <1>1 DEF LenIsExact
  <2>1. exact /\ (data # <<>> \/ offset <= len)
    BY <1>1, Zenon
  <2>2. len = Len(content)
    BY <1>1, <2>1 DEF IInv, LenIsExact
  <2> QED
    BY <1>1, <1>2, <1>3, <2>1, <2>2 DEF Greatest
<1>8. MappingCoversLen'
  BY <1>1 DEF MappingCoversLen
<1>9. Kept'
  <2>1. Least(Len(content), Len(content')) = Len(content)
    BY <1>4 DEF Least
  <2>2. len' \in Nat
    BY <1>1, <1>2 DEF Greatest
  <2> QED
    BY <1>1, <1>2, <1>3, <1>4, <2>1, <2>2, WriteKeeps
<1> QED
  BY <1>1, <1>6, <1>7, <1>8, <1>9, ExclusiveAims DEF IInv

LEMMA FileWriteFailsStep ==
  ASSUME IInv, NEW offset \in Offsets, NEW data \in Chunks, FileWriteFails(offset, data)
  PROVE  IInv'
<1>1. /\ kind = "file" /\ Exclusive /\ offset + Len(data) <= MAX_END
      /\ flushed' = Outside(flushed, offset, Len(data))
      /\ exact' = (exact /\ offset + Len(data) <= len)
      /\ UNCHANGED <<kind, durable, len, mapped, reader>>
  BY DEF FileWriteFails
<1>2. PICK i \in 0 .. Len(data) :
        /\ i < Len(data)
        /\ content' = FileWritten(content, offset, SubSeq(data, 1, i))
        /\ cursor' = offset + i
  BY DEF FileWriteFails
<1>3. /\ offset \in Nat /\ content \in Seq(Byte) /\ Len(content) \in Nat
      /\ Len(content) <= MAX_END /\ MAX_END \in Nat /\ len \in Nat /\ len <= MAX_END
      /\ data \in Seq(Byte) /\ Len(data) \in Nat /\ i \in Nat
  BY StateTypes, ChunkTypes DEF IInv, Offsets
<1> DEFINE part == SubSeq(data, 1, i)
<1>4. part \in Seq(Byte) /\ Len(part) = i /\ Covers(offset, i) \subseteq Covers(offset, Len(data))
  BY <1>3, PartOfData
<1> HIDE DEF part
<1>5. /\ content' \in Seq(Byte)
      /\ Len(content') = IF part = <<>> THEN Len(content)
                         ELSE Greatest(Len(content), offset + i)
      /\ \A p \in 1 .. Len(content) : p \notin Covers(offset, i) => content'[p] = content[p]
  <2>1. content' = FileWritten(content, offset, part)
    BY <1>2 DEF part
  <2> DEFINE new == FileWritten(content, offset, part)
  <2>2. /\ new \in Seq(Byte)
        /\ Len(new) = IF part = <<>> THEN Len(content)
                      ELSE Greatest(Len(content), offset + Len(part))
        /\ \A p \in 1 .. Len(content) :
             p \notin Covers(offset, Len(part)) => new[p] = content[p]
    BY <1>3, <1>4, FileWrittenBytes
  <2> HIDE DEF new
  <2>3. content' = new
    BY <2>1 DEF new
  <2> QED
    BY <1>4, <2>2, <2>3
<1>6. Len(content') <= MAX_END /\ Len(content) <= Len(content') /\ Len(content') \in Nat
  BY <1>1, <1>2, <1>3, <1>5 DEF Greatest
<1>7. cursor' \in Nat /\ exact' \in BOOLEAN
  BY <1>1, <1>2, <1>3
<1>8. TypeOK'
  BY <1>1, <1>5, <1>6, <1>7 DEF IInv, TypeOK, Region
<1>9. LenIsExact'
  <2> SUFFICES ASSUME exact' PROVE len = Len(content')
    BY <1>1 DEF LenIsExact
  <2>1. exact /\ offset + Len(data) <= len
    BY <1>1, Zenon
  <2>2. len = Len(content) /\ offset + i <= len
    BY <1>1, <1>2, <1>3, <2>1 DEF IInv, LenIsExact
  <2> QED
    BY <1>1, <1>3, <1>5, <2>2 DEF Greatest
<1>10. MappingCoversLen'
  BY <1>1 DEF MappingCoversLen
<1>11. Kept'
  <2>1. Least(Len(content), Len(content')) = Len(content)
    BY <1>6 DEF Least
  <2>2. \A p \in 1 .. Len(content) : p \notin Covers(offset, Len(data)) => content'[p] = content[p]
    BY <1>4, <1>5
  <2> QED
    BY <1>1, <1>3, <1>5, <1>6, <2>1, <2>2, WriteKeeps
<1> QED
  BY <1>1, <1>8, <1>9, <1>10, <1>11, ExclusiveAims DEF IInv

LEMMA MappedOverwriteStep ==
  ASSUME IInv, NEW offset \in Offsets, NEW data \in Chunks, MappedOverwrite(offset, data)
  PROVE  IInv'
<1>1. /\ kind = "mapped" /\ Exclusive /\ offset + Len(data) <= len
      /\ flushed' = Outside(flushed, offset, Len(data))
      /\ content' = Overwritten(content, offset, data)
      /\ UNCHANGED <<kind, durable, len, mapped, cursor, reader, exact>>
  BY DEF MappedOverwrite, Written
<1>2. /\ offset \in Nat /\ content \in Seq(Byte) /\ Len(content) \in Nat
      /\ Len(content) <= MAX_END /\ MAX_END \in Nat /\ len \in Nat
      /\ data \in Seq(Byte) /\ Len(data) \in Nat
  BY StateTypes, ChunkTypes DEF IInv, Offsets
<1>3. /\ content' \in Seq(Byte)
      /\ Len(content') = Len(content)
      /\ \A p \in 1 .. Len(content) : p \notin Covers(offset, Len(data)) => content'[p] = content[p]
  <2> DEFINE new == Overwritten(content, offset, data)
  <2>1. /\ new \in Seq(Byte) /\ Len(new) = Len(content)
        /\ \A p \in 1 .. Len(content) :
             new[p] = IF p \in Covers(offset, Len(data)) THEN data[p - offset] ELSE content[p]
    BY <1>2, OverwrittenBytes
  <2> HIDE DEF new
  <2>2. content' = new
    BY <1>1 DEF new
  <2> QED
    BY <2>1, <2>2
<1>4. mapped = len /\ len <= Len(content) /\ \A p \in len + 1 .. Len(content) : content[p] = 0
  BY <1>1 DEF IInv, MappingCoversLen
<1>5. TypeOK'
  BY <1>1, <1>2, <1>3 DEF IInv, TypeOK, Region
<1>6. LenIsExact'
  BY <1>1 DEF LenIsExact
<1>7. MappingCoversLen'
  <2>1. \A p \in len + 1 .. Len(content) : p \in 1 .. Len(content) /\ p \notin Covers(offset, Len(data))
    BY <1>1, <1>2 DEF Covers
  <2> QED
    BY <1>1, <1>3, <1>4, <2>1 DEF MappingCoversLen
<1>8. Kept'
  <2>1. Least(Len(content), Len(content')) = Len(content)
    BY <1>2, <1>3 DEF Least
  <2> QED
    BY <1>1, <1>2, <1>3, <1>4, <2>1, WriteKeeps
<1> QED
  BY <1>1, <1>5, <1>6, <1>7, <1>8, ExclusiveAims DEF IInv

LEMMA MappedExtendStep ==
  ASSUME IInv, NEW offset \in Offsets, NEW data \in Chunks, MappedExtend(offset, data)
  PROVE  IInv'
<1> DEFINE end == offset + Len(data)
<1>1. /\ kind = "mapped" /\ Exclusive /\ end > len /\ end <= MAX_END
      /\ flushed' = Outside(flushed, offset, Len(data))
      /\ content' = Overwritten(Resized(content, end), offset, data)
      /\ mapped' = end /\ len' = end
      /\ UNCHANGED <<kind, durable, cursor, reader, exact>>
  BY DEF MappedExtend, Written
<1>2. /\ offset \in Nat /\ content \in Seq(Byte) /\ Len(content) \in Nat
      /\ MAX_END \in Nat /\ len \in Nat
      /\ data \in Seq(Byte) /\ Len(data) \in Nat /\ end \in Nat
  BY StateTypes, ChunkTypes DEF IInv, Offsets
<1> HIDE DEF end
<1>3. /\ Resized(content, end) \in Seq(Byte) /\ Len(Resized(content, end)) = end
      /\ \A p \in 1 .. end : p <= Len(content) => Resized(content, end)[p] = content[p]
  BY <1>2, ResizedBytes
<1>4. /\ content' \in Seq(Byte) /\ Len(content') = end
      /\ \A p \in 1 .. end : p \notin Covers(offset, Len(data))
                             => content'[p] = Resized(content, end)[p]
  BY <1>1, <1>2, <1>3, OverwrittenBytes
<1>5. TypeOK'
  BY <1>1, <1>2, <1>4 DEF IInv, TypeOK, Region, Offsets
<1>6. LenIsExact'
  BY <1>1 DEF LenIsExact
<1>7. MappingCoversLen'
  BY <1>1, <1>2, <1>4 DEF MappingCoversLen
<1>8. Kept'
  <2>1. \A p \in 1 .. Least(Len(content), Len(content')) : p \in 1 .. end /\ p <= Len(content)
    BY <1>2, <1>4 DEF Least
  <2>2. \A p \in 1 .. Least(Len(content), Len(content')) :
           p \notin Covers(offset, Len(data)) => content'[p] = content[p]
    BY <1>3, <1>4, <2>1
  <2>3. len <= Len(content') /\ len' >= len /\ len' \in Nat
    BY <1>1, <1>2, <1>4
  <2> QED
    BY <1>1, <1>2, <1>4, <2>2, <2>3, WriteKeeps
<1> QED
  BY <1>1, <1>5, <1>6, <1>7, <1>8, ExclusiveAims DEF IInv

LEMMA MappedRemapFailsStep ==
  ASSUME IInv, NEW offset \in Offsets, NEW data \in Chunks, MappedRemapFails(offset, data)
  PROVE  IInv'
<1> DEFINE end == offset + Len(data)
<1>1. /\ kind = "mapped" /\ Exclusive /\ end \in len + 1 .. MAX_END
      /\ content' = Resized(content, end)
      /\ UNCHANGED <<kind, durable, len, mapped, cursor, reader, flushed, exact>>
  BY DEF MappedRemapFails
<1>2. /\ content \in Seq(Byte) /\ Len(content) \in Nat
      /\ MAX_END \in Nat /\ len \in Nat /\ end \in Nat /\ end > len /\ end <= MAX_END
  BY <1>1, StateTypes, ChunkTypes DEF IInv, Offsets
<1> HIDE DEF end
<1>3. /\ content' \in Seq(Byte) /\ Len(content') = end
      /\ \A p \in 1 .. end : content'[p] = IF p <= Len(content) THEN content[p] ELSE 0
  BY <1>1, <1>2, ResizedBytes
<1>4. mapped = len /\ len <= Len(content) /\ \A p \in len + 1 .. Len(content) : content[p] = 0
  BY <1>1 DEF IInv, MappingCoversLen
<1>5. TypeOK'
  BY <1>1, <1>2, <1>3 DEF IInv, TypeOK, Region, Offsets
<1>6. LenIsExact'
  BY <1>1 DEF LenIsExact
<1>7. MappingCoversLen'
  <2>1. \A p \in len + 1 .. end : p \in 1 .. end /\ (p <= Len(content) => p \in len + 1 .. Len(content))
    BY <1>2
  <2>2. \A p \in len + 1 .. end : content'[p] = 0
    BY <1>3, <1>4, <2>1
  <2> QED
    BY <1>1, <1>2, <1>3, <1>4, <2>2 DEF MappingCoversLen
<1>8. Kept'
  <2> SUFFICES ASSUME NEW p \in DOMAIN flushed
               PROVE  /\ p \in 1 .. Len(content') /\ content'[p] = flushed[p]
                      /\ p \in 1 .. Len(durable) /\ durable[p] = flushed[p] /\ p <= len
    BY <1>1 DEF Kept
  <2>1. /\ p \in 1 .. Len(content) /\ content[p] = flushed[p]
        /\ p \in 1 .. Len(durable) /\ durable[p] = flushed[p] /\ p <= len
    BY <1>1 DEF IInv, Kept, Files
  <2>2. p \in 1 .. end /\ p <= Len(content)
    BY <1>2, <2>1
  <2> QED
    BY <1>3, <2>1, <2>2
<1> QED
  BY <1>1, <1>5, <1>6, <1>7, <1>8, ExclusiveAims DEF IInv

LEMMA FlushStep ==
  ASSUME IInv, Flush
  PROVE  IInv'
<1>1. /\ kind # "block" /\ Exclusive
      /\ durable' = IF kind = "memory" THEN durable ELSE content
      /\ flushed' = Visible
      /\ UNCHANGED <<kind, content, len, mapped, cursor, reader, exact>>
  BY DEF Flush
<1>2. content \in Seq(Byte) /\ Len(content) \in Nat /\ len \in Nat
  BY StateTypes DEF IInv
<1>3. TypeOK'
  BY <1>1 DEF IInv, TypeOK
<1>4. LenIsExact' /\ MappingCoversLen'
  BY <1>1 DEF IInv, LenIsExact, MappingCoversLen
<1>5. Kept'
  <2>1. CASE kind = "file"
    BY <1>1, <1>2, <2>1 DEF Kept, Visible
  <2>2. CASE kind = "mapped"
    <3>1. len \in 0 .. Len(content)
      BY <1>2, <2>2 DEF IInv, MappingCoversLen
    <3>2. /\ flushed' = SubSeq(content, 1, len) /\ flushed' \in Seq(Byte) /\ Len(flushed') = len
          /\ \A p \in 1 .. len : flushed'[p] = content[p]
      BY <1>1, <1>2, <2>2, <3>1, PrefixBytes DEF Visible
    <3>3. DOMAIN flushed' = 1 .. len /\ \A p \in 1 .. len : p \in 1 .. Len(content) /\ p <= len
      BY <1>2, <3>1, <3>2
    <3> QED
      BY <1>1, <2>2, <3>2, <3>3 DEF Kept
  <2>3. CASE kind \notin Files
    BY <1>1, <2>3 DEF Kept
  <2> QED
    BY <2>1, <2>2, <2>3 DEF Files
<1> QED
  BY <1>1, <1>3, <1>4, <1>5, ExclusiveAims DEF IInv

(* Opening takes len and the mapping from the file.                         *)
LEMMA OpenedStep ==
  ASSUME IInv, kind \in Files, Opened,
         content' \in Region, durable' \in Region,
         reader' \in [Readers -> {Idle}],
         \A p \in DOMAIN flushed :
           /\ p \in 1 .. Len(content') /\ content'[p] = flushed[p]
           /\ p \in 1 .. Len(durable') /\ durable'[p] = flushed[p]
  PROVE  IInv'
<1>1. /\ len' = Len(content') /\ mapped' = Len(content') /\ cursor' = 0 /\ exact' = TRUE
      /\ UNCHANGED <<kind, flushed>>
  BY DEF Opened
<1>2. Len(content') \in Nat /\ Len(content') \in Offsets /\ 0 \in Offsets
  BY RegionAssumption DEF Region, Offsets
<1>3. \A r \in Readers : reader'[r] = Idle /\ reader'[r].at = "idle"
  BY DEF Idle
<1>4. reader' \in [Readers -> [at : {"idle", "sought"}, offset : Offsets, size : Sizes \cup {0}]]
  <2>1. Idle \in [at : {"idle", "sought"}, offset : Offsets, size : Sizes \cup {0}]
    BY <1>2 DEF Idle
  <2> QED
    BY <2>1
<1>5. TypeOK'
  BY <1>1, <1>2, <1>4 DEF IInv, TypeOK
<1>6. LenIsExact' /\ MappingCoversLen'
  BY <1>1, <1>2 DEF LenIsExact, MappingCoversLen
<1>7. Kept'
  BY <1>1, <1>2 DEF Kept
<1>8. Aimed'
  BY <1>3 DEF Aimed
<1> QED
  BY <1>5, <1>6, <1>7, <1>8 DEF IInv

LEMMA ReopenStep ==
  ASSUME IInv, Reopen
  PROVE  IInv'
<1>1. kind \in Files /\ Opened /\ Exclusive /\ UNCHANGED <<content, durable, reader>>
  BY DEF Reopen
<1>2. content' \in Region /\ durable' \in Region /\ reader' \in [Readers -> {Idle}]
  BY <1>1 DEF IInv, TypeOK, Exclusive
<1>3. \A p \in DOMAIN flushed :
        /\ p \in 1 .. Len(content') /\ content'[p] = flushed[p]
        /\ p \in 1 .. Len(durable') /\ durable'[p] = flushed[p]
  BY <1>1 DEF IInv, Kept
<1> QED
  BY <1>1, <1>2, <1>3, OpenedStep

(* A byte that is alike in the file and on the medium survives.             *)
LEMMA PowerLossStep ==
  ASSUME IInv, PowerLoss
  PROVE  IInv'
<1>1. /\ kind \in Files /\ Opened
      /\ durable' = content'
      /\ reader' = [r \in Readers |-> Idle]
  BY DEF PowerLoss
<1>2. PICK size \in {Len(content), Len(durable)} :
        /\ content' \in [1 .. size -> Byte]
        /\ \A p \in 1 .. size : content'[p] \in Survivors(size)[p]
  BY DEF PowerLoss
<1>3. size \in Nat /\ size <= MAX_END /\ MAX_END \in Nat
  BY StateTypes DEF IInv, Offsets
<1>4. content' \in Region /\ Len(content') = size
  BY <1>2, <1>3 DEF Region
<1>5. ASSUME NEW p \in DOMAIN flushed
      PROVE  p \in 1 .. Len(content') /\ content'[p] = flushed[p]
  <2>1. /\ p \in 1 .. Len(content) /\ content[p] = flushed[p]
        /\ p \in 1 .. Len(durable) /\ durable[p] = flushed[p]
    BY <1>1 DEF IInv, Kept
  <2>2. p \in 1 .. size
    BY <1>2, <2>1
  <2>3. Survivors(size)[p] = {flushed[p]}
    BY <2>1, <2>2 DEF Survivors
  <2> QED
    BY <1>2, <1>4, <2>2, <2>3
<1> QED
  BY <1>1, <1>4, <1>5, OpenedStep

(***************************************************************************)
(* The invariant.                                                          *)
(***************************************************************************)
LEMMA NextKeeps == IInv /\ [Next]_vars => IInv'
<1> SUFFICES ASSUME IInv, [Next]_vars PROVE IInv'
  OBVIOUS
<1>1. ASSUME NEW offset \in Offsets, NEW size \in Sizes,
             Read(offset, size) \/ MappedRead(offset, size)
      PROVE  IInv'
  BY <1>1, OnlyAnswers DEF Read, MappedRead
<1>2. ASSUME NEW offset \in Offsets, NEW data \in Chunks, Refused(offset, data)
      PROVE  IInv'
  BY <1>2, OnlyAnswers DEF Refused
<1>3. ASSUME NEW from \in Offsets, NEW to \in Offsets, EraseRefused(from, to)
      PROVE  IInv'
  BY <1>3, OnlyAnswers DEF EraseRefused
<1>4. ASSUME CallFails \/ UNCHANGED vars
      PROVE  IInv'
  BY <1>4, OnlyAnswers DEF CallFails, vars
<1> QED
  BY <1>1, <1>2, <1>3, <1>4, ReaderStep, MemoryAndBlockStep, FileWriteStep,
     FileWriteFailsStep, MappedOverwriteStep, MappedExtendStep, MappedRemapFailsStep,
     FlushStep, ReopenStep, PowerLossStep
  DEF Next

LEMMA Invariant == Spec => []IInv
  BY InitEstablishes, NextKeeps, PTL DEF Spec

(* Every medium keeps its types: no write, refusal, failed call, reopening  *)
(* or power loss takes a region beyond its bound or resizes a block.        *)
THEOREM TypeCorrect == Spec => []TypeOK
  BY Invariant, PTL DEF IInv

(* The len beside the file is its length until a write fails beyond the end *)
(* or writes nothing past it.                                               *)
THEOREM LenStaysExact == Spec => []LenIsExact
  BY Invariant, PTL DEF IInv

(* No failure of set_len or of a mapping, and no power loss, separates what *)
(* a MappedFileOrigin maps from the len it answers.                         *)
THEOREM MappingIsWhole == Spec => []MappingCoversLen
  BY Invariant, PTL DEF IInv

(* What was flushed and not written since is never lost.                    *)
THEOREM FlushedIsKept == Spec => []FlushedSurvives
<1>1. IInv => FlushedSurvives
  BY StateTypes DEF IInv, Kept, FlushedSurvives
<1> QED
  BY <1>1, Invariant, PTL

(***************************************************************************)
(* Every medium implements OriginSpec when its readers come one after the  *)
(* other.                                                                  *)
(***************************************************************************)
LEMMA AbstractTerms ==
  /\ Abstract!Offsets = Offsets
  /\ \A b, n : Abstract!Resized(b, n) = Resized(b, n)
  /\ \A b, o, d : Abstract!Overwritten(b, o, d) = Overwritten(b, o, d)
  /\ \A b, o, d : Abstract!Extended(b, o, d) = Extended(b, o, d)
  /\ \A b, o, d : Abstract!FileWritten(b, o, d) = FileWritten(b, o, d)
  /\ \A b, o, n : Abstract!Slice(b, o, n) = Slice(b, o, n)
  /\ \A b : Abstract!Starts(b) = Starts(b)
  /\ \A k, o, n : Abstract!Outside(k, o, n) = Outside(k, o, n)
BY DEF Abstract!Offsets, Offsets, Abstract!Resized, Resized, Abstract!Overwritten, Overwritten,
   Abstract!Extended, Extended, Abstract!FileWritten, FileWritten, Abstract!Slice, Slice,
   Abstract!Starts, Starts, Abstract!Outside, Outside, Abstract!Covers, Covers, Abstract!Greatest, Greatest,
   Abstract!Least, Least

(* What a medium shows, and that a mapped file shows a prefix of the file.  *)
LEMMA VisibleBytes ==
  ASSUME IInv
  PROVE  /\ Visible \in Seq(Byte) /\ Len(Visible) \in Nat
         /\ kind # "mapped" => Visible = content
         /\ kind = "mapped" =>
              /\ len \in 0 .. Len(content)
              /\ Len(Visible) = len
              /\ \A p \in 1 .. len : Visible[p] = content[p]
<1>1. content \in Seq(Byte) /\ Len(content) \in Nat /\ len \in Nat
  BY StateTypes DEF IInv
<1>2. CASE kind = "mapped"
  <2>1. len \in 0 .. Len(content) /\ Visible = SubSeq(content, 1, len)
    BY <1>1, <1>2 DEF IInv, MappingCoversLen, Visible
  <2> QED
    BY <1>1, <1>2, <2>1, PrefixBytes
<1>3. CASE kind # "mapped"
  BY <1>1, <1>3 DEF Visible
<1> QED
  BY <1>2, <1>3

(* A call that fails and changes nothing but the answer.                    *)
LEMMA FailureImplements ==
  ASSUME answer' = FAILED, UNCHANGED <<Visible, flushed>>
  PROVE  Abstract!Next
BY DEF Abstract!Next, Abstract!Fails

LEMMA ReadEnd ==
  \A o, n, l \in Nat :
    ~ (o >= l) => /\ o + Least(l - o, n) = Least(o + n, l)
                  /\ o + Least(l - o, n) \in Nat
                  /\ o + Least(l - o, n) <= l /\ o + Least(l - o, n) >= o
BY DEF Least

LEMMA ReadImplements ==
  ASSUME IInv, NEW offset \in Offsets, NEW size \in Sizes,
         Read(offset, size) \/ MappedRead(offset, size)
  PROVE  Abstract!Next
<1>1. UNCHANGED <<Visible, flushed>>
  BY DEF Read, MappedRead, Visible
<1>2. answer' = [offset |-> offset, size |-> size, bytes |-> Slice(Visible, offset, size)]
  <2>1. CASE Read(offset, size)
    BY <2>1, VisibleBytes DEF Read, Returns
  <2>2. CASE MappedRead(offset, size)
    <3>1. /\ content \in Seq(Byte) /\ Len(content) \in Nat /\ offset \in Nat /\ size \in Nat
          /\ Visible \in Seq(Byte) /\ Len(Visible) = len /\ len \in Nat /\ len <= Len(content)
          /\ \A p \in 1 .. len : Visible[p] = content[p]
      BY <2>2, StateTypes, RegionAssumption, VisibleBytes DEF MappedRead, IInv, Offsets
    <3>2. CASE offset >= len
      <4>1. Least(offset + size, Len(Visible)) < offset + 1
            /\ Least(offset + size, Len(Visible)) \in Int /\ offset + 1 \in Int
        BY <3>1, <3>2 DEF Least
      <4>2. Slice(Visible, offset, size) = <<>>
        BY <4>1, SubSeqEmpty DEF Slice
      <4> QED
        BY <2>2, <3>2, <4>2 DEF MappedRead, Returns
    <3>3. CASE ~ (offset >= len)
      <4> DEFINE end == offset + Least(len - offset, size)
      <4>1. /\ end = Least(offset + size, Len(Visible)) /\ end \in Nat
            /\ end <= len /\ offset + 1 \in Nat /\ 1 <= offset + 1
        <5>1. /\ end = Least(offset + size, len)
              /\ end \in Nat /\ end <= len
          BY <3>1, <3>3, ReadEnd
        <5>2. offset + 1 \in Nat /\ 1 <= offset + 1
          BY <3>1
        <5> QED
          BY <3>1, <5>1, <5>2
      <4> HIDE DEF end
      <4>2. SubSeq(Visible, offset + 1, end) = SubSeq(content, offset + 1, end)
        BY <3>1, <4>1, SameSlice
      <4>3. Slice(Visible, offset, size) = SubSeq(content, offset + 1, end)
        BY <4>1, <4>2 DEF Slice
      <4>4. answer' = [offset |-> offset, size |-> size,
                       bytes |-> SubSeq(content, offset + 1, end)]
        BY <2>2, <3>3 DEF MappedRead, Returns, end
      <4> QED
        BY <4>3, <4>4
    <3> QED
      BY <3>2, <3>3
  <2> QED
    BY <2>1, <2>2
<1>3. Slice(Visible, offset, size) \in Starts(Slice(Visible, offset, size))
  BY RegionAssumption, SliceBytes, StartsBytes, VisibleBytes DEF Offsets
<1>4. Abstract!Read(offset, size)
  BY <1>1, <1>2, <1>3, AbstractTerms DEF Abstract!Read
<1> QED
  BY <1>4, AbstractTerms DEF Abstract!Next

LEMMA ReaderImplements ==
  ASSUME IInv, Locked, NEW r \in Readers,
         \/ \E offset \in Offsets, size \in Sizes : FileSeek(r, offset, size)
         \/ FileRead(r) \/ FileReadFails(r)
  PROVE  Abstract!Next \/ UNCHANGED <<Visible, flushed, answer>>
<1>1. UNCHANGED <<Visible, flushed>>
  BY DEF FileSeek, FileRead, FileReadFails, Visible
<1>2. CASE \E offset \in Offsets, size \in Sizes : FileSeek(r, offset, size)
  BY <1>1, <1>2 DEF FileSeek
<1>3. CASE FileRead(r)
  <2>1. /\ reader[r].at = "sought" /\ kind = "file" /\ cursor = reader[r].offset
        /\ reader[r].offset \in Offsets /\ reader[r].size \in Sizes
    BY <1>3 DEF FileRead, IInv, Aimed, TypeOK
  <2>2. Abstract!Read(reader[r].offset, reader[r].size)
    BY <1>1, <1>3, <2>1, AbstractTerms, VisibleBytes DEF FileRead, Returns, Abstract!Read
  <2> QED
    BY <2>1, <2>2, AbstractTerms DEF Abstract!Next
<1>4. CASE FileReadFails(r)
  BY <1>1, <1>4, FailureImplements DEF FileReadFails
<1> QED
  BY <1>2, <1>3, <1>4

LEMMA RegionWriteImplements ==
  ASSUME IInv, NEW offset \in Offsets, NEW data \in Chunks,
         MemoryWrite(offset, data) \/ BlockWrite(offset, data) \/ FileWrite(offset, data)
  PROVE  Abstract!Next
<1>1. /\ kind # "mapped" /\ UNCHANGED kind
      /\ offset + Len(data) <= MAX_END
      /\ flushed' = Outside(flushed, offset, Len(data))
      /\ answer' = DONE
  BY DEF MemoryWrite, BlockWrite, FileWrite, Written
<1>2. content' \in { FileWritten(content, offset, data), Extended(content, offset, data) }
  <2>1. content \in Seq(Byte) /\ data \in Seq(Byte) /\ offset \in Nat
    BY StateTypes, ChunkTypes DEF IInv
  <2> QED
    BY <2>1, ExtendedInside DEF MemoryWrite, BlockWrite, FileWrite
<1>3. Visible = content /\ Visible' = content'
  BY <1>1 DEF Visible
<1>4. Abstract!Write(offset, data)
  BY <1>1, <1>2, <1>3, AbstractTerms DEF Abstract!Write
<1> QED
  BY <1>4, AbstractTerms DEF Abstract!Next

LEMMA FileWriteFailsImplements ==
  ASSUME IInv, NEW offset \in Offsets, NEW data \in Chunks, FileWriteFails(offset, data)
  PROVE  Abstract!Next
<1>1. Visible = content /\ Visible' = content'
  BY DEF FileWriteFails, Visible
<1>2. Abstract!WriteFails(offset, data)
  BY <1>1, AbstractTerms DEF FileWriteFails, Abstract!WriteFails
<1> QED
  BY <1>2, AbstractTerms DEF Abstract!Next

LEMMA EraseImplements ==
  ASSUME IInv, NEW from \in Offsets, NEW to \in Offsets, Erase(from, to)
  PROVE  Abstract!Next
<1>1. Visible = content /\ Visible' = content'
  BY DEF Erase, Visible
<1>2. Erased(from, to) \in Offsets
  BY StateTypes DEF Erased, IInv, Offsets
<1>3. Abstract!Erase(from, Erased(from, to))
  BY <1>1, AbstractTerms DEF Erase, Written, Abstract!Erase
<1> QED
  BY <1>2, <1>3, AbstractTerms DEF Abstract!Next

LEMMA MappedOverwriteImplements ==
  ASSUME IInv, NEW offset \in Offsets, NEW data \in Chunks, MappedOverwrite(offset, data)
  PROVE  Abstract!Next
<1>1. /\ kind = "mapped" /\ offset + Len(data) <= len /\ offset + Len(data) <= MAX_END
      /\ flushed' = Outside(flushed, offset, Len(data)) /\ answer' = DONE
      /\ content' = Overwritten(content, offset, data)
      /\ UNCHANGED <<kind, len>>
  BY DEF MappedOverwrite, Written
<1>2. /\ content \in Seq(Byte) /\ Len(content) \in Nat /\ len \in Nat /\ len <= Len(content)
      /\ offset \in Nat /\ data \in Seq(Byte) /\ Len(data) \in Nat
      /\ Visible \in Seq(Byte) /\ Len(Visible) = len
      /\ \A p \in 1 .. len : Visible[p] = content[p]
  BY <1>1, StateTypes, ChunkTypes, VisibleBytes DEF IInv, Offsets
<1> DEFINE whole == Overwritten(content, offset, data)
           shown == Overwritten(Visible, offset, data)
<1>3. /\ whole \in Seq(Byte) /\ Len(whole) = Len(content)
      /\ \A p \in 1 .. Len(content) :
           whole[p] = IF p \in Covers(offset, Len(data)) THEN data[p - offset] ELSE content[p]
  BY <1>2, OverwrittenBytes
<1>4. /\ shown \in Seq(Byte) /\ Len(shown) = len
      /\ \A p \in 1 .. len :
           shown[p] = IF p \in Covers(offset, Len(data)) THEN data[p - offset] ELSE Visible[p]
  BY <1>2, OverwrittenBytes
<1>5. Visible' = SubSeq(whole, 1, len)
  BY <1>1 DEF Visible
<1>6. shown = Extended(Visible, offset, data)
  BY <1>1, <1>2, ExtendedInside
<1> HIDE DEF whole, shown
<1>7. /\ SubSeq(whole, 1, len) \in Seq(Byte) /\ Len(SubSeq(whole, 1, len)) = len
      /\ \A p \in 1 .. len : SubSeq(whole, 1, len)[p] = whole[p]
  BY <1>2, <1>3, PrefixBytes
<1>8. \A p \in 1 .. len : p \in 1 .. Len(content)
  BY <1>2
<1>9. \A p \in 1 .. len : SubSeq(whole, 1, len)[p] = shown[p]
  BY <1>2, <1>3, <1>4, <1>7, <1>8
<1>10. Visible' = shown
  BY <1>4, <1>5, <1>7, <1>9, SeqEqual
<1>11. Abstract!Write(offset, data)
  BY <1>1, <1>6, <1>10, AbstractTerms DEF Abstract!Write
<1> QED
  BY <1>11, AbstractTerms DEF Abstract!Next

(* The extended file shows zeros where an extension that failed before had  *)
(* left the file longer than its mapping.                                   *)
LEMMA MappedExtendImplements ==
  ASSUME IInv, NEW offset \in Offsets, NEW data \in Chunks, MappedExtend(offset, data)
  PROVE  Abstract!Next
<1> DEFINE end == offset + Len(data)
<1>1. /\ kind = "mapped" /\ end > len /\ end <= MAX_END
      /\ flushed' = Outside(flushed, offset, Len(data)) /\ answer' = DONE
      /\ content' = Overwritten(Resized(content, end), offset, data)
      /\ len' = end /\ UNCHANGED kind
  BY DEF MappedExtend, Written
<1>2. /\ content \in Seq(Byte) /\ Len(content) \in Nat /\ len \in Nat /\ len <= Len(content)
      /\ offset \in Nat /\ data \in Seq(Byte) /\ Len(data) \in Nat /\ end \in Nat
      /\ Visible \in Seq(Byte) /\ Len(Visible) = len
      /\ \A p \in 1 .. len : Visible[p] = content[p]
      /\ \A p \in len + 1 .. Len(content) : content[p] = 0
  BY <1>1, StateTypes, ChunkTypes, VisibleBytes DEF IInv, Offsets, MappingCoversLen
<1>3. Extended(Visible, offset, data) = Overwritten(Resized(Visible, end), offset, data)
  <2>1. Greatest(Len(Visible), offset + Len(data)) = end
    BY <1>1, <1>2 DEF Greatest
  <2> QED
    BY <2>1 DEF Extended
<1> HIDE DEF end
<1>4. Resized(content, end) = Resized(Visible, end)
  <2>1. /\ Resized(content, end) \in Seq(Byte) /\ Len(Resized(content, end)) = end
        /\ \A p \in 1 .. end :
             Resized(content, end)[p] = IF p <= Len(content) THEN content[p] ELSE 0
    BY <1>2, ResizedBytes
  <2>2. /\ Resized(Visible, end) \in Seq(Byte) /\ Len(Resized(Visible, end)) = end
        /\ \A p \in 1 .. end :
             Resized(Visible, end)[p] = IF p <= Len(Visible) THEN Visible[p] ELSE 0
    BY <1>2, ResizedBytes
  <2>3. ASSUME NEW p \in 1 .. end
        PROVE  Resized(content, end)[p] = Resized(Visible, end)[p]
    <3>1. CASE p <= len
      BY <1>2, <2>1, <2>2, <3>1
    <3>2. CASE ~ (p <= len)
      <4>1. p <= Len(content) => p \in len + 1 .. Len(content)
        BY <1>2, <3>2
      <4> QED
        BY <1>2, <2>1, <2>2, <3>2, <4>1
    <3> QED
      BY <3>1, <3>2
  <2> QED
    BY <2>1, <2>2, <2>3, SeqEqual
<1>5. Resized(content, end) \in Seq(Byte) /\ Len(Resized(content, end)) = end
  BY <1>2, ResizedBytes
<1>6. content' \in Seq(Byte) /\ Len(content') = end
  BY <1>1, <1>2, <1>5, OverwrittenBytes
<1>7. Visible' = content'
  <2>1. Visible' = SubSeq(content', 1, end)
    BY <1>1 DEF Visible
  <2>2. end \in 0 .. Len(content')
    BY <1>2, <1>6
  <2> QED
    BY <1>6, <2>1, <2>2, PrefixBytes
<1>8. Visible' = Extended(Visible, offset, data)
  BY <1>1, <1>3, <1>4, <1>7
<1>9. Abstract!Write(offset, data)
  BY <1>1, <1>8, AbstractTerms DEF Abstract!Write, end
<1> QED
  BY <1>9, AbstractTerms DEF Abstract!Next

LEMMA MappedRemapFailsImplements ==
  ASSUME IInv, NEW offset \in Offsets, NEW data \in Chunks, MappedRemapFails(offset, data)
  PROVE  Abstract!Next
<1> DEFINE end == offset + Len(data)
<1>1. /\ kind = "mapped" /\ end \in len + 1 .. MAX_END
      /\ content' = Resized(content, end)
      /\ UNCHANGED <<kind, len, flushed>> /\ answer' = FAILED
  BY DEF MappedRemapFails
<1>2. /\ content \in Seq(Byte) /\ Len(content) \in Nat /\ len \in Nat /\ len <= Len(content)
      /\ end \in Nat /\ len <= end
      /\ Visible \in Seq(Byte) /\ Len(Visible) = len
      /\ \A p \in 1 .. len : Visible[p] = content[p]
  BY <1>1, StateTypes, ChunkTypes, VisibleBytes DEF IInv, Offsets
<1> HIDE DEF end
<1>3. /\ content' \in Seq(Byte) /\ Len(content') = end
      /\ \A p \in 1 .. end : content'[p] = IF p <= Len(content) THEN content[p] ELSE 0
  BY <1>1, <1>2, ResizedBytes
<1>4. len \in 0 .. Len(content') /\ Visible' = SubSeq(content', 1, len)
  BY <1>1, <1>2, <1>3 DEF Visible
<1>5. /\ Visible' \in Seq(Byte) /\ Len(Visible') = len
      /\ \A p \in 1 .. len : Visible'[p] = content'[p]
  BY <1>3, <1>4, PrefixBytes
<1>6. \A p \in 1 .. len : p \in 1 .. end /\ p <= Len(content)
  BY <1>2
<1>7. Visible' = Visible
  BY <1>2, <1>3, <1>5, <1>6, SeqEqual
<1> QED
  BY <1>1, <1>7, FailureImplements

LEMMA FlushImplements ==
  ASSUME IInv, Flush
  PROVE  Abstract!Next
BY DEF Flush, Visible, Abstract!Next, Abstract!Flush

(* Opening shows the file to its end, with zeros beyond what was mapped.    *)
LEMMA ReopenImplements ==
  ASSUME IInv, Reopen
  PROVE  Abstract!Next
<1>1. /\ kind \in Files /\ UNCHANGED <<kind, content, flushed, answer>>
      /\ len' = Len(content)
  BY DEF Reopen, Opened
<1>2. /\ content \in Seq(Byte) /\ Len(content) \in Nat /\ Len(content) <= MAX_END
      /\ MAX_END \in Nat
      /\ Visible \in Seq(Byte) /\ Len(Visible) \in Nat /\ Len(Visible) <= Len(content)
      /\ \A p \in 1 .. Len(Visible) : Visible[p] = content[p]
      /\ \A p \in Len(Visible) + 1 .. Len(content) : content[p] = 0
  BY StateTypes, VisibleBytes DEF IInv, Offsets, MappingCoversLen
<1>3. Visible' = content
  <2>1. Len(content) \in 0 .. Len(content)
    BY <1>2
  <2>2. SubSeq(content, 1, Len(content)) = content
    BY <1>2, <2>1, PrefixBytes
  <2> QED
    BY <1>1, <2>2 DEF Visible
<1>4. /\ Resized(Visible, Len(content)) \in Seq(Byte)
      /\ Len(Resized(Visible, Len(content))) = Len(content)
      /\ \A p \in 1 .. Len(content) :
           Resized(Visible, Len(content))[p] = IF p <= Len(Visible) THEN Visible[p] ELSE 0
  BY <1>2, ResizedBytes
<1>5. ASSUME NEW p \in 1 .. Len(content)
      PROVE  Resized(Visible, Len(content))[p] = content[p]
  <2>1. p \in 1 .. Len(Visible) \/ p \in Len(Visible) + 1 .. Len(content)
    BY <1>2
  <2> QED
    BY <1>2, <1>4, <2>1
<1>6. Visible' = Resized(Visible, Len(content))
  BY <1>2, <1>3, <1>4, <1>5, SeqEqual
<1>7. Len(content) \in Len(Visible) .. MAX_END
  BY <1>2
<1>8. Abstract!Reopen
  BY <1>1, <1>6, <1>7, AbstractTerms DEF Abstract!Reopen
<1> QED
  BY <1>8 DEF Abstract!Next

LEMMA PowerLossImplements ==
  ASSUME IInv, PowerLoss
  PROVE  Abstract!Next
<1>1. IInv'
  BY PowerLossStep
<1>2. /\ kind \in Files /\ UNCHANGED <<kind, flushed, answer>>
      /\ len' = Len(content')
  BY DEF PowerLoss, Opened
<1>3. content' \in Seq(Byte) /\ Len(content') \in Nat
  BY <1>1, StateTypes DEF IInv, TypeOK, Region
<1>4. Visible' = content'
  <2>1. Len(content') \in 0 .. Len(content')
    BY <1>3
  <2>2. SubSeq(content', 1, Len(content')) = content'
    BY <1>3, <2>1, PrefixBytes
  <2> QED
    BY <1>2, <2>2 DEF Visible
<1>5. \A p \in DOMAIN flushed : p <= Len(content') /\ content'[p] = flushed[p]
  BY <1>1, <1>2, <1>3 DEF IInv, Kept
<1>6. Abstract!PowerLoss
  BY <1>2, <1>3, <1>4, <1>5 DEF Abstract!PowerLoss
<1> QED
  BY <1>6 DEF Abstract!Next

LEMMA InitImplements == Init => Abstract!Init
<1> SUFFICES ASSUME Init PROVE Abstract!Init
  OBVIOUS
<1>1. Visible = content
  BY InitEstablishes, StateTypes, PrefixBytes DEF IInv, Init, Visible
<1> QED
  BY <1>1 DEF Init, Abstract!Init

(* Every call on every medium, every failure, reopening and loss of power   *)
(* is one that OriginSpec allows, as long as readers do not overlap.        *)
THEOREM Implements == Locked => (Spec => ImplementsOrigin)
<1> SUFFICES ASSUME Locked PROVE Spec => ImplementsOrigin
  OBVIOUS
<1>1. ASSUME IInv, [Next]_vars
      PROVE  [Abstract!Next]_<<Visible, flushed, answer>>
  <2>1. ASSUME NEW offset \in Offsets, NEW data \in Chunks, Refused(offset, data)
        PROVE  Abstract!Next
    BY <2>1, FailureImplements DEF Refused, Visible
  <2>2. ASSUME NEW from \in Offsets, NEW to \in Offsets, EraseRefused(from, to)
        PROVE  Abstract!Next
    BY <2>2, FailureImplements DEF EraseRefused, Visible
  <2>3. CASE CallFails
    BY <2>3, FailureImplements DEF CallFails, Visible
  <2>4. CASE UNCHANGED vars
    BY <2>4 DEF vars, Visible
  <2>5. CASE Next
    BY <1>1, <2>1, <2>2, <2>3, <2>5, ReadImplements, ReaderImplements, RegionWriteImplements,
       FileWriteFailsImplements, EraseImplements, MappedOverwriteImplements,
       MappedExtendImplements, MappedRemapFailsImplements, FlushImplements,
       ReopenImplements, PowerLossImplements
    DEF Next
  <2> QED
    BY <1>1, <2>4, <2>5
<1> QED
  BY <1>1, InitImplements, Invariant, PTL DEF Spec, ImplementsOrigin, Abstract!Spec
=============================================================================
