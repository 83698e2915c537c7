------------------------------ MODULE Origins ------------------------------
(***************************************************************************)
(* The media of chton/src/origin: MemoryOrigin, FileOrigin,                *)
(* MappedFileOrigin and BlockSlice.  A read of a FileOrigin is a seek and  *)
(* a read of the shared file cursor; everything else takes &mut self and   *)
(* is one step.  Calls on the operating system may fail, and the power may *)
(* go at any moment.                                                       *)
(***************************************************************************)
EXTENDS ByteRegion

CONSTANTS
  Readers,     (* the threads that hold a reference and read               *)
  Kinds,       (* which media, some of "memory", "file", "mapped", "block" *)
  Images,      (* what the medium may hold at first                        *)
  Locked       (* readers come one after the other, as Cell2 makes them    *)

ASSUME OriginsAssumption ==
  /\ Images \subseteq Seq(Byte)
  /\ \A image \in Images : Len(image) <= MAX_END
  /\ Locked \in BOOLEAN

VARIABLES
  kind,     (* which medium it is                                          *)
  content,  (* MemoryOrigin.data, the slice of the block, or the file      *)
  durable,  (* what of the file is on the medium                           *)
  len,      (* FileOrigin.len, MappedFileOrigin.len                        *)
  mapped,   (* the bytes that MappedFileOrigin.map covers                  *)
  cursor,   (* the offset the open file reads from next                    *)
  reader,   (* per reader: between seek and read, and with what arguments  *)
  answer,   (* what the last call answered                                 *)
  flushed,  (* positions flushed and not written since, with their bytes   *)
  exact     (* no FileOrigin write failed beyond len or wrote nothing past *)
            (* the end since the file was opened                           *)

vars == <<kind, content, durable, len, mapped, cursor, reader, answer, flushed, exact>>

Files == {"file", "mapped"}
Idle  == [at |-> "idle", offset |-> 0, size |-> 0]

Init ==
  /\ kind \in Kinds
  /\ content \in Images
  /\ durable = content
  /\ len = Len(content)
  /\ mapped = Len(content)
  /\ cursor = 0
  /\ reader = [r \in Readers |-> Idle]
  /\ answer = DONE
  /\ flushed = <<>>
  /\ exact = TRUE

(* &mut self: no reader is inside a read.                                   *)
Exclusive == \A r \in Readers : reader[r] = Idle

Returns(offset, size, bytes) ==
  answer' = [offset |-> offset, size |-> size, bytes |-> bytes]

(***************************************************************************)
(* Reading.                                                                *)
(***************************************************************************)
(* The view that BlockOrigin::bytes hands out is read in place.             *)
Read(offset, size) ==
  /\ kind \in {"memory", "block"}
  /\ Returns(offset, size, Slice(content, offset, size))
  /\ UNCHANGED <<kind, content, durable, len, mapped, cursor, reader, flushed, exact>>

MappedRead(offset, size) ==
  /\ kind = "mapped"
  /\ Returns(offset, size,
             IF offset >= len THEN <<>>
             ELSE SubSeq(content, offset + 1, offset + Least(len - offset, size)))
  /\ UNCHANGED <<kind, content, durable, len, mapped, cursor, reader, flushed, exact>>

(* Mutant: the read goes on from wherever the cursor is. *)
FileSeekSkipped(r, offset, size) ==
  /\ kind = "file"
  /\ IF Locked THEN Exclusive ELSE reader[r] = Idle
  /\ reader' = [reader EXCEPT ![r] = [at |-> "sought", offset |-> offset, size |-> size]]
  /\ UNCHANGED <<kind, content, durable, len, mapped, cursor, answer, flushed, exact>>

FileSeek(r, offset, size) ==
  /\ kind = "file"
  /\ IF Locked THEN Exclusive ELSE reader[r] = Idle
  /\ cursor' = offset
  /\ reader' = [reader EXCEPT ![r] = [at |-> "sought", offset |-> offset, size |-> size]]
  /\ UNCHANGED <<kind, content, durable, len, mapped, answer, flushed, exact>>

(* One read(2), which may stop before the buffer is full.                   *)
FileRead(r) ==
  /\ reader[r].at = "sought"
  /\ \E part \in Starts(Slice(content, cursor, reader[r].size)) :
       /\ cursor' = cursor + Len(part)
       /\ Returns(reader[r].offset, reader[r].size, part)
  /\ reader' = [reader EXCEPT ![r] = Idle]
  /\ UNCHANGED <<kind, content, durable, len, mapped, flushed, exact>>

FileReadFails(r) ==
  /\ reader[r].at = "sought"
  /\ answer' = FAILED
  /\ reader' = [reader EXCEPT ![r] = Idle]
  /\ UNCHANGED <<kind, content, durable, len, mapped, cursor, flushed, exact>>

(***************************************************************************)
(* Writing.                                                                *)
(***************************************************************************)
(* checked_add overflows, or the bytes lie outside the slice of the block.  *)
Refused(offset, data) ==
  /\ IF kind = "block" THEN offset + Len(data) > Len(content)
                       ELSE offset + Len(data) > MAX_END
  /\ answer' = FAILED
  /\ UNCHANGED <<kind, content, durable, len, mapped, cursor, reader, flushed, exact>>

Written(offset, size) ==
  /\ Exclusive
  /\ offset + size <= MAX_END
  /\ flushed' = Outside(flushed, offset, size)
  /\ answer' = DONE

MemoryWrite(offset, data) ==
  /\ kind = "memory"
  /\ Written(offset, Len(data))
  /\ content' = Extended(content, offset, data)
  /\ UNCHANGED <<kind, durable, len, mapped, cursor, reader, exact>>

(* Mutant: the slice of the block grows like a Vec. *)
BlockWriteExtends(offset, data) ==
  /\ kind = "block"
  /\ Written(offset, Len(data))
  /\ content' = Extended(content, offset, data)
  /\ UNCHANGED <<kind, durable, len, mapped, cursor, reader, exact>>

BlockWrite(offset, data) ==
  /\ kind = "block"
  /\ Written(offset, Len(data))
  /\ offset + Len(data) <= Len(content)
  /\ content' = Overwritten(content, offset, data)
  /\ UNCHANGED <<kind, durable, len, mapped, cursor, reader, exact>>

(* [from, to), nothing when to is not beyond from.                          *)
Erased(from, to) == IF to > from THEN to - from ELSE 0

Erase(from, to) ==
  /\ kind = "block"
  /\ Written(from, Erased(from, to))
  /\ from + Erased(from, to) <= Len(content)
  /\ content' = Overwritten(content, from, [i \in 1 .. Erased(from, to) |-> ERASED])
  /\ UNCHANGED <<kind, durable, len, mapped, cursor, reader, exact>>

EraseRefused(from, to) ==
  /\ kind = "block"
  /\ from + Erased(from, to) > Len(content)
  /\ answer' = FAILED
  /\ UNCHANGED <<kind, content, durable, len, mapped, cursor, reader, flushed, exact>>

(* Mutant: len becomes the end of the last write. *)
FileWriteShrinksLen(offset, data) ==
  /\ kind = "file"
  /\ Written(offset, Len(data))
  /\ content' = FileWritten(content, offset, data)
  /\ cursor' = offset + Len(data)
  /\ len' = offset + Len(data)
  /\ exact' = (exact /\ (data # <<>> \/ offset <= len))
  /\ UNCHANGED <<kind, durable, mapped, reader>>

(* len follows the offset even when nothing is written past the end.        *)
FileWrite(offset, data) ==
  /\ kind = "file"
  /\ Written(offset, Len(data))
  /\ content' = FileWritten(content, offset, data)
  /\ cursor' = offset + Len(data)
  /\ len' = Greatest(len, offset + Len(data))
  /\ exact' = (exact /\ (data # <<>> \/ offset <= len))
  /\ UNCHANGED <<kind, durable, mapped, reader>>

(* write_all fails after some of the data; len stays.                       *)
FileWriteFails(offset, data) ==
  /\ kind = "file"
  /\ Exclusive
  /\ offset + Len(data) <= MAX_END
  /\ \E i \in 0 .. Len(data) :
       /\ i < Len(data)
       /\ content' = FileWritten(content, offset, SubSeq(data, 1, i))
       /\ cursor' = offset + i
  /\ flushed' = Outside(flushed, offset, Len(data))
  /\ exact' = (exact /\ offset + Len(data) <= len)
  /\ answer' = FAILED
  /\ UNCHANGED <<kind, durable, len, mapped, reader>>

MappedOverwrite(offset, data) ==
  /\ kind = "mapped"
  /\ Written(offset, Len(data))
  /\ offset + Len(data) <= len
  /\ content' = Overwritten(content, offset, data)
  /\ UNCHANGED <<kind, durable, len, mapped, cursor, reader, exact>>

(* set_len, which cuts an extension that failed before, map_mut, len, copy. *)
MappedExtend(offset, data) ==
  LET end == offset + Len(data) IN
  /\ kind = "mapped"
  /\ Written(offset, Len(data))
  /\ end > len
  /\ content' = Overwritten(Resized(content, end), offset, data)
  /\ mapped' = end
  /\ len' = end
  /\ UNCHANGED <<kind, durable, cursor, reader, exact>>

(* Mutant: len is raised before the file is mapped again. *)
MappedRemapFailsLate(offset, data) ==
  /\ kind = "mapped"
  /\ Exclusive
  /\ offset + Len(data) \in len + 1 .. MAX_END
  /\ content' = Resized(content, offset + Len(data))
  /\ len' = offset + Len(data)
  /\ answer' = FAILED
  /\ UNCHANGED <<kind, durable, mapped, cursor, reader, flushed, exact>>

(* map_mut fails: the file is longer than the mapping and len.              *)
MappedRemapFails(offset, data) ==
  /\ kind = "mapped"
  /\ Exclusive
  /\ offset + Len(data) \in len + 1 .. MAX_END
  /\ content' = Resized(content, offset + Len(data))
  /\ answer' = FAILED
  /\ UNCHANGED <<kind, durable, len, mapped, cursor, reader, flushed, exact>>

(***************************************************************************)
(* Flushing, closing and power loss.                                       *)
(***************************************************************************)
Visible == IF kind = "mapped" THEN SubSeq(content, 1, len) ELSE content

(* Mutant: the mapping is flushed, the new length of the file is not. *)
FlushMapOnly ==
  /\ kind # "block"
  /\ Exclusive
  /\ durable' = IF kind = "memory" THEN durable
                ELSE [p \in DOMAIN durable |-> IF p <= Len(content) THEN content[p] ELSE 0]
  /\ flushed' = Visible
  /\ answer' = DONE
  /\ UNCHANGED <<kind, content, len, mapped, cursor, reader, exact>>

(* A block has no flush, and that of a MemoryOrigin does nothing.           *)
Flush ==
  /\ kind # "block"
  /\ Exclusive
  /\ durable' = IF kind = "memory" THEN durable ELSE content
  /\ flushed' = Visible
  /\ answer' = DONE
  /\ UNCHANGED <<kind, content, len, mapped, cursor, reader, exact>>

(* A seek, set_len, msync or fsync that fails.                              *)
CallFails ==
  /\ kind \in Files
  /\ Exclusive
  /\ answer' = FAILED
  /\ UNCHANGED <<kind, content, durable, len, mapped, cursor, reader, flushed, exact>>

(* open: len and the mapping come from the length of the file.              *)
Opened ==
  /\ len' = Len(content')
  /\ mapped' = Len(content')
  /\ cursor' = 0
  /\ exact' = TRUE
  /\ UNCHANGED <<kind, answer, flushed>>

Reopen ==
  /\ kind \in Files
  /\ Exclusive
  /\ UNCHANGED <<content, durable, reader>>
  /\ Opened

(* Of every byte the old or the new value is left, and of the lengths one.  *)
Survivors(size) ==
  [p \in 1 .. size |->
     (IF p <= Len(durable) THEN {durable[p]} ELSE {0})
       \cup (IF p <= Len(content) THEN {content[p]} ELSE {})]

PowerLoss ==
  /\ kind \in Files
  /\ \E size \in {Len(content), Len(durable)} :
       content' \in { bytes \in [1 .. size -> Byte] :
                        \A p \in 1 .. size : bytes[p] \in Survivors(size)[p] }
  /\ durable' = content'
  /\ reader' = [r \in Readers |-> Idle]
  /\ Opened

Next ==
  \/ \E offset \in Offsets, size \in Sizes :
       \/ Read(offset, size)
       \/ MappedRead(offset, size)
       \/ \E r \in Readers : FileSeek(r, offset, size)
  \/ \E r \in Readers : FileRead(r) \/ FileReadFails(r)
  \/ \E offset \in Offsets, data \in Chunks :
       \/ Refused(offset, data)
       \/ MemoryWrite(offset, data)
       \/ BlockWrite(offset, data)
       \/ FileWrite(offset, data)
       \/ FileWriteFails(offset, data)
       \/ MappedOverwrite(offset, data)
       \/ MappedExtend(offset, data)
       \/ MappedRemapFails(offset, data)
  \/ \E from, to \in Offsets : Erase(from, to) \/ EraseRefused(from, to)
  \/ Flush
  \/ CallFails
  \/ Reopen
  \/ PowerLoss

Spec == Init /\ [][Next]_vars

(***************************************************************************)
(* Properties.                                                             *)
(***************************************************************************)
Region == { bytes \in Seq(Byte) : Len(bytes) <= MAX_END }

(* The types, and that a block stays where and as long as it was given.     *)
TypeOK ==
  /\ kind \in Kinds
  /\ content \in Region
  /\ durable \in Region
  /\ len \in Offsets
  /\ mapped \in Offsets
  /\ cursor \in Nat
  /\ reader \in [Readers -> [at : {"idle", "sought"}, offset : Offsets, size : Sizes \cup {0}]]
  /\ exact \in BOOLEAN
  /\ kind = "block" => len = Len(content)

(* The len a FileOrigin keeps beside the file is its length, unless a write *)
(* failed beyond the end or wrote nothing past it.                          *)
LenIsExact == kind = "file" /\ exact => len = Len(content)

(* MappedFileOrigin maps exactly the bytes it says it has, whatever call    *)
(* failed before, so neither its expect nor its slices can panic; the file  *)
(* under the mapping is never shorter, and what an extension that failed    *)
(* left beyond it reads as zeros when the file is opened again.             *)
MappingCoversLen ==
  kind = "mapped" =>
    /\ mapped = len
    /\ len <= Len(content)
    /\ \A p \in len + 1 .. Len(content) : content[p] = 0

(* "flush persists the mapping to the medium" (mapped_file.rs), and sync_all *)
(* of FileOrigin: a byte that was flushed and not written since is there    *)
(* after any number of power losses and reopenings.                         *)
FlushedSurvives ==
  kind \in Files =>
    \A p \in DOMAIN flushed : p <= Len(content) /\ content[p] = flushed[p]

Abstract == INSTANCE OriginSpec WITH bytes <- Visible

(* Every call on every medium is one of OriginSpec: reads return the bytes  *)
(* from their offset on, writes change nothing outside their bytes, failures leave  *)
(* a part of the data at most.                                              *)
ImplementsOrigin == Abstract!Spec

(* "Read up to `buf.len()` bytes at `offset`" (Origin::read): each read     *)
(* returns bytes from the offset it was asked for, whoever reads beside it. *)
ReadsWhereAsked ==
  [][\A r \in Readers :
       reader[r].at = "sought" /\ reader'[r] = Idle /\ answer' \notin {answer, FAILED}
       => answer'.bytes \in Starts(Slice(content, reader[r].offset, reader[r].size))]_vars
=============================================================================
