----------------------------- MODULE ByteRegion -----------------------------
(***************************************************************************)
(* Regions of bytes as the origins of chton/src/origin read, write and     *)
(* grow them.  Offsets count from 0, positions in a sequence from 1.       *)
(***************************************************************************)
EXTENDS Naturals, Sequences

CONSTANTS
  Byte,      (* the values of a byte                                       *)
  ERASED,    (* the value an erased byte of a block holds                  *)
  MAX_END,   (* u64::MAX: no write ends beyond it                          *)
  Sizes,     (* the sizes of the buffers passed to read                    *)
  Chunks,    (* the data passed to write                                   *)
  DONE,      (* the answer Ok(())                                          *)
  FAILED     (* an Err                                                     *)

ASSUME RegionAssumption ==
  /\ 0 \in Byte
  /\ ERASED \in Byte
  /\ MAX_END \in Nat
  /\ Sizes \subseteq Nat
  /\ Chunks \subseteq Seq(Byte)

Offsets == 0 .. MAX_END

Least(a, b)    == IF a <= b THEN a ELSE b
Greatest(a, b) == IF a >= b THEN a ELSE b

(* Vec::resize and File::set_len: cut, or extended with zeros.              *)
Resized(bytes, size) ==
  [p \in 1 .. size |-> IF p <= Len(bytes) THEN bytes[p] ELSE 0]

(* copy_from_slice and fill: the region keeps its size.                     *)
Covers(offset, size) == offset + 1 .. offset + size

Overwritten(bytes, offset, data) ==
  [p \in 1 .. Len(bytes) |->
     IF p \in Covers(offset, Len(data)) THEN data[p - offset] ELSE bytes[p]]

Extended(bytes, offset, data) ==
  Overwritten(Resized(bytes, Greatest(Len(bytes), offset + Len(data))), offset, data)

(* write on a file: a gap reads as zeros, and no byte leaves it as it is.   *)
FileWritten(bytes, offset, data) ==
  IF data = <<>> THEN bytes ELSE Extended(bytes, offset, data)

(* The bytes a read at the offset finds, none at or beyond the end.         *)
Slice(bytes, offset, size) ==
  SubSeq(bytes, offset + 1, Least(offset + size, Len(bytes)))

(* "Read up to `buf.len()` bytes": the start of what is there, and at least  *)
(* a byte of it unless nothing is there.                                    *)
Starts(found) ==
  { SubSeq(found, 1, n) : n \in { m \in 0 .. Len(found) : m = 0 => found = <<>> } }

(* What is left of a function on positions when some are written again.     *)
Outside(kept, offset, size) ==
  [p \in DOMAIN kept \ Covers(offset, size) |-> kept[p]]
=============================================================================
