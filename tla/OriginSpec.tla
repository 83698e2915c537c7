----------------------------- MODULE OriginSpec -----------------------------
(***************************************************************************)
(* What an Origin promises (chton/src/origin/mod.rs): a region of bytes    *)
(* that is read and written at offsets, every call at once, and that keeps *)
(* what was flushed.                                                       *)
(***************************************************************************)
EXTENDS ByteRegion

CONSTANT Images   (* what the medium may hold at first                      *)

VARIABLES
  bytes,    (* the region                                                  *)
  flushed,  (* positions flushed and not written since, with their bytes   *)
  answer    (* what the last call answered                                 *)

Init ==
  /\ bytes \in Images
  /\ flushed = <<>>
  /\ answer = DONE

Read(offset, size) ==
  /\ \E part \in Starts(Slice(bytes, offset, size)) :
       answer' = [offset |-> offset, size |-> size, bytes |-> part]
  /\ UNCHANGED <<bytes, flushed>>

(* Writing nothing past the end may extend the region or not.               *)
Write(offset, data) ==
  /\ offset + Len(data) <= MAX_END
  /\ bytes' \in { FileWritten(bytes, offset, data), Extended(bytes, offset, data) }
  /\ flushed' = Outside(flushed, offset, Len(data))
  /\ answer' = DONE

(* A write that fails has written some of its data, from the first byte on. *)
WriteFails(offset, data) ==
  /\ \E i \in 0 .. Len(data) :
       i < Len(data) /\ bytes' = FileWritten(bytes, offset, SubSeq(data, 1, i))
  /\ flushed' = Outside(flushed, offset, Len(data))
  /\ answer' = FAILED

Erase(from, size) ==
  /\ from + size <= Len(bytes)
  /\ bytes' = Overwritten(bytes, from, [i \in 1 .. size |-> ERASED])
  /\ flushed' = Outside(flushed, from, size)
  /\ answer' = DONE

Flush ==
  /\ flushed' = bytes
  /\ answer' = DONE
  /\ UNCHANGED bytes

Fails ==
  /\ answer' = FAILED
  /\ UNCHANGED <<bytes, flushed>>

(* An extension that failed half way may come to light as zeros.            *)
Reopen ==
  /\ \E size \in Len(bytes) .. MAX_END : bytes' = Resized(bytes, size)
  /\ UNCHANGED <<flushed, answer>>

PowerLoss ==
  /\ bytes' \in Seq(Byte)
  /\ \A p \in DOMAIN flushed : p <= Len(bytes') /\ bytes'[p] = flushed[p]
  /\ UNCHANGED <<flushed, answer>>

Next ==
  \/ \E offset \in Offsets, size \in Sizes : Read(offset, size)
  \/ \E offset \in Offsets, data \in Chunks : Write(offset, data) \/ WriteFails(offset, data)
  \/ \E from, size \in Offsets : Erase(from, size)
  \/ Flush
  \/ Fails
  \/ Reopen
  \/ PowerLoss

Spec == Init /\ [][Next]_<<bytes, flushed, answer>>
=============================================================================
