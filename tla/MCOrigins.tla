----------------------------- MODULE MCOrigins -----------------------------
(***************************************************************************)
(* Origins for TLC: bytes 0 and 1, regions of at most 3 bytes, writes of 0 *)
(* to 2 bytes, so that a write can lie before, across, at and past the end;*)
(* two readers, so that one can seek inside the read of the other.         *)
(***************************************************************************)
EXTENDS Origins

MCChunks == { <<>>, <<1>>, <<0, 1>> }
MCImages == { <<>>, <<1, 0>> }
=============================================================================
