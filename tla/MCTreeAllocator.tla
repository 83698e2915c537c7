-------------------------- MODULE MCTreeAllocator --------------------------
(***************************************************************************)
(* TreeAllocator for TLC: a header of one word, a root of two, and room    *)
(* for three more spans of two, nodes or records in any mixture.           *)
(***************************************************************************)
EXTENDS TreeAllocator
=============================================================================
