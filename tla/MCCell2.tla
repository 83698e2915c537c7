------------------------------ MODULE MCCell2 ------------------------------
(***************************************************************************)
(* Cell2 for TLC: two threads, two cells, up to three guards a thread: an  *)
(* oldest one that holds the section, a middle and a newest nested one.    *)
(***************************************************************************)
EXTENDS Cell2
=============================================================================
