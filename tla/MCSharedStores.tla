--------------------------- MODULE MCSharedStores ---------------------------
(***************************************************************************)
(* SharedStores for TLC: two callers, two keys and one beyond capacity,    *)
(* one value that fits and one that does not; lists and batches that       *)
(* succeed, overwrite themselves, delete, and fail first, last or both.    *)
(* The paths of the keys share their first coordinate; the axis checks are *)
(* a prefix, one out of order, one with a gap, one that names an axis      *)
(* twice, and ones beyond the coordinates, beyond the depth and empty.     *)
(***************************************************************************)
EXTENDS SharedStores, TLC

CONSTANTS k1, k2, long, v, large

E(k, d) == [key |-> k, value |-> d]

MCLists ==
  { <<>>, <<E(k1, v)>>, <<E(k1, v), E(k2, v)>>, <<E(k2, v), E(k1, large)>>,
    <<E(k1, v), E(long, v)>>, <<E(long, v), E(k2, v)>>,
    <<E(k1, large), E(long, v)>> }

MCPathOf == (k1 :> <<0, 0, 1>>) @@ (k2 :> <<0, 1, 0>>)

A(axis, value) == [axis |-> axis, value |-> value]

MCAxisChecks ==
  { <<>>, <<A(0, 0)>>, <<A(0, 0), A(1, 1)>>, <<A(1, 1), A(0, 0)>>, <<A(1, 0)>>,
    <<A(0, 0), A(0, 1)>>, <<A(0, 2)>>, <<A(1, 0), A(3, 0)>> }

MCCubes == { <<k1, k2>>, <<k2>> }

MCBatches ==
  { <<E(k1, v), E(k2, NONE)>>, <<E(k2, v), E(k1, NONE)>>,
    <<E(k1, v), E(k1, NONE)>>, <<E(k1, NONE), E(long, NONE)>>,
    <<E(k2, v), E(k1, large)>> }
=============================================================================
