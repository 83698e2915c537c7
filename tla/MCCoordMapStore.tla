-------------------------- MODULE MCCoordMapStore --------------------------
(***************************************************************************)
(* CoordMapStore for TLC: two levels of two slots, records of one payload  *)
(* word.  Two keys either share a leaf node or have one each; a value is   *)
(* empty, one word, or one word too long.                                  *)
(***************************************************************************)
EXTENDS CoordMapStoreRefinement

TwoLeaves == { <<0, 0>>, <<1, 0>> }
OneLeaf   == { <<0, 0>>, <<0, 1>> }

OneValue  == { <<1>>, <<7, 7>> }
TwoValues == { <<>>, <<1>>, <<7, 7>> }

Offsets == 0 .. MAX_OFFSET

NoOps  == {}
AllOps == {"put", "remove", "clear", "flush"}

(* No step reads `result` or `synced`.  A run whose properties speak of     *)
(* them only as a step sets them tells states apart by the rest.            *)
WithoutAnswers == <<strategy, origin, len, dirty, op, faults, wounds, unmarked, torn>>
=============================================================================
