------------------------------- MODULE MCFsIo -------------------------------
(***************************************************************************)
(* FsIo for TLC: a name that is a key and a directory above another, two   *)
(* directories deep, values of no and of two words, deletes, a batch of    *)
(* two operations and one that is refused in the middle; two callers.      *)
(***************************************************************************)
EXTENDS FsIo, TLC

a   == <<"a">>
abc == <<"a", "b", "c">>
b   == <<"b">>

E(k, value) == [key |-> k, value |-> value]

MCSegments == {"a", "b", "c"}
MCKeys     == {a, abc, b}
MCBadKeys  == {<<"?">>}
MCData     == { <<>>, <<1, 1>> }
MCPrefixes == { <<>>, a }
MCBatches  ==
  { <<E(a, <<>>)>>, <<E(a, NONE), E(<<"?">>, NONE)>>, <<E(abc, <<1, 1>>)>>, <<E(abc, <<>>)>>,
    <<E(abc, NONE), E(b, <<>>)>> }

(* Neither the specification nor a property singles out a caller.           *)
MCSymmetry == Permutations(Callers)
=============================================================================
