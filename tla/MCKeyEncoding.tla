--------------------------- MODULE MCKeyEncoding ---------------------------
(***************************************************************************)
(* KeyEncoding for TLC: bytes below 4, coordinates below 5, three payload  *)
(* axes (numbers below 125).  Three characters of one byte, 0 among them,  *)
(* and three syllables of three bytes; every string of up to four of them, *)
(* and strings of zeros and ones longer than the marker can say.           *)
(***************************************************************************)
EXTENDS KeyEncoding

CONSTANTS z, one, two, ga, na, ha

MCChars   == {z, one, two, ga, na, ha}
MCUtf8    == [c \in MCChars |->
                CASE c = z -> <<0>> [] c = one -> <<1>> [] c = two -> <<2>>
                  [] c = ga -> <<3, 0, 0>> [] c = na -> <<3, 0, 1>>
                  [] c = ha -> <<3, 1, 3>>]
MCCoordOf == [c \in MCChars |->
                CASE c = ga -> 0 [] c = na -> 1 [] c = ha -> 4
                  [] OTHER -> NO_COORD]
MCKeys    == UNION { [1 .. n -> MCChars] : n \in 0 .. 4 }
               \cup UNION { [1 .. n -> {z, one}] : n \in 5 .. 6 }
=============================================================================
