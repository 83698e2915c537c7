---------------------------- MODULE KeyEncoding ----------------------------
(***************************************************************************)
(* str_to_coordpath::<DEPTH> (chton/src/store/mod.rs): from a string key   *)
(* to a coordinate path.  A key of DEPTH - 1 Hangul syllables is canonical *)
(* and maps syllable by syllable; any other is read as one big-endian      *)
(* number, written in base BASE by repeated division over byte vectors,    *)
(* with its length in bytes on the last axis.  One division is one step.   *)
(***************************************************************************)
EXTENDS Naturals, Sequences

CONSTANTS
  DEPTH,      (* M: the axes of a path, the last one is the marker         *)
  BASE,       (* Coord::N_VALID, 11172                                     *)
  BYTE,       (* 256                                                       *)
  Chars,      (* characters                                                *)
  Utf8,       (* the bytes of a character                                  *)
  CoordOf,    (* Coord::from_char: a coordinate, or NO_COORD               *)
  NO_COORD,
  Keys,       (* strings of characters                                     *)
  PENDING, EMPTY, TOO_LONG

ASSUME EncodingAssumption ==
  /\ DEPTH \in Nat /\ DEPTH >= 2
  /\ BYTE \in Nat \ {0}
  /\ BASE \in Nat /\ BASE > BYTE
  /\ Utf8 \in [Chars -> Seq(0 .. BYTE - 1) \ {<<>>}]
  /\ CoordOf \in [Chars -> (0 .. BASE - 1) \cup {NO_COORD}]
  /\ NO_COORD \notin 0 .. BASE - 1
  /\ Keys \subseteq Seq(Chars)
  /\ PENDING # EMPTY /\ PENDING # TOO_LONG /\ EMPTY # TOO_LONG
  /\ {PENDING, EMPTY, TOO_LONG} \cap Seq(Nat) = {}

VARIABLES
  key,     (* the argument                                                 *)
  value,   (* what is left to divide, most significant byte first          *)
  digits,  (* per payload axis, the digit found so far                     *)
  i,       (* divisions done                                               *)
  result   (* the path, or the KeyError                                    *)

vars == <<key, value, digits, i, result>>

Payload == DEPTH - 1

Bytes(k) ==
  LET bytes[n \in 0 .. Len(k)] == IF n = 0 THEN <<>> ELSE bytes[n - 1] \o Utf8[k[n]]
  IN  bytes[Len(k)]

Canonical(k) ==
  /\ Len(k) = Payload
  /\ \A n \in 1 .. Len(k) : CoordOf[k[n]] # NO_COORD

(* Mutant: zero bytes inside the quotient are dropped too. *)
DivModSparse(v) ==
  LET done[n \in 0 .. Len(v)] ==
        IF n = 0 THEN [rem |-> 0, quot |-> <<>>]
        ELSE LET before == done[n - 1]
                 cur    == before.rem * BYTE + v[n]
                 q      == (cur \div BASE) % BYTE
             IN  [rem  |-> cur % BASE,
                  quot |-> IF q # 0 THEN Append(before.quot, q) ELSE before.quot]
      end == done[Len(v)]
  IN  [rem |-> end.rem, quot |-> IF end.quot = <<>> THEN <<0>> ELSE end.quot]

(* One byte of a long division by BASE: the quotient has no leading zeros.  *)
DivByte(before, byte) ==
  LET cur == before.rem * BYTE + byte
      q   == (cur \div BASE) % BYTE
  IN  [rem  |-> cur % BASE,
       quot |-> IF q # 0 \/ before.quot # <<>>
                THEN Append(before.quot, q) ELSE before.quot]

DivMod(v) ==
  LET done[n \in 0 .. Len(v)] ==
        IF n = 0 THEN [rem |-> 0, quot |-> <<>>] ELSE DivByte(done[n - 1], v[n])
      end == done[Len(v)]
  IN  [rem |-> end.rem, quot |-> IF end.quot = <<>> THEN <<0>> ELSE end.quot]

Init ==
  /\ key \in Keys
  /\ value = Bytes(key)
  /\ digits = [axis \in 1 .. Payload |-> 0]
  /\ i = 0
  /\ result = PENDING

Answer(r) ==
  /\ result = PENDING
  /\ result' = r
  /\ UNCHANGED <<key, value, digits, i>>

MapCanonical ==
  /\ Canonical(key)
  /\ Answer([n \in 1 .. Payload |-> CoordOf[key[n]]] \o <<0>>)

RefuseEmpty ==
  /\ ~ Canonical(key)
  /\ Bytes(key) = <<>>
  /\ Answer(EMPTY)

Divide ==
  /\ ~ Canonical(key)
  /\ Bytes(key) # <<>>
  /\ i < Payload
  /\ LET d == DivMod(value) IN
     /\ digits' = [digits EXCEPT ![Payload - i] = d.rem]
     /\ value' = d.quot
  /\ i' = i + 1
  /\ UNCHANGED <<key, result>>

AnyLeft == \E n \in 1 .. Len(value) : value[n] # 0

(* Mutant: the quotient of nothing is held to be empty. *)
RefuseTooLongNonEmpty ==
  /\ i = Payload
  /\ value # <<>> \/ Len(Bytes(key)) >= BASE
  /\ Answer(TOO_LONG)

(* What is left over, or a length that is no coordinate. *)
RefuseTooLong ==
  /\ i = Payload
  /\ AnyLeft \/ Len(Bytes(key)) >= BASE
  /\ Answer(TOO_LONG)

(* Mutant: the number of digits in place of the number of bytes. *)
FinishUnmarked ==
  /\ i = Payload
  /\ ~ AnyLeft
  /\ Len(Bytes(key)) < BASE
  /\ Answer(digits \o <<Payload>>)

Finish ==
  /\ i = Payload
  /\ ~ AnyLeft
  /\ Len(Bytes(key)) < BASE
  /\ Answer(digits \o <<Len(Bytes(key))>>)

Next == MapCanonical \/ RefuseEmpty \/ Divide \/ RefuseTooLong \/ Finish

Spec == Init /\ [][Next]_vars

(***************************************************************************)
(* Properties.                                                             *)
(***************************************************************************)
(* The number that the first n digits of s are, most significant first.     *)
Leading(s, base) ==
  LET number[n \in 0 .. Len(s)] == IF n = 0 THEN 0 ELSE number[n - 1] * base + s[n]
  IN  number

Number(s, base) == Leading(s, base)[Len(s)]

Power(base, n) ==
  LET power[m \in 0 .. n] == IF m = 0 THEN 1 ELSE power[m - 1] * base
  IN  power[n]

(* "No truncation, no padding": after any number of divisions the digits    *)
(* found and the bytes left still make up the number the key's bytes are.   *)
NothingLost ==
  Number(Bytes(key), BYTE) = Number(value, BYTE) * Power(BASE, i) + Number(digits, BASE)

(* "Structurally injective": a result is a path of coordinates and tells    *)
(* the key it was made from.  Its marker tells canonical from general; the  *)
(* digits spell the syllables or, with the length on the marker, the bytes, *)
(* leading zeros included.                                                  *)
PathDecodes ==
  result \notin {PENDING, EMPTY, TOO_LONG} =>
    LET marker == result[DEPTH]
        number == Number(SubSeq(result, 1, Payload), BASE)
    IN  /\ \A n \in 1 .. DEPTH : result[n] \in 0 .. BASE - 1
        /\ IF marker = 0
           THEN /\ Len(key) = Payload
                /\ \A n \in 1 .. Payload : CoordOf[key[n]] = result[n]
           ELSE Bytes(key) =
                  [n \in 1 .. marker |-> (number \div Power(BYTE, marker - n)) % BYTE]

(* "Keys beyond it are rejected", and no others: TooLong exactly for the    *)
(* keys whose number needs more digits than there are payload axes, or      *)
(* whose length is no coordinate.                                           *)
RefusedBeyondCapacity ==
  /\ result = TOO_LONG =>
       Number(Bytes(key), BYTE) >= Power(BASE, Payload) \/ Len(Bytes(key)) >= BASE
  /\ result \in [1 .. DEPTH -> 0 .. BASE - 1] /\ ~ Canonical(key) =>
       Number(Bytes(key), BYTE) < Power(BASE, Payload)
  /\ result = EMPTY <=> key = <<>> /\ result # PENDING
=============================================================================
