------------------------- MODULE KeyEncodingProofs -------------------------
(***************************************************************************)
(* That str_to_coordpath loses nothing, tells keys apart and refuses the   *)
(* keys beyond its capacity only, for every depth, base, character table   *)
(* and key, of any length.                                                 *)
(*                                                                         *)
(* The model computes with recursive functions over the places of a        *)
(* sequence.  What they compute is shown by induction on sets of naturals: *)
(* every one that is not empty has a least member, which the               *)
(* well-foundedness of the finite sets gives.                              *)
(***************************************************************************)
EXTENDS KeyEncoding, FiniteSetTheorems, WellFoundedInduction, TLAPS

(***************************************************************************)
(* Induction and recursion.                                                *)
(***************************************************************************)
(* A set of naturals with a member has a least one. *)
LEMMA LeastNat ==
  ASSUME NEW S \in SUBSET Nat, S # {}
  PROVE  \E n \in S : \A m \in S : n <= m
<1> DEFINE T == { 0 .. n : n \in S }
<1>1. T \subseteq FiniteSubsetsOf(Nat)
  <2> SUFFICES ASSUME NEW n \in S PROVE 0 .. n \in FiniteSubsetsOf(Nat)
    OBVIOUS
  <2>1. IsFiniteSet(0 .. n)
    BY FS_Interval
  <2> QED
    BY <2>1 DEF FiniteSubsetsOf
<1>2. PICK x \in T : \A y \in T : <<y, x>> \notin StrictSubsetOrdering(Nat)
  <2>1. T # {}
    OBVIOUS
  <2> HIDE DEF T
  <2> QED
    BY <1>1, <2>1, WFMin, FS_StrictSubsetOrderingWellFounded
<1>3. PICK n \in S : x = 0 .. n
  OBVIOUS
<1>4. ASSUME NEW m \in S, m < n PROVE FALSE
  <2>1. n \in 0 .. n /\ n \notin 0 .. m
    BY <1>4
  <2>2. 0 .. m \subseteq 0 .. n /\ 0 .. m # 0 .. n
    BY <1>4, <2>1
  <2>3. <<0 .. m, 0 .. n>> \in StrictSubsetOrdering(Nat)
    BY <2>2 DEF StrictSubsetOrdering
  <2>4. 0 .. m \in T
    OBVIOUS
  <2> QED
    BY <1>2, <1>3, <2>3, <2>4
<1> QED
  BY <1>4

(* Induction over 0 .. m, on a set. *)
LEMMA UpTo ==
  ASSUME NEW m \in Nat, NEW S,
         0 \in S, \A n \in 0 .. m - 1 : n \in S => n + 1 \in S
  PROVE  0 .. m \subseteq S
<1> DEFINE Missing == { n \in 0 .. m : n \notin S }
<1>1. SUFFICES ASSUME Missing # {} PROVE FALSE
  OBVIOUS
<1>2. PICK n \in Missing : \A k \in Missing : n <= k
  <2>1. Missing \in SUBSET Nat
    OBVIOUS
  <2> HIDE DEF Missing
  <2> QED
    BY <1>1, <2>1, LeastNat
<1>3. n # 0 /\ n - 1 \in 0 .. m - 1 /\ n - 1 \notin Missing
  BY <1>2
<1>4. n - 1 \in S
  BY <1>3
<1> QED
  BY <1>2, <1>3, <1>4

(* A function that gives each value from the one before.  Step is a         *)
(* function and not an operator, so that the lemma can be cited.            *)
Steps(m, X, x, Step)    == m \in Nat /\ x \in X /\ Step \in [1 .. m -> [X -> X]]
Solves(f, m, X, x, Step) ==
  /\ f \in [0 .. m -> X]
  /\ f[0] = x
  /\ \A n \in 1 .. m : f[n] = Step[n][f[n - 1]]

LEMMA Recursion ==
  ASSUME NEW m, NEW X, NEW x, NEW Step, Steps(m, X, x, Step)
  PROVE  \E f : Solves(f, m, X, x, Step)
<1> DEFINE S == { k \in 0 .. m : \E f : Solves(f, k, X, x, Step) }
<1>0. m \in Nat /\ x \in X /\ Step \in [1 .. m -> [X -> X]]
  BY DEF Steps
<1>1. 0 \in S
  <2>1. Solves([n \in 0 .. 0 |-> x], 0, X, x, Step)
    BY <1>0 DEF Solves
  <2>2. \E f : Solves(f, 0, X, x, Step)
    BY <2>1
  <2> QED
    BY <1>0, <2>2
<1>2. ASSUME NEW k \in 0 .. m - 1, k \in S PROVE k + 1 \in S
  <2>1. PICK f : Solves(f, k, X, x, Step)
    BY <1>2
  <2> DEFINE g == [n \in 0 .. k + 1 |-> IF n <= k THEN f[n] ELSE Step[k + 1][f[k]]]
  <2>2. k + 1 \in 1 .. m /\ f[k] \in X
    BY <1>0, <2>1 DEF Solves
  <2>3. Step[k + 1][f[k]] \in X
    BY <1>0, <2>2
  <2>4. g \in [0 .. k + 1 -> X] /\ g[0] = x
    BY <2>1, <2>3 DEF Solves
  <2>5. ASSUME NEW n \in 1 .. k + 1 PROVE g[n] = Step[n][g[n - 1]]
    <3>1. CASE n <= k
      <4>1. n \in 1 .. k /\ g[n] = f[n] /\ g[n - 1] = f[n - 1]
        BY <3>1
      <4> QED
        BY <2>1, <4>1 DEF Solves
    <3>2. CASE n = k + 1
      <4>1. g[n] = Step[k + 1][f[k]] /\ g[n - 1] = f[k]
        BY <3>2
      <4> QED
        BY <3>2, <4>1
    <3> QED
      BY <3>1, <3>2
  <2>6. Solves(g, k + 1, X, x, Step)
    BY <2>4, <2>5 DEF Solves
  <2>7. \E h : Solves(h, k + 1, X, x, Step)
    BY <2>6
  <2> QED
    BY <2>2, <2>7
<1>3. 0 .. m \subseteq S
  <2> HIDE DEF S
  <2> QED
    BY <1>0, <1>1, <1>2, UpTo
<1> QED
  BY <1>0, <1>3

LEMMA SolvedAt ==
  ASSUME NEW m \in Nat, NEW X, NEW x, NEW Step, NEW f, Solves(f, m, X, x, Step)
  PROVE  /\ \A n \in 0 .. m : f[n] \in X
         /\ \A n \in 1 .. m : f[n - 1] \in X /\ f[n] = Step[n][f[n - 1]]
         /\ f[0] = x /\ f = [n \in 0 .. m |-> f[n]]
<1>1. f \in [0 .. m -> X] /\ f[0] = x /\ \A n \in 1 .. m : f[n] = Step[n][f[n - 1]]
  BY DEF Solves
<1>2. \A n \in 1 .. m : n - 1 \in 0 .. m
  OBVIOUS
<1> QED
  BY <1>1, <1>2

(* Two functions that begin alike and go on alike are alike. *)
Alike(f, g, m) ==
  /\ f[0] = g[0]
  /\ \A n \in 1 .. m : f[n - 1] = g[n - 1] => f[n] = g[n]

LEMMA SameRecursion ==
  ASSUME NEW m \in Nat, NEW f, NEW g, Alike(f, g, m)
  PROVE  \A n \in 0 .. m : f[n] = g[n]
<1> DEFINE S == { n \in 0 .. m : f[n] = g[n] }
<1>1. 0 \in S
  BY DEF Alike
<1>2. ASSUME NEW n \in 0 .. m - 1, n \in S PROVE n + 1 \in S
  <2>1. n + 1 \in 1 .. m /\ (n + 1) - 1 = n /\ f[n] = g[n]
    BY <1>2
  <2>2. f[n + 1] = g[n + 1]
    BY <2>1 DEF Alike
  <2> QED
    BY <2>1, <2>2
<1>3. 0 .. m \subseteq S
  <2> HIDE DEF S
  <2> QED
    BY <1>1, <1>2, UpTo
<1> QED
  BY <1>3

(* A function that starts in X and never leaves it. *)
Keeps(f, m, X) ==
  /\ f = [n \in 0 .. m |-> f[n]]
  /\ f[0] \in X
  /\ \A n \in 1 .. m : f[n - 1] \in X => f[n] \in X

LEMMA StaysIn ==
  ASSUME NEW m \in Nat, NEW X, NEW f, Keeps(f, m, X)
  PROVE  f \in [0 .. m -> X]
<1> DEFINE S == { n \in 0 .. m : f[n] \in X }
<1>1. 0 \in S
  BY DEF Keeps
<1>2. ASSUME NEW n \in 0 .. m - 1, n \in S PROVE n + 1 \in S
  <2>1. n + 1 \in 1 .. m /\ (n + 1) - 1 = n /\ f[n] \in X
    BY <1>2
  <2>2. f[n + 1] \in X
    BY <2>1 DEF Keeps
  <2> QED
    BY <2>1, <2>2
<1>3. 0 .. m \subseteq S
  <2> HIDE DEF S
  <2> QED
    BY <1>1, <1>2, UpTo
<1> QED
  BY <1>3 DEF Keeps

(***************************************************************************)
(* Numbers and powers.                                                     *)
(***************************************************************************)
LEMMA Products ==
  /\ \A a, b \in Nat : a * b \in Nat
  /\ \A a, b, c \in Nat : a * b + c \in Nat
OBVIOUS

(* The numbers that ever more digits of s are. *)
LEMMA LeadingIs ==
  ASSUME NEW s \in Seq(Nat), NEW base \in Nat
  PROVE  /\ Leading(s, base) \in [0 .. Len(s) -> Nat]
         /\ Leading(s, base)[0] = 0
         /\ \A n \in 1 .. Len(s) : Leading(s, base)[n] = Leading(s, base)[n - 1] * base + s[n]
<1> DEFINE m    == Len(s)
           Step == [n \in 1 .. m |-> [number \in Nat |-> number * base + s[n]]]
           Eq(h) == h = [n \in 0 .. m |-> IF n = 0 THEN 0 ELSE h[n - 1] * base + s[n]]
<1>1. m \in Nat /\ 0 \in Nat
  OBVIOUS
<1>2. Step \in [1 .. m -> [Nat -> Nat]]
  <2> SUFFICES ASSUME NEW n \in 1 .. m, NEW number \in Nat
               PROVE  number * base + s[n] \in Nat
    OBVIOUS
  <2>1. s[n] \in Nat
    OBVIOUS
  <2> QED
    BY <2>1, Products
<1>3. PICK f : Solves(f, m, Nat, 0, Step)
  BY <1>1, <1>2, Recursion DEF Steps
<1>4. \E g : Eq(g)
  <2>1. ASSUME NEW n \in 1 .. m PROVE f[n] = f[n - 1] * base + s[n]
    <3>1. f[n] = Step[n][f[n - 1]] /\ f[n - 1] \in Nat
      <4> HIDE DEF Step, m
      <4> QED
        BY <1>1, <1>3, SolvedAt
    <3> QED
      BY <3>1
  <2>2. f = [n \in 0 .. m |-> f[n]] /\ f[0] = 0
    <3> HIDE DEF Step, m
    <3> QED
      BY <1>1, <1>3, SolvedAt
  <2>3. \A n \in 0 .. m : f[n] = IF n = 0 THEN 0 ELSE f[n - 1] * base + s[n]
    BY <1>1, <2>1, <2>2
  <2>4. Eq(f)
    <3> HIDE DEF m
    <3> QED
      BY <2>2, <2>3
  <2> QED
    BY <2>4
<1> DEFINE L == Leading(s, base)
<1>5. L = CHOOSE h : Eq(h)
  BY DEF Leading
<1>6. Eq(L)
  <2> HIDE DEF Eq, L
  <2> QED
    BY <1>4, <1>5
<1> HIDE DEF L
<1>7. L[0] = 0 /\ \A n \in 1 .. m : L[n] = L[n - 1] * base + s[n]
  BY <1>1, <1>6
<1>8. DOMAIN L = 0 .. m /\ L = [n \in 0 .. m |-> L[n]]
  BY <1>6
<1>9. Keeps(L, m, Nat)
  <2>1. ASSUME NEW n \in 1 .. m, L[n - 1] \in Nat PROVE L[n] \in Nat
    <3>1. s[n] \in Nat /\ L[n] = L[n - 1] * base + s[n]
      BY <1>7
    <3> QED
      BY <2>1, <3>1, Products
  <2>2. L[0] \in Nat
    BY <1>7
  <2>3. L = [n \in 0 .. m |-> L[n]]
    BY <1>8
  <2> HIDE DEF m, Step, Eq
  <2> QED
    BY <2>1, <2>2, <2>3, Zenon DEF Keeps
<1>10. L \in [0 .. m -> Nat]
  BY <1>1, <1>9, StaysIn
<1> QED
  BY <1>7, <1>10 DEF L

(* The powers up to the n-th. *)
Powers(base, n) ==
  CHOOSE power : power = [m \in 0 .. n |-> IF m = 0 THEN 1 ELSE power[m - 1] * base]

LEMMA PowersAre ==
  ASSUME NEW base \in Nat, NEW n \in Nat
  PROVE  /\ Powers(base, n) \in [0 .. n -> Nat]
         /\ Powers(base, n)[0] = 1
         /\ \A m \in 1 .. n : Powers(base, n)[m] = Powers(base, n)[m - 1] * base
<1> DEFINE Step == [m \in 1 .. n |-> [number \in Nat |-> number * base]]
           Eq(h) == h = [m \in 0 .. n |-> IF m = 0 THEN 1 ELSE h[m - 1] * base]
<1>1. Step \in [1 .. n -> [Nat -> Nat]]
  BY Products
<1>2. PICK f : Solves(f, n, Nat, 1, Step)
  BY <1>1, Recursion DEF Steps
<1>3. \E g : Eq(g)
  <2>1. ASSUME NEW m \in 1 .. n PROVE f[m] = f[m - 1] * base
    <3>1. f[m] = Step[m][f[m - 1]] /\ f[m - 1] \in Nat
      <4> HIDE DEF Step
      <4> QED
        BY <1>2, SolvedAt
    <3> QED
      BY <3>1
  <2>2. f = [m \in 0 .. n |-> f[m]] /\ f[0] = 1
    <3> HIDE DEF Step
    <3> QED
      BY <1>2, SolvedAt
  <2>3. \A m \in 0 .. n : f[m] = IF m = 0 THEN 1 ELSE f[m - 1] * base
    <3> HIDE DEF Step
    <3> TAKE m \in 0 .. n
    <3>1. m # 0 => m \in 1 .. n
      OBVIOUS
    <3> QED
      BY <2>1, <2>2, <3>1
  <2>4. Eq(f)
    BY <2>2, <2>3
  <2> QED
    BY <2>4
<1> DEFINE P == Powers(base, n)
<1>4. P = CHOOSE h : Eq(h)
  BY DEF Powers
<1>5. Eq(P)
  <2> HIDE DEF Eq, P
  <2> QED
    BY <1>3, <1>4
<1> HIDE DEF P
<1>6. P[0] = 1 /\ P = [m \in 0 .. n |-> P[m]] /\ \A m \in 1 .. n : P[m] = P[m - 1] * base
  BY <1>5
<1>7. Keeps(P, n, Nat)
  BY <1>6, Products DEF Keeps
<1>8. P \in [0 .. n -> Nat]
  BY <1>7, StaysIn
<1> QED
  BY <1>6, <1>8 DEF P

LEMMA PowerIs ==
  ASSUME NEW base \in Nat
  PROVE  /\ Power(base, 0) = 1
         /\ \A n \in Nat : /\ Power(base, n) \in Nat
                           /\ Power(base, n + 1) = Power(base, n) * base
<1>1. \A n \in Nat : Power(base, n) = Powers(base, n)[n]
  BY DEF Power, Powers
<1>2. Power(base, 0) = 1
  BY <1>1, PowersAre
<1>3. ASSUME NEW n \in Nat
      PROVE  Power(base, n) \in Nat /\ Power(base, n + 1) = Power(base, n) * base
  <2> DEFINE P == Powers(base, n)
             Q == Powers(base, n + 1)
  <2>1. /\ P \in [0 .. n -> Nat] /\ P[0] = 1 /\ \A m \in 1 .. n : P[m] = P[m - 1] * base
    BY PowersAre
  <2>2. /\ Q \in [0 .. n + 1 -> Nat] /\ Q[0] = 1
        /\ \A m \in 1 .. n + 1 : Q[m] = Q[m - 1] * base
    BY PowersAre
  <2> HIDE DEF P, Q
  <2>3. Alike(Q, P, n)
    BY <2>1, <2>2 DEF Alike
  <2>4. Q[n] = P[n]
    <3>1. \A m \in 0 .. n : Q[m] = P[m]
      BY <2>3, SameRecursion
    <3> QED
      BY <3>1
  <2>5. Q[n + 1] = Q[n] * base
    <3>1. n + 1 \in 1 .. n + 1 /\ (n + 1) - 1 = n
      OBVIOUS
    <3> QED
      BY <2>2, <3>1
  <2>6. Power(base, n) = P[n] /\ Power(base, n + 1) = Q[n + 1]
    BY <1>1 DEF P, Q
  <2> QED
    BY <2>1, <2>4, <2>5, <2>6
<1> QED
  BY <1>2, <1>3
LEMMA Distributes ==
  /\ \A a, b, c \in Nat : (a + b) * c = a * c + b * c
  /\ \A a, b, c \in Nat : (a * b) * c = a * (b * c) /\ a * b = b * a
OBVIOUS

LEMMA Grows ==
  \A a, b, c \in Nat : a <= b => a * c <= b * c
OBVIOUS

(* What \div and % by any divisor are, and that nothing else is. *)
LEMMA DivisionIs ==
  ASSUME NEW x \in Nat, NEW p \in Nat \ {0}
  PROVE  /\ x \div p \in Nat /\ x % p \in 0 .. p - 1
         /\ x = (x \div p) * p + (x % p)
OBVIOUS

Divided(x, p, q, r) ==
  /\ x \in Nat /\ p \in Nat \ {0} /\ q \in Nat /\ r \in 0 .. p - 1
  /\ x = q * p + r

LEMMA Quotient ==
  ASSUME NEW x, NEW p, NEW q, NEW r, Divided(x, p, q, r)
  PROVE  x \div p = q /\ x % p = r
<1> DEFINE d == x \div p
           m == x % p
<1>0. /\ x \in Nat /\ p \in Nat \ {0} /\ q \in Nat /\ r \in 0 .. p - 1
      /\ x = q * p + r
  BY DEF Divided
<1>1. d \in Nat /\ m \in 0 .. p - 1 /\ x = d * p + m
  BY <1>0, DivisionIs
<1> HIDE DEF d, m
<1>2. CASE d >= q + 1
  <2>1. (q + 1) * p <= d * p /\ (q + 1) * p = q * p + p
    BY <1>0, <1>1, <1>2, Grows, Distributes
  <2>2. d * p \in Nat /\ q * p \in Nat
    BY <1>0, <1>1
  <2> QED
    BY <1>0, <1>1, <2>1, <2>2
<1>3. CASE d + 1 <= q
  <2>1. (d + 1) * p <= q * p /\ (d + 1) * p = d * p + p
    BY <1>0, <1>1, <1>3, Grows, Distributes
  <2>2. d * p \in Nat /\ q * p \in Nat
    BY <1>0, <1>1
  <2> QED
    BY <1>0, <1>1, <2>1, <2>2
<1>4. d = q
  BY <1>0, <1>1, <1>2, <1>3
<1>5. m = r
  <2>1. q * p \in Nat
    BY <1>0
  <2> QED
    BY <1>0, <1>1, <1>4, <2>1
<1> QED
  BY <1>4, <1>5 DEF d, m

(***************************************************************************)
(* Sequences as numbers.                                                   *)
(***************************************************************************)
(* Sequences that begin alike begin with the same numbers. *)
Agree(s, t, m) == m <= Len(s) /\ m <= Len(t) /\ \A n \in 1 .. m : s[n] = t[n]

LEMMA SameStart ==
  ASSUME NEW s \in Seq(Nat), NEW t \in Seq(Nat), NEW base \in Nat, NEW m \in Nat,
         Agree(s, t, m)
  PROVE  Leading(s, base)[m] = Leading(t, base)[m]
<1> DEFINE A == Leading(s, base)
           B == Leading(t, base)
<1>1. A[0] = 0 /\ \A n \in 1 .. Len(s) : A[n] = A[n - 1] * base + s[n]
  BY LeadingIs
<1>2. B[0] = 0 /\ \A n \in 1 .. Len(t) : B[n] = B[n - 1] * base + t[n]
  BY LeadingIs
<1>3. Len(s) \in Nat /\ Len(t) \in Nat
  OBVIOUS
<1> HIDE DEF A, B
<1>4. Alike(A, B, m)
  <2>1. ASSUME NEW n \in 1 .. m, A[n - 1] = B[n - 1] PROVE A[n] = B[n]
    <3>1. n \in 1 .. Len(s) /\ n \in 1 .. Len(t) /\ s[n] = t[n]
      BY <1>3 DEF Agree
    <3> QED
      BY <1>1, <1>2, <2>1, <3>1
  <2> QED
    BY <1>1, <1>2, <2>1 DEF Alike
<1>5. \A n \in 0 .. m : A[n] = B[n]
  BY <1>4, SameRecursion
<1> QED
  BY <1>5 DEF A, B

(* One digit more. *)
LEMMA NumberAppend ==
  ASSUME NEW s \in Seq(Nat), NEW d \in Nat, NEW base \in Nat
  PROVE  /\ Number(s, base) \in Nat
         /\ Number(Append(s, d), base) = Number(s, base) * base + d
<1> DEFINE t == Append(s, d)
           m == Len(s)
           A == Leading(s, base)
           B == Leading(t, base)
<1>1. /\ t \in Seq(Nat) /\ m \in Nat /\ Len(t) = m + 1 /\ t[m + 1] = d
      /\ \A n \in 1 .. m : s[n] = t[n]
  OBVIOUS
<1>2. A[m] = B[m]
  <2>1. Agree(s, t, m)
    BY <1>1 DEF Agree
  <2> HIDE DEF t, m
  <2> QED
    BY <1>1, <2>1, SameStart
<1>3. B[m + 1] = B[(m + 1) - 1] * base + t[m + 1]
  <2>1. \A n \in 1 .. Len(t) : B[n] = B[n - 1] * base + t[n]
    BY <1>1, LeadingIs
  <2> HIDE DEF B, t
  <2> QED
    BY <1>1, <2>1
<1>4. A[m] \in Nat
  BY <1>1, LeadingIs
<1>5. Number(s, base) = A[m] /\ Number(t, base) = B[m + 1]
  BY <1>1 DEF Number
<1> HIDE DEF A, B, t, m
<1>6. (m + 1) - 1 = m
  BY <1>1
<1> QED
  BY <1>1, <1>2, <1>3, <1>4, <1>5, <1>6 DEF t

(* n digits of base say less than the n-th power. *)
LEMMA BelowPower ==
  ASSUME NEW base \in Nat \ {0}, NEW s \in Seq(0 .. base - 1), NEW m \in 0 .. Len(s)
  PROVE  Leading(s, base)[m] < Power(base, m)
<1> DEFINE A == Leading(s, base)
           S == { n \in 0 .. Len(s) : A[n] < Power(base, n) }
<1>1. s \in Seq(Nat) /\ Len(s) \in Nat
  OBVIOUS
<1>2. /\ A \in [0 .. Len(s) -> Nat] /\ A[0] = 0
      /\ \A n \in 1 .. Len(s) : A[n] = A[n - 1] * base + s[n]
  BY <1>1, LeadingIs
<1>3. Power(base, 0) = 1
  BY PowerIs
<1> HIDE DEF A
<1>4. 0 \in S
  BY <1>1, <1>2, <1>3
<1>5. ASSUME NEW n \in 0 .. Len(s) - 1, n \in S PROVE n + 1 \in S
  <2>1. n \in Nat /\ n + 1 \in 1 .. Len(s) /\ (n + 1) - 1 = n
    BY <1>1
  <2>2. A[n + 1] = A[n] * base + s[n + 1]
    BY <1>2, <2>1
  <2>3. s[n + 1] \in 0 .. base - 1
    BY <2>1
  <2>4. A[n] \in Nat /\ Power(base, n) \in Nat /\ A[n] + 1 <= Power(base, n)
    <3>1. Power(base, n) \in Nat
      BY <2>1, PowerIs
    <3>2. A[n] < Power(base, n) /\ A[n] \in Nat
      BY <1>2, <1>5
    <3> QED
      BY <3>1, <3>2
  <2>5. (A[n] + 1) * base <= Power(base, n) * base /\ (A[n] + 1) * base = A[n] * base + base
    <3>1. A[n] + 1 \in Nat /\ 1 * base = base
      BY <2>4
    <3>2. (A[n] + 1) * base = A[n] * base + 1 * base
      BY <2>4, Distributes
    <3> QED
      BY <2>4, <3>1, <3>2, Grows
  <2>6. Power(base, n + 1) = Power(base, n) * base
    BY <2>1, PowerIs
  <2>7. A[n] * base \in Nat /\ Power(base, n) * base \in Nat
    BY <2>4
  <2>8. A[n + 1] < Power(base, n + 1)
    BY <2>2, <2>3, <2>5, <2>6, <2>7
  <2> QED
    BY <2>1, <2>8
<1>6. 0 .. Len(s) \subseteq S
  <2> HIDE DEF S
  <2> QED
    BY <1>1, <1>4, <1>5, UpTo
<1> QED
  BY <1>6 DEF A
(* A sequence of zeros is zero, and no other is. *)
LEMMA NumberZero ==
  ASSUME NEW base \in Nat \ {0}, NEW s \in Seq(Nat)
  PROVE  Number(s, base) = 0 <=> \A n \in 1 .. Len(s) : s[n] = 0
<1> DEFINE A == Leading(s, base)
           m == Len(s)
           S == { n \in 0 .. m : A[n] = 0 <=> \A k \in 1 .. n : s[k] = 0 }
<1>1. m \in Nat /\ \A n \in 1 .. m : s[n] \in Nat
  OBVIOUS
<1>2. /\ A \in [0 .. m -> Nat] /\ A[0] = 0
      /\ \A n \in 1 .. m : A[n] = A[n - 1] * base + s[n]
  BY LeadingIs
<1>3. Number(s, base) = A[m]
  BY DEF Number
<1> HIDE DEF A, m
<1>4. 0 \in S
  BY <1>1, <1>2
<1>5. ASSUME NEW n \in 0 .. m - 1, n \in S PROVE n + 1 \in S
  <2>1. n \in 0 .. m /\ n + 1 \in 1 .. m /\ (n + 1) - 1 = n
    BY <1>1
  <2>2. A[n + 1] = A[n] * base + s[n + 1] /\ A[n] \in Nat /\ s[n + 1] \in Nat
    BY <1>1, <1>2, <2>1
  <2>3. A[n + 1] = 0 <=> A[n] = 0 /\ s[n + 1] = 0
    <3>1. A[n] # 0 => 1 * base <= A[n] * base
      <4>1. base \in Nat /\ 1 \in Nat /\ (A[n] # 0 => 1 <= A[n])
        BY <2>2
      <4> QED
        BY <2>2, <4>1, Grows
    <3>2. A[n] * base \in Nat /\ 1 * base = base
      BY <2>2
    <3>3. A[n] = 0 => A[n] * base = 0
      OBVIOUS
    <3> QED
      BY <2>2, <3>1, <3>2, <3>3
  <2>4. (\A k \in 1 .. n + 1 : s[k] = 0) <=> (\A k \in 1 .. n : s[k] = 0) /\ s[n + 1] = 0
    <3>1. 1 .. n + 1 = (1 .. n) \cup {n + 1}
      BY <2>1
    <3> QED
      BY <3>1
  <2>5. n + 1 \in 0 .. m
    BY <2>1
  <2> QED
    BY <1>5, <2>3, <2>4, <2>5
<1>6. 0 .. m \subseteq S
  <2> HIDE DEF S
  <2> QED
    BY <1>1, <1>4, <1>5, UpTo
<1>7. m \in S
  BY <1>1, <1>6
<1> QED
  BY <1>3, <1>7 DEF m

(* A function on 1 .. n is a sequence. *)
LEMMA AsSequence ==
  ASSUME NEW n \in Nat, NEW X, NEW f \in [1 .. n -> X]
  PROVE  f \in Seq(X) /\ Len(f) = n
OBVIOUS

(***************************************************************************)
(* The bytes of a key.                                                     *)
(***************************************************************************)
AByte == 0 .. BYTE - 1

LEMMA AsNumbers ==
  /\ \A s \in Seq(AByte) : s \in Seq(Nat)
  /\ \A b \in AByte : b \in Nat
<1>1. AByte \subseteq Nat
  BY EncodingAssumption DEF AByte
<1>2. ASSUME NEW s \in Seq(AByte) PROVE s \in Seq(Nat)
  <2>1. Len(s) \in Nat /\ s \in [1 .. Len(s) -> AByte]
    OBVIOUS
  <2>2. s \in [1 .. Len(s) -> Nat]
    BY <1>1, <2>1
  <2> QED
    BY <2>1, <2>2, AsSequence
<1> QED
  BY <1>1, <1>2

LEMMA BytesAre ==
  ASSUME NEW k \in Keys
  PROVE  /\ Bytes(k) \in Seq(AByte)
         /\ Bytes(k) = <<>> <=> k = <<>>
<1> DEFINE m    == Len(k)
           X    == Seq(AByte)
           Step == [n \in 1 .. m |-> [bytes \in X |-> bytes \o Utf8[k[n]]]]
           Eq(h) == h = [n \in 0 .. m |-> IF n = 0 THEN <<>> ELSE h[n - 1] \o Utf8[k[n]]]
           B    == CHOOSE h : Eq(h)
<1>1. k \in Seq(Chars) /\ m \in Nat /\ <<>> \in X
  BY EncodingAssumption
<1>2. \A n \in 1 .. m : Utf8[k[n]] \in X /\ Utf8[k[n]] # <<>>
  <2> SUFFICES ASSUME NEW n \in 1 .. m PROVE Utf8[k[n]] \in X /\ Utf8[k[n]] # <<>>
    OBVIOUS
  <2>1. k[n] \in Chars
    BY <1>1
  <2> QED
    BY <2>1, EncodingAssumption DEF AByte
<1>3. Step \in [1 .. m -> [X -> X]]
  BY <1>2
<1>4. PICK f : Solves(f, m, X, <<>>, Step)
  <2> HIDE DEF Step, X, m
  <2> QED
    BY <1>1, <1>3, Recursion DEF Steps
<1>5. \E g : Eq(g)
  <2>1. ASSUME NEW n \in 1 .. m PROVE f[n] = f[n - 1] \o Utf8[k[n]]
    <3>1. f[n] = Step[n][f[n - 1]] /\ f[n - 1] \in X
      <4> HIDE DEF Step, m, X
      <4> QED
        BY <1>1, <1>4, SolvedAt
    <3> QED
      BY <3>1
  <2>2. f = [n \in 0 .. m |-> f[n]] /\ f[0] = <<>>
    <3> HIDE DEF Step, m, X
    <3> QED
      BY <1>1, <1>4, SolvedAt
  <2> HIDE DEF m, X, Step
  <2>3. \A n \in 0 .. m : f[n] = IF n = 0 THEN <<>> ELSE f[n - 1] \o Utf8[k[n]]
    <3> TAKE n \in 0 .. m
    <3>1. n # 0 => n \in 1 .. m
      BY <1>1
    <3> QED
      BY <2>1, <2>2, <3>1
  <2>4. Eq(f)
    BY <2>2, <2>3
  <2> QED
    BY <2>4
<1>6. Eq(B)
  <2> HIDE DEF Eq
  <2> QED
    BY <1>5
<1>7. Bytes(k) = B[m]
  BY DEF Bytes
<1> HIDE DEF B, m, X, Step
<1>8. B[0] = <<>> /\ \A n \in 1 .. m : B[n] = B[n - 1] \o Utf8[k[n]]
  BY <1>1, <1>6
<1>9. Keeps(B, m, X)
  <2>1. ASSUME NEW n \in 1 .. m, B[n - 1] \in X PROVE B[n] \in X
    <3>1. B[n] = B[n - 1] \o Utf8[k[n]] /\ Utf8[k[n]] \in X
      BY <1>2, <1>8
    <3>2. B[n - 1] \in X
      BY <2>1
    <3> QED
      BY <3>1, <3>2 DEF X
  <2>2. DOMAIN B = 0 .. m /\ B = [n \in 0 .. m |-> B[n]]
    BY <1>6
  <2>3. B[0] \in X
    BY <1>1, <1>8
  <2> QED
    BY <2>1, <2>2, <2>3, Zenon DEF Keeps
<1>10. B \in [0 .. m -> X]
  BY <1>1, <1>9, StaysIn
<1>11. Bytes(k) \in X
  BY <1>1, <1>7, <1>10
<1>12. ASSUME m # 0 PROVE Bytes(k) # <<>>
  <2>1. m \in 1 .. m /\ m - 1 \in 0 .. m
    BY <1>1, <1>12
  <2>2. B[m] = B[m - 1] \o Utf8[k[m]] /\ B[m - 1] \in X
    BY <1>8, <1>10, <2>1
  <2>3. Utf8[k[m]] \in X /\ Utf8[k[m]] # <<>>
    BY <1>2, <2>1
  <2> QED
    BY <1>7, <2>2, <2>3 DEF X
<1>13. m = 0 => Bytes(k) = <<>>
  BY <1>7, <1>8
<1>14. m = 0 <=> k = <<>>
  BY <1>1 DEF m
<1> QED
  BY <1>11, <1>12, <1>13, <1>14 DEF X
(***************************************************************************)
(* The long division.                                                      *)
(***************************************************************************)
(* A quotient and a remainder, and the number they were made from. *)
Division == [rem : 0 .. BASE - 1, quot : Seq(AByte)]
Worth(d) == Number(d.quot, BYTE) * BASE + d.rem

(* No byte of the quotient is cut by the % BYTE, and a byte that is left    *)
(* out is a leading zero.                                                   *)
LEMMA DivByteIs ==
  ASSUME NEW before \in Division, NEW byte \in AByte
  PROVE  /\ DivByte(before, byte) \in Division
         /\ Worth(DivByte(before, byte)) = Worth(before) * BYTE + byte
         /\ Worth(before) \in Nat
<1> DEFINE rem  == before.rem
           quot == before.quot
           cur  == rem * BYTE + byte
           q    == cur \div BASE
           r    == cur % BASE
           N    == Number(quot, BYTE)
<1>0. BYTE \in Nat \ {0} /\ BASE \in Nat \ {0}
  BY EncodingAssumption
<1>1. rem \in 0 .. BASE - 1 /\ quot \in Seq(AByte) /\ byte \in 0 .. BYTE - 1
  BY DEF Division, AByte
<1>2. cur \in Nat /\ cur < BASE * BYTE
  <2>1. rem \in Nat /\ byte \in Nat /\ rem + 1 \in Nat /\ rem + 1 <= BASE
    BY <1>0, <1>1
  <2>2. (rem + 1) * BYTE <= BASE * BYTE
    BY <1>0, <2>1, Grows
  <2>3. (rem + 1) * BYTE = rem * BYTE + 1 * BYTE /\ 1 * BYTE = BYTE
    BY <1>0, <2>1, Distributes
  <2>4. rem * BYTE \in Nat /\ BASE * BYTE \in Nat
    BY <1>0, <2>1
  <2> HIDE DEF rem
  <2> QED
    BY <1>0, <1>1, <2>1, <2>2, <2>3, <2>4
<1>3. q \in Nat /\ r \in 0 .. BASE - 1 /\ cur = q * BASE + r
  <2> HIDE DEF cur
  <2> QED
    BY <1>0, <1>2, DivisionIs
<1>4. q \in AByte
  <2> HIDE DEF q, r, cur
  <2>1. SUFFICES ASSUME BYTE <= q PROVE FALSE
    BY <1>0, <1>3 DEF AByte
  <2>2. BYTE * BASE <= q * BASE /\ BYTE * BASE = BASE * BYTE
    BY <1>0, <1>3, <2>1, Grows, Distributes
  <2>3. q * BASE \in Nat /\ BASE * BYTE \in Nat
    BY <1>0, <1>3
  <2> QED
    BY <1>2, <1>3, <2>2, <2>3
<1>5. q % BYTE = q
  <2> HIDE DEF q
  <2>1. Divided(q, BYTE, 0, q)
    BY <1>0, <1>4 DEF Divided, AByte
  <2> QED
    BY <2>1, Quotient
<1>6. DivByte(before, byte) =
        [rem |-> r, quot |-> IF q # 0 \/ quot # <<>> THEN Append(quot, q) ELSE quot]
  BY <1>5 DEF DivByte
<1>7. N \in Nat /\ Worth(before) = N * BASE + rem
  <2>1. quot \in Seq(Nat)
    BY <1>1, AsNumbers
  <2> HIDE DEF quot
  <2>2. Number(quot, BYTE) \in Nat
    BY <1>0, <2>1, NumberAppend
  <2> QED
    BY <2>2 DEF Worth, quot
<1> HIDE DEF rem, quot, cur, q, r
<1>8. N * BYTE + q \in Nat /\ (N * BYTE + q) * BASE + r = (N * BASE + rem) * BYTE + byte
  <2>1. /\ N \in Nat /\ q \in Nat /\ r \in Nat /\ rem \in Nat /\ byte \in Nat
        /\ N * BYTE \in Nat /\ N * BASE \in Nat
    <3>1. N \in Nat /\ q \in Nat /\ r \in Nat /\ rem \in Nat /\ byte \in Nat
      BY <1>0, <1>1, <1>3, <1>7
    <3> QED
      BY <1>0, <3>1, Products
  <2>2. (N * BYTE + q) * BASE = (N * BYTE) * BASE + q * BASE
    BY <1>0, <2>1, Distributes
  <2>3. (N * BASE + rem) * BYTE = (N * BASE) * BYTE + rem * BYTE
    BY <1>0, <2>1, Distributes
  <2>4. (N * BYTE) * BASE = (N * BASE) * BYTE
    <3>1. (N * BYTE) * BASE = N * (BYTE * BASE) /\ (N * BASE) * BYTE = N * (BASE * BYTE)
      BY <1>0, <1>7, Distributes
    <3>2. BYTE * BASE = BASE * BYTE
      BY <1>0
    <3> QED
      BY <3>1, <3>2
  <2>5. /\ (N * BASE) * BYTE \in Nat /\ q * BASE \in Nat /\ rem * BYTE \in Nat
        /\ N * BYTE + q \in Nat
    BY <1>0, <2>1, Products
  <2>6. q * BASE + r = rem * BYTE + byte
    BY <1>3 DEF cur
  <2> HIDE DEF N
  <2> QED
    BY <2>1, <2>2, <2>3, <2>4, <2>5, <2>6
<1> DEFINE after == DivByte(before, byte)
<1>9. CASE q # 0 \/ quot # <<>>
  <2>1. after = [rem |-> r, quot |-> Append(quot, q)]
    BY <1>6, <1>9
  <2>2. quot \in Seq(Nat) /\ q \in Nat /\ Append(quot, q) \in Seq(AByte)
    BY <1>1, <1>4, AsNumbers
  <2>3. Number(Append(quot, q), BYTE) = N * BYTE + q
    BY <1>0, <2>2, NumberAppend
  <2>4. after \in Division /\ Worth(after) = (N * BYTE + q) * BASE + r
    BY <1>3, <2>1, <2>2, <2>3 DEF Division, Worth
  <2>5. Worth(before) \in Nat
    BY <1>0, <1>1, <1>7, Products
  <2> QED
    BY <1>7, <1>8, <2>4, <2>5
<1>10. CASE ~ (q # 0 \/ quot # <<>>)
  <2>1. after = [rem |-> r, quot |-> <<>>] /\ quot = <<>> /\ q = 0
    BY <1>6, <1>10
  <2>2. <<>> \in Seq(Nat) /\ Len(<<>>) = 0 /\ <<>> \in Seq(AByte)
    OBVIOUS
  <2>3. Number(<<>>, BYTE) = 0
    <3>1. \A n \in 1 .. Len(<<>>) : <<>>[n] = 0
      OBVIOUS
    <3> QED
      BY <1>0, <2>2, <3>1, NumberZero
  <2>4. N = 0
    BY <2>1, <2>3
  <2>5. after \in Division /\ Worth(after) = 0 * BASE + r
    BY <1>3, <2>1, <2>2, <2>3 DEF Division, Worth
  <2>6. N * BYTE + q = 0
    BY <1>0, <2>1, <2>4
  <2>7. Worth(before) \in Nat
    BY <1>0, <1>1, <1>7, Products
  <2> QED
    BY <1>7, <1>8, <2>5, <2>6, <2>7
<1> QED
  BY <1>9, <1>10

LEMMA DivModIs ==
  ASSUME NEW v \in Seq(AByte)
  PROVE  DivMod(v) \in Division /\ Number(v, BYTE) = Worth(DivMod(v))
<1> DEFINE m    == Len(v)
           zero == [rem |-> 0, quot |-> <<>>]
           Step == [n \in 1 .. m |-> [d \in Division |-> DivByte(d, v[n])]]
           Eq(h) == h = [n \in 0 .. m |-> IF n = 0 THEN zero ELSE DivByte(h[n - 1], v[n])]
           D    == CHOOSE h : Eq(h)
           A    == Leading(v, BYTE)
<1>0. BYTE \in Nat \ {0} /\ BASE \in Nat \ {0}
  BY EncodingAssumption
<1>1. m \in Nat /\ zero \in Division /\ v \in Seq(Nat) /\ \A n \in 1 .. m : v[n] \in AByte
  BY <1>0 DEF Division, AByte
<1>2. Step \in [1 .. m -> [Division -> Division]]
  BY <1>1, DivByteIs
<1>3. PICK f : Solves(f, m, Division, zero, Step)
  <2> HIDE DEF Step, m, zero
  <2> QED
    BY <1>1, <1>2, Recursion DEF Steps
<1>4. \E g : Eq(g)
  <2>1. ASSUME NEW n \in 1 .. m PROVE f[n] = DivByte(f[n - 1], v[n])
    <3>1. f[n] = Step[n][f[n - 1]] /\ f[n - 1] \in Division
      <4> HIDE DEF Step, m, zero
      <4> QED
        BY <1>1, <1>3, SolvedAt
    <3> QED
      BY <3>1
  <2>2. f = [n \in 0 .. m |-> f[n]] /\ f[0] = zero
    <3> HIDE DEF Step, m, zero
    <3> QED
      BY <1>1, <1>3, SolvedAt
  <2> HIDE DEF m, zero, Step
  <2>3. \A n \in 0 .. m : f[n] = IF n = 0 THEN zero ELSE DivByte(f[n - 1], v[n])
    <3> TAKE n \in 0 .. m
    <3>1. n # 0 => n \in 1 .. m
      BY <1>1
    <3> QED
      BY <2>1, <2>2, <3>1
  <2>4. Eq(f)
    BY <2>2, <2>3
  <2> QED
    BY <2>4
<1>5. Eq(D)
  <2> HIDE DEF Eq
  <2> QED
    BY <1>4
<1>6. DivMod(v) = [rem  |-> D[m].rem,
                   quot |-> IF D[m].quot = <<>> THEN <<0>> ELSE D[m].quot]
  BY DEF DivMod
<1> HIDE DEF D, m, Step
<1>7. D[0] = zero /\ \A n \in 1 .. m : D[n] = DivByte(D[n - 1], v[n])
  BY <1>1, <1>5
<1>8. A[0] = 0 /\ (\A n \in 1 .. m : A[n] = A[n - 1] * BYTE + v[n]) /\ Number(v, BYTE) = A[m]
  BY <1>0, <1>1, LeadingIs DEF Number, m
<1> DEFINE S == { n \in 0 .. m : D[n] \in Division /\ A[n] = Worth(D[n]) }
<1>9. Number(<<>>, BYTE) = 0 /\ Number(<<0>>, BYTE) = 0
  <2>1. <<>> \in Seq(Nat) /\ \A n \in 1 .. Len(<<>>) : <<>>[n] = 0
    OBVIOUS
  <2>2. <<0>> \in Seq(Nat) /\ \A n \in 1 .. Len(<<0>>) : <<0>>[n] = 0
    OBVIOUS
  <2> QED
    BY <1>0, <2>1, <2>2, NumberZero
<1>10. 0 \in S
  BY <1>0, <1>1, <1>7, <1>8, <1>9 DEF Worth
<1> HIDE DEF A
<1>11. ASSUME NEW n \in 0 .. m - 1, n \in S PROVE n + 1 \in S
  <2>1. n + 1 \in 0 .. m /\ n + 1 \in 1 .. m /\ (n + 1) - 1 = n
    BY <1>1
  <2>2. v[n + 1] \in AByte /\ D[n] \in Division /\ A[n] = Worth(D[n])
    BY <1>1, <1>11, <2>1
  <2>3. D[n + 1] = DivByte(D[n], v[n + 1]) /\ A[n + 1] = A[n] * BYTE + v[n + 1]
    BY <1>7, <1>8, <2>1
  <2>4. D[n + 1] \in Division /\ A[n + 1] = Worth(D[n + 1])
    BY <2>2, <2>3, DivByteIs
  <2> QED
    BY <2>1, <2>4
<1>12. m \in S
  <2> HIDE DEF S
  <2>1. 0 .. m \subseteq S
    BY <1>1, <1>10, <1>11, UpTo
  <2> QED
    BY <1>1, <2>1
<1>13. D[m] \in Division /\ Number(v, BYTE) = Worth(D[m])
  BY <1>8, <1>12
<1>14. <<0>> \in Seq(AByte)
  BY <1>0 DEF AByte
<1>15. DivMod(v) \in Division
  BY <1>6, <1>13, <1>14 DEF Division
<1>16. Worth(DivMod(v)) = Worth(D[m])
  <2>1. DivMod(v).rem = D[m].rem
    BY <1>6
  <2>2. Number(DivMod(v).quot, BYTE) = Number(D[m].quot, BYTE)
    BY <1>6, <1>9
  <2> QED
    BY <2>1, <2>2 DEF Worth
<1> QED
  BY <1>13, <1>15, <1>16
(***************************************************************************)
(* One digit of a number, written and read.                                *)
(***************************************************************************)
(* A digit that was zero and becomes r adds r times the worth of its place. *)
Rewritten(d, e, p, m, r) ==
  /\ d \in [1 .. p -> Nat] /\ e \in [1 .. p -> Nat]
  /\ m \in 1 .. p /\ d[m] = 0 /\ e[m] = r
  /\ \A n \in 1 .. p : n # m => e[n] = d[n]

LEMMA DigitSet ==
  ASSUME NEW base \in Nat, NEW p \in Nat, NEW d, NEW e, NEW m, NEW r \in Nat,
         Rewritten(d, e, p, m, r)
  PROVE  Number(e, base) = r * Power(base, p - m) + Number(d, base)
<1> DEFINE A == Leading(d, base)
           B == Leading(e, base)
           S == { n \in 0 .. p : B[n] = IF n < m THEN A[n] ELSE r * Power(base, n - m) + A[n] }
<1>0. d \in [1 .. p -> Nat] /\ m \in 1 .. p /\ d[m] = 0
  BY DEF Rewritten
<1>1. e \in [1 .. p -> Nat] /\ e[m] = r /\ \A n \in 1 .. p : n # m => e[n] = d[n]
  BY DEF Rewritten
<1>2. d \in Seq(Nat) /\ Len(d) = p /\ e \in Seq(Nat) /\ Len(e) = p
  BY <1>0, <1>1, AsSequence
<1>3. A \in [0 .. p -> Nat] /\ A[0] = 0 /\ \A n \in 1 .. p : A[n] = A[n - 1] * base + d[n]
  BY <1>2, LeadingIs
<1>4. B[0] = 0 /\ \A n \in 1 .. p : B[n] = B[n - 1] * base + e[n]
  BY <1>2, LeadingIs
<1>5. Number(d, base) = A[p] /\ Number(e, base) = B[p]
  BY <1>2 DEF Number
<1> HIDE DEF A, B
<1>6. 0 \in S
  <2>1. 0 < m /\ 0 \in 0 .. p
    BY <1>0
  <2>2. B[0] = A[0]
    BY <1>3, <1>4
  <2> QED
    BY <2>1, <2>2
<1>7. ASSUME NEW n \in 0 .. p - 1, n \in S PROVE n + 1 \in S
  <2>1. n \in 0 .. p /\ n + 1 \in 1 .. p /\ (n + 1) - 1 = n /\ n + 1 \in 0 .. p /\ m \in Nat
    BY <1>0
  <2>2. A[n + 1] = A[n] * base + d[n + 1] /\ B[n + 1] = B[n] * base + e[n + 1]
    BY <1>3, <1>4, <2>1
  <2>3. A[n] \in Nat /\ d[n + 1] \in Nat /\ A[n] * base \in Nat
    BY <1>0, <1>3, <2>1, Products
  <2>4. B[n] = IF n < m THEN A[n] ELSE r * Power(base, n - m) + A[n]
    BY <1>7
  <2>5. CASE n + 1 < m
    <3>1. n < m /\ n + 1 # m
      BY <2>1, <2>5
    <3>2. B[n + 1] = A[n + 1]
      BY <1>1, <2>1, <2>2, <2>4, <3>1
    <3> QED
      BY <2>1, <2>5, <3>2
  <2>6. CASE n + 1 = m
    <3>1. n < m /\ (n + 1) - m = 0 /\ Power(base, 0) = 1
      BY <2>1, <2>6, PowerIs
    <3>2. B[n + 1] = A[n] * base + r /\ A[n + 1] = A[n] * base
      BY <1>0, <1>1, <2>2, <2>3, <2>4, <2>6, <3>1
    <3>3. B[n + 1] = r * Power(base, (n + 1) - m) + A[n + 1]
      BY <2>3, <3>1, <3>2
    <3> QED
      BY <2>1, <2>6, <3>3
  <2>7. CASE n + 1 > m
    <3>1. ~ (n < m) /\ ~ (n + 1 < m) /\ n + 1 # m /\ n - m \in Nat /\ (n + 1) - m = (n - m) + 1
      BY <2>1, <2>7
    <3> DEFINE w == Power(base, n - m)
    <3>2. w \in Nat /\ Power(base, (n + 1) - m) = w * base
      BY <3>1, PowerIs
    <3>3. B[n + 1] = (r * w + A[n]) * base + d[n + 1]
      BY <1>1, <2>1, <2>2, <2>4, <3>1
    <3> HIDE DEF w
    <3>4. (r * w + A[n]) * base = (r * w) * base + A[n] * base /\ (r * w) * base = r * (w * base)
      BY <2>3, <3>2, Products, Distributes
    <3>5. r * (w * base) \in Nat
      BY <3>2, Products
    <3>6. B[n + 1] = r * Power(base, (n + 1) - m) + A[n + 1]
      BY <2>2, <2>3, <3>2, <3>3, <3>4, <3>5
    <3> QED
      BY <2>1, <3>1, <3>6
  <2> QED
    BY <1>0, <2>1, <2>5, <2>6, <2>7
<1>8. p \in S
  <2> HIDE DEF S
  <2>1. 0 .. p \subseteq S
    BY <1>6, <1>7, UpTo
  <2> QED
    BY <2>1
<1>9. ~ (p < m)
  BY <1>0
<1> QED
  BY <1>5, <1>8, <1>9

(* Dividing by the worth of a place and keeping one digit reads the digit. *)
LEMMA DigitRead ==
  ASSUME NEW base \in Nat \ {0}, NEW s \in Seq(0 .. base - 1), NEW n \in 1 .. Len(s)
  PROVE  (Number(s, base) \div Power(base, Len(s) - n)) % base = s[n]
<1> DEFINE m == Len(s)
           A == Leading(s, base)
           Splits(k, r) == r \in 0 .. Power(base, k) - 1 /\ A[n + k] = A[n] * Power(base, k) + r
           S == { k \in 0 .. m - n : \E r \in Nat : Splits(k, r) }
<1>1. s \in Seq(Nat) /\ m \in Nat /\ n \in Nat /\ m - n \in Nat /\ \A k \in 1 .. m : s[k] \in 0 .. base - 1
  OBVIOUS
<1>2. A \in [0 .. m -> Nat] /\ \A k \in 1 .. m : A[k] = A[k - 1] * base + s[k]
  BY <1>1, LeadingIs
<1>3. Number(s, base) = A[m] /\ n \in 1 .. m
  BY DEF Number
<1> HIDE DEF A, m
<1>4. 0 \in S
  <2>1. Power(base, 0) = 1 /\ A[n] \in Nat /\ n + 0 = n
    BY <1>1, <1>2, <1>3, PowerIs
  <2>2. Splits(0, 0)
    BY <2>1
  <2> QED
    BY <1>1, <2>2
<1>5. ASSUME NEW k \in 0 .. m - n - 1, k \in S PROVE k + 1 \in S
  <2>0. /\ k \in Nat /\ n + k \in 0 .. m /\ n + (k + 1) \in 1 .. m /\ (n + (k + 1)) - 1 = n + k
        /\ k + 1 \in 0 .. m - n
    BY <1>1, <1>3
  <2>1. PICK r \in Nat : Splits(k, r)
    BY <1>5
  <2> DEFINE w == Power(base, k)
             c == s[n + (k + 1)]
  <2>2. w \in Nat /\ Power(base, k + 1) = w * base
    BY <2>0, PowerIs
  <2>3. r + 1 <= w /\ A[n + k] = A[n] * w + r
    BY <2>1, <2>2
  <2>4. A[n + (k + 1)] = A[n + k] * base + c /\ c \in 0 .. base - 1
    BY <1>1, <1>2, <2>0
  <2>5. A[n] \in Nat
    BY <1>1, <1>2, <1>3
  <2> HIDE DEF w, c
  <2>6. (A[n] * w + r) * base = (A[n] * w) * base + r * base /\ (A[n] * w) * base = A[n] * (w * base)
    BY <2>2, <2>5, Products, Distributes
  <2>7. (r + 1) * base <= w * base /\ (r + 1) * base = r * base + 1 * base /\ 1 * base = base
    BY <2>2, <2>3, Grows, Distributes
  <2>8. r * base \in Nat /\ w * base \in Nat /\ A[n] * (w * base) \in Nat /\ r * base + c \in Nat
    <3>1. c \in Nat /\ base \in Nat
      BY <2>4
    <3>2. w * base \in Nat
      BY <2>2, <3>1, Products
    <3> QED
      BY <2>2, <2>5, <3>1, <3>2, Products
  <2>9. A[n + (k + 1)] = A[n] * Power(base, k + 1) + (r * base + c)
    BY <2>2, <2>3, <2>4, <2>6, <2>8
  <2>10. r * base + c \in 0 .. Power(base, k + 1) - 1
    <3>1. base \in Nat /\ c \in Nat /\ c + 1 <= base
      BY <2>4
    <3>2. r * base + base <= w * base
      BY <2>7
    <3>3. r * base + c + 1 <= w * base
      BY <2>8, <3>1, <3>2
    <3> QED
      BY <2>2, <2>8, <3>3
  <2>11. Splits(k + 1, r * base + c)
    BY <2>9, <2>10
  <2> HIDE DEF Splits
  <2> QED
    BY <2>0, <2>8, <2>11
<1>6. m - n \in S
  <2> HIDE DEF S
  <2>1. 0 .. m - n \subseteq S
    BY <1>1, <1>4, <1>5, UpTo
  <2> QED
    BY <1>1, <2>1
<1>7. PICK r \in Nat : Splits(m - n, r)
  BY <1>6
<1>8. A[m] \div Power(base, m - n) = A[n]
  <2>1. n + (m - n) = m /\ A[n] \in Nat /\ Power(base, m - n) \in Nat
    <3>1. n + (m - n) = m /\ n \in 0 .. m
      BY <1>1, <1>3
    <3>2. Power(base, m - n) \in Nat
      BY <1>1, PowerIs
    <3> QED
      BY <1>2, <3>1, <3>2
  <2>2. A[m] = A[n] * Power(base, m - n) + r /\ r \in 0 .. Power(base, m - n) - 1 /\ A[m] \in Nat
    BY <1>1, <1>2, <1>7, <2>1
  <2>3. Divided(A[m], Power(base, m - n), A[n], r)
    BY <2>1, <2>2 DEF Divided
  <2> QED
    BY <2>3, Quotient
<1>9. A[n] % base = s[n]
  <2>1. n - 1 \in 0 .. m /\ A[n] = A[n - 1] * base + s[n] /\ A[n] \in Nat /\ s[n] \in 0 .. base - 1
    BY <1>1, <1>2, <1>3
  <2>2. A[n - 1] \in Nat
    BY <1>2, <2>1
  <2>3. Divided(A[n], base, A[n - 1], s[n])
    BY <2>1, <2>2 DEF Divided
  <2> QED
    BY <2>3, Quotient
<1> QED
  BY <1>3, <1>8, <1>9 DEF m
(***************************************************************************)
(* The inductive invariant.                                                *)
(***************************************************************************)
TypeInv ==
  /\ key \in Keys
  /\ value \in Seq(AByte)
  /\ digits \in [1 .. Payload -> 0 .. BASE - 1]
  /\ i \in 0 .. Payload

(* The axes that no division has reached are zero. *)
Unfilled == \A n \in 1 .. Payload - i : digits[n] = 0

(* Only a key that is neither canonical nor empty is divided. *)
OnlyGeneral == i > 0 => ~ Canonical(key) /\ Bytes(key) # <<>>

IInv ==
  /\ TypeInv
  /\ Unfilled
  /\ OnlyGeneral
  /\ NothingLost
  /\ PathDecodes
  /\ RefusedBeyondCapacity

LEMMA Constants ==
  /\ BYTE \in Nat \ {0} /\ BASE \in Nat \ {0}
  /\ Payload \in Nat \ {0} /\ DEPTH = Payload + 1
  /\ 0 \in 0 .. BASE - 1
BY EncodingAssumption DEF Payload

LEMMA DigitsAreSequence ==
  ASSUME NEW d \in [1 .. Payload -> 0 .. BASE - 1]
  PROVE  /\ d \in [1 .. Payload -> Nat] /\ d \in Seq(Nat)
         /\ d \in Seq(0 .. BASE - 1) /\ Len(d) = Payload
         /\ Number(d, BASE) \in Nat /\ Number(d, BASE) < Power(BASE, Payload)
<1>1. d \in [1 .. Payload -> Nat]
  BY Constants
<1>2. d \in Seq(Nat) /\ d \in Seq(0 .. BASE - 1) /\ Len(d) = Payload
  BY <1>1, Constants, AsSequence
<1>3. Number(d, BASE) \in Nat
  BY <1>2, Constants, NumberAppend
<1>4. Payload \in 0 .. Len(d)
  BY <1>2, Constants
<1>5. Leading(d, BASE)[Payload] < Power(BASE, Payload)
  BY <1>2, <1>4, Constants, BelowPower
<1> QED
  BY <1>1, <1>2, <1>3, <1>5 DEF Number

LEMMA OneMore ==
  ASSUME NEW d \in Seq(Nat), NEW x \in Nat
  PROVE  /\ (d \o <<x>>)[Len(d) + 1] = x
         /\ \A n \in 1 .. Len(d) : (d \o <<x>>)[n] = d[n]
OBVIOUS

(* The shape of an answer that is a path. *)
LEMMA PathIs ==
  ASSUME NEW d \in [1 .. Payload -> 0 .. BASE - 1], NEW x \in 0 .. BASE - 1,
         NEW path, path = d \o <<x>>
  PROVE  /\ path \notin {PENDING, EMPTY, TOO_LONG}
         /\ path[DEPTH] = x /\ \A n \in 1 .. Payload : path[n] = d[n]
         /\ \A n \in 1 .. DEPTH : path[n] \in 0 .. BASE - 1
         /\ Number(SubSeq(path, 1, Payload), BASE) = Number(d, BASE)
<1>1. d \in Seq(Nat) /\ Len(d) = Payload /\ d \in Seq(0 .. BASE - 1) /\ x \in Nat
  BY DigitsAreSequence, Constants
<1>2. path \in Seq(Nat) /\ Len(path) = DEPTH
  BY <1>1, Constants
<1>3. path[DEPTH] = x /\ \A n \in 1 .. Payload : path[n] = d[n]
  BY <1>1, Constants, OneMore
<1>4. \A n \in 1 .. DEPTH : path[n] \in 0 .. BASE - 1
  <2> SUFFICES ASSUME NEW n \in 1 .. DEPTH PROVE path[n] \in 0 .. BASE - 1
    OBVIOUS
  <2>1. n = DEPTH \/ n \in 1 .. Payload
    BY Constants
  <2> QED
    BY <1>3, <2>1
<1>5. path \notin {PENDING, EMPTY, TOO_LONG}
  BY <1>2, EncodingAssumption
<1> DEFINE sub == SubSeq(path, 1, Payload)
<1>6. sub \in Seq(Nat) /\ Len(sub) = Payload /\ \A n \in 1 .. Payload : sub[n] = path[n]
  BY <1>2, Constants
<1> HIDE DEF sub
<1>7. Agree(sub, d, Payload)
  BY <1>1, <1>3, <1>6, Constants DEF Agree
<1>8. Leading(sub, BASE)[Payload] = Leading(d, BASE)[Payload]
  BY <1>1, <1>6, <1>7, Constants, SameStart
<1>9. Number(sub, BASE) = Number(d, BASE)
  BY <1>1, <1>6, <1>8 DEF Number
<1> QED
  BY <1>3, <1>4, <1>5, <1>9 DEF sub

LEMMA NoPath ==
  ASSUME NEW r \in {PENDING, EMPTY, TOO_LONG}
  PROVE  r \notin [1 .. DEPTH -> 0 .. BASE - 1]
<1>1. SUFFICES ASSUME r \in [1 .. DEPTH -> 0 .. BASE - 1] PROVE FALSE
  OBVIOUS
<1>2. r \in [1 .. DEPTH -> Nat] /\ DEPTH \in Nat
  BY <1>1, Constants
<1>3. r \in Seq(Nat)
  BY <1>2, AsSequence
<1> QED
  BY <1>3, EncodingAssumption

LEMMA AtInit == Init => IInv
<1> SUFFICES ASSUME Init PROVE IInv
  OBVIOUS
<1>1. /\ key \in Keys /\ value = Bytes(key) /\ digits = [axis \in 1 .. Payload |-> 0]
      /\ i = 0 /\ result = PENDING
  BY DEF Init
<1>2. TypeInv
  BY <1>1, Constants, BytesAre DEF TypeInv
<1>3. Unfilled /\ OnlyGeneral
  BY <1>1, Constants DEF Unfilled, OnlyGeneral
<1>4. NothingLost
  <2>1. digits \in Seq(Nat) /\ Len(digits) = Payload
    BY <1>2, DigitsAreSequence DEF TypeInv
  <2>2. Number(digits, BASE) = 0
    <3>1. \A n \in 1 .. Len(digits) : digits[n] = 0
      BY <1>1, <2>1
    <3> QED
      BY <2>1, <3>1, Constants, NumberZero
  <2>3. Number(value, BYTE) \in Nat
    BY <1>2, Constants, AsNumbers, NumberAppend DEF TypeInv
  <2>4. Power(BASE, i) = 1
    BY <1>1, Constants, PowerIs
  <2> QED
    BY <1>1, <2>2, <2>3, <2>4 DEF NothingLost
<1>5. PathDecodes
  BY <1>1 DEF PathDecodes
<1>6. RefusedBeyondCapacity
  <2>1. result \notin [1 .. DEPTH -> 0 .. BASE - 1]
    BY <1>1, NoPath
  <2> QED
    BY <1>1, <2>1, EncodingAssumption DEF RefusedBeyondCapacity
<1> QED
  BY <1>2, <1>3, <1>4, <1>5, <1>6 DEF IInv

(* A division takes the number one digit further down. *)
LEMMA AtDivide == IInv /\ Divide => IInv'
<1> SUFFICES ASSUME IInv, Divide PROVE IInv'
  OBVIOUS
<1> DEFINE d == DivMod(value)
<1>1. /\ key \in Keys /\ value \in Seq(AByte) /\ digits \in [1 .. Payload -> 0 .. BASE - 1]
      /\ i \in 0 .. Payload
  BY DEF IInv, TypeInv
<1>2. /\ ~ Canonical(key) /\ Bytes(key) # <<>> /\ i < Payload
      /\ digits' = [digits EXCEPT ![Payload - i] = d.rem]
      /\ value' = d.quot /\ i' = i + 1 /\ key' = key /\ result' = result
  BY DEF Divide
<1>3. d.rem \in 0 .. BASE - 1 /\ d.quot \in Seq(AByte) /\ Number(value, BYTE) = Number(d.quot, BYTE) * BASE + d.rem
  BY <1>1, DivModIs DEF Division, Worth
<1> HIDE DEF d
<1>4. i \in Nat /\ Payload - i \in 1 .. Payload /\ Payload - (Payload - i) = i
  BY <1>1, <1>2, Constants
<1>5. TypeInv'
  <2>1. key' \in Keys /\ value' \in Seq(AByte)
    BY <1>1, <1>2, <1>3
  <2>2. digits' \in [1 .. Payload -> 0 .. BASE - 1]
    BY <1>1, <1>2, <1>3, <1>4
  <2>3. i' \in 0 .. Payload
    BY <1>1, <1>2, Constants
  <2> QED
    BY <2>1, <2>2, <2>3 DEF TypeInv
<1>6. Unfilled'
  <2> SUFFICES ASSUME NEW n \in 1 .. Payload - (i + 1) PROVE digits'[n] = 0
    BY <1>2 DEF Unfilled
  <2>1. n \in 1 .. Payload - i /\ n # Payload - i /\ n \in 1 .. Payload
    BY <1>4, Constants
  <2>2. digits[n] = 0
    BY <2>1 DEF IInv, Unfilled
  <2> QED
    BY <1>1, <1>2, <2>1, <2>2
<1>7. OnlyGeneral'
  BY <1>2 DEF OnlyGeneral
<1>8. NothingLost'
  <2> DEFINE q == Number(d.quot, BYTE)
             w == Power(BASE, i)
             N == Number(digits, BASE)
  <2>1. Number(digits', BASE) = d.rem * w + N
    <3>1. digits[Payload - i] = 0
      BY <1>4 DEF IInv, Unfilled
    <3>2. digits \in [1 .. Payload -> Nat] /\ d.rem \in Nat
      BY <1>1, <1>3, DigitsAreSequence
    <3>3. Number(digits', BASE) = d.rem * Power(BASE, Payload - (Payload - i)) + N
      <4>1. PICK m \in 1 .. Payload : m = Payload - i
        BY <1>4
      <4>2. PICK r \in Nat : r = d.rem
        BY <3>2
      <4>3. digits[m] = 0 /\ BASE \in Nat /\ Payload \in Nat /\ digits' = [digits EXCEPT ![m] = r]
        BY <1>2, <3>1, <4>1, <4>2, Constants
      <4>4. Rewritten(digits, digits', Payload, m, r)
        BY <3>2, <4>3 DEF Rewritten
      <4>5. Number(digits', BASE) = r * Power(BASE, Payload - m) + N
        BY <4>3, <4>4, DigitSet
      <4> QED
        BY <4>1, <4>2, <4>5
    <3> QED
      BY <1>4, <3>3
  <2>2. w \in Nat /\ Power(BASE, i + 1) = w * BASE
    BY <1>4, Constants, PowerIs
  <2>3. q \in Nat /\ N \in Nat /\ d.rem \in Nat
    <3>1. d.quot \in Seq(Nat) /\ BYTE \in Nat /\ 0 \in Nat
      BY <1>3, Constants, AsNumbers
    <3>2. q \in Nat
      BY <3>1, NumberAppend
    <3>3. N \in Nat /\ d.rem \in Nat
      BY <1>1, <1>3, Constants, DigitsAreSequence
    <3> QED
      BY <3>2, <3>3
  <2>4. Number(Bytes(key), BYTE) = (q * BASE + d.rem) * w + N
    BY <1>3 DEF IInv, NothingLost
  <2> HIDE DEF q, w, N
  <2>5. (q * BASE + d.rem) * w = (q * BASE) * w + d.rem * w
    BY <2>2, <2>3, Constants, Products, Distributes
  <2>6. (q * BASE) * w = q * (w * BASE)
    <3>1. (q * BASE) * w = q * (BASE * w)
      BY <2>2, <2>3, Constants, Distributes
    <3>2. BASE * w = w * BASE
      BY <2>2, Constants
    <3> QED
      BY <3>1, <3>2
  <2>7. d.rem * w \in Nat /\ q * (w * BASE) \in Nat
    BY <2>2, <2>3, Constants, Products
  <2>8. Number(Bytes(key), BYTE) = q * Power(BASE, i + 1) + (d.rem * w + N)
    BY <2>2, <2>3, <2>4, <2>5, <2>6, <2>7
  <2> QED
    BY <1>2, <2>1, <2>8 DEF NothingLost, q
<1>9. PathDecodes' /\ RefusedBeyondCapacity'
  BY <1>2 DEF IInv, PathDecodes, RefusedBeyondCapacity
<1> QED
  BY <1>5, <1>6, <1>7, <1>8, <1>9 DEF IInv
(* What an answer leaves alone. *)
LEMMA AtAnswer ==
  ASSUME IInv, NEW r, Answer(r)
  PROVE  /\ TypeInv' /\ Unfilled' /\ OnlyGeneral' /\ NothingLost'
         /\ key' = key /\ result' = r
<1>1. key' = key /\ value' = value /\ digits' = digits /\ i' = i /\ result' = r
  BY DEF Answer
<1> QED
  BY <1>1 DEF IInv, TypeInv, Unfilled, OnlyGeneral, NothingLost

LEMMA AtMapCanonical == IInv /\ MapCanonical => IInv'
<1> SUFFICES ASSUME IInv, MapCanonical PROVE IInv'
  OBVIOUS
<1> DEFINE d    == [n \in 1 .. Payload |-> CoordOf[key[n]]]
           path == d \o <<0>>
<1>1. Canonical(key) /\ Answer(path)
  BY DEF MapCanonical
<1>2. /\ TypeInv' /\ Unfilled' /\ OnlyGeneral' /\ NothingLost'
      /\ key' = key /\ result' = path
  <2> HIDE DEF path
  <2> QED
    BY <1>1, AtAnswer
<1>3. key \in Seq(Chars) /\ Len(key) = Payload /\ \A n \in 1 .. Payload : CoordOf[key[n]] # NO_COORD
  BY <1>1, EncodingAssumption DEF IInv, TypeInv, Canonical
<1>4. d \in [1 .. Payload -> 0 .. BASE - 1]
  <2> SUFFICES ASSUME NEW n \in 1 .. Payload PROVE CoordOf[key[n]] \in 0 .. BASE - 1
    OBVIOUS
  <2>1. key[n] \in Chars
    BY <1>3
  <2>2. CoordOf[key[n]] \in (0 .. BASE - 1) \cup {NO_COORD}
    BY <2>1, EncodingAssumption
  <2> QED
    BY <1>3, <2>2
<1>5. \A n \in 1 .. Payload : d[n] = CoordOf[key[n]]
  OBVIOUS
<1> HIDE DEF d
<1>6. /\ path \notin {PENDING, EMPTY, TOO_LONG}
      /\ path[DEPTH] = 0 /\ \A n \in 1 .. Payload : path[n] = d[n]
      /\ \A n \in 1 .. DEPTH : path[n] \in 0 .. BASE - 1
  <2>1. PICK x \in 0 .. BASE - 1 : x = 0
    BY Constants
  <2>2. path = d \o <<x>>
    BY <2>1
  <2> HIDE DEF path
  <2>3. path \notin {PENDING, EMPTY, TOO_LONG} /\ path[DEPTH] = x
    BY <1>4, <2>2, PathIs
  <2>4. \A n \in 1 .. Payload : path[n] = d[n]
    <3>1. d \in Seq(Nat) /\ Len(d) = Payload /\ x \in Nat
      BY <1>4, DigitsAreSequence, Constants
    <3>2. \A n \in 1 .. Payload : (d \o <<x>>)[n] = d[n]
      BY <3>1, OneMore
    <3> QED
      BY <2>2, <3>2
  <2>5. \A n \in 1 .. DEPTH : path[n] \in 0 .. BASE - 1
    BY <1>4, <2>2, PathIs
  <2> QED
    BY <2>1, <2>3, <2>4, <2>5
<1> HIDE DEF path
<1>7. PathDecodes'
  BY <1>2, <1>3, <1>5, <1>6 DEF PathDecodes
<1>8. RefusedBeyondCapacity'
  <2>1. key # <<>>
    BY <1>3, Constants
  <2>2. Canonical(key)'
    BY <1>1, <1>2 DEF Canonical
  <2> QED
    BY <1>2, <1>6, <2>1, <2>2 DEF RefusedBeyondCapacity
<1> QED
  BY <1>2, <1>7, <1>8 DEF IInv

LEMMA AtRefuseEmpty == IInv /\ RefuseEmpty => IInv'
<1> SUFFICES ASSUME IInv, RefuseEmpty PROVE IInv'
  OBVIOUS
<1>1. Bytes(key) = <<>> /\ Answer(EMPTY)
  BY DEF RefuseEmpty
<1>2. /\ TypeInv' /\ Unfilled' /\ OnlyGeneral' /\ NothingLost'
      /\ key' = key /\ result' = EMPTY
  BY <1>1, AtAnswer
<1>3. key = <<>>
  BY <1>1, BytesAre DEF IInv, TypeInv
<1>4. PathDecodes'
  BY <1>2 DEF PathDecodes
<1>5. RefusedBeyondCapacity'
  <2>1. EMPTY \notin [1 .. DEPTH -> 0 .. BASE - 1] /\ EMPTY # TOO_LONG /\ EMPTY # PENDING
    BY NoPath, EncodingAssumption
  <2> QED
    BY <1>2, <1>3, <2>1 DEF RefusedBeyondCapacity
<1> QED
  BY <1>2, <1>4, <1>5 DEF IInv

(* After the last division: what is known of the key and its number. *)
LEMMA AllDivided ==
  ASSUME IInv, i = Payload
  PROVE  /\ key \in Keys /\ key # <<>> /\ ~ Canonical(key)
         /\ Bytes(key) # <<>> /\ Bytes(key) \in Seq(AByte)
         /\ digits \in [1 .. Payload -> 0 .. BASE - 1]
         /\ AnyLeft => Number(Bytes(key), BYTE) >= Power(BASE, Payload)
         /\ ~ AnyLeft => Number(Bytes(key), BYTE) = Number(digits, BASE)
<1>1. /\ key \in Keys /\ value \in Seq(AByte) /\ digits \in [1 .. Payload -> 0 .. BASE - 1]
  BY DEF IInv, TypeInv
<1>2. ~ Canonical(key) /\ Bytes(key) # <<>>
  BY Constants DEF IInv, OnlyGeneral
<1>3. key # <<>> /\ Bytes(key) \in Seq(AByte)
  BY <1>1, <1>2, BytesAre
<1> DEFINE N == Number(value, BYTE)
           w == Power(BASE, Payload)
           D == Number(digits, BASE)
<1>4. Number(Bytes(key), BYTE) = N * w + D
  BY DEF IInv, NothingLost
<1>5. value \in Seq(Nat) /\ N \in Nat /\ w \in Nat /\ D \in Nat
  <2>1. value \in Seq(Nat)
    BY <1>1, AsNumbers
  <2>2. N \in Nat
    <3>1. 0 \in Nat /\ BYTE \in Nat
      BY Constants
    <3> QED
      BY <2>1, <3>1, NumberAppend
  <2> QED
    BY <1>1, <2>1, <2>2, Constants, PowerIs, DigitsAreSequence
<1>6. N = 0 <=> ~ AnyLeft
  BY <1>5, Constants, NumberZero DEF AnyLeft
<1> HIDE DEF N, w, D
<1>7. AnyLeft => N * w + D >= w
  <2> SUFFICES ASSUME AnyLeft PROVE N * w + D >= w
    OBVIOUS
  <2>1. 1 <= N /\ 1 * w = w
    BY <1>5, <1>6
  <2>2. w <= N * w
    <3>1. 1 * w <= N * w
      BY <1>5, <2>1, Grows
    <3> QED
      BY <2>1, <3>1
  <2>3. N * w \in Nat
    BY <1>5
  <2> QED
    BY <1>5, <2>2, <2>3
<1>8. ~ AnyLeft => N * w + D = D
  BY <1>5, <1>6
<1> QED
  BY <1>1, <1>2, <1>3, <1>4, <1>7, <1>8 DEF w, D

LEMMA AtRefuseTooLong == IInv /\ RefuseTooLong => IInv'
<1> SUFFICES ASSUME IInv, RefuseTooLong PROVE IInv'
  OBVIOUS
<1>1. i = Payload /\ (AnyLeft \/ Len(Bytes(key)) >= BASE) /\ Answer(TOO_LONG)
  BY DEF RefuseTooLong
<1>2. /\ TypeInv' /\ Unfilled' /\ OnlyGeneral' /\ NothingLost'
      /\ key' = key /\ result' = TOO_LONG
  BY <1>1, AtAnswer
<1>3. PathDecodes'
  BY <1>2 DEF PathDecodes
<1>4. RefusedBeyondCapacity'
  <2>1. key # <<>> /\ (AnyLeft => Number(Bytes(key), BYTE) >= Power(BASE, Payload))
    BY <1>1, AllDivided
  <2>2. TOO_LONG \notin [1 .. DEPTH -> 0 .. BASE - 1] /\ EMPTY # TOO_LONG
    BY NoPath, EncodingAssumption
  <2> QED
    BY <1>1, <1>2, <2>1, <2>2 DEF RefusedBeyondCapacity
<1> QED
  BY <1>2, <1>3, <1>4 DEF IInv

LEMMA AtFinish == IInv /\ Finish => IInv'
<1> SUFFICES ASSUME IInv, Finish PROVE IInv'
  OBVIOUS
<1> DEFINE bytes == Bytes(key)
           x     == Len(bytes)
           path  == digits \o <<x>>
<1>1. i = Payload /\ ~ AnyLeft /\ x < BASE /\ Answer(path)
  BY DEF Finish
<1>2. /\ TypeInv' /\ Unfilled' /\ OnlyGeneral' /\ NothingLost'
      /\ key' = key /\ result' = path
  <2> HIDE DEF path
  <2> QED
    BY <1>1, AtAnswer
<1>3. /\ key \in Keys /\ key # <<>> /\ ~ Canonical(key) /\ bytes # <<>> /\ bytes \in Seq(AByte)
      /\ digits \in [1 .. Payload -> 0 .. BASE - 1]
      /\ Number(bytes, BYTE) = Number(digits, BASE)
  BY <1>1, AllDivided
<1> HIDE DEF bytes
<1>4. x \in 1 .. BASE - 1 /\ x \in 0 .. BASE - 1
  BY <1>1, <1>3, Constants
<1>5. /\ path \notin {PENDING, EMPTY, TOO_LONG}
      /\ path[DEPTH] = x /\ \A n \in 1 .. DEPTH : path[n] \in 0 .. BASE - 1
      /\ Number(SubSeq(path, 1, Payload), BASE) = Number(digits, BASE)
  <2>1. path = digits \o <<x>>
    OBVIOUS
  <2> HIDE DEF path, x
  <2> QED
    BY <1>3, <1>4, <2>1, PathIs
<1> HIDE DEF path
<1> DEFINE number == Number(SubSeq(path, 1, Payload), BASE)
<1>6. bytes = [n \in 1 .. x |-> (number \div Power(BYTE, x - n)) % BYTE]
  <2>1. number = Number(bytes, BYTE)
    BY <1>3, <1>5
  <2>2. \A n \in 1 .. x : (Number(bytes, BYTE) \div Power(BYTE, x - n)) % BYTE = bytes[n]
    <3>1. bytes \in Seq(0 .. BYTE - 1) /\ BYTE \in Nat \ {0}
      BY <1>3, Constants DEF AByte
    <3> QED
      BY <3>1, DigitRead
  <2>3. bytes = [n \in 1 .. x |-> bytes[n]]
    BY <1>3
  <2> HIDE DEF number, x
  <2> QED
    BY <2>1, <2>2, <2>3
<1> HIDE DEF number
<1>7. PathDecodes'
  <2>1. key' = key /\ result' = path
    BY <1>2
  <2>2. x # 0 /\ path[DEPTH] = x
    BY <1>4, <1>5
  <2> HIDE DEF x
  <2>3. Bytes(key') = [n \in 1 .. result'[DEPTH] |->
                         (Number(SubSeq(result', 1, Payload), BASE) \div Power(BYTE, result'[DEPTH] - n)) % BYTE]
    BY <1>6, <2>1, <2>2 DEF bytes, number
  <2> QED
    BY <1>5, <2>1, <2>2, <2>3 DEF PathDecodes
<1>8. RefusedBeyondCapacity'
  <2>1. Number(digits, BASE) < Power(BASE, Payload)
    BY <1>3, DigitsAreSequence
  <2> QED
    BY <1>2, <1>3, <1>5, <2>1 DEF RefusedBeyondCapacity, bytes
<1> QED
  BY <1>2, <1>7, <1>8 DEF IInv

LEMMA Invariant == Spec => []IInv
<1>1. Init => IInv
  BY AtInit
<1>2. IInv /\ [Next]_vars => IInv'
  <2> SUFFICES ASSUME IInv, [Next]_vars PROVE IInv'
    OBVIOUS
  <2>1. CASE UNCHANGED vars
    BY <2>1 DEF vars, IInv, TypeInv, Unfilled, OnlyGeneral, NothingLost, PathDecodes,
                RefusedBeyondCapacity
  <2>2. CASE MapCanonical
    BY <2>2, AtMapCanonical
  <2>3. CASE RefuseEmpty
    BY <2>3, AtRefuseEmpty
  <2>4. CASE Divide
    BY <2>4, AtDivide
  <2>5. CASE RefuseTooLong
    BY <2>5, AtRefuseTooLong
  <2>6. CASE Finish
    BY <2>6, AtFinish
  <2> QED
    BY <2>1, <2>2, <2>3, <2>4, <2>5, <2>6 DEF Next
<1> QED
  BY <1>1, <1>2, PTL DEF Spec

(***************************************************************************)
(* Theorems.                                                               *)
(***************************************************************************)
(* However many divisions are done, the digits found and the bytes left     *)
(* make up the number that the key's bytes are (str_to_coordpath and        *)
(* divmod_11172: nothing is truncated, nothing padded).                     *)
THEOREM NumberKept == Spec => []NothingLost
<1>1. IInv => NothingLost
  BY DEF IInv
<1> QED
  BY <1>1, Invariant, PTL

(* A path is one of coordinates, and tells the coordinates of a canonical    *)
(* key and the bytes of any other: two keys with the same path have the same *)
(* syllables or the same bytes (str_to_coordpath, "structurally injective"). *)
THEOREM PathTellsKey == Spec => []PathDecodes
<1>1. IInv => PathDecodes
  BY DEF IInv
<1> QED
  BY <1>1, Invariant, PTL

(* KeyError::TooLong answers a key whose number does not fit the payload    *)
(* axes, or whose length is no coordinate, and no other; KeyError::Empty    *)
(* answers the empty key and no other.                                      *)
THEOREM RefusalsRight == Spec => []RefusedBeyondCapacity
<1>1. IInv => RefusedBeyondCapacity
  BY DEF IInv
<1> QED
  BY <1>1, Invariant, PTL
=============================================================================
