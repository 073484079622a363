----------------------------- MODULE NatLemmas -----------------------------
(***************************************************************************)
(* Facts about sets of natural numbers that the proofs of several modules  *)
(* rest on.                                                                *)
(***************************************************************************)
EXTENDS Integers, FiniteSetsExt, WellFoundedInduction, TLAPS

\* A set of natural numbers that is not empty has a least element.
LEMMA LeastNat ==
    ASSUME NEW S \in SUBSET Nat, S # {}
    PROVE  \E m \in S : \A k \in S : m <= k
  <1> DEFINE R == OpToRel(<, Nat)
  <1>1. IsWellFoundedOn(R, Nat)
    BY NatLessThanWellFounded, Zenon
  <1>2. \E x \in S : \A y \in S : <<y, x>> \notin R
    <2> HIDE DEF R
    <2> QED
      BY <1>1, WFMin, Zenon
  <1>3. PICK x \in S : \A y \in S : <<y, x>> \notin R
    BY <1>2
  <1>4. \A y \in S : ~(y < x)
    BY <1>3, Zenon DEF OpToRel
  <1> HIDE DEF R
  <1> QED
    BY <1>3, <1>4

\* Induction: a set that has 0 and with a number its successor has all of them.
LEMMA NatSetInduction ==
    ASSUME NEW S, 0 \in S, \A n \in Nat : n \in S => n + 1 \in S
    PROVE  Nat \subseteq S
  <1> DEFINE T == {n \in Nat : n \notin S}
  <1> SUFFICES ASSUME T # {} PROVE FALSE
    OBVIOUS
  <1>1. PICK m \in T : \A k \in T : m <= k
    BY LeastNat
  <1>2. m # 0 /\ m - 1 \in Nat /\ m - 1 \notin T
    BY <1>1
  <1>3. m - 1 \in S
    BY <1>2
  <1>4. (m - 1) + 1 \in S
    BY <1>2, <1>3
  <1> QED
    BY <1>2, <1>4

\* Min of a set of numbers is its least element.
LEMMA MinIs ==
    ASSUME NEW S \in SUBSET Nat, NEW m \in S, \A x \in S : m <= x
    PROVE  Min(S) = m
  <1> DEFINE c == CHOOSE x \in S : \A y \in S : x <= y
  <1>1. \E x \in S : \A y \in S : x <= y
    OBVIOUS
  <1>2. c \in S /\ \A y \in S : c <= y
    BY <1>1
  <1>3. Min(S) = c
    BY DEF Min
  <1> HIDE DEF c
  <1>4. c = m
    BY <1>2
  <1> QED
    BY <1>3, <1>4

\* Min of a set of numbers that is not empty is in it and below all the others.
LEMMA MinIn ==
    ASSUME NEW S \in SUBSET Nat, S # {}
    PROVE  Min(S) \in S /\ \A x \in S : Min(S) <= x
  <1>1. PICK m \in S : \A x \in S : m <= x
    BY LeastNat
  <1>2. Min(S) = m
    BY <1>1, MinIs
  <1> QED
    BY <1>1, <1>2

\* Max of a set of numbers is its greatest element.
LEMMA MaxIs ==
    ASSUME NEW S \in SUBSET Nat, NEW m \in S, \A x \in S : x <= m
    PROVE  Max(S) = m
  <1> DEFINE c == CHOOSE x \in S : \A y \in S : x >= y
  <1>1. \E x \in S : \A y \in S : x >= y
    OBVIOUS
  <1>2. c \in S /\ \A y \in S : c >= y
    BY <1>1
  <1>3. Max(S) = c
    BY DEF Max
  <1> HIDE DEF c
  <1>4. c = m
    BY <1>2
  <1> QED
    BY <1>3, <1>4

\* A product grows with its first factor.
LEMMA TimesMono ==
    ASSUME NEW a \in Nat, NEW b \in Nat, NEW d \in Nat, a <= b
    PROVE  a * d <= b * d
  OBVIOUS

\* Quotient and rest.
LEMMA DivMod ==
    ASSUME NEW n \in Nat, NEW d \in Nat \ {0}
    PROVE  /\ n \div d \in Nat /\ n % d \in 0 .. d - 1
           /\ n = (n \div d) * d + (n % d)
  OBVIOUS

\* The quotient grows with the number divided.
LEMMA DivMono ==
    ASSUME NEW a \in Nat, NEW b \in Nat, NEW d \in Nat \ {0}, a <= b
    PROVE  a \div d <= b \div d
  <1> DEFINE p == a \div d
             q == b \div d
  <1>1. /\ p \in Nat /\ q \in Nat
        /\ a % d \in 0 .. d - 1 /\ b % d \in 0 .. d - 1
        /\ a = p * d + (a % d) /\ b = q * d + (b % d)
    BY DivMod
  <1> SUFFICES ASSUME q < p PROVE FALSE
    BY <1>1
  <1> HIDE DEF p, q
  <1>2. (q + 1) * d <= p * d
    BY <1>1, TimesMono
  <1>3. (q + 1) * d = q * d + d /\ q * d \in Nat /\ p * d \in Nat
    BY <1>1
  <1> QED
    BY <1>1, <1>2, <1>3

\* Two numbers with the same rest are a divisor or more apart.
LEMMA SameRest ==
    ASSUME NEW a \in Nat, NEW b \in Nat, NEW d \in Nat \ {0}, a < b, a % d = b % d
    PROVE  a + d <= b
  <1> DEFINE p == a \div d
             q == b \div d
  <1>1. /\ p \in Nat /\ q \in Nat /\ a % d \in 0 .. d - 1
        /\ a = p * d + (a % d) /\ b = q * d + (a % d)
    BY DivMod
  <1> HIDE DEF p, q
  <1>2. p < q
    <2> SUFFICES ASSUME q <= p PROVE FALSE
      BY <1>1
    <2>1. q * d <= p * d /\ q * d \in Nat /\ p * d \in Nat
      BY <1>1, TimesMono
    <2> QED
      BY <1>1, <2>1
  <1>3. (p + 1) * d <= q * d
    BY <1>1, <1>2, TimesMono
  <1>4. (p + 1) * d = p * d + d /\ q * d \in Nat /\ p * d \in Nat
    BY <1>1
  <1> QED
    BY <1>1, <1>3, <1>4

\* The rest is the only number below the divisor that leaves a multiple.
LEMMA RestIs ==
    ASSUME NEW n \in Nat, NEW d \in Nat \ {0}, NEW q \in Nat, NEW r \in 0 .. d - 1, n = q * d + r
    PROVE  n % d = r
  <1> DEFINE p == n \div d
             s == n % d
  <1>1. p \in Nat /\ s \in 0 .. d - 1 /\ n = p * d + s
    BY DivMod
  <1> HIDE DEF p, s
  <1>2. p * d \in Nat /\ q * d \in Nat /\ (p + 1) * d = p * d + d /\ (q + 1) * d = q * d + d
    BY <1>1
  <1>3. CASE p < q
    <2>1. (p + 1) * d <= q * d
      BY <1>1, <1>3, TimesMono
    <2> QED
      BY <1>1, <1>2, <2>1
  <1>4. CASE q < p
    <2>1. (q + 1) * d <= p * d
      BY <1>1, <1>4, TimesMono
    <2> QED
      BY <1>1, <1>2, <2>1
  <1>5. CASE p = q
    BY <1>1, <1>2, <1>5 DEF s
  <1> QED
    BY <1>1, <1>3, <1>4, <1>5

\* When the divisor is doubled the rest stays or moves up by the old divisor.
LEMMA RestOfDouble ==
    ASSUME NEW n \in Nat, NEW d \in Nat \ {0}
    PROVE  n % (2 * d) = n % d \/ n % (2 * d) = (n % d) + d
  <1> DEFINE q == n \div d
             r == n % d
             a == q \div 2
  <1>1. q \in Nat /\ r \in 0 .. d - 1 /\ n = q * d + r
    BY DivMod
  <1> HIDE DEF q, r
  <1>2. a \in Nat /\ (q = 2 * a \/ q = 2 * a + 1)
    BY <1>1
  <1> HIDE DEF a
  <1>3. (2 * a) * d = a * (2 * d) /\ (2 * a + 1) * d = a * (2 * d) + d
    BY <1>2
  <1>4. CASE q = 2 * a
    <2>1. n = a * (2 * d) + r /\ r \in 0 .. 2 * d - 1 /\ 2 * d \in Nat \ {0}
      BY <1>1, <1>3, <1>4
    <2>2. n % (2 * d) = r
      BY <1>2, <2>1, RestIs
    <2> QED
      BY <2>2 DEF r
  <1>5. CASE q = 2 * a + 1
    <2> DEFINE b == a * (2 * d)
    <2>1. b \in Nat /\ q * d = b + d
      BY <1>2, <1>3, <1>5
    <2> HIDE DEF b
    <2>2. n = b + (d + r) /\ d + r \in 0 .. 2 * d - 1 /\ 2 * d \in Nat \ {0}
      BY <1>1, <2>1
    <2>3. n % (2 * d) = d + r
      BY <1>2, <2>2, RestIs DEF b
    <2> QED
      BY <1>1, <2>3 DEF r
  <1> QED
    BY <1>2, <1>4, <1>5
=============================================================================
