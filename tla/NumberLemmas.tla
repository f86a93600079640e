---------------------------- MODULE NumberLemmas ----------------------------
(***************************************************************************)
(* Facts about numbers that the proofs about several modules need.         *)
(***************************************************************************)
EXTENDS Integers, WellFoundedInduction, TLAPS

\* A set of numbers has a least one.
LEMMA LeastExists ==
    ASSUME NEW S \in SUBSET Nat, S # {}
    PROVE  \E m \in S : \A n \in S : m <= n
<1>1. \E m \in S : \A n \in S : ~ (<<n, m>> \in OpToRel(<, Nat))
  BY NatLessThanWellFounded, WFMin, Zenon
<1>2. ASSUME NEW m \in S, NEW n \in S, ~ (<<n, m>> \in OpToRel(<, Nat))
      PROVE  m <= n
  <2>1. m \in Nat /\ n \in Nat
    OBVIOUS
  <2>2. ~ (n < m)
    BY <1>2, <2>1, Zenon DEF OpToRel
  <2> QED
    BY <2>1, <2>2
<1> QED
  BY <1>1, <1>2

\* Induction, with a set for what is shown of each number.
LEMMA SetInduction ==
    ASSUME NEW n \in Nat, NEW S, 0 \in S, \A i \in 0 .. n - 1 : i \in S => i + 1 \in S
    PROVE  \A i \in 0 .. n : i \in S
<1> DEFINE T == {i \in 0 .. n : i \notin S}
<1> SUFFICES ASSUME T # {}
             PROVE  FALSE
    OBVIOUS
<1>1. PICK m \in T : \A k \in T : m <= k
  <2>1. T \in SUBSET Nat
    OBVIOUS
  <2> HIDE DEF T
  <2> QED
    BY <2>1, LeastExists
<1>2. m \in 1 .. n /\ m \notin S
  BY <1>1
<1>3. m - 1 \in 0 .. n - 1 /\ (m - 1) + 1 = m /\ m - 1 \in S
  BY <1>1, <1>2
<1> QED
  BY <1>2, <1>3

LEMMA NextMultiple ==
    ASSUME NEW n \in Nat, NEW p \in Nat
    PROVE  (n + 1) * p = n * p + p
OBVIOUS

\* A greater multiple is a multiple of a greater number.
LEMMA MultiplesOrdered ==
    ASSUME NEW m \in Nat, NEW n \in Nat, NEW p \in Nat, m * p < n * p
    PROVE  m < n
<1>1. ASSUME n <= m
      PROVE  n * p <= m * p
  <2>1. PICK d \in Nat : m = n + d
    <3>1. m - n \in Nat /\ m = n + (m - n)
      BY <1>1
    <3> QED
      BY <3>1
  <2>2. (n + d) * p = n * p + d * p
    OBVIOUS
  <2>3. d * p \in Nat /\ n * p \in Nat
    OBVIOUS
  <2> QED
    BY <2>1, <2>2, <2>3
<1>2. m * p \in Nat /\ n * p \in Nat
  OBVIOUS
<1> QED
  BY <1>1, <1>2

\* A quotient is between its multiples ...
LEMMA Quotient ==
    ASSUME NEW n \in Nat, NEW a \in Nat \ {0}
    PROVE  /\ n \div a \in Nat
           /\ (n \div a) * a <= n /\ n < (n \div a) * a + a
OBVIOUS

\* ... and the only number that is.
LEMMA QuotientUnique ==
    ASSUME NEW n \in Nat, NEW a \in Nat \ {0}, NEW q \in Nat,
           q * a <= n, n < q * a + a
    PROVE  n \div a = q
<1> DEFINE d == n \div a
<1>1. d \in Nat /\ d * a <= n /\ n < d * a + a
  BY Quotient
<1> HIDE DEF d
<1>2. (d + 1) * a = d * a + a /\ (q + 1) * a = q * a + a
  BY <1>1, NextMultiple
<1>3. {q * a, d * a, (d + 1) * a, (q + 1) * a} \subseteq Nat
  BY <1>1
<1>4. q * a < (d + 1) * a /\ d * a < (q + 1) * a
  BY <1>1, <1>2, <1>3
<1>5. q < d + 1 /\ d < q + 1
  BY <1>1, <1>4, MultiplesOrdered
<1> QED
  BY <1>1, <1>5 DEF d

\* Dividing twice divides by the product.
LEMMA QuotientOfQuotient ==
    ASSUME NEW n \in Nat, NEW a \in Nat \ {0}, NEW b \in Nat \ {0}
    PROVE  n \div (a * b) = (n \div a) \div b
<1> DEFINE q == n \div a
           r == q \div b
<1>1. q \in Nat /\ q * a <= n /\ n < q * a + a
  BY Quotient
<1>2. r \in Nat /\ r * b <= q /\ q < r * b + b
  BY <1>1, Quotient
<1> HIDE DEF q, r
<1>3. a * b \in Nat \ {0}
  OBVIOUS
<1>4. r * (a * b) = (r * b) * a
  BY <1>2
<1>5. (r * b) * a <= q * a
  <2>1. PICK d \in Nat : q = r * b + d
    <3>1. r * b \in Nat
      BY <1>2
    <3>2. q - r * b \in Nat /\ q = r * b + (q - r * b)
      BY <1>1, <1>2, <3>1
    <3> QED
      BY <3>2
  <2>2. (r * b + d) * a = (r * b) * a + d * a
    BY <1>2
  <2>3. d * a \in Nat /\ (r * b) * a \in Nat
    BY <1>2
  <2> QED
    BY <2>1, <2>2, <2>3
<1>6. q * a + a <= (r * b) * a + a * b
  <2>1. PICK d \in Nat : (r * b + b) = (q + 1) + d
    <3> DEFINE x == r * b + b
    <3>1. x \in Nat
      BY <1>2
    <3> HIDE DEF x
    <3>2. x - (q + 1) \in Nat /\ x = (q + 1) + (x - (q + 1))
      <4>1. q < x
        BY <1>2 DEF x
      <4> QED
        BY <1>1, <3>1, <4>1
    <3>3. \E d \in Nat : x = (q + 1) + d
      BY <3>2
    <3> QED
      BY <3>3 DEF x
  <2>2. ((q + 1) + d) * a = (q * a + a) + d * a
    BY <1>1
  <2>3. (r * b + b) * a = (r * b) * a + a * b
    BY <1>2
  <2>4. d * a \in Nat /\ (r * b) * a \in Nat /\ q * a \in Nat /\ a * b \in Nat
    BY <1>1, <1>2
  <2> QED
    BY <2>1, <2>2, <2>3, <2>4
<1>7. r * (a * b) <= n /\ n < r * (a * b) + a * b
  <2> DEFINE x == r * (a * b)
             y == (r * b) * a
             z == q * a
             w == a * b
  <2>1. /\ x = y /\ y <= z /\ z + a <= y + w /\ z <= n /\ n < z + a
        /\ x \in Nat /\ y \in Nat /\ z \in Nat /\ w \in Nat
    BY <1>1, <1>2, <1>3, <1>4, <1>5, <1>6
  <2> HIDE DEF x, y, z, w
  <2>2. x <= n /\ n < x + w
    BY <2>1
  <2> QED
    BY <2>2 DEF x, w
<1> QED
  BY <1>2, <1>3, <1>7, QuotientUnique DEF q, r

\* The quotient and the remainder of a number that is given by them ...
LEMMA Division ==
    ASSUME NEW q \in Nat, NEW a \in Nat \ {0}, NEW r \in 0 .. a - 1
    PROVE  /\ (q * a + r) \div a = q
           /\ (q * a + r) % a = r
OBVIOUS

\* ... and the number from them.
LEMMA DivisionBack ==
    ASSUME NEW n \in Nat, NEW a \in Nat \ {0}
    PROVE  /\ n % a \in 0 .. a - 1
           /\ n = (n \div a) * a + (n % a)
OBVIOUS

=============================================================================
