--------------------------- MODULE PeerWireLemmas ---------------------------
(***************************************************************************)
(* Lemmas about the format of one connection, for any widths: numbers and  *)
(* bitfields are read as they were written, and what a sequence of         *)
(* messages tells.                                                         *)
(***************************************************************************)
EXTENDS PeerWire, NumberLemmas, SequenceTheorems, TLAPS

-----------------------------------------------------------------------------
(* The format: numbers and bitfields are read as they were written. *)

\* p holds the powers of base.
PowersOf(p, base, n) ==
    /\ p \in [0 .. n -> Nat \ {0}]
    /\ p[0] = 1
    /\ \A i \in 0 .. n - 1 : p[i + 1] = p[i] * base

\* v holds the values of the beginnings of the digits s.
ValuesOf(v, base, s, n) ==
    /\ v \in [0 .. n -> Nat]
    /\ v[0] = 0
    /\ \A i \in 1 .. n : v[i] = v[i - 1] * base + s[i]

\* Digits has a value: the recursive function it is defined by exists.
LEMMA ValuesExist ==
    ASSUME NEW base \in Nat, NEW n \in Nat, NEW s \in [1 .. n -> Nat]
    PROVE  \E v : ValuesOf(v, base, s, n)
<1> DEFINE S == {i \in 0 .. n : \E v : ValuesOf(v, base, s, i)}
<1>1. 0 \in S
  <2>1. ValuesOf([i \in 0 .. 0 |-> 0], base, s, 0)
    BY DEF ValuesOf
  <2>2. 0 \in 0 .. n
    OBVIOUS
  <2> QED
    BY <2>1, <2>2
<1>2. ASSUME NEW i \in 0 .. n - 1, i \in S
      PROVE  i + 1 \in S
  <2>1. PICK v : ValuesOf(v, base, s, i)
    BY <1>2
  <2> DEFINE w == [k \in 0 .. i + 1 |-> IF k = i + 1 THEN v[i] * base + s[i + 1] ELSE v[k]]
  <2>2. v[i] * base + s[i + 1] \in Nat
    <3>1. v[i] \in Nat /\ s[i + 1] \in Nat
      BY <2>1 DEF ValuesOf
    <3>2. v[i] * base \in Nat
      BY <3>1
    <3> QED
      BY <3>1, <3>2
  <2>3. w \in [0 .. i + 1 -> Nat] /\ w[0] = 0
    BY <2>1, <2>2 DEF ValuesOf
  <2>4. \A k \in 1 .. i + 1 : w[k] = w[k - 1] * base + s[k]
    <3>1. \A k \in 0 .. i : w[k] = v[k]
      OBVIOUS
    <3>2. w[i + 1] = v[i] * base + s[i + 1]
      OBVIOUS
    <3> HIDE DEF w
    <3> DEFINE Right(k) == w[k] = w[k - 1] * base + s[k]
    <3>3. \A k \in 1 .. i : Right(k)
      BY <2>1, <3>1 DEF ValuesOf
    <3>4. Right(i + 1)
      BY <3>1, <3>2
    <3>5. \A k \in 1 .. i + 1 : k \in 1 .. i \/ k = i + 1
      OBVIOUS
    <3> HIDE DEF Right
    <3>6. \A k \in 1 .. i + 1 : Right(k)
      BY <3>3, <3>4, <3>5
    <3> QED
      BY <3>6 DEF Right
  <2> HIDE DEF w
  <2>5. ValuesOf(w, base, s, i + 1)
    BY <2>3, <2>4 DEF ValuesOf
  <2>6. i + 1 \in 0 .. n
    OBVIOUS
  <2> QED
    BY <2>5, <2>6
<1> HIDE DEF S
<1>3. \A i \in 0 .. n : i \in S
  BY <1>1, <1>2, SetInduction
<1>4. n \in S
  BY <1>3
<1> QED
  BY <1>4 DEF S

LEMMA DigitsValue ==
    ASSUME NEW base \in Nat, NEW n \in Nat, NEW s \in [1 .. n -> Nat]
    PROVE  \E v : ValuesOf(v, base, s, n) /\ Digits(base, s) = v[n]
<1>1. PICK v : ValuesOf(v, base, s, n)
  BY ValuesExist
<1>2. Len(s) = n
  OBVIOUS
<1> DEFINE Rec(g) == g = [i \in 0 .. Len(s) |-> IF i = 0 THEN 0 ELSE g[i - 1] * base + s[i]]
           g == CHOOSE g : Rec(g)
<1>3. Digits(base, s) = g[Len(s)]
  BY DEF Digits
<1>4. Rec(v)
  <2>1. v = [i \in 0 .. n |-> v[i]] /\ v[0] = 0
    BY <1>1 DEF ValuesOf
  <2>2. \A i \in 0 .. n : v[i] = IF i = 0 THEN 0 ELSE v[i - 1] * base + s[i]
    BY <1>1 DEF ValuesOf
  <2> QED
    BY <1>2, <2>1, <2>2
<1>5. Rec(g)
  <2> HIDE DEF Rec
  <2> QED
    BY <1>4
<1> HIDE DEF g
<1>6. g[0] = 0 /\ \A i \in 1 .. n : g[i] = g[i - 1] * base + s[i]
  BY <1>2, <1>5
<1> DEFINE S == {i \in 0 .. n : g[i] = v[i]}
<1>7. 0 \in S /\ \A i \in 0 .. n - 1 : i \in S => i + 1 \in S
  BY <1>1, <1>6 DEF ValuesOf
<1> HIDE DEF S
<1>8. \A i \in 0 .. n : i \in S
  BY <1>7, SetInduction
<1> QED
  BY <1>1, <1>2, <1>3, <1>8 DEF S

\* Digits below the base make a number below the power.
LEMMA ValuesBound ==
    ASSUME NEW base \in Nat \ {0}, NEW n \in Nat, NEW s \in [1 .. n -> 0 .. base - 1],
           NEW p, PowersOf(p, base, n), NEW v, ValuesOf(v, base, s, n)
    PROVE  \A i \in 0 .. n : v[i] < p[i]
<1> DEFINE S == {i \in 0 .. n : v[i] < p[i]}
<1>1. 0 \in S
  BY DEF ValuesOf, PowersOf
<1>2. ASSUME NEW i \in 0 .. n - 1, i \in S
      PROVE  i + 1 \in S
  <2> DEFINE a == v[i]
             b == p[i]
             d == s[i + 1]
  <2>1. a \in Nat /\ b \in Nat /\ a < b /\ d \in 0 .. base - 1
    BY <1>2 DEF ValuesOf, PowersOf
  <2>2. v[i + 1] = a * base + d /\ p[i + 1] = b * base
    <3>1. i + 1 \in 1 .. n /\ (i + 1) - 1 = i
      OBVIOUS
    <3> QED
      BY <3>1 DEF ValuesOf, PowersOf
  <2> HIDE DEF a, b, d
  <2>3. PICK e \in Nat : b = (a + 1) + e
    <3>1. b - (a + 1) \in Nat /\ b = (a + 1) + (b - (a + 1))
      BY <2>1
    <3> QED
      BY <3>1
  <2>4. ((a + 1) + e) * base = a * base + base + e * base
    BY <2>1, <2>3
  <2>5. a * base \in Nat /\ e * base \in Nat
    BY <2>1, <2>3
  <2>6. a * base + d < b * base
    BY <2>1, <2>3, <2>4, <2>5
  <2>7. i + 1 \in 0 .. n
    OBVIOUS
  <2> QED
    BY <2>2, <2>6, <2>7
<1> HIDE DEF S
<1>3. \A i \in 0 .. n : i \in S
  BY <1>1, <1>2, SetInduction
<1> QED
  BY <1>3 DEF S

LEMMA DigitsBound ==
    ASSUME NEW base \in Nat \ {0}, NEW n \in Nat, NEW s \in [1 .. n -> 0 .. base - 1],
           NEW p, PowersOf(p, base, n)
    PROVE  Digits(base, s) \in 0 .. p[n] - 1
<1>1. s \in [1 .. n -> Nat] /\ base \in Nat
  OBVIOUS
<1>2. PICK v : ValuesOf(v, base, s, n) /\ Digits(base, s) = v[n]
  BY <1>1, DigitsValue
<1>3. v[n] < p[n]
  BY <1>2, ValuesBound
<1>4. v[n] \in Nat /\ p[n] \in Nat
  BY <1>2 DEF ValuesOf, PowersOf
<1> QED
  BY <1>2, <1>3, <1>4

\* The digits of a number, written by division, make the number again.
LEMMA DigitsOfNumber ==
    ASSUME NEW base \in Nat \ {0}, NEW n \in Nat, NEW p, PowersOf(p, base, n),
           NEW m \in 0 .. p[n] - 1,
           NEW s, s = [i \in 1 .. n |-> (m \div p[n - i]) % base]
    PROVE  /\ s \in [1 .. n -> 0 .. base - 1]
           /\ Digits(base, s) = m
<1>1. m \in Nat /\ base \in Nat /\ \A i \in 0 .. n : p[i] \in Nat \ {0}
  BY DEF PowersOf
<1>2. \A i \in 1 .. n : (m \div p[n - i]) % base \in 0 .. base - 1
  <2> SUFFICES ASSUME NEW i \in 1 .. n
               PROVE  (m \div p[n - i]) % base \in 0 .. base - 1
    OBVIOUS
  <2>1. n - i \in 0 .. n
    OBVIOUS
  <2> QED
    BY <1>1, <2>1, Quotient, DivisionBack
<1>3. s \in [1 .. n -> 0 .. base - 1]
  BY <1>2
<1>4. s \in [1 .. n -> Nat]
  BY <1>3
<1>5. PICK v : ValuesOf(v, base, s, n) /\ Digits(base, s) = v[n]
  BY <1>1, <1>4, DigitsValue
<1> DEFINE S == {i \in 0 .. n : v[i] = m \div p[n - i]}
<1>6. 0 \in S
  <2>1. v[0] = 0 /\ p[n] \in Nat \ {0} /\ n - 0 = n
    BY <1>1, <1>5 DEF ValuesOf
  <2>2. 0 * p[n] = 0
    BY <2>1
  <2>3. m \div p[n] = 0
    BY <1>1, <2>1, <2>2, QuotientUnique
  <2> QED
    BY <2>1, <2>3
<1>7. ASSUME NEW i \in 0 .. n - 1, i \in S
      PROVE  i + 1 \in S
  <2> DEFINE j == n - (i + 1)
             q == m \div p[j]
  <2>1. j \in 0 .. n - 1 /\ j + 1 = n - i /\ i + 1 \in 1 .. n
    OBVIOUS
  <2>2. p[j] \in Nat \ {0} /\ p[n - i] = p[j] * base
    BY <1>1, <2>1 DEF PowersOf
  <2>3. q \in Nat
    BY <1>1, <2>2, Quotient
  <2>4. v[i] = q \div base
    <3>1. v[i] = m \div p[n - i]
      BY <1>7
    <3>2. m \div (p[j] * base) = (m \div p[j]) \div base
      BY <1>1, <2>2, QuotientOfQuotient
    <3> QED
      BY <2>2, <3>1, <3>2
  <2>5. v[i + 1] = v[i] * base + s[i + 1]
    <3>1. (i + 1) - 1 = i
      OBVIOUS
    <3> QED
      BY <1>5, <2>1, <3>1 DEF ValuesOf
  <2>6. s[i + 1] = q % base
    BY <2>1
  <2> HIDE DEF q
  <2>7. v[i + 1] = q
    BY <2>3, <2>4, <2>5, <2>6, DivisionBack
  <2> QED
    BY <2>1, <2>7 DEF q
<1> HIDE DEF S
<1>8. \A i \in 0 .. n : i \in S
  BY <1>6, <1>7, SetInduction
<1>9. v[n] = m \div p[n - n]
  BY <1>8 DEF S
<1>10. m \div 1 = m /\ n - n = 0 /\ p[0] = 1
  BY <1>1 DEF PowersOf
<1> QED
  BY <1>3, <1>5, <1>9, <1>10

\* The number that digits make has these digits.
LEMMA NumberOfDigits ==
    ASSUME NEW base \in Nat \ {0}, NEW n \in Nat, NEW p, PowersOf(p, base, n),
           NEW s \in [1 .. n -> 0 .. base - 1], NEW i \in 1 .. n
    PROVE  (Digits(base, s) \div p[n - i]) % base = s[i]
<1> DEFINE m == Digits(base, s)
<1>1. base \in Nat /\ s \in [1 .. n -> Nat] /\ \A k \in 0 .. n : p[k] \in Nat \ {0}
  BY DEF PowersOf
<1>2. PICK v : ValuesOf(v, base, s, n) /\ m = v[n]
  BY <1>1, DigitsValue
<1> HIDE DEF m
<1>3. \A k \in 0 .. n : v[k] \in Nat
  BY <1>2 DEF ValuesOf
<1>4. ASSUME NEW k \in 1 .. n
      PROVE  v[k] \div base = v[k - 1] /\ v[k] % base = s[k]
  <2>1. v[k] = v[k - 1] * base + s[k] /\ v[k - 1] \in Nat
    BY <1>2, <1>3 DEF ValuesOf
  <2> QED
    BY <2>1, Division
<1> DEFINE S == {k \in 0 .. n : m \div p[k] = v[n - k]}
<1>5. 0 \in S
  <2>1. m \in Nat
    BY <1>2, <1>3
  <2>2. m \div 1 = m /\ p[0] = 1 /\ n - 0 = n
    BY <2>1 DEF PowersOf
  <2> QED
    BY <1>2, <2>2
<1>6. ASSUME NEW k \in 0 .. n - 1, k \in S
      PROVE  k + 1 \in S
  <2>1. m \in Nat /\ p[k] \in Nat \ {0} /\ p[k + 1] = p[k] * base
    BY <1>1, <1>2, <1>3 DEF PowersOf
  <2>2. m \div p[k + 1] = (m \div p[k]) \div base
    <3>1. m \div (p[k] * base) = (m \div p[k]) \div base
      BY <2>1, QuotientOfQuotient
    <3> QED
      BY <2>1, <3>1
  <2>3. m \div p[k] = v[n - k]
    BY <1>6
  <2>4. v[n - k] \div base = v[(n - k) - 1]
    <3>1. n - k \in 1 .. n
      OBVIOUS
    <3> QED
      BY <1>4, <3>1
  <2>5. (n - k) - 1 = n - (k + 1) /\ k + 1 \in 0 .. n
    OBVIOUS
  <2> QED
    BY <2>2, <2>3, <2>4, <2>5
<1> HIDE DEF S
<1>7. \A k \in 0 .. n : k \in S
  BY <1>5, <1>6, SetInduction
<1>8. n - i \in 0 .. n /\ n - (n - i) = i
  OBVIOUS
<1>9. m \div p[n - i] = v[i]
  BY <1>7, <1>8 DEF S
<1> QED
  BY <1>4, <1>9 DEF m

LEMMA Constants ==
    /\ Bits \in Nat \ {0} /\ Width \in Nat \ {0} /\ MaxSize \in Nat \ {0}
    /\ MaxSaid \in Nat \ {0} /\ PieceCount \in Nat
    /\ Bits * Width \in Nat
BY WireAssumption

LEMMA PowersAreNumbers == \A k \in 0 .. Bits * Width + 1 : 2^k \in Nat \ {0}
<1> DEFINE n == Bits * Width + 1
           S == {k \in 0 .. n : 2^k \in Nat \ {0}}
<1>1. n \in Nat
  BY Constants
<1>2. 0 \in S
  BY <1>1, PowersAssumption
<1>3. ASSUME NEW k \in 0 .. n - 1, k \in S
      PROVE  k + 1 \in S
  <2>1. k \in 0 .. Bits * Width
    BY Constants
  <2>2. 2^(k + 1) = 2 * 2^k
    BY <2>1, PowersAssumption
  <2>3. 2^k \in Nat \ {0}
    BY <1>3
  <2>4. 2^(k + 1) \in Nat \ {0}
    BY <2>2, <2>3
  <2>5. k + 1 \in 0 .. n
    BY <1>1
  <2> QED
    BY <2>4, <2>5
<1> HIDE DEF S, n
<1>4. \A k \in 0 .. n : k \in S
  BY <1>1, <1>2, <1>3, SetInduction
<1> QED
  BY <1>4 DEF S, n

\* The powers of two, and those of a byte.
LEMMA PowersOfTwo == PowersOf([i \in 0 .. Bits |-> 2^i], 2, Bits)
<1>1. Bits <= Bits * Width
  BY Constants
<1>2. \A i \in 0 .. Bits : i \in 0 .. Bits * Width + 1
  BY <1>1, Constants
<1>3. \A i \in 0 .. Bits - 1 : 2^(i + 1) = 2^i * 2
  <2> SUFFICES ASSUME NEW i \in 0 .. Bits - 1
               PROVE  2^(i + 1) = 2^i * 2
    OBVIOUS
  <2>1. i \in 0 .. Bits * Width
    BY <1>1, Constants
  <2>2. 2^(i + 1) = 2 * 2^i
    BY <2>1, PowersAssumption
  <2>3. 2^i \in Nat
    <3>1. i \in 0 .. Bits
      BY Constants
    <3> QED
      BY <1>2, <3>1, PowersAreNumbers
  <2> QED
    BY <2>2, <2>3
<1> DEFINE P(i) == 2^i
<1>4. /\ \A i \in 0 .. Bits : P(i) \in Nat \ {0}
      /\ P(0) = 1
      /\ \A i \in 0 .. Bits - 1 : P(i + 1) = P(i) * 2
  BY <1>2, <1>3, PowersAssumption, PowersAreNumbers
<1> HIDE DEF P
<1>5. PowersOf([i \in 0 .. Bits |-> P(i)], 2, Bits)
  BY <1>4, Constants DEF PowersOf
<1> QED
  BY <1>5 DEF P

LEMMA PowerOfSum ==
    ASSUME NEW a \in Nat, NEW b \in Nat, a + b <= Bits * Width + 1
    PROVE  2^(a + b) = 2^a * 2^b
<1> DEFINE S == {i \in 0 .. b : 2^(a + i) = 2^a * 2^i}
<1>1. 0 \in S
  <2>1. 2^a \in Nat /\ a + 0 = a
    BY Constants, PowersAreNumbers
  <2> QED
    BY <2>1, PowersAssumption
<1>2. ASSUME NEW i \in 0 .. b - 1, i \in S
      PROVE  i + 1 \in S
  <2>1. a + i \in 0 .. Bits * Width /\ i \in 0 .. Bits * Width /\ a \in 0 .. Bits * Width + 1
    BY Constants
  <2>2. 2^(a + (i + 1)) = 2 * 2^(a + i) /\ 2^(i + 1) = 2 * 2^i
    <3>1. a + (i + 1) = (a + i) + 1
      OBVIOUS
    <3> QED
      BY <2>1, <3>1, PowersAssumption
  <2>3. 2^(a + i) = 2^a * 2^i
    BY <1>2
  <2>4. 2^a \in Nat /\ 2^i \in Nat
    BY <2>1, PowersAreNumbers, Constants
  <2> DEFINE x == 2^a
             y == 2^i
  <2>5. x * (2 * y) = 2 * (x * y)
    BY <2>4
  <2>6. 2^(a + (i + 1)) = 2^a * 2^(i + 1)
    BY <2>2, <2>3, <2>5
  <2>7. i + 1 \in 0 .. b
    OBVIOUS
  <2> QED
    BY <2>6, <2>7
<1> HIDE DEF S
<1>3. \A i \in 0 .. b : i \in S
  BY <1>1, <1>2, SetInduction
<1>4. b \in S
  BY <1>3
<1> QED
  BY <1>4 DEF S

LEMMA PowersOfByte == PowersOf([i \in 0 .. Width |-> 2^(Bits * i)], 2^Bits, Width)
<1>1. ASSUME NEW i \in 0 .. Width
      PROVE  Bits * i \in 0 .. Bits * Width
  <2>1. PICK d \in Nat : Width = i + d
    <3>1. Width - i \in Nat /\ Width = i + (Width - i)
      BY Constants
    <3> QED
      BY <3>1
  <2>2. Bits * (i + d) = Bits * i + Bits * d
    BY Constants
  <2>3. Bits * i \in Nat /\ Bits * d \in Nat
    BY Constants
  <2> QED
    BY <2>1, <2>2, <2>3
<1>2. \A i \in 0 .. Width : 2^(Bits * i) \in Nat \ {0}
  BY <1>1, Constants, PowersAreNumbers
<1>3. ASSUME NEW i \in 0 .. Width - 1
      PROVE  2^(Bits * (i + 1)) = 2^(Bits * i) * 2^Bits
  <2>1. Bits * (i + 1) = Bits * i + Bits /\ i + 1 \in 0 .. Width
    BY Constants
  <2>2. Bits * i \in Nat /\ Bits * i + Bits <= Bits * Width + 1
    BY <1>1, <2>1, Constants
  <2>3. 2^(Bits * i + Bits) = 2^(Bits * i) * 2^Bits
    BY <2>2, Constants, PowerOfSum
  <2> QED
    BY <2>1, <2>3
<1>4. 2^(Bits * 0) = 1
  <2>1. Bits * 0 = 0
    BY Constants
  <2> QED
    BY <2>1, PowersAssumption
<1> DEFINE P(i) == 2^(Bits * i)
           base == 2^Bits
<1>5. /\ \A i \in 0 .. Width : P(i) \in Nat \ {0}
      /\ P(0) = 1
      /\ \A i \in 0 .. Width - 1 : P(i + 1) = P(i) * base
  BY <1>2, <1>3, <1>4
<1> HIDE DEF P, base
<1>6. PowersOf([i \in 0 .. Width |-> P(i)], base, Width)
  BY <1>5, Constants DEF PowersOf
<1> QED
  BY <1>6 DEF P, base

\* A number is Width bytes, which make it again.
LEMMA NumberBytes ==
    ASSUME NEW n \in Nat
    PROVE  Number(n) \in [1 .. Width -> Byte]
<1>1. ASSUME NEW i \in 1 .. Width
      PROVE  (n \div 2^(Bits * (Width - i))) % 2^Bits \in Byte
  <2>1. Width - i \in 0 .. Width
    BY Constants
  <2>2. 2^(Bits * (Width - i)) \in Nat \ {0}
    BY <2>1, PowersOfByte DEF PowersOf
  <2>3. 2^Bits \in Nat \ {0}
    BY Constants, PowersOfTwo DEF PowersOf
  <2>4. n \div 2^(Bits * (Width - i)) \in Nat
    BY <2>2, Quotient
  <2> QED
    BY <2>3, <2>4, DivisionBack DEF Byte
<1> QED
  BY <1>1 DEF Number

\* A number is read as it was written, the highest byte first (start_listener).
THEOREM NumberRead ==
    ASSUME NEW n \in Numbers
    PROVE  Value(Number(n)) = n
<1> DEFINE p == [i \in 0 .. Width |-> 2^(Bits * i)]
           base == 2^Bits
           s == [i \in 1 .. Width |-> (n \div p[Width - i]) % base]
<1>1. PowersOf(p, base, Width)
  BY PowersOfByte
<1>2. \A i \in 1 .. Width : p[Width - i] = 2^(Bits * (Width - i))
  BY Constants
<1>3. s = Number(n)
  BY <1>2 DEF Number
<1>4. n \in 0 .. p[Width] - 1
  BY Constants DEF Numbers
<1>5. base \in Nat \ {0}
  BY Constants, PowersOfTwo DEF PowersOf
<1> HIDE DEF p, base
<1>6. Digits(base, s) = n
  BY <1>1, <1>4, <1>5, Constants, DigitsOfNumber
<1> QED
  BY <1>3, <1>6 DEF Value, base

LEMMA ValueBound ==
    ASSUME NEW bytes \in [1 .. Width -> Byte]
    PROVE  Value(bytes) \in Numbers
<1> DEFINE p == [i \in 0 .. Width |-> 2^(Bits * i)]
           base == 2^Bits
<1>1. PowersOf(p, base, Width)
  BY PowersOfByte
<1>2. base \in Nat \ {0}
  BY Constants, PowersOfTwo DEF PowersOf
<1>3. bytes \in [1 .. Width -> 0 .. base - 1]
  BY DEF Byte
<1>4. p[Width] = 2^(Bits * Width)
  BY Constants
<1> HIDE DEF p, base
<1>5. Digits(base, bytes) \in 0 .. p[Width] - 1
  BY <1>1, <1>2, <1>3, Constants, DigitsBound
<1> QED
  BY <1>4, <1>5 DEF Value, Numbers, base

\* A bitfield has a bit for each piece.
LEMMA BitfieldLength ==
    /\ BitfieldBytes \in Nat
    /\ \A i \in Pieces : /\ (i \div Bits) + 1 \in 1 .. BitfieldBytes
                         /\ i % Bits \in 0 .. Bits - 1
                         /\ i \in Nat
<1> DEFINE n == (PieceCount + Bits) - 1
           b == BitfieldBytes
<1>1. n \in Nat /\ b = n \div Bits
  BY Constants DEF BitfieldBytes
<1>2. b \in Nat /\ n < b * Bits + Bits
  BY <1>1, Constants, Quotient
<1> HIDE DEF b
<1>3. ASSUME NEW i \in Pieces
      PROVE  (i \div Bits) + 1 \in 1 .. b /\ i % Bits \in 0 .. Bits - 1 /\ i \in Nat
  <2> DEFINE q == i \div Bits
  <2>1. i \in Nat /\ i + Bits <= n
    BY Constants DEF Pieces
  <2>2. q \in Nat /\ q * Bits <= i /\ i % Bits \in 0 .. Bits - 1
    BY <2>1, Constants, Quotient, DivisionBack
  <2> HIDE DEF q, n
  <2>3. (q + 1) * Bits = q * Bits + Bits /\ (b + 1) * Bits = b * Bits + Bits
    BY <1>2, <2>2, Constants, NextMultiple
  <2>4. (q + 1) * Bits < (b + 1) * Bits
    <3>1. q * Bits \in Nat /\ b * Bits \in Nat /\ n \in Nat
      BY <1>1, <1>2, <2>2, Constants
    <3> QED
      BY <1>2, <2>1, <2>2, <2>3, <3>1, Constants
  <2>5. q + 1 < b + 1
    BY <1>2, <2>2, <2>4, Constants, MultiplesOrdered
  <2>6. (i \div Bits) + 1 \in 1 .. b
    BY <1>2, <2>2, <2>5 DEF q
  <2> QED
    BY <2>1, <2>2, <2>6
<1> QED
  BY <1>2, <1>3 DEF b

\* The bytes of a bitfield, and the set of pieces read from them.
PiecesBytes(S) == [k \in 1 .. BitfieldBytes |-> ByteOf(S, k)]

\* A bitfield is read as the pieces it was written from, the highest bit first, and
\* the bits past the last piece are left (start_listener).
THEOREM BitfieldRead ==
    ASSUME NEW S \in SUBSET Pieces
    PROVE  /\ PiecesBytes(S) \in [1 .. BitfieldBytes -> Byte]
           /\ BitfieldOf(PiecesBytes(S)) = S
<1> DEFINE p == [i \in 0 .. Bits |-> 2^i]
           d(k) == [i \in 1 .. Bits |-> Bit(S, Bits * (k - 1) + i - 1)]
<1>1. PowersOf(p, 2, Bits)
  BY PowersOfTwo
<1>2. \A k : d(k) \in [1 .. Bits -> 0 .. 1]
  BY DEF Bit
<1>3. ASSUME NEW k
      PROVE  ByteOf(S, k) \in Byte
  <2>1. ByteOf(S, k) = Digits(2, d(k))
    BY DEF ByteOf
  <2>2. d(k) \in [1 .. Bits -> 0 .. 2 - 1]
    BY <1>2
  <2>3. p[Bits] = 2^Bits
    BY Constants
  <2> HIDE DEF p, d
  <2>4. Digits(2, d(k)) \in 0 .. p[Bits] - 1
    BY <1>1, <2>2, Constants, DigitsBound
  <2> QED
    BY <2>1, <2>3, <2>4 DEF Byte
<1>4. ASSUME NEW i \in Pieces
      PROVE  BitOf(PiecesBytes(S)[(i \div Bits) + 1], i % Bits) = Bit(S, i)
  <2> DEFINE k == (i \div Bits) + 1
             j == (i % Bits) + 1
  <2>1. /\ i \div Bits \in Nat /\ i % Bits \in 0 .. Bits - 1 /\ i \in Nat
        /\ k \in 1 .. BitfieldBytes /\ i = (i \div Bits) * Bits + (i % Bits)
    BY BitfieldLength, Constants, Quotient, DivisionBack
  <2>2. PiecesBytes(S)[k] = Digits(2, d(k))
    BY <2>1 DEF PiecesBytes, ByteOf
  <2>3. j \in 1 .. Bits /\ d(k) \in [1 .. Bits -> 0 .. 2 - 1]
    <3>1. j \in 1 .. Bits
      BY <2>1, Constants
    <3>2. d(k) \in [1 .. Bits -> 0 .. 2 - 1]
      <4> HIDE DEF d
      <4> QED
        BY <1>2
    <3> QED
      BY <3>1, <3>2
  <2>4. (Digits(2, d(k)) \div p[Bits - j]) % 2 = d(k)[j]
    <3> HIDE DEF p, d, j, k
    <3> QED
      BY <1>1, <2>3, Constants, NumberOfDigits
  <2>5. p[Bits - j] = 2^((Bits - 1) - (i % Bits))
    <3>1. Bits - j \in 0 .. Bits /\ Bits - j = (Bits - 1) - (i % Bits)
      BY <2>1, Constants
    <3> QED
      BY <3>1
  <2>6. d(k)[j] = Bit(S, i)
    <3>1. k - 1 = i \div Bits /\ Bits * (i \div Bits) = (i \div Bits) * Bits
      BY <2>1, Constants
    <3>2. Bits * (k - 1) + j - 1 = i
      <4> DEFINE x == i \div Bits
                 y == i % Bits
                 z == Bits * x
      <4>1. z \in Nat /\ i = z + y /\ y \in Nat
        BY <2>1, <3>1, Constants
      <4>2. z + (y + 1) - 1 = i
        <5> HIDE DEF x, y, z
        <5> QED
          BY <4>1
      <4> QED
        BY <3>1, <4>2
    <3>3. \A x \in 1 .. Bits : d(k)[x] = Bit(S, Bits * (k - 1) + x - 1)
      <4> HIDE DEF k
      <4> QED
        OBVIOUS
    <3> HIDE DEF d, j, k
    <3> QED
      BY <2>3, <3>2, <3>3
  <2> QED
    BY <2>2, <2>4, <2>5, <2>6 DEF BitOf
<1>5. PiecesBytes(S) \in [1 .. BitfieldBytes -> Byte]
  BY <1>3 DEF PiecesBytes
<1>6. BitfieldOf(PiecesBytes(S)) = {i \in Pieces : Bit(S, i) = 1}
  BY <1>4 DEF BitfieldOf
<1> QED
  BY <1>5, <1>6 DEF Bit

-----------------------------------------------------------------------------
(* Sequences *)

\* What was put together can be cut again.
LEMMA Cut ==
    ASSUME NEW S, NEW a \in Seq(S), NEW b \in Seq(S)
    PROVE  /\ a \o b \in Seq(S)
           /\ Len(a \o b) = Len(a) + Len(b)
           /\ SubSeq(a \o b, 1, Len(a)) = a
           /\ SubSeq(a \o b, Len(a) + 1, Len(a \o b)) = b
<1> DEFINE c == a \o b
           x == SubSeq(c, 1, Len(a))
           y == SubSeq(c, Len(a) + 1, Len(c))
<1>1. /\ c \in Seq(S) /\ Len(c) = Len(a) + Len(b)
      /\ Len(a) \in Nat /\ Len(b) \in Nat
      /\ \A i \in 1 .. Len(a) : c[i] = a[i]
      /\ \A i \in 1 .. Len(b) : c[Len(a) + i] = b[i]
  BY ConcatProperties
<1>2. \A i \in 1 .. Len(c) : c[i] \in S
  BY <1>1, ElementOfSeq
<1> HIDE DEF c
<1>3. x \in Seq(S) /\ Len(x) = Len(a) /\ \A i \in 1 .. Len(a) : x[i] = c[i]
  <2>1. \A i \in 1 .. Len(a) : c[i] \in S
    BY <1>1, <1>2
  <2> QED
    BY <1>1, <2>1, SubSeqProperties
<1>4. y \in Seq(S) /\ Len(y) = Len(b) /\ \A i \in 1 .. Len(b) : y[i] = c[Len(a) + i]
  <2>1. \A i \in Len(a) + 1 .. Len(c) : c[i] \in S
    BY <1>1, <1>2
  <2> QED
    BY <1>1, <2>1, SubSeqProperties
<1> HIDE DEF x, y
<1>5. x = a
  BY <1>1, <1>3, SeqEqual
<1>6. y = b
  BY <1>1, <1>4, SeqEqual
<1> QED
  BY <1>1, <1>5, <1>6 DEF c, x, y

\* The beginning and the end of a sequence.
LEMMA Parts ==
    ASSUME NEW S, NEW s \in Seq(S), NEW n \in 0 .. Len(s)
    PROVE  /\ SubSeq(s, 1, n) \in Seq(S)
           /\ SubSeq(s, 1, n) \in [1 .. n -> S]
           /\ Len(SubSeq(s, 1, n)) = n
           /\ \A i \in 1 .. n : SubSeq(s, 1, n)[i] = s[i]
           /\ SubSeq(s, n + 1, Len(s)) \in Seq(S)
           /\ Len(SubSeq(s, n + 1, Len(s))) = Len(s) - n
<1>1. Len(s) \in Nat /\ \A i \in 1 .. Len(s) : s[i] \in S
  BY ElementOfSeq
<1> DEFINE x == SubSeq(s, 1, n)
           y == SubSeq(s, n + 1, Len(s))
<1>2. x \in Seq(S) /\ Len(x) = n /\ \A i \in 1 .. n : x[i] = s[i]
  BY <1>1, SubSeqProperties
<1>3. y \in Seq(S) /\ Len(y) = Len(s) - n
  BY <1>1, SubSeqProperties
<1> HIDE DEF x, y
<1>4. x \in [1 .. n -> S]
  BY <1>2, LenProperties
<1> QED
  BY <1>2, <1>3, <1>4 DEF x, y

-----------------------------------------------------------------------------
(* Messages: a length, a type, a payload *)

TypeOf(m) ==
    CASE m.kind = "choked"   -> IF m.choked THEN 0 ELSE 1
      [] m.kind = "have"     -> 4
      [] m.kind = "bitfield" -> 5
      [] m.kind = "block"    -> 7
      [] m.kind = "other"    -> m.type

PayloadOf(m) ==
    CASE m.kind = "choked"   -> <<>>
      [] m.kind = "have"     -> Number(m.index)
      [] m.kind = "bitfield" -> PiecesBytes(m.pieces)
      [] m.kind = "block"    -> Number(m.index) \o Number(m.begin) \o m.data
      [] m.kind = "other"    -> m.payload

LEMMA Kinds ==
    ASSUME NEW m \in Messages
    PROVE  \/ m.kind = "keepalive" /\ m = KeepAlive
           \/ m.kind = "choked" /\ m.choked \in BOOLEAN /\ m = Choked(m.choked)
           \/ m.kind = "have" /\ m.index \in Numbers /\ m = Have(m.index)
           \/ m.kind = "bitfield" /\ m.pieces \in SUBSET Pieces /\ m = Bitfield(m.pieces)
           \/ /\ m.kind = "block" /\ m.index \in Numbers /\ m.begin \in Numbers
              /\ m.data \in Seq(Byte) /\ m = Block(m.index, m.begin, m.data)
           \/ m.kind = "other" /\ m.type \in Byte /\ m.payload \in Seq(Byte)
<1>1. CASE m \in [kind : {"keepalive"}]
  BY <1>1 DEF KeepAlive
<1>2. CASE m \in [kind : {"choked"}, choked : BOOLEAN]
  BY <1>2 DEF Choked
<1>3. CASE m \in [kind : {"have"}, index : Numbers]
  BY <1>3 DEF Have
<1>4. CASE m \in [kind : {"bitfield"}, pieces : SUBSET Pieces]
  BY <1>4 DEF Bitfield
<1>5. CASE m \in [kind : {"block"}, index : Numbers, begin : Numbers, data : Seq(Byte)]
  BY <1>5 DEF Block
<1>6. CASE m \in [kind : {"other"}, type : Byte, payload : Seq(Byte)]
  BY <1>6
<1> QED
  BY <1>1, <1>2, <1>3, <1>4, <1>5, <1>6 DEF Messages

LEMMA NumberSeq ==
    ASSUME NEW n \in Nat
    PROVE  Number(n) \in Seq(Byte) /\ Len(Number(n)) = Width
<1>1. Number(n) \in [1 .. Width -> Byte] /\ Width \in Nat
  BY NumberBytes, Constants
<1> QED
  BY <1>1

LEMMA NumbersAreNat == Numbers \subseteq Nat /\ Byte \subseteq Int
  BY DEF Numbers, Byte

\* The lengths that are announced can be.
LEMMA Sizes == \A n \in 0 .. MaxSize - 1 : n \in Numbers
<1> DEFINE x == 2^(Bits * Width)
<1>1. x \in Nat \ {0}
  <2>1. Bits * Width \in 0 .. Bits * Width + 1
    BY Constants
  <2> QED
    BY <2>1, PowersAreNumbers
<1>2. MaxSize <= x
  BY WireAssumption
<1>3. Numbers = 0 .. x - 1
  BY DEF Numbers
<1> HIDE DEF x
<1> QED
  BY <1>1, <1>2, <1>3, Constants

LEMMA MessageTypes ==
    ASSUME NEW m \in Messages, m.kind # "keepalive"
    PROVE  /\ TypeOf(m) \in Byte
           /\ PayloadOf(m) \in Seq(Byte)
           /\ Encode(m) = Message(TypeOf(m), PayloadOf(m))
<1>0. 0 \in Byte /\ 1 \in Byte /\ 4 \in Byte /\ 5 \in Byte /\ 7 \in Byte
  BY WireAssumption
<1>1. CASE m.kind = "choked"
  BY <1>0, <1>1, Kinds DEF TypeOf, PayloadOf, Encode
<1>2. CASE m.kind = "have"
  BY <1>0, <1>2, Kinds, NumberSeq, NumbersAreNat DEF TypeOf, PayloadOf, Encode
<1>3. CASE m.kind = "bitfield"
  <2>1. m.pieces \in SUBSET Pieces
    BY <1>3, Kinds
  <2>2. PiecesBytes(m.pieces) \in [1 .. BitfieldBytes -> Byte] /\ BitfieldBytes \in Nat
    BY <2>1, BitfieldRead, BitfieldLength
  <2>3. PiecesBytes(m.pieces) \in Seq(Byte)
    BY <2>2
  <2>4. PayloadOf(m) = PiecesBytes(m.pieces) /\ TypeOf(m) = 5
    BY <1>3 DEF TypeOf, PayloadOf
  <2>5. Encode(m) = Message(5, PiecesBytes(m.pieces))
    BY <1>3 DEF Encode, PiecesBytes
  <2> QED
    BY <1>0, <2>3, <2>4, <2>5
<1>4. CASE m.kind = "block"
  <2>1. Number(m.index) \in Seq(Byte) /\ Number(m.begin) \in Seq(Byte) /\ m.data \in Seq(Byte)
    BY <1>4, Kinds, NumberSeq, NumbersAreNat
  <2>2. Number(m.index) \o Number(m.begin) \o m.data \in Seq(Byte)
    BY <2>1, Cut
  <2> QED
    BY <1>0, <1>4, <2>2 DEF TypeOf, PayloadOf, Encode
<1>5. CASE m.kind = "other"
  BY <1>5, Kinds DEF TypeOf, PayloadOf, Encode
<1> QED
  BY <1>1, <1>2, <1>3, <1>4, <1>5, Kinds

\* A message in the stream: its length, which can be announced, and the rest.
LEMMA MessageParts ==
    ASSUME NEW m \in Messages, m.kind # "keepalive"
    PROVE  /\ PayloadOf(m) \in Seq(Byte) /\ TypeOf(m) \in Byte
           /\ Len(PayloadOf(m)) \in Nat
           /\ Number(1 + Len(PayloadOf(m))) \in Seq(Byte)
           /\ Len(Number(1 + Len(PayloadOf(m)))) = Width
           /\ <<TypeOf(m)>> \o PayloadOf(m) \in Seq(Byte)
           /\ Encode(m) \in Seq(Byte)
           /\ Encode(m) = Number(1 + Len(PayloadOf(m))) \o (<<TypeOf(m)>> \o PayloadOf(m))
           /\ Len(Encode(m)) = Width + 1 + Len(PayloadOf(m))
<1> DEFINE p == PayloadOf(m)
           t == <<TypeOf(m)>>
           n == Number(1 + Len(p))
<1>1. p \in Seq(Byte) /\ TypeOf(m) \in Byte /\ Encode(m) = (n \o t) \o p
  BY MessageTypes DEF Message
<1>2. t \in Seq(Byte) /\ Len(t) = 1
  BY <1>1
<1>3. Len(p) \in Nat
  BY <1>1
<1>4. n \in Seq(Byte) /\ Len(n) = Width
  BY <1>3, NumberSeq
<1> HIDE DEF n, t, p
<1>5. (n \o t) \o p = n \o (t \o p)
  BY <1>1, <1>2, <1>4, ConcatAssociative
<1>6. t \o p \in Seq(Byte) /\ Len(t \o p) = 1 + Len(p)
  <2>1. p \in Seq(Byte)
    BY <1>1
  <2> QED
    BY <1>2, <1>3, <2>1, ConcatProperties
<1>7. n \o (t \o p) \in Seq(Byte) /\ Len(n \o (t \o p)) = Width + (1 + Len(p))
  BY <1>4, <1>6
<1>8. Len(Encode(m)) = Width + 1 + Len(p)
  BY <1>1, <1>3, <1>5, <1>7, Constants
<1> QED
  BY <1>1, <1>3, <1>4, <1>5, <1>6, <1>7, <1>8 DEF n, t, p

LEMMA EncodeBytes ==
    ASSUME NEW m \in Messages
    PROVE  Encode(m) \in Seq(Byte)
<1>1. CASE m.kind = "keepalive"
  BY <1>1, NumberSeq DEF Encode
<1> QED
  BY <1>1, MessageParts

-----------------------------------------------------------------------------
(* What messages tell *)

LEMMA PrefixOfItself ==
    ASSUME NEW S, NEW s \in Seq(S)
    PROVE  IsPrefix(s, s)
BY DEF IsPrefix

LEMMA PrefixOfMore ==
    ASSUME NEW S, NEW s \in Seq(S), NEW t \in Seq(S), NEW e \in S, IsPrefix(s, t)
    PROVE  IsPrefix(s, Append(t, e))
<1> DEFINE u == Append(t, e)
           n == Len(s)
<1>1. /\ u \in Seq(S) /\ Len(u) = Len(t) + 1 /\ Len(t) \in Nat /\ n \in Nat /\ n <= Len(t)
      /\ \A i \in 1 .. Len(t) : u[i] = t[i]
  BY AppendProperties DEF IsPrefix
<1> HIDE DEF u
<1>2. /\ SubSeq(t, 1, n) \in Seq(S) /\ Len(SubSeq(t, 1, n)) = n
      /\ \A i \in 1 .. n : SubSeq(t, 1, n)[i] = t[i]
  <2> HIDE DEF n
  <2> QED
    BY <1>1, Parts
<1>3. /\ SubSeq(u, 1, n) \in Seq(S) /\ Len(SubSeq(u, 1, n)) = n
      /\ \A i \in 1 .. n : SubSeq(u, 1, n)[i] = u[i]
  <2>1. n \in 0 .. Len(u)
    BY <1>1
  <2> HIDE DEF n
  <2> QED
    BY <1>1, <2>1, Parts
<1>4. SubSeq(u, 1, n) = SubSeq(t, 1, n)
  <2> DEFINE x == SubSeq(u, 1, n)
             y == SubSeq(t, 1, n)
  <2>1. Len(x) = Len(y) /\ \A i \in 1 .. Len(x) : x[i] = y[i]
    BY <1>1, <1>2, <1>3
  <2>2. x \in Seq(S) /\ y \in Seq(S)
    BY <1>2, <1>3
  <2> HIDE DEF x, y
  <2>3. x = y
    BY <2>1, <2>2, SeqEqual
  <2> QED
    BY <2>3 DEF x, y
<1> QED
  BY <1>1, <1>4 DEF IsPrefix, u

\* What is told after one more message.
More(told, m) == IF Tells(m) THEN Append(told, m) ELSE told

LEMMA MoreIsTold ==
    ASSUME NEW told \in Seq(Messages), NEW m \in Messages
    PROVE  More(told, m) \in Seq(Messages)
BY AppendProperties DEF More

\* t holds what the first n messages of s tell, and the first n - 1, ...
ToldBy(t, s, n) ==
    /\ \A i \in 0 .. n : t[i] \in Seq(Messages)
    /\ t[0] = <<>>
    /\ \A i \in 1 .. n : t[i] = More(t[i - 1], s[i])

LEMMA ToldExists ==
    ASSUME NEW n \in Nat, NEW s \in [1 .. n -> Messages]
    PROVE  \E t : ToldBy(t, s, n)
<1> DEFINE S == {i \in 0 .. n : \E t : ToldBy(t, s, i)}
<1>1. 0 \in S
  <2>1. ToldBy([i \in 0 .. 0 |-> <<>>], s, 0)
    BY DEF ToldBy
  <2> QED
    BY <2>1
<1>2. ASSUME NEW i \in 0 .. n - 1, i \in S
      PROVE  i + 1 \in S
  <2>1. PICK t : ToldBy(t, s, i)
    BY <1>2
  <2> DEFINE last == More(t[i], s[i + 1])
             u == [k \in 0 .. i + 1 |-> IF k = i + 1 THEN last ELSE t[k]]
  <2>2. last \in Seq(Messages)
    <3>1. t[i] \in Seq(Messages) /\ s[i + 1] \in Messages
      BY <2>1 DEF ToldBy
    <3> QED
      BY <3>1, MoreIsTold
  <2>3. u[i + 1] = last /\ \A k \in 0 .. i : u[k] = t[k]
    <3> HIDE DEF last
    <3> QED
      OBVIOUS
  <2>4. \A k \in 1 .. i + 1 : k = i + 1 \/ k \in 1 .. i
    OBVIOUS
  <2> HIDE DEF u
  <2>5. ToldBy(u, s, i + 1)
    <3>1. \A k \in 0 .. i + 1 : u[k] \in Seq(Messages)
      BY <2>1, <2>2, <2>3 DEF ToldBy
    <3>2. u[0] = <<>>
      BY <2>1, <2>3 DEF ToldBy
    <3>3. \A k \in 1 .. i : u[k] = More(u[k - 1], s[k])
      BY <2>1, <2>3 DEF ToldBy
    <3>4. u[i + 1] = More(u[i], s[i + 1])
      BY <2>3
    <3>5. (i + 1) - 1 = i
      OBVIOUS
    <3> QED
      BY <2>4, <3>1, <3>2, <3>3, <3>4, <3>5 DEF ToldBy
  <2>6. i + 1 \in 0 .. n
    OBVIOUS
  <2> QED
    BY <2>5, <2>6
<1> HIDE DEF S
<1>3. \A i \in 0 .. n : i \in S
  BY <1>1, <1>2, SetInduction
<1>4. n \in S
  BY <1>3
<1> QED
  BY <1>4 DEF S

LEMMA ToldIs ==
    ASSUME NEW n \in Nat, NEW s \in [1 .. n -> Messages], NEW t, ToldBy(t, s, n)
    PROVE  Told(s) = t[n]
<1>1. Len(s) = n
  OBVIOUS
<1> DEFINE Rec(g) == g = [i \in 0 .. Len(s) |->
                            IF i = 0 THEN <<>> ELSE More(g[i - 1], s[i])]
           g == CHOOSE g : Rec(g)
           w == [i \in 0 .. n |-> t[i]]
<1>2. Told(s) = g[Len(s)]
  BY DEF Told, More
<1>3. Rec(w)
  BY <1>1 DEF ToldBy
<1>4. Rec(g)
  <2> HIDE DEF Rec, w
  <2> QED
    BY <1>3
<1> HIDE DEF g
<1>5. /\ g[0] = <<>>
      /\ \A i \in 1 .. n : g[i] = More(g[i - 1], s[i])
  BY <1>1, <1>4
<1> DEFINE S == {i \in 0 .. n : g[i] = t[i]}
<1>6. 0 \in S /\ \A i \in 0 .. n - 1 : i \in S => i + 1 \in S
  BY <1>5 DEF ToldBy
<1> HIDE DEF S
<1>7. \A i \in 0 .. n : i \in S
  BY <1>6, SetInduction
<1> QED
  BY <1>1, <1>2, <1>7 DEF S

\* One message tells itself or nothing; and what was told before stays.
LEMMA ToldSteps ==
    ASSUME NEW s \in Seq(Messages)
    PROVE  /\ \A k \in 0 .. Len(s) : Told(SubSeq(s, 1, k)) \in Seq(Messages)
           /\ Told(SubSeq(s, 1, 0)) = <<>>
           /\ \A k \in 0 .. Len(s) - 1 :
                Told(SubSeq(s, 1, k + 1)) = More(Told(SubSeq(s, 1, k)), s[k + 1])
<1> DEFINE n == Len(s)
<1>1. n \in Nat /\ s \in [1 .. n -> Messages]
  OBVIOUS
<1>2. PICK t : ToldBy(t, s, n)
  <2> HIDE DEF n
  <2> QED
    BY <1>1, ToldExists
<1>3. ASSUME NEW k \in 0 .. n
      PROVE  Told(SubSeq(s, 1, k)) = t[k]
  <2> DEFINE q == SubSeq(s, 1, k)
  <2>1. q \in [1 .. k -> Messages] /\ \A i \in 1 .. k : q[i] = s[i]
    BY Parts
  <2> HIDE DEF q
  <2>2. ToldBy(t, q, k)
    BY <1>1, <1>2, <2>1 DEF ToldBy
  <2>3. Told(q) = t[k]
    <3>1. k \in Nat
      BY <1>1
    <3> QED
      BY <2>1, <2>2, <3>1, ToldIs
  <2> QED
    BY <2>3 DEF q
<1> HIDE DEF n
<1>4. \A k \in 0 .. n : t[k] \in Seq(Messages)
  BY <1>2 DEF ToldBy
<1>5. t[0] = <<>> /\ \A k \in 0 .. n - 1 : t[k + 1] = More(t[k], s[k + 1])
  BY <1>1, <1>2 DEF ToldBy
<1>6. 0 \in 0 .. n /\ \A k \in 0 .. n - 1 : k \in 0 .. n /\ k + 1 \in 0 .. n
  BY <1>1
<1> DEFINE T(k) == Told(SubSeq(s, 1, k))
<1>7. \A k \in 0 .. n : T(k) = t[k]
  BY <1>3
<1> HIDE DEF T
<1>8. /\ \A k \in 0 .. n : T(k) \in Seq(Messages)
      /\ T(0) = <<>>
      /\ \A k \in 0 .. n - 1 : T(k + 1) = More(T(k), s[k + 1])
  BY <1>4, <1>5, <1>6, <1>7
<1> QED
  BY <1>8 DEF T, n

LEMMA ToldGrows ==
    ASSUME NEW s \in Seq(Messages), NEW j \in 0 .. Len(s), NEW k \in j .. Len(s)
    PROVE  IsPrefix(Told(SubSeq(s, 1, j)), Told(SubSeq(s, 1, k)))
<1> DEFINE T(i) == Told(SubSeq(s, 1, i))
           n == Len(s) - j
           S == {i \in 0 .. n : IsPrefix(T(j), T(j + i))}
<1>1. Len(s) \in Nat /\ n \in Nat
  OBVIOUS
<1>2. /\ \A i \in 0 .. Len(s) : T(i) \in Seq(Messages)
      /\ \A i \in 0 .. Len(s) - 1 : T(i + 1) = More(T(i), s[i + 1])
  BY ToldSteps
<1> HIDE DEF T
<1>3. 0 \in S
  <2>1. IsPrefix(T(j), T(j))
    BY <1>2, PrefixOfItself
  <2>2. j + 0 = j /\ 0 \in 0 .. n
    BY <1>1
  <2> QED
    BY <2>1, <2>2
<1>4. ASSUME NEW i \in 0 .. n - 1, i \in S
      PROVE  i + 1 \in S
  <2> DEFINE a == j + i
  <2>1. a \in 0 .. Len(s) - 1 /\ a \in 0 .. Len(s) /\ j + (i + 1) = a + 1 /\ i + 1 \in 0 .. n
    BY <1>1
  <2>2. IsPrefix(T(j), T(a))
    BY <1>4
  <2> HIDE DEF a
  <2>3. s[a + 1] \in Messages
    BY <1>1, <2>1, ElementOfSeq
  <2>4. IsPrefix(T(j), T(a + 1))
    <3>1. T(j) \in Seq(Messages) /\ T(a) \in Seq(Messages)
      BY <1>2, <2>1
    <3>2. IsPrefix(T(j), Append(T(a), s[a + 1]))
      BY <2>2, <2>3, <3>1, PrefixOfMore
    <3> QED
      BY <1>2, <2>1, <2>2, <3>2 DEF More
  <2> QED
    BY <2>1, <2>4
<1> HIDE DEF S
<1>5. \A i \in 0 .. n : i \in S
  BY <1>1, <1>3, <1>4, SetInduction
<1>6. k - j \in 0 .. n /\ j + (k - j) = k
  BY <1>1
<1> QED
  BY <1>5, <1>6 DEF S, T

=============================================================================
