---------------------------- MODULE Addr6Proofs ----------------------------
(***************************************************************************)
(* Facts about the addresses and about addr6match, for every number and    *)
(* width of octets: on masked octets, on binary digits, and that comparing *)
(* octet by octet compares the first bits.                                 *)
(***************************************************************************)
EXTENDS Addr6, Numbers, FiniteSetTheorems, FunctionTheorems, TLAPS

-----------------------------------------------------------------------------
(* Numbers.                                                                *)

\* A quotient is determined by its remainder.
LEMMA Quotient ==
    ASSUME NEW d \in Nat \ {0}, NEW p \in Nat, NEW r \in Nat, r < d
    PROVE  (d * p + r) \div d = p /\ (d * p + r) % d = r
<1> DEFINE x == d * p + r
           q == x \div d
           s == x % d
<1>1. x = d * q + s /\ q \in Int /\ s \in Nat /\ s < d
  BY SMT
<1>2. d * (p - q) = s - r
  BY <1>1, SMT
<1>3. ~ (p - q >= 1)
  <2> SUFFICES ASSUME p - q >= 1 PROVE FALSE
    OBVIOUS
  <2>1. d * (p - q) >= d
    BY <1>1, SMT
  <2> QED BY <1>1, <1>2, <2>1, SMT
<1>4. ~ (p - q <= -1)
  <2> SUFFICES ASSUME p - q <= -1 PROVE FALSE
    OBVIOUS
  <2>1. d * (p - q) <= 0 - d
    BY <1>1, SMT
  <2> QED BY <1>1, <1>2, <2>1, SMT
<1>5. p = q
  BY <1>1, <1>3, <1>4, SMT
<1> QED BY <1>1, <1>2, <1>5, SMT

\* 2^k counts the subsets of a set of k elements, and there is at least one.
LEMMA PowerPositive ==
    ASSUME NEW k \in Nat
    PROVE  2^k \in Nat \ {0}
<1> DEFINE S == 1 .. k
<1>1. IsFiniteSet(S) /\ Cardinality(S) = k
  BY FS_Interval
<1>2. IsFiniteSet(SUBSET S) /\ Cardinality(SUBSET S) = 2^k
  BY <1>1, FS_SUBSET
<1>3. SUBSET S # {}
  BY {} \in SUBSET S
<1> QED BY <1>2, <1>3, FS_CardinalityType, FS_EmptySet

\* The empty set has one subset.
LEMMA PowerZero == 2^0 = 1
<1>1. SUBSET {} = {{}}
  OBVIOUS
<1> QED BY <1>1, FS_SUBSET, FS_EmptySet, FS_Singleton

\* One more element doubles the subsets: those without it, and those with it.
LEMMA PowerDoubles ==
    ASSUME NEW k \in Nat
    PROVE  2^(k + 1) = 2 * 2^k
<1> DEFINE S == 1 .. k
           x == k + 1
           A == SUBSET S
           B == {T \cup {x} : T \in A}
<1>1. IsFiniteSet(S) /\ Cardinality(S) = k
  BY FS_Interval
<1>2. IsFiniteSet(A) /\ Cardinality(A) = 2^k
  BY <1>1, FS_SUBSET
<1>3. x \notin S
  OBVIOUS
<1>4. IsFiniteSet(S \cup {x}) /\ Cardinality(S \cup {x}) = k + 1
  BY <1>1, <1>3, FS_AddElement
<1>5. Cardinality(SUBSET (S \cup {x})) = 2^(k + 1)
  BY <1>4, FS_SUBSET
<1>6. SUBSET (S \cup {x}) = A \cup B
  <2>1. ASSUME NEW U \in SUBSET (S \cup {x}) PROVE U \in A \cup B
    <3>1. CASE x \in U
      <4>1. U \ {x} \in A /\ U = (U \ {x}) \cup {x}
        BY <3>1
      <4> QED BY <4>1
    <3>2. CASE x \notin U
      BY <3>2
    <3> QED BY <3>1, <3>2
  <2>2. ASSUME NEW U \in A \cup B PROVE U \in SUBSET (S \cup {x})
    OBVIOUS
  <2> QED BY <2>1, <2>2
<1>7. A \cap B = {}
  BY <1>3
<1>8. ExistsBijection(A, B)
  <2> DEFINE f == [T \in A |-> T \cup {x}]
  <2>1. f \in [A -> B]
    OBVIOUS
  <2>2. \A b \in B : \E T \in A : f[T] = b
    OBVIOUS
  <2>3. ASSUME NEW T \in A, NEW U \in A, f[T] = f[U] PROVE T = U
    <3>1. T \cup {x} = U \cup {x} /\ x \notin T /\ x \notin U
      BY <1>3, <2>3
    <3> QED BY <3>1
  <2>4. f \in Bijection(A, B)
    <3> HIDE DEF f, A, B
    <3> QED BY <2>1, <2>2, <2>3, Fun_IsBij
  <2> QED BY <2>4 DEF ExistsBijection
<1>9. IsFiniteSet(B) /\ Cardinality(B) = 2^k
  BY <1>2, <1>8, FS_Bijection
<1>10. Cardinality(A \cup B) = 2^k + 2^k - Cardinality(A \cap B)
  <2> HIDE DEF A, B
  <2> QED BY <1>2, <1>9, FS_Union
<1>11. Cardinality(A \cap B) = 0
  BY <1>7, FS_EmptySet
<1>12. \A c \in Nat : c + c - 0 = 2 * c
  OBVIOUS
<1>13. 2^(k + 1) = 2^k + 2^k - 0
  BY <1>5, <1>6, <1>10, <1>11
<1> QED BY <1>12, <1>13, PowerPositive

\* Clearing the low bits is shifting right and back: two octets agree after
\* masking exactly when they agree after the shift.
LEMMA MaskIsShift ==
    ASSUME NEW m \in Nat \ {0}, NEW o \in Nat, NEW q \in Nat
    PROVE  /\ o - (o % m) = m * (o \div m)
           /\ m * (o \div m) = m * (q \div m) <=> o \div m = q \div m
<1>1. o = m * (o \div m) + (o % m)
  BY SMT
<1>2. /\ o \div m \in Int /\ q \div m \in Int /\ o % m \in Int
  BY SMT
<1>3. m * (o \div m) = m * (q \div m) <=> o \div m = q \div m
  BY <1>2, SMT
<1> QED BY <1>1, <1>2, <1>3, SMT

\* Shifting right twice is shifting once by both.
LEMMA ShiftAgain ==
    ASSUME NEW m \in Nat \ {0}, NEW o \in Nat
    PROVE  /\ o \div m \in Nat /\ o \div (2 * m) \in Nat
           /\ o \div m = 2 * (o \div (2 * m)) + ((o \div m) % 2)
<1> DEFINE q == o \div m
           r == o % m
           p == q \div 2
           s == q % 2
<1>1. o = m * q + r /\ q \in Nat /\ r \in Nat /\ r < m
  <2>1. o = m * q + r /\ q \in Int /\ r \in Nat /\ r < m
    BY SMT
  <2>2. ~ (q <= -1)
    <3> SUFFICES ASSUME q <= -1 PROVE FALSE
      OBVIOUS
    <3>1. m * q <= 0 - m
      BY <2>1, SMT
    <3> QED BY <2>1, <3>1, SMT
  <2> QED BY <2>1, <2>2, SMT
<1>2. q = 2 * p + s /\ p \in Nat /\ s \in {0, 1}
  BY <1>1, SMT
<1>3. m * q = (2 * m) * p + m * s
  <2> HIDE DEF q, p, s
  <2>1. m * q = m * (2 * p + s)
    BY <1>2
  <2>2. \A x, y \in Nat : m * (2 * x + y) = (2 * m) * x + m * y
    BY SMT
  <2>3. s \in Nat
    BY <1>2
  <2> QED BY <1>2, <2>1, <2>2, <2>3
<1>4. m * s + r \in Nat /\ m * s + r < 2 * m
  <2> HIDE DEF q, r, p, s
  <2>1. m * s \in {0, m}
    BY <1>2, SMT
  <2> QED BY <1>1, <2>1, SMT
<1>5. o = (2 * m) * p + (m * s + r)
  <2> HIDE DEF q, r, p, s
  <2>1. m * s \in Int /\ (2 * m) * p \in Int
    BY <1>2, SMT
  <2> QED BY <1>1, <1>3, <2>1, SMT
<1>6. o \div (2 * m) = p
  <2> HIDE DEF q, r, p, s
  <2>1. 2 * m \in Nat \ {0}
    OBVIOUS
  <2> QED BY <1>2, <1>4, <1>5, <2>1, Quotient
<1> QED BY <1>1, <1>2, <1>6

\* Digit j of an octet, counted from its most significant bit.
Digit(o, j) == (o \div 2^(Width - 1 - j)) % 2

Octet == 0 .. 2^Width - 1

\* An octet's first k bits are its value shifted right Width - k.
Leading(o, k) == o \div 2^(Width - k)

\* Agreeing in the first bits, octet by octet.
SameFirstBits(a1, a2, bits_) ==
    /\ bits_ <= Bits
    /\ \A i \in 0 .. Octets - 1 :
         LET k == bits_ - Width * i IN
         /\ k >= Width => a1[i] = a2[i]
         /\ k \in 1 .. Width - 1 => Leading(a1[i], k) = Leading(a2[i], k)

LEMMA OctetIsNat == Octet \subseteq Nat
<1>1. 2^Width - 1 \in Int
  BY Addr6Assumption, SMT
<1> QED BY <1>1 DEF Octet

\* The first k bits of an octet, as a number, are determined by its first k
\* digits and determine them.
LEMMA DigitsMakeLeading ==
    ASSUME NEW x \in Octet, NEW y \in Octet
    PROVE  \A k \in 0 .. Width :
             Leading(x, k) = Leading(y, k) <=> \A j \in 0 .. k - 1 : Digit(x, j) = Digit(y, j)
<1> USE Addr6Assumption
<1> DEFINE P(k) == Leading(x, k) = Leading(y, k)
                     <=> \A j \in 0 .. k - 1 : Digit(x, j) = Digit(y, j)
           S == {k \in Nat : k <= Width => P(k)}
<1>0. x \in Nat /\ y \in Nat
  BY OctetIsNat
<1>1. 0 \in S
  <2>1. 2^Width \in Nat \ {0}
    BY PowerPositive
  <2>2. x < 2^Width /\ y < 2^Width
    BY <2>1 DEF Octet
  <2>3. \A d \in Nat \ {0}, z \in Nat : z < d => z \div d = 0
    <3> SUFFICES ASSUME NEW d \in Nat \ {0}, NEW z \in Nat, z < d PROVE z \div d = 0
      OBVIOUS
    <3>1. z = d * 0 + z
      BY SMT
    <3> QED BY <3>1, Quotient
  <2>4. Width - 0 = Width
    OBVIOUS
  <2>5. Leading(x, 0) = 0 /\ Leading(y, 0) = 0
    BY <1>0, <2>1, <2>2, <2>3, <2>4 DEF Leading
  <2>6. \A j : j \notin 0 .. 0 - 1
    BY SMT
  <2> QED BY <2>5, <2>6
<1>2. ASSUME NEW k \in S PROVE k + 1 \in S
  <2> SUFFICES ASSUME k + 1 <= Width PROVE P(k + 1)
    OBVIOUS
  <2>1. P(k) /\ k \in Nat
    BY SMT
  <2> DEFINE m == 2^(Width - (k + 1))
  <2>2. Width - (k + 1) \in Nat /\ Width - k = (Width - (k + 1)) + 1
        /\ Width - 1 - k = Width - (k + 1)
    BY <2>1
  <2>3. m \in Nat \ {0} /\ 2^(Width - k) = 2 * m
    BY <2>2, PowerPositive, PowerDoubles
  <2>4. \A o \in Nat : /\ Leading(o, k + 1) \in Nat /\ Leading(o, k) \in Nat
                       /\ Digit(o, k) \in {0, 1}
                       /\ Leading(o, k + 1) = 2 * Leading(o, k) + Digit(o, k)
    <3> SUFFICES ASSUME NEW o \in Nat
                 PROVE  /\ Leading(o, k + 1) \in Nat /\ Leading(o, k) \in Nat
                        /\ Digit(o, k) \in {0, 1}
                        /\ Leading(o, k + 1) = 2 * Leading(o, k) + Digit(o, k)
      OBVIOUS
    <3>1. Leading(o, k + 1) = o \div m /\ Leading(o, k) = o \div (2 * m)
          /\ Digit(o, k) = (o \div m) % 2
      BY <2>2, <2>3 DEF Leading, Digit
    <3>2. o \div m \in Nat /\ o \div (2 * m) \in Nat
          /\ o \div m = 2 * (o \div (2 * m)) + ((o \div m) % 2)
      BY <2>3, ShiftAgain
    <3>3. \A n \in Nat : n % 2 \in {0, 1}
      BY SMT
    <3> QED BY <3>1, <3>2, <3>3
  <2>5. Leading(x, k + 1) = Leading(y, k + 1)
          <=> Leading(x, k) = Leading(y, k) /\ Digit(x, k) = Digit(y, k)
    <3>1. \A a, b \in Nat : \A c, d \in {0, 1} :
            2 * a + c = 2 * b + d <=> a = b /\ c = d
      BY SMT
    <3>2. /\ Leading(x, k) \in Nat /\ Digit(x, k) \in {0, 1}
          /\ Leading(x, k + 1) = 2 * Leading(x, k) + Digit(x, k)
          /\ Leading(y, k) \in Nat /\ Digit(y, k) \in {0, 1}
          /\ Leading(y, k + 1) = 2 * Leading(y, k) + Digit(y, k)
      BY <1>0, <2>4
    <3> HIDE DEF P, S, m
    <3> QED BY <3>1, <3>2
  <2>6. \A j : j \in 0 .. (k + 1) - 1 <=> (j \in 0 .. k - 1 \/ j = k)
    BY <2>1, SMT
  <2> QED BY <2>1, <2>5, <2>6
<1>3. Nat \subseteq S
  <2> HIDE DEF S
  <2>1. S \subseteq Nat
    BY DEF S
  <2> QED BY <1>1, <1>2, <2>1, EveryNumber
<1>4. ASSUME NEW k \in 0 .. Width PROVE P(k)
  <2>1. k \in Nat /\ k <= Width
    BY SMT
  <2> QED BY <1>3, <2>1
<1> QED BY <1>4

-----------------------------------------------------------------------------
(* Addresses.                                                              *)

\* Bit j of octet i is bit Width * i + j of the address.
LEMMA BitIsDigit ==
    ASSUME NEW a \in Address, NEW i \in Nat, NEW j \in 0 .. Width - 1
    PROVE  Bit(a, Width * i + j) = Digit(a[i], j)
<1>1. Width \in Nat \ {0} /\ j \in Nat /\ j < Width
  BY Addr6Assumption, SMT
<1>2. (Width * i + j) \div Width = i /\ (Width * i + j) % Width = j
  BY <1>1, Quotient
<1> QED BY <1>2 DEF Bit, Digit

\* Agreeing in the first bits, octet by octet, is agreeing bit by bit.
LEMMA SameFirstIsSameBits ==
    ASSUME NEW a \in Address, NEW p \in Address, NEW bits_ \in Int
    PROVE  SameFirstBits(a, p, bits_) <=> SameBits(a, p, bits_)
<1> USE Addr6Assumption
<1> DEFINE K(i) == bits_ - Width * i
           Agree(i) == /\ K(i) >= Width => a[i] = p[i]
                       /\ K(i) \in 1 .. Width - 1 => Leading(a[i], K(i)) = Leading(p[i], K(i))
           Same(b) == Bit(a, b) = Bit(p, b)
<1>1. \A i \in 0 .. Octets - 1 : a[i] \in Octet /\ p[i] \in Octet
  BY DEF Address, Octet
<1>2. ASSUME bits_ <= Bits, \A i \in 0 .. Octets - 1 : Agree(i), NEW b \in 0 .. bits_ - 1
      PROVE  Same(b)
  <2> DEFINE i == b \div Width
             j == b % Width
  <2>1. b = Width * i + j /\ i \in Int /\ j \in 0 .. Width - 1 /\ b \in Nat /\ b < bits_
    BY SMT
  <2>2. i \in Nat
    <3> HIDE DEF i, j
    <3>1. ~ (i <= -1)
      <4> SUFFICES ASSUME i <= -1 PROVE FALSE
        OBVIOUS
      <4>1. Width * i <= 0 - Width
        BY <2>1, SMT
      <4> QED BY <2>1, <4>1, SMT
    <3> QED BY <2>1, <3>1, SMT
  <2>3. i < Octets
    <3> HIDE DEF i, j
    <3> SUFFICES ASSUME i >= Octets PROVE FALSE
      BY <2>2
    <3>1. Width * i >= Octets * Width
      BY <2>2, SMT
    <3>2. Octets * Width \in Int /\ Width * i \in Int
      BY <2>2, SMT
    <3>3. b < Octets * Width
      BY <1>2, <2>1, <3>2, SMT DEF Bits
    <3> QED BY <2>1, <3>1, <3>2, <3>3, SMT
  <2>4. i \in 0 .. Octets - 1 /\ K(i) \in Int /\ j < K(i)
    <3> HIDE DEF i, j
    <3>1. Width * i \in Int
      BY <2>2, SMT
    <3> QED BY <2>1, <2>2, <2>3, <3>1, SMT
  <2> HIDE DEF i, j
  <2>5. Digit(a[i], j) = Digit(p[i], j)
    <3>1. CASE K(i) >= Width
      BY <1>2, <2>4, <3>1
    <3>2. CASE ~ (K(i) >= Width)
      <4>1. K(i) \in 1 .. Width - 1 /\ K(i) \in 0 .. Width /\ j \in 0 .. K(i) - 1
        BY <2>1, <2>4, <3>2, SMT
      <4>2. Leading(a[i], K(i)) = Leading(p[i], K(i))
        BY <1>2, <2>4, <4>1
      <4> HIDE DEF K
      <4> QED BY <1>1, <2>4, <4>1, <4>2, DigitsMakeLeading
    <3> QED BY <3>1, <3>2
  <2>6. Bit(a, b) = Digit(a[i], j) /\ Bit(p, b) = Digit(p[i], j)
    BY <2>1, <2>2, BitIsDigit
  <2> QED BY <2>5, <2>6
<1>3. ASSUME bits_ <= Bits, \A b \in 0 .. bits_ - 1 : Same(b), NEW i \in 0 .. Octets - 1
      PROVE  Agree(i)
  <2>1. i \in Nat /\ Width * i \in Nat /\ K(i) \in Int
    BY SMT
  <2>2. ASSUME NEW j \in 0 .. Width - 1, j < K(i)
        PROVE  Digit(a[i], j) = Digit(p[i], j)
    <3>1. Width * i + j \in 0 .. bits_ - 1
      <4> HIDE DEF Same
      <4> QED BY <2>1, <2>2, SMT
    <3>2. Same(Width * i + j)
      BY <1>3, <3>1
    <3> QED BY <2>1, <3>2, BitIsDigit
  <2>3. ASSUME NEW k \in 0 .. Width, k <= K(i)
        PROVE  Leading(a[i], k) = Leading(p[i], k)
    <3> HIDE DEF K
    <3>1. ASSUME NEW j \in 0 .. k - 1 PROVE Digit(a[i], j) = Digit(p[i], j)
      <4>1. j \in 0 .. Width - 1 /\ j < K(i)
        BY <2>1, <2>3, SMT
      <4> QED BY <2>2, <4>1
    <3> QED BY <1>1, <3>1, DigitsMakeLeading
  <2>4. ASSUME K(i) >= Width PROVE a[i] = p[i]
    <3>1. Width \in 0 .. Width /\ Width <= K(i) /\ Width - Width = 0
      BY <2>1, <2>4, SMT
    <3>2. Leading(a[i], Width) = Leading(p[i], Width)
      BY <2>3, <3>1
    <3>3. \A o \in Octet : Leading(o, Width) = o
      <4>1. \A o \in Nat : o \div 1 = o
        BY SMT
      <4> QED BY <3>1, <4>1, OctetIsNat, PowerZero DEF Leading
    <3> QED BY <1>1, <3>2, <3>3
  <2>5. ASSUME K(i) \in 1 .. Width - 1 PROVE Leading(a[i], K(i)) = Leading(p[i], K(i))
    <3>1. K(i) \in 0 .. Width /\ K(i) <= K(i)
      BY <2>1, <2>5, SMT
    <3> QED BY <2>3, <3>1
  <2> QED BY <2>4, <2>5
<1>4. SameFirstBits(a, p, bits_) <=> bits_ <= Bits /\ \A i \in 0 .. Octets - 1 : Agree(i)
  BY DEF SameFirstBits
<1>5. SameBits(a, p, bits_) <=> bits_ <= Bits /\ \A b \in 0 .. bits_ - 1 : Same(b)
  BY DEF SameBits
<1> HIDE DEF Agree, Same
<1> QED BY <1>2, <1>3, <1>4, <1>5

\* Where the prefix has no host bits, what the loop demands of an octet is that
\* the leading bits agree.
LEMMA OctetMatchIsAgreement ==
    ASSUME NEW a \in Address, NEW p \in Address, NEW bits_ \in Int,
           NEW i \in 0 .. Octets - 1, HostBitsClear(p, bits_)
    PROVE  OctetMatches(a, p, bits_, i) <=>
             LET k == bits_ - Width * i IN
             /\ k >= Width => a[i] = p[i]
             /\ k \in 1 .. Width - 1 => Leading(a[i], k) = Leading(p[i], k)
<1> DEFINE k == bits_ - Width * i
<1>1. a[i] \in Nat /\ p[i] \in Nat
  <2>1. 2^Width - 1 \in Int
    BY Addr6Assumption, SMT
  <2> QED BY <2>1, SMT DEF Address
<1>2. ASSUME k \in 1 .. Width - 1
      PROVE  Masked(a[i], k) = p[i] <=> Leading(a[i], k) = Leading(p[i], k)
  <2> DEFINE m == 2^(Width - k)
  <2>1. m \in Nat \ {0}
    BY <1>2, Addr6Assumption, PowerPositive
  <2>2. Masked(p[i], k) = p[i]
    BY <1>2 DEF HostBitsClear
  <2>3. /\ Masked(a[i], k) = m * Leading(a[i], k)
        /\ Masked(p[i], k) = m * Leading(p[i], k)
        /\ m * Leading(a[i], k) = m * Leading(p[i], k) <=> Leading(a[i], k) = Leading(p[i], k)
    BY <1>1, <2>1, MaskIsShift DEF Masked, Leading
  <2> QED BY <2>2, <2>3
<1> QED BY <1>2 DEF OctetMatches

\* Where the prefix has no host bits, addr6match answers whether the addresses
\* agree in the first bits.
LEMMA MatchIsSameBits ==
    ASSUME NEW a \in Address, NEW p \in Address, NEW bits_ \in Int, HostBitsClear(p, bits_)
    PROVE  addr6match(a, p, bits_) <=> SameBits(a, p, bits_)
<1>1. addr6match(a, p, bits_) <=> SameFirstBits(a, p, bits_)
  BY OctetMatchIsAgreement DEF addr6match, SameFirstBits
<1> QED BY <1>1, SameFirstIsSameBits

\* A target matches only a prefix with no bit set after its length in the octet
\* where it ends: the mask clears those of the target and not the prefix's.  So
\* what matches agrees in the first bits, whatever the prefix.
LEMMA MatchImpliesSameBits ==
    ASSUME NEW a \in Address, NEW p \in Address, NEW bits_ \in Int, addr6match(a, p, bits_)
    PROVE  SameBits(a, p, bits_)
<1> DEFINE k(i) == bits_ - Width * i
<1>1. ASSUME NEW i \in 0 .. Octets - 1, k(i) \in 1 .. Width - 1
      PROVE  Masked(p[i], k(i)) = p[i]
  <2> DEFINE m == 2^(Width - k(i))
  <2>1. a[i] \in Nat /\ p[i] \in Nat
    <3>1. 2^Width - 1 \in Int
      BY Addr6Assumption, SMT
    <3> QED BY <3>1, SMT DEF Address
  <2>2. m \in Nat \ {0}
    BY <1>1, Addr6Assumption, PowerPositive
  <2>3. Masked(a[i], k(i)) = p[i]
    BY <1>1 DEF addr6match, OctetMatches
  <2>4. Masked(a[i], k(i)) = m * (a[i] \div m) /\ a[i] \div m \in Nat
    <3>1. Masked(a[i], k(i)) = a[i] - (a[i] % m)
      BY DEF Masked
    <3> HIDE DEF m
    <3>2. a[i] - (a[i] % m) = m * (a[i] \div m)
      BY <2>1, <2>2, MaskIsShift
    <3>3. \A d \in Nat \ {0}, o \in Nat : o \div d \in Nat
      BY SMT
    <3> QED BY <2>1, <2>2, <3>1, <3>2, <3>3
  <2>5. ASSUME NEW q \in Nat PROVE (m * q) % m = 0
    <3>1. (m * q + 0) % m = 0
      BY <2>2, Quotient
    <3>2. m * q + 0 = m * q
      BY <2>2, SMT
    <3> QED BY <3>1, <3>2
  <2>6. p[i] % m = 0
    BY <2>3, <2>4, <2>5
  <2> QED BY <2>1, <2>6 DEF Masked
<1>2. HostBitsClear(p, bits_)
  BY <1>1 DEF HostBitsClear
<1> QED BY <1>2, MatchIsSameBits
=============================================================================
