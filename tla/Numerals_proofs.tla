-------------------------- MODULE Numerals_proofs --------------------------
(***************************************************************************)
(* Numbers, their digits in a base and its powers, for the proofs about the*)
(* conversions.  Induction is over sets of numbers: the induction theorems *)
(* of the library take an operator, which the provers cannot be given, but *)
(* the one about the minimum of a set with a well-founded order does not.  *)
(***************************************************************************)
EXTENDS Integers, WellFoundedInduction, TLAPS

-----------------------------------------------------------------------------
(* Induction.                                                              *)

\* The order of the natural numbers, as a set of pairs, ...
Less == {pair \in Nat \X Nat : pair[1] < pair[2]}

\* ... is well-founded.
LEMMA LessWellFounded == IsWellFoundedOn(Less, Nat)
BY NatLessThanWellFounded DEF OpToRel, Less

\* A set with 0 and with the successor of each of its numbers has them all.
LEMMA SetInduction ==
  ASSUME NEW S, 0 \in S, \A n \in Nat : n \in S => n + 1 \in S
  PROVE  \A n \in Nat : n \in S
<1> DEFINE T == Nat \ S
<1> SUFFICES ASSUME T # {} PROVE FALSE
  OBVIOUS
<1> HIDE DEF T
<1>1. T \subseteq Nat
  BY DEF T
<1>2. PICK x \in T : \A y \in T : ~ (<<y, x>> \in Less)
  BY <1>1, LessWellFounded, WFMin
<1>3. \A y \in T : ~ (y < x)
  BY <1>1, <1>2 DEF Less
<1>4. x # 0 /\ x \in Nat
  BY <1>1 DEF T
<1>5. x - 1 \in S
  BY <1>3, <1>4 DEF T
<1> QED
  BY <1>4, <1>5 DEF T

\* The same for the numbers up to some length.
LEMMA UpTo ==
  ASSUME NEW S, NEW len \in Nat, 0 \in S, \A n \in 0..len-1 : n \in S => n + 1 \in S
  PROVE  \A n \in 0..len : n \in S
<1> DEFINE T == {n \in Nat : n <= len => n \in S}
<1>1. 0 \in T /\ \A n \in Nat : n \in T => n + 1 \in T
  OBVIOUS
<1>2. \A n \in Nat : n \in T
  <2> HIDE DEF T
  <2> QED BY <1>1, SetInduction
<1> QED
  BY <1>2

-----------------------------------------------------------------------------
(* The numbers that digits are, and their remainders.                      *)

\* values[k] is the number of the first k digits, after the number values[from].
Accumulates(values, base, digits, from, to) ==
  \A k \in from+1..to : values[k] = base * values[k - 1] + digits[k]

\* Such numbers exist, whatever the digits.
LEMMA ValuesExist ==
  ASSUME NEW base \in Nat, NEW start \in Nat, NEW len \in Nat,
         NEW digits, \A k \in 1..len : digits[k] \in Nat
  PROVE  \E values \in [0..len -> Nat] :
            values[0] = start /\ Accumulates(values, base, digits, 0, len)
<1> DEFINE S == {n \in Nat : n <= len =>
                   \E values \in [0..n -> Nat] :
                      values[0] = start /\ Accumulates(values, base, digits, 0, n)}
<1>1. 0 \in S
  <2> DEFINE zero == [k \in 0..0 |-> start]
  <2>1. zero \in [0..0 -> Nat] /\ zero[0] = start /\ Accumulates(zero, base, digits, 0, 0)
    BY DEF Accumulates
  <2> QED
    BY <2>1
<1>2. ASSUME NEW n \in Nat, n \in S PROVE n + 1 \in S
  <2> SUFFICES ASSUME n + 1 <= len
               PROVE  \E values \in [0..n+1 -> Nat] :
                         values[0] = start /\ Accumulates(values, base, digits, 0, n + 1)
    OBVIOUS
  <2>1. PICK v \in [0..n -> Nat] : v[0] = start /\ Accumulates(v, base, digits, 0, n)
    BY <1>2
  <2> DEFINE next == base * v[n] + digits[n + 1]
             w == [k \in 0..n+1 |-> IF k = n + 1 THEN next ELSE v[k]]
  <2>2. next \in Nat
    <3>1. v[n] \in Nat /\ digits[n + 1] \in Nat
      OBVIOUS
    <3>2. base * v[n] \in Nat
      BY <3>1
    <3> QED
      BY <3>1, <3>2
  <2>3. w \in [0..n+1 -> Nat] /\ w[0] = start
    <3> HIDE DEF next
    <3> QED BY <2>1, <2>2
  <2>4. ASSUME NEW k \in 1..n+1 PROVE w[k] = base * w[k - 1] + digits[k]
    <3>1. CASE k = n + 1
      <4>1. w[k] = next /\ k - 1 = n /\ w[n] = v[n]
        <5> HIDE DEF next
        <5> QED BY <3>1
      <4> QED
        BY <3>1, <4>1
    <3>2. CASE k # n + 1
      <4>1. w[k] = v[k] /\ w[k - 1] = v[k - 1] /\ k \in 1..n
        BY <3>2
      <4> QED
        BY <2>1, <4>1 DEF Accumulates
    <3> QED
      BY <3>1, <3>2
  <2> HIDE DEF w
  <2>5. Accumulates(w, base, digits, 0, n + 1)
    BY <2>4 DEF Accumulates
  <2> QED
    BY <2>3, <2>5
<1>3. len \in S
  <2> HIDE DEF S
  <2> QED BY <1>1, <1>2, SetInduction
<1> QED
  BY <1>3

\* A remainder is the only one.
LEMMA RemainderUnique ==
  ASSUME NEW p \in Nat \ {0}, NEW q \in Nat, NEW r \in 0..p-1
  PROVE  (p * q + r) % p = r
<1> DEFINE v == p * q + r
           f == v \div p
           e == v % p
<1>1. v \in Nat
  <2>1. p * q \in Nat
    OBVIOUS
  <2> QED BY <2>1
<1>2. f \in Nat /\ e \in 0..p-1 /\ v = p * f + e
  <2> HIDE DEF v
  <2> QED BY <1>1
<1> HIDE DEF f, e
<1>3. p * f + e = p * q + r
  BY <1>2
<1>4. CASE f = q
  BY <1>2, <1>3, <1>4 DEF e
<1>5. \A a, b \in Nat : a < b => p * a + p <= p * b
  <2>1. \A a, b \in Nat : a < b => p * (a + 1) <= p * b
    OBVIOUS
  <2>2. \A a \in Nat : p * (a + 1) = p * a + p
    OBVIOUS
  <2> QED BY <2>1, <2>2
<1>6. p * f \in Nat /\ p * q \in Nat
  BY <1>2
<1>7. CASE f < q
  <2>1. p * f + p <= p * q
    BY <1>2, <1>5, <1>7
  <2> DEFINE x == p * f
             y == p * q
  <2> HIDE DEF x, y
  <2> QED BY <1>2, <1>3, <1>6, <2>1 DEF x, y
<1>8. CASE q < f
  <2>1. p * q + p <= p * f
    BY <1>2, <1>5, <1>8
  <2> QED BY <1>2, <1>3, <1>6, <2>1
<1> QED
  BY <1>2, <1>4, <1>7, <1>8

\* So is a quotient.
LEMMA QuotientUnique ==
  ASSUME NEW p \in Nat \ {0}, NEW q \in Nat, NEW r \in 0..p-1
  PROVE  (p * q + r) \div p = q
<1> DEFINE v == p * q + r
           f == v \div p
<1>1. v \in Nat
  <2>1. p * q \in Nat
    OBVIOUS
  <2> QED BY <2>1
<1>2. f \in Nat /\ v = p * f + (v % p)
  <2> HIDE DEF v
  <2> QED BY <1>1
<1>3. v % p = r
  BY RemainderUnique
<1>4. p * f = p * q
  <2>1. p * f \in Nat /\ p * q \in Nat
    BY <1>2
  <2> DEFINE a == p * f
             b == p * q
  <2>2. a + r = b + r
    BY <1>2, <1>3
  <2> HIDE DEF a, b
  <2>3. a \in Nat /\ b \in Nat
    BY <2>1 DEF a, b
  <2>4. a = b
    BY <2>2, <2>3
  <2> QED BY <2>4 DEF a, b
<1> HIDE DEF v, f
<1>5. f = q
  BY <1>2, <1>4
<1> QED
  BY <1>5 DEF f, v

\* The remainder of a number is kept from digit to digit.
LEMMA RemainderStep ==
  ASSUME NEW base \in Nat, NEW p \in Nat \ {0}, NEW v \in Nat, NEW d \in Nat
  PROVE  (base * (v % p) + d) % p = (base * v + d) % p
<1> DEFINE q == v \div p
           r == v % p
<1>1. v = p * q + r /\ q \in Nat /\ r \in Nat
  OBVIOUS
<1> DEFINE c == base * r + d
           f == c \div p
           e == c % p
<1> HIDE DEF q, r
<1>2. c \in Nat
  <2>1. base * r \in Nat
    BY <1>1
  <2> QED BY <2>1
<1>3. c = p * f + e /\ f \in Nat /\ e \in 0..p-1
  <2> HIDE DEF c
  <2> QED BY <1>2
<1>4. base * v + d = p * (base * q + f) + e
  <2>1. base * v = p * (base * q) + base * r
    BY <1>1
  <2>2. p * (base * q + f) = p * (base * q) + p * f
    <3>1. base * q \in Nat
      BY <1>1
    <3> QED BY <3>1, <1>3
  <2> HIDE DEF f, e
  <2>3. p * (base * q) \in Nat /\ base * r \in Nat /\ p * f \in Nat
    <3>1. base * q \in Nat
      BY <1>1
    <3> QED BY <3>1, <1>1, <1>3
  <2> QED
    BY <1>3, <2>1, <2>2, <2>3
<1>5. base * q + f \in Nat
  <2>1. base * q \in Nat
    BY <1>1
  <2> HIDE DEF f
  <2> QED BY <2>1, <1>3
<1> HIDE DEF c, f, e
<1>6. (base * v + d) % p = e
  BY <1>3, <1>4, <1>5, RemainderUnique
<1> QED
  BY <1>6 DEF c, e, r

\* The number before its last digit is a quotient too.
LEMMA QuotientStep ==
  ASSUME NEW m \in Nat, NEW p \in Nat \ {0}
  PROVE  (m \div p) \div 10 = m \div (10 * p)
<1> DEFINE q == m \div p
           r == m % p
           a == q \div 10
           b == q % 10
<1>1. m = p * q + r /\ q \in Nat /\ r \in 0..p-1
  OBVIOUS
<1>2. q = 10 * a + b /\ a \in Nat /\ b \in 0..9
  <2> HIDE DEF q
  <2> QED BY <1>1
<1> HIDE DEF q, r, a, b
<1>3. m = (10 * p) * a + (p * b + r)
  <2>1. p * q = p * (10 * a) + p * b
    BY <1>2
  <2>2. p * (10 * a) = (10 * p) * a
    BY <1>2
  <2>3. p * b \in Nat /\ (10 * p) * a \in Nat
    BY <1>2
  <2> QED BY <1>1, <2>1, <2>2, <2>3
<1>4. p * b + r \in 0..10 * p - 1
  <2>1. p * b \in Nat /\ p * b <= p * 9
    BY <1>2
  <2> QED BY <1>1, <2>1
<1>5. 10 * p \in Nat \ {0}
  OBVIOUS
<1>6. m \div (10 * p) = a
  <2> DEFINE s == p * b + r
             t == 10 * p
  <2>1. m = t * a + s /\ s \in 0..t - 1 /\ t \in Nat \ {0}
    BY <1>3, <1>4, <1>5
  <2> HIDE DEF s, t
  <2>2. m \div t = a
    BY <1>2, <2>1, QuotientUnique
  <2> QED BY <2>2 DEF t
<1> QED
  BY <1>6 DEF a, q

-----------------------------------------------------------------------------
(* The powers of a base.                                                   *)

ArePowers(powers, base, len) ==
  /\ powers \in [0..len -> Nat]
  /\ powers[0] = 1
  /\ \A k \in 1..len : powers[k] = base * powers[k - 1]

\* There are such powers, ...
LEMMA PowersExist ==
  ASSUME NEW base \in Nat, NEW len \in Nat
  PROVE  \E powers : ArePowers(powers, base, len)
<1> DEFINE none == [k \in 1..len |-> 0]
<1>1. PICK v \in [0..len -> Nat] : v[0] = 1 /\ Accumulates(v, base, none, 0, len)
  <2>1. \A k \in 1..len : none[k] \in Nat
    OBVIOUS
  <2> HIDE DEF none
  <2> QED BY <2>1, ValuesExist
<1>2. ASSUME NEW k \in 1..len PROVE v[k] = base * v[k - 1]
  <2>1. v[k] = base * v[k - 1] + none[k] /\ none[k] = 0
    <3>1. k \in 0+1..len
      OBVIOUS
    <3> QED BY <1>1, <3>1 DEF Accumulates
  <2>2. base * v[k - 1] \in Nat
    <3>1. v[k - 1] \in Nat
      OBVIOUS
    <3> QED BY <3>1
  <2> HIDE DEF none
  <2> QED BY <2>1, <2>2
<1> QED
  BY <1>1, <1>2 DEF ArePowers

\* ... and they grow.
LEMMA PowersGrow ==
  ASSUME NEW base \in Nat \ {0}, NEW len \in Nat, NEW powers, ArePowers(powers, base, len),
         NEW m \in 0..len, NEW n \in m..len
  PROVE  powers[m] <= powers[n]
<1> DEFINE S == {k \in Nat : m + k <= len => powers[m] <= powers[m + k]}
<1>1. 0 \in S
  BY DEF ArePowers
<1>2. ASSUME NEW k \in Nat, k \in S PROVE k + 1 \in S
  <2> SUFFICES ASSUME m + k + 1 <= len PROVE powers[m] <= powers[m + k + 1]
    OBVIOUS
  <2>1. powers[m + k + 1] = base * powers[m + k]
    <3>1. m + k + 1 \in 1..len /\ m + k + 1 - 1 = m + k
      OBVIOUS
    <3> QED BY <3>1 DEF ArePowers
  <2>2. powers[m] <= powers[m + k] /\ powers[m] \in Nat /\ powers[m + k] \in Nat
    BY <1>2 DEF ArePowers
  <2>3. \A a \in Nat : a <= base * a /\ base * a \in Nat
    OBVIOUS
  <2> QED
    BY <2>1, <2>2, <2>3
<1>3. n - m \in S
  <2> HIDE DEF S
  <2> QED BY <1>1, <1>2, SetInduction
<1> QED
  BY <1>3

\* What digits are is below the power of the base after them.
LEMMA ValuesBelowPowers ==
  ASSUME NEW base \in Nat, NEW len \in Nat,
         NEW values, NEW powers, NEW digits,
         \A k \in 0..len : values[k] \in Nat /\ powers[k] \in Nat,
         \A k \in 1..len : digits[k] \in Nat /\ digits[k] < base,
         Accumulates(values, base, digits, 0, len),
         values[0] = 0, powers[0] = 1,
         \A k \in 1..len : powers[k] = base * powers[k - 1]
  PROVE  \A k \in 0..len : values[k] < powers[k]
<1> DEFINE S == {k \in 0..len : values[k] < powers[k]}
<1>1. 0 \in S
  OBVIOUS
<1>2. ASSUME NEW n \in 0..len-1, n \in S PROVE n + 1 \in S
  <2>1. n + 1 \in 1..len /\ n + 1 - 1 = n
    OBVIOUS
  <2>2. values[n + 1] = base * values[n] + digits[n + 1] /\ powers[n + 1] = base * powers[n]
    BY <2>1 DEF Accumulates
  <2> DEFINE u == values[n]
             v == powers[n]
             d == digits[n + 1]
  <2>3. u \in Nat /\ v \in Nat /\ u + 1 <= v /\ d \in Nat /\ d < base
    BY <1>2, <2>1
  <2>4. base * u + d < base * v
    <3> HIDE DEF u, v, d
    <3>1. base * (u + 1) <= base * v
      BY <2>3
    <3>2. base * (u + 1) = base * u + base
      BY <2>3
    <3>3. base * u \in Nat /\ base * v \in Nat
      BY <2>3
    <3> DEFINE x == base * u
               y == base * v
    <3>4. x \in Nat /\ y \in Nat /\ x + base <= y
      BY <3>1, <3>2, <3>3
    <3> HIDE DEF x, y
    <3>5. x + d < y
      BY <2>3, <3>4
    <3> QED
      BY <3>5 DEF x, y
  <2> QED
    BY <2>2, <2>4
<1> QED
  <2> HIDE DEF S
  <2>1. \A n \in 0..len : n \in S
    BY <1>1, <1>2, UpTo
  <2> QED
    BY <2>1 DEF S

\* A number that starts with a digit other than 0 is not below the power of
\* the base after that digit.
LEMMA ValuesReachPowers ==
  ASSUME NEW base \in Nat, NEW len \in Nat,
         NEW values, NEW powers, NEW digits,
         \A k \in 0..len : values[k] \in Nat /\ powers[k] \in Nat,
         \A k \in 1..len : digits[k] \in Nat,
         Accumulates(values, base, digits, 0, len),
         values[0] >= 1, powers[0] = 1,
         \A k \in 1..len : powers[k] = base * powers[k - 1]
  PROVE  \A k \in 0..len : powers[k] <= values[k]
<1> DEFINE S == {k \in 0..len : powers[k] <= values[k]}
<1>1. 0 \in S
  OBVIOUS
<1>2. ASSUME NEW n \in 0..len-1, n \in S PROVE n + 1 \in S
  <2>1. n + 1 \in 1..len /\ n + 1 - 1 = n
    OBVIOUS
  <2>2. values[n + 1] = base * values[n] + digits[n + 1] /\ powers[n + 1] = base * powers[n]
    BY <2>1 DEF Accumulates
  <2> DEFINE u == powers[n]
             v == values[n]
             d == digits[n + 1]
  <2>3. u \in Nat /\ v \in Nat /\ d \in Nat /\ u <= v
    BY <1>2, <2>1
  <2>4. base * u <= base * v + d
    <3> HIDE DEF u, v, d
    <3>1. base * u <= base * v /\ base * v \in Nat
      BY <2>3
    <3>2. base * u \in Nat
      BY <2>3
    <3> QED
      BY <2>3, <3>1, <3>2
  <2> QED
    BY <2>2, <2>4
<1> QED
  <2> HIDE DEF S
  <2>1. \A n \in 0..len : n \in S
    BY <1>1, <1>2, UpTo
  <2> QED
    BY <2>1 DEF S
=============================================================================
