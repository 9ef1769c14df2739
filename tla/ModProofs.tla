------------------------------ MODULE ModProofs ------------------------------
(***************************************************************************)
(* What the remainder is: the library's modules say nothing of \div and %. *)
(***************************************************************************)
EXTENDS Integers, TLAPS

LEMMA Quotient ==
  ASSUME NEW a \in Int, NEW m \in Int, m > 0
  PROVE  a = (a \div m) * m + (a % m) /\ a \div m \in Int /\ a % m \in 0..m-1
  OBVIOUS

LEMMA Factors ==
  ASSUME NEW p \in Int, NEW q \in Int, NEW m \in Int, m > 0
  PROVE  /\ p * m \in Int /\ q * m \in Int /\ (p + q) * m = p * m + q * m
         /\ p < q => p * m + m <= q * m
  <1>1. p < q => p * m + m <= q * m
    <2>1. SUFFICES ASSUME p < q PROVE p * m + m <= q * m
      OBVIOUS
    <2>2. PICK k \in Nat : q = p + 1 + k
      <3>1. q - (p + 1) \in Nat /\ q = p + 1 + (q - (p + 1))
        BY <2>1
      <3> QED
        BY <3>1
    <2>3. q * m = p * m + m + k * m /\ k * m >= 0 /\ k * m \in Int /\ p * m \in Int
      BY <2>2
    <2> QED
      BY ONLY <2>3, m \in Int
  <1> QED
    BY <1>1

LEMMA ModIs ==
  ASSUME NEW a \in Int, NEW q \in Int, NEW s \in Int, NEW m \in Int, m > 0,
         0 <= s, s < m, a = q * m + s
  PROVE  a % m = s
  <1> DEFINE p == a \div m
             c == a % m
  <1>1. a = p * m + c /\ p \in Int /\ c \in 0..m-1
    BY Quotient
  <1> HIDE DEF p, c
  <1>2. /\ p * m \in Int /\ q * m \in Int
        /\ p < q => p * m + m <= q * m
        /\ q < p => q * m + m <= p * m
    BY ONLY <1>1, q \in Int, m \in Int, m > 0, Factors
  <1>3. p = q
    BY ONLY <1>1, <1>2, q \in Int, s \in Int, m \in Int, 0 <= s, s < m, a = q * m + s
  <1>4. c = s
    BY ONLY <1>1, <1>2, <1>3, s \in Int, a = q * m + s
  <1> QED
    BY ONLY <1>4 DEF c

(* What % does to a number below twice the modulus.                        *)
LEMMA ModOnce ==
  ASSUME NEW a \in Nat, NEW m \in Nat, m > 0, a < m + m
  PROVE  a % m = IF a < m THEN a ELSE a - m
  <1>1. CASE a < m
    <2>1. a = 0 * m + a
      OBVIOUS
    <2> QED
      BY <1>1, <2>1, ModIs
  <1>2. CASE ~(a < m)
    <2>1. a = 1 * m + (a - m) /\ a - m \in Int /\ 0 <= a - m /\ a - m < m
      BY <1>2
    <2> QED
      BY <1>2, <2>1, ModIs
  <1> QED
    BY <1>1, <1>2

(* Whole multiples of the modulus do not count.                            *)
LEMMA ModShift ==
  ASSUME NEW p \in Int, NEW a \in Int, NEW m \in Int, m > 0
  PROVE  (p * m + a) % m = a % m
  <1> DEFINE u == a \div m
             c == a % m
  <1>1. a = u * m + c /\ u \in Int /\ c \in 0..m-1
    BY Quotient
  <1> HIDE DEF u, c
  <1>2. p * m \in Int /\ u * m \in Int /\ (p + u) * m = p * m + u * m
    BY ONLY <1>1, p \in Int, m \in Int, m > 0, Factors
  <1>3. /\ p * m + a \in Int /\ p + u \in Int /\ c \in Int /\ 0 <= c /\ c < m
        /\ p * m + a = (p + u) * m + c
    BY ONLY <1>1, <1>2, p \in Int, a \in Int, m \in Int
  <1> DEFINE x == p * m + a
             v == p + u
  <1>4. /\ x \in Int /\ v \in Int /\ c \in Int /\ m \in Int /\ m > 0
        /\ 0 <= c /\ c < m /\ x = v * m + c
    BY ONLY <1>3, m \in Int, m > 0
  <1> HIDE DEF x, v
  <1>5. x % m = c
    BY ONLY <1>4, ModIs
  <1> QED
    BY ONLY <1>5 DEF c, x

(* Numbers closer than the modulus have different remainders.              *)
LEMMA ModApart ==
  ASSUME NEW e \in Int, NEW m \in Int, m > 0, NEW a \in 0..m-1, NEW b \in 0..m-1,
         (e + a) % m = (e + b) % m
  PROVE  a = b
  <1> DEFINE p == (e + a) \div m
             q == (e + b) \div m
             c == (e + a) % m
  <1>1. e + a = p * m + c /\ p \in Int /\ c \in 0..m-1
    BY Quotient
  <1>2. e + b = q * m + c /\ q \in Int
    BY Quotient
  <1> HIDE DEF p, q, c
  <1>3. /\ p * m \in Int /\ q * m \in Int
        /\ p < q => p * m + m <= q * m
        /\ q < p => q * m + m <= p * m
    BY ONLY <1>1, <1>2, m \in Int, m > 0, Factors
  <1>4. p = q
    BY ONLY <1>1, <1>2, <1>3, e \in Int, m \in Int, a \in 0..m-1, b \in 0..m-1
  <1> QED
    BY ONLY <1>1, <1>2, <1>3, <1>4, e \in Int, m \in Int, a \in 0..m-1, b \in 0..m-1

(* A number whose remainder is 0 is a multiple.                            *)
LEMMA ModZero ==
  ASSUME NEW a \in Int, NEW m \in Int, m > 0, a % m = 0
  PROVE  a = (a \div m) * m /\ a \div m \in Int
  <1>1. (a \div m) * m \in Int
    BY Quotient
  <1> QED
    BY <1>1, Quotient

(* A remainder of a multiple of the modulus is whole multiples away.       *)
LEMMA ModThrough ==
  ASSUME NEW a \in Int, NEW S \in Int, NEW m \in Int, S > 0, m > 0, S % m = 0
  PROVE  \E q \in Int : q * m \in Int /\ a = q * m + (a % S)
  <1> DEFINE p == a \div S
             c == a % S
             d == S \div m
  <1>1. a = p * S + c /\ p \in Int /\ c \in Int
    BY Quotient
  <1>2. S = d * m /\ d \in Int
    BY ModZero
  <1> HIDE DEF p, c, d
  <1>3. p * (d * m) = (p * d) * m /\ p * d \in Int /\ (p * d) * m \in Int
    BY ONLY <1>1, <1>2, m \in Int
  <1>4. a = (p * d) * m + c
    BY ONLY <1>1, <1>2, <1>3, a \in Int
  <1> QED
    BY ONLY <1>3, <1>4 DEF c
=============================================================================
