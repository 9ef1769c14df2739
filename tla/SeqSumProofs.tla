----------------------------- MODULE SeqSumProofs -----------------------------
(***************************************************************************)
(* Facts about SumOf, and the form of induction they rest on: a set of     *)
(* numbers with 0 in it and, with each number, the next one, has them all. *)
(***************************************************************************)
EXTENDS SeqSum, SequenceTheorems, WellFoundedInduction, TLAPS

(* Induction, for a set: the library's theorem takes an operator.          *)
LEMMA SetInduction ==
  ASSUME NEW n \in Nat, NEW T, 0 \in T, \A k \in 0..n : k \in T /\ k < n => k + 1 \in T
  PROVE  n \in T
  <1> SUFFICES ASSUME n \notin T PROVE FALSE
    OBVIOUS
  <1> DEFINE D == {k \in 0..n : k \notin T}
  <1>1. D \subseteq Nat /\ D # {}
    OBVIOUS
  <1>2. IsWellFoundedOn(OpToRel(<, Nat), Nat)
    BY NatLessThanWellFounded
  <1>3. PICK k \in D : \A j \in D : ~(<<j, k>> \in OpToRel(<, Nat))
    BY <1>1, <1>2, WFMin
  <1>4. \A j \in D : ~(j < k)
    BY <1>1, <1>3 DEF OpToRel
  <1>5. k # 0 /\ k - 1 \in 0..n /\ k - 1 \notin D
    BY <1>4
  <1> QED
    BY <1>5

(* What is left of a sequence after its first n elements.                  *)
LEMMA RestTail ==
  ASSUME NEW X, NEW s \in Seq(X), NEW n \in 0..Len(s)-1
  PROVE  LET c == SubSeq(s, n + 1, Len(s))
         IN  /\ c \in Seq(X) /\ c # <<>> /\ c[1] = s[n+1]
             /\ Tail(c) = SubSeq(s, n + 2, Len(s))
  <1> DEFINE N == Len(s)
             c == SubSeq(s, n + 1, N)
             v == SubSeq(s, n + 2, N)
             u == Tail(c)
  <1>1. N \in Nat /\ n \in Nat /\ n + 1 \in 1..N+1 /\ n + 2 \in 1..N+1 /\ n + 1 \in 1..N
    OBVIOUS
  <1>2. c \in Seq(X) /\ Len(c) = N - n
    BY <1>1, SubSeqProperties
  <1>3. \A k \in 1..N-n : c[k] = s[(n + 1) + k - 1]
    BY <1>1, SubSeqProperties
  <1>4. v \in Seq(X) /\ Len(v) = N - n - 1
    BY <1>1, SubSeqProperties
  <1>5. \A k \in 1..N-n-1 : v[k] = s[(n + 2) + k - 1]
    BY <1>1, SubSeqProperties
  <1> HIDE DEF c, v, N
  <1>6. 1 \in 1..N-n /\ (n + 1) + 1 - 1 = n + 1
    BY ONLY <1>1
  <1>7. c[1] = s[n+1]
    BY ONLY <1>3, <1>6
  <1>8. c # <<>>
    BY ONLY <1>2, <1>6, EmptySeq
  <1>9. u \in Seq(X) /\ Len(u) = N - n - 1 /\ \A k \in 1..N-n-1 : u[k] = c[k+1]
    BY ONLY <1>1, <1>2, <1>8
  <1> HIDE DEF u
  <1>10. ASSUME NEW k \in 1..N-n-1 PROVE u[k] = v[k]
    <2>1. k + 1 \in 1..N-n /\ (n + 1) + (k + 1) - 1 = (n + 2) + k - 1
      BY ONLY <1>1, k \in 1..N-n-1
    <2> QED
      BY ONLY <1>3, <1>5, <1>9, <2>1, k \in 1..N-n-1
  <1>11. u = v
    BY ONLY <1>4, <1>9, <1>10, SeqEqual
  <1> QED
    BY ONLY <1>2, <1>7, <1>8, <1>11 DEF u, v, c, N

(* f holds the sums of the first k of n elements of s.                     *)
Sums(s, n, f) == /\ f \in [0..n -> Nat] /\ f[0] = 0
                 /\ \A k \in 1..n : f[k] = f[k-1] + s[k]

LEMMA SumsMore ==
  ASSUME NEW s, NEW n \in Nat, s[n+1] \in Nat, \E f : Sums(s, n, f)
  PROVE  \E f : Sums(s, n + 1, f)
  <1>1. PICK f : Sums(s, n, f)
    OBVIOUS
  <1> DEFINE g == [k \in 0..n+1 |-> IF k = n + 1 THEN f[n] + s[n+1] ELSE f[k]]
  <1>2. /\ f \in [0..n -> Nat] /\ f[0] = 0
        /\ \A k \in 1..n : f[k] = f[k-1] + s[k]
    BY <1>1 DEF Sums
  <1>3. n \in 0..n /\ f[n] \in Nat
    BY <1>2
  <1>4. g \in [0..n+1 -> Nat]
    BY <1>2, <1>3
  <1>5. g[0] = 0
    BY <1>2
  <1>6. ASSUME NEW k \in 1..n+1 PROVE g[k] = g[k-1] + s[k]
    <2>1. k - 1 \in 0..n /\ g[k-1] = f[k-1]
      OBVIOUS
    <2>2. CASE k = n + 1
      BY <2>1, <2>2
    <2>3. CASE k # n + 1
      <3>1. k \in 1..n
        BY <2>3
      <3> QED
        BY <1>2, <2>1, <3>1
    <2> QED
      BY <2>2, <2>3
  <1>7. Sums(s, n + 1, g)
    BY <1>4, <1>5, <1>6 DEF Sums
  <1> QED
    BY <1>7

LEMMA SumsExist ==
  ASSUME NEW s \in Seq(Nat)
  PROVE  \E f : Sums(s, Len(s), f)
  <1> DEFINE T == {n \in 0..Len(s) : \E f : Sums(s, n, f)}
  <1>1. Len(s) \in Nat /\ \A k \in 1..Len(s) : s[k] \in Nat
    OBVIOUS
  <1>2. 0 \in T
    <2> DEFINE z == [k \in 0..0 |-> 0]
    <2>1. Sums(s, 0, z)
      BY DEF Sums
    <2> QED
      BY <1>1, <2>1
  <1>3. ASSUME NEW n \in 0..Len(s), n \in T, n < Len(s) PROVE n + 1 \in T
    <2>1. n \in Nat /\ n + 1 \in 1..Len(s) /\ s[n+1] \in Nat
      BY <1>1, <1>3
    <2>2. \E f : Sums(s, n + 1, f)
      BY <1>3, <2>1, SumsMore
    <2> QED
      BY <1>1, <2>1, <2>2
  <1>4. \A k \in 0..Len(s) : k \in T /\ k < Len(s) => k + 1 \in T
    BY <1>3
  <1> HIDE DEF T
  <1>5. Len(s) \in T
    BY <1>1, <1>2, <1>4, SetInduction
  <1> QED
    BY <1>5 DEF T

(* Two functions of sums agree, so what SumOf chooses is the one given.    *)
LEMMA SumIs ==
  ASSUME NEW s \in Seq(Nat), NEW g, Sums(s, Len(s), g)
  PROVE  SumOf(s) = g[Len(s)]
  <1> DEFINE F(f) == f = [k \in 0..Len(s) |-> IF k = 0 THEN 0 ELSE f[k-1] + s[k]]
  <1>a. Len(s) \in Nat
    OBVIOUS
  <1>b. /\ g \in [0..Len(s) -> Nat] /\ g[0] = 0
        /\ \A k \in 1..Len(s) : g[k] = g[k-1] + s[k]
    BY DEF Sums
  <1>1. F(g)
    <2>1. ASSUME NEW k \in 0..Len(s)
          PROVE  g[k] = IF k = 0 THEN 0 ELSE g[k-1] + s[k]
      BY <1>a, <1>b
    <2> QED
      BY <1>a, <1>b, <2>1
  <1>2. ASSUME NEW f, F(f) PROVE f[Len(s)] = g[Len(s)]
    <2> DEFINE T == {k \in 0..Len(s) : f[k] = g[k]}
    <2>1. \A k \in 0..Len(s) : f[k] = IF k = 0 THEN 0 ELSE f[k-1] + s[k]
      BY <1>2
    <2>2. 0 \in T
      BY <1>a, <1>b, <2>1
    <2>3. ASSUME NEW k \in 0..Len(s), k \in T, k < Len(s) PROVE k + 1 \in T
      <3>1. k + 1 \in 1..Len(s) /\ (k + 1) - 1 = k /\ k + 1 # 0
        BY <1>a, <2>3
      <3>2. f[k+1] = f[k] + s[k+1]
        BY <2>1, <3>1
      <3>3. g[k+1] = g[k] + s[k+1]
        BY <1>b, <3>1
      <3> QED
        BY <2>3, <3>1, <3>2, <3>3
    <2>4. \A k \in 0..Len(s) : k \in T /\ k < Len(s) => k + 1 \in T
      BY <2>3
    <2> HIDE DEF T
    <2>5. Len(s) \in T
      BY <1>a, <2>2, <2>4, SetInduction
    <2> QED
      BY <2>5 DEF T
  <1>3. SumOf(s) = (CHOOSE f : F(f))[Len(s)]
    BY DEF SumOf
  <1> HIDE DEF F
  <1>4. F(CHOOSE f : F(f))
    BY <1>1
  <1> QED
    BY <1>2, <1>3, <1>4

(* The sum of no numbers, of one more, and of a part and the rest.         *)
LEMMA SumEmpty == SumOf(<<>>) = 0
  <1> DEFINE z == [k \in 0..0 |-> 0]
  <1>1. <<>> \in Seq(Nat) /\ Len(<<>>) = 0
    OBVIOUS
  <1>2. Sums(<<>>, 0, z) /\ z[0] = 0
    BY DEF Sums
  <1> HIDE DEF z
  <1> QED
    BY <1>1, <1>2, SumIs

LEMMA SumNat ==
  ASSUME NEW s \in Seq(Nat) PROVE SumOf(s) \in Nat
  <1>1. PICK f : Sums(s, Len(s), f)
    BY SumsExist
  <1>2. Len(s) \in 0..Len(s)
    OBVIOUS
  <1> QED
    BY <1>1, <1>2, SumIs DEF Sums

LEMMA SumAppend ==
  ASSUME NEW s \in Seq(Nat), NEW x \in Nat
  PROVE  SumOf(Append(s, x)) = SumOf(s) + x
  <1>1. PICK f : Sums(s, Len(s), f)
    BY SumsExist
  <1> DEFINE n == Len(s)
             t == Append(s, x)
             g == [k \in 0..n+1 |-> IF k = n + 1 THEN f[n] + x ELSE f[k]]
  <1>2. /\ t \in Seq(Nat) /\ Len(t) = n + 1 /\ n \in Nat
        /\ t[n+1] = x /\ \A k \in 1..n : t[k] = s[k]
    OBVIOUS
  <1>3. SumOf(s) = f[n]
    BY <1>1, SumIs
  <1> HIDE DEF t
  <1>a. /\ f \in [0..n -> Nat] /\ f[0] = 0
        /\ \A k \in 1..n : f[k] = f[k-1] + s[k]
    BY <1>1 DEF Sums
  <1> HIDE DEF n
  <1>4. n \in 0..n /\ f[n] \in Nat
    BY <1>2, <1>a
  <1>5. g \in [0..n+1 -> Nat] /\ g[0] = 0 /\ g[n+1] = f[n] + x
    BY <1>2, <1>4, <1>a
  <1>6. ASSUME NEW k \in 1..n+1 PROVE g[k] = g[k-1] + t[k]
    <2>1. k - 1 \in 0..n /\ g[k-1] = f[k-1]
      BY <1>2
    <2>2. CASE k = n + 1
      BY <1>2, <2>1, <2>2
    <2>3. CASE k # n + 1
      <3>1. k \in 1..n
        BY <1>2, <2>3
      <3> QED
        BY <1>2, <1>a, <2>1, <3>1
    <2> QED
      BY <2>2, <2>3
  <1>7. Sums(t, n + 1, g)
    BY <1>5, <1>6 DEF Sums
  <1> HIDE DEF g
  <1>8. SumOf(t) = g[n+1]
    BY <1>2, <1>7, SumIs
  <1>9. SumOf(t) = SumOf(s) + x
    BY <1>3, <1>5, <1>8
  <1> QED
    BY ONLY <1>9 DEF t, n

LEMMA SumSplit ==
  ASSUME NEW s \in Seq(Nat), NEW n \in 0..Len(s)
  PROVE  SumOf(s) = SumOf(SubSeq(s, 1, n)) + SumOf(SubSeq(s, n + 1, Len(s)))
  <1>1. PICK f : Sums(s, Len(s), f)
    BY SumsExist
  <1> DEFINE N == Len(s)
             a == SubSeq(s, 1, n)
             b == SubSeq(s, n + 1, N)
             g == [k \in 0..n |-> f[k]]
             h == [k \in 0..N-n |-> f[n + k] - f[n]]
  <1>2. N \in Nat /\ n \in Nat /\ n <= N /\ \A k \in 1..N : s[k] \in Nat
    OBVIOUS
  <1>3. /\ a \in Seq(Nat) /\ Len(a) = n
        /\ \A k \in 1..n : a[k] = s[k]
    BY <1>2, SubSeqProperties
  <1>4. b \in Seq(Nat) /\ Len(b) = N - n
    BY <1>2, SubSeqProperties
  <1>5. ASSUME NEW k \in 1..N-n PROVE b[k] = s[n + k]
    <2>1. b[k] = s[(n + 1) + k - 1]
      BY <1>2, SubSeqProperties
    <2>2. (n + 1) + k - 1 = n + k
      BY <1>2
    <2> QED
      BY <2>1, <2>2
  <1>6. SumOf(s) = f[N]
    BY <1>1, SumIs
  <1>7. /\ f \in [0..N -> Nat] /\ f[0] = 0
        /\ \A k \in 1..N : f[k] = f[k-1] + s[k]
    BY <1>1 DEF Sums
  <1> HIDE DEF a, b, N
  <1>8. Sums(a, n, g)
    <2>1. g \in [0..n -> Nat] /\ g[0] = 0
      BY <1>2, <1>7
    <2>2. ASSUME NEW k \in 1..n PROVE g[k] = g[k-1] + a[k]
      <3>1. k \in 1..N /\ k - 1 \in 0..n /\ k \in 0..n
        BY <1>2
      <3> QED
        BY <1>3, <1>7, <3>1
    <2> QED
      BY <2>1, <2>2 DEF Sums
  <1>9. Sums(b, N - n, h)
    <2> DEFINE T == {k \in 0..N-n : f[n + k] >= f[n]}
    <2>0. ASSUME NEW k \in 0..N-n PROVE n + k \in 0..N /\ f[n + k] \in Nat
      <3>1. n + k \in 0..N
        BY <1>2
      <3> QED
        BY <1>7, <3>1
    <2>a. 0 \in 0..N-n /\ n + 0 = n /\ f[n] \in Nat
      BY <1>2, <2>0
    <2>b. ASSUME NEW k \in 1..N-n
          PROVE  /\ k - 1 \in 0..N-n /\ f[n + (k - 1)] \in Nat
                 /\ b[k] \in Nat /\ f[n + k] = f[n + (k - 1)] + b[k]
      <3>1. n + k \in 1..N /\ (n + k) - 1 = n + (k - 1) /\ k - 1 \in 0..N-n
        BY <1>2
      <3>2. f[n + k] = f[n + (k - 1)] + s[n + k]
        BY <1>7, <3>1
      <3> QED
        BY <1>2, <1>5, <2>0, <3>1, <3>2
    <2>1. 0 \in T
      BY <2>a
    <2>2. ASSUME NEW k \in 0..N-n, k \in T, k < N - n PROVE k + 1 \in T
      <3>1. k + 1 \in 1..N-n /\ (k + 1) - 1 = k
        BY <1>2, <2>2
      <3>2. f[n + (k + 1)] = f[n + k] + b[k + 1] /\ b[k + 1] \in Nat
        BY <2>b, <3>1
      <3>3. f[n + k] \in Nat /\ f[n] \in Nat /\ f[n + k] >= f[n]
        BY <2>0, <2>a, <2>2
      <3>4. f[n + (k + 1)] >= f[n]
        BY <3>2, <3>3
      <3> QED
        BY <3>1, <3>4
    <2>3. ASSUME NEW m \in 0..N-n PROVE m \in T
      <3>1. \A k \in 0..m : k \in T /\ k < m => k + 1 \in T
        BY <1>2, <2>2
      <3> HIDE DEF T
      <3> QED
        BY <1>2, <2>1, <3>1, SetInduction
    <2>4. h \in [0..N-n -> Nat]
      <3>1. ASSUME NEW k \in 0..N-n PROVE f[n + k] - f[n] \in Nat
        BY <2>0, <2>a, <2>3
      <3> QED
        BY <3>1
    <2>5. h[0] = 0
      BY <2>a
    <2>6. ASSUME NEW k \in 1..N-n PROVE h[k] = h[k-1] + b[k]
      <3>1. h[k] = f[n + k] - f[n] /\ h[k-1] = f[n + (k-1)] - f[n]
        BY <1>2, <2>b
      <3> QED
        BY <2>a, <2>b, <3>1
    <2> HIDE DEF h
    <2> QED
      BY <2>4, <2>5, <2>6 DEF Sums
  <1>10. SumOf(a) = g[n] /\ g[n] = f[n]
    <2>1. g[n] = f[n]
      BY <1>2
    <2> HIDE DEF g
    <2> QED
      BY <1>3, <1>8, <2>1, SumIs
  <1>11. SumOf(b) = h[N - n] /\ h[N - n] = f[N] - f[n]
    <2>1. N - n \in 0..N-n /\ n + (N - n) = N
      BY <1>2
    <2>2. h[N - n] = f[N] - f[n]
      BY <2>1
    <2> HIDE DEF h
    <2> QED
      BY <1>4, <1>9, <2>2, SumIs
  <1>12. f[n] \in Nat /\ f[N] \in Nat
    BY <1>2, <1>7
  <1> QED
    BY <1>6, <1>10, <1>11, <1>12 DEF a, b, N

(* The first element, and the rest.                                        *)
LEMMA SumOne ==
  ASSUME NEW s \in Seq(Nat), Len(s) = 1
  PROVE  SumOf(s) = s[1]
  <1> DEFINE f == [k \in 0..1 |-> IF k = 0 THEN 0 ELSE s[1]]
  <1>0. 1 \in 1..Len(s)
    OBVIOUS
  <1>1. s[1] \in Nat
    BY ONLY <1>0, s \in Seq(Nat), ElementOfSeq
  <1>2. Sums(s, 1, f) /\ f[1] = s[1]
    BY <1>1 DEF Sums
  <1> HIDE DEF f
  <1> QED
    BY <1>2, SumIs

LEMMA SumTail ==
  ASSUME NEW s \in Seq(Nat), s # <<>>
  PROVE  SumOf(s) = s[1] + SumOf(Tail(s))
  <1> DEFINE a == SubSeq(s, 1, 1)
             b == SubSeq(s, 2, Len(s))
  <1>1. Len(s) \in Nat /\ Len(s) >= 1
    BY EmptySeq
  <1>2. Tail(s) = b
    BY <1>1
  <1>3. a \in Seq(Nat) /\ Len(a) = 1 /\ a[1] = s[1]
    BY <1>1
  <1>4. 1 \in 0..Len(s) /\ 1 + 1 = 2
    BY <1>1
  <1>5. SumOf(s) = SumOf(SubSeq(s, 1, 1)) + SumOf(SubSeq(s, 1 + 1, Len(s)))
    BY ONLY <1>4, s \in Seq(Nat), SumSplit
  <1>6. SumOf(s) = SumOf(a) + SumOf(b)
    BY ONLY <1>4, <1>5
  <1> HIDE DEF a, b
  <1>7. SumOf(a) = s[1]
    BY ONLY <1>3, SumOne
  <1> QED
    BY ONLY <1>2, <1>6, <1>7

-----------------------------------------------------------------------------
(* Counts.                                                                 *)

Ones(s, S) == [k \in 1..Len(s) |-> IF s[k] \in S THEN 1 ELSE 0]

LEMMA OnesSeq ==
  ASSUME NEW X, NEW s \in Seq(X), NEW S
  PROVE  /\ Ones(s, S) \in Seq(Nat) /\ Len(Ones(s, S)) = Len(s)
         /\ \A k \in 1..Len(s) : Ones(s, S)[k] = IF s[k] \in S THEN 1 ELSE 0
         /\ CountOf(s, S) = SumOf(Ones(s, S))
  <1>1. Len(s) \in Nat
    OBVIOUS
  <1>2. \A k \in 1..Len(s) : (IF s[k] \in S THEN 1 ELSE 0) \in Nat
    OBVIOUS
  <1>3. Ones(s, S) \in Seq(Nat)
    BY <1>1, <1>2 DEF Ones
  <1> QED
    BY <1>1, <1>3 DEF Ones, CountOf

LEMMA CountNat ==
  ASSUME NEW X, NEW s \in Seq(X), NEW S PROVE CountOf(s, S) \in Nat
  BY ONLY s \in Seq(X), OnesSeq, SumNat

LEMMA NoElement ==
  ASSUME NEW X PROVE \E e \in Seq(X) : e = <<>> /\ Len(e) = 0
  <1>1. <<>> \in Seq(X) /\ Len(<<>>) = 0
    BY EmptySeq
  <1> WITNESS <<>> \in Seq(X)
  <1> QED
    BY <1>1

LEMMA CountEmpty ==
  ASSUME NEW S PROVE CountOf(<<>>, S) = 0
  <1> PICK e \in Seq({}) : e = <<>> /\ Len(e) = 0
    BY NoElement
  <1>1. Ones(e, S) \in Seq(Nat) /\ Len(Ones(e, S)) = 0
    BY OnesSeq
  <1>2. CountOf(e, S) = SumOf(Ones(e, S))
    BY ONLY e \in Seq({}), OnesSeq
  <1>3. Ones(e, S) = <<>>
    BY ONLY <1>1, EmptySeq
  <1>4. CountOf(e, S) = 0
    BY ONLY <1>2, <1>3, SumEmpty
  <1> QED
    BY ONLY <1>4, e = <<>>

LEMMA CountAppend ==
  ASSUME NEW X, NEW s \in Seq(X), NEW x \in X, NEW S
  PROVE  CountOf(Append(s, x), S) = CountOf(s, S) + IF x \in S THEN 1 ELSE 0
  <1> DEFINE t == Append(s, x)
  <1>1. /\ t \in Seq(X) /\ Len(t) = Len(s) + 1 /\ Len(s) \in Nat
        /\ t[Len(s)+1] = x /\ \A k \in 1..Len(s) : t[k] = s[k]
    OBVIOUS
  <1> HIDE DEF t
  <1> PICK one \in Nat : one = IF x \in S THEN 1 ELSE 0
    OBVIOUS
  <1>2. Ones(t, S) = Append(Ones(s, S), one)
    <2> DEFINE u == Append(Ones(s, S), one)
    <2>1. /\ u \in Seq(Nat) /\ Len(u) = Len(s) + 1 /\ u[Len(s)+1] = one
          /\ \A k \in 1..Len(s) : u[k] = Ones(s, S)[k]
      BY <1>1, OnesSeq
    <2> HIDE DEF u
    <2>2. Ones(t, S) \in Seq(Nat) /\ Len(Ones(t, S)) = Len(s) + 1
      BY <1>1, OnesSeq
    <2>3. ASSUME NEW k \in 1..Len(s)+1 PROVE Ones(t, S)[k] = u[k]
      <3>0. Ones(t, S)[k] = IF t[k] \in S THEN 1 ELSE 0
        BY <1>1, OnesSeq
      <3>1. CASE k = Len(s) + 1
        BY <1>1, <2>1, <3>0, <3>1
      <3>2. CASE k # Len(s) + 1
        <4>1. k \in 1..Len(s)
          BY <1>1, <3>2
        <4>2. Ones(s, S)[k] = IF s[k] \in S THEN 1 ELSE 0
          BY <4>1, OnesSeq
        <4> QED
          BY <1>1, <2>1, <3>0, <4>1, <4>2
      <3> QED
        BY <3>1, <3>2
    <2>4. Ones(t, S) = u
      BY <2>1, <2>2, <2>3, SeqEqual
    <2> QED
      BY <2>4 DEF u
  <1>3. SumOf(Append(Ones(s, S), one)) = SumOf(Ones(s, S)) + one
    BY OnesSeq, SumAppend
  <1>4. CountOf(t, S) = CountOf(s, S) + one
    <2>1. CountOf(t, S) = SumOf(Ones(t, S)) /\ CountOf(s, S) = SumOf(Ones(s, S))
      BY ONLY <1>1, s \in Seq(X), OnesSeq
    <2> QED
      BY ONLY <1>2, <1>3, <2>1
  <1> QED
    BY <1>4 DEF t

LEMMA CountSplit ==
  ASSUME NEW X, NEW s \in Seq(X), NEW S, NEW n \in 0..Len(s)
  PROVE  CountOf(s, S) = CountOf(SubSeq(s, 1, n), S)
                           + CountOf(SubSeq(s, n + 1, Len(s)), S)
  <1> DEFINE N == Len(s)
             a == SubSeq(s, 1, n)
             b == SubSeq(s, n + 1, N)
             o == Ones(s, S)
             oa == SubSeq(o, 1, n)
             ob == SubSeq(o, n + 1, N)
  <1>1. N \in Nat /\ n \in Nat /\ n <= N
    OBVIOUS
  <1>2. /\ a \in Seq(X) /\ Len(a) = n /\ \A k \in 1..n : a[k] = s[k]
        /\ b \in Seq(X) /\ Len(b) = N - n
        /\ \A k \in 1..N-n : b[k] = s[(n + 1) + k - 1]
    BY <1>1, SubSeqProperties
  <1>3. /\ o \in Seq(Nat) /\ Len(o) = N
        /\ \A k \in 1..N : o[k] = IF s[k] \in S THEN 1 ELSE 0
    BY OnesSeq
  <1> HIDE DEF o, a, b, N
  <1>4. /\ oa \in Seq(Nat) /\ Len(oa) = n
        /\ \A k \in 1..n : oa[k] = o[k]
        /\ ob \in Seq(Nat) /\ Len(ob) = N - n
        /\ \A k \in 1..N-n : ob[k] = o[(n + 1) + k - 1]
    <2>1. oa \in Seq(Nat) /\ Len(oa) = n /\ \A k \in 1..n : oa[k] = o[k]
      BY <1>1, <1>3, SubSeqProperties
    <2>2. ob \in Seq(Nat) /\ Len(ob) = N - n
      BY <1>1, <1>3, SubSeqProperties
    <2>3. \A k \in 1..N-n : ob[k] = o[(n + 1) + k - 1]
      BY <1>1, <1>3, SubSeqProperties
    <2> QED
      BY ONLY <2>1, <2>2, <2>3
  <1> HIDE DEF oa, ob
  <1>5. Ones(a, S) = oa
    <2>1. Ones(a, S) \in Seq(Nat) /\ Len(Ones(a, S)) = n
      BY <1>2, OnesSeq
    <2>2. ASSUME NEW k \in 1..n PROVE Ones(a, S)[k] = oa[k]
      <3>1. k \in 1..N /\ k \in 1..Len(a)
        BY <1>1, <1>2
      <3>2. Ones(a, S)[k] = IF a[k] \in S THEN 1 ELSE 0
        BY <1>2, <3>1, OnesSeq
      <3> QED
        BY <1>2, <1>3, <1>4, <3>1, <3>2
    <2> QED
      BY <1>4, <2>1, <2>2, SeqEqual
  <1>6. Ones(b, S) = ob
    <2>1. Ones(b, S) \in Seq(Nat) /\ Len(Ones(b, S)) = N - n
      BY <1>2, OnesSeq
    <2>2. ASSUME NEW k \in 1..N-n PROVE Ones(b, S)[k] = ob[k]
      <3>1. (n + 1) + k - 1 \in 1..N /\ k \in 1..Len(b)
        BY <1>1, <1>2
      <3>2. Ones(b, S)[k] = IF b[k] \in S THEN 1 ELSE 0
        BY <1>2, <3>1, OnesSeq
      <3> QED
        BY <1>2, <1>3, <1>4, <3>1, <3>2
    <2> QED
      BY <1>4, <2>1, <2>2, SeqEqual
  <1>7. SumOf(o) = SumOf(oa) + SumOf(ob)
    <2>1. n \in 0..Len(o)
      BY <1>1, <1>3
    <2> QED
      BY <1>3, <2>1, SumSplit DEF oa, ob
  <1>8. /\ CountOf(a, S) = SumOf(oa) /\ CountOf(b, S) = SumOf(ob)
    BY <1>2, <1>5, <1>6, OnesSeq
  <1>9. CountOf(s, S) = SumOf(o)
    BY OnesSeq DEF o
  <1> QED
    BY <1>7, <1>8, <1>9 DEF a, b, N

LEMMA CountOne ==
  ASSUME NEW X, NEW s \in Seq(X), Len(s) = 1, NEW S
  PROVE  CountOf(s, S) = IF s[1] \in S THEN 1 ELSE 0
  <1>1. /\ Ones(s, S) \in Seq(Nat) /\ Len(Ones(s, S)) = 1
        /\ Ones(s, S)[1] = IF s[1] \in S THEN 1 ELSE 0
    BY OnesSeq
  <1>2. CountOf(s, S) = SumOf(Ones(s, S))
    BY ONLY s \in Seq(X), OnesSeq
  <1>3. SumOf(Ones(s, S)) = Ones(s, S)[1]
    BY ONLY <1>1, SumOne
  <1> QED
    BY ONLY <1>1, <1>2, <1>3

LEMMA CountTail ==
  ASSUME NEW X, NEW s \in Seq(X), s # <<>>, NEW S
  PROVE  CountOf(s, S) = (IF s[1] \in S THEN 1 ELSE 0) + CountOf(Tail(s), S)
  <1> DEFINE a == SubSeq(s, 1, 1)
             b == SubSeq(s, 2, Len(s))
  <1>1. Len(s) \in Nat /\ Len(s) >= 1
    BY EmptySeq
  <1>2. Tail(s) = b
    BY <1>1
  <1>3. a \in Seq(X) /\ Len(a) = 1 /\ a[1] = s[1]
    BY <1>1
  <1>4. 1 \in 0..Len(s) /\ 1 + 1 = 2
    BY <1>1
  <1>5. CountOf(s, S) = CountOf(SubSeq(s, 1, 1), S)
                          + CountOf(SubSeq(s, 1 + 1, Len(s)), S)
    BY ONLY s \in Seq(X), <1>4, CountSplit
  <1>6. CountOf(s, S) = CountOf(a, S) + CountOf(b, S)
    BY ONLY <1>4, <1>5
  <1> HIDE DEF a, b
  <1>7. CountOf(a, S) = IF s[1] \in S THEN 1 ELSE 0
    BY ONLY <1>3, CountOne
  <1> QED
    BY ONLY <1>2, <1>6, <1>7

-----------------------------------------------------------------------------
(* Sums of what a function gives for the elements.                         *)

Each(d, g) == [k \in 1..Len(d) |-> g[d[k]]]

LEMMA EachSeq ==
  ASSUME NEW X, NEW d \in Seq(X), NEW g \in [X -> Nat]
  PROVE  /\ Each(d, g) \in Seq(Nat) /\ Len(Each(d, g)) = Len(d)
         /\ \A k \in 1..Len(d) : Each(d, g)[k] = g[d[k]]
  <1>1. Len(d) \in Nat /\ \A k \in 1..Len(d) : g[d[k]] \in Nat
    OBVIOUS
  <1> QED
    BY <1>1 DEF Each

LEMMA EachNat ==
  ASSUME NEW X, NEW d \in Seq(X), NEW g \in [X -> Nat]
  PROVE  SumOf(Each(d, g)) \in Nat
  BY ONLY d \in Seq(X), g \in [X -> Nat], EachSeq, SumNat

LEMMA EachEmpty ==
  ASSUME NEW X, NEW g \in [X -> Nat] PROVE SumOf(Each(<<>>, g)) = 0
  <1> PICK e \in Seq(X) : e = <<>> /\ Len(e) = 0
    BY NoElement
  <1>1. Each(e, g) \in Seq(Nat) /\ Len(Each(e, g)) = 0
    BY ONLY e \in Seq(X), g \in [X -> Nat], Len(e) = 0, EachSeq
  <1>2. Each(e, g) = <<>>
    BY ONLY <1>1, EmptySeq
  <1>3. SumOf(Each(e, g)) = 0
    BY ONLY <1>2, SumEmpty
  <1> QED
    BY ONLY <1>3, e = <<>>

LEMMA EachAppend ==
  ASSUME NEW X, NEW d \in Seq(X), NEW x \in X, NEW g \in [X -> Nat]
  PROVE  SumOf(Each(Append(d, x), g)) = SumOf(Each(d, g)) + g[x]
  <1> DEFINE t == Append(d, x)
             u == Append(Each(d, g), g[x])
  <1>1. /\ t \in Seq(X) /\ Len(t) = Len(d) + 1 /\ Len(d) \in Nat
        /\ t[Len(d)+1] = x /\ \A k \in 1..Len(d) : t[k] = d[k]
    OBVIOUS
  <1>2. /\ Each(d, g) \in Seq(Nat) /\ Len(Each(d, g)) = Len(d)
        /\ \A k \in 1..Len(d) : Each(d, g)[k] = g[d[k]]
    BY EachSeq
  <1>3. g[x] \in Nat
    OBVIOUS
  <1>4. /\ u \in Seq(Nat) /\ Len(u) = Len(d) + 1 /\ u[Len(d)+1] = g[x]
        /\ \A k \in 1..Len(d) : u[k] = Each(d, g)[k]
    BY <1>2, <1>3
  <1> HIDE DEF t, u
  <1>5. /\ Each(t, g) \in Seq(Nat) /\ Len(Each(t, g)) = Len(t)
        /\ \A k \in 1..Len(t) : Each(t, g)[k] = g[t[k]]
    BY <1>1, EachSeq
  <1>6. ASSUME NEW k \in 1..Len(d)+1 PROVE Each(t, g)[k] = u[k]
    <2>1. CASE k = Len(d) + 1
      BY <1>1, <1>4, <1>5, <2>1
    <2>2. CASE k # Len(d) + 1
      <3>1. k \in 1..Len(d) /\ k \in 1..Len(t)
        BY <1>1, <2>2
      <3> QED
        BY <1>1, <1>2, <1>4, <1>5, <3>1
    <2> QED
      BY <2>1, <2>2
  <1>7. Each(t, g) = u
    BY <1>1, <1>4, <1>5, <1>6, SeqEqual
  <1>8. SumOf(u) = SumOf(Each(d, g)) + g[x]
    BY ONLY <1>2, <1>3, SumAppend DEF u
  <1> QED
    BY ONLY <1>7, <1>8 DEF t

LEMMA EachTail ==
  ASSUME NEW X, NEW d \in Seq(X), d # <<>>, NEW g \in [X -> Nat]
  PROVE  SumOf(Each(d, g)) = g[d[1]] + SumOf(Each(Tail(d), g))
  <1> DEFINE e == Each(d, g)
             t == Tail(d)
             u == Tail(e)
  <1>1. /\ Len(d) \in Nat /\ Len(d) >= 1
        /\ t \in Seq(X) /\ Len(t) = Len(d) - 1
        /\ \A k \in 1..Len(d)-1 : t[k] = d[k+1]
    BY EmptySeq
  <1>2. /\ e \in Seq(Nat) /\ Len(e) = Len(d)
        /\ \A k \in 1..Len(d) : e[k] = g[d[k]]
    BY EachSeq
  <1> HIDE DEF e, t
  <1>3. e # <<>>
    BY <1>1, <1>2, EmptySeq
  <1>4. /\ u \in Seq(Nat) /\ Len(u) = Len(d) - 1
        /\ \A k \in 1..Len(d)-1 : u[k] = e[k+1]
    BY <1>1, <1>2, <1>3
  <1> HIDE DEF u
  <1>5. /\ Each(t, g) \in Seq(Nat) /\ Len(Each(t, g)) = Len(t)
        /\ \A k \in 1..Len(t) : Each(t, g)[k] = g[t[k]]
    BY <1>1, EachSeq
  <1>6. ASSUME NEW k \in 1..Len(d)-1 PROVE Each(t, g)[k] = u[k]
    <2>1. k \in 1..Len(t) /\ k + 1 \in 1..Len(d)
      BY <1>1
    <2>2. Each(t, g)[k] = g[t[k]] /\ e[k+1] = g[d[k+1]]
      BY <1>2, <1>5, <2>1
    <2> QED
      BY <1>1, <1>4, <2>2
  <1>7. Each(t, g) = u
    BY <1>1, <1>4, <1>5, <1>6, SeqEqual
  <1>8. SumOf(e) = e[1] + SumOf(u)
    BY ONLY <1>2, <1>3, SumTail DEF u
  <1>9. e[1] = g[d[1]]
    BY <1>1, <1>2
  <1> QED
    BY ONLY <1>7, <1>8, <1>9 DEF e, t
=============================================================================
