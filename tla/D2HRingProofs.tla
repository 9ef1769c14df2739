----------------------------- MODULE D2HRingProofs -----------------------------
(***************************************************************************)
(* Theorems about D2HRing, for every size of the rings, the buffers and    *)
(* the DMA engine's queue, and for any load.                               *)
(*                                                                         *)
(* What the dongle does to its output state is a chain of functions, so    *)
(* the invariant has a part that is a predicate on such a state (OutOK),   *)
(* which each function keeps, whatever the messages' markers are.  What    *)
(* the host finds behind the write index depends on the markers, and with  *)
(* it the second layer, MainInv.                                           *)
(***************************************************************************)
EXTENDS D2HRing, SeqSumProofs

LEMMA Sizes ==
  /\ MaxItem \in Nat /\ MaxItem >= 2 /\ ItemCnt \in Nat /\ BufCnt \in Nat
  /\ DescCnt \in Nat /\ Modulo \in Nat /\ Modulo >= 1 /\ MaxChain \in Nat
  /\ \A l \in Loads : l.tx \in Nat /\ l.rx \in Nat /\ l.timeouts \in Nat
  BY D2HAssumption

-----------------------------------------------------------------------------
(* Message n of a ring, and the slot it goes to.                           *)

Msg(n) == [id |-> n, mark |-> (Modulo + n) % Modulo]

InSlot(n, s) == s \in 0..MaxItem-1 /\ \E k \in Nat : n = k * MaxItem + s + 1

LEMMA Times ==
  ASSUME NEW a \in Nat, NEW b \in Nat
  PROVE  /\ a * MaxItem \in Nat /\ (a + 1) * MaxItem = a * MaxItem + MaxItem
         /\ a < b => a * MaxItem + MaxItem <= b * MaxItem
         /\ a <= b => a * MaxItem <= b * MaxItem
         /\ a * MaxItem < b * MaxItem => a < b
         /\ a <= b => b * MaxItem - a * MaxItem = (b - a) * MaxItem
  <1>1. MaxItem \in Nat /\ MaxItem >= 2
    BY Sizes
  <1>2. a * MaxItem \in Nat /\ (a + 1) * MaxItem = a * MaxItem + MaxItem
    BY <1>1
  <1>3. a < b => a * MaxItem + MaxItem <= b * MaxItem
    BY <1>1
  <1>4. a <= b => a * MaxItem <= b * MaxItem
    BY <1>1
  <1>5. a * MaxItem < b * MaxItem => a < b
    BY <1>1
  <1>6. a <= b => b * MaxItem - a * MaxItem = (b - a) * MaxItem
    BY <1>1
  <1> QED
    BY <1>2, <1>3, <1>4, <1>5, <1>6

(* The slot of the message k places on, in a block that does not pass the  *)
(* end of the ring.                                                        *)
LEMMA SlotOn ==
  ASSUME NEW n, NEW s, InSlot(n, s), NEW k \in Nat, s + k <= MaxItem
  PROVE  /\ InSlot(n + k, ADVANCE(s, k, MaxItem))
         /\ s + k < MaxItem => InSlot(n + k, s + k)
         /\ n \in Nat /\ n >= 1
  <1>1. PICK j \in Nat : n = j * MaxItem + s + 1
    BY DEF InSlot
  <1>2. /\ s \in 0..MaxItem-1 /\ j * MaxItem \in Nat /\ MaxItem \in Nat
        /\ (j + 1) * MaxItem = j * MaxItem + MaxItem
    BY Times, Sizes DEF InSlot
  <1>3. s + k < MaxItem => s + k \in 0..MaxItem-1 /\ n + k = j * MaxItem + (s + k) + 1
    BY ONLY <1>1, <1>2, k \in Nat
  <1>4. s + k = MaxItem => 0 \in 0..MaxItem-1 /\ n + k = (j + 1) * MaxItem + 0 + 1
    BY ONLY <1>1, <1>2, k \in Nat
  <1>5. j + 1 \in Nat
    OBVIOUS
  <1>6. s + k < MaxItem => InSlot(n + k, s + k)
    BY ONLY <1>1, <1>3 DEF InSlot
  <1>7. s + k = MaxItem => InSlot(n + k, 0)
    BY ONLY <1>4, <1>5 DEF InSlot
  <1>8. ADVANCE(s, k, MaxItem) = IF s + k = MaxItem THEN 0 ELSE s + k
    BY <1>2 DEF ADVANCE
  <1> QED
    BY <1>1, <1>2, <1>6, <1>7, <1>8

(* Two messages in one slot are whole rounds apart.                        *)
LEMMA SlotRounds ==
  ASSUME NEW m, NEW n, NEW s, InSlot(m, s), InSlot(n, s), m < n
  PROVE  \E k \in Nat \ {0} : n = m + k * MaxItem /\ m + MaxItem <= n
  <1>1. PICK i \in Nat : m = i * MaxItem + s + 1
    BY DEF InSlot
  <1>2. PICK j \in Nat : n = j * MaxItem + s + 1
    BY DEF InSlot
  <1>3. s \in Nat /\ i * MaxItem \in Nat /\ j * MaxItem \in Nat /\ MaxItem \in Nat
    BY Times, Sizes DEF InSlot
  <1>4. i < j
    <2>1. i * MaxItem < j * MaxItem
      BY ONLY <1>1, <1>2, <1>3, m < n
    <2> QED
      BY <2>1, Times
  <1>5. j - i \in Nat \ {0} /\ j * MaxItem - i * MaxItem = (j - i) * MaxItem
    BY <1>4, Times
  <1>6. i * MaxItem + MaxItem <= j * MaxItem
    BY <1>4, Times
  <1>7. n = m + (j - i) * MaxItem /\ m + MaxItem <= n
    <2> DEFINE d == (j - i) * MaxItem
               a == i * MaxItem
               b == j * MaxItem
    <2>1. b - a = d /\ a + MaxItem <= b /\ m = a + s + 1 /\ n = b + s + 1
          /\ a \in Nat /\ b \in Nat /\ s \in Nat /\ MaxItem \in Nat
      BY ONLY <1>1, <1>2, <1>3, <1>5, <1>6
    <2> HIDE DEF a, b, d
    <2>2. n = m + d /\ m + MaxItem <= n
      BY ONLY <2>1
    <2> QED
      BY ONLY <2>2 DEF d
  <1> QED
    BY <1>5, <1>7

(* A message has one slot, and messages less than a round apart have       *)
(* different ones.                                                         *)
LEMMA SlotUnique ==
  ASSUME NEW n, NEW s, NEW t, InSlot(n, s), InSlot(n, t)
  PROVE  s = t
  <1>1. PICK i \in Nat : n = i * MaxItem + s + 1
    BY DEF InSlot
  <1>2. PICK j \in Nat : n = j * MaxItem + t + 1
    BY DEF InSlot
  <1>3. /\ s \in 0..MaxItem-1 /\ t \in 0..MaxItem-1 /\ MaxItem \in Nat
        /\ i * MaxItem \in Nat /\ j * MaxItem \in Nat
    BY Times, Sizes DEF InSlot
  <1>4. /\ i < j => i * MaxItem + MaxItem <= j * MaxItem
        /\ j < i => j * MaxItem + MaxItem <= i * MaxItem
    BY Times
  <1>5. i = j
    <2>1. ~(i * MaxItem + MaxItem <= j * MaxItem) /\ ~(j * MaxItem + MaxItem <= i * MaxItem)
      BY ONLY <1>1, <1>2, <1>3
    <2> QED
      BY ONLY <1>4, <2>1, i \in Nat, j \in Nat
  <1> QED
    BY ONLY <1>1, <1>2, <1>3, <1>5

(* The slots of two messages tell how far they are apart, if less than a   *)
(* round.                                                                  *)
LEMMA SlotDist ==
  ASSUME NEW a, NEW b, NEW i, NEW j, InSlot(a, i), InSlot(b, j),
         a <= b, b < a + MaxItem
  PROVE  NTXPACTIVE(i, j, MaxItem) = b - a
  <1>1. PICK p \in Nat : a = p * MaxItem + i + 1
    BY DEF InSlot
  <1>2. PICK q \in Nat : b = q * MaxItem + j + 1
    BY DEF InSlot
  <1>3. /\ i \in 0..MaxItem-1 /\ j \in 0..MaxItem-1 /\ MaxItem \in Nat
        /\ p * MaxItem \in Nat /\ q * MaxItem \in Nat
    BY Times, Sizes DEF InSlot
  <1>4. q = p \/ q = p + 1
    <2>1. ASSUME q < p PROVE FALSE
      <3>1. q * MaxItem + MaxItem <= p * MaxItem
        BY <2>1, Times
      <3> QED
        BY ONLY <1>1, <1>2, <1>3, <3>1, a <= b
    <2>2. ASSUME p + 1 < q PROVE FALSE
      <3>1. (p + 1) * MaxItem + MaxItem <= q * MaxItem /\ (p + 1) * MaxItem = p * MaxItem + MaxItem
        BY <2>2, Times
      <3> QED
        BY ONLY <1>1, <1>2, <1>3, <3>1, b < a + MaxItem
    <2> QED
      BY <2>1, <2>2
  <1>5. (p + 1) * MaxItem = p * MaxItem + MaxItem
    BY Times
  <1>6. CASE q = p
    BY ONLY <1>1, <1>2, <1>3, <1>6, a <= b DEF NTXPACTIVE
  <1>7. CASE q = p + 1
    <2>1. b = p * MaxItem + MaxItem + j + 1
      BY ONLY <1>2, <1>5, <1>7
    <2>2. j < i
      BY ONLY <1>1, <1>3, <2>1, b < a + MaxItem
    <2> QED
      BY ONLY <1>1, <1>3, <2>1, <2>2 DEF NTXPACTIVE
  <1> QED
    BY <1>4, <1>6, <1>7

-----------------------------------------------------------------------------
(* A climb along a queue: f starts at a, grows by what g gives for each    *)
(* element, and ends at b.                                                 *)

Climbs(q, g, f, a, b) ==
  /\ f \in [0..Len(q) -> Nat] /\ f[0] = a /\ f[Len(q)] = b
  /\ \A k \in 1..Len(q) : f[k] = f[k-1] + g[q[k]]

Longer(q, f, c) == [k \in 0..Len(q)+1 |-> IF k = Len(q) + 1 THEN c ELSE f[k]]
Shorter(q, f) == [k \in 0..Len(q)-1 |-> f[k+1]]

LEMMA ClimbsAppend ==
  ASSUME NEW X, NEW q \in Seq(X), NEW x \in X, NEW g \in [X -> Nat],
         NEW f, NEW a, NEW b, Climbs(q, g, f, a, b)
  PROVE  /\ Climbs(Append(q, x), g, Longer(q, f, b + g[x]), a, b + g[x])
         /\ \A k \in 0..Len(q) : Longer(q, f, b + g[x])[k] = f[k]
         /\ Longer(q, f, b + g[x])[Len(q)+1] = b + g[x]
  <1> DEFINE t == Append(q, x)
             h == Longer(q, f, b + g[x])
             N == Len(q)
  <1>1. /\ Len(t) = N + 1 /\ N \in Nat
        /\ t[N+1] = x /\ \A k \in 1..N : t[k] = q[k]
    OBVIOUS
  <1>2. /\ f \in [0..N -> Nat] /\ f[0] = a /\ f[N] = b
        /\ \A k \in 1..N : f[k] = f[k-1] + g[q[k]]
    BY DEF Climbs
  <1>3. g[x] \in Nat /\ b \in Nat
    BY <1>1, <1>2
  <1> HIDE DEF N
  <1>4. h = [k \in 0..N+1 |-> IF k = N + 1 THEN b + g[x] ELSE f[k]]
    BY DEF Longer, N
  <1>5. (\A k \in 0..N : h[k] = f[k]) /\ h[N+1] = b + g[x] /\ h \in [0..N+1 -> Nat]
    <2>1. \A k \in 0..N : k # N + 1 /\ k \in 0..N+1
      BY ONLY <1>1
    <2>2. N + 1 \in 0..N+1 /\ b + g[x] \in Nat
      BY ONLY <1>1, <1>3
    <2>3. \A k \in 0..N : h[k] = f[k]
      BY ONLY <1>4, <2>1
    <2>4. h[N+1] = b + g[x]
      BY ONLY <1>4, <2>2
    <2>5. \A k \in 0..N+1 : (IF k = N + 1 THEN b + g[x] ELSE f[k]) \in Nat
      <3>1. \A k \in 0..N+1 : k = N + 1 \/ k \in 0..N
        BY ONLY <1>1
      <3> QED
        BY ONLY <1>2, <2>2, <3>1
    <2>6. h \in [0..N+1 -> Nat]
      BY ONLY <1>4, <2>5
    <2> QED
      BY ONLY <2>3, <2>4, <2>6
  <1> HIDE DEF h, t
  <1>6. ASSUME NEW k \in 1..N+1 PROVE h[k] = h[k-1] + g[t[k]]
    <2>1. CASE k = N + 1
      <3>1. k - 1 = N /\ N \in 0..N
        BY ONLY <2>1, <1>1
      <3> QED
        BY ONLY <2>1, <3>1, <1>1, <1>2, <1>5
    <2>2. CASE k # N + 1
      <3>1. k \in 1..N /\ k \in 0..N /\ k - 1 \in 0..N
        BY ONLY <2>2, <1>1, k \in 1..N+1
      <3> QED
        BY ONLY <3>1, <1>1, <1>2, <1>5
    <2> QED
      BY <2>1, <2>2
  <1>7. h[0] = a
    BY ONLY <1>1, <1>2, <1>5
  <1>8. Climbs(t, g, h, a, b + g[x])
    BY ONLY <1>1, <1>5, <1>6, <1>7 DEF Climbs
  <1> QED
    BY ONLY <1>5, <1>8 DEF t, h, N

LEMMA ClimbsTail ==
  ASSUME NEW X, NEW q \in Seq(X), q # <<>>, NEW g \in [X -> Nat],
         NEW f, NEW a, NEW b, Climbs(q, g, f, a, b)
  PROVE  /\ Climbs(Tail(q), g, Shorter(q, f), a + g[q[1]], b)
         /\ \A k \in 0..Len(q)-1 : Shorter(q, f)[k] = f[k+1]
         /\ Len(Tail(q)) = Len(q) - 1 /\ \A k \in 1..Len(q)-1 : Tail(q)[k] = q[k+1]
  <1> DEFINE t == Tail(q)
             h == Shorter(q, f)
             N == Len(q)
  <1>1. /\ N \in Nat /\ N >= 1 /\ Len(t) = N - 1
        /\ \A k \in 1..N-1 : t[k] = q[k+1]
    BY EmptySeq
  <1>2. /\ f \in [0..N -> Nat] /\ f[0] = a /\ f[N] = b
        /\ \A k \in 1..N : f[k] = f[k-1] + g[q[k]]
    BY DEF Climbs
  <1> HIDE DEF N, t
  <1>3. (\A k \in 0..N-1 : h[k] = f[k+1]) /\ h \in [0..N-1 -> Nat]
    <2>1. h = [k \in 0..N-1 |-> f[k+1]]
      BY DEF Shorter, N
    <2>2. \A k \in 0..N-1 : f[k+1] \in Nat
      BY ONLY <1>1, <1>2
    <2> QED
      BY ONLY <2>1, <2>2
  <1> HIDE DEF h
  <1>4. ASSUME NEW k \in 1..N-1 PROVE h[k] = h[k-1] + g[t[k]]
    <2>1. k \in 0..N-1 /\ k - 1 \in 0..N-1 /\ (k - 1) + 1 = k /\ k + 1 \in 1..N
          /\ (k + 1) - 1 = k
      BY ONLY <1>1, k \in 1..N-1
    <2>2. h[k] = f[k+1] /\ h[k-1] = f[k]
      BY ONLY <1>3, <2>1
    <2>3. f[k+1] = f[k] + g[q[k+1]]
      BY ONLY <1>2, <2>1
    <2>4. t[k] = q[k+1]
      BY ONLY <1>1, k \in 1..N-1
    <2> QED
      BY ONLY <2>2, <2>3, <2>4
  <1>5. h[0] = a + g[q[1]] /\ h[N-1] = b
    <2>1. 0 \in 0..N-1 /\ N - 1 \in 0..N-1 /\ (N - 1) + 1 = N /\ 1 \in 1..N /\ 1 - 1 = 0
          /\ 0 + 1 = 1
      BY ONLY <1>1
    <2> QED
      BY ONLY <1>2, <1>3, <2>1
  <1>6. Climbs(t, g, h, a + g[q[1]], b)
    BY ONLY <1>1, <1>3, <1>4, <1>5 DEF Climbs
  <1> QED
    BY ONLY <1>1, <1>3, <1>6 DEF t, h, N

(* A climb never falls.                                                    *)
LEMMA ClimbsUp ==
  ASSUME NEW X, NEW q \in Seq(X), NEW g \in [X -> Nat],
         NEW f, NEW a, NEW b, Climbs(q, g, f, a, b)
  PROVE  SumOf(Each(q, g)) = b - a /\ a \in Nat /\ b \in Nat /\ a <= b
  <1> DEFINE N == Len(q)
             s == Each(q, g)
  <1>1. /\ N \in Nat /\ f \in [0..N -> Nat] /\ f[0] = a /\ f[N] = b
        /\ \A k \in 1..N : f[k] = f[k-1] + g[q[k]]
    BY DEF Climbs
  <1>2. /\ s \in Seq(Nat) /\ Len(s) = N
        /\ \A k \in 1..N : s[k] = g[q[k]]
    BY EachSeq
  <1> HIDE DEF N, s
  <1>3. PICK h : Sums(s, N, h)
    BY <1>2, SumsExist
  <1>4. /\ h \in [0..N -> Nat] /\ h[0] = 0
        /\ \A k \in 1..N : h[k] = h[k-1] + s[k]
    BY <1>3 DEF Sums
  <1> DEFINE T == {k \in 0..N : f[k] = a + h[k]}
  <1>5. 0 \in T
    BY ONLY <1>1, <1>4
  <1>6. ASSUME NEW k \in 0..N, k \in T, k < N PROVE k + 1 \in T
    <2>1. k + 1 \in 1..N /\ (k + 1) - 1 = k /\ k + 1 \in 0..N
      BY ONLY <1>1, <1>6
    <2>2. f[k+1] = f[k] + s[k+1] /\ h[k+1] = h[k] + s[k+1] /\ f[k] = a + h[k]
      BY ONLY <1>1, <1>2, <1>4, <1>6, <2>1
    <2>3. f[k] \in Nat /\ h[k] \in Nat /\ s[k+1] \in Nat /\ a \in Nat
      <3>1. 0 \in 0..N
        BY ONLY <1>1
      <3>2. s[k+1] \in Nat
        BY ONLY <1>2, <2>1
      <3> QED
        BY ONLY <1>1, <1>4, <3>1, <3>2, k \in 0..N
    <2>4. f[k+1] = a + h[k+1]
      BY ONLY <2>2, <2>3
    <2> QED
      BY ONLY <2>1, <2>4
  <1>7. N \in T
    <2> HIDE DEF T
    <2> QED
      BY ONLY <1>1, <1>5, <1>6, SetInduction
  <1>8. SumOf(s) = h[N]
    BY ONLY <1>2, <1>3, SumIs
  <1>9. a \in Nat /\ b \in Nat /\ h[N] \in Nat /\ b = a + h[N]
    <2>1. 0 \in 0..N /\ N \in 0..N
      BY ONLY <1>1
    <2> QED
      BY ONLY <1>1, <1>4, <1>7, <2>1
  <1> QED
    BY ONLY <1>8, <1>9 DEF s

-----------------------------------------------------------------------------
(* The first layer of the invariant: the dongle's output state.            *)

QEntry == [ring : Rings \cup {"payload"}, len : 0..MaxItem-1]
Req == Rings \X Id \X BOOLEAN
RingState == [in_use : BOOLEAN, items : Seq(Message), availcnt : Nat,
              pend : BOOLEAN, epoch : Nat, wr_pending : 0..MaxItem-1]
Flight == [ring : Rings, slot : 0..MaxItem-1, msg : Message]
OutType == [ring : [Rings -> RingState], q : Seq(QEntry), flying : SUBSET Flight]

(* Completions made, and those of them handed to the DMA engine.           *)
Made(o, r) == o.ring[r].epoch - (Modulo + 1)
Passed(o, r) == Made(o, r) - Len(o.ring[r].items)

(* The DMAs of a ring take the messages from S + 1 to W, in order, none    *)
(* past the end of the ring.                                               *)
Lens(r) == [e \in QEntry |-> IF e.ring = r THEN e.len ELSE 0]

InPlace(q, r, f) ==
  \A k \in 1..Len(q) : q[k].ring = r =>
    /\ q[k].len >= 1
    /\ \E s \in 0..MaxItem-1 : InSlot(f[k-1] + 1, s) /\ s + q[k].len <= MaxItem

DmaOK(q, r, S, W) == \E f : Climbs(q, Lens(r), f, S, W) /\ InPlace(q, r, f)

(* A local buffer is free, in use, or the source of a DMA.                 *)
DmaOf(r) == [ring : {r}, len : 0..MaxItem-1]

BufOK(s, q, r) ==
  /\ s.availcnt + (IF s.in_use THEN 1 ELSE 0) + CountOf(q, DmaOf(r)) = BufCnt
  /\ s.in_use <=> s.items # <<>>

(* A slot of host memory holds the last message that landed in it, and all *)
(* later ones for that slot are on their way.                              *)
FlyOK(fly, r, W, m) ==
  /\ \A f \in fly : f.ring = r =>
       /\ f.msg.id \in 1..W /\ f.msg = Msg(f.msg.id) /\ InSlot(f.msg.id, f.slot)
       /\ m[f.slot].id < f.msg.id
  /\ \A s \in 0..MaxItem-1 : m[s] # Zero =>
       m[s].id \in 1..W /\ m[s] = Msg(m[s].id) /\ InSlot(m[s].id, s)
  /\ \A s \in 0..MaxItem-1, n \in 1..W :
       InSlot(n, s) /\ m[s].id < n => [ring |-> r, slot |-> s, msg |-> Msg(n)] \in fly

(* The ring r of o: S messages are behind the write index, R are read.     *)
OutRing(o, r, S, R, m) ==
  LET W == Passed(o, r) IN
  /\ W \in S..(R + MaxItem - 1) /\ InSlot(W + 1, o.ring[r].wr_pending)
  /\ DmaOK(o.q, r, S, W) /\ BufOK(o.ring[r], o.q, r) /\ FlyOK(o.flying, r, W, m)
  /\ \A i \in 1..Len(o.ring[r].items) : o.ring[r].items[i] = Msg(W + i)

OutOK(o, S, R, m) ==
  o \in OutType /\ \A r \in Rings : OutRing(o, r, S[r], R[r], m[r])

(* The frame of the lemmas: S and R are counts, the host has read R.       *)
Frame(S, R, m) ==
  /\ S \in [Rings -> Nat] /\ R \in [Rings -> Nat]
  /\ m \in [Rings -> [0..MaxItem-1 -> Message]]
  /\ \A r \in Rings : R[r] <= S[r] /\ InSlot(R[r] + 1, tcm_r[r])

LEMMA IdNat == Id \subseteq Nat
  BY Sizes DEF Id

LEMMA MessageIs ==
  ASSUME NEW x \in Message
  PROVE  x.id \in Id /\ x.id \in Nat /\ x.mark \in 0..Modulo-1
  BY IdNat DEF Message

LEMMA MsgIs ==
  ASSUME NEW n \in Id
  PROVE  Msg(n) \in Message /\ Msg(n).id = n
  <1>1. n \in Nat /\ Modulo \in Nat /\ Modulo >= 1
    BY IdNat, Sizes
  <1>2. (Modulo + n) % Modulo \in 0..Modulo-1
    BY ONLY <1>1
  <1> QED
    BY ONLY <1>2, n \in Id DEF Msg, Message

LEMMA LensType ==
  ASSUME NEW r
  PROVE  Lens(r) \in [QEntry -> Nat] /\ \A e \in QEntry : Lens(r)[e] = IF e.ring = r THEN e.len ELSE 0
  <1>1. MaxItem \in Nat
    BY Sizes
  <1> QED
    BY ONLY <1>1 DEF Lens, QEntry

LEMMA DmaAppend ==
  ASSUME NEW q \in Seq(QEntry), NEW e \in QEntry, NEW r, NEW S, NEW W,
         DmaOK(q, r, S, W),
         e.ring = r => /\ e.len >= 1
                       /\ \E s \in 0..MaxItem-1 : InSlot(W + 1, s) /\ s + e.len <= MaxItem
  PROVE  DmaOK(Append(q, e), r, S, W + IF e.ring = r THEN e.len ELSE 0)
  <1>1. PICK f : Climbs(q, Lens(r), f, S, W) /\ InPlace(q, r, f)
    BY DEF DmaOK
  <1>2. Lens(r) \in [QEntry -> Nat] /\ Lens(r)[e] = IF e.ring = r THEN e.len ELSE 0
    BY LensType
  <1> DEFINE c == W + Lens(r)[e]
             h == Longer(q, f, c)
             t == Append(q, e)
  <1>3. Climbs(t, Lens(r), h, S, c)
    BY ONLY <1>1, <1>2, q \in Seq(QEntry), e \in QEntry, ClimbsAppend
  <1>4. \A k \in 0..Len(q) : h[k] = f[k]
    BY ONLY <1>1, <1>2, q \in Seq(QEntry), e \in QEntry, ClimbsAppend
  <1>5. /\ Len(t) = Len(q) + 1 /\ Len(q) \in Nat /\ t[Len(q)+1] = e
        /\ \A k \in 1..Len(q) : t[k] = q[k]
    OBVIOUS
  <1>6. f[Len(q)] = W
    BY <1>1 DEF Climbs
  <1> HIDE DEF h, t
  <1>7. ASSUME NEW k \in 1..Len(t), t[k].ring = r
        PROVE  /\ t[k].len >= 1
               /\ \E s \in 0..MaxItem-1 : InSlot(h[k-1] + 1, s) /\ s + t[k].len <= MaxItem
    <2>1. CASE k = Len(q) + 1
      <3>1. k - 1 = Len(q) /\ Len(q) \in 0..Len(q)
        BY ONLY <2>1, <1>5
      <3>2. h[k-1] = W /\ t[k] = e
        BY ONLY <2>1, <3>1, <1>4, <1>5, <1>6
      <3> QED
        BY <3>2, <1>7
    <2>2. CASE k # Len(q) + 1
      <3>1. k \in 1..Len(q) /\ k - 1 \in 0..Len(q)
        BY ONLY <2>2, <1>5, k \in 1..Len(t)
      <3>2. h[k-1] = f[k-1] /\ t[k] = q[k]
        BY ONLY <3>1, <1>4, <1>5
      <3> QED
        BY ONLY <3>1, <3>2, <1>1, <1>7 DEF InPlace
    <2> QED
      BY <2>1, <2>2
  <1>8. InPlace(t, r, h)
    BY <1>7 DEF InPlace
  <1>9. DmaOK(t, r, S, c)
    BY <1>3, <1>8 DEF DmaOK
  <1>10. c = W + IF e.ring = r THEN e.len ELSE 0
    BY <1>2
  <1> QED
    BY ONLY <1>9, <1>10 DEF t

LEMMA DmaTail ==
  ASSUME NEW q \in Seq(QEntry), q # <<>>, NEW r, NEW S, NEW W, DmaOK(q, r, S, W)
  PROVE  LET l == IF q[1].ring = r THEN q[1].len ELSE 0
         IN  /\ DmaOK(Tail(q), r, S + l, W) /\ S + l \in Nat /\ W \in Nat /\ S + l <= W
             /\ q[1].ring = r =>
                  /\ q[1].len >= 1
                  /\ \E s \in 0..MaxItem-1 : InSlot(S + 1, s) /\ s + q[1].len <= MaxItem
  <1>1. PICK f : Climbs(q, Lens(r), f, S, W) /\ InPlace(q, r, f)
    BY DEF DmaOK
  <1>2. q[1] \in QEntry /\ Tail(q) \in Seq(QEntry) /\ Len(q) \in Nat /\ Len(q) >= 1
    BY EmptySeq
  <1>3. Lens(r) \in [QEntry -> Nat] /\ Lens(r)[q[1]] = IF q[1].ring = r THEN q[1].len ELSE 0
    BY <1>2, LensType
  <1> DEFINE a == S + Lens(r)[q[1]]
             h == Shorter(q, f)
             t == Tail(q)
  <1>4. Climbs(t, Lens(r), h, a, W)
    BY ONLY <1>1, <1>3, q \in Seq(QEntry), q # <<>>, ClimbsTail
  <1>5. /\ \A k \in 0..Len(q)-1 : h[k] = f[k+1]
        /\ Len(t) = Len(q) - 1 /\ \A k \in 1..Len(q)-1 : t[k] = q[k+1]
    BY ONLY <1>1, <1>3, q \in Seq(QEntry), q # <<>>, ClimbsTail
  <1> HIDE DEF h, t
  <1>6. ASSUME NEW k \in 1..Len(t), t[k].ring = r
        PROVE  /\ t[k].len >= 1
               /\ \E s \in 0..MaxItem-1 : InSlot(h[k-1] + 1, s) /\ s + t[k].len <= MaxItem
    <2>1. k \in 1..Len(q)-1 /\ k + 1 \in 1..Len(q) /\ k - 1 \in 0..Len(q)-1
          /\ (k - 1) + 1 = (k + 1) - 1
      BY ONLY <1>2, <1>5, k \in 1..Len(t)
    <2>2. t[k] = q[k+1] /\ h[k-1] = f[(k+1)-1]
      BY ONLY <1>5, <2>1
    <2> QED
      BY ONLY <1>1, <1>6, <2>1, <2>2 DEF InPlace
  <1>7. InPlace(t, r, h)
    BY <1>6 DEF InPlace
  <1>8. DmaOK(t, r, a, W)
    BY <1>4, <1>7 DEF DmaOK
  <1>9. a \in Nat /\ W \in Nat /\ a <= W
    BY ONLY <1>2, <1>3, <1>4, ClimbsUp DEF t
  <1>10. ASSUME q[1].ring = r
         PROVE  /\ q[1].len >= 1
                /\ \E s \in 0..MaxItem-1 : InSlot(S + 1, s) /\ s + q[1].len <= MaxItem
    <2>1. 1 \in 1..Len(q) /\ 1 - 1 = 0 /\ f[0] = S
      BY <1>1, <1>2 DEF Climbs
    <2> QED
      BY ONLY <1>1, <1>10, <2>1 DEF InPlace
  <1> QED
    BY ONLY <1>3, <1>8, <1>9, <1>10 DEF t

LEMMA DmaTotal ==
  ASSUME NEW q \in Seq(QEntry), NEW r, NEW S, NEW W, DmaOK(q, r, S, W)
  PROVE  /\ SumOf([k \in 1..Len(q) |-> IF q[k].ring = r THEN q[k].len ELSE 0]) = W - S
         /\ S \in Nat /\ W \in Nat
  <1>1. PICK f : Climbs(q, Lens(r), f, S, W)
    BY DEF DmaOK
  <1>2. Lens(r) \in [QEntry -> Nat]
    BY LensType
  <1>3. SumOf(Each(q, Lens(r))) = W - S /\ S \in Nat /\ W \in Nat
    BY ONLY <1>1, <1>2, q \in Seq(QEntry), ClimbsUp
  <1>4. \A k \in 1..Len(q) : Lens(r)[q[k]] = IF q[k].ring = r THEN q[k].len ELSE 0
    BY LensType
  <1>5. Each(q, Lens(r)) = [k \in 1..Len(q) |-> IF q[k].ring = r THEN q[k].len ELSE 0]
    BY ONLY <1>4 DEF Each
  <1> QED
    BY ONLY <1>3, <1>5

-----------------------------------------------------------------------------
(* Writes to host memory.                                                  *)

LEMMA FlySend ==
  ASSUME NEW r \in Rings, NEW fly, NEW W \in Nat,
         NEW m \in [0..MaxItem-1 -> Message], FlyOK(fly, r, W, m),
         NEW w, InSlot(W + 1, w), NEW n \in Nat, w + n <= MaxItem,
         NEW items, \A i \in 1..n : items[i] = Msg(W + i), NEW new,
         \A f : f \in new <=>
                \E i \in 1..n : f = [ring |-> r, slot |-> w + (i - 1), msg |-> items[i]]
  PROVE  FlyOK(fly \cup new, r, W + n, m)
  <1> DEFINE all == fly \cup new
  <1>1. /\ \A f \in fly : f.ring = r =>
             /\ f.msg.id \in 1..W /\ f.msg = Msg(f.msg.id) /\ InSlot(f.msg.id, f.slot)
             /\ m[f.slot].id < f.msg.id
        /\ \A s \in 0..MaxItem-1 : m[s] # Zero =>
             m[s].id \in 1..W /\ m[s] = Msg(m[s].id) /\ InSlot(m[s].id, s)
        /\ \A s \in 0..MaxItem-1, k \in 1..W :
             InSlot(k, s) /\ m[s].id < k => [ring |-> r, slot |-> s, msg |-> Msg(k)] \in fly
    BY DEF FlyOK
  <1>2. \A s \in 0..MaxItem-1 : m[s].id \in Nat /\ m[s].id <= W
    <2>1. ASSUME NEW s \in 0..MaxItem-1 PROVE m[s].id \in 0..W
      BY <1>1 DEF Zero
    <2> QED
      BY <2>1
  <1>3. w \in 0..MaxItem-1 /\ MaxItem \in Nat
    BY Sizes DEF InSlot
  <1>4. ASSUME NEW i \in 1..n
        PROVE  /\ InSlot(W + i, w + (i - 1)) /\ w + (i - 1) \in 0..MaxItem-1
               /\ W + i \in 1..W+n /\ Msg(W + i).id = W + i
    <2>1. i - 1 \in Nat /\ w + (i - 1) < MaxItem /\ w + (i - 1) <= MaxItem
          /\ W + 1 + (i - 1) = W + i /\ W + i \in 1..W+n
      BY ONLY <1>3, i \in 1..n, n \in Nat, W \in Nat, w + n <= MaxItem
    <2>2. InSlot(W + 1 + (i - 1), w + (i - 1))
      BY <2>1, SlotOn
    <2>3. InSlot(W + i, w + (i - 1))
      BY ONLY <2>1, <2>2
    <2> QED
      BY <2>1, <2>3 DEF InSlot, Msg
  <1>5. ASSUME NEW f \in all, f.ring = r
        PROVE  /\ f.msg.id \in 1..W+n /\ f.msg = Msg(f.msg.id) /\ InSlot(f.msg.id, f.slot)
               /\ m[f.slot].id < f.msg.id
    <2>1. CASE f \in fly
      <3>1. f.msg.id \in 1..W /\ f.msg = Msg(f.msg.id) /\ InSlot(f.msg.id, f.slot)
            /\ m[f.slot].id < f.msg.id
        BY ONLY <1>1, <1>5, <2>1
      <3>2. f.msg.id \in 1..W+n
        BY ONLY <3>1, n \in Nat, W \in Nat
      <3> QED
        BY ONLY <3>1, <3>2
    <2>2. CASE f \in new
      <3>1. PICK i \in 1..n : f = [ring |-> r, slot |-> w + (i - 1), msg |-> items[i]]
        BY <2>2
      <3>2. f.slot = w + (i - 1) /\ f.msg = Msg(W + i)
        BY <3>1
      <3>3. m[f.slot].id < W + i
        BY ONLY <1>2, <1>4, <3>2, W \in Nat, i \in 1..n, n \in Nat
      <3>4. f.msg.id = W + i
        BY <1>4, <3>2
      <3> QED
        BY ONLY <1>4, <3>2, <3>3, <3>4
    <2> QED
      BY <2>1, <2>2
  <1>6. ASSUME NEW s \in 0..MaxItem-1, m[s] # Zero
        PROVE  m[s].id \in 1..W+n /\ m[s] = Msg(m[s].id) /\ InSlot(m[s].id, s)
    <2>1. m[s].id \in 1..W /\ m[s] = Msg(m[s].id) /\ InSlot(m[s].id, s)
      BY ONLY <1>1, <1>6
    <2>2. m[s].id \in 1..W+n
      BY ONLY <2>1, n \in Nat, W \in Nat
    <2> QED
      BY ONLY <2>1, <2>2
  <1>7. ASSUME NEW s \in 0..MaxItem-1, NEW k \in 1..W+n, InSlot(k, s), m[s].id < k
        PROVE  [ring |-> r, slot |-> s, msg |-> Msg(k)] \in all
    <2>1. CASE k \in 1..W
      BY ONLY <1>1, <1>7, <2>1
    <2>2. CASE k \notin 1..W
      <3>1. k - W \in 1..n /\ W + (k - W) = k
        BY ONLY <2>2, k \in 1..W+n, n \in Nat, W \in Nat
      <3>2. InSlot(k, w + ((k - W) - 1))
        BY <1>4, <3>1
      <3>3. s = w + ((k - W) - 1)
        BY <1>7, <3>2, SlotUnique
      <3>4. items[k - W] = Msg(k)
        BY <3>1
      <3> QED
        BY <3>1, <3>3, <3>4
    <2> QED
      BY <2>1, <2>2
  <1>8. FlyOK(all, r, W + n, m)
    <2> HIDE DEF all
    <2> QED
      BY ONLY <1>5, <1>6, <1>7 DEF FlyOK
  <1> QED
    BY <1>8

(* Writes of the other ring.                                               *)
LEMMA FlyOther ==
  ASSUME NEW fly, NEW new, NEW r, NEW W, NEW m, FlyOK(fly, r, W, m),
         \A f \in new : f.ring # r
  PROVE  FlyOK(fly \cup new, r, W, m)
  BY DEF FlyOK

(* A write lands, the first of those to its slot.                          *)
LEMMA FlyLand ==
  ASSUME NEW r \in Rings, NEW fly, fly \subseteq Flight, NEW W \in Nat,
         NEW m \in [0..MaxItem-1 -> Message], FlyOK(fly, r, W, m),
         NEW f \in fly, f.ring = r,
         \A g \in fly : g.ring = f.ring /\ g.slot = f.slot => f.msg.id <= g.msg.id
  PROVE  FlyOK(fly \ {f}, r, W, [m EXCEPT ![f.slot] = f.msg])
  <1> DEFINE m2 == [m EXCEPT ![f.slot] = f.msg]
  <1>1. /\ \A g \in fly : g.ring = r =>
             /\ g.msg.id \in 1..W /\ g.msg = Msg(g.msg.id) /\ InSlot(g.msg.id, g.slot)
             /\ m[g.slot].id < g.msg.id
        /\ \A s \in 0..MaxItem-1 : m[s] # Zero =>
             m[s].id \in 1..W /\ m[s] = Msg(m[s].id) /\ InSlot(m[s].id, s)
        /\ \A s \in 0..MaxItem-1, k \in 1..W :
             InSlot(k, s) /\ m[s].id < k => [ring |-> r, slot |-> s, msg |-> Msg(k)] \in fly
    BY DEF FlyOK
  <1>2. \A g \in fly : g = [ring |-> g.ring, slot |-> g.slot, msg |-> g.msg]
                       /\ g.slot \in 0..MaxItem-1
    BY DEF Flight
  <1>3. /\ \A s \in 0..MaxItem-1 : s # f.slot => m2[s] = m[s]
        /\ m2[f.slot] = f.msg /\ f.slot \in 0..MaxItem-1
    BY <1>2
  <1>4. /\ f.msg.id \in 1..W /\ f.msg = Msg(f.msg.id) /\ InSlot(f.msg.id, f.slot)
        /\ m[f.slot].id < f.msg.id
    BY <1>1
  <1>5. m[f.slot].id \in Nat
    BY <1>1, <1>3 DEF Zero
  <1> HIDE DEF m2
  <1>6. ASSUME NEW g \in fly \ {f}, g.ring = r
        PROVE  /\ g.msg.id \in 1..W /\ g.msg = Msg(g.msg.id) /\ InSlot(g.msg.id, g.slot)
               /\ m2[g.slot].id < g.msg.id
    <2>1. /\ g.msg.id \in 1..W /\ g.msg = Msg(g.msg.id) /\ InSlot(g.msg.id, g.slot)
          /\ m[g.slot].id < g.msg.id
      BY <1>1, <1>6
    <2>2. CASE g.slot = f.slot
      <3>1. f.msg.id <= g.msg.id
        BY <1>6, <2>2
      <3>2. f.msg.id # g.msg.id
        BY <1>2, <1>4, <1>6, <2>1, <2>2
      <3> QED
        BY ONLY <1>3, <1>4, <2>1, <2>2, <3>1, <3>2, W \in Nat
    <2>3. CASE g.slot # f.slot
      <3>1. m2[g.slot] = m[g.slot]
        BY <1>2, <1>3, <2>3
      <3> QED
        BY ONLY <2>1, <3>1
    <2> QED
      BY <2>2, <2>3
  <1>7. ASSUME NEW s \in 0..MaxItem-1, m2[s] # Zero
        PROVE  m2[s].id \in 1..W /\ m2[s] = Msg(m2[s].id) /\ InSlot(m2[s].id, s)
    BY ONLY <1>1, <1>3, <1>4, <1>7
  <1>8. ASSUME NEW s \in 0..MaxItem-1, NEW k \in 1..W, InSlot(k, s), m2[s].id < k
        PROVE  [ring |-> r, slot |-> s, msg |-> Msg(k)] \in fly \ {f}
    <2> DEFINE g == [ring |-> r, slot |-> s, msg |-> Msg(k)]
    <2>1. CASE s = f.slot
      <3>1. f.msg.id < k /\ m[s].id < k
        BY ONLY <1>3, <1>4, <1>5, <1>8, <2>1, W \in Nat
      <3>2. g \in fly
        BY ONLY <1>1, <1>8, <3>1
      <3>3. g # f
        <4>1. Msg(k).id = k
          BY DEF Msg
        <4>2. g.msg.id = k
          BY <4>1
        <4> QED
          BY ONLY <3>1, <4>2, <1>4, W \in Nat
      <3> QED
        BY <3>2, <3>3
    <2>2. CASE s # f.slot
      <3>1. g \in fly
        BY ONLY <1>1, <1>3, <1>8, <2>2
      <3>2. g.slot = s
        OBVIOUS
      <3> QED
        BY ONLY <2>2, <3>1, <3>2
    <2> QED
      BY <2>1, <2>2
  <1> QED
    BY ONLY <1>6, <1>7, <1>8 DEF FlyOK, m2

-----------------------------------------------------------------------------
(* The functions on output states keep the invariant.                      *)

LEMMA StateIs ==
  ASSUME NEW o \in OutType, NEW r \in Rings
  PROVE  /\ o.ring \in [Rings -> RingState] /\ o.q \in Seq(QEntry)
         /\ o.flying \subseteq Flight /\ o.ring[r] \in RingState
         /\ o.ring[r].in_use \in BOOLEAN /\ o.ring[r].pend \in BOOLEAN
         /\ o.ring[r].items \in Seq(Message) /\ Len(o.ring[r].items) \in Nat
         /\ o.ring[r].availcnt \in Nat /\ o.ring[r].epoch \in Nat
         /\ o.ring[r].wr_pending \in 0..MaxItem-1
  <1>1. /\ o.ring \in [Rings -> RingState] /\ o.q \in Seq(QEntry)
        /\ o.flying \subseteq Flight /\ o.ring[r] \in RingState
    BY DEF OutType
  <1>2. /\ o.ring[r].in_use \in BOOLEAN /\ o.ring[r].pend \in BOOLEAN
        /\ o.ring[r].items \in Seq(Message)
        /\ o.ring[r].availcnt \in Nat /\ o.ring[r].epoch \in Nat
        /\ o.ring[r].wr_pending \in 0..MaxItem-1
    BY ONLY <1>1 DEF RingState
  <1>3. Len(o.ring[r].items) \in Nat
    BY ONLY <1>2
  <1> QED
    BY ONLY <1>1, <1>2, <1>3

(* A ring to which nothing happens but that entries of other rings join    *)
(* the DMA queue, and their writes.                                        *)
LEMMA RingKept ==
  ASSUME NEW o \in OutType, NEW p \in OutType, NEW r \in Rings, NEW S, NEW R, NEW m,
         OutRing(o, r, S, R, m), p.ring[r] = o.ring[r],
         NEW new, p.flying = o.flying \cup new, \A f \in new : f.ring # r,
         \/ p.q = o.q
         \/ \E e \in QEntry : e.ring # r /\ p.q = Append(o.q, e)
  PROVE  OutRing(p, r, S, R, m)
  <1> DEFINE W == Passed(o, r)
  <1>1. /\ W \in S..(R + MaxItem - 1) /\ InSlot(W + 1, o.ring[r].wr_pending)
        /\ DmaOK(o.q, r, S, W) /\ BufOK(o.ring[r], o.q, r) /\ FlyOK(o.flying, r, W, m)
        /\ \A i \in 1..Len(o.ring[r].items) : o.ring[r].items[i] = Msg(W + i)
    BY DEF OutRing
  <1>2. Passed(p, r) = W
    BY DEF Passed, Made
  <1>3. o.q \in Seq(QEntry)
    BY StateIs
  <1>4. W \in Nat
    BY <1>1, <1>3, DmaTotal
  <1> HIDE DEF W
  <1>5. FlyOK(p.flying, r, W, m)
    <2>1. FlyOK(o.flying \cup new, r, W, m)
      BY <1>1, FlyOther
    <2> QED
      BY ONLY <2>1, p.flying = o.flying \cup new
  <1>6. DmaOK(p.q, r, S, W) /\ BufOK(p.ring[r], p.q, r)
    <2>1. CASE p.q = o.q
      BY ONLY <1>1, <2>1, p.ring[r] = o.ring[r]
    <2>2. ASSUME NEW e \in QEntry, e.ring # r, p.q = Append(o.q, e)
          PROVE  DmaOK(p.q, r, S, W) /\ BufOK(p.ring[r], p.q, r)
      <3>1. DmaOK(Append(o.q, e), r, S, W + IF e.ring = r THEN e.len ELSE 0)
        BY <1>1, <1>3, <2>2, DmaAppend
      <3>2. W + (IF e.ring = r THEN e.len ELSE 0) = W
        BY ONLY <1>4, <2>2
      <3>3. CountOf(Append(o.q, e), DmaOf(r)) = CountOf(o.q, DmaOf(r)) + IF e \in DmaOf(r) THEN 1 ELSE 0
        BY ONLY <1>3, e \in QEntry, CountAppend
      <3>4. e \notin DmaOf(r)
        BY <2>2 DEF DmaOf
      <3>5. CountOf(o.q, DmaOf(r)) \in Nat
        BY ONLY <1>3, CountNat
      <3>6. CountOf(p.q, DmaOf(r)) = CountOf(o.q, DmaOf(r))
        BY ONLY <2>2, <3>3, <3>4, <3>5
      <3>7. DmaOK(p.q, r, S, W)
        BY ONLY <2>2, <3>1, <3>2
      <3>8. BufOK(p.ring[r], p.q, r)
        BY ONLY <1>1, <3>6, p.ring[r] = o.ring[r] DEF BufOK
      <3> QED
        BY <3>7, <3>8
    <2> QED
      BY <2>1, <2>2
  <1>7. /\ InSlot(W + 1, p.ring[r].wr_pending)
        /\ \A i \in 1..Len(p.ring[r].items) : p.ring[r].items[i] = Msg(W + i)
    BY ONLY <1>1, p.ring[r] = o.ring[r]
  <1> QED
    BY ONLY <1>1, <1>2, <1>5, <1>6, <1>7 DEF OutRing

(* Room found by the writer, for n messages.                               *)
LEMMA SpaceOK ==
  ASSUME NEW R \in Nat, NEW W \in Nat, NEW rd, NEW wr, InSlot(R + 1, rd), InSlot(W + 1, wr),
         R <= W, W <= R + MaxItem - 1, NEW n \in Nat, n >= 1,
         n <= CHECK_WRITE_SPACE(rd, wr, MaxItem)
  PROVE  W + n <= R + MaxItem - 1 /\ wr + n <= MaxItem
         /\ n <= MaxItem - 1
  <1>1. NTXPACTIVE(rd, wr, MaxItem) = (W + 1) - (R + 1)
    <2>1. R + 1 <= W + 1 /\ W + 1 < (R + 1) + MaxItem
      BY Sizes
    <2> QED
      BY <2>1, SlotDist
  <1>2. rd \in 0..MaxItem-1 /\ wr \in 0..MaxItem-1 /\ MaxItem \in Nat
    BY Sizes DEF InSlot
  <1>3. /\ n <= WRITE_SPACE_AVAIL(rd, wr, MaxItem)
        /\ n <= WRITE_SPACE_AVAIL_CONTINUOUS(rd, wr, MaxItem)
    <2> DEFINE a == WRITE_SPACE_AVAIL(rd, wr, MaxItem)
               b == WRITE_SPACE_AVAIL_CONTINUOUS(rd, wr, MaxItem)
    <2>1. a \in Int /\ b \in Int
      BY ONLY <1>1, <1>2, R \in Nat, W \in Nat
         DEF WRITE_SPACE_AVAIL, WRITE_SPACE_AVAIL_CONTINUOUS
    <2>2. n <= MIN(a, b)
      BY DEF CHECK_WRITE_SPACE
    <2> HIDE DEF a, b
    <2>3. n <= a /\ n <= b
      BY ONLY <2>1, <2>2, n \in Nat DEF MIN
    <2> QED
      BY ONLY <2>3 DEF a, b
  <1>4. n <= (MaxItem - ((W + 1) - (R + 1))) - 1
    BY ONLY <1>1, <1>3 DEF WRITE_SPACE_AVAIL
  <1>5. wr + n <= MaxItem
    BY ONLY <1>2, <1>3, n \in Nat DEF WRITE_SPACE_AVAIL_CONTINUOUS
  <1> QED
    BY ONLY <1>2, <1>4, <1>5, R \in Nat, W \in Nat, n \in Nat, R <= W

(* What an operation makes of o: as many completions made, and the         *)
(* invariant kept.                                                         *)
SameMade(o, p) == \A r \in Rings : Made(p, r) = Made(o, r)

(* pciedev_xmit_msgbuf_packet, when the ring has room.                     *)
LEMMA XmitType ==
  ASSUME NEW o \in OutType, NEW r \in Rings,
         Len(o.ring[r].items) >= 1, Len(o.ring[r].items) <= MaxItem - 1,
         o.ring[r].wr_pending + Len(o.ring[r].items) <= MaxItem
  PROVE  LET s == o.ring[r]
             n == Len(s.items)
             p == xmit_msgbuf_packet(o, r)
             e == [ring |-> r, len |-> n]
         IN  /\ p \in OutType /\ e \in QEntry /\ p.q = Append(o.q, e)
             /\ p.flying = o.flying \cup {[ring |-> r, slot |-> s.wr_pending + (i - 1),
                                           msg |-> s.items[i]] : i \in 1..n}
             /\ \A x \in Rings : x # r => p.ring[x] = o.ring[x]
             /\ p.ring[r] = [in_use |-> FALSE, items |-> <<>>, availcnt |-> s.availcnt,
                             pend |-> FALSE, epoch |-> s.epoch,
                             wr_pending |-> ADVANCE(s.wr_pending, n, MaxItem)]
  <1> DEFINE s == o.ring[r]
             n == Len(s.items)
             e == [ring |-> r, len |-> n]
             t == [in_use |-> FALSE, items |-> <<>>, availcnt |-> s.availcnt,
                   pend |-> FALSE, epoch |-> s.epoch,
                   wr_pending |-> ADVANCE(s.wr_pending, n, MaxItem)]
             new == {[ring |-> r, slot |-> s.wr_pending + (i - 1),
                      msg |-> s.items[i]] : i \in 1..n}
             p == xmit_msgbuf_packet(o, r)
  <1>1. p = [ring |-> [o.ring EXCEPT ![r] = t], q |-> Append(o.q, e),
             flying |-> o.flying \cup new]
    BY DEF xmit_msgbuf_packet
  <1>2. /\ o.ring \in [Rings -> RingState] /\ o.q \in Seq(QEntry)
        /\ o.flying \subseteq Flight /\ s.items \in Seq(Message) /\ n \in Nat
        /\ s.availcnt \in Nat /\ s.epoch \in Nat /\ s.wr_pending \in 0..MaxItem-1
        /\ MaxItem \in Nat
    BY StateIs, Sizes
  <1>3. t \in RingState
    <2>1. ADVANCE(s.wr_pending, n, MaxItem) \in 0..MaxItem-1
      BY ONLY <1>2 DEF ADVANCE
    <2>2. \E z \in Seq(Message) : z = <<>>
      BY NoElement
    <2> QED
      BY ONLY <1>2, <2>1, <2>2 DEF RingState
  <1>4. e \in QEntry
    <2>1. n \in 0..MaxItem-1
      BY ONLY <1>2, n <= MaxItem - 1
    <2> QED
      BY ONLY <2>1, r \in Rings DEF QEntry
  <1>5. new \subseteq Flight
    <2>1. ASSUME NEW i \in 1..n
          PROVE  s.wr_pending + (i - 1) \in 0..MaxItem-1 /\ s.items[i] \in Message
      <3>1. s.items[i] \in Message
        BY ONLY <1>2, i \in 1..n
      <3>2. /\ s.wr_pending \in 0..MaxItem-1 /\ MaxItem \in Nat /\ n \in Nat
            /\ s.wr_pending + n <= MaxItem
        BY ONLY <1>2, s.wr_pending + n <= MaxItem
      <3> HIDE DEF s, n
      <3>3. s.wr_pending + (i - 1) \in 0..MaxItem-1
        BY ONLY <3>2, i \in 1..n
      <3> QED
        BY ONLY <3>1, <3>3
    <2> QED
      BY ONLY <2>1, r \in Rings DEF Flight
  <1> HIDE DEF t, e, new, n, s
  <1>6. [o.ring EXCEPT ![r] = t] \in [Rings -> RingState]
    BY ONLY <1>2, <1>3
  <1>7. Append(o.q, e) \in Seq(QEntry)
    BY ONLY <1>2, <1>4
  <1>8. p \in OutType
    <2> HIDE DEF p
    <2> QED
      BY ONLY <1>1, <1>2, <1>5, <1>6, <1>7 DEF OutType
  <1>9. p.ring = [o.ring EXCEPT ![r] = t] /\ p.q = Append(o.q, e)
        /\ p.flying = o.flying \cup new
    <2> HIDE DEF p
    <2> QED
      BY ONLY <1>1
  <1>10. p.ring[r] = t /\ \A x \in Rings : x # r => p.ring[x] = o.ring[x]
    <2> HIDE DEF p
    <2> QED
      BY ONLY <1>2, <1>9, r \in Rings
  <1> QED
    BY ONLY <1>4, <1>8, <1>9, <1>10 DEF t, e, new, n, s

LEMMA XmitMsgKeeps ==
  ASSUME NEW o, NEW S, NEW R, NEW m, OutOK(o, S, R, m), Frame(S, R, m), NEW r \in Rings,
         Len(o.ring[r].items) >= 1, Len(o.ring[r].items) <= Space(o, r)
  PROVE  OutOK(xmit_msgbuf_packet(o, r), S, R, m) /\ SameMade(o, xmit_msgbuf_packet(o, r))
  <1> DEFINE s == o.ring[r]
             n == Len(s.items)
             W == Passed(o, r)
             p == xmit_msgbuf_packet(o, r)
             e == [ring |-> r, len |-> n]
             t == [in_use |-> FALSE, items |-> <<>>, availcnt |-> s.availcnt,
                   pend |-> FALSE, epoch |-> s.epoch,
                   wr_pending |-> ADVANCE(s.wr_pending, n, MaxItem)]
             new == {[ring |-> r, slot |-> s.wr_pending + (i - 1),
                      msg |-> s.items[i]] : i \in 1..n}
  <1>1. o \in OutType /\ \A x \in Rings : OutRing(o, x, S[x], R[x], m[x])
    BY DEF OutOK
  <1>2. /\ o.q \in Seq(QEntry) /\ s.items \in Seq(Message) /\ n \in Nat
        /\ s.epoch \in Nat /\ s.wr_pending \in 0..MaxItem-1 /\ s.in_use \in BOOLEAN
        /\ s.availcnt \in Nat
    BY <1>1, StateIs
  <1>3. /\ W \in S[r]..(R[r] + MaxItem - 1) /\ InSlot(W + 1, s.wr_pending)
        /\ DmaOK(o.q, r, S[r], W) /\ BufOK(s, o.q, r) /\ FlyOK(o.flying, r, W, m[r])
        /\ \A i \in 1..n : s.items[i] = Msg(W + i)
    BY <1>1 DEF OutRing
  <1>4. /\ S[r] \in Nat /\ R[r] \in Nat /\ R[r] <= S[r] /\ InSlot(R[r] + 1, tcm_r[r])
        /\ m[r] \in [0..MaxItem-1 -> Message] /\ MaxItem \in Nat
    BY Sizes DEF Frame
  <1>5. W \in Nat /\ R[r] <= W /\ W <= R[r] + MaxItem - 1
    BY ONLY <1>3, <1>4
  <1>6. n <= CHECK_WRITE_SPACE(tcm_r[r], s.wr_pending, MaxItem) /\ n >= 1
    BY DEF Space
  <1> HIDE DEF W
  <1>7. W + n <= R[r] + MaxItem - 1 /\ s.wr_pending + n <= MaxItem /\ n <= MaxItem - 1
    <2>1. InSlot(R[r] + 1, tcm_r[r]) /\ InSlot(W + 1, s.wr_pending)
      BY ONLY <1>3, <1>4
    <2>2. R[r] \in Nat /\ n \in Nat
      BY ONLY <1>2, <1>4
    <2> HIDE DEF n, s
    <2> QED
      BY ONLY <1>5, <1>6, <2>1, <2>2, SpaceOK
  <1>8. /\ p \in OutType /\ e \in QEntry /\ p.q = Append(o.q, e)
        /\ p.flying = o.flying \cup new
        /\ \A x \in Rings : x # r => p.ring[x] = o.ring[x]
        /\ p.ring[r] = t
    BY <1>1, <1>6, <1>7, XmitType
  <1> HIDE DEF p
  <1>9. t.in_use = FALSE /\ t.items = <<>> /\ t.availcnt = s.availcnt /\ t.epoch = s.epoch
        /\ t.wr_pending = ADVANCE(s.wr_pending, n, MaxItem)
    OBVIOUS
  <1>10. e.ring = r /\ e.len = n
    OBVIOUS
  <1> HIDE DEF t, e, n, s
  <1>11. Len(t.items) = 0
    BY ONLY <1>9, EmptySeq
  <1>a. s = o.ring[r] /\ n = Len(s.items)
    BY DEF s, n
  <1>12. Made(p, r) = Made(o, r) /\ Passed(p, r) = W + n
    <2>1. Made(p, r) = Made(o, r)
      BY ONLY <1>8, <1>9, <1>a DEF Made
    <2>2. Made(o, r) \in Int
      BY ONLY <1>2, <1>a, Sizes DEF Made
    <2>3. W = Made(o, r) - n
      BY ONLY <1>a DEF W, Passed
    <2>4. Passed(p, r) = Made(p, r) - 0
      BY ONLY <1>8, <1>11 DEF Passed
    <2> QED
      BY ONLY <2>1, <2>2, <2>3, <2>4, <1>2
  <1>13. OutRing(p, r, S[r], R[r], m[r])
    <2>1. W + n \in S[r]..(R[r] + MaxItem - 1)
      BY ONLY <1>2, <1>3, <1>4, <1>5, <1>7
    <2>2. InSlot(W + n + 1, t.wr_pending)
      <3>1. InSlot((W + 1) + n, ADVANCE(s.wr_pending, n, MaxItem))
        BY ONLY <1>2, <1>3, <1>7, SlotOn
      <3>2. (W + 1) + n = W + n + 1
        BY ONLY <1>2, <1>5
      <3> QED
        BY ONLY <1>9, <3>1, <3>2
    <2>3. DmaOK(p.q, r, S[r], W + n)
      <3>1. DmaOK(Append(o.q, e), r, S[r], W + IF e.ring = r THEN e.len ELSE 0)
        <4>1. \E z \in 0..MaxItem-1 : InSlot(W + 1, z) /\ z + e.len <= MaxItem
          BY ONLY <1>2, <1>3, <1>7, <1>10
        <4>2. e.len >= 1
          BY ONLY <1>6, <1>10
        <4> QED
          BY ONLY <1>2, <1>3, <1>8, <4>1, <4>2, DmaAppend
      <3> QED
        BY ONLY <1>8, <1>10, <3>1
    <2>4. BufOK(p.ring[r], p.q, r)
      <3>1. CountOf(Append(o.q, e), DmaOf(r))
              = CountOf(o.q, DmaOf(r)) + IF e \in DmaOf(r) THEN 1 ELSE 0
        BY ONLY <1>2, <1>8, CountAppend
      <3>2. e \in DmaOf(r)
        BY ONLY <1>8, <1>10 DEF DmaOf, QEntry
      <3>3. CountOf(o.q, DmaOf(r)) \in Nat
        BY ONLY <1>2, CountNat
      <3>4. s.in_use = TRUE
        <4>1. s.items # <<>>
          BY ONLY <1>2, <1>6, <1>a, EmptySeq
        <4> QED
          BY ONLY <1>2, <1>3, <4>1 DEF BufOK
      <3>5. s.availcnt + 1 + CountOf(o.q, DmaOf(r)) = BufCnt
        BY ONLY <1>3, <3>4 DEF BufOK
      <3>6. CountOf(p.q, DmaOf(r)) = CountOf(o.q, DmaOf(r)) + 1
        BY ONLY <1>8, <3>1, <3>2
      <3>7. t.availcnt + 0 + CountOf(p.q, DmaOf(r)) = BufCnt
        BY ONLY <1>2, <1>9, <3>3, <3>5, <3>6
      <3> QED
        BY ONLY <1>8, <1>9, <3>7 DEF BufOK
    <2>5. FlyOK(p.flying, r, W + n, m[r])
      <3>1. FlyOK(o.flying \cup new, r, W + n, m[r])
        <4>1. /\ FlyOK(o.flying, r, W, m[r]) /\ InSlot(W + 1, s.wr_pending)
              /\ \A i \in 1..n : s.items[i] = Msg(W + i)
          BY ONLY <1>3
        <4>2. n \in Nat /\ m[r] \in [0..MaxItem-1 -> Message]
          BY ONLY <1>2, <1>4
        <4> DEFINE w == s.wr_pending
                   its == s.items
                   fly == o.flying
                   mm == m[r]
        <4>3. \A f : f \in new <=>
                       \E i \in 1..n : f = [ring |-> r, slot |-> w + (i - 1), msg |-> its[i]]
          OBVIOUS
        <4> HIDE DEF w, its, fly, mm, new
        <4>4. FlyOK(fly, r, W, mm) /\ InSlot(W + 1, w) /\ w + n <= MaxItem
              /\ mm \in [0..MaxItem-1 -> Message]
              /\ \A i \in 1..n : its[i] = Msg(W + i)
          BY ONLY <1>7, <4>1, <4>2 DEF w, its, fly, mm
        <4>5. FlyOK(fly \cup new, r, W + n, mm)
          BY ONLY <1>5, <4>2, <4>3, <4>4, r \in Rings, FlySend
        <4> QED
          BY ONLY <4>5 DEF fly, mm
      <3> QED
        BY ONLY <1>8, <3>1
    <2>6. \A i \in 1..Len(p.ring[r].items) : p.ring[r].items[i] = Msg(W + n + i)
      BY ONLY <1>8, <1>11
    <2> QED
      BY ONLY <1>8, <1>12, <2>1, <2>2, <2>3, <2>4, <2>5, <2>6 DEF OutRing
  <1>14. ASSUME NEW x \in Rings, x # r
         PROVE  OutRing(p, x, S[x], R[x], m[x])
    <2>1. p.ring[x] = o.ring[x] /\ OutRing(o, x, S[x], R[x], m[x])
      BY ONLY <1>1, <1>8, <1>14
    <2>2. \A f \in new : f.ring # x
      BY <1>14
    <2>3. \E y \in QEntry : y.ring # x /\ p.q = Append(o.q, y)
      BY ONLY <1>8, <1>10, <1>14
    <2> HIDE DEF new
    <2> QED
      BY ONLY <1>1, <1>8, <2>1, <2>2, <2>3, x \in Rings, RingKept
  <1>15. SameMade(o, p)
    <2>1. ASSUME NEW x \in Rings PROVE Made(p, x) = Made(o, x)
      BY <1>8, <1>12 DEF Made
    <2> QED
      BY <2>1 DEF SameMade
  <1>16. OutOK(p, S, R, m)
    BY ONLY <1>8, <1>13, <1>14 DEF OutOK
  <1> QED
    BY ONLY <1>15, <1>16 DEF p

(* A send that has to wait.                                                *)
LEMMA PendKeeps ==
  ASSUME NEW o, NEW S, NEW R, NEW m, OutOK(o, S, R, m), NEW r \in Rings
  PROVE  LET p == [o EXCEPT !.ring[r].pend = TRUE]
         IN  OutOK(p, S, R, m) /\ SameMade(o, p)
  <1> DEFINE p == [o EXCEPT !.ring[r].pend = TRUE]
  <1>1. o \in OutType /\ \A x \in Rings : OutRing(o, x, S[x], R[x], m[x])
    BY DEF OutOK
  <1>2. p \in OutType
    BY <1>1 DEF OutType, RingState
  <1>3. p.q = o.q /\ p.flying = o.flying
    BY <1>1 DEF OutType
  <1>4. ASSUME NEW x \in Rings
        PROVE  /\ p.ring[x].items = o.ring[x].items /\ p.ring[x].epoch = o.ring[x].epoch
               /\ p.ring[x].in_use = o.ring[x].in_use
               /\ p.ring[x].availcnt = o.ring[x].availcnt
               /\ p.ring[x].wr_pending = o.ring[x].wr_pending
    BY <1>1 DEF OutType, RingState
  <1> HIDE DEF p
  <1>5. ASSUME NEW x \in Rings
        PROVE  OutRing(p, x, S[x], R[x], m[x]) /\ Made(p, x) = Made(o, x)
    <2>1. OutRing(o, x, S[x], R[x], m[x])
      BY <1>1
    <2>2. Passed(p, x) = Passed(o, x) /\ Made(p, x) = Made(o, x)
      BY <1>4 DEF Passed, Made
    <2>3. BufOK(o.ring[x], o.q, x) <=> BufOK(p.ring[x], p.q, x)
      BY ONLY <1>3, <1>4, x \in Rings DEF BufOK
    <2> QED
      BY ONLY <1>3, <1>4, <2>1, <2>2, <2>3, x \in Rings DEF OutRing
  <1> QED
    BY ONLY <1>2, <1>5 DEF OutOK, SameMade, p

(* pciedev_xmit_txstatus, pciedev_xmit_rxcomplete.                         *)
LEMMA XmitKeeps ==
  ASSUME NEW o, NEW S, NEW R, NEW m, OutOK(o, S, R, m), Frame(S, R, m), NEW r \in Rings
  PROVE  OutOK(xmit(o, r), S, R, m) /\ SameMade(o, xmit(o, r))
  <1> DEFINE n == Len(o.ring[r].items)
             p == [o EXCEPT !.ring[r].pend = TRUE]
  <1>1. o \in OutType
    BY DEF OutOK
  <1>2. n \in Nat
    BY <1>1, StateIs
  <1>3. CASE n = 0
    <2>1. xmit(o, r) = o
      BY <1>3 DEF xmit
    <2> QED
      BY <2>1 DEF SameMade
  <1>4. CASE n # 0 /\ (Descs(o) < 1 \/ Space(o, r) < n)
    <2>1. xmit(o, r) = p
      BY <1>4 DEF xmit
    <2>2. OutOK(p, S, R, m) /\ SameMade(o, p)
      BY PendKeeps
    <2> QED
      BY ONLY <2>1, <2>2
  <1>5. CASE n # 0 /\ ~(Descs(o) < 1 \/ Space(o, r) < n)
    <2>1. xmit(o, r) = xmit_msgbuf_packet(o, r)
      BY <1>5 DEF xmit
    <2>2. Space(o, r) \in Int
      <3>1. o.ring[r].wr_pending \in 0..MaxItem-1 /\ MaxItem \in Nat
        BY <1>1, StateIs, Sizes
      <3>2. tcm_r[r] \in 0..MaxItem-1
        BY DEF Frame, InSlot
      <3> QED
        BY ONLY <3>1, <3>2 DEF Space, CHECK_WRITE_SPACE, WRITE_SPACE_AVAIL,
           WRITE_SPACE_AVAIL_CONTINUOUS, NTXPACTIVE, MIN
    <2>3. n <= Space(o, r) /\ n >= 1
      BY ONLY <1>2, <1>5, <2>2
    <2>4. OutOK(xmit_msgbuf_packet(o, r), S, R, m) /\ SameMade(o, xmit_msgbuf_packet(o, r))
      BY <2>3, XmitMsgKeeps
    <2> QED
      BY ONLY <2>1, <2>4
  <1> QED
    BY <1>3, <1>4, <1>5

LEMMA RetryKeeps ==
  ASSUME NEW o, NEW S, NEW R, NEW m, OutOK(o, S, R, m), Frame(S, R, m), NEW r \in Rings
  PROVE  OutOK(RetryPending(o, r), S, R, m) /\ SameMade(o, RetryPending(o, r))
  <1>1. OutOK(xmit(o, r), S, R, m) /\ SameMade(o, xmit(o, r))
    BY XmitKeeps
  <1>2. SameMade(o, o)
    BY DEF SameMade
  <1>3. RetryPending(o, r) = xmit(o, r) \/ RetryPending(o, r) = o
    BY DEF RetryPending
  <1> QED
    BY ONLY <1>1, <1>2, <1>3, OutOK(o, S, R, m)

(* A payload joins the DMA queue.                                          *)
LEMMA PayloadKeeps ==
  ASSUME NEW o, NEW S, NEW R, NEW m, OutOK(o, S, R, m)
  PROVE  /\ OutOK(Payload(o), S, R, m) /\ SameMade(o, Payload(o))
         /\ Payload(o).ring = o.ring
  <1> DEFINE p == Payload(o)
             e == [ring |-> "payload", len |-> 0]
  <1>1. o \in OutType /\ \A x \in Rings : OutRing(o, x, S[x], R[x], m[x])
    BY DEF OutOK
  <1>2. e \in QEntry /\ e.ring = "payload"
    BY Sizes DEF QEntry
  <1>3. p = [o EXCEPT !.q = Append(@, e)]
    BY DEF Payload
  <1> HIDE DEF e, p
  <1>4. p.q = Append(o.q, e) /\ p.flying = o.flying /\ p.ring = o.ring
    BY ONLY <1>1, <1>3 DEF OutType
  <1>5. p \in OutType
    <2>1. Append(o.q, e) \in Seq(QEntry)
      BY ONLY <1>1, <1>2 DEF OutType
    <2> QED
      BY ONLY <1>1, <1>3, <2>1 DEF OutType
  <1>6. ASSUME NEW x \in Rings PROVE OutRing(p, x, S[x], R[x], m[x])
    <2>1. e.ring # x
      BY <1>2 DEF Rings
    <2>2. p.flying = o.flying \cup {}
      BY <1>4
    <2>3. OutRing(o, x, S[x], R[x], m[x]) /\ p.ring[x] = o.ring[x]
      BY <1>1, <1>4
    <2>4. \E y \in QEntry : y.ring # x /\ p.q = Append(o.q, y)
      BY ONLY <1>2, <1>4, <2>1
    <2>5. \A f \in {} : f.ring # x
      OBVIOUS
    <2> DEFINE none == {}
    <2>6. p.flying = o.flying \cup none /\ \A f \in none : f.ring # x
      BY <2>2
    <2> HIDE DEF none
    <2> QED
      BY ONLY <1>1, <1>5, <2>3, <2>4, <2>6, x \in Rings, RingKept
  <1>7. SameMade(o, p)
    BY ONLY <1>4 DEF SameMade, Made
  <1> QED
    BY ONLY <1>4, <1>5, <1>6, <1>7 DEF OutOK, p

(* The next completion of a ring is put into its local buffer.             *)
LEMMA InsertKeeps ==
  ASSUME NEW o, NEW S, NEW R, NEW m, OutOK(o, S, R, m), Frame(S, R, m), NEW r \in Rings,
         NEW id \in Id, id = Made(o, r) + 1, ~NoBuffer(o, r)
  PROVE  LET p == Insert(o, r, id)
         IN  /\ OutOK(p, S, R, m) /\ Made(p, r) = Made(o, r) + 1
             /\ \A x \in Rings : x # r => Made(p, x) = Made(o, x)
  <1> DEFINE p == Insert(o, r, id)
             s == o.ring[r]
             n == Len(s.items)
             W == Passed(o, r)
             msg == [id |-> id, mark |-> s.epoch % Modulo]
             t == [in_use |-> TRUE, pend |-> s.pend, wr_pending |-> s.wr_pending,
                   availcnt |-> IF s.in_use THEN s.availcnt ELSE s.availcnt - 1,
                   items |-> Append(s.items, msg), epoch |-> s.epoch + 1]
  <1>1. o \in OutType /\ \A x \in Rings : OutRing(o, x, S[x], R[x], m[x])
    BY DEF OutOK
  <1>2. /\ o.ring \in [Rings -> RingState] /\ o.q \in Seq(QEntry)
        /\ s.items \in Seq(Message) /\ n \in Nat
        /\ s.epoch \in Nat /\ s.wr_pending \in 0..MaxItem-1 /\ s.in_use \in BOOLEAN
        /\ s.availcnt \in Nat /\ s.pend \in BOOLEAN
    BY <1>1, StateIs
  <1>3. /\ W \in S[r]..(R[r] + MaxItem - 1) /\ InSlot(W + 1, s.wr_pending)
        /\ DmaOK(o.q, r, S[r], W) /\ BufOK(s, o.q, r) /\ FlyOK(o.flying, r, W, m[r])
        /\ \A i \in 1..n : s.items[i] = Msg(W + i)
    BY <1>1 DEF OutRing
  <1>4. p = [o EXCEPT !.ring[r] = t]
    BY DEF Insert
  <1>5. Made(o, r) = s.epoch - (Modulo + 1) /\ Modulo \in Nat /\ Made(o, r) \in Int
        /\ W = Made(o, r) - n
    BY <1>2, Sizes DEF Made, Passed
  <1>6. ~(~s.in_use /\ s.availcnt = 0)
    BY DEF NoBuffer
  <1>7. msg = Msg(id) /\ msg \in Message
    <2>1. s.epoch = Modulo + id
      BY ONLY <1>2, <1>5, id = Made(o, r) + 1
    <2> QED
      BY <2>1, MsgIs DEF Msg
  <1>8. /\ t.in_use = TRUE /\ t.wr_pending = s.wr_pending /\ t.items = Append(s.items, msg)
        /\ t.availcnt = (IF s.in_use THEN s.availcnt ELSE s.availcnt - 1)
        /\ t.epoch = s.epoch + 1
    OBVIOUS
  <1> HIDE DEF msg
  <1>9. t \in RingState
    <2>1. Append(s.items, msg) \in Seq(Message)
      BY ONLY <1>2, <1>7
    <2>2. (IF s.in_use THEN s.availcnt ELSE s.availcnt - 1) \in Nat
      BY ONLY <1>2, <1>6
    <2>3. s.epoch + 1 \in Nat
      BY ONLY <1>2
    <2> QED
      BY ONLY <1>2, <2>1, <2>2, <2>3 DEF RingState
  <1> HIDE DEF t, p
  <1>10. p.q = o.q /\ p.flying = o.flying /\ p.ring = [o.ring EXCEPT ![r] = t]
    BY ONLY <1>1, <1>4 DEF OutType
  <1>11. p.ring[r] = t /\ \A x \in Rings : x # r => p.ring[x] = o.ring[x]
    BY ONLY <1>2, <1>10, r \in Rings
  <1>12. p \in OutType
    <2>1. [o.ring EXCEPT ![r] = t] \in [Rings -> RingState]
      BY ONLY <1>2, <1>9, r \in Rings
    <2>2. p = [o EXCEPT !.ring = [o.ring EXCEPT ![r] = t]]
      BY ONLY <1>1, <1>4 DEF OutType
    <2> QED
      BY ONLY <1>1, <2>1, <2>2 DEF OutType
  <1>13. /\ Len(t.items) = n + 1 /\ t.items[n+1] = msg
         /\ \A i \in 1..n : t.items[i] = s.items[i]
    BY ONLY <1>2, <1>7, <1>8
  <1>14. Made(p, r) = Made(o, r) + 1 /\ Passed(p, r) = W
    <2>1. Made(p, r) = (s.epoch + 1) - (Modulo + 1)
      BY ONLY <1>8, <1>11 DEF Made
    <2>2. Made(p, r) = Made(o, r) + 1
      BY ONLY <1>2, <1>5, <2>1
    <2>3. Passed(p, r) = Made(p, r) - (n + 1)
      BY ONLY <1>11, <1>13 DEF Passed
    <2> QED
      BY ONLY <1>2, <1>5, <2>2, <2>3
  <1> HIDE DEF W, n, s
  <1>15. OutRing(p, r, S[r], R[r], m[r])
    <2>1. BufOK(t, p.q, r)
      <3>1. s.availcnt + (IF s.in_use THEN 1 ELSE 0) + CountOf(o.q, DmaOf(r)) = BufCnt
        BY ONLY <1>3 DEF BufOK
      <3>2. CountOf(o.q, DmaOf(r)) \in Nat
        BY ONLY <1>2, CountNat
      <3> DEFINE c == CountOf(o.q, DmaOf(r))
      <3> HIDE DEF c
      <3>3. t.availcnt + 1 + c = BufCnt
        <4>1. s.availcnt + (IF s.in_use THEN 1 ELSE 0) + c = BufCnt /\ c \in Nat
          BY ONLY <3>1, <3>2 DEF c
        <4> QED
          BY ONLY <1>2, <1>8, <4>1
      <3>4. t.items # <<>>
        BY ONLY <1>2, <1>13, EmptySeq
      <3> QED
        BY ONLY <1>8, <1>10, <3>3, <3>4 DEF BufOK, c
    <2>2. ASSUME NEW i \in 1..n+1 PROVE t.items[i] = Msg(W + i)
      <3>1. CASE i = n + 1
        <4>1. W + (n + 1) = id
          BY ONLY <1>2, <1>5, id = Made(o, r) + 1
        <4> QED
          BY ONLY <1>7, <1>13, <3>1, <4>1
      <3>2. CASE i # n + 1
        <4>1. i \in 1..n
          BY ONLY <1>2, <3>2, i \in 1..n+1
        <4> QED
          BY ONLY <1>3, <1>13, <4>1
      <3> QED
        BY <3>1, <3>2
    <2> QED
      BY ONLY <1>3, <1>8, <1>10, <1>11, <1>13, <1>14, <2>1, <2>2 DEF OutRing
  <1>16. ASSUME NEW x \in Rings, x # r
         PROVE  OutRing(p, x, S[x], R[x], m[x]) /\ Made(p, x) = Made(o, x)
    <2>1. p.ring[x] = o.ring[x] /\ OutRing(o, x, S[x], R[x], m[x])
      BY ONLY <1>1, <1>11, <1>16
    <2> DEFINE none == {}
    <2>2. p.flying = o.flying \cup none /\ \A f \in none : f.ring # x
      BY <1>10
    <2> HIDE DEF none
    <2>3. OutRing(p, x, S[x], R[x], m[x])
      BY ONLY <1>1, <1>10, <1>12, <2>1, <2>2, x \in Rings, RingKept
    <2>4. Made(p, x) = Made(o, x)
      BY ONLY <2>1 DEF Made
    <2> QED
      BY <2>3, <2>4
  <1> QED
    BY ONLY <1>12, <1>14, <1>15, <1>16 DEF OutOK, p

(* pciedev_queue_txstatus and a round of pciedev_queue_rxcomplete_msgring. *)
LEMMA QueueKeeps ==
  ASSUME NEW o, NEW S, NEW R, NEW m, OutOK(o, S, R, m), Frame(S, R, m), NEW r \in Rings,
         NEW id \in Id, id = Made(o, r) + 1, ~NoBuffer(o, r)
  PROVE  LET p == Queue(o, r, id)
         IN  /\ OutOK(p, S, R, m) /\ Made(p, r) = Made(o, r) + 1
             /\ \A x \in Rings : x # r => Made(p, x) = Made(o, x)
  <1> DEFINE i == Insert(o, r, id)
             p == Queue(o, r, id)
  <1>1. /\ OutOK(i, S, R, m) /\ Made(i, r) = Made(o, r) + 1
        /\ \A x \in Rings : x # r => Made(i, x) = Made(o, x)
    BY InsertKeeps
  <1>2. OutOK(xmit(i, r), S, R, m) /\ SameMade(i, xmit(i, r))
    BY <1>1, XmitKeeps
  <1>3. p = xmit(i, r) \/ p = i
    BY DEF Queue
  <1> HIDE DEF i, p
  <1>4. CASE p = i
    BY ONLY <1>1, <1>4 DEF p
  <1>5. CASE p = xmit(i, r)
    <2>1. \A x \in Rings : Made(p, x) = Made(i, x)
      BY ONLY <1>2, <1>5 DEF SameMade
    <2> QED
      BY ONLY <1>1, <1>2, <1>5, <2>1, r \in Rings DEF p
  <1> QED
    BY <1>3, <1>4, <1>5

-----------------------------------------------------------------------------
(* The requests: those of a ring are numbered from a + 1 to b, in order.   *)

Mine(r) == [m \in Req |-> IF m[1] = r THEN 1 ELSE 0]

Numbered(q, r, f) == \A k \in 1..Len(q) : q[k][1] = r => q[k][2] = f[k]

ReqOK(q, r, a, b) == \E f : Climbs(q, Mine(r), f, a, b) /\ Numbered(q, r, f)

LEMMA MineType ==
  ASSUME NEW r
  PROVE  /\ Mine(r) \in [Req -> Nat]
         /\ \A m \in Req : Mine(r)[m] = IF m[1] = r THEN 1 ELSE 0
  BY DEF Mine

LEMMA ReqAppend ==
  ASSUME NEW q \in Seq(Req), NEW m \in Req, NEW r, NEW a, NEW b, ReqOK(q, r, a, b),
         m[1] = r => m[2] = b + 1
  PROVE  ReqOK(Append(q, m), r, a, b + IF m[1] = r THEN 1 ELSE 0)
  <1>1. PICK f : Climbs(q, Mine(r), f, a, b) /\ Numbered(q, r, f)
    BY DEF ReqOK
  <1>2. Mine(r) \in [Req -> Nat] /\ Mine(r)[m] = IF m[1] = r THEN 1 ELSE 0
    BY MineType
  <1> DEFINE c == b + Mine(r)[m]
             h == Longer(q, f, c)
             t == Append(q, m)
  <1>3. Climbs(t, Mine(r), h, a, c)
    BY ONLY <1>1, <1>2, q \in Seq(Req), m \in Req, ClimbsAppend
  <1>4. (\A k \in 0..Len(q) : h[k] = f[k]) /\ h[Len(q)+1] = c
    BY ONLY <1>1, <1>2, q \in Seq(Req), m \in Req, ClimbsAppend
  <1>5. /\ Len(t) = Len(q) + 1 /\ Len(q) \in Nat /\ t[Len(q)+1] = m
        /\ \A k \in 1..Len(q) : t[k] = q[k]
    OBVIOUS
  <1>6. m[1] = r => m[2] = c
    BY <1>2
  <1> HIDE DEF h, t, c
  <1>7. ASSUME NEW k \in 1..Len(t), t[k][1] = r PROVE t[k][2] = h[k]
    <2>1. CASE k = Len(q) + 1
      BY ONLY <1>4, <1>5, <1>6, <1>7, <2>1
    <2>2. CASE k # Len(q) + 1
      <3>1. k \in 1..Len(q) /\ k \in 0..Len(q)
        BY ONLY <2>2, <1>5, k \in 1..Len(t)
      <3> QED
        BY ONLY <3>1, <1>1, <1>4, <1>5, <1>7 DEF Numbered
    <2> QED
      BY <2>1, <2>2
  <1>8. ReqOK(t, r, a, c)
    BY <1>3, <1>7 DEF ReqOK, Numbered
  <1>9. c = b + IF m[1] = r THEN 1 ELSE 0
    BY <1>2 DEF c
  <1> QED
    BY ONLY <1>8, <1>9 DEF t

LEMMA ReqTail ==
  ASSUME NEW q \in Seq(Req), q # <<>>, NEW r, NEW a, NEW b, ReqOK(q, r, a, b)
  PROVE  LET l == IF q[1][1] = r THEN 1 ELSE 0
         IN  /\ ReqOK(Tail(q), r, a + l, b) /\ a \in Nat /\ b \in Nat /\ a + l <= b
             /\ q[1][1] = r => q[1][2] = a + 1
  <1>1. PICK f : Climbs(q, Mine(r), f, a, b) /\ Numbered(q, r, f)
    BY DEF ReqOK
  <1>2. q[1] \in Req /\ Tail(q) \in Seq(Req) /\ Len(q) \in Nat /\ Len(q) >= 1
    BY EmptySeq
  <1>3. Mine(r) \in [Req -> Nat] /\ Mine(r)[q[1]] = IF q[1][1] = r THEN 1 ELSE 0
    BY <1>2, MineType
  <1> DEFINE c == a + Mine(r)[q[1]]
             h == Shorter(q, f)
             t == Tail(q)
  <1>4. Climbs(t, Mine(r), h, c, b)
    BY ONLY <1>1, <1>3, q \in Seq(Req), q # <<>>, ClimbsTail
  <1>5. /\ \A k \in 0..Len(q)-1 : h[k] = f[k+1]
        /\ Len(t) = Len(q) - 1 /\ \A k \in 1..Len(q)-1 : t[k] = q[k+1]
    BY ONLY <1>1, <1>3, q \in Seq(Req), q # <<>>, ClimbsTail
  <1> HIDE DEF h, t
  <1>6. ASSUME NEW k \in 1..Len(t), t[k][1] = r PROVE t[k][2] = h[k]
    <2>1. k \in 1..Len(q)-1 /\ k + 1 \in 1..Len(q) /\ k \in 0..Len(q)-1
      BY ONLY <1>2, <1>5, k \in 1..Len(t)
    <2> QED
      BY ONLY <1>1, <1>5, <1>6, <2>1 DEF Numbered
  <1>7. ReqOK(t, r, c, b)
    BY <1>4, <1>6 DEF ReqOK, Numbered
  <1>8. c \in Nat /\ b \in Nat /\ c <= b
    BY ONLY <1>2, <1>3, <1>4, ClimbsUp DEF t
  <1>9. a \in Nat
    BY ONLY <1>1, <1>3, q \in Seq(Req), ClimbsUp
  <1>10. ASSUME q[1][1] = r PROVE q[1][2] = a + 1
    <2>1. 1 \in 1..Len(q) /\ 1 - 1 = 0 /\ f[0] = a /\ f[1] = f[1-1] + Mine(r)[q[1]]
      BY <1>1, <1>2 DEF Climbs
    <2>2. q[1][2] = f[1]
      BY ONLY <1>1, <1>10, <2>1 DEF Numbered
    <2> QED
      BY ONLY <1>3, <1>10, <2>1, <2>2
  <1> QED
    BY ONLY <1>3, <1>7, <1>8, <1>9, <1>10 DEF t

LEMMA ReqTotal ==
  ASSUME NEW q \in Seq(Req), NEW r \in Rings, NEW a, NEW b, ReqOK(q, r, a, b)
  PROVE  CountOf(q, {r} \X Id \X BOOLEAN) = b - a /\ a \in Nat /\ b \in Nat /\ a <= b
  <1>1. PICK f : Climbs(q, Mine(r), f, a, b)
    BY DEF ReqOK
  <1>2. Mine(r) \in [Req -> Nat]
    BY MineType
  <1>3. SumOf(Each(q, Mine(r))) = b - a /\ a \in Nat /\ b \in Nat /\ a <= b
    BY ONLY <1>1, <1>2, q \in Seq(Req), ClimbsUp
  <1>4. \A k \in 1..Len(q) : Mine(r)[q[k]] = IF q[k] \in {r} \X Id \X BOOLEAN THEN 1 ELSE 0
    <2>1. ASSUME NEW m \in Req
          PROVE  Mine(r)[m] = IF m \in {r} \X Id \X BOOLEAN THEN 1 ELSE 0
      <3>1. m[1] = r <=> m \in {r} \X Id \X BOOLEAN
        BY DEF Req
      <3> QED
        BY ONLY <3>1, m \in Req, MineType
    <2>2. \A k \in 1..Len(q) : q[k] \in Req
      OBVIOUS
    <2> QED
      BY ONLY <2>1, <2>2
  <1>5. Each(q, Mine(r)) = [k \in 1..Len(q) |-> IF q[k] \in {r} \X Id \X BOOLEAN THEN 1 ELSE 0]
    BY ONLY <1>4 DEF Each
  <1>6. CountOf(q, {r} \X Id \X BOOLEAN) = SumOf(Each(q, Mine(r)))
    BY ONLY <1>5 DEF CountOf
  <1> QED
    BY ONLY <1>3, <1>6

(* Requests of a whole chain join the queue.                               *)
LEMMA ReqMore ==
  ASSUME NEW q \in Seq(Req), NEW c \in Seq(Req), NEW r, NEW a, NEW b, ReqOK(q, r, a, b),
         NEW d \in 0..1,
         \A i \in 1..Len(c) : /\ c[i][1] = r <=> d = 1
                              /\ d = 1 => c[i][2] = b + i
  PROVE  ReqOK(q \o c, r, a, b + d * Len(c))
  <1>1. PICK f : Climbs(q, Mine(r), f, a, b) /\ Numbered(q, r, f)
    BY DEF ReqOK
  <1> DEFINE N == Len(q)
             n == Len(c)
             t == q \o c
             e == b + d * n
             h == [k \in 0..N+n |-> IF k <= N THEN f[k] ELSE b + d * (k - N)]
  <1>2. /\ N \in Nat /\ n \in Nat /\ Len(t) = N + n
        /\ \A k \in 1..N : t[k] = q[k]
        /\ \A k \in 1..n : t[N+k] = c[k]
    OBVIOUS
  <1>3. /\ f \in [0..N -> Nat] /\ f[0] = a /\ f[N] = b /\ b \in Nat
        /\ \A k \in 1..N : f[k] = f[k-1] + Mine(r)[q[k]]
    BY <1>1, <1>2 DEF Climbs
  <1>4. \A k \in 1..n : Mine(r)[c[k]] = d
    <2>1. \A k \in 1..n : c[k] \in Req
      OBVIOUS
    <2> QED
      BY ONLY <2>1, MineType, d \in 0..1,
              \A i \in 1..n : c[i][1] = r <=> d = 1
  <1>5. \A k \in 1..n : c[k][1] = r => c[k][2] = b + d * k
    OBVIOUS
  <1> HIDE DEF N, n, t
  <1>6. /\ \A k \in 0..N : h[k] = f[k]
        /\ \A k \in 0..n : h[N+k] = b + d * k
        /\ h \in [0..N+n -> Nat]
    <2>1. \A k \in 0..N : k \in 0..N+n /\ k <= N
      BY ONLY <1>2
    <2>2. \A k \in 0..N : h[k] = f[k]
      BY ONLY <2>1
    <2>3. ASSUME NEW k \in 0..n PROVE h[N+k] = b + d * k
      <3>1. N + k \in 0..N+n /\ (N + k) - N = k /\ (N + k <= N => k = 0 /\ N + k = N)
        BY ONLY <1>2, k \in 0..n
      <3>2. CASE k = 0
        BY ONLY <1>2, <1>3, <2>2, <3>2, d \in 0..1
      <3>3. CASE k # 0
        BY ONLY <3>1, <3>3
      <3> QED
        BY <3>2, <3>3
    <2>4. ASSUME NEW k \in 0..N+n PROVE (IF k <= N THEN f[k] ELSE b + d * (k - N)) \in Nat
      <3>1. CASE k <= N
        BY ONLY <1>2, <1>3, <3>1, k \in 0..N+n
      <3>2. CASE ~(k <= N)
        <4>1. d = 0 \/ d = 1
          OBVIOUS
        <4>2. k - N \in Nat
          BY ONLY <1>2, <3>2, k \in 0..N+n
        <4> QED
          BY ONLY <1>3, <3>2, <4>1, <4>2
      <3> QED
        BY <3>1, <3>2
    <2>5. h \in [0..N+n -> Nat]
      BY ONLY <2>4
    <2> QED
      BY ONLY <2>2, <2>3, <2>5
  <1> HIDE DEF h
  <1>7. ASSUME NEW k \in 1..N+n
        PROVE  h[k] = h[k-1] + Mine(r)[t[k]] /\ (t[k][1] = r => t[k][2] = h[k])
    <2>1. CASE k \in 1..N
      <3>1. k \in 0..N /\ k - 1 \in 0..N
        BY ONLY <1>2, <2>1
      <3> QED
        BY ONLY <1>1, <1>2, <1>3, <1>6, <2>1, <3>1 DEF Numbered, N
    <2>2. CASE k \notin 1..N
      <3> DEFINE j == k - N
      <3>1. j \in 1..n /\ j \in 0..n /\ j - 1 \in 0..n /\ k = N + j /\ k - 1 = N + (j - 1)
        BY ONLY <1>2, <2>2, k \in 1..N+n
      <3> HIDE DEF j
      <3>2. h[k] = b + d * j /\ h[k-1] = b + d * (j - 1) /\ t[k] = c[j]
        BY ONLY <1>2, <1>6, <3>1
      <3>3. b + d * j = (b + d * (j - 1)) + d
        <4>1. d = 0 \/ d = 1
          OBVIOUS
        <4>2. b \in Nat /\ j \in Int
          BY ONLY <1>2, <1>3, <3>1
        <4>3. CASE d = 0
          BY ONLY <4>2, <4>3
        <4>4. CASE d = 1
          BY ONLY <4>2, <4>4
        <4> QED
          BY <4>1, <4>3, <4>4
      <3> QED
        BY ONLY <1>4, <1>5, <3>1, <3>2, <3>3
    <2> QED
      BY <2>1, <2>2
  <1>8. h[0] = a /\ h[N+n] = e
    <2>1. 0 \in 0..N /\ n \in 0..n
      BY ONLY <1>2
    <2> QED
      BY ONLY <1>3, <1>6, <2>1
  <1>9. Climbs(t, Mine(r), h, a, e)
    BY ONLY <1>2, <1>6, <1>7, <1>8 DEF Climbs
  <1>10. Numbered(t, r, h)
    BY ONLY <1>2, <1>7 DEF Numbered
  <1>11. ReqOK(t, r, a, e)
    BY ONLY <1>9, <1>10 DEF ReqOK
  <1> QED
    BY ONLY <1>11 DEF t, n
-----------------------------------------------------------------------------
(* The first layer: types, the requests' numbers, the dongle's output, and *)
(* where the host is in each ring.  R is the number of messages the read   *)
(* index has passed.                                                       *)

ReqsOK(q, c, l, o, a) ==
  /\ ReqOK(q, "tx", Made(o, "tx"), a["tx"])
  /\ ReqOK(q, "rx", Made(o, "rx") + Len(l) + Len(c), a["rx"])
  /\ \A i \in 1..Len(l) : l[i] = Made(o, "rx") + i
  /\ \A i \in 1..Len(c) : c[i] = Made(o, "rx") + Len(l) + i

ReqInv == ReqsOK(d2h_req_q, chain, rxcpl_list, out, asked)

ReqType ==
  /\ d2h_req_q \in Seq(Req) /\ chain \in Seq(Id) /\ rxcpl_list \in Seq(Id)
  /\ load \in Loads /\ asked \in [Rings -> Nat]
  /\ asked["tx"] <= load.tx /\ asked["rx"] <= load.rx

PcType ==
  /\ dpc \in {"idle", "list", "loop", "end", "flush"}
  /\ back \in {"start", "loop"} /\ chained \in BOOLEAN

HostType ==
  /\ tcm_w \in [Rings -> 0..MaxItem-1] /\ tcm_r \in [Rings -> 0..MaxItem-1]
  /\ r_offset \in [Rings -> 0..MaxItem-1]
  /\ block \in [Rings -> [at : 0..MaxItem, left : 0..MaxItem-1]]
  /\ seqnum \in [Rings -> Nat] /\ got \in [Rings -> Seq(Id)]
  /\ mem \in [Rings -> [0..MaxItem-1 -> Message]]
  /\ sent \in [Rings -> Nat] /\ timeouts \in 0..load.timeouts

HostOK(r, R) ==
  /\ R <= Len(got[r]) /\ InSlot(R + 1, tcm_r[r])
  /\ InSlot(sent[r] + 1, tcm_w[r])
  /\ Len(got[r]) + block[r].left <= sent[r]
  /\ InSlot(Len(got[r]) + block[r].left + 1, r_offset[r])
  /\ block[r].left # 0 => /\ block[r].at + block[r].left <= MaxItem
                          /\ InSlot(Len(got[r]) + 1, block[r].at)
  /\ seqnum[r] = Modulo + 1 + Len(got[r])

RingInv ==
  \E R \in [Rings -> Nat] :
    OutOK(out, sent, R, mem) /\ \A r \in Rings : HostOK(r, R[r])

BaseInv == ReqType /\ PcType /\ HostType /\ ReqInv /\ RingInv

LEMMA InId ==
  ASSUME NEW l \in Loads, NEW n \in Nat, n <= l.tx \/ n <= l.rx
  PROVE  n \in Id /\ l.tx \in Nat /\ l.rx \in Nat
  <1>1. l.tx \in Nat /\ l.rx \in Nat
    BY Sizes
  <1>2. n \in 0..l.tx+l.rx
    BY ONLY <1>1, n \in Nat, n <= l.tx \/ n <= l.rx
  <1>3. n \in Id
    BY ONLY <1>2, l \in Loads DEF Id
  <1> QED
    BY <1>1, <1>3

LEMMA HostIs ==
  ASSUME HostType, NEW r \in Rings
  PROVE  /\ tcm_w[r] \in 0..MaxItem-1 /\ tcm_r[r] \in 0..MaxItem-1
         /\ r_offset[r] \in 0..MaxItem-1 /\ block[r].at \in 0..MaxItem
         /\ block[r].left \in 0..MaxItem-1 /\ seqnum[r] \in Nat
         /\ got[r] \in Seq(Id) /\ Len(got[r]) \in Nat /\ sent[r] \in Nat
         /\ mem[r] \in [0..MaxItem-1 -> Message]
  BY DEF HostType

LEMMA FrameIs ==
  ASSUME HostType, NEW R \in [Rings -> Nat], \A r \in Rings : HostOK(r, R[r])
  PROVE  Frame(sent, R, mem)
  <1>1. sent \in [Rings -> Nat] /\ mem \in [Rings -> [0..MaxItem-1 -> Message]]
    BY DEF HostType
  <1>2. ASSUME NEW r \in Rings PROVE R[r] <= sent[r] /\ InSlot(R[r] + 1, tcm_r[r])
    <2>1. /\ Len(got[r]) \in Nat /\ block[r].left \in 0..MaxItem-1 /\ sent[r] \in Nat
          /\ MaxItem \in Nat
      BY HostIs, Sizes
    <2>2. /\ R[r] <= Len(got[r]) /\ InSlot(R[r] + 1, tcm_r[r])
          /\ Len(got[r]) + block[r].left <= sent[r]
      BY DEF HostOK
    <2>3. R[r] \in Nat
      OBVIOUS
    <2> QED
      BY ONLY <2>1, <2>2, <2>3
  <1> QED
    BY ONLY <1>1, <1>2, R \in [Rings -> Nat] DEF Frame

LEMMA MadeInt ==
  ASSUME NEW o \in OutType, NEW r \in Rings
  PROVE  Made(o, r) \in Int
  BY StateIs, Sizes DEF Made

(* The host and its memory are left alone.                                 *)
LEMMA HostSame ==
  ASSUME HostType, UNCHANGED <<load, tcm_w, sent, mem, hostVars>>
  PROVE  HostType' /\ \A r \in Rings : \A R : HostOK(r, R) => HostOK(r, R)'
  <1>1. HostType'
    BY DEF HostType, hostVars
  <1>2. \A r \in Rings : \A R : HostOK(r, R) => HostOK(r, R)'
    BY DEF HostOK, hostVars
  <1> QED
    BY <1>1, <1>2

LEMMA ReqsSame ==
  ASSUME NEW q, NEW c, NEW l, NEW o, NEW p, NEW a, ReqsOK(q, c, l, o, a), SameMade(o, p)
  PROVE  ReqsOK(q, c, l, p, a)
  <1>1. Made(p, "tx") = Made(o, "tx") /\ Made(p, "rx") = Made(o, "rx")
    BY DEF SameMade, Rings
  <1> QED
    BY ONLY <1>1, ReqsOK(q, c, l, o, a) DEF ReqsOK

(* A step of the dongle that leaves the requests alone, too.               *)
LEMMA OutStep ==
  ASSUME BaseInv, UNCHANGED <<reqVars, tcm_w, sent, mem, hostVars>>, PcType',
         \A R : OutOK(out, sent, R, mem) /\ Frame(sent, R, mem)
                  => OutOK(out', sent, R, mem) /\ SameMade(out, out')
  PROVE  BaseInv'
  <1>1. ReqType /\ HostType /\ ReqInv /\ RingInv
    BY DEF BaseInv
  <1>2. PICK R \in [Rings -> Nat] :
          OutOK(out, sent, R, mem) /\ \A r \in Rings : HostOK(r, R[r])
    BY <1>1 DEF RingInv
  <1>3. Frame(sent, R, mem)
    BY <1>1, <1>2, FrameIs
  <1>4. OutOK(out', sent, R, mem) /\ SameMade(out, out')
    BY <1>2, <1>3
  <1>5. ReqType'
    BY <1>1 DEF ReqType, reqVars
  <1>6. HostType' /\ \A r \in Rings : \A X : HostOK(r, X) => HostOK(r, X)'
    <2>1. load' = load
      BY DEF reqVars
    <2> QED
      BY <1>1, <2>1, HostSame
  <1>7. ReqInv'
    <2>1. ReqsOK(d2h_req_q, chain, rxcpl_list, out', asked)
      BY <1>1, <1>4, ReqsSame DEF ReqInv
    <2> QED
      BY <2>1 DEF ReqInv, reqVars
  <1>8. RingInv'
    <2>1. OutOK(out', sent', R, mem')
      BY <1>4
    <2>2. \A r \in Rings : HostOK(r, R[r])'
      BY <1>2, <1>6
    <2> QED
      BY <2>1, <2>2 DEF RingInv
  <1> QED
    BY <1>5, <1>6, <1>7, <1>8 DEF BaseInv

LEMMA InitBase ==
  ASSUME Init PROVE BaseInv
  <1> USE Sizes
  <1>1. ReqType
    <2>1. \A l \in Loads : 0 <= l.tx /\ 0 <= l.rx
      OBVIOUS
    <2> QED
      BY <2>1 DEF Init, ReqType, Rings
  <1>2. PcType
    BY DEF Init, PcType
  <1>3. 0 \in Id /\ Zero \in Message
    <2>1. 0 \in Id
      BY InId DEF Init
    <2> QED
      BY <2>1 DEF Message, Zero
  <1>4. HostType
    <2>1. /\ tcm_w \in [Rings -> 0..MaxItem-1] /\ tcm_r \in [Rings -> 0..MaxItem-1]
          /\ r_offset \in [Rings -> 0..MaxItem-1]
          /\ block \in [Rings -> [at : 0..MaxItem, left : 0..MaxItem-1]]
          /\ seqnum \in [Rings -> Nat] /\ got \in [Rings -> Seq(Id)]
          /\ sent \in [Rings -> Nat] /\ timeouts \in 0..load.timeouts
      BY DEF Init, D2H_EPOCH_INIT_VAL
    <2>2. mem \in [Rings -> [0..MaxItem-1 -> Message]]
      BY <1>3 DEF Init
    <2> QED
      BY <2>1, <2>2 DEF HostType
  <1> DEFINE z == [r \in Rings |-> 0]
             idle == [in_use |-> FALSE, items |-> <<>>, availcnt |-> BufCnt,
                      pend |-> FALSE, epoch |-> D2H_EPOCH_INIT_VAL, wr_pending |-> 0]
  <1>5. /\ out.ring = [r \in Rings |-> idle]
        /\ out.q = <<>> /\ out.flying = {}
        /\ out = [ring |-> out.ring, q |-> out.q, flying |-> out.flying]
    BY DEF Init
  <1>6. /\ idle.in_use = FALSE /\ idle.items = <<>> /\ idle.availcnt = BufCnt
        /\ idle.epoch = Modulo + 1 /\ idle.wr_pending = 0 /\ Len(idle.items) = 0
    BY DEF D2H_EPOCH_INIT_VAL
  <1>7. idle \in RingState
    BY DEF RingState, D2H_EPOCH_INIT_VAL
  <1> HIDE DEF idle
  <1>8. \A r \in Rings : out.ring[r] = idle /\ Made(out, r) = 0 /\ Passed(out, r) = 0
    BY ONLY <1>5, <1>6, Sizes DEF Made, Passed
  <1>9. out \in OutType
    <2>1. \E e \in Seq(QEntry) : e = <<>>
      BY NoElement
    <2>2. out.ring \in [Rings -> RingState]
      BY ONLY <1>5, <1>7
    <2> QED
      BY ONLY <1>5, <2>1, <2>2 DEF OutType
  <1>10. InSlot(0 + 1, 0)
    <2>1. 0 * MaxItem = 0
      OBVIOUS
    <2> QED
      BY <2>1 DEF InSlot
  <1> DEFINE none == [k \in 0..0 |-> 0]
  <1>11. \A g : Climbs(<<>>, g, none, 0, 0)
    BY DEF Climbs
  <1>12. ASSUME NEW r \in Rings
         PROVE  OutRing(out, r, 0, 0, mem[r])
    <2>1. DmaOK(out.q, r, 0, 0)
      <3>1. InPlace(<<>>, r, none)
        BY DEF InPlace
      <3> QED
        BY <1>5, <1>11, <3>1 DEF DmaOK
    <2>2. BufOK(out.ring[r], out.q, r)
      <3>1. CountOf(out.q, DmaOf(r)) = 0
        BY <1>5, CountEmpty
      <3>2. BufCnt + 0 + 0 = BufCnt
        OBVIOUS
      <3> QED
        BY ONLY <1>6, <1>8, <3>1, <3>2, r \in Rings DEF BufOK
    <2>3. FlyOK(out.flying, r, 0, mem[r])
      BY <1>5 DEF FlyOK, Init, Zero
    <2>4. 0 \in 0..(0 + MaxItem - 1)
      OBVIOUS
    <2>5. \A i \in 1..Len(out.ring[r].items) : out.ring[r].items[i] = Msg(0 + i)
      BY ONLY <1>6, <1>8, r \in Rings
    <2>6. InSlot(0 + 1, out.ring[r].wr_pending)
      BY ONLY <1>6, <1>8, <1>10, r \in Rings
    <2> QED
      BY ONLY <1>8, <2>1, <2>2, <2>3, <2>4, <2>5, <2>6, r \in Rings DEF OutRing
  <1>13. ASSUME NEW r \in Rings PROVE HostOK(r, 0)
    <2>1. /\ got[r] = <<>> /\ tcm_r[r] = 0 /\ tcm_w[r] = 0 /\ sent[r] = 0
          /\ block[r].left = 0 /\ r_offset[r] = 0 /\ seqnum[r] = Modulo + 1
      BY DEF Init, D2H_EPOCH_INIT_VAL
    <2>2. Len(got[r]) = 0
      BY <2>1
    <2>3. 0 + 0 + 1 = 0 + 1 /\ Modulo + 1 + 0 = Modulo + 1 /\ 0 <= 0 /\ 0 + 0 <= 0
      OBVIOUS
    <2> QED
      BY ONLY <1>10, <2>1, <2>2, <2>3 DEF HostOK
  <1>14. RingInv
    <2>1. z \in [Rings -> Nat] /\ \A r \in Rings : z[r] = 0 /\ sent[r] = 0
      BY DEF Init
    <2> HIDE DEF z
    <2>2. OutOK(out, sent, z, mem)
      BY ONLY <1>9, <1>12, <2>1 DEF OutOK
    <2>3. \A r \in Rings : HostOK(r, z[r])
      BY ONLY <1>13, <2>1
    <2> QED
      BY ONLY <2>1, <2>2, <2>3 DEF RingInv
  <1>15. ReqInv
    <2>1. \A r : ReqOK(<<>>, r, 0, 0)
      <3>1. \A r : Numbered(<<>>, r, none)
        BY DEF Numbered
      <3> QED
        BY <1>11, <3>1 DEF ReqOK
    <2>2. /\ d2h_req_q = <<>> /\ chain = <<>> /\ rxcpl_list = <<>>
          /\ asked["tx"] = 0 /\ asked["rx"] = 0 /\ Len(chain) = 0 /\ Len(rxcpl_list) = 0
      BY DEF Init, Rings
    <2>3. Made(out, "tx") = 0 /\ Made(out, "rx") = 0
      BY <1>8 DEF Rings
    <2> QED
      BY ONLY <2>1, <2>2, <2>3 DEF ReqInv, ReqsOK
  <1> QED
    BY <1>1, <1>2, <1>4, <1>14, <1>15 DEF BaseInv
-----------------------------------------------------------------------------
(* The actions keep the first layer.                                       *)

(* pciedev_queue_d2h_req_send retries what is pending.                     *)
LEMMA StartKeeps ==
  ASSUME NEW o, NEW S, NEW R, NEW m, OutOK(o, S, R, m), Frame(S, R, m)
  PROVE  LET p == RetryPending(RetryPending(o, "rx"), "tx")
         IN  OutOK(p, S, R, m) /\ SameMade(o, p)
  <1> DEFINE i == RetryPending(o, "rx")
             p == RetryPending(i, "tx")
  <1>1. "tx" \in Rings /\ "rx" \in Rings
    BY DEF Rings
  <1>2. OutOK(i, S, R, m) /\ SameMade(o, i)
    BY <1>1, RetryKeeps
  <1> HIDE DEF i
  <1>3. OutOK(p, S, R, m) /\ SameMade(i, p)
    BY <1>1, <1>2, RetryKeeps
  <1> HIDE DEF p
  <1>4. SameMade(o, p)
    BY ONLY <1>2, <1>3 DEF SameMade
  <1> QED
    BY ONLY <1>3, <1>4 DEF p, i

LEMMA FlushBase ==
  ASSUME BaseInv, FlushChainedPkts PROVE BaseInv'
  <1>1. out' = RetryPending(RetryPending(out, "rx"), "tx")
    BY DEF FlushChainedPkts, StartSend
  <1>2. ASSUME NEW R, OutOK(out, sent, R, mem), Frame(sent, R, mem)
        PROVE  OutOK(out', sent, R, mem) /\ SameMade(out, out')
    BY <1>1, <1>2, StartKeeps
  <1>3. PcType'
    BY DEF FlushChainedPkts, StartSend, PcType
  <1> QED
    BY <1>2, <1>3, OutStep DEF FlushChainedPkts

LEMMA EndDrainBase ==
  ASSUME BaseInv, EndDrain PROVE BaseInv'
  <1>1. PcType'
    BY DEF EndDrain, Continue, Return, PcType, BaseInv
  <1>2. \A R : OutOK(out, sent, R, mem) => OutOK(out', sent, R, mem) /\ SameMade(out, out')
    BY DEF EndDrain, SameMade
  <1> QED
    BY <1>1, <1>2, OutStep DEF EndDrain

LEMMA EndSendBase ==
  ASSUME BaseInv, EndSend PROVE BaseInv'
  <1>1. PcType'
    BY DEF EndSend, Return, PcType, BaseInv
  <1>2. ASSUME NEW R, OutOK(out, sent, R, mem), Frame(sent, R, mem)
        PROVE  OutOK(out', sent, R, mem) /\ SameMade(out, out')
    BY <1>2, XmitKeeps DEF EndSend, Rings
  <1> QED
    BY <1>1, <1>2, OutStep DEF EndSend

LEMMA FlushTxBase ==
  ASSUME BaseInv, FlushTx PROVE BaseInv'
  <1>1. PcType'
    BY DEF FlushTx, PcType, BaseInv
  <1>2. ASSUME NEW R, OutOK(out, sent, R, mem), Frame(sent, R, mem)
        PROVE  OutOK(out', sent, R, mem) /\ SameMade(out, out')
    BY <1>2, XmitKeeps DEF FlushTx, Rings
  <1> QED
    BY <1>1, <1>2, OutStep DEF FlushTx

(* What is left of a step whose requests and output are dealt with.        *)
LEMMA BusStepBase ==
  ASSUME BaseInv, UNCHANGED <<load, tcm_w, sent, mem, hostVars>>,
         PcType', ReqType', ReqInv',
         \A R : OutOK(out, sent, R, mem) /\ Frame(sent, R, mem)
                  => OutOK(out', sent, R, mem)
  PROVE  BaseInv'
  <1>1. HostType /\ RingInv
    BY DEF BaseInv
  <1>2. PICK R \in [Rings -> Nat] :
          OutOK(out, sent, R, mem) /\ \A r \in Rings : HostOK(r, R[r])
    BY <1>1 DEF RingInv
  <1>3. Frame(sent, R, mem)
    BY <1>1, <1>2, FrameIs
  <1>4. HostType' /\ \A r \in Rings : \A X : HostOK(r, X) => HostOK(r, X)'
    BY <1>1, HostSame
  <1>5. RingInv'
    <2>1. OutOK(out', sent', R, mem')
      BY <1>2, <1>3
    <2>2. \A r \in Rings : HostOK(r, R[r])'
      BY <1>2, <1>4
    <2> QED
      BY <2>1, <2>2 DEF RingInv
  <1> QED
    BY <1>4, <1>5 DEF BaseInv

LEMMA FreeTxBase ==
  ASSUME BaseInv, FreeTxPacket PROVE BaseInv'
  <1>1. ReqType /\ ReqInv /\ PcType
    BY DEF BaseInv
  <1>2. /\ d2h_req_q \in Seq(Req) /\ chain \in Seq(Id) /\ rxcpl_list \in Seq(Id)
        /\ load \in Loads /\ asked \in [Rings -> Nat]
        /\ asked["tx"] <= load.tx /\ asked["rx"] <= load.rx
    BY <1>1 DEF ReqType
  <1>3. /\ asked["tx"] < load.tx
        /\ asked' = [asked EXCEPT !["tx"] = @ + 1]
        /\ UNCHANGED <<load, chain, rxcpl_list, out, pcVars, tcm_w, sent, mem, hostVars>>
    BY DEF FreeTxPacket
  <1>4. PICK b \in BOOLEAN : d2h_req_q' = Append(d2h_req_q, <<"tx", asked["tx"] + 1, b>>)
    BY DEF FreeTxPacket
  <1> DEFINE m == <<"tx", asked["tx"] + 1, b>>
  <1>5. asked["tx"] \in Nat /\ load.tx \in Nat /\ asked["tx"] + 1 \in Nat
        /\ asked["tx"] + 1 <= load.tx
    BY <1>2, <1>3, Sizes DEF Rings
  <1>6. m \in Req /\ m[1] = "tx" /\ m[2] = asked["tx"] + 1
    BY <1>2, <1>5, InId DEF Req, Rings
  <1> HIDE DEF m
  <1>7. d2h_req_q' = Append(d2h_req_q, m) /\ Append(d2h_req_q, m) \in Seq(Req)
    BY <1>2, <1>4, <1>6 DEF m
  <1>8. asked' \in [Rings -> Nat] /\ asked'["tx"] = asked["tx"] + 1
        /\ asked'["rx"] = asked["rx"]
    BY ONLY <1>2, <1>3, <1>5 DEF Rings
  <1>9. ReqType'
    BY ONLY <1>2, <1>3, <1>5, <1>7, <1>8 DEF ReqType
  <1>10. ReqInv'
    <2>1. ReqsOK(d2h_req_q, chain, rxcpl_list, out, asked)
      BY <1>1 DEF ReqInv
    <2>2. /\ ReqOK(d2h_req_q, "tx", Made(out, "tx"), asked["tx"])
          /\ ReqOK(d2h_req_q, "rx", Made(out, "rx") + Len(rxcpl_list) + Len(chain), asked["rx"])
      BY ONLY <2>1 DEF ReqsOK
    <2>3. ReqOK(Append(d2h_req_q, m), "tx", Made(out, "tx"),
                asked["tx"] + IF m[1] = "tx" THEN 1 ELSE 0)
      BY ONLY <1>2, <1>6, <2>2, ReqAppend
    <2>4. ReqOK(Append(d2h_req_q, m), "rx", Made(out, "rx") + Len(rxcpl_list) + Len(chain),
                asked["rx"] + IF m[1] = "rx" THEN 1 ELSE 0)
      <3>1. ~(m[1] = "rx")
        BY ONLY <1>6
      <3> QED
        BY ONLY <1>2, <1>6, <2>2, <3>1, ReqAppend
    <2>5. asked["rx"] + (IF m[1] = "rx" THEN 1 ELSE 0) = asked["rx"]
          /\ asked["tx"] + (IF m[1] = "tx" THEN 1 ELSE 0) = asked["tx"] + 1
      <3>1. asked["rx"] \in Nat
        BY <1>2 DEF Rings
      <3> QED
        BY ONLY <1>5, <1>6, <3>1
    <2>6. ReqsOK(Append(d2h_req_q, m), chain, rxcpl_list, out, asked')
      BY ONLY <1>8, <2>1, <2>3, <2>4, <2>5 DEF ReqsOK
    <2> QED
      BY ONLY <1>3, <1>7, <2>6 DEF ReqInv
  <1>11. PcType'
    BY <1>1, <1>3 DEF PcType, pcVars
  <1> QED
    BY <1>3, <1>9, <1>10, <1>11, BusStepBase

LEMMA ReceiveBase ==
  ASSUME BaseInv, ReceiveChain PROVE BaseInv'
  <1>1. ReqType /\ ReqInv /\ PcType
    BY DEF BaseInv
  <1>2. /\ d2h_req_q \in Seq(Req) /\ chain \in Seq(Id) /\ rxcpl_list \in Seq(Id)
        /\ load \in Loads /\ asked \in [Rings -> Nat]
        /\ asked["tx"] <= load.tx /\ asked["rx"] <= load.rx
    BY <1>1 DEF ReqType
  <1>3. UNCHANGED <<load, chain, rxcpl_list, out, pcVars, tcm_w, sent, mem, hostVars>>
    BY DEF ReceiveChain
  <1>4. PICK n \in 1..MaxChain :
          /\ asked["rx"] + n <= load.rx
          /\ d2h_req_q' = d2h_req_q \o [i \in 1..n |-> <<"rx", asked["rx"] + i, i = n>>]
          /\ asked' = [asked EXCEPT !["rx"] = @ + n]
    BY DEF ReceiveChain
  <1> DEFINE c == [i \in 1..n |-> <<"rx", asked["rx"] + i, i = n>>]
  <1>5. asked["rx"] \in Nat /\ asked["tx"] \in Nat /\ load.rx \in Nat /\ n \in Nat /\ n >= 1
    BY <1>2, Sizes DEF Rings
  <1>6. ASSUME NEW i \in 1..n
        PROVE  c[i] \in Req /\ c[i][1] = "rx" /\ c[i][2] = asked["rx"] + i
    <2>1. asked["rx"] + i \in Nat /\ asked["rx"] + i <= load.rx
      BY ONLY <1>4, <1>5, i \in 1..n
    <2>2. asked["rx"] + i \in Id
      BY ONLY <1>2, <2>1, InId
    <2> QED
      BY <2>2 DEF Req, Rings
  <1>7. c \in Seq(Req) /\ Len(c) = n
    <2>1. \A i \in 1..n : <<"rx", asked["rx"] + i, i = n>> \in Req
      BY <1>6
    <2> QED
      BY ONLY <1>5, <2>1
  <1> HIDE DEF c
  <1>8. d2h_req_q' = d2h_req_q \o c /\ d2h_req_q \o c \in Seq(Req)
    <2>1. d2h_req_q' = d2h_req_q \o c
      BY <1>4 DEF c
    <2> QED
      BY ONLY <1>2, <1>7, <2>1
  <1>9. asked' \in [Rings -> Nat] /\ asked'["tx"] = asked["tx"]
        /\ asked'["rx"] = asked["rx"] + n
    BY ONLY <1>2, <1>4, <1>5 DEF Rings
  <1>10. ReqType'
    BY ONLY <1>2, <1>3, <1>4, <1>8, <1>9 DEF ReqType
  <1>11. ReqInv'
    <2>1. ReqsOK(d2h_req_q, chain, rxcpl_list, out, asked)
      BY <1>1 DEF ReqInv
    <2>2. /\ ReqOK(d2h_req_q, "tx", Made(out, "tx"), asked["tx"])
          /\ ReqOK(d2h_req_q, "rx", Made(out, "rx") + Len(rxcpl_list) + Len(chain), asked["rx"])
      BY ONLY <2>1 DEF ReqsOK
    <2>3. ReqOK(d2h_req_q \o c, "tx", Made(out, "tx"), asked["tx"] + 0 * Len(c))
      <3>1. \A i \in 1..Len(c) : (c[i][1] = "tx" <=> 0 = 1) /\ (0 = 1 => c[i][2] = asked["tx"] + i)
        BY ONLY <1>6, <1>7
      <3>2. 0 \in 0..1
        OBVIOUS
      <3> QED
        BY ONLY <1>2, <1>7, <2>2, <3>1, <3>2, ReqMore
    <2>4. ReqOK(d2h_req_q \o c, "rx", Made(out, "rx") + Len(rxcpl_list) + Len(chain),
                asked["rx"] + 1 * Len(c))
      <3>1. \A i \in 1..Len(c) : (c[i][1] = "rx" <=> 1 = 1) /\ (1 = 1 => c[i][2] = asked["rx"] + i)
        BY ONLY <1>6, <1>7
      <3>2. 1 \in 0..1
        OBVIOUS
      <3> QED
        BY ONLY <1>2, <1>7, <2>2, <3>1, <3>2, ReqMore
    <2>5. asked["tx"] + 0 * Len(c) = asked["tx"] /\ asked["rx"] + 1 * Len(c) = asked["rx"] + n
      BY ONLY <1>5, <1>7
    <2>6. ReqsOK(d2h_req_q \o c, chain, rxcpl_list, out, asked')
      BY ONLY <1>9, <2>1, <2>3, <2>4, <2>5 DEF ReqsOK
    <2> QED
      BY ONLY <1>3, <1>8, <2>6 DEF ReqInv
  <1>12. PcType'
    BY <1>1, <1>3 DEF PcType, pcVars
  <1> QED
    BY <1>3, <1>10, <1>11, <1>12, BusStepBase

LEMMA OutTyped ==
  ASSUME BaseInv PROVE out \in OutType
  BY DEF BaseInv, RingInv, OutOK

(* One round of pciedev_queue_rxcomplete_msgring.                          *)
LEMMA DrainBase ==
  ASSUME BaseInv, DrainList PROVE BaseInv'
  <1> DEFINE l == rxcpl_list
             id == l[1]
             t == Tail(l)
             p == Queue(out, "rx", id)
             M == Made(out, "rx")
  <1>1. ReqType /\ ReqInv /\ PcType
    BY DEF BaseInv
  <1>2. /\ d2h_req_q \in Seq(Req) /\ chain \in Seq(Id) /\ l \in Seq(Id)
        /\ load \in Loads /\ asked \in [Rings -> Nat]
        /\ asked["tx"] <= load.tx /\ asked["rx"] <= load.rx
    BY <1>1 DEF ReqType
  <1>3. /\ l # <<>> /\ ~NoBuffer(out, "rx") /\ out' = p /\ rxcpl_list' = t
        /\ UNCHANGED <<load, d2h_req_q, chain, asked, pcVars, tcm_w, sent, mem, hostVars>>
    BY DEF DrainList
  <1>4. /\ id \in Id /\ t \in Seq(Id) /\ Len(l) \in Nat /\ Len(l) >= 1
        /\ Len(t) = Len(l) - 1 /\ \A i \in 1..Len(l)-1 : t[i] = l[i+1]
    BY ONLY <1>2, <1>3, EmptySeq
  <1>5. M \in Int
    BY OutTyped, MadeInt DEF Rings
  <1>6. ReqsOK(d2h_req_q, chain, l, out, asked)
    BY <1>1 DEF ReqInv
  <1>7. id = M + 1
    <2>1. 1 \in 1..Len(l)
      BY ONLY <1>4
    <2> QED
      BY ONLY <1>6, <2>1 DEF ReqsOK
  <1> HIDE DEF id, t, p
  <1>8. ASSUME NEW R, OutOK(out, sent, R, mem), Frame(sent, R, mem)
        PROVE  OutOK(p, sent, R, mem) /\ Made(p, "rx") = M + 1 /\ Made(p, "tx") = Made(out, "tx")
    <2>1. "rx" \in Rings /\ "tx" \in Rings /\ "tx" # "rx"
      BY DEF Rings
    <2> QED
      BY ONLY <1>3, <1>4, <1>7, <1>8, <2>1, QueueKeeps DEF p
  <1>9. Made(p, "rx") = M + 1 /\ Made(p, "tx") = Made(out, "tx")
    <2>1. HostType /\ RingInv
      BY DEF BaseInv
    <2>2. PICK R \in [Rings -> Nat] :
            OutOK(out, sent, R, mem) /\ \A r \in Rings : HostOK(r, R[r])
      BY <2>1 DEF RingInv
    <2> QED
      BY ONLY <1>8, <2>1, <2>2, FrameIs
  <1> HIDE DEF M, l
  <1>a. M = Made(out, "rx")
    BY DEF M
  <1>10. ReqInv'
    <2>1. /\ ReqOK(d2h_req_q, "tx", Made(out, "tx"), asked["tx"])
          /\ ReqOK(d2h_req_q, "rx", M + Len(l) + Len(chain), asked["rx"])
          /\ \A i \in 1..Len(l) : l[i] = M + i
          /\ \A i \in 1..Len(chain) : chain[i] = M + Len(l) + i
      BY ONLY <1>6, <1>a DEF ReqsOK
    <2>2. Len(chain) \in Nat
      BY <1>2
    <2>3. (M + 1) + Len(t) = M + Len(l)
      BY ONLY <1>4, <1>5
    <2>4. ASSUME NEW i \in 1..Len(t) PROVE t[i] = (M + 1) + i
      <3>1. i \in 1..Len(l)-1 /\ i + 1 \in 1..Len(l) /\ M + (i + 1) = (M + 1) + i
        BY ONLY <1>4, <1>5, i \in 1..Len(t)
      <3> QED
        BY ONLY <1>4, <2>1, <3>1
    <2>5. ReqsOK(d2h_req_q, chain, t, p, asked)
      BY ONLY <1>9, <2>1, <2>3, <2>4 DEF ReqsOK
    <2> QED
      BY ONLY <1>3, <2>5 DEF ReqInv
  <1>11. ReqType'
    BY ONLY <1>2, <1>3, <1>4 DEF ReqType
  <1>12. PcType'
    BY <1>1, <1>3 DEF PcType, pcVars
  <1> QED
    BY <1>3, <1>8, <1>10, <1>11, <1>12, BusStepBase

(* pciedev_process_d2h_txmetadata.                                         *)
LEMMA TxMetadataBase ==
  ASSUME BaseInv, HandleTxMetadata PROVE BaseInv'
  <1> DEFINE q == d2h_req_q
             m == q[1]
             t == Tail(q)
             o == IF m[3] THEN Payload(out) ELSE out
             p == Queue(o, "tx", m[2])
             M == Made(out, "tx")
  <1>1. ReqType /\ ReqInv /\ PcType
    BY DEF BaseInv
  <1>2. /\ q \in Seq(Req) /\ chain \in Seq(Id) /\ rxcpl_list \in Seq(Id)
        /\ load \in Loads /\ asked \in [Rings -> Nat]
        /\ asked["tx"] <= load.tx /\ asked["rx"] <= load.rx
    BY <1>1 DEF ReqType
  <1>3. /\ q # <<>> /\ m[1] = "tx" /\ out' = p /\ d2h_req_q' = t
        /\ out.ring["tx"].availcnt > 0
        /\ UNCHANGED <<load, chain, rxcpl_list, asked, back, chained, tcm_w, sent, mem,
                       hostVars>>
    BY DEF HandleTxMetadata, Handled
  <1>4. m \in Req /\ t \in Seq(Req)
    BY ONLY <1>2, <1>3, EmptySeq
  <1>5. m[2] \in Id
    BY <1>4 DEF Req
  <1>6. ReqsOK(q, chain, rxcpl_list, out, asked)
    BY <1>1 DEF ReqInv
  <1>7. out.ring["tx"].availcnt \in Nat
    BY OutTyped, StateIs DEF Rings
  <1> HIDE DEF q, t, m
  <1>8. /\ ReqOK(q, "tx", M, asked["tx"])
        /\ ReqOK(q, "rx", Made(out, "rx") + Len(rxcpl_list) + Len(chain), asked["rx"])
    BY ONLY <1>6 DEF ReqsOK
  <1>9. ReqOK(t, "tx", M + 1, asked["tx"]) /\ m[2] = M + 1
    <2>1. /\ ReqOK(t, "tx", M + (IF m[1] = "tx" THEN 1 ELSE 0), asked["tx"])
          /\ m[1] = "tx" => m[2] = M + 1
      BY ONLY <1>2, <1>3, <1>8, ReqTail DEF t, m
    <2> QED
      BY ONLY <1>3, <2>1
  <1>10. ReqOK(t, "rx", Made(out, "rx") + Len(rxcpl_list) + Len(chain), asked["rx"])
    <2> DEFINE a == Made(out, "rx") + Len(rxcpl_list) + Len(chain)
    <2>1. ReqOK(q, "rx", a, asked["rx"])
      BY ONLY <1>8
    <2> HIDE DEF a
    <2>2. ReqOK(t, "rx", a + (IF m[1] = "rx" THEN 1 ELSE 0), asked["rx"]) /\ a \in Nat
      BY ONLY <1>2, <1>3, <2>1, ReqTail DEF t, m
    <2>3. ~(m[1] = "rx")
      BY ONLY <1>3
    <2>4. ReqOK(t, "rx", a, asked["rx"])
      BY ONLY <2>2, <2>3
    <2> QED
      BY ONLY <2>4 DEF a
  <1> HIDE DEF p, o
  <1>11. ASSUME NEW R, OutOK(out, sent, R, mem), Frame(sent, R, mem)
         PROVE  OutOK(p, sent, R, mem) /\ Made(p, "tx") = M + 1 /\ Made(p, "rx") = Made(out, "rx")
    <2>1. "rx" \in Rings /\ "tx" \in Rings /\ "rx" # "tx"
      BY DEF Rings
    <2>2. OutOK(o, sent, R, mem) /\ SameMade(out, o) /\ o.ring = out.ring
      <3>1. CASE m[3]
        <4>1. o = Payload(out)
          BY ONLY <3>1 DEF o
        <4>2. OutOK(Payload(out), sent, R, mem) /\ SameMade(out, Payload(out))
              /\ Payload(out).ring = out.ring
          BY ONLY <1>11, PayloadKeeps
        <4> QED
          BY ONLY <4>1, <4>2
      <3>2. CASE ~m[3]
        <4>1. o = out
          BY ONLY <3>2 DEF o
        <4> QED
          BY ONLY <4>1, <1>11 DEF SameMade
      <3> QED
        BY <3>1, <3>2
    <2>3. ~NoBuffer(o, "tx")
      BY ONLY <1>3, <1>7, <2>2 DEF NoBuffer
    <2>4. Made(o, "tx") = M /\ Made(o, "rx") = Made(out, "rx")
      BY ONLY <2>1, <2>2 DEF SameMade
    <2>5. m[2] = Made(o, "tx") + 1
      BY ONLY <1>9, <2>4
    <2>6. OutOK(p, sent, R, mem) /\ Made(p, "tx") = Made(o, "tx") + 1
          /\ Made(p, "rx") = Made(o, "rx")
      BY ONLY <1>5, <1>11, <2>1, <2>2, <2>3, <2>5, QueueKeeps DEF p
    <2> QED
      BY ONLY <2>4, <2>6
  <1>12. Made(p, "tx") = M + 1 /\ Made(p, "rx") = Made(out, "rx")
    <2>1. HostType /\ RingInv
      BY DEF BaseInv
    <2>2. PICK R \in [Rings -> Nat] :
            OutOK(out, sent, R, mem) /\ \A r \in Rings : HostOK(r, R[r])
      BY <2>1 DEF RingInv
    <2> QED
      BY ONLY <1>11, <2>1, <2>2, FrameIs
  <1>13. ReqInv'
    <2>1. ReqsOK(t, chain, rxcpl_list, p, asked)
      BY ONLY <1>6, <1>9, <1>10, <1>12 DEF ReqsOK
    <2> QED
      BY ONLY <1>3, <2>1 DEF ReqInv
  <1>14. ReqType'
    BY ONLY <1>2, <1>3, <1>4 DEF ReqType
  <1>15. PcType'
    BY <1>1 DEF PcType, HandleTxMetadata, Continue
  <1> QED
    BY <1>3, <1>11, <1>13, <1>14, <1>15, BusStepBase

(* pciedev_process_d2h_rxpyld, pciedev_queue_rxcomplete_local.             *)
LEMMA RxPayloadBase ==
  ASSUME BaseInv, HandleRxPayload PROVE BaseInv'
  <1> DEFINE q == d2h_req_q
             m == q[1]
             t == Tail(q)
             l == rxcpl_list
             c == Append(chain, m[2])
             p == Payload(out)
             M == Made(out, "rx")
  <1>1. ReqType /\ ReqInv /\ PcType
    BY DEF BaseInv
  <1>2. /\ q \in Seq(Req) /\ chain \in Seq(Id) /\ l \in Seq(Id)
        /\ load \in Loads /\ asked \in [Rings -> Nat]
        /\ asked["tx"] <= load.tx /\ asked["rx"] <= load.rx
    BY <1>1 DEF ReqType
  <1>3. /\ q # <<>> /\ m[1] = "rx" /\ out' = p /\ d2h_req_q' = t
        /\ \/ rxcpl_list' = l \o c /\ chain' = <<>>
           \/ chain' = c /\ rxcpl_list' = l
        /\ UNCHANGED <<load, asked, chained, tcm_w, sent, mem, hostVars>>
    BY DEF HandleRxPayload, Handled
  <1>4. m \in Req /\ t \in Seq(Req)
    BY ONLY <1>2, <1>3, EmptySeq
  <1>5. m[2] \in Id
    BY <1>4 DEF Req
  <1>6. /\ c \in Seq(Id) /\ Len(c) = Len(chain) + 1 /\ Len(chain) \in Nat
        /\ c[Len(chain)+1] = m[2] /\ \A i \in 1..Len(chain) : c[i] = chain[i]
    BY <1>2, <1>5
  <1>7. M \in Int
    BY OutTyped, MadeInt DEF Rings
  <1>8. ReqsOK(q, chain, l, out, asked)
    BY <1>1 DEF ReqInv
  <1> HIDE DEF q, t, m, c, l, p, M
  <1>9. ASSUME NEW R, OutOK(out, sent, R, mem), Frame(sent, R, mem)
        PROVE  OutOK(p, sent, R, mem) /\ SameMade(out, p)
    BY ONLY <1>9, PayloadKeeps DEF p
  <1>10. Made(p, "tx") = Made(out, "tx") /\ Made(p, "rx") = M
    <2>1. HostType /\ RingInv
      BY DEF BaseInv
    <2>2. PICK R \in [Rings -> Nat] :
            OutOK(out, sent, R, mem) /\ \A r \in Rings : HostOK(r, R[r])
      BY <2>1 DEF RingInv
    <2>3. SameMade(out, p)
      BY ONLY <1>9, <2>1, <2>2, FrameIs
    <2> QED
      BY <2>3 DEF SameMade, Rings, M
  <1>11. /\ ReqOK(q, "tx", Made(out, "tx"), asked["tx"])
         /\ ReqOK(q, "rx", M + Len(l) + Len(chain), asked["rx"])
         /\ \A i \in 1..Len(l) : l[i] = M + i
         /\ \A i \in 1..Len(chain) : chain[i] = M + Len(l) + i
    BY ONLY <1>8 DEF ReqsOK, M
  <1>12. ReqOK(t, "tx", Made(out, "tx"), asked["tx"])
    <2> DEFINE a == Made(out, "tx")
    <2>1. ReqOK(q, "tx", a, asked["tx"])
      BY ONLY <1>11
    <2> HIDE DEF a
    <2>2. ReqOK(t, "tx", a + (IF m[1] = "tx" THEN 1 ELSE 0), asked["tx"]) /\ a \in Nat
      BY ONLY <1>2, <1>3, <2>1, ReqTail DEF t, m
    <2>3. ~(m[1] = "tx")
      BY ONLY <1>3
    <2>4. ReqOK(t, "tx", a, asked["tx"])
      BY ONLY <2>2, <2>3
    <2> QED
      BY ONLY <2>4 DEF a
  <1>13. ReqOK(t, "rx", M + Len(l) + Len(c), asked["rx"])
         /\ m[2] = M + Len(l) + (Len(chain) + 1) /\ Len(l) \in Nat
    <2>0. Len(l) \in Nat
      BY <1>2
    <2>1. /\ ReqOK(t, "rx", (M + Len(l) + Len(chain)) + (IF m[1] = "rx" THEN 1 ELSE 0), asked["rx"])
          /\ m[1] = "rx" => m[2] = (M + Len(l) + Len(chain)) + 1
      BY ONLY <1>2, <1>3, <1>11, ReqTail DEF t, m
    <2>2. (M + Len(l) + Len(chain)) + 1 = M + Len(l) + Len(c)
          /\ (M + Len(l) + Len(chain)) + 1 = M + Len(l) + (Len(chain) + 1)
      BY ONLY <1>6, <1>7, <2>0
    <2> QED
      BY ONLY <1>3, <2>0, <2>1, <2>2
  <1>14. ASSUME NEW i \in 1..Len(c) PROVE c[i] = M + Len(l) + i
    <2>1. CASE i = Len(chain) + 1
      BY ONLY <1>6, <1>13, <2>1
    <2>2. CASE i # Len(chain) + 1
      <3>1. i \in 1..Len(chain)
        BY ONLY <1>6, <2>2, i \in 1..Len(c)
      <3> QED
        BY ONLY <1>6, <1>11, <3>1
    <2> QED
      BY <2>1, <2>2
  <1>15. CASE chain' = c /\ rxcpl_list' = l
    <2>1. ReqsOK(t, c, l, p, asked)
      BY ONLY <1>10, <1>11, <1>12, <1>13, <1>14 DEF ReqsOK
    <2>2. ReqInv' /\ ReqType'
      BY ONLY <1>2, <1>3, <1>4, <1>6, <1>15, <2>1 DEF ReqInv, ReqType
    <2>3. PcType'
      BY <1>1 DEF PcType, HandleRxPayload, Continue
    <2> QED
      BY <1>3, <1>9, <2>2, <2>3, BusStepBase
  <1>16. CASE rxcpl_list' = l \o c /\ chain' = <<>>
    <2> DEFINE k == l \o c
    <2>1. /\ k \in Seq(Id) /\ Len(k) = Len(l) + Len(c)
          /\ \A i \in 1..Len(l) : k[i] = l[i]
          /\ \A i \in 1..Len(c) : k[Len(l)+i] = c[i]
      <3>1. l \in Seq(Id) /\ c \in Seq(Id)
        BY ONLY <1>2, <1>6
      <3> QED
        BY ONLY <3>1
    <2> PICK e \in Seq(Id) : e = <<>> /\ Len(e) = 0
      BY NoElement
    <2> HIDE DEF k
    <2>2. M + Len(k) + Len(e) = M + Len(l) + Len(c)
      BY ONLY <1>6, <1>7, <1>13, <2>1, Len(e) = 0
    <2>3. ASSUME NEW i \in 1..Len(k) PROVE k[i] = M + i
      <3>1. CASE i \in 1..Len(l)
        BY ONLY <1>11, <2>1, <3>1
      <3>2. CASE i \notin 1..Len(l)
        <4> DEFINE j == i - Len(l)
        <4>1. j \in 1..Len(c) /\ i = Len(l) + j /\ M + Len(l) + j = M + i
          BY ONLY <1>6, <1>7, <1>13, <2>1, <3>2, i \in 1..Len(k)
        <4> HIDE DEF j
        <4>2. k[i] = c[j]
          BY ONLY <2>1, <4>1
        <4> QED
          BY ONLY <1>14, <4>1, <4>2
      <3> QED
        BY <3>1, <3>2
    <2>4. ReqsOK(t, e, k, p, asked)
      BY ONLY <1>10, <1>12, <1>13, <2>2, <2>3, Len(e) = 0 DEF ReqsOK
    <2>5. rxcpl_list' = k /\ chain' = e
      BY <1>16 DEF k
    <2>6. ReqInv' /\ ReqType'
      BY ONLY <1>2, <1>3, <1>4, <2>1, <2>4, <2>5, e \in Seq(Id) DEF ReqInv, ReqType
    <2>7. PcType'
      BY <1>1 DEF PcType, HandleRxPayload, Continue
    <2>8. out' = p /\ UNCHANGED <<load, tcm_w, sent, mem, hostVars>>
      BY ONLY <1>3
    <2>9. \A R : OutOK(out, sent, R, mem) /\ Frame(sent, R, mem)
                  => OutOK(out', sent, R, mem)
      BY ONLY <1>9, <2>8
    <2> QED
      BY ONLY BaseInv, <2>6, <2>7, <2>8, <2>9, BusStepBase
  <1> QED
    BY <1>3, <1>15, <1>16

(* The DMA engine reports its oldest DMA.                                  *)
LEMMA DmaDoneType ==
  ASSUME NEW o \in OutType, o.q # <<>>, NEW r \in Rings
  PROVE  LET i == [o EXCEPT !.q = Tail(@)]
             p == [i EXCEPT !.ring[r].availcnt = @ + 1]
         IN  /\ i \in OutType /\ i.q = Tail(o.q) /\ i.flying = o.flying /\ i.ring = o.ring
             /\ p \in OutType /\ p.q = Tail(o.q) /\ p.flying = o.flying
             /\ p.ring[r].availcnt = o.ring[r].availcnt + 1
             /\ p.ring[r].items = o.ring[r].items /\ p.ring[r].epoch = o.ring[r].epoch
             /\ p.ring[r].in_use = o.ring[r].in_use
             /\ p.ring[r].wr_pending = o.ring[r].wr_pending
             /\ \A x \in Rings : x # r => p.ring[x] = o.ring[x]
  <1> DEFINE i == [o EXCEPT !.q = Tail(@)]
             p == [i EXCEPT !.ring[r].availcnt = @ + 1]
  <1>1. /\ o.ring \in [Rings -> RingState] /\ o.q \in Seq(QEntry)
        /\ Tail(o.q) \in Seq(QEntry)
    BY StateIs, EmptySeq
  <1>2. i = [o EXCEPT !.q = Tail(o.q)]
    OBVIOUS
  <1>3. i \in OutType /\ i.q = Tail(o.q) /\ i.flying = o.flying /\ i.ring = o.ring
    BY ONLY <1>1, <1>2, o \in OutType DEF OutType
  <1> HIDE DEF i
  <1>4. p \in OutType
    <2> DEFINE a == i.ring[r].availcnt + 1
    <2>1. p = [i EXCEPT !.ring[r].availcnt = a]
      OBVIOUS
    <2>2. a \in Nat
      BY <1>3, StateIs
    <2> HIDE DEF a, p
    <2> DEFINE t == [i.ring[r] EXCEPT !.availcnt = a]
               u == [i.ring EXCEPT ![r] = t]
    <2>3. p = [i EXCEPT !.ring = u]
      BY ONLY <1>3, <2>1 DEF OutType
    <2>4. i.ring \in [Rings -> RingState] /\ i.ring[r] \in RingState
      BY <1>3, StateIs
    <2>5. t \in RingState
      BY ONLY <2>2, <2>4 DEF RingState
    <2> HIDE DEF t
    <2>6. u \in [Rings -> RingState]
      BY ONLY <2>4, <2>5
    <2> HIDE DEF u
    <2> QED
      BY ONLY <1>3, <2>3, <2>6 DEF OutType
  <1>5. p.q = i.q /\ p.flying = i.flying
    BY ONLY <1>3 DEF OutType
  <1>6. /\ p.ring[r].availcnt = i.ring[r].availcnt + 1
        /\ p.ring[r].items = i.ring[r].items /\ p.ring[r].epoch = i.ring[r].epoch
        /\ p.ring[r].in_use = i.ring[r].in_use
        /\ p.ring[r].wr_pending = i.ring[r].wr_pending
        /\ \A x \in Rings : x # r => p.ring[x] = i.ring[x]
    BY ONLY <1>3, r \in Rings DEF OutType, RingState
  <1> HIDE DEF p
  <1>7. /\ p.ring[r].availcnt = o.ring[r].availcnt + 1
        /\ p.ring[r].items = o.ring[r].items /\ p.ring[r].epoch = o.ring[r].epoch
        /\ p.ring[r].in_use = o.ring[r].in_use
        /\ p.ring[r].wr_pending = o.ring[r].wr_pending
        /\ \A x \in Rings : x # r => p.ring[x] = o.ring[x]
        /\ p.q = Tail(o.q) /\ p.flying = o.flying
    BY ONLY <1>3, <1>5, <1>6
  <1> QED
    BY ONLY <1>3, <1>4, <1>7 DEF p, i

(* The other rings do not see it.                                          *)
LEMMA DmaOther ==
  ASSUME NEW o \in OutType, NEW p \in OutType, o.q # <<>>, NEW r \in Rings,
         NEW S, NEW R, NEW m, OutRing(o, r, S, R, m), o.q[1].ring # r,
         p.q = Tail(o.q), p.flying = o.flying, p.ring[r] = o.ring[r]
  PROVE  OutRing(p, r, S, R, m)
  <1> DEFINE W == Passed(o, r)
  <1>1. /\ W \in S..(R + MaxItem - 1) /\ InSlot(W + 1, o.ring[r].wr_pending)
        /\ DmaOK(o.q, r, S, W) /\ BufOK(o.ring[r], o.q, r) /\ FlyOK(o.flying, r, W, m)
        /\ \A i \in 1..Len(o.ring[r].items) : o.ring[r].items[i] = Msg(W + i)
    BY DEF OutRing
  <1>2. Passed(p, r) = W
    BY DEF Passed, Made
  <1> HIDE DEF W
  <1>3. o.q \in Seq(QEntry)
    BY StateIs
  <1>4. DmaOK(Tail(o.q), r, S, W)
    <2>1. DmaOK(Tail(o.q), r, S + (IF o.q[1].ring = r THEN o.q[1].len ELSE 0), W)
      BY ONLY <1>1, <1>3, o.q # <<>>, DmaTail
    <2>2. S \in Nat
      BY ONLY <1>1, <1>3, DmaTotal
    <2>3. S + (IF o.q[1].ring = r THEN o.q[1].len ELSE 0) = S
      BY ONLY <2>2, o.q[1].ring # r
    <2> QED
      BY ONLY <2>1, <2>3
  <1>5. CountOf(Tail(o.q), DmaOf(r)) = CountOf(o.q, DmaOf(r))
    <2>1. CountOf(o.q, DmaOf(r)) = (IF o.q[1] \in DmaOf(r) THEN 1 ELSE 0)
                                     + CountOf(Tail(o.q), DmaOf(r))
      BY ONLY <1>3, o.q # <<>>, CountTail
    <2>2. o.q[1] \notin DmaOf(r)
      BY DEF DmaOf
    <2>3. Tail(o.q) \in Seq(QEntry)
      BY ONLY <1>3, o.q # <<>>, EmptySeq
    <2>4. CountOf(Tail(o.q), DmaOf(r)) \in Nat
      BY ONLY <2>3, CountNat
    <2> QED
      BY ONLY <2>1, <2>2, <2>4
  <1>6. BufOK(p.ring[r], p.q, r)
    BY ONLY <1>1, <1>5, p.q = Tail(o.q), p.ring[r] = o.ring[r] DEF BufOK
  <1> QED
    BY ONLY <1>1, <1>2, <1>4, <1>6, p.q = Tail(o.q), p.flying = o.flying,
            p.ring[r] = o.ring[r] DEF OutRing

LEMMA PayloadDone ==
  ASSUME NEW o, NEW S, NEW R, NEW m, OutOK(o, S, R, m), o.q # <<>>, o.q[1].ring \notin Rings
  PROVE  LET i == [o EXCEPT !.q = Tail(@)] IN OutOK(i, S, R, m) /\ SameMade(o, i)
  <1> DEFINE i == [o EXCEPT !.q = Tail(@)]
  <1>1. o \in OutType /\ \A x \in Rings : OutRing(o, x, S[x], R[x], m[x])
    BY DEF OutOK
  <1>2. "tx" \in Rings
    BY DEF Rings
  <1>3. i \in OutType /\ i.q = Tail(o.q) /\ i.flying = o.flying /\ i.ring = o.ring
    BY ONLY <1>1, <1>2, o.q # <<>>, DmaDoneType
  <1> HIDE DEF i
  <1>4. ASSUME NEW x \in Rings PROVE OutRing(i, x, S[x], R[x], m[x])
    <2>1. o.q[1].ring # x
      OBVIOUS
    <2>2. i.ring[x] = o.ring[x] /\ OutRing(o, x, S[x], R[x], m[x])
      BY ONLY <1>1, <1>3, x \in Rings
    <2> QED
      BY ONLY <1>1, <1>3, <2>1, <2>2, x \in Rings, o.q # <<>>, DmaOther
  <1>5. SameMade(o, i)
    BY ONLY <1>3 DEF SameMade, Made
  <1> QED
    BY ONLY <1>3, <1>4, <1>5 DEF OutOK, i

LEMMA MessageDone ==
  ASSUME NEW o, NEW S, NEW R, NEW m, OutOK(o, S, R, m), Frame(S, R, m), o.q # <<>>,
         NEW r \in Rings, o.q[1].ring = r, NEW w, InSlot(S[r] + 1, w)
  PROVE  LET n == o.q[1].len
             i == [o EXCEPT !.q = Tail(@)]
             p == [i EXCEPT !.ring[r].availcnt = @ + 1]
             T == [S EXCEPT ![r] = @ + n]
         IN  /\ OutOK(p, T, R, m) /\ SameMade(o, p) /\ T[r] = S[r] + n /\ n \in Nat
             /\ T \in [Rings -> Nat] /\ InSlot(T[r] + 1, ADVANCE(w, n, MaxItem))
  <1> DEFINE n == o.q[1].len
             i == [o EXCEPT !.q = Tail(@)]
             p == [i EXCEPT !.ring[r].availcnt = @ + 1]
             T == [S EXCEPT ![r] = @ + n]
             W == Passed(o, r)
  <1>1. o \in OutType /\ \A x \in Rings : OutRing(o, x, S[x], R[x], m[x])
    BY DEF OutOK
  <1>2. /\ p \in OutType /\ p.q = Tail(o.q) /\ p.flying = o.flying
        /\ p.ring[r].availcnt = o.ring[r].availcnt + 1
        /\ p.ring[r].items = o.ring[r].items /\ p.ring[r].epoch = o.ring[r].epoch
        /\ p.ring[r].in_use = o.ring[r].in_use
        /\ p.ring[r].wr_pending = o.ring[r].wr_pending
        /\ \A x \in Rings : x # r => p.ring[x] = o.ring[x]
    BY ONLY <1>1, r \in Rings, o.q # <<>>, DmaDoneType
  <1> HIDE DEF p
  <1>3. /\ o.q \in Seq(QEntry) /\ o.ring[r].availcnt \in Nat /\ o.ring[r].in_use \in BOOLEAN
        /\ o.q[1] \in QEntry /\ Tail(o.q) \in Seq(QEntry)
    <2>1. /\ o.q \in Seq(QEntry) /\ o.ring[r].availcnt \in Nat
          /\ o.ring[r].in_use \in BOOLEAN
      BY <1>1, StateIs
    <2> QED
      BY ONLY <2>1, o.q # <<>>, EmptySeq
  <1>4. n \in 0..MaxItem-1 /\ n \in Nat
    BY <1>3, Sizes DEF QEntry
  <1>5. /\ W \in S[r]..(R[r] + MaxItem - 1) /\ InSlot(W + 1, o.ring[r].wr_pending)
        /\ DmaOK(o.q, r, S[r], W) /\ BufOK(o.ring[r], o.q, r) /\ FlyOK(o.flying, r, W, m[r])
        /\ \A k \in 1..Len(o.ring[r].items) : o.ring[r].items[k] = Msg(W + k)
    BY <1>1 DEF OutRing
  <1>6. Made(p, r) = Made(o, r) /\ Passed(p, r) = W
    BY <1>2 DEF Made, Passed
  <1> HIDE DEF W
  <1>7. S \in [Rings -> Nat] /\ S[r] \in Nat /\ R[r] \in Nat /\ MaxItem \in Nat
    BY Sizes DEF Frame
  <1>8. T \in [Rings -> Nat] /\ T[r] = S[r] + n /\ \A x \in Rings : x # r => T[x] = S[x]
    BY ONLY <1>4, <1>7, r \in Rings
  <1> HIDE DEF T, n
  <1>a. n = o.q[1].len
    BY DEF n
  <1>9. /\ DmaOK(Tail(o.q), r, S[r] + n, W) /\ S[r] + n <= W /\ W \in Nat
        /\ \E s \in 0..MaxItem-1 : InSlot(S[r] + 1, s) /\ s + n <= MaxItem
    <2> DEFINE l == IF o.q[1].ring = r THEN o.q[1].len ELSE 0
    <2>1. l = n
      BY ONLY <1>a, o.q[1].ring = r
    <2>2. /\ DmaOK(Tail(o.q), r, S[r] + l, W) /\ S[r] + l <= W /\ W \in Nat
          /\ o.q[1].ring = r =>
               \E s \in 0..MaxItem-1 : InSlot(S[r] + 1, s) /\ s + o.q[1].len <= MaxItem
      BY ONLY <1>3, <1>5, o.q # <<>>, DmaTail
    <2> HIDE DEF l
    <2> QED
      BY ONLY <1>a, <2>1, <2>2, o.q[1].ring = r
  <1>10. InSlot(T[r] + 1, ADVANCE(w, n, MaxItem))
    <2>1. PICK s \in 0..MaxItem-1 : InSlot(S[r] + 1, s) /\ s + n <= MaxItem
      BY <1>9
    <2>2. s = w
      BY <2>1, SlotUnique
    <2>3. InSlot((S[r] + 1) + n, ADVANCE(w, n, MaxItem))
      BY ONLY <1>4, <2>1, <2>2, SlotOn
    <2>4. (S[r] + 1) + n = T[r] + 1
      BY ONLY <1>4, <1>7, <1>8
    <2> QED
      BY ONLY <2>3, <2>4
  <1>11. BufOK(p.ring[r], p.q, r)
    <2> DEFINE c == CountOf(Tail(o.q), DmaOf(r))
    <2>1. CountOf(o.q, DmaOf(r)) = (IF o.q[1] \in DmaOf(r) THEN 1 ELSE 0) + c
      BY ONLY <1>3, o.q # <<>>, CountTail
    <2>2. o.q[1] \in DmaOf(r)
      BY <1>3 DEF DmaOf, QEntry
    <2>3. c \in Nat
      BY ONLY <1>3, CountNat
    <2> HIDE DEF c
    <2>4. o.ring[r].availcnt + (IF o.ring[r].in_use THEN 1 ELSE 0) + (1 + c) = BufCnt
      BY ONLY <1>5, <2>1, <2>2 DEF BufOK
    <2>5. p.ring[r].availcnt + (IF p.ring[r].in_use THEN 1 ELSE 0) + c = BufCnt
      <3>1. /\ o.ring[r].availcnt \in Nat /\ o.ring[r].in_use \in BOOLEAN /\ c \in Nat
            /\ p.ring[r].availcnt = o.ring[r].availcnt + 1
            /\ p.ring[r].in_use = o.ring[r].in_use
        BY ONLY <1>2, <1>3, <2>3
      <3>2. CASE o.ring[r].in_use
        <4>1. o.ring[r].availcnt + 1 + (1 + c) = BufCnt
          BY ONLY <2>4, <3>2
        <4>2. p.ring[r].availcnt + 1 + c = BufCnt
          BY ONLY <3>1, <4>1
        <4> QED
          BY ONLY <3>1, <3>2, <4>2
      <3>3. CASE ~o.ring[r].in_use
        <4>1. o.ring[r].availcnt + 0 + (1 + c) = BufCnt
          BY ONLY <2>4, <3>3
        <4>2. p.ring[r].availcnt + 0 + c = BufCnt
          BY ONLY <3>1, <4>1
        <4> QED
          BY ONLY <3>1, <3>3, <4>2
      <3> QED
        BY <3>2, <3>3
    <2>6. p.ring[r].in_use <=> p.ring[r].items # <<>>
      BY ONLY <1>2, <1>5 DEF BufOK
    <2> QED
      BY ONLY <1>2, <2>5, <2>6 DEF BufOK, c
  <1>12. OutRing(p, r, T[r], R[r], m[r])
    <2>1. W \in T[r]..(R[r] + MaxItem - 1)
      BY ONLY <1>4, <1>5, <1>7, <1>8, <1>9
    <2> QED
      BY ONLY <1>2, <1>5, <1>6, <1>8, <1>9, <1>11, <2>1 DEF OutRing
  <1>13. ASSUME NEW x \in Rings, x # r
         PROVE  OutRing(p, x, T[x], R[x], m[x]) /\ Made(p, x) = Made(o, x)
    <2>1. OutRing(o, x, S[x], R[x], m[x]) /\ p.ring[x] = o.ring[x] /\ T[x] = S[x]
      BY ONLY <1>1, <1>2, <1>8, <1>13
    <2>2. o.q[1].ring # x
      BY <1>13
    <2>3. OutRing(p, x, S[x], R[x], m[x])
      BY ONLY <1>1, <1>2, <2>1, <2>2, x \in Rings, o.q # <<>>, DmaOther
    <2>4. Made(p, x) = Made(o, x)
      BY ONLY <2>1 DEF Made
    <2> QED
      BY ONLY <2>1, <2>3, <2>4
  <1>14. OutOK(p, T, R, m)
    BY ONLY <1>2, <1>12, <1>13 DEF OutOK
  <1>15. SameMade(o, p)
    BY ONLY <1>6, <1>13, r \in Rings DEF SameMade
  <1> QED
    BY ONLY <1>4, <1>8, <1>10, <1>14, <1>15 DEF p, T, n

(* pciedev_handle_d2h_dma.                                                 *)
LEMMA DmaBase ==
  ASSUME BaseInv, HandleD2HDma PROVE BaseInv'
  <1> DEFINE e == out.q[1]
             o == [out EXCEPT !.q = Tail(@)]
             pp == [o EXCEPT !.ring[e.ring].availcnt = @ + 1]
  <1>1. ReqType /\ HostType /\ ReqInv /\ RingInv
    BY DEF BaseInv
  <1>2. PICK R \in [Rings -> Nat] :
          OutOK(out, sent, R, mem) /\ \A r \in Rings : HostOK(r, R[r])
    BY <1>1 DEF RingInv
  <1>3. Frame(sent, R, mem)
    BY <1>1, <1>2, FrameIs
  <1>4. out.q # <<>> /\ UNCHANGED <<reqVars, mem, hostVars>>
    BY DEF HandleD2HDma
  <1>5. PcType'
    BY DEF HandleD2HDma, StartSend, PcType
  <1>6. ReqType'
    BY <1>1, <1>4 DEF ReqType, reqVars
  <1>7. CASE e.ring \notin Rings
    <2>1. /\ out' = RetryPending(RetryPending(o, "rx"), "tx")
          /\ UNCHANGED <<tcm_w, sent>>
      BY <1>7 DEF HandleD2HDma, StartSend
    <2>2. OutOK(o, sent, R, mem) /\ SameMade(out, o)
      BY ONLY <1>2, <1>4, <1>7, PayloadDone
    <2> HIDE DEF o, e
    <2>3. OutOK(out', sent, R, mem) /\ SameMade(o, out')
      BY ONLY <1>3, <2>1, <2>2, StartKeeps
    <2>4. SameMade(out, out')
      BY ONLY <2>2, <2>3 DEF SameMade
    <2>5. HostType' /\ \A r \in Rings : \A X : HostOK(r, X) => HostOK(r, X)'
      BY <1>1, <1>4, <2>1, HostSame DEF reqVars
    <2>6. RingInv'
      <3>1. OutOK(out', sent', R, mem')
        BY ONLY <1>4, <2>1, <2>3
      <3>2. \A r \in Rings : HostOK(r, R[r])'
        BY <1>2, <2>5
      <3> QED
        BY <3>1, <3>2 DEF RingInv
    <2>7. ReqInv'
      <3>1. ReqsOK(d2h_req_q, chain, rxcpl_list, out', asked)
        BY <1>1, <2>4, ReqsSame DEF ReqInv
      <3> QED
        BY <1>4, <3>1 DEF ReqInv, reqVars
    <2> QED
      BY <1>5, <1>6, <2>5, <2>6, <2>7 DEF BaseInv
  <1>8. CASE e.ring \in Rings
    <2> DEFINE r == e.ring
               n == e.len
               T == [sent EXCEPT ![r] = @ + n]
    <2>1. /\ out' = RetryPending(RetryPending(pp, "rx"), "tx")
          /\ tcm_w' = [tcm_w EXCEPT ![r] = ADVANCE(@, n, MaxItem)] /\ sent' = T
      BY <1>8 DEF HandleD2HDma, StartSend
    <2>2. InSlot(sent[r] + 1, tcm_w[r]) /\ tcm_w[r] \in 0..MaxItem-1
      BY <1>1, <1>2, <1>8, HostIs DEF HostOK
    <2>3. /\ OutOK(pp, T, R, mem) /\ SameMade(out, pp) /\ T[r] = sent[r] + n /\ n \in Nat
          /\ T \in [Rings -> Nat] /\ InSlot(T[r] + 1, ADVANCE(tcm_w[r], n, MaxItem))
      BY ONLY <1>2, <1>3, <1>4, <1>8, <2>2, MessageDone
    <2> HIDE DEF pp, o
    <2>a. sent \in [Rings -> Nat] /\ tcm_w \in [Rings -> 0..MaxItem-1] /\ MaxItem \in Nat
      BY <1>1, Sizes DEF HostType
    <2>4. \A x \in Rings : x # r => T[x] = sent[x] /\ tcm_w'[x] = tcm_w[x]
      BY ONLY <2>1, <2>a, <1>8
    <2>5. tcm_w'[r] = ADVANCE(tcm_w[r], n, MaxItem)
          /\ tcm_w' \in [Rings -> 0..MaxItem-1]
      <3>1. ADVANCE(tcm_w[r], n, MaxItem) \in 0..MaxItem-1
        BY ONLY <2>2, <2>3, <2>a DEF ADVANCE
      <3> QED
        BY ONLY <2>1, <2>a, <3>1, <1>8
    <2> HIDE DEF T, n, r
    <2>b. r \in Rings
      BY <1>8 DEF r
    <2>6. \A x \in Rings : sent[x] <= T[x] /\ T[x] \in Nat /\ sent[x] \in Nat
      BY ONLY <2>3, <2>4, <2>a, <2>b
    <2>7. Frame(T, R, mem)
      <3>1. \A x \in Rings : R[x] <= T[x]
        <4>1. \A x \in Rings : R[x] \in Nat /\ R[x] <= sent[x]
          BY ONLY <1>3 DEF Frame
        <4> QED
          BY ONLY <2>6, <4>1
      <3> QED
        BY ONLY <1>3, <2>3, <3>1 DEF Frame
    <2>8. OutOK(out', T, R, mem) /\ SameMade(pp, out')
      BY ONLY <2>1, <2>3, <2>7, StartKeeps
    <2>9. SameMade(out, out')
      BY ONLY <2>3, <2>8 DEF SameMade
    <2>10. HostType'
      BY <1>1, <1>4, <2>1, <2>3, <2>5 DEF HostType, hostVars, reqVars
    <2>11. ASSUME NEW x \in Rings PROVE HostOK(x, R[x])'
      <3>1. /\ R[x] <= Len(got[x]) /\ InSlot(R[x] + 1, tcm_r[x])
            /\ InSlot(sent[x] + 1, tcm_w[x])
            /\ Len(got[x]) + block[x].left <= sent[x]
            /\ InSlot(Len(got[x]) + block[x].left + 1, r_offset[x])
            /\ block[x].left # 0 => /\ block[x].at + block[x].left <= MaxItem
                                    /\ InSlot(Len(got[x]) + 1, block[x].at)
            /\ seqnum[x] = Modulo + 1 + Len(got[x])
        BY <1>2 DEF HostOK
      <3>2. Len(got[x]) + block[x].left <= T[x]
        <4>1. Len(got[x]) \in Nat /\ block[x].left \in 0..MaxItem-1
          BY <1>1, HostIs
        <4>2. /\ sent[x] <= T[x] /\ T[x] \in Nat /\ sent[x] \in Nat /\ MaxItem \in Nat
              /\ Len(got[x]) + block[x].left <= sent[x]
          BY ONLY <2>6, <2>a, <3>1, x \in Rings
        <4> QED
          BY ONLY <4>1, <4>2
      <3>3. InSlot(T[x] + 1, tcm_w'[x])
        <4>1. CASE x = r
          BY ONLY <2>3, <2>5, <4>1
        <4>2. CASE x # r
          BY ONLY <2>4, <3>1, <4>2, x \in Rings
        <4> QED
          BY <4>1, <4>2
      <3>4. sent' = T /\ UNCHANGED hostVars
        BY <1>4, <2>1
      <3> QED
        BY ONLY <3>1, <3>2, <3>3, <3>4 DEF HostOK, hostVars
    <2>12. RingInv'
      <3>1. OutOK(out', sent', R, mem')
        BY ONLY <1>4, <2>1, <2>8
      <3> QED
        BY <3>1, <2>11 DEF RingInv
    <2>13. ReqInv'
      <3>1. ReqsOK(d2h_req_q, chain, rxcpl_list, out', asked)
        BY <1>1, <2>9, ReqsSame DEF ReqInv
      <3> QED
        BY <1>4, <3>1 DEF ReqInv, reqVars
    <2> QED
      BY <1>5, <1>6, <2>10, <2>12, <2>13 DEF BaseInv
  <1> QED
    BY <1>7, <1>8

(* A message reaches host memory.                                          *)
LEMMA LandBase ==
  ASSUME BaseInv, Land PROVE BaseInv'
  <1>1. ReqType /\ HostType /\ ReqInv /\ RingInv /\ PcType
    BY DEF BaseInv
  <1>2. PICK R \in [Rings -> Nat] :
          OutOK(out, sent, R, mem) /\ \A r \in Rings : HostOK(r, R[r])
    BY <1>1 DEF RingInv
  <1>3. PICK f \in out.flying :
          /\ \A g \in out.flying :
               g.ring = f.ring /\ g.slot = f.slot => f.msg.id <= g.msg.id
          /\ mem' = [mem EXCEPT ![f.ring][f.slot] = f.msg]
          /\ out' = [out EXCEPT !.flying = @ \ {f}]
          /\ UNCHANGED <<reqVars, pcVars, tcm_w, sent, hostVars>>
    BY DEF Land
  <1> DEFINE fly == out.flying
             p == out'
             r == f.ring
  <1>4. out \in OutType /\ \A x \in Rings : OutRing(out, x, sent[x], R[x], mem[x])
    BY <1>2 DEF OutOK
  <1>5. fly \subseteq Flight /\ out.q \in Seq(QEntry)
    BY <1>4 DEF OutType
  <1>6. r \in Rings /\ f.slot \in 0..MaxItem-1 /\ f.msg \in Message
    BY <1>5 DEF Flight
  <1>7. p.ring = out.ring /\ p.q = out.q /\ p.flying = fly \ {f} /\ p \in OutType
    <2>1. out' = [out EXCEPT !.flying = fly \ {f}] /\ fly \ {f} \subseteq Flight
      BY <1>3, <1>5
    <2> QED
      BY ONLY <1>4, <2>1 DEF OutType
  <1>8. \A x \in Rings : mem[x] \in [0..MaxItem-1 -> Message]
    BY <1>1, HostIs
  <1>9. /\ mem' \in [Rings -> [0..MaxItem-1 -> Message]]
        /\ mem'[r] = [mem[r] EXCEPT ![f.slot] = f.msg]
        /\ \A x \in Rings : x # r => mem'[x] = mem[x]
    <2> DEFINE g == [mem[r] EXCEPT ![f.slot] = f.msg]
    <2>1. mem' = [mem EXCEPT ![r] = g] /\ mem \in [Rings -> [0..MaxItem-1 -> Message]]
      BY <1>1, <1>3 DEF HostType
    <2>2. g \in [0..MaxItem-1 -> Message]
      BY ONLY <1>6, <1>8
    <2> HIDE DEF g, r
    <2>3. /\ mem' \in [Rings -> [0..MaxItem-1 -> Message]] /\ mem'[r] = g
          /\ \A x \in Rings : x # r => mem'[x] = mem[x]
      BY ONLY <1>6, <2>1, <2>2
    <2> QED
      BY ONLY <2>3 DEF g, r
  <1> HIDE DEF p
  <1>10. ASSUME NEW x \in Rings
         PROVE  OutRing(p, x, sent[x], R[x], mem'[x]) /\ Made(p, x) = Made(out, x)
    <2> DEFINE W == Passed(out, x)
    <2>1. /\ W \in sent[x]..(R[x] + MaxItem - 1) /\ InSlot(W + 1, out.ring[x].wr_pending)
          /\ DmaOK(out.q, x, sent[x], W) /\ BufOK(out.ring[x], out.q, x)
          /\ FlyOK(fly, x, W, mem[x])
          /\ \A i \in 1..Len(out.ring[x].items) : out.ring[x].items[i] = Msg(W + i)
      BY <1>4 DEF OutRing
    <2>2. Passed(p, x) = W /\ Made(p, x) = Made(out, x)
      BY ONLY <1>7 DEF Passed, Made
    <2> HIDE DEF W
    <2>3. W \in Nat
      BY ONLY <1>5, <2>1, DmaTotal
    <2>4. FlyOK(fly \ {f}, x, W, mem'[x])
      <3>1. CASE x = r
        <4>1. FlyOK(fly \ {f}, r, W, [mem[r] EXCEPT ![f.slot] = f.msg])
          <5>1. FlyOK(fly, r, W, mem[r])
            BY <2>1, <3>1
          <5>2. \A g \in fly : g.ring = f.ring /\ g.slot = f.slot => f.msg.id <= g.msg.id
            BY <1>3
          <5> QED
            BY ONLY <1>5, <1>6, <1>8, <2>3, <5>1, <5>2, f \in fly, FlyLand
        <4> QED
          BY ONLY <1>9, <3>1, <4>1
      <3>2. CASE x # r
        <4>1. mem'[x] = mem[x]
          BY ONLY <1>9, <3>2, x \in Rings
        <4>2. FlyOK(fly \ {f}, x, W, mem[x])
          BY <2>1, <3>2 DEF FlyOK
        <4> QED
          BY ONLY <4>1, <4>2
      <3> QED
        BY <3>1, <3>2
    <2> QED
      BY ONLY <1>7, <2>1, <2>2, <2>4 DEF OutRing
  <1>11. OutOK(p, sent, R, mem')
    BY ONLY <1>7, <1>10 DEF OutOK
  <1>12. SameMade(out, p)
    BY ONLY <1>10 DEF SameMade
  <1>13. HostType'
    BY <1>1, <1>3, <1>9 DEF HostType, hostVars, reqVars
  <1>14. RingInv'
    <2>1. OutOK(out', sent', R, mem')
      BY <1>3, <1>11 DEF p
    <2>2. \A x \in Rings : HostOK(x, R[x])'
      BY <1>2, <1>3 DEF HostOK, hostVars
    <2> QED
      BY <2>1, <2>2 DEF RingInv
  <1>15. ReqInv'
    <2>1. ReqsOK(d2h_req_q, chain, rxcpl_list, p, asked)
      BY <1>1, <1>12, ReqsSame DEF ReqInv
    <2> QED
      BY <1>3, <2>1 DEF ReqInv, reqVars, p
  <1>16. ReqType'
    BY <1>1, <1>3 DEF ReqType, reqVars
  <1>17. PcType'
    BY <1>1, <1>3 DEF PcType, pcVars
  <1> QED
    BY <1>13, <1>14, <1>15, <1>16, <1>17 DEF BaseInv

-----------------------------------------------------------------------------
(* The host's steps.                                                       *)

(* A host step on ring r.                                                  *)
LEMMA HostBase ==
  ASSUME BaseInv, NEW r \in Rings,
         UNCHANGED <<reqVars, out, pcVars, tcm_w, sent, mem>>, HostType',
         UNCHANGED <<tcm_r, r_offset, block, seqnum, got>>
           \/ \A x \in Rings : x # r =>
                /\ tcm_r'[x] = tcm_r[x] /\ r_offset'[x] = r_offset[x]
                /\ block'[x] = block[x] /\ seqnum'[x] = seqnum[x] /\ got'[x] = got[x],
         \A R \in Nat : HostOK(r, R) =>
           \E Q \in Nat : R <= Q /\ HostOK(r, Q)'
  PROVE  BaseInv'
  <1>1. ReqType /\ HostType /\ ReqInv /\ RingInv /\ PcType
    BY DEF BaseInv
  <1>2. PICK R \in [Rings -> Nat] :
          OutOK(out, sent, R, mem) /\ \A x \in Rings : HostOK(x, R[x])
    BY <1>1 DEF RingInv
  <1>3. PICK q \in Nat : R[r] <= q /\ HostOK(r, q)'
    <2>1. R[r] \in Nat /\ HostOK(r, R[r])
      BY <1>2
    <2> QED
      BY <2>1
  <1> DEFINE Q == [R EXCEPT ![r] = q]
  <1>4. Q \in [Rings -> Nat] /\ Q[r] = q /\ \A x \in Rings : x # r => Q[x] = R[x]
    OBVIOUS
  <1> HIDE DEF Q
  <1>5. OutOK(out, sent, Q, mem)
    <2>1. out \in OutType /\ \A x \in Rings : OutRing(out, x, sent[x], R[x], mem[x])
      BY <1>2 DEF OutOK
    <2>2. \A x \in Rings : R[x] <= Q[x] /\ R[x] \in Nat /\ Q[x] \in Nat
      BY <1>3, <1>4
    <2>3. ASSUME NEW x \in Rings PROVE OutRing(out, x, sent[x], Q[x], mem[x])
      <3> DEFINE W == Passed(out, x)
      <3>1. /\ W \in sent[x]..(R[x] + MaxItem - 1)
            /\ InSlot(W + 1, out.ring[x].wr_pending)
            /\ DmaOK(out.q, x, sent[x], W) /\ BufOK(out.ring[x], out.q, x)
            /\ FlyOK(out.flying, x, W, mem[x])
            /\ \A i \in 1..Len(out.ring[x].items) : out.ring[x].items[i] = Msg(W + i)
        BY <2>1 DEF OutRing
      <3>2. sent[x] \in Nat /\ MaxItem \in Nat
        BY <1>1, HostIs, Sizes
      <3> HIDE DEF W
      <3>3. W \in sent[x]..(Q[x] + MaxItem - 1)
        <4>1. R[x] <= Q[x] /\ R[x] \in Nat /\ Q[x] \in Nat
          BY <2>2
        <4> QED
          BY ONLY <3>1, <3>2, <4>1
      <3> QED
        BY ONLY <3>1, <3>3 DEF OutRing, W
    <2> QED
      BY ONLY <2>1, <2>3 DEF OutOK
  <1>6. ASSUME NEW x \in Rings PROVE HostOK(x, Q[x])'
    <2>1. CASE x = r
      BY <1>3, <1>4, <2>1
    <2>2. CASE x # r
      <3>1. Q[x] = R[x] /\ HostOK(x, R[x])
        BY <1>2, <1>4, <2>2
      <3>2. /\ tcm_r'[x] = tcm_r[x] /\ r_offset'[x] = r_offset[x]
            /\ block'[x] = block[x] /\ seqnum'[x] = seqnum[x] /\ got'[x] = got[x]
            /\ tcm_w' = tcm_w /\ sent' = sent
        BY <2>2
      <3>3. HostOK(x, R[x])'
        BY ONLY <3>1, <3>2 DEF HostOK
      <3> QED
        BY <1>4, <2>2, <3>3
    <2> QED
      BY <2>1, <2>2
  <1>7. RingInv'
    <2>1. OutOK(out', sent', Q, mem')
      BY <1>5
    <2> QED
      BY <1>4, <1>6, <2>1 DEF RingInv
  <1>8. ReqType' /\ PcType' /\ ReqInv'
    BY <1>1 DEF ReqType, PcType, ReqInv, reqVars, pcVars
  <1> QED
    BY <1>7, <1>8 DEF BaseInv

(* prot_upd_read_idx.                                                      *)
LEMMA UpdBase ==
  ASSUME BaseInv, NEW r \in Rings, UpdReadIdx(r) PROVE BaseInv'
  <1>1. HostType
    BY DEF BaseInv
  <1>2. /\ block[r].left = 0 /\ tcm_r' = [tcm_r EXCEPT ![r] = r_offset[r]]
        /\ UNCHANGED <<reqVars, out, pcVars, tcm_w, sent, mem, r_offset, block,
                       seqnum, got, timeouts>>
    BY DEF UpdReadIdx
  <1>3. /\ tcm_r \in [Rings -> 0..MaxItem-1] /\ r_offset[r] \in 0..MaxItem-1
        /\ Len(got[r]) \in Nat
    BY <1>1, HostIs DEF HostType
  <1>4. /\ tcm_r' \in [Rings -> 0..MaxItem-1] /\ tcm_r'[r] = r_offset[r]
        /\ \A x \in Rings : x # r => tcm_r'[x] = tcm_r[x]
    BY ONLY <1>2, <1>3
  <1>5. HostType'
    BY <1>1, <1>2, <1>4 DEF HostType, reqVars
  <1> PICK g \in Nat : g = Len(got[r])
    BY <1>3
  <1>6. ASSUME NEW R \in Nat, HostOK(r, R) PROVE R <= g /\ HostOK(r, g)'
    <2>1. /\ R <= Len(got[r]) /\ InSlot(sent[r] + 1, tcm_w[r])
          /\ Len(got[r]) + block[r].left <= sent[r]
          /\ InSlot(Len(got[r]) + block[r].left + 1, r_offset[r])
          /\ block[r].left # 0 => /\ block[r].at + block[r].left <= MaxItem
                                  /\ InSlot(Len(got[r]) + 1, block[r].at)
          /\ seqnum[r] = Modulo + 1 + Len(got[r])
      BY <1>6 DEF HostOK
    <2>2. Len(got[r]) + block[r].left + 1 = Len(got[r]) + 1 /\ Len(got[r]) <= Len(got[r])
      BY ONLY <1>2, <1>3
    <2>3. InSlot(Len(got[r]) + 1, tcm_r'[r])
      BY ONLY <1>4, <2>1, <2>2
    <2> QED
      BY ONLY <1>2, <2>1, <2>2, <2>3, g = Len(got[r]) DEF HostOK
  <1>7. \A R \in Nat : HostOK(r, R) => \E Q \in Nat : R <= Q /\ HostOK(r, Q)'
    BY <1>6
  <1> QED
    BY ONLY BaseInv, r \in Rings, <1>2, <1>4, <1>5, <1>7, HostBase

(* prot_get_src_addr.                                                      *)
LEMMA GetBlockBase ==
  ASSUME BaseInv, NEW r \in Rings, GetBlock(r) PROVE BaseInv'
  <1> DEFINE g == Len(got[r])
             avail == READ_AVAIL_SPACE(tcm_w[r], r_offset[r], MaxItem)
             b == [at |-> r_offset[r], left |-> avail]
  <1>1. HostType /\ RingInv
    BY DEF BaseInv
  <1>2. /\ block[r].left = 0 /\ tcm_r[r] = r_offset[r]
        /\ block' = [block EXCEPT ![r] = b]
        /\ r_offset' = [r_offset EXCEPT ![r] = ADVANCE(@, avail, MaxItem)]
        /\ UNCHANGED <<reqVars, out, pcVars, tcm_w, sent, mem, tcm_r, seqnum, got,
                       timeouts>>
    BY DEF GetBlock
  <1>3. /\ r_offset \in [Rings -> 0..MaxItem-1] /\ r_offset[r] \in 0..MaxItem-1
        /\ block \in [Rings -> [at : 0..MaxItem, left : 0..MaxItem-1]]
        /\ g \in Nat /\ sent[r] \in Nat /\ tcm_w[r] \in 0..MaxItem-1
        /\ MaxItem \in Nat /\ MaxItem >= 2
    BY <1>1, HostIs, Sizes DEF HostType
  <1>4. /\ avail \in 0..MaxItem-1 /\ r_offset[r] + avail <= MaxItem /\ avail \in Nat
        /\ avail <= NTXPACTIVE(r_offset[r], tcm_w[r], MaxItem)
    BY ONLY <1>3 DEF READ_AVAIL_SPACE, NTXPACTIVE
  <1> HIDE DEF avail, g
  <1>5. /\ block'[r] = b /\ block' \in [Rings -> [at : 0..MaxItem, left : 0..MaxItem-1]]
        /\ \A x \in Rings : x # r => block'[x] = block[x]
    <2>1. b \in [at : 0..MaxItem, left : 0..MaxItem-1]
      BY ONLY <1>3, <1>4
    <2> HIDE DEF b
    <2> QED
      BY ONLY <1>2, <1>3, <2>1, r \in Rings
  <1>6. b.at = r_offset[r] /\ b.left = avail
    OBVIOUS
  <1> HIDE DEF b
  <1>7. /\ r_offset'[r] = ADVANCE(r_offset[r], avail, MaxItem)
        /\ r_offset' \in [Rings -> 0..MaxItem-1]
        /\ \A x \in Rings : x # r => r_offset'[x] = r_offset[x]
    <2>1. ADVANCE(r_offset[r], avail, MaxItem) \in 0..MaxItem-1
      BY ONLY <1>3, <1>4 DEF ADVANCE
    <2> QED
      BY ONLY <1>2, <1>3, <2>1, r \in Rings
  <1>8. HostType'
    BY <1>1, <1>2, <1>5, <1>7 DEF HostType, reqVars
  <1>9. sent[r] < g + MaxItem
    <2>1. PICK R \in [Rings -> Nat] :
            OutOK(out, sent, R, mem) /\ \A x \in Rings : HostOK(x, R[x])
      BY <1>1 DEF RingInv
    <2>2. Passed(out, r) \in sent[r]..(R[r] + MaxItem - 1) /\ R[r] <= g /\ R[r] \in Nat
      BY <2>1 DEF OutOK, OutRing, HostOK, g
    <2> QED
      BY ONLY <1>3, <2>2
  <1>10. ASSUME NEW R \in Nat, HostOK(r, R) PROVE R <= R /\ HostOK(r, R)'
    <2>1. /\ R <= g /\ InSlot(R + 1, tcm_r[r]) /\ InSlot(sent[r] + 1, tcm_w[r])
          /\ g + block[r].left <= sent[r] /\ InSlot(g + block[r].left + 1, r_offset[r])
          /\ seqnum[r] = Modulo + 1 + g
      BY <1>10 DEF HostOK, g
    <2>2. g + block[r].left = g
      BY ONLY <1>2, <1>3
    <2>3. InSlot(g + 1, r_offset[r]) /\ g <= sent[r]
      BY ONLY <2>1, <2>2
    <2>4. NTXPACTIVE(r_offset[r], tcm_w[r], MaxItem) = (sent[r] + 1) - (g + 1)
      <3>1. g + 1 <= sent[r] + 1 /\ sent[r] + 1 < (g + 1) + MaxItem
        BY ONLY <1>3, <1>9, <2>3
      <3> QED
        BY ONLY <2>1, <2>3, <3>1, SlotDist
    <2>5. g + avail <= sent[r]
      BY ONLY <1>3, <1>4, <2>4
    <2>6. InSlot(g + avail + 1, ADVANCE(r_offset[r], avail, MaxItem))
      <3>1. InSlot((g + 1) + avail, ADVANCE(r_offset[r], avail, MaxItem))
        BY ONLY <1>4, <2>3, SlotOn
      <3>2. (g + 1) + avail = g + avail + 1
        BY ONLY <1>3, <1>4
      <3> QED
        BY ONLY <3>1, <3>2
    <2>7. R <= R
      OBVIOUS
    <2>8. Len(got'[r]) = g
      BY ONLY <1>2 DEF g
    <2> QED
      BY ONLY <1>2, <1>4, <1>5, <1>6, <1>7, <2>1, <2>3, <2>5, <2>6, <2>7, <2>8 DEF HostOK
  <1>11. \A R \in Nat : HostOK(r, R) => \E Q \in Nat : R <= Q /\ HostOK(r, Q)'
    BY <1>10
  <1>12. \A x \in Rings : x # r =>
           /\ tcm_r'[x] = tcm_r[x] /\ r_offset'[x] = r_offset[x]
           /\ block'[x] = block[x] /\ seqnum'[x] = seqnum[x] /\ got'[x] = got[x]
    BY ONLY <1>2, <1>5, <1>7
  <1>13. UNCHANGED <<reqVars, out, pcVars, tcm_w, sent, mem>>
    BY ONLY <1>2
  <1> QED
    BY ONLY BaseInv, r \in Rings, <1>8, <1>11, <1>12, <1>13, HostBase

(* A message is taken or given up.                                         *)
LEMMA ProcessBase ==
  ASSUME BaseInv, NEW r \in Rings, NEW id \in Id, block[r].left # 0, Process(r, id),
         load' = load, timeouts' \in 0..load.timeouts
  PROVE  BaseInv'
  <1> DEFINE g == Len(got[r])
             b == [at |-> block[r].at + 1, left |-> block[r].left - 1]
             h == Append(got[r], id)
  <1>1. HostType /\ RingInv
    BY DEF BaseInv
  <1>2. /\ got' = [got EXCEPT ![r] = h] /\ seqnum' = [seqnum EXCEPT ![r] = @ + 1]
        /\ block' = [block EXCEPT ![r] = b]
        /\ UNCHANGED <<reqVars, out, pcVars, tcm_w, sent, mem, tcm_r, r_offset>>
    BY DEF Process
  <1>3. /\ block \in [Rings -> [at : 0..MaxItem, left : 0..MaxItem-1]]
        /\ block[r].at \in 0..MaxItem /\ block[r].left \in 0..MaxItem-1
        /\ got \in [Rings -> Seq(Id)] /\ got[r] \in Seq(Id) /\ g \in Nat
        /\ seqnum \in [Rings -> Nat] /\ seqnum[r] \in Nat
        /\ MaxItem \in Nat /\ MaxItem >= 2 /\ Modulo \in Nat /\ sent[r] \in Nat
    BY <1>1, HostIs, Sizes DEF HostType
  <1>4. PICK R0 \in Nat : HostOK(r, R0)
    BY <1>1 DEF RingInv
  <1>5. block[r].at + block[r].left <= MaxItem
    BY <1>4 DEF HostOK
  <1>6. h \in Seq(Id) /\ Len(h) = g + 1
    BY <1>3
  <1>7. b \in [at : 0..MaxItem, left : 0..MaxItem-1]
    <2>1. block[r].at + 1 \in 0..MaxItem /\ block[r].left - 1 \in 0..MaxItem-1
      BY ONLY <1>3, <1>5, block[r].left # 0
    <2> QED
      BY ONLY <2>1
  <1>8. b.at = block[r].at + 1 /\ b.left = block[r].left - 1
    OBVIOUS
  <1> HIDE DEF b, h, g
  <1>9. /\ block' \in [Rings -> [at : 0..MaxItem, left : 0..MaxItem-1]] /\ block'[r] = b
        /\ got' \in [Rings -> Seq(Id)] /\ got'[r] = h
        /\ seqnum' \in [Rings -> Nat] /\ seqnum'[r] = seqnum[r] + 1
        /\ \A x \in Rings : x # r => /\ block'[x] = block[x] /\ seqnum'[x] = seqnum[x]
                                     /\ got'[x] = got[x]
    BY ONLY <1>2, <1>3, <1>6, <1>7, r \in Rings
  <1>10. HostType'
    BY <1>1, <1>2, <1>9 DEF HostType
  <1>11. ASSUME NEW R \in Nat, HostOK(r, R) PROVE R <= R /\ HostOK(r, R)'
    <2> DEFINE l == block[r].left
               a == block[r].at
    <2>1. /\ R <= g /\ InSlot(R + 1, tcm_r[r]) /\ InSlot(sent[r] + 1, tcm_w[r])
          /\ g + l <= sent[r] /\ InSlot(g + l + 1, r_offset[r])
          /\ a + l <= MaxItem /\ InSlot(g + 1, a)
          /\ seqnum[r] = Modulo + 1 + g
      BY <1>11 DEF HostOK, g
    <2>2. l \in 1..MaxItem-1 /\ a \in Nat
      BY ONLY <1>3, block[r].left # 0
    <2> HIDE DEF l, a
    <2>3. b.at = a + 1 /\ b.left = l - 1
      BY ONLY <1>8 DEF a, l
    <2>4. R <= g + 1 /\ (g + 1) + (l - 1) = g + l /\ (g + 1) + (l - 1) <= sent[r]
          /\ seqnum[r] + 1 = Modulo + 1 + (g + 1)
          /\ (a + 1) + (l - 1) <= MaxItem
      BY ONLY <1>3, <2>1, <2>2, R \in Nat
    <2>5. l - 1 # 0 => InSlot((g + 1) + 1, a + 1)
      <3>1. SUFFICES ASSUME l - 1 # 0 PROVE InSlot((g + 1) + 1, a + 1)
        OBVIOUS
      <3>2. a + l <= MaxItem /\ l \in 1..MaxItem-1 /\ a \in Nat /\ MaxItem \in Nat
        BY ONLY <1>3, <2>1, <2>2
      <3>3. a + 1 < MaxItem /\ a + 1 <= MaxItem /\ 1 \in Nat
        BY ONLY <3>1, <3>2
      <3>4. InSlot(g + 1, a)
        BY ONLY <2>1
      <3> QED
        BY ONLY <3>3, <3>4, SlotOn
    <2>6. R <= R
      OBVIOUS
    <2>7. /\ R <= Len(got'[r]) /\ InSlot(R + 1, tcm_r'[r]) /\ InSlot(sent'[r] + 1, tcm_w'[r])
          /\ Len(got'[r]) + block'[r].left <= sent'[r]
          /\ InSlot(Len(got'[r]) + block'[r].left + 1, r_offset'[r])
      BY ONLY <1>2, <1>6, <1>9, <2>1, <2>3, <2>4
    <2>8. /\ block'[r].left # 0 => /\ block'[r].at + block'[r].left <= MaxItem
                                   /\ InSlot(Len(got'[r]) + 1, block'[r].at)
          /\ seqnum'[r] = Modulo + 1 + Len(got'[r])
      BY ONLY <1>2, <1>6, <1>9, <2>1, <2>3, <2>4, <2>5
    <2> QED
      BY ONLY <2>6, <2>7, <2>8 DEF HostOK
  <1>12. \A R \in Nat : HostOK(r, R) => \E Q \in Nat : R <= Q /\ HostOK(r, Q)'
    BY <1>11
  <1>13. \A x \in Rings : x # r =>
           /\ tcm_r'[x] = tcm_r[x] /\ r_offset'[x] = r_offset[x]
           /\ block'[x] = block[x] /\ seqnum'[x] = seqnum[x] /\ got'[x] = got[x]
    BY ONLY <1>2, <1>9
  <1>14. UNCHANGED <<reqVars, out, pcVars, tcm_w, sent, mem>>
    BY ONLY <1>2
  <1> QED
    BY ONLY BaseInv, r \in Rings, <1>10, <1>12, <1>13, <1>14, HostBase

LEMMA TakeBase ==
  ASSUME BaseInv, NEW r \in Rings, Take(r) PROVE BaseInv'
  <1> DEFINE id == mem[r][block[r].at].id
  <1>1. HostType /\ RingInv
    BY DEF BaseInv
  <1>2. block[r].left # 0 /\ Process(r, id) /\ timeouts' = timeouts
    BY DEF Take
  <1>3. block[r].at \in 0..MaxItem-1
    <2>1. PICK R \in Nat : HostOK(r, R)
      BY <1>1 DEF RingInv
    <2> QED
      BY <1>2, <2>1 DEF HostOK, InSlot
  <1>4. id \in Id
    BY <1>1, <1>3, HostIs, MessageIs
  <1>5. load' = load /\ timeouts' \in 0..load.timeouts
    BY <1>1, <1>2 DEF Process, reqVars, HostType
  <1> HIDE DEF id
  <1> QED
    BY ONLY BaseInv, r \in Rings, <1>2, <1>4, <1>5, ProcessBase

LEMMA GiveUpBase ==
  ASSUME BaseInv, NEW r \in Rings, GiveUp(r) PROVE BaseInv'
  <1>1. HostType /\ ReqType
    BY DEF BaseInv
  <1>2. /\ block[r].left # 0 /\ Process(r, 0) /\ timeouts < load.timeouts
        /\ timeouts' = timeouts + 1
    BY DEF GiveUp
  <1>3. load \in Loads /\ load.timeouts \in Nat /\ timeouts \in 0..load.timeouts
    BY <1>1, Sizes DEF HostType, ReqType
  <1>4. 0 \in Id
    BY <1>3, Sizes, InId
  <1>5. load' = load
    BY <1>2 DEF Process, reqVars
  <1>6. timeouts' \in 0..load.timeouts
    BY ONLY <1>2, <1>3
  <1> QED
    BY ONLY BaseInv, r \in Rings, <1>2, <1>4, <1>5, <1>6, ProcessBase

LEMMA StepBase ==
  ASSUME BaseInv, [Next]_vars PROVE BaseInv'
  <1>1. ASSUME NEW r \in Rings, HostStep(r) PROVE BaseInv'
    BY <1>1, GetBlockBase, TakeBase, GiveUpBase, UpdBase DEF HostStep
  <1>2. ASSUME BusStep PROVE BaseInv'
    BY <1>2, DrainBase, EndDrainBase, TxMetadataBase, RxPayloadBase, EndSendBase,
       FlushTxBase DEF BusStep
  <1>3. CASE UNCHANGED vars
    BY <1>3 DEF vars, reqVars, pcVars, hostVars, BaseInv, ReqType, PcType, HostType,
       ReqInv, RingInv, HostOK
  <1> QED
    BY <1>1, <1>2, <1>3, FreeTxBase, ReceiveBase, FlushBase, DmaBase, LandBase DEF Next

LEMMA BaseSafe == Spec => []BaseInv
  BY InitBase, StepBase, PTL DEF Spec

-----------------------------------------------------------------------------
(* What the first layer says.                                              *)

(* The completions of a ring, place by place.                              *)
LEMMA Places ==
  ASSUME BaseInv, NEW r \in Rings
  PROVE  LET w == IF r = "rx" THEN Len(chain) + Len(rxcpl_list) ELSE 0
             c == CountOf(d2h_req_q, {r} \X Id \X BOOLEAN)
             n == Len(out.ring[r].items)
         IN  /\ asked[r] = c + w + n + InDma(r) + sent[r]
             /\ {c, w, n, InDma(r), sent[r], asked[r]} \subseteq Nat
  <1> DEFINE w == IF r = "rx" THEN Len(chain) + Len(rxcpl_list) ELSE 0
             c == CountOf(d2h_req_q, {r} \X Id \X BOOLEAN)
             n == Len(out.ring[r].items)
             M == Made(out, r)
             W == Passed(out, r)
  <1>1. ReqType /\ HostType /\ ReqInv /\ RingInv
    BY DEF BaseInv
  <1>2. /\ d2h_req_q \in Seq(Req) /\ chain \in Seq(Id) /\ rxcpl_list \in Seq(Id)
        /\ asked[r] \in Nat /\ Len(chain) \in Nat /\ Len(rxcpl_list) \in Nat
    BY <1>1 DEF ReqType
  <1>3. sent[r] \in Nat /\ n \in Nat /\ M \in Int
    BY <1>1, OutTyped, HostIs, StateIs, MadeInt
  <1>4. W \in sent[r]..W /\ InDma(r) = W - sent[r]
    <2>1. PICK R \in [Rings -> Nat] : OutOK(out, sent, R, mem)
      BY <1>1 DEF RingInv
    <2>2. W \in sent[r]..(R[r] + MaxItem - 1) /\ DmaOK(out.q, r, sent[r], W)
      BY <2>1 DEF OutOK, OutRing
    <2>3. out.q \in Seq(QEntry)
      BY OutTyped, StateIs
    <2> HIDE DEF W
    <2>4. InDma(r) = W - sent[r]
      BY ONLY <2>2, <2>3, DmaTotal DEF InDma
    <2> QED
      BY ONLY <2>2, <2>4, <1>3
  <1>5. W = M - n
    BY DEF Passed
  <1>6. c = asked[r] - (M + w) /\ c \in Nat
    <2>1. CASE r = "rx"
      <3>1. ReqOK(d2h_req_q, r, M + Len(rxcpl_list) + Len(chain), asked[r])
        BY <1>1, <2>1 DEF ReqInv, ReqsOK
      <3>2. c = asked[r] - (M + Len(rxcpl_list) + Len(chain))
            /\ M + Len(rxcpl_list) + Len(chain) <= asked[r]
        BY ONLY <1>2, <3>1, r \in Rings, ReqTotal
      <3>3. w = Len(chain) + Len(rxcpl_list)
        BY ONLY <2>1
      <3> HIDE DEF w, c, M
      <3> QED
        BY ONLY <1>2, <1>3, <3>2, <3>3
    <2>2. CASE r # "rx"
      <3>1. ReqOK(d2h_req_q, r, M, asked[r])
        BY <1>1, <2>2 DEF ReqInv, ReqsOK, Rings
      <3>2. c = asked[r] - M /\ M <= asked[r]
        BY ONLY <1>2, <3>1, r \in Rings, ReqTotal
      <3>3. w = 0
        BY ONLY <2>2
      <3> HIDE DEF w, c, M
      <3> QED
        BY ONLY <1>2, <1>3, <3>2, <3>3
    <2> QED
      BY <2>1, <2>2
  <1>7. w \in Nat
    BY ONLY <1>2
  <1> HIDE DEF w, c, n, M, W
  <1>8. asked[r] = c + w + n + InDma(r) + sent[r] /\ InDma(r) \in Nat
    <2> DEFINE d == InDma(r)
               a == asked[r]
               s == sent[r]
    <2>1. /\ a \in Nat /\ s \in Nat /\ n \in Nat /\ M \in Int /\ W \in s..W /\ d = W - s
          /\ W = M - n /\ c = a - (M + w) /\ c \in Nat /\ w \in Nat
      BY ONLY <1>2, <1>3, <1>4, <1>5, <1>6, <1>7
    <2> HIDE DEF d, a, s
    <2>2. a = c + w + n + d + s /\ d \in Nat
      BY ONLY <2>1
    <2> QED
      BY ONLY <2>2 DEF d, a, s
  <1>9. {c, w, n, InDma(r), sent[r], asked[r]} \subseteq Nat
    BY ONLY <1>2, <1>3, <1>6, <1>7, <1>8
  <1> QED
    BY ONLY <1>8, <1>9 DEF w, c, n

LEMMA TypeOf ==
  ASSUME BaseInv PROVE TypeOK
  <1>1. ReqType /\ PcType /\ HostType /\ RingInv
    BY DEF BaseInv
  <1>2. \A r \in Rings : asked[r] \in Id /\ sent[r] \in Id
    <2>1. ASSUME NEW r \in Rings PROVE asked[r] \in Id /\ sent[r] \in Id
      <3>1. load \in Loads /\ asked[r] \in Nat /\ (asked[r] <= load.tx \/ asked[r] <= load.rx)
        BY <1>1 DEF ReqType, Rings
      <3> DEFINE w == IF r = "rx" THEN Len(chain) + Len(rxcpl_list) ELSE 0
                 c == CountOf(d2h_req_q, {r} \X Id \X BOOLEAN)
                 n == Len(out.ring[r].items)
      <3>2. /\ asked[r] = c + w + n + InDma(r) + sent[r]
            /\ {c, w, n, InDma(r), sent[r], asked[r]} \subseteq Nat
        BY Places
      <3> HIDE DEF w, c, n
      <3>3. sent[r] <= asked[r] /\ sent[r] \in Nat
        BY ONLY <3>2
      <3>4. load.tx \in Nat /\ load.rx \in Nat
        BY <3>1, Sizes
      <3>5. sent[r] <= load.tx \/ sent[r] <= load.rx
        BY ONLY <3>1, <3>3, <3>4
      <3> QED
        BY ONLY <3>1, <3>3, <3>5, InId
    <2> QED
      BY <2>1
  <1>3. asked \in [Rings -> Id] /\ sent \in [Rings -> Id]
    <2>1. asked \in [Rings -> Nat] /\ sent \in [Rings -> Nat]
      BY <1>1 DEF ReqType, HostType
    <2> QED
      BY ONLY <1>2, <2>1
  <1>4. ASSUME NEW r \in Rings
        PROVE  /\ out.ring[r].in_use \in BOOLEAN /\ out.ring[r].pend \in BOOLEAN
               /\ out.ring[r].items \in Seq(Message) /\ out.ring[r].epoch \in Nat
               /\ out.ring[r].availcnt \in 0..BufCnt
               /\ out.ring[r].wr_pending \in 0..MaxItem-1
    <2>1. /\ out.q \in Seq(QEntry)
          /\ out.ring[r].in_use \in BOOLEAN /\ out.ring[r].pend \in BOOLEAN
          /\ out.ring[r].items \in Seq(Message) /\ out.ring[r].epoch \in Nat
          /\ out.ring[r].availcnt \in Nat
          /\ out.ring[r].wr_pending \in 0..MaxItem-1
      BY OutTyped, StateIs
    <2> DEFINE c == CountOf(out.q, DmaOf(r))
    <2>2. out.ring[r].availcnt + (IF out.ring[r].in_use THEN 1 ELSE 0) + c = BufCnt
      BY <1>1 DEF RingInv, OutOK, OutRing, BufOK
    <2>3. c \in Nat /\ BufCnt \in Nat
      BY ONLY <2>1, CountNat, Sizes
    <2> HIDE DEF c
    <2>4. out.ring[r].availcnt \in 0..BufCnt
      <3>1. out.ring[r].availcnt \in Nat
        BY ONLY <2>1
      <3> QED
        BY ONLY <2>2, <2>3, <3>1
    <2> QED
      BY ONLY <2>1, <2>4
  <1>5. \A i \in 1..Len(out.q) : out.q[i].len \in 0..MaxItem-1
    <2>1. out.q \in Seq(QEntry)
      BY OutTyped DEF OutType
    <2>2. \A i \in 1..Len(out.q) : out.q[i] \in QEntry
      BY ONLY <2>1
    <2> QED
      BY ONLY <2>2 DEF QEntry
  <1>6. out.flying \subseteq [ring : Rings, slot : 0..MaxItem-1, msg : Message]
    BY OutTyped DEF OutType, Flight
  <1> QED
    BY ONLY <1>1, <1>3, <1>4, <1>5, <1>6 DEF TypeOK, ReqType, PcType, HostType, Req

(* Every variable always has its type; a ring never has more messages      *)
(* behind its write index than completions were asked for.                 *)
THEOREM TypeCorrect == Spec => []TypeOK
  BY BaseSafe, TypeOf, PTL

(* No tx status and no rx completion is ever lost or sent twice: each one  *)
(* asked for is in exactly one of the queue of requests, the chain and the *)
(* list of rx completions, the local buffer, a DMA not yet reported, or    *)
(* the messages behind the write index.                                    *)
THEOREM LostSafe == Spec => []NothingLost
  <1>1. ASSUME BaseInv PROVE NothingLost
    <2>1. ASSUME NEW r \in Rings
          PROVE  asked[r] = CountOf(d2h_req_q, {r} \X Id \X BOOLEAN)
                   + (IF r = "rx" THEN Len(chain) + Len(rxcpl_list) ELSE 0)
                   + Len(out.ring[r].items) + InDma(r) + sent[r]
      BY <1>1, Places
    <2> QED
      BY <2>1 DEF NothingLost
  <1> QED
    BY <1>1, BaseSafe, PTL

(* A local buffer is always free, being filled, or the source of one DMA   *)
(* that the engine has not reported: none is reused while a DMA reads it,  *)
(* and none leaks.                                                         *)
THEOREM BuffersSafe == Spec => []BuffersConserved
  <1>1. ASSUME BaseInv PROVE BuffersConserved
    <2>1. ASSUME NEW r \in Rings
          PROVE  out.ring[r].availcnt + (IF out.ring[r].in_use THEN 1 ELSE 0)
                   + CountOf(out.q, [ring : {r}, len : 0..MaxItem-1]) = BufCnt
      BY <1>1 DEF BaseInv, RingInv, OutOK, OutRing, BufOK, DmaOf
    <2> QED
      BY <2>1 DEF BuffersConserved
  <1> QED
    BY <1>1, BaseSafe, PTL

-----------------------------------------------------------------------------
(* Markers.                                                                *)

LEMMA Quotient ==
  ASSUME NEW a \in Int, NEW m \in Int, m > 0
  PROVE  a = (a \div m) * m + (a % m) /\ a \div m \in Int
  OBVIOUS

LEMMA ModTimes ==
  ASSUME NEW q \in Int, NEW m \in Int, m > 0 PROVE (q * m) % m = 0
  OBVIOUS

LEMMA Factor ==
  ASSUME NEW p \in Int, NEW q \in Int, NEW m \in Int
  PROVE  p * m - q * m = (p - q) * m /\ p * m \in Int /\ q * m \in Int
  OBVIOUS

LEMMA ModDiff ==
  ASSUME NEW a \in Int, NEW b \in Int, NEW m \in Int, m > 0, a % m = b % m
  PROVE  (a - b) % m = 0
  <1> DEFINE p == a \div m
             q == b \div m
             c == b % m
  <1>1. a = p * m + c /\ b = q * m + c /\ p \in Int /\ q \in Int
    BY Quotient
  <1>2. c \in Int
    OBVIOUS
  <1>3. p * m - q * m = (p - q) * m /\ p * m \in Int /\ q * m \in Int
    BY <1>1, Factor
  <1>4. ((p - q) * m) % m = 0
    BY <1>1, ModTimes
  <1> HIDE DEF p, q, c
  <1>5. a - b = (p - q) * m
    BY ONLY <1>1, <1>2, <1>3
  <1> QED
    BY ONLY <1>4, <1>5

(* The messages whose marker is that of cleared memory.                    *)
LEMMA ZeroMark ==
  ASSUME NEW n \in Nat, Msg(n).mark = 0 PROVE n % Modulo = 0
  <1> DEFINE m == Modulo
  <1>1. m \in Int /\ m > 0
    BY Sizes
  <1>2. (m + n) % m = 0
    BY DEF Msg
  <1> HIDE DEF m
  <1>3. (1 * m) % m = 0 /\ 1 * m = m
    BY <1>1, ModTimes
  <1>4. m % m = 0
    BY ONLY <1>3
  <1>5. m + n \in Int /\ (m + n) - m = n
    BY ONLY <1>1, n \in Nat
  <1>6. ((m + n) - m) % m = 0
    BY ONLY <1>1, <1>2, <1>4, <1>5, ModDiff
  <1>7. n % m = 0
    BY ONLY <1>5, <1>6
  <1> QED
    BY ONLY <1>7 DEF m

LEMMA SameMark ==
  ASSUME NEW a \in Nat, NEW b \in Nat, NEW k \in Nat, b = a + k * MaxItem,
         Msg(a).mark = Msg(b).mark
  PROVE  (k * MaxItem) % Modulo = 0
  <1> DEFINE m == Modulo
             d == k * MaxItem
  <1>1. m \in Int /\ m > 0 /\ d \in Nat
    BY Sizes, Times
  <1>2. (m + b) % m = (m + a) % m
    BY DEF Msg
  <1> HIDE DEF m, d
  <1>3. m + b \in Int /\ m + a \in Int
    BY ONLY <1>1, a \in Nat, b \in Nat
  <1>4. ((m + b) - (m + a)) % m = 0
    BY ONLY <1>1, <1>2, <1>3, ModDiff
  <1>5. (m + b) - (m + a) = d
    <2>1. b = a + d
      BY DEF d
    <2> QED
      BY ONLY <1>1, <2>1, a \in Nat, b \in Nat
  <1> QED
    BY ONLY <1>4, <1>5 DEF d, m

(* The marker of a message differs from that of a message of the same slot *)
(* up to timeouts + 1 rounds before.  In the code there are 253 markers, a *)
(* prime to the rings' sizes: it holds for up to 251 messages given up.    *)
MarksDiffer ==
  \A l \in Loads : \A k \in 1..l.timeouts+1 : (k * MaxItem) % Modulo # 0

LEMMA SlotBack ==
  ASSUME NEW n, NEW s, InSlot(n, s), n > MaxItem
  PROVE  InSlot(n - MaxItem, s) /\ n - MaxItem \in Nat /\ n - MaxItem >= 1 /\ n \in Nat
  <1>1. PICK k \in Nat : n = k * MaxItem + s + 1
    BY DEF InSlot
  <1>2. s \in 0..MaxItem-1 /\ MaxItem \in Nat /\ k * MaxItem \in Nat
    BY Times, Sizes DEF InSlot
  <1>3. k # 0
    <2>1. ASSUME k = 0 PROVE FALSE
      <3>1. k * MaxItem = 0
        BY ONLY <1>2, <2>1
      <3> QED
        BY ONLY <1>1, <1>2, <3>1, n > MaxItem
    <2> QED
      BY <2>1
  <1>4. k - 1 \in Nat /\ (k - 1) + 1 = k
    BY <1>3
  <1>5. k * MaxItem = (k - 1) * MaxItem + MaxItem /\ (k - 1) * MaxItem \in Nat
    BY <1>4, Times
  <1>6. n - MaxItem = (k - 1) * MaxItem + s + 1
    BY ONLY <1>1, <1>2, <1>5
  <1>7. n - MaxItem \in Nat /\ n - MaxItem >= 1 /\ n \in Nat
    BY ONLY <1>1, <1>2, <1>5, <1>6
  <1> QED
    BY ONLY <1>2, <1>4, <1>6, <1>7 DEF InSlot

(* Two messages of one slot, less than T + 2 rounds apart.                 *)
LEMMA RoundsApart ==
  ASSUME NEW m, NEW n, NEW s, InSlot(m, s), InSlot(n, s), m < n, NEW T \in Nat,
         n <= m + (T + 1) * MaxItem
  PROVE  \E k \in 1..T+1 : n = m + k * MaxItem
  <1>1. PICK k \in Nat \ {0} : n = m + k * MaxItem
    BY SlotRounds
  <1>2. m \in Nat
    BY Times, Sizes DEF InSlot
  <1>3. k <= T + 1
    <2>1. SUFFICES ASSUME ~(k <= T + 1) PROVE FALSE
      OBVIOUS
    <2>2. T + 1 \in Nat /\ k \in Nat /\ T + 1 < k
      BY ONLY <2>1, T \in Nat, k \in Nat \ {0}
    <2>3. (T + 1) * MaxItem + MaxItem <= k * MaxItem /\ (T + 1) * MaxItem \in Nat
          /\ k * MaxItem \in Nat
      BY ONLY <2>2, Times
    <2>4. MaxItem \in Nat /\ MaxItem >= 2
      BY Sizes
    <2> QED
      BY ONLY <1>1, <1>2, <2>3, <2>4, n <= m + (T + 1) * MaxItem
  <1>4. k \in 1..T+1
    BY <1>3
  <1> QED
    BY <1>1, <1>4

-----------------------------------------------------------------------------
(* The second layer: what the host has taken, and how far behind the slots *)
(* are.  A slot is a round behind for each message of it that was given    *)
(* up; one that has never been written may be a round more behind, when    *)
(* the marker due was that of cleared memory.                              *)

Late(c, n, s, T) ==
  IF c # 0 THEN n <= c + T * MaxItem
  ELSE \/ n <= T * MaxItem
       \/ /\ n <= (T + 1) * MaxItem
          /\ \E k \in 1..n : InSlot(k, s) /\ Msg(k).mark = 0

GotOK(g, m, T) ==
  /\ \A i \in 1..Len(g) : g[i] \in {0, i}
  /\ \A s \in 0..MaxItem-1, n \in 1..Len(g) :
       InSlot(n, s) /\ m[s].id < n => Late(m[s].id, n, s, T)

MainInv == BaseInv /\ \A r \in Rings : GotOK(got[r], mem[r], timeouts)

LEMMA LateMore ==
  ASSUME NEW c \in Nat, NEW n \in Nat, NEW s, NEW T \in Nat, Late(c, n, s, T)
  PROVE  Late(c, n, s, T + 1)
  <1> DEFINE a == T * MaxItem
             b == (T + 1) * MaxItem
             d == ((T + 1) + 1) * MaxItem
  <1>1. a \in Nat /\ b = a + MaxItem /\ d = b + MaxItem /\ MaxItem \in Nat
    <2>1. T + 1 \in Nat
      OBVIOUS
    <2> QED
      BY <2>1, Times, Sizes
  <1>2. IF c # 0 THEN n <= c + a
        ELSE \/ n <= a
             \/ n <= b /\ \E k \in 1..n : InSlot(k, s) /\ Msg(k).mark = 0
    BY DEF Late
  <1>3. IF c # 0 THEN n <= c + b
        ELSE \/ n <= b
             \/ n <= d /\ \E k \in 1..n : InSlot(k, s) /\ Msg(k).mark = 0
    <2> HIDE DEF a, b, d
    <2> QED
      BY ONLY <1>1, <1>2, c \in Nat, n \in Nat
  <1> QED
    BY ONLY <1>3 DEF Late, a, b, d

(* An earlier message of the slot lands.                                   *)
LEMMA LateLand ==
  ASSUME NEW c \in Nat, NEW d \in Nat, NEW n \in Nat, NEW s, NEW T \in Nat,
         Late(c, n, s, T), InSlot(d, s), InSlot(n, s), c < d, d < n
  PROVE  Late(d, n, s, T)
  <1> DEFINE a == T * MaxItem
             b == (T + 1) * MaxItem
  <1>1. a \in Nat /\ b = a + MaxItem /\ MaxItem \in Nat
    BY Times, Sizes
  <1>2. IF c # 0 THEN n <= c + a ELSE n <= a \/ n <= b
    BY DEF Late
  <1>3. CASE n <= c + a \/ n <= a
    <2> HIDE DEF a, b
    <2>1. d # 0 /\ n <= d + a
      BY ONLY <1>1, <1>3, c \in Nat, d \in Nat, n \in Nat, c < d
    <2> QED
      BY ONLY <2>1 DEF Late, a
  <1>4. CASE n <= b
    <2>1. PICK i \in Nat : n = i * MaxItem + s + 1
      BY DEF InSlot
    <2>2. PICK j \in Nat : d = j * MaxItem + s + 1
      BY DEF InSlot
    <2>3. s \in 0..MaxItem-1 /\ i * MaxItem \in Nat /\ j * MaxItem \in Nat
      BY Times DEF InSlot
    <2>4. i * MaxItem < b
      <3> HIDE DEF a, b
      <3> QED
        BY ONLY <1>1, <1>4, <2>1, <2>3
    <2>5. i < T + 1
      <3>1. T + 1 \in Nat
        OBVIOUS
      <3> QED
        BY ONLY <2>4, <3>1, i \in Nat, Times DEF b
    <2>6. i * MaxItem <= a
      BY ONLY <2>5, i \in Nat, T \in Nat, Times DEF a
    <2> HIDE DEF a, b
    <2>7. d # 0 /\ n <= d + a
      BY ONLY <1>1, <2>1, <2>2, <2>3, <2>6
    <2> QED
      BY ONLY <2>7 DEF Late, a
  <1> QED
    BY ONLY <1>2, <1>3, <1>4

(* How late the slot of the next message is, if the one before is known.   *)
LEMMA LateNext ==
  ASSUME NEW c \in Nat, NEW n \in Nat, NEW s, NEW T \in Nat, InSlot(n, s), c < n,
         c # 0 => InSlot(c, s),
         n > MaxItem /\ c < n - MaxItem => Late(c, n - MaxItem, s, T)
  PROVE  Late(c, n, s, T + 1)
  <1> DEFINE a == T * MaxItem
             b == (T + 1) * MaxItem
             d == ((T + 1) + 1) * MaxItem
  <1>1. a \in Nat /\ b = a + MaxItem /\ d = b + MaxItem /\ MaxItem \in Nat
    <2>1. T + 1 \in Nat
      OBVIOUS
    <2> QED
      BY <2>1, Times, Sizes
  <1>2. c # 0 => c + MaxItem <= n
    BY SlotRounds
  <1> HIDE DEF a, b, d
  <1>3. CASE ~(n > MaxItem)
    <2>1. c = 0 /\ n <= b
      BY ONLY <1>1, <1>2, <1>3, c \in Nat, n \in Nat, c < n
    <2> QED
      BY ONLY <2>1 DEF Late, b
  <1>4. CASE n > MaxItem /\ ~(c < n - MaxItem)
    <2>1. c # 0 /\ n <= c + b
      BY ONLY <1>1, <1>2, <1>4, c \in Nat, n \in Nat
    <2> QED
      BY ONLY <2>1 DEF Late, b
  <1>5. CASE n > MaxItem /\ c < n - MaxItem
    <2>1. Late(c, n - MaxItem, s, T)
      BY <1>5
    <2> DEFINE K(x) == \E k \in 1..x : InSlot(k, s) /\ Msg(k).mark = 0
    <2>2. IF c # 0 THEN n - MaxItem <= c + a
          ELSE n - MaxItem <= a \/ (n - MaxItem <= b /\ K(n - MaxItem))
      BY ONLY <2>1 DEF Late, a, b
    <2>3. K(n - MaxItem) => K(n)
      <3>1. \A k \in 1..(n - MaxItem) : k \in 1..n
        BY ONLY <1>1, n \in Nat
      <3> QED
        BY <3>1
    <2> HIDE DEF K
    <2>4. IF c # 0 THEN n <= c + b ELSE n <= b \/ (n <= d /\ K(n))
      BY ONLY <1>1, <2>2, <2>3, c \in Nat, n \in Nat
    <2> QED
      BY ONLY <2>4 DEF Late, b, d, K
  <1> QED
    BY <1>3, <1>4, <1>5

(* The marker due is found in a slot that is behind: only a slot never     *)
(* written, when the marker due is that of cleared memory.                 *)
LEMMA LateSynced ==
  ASSUME NEW c \in Nat, NEW n \in Nat, NEW s, NEW T \in Nat, InSlot(n, s), c < n,
         c # 0 => InSlot(c, s) /\ Msg(c).mark = Msg(n).mark,
         c = 0 => Msg(n).mark = 0,
         n > MaxItem /\ c < n - MaxItem => Late(c, n - MaxItem, s, T),
         \A k \in 1..T+1 : (k * MaxItem) % Modulo # 0
  PROVE  c = 0 /\ n <= (T + 1) * MaxItem /\ Late(c, n, s, T)
  <1> DEFINE a == T * MaxItem
             b == (T + 1) * MaxItem
             d == ((T + 1) + 1) * MaxItem
  <1>1. a \in Nat /\ b = a + MaxItem /\ d = b + MaxItem /\ MaxItem \in Nat /\ MaxItem >= 2
    <2>1. T + 1 \in Nat
      OBVIOUS
    <2> QED
      BY <2>1, Times, Sizes
  <1>2. ASSUME NEW m \in Nat, InSlot(m, s), m < n, Msg(m).mark = Msg(n).mark
        PROVE  ~(n <= m + b)
    <2>1. SUFFICES ASSUME n <= m + b PROVE FALSE
      OBVIOUS
    <2>2. PICK k \in 1..T+1 : n = m + k * MaxItem
      BY <1>2, <2>1, RoundsApart
    <2>3. k \in Nat
      OBVIOUS
    <2>4. (k * MaxItem) % Modulo = 0
      BY <1>2, <2>2, <2>3, SameMark
    <2> QED
      BY <2>4
  <1> HIDE DEF a, b, d
  <1>3. c = 0
    <2>1. SUFFICES ASSUME c # 0 PROVE FALSE
      OBVIOUS
    <2>2. ~(n <= c + b) /\ c + MaxItem <= n
      BY <1>2, <2>1, SlotRounds
    <2>3. c < n - MaxItem /\ n > MaxItem
      BY ONLY <1>1, <2>1, <2>2, c \in Nat, n \in Nat
    <2>4. Late(c, n - MaxItem, s, T)
      BY <2>3
    <2>5. n - MaxItem <= c + a
      BY ONLY <2>1, <2>4 DEF Late, a
    <2> QED
      BY ONLY <1>1, <2>2, <2>5, c \in Nat, n \in Nat
  <1>4. n <= b
    <2>1. SUFFICES ASSUME ~(n <= b) PROVE FALSE
      OBVIOUS
    <2>2. n > MaxItem /\ c < n - MaxItem
      BY ONLY <1>1, <1>3, <2>1, n \in Nat
    <2>3. Late(c, n - MaxItem, s, T)
      BY <2>2
    <2>4. \/ n - MaxItem <= a
          \/ /\ n - MaxItem <= b
             /\ \E k \in 1..(n - MaxItem) : InSlot(k, s) /\ Msg(k).mark = 0
      BY ONLY <1>3, <2>3 DEF Late, a, b
    <2>5. ~(n - MaxItem <= a)
      BY ONLY <1>1, <2>1, n \in Nat
    <2>6. PICK k \in 1..(n - MaxItem) : InSlot(k, s) /\ Msg(k).mark = 0
      BY <2>4, <2>5
    <2>7. k \in Nat /\ k >= 1 /\ k < n
      BY ONLY <1>1, n \in Nat, k \in 1..(n - MaxItem)
    <2>8. ~(n <= k + b)
      BY <1>2, <1>3, <2>6, <2>7
    <2> QED
      <3>1. n - MaxItem <= b
        BY <2>4, <2>5
      <3> DEFINE x == b + MaxItem
      <3>2. PICK i \in Nat : n = i * MaxItem + s + 1
        BY DEF InSlot
      <3>3. PICK j \in Nat : k = j * MaxItem + s + 1
        BY <2>6 DEF InSlot
      <3>4. s \in 0..MaxItem-1 /\ i * MaxItem \in Nat /\ j * MaxItem \in Nat
        BY Times DEF InSlot
      <3>5. i * MaxItem < d
        BY ONLY <1>1, <3>1, <3>2, <3>4
      <3>6. i < (T + 1) + 1
        <4>1. (T + 1) + 1 \in Nat
          OBVIOUS
        <4> QED
          BY ONLY <3>5, <4>1, i \in Nat, Times DEF d
      <3>7. i * MaxItem <= b
        <4>1. i <= T + 1 /\ T + 1 \in Nat
          BY ONLY <3>6, i \in Nat, T \in Nat
        <4> QED
          BY ONLY <4>1, i \in Nat, Times DEF b
      <3>8. n <= k + b
        BY ONLY <1>1, <3>2, <3>3, <3>4, <3>7
      <3> QED
        BY <2>8, <3>8
  <1>5. Late(c, n, s, T)
    <2>1. n \in 1..n /\ InSlot(n, s) /\ Msg(n).mark = 0
      BY <1>3
    <2> QED
      BY ONLY <1>3, <1>4, <2>1 DEF Late, b
  <1> QED
    BY ONLY <1>3, <1>4, <1>5 DEF b

(* What a slot of host memory holds.                                       *)
LEMMA MemIs ==
  ASSUME BaseInv, NEW r \in Rings, NEW s \in 0..MaxItem-1
  PROVE  LET m == mem[r][s]
         IN  /\ m.id \in Nat /\ m.id < Len(got[r]) + MaxItem
             /\ m.id # 0 => m = Msg(m.id) /\ InSlot(m.id, s)
             /\ m.id = 0 => m.mark = 0
  <1> DEFINE m == mem[r][s]
             W == Passed(out, r)
             g == Len(got[r])
  <1>1. PICK R \in [Rings -> Nat] :
          OutOK(out, sent, R, mem) /\ \A x \in Rings : HostOK(x, R[x])
    BY DEF BaseInv, RingInv
  <1>2. W \in sent[r]..(R[r] + MaxItem - 1) /\ FlyOK(out.flying, r, W, mem[r])
    BY <1>1 DEF OutOK, OutRing
  <1>3. R[r] <= g /\ R[r] \in Nat
    BY <1>1 DEF HostOK
  <1>4. g \in Nat /\ sent[r] \in Nat /\ MaxItem \in Nat /\ MaxItem >= 2
    BY HostIs, Sizes DEF BaseInv
  <1>5. m # Zero => m.id \in 1..W /\ m = Msg(m.id) /\ InSlot(m.id, s)
    BY <1>2 DEF FlyOK
  <1>6. m = Zero => m.id = 0 /\ m.mark = 0
    BY DEF Zero
  <1> HIDE DEF m, W, g
  <1>7. W \in Int /\ W < g + MaxItem
    BY ONLY <1>2, <1>3, <1>4
  <1>8. CASE m = Zero
    <2>1. m.id \in Nat /\ m.id < g + MaxItem
      BY ONLY <1>4, <1>6, <1>8
    <2> QED
      BY ONLY <1>6, <1>8, <2>1 DEF m, g
  <1>9. CASE m # Zero
    <2>1. m.id \in Nat /\ m.id < g + MaxItem /\ m.id # 0
      BY ONLY <1>4, <1>5, <1>7, <1>9
    <2> QED
      BY ONLY <1>5, <1>9, <2>1 DEF m, g
  <1> QED
    BY <1>8, <1>9

(* The next message of the host's block.                                   *)
LEMMA DueIs ==
  ASSUME BaseInv, NEW r \in Rings, block[r].left # 0
  PROVE  LET n == Len(got[r]) + 1
             s == block[r].at
         IN  /\ n \in Nat /\ n >= 1 /\ n <= sent[r] /\ InSlot(n, s) /\ s \in 0..MaxItem-1
             /\ seqnum[r] % Modulo = Msg(n).mark
  <1> DEFINE g == Len(got[r])
  <1>1. PICK R : HostOK(r, R)
    BY DEF BaseInv, RingInv
  <1>2. /\ g + block[r].left <= sent[r] /\ InSlot(g + 1, block[r].at)
        /\ seqnum[r] = Modulo + 1 + g
    BY <1>1 DEF HostOK
  <1>3. g \in Nat /\ sent[r] \in Nat /\ block[r].left \in 0..MaxItem-1 /\ Modulo \in Nat
        /\ MaxItem \in Nat
    BY HostIs, Sizes DEF BaseInv
  <1>4. block[r].at \in 0..MaxItem-1
    BY <1>2 DEF InSlot
  <1> HIDE DEF g
  <1>5. g + 1 \in Nat /\ g + 1 >= 1 /\ g + 1 <= sent[r] /\ Modulo + 1 + g = Modulo + (g + 1)
    BY ONLY <1>2, <1>3, block[r].left # 0
  <1>6. seqnum[r] % Modulo = Msg(g + 1).mark
    BY ONLY <1>2, <1>5 DEF Msg
  <1> QED
    BY ONLY <1>2, <1>4, <1>5, <1>6 DEF g

LEMMA TimeoutsIs ==
  ASSUME BaseInv
  PROVE  timeouts \in Nat /\ load \in Loads /\ load.timeouts \in Nat /\ timeouts <= load.timeouts
  <1>1. load \in Loads /\ timeouts \in 0..load.timeouts
    BY DEF BaseInv, ReqType, HostType
  <1>2. load.timeouts \in Nat
    BY <1>1, D2HAssumption
  <1> QED
    BY <1>1, <1>2

(* Where the host finds the marker it waits for, there is the message due, *)
(* or cleared memory.                                                      *)
LEMMA TakeIs ==
  ASSUME MarksDiffer, MainInv, NEW r \in Rings, block[r].left # 0, Synced(r)
  PROVE  LET n == Len(got[r]) + 1
             s == block[r].at
             c == mem[r][s].id
         IN  \/ c = n
             \/ /\ c = 0 /\ n <= (timeouts + 1) * MaxItem /\ Msg(n).mark = 0
                /\ Late(c, n, s, timeouts)
  <1> DEFINE g == Len(got[r])
             n == g + 1
             s == block[r].at
             m == mem[r][s]
             c == m.id
             T == timeouts
  <1>1. BaseInv /\ GotOK(got[r], mem[r], T)
    BY DEF MainInv
  <1>2. block[r].left # 0 /\ m.mark = seqnum[r] % Modulo
    BY DEF Synced
  <1>3. /\ n \in Nat /\ n >= 1 /\ InSlot(n, s) /\ s \in 0..MaxItem-1
        /\ seqnum[r] % Modulo = Msg(n).mark
    BY ONLY <1>1, <1>2, r \in Rings, DueIs
  <1>4. /\ c \in Nat /\ c < g + MaxItem
        /\ c # 0 => m = Msg(c) /\ InSlot(c, s)
        /\ c = 0 => m.mark = 0
    BY ONLY <1>1, <1>3, r \in Rings, MemIs
  <1>5. g \in Nat /\ MaxItem \in Nat /\ MaxItem >= 2
    BY <1>1, HostIs, Sizes DEF BaseInv
  <1>6. T \in Nat /\ \A k \in 1..T+1 : (k * MaxItem) % Modulo # 0
    <2>1. T \in Nat /\ load \in Loads /\ load.timeouts \in Nat /\ T <= load.timeouts
      BY ONLY <1>1, TimeoutsIs
    <2> HIDE DEF T
    <2>2. \A k \in 1..T+1 : k \in 1..load.timeouts+1
      BY ONLY <2>1
    <2>3. \A k \in 1..load.timeouts+1 : (k * MaxItem) % Modulo # 0
      BY ONLY <2>1, MarksDiffer DEF MarksDiffer
    <2> QED
      BY ONLY <2>1, <2>2, <2>3
  <1>7. ASSUME n > MaxItem, c < n - MaxItem PROVE Late(c, n - MaxItem, s, T)
    <2>1. InSlot(n - MaxItem, s) /\ n - MaxItem \in Nat /\ n - MaxItem >= 1
      BY ONLY <1>3, <1>7, SlotBack
    <2>2. n - MaxItem \in 1..g
      <3> HIDE DEF g
      <3> QED
        BY ONLY <1>5, <2>1
    <2> QED
      BY ONLY <1>1, <1>3, <1>7, <2>1, <2>2 DEF GotOK
  <1> HIDE DEF m, s, T
  <1>8. ~(n < c)
    <2>1. SUFFICES ASSUME n < c PROVE FALSE
      OBVIOUS
    <2>2. InSlot(c, s)
      <3>1. c # 0
        BY ONLY <1>3, <1>4, <2>1
      <3> QED
        BY ONLY <1>4, <3>1
    <2>3. n + MaxItem <= c
      BY ONLY <1>3, <2>1, <2>2, SlotRounds
    <2> HIDE DEF c, g
    <2> QED
      BY ONLY <1>4, <1>5, <2>3
  <1>9. CASE c = n
    BY <1>9 DEF m, s
  <1>10. CASE c < n
    <2>1. c # 0 => InSlot(c, s) /\ Msg(c).mark = Msg(n).mark
      BY ONLY <1>2, <1>3, <1>4
    <2>2. c = 0 => Msg(n).mark = 0
      BY ONLY <1>2, <1>3, <1>4
    <2>3. n > MaxItem /\ c < n - MaxItem => Late(c, n - MaxItem, s, T)
      BY ONLY <1>7
    <2> HIDE DEF c, n
    <2>4. c \in Nat /\ n \in Nat /\ InSlot(n, s)
      BY ONLY <1>3, <1>4
    <2>5. c = 0 /\ n <= (T + 1) * MaxItem /\ Late(c, n, s, T)
      BY ONLY <1>6, <1>10, <2>1, <2>2, <2>3, <2>4, LateSynced
    <2> QED
      BY ONLY <2>2, <2>5 DEF c, n, g, m, s, T
  <1>11. c \in Nat /\ n \in Nat
    BY ONLY <1>3, <1>4
  <1> HIDE DEF c, n
  <1>12. c = n \/ c < n
    BY ONLY <1>8, <1>11
  <1> QED
    BY ONLY <1>9, <1>10, <1>12 DEF c, n, g, m, s, T

LEMMA GotAppend ==
  ASSUME NEW r \in Rings, BaseInv, NEW T \in Nat, GotOK(got[r], mem[r], timeouts),
         NEW id \in Id, id \in {0, Len(got[r]) + 1}, T = timeouts \/ T = timeouts + 1,
         NEW s, InSlot(Len(got[r]) + 1, s),
         mem[r][s].id < Len(got[r]) + 1 => Late(mem[r][s].id, Len(got[r]) + 1, s, T)
  PROVE  GotOK(Append(got[r], id), mem[r], T)
  <1> DEFINE g == Len(got[r])
             h == Append(got[r], id)
             m == mem[r]
  <1>1. /\ got[r] \in Seq(Id) /\ g \in Nat /\ Len(h) = g + 1 /\ h[g+1] = id
        /\ \A i \in 1..g : h[i] = got[r][i]
    <2>1. got[r] \in Seq(Id)
      BY HostIs DEF BaseInv
    <2> QED
      BY ONLY <2>1, id \in Id
  <1>2. /\ \A i \in 1..g : got[r][i] \in {0, i}
        /\ \A z \in 0..MaxItem-1, n \in 1..g :
             InSlot(n, z) /\ m[z].id < n => Late(m[z].id, n, z, timeouts)
    BY DEF GotOK
  <1>3. timeouts \in Nat
    BY TimeoutsIs
  <1>4. \A z \in 0..MaxItem-1 : m[z].id \in Nat
    BY MemIs
  <1> HIDE DEF g, h, m
  <1>5. ASSUME NEW i \in 1..Len(h) PROVE h[i] \in {0, i}
    <2>1. CASE i = g + 1
      BY <1>1, <2>1 DEF g
    <2>2. CASE i # g + 1
      <3>1. i \in 1..g
        BY ONLY <1>1, <2>2, i \in 1..Len(h)
      <3> QED
        BY ONLY <1>1, <1>2, <3>1
    <2> QED
      BY <2>1, <2>2
  <1>6. ASSUME NEW z \in 0..MaxItem-1, NEW n \in 1..Len(h), InSlot(n, z), m[z].id < n
        PROVE  Late(m[z].id, n, z, T)
    <2>1. CASE n = g + 1
      <3>1. z = s
        BY <1>6, <2>1, SlotUnique DEF g
      <3> QED
        BY <1>6, <2>1, <3>1 DEF g, m
    <2>2. CASE n # g + 1
      <3>1. n \in 1..g /\ n \in Nat
        BY ONLY <1>1, <2>2, n \in 1..Len(h)
      <3>2. Late(m[z].id, n, z, timeouts)
        BY ONLY <1>2, <1>6, <3>1
      <3>3. Late(m[z].id, n, z, timeouts + 1)
        BY ONLY <1>3, <1>4, <3>1, <3>2, z \in 0..MaxItem-1, LateMore
      <3> QED
        BY ONLY <3>2, <3>3, T = timeouts \/ T = timeouts + 1
    <2> QED
      BY <2>1, <2>2
  <1> QED
    BY ONLY <1>5, <1>6 DEF GotOK, h, m

LEMMA TakeMain ==
  ASSUME MarksDiffer, MainInv, NEW r \in Rings, Take(r)
  PROVE  \A x \in Rings : GotOK(got'[x], mem'[x], timeouts')
  <1> DEFINE n == Len(got[r]) + 1
             s == block[r].at
             id == mem[r][s].id
  <1>1. BaseInv /\ \A x \in Rings : GotOK(got[x], mem[x], timeouts)
    BY DEF MainInv
  <1>2. /\ block[r].left # 0 /\ Synced(r) /\ timeouts' = timeouts /\ mem' = mem
        /\ got' = [got EXCEPT ![r] = Append(@, id)]
    BY DEF Take, Process
  <1>3. n \in Nat /\ InSlot(n, s) /\ s \in 0..MaxItem-1
    BY ONLY <1>1, <1>2, r \in Rings, DueIs
  <1>4. id = n \/ (id = 0 /\ Late(id, n, s, timeouts))
    BY <1>2, TakeIs
  <1>5. got \in [Rings -> Seq(Id)]
    BY <1>1 DEF BaseInv, HostType
  <1>6. id \in Id
    BY <1>1, <1>3, HostIs, MessageIs DEF BaseInv
  <1>7. timeouts \in Nat
    BY <1>1, TimeoutsIs
  <1>8. got'[r] = Append(got[r], id) /\ \A x \in Rings : x # r => got'[x] = got[x]
    <2> HIDE DEF id
    <2> QED
      BY ONLY <1>2, <1>5, r \in Rings
  <1>9. GotOK(Append(got[r], id), mem[r], timeouts)
    <2>1. id < n => Late(id, n, s, timeouts)
      <3>1. CASE id = n
        <4>1. ~(id < n)
          BY ONLY <1>3, <3>1
        <4> QED
          BY <4>1
      <3>2. CASE id = 0 /\ Late(id, n, s, timeouts)
        BY ONLY <3>2
      <3> QED
        BY ONLY <1>4, <3>1, <3>2
    <2>2. id \in {0, n}
      BY ONLY <1>4
    <2> QED
      BY ONLY <1>1, <1>3, <1>6, <1>7, <2>1, <2>2, r \in Rings, GotAppend
  <1> QED
    BY ONLY <1>1, <1>2, <1>8, <1>9

LEMMA GiveUpMain ==
  ASSUME MainInv, NEW r \in Rings, GiveUp(r)
  PROVE  \A x \in Rings : GotOK(got'[x], mem'[x], timeouts')
  <1> DEFINE g == Len(got[r])
             n == g + 1
             s == block[r].at
             c == mem[r][s].id
             T == timeouts
  <1>1. BaseInv /\ \A x \in Rings : GotOK(got[x], mem[x], T)
    BY DEF MainInv
  <1>2. /\ block[r].left # 0 /\ timeouts' = T + 1 /\ mem' = mem
        /\ got' = [got EXCEPT ![r] = Append(@, 0)]
    BY DEF GiveUp, Process
  <1>3. n \in Nat /\ n >= 1 /\ InSlot(n, s) /\ s \in 0..MaxItem-1
    BY ONLY <1>1, <1>2, r \in Rings, DueIs
  <1>4. got \in [Rings -> Seq(Id)] /\ T \in Nat /\ T + 1 \in Nat /\ g \in Nat
    BY <1>1, TimeoutsIs DEF BaseInv, HostType
  <1>5. 0 \in Id
    <2>1. load \in Loads
      BY <1>1 DEF BaseInv, ReqType
    <2> QED
      BY <2>1, Sizes, InId
  <1>6. c \in Nat /\ (c # 0 => InSlot(c, s))
    BY ONLY <1>1, <1>3, r \in Rings, MemIs
  <1>7. got'[r] = Append(got[r], 0) /\ \A x \in Rings : x # r => got'[x] = got[x]
    BY ONLY <1>2, <1>4, r \in Rings
  <1>8. GotOK(Append(got[r], 0), mem[r], T + 1)
    <2>1. ASSUME c < n PROVE Late(c, n, s, T + 1)
      <3>1. ASSUME n > MaxItem, c < n - MaxItem PROVE Late(c, n - MaxItem, s, T)
        <4>1. InSlot(n - MaxItem, s) /\ n - MaxItem \in Nat /\ n - MaxItem >= 1
          BY ONLY <1>3, <3>1, SlotBack
        <4>2. n - MaxItem \in 1..g
          <5>1. MaxItem \in Nat /\ MaxItem >= 2
            BY Sizes
          <5> HIDE DEF g
          <5> QED
            BY ONLY <1>4, <4>1, <5>1
        <4> QED
          BY ONLY <1>1, <1>3, <3>1, <4>1, <4>2, r \in Rings DEF GotOK
      <3> HIDE DEF c, n, s, T
      <3> QED
        BY ONLY <1>3, <1>4, <1>6, <2>1, <3>1, LateNext
    <2>2. 0 \in {0, n}
      OBVIOUS
    <2> QED
      BY ONLY <1>1, <1>3, <1>4, <1>5, <2>1, <2>2, r \in Rings, GotAppend
  <1>9. ASSUME NEW x \in Rings, x # r PROVE GotOK(got[x], mem[x], T + 1)
    <2>1. GotOK(got[x], mem[x], T)
      BY <1>1
    <2>2. ASSUME NEW z \in 0..MaxItem-1, NEW k \in 1..Len(got[x]), InSlot(k, z),
                 mem[x][z].id < k
          PROVE  Late(mem[x][z].id, k, z, T + 1)
      <3>1. Late(mem[x][z].id, k, z, T)
        BY ONLY <2>1, <2>2 DEF GotOK
      <3>2. mem[x][z].id \in Nat
        BY <1>1, MemIs
      <3>3. k \in Nat
        OBVIOUS
      <3> QED
        BY ONLY <1>4, <3>1, <3>2, <3>3, LateMore
    <2> QED
      BY ONLY <2>1, <2>2 DEF GotOK
  <1> QED
    BY ONLY <1>1, <1>2, <1>7, <1>8, <1>9

LEMMA LandMain ==
  ASSUME MainInv, Land
  PROVE  \A x \in Rings : GotOK(got'[x], mem'[x], timeouts')
  <1>1. BaseInv /\ \A x \in Rings : GotOK(got[x], mem[x], timeouts)
    BY DEF MainInv
  <1>2. PICK f \in out.flying :
          /\ mem' = [mem EXCEPT ![f.ring][f.slot] = f.msg]
          /\ UNCHANGED hostVars
    BY DEF Land
  <1> DEFINE r == f.ring
             s == f.slot
             d == f.msg.id
  <1>3. r \in Rings /\ s \in 0..MaxItem-1
    BY <1>1, OutTyped DEF OutType, Flight
  <1>4. got' = got /\ timeouts' = timeouts /\ timeouts \in Nat
    BY <1>1, <1>2, TimeoutsIs DEF hostVars
  <1>5. /\ mem'[r][s] = f.msg
        /\ \A z \in 0..MaxItem-1 : z # s => mem'[r][z] = mem[r][z]
        /\ \A x \in Rings : x # r => mem'[x] = mem[x]
    <2>1. mem \in [Rings -> [0..MaxItem-1 -> Message]]
      BY <1>1 DEF BaseInv, HostType
    <2> HIDE DEF r, s
    <2>2. mem' = [mem EXCEPT ![r][s] = f.msg]
      BY <1>2 DEF r, s
    <2> QED
      BY ONLY <1>3, <2>1, <2>2
  <1>6. d \in Nat /\ InSlot(d, s) /\ mem[r][s].id < d
    <2>1. PICK R : OutOK(out, sent, R, mem)
      BY <1>1 DEF BaseInv, RingInv
    <2>2. FlyOK(out.flying, r, Passed(out, r), mem[r])
      BY <1>3, <2>1 DEF OutOK, OutRing
    <2>3. d \in 1..Passed(out, r) /\ InSlot(d, s) /\ mem[r][s].id < d
      BY ONLY <2>2, f \in out.flying DEF FlyOK
    <2> QED
      BY ONLY <2>3
  <1> HIDE DEF r, s, d
  <1>7. ASSUME NEW z \in 0..MaxItem-1, NEW n \in 1..Len(got[r]), InSlot(n, z),
               mem'[r][z].id < n
        PROVE  Late(mem'[r][z].id, n, z, timeouts)
    <2>1. CASE z # s
      <3>1. mem'[r][z] = mem[r][z]
        BY ONLY <1>5, <2>1, z \in 0..MaxItem-1
      <3> QED
        BY ONLY <1>1, <1>3, <1>7, <3>1 DEF GotOK
    <2>2. CASE z = s
      <3>1. mem'[r][z].id = d
        BY <1>5, <2>2 DEF d
      <3>2. mem[r][s].id \in Nat /\ n \in Nat
        BY <1>1, <1>3, MemIs
      <3>3. mem[r][s].id < n
        BY ONLY <1>6, <1>7, <3>1, <3>2
      <3>4. Late(mem[r][s].id, n, s, timeouts)
        BY ONLY <1>1, <1>3, <1>7, <2>2, <3>3 DEF GotOK
      <3>5. Late(d, n, s, timeouts)
        BY ONLY <1>4, <1>6, <1>7, <2>2, <3>1, <3>2, <3>4, LateLand
      <3> QED
        BY ONLY <2>2, <3>1, <3>5
    <2> QED
      BY <2>1, <2>2
  <1>8. GotOK(got[r], mem'[r], timeouts)
    BY ONLY <1>1, <1>3, <1>7 DEF GotOK
  <1> QED
    BY ONLY <1>1, <1>4, <1>5, <1>8

LEMMA StepMain ==
  ASSUME MarksDiffer, MainInv, [Next]_vars PROVE MainInv'
  <1>1. BaseInv /\ \A x \in Rings : GotOK(got[x], mem[x], timeouts)
    BY DEF MainInv
  <1>2. BaseInv'
    BY <1>1, StepBase
  <1> SUFFICES \A x \in Rings : GotOK(got'[x], mem'[x], timeouts')
    BY <1>2 DEF MainInv
  <1>3. CASE UNCHANGED <<got, mem, timeouts>>
    BY <1>1, <1>3
  <1>4. ASSUME NEW r \in Rings, HostStep(r)
        PROVE  \A x \in Rings : GotOK(got'[x], mem'[x], timeouts')
    <2>1. CASE GetBlock(r) \/ UpdReadIdx(r)
      BY <1>3, <2>1 DEF GetBlock, UpdReadIdx
    <2> QED
      BY <1>4, <2>1, TakeMain, GiveUpMain DEF HostStep
  <1>5. ASSUME BusStep PROVE \A x \in Rings : GotOK(got'[x], mem'[x], timeouts')
    BY <1>3, <1>5 DEF BusStep, DrainList, EndDrain, HandleTxMetadata, HandleRxPayload,
       EndSend, FlushTx, hostVars
  <1>6. CASE FreeTxPacket \/ ReceiveChain
    BY <1>3, <1>6 DEF FreeTxPacket, ReceiveChain, hostVars
  <1>7. CASE FlushChainedPkts \/ HandleD2HDma
    BY <1>3, <1>7 DEF FlushChainedPkts, HandleD2HDma, hostVars
  <1>8. CASE UNCHANGED vars
    BY <1>3, <1>8 DEF vars, hostVars
  <1> QED
    BY <1>4, <1>5, <1>6, <1>7, <1>8, LandMain DEF Next

LEMMA InitMain ==
  ASSUME Init PROVE MainInv
  <1>1. BaseInv
    BY InitBase
  <1>2. ASSUME NEW r \in Rings PROVE GotOK(got[r], mem[r], timeouts)
    <2>1. PICK e \in Seq(Id) : e = <<>> /\ Len(e) = 0
      BY NoElement
    <2>2. got[r] = e
      BY <2>1 DEF Init
    <2>3. 1..Len(got[r]) = {}
      BY ONLY <2>1, <2>2
    <2> QED
      BY ONLY <2>3 DEF GotOK
  <1> QED
    BY ONLY <1>1, <1>2 DEF MainInv

LEMMA MainSafe == ASSUME MarksDiffer PROVE Spec => []MainInv
  <1>1. MainInv /\ [Next]_vars => MainInv'
    BY StepMain
  <1> QED
    BY <1>1, InitMain, PTL DEF Spec

-----------------------------------------------------------------------------
(* The rings are channels.                                                 *)

(* No more messages are under way than a ring holds.                       *)
Within == \A r \in Rings : sent[r] <= Len(got[r]) + (MaxItem - 1)

LEMMA WithinOf ==
  ASSUME BaseInv PROVE Within
  <1>1. ASSUME NEW r \in Rings PROVE sent[r] <= Len(got[r]) + (MaxItem - 1)
    <2> DEFINE W == Passed(out, r)
               g == Len(got[r])
    <2>1. PICK R \in [Rings -> Nat] :
            OutOK(out, sent, R, mem) /\ \A x \in Rings : HostOK(x, R[x])
      BY DEF BaseInv, RingInv
    <2>2. W \in sent[r]..(R[r] + MaxItem - 1)
      BY <2>1 DEF OutOK, OutRing
    <2>3. R[r] <= g /\ R[r] \in Nat
      BY <2>1 DEF HostOK
    <2>4. g \in Nat /\ sent[r] \in Nat /\ MaxItem \in Nat
      BY HostIs, Sizes DEF BaseInv
    <2> HIDE DEF W, g
    <2>5. sent[r] <= g + (MaxItem - 1)
      BY ONLY <2>2, <2>3, <2>4
    <2> QED
      BY ONLY <2>5 DEF g
  <1> QED
    BY <1>1 DEF Within

UpTo(n) == [i \in 1..n |-> i]

LEMMA TakenIs ==
  ASSUME MainInv PROVE \A r \in Rings : Taken(r) = UpTo(Len(got[r]))
  <1>1. ASSUME NEW r \in Rings PROVE Taken(r) = UpTo(Len(got[r]))
    <2>1. \A i \in 1..Len(got[r]) : got[r][i] \in {0, i}
      BY DEF MainInv, GotOK
    <2>2. \A i \in 1..Len(got[r]) : (IF got[r][i] = 0 THEN i ELSE got[r][i]) = i
      BY ONLY <2>1
    <2> QED
      BY ONLY <2>2 DEF Taken, UpTo
  <1> QED
    BY <1>1

LEMMA UpToIs ==
  ASSUME NEW n \in Nat
  PROVE  /\ UpTo(n) \in Seq(Nat) /\ Len(UpTo(n)) = n
         /\ UpTo(n + 1) = UpTo(n) \o [i \in 1..1 |-> n + i]
  <1> DEFINE a == UpTo(n)
             b == [i \in 1..1 |-> n + i]
             c == a \o b
  <1>1. a \in Seq(Nat) /\ Len(a) = n /\ \A i \in 1..n : a[i] = i
    BY DEF UpTo
  <1>2. b \in Seq(Nat) /\ Len(b) = 1 /\ b[1] = n + 1
    OBVIOUS
  <1> HIDE DEF a, b
  <1>3. /\ c \in Seq(Nat) /\ Len(c) = n + 1
        /\ \A i \in 1..n+1 : c[i] = IF i <= n THEN a[i] ELSE b[i - n]
    <2>1. /\ c \in Seq(Nat) /\ Len(c) = Len(a) + Len(b)
          /\ \A i \in 1..Len(a)+Len(b) :
               c[i] = IF i <= Len(a) THEN a[i] ELSE b[i - Len(a)]
      BY ONLY <1>1, <1>2, ConcatProperties
    <2> QED
      BY ONLY <1>1, <1>2, <2>1
  <1> HIDE DEF c
  <1>4. \A i \in 1..n+1 : c[i] = i
    <2>1. ASSUME NEW i \in 1..n+1 PROVE c[i] = i
      <3>1. CASE i <= n
        <4>1. i \in 1..n
          BY ONLY <3>1, i \in 1..n+1, n \in Nat
        <4> QED
          BY ONLY <1>1, <1>3, <3>1, <4>1, i \in 1..n+1
      <3>2. CASE ~(i <= n)
        <4>1. i = n + 1 /\ i - n = 1
          BY ONLY <3>2, i \in 1..n+1, n \in Nat
        <4> QED
          BY ONLY <1>2, <1>3, <3>2, <4>1, i \in 1..n+1
      <3> QED
        BY <3>1, <3>2
    <2> QED
      BY <2>1
  <1>5. DOMAIN c = 1..n+1
    BY ONLY <1>3
  <1>6. c = [i \in 1..n+1 |-> i]
    <2>1. c = [i \in DOMAIN c |-> c[i]]
      BY ONLY <1>3
    <2> QED
      BY ONLY <1>4, <1>5, <2>1
  <1> QED
    BY ONLY <1>1, <1>6 DEF a, b, c, UpTo

(* What a step does to a ring, seen by its two ends.                       *)
LEMMA RingStep ==
  ASSUME BaseInv, Within, Within', [Next]_vars, NEW r \in Rings
  PROVE  \/ sent'[r] = sent[r] /\ got'[r] = got[r]
         \/ got'[r] = got[r] /\ sent'[r] \in sent[r]+1..Len(got[r])+(MaxItem-1)
         \/ /\ sent'[r] = sent[r] /\ Len(got[r]) + 1 <= sent[r]
            /\ Len(got'[r]) = Len(got[r]) + 1
  <1>1. CASE UNCHANGED <<sent, got>>
    BY <1>1
  <1>2. ASSUME NEW x \in Rings, NEW id, Process(x, id), block[x].left # 0,
               id \in Id
        PROVE  /\ sent' = sent
               /\ \/ got'[r] = got[r]
                  \/ Len(got[r]) + 1 <= sent[r] /\ Len(got'[r]) = Len(got[r]) + 1
    <2>1. sent' = sent /\ got' = [got EXCEPT ![x] = Append(@, id)]
      BY <1>2 DEF Process
    <2>2. got \in [Rings -> Seq(Id)]
      BY DEF BaseInv, HostType
    <2>3. CASE x # r
      BY ONLY <2>1, <2>2, <2>3, x \in Rings, r \in Rings
    <2>4. CASE x = r
      <3>1. got'[r] = Append(got[r], id)
        BY ONLY <2>1, <2>2, <2>4, r \in Rings
      <3>2. got[r] \in Seq(Id)
        BY ONLY <2>2, r \in Rings
      <3>3. Len(got'[r]) = Len(got[r]) + 1
        BY ONLY <3>1, <3>2, id \in Id
      <3>4. Len(got[r]) + 1 <= sent[r]
        BY <1>2, <2>4, DueIs
      <3> QED
        BY <2>1, <3>3, <3>4
    <2> QED
      BY <2>3, <2>4
  <1>3. ASSUME NEW x \in Rings, HostStep(x)
        PROVE  /\ sent' = sent
               /\ \/ got'[r] = got[r]
                  \/ Len(got[r]) + 1 <= sent[r] /\ Len(got'[r]) = Len(got[r]) + 1
    <2>1. CASE GetBlock(x) \/ UpdReadIdx(x)
      BY <2>1 DEF GetBlock, UpdReadIdx
    <2>2. CASE Take(x)
      <3>1. block[x].left # 0 /\ Process(x, mem[x][block[x].at].id)
        BY <2>2 DEF Take
      <3>2. block[x].at \in 0..MaxItem-1
        BY <3>1, DueIs
      <3>3. mem[x][block[x].at].id \in Id
        BY <3>2, HostIs, MessageIs DEF BaseInv
      <3> QED
        BY <1>2, <3>1, <3>3
    <2>3. CASE GiveUp(x)
      <3>1. block[x].left # 0 /\ Process(x, 0)
        BY <2>3 DEF GiveUp
      <3>2. 0 \in Id
        <4>1. load \in Loads
          BY DEF BaseInv, ReqType
        <4> QED
          BY <4>1, Sizes, InId
      <3> QED
        BY <1>2, <3>1, <3>2
    <2> QED
      BY <1>3, <2>1, <2>2, <2>3 DEF HostStep
  <1>4. ASSUME HandleD2HDma
        PROVE  got' = got /\ (sent'[r] = sent[r]
                 \/ sent'[r] \in sent[r]+1..Len(got[r])+(MaxItem-1))
    <2> DEFINE e == out.q[1]
               g == Len(got[r])
    <2>1. /\ got' = got /\ out.q # <<>>
          /\ IF e.ring \in Rings THEN sent' = [sent EXCEPT ![e.ring] = @ + e.len]
             ELSE sent' = sent
      BY <1>4 DEF HandleD2HDma, hostVars
    <2>2. sent \in [Rings -> Nat] /\ g \in Nat /\ MaxItem \in Nat
      BY HostIs, Sizes DEF BaseInv, HostType
    <2>3. e.len \in Nat
      <3>1. out.q \in Seq(QEntry)
        BY OutTyped, StateIs
      <3>2. e \in QEntry
        BY ONLY <2>1, <3>1, EmptySeq
      <3> QED
        BY ONLY <3>2, Sizes DEF QEntry
    <2> HIDE DEF e
    <2>4. sent'[r] = sent[r] \/ sent'[r] = sent[r] + e.len
      BY ONLY <2>1, <2>2, r \in Rings
    <2>5. sent'[r] <= g + (MaxItem - 1)
      BY <2>1 DEF Within
    <2>6. sent[r] \in Nat
      BY <2>2
    <2> HIDE DEF g
    <2>7. sent'[r] = sent[r] \/ sent'[r] \in sent[r]+1..g+(MaxItem-1)
      BY ONLY <2>2, <2>3, <2>4, <2>5, <2>6
    <2> QED
      BY ONLY <2>1, <2>7 DEF g
  <1>5. ASSUME BusStep PROVE UNCHANGED <<sent, got>>
    BY <1>5 DEF BusStep, DrainList, EndDrain, HandleTxMetadata, HandleRxPayload,
       EndSend, FlushTx, hostVars
  <1>6. CASE FreeTxPacket \/ ReceiveChain \/ FlushChainedPkts \/ Land
    BY <1>1, <1>6 DEF FreeTxPacket, ReceiveChain, FlushChainedPkts, Land, hostVars
  <1>7. CASE UNCHANGED vars
    BY <1>1, <1>7 DEF vars, hostVars
  <1> QED
    BY <1>1, <1>3, <1>4, <1>5, <1>6, <1>7 DEF Next

(* A step of a ring is a step of its channel.                              *)
LEMMA ChannelStep ==
  ASSUME MainInv, Within, MainInv', Within', [Next]_vars
  PROVE  /\ [TxChannel!Next]_<<sent["tx"], Taken("tx")>>
         /\ [RxChannel!Next]_<<sent["rx"], Taken("rx")>>
  <1>1. \A r \in Rings : Taken(r) = UpTo(Len(got[r]))
    BY TakenIs
  <1>2. BaseInv
    BY DEF MainInv
  <1>3. \A r \in Rings : Taken(r)' = UpTo(Len(got'[r]))
    <2>1. ASSUME NEW r \in Rings
          PROVE  [i \in 1..Len(got'[r]) |-> IF got'[r][i] = 0 THEN i ELSE got'[r][i]]
                   = UpTo(Len(got'[r]))
      <3>1. \A i \in 1..Len(got'[r]) : got'[r][i] \in {0, i}
        BY DEF MainInv, GotOK
      <3>2. \A i \in 1..Len(got'[r]) : (IF got'[r][i] = 0 THEN i ELSE got'[r][i]) = i
        BY ONLY <3>1
      <3> QED
        BY ONLY <3>2 DEF UpTo
    <2> QED
      BY <2>1 DEF Taken
  <1>4. ASSUME NEW r \in Rings
        PROVE  LET s == sent[r]
                   t == sent'[r]
                   k == Taken(r)
                   l == Taken(r)'
               IN  \/ t = s /\ l = k
                   \/ t \in s+1..Len(k)+(MaxItem-1) /\ l = k
                   \/ /\ t = s
                      /\ \E n \in 1..(s - Len(k)) :
                           l = k \o [i \in 1..n |-> Len(k) + i]
    <2> DEFINE g == Len(got[r])
               h == Len(got'[r])
    <2>1. /\ g \in Nat /\ sent[r] \in Nat
          /\ \/ sent'[r] = sent[r] /\ h = g
             \/ h = g /\ sent'[r] \in sent[r]+1..g+(MaxItem-1)
             \/ sent'[r] = sent[r] /\ g + 1 <= sent[r] /\ h = g + 1
      <3>1. g \in Nat /\ sent[r] \in Nat
        BY <1>2, HostIs DEF BaseInv
      <3>2. \/ sent'[r] = sent[r] /\ got'[r] = got[r]
            \/ got'[r] = got[r] /\ sent'[r] \in sent[r]+1..g+(MaxItem-1)
            \/ sent'[r] = sent[r] /\ g + 1 <= sent[r] /\ h = g + 1
        BY <1>2, RingStep
      <3> QED
        BY ONLY <3>1, <3>2
    <2>2. Taken(r) = UpTo(g) /\ Taken(r)' = UpTo(h)
      BY <1>1, <1>3
    <2> HIDE DEF g, h
    <2>3. Len(UpTo(g)) = g /\ UpTo(g + 1) = UpTo(g) \o [i \in 1..1 |-> g + i]
      BY <2>1, UpToIs
    <2>4. CASE h = g + 1 /\ sent'[r] = sent[r] /\ g + 1 <= sent[r]
      <3>1. 1 \in 1..(sent[r] - g)
        BY ONLY <2>1, <2>4
      <3>2. Taken(r)' = UpTo(g) \o [i \in 1..1 |-> g + i]
        BY ONLY <2>2, <2>3, <2>4
      <3>3. \E n \in 1..(sent[r] - g) : Taken(r)' = UpTo(g) \o [i \in 1..n |-> g + i]
        BY ONLY <3>1, <3>2
      <3> QED
        BY ONLY <2>2, <2>3, <2>4, <3>3
    <2> QED
      BY ONLY <2>1, <2>2, <2>3, <2>4
  <1>5. "tx" \in Rings /\ "rx" \in Rings
    BY DEF Rings
  <1>6. [TxChannel!Next]_<<sent["tx"], Taken("tx")>>
    BY ONLY <1>4, <1>5 DEF TxChannel!Next, TxChannel!Send, TxChannel!Receive
  <1>7. [RxChannel!Next]_<<sent["rx"], Taken("rx")>>
    BY ONLY <1>4, <1>5 DEF RxChannel!Next, RxChannel!Send, RxChannel!Receive
  <1> QED
    BY <1>6, <1>7

(* Each completion ring hands over every message once and in order, with   *)
(* no more under way than it has slots: it implements MsgChannel, although *)
(* the host may see a write index before the messages, and may skip one.   *)
THEOREM ChannelSafe == ASSUME MarksDiffer PROVE Spec => ImplementsChannel
  <1>1. Init => TxChannel!Init /\ RxChannel!Init
    <2>1. SUFFICES ASSUME Init PROVE TxChannel!Init /\ RxChannel!Init
      OBVIOUS
    <2>2. PICK e \in Seq(Id) : e = <<>> /\ Len(e) = 0
      BY NoElement
    <2>3. \A r \in Rings : got[r] = e /\ sent[r] = 0
      BY <2>1, <2>2 DEF Init
    <2>4. ASSUME NEW r \in Rings PROVE Taken(r) = e
      <3>1. Taken(r) = UpTo(0)
        BY <2>1, <2>2, <2>3, InitMain, TakenIs
      <3>2. UpTo(0) \in Seq(Nat) /\ Len(UpTo(0)) = 0
        BY UpToIs
      <3>3. UpTo(0) = <<>>
        BY ONLY <3>2, EmptySeq
      <3> QED
        BY ONLY <2>2, <3>1, <3>3
    <2> QED
      BY ONLY <2>2, <2>3, <2>4 DEF TxChannel!Init, RxChannel!Init, Rings
  <1>2. MainInv => Within
    BY WithinOf DEF MainInv
  <1>3. MainInv /\ Within /\ MainInv' /\ Within' /\ [Next]_vars
          => /\ [TxChannel!Next]_<<sent["tx"], Taken("tx")>>
             /\ [RxChannel!Next]_<<sent["rx"], Taken("rx")>>
    BY ChannelStep
  <1>4. Spec => /\ TxChannel!Init /\ [][TxChannel!Next]_<<sent["tx"], Taken("tx")>>
                /\ RxChannel!Init /\ [][RxChannel!Next]_<<sent["rx"], Taken("rx")>>
    BY <1>1, <1>2, <1>3, MainSafe, PTL DEF Spec
  <1> QED
    BY <1>4 DEF ImplementsChannel, TxChannel!Spec, TxChannel!vars, RxChannel!Spec,
       RxChannel!vars

-----------------------------------------------------------------------------
(* What the marker tells.                                                  *)

(* When the host finds the marker it waits for (dhd_prot_d2h_sync_seqnum)  *)
(* the slot holds the message due, however far the writes of the DMA       *)
(* engine are behind; or it is cleared memory, the message due has marker  *)
(* 0, and no write has reached the slot since the ring was set up.         *)
THEOREM MarkerSafe == ASSUME MarksDiffer PROVE Spec => []MarkerTrusted
  <1>1. ASSUME MainInv PROVE MarkerTrusted
    <2>1. SUFFICES ASSUME NEW r \in Rings, block[r].left # 0, Synced(r)
                   PROVE  \/ Found(r) = Due(r)
                          \/ /\ Found(r) = 0 /\ Due(r) % Modulo = 0
                             /\ Due(r) <= (timeouts + 1) * MaxItem
      BY DEF MarkerTrusted
    <2> DEFINE n == Len(got[r]) + 1
               c == mem[r][block[r].at].id
    <2>2. c = n \/ (c = 0 /\ n <= (timeouts + 1) * MaxItem /\ Msg(n).mark = 0)
      BY <1>1, <2>1, TakeIs
    <2>3. n \in Nat
      BY <1>1, <2>1, DueIs DEF MainInv
    <2> HIDE DEF n, c
    <2>4. Msg(n).mark = 0 => n % Modulo = 0
      BY ONLY <2>3, ZeroMark
    <2>5. c = n \/ (c = 0 /\ n <= (timeouts + 1) * MaxItem /\ n % Modulo = 0)
      BY ONLY <2>2, <2>4
    <2>6. Found(r) = c /\ Due(r) = n
      BY DEF Found, Due, n, c
    <2> QED
      BY ONLY <2>5, <2>6
  <1> QED
    BY <1>1, MainSafe, PTL
=============================================================================
