--------------------------- MODULE RxReorderProofs ---------------------------
(***************************************************************************)
(* Theorems about RxReorder, for every size of the reorder queue and of    *)
(* the sequence space, every window a sender may ask for, and any number   *)
(* of frames, drops, requests and sessions.                                *)
(*                                                                         *)
(* The handlers are chains of functions on the session's record and on the *)
(* bus layer's, so the invariants are predicates on such records, which    *)
(* each function keeps.                                                    *)
(***************************************************************************)
EXTENDS RxReorder, ModProofs, SeqSumProofs, FiniteSetTheorems

W == ba_max_rx_wsize
Slots == 0..W-1

LEMMA Sizes ==
  /\ W \in Nat /\ W >= 1 /\ Wsizes \subseteq 1..W
  /\ SEQNUM_MAX \in Nat /\ SEQNUM_MAX >= 1 /\ Start \in 0..SEQNUM_MAX-1
  /\ Offsets \subseteq 0..SEQNUM_MAX-1 /\ DeadLim \in Nat /\ DeadLim >= 1
  /\ MaxFrames \in Nat
  BY ReorderAssumption DEF W

(* The sequence space is a whole number of windows.                        *)
LEMMA Windows == SEQNUM_MAX % W = 0
  <1> DEFINE m == 2 * W
             q == SEQNUM_MAX \div m
  <1>1. m \in Int /\ m > 0 /\ SEQNUM_MAX % m = 0 /\ SEQNUM_MAX \in Int
    BY Sizes, ReorderAssumption DEF W
  <1> HIDE DEF m
  <1>2. SEQNUM_MAX = q * m /\ q \in Int
    BY ONLY <1>1, ModZero
  <1> HIDE DEF q
  <1>3. SEQNUM_MAX = (q * 2) * W + 0 /\ q * 2 \in Int
    BY ONLY <1>2, Sizes DEF m
  <1> DEFINE p == q * 2
  <1>4. /\ SEQNUM_MAX \in Int /\ p \in Int /\ 0 \in Int /\ W \in Int /\ W > 0
        /\ 0 <= 0 /\ 0 < W /\ SEQNUM_MAX = p * W + 0
    BY ONLY <1>1, <1>3, Sizes
  <1> HIDE DEF p
  <1> QED
    BY ONLY <1>4, ModIs

-----------------------------------------------------------------------------
(* Slots.                                                                  *)

LEMMA SlotType ==
  ASSUME NEW e \in Nat PROVE RX_SEQ_TO_INDEX(e) \in Slots
  BY Sizes, Quotient DEF RX_SEQ_TO_INDEX, Slots, W

LEMMA SlotApart ==
  ASSUME NEW e \in Nat, NEW a \in Slots, NEW c \in Slots,
         RX_SEQ_TO_INDEX(e + a) = RX_SEQ_TO_INDEX(e + c)
  PROVE  a = c
  <1>1. /\ e \in Int /\ W \in Int /\ W > 0 /\ a \in 0..W-1 /\ c \in 0..W-1
        /\ (e + a) % W = (e + c) % W
    BY Sizes DEF RX_SEQ_TO_INDEX, Slots, W
  <1> QED
    BY ONLY <1>1, ModApart

(* NEXT_SEQ does not lose the slot.                                        *)
LEMMA SlotForward ==
  ASSUME NEW e \in Nat, NEW n \in Nat, NEW k \in Nat
  PROVE  /\ Forward(e, n) \in 0..SEQNUM_MAX-1
         /\ RX_SEQ_TO_INDEX(Forward(e, n) + k) = RX_SEQ_TO_INDEX(e + (n + k))
         /\ RX_SEQ_TO_INDEX(Forward(e, n)) = RX_SEQ_TO_INDEX(e + n)
  <1> DEFINE a == e + n
  <1>2. a \in Int /\ SEQNUM_MAX \in Int /\ SEQNUM_MAX > 0 /\ W \in Int /\ W > 0
    BY Sizes
  <1> HIDE DEF a
  <1>3. ASSUME NEW j \in Nat PROVE ((a % SEQNUM_MAX) + j) % W = (a + j) % W
    <2> DEFINE c == a % SEQNUM_MAX
               u == c + j
    <2>1. PICK q \in Int : q * W \in Int /\ a = q * W + c
      BY ONLY <1>2, Windows, ModThrough
    <2>2. c \in Int
      BY ONLY <1>2, Quotient
    <2> HIDE DEF c
    <2>3. a + j = q * W + u /\ u \in Int /\ W \in Int /\ W > 0 /\ q \in Int
      BY ONLY <1>2, <2>1, <2>2, j \in Nat
    <2> HIDE DEF u
    <2>4. (q * W + u) % W = u % W
      BY ONLY <2>3, ModShift
    <2>5. (a + j) % W = u % W
      BY ONLY <2>3, <2>4
    <2> QED
      BY ONLY <2>5 DEF u, c
  <1>4. a % SEQNUM_MAX \in 0..SEQNUM_MAX-1
    BY ONLY <1>2, Quotient
  <1>5. ((a % SEQNUM_MAX) + k) % W = (a + k) % W
    BY ONLY <1>3, k \in Nat
  <1>6. ((a % SEQNUM_MAX) + 0) % W = (a + 0) % W
    BY ONLY <1>3
  <1>7. (a % SEQNUM_MAX) + 0 = a % SEQNUM_MAX /\ a + 0 = a
    BY ONLY <1>2, <1>4
  <1>8. a + k = e + (n + k)
    BY DEF a
  <1>9. Forward(e, n) = a % SEQNUM_MAX
    BY DEF Forward, a
  <1>10. Forward(e, n) \in 0..SEQNUM_MAX-1
    BY ONLY <1>4, <1>9
  <1>11. RX_SEQ_TO_INDEX(Forward(e, n) + k) = RX_SEQ_TO_INDEX(e + (n + k))
    BY ONLY <1>5, <1>8, <1>9 DEF RX_SEQ_TO_INDEX, W
  <1>12. RX_SEQ_TO_INDEX(Forward(e, n)) = RX_SEQ_TO_INDEX(e + n)
    BY ONLY <1>6, <1>7, <1>9 DEF RX_SEQ_TO_INDEX, W, a
  <1> QED
    BY ONLY <1>10, <1>11, <1>12

-----------------------------------------------------------------------------
(* What a move of the window passes.                                       *)

(* f holds what is passed by the first k of m steps.                       *)
Walk(r, m, f) ==
  f = [k \in 0..m |->
         IF k = 0 THEN <<>>
         ELSE IF Pending(r, r.exp_seq + (k - 1))
         THEN Link(f[k-1], r.rxq[RX_SEQ_TO_INDEX(r.exp_seq + (k - 1))])
         ELSE f[k-1]]

LEMMA WalkMore ==
  ASSUME NEW r, NEW m \in Nat, \E f : Walk(r, m, f)
  PROVE  \E f : Walk(r, m + 1, f)
  <1>1. PICK f : Walk(r, m, f)
    OBVIOUS
  <1> DEFINE More(k, ids) ==
               IF Pending(r, r.exp_seq + (k - 1))
               THEN Link(ids, r.rxq[RX_SEQ_TO_INDEX(r.exp_seq + (k - 1))])
               ELSE ids
             g == [k \in 0..m+1 |-> IF k = m + 1 THEN More(k, f[m]) ELSE f[k]]
  <1>2. f = [k \in 0..m |-> IF k = 0 THEN <<>> ELSE More(k, f[k-1])]
    BY <1>1 DEF Walk
  <1> HIDE DEF More
  <1>3. \A k \in 0..m : g[k] = f[k]
    OBVIOUS
  <1>4. ASSUME NEW k \in 0..m+1
        PROVE  g[k] = IF k = 0 THEN <<>> ELSE More(k, g[k-1])
    <2>1. CASE k = m + 1
      <3>1. k # 0 /\ k - 1 = m /\ m \in 0..m
        BY <2>1
      <3> QED
        BY <2>1, <3>1, <1>3
    <2>2. CASE k # m + 1
      <3>1. k \in 0..m /\ (k # 0 => k - 1 \in 0..m)
        BY <2>2
      <3>2. f[k] = IF k = 0 THEN <<>> ELSE More(k, f[k-1])
        BY <1>2, <3>1
      <3> QED
        BY <1>3, <3>1, <3>2
    <2> QED
      BY <2>1, <2>2
  <1>5. g = [k \in 0..m+1 |-> IF k = 0 THEN <<>> ELSE More(k, g[k-1])]
    BY <1>4
  <1>6. Walk(r, m + 1, g)
    BY <1>5 DEF Walk, More
  <1> QED
    BY <1>6

LEMMA WalkExists ==
  ASSUME NEW r, NEW m \in Nat PROVE \E f : Walk(r, m, f)
  <1> DEFINE T == {k \in 0..m : \E f : Walk(r, k, f)}
             z == [k \in 0..0 |-> <<>>]
  <1>1. 0 \in T
    <2>1. Walk(r, 0, z)
      BY DEF Walk
    <2> QED
      BY <2>1
  <1>2. ASSUME NEW k \in 0..m, k \in T, k < m PROVE k + 1 \in T
    <2>1. k \in Nat /\ k + 1 \in 0..m
      BY <1>2
    <2> QED
      BY <1>2, <2>1, WalkMore
  <1>3. \A k \in 0..m : k \in T /\ k < m => k + 1 \in T
    BY <1>2
  <1> HIDE DEF T
  <1>4. m \in T
    BY <1>1, <1>3, SetInduction
  <1> QED
    BY <1>4 DEF T

(* No more steps than there are slots.                                     *)
Steps(n) == Min({n, ba_max_rx_wsize})

LEMMA StepsType ==
  ASSUME NEW n \in Nat
  PROVE  Steps(n) \in Nat /\ Steps(n) <= W /\ (n <= W => Steps(n) = n)
         /\ (n > W => Steps(n) = W)
  <1>1. W \in Nat /\ {n, ba_max_rx_wsize} = {n, W}
    BY Sizes DEF W
  <1>2. \E x \in {n, W} : \A y \in {n, W} : x =< y
    BY <1>1
  <1>3. Steps(n) \in {n, W} /\ \A y \in {n, W} : Steps(n) =< y
    BY <1>1, <1>2 DEF Steps, Min
  <1> QED
    BY <1>1, <1>3

LEMMA PassedIs ==
  ASSUME NEW r, NEW n \in Nat
  PROVE  \E f : Passed(r, n) = f[Steps(n)] /\ Walk(r, Steps(n), f)
  <1>1. Passed(r, n) = (CHOOSE f : Walk(r, Steps(n), f))[Steps(n)]
    BY DEF Passed, Walk, Steps
  <1>2. Steps(n) \in Nat
    BY StepsType
  <1>3. Walk(r, Steps(n), CHOOSE f : Walk(r, Steps(n), f))
    BY <1>2, WalkExists
  <1> QED
    BY <1>1, <1>3

-----------------------------------------------------------------------------
(* The window, the chain and the order in which frames go.                 *)

RespType ==
  [ba_wsize : Wsizes, exp_seq : 0..SEQNUM_MAX-1, queued : Nat, alive : BOOLEAN,
   dead_cnt : 0..DeadLim-1, rxq : [Slots -> 0..MaxFrames], rxcpl_list : Seq(Frames)]

Places == Seq(Nat \X Nat)

Ids(r) == {r.rxq[i] : i \in Slots} \ {0}
At(r, off) == RX_SEQ_TO_INDEX(r.exp_seq + off)

(* Every id of r belongs to a frame of session s in the window that starts *)
(* at place b, and stands in the slot of its place; queued counts them.    *)
InSlots(r, N, s, b) ==
  \A i \in Slots : r.rxq[i] # 0 =>
    \E off \in 0..r.ba_wsize-1 :
      r.rxq[i] \in DOMAIN N /\ N[r.rxq[i]] = <<s, b + off>> /\ i = At(r, off)

Stored(r, N, s, b) ==
  r \in RespType /\ r.queued = Cardinality(Ids(r)) /\ InSlots(r, N, s, b)

(* Nothing is stored for the expected frame, and no id is on the chain.    *)
Clear(r) == r.rxq[At(r, 0)] = 0 /\ r.rxcpl_list = <<>>

Before(p, q) == p[1] < q[1] \/ (p[1] = q[1] /\ p[2] < q[2])

(* L lists frames in the order of their places, all before place b of s.   *)
InTurn(L, N, s, b) ==
  /\ L \in Seq(Frames)
  /\ \A j \in 1..Len(L) : L[j] \in DOMAIN N /\ Before(N[L[j]], <<s, b>>)
  /\ \A j \in 1..Len(L)-1 : Before(N[L[j]], N[L[j+1]])

LEMMA ToSetAppend ==
  ASSUME NEW X, NEW t \in Seq(X), NEW x
  PROVE  ToSet(Append(t, x)) = ToSet(t) \union {x}
  <1> DEFINE u == Append(t, x)
  <1>1. /\ Len(t) \in Nat /\ DOMAIN t = 1..Len(t) /\ DOMAIN u = 1..Len(t)+1
        /\ u[Len(t)+1] = x /\ \A k \in 1..Len(t) : u[k] = t[k]
    OBVIOUS
  <1> HIDE DEF u
  <1>2. \A k \in DOMAIN u : k = Len(t) + 1 \/ k \in DOMAIN t
    BY ONLY <1>1
  <1>3. Len(t) + 1 \in DOMAIN u /\ \A k \in DOMAIN t : k \in DOMAIN u /\ u[k] = t[k]
    BY ONLY <1>1
  <1>4. {u[k] : k \in DOMAIN u} = {t[k] : k \in DOMAIN t} \union {x}
    BY ONLY <1>1, <1>2, <1>3
  <1> QED
    BY ONLY <1>4 DEF ToSet, u

LEMMA BeforeThen ==
  ASSUME NEW p \in Nat \X Nat, NEW s \in Nat, NEW b \in Nat, Before(p, <<s, b>>)
  PROVE  /\ \A c \in Nat : b <= c => Before(p, <<s, c>>)
         /\ Before(p, <<s + 1, 0>>)
         /\ p # <<s, b>>
  BY DEF Before

LEMMA TurnLater ==
  ASSUME NEW L, NEW N \in Places, NEW s \in Nat, NEW b \in Nat, NEW c \in Nat, b <= c,
         InTurn(L, N, s, b)
  PROVE  InTurn(L, N, s, c)
  <1>1. ASSUME NEW f \in DOMAIN N, Before(N[f], <<s, b>>) PROVE Before(N[f], <<s, c>>)
    <2>1. N[f] \in Nat \X Nat
      BY DEF Places
    <2> QED
      BY <1>1, <2>1, BeforeThen
  <1> QED
    BY <1>1 DEF InTurn

LEMMA TurnNext ==
  ASSUME NEW L, NEW N \in Places, NEW s \in Nat, NEW b \in Nat, InTurn(L, N, s, b)
  PROVE  InTurn(L, N, s + 1, 0)
  <1>1. ASSUME NEW f \in DOMAIN N, Before(N[f], <<s, b>>) PROVE Before(N[f], <<s + 1, 0>>)
    <2>1. N[f] \in Nat \X Nat
      BY DEF Places
    <2> QED
      BY <1>1, <2>1, BeforeThen
  <1> QED
    BY <1>1 DEF InTurn

LEMMA PlacesMore ==
  ASSUME NEW N \in Places, NEW p \in Nat \X Nat
  PROVE  /\ Append(N, p) \in Places /\ Len(Append(N, p)) = Len(N) + 1
         /\ DOMAIN N = 1..Len(N) /\ Len(N) \in Nat
         /\ Len(N) + 1 \in DOMAIN Append(N, p) /\ Append(N, p)[Len(N) + 1] = p
         /\ Len(N) + 1 \notin DOMAIN N
         /\ \A f \in DOMAIN N : f \in DOMAIN Append(N, p) /\ Append(N, p)[f] = N[f]
  BY DEF Places

LEMMA TurnMore ==
  ASSUME NEW L, NEW N \in Places, NEW s \in Nat, NEW b \in Nat, NEW p \in Nat \X Nat,
         InTurn(L, N, s, b)
  PROVE  InTurn(L, Append(N, p), s, b)
  <1> DEFINE M == Append(N, p)
  <1>1. \A f \in DOMAIN N : f \in DOMAIN M /\ M[f] = N[f]
    BY PlacesMore
  <1> HIDE DEF M
  <1>2. \A j \in 1..Len(L)-1 : j \in 1..Len(L) /\ j + 1 \in 1..Len(L)
    BY DEF InTurn
  <1>3. InTurn(L, M, s, b)
    BY <1>1, <1>2 DEF InTurn
  <1> QED
    BY <1>3 DEF M

LEMMA TurnAppend ==
  ASSUME NEW L, NEW N \in Places, NEW s \in Nat, NEW b \in Nat, InTurn(L, N, s, b),
         NEW f \in Frames, f \in DOMAIN N, N[f] = <<s, b>>
  PROVE  InTurn(Append(L, f), N, s, b + 1)
  <1> DEFINE M == Append(L, f)
             n == Len(L)
  <1>1. /\ n \in Nat /\ M \in Seq(Frames) /\ Len(M) = n + 1 /\ M[n+1] = f
        /\ \A j \in 1..n : M[j] = L[j]
    BY DEF InTurn
  <1>2. InTurn(L, N, s, b + 1)
    <2>1. b + 1 \in Nat /\ b <= b + 1
      OBVIOUS
    <2> QED
      BY <2>1, TurnLater
  <1>3. Before(<<s, b>>, <<s, b + 1>>)
    BY DEF Before
  <1>4. \A j \in 1..n : L[j] \in DOMAIN N /\ Before(N[L[j]], <<s, b + 1>>)
    BY <1>2 DEF InTurn
  <1>5. \A j \in 1..n : L[j] \in DOMAIN N /\ Before(N[L[j]], <<s, b>>)
    BY DEF InTurn
  <1>6. \A j \in 1..n-1 : Before(N[L[j]], N[L[j+1]])
    BY DEF InTurn
  <1> HIDE DEF M, n
  <1>7. ASSUME NEW j \in 1..n+1 PROVE M[j] \in DOMAIN N /\ Before(N[M[j]], <<s, b + 1>>)
    <2>1. CASE j = n + 1
      BY ONLY <2>1, <1>1, <1>3, f \in DOMAIN N, N[f] = <<s, b>>
    <2>2. CASE j # n + 1
      <3>1. j \in 1..n
        BY ONLY <2>2, <1>1, j \in 1..n+1
      <3> QED
        BY ONLY <3>1, <1>1, <1>4
    <2> QED
      BY <2>1, <2>2
  <1>8. ASSUME NEW j \in 1..n PROVE Before(N[M[j]], N[M[j+1]])
    <2>1. CASE j = n
      <3>1. M[j] = L[j] /\ M[j+1] = f
        BY ONLY <2>1, <1>1, j \in 1..n
      <3> QED
        BY ONLY <3>1, <1>5, N[f] = <<s, b>>, j \in 1..n
    <2>2. CASE j # n
      <3>1. j \in 1..n-1 /\ j + 1 \in 1..n
        BY ONLY <2>2, <1>1, j \in 1..n
      <3> QED
        BY ONLY <3>1, <1>1, <1>6, j \in 1..n
    <2> QED
      BY <2>1, <2>2
  <1>9. (n + 1) - 1 = n
    BY ONLY <1>1
  <1>10. InTurn(M, N, s, b + 1)
    BY ONLY <1>1, <1>7, <1>8, <1>9 DEF InTurn
  <1> QED
    BY <1>10 DEF M

-----------------------------------------------------------------------------
(* Ids in their slots.                                                     *)

LEMMA RespFields ==
  ASSUME NEW r \in RespType
  PROVE  /\ r.ba_wsize \in 1..W /\ r.ba_wsize \in Wsizes /\ r.exp_seq \in Nat
         /\ r.exp_seq \in 0..SEQNUM_MAX-1 /\ r.queued \in Nat /\ r.alive \in BOOLEAN
         /\ r.dead_cnt \in 0..DeadLim-1 /\ r.rxq \in [Slots -> 0..MaxFrames]
         /\ r.rxcpl_list \in Seq(Frames)
         /\ \A i \in Slots : r.rxq[i] # 0 => r.rxq[i] \in Frames
  <1>1. /\ r.ba_wsize \in Wsizes /\ r.exp_seq \in 0..SEQNUM_MAX-1 /\ r.queued \in Nat
        /\ r.alive \in BOOLEAN /\ r.dead_cnt \in 0..DeadLim-1
        /\ r.rxq \in [Slots -> 0..MaxFrames] /\ r.rxcpl_list \in Seq(Frames)
    BY DEF RespType
  <1>2. r.ba_wsize \in 1..W /\ r.exp_seq \in Nat
    BY <1>1, Sizes
  <1>3. ASSUME NEW i \in Slots, r.rxq[i] # 0 PROVE r.rxq[i] \in Frames
    <2>1. r.rxq[i] \in 0..MaxFrames
      BY <1>1
    <2> QED
      BY <1>3, <2>1, Sizes DEF Frames
  <1> QED
    BY <1>1, <1>2, <1>3

LEMMA AtSlot ==
  ASSUME NEW r \in RespType
  PROVE  /\ \A a \in Nat : At(r, a) \in Slots
         /\ \A a, c \in Slots : At(r, a) = At(r, c) => a = c
         /\ Slots \subseteq Nat /\ 0 \in Slots
  <1>1. r.exp_seq \in Nat
    BY RespFields
  <1>2. Slots \subseteq Nat /\ 0 \in Slots
    BY Sizes DEF Slots
  <1>3. ASSUME NEW a \in Nat PROVE At(r, a) \in Slots
    <2>1. r.exp_seq + a \in Nat
      BY <1>1
    <2> QED
      BY <2>1, SlotType DEF At
  <1>4. ASSUME NEW a \in Slots, NEW c \in Slots, At(r, a) = At(r, c) PROVE a = c
    BY <1>1, <1>4, SlotApart DEF At
  <1> QED
    BY <1>2, <1>3, <1>4

(* The id in the slot of the a-th place is that place's frame.             *)
LEMMA StoredAt ==
  ASSUME NEW r \in RespType, NEW N, NEW s, NEW b, InSlots(r, N, s, b),
         NEW a \in Slots, r.rxq[At(r, a)] # 0
  PROVE  /\ r.rxq[At(r, a)] \in DOMAIN N /\ N[r.rxq[At(r, a)]] = <<s, b + a>>
         /\ r.rxq[At(r, a)] \in Frames /\ a < r.ba_wsize
  <1> DEFINE i == At(r, a)
  <1>1. a \in Nat /\ i \in Slots /\ r.ba_wsize \in 1..W /\ W \in Nat
    BY AtSlot, RespFields, Sizes
  <1>2. PICK off \in 0..r.ba_wsize-1 :
          r.rxq[i] \in DOMAIN N /\ N[r.rxq[i]] = <<s, b + off>> /\ i = At(r, off)
    BY <1>1 DEF InSlots
  <1>3. off \in Slots
    BY <1>1 DEF Slots
  <1>4. off = a
    BY <1>2, <1>3, AtSlot
  <1>5. r.rxq[i] \in Frames
    BY <1>1, RespFields
  <1> QED
    BY <1>1, <1>2, <1>4, <1>5

(* One id, one slot.                                                       *)
LEMMA StoredOnce ==
  ASSUME NEW r \in RespType, NEW N, NEW s, NEW b \in Nat, InSlots(r, N, s, b),
         NEW a \in Slots, NEW c \in Slots, r.rxq[At(r, a)] # 0,
         r.rxq[At(r, a)] = r.rxq[At(r, c)]
  PROVE  a = c
  <1>1. N[r.rxq[At(r, a)]] = <<s, b + a>>
    BY StoredAt
  <1>2. N[r.rxq[At(r, c)]] = <<s, b + c>>
    BY StoredAt
  <1>3. b + a = b + c
    BY <1>1, <1>2
  <1> QED
    BY <1>3, AtSlot

LEMMA IdsFinite ==
  ASSUME NEW r \in RespType
  PROVE  IsFiniteSet(Ids(r)) /\ Cardinality(Ids(r)) \in Nat /\ Cardinality(Ids(r)) <= W
  <1> DEFINE V == {r.rxq[i] : i \in Slots}
             g == [i \in Slots |-> r.rxq[i]]
  <1>1. IsFiniteSet(Slots) /\ Cardinality(Slots) = W
    <2>1. 0 \in Int /\ W-1 \in Int /\ W \in Nat /\ W >= 1
      BY Sizes
    <2> QED
      BY <2>1, FS_Interval DEF Slots
  <1>2. g \in Surjection(Slots, V)
    BY DEF Surjection
  <1>3. IsFiniteSet(V) /\ Cardinality(V) <= Cardinality(Slots)
    BY <1>1, <1>2, FS_Surjection
  <1>4. Ids(r) \in SUBSET V
    BY DEF Ids
  <1> HIDE DEF V
  <1>5. IsFiniteSet(Ids(r)) /\ Cardinality(Ids(r)) <= Cardinality(V)
    BY <1>3, <1>4, FS_Subset
  <1>6. Cardinality(Ids(r)) \in Nat /\ Cardinality(V) \in Nat
    BY <1>3, <1>5, FS_CardinalityType
  <1> QED
    BY ONLY <1>1, <1>3, <1>5, <1>6, Sizes

LEMMA ConcatAppend ==
  ASSUME NEW X, NEW t \in Seq(X), NEW u \in Seq(X), NEW x \in X
  PROVE  Append(t \o u, x) = t \o Append(u, x)
  <1> DEFINE p == Append(t \o u, x)
             q == t \o Append(u, x)
             v == Append(u, x)
  <1>1. /\ v \in Seq(X) /\ Len(v) = Len(u) + 1 /\ v[Len(u)+1] = x
        /\ \A k \in 1..Len(u) : v[k] = u[k]
    OBVIOUS
  <1>2. /\ t \o u \in Seq(X) /\ Len(t \o u) = Len(t) + Len(u) /\ Len(t) \in Nat /\ Len(u) \in Nat
        /\ \A k \in 1..Len(t)+Len(u) : (t \o u)[k] = IF k <= Len(t) THEN t[k] ELSE u[k - Len(t)]
    BY ConcatProperties
  <1> HIDE DEF v
  <1>3. /\ q \in Seq(X) /\ Len(q) = Len(t) + Len(v)
        /\ \A k \in 1..Len(t)+Len(v) : q[k] = IF k <= Len(t) THEN t[k] ELSE v[k - Len(t)]
    BY <1>1, ConcatProperties DEF v
  <1> DEFINE w == t \o u
  <1>4. /\ p \in Seq(X) /\ Len(p) = Len(w) + 1 /\ p[Len(w)+1] = x
        /\ \A k \in 1..Len(w) : p[k] = w[k]
    BY <1>2
  <1> HIDE DEF p, q
  <1>5. Len(p) = Len(q) /\ Len(q) = Len(t) + Len(u) + 1
    BY <1>1, <1>2, <1>3, <1>4
  <1>6. ASSUME NEW k \in 1..Len(p) PROVE p[k] = q[k]
    <2>1. CASE k = Len(t) + Len(u) + 1
      <3>1. p[k] = x
        BY <2>1, <1>2, <1>4
      <3>2. ~(k <= Len(t)) /\ k - Len(t) = Len(u) + 1 /\ k \in 1..Len(t)+Len(v)
        BY <2>1, <1>1, <1>2
      <3>3. q[k] = v[Len(u)+1]
        BY <1>3, <3>2
      <3> QED
        BY <1>1, <3>1, <3>3
    <2>2. CASE k # Len(t) + Len(u) + 1
      <3>1. k \in 1..Len(t)+Len(u) /\ k \in 1..Len(w) /\ k \in 1..Len(t)+Len(v)
        BY <2>2, <1>1, <1>2, <1>5
      <3>2. p[k] = IF k <= Len(t) THEN t[k] ELSE u[k - Len(t)]
        BY <1>2, <1>4, <3>1
      <3>3. q[k] = IF k <= Len(t) THEN t[k] ELSE v[k - Len(t)]
        BY <1>3, <3>1
      <3>4. ~(k <= Len(t)) => k - Len(t) \in 1..Len(u)
        BY <1>2, <3>1
      <3> QED
        BY <1>1, <3>2, <3>3, <3>4
    <2> QED
      BY <2>1, <2>2
  <1>7. p = q
    BY <1>3, <1>4, <1>5, <1>6, SeqEqual
  <1> QED
    BY <1>7 DEF p, q

(* The steps of a move: what is passed is a list of the frames stored for  *)
(* the places passed, in the order of the places, each once.               *)
PassedBy(r, k) == {r.rxq[At(r, j)] : j \in 0..k-1} \ {0}

LEMMA WalkKeeps ==
  ASSUME NEW r \in RespType, NEW N \in Places, NEW s \in Nat, NEW b \in Nat,
         InSlots(r, N, s, b), NEW L \in Seq(Frames), InTurn(L, N, s, b),
         NEW m \in Nat, m <= W, NEW f, Walk(r, m, f)
  PROVE  /\ f[m] \in Seq(Frames) /\ InTurn(L \o f[m], N, s, b + m)
         /\ ToSet(f[m]) = PassedBy(r, m)
         /\ IsFiniteSet(ToSet(f[m])) /\ Cardinality(ToSet(f[m])) = Len(f[m])
  <1> DEFINE id(k) == r.rxq[At(r, k)]
             T == {k \in 0..m : /\ f[k] \in Seq(Frames) /\ InTurn(L \o f[k], N, s, b + k)
                                /\ ToSet(f[k]) = PassedBy(r, k)
                                /\ IsFiniteSet(ToSet(f[k]))
                                /\ Cardinality(ToSet(f[k])) = Len(f[k])}
  <1>1. /\ f[0] = <<>>
        /\ \A k \in 0..m-1 : f[k+1] = IF id(k) # 0 THEN Append(f[k], id(k)) ELSE f[k]
    <2>1. \A k \in 0..m : f[k] =
            IF k = 0 THEN <<>>
            ELSE IF Pending(r, r.exp_seq + (k - 1))
            THEN Link(f[k-1], r.rxq[RX_SEQ_TO_INDEX(r.exp_seq + (k - 1))])
            ELSE f[k-1]
      BY DEF Walk
    <2>2. ASSUME NEW k \in 0..m-1
          PROVE  f[k+1] = IF id(k) # 0 THEN Append(f[k], id(k)) ELSE f[k]
      <3>1. k + 1 \in 0..m /\ k + 1 # 0 /\ (k + 1) - 1 = k
        OBVIOUS
      <3> QED
        BY <2>1, <3>1 DEF Pending, Link, At
    <2> QED
      BY <2>1, <2>2
  <1>2. 0 \in T
    <2>1. f[0] \in Seq(Frames) /\ Len(f[0]) = 0 /\ ToSet(f[0]) = {}
      BY <1>1 DEF ToSet
    <2>2. L \o f[0] = L /\ b + 0 = b
      BY <1>1, ConcatEmptySeq
    <2>3. PassedBy(r, 0) = {}
      BY DEF PassedBy
    <2>4. InTurn(L \o f[0], N, s, b + 0)
      BY <2>2
    <2>5. IsFiniteSet({}) /\ Cardinality({}) = 0
      BY FS_EmptySet
    <2>6. 0 \in 0..m
      OBVIOUS
    <2> QED
      BY ONLY <2>1, <2>3, <2>4, <2>5, <2>6 DEF T
  <1>3. ASSUME NEW k \in 0..m, k \in T, k < m PROVE k + 1 \in T
    <2>1. k \in Nat /\ k \in 0..m-1 /\ k + 1 \in 0..m /\ k \in Slots
      BY <1>3, Sizes DEF Slots
    <2>2. /\ f[k] \in Seq(Frames) /\ InTurn(L \o f[k], N, s, b + k)
          /\ ToSet(f[k]) = PassedBy(r, k)
          /\ IsFiniteSet(ToSet(f[k])) /\ Cardinality(ToSet(f[k])) = Len(f[k])
      BY <1>3
    <2>3. f[k+1] = IF id(k) # 0 THEN Append(f[k], id(k)) ELSE f[k]
      BY <1>1, <2>1
    <2>4. b + k \in Nat /\ b + (k + 1) \in Nat /\ b + (k + 1) = (b + k) + 1 /\ b + k <= b + (k + 1)
      BY <2>1
    <2>5. PassedBy(r, k + 1) = PassedBy(r, k) \union ({id(k)} \ {0})
      <3>1. 0..(k+1)-1 = (0..k-1) \union {k}
        BY <2>1
      <3> QED
        BY <3>1 DEF PassedBy
    <2>6. CASE id(k) = 0
      <3>1. f[k+1] = f[k]
        BY <2>3, <2>6
      <3>2. InTurn(L \o f[k], N, s, b + (k + 1))
        BY <2>2, <2>4, TurnLater
      <3>3. PassedBy(r, k + 1) = PassedBy(r, k)
        BY <2>5, <2>6
      <3> QED
        BY <2>1, <2>2, <3>1, <3>2, <3>3
    <2>7. CASE id(k) # 0
      <3>1. id(k) \in DOMAIN N /\ N[id(k)] = <<s, b + k>> /\ id(k) \in Frames
        BY <2>1, <2>7, StoredAt
      <3>2. id(k) \notin PassedBy(r, k)
        <4>1. SUFFICES ASSUME NEW j \in 0..k-1, id(j) = id(k) PROVE FALSE
          BY DEF PassedBy
        <4>2. j \in Slots /\ j # k
          BY <2>1, Sizes DEF Slots
        <4> QED
          BY <2>1, <2>7, <4>1, <4>2, StoredOnce
      <3> DEFINE x == id(k)
                 g == f[k]
                 M == L \o g
                 c == b + k
      <3>3. /\ x \in DOMAIN N /\ N[x] = <<s, c>> /\ x \in Frames
            /\ g \in Seq(Frames) /\ InTurn(M, N, s, c) /\ c \in Nat
            /\ IsFiniteSet(ToSet(g)) /\ Cardinality(ToSet(g)) = Len(g)
            /\ f[k+1] = Append(g, x) /\ x \notin ToSet(g)
        BY <2>2, <2>3, <2>4, <2>7, <3>1, <3>2
      <3>4. PassedBy(r, k + 1) = ToSet(g) \union {x}
        BY <2>2, <2>5, <2>7
      <3> HIDE DEF x, g, c
      <3>5. Append(M, x) = L \o Append(g, x)
        <4>1. L \in Seq(Frames) /\ g \in Seq(Frames) /\ x \in Frames
          BY ONLY <3>3, L \in Seq(Frames)
        <4>2. Append(L \o g, x) = L \o Append(g, x)
          BY ONLY <4>1, ConcatAppend
        <4> QED
          BY ONLY <4>2 DEF M
      <3> HIDE DEF M
      <3>6. InTurn(Append(M, x), N, s, c + 1)
        BY ONLY <3>3, N \in Places, s \in Nat, TurnAppend
      <3>7. ToSet(Append(g, x)) = ToSet(g) \union {x}
        BY ONLY <3>3, ToSetAppend
      <3>8. /\ IsFiniteSet(ToSet(g) \union {x})
            /\ Cardinality(ToSet(g) \union {x}) = Cardinality(ToSet(g)) + 1
        BY ONLY <3>3, FS_AddElement
      <3>9. Append(g, x) \in Seq(Frames) /\ Len(Append(g, x)) = Len(g) + 1
        BY ONLY <3>3
      <3>10. InTurn(L \o f[k+1], N, s, b + (k + 1))
        BY <2>4, <3>3, <3>5, <3>6 DEF c
      <3> QED
        BY ONLY <2>1, <3>3, <3>4, <3>7, <3>8, <3>9, <3>10 DEF T
    <2> QED
      BY <2>6, <2>7
  <1>4. \A k \in 0..m : k \in T /\ k < m => k + 1 \in T
    BY <1>3
  <1> HIDE DEF T
  <1>5. m \in T
    BY <1>2, <1>4, SetInduction
  <1> QED
    BY <1>5 DEF T

-----------------------------------------------------------------------------
(* wlc_ampdu_release_n_ordered.                                            *)

(* q is what a move by n leaves of r.                                      *)
Moves(r, q, n) ==
  /\ q.ba_wsize = r.ba_wsize
  /\ \A k \in Nat : At(q, k) = At(r, n + k)
  /\ \A i \in Slots : q.rxq[i] \in {0, r.rxq[i]}
  /\ \A j \in Slots : j < n => q.rxq[At(r, j)] = 0
  /\ n >= W => Ids(q) = {}
  /\ \E ids \in Seq(Frames) :
       /\ q.rxcpl_list = r.rxcpl_list \o ids
       /\ ToSet(ids) \subseteq Ids(r) /\ Ids(q) = Ids(r) \ ToSet(ids)

LEMMA ReleaseKeeps ==
  ASSUME NEW r \in RespType, NEW N \in Places, NEW s \in Nat, NEW b \in Nat,
         Stored(r, N, s, b), NEW L \in Seq(Frames), InTurn(L \o r.rxcpl_list, N, s, b),
         NEW n \in Nat
  PROVE  LET q == ReleaseN(r, n)
         IN  /\ Stored(q, N, s, b + n) /\ InTurn(L \o q.rxcpl_list, N, s, b + n)
             /\ Moves(r, q, n)
  <1> DEFINE q == ReleaseN(r, n)
             ids == Passed(r, n)
             m == Steps(n)
             e2 == Forward(r.exp_seq, n)
             al2 == r.alive \/ n > 0
             qu2 == r.queued - Len(ids)
             rx2 == [i \in Slots |-> IF r.rxq[i] \in ToSet(ids) THEN 0 ELSE r.rxq[i]]
             l2 == r.rxcpl_list \o ids
  <1>1. /\ r.ba_wsize \in 1..W /\ r.exp_seq \in Nat /\ r.queued \in Nat /\ r.alive \in BOOLEAN
        /\ r.rxq \in [Slots -> 0..MaxFrames] /\ r.rxcpl_list \in Seq(Frames)
        /\ \A i \in Slots : r.rxq[i] # 0 => r.rxq[i] \in Frames
        /\ DOMAIN r.rxq = Slots
    BY RespFields
  <1>2. m \in Nat /\ m <= W /\ m <= n /\ (n <= W => m = n) /\ (n > W => m = W) /\ W \in Nat
    BY StepsType, Sizes
  <1>3. /\ r.queued = Cardinality(Ids(r)) /\ InSlots(r, N, s, b)
    BY DEF Stored
  <1> DEFINE M == L \o r.rxcpl_list
  <1>4. M \in Seq(Frames) /\ InTurn(M, N, s, b)
    BY <1>1
  <1>5. PICK f : ids = f[m] /\ Walk(r, m, f)
    BY PassedIs
  <1> HIDE DEF M, ids, m
  <1>6. /\ f[m] \in Seq(Frames) /\ InTurn(M \o f[m], N, s, b + m)
        /\ ToSet(f[m]) = PassedBy(r, m)
        /\ IsFiniteSet(ToSet(f[m])) /\ Cardinality(ToSet(f[m])) = Len(f[m])
    BY <1>2, <1>3, <1>4, <1>5, WalkKeeps
  <1>7. /\ ids \in Seq(Frames) /\ InTurn(M \o ids, N, s, b + m) /\ ToSet(ids) = PassedBy(r, m)
        /\ IsFiniteSet(ToSet(ids)) /\ Cardinality(ToSet(ids)) = Len(ids) /\ Len(ids) \in Nat
    BY <1>5, <1>6
  <1>8. M \o ids = L \o l2 /\ l2 \in Seq(Frames)
    <2> DEFINE rl == r.rxcpl_list
    <2>1. L \in Seq(Frames) /\ rl \in Seq(Frames) /\ ids \in Seq(Frames)
      BY <1>1, <1>7
    <2> HIDE DEF rl
    <2>2. (L \o rl) \o ids = L \o (rl \o ids)
      BY ONLY <2>1, ConcatAssociative
    <2>3. rl \o ids \in Seq(Frames)
      BY ONLY <2>1, ConcatProperties
    <2> QED
      BY ONLY <2>2, <2>3 DEF M, rl, l2
  <1>9. InTurn(L \o l2, N, s, b + n)
    <2>1. b + m \in Nat /\ b + n \in Nat /\ b + m <= b + n
      BY <1>2
    <2> QED
      BY <2>1, <1>7, <1>8, TurnLater
  <1>10. q = [r EXCEPT !.exp_seq = e2, !.alive = al2, !.queued = qu2, !.rxq = rx2,
                       !.rxcpl_list = l2]
    BY <1>1 DEF ReleaseN, ids
  <1>11. /\ e2 \in 0..SEQNUM_MAX-1
         /\ \A k \in Nat : RX_SEQ_TO_INDEX(e2 + k) = RX_SEQ_TO_INDEX(r.exp_seq + (n + k))
    <2> DEFINE e == r.exp_seq
    <2>1. e \in Nat /\ 0 \in Nat
      BY <1>1
    <2> HIDE DEF e
    <2>2. Forward(e, n) \in 0..SEQNUM_MAX-1
      BY ONLY <2>1, n \in Nat, SlotForward
    <2>3. ASSUME NEW k \in Nat
          PROVE  RX_SEQ_TO_INDEX(Forward(e, n) + k) = RX_SEQ_TO_INDEX(e + (n + k))
      BY ONLY <2>1, n \in Nat, k \in Nat, SlotForward
    <2> QED
      BY ONLY <2>2, <2>3 DEF e, e2
  <1>12. rx2 \in [Slots -> 0..MaxFrames] /\ al2 \in BOOLEAN
    BY <1>1, Sizes
  <1>13. ToSet(ids) \subseteq Ids(r)
    <2>1. \A j \in 0..m-1 : At(r, j) \in Slots
      BY AtSlot
    <2> QED
      BY <1>7, <2>1 DEF PassedBy, Ids
  <1>14. {rx2[i] : i \in Slots} \ {0} = Ids(r) \ ToSet(ids)
    BY DEF Ids
  <1>15. /\ Cardinality(Ids(r) \ ToSet(ids)) = Cardinality(Ids(r)) - Cardinality(ToSet(ids))
         /\ Cardinality(Ids(r) \ ToSet(ids)) \in Nat
    <2>1. IsFiniteSet(Ids(r))
      BY IdsFinite
    <2>2. Ids(r) \cap ToSet(ids) = ToSet(ids)
      BY <1>13
    <2>3. /\ IsFiniteSet(Ids(r) \ ToSet(ids))
          /\ Cardinality(Ids(r) \ ToSet(ids)) = Cardinality(Ids(r)) - Cardinality(Ids(r) \cap ToSet(ids))
      BY <2>1, FS_Difference
    <2> QED
      BY <2>2, <2>3, FS_CardinalityType
  <1>16. qu2 \in Nat /\ qu2 = Cardinality(Ids(r) \ ToSet(ids))
    BY <1>3, <1>7, <1>15
  <1> HIDE DEF e2, al2, qu2, rx2, l2
  <1>17. /\ q \in RespType /\ q.exp_seq = e2 /\ q.rxq = rx2 /\ q.queued = qu2
         /\ q.rxcpl_list = l2 /\ q.ba_wsize = r.ba_wsize
    <2>1. q \in RespType
      BY <1>8, <1>10, <1>11, <1>12, <1>16 DEF RespType
    <2> QED
      BY <1>10, <2>1 DEF RespType
  <1> HIDE DEF q
  <1>18. \A k \in Nat : At(q, k) = At(r, n + k)
    BY <1>11, <1>17 DEF At
  <1>19. Ids(q) = Ids(r) \ ToSet(ids)
    BY <1>14, <1>17 DEF Ids
  <1>20. \A i \in Slots : q.rxq[i] = IF r.rxq[i] \in ToSet(ids) THEN 0 ELSE r.rxq[i]
    BY <1>17 DEF rx2
  <1>21. ASSUME NEW j \in Slots, j < n PROVE q.rxq[At(r, j)] = 0
    <2>0. j \in Nat /\ At(r, j) \in Slots
      BY AtSlot
    <2>1. j \in 0..m-1 /\ At(r, j) \in Slots
      BY ONLY <1>2, <1>21, <2>0, j \in Slots, n \in Nat DEF Slots
    <2>2. r.rxq[At(r, j)] # 0 => r.rxq[At(r, j)] \in ToSet(ids)
      BY <1>7, <2>1 DEF PassedBy
    <2> QED
      BY <1>20, <2>1, <2>2
  <1>22. ASSUME NEW i \in Slots, q.rxq[i] # 0
         PROVE  \E off \in 0..q.ba_wsize-1 :
                  /\ q.rxq[i] \in DOMAIN N /\ N[q.rxq[i]] = <<s, (b + n) + off>>
                  /\ i = At(q, off)
    <2>1. r.rxq[i] # 0 /\ q.rxq[i] = r.rxq[i]
      BY <1>20, <1>22
    <2>2. PICK off \in 0..r.ba_wsize-1 :
            r.rxq[i] \in DOMAIN N /\ N[r.rxq[i]] = <<s, b + off>> /\ i = At(r, off)
      BY <1>3, <2>1 DEF InSlots
    <2>3. off \in Slots
      BY <1>1, <1>2 DEF Slots
    <2>4. ~(off < n)
      BY <1>21, <1>22, <2>2, <2>3
    <2>5. /\ off - n \in 0..q.ba_wsize-1 /\ off - n \in Nat /\ n + (off - n) = off
          /\ (b + n) + (off - n) = b + off
      BY <1>1, <1>17, <2>4
    <2>6. At(q, off - n) = i
      BY <1>18, <2>2, <2>5
    <2> QED
      BY <2>1, <2>2, <2>5, <2>6
  <1>23. InSlots(q, N, s, b + n)
    BY <1>22 DEF InSlots
  <1>24. Stored(q, N, s, b + n)
    BY <1>16, <1>17, <1>19, <1>23 DEF Stored
  <1>25. n >= W => Ids(q) = {}
    <2>1. SUFFICES ASSUME n >= W, NEW i \in Slots, q.rxq[i] # 0 PROVE FALSE
      BY DEF Ids
    <2>2. PICK off \in 0..q.ba_wsize-1 : N[q.rxq[i]] = <<s, (b + n) + off>>
      BY <1>22, <2>1
    <2>3. r.rxq[i] # 0 /\ q.rxq[i] = r.rxq[i]
      BY <1>20, <2>1
    <2>4. PICK o \in 0..r.ba_wsize-1 : N[r.rxq[i]] = <<s, b + o>>
      BY <1>3, <2>3 DEF InSlots
    <2>5. (b + n) + off = b + o
      BY <2>2, <2>3, <2>4
    <2> QED
      BY <1>1, <1>2, <1>17, <2>1, <2>5
  <1>26. \A i \in Slots : q.rxq[i] \in {0, r.rxq[i]}
    BY <1>20
  <1>27. InTurn(L \o q.rxcpl_list, N, s, b + n)
    BY <1>9, <1>17
  <1>28. q.rxcpl_list = r.rxcpl_list \o ids
    BY <1>17 DEF l2
  <1>29. Moves(r, q, n)
    BY ONLY <1>7, <1>13, <1>17, <1>18, <1>19, <1>21, <1>25, <1>26, <1>28 DEF Moves
  <1> QED
    BY ONLY <1>24, <1>27, <1>29 DEF q

-----------------------------------------------------------------------------
(* wlc_ampdu_release_ordered.                                              *)

LEMMA InARowIs ==
  ASSUME NEW r \in RespType
  PROVE  /\ InARow(r) \in 0..W /\ InARow(r) \in Nat
         /\ InARow(r) = W \/ r.rxq[At(r, InARow(r))] = 0
  <1> DEFINE Stop(k) == /\ k = ba_max_rx_wsize \/ ~Pending(r, r.exp_seq + k)
                        /\ \A j \in 0..k-1 : Pending(r, r.exp_seq + j)
             T == {k \in 0..W : \A j \in 0..k-1 : Pending(r, r.exp_seq + j)}
  <1>1. W \in Nat /\ ba_max_rx_wsize = W
    BY Sizes DEF W
  <1>2. \E k \in 0..W : Stop(k)
    <2>1. SUFFICES ASSUME \A k \in 0..W : ~Stop(k) PROVE FALSE
      OBVIOUS
    <2>2. 0 \in T
      BY <1>1
    <2>3. ASSUME NEW k \in 0..W, k \in T, k < W PROVE k + 1 \in T
      <3>1. Pending(r, r.exp_seq + k)
        BY <2>1, <2>3
      <3>2. \A j \in 0..(k+1)-1 : j \in 0..k-1 \/ j = k
        BY <1>1
      <3>3. k + 1 \in 0..W
        BY <1>1, <2>3
      <3> QED
        BY <2>3, <3>1, <3>2, <3>3
    <2>4. \A k \in 0..W : k \in T /\ k < W => k + 1 \in T
      BY <2>3
    <2>5. W \in T
      <3> HIDE DEF T
      <3> QED
        BY <1>1, <2>2, <2>4, SetInduction
    <2>6. W \in 0..W /\ Stop(W)
      BY <1>1, <2>5
    <2> QED
      BY <2>1, <2>6
  <1>3. InARow(r) = CHOOSE k \in 0..W : Stop(k)
    BY <1>1 DEF InARow
  <1> HIDE DEF Stop
  <1>4. InARow(r) \in 0..W /\ Stop(InARow(r))
    BY <1>2, <1>3
  <1> QED
    BY <1>1, <1>4 DEF Stop, Pending, At

LEMMA OrderedKeeps ==
  ASSUME NEW r \in RespType, NEW N \in Places, NEW s \in Nat, NEW b \in Nat,
         Stored(r, N, s, b), NEW L \in Seq(Frames), InTurn(L \o r.rxcpl_list, N, s, b)
  PROVE  LET q == ReleaseOrdered(r)
             k == InARow(r)
         IN  /\ Stored(q, N, s, b + k) /\ InTurn(L \o q.rxcpl_list, N, s, b + k)
             /\ Moves(r, q, k) /\ q.rxq[At(q, 0)] = 0
  <1> DEFINE q == ReleaseOrdered(r)
             k == InARow(r)
  <1>1. k \in 0..W /\ k \in Nat /\ (k = W \/ r.rxq[At(r, k)] = 0)
    BY InARowIs
  <1>2. q = ReleaseN(r, k)
    BY DEF ReleaseOrdered
  <1> HIDE DEF k
  <1>3. /\ Stored(ReleaseN(r, k), N, s, b + k) /\ InTurn(L \o ReleaseN(r, k).rxcpl_list, N, s, b + k)
        /\ Moves(r, ReleaseN(r, k), k)
    BY <1>1, ReleaseKeeps
  <1> HIDE DEF q
  <1>4. Stored(q, N, s, b + k) /\ InTurn(L \o q.rxcpl_list, N, s, b + k) /\ Moves(r, q, k)
    BY <1>2, <1>3
  <1>5. At(q, 0) = At(r, k) /\ At(q, 0) \in Slots
    <2>1. \A j \in Nat : At(q, j) = At(r, k + j)
      BY <1>4 DEF Moves
    <2>2. 0 \in Nat /\ k + 0 = k
      BY ONLY <1>1
    <2>3. At(q, 0) = At(r, k)
      BY ONLY <2>1, <2>2
    <2> QED
      BY <1>1, <2>3, AtSlot
  <1>6. q.rxq[At(q, 0)] = 0
    <2>1. CASE k = W
      <3>1. Ids(q) = {}
        BY <1>4, <2>1, Sizes DEF Moves
      <3> QED
        BY <1>5, <3>1 DEF Ids
    <2>2. CASE r.rxq[At(r, k)] = 0
      BY <1>4, <1>5, <2>2 DEF Moves
    <2> QED
      BY <1>1, <2>1, <2>2
  <1> QED
    BY ONLY <1>4, <1>6 DEF q, k

-----------------------------------------------------------------------------
(* What does not touch the slots, and what fills one.                      *)

LEMMA SameSlots ==
  ASSUME NEW r \in RespType, NEW q \in RespType, NEW N, NEW s, NEW b,
         q.rxq = r.rxq, q.exp_seq = r.exp_seq, q.queued = r.queued, q.ba_wsize = r.ba_wsize
  PROVE  /\ Stored(r, N, s, b) => Stored(q, N, s, b)
         /\ Ids(q) = Ids(r) /\ \A k : At(q, k) = At(r, k)
  <1>1. Ids(q) = Ids(r) /\ \A k : At(q, k) = At(r, k)
    BY DEF Ids, At
  <1>2. InSlots(r, N, s, b) => InSlots(q, N, s, b)
    BY <1>1 DEF InSlots
  <1> QED
    BY <1>1, <1>2 DEF Stored

LEMMA ResetKeeps ==
  ASSUME NEW r \in RespType
  PROVE  /\ Reset(r) \in RespType /\ Reset(r).rxq = r.rxq /\ Reset(r).exp_seq = r.exp_seq
         /\ Reset(r).queued = r.queued /\ Reset(r).ba_wsize = r.ba_wsize
         /\ Reset(r).rxcpl_list = <<>>
  <1> DEFINE e == <<>>
  <1>1. e \in Seq(Frames)
    OBVIOUS
  <1>2. Reset(r) = [r EXCEPT !.rxcpl_list = e]
    BY DEF Reset
  <1> HIDE DEF e
  <1>3. Reset(r) \in RespType
    BY <1>1, <1>2 DEF RespType
  <1>4. /\ Reset(r).rxq = r.rxq /\ Reset(r).exp_seq = r.exp_seq
        /\ Reset(r).queued = r.queued /\ Reset(r).ba_wsize = r.ba_wsize
        /\ Reset(r).rxcpl_list = e
    BY <1>2 DEF RespType
  <1> QED
    BY <1>3, <1>4 DEF e

LEMMA StoredMore ==
  ASSUME NEW r \in RespType, NEW N \in Places, NEW s \in Nat, NEW b \in Nat,
         NEW p \in Nat \X Nat, Stored(r, N, s, b)
  PROVE  Stored(r, Append(N, p), s, b)
  <1> DEFINE M == Append(N, p)
  <1>1. \A f \in DOMAIN N : f \in DOMAIN M /\ M[f] = N[f]
    BY PlacesMore
  <1> HIDE DEF M
  <1>2. InSlots(r, M, s, b)
    BY <1>1 DEF Stored, InSlots
  <1>3. Stored(r, M, s, b)
    BY <1>2 DEF Stored
  <1> QED
    BY <1>3 DEF M

LEMMA StoreKeeps ==
  ASSUME NEW r \in RespType, NEW N \in Places, NEW s \in Nat, NEW b \in Nat,
         Stored(r, N, s, b), NEW off \in 0..r.ba_wsize-1, NEW seq,
         RX_SEQ_TO_INDEX(seq) = At(r, off), r.rxq[At(r, off)] = 0,
         NEW f \in Frames, f \in DOMAIN N, N[f] = <<s, b + off>>
  PROVE  LET q == Store(r, seq, f)
         IN  /\ Stored(q, N, s, b) /\ q.rxcpl_list = r.rxcpl_list
             /\ Ids(q) = Ids(r) \union {f} /\ f \notin Ids(r)
             /\ \A k : At(q, k) = At(r, k)
             /\ \A i \in Slots : i # At(r, off) => q.rxq[i] = r.rxq[i]
             /\ q.ba_wsize = r.ba_wsize
  <1> DEFINE i == At(r, off)
             rx2 == [r.rxq EXCEPT ![i] = f]
             qu2 == r.queued + 1
             q == Store(r, seq, f)
  <1>1. /\ r.ba_wsize \in 1..W /\ r.exp_seq \in Nat /\ r.queued \in Nat
        /\ r.rxq \in [Slots -> 0..MaxFrames] /\ W \in Nat /\ r.rxcpl_list \in Seq(Frames)
    BY RespFields, Sizes
  <1>2. off \in Slots /\ off \in Nat /\ i \in Slots /\ f # 0 /\ f \in 0..MaxFrames
    <2>1. off \in Slots /\ off \in Nat
      BY <1>1 DEF Slots
    <2>2. f # 0 /\ f \in 0..MaxFrames
      BY Sizes DEF Frames
    <2> QED
      BY <2>1, <2>2, AtSlot
  <1>3. r.queued = Cardinality(Ids(r)) /\ InSlots(r, N, s, b) /\ r.rxq[i] = 0
    BY DEF Stored
  <1>4. f \notin Ids(r)
    <2>1. SUFFICES ASSUME NEW j \in Slots, r.rxq[j] = f PROVE FALSE
      BY DEF Ids
    <2>2. PICK o \in 0..r.ba_wsize-1 : N[f] = <<s, b + o>> /\ j = At(r, o)
      BY <1>2, <1>3, <2>1 DEF InSlots
    <2>3. o = off
      BY <1>1, <1>2, <2>2
    <2> QED
      BY <1>2, <1>3, <2>1, <2>2, <2>3
  <1>5. q = [r EXCEPT !.rxq = rx2, !.queued = qu2]
    BY DEF Store
  <1>6. /\ rx2 \in [Slots -> 0..MaxFrames] /\ qu2 \in Nat /\ rx2[i] = f
        /\ \A j \in Slots : j # i => rx2[j] = r.rxq[j]
    BY <1>1, <1>2
  <1> HIDE DEF i, rx2, qu2, q
  <1>7. /\ q \in RespType /\ q.rxq = rx2 /\ q.queued = qu2 /\ q.exp_seq = r.exp_seq
        /\ q.ba_wsize = r.ba_wsize /\ q.rxcpl_list = r.rxcpl_list
    BY <1>5, <1>6 DEF RespType
  <1>8. \A k : At(q, k) = At(r, k)
    BY <1>7 DEF At
  <1>9. Ids(q) = Ids(r) \union {f}
    BY <1>2, <1>3, <1>6, <1>7 DEF Ids
  <1>10. q.queued = Cardinality(Ids(q))
    <2>1. IsFiniteSet(Ids(r))
      BY IdsFinite
    <2>2. Cardinality(Ids(r) \union {f}) = Cardinality(Ids(r)) + 1
      BY <1>4, <2>1, FS_AddElement
    <2> QED
      BY <1>3, <1>7, <1>9, <2>2 DEF qu2
  <1>11. ASSUME NEW j \in Slots, q.rxq[j] # 0
         PROVE  \E o \in 0..q.ba_wsize-1 :
                  q.rxq[j] \in DOMAIN N /\ N[q.rxq[j]] = <<s, b + o>> /\ j = At(q, o)
    <2>1. CASE j = i
      BY <1>6, <1>7, <1>8, <2>1 DEF i
    <2>2. CASE j # i
      BY <1>3, <1>6, <1>7, <1>8, <1>11, <2>2 DEF InSlots
    <2> QED
      BY <2>1, <2>2
  <1>12. Stored(q, N, s, b)
    BY <1>7, <1>10, <1>11 DEF Stored, InSlots
  <1>13. \A j \in Slots : j # At(r, off) => q.rxq[j] = r.rxq[j]
    BY <1>6, <1>7 DEF i
  <1> QED
    BY ONLY <1>4, <1>7, <1>8, <1>9, <1>12, <1>13 DEF q

-----------------------------------------------------------------------------
(* What the handlers make of a session (r), the frames' places (N) and the *)
(* list of those let go (L).                                               *)

Good(r, L, N, s, b) == Stored(r, N, s, b) /\ Clear(r) /\ InTurn(L, N, s, b)

(* Of the ids in H, those that are not on q's chain are still stored.      *)
Lets(q, H) == /\ q.rxcpl_list \in Seq(Frames) /\ ToSet(q.rxcpl_list) \subseteq H
              /\ Ids(q) = H \ ToSet(q.rxcpl_list)

LEMMA ToSetEmpty ==
  ASSUME NEW X, NEW t \in Seq(X)
  PROVE  ToSet(<<>>) = {} /\ (ToSet(t) = {} => t = <<>>)
  <1>1. ToSet(<<>>) = {}
    BY DEF ToSet
  <1>2. ASSUME ToSet(t) = {} PROVE t = <<>>
    <2>1. Len(t) \in Nat /\ DOMAIN t = 1..Len(t)
      OBVIOUS
    <2>2. ~(1 \in DOMAIN t)
      BY <1>2 DEF ToSet
    <2>3. Len(t) = 0
      BY <2>1, <2>2
    <2> QED
      BY <2>3
  <1> QED
    BY <1>1, <1>2

LEMMA ToSetConcat ==
  ASSUME NEW X, NEW t \in Seq(X), NEW u \in Seq(X)
  PROVE  ToSet(t \o u) = ToSet(t) \union ToSet(u)
  <1> DEFINE v == t \o u
             n == Len(t)
             m == Len(u)
  <1>1. n \in Nat /\ m \in Nat /\ DOMAIN t = 1..n /\ DOMAIN u = 1..m
    OBVIOUS
  <1>2. /\ v \in Seq(X) /\ Len(v) = n + m
        /\ \A k \in 1..n+m : v[k] = IF k <= n THEN t[k] ELSE u[k - n]
    BY ConcatProperties
  <1>3. DOMAIN v = 1..n+m
    BY <1>2
  <1> HIDE DEF v, n, m
  <1>4. ASSUME NEW k \in DOMAIN v
        PROVE  (\E j \in DOMAIN t : t[j] = v[k]) \/ (\E j \in DOMAIN u : u[j] = v[k])
    <2>1. CASE k <= n
      BY ONLY <1>1, <1>2, <1>3, <2>1, k \in DOMAIN v
    <2>2. CASE ~(k <= n)
      <3>1. k - n \in DOMAIN u /\ u[k - n] = v[k]
        BY ONLY <1>1, <1>2, <1>3, <2>2, k \in DOMAIN v
      <3> QED
        BY ONLY <3>1
    <2> QED
      BY <2>1, <2>2
  <1>5. ASSUME NEW j \in DOMAIN t PROVE j \in DOMAIN v /\ v[j] = t[j]
    BY ONLY <1>1, <1>2, <1>3, j \in DOMAIN t
  <1>6. ASSUME NEW j \in DOMAIN u PROVE j + n \in DOMAIN v /\ v[j + n] = u[j]
    <2>1. j + n \in 1..n+m /\ ~(j + n <= n) /\ (j + n) - n = j
      BY ONLY <1>1, j \in DOMAIN u
    <2> QED
      BY ONLY <1>2, <1>3, <2>1
  <1>7. {v[k] : k \in DOMAIN v} = {t[k] : k \in DOMAIN t} \union {u[k] : k \in DOMAIN u}
    BY ONLY <1>4, <1>5, <1>6
  <1> QED
    BY ONLY <1>7 DEF ToSet, v

LEMMA LetsFrom ==
  ASSUME NEW r \in RespType, r.rxcpl_list = <<>>
  PROVE  Lets(r, Ids(r))
  <1>1. <<>> \in Seq(Frames) /\ ToSet(<<>>) = {}
    BY DEF ToSet
  <1> QED
    BY <1>1 DEF Lets

LEMMA LetsMove ==
  ASSUME NEW r, NEW q, NEW n, NEW H, Lets(r, H), Moves(r, q, n)
  PROVE  Lets(q, H)
  <1>1. PICK ids \in Seq(Frames) :
          /\ q.rxcpl_list = r.rxcpl_list \o ids
          /\ ToSet(ids) \subseteq Ids(r) /\ Ids(q) = Ids(r) \ ToSet(ids)
    BY DEF Moves
  <1> DEFINE x == r.rxcpl_list
             z == q.rxcpl_list
  <1>2. /\ x \in Seq(Frames) /\ ToSet(x) \subseteq H /\ Ids(r) = H \ ToSet(x)
        /\ z = x \o ids
    BY <1>1 DEF Lets
  <1> HIDE DEF x, z
  <1>3. z \in Seq(Frames) /\ ToSet(z) = ToSet(x) \union ToSet(ids)
    BY <1>2, ToSetConcat, ConcatProperties
  <1>4. ToSet(z) \subseteq H /\ Ids(q) = H \ ToSet(z)
    BY ONLY <1>1, <1>2, <1>3
  <1> QED
    BY ONLY <1>3, <1>4 DEF Lets, z

(* The expected frame has come: the window moves by one.                   *)
On(r) == [r EXCEPT !.exp_seq = Forward(@, 1), !.alive = TRUE]

LEMMA OnKeeps ==
  ASSUME NEW r \in RespType, NEW N \in Places, NEW s \in Nat, NEW b \in Nat,
         Stored(r, N, s, b), Clear(r)
  PROVE  /\ Stored(On(r), N, s, b + 1) /\ On(r).rxcpl_list = <<>>
         /\ Ids(On(r)) = Ids(r) /\ On(r).queued = r.queued
  <1> DEFINE q == On(r)
             e == Forward(r.exp_seq, 1)
  <1>1. /\ r.exp_seq \in Nat /\ r.ba_wsize \in 1..W /\ W \in Nat /\ 1 \in Nat
        /\ r.rxq \in [Slots -> 0..MaxFrames]
    BY RespFields, Sizes
  <1>2. e \in 0..SEQNUM_MAX-1
    BY <1>1, SlotForward
  <1>3. q = [r EXCEPT !.exp_seq = e, !.alive = TRUE]
    BY DEF On
  <1>4. ASSUME NEW k \in Nat PROVE RX_SEQ_TO_INDEX(e + k) = At(r, 1 + k)
    <2> DEFINE x == r.exp_seq
    <2>1. x \in Nat /\ 1 \in Nat
      BY <1>1
    <2> HIDE DEF x
    <2>2. RX_SEQ_TO_INDEX(Forward(x, 1) + k) = RX_SEQ_TO_INDEX(x + (1 + k))
      BY ONLY <2>1, k \in Nat, SlotForward
    <2> QED
      BY ONLY <2>2 DEF At, e, x
  <1> HIDE DEF e, q
  <1>5. /\ q \in RespType /\ q.exp_seq = e /\ q.rxq = r.rxq /\ q.queued = r.queued
        /\ q.ba_wsize = r.ba_wsize /\ q.rxcpl_list = r.rxcpl_list
    BY <1>2, <1>3 DEF RespType
  <1>6. Ids(q) = Ids(r)
    BY <1>5 DEF Ids
  <1>7. \A k \in Nat : At(q, k) = At(r, 1 + k)
    BY <1>4, <1>5 DEF At
  <1>8. ASSUME NEW i \in Slots, q.rxq[i] # 0
        PROVE  \E off \in 0..q.ba_wsize-1 :
                 /\ q.rxq[i] \in DOMAIN N /\ N[q.rxq[i]] = <<s, (b + 1) + off>>
                 /\ i = At(q, off)
    <2>1. PICK off \in 0..r.ba_wsize-1 :
            r.rxq[i] \in DOMAIN N /\ N[r.rxq[i]] = <<s, b + off>> /\ i = At(r, off)
      BY <1>5, <1>8 DEF Stored, InSlots
    <2>2. off # 0
      BY <1>5, <1>8, <2>1 DEF Clear
    <2>3. /\ off - 1 \in 0..q.ba_wsize-1 /\ off - 1 \in Nat /\ 1 + (off - 1) = off
          /\ (b + 1) + (off - 1) = b + off
      BY <1>1, <1>5, <2>2
    <2>4. At(q, off - 1) = i
      BY <1>7, <2>1, <2>3
    <2> QED
      BY <1>5, <2>1, <2>3, <2>4
  <1>9. Stored(q, N, s, b + 1)
    BY <1>5, <1>6, <1>8 DEF Stored, InSlots
  <1>10. q.rxcpl_list = <<>>
    BY <1>5 DEF Clear
  <1> QED
    BY ONLY <1>5, <1>6, <1>9, <1>10 DEF q

(* A list that ends a handler is taken off the chain.                      *)
LEMMA GoodReset ==
  ASSUME NEW r \in RespType, NEW L, NEW N, NEW s, NEW b,
         Stored(r, N, s, b), r.rxq[At(r, 0)] = 0, InTurn(L, N, s, b)
  PROVE  Good(Reset(r), L, N, s, b)
  <1>1. /\ Reset(r) \in RespType /\ Reset(r).rxq = r.rxq /\ Reset(r).exp_seq = r.exp_seq
        /\ Reset(r).queued = r.queued /\ Reset(r).ba_wsize = r.ba_wsize
        /\ Reset(r).rxcpl_list = <<>>
    BY ResetKeeps
  <1>2. Stored(Reset(r), N, s, b) /\ At(Reset(r), 0) = At(r, 0)
    BY <1>1, SameSlots
  <1> QED
    BY <1>1, <1>2 DEF Good, Clear

LEMMA ExpectedGood ==
  ASSUME NEW r \in RespType, NEW N \in Places, NEW s \in Nat, NEW b \in Nat, NEW L,
         Good(r, L, N, s, b), Len(N) + 1 <= MaxFrames
  PROVE  LET f == Len(N) + 1
             M == Append(N, <<s, b>>)
             start == IF On(r).queued > 0 THEN Reset(On(r)) ELSE On(r)
             q == ReleaseOrdered(start)
             k == InARow(start)
         IN  /\ Good(IF On(r).queued > 0 THEN Reset(q) ELSE q,
                     (L \o <<f>>) \o q.rxcpl_list, M, s, (b + 1) + k)
             /\ Lets(q, Ids(r)) /\ k \in Nat /\ q \in RespType
  <1> DEFINE f == Len(N) + 1
             M == Append(N, <<s, b>>)
             on == On(r)
             start == IF on.queued > 0 THEN Reset(on) ELSE on
             q == ReleaseOrdered(start)
             k == InARow(start)
             ids == q.rxcpl_list
  <1>1. Stored(r, N, s, b) /\ Clear(r) /\ InTurn(L, N, s, b) /\ <<s, b>> \in Nat \X Nat
    BY DEF Good
  <1>2. /\ M \in Places /\ f \in DOMAIN M /\ M[f] = <<s, b>> /\ f \in Frames
    <2>1. Len(N) + 1 \in Frames
      BY Sizes DEF Frames, Places
    <2> QED
      BY <1>1, <2>1, PlacesMore
  <1> HIDE DEF f
  <1>3. Stored(r, M, s, b) /\ InTurn(L, M, s, b)
    BY <1>1, StoredMore, TurnMore
  <1> HIDE DEF M
  <1>4. /\ Stored(on, M, s, b + 1) /\ on.rxcpl_list = <<>> /\ Ids(on) = Ids(r)
        /\ on.queued = r.queued /\ on \in RespType
    BY <1>1, <1>2, <1>3, OnKeeps DEF Stored
  <1> HIDE DEF on
  <1>5. /\ start \in RespType /\ Stored(start, M, s, b + 1) /\ start.rxcpl_list = <<>>
        /\ Ids(start) = Ids(r) /\ start.queued = r.queued
    <2>1. CASE on.queued > 0
      BY <1>4, <2>1, ResetKeeps, SameSlots
    <2>2. CASE ~(on.queued > 0)
      BY <1>4, <2>2
    <2> QED
      BY <2>1, <2>2
  <1> HIDE DEF start
  <1> DEFINE G == L \o <<f>>
  <1>6. G \in Seq(Frames) /\ InTurn(G, M, s, b + 1)
    <2>1. G = Append(L, f) /\ L \in Seq(Frames)
      BY <1>2, <1>3 DEF InTurn
    <2>2. InTurn(Append(L, f), M, s, b + 1)
      BY <1>2, <1>3, TurnAppend
    <2>3. Append(L, f) \in Seq(Frames)
      BY <1>2, <2>1
    <2> HIDE DEF G
    <2> QED
      BY ONLY <2>1, <2>2, <2>3
  <1> HIDE DEF G
  <1>7. G \o start.rxcpl_list = G
    BY <1>5, <1>6, ConcatEmptySeq
  <1>8. b + 1 \in Nat
    OBVIOUS
  <1>9. /\ Stored(q, M, s, (b + 1) + k) /\ InTurn(G \o ids, M, s, (b + 1) + k)
        /\ Moves(start, q, k) /\ q.rxq[At(q, 0)] = 0
    <2> DEFINE c == b + 1
    <2>1. /\ start \in RespType /\ M \in Places /\ s \in Nat /\ c \in Nat
          /\ Stored(start, M, s, c) /\ G \in Seq(Frames)
          /\ InTurn(G \o start.rxcpl_list, M, s, c)
      BY <1>2, <1>5, <1>6, <1>7, <1>8
    <2> HIDE DEF c
    <2>2. /\ Stored(q, M, s, c + k) /\ InTurn(G \o ids, M, s, c + k)
          /\ Moves(start, q, k) /\ q.rxq[At(q, 0)] = 0
      BY ONLY <2>1, OrderedKeeps DEF q, k, ids
    <2> QED
      BY ONLY <2>2 DEF c
  <1>10. k \in Nat
    BY <1>5, InARowIs
  <1>11. Lets(q, Ids(r))
    <2>1. Lets(start, Ids(r))
      BY <1>5, LetsFrom
    <2> QED
      BY <1>9, <2>1, LetsMove
  <1>12. q \in RespType
    BY <1>9 DEF Stored
  <1> HIDE DEF q, k
  <1>13. Good(IF on.queued > 0 THEN Reset(q) ELSE q, G \o ids, M, s, (b + 1) + k)
    <2>1. CASE on.queued > 0
      <3> DEFINE z == (b + 1) + k
                 K == G \o ids
      <3>1. /\ q \in RespType /\ Stored(q, M, s, z) /\ q.rxq[At(q, 0)] = 0
            /\ InTurn(K, M, s, z)
        BY <1>9, <1>12
      <3> HIDE DEF z, K
      <3>2. Good(Reset(q), K, M, s, z)
        BY ONLY <3>1, GoodReset
      <3> QED
        BY <2>1, <3>2 DEF z, K
    <2>2. CASE ~(on.queued > 0)
      <3>1. Cardinality(Ids(r)) = 0 /\ IsFiniteSet(Ids(r))
        BY <1>1, <1>4, <2>2, IdsFinite DEF Stored
      <3>2. Ids(r) = {}
        BY <3>1, FS_EmptySet
      <3>3. ToSet(ids) = {} /\ ids \in Seq(Frames)
        BY <1>11, <3>2 DEF Lets
      <3>5. ids = <<>>
        BY <3>3, ToSetEmpty
      <3> QED
        BY <1>9, <2>2, <3>5 DEF Good, Clear
    <2> QED
      BY <2>1, <2>2
  <1> QED
    BY ONLY <1>10, <1>11, <1>12, <1>13 DEF G, f, M, on, start, q, k

(* A frame beyond the window: the window moves until it is the last.       *)
LEMMA BeyondGood ==
  ASSUME NEW r \in RespType, NEW N \in Places, NEW s \in Nat, NEW b \in Nat, NEW L,
         Good(r, L, N, s, b), Len(N) + 1 <= MaxFrames,
         NEW off \in Nat, off >= r.ba_wsize
  PROVE  LET f == Len(N) + 1
             d == (off - r.ba_wsize) + 1
             seq == Forward(r.exp_seq, off)
             M == Append(N, <<s, b + off>>)
             st == Store(ReleaseN(Reset(r), d), seq, f)
             q == ReleaseOrdered(st)
             k == InARow(st)
         IN  /\ Good(Reset(q), L \o q.rxcpl_list, M, s, (b + d) + k)
             /\ Lets(q, Ids(r) \union {f}) /\ d \in Nat /\ k \in Nat /\ q \in RespType
  <1> DEFINE f == Len(N) + 1
             d == (off - r.ba_wsize) + 1
             p == <<s, b + off>>
             M == Append(N, p)
             start == Reset(r)
             moved == ReleaseN(start, d)
             seq == Forward(r.exp_seq, off)
             st == Store(moved, seq, f)
             q == ReleaseOrdered(st)
             k == InARow(st)
             w == r.ba_wsize
             last == w - 1
             c == b + d
  <1>1. /\ Stored(r, N, s, b) /\ InSlots(r, N, s, b) /\ Clear(r) /\ InTurn(L, N, s, b)
        /\ p \in Nat \X Nat /\ L \in Seq(Frames)
    <2>1. p \in Nat \X Nat
      OBVIOUS
    <2> HIDE DEF p
    <2>2. Stored(r, N, s, b) /\ Clear(r) /\ InTurn(L, N, s, b)
      BY DEF Good
    <2> QED
      BY <2>1, <2>2 DEF Stored, InTurn
  <1>2. /\ w \in 1..W /\ W \in Nat /\ d \in Nat /\ d >= 1 /\ last \in 0..w-1 /\ last \in Nat
        /\ d + last = off /\ c \in Nat /\ c + last = b + off /\ r.exp_seq \in Nat /\ last \in Slots
    <2>1. w \in 1..W /\ W \in Nat /\ r.exp_seq \in Nat /\ off >= w
      BY RespFields, Sizes
    <2>0. d = (off - w) + 1 /\ last = w - 1 /\ c = b + d
      OBVIOUS
    <2> HIDE DEF w, d, last, c
    <2>2. /\ d \in Nat /\ d >= 1 /\ last \in 0..w-1 /\ last \in Nat /\ d + last = off
          /\ c \in Nat /\ c + last = b + off
      BY ONLY <2>0, <2>1, off \in Nat, b \in Nat
    <2>3. last \in Slots
      BY ONLY <2>1, <2>2 DEF Slots
    <2> QED
      BY ONLY <2>1, <2>2, <2>3
  <1>3. /\ M \in Places /\ f \in DOMAIN M /\ M[f] = p /\ f \in Frames /\ f \notin DOMAIN N
    <2>1. Len(N) + 1 \in Frames
      BY Sizes DEF Frames, Places
    <2> QED
      BY <1>1, <2>1, PlacesMore
  <1>4. f \notin Ids(r)
    <2>1. SUFFICES ASSUME NEW i \in Slots, r.rxq[i] = f, f # 0 PROVE FALSE
      BY DEF Ids
    <2>2. f \in DOMAIN N
      BY <1>1, <2>1 DEF InSlots
    <2> QED
      BY <1>3, <2>2
  <1>5. /\ start \in RespType /\ start.rxq = r.rxq /\ start.exp_seq = r.exp_seq
        /\ start.rxcpl_list = <<>> /\ start.ba_wsize = w
        /\ start.queued = r.queued
    BY ResetKeeps
  <1>6. /\ Stored(start, N, s, b) /\ Ids(start) = Ids(r) /\ \A j : At(start, j) = At(r, j)
    BY <1>1, <1>5, SameSlots
  <1> HIDE DEF start, d, w, last, c, f, p
  <1>7. L \o start.rxcpl_list = L
    BY <1>1, <1>5, ConcatEmptySeq
  <1>8. /\ Stored(moved, N, s, c) /\ InTurn(L \o moved.rxcpl_list, N, s, c)
        /\ Moves(start, moved, d)
    <2>1. /\ start \in RespType /\ N \in Places /\ s \in Nat /\ b \in Nat
          /\ Stored(start, N, s, b) /\ L \in Seq(Frames) /\ d \in Nat
          /\ InTurn(L \o start.rxcpl_list, N, s, b)
      BY <1>1, <1>2, <1>5, <1>6, <1>7
    <2>2. /\ Stored(ReleaseN(start, d), N, s, b + d)
          /\ InTurn(L \o ReleaseN(start, d).rxcpl_list, N, s, b + d)
          /\ Moves(start, ReleaseN(start, d), d)
      BY ONLY <2>1, ReleaseKeeps
    <2> QED
      BY ONLY <2>2 DEF c, moved
  <1> HIDE DEF moved
  <1>9. /\ moved.ba_wsize = w /\ moved \in RespType /\ InSlots(moved, N, s, c)
        /\ \A i \in Slots : moved.rxq[i] \in {0, r.rxq[i]}
    BY <1>5, <1>8 DEF Moves, Stored
  <1>10. At(moved, last) = At(r, off) /\ At(moved, last) \in Slots
    <2>1. \A j \in Nat : At(moved, j) = At(start, d + j)
      BY <1>8 DEF Moves
    <2>2. At(moved, last) = At(start, off)
      BY ONLY <1>2, <2>1
    <2>3. At(moved, last) = At(r, off)
      BY <1>6, <2>2
    <2> QED
      BY <1>2, <1>9, <2>3, AtSlot
  <1>11. RX_SEQ_TO_INDEX(seq) = At(moved, last)
    <2>1. RX_SEQ_TO_INDEX(seq) = At(r, off)
      BY <1>2, SlotForward DEF At
    <2> QED
      BY <1>10, <2>1
  <1> HIDE DEF seq
  <1>12. moved.rxq[At(moved, last)] = 0
    <2> DEFINE i == At(moved, last)
    <2>1. SUFFICES ASSUME moved.rxq[i] # 0 PROVE FALSE
      OBVIOUS
    <2>2. N[moved.rxq[i]] = <<s, c + last>>
      BY <1>2, <1>9, <2>1, StoredAt
    <2>3. i \in Slots /\ r.rxq[i] # 0 /\ r.rxq[i] = moved.rxq[i]
      BY <1>9, <1>10, <2>1
    <2> HIDE DEF i
    <2>4. PICK o \in 0..r.ba_wsize-1 : N[r.rxq[i]] = <<s, b + o>>
      BY <1>1, <2>3 DEF InSlots
    <2>5. c + last = b + o
      BY <2>2, <2>3, <2>4
    <2> QED
      BY <1>2, <2>5 DEF w
  <1>13. Stored(moved, M, s, c) /\ InTurn(L \o moved.rxcpl_list, M, s, c)
    BY <1>1, <1>2, <1>8, <1>9, StoredMore, TurnMore
  <1> HIDE DEF M
  <1>14. M[f] = <<s, c + last>> /\ last \in 0..moved.ba_wsize-1
    BY <1>2, <1>3, <1>9 DEF p
  <1>15. /\ Stored(st, M, s, c) /\ st.rxcpl_list = moved.rxcpl_list
         /\ Ids(st) = Ids(moved) \union {f}
    BY <1>2, <1>3, <1>9, <1>11, <1>12, <1>13, <1>14, StoreKeeps
  <1> HIDE DEF st
  <1>16. Lets(st, Ids(r) \union {f})
    <2>1. Lets(start, Ids(r))
      BY <1>5, <1>6, LetsFrom
    <2>2. Lets(moved, Ids(r))
      BY <1>8, <2>1, LetsMove
    <2> QED
      BY <1>4, <1>15, <2>2 DEF Lets
  <1>17. st \in RespType /\ InTurn(L \o st.rxcpl_list, M, s, c)
    BY <1>13, <1>15 DEF Stored
  <1>18. /\ Stored(q, M, s, c + k) /\ InTurn(L \o q.rxcpl_list, M, s, c + k)
         /\ Moves(st, q, k) /\ q.rxq[At(q, 0)] = 0
    BY <1>1, <1>2, <1>3, <1>15, <1>17, OrderedKeeps
  <1>19. k \in Nat
    BY <1>17, InARowIs
  <1> HIDE DEF q, k
  <1>20. Lets(q, Ids(r) \union {f})
    BY <1>16, <1>18, LetsMove
  <1>21. Good(Reset(q), L \o q.rxcpl_list, M, s, c + k)
    <2> DEFINE z == c + k
               K == L \o q.rxcpl_list
    <2>1. q \in RespType /\ Stored(q, M, s, z) /\ q.rxq[At(q, 0)] = 0 /\ InTurn(K, M, s, z)
      BY <1>18 DEF Stored
    <2> HIDE DEF z, K
    <2>2. Good(Reset(q), K, M, s, z)
      BY ONLY <2>1, GoodReset
    <2> QED
      BY <2>2 DEF z, K
  <1>22. q \in RespType
    BY <1>18 DEF Stored
  <1> QED
    BY ONLY <1>2, <1>19, <1>20, <1>21, <1>22 DEF q, k, st, M, p, seq, moved, start, d, w, f, c

(* A block ack request moves the window to where it starts.                *)
LEMMA BarGood ==
  ASSUME NEW r \in RespType, NEW N \in Places, NEW s \in Nat, NEW b \in Nat, NEW L,
         Good(r, L, N, s, b), NEW off \in Nat
  PROVE  LET start == IF r.queued > 0 THEN Reset(r) ELSE r
             moved == ReleaseN(start, off)
             q == ReleaseOrdered(moved)
             k == InARow(moved)
         IN  /\ Good(Reset(q), L \o q.rxcpl_list, N, s, (b + off) + k)
             /\ Lets(q, Ids(r)) /\ k \in Nat /\ q \in RespType
  <1> DEFINE start == IF r.queued > 0 THEN Reset(r) ELSE r
             moved == ReleaseN(start, off)
             q == ReleaseOrdered(moved)
             k == InARow(moved)
             c == b + off
  <1>1. /\ Stored(r, N, s, b) /\ Clear(r) /\ InTurn(L, N, s, b) /\ L \in Seq(Frames)
        /\ r.rxcpl_list = <<>> /\ c \in Nat
    BY DEF Good, InTurn, Clear
  <1>2. /\ start \in RespType /\ Stored(start, N, s, b) /\ start.rxcpl_list = <<>>
        /\ Ids(start) = Ids(r)
    <2>1. CASE r.queued > 0
      BY <1>1, <2>1, ResetKeeps, SameSlots
    <2>2. CASE ~(r.queued > 0)
      BY <1>1, <2>2
    <2> QED
      BY <2>1, <2>2
  <1> HIDE DEF start
  <1>3. L \o start.rxcpl_list = L
    BY <1>1, <1>2, ConcatEmptySeq
  <1>4. /\ Stored(moved, N, s, c) /\ InTurn(L \o moved.rxcpl_list, N, s, c)
        /\ Moves(start, moved, off)
    <2>1. /\ start \in RespType /\ N \in Places /\ s \in Nat /\ b \in Nat
          /\ Stored(start, N, s, b) /\ L \in Seq(Frames) /\ off \in Nat
          /\ InTurn(L \o start.rxcpl_list, N, s, b)
      BY <1>1, <1>2, <1>3
    <2>2. /\ Stored(ReleaseN(start, off), N, s, b + off)
          /\ InTurn(L \o ReleaseN(start, off).rxcpl_list, N, s, b + off)
          /\ Moves(start, ReleaseN(start, off), off)
      BY ONLY <2>1, ReleaseKeeps
    <2> QED
      BY ONLY <2>2 DEF c, moved
  <1> HIDE DEF moved, c
  <1>5. moved \in RespType
    BY <1>4 DEF Stored
  <1>6. /\ Stored(q, N, s, c + k) /\ InTurn(L \o q.rxcpl_list, N, s, c + k)
        /\ Moves(moved, q, k) /\ q.rxq[At(q, 0)] = 0
    BY <1>1, <1>4, <1>5, OrderedKeeps
  <1>7. k \in Nat
    BY <1>5, InARowIs
  <1> HIDE DEF q, k
  <1>8. Lets(q, Ids(r))
    <2>1. Lets(start, Ids(r))
      BY <1>2, LetsFrom
    <2>2. Lets(moved, Ids(r))
      BY <1>4, <2>1, LetsMove
    <2> QED
      BY <1>6, <2>2, LetsMove
  <1>9. Good(Reset(q), L \o q.rxcpl_list, N, s, c + k)
    <2> DEFINE z == c + k
               K == L \o q.rxcpl_list
    <2>1. q \in RespType /\ Stored(q, N, s, z) /\ q.rxq[At(q, 0)] = 0 /\ InTurn(K, N, s, z)
      BY <1>6 DEF Stored
    <2> HIDE DEF z, K
    <2>2. Good(Reset(q), K, N, s, z)
      BY ONLY <2>1, GoodReset
    <2> QED
      BY <2>2 DEF z, K
  <1>10. q \in RespType
    BY <1>6 DEF Stored
  <1> QED
    BY ONLY <1>7, <1>8, <1>9, <1>10 DEF q, k, moved, start, c

(* A session ends: all that waits is let go.                               *)
LEMMA CleanGood ==
  ASSUME NEW r \in RespType, NEW N \in Places, NEW s \in Nat, NEW b \in Nat, NEW L,
         Good(r, L, N, s, b)
  PROVE  LET ids == ReleaseN(r, ba_max_rx_wsize).rxcpl_list
         IN  /\ InTurn(L \o ids, N, s, b + ba_max_rx_wsize)
             /\ ids \in Seq(Frames) /\ ToSet(ids) = Ids(r)
  <1> DEFINE n == ba_max_rx_wsize
             q == ReleaseN(r, n)
  <1>1. /\ Stored(r, N, s, b) /\ InTurn(L, N, s, b) /\ L \in Seq(Frames)
        /\ r.rxcpl_list = <<>> /\ n \in Nat /\ n = W
    BY Sizes DEF Good, InTurn, Clear, W
  <1>2. L \o r.rxcpl_list = L
    BY <1>1, ConcatEmptySeq
  <1> HIDE DEF n
  <1>3. InTurn(L \o q.rxcpl_list, N, s, b + n) /\ Moves(r, q, n)
    <2>1. /\ r \in RespType /\ N \in Places /\ s \in Nat /\ b \in Nat
          /\ Stored(r, N, s, b) /\ L \in Seq(Frames) /\ n \in Nat
          /\ InTurn(L \o r.rxcpl_list, N, s, b)
      BY <1>1, <1>2
    <2>2. /\ Stored(ReleaseN(r, n), N, s, b + n)
          /\ InTurn(L \o ReleaseN(r, n).rxcpl_list, N, s, b + n)
          /\ Moves(r, ReleaseN(r, n), n)
      BY ONLY <2>1, ReleaseKeeps
    <2> QED
      BY ONLY <2>2 DEF q
  <1>4. Lets(q, Ids(r)) /\ Ids(q) = {}
    <2>1. Lets(r, Ids(r))
      BY <1>1, LetsFrom
    <2>2. n >= W
      BY <1>1
    <2> QED
      BY <1>3, <2>1, <2>2, LetsMove DEF Moves
  <1> HIDE DEF q
  <1>5. q.rxcpl_list \in Seq(Frames) /\ ToSet(q.rxcpl_list) = Ids(r)
    BY <1>4 DEF Lets
  <1> QED
    BY ONLY <1>3, <1>5 DEF q, n

-----------------------------------------------------------------------------
(* The bus layer's record.                                                 *)

Waiting == [id : Frames, need : BOOLEAN]

PcieType ==
  [q : Seq(Waiting), after : [Frames -> Seq(Frames)], first : SUBSET Frames,
   dropped : SUBSET Frames, done : SUBSET Frames, freed : SUBSET Frames]

LEMMA PcieFields ==
  ASSUME NEW d \in PcieType
  PROVE  /\ d.q \in Seq(Waiting) /\ d.after \in [Frames -> Seq(Frames)]
         /\ d.first \in SUBSET Frames /\ d.dropped \in SUBSET Frames
         /\ d.done \in SUBSET Frames /\ d.freed \in SUBSET Frames
  BY DEF PcieType

LEMMA MinIs ==
  ASSUME NEW S, S \subseteq Nat, S # {}
  PROVE  Min(S) \in S /\ \A j \in S : Min(S) <= j
  <1>1. IsWellFoundedOn(OpToRel(<, Nat), Nat)
    BY NatLessThanWellFounded
  <1>2. PICK k \in S : \A j \in S : ~(<<j, k>> \in OpToRel(<, Nat))
    BY <1>1, WFMin
  <1>3. \A j \in S : ~(j < k)
    BY <1>2 DEF OpToRel
  <1>4. \A j \in S : k =< j
    BY <1>3
  <1> QED
    BY <1>2, <1>4 DEF Min

(* What Complete changes.                                                  *)
Completes(d, e, ids, ck) ==
  LET S == Stops(d, ids)
      k == Min(S)
      H == Here(d, ids)
  IN  /\ e.q = d.q /\ e.dropped = d.dropped
      /\ e.done = d.done \union (H \ d.dropped)
      /\ e.freed = d.freed \union (H \intersect d.dropped)
      /\ S = {} => e.after = d.after /\ e.first = d.first
      /\ S # {} => /\ k \in S /\ \A j \in S : k <= j
                   /\ e.after = [d.after EXCEPT ![ids[k]] = SubSeq(ids, k + 1, Len(ids))]
                   /\ e.first = IF ck THEN d.first \union {ids[k]} ELSE d.first

LEMMA CompleteIs ==
  ASSUME NEW d \in PcieType, NEW ids \in Seq(Frames), NEW ck \in BOOLEAN
  PROVE  /\ Complete(d, ids, ck) \in PcieType
         /\ Completes(d, Complete(d, ids, ck), ids, ck)
  <1> DEFINE S == Stops(d, ids)
             k == Min(S)
             H == Here(d, ids)
             e == Complete(d, ids, ck)
             dn == d.done \union (H \ d.dropped)
             fr == d.freed \union (H \intersect d.dropped)
             rest == SubSeq(ids, k + 1, Len(ids))
             af == [d.after EXCEPT ![ids[k]] = rest]
             fi == IF ck THEN d.first \union {ids[k]} ELSE d.first
             walked == [d EXCEPT !.done = dn, !.freed = fr]
  <1>1. /\ d.after \in [Frames -> Seq(Frames)] /\ d.first \in SUBSET Frames
        /\ d.dropped \in SUBSET Frames /\ d.done \in SUBSET Frames /\ d.freed \in SUBSET Frames
    BY PcieFields
  <1>2. /\ Len(ids) \in Nat /\ DOMAIN ids = 1..Len(ids) /\ \A j \in DOMAIN ids : ids[j] \in Frames
    OBVIOUS
  <1>3. H \subseteq Frames
    BY <1>2 DEF Here
  <1>4. S \subseteq DOMAIN ids /\ S \subseteq Nat
    BY <1>2 DEF Stops
  <1>5. S # {} => k \in S /\ \A j \in S : k <= j
    BY <1>4, MinIs
  <1> HIDE DEF S, H, k
  <1>6. dn \in SUBSET Frames /\ fr \in SUBSET Frames
    BY <1>1, <1>3
  <1>7. S # {} => af \in [Frames -> Seq(Frames)] /\ fi \in SUBSET Frames
    <2>1. SUFFICES ASSUME S # {} PROVE af \in [Frames -> Seq(Frames)] /\ fi \in SUBSET Frames
      OBVIOUS
    <2>2. k \in DOMAIN ids /\ ids[k] \in Frames /\ k \in Nat
      BY <1>2, <1>4, <1>5, <2>1
    <2>3. rest \in Seq(Frames)
      <3>1. \A j \in k+1..Len(ids) : ids[j] \in Frames
        BY <1>2, <2>2
      <3>2. k + 1 \in Int /\ Len(ids) \in Int
        BY <1>2, <2>2
      <3> QED
        BY <3>1, <3>2, SubSeqProperties
    <2> HIDE DEF rest
    <2> QED
      BY <1>1, <2>2, <2>3
  <1>8. e = IF S = {} THEN walked ELSE [walked EXCEPT !.after = af, !.first = fi]
    BY DEF Complete, S, k, H
  <1> HIDE DEF dn, fr, af, fi, e
  <1>9. /\ walked \in PcieType /\ walked.q = d.q /\ walked.dropped = d.dropped
        /\ walked.done = dn /\ walked.freed = fr /\ walked.after = d.after
        /\ walked.first = d.first
    BY <1>6 DEF PcieType
  <1> HIDE DEF walked
  <1>10. CASE S = {}
    <2>1. e = walked
      BY <1>8, <1>10
    <2> QED
      BY ONLY <1>3, <1>9, <1>10, <2>1 DEF dn, fr, e, S, k, H, Completes
  <1>11. CASE S # {}
    <2>1. e = [walked EXCEPT !.after = af, !.first = fi]
      BY <1>8, <1>11
    <2>2. /\ e \in PcieType /\ e.q = walked.q /\ e.dropped = walked.dropped
          /\ e.done = walked.done /\ e.freed = walked.freed /\ e.after = af
          /\ e.first = fi
      BY <1>7, <1>9, <1>11, <2>1 DEF PcieType
    <2> QED
      BY ONLY <1>3, <1>5, <1>9, <1>11, <2>2 DEF dn, fr, af, fi, rest, e, S, k, H, Completes
  <1> QED
    BY ONLY <1>10, <1>11

LEMMA ArrivedType ==
  ASSUME NEW d \in PcieType, NEW f \in Frames, NEW need \in BOOLEAN
  PROVE  Arrived(d, f, need) \in PcieType /\ <<f>> \o d.after[f] \in Seq(Frames)
  <1>1. d.after[f] \in Seq(Frames) /\ <<f>> \in Seq(Frames)
    BY PcieFields
  <1>2. <<f>> \o d.after[f] \in Seq(Frames)
    BY <1>1, ConcatProperties
  <1>3. (f \in d.first) \in BOOLEAN
    OBVIOUS
  <1>4. Complete(d, <<f>> \o d.after[f], f \in d.first) \in PcieType
    BY <1>2, <1>3, CompleteIs
  <1> QED
    BY <1>2, <1>4 DEF Arrived

LEMMA DropType ==
  ASSUME NEW d \in PcieType, NEW f \in Frames
  PROVE  LET e == [d EXCEPT !.dropped = @ \union {f}]
         IN  /\ e \in PcieType /\ e.q = d.q /\ e.after = d.after /\ e.first = d.first
             /\ e.done = d.done /\ e.freed = d.freed
  <1> DEFINE dr == d.dropped \union {f}
  <1>1. dr \in SUBSET Frames
    BY PcieFields
  <1> HIDE DEF dr
  <1>2. LET e == [d EXCEPT !.dropped = dr]
        IN  /\ e \in PcieType /\ e.q = d.q /\ e.after = d.after /\ e.first = d.first
            /\ e.done = d.done /\ e.freed = d.freed
    BY <1>1 DEF PcieType
  <1> QED
    BY <1>2 DEF dr

LEMMA FreeType ==
  ASSUME NEW d \in PcieType, NEW f \in Frames, NEW need \in BOOLEAN
  PROVE  Free(d, f, need) \in PcieType
  BY DropType, ArrivedType DEF Free

LEMMA SendUpIs ==
  ASSUME NEW d \in PcieType, NEW f \in Frames, NEW need \in BOOLEAN
  PROVE  LET e == SendUp(d, f, need, FALSE)
         IN  /\ e \in PcieType /\ e.q = Append(d.q, [id |-> f, need |-> need])
             /\ e.after = d.after /\ e.first = d.first /\ e.dropped = d.dropped
             /\ e.done = d.done /\ e.freed = d.freed
  <1> DEFINE x == Append(d.q, [id |-> f, need |-> need])
             e == SendUp(d, f, need, FALSE)
  <1>1. x \in Seq(Waiting)
    <2>1. d.q \in Seq(Waiting) /\ [id |-> f, need |-> need] \in Waiting
      BY PcieFields DEF Waiting
    <2> QED
      BY <2>1
  <1>2. e = [d EXCEPT !.q = x]
    BY DEF SendUp
  <1> HIDE DEF x, e
  <1>3. /\ e \in PcieType /\ e.q = x /\ e.after = d.after /\ e.first = d.first
        /\ e.dropped = d.dropped /\ e.done = d.done /\ e.freed = d.freed
    BY <1>1, <1>2 DEF PcieType
  <1> QED
    BY <1>3 DEF x, e

LEMMA SendUpType ==
  ASSUME NEW d \in PcieType, NEW f \in Frames, NEW need \in BOOLEAN, NEW drop \in BOOLEAN
  PROVE  SendUp(d, f, need, drop) \in PcieType
  <1>1. CASE drop
    BY <1>1, FreeType DEF SendUp
  <1>2. CASE ~drop
    BY <1>2, SendUpIs DEF SendUp
  <1> QED
    BY <1>1, <1>2

LEMMA FlushType ==
  ASSUME NEW d \in PcieType, NEW ids \in Seq(Frames)
  PROVE  Flush(d, ids) \in PcieType
  <1>1. TRUE \in BOOLEAN
    OBVIOUS
  <1> QED
    BY <1>1, CompleteIs DEF Flush

-----------------------------------------------------------------------------
(* The inductive invariant of the window.                                  *)

Win(re, ti, pc, nu, rel, se, ba) ==
  /\ nu \in Places /\ Len(nu) <= MaxFrames /\ se \in Nat /\ ba \in Nat
  /\ ti \in BOOLEAN /\ pc \in PcieType /\ InTurn(rel, nu, se, ba)
  /\ re = NoResp \/ (re \in RespType /\ Stored(re, nu, se, ba) /\ Clear(re))

WinInv == Win(resp, resp_timer_running, pcie, num, released, session, base)

LEMMA RespIs ==
  ASSUME NEW re, re \in RespType PROVE re # NoResp
  <1>1. re.ba_wsize \in 1..W
    BY RespFields
  <1>2. NoResp.ba_wsize = 0
    BY DEF NoResp
  <1> QED
    BY <1>1, <1>2, Sizes

LEMMA DropBool == Drop \subseteq BOOLEAN
  BY DEF Drop

(* What a received frame finds.                                            *)
LEMMA NextFrame ==
  ASSUME WinInv, frame <= MaxFrames
  PROVE  /\ frame \in Frames /\ Len(num) + 1 <= MaxFrames /\ frame = Len(num) + 1
         /\ num \in Places /\ session \in Nat /\ base \in Nat /\ pcie \in PcieType
         /\ InTurn(released, num, session, base) /\ resp_timer_running \in BOOLEAN
         /\ \A o \in Nat : <<session, base + o>> \in Nat \X Nat
  <1>1. Len(num) \in Nat
    BY DEF WinInv, Win, Places
  <1>2. frame \in Frames /\ Len(num) + 1 <= MaxFrames /\ frame = Len(num) + 1
    BY <1>1, Sizes DEF frame, Frames
  <1> QED
    BY <1>2 DEF WinInv, Win

LEMMA MorePlaces ==
  ASSUME WinInv, frame <= MaxFrames, NEW o \in Nat
  PROVE  /\ Append(num, <<session, base + o>>) \in Places
         /\ Len(Append(num, <<session, base + o>>)) <= MaxFrames
         /\ frame \in DOMAIN Append(num, <<session, base + o>>)
         /\ Append(num, <<session, base + o>>)[frame] = <<session, base + o>>
         /\ InTurn(released, Append(num, <<session, base + o>>), session, base)
  <1> DEFINE p == <<session, base + o>>
  <1>1. /\ num \in Places /\ p \in Nat \X Nat /\ session \in Nat /\ base \in Nat
        /\ InTurn(released, num, session, base) /\ frame = Len(num) + 1
        /\ Len(num) + 1 <= MaxFrames
    BY NextFrame
  <1> HIDE DEF p
  <1>2. /\ Append(num, p) \in Places /\ Len(Append(num, p)) = Len(num) + 1
        /\ frame \in DOMAIN Append(num, p) /\ Append(num, p)[frame] = p
    BY ONLY <1>1, PlacesMore
  <1>3. InTurn(released, Append(num, p), session, base)
    BY ONLY <1>1, TurnMore
  <1> QED
    BY ONLY <1>1, <1>2, <1>3 DEF p

LEMMA RecvPlainWin ==
  ASSUME WinInv, RecvPlain PROVE WinInv'
  <1> DEFINE M == Append(num, <<session, base + 0>>)
             L == Append(released, frame)
  <1>1. /\ resp = NoResp /\ frame <= MaxFrames /\ num' = M /\ session' = session
        /\ released' = L /\ base' = base + 1 /\ resp' = resp
        /\ resp_timer_running' = resp_timer_running
    BY DEF RecvPlain, Receives
  <1>2. PICK drop \in Drop : pcie' = SendUp(pcie, frame, TRUE, drop)
    BY DEF RecvPlain
  <1>3. /\ frame \in Frames /\ session \in Nat /\ base \in Nat /\ pcie \in PcieType
        /\ resp_timer_running \in BOOLEAN /\ drop \in BOOLEAN /\ TRUE \in BOOLEAN
        /\ base + 0 = base
    BY <1>1, NextFrame, DropBool
  <1>4. /\ M \in Places /\ Len(M) <= MaxFrames /\ frame \in DOMAIN M
        /\ M[frame] = <<session, base>> /\ InTurn(released, M, session, base)
    <2>1. 0 \in Nat
      OBVIOUS
    <2> QED
      BY <1>1, <1>3, <2>1, MorePlaces
  <1> HIDE DEF M
  <1>5. InTurn(L, M, session, base + 1)
    BY ONLY <1>3, <1>4, TurnAppend DEF L
  <1> HIDE DEF L
  <1>6. pcie' \in PcieType
    BY ONLY <1>2, <1>3, SendUpType
  <1>7. base + 1 \in Nat
    BY ONLY <1>3
  <1>8. Win(resp', resp_timer_running', pcie', num', released', session', base')
    BY ONLY <1>1, <1>3, <1>4, <1>5, <1>6, <1>7 DEF Win
  <1> QED
    BY <1>8 DEF WinInv

LEMMA RecvExpectedWin ==
  ASSUME WinInv, RecvExpected PROVE WinInv'
  <1> DEFINE M == Append(num, <<session, base + 0>>)
             on == On(resp)
             start == IF on.queued > 0 THEN Reset(on) ELSE on
             r == ReleaseOrdered(start)
             ids == r.rxcpl_list
             k == InARow(start)
             R == IF on.queued > 0 THEN Reset(r) ELSE r
             L == (released \o <<frame>>) \o ids
             d == [pcie EXCEPT !.after[frame] = ids]
  <1>1. /\ resp # NoResp /\ frame <= MaxFrames /\ num' = M /\ session' = session
        /\ released' = L /\ base' = base + 1 + k /\ resp' = R
        /\ resp_timer_running' = resp_timer_running
    BY DEF RecvExpected, Receives, On
  <1>2. PICK drop \in Drop : pcie' = SendUp(d, frame, TRUE, drop)
    BY DEF RecvExpected, On
  <1>3. /\ frame \in Frames /\ session \in Nat /\ base \in Nat /\ pcie \in PcieType
        /\ resp_timer_running \in BOOLEAN /\ drop \in BOOLEAN /\ TRUE \in BOOLEAN
        /\ base + 0 = base /\ num \in Places /\ frame = Len(num) + 1
        /\ Len(num) + 1 <= MaxFrames
    BY <1>1, NextFrame, DropBool
  <1>4. M \in Places /\ Len(M) <= MaxFrames
    <2>1. 0 \in Nat
      OBVIOUS
    <2> QED
      BY <1>1, <1>3, <2>1, MorePlaces
  <1>5. resp \in RespType /\ Good(resp, released, num, session, base)
    BY <1>1 DEF WinInv, Win, Good
  <1>6. Good(R, L, M, session, (base + 1) + k) /\ Lets(r, Ids(resp)) /\ k \in Nat
    BY ONLY <1>3, <1>5, ExpectedGood DEF M, on, start, r, ids, k, R, L
  <1> HIDE DEF M, R, L, k, r
  <1>7. d \in PcieType
    <2> DEFINE af == [pcie.after EXCEPT ![frame] = ids]
    <2>1. ids \in Seq(Frames)
      BY <1>6 DEF Lets
    <2>2. af \in [Frames -> Seq(Frames)]
      BY <1>3, <2>1, PcieFields
    <2>3. d = [pcie EXCEPT !.after = af]
      OBVIOUS
    <2> HIDE DEF af, d
    <2> QED
      BY <1>3, <2>2, <2>3 DEF PcieType
  <1> HIDE DEF d
  <1>8. pcie' \in PcieType
    BY ONLY <1>2, <1>3, <1>7, SendUpType
  <1>9. (base + 1) + k \in Nat
    BY ONLY <1>3, <1>6
  <1>10. Win(resp', resp_timer_running', pcie', num', released', session', base')
    BY ONLY <1>1, <1>3, <1>4, <1>6, <1>8, <1>9 DEF Win, Good, Stored
  <1> QED
    BY <1>10 DEF WinInv

LEMMA RecvDuplicateWin ==
  ASSUME WinInv, RecvDuplicate PROVE WinInv'
  <1>1. PICK o \in Offsets \ {0} : Receives(o)
    BY DEF RecvDuplicate
  <1> DEFINE M == Append(num, <<session, base + o>>)
  <1>2. /\ resp # NoResp /\ frame <= MaxFrames /\ num' = M /\ session' = session
        /\ released' = released /\ base' = base /\ resp' = resp
        /\ resp_timer_running' = resp_timer_running /\ pcie' = Free(pcie, frame, TRUE)
    BY <1>1 DEF RecvDuplicate, Receives
  <1>3. /\ frame \in Frames /\ session \in Nat /\ base \in Nat /\ pcie \in PcieType
        /\ resp_timer_running \in BOOLEAN /\ TRUE \in BOOLEAN /\ o \in Nat /\ num \in Places
        /\ <<session, base + o>> \in Nat \X Nat
    BY <1>2, NextFrame, Sizes
  <1>4. M \in Places /\ Len(M) <= MaxFrames /\ InTurn(released, M, session, base)
    BY <1>2, <1>3, MorePlaces
  <1>5. resp \in RespType /\ Stored(resp, num, session, base) /\ Clear(resp)
    BY <1>2 DEF WinInv, Win
  <1>6. Stored(resp, M, session, base)
    BY <1>3, <1>5, StoredMore
  <1>7. pcie' \in PcieType
    BY ONLY <1>2, <1>3, FreeType
  <1> HIDE DEF M
  <1>8. Win(resp', resp_timer_running', pcie', num', released', session', base')
    BY ONLY <1>2, <1>3, <1>4, <1>5, <1>6, <1>7 DEF Win
  <1> QED
    BY <1>8 DEF WinInv

LEMMA InWindowGood ==
  ASSUME WinInv, resp # NoResp, frame <= MaxFrames,
         NEW o \in (Offsets \ {0}) \intersect 1..resp.ba_wsize-1,
         ~Duplicate(Forward(resp.exp_seq, o), o)
  PROVE  LET M == Append(num, <<session, base + o>>)
             R == Store(resp, Forward(resp.exp_seq, o), frame)
         IN  /\ M \in Places /\ Len(M) <= MaxFrames /\ InTurn(released, M, session, base)
             /\ R \in RespType /\ Stored(R, M, session, base) /\ Clear(R)
             /\ Ids(R) = Ids(resp) \union {frame}
  <1> DEFINE M == Append(num, <<session, base + o>>)
             seq == Forward(resp.exp_seq, o)
             R == Store(resp, seq, frame)
  <1>1. /\ frame \in Frames /\ session \in Nat /\ base \in Nat
        /\ num \in Places /\ <<session, base + o>> \in Nat \X Nat
        /\ o \in Nat /\ o \in 1..resp.ba_wsize-1
    BY NextFrame, Sizes
  <1>2. /\ M \in Places /\ Len(M) <= MaxFrames /\ InTurn(released, M, session, base)
        /\ frame \in DOMAIN M /\ M[frame] = <<session, base + o>>
    BY <1>1, MorePlaces
  <1>3. resp \in RespType /\ Stored(resp, num, session, base) /\ Clear(resp)
    BY DEF WinInv, Win
  <1>4. Stored(resp, M, session, base)
    BY <1>1, <1>3, StoredMore
  <1>5. resp.ba_wsize \in 1..W /\ resp.exp_seq \in Nat /\ W \in Nat
    BY <1>3, RespFields, Sizes
  <1>6. o \in 0..resp.ba_wsize-1 /\ o \in Slots /\ 0 \in Slots /\ o # 0 /\ o < resp.ba_wsize
    BY ONLY <1>1, <1>5 DEF Slots
  <1>7. RX_SEQ_TO_INDEX(seq) = At(resp, o)
    BY <1>1, <1>5, SlotForward DEF At
  <1>8. resp.rxq[At(resp, o)] = 0
    BY <1>6, <1>7 DEF Duplicate, Pending
  <1>9. At(resp, o) # At(resp, 0) /\ At(resp, 0) \in Slots
    BY <1>3, <1>6, AtSlot
  <1> HIDE DEF M, seq
  <1>10. /\ Stored(R, M, session, base) /\ R.rxcpl_list = resp.rxcpl_list
         /\ \A j : At(R, j) = At(resp, j)
         /\ \A i \in Slots : i # At(resp, o) => R.rxq[i] = resp.rxq[i]
         /\ Ids(R) = Ids(resp) \union {frame}
    BY ONLY <1>1, <1>2, <1>3, <1>4, <1>6, <1>7, <1>8, StoreKeeps DEF R
  <1> HIDE DEF R
  <1>11. Clear(R) /\ R \in RespType
    BY <1>3, <1>9, <1>10 DEF Clear, Stored
  <1> QED
    BY ONLY <1>2, <1>10, <1>11 DEF R, M, seq

LEMMA RecvInWindowWin ==
  ASSUME WinInv, RecvInWindow PROVE WinInv'
  <1>1. PICK o \in (Offsets \ {0}) \intersect 1..resp.ba_wsize-1 :
          /\ ~Duplicate(Forward(resp.exp_seq, o), o)
          /\ Receives(o) /\ resp' = Store(resp, Forward(resp.exp_seq, o), frame)
    BY DEF RecvInWindow
  <1> DEFINE M == Append(num, <<session, base + o>>)
             R == Store(resp, Forward(resp.exp_seq, o), frame)
  <1>2. /\ resp # NoResp /\ frame <= MaxFrames /\ num' = M /\ session' = session
        /\ released' = released /\ base' = base /\ resp' = R
        /\ resp_timer_running' = TRUE
    BY <1>1 DEF RecvInWindow, Receives
  <1>3. PICK drop \in Drop : pcie' = SendUp(pcie, frame, FALSE, drop)
    BY DEF RecvInWindow
  <1>4. /\ frame \in Frames /\ session \in Nat /\ base \in Nat /\ pcie \in PcieType
        /\ drop \in BOOLEAN /\ FALSE \in BOOLEAN /\ TRUE \in BOOLEAN
    BY <1>2, NextFrame, DropBool
  <1>5. /\ M \in Places /\ Len(M) <= MaxFrames /\ InTurn(released, M, session, base)
        /\ R \in RespType /\ Stored(R, M, session, base) /\ Clear(R)
    BY <1>1, <1>2, InWindowGood
  <1> HIDE DEF M, R
  <1>6. pcie' \in PcieType
    BY ONLY <1>3, <1>4, SendUpType
  <1>7. Win(resp', resp_timer_running', pcie', num', released', session', base')
    BY ONLY <1>2, <1>4, <1>5, <1>6 DEF Win
  <1> QED
    BY <1>7 DEF WinInv

LEMMA RecvBeyondWin ==
  ASSUME WinInv, RecvBeyond PROVE WinInv'
  <1>1. PICK o \in {x \in Offsets : x >= resp.ba_wsize} :
          LET seq == Forward(resp.exp_seq, o)
              moved == ReleaseN(Reset(resp), Delta(o))
              st == Store(moved, seq, frame)
              r == ReleaseOrdered(st)
          IN  /\ Receives(o) /\ resp' = Reset(r)
              /\ \E drop \in Drop :
                   pcie' = Flush(SendUp(pcie, frame, FALSE, drop), r.rxcpl_list)
              /\ released' = released \o r.rxcpl_list
              /\ base' = base + Delta(o) + InARow(st)
    BY DEF RecvBeyond
  <1> DEFINE M == Append(num, <<session, base + o>>)
             dl == (o - resp.ba_wsize) + 1
             seq == Forward(resp.exp_seq, o)
             st == Store(ReleaseN(Reset(resp), dl), seq, frame)
             r == ReleaseOrdered(st)
             k == InARow(st)
             ids == r.rxcpl_list
             L == released \o ids
             R == Reset(r)
  <1>2. /\ resp # NoResp /\ frame <= MaxFrames /\ num' = M /\ session' = session
        /\ released' = L /\ base' = (base + dl) + k /\ resp' = R
        /\ resp_timer_running' = TRUE
    BY <1>1 DEF RecvBeyond, Receives, Delta
  <1>3. PICK drop \in Drop : pcie' = Flush(SendUp(pcie, frame, FALSE, drop), ids)
    BY <1>1 DEF Delta
  <1>4. /\ frame \in Frames /\ session \in Nat /\ base \in Nat /\ pcie \in PcieType
        /\ num \in Places /\ frame = Len(num) + 1 /\ Len(num) + 1 <= MaxFrames
        /\ drop \in BOOLEAN /\ FALSE \in BOOLEAN /\ TRUE \in BOOLEAN
        /\ o \in Nat /\ o >= resp.ba_wsize
    BY <1>1, <1>2, NextFrame, Sizes, DropBool
  <1>5. M \in Places /\ Len(M) <= MaxFrames
    BY <1>2, <1>4, MorePlaces
  <1>6. resp \in RespType /\ Good(resp, released, num, session, base)
    BY <1>2 DEF WinInv, Win, Good
  <1>7. Good(R, L, M, session, (base + dl) + k) /\ Lets(r, Ids(resp) \union {frame})
        /\ dl \in Nat /\ k \in Nat
    BY ONLY <1>4, <1>6, BeyondGood DEF M, dl, seq, st, r, k, ids, L, R
  <1> HIDE DEF M, R, L, k, dl, r
  <1>8. ids \in Seq(Frames)
    BY <1>7 DEF Lets
  <1> DEFINE d == SendUp(pcie, frame, FALSE, drop)
  <1>9. d \in PcieType
    BY ONLY <1>4, SendUpType
  <1> HIDE DEF d, ids
  <1>10. pcie' \in PcieType
    BY ONLY <1>3, <1>8, <1>9, FlushType DEF d
  <1>11. (base + dl) + k \in Nat
    BY ONLY <1>4, <1>7
  <1>12. Win(resp', resp_timer_running', pcie', num', released', session', base')
    BY ONLY <1>2, <1>4, <1>5, <1>7, <1>10, <1>11 DEF Win, Good, Stored
  <1> QED
    BY <1>12 DEF WinInv

LEMMA RecvBarWin ==
  ASSUME WinInv, RecvBar PROVE WinInv'
  <1>1. PICK o \in Offsets :
          LET start == IF resp.queued > 0 THEN Reset(resp) ELSE resp
              moved == ReleaseN(start, o)
              r == ReleaseOrdered(moved)
          IN  /\ resp' = Reset(r) /\ pcie' = Flush(pcie, r.rxcpl_list)
              /\ released' = released \o r.rxcpl_list
              /\ base' = base + o + InARow(moved)
    BY DEF RecvBar
  <1> DEFINE start == IF resp.queued > 0 THEN Reset(resp) ELSE resp
             moved == ReleaseN(start, o)
             r == ReleaseOrdered(moved)
             k == InARow(moved)
             ids == r.rxcpl_list
             L == released \o ids
             R == Reset(r)
  <1>2. /\ resp # NoResp /\ num' = num /\ session' = session
        /\ released' = L /\ base' = (base + o) + k /\ resp' = R
        /\ resp_timer_running' = resp_timer_running /\ pcie' = Flush(pcie, ids)
    BY <1>1 DEF RecvBar
  <1>3. /\ session \in Nat /\ base \in Nat /\ pcie \in PcieType /\ num \in Places
        /\ Len(num) <= MaxFrames /\ resp_timer_running \in BOOLEAN /\ o \in Nat
        /\ resp \in RespType /\ Good(resp, released, num, session, base)
    BY <1>2, Sizes DEF WinInv, Win, Good
  <1>4. Good(R, L, num, session, (base + o) + k) /\ Lets(r, Ids(resp)) /\ k \in Nat
    BY ONLY <1>3, BarGood DEF start, moved, r, k, ids, L, R
  <1> HIDE DEF R, L, k, r
  <1>5. ids \in Seq(Frames)
    BY <1>4 DEF Lets
  <1> HIDE DEF ids
  <1>6. pcie' \in PcieType
    BY ONLY <1>2, <1>3, <1>5, FlushType
  <1>7. (base + o) + k \in Nat
    BY ONLY <1>3, <1>4
  <1>8. Win(resp', resp_timer_running', pcie', num', released', session', base')
    BY ONLY <1>2, <1>3, <1>4, <1>6, <1>7 DEF Win, Good, Stored
  <1> QED
    BY <1>8 DEF WinInv

(* The end of a session, for any state d of the bus layer.                 *)
LEMMA CleanupWin ==
  ASSUME WinInv, resp # NoResp, NEW d \in PcieType
  PROVE  LET ids == ReleaseN(resp, ba_max_rx_wsize).rxcpl_list
         IN  /\ Cleaned(d) = Flush(d, ids) /\ Cleaned(d) \in PcieType
             /\ ids \in Seq(Frames) /\ ToSet(ids) = Ids(resp)
             /\ InTurn(released \o ids, num, session, base + ba_max_rx_wsize)
             /\ base + ba_max_rx_wsize \in Nat
  <1> DEFINE ids == ReleaseN(resp, ba_max_rx_wsize).rxcpl_list
  <1>1. /\ session \in Nat /\ base \in Nat /\ num \in Places /\ resp \in RespType
        /\ Good(resp, released, num, session, base)
    BY DEF WinInv, Win, Good
  <1>2. /\ InTurn(released \o ids, num, session, base + ba_max_rx_wsize)
        /\ ids \in Seq(Frames) /\ ToSet(ids) = Ids(resp)
    BY ONLY <1>1, CleanGood
  <1>3. Cleaned(d) = Flush(d, ids)
    BY DEF Cleaned
  <1> HIDE DEF ids
  <1>4. Cleaned(d) \in PcieType
    BY <1>2, <1>3, FlushType
  <1>5. base + ba_max_rx_wsize \in Nat
    BY <1>1, Sizes DEF W
  <1> QED
    BY ONLY <1>2, <1>3, <1>4, <1>5 DEF ids

LEMMA EndSessionWin ==
  ASSUME WinInv, EndSession PROVE WinInv'
  <1> DEFINE ids == ReleaseN(resp, ba_max_rx_wsize).rxcpl_list
             L == released \o ids
             B == base + ba_max_rx_wsize
  <1>1. /\ resp # NoResp /\ num' = num /\ session' = session /\ released' = L
        /\ base' = B /\ resp' = NoResp /\ resp_timer_running' = FALSE
        /\ pcie' = Cleaned(pcie)
    BY DEF EndSession, Cleanup
  <1>2. /\ num \in Places /\ Len(num) <= MaxFrames /\ session \in Nat /\ pcie \in PcieType
    BY DEF WinInv, Win
  <1>3. InTurn(L, num, session, B) /\ B \in Nat /\ Cleaned(pcie) \in PcieType
    BY <1>1, <1>2, CleanupWin
  <1> HIDE DEF L, B
  <1>4. Win(resp', resp_timer_running', pcie', num', released', session', base')
    BY ONLY <1>1, <1>2, <1>3 DEF Win
  <1> QED
    BY <1>4 DEF WinInv

LEMMA RecvFragmentWin ==
  ASSUME WinInv, RecvFragment PROVE WinInv'
  <1> DEFINE ids == ReleaseN(resp, ba_max_rx_wsize).rxcpl_list
             L == released \o ids
             B == base + ba_max_rx_wsize
             M == Append(num, <<session, base + 0>>)
             d == Free(pcie, frame, TRUE)
  <1>1. /\ resp # NoResp /\ frame <= MaxFrames /\ num' = M /\ session' = session
        /\ released' = L /\ base' = B /\ resp' = NoResp
        /\ resp_timer_running' = FALSE /\ pcie' = Cleaned(d)
    BY DEF RecvFragment, Cleanup, Receives
  <1>2. /\ frame \in Frames /\ num \in Places /\ session \in Nat /\ pcie \in PcieType
        /\ TRUE \in BOOLEAN /\ 0 \in Nat /\ <<session, base + 0>> \in Nat \X Nat
    BY <1>1, NextFrame
  <1>3. M \in Places /\ Len(M) <= MaxFrames
    BY <1>1, <1>2, MorePlaces
  <1>4. d \in PcieType
    BY <1>2, FreeType
  <1> HIDE DEF d
  <1>5. InTurn(L, num, session, B) /\ B \in Nat /\ Cleaned(d) \in PcieType
    BY <1>1, <1>4, CleanupWin
  <1> HIDE DEF L, B
  <1>6. InTurn(L, M, session, B)
    BY <1>2, <1>5, TurnMore
  <1> HIDE DEF M
  <1>7. Win(resp', resp_timer_running', pcie', num', released', session', base')
    BY ONLY <1>1, <1>2, <1>3, <1>5, <1>6 DEF Win
  <1> QED
    BY <1>7 DEF WinInv

(* A new session, empty.                                                   *)
NewResp(wsize) ==
  [ba_wsize |-> wsize, exp_seq |-> Start, queued |-> 0, alive |-> FALSE, dead_cnt |-> 0,
   rxq |-> [i \in 0..ba_max_rx_wsize-1 |-> 0], rxcpl_list |-> <<>>]

LEMMA NewGood ==
  ASSUME NEW wsize \in Wsizes, NEW N, NEW s, NEW b
  PROVE  /\ NewResp(wsize) \in RespType /\ Stored(NewResp(wsize), N, s, b)
         /\ Clear(NewResp(wsize)) /\ Ids(NewResp(wsize)) = {}
  <1> DEFINE z == [i \in Slots |-> 0]
             e == <<>>
             r == NewResp(wsize)
  <1>1. z \in [Slots -> 0..MaxFrames] /\ e \in Seq(Frames) /\ \A i \in Slots : z[i] = 0
    BY Sizes
  <1>2. r = [ba_wsize |-> wsize, exp_seq |-> Start, queued |-> 0, alive |-> FALSE,
             dead_cnt |-> 0, rxq |-> z, rxcpl_list |-> e]
    BY DEF NewResp, Slots, W
  <1>3. 0 \in 0..DeadLim-1 /\ Start \in 0..SEQNUM_MAX-1 /\ 0 \in Nat /\ FALSE \in BOOLEAN
    BY Sizes
  <1> HIDE DEF z, e, r
  <1>4. r \in RespType /\ r.rxq = z /\ r.rxcpl_list = e /\ r.queued = 0
    BY <1>1, <1>2, <1>3 DEF RespType
  <1>5. Ids(r) = {}
    BY <1>1, <1>4 DEF Ids
  <1>6. Stored(r, N, s, b)
    BY <1>1, <1>4, <1>5, FS_EmptySet DEF Stored, InSlots
  <1>7. At(r, 0) \in Slots
    BY <1>4, AtSlot
  <1>8. Clear(r)
    BY <1>1, <1>4, <1>7 DEF Clear, e
  <1> QED
    BY ONLY <1>4, <1>5, <1>6, <1>8 DEF r

LEMMA RecvAddbaWin ==
  ASSUME WinInv, RecvAddba PROVE WinInv'
  <1> DEFINE ids == ReleaseN(resp, ba_max_rx_wsize).rxcpl_list
  <1>1. /\ pcie' = Cleaned(pcie) /\ num' = num /\ session' = session + 1 /\ base' = 0
        /\ \/ resp = NoResp /\ resp_timer_running' = resp_timer_running /\ released' = released
           \/ resp # NoResp /\ resp_timer_running' = FALSE /\ released' = released \o ids
        /\ resp' = NoResp \/ \E wsize \in Wsizes : resp' = NewResp(wsize)
    BY DEF RecvAddba, NewResp
  <1>2. /\ num \in Places /\ Len(num) <= MaxFrames /\ session \in Nat /\ base \in Nat
        /\ pcie \in PcieType /\ resp_timer_running \in BOOLEAN
        /\ InTurn(released, num, session, base)
    BY DEF WinInv, Win
  <1>3. /\ pcie' \in PcieType /\ resp_timer_running' \in BOOLEAN
        /\ InTurn(released', num, session + 1, 0)
    <2>1. CASE resp = NoResp
      <3>1. /\ released' = released /\ pcie' = pcie
            /\ resp_timer_running' = resp_timer_running
        BY <1>1, <2>1 DEF Cleaned
      <3>2. InTurn(released, num, session + 1, 0)
        BY ONLY <1>2, TurnNext
      <3> QED
        BY ONLY <1>2, <3>1, <3>2
    <2>2. CASE resp # NoResp
      <3> DEFINE L == released \o ids
                 B == base + ba_max_rx_wsize
      <3>1. released' = L /\ resp_timer_running' = FALSE /\ pcie' = Cleaned(pcie)
        BY <1>1, <2>2
      <3>2. InTurn(L, num, session, B) /\ B \in Nat /\ Cleaned(pcie) \in PcieType
        BY <1>2, <2>2, CleanupWin
      <3> HIDE DEF L, B
      <3>3. InTurn(L, num, session + 1, 0)
        BY ONLY <1>2, <3>2, TurnNext
      <3> QED
        BY ONLY <3>1, <3>2, <3>3
    <2> QED
      BY ONLY <2>1, <2>2
  <1>4. resp' = NoResp \/ (resp' \in RespType /\ Stored(resp', num, session + 1, 0) /\ Clear(resp'))
    <2>1. SUFFICES ASSUME NEW wsize \in Wsizes, resp' = NewResp(wsize)
                   PROVE  resp' \in RespType /\ Stored(resp', num, session + 1, 0) /\ Clear(resp')
      BY <1>1
    <2>2. /\ NewResp(wsize) \in RespType /\ Stored(NewResp(wsize), num, session + 1, 0)
          /\ Clear(NewResp(wsize))
      BY NewGood
    <2> QED
      BY ONLY <2>1, <2>2
  <1>5. session + 1 \in Nat /\ 0 \in Nat
    BY ONLY <1>2
  <1>6. Win(resp', resp_timer_running', pcie', num', released', session', base')
    BY ONLY <1>1, <1>2, <1>3, <1>4, <1>5 DEF Win
  <1> QED
    BY <1>6 DEF WinInv

LEMMA FlagsKeep ==
  ASSUME NEW r \in RespType, NEW a \in BOOLEAN, NEW c \in 0..DeadLim-1
  PROVE  LET q == [r EXCEPT !.alive = a, !.dead_cnt = c]
         IN  /\ q \in RespType /\ q.rxq = r.rxq /\ q.exp_seq = r.exp_seq
             /\ q.queued = r.queued /\ q.ba_wsize = r.ba_wsize
             /\ q.rxcpl_list = r.rxcpl_list /\ Ids(q) = Ids(r)
             /\ \A N, s, b : Stored(r, N, s, b) /\ Clear(r) => Stored(q, N, s, b) /\ Clear(q)
  <1> DEFINE q == [r EXCEPT !.alive = a, !.dead_cnt = c]
  <1>1. /\ q \in RespType /\ q.rxq = r.rxq /\ q.exp_seq = r.exp_seq /\ q.queued = r.queued
        /\ q.ba_wsize = r.ba_wsize /\ q.rxcpl_list = r.rxcpl_list
    BY DEF RespType
  <1> HIDE DEF q
  <1>2. Ids(q) = Ids(r) /\ \A k : At(q, k) = At(r, k)
    BY <1>1 DEF Ids, At
  <1>3. ASSUME NEW N, NEW s, NEW b, Stored(r, N, s, b), Clear(r)
        PROVE  Stored(q, N, s, b) /\ Clear(q)
    BY <1>1, <1>2, <1>3, SameSlots DEF Clear
  <1> QED
    BY ONLY <1>1, <1>2, <1>3 DEF q

LEMMA TickAliveWin ==
  ASSUME WinInv, TickAlive PROVE WinInv'
  <1> DEFINE R == [resp EXCEPT !.alive = FALSE, !.dead_cnt = 0]
  <1>1. /\ resp # NoResp /\ resp' = R /\ resp_timer_running' = StartTimer /\ pcie' = pcie
        /\ num' = num /\ released' = released /\ session' = session /\ base' = base
    BY DEF TickAlive
  <1>2. resp \in RespType /\ Stored(resp, num, session, base) /\ Clear(resp)
    BY <1>1 DEF WinInv, Win
  <1>3. FALSE \in BOOLEAN /\ 0 \in 0..DeadLim-1
    BY Sizes
  <1>4. R \in RespType /\ Stored(R, num, session, base) /\ Clear(R)
    BY ONLY <1>2, <1>3, FlagsKeep
  <1>5. StartTimer \in BOOLEAN
    BY DEF StartTimer
  <1> HIDE DEF R
  <1>6. Win(resp', resp_timer_running', pcie', num', released', session', base')
    BY <1>1, <1>4, <1>5 DEF Win, WinInv
  <1> QED
    BY <1>6 DEF WinInv

LEMMA TickStuckWin ==
  ASSUME WinInv, TickStuck PROVE WinInv'
  <1>0. resp # NoResp /\ num' = num /\ session' = session /\ ~resp.alive
    BY DEF TickStuck
  <1>1. CASE resp.dead_cnt + 1 < DeadLim
    <2> DEFINE c == resp.dead_cnt + 1
               R == [resp EXCEPT !.dead_cnt = c]
    <2>1. /\ resp' = R /\ pcie' = pcie /\ released' = released /\ base' = base
          /\ resp_timer_running' = resp_timer_running
      BY <1>1 DEF TickStuck
    <2>2. resp \in RespType /\ Stored(resp, num, session, base) /\ Clear(resp)
      BY <1>0 DEF WinInv, Win
    <2>3. resp.alive \in BOOLEAN /\ c \in 0..DeadLim-1
      BY <1>1, <2>2, RespFields, Sizes
    <2> HIDE DEF c
    <2>4. R = [resp EXCEPT !.alive = resp.alive, !.dead_cnt = c]
      BY <2>2 DEF RespType
    <2> DEFINE a == resp.alive
               Q == [resp EXCEPT !.alive = a, !.dead_cnt = c]
    <2>5. Q \in RespType /\ Stored(Q, num, session, base) /\ Clear(Q)
      <3>1. a \in BOOLEAN /\ c \in 0..DeadLim-1
        BY <2>3
      <3> HIDE DEF a
      <3> QED
        BY ONLY <2>2, <3>1, FlagsKeep
    <2>6. R = Q
      BY <2>4
    <2> HIDE DEF R, Q
    <2>7. Win(resp', resp_timer_running', pcie', num', released', session', base')
      BY <1>0, <2>1, <2>5, <2>6 DEF Win, WinInv
    <2> QED
      BY <2>7 DEF WinInv
  <1>2. CASE ~(resp.dead_cnt + 1 < DeadLim)
    <2> DEFINE ids == ReleaseN(resp, ba_max_rx_wsize).rxcpl_list
               L == released \o ids
               B == base + ba_max_rx_wsize
    <2>1. /\ released' = L /\ base' = B /\ resp' = NoResp
          /\ resp_timer_running' = FALSE /\ pcie' = Cleaned(pcie)
      BY <1>2 DEF TickStuck, Cleanup
    <2>2. num \in Places /\ Len(num) <= MaxFrames /\ session \in Nat /\ pcie \in PcieType
      BY DEF WinInv, Win
    <2>3. InTurn(L, num, session, B) /\ B \in Nat /\ Cleaned(pcie) \in PcieType
      BY <1>0, <2>2, CleanupWin
    <2> HIDE DEF L, B
    <2>4. Win(resp', resp_timer_running', pcie', num', released', session', base')
      BY ONLY <1>0, <2>1, <2>2, <2>3 DEF Win
    <2> QED
      BY <2>4 DEF WinInv
  <1> QED
    BY <1>1, <1>2

(* The head of d2h_req_q and what is behind it.                            *)
LEMMA PopIs ==
  ASSUME NEW d \in PcieType, d.q # <<>>
  PROVE  LET h == Head(d.q)
             e == [d EXCEPT !.q = Tail(@)]
         IN  /\ h.id \in Frames /\ h.need \in BOOLEAN /\ h \in Waiting
             /\ e \in PcieType /\ e.q = Tail(d.q) /\ e.after = d.after /\ e.first = d.first
             /\ e.dropped = d.dropped /\ e.done = d.done /\ e.freed = d.freed
  <1> DEFINE h == Head(d.q)
             t == Tail(d.q)
             e == [d EXCEPT !.q = t]
  <1>1. h \in Waiting /\ t \in Seq(Waiting)
    BY PcieFields, HeadTailProperties
  <1>2. h.id \in Frames /\ h.need \in BOOLEAN
    BY <1>1 DEF Waiting
  <1> HIDE DEF h, t
  <1>3. /\ e \in PcieType /\ e.q = t /\ e.after = d.after /\ e.first = d.first
        /\ e.dropped = d.dropped /\ e.done = d.done /\ e.freed = d.freed
    BY <1>1 DEF PcieType
  <1> QED
    BY <1>1, <1>2, <1>3 DEF h, t

LEMMA PayloadWin ==
  ASSUME WinInv, Payload PROVE WinInv'
  <1> DEFINE h == Head(pcie.q)
             d == [pcie EXCEPT !.q = Tail(@)]
  <1>1. /\ pcie.q # <<>> /\ resp' = resp /\ resp_timer_running' = resp_timer_running
        /\ num' = num /\ released' = released /\ session' = session /\ base' = base
    BY DEF Payload
  <1>2. pcie \in PcieType
    BY DEF WinInv, Win
  <1>3. h.id \in Frames /\ h.need \in BOOLEAN /\ d \in PcieType
    BY <1>1, <1>2, PopIs
  <1>4. pcie' = Free(d, h.id, h.need) \/ pcie' = Arrived(d, h.id, h.need)
    BY DEF Payload
  <1> HIDE DEF h, d
  <1>5. pcie' \in PcieType
    BY ONLY <1>3, <1>4, FreeType, ArrivedType
  <1>6. Win(resp', resp_timer_running', pcie', num', released', session', base')
    BY <1>1, <1>5 DEF Win, WinInv
  <1> QED
    BY <1>6 DEF WinInv

LEMMA InitWin == Init => WinInv
  <1> SUFFICES ASSUME Init PROVE WinInv
    OBVIOUS
  <1> DEFINE e == <<>>
             a == [f \in Frames |-> e]
  <1>1. /\ resp = NoResp /\ resp_timer_running = FALSE /\ num = <<>> /\ released = <<>>
        /\ session = 0 /\ base = 0
        /\ pcie = [q |-> <<>>, after |-> a, first |-> {}, dropped |-> {}, done |-> {},
                   freed |-> {}]
    BY DEF Init
  <1>2. a \in [Frames -> Seq(Frames)] /\ <<>> \in Seq(Waiting)
    OBVIOUS
  <1> HIDE DEF a
  <1>3. pcie \in PcieType
    BY <1>1, <1>2 DEF PcieType
  <1>4. <<>> \in Places /\ Len(<<>>) = 0 /\ Len(num) <= MaxFrames
    BY <1>1, Sizes DEF Places
  <1>5. InTurn(released, num, session, base)
    BY <1>1 DEF InTurn
  <1> QED
    BY <1>1, <1>3, <1>4, <1>5 DEF WinInv, Win

LEMMA WinStep == WinInv /\ [Next]_vars => WinInv'
  <1> SUFFICES ASSUME WinInv, [Next]_vars PROVE WinInv'
    OBVIOUS
  <1>1. CASE UNCHANGED vars
    <2>1. /\ resp' = resp /\ resp_timer_running' = resp_timer_running /\ pcie' = pcie
          /\ num' = num /\ released' = released /\ session' = session /\ base' = base
      BY <1>1 DEF vars
    <2> QED
      BY <2>1 DEF WinInv
  <1>2. CASE Next
    BY <1>2, RecvPlainWin, RecvExpectedWin, RecvDuplicateWin, RecvInWindowWin,
       RecvBeyondWin, RecvFragmentWin, RecvBarWin, RecvAddbaWin, EndSessionWin,
       TickAliveWin, TickStuckWin, PayloadWin DEF Next, Receive
  <1> QED
    BY <1>1, <1>2

LEMMA WinType == WinInv => TypeOK
  <1> SUFFICES ASSUME WinInv PROVE TypeOK
    OBVIOUS
  <1>1. \/ resp = NoResp
        \/ /\ resp.exp_seq \in 0..SEQNUM_MAX-1
           /\ resp.ba_wsize \in Wsizes /\ resp.queued \in 0..ba_max_rx_wsize
           /\ resp.dead_cnt \in 0..DeadLim-1 /\ resp.alive \in BOOLEAN
           /\ resp.rxq \in [0..ba_max_rx_wsize-1 -> 0..MaxFrames]
           /\ resp.rxcpl_list \in Seq(Frames)
    <2>1. SUFFICES ASSUME resp # NoResp
                   PROVE  /\ resp.exp_seq \in 0..SEQNUM_MAX-1
                          /\ resp.ba_wsize \in Wsizes /\ resp.queued \in 0..ba_max_rx_wsize
                          /\ resp.dead_cnt \in 0..DeadLim-1 /\ resp.alive \in BOOLEAN
                          /\ resp.rxq \in [0..ba_max_rx_wsize-1 -> 0..MaxFrames]
                          /\ resp.rxcpl_list \in Seq(Frames)
      OBVIOUS
    <2>2. resp \in RespType /\ resp.queued = Cardinality(Ids(resp))
      BY <2>1 DEF WinInv, Win, Stored
    <2>3. resp.queued \in 0..ba_max_rx_wsize
      BY <2>2, IdsFinite, Sizes DEF W
    <2> QED
      BY <2>2, <2>3, RespFields DEF Slots, W
  <1>2. /\ pcie.q \in Seq([id : Frames, need : BOOLEAN])
        /\ pcie.after \in [Frames -> Seq(Frames)]
        /\ \A s \in {pcie.first, pcie.dropped, pcie.done, pcie.freed} : s \subseteq Frames
    <2>1. pcie \in PcieType
      BY DEF WinInv, Win
    <2> QED
      BY <2>1, PcieFields DEF Waiting
  <1>3. ToSet(released) \subseteq Frames
    BY DEF WinInv, Win, InTurn, ToSet
  <1>4. resp_timer_running \in BOOLEAN /\ Len(num) <= MaxFrames
    BY DEF WinInv, Win
  <1> QED
    BY ONLY <1>1, <1>2, <1>3, <1>4 DEF TypeOK

LEMMA HeldIs == WinInv => /\ Held = IF resp = NoResp THEN {} ELSE Ids(resp)
                          /\ resp # NoResp => resp \in RespType /\ DOMAIN resp.rxq = Slots
  <1> SUFFICES ASSUME WinInv
               PROVE  /\ Held = IF resp = NoResp THEN {} ELSE Ids(resp)
                      /\ resp # NoResp => resp \in RespType /\ DOMAIN resp.rxq = Slots
    OBVIOUS
  <1>1. resp # NoResp => resp \in RespType
    BY DEF WinInv, Win
  <1>2. resp # NoResp => DOMAIN resp.rxq = Slots
    BY <1>1, RespFields
  <1>3. Held = IF resp = NoResp THEN {} ELSE Ids(resp)
    BY <1>2 DEF Held, Ids
  <1> QED
    BY <1>1, <1>2, <1>3

LEMMA WinExact == WinInv => WindowExact
  <1> SUFFICES ASSUME WinInv, resp # NoResp
               PROVE  /\ resp.queued = Cardinality(Held) /\ resp.rxcpl_list = <<>>
                      /\ \A i \in DOMAIN resp.rxq : resp.rxq[i] # 0 =>
                           /\ num[resp.rxq[i]][1] = session
                           /\ num[resp.rxq[i]][2] - base \in 1..resp.ba_wsize-1
                           /\ RX_SEQ_TO_INDEX(resp.exp_seq + (num[resp.rxq[i]][2] - base)) = i
    BY DEF WindowExact
  <1>1. /\ resp \in RespType /\ DOMAIN resp.rxq = Slots /\ Held = Ids(resp)
    BY HeldIs
  <1>2. /\ Stored(resp, num, session, base) /\ Clear(resp) /\ base \in Nat
    BY DEF WinInv, Win
  <1>3. resp.queued = Cardinality(Held) /\ resp.rxcpl_list = <<>>
    BY <1>1, <1>2 DEF Stored, Clear
  <1>4. ASSUME NEW i \in Slots, resp.rxq[i] # 0
        PROVE  /\ num[resp.rxq[i]][1] = session
               /\ num[resp.rxq[i]][2] - base \in 1..resp.ba_wsize-1
               /\ RX_SEQ_TO_INDEX(resp.exp_seq + (num[resp.rxq[i]][2] - base)) = i
    <2>1. PICK off \in 0..resp.ba_wsize-1 :
            num[resp.rxq[i]] = <<session, base + off>> /\ i = At(resp, off)
      BY <1>2, <1>4 DEF Stored, InSlots
    <2>2. off # 0
      BY <1>2, <1>4, <2>1 DEF Clear
    <2> DEFINE f == resp.rxq[i]
               w == resp.ba_wsize
    <2>3. w \in Nat
      BY <1>1, RespFields
    <2>4. num[f][1] = session /\ num[f][2] = base + off
      BY <2>1
    <2>5. off \in 0..w-1
      OBVIOUS
    <2> HIDE DEF f, w
    <2>6. num[f][2] - base = off /\ off \in 1..w-1
      BY ONLY <1>2, <2>2, <2>3, <2>4, <2>5
    <2>7. RX_SEQ_TO_INDEX(resp.exp_seq + off) = i
      BY <2>1 DEF At
    <2> QED
      BY ONLY <2>4, <2>6, <2>7 DEF f, w
  <1> QED
    BY ONLY <1>1, <1>3, <1>4

(* The fields of the session and of the bus layer keep their ranges.       *)
THEOREM TypeCorrect == Spec => []TypeOK
  <1>1. Init => WinInv
    BY InitWin
  <1>2. WinInv /\ [Next]_vars => WinInv'
    BY WinStep
  <1>3. WinInv => TypeOK
    BY WinType
  <1> QED
    BY <1>1, <1>2, <1>3, PTL DEF Spec

(* For any granted window, what waits is in the window and in its slot,    *)
(* queued counts it and the chain is empty between the calls.              *)
THEOREM WindowSafe == Spec => []WindowExact
  <1>1. Init => WinInv
    BY InitWin
  <1>2. WinInv /\ [Next]_vars => WinInv'
    BY WinStep
  <1>3. WinInv => WindowExact
    BY WinExact
  <1> QED
    BY <1>1, <1>2, <1>3, PTL DEF Spec

(* The frames of a session are let go in order, each once, sessions one    *)
(* after the other.                                                        *)
THEOREM OrderSafe == Spec => []ReleasedInOrder
  <1>1. Init => WinInv
    BY InitWin
  <1>2. WinInv /\ [Next]_vars => WinInv'
    BY WinStep
  <1>3. WinInv => ReleasedInOrder
    BY DEF WinInv, Win, InTurn, Before, ReleasedInOrder
  <1> QED
    BY <1>1, <1>2, <1>3, PTL DEF Spec

-----------------------------------------------------------------------------
(* Where the completions are.                                              *)

Asked(d, h) == [id |-> h, need |-> TRUE] \in ToSet(d.q)
DueOf(d) == {h \in Transit(d) : h \in d.first \/ Asked(d, h)}
Hang(d) == UNION {ToSet(d.after[h]) : h \in DueOf(d)}
Once(ids) == \A i, j \in DOMAIN ids : ids[i] = ids[j] => i = j

(* Every frame of F is in one place: with the host, freed, in H, due, or   *)
(* hanging on one that is due.                                             *)
Parts(F, dn, fr, H, Du, Ha) ==
  /\ F = (((dn \union fr) \union H) \union Du) \union Ha
  /\ dn \intersect (((fr \union H) \union Du) \union Ha) = {}
  /\ fr \intersect ((H \union Du) \union Ha) = {}
  /\ H \intersect (Du \union Ha) = {}
  /\ Du \intersect Ha = {}

InOrder(q) == \A i, j \in DOMAIN q : i < j => q[i].id < q[j].id

(* Each chain is due once; a chain that is not flushed has only frames     *)
(* that came before the one it hangs on, and nothing hangs on a frame that *)
(* has not come.                                                           *)
Chains(d, F) ==
  /\ \A h \in DueOf(d) : /\ Once(d.after[h])
                         /\ h \notin d.first => \A x \in ToSet(d.after[h]) : x < h
  /\ \A g, h \in DueOf(d) : g # h => ToSet(d.after[g]) \intersect ToSet(d.after[h]) = {}
  /\ \A f \in Frames \ F : d.after[f] = <<>> /\ f \notin d.first

Acc(d, F, H) ==
  /\ d \in PcieType /\ F \subseteq Frames /\ InOrder(d.q) /\ Transit(d) \subseteq F
  /\ Chains(d, F)
  /\ Parts(F, d.done, d.freed, H, DueOf(d), Hang(d))

LEMMA BeforeOrder ==
  ASSUME NEW p \in Nat \X Nat, NEW q \in Nat \X Nat, NEW r \in Nat \X Nat
  PROVE  ~Before(p, p) /\ (Before(p, q) /\ Before(q, r) => Before(p, r))
  <1>1. /\ p[1] \in Nat /\ p[2] \in Nat /\ q[1] \in Nat /\ q[2] \in Nat
        /\ r[1] \in Nat /\ r[2] \in Nat
    OBVIOUS
  <1> QED
    BY ONLY <1>1 DEF Before

LEMMA OnceTurn ==
  ASSUME NEW N \in Places, NEW s, NEW b, NEW L \in Seq(Frames), NEW ids \in Seq(Frames),
         InTurn(L \o ids, N, s, b)
  PROVE  Once(ids)
  <1> DEFINE M == L \o ids
             n == Len(M)
             T == {k \in 0..n : \A i \in 1..k : i < k => Before(N[M[i]], N[M[k]])}
  <1>1. /\ n \in Nat /\ \A j \in 1..n : M[j] \in DOMAIN N
        /\ \A j \in 1..n-1 : Before(N[M[j]], N[M[j+1]])
    BY DEF InTurn
  <1>2. /\ n = Len(L) + Len(ids) /\ Len(L) \in Nat /\ Len(ids) \in Nat
        /\ \A k \in 1..Len(ids) : M[Len(L) + k] = ids[k] /\ Len(L) + k \in 1..n
    <2>1. /\ n = Len(L) + Len(ids) /\ Len(L) \in Nat /\ Len(ids) \in Nat
          /\ \A k \in 1..Len(L)+Len(ids) : M[k] = IF k <= Len(L) THEN L[k] ELSE ids[k - Len(L)]
      BY ConcatProperties
    <2>2. ASSUME NEW k \in 1..Len(ids) PROVE M[Len(L) + k] = ids[k] /\ Len(L) + k \in 1..n
      <3>1. /\ Len(L) + k \in 1..Len(L)+Len(ids) /\ ~(Len(L) + k <= Len(L))
            /\ (Len(L) + k) - Len(L) = k
        BY <2>1
      <3> HIDE DEF M
      <3> QED
        BY <2>1, <3>1
    <2> QED
      BY <2>1, <2>2
  <1>3. \A f \in DOMAIN N : N[f] \in Nat \X Nat
    BY DEF Places
  <1> HIDE DEF M, n
  <1>4. 0 \in T
    BY <1>1
  <1>5. ASSUME NEW k \in 0..n, k \in T, k < n PROVE k + 1 \in T
    <2>1. SUFFICES ASSUME NEW i \in 1..k+1, i < k + 1 PROVE Before(N[M[i]], N[M[k+1]])
      BY <1>1, <1>5
    <2>2. i \in 1..k /\ k \in 1..n /\ k \in 1..n-1 /\ k + 1 \in 1..n /\ i \in 1..n
      BY <1>1, <1>5, <2>1
    <2>3. Before(N[M[k]], N[M[k+1]])
      BY <1>1, <2>2
    <2>4. CASE i = k
      BY <2>3, <2>4
    <2>5. CASE i # k
      <3>1. Before(N[M[i]], N[M[k]])
        BY <1>5, <2>2, <2>5
      <3>2. N[M[i]] \in Nat \X Nat /\ N[M[k]] \in Nat \X Nat /\ N[M[k+1]] \in Nat \X Nat
        BY <1>1, <1>3, <2>2
      <3> QED
        BY ONLY <2>3, <3>1, <3>2, BeforeOrder
    <2> QED
      BY <2>4, <2>5
  <1>6. \A k \in 0..n : k \in T /\ k < n => k + 1 \in T
    BY <1>5
  <1> HIDE DEF T
  <1>7. ASSUME NEW k \in 1..n, NEW i \in 1..k, i < k PROVE M[i] # M[k]
    <2> DEFINE U == {j \in 0..k : j \in T}
    <2>1. 0 \in U
      BY <1>4
    <2>2. \A j \in 0..k : j \in U /\ j < k => j + 1 \in U
      <3>1. ASSUME NEW j \in 0..k, j \in U, j < k PROVE j + 1 \in U
        <4>1. j \in 0..n /\ j < n /\ j + 1 \in 0..k /\ j \in T
          BY <1>1, <3>1
        <4>2. j + 1 \in T
          BY ONLY <1>6, <4>1
        <4> QED
          BY ONLY <4>1, <4>2 DEF U
      <3> QED
        BY <3>1
    <2>3. k \in Nat
      BY <1>1
    <2> HIDE DEF U
    <2>4. k \in U
      BY ONLY <2>1, <2>2, <2>3, SetInduction
    <2>5. Before(N[M[i]], N[M[k]])
      BY <1>7, <2>4 DEF U, T
    <2>6. i \in 1..n
      BY <1>1
    <2>7. N[M[k]] \in Nat \X Nat /\ N[M[i]] \in Nat \X Nat
      BY <1>1, <1>3, <2>6
    <2>8. ~Before(N[M[k]], N[M[k]])
      BY ONLY <2>7, BeforeOrder
    <2> QED
      BY ONLY <2>5, <2>8
  <1>8. ASSUME NEW i \in DOMAIN ids, NEW j \in DOMAIN ids, ids[i] = ids[j] PROVE i = j
    <2>1. i \in 1..Len(ids) /\ j \in 1..Len(ids)
      OBVIOUS
    <2>2. /\ M[Len(L) + i] = ids[i] /\ Len(L) + i \in 1..n
          /\ M[Len(L) + j] = ids[j] /\ Len(L) + j \in 1..n
      BY <1>2, <2>1
    <2>3. CASE i < j
      <3>1. Len(L) + i \in 1..Len(L)+j /\ Len(L) + i < Len(L) + j
        BY <1>2, <2>1, <2>2, <2>3
      <3> QED
        BY <1>7, <1>8, <2>2, <3>1
    <2>4. CASE j < i
      <3>1. Len(L) + j \in 1..Len(L)+i /\ Len(L) + j < Len(L) + i
        BY <1>2, <2>1, <2>2, <2>4
      <3> QED
        BY <1>7, <1>8, <2>2, <3>1
    <2> QED
      BY <1>2, <2>1, <2>3, <2>4
  <1> QED
    BY <1>8 DEF Once

LEMMA PartsMove ==
  ASSUME NEW F, NEW dn, NEW fr, NEW H, NEW Du, NEW Ha, NEW T, NEW A, NEW X, NEW B, NEW C,
         Parts(F, dn, fr, H \union T, Du, Ha), T \intersect H = {},
         T = (A \union B) \union C, A \intersect B = {}, A \intersect C = {},
         B \intersect C = {}
  PROVE  Parts(F, dn \union (A \ X), fr \union (A \intersect X), H, Du \union B, Ha \union C)
  <1>1. /\ \A x : x \in F <=> \/ x \in dn \/ x \in fr \/ x \in H \/ x \in T \/ x \in Du
                              \/ x \in Ha
        /\ \A x \in dn : x \notin fr /\ x \notin H /\ x \notin T /\ x \notin Du /\ x \notin Ha
        /\ \A x \in fr : x \notin H /\ x \notin T /\ x \notin Du /\ x \notin Ha
        /\ \A x \in H : x \notin Du /\ x \notin Ha
        /\ \A x \in T : x \notin Du /\ x \notin Ha
        /\ \A x \in Du : x \notin Ha
    BY DEF Parts
  <1>2. /\ \A x \in T : x \notin H
        /\ \A x : x \in T <=> x \in A \/ x \in B \/ x \in C
        /\ \A x \in A : x \notin B /\ x \notin C
        /\ \A x \in B : x \notin C
    OBVIOUS
  <1> DEFINE dn2 == dn \union (A \ X)
             fr2 == fr \union (A \intersect X)
             Du2 == Du \union B
             Ha2 == Ha \union C
  <1>3. F = (((dn2 \union fr2) \union H) \union Du2) \union Ha2
    BY ONLY <1>1, <1>2
  <1>4. dn2 \intersect (((fr2 \union H) \union Du2) \union Ha2) = {}
    BY ONLY <1>1, <1>2
  <1>5. fr2 \intersect ((H \union Du2) \union Ha2) = {}
    BY ONLY <1>1, <1>2
  <1>6. H \intersect (Du2 \union Ha2) = {}
    BY ONLY <1>1, <1>2
  <1>7. Du2 \intersect Ha2 = {}
    BY ONLY <1>1, <1>2
  <1> HIDE DEF dn2, fr2, Du2, Ha2
  <1>8. Parts(F, dn2, fr2, H, Du2, Ha2)
    BY ONLY <1>3, <1>4, <1>5, <1>6, <1>7 DEF Parts
  <1> QED
    BY ONLY <1>8 DEF dn2, fr2, Du2, Ha2

(* A list cut at its k-th frame.                                           *)
LEMMA Cut ==
  ASSUME NEW ids \in Seq(Frames), NEW k \in DOMAIN ids, Once(ids)
  PROVE  LET A == {ids[i] : i \in {j \in DOMAIN ids : j < k}}
             rest == SubSeq(ids, k + 1, Len(ids))
             C == ToSet(rest)
         IN  /\ rest \in Seq(Frames) /\ Once(rest) /\ C \subseteq ToSet(ids)
             /\ ToSet(ids) = (A \union {ids[k]}) \union C
             /\ A \intersect {ids[k]} = {} /\ A \intersect C = {} /\ {ids[k]} \intersect C = {}
  <1> DEFINE n == Len(ids)
             A == {ids[i] : i \in {j \in DOMAIN ids : j < k}}
             rest == SubSeq(ids, k + 1, n)
             C == ToSet(rest)
  <1>1. /\ n \in Nat /\ DOMAIN ids = 1..n /\ k \in 1..n
        /\ \A i \in 1..n : ids[i] \in Frames
        /\ \A i, j \in 1..n : ids[i] = ids[j] => i = j
    BY DEF Once
  <1> HIDE DEF n
  <1>2. /\ rest \in Seq(Frames) /\ Len(rest) = IF k + 1 <= n THEN (n - (k + 1)) + 1 ELSE 0
        /\ \A i \in 1..(n - (k + 1)) + 1 : rest[i] = ids[((k + 1) + i) - 1]
    <2>1. k + 1 \in Int /\ n \in Int /\ \A i \in k+1..n : ids[i] \in Frames
      BY ONLY <1>1
    <2> QED
      BY ONLY <2>1, SubSeqProperties DEF n
  <1> HIDE DEF rest
  <1>3. DOMAIN rest = 1..n-k /\ \A i \in 1..n-k : rest[i] = ids[k + i] /\ k + i \in 1..n
    <2>1. DOMAIN rest = 1..Len(rest)
      BY <1>2
    <2>2. Len(rest) = n - k
      BY ONLY <1>1, <1>2
    <2>3. ASSUME NEW i \in 1..n-k PROVE rest[i] = ids[k + i] /\ k + i \in 1..n
      <3>1. i \in 1..(n - (k + 1)) + 1 /\ ((k + 1) + i) - 1 = k + i /\ k + i \in 1..n
        BY ONLY <1>1, i \in 1..n-k
      <3> QED
        BY ONLY <1>2, <3>1
    <2> QED
      BY ONLY <2>1, <2>2, <2>3
  <1>4. \A x : x \in C <=> \E i \in 1..n : i > k /\ x = ids[i]
    <2>1. ASSUME NEW x, x \in C PROVE \E i \in 1..n : i > k /\ x = ids[i]
      <3>1. PICK i \in 1..n-k : x = rest[i]
        BY <1>3, <2>1 DEF ToSet
      <3>2. k + i \in 1..n /\ x = ids[k + i] /\ k + i > k
        BY <1>1, <1>3, <3>1
      <3> QED
        BY ONLY <3>2
    <2>2. ASSUME NEW i \in 1..n, i > k PROVE ids[i] \in C
      <3>1. i - k \in 1..n-k /\ k + (i - k) = i
        BY ONLY <1>1, <2>2, i \in 1..n
      <3>2. rest[i - k] = ids[i]
        BY ONLY <1>3, <3>1
      <3> QED
        BY <1>3, <3>1, <3>2 DEF ToSet
    <2> QED
      BY <2>1, <2>2
  <1>5. \A x : x \in A <=> \E i \in 1..n : i < k /\ x = ids[i]
    BY <1>1
  <1>6. \A x : x \in ToSet(ids) <=> \E i \in 1..n : x = ids[i]
    BY <1>1 DEF ToSet
  <1>7. Once(rest)
    <2>1. SUFFICES ASSUME NEW i \in 1..n-k, NEW j \in 1..n-k, rest[i] = rest[j] PROVE i = j
      BY <1>3 DEF Once
    <2>2. k + i = k + j
      BY <1>1, <1>3, <2>1
    <2> QED
      BY <1>1, <2>2
  <1> HIDE DEF A, C
  <1>8. \A i \in 1..n : i < k \/ i = k \/ i > k
    BY ONLY <1>1
  <1>9. ToSet(ids) = (A \union {ids[k]}) \union C
    BY ONLY <1>1, <1>4, <1>5, <1>6, <1>8
  <1>10. A \intersect {ids[k]} = {} /\ A \intersect C = {} /\ {ids[k]} \intersect C = {}
    BY ONLY <1>1, <1>4, <1>5
  <1> QED
    BY ONLY <1>2, <1>7, <1>9, <1>10 DEF A, C, rest, n

(* The completions of ids: each is done or freed, until one belongs to a   *)
(* frame on the queue, which is then due with the rest hanging on it.      *)
LEMMA AccComplete ==
  ASSUME NEW d \in PcieType, NEW F, NEW H, NEW ids \in Seq(Frames), NEW ck \in BOOLEAN,
         Once(ids), ToSet(ids) \intersect H = {}, Acc(d, F, H \union ToSet(ids)),
         ck \/ ToSet(ids) \intersect Transit(d) = {}
  PROVE  Acc(Complete(d, ids, ck), F, H)
  <1> DEFINE e == Complete(d, ids, ck)
             S == Stops(d, ids)
             k == Min(S)
             A == Here(d, ids)
             T == ToSet(ids)
             X == d.dropped
  <1>1. /\ e \in PcieType /\ e.q = d.q
        /\ e.done = d.done \union (A \ X) /\ e.freed = d.freed \union (A \intersect X)
        /\ S = {} => e.after = d.after /\ e.first = d.first
        /\ S # {} => /\ k \in S /\ \A j \in S : k <= j
                     /\ e.after = [d.after EXCEPT ![ids[k]] = SubSeq(ids, k + 1, Len(ids))]
                     /\ e.first = IF ck THEN d.first \union {ids[k]} ELSE d.first
    <2>1. d \in PcieType /\ ids \in Seq(Frames) /\ ck \in BOOLEAN
      OBVIOUS
    <2>2. e \in PcieType /\ Completes(d, e, ids, ck)
      BY ONLY <2>1, CompleteIs DEF e
    <2> HIDE DEF e
    <2> QED
      BY ONLY <2>2 DEF Completes, S, k, A, X
  <1>2. /\ F \subseteq Frames /\ InOrder(d.q) /\ Transit(d) \subseteq F /\ Chains(d, F)
        /\ Parts(F, d.done, d.freed, H \union T, DueOf(d), Hang(d))
    BY DEF Acc
  <1>3. Transit(e) = Transit(d) /\ \A h : Asked(e, h) <=> Asked(d, h)
    BY <1>1 DEF Transit, Asked
  <1>4. /\ Len(ids) \in Nat /\ DOMAIN ids = 1..Len(ids)
        /\ \A i \in DOMAIN ids : ids[i] \in T /\ ids[i] \in Frames
    BY DEF ToSet
  <1>5. S = {i \in DOMAIN ids : ids[i] \in Transit(d)}
    BY DEF Stops
  <1>6. A = {ids[i] : i \in {m \in DOMAIN ids : \A j \in S : m < j}}
    BY DEF Here
  <1>7. T = {ids[i] : i \in DOMAIN ids}
    BY DEF ToSet
  <1> HIDE DEF e, S, k, A, T, X
  <1>8. CASE S = {}
    <2>1. A = T
      BY ONLY <1>6, <1>7, <1>8
    <2>2. e.after = d.after /\ e.first = d.first
      BY ONLY <1>1, <1>8
    <2>3. DueOf(e) = DueOf(d)
      BY <1>3, <2>2 DEF DueOf
    <2>4. Hang(e) = Hang(d)
      BY <2>2, <2>3 DEF Hang
    <2>5. Chains(e, F)
      BY <1>2, <2>2, <2>3 DEF Chains
    <2> DEFINE N == {}
    <2>6. /\ T \intersect H = {} /\ T = (A \union N) \union N /\ A \intersect N = {}
          /\ N \intersect N = {}
      BY <2>1 DEF T
    <2>7. Parts(F, e.done, e.freed, H, DueOf(d) \union N, Hang(d) \union N)
      <3> HIDE DEF N
      <3>1. Parts(F, d.done \union (A \ X), d.freed \union (A \intersect X), H, DueOf(d) \union N, Hang(d) \union N)
        BY ONLY <1>2, <2>6, PartsMove
      <3> QED
        BY ONLY <1>1, <3>1
    <2>8. Parts(F, e.done, e.freed, H, DueOf(e), Hang(e))
      BY <2>3, <2>4, <2>7
    <2> QED
      BY ONLY <1>1, <1>2, <1>3, <2>5, <2>8 DEF Acc, e
  <1>9. CASE S # {}
    <2> DEFINE g == ids[k]
               rest == SubSeq(ids, k + 1, Len(ids))
               B == {g}
               C == ToSet(rest)
               Du == DueOf(d)
    <2>1. k \in DOMAIN ids /\ g \in Transit(d) /\ \A j \in S : k <= j
      BY <1>1, <1>5, <1>9
    <2>2. ck /\ g \in T
      BY <1>4, <2>1 DEF T
    <2>3. e.after = [d.after EXCEPT ![g] = rest] /\ e.first = d.first \union {g}
      BY ONLY <1>1, <1>9, <2>2
    <2>4. A = {ids[i] : i \in {j \in DOMAIN ids : j < k}}
      <3>1. \A i \in DOMAIN ids : (\A j \in S : i < j) <=> i < k
        BY ONLY <1>1, <1>4, <1>5, <1>9, <2>1
      <3> QED
        BY ONLY <1>6, <3>1
    <2>5. /\ rest \in Seq(Frames) /\ Once(rest) /\ C \subseteq T
          /\ T = (A \union B) \union C /\ A \intersect B = {} /\ A \intersect C = {}
          /\ B \intersect C = {}
      BY ONLY <2>1, <2>4, ids \in Seq(Frames), Once(ids), Cut DEF rest, C, T, B, g
    <2>6. T \intersect H = {}
      BY DEF T
    <2> HIDE DEF g, rest, C, Du
    <2>7. /\ \A x \in T : x \notin Du /\ x \notin Hang(d) /\ x \in F
      BY <1>2 DEF Parts, Du
    <2>8. d.after \in [Frames -> Seq(Frames)] /\ g \in Frames /\ Du \subseteq Frames
      BY <1>2, <2>2, <2>7, PcieFields DEF Du, DueOf
    <2>9. /\ e.after[g] = rest /\ \A h \in Frames \ {g} : e.after[h] = d.after[h]
      BY ONLY <2>3, <2>8
    <2>10. DueOf(e) = Du \union B
      BY <1>3, <2>1, <2>3 DEF DueOf, Du
    <2>11. \A h \in Du : h # g /\ e.after[h] = d.after[h]
      BY <2>2, <2>7, <2>8, <2>9
    <2>12. Hang(e) = Hang(d) \union C
      <3>1. Hang(d) = UNION {ToSet(d.after[h]) : h \in Du}
        BY DEF Hang, Du
      <3>2. Hang(e) = UNION {ToSet(e.after[h]) : h \in Du \union B}
        BY <2>10 DEF Hang
      <3>3. \A x : x \in Hang(e) <=> \E h \in Du \union B : x \in ToSet(e.after[h])
        BY ONLY <3>2
      <3>4. \A x : x \in Hang(d) <=> \E h \in Du : x \in ToSet(d.after[h])
        BY ONLY <3>1
      <3>5. \A x : x \in Hang(e) <=> x \in Hang(d) \/ x \in C
        BY ONLY <2>9, <2>11, <3>3, <3>4 DEF C
      <3> QED
        BY ONLY <3>5
    <2>13. Parts(F, e.done, e.freed, H, DueOf(e), Hang(e))
      <3> HIDE DEF B
      <3>1. Parts(F, d.done, d.freed, H \union T, Du, Hang(d))
        BY <1>2 DEF Du
      <3>2. Parts(F, d.done \union (A \ X), d.freed \union (A \intersect X), H, Du \union B, Hang(d) \union C)
        BY ONLY <2>5, <2>6, <3>1, PartsMove
      <3> QED
        BY ONLY <1>1, <2>10, <2>12, <3>2
    <2>14. Chains(e, F)
      <3>1. /\ \A h \in Du : Once(d.after[h]) /\ (h \notin d.first => \A x \in ToSet(d.after[h]) : x < h)
            /\ \A a, h \in Du : a # h => ToSet(d.after[a]) \intersect ToSet(d.after[h]) = {}
            /\ \A f \in Frames \ F : d.after[f] = <<>> /\ f \notin d.first
        BY <1>2 DEF Chains, Du
      <3>2. \A h \in Du \union B : Once(e.after[h])
        BY ONLY <2>5, <2>9, <2>11, <3>1 DEF B
      <3>3. \A h \in Du \union B : h \notin e.first => \A x \in ToSet(e.after[h]) : x < h
        BY ONLY <2>3, <2>11, <3>1 DEF B
      <3>4. \A h \in Du : ToSet(d.after[h]) \intersect C = {}
        <4>1. \A h \in Du : ToSet(d.after[h]) \subseteq Hang(d)
          BY DEF Hang, Du
        <4> QED
          BY ONLY <2>5, <2>7, <4>1
      <3>5. \A a, h \in Du \union B : a # h => ToSet(e.after[a]) \intersect ToSet(e.after[h]) = {}
        <4>1. SUFFICES ASSUME NEW a \in Du \union B, NEW h \in Du \union B, a # h
                       PROVE  ToSet(e.after[a]) \intersect ToSet(e.after[h]) = {}
          OBVIOUS
        <4>2. CASE a \in Du /\ h \in Du
          BY ONLY <2>11, <3>1, <4>1, <4>2
        <4>3. CASE a = g /\ h \in Du
          <5>1. e.after[a] = rest /\ e.after[h] = d.after[h]
            BY ONLY <2>9, <2>11, <4>3
          <5> QED
            BY <3>4, <4>3, <5>1 DEF C
        <4>4. CASE a \in Du /\ h = g
          <5>1. e.after[h] = rest /\ e.after[a] = d.after[a]
            BY ONLY <2>9, <2>11, <4>4
          <5> QED
            BY <3>4, <4>4, <5>1 DEF C
        <4> QED
          BY ONLY <4>1, <4>2, <4>3, <4>4 DEF B
      <3>6. \A f \in Frames \ F : e.after[f] = <<>> /\ f \notin e.first
        BY ONLY <2>2, <2>3, <2>7, <2>9, <3>1
      <3> QED
        BY ONLY <2>10, <3>2, <3>3, <3>5, <3>6 DEF Chains
    <2> QED
      BY ONLY <1>1, <1>2, <1>3, <2>13, <2>14 DEF Acc, e
  <1> QED
    BY <1>8, <1>9

(* The record of dropped frames does not matter.                           *)
LEMMA AccSame ==
  ASSUME NEW d, NEW e \in PcieType, NEW F, NEW H, Acc(d, F, H),
         e.q = d.q, e.after = d.after, e.first = d.first, e.done = d.done, e.freed = d.freed
  PROVE  Acc(e, F, H)
  <1>1. Transit(e) = Transit(d) /\ \A h : Asked(e, h) <=> Asked(d, h)
    BY DEF Transit, Asked
  <1>2. DueOf(e) = DueOf(d)
    BY <1>1 DEF DueOf
  <1>3. Hang(e) = Hang(d)
    BY <1>2 DEF Hang
  <1>4. Chains(e, F)
    BY <1>2 DEF Acc, Chains
  <1>5. /\ F \subseteq Frames /\ InOrder(d.q) /\ Transit(d) \subseteq F
        /\ Parts(F, d.done, d.freed, H, DueOf(d), Hang(d))
    BY DEF Acc
  <1>6. /\ e \in PcieType /\ F \subseteq Frames /\ InOrder(e.q) /\ Transit(e) \subseteq F
        /\ Parts(F, e.done, e.freed, H, DueOf(e), Hang(e))
    BY <1>1, <1>2, <1>3, <1>5
  <1> QED
    BY ONLY <1>4, <1>6 DEF Acc

(* A new frame, whose completion waits.                                    *)
LEMMA AccNew ==
  ASSUME NEW d, NEW F, NEW H, NEW f \in Frames, f \notin F, Acc(d, F, H)
  PROVE  Acc(d, F \union {f}, H \union {f}) /\ f \notin H
  <1> DEFINE G == F \union {f}
             K == H \union {f}
             Du == DueOf(d)
             Ha == Hang(d)
             dn == d.done
             fr == d.freed
  <1>1. /\ d \in PcieType /\ F \subseteq Frames /\ InOrder(d.q) /\ Transit(d) \subseteq F
        /\ Chains(d, F) /\ Parts(F, dn, fr, H, Du, Ha)
    BY DEF Acc
  <1> HIDE DEF Du, Ha, dn, fr
  <1>2. /\ \A x : x \in F <=> x \in dn \/ x \in fr \/ x \in H \/ x \in Du \/ x \in Ha
        /\ \A x \in dn : x \notin fr /\ x \notin H /\ x \notin Du /\ x \notin Ha
        /\ \A x \in fr : x \notin H /\ x \notin Du /\ x \notin Ha
        /\ \A x \in H : x \notin Du /\ x \notin Ha
        /\ \A x \in Du : x \notin Ha
    BY <1>1 DEF Parts
  <1>3. /\ G = (((dn \union fr) \union K) \union Du) \union Ha
        /\ dn \intersect (((fr \union K) \union Du) \union Ha) = {}
        /\ fr \intersect ((K \union Du) \union Ha) = {}
        /\ K \intersect (Du \union Ha) = {}
        /\ Du \intersect Ha = {}
    BY <1>2
  <1>4. Parts(G, dn, fr, K, Du, Ha)
    BY ONLY <1>3 DEF Parts
  <1>5. Chains(d, G)
    BY <1>1 DEF Chains
  <1>6. G \subseteq Frames /\ Transit(d) \subseteq G
    BY <1>1
  <1>7. f \notin H
    BY <1>2
  <1> HIDE DEF G, K
  <1>8. Acc(d, G, K)
    BY ONLY <1>1, <1>4, <1>5, <1>6 DEF Acc, Du, Ha, dn, fr
  <1> QED
    BY ONLY <1>7, <1>8 DEF G, K

(* A frame at the end of d2h_req_q.                                        *)
LEMMA Queued ==
  ASSUME NEW d \in PcieType, NEW e \in PcieType, NEW f \in Frames, NEW need \in BOOLEAN,
         e.q = Append(d.q, [id |-> f, need |-> need]), InOrder(d.q),
         \A x \in Transit(d) : x < f
  PROVE  /\ InOrder(e.q) /\ Transit(e) = Transit(d) \union {f} /\ f \notin Transit(d)
         /\ \A h : Asked(e, h) <=> Asked(d, h) \/ (h = f /\ need)
         /\ ~Asked(d, f)
  <1> DEFINE w == [id |-> f, need |-> need]
             t == d.q
             u == Append(t, w)
             n == Len(t)
  <1>1. t \in Seq(Waiting) /\ e.q = u /\ w \in Waiting /\ w.id = f /\ (w = [id |-> f, need |-> TRUE] <=> need)
    BY PcieFields DEF Waiting
  <1>2. \A h : w = [id |-> h, need |-> TRUE] <=> h = f /\ need
    OBVIOUS
  <1> HIDE DEF w, t
  <1>3. /\ n \in Nat /\ DOMAIN t = 1..n /\ DOMAIN u = 1..n+1 /\ u[n+1] = w
        /\ \A k \in 1..n : u[k] = t[k] /\ t[k] \in Waiting
    BY <1>1
  <1>4. ToSet(u) = ToSet(t) \union {w}
    BY ONLY <1>1, ToSetAppend
  <1>5. \A d1 : Transit(d1) = {y.id : y \in ToSet(d1.q)}
    BY DEF Transit, ToSet
  <1>6. Transit(d) = {y.id : y \in ToSet(t)}
    BY <1>5 DEF t
  <1> HIDE DEF u, n
  <1>7. Transit(e) = {y.id : y \in ToSet(u)}
    BY ONLY <1>1, <1>5
  <1>8. Transit(e) = Transit(d) \union {f}
    BY ONLY <1>1, <1>4, <1>6, <1>7
  <1>9. \A k \in 1..n : t[k].id \in Transit(d) /\ t[k].id < f
    <2>1. \A k \in 1..n : t[k] \in ToSet(t)
      BY ONLY <1>3 DEF ToSet
    <2> QED
      BY <1>6, <2>1
  <1>10. InOrder(e.q)
    <2>1. ASSUME NEW i \in 1..n+1, NEW j \in 1..n+1, i < j PROVE u[i].id < u[j].id
      <3>1. i \in 1..n
        BY ONLY <1>3, <2>1, i \in 1..n+1, j \in 1..n+1
      <3>2. CASE j = n + 1
        BY ONLY <1>1, <1>3, <1>9, <3>1, <3>2
      <3>3. CASE j # n + 1
        <4>1. j \in 1..n
          BY ONLY <1>3, <3>3, j \in 1..n+1
        <4>2. \A a, c \in 1..n : a < c => t[a].id < t[c].id
          BY ONLY <1>3, InOrder(d.q) DEF InOrder, t
        <4> QED
          BY ONLY <1>3, <2>1, <3>1, <4>1, <4>2
      <3> QED
        BY <3>2, <3>3
    <2> QED
      BY ONLY <1>1, <1>3, <2>1 DEF InOrder
  <1>11. f \notin Transit(d)
    BY Sizes DEF Frames
  <1>12. \A h : Asked(e, h) <=> Asked(d, h) \/ (h = f /\ need)
    <2>1. \A h : Asked(e, h) <=> [id |-> h, need |-> TRUE] \in ToSet(u)
      BY ONLY <1>1 DEF Asked
    <2>2. \A h : Asked(d, h) <=> [id |-> h, need |-> TRUE] \in ToSet(t)
      BY ONLY DEF Asked, t
    <2> QED
      BY ONLY <1>2, <1>4, <2>1, <2>2
  <1>13. ~Asked(d, f)
    <2>1. SUFFICES ASSUME Asked(d, f) PROVE f \in Transit(d)
      BY <1>11
    <2>2. [id |-> f, need |-> TRUE] \in ToSet(t) /\ [id |-> f, need |-> TRUE].id = f
      BY <2>1 DEF Asked, t
    <2> QED
      BY ONLY <1>6, <2>2
  <1> QED
    BY ONLY <1>8, <1>10, <1>11, <1>12, <1>13

(* A new frame goes up with its completion withheld.                       *)
LEMMA AccHold ==
  ASSUME NEW d \in PcieType, NEW F, NEW H, NEW f \in Frames, f \notin F,
         \A x \in F : x < f, Acc(d, F, H)
  PROVE  Acc(SendUp(d, f, FALSE, FALSE), F \union {f}, H \union {f})
  <1> DEFINE e == SendUp(d, f, FALSE, FALSE)
             G == F \union {f}
             K == H \union {f}
  <1>1. /\ e \in PcieType /\ e.q = Append(d.q, [id |-> f, need |-> FALSE])
        /\ e.after = d.after /\ e.first = d.first /\ e.done = d.done /\ e.freed = d.freed
    <2>1. d \in PcieType /\ f \in Frames /\ FALSE \in BOOLEAN
      OBVIOUS
    <2> QED
      BY ONLY <2>1, SendUpIs DEF e
  <1> HIDE DEF e
  <1>2. /\ F \subseteq Frames /\ InOrder(d.q) /\ Transit(d) \subseteq F /\ Chains(d, F)
        /\ f \notin d.first
    BY DEF Acc, Chains
  <1>3. Acc(d, G, K)
    BY AccNew
  <1>4. /\ InOrder(e.q) /\ Transit(e) = Transit(d) \union {f} /\ f \notin Transit(d)
        /\ \A h : Asked(e, h) <=> Asked(d, h)
        /\ ~Asked(d, f)
    <2>1. /\ d \in PcieType /\ e \in PcieType /\ f \in Frames /\ FALSE \in BOOLEAN
          /\ e.q = Append(d.q, [id |-> f, need |-> FALSE]) /\ InOrder(d.q)
          /\ \A x \in Transit(d) : x < f
      BY <1>1, <1>2
    <2>2. /\ InOrder(e.q) /\ Transit(e) = Transit(d) \union {f} /\ f \notin Transit(d)
          /\ \A h : Asked(e, h) <=> Asked(d, h) \/ (h = f /\ FALSE)
          /\ ~Asked(d, f)
      BY ONLY <2>1, Queued
    <2> QED
      BY <2>2
  <1>5. DueOf(e) = DueOf(d)
    BY <1>1, <1>2, <1>4 DEF DueOf
  <1>6. Hang(e) = Hang(d)
    BY <1>1, <1>5 DEF Hang
  <1>7. /\ G \subseteq Frames /\ Transit(d) \subseteq G /\ Chains(d, G)
        /\ Parts(G, d.done, d.freed, K, DueOf(d), Hang(d))
    BY <1>3 DEF Acc
  <1>8. Chains(e, G)
    BY <1>1, <1>5, <1>7 DEF Chains
  <1>9. Transit(e) \subseteq G /\ Parts(G, e.done, e.freed, K, DueOf(e), Hang(e))
    BY <1>1, <1>4, <1>5, <1>6, <1>7
  <1> HIDE DEF G, K
  <1>10. Acc(e, G, K)
    BY ONLY <1>1, <1>4, <1>7, <1>8, <1>9 DEF Acc
  <1> QED
    BY ONLY <1>10 DEF G, K, e

(* A new frame goes up to be completed, and with it those of ids, which    *)
(* waited until now.                                                       *)
LEMMA AccAsk ==
  ASSUME NEW d \in PcieType, NEW F, NEW H, NEW f \in Frames, f \notin F,
         \A x \in F : x < f, NEW ids \in Seq(Frames), Once(ids),
         ToSet(ids) \intersect H = {}, Acc(d, F, H \union ToSet(ids)),
         NEW c \in PcieType, c.q = d.q, c.after[f] = ids,
         \A h \in Frames \ {f} : c.after[h] = d.after[h],
         c.first = d.first, c.done = d.done, c.freed = d.freed
  PROVE  Acc(SendUp(c, f, TRUE, FALSE), F \union {f}, H)
  <1> DEFINE e == SendUp(c, f, TRUE, FALSE)
             G == F \union {f}
             T == ToSet(ids)
             Du == DueOf(d)
             Ha == Hang(d)
             B == {f}
             dn == d.done
             fr == d.freed
  <1>1. /\ e \in PcieType /\ e.q = Append(d.q, [id |-> f, need |-> TRUE])
        /\ e.after = c.after /\ e.first = d.first /\ e.done = d.done /\ e.freed = d.freed
    <2>1. c \in PcieType /\ f \in Frames /\ TRUE \in BOOLEAN
      OBVIOUS
    <2> HIDE DEF e
    <2>2. /\ e \in PcieType /\ e.q = Append(c.q, [id |-> f, need |-> TRUE])
          /\ e.after = c.after /\ e.first = c.first /\ e.done = c.done /\ e.freed = c.freed
      BY ONLY <2>1, SendUpIs DEF e
    <2> QED
      BY <2>2
  <1> HIDE DEF e
  <1>2. /\ F \subseteq Frames /\ InOrder(d.q) /\ Transit(d) \subseteq F /\ Chains(d, F)
        /\ f \notin d.first /\ Parts(F, dn, fr, H \union T, Du, Ha)
    BY DEF Acc, Chains
  <1>3. /\ InOrder(e.q) /\ Transit(e) = Transit(d) \union {f} /\ f \notin Transit(d)
        /\ \A h : Asked(e, h) <=> Asked(d, h) \/ h = f
    <2>1. /\ d \in PcieType /\ e \in PcieType /\ f \in Frames /\ TRUE \in BOOLEAN
          /\ e.q = Append(d.q, [id |-> f, need |-> TRUE]) /\ InOrder(d.q)
          /\ \A x \in Transit(d) : x < f
      BY <1>1, <1>2
    <2>2. /\ InOrder(e.q) /\ Transit(e) = Transit(d) \union {f} /\ f \notin Transit(d)
          /\ \A h : Asked(e, h) <=> Asked(d, h) \/ (h = f /\ TRUE)
      BY ONLY <2>1, Queued
    <2> QED
      BY <2>2
  <1>4. DueOf(e) = Du \union {f}
    BY <1>1, <1>2, <1>3 DEF DueOf
  <1>5. d.after \in [Frames -> Seq(Frames)] /\ Du \subseteq Frames /\ f \notin Du
    BY <1>2, <1>3, PcieFields DEF DueOf
  <1>6. e.after[f] = ids /\ \A h \in Frames \ {f} : e.after[h] = d.after[h]
    BY <1>1, <1>5
  <1>7. \A h \in Du : h # f /\ e.after[h] = d.after[h]
    BY <1>5, <1>6
  <1>8. Hang(e) = Ha \union T
    <2>1. Hang(d) = UNION {ToSet(d.after[h]) : h \in Du}
      BY DEF Hang
    <2>2. Hang(e) = UNION {ToSet(e.after[h]) : h \in Du \union {f}}
      BY <1>4 DEF Hang
    <2> HIDE DEF Du, T
    <2>3. \A x : x \in Hang(e) <=> \E h \in Du \union {f} : x \in ToSet(e.after[h])
      BY ONLY <2>2
    <2>4. \A x : x \in Hang(d) <=> \E h \in Du : x \in ToSet(d.after[h])
      BY ONLY <2>1
    <2>5. \A x : x \in Hang(e) <=> x \in Hang(d) \/ x \in T
      BY ONLY <1>6, <1>7, <2>3, <2>4 DEF T
    <2> QED
      BY ONLY <2>5
  <1> HIDE DEF Du, Ha, dn, fr, T
  <1>9. /\ \A x : x \in F <=> \/ x \in dn \/ x \in fr \/ x \in H \/ x \in T \/ x \in Du \/ x \in Ha
        /\ \A x \in dn : x \notin fr /\ x \notin H /\ x \notin T /\ x \notin Du /\ x \notin Ha
        /\ \A x \in fr : x \notin H /\ x \notin T /\ x \notin Du /\ x \notin Ha
        /\ \A x \in H : x \notin Du /\ x \notin Ha
        /\ \A x \in T : x \notin Du /\ x \notin Ha
        /\ \A x \in Du : x \notin Ha
    BY <1>2 DEF Parts
  <1>10. \A x \in T : x \notin H
    BY DEF T
  <1> DEFINE Du2 == Du \union {f}
             Ha2 == Ha \union T
  <1>11. /\ G = (((dn \union fr) \union H) \union Du2) \union Ha2
         /\ dn \intersect (((fr \union H) \union Du2) \union Ha2) = {}
         /\ fr \intersect ((H \union Du2) \union Ha2) = {}
         /\ H \intersect (Du2 \union Ha2) = {}
         /\ Du2 \intersect Ha2 = {}
    <2>1. f \notin F
      OBVIOUS
    <2> QED
      BY ONLY <1>9, <1>10, <2>1
  <1>12. Parts(G, e.done, e.freed, H, DueOf(e), Hang(e))
    <2>1. e.done = dn /\ e.freed = fr /\ DueOf(e) = Du2 /\ Hang(e) = Ha2
      BY <1>1, <1>4, <1>8 DEF dn, fr
    <2> HIDE DEF G, Du2, Ha2
    <2> QED
      BY ONLY <1>11, <2>1 DEF Parts
  <1>13. Chains(e, G)
    <2>1. /\ \A h \in Du : Once(d.after[h]) /\ (h \notin d.first => \A x \in ToSet(d.after[h]) : x < h)
          /\ \A a, h \in Du : a # h => ToSet(d.after[a]) \intersect ToSet(d.after[h]) = {}
          /\ \A x \in Frames \ F : d.after[x] = <<>> /\ x \notin d.first
      BY <1>2 DEF Chains, Du
    <2>2. \A h \in Du2 : Once(e.after[h])
      BY <1>6, <1>7, <2>1
    <2>3. \A x \in T : x < f
      BY <1>9
    <2>4. \A h \in Du2 : h \notin e.first => \A x \in ToSet(e.after[h]) : x < h
      BY ONLY <1>1, <1>6, <1>7, <2>1, <2>3 DEF T
    <2>5. \A h \in Du : ToSet(d.after[h]) \intersect T = {}
      <3>1. \A h \in Du : ToSet(d.after[h]) \subseteq Ha
        BY DEF Hang, Du, Ha
      <3> QED
        BY ONLY <1>9, <3>1
    <2>6. \A a, h \in Du2 : a # h => ToSet(e.after[a]) \intersect ToSet(e.after[h]) = {}
      <3>1. SUFFICES ASSUME NEW a \in Du2, NEW h \in Du2, a # h
                     PROVE  ToSet(e.after[a]) \intersect ToSet(e.after[h]) = {}
        OBVIOUS
      <3>2. CASE a \in Du /\ h \in Du
        BY ONLY <1>7, <2>1, <3>1, <3>2
      <3>3. CASE a = f /\ h \in Du
        <4>1. e.after[a] = ids /\ e.after[h] = d.after[h]
          BY ONLY <1>6, <1>7, <3>3
        <4> QED
          BY <2>5, <3>3, <4>1 DEF T
      <3>4. CASE a \in Du /\ h = f
        <4>1. e.after[h] = ids /\ e.after[a] = d.after[a]
          BY ONLY <1>6, <1>7, <3>4
        <4> QED
          BY <2>5, <3>4, <4>1 DEF T
      <3> QED
        BY ONLY <3>1, <3>2, <3>3, <3>4
    <2>7. \A x \in Frames \ G : e.after[x] = <<>> /\ x \notin e.first
      BY <1>1, <1>6, <2>1
    <2> HIDE DEF G, Du2
    <2>8. DueOf(e) = Du2
      BY <1>4 DEF Du2
    <2> QED
      BY ONLY <2>2, <2>4, <2>6, <2>7, <2>8 DEF Chains
  <1>14. G \subseteq Frames /\ Transit(e) \subseteq G
    BY <1>2, <1>3
  <1> HIDE DEF G
  <1>15. Acc(e, G, H)
    BY ONLY <1>1, <1>3, <1>12, <1>13, <1>14 DEF Acc
  <1> QED
    BY ONLY <1>15 DEF G, e

LEMMA OnceFirst ==
  ASSUME NEW f \in Frames, NEW t \in Seq(Frames), Once(t), f \notin ToSet(t)
  PROVE  /\ <<f>> \o t \in Seq(Frames) /\ Once(<<f>> \o t)
         /\ ToSet(<<f>> \o t) = {f} \union ToSet(t)
  <1> DEFINE o == <<f>>
             u == o \o t
             n == Len(t)
  <1>1. o \in Seq(Frames) /\ Len(o) = 1 /\ o[1] = f /\ DOMAIN o = 1..1
    OBVIOUS
  <1>2. ToSet(o) = {f}
    BY <1>1 DEF ToSet
  <1>3. n \in Nat /\ DOMAIN t = 1..n /\ \A i \in 1..n : t[i] \in ToSet(t)
    BY DEF ToSet
  <1> HIDE DEF o
  <1>4. /\ u \in Seq(Frames) /\ Len(u) = 1 + n
        /\ \A i \in 1..1+n : u[i] = IF i <= 1 THEN o[i] ELSE t[i - 1]
    BY <1>1, ConcatProperties
  <1>5. ToSet(u) = {f} \union ToSet(t)
    BY <1>1, <1>2, ToSetConcat
  <1>6. DOMAIN u = 1..1+n
    BY <1>4
  <1> HIDE DEF u, n
  <1>7. \A i \in 1..1+n : \/ i = 1 /\ u[i] = f
                          \/ i # 1 /\ i - 1 \in 1..n /\ u[i] = t[i - 1]
    BY ONLY <1>1, <1>3, <1>4
  <1>8. ASSUME NEW i \in 1..1+n, NEW j \in 1..1+n, u[i] = u[j] PROVE i = j
    <2>1. f \notin ToSet(t) /\ \A a, c \in 1..n : t[a] = t[c] => a = c
      BY <1>3 DEF Once
    <2>2. CASE i = 1 /\ j = 1
      BY <2>2
    <2>3. CASE i = 1 /\ j # 1
      BY <1>3, <1>7, <1>8, <2>1, <2>3
    <2>4. CASE i # 1 /\ j = 1
      BY <1>3, <1>7, <1>8, <2>1, <2>4
    <2>5. CASE i # 1 /\ j # 1
      <3>1. i - 1 \in 1..n /\ j - 1 \in 1..n /\ t[i - 1] = t[j - 1]
        BY <1>7, <1>8, <2>5
      <3>2. i - 1 = j - 1
        BY ONLY <2>1, <3>1
      <3> QED
        BY <1>3, <3>2
    <2> QED
      BY <2>2, <2>3, <2>4, <2>5
  <1> QED
    BY ONLY <1>4, <1>5, <1>6, <1>8 DEF Once, u, o

(* A new frame is freed on its way up.                                     *)
LEMMA AccFree ==
  ASSUME NEW d \in PcieType, NEW F, NEW H, NEW f \in Frames, f \notin F,
         Acc(d, F, H)
  PROVE  /\ Acc(Free(d, f, TRUE), F \union {f}, H)
         /\ Acc(Free(d, f, FALSE), F \union {f}, H \union {f})
  <1> DEFINE c == [d EXCEPT !.dropped = @ \union {f}]
             G == F \union {f}
             K == H \union {f}
  <1>1. /\ c \in PcieType /\ c.q = d.q /\ c.after = d.after /\ c.first = d.first
        /\ c.done = d.done /\ c.freed = d.freed
    <2>1. d \in PcieType /\ f \in Frames
      OBVIOUS
    <2> QED
      BY ONLY <2>1, DropType DEF c
  <1>2. Free(d, f, TRUE) = Arrived(c, f, TRUE) /\ Free(d, f, FALSE) = Arrived(c, f, FALSE)
    BY DEF Free
  <1> HIDE DEF c
  <1>3. Acc(c, F, H)
    BY <1>1, AccSame
  <1>4. Acc(c, G, K) /\ f \notin H
    BY <1>3, AccNew
  <1>5. f \notin c.first /\ c.after[f] = <<>> /\ f \notin Transit(c)
    BY <1>3 DEF Acc, Chains
  <1>6. Arrived(c, f, FALSE) = c
    BY <1>5 DEF Arrived
  <1> DEFINE o == <<f>>
  <1>7. o \in Seq(Frames) /\ o \o <<>> = o /\ Once(o) /\ ToSet(o) = {f}
    BY DEF Once, ToSet
  <1>8. Arrived(c, f, TRUE) = Complete(c, o, FALSE)
    <2>1. (f \in c.first) = FALSE
      BY <1>5
    <2> QED
      BY <1>5, <1>7, <2>1 DEF Arrived
  <1> HIDE DEF o, G
  <1>9. Acc(Complete(c, o, FALSE), G, H)
    <2>1. /\ c \in PcieType /\ o \in Seq(Frames) /\ FALSE \in BOOLEAN /\ Once(o)
          /\ ToSet(o) \intersect H = {} /\ Acc(c, G, H \union ToSet(o))
          /\ FALSE \/ ToSet(o) \intersect Transit(c) = {}
      BY <1>1, <1>4, <1>5, <1>7
    <2> QED
      BY ONLY <2>1, AccComplete
  <1> QED
    BY <1>2, <1>4, <1>6, <1>8, <1>9 DEF G

(* The head of d2h_req_q leaves it.                                        *)
LEMMA Popped ==
  ASSUME NEW d \in PcieType, NEW e \in PcieType, d.q # <<>>, e.q = Tail(d.q), InOrder(d.q)
  PROVE  LET f == Head(d.q).id
             need == Head(d.q).need
         IN  /\ InOrder(e.q) /\ Transit(d) = Transit(e) \union {f}
             /\ \A x \in Transit(e) : f < x
             /\ \A h : Asked(d, h) <=> Asked(e, h) \/ (h = f /\ need)
             /\ \A h : Asked(e, h) => h \in Transit(e)
  <1> DEFINE t == d.q
             w == Head(t)
             u == Tail(t)
             n == Len(t)
             f == w.id
  <1>1. t \in Seq(Waiting) /\ t # <<>> /\ e.q = u
    BY PcieFields
  <1> HIDE DEF t
  <1>2. /\ n \in Nat /\ n >= 1 /\ DOMAIN t = 1..n /\ w = t[1] /\ \A k \in 1..n : t[k] \in Waiting
        /\ DOMAIN u = 1..n-1 /\ \A k \in 1..n-1 : u[k] = t[k+1]
    BY <1>1, HeadTailProperties
  <1>3. w \in Waiting /\ \A h : w = [id |-> h, need |-> TRUE] <=> h = f /\ w.need
    BY <1>2 DEF Waiting
  <1>4. \A i, j \in 1..n : i < j => t[i].id < t[j].id
    BY ONLY <1>2, InOrder(d.q) DEF InOrder, t
  <1> HIDE DEF w, u, n
  <1>5. ToSet(t) = ToSet(u) \union {w}
    <2>1. \A k \in 1..n : k = 1 \/ (k - 1 \in 1..n-1 /\ t[k] = u[k - 1])
      <3>1. ASSUME NEW k \in 1..n, k # 1 PROVE k - 1 \in 1..n-1 /\ t[k] = u[k - 1]
        <4>1. k - 1 \in 1..n-1 /\ (k - 1) + 1 = k
          BY ONLY <1>2, <3>1, k \in 1..n
        <4> QED
          BY ONLY <1>2, <4>1
      <3> QED
        BY <3>1
    <2>2. \A k \in 1..n-1 : k + 1 \in 1..n /\ u[k] = t[k+1]
      BY ONLY <1>2
    <2>3. {t[k] : k \in 1..n} = {u[k] : k \in 1..n-1} \union {w}
      <3>1. 1 \in 1..n
        BY ONLY <1>2
      <3> QED
        BY ONLY <1>2, <2>1, <2>2, <3>1
    <2> QED
      BY ONLY <1>2, <2>3 DEF ToSet
  <1>6. Transit(d) = {y.id : y \in ToSet(t)} /\ Transit(e) = {y.id : y \in ToSet(u)}
    BY <1>1 DEF Transit, ToSet, t
  <1>7. Transit(d) = Transit(e) \union {f}
    BY ONLY <1>5, <1>6
  <1>8. \A k \in 1..n-1 : k + 1 \in 1..n /\ f < u[k].id
    BY ONLY <1>2, <1>4
  <1>9. \A x \in Transit(e) : f < x
    BY <1>1, <1>2, <1>8 DEF Transit
  <1>10. InOrder(e.q)
    <2>1. ASSUME NEW i \in 1..n-1, NEW j \in 1..n-1, i < j PROVE u[i].id < u[j].id
      <3>1. i + 1 \in 1..n /\ j + 1 \in 1..n /\ i + 1 < j + 1
        BY <1>2, <2>1
      <3> QED
        BY ONLY <1>2, <1>4, <3>1
    <2> QED
      BY ONLY <1>1, <1>2, <2>1 DEF InOrder
  <1>11. \A h : Asked(e, h) <=> [id |-> h, need |-> TRUE] \in ToSet(u)
    BY ONLY <1>1 DEF Asked
  <1>12. \A h : Asked(d, h) <=> [id |-> h, need |-> TRUE] \in ToSet(t)
    BY ONLY DEF Asked, t
  <1>13. \A h : Asked(d, h) <=> Asked(e, h) \/ (h = f /\ w.need)
    BY ONLY <1>3, <1>5, <1>11, <1>12
  <1>14. \A h : Asked(e, h) => h \in Transit(e)
    <2>1. \A h : [id |-> h, need |-> TRUE].id = h
      OBVIOUS
    <2> QED
      BY ONLY <1>6, <1>11, <2>1
  <1> QED
    BY ONLY <1>7, <1>9, <1>10, <1>13, <1>14 DEF f, w, t

(* The frame at the head gets its host buffer or is freed: what was due    *)
(* with it is walked.                                                      *)
LEMMA AccArrived ==
  ASSUME NEW d \in PcieType, d.q # <<>>, NEW F, NEW H, Acc(d, F, H),
         NEW c \in PcieType, c.q = Tail(d.q), c.after = d.after, c.first = d.first,
         c.done = d.done, c.freed = d.freed
  PROVE  Acc(Arrived(c, Head(d.q).id, Head(d.q).need), F, H)
  <1> DEFINE w == Head(d.q)
             f == w.id
             need == w.need
             Du == DueOf(d)
             t == d.after[f]
             T == ToSet(t)
             ids == <<f>> \o t
  <1>1. /\ F \subseteq Frames /\ InOrder(d.q) /\ Transit(d) \subseteq F
        /\ Chains(d, F) /\ Parts(F, d.done, d.freed, H, Du, Hang(d))
    BY DEF Acc
  <1>2. /\ InOrder(c.q) /\ Transit(d) = Transit(c) \union {f} /\ \A x \in Transit(c) : f < x
        /\ \A h : Asked(d, h) <=> Asked(c, h) \/ (h = f /\ need)
        /\ \A h : Asked(c, h) => h \in Transit(c)
    <2>1. d \in PcieType /\ c \in PcieType /\ d.q # <<>> /\ c.q = Tail(d.q) /\ InOrder(d.q)
      BY <1>1
    <2> QED
      BY ONLY <2>1, Popped DEF f, need, w
  <1>3. f \in Frames /\ need \in BOOLEAN
    BY PopIs
  <1>4. f \notin Transit(c) /\ Transit(c) \subseteq F /\ ~Asked(c, f)
    BY <1>1, <1>2, <1>3, Sizes DEF Frames
  <1> HIDE DEF w, f, need
  <1>5. CASE ~(need \/ f \in d.first)
    <2>1. Arrived(c, f, need) = c
      BY <1>5 DEF Arrived
    <2>2. DueOf(c) = Du
      BY <1>2, <1>4, <1>5 DEF DueOf
    <2>3. Hang(c) = Hang(d)
      BY <2>2 DEF Hang
    <2>4. Chains(c, F)
      BY <1>1, <2>2 DEF Chains
    <2>5. Parts(F, c.done, c.freed, H, DueOf(c), Hang(c)) /\ c \in PcieType
      BY <1>1, <2>2, <2>3
    <2>6. Acc(c, F, H)
      BY ONLY <1>1, <1>2, <1>4, <2>4, <2>5 DEF Acc
    <2> QED
      BY ONLY <2>1, <2>6 DEF f, need, w
  <1>6. CASE need \/ f \in d.first
    <2> DEFINE Dc == DueOf(c)
               Hc == Hang(c)
               K == H \union ToSet(ids)
    <2>1. Du = Dc \union {f} /\ f \notin Dc
      BY <1>2, <1>4, <1>6 DEF DueOf
    <2>2. /\ d.after \in [Frames -> Seq(Frames)] /\ t \in Seq(Frames)
          /\ f \in Du /\ T \subseteq Hang(d)
      BY <1>3, <2>1, PcieFields DEF Hang
    <2>3. /\ \A h \in Du : Once(d.after[h]) /\ (h \notin d.first => \A x \in ToSet(d.after[h]) : x < h)
          /\ \A a, h \in Du : a # h => ToSet(d.after[a]) \intersect ToSet(d.after[h]) = {}
          /\ \A x \in Frames \ F : d.after[x] = <<>> /\ x \notin d.first
      BY <1>1 DEF Chains
    <2>4. Hang(d) = Hc \union T /\ Hc \intersect T = {}
      <3>1. \A x : x \in Hang(d) <=> \E h \in Du : x \in ToSet(d.after[h])
        BY DEF Hang
      <3>2. \A x : x \in Hc <=> \E h \in Dc : x \in ToSet(d.after[h])
        BY DEF Hang
      <3> HIDE DEF Du, Dc, Hc, T
      <3>3. \A x : x \in Hang(d) <=> x \in Hc \/ x \in T
        BY ONLY <2>1, <3>1, <3>2 DEF T, t
      <3>4. \A x \in Hc : x \notin T
        <4>1. \A h \in Dc : ToSet(d.after[h]) \intersect T = {}
          BY ONLY <2>1, <2>2, <2>3 DEF T, t
        <4> QED
          BY ONLY <3>2, <4>1
      <3> QED
        BY ONLY <3>3, <3>4
    <2>5. f \notin T /\ Once(t)
      BY <1>1, <2>2, <2>3 DEF Parts
    <2>6. ids \in Seq(Frames) /\ Once(ids) /\ ToSet(ids) = {f} \union T
      <3>1. f \in Frames /\ t \in Seq(Frames) /\ Once(t) /\ f \notin ToSet(t)
        BY <1>3, <2>2, <2>5
      <3> HIDE DEF t
      <3> QED
        BY ONLY <3>1, OnceFirst DEF ids, T
    <2> HIDE DEF Du, Dc, Hc, T, ids, t
    <2> DEFINE dn == d.done
               fr == d.freed
               Ha == Hang(d)
    <2>7. Parts(F, dn, fr, K, Dc, Hc) /\ ToSet(ids) \intersect H = {}
      <3> HIDE DEF dn, fr, Ha
      <3>1. Parts(F, dn, fr, H, Du, Ha)
        BY <1>1 DEF dn, fr, Ha
      <3>2. /\ \A x : x \in F <=> x \in dn \/ x \in fr \/ x \in H \/ x \in Du \/ x \in Ha
            /\ \A x \in dn : x \notin fr /\ x \notin H /\ x \notin Du /\ x \notin Ha
            /\ \A x \in fr : x \notin H /\ x \notin Du /\ x \notin Ha
            /\ \A x \in H : x \notin Du /\ x \notin Ha
            /\ \A x \in Du : x \notin Ha
        BY ONLY <3>1 DEF Parts
      <3>3. /\ \A x : x \in Du <=> x \in Dc \/ x = f
            /\ \A x : x \in Ha <=> x \in Hc \/ x \in T
            /\ f \notin Dc /\ \A x \in Hc : x \notin T
            /\ \A x : x \in ToSet(ids) <=> x = f \/ x \in T
        BY ONLY <2>1, <2>4, <2>6 DEF Ha
      <3>4. /\ \A x : x \in K <=> x \in H \/ x = f \/ x \in T
        BY ONLY <3>3
      <3> HIDE DEF K
      <3>5. F = (((dn \union fr) \union K) \union Dc) \union Hc
        BY ONLY <3>2, <3>3, <3>4
      <3>6. dn \intersect (((fr \union K) \union Dc) \union Hc) = {}
        BY ONLY <3>2, <3>3, <3>4
      <3>7. fr \intersect ((K \union Dc) \union Hc) = {}
        BY ONLY <3>2, <3>3, <3>4
      <3>8. K \intersect (Dc \union Hc) = {}
        BY ONLY <3>2, <3>3, <3>4
      <3>9. Dc \intersect Hc = {}
        BY ONLY <3>2, <3>3
      <3>10. ToSet(ids) \intersect H = {}
        BY ONLY <3>2, <3>3
      <3> QED
        BY ONLY <3>5, <3>6, <3>7, <3>8, <3>9, <3>10 DEF Parts
    <2>8. Chains(c, F)
      <3>1. DueOf(c) = Dc /\ Dc \subseteq Du
        BY <2>1 DEF Dc
      <3> QED
        BY <2>3, <3>1 DEF Chains
    <2>9. Acc(c, F, K)
      <3>1. c \in PcieType /\ Parts(F, c.done, c.freed, K, DueOf(c), Hang(c))
        BY <2>7 DEF Dc, Hc
      <3> HIDE DEF K
      <3> QED
        BY ONLY <1>1, <1>2, <1>4, <2>8, <3>1 DEF Acc
    <2> DEFINE ck == f \in d.first
    <2>10. ck \/ ToSet(ids) \intersect Transit(c) = {}
      <3>1. SUFFICES ASSUME f \notin d.first PROVE ToSet(ids) \intersect Transit(c) = {}
        OBVIOUS
      <3>2. \A x \in T : x < f /\ x \in Nat
        <4>1. \A x \in ToSet(t) : x < f
          BY ONLY <2>2, <2>3, <3>1 DEF t
        <4>2. \A x \in ToSet(t) : x \in Frames
          BY <2>2 DEF ToSet
        <4>3. \A x \in Frames : x \in Nat
          BY Sizes DEF Frames
        <4> QED
          BY ONLY <4>1, <4>2, <4>3 DEF T
      <3>3. \A x \in Transit(c) : f < x
        BY <1>2
      <3>4. f \in Nat /\ \A x \in Transit(c) : x \in Nat
        <4>1. \A x \in Frames : x \in Nat
          BY Sizes DEF Frames
        <4> QED
          BY ONLY <1>1, <1>3, <1>4, <4>1
      <3>5. \A x \in ToSet(ids) : x <= f /\ x \in Nat
        BY ONLY <2>6, <3>2, <3>4
      <3>6. \A x \in ToSet(ids) : x \notin Transit(c)
        BY ONLY <3>3, <3>4, <3>5
      <3> QED
        BY ONLY <3>6
    <2>11. ck \in BOOLEAN
      OBVIOUS
    <2>12. Arrived(c, f, need) = Complete(c, ids, ck)
      BY <1>6 DEF Arrived, ids, t
    <2> HIDE DEF ck
    <2>13. Acc(Complete(c, ids, ck), F, H)
      <3>1. c \in PcieType
        OBVIOUS
      <3> QED
        BY ONLY <2>6, <2>7, <2>9, <2>10, <2>11, <3>1, AccComplete DEF K
    <2> QED
      BY ONLY <2>12, <2>13 DEF f, need, w
  <1> QED
    BY ONLY <1>5, <1>6

-----------------------------------------------------------------------------
(* The inductive invariant of the chains.                                  *)

HeldOf(re) == IF re = NoResp THEN {} ELSE Ids(re)
Chain(re, pc, nu) == Acc(pc, 1..Len(nu), HeldOf(re))
ChainInv == Chain(resp, pcie, num)

LEMMA NewNum ==
  ASSUME WinInv, ChainInv, frame <= MaxFrames, NEW o \in Nat
  PROVE  LET F == 1..Len(num)
         IN  /\ Acc(pcie, F, HeldOf(resp)) /\ pcie \in PcieType /\ frame \in Frames
             /\ frame \notin F /\ \A x \in F : x < frame
             /\ 1..Len(Append(num, <<session, base + o>>)) = F \union {frame}
             /\ pcie.after[frame] = <<>>
  <1> DEFINE F == 1..Len(num)
             p == <<session, base + o>>
  <1>1. Acc(pcie, F, HeldOf(resp))
    BY DEF ChainInv, Chain
  <1>2. /\ num \in Places /\ frame \in Frames /\ frame = Len(num) + 1 /\ p \in Nat \X Nat
        /\ pcie \in PcieType
    BY NextFrame
  <1>3. Len(num) \in Nat
    BY <1>2 DEF Places
  <1> HIDE DEF p
  <1>4. Len(Append(num, p)) = Len(num) + 1
    BY <1>2, PlacesMore
  <1>5. frame \notin F /\ (\A x \in F : x < frame) /\ 1..Len(num)+1 = F \union {frame}
    BY ONLY <1>2, <1>3
  <1> HIDE DEF F
  <1>6. pcie.after[frame] = <<>>
    BY <1>1, <1>2, <1>5 DEF Acc, Chains
  <1> QED
    BY <1>1, <1>2, <1>4, <1>5, <1>6 DEF F, p

LEMMA RecvPlainChain ==
  ASSUME WinInv, ChainInv, RecvPlain PROVE ChainInv'
  <1> DEFINE M == Append(num, <<session, base + 0>>)
             F == 1..Len(num)
             G == 1..Len(M)
             e == <<>>
             O == {}
  <1>1. resp = NoResp /\ frame <= MaxFrames /\ num' = M /\ resp' = resp
    BY DEF RecvPlain, Receives
  <1>2. PICK drop \in Drop : pcie' = SendUp(pcie, frame, TRUE, drop)
    BY DEF RecvPlain
  <1>3. /\ Acc(pcie, F, O) /\ pcie \in PcieType /\ frame \in Frames /\ frame \notin F
        /\ \A x \in F : x < frame
        /\ G = F \union {frame}
        /\ pcie.after[frame] = e
    <2>1. 0 \in Nat
      OBVIOUS
    <2> QED
      BY <1>1, <2>1, NewNum DEF HeldOf
  <1>4. drop \in BOOLEAN
    BY DropBool
  <1> HIDE DEF F, G, O, e
  <1>5. Acc(pcie', G, O)
    <2>1. CASE drop
      <3>1. pcie' = Free(pcie, frame, TRUE)
        BY <1>2, <2>1 DEF SendUp
      <3> QED
        BY ONLY <1>3, <3>1, AccFree
    <2>2. CASE ~drop
      <3>1. pcie' = SendUp(pcie, frame, TRUE, FALSE)
        BY ONLY <1>2, <1>4, <2>2
      <3>3. e \in Seq(Frames) /\ Once(e) /\ ToSet(e) = {}
        BY DEF Once, ToSet, e
      <3>4. ToSet(e) \intersect O = {} /\ Acc(pcie, F, O \union ToSet(e))
        <4>1. O \union ToSet(e) = O
          BY <3>3 DEF O
        <4> QED
          BY <1>3, <3>3, <4>1 DEF O
      <3>5. ASSUME NEW c \in PcieType, c = pcie PROVE Acc(SendUp(c, frame, TRUE, FALSE), F \union {frame}, O)
        <4>1. /\ pcie \in PcieType /\ frame \in Frames /\ frame \notin F /\ \A x \in F : x < frame
              /\ c.q = pcie.q /\ c.after[frame] = e
              /\ \A h \in Frames \ {frame} : c.after[h] = pcie.after[h]
              /\ c.first = pcie.first /\ c.done = pcie.done /\ c.freed = pcie.freed
              /\ c \in PcieType
          BY <1>3, <3>5
        <4> QED
          BY ONLY <3>3, <3>4, <4>1, AccAsk
      <3> QED
        BY <1>3, <3>1, <3>5
    <2> QED
      BY <2>1, <2>2
  <1>6. Chain(resp', pcie', num')
    BY <1>1, <1>5 DEF Chain, HeldOf, G, O
  <1> QED
    BY <1>6 DEF ChainInv

LEMMA RecvDuplicateChain ==
  ASSUME WinInv, ChainInv, RecvDuplicate PROVE ChainInv'
  <1>1. PICK o \in Offsets \ {0} : Receives(o)
    BY DEF RecvDuplicate
  <1> DEFINE M == Append(num, <<session, base + o>>)
             F == 1..Len(num)
             G == 1..Len(M)
             H == HeldOf(resp)
  <1>2. frame <= MaxFrames /\ num' = M /\ resp' = resp /\ pcie' = Free(pcie, frame, TRUE)
    BY <1>1 DEF RecvDuplicate, Receives
  <1>3. /\ Acc(pcie, F, H) /\ pcie \in PcieType /\ frame \in Frames /\ frame \notin F
        /\ G = F \union {frame}
    <2>1. o \in Nat
      BY Sizes
    <2> QED
      BY <1>2, <2>1, NewNum
  <1> HIDE DEF F, G, H
  <1>4. Acc(pcie', G, H)
    BY ONLY <1>2, <1>3, AccFree
  <1>5. Chain(resp', pcie', num')
    BY <1>2, <1>4 DEF Chain, G, H
  <1> QED
    BY <1>5 DEF ChainInv

LEMMA RecvInWindowChain ==
  ASSUME WinInv, ChainInv, RecvInWindow PROVE ChainInv'
  <1>1. PICK o \in (Offsets \ {0}) \intersect 1..resp.ba_wsize-1 :
          /\ ~Duplicate(Forward(resp.exp_seq, o), o)
          /\ Receives(o) /\ resp' = Store(resp, Forward(resp.exp_seq, o), frame)
    BY DEF RecvInWindow
  <1> DEFINE M == Append(num, <<session, base + o>>)
             F == 1..Len(num)
             G == 1..Len(M)
             H == HeldOf(resp)
             K == H \union {frame}
  <1>2. resp # NoResp /\ frame <= MaxFrames /\ num' = M
    BY <1>1 DEF RecvInWindow, Receives
  <1>3. PICK drop \in Drop : pcie' = SendUp(pcie, frame, FALSE, drop)
    BY DEF RecvInWindow
  <1>4. /\ Acc(pcie, F, H) /\ pcie \in PcieType /\ frame \in Frames /\ frame \notin F
        /\ \A x \in F : x < frame
        /\ G = F \union {frame}
    <2>1. o \in Nat
      BY Sizes
    <2> QED
      BY <1>2, <2>1, NewNum
  <1>5. drop \in BOOLEAN
    BY DropBool
  <1> HIDE DEF F, G
  <1>6. Acc(pcie', G, K)
    <2>1. CASE drop
      <3>1. pcie' = Free(pcie, frame, FALSE)
        BY <1>3, <2>1 DEF SendUp
      <3> HIDE DEF H
      <3> QED
        BY ONLY <1>4, <3>1, AccFree
    <2>2. CASE ~drop
      <3>1. pcie' = SendUp(pcie, frame, FALSE, FALSE)
        BY ONLY <1>3, <1>5, <2>2
      <3> HIDE DEF H
      <3> QED
        BY ONLY <1>4, <3>1, AccHold
    <2> QED
      BY <2>1, <2>2
  <1>7. HeldOf(resp') = K
    <2> DEFINE R == Store(resp, Forward(resp.exp_seq, o), frame)
    <2>1. R \in RespType /\ Ids(R) = Ids(resp) \union {frame}
      BY <1>1, <1>2, InWindowGood
    <2>2. resp' = R
      BY <1>1
    <2> HIDE DEF R
    <2>3. R # NoResp
      BY <2>1, RespIs
    <2> QED
      BY <1>2, <2>1, <2>2, <2>3 DEF HeldOf
  <1>8. Chain(resp', pcie', num')
    BY <1>2, <1>6, <1>7 DEF Chain, G
  <1> QED
    BY <1>8 DEF ChainInv

LEMMA ResetIds ==
  ASSUME NEW r \in RespType, NEW R, R = r \/ R = Reset(r)
  PROVE  HeldOf(R) = Ids(r)
  <1>1. Reset(r) \in RespType /\ Reset(r).rxq = r.rxq
    BY ResetKeeps
  <1>2. Ids(Reset(r)) = Ids(r)
    BY <1>1 DEF Ids
  <1>3. R \in RespType /\ Ids(R) = Ids(r)
    BY <1>1, <1>2
  <1>4. R # NoResp
    BY <1>3, RespIs
  <1> QED
    BY <1>3, <1>4 DEF HeldOf

LEMMA RecvExpectedChain ==
  ASSUME ~HeadDrop, WinInv, ChainInv, RecvExpected PROVE ChainInv'
  <1> DEFINE M == Append(num, <<session, base + 0>>)
             on == On(resp)
             start == IF on.queued > 0 THEN Reset(on) ELSE on
             r == ReleaseOrdered(start)
             ids == r.rxcpl_list
             k == InARow(start)
             R == IF on.queued > 0 THEN Reset(r) ELSE r
             P == released \o <<frame>>
             d == [pcie EXCEPT !.after[frame] = ids]
             F == 1..Len(num)
             G == 1..Len(M)
             H == Ids(resp)
  <1>1. resp # NoResp /\ frame <= MaxFrames /\ num' = M /\ resp' = R
    BY DEF RecvExpected, Receives, On
  <1>2. PICK drop \in Drop : (drop => HeadDrop \/ ids = <<>>) /\ pcie' = SendUp(d, frame, TRUE, drop)
    BY DEF RecvExpected, On
  <1>3. /\ session \in Nat /\ base \in Nat /\ base + 0 = base /\ num \in Places
        /\ frame = Len(num) + 1 /\ Len(num) + 1 <= MaxFrames /\ frame \in Frames
        /\ drop \in BOOLEAN /\ released \in Seq(Frames)
    BY <1>1, NextFrame, DropBool DEF InTurn
  <1>4. resp \in RespType /\ Good(resp, released, num, session, base)
    BY <1>1 DEF WinInv, Win, Good
  <1>5. /\ Good(R, P \o ids, M, session, (base + 1) + k)
        /\ Lets(r, H) /\ r \in RespType
    BY ONLY <1>3, <1>4, ExpectedGood DEF M, on, start, r, ids, k, R, P, H
  <1>6. M \in Places
    <2>1. 0 \in Nat
      OBVIOUS
    <2> QED
      BY <1>1, <1>3, <2>1, MorePlaces
  <1>7. /\ Acc(pcie, F, H) /\ pcie \in PcieType /\ frame \notin F /\ \A x \in F : x < frame
        /\ G = F \union {frame} /\ pcie.after[frame] = <<>>
    <2>1. 0 \in Nat
      OBVIOUS
    <2> QED
      BY <1>1, <2>1, NewNum DEF HeldOf
  <1>8. HeldOf(R) = Ids(r)
    <2>1. R = r \/ R = Reset(r)
      OBVIOUS
    <2> HIDE DEF R, r
    <2> QED
      BY ONLY <1>5, <2>1, ResetIds
  <1> HIDE DEF r, R, k
  <1>9. /\ ids \in Seq(Frames) /\ ToSet(ids) \subseteq H /\ Ids(r) = H \ ToSet(ids)
    BY <1>5 DEF Lets
  <1> HIDE DEF ids
  <1>10. Once(ids)
    <2> DEFINE z == (base + 1) + k
    <2>1. InTurn(P \o ids, M, session, z) /\ P \in Seq(Frames)
      BY <1>3, <1>5 DEF Good
    <2> HIDE DEF P, z, M
    <2> QED
      BY ONLY <1>6, <1>9, <2>1, OnceTurn
  <1>11. /\ d \in PcieType /\ d.q = pcie.q /\ d.after[frame] = ids
         /\ \A h \in Frames \ {frame} : d.after[h] = pcie.after[h]
         /\ d.first = pcie.first /\ d.done = pcie.done /\ d.freed = pcie.freed
         /\ d.after = [pcie.after EXCEPT ![frame] = ids]
    <2> DEFINE af == [pcie.after EXCEPT ![frame] = ids]
    <2>1. /\ af \in [Frames -> Seq(Frames)] /\ af[frame] = ids
          /\ \A h \in Frames \ {frame} : af[h] = pcie.after[h]
      BY <1>3, <1>7, <1>9, PcieFields
    <2>2. d = [pcie EXCEPT !.after = af]
      OBVIOUS
    <2> HIDE DEF d
    <2>3. /\ d.q = pcie.q /\ d.first = pcie.first /\ d.done = pcie.done
          /\ d.freed = pcie.freed /\ d.after = af
      <3> HIDE DEF af
      <3> QED
        BY <1>7, <2>2 DEF PcieType
    <2>4. d \in PcieType
      <3> HIDE DEF af
      <3> QED
        BY <1>7, <2>1, <2>2 DEF PcieType
    <2> QED
      BY <2>1, <2>3, <2>4
  <1> HIDE DEF d, M, F, G, H
  <1> DEFINE K == Ids(r)
  <1>12. H = K \union ToSet(ids) /\ ToSet(ids) \intersect K = {}
    BY <1>9
  <1> HIDE DEF K
  <1>13. Acc(pcie', G, K)
    <2>1. CASE drop
      <3>1. ids = <<>>
        BY <1>2, <2>1
      <3>2. d.after = pcie.after
        <4>1. pcie.after \in [Frames -> Seq(Frames)]
          BY <1>7, PcieFields
        <4> QED
          BY <1>7, <1>11, <3>1, <4>1
      <3>3. K = H
        <4>1. ToSet(ids) = {}
          BY <3>1 DEF ToSet
        <4> QED
          BY ONLY <1>12, <4>1
      <3>4. Acc(d, F, H)
        BY ONLY <1>7, <1>11, <3>2, AccSame
      <3>5. pcie' = Free(d, frame, TRUE)
        BY <1>2, <2>1 DEF SendUp
      <3> QED
        BY ONLY <1>3, <1>7, <1>11, <3>3, <3>4, <3>5, AccFree
    <2>2. CASE ~drop
      <3>1. pcie' = SendUp(d, frame, TRUE, FALSE)
        BY ONLY <1>2, <1>3, <2>2
      <3>2. Acc(pcie, F, K \union ToSet(ids))
        BY ONLY <1>7, <1>12
      <3>3. Acc(SendUp(d, frame, TRUE, FALSE), F \union {frame}, K)
        BY ONLY <1>3, <1>7, <1>9, <1>10, <1>11, <1>12, <3>2, AccAsk
      <3> QED
        BY ONLY <1>7, <3>1, <3>3
    <2> QED
      BY <2>1, <2>2
  <1>14. Chain(resp', pcie', num')
    BY <1>1, <1>8, <1>13 DEF Chain, G, K
  <1> QED
    BY <1>14 DEF ChainInv

LEMMA RecvBeyondChain ==
  ASSUME WinInv, ChainInv, RecvBeyond PROVE ChainInv'
  <1>1. PICK o \in {x \in Offsets : x >= resp.ba_wsize} :
          LET seq == Forward(resp.exp_seq, o)
              moved == ReleaseN(Reset(resp), Delta(o))
              st == Store(moved, seq, frame)
              r == ReleaseOrdered(st)
          IN  /\ Receives(o) /\ resp' = Reset(r)
              /\ \E drop \in Drop :
                   pcie' = Flush(SendUp(pcie, frame, FALSE, drop), r.rxcpl_list)
    BY DEF RecvBeyond
  <1> DEFINE M == Append(num, <<session, base + o>>)
             dl == (o - resp.ba_wsize) + 1
             seq == Forward(resp.exp_seq, o)
             st == Store(ReleaseN(Reset(resp), dl), seq, frame)
             r == ReleaseOrdered(st)
             k == InARow(st)
             ids == r.rxcpl_list
             R == Reset(r)
             F == 1..Len(num)
             G == 1..Len(M)
             H == Ids(resp)
             Hf == H \union {frame}
  <1>2. /\ resp # NoResp /\ frame <= MaxFrames /\ num' = M /\ resp' = R
    BY <1>1 DEF RecvBeyond, Receives, Delta
  <1>3. PICK drop \in Drop : pcie' = Flush(SendUp(pcie, frame, FALSE, drop), ids)
    BY <1>1 DEF Delta
  <1>4. /\ frame \in Frames /\ session \in Nat /\ base \in Nat
        /\ num \in Places /\ frame = Len(num) + 1 /\ Len(num) + 1 <= MaxFrames
        /\ drop \in BOOLEAN /\ o \in Nat /\ o >= resp.ba_wsize /\ released \in Seq(Frames)
    BY <1>1, <1>2, NextFrame, Sizes, DropBool DEF InTurn
  <1>5. M \in Places
    BY <1>2, <1>4, MorePlaces
  <1>6. resp \in RespType /\ Good(resp, released, num, session, base)
    BY <1>2 DEF WinInv, Win, Good
  <1>7. /\ Good(R, released \o ids, M, session, (base + dl) + k)
        /\ Lets(r, Hf) /\ r \in RespType
    BY ONLY <1>4, <1>6, BeyondGood DEF M, dl, seq, st, r, k, ids, R, H, Hf
  <1>8. /\ Acc(pcie, F, H) /\ pcie \in PcieType /\ frame \notin F /\ \A x \in F : x < frame
        /\ G = F \union {frame}
    BY <1>2, <1>4, NewNum DEF HeldOf
  <1>9. HeldOf(R) = Ids(r)
    <2>1. R = Reset(r)
      OBVIOUS
    <2> HIDE DEF R, r
    <2> QED
      BY ONLY <1>7, <2>1, ResetIds
  <1> HIDE DEF r, R, k, dl
  <1>10. /\ ids \in Seq(Frames) /\ ToSet(ids) \subseteq Hf /\ Ids(r) = Hf \ ToSet(ids)
    BY <1>7 DEF Lets
  <1> HIDE DEF ids
  <1>11. Once(ids)
    <2> DEFINE z == (base + dl) + k
    <2>1. InTurn(released \o ids, M, session, z)
      BY <1>7 DEF Good
    <2> HIDE DEF z, M
    <2> QED
      BY ONLY <1>4, <1>5, <1>10, <2>1, OnceTurn
  <1> DEFINE d == SendUp(pcie, frame, FALSE, drop)
             K == Ids(r)
  <1> HIDE DEF M, F, G, H
  <1>12. d \in PcieType /\ Acc(d, G, Hf)
    <2>1. FALSE \in BOOLEAN
      OBVIOUS
    <2>2. d \in PcieType
      BY <1>4, <1>8, <2>1, SendUpType
    <2>3. Acc(d, G, Hf)
      <3>1. CASE drop
        <4>1. d = Free(pcie, frame, FALSE)
          BY <3>1 DEF SendUp
        <4> HIDE DEF d
        <4> QED
          BY ONLY <1>4, <1>8, <4>1, AccFree
      <3>2. CASE ~drop
        <4>1. d = SendUp(pcie, frame, FALSE, FALSE)
          BY ONLY <1>4, <3>2
        <4> HIDE DEF d
        <4> QED
          BY ONLY <1>4, <1>8, <4>1, AccHold
      <3> QED
        BY <3>1, <3>2
    <2> QED
      BY <2>2, <2>3
  <1>13. Hf = K \union ToSet(ids) /\ ToSet(ids) \intersect K = {}
    BY <1>10
  <1> HIDE DEF d, K, Hf
  <1>14. Acc(pcie', G, K)
    <2>1. pcie' = Complete(d, ids, TRUE)
      BY <1>3 DEF Flush, d
    <2>2. TRUE \in BOOLEAN
      OBVIOUS
    <2>3. /\ Acc(d, G, K \union ToSet(ids)) /\ ToSet(ids) \intersect K = {}
          /\ TRUE \/ ToSet(ids) \intersect Transit(d) = {}
      BY ONLY <1>12, <1>13
    <2>4. Acc(Complete(d, ids, TRUE), G, K)
      BY ONLY <1>10, <1>11, <1>12, <2>2, <2>3, AccComplete
    <2> QED
      BY ONLY <2>1, <2>4
  <1>15. Chain(resp', pcie', num')
    BY <1>2, <1>9, <1>14 DEF Chain, G, K
  <1> QED
    BY <1>15 DEF ChainInv

LEMMA RecvBarChain ==
  ASSUME WinInv, ChainInv, RecvBar PROVE ChainInv'
  <1>1. PICK o \in Offsets :
          LET start == IF resp.queued > 0 THEN Reset(resp) ELSE resp
              moved == ReleaseN(start, o)
              r == ReleaseOrdered(moved)
          IN  resp' = Reset(r) /\ pcie' = Flush(pcie, r.rxcpl_list)
    BY DEF RecvBar
  <1> DEFINE start == IF resp.queued > 0 THEN Reset(resp) ELSE resp
             moved == ReleaseN(start, o)
             r == ReleaseOrdered(moved)
             k == InARow(moved)
             ids == r.rxcpl_list
             R == Reset(r)
             F == 1..Len(num)
             H == Ids(resp)
  <1>2. /\ resp # NoResp /\ num' = num /\ resp' = R /\ pcie' = Complete(pcie, ids, TRUE)
    BY <1>1 DEF RecvBar, Flush
  <1>3. /\ session \in Nat /\ base \in Nat /\ pcie \in PcieType /\ num \in Places
        /\ o \in Nat /\ resp \in RespType /\ released \in Seq(Frames)
        /\ Good(resp, released, num, session, base)
    <2>1. o \in Nat
      BY Sizes
    <2>2. /\ session \in Nat /\ base \in Nat /\ pcie \in PcieType /\ num \in Places
          /\ resp \in RespType /\ Good(resp, released, num, session, base)
      BY <1>2 DEF WinInv, Win, Good
    <2>3. released \in Seq(Frames)
      BY <2>2 DEF Good, InTurn
    <2> QED
      BY ONLY <2>1, <2>2, <2>3
  <1>4. /\ Good(R, released \o ids, num, session, (base + o) + k) /\ Lets(r, H)
        /\ r \in RespType
    BY ONLY <1>3, BarGood DEF start, moved, r, k, ids, R, H
  <1>5. Acc(pcie, F, H)
    BY <1>2 DEF ChainInv, Chain, HeldOf
  <1>6. HeldOf(R) = Ids(r)
    <2>1. R = Reset(r)
      OBVIOUS
    <2> HIDE DEF R, r
    <2> QED
      BY ONLY <1>4, <2>1, ResetIds
  <1> HIDE DEF r, R, k
  <1>7. /\ ids \in Seq(Frames) /\ ToSet(ids) \subseteq H /\ Ids(r) = H \ ToSet(ids)
    BY <1>4 DEF Lets
  <1> HIDE DEF ids
  <1>8. Once(ids)
    <2> DEFINE z == (base + o) + k
    <2>1. InTurn(released \o ids, num, session, z)
      BY <1>4 DEF Good
    <2> HIDE DEF z
    <2> QED
      BY ONLY <1>3, <1>7, <2>1, OnceTurn
  <1> DEFINE K == Ids(r)
  <1> HIDE DEF F, H
  <1>9. H = K \union ToSet(ids) /\ ToSet(ids) \intersect K = {}
    BY <1>7
  <1> HIDE DEF K
  <1>10. Acc(pcie', F, K)
    <2>1. TRUE \in BOOLEAN
      OBVIOUS
    <2>2. /\ Acc(pcie, F, K \union ToSet(ids)) /\ ToSet(ids) \intersect K = {}
          /\ TRUE \/ ToSet(ids) \intersect Transit(pcie) = {}
      BY ONLY <1>5, <1>9
    <2>3. Acc(Complete(pcie, ids, TRUE), F, K)
      BY ONLY <1>3, <1>7, <1>8, <2>1, <2>2, AccComplete
    <2> QED
      BY ONLY <1>2, <2>3
  <1>11. Chain(resp', pcie', num')
    BY <1>2, <1>6, <1>10 DEF Chain, F, K
  <1> QED
    BY <1>11 DEF ChainInv

(* The end of a session flushes all that waits.                            *)
LEMMA CleanedChain ==
  ASSUME WinInv, resp # NoResp, NEW d \in PcieType, NEW F, Acc(d, F, Ids(resp))
  PROVE  Acc(Cleaned(d), F, {})
  <1> DEFINE ids == ReleaseN(resp, ba_max_rx_wsize).rxcpl_list
             z == base + ba_max_rx_wsize
             O == {}
  <1>1. /\ Cleaned(d) = Flush(d, ids) /\ ids \in Seq(Frames) /\ ToSet(ids) = Ids(resp)
        /\ InTurn(released \o ids, num, session, z)
    BY CleanupWin
  <1>2. num \in Places /\ released \in Seq(Frames)
    BY DEF WinInv, Win, InTurn
  <1> HIDE DEF ids, z
  <1>3. Once(ids)
    BY ONLY <1>1, <1>2, OnceTurn
  <1>4. TRUE \in BOOLEAN /\ d \in PcieType
    OBVIOUS
  <1>5. /\ Acc(d, F, O \union ToSet(ids)) /\ ToSet(ids) \intersect O = {}
        /\ TRUE \/ ToSet(ids) \intersect Transit(d) = {}
    <2>1. O \union ToSet(ids) = Ids(resp)
      BY <1>1
    <2> QED
      BY <2>1
  <1> HIDE DEF O
  <1>6. Acc(Complete(d, ids, TRUE), F, O)
    BY ONLY <1>1, <1>3, <1>4, <1>5, AccComplete
  <1> QED
    BY <1>1, <1>6 DEF Flush, O

LEMMA EndSessionChain ==
  ASSUME WinInv, ChainInv, EndSession PROVE ChainInv'
  <1>1. resp # NoResp /\ num' = num /\ resp' = NoResp /\ pcie' = Cleaned(pcie)
    BY DEF EndSession, Cleanup
  <1>2. pcie \in PcieType /\ Acc(pcie, 1..Len(num), Ids(resp))
    BY <1>1 DEF WinInv, Win, ChainInv, Chain, HeldOf
  <1>3. Acc(Cleaned(pcie), 1..Len(num), {})
    BY <1>1, <1>2, CleanedChain
  <1>4. Chain(resp', pcie', num')
    BY <1>1, <1>3 DEF Chain, HeldOf
  <1> QED
    BY <1>4 DEF ChainInv

LEMMA RecvFragmentChain ==
  ASSUME WinInv, ChainInv, RecvFragment PROVE ChainInv'
  <1> DEFINE M == Append(num, <<session, base + 0>>)
             F == 1..Len(num)
             G == 1..Len(M)
             d == Free(pcie, frame, TRUE)
             H == Ids(resp)
  <1>1. /\ resp # NoResp /\ frame <= MaxFrames /\ num' = M /\ resp' = NoResp
        /\ pcie' = Cleaned(d)
    BY DEF RecvFragment, Cleanup, Receives
  <1>2. /\ Acc(pcie, F, H) /\ pcie \in PcieType /\ frame \in Frames /\ frame \notin F
        /\ G = F \union {frame}
    <2>1. 0 \in Nat
      OBVIOUS
    <2> QED
      BY <1>1, <2>1, NewNum DEF HeldOf
  <1>3. d \in PcieType
    BY <1>2, FreeType
  <1> HIDE DEF F, G, H
  <1>4. Acc(d, G, H)
    BY ONLY <1>2, AccFree DEF d
  <1> HIDE DEF d
  <1>5. Acc(Cleaned(d), G, {})
    BY <1>1, <1>3, <1>4, CleanedChain DEF H
  <1>6. Chain(resp', pcie', num')
    BY <1>1, <1>5 DEF Chain, HeldOf, G
  <1> QED
    BY <1>6 DEF ChainInv

LEMMA RecvAddbaChain ==
  ASSUME WinInv, ChainInv, RecvAddba PROVE ChainInv'
  <1>1. /\ pcie' = Cleaned(pcie) /\ num' = num
        /\ resp' = NoResp \/ \E wsize \in Wsizes : resp' = NewResp(wsize)
    BY DEF RecvAddba, NewResp
  <1>2. pcie \in PcieType /\ Acc(pcie, 1..Len(num), HeldOf(resp))
    BY DEF WinInv, Win, ChainInv, Chain
  <1>3. Acc(pcie', 1..Len(num), {})
    <2>1. CASE resp = NoResp
      BY <1>1, <1>2, <2>1 DEF Cleaned, HeldOf
    <2>2. CASE resp # NoResp
      BY <1>1, <1>2, <2>2, CleanedChain DEF HeldOf
    <2> QED
      BY <2>1, <2>2
  <1>4. HeldOf(resp') = {}
    <2>1. CASE resp' = NoResp
      BY <2>1 DEF HeldOf
    <2>2. ASSUME NEW wsize \in Wsizes, resp' = NewResp(wsize) PROVE HeldOf(resp') = {}
      BY <2>2, NewGood DEF HeldOf
    <2> QED
      BY <1>1, <2>1, <2>2
  <1>5. Chain(resp', pcie', num')
    BY <1>1, <1>3, <1>4 DEF Chain
  <1> QED
    BY <1>5 DEF ChainInv

LEMMA FlagsIds ==
  ASSUME NEW r \in RespType, NEW a \in BOOLEAN, NEW c \in 0..DeadLim-1
  PROVE  HeldOf([r EXCEPT !.alive = a, !.dead_cnt = c]) = HeldOf(r)
  <1> DEFINE q == [r EXCEPT !.alive = a, !.dead_cnt = c]
  <1>1. q \in RespType /\ Ids(q) = Ids(r)
    BY FlagsKeep
  <1> HIDE DEF q
  <1>2. q # NoResp /\ r # NoResp
    BY <1>1, RespIs
  <1>3. HeldOf(q) = HeldOf(r)
    BY <1>1, <1>2 DEF HeldOf
  <1> QED
    BY <1>3 DEF q

LEMMA TickAliveChain ==
  ASSUME WinInv, ChainInv, TickAlive PROVE ChainInv'
  <1>1. /\ resp # NoResp /\ resp' = [resp EXCEPT !.alive = FALSE, !.dead_cnt = 0]
        /\ pcie' = pcie /\ num' = num
    BY DEF TickAlive
  <1>2. resp \in RespType /\ FALSE \in BOOLEAN /\ 0 \in 0..DeadLim-1
    BY <1>1, Sizes DEF WinInv, Win
  <1>3. HeldOf(resp') = HeldOf(resp)
    BY ONLY <1>1, <1>2, FlagsIds
  <1>4. Chain(resp', pcie', num')
    BY <1>1, <1>3 DEF ChainInv, Chain
  <1> QED
    BY <1>4 DEF ChainInv

LEMMA TickStuckChain ==
  ASSUME WinInv, ChainInv, TickStuck PROVE ChainInv'
  <1>1. resp # NoResp /\ num' = num
    BY DEF TickStuck
  <1>2. resp \in RespType /\ pcie \in PcieType /\ Acc(pcie, 1..Len(num), Ids(resp))
    BY <1>1 DEF WinInv, Win, ChainInv, Chain, HeldOf
  <1>3. CASE resp.dead_cnt + 1 < DeadLim
    <2> DEFINE c == resp.dead_cnt + 1
               a == resp.alive
    <2>1. resp' = [resp EXCEPT !.dead_cnt = c] /\ pcie' = pcie
      BY <1>3 DEF TickStuck
    <2>2. a \in BOOLEAN /\ c \in 0..DeadLim-1
      BY <1>2, <1>3, RespFields, Sizes
    <2> HIDE DEF c
    <2>3. resp' = [resp EXCEPT !.alive = a, !.dead_cnt = c]
      BY <1>2, <2>1 DEF RespType
    <2> HIDE DEF a
    <2>4. HeldOf(resp') = HeldOf(resp)
      BY ONLY <1>2, <2>2, <2>3, FlagsIds
    <2>5. Chain(resp', pcie', num')
      BY <1>1, <2>1, <2>4 DEF ChainInv, Chain
    <2> QED
      BY <2>5 DEF ChainInv
  <1>4. CASE ~(resp.dead_cnt + 1 < DeadLim)
    <2>1. resp' = NoResp /\ pcie' = Cleaned(pcie)
      BY <1>4 DEF TickStuck, Cleanup
    <2>2. Acc(Cleaned(pcie), 1..Len(num), {})
      BY <1>1, <1>2, CleanedChain
    <2>3. Chain(resp', pcie', num')
      BY <1>1, <2>1, <2>2 DEF Chain, HeldOf
    <2> QED
      BY <2>3 DEF ChainInv
  <1> QED
    BY <1>3, <1>4

LEMMA PayloadChain ==
  ASSUME WinInv, ChainInv, Payload PROVE ChainInv'
  <1> DEFINE w == Head(pcie.q)
             d == [pcie EXCEPT !.q = Tail(@)]
             F == 1..Len(num)
             H == HeldOf(resp)
             c == [d EXCEPT !.dropped = @ \union {w.id}]
  <1>1. pcie.q # <<>> /\ resp' = resp /\ num' = num
    BY DEF Payload
  <1>2. pcie \in PcieType /\ Acc(pcie, F, H)
    BY DEF WinInv, Win, ChainInv, Chain
  <1>3. /\ w.id \in Frames /\ d \in PcieType /\ d.q = Tail(pcie.q) /\ d.after = pcie.after
        /\ d.first = pcie.first /\ d.done = pcie.done /\ d.freed = pcie.freed
    BY <1>1, <1>2, PopIs
  <1>4. pcie' = Free(d, w.id, w.need) \/ pcie' = Arrived(d, w.id, w.need)
    BY DEF Payload
  <1>5. Free(d, w.id, w.need) = Arrived(c, w.id, w.need)
    BY DEF Free
  <1> HIDE DEF d
  <1>6. /\ c \in PcieType /\ c.q = d.q /\ c.after = d.after /\ c.first = d.first
        /\ c.done = d.done /\ c.freed = d.freed
    <2> HIDE DEF w
    <2> QED
      BY ONLY <1>3, DropType DEF c
  <1> HIDE DEF c, F, H
  <1>7. Acc(Arrived(d, w.id, w.need), F, H)
    BY ONLY <1>1, <1>2, <1>3, AccArrived DEF w
  <1>8. Acc(Arrived(c, w.id, w.need), F, H)
    <2>1. /\ c \in PcieType /\ c.q = Tail(pcie.q) /\ c.after = pcie.after
          /\ c.first = pcie.first /\ c.done = pcie.done /\ c.freed = pcie.freed
      BY ONLY <1>3, <1>6
    <2> QED
      BY ONLY <1>1, <1>2, <2>1, AccArrived DEF w
  <1> HIDE DEF w
  <1>9. Acc(pcie', F, H)
    BY ONLY <1>4, <1>5, <1>7, <1>8
  <1>10. Chain(resp', pcie', num')
    BY <1>1, <1>9 DEF Chain, F, H
  <1> QED
    BY <1>10 DEF ChainInv

LEMMA InitChain == Init => ChainInv
  <1> SUFFICES ASSUME Init PROVE ChainInv
    OBVIOUS
  <1> DEFINE e == <<>>
             a == [f \in Frames |-> e]
             F == 1..Len(num)
             O == {}
  <1>1. /\ resp = NoResp /\ num = <<>>
        /\ pcie = [q |-> <<>>, after |-> a, first |-> {}, dropped |-> {}, done |-> {},
                   freed |-> {}]
    BY DEF Init
  <1>2. pcie \in PcieType
    BY InitWin DEF WinInv, Win
  <1>3. F = O
    BY <1>1
  <1>4. pcie.q = <<>> /\ Transit(pcie) = O
    BY <1>1 DEF Transit
  <1>5. DueOf(pcie) = O
    BY <1>4 DEF DueOf
  <1>6. Hang(pcie) = O
    BY <1>5 DEF Hang
  <1>7. pcie.after = a /\ pcie.first = O /\ pcie.done = O /\ pcie.freed = O
    BY <1>1
  <1>8. InOrder(pcie.q)
    BY <1>4 DEF InOrder
  <1>9. Chains(pcie, F)
    BY <1>5, <1>7 DEF Chains
  <1>10. Parts(F, pcie.done, pcie.freed, O, DueOf(pcie), Hang(pcie))
    BY <1>3, <1>5, <1>6, <1>7 DEF Parts
  <1>11. F \subseteq Frames /\ Transit(pcie) \subseteq F
    BY <1>3, <1>4
  <1>12. HeldOf(resp) = O
    BY <1>1 DEF HeldOf
  <1> HIDE DEF F, O
  <1>13. Acc(pcie, F, O)
    BY ONLY <1>2, <1>8, <1>9, <1>10, <1>11 DEF Acc
  <1> QED
    BY <1>12, <1>13 DEF ChainInv, Chain, F

LEMMA ChainStep == ~HeadDrop /\ WinInv /\ ChainInv /\ [Next]_vars => ChainInv'
  <1> SUFFICES ASSUME ~HeadDrop, WinInv, ChainInv, [Next]_vars PROVE ChainInv'
    OBVIOUS
  <1>1. CASE UNCHANGED vars
    <2>1. resp' = resp /\ pcie' = pcie /\ num' = num
      BY <1>1 DEF vars
    <2> QED
      BY <2>1 DEF ChainInv
  <1>2. CASE Next
    BY <1>2, RecvPlainChain, RecvExpectedChain, RecvDuplicateChain, RecvInWindowChain,
       RecvBeyondChain, RecvFragmentChain, RecvBarChain, RecvAddbaChain, EndSessionChain,
       TickAliveChain, TickStuckChain, PayloadChain DEF Next, Receive
  <1> QED
    BY <1>1, <1>2

(* Of sets that a member of F is in exactly one of, it is in exactly one.  *)
LEMMA OneOf ==
  ASSUME NEW F, NEW dn, NEW fr, NEW H, NEW Du, NEW Ha, Parts(F, dn, fr, H, Du, Ha),
         NEW f \in F
  PROVE  LET P == {p \in {"done", "freed", "held", "due", "hanging"} :
                     \/ p = "done" /\ f \in dn
                     \/ p = "freed" /\ f \in fr
                     \/ p = "held" /\ f \in H
                     \/ p = "due" /\ f \in Du
                     \/ p = "hanging" /\ f \in Ha}
         IN  Cardinality(P) = 1
  <1> DEFINE P == {p \in {"done", "freed", "held", "due", "hanging"} :
                     \/ p = "done" /\ f \in dn
                     \/ p = "freed" /\ f \in fr
                     \/ p = "held" /\ f \in H
                     \/ p = "due" /\ f \in Du
                     \/ p = "hanging" /\ f \in Ha}
  <1>1. /\ f \in dn \/ f \in fr \/ f \in H \/ f \in Du \/ f \in Ha
        /\ f \in dn => f \notin fr /\ f \notin H /\ f \notin Du /\ f \notin Ha
        /\ f \in fr => f \notin H /\ f \notin Du /\ f \notin Ha
        /\ f \in H => f \notin Du /\ f \notin Ha
        /\ f \in Du => f \notin Ha
    BY DEF Parts
  <1>2. \E p : P = {p}
    <2>1. CASE f \in dn
      <3>1. P = {"done"}
        BY <1>1, <2>1
      <3> QED
        BY <3>1
    <2>2. CASE f \in fr
      <3>1. P = {"freed"}
        BY <1>1, <2>2
      <3> QED
        BY <3>1
    <2>3. CASE f \in H
      <3>1. P = {"held"}
        BY <1>1, <2>3
      <3> QED
        BY <3>1
    <2>4. CASE f \in Du
      <3>1. P = {"due"}
        BY <1>1, <2>4
      <3> QED
        BY <3>1
    <2>5. CASE f \in Ha
      <3>1. P = {"hanging"}
        BY <1>1, <2>5
      <3> QED
        BY <3>1
    <2> QED
      BY <1>1, <2>1, <2>2, <2>3, <2>4, <2>5
  <1> HIDE DEF P
  <1>3. Cardinality(P) = 1
    BY <1>2, FS_Singleton
  <1> QED
    BY <1>3 DEF P

LEMMA ChainSafe == WinInv /\ ChainInv => NothingStranded
  <1> SUFFICES ASSUME WinInv, ChainInv PROVE NothingStranded
    OBVIOUS
  <1> DEFINE hanging == UNION {ToSet(pcie.after[h]) : h \in Due}
             F == 1..Len(num)
  <1>1. Due = DueOf(pcie)
    BY DEF Due, DueOf, Asked
  <1>2. hanging = Hang(pcie)
    BY <1>1 DEF Hang
  <1>3. Held = HeldOf(resp)
    BY HeldIs DEF HeldOf
  <1>4. Parts(F, pcie.done, pcie.freed, Held, Due, hanging)
    BY <1>1, <1>2, <1>3 DEF ChainInv, Chain, Acc
  <1> HIDE DEF F, hanging
  <1>5. \A f \in F :
          Cardinality({p \in {"done", "freed", "held", "due", "hanging"} :
                         \/ p = "done" /\ f \in pcie.done
                         \/ p = "freed" /\ f \in pcie.freed
                         \/ p = "held" /\ f \in Held
                         \/ p = "due" /\ f \in Due
                         \/ p = "hanging" /\ f \in hanging}) = 1
    BY ONLY <1>4, OneOf
  <1> QED
    BY <1>5 DEF NothingStranded, F, hanging

(* If the stack drops no frame that carries a chain, every completion is   *)
(* with the host, freed, held for the window, or led to by a frame on the  *)
(* queue: none is lost and none is in two places.                          *)
THEOREM ChainsComplete ==
  ASSUME ~HeadDrop PROVE Spec => []NothingStranded
  <1>1. Init => WinInv /\ ChainInv
    BY InitWin, InitChain
  <1>2. WinInv /\ ChainInv /\ [Next]_vars => (WinInv /\ ChainInv)'
    BY WinStep, ChainStep
  <1>3. WinInv /\ ChainInv => NothingStranded
    BY ChainSafe
  <1> QED
    BY <1>1, <1>2, <1>3, PTL DEF Spec

=============================================================================
