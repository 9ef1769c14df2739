--------------------------- MODULE FlowRingTxProofs ---------------------------
(***************************************************************************)
(* Theorems about FlowRingTx, for every size of the ring, the local        *)
(* buffers and the lfrag pool and any number of messages, suppressions,    *)
(* port closings and polls, between a ring's creation and the first        *)
(* request to flush or delete it.                                          *)
(*                                                                         *)
(* The handlers are chains of functions on the ring's record, so the       *)
(* invariant is a predicate on such a record, the callback and the packets *)
(* with wl (Core), which each function keeps.                              *)
(***************************************************************************)
EXTENDS FlowRingTx, ModProofs, SeqSumProofs, FiniteSetTheorems

LEMMA Sizes ==
  /\ MaxItem \in Nat /\ MaxItem >= 2 /\ ItemCnt \in Nat /\ BufCnt \in Nat
  /\ LfragCnt \in Nat /\ MaxFetch \in Nat /\ FetchMod \in Nat /\ MaxMsgs \in Nat
  /\ ItemCnt >= 1 /\ FetchMod >= 1
  BY FlowRingAssumption

-----------------------------------------------------------------------------
(* Message n, counted from 1, and its slot.                                *)

Slot(n) == (n - 1) % MaxItem

LEMMA SlotType ==
  ASSUME NEW n \in Nat, n >= 1 PROVE Slot(n) \in Idx /\ Slot(n) \in Nat /\ Slot(n) < MaxItem
  <1>1. n - 1 \in Int /\ MaxItem \in Int /\ MaxItem > 0
    BY Sizes
  <1>2. (n - 1) % MaxItem \in 0..MaxItem-1
    BY <1>1, Quotient
  <1> QED
    BY <1>1, <1>2 DEF Slot, Idx

LEMMA PlusIs ==
  ASSUME NEW i \in Idx, NEW k \in 0..MaxItem
  PROVE  /\ Plus(i, k) = IF i + k < MaxItem THEN i + k ELSE (i + k) - MaxItem
         /\ Plus(i, k) \in Idx
  <1>1. MaxItem \in Nat /\ MaxItem > 0 /\ i \in Nat /\ i < MaxItem
    BY Sizes DEF Idx
  <1>2. i + k \in Nat /\ i + k < MaxItem + MaxItem
    BY <1>1
  <1>3. (i + k) % MaxItem = IF i + k < MaxItem THEN i + k ELSE (i + k) - MaxItem
    BY ONLY <1>1, <1>2, ModOnce
  <1> QED
    BY <1>1, <1>3 DEF Plus, Idx

LEMMA SlotPlus ==
  ASSUME NEW n \in Nat, n >= 1, NEW k \in 0..MaxItem
  PROVE  Plus(Slot(n), k) = Slot(n + k)
  <1> DEFINE m == MaxItem
             s == Slot(n)
             q == (n - 1) \div m
             t == Plus(s, k)
             a == n + k - 1
  <1>1. m \in Int /\ m > 0
    BY Sizes
  <1>2. n - 1 = q * m + s /\ q \in Int
    BY <1>1, Quotient DEF Slot
  <1>3. s \in Int /\ 0 <= s /\ s < m
    BY SlotType
  <1>4. t = (IF s + k < m THEN s + k ELSE (s + k) - m) /\ t \in Int /\ 0 <= t /\ t < m
    <2>1. s \in Idx
      BY SlotType
    <2>2. t = (IF s + k < m THEN s + k ELSE (s + k) - m) /\ t \in Idx
      BY ONLY <2>1, k \in 0..MaxItem, PlusIs
    <2> QED
      BY <1>1, <2>2 DEF Idx
  <1>0. a \in Int /\ k \in Int /\ a = (n - 1) + k
    OBVIOUS
  <1> HIDE DEF m, s, q, t, a
  <1>5. (q + 1) * m = q * m + m /\ q * m \in Int /\ q + 1 \in Int
    BY ONLY <1>1, <1>2
  <1>6. \A p \in Int : a = p * m + t => a % m = t
    <2>1. a \in Int /\ m \in Int /\ m > 0 /\ t \in Int /\ 0 <= t /\ t < m
      BY ONLY <1>1, <1>4, <1>0
    <2> QED
      BY ONLY <2>1, ModIs
  <1>7. a % m = t
    <2>1. CASE s + k < m
      <3>1. a = q * m + t
        BY ONLY <1>2, <1>3, <1>4, <1>5, <1>0, <2>1, n \in Nat
      <3> QED
        BY ONLY <1>2, <1>6, <3>1
    <2>2. CASE ~(s + k < m)
      <3>1. a = (q + 1) * m + t
        BY ONLY <1>1, <1>2, <1>3, <1>4, <1>5, <1>0, <2>2, n \in Nat
      <3> QED
        BY ONLY <1>5, <1>6, <3>1
    <2> QED
      BY <2>1, <2>2
  <1> QED
    BY <1>7 DEF Slot, m, t, s, a

(* A message less than a round on is in another slot.                      *)
LEMMA SlotApart ==
  ASSUME NEW n \in Nat, n >= 1, NEW k \in 1..MaxItem-1
  PROVE  Slot(n) # Slot(n + k)
  <1> DEFINE s == Slot(n)
  <1>1. MaxItem \in Nat
    BY Sizes
  <1>2. s \in Idx /\ s \in Nat /\ s < MaxItem
    BY SlotType
  <1>3. k \in 0..MaxItem /\ k \in Nat /\ k >= 1 /\ k < MaxItem
    BY <1>1
  <1>4. Slot(n + k) = Plus(s, k)
    BY <1>3, SlotPlus
  <1> HIDE DEF s
  <1>5. Plus(s, k) = IF s + k < MaxItem THEN s + k ELSE (s + k) - MaxItem
    BY ONLY <1>2, <1>3, PlusIs
  <1>6. Plus(s, k) # s
    BY ONLY <1>1, <1>2, <1>3, <1>5
  <1> QED
    BY <1>4, <1>6 DEF s

LEMMA SlotInj ==
  ASSUME NEW m \in Nat, NEW n \in Nat, m >= 1, n >= 1, m < n + MaxItem, n < m + MaxItem,
         Slot(m) = Slot(n)
  PROVE  m = n
  <1>1. MaxItem \in Nat
    BY Sizes
  <1>2. ASSUME m < n PROVE FALSE
    <2>1. n - m \in 1..MaxItem-1 /\ n = m + (n - m)
      BY <1>1, <1>2
    <2> QED
      BY <2>1, SlotApart
  <1>3. ASSUME n < m PROVE FALSE
    <2>1. m - n \in 1..MaxItem-1 /\ m = n + (m - n)
      BY <1>1, <1>3
    <2> QED
      BY <2>1, SlotApart
  <1> QED
    BY <1>2, <1>3

LEMMA SlotDist ==
  ASSUME NEW a \in Nat, NEW b \in Nat, a >= 1, a <= b, b < a + MaxItem
  PROVE  NTXPACTIVE(Slot(a), Slot(b), MaxItem) = b - a
  <1> DEFINE i == Slot(a)
             j == Slot(b)
             k == b - a
  <1>1. MaxItem \in Nat /\ k \in 0..MaxItem /\ k \in Nat /\ k < MaxItem /\ b = a + k
    BY Sizes
  <1>2. i \in Idx /\ i \in Nat /\ i < MaxItem
    BY SlotType
  <1>3. j = Plus(i, k)
    BY ONLY <1>1, a \in Nat, a >= 1, SlotPlus
  <1> HIDE DEF i, j, k
  <1>4. j = IF i + k < MaxItem THEN i + k ELSE (i + k) - MaxItem
    BY ONLY <1>1, <1>2, <1>3, PlusIs
  <1>5. NTXPACTIVE(i, j, MaxItem) = k
    BY ONLY <1>1, <1>2, <1>4 DEF NTXPACTIVE
  <1> QED
    BY <1>5 DEF i, j, k

(* Every slot holds one of the messages of a round.                        *)
LEMMA SlotAll ==
  ASSUME NEW i \in Idx, NEW a \in Nat, a >= 1
  PROVE  \E k \in 0..MaxItem-1 : i = Slot(a + k)
  <1> DEFINE s == Slot(a)
             k == IF s <= i THEN i - s ELSE (MaxItem - s) + i
  <1>1. MaxItem \in Nat /\ s \in Nat /\ s < MaxItem /\ i \in Nat /\ i < MaxItem /\ s \in Idx
    BY Sizes, SlotType DEF Idx
  <1> HIDE DEF s
  <1>2. k \in 0..MaxItem-1 /\ k \in 0..MaxItem
    BY ONLY <1>1
  <1>3. Plus(s, k) = i
    BY <1>1, <1>2, PlusIs
  <1>4. Plus(s, k) = Slot(a + k)
    BY <1>2, SlotPlus DEF s
  <1> QED
    BY <1>2, <1>3, <1>4

-----------------------------------------------------------------------------
(* The slots of the messages after a up to b.                              *)

Win(a, b) == {Slot(n) : n \in a+1..b}

LEMMA InWin ==
  ASSUME NEW R \in Nat, NEW a \in Nat, NEW b \in Nat, R <= a, b <= R + MaxItem,
         NEW n \in Nat, R < n, n <= R + MaxItem
  PROVE  Slot(n) \in Win(a, b) <=> a < n /\ n <= b
  <1>1. MaxItem \in Nat
    BY Sizes
  <1>2. ASSUME Slot(n) \in Win(a, b) PROVE a < n /\ n <= b
    <2>1. PICK m \in a+1..b : Slot(n) = Slot(m)
      BY <1>2 DEF Win
    <2>2. m \in Nat /\ m >= 1 /\ n >= 1 /\ m < n + MaxItem /\ n < m + MaxItem
      BY <1>1
    <2>3. m = n
      BY ONLY <2>1, <2>2, n \in Nat, SlotInj
    <2> QED
      BY <2>3
  <1>3. ASSUME a < n, n <= b PROVE Slot(n) \in Win(a, b)
    <2>1. n \in a+1..b
      BY <1>3
    <2> QED
      BY <2>1 DEF Win
  <1> QED
    BY <1>2, <1>3

LEMMA OfWin ==
  ASSUME NEW a \in Nat, NEW b \in Nat, NEW i \in Win(a, b)
  PROVE  \E n \in Nat : a < n /\ n <= b /\ n >= 1 /\ i = Slot(n)
  <1>1. PICK n \in a+1..b : i = Slot(n)
    BY DEF Win
  <1>2. n \in Nat /\ a < n /\ n <= b /\ n >= 1
    OBVIOUS
  <1> QED
    BY <1>1, <1>2

LEMMA WinType ==
  ASSUME NEW a \in Nat, NEW b \in Nat PROVE Win(a, b) \subseteq Idx
  <1>1. ASSUME NEW i \in Win(a, b) PROVE i \in Idx
    <2>1. PICK n \in Nat : a < n /\ n <= b /\ n >= 1 /\ i = Slot(n)
      BY OfWin
    <2> QED
      BY <2>1, SlotType
  <1> QED
    BY <1>1

-----------------------------------------------------------------------------
(* The messages up to R are complete and gone, those up to D fetched and   *)
(* up to H once fetched.  C is the set of the slots complete out of order, *)
(* O of those with wl, F of those being fetched or handled.                *)

Place(R, D, H) ==
  R \in Nat /\ D \in Nat /\ H \in Nat /\ R <= D /\ D <= H /\ H < R + MaxItem

(* No message is skipped.  Outside suppression what is with wl or being    *)
(* fetched is behind the fetch index, each message once; during it there   *)
(* is a message that is neither complete nor with wl, not after the fetch  *)
(* index, and nothing before it is being fetched: suppression cannot end   *)
(* with the fetch index beyond what must be fetched again.                 *)
Track(C, O, F, sup, R, D, H) ==
  /\ C \subseteq Win(R + 1, H)
  /\ O \subseteq Win(R, H) /\ O \cap C = {}
  /\ \A n \in R+1..D : Slot(n) \in C \cup O \cup F
  /\ ~sup => /\ O \subseteq Win(R, D) /\ F \subseteq Win(R, D)
             /\ F \cap (O \cup C) = {}
             /\ Slot(D + 1) \notin C
  /\ sup => \E n \in R+1..D+1 : /\ n <= H /\ Slot(n) \notin O \cup C
                                /\ F \subseteq Win(n - 1, H)

LEMMA PlaceNat ==
  ASSUME NEW R, NEW D, NEW H, Place(R, D, H)
  PROVE  /\ R \in Nat /\ D \in Nat /\ H \in Nat /\ R + 1 \in Nat /\ D + 1 \in Nat
         /\ R <= D /\ D <= H /\ H < R + MaxItem /\ MaxItem \in Nat
         /\ D + 1 <= R + MaxItem /\ R < D + 1
  BY Sizes DEF Place

(* The first number of a range that is in a set.                           *)
LEMMA Least ==
  ASSUME NEW a \in Nat, NEW b \in Nat, a <= b, NEW S, b \in S
  PROVE  \E n \in a..b : n \in S /\ \A k \in a..n-1 : k \notin S
  <1> DEFINE z == b - a
             T == {k \in 0..z : \A j \in a..a+k-1 : j \notin S}
  <1>1. z \in Nat /\ a + z = b /\ 0 \in T
    OBVIOUS
  <1>2. CASE z \in T
    <2>1. b \in a..b /\ \A k \in a..b-1 : k \notin S
      BY <1>1, <1>2
    <2> QED
      BY <2>1
  <1>3. CASE z \notin T
    <2> HIDE DEF T, z
    <2>1. PICK k \in 0..z : k \in T /\ k < z /\ k + 1 \notin T
      BY ONLY <1>1, <1>3, SetInduction
    <2> USE DEF T
    <2>2. PICK j \in a..a+(k+1)-1 : j \in S
      BY <1>1, <2>1
    <2>3. \A i \in a..a+k-1 : i \notin S
      BY <2>1
    <2>4. j = a + k
      BY <1>1, <2>1, <2>2, <2>3
    <2>5. j \in a..b /\ \A i \in a..j-1 : i \notin S
      BY <1>1, <2>1, <2>3, <2>4
    <2> QED
      BY <2>2, <2>5
  <1> QED
    BY <1>2, <1>3

(* Within a round, being in a window is a matter of the message's number.  *)
LEMMA OfWindow ==
  ASSUME NEW R \in Nat, NEW a \in Nat, NEW b \in Nat, R <= a, b <= R + MaxItem,
         NEW X, X \subseteq Win(a, b)
  PROVE  \A n \in R+1..R+MaxItem : Slot(n) \in X => a < n /\ n <= b
  <1>1. ASSUME NEW n \in R+1..R+MaxItem, Slot(n) \in X PROVE a < n /\ n <= b
    <2>1. n \in Nat /\ R < n /\ n <= R + MaxItem
      BY Sizes
    <2>2. Slot(n) \in Win(a, b)
      BY <1>1
    <2> QED
      BY ONLY <2>1, <2>2, R \in Nat, a \in Nat, b \in Nat, R <= a, b <= R + MaxItem, InWin
  <1> QED
    BY <1>1

LEMMA ToWindow ==
  ASSUME NEW a \in Nat, NEW b \in Nat, NEW a2 \in Nat, NEW b2 \in Nat,
         NEW X, X \subseteq Win(a, b),
         \A n \in a+1..b : Slot(n) \in X => a2 < n /\ n <= b2
  PROVE  X \subseteq Win(a2, b2)
  <1>1. ASSUME NEW i \in X PROVE i \in Win(a2, b2)
    <2>1. PICK n \in Nat : a < n /\ n <= b /\ i = Slot(n)
      BY OfWin
    <2>2. n \in a+1..b
      BY <2>1
    <2>3. a2 < n /\ n <= b2
      BY <2>1, <2>2
    <2>4. n \in a2+1..b2
      BY <2>3
    <2> QED
      BY <2>1, <2>4 DEF Win
  <1> QED
    BY <1>1

LEMMA WinMono ==
  ASSUME NEW a \in Nat, NEW b \in Nat, NEW a2 \in Nat, NEW b2 \in Nat, a2 <= a, b <= b2
  PROVE  Win(a, b) \subseteq Win(a2, b2)
  <1>1. a+1..b \subseteq a2+1..b2
    OBVIOUS
  <1> QED
    BY <1>1 DEF Win

(* With nothing with wl and nothing being fetched suppression can end.     *)
LEMMA TrackClear ==
  ASSUME NEW R, NEW D, NEW H, Place(R, D, H), NEW C,
         Track(C, {}, {}, TRUE, R, D, H)
  PROVE  Track(C, {}, {}, FALSE, R, D, H)
  <1>1. PICK n \in R+1..D+1 : n <= H /\ Slot(n) \notin C
    BY DEF Track
  <1>2. \A m \in R+1..D : Slot(m) \in C
    BY DEF Track
  <1>3. n = D + 1
    BY <1>1, <1>2, PlaceNat
  <1> QED
    BY <1>1, <1>3 DEF Track

(* A message is sent up.                                                   *)
LEMMA TrackSend ==
  ASSUME NEW R, NEW D, NEW H, Place(R, D, H), NEW C, NEW O, NEW F, NEW x \in F,
         Track(C, O, F, FALSE, R, D, H)
  PROVE  Track(C, O \cup {x}, F \ {x}, FALSE, R, D, H)
  <1>1. Win(R, D) \subseteq Win(R, H)
    BY PlaceNat, WinMono
  <1> QED
    BY <1>1 DEF Track

(* A block of n messages is fetched and the fetch index moves on over what *)
(* is complete.                                                            *)
LEMMA TrackRead ==
  ASSUME NEW R, NEW D, NEW H, Place(R, D, H), NEW D2, NEW H2, Place(R, D2, H2),
         NEW C, NEW O, NEW F, NEW sup \in BOOLEAN, Track(C, O, F, sup, R, D, H),
         NEW n \in Nat, H <= H2, D + n <= D2,
         \A m \in D+1..D+n : Slot(m) \notin C,
         \A m \in D+n+1..D2 : Slot(m) \in C,
         Slot(D2 + 1) \notin C
  PROVE  Track(C, O, F \cup Win(D, D + n), sup, R, D2, H2)
  <1> DEFINE B == Win(D, D + n)
  <1>0. /\ R \in Nat /\ D \in Nat /\ H \in Nat /\ R <= D /\ D <= H /\ H < R + MaxItem
        /\ D2 \in Nat /\ H2 \in Nat /\ D2 <= H2 /\ H2 < R + MaxItem /\ MaxItem \in Nat
    BY PlaceNat
  <1>1. /\ Win(R + 1, H) \subseteq Win(R + 1, H2) /\ Win(R, H) \subseteq Win(R, H2)
        /\ Win(R, D) \subseteq Win(R, D2) /\ B \subseteq Win(R, D2)
    BY <1>0, WinMono
  <1>2. C \subseteq Win(R + 1, H2) /\ O \subseteq Win(R, H2) /\ O \cap C = {}
    BY <1>1 DEF Track
  <1>3. ASSUME NEW m \in R+1..D2 PROVE Slot(m) \in C \cup O \cup (F \cup B)
    <2>1. CASE m <= D
      <3>1. m \in R+1..D
        BY <1>0, <2>1
      <3> QED
        BY <3>1 DEF Track
    <2>2. CASE D < m /\ m <= D + n
      <3>1. m \in D+1..D+n
        BY <1>0, <2>2
      <3> QED
        BY <3>1 DEF Win
    <2>3. CASE D + n < m
      <3>1. m \in D+n+1..D2
        BY <1>0, <2>3
      <3> QED
        BY <3>1
    <2> QED
      BY <1>0, <2>1, <2>2, <2>3
  <1>4. B \cap C = {}
    BY DEF Win
  <1>5. CASE ~sup
    <2>1. O \subseteq Win(R, D) /\ F \subseteq Win(R, D) /\ F \cap (O \cup C) = {}
      BY <1>5 DEF Track
    <2>2. B \cap O = {}
      <3>1. ASSUME NEW i \in B, i \in O PROVE FALSE
        <4>1. PICK m \in Nat : D < m /\ m <= D + n /\ i = Slot(m)
          BY <1>0, OfWin
        <4>2. m \in R+1..R+MaxItem
          BY <1>0, <4>1
        <4>3. m <= D
          <5>1. D <= R + MaxItem /\ R <= R
            BY <1>0
          <5> QED
            BY ONLY <1>0, <5>1, <2>1, <3>1, <4>1, <4>2, OfWindow
        <4> QED
          BY <1>0, <4>1, <4>3
      <3> QED
        BY <3>1
    <2>3. O \subseteq Win(R, D2) /\ F \cup B \subseteq Win(R, D2)
      BY <1>1, <2>1
    <2>4. (F \cup B) \cap (O \cup C) = {}
      BY <1>4, <2>1, <2>2
    <2> HIDE DEF B
    <2>9. Track(C, O, F \cup B, sup, R, D2, H2)
      BY <1>2, <1>3, <1>5, <2>3, <2>4 DEF Track
    <2> QED
      BY ONLY <2>9 DEF B
  <1>6. CASE sup
    <2>1. PICK k \in R+1..D+1 : k <= H /\ Slot(k) \notin O \cup C /\ F \subseteq Win(k - 1, H)
      BY <1>6 DEF Track
    <2>2. k \in R+1..D2+1 /\ k <= H2 /\ k - 1 \in Nat
      BY <1>0, <2>1
    <2>3. Win(k - 1, H) \subseteq Win(k - 1, H2)
      BY <1>0, <2>2, WinMono
    <2>4. B \subseteq Win(k - 1, H2)
      <3>1. k - 1 <= D /\ D + n <= H2 /\ D + n \in Nat
        BY <1>0
      <3> QED
        BY ONLY <1>0, <2>2, <3>1, WinMono DEF B
    <2>5. F \cup B \subseteq Win(k - 1, H2)
      BY <2>1, <2>3, <2>4
    <2> HIDE DEF B
    <2>9. Track(C, O, F \cup B, sup, R, D2, H2)
      BY <1>2, <1>3, <1>6, <2>1, <2>2, <2>5 DEF Track
    <2> QED
      BY ONLY <2>9 DEF B
  <1> QED
    BY <1>5, <1>6

LEMMA PastWindow ==
  ASSUME NEW R \in Nat, NEW R2 \in Nat, R2 <= R + MaxItem, NEW S
  PROVE  \A n \in R+1..R+MaxItem : Slot(n) \in S \ Win(R, R2) <=> R2 < n /\ Slot(n) \in S
  <1>1. SUFFICES ASSUME NEW n \in R+1..R+MaxItem
                 PROVE  Slot(n) \in S \ Win(R, R2) <=> R2 < n /\ Slot(n) \in S
    OBVIOUS
  <1>2. MaxItem \in Nat
    BY Sizes
  <1>3. n \in Nat /\ R < n /\ n <= R + MaxItem /\ R <= R
    BY <1>2
  <1>4. Slot(n) \in Win(R, R2) <=> R < n /\ n <= R2
    BY ONLY <1>3, R \in Nat, R2 \in Nat, R2 <= R + MaxItem, InWin
  <1> QED
    BY <1>3, <1>4

(* When wl returns a packet, something not after the fetch index stays     *)
(* incomplete.                                                             *)
LEMMA StaysOpen ==
  ASSUME NEW R, NEW D, NEW H, Place(R, D, H),
         NEW C, NEW O, NEW F, NEW sup \in BOOLEAN, Track(C, O, F, sup, R, D, H),
         NEW x \in O
  PROVE  \E k \in R+1..D+1 : Slot(k) \notin C \cup {x}
  <1>0. /\ R \in Nat /\ D \in Nat /\ R <= D /\ MaxItem \in Nat /\ D + 1 <= R + MaxItem
        /\ D <= R + MaxItem /\ R <= R
    BY PlaceNat
  <1>1. CASE ~sup
    <2>1. Slot(D + 1) \notin C /\ O \subseteq Win(R, D)
      BY <1>1 DEF Track
    <2>2. D + 1 \in R+1..R+MaxItem /\ D + 1 \in R+1..D+1
      BY <1>0
    <2>3. Slot(D + 1) \in O => D + 1 <= D
      BY ONLY <1>0, <2>1, <2>2, OfWindow
    <2>4. Slot(D + 1) # x
      BY <1>0, <2>3
    <2> QED
      BY <2>1, <2>2, <2>4
  <1>2. CASE sup
    <2>1. PICK k \in R+1..D+1 : Slot(k) \notin O \cup C
      BY <1>2 DEF Track
    <2> QED
      BY <2>1
  <1> QED
    BY <1>1, <1>2

(* wl returns the packet in slot x for good, and the read index moves on   *)
(* over what is complete.                                                  *)
LEMMA TrackComplete ==
  ASSUME NEW R, NEW D, NEW H, Place(R, D, H), NEW R2 \in Nat, R <= R2, R2 <= R + MaxItem,
         NEW C, NEW O, NEW F, NEW sup \in BOOLEAN, Track(C, O, F, sup, R, D, H),
         NEW x \in O,
         \A n \in R+1..R2 : Slot(n) \in C \cup {x},
         Slot(R2 + 1) \notin C \cup {x}
  PROVE  /\ R2 <= D /\ Place(R2, D, H)
         /\ Track((C \cup {x}) \ Win(R, R2), O \ {x}, F, sup, R2, D, H)
  <1> DEFINE C2 == (C \cup {x}) \ Win(R, R2)
             O2 == O \ {x}
  <1>0. /\ R \in Nat /\ D \in Nat /\ H \in Nat /\ R <= D /\ D <= H /\ H < R + MaxItem
        /\ MaxItem \in Nat /\ R + 1 \in Nat /\ D + 1 \in Nat /\ D + 1 <= R + MaxItem
        /\ H <= R + MaxItem /\ R <= R + 1 /\ R <= R /\ D <= R + MaxItem
    BY PlaceNat
  <1>1. x \in Win(R, H) /\ x \notin C
    BY DEF Track
  <1>2. PICK m \in Nat : R < m /\ m <= H /\ x = Slot(m)
    BY ONLY <1>0, <1>1, OfWin
  <1>3. m \in R+1..R+MaxItem
    BY <1>0, <1>2
  <1>4. \A n \in R+1..R+MaxItem : Slot(n) = x => n = m
    <2>1. SUFFICES ASSUME NEW n \in R+1..R+MaxItem, Slot(n) = x PROVE n = m
      OBVIOUS
    <2>2. n \in Nat /\ n >= 1 /\ m >= 1 /\ n < m + MaxItem /\ m < n + MaxItem /\ Slot(n) = Slot(m)
      BY <1>0, <1>2, <1>3, <2>1
    <2> QED
      BY ONLY <2>2, m \in Nat, SlotInj
  <1>5. \A n \in R+1..R+MaxItem : Slot(n) \in C => R + 1 < n /\ n <= H
    <2>1. C \subseteq Win(R + 1, H)
      BY DEF Track
    <2> QED
      BY ONLY <1>0, <2>1, OfWindow
  (* The read index stops before the fetch index.                          *)
  <1>6. R2 <= D
    <2>1. PICK k \in R+1..D+1 : Slot(k) \notin C \cup {x}
      BY StaysOpen
    <2>2. ~(k <= R2)
      BY <2>1
    <2> QED
      BY <1>0, <2>2
  <1>7. Place(R2, D, H)
    BY <1>0, <1>6 DEF Place
  <1>9. \A n \in R+1..R+MaxItem : Slot(n) \in C2 <=> R2 < n /\ Slot(n) \in C \cup {x}
    <2> DEFINE S == C \cup {x}
    <2> HIDE DEF S
    <2>1. \A n \in R+1..R+MaxItem : Slot(n) \in S \ Win(R, R2) <=> R2 < n /\ Slot(n) \in S
      BY ONLY <1>0, R2 \in Nat, R2 <= R + MaxItem, PastWindow
    <2> QED
      BY ONLY <2>1 DEF S
  <1>10. C2 \subseteq Win(R2 + 1, H)
    <2>1. C2 \subseteq Win(R, H)
      <3>1. Win(R + 1, H) \subseteq Win(R, H)
        BY <1>0, WinMono
      <3> QED
        BY <1>1, <3>1 DEF Track
    <2>2. ASSUME NEW n \in R+1..H, Slot(n) \in C2 PROVE R2 + 1 < n /\ n <= H
      <3>1. n \in R+1..R+MaxItem
        BY <1>0
      <3>2. R2 < n /\ Slot(n) \in C \cup {x}
        BY <1>9, <2>2, <3>1
      <3>3. n # R2 + 1
        BY <3>2
      <3> QED
        BY <1>0, <3>2, <3>3
    <2> HIDE DEF C2
    <2> DEFINE a2 == R2 + 1
    <2>3. a2 \in Nat /\ R \in Nat /\ H \in Nat
      BY <1>0
    <2>4. \A n \in R+1..H : Slot(n) \in C2 => a2 < n /\ n <= H
      BY ONLY <2>2
    <2> HIDE DEF a2
    <2>5. C2 \subseteq Win(a2, H)
      BY ONLY <2>1, <2>3, <2>4, ToWindow
    <2> QED
      BY ONLY <2>5 DEF a2
  <1>11. \A n \in R+1..R2 : Slot(n) \notin O2
    BY DEF Track
  <1>12. O2 \subseteq Win(R2, H) /\ O2 \cap C2 = {}
    <2>1. O2 \subseteq Win(R, H)
      BY DEF Track
    <2>2. ASSUME NEW n \in R+1..H, Slot(n) \in O2 PROVE R2 < n /\ n <= H
      <3>1. ~(n <= R2)
        BY <1>11, <2>2
      <3> QED
        BY <1>0, <3>1
    <2>3. O2 \cap C2 = {}
      BY DEF Track
    <2> HIDE DEF O2
    <2> QED
      BY ONLY <1>0, <2>1, <2>2, <2>3, R2 \in Nat, ToWindow
  <1>13. ASSUME NEW n \in R2+1..D PROVE Slot(n) \in C2 \cup O2 \cup F
    <2>1. n \in R+1..D /\ n \in R+1..R+MaxItem /\ R2 < n
      BY <1>0
    <2>2. Slot(n) \in C \cup O \cup F
      BY <2>1 DEF Track
    <2> QED
      BY <1>9, <2>1, <2>2
  <1>14. CASE ~sup
    <2>1. /\ O \subseteq Win(R, D) /\ F \subseteq Win(R, D) /\ F \cap (O \cup C) = {}
          /\ Slot(D + 1) \notin C
      BY <1>14 DEF Track
    <2>2. ASSUME NEW X, X \subseteq Win(R, D), \A n \in R+1..R2 : Slot(n) \notin X
          PROVE  X \subseteq Win(R2, D)
      <3>1. ASSUME NEW n \in R+1..D, Slot(n) \in X PROVE R2 < n /\ n <= D
        <4>1. ~(n <= R2)
          BY <2>2, <3>1
        <4> QED
          BY <1>0, <4>1
      <3> QED
        BY ONLY <1>0, <2>2, <3>1, R2 \in Nat, ToWindow
    <2>3. O2 \subseteq Win(R2, D)
      <3>1. O2 \subseteq Win(R, D)
        BY <2>1
      <3> HIDE DEF O2
      <3> QED
        BY ONLY <1>11, <2>2, <3>1
    <2>4. F \subseteq Win(R2, D)
      <3>1. \A n \in R+1..R2 : Slot(n) \notin F
        BY <2>1
      <3> QED
        BY ONLY <2>1, <2>2, <3>1
    <2>5. F \cap (O2 \cup C2) = {}
      BY <2>1
    <2>6. Slot(D + 1) \notin C2
      <3>1. m <= D
        BY ONLY <1>0, <1>2, <1>3, <2>1, x \in O, OfWindow
      <3>2. D + 1 \in R+1..R+MaxItem
        BY <1>0
      <3>3. Slot(D + 1) # x
        BY <1>0, <1>4, <3>1, <3>2
      <3> QED
        BY <2>1, <3>3
    <2> HIDE DEF C2, O2
    <2>7. Track(C2, O2, F, sup, R2, D, H)
      BY <1>10, <1>12, <1>13, <1>14, <2>3, <2>4, <2>5, <2>6 DEF Track
    <2> QED
      BY <1>6, <1>7, <2>7 DEF C2, O2
  <1>15. CASE sup
    <2>1. PICK k \in R+1..D+1 : k <= H /\ Slot(k) \notin O \cup C /\ F \subseteq Win(k - 1, H)
      BY <1>15 DEF Track
    <2>2. ~(k <= R2)
      BY <2>1
    <2>3. k \in R2+1..D+1 /\ Slot(k) \notin O2 \cup C2
      BY <1>0, <2>1, <2>2
    <2> HIDE DEF C2, O2
    <2>4. Track(C2, O2, F, sup, R2, D, H)
      BY <1>10, <1>12, <1>13, <1>15, <2>1, <2>3 DEF Track
    <2> QED
      BY <1>6, <1>7, <2>4 DEF C2, O2
  <1> QED
    BY <1>14, <1>15

(* Message m is not complete, not with wl any more and not handled any     *)
(* more: the fetch index goes back to it, or is before it already.         *)
Back(D, m) == IF m <= D THEN m - 1 ELSE D

(* Its packet came back suppressed, or there was none to send it up in.    *)
LEMMA TrackSuppress ==
  ASSUME NEW R, NEW D, NEW H, Place(R, D, H),
         NEW C, NEW O, NEW F, NEW sup \in BOOLEAN, Track(C, O, F, sup, R, D, H),
         NEW m \in Nat, R < m, m <= H, Slot(m) \notin C, sup => Slot(m) \in O,
         Slot(m) \in O \cup F,
         NEW O2, O2 = O \ {Slot(m)}, NEW F2, F2 \subseteq F, F \subseteq F2 \cup {Slot(m)}
  PROVE  /\ Place(R, Back(D, m), H)
         /\ Track(C, O2, F2, TRUE, R, Back(D, m), H)
  <1> DEFINE x == Slot(m)
             D2 == Back(D, m)
  <1>0. /\ R \in Nat /\ D \in Nat /\ H \in Nat /\ R <= D /\ D <= H /\ H < R + MaxItem
        /\ MaxItem \in Nat /\ D <= R + MaxItem /\ H <= R + MaxItem /\ R <= R
        /\ m \in R+1..R+MaxItem
    BY PlaceNat
  <1>1. D2 \in Nat /\ R <= D2 /\ D2 <= D /\ (m <= D => D2 = m - 1) /\ (~(m <= D) => D2 = D)
    BY <1>0 DEF Back
  <1>2. Place(R, D2, H)
    BY <1>0, <1>1 DEF Place
  <1>3. \A n \in R+1..R+MaxItem : Slot(n) = x => n = m
    <2>1. SUFFICES ASSUME NEW n \in R+1..R+MaxItem, Slot(n) = x PROVE n = m
      OBVIOUS
    <2>2. n \in Nat /\ n >= 1 /\ m >= 1 /\ n < m + MaxItem /\ m < n + MaxItem /\ Slot(n) = Slot(m)
      BY <1>0, <2>1
    <2> QED
      BY ONLY <2>2, m \in Nat, SlotInj
  <1>4. C \subseteq Win(R + 1, H) /\ O2 \subseteq Win(R, H) /\ O2 \cap C = {} /\ O2 \subseteq O
    BY DEF Track
  <1>5. ASSUME NEW n \in R+1..D2 PROVE Slot(n) \in C \cup O2 \cup F2
    <2>1. n \in R+1..D /\ n \in R+1..R+MaxItem /\ n # m
      BY <1>0, <1>1
    <2>2. Slot(n) \in C \cup O \cup F /\ Slot(n) # x
      BY <1>3, <2>1 DEF Track
    <2> QED
      BY <2>2
  <1>6. x \notin O2 \cup C
    OBVIOUS
  (* Nothing before n is being fetched, and n lets suppression wait for it.*)
  <1>7. ASSUME NEW n \in R+1..D2+1, n <= H, Slot(n) \notin O2 \cup C, F2 \subseteq Win(n - 1, H)
        PROVE  Track(C, O2, F2, TRUE, R, D2, H)
    <2> HIDE DEF D2
    <2> QED
      BY <1>4, <1>5, <1>7 DEF Track
  <1>8. CASE ~sup
    <2>1. /\ O \subseteq Win(R, D) /\ F \subseteq Win(R, D) /\ F \cap (O \cup C) = {}
          /\ Slot(D + 1) \notin C
      BY <1>8 DEF Track
    <2>2. m <= D
      <3>1. O \cup F \subseteq Win(R, D)
        BY <2>1
      <3> QED
        BY ONLY <1>0, <3>1, Slot(m) \in O \cup F, OfWindow
    <2>3. PICK n \in R+1..m : /\ Slot(n) \notin O2 \cup C
                              /\ \A k \in R+1..n-1 : Slot(k) \in O2 \cup C
      <3> DEFINE S == {n \in Nat : Slot(n) \notin O2 \cup C}
      <3>1. m \in S /\ R + 1 \in Nat /\ R + 1 <= m
        BY <1>0, <1>6
      <3> HIDE DEF S
      <3>2. PICK n \in R+1..m : n \in S /\ \A k \in R+1..n-1 : k \notin S
        BY ONLY <3>1, m \in Nat, Least
      <3>3. \A k \in R+1..n-1 : k \in Nat
        BY <1>0
      <3> QED
        BY <3>2, <3>3 DEF S
    <2>4. F2 \subseteq Win(n - 1, H)
      <3>1. F2 \subseteq Win(R, D)
        BY <2>1
      <3>2. ASSUME NEW k \in R+1..D, Slot(k) \in F2 PROVE n - 1 < k /\ k <= H
        <4>1. ~(k \in R+1..n-1)
          BY <1>4, <2>1, <2>3, <3>2
        <4> QED
          BY <1>0, <4>1
      <3> DEFINE p == n - 1
      <3>3. p \in Nat
        BY <1>0
      <3>4. \A k \in R+1..D : Slot(k) \in F2 => p < k /\ k <= H
        BY <3>2
      <3> HIDE DEF p
      <3>5. F2 \subseteq Win(p, H)
        BY ONLY <1>0, <3>1, <3>3, <3>4, ToWindow
      <3> QED
        BY ONLY <3>5 DEF p
    <2>5. n \in R+1..D2+1 /\ n <= H
      BY <1>0, <1>1, <2>2
    <2> QED
      BY <1>2, <1>7, <2>3, <2>4, <2>5
  <1>9. CASE sup
    <2>1. PICK k \in R+1..D+1 : k <= H /\ Slot(k) \notin O \cup C /\ F \subseteq Win(k - 1, H)
      BY <1>9 DEF Track
    <2>2. k # m /\ x \in O
      BY <1>9, <2>1
    <2>3. CASE k < m
      <3>1. k \in R+1..D2+1 /\ k <= H /\ F2 \subseteq Win(k - 1, H) /\ Slot(k) \notin O2 \cup C
        BY <1>0, <1>1, <2>1, <2>3
      <3> QED
        BY <1>2, <1>7, <3>1
    <2>4. CASE m < k
      <3>1. m <= D /\ m \in R+1..D2+1
        BY <1>0, <1>1, <2>1, <2>4
      <3>2. Win(k - 1, H) \subseteq Win(m - 1, H)
        <4>1. k - 1 \in Nat /\ m - 1 \in Nat /\ m - 1 <= k - 1 /\ H <= H
          BY <1>0, <2>4
        <4> QED
          BY ONLY <1>0, <4>1, WinMono
      <3>3. F2 \subseteq Win(m - 1, H)
        BY <2>1, <3>2
      <3> QED
        BY <1>2, <1>6, <1>7, <3>1, <3>3
    <2>5. k < m \/ m < k
      BY <1>0, <2>1, <2>2
    <2> QED
      BY <2>3, <2>4, <2>5
  <1> QED
    BY <1>8, <1>9

(* A message is passed over during suppression.                            *)
LEMMA TrackSkip ==
  ASSUME NEW R, NEW D, NEW H, Place(R, D, H),
         NEW C, NEW O, NEW F, Track(C, O, F, TRUE, R, D, H),
         NEW m \in Nat, R < m, m <= H, Slot(m) \in F,
         NEW F2, F2 \subseteq F, F \subseteq F2 \cup {Slot(m)}
  PROVE  /\ Place(R, Back(D, m), H)
         /\ Track(C, O, F2, TRUE, R, Back(D, m), H)
  <1> DEFINE x == Slot(m)
             D2 == Back(D, m)
  <1>0. /\ R \in Nat /\ D \in Nat /\ H \in Nat /\ R <= D /\ D <= H /\ H < R + MaxItem
        /\ MaxItem \in Nat /\ D <= R + MaxItem /\ H <= R + MaxItem /\ R <= R
        /\ m \in R+1..R+MaxItem
    BY PlaceNat
  <1>1. D2 \in Nat /\ R <= D2 /\ D2 <= D /\ (m <= D => D2 = m - 1) /\ (~(m <= D) => D2 = D)
    BY <1>0 DEF Back
  <1>2. Place(R, D2, H)
    BY <1>0, <1>1 DEF Place
  <1>3. \A n \in R+1..R+MaxItem : Slot(n) = x => n = m
    <2>1. SUFFICES ASSUME NEW n \in R+1..R+MaxItem, Slot(n) = x PROVE n = m
      OBVIOUS
    <2>2. n \in Nat /\ n >= 1 /\ m >= 1 /\ n < m + MaxItem /\ m < n + MaxItem /\ Slot(n) = Slot(m)
      BY <1>0, <2>1
    <2> QED
      BY ONLY <2>2, m \in Nat, SlotInj
  <1>4. C \subseteq Win(R + 1, H) /\ O \subseteq Win(R, H) /\ O \cap C = {}
    BY DEF Track
  <1>5. ASSUME NEW n \in R+1..D2 PROVE Slot(n) \in C \cup O \cup F2
    <2>1. n \in R+1..D /\ n \in R+1..R+MaxItem /\ n # m
      BY <1>0, <1>1
    <2>2. Slot(n) \in C \cup O \cup F /\ Slot(n) # x
      BY <1>3, <2>1 DEF Track
    <2> QED
      BY <2>2
  <1>6. PICK k \in R+1..D+1 : k <= H /\ Slot(k) \notin O \cup C /\ F \subseteq Win(k - 1, H)
    BY DEF Track
  <1>7. k <= m
    <2>1. k - 1 \in Nat /\ R <= k - 1
      BY <1>0
    <2>2. k - 1 < m
      BY ONLY <1>0, <1>6, <2>1, Slot(m) \in F, OfWindow
    <2> QED
      BY <1>0, <2>2
  <1>8. k \in R+1..D2+1 /\ F2 \subseteq Win(k - 1, H)
    BY <1>0, <1>1, <1>6, <1>7
  <1>9. Track(C, O, F2, TRUE, R, D2, H)
    <2> HIDE DEF D2
    <2> QED
      BY <1>4, <1>5, <1>6, <1>8 DEF Track
  <1> QED
    BY <1>2, <1>9

-----------------------------------------------------------------------------
(* The ring's record and the callback's.                                   *)

Block == [idx : Idx, len : 1..MaxItem]

CbType == [idx : Idx, todo : 0..MaxItem, len : 0..MaxItem, sentup : BOOLEAN]

Flags == {"PKT_PENDING", "PORT_CLOSED", "SUP_PENDING"}

RingType ==
  [inited : {TRUE}, r : Idx, rd : Idx, inprocess : SUBSET Idx, status_cmpl : SUBSET Idx,
   hole_pending : BOOLEAN, pktinflight : Nat, fetch_pending : Nat, fetchq : Seq(Block),
   bufs : Nat, status : SUBSET Flags, timer : BOOLEAN, resp : {{}}]

(* The slots of a block; of the blocks being fetched; and with those still *)
(* to be handled in the callback.                                          *)
Blk(i, n) == {Plus(i, k) : k \in 0..n-1}

BlkOf(b) == Blk(b.idx, b.len)

Queued(q) == {i \in Idx : \E k \in 1..Len(q) : i \in BlkOf(q[k])}

Fetched(q, c) == Queued(q) \cup Blk(c.idx, c.todo)

(* Each message is fetched once.                                           *)
Disjoint(q, c) ==
  /\ \A j, k \in 1..Len(q) : j < k => BlkOf(q[j]) \cap BlkOf(q[k]) = {}
  /\ \A k \in 1..Len(q) : Blk(c.idx, c.todo) \cap BlkOf(q[k]) = {}

Out(L) == {l.idx : l \in L}

LenOf == [b \in Block |-> b.len]

LEMMA LenOfType == LenOf \in [Block -> Nat] /\ \A b \in Block : LenOf[b] = b.len /\ b.len >= 1
  <1>1. MaxItem \in Nat
    BY Sizes
  <1> QED
    BY <1>1 DEF LenOf, Block

LEMMA BlkType ==
  ASSUME NEW i \in Idx, NEW n \in 0..MaxItem
  PROVE  Blk(i, n) \subseteq Idx
  <1>1. ASSUME NEW k \in 0..n-1 PROVE Plus(i, k) \in Idx
    <2>1. k \in 0..MaxItem
      BY Sizes
    <2> QED
      BY <2>1, PlusIs
  <1> QED
    BY <1>1 DEF Blk

LEMMA BlkWin ==
  ASSUME NEW D \in Nat, NEW n \in 0..MaxItem
  PROVE  Blk(Slot(D + 1), n) = Win(D, D + n)
  <1>1. \A k \in 0..n-1 : Plus(Slot(D + 1), k) = Slot(D + 1 + k)
    <2>1. SUFFICES ASSUME NEW k \in 0..n-1 PROVE Plus(Slot(D + 1), k) = Slot(D + 1 + k)
      OBVIOUS
    <2>2. D + 1 \in Nat /\ D + 1 >= 1 /\ k \in 0..MaxItem
      BY Sizes
    <2> QED
      BY <2>2, SlotPlus
  <1>2. ASSUME NEW i \in Blk(Slot(D + 1), n) PROVE i \in Win(D, D + n)
    <2>1. PICK k \in 0..n-1 : i = Plus(Slot(D + 1), k)
      BY DEF Blk
    <2>2. D + 1 + k \in D+1..D+n
      BY Sizes
    <2> QED
      BY <1>1, <2>1, <2>2 DEF Win
  <1>3. ASSUME NEW i \in Win(D, D + n) PROVE i \in Blk(Slot(D + 1), n)
    <2>1. PICK m \in D+1..D+n : i = Slot(m)
      BY DEF Win
    <2>2. m - (D + 1) \in 0..n-1 /\ D + 1 + (m - (D + 1)) = m
      BY Sizes
    <2> QED
      BY <1>1, <2>1, <2>2 DEF Blk
  <1> QED
    BY <1>2, <1>3

(* One more block.                                                         *)
LEMMA QueueAppend ==
  ASSUME NEW q \in Seq(Block), NEW b \in Block
  PROVE  /\ Append(q, b) \in Seq(Block)
         /\ Queued(Append(q, b)) = Queued(q) \cup BlkOf(b)
         /\ SumOf(Each(Append(q, b), LenOf)) = SumOf(Each(q, LenOf)) + b.len
         /\ Len(Append(q, b)) = Len(q) + 1
         /\ \A c : Disjoint(q, c) /\ BlkOf(b) \cap Fetched(q, c) = {}
                     => Disjoint(Append(q, b), c)
  <1> DEFINE t == Append(q, b)
             n == Len(q)
  <1>1. /\ t \in Seq(Block) /\ Len(t) = n + 1 /\ n \in Nat
        /\ t[n+1] = b /\ \A k \in 1..n : t[k] = q[k] /\ q[k] \in Block
    OBVIOUS
  <1>2. SumOf(Each(t, LenOf)) = SumOf(Each(q, LenOf)) + b.len
    <2>1. SumOf(Each(t, LenOf)) = SumOf(Each(q, LenOf)) + LenOf[b]
      BY LenOfType, EachAppend
    <2> QED
      BY <2>1, LenOfType
  <1>3. BlkOf(b) \subseteq Idx
    <2>1. b.idx \in Idx /\ b.len \in 0..MaxItem
      BY Sizes DEF Block
    <2> QED
      BY <2>1, BlkType DEF BlkOf
  <1>4. \A k \in 1..n : BlkOf(q[k]) \subseteq Idx
    <2>1. SUFFICES ASSUME NEW k \in 1..n PROVE BlkOf(q[k]) \subseteq Idx
      OBVIOUS
    <2>2. q[k] \in Block
      BY <1>1
    <2>3. q[k].idx \in Idx /\ q[k].len \in 0..MaxItem
      BY <2>2, Sizes DEF Block
    <2> QED
      BY <2>3, BlkType DEF BlkOf
  <1> HIDE DEF t, n
  <1>5. Queued(t) = Queued(q) \cup BlkOf(b)
    <2>1. ASSUME NEW i \in Queued(t) PROVE i \in Queued(q) \cup BlkOf(b)
      <3>1. PICK k \in 1..n+1 : i \in BlkOf(t[k])
        BY <1>1 DEF Queued
      <3>2. k = n + 1 \/ k \in 1..n
        BY <1>1
      <3> QED
        BY <1>1, <1>4, <3>1, <3>2 DEF Queued, n
    <2>2. ASSUME NEW i \in Queued(q) PROVE i \in Queued(t)
      <3>1. PICK k \in 1..n : i \in BlkOf(q[k])
        BY DEF Queued, n
      <3>2. k \in 1..n+1 /\ t[k] = q[k] /\ i \in Idx
        BY <1>1 DEF Queued
      <3> QED
        BY <1>1, <3>1, <3>2 DEF Queued
    <2>3. ASSUME NEW i \in BlkOf(b) PROVE i \in Queued(t)
      <3>1. n + 1 \in 1..Len(t) /\ t[n+1] = b /\ i \in Idx
        BY <1>1, <1>3
      <3> QED
        BY <3>1 DEF Queued
    <2> QED
      BY <2>1, <2>2, <2>3
  <1>6. ASSUME NEW c, Disjoint(q, c), BlkOf(b) \cap Fetched(q, c) = {}
        PROVE  Disjoint(t, c)
    <2>1. \A k \in 1..n : BlkOf(q[k]) \subseteq Queued(q)
      BY <1>4 DEF Queued, n
    <2>2. \A k \in 1..n : BlkOf(b) \cap BlkOf(q[k]) = {}
      BY <1>6, <2>1 DEF Fetched
    <2>3. BlkOf(b) \cap Blk(c.idx, c.todo) = {}
      BY <1>6 DEF Fetched
    <2>4. \A k \in 1..n+1 : k \in 1..n \/ k = n + 1
      BY <1>1
    <2>5. \A j, k \in 1..n : j < k => BlkOf(q[j]) \cap BlkOf(q[k]) = {}
      BY <1>6 DEF Disjoint, n
    <2>6. \A k \in 1..n : Blk(c.idx, c.todo) \cap BlkOf(q[k]) = {}
      BY <1>6 DEF Disjoint, n
    <2>7. \A j, k \in 1..n+1 : j < k => BlkOf(t[j]) \cap BlkOf(t[k]) = {}
      <3>1. SUFFICES ASSUME NEW j \in 1..n+1, NEW k \in 1..n+1, j < k
                     PROVE  BlkOf(t[j]) \cap BlkOf(t[k]) = {}
        OBVIOUS
      <3>2. j \in 1..n
        BY <1>1, <3>1
      <3>3. CASE k \in 1..n
        <4>1. BlkOf(q[j]) \cap BlkOf(q[k]) = {} /\ t[j] = q[j] /\ t[k] = q[k]
          BY <1>1, <2>5, <3>1, <3>2, <3>3
        <4> QED
          BY ONLY <4>1
      <3>4. CASE k = n + 1
        <4>1. BlkOf(b) \cap BlkOf(q[j]) = {} /\ t[j] = q[j] /\ t[k] = b
          BY <1>1, <2>2, <3>2, <3>4
        <4>2. BlkOf(b) \cap BlkOf(t[j]) = {}
          BY ONLY <4>1
        <4> QED
          BY ONLY <4>1, <4>2
      <3> QED
        BY <2>4, <3>3, <3>4
    <2>8. \A k \in 1..n+1 : Blk(c.idx, c.todo) \cap BlkOf(t[k]) = {}
      <3>1. SUFFICES ASSUME NEW k \in 1..n+1 PROVE Blk(c.idx, c.todo) \cap BlkOf(t[k]) = {}
        OBVIOUS
      <3>2. CASE k \in 1..n
        BY <1>1, <2>6, <3>2
      <3>3. CASE k = n + 1
        BY <1>1, <2>3, <3>3
      <3> QED
        BY <2>4, <3>2, <3>3
    <2> QED
      BY <1>1, <2>7, <2>8 DEF Disjoint
  <1> QED
    BY <1>1, <1>2, <1>5, <1>6 DEF t, n

(* The callback takes the oldest block.                                    *)
LEMMA QueueTail ==
  ASSUME NEW q \in Seq(Block), q # <<>>
  PROVE  /\ q[1] \in Block /\ Tail(q) \in Seq(Block) /\ Len(Tail(q)) = Len(q) - 1
         /\ Len(q) \in Nat /\ Len(q) >= 1
         /\ Queued(q) = Queued(Tail(q)) \cup BlkOf(q[1])
         /\ SumOf(Each(q, LenOf)) = q[1].len + SumOf(Each(Tail(q), LenOf))
         /\ SumOf(Each(Tail(q), LenOf)) \in Nat
         /\ \A c : Disjoint(q, c) =>
              /\ \A j, k \in 1..Len(Tail(q)) :
                   j < k => BlkOf(Tail(q)[j]) \cap BlkOf(Tail(q)[k]) = {}
              /\ \A k \in 1..Len(Tail(q)) : BlkOf(q[1]) \cap BlkOf(Tail(q)[k]) = {}
  <1> DEFINE t == Tail(q)
             n == Len(q)
  <1>1. /\ t \in Seq(Block) /\ n \in Nat /\ n >= 1 /\ Len(t) = n - 1
        /\ \A k \in 1..n-1 : t[k] = q[k+1]
        /\ \A k \in 1..n : q[k] \in Block
    BY EmptySeq
  <1>2. SumOf(Each(q, LenOf)) = LenOf[q[1]] + SumOf(Each(t, LenOf))
    BY LenOfType, EachTail
  <1>3. SumOf(Each(t, LenOf)) \in Nat
    BY <1>1, LenOfType, EachNat
  <1>4. q[1] \in Block
    BY <1>1
  <1>5. BlkOf(q[1]) \subseteq Idx
    <2>1. q[1].idx \in Idx /\ q[1].len \in 0..MaxItem
      BY <1>4, Sizes DEF Block
    <2> QED
      BY <2>1, BlkType DEF BlkOf
  <1> HIDE DEF t, n
  <1>6. Queued(q) = Queued(t) \cup BlkOf(q[1])
    <2>1. ASSUME NEW i \in Queued(q) PROVE i \in Queued(t) \cup BlkOf(q[1])
      <3>1. PICK k \in 1..n : i \in BlkOf(q[k])
        BY DEF Queued, n
      <3>2. CASE k = 1
        BY <3>1, <3>2
      <3>3. CASE k # 1
        <4>1. k - 1 \in 1..n-1 /\ (k - 1) + 1 = k
          BY <1>1, <3>3
        <4>2. t[k-1] = q[k]
          BY <1>1, <4>1
        <4>3. i \in Idx
          BY DEF Queued
        <4> QED
          BY <1>1, <3>1, <4>1, <4>2, <4>3 DEF Queued
      <3> QED
        BY <3>2, <3>3
    <2>2. ASSUME NEW i \in Queued(t) PROVE i \in Queued(q)
      <3>1. PICK k \in 1..n-1 : i \in BlkOf(t[k])
        BY <1>1 DEF Queued
      <3>2. k + 1 \in 1..n /\ t[k] = q[k+1] /\ i \in Idx
        BY <1>1 DEF Queued
      <3> QED
        BY <3>1, <3>2 DEF Queued, n
    <2>3. ASSUME NEW i \in BlkOf(q[1]) PROVE i \in Queued(q)
      <3>1. 1 \in 1..n /\ i \in Idx
        BY <1>1, <1>5
      <3> QED
        BY <3>1 DEF Queued, n
    <2> QED
      BY <2>1, <2>2, <2>3
  <1>7. ASSUME NEW c, Disjoint(q, c)
        PROVE  /\ \A j, k \in 1..Len(t) : j < k => BlkOf(t[j]) \cap BlkOf(t[k]) = {}
               /\ \A k \in 1..Len(t) : BlkOf(q[1]) \cap BlkOf(t[k]) = {}
    <2>1. \A j, k \in 1..n : j < k => BlkOf(q[j]) \cap BlkOf(q[k]) = {}
      BY <1>7 DEF Disjoint, n
    <2>2. \A k \in 1..n-1 : t[k] = q[k+1] /\ k + 1 \in 1..n /\ 1 < k + 1 /\ 1 \in 1..n
      BY <1>1
    <2>3. \A j, k \in 1..n-1 : j < k => j + 1 < k + 1
      OBVIOUS
    <2>4. \A j, k \in 1..n-1 : j < k => BlkOf(t[j]) \cap BlkOf(t[k]) = {}
      BY ONLY <2>1, <2>2, <2>3
    <2>5. \A k \in 1..n-1 : BlkOf(q[1]) \cap BlkOf(t[k]) = {}
      BY ONLY <2>1, <2>2
    <2> QED
      BY ONLY <1>1, <2>4, <2>5
  <1>8. LenOf[q[1]] = q[1].len
    BY <1>4, LenOfType
  <1>9. SumOf(Each(q, LenOf)) = q[1].len + SumOf(Each(t, LenOf))
    BY ONLY <1>2, <1>8
  <1>10. \A c : Disjoint(q, c) =>
           /\ \A j, k \in 1..Len(t) : j < k => BlkOf(t[j]) \cap BlkOf(t[k]) = {}
           /\ \A k \in 1..Len(t) : BlkOf(q[1]) \cap BlkOf(t[k]) = {}
    BY ONLY <1>7
  <1>11. t \in Seq(Block) /\ Len(t) = Len(q) - 1 /\ Len(q) \in Nat /\ Len(q) >= 1
    BY ONLY <1>1 DEF n
  <1> QED
    BY ONLY <1>3, <1>4, <1>6, <1>9, <1>10, <1>11 DEF t

LEMMA QueueNone ==
  ASSUME NEW q \in Seq(Block)
  PROVE  /\ SumOf(Each(q, LenOf)) \in Nat
         /\ SumOf(Each(q, LenOf)) = 0 => q = <<>>
         /\ q = <<>> => Queued(q) = {} /\ Len(q) = 0 /\ \A c : Disjoint(q, c)
  <1>1. SumOf(Each(q, LenOf)) \in Nat
    BY LenOfType, EachNat
  <1>2. ASSUME q # <<>>, SumOf(Each(q, LenOf)) = 0 PROVE FALSE
    <2>1. /\ q[1] \in Block /\ SumOf(Each(Tail(q), LenOf)) \in Nat
          /\ SumOf(Each(q, LenOf)) = q[1].len + SumOf(Each(Tail(q), LenOf))
      BY <1>2, QueueTail
    <2>2. q[1].len \in Nat /\ q[1].len >= 1
      BY <2>1, Sizes DEF Block
    <2> QED
      BY ONLY <1>2, <2>1, <2>2
  <1>3. ASSUME q = <<>> PROVE Queued(q) = {} /\ Len(q) = 0 /\ \A c : Disjoint(q, c)
    <2>1. Len(q) = 0
      BY <1>3
    <2>2. 1..Len(q) = {}
      BY ONLY <2>1
    <2> QED
      BY ONLY <2>1, <2>2 DEF Queued, Disjoint
  <1> QED
    BY ONLY <1>1, <1>2, <1>3

(* The callback goes on to the next message.                               *)
LEMMA NextInBlock ==
  ASSUME NEW c \in CbType, c.todo > 0, NEW b \in BOOLEAN
  PROVE  LET d == [c EXCEPT !.idx = Plus(@, 1), !.todo = @ - 1, !.sentup = b]
         IN  /\ d \in CbType /\ d.len = c.len /\ d.todo = c.todo - 1
             /\ Blk(d.idx, d.todo) \subseteq Blk(c.idx, c.todo) \ {c.idx}
             /\ Blk(c.idx, c.todo) \subseteq Blk(d.idx, d.todo) \cup {c.idx}
             /\ c.idx \in Blk(c.idx, c.todo)
  <1> DEFINE i == c.idx
             n == c.todo
             j == Plus(i, 1)
             p == n - 1
             d == [c EXCEPT !.idx = j, !.todo = p, !.sentup = b]
  <1>1. i \in Idx /\ n \in 1..MaxItem /\ p \in 0..MaxItem /\ MaxItem \in Nat /\ MaxItem >= 2
    BY Sizes DEF CbType
  <1>2. j \in Idx /\ j = IF i + 1 < MaxItem THEN i + 1 ELSE (i + 1) - MaxItem
    <2>1. 1 \in 0..MaxItem
      BY <1>1
    <2> QED
      BY <1>1, <2>1, PlusIs
  <1>3. d \in CbType /\ d.len = c.len /\ d.todo = p /\ d.idx = j
    <2> HIDE DEF i, n, j, p
    <2> QED
      BY <1>1, <1>2 DEF CbType
  <1>4. \A k \in 0..p-1 : Plus(j, k) = Plus(i, k + 1) /\ Plus(j, k) # i /\ k + 1 \in 0..n-1
    <2>1. SUFFICES ASSUME NEW k \in 0..p-1
                   PROVE  Plus(j, k) = Plus(i, k + 1) /\ Plus(j, k) # i /\ k + 1 \in 0..n-1
      OBVIOUS
    <2>2. k \in 0..MaxItem /\ k + 1 \in 0..MaxItem /\ k + 1 \in 0..n-1
      BY <1>1
    <2>3. Plus(j, k) = IF j + k < MaxItem THEN j + k ELSE (j + k) - MaxItem
      BY <1>2, <2>2, PlusIs
    <2>4. Plus(i, k + 1) = IF i + (k + 1) < MaxItem THEN i + (k + 1) ELSE (i + (k + 1)) - MaxItem
      BY <1>1, <2>2, PlusIs
    <2>5. i \in Nat /\ j \in Nat /\ i < MaxItem /\ k < MaxItem - 1 /\ k \in Nat
      BY <1>1, <1>2, <2>1 DEF Idx
    <2> HIDE DEF i, j, n, p
    <2>6. Plus(j, k) = Plus(i, k + 1) /\ Plus(j, k) # i
      BY ONLY <1>1, <1>2, <2>3, <2>4, <2>5
    <2> QED
      BY <2>2, <2>6
  <1>5. Plus(i, 0) = i
    <2>1. 0 \in 0..MaxItem /\ i \in Nat /\ i < MaxItem
      BY <1>1 DEF Idx
    <2>2. Plus(i, 0) = IF i + 0 < MaxItem THEN i + 0 ELSE (i + 0) - MaxItem
      BY ONLY <1>1, <2>1, PlusIs
    <2> QED
      BY <2>1, <2>2
  <1>6. i \in Blk(i, n)
    <2>1. 0 \in 0..n-1
      BY <1>1
    <2> QED
      BY <1>5, <2>1 DEF Blk
  <1>7. Blk(j, p) \subseteq Blk(i, n) \ {i}
    <2> HIDE DEF i, j, n, p
    <2> QED
      BY <1>4 DEF Blk
  <1>8. Blk(i, n) \subseteq Blk(j, p) \cup {i}
    <2>1. ASSUME NEW k \in 0..n-1 PROVE Plus(i, k) \in Blk(j, p) \cup {i}
      <3>1. CASE k = 0
        BY <1>5, <3>1
      <3>2. CASE k # 0
        <4>1. k - 1 \in 0..p-1 /\ (k - 1) + 1 = k
          BY <1>1, <3>2
        <4>2. Plus(j, k - 1) = Plus(i, k)
          BY <1>4, <4>1
        <4> HIDE DEF i, j, n, p
        <4> QED
          BY <4>1, <4>2 DEF Blk
      <3> QED
        BY <3>1, <3>2
    <2> HIDE DEF i, j, n, p
    <2> QED
      BY <2>1 DEF Blk
  <1> HIDE DEF d
  <1>9. /\ d \in CbType /\ d.len = c.len /\ d.todo = c.todo - 1
        /\ Blk(d.idx, d.todo) \subseteq Blk(c.idx, c.todo) \ {c.idx}
        /\ Blk(c.idx, c.todo) \subseteq Blk(d.idx, d.todo) \cup {c.idx}
        /\ c.idx \in Blk(c.idx, c.todo)
    BY <1>3, <1>6, <1>7, <1>8
  <1> QED
    BY <1>9 DEF d

-----------------------------------------------------------------------------
(* The invariant of the ring's record, the callback and the packets with   *)
(* wl, when P messages are posted.                                         *)

(* Requests are not made yet, and the counts of 8 and 16 bits suffice.     *)
Calm == Requests = {} /\ LfragCnt < FetchMod /\ LfragCnt < 65536

(* What is being fetched or is with wl has an lfrag, taken or spoken for.  *)
Counts(f, c, L) ==
  /\ f.fetch_pending = SumOf(Each(f.fetchq, LenOf)) + c.len
  /\ f.fetch_pending <= LfragCnt
  /\ IsFiniteSet(L) /\ f.pktinflight = Cardinality(L) /\ f.pktinflight <= LfragCnt
  /\ f.bufs = Len(f.fetchq) + (IF c.len # 0 THEN 1 ELSE 0) /\ f.bufs <= BufCnt
  /\ c.todo <= c.len /\ (c.len = 0 => c = NoCb)

Indexes(f, P, R, D, H) ==
  /\ Place(R, D, H) /\ P \in Nat /\ H <= P /\ P < R + MaxItem
  /\ f.r = Slot(R + 1) /\ f.rd = Slot(D + 1) /\ f.inprocess = Win(R, H)
  /\ ~f.hole_pending => f.status_cmpl = {}

Sup(f) == "SUP_PENDING" \in f.status

(* sup: suppression lasts, or could.                                       *)
Core(f, c, L, sup, P, R, D, H) ==
  /\ f \in RingType /\ c \in CbType
  /\ Indexes(f, P, R, D, H)
  /\ Track(f.status_cmpl, Out(L), Fetched(f.fetchq, c), sup, R, D, H)
  /\ ~sup => Disjoint(f.fetchq, c)
  /\ Counts(f, c, L)

(* The flags and the timer do not matter to it.                            *)
Same(f, g) ==
  /\ g.r = f.r /\ g.rd = f.rd /\ g.inprocess = f.inprocess
  /\ g.status_cmpl = f.status_cmpl /\ g.hole_pending = f.hole_pending
  /\ g.pktinflight = f.pktinflight /\ g.fetch_pending = f.fetch_pending
  /\ g.fetchq = f.fetchq /\ g.bufs = f.bufs

LEMMA SameCore ==
  ASSUME NEW f, NEW g, g \in RingType, Same(f, g), NEW c, NEW L, NEW sup, NEW P,
         NEW R, NEW D, NEW H, Core(f, c, L, sup, P, R, D, H)
  PROVE  Core(g, c, L, sup, P, R, D, H)
  BY DEF Core, Same, Indexes, Counts

LEMMA FlagOps ==
  ASSUME NEW f \in RingType, NEW flag \in Flags
  PROVE  /\ Set(f, flag) \in RingType /\ Same(f, Set(f, flag))
         /\ Set(f, flag).status = f.status \cup {flag}
         /\ Clr(f, flag) \in RingType /\ Same(f, Clr(f, flag))
         /\ Clr(f, flag).status = f.status \ {flag}
  <1> DEFINE s == f.status \cup {flag}
             t == f.status \ {flag}
  <1>1. s \in SUBSET Flags /\ t \in SUBSET Flags
    BY DEF RingType
  <1> HIDE DEF s, t
  <1>2. [f EXCEPT !.status = s] \in RingType /\ [f EXCEPT !.status = s].status = s
        /\ Same(f, [f EXCEPT !.status = s])
    BY <1>1 DEF RingType, Same
  <1>3. [f EXCEPT !.status = t] \in RingType /\ [f EXCEPT !.status = t].status = t
        /\ Same(f, [f EXCEPT !.status = t])
    BY <1>1 DEF RingType, Same
  <1> QED
    BY <1>2, <1>3 DEF s, t, Set, Clr

LEMMA TimerOps ==
  ASSUME NEW f \in RingType, NEW b \in BOOLEAN
  PROVE  LET g == [f EXCEPT !.timer = b]
         IN  g \in RingType /\ Same(f, g) /\ g.status = f.status
  BY DEF RingType, Same

(* The scheduler's timer is started.                                       *)
LEMMA Scheduled ==
  ASSUME NEW f \in RingType
  PROVE  LET g == pciedev_schedule_flow_ring_read_buffer(f)
         IN  g \in RingType /\ Same(f, g) /\ Sup(g) = Sup(f)
  <1> DEFINE h == Set(f, "PKT_PENDING")
             k == [h EXCEPT !.timer = TRUE]
             g == pciedev_schedule_flow_ring_read_buffer(f)
  <1>1. h \in RingType /\ Same(f, h) /\ h.status = f.status \cup {"PKT_PENDING"}
    BY FlagOps DEF Flags
  <1> HIDE DEF h
  <1>2. k \in RingType /\ Same(h, k) /\ k.status = h.status
    BY <1>1, TimerOps
  <1>3. Same(f, k) /\ Sup(k) = Sup(f)
    BY <1>1, <1>2 DEF Same, Sup
  <1>4. Same(f, f)
    BY DEF Same
  <1>5. g = f \/ g = k
    BY DEF pciedev_schedule_flow_ring_read_buffer, h
  <1> HIDE DEF g, k
  <1>6. g \in RingType /\ Same(f, g) /\ Sup(g) = Sup(f)
    BY <1>2, <1>3, <1>4, <1>5
  <1> QED
    BY <1>6 DEF g

(* Nothing is flushed.                                                     *)
LEMMA NoFlush ==
  ASSUME NEW f \in RingType
  PROVE  ~Has(f, "FLUSH_PENDING") /\ pciedev_process_pending_flring_resp(f) = f
  <1>1. "FLUSH_PENDING" \notin Flags
    BY DEF Flags
  <1>2. ~Has(f, "FLUSH_PENDING")
    BY <1>1 DEF RingType, Has
  <1> QED
    BY <1>2 DEF pciedev_process_pending_flring_resp

(* The counts are 0 when nothing is with wl and nothing is being fetched.  *)
LEMMA Nothing ==
  ASSUME NEW f \in RingType, NEW c \in CbType, NEW L, Counts(f, c, L), NothingOut(f)
  PROVE  Out(L) = {} /\ Fetched(f.fetchq, c) = {} /\ Disjoint(f.fetchq, c)
  <1>1. f.fetchq \in Seq(Block) /\ c.len \in Nat
    BY Sizes DEF RingType, CbType
  <1>2. SumOf(Each(f.fetchq, LenOf)) \in Nat
    BY <1>1, QueueNone
  <1>3. SumOf(Each(f.fetchq, LenOf)) = 0 /\ c.len = 0
    BY <1>1, <1>2 DEF Counts, NothingOut
  <1>4. Queued(f.fetchq) = {} /\ Disjoint(f.fetchq, c)
    BY <1>1, <1>3, QueueNone
  <1>5. Blk(c.idx, c.todo) = {}
    <2>1. c.todo = 0
      BY <1>3 DEF Counts, NoCb
    <2> QED
      BY <2>1 DEF Blk
  <1>6. L = {}
    BY FS_EmptySet DEF Counts, NothingOut
  <1> QED
    BY <1>4, <1>5, <1>6 DEF Out, Fetched

LEMMA Cleared ==
  ASSUME NEW f, NEW c, NEW L, NEW sup \in BOOLEAN, NEW P, NEW R, NEW D, NEW H,
         Core(f, c, L, sup, P, R, D, H),
         sup = Sup(f) \/ (sup /\ NothingOut(f))
  PROVE  LET g == ClearSup(f)
         IN  Core(g, c, L, Sup(g), P, R, D, H) /\ Same(f, g)
  <1> DEFINE k == Clr(f, "SUP_PENDING")
             g == ClearSup(f)
  <1>1. f \in RingType /\ c \in CbType /\ Counts(f, c, L) /\ Place(R, D, H)
        /\ Track(f.status_cmpl, Out(L), Fetched(f.fetchq, c), sup, R, D, H)
    BY DEF Core, Indexes
  <1>2. k \in RingType /\ Same(f, k) /\ ~Sup(k)
    BY <1>1, FlagOps DEF Flags, Sup
  <1> HIDE DEF k
  <1>3. CASE NothingOut(f)
    <2>1. Out(L) = {} /\ Fetched(f.fetchq, c) = {} /\ Disjoint(f.fetchq, c)
      BY <1>1, <1>3, Nothing
    <2>2. Track(f.status_cmpl, {}, {}, sup, R, D, H)
      BY <1>1, <2>1
    <2>3. Track(f.status_cmpl, {}, {}, FALSE, R, D, H)
      <3>1. CASE sup
        BY <1>1, <2>2, <3>1, TrackClear
      <3>2. CASE ~sup
        BY <2>2, <3>2
      <3> QED
        BY <3>1, <3>2
    <2>4. Track(f.status_cmpl, Out(L), Fetched(f.fetchq, c), FALSE, R, D, H)
      BY <2>1, <2>3
    <2>5. Core(f, c, L, FALSE, P, R, D, H)
      BY <2>1, <2>4 DEF Core
    <2>6. Core(k, c, L, FALSE, P, R, D, H)
      BY <1>2, <2>5, SameCore
    <2>7. g = k
      BY <1>3 DEF ClearSup, k
    <2>8. Sup(k) = FALSE
      BY <1>2 DEF Sup
    <2> HIDE DEF g
    <2>9. Core(g, c, L, Sup(g), P, R, D, H) /\ Same(f, g)
      BY <1>2, <2>6, <2>7, <2>8
    <2> QED
      BY <2>9 DEF g
  <1>4. CASE ~NothingOut(f)
    <2>1. g = f /\ sup = Sup(f)
      BY <1>4 DEF ClearSup
    <2>2. Same(f, f)
      BY DEF Same
    <2> HIDE DEF g
    <2>3. Core(g, c, L, Sup(g), P, R, D, H) /\ Same(f, g)
      BY <2>1, <2>2
    <2> QED
      BY <2>3 DEF g
  <1> QED
    BY <1>3, <1>4

(* The fetch index goes back to message m.                                 *)
LEMMA Adjusted ==
  ASSUME NEW f \in RingType, NEW R, NEW D, NEW H, Place(R, D, H),
         f.r = Slot(R + 1), f.rd = Slot(D + 1), NEW m \in Nat, R < m, m <= H
  PROVE  LET g == pciedev_adjust_flow_fetch_ptr(f, Slot(m))
         IN  /\ g \in RingType /\ g.rd = Slot(Back(D, m) + 1) /\ g.status = f.status
             /\ g.r = f.r /\ g.inprocess = f.inprocess
             /\ g.status_cmpl = f.status_cmpl /\ g.hole_pending = f.hole_pending
             /\ g.pktinflight = f.pktinflight /\ g.fetch_pending = f.fetch_pending
             /\ g.fetchq = f.fetchq /\ g.bufs = f.bufs
  <1> DEFINE x == Slot(m)
             i == Slot(R + 1)
             j == Slot(D + 1)
             g == pciedev_adjust_flow_fetch_ptr(f, x)
             k == [f EXCEPT !.rd = x]
             a == m - (R + 1)
             b == D - R
  <1>0. /\ R \in Nat /\ D \in Nat /\ H \in Nat /\ R <= D /\ D <= H /\ H < R + MaxItem
        /\ MaxItem \in Nat /\ R + 1 \in Nat /\ R + 1 >= 1
    BY PlaceNat
  <1>1. /\ a \in 0..MaxItem /\ b \in 0..MaxItem /\ a < MaxItem /\ b < MaxItem
        /\ m = R + 1 + a /\ D + 1 = R + 1 + b /\ (m <= D <=> a < b)
    BY <1>0
  <1>2. i \in Idx /\ x \in Idx
    BY <1>0, SlotType
  <1>3. x = Plus(i, a) /\ j = Plus(i, b)
    BY <1>0, <1>1, SlotPlus
  <1>4. k \in RingType /\ k.rd = x /\ k.status = f.status
        /\ k.r = f.r /\ k.inprocess = f.inprocess
        /\ k.status_cmpl = f.status_cmpl /\ k.hole_pending = f.hole_pending
        /\ k.pktinflight = f.pktinflight /\ k.fetch_pending = f.fetch_pending
        /\ k.fetchq = f.fetchq /\ k.bufs = f.bufs
    <2> HIDE DEF x
    <2> QED
      BY <1>2 DEF RingType
  <1>5. f.r = i /\ f.rd = j
    OBVIOUS
  <1>6. m <= D => Back(D, m) + 1 = m
    BY <1>0 DEF Back
  <1>7. ~(m <= D) => Back(D, m) = D
    BY DEF Back
  <1> HIDE DEF x, i, j, a, b, k
  <1>8. x = (IF i + a < MaxItem THEN i + a ELSE (i + a) - MaxItem)
    BY ONLY <1>1, <1>2, <1>3, PlusIs
  <1>9. j = (IF i + b < MaxItem THEN i + b ELSE (i + b) - MaxItem)
    BY ONLY <1>1, <1>2, <1>3, PlusIs
  <1>10. i \in Nat /\ i < MaxItem
    BY <1>0, <1>2 DEF Idx
  <1>11. (IF j >= i THEN x >= i /\ x < j ELSE x < j \/ x >= i) <=> a < b
    BY ONLY <1>0, <1>1, <1>8, <1>9, <1>10
  <1>12. g = IF a < b THEN k ELSE f
    BY <1>5, <1>11 DEF pciedev_adjust_flow_fetch_ptr, k
  <1> HIDE DEF g
  <1>13. CASE m <= D
    <2>1. g = k /\ k.rd = Slot(Back(D, m) + 1)
      BY <1>1, <1>4, <1>6, <1>12, <1>13 DEF x
    <2> QED
      BY <1>4, <2>1 DEF g, x
  <1>14. CASE ~(m <= D)
    <2>1. g = f /\ f.rd = Slot(Back(D, m) + 1)
      BY <1>1, <1>5, <1>7, <1>12, <1>14 DEF j
    <2> QED
      BY <2>1 DEF g, x
  <1> QED
    BY <1>13, <1>14

-----------------------------------------------------------------------------
(* The status of a packet.                                                 *)

(* The in-flight count goes down, and up and down, without passing 0.      *)
LEMMA Decrement ==
  ASSUME NEW n \in Nat, n <= 65535
  PROVE  /\ n >= 1 => (n + 65535) % 65536 = n - 1
         /\ (((n + 1) % 65536) + 65535) % 65536 = n
         /\ n + 1 <= 65535 => (n + 1) % 65536 = n + 1
  <1> DEFINE M == 65536
  <1>0. M \in Nat /\ M > 0 /\ M = 65536
    OBVIOUS
  <1> HIDE DEF M
  <1>1. \A a \in Nat : a < M + M => a % M = IF a < M THEN a ELSE a - M
    BY ONLY <1>0, ModOnce
  <1>2. n >= 1 => (n + 65535) % M = n - 1
    <2>1. n + 65535 \in Nat /\ n + 65535 < M + M
      BY <1>0
    <2>2. (n + 65535) % M = IF n + 65535 < M THEN n + 65535 ELSE (n + 65535) - M
      BY ONLY <1>1, <2>1
    <2> QED
      BY <1>0, <2>2
  <1>3. (n + 1) % M = IF n + 1 < M THEN n + 1 ELSE (n + 1) - M
    <2>1. n + 1 \in Nat /\ n + 1 < M + M
      BY <1>0
    <2> QED
      BY ONLY <1>1, <2>1
  <1>4. (((n + 1) % M) + 65535) % M = n
    <2> DEFINE a == (n + 1) % M
               b == a + 65535
    <2>1. a \in Nat /\ b \in Nat /\ b < M + M /\ (b < M => b = n) /\ (~(b < M) => b - M = n)
      BY ONLY <1>0, <1>3, n \in Nat, n <= 65535
    <2> HIDE DEF a, b
    <2>2. b % M = n
      BY ONLY <1>1, <2>1
    <2> QED
      BY ONLY <2>2 DEF a, b
  <1>5. n + 1 <= 65535 => (n + 1) % M = n + 1
    BY <1>0, <1>3
  <1> QED
    BY <1>2, <1>4, <1>5 DEF M

(* The status of the packet in slot i, on the ring f with the count down.  *)
Updated(f, s, i) ==
  LET fast == s = "DISCARD" /\ ~f.hole_pending /\ f.r = i
      sup  == ~Has(f, "FLUSH_PENDING") /\ s \in Suppressing
      dup  == i \in f.status_cmpl \/ i \notin f.inprocess
      moved ==
        IF fast
        THEN [f EXCEPT !.inprocess = @ \ {i}, !.status_cmpl = @ \ {i}, !.r = Plus(@, 1)]
        ELSE IF sup
        THEN pciedev_adjust_flow_fetch_ptr(
               IF NothingOut(f) THEN f ELSE Set(f, "SUP_PENDING"), i)
        ELSE IF dup THEN f
        ELSE Complete(f, i)
  IN  [ring |-> pciedev_schedule_flow_ring_read_buffer(
                  pciedev_process_pending_flring_resp(ClearSup(moved))),
       ok   |-> fast \/ ~(sup \/ dup)]

LEMMA UpdateIs ==
  ASSUME NEW f0, NEW s, NEW i
  PROVE  pciedev_update_txstatus(f0, s, i) =
           Updated([f0 EXCEPT !.pktinflight = (@ + 65535) % 65536], s, i)
  BY DEF pciedev_update_txstatus, Updated

LEMMA InflightOps ==
  ASSUME NEW f0 \in RingType, NEW n \in Nat
  PROVE  LET f == [f0 EXCEPT !.pktinflight = n]
         IN  /\ f \in RingType /\ f.r = f0.r /\ f.rd = f0.rd /\ f.inprocess = f0.inprocess
             /\ f.status_cmpl = f0.status_cmpl /\ f.hole_pending = f0.hole_pending
             /\ f.pktinflight = n /\ f.fetch_pending = f0.fetch_pending
             /\ f.fetchq = f0.fetchq /\ f.bufs = f0.bufs /\ f.status = f0.status
  BY DEF RingType

LEMMA UpdateSuppress ==
  ASSUME NEW f \in RingType, NEW i
  PROVE  LET g == pciedev_adjust_flow_fetch_ptr(
                    IF NothingOut(f) THEN f ELSE Set(f, "SUP_PENDING"), i)
         IN  Updated(f, "SUPPRESS", i) =
               [ring |-> pciedev_schedule_flow_ring_read_buffer(
                           pciedev_process_pending_flring_resp(ClearSup(g))),
                ok |-> FALSE]
  <1>1. ~Has(f, "FLUSH_PENDING")
    BY NoFlush
  <1>2. "SUPPRESS" # "DISCARD" /\ "SUPPRESS" \in Suppressing
    BY DEF Suppressing
  <1> QED
    BY <1>1, <1>2 DEF Updated

(* What a final status does to the ring.                                   *)
Moved(f, s, i) ==
  IF s = "DISCARD" /\ ~f.hole_pending /\ f.r = i
  THEN [f EXCEPT !.inprocess = @ \ {i}, !.status_cmpl = @ \ {i}, !.r = Plus(@, 1)]
  ELSE Complete(f, i)

LEMMA UpdateFinal ==
  ASSUME NEW f \in RingType, NEW i, NEW s \in Final,
         i \in f.inprocess, i \notin f.status_cmpl
  PROVE  Updated(f, s, i) =
           [ring |-> pciedev_schedule_flow_ring_read_buffer(
                       pciedev_process_pending_flring_resp(ClearSup(Moved(f, s, i)))),
            ok |-> TRUE]
  <1>1. s \notin Suppressing
    BY DEF Suppressing, Final
  <1> QED
    BY <1>1 DEF Updated, Moved

(* The packet of message m came back suppressed, or found no lfrag.        *)
LEMMA Suppressed ==
  ASSUME NEW f0, NEW c, NEW L, NEW P, NEW R, NEW D, NEW H,
         Core(f0, c, L, Sup(f0), P, R, D, H),
         NEW n \in Nat, n <= LfragCnt, NEW L2, IsFiniteSet(L2), n = Cardinality(L2),
         NEW m \in Nat, R < m, m <= H, Slot(m) \notin f0.status_cmpl,
         Sup(f0) => Slot(m) \in Out(L),
         Slot(m) \in Out(L) \cup Fetched(f0.fetchq, c),
         Out(L2) = Out(L) \ {Slot(m)},
         NEW c2 \in CbType, c2.len = c.len, c2.todo <= c2.len, c2.len = 0 => c2 = NoCb,
         Fetched(f0.fetchq, c2) \subseteq Fetched(f0.fetchq, c),
         Fetched(f0.fetchq, c) \subseteq Fetched(f0.fetchq, c2) \cup {Slot(m)}
  PROVE  LET f == [f0 EXCEPT !.pktinflight = n]
             g == pciedev_adjust_flow_fetch_ptr(
                    IF NothingOut(f) THEN f ELSE Set(f, "SUP_PENDING"), Slot(m))
             h == pciedev_schedule_flow_ring_read_buffer(
                    pciedev_process_pending_flring_resp(ClearSup(g)))
         IN  /\ Core(h, c2, L2, Sup(h), P, R, Back(D, m), H)
             /\ h.status_cmpl = f0.status_cmpl /\ h.inprocess = f0.inprocess
  <1> DEFINE f == [f0 EXCEPT !.pktinflight = n]
             e == IF NothingOut(f) THEN f ELSE Set(f, "SUP_PENDING")
             g == pciedev_adjust_flow_fetch_ptr(e, Slot(m))
             k == ClearSup(g)
             h == pciedev_schedule_flow_ring_read_buffer(
                    pciedev_process_pending_flring_resp(k))
             D2 == Back(D, m)
  <1>1. /\ f0 \in RingType /\ c \in CbType /\ Counts(f0, c, L) /\ Indexes(f0, P, R, D, H)
        /\ Place(R, D, H) /\ f0.r = Slot(R + 1) /\ f0.rd = Slot(D + 1)
        /\ Track(f0.status_cmpl, Out(L), Fetched(f0.fetchq, c), Sup(f0), R, D, H)
    BY DEF Core, Indexes
  <1>2. /\ f \in RingType /\ f.r = f0.r /\ f.rd = f0.rd /\ f.inprocess = f0.inprocess
        /\ f.status_cmpl = f0.status_cmpl /\ f.hole_pending = f0.hole_pending
        /\ f.pktinflight = n /\ f.fetch_pending = f0.fetch_pending
        /\ f.fetchq = f0.fetchq /\ f.bufs = f0.bufs /\ f.status = f0.status
    BY <1>1, InflightOps
  <1> HIDE DEF f
  <1>3. e \in RingType /\ Same(f, e) /\ (Sup(e) \/ NothingOut(e))
    <2>1. CASE NothingOut(f)
      BY <1>2, <2>1 DEF Same
    <2>2. CASE ~NothingOut(f)
      <3>1. e = Set(f, "SUP_PENDING")
        BY <2>2
      <3> HIDE DEF e
      <3>2. e \in RingType /\ Same(f, e) /\ e.status = f.status \cup {"SUP_PENDING"}
        BY <1>2, <3>1, FlagOps DEF Flags
      <3> QED
        BY <3>2 DEF Sup
    <2> QED
      BY <2>1, <2>2
  <1> HIDE DEF e
  <1>4. e.r = Slot(R + 1) /\ e.rd = Slot(D + 1)
    BY <1>1, <1>2, <1>3 DEF Same
  <1>5. /\ g \in RingType /\ g.rd = Slot(D2 + 1) /\ g.status = e.status
        /\ g.r = e.r /\ g.inprocess = e.inprocess
        /\ g.status_cmpl = e.status_cmpl /\ g.hole_pending = e.hole_pending
        /\ g.pktinflight = e.pktinflight /\ g.fetch_pending = e.fetch_pending
        /\ g.fetchq = e.fetchq /\ g.bufs = e.bufs
    BY <1>1, <1>3, <1>4, Adjusted
  <1> HIDE DEF g
  <1>6. Place(R, D2, H) /\ Track(f0.status_cmpl, Out(L2), Fetched(f0.fetchq, c2), TRUE, R, D2, H)
    <2>1. Sup(f0) \in BOOLEAN
      BY DEF Sup
    <2> QED
      BY <1>1, <2>1, TrackSuppress
  <1> HIDE DEF D2
  <1>7. g.fetchq = f0.fetchq /\ g.status_cmpl = f0.status_cmpl /\ g.inprocess = f0.inprocess
    BY <1>2, <1>3, <1>5 DEF Same
  <1>8. Indexes(g, P, R, D2, H)
    BY <1>1, <1>2, <1>3, <1>5, <1>6 DEF Indexes, Same
  <1>9. Counts(g, c2, L2)
    BY <1>1, <1>2, <1>3, <1>5 DEF Counts, Same
  <1>10. Core(g, c2, L2, TRUE, P, R, D2, H)
    BY <1>5, <1>6, <1>7, <1>8, <1>9 DEF Core
  <1>11. Sup(g) = TRUE \/ NothingOut(g)
    BY <1>3, <1>5 DEF Sup, NothingOut
  <1>12. Core(k, c2, L2, Sup(k), P, R, D2, H) /\ Same(g, k)
    BY <1>10, <1>11, Cleared
  <1> HIDE DEF k
  <1>13. k \in RingType
    BY <1>12 DEF Core
  <1>14. h = pciedev_schedule_flow_ring_read_buffer(k)
    BY <1>13, NoFlush
  <1>15. h \in RingType /\ Same(k, h) /\ Sup(h) = Sup(k)
    BY <1>13, <1>14, Scheduled
  <1> HIDE DEF h
  <1>16. Core(h, c2, L2, Sup(k), P, R, D2, H)
    BY <1>12, <1>15, SameCore
  <1>17. /\ Core(h, c2, L2, Sup(h), P, R, D2, H)
         /\ h.status_cmpl = f0.status_cmpl /\ h.inprocess = f0.inprocess
    BY <1>7, <1>12, <1>15, <1>16 DEF Same
  <1> QED
    BY <1>17 DEF h, k, g, e, f, D2

(* The read index moves on over the window of messages up to R2.           *)
LEMMA WinMinus ==
  ASSUME NEW R \in Nat, NEW R2 \in Nat, NEW H \in Nat, R <= R2, R2 <= H, H <= R + MaxItem
  PROVE  Win(R, H) \ Win(R, R2) = Win(R2, H)
  <1>1. MaxItem \in Nat
    BY Sizes
  <1>2. ASSUME NEW i \in Win(R, H), i \notin Win(R, R2) PROVE i \in Win(R2, H)
    <2>1. PICK n \in R+1..H : i = Slot(n)
      BY <1>2 DEF Win
    <2>2. n \notin R+1..R2
      BY <1>2, <2>1 DEF Win
    <2>3. n \in R2+1..H
      BY <2>1, <2>2
    <2> QED
      BY <2>1, <2>3 DEF Win
  <1>3. ASSUME NEW i \in Win(R2, H) PROVE i \in Win(R, H) /\ i \notin Win(R, R2)
    <2>1. PICK n \in R2+1..H : i = Slot(n)
      BY <1>3 DEF Win
    <2>2. n \in R+1..H /\ n \in Nat /\ R < n /\ n <= R + MaxItem /\ ~(n <= R2) /\ R <= R
          /\ R2 <= R + MaxItem
      BY <1>1
    <2>3. i \in Win(R, H)
      BY <2>1, <2>2 DEF Win
    <2>4. Slot(n) \in Win(R, R2) <=> R < n /\ n <= R2
      BY ONLY <2>2, R \in Nat, R2 \in Nat, InWin
    <2> QED
      BY <2>1, <2>2, <2>3, <2>4
  <1> QED
    BY <1>2, <1>3

(* A final status of message m: the read index moves on to the first       *)
(* message that is not complete.                                           *)
LEMMA MovedOn ==
  ASSUME NEW f \in RingType, NEW R, NEW D, NEW H, Place(R, D, H),
         f.r = Slot(R + 1), f.inprocess = Win(R, H), ~f.hole_pending => f.status_cmpl = {},
         NEW m \in Nat, R < m, m <= H, NEW s,
         \E k \in R+1..D+1 : Slot(k) \notin f.status_cmpl \cup {Slot(m)}
  PROVE  LET C == f.status_cmpl \cup {Slot(m)}
             g == Moved(f, s, Slot(m))
         IN  \E R2 \in Nat :
               /\ R <= R2 /\ R2 <= D
               /\ \A n \in R+1..R2 : Slot(n) \in C
               /\ Slot(R2 + 1) \notin C
               /\ g \in RingType /\ g.r = Slot(R2 + 1) /\ g.rd = f.rd
               /\ g.inprocess = Win(R2, H) /\ g.status_cmpl = C \ Win(R, R2)
               /\ ~g.hole_pending => g.status_cmpl = {}
               /\ g.pktinflight = f.pktinflight /\ g.fetch_pending = f.fetch_pending
               /\ g.fetchq = f.fetchq /\ g.bufs = f.bufs /\ g.status = f.status
  <1> DEFINE x == Slot(m)
             C == f.status_cmpl \cup {x}
             g == Moved(f, s, x)
  <1>0. /\ R \in Nat /\ D \in Nat /\ H \in Nat /\ R <= D /\ D <= H /\ H < R + MaxItem
        /\ MaxItem \in Nat /\ MaxItem >= 2 /\ R + 1 \in Nat /\ R + 1 >= 1 /\ D + 1 \in Nat
        /\ R + 1 <= D + 1
    BY PlaceNat, Sizes
  <1>1. x \in Idx /\ C \subseteq Idx /\ x \in C
    BY <1>0, SlotType DEF RingType
  <1>2. PICK n \in R+1..D+1 : Slot(n) \notin C /\ \A k \in R+1..n-1 : Slot(k) \in C
    <2> DEFINE S == {k \in Nat : Slot(k) \notin C}
    <2>1. PICK k \in R+1..D+1 : Slot(k) \notin C
      OBVIOUS
    <2>2. k \in S /\ k \in Nat /\ R + 1 <= k
      BY <1>0, <2>1
    <2> HIDE DEF S
    <2>3. PICK n \in R+1..k : n \in S /\ \A j \in R+1..n-1 : j \notin S
      BY ONLY <1>0, <2>2, Least
    <2>4. n \in R+1..D+1 /\ \A j \in R+1..n-1 : j \in Nat
      BY <1>0
    <2> QED
      BY <2>3, <2>4 DEF S
  <1> DEFINE R2 == n - 1
             z == R2 - R
  <1>3. /\ R2 \in Nat /\ R <= R2 /\ R2 <= D /\ R2 + 1 = n /\ z \in Nat /\ z < MaxItem
        /\ z \in 0..MaxItem /\ R + z = R2 /\ R2 <= H /\ H <= R + MaxItem
    BY <1>0
  <1>4. (\A k \in R+1..R2 : Slot(k) \in C) /\ Slot(R2 + 1) \notin C
    BY <1>2, <1>3
  <1>5. Win(R, H) \ Win(R, R2) = Win(R2, H)
    BY ONLY <1>0, <1>3, WinMinus
  <1>6. Win(R2, H) \subseteq Idx /\ Slot(R2 + 1) \in Idx /\ C \ Win(R, R2) \subseteq Idx
    <2>1. R2 + 1 \in Nat /\ R2 + 1 >= 1
      BY <1>3
    <2> QED
      BY <1>0, <1>1, <1>3, <2>1, WinType, SlotType
  <1> DEFINE c2 == C \ Win(R, R2)
             p2 == Win(R2, H)
             r2 == Slot(R2 + 1)
  <1>7. CASE s = "DISCARD" /\ ~f.hole_pending /\ f.r = x
    <2>1. C = {x} /\ x = Slot(R + 1)
      BY <1>7
    <2>2. Slot(R + 1) # Slot(R + 2)
      <3>1. 1 \in 1..MaxItem-1 /\ R + 1 + 1 = R + 2
        BY <1>0
      <3>2. Slot(R + 1) # Slot(R + 1 + 1)
        BY ONLY <1>0, <3>1, SlotApart
      <3> QED
        BY <3>1, <3>2
    <2>3. R2 = R + 1
      <3>1. R2 # R
        BY <1>4, <2>1
      <3>2. ~(R + 2 <= R2)
        <4>1. SUFFICES ASSUME R + 2 <= R2 PROVE FALSE
          OBVIOUS
        <4>2. R + 2 \in R+1..R2
          BY <1>0, <1>3, <4>1
        <4> QED
          BY <1>4, <2>1, <2>2, <4>2
      <3> QED
        BY <1>0, <1>3, <3>1, <3>2
    <2>4. Win(R, R2) = {x}
      <3>1. R+1..R2 = {R+1}
        BY <1>0, <2>3
      <3> QED
        BY <2>1, <3>1 DEF Win
    <2>5. Plus(f.r, 1) = r2
      <3>1. 1 \in 0..MaxItem /\ R + 1 + 1 = R2 + 1
        BY <1>0, <2>3
      <3>2. Plus(Slot(R + 1), 1) = Slot(R + 1 + 1)
        BY <1>0, <3>1, SlotPlus
      <3> QED
        BY <3>1, <3>2
    <2>6. f.inprocess \ {x} = p2 /\ f.status_cmpl \ {x} = {} /\ c2 = {}
      BY <1>5, <1>7, <2>1, <2>4
    <2> DEFINE h == [f EXCEPT !.inprocess = p2, !.status_cmpl = {}, !.r = r2]
    <2>7. g = [f EXCEPT !.inprocess = f.inprocess \ {x}, !.status_cmpl = f.status_cmpl \ {x},
                        !.r = Plus(f.r, 1)]
      BY <1>7 DEF Moved, RingType
    <2>8. g = h
      BY ONLY <2>5, <2>6, <2>7
    <2>9. p2 \in SUBSET Idx /\ r2 \in Idx
      BY <1>6
    <2> HIDE DEF p2, r2
    <2>10. /\ h \in RingType /\ h.r = r2 /\ h.rd = f.rd /\ h.inprocess = p2 /\ h.status_cmpl = {}
           /\ h.pktinflight = f.pktinflight /\ h.fetch_pending = f.fetch_pending
           /\ h.fetchq = f.fetchq /\ h.bufs = f.bufs /\ h.status = f.status
      BY <2>9 DEF RingType
    <2> HIDE DEF g, h, c2, C
    <2>11. /\ g \in RingType /\ g.r = r2 /\ g.rd = f.rd /\ g.inprocess = p2 /\ g.status_cmpl = c2
           /\ ~g.hole_pending => g.status_cmpl = {}
           /\ g.pktinflight = f.pktinflight /\ g.fetch_pending = f.fetch_pending
           /\ g.fetchq = f.fetchq /\ g.bufs = f.bufs /\ g.status = f.status
      BY <2>6, <2>8, <2>10
    <2> HIDE DEF R2
    <2> QED
      BY <1>3, <1>4, <2>11 DEF g, c2, p2, r2, C, x
  <1>8. CASE ~(s = "DISCARD" /\ ~f.hole_pending /\ f.r = x)
    <2>1. \A k \in 0..MaxItem : Plus(f.r, k) = Slot(R + 1 + k)
      BY <1>0, SlotPlus
    <2> DEFINE run == {k \in Idx : \A j \in 0..k : Plus(f.r, j) \in C}
               past == {Plus(f.r, k) : k \in run}
    <2>2. run = 0..z-1
      <3>1. ASSUME NEW k \in run PROVE k \in 0..z-1
        <4>1. k \in Nat /\ k < MaxItem
          BY <1>0 DEF Idx
        <4>2. ~(z <= k)
          <5>1. SUFFICES ASSUME z <= k PROVE FALSE
            OBVIOUS
          <5>2. z \in 0..k
            BY <1>3, <4>1, <5>1
          <5>3. Plus(f.r, z) \in C
            BY <3>1, <5>2
          <5>4. Plus(f.r, z) = Slot(R2 + 1)
            <6>1. R + 1 + z = R2 + 1
              BY <1>0, <1>3
            <6> QED
              BY <1>3, <2>1, <6>1
          <5> QED
            BY <1>4, <5>3, <5>4
        <4> QED
          BY <1>3, <4>1, <4>2
      <3>2. ASSUME NEW k \in 0..z-1 PROVE k \in run
        <4>1. k \in Idx
          BY <1>0, <1>3 DEF Idx
        <4>2. ASSUME NEW j \in 0..k PROVE Plus(f.r, j) \in C
          <5>1. j \in 0..MaxItem /\ R + 1 + j \in R+1..R2
            BY <1>0, <1>3
          <5> QED
            BY <1>4, <2>1, <5>1
        <4> QED
          BY <4>1, <4>2
      <3> HIDE DEF run, z
      <3> QED
        BY <3>1, <3>2
    <2>3. past = Win(R, R2)
      <3>1. past = Blk(Slot(R + 1), z)
        BY <2>2 DEF Blk
      <3>2. Blk(Slot(R + 1), z) = Win(R, R + z)
        BY ONLY <1>0, <1>3, BlkWin
      <3> QED
        BY <1>3, <3>1, <3>2
    <2>4. Cardinality(run) = z
      <3> DEFINE y == z - 1
      <3>1. z \in Nat /\ y \in Int /\ 0 \in Int /\ y = z - 1 /\ run = 0..y
        BY <1>3, <2>2
      <3> HIDE DEF run, z, y
      <3>2. Cardinality(0..y) = IF 0 > y THEN 0 ELSE y - 0 + 1
        BY ONLY <3>1, FS_Interval
      <3>3. Cardinality(0..y) = z
        BY ONLY <3>1, <3>2
      <3> QED
        BY ONLY <3>1, <3>3
    <2>5. Plus(f.r, Cardinality(run)) = r2
      <3>1. R + 1 + z = R2 + 1
        BY <1>0, <1>3
      <3>2. Plus(f.r, z) = Slot(R2 + 1)
        BY <1>3, <2>1, <3>1
      <3> HIDE DEF run, z
      <3> QED
        BY ONLY <2>4, <3>2
    <2>6. r2 # x
      BY <1>1, <1>4
    <2> DEFINE h == [f EXCEPT !.status_cmpl = c2, !.inprocess = p2, !.r = r2,
                              !.hole_pending = TRUE]
    <2>7. g = [f EXCEPT !.status_cmpl = C \ past, !.inprocess = f.inprocess \ past,
                        !.r = Plus(f.r, Cardinality(run)),
                        !.hole_pending = (Plus(f.r, Cardinality(run)) # x)]
      BY <1>8 DEF Moved, Complete, RingType
    <2>8. C \ past = c2 /\ f.inprocess \ past = p2
      BY <1>5, <2>3
    <2>9. (Plus(f.r, Cardinality(run)) # x) = TRUE
      BY <2>5, <2>6
    <2> HIDE DEF run, past
    <2>10. g = h
      BY ONLY <2>5, <2>7, <2>8, <2>9
    <2>11. c2 \in SUBSET Idx /\ p2 \in SUBSET Idx /\ r2 \in Idx
      BY <1>6
    <2> HIDE DEF c2, p2, r2
    <2>12. /\ h \in RingType /\ h.r = r2 /\ h.rd = f.rd /\ h.inprocess = p2 /\ h.status_cmpl = c2
           /\ h.hole_pending
           /\ h.pktinflight = f.pktinflight /\ h.fetch_pending = f.fetch_pending
           /\ h.fetchq = f.fetchq /\ h.bufs = f.bufs /\ h.status = f.status
      BY <2>11 DEF RingType
    <2> HIDE DEF g, h, C
    <2>13. /\ g \in RingType /\ g.r = r2 /\ g.rd = f.rd /\ g.inprocess = p2 /\ g.status_cmpl = c2
           /\ ~g.hole_pending => g.status_cmpl = {}
           /\ g.pktinflight = f.pktinflight /\ g.fetch_pending = f.fetch_pending
           /\ g.fetchq = f.fetchq /\ g.bufs = f.bufs /\ g.status = f.status
      BY <2>10, <2>12
    <2> HIDE DEF R2
    <2> QED
      BY <1>3, <1>4, <2>13 DEF g, c2, p2, r2, C, x
  <1> QED
    BY <1>7, <1>8

(* wl is done with the packet of message m.                                *)
LEMMA Completed ==
  ASSUME NEW f0, NEW c, NEW L, NEW P, NEW R, NEW D, NEW H,
         Core(f0, c, L, Sup(f0), P, R, D, H),
         NEW n \in Nat, n <= LfragCnt, NEW L2, IsFiniteSet(L2), n = Cardinality(L2),
         NEW m \in Nat, R < m, m <= H, Slot(m) \in Out(L), Out(L2) = Out(L) \ {Slot(m)},
         NEW s
  PROVE  LET f == [f0 EXCEPT !.pktinflight = n]
             h == pciedev_schedule_flow_ring_read_buffer(
                    pciedev_process_pending_flring_resp(ClearSup(Moved(f, s, Slot(m)))))
         IN  \E R2 \in Nat :
               /\ Core(h, c, L2, Sup(h), P, R2, D, H) /\ R <= R2 /\ R2 <= H
               /\ \A i \in R+1..R+MaxItem :
                    (i <= R2 \/ Slot(i) \in h.status_cmpl)
                      <=> Slot(i) \in f0.status_cmpl \cup {Slot(m)}
  <1> DEFINE f == [f0 EXCEPT !.pktinflight = n]
             x == Slot(m)
             C == f0.status_cmpl
             g == Moved(f, s, x)
             k == ClearSup(g)
             h == pciedev_schedule_flow_ring_read_buffer(
                    pciedev_process_pending_flring_resp(k))
             F == Fetched(f0.fetchq, c)
  <1>1. /\ f0 \in RingType /\ c \in CbType /\ Counts(f0, c, L) /\ Indexes(f0, P, R, D, H)
        /\ Place(R, D, H) /\ f0.r = Slot(R + 1) /\ f0.rd = Slot(D + 1)
        /\ f0.inprocess = Win(R, H) /\ (~f0.hole_pending => f0.status_cmpl = {})
        /\ Track(C, Out(L), F, Sup(f0), R, D, H)
        /\ (~Sup(f0) => Disjoint(f0.fetchq, c)) /\ Sup(f0) \in BOOLEAN
    BY DEF Core, Indexes, Sup
  <1>2. /\ f \in RingType /\ f.r = f0.r /\ f.rd = f0.rd /\ f.inprocess = f0.inprocess
        /\ f.status_cmpl = C /\ f.hole_pending = f0.hole_pending
        /\ f.pktinflight = n /\ f.fetch_pending = f0.fetch_pending
        /\ f.fetchq = f0.fetchq /\ f.bufs = f0.bufs /\ f.status = f0.status
    BY <1>1, InflightOps
  <1> HIDE DEF f
  <1>3. \E i \in R+1..D+1 : Slot(i) \notin C \cup {x}
    BY <1>1, StaysOpen
  <1>4. PICK R2 \in Nat :
          /\ R <= R2 /\ R2 <= D
          /\ \A i \in R+1..R2 : Slot(i) \in C \cup {x}
          /\ Slot(R2 + 1) \notin C \cup {x}
          /\ g \in RingType /\ g.r = Slot(R2 + 1) /\ g.rd = f.rd
          /\ g.inprocess = Win(R2, H) /\ g.status_cmpl = (C \cup {x}) \ Win(R, R2)
          /\ ~g.hole_pending => g.status_cmpl = {}
          /\ g.pktinflight = f.pktinflight /\ g.fetch_pending = f.fetch_pending
          /\ g.fetchq = f.fetchq /\ g.bufs = f.bufs /\ g.status = f.status
    <2>1. f.r = Slot(R + 1) /\ f.inprocess = Win(R, H) /\ (~f.hole_pending => f.status_cmpl = {})
      BY <1>1, <1>2
    <2>2. \E i \in R+1..D+1 : Slot(i) \notin f.status_cmpl \cup {Slot(m)}
      BY <1>2, <1>3
    <2>3. LET C2 == f.status_cmpl \cup {Slot(m)}
              g2 == Moved(f, s, Slot(m))
          IN  \E R2 \in Nat :
                /\ R <= R2 /\ R2 <= D
                /\ \A i \in R+1..R2 : Slot(i) \in C2
                /\ Slot(R2 + 1) \notin C2
                /\ g2 \in RingType /\ g2.r = Slot(R2 + 1) /\ g2.rd = f.rd
                /\ g2.inprocess = Win(R2, H) /\ g2.status_cmpl = C2 \ Win(R, R2)
                /\ ~g2.hole_pending => g2.status_cmpl = {}
                /\ g2.pktinflight = f.pktinflight /\ g2.fetch_pending = f.fetch_pending
                /\ g2.fetchq = f.fetchq /\ g2.bufs = f.bufs /\ g2.status = f.status
      BY ONLY <1>1, <1>2, <2>1, <2>2, m \in Nat, R < m, m <= H, MovedOn
    <2>4. f.status_cmpl = C
      BY <1>2
    <2>5. \E R2 \in Nat :
            /\ R <= R2 /\ R2 <= D
            /\ \A i \in R+1..R2 : Slot(i) \in f.status_cmpl \cup {x}
            /\ Slot(R2 + 1) \notin f.status_cmpl \cup {x}
            /\ g \in RingType /\ g.r = Slot(R2 + 1) /\ g.rd = f.rd
            /\ g.inprocess = Win(R2, H)
            /\ g.status_cmpl = (f.status_cmpl \cup {x}) \ Win(R, R2)
            /\ ~g.hole_pending => g.status_cmpl = {}
            /\ g.pktinflight = f.pktinflight /\ g.fetch_pending = f.fetch_pending
            /\ g.fetchq = f.fetchq /\ g.bufs = f.bufs /\ g.status = f.status
      BY ONLY <2>3 DEF g, x
    <2> HIDE DEF C, g, x
    <2> QED
      BY ONLY <2>4, <2>5
  <1> HIDE DEF g
  <1>5. /\ Place(R2, D, H)
        /\ Track((C \cup {x}) \ Win(R, R2), Out(L) \ {x}, F, Sup(f0), R2, D, H)
        /\ \A i \in R+1..R+MaxItem :
             Slot(i) \in (C \cup {x}) \ Win(R, R2) <=> R2 < i /\ Slot(i) \in C \cup {x}
    <2>1. R2 <= R + MaxItem /\ x \in Out(L)
      BY <1>1, <1>4, PlaceNat
    <2> DEFINE O == Out(L)
               su == Sup(f0)
    <2>2. /\ Place(R, D, H) /\ R2 \in Nat /\ R <= R2 /\ R2 <= R + MaxItem
          /\ su \in BOOLEAN /\ Track(C, O, F, su, R, D, H) /\ x \in O
      BY <1>1, <1>4, <2>1
    <2>3. (\A i \in R+1..R2 : Slot(i) \in C \cup {x}) /\ Slot(R2 + 1) \notin C \cup {x}
      BY <1>4
    <2> HIDE DEF C, F, x, O, su
    <2>4. /\ Place(R2, D, H)
          /\ Track((C \cup {x}) \ Win(R, R2), O \ {x}, F, su, R2, D, H)
      BY ONLY <2>2, <2>3, TrackComplete
    <2> DEFINE S == C \cup {x}
    <2>6. R \in Nat
      BY <1>1, PlaceNat
    <2> HIDE DEF S
    <2>7. \A i \in R+1..R+MaxItem : Slot(i) \in S \ Win(R, R2) <=> R2 < i /\ Slot(i) \in S
      BY ONLY <2>2, <2>6, PastWindow
    <2>5. \A i \in R+1..R+MaxItem :
               Slot(i) \in (C \cup {x}) \ Win(R, R2) <=> R2 < i /\ Slot(i) \in C \cup {x}
      BY ONLY <2>7 DEF S
    <2> QED
      BY ONLY <2>4, <2>5 DEF O, su
  <1>6. Track(g.status_cmpl, Out(L2), Fetched(g.fetchq, c), Sup(f0), R2, D, H)
    BY <1>2, <1>4, <1>5
  <1>7. Indexes(g, P, R2, D, H)
    BY <1>1, <1>2, <1>4, <1>5, PlaceNat DEF Indexes
  <1>8. Counts(g, c, L2)
    BY <1>1, <1>2, <1>4 DEF Counts
  <1>9. Sup(g) = Sup(f0)
    BY <1>2, <1>4 DEF Sup
  <1>10. Core(g, c, L2, Sup(f0), P, R2, D, H)
    BY <1>1, <1>2, <1>4, <1>6, <1>7, <1>8 DEF Core
  <1>11. Core(k, c, L2, Sup(k), P, R2, D, H) /\ Same(g, k)
    BY <1>1, <1>9, <1>10, Cleared
  <1> HIDE DEF k
  <1>12. k \in RingType
    BY <1>11 DEF Core
  <1>13. h = pciedev_schedule_flow_ring_read_buffer(k)
    BY <1>12, NoFlush
  <1>14. h \in RingType /\ Same(k, h) /\ Sup(h) = Sup(k)
    BY <1>12, <1>13, Scheduled
  <1> HIDE DEF h
  <1>15. Core(h, c, L2, Sup(h), P, R2, D, H)
    BY <1>11, <1>14, SameCore
  <1>16. h.status_cmpl = (C \cup {x}) \ Win(R, R2)
    BY <1>4, <1>11, <1>14 DEF Same
  <1>17. ASSUME NEW i \in R+1..R+MaxItem
         PROVE  (i <= R2 \/ Slot(i) \in h.status_cmpl) <=> Slot(i) \in C \cup {x}
    <2>1. i \in Int /\ R \in Nat
      BY <1>1, PlaceNat
    <2>2. CASE i <= R2
      <3>1. i \in R+1..R2
        BY <2>1, <2>2
      <3> QED
        BY <1>4, <2>2, <3>1
    <2>3. CASE ~(i <= R2)
      BY <1>5, <1>16, <2>1, <2>3
    <2> QED
      BY <2>2, <2>3
  <1>18. R2 <= H
    BY <1>1, <1>4, PlaceNat
  <1> HIDE DEF x, C
  <1>19. \E r \in Nat :
           /\ Core(h, c, L2, Sup(h), P, r, D, H) /\ R <= r /\ r <= H
           /\ \A i \in R+1..R+MaxItem :
                (i <= r \/ Slot(i) \in h.status_cmpl) <=> Slot(i) \in C \cup {x}
    BY <1>4, <1>15, <1>17, <1>18
  <1> QED
    BY <1>19 DEF h, k, g, f, x, C

-----------------------------------------------------------------------------
(* Fetching a block.                                                       *)

(* What can be fetched at once is posted and does not pass the ring's end. *)
LEMMA Available ==
  ASSUME NEW D \in Nat, NEW P \in Nat, D <= P, P < D + MaxItem, w = Slot(P + 1),
         NEW i, i = Slot(D + 1)
  PROVE  LET a == READ_AVAIL_SPACE(w, i, MaxItem)
         IN  a \in Nat /\ a <= P - D /\ i + a <= MaxItem
  <1> DEFINE k == P - D
             a == READ_AVAIL_SPACE(w, i, MaxItem)
  <1>1. MaxItem \in Nat /\ k \in 0..MaxItem /\ k < MaxItem /\ P + 1 = D + 1 + k
        /\ D + 1 \in Nat /\ D + 1 >= 1
    BY Sizes
  <1>2. i \in Idx
    BY <1>1, SlotType
  <1>3. w = Plus(i, k)
    BY <1>1, SlotPlus
  <1> HIDE DEF k
  <1>4. w = IF i + k < MaxItem THEN i + k ELSE (i + k) - MaxItem
    BY ONLY <1>1, <1>2, <1>3, PlusIs
  <1>5. i \in Nat /\ i < MaxItem
    BY <1>1, <1>2 DEF Idx
  <1>6. a \in Nat /\ a <= k /\ i + a <= MaxItem
    BY ONLY <1>1, <1>4, <1>5 DEF READ_AVAIL_SPACE
  <1> QED
    BY <1>6 DEF k

LEMMA MaxFetched ==
  ASSUME NEW f \in RingType, NEW cnt \in Nat, NEW a \in Nat,
         a = READ_AVAIL_SPACE(w, f.rd, MaxItem), Cardinality(wl) \in Nat
  PROVE  LET max == pciedev_get_maxpkt_fetch_count(f, cnt)
         IN  /\ max \in Nat /\ max <= a
             /\ max # 0 => f.fetch_pending + max <= LfragCnt
  <1> DEFINE max == pciedev_get_maxpkt_fetch_count(f, cnt)
             lbuf == LfragCnt - Cardinality(wl)
             fp == f.fetch_pending
  <1>1. ~Has(f, "FLUSH_PENDING")
    BY NoFlush
  <1>2. lbuf \in Int /\ lbuf <= LfragCnt /\ ItemCnt \in Nat /\ LfragCnt \in Nat
    BY Sizes
  <1>3. fp \in Nat
    BY DEF RingType
  <1>4. max = IF lbuf > fp THEN MIN(MIN(lbuf - fp, cnt), MIN(a, ItemCnt)) ELSE 0
    BY <1>1 DEF pciedev_get_maxpkt_fetch_count
  <1> HIDE DEF max, lbuf, fp
  <1>5. max \in Nat /\ max <= a /\ (max # 0 => fp + max <= LfragCnt)
    BY ONLY <1>2, <1>3, <1>4, cnt \in Nat, a \in Nat DEF MIN
  <1> QED
    BY <1>5 DEF max, fp

(* The fetch index moves on over what is complete.                         *)
LEMMA RdpMoved ==
  ASSUME NEW f \in RingType, NEW R, NEW D, NEW H, Place(R, D, H), NEW P \in Nat,
         H <= P, P < R + MaxItem, w = Slot(P + 1),
         f.rd = Slot(D + 1), f.inprocess = Win(R, H), f.status_cmpl \subseteq Win(R + 1, H)
  PROVE  LET g == pciedev_update_rdp_ptr_unacked(f)
         IN  \E D2 \in Nat :
               /\ D <= D2 /\ D2 <= H
               /\ \A m \in D+1..D2 : Slot(m) \in f.status_cmpl
               /\ Slot(D2 + 1) \notin f.status_cmpl
               /\ g \in RingType /\ g.rd = Slot(D2 + 1) /\ g.r = f.r
               /\ g.inprocess = f.inprocess /\ g.status_cmpl = f.status_cmpl
               /\ g.hole_pending = f.hole_pending /\ g.pktinflight = f.pktinflight
               /\ g.fetch_pending = f.fetch_pending /\ g.fetchq = f.fetchq
               /\ g.bufs = f.bufs /\ g.status = f.status
  <1> DEFINE g == pciedev_update_rdp_ptr_unacked(f)
             C == f.status_cmpl
             z == H - D
             ahead == {k \in Idx : /\ k < NTXPACTIVE(f.rd, w, MaxItem)
                                   /\ Plus(f.rd, k) \in f.inprocess}
             open == {k \in ahead : Plus(f.rd, k) \notin C}
             u == CHOOSE k \in open : \A j \in open : k <= j
  <1>0. /\ R \in Nat /\ D \in Nat /\ H \in Nat /\ R <= D /\ D <= H /\ H < R + MaxItem
        /\ MaxItem \in Nat /\ D + 1 \in Nat /\ D + 1 >= 1 /\ D + 1 <= R + MaxItem /\ z \in Nat
        /\ z < MaxItem /\ R <= R /\ R + 1 \in Nat /\ R <= R + 1 /\ H <= R + MaxItem
    BY PlaceNat
  <1>1. \A k \in 0..MaxItem : Plus(f.rd, k) = Slot(D + 1 + k)
    BY <1>0, SlotPlus
  (* What the fetch index may move to.                                     *)
  <1>2. ASSUME NEW D2 \in Nat, D <= D2, D2 <= H, \A m \in D+1..D2 : Slot(m) \in C,
               Slot(D2 + 1) \notin C, g = [f EXCEPT !.rd = Slot(D2 + 1)]
        PROVE  \E d \in Nat :
                 /\ D <= d /\ d <= H
                 /\ \A m \in D+1..d : Slot(m) \in f.status_cmpl
                 /\ Slot(d + 1) \notin f.status_cmpl
                 /\ g \in RingType /\ g.rd = Slot(d + 1) /\ g.r = f.r
                 /\ g.inprocess = f.inprocess /\ g.status_cmpl = f.status_cmpl
                 /\ g.hole_pending = f.hole_pending /\ g.pktinflight = f.pktinflight
                 /\ g.fetch_pending = f.fetch_pending /\ g.fetchq = f.fetchq
                 /\ g.bufs = f.bufs /\ g.status = f.status
    <2> DEFINE x == Slot(D2 + 1)
    <2>1. x \in Idx
      <3>1. D2 + 1 \in Nat /\ D2 + 1 >= 1
        OBVIOUS
      <3> QED
        BY <3>1, SlotType
    <2>2. g = [f EXCEPT !.rd = x]
      BY <1>2
    <2> HIDE DEF x, g
    <2>3. /\ g \in RingType /\ g.rd = x /\ g.r = f.r
          /\ g.inprocess = f.inprocess /\ g.status_cmpl = f.status_cmpl
          /\ g.hole_pending = f.hole_pending /\ g.pktinflight = f.pktinflight
          /\ g.fetch_pending = f.fetch_pending /\ g.fetchq = f.fetchq
          /\ g.bufs = f.bufs /\ g.status = f.status
      BY <2>1, <2>2 DEF RingType
    <2> QED
      BY <1>2, <2>3 DEF x
  <1>3. ahead = 0..z-1
    <2> DEFINE i == f.rd
    <2>1. NTXPACTIVE(f.rd, w, MaxItem) = P - D
      <3>1. P + 1 \in Nat /\ D + 1 <= P + 1 /\ P + 1 < (D + 1) + MaxItem
        BY <1>0
      <3>2. NTXPACTIVE(Slot(D + 1), Slot(P + 1), MaxItem) = (P + 1) - (D + 1)
        BY ONLY <1>0, <3>1, SlotDist
      <3> QED
        BY <1>0, <3>2
    <2>2. ASSUME NEW k \in Idx, k < P - D
          PROVE  Plus(f.rd, k) \in f.inprocess <=> k < z
      <3>1. k \in 0..MaxItem /\ k \in Nat
        BY <1>0 DEF Idx
      <3> DEFINE m == D + 1 + k
      <3>2. m \in Nat /\ R < m /\ m <= R + MaxItem
        BY <1>0, <2>2, <3>1
      <3>3. (m <= H <=> k < z)
        BY <1>0, <3>1
      <3>4. Plus(f.rd, k) = Slot(m)
        BY <1>1, <3>1
      <3> HIDE DEF m, z
      <3>5. Slot(m) \in Win(R, H) <=> R < m /\ m <= H
        BY ONLY <1>0, <3>2, InWin
      <3> QED
        BY <3>2, <3>3, <3>4, <3>5
    <2>3. \A k : k \in Idx /\ k < P - D /\ k < z <=> k \in 0..z-1
      BY <1>0 DEF Idx
    <2> QED
      BY <2>1, <2>2, <2>3
  <1>4. CASE f.rd \notin C
    <2>1. g = f
      BY <1>4 DEF pciedev_update_rdp_ptr_unacked
    <2>2. f = [f EXCEPT !.rd = Slot(D + 1)]
      BY DEF RingType
    <2>3. \A m \in D+1..D : Slot(m) \in C
      BY <1>0
    <2> QED
      BY ONLY <1>0, <1>2, <1>4, <2>1, <2>2, <2>3, f.rd = Slot(D + 1)
  <1>5. CASE f.rd \in C /\ open # {}
    <2>1. g = [f EXCEPT !.rd = Plus(f.rd, u)]
      BY <1>5 DEF pciedev_update_rdp_ptr_unacked, RingType
    <2>2. PICK a \in open : TRUE
      BY <1>5
    <2>3. a \in Nat /\ 0 <= a /\ 0 \in Nat
      BY <1>0, <1>3, <2>2
    <2> HIDE DEF open, ahead, u
    <2>4. PICK k \in 0..a : k \in open /\ \A j \in 0..k-1 : j \notin open
      BY ONLY <2>2, <2>3, Least
    <2>5. \A j \in open : k <= j
      <3>1. \A j \in open : j \in Nat
        BY <1>0, <1>3 DEF open
      <3> QED
        BY <2>3, <2>4, <3>1
    <2>6. u \in open /\ \A j \in open : u <= j
      BY <2>4, <2>5 DEF u
    <2>7. u \in 0..z-1 /\ u \in Nat /\ u < z /\ u \in 0..MaxItem
      BY <1>0, <1>3, <2>6 DEF open
    <2>8. \A j \in 0..u-1 : Slot(D + 1 + j) \in C
      <3>1. SUFFICES ASSUME NEW j \in 0..u-1 PROVE Slot(D + 1 + j) \in C
        OBVIOUS
      <3>2. j \in ahead /\ ~(u <= j) /\ j \in 0..MaxItem
        BY <1>0, <1>3, <2>7
      <3>3. j \notin open
        BY <2>6, <3>2
      <3> QED
        BY <1>1, <3>2, <3>3 DEF open
    <2> DEFINE D2 == D + u
    <2>9. D2 \in Nat /\ D <= D2 /\ D2 <= H /\ D2 + 1 = D + 1 + u
      BY <1>0, <2>7
    <2>10. \A m \in D+1..D2 : Slot(m) \in C
      <3>1. SUFFICES ASSUME NEW m \in D+1..D2 PROVE Slot(m) \in C
        OBVIOUS
      <3>2. m - (D + 1) \in 0..u-1 /\ D + 1 + (m - (D + 1)) = m
        BY <1>0, <2>7
      <3> QED
        BY <2>8, <3>2
    <2>11. Plus(f.rd, u) = Slot(D2 + 1)
      BY <1>1, <2>7, <2>9
    <2>12. Slot(D2 + 1) \notin C
      BY <2>6, <2>11 DEF open
    <2>13. g = [f EXCEPT !.rd = Slot(D2 + 1)]
      BY ONLY <2>1, <2>11
    <2> HIDE DEF D2
    <2> QED
      BY ONLY <1>2, <2>9, <2>10, <2>12, <2>13
  <1>6. CASE f.rd \in C /\ open = {}
    <2>1. g = [f EXCEPT !.rd = Plus(f.rd, Cardinality(ahead))]
      BY <1>6 DEF pciedev_update_rdp_ptr_unacked, RingType
    <2>2. Cardinality(ahead) = z
      <3> DEFINE y == z - 1
      <3>1. z \in Nat /\ y \in Int /\ 0 \in Int /\ y = z - 1 /\ ahead = 0..y
        BY <1>0, <1>3
      <3> HIDE DEF ahead, z, y
      <3>2. Cardinality(0..y) = IF 0 > y THEN 0 ELSE y - 0 + 1
        BY ONLY <3>1, FS_Interval
      <3>3. Cardinality(0..y) = z
        BY ONLY <3>1, <3>2
      <3> QED
        BY ONLY <3>1, <3>3
    <2> HIDE DEF ahead
    <2>3. Plus(f.rd, Cardinality(ahead)) = Slot(H + 1)
      <3>1. z \in 0..MaxItem /\ D + 1 + z = H + 1
        BY <1>0
      <3>2. Plus(f.rd, z) = Slot(H + 1)
        BY <1>1, <3>1
      <3> HIDE DEF z
      <3> QED
        BY ONLY <2>2, <3>2
    <2>4. \A m \in D+1..H : Slot(m) \in C
      <3>1. SUFFICES ASSUME NEW m \in D+1..H PROVE Slot(m) \in C
        OBVIOUS
      <3> DEFINE k == m - (D + 1)
      <3>2. k \in 0..z-1 /\ D + 1 + k = m /\ k \in 0..MaxItem
        BY <1>0
      <3>3. k \in ahead
        BY <1>3, <3>2
      <3> HIDE DEF k
      <3>4. Plus(f.rd, k) \in C
        BY <1>6, <3>3
      <3> QED
        BY <1>1, <3>2, <3>4
    <2>5. Slot(H + 1) \notin C
      <3>1. H + 1 \in R+1..R+MaxItem /\ ~(H + 1 <= H)
        BY <1>0
      <3>2. Slot(H + 1) \in C => R + 1 < H + 1 /\ H + 1 <= H
        BY ONLY <1>0, <3>1, C \subseteq Win(R + 1, H), OfWindow
      <3> QED
        BY <3>1, <3>2
    <2>6. g = [f EXCEPT !.rd = Slot(H + 1)]
      BY ONLY <2>1, <2>3
    <2>7. D <= H /\ H <= H /\ H \in Nat
      BY <1>0
    <2> QED
      BY ONLY <1>2, <2>4, <2>5, <2>6, <2>7
  <1> QED
    BY <1>4, <1>5, <1>6

(* The ring with a block of n messages on the way.                         *)
WithBlock(f, n) ==
  [f EXCEPT !.rd = ADVANCE(@, n, MaxItem), !.bufs = @ + 1,
            !.inprocess = @ \cup {Plus(f.rd, k) : k \in 0..n-1},
            !.fetchq = Append(@, [idx |-> f.rd, len |-> n]),
            !.fetch_pending = (@ + n) % FetchMod]

LEMMA BlockOnTheWay ==
  ASSUME NEW f \in RingType, NEW n \in Nat, n >= 1, n <= MaxItem,
         NEW R, NEW D, NEW H, Place(R, D, H), f.rd = Slot(D + 1), f.inprocess = Win(R, H),
         f.rd + n <= MaxItem, D + n < R + MaxItem, f.fetch_pending + n < FetchMod
  PROVE  LET g == WithBlock(f, n)
             b == [idx |-> f.rd, len |-> n]
         IN  /\ b \in Block
             /\ g \in RingType /\ g.rd = Slot(D + n + 1) /\ g.r = f.r
             /\ g.inprocess = Win(R, IF H >= D + n THEN H ELSE D + n)
             /\ g.status_cmpl = f.status_cmpl
             /\ g.hole_pending = f.hole_pending /\ g.pktinflight = f.pktinflight
             /\ g.fetch_pending = f.fetch_pending + n
             /\ g.fetchq = Append(f.fetchq, b) /\ g.bufs = f.bufs + 1 /\ g.status = f.status
  <1> DEFINE b == [idx |-> f.rd, len |-> n]
             x == Slot(D + n + 1)
             H2 == IF H >= D + n THEN H ELSE D + n
             J == Win(R, H2)
             q == Append(f.fetchq, b)
             fp == f.fetch_pending + n
             bc == f.bufs + 1
             g == WithBlock(f, n)
             h == [f EXCEPT !.rd = x, !.bufs = bc, !.inprocess = J, !.fetchq = q,
                            !.fetch_pending = fp]
  <1>0. /\ R \in Nat /\ D \in Nat /\ H \in Nat /\ R <= D /\ D <= H /\ H < R + MaxItem
        /\ MaxItem \in Nat /\ D + 1 \in Nat /\ D + 1 >= 1 /\ n \in 1..MaxItem /\ n \in 0..MaxItem
        /\ FetchMod \in Nat /\ FetchMod > 0
    BY PlaceNat, Sizes
  <1>1. f.rd \in Idx /\ f.fetch_pending \in Nat /\ f.bufs \in Nat /\ f.fetchq \in Seq(Block)
    BY DEF RingType
  <1>2. b \in Block
    BY <1>0, <1>1 DEF Block
  <1>3. q \in Seq(Block)
    BY <1>1, <1>2, QueueAppend
  <1>4. x \in Idx
    <2>1. D + n + 1 \in Nat /\ D + n + 1 >= 1
      BY <1>0
    <2> QED
      BY <2>1, SlotType
  <1>5. J \subseteq Idx
    <2>1. H2 \in Nat
      BY <1>0
    <2> HIDE DEF H2
    <2> QED
      BY <1>0, <2>1, WinType
  <1>6. ADVANCE(f.rd, n, MaxItem) = x
    <2> DEFINE i == f.rd
    <2>1. D + 1 + n = D + n + 1
      BY <1>0
    <2>2. Plus(i, n) = x
      <3>1. Plus(Slot(D + 1), n) = Slot(D + 1 + n)
        BY ONLY <1>0, SlotPlus
      <3> QED
        BY <2>1, <3>1
    <2>3. i \in Idx /\ i \in Nat /\ i + n <= MaxItem
      BY <1>0, <1>1 DEF Idx
    <2> HIDE DEF i, x
    <2>4. Plus(i, n) = IF i + n < MaxItem THEN i + n ELSE (i + n) - MaxItem
      BY ONLY <1>0, <2>3, PlusIs
    <2>5. ADVANCE(i, n, MaxItem) = x
      BY ONLY <1>0, <2>2, <2>3, <2>4 DEF ADVANCE
    <2> QED
      BY ONLY <2>5 DEF i
  <1>7. f.inprocess \cup {Plus(f.rd, k) : k \in 0..n-1} = J
    <2>1. {Plus(f.rd, k) : k \in 0..n-1} = Win(D, D + n)
      <3>1. Blk(Slot(D + 1), n) = Win(D, D + n)
        BY ONLY <1>0, BlkWin
      <3> QED
        BY <3>1 DEF Blk
    <2>2. R+1..H2 = (R+1..H) \cup (D+1..D+n)
      BY <1>0
    <2>3. J = Win(R, H) \cup Win(D, D + n)
      <3> HIDE DEF H2
      <3> QED
        BY <2>2 DEF Win
    <2> QED
      BY ONLY <2>1, <2>3, f.inprocess = Win(R, H)
  <1>8. (f.fetch_pending + n) % FetchMod = fp
    <2> DEFINE a == f.fetch_pending + n
    <2>1. a \in Nat /\ a < FetchMod /\ a < FetchMod + FetchMod
      BY <1>0, <1>1
    <2> HIDE DEF a
    <2>2. a % FetchMod = a
      BY ONLY <1>0, <2>1, ModOnce
    <2> QED
      BY ONLY <2>2 DEF a
  <1>9. fp \in Nat /\ bc \in Nat
    BY <1>0, <1>1
  <1>10. g = [f EXCEPT !.rd = ADVANCE(f.rd, n, MaxItem), !.bufs = f.bufs + 1,
                       !.inprocess = f.inprocess \cup {Plus(f.rd, k) : k \in 0..n-1},
                       !.fetchq = Append(f.fetchq, [idx |-> f.rd, len |-> n]),
                       !.fetch_pending = (f.fetch_pending + n) % FetchMod]
    BY DEF WithBlock, RingType
  <1>11. g = h
    BY ONLY <1>6, <1>7, <1>8, <1>10
  <1> HIDE DEF x, bc, J, q, fp, g
  <1>12. /\ h \in RingType /\ h.rd = x /\ h.r = f.r
         /\ h.inprocess = J /\ h.status_cmpl = f.status_cmpl
         /\ h.hole_pending = f.hole_pending /\ h.pktinflight = f.pktinflight
         /\ h.fetch_pending = fp /\ h.fetchq = q /\ h.bufs = bc /\ h.status = f.status
    BY <1>3, <1>4, <1>5, <1>9 DEF RingType
  <1> HIDE DEF h
  <1>13. /\ g \in RingType /\ g.rd = x /\ g.r = f.r
         /\ g.inprocess = J /\ g.status_cmpl = f.status_cmpl
         /\ g.hole_pending = f.hole_pending /\ g.pktinflight = f.pktinflight
         /\ g.fetch_pending = fp /\ g.fetchq = q /\ g.bufs = bc /\ g.status = f.status
    BY ONLY <1>11, <1>12
  <1> QED
    BY ONLY <1>2, <1>13 DEF g, x, J, q, fp, bc, b, H2

LEMMA WinDisjoint ==
  ASSUME NEW R \in Nat, NEW D \in Nat, NEW n \in Nat, R <= D, D + n <= R + MaxItem
  PROVE  Win(R, D) \cap Win(D, D + n) = {}
  <1>1. ASSUME NEW i \in Win(D, D + n), i \in Win(R, D) PROVE FALSE
    <2>1. PICK m \in D+1..D+n : i = Slot(m)
      BY DEF Win
    <2>2. m \in Nat /\ R < m /\ m <= R + MaxItem /\ R <= R /\ D <= R + MaxItem /\ ~(m <= D)
      BY Sizes
    <2>3. Slot(m) \in Win(R, D) <=> R < m /\ m <= D
      BY ONLY <2>2, R \in Nat, D \in Nat, InWin
    <2> QED
      BY <1>1, <2>1, <2>2, <2>3
  <1> QED
    BY <1>1

(* Fetching keeps the invariant, during suppression too.                   *)
LEMMA ReadKeeps ==
  ASSUME Calm, NEW f, NEW c, NEW sup \in BOOLEAN, NEW P, NEW R, NEW D, NEW H,
         Core(f, c, wl, sup, P, R, D, H), w = Slot(P + 1), NEW cnt \in Nat
  PROVE  LET g == pciedev_read_flow_ring_host_buffer(f, cnt)
         IN  /\ \E D2, H2 \in Nat : Core(g, c, wl, sup, P, R, D2, H2)
             /\ g.status = f.status /\ g.status_cmpl = f.status_cmpl
  <1> DEFINE C == f.status_cmpl
             max == pciedev_get_maxpkt_fetch_count(f, cnt)
             cmpl == {k \in 0..max-1 : Plus(f.rd, k) \in f.status_cmpl}
             len == IF cmpl = {} THEN max ELSE CHOOSE k \in cmpl : \A j \in cmpl : k <= j
             e == IF f.bufs = BufCnt \/ len = 0 THEN f ELSE WithBlock(f, len)
             n == IF f.bufs = BufCnt \/ len = 0 THEN 0 ELSE len
             g == pciedev_update_rdp_ptr_unacked(e)
             O == Out(wl)
             F == Fetched(f.fetchq, c)
             H1 == IF H >= D + n THEN H ELSE D + n
             a == READ_AVAIL_SPACE(w, f.rd, MaxItem)
  <1>1. /\ f \in RingType /\ c \in CbType /\ Counts(f, c, wl) /\ Indexes(f, P, R, D, H)
        /\ Place(R, D, H) /\ f.r = Slot(R + 1) /\ f.rd = Slot(D + 1) /\ f.inprocess = Win(R, H)
        /\ P \in Nat /\ H <= P /\ P < R + MaxItem
        /\ Track(C, O, F, sup, R, D, H) /\ (~sup => Disjoint(f.fetchq, c))
    BY DEF Core, Indexes
  <1>0. /\ R \in Nat /\ D \in Nat /\ H \in Nat /\ R <= D /\ D <= H /\ H < R + MaxItem
        /\ MaxItem \in Nat /\ D + 1 \in Nat /\ D + 1 >= 1
    BY <1>1, PlaceNat
  <1>2. pciedev_read_flow_ring_host_buffer(f, cnt) = g
    BY DEF pciedev_read_flow_ring_host_buffer, WithBlock
  <1>3. a \in Nat /\ a <= P - D /\ f.rd + a <= MaxItem
    <2>1. D <= P /\ P < D + MaxItem
      BY <1>0, <1>1
    <2> QED
      BY <1>0, <1>1, <2>1, Available
  <1>4. /\ max \in Nat /\ max <= a /\ (max # 0 => f.fetch_pending + max <= LfragCnt)
    <2>1. Cardinality(wl) \in Nat
      BY <1>1, FS_CardinalityType DEF Counts
    <2> HIDE DEF a, max
    <2> QED
      BY <1>1, <1>3, <2>1, MaxFetched DEF a, max
  <1> HIDE DEF a, max
  <1>5. f.rd \in Nat /\ f.fetch_pending \in Nat /\ f.bufs \in Nat /\ f.fetchq \in Seq(Block)
    BY <1>0, <1>1 DEF RingType, Idx
  <1>6. /\ len \in Nat /\ len <= max
        /\ \A k \in 0..len-1 : Plus(f.rd, k) \notin C
    <2>1. CASE cmpl = {}
      <3>1. len = max
        BY <2>1
      <3> QED
        BY <1>4, <2>1, <3>1
    <2>2. CASE cmpl # {}
      <3>1. PICK b \in cmpl : TRUE
        BY <2>2
      <3>2. b \in Nat /\ 0 <= b /\ 0 \in Nat
        OBVIOUS
      <3>3. \A j \in cmpl : j \in Nat /\ j <= max
        BY <1>4
      <3> HIDE DEF cmpl
      <3>4. PICK k \in 0..b : k \in cmpl /\ \A j \in 0..k-1 : j \notin cmpl
        BY ONLY <3>1, <3>2, Least
      <3>5. \A j \in cmpl : k <= j
        BY <3>2, <3>3, <3>4
      <3>6. len \in cmpl /\ \A j \in cmpl : len <= j
        BY <2>2, <3>4, <3>5
      <3> HIDE DEF len
      <3>7. len \in Nat /\ len <= max
        BY <3>3, <3>6
      <3>8. \A j \in 0..len-1 : j \in 0..max-1 /\ ~(len <= j)
        BY <1>4, <3>7
      <3> QED
        BY <3>6, <3>7, <3>8 DEF cmpl
    <2> QED
      BY <2>1, <2>2
  <1> HIDE DEF cmpl, len
  <1>7. /\ n \in Nat /\ n <= len /\ D + n <= P /\ n <= MaxItem /\ n \in 0..MaxItem
    BY <1>0, <1>1, <1>3, <1>4, <1>5, <1>6
  <1>8. \A m \in D+1..D+n : Slot(m) \notin C
    <2>1. SUFFICES ASSUME NEW m \in D+1..D+n PROVE Slot(m) \notin C
      OBVIOUS
    <2> DEFINE k == m - (D + 1)
    <2>2. k \in 0..len-1 /\ k \in 0..MaxItem /\ D + 1 + k = m
      BY <1>0, <1>6, <1>7
    <2> HIDE DEF k
    <2>3. Plus(f.rd, k) = Slot(m)
      <3>1. Plus(Slot(D + 1), k) = Slot(D + 1 + k)
        BY ONLY <1>0, <2>2, SlotPlus
      <3> QED
        BY <1>1, <2>2, <3>1
    <2> QED
      BY <1>6, <2>2, <2>3
  (* The ring with the block, if one is fetched.                           *)
  <1>9. /\ e \in RingType /\ e.rd = Slot(D + n + 1) /\ e.r = f.r /\ e.inprocess = Win(R, H1)
        /\ e.status_cmpl = C /\ e.hole_pending = f.hole_pending
        /\ e.pktinflight = f.pktinflight /\ e.status = f.status
        /\ Fetched(e.fetchq, c) = F \cup Win(D, D + n)
        /\ (~sup => Disjoint(e.fetchq, c))
        /\ Counts(e, c, wl)
    <2>1. CASE f.bufs = BufCnt \/ len = 0
      <3>1. e = f /\ n = 0
        BY <2>1
      <3>2. H1 = H /\ D + n + 1 = D + 1 /\ D + n = D
        BY <1>0, <3>1
      <3>3. Win(D, D + n) = {}
        <4>1. D+1..D = {}
          BY <1>0
        <4> QED
          BY <3>2, <4>1 DEF Win
      <3> HIDE DEF e, n, H1, C, F
      <3> QED
        BY <1>1, <3>1, <3>2, <3>3 DEF C, F
    <2>2. CASE ~(f.bufs = BufCnt \/ len = 0)
      <3>1. e = WithBlock(f, n) /\ n = len /\ n >= 1
        BY <1>6, <2>2
      <3> DEFINE b == [idx |-> f.rd, len |-> n]
      <3>2. f.rd + n <= MaxItem /\ D + n < R + MaxItem /\ f.fetch_pending + n <= LfragCnt
            /\ f.fetch_pending + n < FetchMod /\ max # 0
        <4> DEFINE i == f.rd
                   fp == f.fetch_pending
        <4>1. /\ i \in Nat /\ fp \in Nat /\ i + a <= MaxItem /\ a \in Nat /\ max \in Nat /\ max <= a
              /\ (max # 0 => fp + max <= LfragCnt) /\ len \in Nat /\ len <= max /\ n = len /\ n >= 1
              /\ D + n <= P /\ P \in Nat /\ P < R + MaxItem
              /\ LfragCnt \in Nat /\ FetchMod \in Nat /\ LfragCnt < FetchMod
          BY <1>1, <1>3, <1>4, <1>5, <1>6, <1>7, <3>1, Sizes DEF Calm
        <4> HIDE DEF i, fp, n
        <4>2. i + n <= MaxItem /\ D + n < R + MaxItem /\ fp + n <= LfragCnt
              /\ fp + n < FetchMod /\ max # 0
          BY ONLY <1>0, <4>1
        <4> QED
          BY ONLY <4>2 DEF i, fp
      <3> HIDE DEF e, n
      <3>3. /\ b \in Block
            /\ e \in RingType /\ e.rd = Slot(D + n + 1) /\ e.r = f.r
            /\ e.inprocess = Win(R, IF H >= D + n THEN H ELSE D + n)
            /\ e.status_cmpl = f.status_cmpl
            /\ e.hole_pending = f.hole_pending /\ e.pktinflight = f.pktinflight
            /\ e.fetch_pending = f.fetch_pending + n
            /\ e.fetchq = Append(f.fetchq, b) /\ e.bufs = f.bufs + 1 /\ e.status = f.status
        BY ONLY <1>1, <1>7, <3>1, <3>2, BlockOnTheWay
      <3>4. BlkOf(b) = Win(D, D + n)
        <4>1. b.idx = Slot(D + 1) /\ b.len = n
          BY <1>1
        <4>2. Blk(Slot(D + 1), n) = Win(D, D + n)
          BY ONLY <1>0, <1>7, BlkWin
        <4> QED
          BY <4>1, <4>2 DEF BlkOf
      <3>5. b.len = n
        OBVIOUS
      <3> HIDE DEF b
      <3>6. /\ Queued(Append(f.fetchq, b)) = Queued(f.fetchq) \cup BlkOf(b)
            /\ SumOf(Each(Append(f.fetchq, b), LenOf)) = SumOf(Each(f.fetchq, LenOf)) + b.len
            /\ Len(Append(f.fetchq, b)) = Len(f.fetchq) + 1
            /\ Disjoint(f.fetchq, c) /\ BlkOf(b) \cap Fetched(f.fetchq, c) = {}
                   => Disjoint(Append(f.fetchq, b), c)
        BY ONLY <1>5, <3>3, QueueAppend
      <3> DEFINE q2 == Append(f.fetchq, b)
      <3>7. e.fetchq = q2
        BY <3>3
      <3> HIDE DEF q2
      <3>8. Fetched(q2, c) = F \cup Win(D, D + n)
        BY <3>4, <3>6 DEF Fetched, q2
      <3>9. ~sup => Disjoint(q2, c)
        <4>1. SUFFICES ASSUME ~sup PROVE Disjoint(q2, c)
          OBVIOUS
        <4>2. F \subseteq Win(R, D)
          BY <1>1, <4>1 DEF Track
        <4>5. n \in Nat /\ D + n <= R + MaxItem
          BY ONLY <1>0, <1>7, <3>2
        <4>3. Win(R, D) \cap Win(D, D + n) = {}
          BY ONLY <1>0, <4>5, WinDisjoint
        <4>4. BlkOf(b) \cap F = {}
          BY <3>4, <4>2, <4>3
        <4> QED
          BY <1>1, <3>6, <4>1, <4>4 DEF q2
      <3>10. Counts(e, c, wl)
        <4>1. /\ SumOf(Each(q2, LenOf)) = SumOf(Each(f.fetchq, LenOf)) + n
              /\ Len(q2) = Len(f.fetchq) + 1
          BY ONLY <3>5, <3>6 DEF q2
        <4>2. SumOf(Each(f.fetchq, LenOf)) \in Nat /\ Len(f.fetchq) \in Nat /\ c.len \in Nat
          <5>1. Len(f.fetchq) \in Nat /\ c.len \in Nat
            BY <1>0, <1>1, <1>5 DEF CbType
          <5> QED
            BY <1>5, <5>1, QueueNone
        <4> DEFINE S == SumOf(Each(f.fetchq, LenOf))
                   S2 == SumOf(Each(q2, LenOf))
                   k == Len(f.fetchq)
                   one == IF c.len # 0 THEN 1 ELSE 0
        <4>3. /\ f.fetch_pending = S + c.len /\ S \in Nat /\ S2 = S + n /\ k \in Nat /\ c.len \in Nat
              /\ f.bufs = k + one /\ Len(q2) = k + 1 /\ f.bufs <= BufCnt /\ f.bufs # BufCnt
              /\ e.fetch_pending = f.fetch_pending + n /\ e.bufs = f.bufs + 1
              /\ f.fetch_pending + n <= LfragCnt /\ one \in Nat /\ n \in Nat /\ BufCnt \in Nat
          BY <1>1, <1>7, <2>2, <3>2, <3>3, <4>1, <4>2, Sizes DEF Counts
        <4> HIDE DEF S, S2, k, one
        <4>4. /\ e.fetch_pending = S2 + c.len /\ e.fetch_pending <= LfragCnt
              /\ e.bufs = Len(q2) + one /\ e.bufs <= BufCnt
          BY ONLY <4>3
        <4> QED
          BY <1>1, <3>3, <3>7, <4>4 DEF Counts, S2, one
      <3> QED
        BY <1>1, <3>3, <3>7, <3>8, <3>9, <3>10
    <2> QED
      BY <2>1, <2>2
  <1>10. Place(R, D + n, H1) /\ H1 \in Nat /\ H1 <= P /\ H <= H1
    BY <1>0, <1>1, <1>7 DEF Place
  <1>11. e.status_cmpl \subseteq Win(R + 1, H1)
    <2>1. C \subseteq Win(R + 1, H)
      BY <1>1 DEF Track
    <2>2. Win(R + 1, H) \subseteq Win(R + 1, H1)
      BY <1>0, <1>10, WinMono
    <2> QED
      BY <1>9, <2>1, <2>2
  <1> HIDE DEF n, e, H1
  <1>12. PICK D2 \in Nat :
           /\ D + n <= D2 /\ D2 <= H1
           /\ \A m \in D+n+1..D2 : Slot(m) \in e.status_cmpl
           /\ Slot(D2 + 1) \notin e.status_cmpl
           /\ g \in RingType /\ g.rd = Slot(D2 + 1) /\ g.r = e.r
           /\ g.inprocess = e.inprocess /\ g.status_cmpl = e.status_cmpl
           /\ g.hole_pending = e.hole_pending /\ g.pktinflight = e.pktinflight
           /\ g.fetch_pending = e.fetch_pending /\ g.fetchq = e.fetchq
           /\ g.bufs = e.bufs /\ g.status = e.status
    <2>1. D + n \in Nat
      BY <1>0, <1>7
    <2> QED
      BY ONLY <1>1, <1>9, <1>10, <1>11, <2>1, w = Slot(P + 1), RdpMoved DEF g
  <1> HIDE DEF g, C, O, F
  <1>13. Place(R, D2, H1)
    BY <1>0, <1>7, <1>10, <1>12 DEF Place
  <1>14. Track(C, O, F \cup Win(D, D + n), sup, R, D2, H1)
    <2>1. /\ \A m \in D+n+1..D2 : Slot(m) \in C
          /\ Slot(D2 + 1) \notin C /\ H <= H1 /\ D + n <= D2
      BY <1>9, <1>10, <1>12
    <2> QED
      BY ONLY <1>1, <1>7, <1>8, <1>13, <2>1, sup \in BOOLEAN, TrackRead
  <1>15. Track(g.status_cmpl, O, Fetched(g.fetchq, c), sup, R, D2, H1)
    BY ONLY <1>9, <1>12, <1>14
  <1>16. Counts(g, c, wl)
    BY <1>9, <1>12 DEF Counts
  <1>17. Indexes(g, P, R, D2, H1)
    BY <1>1, <1>9, <1>10, <1>12, <1>13 DEF Indexes, C
  <1>18. ~sup => Disjoint(g.fetchq, c)
    BY <1>9, <1>12
  <1>19. Core(g, c, wl, sup, P, R, D2, H1)
    BY <1>1, <1>12, <1>15, <1>16, <1>17, <1>18 DEF Core, O
  <1>20. g.status = f.status /\ g.status_cmpl = f.status_cmpl
    BY <1>9, <1>12 DEF C
  <1> QED
    BY ONLY <1>2, <1>10, <1>19, <1>20, D2 \in Nat

-----------------------------------------------------------------------------
(* The invariant of the whole.                                             *)

WlType == [idx : Idx, msg : 1..MaxMsgs]

LeftType == [sup : 0..MaxSup, refuse : 0..MaxRefuse, close : 0..MaxClose,
             poll : 0..MaxPoll]

Rest ==
  /\ slot \in [Idx -> 0..MaxMsgs] /\ posted \in 0..MaxMsgs /\ w = Slot(posted + 1)
  /\ doorbell \in BOOLEAN
  /\ request = [q \in {"flush", "delete"} |-> "none"]
  /\ acked \in [1..MaxMsgs -> Nat] /\ left \in LeftType

(* Each message not yet passed by the read index is in its slot; a message *)
(* is acknowledged once, when it is complete; wl holds the messages it was *)
(* given.                                                                  *)
InSlots(sl, P, R) == \A n \in R+1..P : sl[Slot(n)] = n

Acked(a, C, P, R) ==
  \A n \in 1..MaxMsgs : a[n] = IF n <= R \/ (n <= P /\ Slot(n) \in C) THEN 1 ELSE 0

Held(L, sl) == \A l \in L : l \in WlType /\ l.msg = sl[l.idx]

Live(R, D, H) ==
  /\ Core(ring, cb, wl, Sup(ring), posted, R, D, H)
  /\ InSlots(slot, posted, R)
  /\ Acked(acked, ring.status_cmpl, posted, R)
  /\ Held(wl, slot)

Inv == Rest /\ \E R, D, H \in Nat : Live(R, D, H)

LEMMA CoreFacts ==
  ASSUME NEW f, NEW c, NEW L, NEW sup, NEW P, NEW R, NEW D, NEW H,
         Core(f, c, L, sup, P, R, D, H)
  PROVE  /\ f \in RingType /\ c \in CbType /\ Counts(f, c, L) /\ Indexes(f, P, R, D, H)
         /\ Place(R, D, H) /\ f.r = Slot(R + 1) /\ f.rd = Slot(D + 1) /\ f.inprocess = Win(R, H)
         /\ (~f.hole_pending => f.status_cmpl = {})
         /\ P \in Nat /\ H <= P /\ P < R + MaxItem
         /\ Track(f.status_cmpl, Out(L), Fetched(f.fetchq, c), sup, R, D, H)
         /\ (~sup => Disjoint(f.fetchq, c))
         /\ R \in Nat /\ D \in Nat /\ H \in Nat /\ R <= D /\ D <= H /\ H < R + MaxItem
         /\ MaxItem \in Nat /\ f.fetchq \in Seq(Block) /\ f.status_cmpl \subseteq Idx
         /\ Sup(f) \in BOOLEAN
  <1>1. f \in RingType /\ Place(R, D, H)
    BY DEF Core, Indexes
  <1>2. f.fetchq \in Seq(Block) /\ f.status_cmpl \subseteq Idx /\ Sup(f) \in BOOLEAN
    BY <1>1 DEF RingType, Sup
  <1> QED
    BY <1>1, <1>2, PlaceNat DEF Core, Indexes

(* A step that completes nothing.                                          *)
LEMMA Quiet ==
  ASSUME Rest, NEW R \in Nat, NEW D \in Nat, NEW H \in Nat, Live(R, D, H),
         UNCHANGED <<slot, w, posted, request, acked>>,
         doorbell' \in BOOLEAN, left' \in LeftType,
         NEW D2 \in Nat, NEW H2 \in Nat,
         Core(ring', cb', wl', Sup(ring'), posted, R, D2, H2),
         ring'.status_cmpl = ring.status_cmpl, Held(wl', slot)
  PROVE  Inv'
  <1>1. Rest'
    BY DEF Rest
  <1>2. Core(ring', cb', wl', Sup(ring'), posted', R, D2, H2)
    OBVIOUS
  <1>3. InSlots(slot', posted', R) /\ Acked(acked', ring'.status_cmpl, posted', R)
        /\ Held(wl', slot')
    BY DEF Live
  <1>4. Live(R, D2, H2)'
    BY <1>2, <1>3 DEF Live
  <1> QED
    BY <1>1, <1>4 DEF Inv

(* One that only sets or clears flags.                                     *)
LEMMA Flagged ==
  ASSUME Rest, NEW R \in Nat, NEW D \in Nat, NEW H \in Nat, Live(R, D, H),
         UNCHANGED <<slot, w, posted, request, acked, cb, wl>>,
         doorbell' \in BOOLEAN, left' \in LeftType,
         ring' \in RingType, Same(ring, ring'), Sup(ring') = Sup(ring)
  PROVE  Inv'
  <1>1. Core(ring, cb, wl, Sup(ring), posted, R, D, H) /\ Held(wl, slot)
    BY DEF Live
  <1>2. Core(ring', cb, wl, Sup(ring), posted, R, D, H)
    BY <1>1, SameCore
  <1>3. Core(ring', cb', wl', Sup(ring'), posted, R, D, H)
    BY <1>2
  <1>4. ring'.status_cmpl = ring.status_cmpl
    BY DEF Same
  <1> QED
    BY <1>1, <1>3, <1>4, Quiet

LEMMA InitInv == ASSUME Calm, Init PROVE Inv
  <1>0. MaxItem \in Nat /\ MaxItem >= 2 /\ MaxMsgs \in Nat /\ LfragCnt \in Nat /\ BufCnt \in Nat
        /\ 0 \in Idx
    BY Sizes DEF Idx
  <1>1. Slot(0 + 1) = 0
    <2>1. 0 % MaxItem = 0
      BY <1>0, ModOnce
    <2> QED
      BY <2>1 DEF Slot
  <1>2. Rest
    <2>1. /\ MaxSup \in Nat /\ MaxRefuse \in Nat /\ MaxClose \in Nat /\ MaxPoll \in Nat
      BY FlowRingAssumption
    <2>2. left \in LeftType
      <3>1. /\ MaxSup \in 0..MaxSup /\ MaxRefuse \in 0..MaxRefuse /\ MaxClose \in 0..MaxClose
            /\ MaxPoll \in 0..MaxPoll
        BY <2>1
      <3> QED
        BY ONLY <3>1, Init DEF Init, LeftType
    <2>3. slot \in [Idx -> 0..MaxMsgs] /\ acked \in [1..MaxMsgs -> Nat]
      BY <1>0 DEF Init
    <2>4. posted = 0 /\ w = 0 /\ doorbell \in BOOLEAN
      BY DEF Init
    <2>7. posted \in 0..MaxMsgs
      BY <1>0, <2>4
    <2>5. w = Slot(posted + 1)
      BY ONLY <1>1, <2>4
    <2>6. request = [q \in {"flush", "delete"} |-> "none"]
      BY DEF Init
    <2> QED
      BY ONLY <2>2, <2>3, <2>4, <2>5, <2>6, <2>7 DEF Rest
  <1>3. PICK e \in Seq(Block) : e = <<>> /\ Len(e) = 0
    BY NoElement
  <1>4. /\ ring \in RingType /\ ring.r = 0 /\ ring.rd = 0 /\ ring.inprocess = {}
        /\ ring.status_cmpl = {} /\ ring.pktinflight = 0 /\ ring.fetch_pending = 0
        /\ ring.fetchq = e /\ ring.bufs = 0 /\ ring.status = {}
    BY <1>0, <1>3 DEF Init, NewRing, RingType
  <1>5. cb \in CbType /\ cb.todo = 0 /\ cb.len = 0 /\ cb = NoCb
    BY <1>0 DEF Init, NoCb, CbType
  <1>6. wl = {} /\ posted = 0 /\ Out(wl) = {} /\ IsFiniteSet(wl) /\ Cardinality(wl) = 0
    BY FS_EmptySet DEF Init, Out
  <1>7. Place(0, 0, 0) /\ Win(0, 0) = {}
    BY <1>0 DEF Place, Win
  <1>8. Queued(e) = {} /\ Disjoint(e, cb) /\ SumOf(Each(e, LenOf)) = 0
    <2>1. SumOf(Each(<<>>, LenOf)) = 0
      BY LenOfType, EachEmpty
    <2> QED
      BY <1>3, <2>1, QueueNone
  <1>9. Fetched(e, cb) = {}
    <2>1. 0..cb.todo-1 = {}
      BY <1>5
    <2> QED
      BY <1>8, <2>1 DEF Fetched, Blk
  <1>10. Sup(ring) = FALSE
    BY <1>4 DEF Sup
  <1>11. Track({}, {}, {}, FALSE, 0, 0, 0)
    BY <1>7 DEF Track
  <1>12. Counts(ring, cb, wl)
    <2>1. /\ ring.fetch_pending = SumOf(Each(e, LenOf)) + cb.len
          /\ ring.bufs = Len(e) + (IF cb.len # 0 THEN 1 ELSE 0)
      BY <1>3, <1>4, <1>5, <1>8
    <2>2. cb.todo <= cb.len
      BY <1>5
    <2> QED
      BY <1>0, <1>4, <1>5, <1>6, <2>1, <2>2 DEF Counts
  <1>13. Indexes(ring, posted, 0, 0, 0)
    BY <1>0, <1>1, <1>4, <1>6, <1>7 DEF Indexes
  <1>14. Core(ring, cb, wl, FALSE, posted, 0, 0, 0)
    BY <1>4, <1>5, <1>6, <1>8, <1>9, <1>11, <1>12, <1>13 DEF Core
  <1>15. InSlots(slot, posted, 0) /\ Acked(acked, ring.status_cmpl, posted, 0) /\ Held(wl, slot)
    <2>1. acked = [m \in 1..MaxMsgs |-> 0] /\ \A n \in 1..MaxMsgs : ~(n <= 0)
      BY <1>0 DEF Init
    <2> QED
      BY <1>4, <1>6, <2>1 DEF InSlots, Acked, Held
  <1>16. Live(0, 0, 0)
    BY <1>10, <1>14, <1>15 DEF Live
  <1> QED
    BY <1>2, <1>16 DEF Inv

-----------------------------------------------------------------------------
(* The steps.                                                              *)

LEMMA PostKeeps ==
  ASSUME Rest, NEW R \in Nat, NEW D \in Nat, NEW H \in Nat, Live(R, D, H),
         dhd_prot_txdata
  PROVE  Inv' /\ Window!Post
  <1> DEFINE P == posted
             C == ring.status_cmpl
  <1>1. Core(ring, cb, wl, Sup(ring), P, R, D, H) /\ Held(wl, slot)
        /\ InSlots(slot, P, R) /\ Acked(acked, C, P, R)
    BY DEF Live
  <1>2. /\ P \in Nat /\ R <= D /\ D <= H /\ H <= P /\ P < R + MaxItem /\ MaxItem \in Nat
        /\ ring.r = Slot(R + 1) /\ Indexes(ring, P, R, D, H) /\ R <= P
        /\ Track(C, Out(wl), Fetched(ring.fetchq, cb), Sup(ring), R, D, H)
    BY <1>1, CoreFacts
  <1>0. /\ w = Slot(P + 1) /\ MaxItem >= 2 /\ P + 1 \in Nat /\ P + 1 >= 1
        /\ slot \in [Idx -> 0..MaxMsgs] /\ acked \in [1..MaxMsgs -> Nat] /\ MaxMsgs \in Nat
    BY <1>2, Sizes DEF Rest
  <1>3. /\ posted' = P + 1 /\ slot' = [slot EXCEPT ![w] = P + 1] /\ w' = NEXTTXP(w, MaxItem)
        /\ P < MaxMsgs /\ CHECK_WRITE_SPACE(ring.r, w, MaxItem) # 0 /\ doorbell' = TRUE
        /\ UNCHANGED <<request, ring, cb, wl, acked, left>>
    BY DEF dhd_prot_txdata
  <1>4. w \in Idx /\ w \in Nat /\ w < MaxItem
    BY <1>0, SlotType
  (* There is room: the new message takes no slot still in use.            *)
  <1>5. P + 1 < R + MaxItem
    <2> DEFINE r == ring.r
               n == NTXPACTIVE(r, w, MaxItem)
    <2>1. n = P - R
      <3>1. R + 1 \in Nat /\ R + 1 >= 1 /\ R + 1 <= P + 1 /\ P + 1 < (R + 1) + MaxItem
        BY <1>0, <1>2
      <3>2. NTXPACTIVE(Slot(R + 1), Slot(P + 1), MaxItem) = (P + 1) - (R + 1)
        BY ONLY <1>0, <3>1, SlotDist
      <3>3. n = (P + 1) - (R + 1)
        BY ONLY <1>0, <1>2, <3>2
      <3> HIDE DEF n
      <3> QED
        BY <1>2, <3>3
    <2>2. r \in Nat /\ r < MaxItem
      <3>1. R + 1 \in Nat /\ R + 1 >= 1
        BY <1>2
      <3> QED
        BY <1>2, <3>1, SlotType
    <2> HIDE DEF n, r
    <2>3. WRITE_SPACE_AVAIL(r, w, MaxItem) = (MaxItem - n) - 1
      BY DEF WRITE_SPACE_AVAIL, n
    <2>4. WRITE_SPACE_AVAIL_CONTINUOUS(r, w, MaxItem) \in Nat
          /\ WRITE_SPACE_AVAIL_CONTINUOUS(r, w, MaxItem) >= 1
      BY ONLY <1>2, <1>4, <2>2 DEF WRITE_SPACE_AVAIL_CONTINUOUS
    <2>5. MIN(WRITE_SPACE_AVAIL(r, w, MaxItem),
              WRITE_SPACE_AVAIL_CONTINUOUS(r, w, MaxItem)) # 0
      BY ONLY <1>3 DEF CHECK_WRITE_SPACE, r
    <2> DEFINE a == WRITE_SPACE_AVAIL(r, w, MaxItem)
               b == WRITE_SPACE_AVAIL_CONTINUOUS(r, w, MaxItem)
    <2>6. a = (MaxItem - n) - 1 /\ b \in Nat /\ b >= 1 /\ MIN(a, b) # 0
      BY ONLY <2>3, <2>4, <2>5
    <2> HIDE DEF a, b
    <2>7. a # 0
      BY ONLY <2>6 DEF MIN
    <2>8. R \in Nat /\ P \in Nat /\ MaxItem \in Nat
      BY <1>2
    <2> HIDE DEF P
    <2> QED
      BY ONLY <2>1, <2>6, <2>7, <2>8, <1>2
  <1>6. w' = Slot(posted' + 1)
    <2>1. 1 \in 0..MaxItem
      BY <1>0, <1>2
    <2>2. Plus(w, 1) = Slot(P + 1 + 1)
      BY <1>0, <2>1, SlotPlus
    <2>3. Plus(w, 1) = IF w + 1 < MaxItem THEN w + 1 ELSE (w + 1) - MaxItem
      BY ONLY <1>4, <2>1, PlusIs
    <2>4. NEXTTXP(w, MaxItem) = Plus(w, 1)
      BY ONLY <1>0, <1>2, <1>4, <2>3 DEF NEXTTXP
    <2> QED
      BY ONLY <1>3, <2>2, <2>4
  <1>7. Rest'
    <2>1. P + 1 \in 0..MaxMsgs
      BY <1>0, <1>2, <1>3
    <2> HIDE DEF P
    <2> QED
      BY <1>0, <1>3, <1>4, <1>6, <2>1 DEF Rest
  <1>8. Core(ring, cb, wl, Sup(ring), P + 1, R, D, H)
    <2>1. Indexes(ring, P + 1, R, D, H)
      BY <1>0, <1>2, <1>5 DEF Indexes
    <2> HIDE DEF P
    <2> QED
      BY <1>1, <2>1 DEF Core
  <1>9. \A n \in R+1..P : Slot(n) # w
    <2>1. SUFFICES ASSUME NEW n \in R+1..P PROVE Slot(n) # Slot(P + 1)
      BY <1>0
    <2>2. n \in Nat /\ n >= 1 /\ n < (P + 1) + MaxItem /\ P + 1 < n + MaxItem /\ n # P + 1
      BY <1>2, <1>5
    <2> QED
      BY ONLY <1>0, <2>2, SlotInj
  <1>10. InSlots(slot', P + 1, R)
    <2>1. SUFFICES ASSUME NEW n \in R+1..P+1 PROVE slot'[Slot(n)] = n
      BY DEF InSlots
    <2>2. CASE n = P + 1
      BY <1>0, <1>3, <1>4, <2>2
    <2>3. CASE n # P + 1
      <3>1. n \in R+1..P /\ n \in Nat /\ n >= 1
        BY <1>2, <2>3
      <3>2. Slot(n) # w /\ Slot(n) \in Idx
        BY <1>9, <3>1, SlotType
      <3>3. slot[Slot(n)] = n
        BY <1>1, <3>1 DEF InSlots
      <3> QED
        BY <1>0, <1>3, <3>2, <3>3
    <2> QED
      BY <2>2, <2>3
  <1>11. Held(wl, slot')
    <2>1. SUFFICES ASSUME NEW l \in wl PROVE l \in WlType /\ l.msg = slot'[l.idx]
      BY DEF Held
    <2>2. l \in WlType /\ l.msg = slot[l.idx]
      BY <1>1 DEF Held
    <2>3. l.idx \in Win(R, H)
      BY <1>2 DEF Track, Out
    <2>4. PICK n \in R+1..H : l.idx = Slot(n)
      BY <2>3 DEF Win
    <2>5. n \in R+1..P
      BY <1>2
    <2>6. l.idx # w /\ l.idx \in Idx
      BY <1>9, <2>2, <2>4, <2>5 DEF WlType
    <2> QED
      BY <1>0, <1>3, <2>2, <2>6
  <1>12. Acked(acked, C, P + 1, R)
    <2>1. Slot(P + 1) \notin C
      <3>1. P + 1 \in R+1..R+MaxItem /\ R + 1 \in Nat /\ R <= R + 1 /\ H <= R + MaxItem
            /\ C \subseteq Win(R + 1, H) /\ ~(P + 1 <= H)
        BY <1>2, <1>5 DEF Track
      <3>2. Slot(P + 1) \in C => R + 1 < P + 1 /\ P + 1 <= H
        BY ONLY <3>1, R \in Nat, H \in Nat, OfWindow
      <3> QED
        BY <3>1, <3>2
    <2>2. SUFFICES ASSUME NEW n \in 1..MaxMsgs
                   PROVE  acked[n] = IF n <= R \/ (n <= P + 1 /\ Slot(n) \in C) THEN 1 ELSE 0
      BY DEF Acked
    <2>3. acked[n] = IF n <= R \/ (n <= P /\ Slot(n) \in C) THEN 1 ELSE 0
      BY <1>1 DEF Acked
    <2>4. n <= P + 1 <=> n <= P \/ n = P + 1
      BY <1>2
    <2> HIDE DEF P, C
    <2> QED
      BY <2>1, <2>3, <2>4
  <1>13. Inv'
    <2>1. Live(R, D, H)'
      BY <1>3, <1>8, <1>10, <1>11, <1>12 DEF Live
    <2> QED
      BY <1>7, <2>1 DEF Inv
  <1>14. Window!Post
    <2>1. ASSUME NEW m \in 1..P, m + (MaxItem - 1) <= P + 1 PROVE acked[m] = 1
      <3>1. m <= R /\ m \in 1..MaxMsgs
        BY <1>0, <1>2, <1>3, <1>5, <2>1
      <3> QED
        BY <1>1, <3>1 DEF Acked
    <2> QED
      BY <1>3, <2>1 DEF Window!Post
  <1> QED
    BY <1>13, <1>14

(* The handlers that only look at flags.                                   *)
LEMMA IntrKeeps ==
  ASSUME Rest, NEW R \in Nat, NEW D \in Nat, NEW H \in Nat, Live(R, D, H), MsgbufIntr
  PROVE  Inv'
  <1>1. ring \in RingType
    BY CoreFacts DEF Live
  <1>2. /\ ring' = pciedev_schedule_flow_ring_read_buffer(ring) /\ doorbell' = FALSE
        /\ UNCHANGED <<slot, w, posted, request, cb, wl, acked, left>>
    BY DEF MsgbufIntr
  <1>3. ring' \in RingType /\ Same(ring, ring') /\ Sup(ring') = Sup(ring)
    BY <1>1, <1>2, Scheduled
  <1>4. left' \in LeftType
    BY <1>2 DEF Rest
  <1> QED
    BY <1>2, <1>3, <1>4, Flagged

LEMMA PortKeeps ==
  ASSUME Rest, NEW R \in Nat, NEW D \in Nat, NEW H \in Nat, Live(R, D, H),
         NEW open \in BOOLEAN, pciedev_upd_flr_port_handle(open)
  PROVE  Inv'
  <1>1. ring \in RingType
    BY CoreFacts DEF Live
  <1>2. /\ UNCHANGED <<slot, w, posted, doorbell, request, cb, wl, acked>>
        /\ ring' = Clr(ring, "PORT_CLOSED") \/ ring' = Set(ring, "PORT_CLOSED")
        /\ left' = left \/ (left.close > 0 /\ left' = [left EXCEPT !.close = @ - 1])
    BY DEF pciedev_upd_flr_port_handle
  <1>3. ring' \in RingType /\ Same(ring, ring') /\ Sup(ring') = Sup(ring)
    <2>1. /\ Clr(ring, "PORT_CLOSED") \in RingType /\ Same(ring, Clr(ring, "PORT_CLOSED"))
          /\ Clr(ring, "PORT_CLOSED").status = ring.status \ {"PORT_CLOSED"}
          /\ Set(ring, "PORT_CLOSED") \in RingType /\ Same(ring, Set(ring, "PORT_CLOSED"))
          /\ Set(ring, "PORT_CLOSED").status = ring.status \cup {"PORT_CLOSED"}
      BY <1>1, FlagOps DEF Flags
    <2>2. ring' \in RingType /\ Same(ring, ring')
      BY ONLY <1>2, <2>1
    <2>3. ring'.status = ring.status \ {"PORT_CLOSED"} \/ ring'.status = ring.status \cup {"PORT_CLOSED"}
      BY ONLY <1>2, <2>1
    <2>4. Sup(ring') = Sup(ring)
      BY ONLY <2>3 DEF Sup
    <2> QED
      BY <2>2, <2>4
  <1>4. left' \in LeftType
    <2>1. left \in LeftType
      BY DEF Rest
    <2>2. MaxClose \in Nat
      BY FlowRingAssumption
    <2>3. left.close > 0 => left.close - 1 \in 0..MaxClose
      BY <2>1, <2>2 DEF LeftType
    <2> DEFINE k == left.close - 1
    <2>4. left.close > 0 => [left EXCEPT !.close = k] \in LeftType
      <3>1. left.close > 0 => k \in 0..MaxClose
        BY <2>3
      <3> HIDE DEF k
      <3> QED
        BY ONLY <2>1, <3>1 DEF LeftType
    <2>5. left.close > 0 => [left EXCEPT !.close = @ - 1] = [left EXCEPT !.close = k]
      BY <2>1 DEF LeftType
    <2> QED
      BY ONLY <1>2, <2>1, <2>4, <2>5
  <1>5. doorbell' \in BOOLEAN
    BY <1>2 DEF Rest
  <1> QED
    BY <1>2, <1>3, <1>4, <1>5, Flagged

LEMMA TimerKeeps ==
  ASSUME Calm, Rest, NEW R \in Nat, NEW D \in Nat, NEW H \in Nat, Live(R, D, H),
         FlowScheduleTimer
  PROVE  Inv'
  <1> DEFINE e == [ring EXCEPT !.timer = FALSE]
             f == ClearSup(e)
  <1>1. Core(ring, cb, wl, Sup(ring), posted, R, D, H) /\ Held(wl, slot) /\ w = Slot(posted + 1)
        /\ ring \in RingType
    BY CoreFacts DEF Live, Rest
  <1>2. e \in RingType /\ Same(ring, e) /\ e.status = ring.status
    BY <1>1, TimerOps
  <1>3. UNCHANGED <<slot, w, posted, doorbell, request, cb, wl, acked, left>>
    BY DEF FlowScheduleTimer
  <1>4. \/ ring' = pciedev_schedule_flow_ring_read_buffer(f)
        \/ \E n \in 1..MaxFetch :
             ring' = pciedev_schedule_flow_ring_read_buffer(
                       Clr(pciedev_read_flow_ring_host_buffer(f, n), "PKT_PENDING"))
    <2>1. MaxFetch \in Nat /\ MaxFetch >= 1
      BY FlowRingAssumption
    <2>2. {1} \subseteq 1..MaxFetch
      BY <2>1
    <2> QED
      BY <2>2 DEF FlowScheduleTimer
  <1> HIDE DEF e
  <1>5. Sup(e) = Sup(ring) /\ Core(e, cb, wl, Sup(ring), posted, R, D, H)
    BY <1>1, <1>2, SameCore DEF Sup
  <1>6. Core(f, cb, wl, Sup(f), posted, R, D, H) /\ Same(e, f)
    BY <1>1, <1>5, CoreFacts, Cleared
  <1> HIDE DEF f
  <1>7. f \in RingType /\ f.status_cmpl = ring.status_cmpl /\ Sup(f) \in BOOLEAN
    BY <1>2, <1>6, CoreFacts DEF Same
  (* The timer's work done, it may be started again.                       *)
  <1>8. ASSUME NEW g, NEW D2 \in Nat, NEW H2 \in Nat,
               Core(g, cb, wl, Sup(g), posted, R, D2, H2),
               g.status_cmpl = ring.status_cmpl,
               ring' = pciedev_schedule_flow_ring_read_buffer(g)
        PROVE  Inv'
    <2>1. g \in RingType
      BY <1>8, CoreFacts
    <2>2. ring' \in RingType /\ Same(g, ring') /\ Sup(ring') = Sup(g)
      BY <1>8, <2>1, Scheduled
    <2>3. Core(ring', cb, wl, Sup(g), posted, R, D2, H2)
      BY <1>8, <2>2, SameCore
    <2>4. Core(ring', cb', wl', Sup(ring'), posted, R, D2, H2)
      BY <1>3, <2>2, <2>3
    <2>5. ring'.status_cmpl = ring.status_cmpl
      BY <1>8, <2>2 DEF Same
    <2>6. doorbell' \in BOOLEAN /\ left' \in LeftType /\ Held(wl', slot)
      BY <1>1, <1>3 DEF Rest
    <2> QED
      BY <1>3, <2>4, <2>5, <2>6, Quiet
  <1>9. CASE ring' = pciedev_schedule_flow_ring_read_buffer(f)
    BY <1>6, <1>7, <1>8, <1>9
  <1>10. ASSUME NEW n \in 1..MaxFetch,
                ring' = pciedev_schedule_flow_ring_read_buffer(
                          Clr(pciedev_read_flow_ring_host_buffer(f, n), "PKT_PENDING"))
         PROVE  Inv'
    <2> DEFINE g == pciedev_read_flow_ring_host_buffer(f, n)
               h == Clr(g, "PKT_PENDING")
    <2>1. n \in Nat
      OBVIOUS
    <2>2. /\ \E D2, H2 \in Nat : Core(g, cb, wl, Sup(f), posted, R, D2, H2)
          /\ g.status = f.status /\ g.status_cmpl = f.status_cmpl
      BY <1>1, <1>6, <1>7, <2>1, ReadKeeps
    <2>3. PICK D2 \in Nat, H2 \in Nat : Core(g, cb, wl, Sup(f), posted, R, D2, H2)
      BY <2>2
    <2> HIDE DEF g
    <2>4. g \in RingType
      BY <2>3, CoreFacts
    <2>5. h \in RingType /\ Same(g, h) /\ h.status = g.status \ {"PKT_PENDING"}
      BY <2>4, FlagOps DEF Flags
    <2>6. ring' = pciedev_schedule_flow_ring_read_buffer(h)
      BY <1>10 DEF g
    <2> HIDE DEF h
    <2>7. Sup(h) = Sup(f)
      BY <2>2, <2>5 DEF Sup
    <2>8. Core(h, cb, wl, Sup(h), posted, R, D2, H2)
      BY <2>3, <2>5, <2>7, SameCore
    <2>9. h.status_cmpl = ring.status_cmpl
      BY <1>7, <2>2, <2>5 DEF Same
    <2> QED
      BY <1>8, <2>6, <2>8, <2>9
  <1> QED
    BY <1>4, <1>9, <1>10

LEMMA PollKeeps ==
  ASSUME Calm, Rest, NEW R \in Nat, NEW D \in Nat, NEW H \in Nat, Live(R, D, H),
         NEW n \in 1..MaxFetch, pciedev_process_reqst_packet(n)
  PROVE  Inv'
  <1> DEFINE g == pciedev_read_flow_ring_host_buffer(ring, n)
             h == Clr(ring, "PKT_PENDING")
  <1>1. Core(ring, cb, wl, Sup(ring), posted, R, D, H) /\ Held(wl, slot) /\ w = Slot(posted + 1)
        /\ ring \in RingType /\ Sup(ring) \in BOOLEAN
    BY CoreFacts DEF Live, Rest
  <1>2. /\ UNCHANGED <<slot, w, posted, doorbell, request, cb, wl, acked>>
        /\ left.poll > 0 /\ left' = [left EXCEPT !.poll = @ - 1]
        /\ ring' = h \/ ring' = g
    BY DEF pciedev_process_reqst_packet
  <1>3. left' \in LeftType
    <2>1. left \in LeftType /\ MaxPoll \in Nat
      BY FlowRingAssumption DEF Rest
    <2> DEFINE k == left.poll - 1
    <2>2. k \in 0..MaxPoll
      BY <1>2, <2>1 DEF LeftType
    <2>3. left' = [left EXCEPT !.poll = k]
      BY <1>2, <2>1 DEF LeftType
    <2> HIDE DEF k
    <2> QED
      BY ONLY <2>1, <2>2, <2>3 DEF LeftType
  <1>4. doorbell' \in BOOLEAN /\ Held(wl', slot)
    BY <1>1, <1>2 DEF Rest
  <1>5. CASE ring' = h
    <2>1. h \in RingType /\ Same(ring, h) /\ h.status = ring.status \ {"PKT_PENDING"}
      BY <1>1, FlagOps DEF Flags
    <2>2. ring' \in RingType /\ Same(ring, ring') /\ Sup(ring') = Sup(ring)
      BY <1>5, <2>1 DEF Sup
    <2> QED
      BY <1>2, <1>3, <1>4, <2>2, Flagged
  <1>6. CASE ring' = g
    <2>1. n \in Nat
      OBVIOUS
    <2>2. /\ \E D2, H2 \in Nat : Core(g, cb, wl, Sup(ring), posted, R, D2, H2)
          /\ g.status = ring.status /\ g.status_cmpl = ring.status_cmpl
      BY <1>1, <2>1, ReadKeeps
    <2>3. PICK D2 \in Nat, H2 \in Nat : Core(g, cb, wl, Sup(ring), posted, R, D2, H2)
      BY <2>2
    <2> HIDE DEF g
    <2>4. Sup(ring') = Sup(ring) /\ ring'.status_cmpl = ring.status_cmpl
      BY <1>6, <2>2 DEF Sup
    <2>5. Core(ring', cb', wl', Sup(ring'), posted, R, D2, H2)
      BY <1>2, <1>6, <2>3, <2>4
    <2> QED
      BY <1>2, <1>3, <1>4, <2>4, <2>5, Quiet
  <1> QED
    BY <1>2, <1>5, <1>6

(* The callback takes the oldest block.                                    *)
LEMMA FetchCbKeeps ==
  ASSUME Rest, NEW R \in Nat, NEW D \in Nat, NEW H \in Nat, Live(R, D, H), FetchCb
  PROVE  Inv'
  <1> DEFINE q == ring.fetchq
             b == q[1]
             t == Tail(q)
  <1>1. Core(ring, cb, wl, Sup(ring), posted, R, D, H) /\ Held(wl, slot)
    BY DEF Live
  <1>2. /\ ring \in RingType /\ cb \in CbType /\ Counts(ring, cb, wl) /\ q \in Seq(Block)
        /\ Indexes(ring, posted, R, D, H) /\ MaxItem \in Nat
        /\ Track(ring.status_cmpl, Out(wl), Fetched(q, cb), Sup(ring), R, D, H)
        /\ (~Sup(ring) => Disjoint(q, cb))
    BY <1>1, CoreFacts
  <1>3. /\ cb = NoCb /\ q # <<>>
        /\ cb' = [idx |-> b.idx, todo |-> b.len, len |-> b.len, sentup |-> FALSE]
        /\ ring' = [ring EXCEPT !.fetchq = Tail(@)]
        /\ UNCHANGED <<slot, w, posted, doorbell, request, wl, acked, left>>
    BY DEF FetchCb, Idle
  <1>4. /\ b \in Block /\ t \in Seq(Block) /\ Len(t) = Len(q) - 1
        /\ Len(q) \in Nat /\ Len(q) >= 1
        /\ Queued(q) = Queued(t) \cup BlkOf(b)
        /\ SumOf(Each(q, LenOf)) = b.len + SumOf(Each(t, LenOf))
        /\ SumOf(Each(t, LenOf)) \in Nat
        /\ Disjoint(q, cb) =>
             /\ \A j, k \in 1..Len(t) : j < k => BlkOf(t[j]) \cap BlkOf(t[k]) = {}
             /\ \A k \in 1..Len(t) : BlkOf(b) \cap BlkOf(t[k]) = {}
    BY ONLY <1>2, <1>3, QueueTail
  <1> HIDE DEF b
  <1>5. b.idx \in Idx /\ b.len \in 1..MaxItem /\ b.len \in Nat /\ b.len # 0
    BY <1>2, <1>4 DEF Block
  <1>6. cb' \in CbType /\ cb'.len = b.len /\ cb'.todo = b.len /\ cb'.idx = b.idx
    BY <1>2, <1>3, <1>5 DEF CbType
  <1>7. ring' = [ring EXCEPT !.fetchq = t]
    BY <1>2, <1>3 DEF RingType
  <1> HIDE DEF t
  <1>8. /\ ring' \in RingType /\ ring'.fetchq = t /\ ring'.r = ring.r /\ ring'.rd = ring.rd
        /\ ring'.inprocess = ring.inprocess /\ ring'.status_cmpl = ring.status_cmpl
        /\ ring'.hole_pending = ring.hole_pending /\ ring'.pktinflight = ring.pktinflight
        /\ ring'.fetch_pending = ring.fetch_pending /\ ring'.bufs = ring.bufs
        /\ ring'.status = ring.status
    BY <1>2, <1>4, <1>7 DEF RingType
  <1>9. Fetched(t, cb') = Fetched(q, cb)
    <2>1. cb.todo = 0 /\ cb.len = 0
      BY <1>3 DEF NoCb
    <2>2. 0..cb.todo-1 = {}
      BY <2>1
    <2>3. Blk(cb.idx, cb.todo) = {}
      BY <2>2 DEF Blk
    <2>4. Blk(cb'.idx, cb'.todo) = BlkOf(b)
      BY <1>6 DEF BlkOf
    <2> QED
      BY <1>4, <2>3, <2>4 DEF Fetched
  <1>10. ~Sup(ring) => Disjoint(t, cb')
    <2>1. Blk(cb'.idx, cb'.todo) = BlkOf(b)
      BY <1>6 DEF BlkOf
    <2> QED
      BY <1>2, <1>4, <2>1 DEF Disjoint
  <1>11. Counts(ring', cb', wl)
    <2>1. cb.len = 0
      BY <1>3 DEF NoCb
    <2> DEFINE S == SumOf(Each(q, LenOf))
               S2 == SumOf(Each(t, LenOf))
    <2>2. S = b.len + S2 /\ S2 \in Nat /\ ring.fetch_pending = S + 0
          /\ ring.bufs = Len(q) + 0 /\ Len(t) = Len(q) - 1 /\ Len(q) \in Nat
      BY <1>2, <1>4, <2>1 DEF Counts
    <2> HIDE DEF S, S2
    <2>3. ring.fetch_pending = S2 + b.len /\ ring.bufs = Len(t) + 1
      BY ONLY <1>5, <2>2
    <2>4. cb'.todo <= cb'.len /\ cb'.len # 0
      BY <1>5, <1>6
    <2> QED
      BY <1>2, <1>6, <1>8, <2>3, <2>4 DEF Counts, S2
  <1>12. Indexes(ring', posted, R, D, H) /\ Sup(ring') = Sup(ring)
    BY <1>2, <1>8 DEF Indexes, Sup
  <1> HIDE DEF q
  <1>13. Core(ring', cb', wl', Sup(ring'), posted, R, D, H)
    BY <1>2, <1>3, <1>6, <1>8, <1>9, <1>10, <1>11, <1>12 DEF Core
  <1>14. doorbell' \in BOOLEAN /\ left' \in LeftType /\ Held(wl', slot)
    BY <1>1, <1>3 DEF Rest
  <1> QED
    BY <1>3, <1>8, <1>13, <1>14, Quiet

LEMMA InBlk == ASSUME NEW c \in CbType, c.todo > 0 PROVE c.idx \in Blk(c.idx, c.todo)
  <1>1. c.idx \in Idx /\ c.idx \in Nat /\ c.idx < MaxItem /\ 0 \in 0..c.todo-1 /\ 0 \in 0..MaxItem
    BY Sizes DEF CbType, Idx
  <1>2. Plus(c.idx, 0) = IF c.idx + 0 < MaxItem THEN c.idx + 0 ELSE (c.idx + 0) - MaxItem
    BY ONLY <1>1, PlusIs
  <1>3. Plus(c.idx, 0) = c.idx
    BY <1>1, <1>2
  <1> QED
    BY <1>1, <1>3 DEF Blk

(* The message at work in the callback, and what is left after it.         *)
After(c, b) == [c EXCEPT !.idx = Plus(@, 1), !.todo = @ - 1, !.sentup = b]

LEMMA AtWork ==
  ASSUME Rest, NEW R \in Nat, NEW D \in Nat, NEW H \in Nat, Live(R, D, H), InCb
  PROVE  /\ cb.idx \in Fetched(ring.fetchq, cb) /\ cb.len # 0
         /\ \E m \in Nat : /\ R < m /\ m <= H /\ cb.idx = Slot(m)
                           /\ slot[cb.idx] = m /\ m \in 1..MaxMsgs
         /\ \A b \in BOOLEAN :
              LET d == After(cb, b)
              IN  /\ d \in CbType /\ d.len = cb.len /\ d.todo <= d.len /\ d.len # 0
                  /\ Blk(d.idx, d.todo) \subseteq Blk(cb.idx, cb.todo) \ {cb.idx}
                  /\ Fetched(ring.fetchq, d) \subseteq Fetched(ring.fetchq, cb)
                  /\ Fetched(ring.fetchq, cb) \subseteq Fetched(ring.fetchq, d) \cup {cb.idx}
  <1> DEFINE q == ring.fetchq
             F == Fetched(q, cb)
  <1>1. Core(ring, cb, wl, Sup(ring), posted, R, D, H) /\ InSlots(slot, posted, R)
    BY DEF Live
  <1>2. /\ cb \in CbType /\ Counts(ring, cb, wl) /\ H <= posted /\ D <= H /\ R <= D
        /\ Track(ring.status_cmpl, Out(wl), F, Sup(ring), R, D, H) /\ Sup(ring) \in BOOLEAN
    BY <1>1, CoreFacts
  <1>3. cb.todo > 0 /\ cb.todo <= cb.len /\ cb.todo \in Nat /\ cb.len \in Nat
    BY <1>2, Sizes DEF InCb, Counts, CbType
  <1>4. \A b \in BOOLEAN :
          LET d == After(cb, b)
          IN  /\ d \in CbType /\ d.len = cb.len /\ d.todo = cb.todo - 1
              /\ Blk(d.idx, d.todo) \subseteq Blk(cb.idx, cb.todo) \ {cb.idx}
              /\ Blk(cb.idx, cb.todo) \subseteq Blk(d.idx, d.todo) \cup {cb.idx}
              /\ cb.idx \in Blk(cb.idx, cb.todo)
    <2>1. SUFFICES ASSUME NEW b \in BOOLEAN
                   PROVE  LET d == After(cb, b)
                          IN  /\ d \in CbType /\ d.len = cb.len /\ d.todo = cb.todo - 1
                              /\ Blk(d.idx, d.todo) \subseteq Blk(cb.idx, cb.todo) \ {cb.idx}
                              /\ Blk(cb.idx, cb.todo) \subseteq Blk(d.idx, d.todo) \cup {cb.idx}
                              /\ cb.idx \in Blk(cb.idx, cb.todo)
      OBVIOUS
    <2>2. cb \in CbType /\ cb.todo > 0
      BY <1>2, <1>3
    <2>3. LET d == [cb EXCEPT !.idx = Plus(@, 1), !.todo = @ - 1, !.sentup = b]
          IN  /\ d \in CbType /\ d.len = cb.len /\ d.todo = cb.todo - 1
              /\ Blk(d.idx, d.todo) \subseteq Blk(cb.idx, cb.todo) \ {cb.idx}
              /\ Blk(cb.idx, cb.todo) \subseteq Blk(d.idx, d.todo) \cup {cb.idx}
              /\ cb.idx \in Blk(cb.idx, cb.todo)
      BY ONLY <2>2, b \in BOOLEAN, NextInBlock
    <2> QED
      BY ONLY <2>3 DEF After
  <1>5. cb.idx \in F
    BY <1>4 DEF Fetched
  <1>6. F \subseteq Win(R, H)
    <2>1. CASE Sup(ring)
      <3>1. PICK n \in R+1..D+1 : F \subseteq Win(n - 1, H)
        BY <1>2, <2>1 DEF Track
      <3>2. n - 1 \in Nat /\ R <= n - 1 /\ H <= H
        BY <1>2
      <3> HIDE DEF F
      <3>3. Win(n - 1, H) \subseteq Win(R, H)
        BY ONLY <3>2, R \in Nat, H \in Nat, WinMono
      <3> QED
        BY <3>1, <3>3
    <2>2. CASE ~Sup(ring)
      <3>1. F \subseteq Win(R, D)
        BY <1>2, <2>2 DEF Track
      <3> HIDE DEF F
      <3>2. R <= R
        OBVIOUS
      <3>3. Win(R, D) \subseteq Win(R, H)
        BY ONLY <1>2, <3>2, R \in Nat, D \in Nat, H \in Nat, WinMono
      <3> QED
        BY <3>1, <3>3
    <2> QED
      BY <2>1, <2>2
  <1>7. \E m \in Nat : /\ R < m /\ m <= H /\ cb.idx = Slot(m)
                       /\ slot[cb.idx] = m /\ m \in 1..MaxMsgs
    <2>1. cb.idx \in Win(R, H)
      BY <1>5, <1>6
    <2>2. PICK m \in R+1..H : cb.idx = Slot(m)
      BY <2>1 DEF Win
    <2>3. posted \in Nat /\ posted <= MaxMsgs
      BY Sizes DEF Rest
    <2>4. m \in R+1..posted /\ m \in Nat /\ R < m /\ m <= H /\ m \in 1..MaxMsgs
      BY <1>2, <2>3, Sizes
    <2>5. slot[Slot(m)] = m
      BY <1>1, <2>4 DEF InSlots
    <2> QED
      BY <2>2, <2>4, <2>5
  <1>8. ASSUME NEW b \in BOOLEAN,
               NEW d, d = After(cb, b)
        PROVE  /\ d \in CbType /\ d.len = cb.len /\ d.todo <= d.len /\ d.len # 0
               /\ Blk(d.idx, d.todo) \subseteq Blk(cb.idx, cb.todo) \ {cb.idx}
               /\ Fetched(q, d) \subseteq F /\ F \subseteq Fetched(q, d) \cup {cb.idx}
    <2>2. /\ d \in CbType /\ d.len = cb.len /\ d.todo = cb.todo - 1
          /\ Blk(d.idx, d.todo) \subseteq Blk(cb.idx, cb.todo) \ {cb.idx}
          /\ Blk(cb.idx, cb.todo) \subseteq Blk(d.idx, d.todo) \cup {cb.idx}
      BY <1>4, <1>8
    <2>3. d.todo <= d.len /\ d.len # 0
      BY <1>3, <2>2
    <2> QED
      BY <2>2, <2>3 DEF Fetched
  <1>9. cb.len # 0
    BY <1>3
  <1> QED
    BY <1>5, <1>7, <1>8, <1>9

(* A message is skipped while suppression lasts.                           *)
LEMMA SkipKeeps ==
  ASSUME Rest, NEW R \in Nat, NEW D \in Nat, NEW H \in Nat, Live(R, D, H), SkipMsg
  PROVE  Inv'
  <1> DEFINE q == ring.fetchq
             F == Fetched(q, cb)
             g == pciedev_adjust_flow_fetch_ptr(ring, cb.idx)
  <1>1. Core(ring, cb, wl, Sup(ring), posted, R, D, H) /\ Held(wl, slot)
    BY DEF Live
  <1>2. /\ ring \in RingType /\ cb \in CbType /\ Counts(ring, cb, wl)
        /\ Indexes(ring, posted, R, D, H) /\ Place(R, D, H)
        /\ ring.r = Slot(R + 1) /\ ring.rd = Slot(D + 1)
        /\ Track(ring.status_cmpl, Out(wl), F, Sup(ring), R, D, H)
    BY <1>1, CoreFacts
  <1>3. /\ InCb /\ Sup(ring) = TRUE /\ ring' = g
        /\ cb' = After(cb, cb.sentup)
        /\ UNCHANGED <<slot, w, posted, doorbell, request, wl, acked, left>>
    BY DEF SkipMsg, NextMsg, Has, Sup, After
  <1>4. cb.sentup \in BOOLEAN
    BY <1>2 DEF CbType
  <1>5. /\ cb.idx \in F
        /\ cb' \in CbType /\ cb'.len = cb.len /\ cb'.todo <= cb'.len /\ cb'.len # 0
        /\ Fetched(q, cb') \subseteq F /\ F \subseteq Fetched(q, cb') \cup {cb.idx}
    BY <1>3, <1>4, AtWork
  <1>6. PICK m \in Nat : R < m /\ m <= H /\ cb.idx = Slot(m)
    BY <1>3, AtWork
  <1> DEFINE D2 == Back(D, m)
  <1>7. /\ g \in RingType /\ g.rd = Slot(D2 + 1) /\ g.status = ring.status
        /\ g.r = ring.r /\ g.inprocess = ring.inprocess
        /\ g.status_cmpl = ring.status_cmpl /\ g.hole_pending = ring.hole_pending
        /\ g.pktinflight = ring.pktinflight /\ g.fetch_pending = ring.fetch_pending
        /\ g.fetchq = ring.fetchq /\ g.bufs = ring.bufs
    BY <1>2, <1>6, Adjusted
  <1> HIDE DEF g
  <1>8. Place(R, D2, H) /\ Track(ring.status_cmpl, Out(wl), Fetched(q, cb'), TRUE, R, D2, H)
    <2> DEFINE F2 == Fetched(q, cb')
    <2>1. Track(ring.status_cmpl, Out(wl), F, TRUE, R, D, H) /\ Slot(m) \in F
          /\ F2 \subseteq F /\ F \subseteq F2 \cup {Slot(m)}
      BY <1>2, <1>3, <1>5, <1>6
    <2> HIDE DEF F, F2
    <2>2. Place(R, Back(D, m), H)
          /\ Track(ring.status_cmpl, Out(wl), F2, TRUE, R, Back(D, m), H)
      BY ONLY <1>2, <1>6, <2>1, TrackSkip
    <2> QED
      BY <2>2 DEF F2
  <1> HIDE DEF D2
  <1>9. Indexes(ring', posted, R, D2, H)
    BY <1>2, <1>3, <1>7, <1>8 DEF Indexes
  <1>10. Counts(ring', cb', wl)
    BY <1>2, <1>3, <1>5, <1>7 DEF Counts
  <1>11. Sup(ring') = TRUE
    BY <1>3, <1>7 DEF Sup
  <1>12. Core(ring', cb', wl', Sup(ring'), posted, R, D2, H)
    BY <1>3, <1>5, <1>7, <1>8, <1>9, <1>10, <1>11 DEF Core
  <1>13. doorbell' \in BOOLEAN /\ left' \in LeftType /\ Held(wl', slot)
    BY <1>1, <1>3 DEF Rest
  <1>14. D2 \in Nat /\ ring'.status_cmpl = ring.status_cmpl
    BY <1>3, <1>7, <1>8, PlaceNat
  <1> QED
    BY <1>3, <1>12, <1>13, <1>14, Quiet

(* The callback ends.                                                      *)
LEMMA DoneKeeps ==
  ASSUME Calm, Rest, NEW R \in Nat, NEW D \in Nat, NEW H \in Nat, Live(R, D, H), FetchDone
  PROVE  Inv'
  <1> DEFINE q == ring.fetchq
             S == SumOf(Each(q, LenOf))
             e == [ring EXCEPT !.bufs = @ - 1,
                       !.fetch_pending = (@ + (FetchMod - cb.len)) % FetchMod]
             k == ClearSup(e)
  <1>1. Core(ring, cb, wl, Sup(ring), posted, R, D, H) /\ Held(wl, slot)
    BY DEF Live
  <1>2. /\ ring \in RingType /\ cb \in CbType /\ Counts(ring, cb, wl)
        /\ Indexes(ring, posted, R, D, H) /\ q \in Seq(Block) /\ Sup(ring) \in BOOLEAN
        /\ Track(ring.status_cmpl, Out(wl), Fetched(q, cb), Sup(ring), R, D, H)
        /\ (~Sup(ring) => Disjoint(q, cb))
    BY <1>1, CoreFacts
  <1>3. /\ cb # NoCb /\ cb.todo = 0 /\ cb' = NoCb
        /\ RescanOf(pciedev_process_pending_flring_resp(k))
        /\ UNCHANGED <<slot, w, posted, request, wl, acked, left>>
    BY DEF FetchDone, BlockDone
  <1>4. /\ S \in Nat /\ cb.len \in Nat /\ cb.len # 0 /\ ring.fetch_pending = S + cb.len
        /\ ring.fetch_pending <= LfragCnt /\ LfragCnt < FetchMod /\ FetchMod \in Nat
        /\ ring.bufs = Len(q) + 1 /\ Len(q) \in Nat /\ ring.bufs <= BufCnt /\ LfragCnt \in Nat
        /\ BufCnt \in Nat /\ FetchMod > 0
    <2>1. S \in Nat
      BY <1>2, QueueNone
    <2>2. cb.len \in Nat /\ Len(q) \in Nat
      BY <1>2, Sizes DEF CbType
    <2>3. cb.len # 0
      BY <1>2, <1>3 DEF Counts
    <2>4. ring.fetch_pending = S + cb.len /\ ring.fetch_pending <= LfragCnt /\ ring.bufs <= BufCnt
          /\ ring.bufs = Len(q) + (IF cb.len # 0 THEN 1 ELSE 0)
      BY <1>2 DEF Counts
    <2>5. LfragCnt < FetchMod
      BY DEF Calm
    <2> HIDE DEF S, q
    <2> QED
      BY <2>1, <2>2, <2>3, <2>4, <2>5, Sizes
  <1> DEFINE fp == ring.fetch_pending
             n == cb.len
             z == Len(q)
  <1>5. (fp + (FetchMod - n)) % FetchMod = S /\ ring.bufs - 1 = z
    <2> DEFINE a == fp + (FetchMod - n)
    <2> HIDE DEF S, fp, n, z
    <2>0. fp = S + n /\ n \in Nat /\ ring.bufs = z + 1 /\ z \in Nat /\ fp <= LfragCnt
      BY <1>4 DEF fp, n, z
    <2>1. a \in Nat /\ a < FetchMod + FetchMod /\ a - FetchMod = S /\ ~(a < FetchMod)
          /\ ring.bufs - 1 = z
      BY ONLY <1>4, <2>0
    <2> HIDE DEF a
    <2>2. a % FetchMod = IF a < FetchMod THEN a ELSE a - FetchMod
      BY ONLY <1>4, <2>1, ModOnce
    <2>3. a % FetchMod = S /\ ring.bufs - 1 = z
      BY ONLY <2>1, <2>2
    <2> QED
      BY ONLY <2>3 DEF a
  <1>6. e = [ring EXCEPT !.bufs = z, !.fetch_pending = S]
    <2>1. e = [ring EXCEPT !.bufs = ring.bufs - 1,
                           !.fetch_pending = (fp + (FetchMod - n)) % FetchMod]
      BY <1>2 DEF RingType
    <2> HIDE DEF e, fp, n, z, S
    <2> QED
      BY ONLY <1>5, <2>1
  <1>7. /\ e \in RingType /\ e.fetchq = q /\ e.r = ring.r /\ e.rd = ring.rd
        /\ e.inprocess = ring.inprocess /\ e.status_cmpl = ring.status_cmpl
        /\ e.hole_pending = ring.hole_pending /\ e.pktinflight = ring.pktinflight
        /\ e.fetch_pending = S /\ e.bufs = z /\ e.status = ring.status
    <2>1. S \in Nat /\ z \in Nat
      BY <1>4
    <2> HIDE DEF e, S, z
    <2> QED
      BY <1>2, <1>6, <2>1 DEF RingType
  <1> HIDE DEF e
  <1>8. Fetched(q, NoCb) = Fetched(q, cb) /\ NoCb \in CbType
        /\ (Disjoint(q, cb) => Disjoint(q, NoCb))
    <2>1. 0..cb.todo-1 = {} /\ 0..NoCb.todo-1 = {}
      BY <1>3 DEF NoCb
    <2>2. Blk(cb.idx, cb.todo) = {} /\ Blk(NoCb.idx, NoCb.todo) = {}
      BY <2>1 DEF Blk
    <2>3. NoCb \in CbType
      BY Sizes DEF NoCb, CbType, Idx
    <2> QED
      BY <2>2, <2>3 DEF Fetched, Disjoint
  <1>9. Counts(e, NoCb, wl)
    <2>1. NoCb.len = 0 /\ NoCb.todo = 0
      BY DEF NoCb
    <2>2. e.fetch_pending = S + NoCb.len /\ e.fetch_pending <= LfragCnt
          /\ e.bufs = Len(q) + 0 /\ e.bufs <= BufCnt
      <3> HIDE DEF S
      <3> QED
        BY <1>4, <1>7, <2>1
    <2> QED
      BY <1>2, <1>7, <2>1, <2>2 DEF Counts
  <1>10. Indexes(e, posted, R, D, H) /\ Sup(e) = Sup(ring)
    BY <1>2, <1>7 DEF Indexes, Sup
  <1> HIDE DEF q, S
  <1>11. Core(e, NoCb, wl, Sup(ring), posted, R, D, H)
    BY <1>2, <1>7, <1>8, <1>9, <1>10 DEF Core
  <1>12. Core(k, NoCb, wl, Sup(k), posted, R, D, H) /\ Same(e, k)
    BY <1>2, <1>10, <1>11, Cleared
  <1> HIDE DEF k
  <1>13. k \in RingType
    BY <1>12, CoreFacts
  <1>14. ring' \in RingType /\ Same(k, ring') /\ Sup(ring') = Sup(k) /\ doorbell' \in BOOLEAN
    <2> DEFINE s == pciedev_schedule_flow_ring_read_buffer(k)
    <2>1. (ring' = s /\ doorbell' = doorbell) \/ (ring' = k /\ doorbell' = TRUE)
      BY <1>3, <1>13, NoFlush DEF RescanOf
    <2>2. s \in RingType /\ Same(k, s) /\ Sup(s) = Sup(k)
      BY <1>13, Scheduled
    <2>3. Same(k, k)
      BY DEF Same
    <2> HIDE DEF s
    <2> QED
      BY <1>13, <2>1, <2>2, <2>3 DEF Rest
  <1>15. Core(ring', NoCb, wl, Sup(k), posted, R, D, H)
    BY <1>12, <1>14, SameCore
  <1>16. Core(ring', cb', wl', Sup(ring'), posted, R, D, H)
    BY <1>3, <1>14, <1>15
  <1>17. left' \in LeftType /\ Held(wl', slot) /\ ring'.status_cmpl = ring.status_cmpl
    BY <1>1, <1>3, <1>7, <1>12, <1>14 DEF Rest, Same
  <1> QED
    BY <1>3, <1>14, <1>16, <1>17, Quiet

(* An lfrag more, or less.                                                 *)
Up(f) == [f EXCEPT !.pktinflight = (@ + 1) % 65536]
Down(f) == [f EXCEPT !.pktinflight = (@ + 65535) % 65536]

LEMMA InflightUp ==
  ASSUME NEW f \in RingType, NEW n \in Nat, f.pktinflight = n, n + 1 <= 65535
  PROVE  Up(f) = [f EXCEPT !.pktinflight = n + 1]
  <1>1. n <= 65535 /\ (n + 1) % 65536 = n + 1
    BY Decrement
  <1>2. Up(f) = [f EXCEPT !.pktinflight = (n + 1) % 65536]
    BY DEF RingType, Up
  <1> QED
    BY ONLY <1>1, <1>2

LEMMA InflightDown ==
  ASSUME NEW f \in RingType, NEW n \in Nat, f.pktinflight = n, n <= 65535, n >= 1
  PROVE  Down(f) = [f EXCEPT !.pktinflight = n - 1]
  <1>1. (n + 65535) % 65536 = n - 1
    BY Decrement
  <1>2. Down(f) = [f EXCEPT !.pktinflight = (n + 65535) % 65536]
    BY DEF RingType, Down
  <1> QED
    BY ONLY <1>1, <1>2

LEMMA InflightBack ==
  ASSUME NEW f \in RingType, NEW n \in Nat, f.pktinflight = n, n <= 65535
  PROVE  Down(Up(f)) = [f EXCEPT !.pktinflight = n]
  <1> DEFINE a == (n + 1) % 65536
             g == [f EXCEPT !.pktinflight = a]
  <1>1. (a + 65535) % 65536 = n
    BY Decrement
  <1>2. a \in Nat
    OBVIOUS
  <1>3. Up(f) = g
    BY DEF RingType, Up
  <1> HIDE DEF a
  <1>4. g \in RingType /\ g.pktinflight = a
    BY ONLY <1>2, f \in RingType DEF RingType
  <1>5. [g EXCEPT !.pktinflight = n] = [f EXCEPT !.pktinflight = n]
    BY ONLY f \in RingType DEF RingType
  <1> HIDE DEF g
  <1>6. Down(g) = [g EXCEPT !.pktinflight = (a + 65535) % 65536]
    BY ONLY <1>4 DEF RingType, Down
  <1> QED
    BY ONLY <1>1, <1>3, <1>5, <1>6

LEMMA UpdateDown ==
  ASSUME NEW f, NEW s, NEW i
  PROVE  pciedev_update_txstatus(f, s, i) = Updated(Down(f), s, i)
  BY UpdateIs DEF Down

(* A message is sent up, or suppressed for want of an lfrag.               *)
LEMMA SupLeft ==
  ASSUME left \in LeftType, left.sup > 0
  PROVE  [left EXCEPT !.sup = @ - 1] \in LeftType
  <1> DEFINE k == left.sup - 1
  <1>1. MaxSup \in Nat
    BY FlowRingAssumption
  <1>2. k \in 0..MaxSup
    BY <1>1 DEF LeftType
  <1>3. [left EXCEPT !.sup = @ - 1] = [left EXCEPT !.sup = k]
    BY DEF LeftType
  <1> HIDE DEF k
  <1>4. [left EXCEPT !.sup = k] \in LeftType
    BY <1>2 DEF LeftType
  <1> QED
    BY <1>3, <1>4

(* A message in the callback goes to wl: its slot x leaves the callback c  *)
(* for the packets L, and c2 and L2 are what they become.                  *)
Goes(x, f, c, c2, L, L2) ==
  /\ x \in Fetched(f.fetchq, c) /\ Out(L2) = Out(L) \cup {x}
  /\ IsFiniteSet(L2) /\ Cardinality(L2) <= LfragCnt
  /\ c2 \in CbType /\ c2.len = c.len /\ c2.todo <= c2.len /\ c2.len # 0
  /\ Fetched(f.fetchq, c2) = Fetched(f.fetchq, c) \ {x} /\ Disjoint(f.fetchq, c2)

LEMMA Sent ==
  ASSUME NEW f, NEW c, NEW L, NEW P, NEW R, NEW D, NEW H,
         Core(f, c, L, FALSE, P, R, D, H), ~Sup(f),
         NEW x, NEW c2, NEW L2, Goes(x, f, c, c2, L, L2),
         NEW n \in Nat, n = Cardinality(L2), NEW g, g = [f EXCEPT !.pktinflight = n]
  PROVE  Core(g, c2, L2, FALSE, P, R, D, H)
  <1> DEFINE q == f.fetchq
             O == Out(L)
             F == Fetched(q, c)
             C == f.status_cmpl
  <1>0. /\ x \in F /\ Out(L2) = O \cup {x}
        /\ IsFiniteSet(L2) /\ n <= LfragCnt
        /\ c2 \in CbType /\ c2.len = c.len /\ c2.todo <= c2.len /\ c2.len # 0
        /\ Fetched(q, c2) = F \ {x} /\ Disjoint(q, c2)
    BY DEF Goes
  <1>1. /\ f \in RingType /\ c \in CbType /\ Counts(f, c, L)
        /\ Indexes(f, P, R, D, H) /\ Place(R, D, H)
        /\ Track(C, O, F, FALSE, R, D, H)
    BY CoreFacts
  <1>2. /\ g \in RingType /\ g.r = f.r /\ g.rd = f.rd /\ g.inprocess = f.inprocess
        /\ g.status_cmpl = C /\ g.hole_pending = f.hole_pending
        /\ g.pktinflight = n /\ g.fetch_pending = f.fetch_pending
        /\ g.fetchq = q /\ g.bufs = f.bufs /\ g.status = f.status
    BY <1>1, InflightOps
  <1>3. Track(C, O \cup {x}, F \ {x}, FALSE, R, D, H)
    <2> HIDE DEF F, C, O
    <2> QED
      BY ONLY <1>0, <1>1, TrackSend
  <1>4. Track(g.status_cmpl, Out(L2), Fetched(g.fetchq, c2), FALSE, R, D, H)
    <2> HIDE DEF C, O, F, q
    <2> QED
      BY ONLY <1>0, <1>2, <1>3
  <1>5. Counts(g, c2, L2)
    BY <1>0, <1>1, <1>2 DEF Counts
  <1>6. Indexes(g, P, R, D, H)
    BY <1>1, <1>2 DEF Indexes
  <1>7. Disjoint(g.fetchq, c2)
    BY <1>0, <1>2
  <1>8. Core(g, c2, L2, FALSE, P, R, D, H)
    BY ONLY <1>2, <1>4, <1>5, <1>6, <1>7, <1>0 DEF Core
  <1> QED
    BY <1>8

LEMMA SendKeeps ==
  ASSUME Calm, Rest, NEW R \in Nat, NEW D \in Nat, NEW H \in Nat, Live(R, D, H),
         InCb, ~Sup(ring), Cardinality(wl) < LfragCnt,
         ring' = Up(ring),
         wl' = wl \cup {[idx |-> cb.idx, msg |-> slot[cb.idx]]},
         cb' = [cb EXCEPT !.idx = Plus(@, 1), !.todo = @ - 1, !.sentup = TRUE],
         UNCHANGED <<slot, w, posted, doorbell, request, acked, left>>
  PROVE  Inv'
  <1> DEFINE q == ring.fetchq
             F == Fetched(q, cb)
             x == cb.idx
             l == [idx |-> x, msg |-> slot[x]]
             n == Cardinality(wl)
             C == ring.status_cmpl
  <1>1. Core(ring, cb, wl, Sup(ring), posted, R, D, H) /\ Held(wl, slot)
    BY DEF Live
  <1>2. /\ ring \in RingType /\ cb \in CbType /\ Counts(ring, cb, wl)
        /\ Indexes(ring, posted, R, D, H) /\ Place(R, D, H)
        /\ Track(C, Out(wl), F, Sup(ring), R, D, H) /\ Disjoint(q, cb) /\ q \in Seq(Block)
    BY <1>1, CoreFacts
  <1>3. cb' = After(cb, TRUE)
    BY DEF After
  <1>4. /\ x \in F
        /\ cb' \in CbType /\ cb'.len = cb.len /\ cb'.todo <= cb'.len /\ cb'.len # 0
        /\ Blk(cb'.idx, cb'.todo) \subseteq Blk(cb.idx, cb.todo) \ {x}
        /\ Fetched(q, cb') \subseteq F /\ F \subseteq Fetched(q, cb') \cup {x}
    BY ONLY Rest, Live(R, D, H), InCb, R \in Nat, D \in Nat, H \in Nat, <1>3, AtWork
  <1>5. PICK m \in Nat : R < m /\ m <= H /\ x = Slot(m) /\ slot[x] = m /\ m \in 1..MaxMsgs
    BY ONLY Rest, Live(R, D, H), InCb, R \in Nat, D \in Nat, H \in Nat, AtWork
  <1>6. x \notin Out(wl) /\ l \notin wl
    <2>1. F \cap (Out(wl) \cup C) = {}
      BY <1>2 DEF Track
    <2>2. x \notin Out(wl)
      BY <1>4, <2>1
    <2>3. l \in wl => l.idx \in Out(wl)
      BY DEF Out
    <2>4. l.idx = x
      OBVIOUS
    <2> HIDE DEF l, x
    <2> QED
      BY <2>2, <2>3, <2>4
  <1>7. l \in WlType /\ l.idx = x /\ l.msg = slot[x]
    <2>1. x \in Idx
      BY <1>2 DEF CbType
    <2> QED
      BY <1>5, <2>1 DEF WlType
  <1>8. Held(wl', slot)
    <2> HIDE DEF l, x
    <2>1. wl' = wl \cup {l}
      BY DEF l, x
    <2> QED
      BY <1>1, <1>7, <2>1 DEF Held
  <1>9. Out(wl') = Out(wl) \cup {x}
    <2> HIDE DEF l
    <2>1. wl' = wl \cup {l}
      BY DEF l
    <2> QED
      BY <1>7, <2>1 DEF Out
  <1>10. IsFiniteSet(wl') /\ Cardinality(wl') = n + 1 /\ n \in Nat /\ ring.pktinflight = n
    <2>1. IsFiniteSet(wl) /\ ring.pktinflight = n /\ ring.pktinflight \in Nat
      BY <1>2 DEF Counts, RingType
    <2> HIDE DEF l
    <2>2. wl' = wl \cup {l}
      BY DEF l
    <2> QED
      BY ONLY <1>6, <2>1, <2>2, FS_AddElement
  <1>11. (n + 1) % 65536 = n + 1 /\ n + 1 \in Nat /\ n + 1 <= LfragCnt
    <2>1. LfragCnt < 65536 /\ LfragCnt \in Nat /\ n < LfragCnt
      BY Sizes DEF Calm
    <2> HIDE DEF n
    <2>2. n <= 65535 /\ n + 1 <= 65535 /\ n + 1 \in Nat /\ n + 1 <= LfragCnt
      BY <1>10, <2>1
    <2>3. (n + 1) % 65536 = n + 1
      BY <1>10, <2>2, Decrement
    <2> QED
      BY <2>2, <2>3
  <1> DEFINE n1 == n + 1
  <1>12. ring' = [ring EXCEPT !.pktinflight = n1]
    <2>1. n + 1 <= 65535
      <3>1. LfragCnt < 65536 /\ LfragCnt \in Nat
        BY Sizes DEF Calm
      <3> HIDE DEF n
      <3> QED
        BY ONLY <1>10, <1>11, <3>1
    <2> HIDE DEF n
    <2>2. Up(ring) = [ring EXCEPT !.pktinflight = n + 1]
      BY ONLY <1>2, <1>10, <2>1, InflightUp
    <2>3. ring' = Up(ring)
      OBVIOUS
    <2> QED
      BY ONLY <2>2, <2>3
  <1>13. n1 \in Nat /\ n1 <= LfragCnt /\ Cardinality(wl') = n1
    BY <1>10, <1>11
  <1> HIDE DEF n1
  <1>14. Fetched(q, cb') = F \ {x}
    <2>1. x \in Blk(cb.idx, cb.todo) /\ cb.todo > 0
      <3>1. cb.todo > 0
        BY DEF InCb
      <3> QED
        BY <1>2, <3>1, InBlk
    <2>2. x \notin Queued(q)
      <3>1. \A k \in 1..Len(q) : x \notin BlkOf(q[k])
        BY <1>2, <2>1 DEF Disjoint
      <3> QED
        BY <3>1 DEF Queued
    <2> HIDE DEF x
    <2>3. x \notin Fetched(q, cb')
      BY <1>4, <2>2 DEF Fetched
    <2> QED
      BY <1>4, <2>3
  <1>15. Disjoint(q, cb')
    <2> DEFINE d == cb'
    <2>1. Disjoint(q, cb) /\ Blk(d.idx, d.todo) \subseteq Blk(cb.idx, cb.todo)
      BY ONLY <1>2, <1>4
    <2> HIDE DEF d, q
    <2>2. Disjoint(q, d)
      BY ONLY <2>1 DEF Disjoint
    <2> QED
      BY ONLY <2>2 DEF d
  <1>16. Core(ring', cb', wl', Sup(ring'), posted, R, D, H)
         /\ ring'.status_cmpl = ring.status_cmpl
    <2> DEFINE L2 == wl'
               c2 == cb'
               g == [ring EXCEPT !.pktinflight = n1]
    <2>1. /\ Core(ring, cb, wl, FALSE, posted, R, D, H) /\ ~Sup(ring)
          /\ x \in Fetched(ring.fetchq, cb) /\ Out(L2) = Out(wl) \cup {x}
          /\ IsFiniteSet(L2) /\ n1 \in Nat /\ n1 = Cardinality(L2) /\ n1 <= LfragCnt
      <3>1. Sup(ring) = FALSE
        BY DEF Sup
      <3> QED
        BY ONLY <1>1, <1>4, <1>9, <1>10, <1>13, <3>1, ~Sup(ring)
    <2>2. /\ c2 \in CbType /\ c2.len = cb.len /\ c2.todo <= c2.len /\ c2.len # 0
          /\ Fetched(ring.fetchq, c2) = Fetched(ring.fetchq, cb) \ {x}
          /\ Disjoint(ring.fetchq, c2)
      BY ONLY <1>4, <1>14, <1>15
    <2>3. Goes(x, ring, cb, c2, wl, L2)
      BY ONLY <2>1, <2>2 DEF Goes
    <2> HIDE DEF L2, c2, x
    <2>4. ring' = g
      BY <1>12
    <2>5. g = [ring EXCEPT !.pktinflight = n1]
      OBVIOUS
    <2> HIDE DEF g
    <2>6. Core(g, c2, L2, FALSE, posted, R, D, H)
      BY ONLY <2>1, <2>3, <2>5, Sent
    <2>7. g.status_cmpl = ring.status_cmpl /\ g.status = ring.status
      BY <1>2, <2>5 DEF RingType
    <2>8. Sup(g) = FALSE
      BY ONLY <2>1, <2>7 DEF Sup
    <2> QED
      BY ONLY <2>4, <2>6, <2>7, <2>8 DEF L2, c2
  <1>17. doorbell' \in BOOLEAN /\ left' \in LeftType
    BY DEF Rest
  <1>18. UNCHANGED <<slot, w, posted, request, acked>>
    OBVIOUS
  <1> QED
    BY ONLY Rest, Live(R, D, H), R \in Nat, D \in Nat, H \in Nat,
            <1>8, <1>16, <1>17, <1>18, Quiet

LEMMA RefusedKeeps ==
  ASSUME Calm, Rest, NEW R \in Nat, NEW D \in Nat, NEW H \in Nat, Live(R, D, H),
         InCb, ~Sup(ring), left.sup > 0, left' = [left EXCEPT !.sup = @ - 1],
         ring' = pciedev_update_txstatus(Up(ring), "SUPPRESS", cb.idx).ring,
         cb' = [cb EXCEPT !.idx = Plus(@, 1), !.todo = @ - 1, !.sentup = cb.sentup],
         UNCHANGED <<slot, w, posted, doorbell, request, acked, wl>>
  PROVE  Inv'
  <1> DEFINE q == ring.fetchq
             F == Fetched(q, cb)
             x == cb.idx
             n == Cardinality(wl)
             C == ring.status_cmpl
             f == [ring EXCEPT !.pktinflight = n]
             g == pciedev_adjust_flow_fetch_ptr(
                    IF NothingOut(f) THEN f ELSE Set(f, "SUP_PENDING"), x)
             h == pciedev_schedule_flow_ring_read_buffer(
                    pciedev_process_pending_flring_resp(ClearSup(g)))
  <1>1. Core(ring, cb, wl, Sup(ring), posted, R, D, H) /\ Held(wl, slot)
    BY DEF Live
  <1>2. /\ ring \in RingType /\ cb \in CbType /\ Counts(ring, cb, wl)
        /\ Track(C, Out(wl), F, Sup(ring), R, D, H)
    BY <1>1, CoreFacts
  <1>3. cb' = After(cb, cb.sentup)
        /\ cb.sentup \in BOOLEAN
    BY <1>2 DEF CbType, After
  <1>4. /\ x \in F /\ cb.len # 0
        /\ cb' \in CbType /\ cb'.len = cb.len /\ cb'.todo <= cb'.len /\ cb'.len # 0
        /\ Fetched(q, cb') \subseteq F /\ F \subseteq Fetched(q, cb') \cup {x}
    BY ONLY Rest, Live(R, D, H), InCb, R \in Nat, D \in Nat, H \in Nat, <1>3, AtWork
  <1>5. PICK m \in Nat : R < m /\ m <= H /\ x = Slot(m)
    BY ONLY Rest, Live(R, D, H), InCb, R \in Nat, D \in Nat, H \in Nat, AtWork
  <1>6. /\ IsFiniteSet(wl) /\ ring.pktinflight = n /\ n \in Nat /\ n <= LfragCnt /\ n <= 65535
    <2>1. IsFiniteSet(wl) /\ ring.pktinflight = n /\ ring.pktinflight \in Nat
          /\ ring.pktinflight <= LfragCnt
      BY <1>2 DEF Counts, RingType
    <2>2. LfragCnt < 65536 /\ LfragCnt \in Nat
      BY Sizes DEF Calm
    <2> HIDE DEF n
    <2> QED
      BY <2>1, <2>2
  <1>7. Down(Up(ring)) = f
    <2> HIDE DEF n
    <2> QED
      BY ONLY <1>2, <1>6, InflightBack
  <1>8. ring' = Updated(f, "SUPPRESS", x).ring
    <2>1. pciedev_update_txstatus(Up(ring), "SUPPRESS", x) = Updated(Down(Up(ring)), "SUPPRESS", x)
      BY ONLY UpdateDown
    <2>2. ring' = pciedev_update_txstatus(Up(ring), "SUPPRESS", x).ring
      OBVIOUS
    <2> HIDE DEF f
    <2> QED
      BY ONLY <1>7, <2>1, <2>2
  <1>9. f \in RingType
    <2> HIDE DEF n
    <2> QED
      BY ONLY <1>2, <1>6, InflightOps
  <1>10. ring' = h
    <2>1. Updated(f, "SUPPRESS", x) = [ring |-> h, ok |-> FALSE]
      <3> HIDE DEF f
      <3> QED
        BY <1>9, UpdateSuppress
    <2> HIDE DEF h, f
    <2> QED
      BY ONLY <1>8, <2>1
  <1>11. /\ Core(h, cb', wl, Sup(h), posted, R, Back(D, m), H)
         /\ h.status_cmpl = ring.status_cmpl
    <2> DEFINE L2 == wl
    <2>1. Slot(m) \notin C /\ Slot(m) \notin Out(wl)
      <3>1. F \cap (Out(wl) \cup C) = {}
        BY <1>2 DEF Track
      <3> HIDE DEF F, C
      <3> QED
        BY <1>4, <1>5, <3>1
    <2>2. /\ Slot(m) \notin ring.status_cmpl /\ (Sup(ring) => Slot(m) \in Out(wl))
          /\ Slot(m) \in Out(wl) \cup Fetched(ring.fetchq, cb)
          /\ Out(L2) = Out(wl) \ {Slot(m)}
      BY <1>4, <1>5, <2>1
    <2>3. /\ n \in Nat /\ n <= LfragCnt /\ IsFiniteSet(L2) /\ n = Cardinality(L2)
      BY <1>6
    <2>4. /\ cb' \in CbType /\ cb'.len = cb.len /\ cb'.todo <= cb'.len
          /\ (cb'.len = 0 => cb' = NoCb)
          /\ Fetched(ring.fetchq, cb') \subseteq Fetched(ring.fetchq, cb)
          /\ Fetched(ring.fetchq, cb) \subseteq Fetched(ring.fetchq, cb') \cup {Slot(m)}
      BY <1>4, <1>5
    <2> HIDE DEF n, L2
    <2>5. LET f2 == [ring EXCEPT !.pktinflight = n]
              g2 == pciedev_adjust_flow_fetch_ptr(
                     IF NothingOut(f2) THEN f2 ELSE Set(f2, "SUP_PENDING"), Slot(m))
              h2 == pciedev_schedule_flow_ring_read_buffer(
                     pciedev_process_pending_flring_resp(ClearSup(g2)))
          IN  /\ Core(h2, cb', L2, Sup(h2), posted, R, Back(D, m), H)
              /\ h2.status_cmpl = ring.status_cmpl /\ h2.inprocess = ring.inprocess
      BY ONLY <1>1, <1>5, <2>2, <2>3, <2>4, Suppressed
    <2> HIDE DEF x
    <2> QED
      BY ONLY <1>5, <2>5 DEF h, g, f, L2
  <1> HIDE DEF h
  <1>12. Back(D, m) \in Nat
    BY <1>11, CoreFacts
  <1>13. doorbell' \in BOOLEAN /\ left' \in LeftType /\ Held(wl', slot)
    BY <1>1, SupLeft DEF Rest
  <1>14. Core(ring', cb', wl', Sup(ring'), posted, R, Back(D, m), H)
         /\ ring'.status_cmpl = ring.status_cmpl
    BY <1>10, <1>11
  <1> QED
    BY <1>12, <1>13, <1>14, Quiet

LEMMA TxPostKeeps ==
  ASSUME Calm, Rest, NEW R \in Nat, NEW D \in Nat, NEW H \in Nat, Live(R, D, H),
         pciedev_process_tx_post
  PROVE  Inv'
  <1>1. InCb /\ ~Sup(ring) /\ UNCHANGED <<slot, w, posted, doorbell, request, acked>>
    BY DEF pciedev_process_tx_post, Sup, Has
  <1>2. \/ /\ Cardinality(wl) < LfragCnt
           /\ ring' = Up(ring)
           /\ wl' = wl \cup {[idx |-> cb.idx, msg |-> slot[cb.idx]]}
           /\ cb' = [cb EXCEPT !.idx = Plus(@, 1), !.todo = @ - 1, !.sentup = TRUE]
           /\ UNCHANGED left
        \/ /\ left.sup > 0 /\ left' = [left EXCEPT !.sup = @ - 1]
           /\ ring' = pciedev_update_txstatus(Up(ring), "SUPPRESS", cb.idx).ring
           /\ cb' = [cb EXCEPT !.idx = Plus(@, 1), !.todo = @ - 1, !.sentup = cb.sentup]
           /\ UNCHANGED wl
    BY ONLY pciedev_process_tx_post DEF pciedev_process_tx_post, NextMsg, Up
  <1> QED
    BY ONLY Calm, Rest, Live(R, D, H), R \in Nat, D \in Nat, H \in Nat, <1>1, <1>2,
            SendKeeps, RefusedKeeps

-----------------------------------------------------------------------------
(* A packet wl is done with is that of one message in the window.          *)
LEMMA OfMessage ==
  ASSUME Rest, NEW R \in Nat, NEW D \in Nat, NEW H \in Nat, Live(R, D, H), NEW l \in wl
  PROVE  \E m \in Nat :
           /\ R < m /\ m <= H /\ l.idx = Slot(m) /\ l.msg = m
           /\ m \in 1..posted /\ m \in 1..MaxMsgs
           /\ l.idx \in Out(wl) /\ l.idx \notin ring.status_cmpl /\ l.idx \in ring.inprocess
           /\ Out(wl \ {l}) = Out(wl) \ {l.idx}
  <1>1. Core(ring, cb, wl, Sup(ring), posted, R, D, H) /\ Held(wl, slot)
        /\ InSlots(slot, posted, R)
    BY DEF Live
  <1>2. /\ Counts(ring, cb, wl) /\ H <= posted /\ posted \in Nat
        /\ ring.inprocess = Win(R, H) /\ ring \in RingType
        /\ Track(ring.status_cmpl, Out(wl), Fetched(ring.fetchq, cb), Sup(ring), R, D, H)
    BY <1>1, CoreFacts
  <1>3. l.idx \in Out(wl)
    BY DEF Out
  <1>4. l.idx \notin ring.status_cmpl /\ l.idx \in Win(R, H)
    BY <1>2, <1>3 DEF Track
  <1>5. PICK m \in R+1..H : l.idx = Slot(m)
    BY <1>4 DEF Win
  <1>6. m \in Nat /\ R < m /\ m <= H /\ m \in R+1..posted /\ m \in 1..posted /\ m \in 1..MaxMsgs
    <2>1. posted \in 0..MaxMsgs /\ MaxMsgs \in Nat
      BY Sizes DEF Rest
    <2> QED
      BY <1>2, <2>1
  <1>7. l.msg = m
    <2>1. slot[Slot(m)] = m
      BY <1>1, <1>6 DEF InSlots
    <2>2. l.msg = slot[l.idx]
      BY <1>1 DEF Held
    <2> QED
      BY <1>5, <2>1, <2>2
  <1>8. Out(wl \ {l}) = Out(wl) \ {l.idx}
    <2>1. ASSUME NEW k \in wl, k.idx = l.idx PROVE k = l
      <3>1. k \in WlType /\ l \in WlType /\ k.msg = slot[k.idx] /\ l.msg = slot[l.idx]
        BY <1>1 DEF Held
      <3>2. k.msg = l.msg
        BY <2>1, <3>1
      <3> QED
        BY <2>1, <3>1, <3>2 DEF WlType
    <2>2. \A i : i \in Out(wl \ {l}) <=> \E k \in wl : k # l /\ k.idx = i
      BY DEF Out
    <2>3. \A i : i \in Out(wl) <=> \E k \in wl : k.idx = i
      BY DEF Out
    <2> QED
      BY <2>1, <2>2, <2>3
  <1>9. l.idx \in ring.inprocess
    BY <1>2, <1>4
  <1> QED
    BY ONLY <1>3, <1>4, <1>5, <1>6, <1>7, <1>8, <1>9

LEMMA OneFewer ==
  ASSUME Calm, NEW R, NEW D, NEW H, Live(R, D, H), NEW l \in wl
  PROVE  \E n \in Nat : /\ ring.pktinflight = n + 1 /\ n + 1 <= 65535 /\ n <= LfragCnt
                        /\ IsFiniteSet(wl \ {l}) /\ n = Cardinality(wl \ {l})
  <1>0. Counts(ring, cb, wl) /\ ring \in RingType
    BY CoreFacts DEF Live
  <1> DEFINE L2 == wl \ {l}
             c == Cardinality(wl)
             n == Cardinality(L2)
  <1>1. IsFiniteSet(wl) /\ ring.pktinflight = c /\ ring.pktinflight \in Nat
        /\ ring.pktinflight <= LfragCnt
    BY <1>0 DEF Counts, RingType
  <1>2. LfragCnt < 65536 /\ LfragCnt \in Nat
    BY Sizes DEF Calm
  <1>3. IsFiniteSet(L2) /\ n = c - 1 /\ n \in Nat
    <2>1. IsFiniteSet(L2)
      BY <1>1, FS_RemoveElement
    <2>2. Cardinality(wl \ {l}) = IF l \in wl THEN Cardinality(wl) - 1 ELSE Cardinality(wl)
      BY <1>1, FS_RemoveElement
    <2>3. Cardinality(L2) \in Nat
      BY <2>1, FS_CardinalityType
    <2> QED
      BY <2>1, <2>2, <2>3
  <1> HIDE DEF L2, n, c
  <1>4. /\ ring.pktinflight = n + 1 /\ n + 1 <= 65535 /\ n <= LfragCnt
    BY ONLY <1>1, <1>2, <1>3
  <1>5. \E k \in Nat : /\ ring.pktinflight = k + 1 /\ k + 1 <= 65535 /\ k <= LfragCnt
                       /\ IsFiniteSet(L2) /\ k = Cardinality(L2)
    BY <1>3, <1>4 DEF n
  <1> QED
    BY ONLY <1>5 DEF L2

(* One more message is acknowledged.                                       *)
LEMMA AckedMore ==
  ASSUME NEW R \in Nat, NEW P \in Nat, NEW m \in Nat, NEW R2 \in Nat,
         R < m, m <= P, P < R + MaxItem, R <= R2, R2 <= P, m \in 1..MaxMsgs,
         NEW a \in [1..MaxMsgs -> Nat], NEW C, NEW C2, Acked(a, C, P, R), Slot(m) \notin C,
         \A i \in R+1..R+MaxItem : (i <= R2 \/ Slot(i) \in C2) <=> Slot(i) \in C \cup {Slot(m)}
  PROVE  Acked([a EXCEPT ![m] = @ + 1], C2, P, R2) /\ a[m] = 0
  <1> DEFINE b == [a EXCEPT ![m] = @ + 1]
  <1>0. MaxItem \in Nat /\ MaxMsgs \in Nat
    BY Sizes
  <1>1. a[m] = 0
    BY DEF Acked
  <1>2. b[m] = 1 /\ \A n \in 1..MaxMsgs : n # m => b[n] = a[n]
    BY ONLY <1>1, m \in 1..MaxMsgs, a \in [1..MaxMsgs -> Nat]
  <1> HIDE DEF b
  <1>3. ASSUME NEW n \in 1..MaxMsgs
        PROVE  b[n] = IF n <= R2 \/ (n <= P /\ Slot(n) \in C2) THEN 1 ELSE 0
    <2>1. a[n] = IF n <= R \/ (n <= P /\ Slot(n) \in C) THEN 1 ELSE 0
      BY DEF Acked
    <2>2. n \in Nat /\ n >= 1
      BY <1>0
    <2>3. CASE n <= R
      BY <1>2, <2>1, <2>2, <2>3
    <2>4. CASE n > P
      BY <1>2, <2>1, <2>2, <2>4
    <2>5. CASE R < n /\ n <= P
      <3>1. n \in R+1..R+MaxItem
        BY <1>0, <2>2, <2>5
      <3>2. (n <= R2 \/ Slot(n) \in C2) <=> Slot(n) \in C \cup {Slot(m)}
        BY <3>1
      <3>3. CASE n = m
        BY <1>2, <2>5, <3>2, <3>3
      <3>4. CASE n # m
        <4>1. Slot(n) # Slot(m)
          <5>1. m >= 1 /\ n < m + MaxItem /\ m < n + MaxItem
            BY <1>0, <2>2, <2>5
          <5> QED
            BY ONLY <2>2, <3>4, <5>1, m \in Nat, SlotInj
        <4>2. b[n] = a[n]
          BY <1>2, <3>4
        <4>3. ~(n <= R)
          BY <2>2, <2>5
        <4> QED
          BY <2>1, <2>5, <3>2, <4>1, <4>2, <4>3
      <3> QED
        BY <3>3, <3>4
    <2> QED
      BY <2>2, <2>3, <2>4, <2>5
  <1>4. Acked(b, C2, P, R2)
    BY <1>3 DEF Acked
  <1> QED
    BY <1>1, <1>4 DEF b

LEMMA BackKeeps ==
  ASSUME Calm, Rest, NEW R \in Nat, NEW D \in Nat, NEW H \in Nat, Live(R, D, H), NEW l \in wl,
         left.sup > 0, left' = [left EXCEPT !.sup = @ - 1],
         ring' = pciedev_update_txstatus(ring, "SUPPRESS", l.idx).ring, wl' = wl \ {l},
         UNCHANGED <<slot, w, posted, doorbell, request, acked, cb>>
  PROVE  Inv'
  <1>1. Core(ring, cb, wl, Sup(ring), posted, R, D, H) /\ Held(wl, slot)
    BY DEF Live
  <1>2. ring \in RingType /\ cb \in CbType /\ Counts(ring, cb, wl)
    BY <1>1, CoreFacts
  <1>3. PICK m \in Nat :
           /\ R < m /\ m <= H /\ l.idx = Slot(m) /\ l.msg = m
           /\ m \in 1..posted /\ m \in 1..MaxMsgs
           /\ l.idx \in Out(wl) /\ l.idx \notin ring.status_cmpl /\ l.idx \in ring.inprocess
           /\ Out(wl \ {l}) = Out(wl) \ {l.idx}
    BY ONLY Rest, Live(R, D, H), R \in Nat, D \in Nat, H \in Nat, l \in wl, OfMessage
  <1>4. PICK n \in Nat : /\ ring.pktinflight = n + 1 /\ n + 1 <= 65535 /\ n <= LfragCnt
                         /\ IsFiniteSet(wl \ {l}) /\ n = Cardinality(wl \ {l})
    BY ONLY Calm, Live(R, D, H), l \in wl, OneFewer
  <1>5. l.idx \in Out(wl) /\ l.idx \notin ring.status_cmpl
        /\ Out(wl \ {l}) = Out(wl) \ {l.idx}
    BY ONLY <1>3
  <1> DEFINE x == l.idx
             L2 == wl \ {l}
             f == [ring EXCEPT !.pktinflight = n]
             g == pciedev_adjust_flow_fetch_ptr(
                    IF NothingOut(f) THEN f ELSE Set(f, "SUP_PENDING"), x)
             h == pciedev_schedule_flow_ring_read_buffer(
                    pciedev_process_pending_flring_resp(ClearSup(g)))
  <1>6. Down(ring) = f
    <2> DEFINE k == n + 1
    <2>1. k \in Nat /\ ring.pktinflight = k /\ k <= 65535 /\ k >= 1 /\ k - 1 = n
      BY ONLY <1>4, n \in Nat
    <2> HIDE DEF k
    <2>2. Down(ring) = [ring EXCEPT !.pktinflight = k - 1]
      BY ONLY <1>2, <2>1, InflightDown
    <2> QED
      BY ONLY <2>1, <2>2
  <1>7. f \in RingType
    BY ONLY <1>2, n \in Nat, InflightOps
  <1>8. ring' = h
    <2>1. pciedev_update_txstatus(ring, "SUPPRESS", x) = Updated(Down(ring), "SUPPRESS", x)
      BY ONLY UpdateDown
    <2>2. Updated(f, "SUPPRESS", x) = [ring |-> h, ok |-> FALSE]
      <3> HIDE DEF f, x
      <3> QED
        BY ONLY <1>7, UpdateSuppress
    <2>3. ring' = pciedev_update_txstatus(ring, "SUPPRESS", x).ring
      OBVIOUS
    <2> HIDE DEF f, h, x
    <2> QED
      BY ONLY <1>6, <2>1, <2>2, <2>3
  <1>9. /\ Core(h, cb, L2, Sup(h), posted, R, Back(D, m), H)
        /\ h.status_cmpl = ring.status_cmpl
    <2>1. /\ Slot(m) \notin ring.status_cmpl /\ (Sup(ring) => Slot(m) \in Out(wl))
          /\ Slot(m) \in Out(wl) \cup Fetched(ring.fetchq, cb)
          /\ Out(L2) = Out(wl) \ {Slot(m)}
      BY ONLY <1>3, <1>5
    <2>2. /\ n \in Nat /\ n <= LfragCnt /\ IsFiniteSet(L2) /\ n = Cardinality(L2)
      BY ONLY <1>4, n \in Nat
    <2>3. /\ cb \in CbType /\ cb.len = cb.len /\ cb.todo <= cb.len
          /\ (cb.len = 0 => cb = NoCb)
          /\ Fetched(ring.fetchq, cb) \subseteq Fetched(ring.fetchq, cb)
          /\ Fetched(ring.fetchq, cb) \subseteq Fetched(ring.fetchq, cb) \cup {Slot(m)}
      BY ONLY <1>2 DEF Counts
    <2> HIDE DEF L2
    <2>4. LET f2 == [ring EXCEPT !.pktinflight = n]
              g2 == pciedev_adjust_flow_fetch_ptr(
                     IF NothingOut(f2) THEN f2 ELSE Set(f2, "SUP_PENDING"), Slot(m))
              h2 == pciedev_schedule_flow_ring_read_buffer(
                     pciedev_process_pending_flring_resp(ClearSup(g2)))
          IN  /\ Core(h2, cb, L2, Sup(h2), posted, R, Back(D, m), H)
              /\ h2.status_cmpl = ring.status_cmpl /\ h2.inprocess = ring.inprocess
      BY ONLY <1>1, <1>3, <2>1, <2>2, <2>3, Suppressed
    <2> HIDE DEF x
    <2>5. x = Slot(m)
      BY <1>3 DEF x
    <2> QED
      BY ONLY <2>4, <2>5 DEF h, g, f
  <1>10. Back(D, m) \in Nat
    <2> HIDE DEF h, L2
    <2> QED
      BY ONLY <1>9, CoreFacts
  <1>11. doorbell' \in BOOLEAN /\ left' \in LeftType /\ Held(wl', slot)
    <2>1. left \in LeftType /\ doorbell' \in BOOLEAN
      BY DEF Rest
    <2>2. left' \in LeftType
      BY <2>1, SupLeft
    <2>3. wl' \subseteq wl
      OBVIOUS
    <2>4. Held(wl', slot)
      BY ONLY <1>1, <2>3 DEF Held
    <2> QED
      BY <2>1, <2>2, <2>4
  <1>12. Core(ring', cb', wl', Sup(ring'), posted, R, Back(D, m), H)
         /\ ring'.status_cmpl = ring.status_cmpl
    <2>1. wl' = L2 /\ cb' = cb
      OBVIOUS
    <2> HIDE DEF h, L2
    <2> QED
      BY ONLY <1>8, <1>9, <2>1
  <1>13. UNCHANGED <<slot, w, posted, request, acked>>
    OBVIOUS
  <1> QED
    BY ONLY Rest, Live(R, D, H), R \in Nat, D \in Nat, H \in Nat,
            <1>10, <1>11, <1>12, <1>13, Quiet

LEMMA FinalKeeps ==
  ASSUME Calm, Rest, NEW R \in Nat, NEW D \in Nat, NEW H \in Nat, Live(R, D, H), NEW l \in wl,
         NEW s \in Final, UNCHANGED left,
         ring' = pciedev_update_txstatus(ring, s, l.idx).ring, wl' = wl \ {l},
         QueueTxStatus(pciedev_update_txstatus(ring, s, l.idx), l.msg),
         UNCHANGED <<slot, w, posted, doorbell, request, cb>>
  PROVE  Inv' /\ \E m \in 1..posted : Window!Complete(m)
  <1>1. Core(ring, cb, wl, Sup(ring), posted, R, D, H) /\ Held(wl, slot)
        /\ InSlots(slot, posted, R) /\ Acked(acked, ring.status_cmpl, posted, R)
    BY DEF Live
  <1>2. ring \in RingType /\ cb \in CbType /\ H <= posted /\ posted \in Nat
        /\ posted < R + MaxItem
    BY <1>1, CoreFacts
  <1>3. PICK m \in Nat :
           /\ R < m /\ m <= H /\ l.idx = Slot(m) /\ l.msg = m
           /\ m \in 1..posted /\ m \in 1..MaxMsgs
           /\ l.idx \in Out(wl) /\ l.idx \notin ring.status_cmpl /\ l.idx \in ring.inprocess
           /\ Out(wl \ {l}) = Out(wl) \ {l.idx}
    BY ONLY Rest, Live(R, D, H), R \in Nat, D \in Nat, H \in Nat, l \in wl, OfMessage
  <1>4. PICK n \in Nat : /\ ring.pktinflight = n + 1 /\ n + 1 <= 65535 /\ n <= LfragCnt
                         /\ IsFiniteSet(wl \ {l}) /\ n = Cardinality(wl \ {l})
    BY ONLY Calm, Live(R, D, H), l \in wl, OneFewer
  <1> DEFINE x == l.idx
             L2 == wl \ {l}
             f == [ring EXCEPT !.pktinflight = n]
             h == pciedev_schedule_flow_ring_read_buffer(
                    pciedev_process_pending_flring_resp(ClearSup(Moved(f, s, x))))
  <1>5. Down(ring) = f
    <2> DEFINE k == n + 1
    <2>1. k \in Nat /\ ring.pktinflight = k /\ k <= 65535 /\ k >= 1 /\ k - 1 = n
      BY ONLY <1>4, n \in Nat
    <2> HIDE DEF k
    <2>2. Down(ring) = [ring EXCEPT !.pktinflight = k - 1]
      BY ONLY <1>2, <2>1, InflightDown
    <2> QED
      BY ONLY <2>1, <2>2
  <1>6. f \in RingType /\ f.inprocess = ring.inprocess /\ f.status_cmpl = ring.status_cmpl
    BY ONLY <1>2, n \in Nat, InflightOps
  <1> DEFINE u == pciedev_update_txstatus(ring, s, x)
  <1>7. u = [ring |-> h, ok |-> TRUE]
    <2>1. u = Updated(Down(ring), s, x)
      BY ONLY UpdateDown
    <2>2. x \in f.inprocess /\ x \notin f.status_cmpl
      BY ONLY <1>3, <1>6
    <2>3. Updated(f, s, x) = [ring |-> h, ok |-> TRUE]
      <3> HIDE DEF f, x
      <3> QED
        BY ONLY <1>6, <2>2, s \in Final, UpdateFinal
    <2> HIDE DEF f, h, x, u
    <2> QED
      BY ONLY <1>5, <2>1, <2>3
  <1>8. ring' = h /\ acked' = [acked EXCEPT ![m] = @ + 1]
    <2>1. ring' = u.ring /\ QueueTxStatus(u, l.msg)
      OBVIOUS
    <2> HIDE DEF u, h
    <2>2. u.ring = h /\ u.ok = TRUE
      BY ONLY <1>7
    <2>3. acked' = IF u.ok THEN [acked EXCEPT ![l.msg] = @ + 1] ELSE acked
      BY ONLY <2>1 DEF QueueTxStatus
    <2>4. acked' = [acked EXCEPT ![l.msg] = @ + 1]
      BY ONLY <2>2, <2>3
    <2> QED
      BY ONLY <1>3, <2>1, <2>2, <2>4
  <1>9. PICK R2 \in Nat :
          /\ Core(h, cb, L2, Sup(h), posted, R2, D, H) /\ R <= R2 /\ R2 <= H
          /\ \A i \in R+1..R+MaxItem :
               (i <= R2 \/ Slot(i) \in h.status_cmpl)
                 <=> Slot(i) \in ring.status_cmpl \cup {Slot(m)}
    <2>1. /\ Slot(m) \in Out(wl) /\ Out(L2) = Out(wl) \ {Slot(m)}
      BY ONLY <1>3
    <2>2. /\ n \in Nat /\ n <= LfragCnt /\ IsFiniteSet(L2) /\ n = Cardinality(L2)
      BY ONLY <1>4, n \in Nat
    <2> HIDE DEF L2
    <2>3. LET f2 == [ring EXCEPT !.pktinflight = n]
              h2 == pciedev_schedule_flow_ring_read_buffer(
                      pciedev_process_pending_flring_resp(ClearSup(Moved(f2, s, Slot(m)))))
          IN  \E r \in Nat :
                /\ Core(h2, cb, L2, Sup(h2), posted, r, D, H) /\ R <= r /\ r <= H
                /\ \A i \in R+1..R+MaxItem :
                     (i <= r \/ Slot(i) \in h2.status_cmpl)
                       <=> Slot(i) \in ring.status_cmpl \cup {Slot(m)}
      BY ONLY <1>1, <1>3, m \in Nat, <2>1, <2>2, Completed
    <2> HIDE DEF x
    <2>4. x = Slot(m)
      BY ONLY <1>3 DEF x
    <2> QED
      BY ONLY <2>3, <2>4 DEF h, f
  <1> HIDE DEF h, u, f, x
  <1>10. Acked(acked', ring'.status_cmpl, posted', R2) /\ acked[m] = 0
    <2>1. acked \in [1..MaxMsgs -> Nat]
      BY DEF Rest
    <2>2. R2 <= posted /\ m <= posted /\ Slot(m) \notin ring.status_cmpl /\ posted' = posted
      BY <1>2, <1>3, <1>9
    <2> DEFINE C == ring.status_cmpl
               C2 == h.status_cmpl
               P == posted
               a == acked
    <2>3. /\ R \in Nat /\ P \in Nat /\ m \in Nat /\ R2 \in Nat /\ R < m /\ m <= P
          /\ P < R + MaxItem /\ R <= R2 /\ R2 <= P /\ m \in 1..MaxMsgs
          /\ a \in [1..MaxMsgs -> Nat] /\ Acked(a, C, P, R) /\ Slot(m) \notin C
          /\ \A i \in R+1..R+MaxItem :
               (i <= R2 \/ Slot(i) \in C2) <=> Slot(i) \in C \cup {Slot(m)}
      BY ONLY <1>1, <1>2, <1>3, <1>9, <2>1, <2>2, R \in Nat, m \in Nat, R2 \in Nat
    <2> HIDE DEF C, C2, P, a
    <2>4. Acked([a EXCEPT ![m] = @ + 1], C2, P, R2)
      BY ONLY <2>3, AckedMore
    <2>5. a[m] = 0
      BY ONLY <2>3, AckedMore
    <2> QED
      BY ONLY <1>8, <2>2, <2>4, <2>5 DEF C, C2, P, a
  <1>11. Live(R2, D, H)'
    <2>1. wl' = L2 /\ cb' = cb /\ posted' = posted /\ slot' = slot /\ L2 \subseteq wl
      OBVIOUS
    <2> HIDE DEF L2
    <2>2. Core(ring', cb', wl', Sup(ring'), posted', R2, D, H)
      BY ONLY <1>8, <1>9, <2>1
    <2>3. Held(wl', slot')
      BY ONLY <1>1, <2>1 DEF Held
    <2>4. InSlots(slot', posted', R2)
      <3>1. \A i \in R2+1..posted : i \in R+1..posted
        BY ONLY <1>2, <1>9, R \in Nat, R2 \in Nat
      <3> QED
        BY ONLY <1>1, <2>1, <3>1 DEF InSlots
    <2> QED
      BY ONLY <1>10, <2>2, <2>3, <2>4 DEF Live
  <1>12. Rest'
    <2>1. acked' \in [1..MaxMsgs -> Nat]
      <3> DEFINE v == acked[m] + 1
      <3>1. acked \in [1..MaxMsgs -> Nat] /\ v \in Nat
        BY <1>10 DEF Rest
      <3>2. acked' = [acked EXCEPT ![m] = v]
        BY ONLY <1>8, <3>1
      <3> HIDE DEF v
      <3> QED
        BY ONLY <3>1, <3>2
    <2>2. UNCHANGED <<slot, w, posted, doorbell, request, left>>
      OBVIOUS
    <2> QED
      BY ONLY Rest, <2>1, <2>2 DEF Rest
  <1>13. Inv'
    BY ONLY <1>11, <1>12, R2 \in Nat, D \in Nat, H \in Nat DEF Inv
  <1>14. Window!Complete(m)
    <2>1. acked' = [acked EXCEPT ![m] = 1]
      <3>1. acked \in [1..MaxMsgs -> Nat]
        BY DEF Rest
      <3>2. acked[m] + 1 = 1
        BY ONLY <1>10
      <3>3. acked' = [acked EXCEPT ![m] = acked[m] + 1]
        BY ONLY <1>8, <3>1
      <3> QED
        BY ONLY <3>2, <3>3
    <2>2. posted' = posted
      OBVIOUS
    <2> QED
      BY ONLY <1>10, <2>1, <2>2 DEF Window!Complete
  <1> QED
    BY ONLY <1>3, <1>13, <1>14

LEMMA TxStatusKeeps ==
  ASSUME Calm, Rest, NEW R \in Nat, NEW D \in Nat, NEW H \in Nat, Live(R, D, H), NEW l \in wl,
         NEW s \in Final \cup Suppressing, TxStatus(l, s)
  PROVE  Inv' /\ (UNCHANGED <<posted, acked>> \/ \E m \in 1..posted : Window!Complete(m))
  <1> DEFINE u == pciedev_update_txstatus(ring, s, l.idx)
  <1>1. /\ s \in Suppressing => left.sup > 0
        /\ left' = IF s \in Suppressing THEN [left EXCEPT !.sup = @ - 1] ELSE left
        /\ ring' = u.ring /\ wl' = wl \ {l} /\ QueueTxStatus(u, l.msg)
        /\ UNCHANGED <<slot, w, posted, doorbell, request, cb>>
    BY ONLY TxStatus(l, s) DEF TxStatus
  <1>2. CASE s \in Suppressing
    <2>1. s = "SUPPRESS"
      BY <1>2 DEF Suppressing
    <2>2. ring \in RingType
      BY CoreFacts DEF Live
    <2>3. u.ok = FALSE
      <3>1. PICK n \in Nat : /\ ring.pktinflight = n + 1 /\ n + 1 <= 65535 /\ n <= LfragCnt
                             /\ IsFiniteSet(wl \ {l}) /\ n = Cardinality(wl \ {l})
        BY ONLY Calm, Live(R, D, H), l \in wl, OneFewer
      <3> DEFINE k == n + 1
                 f == [ring EXCEPT !.pktinflight = n]
                 x == l.idx
      <3>2. k \in Nat /\ ring.pktinflight = k /\ k <= 65535 /\ k >= 1 /\ k - 1 = n
        BY ONLY <3>1, n \in Nat
      <3> HIDE DEF k
      <3>3. Down(ring) = [ring EXCEPT !.pktinflight = k - 1]
        BY ONLY <2>2, <3>2, InflightDown
      <3>4. Down(ring) = f /\ f \in RingType
        <4>1. f \in RingType
          BY ONLY <2>2, n \in Nat, InflightOps
        <4> QED
          BY ONLY <3>2, <3>3, <4>1
      <3>5. u = Updated(Down(ring), "SUPPRESS", x)
        BY ONLY <2>1, UpdateDown
      <3> HIDE DEF f, u, x
      <3> DEFINE h == pciedev_schedule_flow_ring_read_buffer(pciedev_process_pending_flring_resp(
                        ClearSup(pciedev_adjust_flow_fetch_ptr(
                          IF NothingOut(f) THEN f ELSE Set(f, "SUP_PENDING"), x))))
      <3>6. Updated(f, "SUPPRESS", x) = [ring |-> h, ok |-> FALSE]
        BY ONLY <3>4, UpdateSuppress
      <3> HIDE DEF h
      <3> QED
        BY ONLY <3>4, <3>5, <3>6
    <2>4. acked' = acked
      <3> HIDE DEF u
      <3> QED
        BY ONLY <1>1, <2>3 DEF QueueTxStatus
    <2>5. /\ left.sup > 0 /\ left' = [left EXCEPT !.sup = @ - 1]
      BY ONLY <1>1, <1>2
    <2>6. /\ ring' = pciedev_update_txstatus(ring, "SUPPRESS", l.idx).ring
      BY ONLY <1>1, <2>1
    <2>7. Inv'
      BY ONLY Calm, Rest, Live(R, D, H), R \in Nat, D \in Nat, H \in Nat, l \in wl,
              <1>1, <2>4, <2>5, <2>6, BackKeeps
    <2> QED
      BY ONLY <1>1, <2>4, <2>7
  <1>3. CASE s \notin Suppressing
    <2>1. s \in Final /\ UNCHANGED left
      BY ONLY <1>1, <1>3, s \in Final \cup Suppressing
    <2> QED
      BY ONLY Calm, Rest, Live(R, D, H), R \in Nat, D \in Nat, H \in Nat, l \in wl,
              <1>1, <2>1, FinalKeeps
  <1> QED
    BY <1>2, <1>3

-----------------------------------------------------------------------------
(* The invariant is inductive, and the steps are those of a tx window.     *)
LEMMA NextInv ==
  ASSUME Calm, Inv, [Next]_vars
  PROVE  Inv' /\ [Window!Next]_(Window!vars)
  <1>1. PICK R \in Nat, D \in Nat, H \in Nat : Live(R, D, H)
    BY DEF Inv
  <1>2. Rest /\ ring \in RingType /\ Requests = {}
    BY <1>1, CoreFacts DEF Inv, Live, Calm
  <1>a. Calm
    OBVIOUS
  <1>3. ASSUME UNCHANGED <<posted, acked>> PROVE [Window!Next]_(Window!vars)
    BY <1>3 DEF Window!vars
  <1>4. CASE dhd_prot_txdata
    <2>1. Inv' /\ Window!Post
      BY ONLY <1>1, <1>2, <1>4, PostKeeps
    <2> QED
      BY ONLY <2>1 DEF Window!Next
  <1>5. CASE MsgbufIntr
    <2>1. Inv'
      BY ONLY <1>1, <1>2, <1>5, IntrKeeps
    <2>2. UNCHANGED <<posted, acked>>
      BY ONLY <1>5 DEF MsgbufIntr
    <2> QED
      BY ONLY <1>3, <2>1, <2>2
  <1>6. CASE FlowScheduleTimer
    <2>1. Inv'
      BY ONLY <1>a, <1>1, <1>2, <1>6, TimerKeeps
    <2>2. UNCHANGED <<posted, acked>>
      BY ONLY <1>6 DEF FlowScheduleTimer
    <2> QED
      BY ONLY <1>3, <2>1, <2>2
  <1>7. CASE FetchCb
    <2>1. Inv'
      BY ONLY <1>1, <1>2, <1>7, FetchCbKeeps
    <2>2. UNCHANGED <<posted, acked>>
      BY ONLY <1>7 DEF FetchCb
    <2> QED
      BY ONLY <1>3, <2>1, <2>2
  <1>8. ~FlushMsg
    <2>1. ~Has(ring, "FLUSH_PENDING")
      BY ONLY <1>2, NoFlush
    <2>2. FlushMsg => Has(ring, "FLUSH_PENDING")
      BY ONLY DEF FlushMsg
    <2> QED
      BY ONLY <2>1, <2>2
  <1>9. CASE pciedev_process_tx_post
    <2>1. Inv'
      BY ONLY <1>a, <1>1, <1>2, <1>9, TxPostKeeps
    <2>2. UNCHANGED <<posted, acked>>
      BY ONLY <1>9 DEF pciedev_process_tx_post
    <2> QED
      BY ONLY <1>3, <2>1, <2>2
  <1>10. CASE SkipMsg
    <2>1. Inv'
      BY ONLY <1>1, <1>2, <1>10, SkipKeeps
    <2>2. UNCHANGED <<posted, acked>>
      BY ONLY <1>10 DEF SkipMsg
    <2> QED
      BY ONLY <1>3, <2>1, <2>2
  <1>11. CASE FetchDone
    <2>1. Inv'
      BY ONLY <1>a, <1>1, <1>2, <1>11, DoneKeeps
    <2>2. UNCHANGED <<posted, acked>>
      BY ONLY <1>11 DEF FetchDone
    <2> QED
      BY ONLY <1>3, <2>1, <2>2
  <1>12. ASSUME NEW open \in BOOLEAN, pciedev_upd_flr_port_handle(open)
         PROVE  Inv' /\ [Window!Next]_(Window!vars)
    <2>1. Inv'
      BY ONLY <1>1, <1>2, <1>12, PortKeeps
    <2>2. UNCHANGED <<posted, acked>>
      BY ONLY <1>12 DEF pciedev_upd_flr_port_handle
    <2> QED
      BY ONLY <1>3, <2>1, <2>2
  <1>13. ASSUME NEW n \in 1..MaxFetch, pciedev_process_reqst_packet(n)
         PROVE  Inv' /\ [Window!Next]_(Window!vars)
    <2>1. Inv'
      BY ONLY <1>a, <1>1, <1>2, <1>13, PollKeeps
    <2>2. UNCHANGED <<posted, acked>>
      BY ONLY <1>13 DEF pciedev_process_reqst_packet
    <2> QED
      BY ONLY <1>3, <2>1, <2>2
  <1>14. ASSUME NEW l \in wl, NEW s \in Final \cup Suppressing, TxStatus(l, s)
         PROVE  Inv' /\ [Window!Next]_(Window!vars)
    <2>1. Inv' /\ (UNCHANGED <<posted, acked>> \/ \E m \in 1..posted : Window!Complete(m))
      BY ONLY <1>a, <1>1, <1>2, <1>14, TxStatusKeeps
    <2>2. CASE UNCHANGED <<posted, acked>>
      BY ONLY <1>3, <2>1, <2>2
    <2>3. CASE \E m \in 1..posted : Window!Complete(m)
      BY ONLY <2>1, <2>3 DEF Window!Next
    <2> QED
      BY <2>1, <2>2, <2>3
  <1>15. CASE UNCHANGED vars
    <2>1. UNCHANGED <<slot, w, posted, doorbell, request, ring, cb, wl, acked, left>>
      BY ONLY <1>15 DEF vars
    <2>2. Rest'
      BY ONLY <1>2, <2>1 DEF Rest
    <2>3. Live(R, D, H)'
      BY ONLY <1>1, <2>1 DEF Live
    <2>4. Inv'
      BY ONLY <1>1, <2>2, <2>3 DEF Inv
    <2> QED
      BY ONLY <1>3, <2>1, <2>4
  <1>16. CASE Next
    <2>1. \/ dhd_prot_txdata \/ MsgbufIntr \/ FlowScheduleTimer \/ FetchCb \/ FlushMsg
          \/ pciedev_process_tx_post \/ SkipMsg \/ FetchDone
          \/ \E open \in BOOLEAN : pciedev_upd_flr_port_handle(open)
          \/ \E n \in 1..MaxFetch : pciedev_process_reqst_packet(n)
          \/ \E l \in wl, s \in Final \cup Suppressing : TxStatus(l, s)
      BY ONLY <1>2, <1>16 DEF Next, HostStep, DongleStep, Callback
    <2> QED
      BY ONLY <1>4, <1>5, <1>6, <1>7, <1>8, <1>9, <1>10, <1>11, <1>12, <1>13, <1>14, <2>1
  <1> QED
    BY <1>15, <1>16

-----------------------------------------------------------------------------
(* What it says of the ring.                                               *)
LEMMA InvTypeOK == ASSUME Calm, Inv PROVE TypeOK
  <1>1. PICK R \in Nat, D \in Nat, H \in Nat : Live(R, D, H)
    BY DEF Inv
  <1>2. Rest /\ ring \in RingType /\ cb \in CbType /\ Counts(ring, cb, wl) /\ Held(wl, slot)
    BY <1>1, CoreFacts DEF Inv, Live
  <1>3. w \in Idx
    <2>1. posted + 1 \in Nat /\ posted + 1 >= 1
      BY <1>2, Sizes DEF Rest
    <2> QED
      BY <1>2, <2>1, SlotType DEF Rest
  <1>4. /\ slot \in [Idx -> 0..MaxMsgs] /\ posted \in 0..MaxMsgs
        /\ doorbell \in BOOLEAN /\ acked \in [1..MaxMsgs -> Nat]
        /\ left \in [sup : 0..MaxSup, refuse : 0..MaxRefuse, close : 0..MaxClose,
                     poll : 0..MaxPoll]
        /\ request \in [{"flush", "delete"} -> {"none", "sent", "taken", "answered"}]
    BY ONLY <1>2 DEF Rest, LeftType
  <1>5. /\ ring.inited \in BOOLEAN /\ ring.r \in Idx /\ ring.rd \in Idx
        /\ ring.inprocess \subseteq Idx /\ ring.status_cmpl \subseteq Idx
        /\ ring.hole_pending \in BOOLEAN /\ ring.timer \in BOOLEAN
        /\ ring.status \subseteq Flags /\ ring.resp = {} /\ ring.fetchq \in Seq(Block)
        /\ ring.pktinflight \in Nat /\ ring.fetch_pending \in Nat /\ ring.bufs \in Nat
    BY ONLY <1>2 DEF RingType
  <1>6. /\ ring.pktinflight \in 0..MaxInflight /\ ring.fetch_pending \in 0..FetchMod-1
        /\ ring.bufs \in 0..BufCnt
    <2>1. ring.pktinflight <= LfragCnt /\ ring.fetch_pending <= LfragCnt /\ ring.bufs <= BufCnt
      BY ONLY <1>2 DEF Counts
    <2>2. LfragCnt < FetchMod /\ LfragCnt < 65536
      BY DEF Calm
    <2> DEFINE n == ring.pktinflight
               k == ring.fetch_pending
               b == ring.bufs
    <2>3. /\ n \in Nat /\ k \in Nat /\ b \in Nat /\ n <= LfragCnt /\ k <= LfragCnt
          /\ b <= BufCnt /\ LfragCnt \in Nat /\ FetchMod \in Nat /\ BufCnt \in Nat
      BY ONLY <1>5, <2>1, Sizes
    <2> HIDE DEF n, k, b
    <2>4. n \in 0..MaxInflight
      <3>1. n <= MaxInflight /\ MaxInflight \in Nat
        BY ONLY <2>2, <2>3 DEF MaxInflight
      <3> QED
        BY ONLY <2>3, <3>1
    <2>5. k \in 0..FetchMod-1 /\ b \in 0..BufCnt
      BY ONLY <2>2, <2>3
    <2> QED
      BY ONLY <2>4, <2>5 DEF n, k, b
  <1>7. wl \subseteq [idx : Idx, msg : 1..MaxMsgs]
    <2>1. \A l \in wl : l \in WlType
      BY ONLY <1>2 DEF Held
    <2>2. wl \subseteq WlType
      BY ONLY <2>1
    <2> QED
      BY ONLY <2>2 DEF WlType
  <1>8. cb \in [idx : Idx, todo : 0..MaxItem, len : 0..MaxItem, sentup : BOOLEAN]
    BY ONLY <1>2 DEF CbType
  <1>9. ring.fetchq \in Seq([idx : Idx, len : 1..MaxItem])
    BY ONLY <1>5 DEF Block
  <1>10. /\ ring.status \subseteq {"PKT_PENDING", "PORT_CLOSED", "DELETE_RESP_PENDING",
                                   "FLUSH_RESP_PENDING", "FLUSH_PENDING",
                                   "SUP_PENDING", "NOFLUSH_TXUPDATE"}
         /\ ring.resp \subseteq {"flush", "delete"}
    BY ONLY <1>5 DEF Flags
  <1> QED
    BY ONLY <1>3, <1>4, <1>5, <1>6, <1>7, <1>8, <1>9, <1>10 DEF TypeOK

LEMMA InvOwned == ASSUME Calm, Inv PROVE BufferOwned
  <1>1. PICK R \in Nat, D \in Nat, H \in Nat : Live(R, D, H)
    BY DEF Inv
  <1>2. Rest /\ Acked(acked, ring.status_cmpl, posted, R)
    BY <1>1 DEF Inv, Live
  <1>3. ASSUME NEW l \in wl PROVE acked[l.msg] = 0
    <2>1. PICK m \in Nat :
            /\ R < m /\ m <= H /\ l.idx = Slot(m) /\ l.msg = m
            /\ m \in 1..posted /\ m \in 1..MaxMsgs
            /\ l.idx \in Out(wl) /\ l.idx \notin ring.status_cmpl /\ l.idx \in ring.inprocess
            /\ Out(wl \ {l}) = Out(wl) \ {l.idx}
      BY ONLY <1>1, <1>2, l \in wl, OfMessage
    <2>2. acked[m] = IF m <= R \/ (m <= posted /\ Slot(m) \in ring.status_cmpl) THEN 1 ELSE 0
      BY ONLY <1>2, <2>1 DEF Acked
    <2>3. ~(m <= R)
      BY <2>1
    <2> QED
      BY ONLY <2>1, <2>2, <2>3
  <1> QED
    BY <1>3 DEF BufferOwned

LEMMA InvInflight == ASSUME Inv PROVE InflightExact
  <1>1. PICK R \in Nat, D \in Nat, H \in Nat : Live(R, D, H)
    BY DEF Inv
  <1>2. Counts(ring, cb, wl)
    BY <1>1, CoreFacts DEF Live
  <1> QED
    BY <1>2 DEF Counts, InflightExact

(* The window starts R messages on.                                        *)
LEMMA Depths ==
  ASSUME Rest, NEW R \in Nat, NEW D \in Nat, NEW H \in Nat, Live(R, D, H)
  PROVE  /\ NTXPACTIVE(ring.r, w, MaxItem) = posted - R
         /\ \A k \in 0..MaxItem-1 : NTXPACTIVE(ring.r, Slot(R + 1 + k), MaxItem) = k
  <1>1. /\ ring.r = Slot(R + 1) /\ posted < R + MaxItem /\ R <= posted /\ posted \in Nat
        /\ MaxItem \in Nat /\ w = Slot(posted + 1)
    <2>1. /\ ring.r = Slot(R + 1) /\ posted < R + MaxItem /\ posted \in Nat /\ MaxItem \in Nat
          /\ R <= D /\ D <= H /\ H <= posted
      BY CoreFacts DEF Live
    <2> QED
      BY <2>1 DEF Rest
  <1>2. ASSUME NEW k \in 0..MaxItem-1
        PROVE  NTXPACTIVE(ring.r, Slot(R + 1 + k), MaxItem) = k
    <2> DEFINE a == R + 1
               b == R + 1 + k
    <2>1. a \in Nat /\ b \in Nat /\ a >= 1 /\ a <= b /\ b < a + MaxItem /\ b - a = k
      BY <1>1
    <2>2. ring.r = Slot(a)
      BY <1>1
    <2> HIDE DEF a, b
    <2>3. NTXPACTIVE(Slot(a), Slot(b), MaxItem) = b - a
      BY ONLY <2>1, SlotDist
    <2>4. NTXPACTIVE(ring.r, Slot(b), MaxItem) = k
      BY ONLY <2>1, <2>2, <2>3
    <2> QED
      BY ONLY <2>4 DEF b
  <1>3. NTXPACTIVE(ring.r, w, MaxItem) = posted - R
    <2> DEFINE j == posted - R
    <2>1. j \in 0..MaxItem-1 /\ R + 1 + j = posted + 1
      BY <1>1
    <2>2. NTXPACTIVE(ring.r, Slot(R + 1 + j), MaxItem) = j
      BY <1>2, <2>1
    <2> HIDE DEF j
    <2>3. NTXPACTIVE(ring.r, w, MaxItem) = j
      BY ONLY <1>1, <2>1, <2>2
    <2> QED
      BY ONLY <2>3 DEF j
  <1> QED
    BY ONLY <1>2, <1>3

LEMMA InvFreed == ASSUME Inv PROVE SlotsFreedAcked
  <1>1. PICK R \in Nat, D \in Nat, H \in Nat : Live(R, D, H)
    BY DEF Inv
  <1>2. Rest /\ Acked(acked, ring.status_cmpl, posted, R)
    BY <1>1 DEF Inv, Live
  <1>3. NTXPACTIVE(ring.r, w, MaxItem) = posted - R
    BY ONLY <1>1, <1>2, Depths
  <1>4. posted \in Nat /\ posted <= MaxMsgs /\ MaxMsgs \in Nat /\ R <= posted
    <2>1. R <= D /\ D <= H /\ H <= posted /\ posted \in Nat
      BY <1>1, CoreFacts DEF Live
    <2> QED
      BY <1>2, <2>1, Sizes DEF Rest
  <1>5. posted - NTXPACTIVE(ring.r, w, MaxItem) = R
    <2> DEFINE n == NTXPACTIVE(ring.r, w, MaxItem)
    <2>1. n = posted - R
      BY <1>3
    <2> HIDE DEF n
    <2>2. posted - n = R
      BY ONLY <1>4, <2>1, R \in Nat
    <2> QED
      BY ONLY <2>2 DEF n
  <1>6. ASSUME NEW m \in 1..R PROVE acked[m] = 1
    <2>1. m \in 1..MaxMsgs /\ m <= R
      BY <1>4
    <2> QED
      BY ONLY <1>2, <2>1 DEF Acked
  <1> QED
    BY ONLY <1>5, <1>6 DEF SlotsFreedAcked

LEMMA InvSkipped == ASSUME Inv PROVE NothingSkipped
  <1>1. PICK R \in Nat, D \in Nat, H \in Nat : Live(R, D, H)
    BY DEF Inv
  <1>2. Rest /\ Acked(acked, ring.status_cmpl, posted, R) /\ InSlots(slot, posted, R)
    BY <1>1 DEF Inv, Live
  <1>3. NTXPACTIVE(ring.r, w, MaxItem) = posted - R
        /\ \A k \in 0..MaxItem-1 : NTXPACTIVE(ring.r, Slot(R + 1 + k), MaxItem) = k
    BY ONLY <1>1, <1>2, Depths
  <1>4. /\ R <= D /\ D <= H /\ H <= posted /\ posted \in Nat /\ H < R + MaxItem
        /\ MaxItem \in Nat /\ ring.rd = Slot(D + 1)
        /\ Track(ring.status_cmpl, Out(wl), Fetched(ring.fetchq, cb), Sup(ring), R, D, H)
    BY <1>1, CoreFacts DEF Live
  <1>5. posted <= MaxMsgs /\ MaxMsgs \in Nat
    BY <1>2, Sizes DEF Rest
  <1> DEFINE depth(i) == NTXPACTIVE(ring.r, i, MaxItem)
  <1>6. depth(ring.rd) = D - R
    <2> DEFINE j == D - R
    <2>1. j \in 0..MaxItem-1 /\ R + 1 + j = D + 1
      BY <1>4
    <2>2. depth(Slot(R + 1 + j)) = j
      BY <1>3, <2>1
    <2> HIDE DEF depth, j
    <2>3. depth(ring.rd) = j
      BY ONLY <1>4, <2>1, <2>2
    <2> QED
      BY ONLY <2>3 DEF j
  <1>7. Fetched(ring.fetchq, cb) \subseteq Fetching
    <2>1. ASSUME NEW i \in Fetched(ring.fetchq, cb) PROVE i \in Fetching
      <3> DEFINE of(k) == {Plus(ring.fetchq[k].idx, x) : x \in 0..ring.fetchq[k].len-1}
                 all == {of(k) : k \in 1..Len(ring.fetchq)}
      <3>1. Fetching = (UNION all) \cup Blk(cb.idx, cb.todo)
        BY ONLY DEF Fetching, Blk
      <3>2. ASSUME NEW k \in 1..Len(ring.fetchq), i \in BlkOf(ring.fetchq[k])
            PROVE  i \in UNION all
        <4>1. BlkOf(ring.fetchq[k]) = of(k)
          BY ONLY DEF BlkOf, Blk
        <4>2. of(k) \in all
          OBVIOUS
        <4> HIDE DEF of, all
        <4> QED
          BY ONLY <3>2, <4>1, <4>2
      <3> HIDE DEF all
      <3>3. i \in Queued(ring.fetchq) \/ i \in Blk(cb.idx, cb.todo)
        BY ONLY <2>1 DEF Fetched
      <3>4. i \in Queued(ring.fetchq) =>
              \E k \in 1..Len(ring.fetchq) : i \in BlkOf(ring.fetchq[k])
        BY ONLY DEF Queued
      <3>5. CASE i \in Queued(ring.fetchq)
        <4>1. PICK k \in 1..Len(ring.fetchq) : i \in BlkOf(ring.fetchq[k])
          BY ONLY <3>4, <3>5
        <4>2. i \in UNION all
          BY ONLY <3>2, <4>1
        <4> QED
          BY ONLY <3>1, <4>2
      <3>6. CASE i \in Blk(cb.idx, cb.todo)
        <4> DEFINE a == UNION all
                   b == Blk(cb.idx, cb.todo)
        <4>1. Fetching = a \cup b /\ i \in b
          BY ONLY <3>1, <3>6
        <4> HIDE DEF a, b
        <4> QED
          BY ONLY <4>1
      <3> QED
        BY ONLY <3>3, <3>5, <3>6
    <2> QED
      BY <2>1
  <1>8. ASSUME NEW i \in Idx, depth(i) < depth(ring.rd)
        PROVE  acked[slot[i]] = 1 \/ i \in Fetching \/ \E l \in wl : l.idx = i
    <2>1. R + 1 \in Nat /\ R + 1 >= 1
      OBVIOUS
    <2>2. PICK k \in 0..MaxItem-1 : i = Slot(R + 1 + k)
      BY ONLY <2>1, i \in Idx, SlotAll
    <2>3. depth(i) = k
      BY <1>3, <2>2
    <2> HIDE DEF depth
    <2> DEFINE n == R + 1 + k
    <2>4. n \in R+1..D /\ n \in 1..MaxMsgs /\ n \in R+1..posted /\ n <= posted
      BY <1>4, <1>5, <1>6, <1>8, <2>3
    <2>5. i = Slot(n)
      BY <2>2
    <2> HIDE DEF n
    <2>6. i \in ring.status_cmpl \cup Out(wl) \cup Fetched(ring.fetchq, cb)
      BY ONLY <1>4, <2>4, <2>5 DEF Track
    <2>7. CASE i \in ring.status_cmpl
      <3>1. slot[i] = n
        BY ONLY <1>2, <2>4, <2>5 DEF InSlots
      <3>2. acked[n] = 1
        BY ONLY <1>2, <2>4, <2>5, <2>7 DEF Acked
      <3> QED
        BY ONLY <3>1, <3>2
    <2>8. CASE i \in Out(wl)
      BY ONLY <2>8 DEF Out
    <2>9. CASE i \in Fetched(ring.fetchq, cb)
      BY ONLY <1>7, <2>9
    <2> QED
      BY ONLY <2>6, <2>7, <2>8, <2>9
  <1>9. depth(ring.rd) <= depth(w)
    <2>1. D - R <= posted - R
      BY <1>4
    <2>2. depth(w) = posted - R
      BY <1>3
    <2> HIDE DEF depth
    <2> QED
      BY ONLY <1>6, <2>1, <2>2
  <1> QED
    BY ONLY <1>8, <1>9 DEF NothingSkipped

-----------------------------------------------------------------------------
(* Until the first flush or delete request, and with fewer lfrags than the *)
(* counts of packets and of messages being fetched can hold, Inv holds in  *)
(* every state: R messages are done with, the next is to be fetched after  *)
(* D, and H were fetched at some time.                                     *)
THEOREM Inductive == ASSUME Calm PROVE Spec => []Inv
  <1>1. Init => Inv
    BY InitInv
  <1>2. Inv /\ [Next]_vars => Inv'
    BY NextInv
  <1> QED
    BY <1>1, <1>2, PTL DEF Spec

(* Every variable has its type: in particular the counts of packets and of *)
(* messages being fetched never wrap, and no more local buffers are lent   *)
(* than there are (pciedev.c:3571, pciedev_data.c:1091).                   *)
THEOREM TypeCorrect == ASSUME Calm PROVE Spec => []TypeOK
  BY Inductive, InvTypeOK, PTL

(* wl never holds a packet whose buffer the host was told is free, however *)
(* often the packet was suppressed and fetched again.                      *)
THEOREM OwnedSafe == ASSUME Calm PROVE Spec => []BufferOwned
  BY Inductive, InvOwned, PTL

(* The read index in the TCM passes completed messages only, although they *)
(* are completed in any order and fetched again after a suppression.       *)
THEOREM FreedSafe == ASSUME Calm PROVE Spec => []SlotsFreedAcked
  BY Inductive, InvFreed, PTL

(* A suppression turns the fetch index back, and the fetch passes over     *)
(* what is complete; whatever it leaves behind the fetch index is complete,*)
(* being fetched, or with wl.                                              *)
THEOREM SkippedSafe == ASSUME Calm PROVE Spec => []NothingSkipped
  BY Inductive, InvSkipped, PTL

(* The ring counts in flight exactly the packets with wl: a suppression is *)
(* over, and its messages are fetched again, only when wl holds none.      *)
THEOREM InflightSafe == ASSUME Calm PROVE Spec => []InflightExact
  BY Inductive, InvInflight, PTL

(* The ring implements TxWindow: no message is completed twice, and a new  *)
(* one is taken only when the one that had its slot is complete.           *)
THEOREM WindowSafe == ASSUME Calm PROVE Spec => ImplementsTxWindow
  <1>1. Init => Window!Init
    BY DEF Init, Window!Init
  <1>2. Inv /\ [Next]_vars => [Window!Next]_(Window!vars)
    BY NextInv
  <1> QED
    BY Inductive, <1>1, <1>2, PTL DEF Spec, ImplementsTxWindow, Window!Spec
=============================================================================
