---------------------------- MODULE IoctlPathProofs ----------------------------
(***************************************************************************)
(* Theorems about IoctlPath, for every size of the rings and the pool and  *)
(* any number of calls.                                                    *)
(*                                                                         *)
(* A request and its answer go through six stages: posted in h2d, fetched  *)
(* in dmaq, served, coming in cpl, got in rxlen, returned.  The inductive  *)
(* invariant says that what is further along belongs to an earlier call,   *)
(* which is why answers are never returned out of order; that, as long as  *)
(* no call has failed, the six stages hold at most the current call; and   *)
(* that the buffers on their way are among those the host holds.           *)
(***************************************************************************)
EXTENDS IoctlPath, SeqSumProofs

Answers == {m \in CplMsg : m.kind = "answer"}

-----------------------------------------------------------------------------
(* The inductive invariant.                                                *)

(* Type correctness but for held, whose sign needs BufInv.                 *)
TypeInv ==
  /\ hpc \in {"idle", "post", "wait", "timed"}
  /\ trans_id \in 0..MaxCalls /\ ioctbuf \in 0..MaxCalls
  /\ cur_posted \in 0..MaxPost /\ held \in Int
  /\ rxlen \in 0..MaxCalls /\ nomem \in 0..MaxNoMem
  /\ returned \in Seq(0..MaxCalls)
  /\ h2d \in Seq(CtrlMsg) /\ dmaq \in Seq(Seq(CtrlMsg)) /\ CtrlSpace >= 0
  /\ pool \in 0..PoolMax
  /\ served \in [phase : {"none", "fetch", "pend", "reply"},
                 trans : 0..MaxCalls, args : 0..MaxCalls]
  /\ served.phase \in {"fetch", "pend"} => served.trans # 0
  /\ executed \in Seq((1..MaxCalls) \X (0..MaxCalls))
  /\ cpl \in Seq(CplMsg) /\ Len(cpl) <= CplSlots
  /\ landed \in 0..Len(cpl) /\ seen \in 0..landed
  /\ others \in 0..MaxOther

(* Between two calls as many calls have returned as were made.             *)
CallInv == Len(returned) = IF hpc = "idle" THEN trans_id ELSE trans_id - 1

(* What the host has not read of the control completion ring.              *)
Rest(out, n) == SubSeq(out, n + 1, Len(out))
Coming == Rest(cpl, seen)

(* The response buffers on their way: posted, fetched, in the pool, used   *)
(* for an answer that is coming, or with the host's caller.                *)
BufsOf(s) == CountOf(s, {Buf})
BufsIn(d) == SumOf([k \in 1..Len(d) |-> BufsOf(d[k])])
BufGot == IF rxlen = 0 THEN 0 ELSE 1

BufInv ==
  BufsOf(h2d) + BufsIn(dmaq) + pool + CountOf(Coming, Answers) + BufGot <= held

Below(S, T) == \A x \in S, y \in T : x < y

(* The calls whose request or answer is in a sequence of messages, and     *)
(* that they are there in the order they were made.                        *)
Carries(m) == m.kind \in {"req", "answer"}
Calls(s) == {s[i].trans : i \in {j \in 1..Len(s) : Carries(s[j])}}
Rising(s) == \A i, j \in 1..Len(s) :
               i < j /\ Carries(s[i]) /\ Carries(s[j]) => s[i].trans < s[j].trans

(* The same for a sequence of blocks.                                      *)
CallsIn(d) == UNION {Calls(d[k]) : k \in 1..Len(d)}
RisingIn(d) ==
  /\ \A k \in 1..Len(d) : Rising(d[k])
  /\ \A k, l \in 1..Len(d) : k < l => Below(Calls(d[k]), Calls(d[l]))

(* The calls in each stage, with 0 for those that failed.                  *)
DoneSet == {0} \union {returned[i] : i \in 1..Len(returned)}
GotSet == {rxlen} \ {0}
ServedSet(srv) == IF srv.phase \in {"fetch", "pend"} THEN {srv.trans} ELSE {}

(* Each stage is below the next ones, and none is above the last call.     *)
Stages(A, B, C, D, E, F, t) ==
  /\ Below(A, B \union C \union D \union E \union F)
  /\ Below(B, C \union D \union E \union F)
  /\ Below(C, D \union E \union F)
  /\ Below(D, E \union F)
  /\ Below(E, F)
  /\ 0 \in A /\ A \union B \union C \union D \union E \union F \subseteq 0..t

OrderInv ==
  /\ Stages(DoneSet, GotSet, Calls(Coming), ServedSet(served), CallsIn(dmaq),
            Calls(h2d), trans_id)
  /\ Rising(Coming) /\ RisingIn(dmaq) /\ Rising(h2d)

(* No call has failed.                                                     *)
Fine == Failures = 0 /\ hpc # "timed"

(* The stages hold the current call only, and the commands that were run   *)
(* are its predecessors' and, once it is past the dongle, its own.         *)
Ahead == GotSet \union Calls(Coming)
Behind(srv, d) == ServedSet(srv) \union CallsIn(d) \union Calls(h2d)

OwnCalls(ahead, behind, srv) ==
  /\ ahead \union behind \subseteq {trans_id}
  /\ ahead # {} \/ hpc = "idle" => Len(executed) = trans_id
  /\ behind # {} => Len(executed) = trans_id - 1 /\ ioctbuf = trans_id
  /\ srv.phase = "pend" => srv.args = srv.trans

OwnInv ==
  Fine =>
    /\ \A i \in 1..Len(returned) : returned[i] = i
    /\ \A i \in 1..Len(executed) : executed[i] = <<i, i>>
    /\ OwnCalls(Ahead, Behind(served, dmaq), served)

IInv == /\ TypeInv /\ CallInv /\ BufInv /\ NoLockout /\ SurplusBounded
        /\ OrderInv /\ OwnInv

-----------------------------------------------------------------------------
(* Sequences of messages: appending, taking the first, splitting.          *)

LEMMA CallsAppend ==
  ASSUME NEW X, NEW s \in Seq(X), NEW m \in X
  PROVE  /\ Carries(m) => Calls(Append(s, m)) = Calls(s) \union {m.trans}
         /\ ~Carries(m) => Calls(Append(s, m)) = Calls(s)
         /\ Rising(s) /\ (Carries(m) => Below(Calls(s), {m.trans}))
              => Rising(Append(s, m))
  <1> DEFINE t == Append(s, m)
  <1>1. /\ Len(t) = Len(s) + 1 /\ Len(s) \in Nat
        /\ t[Len(s)+1] = m /\ \A k \in 1..Len(s) : t[k] = s[k]
    OBVIOUS
  <1> HIDE DEF t
  <1>2. \A k \in 1..Len(t) : k \in 1..Len(s) \/ k = Len(s) + 1
    BY <1>1
  <1>3. Carries(m) => Calls(t) = Calls(s) \union {m.trans}
    BY <1>1, <1>2 DEF Calls
  <1>4. ~Carries(m) => Calls(t) = Calls(s)
    BY <1>1, <1>2 DEF Calls
  <1>5. ASSUME Rising(s), Carries(m) => Below(Calls(s), {m.trans})
        PROVE  Rising(t)
    <2> SUFFICES ASSUME NEW i \in 1..Len(t), NEW j \in 1..Len(t), i < j,
                        Carries(t[i]), Carries(t[j])
                 PROVE  t[i].trans < t[j].trans
      BY DEF Rising
    <2>1. i \in 1..Len(s)
      BY <1>1
    <2>2. CASE j \in 1..Len(s)
      BY <1>1, <1>5, <2>1, <2>2 DEF Rising
    <2>3. CASE j = Len(s) + 1
      <3>1. s[i].trans \in Calls(s)
        BY <1>1, <2>1 DEF Calls
      <3> QED
        BY <1>1, <1>5, <2>1, <2>3, <3>1 DEF Below
    <2> QED
      BY <1>2, <2>2, <2>3
  <1> QED
    BY <1>3, <1>4, <1>5 DEF t

LEMMA CallsTail ==
  ASSUME NEW X, NEW s \in Seq(X), s # <<>>
  PROVE  /\ Carries(s[1]) => Calls(s) = Calls(Tail(s)) \union {s[1].trans}
         /\ ~Carries(s[1]) => Calls(s) = Calls(Tail(s))
         /\ Rising(s) => /\ Rising(Tail(s))
                         /\ Carries(s[1]) => Below({s[1].trans}, Calls(Tail(s)))
  <1> DEFINE t == Tail(s)
  <1>1. /\ Len(t) = Len(s) - 1 /\ Len(s) \in Nat /\ Len(s) >= 1
        /\ \A k \in 1..Len(s)-1 : t[k] = s[k+1]
    BY EmptySeq
  <1> HIDE DEF t
  <1>2. \A k \in 1..Len(s) : k = 1 \/ (k - 1 \in 1..Len(t) /\ s[k] = t[k-1])
    <2> SUFFICES ASSUME NEW k \in 1..Len(s), k # 1
                 PROVE  k - 1 \in 1..Len(t) /\ s[k] = t[k-1]
      OBVIOUS
    <2>1. k - 1 \in 1..Len(s)-1 /\ (k - 1) + 1 = k
      BY <1>1
    <2> QED
      BY <1>1, <2>1
  <1>3. \A k \in 1..Len(t) : k + 1 \in 1..Len(s) /\ s[k+1] = t[k] /\ 1 < k + 1
    BY <1>1
  <1>4. Calls(t) \subseteq Calls(s)
    BY <1>1, <1>3 DEF Calls
  <1>5. ASSUME NEW x \in Calls(s) PROVE x \in Calls(t) \/ (Carries(s[1]) /\ x = s[1].trans)
    BY <1>1, <1>2 DEF Calls
  <1>6. Carries(s[1]) => s[1].trans \in Calls(s)
    BY <1>1 DEF Calls
  <1>7. ASSUME Rising(s) PROVE Rising(t)
    <2> SUFFICES ASSUME NEW i \in 1..Len(t), NEW j \in 1..Len(t), i < j,
                        Carries(t[i]), Carries(t[j])
                 PROVE  t[i].trans < t[j].trans
      BY DEF Rising
    <2>1. i + 1 < j + 1
      OBVIOUS
    <2> QED
      BY <1>3, <1>7, <2>1 DEF Rising
  <1>8. ASSUME Rising(s), Carries(s[1]) PROVE Below({s[1].trans}, Calls(t))
    <2> SUFFICES ASSUME NEW x \in Calls(t) PROVE s[1].trans < x
      BY DEF Below
    <2>1. PICK k \in 1..Len(t) : Carries(t[k]) /\ x = t[k].trans
      BY DEF Calls
    <2>2. 1 \in 1..Len(s)
      BY <1>1
    <2> QED
      BY <1>3, <1>8, <2>1, <2>2 DEF Rising
  <1> QED
    BY <1>4, <1>5, <1>6, <1>7, <1>8 DEF t

LEMMA CallsSplit ==
  ASSUME NEW X, NEW s \in Seq(X), NEW n \in 0..Len(s)
  PROVE  /\ Calls(s) = Calls(SubSeq(s, 1, n)) \union Calls(SubSeq(s, n + 1, Len(s)))
         /\ Rising(s) => /\ Rising(SubSeq(s, 1, n))
                         /\ Rising(SubSeq(s, n + 1, Len(s)))
                         /\ Below(Calls(SubSeq(s, 1, n)),
                                  Calls(SubSeq(s, n + 1, Len(s))))
  <1> DEFINE N == Len(s)
             a == SubSeq(s, 1, n)
             b == SubSeq(s, n + 1, N)
  <1>1. N \in Nat /\ n \in Nat /\ n <= N
    OBVIOUS
  <1>2. Len(a) = n /\ \A k \in 1..n : a[k] = s[k]
    BY <1>1, SubSeqProperties
  <1>3. Len(b) = N - n /\ \A k \in 1..N-n : b[k] = s[(n + 1) + k - 1]
    BY <1>1, SubSeqProperties
  <1> HIDE DEF a, b, N
  <1>4. \A k \in 1..N-n : (n + 1) + k - 1 = n + k
    BY <1>1
  <1>a. \A k \in 1..n : k \in 1..N /\ k <= n
    BY <1>1
  <1>b. \A k \in 1..N-n : n + k \in 1..N /\ n + k > n /\ b[k] = s[n + k]
    BY <1>1, <1>3, <1>4
  <1>5. ASSUME NEW x \in Calls(s) PROVE x \in Calls(a) \union Calls(b)
    <2>1. PICK k \in 1..N : Carries(s[k]) /\ x = s[k].trans
      BY DEF Calls, N
    <2>2. CASE k <= n
      <3>1. k \in 1..n
        BY <2>2
      <3> QED
        BY <1>2, <2>1, <3>1 DEF Calls
    <2>3. CASE k > n
      <3>1. k - n \in 1..N-n /\ n + (k - n) = k
        BY <1>1, <2>3
      <3>2. b[k-n] = s[k]
        BY <1>b, <3>1
      <3> QED
        BY <1>3, <2>1, <3>1, <3>2 DEF Calls
    <2> QED
      BY <1>1, <2>2, <2>3
  <1>6. Calls(a) \subseteq Calls(s)
    BY <1>2, <1>a DEF Calls, N
  <1>7. Calls(b) \subseteq Calls(s)
    BY <1>3, <1>b DEF Calls, N
  <1>8. ASSUME Rising(s) PROVE Rising(a)
    BY <1>2, <1>a, <1>8 DEF Rising, N
  <1>9. ASSUME Rising(s) PROVE Rising(b)
    <2> SUFFICES ASSUME NEW i \in 1..N-n, NEW j \in 1..N-n, i < j,
                        Carries(b[i]), Carries(b[j])
                 PROVE  b[i].trans < b[j].trans
      BY <1>3 DEF Rising
    <2>1. n + i < n + j
      BY <1>1
    <2> QED
      BY <1>b, <1>9, <2>1 DEF Rising, N
  <1>10. ASSUME Rising(s) PROVE Below(Calls(a), Calls(b))
    <2> SUFFICES ASSUME NEW x \in Calls(a), NEW y \in Calls(b) PROVE x < y
      BY DEF Below
    <2>1. PICK i \in 1..n : Carries(a[i]) /\ x = a[i].trans
      BY <1>2 DEF Calls
    <2>2. PICK j \in 1..N-n : Carries(b[j]) /\ y = b[j].trans
      BY <1>3 DEF Calls
    <2>3. i < n + j /\ i \in 1..N /\ n + j \in 1..N
      BY <1>1, <1>a, <1>b
    <2> QED
      BY <1>2, <1>b, <1>10, <2>1, <2>2, <2>3 DEF Rising, N
  <1> QED
    BY <1>5, <1>6, <1>7, <1>8, <1>9, <1>10 DEF a, b, N

-----------------------------------------------------------------------------
(* Messages and the unread part of the completion ring.                    *)

ServedType == [phase : {"none", "fetch", "pend", "reply"},
               trans : 0..MaxCalls, args : 0..MaxCalls]

LEMMA CtrlMsgIs ==
  ASSUME NEW m \in CtrlMsg
  PROVE  \/ m = Buf /\ m.kind = "buf" /\ ~Carries(m)
         \/ /\ m # Buf /\ m.kind = "req" /\ Carries(m)
            /\ m.trans \in 1..MaxCalls /\ m.args \in BOOLEAN
  <1>1. CASE m = Buf
    <2>1. m.kind = "buf"
      BY <1>1 DEF Buf
    <2> QED
      BY <1>1, <2>1 DEF Carries
  <1>2. CASE m \in [kind : {"req"}, trans : 1..MaxCalls, args : BOOLEAN]
    <2>1. m.kind = "req" /\ m.trans \in 1..MaxCalls /\ m.args \in BOOLEAN
      BY <1>2
    <2>2. Buf.kind = "buf"
      BY DEF Buf
    <2> QED
      BY <2>1, <2>2 DEF Carries
  <1> QED
    BY <1>1, <1>2 DEF CtrlMsg

LEMMA CplMsgIs ==
  ASSUME NEW m \in CplMsg
  PROVE  \/ m = Note /\ m.kind = "note" /\ ~Carries(m) /\ m \notin Answers
         \/ /\ m.kind = "answer" /\ Carries(m) /\ m \in Answers
            /\ m.trans \in 1..MaxCalls
  <1>1. CASE m = Note
    <2>1. m.kind = "note"
      BY <1>1 DEF Note
    <2> QED
      BY <1>1, <2>1 DEF Carries, Answers
  <1>2. CASE m \in [kind : {"answer"}, trans : 1..MaxCalls]
    <2>1. m.kind = "answer" /\ m.trans \in 1..MaxCalls
      BY <1>2
    <2> QED
      BY <2>1 DEF Carries, Answers
  <1> QED
    BY <1>1, <1>2 DEF CplMsg

LEMMA NewMsgs ==
  /\ Buf \in CtrlMsg /\ Note \in CplMsg
  /\ \A t \in 1..MaxCalls : \A args \in BOOLEAN :
       /\ Req(t, args) \in CtrlMsg
       /\ Req(t, args).kind = "req" /\ Req(t, args).trans = t
  /\ \A t \in 1..MaxCalls :
       /\ Answer(t) \in CplMsg
       /\ Answer(t).kind = "answer" /\ Answer(t).trans = t
  BY DEF CtrlMsg, CplMsg, Buf, Note, Req, Answer

LEMMA RestAppend ==
  ASSUME NEW X, NEW s \in Seq(X), NEW x \in X, NEW n \in 0..Len(s)
  PROVE  /\ Rest(s, n) \in Seq(X)
         /\ Rest(Append(s, x), n) = Append(Rest(s, n), x)
  <1> DEFINE N == Len(s)
             t == Append(s, x)
             a == Rest(s, n)
             b == Rest(t, n)
             c == Append(a, x)
  <1>1. /\ t \in Seq(X) /\ Len(t) = N + 1 /\ N \in Nat /\ n \in Nat /\ n <= N
        /\ t[N+1] = x /\ \A k \in 1..N : t[k] = s[k]
    OBVIOUS
  <1>2. /\ a \in Seq(X) /\ Len(a) = N - n
        /\ \A k \in 1..N-n : a[k] = s[(n + 1) + k - 1]
    <2>1. a \in Seq(X) /\ Len(a) = N - n
      BY <1>1, SubSeqProperties DEF Rest
    <2>2. \A k \in 1..N-n : a[k] = s[(n + 1) + k - 1]
      BY <1>1, SubSeqProperties DEF Rest
    <2> QED
      BY ONLY <2>1, <2>2
  <1> HIDE DEF t, N, a
  <1>3. /\ b \in Seq(X) /\ Len(b) = N + 1 - n
        /\ \A k \in 1..N+1-n : b[k] = t[(n + 1) + k - 1]
    <2>1. b \in Seq(X) /\ Len(b) = N + 1 - n
      BY <1>1, SubSeqProperties DEF Rest
    <2>2. \A k \in 1..N+1-n : b[k] = t[(n + 1) + k - 1]
      BY <1>1, SubSeqProperties DEF Rest
    <2> QED
      BY ONLY <2>1, <2>2
  <1>4. /\ c \in Seq(X) /\ Len(c) = N - n + 1 /\ c[N-n+1] = x
        /\ \A k \in 1..N-n : c[k] = a[k]
    BY <1>1, <1>2
  <1> HIDE DEF b, c
  <1>5. ASSUME NEW k \in 1..N-n+1 PROVE b[k] = c[k]
    <2>1. k \in 1..N+1-n /\ b[k] = t[(n + 1) + k - 1]
      BY <1>1, <1>3
    <2>2. CASE k = N - n + 1
      <3>1. (n + 1) + k - 1 = N + 1
        BY <1>1, <2>2
      <3> QED
        BY <1>1, <1>4, <2>1, <2>2, <3>1
    <2>3. CASE k # N - n + 1
      <3>1. k \in 1..N-n /\ (n + 1) + k - 1 \in 1..N
        BY <1>1, <2>3
      <3> QED
        BY <1>1, <1>2, <1>4, <2>1, <3>1
    <2> QED
      BY <2>2, <2>3
  <1>6. N + 1 - n = N - n + 1
    BY <1>1
  <1>7. b = c
    BY <1>3, <1>4, <1>5, <1>6, SeqEqual
  <1> QED
    BY <1>2, <1>7 DEF a, b, c, t

(* out is cpl with notes behind it.                                        *)
Same(out) ==
  /\ out \in Seq(CplMsg) /\ Len(cpl) <= Len(out) /\ Len(out) <= CplSlots
  /\ Rest(out, seen) \in Seq(CplMsg)
  /\ CountOf(Rest(out, seen), Answers) = CountOf(Coming, Answers)
  /\ Calls(Rest(out, seen)) = Calls(Coming)
  /\ Rising(Rest(out, seen))

LEMMA SameCpl ==
  ASSUME TypeInv, Rising(Coming)
  PROVE  Same(cpl)
  <1>1. cpl \in Seq(CplMsg) /\ Len(cpl) \in Nat /\ Len(cpl) <= CplSlots /\ seen \in 0..Len(cpl)
    BY DEF TypeInv
  <1>2. Note \in CplMsg
    BY NewMsgs
  <1>3. Rest(cpl, seen) \in Seq(CplMsg)
    BY ONLY <1>1, <1>2, RestAppend
  <1> QED
    BY <1>1, <1>3 DEF Same, Coming

LEMMA NoteSame ==
  ASSUME TypeInv, NEW out, Same(out), Len(out) < CplSlots, CplSlots \in Nat
  PROVE  Same(Append(out, Note))
  <1> DEFINE r == Rest(out, seen)
  <1>1. /\ out \in Seq(CplMsg) /\ Len(out) \in Nat /\ Len(cpl) <= Len(out)
        /\ Len(cpl) \in Nat
        /\ r \in Seq(CplMsg) /\ seen \in 0..Len(out)
    <2>1. out \in Seq(CplMsg) /\ Len(cpl) <= Len(out) /\ r \in Seq(CplMsg)
      BY DEF Same
    <2>2. cpl \in Seq(CplMsg) /\ landed \in 0..Len(cpl) /\ seen \in 0..landed
      BY DEF TypeInv
    <2>3. Len(out) \in Nat /\ Len(cpl) \in Nat
      BY ONLY <2>1, <2>2
    <2> QED
      BY ONLY <2>1, <2>2, <2>3
  <1>2. Note \in CplMsg /\ ~Carries(Note) /\ Note \notin Answers
    BY NewMsgs, CplMsgIs DEF Note
  <1>3. Rest(Append(out, Note), seen) = Append(r, Note)
    BY ONLY <1>1, <1>2, RestAppend
  <1>4. CountOf(Append(r, Note), Answers) = CountOf(r, Answers)
    <2>1. CountOf(Append(r, Note), Answers)
            = CountOf(r, Answers) + IF Note \in Answers THEN 1 ELSE 0
      BY ONLY <1>1, <1>2, CountAppend
    <2>2. CountOf(r, Answers) \in Nat
      BY ONLY <1>1, CountNat
    <2> QED
      BY ONLY <1>2, <2>1, <2>2
  <1>5. Calls(Append(r, Note)) = Calls(r) /\ (Rising(r) => Rising(Append(r, Note)))
    BY ONLY <1>1, <1>2, CallsAppend
  <1>6. /\ Append(out, Note) \in Seq(CplMsg)
        /\ Len(Append(out, Note)) = Len(out) + 1
        /\ Append(r, Note) \in Seq(CplMsg)
    BY <1>1, <1>2
  <1>7. /\ CountOf(r, Answers) = CountOf(Coming, Answers)
        /\ Calls(r) = Calls(Coming) /\ Rising(r)
    BY DEF Same
  <1>8. Len(cpl) <= Len(out) + 1 /\ Len(out) + 1 <= CplSlots
    BY <1>1
  <1> HIDE DEF r
  <1> QED
    BY ONLY <1>3, <1>4, <1>5, <1>6, <1>7, <1>8 DEF Same

-----------------------------------------------------------------------------
(* A block of control messages.                                            *)

HState == [srv : ServedType, bufs : 0..PoolMax, out : Seq(CplMsg)]

(* What handling the messages b can have done: the pool grew by buffers of *)
(* b, notes were sent, and a request of b is served if none was before.    *)
Handled(b, s) ==
  /\ s \in HState
  /\ pool <= s.bufs /\ s.bufs <= pool + BufsOf(b)
  /\ Same(s.out)
  /\ \/ s.srv = served
     \/ /\ served.phase = "none" /\ s.bufs > 0
        /\ \E i \in 1..Len(b) : b[i].kind = "req" /\ s.srv = Begin(b[i])

LEMMA BeginType ==
  ASSUME NEW m \in CtrlMsg, m.kind = "req"
  PROVE  /\ Begin(m) \in ServedType
         /\ Begin(m).phase \in {"fetch", "pend"}
         /\ Begin(m).trans = m.trans /\ m.trans \in 1..MaxCalls
         /\ Begin(m).phase = "pend" => Begin(m).args = m.trans
  <1>1. m.trans \in 1..MaxCalls /\ m.args \in BOOLEAN /\ MaxCalls \in Nat
    <2>1. m # Buf
      BY DEF Buf
    <2> QED
      BY <2>1, CtrlMsgIs, IoctlAssumption
  <1>2. CASE m.args
    <2>1. Begin(m) = [phase |-> "fetch", trans |-> m.trans, args |-> 0]
      BY <1>2 DEF Begin
    <2> QED
      BY <1>1, <2>1 DEF ServedType
  <1>3. CASE ~m.args
    <2>1. Begin(m) = [phase |-> "pend", trans |-> m.trans, args |-> m.trans]
      BY <1>3 DEF Begin
    <2> QED
      BY <1>1, <2>1 DEF ServedType
  <1> QED
    BY <1>2, <1>3

LEMMA TellSame ==
  ASSUME TypeInv, NEW out, Same(out)
  PROVE  Same(Tell(out))
  <1>1. CplSlots \in Nat
    BY IoctlAssumption
  <1>2. CASE Len(out) < CplSlots
    BY <1>1, <1>2, NoteSame DEF Tell
  <1>3. CASE ~(Len(out) < CplSlots)
    BY <1>3 DEF Tell
  <1> QED
    BY <1>2, <1>3

LEMMA HandleMsgStep ==
  ASSUME TypeInv, NEW b \in Seq(CtrlMsg), NEW m \in CtrlMsg,
         NEW s, Handled(b, s)
  PROVE  Handled(Append(b, m), HandleMsg(m, s))
  <1> DEFINE c == Append(b, m)
             r == HandleMsg(m, s)
  <1>1. /\ c \in Seq(CtrlMsg) /\ Len(c) = Len(b) + 1 /\ Len(b) \in Nat
        /\ c[Len(b)+1] = m /\ \A i \in 1..Len(b) : c[i] = b[i]
    OBVIOUS
  <1>2. BufsOf(b) \in Nat
    BY CountNat DEF BufsOf
  <1>3. BufsOf(c) = BufsOf(b) + IF m \in {Buf} THEN 1 ELSE 0
    BY ONLY b \in Seq(CtrlMsg), m \in CtrlMsg, CountAppend DEF BufsOf
  <1>4. /\ s \in HState /\ pool <= s.bufs /\ s.bufs <= pool + BufsOf(b)
        /\ Same(s.out) /\ pool \in Nat /\ PoolMax \in Nat
    BY IoctlAssumption DEF Handled, TypeInv
  <1>5. s.srv \in ServedType /\ s.bufs \in 0..PoolMax /\ s.out \in Seq(CplMsg)
    BY <1>4 DEF HState
  <1>6. \/ s.srv = served
        \/ /\ served.phase = "none" /\ s.bufs > 0
           /\ \E i \in 1..Len(b) : b[i].kind = "req" /\ s.srv = Begin(b[i])
    BY DEF Handled
  <1>7. \/ s.srv = served
        \/ /\ served.phase = "none" /\ s.bufs > 0
           /\ \E i \in 1..Len(c) : c[i].kind = "req" /\ s.srv = Begin(c[i])
    BY <1>1, <1>6
  <1>8. BufsOf(b) <= BufsOf(c)
    BY <1>2, <1>3
  <1>a. s.bufs <= pool + BufsOf(c)
    BY <1>2, <1>3, <1>4, <1>5
  <1> HIDE DEF c
  <1>9. CASE m.kind = "buf" /\ PoolFull(s.bufs)
    <2>1. r = [s EXCEPT !.out = Tell(@)]
      BY <1>9 DEF HandleMsg
    <2>2. Same(Tell(s.out)) /\ Tell(s.out) \in Seq(CplMsg)
      BY <1>4, TellSame DEF Same
    <2> HIDE DEF r
    <2>3. r \in HState /\ r.srv = s.srv /\ r.bufs = s.bufs /\ r.out = Tell(s.out)
      BY <1>4, <1>5, <2>1, <2>2 DEF HState
    <2> QED
      BY <1>4, <1>7, <1>a, <2>2, <2>3 DEF Handled, r, c
  <1>10. CASE m.kind = "buf" /\ ~PoolFull(s.bufs)
    <2>1. r = [s EXCEPT !.bufs = @ + 1]
      BY <1>10 DEF HandleMsg
    <2>2. s.bufs + 1 \in 0..PoolMax
      BY <1>4, <1>5, <1>10 DEF PoolFull
    <2> HIDE DEF r
    <2>3. r \in HState /\ r.srv = s.srv /\ r.bufs = s.bufs + 1 /\ r.out = s.out
      BY <1>4, <1>5, <2>1, <2>2 DEF HState
    <2>4. m = Buf
      BY <1>10, CtrlMsgIs
    <2>5. pool <= s.bufs + 1 /\ s.bufs + 1 <= pool + BufsOf(c)
      BY <1>2, <1>3, <1>4, <1>5, <2>4
    <2>6. s.bufs > 0 => s.bufs + 1 > 0
      BY <1>5
    <2> QED
      BY <1>4, <1>7, <2>3, <2>5, <2>6 DEF Handled, r, c
  <1>11. CASE m.kind = "req" /\ Accepts(s.srv, s.bufs)
    <2>1. r = [s EXCEPT !.srv = Begin(m)]
      BY <1>11 DEF HandleMsg
    <2>2. Begin(m) \in ServedType
      BY <1>11, BeginType
    <2> HIDE DEF r
    <2>3. r \in HState /\ r.srv = Begin(m) /\ r.bufs = s.bufs /\ r.out = s.out
      BY <1>4, <1>5, <2>1, <2>2 DEF HState
    <2>4. s.srv.phase = "none" /\ s.bufs > 0
      BY <1>11 DEF Accepts
    <2>5. served.phase = "none"
      BY <1>6, <2>4
    <2>6. \E i \in 1..Len(c) : c[i].kind = "req" /\ r.srv = Begin(c[i])
      BY <1>1, <1>11, <2>3
    <2> QED
      BY <1>4, <1>a, <2>3, <2>4, <2>5, <2>6 DEF Handled, r, c
  <1>12. CASE m.kind = "req" /\ ~Accepts(s.srv, s.bufs) /\ s.srv.phase = "none"
    <2>1. r = [s EXCEPT !.out = Tell(@)]
      BY <1>12 DEF HandleMsg
    <2>2. Same(Tell(s.out)) /\ Tell(s.out) \in Seq(CplMsg)
      BY <1>4, TellSame DEF Same
    <2> HIDE DEF r
    <2>3. r \in HState /\ r.srv = s.srv /\ r.bufs = s.bufs /\ r.out = Tell(s.out)
      BY <1>4, <1>5, <2>1, <2>2 DEF HState
    <2> QED
      BY <1>4, <1>7, <1>a, <2>2, <2>3 DEF Handled, r, c
  <1>13. CASE m.kind = "req" /\ ~Accepts(s.srv, s.bufs) /\ s.srv.phase # "none"
    <2>1. r = s
      BY <1>13 DEF HandleMsg
    <2> HIDE DEF r
    <2> QED
      BY <1>4, <1>7, <1>a, <2>1 DEF Handled, r, c
  <1> QED
    BY <1>9, <1>10, <1>11, <1>12, <1>13, CtrlMsgIs

LEMMA HandleBlockIs ==
  ASSUME TypeInv, Rising(Coming), NEW block \in Seq(CtrlMsg)
  PROVE  Handled(block, HandleBlock(block))
  <1> DEFINE N == Len(block)
             s0 == [srv |-> served, bufs |-> pool, out |-> cpl]
             G(n, f) == f = [k \in 0..n |-> IF k = 0 THEN s0
                                            ELSE HandleMsg(block[k], f[k-1])]
  <1>1. N \in Nat /\ \A k \in 1..N : block[k] \in CtrlMsg
    OBVIOUS
  <1>2. ASSUME NEW b \in Seq(CtrlMsg) PROVE Handled(b, s0)
    <2>1. s0 \in HState /\ s0.srv = served /\ s0.bufs = pool /\ s0.out = cpl
      BY DEF TypeInv, HState, ServedType
    <2>2. BufsOf(b) \in Nat
      BY CountNat DEF BufsOf
    <2>3. pool \in Nat
      BY IoctlAssumption DEF TypeInv
    <2> HIDE DEF s0
    <2>4. Same(s0.out)
      BY <2>1, SameCpl
    <2> QED
      BY <2>1, <2>2, <2>3, <2>4 DEF Handled
  <1> HIDE DEF s0
  <1>3. ASSUME NEW f, G(N, f) PROVE Handled(block, f[N])
    <2> DEFINE T == {k \in 0..N : Handled(SubSeq(block, 1, k), f[k])}
    <2>1. /\ f[0] = s0
          /\ \A k \in 1..N : f[k] = HandleMsg(block[k], f[k-1])
      BY <1>1, <1>3
    <2>2. 0 \in T
      <3>1. SubSeq(block, 1, 0) \in Seq(CtrlMsg)
        BY <1>1
      <3>2. Handled(SubSeq(block, 1, 0), f[0])
        BY ONLY <1>2, <2>1, <3>1
      <3> QED
        BY <1>1, <3>2
    <2>3. ASSUME NEW k \in 0..N, k \in T, k < N PROVE k + 1 \in T
      <3>1. k + 1 \in 1..N /\ (k + 1) - 1 = k
        BY <1>1, <2>3
      <3>2. f[k+1] = HandleMsg(block[k+1], f[k])
        BY <2>1, <3>1
      <3>3. Handled(SubSeq(block, 1, k), f[k])
        BY <2>3
      <3>4. SubSeq(block, 1, k) \in Seq(CtrlMsg)
        BY <1>1
      <3>5. SubSeq(block, 1, k + 1) = Append(SubSeq(block, 1, k), block[k+1])
        <4> DEFINE u == SubSeq(block, 1, k + 1)
                   a == SubSeq(block, 1, k)
                   v == Append(a, block[k+1])
        <4>1. u \in Seq(CtrlMsg) /\ Len(u) = k + 1 /\ \A i \in 1..k+1 : u[i] = block[i]
          BY <1>1, <3>1
        <4>2. a \in Seq(CtrlMsg) /\ Len(a) = k /\ \A i \in 1..k : a[i] = block[i]
          BY <1>1, <3>1
        <4>3. block[k+1] \in CtrlMsg
          BY <1>1, <3>1
        <4> HIDE DEF a, u
        <4>4. /\ v \in Seq(CtrlMsg) /\ Len(v) = k + 1 /\ v[k+1] = block[k+1]
              /\ \A i \in 1..k : v[i] = a[i]
          BY <4>2, <4>3
        <4> HIDE DEF v
        <4>5. ASSUME NEW i \in 1..k+1 PROVE u[i] = v[i]
          <5>1. CASE i = k + 1
            BY <4>1, <4>4, <5>1
          <5>2. CASE i # k + 1
            <6>1. i \in 1..k
              BY <3>1, <5>2
            <6> QED
              BY <4>1, <4>2, <4>4, <6>1
          <5> QED
            BY <5>1, <5>2
        <4>6. u = v
          BY <4>1, <4>4, <4>5, SeqEqual
        <4> QED
          BY <4>6 DEF u, v, a
      <3>6. Handled(Append(SubSeq(block, 1, k), block[k+1]), HandleMsg(block[k+1], f[k]))
        BY ONLY TypeInv, <1>1, <3>1, <3>3, <3>4, HandleMsgStep
      <3>7. Handled(SubSeq(block, 1, k + 1), f[k+1])
        BY ONLY <3>2, <3>5, <3>6
      <3> QED
        BY <3>1, <3>7
    <2>4. \A k \in 0..N : k \in T /\ k < N => k + 1 \in T
      BY <2>3
    <2> HIDE DEF T
    <2>5. N \in T
      BY <1>1, <2>2, <2>4, SetInduction
    <2>6. Handled(SubSeq(block, 1, N), f[N])
      BY <2>5 DEF T
    <2>7. SubSeq(block, 1, N) = block
      BY <1>1
    <2> QED
      BY ONLY <2>6, <2>7
  <1>4. \E f : G(N, f)
    <2> DEFINE T == {n \in 0..N : \E f : G(n, f)}
    <2>1. 0 \in T
      <3> DEFINE z == [k \in 0..0 |-> s0]
      <3>1. G(0, z)
        OBVIOUS
      <3> HIDE DEF z, G
      <3>2. \E f : G(0, f)
        BY <3>1
      <3> QED
        BY <1>1, <3>2
    <2>2. ASSUME NEW n \in 0..N, n \in T, n < N PROVE n + 1 \in T
      <3>1. PICK f : G(n, f)
        BY <2>2
      <3> DEFINE g == [k \in 0..n+1 |-> IF k = n + 1 THEN HandleMsg(block[n+1], f[n])
                                                     ELSE f[k]]
      <3>2. ASSUME NEW k \in 0..n+1
            PROVE  g[k] = IF k = 0 THEN s0 ELSE HandleMsg(block[k], g[k-1])
        <4>1. CASE k = 0
          BY <1>1, <3>1, <4>1
        <4>2. CASE k # 0
          <5>1. k - 1 \in 0..n /\ g[k-1] = f[k-1]
            BY <4>2
          <5>2. CASE k = n + 1
            BY <4>2, <5>1, <5>2
          <5>3. CASE k # n + 1
            BY <3>1, <4>2, <5>1, <5>3
          <5> QED
            BY <5>2, <5>3
        <4> QED
          BY <4>1, <4>2
      <3>3. g = [k \in 0..n+1 |-> g[k]]
        OBVIOUS
      <3> HIDE DEF g
      <3>4. G(n + 1, g)
        BY <3>2, <3>3
      <3> QED
        BY <1>1, <2>2, <3>4
    <2>3. \A k \in 0..N : k \in T /\ k < N => k + 1 \in T
      BY <2>2
    <2> HIDE DEF T
    <2>4. N \in T
      BY <1>1, <2>1, <2>3, SetInduction
    <2> QED
      BY <2>4 DEF T
  <1> DEFINE after == CHOOSE f : G(N, f)
  <1>5. HandleBlock(block) = IF ioctl_lock /\ block[1].kind = "req" THEN s0
                             ELSE after[N]
    BY DEF HandleBlock, s0
  <1> HIDE DEF G
  <1>6. G(N, after)
    BY <1>4
  <1> HIDE DEF after
  <1>7. Handled(block, after[N])
    BY <1>3, <1>6
  <1> QED
    BY <1>2, <1>5, <1>7

-----------------------------------------------------------------------------
(* Sequences of blocks.                                                    *)

LEMMA BlocksAppend ==
  ASSUME NEW X, NEW d \in Seq(X), NEW b \in X
  PROVE  /\ CallsIn(Append(d, b)) = CallsIn(d) \union Calls(b)
         /\ RisingIn(d) /\ Rising(b) /\ Below(CallsIn(d), Calls(b))
              => RisingIn(Append(d, b))
  <1> DEFINE t == Append(d, b)
  <1>1. /\ Len(t) = Len(d) + 1 /\ Len(d) \in Nat
        /\ t[Len(d)+1] = b /\ \A k \in 1..Len(d) : t[k] = d[k]
    OBVIOUS
  <1> HIDE DEF t
  <1>2. \A k \in 1..Len(t) : k \in 1..Len(d) \/ k = Len(d) + 1
    BY <1>1
  <1>3. CallsIn(t) = CallsIn(d) \union Calls(b)
    <2>1. ASSUME NEW x \in CallsIn(t) PROVE x \in CallsIn(d) \union Calls(b)
      <3>1. PICK k \in 1..Len(t) : x \in Calls(t[k])
        BY DEF CallsIn
      <3> QED
        BY <1>1, <1>2, <3>1 DEF CallsIn
    <2>2. ASSUME NEW x \in CallsIn(d) PROVE x \in CallsIn(t)
      <3>1. PICK k \in 1..Len(d) : x \in Calls(d[k])
        BY DEF CallsIn
      <3>2. k \in 1..Len(t) /\ t[k] = d[k]
        BY <1>1
      <3> QED
        BY <3>1, <3>2 DEF CallsIn
    <2>3. Calls(b) \subseteq CallsIn(t)
      <3>1. Len(d) + 1 \in 1..Len(t)
        BY <1>1
      <3> QED
        BY <1>1, <3>1 DEF CallsIn
    <2> QED
      BY <2>1, <2>2, <2>3
  <1>4. ASSUME RisingIn(d), Rising(b), Below(CallsIn(d), Calls(b))
        PROVE  RisingIn(t)
    <2>1. \A k \in 1..Len(t) : Rising(t[k])
      BY <1>1, <1>2, <1>4 DEF RisingIn
    <2>2. ASSUME NEW k \in 1..Len(t), NEW l \in 1..Len(t), k < l
          PROVE  Below(Calls(t[k]), Calls(t[l]))
      <3>1. k \in 1..Len(d)
        BY <1>1, <2>2
      <3>2. CASE l \in 1..Len(d)
        BY <1>1, <1>4, <2>2, <3>1, <3>2 DEF RisingIn
      <3>3. CASE l = Len(d) + 1
        <4>1. Calls(d[k]) \subseteq CallsIn(d)
          BY <3>1 DEF CallsIn
        <4> QED
          BY <1>1, <1>4, <3>1, <3>3, <4>1 DEF Below
      <3> QED
        BY <1>2, <3>2, <3>3
    <2> QED
      BY <2>1, <2>2 DEF RisingIn
  <1> QED
    BY <1>3, <1>4 DEF t

LEMMA BlocksTail ==
  ASSUME NEW X, NEW d \in Seq(X), d # <<>>
  PROVE  /\ CallsIn(d) = Calls(d[1]) \union CallsIn(Tail(d))
         /\ RisingIn(d) => /\ RisingIn(Tail(d)) /\ Rising(d[1])
                           /\ Below(Calls(d[1]), CallsIn(Tail(d)))
  <1> DEFINE t == Tail(d)
  <1>1. /\ Len(t) = Len(d) - 1 /\ Len(d) \in Nat /\ Len(d) >= 1
        /\ \A k \in 1..Len(d)-1 : t[k] = d[k+1]
    BY EmptySeq
  <1> HIDE DEF t
  <1>2. ASSUME NEW k \in 1..Len(d), k # 1
        PROVE  k - 1 \in 1..Len(t) /\ d[k] = t[k-1]
    <2>1. k - 1 \in 1..Len(d)-1 /\ (k - 1) + 1 = k
      BY <1>1, <1>2
    <2> QED
      BY <1>1, <2>1
  <1>3. \A k \in 1..Len(t) : k + 1 \in 1..Len(d) /\ d[k+1] = t[k] /\ 1 < k + 1
    BY <1>1
  <1>4. 1 \in 1..Len(d)
    BY <1>1
  <1>5. CallsIn(d) = Calls(d[1]) \union CallsIn(t)
    <2>1. ASSUME NEW x \in CallsIn(d) PROVE x \in Calls(d[1]) \union CallsIn(t)
      <3>1. PICK k \in 1..Len(d) : x \in Calls(d[k])
        BY DEF CallsIn
      <3>2. CASE k = 1
        BY <3>1, <3>2
      <3>3. CASE k # 1
        <4>1. k - 1 \in 1..Len(t) /\ x \in Calls(t[k-1])
          BY <1>2, <3>1, <3>3
        <4> QED
          BY <4>1 DEF CallsIn
      <3> QED
        BY <3>2, <3>3
    <2>2. ASSUME NEW x \in CallsIn(t) PROVE x \in CallsIn(d)
      <3>1. PICK k \in 1..Len(t) : x \in Calls(t[k])
        BY DEF CallsIn
      <3>2. k + 1 \in 1..Len(d) /\ x \in Calls(d[k+1])
        BY <1>3, <3>1
      <3> QED
        BY <3>2 DEF CallsIn
    <2>3. Calls(d[1]) \subseteq CallsIn(d)
      BY <1>4 DEF CallsIn
    <2> QED
      BY <2>1, <2>2, <2>3
  <1>6. ASSUME RisingIn(d)
        PROVE  RisingIn(t) /\ Rising(d[1]) /\ Below(Calls(d[1]), CallsIn(t))
    <2>1. \A k \in 1..Len(t) : Rising(t[k])
      BY <1>3, <1>6 DEF RisingIn
    <2>2. ASSUME NEW k \in 1..Len(t), NEW l \in 1..Len(t), k < l
          PROVE  Below(Calls(t[k]), Calls(t[l]))
      <3>1. k + 1 < l + 1 /\ k + 1 \in 1..Len(d) /\ l + 1 \in 1..Len(d)
        BY <1>3, <2>2
      <3>2. Below(Calls(d[k+1]), Calls(d[l+1]))
        BY <1>6, <3>1 DEF RisingIn
      <3> QED
        BY <1>3, <3>2
    <2>3. Rising(d[1])
      BY <1>4, <1>6 DEF RisingIn
    <2>4. ASSUME NEW x \in Calls(d[1]), NEW y \in CallsIn(t) PROVE x < y
      <3>1. PICK k \in 1..Len(t) : y \in Calls(t[k])
        BY DEF CallsIn
      <3>2. Below(Calls(d[1]), Calls(d[k+1]))
        BY <1>3, <1>4, <1>6 DEF RisingIn
      <3>3. d[k+1] = t[k]
        BY <1>3
      <3> QED
        BY <3>1, <3>2, <3>3 DEF Below
    <2> QED
      BY <2>1, <2>2, <2>3, <2>4 DEF RisingIn, Below
  <1> QED
    BY <1>5, <1>6 DEF t

(* The slots and the buffers of the blocks, one more or one fewer.         *)
SlotsIn(d) == SumOf([k \in 1..Len(d) |-> Len(d[k])])

LEMMA BlocksAre ==
  ASSUME NEW d \in Seq(Seq(CtrlMsg))
  PROVE  /\ SlotsIn(d) = SumOf(Each(d, [b \in Seq(CtrlMsg) |-> Len(b)]))
         /\ BufsIn(d) = SumOf(Each(d, [b \in Seq(CtrlMsg) |-> BufsOf(b)]))
         /\ [b \in Seq(CtrlMsg) |-> Len(b)] \in [Seq(CtrlMsg) -> Nat]
         /\ [b \in Seq(CtrlMsg) |-> BufsOf(b)] \in [Seq(CtrlMsg) -> Nat]
  <1> DEFINE f == [b \in Seq(CtrlMsg) |-> Len(b)]
             g == [b \in Seq(CtrlMsg) |-> BufsOf(b)]
  <1>1. \A k \in 1..Len(d) : d[k] \in Seq(CtrlMsg)
    OBVIOUS
  <1>2. Each(d, f) = [k \in 1..Len(d) |-> Len(d[k])]
    BY <1>1 DEF Each
  <1>3. Each(d, g) = [k \in 1..Len(d) |-> BufsOf(d[k])]
    BY <1>1 DEF Each
  <1>4. f \in [Seq(CtrlMsg) -> Nat]
    <2>1. \A b \in Seq(CtrlMsg) : Len(b) \in Nat
      OBVIOUS
    <2> QED
      BY <2>1
  <1>5. g \in [Seq(CtrlMsg) -> Nat]
    <2>1. \A b \in Seq(CtrlMsg) : BufsOf(b) \in Nat
      BY CountNat DEF BufsOf
    <2> QED
      BY <2>1
  <1> HIDE DEF f, g
  <1> QED
    BY <1>2, <1>3, <1>4, <1>5 DEF SlotsIn, BufsIn, f, g

LEMMA SumsNat ==
  ASSUME NEW d \in Seq(Seq(CtrlMsg))
  PROVE  SlotsIn(d) \in Nat /\ BufsIn(d) \in Nat
  <1> DEFINE f == [x \in Seq(CtrlMsg) |-> Len(x)]
             g == [x \in Seq(CtrlMsg) |-> BufsOf(x)]
  <1>1. f \in [Seq(CtrlMsg) -> Nat] /\ g \in [Seq(CtrlMsg) -> Nat]
    BY BlocksAre
  <1>2. SlotsIn(d) = SumOf(Each(d, f)) /\ BufsIn(d) = SumOf(Each(d, g))
    BY BlocksAre
  <1> HIDE DEF f, g
  <1> QED
    BY ONLY <1>1, <1>2, d \in Seq(Seq(CtrlMsg)), EachNat

LEMMA SumsAppend ==
  ASSUME NEW d \in Seq(Seq(CtrlMsg)), NEW b \in Seq(CtrlMsg)
  PROVE  /\ SlotsIn(Append(d, b)) = SlotsIn(d) + Len(b)
         /\ BufsIn(Append(d, b)) = BufsIn(d) + BufsOf(b)
         /\ SlotsIn(d) \in Nat /\ BufsIn(d) \in Nat
  <1> DEFINE f == [x \in Seq(CtrlMsg) |-> Len(x)]
             g == [x \in Seq(CtrlMsg) |-> BufsOf(x)]
             t == Append(d, b)
  <1>1. t \in Seq(Seq(CtrlMsg)) /\ f[b] = Len(b) /\ g[b] = BufsOf(b)
    OBVIOUS
  <1>2. f \in [Seq(CtrlMsg) -> Nat] /\ g \in [Seq(CtrlMsg) -> Nat]
    BY BlocksAre
  <1>3. /\ SlotsIn(d) = SumOf(Each(d, f)) /\ BufsIn(d) = SumOf(Each(d, g))
        /\ SlotsIn(t) = SumOf(Each(t, f)) /\ BufsIn(t) = SumOf(Each(t, g))
    BY <1>1, BlocksAre
  <1> HIDE DEF f, g
  <1>4. /\ SumOf(Each(t, f)) = SumOf(Each(d, f)) + f[b]
        /\ SumOf(Each(t, g)) = SumOf(Each(d, g)) + g[b]
        /\ SumOf(Each(d, f)) \in Nat /\ SumOf(Each(d, g)) \in Nat
    BY ONLY <1>2, d \in Seq(Seq(CtrlMsg)), b \in Seq(CtrlMsg), EachAppend, EachNat
  <1> QED
    BY <1>1, <1>3, <1>4 DEF t

LEMMA SumsTail ==
  ASSUME NEW d \in Seq(Seq(CtrlMsg)), d # <<>>
  PROVE  /\ SlotsIn(d) = Len(d[1]) + SlotsIn(Tail(d))
         /\ BufsIn(d) = BufsOf(d[1]) + BufsIn(Tail(d))
         /\ SlotsIn(Tail(d)) \in Nat /\ BufsIn(Tail(d)) \in Nat
         /\ d[1] \in Seq(CtrlMsg) /\ Tail(d) \in Seq(Seq(CtrlMsg))
  <1> DEFINE f == [x \in Seq(CtrlMsg) |-> Len(x)]
             g == [x \in Seq(CtrlMsg) |-> BufsOf(x)]
             t == Tail(d)
  <1>0. d[1] \in Seq(CtrlMsg) /\ t \in Seq(Seq(CtrlMsg))
    BY EmptySeq
  <1>1. f[d[1]] = Len(d[1]) /\ g[d[1]] = BufsOf(d[1])
    BY <1>0
  <1>2. f \in [Seq(CtrlMsg) -> Nat] /\ g \in [Seq(CtrlMsg) -> Nat]
    BY BlocksAre
  <1>3. /\ SlotsIn(d) = SumOf(Each(d, f)) /\ BufsIn(d) = SumOf(Each(d, g))
        /\ SlotsIn(t) = SumOf(Each(t, f)) /\ BufsIn(t) = SumOf(Each(t, g))
    BY <1>0, BlocksAre
  <1> HIDE DEF f, g
  <1>4. /\ SumOf(Each(d, f)) = f[d[1]] + SumOf(Each(t, f))
        /\ SumOf(Each(d, g)) = g[d[1]] + SumOf(Each(t, g))
        /\ SumOf(Each(t, f)) \in Nat /\ SumOf(Each(t, g)) \in Nat
    BY ONLY <1>0, <1>2, d \in Seq(Seq(CtrlMsg)), d # <<>>, EachTail, EachNat
  <1> QED
    BY <1>0, <1>1, <1>3, <1>4 DEF t

LEMMA NoBlocks ==
  /\ SlotsIn(<<>>) = 0 /\ BufsIn(<<>>) = 0 /\ CallsIn(<<>>) = {} /\ RisingIn(<<>>)
  <1> PICK d \in Seq(Seq(CtrlMsg)) : d = <<>> /\ Len(d) = 0
    BY NoElement
  <1> DEFINE f == [x \in Seq(CtrlMsg) |-> Len(x)]
             g == [x \in Seq(CtrlMsg) |-> BufsOf(x)]
  <1>1. f \in [Seq(CtrlMsg) -> Nat] /\ g \in [Seq(CtrlMsg) -> Nat]
    BY BlocksAre
  <1>2. SlotsIn(d) = SumOf(Each(d, f)) /\ BufsIn(d) = SumOf(Each(d, g))
    BY BlocksAre
  <1> HIDE DEF f, g
  <1>3. SumOf(Each(<<>>, f)) = 0 /\ SumOf(Each(<<>>, g)) = 0
    BY ONLY <1>1, EachEmpty
  <1>4. CallsIn(d) = {} /\ RisingIn(d)
    BY DEF CallsIn, RisingIn
  <1> QED
    BY ONLY <1>2, <1>3, <1>4, d = <<>>

-----------------------------------------------------------------------------
(* What a call's move from one stage to the next does to the order.        *)

LEMMA StagesServe ==
  ASSUME NEW A, NEW B, NEW C, NEW D, NEW E, NEW F, NEW t,
         Stages(A, B, C, D, E, F, t), NEW x, D = {x}
  PROVE  Stages(A, B, C \union {x}, {}, E, F, t) /\ Below(C, {x})
  BY DEF Stages, Below

LEMMA StagesFewer ==
  ASSUME NEW A, NEW B, NEW C, NEW D, NEW E, NEW F, NEW t,
         Stages(A, B, C, D, E, F, t),
         NEW B2 \in SUBSET B, NEW C2 \in SUBSET C, NEW D2 \in SUBSET D,
         NEW E2 \in SUBSET E
  PROVE  Stages(A, B2, C2, D2, E2, F, t)
  BY DEF Stages, Below

LEMMA StagesTake ==
  ASSUME NEW A, NEW B, NEW C, NEW D, NEW E, NEW F, NEW t, NEW H, NEW E2,
         Stages(A, B, C, D, E, F, t), E = H \union E2, Below(H, E2),
         NEW D2 \in SUBSET H
  PROVE  Stages(A, B, C, D2, E2, F, t)
  BY DEF Stages, Below

LEMMA StagesFetch ==
  ASSUME NEW A, NEW B, NEW C, NEW D, NEW E, NEW F, NEW t, NEW H, NEW F2,
         Stages(A, B, C, D, E, F, t), F = H \union F2, Below(H, F2)
  PROVE  Stages(A, B, C, D, E \union H, F2, t) /\ Below(E, H)
  BY DEF Stages, Below

LEMMA StagesAsk ==
  ASSUME NEW A, NEW B, NEW C, NEW D, NEW E, NEW F, NEW t \in Nat,
         Stages(A, B, C, D, E, F, t), NEW F2 \in SUBSET (F \union {t + 1})
  PROVE  Stages(A, B, C, D, E, F2, t + 1) /\ Below(F, {t + 1})
  <1>1. \A x \in A \union B \union C \union D \union E \union F :
          x \in 0..t /\ x < t + 1 /\ x \in 0..t+1
    BY DEF Stages
  <1>2. t + 1 \in 0..t+1
    OBVIOUS
  <1> QED
    BY <1>1, <1>2 DEF Stages, Below

LEMMA StagesGet ==
  ASSUME NEW A, NEW B, NEW C, NEW D, NEW E, NEW F, NEW t, NEW x, NEW C2,
         Stages(A, B, C, D, E, F, t), C = C2 \union {x}, Below({x}, C2)
  PROVE  Stages(A, {x}, C2, D, E, F, t)
  BY DEF Stages, Below

LEMMA StagesReturn ==
  ASSUME NEW A, NEW B, NEW C, NEW D, NEW E, NEW F, NEW t,
         Stages(A, B, C, D, E, F, t)
  PROVE  /\ Stages(A \union B, {}, C, D, E, F, t)
         /\ Stages(A, {}, C, D, E, F, t)
  BY DEF Stages, Below

-----------------------------------------------------------------------------
(* The dongle's handlers: what they change first, then Retry.              *)

(* The invariant, with srv, bufs, out and d where the handler has them     *)
(* when it comes to Retry.                                                 *)
Between(srv, bufs, out, d) ==
  /\ srv \in ServedType /\ (srv.phase \in {"fetch", "pend"} => srv.trans # 0)
  /\ bufs \in 0..PoolMax /\ (srv.phase \in {"fetch", "pend"} => bufs > 0)
  /\ Same(out)
  /\ d \in Seq(Seq(CtrlMsg)) /\ Len(h2d) + SlotsIn(d) <= CtrlSlots
  /\ BufsOf(h2d) + BufsIn(d) + bufs + CountOf(Coming, Answers) + BufGot <= held
  /\ Stages(DoneSet, GotSet, Calls(Coming), ServedSet(srv), CallsIn(d),
            Calls(h2d), trans_id)
  /\ RisingIn(d)
  /\ Fine => OwnCalls(Ahead, Behind(srv, d), srv)

LEMMA BetweenAt ==
  ASSUME IInv
  PROVE  Between(served, pool, cpl, dmaq)
  <1>1. Same(cpl)
    BY SameCpl DEF IInv, OrderInv
  <1>2. Len(h2d) + SlotsIn(dmaq) <= CtrlSlots
    <2>1. CtrlSlots - Len(h2d) - SlotsIn(dmaq) >= 0
      BY DEF IInv, TypeInv, CtrlSpace, SlotsIn
    <2>2. dmaq \in Seq(Seq(CtrlMsg)) /\ Len(h2d) \in Nat /\ CtrlSlots \in Nat
      BY IoctlAssumption DEF IInv, TypeInv
    <2>3. SlotsIn(dmaq) \in Nat
      BY <2>2, BlocksAre, EachNat
    <2> QED
      BY <2>1, <2>2, <2>3
  <1>3. /\ served \in ServedType /\ (served.phase \in {"fetch", "pend"} => served.trans # 0)
        /\ pool \in 0..PoolMax /\ (served.phase \in {"fetch", "pend"} => pool > 0)
        /\ dmaq \in Seq(Seq(CtrlMsg))
    BY DEF IInv, TypeInv, NoLockout, ServedType
  <1>4. /\ BufsOf(h2d) + BufsIn(dmaq) + pool + CountOf(Coming, Answers) + BufGot <= held
        /\ Stages(DoneSet, GotSet, Calls(Coming), ServedSet(served), CallsIn(dmaq),
                  Calls(h2d), trans_id)
        /\ RisingIn(dmaq)
        /\ Fine => OwnCalls(Ahead, Behind(served, dmaq), served)
    BY DEF IInv, BufInv, OrderInv, OwnInv
  <1> QED
    BY <1>1, <1>2, <1>3, <1>4 DEF Between

LEMMA AppendTwo ==
  ASSUME NEW X, NEW s \in Seq(X), NEW x \in X, NEW y \in X
  PROVE  s \o <<x, y>> = Append(Append(s, x), y)
  OBVIOUS

(* What every handler's last part leaves alone.                            *)
Around(d) ==
  /\ dmaq' = d /\ landed' \in 0..Len(cpl) /\ seen <= landed'
  /\ UNCHANGED <<hostVars, rxlen, h2d, others, seen>>

LEMMA AroundIs ==
  ASSUME IInv, NEW d, Around(d)
  PROVE  /\ hpc' = hpc /\ trans_id' = trans_id /\ ioctbuf' = ioctbuf
         /\ cur_posted' = cur_posted /\ held' = held /\ nomem' = nomem
         /\ returned' = returned /\ rxlen' = rxlen /\ h2d' = h2d
         /\ others' = others /\ seen' = seen /\ dmaq' = d
         /\ DoneSet' = DoneSet /\ GotSet' = GotSet
         /\ BufGot' = BufGot /\ Fine' = Fine
         /\ CallInv' /\ SurplusBounded'
  <1>1. /\ hpc' = hpc /\ trans_id' = trans_id /\ ioctbuf' = ioctbuf
        /\ cur_posted' = cur_posted /\ held' = held /\ nomem' = nomem
        /\ returned' = returned /\ rxlen' = rxlen /\ h2d' = h2d
        /\ others' = others /\ seen' = seen /\ dmaq' = d
    BY DEF Around, hostVars
  <1>2. CallInv /\ SurplusBounded
    BY DEF IInv
  <1>3. Failures' = Failures
    BY <1>1 DEF Failures
  <1> QED
    BY <1>1, <1>2, <1>3
       DEF DoneSet, GotSet, BufGot, Fine, CallInv, SurplusBounded

LEMMA AroundType ==
  ASSUME IInv, NEW srv, NEW bufs, NEW out, NEW d, Between(srv, bufs, out, d),
         Around(d),
         served' \in ServedType,
         served'.phase \in {"fetch", "pend"} => served'.trans # 0,
         pool' \in 0..PoolMax, executed' \in Seq((1..MaxCalls) \X (0..MaxCalls)),
         cpl' \in Seq(CplMsg), Len(out) <= Len(cpl'), Len(cpl') <= CplSlots
  PROVE  TypeInv'
  <1>1. TypeInv
    BY DEF IInv
  <1>2. CtrlSpace' >= 0
    <2>1. d \in Seq(Seq(CtrlMsg)) /\ Len(h2d) + SlotsIn(d) <= CtrlSlots
      BY DEF Between
    <2>2. SlotsIn(d) \in Nat /\ Len(h2d) \in Nat /\ CtrlSlots \in Nat
      <3>1. SlotsIn(d) \in Nat
        BY <2>1, SumsNat
      <3> QED
        BY <1>1, <3>1, IoctlAssumption DEF TypeInv
    <2>3. CtrlSpace' = CtrlSlots - Len(h2d) - SlotsIn(d)
      <3>1. h2d' = h2d /\ dmaq' = d
        BY AroundIs
      <3> QED
        BY ONLY <3>1 DEF CtrlSpace, SlotsIn
    <2> QED
      BY <2>1, <2>2, <2>3
  <1>3. landed' \in 0..Len(cpl')
    <2>1. Len(cpl) <= Len(out) /\ Len(cpl) \in Nat /\ Len(out) \in Nat
      <3>1. cpl \in Seq(CplMsg)
        BY <1>1 DEF TypeInv
      <3>2. out \in Seq(CplMsg) /\ Len(cpl) <= Len(out)
        BY DEF Between, Same
      <3> QED
        BY <3>1, <3>2
    <2>2. Len(cpl') \in Nat
      OBVIOUS
    <2>3. landed' \in 0..Len(cpl)
      BY DEF Around
    <2> QED
      BY <2>1, <2>2, <2>3
  <1>4. seen' \in 0..landed'
    <2>1. seen \in Nat /\ seen <= landed' /\ seen' = seen
      BY <1>1, AroundIs DEF TypeInv, Around
    <2> QED
      BY <1>3, <2>1
  <1>5. dmaq' \in Seq(Seq(CtrlMsg))
    BY AroundIs DEF Between
  <1>6. /\ hpc' \in {"idle", "post", "wait", "timed"}
        /\ trans_id' \in 0..MaxCalls /\ ioctbuf' \in 0..MaxCalls
        /\ cur_posted' \in 0..MaxPost /\ held' \in Int
        /\ rxlen' \in 0..MaxCalls /\ nomem' \in 0..MaxNoMem
        /\ returned' \in Seq(0..MaxCalls) /\ h2d' \in Seq(CtrlMsg)
        /\ others' \in 0..MaxOther
    BY <1>1, AroundIs DEF TypeInv
  <1> QED
    BY <1>2, <1>3, <1>4, <1>5, <1>6 DEF TypeInv, ServedType

LEMMA RetryWaits ==
  ASSUME IInv, NEW srv, NEW bufs, NEW out, NEW d, Between(srv, bufs, out, d),
         Retry(srv, bufs, out), Around(d), ~CanServe(srv, bufs, out)
  PROVE  IInv'
  <1>1. cpl' = out /\ pool' = bufs /\ served' = srv /\ executed' = executed
    BY DEF Retry
  <1>2. TypeInv'
    <2>1. executed \in Seq((1..MaxCalls) \X (0..MaxCalls))
      BY DEF IInv, TypeInv
    <2>2. /\ srv \in ServedType /\ (srv.phase \in {"fetch", "pend"} => srv.trans # 0)
          /\ bufs \in 0..PoolMax /\ out \in Seq(CplMsg) /\ Len(out) <= CplSlots
          /\ Len(out) \in Nat
      BY DEF Between, Same
    <2> QED
      BY <1>1, <2>1, <2>2, AroundType
  <1>3. /\ CountOf(Coming', Answers) = CountOf(Coming, Answers)
        /\ Calls(Coming') = Calls(Coming) /\ Rising(Coming')
    <2>1. Coming' = Rest(out, seen)
      BY <1>1, AroundIs DEF Coming, Rest
    <2> QED
      BY <2>1 DEF Between, Same
  <1>4. BufInv'
    <2>1. /\ h2d' = h2d /\ dmaq' = d /\ pool' = bufs /\ BufGot' = BufGot
          /\ held' = held
      BY <1>1, AroundIs
    <2>2. BufsOf(h2d) + BufsIn(d) + bufs + CountOf(Coming, Answers) + BufGot <= held
      BY DEF Between
    <2> QED
      BY ONLY <1>3, <2>1, <2>2 DEF BufInv
  <1>5. NoLockout'
    BY <1>1 DEF Between, NoLockout
  <1>6. OrderInv'
    <2>1. Stages(DoneSet', GotSet', Calls(Coming)', ServedSet(served)', CallsIn(dmaq)',
                 Calls(h2d)', trans_id')
      BY <1>1, <1>3, AroundIs DEF Between
    <2>2. Rising(Coming)' /\ RisingIn(dmaq)' /\ Rising(h2d)'
      BY <1>3, AroundIs DEF Between, IInv, OrderInv
    <2> QED
      BY <2>1, <2>2 DEF OrderInv
  <1>7. OwnInv'
    BY <1>1, <1>3, AroundIs DEF Between, IInv, OwnInv, OwnCalls, Ahead, Behind
  <1> QED
    BY <1>2, <1>4, <1>5, <1>6, <1>7, AroundIs DEF IInv

LEMMA RetryServes ==
  ASSUME IInv, NEW srv, NEW bufs, NEW out, NEW d, Between(srv, bufs, out, d),
         Retry(srv, bufs, out), Around(d), CanServe(srv, bufs, out)
  PROVE  IInv'
  <1> DEFINE t == srv.trans
             rest == Rest(out, seen)
             one == Append(out, Note)
             two == Append(one, Answer(t))
  <1>1. /\ cpl' = out \o <<Note, Answer(t)>> /\ pool' = bufs - 1
        /\ served' = [srv EXCEPT !.phase = "reply"]
        /\ executed' = Append(executed, <<srv.trans, srv.args>>)
    BY DEF Retry
  <1>2. /\ srv \in ServedType /\ srv.phase = "pend" /\ bufs > 0
        /\ bufs \in 0..PoolMax /\ t # 0 /\ Same(out) /\ CplSlots - Len(out) >= 2
    BY DEF CanServe, Between
  <1>3. /\ t \in 1..MaxCalls /\ srv.args \in 0..MaxCalls /\ MaxCalls \in Nat
        /\ PoolMax \in Nat /\ CplSlots \in Nat
    BY <1>2, IoctlAssumption DEF ServedType
  <1>4. /\ Note \in CplMsg /\ Answer(t) \in CplMsg
        /\ Answer(t).kind = "answer" /\ Answer(t).trans = t
    BY <1>3, NewMsgs
  <1>5. /\ ~Carries(Note) /\ Note \notin Answers
        /\ Carries(Answer(t)) /\ Answer(t) \in Answers
    <2>1. Note.kind = "note"
      BY DEF Note
    <2> QED
      BY <1>4, <2>1, CplMsgIs
  <1> HIDE DEF t
  <1>6. /\ out \in Seq(CplMsg) /\ rest \in Seq(CplMsg) /\ Len(out) \in Nat
        /\ CountOf(rest, Answers) = CountOf(Coming, Answers)
        /\ Calls(rest) = Calls(Coming) /\ Rising(rest)
    BY <1>2 DEF Same
  <1>7. seen \in 0..Len(out)
    <2>1. cpl \in Seq(CplMsg) /\ Len(cpl) \in Nat /\ seen \in Nat /\ seen <= Len(cpl)
      BY DEF IInv, TypeInv
    <2>2. Len(cpl) <= Len(out)
      BY <1>2 DEF Same
    <2> QED
      BY <1>6, <2>1, <2>2
  <1>8. /\ one \in Seq(CplMsg) /\ Len(one) = Len(out) + 1
        /\ two \in Seq(CplMsg) /\ Len(two) = Len(out) + 2
    BY <1>4, <1>6
  <1>9. cpl' = two
    BY <1>1, <1>4, <1>6, AppendTwo
  <1> DEFINE r1 == Append(rest, Note)
             r2 == Append(r1, Answer(t))
  <1>10. Coming' = r2
    <2>1. Rest(one, seen) = r1
      BY ONLY <1>4, <1>6, <1>7, RestAppend
    <2>2. seen \in 0..Len(one)
      BY <1>6, <1>7, <1>8
    <2>3. Rest(two, seen) = Append(Rest(one, seen), Answer(t))
      BY ONLY <1>4, <1>8, <2>2, RestAppend
    <2>4. Coming' = Rest(two, seen)
      BY <1>9, AroundIs DEF Coming
    <2> QED
      BY ONLY <2>1, <2>3, <2>4
  <1>11. r1 \in Seq(CplMsg) /\ r2 \in Seq(CplMsg)
    BY <1>4, <1>6
  <1> HIDE DEF one, two, rest, r2
  <1>12. CountOf(r1, Answers) = CountOf(rest, Answers)
    <2>1. CountOf(r1, Answers) = CountOf(rest, Answers)
                                   + IF Note \in Answers THEN 1 ELSE 0
      BY ONLY <1>4, <1>6, CountAppend
    <2>2. CountOf(rest, Answers) \in Nat
      BY ONLY <1>6, CountNat
    <2> QED
      BY ONLY <1>5, <2>1, <2>2
  <1>13. Calls(r1) = Calls(rest) /\ Rising(r1)
    BY ONLY <1>4, <1>5, <1>6, CallsAppend
  <1> HIDE DEF r1
  <1>14. CountOf(r2, Answers) = CountOf(Coming, Answers) + 1
    <2>1. CountOf(r2, Answers) = CountOf(r1, Answers)
                                   + IF Answer(t) \in Answers THEN 1 ELSE 0
      BY ONLY <1>4, <1>11, CountAppend DEF r2
    <2> QED
      BY ONLY <1>5, <1>6, <1>12, <2>1
  <1>15. Calls(r2) = Calls(Coming) \union {t}
    <2> DEFINE m == Answer(t)
    <2>1. m \in CplMsg /\ Carries(m) /\ m.trans = t
      BY ONLY <1>4, <1>5
    <2> HIDE DEF m
    <2>2. Calls(Append(r1, m)) = Calls(r1) \union {m.trans}
      BY ONLY <1>11, <2>1, CallsAppend
    <2>3. Calls(Append(r1, m)) = Calls(Coming) \union {t}
      BY ONLY <1>6, <1>13, <2>1, <2>2
    <2> QED
      BY ONLY <2>3 DEF r2, m
  <1>16. Stages(DoneSet, GotSet, Calls(Coming), {t}, CallsIn(d), Calls(h2d), trans_id)
    BY <1>2 DEF Between, ServedSet, t
  <1>17. /\ Stages(DoneSet, GotSet, Calls(Coming) \union {t}, {}, CallsIn(d),
                   Calls(h2d), trans_id)
         /\ Below(Calls(Coming), {t})
    BY ONLY <1>16, StagesServe
  <1>18. Rising(r2)
    <2>1. Below(Calls(r1), {Answer(t).trans})
      BY ONLY <1>4, <1>6, <1>13, <1>17
    <2> QED
      BY ONLY <1>4, <1>11, <1>13, <2>1, CallsAppend DEF r2
  <1>19. /\ served' \in ServedType /\ served'.phase = "reply"
         /\ served'.trans = t
    BY ONLY <1>1, <1>2 DEF ServedType, t
  <1>20. ServedSet(served') = {} /\ served'.phase \notin {"fetch", "pend"}
    BY <1>19 DEF ServedSet
  <1>21. <<srv.trans, srv.args>> \in (1..MaxCalls) \X (0..MaxCalls)
    BY <1>3 DEF t
  <1>22. executed \in Seq((1..MaxCalls) \X (0..MaxCalls))
    BY DEF IInv, TypeInv
  <1>23. TypeInv'
    <2>1. executed' \in Seq((1..MaxCalls) \X (0..MaxCalls))
      BY ONLY <1>1, <1>21, <1>22
    <2>2. pool' \in 0..PoolMax
      BY <1>1, <1>2, <1>3
    <2>3. Len(out) <= Len(cpl') /\ Len(cpl') <= CplSlots /\ cpl' \in Seq(CplMsg)
      BY <1>2, <1>3, <1>6, <1>8, <1>9
    <2> QED
      BY <1>19, <1>20, <2>1, <2>2, <2>3, AroundType
  <1>24. BufInv'
    <2>1. /\ h2d' = h2d /\ dmaq' = d /\ BufGot' = BufGot /\ held' = held
      BY AroundIs
    <2>2. BufsOf(h2d) + BufsIn(d) + bufs + CountOf(Coming, Answers) + BufGot <= held
      BY DEF Between
    <2>3. /\ BufsOf(h2d) \in Nat /\ BufsIn(d) \in Nat /\ held \in Int
          /\ CountOf(Coming, Answers) \in Nat /\ BufGot \in Nat /\ bufs \in Nat
      <3>1. h2d \in Seq(CtrlMsg) /\ d \in Seq(Seq(CtrlMsg)) /\ held \in Int
        BY DEF Between, IInv, TypeInv
      <3>2. BufsOf(h2d) \in Nat
        BY <3>1, CountNat DEF BufsOf
      <3>3. CountOf(rest, Answers) \in Nat
        BY ONLY <1>6, CountNat
      <3> QED
        BY <1>2, <1>3, <1>6, <3>1, <3>2, <3>3, SumsNat DEF BufGot
    <2>4. CountOf(Coming, Answers)' = CountOf(Coming, Answers) + 1
      BY <1>10, <1>14
    <2> QED
      BY ONLY <1>1, <2>1, <2>2, <2>3, <2>4 DEF BufInv
  <1>25. NoLockout'
    BY <1>20 DEF NoLockout
  <1>26. OrderInv'
    <2>1. Stages(DoneSet', GotSet', Calls(Coming)', ServedSet(served)', CallsIn(dmaq)',
                 Calls(h2d)', trans_id')
      BY <1>10, <1>15, <1>17, <1>20, AroundIs
    <2>2. Rising(Coming)' /\ RisingIn(dmaq)' /\ Rising(h2d)'
      BY <1>10, <1>18, AroundIs DEF Between, IInv, OrderInv
    <2> QED
      BY <2>1, <2>2 DEF OrderInv
  <1>27. OwnInv'
    <2> SUFFICES ASSUME Fine'
                 PROVE  /\ \A i \in 1..Len(returned) : returned'[i] = i
                        /\ \A i \in 1..Len(executed') : executed'[i] = <<i, i>>
                        /\ OwnCalls(Ahead, Behind(served, dmaq), served)'
      BY AroundIs DEF OwnInv
    <2>1. Fine /\ OwnCalls(Ahead, Behind(srv, d), srv)
      BY AroundIs DEF Between
    <2>2. /\ \A i \in 1..Len(returned) : returned[i] = i
          /\ \A i \in 1..Len(executed) : executed[i] = <<i, i>>
      BY <2>1 DEF IInv, OwnInv
    <2>3. t \in Behind(srv, d)
      BY <1>2 DEF Behind, ServedSet, t
    <2>4. /\ t = trans_id /\ Len(executed) = t - 1 /\ srv.args = t
      BY <1>2, <2>1, <2>3 DEF OwnCalls, t
    <2>5. CallsIn(d) \union Calls(h2d) = {}
      <3>1. CallsIn(d) \union Calls(h2d) \subseteq {t}
        BY <2>1, <2>4 DEF OwnCalls, Behind
      <3>2. Below({t}, CallsIn(d) \union Calls(h2d))
        BY <1>16 DEF Stages
      <3>3. ~(t < t)
        BY <1>3
      <3> QED
        BY <3>1, <3>2, <3>3 DEF Below
    <2>6. Behind(served, dmaq)' = {}
      BY <1>20, <2>5, AroundIs DEF Behind
    <2>7. Ahead' = Ahead \union {t}
      BY <1>10, <1>15, AroundIs DEF Ahead
    <2>8. Len(executed') = t /\ \A i \in 1..Len(executed') : executed'[i] = <<i, i>>
      <3>1. executed' = Append(executed, <<t, t>>)
        BY <1>1, <2>4 DEF t
      <3> QED
        BY <1>3, <1>21, <1>22, <2>2, <2>4, <3>1
    <2>9. OwnCalls(Ahead, Behind(served, dmaq), served)'
      <3>1. Ahead \subseteq {trans_id}
        BY <2>1 DEF OwnCalls
      <3>2. trans_id' = trans_id /\ served'.phase # "pend"
        BY <1>20, AroundIs
      <3> QED
        BY <2>4, <2>6, <2>7, <2>8, <3>1, <3>2 DEF OwnCalls
    <2> QED
      BY <2>2, <2>8, <2>9, AroundIs
  <1> QED
    BY <1>23, <1>24, <1>25, <1>26, <1>27, AroundIs DEF IInv

LEMMA RetryKeeps ==
  ASSUME IInv, NEW srv, NEW bufs, NEW out, NEW d, Between(srv, bufs, out, d),
         Retry(srv, bufs, out), Around(d)
  PROVE  IInv'
  BY RetryWaits, RetryServes

-----------------------------------------------------------------------------
(* The dongle's actions keep the invariant.                                *)

LEMMA OtherDmaKeeps ==
  ASSUME IInv, OtherDma
  PROVE  IInv'
  <1>1. Around(dmaq)
    BY DEF OtherDma, Around, IInv, TypeInv
  <1>2. Retry(served, pool, cpl)
    BY DEF OtherDma
  <1> QED
    BY <1>1, <1>2, BetweenAt, RetryKeeps

(* The end of the fetch: the command reads its arguments, then the common  *)
(* last part of the handlers runs.                                          *)
LEMMA FetchDoneKeeps ==
  ASSUME IInv, FetchDone
  PROVE  IInv'
  <1>1. Around(dmaq)
    BY DEF FetchDone, Around, IInv, TypeInv
  <1>2. Retry(Fetched, pool, cpl) /\ served.phase = "fetch"
    BY DEF FetchDone
  <1>3. Between(served, pool, cpl, dmaq)
    BY BetweenAt
  <1>4. served \in ServedType /\ ioctbuf \in 0..MaxCalls
    BY <1>3 DEF Between, IInv, TypeInv
  <1> DEFINE srv == Fetched
  <1>5. /\ srv \in ServedType /\ srv.phase = "pend" /\ srv.trans = served.trans
        /\ srv.args = ioctbuf
    BY <1>4 DEF Fetched, ServedType
  <1> HIDE DEF srv
  <1>6. ServedSet(srv) = ServedSet(served)
    BY <1>2, <1>5 DEF ServedSet
  <1>7. Fine => OwnCalls(Ahead, Behind(srv, dmaq), srv)
    <2> SUFFICES ASSUME Fine PROVE OwnCalls(Ahead, Behind(srv, dmaq), srv)
      OBVIOUS
    <2>1. OwnCalls(Ahead, Behind(served, dmaq), served)
      BY <1>3 DEF Between
    <2>2. Behind(srv, dmaq) = Behind(served, dmaq) /\ srv.trans \in Behind(served, dmaq)
      BY <1>2, <1>5, <1>6 DEF Behind, ServedSet
    <2>3. srv.trans = trans_id /\ ioctbuf = trans_id
      BY <2>1, <2>2 DEF OwnCalls
    <2> QED
      BY <1>5, <2>1, <2>2, <2>3 DEF OwnCalls
  <1>8. Between(srv, pool, cpl, dmaq)
    BY <1>2, <1>3, <1>5, <1>6, <1>7 DEF Between
  <1> QED
    BY <1>1, <1>2, <1>8, RetryKeeps DEF srv

LEMMA D2HDoneKeeps ==
  ASSUME IInv, D2HDone
  PROVE  IInv'
  <1> DEFINE srv == Released(cpl[landed + 1])
  <1>1. Around(dmaq)
    <2>1. landed \in Nat /\ Len(cpl) \in Nat /\ seen \in Nat /\ seen <= landed
      BY DEF IInv, TypeInv
    <2>2. landed' = landed + 1 /\ landed < Len(cpl)
      BY DEF D2HDone
    <2>3. landed' \in 0..Len(cpl) /\ seen <= landed'
      BY <2>1, <2>2
    <2> QED
      BY <2>3 DEF D2HDone, Around
  <1>2. Retry(srv, pool, cpl)
    BY DEF D2HDone
  <1>3. Between(served, pool, cpl, dmaq)
    BY BetweenAt
  <1>4. srv = served \/ srv = NotServed
    BY DEF Released
  <1> HIDE DEF srv
  <1>5. ASSUME srv = NotServed PROVE Between(srv, pool, cpl, dmaq)
    <2>1. /\ srv \in ServedType /\ srv.phase = "none"
      BY <1>5, IoctlAssumption DEF NotServed, ServedType
    <2>2. ServedSet(srv) = {} /\ srv.phase \notin {"fetch", "pend"}
      BY <2>1 DEF ServedSet
    <2>3. Stages(DoneSet, GotSet, Calls(Coming), {}, CallsIn(dmaq), Calls(h2d), trans_id)
      BY <1>3, StagesFewer DEF Between
    <2>4. Fine => OwnCalls(Ahead, Behind(srv, dmaq), srv)
      <3>1. Behind(srv, dmaq) \subseteq Behind(served, dmaq)
        BY <2>2 DEF Behind
      <3> QED
        BY <1>3, <2>2, <3>1 DEF Between, OwnCalls
    <2> QED
      BY <1>3, <2>1, <2>2, <2>3, <2>4 DEF Between
  <1>6. Between(srv, pool, cpl, dmaq)
    BY <1>3, <1>4, <1>5
  <1> QED
    BY <1>1, <1>2, <1>6, RetryKeeps

LEMMA HandleCtrlKeeps ==
  ASSUME IInv, HandleCtrl
  PROVE  IInv'
  <1> DEFINE b == Head(dmaq)
             d == Tail(dmaq)
             s == HandleBlock(b)
             srv == s.srv
  <1>1. Around(d)
    BY DEF HandleCtrl, Around, IInv, TypeInv
  <1>2. Retry(srv, s.bufs, s.out) /\ dmaq # <<>>
    BY DEF HandleCtrl
  <1>3. Between(served, pool, cpl, dmaq)
    BY BetweenAt
  <1>4. dmaq \in Seq(Seq(CtrlMsg)) /\ TypeInv /\ Rising(Coming)
    BY <1>3 DEF Between, IInv, OrderInv
  <1>5. /\ b = dmaq[1]
        /\ SlotsIn(dmaq) = Len(b) + SlotsIn(d) /\ BufsIn(dmaq) = BufsOf(b) + BufsIn(d)
        /\ SlotsIn(d) \in Nat /\ BufsIn(d) \in Nat
        /\ b \in Seq(CtrlMsg) /\ d \in Seq(Seq(CtrlMsg))
    BY <1>2, <1>4, SumsTail
  <1>6. /\ CallsIn(dmaq) = Calls(b) \union CallsIn(d)
        /\ RisingIn(dmaq) => RisingIn(d) /\ Rising(b) /\ Below(Calls(b), CallsIn(d))
    BY <1>2, <1>4, <1>5, BlocksTail
  <1> HIDE DEF b, d
  <1>7. Handled(b, s)
    BY <1>4, <1>5, HandleBlockIs
  <1> HIDE DEF s
  <1>8. /\ s \in HState /\ pool <= s.bufs /\ s.bufs <= pool + BufsOf(b)
        /\ Same(s.out) /\ s.bufs \in 0..PoolMax /\ srv \in ServedType
    BY <1>7 DEF Handled, HState
  <1>9. \/ srv = served
        \/ /\ served.phase = "none" /\ s.bufs > 0
           /\ \E i \in 1..Len(b) : b[i].kind = "req" /\ srv = Begin(b[i])
    BY <1>7 DEF Handled
  <1>10. pool \in Nat /\ BufsOf(b) \in Nat /\ PoolMax \in Nat /\ Len(b) \in Nat
    BY <1>3, <1>5, CountNat, IoctlAssumption DEF Between, BufsOf
  <1> HIDE DEF srv
  <1>11. Len(h2d) + SlotsIn(d) <= CtrlSlots
    <2>1. Len(h2d) + SlotsIn(dmaq) <= CtrlSlots
      BY <1>3 DEF Between
    <2>2. Len(h2d) \in Nat /\ CtrlSlots \in Nat
      BY <1>4, IoctlAssumption DEF TypeInv
    <2> QED
      BY <1>5, <1>10, <2>1, <2>2
  <1>12. BufsOf(h2d) + BufsIn(d) + s.bufs + CountOf(Coming, Answers) + BufGot <= held
    <2>1. BufsOf(h2d) + BufsIn(dmaq) + pool + CountOf(Coming, Answers) + BufGot <= held
      BY <1>3 DEF Between
    <2>2. /\ BufsOf(h2d) \in Nat /\ held \in Int
          /\ CountOf(Coming, Answers) \in Nat /\ BufGot \in Nat
      <3>1. h2d \in Seq(CtrlMsg) /\ held \in Int
        BY <1>4 DEF TypeInv
      <3>2. BufsOf(h2d) \in Nat
        BY <3>1, CountNat DEF BufsOf
      <3>3. Coming \in Seq(CplMsg)
        BY <1>3 DEF Between, Same, Coming
      <3>4. CountOf(Coming, Answers) \in Nat
        BY ONLY <3>3, CountNat
      <3> QED
        BY <3>1, <3>2, <3>4 DEF BufGot
    <2>3. /\ BufsIn(dmaq) = BufsOf(b) + BufsIn(d) /\ BufsIn(d) \in Nat
          /\ s.bufs <= pool + BufsOf(b) /\ s.bufs \in Nat
      BY <1>5, <1>8, <1>10
    <2> DEFINE x == BufsOf(h2d)
               y == BufsOf(b)
               z == BufsIn(d)
               c == CountOf(Coming, Answers)
    <2>4. /\ x \in Nat /\ y \in Nat /\ z \in Nat /\ c \in Nat /\ held \in Int
          /\ BufGot \in Nat /\ pool \in Nat /\ s.bufs \in Nat
      BY ONLY <1>10, <2>2, <2>3
    <2>5. x + (y + z) + pool + c + BufGot <= held /\ s.bufs <= pool + y
      BY ONLY <2>1, <2>3
    <2> HIDE DEF x, y, z, c
    <2>6. x + z + s.bufs + c + BufGot <= held
      BY ONLY <2>4, <2>5
    <2> QED
      BY ONLY <2>6 DEF x, z, c
  <1>13. RisingIn(dmaq)
    BY <1>3 DEF Between
  <1>14. CASE srv = served
    <2>1. Stages(DoneSet, GotSet, Calls(Coming), ServedSet(served), CallsIn(d),
                 Calls(h2d), trans_id)
      BY <1>3, <1>6, StagesFewer DEF Between
    <2>2. Fine => OwnCalls(Ahead, Behind(srv, d), srv)
      <3>1. Behind(srv, d) \subseteq Behind(served, dmaq)
        BY <1>6, <1>14 DEF Behind
      <3> QED
        BY <1>3, <1>14, <3>1 DEF Between, OwnCalls
    <2>3. srv.phase \in {"fetch", "pend"} => s.bufs > 0 /\ srv.trans # 0
      BY <1>3, <1>8, <1>10, <1>14 DEF Between
    <2>4. Between(srv, s.bufs, s.out, d)
      BY <1>5, <1>6, <1>8, <1>11, <1>12, <1>13, <1>14, <2>1, <2>2, <2>3 DEF Between
    <2> QED
      BY <1>1, <1>2, <2>4, RetryKeeps
  <1>15. CASE /\ served.phase = "none" /\ s.bufs > 0
              /\ \E i \in 1..Len(b) : b[i].kind = "req" /\ srv = Begin(b[i])
    <2>1. PICK i \in 1..Len(b) : b[i].kind = "req" /\ srv = Begin(b[i])
      BY <1>15
    <2>2. b[i] \in CtrlMsg
      BY <1>5
    <2>3. /\ srv.phase \in {"fetch", "pend"} /\ srv.trans = b[i].trans
          /\ srv.trans \in 1..MaxCalls
          /\ srv.phase = "pend" => srv.args = srv.trans
      BY <2>1, <2>2, BeginType
    <2>4. ServedSet(srv) = {srv.trans} /\ srv.trans # 0
      BY <2>3 DEF ServedSet
    <2>5. srv.trans \in Calls(b)
      <3>1. Carries(b[i])
        BY <2>1 DEF Carries
      <3> QED
        BY <2>3, <3>1 DEF Calls
    <2>6. Stages(DoneSet, GotSet, Calls(Coming), ServedSet(srv), CallsIn(d),
                 Calls(h2d), trans_id)
      <3>1. ServedSet(srv) \in SUBSET Calls(b)
        BY <2>4, <2>5
      <3>2. Stages(DoneSet, GotSet, Calls(Coming), ServedSet(served), CallsIn(dmaq),
                 Calls(h2d), trans_id)
        BY <1>3 DEF Between
      <3> QED
        BY ONLY <1>6, <1>13, <3>1, <3>2, StagesTake
    <2>7. Fine => OwnCalls(Ahead, Behind(srv, d), srv)
      <3>1. Behind(srv, d) \subseteq Behind(served, dmaq)
        BY <1>6, <2>4, <2>5 DEF Behind
      <3> QED
        BY <1>3, <2>3, <3>1 DEF Between, OwnCalls
    <2>8. Between(srv, s.bufs, s.out, d)
      BY <1>5, <1>6, <1>8, <1>11, <1>12, <1>13, <1>15, <2>4, <2>6, <2>7 DEF Between
    <2> QED
      BY <1>1, <1>2, <2>8, RetryKeeps
  <1> QED
    BY <1>9, <1>14, <1>15

-----------------------------------------------------------------------------
(* The host's actions keep the invariant.                                  *)

(* A returned answer of 0 adds one to the failures; any other adds none.    *)
LEMMA FailuresNat ==
  ASSUME TypeInv
  PROVE  /\ Failures \in Nat
         /\ \A x \in 0..MaxCalls :
              CountOf(Append(returned, x), {0}) = Failures + IF x = 0 THEN 1 ELSE 0
  <1>1. returned \in Seq(0..MaxCalls)
    BY DEF TypeInv
  <1>2. Failures \in Nat
    BY <1>1, CountNat DEF Failures
  <1>3. ASSUME NEW x \in 0..MaxCalls
        PROVE  CountOf(Append(returned, x), {0}) = Failures + IF x = 0 THEN 1 ELSE 0
    <2>1. CountOf(Append(returned, x), {0})
            = CountOf(returned, {0}) + IF x \in {0} THEN 1 ELSE 0
      BY ONLY <1>1, x \in 0..MaxCalls, CountAppend
    <2>2. x \in {0} <=> x = 0
      OBVIOUS
    <2> QED
      BY ONLY <2>1, <2>2 DEF Failures
  <1> QED
    BY <1>2, <1>3

LEMMA PostedMsg ==
  ASSUME TypeInv, NEW m \in CtrlMsg, CtrlSpace # 0, h2d' = Append(h2d, m),
         dmaq' = dmaq
  PROVE  /\ h2d' \in Seq(CtrlMsg) /\ CtrlSpace' >= 0
         /\ BufsOf(h2d)' = BufsOf(h2d) + (IF m = Buf THEN 1 ELSE 0)
         /\ BufsOf(h2d) \in Nat
  <1>1. /\ h2d \in Seq(CtrlMsg) /\ dmaq \in Seq(Seq(CtrlMsg)) /\ CtrlSpace >= 0
        /\ CtrlSlots \in Nat
    BY IoctlAssumption DEF TypeInv
  <1>2. SlotsIn(dmaq) \in Nat /\ Len(h2d) \in Nat
    BY <1>1, SumsNat
  <1>3. CtrlSpace = CtrlSlots - Len(h2d) - SlotsIn(dmaq)
    BY DEF CtrlSpace, SlotsIn
  <1>4. CtrlSpace' = CtrlSlots - Len(h2d') - SlotsIn(dmaq)
    BY DEF CtrlSpace, SlotsIn
  <1>5. Len(h2d') = Len(h2d) + 1 /\ h2d' \in Seq(CtrlMsg)
    BY <1>1
  <1>6. BufsOf(Append(h2d, m)) = BufsOf(h2d) + IF m \in {Buf} THEN 1 ELSE 0
    BY ONLY <1>1, m \in CtrlMsg, CountAppend DEF BufsOf
  <1>7. BufsOf(h2d) \in Nat
    BY <1>1, CountNat DEF BufsOf
  <1>8. m \in {Buf} <=> m = Buf
    OBVIOUS
  <1>9. CtrlSpace' >= 0
    BY <1>1, <1>2, <1>3, <1>4, <1>5
  <1>10. BufsOf(h2d)' = BufsOf(Append(h2d, m))
    OBVIOUS
  <1> QED
    BY ONLY <1>5, <1>6, <1>7, <1>8, <1>9, <1>10

(* What is on its way, in numbers.                                         *)
LEMMA BufsAre ==
  ASSUME TypeInv
  PROVE  /\ BufsOf(h2d) \in Nat /\ BufsIn(dmaq) \in Nat /\ pool \in Nat
         /\ Coming \in Seq(CplMsg) /\ CountOf(Coming, Answers) \in Nat
         /\ BufGot \in Nat /\ held \in Int
  <1>1. /\ h2d \in Seq(CtrlMsg) /\ dmaq \in Seq(Seq(CtrlMsg)) /\ pool \in Nat
        /\ held \in Int /\ cpl \in Seq(CplMsg) /\ seen \in 0..Len(cpl)
    BY IoctlAssumption DEF TypeInv
  <1>2. BufsOf(h2d) \in Nat
    BY <1>1, CountNat DEF BufsOf
  <1>3. Note \in CplMsg
    BY NewMsgs
  <1>4. Coming \in Seq(CplMsg)
    BY ONLY <1>1, <1>3, RestAppend DEF Coming
  <1>5. CountOf(Coming, Answers) \in Nat
    BY ONLY <1>4, CountNat
  <1> QED
    BY <1>1, <1>2, <1>4, <1>5, SumsNat DEF BufGot

LEMMA PostBufKeeps ==
  ASSUME IInv, PostBuf
  PROVE  IInv'
  <1>1. /\ TypeInv /\ CallInv /\ BufInv /\ NoLockout /\ SurplusBounded
        /\ OrderInv /\ OwnInv
    BY DEF IInv
  <1>2. /\ hpc = "post" /\ cur_posted < MaxPost /\ CtrlSpace > 0
        /\ h2d' = Append(h2d, Buf) /\ cur_posted' = cur_posted + 1
        /\ held' = held + 1
        /\ hpc' = hpc /\ trans_id' = trans_id /\ ioctbuf' = ioctbuf /\ rxlen' = rxlen
        /\ nomem' = nomem /\ returned' = returned /\ dmaq' = dmaq /\ pool' = pool
        /\ served' = served /\ executed' = executed /\ cpl' = cpl
        /\ landed' = landed /\ others' = others /\ seen' = seen
    BY DEF PostBuf, dongleVars, cplVars
  <1>3. Buf \in CtrlMsg /\ ~Carries(Buf) /\ CtrlSpace # 0
    BY <1>2, NewMsgs DEF Carries, Buf
  <1>4. /\ h2d' \in Seq(CtrlMsg) /\ CtrlSpace' >= 0
        /\ BufsOf(h2d)' = BufsOf(h2d) + 1 /\ h2d \in Seq(CtrlMsg)
    BY <1>1, <1>2, <1>3, PostedMsg DEF TypeInv
  <1>5. Calls(h2d)' = Calls(h2d) /\ (Rising(h2d) => Rising(h2d)')
    BY <1>2, <1>3, <1>4, CallsAppend
  <1>6. TypeInv'
    <2>1. cur_posted' \in 0..MaxPost /\ held' \in Int
      BY <1>1, <1>2, IoctlAssumption DEF TypeInv
    <2> QED
      BY <1>1, <1>2, <1>4, <2>1 DEF TypeInv
  <1>7. /\ Coming' = Coming /\ BufGot' = BufGot /\ DoneSet' = DoneSet
        /\ GotSet' = GotSet /\ Failures' = Failures /\ Fine' = Fine
    BY <1>2 DEF Coming, BufGot, DoneSet, GotSet, Failures, Fine
  <1>8. CallInv' /\ NoLockout'
    BY <1>1, <1>2 DEF CallInv, NoLockout
  <1>9. BufInv'
    <2>1. BufsOf(h2d) + BufsIn(dmaq) + pool + CountOf(Coming, Answers) + BufGot <= held
      BY <1>1 DEF BufInv
    <2>2. /\ BufsOf(h2d) \in Nat /\ BufsIn(dmaq) \in Nat /\ pool \in Nat
          /\ CountOf(Coming, Answers) \in Nat /\ BufGot \in Nat /\ held \in Int
      BY <1>1, BufsAre
    <2>3. /\ BufsOf(h2d)' = BufsOf(h2d) + 1 /\ dmaq' = dmaq /\ pool' = pool
          /\ Coming' = Coming /\ BufGot' = BufGot /\ held' = held + 1
      BY <1>2, <1>4, <1>7
    <2> QED
      BY ONLY <2>1, <2>2, <2>3 DEF BufInv
  <1>10. SurplusBounded'
    <2>1. cur_posted \in Nat /\ held \in Int /\ Failures \in Nat
      BY <1>1, FailuresNat, IoctlAssumption DEF TypeInv
    <2> QED
      BY <1>1, <1>2, <1>7, <2>1 DEF SurplusBounded
  <1>11. OrderInv'
    BY <1>1, <1>2, <1>5, <1>7 DEF OrderInv
  <1>12. OwnInv'
    BY <1>1, <1>2, <1>5, <1>7 DEF OwnInv, OwnCalls, Ahead, Behind
  <1> QED
    BY <1>6, <1>8, <1>9, <1>10, <1>11, <1>12 DEF IInv

LEMMA SendReqKeeps ==
  ASSUME IInv, SendReq
  PROVE  IInv'
  <1> DEFINE t == trans_id + 1
  <1>1. /\ TypeInv /\ CallInv /\ BufInv /\ NoLockout /\ SurplusBounded
        /\ OrderInv /\ OwnInv
    BY DEF IInv
  <1>2. /\ hpc = "idle" /\ trans_id < MaxCalls /\ trans_id' = t
        /\ cur_posted' = Expected /\ hpc' = "post"
        /\ held' = held /\ rxlen' = rxlen
        /\ nomem' = nomem /\ returned' = returned /\ dmaq' = dmaq /\ pool' = pool
        /\ served' = served /\ executed' = executed /\ cpl' = cpl
        /\ landed' = landed /\ others' = others /\ seen' = seen
    BY DEF SendReq, dongleVars, cplVars
  <1>3. trans_id \in Nat /\ trans_id <= MaxCalls /\ MaxCalls \in Nat /\ t \in 1..MaxCalls
    BY <1>1, <1>2, IoctlAssumption DEF TypeInv
  <1>4. /\ h2d' \in Seq(CtrlMsg) /\ CtrlSpace' >= 0 /\ BufsOf(h2d)' = BufsOf(h2d)
        /\ ioctbuf' \in 0..MaxCalls
        /\ Calls(h2d)' \in SUBSET (Calls(h2d) \union {t})
        /\ (Below(Calls(h2d), {t}) => Rising(h2d)')
        /\ (t \in Calls(h2d)' => ioctbuf' = t \/ t \in Calls(h2d))
    <2>1. CASE h2d' = h2d /\ ioctbuf' = ioctbuf
      <3>1. CtrlSpace' = CtrlSpace
        BY <1>2, <2>1 DEF CtrlSpace
      <3> QED
        BY <1>1, <2>1, <3>1 DEF TypeInv, OrderInv
    <2>2. CASE /\ CtrlSpace # 0 /\ ioctbuf' = t
               /\ \E args \in BOOLEAN : h2d' = Append(h2d, Req(t, args))
      <3>1. PICK args \in BOOLEAN : h2d' = Append(h2d, Req(t, args))
        BY <2>2
      <3> DEFINE m == Req(t, args)
      <3>2. m \in CtrlMsg /\ m.kind = "req" /\ m.trans = t
        BY <1>3, NewMsgs
      <3>3. Carries(m) /\ m # Buf
        BY <3>2 DEF Carries, Buf
      <3>4. h2d' = Append(h2d, m) /\ h2d \in Seq(CtrlMsg) /\ Rising(h2d)
        BY <1>1, <3>1 DEF TypeInv, OrderInv
      <3> HIDE DEF m
      <3>5. /\ Calls(h2d)' = Calls(h2d) \union {t}
            /\ (Below(Calls(h2d), {t}) => Rising(h2d)')
        <4>0. m \in CtrlMsg /\ h2d \in Seq(CtrlMsg) /\ Carries(m)
          BY <3>2, <3>3, <3>4
        <4>1. Calls(Append(h2d, m)) = Calls(h2d) \union {m.trans}
          BY ONLY <4>0, CallsAppend
        <4>2. Rising(h2d) /\ Below(Calls(h2d), {m.trans}) => Rising(Append(h2d, m))
          BY ONLY <4>0, CallsAppend
        <4> QED
          BY ONLY <3>2, <3>4, <4>1, <4>2
      <3>6. /\ h2d' \in Seq(CtrlMsg) /\ CtrlSpace' >= 0
            /\ BufsOf(h2d)' = BufsOf(h2d) + (IF m = Buf THEN 1 ELSE 0)
            /\ BufsOf(h2d) \in Nat
        BY <1>1, <1>2, <2>2, <3>2, <3>4, PostedMsg
      <3> QED
        BY <1>3, <2>2, <3>3, <3>5, <3>6
    <2> QED
      BY <1>2, <2>1, <2>2 DEF SendReq
  <1>5. TypeInv'
    <2>1. cur_posted' \in 0..MaxPost
      BY <1>1, <1>2, IoctlAssumption DEF TypeInv, Expected
    <2>2. trans_id' \in 0..MaxCalls /\ hpc' \in {"idle", "post", "wait", "timed"}
      BY <1>2, <1>3
    <2> QED
      BY <1>1, <1>2, <1>4, <2>1, <2>2 DEF TypeInv
  <1>6. /\ Coming' = Coming /\ BufGot' = BufGot /\ DoneSet' = DoneSet
        /\ GotSet' = GotSet /\ Failures' = Failures /\ (Fine' => Fine)
    BY <1>2 DEF Coming, BufGot, DoneSet, GotSet, Failures, Fine
  <1>7. CallInv' /\ NoLockout'
    BY <1>1, <1>2, <1>3 DEF CallInv, NoLockout
  <1>8. BufInv'
    BY <1>1, <1>2, <1>4, <1>6 DEF BufInv
  <1>9. SurplusBounded'
    <2>1. cur_posted \in Nat /\ held \in Int /\ Failures \in Nat
      BY <1>1, FailuresNat, IoctlAssumption DEF TypeInv
    <2>2. cur_posted' + 1 >= cur_posted /\ cur_posted' \in Nat
      BY <1>2, <2>1 DEF Expected
    <2> QED
      BY <1>1, <1>2, <1>6, <2>1, <2>2 DEF SurplusBounded
  <1>10. Stages(DoneSet, GotSet, Calls(Coming), ServedSet(served), CallsIn(dmaq),
                Calls(h2d), trans_id)
    BY <1>1 DEF OrderInv
  <1>11. OrderInv'
    <2>1. /\ Stages(DoneSet, GotSet, Calls(Coming), ServedSet(served), CallsIn(dmaq),
                    Calls(h2d)', t)
          /\ Below(Calls(h2d), {t})
      BY ONLY <1>3, <1>4, <1>10, StagesAsk
    <2> QED
      BY <1>1, <1>2, <1>4, <1>6, <2>1 DEF OrderInv
  <1>12. OwnInv'
    <2> SUFFICES ASSUME Fine'
                 PROVE  /\ \A i \in 1..Len(returned) : returned[i] = i
                        /\ \A i \in 1..Len(executed) : executed[i] = <<i, i>>
                        /\ OwnCalls(Ahead, Behind(served, dmaq), served)'
      BY <1>2 DEF OwnInv
    <2>1. /\ \A i \in 1..Len(returned) : returned[i] = i
          /\ \A i \in 1..Len(executed) : executed[i] = <<i, i>>
          /\ OwnCalls(Ahead, Behind(served, dmaq), served)
      BY <1>1, <1>6 DEF OwnInv
    <2>2. /\ Len(executed) = trans_id /\ Len(returned) = trans_id
          /\ Ahead \union Behind(served, dmaq) \subseteq {trans_id}
          /\ served.phase = "pend" => served.args = served.trans
      BY <1>1, <1>2, <2>1 DEF OwnCalls, CallInv
    <2>3. trans_id \in DoneSet
      <3>1. CASE trans_id = 0
        BY <3>1 DEF DoneSet
      <3>2. CASE trans_id # 0
        <4>1. trans_id \in 1..Len(returned) /\ returned[trans_id] = trans_id
          BY <1>3, <2>1, <2>2, <3>2
        <4> QED
          BY <4>1 DEF DoneSet
      <3> QED
        BY <3>1, <3>2
    <2>4. Ahead = {} /\ Behind(served, dmaq) = {}
      <3>1. ASSUME NEW x \in Ahead \union Behind(served, dmaq) PROVE FALSE
        <4>1. x = trans_id
          BY <2>2
        <4>2. trans_id < x
          BY <1>10, <2>3 DEF Stages, Below, Ahead, Behind
        <4> QED
          BY <1>3, <4>1, <4>2
      <3> QED
        BY <3>1
    <2>5. /\ Ahead' = {} /\ Behind(served, dmaq)' \subseteq {t}
          /\ (Behind(served, dmaq)' # {} => ioctbuf' = t)
      BY <1>2, <1>4, <1>6, <2>4 DEF Ahead, Behind
    <2>6. OwnCalls(Ahead, Behind(served, dmaq), served)'
      <3>1. Len(executed) = t - 1
        BY <1>3, <2>2
      <3> QED
        BY <1>2, <2>2, <2>5, <3>1 DEF OwnCalls
    <2> QED
      BY <2>1, <2>6
  <1> QED
    BY <1>5, <1>7, <1>8, <1>9, <1>11, <1>12 DEF IInv

(* Nothing moves: only the caller goes on.                                 *)
LEMMA WaitKeeps ==
  ASSUME IInv, PostDone \/ Expire
  PROVE  IInv'
  <1>1. /\ TypeInv /\ CallInv /\ BufInv /\ NoLockout /\ SurplusBounded
        /\ OrderInv /\ OwnInv
    BY DEF IInv
  <1>2. /\ hpc \in {"post", "wait"} /\ hpc' \in {"wait", "timed"}
        /\ nomem' \in 0..MaxNoMem
        /\ cur_posted' = cur_posted /\ held' = held /\ h2d' = h2d
        /\ trans_id' = trans_id /\ ioctbuf' = ioctbuf /\ rxlen' = rxlen
        /\ returned' = returned /\ dmaq' = dmaq /\ pool' = pool
        /\ served' = served /\ executed' = executed /\ cpl' = cpl
        /\ landed' = landed /\ others' = others /\ seen' = seen
    <2>1. nomem \in 0..MaxNoMem /\ MaxNoMem \in Nat
      BY <1>1, IoctlAssumption DEF TypeInv
    <2>2. CASE PostDone
      <3>1. nomem' = nomem \/ (nomem < MaxNoMem /\ nomem' = nomem + 1)
        BY <2>2 DEF PostDone
      <3>2. nomem' \in 0..MaxNoMem
        BY <2>1, <3>1
      <3> QED
        BY <2>2, <3>2 DEF PostDone, dongleVars, cplVars
    <2>3. CASE Expire
      BY <2>1, <2>3 DEF Expire, dongleVars, cplVars
    <2> QED
      BY <2>2, <2>3
  <1>3. /\ Coming' = Coming /\ BufGot' = BufGot /\ DoneSet' = DoneSet
        /\ GotSet' = GotSet /\ Failures' = Failures /\ (Fine' => Fine)
        /\ CtrlSpace' = CtrlSpace
    BY <1>2 DEF Coming, BufGot, DoneSet, GotSet, Failures, Fine, CtrlSpace
  <1>4. TypeInv'
    BY <1>1, <1>2, <1>3 DEF TypeInv
  <1>5. CallInv' /\ NoLockout' /\ SurplusBounded' /\ BufInv'
    BY <1>1, <1>2, <1>3 DEF CallInv, NoLockout, SurplusBounded, BufInv
  <1>6. OrderInv'
    BY <1>1, <1>2, <1>3 DEF OrderInv
  <1>7. OwnInv'
    BY <1>1, <1>2, <1>3 DEF OwnInv, OwnCalls, Ahead, Behind
  <1> QED
    BY <1>4, <1>5, <1>6, <1>7 DEF IInv

(* A call returns: the answer it has got, or a failure.                    *)
LEMMA ReturnKeeps ==
  ASSUME IInv, Answered \/ Fail
  PROVE  IInv'
  <1>1. /\ TypeInv /\ CallInv /\ BufInv /\ NoLockout /\ SurplusBounded
        /\ OrderInv /\ OwnInv
    BY DEF IInv
  <1> DEFINE a == IF hpc = "wait" THEN rxlen ELSE 0
  <1>2. /\ hpc \in {"wait", "timed"} /\ hpc' = "idle" /\ rxlen' = 0
        /\ returned' = Append(returned, a)
        /\ \/ hpc = "wait" /\ rxlen # 0 /\ held' = held - 1
           \/ hpc = "timed" /\ held' = held
        /\ nomem' = nomem /\ cur_posted' = cur_posted /\ h2d' = h2d
        /\ trans_id' = trans_id /\ ioctbuf' = ioctbuf
        /\ dmaq' = dmaq /\ pool' = pool
        /\ served' = served /\ executed' = executed /\ cpl' = cpl
        /\ landed' = landed /\ others' = others /\ seen' = seen
    BY DEF Answered, Fail, TakeAnswer, dongleVars, cplVars
  <1>3. a \in 0..MaxCalls /\ returned \in Seq(0..MaxCalls) /\ MaxCalls \in Nat
    BY <1>1, IoctlAssumption DEF TypeInv
  <1>4. (hpc = "wait" => a = rxlen /\ a # 0) /\ (hpc = "timed" => a = 0)
    BY <1>2
  <1> HIDE DEF a
  <1>5. /\ returned' \in Seq(0..MaxCalls) /\ Len(returned') = Len(returned) + 1
        /\ Len(returned) \in Nat
        /\ returned'[Len(returned) + 1] = a
        /\ \A i \in 1..Len(returned) : returned'[i] = returned[i]
    BY <1>2, <1>3
  <1>6. /\ Coming' = Coming /\ BufGot' = 0 /\ GotSet' = {} /\ CtrlSpace' = CtrlSpace
    BY <1>2 DEF Coming, BufGot, GotSet, CtrlSpace
  <1>7. Failures' = Failures + (IF a = 0 THEN 1 ELSE 0) /\ Failures \in Nat
    <2>1. CountOf(Append(returned, a), {0}) = Failures + IF a = 0 THEN 1 ELSE 0
      BY <1>1, <1>3, FailuresNat
    <2>2. Failures' = CountOf(Append(returned, a), {0})
      BY <1>2 DEF Failures
    <2>3. Failures \in Nat
      BY <1>1, FailuresNat
    <2> QED
      BY ONLY <2>1, <2>2, <2>3
  <1>8. DoneSet' = DoneSet \union {a}
    <2>1. Len(returned) + 1 \in 1..Len(returned')
      BY <1>5
    <2>2. \A i \in 1..Len(returned') : i \in 1..Len(returned) \/ i = Len(returned) + 1
      BY <1>5
    <2>3. \A i \in 1..Len(returned) : i \in 1..Len(returned')
      BY <1>5
    <2>4. DoneSet' \subseteq DoneSet \union {a}
      BY <1>5, <2>2 DEF DoneSet
    <2>5. a \in DoneSet'
      BY <1>5, <2>1 DEF DoneSet
    <2>6. DoneSet \subseteq DoneSet'
      BY <1>5, <2>3 DEF DoneSet
    <2> QED
      BY <2>4, <2>5, <2>6
  <1>9. TypeInv'
    <2>1. held' \in Int /\ rxlen' \in 0..MaxCalls /\ hpc' \in {"idle", "post", "wait", "timed"}
      BY <1>1, <1>2, <1>3 DEF TypeInv
    <2> QED
      BY <1>1, <1>2, <1>5, <1>6, <2>1 DEF TypeInv
  <1>10. CallInv'
    <2>1. Len(returned) = trans_id - 1 /\ trans_id \in Int
      BY <1>1, <1>2, <1>3 DEF CallInv, TypeInv
    <2> QED
      BY <1>2, <1>5, <2>1 DEF CallInv
  <1>11. NoLockout'
    BY <1>1, <1>2 DEF NoLockout
  <1>12. BufInv'
    <2>1. BufsOf(h2d) + BufsIn(dmaq) + pool + CountOf(Coming, Answers) + BufGot <= held
      BY <1>1 DEF BufInv
    <2>2. /\ BufsOf(h2d) \in Nat /\ BufsIn(dmaq) \in Nat /\ pool \in Nat
          /\ CountOf(Coming, Answers) \in Nat /\ BufGot \in Nat /\ held \in Int
      BY <1>1, BufsAre
    <2>3. /\ h2d' = h2d /\ dmaq' = dmaq /\ pool' = pool
          /\ Coming' = Coming /\ BufGot' = 0
          /\ held' >= held - BufGot /\ held' \in Int
      BY <1>2, <1>6, <2>2 DEF BufGot
    <2> QED
      BY ONLY <2>1, <2>2, <2>3 DEF BufInv
  <1>13. SurplusBounded'
    <2>1. cur_posted \in Nat /\ held \in Int
      BY <1>1, IoctlAssumption DEF TypeInv
    <2>2. held <= cur_posted + Failures + 1
      BY <1>1, <1>2 DEF SurplusBounded
    <2>3. held' <= cur_posted + Failures'
      BY <1>2, <1>4, <1>7, <2>1, <2>2
    <2> QED
      BY <1>2, <1>7, <2>1, <2>3 DEF SurplusBounded
  <1>14. OrderInv'
    <2>1. Stages(DoneSet, GotSet, Calls(Coming), ServedSet(served), CallsIn(dmaq),
                 Calls(h2d), trans_id)
      BY <1>1 DEF OrderInv
    <2>2. {a} \subseteq DoneSet \/ {a} = GotSet
      BY <1>2, <1>4 DEF DoneSet, GotSet
    <2>3. DoneSet' = DoneSet \/ DoneSet' = DoneSet \union GotSet
      BY <1>8, <2>2
    <2>4. Stages(DoneSet', {}, Calls(Coming), ServedSet(served), CallsIn(dmaq),
                 Calls(h2d), trans_id)
      <3>1. CASE DoneSet' = DoneSet
        BY <2>1, <3>1, StagesReturn
      <3>2. CASE DoneSet' = DoneSet \union GotSet
        BY <2>1, <3>2, StagesReturn
      <3> QED
        BY <2>3, <3>1, <3>2
    <2> QED
      BY <1>1, <1>2, <1>6, <2>4 DEF OrderInv
  <1>15. OwnInv'
    <2> SUFFICES ASSUME Fine'
                 PROVE  /\ \A i \in 1..Len(returned') : returned'[i] = i
                        /\ \A i \in 1..Len(executed) : executed[i] = <<i, i>>
                        /\ OwnCalls(Ahead, Behind(served, dmaq), served)'
      BY <1>2 DEF OwnInv
    <2>1. a # 0 /\ hpc = "wait" /\ Fine
      BY <1>2, <1>4, <1>7 DEF Fine
    <2>2. /\ \A i \in 1..Len(returned) : returned[i] = i
          /\ \A i \in 1..Len(executed) : executed[i] = <<i, i>>
          /\ OwnCalls(Ahead, Behind(served, dmaq), served)
      BY <1>1, <2>1 DEF OwnInv
    <2>3. a \in Ahead
      BY <1>4, <2>1 DEF Ahead, GotSet
    <2>4. a = trans_id /\ Len(executed) = trans_id
      BY <2>2, <2>3 DEF OwnCalls
    <2>5. Len(returned) + 1 = trans_id
      BY <1>1, <1>3, <1>5, <2>1 DEF CallInv, TypeInv
    <2>6. \A i \in 1..Len(returned') : returned'[i] = i
      <3>1. \A i \in 1..Len(returned') : i \in 1..Len(returned) \/ i = Len(returned) + 1
        BY <1>5
      <3> QED
        BY <1>5, <2>2, <2>4, <2>5, <3>1
    <2>7. OwnCalls(Ahead, Behind(served, dmaq), served)'
      <3>1. Ahead' \subseteq Ahead /\ Behind(served, dmaq)' = Behind(served, dmaq)
        BY <1>2, <1>6 DEF Ahead, Behind
      <3> QED
        BY <1>2, <2>2, <2>4, <3>1 DEF OwnCalls
    <2> QED
      BY <2>2, <2>6, <2>7
  <1> QED
    BY <1>9, <1>10, <1>11, <1>12, <1>13, <1>14, <1>15 DEF IInv

(* The host reads a completion, or gives back the slots of those it read.  *)
LEMMA ReadCplKeeps ==
  ASSUME IInv, ReadCpl
  PROVE  IInv'
  <1> DEFINE m == cpl[seen + 1]
  <1>1. /\ TypeInv /\ CallInv /\ BufInv /\ NoLockout /\ SurplusBounded
        /\ OrderInv /\ OwnInv
    BY DEF IInv
  <1>2. /\ seen < landed /\ seen' = seen + 1
        /\ rxlen' = (IF m.kind = "answer" THEN m.trans ELSE rxlen)
        /\ hpc' = hpc /\ held' = held /\ returned' = returned
        /\ nomem' = nomem /\ cur_posted' = cur_posted /\ h2d' = h2d
        /\ trans_id' = trans_id /\ ioctbuf' = ioctbuf
        /\ dmaq' = dmaq /\ pool' = pool
        /\ served' = served /\ executed' = executed /\ cpl' = cpl
        /\ landed' = landed /\ others' = others
    BY DEF ReadCpl, hostVars, dongleVars, cplVars
  <1>3. /\ cpl \in Seq(CplMsg) /\ Len(cpl) \in Nat /\ landed \in 0..Len(cpl)
        /\ seen \in 0..landed /\ rxlen \in 0..MaxCalls /\ MaxCalls \in Nat
    BY <1>1, IoctlAssumption DEF TypeInv
  <1>4. /\ seen + 1 \in 1..Len(cpl) /\ m \in CplMsg
        /\ seen + 1 \in 0..landed
    BY <1>2, <1>3
  <1> HIDE DEF m
  <1>5. /\ Coming \in Seq(CplMsg) /\ Coming # <<>> /\ Coming[1] = m
        /\ Tail(Coming) = Coming'
    <2>1. Coming = SubSeq(cpl, seen + 1, Len(cpl))
      BY DEF Coming, Rest
    <2>2. Coming' = SubSeq(cpl, seen + 2, Len(cpl))
      <3>1. Coming' = SubSeq(cpl', seen' + 1, Len(cpl'))
        BY DEF Coming, Rest
      <3>2. (seen + 1) + 1 = seen + 2
        BY <1>3
      <3> QED
        BY ONLY <1>2, <3>1, <3>2
    <2>3. seen \in 0..Len(cpl)-1
      BY ONLY <1>3, <1>4
    <2>4. /\ Coming \in Seq(CplMsg) /\ Coming # <<>> /\ Coming[1] = cpl[seen+1]
          /\ Tail(Coming) = SubSeq(cpl, seen + 2, Len(cpl))
      BY ONLY <1>3, <2>1, <2>3, RestTail
    <2> QED
      BY ONLY <2>2, <2>4 DEF m
  <1> DEFINE C2 == Calls(Coming')
  <1>6. CountOf(Coming, Answers)
          = (IF m \in Answers THEN 1 ELSE 0) + CountOf(Coming', Answers)
    BY ONLY <1>5, CountTail
  <1>7. /\ Carries(m) => Calls(Coming) = C2 \union {m.trans}
        /\ ~Carries(m) => Calls(Coming) = C2
        /\ Rising(Coming) => /\ Rising(Coming')
                             /\ Carries(m) => Below({m.trans}, C2)
    BY ONLY <1>5, CallsTail
  <1>8. \/ /\ m.kind # "answer" /\ ~Carries(m) /\ m \notin Answers
           /\ rxlen' = rxlen
        \/ /\ m.kind = "answer" /\ Carries(m) /\ m \in Answers
           /\ m.trans \in 1..MaxCalls /\ rxlen' = m.trans
    BY <1>2, <1>4, CplMsgIs
  <1>9. /\ DoneSet' = DoneSet /\ Failures' = Failures /\ Fine' = Fine
        /\ CtrlSpace' = CtrlSpace
    BY <1>2 DEF DoneSet, Failures, Fine, CtrlSpace
  <1>10. Stages(DoneSet, GotSet, Calls(Coming), ServedSet(served), CallsIn(dmaq),
                Calls(h2d), trans_id)
    BY <1>1 DEF OrderInv
  <1>11. TypeInv'
    BY <1>1, <1>2, <1>3, <1>4, <1>8, <1>9 DEF TypeInv
  <1>12. CallInv' /\ NoLockout' /\ SurplusBounded'
    BY <1>1, <1>2, <1>9 DEF CallInv, NoLockout, SurplusBounded
  <1>13. BufInv'
    <2>1. BufsOf(h2d) + BufsIn(dmaq) + pool + CountOf(Coming, Answers) + BufGot <= held
      BY <1>1 DEF BufInv
    <2>2. /\ BufsOf(h2d) \in Nat /\ BufsIn(dmaq) \in Nat /\ pool \in Nat
          /\ CountOf(Coming, Answers) \in Nat /\ BufGot \in Nat /\ held \in Int
      BY <1>1, BufsAre
    <2>3. Coming' \in Seq(CplMsg)
      BY <1>11, BufsAre, <1>5
    <2>4. CountOf(Coming', Answers) \in Nat
      BY ONLY <2>3, CountNat
    <2>5. CountOf(Coming', Answers) + BufGot' <= CountOf(Coming, Answers) + BufGot
      BY <1>3, <1>6, <1>8, <2>2, <2>4 DEF BufGot
    <2>6. BufGot' \in Nat /\ h2d' = h2d /\ dmaq' = dmaq /\ pool' = pool /\ held' = held
      BY <1>2 DEF BufGot
    <2> QED
      BY ONLY <2>1, <2>2, <2>4, <2>5, <2>6 DEF BufInv
  <1>14. OrderInv'
    <2>1. CASE m.kind # "answer" /\ ~Carries(m) /\ m \notin Answers /\ rxlen' = rxlen
      BY <1>1, <1>2, <1>7, <1>9, <2>1 DEF OrderInv, GotSet
    <2>2. CASE /\ m.kind = "answer" /\ Carries(m) /\ m \in Answers
               /\ m.trans \in 1..MaxCalls /\ rxlen' = m.trans
      <3>1. GotSet' = {m.trans}
        BY <2>2 DEF GotSet
      <3>2. Calls(Coming) = C2 \union {m.trans} /\ Below({m.trans}, C2) /\ Rising(Coming')
        BY <1>1, <1>7, <2>2 DEF OrderInv
      <3>3. Stages(DoneSet, {m.trans}, C2, ServedSet(served), CallsIn(dmaq),
                   Calls(h2d), trans_id)
        BY ONLY <1>10, <3>2, StagesGet
      <3> QED
        BY <1>1, <1>2, <1>9, <3>1, <3>2, <3>3 DEF OrderInv
    <2> QED
      BY <1>8, <2>1, <2>2
  <1>15. OwnInv'
    <2>1. Ahead' \subseteq Ahead
      BY <1>7, <1>8 DEF Ahead, GotSet
    <2>2. Behind(served, dmaq)' = Behind(served, dmaq)
      BY <1>2 DEF Behind
    <2> QED
      BY <1>1, <1>2, <1>9, <2>1, <2>2 DEF OwnInv, OwnCalls
  <1> QED
    BY <1>11, <1>12, <1>13, <1>14, <1>15 DEF IInv

LEMMA UpdReadIdxKeeps ==
  ASSUME IInv, UpdReadIdx
  PROVE  IInv'
  <1>1. /\ TypeInv /\ CallInv /\ BufInv /\ NoLockout /\ SurplusBounded
        /\ OrderInv /\ OwnInv
    BY DEF IInv
  <1>2. /\ cpl' = SubSeq(cpl, seen + 1, Len(cpl)) /\ landed' = landed - seen
        /\ seen' = 0 /\ rxlen' = rxlen
        /\ hpc' = hpc /\ held' = held /\ returned' = returned
        /\ nomem' = nomem /\ cur_posted' = cur_posted /\ h2d' = h2d
        /\ trans_id' = trans_id /\ ioctbuf' = ioctbuf
        /\ dmaq' = dmaq /\ pool' = pool
        /\ served' = served /\ executed' = executed /\ others' = others
    BY DEF UpdReadIdx, hostVars, dongleVars
  <1>3. /\ cpl \in Seq(CplMsg) /\ Len(cpl) \in Nat /\ landed \in 0..Len(cpl)
        /\ seen \in 0..landed /\ Len(cpl) <= CplSlots /\ CplSlots \in Nat
    BY <1>1, IoctlAssumption DEF TypeInv
  <1>4. /\ cpl' \in Seq(CplMsg) /\ Len(cpl') = Len(cpl) - seen
    BY <1>2, <1>3, SubSeqProperties
  <1>5. Coming' = Coming
    <2>1. Coming' = SubSeq(cpl', 1, Len(cpl')) /\ Coming = cpl'
      BY <1>2 DEF Coming, Rest
    <2>2. SubSeq(cpl', 1, Len(cpl')) = cpl'
      BY <1>4
    <2> QED
      BY <2>1, <2>2
  <1>6. /\ DoneSet' = DoneSet /\ Failures' = Failures /\ Fine' = Fine
        /\ CtrlSpace' = CtrlSpace /\ GotSet' = GotSet /\ BufGot' = BufGot
    BY <1>2 DEF DoneSet, Failures, Fine, CtrlSpace, GotSet, BufGot
  <1>7. TypeInv'
    <2>1. Len(cpl') <= CplSlots /\ landed' \in 0..Len(cpl') /\ seen' \in 0..landed'
      BY <1>2, <1>3, <1>4
    <2> QED
      BY <1>1, <1>2, <1>4, <1>6, <2>1 DEF TypeInv
  <1>8. CallInv' /\ NoLockout' /\ SurplusBounded' /\ BufInv'
    BY <1>1, <1>2, <1>5, <1>6 DEF CallInv, NoLockout, SurplusBounded, BufInv
  <1>9. OrderInv'
    BY <1>1, <1>2, <1>5, <1>6 DEF OrderInv
  <1>10. OwnInv'
    BY <1>1, <1>2, <1>5, <1>6 DEF OwnInv, OwnCalls, Ahead, Behind
  <1> QED
    BY <1>7, <1>8, <1>9, <1>10 DEF IInv

(* Another completion is a note behind the others.                         *)
LEMMA SendOtherKeeps ==
  ASSUME IInv, SendOther
  PROVE  IInv'
  <1>1. /\ TypeInv /\ CallInv /\ BufInv /\ NoLockout /\ SurplusBounded
        /\ OrderInv /\ OwnInv
    BY DEF IInv
  <1>2. /\ cpl' = Append(cpl, Note) /\ Len(cpl) < CplSlots
        /\ others < MaxOther /\ others' = others + 1
        /\ seen' = seen /\ rxlen' = rxlen /\ landed' = landed
        /\ hpc' = hpc /\ held' = held /\ returned' = returned
        /\ nomem' = nomem /\ cur_posted' = cur_posted /\ h2d' = h2d
        /\ trans_id' = trans_id /\ ioctbuf' = ioctbuf
        /\ dmaq' = dmaq /\ pool' = pool
        /\ served' = served /\ executed' = executed
    BY DEF SendOther, hostVars, dongleVars
  <1>3. Same(Append(cpl, Note))
    BY <1>1, <1>2, SameCpl, NoteSame, IoctlAssumption DEF OrderInv
  <1>4. /\ cpl' \in Seq(CplMsg) /\ Len(cpl') <= CplSlots /\ Len(cpl) <= Len(cpl')
        /\ CountOf(Coming', Answers) = CountOf(Coming, Answers)
        /\ Calls(Coming') = Calls(Coming) /\ Rising(Coming')
    BY <1>2, <1>3 DEF Same, Coming
  <1>5. /\ DoneSet' = DoneSet /\ Failures' = Failures /\ Fine' = Fine
        /\ CtrlSpace' = CtrlSpace /\ GotSet' = GotSet /\ BufGot' = BufGot
    BY <1>2 DEF DoneSet, Failures, Fine, CtrlSpace, GotSet, BufGot
  <1>6. TypeInv'
    <2>1. /\ Len(cpl) \in Nat /\ landed \in 0..Len(cpl) /\ Len(cpl') \in Nat
          /\ others \in 0..MaxOther /\ MaxOther \in Nat
      <3>1. cpl \in Seq(CplMsg) /\ landed \in 0..Len(cpl) /\ others \in 0..MaxOther
        BY <1>1 DEF TypeInv
      <3> QED
        BY <1>4, <3>1, IoctlAssumption
    <2>2. landed' \in 0..Len(cpl') /\ others' \in 0..MaxOther
      BY <1>2, <1>4, <2>1
    <2> QED
      BY <1>1, <1>2, <1>4, <1>5, <2>2 DEF TypeInv
  <1>7. CallInv' /\ NoLockout' /\ SurplusBounded'
    BY <1>1, <1>2, <1>5 DEF CallInv, NoLockout, SurplusBounded
  <1>8. BufInv'
    <2>1. /\ h2d' = h2d /\ dmaq' = dmaq /\ pool' = pool /\ held' = held
          /\ CountOf(Coming', Answers) = CountOf(Coming, Answers) /\ BufGot' = BufGot
      BY <1>2, <1>4, <1>5
    <2>2. BufsOf(h2d) + BufsIn(dmaq) + pool + CountOf(Coming, Answers) + BufGot <= held
      BY <1>1 DEF BufInv
    <2> QED
      BY ONLY <2>1, <2>2 DEF BufInv
  <1>9. OrderInv'
    BY <1>1, <1>2, <1>4, <1>5 DEF OrderInv
  <1>10. OwnInv'
    BY <1>1, <1>2, <1>4, <1>5 DEF OwnInv, OwnCalls, Ahead, Behind
  <1> QED
    BY <1>6, <1>7, <1>8, <1>9, <1>10 DEF IInv

(* A block goes from the ring to the dongle.                               *)
LEMMA ScanKeeps ==
  ASSUME IInv, Scan
  PROVE  IInv'
  <1>1. /\ TypeInv /\ CallInv /\ BufInv /\ NoLockout /\ SurplusBounded
        /\ OrderInv /\ OwnInv
    BY DEF IInv
  <1>2. /\ cpl' = cpl /\ others' = others
        /\ seen' = seen /\ rxlen' = rxlen /\ landed' = landed
        /\ hpc' = hpc /\ held' = held /\ returned' = returned
        /\ nomem' = nomem /\ cur_posted' = cur_posted
        /\ trans_id' = trans_id /\ ioctbuf' = ioctbuf /\ pool' = pool
        /\ served' = served /\ executed' = executed
    BY DEF Scan, hostVars, cplVars
  <1>3. PICK k \in 1..ItemCnt :
          /\ k <= Len(h2d)
          /\ dmaq' = Append(dmaq, SubSeq(h2d, 1, k))
          /\ h2d' = SubSeq(h2d, k + 1, Len(h2d))
    BY DEF Scan
  <1> DEFINE b == SubSeq(h2d, 1, k)
             r == SubSeq(h2d, k + 1, Len(h2d))
  <1>4. /\ h2d \in Seq(CtrlMsg) /\ dmaq \in Seq(Seq(CtrlMsg)) /\ k \in 0..Len(h2d)
        /\ Len(h2d) \in Nat
    BY <1>1, <1>3, IoctlAssumption DEF TypeInv
  <1>5. /\ b \in Seq(CtrlMsg) /\ Len(b) = k
        /\ r \in Seq(CtrlMsg) /\ Len(r) = Len(h2d) - k
    BY <1>4, SubSeqProperties
  <1>6. BufsOf(h2d) = BufsOf(b) + BufsOf(r)
    BY ONLY <1>4, CountSplit DEF BufsOf
  <1>7. /\ Calls(h2d) = Calls(b) \union Calls(r)
        /\ Rising(h2d) => Rising(b) /\ Rising(r) /\ Below(Calls(b), Calls(r))
    BY ONLY <1>4, CallsSplit
  <1>8. dmaq' = Append(dmaq, b) /\ h2d' = r
    BY <1>3
  <1> HIDE DEF b, r
  <1>9. /\ SlotsIn(Append(dmaq, b)) = SlotsIn(dmaq) + Len(b)
        /\ BufsIn(Append(dmaq, b)) = BufsIn(dmaq) + BufsOf(b)
        /\ SlotsIn(dmaq) \in Nat /\ BufsIn(dmaq) \in Nat
    BY ONLY <1>4, <1>5, SumsAppend
  <1>10. /\ CallsIn(Append(dmaq, b)) = CallsIn(dmaq) \union Calls(b)
         /\ RisingIn(dmaq) /\ Rising(b) /\ Below(CallsIn(dmaq), Calls(b))
              => RisingIn(Append(dmaq, b))
    BY ONLY <1>4, <1>5, BlocksAppend
  <1>11. /\ DoneSet' = DoneSet /\ Failures' = Failures /\ Fine' = Fine
         /\ GotSet' = GotSet /\ BufGot' = BufGot /\ Coming' = Coming
    BY <1>2 DEF DoneSet, Failures, Fine, GotSet, BufGot, Coming
  <1>12. TypeInv'
    <2>1. CtrlSpace' >= 0
      <3>1. CtrlSpace = CtrlSlots - Len(h2d) - SlotsIn(dmaq) /\ CtrlSpace >= 0
        BY <1>1 DEF TypeInv, CtrlSpace, SlotsIn
      <3>2. CtrlSpace' = CtrlSlots - Len(r) - SlotsIn(Append(dmaq, b))
        BY ONLY <1>8 DEF CtrlSpace, SlotsIn
      <3>3. CtrlSlots \in Nat
        BY IoctlAssumption
      <3> QED
        BY <1>4, <1>5, <1>9, <3>1, <3>2, <3>3
    <2>2. h2d' \in Seq(CtrlMsg) /\ dmaq' \in Seq(Seq(CtrlMsg))
      BY <1>4, <1>5, <1>8
    <2> QED
      BY <1>1, <1>2, <2>1, <2>2 DEF TypeInv
  <1>13. CallInv' /\ NoLockout' /\ SurplusBounded'
    BY <1>1, <1>2, <1>11 DEF CallInv, NoLockout, SurplusBounded
  <1>14. BufInv'
    <2>1. BufsOf(h2d) + BufsIn(dmaq) + pool + CountOf(Coming, Answers) + BufGot <= held
      BY <1>1 DEF BufInv
    <2>2. /\ BufsIn(dmaq) \in Nat /\ pool \in Nat
          /\ CountOf(Coming, Answers) \in Nat /\ BufGot \in Nat /\ held \in Int
      BY <1>1, BufsAre
    <2>3. BufsOf(b) \in Nat /\ BufsOf(r) \in Nat
      BY <1>5, CountNat DEF BufsOf
    <2>4. /\ BufsOf(h2d)' = BufsOf(r) /\ BufsIn(dmaq)' = BufsIn(dmaq) + BufsOf(b)
          /\ pool' = pool /\ Coming' = Coming /\ BufGot' = BufGot /\ held' = held
      BY <1>2, <1>8, <1>9, <1>11
    <2> QED
      BY ONLY <1>6, <2>1, <2>2, <2>3, <2>4 DEF BufInv
  <1>15. /\ Stages(DoneSet, GotSet, Calls(Coming), ServedSet(served),
                   CallsIn(dmaq) \union Calls(b), Calls(r), trans_id)
         /\ Below(CallsIn(dmaq), Calls(b))
    <2>1. Stages(DoneSet, GotSet, Calls(Coming), ServedSet(served), CallsIn(dmaq),
                 Calls(h2d), trans_id)
      BY <1>1 DEF OrderInv
    <2>2. Calls(h2d) = Calls(b) \union Calls(r) /\ Below(Calls(b), Calls(r))
      BY <1>1, <1>7 DEF OrderInv
    <2> QED
      BY ONLY <2>1, <2>2, StagesFetch
  <1>16. OrderInv'
    <2>1. Rising(h2d)' /\ RisingIn(dmaq)' /\ Rising(Coming)'
      BY <1>1, <1>7, <1>8, <1>10, <1>11, <1>15 DEF OrderInv
    <2> QED
      BY <1>2, <1>8, <1>10, <1>11, <1>15, <2>1 DEF OrderInv
  <1>17. OwnInv'
    <2>1. Behind(served, dmaq)' = Behind(served, dmaq) /\ Ahead' = Ahead
      BY <1>2, <1>7, <1>8, <1>10, <1>11 DEF Behind, Ahead
    <2> QED
      BY <1>1, <1>2, <1>11, <2>1 DEF OwnInv, OwnCalls
  <1> QED
    BY <1>12, <1>13, <1>14, <1>16, <1>17 DEF IInv

-----------------------------------------------------------------------------
(* The theorems.                                                           *)

LEMMA InitIInv ==
  ASSUME Init
  PROVE  IInv
  <1>1. /\ hpc = "idle" /\ trans_id = 0 /\ ioctbuf = 0 /\ rxlen = 0
        /\ cur_posted = MaxPost /\ held = MaxPost
        /\ nomem = 0 /\ returned = <<>>
        /\ h2d = [i \in 1..MaxPost |-> Buf]
        /\ dmaq = <<>> /\ pool = 0 /\ served = NotServed /\ executed = <<>>
        /\ cpl = <<>> /\ landed = 0 /\ seen = 0 /\ others = 0
    BY DEF Init
  <1>2. /\ MaxPost \in Nat /\ PoolMax \in Nat /\ CtrlSlots \in Nat
        /\ CtrlSlots > MaxPost /\ CplSlots \in Nat /\ MaxCalls \in Nat
        /\ MaxNoMem \in Nat /\ MaxOther \in Nat
    BY IoctlAssumption
  <1>3. /\ served \in ServedType /\ served.phase = "none"
    BY <1>1, <1>2 DEF NotServed, ServedType
  <1>4. h2d \in Seq(CtrlMsg) /\ Len(h2d) = MaxPost /\ \A i \in 1..MaxPost : h2d[i] = Buf
    BY <1>1, <1>2, NewMsgs
  <1>5. /\ SlotsIn(dmaq) = 0 /\ BufsIn(dmaq) = 0 /\ CallsIn(dmaq) = {}
        /\ RisingIn(dmaq) /\ dmaq \in Seq(Seq(CtrlMsg))
    <2>1. SlotsIn(dmaq) = 0 /\ BufsIn(dmaq) = 0 /\ CallsIn(dmaq) = {} /\ RisingIn(dmaq)
      BY ONLY <1>1, NoBlocks
    <2> QED
      BY <1>1, <2>1
  <1>6. Coming = <<>>
    BY <1>1 DEF Coming, Rest
  <1>7. Calls(Coming) = {} /\ Rising(Coming) /\ CountOf(Coming, Answers) = 0
    <2>1. Len(Coming) = 0
      BY <1>6
    <2>2. CountOf(Coming, Answers) = 0
      BY ONLY <1>6, CountEmpty
    <2> QED
      BY <2>1, <2>2 DEF Calls, Rising
  <1>8. Calls(h2d) = {} /\ Rising(h2d)
    <2>1. ~Carries(Buf)
      BY DEF Carries, Buf
    <2> QED
      BY <1>4, <2>1 DEF Calls, Rising
  <1>9. BufsOf(h2d) <= MaxPost
    <2> DEFINE s == [i \in 1..MaxPost |-> Buf]
               o == Ones(s, {Buf})
               f == [k \in 0..MaxPost |-> k]
    <2>1. s \in Seq(CtrlMsg) /\ Len(s) = MaxPost /\ \A i \in 1..MaxPost : s[i] = Buf
      BY <1>1, <1>4
    <2> HIDE DEF s
    <2>2. /\ o \in Seq(Nat) /\ Len(o) = MaxPost
          /\ \A k \in 1..MaxPost : o[k] = IF s[k] \in {Buf} THEN 1 ELSE 0
          /\ CountOf(s, {Buf}) = SumOf(o)
      BY <2>1, OnesSeq
    <2> HIDE DEF o
    <2>3. \A k \in 1..MaxPost : o[k] = 1
      BY <2>1, <2>2
    <2>4. Sums(o, MaxPost, f)
      BY <1>2, <2>3 DEF Sums
    <2>5. f[MaxPost] = MaxPost
      BY <1>2
    <2> HIDE DEF f
    <2>6. SumOf(o) = f[MaxPost]
      BY <2>2, <2>4, SumIs
    <2>7. CountOf(s, {Buf}) = MaxPost
      BY ONLY <2>2, <2>5, <2>6
    <2>8. h2d = s
      BY <1>1 DEF s
    <2> QED
      BY ONLY <1>2, <2>7, <2>8 DEF BufsOf
  <1>10. /\ DoneSet = {0} /\ GotSet = {} /\ BufGot = 0 /\ ServedSet(served) = {}
    <2>1. Len(returned) = 0
      BY <1>1
    <2> QED
      BY <1>1, <1>3, <2>1 DEF DoneSet, GotSet, BufGot, ServedSet
  <1>11. TypeInv
    <2>1. CtrlSpace >= 0
      <3>1. CtrlSpace = CtrlSlots - Len(h2d) - SlotsIn(dmaq)
        BY DEF CtrlSpace, SlotsIn
      <3> QED
        BY <1>2, <1>4, <1>5, <3>1
    <2>2. /\ returned \in Seq(0..MaxCalls) /\ cpl \in Seq(CplMsg) /\ Len(cpl) = 0
          /\ executed \in Seq((1..MaxCalls) \X (0..MaxCalls))
      BY <1>1
    <2> QED
      BY <1>1, <1>2, <1>3, <1>4, <1>5, <2>1, <2>2 DEF TypeInv, ServedType
  <1>12. CallInv /\ NoLockout
    BY <1>1, <1>3 DEF CallInv, NoLockout
  <1>13. SurplusBounded
    <2>1. Failures \in Nat
      BY <1>11, FailuresNat
    <2> QED
      BY <1>1, <1>2, <2>1 DEF SurplusBounded
  <1>14. BufInv
    <2>1. BufsOf(h2d) \in Nat
      BY <1>11, BufsAre
    <2>2. pool = 0 /\ held = MaxPost
      BY <1>1
    <2> QED
      BY ONLY <1>2, <1>5, <1>7, <1>9, <1>10, <2>1, <2>2 DEF BufInv
  <1>15. OrderInv
    <2>1. trans_id = 0
      BY <1>1
    <2>2. Stages({0}, {}, {}, {}, {}, {}, 0)
      BY DEF Stages, Below
    <2> QED
      BY <1>5, <1>7, <1>8, <1>10, <2>1, <2>2 DEF OrderInv
  <1>16. OwnInv
    <2>1. Len(returned) = 0 /\ Len(executed) = 0 /\ trans_id = 0
      BY <1>1
    <2>2. Ahead = {} /\ Behind(served, dmaq) = {}
      BY <1>5, <1>7, <1>8, <1>10 DEF Ahead, Behind
    <2> QED
      BY <1>3, <2>1, <2>2 DEF OwnInv, OwnCalls
  <1> QED
    BY <1>11, <1>12, <1>13, <1>14, <1>15, <1>16 DEF IInv

LEMMA NextIInv ==
  ASSUME IInv, [Next]_vars
  PROVE  IInv'
  <1>1. ASSUME StartDma \/ UNCHANGED vars PROVE IInv'
    <2>1. /\ hpc' = hpc /\ trans_id' = trans_id /\ ioctbuf' = ioctbuf
          /\ cur_posted' = cur_posted /\ held' = held /\ nomem' = nomem
          /\ returned' = returned /\ rxlen' = rxlen /\ h2d' = h2d
          /\ dmaq' = dmaq /\ pool' = pool /\ served' = served
          /\ executed' = executed /\ cpl' = cpl /\ landed' = landed
          /\ others' = others /\ seen' = seen
      BY <1>1 DEF StartDma, vars, hostVars, dongleVars, cplVars
    <2>2. /\ Coming' = Coming /\ BufGot' = BufGot /\ DoneSet' = DoneSet
          /\ GotSet' = GotSet /\ Failures' = Failures /\ Fine' = Fine
          /\ CtrlSpace' = CtrlSpace
      BY <2>1 DEF Coming, BufGot, DoneSet, GotSet, Failures, Fine, CtrlSpace
    <2>3. TypeInv' /\ CallInv' /\ BufInv' /\ NoLockout' /\ SurplusBounded'
      BY <2>1, <2>2 DEF IInv, TypeInv, CallInv, BufInv, NoLockout, SurplusBounded
    <2>4. OrderInv' /\ OwnInv'
      BY <2>1, <2>2 DEF IInv, OrderInv, OwnInv, OwnCalls, Ahead, Behind
    <2> QED
      BY <2>3, <2>4 DEF IInv
  <1>2. ASSUME SendReq \/ PostBuf \/ PostDone \/ Answered \/ Expire \/ Fail
        PROVE  IInv'
    BY <1>2, SendReqKeeps, PostBufKeeps, WaitKeeps, ReturnKeeps
  <1>3. ASSUME ReadCpl \/ UpdReadIdx \/ Scan \/ HandleCtrl
        PROVE  IInv'
    BY <1>3, ReadCplKeeps, UpdReadIdxKeeps, ScanKeeps, HandleCtrlKeeps
  <1>4. ASSUME FetchDone \/ D2HDone \/ SendOther \/ OtherDma
        PROVE  IInv'
    BY <1>4, FetchDoneKeeps, D2HDoneKeeps, SendOtherKeeps, OtherDmaKeeps
  <1> QED
    BY <1>1, <1>2, <1>3, <1>4 DEF Next

(* Of numbers up to a bound, 0 among them, one is the greatest.            *)
LEMMA Greatest ==
  ASSUME NEW n \in Nat, NEW S \in SUBSET (0..n), 0 \in S
  PROVE  \E x \in S : \A y \in S : x >= y
  <1> DEFINE Has(k) == \A T \in SUBSET (0..k) :
                         0 \in T => \E x \in T : \A y \in T : x >= y
             Good == {k \in 0..n : Has(k)}
  <1>1. 0 \in Good
    OBVIOUS
  <1>2. ASSUME NEW k \in 0..n, k \in Good, k < n PROVE k + 1 \in Good
    <2>1. Has(k)
      BY <1>2
    <2>2. ASSUME NEW T \in SUBSET (0..k+1), 0 \in T
          PROVE  \E x \in T : \A y \in T : x >= y
      <3>1. CASE k + 1 \in T
        <4>1. \A y \in T : k + 1 >= y
          OBVIOUS
        <4> QED
          BY <3>1, <4>1
      <3>2. CASE k + 1 \notin T
        <4>1. T \in SUBSET (0..k)
          BY <3>2
        <4> QED
          BY <2>1, <2>2, <4>1
      <3> QED
        BY <3>1, <3>2
    <2>3. Has(k + 1)
      BY <2>2
    <2> HIDE DEF Has
    <2> QED
      BY <1>2, <2>3
  <1>3. \A k \in 0..n : k \in Good /\ k < n => k + 1 \in Good
    BY <1>2
  <1> HIDE DEF Good
  <1>4. n \in Good
    BY <1>1, <1>3, SetInduction
  <1> QED
    BY <1>4 DEF Good

(* The answer to return is later than every one returned.                  *)
LEMMA LastBelow ==
  ASSUME IInv
  PROVE  /\ IC!LastAnswered \in 0..trans_id
         /\ \A x \in GotSet : IC!LastAnswered < x /\ x \in 0..trans_id
  <1>1. Stages(DoneSet, GotSet, Calls(Coming), ServedSet(served), CallsIn(dmaq),
               Calls(h2d), trans_id)
    BY DEF IInv, OrderInv
  <1>2. trans_id \in Nat /\ returned \in Seq(0..MaxCalls)
    BY IoctlAssumption DEF IInv, TypeInv
  <1>3. DoneSet \in SUBSET (0..trans_id) /\ 0 \in DoneSet
    BY <1>1 DEF Stages
  <1>4. \E x \in DoneSet : \A y \in DoneSet : x >= y
    BY ONLY <1>2, <1>3, Greatest
  <1>5. IC!LastAnswered = CHOOSE x \in DoneSet : \A y \in DoneSet : x >= y
    <2>1. {0} \union {returned[i] : i \in DOMAIN returned} = DoneSet
      BY <1>2 DEF DoneSet
    <2> QED
      BY <2>1 DEF IC!LastAnswered, IC!Max
  <1>6. IC!LastAnswered \in DoneSet
    BY <1>4, <1>5
  <1> QED
    BY <1>1, <1>3, <1>6 DEF Stages, Below

LEMMA StepRefines ==
  ASSUME IInv, [Next]_vars
  PROVE  [IC!Next]_<<trans_id, returned>>
  <1>1. CallInv /\ TypeInv
    BY DEF IInv
  <1>2. Len(returned) \in Nat /\ trans_id \in Nat
    <2>1. returned \in Seq(0..MaxCalls)
      BY <1>1 DEF TypeInv
    <2> QED
      BY <1>1, <2>1, IoctlAssumption DEF TypeInv
  <1>3. CASE SendReq
    <2>1. hpc = "idle" /\ trans_id' = trans_id + 1 /\ returned' = returned
      BY <1>3 DEF SendReq
    <2>2. trans_id = Len(returned)
      BY <1>1, <2>1 DEF CallInv
    <2>3. IC!Ask
      BY <2>1, <2>2 DEF IC!Ask
    <2> QED
      BY <2>3 DEF IC!Next
  <1>4. CASE Answered
    <2>1. /\ hpc = "wait" /\ rxlen # 0 /\ returned' = Append(returned, rxlen)
          /\ trans_id' = trans_id
      BY <1>4 DEF Answered
    <2>2. trans_id = Len(returned) + 1
      BY <1>1, <1>2, <2>1 DEF CallInv
    <2>3. IC!LastAnswered \in 0..trans_id /\ IC!LastAnswered < rxlen /\ rxlen \in 0..trans_id
      BY <2>1, LastBelow DEF GotSet
    <2>4. rxlen \in (IC!LastAnswered + 1)..trans_id
      BY <1>2, <2>3
    <2>5. IC!Return
      BY <2>1, <2>2, <2>4 DEF IC!Return
    <2> QED
      BY <2>5 DEF IC!Next
  <1>5. CASE Fail
    <2>1. hpc = "timed" /\ returned' = Append(returned, 0) /\ trans_id' = trans_id
      BY <1>5 DEF Fail
    <2>2. trans_id = Len(returned) + 1
      BY <1>1, <1>2, <2>1 DEF CallInv
    <2>3. IC!Return
      BY <2>1, <2>2 DEF IC!Return
    <2> QED
      BY <2>3 DEF IC!Next
  <1>6. CASE PostBuf \/ PostDone \/ Expire
    BY <1>6 DEF PostBuf, PostDone, Expire
  <1>7. CASE ReadCpl \/ UpdReadIdx \/ Scan \/ HandleCtrl
    BY <1>7 DEF ReadCpl, UpdReadIdx, Scan, HandleCtrl, hostVars
  <1>8. CASE FetchDone \/ D2HDone \/ SendOther \/ OtherDma
    BY <1>8 DEF FetchDone, D2HDone, SendOther, OtherDma, hostVars
  <1>9. CASE UNCHANGED vars
    BY <1>9 DEF vars, hostVars
  <1>10. CASE StartDma
    BY <1>10 DEF StartDma, hostVars
  <1> QED
    BY <1>3, <1>4, <1>5, <1>6, <1>7, <1>8, <1>9, <1>10 DEF Next

(* The inductive invariant holds in every reachable state.                 *)
THEOREM Inductive == Spec => []IInv
  <1>1. Init => IInv
    BY InitIInv
  <1>2. IInv /\ [Next]_vars => IInv'
    BY NextIInv
  <1> QED
    BY <1>1, <1>2, PTL DEF Spec

(* The DMAs of the data path start and end one by one.                     *)
LEMMA DmasBounded == Spec => [](dmas \in 0..MaxDmas)
  <1>1. Init => dmas \in 0..MaxDmas
    BY IoctlAssumption DEF Init
  <1>2. dmas \in 0..MaxDmas /\ [Next]_vars => (dmas \in 0..MaxDmas)'
    <2>1. SUFFICES ASSUME dmas \in 0..MaxDmas, [Next]_vars
                   PROVE  dmas' \in 0..MaxDmas
      OBVIOUS
    <2>2. MaxDmas \in Nat
      BY IoctlAssumption
    <2>3. CASE SendReq \/ PostBuf \/ PostDone \/ Answered \/ Expire \/ Fail
      BY <2>1, <2>3 DEF SendReq, PostBuf, PostDone, Answered, Expire, Fail, dongleVars
    <2>4. CASE ReadCpl \/ UpdReadIdx \/ Scan \/ HandleCtrl
      BY <2>1, <2>4 DEF ReadCpl, UpdReadIdx, Scan, HandleCtrl, dongleVars
    <2>5. CASE FetchDone \/ D2HDone \/ SendOther \/ UNCHANGED vars
      BY <2>1, <2>5 DEF FetchDone, D2HDone, SendOther, vars, dongleVars
    <2>6. CASE StartDma
      BY <2>1, <2>2, <2>6 DEF StartDma
    <2>7. CASE OtherDma
      BY <2>1, <2>2, <2>7 DEF OtherDma
    <2> QED
      BY <2>1, <2>3, <2>4, <2>5, <2>6, <2>7 DEF Next
  <1> QED
    BY <1>1, <1>2, PTL DEF Spec

LEMMA IInvTypeOK ==
  ASSUME IInv, dmas \in 0..MaxDmas
  PROVE  TypeOK
  <1>1. TypeInv /\ CallInv
    BY DEF IInv
  <1>2. held \in Nat
    <2>1. BufsOf(h2d) + BufsIn(dmaq) + pool + CountOf(Coming, Answers) + BufGot <= held
      BY DEF IInv, BufInv
    <2>2. /\ BufsOf(h2d) \in Nat /\ BufsIn(dmaq) \in Nat /\ pool \in Nat
          /\ CountOf(Coming, Answers) \in Nat /\ BufGot \in Nat /\ held \in Int
      BY <1>1, BufsAre
    <2> QED
      BY ONLY <2>1, <2>2
  <1>3. Len(returned) <= trans_id
    <2>1. trans_id \in Nat
      BY <1>1, IoctlAssumption DEF TypeInv
    <2> QED
      BY <1>1, <2>1 DEF CallInv
  <1> QED
    BY <1>1, <1>2, <1>3 DEF TypeInv, TypeOK

(* Every variable keeps its range: no ring and no pool overflows           *)
(* (CtrlSpace, CplSlots, PoolMax) and the host never frees a response      *)
(* buffer that it does not hold (dhd_msgbuf.c, dhdmsgbuf_cmplt).           *)
THEOREM TypeCorrect == Spec => []TypeOK
  <1>1. IInv /\ dmas \in 0..MaxDmas => TypeOK
    BY IInvTypeOK
  <1> QED
    BY <1>1, Inductive, DmasBounded, PTL

(* While the dongle serves a request its pool holds a response buffer for  *)
(* the answer: nothing empties the pool between the check in               *)
(* pciedev_process_ioctlptr_rqst and the use of the buffer.                *)
THEOREM LockoutFree == Spec => []NoLockout
  <1>1. IInv => NoLockout
    BY DEF IInv
  <1> QED
    BY <1>1, Inductive, PTL

(* The host's count of posted response buffers misses at most one for each *)
(* failed call, and the one the current call waits for.                    *)
THEOREM SurplusSafe == Spec => []SurplusBounded
  <1>1. IInv => SurplusBounded
    BY DEF IInv
  <1> QED
    BY <1>1, Inductive, PTL

(* Until a call fails, each call returns the answer to its own request and *)
(* each command runs on its own arguments, although trans_id is compared   *)
(* on neither side and ioctbuf is shared.                                  *)
THEOREM OwnSafe == Spec => []OwnUntilFailure
  <1>1. ASSUME IInv PROVE OwnUntilFailure
    <2>1. /\ DOMAIN returned = 1..Len(returned)
          /\ DOMAIN executed = 1..Len(executed)
      BY DEF IInv, TypeInv
    <2>2. OwnInv
      BY <1>1 DEF IInv
    <2> QED
      BY ONLY <2>1, <2>2 DEF OwnInv, Fine, OwnUntilFailure
  <1> QED
    BY <1>1, Inductive, PTL

(* Whatever is late or lost, the ioctl path answers calls in order and     *)
(* returns no answer twice: it implements IoctlCalls.                      *)
THEOREM CallsSafe == Spec => ImplementsCalls
  <1>1. Init => IC!Init
    BY DEF Init, IC!Init
  <1>2. IInv /\ [Next]_vars => [IC!Next]_<<trans_id, returned>>
    BY StepRefines
  <1>3. Spec => IC!Init /\ [][IC!Next]_<<trans_id, returned>>
    BY <1>1, <1>2, Inductive, PTL DEF Spec
  <1> QED
    BY <1>3 DEF ImplementsCalls, IC!Spec, IC!vars
=============================================================================
