--------------------------- MODULE ZeroMQIPCProofs --------------------------
(***************************************************************************)
(* The message service over ZeroMQ keeps messages whole and in order, for  *)
(* every number of threads, attempts, messages, lost connections and       *)
(* restarts and every room of the queues.                                  *)
(***************************************************************************)
EXTENDS ZeroMQIPC, TLAPS

(* The steps of one direction of the service, named by its receiver r, in  *)
(* terms of the users' variables: what IPCChannel allows apart from redo.  *)
(* The proofs about MongoDB use them too.                                  *)

LatestOf(s) == IF s = <<>> THEN 0 ELSE s[Len(s)]

UsersTyped == sent \in [Endpoints -> Nat] /\ seen \in [Endpoints -> Seq(Nat)]

Same(r) == sent'[Peer(r)] = sent[Peer(r)] /\ seen'[r] = seen[r]

SendStep(r) == sent'[Peer(r)] = sent[Peer(r)] + 1 /\ seen'[r] = seen[r]

ProcessStep(r) ==
    /\ \E m \in LatestOf(seen[r]) + 1 .. sent[Peer(r)] : seen'[r] = Append(seen[r], m)
    /\ sent'[Peer(r)] = sent[Peer(r)]

\* A direction has two ends (IPC.h, IPC.py: a server and a client).
LEMMA Peers ==
    /\ \A e \in Endpoints : Peer(e) \in Endpoints /\ Peer(e) # e /\ Peer(Peer(e)) = e
    /\ \A e, r \in Endpoints : e = r \/ e = Peer(r)
BY DEF Peer, Endpoints

\* The newest message of a sequence.
LEMMA LatestFacts ==
    ASSUME NEW s \in Seq(Nat)
    PROVE  /\ LatestOf(s) \in Nat
           /\ s = <<>> => LatestOf(s) = 0
           /\ \A m \in Nat : Append(s, m) \in Seq(Nat) /\ LatestOf(Append(s, m)) = m
<1>1. LatestOf(s) \in Nat /\ (s = <<>> => LatestOf(s) = 0)
  BY DEF LatestOf
<1>2. ASSUME NEW m \in Nat PROVE Append(s, m) \in Seq(Nat) /\ LatestOf(Append(s, m)) = m
  <2>1. /\ Append(s, m) \in Seq(Nat) /\ Len(Append(s, m)) = Len(s) + 1
        /\ Append(s, m)[Len(s) + 1] = m /\ Append(s, m) # <<>>
    OBVIOUS
  <2>2. QED
    BY <2>1, Zenon DEF LatestOf
<1>3. QED
  BY <1>1, <1>2, Zenon

-----------------------------------------------------------------------------
(* Frames, messages and queues.                                            *)

\* The messages made of the frames of one call, and the call's number.
Messages == {Whole(n) : n \in Nat}
Num(m) == m[1].n

\* The first k frames of message n.
Frames(n, k) == [i \in 1..k |-> [n |-> n, f |-> i]]

\* The messages of queue q are numbered upwards, above lo and up to hi.
Ordered(q, lo, hi) ==
    /\ \A i \in 1..Len(q) : lo < Num(q[i]) /\ Num(q[i]) <= hi
    /\ \A i, j \in 1..Len(q) : i < j => Num(q[i]) < Num(q[j])

\* Four queues in a row, the oldest messages in the first.
InOrder(p, w, x, b, lo, hi) ==
    \E l, m, n \in Nat :
        /\ lo <= l /\ l <= m /\ m <= n /\ n <= hi
        /\ Ordered(p, lo, l) /\ Ordered(w, l, m) /\ Ordered(x, m, n) /\ Ordered(b, n, hi)

QueuesTyped ==
    /\ mailbox \in [Endpoints -> Seq(Messages)]
    /\ parts \in [Endpoints -> Seq(Messages)]
    /\ wire \in [Endpoints -> Seq(Messages)]
    /\ pub \in [Endpoints -> Seq(Messages)]
    /\ attempt \in [Endpoints -> Nat]
    /\ \A e \in Endpoints : attempt[e] > 0 => parts[e] # <<>>

CallsTyped ==
    /\ ipc_lock \in [Endpoints -> Threads \cup {"free"}]
    /\ call \in [Endpoints -> [Threads -> Nat]]
    /\ put \in [Endpoints -> [Threads -> 0..3]]
    /\ building \in [Endpoints -> Seq(Frame)]

\* The lock: a thread that hands over frames holds it, its message is the last
\* one sent, and the unfinished message in the socket is the frames it gave.
LockInv(e) ==
    /\ ipc_lock[e] = "free" => building[e] = <<>>
    /\ ipc_lock[e] # "free" => sent[e] # 0
    /\ \A t \in Threads :
          IF ipc_lock[e] = t
          THEN call[e][t] = sent[e] /\ building[e] = Frames(sent[e], put[e][t])
          ELSE call[e][t] = 0 /\ put[e][t] = 0

\* The last message that e's socket has been given whole.
Whole_sent(e) == IF ipc_lock[e] = "free" THEN sent[e] ELSE sent[e] - 1

\* The queues on the way to r hold what follows the message it processed last.
OrderInv(r) ==
    InOrder(pub[r], wire[r], parts[Peer(r)], mailbox[Peer(r)],
            LatestOf(seen[r]), Whole_sent(Peer(r)))

ZmqTyped == UsersTyped /\ QueuesTyped /\ CallsTyped

ZmqIInv == ZmqTyped /\ \A e \in Endpoints : LockInv(e) /\ OrderInv(e)

ZmqChannelStep(r) == Same(r) \/ SendStep(r) \/ ProcessStep(r)
-----------------------------------------------------------------------------
\* A whole message is understood by both listeners, as the one that was sent.
LEMMA MessageFacts ==
    ASSUME NEW m \in Messages
    PROVE  /\ Num(m) \in Nat
           /\ Len(m) = 4 /\ m[1].f = 1 /\ m[2].f = 2 /\ m[3].f = 3
           /\ Content(m) = Num(m)
           /\ \A e : Understood(e, m)
<1>1. PICK n \in Nat : m = Whole(n)
  BY Zenon DEF Messages
<1>2. Num(m) = n /\ m[1].f = 1 /\ m[2].f = 2 /\ m[3].f = 3
  BY <1>1 DEF Num, Whole
<1>3. m \in Seq(Frame) /\ Len(m) = 4
  BY <1>1 DEF Whole, Frame
<1>4. Content(m) = Num(m)
  BY <1>1, <1>2, Zenon DEF Content, Num
<1>5. QED
  BY <1>2, <1>3, <1>4 DEF Understood

LEMMA WholeFacts ==
    ASSUME NEW n \in Nat
    PROVE  Whole(n) \in Messages /\ Num(Whole(n)) = n
BY DEF Messages, Num, Whole

\* A message is handed over frame by frame.
LEMMA FramesFacts ==
    ASSUME NEW n \in Nat
    PROVE  /\ Frames(n, 0) = <<>>
           /\ \A k \in 0..3 : /\ Frames(n, k) \in Seq(Frame)
                              /\ Append(Frames(n, k), [n |-> n, f |-> k + 1]) = Frames(n, k + 1)
           /\ Frames(n, 4) = Whole(n)
<1>1. Frames(n, 0) = <<>>
  BY DEF Frames
<1>2. ASSUME NEW k \in 0..3
      PROVE  /\ Frames(n, k) \in Seq(Frame)
             /\ Append(Frames(n, k), [n |-> n, f |-> k + 1]) = Frames(n, k + 1)
  <2>1. \A i \in 1..k : [n |-> n, f |-> i] \in Frame
    BY DEF Frame
  <2>2. Frames(n, k) \in Seq(Frame) /\ Len(Frames(n, k)) = k
    BY <2>1 DEF Frames
  <2>3. QED
    BY <2>2 DEF Frames
<1>3. Frames(n, 4) = Whole(n)
  BY Zenon DEF Frames, Whole
<1>4. QED
  BY <1>1, <1>2, <1>3, Zenon

\* What taking, adding and dropping messages does to the order of a queue.
LEMMA OrderedEmpty == \A lo, hi \in Nat : Ordered(<<>>, lo, hi)
BY DEF Ordered

LEMMA OrderedWiden ==
    ASSUME NEW q \in Seq(Messages), NEW lo \in Nat, NEW hi \in Nat, Ordered(q, lo, hi),
           NEW lower \in Nat, NEW upper \in Nat, lower <= lo, hi <= upper
    PROVE  Ordered(q, lower, upper)
<1>1. \A i \in 1..Len(q) : Num(q[i]) \in Nat
  BY MessageFacts
<1>2. QED
  BY <1>1 DEF Ordered

LEMMA OrderedTail ==
    ASSUME NEW q \in Seq(Messages), NEW lo \in Nat, NEW hi \in Nat, Ordered(q, lo, hi), q # <<>>
    PROVE  /\ Head(q) \in Messages /\ Tail(q) \in Seq(Messages)
           /\ lo < Num(Head(q)) /\ Num(Head(q)) <= hi
           /\ Ordered(Tail(q), Num(Head(q)), hi)
<1>1. /\ Head(q) = q[1] /\ Head(q) \in Messages /\ Tail(q) \in Seq(Messages)
      /\ Len(q) \in Nat /\ Len(q) > 0 /\ Len(Tail(q)) = Len(q) - 1
      /\ \A i \in 1..Len(Tail(q)) : Tail(q)[i] = q[i + 1]
  OBVIOUS
<1>2. \A i \in 1..Len(Tail(q)) : i + 1 \in 1..Len(q) /\ 1 < i + 1
  BY <1>1
<1>3. 1 \in 1..Len(q)
  BY <1>1
<1>4. \A i, j \in 1..Len(Tail(q)) : i < j => i + 1 < j + 1
  BY <1>1
<1>5. QED
  BY <1>1, <1>2, <1>3, <1>4, Zenon DEF Ordered

LEMMA OrderedAppend ==
    ASSUME NEW q \in Seq(Messages), NEW lo \in Nat, NEW mid \in Nat, NEW hi \in Nat,
           Ordered(q, lo, mid), lo <= mid, NEW m \in Messages, mid < Num(m), Num(m) <= hi
    PROVE  Append(q, m) \in Seq(Messages) /\ Ordered(Append(q, m), lo, hi)
<1>1. /\ Append(q, m) \in Seq(Messages) /\ Len(Append(q, m)) = Len(q) + 1 /\ Len(q) \in Nat
      /\ \A i \in 1..Len(q) : Append(q, m)[i] = q[i]
      /\ Append(q, m)[Len(q) + 1] = m
  OBVIOUS
<1>2. Num(m) \in Nat /\ \A i \in 1..Len(q) : Num(q[i]) \in Nat
  BY MessageFacts
<1>3. \A i \in 1..Len(q) : lo < Num(q[i]) /\ Num(q[i]) <= mid
  BY Zenon DEF Ordered
<1>4. \A i \in 1..Len(Append(q, m)) : i \in 1..Len(q) \/ i = Len(q) + 1
  BY <1>1
<1>5. ASSUME NEW i \in 1..Len(Append(q, m))
      PROVE  lo < Num(Append(q, m)[i]) /\ Num(Append(q, m)[i]) <= hi
  <2>1. CASE i \in 1..Len(q)
    <3>1. Append(q, m)[i] = q[i] /\ Num(q[i]) \in Nat /\ lo < Num(q[i]) /\ Num(q[i]) <= mid
      BY <1>1, <1>2, <1>3, <2>1, Zenon
    <3>2. QED
      BY <1>2, <3>1
  <2>2. CASE i = Len(q) + 1
    BY <1>1, <1>2, <2>2
  <2>3. QED
    BY <1>4, <2>1, <2>2, Zenon
<1>6. ASSUME NEW i \in 1..Len(Append(q, m)), NEW j \in 1..Len(Append(q, m)), i < j
      PROVE  Num(Append(q, m)[i]) < Num(Append(q, m)[j])
  <2>1. i \in 1..Len(q)
    BY <1>1, <1>6
  <2>2. CASE j \in 1..Len(q)
    BY <1>1, <1>6, <2>1, <2>2, Zenon DEF Ordered
  <2>3. CASE j = Len(q) + 1
    BY <1>1, <1>2, <1>3, <2>1, <2>3
  <2>4. QED
    BY <1>4, <2>2, <2>3, Zenon
<1>7. QED
  BY <1>1, <1>5, <1>6, Zenon DEF Ordered

LEMMA OrderedPrefix ==
    ASSUME NEW q \in Seq(Messages), NEW lo \in Nat, NEW hi \in Nat, Ordered(q, lo, hi),
           NEW k \in 0..Len(q)
    PROVE  SubSeq(q, 1, k) \in Seq(Messages) /\ Ordered(SubSeq(q, 1, k), lo, hi)
<1>1. /\ SubSeq(q, 1, k) \in Seq(Messages) /\ Len(SubSeq(q, 1, k)) = k /\ Len(q) \in Nat
      /\ \A i \in 1..k : SubSeq(q, 1, k)[i] = q[i] /\ i \in 1..Len(q)
  OBVIOUS
<1>2. QED
  BY <1>1 DEF Ordered

-----------------------------------------------------------------------------
\* What the steps on the way do to the four queues: the listener takes a
\* message, the worker publishes one, drops one, fetches one and sends one.
LEMMA InOrderTake ==
    ASSUME NEW p \in Seq(Messages), NEW w \in Seq(Messages), NEW x \in Seq(Messages),
           NEW b \in Seq(Messages), NEW lo \in Nat, NEW hi \in Nat,
           InOrder(p, w, x, b, lo, hi), p # <<>>
    PROVE  /\ lo < Num(Head(p)) /\ Num(Head(p)) <= hi /\ Num(Head(p)) \in Nat
           /\ InOrder(Tail(p), w, x, b, Num(Head(p)), hi)
<1>1. PICK l, m, n \in Nat :
          /\ lo <= l /\ l <= m /\ m <= n /\ n <= hi
          /\ Ordered(p, lo, l) /\ Ordered(w, l, m) /\ Ordered(x, m, n) /\ Ordered(b, n, hi)
  BY Zenon DEF InOrder
<1>2. /\ Head(p) \in Messages /\ lo < Num(Head(p)) /\ Num(Head(p)) <= l
      /\ Ordered(Tail(p), Num(Head(p)), l)
  BY <1>1, OrderedTail, Zenon
<1>3. Num(Head(p)) \in Nat
  BY <1>2, MessageFacts, Zenon
<1>4. QED
  BY <1>1, <1>2, <1>3 DEF InOrder

LEMMA InOrderPublish ==
    ASSUME NEW p \in Seq(Messages), NEW w \in Seq(Messages), NEW x \in Seq(Messages),
           NEW b \in Seq(Messages), NEW lo \in Nat, NEW hi \in Nat,
           InOrder(p, w, x, b, lo, hi), w # <<>>
    PROVE  /\ InOrder(p, Tail(w), x, b, lo, hi)
           /\ InOrder(Append(p, Head(w)), Tail(w), x, b, lo, hi)
<1>1. PICK l, m, n \in Nat :
          /\ lo <= l /\ l <= m /\ m <= n /\ n <= hi
          /\ Ordered(p, lo, l) /\ Ordered(w, l, m) /\ Ordered(x, m, n) /\ Ordered(b, n, hi)
  BY Zenon DEF InOrder
<1> DEFINE k == Num(Head(w))
<1>2. Head(w) \in Messages /\ l < k /\ k <= m /\ Ordered(Tail(w), k, m)
  BY <1>1, OrderedTail, Zenon
<1>3. k \in Nat
  BY <1>2, MessageFacts, Zenon
<1> HIDE DEF k
<1>4. lo <= k /\ l <= k
  BY <1>1, <1>2, <1>3
<1>5. Ordered(p, lo, k)
  BY <1>1, <1>3, <1>4, OrderedWiden
<1>6. Ordered(Append(p, Head(w)), lo, k)
  BY <1>1, <1>2, <1>3, OrderedAppend DEF k
<1>7. QED
  BY <1>1, <1>2, <1>3, <1>4, <1>5, <1>6, Zenon DEF InOrder

LEMMA InOrderFetch ==
    ASSUME NEW p \in Seq(Messages), NEW w \in Seq(Messages), NEW x \in Seq(Messages),
           NEW b \in Seq(Messages), NEW lo \in Nat, NEW hi \in Nat,
           InOrder(p, w, x, b, lo, hi), b # <<>>
    PROVE  InOrder(p, w, <<Head(b)>>, Tail(b), lo, hi)
<1>1. PICK l, m, n \in Nat :
          /\ lo <= l /\ l <= m /\ m <= n /\ n <= hi
          /\ Ordered(p, lo, l) /\ Ordered(w, l, m) /\ Ordered(x, m, n) /\ Ordered(b, n, hi)
  BY Zenon DEF InOrder
<1> DEFINE k == Num(Head(b))
<1>2. Head(b) \in Messages /\ n < k /\ k <= hi /\ Ordered(Tail(b), k, hi)
  BY <1>1, OrderedTail, Zenon
<1>3. k \in Nat
  BY <1>2, MessageFacts, Zenon
<1>4. m < k /\ m <= k
  BY <1>1, <1>2, <1>3
<1>5. Ordered(<<Head(b)>>, m, k)
  BY <1>1, <1>3, <1>4 DEF Ordered
<1> HIDE DEF k
<1>6. QED
  BY <1>1, <1>2, <1>3, <1>4, <1>5, Zenon DEF InOrder

LEMMA InOrderSend ==
    ASSUME NEW p \in Seq(Messages), NEW w \in Seq(Messages), NEW x \in Seq(Messages),
           NEW b \in Seq(Messages), NEW lo \in Nat, NEW hi \in Nat,
           InOrder(p, w, x, b, lo, hi), x # <<>>
    PROVE  InOrder(p, Append(w, x[1]), <<>>, b, lo, hi)
<1>1. PICK l, m, n \in Nat :
          /\ lo <= l /\ l <= m /\ m <= n /\ n <= hi
          /\ Ordered(p, lo, l) /\ Ordered(w, l, m) /\ Ordered(x, m, n) /\ Ordered(b, n, hi)
  BY Zenon DEF InOrder
<1>2. x[1] \in Messages /\ m < Num(x[1]) /\ Num(x[1]) <= n
  BY <1>1, OrderedTail
<1>3. Ordered(Append(w, x[1]), l, n)
  BY <1>1, <1>2, OrderedAppend, Zenon
<1>4. l <= n /\ n <= n
  BY <1>1
<1>5. QED
  BY <1>1, <1>3, <1>4, OrderedEmpty, Zenon DEF InOrder

\* A finished message joins the mailbox.
LEMMA InOrderFinish ==
    ASSUME NEW p \in Seq(Messages), NEW w \in Seq(Messages), NEW x \in Seq(Messages),
           NEW b \in Seq(Messages), NEW lo \in Nat, NEW hi \in Nat,
           InOrder(p, w, x, b, lo, hi), NEW k \in Messages, hi < Num(k)
    PROVE  InOrder(p, w, x, Append(b, k), lo, Num(k))
<1>1. PICK l, m, n \in Nat :
          /\ lo <= l /\ l <= m /\ m <= n /\ n <= hi
          /\ Ordered(p, lo, l) /\ Ordered(w, l, m) /\ Ordered(x, m, n) /\ Ordered(b, n, hi)
  BY Zenon DEF InOrder
<1>2. Num(k) \in Nat /\ n <= Num(k) /\ Num(k) <= Num(k)
  BY <1>1, MessageFacts
<1>3. Ordered(Append(b, k), n, Num(k))
  BY <1>1, <1>2, OrderedAppend, Zenon
<1>4. QED
  BY <1>1, <1>2, <1>3, Zenon DEF InOrder

\* Messages that are lost: the last ones of the wire, the one the worker
\* tries, all the sender holds, all the receiver holds.
LEMMA InOrderLose ==
    ASSUME NEW p \in Seq(Messages), NEW w \in Seq(Messages), NEW x \in Seq(Messages),
           NEW b \in Seq(Messages), NEW lo \in Nat, NEW hi \in Nat,
           InOrder(p, w, x, b, lo, hi)
    PROVE  /\ \A k \in 0..Len(w) : InOrder(p, SubSeq(w, 1, k), x, b, lo, hi)
           /\ InOrder(p, w, <<>>, b, lo, hi)
           /\ \A top \in Nat : hi <= top => InOrder(p, w, <<>>, <<>>, lo, top)
           /\ InOrder(<<>>, <<>>, x, b, lo, hi)
<1>1. PICK l, m, n \in Nat :
          /\ lo <= l /\ l <= m /\ m <= n /\ n <= hi
          /\ Ordered(p, lo, l) /\ Ordered(w, l, m) /\ Ordered(x, m, n) /\ Ordered(b, n, hi)
  BY Zenon DEF InOrder
<1>2. ASSUME NEW k \in 0..Len(w) PROVE InOrder(p, SubSeq(w, 1, k), x, b, lo, hi)
  <2>1. Ordered(SubSeq(w, 1, k), l, m)
    BY <1>1, OrderedPrefix, Zenon
  <2>2. QED
    BY <1>1, <2>1, Zenon DEF InOrder
<1>3. InOrder(p, w, <<>>, b, lo, hi)
  BY <1>1, OrderedEmpty, Zenon DEF InOrder
<1>4. ASSUME NEW top \in Nat, hi <= top PROVE InOrder(p, w, <<>>, <<>>, lo, top)
  <2>1. n <= top
    BY <1>1, <1>4
  <2>2. QED
    BY <1>1, <2>1, OrderedEmpty, Zenon DEF InOrder
<1>5. InOrder(<<>>, <<>>, x, b, lo, hi)
  BY <1>1, OrderedEmpty, Zenon DEF InOrder
<1>6. QED
  BY <1>2, <1>3, <1>4, <1>5, Zenon

\* The initial state.
LEMMA ZmqInitInv == ZmqInit => ZmqIInv
<1> SUFFICES ASSUME ZmqInit PROVE ZmqIInv
  OBVIOUS
<1>1. ZmqTyped
  BY DEF ZmqInit, InitUsers, ZmqTyped, UsersTyped, QueuesTyped, CallsTyped
<1>2. ASSUME NEW e \in Endpoints PROVE LockInv(e)
  BY <1>2, ZmqAssumption, Zenon DEF ZmqInit, LockInv
<1>3. ASSUME NEW r \in Endpoints PROVE OrderInv(r)
  <2>1. /\ pub[r] = <<>> /\ wire[r] = <<>> /\ parts[Peer(r)] = <<>> /\ mailbox[Peer(r)] = <<>>
        /\ LatestOf(seen[r]) = 0 /\ Whole_sent(Peer(r)) = 0
    BY Peers, Zenon DEF ZmqInit, InitUsers, LatestOf, Whole_sent
  <2>2. InOrder(<<>>, <<>>, <<>>, <<>>, 0, 0)
    BY OrderedEmpty DEF InOrder
  <2>3. QED
    BY <2>1, <2>2, Zenon DEF OrderInv
<1>4. QED
  BY <1>1, <1>2, <1>3, Zenon DEF ZmqIInv
-----------------------------------------------------------------------------
\* The bounds of a direction are numbers.
LEMMA Bounds ==
    ASSUME ZmqIInv, NEW r \in Endpoints
    PROVE  /\ LatestOf(seen[r]) \in Nat /\ Whole_sent(Peer(r)) \in Nat /\ sent[Peer(r)] \in Nat
           /\ Whole_sent(Peer(r)) <= sent[Peer(r)]
           /\ pub[r] \in Seq(Messages) /\ wire[r] \in Seq(Messages)
           /\ parts[Peer(r)] \in Seq(Messages) /\ mailbox[Peer(r)] \in Seq(Messages)
<1>1. Peer(r) \in Endpoints
  BY Peers, Zenon
<1>2. sent[Peer(r)] \in Nat /\ (ipc_lock[Peer(r)] # "free" => sent[Peer(r)] # 0)
  BY <1>1, Zenon DEF ZmqIInv, ZmqTyped, UsersTyped, LockInv
<1>3. LatestOf(seen[r]) \in Nat
  BY LatestFacts, Zenon DEF ZmqIInv, ZmqTyped, UsersTyped
<1>4. Whole_sent(Peer(r)) \in Nat /\ Whole_sent(Peer(r)) <= sent[Peer(r)]
  BY <1>2 DEF Whole_sent
<1>5. /\ pub[r] \in Seq(Messages) /\ wire[r] \in Seq(Messages)
      /\ parts[Peer(r)] \in Seq(Messages) /\ mailbox[Peer(r)] \in Seq(Messages)
  BY <1>1, Zenon DEF ZmqIInv, ZmqTyped, QueuesTyped
<1>6. QED
  BY <1>2, <1>3, <1>4, <1>5, Zenon

\* A direction no queue of which changes.
LEMMA Untouched ==
    ASSUME NEW r \in Endpoints, OrderInv(r),
           pub'[r] = pub[r], wire'[r] = wire[r], parts'[Peer(r)] = parts[Peer(r)],
           mailbox'[Peer(r)] = mailbox[Peer(r)], seen'[r] = seen[r],
           Whole_sent(Peer(r))' = Whole_sent(Peer(r))
    PROVE  OrderInv(r)'
BY Zenon DEF OrderInv

\* A thread takes the lock for the next message.
LEMMA ZmqIpcSendStep ==
    ASSUME ZmqIInv, NEW e \in Endpoints, NEW t \in Threads, ipc_send(e, t), NEW r \in Endpoints
    PROVE  ZmqTyped' /\ LockInv(r)' /\ OrderInv(r)' /\ ZmqChannelStep(r)
<1> USE DEF ZmqIInv
<1>1. /\ ipc_lock[e] = "free" /\ ipc_lock' = [ipc_lock EXCEPT ![e] = t]
      /\ sent' = [sent EXCEPT ![e] = sent[e] + 1] /\ seen' = seen
      /\ call' = [call EXCEPT ![e][t] = sent[e] + 1]
      /\ put' = put /\ building' = building
  BY Zenon DEF ipc_send, Sends
<1>2. QueuesTyped' /\ pub' = pub /\ wire' = wire /\ parts' = parts /\ mailbox' = mailbox
  BY Zenon DEF ipc_send, sockets, ZmqTyped, QueuesTyped
<1>3. sent[e] \in Nat /\ sent[e] + 1 \in Nat /\ t # "free"
  BY ZmqAssumption DEF ZmqTyped, UsersTyped
<1>4. ZmqTyped'
  BY <1>1, <1>2, <1>3, Zenon DEF ZmqTyped, UsersTyped, CallsTyped
<1>5. LockInv(r)'
  <2>1. CASE r = e
    <3>1. /\ ipc_lock'[r] = t /\ sent'[r] = sent[r] + 1 /\ building'[r] = <<>>
          /\ call'[r][t] = sent[r] + 1 /\ \A u \in Threads : u # t => call'[r][u] = call[r][u]
      BY <1>1, <2>1, Zenon DEF ZmqTyped, UsersTyped, CallsTyped, LockInv
    <3>2. \A u \in Threads : call[r][u] = 0 /\ put[r][u] = 0
      BY <1>1, <2>1, ZmqAssumption DEF LockInv
    <3>3. Frames(sent[r] + 1, 0) = <<>>
      BY <1>3, <2>1, FramesFacts, Zenon
    <3>4. QED
      BY <1>1, <1>3, <2>1, <3>1, <3>2, <3>3 DEF LockInv
  <2>2. CASE r # e
    BY <1>1, <2>2, Zenon DEF LockInv, ZmqTyped, UsersTyped, CallsTyped
  <2>3. QED
    BY <2>1, <2>2, Zenon
<1>6. Whole_sent(Peer(r))' = Whole_sent(Peer(r))
  <2>1. CASE Peer(r) = e
    BY <1>1, <1>3, <2>1 DEF Whole_sent, ZmqTyped, UsersTyped, CallsTyped
  <2>2. CASE Peer(r) # e
    BY <1>1, <2>2, Peers, Zenon DEF Whole_sent, ZmqTyped, UsersTyped, CallsTyped
  <2>3. QED
    BY <2>1, <2>2, Zenon
<1>7. OrderInv(r)'
  BY <1>1, <1>2, <1>6, Untouched, Zenon
<1>8. ZmqChannelStep(r)
  BY <1>1, Peers, Zenon DEF ZmqChannelStep, Same, SendStep, ZmqTyped, UsersTyped
<1>9. QED
  BY <1>4, <1>5, <1>7, <1>8, Zenon

\* A thread hands over a frame: the socket's message is that of its call alone.
LEMMA ZmqSendStep ==
    ASSUME ZmqIInv, NEW e \in Endpoints, NEW t \in Threads, send(e, t), NEW r \in Endpoints
    PROVE  ZmqTyped' /\ LockInv(r)' /\ OrderInv(r)' /\ ZmqChannelStep(r)
<1> USE DEF ZmqIInv
<1> DEFINE multipart == Append(building[e], [n |-> call[e][t], f |-> put[e][t] + 1])
<1>1. ipc_lock[e] = t /\ call[e][t] = sent[e] /\ building[e] = Frames(sent[e], put[e][t]) /\ sent[e] # 0
      /\ t # "free"
  BY ZmqAssumption, Zenon DEF send, LockInv
<1>2. sent[e] \in Nat /\ put[e][t] \in 0..3
  BY Zenon DEF ZmqTyped, UsersTyped, CallsTyped
<1>3. multipart = Frames(sent[e], put[e][t] + 1)
  BY <1>1, <1>2, FramesFacts, Zenon
<1>4. seen' = seen /\ sent' = sent /\ pub' = pub /\ wire' = wire /\ parts' = parts /\ attempt' = attempt
  BY Zenon DEF send, sockets
<1>5. ZmqChannelStep(r)
  BY <1>4, Zenon DEF ZmqChannelStep, Same
<1>6. CASE put[e][t] < 3
  <2>1. /\ building' = [building EXCEPT ![e] = multipart] /\ put' = [put EXCEPT ![e][t] = put[e][t] + 1]
        /\ ipc_lock' = ipc_lock /\ call' = call /\ mailbox' = mailbox
    BY <1>6, Zenon DEF send
  <2>2. multipart \in Seq(Frame) /\ put[e][t] + 1 \in 0..3
    <3>1. put[e][t] + 1 \in 0..3
      BY <1>2, <1>6
    <3>2. Frames(sent[e], put[e][t] + 1) \in Seq(Frame)
      BY <1>2, <3>1, FramesFacts, Zenon
    <3>3. QED
      BY <1>3, <3>1, <3>2, Zenon
  <2> HIDE DEF multipart
  <2>3. building' \in [Endpoints -> Seq(Frame)]
    BY <2>1, <2>2, Zenon DEF ZmqTyped, CallsTyped
  <2>4. put' \in [Endpoints -> [Threads -> 0..3]]
    BY <2>1, <2>2, Zenon DEF ZmqTyped, CallsTyped
  <2>5. ZmqTyped'
    BY <1>4, <2>1, <2>3, <2>4, Zenon DEF ZmqTyped, UsersTyped, QueuesTyped, CallsTyped
  <2>6. LockInv(r)'
    <3>1. CASE r = e
      <4>1. /\ building'[r] = Frames(sent[r], put'[r][t]) /\ put'[r][t] = put[r][t] + 1
            /\ \A u \in Threads : u # t => put'[r][u] = put[r][u]
        BY <1>3, <2>1, <3>1, Zenon DEF ZmqTyped, CallsTyped
      <4>2. QED
        BY <1>1, <1>4, <2>1, <3>1, <4>1 DEF LockInv
    <3>2. CASE r # e
      <4>1. building'[r] = building[r] /\ put'[r] = put[r]
        BY <2>1, <3>2, Zenon DEF ZmqTyped, CallsTyped
      <4>2. QED
        BY <1>4, <2>1, <4>1 DEF LockInv
    <3>3. QED
      BY <3>1, <3>2, Zenon
  <2>7. OrderInv(r)'
    BY <1>4, <2>1, Untouched, Zenon DEF Whole_sent
  <2>8. QED
    BY <1>5, <2>5, <2>6, <2>7, Zenon
<1>7. CASE put[e][t] = 3
  <2>1. /\ building' = [building EXCEPT ![e] = <<>>]
        /\ mailbox' = [mailbox EXCEPT ![e] = Append(mailbox[e], multipart)]
        /\ put' = [put EXCEPT ![e][t] = 0] /\ call' = [call EXCEPT ![e][t] = 0]
        /\ ipc_lock' = [ipc_lock EXCEPT ![e] = "free"]
    BY <1>7 DEF send
  <2>2. multipart = Whole(sent[e]) /\ multipart \in Messages /\ Num(multipart) = sent[e]
    <3>1. put[e][t] + 1 = 4
      BY <1>7
    <3>2. multipart = Frames(sent[e], 4)
      BY <1>3, <3>1, Zenon
    <3>3. QED
      BY <1>2, <3>2, FramesFacts, WholeFacts, Zenon
  <2> HIDE DEF multipart
  <2>3. CallsTyped'
    BY <2>1 DEF ZmqTyped, CallsTyped
  <2>4. QueuesTyped'
    BY <1>4, <2>1, <2>2 DEF ZmqTyped, QueuesTyped
  <2>5. ZmqTyped'
    BY <1>4, <2>3, <2>4, Zenon DEF ZmqTyped, UsersTyped
  <2>6. LockInv(r)'
    <3>1. CASE r = e
      <4>1. ipc_lock'[r] = "free" /\ building'[r] = <<>> /\ call'[r][t] = 0 /\ put'[r][t] = 0
            /\ \A u \in Threads : u # t => call'[r][u] = call[r][u] /\ put'[r][u] = put[r][u]
        BY <2>1, <3>1, Zenon DEF ZmqTyped, CallsTyped
      <4>2. QED
        BY <1>1, <3>1, <4>1, ZmqAssumption DEF LockInv
    <3>2. CASE r # e
      BY <1>4, <2>1, <3>2, Zenon DEF LockInv, ZmqTyped, CallsTyped
    <3>3. QED
      BY <3>1, <3>2, Zenon
  <2>7. CASE Peer(r) = e
    <3>1. Whole_sent(e) = sent[e] - 1 /\ Whole_sent(e)' = sent[e]
      BY <1>1, <1>4, <2>1, Zenon DEF Whole_sent, ZmqTyped, CallsTyped
    <3>2. Whole_sent(e) < Num(multipart)
      BY <1>2, <2>2, <3>1
    <3>3. InOrder(pub[r], wire[r], parts[e], Append(mailbox[e], multipart), LatestOf(seen[r]), sent[e])
      <4>1. InOrder(pub[r], wire[r], parts[e], mailbox[e], LatestOf(seen[r]), Whole_sent(e))
        BY <2>7, Zenon DEF OrderInv
      <4>2. /\ LatestOf(seen[r]) \in Nat /\ Whole_sent(e) \in Nat
            /\ pub[r] \in Seq(Messages) /\ wire[r] \in Seq(Messages)
            /\ parts[e] \in Seq(Messages) /\ mailbox[e] \in Seq(Messages)
        BY <2>7, Bounds, Zenon
      <4>3. InOrder(pub[r], wire[r], parts[e], Append(mailbox[e], multipart), LatestOf(seen[r]),
                    Num(multipart))
        BY <2>2, <3>2, <4>1, <4>2, InOrderFinish, Zenon
      <4>4. QED
        BY <2>2, <4>3, Zenon
    <3>4. mailbox'[e] = Append(mailbox[e], multipart)
      BY <2>1, Zenon DEF ZmqTyped, QueuesTyped
    <3>5. OrderInv(r)'
      BY <1>4, <2>7, <3>1, <3>3, <3>4, Zenon DEF OrderInv
    <3>6. QED
      BY <1>5, <2>5, <2>6, <3>5, Zenon
  <2>8. CASE Peer(r) # e
    <3>1. Peer(r) \in Endpoints
      BY Peers, Zenon
    <3>2. mailbox'[Peer(r)] = mailbox[Peer(r)] /\ Whole_sent(Peer(r))' = Whole_sent(Peer(r))
      BY <1>4, <2>1, <2>8, <3>1, Zenon DEF Whole_sent, ZmqTyped, CallsTyped, QueuesTyped
    <3>3. OrderInv(r)'
      BY <1>4, <3>2, Untouched, Zenon
    <3>4. QED
      BY <1>5, <2>5, <2>6, <3>3, Zenon
  <2>9. QED
    BY <2>7, <2>8, Zenon
<1>8. QED
  BY <1>2, <1>6, <1>7

\* Steps that leave the senders alone.
LEMMA SendersKept ==
    ASSUME ZmqIInv, sent' = sent, senders' = senders, NEW r \in Endpoints
    PROVE  /\ CallsTyped' /\ LockInv(r)' /\ Whole_sent(Peer(r))' = Whole_sent(Peer(r))
           /\ seen' = seen => UsersTyped' /\ ZmqChannelStep(r)
<1>1. ipc_lock' = ipc_lock /\ call' = call /\ put' = put /\ building' = building
  BY Zenon DEF senders
<1>2. CallsTyped' /\ LockInv(r)'
  BY <1>1, Zenon DEF ZmqIInv, ZmqTyped, CallsTyped, LockInv
<1>3. Whole_sent(Peer(r))' = Whole_sent(Peer(r))
  BY <1>1, Zenon DEF Whole_sent
<1>4. seen' = seen => UsersTyped' /\ ZmqChannelStep(r)
  BY Zenon DEF ZmqIInv, ZmqTyped, UsersTyped, ZmqChannelStep, Same
<1>5. QED
  BY <1>2, <1>3, <1>4, Zenon

\* The worker publishes a message from the wire, or drops it.
LEMMA ZmqExternalStep ==
    ASSUME ZmqIInv, NEW e \in Endpoints, handle_external(e), NEW r \in Endpoints
    PROVE  ZmqTyped' /\ LockInv(r)' /\ OrderInv(r)' /\ ZmqChannelStep(r)
<1>1. /\ sent' = sent /\ seen' = seen /\ senders' = senders
      /\ mailbox' = mailbox /\ parts' = parts /\ attempt' = attempt
      /\ wire[e] # <<>> /\ wire' = [wire EXCEPT ![e] = Tail(wire[e])]
      /\ pub' = pub \/ pub' = [pub EXCEPT ![e] = Append(pub[e], Head(wire[e]))]
  BY Zenon DEF handle_external
<1>2. wire[e] \in Seq(Messages) /\ pub[e] \in Seq(Messages) /\ QueuesTyped
  BY Zenon DEF ZmqIInv, ZmqTyped, QueuesTyped
<1>3. Tail(wire[e]) \in Seq(Messages) /\ Append(pub[e], Head(wire[e])) \in Seq(Messages)
  BY <1>1, <1>2
<1>4. QueuesTyped'
  BY <1>1, <1>2, <1>3, Zenon DEF QueuesTyped
<1>5. OrderInv(r)'
  <2>1. CASE r = e
    <3>1. wire'[r] = Tail(wire[r]) /\ (pub'[r] = pub[r] \/ pub'[r] = Append(pub[r], Head(wire[r])))
      BY <1>1, <1>2, <2>1, Zenon DEF QueuesTyped
    <3>2. /\ InOrder(pub[r], Tail(wire[r]), parts[Peer(r)], mailbox[Peer(r)],
                     LatestOf(seen[r]), Whole_sent(Peer(r)))
          /\ InOrder(Append(pub[r], Head(wire[r])), Tail(wire[r]), parts[Peer(r)], mailbox[Peer(r)],
                     LatestOf(seen[r]), Whole_sent(Peer(r)))
      BY <1>1, <2>1, Bounds, InOrderPublish, Zenon DEF ZmqIInv, OrderInv
    <3>3. Whole_sent(Peer(r))' = Whole_sent(Peer(r))
      BY <1>1, SendersKept, Zenon
    <3>4. QED
      BY <1>1, <3>1, <3>2, <3>3, Zenon DEF OrderInv
  <2>2. CASE r # e
    <3>1. wire'[r] = wire[r] /\ pub'[r] = pub[r]
      BY <1>1, <1>2, <2>2, Zenon DEF QueuesTyped
    <3>2. QED
      BY <1>1, <3>1, SendersKept, Untouched, Zenon DEF ZmqIInv
  <2>3. QED
    BY <2>1, <2>2, Zenon
<1>6. QED
  BY <1>1, <1>4, <1>5, SendersKept, Zenon DEF ZmqTyped

\* The worker fetches a message; a whole one is never refused.
LEMMA ZmqMailboxStep ==
    ASSUME ZmqIInv, NEW e \in Endpoints, handle_mailbox(e), NEW r \in Endpoints
    PROVE  ZmqTyped' /\ LockInv(r)' /\ OrderInv(r)' /\ ZmqChannelStep(r)
<1>1. /\ sent' = sent /\ seen' = seen /\ senders' = senders /\ pub' = pub /\ wire' = wire
      /\ mailbox[e] # <<>> /\ mailbox' = [mailbox EXCEPT ![e] = Tail(mailbox[e])]
  BY Zenon DEF handle_mailbox, sockets
<1>2. mailbox[e] \in Seq(Messages) /\ QueuesTyped
  BY Zenon DEF ZmqIInv, ZmqTyped, QueuesTyped
<1>3. Head(mailbox[e]) \in Messages /\ Tail(mailbox[e]) \in Seq(Messages)
  BY <1>1, <1>2
<1>4. Len(Head(mailbox[e])) = 4
  BY <1>3, MessageFacts, Zenon
<1>5. /\ parts' = [parts EXCEPT ![e] = <<Head(mailbox[e])>>]
      /\ attempt' = [attempt EXCEPT ![e] = IF e = "server" THEN 1 ELSE Attempts]
  BY <1>4, Zenon DEF handle_mailbox
<1>6. <<Head(mailbox[e])>> \in Seq(Messages) /\ <<Head(mailbox[e])>> # <<>>
  BY <1>3
<1>7. QueuesTyped'
  BY <1>1, <1>2, <1>3, <1>5, <1>6, ZmqAssumption, Zenon DEF QueuesTyped
<1>8. OrderInv(r)'
  <2>1. CASE Peer(r) = e
    <3>1. parts'[e] = <<Head(mailbox[e])>> /\ mailbox'[e] = Tail(mailbox[e])
      BY <1>1, <1>2, <1>5, Zenon DEF QueuesTyped
    <3>2. InOrder(pub[r], wire[r], <<Head(mailbox[e])>>, Tail(mailbox[e]),
                  LatestOf(seen[r]), Whole_sent(e))
      BY <1>1, <2>1, Bounds, InOrderFetch, Zenon DEF ZmqIInv, OrderInv
    <3>3. Whole_sent(e)' = Whole_sent(e)
      BY <1>1, <2>1, SendersKept, Zenon
    <3>4. QED
      BY <1>1, <2>1, <3>1, <3>2, <3>3, Zenon DEF OrderInv
  <2>2. CASE Peer(r) # e
    <3>1. parts'[Peer(r)] = parts[Peer(r)] /\ mailbox'[Peer(r)] = mailbox[Peer(r)]
      BY <1>1, <1>2, <1>5, <2>2, Peers, Zenon DEF QueuesTyped
    <3>2. QED
      BY <1>1, <3>1, SendersKept, Untouched, Zenon DEF ZmqIInv
  <2>3. QED
    BY <2>1, <2>2, Zenon
<1>9. QED
  BY <1>1, <1>7, <1>8, SendersKept, Zenon DEF ZmqTyped

\* The worker sends the message it fetched.
LEMMA ZmqExternalSendStep ==
    ASSUME ZmqIInv, NEW e \in Endpoints, SendExternal(e), NEW r \in Endpoints
    PROVE  ZmqTyped' /\ LockInv(r)' /\ OrderInv(r)' /\ ZmqChannelStep(r)
<1>1. /\ sent' = sent /\ seen' = seen /\ senders' = senders /\ pub' = pub /\ mailbox' = mailbox
      /\ wire' = [wire EXCEPT ![Peer(e)] = Append(wire[Peer(e)], parts[e][1])]
      /\ parts' = [parts EXCEPT ![e] = <<>>] /\ attempt' = [attempt EXCEPT ![e] = 0]
  BY Zenon DEF SendExternal
<1>2. /\ QueuesTyped /\ parts[e] # <<>> /\ parts[e] \in Seq(Messages)
      /\ wire[Peer(e)] \in Seq(Messages) /\ Peer(e) \in Endpoints
  BY Peers, Zenon DEF ZmqIInv, ZmqTyped, QueuesTyped, SendExternal
<1>3. parts[e][1] \in Messages
  BY <1>2
<1>4. Append(wire[Peer(e)], parts[e][1]) \in Seq(Messages)
  BY <1>2, <1>3
<1>5. QueuesTyped'
  <2>1. wire' \in [Endpoints -> Seq(Messages)]
    BY <1>1, <1>2, <1>4, Zenon DEF QueuesTyped
  <2>2. attempt' \in [Endpoints -> Nat] /\ parts' \in [Endpoints -> Seq(Messages)]
    <3>1. <<>> \in Seq(Messages)
      OBVIOUS
    <3>2. attempt' \in [Endpoints -> Nat]
      BY <1>1, <1>2, Zenon DEF QueuesTyped
    <3>3. parts' \in [Endpoints -> Seq(Messages)]
      BY <1>1, <1>2, <3>1, Zenon DEF QueuesTyped
    <3>4. QED
      BY <3>2, <3>3, Zenon
  <2>3. \A d \in Endpoints : attempt'[d] > 0 => parts'[d] # <<>>
    BY <1>1, <1>2 DEF QueuesTyped
  <2>4. QED
    BY <1>1, <1>2, <2>1, <2>2, <2>3, Zenon DEF QueuesTyped
<1>6. OrderInv(r)'
  <2>1. CASE Peer(r) = e
    <3>1. Peer(e) = r
      BY <2>1, Peers, Zenon
    <3>2. wire'[r] = Append(wire[r], parts[e][1]) /\ parts'[e] = <<>>
      BY <1>1, <1>2, <3>1, Zenon DEF QueuesTyped
    <3>3. InOrder(pub[r], Append(wire[r], parts[e][1]), <<>>, mailbox[e],
                  LatestOf(seen[r]), Whole_sent(e))
      BY <1>2, <2>1, Bounds, InOrderSend, Zenon DEF ZmqIInv, OrderInv
    <3>4. Whole_sent(e)' = Whole_sent(e)
      BY <1>1, <2>1, SendersKept, Zenon
    <3>5. QED
      BY <1>1, <2>1, <3>2, <3>3, <3>4, Zenon DEF OrderInv
  <2>2. CASE Peer(r) # e
    <3>1. Peer(e) # r /\ Peer(r) \in Endpoints
      BY <2>2, Peers, Zenon
    <3>2. parts'[Peer(r)] = parts[Peer(r)] /\ wire'[r] = wire[r]
      BY <1>1, <1>2, <2>2, <3>1, Zenon DEF QueuesTyped
    <3>3. QED
      BY <1>1, <3>2, SendersKept, Untouched, Zenon DEF ZmqIInv
  <2>3. QED
    BY <2>1, <2>2, Zenon
<1>7. QED
  BY <1>1, <1>5, <1>6, SendersKept, Zenon DEF ZmqTyped

\* A try fails: the message is kept, or dropped after the last one.
LEMMA ZmqFailStep ==
    ASSUME ZmqIInv, NEW e \in Endpoints, SendFails(e), NEW r \in Endpoints
    PROVE  ZmqTyped' /\ LockInv(r)' /\ OrderInv(r)' /\ ZmqChannelStep(r)
<1>1. /\ sent' = sent /\ seen' = seen /\ senders' = senders /\ mailbox' = mailbox
      /\ wire' = wire /\ pub' = pub /\ attempt[e] > 0
      /\ attempt' = [attempt EXCEPT ![e] = attempt[e] - 1]
      /\ parts' = IF attempt[e] = 1 THEN [parts EXCEPT ![e] = <<>>] ELSE parts
  BY Zenon DEF SendFails, sockets
<1>2. QueuesTyped /\ attempt[e] \in Nat
  BY Zenon DEF ZmqIInv, ZmqTyped, QueuesTyped
<1>3. QueuesTyped'
  <2>1. attempt[e] - 1 \in Nat /\ (attempt[e] - 1 > 0 => attempt[e] # 1)
    BY <1>1, <1>2
  <2>2. attempt' \in [Endpoints -> Nat] /\ parts' \in [Endpoints -> Seq(Messages)]
    BY <1>1, <1>2, <2>1 DEF QueuesTyped
  <2>3. ASSUME NEW d \in Endpoints, attempt'[d] > 0 PROVE parts'[d] # <<>>
    <3>1. CASE d = e
      BY <1>1, <1>2, <2>1, <2>3, <3>1, Zenon DEF QueuesTyped
    <3>2. CASE d # e
      BY <1>1, <1>2, <2>3, <3>2, Zenon DEF QueuesTyped
    <3>3. QED
      BY <3>1, <3>2, Zenon
  <2>4. QED
    BY <1>1, <1>2, <2>2, <2>3, Zenon DEF QueuesTyped
<1>4. OrderInv(r)'
  <2>1. parts'[Peer(r)] = parts[Peer(r)] \/ parts'[Peer(r)] = <<>>
    BY <1>1, <1>2, Peers, Zenon DEF QueuesTyped
  <2>2. Whole_sent(Peer(r))' = Whole_sent(Peer(r))
    BY <1>1, SendersKept, Zenon
  <2>3. InOrder(pub[r], wire[r], <<>>, mailbox[Peer(r)], LatestOf(seen[r]), Whole_sent(Peer(r)))
    BY Bounds, InOrderLose, Zenon DEF ZmqIInv, OrderInv
  <2>4. QED
    BY <1>1, <2>1, <2>2, <2>3, Zenon DEF ZmqIInv, OrderInv
<1>5. QED
  BY <1>1, <1>3, <1>4, SendersKept, Zenon DEF ZmqTyped

\* Steps that change no queue: a listener subscribes, the library connects.
LEMMA ZmqQuietStep ==
    ASSUME ZmqIInv, (\E e \in Endpoints : subscribe(e)) \/ Connect, NEW r \in Endpoints
    PROVE  ZmqTyped' /\ LockInv(r)' /\ OrderInv(r)' /\ ZmqChannelStep(r)
<1>1. /\ sent' = sent /\ seen' = seen /\ senders' = senders /\ mailbox' = mailbox
      /\ parts' = parts /\ attempt' = attempt /\ wire' = wire /\ pub' = pub
  BY Zenon DEF subscribe, Connect
<1>2. QueuesTyped'
  BY <1>1, Zenon DEF ZmqIInv, ZmqTyped, QueuesTyped
<1>3. OrderInv(r)'
  BY <1>1, SendersKept, Untouched, Zenon DEF ZmqIInv
<1>4. QED
  BY <1>1, <1>2, <1>3, SendersKept, Zenon DEF ZmqTyped

\* The listener processes the oldest message published to it.
LEMMA ZmqListenStep ==
    ASSUME ZmqIInv, NEW e \in Endpoints, sub_worker(e), NEW r \in Endpoints
    PROVE  ZmqTyped' /\ LockInv(r)' /\ OrderInv(r)' /\ ZmqChannelStep(r)
<1> DEFINE k == Num(Head(pub[e]))
<1>1. /\ senders' = senders /\ mailbox' = mailbox /\ parts' = parts /\ attempt' = attempt
      /\ wire' = wire /\ pub[e] # <<>> /\ pub' = [pub EXCEPT ![e] = Tail(pub[e])]
  BY Zenon DEF sub_worker
<1>2. QueuesTyped /\ UsersTyped /\ pub[e] \in Seq(Messages)
  BY Zenon DEF ZmqIInv, ZmqTyped, QueuesTyped
<1>3. Head(pub[e]) \in Messages /\ Tail(pub[e]) \in Seq(Messages)
  BY <1>1, <1>2
<1>4. Understood(e, Head(pub[e])) /\ Content(Head(pub[e])) = k /\ k \in Nat
  BY <1>3, MessageFacts, Zenon
<1>5. sent' = sent /\ seen' = [seen EXCEPT ![e] = Append(seen[e], k)]
  BY <1>4, Zenon DEF sub_worker, Processes
<1>6. /\ LatestOf(seen[e]) < k /\ k <= Whole_sent(Peer(e))
      /\ InOrder(Tail(pub[e]), wire[e], parts[Peer(e)], mailbox[Peer(e)], k, Whole_sent(Peer(e)))
  BY <1>1, Bounds, InOrderTake, Zenon DEF ZmqIInv, OrderInv
<1> HIDE DEF k
<1>7. Append(seen[e], k) \in Seq(Nat) /\ LatestOf(Append(seen[e], k)) = k
  BY <1>2, <1>4, LatestFacts, Zenon DEF UsersTyped
<1>8. QueuesTyped'
  BY <1>1, <1>2, <1>3, Zenon DEF QueuesTyped
<1>9. UsersTyped'
  BY <1>2, <1>5, <1>7, Zenon DEF UsersTyped
<1>10. CallsTyped' /\ LockInv(r)' /\ Whole_sent(Peer(r))' = Whole_sent(Peer(r))
  BY <1>1, <1>5, SendersKept, Zenon
<1>11. CASE r = e
  <2>1. pub'[r] = Tail(pub[r]) /\ seen'[r] = Append(seen[r], k)
    BY <1>1, <1>2, <1>5, <1>11, Zenon DEF QueuesTyped, UsersTyped
  <2>2. OrderInv(r)'
    BY <1>1, <1>6, <1>7, <1>10, <1>11, <2>1, Zenon DEF OrderInv
  <2>3. k \in LatestOf(seen[r]) + 1 .. sent[Peer(r)]
    BY <1>4, <1>6, <1>11, Bounds
  <2>4. ZmqChannelStep(r)
    BY <1>5, <2>1, <2>3, Zenon DEF ZmqChannelStep, ProcessStep
  <2>5. QED
    BY <1>8, <1>9, <1>10, <2>2, <2>4, Zenon DEF ZmqTyped
<1>12. CASE r # e
  <2>1. pub'[r] = pub[r] /\ seen'[r] = seen[r]
    BY <1>1, <1>2, <1>5, <1>12, Zenon DEF QueuesTyped, UsersTyped
  <2>2. OrderInv(r)' /\ ZmqChannelStep(r)
    BY <1>1, <1>5, <1>10, <2>1, Untouched, Zenon DEF ZmqIInv, ZmqChannelStep, Same
  <2>3. QED
    BY <1>8, <1>9, <1>10, <2>2, Zenon DEF ZmqTyped
<1>13. QED
  BY <1>11, <1>12, Zenon

\* A connection breaks, and the last messages on the wires are lost.
LEMMA ZmqDisconnectStep ==
    ASSUME ZmqIInv, Disconnect, NEW r \in Endpoints
    PROVE  ZmqTyped' /\ LockInv(r)' /\ OrderInv(r)' /\ ZmqChannelStep(r)
<1>1. /\ sent' = sent /\ seen' = seen /\ senders' = senders /\ mailbox' = mailbox
      /\ parts' = parts /\ attempt' = attempt /\ pub' = pub
  BY Zenon DEF Disconnect
<1>2. PICK kept \in [Endpoints -> 0..HWM] :
          /\ \A e \in Endpoints : kept[e] <= Len(wire[e])
          /\ wire' = [e \in Endpoints |-> SubSeq(wire[e], 1, kept[e])]
  BY Zenon DEF Disconnect
<1>3. ASSUME NEW e \in Endpoints
      PROVE  /\ wire[e] \in Seq(Messages) /\ kept[e] \in 0..Len(wire[e])
             /\ SubSeq(wire[e], 1, kept[e]) \in Seq(Messages)
  <2>1. wire[e] \in Seq(Messages) /\ kept[e] \in Nat
    BY <1>2, ZmqAssumption DEF ZmqIInv, ZmqTyped, QueuesTyped
  <2>2. kept[e] \in 0..Len(wire[e])
    BY <1>2, <2>1
  <2>3. QED
    BY <2>1, <2>2
<1>4. QueuesTyped'
  BY <1>1, <1>2, <1>3, Zenon DEF ZmqIInv, ZmqTyped, QueuesTyped
<1>5. OrderInv(r)'
  <2>1. InOrder(pub[r], SubSeq(wire[r], 1, kept[r]), parts[Peer(r)], mailbox[Peer(r)],
                LatestOf(seen[r]), Whole_sent(Peer(r)))
    BY <1>3, Bounds, InOrderLose, Zenon DEF ZmqIInv, OrderInv
  <2>2. wire'[r] = SubSeq(wire[r], 1, kept[r])
    BY <1>2, Zenon
  <2>3. QED
    BY <1>1, <2>1, <2>2, SendersKept, Zenon DEF OrderInv
<1>6. QED
  BY <1>1, <1>4, <1>5, SendersKept, Zenon DEF ZmqTyped

\* A process starts anew: what it held is lost, with the last it sent.
LEMMA ZmqRestartStep ==
    ASSUME ZmqIInv, NEW e \in Endpoints, ZmqRestart(e), NEW r \in Endpoints
    PROVE  ZmqTyped' /\ LockInv(r)' /\ OrderInv(r)' /\ ZmqChannelStep(r)
<1>1. PICK kept \in 0..Len(wire[Peer(e)]) :
          wire' = [wire EXCEPT ![e] = <<>>, ![Peer(e)] = SubSeq(wire[Peer(e)], 1, kept)]
  BY Peers, Zenon DEF ZmqRestart, ZmqIInv, ZmqTyped, QueuesTyped
<1>2. /\ sent' = sent /\ seen' = seen
      /\ mailbox' = [mailbox EXCEPT ![e] = <<>>] /\ parts' = [parts EXCEPT ![e] = <<>>]
      /\ attempt' = [attempt EXCEPT ![e] = 0] /\ pub' = [pub EXCEPT ![e] = <<>>]
  BY Zenon DEF ZmqRestart
<1>3. /\ ipc_lock' = [ipc_lock EXCEPT ![e] = "free"] /\ building' = [building EXCEPT ![e] = <<>>]
      /\ call' = [call EXCEPT ![e] = [t \in Threads |-> 0]]
      /\ put' = [put EXCEPT ![e] = [t \in Threads |-> 0]]
  BY Zenon DEF ZmqRestart
<1>4. QueuesTyped /\ UsersTyped /\ CallsTyped /\ Peer(e) \in Endpoints /\ Peer(e) # e
  BY Peers, Zenon DEF ZmqIInv, ZmqTyped
<1>5. <<>> \in Seq(Messages) /\ SubSeq(wire[Peer(e)], 1, kept) \in Seq(Messages)
  <2>1. wire[Peer(e)] \in Seq(Messages)
    BY <1>4, Zenon DEF QueuesTyped
  <2>2. QED
    BY <1>1, <2>1
<1>6. QueuesTyped'
  <2>1. wire' \in [Endpoints -> Seq(Messages)]
    BY <1>1, <1>4, <1>5, Zenon DEF QueuesTyped
  <2>2. mailbox' \in [Endpoints -> Seq(Messages)] /\ parts' \in [Endpoints -> Seq(Messages)]
        /\ pub' \in [Endpoints -> Seq(Messages)]
    BY <1>2, <1>4, <1>5, Zenon DEF QueuesTyped
  <2>3. attempt' \in [Endpoints -> Nat]
    BY <1>2, <1>4, Zenon DEF QueuesTyped
  <2>4. \A d \in Endpoints : attempt'[d] > 0 => parts'[d] # <<>>
    BY <1>2, <1>4 DEF QueuesTyped
  <2>5. QED
    BY <2>1, <2>2, <2>3, <2>4, Zenon DEF QueuesTyped
<1>7. CallsTyped'
  BY <1>3, <1>4 DEF CallsTyped
<1>8. LockInv(r)'
  <2>1. CASE r = e
    <3>1. ipc_lock'[r] = "free" /\ building'[r] = <<>> /\ \A t \in Threads : call'[r][t] = 0 /\ put'[r][t] = 0
      BY <1>3, <1>4, <2>1, Zenon DEF CallsTyped
    <3>2. QED
      BY <3>1, ZmqAssumption, Zenon DEF LockInv
  <2>2. CASE r # e
    <3>1. ipc_lock'[r] = ipc_lock[r] /\ building'[r] = building[r] /\ call'[r] = call[r] /\ put'[r] = put[r]
      BY <1>3, <1>4, <2>2, Zenon DEF CallsTyped
    <3>2. QED
      BY <1>2, <3>1 DEF ZmqIInv, LockInv
  <2>3. QED
    BY <2>1, <2>2, Zenon
<1>9. OrderInv(r)'
  <2>1. CASE r = e
    <3>1. /\ pub'[r] = <<>> /\ wire'[r] = <<>> /\ parts'[Peer(r)] = parts[Peer(r)]
          /\ mailbox'[Peer(r)] = mailbox[Peer(r)] /\ ipc_lock'[Peer(r)] = ipc_lock[Peer(r)]
      BY <1>1, <1>2, <1>3, <1>4, <2>1, Zenon DEF QueuesTyped, CallsTyped
    <3>2. InOrder(<<>>, <<>>, parts[Peer(r)], mailbox[Peer(r)], LatestOf(seen[r]), Whole_sent(Peer(r)))
      BY Bounds, InOrderLose, Zenon DEF ZmqIInv, OrderInv
    <3>3. Whole_sent(Peer(r))' = Whole_sent(Peer(r))
      BY <1>2, <3>1, Zenon DEF Whole_sent
    <3>4. QED
      BY <1>2, <3>1, <3>2, <3>3, Zenon DEF OrderInv
  <2>2. CASE Peer(r) = e
    <3>1. Peer(e) = r
      BY <2>2, Peers, Zenon
    <3>2. /\ pub'[r] = pub[r] /\ wire'[r] = SubSeq(wire[r], 1, kept) /\ parts'[e] = <<>>
          /\ mailbox'[e] = <<>> /\ ipc_lock'[e] = "free"
      BY <1>1, <1>2, <1>3, <1>4, <3>1, Zenon DEF QueuesTyped, CallsTyped
    <3>3. InOrder(pub[r], SubSeq(wire[r], 1, kept), parts[e], mailbox[e], LatestOf(seen[r]), Whole_sent(e))
      BY <1>1, <2>2, <3>1, Bounds, InOrderLose, Zenon DEF ZmqIInv, OrderInv
    <3>4. InOrder(pub[r], SubSeq(wire[r], 1, kept), <<>>, <<>>, LatestOf(seen[r]), sent[e])
      BY <1>5, <2>2, <3>1, <3>3, Bounds, InOrderLose, Zenon
    <3>5. Whole_sent(e)' = sent[e]
      BY <1>2, <3>2, Zenon DEF Whole_sent
    <3>6. QED
      BY <1>2, <2>2, <3>2, <3>4, <3>5, Zenon DEF OrderInv
  <2>3. QED
    BY <2>1, <2>2, Peers, Zenon
<1>10. ZmqChannelStep(r) /\ UsersTyped'
  BY <1>2, <1>4, Zenon DEF ZmqChannelStep, Same, UsersTyped
<1>11. QED
  BY <1>6, <1>7, <1>8, <1>9, <1>10, Zenon DEF ZmqTyped

\* Every step keeps the invariant and is a step of the channel.
LEMMA ZmqNextInv ==
    ASSUME ZmqIInv, ZmqNext
    PROVE  ZmqIInv' /\ \A r \in Endpoints : ZmqChannelStep(r)
<1>1. ASSUME NEW r \in Endpoints PROVE ZmqTyped' /\ LockInv(r)' /\ OrderInv(r)' /\ ZmqChannelStep(r)
  <2>1. CASE Connect
    BY <2>1, ZmqQuietStep, Zenon
  <2>2. CASE Disconnect
    BY <2>2, ZmqDisconnectStep, Zenon
  <2>3. ASSUME NEW e \in Endpoints, ZmqStep(e)
        PROVE  ZmqTyped' /\ LockInv(r)' /\ OrderInv(r)' /\ ZmqChannelStep(r)
    <3>1. CASE \E t \in Threads : ipc_send(e, t) \/ send(e, t)
      BY <3>1, ZmqIpcSendStep, ZmqSendStep, Zenon
    <3>2. CASE handle_external(e) \/ handle_mailbox(e) \/ SendExternal(e) \/ SendFails(e)
      BY <3>2, ZmqExternalStep, ZmqMailboxStep, ZmqExternalSendStep, ZmqFailStep, Zenon
    <3>3. CASE subscribe(e) \/ sub_worker(e) \/ ZmqRestart(e)
      BY <3>3, ZmqQuietStep, ZmqListenStep, ZmqRestartStep, Zenon
    <3>4. QED
      BY <2>3, <3>1, <3>2, <3>3, Zenon DEF ZmqStep
  <2>4. QED
    BY <2>1, <2>2, <2>3, Zenon DEF ZmqNext
<1>2. "client" \in Endpoints
  BY Zenon DEF Endpoints
<1>3. QED
  BY <1>1, <1>2, Zenon DEF ZmqIInv
=============================================================================
