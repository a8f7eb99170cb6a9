----------------------------- MODULE TcpCbProofs -----------------------------
(***************************************************************************)
(* What the handlers of TcpCb leave alone and what they announce, for any  *)
(* control block and any segment, with data or without.  Both TcpHost and  *)
(* TcpPair rest their wake-up properties on it: whatever a thread may be   *)
(* waiting for changes only together with a notification.                  *)
(***************************************************************************)
EXTENDS TcpCb, WellFoundedInduction, TLAPS

\* A non-empty set of numbers has a least one.
LEMMA MinIn ==
    ASSUME NEW S, S \subseteq Nat, S # {}
    PROVE  Min(S) \in S /\ \A y \in S : Min(S) <= y
<1> DEFINE R == OpToRel(<, Nat)
<1>1. \E x \in S : \A y \in S : ~(<<y, x>> \in R)
  BY NatLessThanWellFounded, WFMin
<1>2. R = {ss \in Nat \X Nat : ss[1] < ss[2]}
  BY DEF OpToRel
<1> HIDE DEF R
<1>3. PICK x \in S : \A y \in S : ~(<<y, x>> \in R)
  BY <1>1
<1>4. \A y \in S : x <= y
  <2>1. SUFFICES ASSUME NEW y \in S, ~(x <= y) PROVE FALSE
    OBVIOUS
  <2>2. x \in Nat /\ y \in Nat /\ y < x
    BY <2>1
  <2>3. <<y, x>> \in R
    BY <1>2, <2>2
  <2>4. QED
    BY <1>3, <2>3
<1>5. QED
  BY <1>4 DEF Min

\* Induction up to n, for the elements of a set.
LEMMA UpTo ==
    ASSUME NEW n \in Nat, NEW S, 0 \in S,
           \A i \in 1..n : i - 1 \in S => i \in S
    PROVE  \A i \in 0..n : i \in S
<1> SUFFICES ASSUME (0..n) \ S # {} PROVE FALSE
  OBVIOUS
<1> DEFINE m == Min((0..n) \ S)
<1>1. m \in (0..n) \ S /\ \A y \in (0..n) \ S : m <= y
  BY MinIn
<1> HIDE DEF m
<1>2. m \in 1..n /\ m - 1 \in 0..n
  BY <1>1
<1>3. m - 1 \in S
  BY <1>1, <1>2
<1>4. QED
  BY <1>1, <1>2, <1>3

\* A recursive function on 0..n: what it is at 0 and how it goes on.
Recursive(f, n, a, G) == f[0] = a /\ \A i \in 1..n : f[i] = G[i][f[i - 1]]

LEMMA Recursion ==
    ASSUME NEW n \in Nat, NEW V, NEW a \in V, NEW G \in [1..n -> [V -> V]]
    PROVE  \E f \in [0..n -> V] : Recursive(f, n, a, G)
<1> DEFINE Good(f, m) == f[0] = a /\ \A i \in 1..m : f[i] = G[i][f[i - 1]]
           S == {m \in 0..n : \E f \in [0..m -> V] : Good(f, m)}
<1>1. 0 \in S
  <2> DEFINE f == [i \in 0..0 |-> a]
  <2>1. f \in [0..0 -> V] /\ Good(f, 0)
    OBVIOUS
  <2> HIDE DEF f, Good
  <2>2. QED
    BY <2>1
<1>2. ASSUME NEW m \in 1..n, m - 1 \in S PROVE m \in S
  <2>1. PICK f \in [0..(m - 1) -> V] : Good(f, m - 1)
    BY <1>2
  <2> DEFINE v == G[m][f[m - 1]]
             g == [i \in 0..m |-> IF i = m THEN v ELSE f[i]]
  <2>2. v \in V
    OBVIOUS
  <2>3. g \in [0..m -> V]
    BY <2>2
  <2>4. g[m] = v /\ \A i \in 0..(m - 1) : g[i] = f[i]
    OBVIOUS
  <2> HIDE DEF g
  <2>5. Good(g, m)
    <3>1. g[0] = a
      BY <2>1, <2>4
    <3>2. ASSUME NEW i \in 1..m PROVE g[i] = G[i][g[i - 1]]
      <4>1. i - 1 \in 0..(m - 1) /\ (i # m => i \in 1..(m - 1))
        OBVIOUS
      <4>2. g[i - 1] = f[i - 1] /\ (i # m => g[i] = f[i])
        BY <2>4, <4>1
      <4>3. QED
        BY <2>1, <2>4, <4>1, <4>2
    <3>3. QED
      BY <3>1, <3>2
  <2> HIDE DEF Good
  <2>6. QED
    BY <2>3, <2>5
<1> HIDE DEF S
<1>3. \A i \in 1..n : i - 1 \in S => i \in S
  BY <1>2
<1>4. \A i \in 0..n : i \in S
  BY <1>1, <1>3, UpTo
<1>5. QED
  BY <1>4 DEF S, Recursive

(***************************************************************************)
(* The loops of the timer thread over a queue.                             *)
(***************************************************************************)
LEMMA DataLenNat ==
    ASSUME NEW txq, NEW n \in Nat, \A i \in 1..n : Len(txq[i].seg.data) \in Nat
    PROVE  DataLen(txq, n) \in Nat
<1> DEFINE G == [i \in 1..n |-> [v \in Nat |-> v + Len(txq[i].seg.data)]]
           Eq(f) == f = [i \in 0..n |-> IF i = 0 THEN 0
                                        ELSE f[i - 1] + Len(txq[i].seg.data)]
<1>1. G \in [1..n -> [Nat -> Nat]]
  OBVIOUS
<1>2. \A i \in 1..n, v \in Nat : G[i][v] = v + Len(txq[i].seg.data)
  OBVIOUS
<1> HIDE DEF G
<1>3. \E f \in [0..n -> Nat] : Recursive(f, n, 0, G)
  BY <1>1, Recursion
<1>4. PICK f \in [0..n -> Nat] : f[0] = 0 /\ \A i \in 1..n : f[i] = G[i][f[i - 1]]
  BY <1>3 DEF Recursive
<1>5. ASSUME NEW i \in 0..n
      PROVE  f[i] = IF i = 0 THEN 0 ELSE f[i - 1] + Len(txq[i].seg.data)
  <2>1. CASE i = 0
    BY <1>4, <2>1
  <2>2. CASE i # 0
    <3>1. i \in 1..n /\ i - 1 \in 0..n
      BY <2>2
    <3>2. f[i - 1] \in Nat
      BY <3>1
    <3>3. QED
      BY <1>2, <1>4, <2>2, <3>1, <3>2
  <2>3. QED
    BY <2>1, <2>2
<1>6. Eq(f)
  BY <1>5
<1> DEFINE h == CHOOSE g : Eq(g)
<1>7. Eq(h)
  <2> HIDE DEF Eq
  <2> QED
    BY <1>6
<1>8. DataLen(txq, n) = h[n]
  BY DEF DataLen
<1> HIDE DEF h
<1> DEFINE S == {i \in 0..n : h[i] \in Nat}
<1>9. 0 \in S
  BY <1>7
<1>10. ASSUME NEW i \in 1..n, i - 1 \in S PROVE i \in S
  <2>1. i \in 0..n /\ i # 0
    OBVIOUS
  <2>2. h[i] = h[i - 1] + Len(txq[i].seg.data)
    BY <1>7, <2>1
  <2> HIDE DEF Eq
  <2>3. h[i - 1] \in Nat /\ Len(txq[i].seg.data) \in Nat
    BY <1>10
  <2> DEFINE v == h[i - 1]
             l == Len(txq[i].seg.data)
             w == h[i]
  <2>4. v \in Nat /\ l \in Nat /\ w = v + l
    BY <2>2, <2>3
  <2> HIDE DEF v, l, w
  <2>5. w \in Nat
    BY <2>4
  <2> HIDE DEF S
  <2>6. QED
    BY <2>1, <2>5 DEF S, w
<1> HIDE DEF S, Eq
<1>11. \A i \in 1..n : i - 1 \in S => i \in S
  BY <1>10
<1>12. \A i \in 0..n : i \in S
  BY <1>9, <1>11, UpTo
<1>13. QED
  BY <1>8, <1>12 DEF S

\* The timer thread keeps entries of the queue, and every one it should keep.
LEMMA KeptIs ==
    ASSUME NEW cb, NEW E, cb.txq \in Seq(E)
    PROVE  /\ Kept(cb) \in Seq({x \in E : Unacked(cb, x)})
           /\ \A j \in 1..Len(cb.txq) : Unacked(cb, cb.txq[j]) =>
                \E k \in 1..Len(Kept(cb)) : Kept(cb)[k] = cb.txq[j]
<1> DEFINE q == cb.txq
           n == Len(q)
           U == {x \in E : Unacked(cb, x)}
           V == Seq(U)
           step(i, v) == IF Unacked(cb, q[i]) THEN Append(v, q[i]) ELSE v
           G == [i \in 1..n |-> [v \in V |-> step(i, v)]]
           Eq(f) == f = [i \in 0..n |->
                           IF i = 0 THEN <<>>
                           ELSE IF Unacked(cb, q[i]) THEN Append(f[i - 1], q[i])
                           ELSE f[i - 1]]
           h == CHOOSE g : Eq(g)
<1>1. n \in Nat /\ <<>> \in V /\ \A i \in 1..n : q[i] \in E
  OBVIOUS
<1>2. Kept(cb) = h[n]
  BY DEF Kept
<1>3. ASSUME NEW i \in 1..n, NEW v \in V
      PROVE  /\ step(i, v) \in V
             /\ Len(v) \in Nat
             /\ \A k \in 1..Len(v) : k \in 1..Len(step(i, v)) /\ step(i, v)[k] = v[k]
             /\ Unacked(cb, q[i]) =>
                  /\ Len(v) + 1 \in 1..Len(step(i, v))
                  /\ step(i, v)[Len(v) + 1] = q[i]
  <2>1. Unacked(cb, q[i]) => q[i] \in U
    BY <1>1
  <2> HIDE DEF q, U
  <2>2. QED
    BY <2>1
<1> HIDE DEF q, n, V
<1>4. G \in [1..n -> [V -> V]]
  <2> HIDE DEF step
  <2> QED
    BY <1>3
<1>5. \A i \in 1..n, v \in V : G[i][v] = step(i, v)
  <2> HIDE DEF step
  <2> QED
    OBVIOUS
<1> HIDE DEF G
<1>6. \E f \in [0..n -> V] : Recursive(f, n, <<>>, G)
  BY <1>1, <1>4, Recursion
<1>7. PICK f \in [0..n -> V] : f[0] = <<>> /\ \A i \in 1..n : f[i] = G[i][f[i - 1]]
  BY <1>6 DEF Recursive
<1>8. ASSUME NEW i \in 0..n
      PROVE  f[i] = IF i = 0 THEN <<>>
                    ELSE IF Unacked(cb, q[i]) THEN Append(f[i - 1], q[i])
                    ELSE f[i - 1]
  <2>1. CASE i = 0
    BY <1>7, <2>1
  <2>2. CASE i # 0
    <3>1. i \in 1..n /\ i - 1 \in 0..n
      BY <1>1, <2>2
    <3>2. f[i - 1] \in V
      BY <3>1
    <3>3. f[i] = step(i, f[i - 1])
      BY <1>5, <1>7, <3>1, <3>2
    <3>4. QED
      BY <2>2, <3>3
  <2>3. QED
    BY <2>1, <2>2
<1>9. Eq(f)
  BY <1>8
<1>10. Eq(h)
  <2> HIDE DEF Eq
  <2> QED
    BY <1>9
<1> HIDE DEF h
<1> DEFINE Has(v, j) == \E k \in 1..Len(v) : v[k] = q[j]
           S == {i \in 0..n : /\ h[i] \in V
                              /\ \A j \in 1..i : Unacked(cb, q[j]) => Has(h[i], j)}
<1>11. 0 \in S
  BY <1>1, <1>10
<1>12. ASSUME NEW i \in 1..n, i - 1 \in S PROVE i \in S
  <2>1. i \in 0..n /\ i # 0 /\ \A j \in 1..i : j # i => j \in 1..(i - 1)
    BY <1>1
  <2>2. h[i] = step(i, h[i - 1])
    BY <1>10, <2>1
  <2>3. h[i - 1] \in V /\ \A j \in 1..(i - 1) : Unacked(cb, q[j]) => Has(h[i - 1], j)
    BY <1>12
  <2> HIDE DEF step, Eq
  <2>4. h[i] \in V
    BY <1>3, <2>2, <2>3
  <2>5. ASSUME NEW j \in 1..i, Unacked(cb, q[j]) PROVE Has(h[i], j)
    <3>1. CASE j = i
      <4>1. /\ Len(h[i - 1]) + 1 \in 1..Len(h[i])
            /\ h[i][Len(h[i - 1]) + 1] = q[j]
        BY <1>3, <2>2, <2>3, <2>5, <3>1
      <4>2. QED
        BY <4>1
    <3>2. CASE j # i
      <4>1. Has(h[i - 1], j)
        BY <2>1, <2>3, <2>5, <3>2
      <4>2. PICK k \in 1..Len(h[i - 1]) : h[i - 1][k] = q[j]
        BY <4>1
      <4>3. k \in 1..Len(h[i]) /\ h[i][k] = h[i - 1][k]
        BY <1>3, <2>2, <2>3
      <4>4. QED
        BY <4>2, <4>3
    <3>3. QED
      BY <3>1, <3>2
  <2> HIDE DEF Has
  <2>6. QED
    BY <2>1, <2>4, <2>5
<1> HIDE DEF S, Eq
<1>13. \A i \in 1..n : i - 1 \in S => i \in S
  BY <1>12
<1>14. \A i \in 0..n : i \in S
  BY <1>1, <1>11, <1>13, UpTo
<1>15. n \in S
  BY <1>1, <1>14
<1>16. h[n] \in V /\ \A j \in 1..n : Unacked(cb, q[j]) => Has(h[n], j)
  BY <1>15 DEF S
<1>17. QED
  BY <1>2, <1>16 DEF V, q, n

-----------------------------------------------------------------------------
CbFields ==
    {"used", "state", "port", "peer", "snd_nxt", "snd_una", "snd_wl1", "snd_wl2",
     "snd_wnd", "iss", "rcv_nxt", "rcv_wnd", "txq", "snt", "buf", "parent",
     "backlog", "left"}

CbShape(cb) == cb = [f \in CbFields |-> cb[f]]

\* d is c up to the transmission queue.
Alike(c, d) ==
    /\ CbShape(d)
    /\ \A f \in CbFields \ {"txq", "snt"} : d[f] = c[f]

\* tcp_tx only touches the transmission queue.
LEMMA TxAlike ==
    ASSUME NEW r, CbShape(r.cb), NEW seq, NEW ack, NEW flg, NEW data, NEW ok
    PROVE  /\ Alike(r.cb, tcp_tx(r, seq, ack, flg, data, ok).cb)
           /\ tcp_tx(r, seq, ack, flg, data, ok).push = r.push
           /\ tcp_tx(r, seq, ack, flg, data, ok).wake = r.wake
  BY DEF tcp_tx, tcp_txq_add, Alike, CbShape, CbFields

-----------------------------------------------------------------------------
\* What identifies a socket: no handler changes it.
SameSocket(c, d) ==
    /\ d.used = c.used /\ d.port = c.port /\ d.peer = c.peer
    /\ d.backlog = c.backlog

\* The state changes the handlers make without a notification.
QuietStates(s, t) ==
    \/ t = s
    \/ s = "FIN_WAIT1" /\ t = "FIN_WAIT2"
    \/ s = "CLOSING" /\ t = "TIME_WAIT"

\* What connect, send and recv wait for has not changed from c to d.
Quiet(c, d) ==
    /\ QuietStates(c.state, d.state)
    /\ d.snd_una = c.snd_una /\ d.snd_nxt = c.snd_nxt /\ d.rcv_wnd = c.rcv_wnd

\* States a handler may leave a control block in, coming from s: it opens no
\* connection in a closed one and never returns to LISTEN or SYN_SENT.
Onward(s, t) ==
    /\ s = "CLOSED" => t = "CLOSED"
    /\ t \in {"LISTEN", "SYN_SENT"} => t = s

\* snd.nxt moves with the application's calls only, and no handler leaves the
\* states behind our own FIN but to CLOSED.
Finned(s) == s \in {"FIN_WAIT1", "FIN_WAIT2", "CLOSING", "TIME_WAIT", "LAST_ACK"}
NextKept(c, d) ==
    /\ d.snd_nxt \in {c.snd_nxt, 0}
    /\ Finned(c.state) => Finned(d.state) \/ d.snd_nxt = 0

\* The result q of a handler goes on from its result r so far.
Continues(r, q) ==
    /\ CbShape(q.cb) /\ SameSocket(r.cb, q.cb) /\ q.cb.parent = r.cb.parent
    /\ q.push = r.push
    /\ Onward(r.cb.state, q.cb.state) /\ NextKept(r.cb, q.cb)
    /\ q.wake \notin {"one", "all"} =>
           r.wake \notin {"one", "all"} /\ Quiet(r.cb, q.cb)

LEMMA ContinuesRefl ==
    ASSUME NEW r, CbShape(r.cb)
    PROVE  Continues(r, r)
  BY DEF Continues, SameSocket, Onward, NextKept, Finned, Quiet, QuietStates

LEMMA ContinuesTrans ==
    ASSUME NEW p, NEW q, NEW r, Continues(p, q), Continues(q, r)
    PROVE  Continues(p, r)
  BY DEF Continues, SameSocket, Onward, NextKept, Finned, Quiet, QuietStates

LEMMA TxContinues ==
    ASSUME NEW r, CbShape(r.cb), NEW seq, NEW ack, NEW flg, NEW data, NEW ok
    PROVE  Continues(r, tcp_tx(r, seq, ack, flg, data, ok))
<1> DEFINE q == tcp_tx(r, seq, ack, flg, data, ok)
<1>1. Alike(r.cb, q.cb) /\ q.push = r.push /\ q.wake = r.wake
  BY TxAlike
<1> HIDE DEF q
<1>2. QED
  BY <1>1 DEF q, Alike, CbFields, Continues, SameSocket, Onward, NextKept,
             Quiet, QuietStates

LEMMA AckContinues ==
    ASSUME NEW r, CbShape(r.cb), NEW ok
    PROVE  Continues(r, SendAck(r, ok))
  BY TxContinues DEF SendAck

\* A notified result may have changed anything but the socket.
LEMMA NotifiedContinues ==
    ASSUME NEW r, NEW q, CbShape(q.cb), SameSocket(r.cb, q.cb),
           q.cb.parent = r.cb.parent, q.push = r.push,
           Onward(r.cb.state, q.cb.state), NextKept(r.cb, q.cb)
    PROVE  Continues(r, Broadcast(q)) /\ Continues(r, Signal(q))
  BY DEF Continues, Broadcast, Signal, Notified

LEMMA BroadcastContinues ==
    ASSUME NEW r, NEW q, Continues(r, q)
    PROVE  Continues(r, Broadcast(q)) /\ Continues(r, Signal(q))
  BY NotifiedContinues DEF Continues

\* tcp_close_cb, announced.
LEMMA CloseContinues ==
    ASSUME NEW r, CbShape(r.cb)
    PROVE  Continues(r, Broadcast(CloseCb(r))) /\ Continues(r, Signal(CloseCb(r)))
<1> DEFINE d == tcp_close_cb(r.cb)
<1>1. CbShape(d) /\ SameSocket(r.cb, d) /\ d.parent = r.cb.parent
        /\ d.state = "CLOSED" /\ d.snd_nxt = 0
  BY DEF tcp_close_cb, CbShape, CbFields, SameSocket
<1> HIDE DEF d
<1>2. CloseCb(r).cb = d /\ CloseCb(r).push = r.push
  BY DEF CloseCb, With, d
<1> HIDE DEF CloseCb
<1>3. QED
  BY <1>1, <1>2, NotifiedContinues DEF Onward, NextKept

\* Text copied into the window is announced.
LEMMA TextReceivedContinues ==
    ASSUME NEW r, CbShape(r.cb), NEW seg, NEW ok
    PROVE  Continues(r, TextReceived(r, seg, ok))
<1> DEFINE d == [r.cb EXCEPT !.buf = @ \o seg.data,
                             !.rcv_nxt = SeqAdd(seg.seq, Len(seg.data)),
                             !.rcv_wnd = Uint16(@ - Len(seg.data))]
           q == With(r, d)
<1>1. CbShape(d) /\ SameSocket(r.cb, d) /\ d.parent = r.cb.parent
        /\ d.state = r.cb.state /\ d.snd_nxt = r.cb.snd_nxt
  BY DEF CbShape, CbFields, SameSocket
<1> HIDE DEF d
<1>2. q.cb = d /\ q.push = r.push /\ q.wake = r.wake
  BY DEF With
<1>3. Continues(q, SendAck(q, ok))
  BY <1>1, <1>2, AckContinues
<1>4. TextReceived(r, seg, ok) = Broadcast(SendAck(q, ok))
  BY DEF TextReceived, d
<1> HIDE DEF q
<1>5. /\ CbShape(SendAck(q, ok).cb) /\ SameSocket(r.cb, SendAck(q, ok).cb)
      /\ SendAck(q, ok).cb.parent = r.cb.parent /\ SendAck(q, ok).push = r.push
      /\ Onward(r.cb.state, SendAck(q, ok).cb.state)
      /\ NextKept(r.cb, SendAck(q, ok).cb)
  BY <1>1, <1>2, <1>3 DEF Continues, SameSocket, NextKept
<1>6. QED
  BY <1>4, <1>5, NotifiedContinues

LEMMA TextContinues ==
    ASSUME NEW r, CbShape(r.cb), NEW seg, NEW ok
    PROVE  Continues(r, SegmentText(r, seg, ok))
<1>1. Continues(r, r) /\ Continues(r, TextReceived(r, seg, ok))
  BY ContinuesRefl, TextReceivedContinues
<1>2. Continues(r, Broadcast(SendAck(r, ok)))
  BY AckContinues, BroadcastContinues
<1>3. QED
  BY <1>1, <1>2 DEF SegmentText

\* So is a FIN, whatever state it is taken in.
LEMMA FinContinues ==
    ASSUME NEW r, CbShape(r.cb), NEW seg, NEW ok
    PROVE  Continues(r, SegmentFin(r, seg, ok))
<1> DEFINE d == [r.cb EXCEPT !.rcv_nxt = SeqAdd(seg.seq, 1)]
           q == With(r, d)
           acked == SendAck(q, ok)
           next  == CASE r.cb.state \in {"SYN_RCVD", "ESTABLISHED"} -> "CLOSE_WAIT"
                      [] r.cb.state = "FIN_WAIT1" -> "CLOSING"
                      [] r.cb.state = "FIN_WAIT2" -> "TIME_WAIT"
                      [] OTHER -> r.cb.state
           f == [acked.cb EXCEPT !.state = next,
                                 !.left = IF next = "TIME_WAIT"
                                          THEN TimeWaitTimeout + 1 ELSE @]
<1>1. CbShape(d) /\ SameSocket(r.cb, d) /\ d.parent = r.cb.parent
        /\ d.state = r.cb.state /\ d.snd_nxt = r.cb.snd_nxt
  BY DEF CbShape, CbFields, SameSocket
<1>2. q.cb = d /\ q.push = r.push /\ q.wake = r.wake
  BY DEF With
<1>3. Onward(r.cb.state, next) /\ (Finned(r.cb.state) => Finned(next))
  BY DEF Onward, Finned
<1>4. FinReceived(r, seg, ok) = With(acked, f)
  BY DEF FinReceived
<1> HIDE DEF d, next
<1>5. Continues(q, acked)
  BY <1>1, <1>2, AckContinues
<1> HIDE DEF q, acked
<1>6. /\ CbShape(f) /\ SameSocket(acked.cb, f) /\ f.parent = acked.cb.parent
      /\ f.state = next /\ f.snd_nxt = acked.cb.snd_nxt
  BY <1>5 DEF Continues, CbShape, CbFields, SameSocket
<1> HIDE DEF f
<1>7. /\ With(acked, f).cb = f /\ With(acked, f).push = acked.push
  BY DEF With
<1>8. /\ CbShape(f) /\ SameSocket(r.cb, f) /\ f.parent = r.cb.parent
      /\ acked.push = r.push /\ Onward(r.cb.state, f.state) /\ NextKept(r.cb, f)
  BY <1>1, <1>2, <1>3, <1>5, <1>6 DEF Continues, SameSocket, NextKept
<1>9. Continues(r, Broadcast(With(acked, f)))
  <2> DEFINE w == With(acked, f)
  <2>1. w.cb = f /\ w.push = r.push
    BY <1>7, <1>8
  <2> HIDE DEF w
  <2>2. Continues(r, Broadcast(w))
    BY <1>8, <2>1, NotifiedContinues
  <2>3. QED
    BY <2>2 DEF w
<1>10. QED
  BY <1>4, <1>9, ContinuesRefl DEF SegmentFin

LEMMA TextAndFinContinues ==
    ASSUME NEW r, CbShape(r.cb), NEW seg, NEW ok
    PROVE  Continues(r, TextAndFin(r, seg, ok))
<1>1. Continues(r, SegmentText(r, seg, ok))
  BY TextContinues
<1>2. Continues(SegmentText(r, seg, ok), TextAndFin(r, seg, ok))
  BY <1>1, FinContinues DEF TextAndFin, Continues
<1>3. QED
  BY <1>1, <1>2, ContinuesTrans

-----------------------------------------------------------------------------
(***************************************************************************)
(* tcp_event_segment_arrives, state by state.                              *)
(***************************************************************************)
LEMMA ResultIs ==
    ASSUME NEW cb
    PROVE  /\ Result(cb).cb = cb /\ Result(cb).push = FALSE
           /\ Result(cb).wake = "none"
  BY DEF Result

LEMMA ClosedContinues ==
    ASSUME NEW cb, CbShape(cb), NEW seg, NEW ok
    PROVE  Continues(Result(cb), ArrivesClosed(cb, seg, ok))
  BY ResultIs, ContinuesRefl, TxContinues DEF ArrivesClosed

\* What becomes of a control block taken for a new connection.
LEMMA ListenHandled ==
    ASSUME NEW cb, CbShape(cb), NEW seg, NEW iss, NEW ok
    PROVE  LET r == ArrivesListen(cb, seg, iss, ok)
           IN  /\ CbShape(r.cb) /\ SameSocket(cb, r.cb)
               /\ r.cb.state \notin {"LISTEN", "SYN_SENT"}
               /\ r.cb.snd_nxt \in {SeqAdd(iss, 1), 0}
               /\ r.push = FALSE
<1> DEFINE reset == IF "ACK" \in seg.flg /\ "RST" \notin seg.flg
                    THEN tcp_tx(Result(cb), seg.ack, 0, {"RST"}, <<>>, ok)
                    ELSE Result(cb)
           ready == [cb EXCEPT !.rcv_wnd = WinSize,
                               !.rcv_nxt = SeqAdd(seg.seq, 1), !.iss = iss]
           synack == tcp_tx(Result(ready), iss, ready.rcv_nxt, {"SYN", "ACK"},
                            <<>>, ok)
           d == [synack.cb EXCEPT !.snd_nxt = SeqAdd(iss, 1), !.snd_una = iss,
                                  !.left = UserTimeout + 1, !.state = "SYN_RCVD"]
           taken == TextAndFin(With(synack, d), seg, ok)
           f == [tcp_close_cb(reset.cb) EXCEPT !.parent = NoParent]
           refused == Broadcast(With(reset, f))
           Handled(r) == /\ CbShape(r.cb) /\ SameSocket(cb, r.cb)
                         /\ r.cb.state \notin {"LISTEN", "SYN_SENT"}
                         /\ r.cb.snd_nxt \in {SeqAdd(iss, 1), 0}
                         /\ r.push = FALSE
<1>1. Handled(taken)
  <2>1. CbShape(ready) /\ SameSocket(cb, ready)
    BY DEF CbShape, CbFields, SameSocket
  <2> HIDE DEF ready
  <2>2. Continues(Result(ready), synack)
    BY <2>1, ResultIs, TxContinues
  <2> HIDE DEF synack
  <2>3. CbShape(synack.cb) /\ SameSocket(cb, synack.cb) /\ synack.push = FALSE
    BY <2>1, <2>2, ResultIs DEF Continues, SameSocket
  <2>4. /\ CbShape(d) /\ SameSocket(cb, d) /\ d.state = "SYN_RCVD"
        /\ d.snd_nxt = SeqAdd(iss, 1)
    BY <2>3 DEF CbShape, CbFields, SameSocket
  <2> HIDE DEF d
  <2>5. With(synack, d).cb = d /\ With(synack, d).push = FALSE
    BY <2>3 DEF With
  <2>6. Continues(With(synack, d), taken)
    BY <2>4, <2>5, TextAndFinContinues
  <2> HIDE DEF taken
  <2>7. QED
    BY <2>4, <2>5, <2>6 DEF Continues, SameSocket, Onward, NextKept
<1>2. Handled(refused)
  <2>1. Continues(Result(cb), reset)
    BY ResultIs, ContinuesRefl, TxContinues
  <2> HIDE DEF reset
  <2>2. CbShape(reset.cb) /\ SameSocket(cb, reset.cb) /\ reset.push = FALSE
    BY <2>1, ResultIs DEF Continues
  <2>3. CbShape(f) /\ SameSocket(cb, f) /\ f.state = "CLOSED" /\ f.snd_nxt = 0
    BY <2>2 DEF tcp_close_cb, CbShape, CbFields, SameSocket
  <2> HIDE DEF f
  <2>4. refused.cb = f /\ refused.push = FALSE
    BY <2>2 DEF Broadcast, Notified, With
  <2> HIDE DEF refused
  <2>5. QED
    BY <2>3, <2>4
<1>3. ArrivesListen(cb, seg, iss, ok) \in {taken, refused}
  BY DEF ArrivesListen
<1> HIDE DEF taken, refused
<1>4. QED
  BY <1>1, <1>2, <1>3

\* connect is told of every way out of SYN_SENT.
LEMMA SynSentContinues ==
    ASSUME NEW cb, CbShape(cb), cb.state = "SYN_SENT", NEW seg, NEW ok
    PROVE  Continues(Result(cb), ArrivesSynSent(cb, seg, ok))
<1> DEFINE una == IF cb.snd_una < seg.ack THEN seg.ack ELSE cb.snd_una
           d(s) == [cb EXCEPT
                      !.rcv_nxt = SeqAdd(seg.seq, 1),
                      !.snd_una = una,
                      !.left = IF una # cb.snd_una THEN UserTimeout + 1 ELSE @,
                      !.state = s]
           estab == Signal(SendAck(Result(d("ESTABLISHED")), ok))
           rcvd  == Signal(tcp_tx(Result(d("SYN_RCVD")), cb.iss,
                                  SeqAdd(seg.seq, 1), {"SYN", "ACK"}, <<>>, ok))
<1>1. /\ Continues(Result(cb), Result(cb))
      /\ Continues(Result(cb), tcp_tx(Result(cb), seg.ack, 0, {"RST"}, <<>>, ok))
      /\ Continues(Result(cb), Signal(CloseCb(Result(cb))))
  BY ResultIs, ContinuesRefl, TxContinues, CloseContinues
<1>2. ASSUME NEW q, NEW s \in {"ESTABLISHED", "SYN_RCVD"},
             Continues(Result(d(s)), q)
      PROVE  Continues(Result(cb), Signal(q))
  <2>1. CbShape(d(s)) /\ SameSocket(cb, d(s)) /\ d(s).state = s
          /\ d(s).parent = cb.parent /\ d(s).snd_nxt = cb.snd_nxt
    <3> HIDE DEF una
    <3> QED
      BY DEF CbShape, CbFields, SameSocket
  <2>2. /\ CbShape(q.cb) /\ SameSocket(cb, q.cb) /\ q.cb.parent = cb.parent
        /\ q.push = FALSE /\ Onward(s, q.cb.state)
        /\ q.cb.snd_nxt \in {cb.snd_nxt, 0}
    <3> DEFINE c == d(s)
    <3>1. /\ CbShape(q.cb) /\ SameSocket(c, q.cb) /\ q.cb.parent = c.parent
          /\ q.push = FALSE /\ Onward(c.state, q.cb.state) /\ NextKept(c, q.cb)
      <4> HIDE DEF d
      <4> QED
        BY <1>2, ResultIs DEF Continues
    <3>2. /\ SameSocket(cb, c) /\ c.state = s /\ c.parent = cb.parent
          /\ c.snd_nxt = cb.snd_nxt
      BY <2>1
    <3> HIDE DEF c
    <3>3. SameSocket(cb, q.cb)
      BY <3>1, <3>2 DEF SameSocket
    <3>4. q.cb.snd_nxt \in {cb.snd_nxt, 0}
      BY <3>1, <3>2 DEF NextKept
    <3>5. QED
      BY <3>1, <3>2, <3>3, <3>4
  <2>3. Onward(cb.state, q.cb.state) /\ NextKept(cb, q.cb)
    BY <2>2 DEF Onward, NextKept, Finned
  <2>4. QED
    BY <2>2, <2>3, ResultIs, NotifiedContinues
<1>3. CbShape(d("ESTABLISHED")) /\ CbShape(d("SYN_RCVD"))
  <2> HIDE DEF una
  <2> QED
    BY DEF CbShape, CbFields
<1>4. Continues(Result(cb), estab) /\ Continues(Result(cb), rcvd)
  <2> HIDE DEF d
  <2> QED
    BY <1>2, <1>3, ResultIs, AckContinues, TxContinues
<1>5. Continues(Result(cb), TextAndFin(estab, seg, ok))
  <2> HIDE DEF estab, rcvd
  <2>1. CbShape(estab.cb)
    BY <1>4 DEF Continues
  <2>2. Continues(estab, TextAndFin(estab, seg, ok))
    BY <2>1, TextAndFinContinues
  <2>3. QED
    BY <1>4, <2>2, ContinuesTrans
<1>6. ArrivesSynSent(cb, seg, ok) \in
        {Result(cb), tcp_tx(Result(cb), seg.ack, 0, {"RST"}, <<>>, ok),
         Signal(CloseCb(Result(cb))), estab, rcvd, TextAndFin(estab, seg, ok)}
  BY DEF ArrivesSynSent
<1> HIDE DEF estab, rcvd
<1>7. QED
  BY <1>1, <1>4, <1>5, <1>6

LEMMA AckTakenContinues ==
    ASSUME NEW r, CbShape(r.cb), NEW seg
    PROVE  Continues(r, AckUpdate(r, seg))
<1> DEFINE q == AckTaken(r, seg)
           new(left, wnd, wl1, wl2) ==
             [r.cb EXCEPT !.snd_una = seg.ack, !.left = left, !.snd_wnd = wnd,
                          !.snd_wl1 = wl1, !.snd_wl2 = wl2]
<1>0. \E left, wnd, wl1, wl2 : q = With(r, new(left, wnd, wl1, wl2))
  BY DEF AckTaken
<1>1. /\ CbShape(q.cb) /\ SameSocket(r.cb, q.cb) /\ q.cb.parent = r.cb.parent
      /\ q.push = r.push /\ q.cb.state = r.cb.state
      /\ q.cb.snd_nxt = r.cb.snd_nxt
  <2> HIDE DEF q
  <2>1. PICK left, wnd, wl1, wl2 : q = With(r, new(left, wnd, wl1, wl2))
    BY <1>0
  <2>2. q.push = r.push /\ q.cb = new(left, wnd, wl1, wl2)
    BY <2>1 DEF With
  <2>3. QED
    BY <2>2 DEF CbShape, CbFields, SameSocket
<1> HIDE DEF q
<1>2. Continues(r, Broadcast(q))
  BY <1>1, NotifiedContinues DEF Onward, NextKept
<1>3. QED
  BY <1>2 DEF AckUpdate, q

\* The only state changes nobody is told of.
LEMMA FinAckedContinues ==
    ASSUME NEW r, CbShape(r.cb), NEW seg
    PROVE  Continues(r, FinAcked(r, seg))
<1> DEFINE next == CASE r.cb.state = "FIN_WAIT1" -> "FIN_WAIT2"
                     [] r.cb.state = "CLOSING" -> "TIME_WAIT"
                     [] OTHER -> r.cb.state
           d == [r.cb EXCEPT !.state = next]
<1>1. /\ QuietStates(r.cb.state, next) /\ Onward(r.cb.state, next)
      /\ Finned(r.cb.state) => Finned(next)
  BY DEF QuietStates, Onward, Finned
<1>2. FinAcked(r, seg) \in {r, With(r, d)}
  BY DEF FinAcked
<1> HIDE DEF next
<1>3. /\ CbShape(d) /\ SameSocket(r.cb, d) /\ d.parent = r.cb.parent
      /\ d.state = next /\ d.snd_una = r.cb.snd_una /\ d.snd_nxt = r.cb.snd_nxt
      /\ d.rcv_wnd = r.cb.rcv_wnd
  BY DEF CbShape, CbFields, SameSocket
<1> HIDE DEF d
<1>4. /\ With(r, d).cb = d /\ With(r, d).push = r.push
      /\ With(r, d).wake = r.wake
  BY DEF With
<1>5. Continues(r, With(r, d))
  BY <1>1, <1>3, <1>4 DEF Continues, Quiet, NextKept
<1>6. QED
  BY <1>2, <1>5, ContinuesRefl

\* An acceptable ACK in SYN_RCVD: established, and pushed on the parent's
\* backlog when there is one.
Established(cb) ==
    [cb |-> [cb EXCEPT !.state = "ESTABLISHED"], out |-> {},
     wake |-> IF cb.parent = NoParent THEN "one" ELSE "none",
     push |-> cb.parent # NoParent, failed |-> FALSE]

AfterAck(cb) == IF cb.state = "SYN_RCVD" THEN Established(cb) ELSE Result(cb)

LEMMA AfterAckIs ==
    ASSUME NEW cb, CbShape(cb)
    PROVE  /\ CbShape(AfterAck(cb).cb) /\ SameSocket(cb, AfterAck(cb).cb)
           /\ AfterAck(cb).cb.parent = cb.parent
           /\ AfterAck(cb).push \in BOOLEAN
           /\ AfterAck(cb).push => cb.state = "SYN_RCVD" /\ cb.parent # NoParent
           /\ cb.state # "SYN_RCVD" => AfterAck(cb) = Result(cb)
           /\ cb.state = "SYN_RCVD" => AfterAck(cb).cb.state = "ESTABLISHED"
           /\ AfterAck(cb).cb.snd_nxt = cb.snd_nxt
  BY DEF AfterAck, Established, Result, CbShape, CbFields, SameSocket

LEMMA SegmentAckContinues ==
    ASSUME NEW cb, CbShape(cb), NEW seg, NEW ok
    PROVE  \/ Continues(Result(cb), SegmentAck(cb, seg, ok).r)
           \/ Continues(AfterAck(cb), SegmentAck(cb, seg, ok).r)
<1> DEFINE r0 == AfterAck(cb)
           inWindow == cb.snd_una <= seg.ack /\ seg.ack <= cb.snd_nxt
           r1 == IF inWindow THEN AckUpdate(r0, seg) ELSE r0
<1>1. /\ Continues(Result(cb), Result(cb))
      /\ Continues(Result(cb), Broadcast(CloseCb(Result(cb))))
      /\ Continues(Result(cb), tcp_tx(Result(cb), seg.ack, cb.rcv_nxt, {"RST"},
                                      <<>>, ok))
  BY ResultIs, ContinuesRefl, TxContinues, CloseContinues
<1>2. Continues(r0, SendAck(r0, ok))
  BY AfterAckIs, AckContinues
<1>3. Continues(r0, r1)
  BY AfterAckIs, ContinuesRefl, AckTakenContinues
<1>4. Continues(r0, FinAcked(r1, seg))
  <2> HIDE DEF r0, r1
  <2>1. Continues(r1, FinAcked(r1, seg))
    BY <1>3, FinAckedContinues DEF Continues
  <2>2. QED
    BY <1>3, <2>1, ContinuesTrans
<1>5. SegmentAck(cb, seg, ok).r \in
        {Result(cb), Broadcast(CloseCb(Result(cb))),
         tcp_tx(Result(cb), seg.ack, cb.rcv_nxt, {"RST"}, <<>>, ok),
         SendAck(r0, ok), FinAcked(r1, seg)}
  BY DEF SegmentAck, AfterAck, Established
<1> HIDE DEF r0, r1
<1>6. QED
  BY <1>1, <1>2, <1>4, <1>5 DEF r0

LEMMA SynchronizedContinues ==
    ASSUME NEW cb, CbShape(cb), NEW seg, NEW ok
    PROVE  \/ Continues(Result(cb), ArrivesSynchronized(cb, seg, ok))
           \/ Continues(AfterAck(cb), ArrivesSynchronized(cb, seg, ok))
<1> DEFINE acked == SegmentAck(cb, seg, ok).r
           rst == tcp_tx(Result(cb), 0, cb.rcv_nxt, {"RST"}, <<>>, ok)
<1>1. /\ Continues(Result(cb), Result(cb))
      /\ Continues(Result(cb), SendAck(Result(cb), ok))
      /\ Continues(Result(cb), Signal(CloseCb(Result(cb))))
      /\ Continues(Result(cb), Broadcast(CloseCb(Result(cb))))
      /\ Continues(Result(cb), rst)
  BY ResultIs, ContinuesRefl, AckContinues, CloseContinues, TxContinues
<1> HIDE DEF rst
<1>2. Continues(Result(cb), Broadcast(CloseCb(rst)))
  <2>1. Continues(rst, Broadcast(CloseCb(rst)))
    BY <1>1, CloseContinues DEF Continues
  <2>2. QED
    BY <1>1, <2>1, ContinuesTrans
<1>3. Continues(Result(cb), acked) \/ Continues(AfterAck(cb), acked)
  BY SegmentAckContinues
<1>4. ArrivesSynchronized(cb, seg, ok) \in
        {Result(cb), SendAck(Result(cb), ok), Signal(CloseCb(Result(cb))),
         Broadcast(CloseCb(Result(cb))), Broadcast(CloseCb(rst)), acked,
         TextAndFin(acked, seg, ok)}
  BY DEF ArrivesSynchronized, rst
<1> HIDE DEF acked
<1>5. Continues(acked, TextAndFin(acked, seg, ok))
  BY <1>3, TextAndFinContinues DEF Continues
<1>6. \/ Continues(Result(cb), TextAndFin(acked, seg, ok))
      \/ Continues(AfterAck(cb), TextAndFin(acked, seg, ok))
  BY <1>3, <1>5, ContinuesTrans
<1>7. QED
  BY <1>1, <1>2, <1>3, <1>4, <1>6

-----------------------------------------------------------------------------
\* What any handler run on control block cb leaves in r.
Handled(cb, r) ==
    /\ CbShape(r.cb) /\ SameSocket(cb, r.cb)
    /\ r.cb.state # "LISTEN"
    /\ r.cb.state = "SYN_SENT" => cb.state = "SYN_SENT"
    /\ cb.state = "CLOSED" => r.cb.state = "CLOSED"
    /\ cb.state # "LISTEN" => NextKept(cb, r.cb)
    /\ r.push \in BOOLEAN
    /\ r.push => cb.state = "SYN_RCVD" /\ r.cb.parent = cb.parent
                   /\ cb.parent # NoParent
    /\ cb.state \notin {"LISTEN", "SYN_RCVD"} /\ r.wake \notin {"one", "all"} =>
           Quiet(cb, r.cb)

LEMMA ContinuesHandled ==
    ASSUME NEW cb, cb.state # "LISTEN", NEW r, Continues(Result(cb), r)
    PROVE  Handled(cb, r)
  BY ResultIs DEF Continues, Handled, Onward

LEMMA ArrivesHandled ==
    ASSUME NEW cb, CbShape(cb), NEW seg, NEW iss, NEW ok
    PROVE  Handled(cb, tcp_event_segment_arrives(cb, seg, iss, ok))
<1> DEFINE r == tcp_event_segment_arrives(cb, seg, iss, ok)
<1>1. CASE cb.state = "CLOSED"
  <2>1. r = ArrivesClosed(cb, seg, ok)
    BY <1>1 DEF tcp_event_segment_arrives
  <2>2. QED
    BY <1>1, <2>1, ClosedContinues, ContinuesHandled
<1>2. CASE cb.state = "LISTEN"
  <2>1. r = ArrivesListen(cb, seg, iss, ok)
    BY <1>2 DEF tcp_event_segment_arrives
  <2> HIDE DEF r
  <2>2. /\ CbShape(r.cb) /\ SameSocket(cb, r.cb)
        /\ r.cb.state \notin {"LISTEN", "SYN_SENT"} /\ r.push = FALSE
    BY <2>1, ListenHandled
  <2>3. QED
    BY <1>2, <2>2 DEF Handled, r
<1>3. CASE cb.state = "SYN_SENT"
  <2>1. r = ArrivesSynSent(cb, seg, ok)
    BY <1>3 DEF tcp_event_segment_arrives
  <2>2. QED
    BY <1>3, <2>1, SynSentContinues, ContinuesHandled
<1>4. CASE cb.state \notin {"CLOSED", "LISTEN", "SYN_SENT"}
  <2>1. r = ArrivesSynchronized(cb, seg, ok)
    BY <1>4 DEF tcp_event_segment_arrives
  <2> HIDE DEF r
  <2>2. CASE Continues(Result(cb), r)
    BY <1>4, <2>2, ContinuesHandled DEF r
  <2>3. CASE Continues(AfterAck(cb), r) /\ cb.state = "SYN_RCVD"
    BY <2>3, AfterAckIs DEF r, Continues, Handled, SameSocket, Onward, NextKept,
                            Finned
  <2>4. CASE Continues(AfterAck(cb), r) /\ cb.state # "SYN_RCVD"
    BY <1>4, <2>4, AfterAckIs, ContinuesHandled DEF r
  <2>5. QED
    BY <2>1, <2>2, <2>3, <2>4, SynchronizedContinues
<1>5. QED
  BY <1>1, <1>2, <1>3, <1>4

\* The timer thread's visit: closed with a broadcast, or only the queue changes.
LEMMA TimerHandled ==
    ASSUME NEW cb, CbShape(cb)
    PROVE  LET r == tcp_timer_cb(cb)
           IN  /\ CbShape(r.cb) /\ SameSocket(cb, r.cb) /\ r.push = FALSE
               /\ IF TimedOut(cb)
                  THEN /\ r.wake = "all" /\ r.cb.state = "CLOSED"
                       /\ r.cb.snd_nxt = 0
                  ELSE r.wake = "none" /\ Alike(cb, r.cb)
<1> DEFINE d == tcp_close_cb(cb)
<1>1. CbShape(d) /\ SameSocket(cb, d) /\ d.state = "CLOSED" /\ d.snd_nxt = 0
  BY DEF tcp_close_cb, CbShape, CbFields, SameSocket
<1> HIDE DEF d
<1>2. LET r == Broadcast(CloseCb(Result(cb)))
      IN  r.cb = d /\ r.push = FALSE /\ r.wake = "all"
  BY DEF Broadcast, Notified, CloseCb, With, Result, d
<1>3. Alike(cb, TimerTxq(cb).cb) /\ TimerTxq(cb).wake = "none"
        /\ TimerTxq(cb).push = FALSE
  BY DEF TimerTxq, Alike, CbShape, CbFields
<1>4. Alike(cb, cb) /\ SameSocket(cb, cb)
  BY DEF Alike, SameSocket
<1>5. SameSocket(cb, TimerTxq(cb).cb) /\ CbShape(TimerTxq(cb).cb)
  BY <1>3 DEF Alike, CbFields, SameSocket
<1>6. CASE cb.state = "CLOSED"
  BY <1>4, <1>6, ResultIs DEF tcp_timer_cb, TimedOut
<1>7. CASE cb.state # "CLOSED" /\ TimedOut(cb)
  BY <1>1, <1>2, <1>7 DEF tcp_timer_cb
<1>8. CASE cb.state # "CLOSED" /\ ~TimedOut(cb)
  BY <1>3, <1>5, <1>8 DEF tcp_timer_cb
<1>9. QED
  BY <1>6, <1>7, <1>8

\* The clock changes the ages and the time that is left.
LEMMA TickHandled ==
    ASSUME NEW cb, CbShape(cb)
    PROVE  /\ CbShape(TickCb(cb))
           /\ \A f \in CbFields \ {"left", "txq"} : TickCb(cb)[f] = cb[f]
  BY DEF TickCb, CbShape, CbFields

\* tcp_close: nobody is told of a connection that starts to close, everybody
\* of a listener or an unanswered SYN that is given up.
LEMMA CloseHandled ==
    ASSUME NEW cb, CbShape(cb), NEW ok
    PROVE  LET r == tcp_close(cb, ok)
           IN  /\ CbShape(r.cb)
               /\ r.cb.used = FALSE /\ r.cb.port = cb.port /\ r.cb.peer = cb.peer
               /\ r.cb.state \notin {"LISTEN", "SYN_SENT"}
               /\ cb.state = "CLOSED" => r.cb.state = "CLOSED"
               /\ cb.state \in {"LISTEN", "SYN_SENT"} =>
                      r.cb.state = "CLOSED" /\ r.wake = "all"
               /\ cb.state # "LISTEN" => r.cb.backlog = cb.backlog
<1> DEFINE c0 == [cb EXCEPT !.used = FALSE]
           c1 == [c0 EXCEPT !.backlog = <<>>]
           Kept0(d) == /\ CbShape(d) /\ d.used = FALSE /\ d.port = cb.port
                       /\ d.peer = cb.peer /\ d.backlog = cb.backlog
<1>1. Kept0(c0) /\ c0.state = cb.state
  BY DEF CbShape, CbFields
<1>2. CbShape(c1) /\ c1.used = FALSE /\ c1.port = cb.port /\ c1.peer = cb.peer
  BY <1>1 DEF CbShape, CbFields
<1> HIDE DEF c0, c1
<1>3. CASE cb.state = "LISTEN"
  <2>1. tcp_close(cb, ok) = Broadcast(CloseCb(Result(c1)))
    BY <1>3 DEF tcp_close, c0, c1
  <2>2. LET r == Broadcast(CloseCb(Result(c1)))
        IN  r.cb = tcp_close_cb(c1) /\ r.wake = "all"
    BY DEF Broadcast, Notified, CloseCb, With, Result
  <2>3. LET d == tcp_close_cb(c1)
        IN  CbShape(d) /\ d.used = FALSE /\ d.port = cb.port /\ d.peer = cb.peer
              /\ d.state = "CLOSED"
    BY <1>2 DEF tcp_close_cb, CbShape, CbFields
  <2>4. QED
    BY <1>3, <2>1, <2>2, <2>3
<1>4. CASE cb.state = "SYN_SENT"
  <2>1. tcp_close(cb, ok) = Broadcast(CloseCb(Result(c0)))
    BY <1>4 DEF tcp_close, c0
  <2>2. LET r == Broadcast(CloseCb(Result(c0)))
        IN  r.cb = tcp_close_cb(c0) /\ r.wake = "all"
    BY DEF Broadcast, Notified, CloseCb, With, Result
  <2>3. Kept0(tcp_close_cb(c0)) /\ tcp_close_cb(c0).state = "CLOSED"
    BY <1>1 DEF tcp_close_cb, CbShape, CbFields
  <2>4. QED
    BY <1>4, <2>1, <2>2, <2>3
<1>5. CASE cb.state \in {"SYN_RCVD", "ESTABLISHED", "CLOSE_WAIT"}
  <2>1. ASSUME NEW s \in {"FIN_WAIT1", "CLOSING"}
        PROVE  Kept0(CloseFin(c0, s, ok).cb) /\ CloseFin(c0, s, ok).cb.state = s
    <3> DEFINE r == tcp_tx(Result(c0), c0.snd_nxt, c0.rcv_nxt, {"FIN", "ACK"},
                           <<>>, ok)
    <3>1. Alike(c0, r.cb)
      BY <1>1, ResultIs, TxAlike
    <3>2. CloseFin(c0, s, ok).cb
            = [r.cb EXCEPT !.snd_nxt = SeqAdd(@, 1), !.state = s]
      BY DEF CloseFin, With
    <3> HIDE DEF r
    <3>3. Kept0(r.cb)
      BY <1>1, <3>1 DEF Alike, CbFields
    <3>4. QED
      BY <3>2, <3>3 DEF CbShape, CbFields
  <2>2. \E s \in {"FIN_WAIT1", "CLOSING"} : tcp_close(cb, ok) = CloseFin(c0, s, ok)
    BY <1>5 DEF tcp_close, c0
  <2>3. QED
    BY <1>5, <2>1, <2>2
<1>6. CASE cb.state \notin {"LISTEN", "SYN_SENT", "SYN_RCVD", "ESTABLISHED",
                            "CLOSE_WAIT"}
  <2>1. tcp_close(cb, ok) = Result(c0)
    BY <1>6 DEF tcp_close, c0
  <2>2. tcp_close(cb, ok).cb = c0
    BY <2>1, ResultIs
  <2>3. QED
    BY <1>1, <1>6, <2>2
<1>7. QED
  BY <1>3, <1>4, <1>5, <1>6

\* What tcp_close makes of the states and numbers send and recv look at.
LEMMA CloseNumbers ==
    ASSUME NEW cb, CbShape(cb), NEW ok
    PROVE  LET d == tcp_close(cb, ok).cb
           IN  /\ cb.state \in {"LISTEN", "SYN_SENT"} =>
                      d.state = "CLOSED" /\ d.snd_nxt = 0
               /\ cb.state \in {"SYN_RCVD", "ESTABLISHED", "CLOSE_WAIT"} =>
                      /\ d.state = IF cb.state = "CLOSE_WAIT" THEN "CLOSING"
                                   ELSE "FIN_WAIT1"
                      /\ d.snd_nxt = SeqAdd(cb.snd_nxt, 1)
                      /\ d.snd_una = cb.snd_una /\ d.rcv_wnd = cb.rcv_wnd
               /\ cb.state \notin {"LISTEN", "SYN_SENT", "SYN_RCVD", "ESTABLISHED",
                                   "CLOSE_WAIT"} =>
                      /\ d.state = cb.state /\ d.snd_nxt = cb.snd_nxt
                      /\ d.snd_una = cb.snd_una /\ d.rcv_wnd = cb.rcv_wnd
<1> DEFINE c0 == [cb EXCEPT !.used = FALSE]
           c1 == [c0 EXCEPT !.backlog = <<>>]
<1>1. CbShape(c0) /\ \A f \in CbFields \ {"used"} : c0[f] = cb[f]
  BY DEF CbShape, CbFields
<1>2. CbShape(c1)
  BY <1>1 DEF CbShape, CbFields
<1>3. ASSUME NEW c, CbShape(c)
      PROVE  LET d == Broadcast(CloseCb(Result(c))).cb
             IN  d.state = "CLOSED" /\ d.snd_nxt = 0
  BY <1>3 DEF Broadcast, Notified, CloseCb, With, Result, tcp_close_cb, CbShape,
              CbFields
<1>4. ASSUME NEW s
      PROVE  LET d == CloseFin(c0, s, ok).cb
             IN  /\ d.state = s /\ d.snd_nxt = SeqAdd(c0.snd_nxt, 1)
                 /\ d.snd_una = c0.snd_una /\ d.rcv_wnd = c0.rcv_wnd
  <2> DEFINE r == tcp_tx(Result(c0), c0.snd_nxt, c0.rcv_nxt, {"FIN", "ACK"}, <<>>, ok)
  <2>1. Alike(c0, r.cb)
    BY <1>1, ResultIs, TxAlike
  <2>2. CloseFin(c0, s, ok).cb = [r.cb EXCEPT !.snd_nxt = SeqAdd(@, 1), !.state = s]
    BY DEF CloseFin, With
  <2> HIDE DEF r, c0
  <2>3. QED
    BY <2>1, <2>2 DEF Alike, CbShape, CbFields
<1>5. tcp_close(cb, ok) =
        IF cb.state = "LISTEN" THEN Broadcast(CloseCb(Result(c1)))
        ELSE IF cb.state = "SYN_SENT" THEN Broadcast(CloseCb(Result(c0)))
        ELSE IF cb.state \in {"SYN_RCVD", "ESTABLISHED"}
        THEN CloseFin(c0, "FIN_WAIT1", ok)
        ELSE IF cb.state = "CLOSE_WAIT" THEN CloseFin(c0, "CLOSING", ok)
        ELSE Result(c0)
  BY DEF tcp_close
<1> HIDE DEF c0, c1
<1>6. /\ c0.state = cb.state /\ c0.snd_nxt = cb.snd_nxt
      /\ c0.snd_una = cb.snd_una /\ c0.rcv_wnd = cb.rcv_wnd
  BY <1>1 DEF CbFields
<1>7. CASE cb.state \in {"LISTEN", "SYN_SENT"}
  BY <1>1, <1>2, <1>3, <1>5, <1>7
<1>8. CASE cb.state \in {"SYN_RCVD", "ESTABLISHED"}
  BY <1>4, <1>5, <1>6, <1>8
<1>9. CASE cb.state = "CLOSE_WAIT"
  BY <1>4, <1>5, <1>6, <1>9
<1>10. CASE cb.state \notin {"LISTEN", "SYN_SENT", "SYN_RCVD", "ESTABLISHED",
                             "CLOSE_WAIT"}
  BY <1>5, <1>6, <1>10, ResultIs
<1>11. QED
  BY <1>7, <1>8, <1>9, <1>10

-----------------------------------------------------------------------------
(***************************************************************************)
(* Types.  B is the set of bytes: {} for a host whose segments carry no    *)
(* data.  A segment carries at most a window of data.                      *)
(***************************************************************************)
SegOf(B) ==
    [seq : SeqNos, ack : SeqNos, flg : SUBSET Flags, win : Wnds,
     data : {d \in Seq(B) : Len(d) <= WinSize}]
EntryOf(B) == [seg : SegOf(B), age : Unsent..(RtxTimeout + 1)]

CbTyped(cb, B) ==
    /\ CbShape(cb) /\ cb.state \in States
    /\ cb.snd_nxt \in SeqNos /\ cb.snd_una \in SeqNos
    /\ cb.snd_wl1 \in SeqNos /\ cb.snd_wl2 \in SeqNos /\ cb.snd_wnd \in Wnds
    /\ cb.iss \in SeqNos /\ cb.rcv_nxt \in SeqNos /\ cb.rcv_wnd \in Wnds
    /\ cb.txq \in Seq(EntryOf(B)) /\ cb.snt \in Wnds
    /\ cb.buf \in Seq(B) /\ cb.left \in Nat

ResTyped(r, B) ==
    CbTyped(r.cb, B) /\ r.out \subseteq SegOf(B) /\ r.push \in BOOLEAN

LEMMA Uint16Type ==
    ASSUME NEW n \in Int
    PROVE  Uint16(n) \in Wnds
  BY WinSizeAssumption DEF Uint16, Wnds

LEMMA SeqAddType ==
    ASSUME NEW a \in SeqNos, NEW n \in Wnds
    PROVE  SeqAdd(a, n) \in SeqNos
  BY SeqSpaceAssumption, WinSizeAssumption DEF SeqAdd, SeqNos, Wnds

LEMMA SegOfIs ==
    ASSUME NEW B, NEW seg \in SegOf(B)
    PROVE  /\ seg.seq \in SeqNos /\ seg.ack \in SeqNos /\ seg.win \in Wnds
           /\ seg.flg \subseteq Flags /\ seg.data \in Seq(B)
           /\ Len(seg.data) \in Wnds
  BY WinSizeAssumption DEF SegOf, Wnds

LEMMA TxTyped ==
    ASSUME NEW B, NEW r, ResTyped(r, B), NEW seq \in SeqNos, NEW ack \in SeqNos,
           NEW flg \in SUBSET Flags, NEW data \in Seq(B), Len(data) <= WinSize,
           NEW ok
    PROVE  ResTyped(tcp_tx(r, seq, ack, flg, data, ok), B)
<1> DEFINE q == tcp_tx(r, seq, ack, flg, data, ok)
           c == r.cb
           seg == [seq |-> seq, ack |-> ack, flg |-> flg, win |-> c.rcv_wnd,
                   data |-> data]
           n == Uint16(c.snt + Len(data))
           add(a) == Append(c.txq, [seg |-> seg, age |-> a])
<1>1. Alike(c, q.cb) /\ q.push = r.push
  BY TxAlike DEF ResTyped, CbTyped
<1>2. seg \in SegOf(B)
  BY DEF ResTyped, CbTyped, SegOf
<1>3. q.out \in {r.out, r.out \cup {seg}}
  BY DEF tcp_tx
<1>4. /\ q.cb.txq \in {c.txq, add(0), add(Unsent)}
      /\ q.cb.snt \in {c.snt, n}
  <2>1. CbShape(c)
    BY DEF ResTyped, CbTyped
  <2>2. q.cb \in {c, tcp_txq_add(c, seg, Unsent),
                  [tcp_txq_add(c, seg, 0) EXCEPT !.snt = Uint16(@ + Len(data))]}
    BY DEF tcp_tx
  <2> HIDE DEF q, seg, c
  <2>3. QED
    BY <2>1, <2>2 DEF CbShape, CbFields, tcp_txq_add
<1>5. n \in Wnds
  <2>1. c.snt \in Wnds /\ Len(data) \in Nat
    BY DEF ResTyped, CbTyped
  <2>2. c.snt + Len(data) \in Int
    BY <2>1, WinSizeAssumption DEF Wnds
  <2>3. QED
    BY <2>2, Uint16Type
<1> HIDE DEF q, seg, n
<1>6. add(0) \in Seq(EntryOf(B)) /\ add(Unsent) \in Seq(EntryOf(B))
  BY <1>2, TimeoutAssumption DEF ResTyped, CbTyped, EntryOf, Unsent
<1> HIDE DEF add
<1>7. CbTyped(q.cb, B)
  BY <1>1, <1>4, <1>5, <1>6 DEF ResTyped, CbTyped, Alike, CbFields
<1>8. QED
  BY <1>1, <1>2, <1>3, <1>7 DEF ResTyped, q

LEMMA ResultTyped ==
    ASSUME NEW B, NEW c, CbTyped(c, B)
    PROVE  ResTyped(Result(c), B)
  BY DEF ResTyped, Result

LEMMA WithTyped ==
    ASSUME NEW B, NEW r, ResTyped(r, B), NEW c, CbTyped(c, B)
    PROVE  ResTyped(With(r, c), B)
  BY DEF ResTyped, With

LEMMA NotifiedTyped ==
    ASSUME NEW B, NEW r, ResTyped(r, B)
    PROVE  ResTyped(Broadcast(r), B) /\ ResTyped(Signal(r), B)
  BY DEF ResTyped, Broadcast, Signal, Notified

LEMMA ZeroIs == 0 \in SeqNos /\ 0 \in Wnds /\ 1 \in Wnds /\ WinSize \in Wnds
  BY SeqSpaceAssumption, WinSizeAssumption DEF SeqNos, Wnds

LEMMA SendAckTyped ==
    ASSUME NEW B, NEW r, ResTyped(r, B), NEW ok
    PROVE  ResTyped(SendAck(r, ok), B)
<1>1. r.cb.snd_nxt \in SeqNos /\ r.cb.rcv_nxt \in SeqNos
  BY DEF ResTyped, CbTyped
<1>2. {"ACK"} \in SUBSET Flags /\ <<>> \in Seq(B) /\ Len(<<>>) <= WinSize
  BY WinSizeAssumption DEF Flags
<1>3. QED
  BY <1>1, <1>2, TxTyped DEF SendAck

LEMMA CloseCbTyped ==
    ASSUME NEW B, NEW c, CbTyped(c, B)
    PROVE  CbTyped(tcp_close_cb(c), B)
<1> DEFINE d == tcp_close_cb(c)
<1>1. /\ CbShape(d) /\ d.state = "CLOSED" /\ d.txq = <<>> /\ d.buf = <<>>
      /\ \A f \in {"snd_nxt", "snd_una", "snd_wl1", "snd_wl2", "snd_wnd", "iss",
                   "rcv_nxt", "rcv_wnd"} : d[f] = 0
      /\ d.snt = c.snt /\ d.left = c.left
  BY DEF CbTyped, CbShape, CbFields, tcp_close_cb
<1> HIDE DEF d
<1>2. CbTyped(d, B)
  BY <1>1, ZeroIs DEF CbTyped, States
<1>3. QED
  BY <1>2 DEF d

LEMMA CloseResTyped ==
    ASSUME NEW B, NEW r, ResTyped(r, B)
    PROVE  ResTyped(CloseCb(r), B)
  BY CloseCbTyped, WithTyped DEF CloseCb, ResTyped

LEMMA TextReceivedTyped ==
    ASSUME NEW B, NEW r, ResTyped(r, B), NEW seg \in SegOf(B), NEW ok
    PROVE  ResTyped(TextReceived(r, seg, ok), B)
<1> DEFINE c == r.cb
           d == [c EXCEPT !.buf = @ \o seg.data,
                          !.rcv_nxt = SeqAdd(seg.seq, Len(seg.data)),
                          !.rcv_wnd = Uint16(@ - Len(seg.data))]
<1>1. /\ CbShape(d) /\ d.buf = c.buf \o seg.data
      /\ d.rcv_nxt = SeqAdd(seg.seq, Len(seg.data))
      /\ d.rcv_wnd = Uint16(c.rcv_wnd - Len(seg.data))
      /\ \A f \in CbFields \ {"buf", "rcv_nxt", "rcv_wnd"} : d[f] = c[f]
  BY DEF ResTyped, CbTyped, CbShape, CbFields
<1>2. /\ seg.seq \in SeqNos /\ seg.data \in Seq(B) /\ Len(seg.data) \in Wnds
  BY SegOfIs
<1>3. SeqAdd(seg.seq, Len(seg.data)) \in SeqNos
  BY <1>2, SeqAddType
<1>4. c.rcv_wnd - Len(seg.data) \in Int
  BY <1>2, WinSizeAssumption DEF ResTyped, CbTyped, Wnds
<1>5. Uint16(c.rcv_wnd - Len(seg.data)) \in Wnds
  BY <1>4, Uint16Type
<1>6. c.buf \o seg.data \in Seq(B)
  BY <1>2 DEF ResTyped, CbTyped
<1> HIDE DEF d
<1>7. CbTyped(d, B)
  BY <1>1, <1>3, <1>5, <1>6 DEF ResTyped, CbTyped, CbFields
<1>8. QED
  BY <1>7, WithTyped, SendAckTyped, NotifiedTyped DEF TextReceived, d

LEMMA TextTyped ==
    ASSUME NEW B, NEW r, ResTyped(r, B), NEW seg \in SegOf(B), NEW ok
    PROVE  ResTyped(SegmentText(r, seg, ok), B)
<1>1. /\ ResTyped(TextReceived(r, seg, ok), B)
      /\ ResTyped(Broadcast(SendAck(r, ok)), B)
  BY TextReceivedTyped, SendAckTyped, NotifiedTyped
<1>2. QED
  BY <1>1 DEF SegmentText

LEMMA FinTyped ==
    ASSUME NEW B, NEW r, ResTyped(r, B), NEW seg \in SegOf(B), NEW ok
    PROVE  ResTyped(SegmentFin(r, seg, ok), B)
<1> DEFINE c == r.cb
           d == [c EXCEPT !.rcv_nxt = SeqAdd(seg.seq, 1)]
           acked == SendAck(With(r, d), ok)
           next  == CASE r.cb.state \in {"SYN_RCVD", "ESTABLISHED"} -> "CLOSE_WAIT"
                      [] r.cb.state = "FIN_WAIT1" -> "CLOSING"
                      [] r.cb.state = "FIN_WAIT2" -> "TIME_WAIT"
                      [] OTHER -> r.cb.state
           left == IF next = "TIME_WAIT" THEN TimeWaitTimeout + 1 ELSE acked.cb.left
           f == [acked.cb EXCEPT !.state = next,
                                 !.left = IF next = "TIME_WAIT"
                                          THEN TimeWaitTimeout + 1 ELSE @]
<1>1. /\ CbShape(d) /\ d.rcv_nxt = SeqAdd(seg.seq, 1)
      /\ \A g \in CbFields \ {"rcv_nxt"} : d[g] = c[g]
  BY DEF ResTyped, CbTyped, CbShape, CbFields
<1>2. SeqAdd(seg.seq, 1) \in SeqNos
  BY SegOfIs, SeqAddType, ZeroIs
<1>3. next \in States
  BY DEF ResTyped, CbTyped, States
<1>4. FinReceived(r, seg, ok) = With(acked, f)
  BY DEF FinReceived
<1> HIDE DEF d, next
<1>5. CbTyped(d, B)
  BY <1>1, <1>2 DEF ResTyped, CbTyped, CbFields
<1>6. ResTyped(acked, B)
  BY <1>5, WithTyped, SendAckTyped
<1> HIDE DEF acked
<1>7. /\ CbShape(f) /\ f.state = next /\ f.left = left
      /\ \A g \in CbFields \ {"state", "left"} : f[g] = acked.cb[g]
  BY <1>6 DEF ResTyped, CbTyped, CbShape, CbFields
<1>8. left \in Nat
  BY <1>6, TimeoutAssumption DEF ResTyped, CbTyped
<1> HIDE DEF f, left
<1>9. CbTyped(f, B)
  BY <1>3, <1>6, <1>7, <1>8 DEF ResTyped, CbTyped, CbFields
<1>10. ResTyped(Broadcast(FinReceived(r, seg, ok)), B)
  BY <1>4, <1>6, <1>9, WithTyped, NotifiedTyped
<1>11. QED
  BY <1>10 DEF SegmentFin

LEMMA TextAndFinTyped ==
    ASSUME NEW B, NEW r, ResTyped(r, B), NEW seg \in SegOf(B), NEW ok
    PROVE  ResTyped(TextAndFin(r, seg, ok), B)
  BY TextTyped, FinTyped DEF TextAndFin

LEMMA BareTxTyped ==
    ASSUME NEW B, NEW r, ResTyped(r, B), NEW seq \in SeqNos, NEW ack \in SeqNos,
           NEW flg \in SUBSET Flags, NEW ok
    PROVE  ResTyped(tcp_tx(r, seq, ack, flg, <<>>, ok), B)
<1>1. <<>> \in Seq(B) /\ Len(<<>>) <= WinSize
  BY WinSizeAssumption
<1>2. QED
  BY <1>1, TxTyped

LEMMA FlagSets ==
    /\ {"RST"} \in SUBSET Flags /\ {"RST", "ACK"} \in SUBSET Flags
    /\ {"SYN"} \in SUBSET Flags /\ {"SYN", "ACK"} \in SUBSET Flags
    /\ {"FIN", "ACK"} \in SUBSET Flags /\ {"PSH", "ACK"} \in SUBSET Flags
  BY DEF Flags

LEMMA ClosedTyped ==
    ASSUME NEW B, NEW cb, CbTyped(cb, B), NEW seg \in SegOf(B), NEW ok
    PROVE  ResTyped(ArrivesClosed(cb, seg, ok), B)
<1>1. seg.ack \in SeqNos /\ 0 \in SeqNos /\ SeqAdd(seg.seq, Len(seg.data)) \in SeqNos
  BY SegOfIs, SeqAddType, ZeroIs
<1>2. /\ ResTyped(Result(cb), B)
      /\ ResTyped(tcp_tx(Result(cb), seg.ack, 0, {"RST"}, <<>>, ok), B)
      /\ ResTyped(tcp_tx(Result(cb), 0, SeqAdd(seg.seq, Len(seg.data)),
                         {"RST", "ACK"}, <<>>, ok), B)
  BY <1>1, ResultTyped, BareTxTyped, FlagSets
<1>3. QED
  BY <1>2 DEF ArrivesClosed

LEMMA ListenTyped ==
    ASSUME NEW B, NEW cb, CbTyped(cb, B), NEW seg \in SegOf(B),
           NEW iss \in SeqNos, NEW ok
    PROVE  ResTyped(ArrivesListen(cb, seg, iss, ok), B)
<1> DEFINE reset == IF "ACK" \in seg.flg /\ "RST" \notin seg.flg
                    THEN tcp_tx(Result(cb), seg.ack, 0, {"RST"}, <<>>, ok)
                    ELSE Result(cb)
           ready == [cb EXCEPT !.rcv_wnd = WinSize,
                               !.rcv_nxt = SeqAdd(seg.seq, 1), !.iss = iss]
           synack == tcp_tx(Result(ready), iss, ready.rcv_nxt, {"SYN", "ACK"},
                            <<>>, ok)
           d == [synack.cb EXCEPT !.snd_nxt = SeqAdd(iss, 1), !.snd_una = iss,
                                  !.left = UserTimeout + 1, !.state = "SYN_RCVD"]
           f == [tcp_close_cb(reset.cb) EXCEPT !.parent = NoParent]
<1>1. seg.ack \in SeqNos /\ 0 \in SeqNos /\ SeqAdd(seg.seq, 1) \in SeqNos
        /\ SeqAdd(iss, 1) \in SeqNos
  BY SegOfIs, SeqAddType, ZeroIs
<1>2. ResTyped(TextAndFin(With(synack, d), seg, ok), B)
  <2>1. /\ CbShape(ready) /\ ready.rcv_wnd = WinSize /\ ready.iss = iss
        /\ ready.rcv_nxt = SeqAdd(seg.seq, 1)
        /\ \A g \in CbFields \ {"rcv_wnd", "rcv_nxt", "iss"} : ready[g] = cb[g]
    BY DEF CbTyped, CbShape, CbFields
  <2> HIDE DEF ready
  <2>2. CbTyped(ready, B)
    BY <1>1, <2>1, ZeroIs DEF CbTyped, CbFields
  <2>3. ResTyped(synack, B)
    BY <1>1, <2>1, <2>2, ResultTyped, BareTxTyped, FlagSets
  <2> HIDE DEF synack
  <2>4. /\ CbShape(d) /\ d.snd_nxt = SeqAdd(iss, 1) /\ d.snd_una = iss
        /\ d.left = UserTimeout + 1 /\ d.state = "SYN_RCVD"
        /\ \A g \in CbFields \ {"snd_nxt", "snd_una", "left", "state"} :
             d[g] = synack.cb[g]
    BY <2>3 DEF ResTyped, CbTyped, CbShape, CbFields
  <2> HIDE DEF d
  <2>5. d.left \in Nat /\ d.state \in States /\ CbTyped(synack.cb, B)
    BY <2>3, <2>4, TimeoutAssumption DEF ResTyped, States
  <2>6. CbTyped(d, B)
    BY <1>1, <2>4, <2>5 DEF CbTyped, CbFields
  <2>7. QED
    BY <2>3, <2>6, WithTyped, TextAndFinTyped
<1>3. ResTyped(Broadcast(With(reset, f)), B)
  <2>1. ResTyped(reset, B)
    BY <1>1, ResultTyped, BareTxTyped, FlagSets
  <2> HIDE DEF reset
  <2> DEFINE e == tcp_close_cb(reset.cb)
  <2>2. CbTyped(e, B)
    BY <2>1, CloseCbTyped DEF ResTyped
  <2> HIDE DEF e
  <2>3. CbShape(f) /\ \A g \in CbFields \ {"parent"} : f[g] = e[g]
    BY <2>2 DEF e, CbTyped, CbShape, CbFields
  <2> HIDE DEF f
  <2>4. CbTyped(f, B)
    BY <2>2, <2>3 DEF CbTyped, CbFields
  <2>5. QED
    BY <2>1, <2>4, WithTyped, NotifiedTyped
<1>4. ArrivesListen(cb, seg, iss, ok) \in
        {TextAndFin(With(synack, d), seg, ok), Broadcast(With(reset, f))}
  BY DEF ArrivesListen
<1> HIDE DEF d, f, synack, reset
<1>5. QED
  BY <1>2, <1>3, <1>4

LEMMA SynSentTyped ==
    ASSUME NEW B, NEW cb, CbTyped(cb, B), NEW seg \in SegOf(B), NEW ok
    PROVE  ResTyped(ArrivesSynSent(cb, seg, ok), B)
<1> DEFINE una == IF cb.snd_una < seg.ack THEN seg.ack ELSE cb.snd_una
           left == IF una # cb.snd_una THEN UserTimeout + 1 ELSE cb.left
           d(s) == [cb EXCEPT
                      !.rcv_nxt = SeqAdd(seg.seq, 1),
                      !.snd_una = una,
                      !.left = IF una # cb.snd_una THEN UserTimeout + 1 ELSE @,
                      !.state = s]
           estab == Signal(SendAck(Result(d("ESTABLISHED")), ok))
           rcvd  == Signal(tcp_tx(Result(d("SYN_RCVD")), cb.iss,
                                  SeqAdd(seg.seq, 1), {"SYN", "ACK"}, <<>>, ok))
<1>1. seg.ack \in SeqNos /\ 0 \in SeqNos /\ SeqAdd(seg.seq, 1) \in SeqNos
        /\ cb.iss \in SeqNos /\ cb.snd_una \in SeqNos /\ cb.left \in Nat
  BY SegOfIs, SeqAddType, ZeroIs DEF CbTyped
<1>2. una \in SeqNos /\ left \in Nat
  BY <1>1, TimeoutAssumption
<1>3. ASSUME NEW s \in {"ESTABLISHED", "SYN_RCVD"} PROVE ResTyped(Result(d(s)), B)
  <2> DEFINE e == d(s)
  <2> HIDE DEF una
  <2>1. /\ CbShape(e) /\ e.rcv_nxt = SeqAdd(seg.seq, 1) /\ e.snd_una = una
        /\ e.left = left /\ e.state = s
        /\ \A g \in CbFields \ {"rcv_nxt", "snd_una", "left", "state"} :
             e[g] = cb[g]
    BY DEF CbTyped, CbShape, CbFields
  <2> HIDE DEF e, left
  <2>2. CbTyped(e, B)
    BY <1>1, <1>2, <2>1 DEF CbTyped, CbFields, States
  <2>3. QED
    BY <2>2, ResultTyped DEF e
<1> HIDE DEF d
<1>4. ResTyped(estab, B) /\ ResTyped(rcvd, B)
  BY <1>1, <1>3, SendAckTyped, BareTxTyped, NotifiedTyped, FlagSets
<1>5. /\ ResTyped(Result(cb), B)
      /\ ResTyped(tcp_tx(Result(cb), seg.ack, 0, {"RST"}, <<>>, ok), B)
      /\ ResTyped(Signal(CloseCb(Result(cb))), B)
  BY <1>1, ResultTyped, BareTxTyped, CloseResTyped, NotifiedTyped, FlagSets
<1>6. ArrivesSynSent(cb, seg, ok) \in
        {Result(cb), tcp_tx(Result(cb), seg.ack, 0, {"RST"}, <<>>, ok),
         Signal(CloseCb(Result(cb))), estab, rcvd, TextAndFin(estab, seg, ok)}
  BY DEF ArrivesSynSent, d
<1> HIDE DEF estab, rcvd
<1>7. QED
  BY <1>4, <1>5, <1>6, TextAndFinTyped

LEMMA AckTakenTyped ==
    ASSUME NEW B, NEW r, ResTyped(r, B), NEW seg \in SegOf(B)
    PROVE  ResTyped(AckUpdate(r, seg), B)
<1> DEFINE c == r.cb
           fresh == \/ c.snd_wl1 < seg.seq
                    \/ c.snd_wl1 = seg.seq /\ c.snd_wl2 <= seg.ack
           left == IF c.snd_una < seg.ack THEN UserTimeout + 1 ELSE c.left
           d == [c EXCEPT
                   !.snd_una = seg.ack,
                   !.left = IF c.snd_una < seg.ack THEN UserTimeout + 1 ELSE @,
                   !.snd_wnd = IF fresh THEN seg.win ELSE @,
                   !.snd_wl1 = IF fresh THEN seg.seq ELSE @,
                   !.snd_wl2 = IF fresh THEN seg.ack ELSE @]
<1>1. AckTaken(r, seg) = With(r, d)
  BY DEF AckTaken
<1>2. left \in Nat
  BY TimeoutAssumption DEF ResTyped, CbTyped
<1> HIDE DEF fresh
<1>3. /\ CbShape(d) /\ d.snd_una = seg.ack /\ d.left = left
      /\ d.snd_wnd \in {c.snd_wnd, seg.win}
      /\ d.snd_wl1 \in {c.snd_wl1, seg.seq} /\ d.snd_wl2 \in {c.snd_wl2, seg.ack}
      /\ \A g \in CbFields \ {"snd_una", "left", "snd_wnd", "snd_wl1", "snd_wl2"} :
           d[g] = c[g]
  BY DEF ResTyped, CbTyped, CbShape, CbFields
<1> HIDE DEF d, left
<1>4. CbTyped(c, B) /\ seg.ack \in SeqNos /\ seg.seq \in SeqNos /\ seg.win \in Wnds
  BY SegOfIs DEF ResTyped
<1>5. CbTyped(d, B)
  BY <1>2, <1>3, <1>4 DEF CbTyped, CbFields
<1>6. QED
  BY <1>1, <1>5, WithTyped, NotifiedTyped DEF AckUpdate

LEMMA StateTyped ==
    ASSUME NEW B, NEW c, CbTyped(c, B), NEW s \in States
    PROVE  CbTyped([c EXCEPT !.state = s], B)
<1> DEFINE d == [c EXCEPT !.state = s]
<1>1. CbShape(d) /\ d.state = s /\ \A g \in CbFields \ {"state"} : d[g] = c[g]
  BY DEF CbTyped, CbShape, CbFields
<1> HIDE DEF d
<1>2. CbTyped(d, B)
  BY <1>1 DEF CbTyped, CbFields
<1>3. QED
  BY <1>2 DEF d

LEMMA FinAckedTyped ==
    ASSUME NEW B, NEW r, ResTyped(r, B), NEW seg
    PROVE  ResTyped(FinAcked(r, seg), B)
<1> DEFINE next == CASE r.cb.state = "FIN_WAIT1" -> "FIN_WAIT2"
                     [] r.cb.state = "CLOSING" -> "TIME_WAIT"
                     [] OTHER -> r.cb.state
<1>1. next \in States /\ CbTyped(r.cb, B)
  BY DEF ResTyped, CbTyped, States
<1>2. FinAcked(r, seg) \in {r, With(r, [r.cb EXCEPT !.state = next])}
  BY DEF FinAcked
<1> HIDE DEF next
<1>3. ResTyped(With(r, [r.cb EXCEPT !.state = next]), B)
  BY <1>1, StateTyped, WithTyped
<1>4. QED
  BY <1>2, <1>3

LEMMA SegmentAckTyped ==
    ASSUME NEW B, NEW cb, CbTyped(cb, B), NEW seg \in SegOf(B), NEW ok
    PROVE  ResTyped(SegmentAck(cb, seg, ok).r, B)
<1> DEFINE r0 == AfterAck(cb)
           inWindow == cb.snd_una <= seg.ack /\ seg.ack <= cb.snd_nxt
           r1 == IF inWindow THEN AckUpdate(r0, seg) ELSE r0
<1>1. seg.ack \in SeqNos /\ cb.rcv_nxt \in SeqNos
  BY SegOfIs DEF CbTyped
<1>2. /\ ResTyped(Result(cb), B)
      /\ ResTyped(Broadcast(CloseCb(Result(cb))), B)
      /\ ResTyped(tcp_tx(Result(cb), seg.ack, cb.rcv_nxt, {"RST"}, <<>>, ok), B)
  BY <1>1, ResultTyped, BareTxTyped, CloseResTyped, NotifiedTyped, FlagSets
<1>3. ResTyped(r0, B)
  <2>1. CbTyped([cb EXCEPT !.state = "ESTABLISHED"], B)
    BY StateTyped DEF States
  <2>2. QED
    BY <1>2, <2>1 DEF AfterAck, Established, ResTyped
<1>4. SegmentAck(cb, seg, ok).r \in
        {Result(cb), Broadcast(CloseCb(Result(cb))),
         tcp_tx(Result(cb), seg.ack, cb.rcv_nxt, {"RST"}, <<>>, ok),
         SendAck(r0, ok), FinAcked(r1, seg)}
  BY DEF SegmentAck, AfterAck, Established
<1> HIDE DEF r0
<1>5. ResTyped(SendAck(r0, ok), B) /\ ResTyped(r1, B)
  BY <1>3, SendAckTyped, AckTakenTyped
<1> HIDE DEF r1
<1>6. QED
  BY <1>2, <1>4, <1>5, FinAckedTyped

LEMMA SynchronizedTyped ==
    ASSUME NEW B, NEW cb, CbTyped(cb, B), NEW seg \in SegOf(B), NEW ok
    PROVE  ResTyped(ArrivesSynchronized(cb, seg, ok), B)
<1> DEFINE acked == SegmentAck(cb, seg, ok).r
           rst == tcp_tx(Result(cb), 0, cb.rcv_nxt, {"RST"}, <<>>, ok)
<1>1. cb.rcv_nxt \in SeqNos /\ 0 \in SeqNos
  BY ZeroIs DEF CbTyped
<1>2. ResTyped(Result(cb), B) /\ ResTyped(rst, B) /\ ResTyped(acked, B)
  BY <1>1, ResultTyped, BareTxTyped, SegmentAckTyped, FlagSets
<1>3. ArrivesSynchronized(cb, seg, ok) \in
        {Result(cb), SendAck(Result(cb), ok), Signal(CloseCb(Result(cb))),
         Broadcast(CloseCb(Result(cb))), Broadcast(CloseCb(rst)), acked,
         TextAndFin(acked, seg, ok)}
  BY DEF ArrivesSynchronized
<1> HIDE DEF acked, rst
<1>4. QED
  BY <1>2, <1>3, SendAckTyped, CloseResTyped, NotifiedTyped, TextAndFinTyped

LEMMA ArrivesTyped ==
    ASSUME NEW B, NEW cb, CbTyped(cb, B), NEW seg \in SegOf(B),
           NEW iss \in SeqNos, NEW ok
    PROVE  ResTyped(tcp_event_segment_arrives(cb, seg, iss, ok), B)
  BY ClosedTyped, ListenTyped, SynSentTyped, SynchronizedTyped
     DEF tcp_event_segment_arrives

\* The queue after the timer thread's visit: kept entries, some sent again.
LEMMA TimerQueueTyped ==
    ASSUME NEW B, NEW cb, CbTyped(cb, B)
    PROVE  /\ TimerQueue(cb) \in Seq(EntryOf(B))
           /\ {SentAgain(cb, i) : i \in Due(cb)} \subseteq SegOf(B)
           /\ TimerSnt(cb) \in Wnds
<1> DEFINE k == Kept(cb)
<1>1. k \in Seq({x \in EntryOf(B) : Unacked(cb, x)})
  BY KeptIs DEF CbTyped
<1> HIDE DEF k
<1>2. /\ Len(k) \in Nat /\ DOMAIN k = 1..Len(k)
      /\ \A i \in 1..Len(k) : k[i] \in EntryOf(B)
  BY <1>1
<1>3. ASSUME NEW i \in 1..Len(k)
      PROVE  k[i].seg \in SegOf(B) /\ SentAgain(cb, i) \in SegOf(B)
  <2>1. k[i].seg \in SegOf(B)
    BY <1>2 DEF EntryOf
  <2>2. SentAgain(cb, i) = [k[i].seg EXCEPT !.ack = cb.rcv_nxt]
    BY DEF SentAgain, k
  <2>3. cb.rcv_nxt \in SeqNos
    BY DEF CbTyped
  <2>4. QED
    BY <2>1, <2>2, <2>3 DEF SegOf
<1>4. Due(cb) \subseteq 1..Len(k)
  BY <1>2 DEF Due, k
<1>5. TimerQueue(cb) \in Seq(EntryOf(B))
  <2> DEFINE t(i) == IF i \in Due(cb) THEN [seg |-> SentAgain(cb, i), age |-> 0]
                     ELSE k[i]
  <2>1. TimerQueue(cb) = [i \in 1..Len(k) |-> t(i)]
    BY <1>2 DEF TimerQueue, k
  <2>2. \A i \in 1..Len(k) : t(i) \in EntryOf(B)
    BY <1>2, <1>3, TimeoutAssumption DEF EntryOf, Unsent
  <2> HIDE DEF t
  <2>3. QED
    BY <1>2, <2>1, <2>2
<1>6. {SentAgain(cb, i) : i \in Due(cb)} \subseteq SegOf(B)
  BY <1>3, <1>4
<1>7. TimerSnt(cb) \in Wnds
  <2>1. DataLen(k, Len(k)) \in Nat
    <3>1. \A i \in 1..Len(k) : Len(k[i].seg.data) \in Nat
      BY <1>3, SegOfIs, WinSizeAssumption DEF Wnds
    <3>2. QED
      BY <1>2, <3>1, DataLenNat
  <2>2. DataLen(cb.txq, Len(cb.txq)) \in Nat
    <3>1. Len(cb.txq) \in Nat /\ \A i \in 1..Len(cb.txq) : cb.txq[i] \in EntryOf(B)
      BY DEF CbTyped
    <3>2. \A i \in 1..Len(cb.txq) : cb.txq[i].seg \in SegOf(B)
      BY <3>1 DEF EntryOf
    <3>3. ASSUME NEW i \in 1..Len(cb.txq)
          PROVE  Len(cb.txq[i].seg.data) \in Nat
      <4> DEFINE s == cb.txq[i].seg
      <4>1. s \in SegOf(B)
        BY <3>2
      <4> HIDE DEF s
      <4>2. Len(s.data) \in Nat
        BY <4>1, SegOfIs, WinSizeAssumption DEF Wnds
      <4>3. QED
        BY <4>2 DEF s
    <3>4. QED
      BY <3>1, <3>3, DataLenNat
  <2>3. cb.snt \in Int
    BY WinSizeAssumption DEF CbTyped, Wnds
  <2>4. QED
    BY <2>1, <2>2, <2>3, Uint16Type DEF TimerSnt, k
<1>8. QED
  BY <1>5, <1>6, <1>7

LEMMA TimerTyped ==
    ASSUME NEW B, NEW cb, CbTyped(cb, B)
    PROVE  ResTyped(tcp_timer_cb(cb), B)
<1>1. ResTyped(Result(cb), B) /\ ResTyped(Broadcast(CloseCb(Result(cb))), B)
  BY ResultTyped, CloseResTyped, NotifiedTyped
<1>2. ResTyped(TimerTxq(cb), B)
  <2> DEFINE d == TimerTxq(cb).cb
  <2>1. /\ CbShape(d) /\ d.txq = TimerQueue(cb) /\ d.snt = TimerSnt(cb)
        /\ \A f \in CbFields \ {"txq", "snt"} : d[f] = cb[f]
    BY DEF TimerTxq, CbTyped, CbShape, CbFields
  <2>2. /\ TimerTxq(cb).out = {SentAgain(cb, i) : i \in Due(cb)}
        /\ TimerTxq(cb).push = FALSE
    BY DEF TimerTxq
  <2> HIDE DEF d
  <2>3. CbTyped(d, B)
    BY <2>1, TimerQueueTyped DEF CbTyped, CbFields
  <2>4. QED
    BY <2>2, <2>3, TimerQueueTyped DEF ResTyped, d
<1>3. QED
  BY <1>1, <1>2 DEF tcp_timer_cb

LEMMA TickTyped ==
    ASSUME NEW B, NEW cb, CbTyped(cb, B)
    PROVE  CbTyped(TickCb(cb), B)
<1> DEFINE d == TickCb(cb)
           q == [i \in DOMAIN cb.txq |-> Aged(cb.txq[i])]
           left == IF cb.left > 0 THEN cb.left - 1 ELSE 0
<1>1. /\ CbShape(d) /\ d.txq = q /\ d.left = left
      /\ \A f \in CbFields \ {"left", "txq"} : d[f] = cb[f]
  BY DEF TickCb, CbTyped, CbShape, CbFields
<1>2. left \in Nat
  BY DEF CbTyped
<1>3. q \in Seq(EntryOf(B))
  <2>1. /\ Len(cb.txq) \in Nat /\ DOMAIN cb.txq = 1..Len(cb.txq)
        /\ \A i \in 1..Len(cb.txq) : cb.txq[i] \in EntryOf(B)
    BY DEF CbTyped
  <2>2. ASSUME NEW i \in 1..Len(cb.txq)
        PROVE  Aged(cb.txq[i]) \in EntryOf(B)
    <3> DEFINE x == cb.txq[i]
    <3>1. x \in EntryOf(B)
      BY <2>1
    <3> HIDE DEF x
    <3>2. Aged(x) \in EntryOf(B)
      BY <3>1, TimeoutAssumption DEF Aged, EntryOf, Unsent
    <3>3. QED
      BY <3>2 DEF x
  <2>3. QED
    BY <2>1, <2>2
<1> HIDE DEF d, q, left
<1>4. CbTyped(d, B)
  BY <1>1, <1>2, <1>3 DEF CbTyped, CbFields
<1>5. QED
  BY <1>4 DEF d

\* d differs from c in what CbTyped does not speak of.
LEMMA SameTyped ==
    ASSUME NEW B, NEW c, CbTyped(c, B), NEW d, CbShape(d),
           \A f \in CbFields \ {"used", "port", "peer", "parent", "backlog"} :
             d[f] = c[f]
    PROVE  CbTyped(d, B)
  BY DEF CbTyped, CbFields

LEMMA CloseFinTyped ==
    ASSUME NEW B, NEW cb, CbTyped(cb, B), NEW s \in States, NEW ok
    PROVE  ResTyped(CloseFin(cb, s, ok), B)
<1> DEFINE r == tcp_tx(Result(cb), cb.snd_nxt, cb.rcv_nxt, {"FIN", "ACK"}, <<>>, ok)
           d == [r.cb EXCEPT !.snd_nxt = SeqAdd(@, 1), !.state = s]
<1>1. cb.snd_nxt \in SeqNos /\ cb.rcv_nxt \in SeqNos
  BY DEF CbTyped
<1>2. ResTyped(r, B)
  BY <1>1, ResultTyped, BareTxTyped, FlagSets
<1>3. CloseFin(cb, s, ok) = With(r, d)
  BY DEF CloseFin
<1> HIDE DEF r
<1>4. /\ CbShape(d) /\ d.snd_nxt = SeqAdd(r.cb.snd_nxt, 1) /\ d.state = s
      /\ \A f \in CbFields \ {"snd_nxt", "state"} : d[f] = r.cb[f]
  BY <1>2 DEF ResTyped, CbTyped, CbShape, CbFields
<1>5. SeqAdd(r.cb.snd_nxt, 1) \in SeqNos
  BY <1>2, SeqAddType, ZeroIs DEF ResTyped, CbTyped
<1> HIDE DEF d
<1>6. CbTyped(d, B)
  BY <1>2, <1>4, <1>5 DEF ResTyped, CbTyped, CbFields
<1>7. QED
  BY <1>2, <1>3, <1>6, WithTyped

LEMMA CloseTyped ==
    ASSUME NEW B, NEW cb, CbTyped(cb, B), NEW ok
    PROVE  ResTyped(tcp_close(cb, ok), B)
<1> DEFINE c0 == [cb EXCEPT !.used = FALSE]
           c1 == [c0 EXCEPT !.backlog = <<>>]
<1>1. /\ CbShape(c0) /\ \A f \in CbFields \ {"used"} : c0[f] = cb[f]
  BY DEF CbTyped, CbShape, CbFields
<1>2. /\ CbShape(c1) /\ \A f \in CbFields \ {"backlog"} : c1[f] = c0[f]
  BY <1>1 DEF CbShape, CbFields
<1>3. tcp_close(cb, ok) \in
        {Broadcast(CloseCb(Result(c1))), Broadcast(CloseCb(Result(c0))),
         CloseFin(c0, "FIN_WAIT1", ok), CloseFin(c0, "CLOSING", ok), Result(c0)}
  BY DEF tcp_close
<1> HIDE DEF c0, c1
<1>4. CbTyped(c0, B)
  BY <1>1, SameTyped
<1>5. CbTyped(c1, B)
  BY <1>2, <1>4, SameTyped
<1>6. ResTyped(CloseFin(c0, "FIN_WAIT1", ok), B)
        /\ ResTyped(CloseFin(c0, "CLOSING", ok), B)
  BY <1>4, CloseFinTyped DEF States
<1>7. QED
  BY <1>3, <1>4, <1>5, <1>6, ResultTyped, CloseResTyped, NotifiedTyped

LEMMA ConnectTyped ==
    ASSUME NEW B, NEW cb, CbTyped(cb, B), NEW port, NEW peer, NEW iss \in SeqNos,
           NEW ok
    PROVE  ResTyped(ConnectCb(cb, port, peer, iss, ok), B)
<1> DEFINE c0 == [cb EXCEPT !.port = port, !.peer = peer, !.rcv_wnd = WinSize,
                            !.iss = iss]
           syn == tcp_tx(Result(c0), iss, 0, {"SYN"}, <<>>, ok)
           d == [syn.cb EXCEPT !.snd_nxt = SeqAdd(iss, 1), !.snd_una = iss,
                               !.left = UserTimeout + 1, !.state = "SYN_SENT"]
<1>1. /\ CbShape(c0) /\ c0.rcv_wnd = WinSize /\ c0.iss = iss
      /\ \A f \in CbFields \ {"port", "peer", "rcv_wnd", "iss"} : c0[f] = cb[f]
  BY DEF CbTyped, CbShape, CbFields
<1>2. ConnectCb(cb, port, peer, iss, ok) \in {syn, With(syn, d)}
  BY DEF ConnectCb
<1> HIDE DEF c0
<1>3. CbTyped(c0, B)
  BY <1>1, ZeroIs DEF CbTyped, CbFields
<1>4. ResTyped(syn, B)
  BY <1>3, ZeroIs, ResultTyped, BareTxTyped, FlagSets
<1> HIDE DEF syn
<1>5. /\ CbShape(d) /\ d.snd_nxt = SeqAdd(iss, 1) /\ d.snd_una = iss
      /\ d.left = UserTimeout + 1 /\ d.state = "SYN_SENT"
      /\ \A f \in CbFields \ {"snd_nxt", "snd_una", "left", "state"} :
           d[f] = syn.cb[f]
  BY <1>4 DEF ResTyped, CbTyped, CbShape, CbFields
<1> HIDE DEF d
<1>6. /\ d.left \in Nat /\ d.state \in States /\ d.snd_nxt \in SeqNos
      /\ CbTyped(syn.cb, B)
  BY <1>4, <1>5, TimeoutAssumption, SeqAddType, ZeroIs DEF ResTyped, States
<1>7. CbTyped(d, B)
  BY <1>5, <1>6 DEF CbTyped, CbFields
<1>8. QED
  BY <1>2, <1>4, <1>7, WithTyped

LEMMA ZeroTyped ==
    ASSUME NEW B, NEW noPeer
    PROVE  CbTyped(ZeroCb(noPeer), B)
<1> DEFINE d == ZeroCb(noPeer)
<1>1. /\ CbShape(d) /\ d.state = "CLOSED" /\ d.txq = <<>> /\ d.buf = <<>>
      /\ \A f \in {"snd_nxt", "snd_una", "snd_wl1", "snd_wl2", "snd_wnd", "iss",
                   "rcv_nxt", "rcv_wnd", "snt", "left"} : d[f] = 0
  BY DEF ZeroCb, CbShape, CbFields
<1> HIDE DEF d
<1>2. CbTyped(d, B)
  BY <1>1, ZeroIs DEF CbTyped, States
<1>3. QED
  BY <1>2 DEF d
=============================================================================
