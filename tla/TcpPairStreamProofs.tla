------------------------- MODULE TcpPairStreamProofs -------------------------
(***************************************************************************)
(* The byte stream.  While no application closes, what arrives is what was *)
(* sent: for every stream, of any length, every pattern of loss,           *)
(* duplication and reordering, and every failure of ip_tx.  The peer may   *)
(* send more than the window holds; an end whose window is overrun is      *)
(* followed up to there.                                                   *)
(*                                                                         *)
(* StreamInv is the inductive invariant: Local(e) of one end, Cross(e) of  *)
(* what e sends and its peer has taken of it.  Every step is, at each end, *)
(* one of the Kinds; each kind keeps Local and gives SndSide and RcvSide,  *)
(* what the other end's half of Cross needs; WellKeeps puts them together. *)
(***************************************************************************)
EXTENDS TcpPairProofs, FiniteSetTheorems

Early(c) == c.state \in {"LISTEN", "SYN_SENT"}
Sync(c) == c.state \in {"SYN_RCVD", "ESTABLISHED"}
Acking(s) == "ACK" \in s.flg /\ "RST" \notin s.flg

-----------------------------------------------------------------------------
(***************************************************************************)
(* What the handlers do to a segment without FIN.                          *)
(***************************************************************************)

\* An answer without data: a reset, or an acknowledgement of what d has.
Bare(s, d) ==
    /\ s.data = <<>>
    /\ \/ s.flg \in {{"RST"}, {"RST", "ACK"}}
       \/ s.flg \in {{"ACK"}, {"PSH", "ACK"}} /\ s.ack = d.rcv_nxt /\ Sync(d)

\* From c to d nothing the stream depends on has changed but the state.
SameFlow(c, d) ==
    /\ CbShape(d)
    /\ d.iss = c.iss /\ d.snd_nxt = c.snd_nxt /\ d.rcv_nxt = c.rcv_nxt
    /\ d.rcv_wnd = c.rcv_wnd /\ d.buf = c.buf /\ d.txq = c.txq
    /\ \/ d.state = c.state
       \/ c.state = "SYN_RCVD" /\ d.state = "ESTABLISHED"

\* A segment that takes no sequence number is not queued.
LEMMA BareTx ==
    ASSUME NEW r, NEW seq, NEW ack, NEW flg, flg \cap {"SYN", "FIN"} = {}, NEW ok
    PROVE  LET q == tcp_tx(r, seq, ack, flg, <<>>, ok)
               seg == [seq |-> seq, ack |-> ack, flg |-> flg,
                       win |-> r.cb.rcv_wnd, data |-> <<>>]
           IN  q.cb = r.cb /\ q.out \in {r.out, r.out \cup {seg}}
  BY DEF tcp_tx, Queued

LEMMA SendAckIs ==
    ASSUME NEW r, Sync(r.cb), \A s \in r.out : Bare(s, r.cb), NEW ok
    PROVE  LET q == SendAck(r, ok)
           IN  q.cb = r.cb /\ \A s \in q.out : Bare(s, r.cb)
<1> DEFINE q == SendAck(r, ok)
           seg == [seq |-> r.cb.snd_nxt, ack |-> r.cb.rcv_nxt, flg |-> {"ACK"},
                   win |-> r.cb.rcv_wnd, data |-> <<>>]
<1>1. q.cb = r.cb /\ q.out \in {r.out, r.out \cup {seg}}
  <2>1. {"ACK"} \cap {"SYN", "FIN"} = {}
    OBVIOUS
  <2>2. QED
    BY <2>1, BareTx DEF SendAck
<1>2. Bare(seg, r.cb)
  BY DEF Bare
<1> HIDE DEF q, seg
<1>3. q.cb = r.cb /\ \A s \in q.out : Bare(s, r.cb)
  BY <1>1, <1>2
<1>4. QED
  BY <1>3 DEF q

LEMMA ResetIs ==
    ASSUME NEW c, NEW seq, NEW ack, NEW flg \in {{"RST"}, {"RST", "ACK"}}, NEW ok,
           NEW d
    PROVE  LET q == tcp_tx(Result(c), seq, ack, flg, <<>>, ok)
           IN  q.cb = c /\ \A s \in q.out : Bare(s, d) /\ "RST" \in s.flg
<1> DEFINE q == tcp_tx(Result(c), seq, ack, flg, <<>>, ok)
           seg == [seq |-> seq, ack |-> ack, flg |-> flg,
                   win |-> Result(c).cb.rcv_wnd, data |-> <<>>]
<1>1. /\ q.cb = Result(c).cb
      /\ q.out \in {Result(c).out, Result(c).out \cup {seg}}
  <2>1. flg \cap {"SYN", "FIN"} = {}
    OBVIOUS
  <2>2. QED
    BY <2>1, BareTx
<1>2. Bare(seg, d) /\ "RST" \in seg.flg
  BY DEF Bare
<1>3. Result(c).cb = c /\ Result(c).out = {}
  BY DEF Result
<1> HIDE DEF q, seg
<1>4. q.cb = c /\ \A s \in q.out : Bare(s, d) /\ "RST" \in s.flg
  BY <1>1, <1>2, <1>3
<1>5. QED
  BY <1>4 DEF q

\* The acknowledgement moves snd.una to a number the peer sent, or not at all.
UnaMoves(c, d, seg) ==
    \/ d.snd_una = c.snd_una
    \/ /\ "ACK" \in seg.flg /\ d.snd_una = seg.ack
       /\ c.snd_una <= seg.ack /\ seg.ack <= c.snd_nxt

LEMMA SegmentAckIs ==
    ASSUME NEW c, CbShape(c), Sync(c), NEW seg, NEW ok
    PROVE  LET a == SegmentAck(c, seg, ok)
               r == a.r
           IN  /\ SameFlow(c, r.cb) /\ UnaMoves(c, r.cb, seg)
               /\ \A s \in r.out : Bare(s, r.cb)
               /\ a.done = FALSE => \A s \in r.out : "RST" \in s.flg
<1> DEFINE r == SegmentAck(c, seg, ok).r
           done == SegmentAck(c, seg, ok).done
           Resets(q) == \A s \in q.out : "RST" \in s.flg
           r0 == AfterAck(c)
           inWindow == c.snd_una <= seg.ack /\ seg.ack <= c.snd_nxt
           r1 == IF inWindow THEN AckUpdate(r0, seg) ELSE r0
           rst == tcp_tx(Result(c), seg.ack, c.rcv_nxt, {"RST"}, <<>>, ok)
           Good(q) == /\ SameFlow(c, q.cb) /\ UnaMoves(c, q.cb, seg)
                      /\ \A s \in q.out : Bare(s, q.cb)
<1>1. Good(Result(c)) /\ Resets(Result(c))
  <2>1. SameFlow(c, c)
    BY DEF SameFlow
  <2>2. UnaMoves(c, c, seg)
    BY DEF UnaMoves
  <2>3. Result(c).cb = c /\ Result(c).out = {}
    BY DEF Result
  <2>4. QED
    BY <2>1, <2>2, <2>3
<1>2. Good(rst) /\ Resets(rst)
  <2>1. rst.cb = c /\ \A s \in rst.out : Bare(s, c) /\ "RST" \in s.flg
    BY ResetIs
  <2> HIDE DEF rst
  <2>2. QED
    BY <2>1 DEF SameFlow, UnaMoves
<1>3. /\ SameFlow(c, r0.cb) /\ r0.cb.snd_una = c.snd_una /\ r0.out = {}
      /\ r0.cb.state = "ESTABLISHED"
  BY DEF AfterAck, Established, Result, SameFlow, CbShape, CbFields, Sync
<1>4. Good(SendAck(r0, ok))
  <2>1. Sync(r0.cb)
    BY <1>3 DEF Sync
  <2>2. SendAck(r0, ok).cb = r0.cb /\ \A s \in SendAck(r0, ok).out : Bare(s, r0.cb)
    BY <1>3, <2>1, SendAckIs
  <2> HIDE DEF r0
  <2>3. QED
    BY <1>3, <2>2 DEF UnaMoves
<1>5. ASSUME "ACK" \in seg.flg
      PROVE  Good(FinAcked(r1, seg)) /\ Resets(FinAcked(r1, seg))
  <2> HIDE DEF r0
  <2>1. CASE inWindow
    <3> DEFINE u == AckUpdate(r0, seg)
    <3>1. SameFlow(r0.cb, u.cb) /\ u.cb.snd_una = seg.ack /\ u.out = r0.out
      <4> DEFINE b == r0.cb
                 fresh == \/ b.snd_wl1 < seg.seq
                          \/ b.snd_wl1 = seg.seq /\ b.snd_wl2 <= seg.ack
                 left == IF b.snd_una < seg.ack THEN UserTimeout + 1 ELSE b.left
                 d == [b EXCEPT !.snd_una = seg.ack, !.left = left,
                                !.snd_wnd = IF fresh THEN seg.win ELSE @,
                                !.snd_wl1 = IF fresh THEN seg.seq ELSE @,
                                !.snd_wl2 = IF fresh THEN seg.ack ELSE @]
      <4>1. u.cb = d /\ u.out = r0.out
        BY DEF AckUpdate, AckTaken, With, Broadcast, Notified
      <4>2. CbShape(b)
        BY <1>3 DEF SameFlow
      <4> HIDE DEF b, fresh, left
      <4>3. CbShape(d) /\ d.snd_una = seg.ack
            /\ \A f \in {"iss", "snd_nxt", "rcv_nxt", "rcv_wnd", "buf", "txq", "state"} :
                 d[f] = b[f]
        BY <4>2 DEF CbShape, CbFields
      <4> HIDE DEF d
      <4>4. SameFlow(b, d)
        BY <4>3 DEF SameFlow
      <4>5. QED
        BY <4>1, <4>3, <4>4 DEF b
    <3> HIDE DEF u
    <3>2. Good(u) /\ u.out = {} /\ u.cb.state = "ESTABLISHED"
      BY <1>3, <1>5, <2>1, <3>1 DEF SameFlow, UnaMoves
    <3>3. FinAcked(u, seg).cb = u.cb /\ FinAcked(u, seg).out = u.out
      BY <3>2 DEF FinAcked, With, SameFlow, CbShape, CbFields
    <3>4. QED
      BY <2>1, <3>2, <3>3 DEF u
  <2>2. CASE ~inWindow
    <3>1. FinAcked(r0, seg).cb = r0.cb /\ FinAcked(r0, seg).out = r0.out
      BY <1>3 DEF FinAcked, With, SameFlow, CbShape, CbFields
    <3>2. QED
      BY <1>3, <2>2, <3>1 DEF UnaMoves
  <2>3. QED
    BY <2>1, <2>2
<1>6. \/ r \in {Result(c), rst}
      \/ r = SendAck(r0, ok) /\ done = TRUE
      \/ "ACK" \in seg.flg /\ r = FinAcked(r1, seg)
  BY DEF SegmentAck, AfterAck, Established, Sync
<1> HIDE DEF r, r0, r1, rst, Good, done, Resets
<1>7. Good(r) /\ (done = FALSE => Resets(r))
  BY <1>1, <1>2, <1>4, <1>5, <1>6
<1>8. QED
  BY <1>7 DEF Good, r, done, Resets

\* Text is taken at rcv.nxt, and moves it, or nothing happens.
TextMoves(c, d, seg) ==
    \/ d.rcv_nxt = c.rcv_nxt /\ d.buf = c.buf /\ d.rcv_wnd = c.rcv_wnd
    \/ /\ seg.data # <<>> /\ c.rcv_nxt = seg.seq /\ SeqAcceptable(c, seg)
       /\ d.buf = c.buf \o seg.data
       /\ d.rcv_nxt = SeqAdd(seg.seq, Len(seg.data))
       /\ d.rcv_wnd = Uint16(c.rcv_wnd - Len(seg.data))

\* A connection goes on from c to d when seg arrives.
GoesOn(c, d, seg) ==
    /\ d.iss = c.iss /\ d.snd_nxt = c.snd_nxt /\ d.txq = c.txq
    /\ \/ d.state = c.state
       \/ c.state = "SYN_RCVD" /\ d.state = "ESTABLISHED"
    /\ UnaMoves(c, d, seg) /\ TextMoves(c, d, seg)

\* A connection ends.
Shut(r) ==
    /\ r.cb.state = "CLOSED" /\ r.cb.txq = <<>> /\ r.cb.buf = <<>>
    /\ \A s \in r.out : Bare(s, r.cb)

LEMMA SegmentTextIs ==
    ASSUME NEW c, Sync(c), NEW seg, SeqAcceptable(c, seg), NEW ok,
           NEW r, SameFlow(c, r.cb), UnaMoves(c, r.cb, seg),
           \A s \in r.out : Bare(s, r.cb) /\ "RST" \in s.flg
    PROVE  LET q == SegmentText(r, seg, ok)
           IN  GoesOn(c, q.cb, seg) /\ \A s \in q.out : Bare(s, q.cb)
<1> DEFINE q == SegmentText(r, seg, ok)
           d == [r.cb EXCEPT !.buf = @ \o seg.data,
                             !.rcv_nxt = SeqAdd(seg.seq, Len(seg.data)),
                             !.rcv_wnd = Uint16(@ - Len(seg.data))]
           w == With(r, d)
           Good(x) == GoesOn(c, x.cb, seg) /\ \A s \in x.out : Bare(s, x.cb)
<1>1. Sync(r.cb) /\ CbShape(r.cb) /\ r.cb.rcv_nxt = c.rcv_nxt
  BY DEF SameFlow, Sync
<1>2. Good(r)
  BY DEF SameFlow, GoesOn, TextMoves
<1>3. Good(Broadcast(SendAck(r, ok)))
  <2>1. SendAck(r, ok).cb = r.cb /\ \A s \in SendAck(r, ok).out : Bare(s, r.cb)
    BY <1>1, SendAckIs
  <2>2. QED
    BY <1>2, <2>1 DEF Broadcast, Notified
<1>4. ASSUME seg.data # <<>>, r.cb.rcv_nxt = seg.seq
      PROVE  Good(TextReceived(r, seg, ok))
  <2>1. /\ d.buf = r.cb.buf \o seg.data
        /\ d.rcv_nxt = SeqAdd(seg.seq, Len(seg.data))
        /\ d.rcv_wnd = Uint16(r.cb.rcv_wnd - Len(seg.data))
        /\ \A f \in {"iss", "snd_nxt", "snd_una", "txq", "state"} : d[f] = r.cb[f]
    BY <1>1 DEF CbShape, CbFields
  <2>2. w.cb = d /\ w.out = r.out
    BY DEF With
  <2>3. TextReceived(r, seg, ok) = Broadcast(SendAck(w, ok))
    BY DEF TextReceived
  <2> HIDE DEF d, w
  <2>4. GoesOn(c, d, seg)
    BY <1>1, <1>4, <2>1 DEF SameFlow, GoesOn, TextMoves, UnaMoves
  <2>5. Sync(d) /\ \A s \in r.out : Bare(s, d)
    BY <1>1, <2>1 DEF Sync, Bare
  <2>6. SendAck(w, ok).cb = d /\ \A s \in SendAck(w, ok).out : Bare(s, d)
    BY <2>2, <2>5, SendAckIs
  <2>7. QED
    BY <2>3, <2>4, <2>6 DEF Broadcast, Notified
<1>5. \/ q \in {r, Broadcast(SendAck(r, ok))}
      \/ q = TextReceived(r, seg, ok) /\ seg.data # <<>> /\ r.cb.rcv_nxt = seg.seq
  BY DEF SegmentText
<1> HIDE DEF q, Good
<1>6. Good(q)
  BY <1>2, <1>3, <1>4, <1>5
<1>7. QED
  BY <1>6 DEF Good, q

LEMMA CloseIs ==
    ASSUME NEW r, CbShape(r.cb), \A s \in r.out : "RST" \in s.flg /\ Bare(s, r.cb)
    PROVE  Shut(Broadcast(CloseCb(r))) /\ Shut(Signal(CloseCb(r)))
<1> DEFINE d == tcp_close_cb(r.cb)
<1>1. d.state = "CLOSED" /\ d.txq = <<>> /\ d.buf = <<>>
  BY DEF tcp_close_cb, CbShape, CbFields
<1>2. /\ Broadcast(CloseCb(r)).cb = d /\ Broadcast(CloseCb(r)).out = r.out
      /\ Signal(CloseCb(r)).cb = d /\ Signal(CloseCb(r)).out = r.out
  BY DEF CloseCb, Broadcast, Signal, Notified, With
<1> HIDE DEF d
<1>3. QED
  BY <1>1, <1>2 DEF Shut, Bare

LEMMA SynchronizedIs ==
    ASSUME NEW c, CbShape(c), Sync(c), NEW seg, "FIN" \notin seg.flg, NEW ok
    PROVE  LET r == ArrivesSynchronized(c, seg, ok)
           IN  \/ Shut(r)
               \/ /\ GoesOn(c, r.cb, seg) /\ \A s \in r.out : Bare(s, r.cb)
                  /\ "RST" \in seg.flg => r.cb.snd_una = c.snd_una
<1> DEFINE r == ArrivesSynchronized(c, seg, ok)
           a == SegmentAck(c, seg, ok)
           rst == tcp_tx(Result(c), 0, c.rcv_nxt, {"RST"}, <<>>, ok)
           Good(x) == GoesOn(c, x.cb, seg) /\ \A s \in x.out : Bare(s, x.cb)
<1>1. /\ SameFlow(c, c) /\ UnaMoves(c, c, seg) /\ GoesOn(c, c, seg)
      /\ Result(c).cb = c /\ Result(c).out = {}
  BY DEF SameFlow, UnaMoves, GoesOn, TextMoves, Result
<1>2. Good(Result(c)) /\ Good(SendAck(Result(c), ok))
      /\ SendAck(Result(c), ok).cb = c
  <2>1. /\ SendAck(Result(c), ok).cb = c
        /\ \A s \in SendAck(Result(c), ok).out : Bare(s, c)
    BY <1>1, SendAckIs
  <2>2. QED
    BY <1>1, <2>1
<1>3. Shut(Signal(CloseCb(Result(c)))) /\ Shut(Broadcast(CloseCb(Result(c))))
  BY <1>1, CloseIs
<1>4. Shut(Broadcast(CloseCb(rst)))
  <2>1. rst.cb = c /\ \A s \in rst.out : Bare(s, c) /\ "RST" \in s.flg
    BY ResetIs
  <2> HIDE DEF rst
  <2>2. QED
    BY <2>1, CloseIs
<1>5. /\ SameFlow(c, a.r.cb) /\ UnaMoves(c, a.r.cb, seg)
      /\ \A s \in a.r.out : Bare(s, a.r.cb)
      /\ a.done = FALSE => \A s \in a.r.out : "RST" \in s.flg
      /\ a.done \in BOOLEAN
  <2>1. a.done \in BOOLEAN
    BY DEF SegmentAck
  <2>2. QED
    BY <2>1, SegmentAckIs
<1>6. \/ r = Result(c)
      \/ r = SendAck(Result(c), ok)
      \/ r = Signal(CloseCb(Result(c)))
      \/ r = Broadcast(CloseCb(Result(c)))
      \/ r = Broadcast(CloseCb(rst))
      \/ a.done = TRUE /\ r = a.r /\ "RST" \notin seg.flg
      \/ /\ a.done = FALSE /\ r = SegmentText(a.r, seg, ok) /\ "RST" \notin seg.flg
         /\ SeqAcceptable(c, seg)
  BY <1>5 DEF ArrivesSynchronized, TextAndFin, SegmentFin
<1> HIDE DEF a, rst, r
<1>7. Good(a.r)
  BY <1>5 DEF SameFlow, GoesOn, TextMoves
<1>8. a.done = FALSE /\ SeqAcceptable(c, seg) => Good(SegmentText(a.r, seg, ok))
  BY <1>5, SegmentTextIs
<1> HIDE DEF Good
<1>9. Shut(r) \/ (Good(r) /\ ("RST" \in seg.flg => r.cb.snd_una = c.snd_una))
  BY <1>1, <1>2, <1>3, <1>4, <1>6, <1>7, <1>8
<1>10. QED
  BY <1>9 DEF Good, r

\* A control block in LISTEN takes a SYN, or is closed.
Opens(c, r, seg, iss) ==
    LET syn == [seq |-> iss, ack |-> SeqAdd(seg.seq, 1), flg |-> {"SYN", "ACK"},
                win |-> WinSize, data |-> <<>>]
        d   == r.cb
    IN  /\ "SYN" \in seg.flg /\ "ACK" \notin seg.flg /\ "RST" \notin seg.flg
        /\ d.state = "SYN_RCVD" /\ d.iss = iss /\ d.snd_una = iss
        /\ d.snd_nxt = SeqAdd(iss, 1) /\ d.rcv_nxt = SeqAdd(seg.seq, 1)
        /\ d.rcv_wnd = WinSize /\ d.buf = c.buf
        /\ \E age : d.txq = Append(c.txq, [seg |-> syn, age |-> age])
        /\ r.out \subseteq {syn}

LEMMA ListenIs ==
    ASSUME NEW c, CbShape(c), NEW seg, "FIN" \notin seg.flg, NEW iss, NEW ok
    PROVE  LET r == ArrivesListen(c, seg, iss, ok)
           IN  Shut(r) \/ Opens(c, r, seg, iss)
<1> DEFINE r == ArrivesListen(c, seg, iss, ok)
           reset == IF "ACK" \in seg.flg /\ "RST" \notin seg.flg
                    THEN tcp_tx(Result(c), seg.ack, 0, {"RST"}, <<>>, ok)
                    ELSE Result(c)
           ready == [c EXCEPT !.rcv_wnd = WinSize,
                              !.rcv_nxt = SeqAdd(seg.seq, 1), !.iss = iss]
           synack == tcp_tx(Result(ready), iss, ready.rcv_nxt, {"SYN", "ACK"},
                            <<>>, ok)
           d == [synack.cb EXCEPT !.snd_nxt = SeqAdd(iss, 1), !.snd_una = iss,
                                  !.left = UserTimeout + 1, !.state = "SYN_RCVD"]
           taken == With(synack, d)
           f == [tcp_close_cb(reset.cb) EXCEPT !.parent = NoParent]
           refused == Broadcast(With(reset, f))
           syn == [seq |-> iss, ack |-> SeqAdd(seg.seq, 1), flg |-> {"SYN", "ACK"},
                   win |-> WinSize, data |-> <<>>]
<1>1. Shut(refused)
  <2>1. reset.cb = c /\ \A s \in reset.out : Bare(s, f) /\ "RST" \in s.flg
    <3>1. Result(c).cb = c /\ Result(c).out = {}
      BY DEF Result
    <3> HIDE DEF f
    <3>2. QED
      BY <3>1, ResetIs
  <2> HIDE DEF reset
  <2>2. f.state = "CLOSED" /\ f.txq = <<>> /\ f.buf = <<>>
    BY <2>1 DEF tcp_close_cb, CbShape, CbFields
  <2> HIDE DEF f
  <2>3. refused.cb = f /\ refused.out = reset.out
    BY DEF Broadcast, Notified, With
  <2>4. QED
    BY <2>1, <2>2, <2>3 DEF Shut
<1>2. ASSUME "SYN" \in seg.flg, "ACK" \notin seg.flg, "RST" \notin seg.flg
      PROVE  Opens(c, taken, seg, iss)
  <2>1. /\ CbShape(ready) /\ ready.rcv_wnd = WinSize
        /\ ready.rcv_nxt = SeqAdd(seg.seq, 1) /\ ready.iss = iss
        /\ ready.buf = c.buf /\ ready.txq = c.txq
    BY DEF CbShape, CbFields
  <2> HIDE DEF ready
  <2>2. /\ Alike(ready, synack.cb)
        /\ synack.out \subseteq {syn}
        /\ \E age : synack.cb.txq = Append(c.txq, [seg |-> syn, age |-> age])
    <3>1. Result(ready).cb = ready /\ Result(ready).out = {}
      BY DEF Result
    <3>2. Queued({"SYN", "ACK"}, <<>>)
      BY DEF Queued
    <3>3. synack.out \in {{}, {syn}}
      BY <2>1, <3>1 DEF tcp_tx
    <3>4. synack.cb \in {tcp_txq_add(ready, syn, Unsent),
            [tcp_txq_add(ready, syn, 0) EXCEPT !.snt = Uint16(@ + Len(<<>>))]}
      BY <2>1, <3>1, <3>2 DEF tcp_tx
    <3>5. Alike(ready, synack.cb)
      BY <2>1, <3>1, TxAlike
    <3> HIDE DEF synack, syn
    <3>6. synack.cb.txq \in {Append(c.txq, [seg |-> syn, age |-> Unsent]),
                             Append(c.txq, [seg |-> syn, age |-> 0])}
      <4>1. ASSUME NEW age
            PROVE  LET q == tcp_txq_add(ready, syn, age)
                   IN  /\ CbShape(q)
                       /\ q.txq = Append(c.txq, [seg |-> syn, age |-> age])
        BY <2>1 DEF tcp_txq_add, CbShape, CbFields
      <4>2. ASSUME NEW q, CbShape(q), NEW v PROVE [q EXCEPT !.snt = v].txq = q.txq
        BY <4>2 DEF CbShape, CbFields
      <4> DEFINE p == tcp_txq_add(ready, syn, Unsent)
                 q == tcp_txq_add(ready, syn, 0)
                 v == Uint16(q.snt + Len(<<>>))
      <4>3. p.txq = Append(c.txq, [seg |-> syn, age |-> Unsent])
        BY <4>1
      <4>4. CbShape(q) /\ q.txq = Append(c.txq, [seg |-> syn, age |-> 0])
        BY <4>1
      <4>5. synack.cb = p \/ synack.cb = [q EXCEPT !.snt = v]
        BY <3>4
      <4> HIDE DEF p, q, v
      <4>6. [q EXCEPT !.snt = v].txq = q.txq
        BY <4>2, <4>4
      <4>7. QED
        BY <4>3, <4>4, <4>5, <4>6
    <3>7. QED
      BY <3>3, <3>5, <3>6
  <2> HIDE DEF synack, syn
  <2>3. /\ d.state = "SYN_RCVD" /\ d.snd_nxt = SeqAdd(iss, 1) /\ d.snd_una = iss
        /\ \A g \in {"iss", "rcv_nxt", "rcv_wnd", "buf", "txq"} : d[g] = synack.cb[g]
    BY <2>2 DEF Alike, CbShape, CbFields
  <2>4. taken.cb = d /\ taken.out = synack.out
    BY DEF With
  <2> HIDE DEF d, taken
  <2>5. d.iss = iss /\ d.rcv_nxt = SeqAdd(seg.seq, 1) /\ d.rcv_wnd = WinSize
        /\ d.buf = c.buf
    BY <2>1, <2>2, <2>3 DEF Alike, CbFields
  <2>6. QED
    BY <1>2, <2>2, <2>3, <2>4, <2>5 DEF Opens, syn
<1>3. \/ r = refused
      \/ /\ r = taken
         /\ "SYN" \in seg.flg /\ "ACK" \notin seg.flg /\ "RST" \notin seg.flg
  <2>1. TextAndFin(taken, seg, ok) = taken
    <3>1. taken.cb.state = "SYN_RCVD"
      <4>1. CbShape(synack.cb)
        <5>1. CbShape(ready)
          BY DEF CbShape, CbFields
        <5> HIDE DEF ready
        <5>2. CbShape(Result(ready).cb)
          BY <5>1 DEF Result
        <5>3. QED
          BY <5>2, TxAlike DEF Alike
      <4> HIDE DEF synack
      <4>2. QED
        BY <4>1 DEF With, CbShape, CbFields
    <3> HIDE DEF taken
    <3>2. QED
      BY <3>1 DEF TextAndFin, SegmentFin, SegmentText
  <2>2. \/ r = refused
        \/ /\ r = TextAndFin(taken, seg, ok)
           /\ "SYN" \in seg.flg /\ seg.flg \cap {"RST", "ACK"} = {}
    BY DEF ArrivesListen
  <2> HIDE DEF taken, refused, r
  <2>3. QED
    BY <2>1, <2>2
<1> HIDE DEF taken, refused
<1>4. QED
  BY <1>1, <1>2, <1>3

\* The SYN,ACK establishes the connection of the end that connects.
Establishes(c, r, seg) ==
    LET d == r.cb
    IN  /\ "SYN" \in seg.flg /\ Acking(seg)
        /\ c.iss < seg.ack /\ seg.ack <= c.snd_nxt
        /\ d.state = "ESTABLISHED" /\ d.snd_una = seg.ack
        /\ d.rcv_nxt = SeqAdd(seg.seq, 1)
        /\ d.iss = c.iss /\ d.snd_nxt = c.snd_nxt /\ d.rcv_wnd = c.rcv_wnd
        /\ d.buf = c.buf /\ d.txq = c.txq
        /\ \A s \in r.out : Bare(s, d)

LEMMA SynSentIs ==
    ASSUME NEW c, CbShape(c), c.iss \in Int, c.snd_una = c.iss, c.snd_nxt \in Int,
           NEW seg, seg.ack \in Int, "FIN" \notin seg.flg, NEW ok,
           "SYN" \in seg.flg => "ACK" \in seg.flg /\ seg.data = <<>>
    PROVE  LET r == ArrivesSynSent(c, seg, ok)
           IN  \/ Shut(r) \/ Establishes(c, r, seg)
               \/ r.cb = c /\ \A s \in r.out : Bare(s, c)
<1> DEFINE r == ArrivesSynSent(c, seg, ok)
           una == IF c.snd_una < seg.ack THEN seg.ack ELSE c.snd_una
           left == IF una # c.snd_una THEN UserTimeout + 1 ELSE c.left
           d == [c EXCEPT !.rcv_nxt = SeqAdd(seg.seq, 1), !.snd_una = una,
                          !.left = left, !.state = "ESTABLISHED"]
           estab == Signal(SendAck(Result(d), ok))
           rst == tcp_tx(Result(c), seg.ack, 0, {"RST"}, <<>>, ok)
<1>1. \/ r = rst \/ r = Result(c) \/ r = Signal(CloseCb(Result(c)))
      \/ r = estab /\ "SYN" \in seg.flg /\ Acking(seg) /\ c.iss < seg.ack
           /\ seg.ack <= c.snd_nxt
  BY DEF ArrivesSynSent, Acking
<1>2. rst.cb = c /\ \A s \in rst.out : Bare(s, c)
  BY ResetIs
<1>3. Result(c).cb = c /\ Result(c).out = {}
  BY DEF Result
<1>4. Shut(Signal(CloseCb(Result(c))))
  BY <1>3, CloseIs
<1>5. ASSUME "SYN" \in seg.flg, Acking(seg), c.iss < seg.ack, seg.ack <= c.snd_nxt
      PROVE  Establishes(c, estab, seg)
  <2>1. una = seg.ack
    BY <1>5
  <2> HIDE DEF una, left
  <2>2. /\ d.state = "ESTABLISHED" /\ d.snd_una = seg.ack
        /\ d.rcv_nxt = SeqAdd(seg.seq, 1)
        /\ \A f \in {"iss", "snd_nxt", "rcv_wnd", "buf", "txq"} : d[f] = c[f]
    BY <2>1 DEF CbShape, CbFields
  <2> HIDE DEF d
  <2>3. Result(d).cb = d /\ Result(d).out = {} /\ Sync(d)
    BY <2>2 DEF Result, Sync
  <2>4. SendAck(Result(d), ok).cb = d /\ \A s \in SendAck(Result(d), ok).out : Bare(s, d)
    BY <2>3, SendAckIs
  <2>5. estab.cb = d /\ \A s \in estab.out : Bare(s, d)
    BY <2>4 DEF Signal, Notified
  <2> HIDE DEF estab
  <2>6. QED
    BY <1>5, <2>2, <2>5 DEF Establishes
<1> HIDE DEF r, rst, estab
<1>6. QED
  BY <1>1, <1>2, <1>3, <1>4, <1>5 DEF r

LEMMA ClosedIs ==
    ASSUME NEW c, NEW seg, NEW ok
    PROVE  LET r == ArrivesClosed(c, seg, ok)
           IN  r.cb = c /\ \A s \in r.out : Bare(s, c)
<1> DEFINE r == ArrivesClosed(c, seg, ok)
           a == tcp_tx(Result(c), seg.ack, 0, {"RST"}, <<>>, ok)
           b == tcp_tx(Result(c), 0, SeqAdd(seg.seq, Len(seg.data)), {"RST", "ACK"},
                       <<>>, ok)
<1>1. r \in {Result(c), a, b}
  BY DEF ArrivesClosed
<1>2. a.cb = c /\ \A s \in a.out : Bare(s, c)
  BY ResetIs
<1>3. b.cb = c /\ \A s \in b.out : Bare(s, c)
  BY ResetIs
<1>4. Result(c).cb = c /\ Result(c).out = {}
  BY DEF Result
<1> HIDE DEF r, a, b
<1>5. QED
  BY <1>1, <1>2, <1>3, <1>4 DEF r

\* A segment that is sent again: a new acknowledgement number at most.
Again(s, t) == s.seq = t.seq /\ s.flg = t.flg /\ s.data = t.data

\* A visit of the timer thread.
LEMMA TimerIs ==
    ASSUME NEW c, CbTyped(c, Bytes)
    PROVE  LET r == tcp_timer_cb(c)
               d == r.cb
           IN  \/ Shut(r)
               \/ /\ Alike(c, d)
                  /\ \A i \in DOMAIN d.txq : \E j \in DOMAIN c.txq :
                       Again(d.txq[i].seg, c.txq[j].seg)
                  /\ \A j \in DOMAIN c.txq : c.txq[j].seg.seq >= c.snd_una =>
                       \E i \in DOMAIN d.txq : Again(d.txq[i].seg, c.txq[j].seg)
                  /\ \A s \in r.out :
                       s.ack = c.rcv_nxt /\ \E j \in DOMAIN c.txq : Again(s, c.txq[j].seg)
<1> DEFINE r == tcp_timer_cb(c)
           d == r.cb
           k == Kept(c)
           q == c.txq
<1>1. CbShape(c) /\ Result(c).cb = c /\ Result(c).out = {}
      /\ c.txq \in Seq(EntryOf(Bytes))
  BY DEF Result, CbTyped
<1>2. CASE c.state = "CLOSED"
  <2>1. r = Result(c)
    BY <1>2 DEF tcp_timer_cb
  <2>2. QED
    BY <1>1, <2>1 DEF Alike, Again
<1>3. CASE r = Broadcast(CloseCb(Result(c)))
  BY <1>1, <1>3, CloseIs
<1>4. CASE r = TimerTxq(c)
  <2> DEFINE f == TimerTxq(c).cb
  <2>0. /\ CbShape(f) /\ f.txq = TimerQueue(c)
        /\ \A g \in CbFields \ {"txq", "snt"} : f[g] = c[g]
        /\ TimerTxq(c).out = {SentAgain(c, i) : i \in Due(c)}
    BY <1>1 DEF TimerTxq, CbShape, CbFields
  <2> HIDE DEF f
  <2>1. Alike(c, d)
    BY <1>4, <2>0 DEF f, Alike
  <2>2. d.txq = TimerQueue(c) /\ r.out = {SentAgain(c, i) : i \in Due(c)}
    BY <1>4, <2>0 DEF f
  <2> DEFINE E == {q[j] : j \in 1..Len(q)}
  <2>3. /\ Len(q) \in Nat /\ DOMAIN q = 1..Len(q) /\ q \in Seq(E)
        /\ \A j \in 1..Len(q) : q[j].seg \in SegOf(Bytes)
    <3>1. /\ Len(q) \in Nat /\ DOMAIN q = 1..Len(q)
          /\ q = [j \in 1..Len(q) |-> q[j]]
          /\ \A j \in 1..Len(q) : q[j] \in EntryOf(Bytes)
      BY <1>1
    <3>2. q \in Seq(E)
      BY <3>1
    <3>3. QED
      BY <3>1, <3>2 DEF EntryOf
  <2>4. /\ k \in Seq({x \in E : Unacked(c, x)})
        /\ \A j \in 1..Len(q) : Unacked(c, q[j]) =>
             \E i \in 1..Len(k) : k[i] = q[j]
    <3> HIDE DEF E
    <3>1. QED
      BY <2>3, KeptIs
  <2>5. /\ Len(k) \in Nat /\ DOMAIN k = 1..Len(k)
        /\ \A i \in 1..Len(k) : \E j \in 1..Len(q) : k[i] = q[j]
    BY <2>4, SMTT(30)
  <2>6. ASSUME NEW i \in 1..Len(k)
        PROVE  Again(SentAgain(c, i), k[i].seg) /\ SentAgain(c, i).ack = c.rcv_nxt
    <3>1. k[i].seg \in SegOf(Bytes)
      BY <2>3, <2>5
    <3>2. SentAgain(c, i) = [k[i].seg EXCEPT !.ack = c.rcv_nxt]
      BY DEF SentAgain
    <3> HIDE DEF k
    <3>3. QED
      BY <3>1, <3>2 DEF SegOf, Again
  <2>7. /\ DOMAIN d.txq = 1..Len(k)
        /\ \A i \in 1..Len(k) : Again(d.txq[i].seg, k[i].seg)
    <3>1. d.txq = [i \in 1..Len(k) |->
                     IF i \in Due(c) THEN [seg |-> SentAgain(c, i), age |-> 0]
                     ELSE k[i]]
      BY <2>2, <2>5 DEF TimerQueue
    <3>2. \A i \in 1..Len(k) : Again(k[i].seg, k[i].seg)
      BY DEF Again
    <3> HIDE DEF k, d
    <3>3. QED
      BY <2>6, <3>1, <3>2
  <2>8. Due(c) \subseteq 1..Len(k)
    BY <2>5 DEF Due
  <2> HIDE DEF k, d, E, q, r
  <2>9. ASSUME NEW i \in DOMAIN d.txq
        PROVE  \E j \in DOMAIN q : Again(d.txq[i].seg, q[j].seg)
    BY <2>3, <2>5, <2>7
  <2>10. ASSUME NEW j \in DOMAIN q, q[j].seg.seq >= c.snd_una
         PROVE  \E i \in DOMAIN d.txq : Again(d.txq[i].seg, q[j].seg)
    BY <2>3, <2>4, <2>7, <2>10 DEF Unacked
  <2>11. ASSUME NEW s \in r.out
         PROVE  s.ack = c.rcv_nxt /\ \E j \in DOMAIN q : Again(s, q[j].seg)
    <3>1. PICK i \in 1..Len(k) : s = SentAgain(c, i)
      BY <2>2, <2>8
    <3>2. PICK j \in 1..Len(q) : k[i] = q[j]
      BY <2>5
    <3>3. QED
      BY <2>3, <2>6, <3>1, <3>2
  <2>12. QED
    BY <2>1, <2>9, <2>10, <2>11 DEF q, d, r
<1>5. QED
  BY <1>2, <1>3, <1>4 DEF tcp_timer_cb

-----------------------------------------------------------------------------
(***************************************************************************)
(* The inductive invariant, per end e.                                     *)
(***************************************************************************)

\* How much of its stream e has passed to its peer's stack, and how much of its
\* peer's stream e has taken.
StreamLen(e) == Len(Stream[e])
TodoLen(e) == Len(todo[e])
GotLen(e) == Len(got[e])
BufLen(c) == Len(c.buf)
TextLen(s) == Len(s.data)

SentN(e) == StreamLen(e) - TodoLen(e)
Pos(e) == GotLen(e) + BufLen(cb[e])

\* The text of s is a piece of the first n bytes of e's stream.
Chunk(e, s, n) ==
    LET k == s.seq - Iss[e] - 1
    IN  /\ k >= 0 /\ k + TextLen(s) <= n
        /\ s.data = SubSeq(Stream[e], k + 1, k + TextLen(s))

\* What a segment of e may be.
Carries(e, s, n) ==
    /\ "FIN" \notin s.flg
    /\ "SYN" \in s.flg => s.seq = Iss[e] /\ s.data = <<>>
    /\ "SYN" \in s.flg /\ "ACK" \notin s.flg => e = "A"
    /\ s.data # <<>> => TextLen(s) <= Mss /\ Chunk(e, s, n)

Opened(c) == c.state \notin {"CLOSED", "LISTEN"}

StateInv(e) ==
    /\ cb[e].state \in {"CLOSED", "LISTEN", "SYN_SENT", "SYN_RCVD", "ESTABLISHED"}
    /\ cb[e].state = "LISTEN" => e = "B" /\ cb[e].txq = <<>>
    /\ cb[e].state = "SYN_SENT" =>
         e = "A" /\ cb[e].rcv_wnd = WinSize /\ cb[e].snd_una = Iss[e]
    /\ Early(cb[e]) =>
         /\ todo[e] = Stream[e] /\ got[e] = <<>> /\ cb[e].buf = <<>>
         /\ \A i \in DOMAIN cb[e].txq : "ACK" \notin cb[e].txq[i].seg.flg
    /\ cb[e].state = "CLOSED" => cb[e].buf = <<>> /\ cb[e].txq = <<>>
    /\ sender[e] = "run" => mutex[e] = "send"

RestInv(e) ==
    /\ TodoLen(e) <= StreamLen(e)
    /\ todo[e] = SubSeq(Stream[e], SentN(e) + 1, StreamLen(e))

SndInv(e) == Opened(cb[e]) =>
    /\ cb[e].iss = Iss[e] /\ cb[e].snd_nxt = Iss[e] + 1 + SentN(e)
    /\ Iss[e] <= cb[e].snd_una /\ cb[e].snd_una <= cb[e].snd_nxt

RcvInv(e) == Sync(cb[e]) =>
    /\ cb[e].rcv_nxt = Iss[Other(e)] + 1 + Pos(e)
    /\ BufLen(cb[e]) <= WinSize => BufLen(cb[e]) = WinSize - cb[e].rcv_wnd

QueueInv(e) == \A i \in DOMAIN cb[e].txq :
    Carries(e, cb[e].txq[i].seg,
            IF mutex[e] = "leaked" THEN StreamLen(e) ELSE SentN(e))

Covers(s, n) ==
    s.seq <= n /\ n < s.seq + TextLen(s) + (IF "SYN" \in s.flg THEN 1 ELSE 0)

CoverInv(e) == Opened(cb[e]) =>
    \A n \in cb[e].snd_una..(cb[e].snd_nxt - 1) :
        \E i \in DOMAIN cb[e].txq : Covers(cb[e].txq[i].seg, n)

Local(e) ==
    /\ StateInv(e) /\ RestInv(e) /\ SndInv(e) /\ RcvInv(e) /\ QueueInv(e)
    /\ CoverInv(e)

\* What e's peer has is what e sent.
PrefixInv(e) ==
    LET o == Other(e)
    IN  /\ got[o] \in Seq(Bytes)
        /\ got[o] \o cb[o].buf = SubSeq(Stream[e], 1, Pos(o))
        /\ Pos(o) <= SentN(e)

NetInv(e) == \A s \in net[Other(e)] : Carries(e, s, SentN(e))

\* Nothing is acknowledged to e that its peer does not have.
AcksInv(e) == \A s \in net[e] : Acking(s) =>
    /\ ~Early(cb[Other(e)]) /\ s.ack <= Iss[e] + 1 + SentN(e)
    /\ Sync(cb[Other(e)]) => s.ack <= cb[Other(e)].rcv_nxt

UnaInv(e) == Opened(cb[e]) =>
    /\ Early(cb[Other(e)]) => cb[e].snd_una = Iss[e]
    /\ Sync(cb[Other(e)]) => cb[e].snd_una <= cb[Other(e)].rcv_nxt

\* Segments with text that e has queued or in flight, and the sequence numbers
\* that are, or may become, snd.una of e or rcv.nxt of its peer.
Texts(e) ==
    {s \in {cb[e].txq[i].seg : i \in DOMAIN cb[e].txq} \cup net[Other(e)] :
       s.data # <<>>}

Marks(e) ==
    {Iss[e], Iss[e] + 1}
      \cup {n \in {cb[e].snd_una} : Opened(cb[e])}
      \cup {n \in {cb[Other(e)].rcv_nxt} : Sync(cb[Other(e)])}
      \cup {s.ack : s \in {x \in net[e] : Acking(x)}}
      \cup {s.seq + TextLen(s) : s \in Texts(e)}

\* None of them lies inside a segment.
CutInv(e) == \A s \in Texts(e), p \in Marks(e) :
    ~(s.seq < p /\ p < s.seq + TextLen(s))

Cross(e) ==
    PrefixInv(e) /\ NetInv(e) /\ AcksInv(e) /\ UnaInv(e) /\ CutInv(e)

StreamInv == \A e \in Ends : Local(e) /\ Cross(e)

-----------------------------------------------------------------------------
(***************************************************************************)
(* Facts of type, in the form the steps below use.                         *)
(***************************************************************************)
Nums(s) ==
    /\ s.seq \in Nat /\ s.ack \in Nat /\ TextLen(s) \in Nat
    /\ TextLen(s) <= WinSize /\ (s.data = <<>> <=> TextLen(s) = 0)

LEMMA SegNums ==
    ASSUME NEW s \in SegOf(Bytes)
    PROVE  Nums(s) /\ s.data \in Seq(Bytes)
<1>1. s.data \in Seq(Bytes) /\ TextLen(s) \in Nat
  BY SegOfIs DEF TextLen
<1>2. s.data = <<>> <=> TextLen(s) = 0
  BY <1>1, EmptySeq DEF TextLen
<1>3. QED
  BY <1>1, <1>2, SegOfIs, SeqSpaceAssumption, WinSizeAssumption
     DEF Nums, SeqNos, Wnds, TextLen

Scalars(c) ==
    /\ c.snd_nxt \in Nat /\ c.snd_una \in Nat /\ c.rcv_nxt \in Nat
    /\ c.rcv_wnd \in Nat /\ c.rcv_wnd <= WinSize
    /\ BufLen(c) \in Nat
QueueTyped(c) ==
    /\ c.buf \in Seq(Bytes) /\ DOMAIN c.txq = 1..Len(c.txq) /\ Len(c.txq) \in Nat
    /\ c.txq \in Seq(EntryOf(Bytes))
    /\ \A i \in DOMAIN c.txq : Nums(c.txq[i].seg)

LEMMA CbNums ==
    ASSUME NEW c, CbTyped(c, Bytes)
    PROVE  Scalars(c) /\ QueueTyped(c)
<1>1. /\ c.txq \in Seq(EntryOf(Bytes)) /\ DOMAIN c.txq = 1..Len(c.txq)
      /\ Len(c.txq) \in Nat /\ \A i \in DOMAIN c.txq : c.txq[i] \in EntryOf(Bytes)
  BY DEF CbTyped
<1>2. \A i \in DOMAIN c.txq : Nums(c.txq[i].seg)
  BY <1>1, SegNums DEF EntryOf
<1>3. c.buf \in Seq(Bytes) /\ BufLen(c) \in Nat
  BY DEF CbTyped, BufLen
<1>4. QED
  BY <1>1, <1>2, <1>3, SeqSpaceAssumption, WinSizeAssumption
     DEF CbTyped, Scalars, QueueTyped, SeqNos, Wnds

EndTyped(e) ==
    /\ Scalars(cb[e]) /\ QueueTyped(cb[e]) /\ \A s \in net[e] : Nums(s)
    /\ todo[e] \in Seq(Bytes) /\ TodoLen(e) \in Nat

LEMMA EndNums ==
    ASSUME PairTyped, NEW e \in Ends
    PROVE  EndTyped(e)
  BY CbNums, SegNums DEF PairTyped, EndTyped, TodoLen

\* The constants.
Fixed(e) ==
    /\ StreamLen(e) \in Nat /\ Iss[e] \in Nat
    /\ Iss[e] + StreamLen(e) + 2 < SeqSpace
    /\ SeqSpace \in Nat /\ WinSize \in Nat /\ WinSize > 0 /\ Mss \in Nat /\ Mss > 0

LEMMA FixedIs ==
    ASSUME NEW e \in Ends
    PROVE  Fixed(e)
  BY IssType, StreamAssumption, SeqSpaceAssumption, WinSizeAssumption, PairAssumption
     DEF Fixed, StreamLen

\* No wrap-around within a stream.
LEMMA NoWrap ==
    ASSUME NEW e \in Ends, NEW a \in Nat, NEW n \in Nat,
           a + n <= Iss[e] + 1 + StreamLen(e)
    PROVE  SeqAdd(a, n) = a + n
  BY FixedIs DEF Fixed, SeqAdd

-----------------------------------------------------------------------------
(***************************************************************************)
(* Most steps leave both ends where they were or move them on: the timer   *)
(* thread, the clock, the network, recv, and whatever arrives on a         *)
(* connection that is open.                                                *)
(***************************************************************************)
UnaStep(e) ==
    \/ cb'[e].snd_una = cb[e].snd_una
    \/ /\ Sync(cb[e]) /\ cb[e].snd_una <= cb'[e].snd_una
       /\ cb'[e].snd_una <= cb[e].snd_nxt
       /\ \E s \in net[e] : Acking(s) /\ s.ack = cb'[e].snd_una

\* Text arrives, recv takes some, or neither.
TextStep(e) ==
    /\ Sync(cb[e]) /\ got'[e] = got[e] /\ BufLen(cb[e]) <= WinSize
    /\ \E s \in net[e] :
         /\ s.data # <<>> /\ cb[e].rcv_nxt = s.seq /\ SeqAcceptable(cb[e], s)
         /\ cb'[e].buf = cb[e].buf \o s.data
         /\ cb'[e].rcv_nxt = SeqAdd(s.seq, TextLen(s))
         /\ cb'[e].rcv_wnd = Uint16(cb[e].rcv_wnd - TextLen(s))

ReadStep(e) ==
    /\ Sync(cb[e]) /\ cb'[e].rcv_nxt = cb[e].rcv_nxt /\ BufLen(cb[e]) <= WinSize
    /\ \E len \in 0..(WinSize - cb[e].rcv_wnd) :
         /\ got'[e] = got[e] \o SubSeq(cb[e].buf, 1, len)
         /\ cb'[e].buf = SubSeq(cb[e].buf, len + 1, BufLen(cb[e]))
         /\ cb'[e].rcv_wnd = Uint16(cb[e].rcv_wnd + len)

NoText(e) ==
    /\ cb'[e].rcv_nxt = cb[e].rcv_nxt /\ cb'[e].buf = cb[e].buf
    /\ cb'[e].rcv_wnd = cb[e].rcv_wnd /\ got'[e] = got[e]

RcvStep(e) == TextStep(e) \/ ReadStep(e) \/ NoText(e)

StateStep(e) ==
    \/ cb'[e].state = cb[e].state
    \/ cb[e].state = "SYN_RCVD" /\ cb'[e].state = "ESTABLISHED"

\* The queue: entries are sent again or freed, the unacknowledged ones stay.
QueueStep(e) ==
    /\ \A i \in DOMAIN cb'[e].txq : \E j \in DOMAIN cb[e].txq :
         Again(cb'[e].txq[i].seg, cb[e].txq[j].seg)
    /\ \A j \in DOMAIN cb[e].txq : cb[e].txq[j].seg.seq >= cb[e].snd_una =>
         \E i \in DOMAIN cb'[e].txq : Again(cb'[e].txq[i].seg, cb[e].txq[j].seg)

NetStep(e) == \A s \in net'[Other(e)] :
    \/ s \in net[Other(e)]
    \/ Bare(s, cb'[e])
    \/ /\ mutex[e] # "leaked" /\ s.ack = cb'[e].rcv_nxt
       /\ \E j \in DOMAIN cb[e].txq : Again(s, cb[e].txq[j].seg)

LockStep(e) ==
    /\ mutex[e] = "leaked" => mutex'[e] = "leaked"
    /\ sender'[e] = "run" => mutex'[e] = "send"

Advance(e) ==
    /\ StateStep(e) /\ cb'[e].iss = cb[e].iss /\ cb'[e].snd_nxt = cb[e].snd_nxt
    /\ UnaStep(e) /\ RcvStep(e)
    /\ QueueStep(e) /\ NetStep(e) /\ LockStep(e) /\ todo'[e] = todo[e]

LEMMA Assoc ==
    ASSUME NEW g \in Seq(Bytes), NEW b \in Seq(Bytes), NEW d \in Seq(Bytes)
    PROVE  (g \o b) \o d = g \o (b \o d)
  BY ConcatAssociative

\* What the window holds is lengthened at the end and shortened at the front.
LEMMA Adjacent ==
    ASSUME NEW S \in Seq(Bytes), NEW p \in Nat, NEW n \in Nat, p + n <= Len(S)
    PROVE  SubSeq(S, 1, p) \o SubSeq(S, p + 1, p + n) = SubSeq(S, 1, p + n)
<1>1. Len(S) \in Nat
  OBVIOUS
<1>2. 1 \in 1..(Len(S) + 1) /\ p \in (1 - 1)..Len(S) /\ p + n \in p..Len(S)
  BY <1>1
<1>3. QED
  BY <1>2, ConcatAdjacentSubSeq

LEMMA Shorten ==
    ASSUME NEW g \in Seq(Bytes), NEW b \in Seq(Bytes), NEW l \in 0..Len(b)
    PROVE  LET h == g \o SubSeq(b, 1, l)
               c == SubSeq(b, l + 1, Len(b))
           IN  /\ h \in Seq(Bytes) /\ c \in Seq(Bytes) /\ h \o c = g \o b
               /\ Len(h) = Len(g) + l /\ Len(c) = Len(b) - l
<1>1. /\ Len(b) \in Nat /\ SubSeq(b, 1, l) \in Seq(Bytes)
      /\ Len(SubSeq(b, 1, l)) = l
      /\ SubSeq(b, l + 1, Len(b)) \in Seq(Bytes)
      /\ Len(SubSeq(b, l + 1, Len(b))) = Len(b) - l
  OBVIOUS
<1>2. SubSeq(b, 1, l) \o SubSeq(b, l + 1, Len(b)) = b
  <2>1. 1 \in 1..(Len(b) + 1) /\ l \in (1 - 1)..Len(b) /\ Len(b) \in l..Len(b)
    BY <1>1
  <2>2. SubSeq(b, 1, l) \o SubSeq(b, l + 1, Len(b)) = SubSeq(b, 1, Len(b))
    BY <2>1, ConcatAdjacentSubSeq
  <2>3. QED
    BY <2>2, SubSeqFull
<1>3. (g \o SubSeq(b, 1, l)) \o SubSeq(b, l + 1, Len(b)) = g \o b
  <2> DEFINE x == SubSeq(b, 1, l)
             y == SubSeq(b, l + 1, Len(b))
  <2>1. x \in Seq(Bytes) /\ y \in Seq(Bytes) /\ x \o y = b
    BY <1>1, <1>2
  <2> HIDE DEF x, y
  <2>2. (g \o x) \o y = g \o (x \o y)
    BY <2>1, Assoc
  <2>3. QED
    BY <2>1, <2>2 DEF x, y
<1>4. /\ g \o SubSeq(b, 1, l) \in Seq(Bytes)
      /\ Len(g \o SubSeq(b, 1, l)) = Len(g) + l
  BY <1>1
<1>5. QED
  BY <1>1, <1>3, <1>4

LEMMA Uint16Small ==
    ASSUME NEW n \in 0..WinSize
    PROVE  Uint16(n) = n
  BY WinSizeAssumption DEF Uint16

\* Whatever end e takes is the next piece of its peer's stream.
LEMMA Received ==
    ASSUME PairTyped, PairTyped', StreamInv, NEW e \in Ends, RcvStep(e),
           Sync(cb[e])
    PROVE  LET o == Other(e)
           IN  /\ cb'[e].rcv_nxt = Iss[o] + 1 + Pos(e)'
               /\ BufLen(cb'[e]) <= WinSize =>
                      BufLen(cb'[e]) = WinSize - cb'[e].rcv_wnd
               /\ cb[e].rcv_nxt <= cb'[e].rcv_nxt
               /\ got'[e] \in Seq(Bytes)
               /\ got'[e] \o cb'[e].buf = SubSeq(Stream[o], 1, Pos(e)')
               /\ Pos(e)' <= SentN(o)
               /\ cb'[e].rcv_nxt \in Marks(o)
<1> DEFINE o == Other(e)
           c == cb[e]
           d == cb'[e]
           P == Pos(e)
<1>1. /\ o \in Ends /\ Other(o) = e
  BY OtherIs
<1>2. /\ c.rcv_nxt = Iss[o] + 1 + P /\ P <= SentN(o)
      /\ BufLen(c) <= WinSize => BufLen(c) = WinSize - c.rcv_wnd
  BY <1>1 DEF StreamInv, Local, RcvInv, Cross, PrefixInv
<1>2a. got[e] \in Seq(Bytes) /\ got[e] \o c.buf = SubSeq(Stream[o], 1, P)
  BY <1>1 DEF StreamInv, Local, RcvInv, Cross, PrefixInv
<1>3. Scalars(c) /\ Scalars(d) /\ EndTyped(e) /\ EndTyped(o) /\ Fixed(o)
  BY <1>1, EndNums, FixedIs, CbNums DEF EndTyped, PairTyped
<1>3a. c.buf \in Seq(Bytes) /\ Stream[o] \in Seq(Bytes)
  BY <1>1, <1>3, StreamAssumption DEF EndTyped, QueueTyped
<1>4. /\ GotLen(e) \in Nat /\ P \in Nat /\ P = GotLen(e) + BufLen(c)
      /\ SentN(o) \in Int /\ SentN(o) <= StreamLen(o)
  <2>1. got[e] \in Seq(Bytes)
    BY <1>2a
  <2>2. GotLen(e) \in Nat
    BY <2>1 DEF GotLen
  <2>3. BufLen(c) \in Nat
    BY <1>3 DEF Scalars
  <2>4. P = GotLen(e) + BufLen(c)
    BY DEF Pos
  <2>5. P \in Nat
    BY <2>2, <2>3, <2>4
  <2>6. TodoLen(o) \in Nat /\ StreamLen(o) \in Nat
    BY <1>3 DEF EndTyped, Fixed
  <2>7. SentN(o) \in Int /\ SentN(o) <= StreamLen(o)
    BY <2>6 DEF SentN
  <2>8. QED
    BY <2>2, <2>4, <2>5, <2>7
<1>5. c.rcv_nxt \in Marks(o)
  BY <1>1 DEF Marks
<1> DEFINE Q == Pos(e)'
           Goal == /\ d.rcv_nxt = Iss[o] + 1 + Q
                   /\ BufLen(d) <= WinSize => BufLen(d) = WinSize - d.rcv_wnd
                   /\ c.rcv_nxt <= d.rcv_nxt
                   /\ Q <= SentN(o)
                   /\ d.rcv_nxt \in Marks(o)
           Same == got'[e] \in Seq(Bytes) /\ got'[e] \o d.buf = SubSeq(Stream[o], 1, Q)
<1>6. CASE NoText(e)
  <2>1. Q = P
    BY <1>6 DEF NoText, Pos, GotLen, BufLen
  <2>2. /\ d.rcv_nxt = c.rcv_nxt /\ d.rcv_wnd = c.rcv_wnd /\ BufLen(d) = BufLen(c)
        /\ got'[e] = got[e] /\ d.buf = c.buf
    BY <1>6 DEF NoText, BufLen
  <2> HIDE DEF c, d, o, P, Q
  <2>3. Goal
    BY <1>2, <1>3, <1>4, <1>5, <2>1, <2>2 DEF Scalars
  <2>4. Same
    BY <1>2a, <2>1, <2>2
  <2>5. QED
    BY <2>3, <2>4 DEF c, d, o, Q
<1>7. CASE ReadStep(e)
  <2>1. PICK l \in 0..(WinSize - c.rcv_wnd) :
          /\ got'[e] = got[e] \o SubSeq(c.buf, 1, l)
          /\ d.buf = SubSeq(c.buf, l + 1, BufLen(c))
          /\ d.rcv_wnd = Uint16(c.rcv_wnd + l)
    BY <1>7 DEF ReadStep
  <2>2. /\ d.rcv_nxt = c.rcv_nxt /\ Q = GotLen(e)' + BufLen(d)
        /\ BufLen(c) <= WinSize
    BY <1>7 DEF ReadStep, Pos
  <2> DEFINE g == got[e]
             b == c.buf
             h == got'[e]
             f == d.buf
  <2> HIDE DEF c, d, o, P, Q
  <2>3. l \in Nat /\ l <= BufLen(c)
    BY <1>2, <1>3, <2>1, <2>2 DEF Scalars, Fixed
  <2>4. /\ h \in Seq(Bytes) /\ h \o f = g \o b
        /\ Len(h) = Len(g) + l /\ Len(f) = Len(b) - l
    <3>1. g \in Seq(Bytes) /\ b \in Seq(Bytes) /\ l \in 0..Len(b)
      BY <1>2a, <1>3a, <2>3 DEF BufLen
    <3>2. h = g \o SubSeq(b, 1, l) /\ f = SubSeq(b, l + 1, Len(b))
      BY <2>1 DEF BufLen
    <3> HIDE DEF g, b, h, f
    <3>3. QED
      BY <3>1, <3>2, Shorten
  <2>5. GotLen(e)' = GotLen(e) + l /\ BufLen(d) = BufLen(c) - l
    BY <2>4 DEF GotLen, BufLen
  <2>6. d.rcv_wnd = c.rcv_wnd + l
    <3>1. c.rcv_wnd + l \in 0..WinSize
      BY <1>2, <1>3, <2>3 DEF Scalars, Fixed
    <3>2. QED
      BY <2>1, <3>1, Uint16Small
  <2>7. Q = P
    BY <1>3, <1>4, <2>2, <2>3, <2>5 DEF Scalars
  <2>8. Goal
    BY <1>2, <1>3, <1>4, <1>5, <2>2, <2>3, <2>5, <2>6, <2>7 DEF Scalars, Fixed
  <2>9. Same
    BY <1>2a, <2>4, <2>7
  <2>10. QED
    BY <2>8, <2>9 DEF c, d, o, Q
<1>8. CASE TextStep(e)
  <2>1. PICK s \in net[e] :
         /\ s.data # <<>> /\ c.rcv_nxt = s.seq /\ SeqAcceptable(c, s)
         /\ d.buf = c.buf \o s.data
         /\ d.rcv_nxt = SeqAdd(s.seq, TextLen(s))
         /\ d.rcv_wnd = Uint16(c.rcv_wnd - TextLen(s))
    BY <1>8 DEF TextStep
  <2> DEFINE L == TextLen(s)
  <2>2. Nums(s) /\ Carries(o, s, SentN(o))
    BY <1>1, <1>3 DEF EndTyped, StreamInv, Cross, NetInv
  <2>2a. s.data \in Seq(Bytes)
    BY SegNums DEF PairTyped
  <2>3. /\ got'[e] = got[e] /\ Q = GotLen(e) + BufLen(d)
        /\ BufLen(c) <= WinSize
    BY <1>8 DEF TextStep, Pos, GotLen
  <2>4. s \in Texts(o)
    BY <1>1, <2>1 DEF Texts
  <2> HIDE DEF c, d, o, P, Q, L
  <2>5. L \in Nat /\ L > 0 /\ s.seq \in Nat
    BY <2>1, <2>2 DEF Nums, L
  <2>5a. c.rcv_nxt = s.seq
    BY <2>1
  <2>6. s.seq - Iss[o] - 1 = P
    BY <1>2, <1>3, <1>4, <2>5, <2>5a DEF Fixed, Scalars
  <2>7. L <= Mss /\ P + L <= SentN(o)
    BY <2>1, <2>2, <2>6 DEF Carries, Chunk, L
  <2>7a. s.data = SubSeq(Stream[o], P + 1, P + L)
    BY <2>1, <2>2, <2>6 DEF Carries, Chunk, L
  <2>8. d.rcv_nxt = s.seq + L
    <3>1. s.seq + L <= Iss[o] + 1 + StreamLen(o)
      BY <1>2, <1>3, <1>4, <2>5, <2>6, <2>7 DEF Fixed
    <3>2. QED
      BY <1>1, <2>1, <2>5, <3>1, NoWrap DEF L
  <2>9. BufLen(d) = BufLen(c) + L
    <3> DEFINE b == c.buf
               t == s.data
    <3>1. b \in Seq(Bytes) /\ t \in Seq(Bytes) /\ d.buf = b \o t
      BY <1>3a, <2>1, <2>2a
    <3> HIDE DEF b, t
    <3>2. Len(d.buf) = Len(b) + Len(t)
      BY <3>1
    <3>3. QED
      BY <3>2 DEF b, t, BufLen, TextLen, L
  <2>10. BufLen(d) <= WinSize => L <= c.rcv_wnd
    BY <1>2, <1>3, <2>3, <2>5, <2>9 DEF Scalars, Fixed
  <2>11. BufLen(d) <= WinSize => d.rcv_wnd = c.rcv_wnd - L
    <3>1. SUFFICES ASSUME BufLen(d) <= WinSize PROVE d.rcv_wnd = c.rcv_wnd - L
      OBVIOUS
    <3>2. c.rcv_wnd - L \in 0..WinSize
      BY <1>3, <2>5, <2>10, <3>1 DEF Scalars, Fixed
    <3>3. QED
      BY <2>1, <3>2, Uint16Small DEF L
  <2>12. Q = P + L
    BY <1>3, <1>4, <2>3, <2>5, <2>9 DEF Scalars
  <2>13. d.rcv_nxt \in Marks(o)
    BY <2>4, <2>8 DEF Marks, L
  <2>14. Goal
    <3>1. BufLen(d) <= WinSize => BufLen(d) = WinSize - d.rcv_wnd
      BY <1>2, <1>3, <2>3, <2>5, <2>9, <2>11 DEF Scalars, Fixed
    <3>2. QED
      BY <1>2, <1>3, <1>4, <2>5, <2>5a, <2>6, <2>7, <2>8, <2>12, <2>13, <3>1
         DEF Scalars, Fixed
  <2>15. Same
    <3> DEFINE S == Stream[o]
               g == got[e]
               b == c.buf
               t == s.data
    <3>1. /\ S \in Seq(Bytes) /\ g \in Seq(Bytes) /\ b \in Seq(Bytes)
          /\ t \in Seq(Bytes) /\ g \o b = SubSeq(S, 1, P)
      BY <1>2a, <1>3a, <2>2a
    <3>2. P + L <= Len(S) /\ t = SubSeq(S, P + 1, P + L)
      <4>1. P + L <= StreamLen(o)
        BY <1>3, <1>4, <2>5, <2>7 DEF Fixed
      <4>2. QED
        BY <2>7a, <4>1 DEF StreamLen
    <3>3. got'[e] \o d.buf = g \o (b \o t) /\ got'[e] = g
      BY <2>1, <2>3
    <3> HIDE DEF S, g, b, t
    <3>4. P \in Nat /\ L \in Nat
      BY <1>4, <2>5
    <3>5. g \o (b \o t) = SubSeq(S, 1, P + L)
      <4>1. g \o b = SubSeq(S, 1, P)
        BY <3>1
      <4>2. P + L <= Len(S)
        BY <3>2
      <4>3. t = SubSeq(S, P + 1, P + L)
        BY <3>2
      <4>4. S \in Seq(Bytes) /\ g \in Seq(Bytes) /\ b \in Seq(Bytes) /\ t \in Seq(Bytes)
        BY <3>1
      <4>5. (g \o b) \o t = g \o (b \o t)
        BY <4>4, Assoc
      <4>6. SubSeq(S, 1, P) \o SubSeq(S, P + 1, P + L) = SubSeq(S, 1, P + L)
        BY <3>4, <4>2, <4>4, Adjacent
      <4>7. QED
        BY <4>1, <4>3, <4>5, <4>6
    <3>6. QED
      BY <2>12, <3>1, <3>3, <3>5 DEF S
  <2>16. QED
    BY <2>14, <2>15 DEF c, d, o, Q
<1>9. QED
  BY <1>6, <1>7, <1>8 DEF RcvStep

-----------------------------------------------------------------------------
(***************************************************************************)
(* What a step of one end means for the other.  Each end plays two parts:  *)
(* it sends its own stream and takes its peer's.                           *)
(***************************************************************************)

\* A segment f that begins where the stream of e has got to.
Fresh(e, f) == Nums(f) /\ \A p \in Marks(e) : p <= f.seq

TextsSide(e) ==
    \/ \A s \in Texts(e)' : \E t \in Texts(e) : Again(s, t)
    \/ \E f : /\ Fresh(e, f)
              /\ \A s \in Texts(e)' : Again(s, f) \/ \E t \in Texts(e) : Again(s, t)

UnaSide(e) == Opened(cb'[e]) =>
    \/ cb'[e].snd_una = Iss[e]
    \/ cb'[e].snd_una = cb[e].snd_una /\ Opened(cb[e])
    \/ \E s \in net[e] : Acking(s) /\ s.ack = cb'[e].snd_una

SndSide(e) ==
    /\ SentN(e) <= SentN(e)' /\ NetInv(e)' /\ TextsSide(e) /\ UnaSide(e)

AckSide(e) == \A s \in net'[Other(e)] : Acking(s) =>
    s \in net[Other(e)] \/ (Sync(cb'[e]) /\ s.ack = cb'[e].rcv_nxt)

RcvSide(e) ==
    LET o == Other(e)
    IN  /\ got'[e] \in Seq(Bytes)
        /\ got'[e] \o cb'[e].buf = SubSeq(Stream[o], 1, Pos(e)')
        /\ Pos(e)' <= SentN(o)
        /\ Early(cb'[e]) => Early(cb[e])
        /\ Sync(cb'[e]) =>
             /\ cb'[e].rcv_nxt = Iss[o] + 1 + Pos(e)' /\ cb'[e].rcv_nxt \in Marks(o)
             /\ Sync(cb[e]) => cb[e].rcv_nxt <= cb'[e].rcv_nxt
             /\ ~Sync(cb[e]) => Early(cb[e])
        /\ AckSide(e)

LEMMA MarksNums ==
    ASSUME PairTyped, NEW e \in Ends
    PROVE  (\A p \in Marks(e) : p \in Nat) /\ (\A s \in Texts(e) : Nums(s))
<1>1. Other(e) \in Ends
  BY OtherIs
<1>2. EndTyped(e) /\ EndTyped(Other(e)) /\ Fixed(e)
  BY <1>1, EndNums, FixedIs
<1>3. ASSUME NEW s \in Texts(e) PROVE Nums(s)
  BY <1>2 DEF Texts, EndTyped, QueueTyped
<1>4. \A s \in Texts(e) : s.seq + TextLen(s) \in Nat
  BY <1>3 DEF Nums
<1>5. \A s \in net[e] : s.ack \in Nat
  BY <1>2 DEF EndTyped, Nums
<1>6. Iss[e] \in Nat /\ Iss[e] + 1 \in Nat
  BY <1>2 DEF Fixed
<1>7. cb[e].snd_una \in Nat /\ cb[Other(e)].rcv_nxt \in Nat
  BY <1>2 DEF EndTyped, Scalars
<1>8. \A p \in Marks(e) : p \in Nat
  BY <1>4, <1>5, <1>6, <1>7 DEF Marks
<1>9. QED
  BY <1>3, <1>8

\* The lengths that change, as numbers.
LEMMA LenNums ==
    ASSUME PairTyped, NEW e \in Ends, got[e] \in Seq(Bytes)
    PROVE  /\ GotLen(e) \in Nat /\ BufLen(cb[e]) \in Nat /\ Pos(e) \in Nat
           /\ TodoLen(e) \in Nat /\ SentN(e) \in Int /\ SentN(e) <= StreamLen(e)
<1>1. GotLen(e) \in Nat
  BY DEF GotLen
<1>2. BufLen(cb[e]) \in Nat /\ TodoLen(e) \in Nat /\ StreamLen(e) \in Nat
  BY EndNums, FixedIs DEF EndTyped, Scalars, Fixed
<1>3. QED
  BY <1>1, <1>2 DEF Pos, SentN

LEMMA CutKeeps ==
    ASSUME PairTyped, PairTyped', NEW e \in Ends, CutInv(e),
           TextsSide(e), UnaSide(e), RcvSide(Other(e))
    PROVE  CutInv(e)'
<1> DEFINE o == Other(e)
<1>1. o \in Ends /\ Other(o) = e
  BY OtherIs
<1>2. /\ \A p \in Marks(e) : p \in Nat
      /\ \A s \in Texts(e) : Nums(s)
  BY MarksNums
<1>3. \A s \in Texts(e)' : Nums(s)
  <2>1. EndTyped(e)' /\ EndTyped(o)'
    <3>1. \A x \in Ends : EndTyped(x)'
      BY CbNums, SegNums DEF PairTyped, EndTyped, TodoLen
    <3>2. QED
      BY <1>1, <3>1
  <2>2. QED
    BY <2>1 DEF Texts, EndTyped, QueueTyped
\* A mark of the next state is one already, or the end of a text.
<1>4. ASSUME NEW p \in Marks(e)'
      PROVE  p \in Marks(e) \/ \E s \in Texts(e)' : p = s.seq + TextLen(s)
  <2>1. CASE p \in {Iss[e], Iss[e] + 1}
    BY <2>1 DEF Marks
  <2>2. CASE p = cb'[e].snd_una /\ Opened(cb'[e])
    BY <2>2 DEF UnaSide, Marks
  <2>3. CASE p = cb'[o].rcv_nxt /\ Sync(cb'[o])
    BY <1>1, <2>3 DEF RcvSide
  <2>4. CASE \E s \in net'[e] : Acking(s) /\ p = s.ack
    <3>1. PICK s \in net'[e] : Acking(s) /\ p = s.ack
      BY <2>4
    <3>2. CASE s \in net[e]
      BY <3>1, <3>2 DEF Marks
    <3>3. CASE Sync(cb'[o]) /\ s.ack = cb'[o].rcv_nxt
      BY <1>1, <3>1, <3>3 DEF RcvSide
    <3>4. QED
      BY <1>1, <3>1, <3>2, <3>3 DEF RcvSide, AckSide
  <2>5. CASE \E s \in Texts(e)' : p = s.seq + TextLen(s)
    BY <2>5
  <2>6. QED
    BY <2>1, <2>2, <2>3, <2>4, <2>5 DEF Marks
<1>5. \A t \in Texts(e) : t.seq + TextLen(t) \in Marks(e)
  BY DEF Marks
<1>6. \A s, t : Again(s, t) => s.seq = t.seq /\ TextLen(s) = TextLen(t)
  BY DEF Again, TextLen
<1>7. \A t \in Texts(e), p \in Marks(e) : ~(t.seq < p /\ p < t.seq + TextLen(t))
  BY DEF CutInv
<1> DEFINE Out(s, p) == ~(s.seq < p /\ p < s.seq + TextLen(s))
<1>8. SUFFICES ASSUME NEW s \in Texts(e)', NEW p \in Marks(e)'
               PROVE  Out(s, p)
  BY DEF CutInv
<1>9. CASE \A x \in Texts(e)' : \E t \in Texts(e) : Again(x, t)
  <2>1. p \in Marks(e)
    <3>1. ASSUME NEW x \in Texts(e)', p = x.seq + TextLen(x) PROVE p \in Marks(e)
      BY <1>5, <1>6, <1>9, <3>1
    <3>2. QED
      BY <1>4, <3>1
  <2>2. QED
    BY <1>6, <1>7, <1>9, <2>1
<1>10. ASSUME NEW f, Fresh(e, f),
              \A x \in Texts(e)' : Again(x, f) \/ \E t \in Texts(e) : Again(x, t)
       PROVE  Out(s, p)
  <2>1. /\ f.seq \in Nat /\ TextLen(f) \in Nat /\ \A q \in Marks(e) : q <= f.seq
    BY <1>10 DEF Fresh, Nums
  <2>2. p \in Marks(e) \/ p = f.seq + TextLen(f)
    BY <1>4, <1>5, <1>6, <1>10
  <2>3. CASE Again(s, f)
    <3>1. s.seq = f.seq /\ TextLen(s) = TextLen(f)
      BY <1>6, <2>3
    <3>2. CASE p \in Marks(e)
      BY <1>2, <2>1, <3>1, <3>2
    <3>3. CASE p = f.seq + TextLen(f)
      BY <2>1, <3>1, <3>3
    <3>4. QED
      BY <2>2, <3>2, <3>3
  <2>4. ASSUME NEW t \in Texts(e), Again(s, t) PROVE Out(s, p)
    <3>1. s.seq = t.seq /\ TextLen(s) = TextLen(t)
      BY <1>6, <2>4
    <3>2. CASE p \in Marks(e)
      BY <1>7, <3>1, <3>2
    <3>3. CASE p = f.seq + TextLen(f)
      <4>1. t.seq + TextLen(t) \in Nat /\ t.seq + TextLen(t) <= f.seq
        BY <1>2, <1>5, <2>1
      <4>2. QED
        BY <2>1, <3>1, <3>3, <4>1
    <3>4. QED
      BY <2>2, <3>2, <3>3
  <2>5. QED
    BY <1>10, <2>3, <2>4
<1>11. QED
  BY <1>9, <1>10 DEF TextsSide

LEMMA CrossKeeps ==
    ASSUME PairTyped, PairTyped', NEW e \in Ends, Cross(e),
           SndSide(e), RcvSide(Other(e))
    PROVE  Cross(e)'
<1> DEFINE o == Other(e)
           c == cb[e]
           b == cb[o]
           d == cb'[e]
           a == cb'[o]
           P == Pos(o)'
           m == SentN(e)
           n == SentN(e)'
<1>1. o \in Ends /\ Other(o) = e
  BY OtherIs
<1>2. /\ Scalars(b) /\ Scalars(a) /\ Scalars(c) /\ Scalars(d) /\ Fixed(e)
      /\ \A s \in net[e] : Nums(s)
  BY <1>1, EndNums, FixedIs, CbNums DEF EndTyped, PairTyped
<1>3. /\ m \in Int /\ n \in Int /\ m <= n /\ P \in Nat /\ P <= m
  <2>1. P \in Nat
    <3>1. got'[o] \in Seq(Bytes)
      BY DEF RcvSide
    <3>2. GotLen(o)' \in Nat
      BY <3>1 DEF GotLen
    <3>3. BufLen(a) \in Nat
      BY <1>2 DEF Scalars
    <3>4. P = GotLen(o)' + BufLen(a)
      BY DEF Pos
    <3>5. QED
      BY <3>2, <3>3, <3>4
  <2>2. m \in Int /\ n \in Int
    <3>1. TodoLen(e) \in Nat /\ TodoLen(e)' \in Nat /\ StreamLen(e) \in Nat
      BY EndNums, FixedIs DEF PairTyped, EndTyped, Fixed, TodoLen
    <3>2. QED
      BY <3>1 DEF SentN, StreamLen
  <2>3. QED
    BY <1>1, <2>1, <2>2 DEF RcvSide, SndSide
<1>4. PrefixInv(e)'
  <2>1. P <= n
    BY <1>3
  <2>2. QED
    BY <1>1, <2>1 DEF PrefixInv, RcvSide
<1>5. NetInv(e)'
  BY DEF SndSide
<1>6. /\ Early(a) => Early(b)
      /\ Sync(a) => /\ a.rcv_nxt = Iss[e] + 1 + P
                    /\ Sync(b) => b.rcv_nxt <= a.rcv_nxt
                    /\ ~Sync(b) => Early(b)
      /\ \A s \in net'[e] : Acking(s) => s \in net[e] \/ (Sync(a) /\ s.ack = a.rcv_nxt)
  BY <1>1 DEF RcvSide, AckSide
<1>7. \A s \in net[e] : Acking(s) =>
        /\ ~Early(b) /\ s.ack <= Iss[e] + 1 + m
        /\ Sync(b) => s.ack <= b.rcv_nxt
  BY DEF Cross, AcksInv
<1>8. /\ Opened(d) =>
         \/ d.snd_una = Iss[e]
         \/ d.snd_una = c.snd_una /\ Opened(c)
         \/ \E s \in net[e] : Acking(s) /\ s.ack = d.snd_una
      /\ Opened(c) => /\ Early(b) => c.snd_una = Iss[e]
                      /\ Sync(b) => c.snd_una <= b.rcv_nxt
  BY DEF SndSide, UnaSide, Cross, UnaInv
<1>9. Sync(a) => ~Early(a)
  BY DEF Sync, Early
<1>10. CutInv(e)'
  BY CutKeeps DEF SndSide, Cross
<1> HIDE DEF c, b, d, a, P, m, n
<1>11. \A s \in net'[e] : Acking(s) =>
         /\ ~Early(a) /\ s.ack <= Iss[e] + 1 + n
         /\ Sync(a) => s.ack <= a.rcv_nxt
  <2>1. SUFFICES ASSUME NEW s \in net'[e], Acking(s)
                 PROVE  /\ ~Early(a) /\ s.ack <= Iss[e] + 1 + n
                        /\ Sync(a) => s.ack <= a.rcv_nxt
    OBVIOUS
  <2>2. CASE s \in net[e]
    <3>1. s.ack \in Nat
      BY <1>2, <2>2 DEF Nums
    <3>2. /\ ~Early(b) /\ s.ack <= Iss[e] + 1 + m
          /\ Sync(b) => s.ack <= b.rcv_nxt
      BY <1>7, <2>1, <2>2
    <3>3. s.ack <= Iss[e] + 1 + n
      BY <1>2, <1>3, <3>1, <3>2 DEF Fixed
    <3>4. Sync(a) => s.ack <= a.rcv_nxt
      BY <1>2, <1>6, <3>1, <3>2 DEF Scalars
    <3>5. QED
      BY <1>6, <3>2, <3>3, <3>4
  <2>3. CASE Sync(a) /\ s.ack = a.rcv_nxt
    BY <1>2, <1>3, <1>6, <1>9, <2>3 DEF Scalars, Fixed
  <2>4. QED
    BY <1>6, <2>1, <2>2, <2>3
<1>12. AcksInv(e)'
  BY <1>11 DEF AcksInv, a, n
<1>13. Opened(d) => /\ Early(a) => d.snd_una = Iss[e]
                    /\ Sync(a) => d.snd_una <= a.rcv_nxt
  <2>1. SUFFICES ASSUME Opened(d)
                 PROVE  /\ Early(a) => d.snd_una = Iss[e]
                        /\ Sync(a) => d.snd_una <= a.rcv_nxt
    OBVIOUS
  <2>2. CASE d.snd_una = Iss[e]
    BY <1>2, <1>3, <1>6, <2>2 DEF Fixed
  <2>3. CASE d.snd_una = c.snd_una /\ Opened(c)
    <3>1. Sync(a) => Iss[e] <= a.rcv_nxt
      BY <1>2, <1>3, <1>6 DEF Fixed
    <3>2. QED
      BY <1>2, <1>6, <1>8, <2>3, <3>1 DEF Scalars
  <2>4. CASE \E s \in net[e] : Acking(s) /\ s.ack = d.snd_una
    <3>1. PICK s \in net[e] : Acking(s) /\ s.ack = d.snd_una
      BY <2>4
    <3>2. s.ack \in Nat
      BY <1>2 DEF Nums
    <3>3. ~Early(b) /\ (Sync(b) => s.ack <= b.rcv_nxt)
      BY <1>7, <3>1
    <3>4. QED
      BY <1>2, <1>6, <3>1, <3>2, <3>3 DEF Scalars
  <2>5. QED
    BY <1>8, <2>1, <2>2, <2>3, <2>4
<1>14. UnaInv(e)'
  BY <1>13 DEF UnaInv, a, d
<1>15. QED
  BY <1>4, <1>5, <1>10, <1>12, <1>14 DEF Cross

-----------------------------------------------------------------------------
(***************************************************************************)
(* An end that stays where it is or moves on.                              *)
(***************************************************************************)
LEMMA CarriesAgain ==
    ASSUME NEW e \in Ends, NEW s, NEW t, NEW m \in Int, NEW n \in Int, m <= n,
           Nums(t), Again(s, t), Carries(e, t, m)
    PROVE  Carries(e, s, n)
<1>1. s.seq = t.seq /\ s.flg = t.flg /\ s.data = t.data /\ TextLen(s) = TextLen(t)
  BY DEF Again, TextLen
<1>2. Iss[e] \in Nat /\ t.seq \in Nat /\ TextLen(t) \in Nat
  BY FixedIs DEF Fixed, Nums
<1>3. ASSUME s.data # <<>> PROVE TextLen(s) <= Mss /\ Chunk(e, s, n)
  <2>1. TextLen(t) <= Mss /\ Chunk(e, t, m)
    BY <1>1, <1>3 DEF Carries
  <2>2. s.seq - Iss[e] - 1 + TextLen(s) <= n
    BY <1>1, <1>2, <2>1 DEF Chunk
  <2>3. QED
    BY <1>1, <2>1, <2>2 DEF Chunk
<1>4. QED
  BY <1>1, <1>3 DEF Carries

LEMMA CarriesBare ==
    ASSUME NEW e, NEW s, NEW d, Bare(s, d), NEW n
    PROVE  Carries(e, s, n)
  BY DEF Bare, Carries

LEMMA BareAcks ==
    ASSUME NEW s, NEW d, Bare(s, d), Acking(s)
    PROVE  Sync(d) /\ s.ack = d.rcv_nxt
  BY DEF Bare, Acking

\* An unacknowledged number is covered by an entry that begins at snd.una or
\* behind it.
LEMMA CoveredBehind ==
    ASSUME PairTyped, StreamInv, NEW e \in Ends, Opened(cb[e]),
           NEW n \in cb[e].snd_una..(cb[e].snd_nxt - 1)
    PROVE  \E i \in DOMAIN cb[e].txq :
             Covers(cb[e].txq[i].seg, n) /\ cb[e].txq[i].seg.seq >= cb[e].snd_una
<1> DEFINE c == cb[e]
           u == c.snd_una
<1>1. PICK i \in DOMAIN c.txq : Covers(c.txq[i].seg, n)
  BY DEF StreamInv, Local, CoverInv
<1> DEFINE s == c.txq[i].seg
           N == IF mutex[e] = "leaked" THEN StreamLen(e) ELSE SentN(e)
<1>2. Nums(s) /\ u \in Nat /\ c.snd_nxt \in Nat /\ Iss[e] \in Nat
  BY EndNums, FixedIs DEF EndTyped, QueueTyped, Scalars, Fixed
<1>3. Carries(e, s, N)
  BY DEF StreamInv, Local, QueueInv
<1>4. Iss[e] <= u /\ u \in Marks(e)
  BY DEF StreamInv, Local, SndInv, Marks
<1>5. s.data # <<>> => ~(s.seq < u /\ u < s.seq + TextLen(s))
  <2>1. s.data # <<>> => s \in Texts(e)
    BY DEF Texts
  <2>2. QED
    BY <1>4, <2>1 DEF StreamInv, Cross, CutInv
<1> HIDE DEF s, u, N
<1>6. n \in Int /\ u <= n
  BY <1>2 DEF u
<1>7. s.seq >= u
  <2>1. CASE s.data # <<>>
    <3>1. "SYN" \notin s.flg
      BY <1>3, <2>1 DEF Carries
    <3>2. s.seq <= n /\ n < s.seq + TextLen(s)
      BY <1>1, <1>2, <3>1 DEF Covers, s, Nums
    <3>3. QED
      BY <1>2, <1>5, <1>6, <2>1, <3>2 DEF Nums
  <2>2. CASE s.data = <<>>
    <3>1. TextLen(s) = 0
      BY <1>2, <2>2 DEF Nums
    <3>2. "SYN" \in s.flg /\ n < s.seq + 1
      BY <1>1, <1>2, <1>6, <3>1 DEF Covers, s, Nums
    <3>3. s.seq = Iss[e]
      BY <1>3, <3>2 DEF Carries
    <3>4. QED
      BY <1>2, <1>4, <1>6, <3>2, <3>3 DEF Nums
  <2>3. QED
    BY <2>1, <2>2
<1>8. QED
  BY <1>1, <1>7 DEF s, u

LEMMA RcvKeeps ==
    ASSUME PairTyped, PairTyped', StreamInv, NEW e \in Ends, RcvStep(e),
           StateStep(e), AckSide(e)
    PROVE  RcvSide(e) /\ RcvInv(e)'
<1> DEFINE o == Other(e)
           c == cb[e]
           d == cb'[e]
<1>1. o \in Ends /\ Other(o) = e
  BY OtherIs
<1>2. /\ Early(d) <=> Early(c)
      /\ Sync(d) <=> Sync(c)
  BY DEF StateStep, Early, Sync
<1>3. CASE Sync(c)
  BY <1>2, <1>3, Received DEF RcvSide, RcvInv
<1>4. CASE ~Sync(c)
  <2>1. d.buf = c.buf /\ got'[e] = got[e]
    BY <1>4 DEF RcvStep, TextStep, ReadStep, NoText
  <2>2. Pos(e)' = Pos(e)
    BY <2>1 DEF Pos, GotLen, BufLen
  <2>3. /\ got[e] \in Seq(Bytes) /\ got[e] \o c.buf = SubSeq(Stream[o], 1, Pos(e))
        /\ Pos(e) <= SentN(o)
    BY <1>1 DEF StreamInv, Cross, PrefixInv
  <2>4. QED
    BY <1>2, <1>4, <2>1, <2>2, <2>3 DEF RcvSide, RcvInv
<1>5. QED
  BY <1>3, <1>4

LEMMA EmptyQueue ==
    ASSUME NEW q, NEW D, q \in Seq(D), \A i \in DOMAIN q : FALSE
    PROVE  q = <<>>
  BY EmptySeq, SMTT(30)

\* The part of the state that is e's own.
LEMMA AdvanceLocal ==
    ASSUME PairTyped, PairTyped', StreamInv, NEW e \in Ends, Advance(e),
           RcvInv(e)'
    PROVE  Local(e)'
<1> DEFINE c == cb[e]
           d == cb'[e]
<1>1. /\ Scalars(c) /\ Scalars(d) /\ QueueTyped(c) /\ QueueTyped(d) /\ Fixed(e)
  BY EndNums, FixedIs, CbNums DEF EndTyped, PairTyped
<1>2. StateInv(e) /\ RestInv(e) /\ SndInv(e) /\ QueueInv(e)
  BY DEF StreamInv, Local
<1>3. /\ d.iss = c.iss /\ d.snd_nxt = c.snd_nxt /\ todo'[e] = todo[e]
      /\ SentN(e)' = SentN(e) /\ TodoLen(e)' = TodoLen(e)
  BY DEF Advance, SentN, TodoLen, StreamLen
<1>4. StateInv(e)'
  <2>1. d.state \in {"CLOSED", "LISTEN", "SYN_SENT", "SYN_RCVD", "ESTABLISHED"}
    BY <1>2 DEF Advance, StateStep, StateInv
  <2>2. c.txq = <<>> => d.txq = <<>>
    <3>1. c.txq = <<>> => \A i \in DOMAIN d.txq : FALSE
      BY DEF Advance, QueueStep
    <3>2. QED
      BY <1>1, <3>1, EmptyQueue DEF QueueTyped
  <2>3. d.state \in {"CLOSED", "LISTEN", "SYN_SENT"} =>
          /\ d.state = c.state /\ d.rcv_wnd = c.rcv_wnd /\ d.buf = c.buf
          /\ got'[e] = got[e] /\ d.snd_una = c.snd_una
    BY DEF Advance, StateStep, RcvStep, TextStep, ReadStep, NoText, UnaStep, Sync
  <2>4. ASSUME Early(c) PROVE \A i \in DOMAIN d.txq : "ACK" \notin d.txq[i].seg.flg
    BY <1>2, <2>4 DEF StateInv, Advance, QueueStep, Again
  <2>5. d.state = "LISTEN" => e = "B" /\ d.txq = <<>>
    BY <1>2, <2>2, <2>3 DEF StateInv
  <2>6. d.state = "SYN_SENT" => e = "A" /\ d.rcv_wnd = WinSize /\ d.snd_una = Iss[e]
    BY <1>2, <2>3 DEF StateInv
  <2>7. Early(d) =>
         /\ todo'[e] = Stream[e] /\ got'[e] = <<>> /\ d.buf = <<>>
         /\ \A i \in DOMAIN d.txq : "ACK" \notin d.txq[i].seg.flg
    BY <1>2, <1>3, <2>3, <2>4 DEF StateInv, Early
  <2>8. d.state = "CLOSED" => d.buf = <<>> /\ d.txq = <<>>
    BY <1>2, <2>2, <2>3 DEF StateInv
  <2>9. sender'[e] = "run" => mutex'[e] = "send"
    BY DEF Advance, LockStep
  <2>10. QED
    BY <2>1, <2>5, <2>6, <2>7, <2>8, <2>9 DEF StateInv
<1>5. RestInv(e)'
  BY <1>2, <1>3 DEF RestInv, StreamLen
<1>6. Opened(d) => Opened(c)
  BY DEF Opened, Advance, StateStep
<1>7. c.snd_una <= d.snd_una
  <2>1. CASE d.snd_una = c.snd_una
    BY <1>1, <2>1 DEF Scalars
  <2>2. QED
    BY <2>1 DEF Advance, UnaStep
<1>8. SndInv(e)'
  <2>1. Opened(c) => c.snd_una <= c.snd_nxt /\ Iss[e] <= c.snd_una
        /\ c.iss = Iss[e] /\ c.snd_nxt = Iss[e] + 1 + SentN(e)
    BY <1>2 DEF SndInv
  <2>2. d.snd_una = c.snd_una \/ d.snd_una <= c.snd_nxt
    BY DEF Advance, UnaStep
  <2>3. QED
    BY <1>1, <1>3, <1>6, <1>7, <2>1, <2>2 DEF SndInv, Scalars, Fixed
<1>9. QueueInv(e)'
  <2> DEFINE m == IF mutex[e] = "leaked" THEN StreamLen(e) ELSE SentN(e)
             n == IF mutex'[e] = "leaked" THEN StreamLen(e) ELSE SentN(e)
  <2>1. m \in Int /\ n \in Int /\ m <= n
    <3>1. SentN(e) \in Int /\ StreamLen(e) \in Int /\ SentN(e) <= StreamLen(e)
      <4>1. TodoLen(e) \in Nat /\ StreamLen(e) \in Nat
        BY <1>1, EndNums DEF EndTyped, Fixed
      <4>2. QED
        BY <4>1 DEF SentN
    <3>2. mutex[e] = "leaked" => mutex'[e] = "leaked"
      BY DEF Advance, LockStep
    <3>3. QED
      BY <3>1, <3>2
  <2>2. \A i \in DOMAIN c.txq : Carries(e, c.txq[i].seg, m) /\ Nums(c.txq[i].seg)
    BY <1>1, <1>2 DEF QueueInv, QueueTyped
  <2> HIDE DEF m, n
  <2>3. ASSUME NEW i \in DOMAIN d.txq PROVE Carries(e, d.txq[i].seg, n)
    <3>1. PICK j \in DOMAIN c.txq : Again(d.txq[i].seg, c.txq[j].seg)
      BY DEF Advance, QueueStep
    <3>2. QED
      BY <2>1, <2>2, <3>1, CarriesAgain
  <2>4. QED
    BY <1>3, <2>3 DEF QueueInv, n, StreamLen
<1>10. CoverInv(e)'
  <2>1. SUFFICES ASSUME Opened(d), NEW n \in d.snd_una..(d.snd_nxt - 1)
                 PROVE  \E i \in DOMAIN d.txq : Covers(d.txq[i].seg, n)
    BY DEF CoverInv
  <2>2. n \in c.snd_una..(c.snd_nxt - 1)
    BY <1>1, <1>3, <1>7 DEF Scalars
  <2>3. PICK j \in DOMAIN c.txq :
          Covers(c.txq[j].seg, n) /\ c.txq[j].seg.seq >= c.snd_una
    BY <1>6, <2>1, <2>2, CoveredBehind
  <2>4. PICK i \in DOMAIN d.txq : Again(d.txq[i].seg, c.txq[j].seg)
    BY <2>3 DEF Advance, QueueStep
  <2>5. Covers(d.txq[i].seg, n)
    BY <2>3, <2>4 DEF Covers, Again, TextLen
  <2>6. QED
    BY <2>5
<1>11. QED
  BY <1>4, <1>5, <1>8, <1>9, <1>10 DEF Local

\* What a queue or a link holds after the step, held it before or is fresh.
LEMMA TextsCases ==
    ASSUME NEW e \in Ends, NEW s \in Texts(e)'
    PROVE  /\ s.data # <<>>
           /\ s \in net'[Other(e)] \/ \E i \in DOMAIN cb'[e].txq : s = cb'[e].txq[i].seg
  BY DEF Texts

LEMMA AdvanceSides ==
    ASSUME PairTyped, PairTyped', StreamInv, NEW e \in Ends, Advance(e)
    PROVE  SndSide(e) /\ AckSide(e)
<1> DEFINE o == Other(e)
           c == cb[e]
           d == cb'[e]
<1>1. QueueTyped(c) /\ SentN(e) \in Int
  <2>1. QueueTyped(c) /\ TodoLen(e) \in Nat /\ StreamLen(e) \in Nat
    BY EndNums, FixedIs DEF EndTyped, Fixed
  <2>2. QED
    BY <2>1 DEF SentN
<1>2. SentN(e)' = SentN(e)
  BY DEF Advance, SentN, TodoLen, StreamLen
<1>3. \A j \in DOMAIN c.txq : mutex[e] # "leaked" =>
        Carries(e, c.txq[j].seg, SentN(e)) /\ Nums(c.txq[j].seg)
  BY <1>1 DEF StreamInv, Local, QueueInv, QueueTyped
<1>4. NetInv(e)'
  <2>1. ASSUME NEW s \in net'[o] PROVE Carries(e, s, SentN(e))
    <3>1. CASE s \in net[o]
      BY <3>1 DEF StreamInv, Cross, NetInv
    <3>2. CASE Bare(s, d)
      BY <3>2, CarriesBare
    <3>3. ASSUME mutex[e] # "leaked", NEW j \in DOMAIN c.txq, Again(s, c.txq[j].seg)
          PROVE  Carries(e, s, SentN(e))
      <4>1. Carries(e, c.txq[j].seg, SentN(e)) /\ Nums(c.txq[j].seg)
        BY <1>3, <3>3
      <4>2. SentN(e) <= SentN(e)
        BY <1>1
      <4>3. QED
        BY <1>1, <3>3, <4>1, <4>2, CarriesAgain
    <3>4. QED
      BY <3>1, <3>2, <3>3 DEF Advance, NetStep
  <2>2. QED
    BY <1>2, <2>1 DEF NetInv
<1>5. \A s \in Texts(e)' : \E t \in Texts(e) : Again(s, t)
  <2>1. SUFFICES ASSUME NEW s \in Texts(e)' PROVE \E t \in Texts(e) : Again(s, t)
    OBVIOUS
  <2>2. s.data # <<>>
    BY TextsCases
  <2>3. ASSUME NEW j \in DOMAIN c.txq, Again(s, c.txq[j].seg)
        PROVE  \E t \in Texts(e) : Again(s, t)
    <3>1. c.txq[j].seg.data # <<>>
      BY <2>2, <2>3 DEF Again
    <3>2. c.txq[j].seg \in Texts(e)
      BY <3>1 DEF Texts
    <3>3. QED
      BY <2>3, <3>2
  <2>4. CASE s \in net'[o]
    <3>1. CASE s \in net[o]
      BY <2>2, <3>1 DEF Texts, Again
    <3>2. ~Bare(s, d)
      BY <2>2 DEF Bare
    <3>3. QED
      BY <2>3, <2>4, <3>1, <3>2 DEF Advance, NetStep
  <2>5. ASSUME NEW i \in DOMAIN d.txq, s = d.txq[i].seg
        PROVE  \E t \in Texts(e) : Again(s, t)
    BY <2>3, <2>5 DEF Advance, QueueStep
  <2>6. QED
    BY <2>4, <2>5, TextsCases
<1>6. UnaSide(e)
  <2>1. Opened(d) => Opened(c)
    BY DEF Opened, Advance, StateStep
  <2>2. QED
    BY <2>1 DEF UnaSide, Advance, UnaStep
<1>7. AckSide(e)
  <2>1. ASSUME NEW s \in net'[o], Acking(s), s \notin net[o]
        PROVE  Sync(d) /\ s.ack = d.rcv_nxt
    <3>1. CASE Bare(s, d)
      BY <2>1, <3>1, BareAcks
    <3>2. ASSUME s.ack = d.rcv_nxt, NEW j \in DOMAIN c.txq, Again(s, c.txq[j].seg)
          PROVE  Sync(d) /\ s.ack = d.rcv_nxt
      <4>1. "ACK" \in c.txq[j].seg.flg
        BY <2>1, <3>2 DEF Again, Acking
      <4>2. ~Early(c)
        BY <4>1 DEF StreamInv, Local, StateInv
      <4>3. c.state # "CLOSED"
        BY DEF StreamInv, Local, StateInv
      <4>4. Sync(c)
        BY <4>2, <4>3 DEF StreamInv, Local, StateInv, Sync, Early
      <4>5. QED
        BY <3>2, <4>4 DEF Advance, StateStep, Sync
    <3>3. QED
      BY <2>1, <3>1, <3>2 DEF Advance, NetStep
  <2>2. QED
    BY <2>1 DEF AckSide
<1>8. SentN(e) <= SentN(e)'
  BY <1>1, <1>2
<1>9. QED
  BY <1>4, <1>5, <1>6, <1>7, <1>8 DEF SndSide, TextsSide

\* An end is well when its part of the invariant is kept.
Well(e) == Local(e)' /\ SndSide(e) /\ RcvSide(e)

LEMMA AdvanceKeeps ==
    ASSUME PairTyped, PairTyped', StreamInv, NEW e \in Ends, Advance(e)
    PROVE  Well(e)
<1>1. SndSide(e) /\ AckSide(e)
  BY AdvanceSides
<1>2. RcvSide(e) /\ RcvInv(e)'
  BY <1>1, RcvKeeps DEF Advance
<1>3. Local(e)'
  BY <1>2, AdvanceLocal
<1>4. QED
  BY <1>1, <1>2, <1>3 DEF Well

LEMMA WellKeeps ==
    ASSUME PairTyped, PairTyped', StreamInv, \A e \in Ends : Well(e)
    PROVE  StreamInv'
<1>1. ASSUME NEW e \in Ends PROVE Local(e)' /\ Cross(e)'
  <2>1. Other(e) \in Ends
    BY OtherIs
  <2>2. Cross(e) /\ SndSide(e) /\ RcvSide(Other(e)) /\ Local(e)'
    BY <2>1 DEF StreamInv, Well
  <2>3. QED
    BY <2>2, CrossKeeps
<1>2. QED
  BY <1>1 DEF StreamInv

-----------------------------------------------------------------------------
(***************************************************************************)
(* An end whose connection is closed.                                      *)
(***************************************************************************)
Joined(g, b, S, p) == g \o b = SubSeq(S, 1, p)

LEMMA FrontJoined ==
    ASSUME NEW g \in Seq(Bytes), NEW b \in Seq(Bytes), NEW S \in Seq(Bytes),
           NEW p \in Nat, p <= Len(S), Joined(g, b, S, p)
    PROVE  Joined(g, <<>>, S, Len(g)) /\ Len(g) <= p
<1> DEFINE x == g \o b
           y == SubSeq(S, 1, p)
           z == SubSeq(S, 1, Len(g))
<1>1. /\ Len(x) = Len(g) + Len(b) /\ Len(g) \in Nat /\ Len(b) \in Nat
      /\ \A i \in 1..Len(g) : x[i] = g[i]
  OBVIOUS
<1>2. Len(y) = p /\ \A i \in 1..p : y[i] = S[i]
  OBVIOUS
<1>3. x = y
  BY DEF Joined
<1> HIDE DEF x, y
<1>4. Len(g) <= p
  BY <1>1, <1>2, <1>3
<1>5. z \in Seq(Bytes) /\ Len(z) = Len(g) /\ \A i \in 1..Len(g) : z[i] = S[i]
  BY <1>1, <1>4
<1> HIDE DEF z
<1>6. \A i \in 1..Len(g) : g[i] = z[i]
  BY <1>1, <1>2, <1>3, <1>4, <1>5
<1>7. g = z
  BY <1>5, <1>6, SeqEqual
<1>8. g \o <<>> = g
  BY ConcatEmptySeq
<1>9. QED
  BY <1>4, <1>7, <1>8 DEF Joined, z

Shuts(e) ==
    /\ cb'[e].state = "CLOSED" /\ cb'[e].txq = <<>> /\ cb'[e].buf = <<>>
    /\ todo'[e] = todo[e] /\ got'[e] = got[e] /\ LockStep(e)
    /\ \A s \in net'[Other(e)] : s \in net[Other(e)] \/ Bare(s, cb'[e])

LEMMA ShutsKeeps ==
    ASSUME PairTyped, StreamInv, NEW e \in Ends, Shuts(e)
    PROVE  Well(e)
<1> DEFINE o == Other(e)
           c == cb[e]
           d == cb'[e]
<1>1. o \in Ends /\ Other(o) = e
  BY OtherIs
<1>2. d.state = "CLOSED" /\ d.txq = <<>> /\ d.buf = <<>>
      /\ ~Opened(d) /\ ~Sync(d) /\ ~Early(d)
  BY DEF Shuts, Opened, Sync, Early
<1>3. todo'[e] = todo[e] /\ SentN(e)' = SentN(e) /\ TodoLen(e)' = TodoLen(e)
  BY DEF Shuts, SentN, TodoLen, StreamLen
<1>4. Local(e)'
  <2>1. StateInv(e)'
    BY <1>2 DEF StateInv, Shuts, LockStep
  <2>2. RestInv(e)'
    BY <1>3 DEF StreamInv, Local, RestInv, StreamLen
  <2>3. SndInv(e)' /\ RcvInv(e)' /\ CoverInv(e)'
    BY <1>2 DEF SndInv, RcvInv, CoverInv
  <2>4. QueueInv(e)'
    BY <1>2 DEF QueueInv
  <2>5. QED
    BY <2>1, <2>2, <2>3, <2>4 DEF Local
<1>5. ASSUME NEW s \in net'[o], Acking(s) PROVE s \in net[o]
  BY <1>2, <1>5, BareAcks DEF Shuts
<1>6. SndSide(e)
  <2>1. SentN(e) \in Int
    <3>1. TodoLen(e) \in Nat /\ StreamLen(e) \in Nat
      BY EndNums, FixedIs DEF EndTyped, Fixed
    <3>2. QED
      BY <3>1 DEF SentN
  <2>2. NetInv(e)'
    <3>1. ASSUME NEW s \in net'[o] PROVE Carries(e, s, SentN(e))
      BY CarriesBare DEF Shuts, StreamInv, Cross, NetInv
    <3>2. QED
      BY <1>3, <3>1 DEF NetInv
  <2>3. ASSUME NEW s \in Texts(e)' PROVE s \in Texts(e)
    <3>1. s.data # <<>> /\ s \in net'[o]
      BY <1>2, TextsCases
    <3>2. s \in net[o]
      BY <3>1 DEF Shuts, Bare
    <3>3. QED
      BY <3>1, <3>2 DEF Texts
  <2>4. TextsSide(e)
    <3>1. \A s : Again(s, s)
      BY DEF Again
    <3>2. QED
      BY <2>3, <3>1 DEF TextsSide
  <2>5. UnaSide(e)
    BY <1>2 DEF UnaSide
  <2>6. QED
    BY <1>3, <2>1, <2>2, <2>4, <2>5 DEF SndSide
<1>7. RcvSide(e)
  <2> DEFINE g == got[e]
             b == c.buf
             S == Stream[o]
             P == Pos(e)
  <2>1. /\ g \in Seq(Bytes) /\ b \in Seq(Bytes) /\ S \in Seq(Bytes)
        /\ Joined(g, b, S, P)
    BY <1>1, EndNums, StreamAssumption
       DEF StreamInv, Cross, PrefixInv, EndTyped, QueueTyped, Joined
  <2>2. P \in Nat /\ P <= SentN(o) /\ SentN(o) <= StreamLen(o) /\ SentN(o) \in Int
        /\ StreamLen(o) \in Nat
    <3>1. P \in Nat
      BY <2>1, LenNums
    <3>2. P <= SentN(o)
      BY <1>1 DEF StreamInv, Cross, PrefixInv
    <3>3. TodoLen(o) \in Nat /\ StreamLen(o) \in Nat
      BY <1>1, EndNums, FixedIs DEF EndTyped, Fixed
    <3>4. QED
      BY <3>1, <3>2, <3>3 DEF SentN
  <2> HIDE DEF P
  <2>3. P <= Len(S)
    <3>1. P <= StreamLen(o)
      BY <2>2
    <3>2. QED
      BY <3>1 DEF StreamLen
  <2> HIDE DEF g, b, S
  <2>4. Joined(g, <<>>, S, Len(g)) /\ Len(g) <= P /\ Len(g) \in Nat
    BY <2>1, <2>2, <2>3, FrontJoined
  <2>5. Pos(e)' = GotLen(e) /\ GotLen(e) = Len(g) /\ got'[e] = g
    <3>1. GotLen(e)' = GotLen(e)
      BY DEF Shuts, GotLen
    <3>2. BufLen(d) = 0
      BY <1>2 DEF BufLen
    <3>3. GotLen(e) = Len(g)
      BY DEF GotLen, g
    <3>4. Pos(e)' = GotLen(e)' + BufLen(d)
      BY DEF Pos
    <3>5. QED
      BY <2>4, <3>1, <3>2, <3>3, <3>4 DEF Shuts, g
  <2>6. Pos(e)' <= SentN(o)
    BY <2>2, <2>4, <2>5
  <2>7. got'[e] \o d.buf = SubSeq(Stream[o], 1, Pos(e)')
    BY <1>2, <2>4, <2>5 DEF Joined, S
  <2>8. AckSide(e)
    BY <1>5 DEF AckSide
  <2>9. QED
    BY <1>2, <2>1, <2>5, <2>6, <2>7, <2>8 DEF RcvSide
<1>8. QED
  BY <1>4, <1>6, <1>7 DEF Well

-----------------------------------------------------------------------------
(***************************************************************************)
(* The three-way handshake: B takes the SYN, A the SYN,ACK.                *)
(***************************************************************************)
OpensUp(e) ==
    /\ cb[e].state = "LISTEN"
    /\ \E seg \in net[e] : \E r :
         /\ Opens(cb[e], r, seg, Iss[e]) /\ cb'[e] = r.cb
         /\ \A s \in net'[Other(e)] : s \in net[Other(e)] \/ s \in r.out
    /\ todo'[e] = todo[e] /\ got'[e] = got[e] /\ LockStep(e)

\* Before a connection is synchronized nothing has been sent or taken.
LEMMA EarlyIs ==
    ASSUME PairTyped, StreamInv, NEW e \in Ends, Early(cb[e])
    PROVE  SentN(e) = 0 /\ Pos(e) = 0 /\ BufLen(cb[e]) = 0
<1>1. todo[e] = Stream[e] /\ got[e] = <<>> /\ cb[e].buf = <<>>
  BY DEF StreamInv, Local, StateInv
<1>2. GotLen(e) = 0 /\ BufLen(cb[e]) = 0 /\ TodoLen(e) = StreamLen(e)
  BY <1>1 DEF GotLen, BufLen, TodoLen, StreamLen
<1>3. StreamLen(e) \in Nat
  BY FixedIs DEF Fixed
<1>4. QED
  BY <1>2, <1>3 DEF Pos, SentN

LEMMA OneEntry ==
    ASSUME NEW x, NEW q, q = Append(<<>>, x)
    PROVE  DOMAIN q = {1} /\ q[1] = x
  OBVIOUS

LEMMA OpensKeeps ==
    ASSUME PairTyped, StreamInv, NEW e \in Ends, OpensUp(e)
    PROVE  Well(e)
<1> DEFINE o == Other(e)
           c == cb[e]
           d == cb'[e]
<1>1. o \in Ends /\ Other(o) = e
  BY OtherIs
<1>2. PICK seg \in net[e] : \E r :
         /\ Opens(c, r, seg, Iss[e]) /\ d = r.cb
         /\ \A s \in net'[o] : s \in net[o] \/ s \in r.out
  BY DEF OpensUp
<1>3. PICK r : /\ Opens(c, r, seg, Iss[e]) /\ d = r.cb
               /\ \A s \in net'[o] : s \in net[o] \/ s \in r.out
  BY <1>2
<1> DEFINE syn == [seq |-> Iss[e], ack |-> SeqAdd(seg.seq, 1),
                   flg |-> {"SYN", "ACK"}, win |-> WinSize, data |-> <<>>]
<1>4. /\ d.state = "SYN_RCVD" /\ d.iss = Iss[e] /\ d.snd_una = Iss[e]
      /\ d.snd_nxt = SeqAdd(Iss[e], 1) /\ d.rcv_nxt = SeqAdd(seg.seq, 1)
      /\ d.rcv_wnd = WinSize /\ d.buf = c.buf
      /\ "SYN" \in seg.flg /\ r.out \subseteq {syn}
  BY <1>3 DEF Opens
<1>5. \E age : d.txq = Append(c.txq, [seg |-> syn, age |-> age])
  BY <1>3 DEF Opens
<1>6. Early(c) /\ c.txq = <<>> /\ todo[e] = Stream[e] /\ got[e] = <<>> /\ c.buf = <<>>
  BY DEF OpensUp, Early, StreamInv, Local, StateInv
<1>7. SentN(e) = 0 /\ Pos(e) = 0 /\ BufLen(c) = 0
  BY <1>6, EarlyIs
<1>8. /\ Pos(e)' = 0 /\ SentN(e)' = 0 /\ BufLen(d) = 0
      /\ todo'[e] = todo[e] /\ got'[e] = got[e] /\ TodoLen(e)' = TodoLen(e)
  <2>1. /\ todo'[e] = todo[e] /\ got'[e] = got[e]
    BY DEF OpensUp
  <2>2. Pos(e)' = Pos(e) /\ SentN(e)' = SentN(e) /\ BufLen(d) = BufLen(c)
        /\ TodoLen(e)' = TodoLen(e)
    BY <1>4, <2>1 DEF Pos, GotLen, BufLen, SentN, TodoLen, StreamLen
  <2>3. QED
    BY <1>7, <2>1, <2>2
<1>9. Fixed(e) /\ Fixed(o)
  BY <1>1, FixedIs
<1>10. seg.seq = Iss[o]
  BY <1>1, <1>4 DEF StreamInv, Cross, NetInv, Carries
<1>11. SeqAdd(Iss[e], 1) = Iss[e] + 1 /\ SeqAdd(seg.seq, 1) = Iss[o] + 1
  <2>1. SeqAdd(Iss[e], 1) = Iss[e] + 1
    BY <1>9, NoWrap DEF Fixed
  <2>2. SeqAdd(Iss[o], 1) = Iss[o] + 1
    BY <1>1, <1>9, NoWrap DEF Fixed
  <2>3. QED
    BY <1>10, <2>1, <2>2
<1>12. DOMAIN d.txq = {1} /\ d.txq[1].seg = syn
  <2>1. PICK age : d.txq = Append(c.txq, [seg |-> syn, age |-> age])
    BY <1>5
  <2> DEFINE x == [seg |-> syn, age |-> age]
             q == d.txq
  <2>2. x.seg = syn
    OBVIOUS
  <2>3. q = Append(<<>>, x)
    BY <1>6, <2>1
  <2> HIDE DEF x, q, syn
  <2>4. DOMAIN q = {1} /\ q[1] = x
    BY <2>3, OneEntry
  <2>5. QED
    BY <2>2, <2>4 DEF q
<1>13. Sync(d) /\ ~Early(d) /\ Opened(d)
  BY <1>4 DEF Sync, Early, Opened
<1>14. /\ syn.seq = Iss[e] /\ syn.flg = {"SYN", "ACK"} /\ syn.data = <<>>
       /\ TextLen(syn) = 0 /\ syn.ack = d.rcv_nxt
  BY <1>4 DEF TextLen
<1> HIDE DEF syn, c, d
<1>15. ASSUME NEW n PROVE Carries(e, syn, n)
  BY <1>14 DEF Carries
<1>16. Local(e)'
  <2>1. StateInv(e)'
    BY <1>4, <1>13 DEF StateInv, OpensUp, LockStep, d
  <2>2. RestInv(e)'
    <3>1. RestInv(e)
      BY DEF StreamInv, Local
    <3>2. QED
      BY <1>7, <1>8, <3>1 DEF RestInv, StreamLen
  <2>3. SndInv(e)'
    <3>1. d.iss = Iss[e] /\ d.snd_nxt = Iss[e] + 1 + 0
          /\ Iss[e] <= d.snd_una /\ d.snd_una <= d.snd_nxt
      BY <1>4, <1>9, <1>11 DEF Fixed
    <3>2. QED
      BY <1>8, <3>1 DEF SndInv, d
  <2>4. RcvInv(e)'
    <3>1. d.rcv_nxt = Iss[o] + 1 + 0 /\ BufLen(d) = WinSize - d.rcv_wnd
      BY <1>4, <1>8, <1>9, <1>11 DEF Fixed
    <3>2. QED
      BY <1>8, <3>1 DEF RcvInv, d
  <2>5. QueueInv(e)'
    BY <1>12, <1>15 DEF QueueInv, d
  <2>6. CoverInv(e)'
    <3>1. SUFFICES ASSUME NEW n \in d.snd_una..(d.snd_nxt - 1)
                   PROVE  \E i \in DOMAIN d.txq : Covers(d.txq[i].seg, n)
      BY DEF CoverInv, d
    <3>2. n = Iss[e] /\ n \in Int
      BY <1>4, <1>9, <1>11 DEF Fixed
    <3>3. Covers(syn, n)
      BY <1>9, <1>14, <3>2 DEF Covers, Fixed
    <3>4. QED
      BY <1>12, <3>3
  <2>7. QED
    BY <2>1, <2>2, <2>3, <2>4, <2>5, <2>6 DEF Local
<1>17. SndSide(e)
  <2>1. NetInv(e)'
    <3>1. ASSUME NEW s \in net'[o] PROVE Carries(e, s, SentN(e))
      BY <1>3, <1>4, <1>15 DEF StreamInv, Cross, NetInv
    <3>2. QED
      BY <1>7, <1>8, <3>1 DEF NetInv
  <2>2. TextsSide(e)
    <3>1. ASSUME NEW s \in Texts(e)' PROVE s \in Texts(e)
      <4>1. s.data # <<>> /\ (s \in net'[o] \/ s = syn)
        BY <1>12, TextsCases DEF d
      <4>2. s \in net[o]
        BY <1>3, <1>4, <1>14, <4>1
      <4>3. QED
        BY <4>1, <4>2 DEF Texts
    <3>2. \A s : Again(s, s)
      BY DEF Again
    <3>3. QED
      BY <3>1, <3>2 DEF TextsSide
  <2>3. UnaSide(e)
    BY <1>4 DEF UnaSide, d
  <2>4. QED
    BY <1>7, <1>8, <2>1, <2>2, <2>3 DEF SndSide
<1>18. RcvSide(e)
  <2>1. /\ got[e] \in Seq(Bytes) /\ got[e] \o c.buf = SubSeq(Stream[o], 1, Pos(e))
        /\ Pos(e) <= SentN(o)
    BY <1>1 DEF StreamInv, Cross, PrefixInv, c
  <2>2. /\ got'[e] \in Seq(Bytes) /\ got'[e] \o d.buf = SubSeq(Stream[o], 1, Pos(e)')
        /\ Pos(e)' <= SentN(o)
    BY <1>4, <1>7, <1>8, <2>1
  <2>3. d.rcv_nxt \in Marks(o) /\ d.rcv_nxt = Iss[o] + 1 + Pos(e)'
    <3>1. d.rcv_nxt = Iss[o] + 1
      BY <1>4, <1>11
    <3>2. Iss[o] + 1 = Iss[o] + 1 + 0
      BY <1>9 DEF Fixed
    <3>3. QED
      BY <1>8, <3>1, <3>2 DEF Marks
  <2>4. AckSide(e)
    BY <1>3, <1>4, <1>13, <1>14 DEF AckSide, d
  <2>5. ~Sync(c)
    BY <1>6 DEF Sync, Early
  <2>6. QED
    BY <1>6, <1>13, <2>2, <2>3, <2>4, <2>5 DEF RcvSide, c, d
<1>19. QED
  BY <1>16, <1>17, <1>18 DEF Well

EstablishesUp(e) ==
    /\ cb[e].state = "SYN_SENT"
    /\ \E seg \in net[e] : \E r :
         /\ Establishes(cb[e], r, seg) /\ cb'[e] = r.cb
         /\ \A s \in net'[Other(e)] : s \in net[Other(e)] \/ s \in r.out
    /\ todo'[e] = todo[e] /\ got'[e] = got[e] /\ LockStep(e)

LEMMA EstablishesKeeps ==
    ASSUME PairTyped, StreamInv, NEW e \in Ends, EstablishesUp(e)
    PROVE  Well(e)
<1> DEFINE o == Other(e)
           c == cb[e]
           d == cb'[e]
<1>1. o \in Ends /\ Other(o) = e
  BY OtherIs
<1>2. PICK seg \in net[e] : \E r :
         /\ Establishes(c, r, seg) /\ d = r.cb
         /\ \A s \in net'[o] : s \in net[o] \/ s \in r.out
  BY DEF EstablishesUp
<1>3. PICK r : /\ Establishes(c, r, seg) /\ d = r.cb
               /\ \A s \in net'[o] : s \in net[o] \/ s \in r.out
  BY <1>2
<1>4. /\ d.state = "ESTABLISHED" /\ d.snd_una = seg.ack /\ d.rcv_nxt = SeqAdd(seg.seq, 1)
      /\ d.iss = c.iss /\ d.snd_nxt = c.snd_nxt /\ d.rcv_wnd = c.rcv_wnd
      /\ d.buf = c.buf /\ d.txq = c.txq
      /\ "SYN" \in seg.flg /\ Acking(seg) /\ c.iss < seg.ack /\ seg.ack <= c.snd_nxt
      /\ \A s \in r.out : Bare(s, d)
  BY <1>3 DEF Establishes
<1>5. /\ Early(c) /\ Opened(c) /\ c.rcv_wnd = WinSize
      /\ todo[e] = Stream[e] /\ got[e] = <<>> /\ c.buf = <<>>
  BY DEF EstablishesUp, Early, Opened, StreamInv, Local, StateInv
<1>6. SentN(e) = 0 /\ Pos(e) = 0 /\ BufLen(c) = 0
  BY <1>5, EarlyIs
<1>7. /\ Pos(e)' = 0 /\ SentN(e)' = 0 /\ BufLen(d) = 0
      /\ todo'[e] = todo[e] /\ got'[e] = got[e] /\ TodoLen(e)' = TodoLen(e)
  <2>1. /\ todo'[e] = todo[e] /\ got'[e] = got[e]
    BY DEF EstablishesUp
  <2>2. Pos(e)' = Pos(e) /\ SentN(e)' = SentN(e) /\ BufLen(d) = BufLen(c)
        /\ TodoLen(e)' = TodoLen(e)
    BY <1>4, <2>1 DEF Pos, GotLen, BufLen, SentN, TodoLen, StreamLen
  <2>3. QED
    BY <1>6, <2>1, <2>2
<1>8. Fixed(e) /\ Fixed(o) /\ Scalars(c) /\ seg.ack \in Nat
  BY <1>1, FixedIs, EndNums DEF EndTyped, Nums
<1>9. seg.seq = Iss[o]
  BY <1>1, <1>4 DEF StreamInv, Cross, NetInv, Carries
<1>10. SeqAdd(seg.seq, 1) = Iss[o] + 1
  BY <1>1, <1>8, <1>9, NoWrap DEF Fixed
<1>11. c.iss = Iss[e] /\ c.snd_nxt = Iss[e] + 1 + 0
  BY <1>5, <1>6 DEF StreamInv, Local, SndInv
<1>12. Sync(d) /\ ~Early(d) /\ Opened(d)
  BY <1>4 DEF Sync, Early, Opened
<1> HIDE DEF c, d
<1>13. d.snd_una = Iss[e] + 1 /\ d.snd_nxt = Iss[e] + 1
  BY <1>4, <1>8, <1>11 DEF Fixed
<1>14. Local(e)'
  <2>1. StateInv(e)'
    BY <1>4, <1>12 DEF StateInv, EstablishesUp, LockStep, d
  <2>2. RestInv(e)'
    <3>1. RestInv(e)
      BY DEF StreamInv, Local
    <3>2. QED
      BY <1>6, <1>7, <3>1 DEF RestInv, StreamLen
  <2>3. SndInv(e)'
    <3>1. d.iss = Iss[e] /\ d.snd_nxt = Iss[e] + 1 + 0
          /\ Iss[e] <= d.snd_una /\ d.snd_una <= d.snd_nxt
      BY <1>4, <1>8, <1>11, <1>13 DEF Fixed
    <3>2. QED
      BY <1>7, <3>1 DEF SndInv, d
  <2>4. RcvInv(e)'
    <3>1. d.rcv_nxt = Iss[o] + 1 + 0 /\ BufLen(d) = WinSize - d.rcv_wnd
      BY <1>4, <1>5, <1>7, <1>8, <1>10 DEF Fixed
    <3>2. QED
      BY <1>7, <3>1 DEF RcvInv, d
  <2>5. QueueInv(e)'
    <3> DEFINE m == IF mutex[e] = "leaked" THEN StreamLen(e) ELSE SentN(e)
               n == IF mutex'[e] = "leaked" THEN StreamLen(e) ELSE SentN(e)
    <3>1. m \in Int /\ n \in Int /\ m <= n
      <4>1. mutex[e] = "leaked" => mutex'[e] = "leaked"
        BY DEF EstablishesUp, LockStep
      <4>2. QED
        BY <1>6, <1>8, <4>1 DEF Fixed
    <3>2. \A i \in DOMAIN c.txq : Carries(e, c.txq[i].seg, m) /\ Nums(c.txq[i].seg)
      BY EndNums DEF StreamInv, Local, QueueInv, QueueTyped, EndTyped, c
    <3> HIDE DEF m, n
    <3>3. ASSUME NEW i \in DOMAIN d.txq PROVE Carries(e, d.txq[i].seg, n)
      <4>1. Again(c.txq[i].seg, c.txq[i].seg)
        BY DEF Again
      <4>2. Carries(e, c.txq[i].seg, n)
        BY <1>4, <3>1, <3>2, <4>1, CarriesAgain
      <4>3. QED
        BY <1>4, <4>2
    <3>4. QED
      BY <1>6, <1>7, <3>3 DEF QueueInv, n, d, StreamLen
  <2>6. CoverInv(e)'
    <3>1. d.snd_una..(d.snd_nxt - 1) = {}
      BY <1>8, <1>13 DEF Fixed
    <3>2. QED
      BY <3>1 DEF CoverInv, d
  <2>7. QED
    BY <2>1, <2>2, <2>3, <2>4, <2>5, <2>6 DEF Local
<1>15. SndSide(e)
  <2>1. NetInv(e)'
    <3>1. ASSUME NEW s \in net'[o] PROVE Carries(e, s, SentN(e))
      BY <1>3, <1>4, CarriesBare DEF StreamInv, Cross, NetInv
    <3>2. QED
      BY <1>6, <1>7, <3>1 DEF NetInv
  <2>2. TextsSide(e)
    <3>1. ASSUME NEW s \in Texts(e)' PROVE s \in Texts(e)
      <4>1. s.data # <<>> /\ (s \in net'[o] \/ \E i \in DOMAIN c.txq : s = c.txq[i].seg)
        BY <1>4, TextsCases DEF d
      <4>2. s \in net'[o] => s \in net[o]
        BY <1>3, <1>4, <4>1 DEF Bare
      <4>3. QED
        BY <4>1, <4>2 DEF Texts, c
    <3>2. \A s : Again(s, s)
      BY DEF Again
    <3>3. QED
      BY <3>1, <3>2 DEF TextsSide
  <2>3. UnaSide(e)
    BY <1>4 DEF UnaSide, d
  <2>4. QED
    BY <1>6, <1>7, <2>1, <2>2, <2>3 DEF SndSide
<1>16. RcvSide(e)
  <2>1. /\ got[e] \in Seq(Bytes) /\ got[e] \o c.buf = SubSeq(Stream[o], 1, Pos(e))
        /\ Pos(e) <= SentN(o)
    BY <1>1 DEF StreamInv, Cross, PrefixInv, c
  <2>2. /\ got'[e] \in Seq(Bytes) /\ got'[e] \o d.buf = SubSeq(Stream[o], 1, Pos(e)')
        /\ Pos(e)' <= SentN(o)
    BY <1>4, <1>6, <1>7, <2>1
  <2>3. d.rcv_nxt \in Marks(o) /\ d.rcv_nxt = Iss[o] + 1 + Pos(e)'
    <3>1. d.rcv_nxt = Iss[o] + 1
      BY <1>4, <1>10
    <3>2. Iss[o] + 1 = Iss[o] + 1 + 0
      BY <1>8 DEF Fixed
    <3>3. QED
      BY <1>7, <3>1, <3>2 DEF Marks
  <2>4. AckSide(e)
    BY <1>3, <1>4, BareAcks DEF AckSide, d
  <2>5. ~Sync(c)
    BY <1>5 DEF Sync, Early
  <2>6. QED
    BY <1>5, <1>12, <2>2, <2>3, <2>4, <2>5 DEF RcvSide, c, d
<1>17. QED
  BY <1>14, <1>15, <1>16 DEF Well

-----------------------------------------------------------------------------
(***************************************************************************)
(* An end whose application sends a segment with text.                     *)
(***************************************************************************)
Rests(t, S) ==
    Len(t) <= Len(S) /\ t = SubSeq(S, Len(S) - Len(t) + 1, Len(S))

LEMMA Piece ==
    ASSUME NEW S \in Seq(Bytes), NEW a \in Nat, NEW b \in Nat, a <= b, b <= Len(S)
    PROVE  /\ SubSeq(S, a + 1, b) \in Seq(Bytes) /\ Len(SubSeq(S, a + 1, b)) = b - a
           /\ \A i \in 1..(b - a) : SubSeq(S, a + 1, b)[i] = S[a + i]
<1>1. Len(S) \in Nat /\ \A i \in 1..Len(S) : S[i] \in Bytes
  OBVIOUS
<1>2. a + 1 \in Int /\ b \in Int /\ \A i \in (a + 1)..b : S[i] \in Bytes
  BY <1>1
<1>3. /\ SubSeq(S, a + 1, b) \in Seq(Bytes)
      /\ Len(SubSeq(S, a + 1, b)) = IF a + 1 <= b THEN b - (a + 1) + 1 ELSE 0
      /\ \A i \in 1..(b - (a + 1) + 1) : SubSeq(S, a + 1, b)[i] = S[(a + 1) + i - 1]
  BY <1>2, SubSeqProperties
<1> DEFINE x == SubSeq(S, a + 1, b)
<1> HIDE DEF x
<1>4. Len(x) = b - a /\ \A i \in 1..(b - a) : x[i] = S[a + i]
  <2>1. /\ Len(x) = IF a + 1 <= b THEN b - (a + 1) + 1 ELSE 0
        /\ \A i \in 1..(b - (a + 1) + 1) : x[i] = S[(a + 1) + i - 1]
    BY <1>3 DEF x
  <2>2. Len(x) = b - a
    BY <2>1
  <2>3. ASSUME NEW i \in 1..(b - a) PROVE x[i] = S[a + i]
    <3>1. i \in 1..(b - (a + 1) + 1) /\ (a + 1) + i - 1 = a + i
      OBVIOUS
    <3>2. QED
      BY <2>1, <3>1
  <2>4. QED
    BY <2>2, <2>3
<1>5. QED
  BY <1>3, <1>4 DEF x

LEMMA RestsOn ==
    ASSUME NEW S \in Seq(Bytes), NEW t \in Seq(Bytes), Rests(t, S),
           NEW n \in 0..Len(t)
    PROVE  LET k == Len(S) - Len(t)
               x == SubSeq(t, 1, n)
               y == SubSeq(t, n + 1, Len(t))
           IN  /\ Len(x) = n /\ x = SubSeq(S, k + 1, k + n)
               /\ Len(y) = Len(t) - n /\ Rests(y, S)
<1> DEFINE k == Len(S) - Len(t)
           l == Len(t)
           L == Len(S)
           x == SubSeq(t, 0 + 1, n)
           y == SubSeq(t, n + 1, l)
           u == SubSeq(S, k + 1, k + n)
           v == SubSeq(S, (k + n) + 1, L)
           w == SubSeq(S, k + 1, L)
<1>1. L \in Nat /\ l \in Nat /\ l <= L /\ t = w
  BY DEF Rests
<1> HIDE DEF l, L
<1>2. k \in Nat /\ k + n \in Nat /\ k <= L /\ k <= k + n /\ k + n <= L /\ k + l = L
      /\ n \in Nat /\ n <= l /\ n <= n
  BY <1>1 DEF l, L
<1> HIDE DEF k
<1>3. x \in Seq(Bytes) /\ Len(x) = n - 0 /\ \A i \in 1..(n - 0) : x[i] = t[0 + i]
  BY <1>2, Piece DEF l
<1>4. y \in Seq(Bytes) /\ Len(y) = l - n /\ \A i \in 1..(l - n) : y[i] = t[n + i]
  BY <1>1, <1>2, Piece DEF l
<1>5. /\ u \in Seq(Bytes) /\ Len(u) = (k + n) - k
      /\ \A i \in 1..((k + n) - k) : u[i] = S[k + i]
  BY <1>2, Piece DEF L
<1>6. /\ v \in Seq(Bytes) /\ Len(v) = L - (k + n)
      /\ \A i \in 1..(L - (k + n)) : v[i] = S[(k + n) + i]
  BY <1>1, <1>2, Piece DEF L
<1>7. w \in Seq(Bytes) /\ \A i \in 1..(L - k) : w[i] = S[k + i]
  BY <1>1, <1>2, Piece, SMTT(30) DEF L
<1> HIDE DEF x, y, u, v, w
<1>8. \A i \in 1..l : t[i] = S[k + i]
  <2>1. L - k = l
    BY <1>1, <1>2
  <2>2. QED
    BY <1>1, <1>7, <2>1
<1>9. x = u /\ Len(x) = n
  <2>1. n - 0 = n /\ (k + n) - k = n
    BY <1>2
  <2>2. ASSUME NEW i \in 1..n PROVE x[i] = u[i]
    <3>1. 0 + i = i /\ i \in 1..l
      BY <1>1, <1>2
    <3>2. QED
      BY <1>3, <1>5, <1>8, <2>1, <3>1
  <2>3. QED
    BY <1>3, <1>5, <2>1, <2>2, SeqEqual
<1>10. y = v
  <2>1. L - (k + n) = l - n
    BY <1>1, <1>2
  <2>2. ASSUME NEW i \in 1..(l - n) PROVE y[i] = v[i]
    <3>1. n + i \in 1..l /\ k + (n + i) = (k + n) + i
      BY <1>1, <1>2
    <3>2. QED
      BY <1>4, <1>6, <1>8, <2>1, <3>1
  <2>3. QED
    BY <1>4, <1>6, <2>1, <2>2, SeqEqual
<1>11. Rests(y, S)
  <2>1. Len(y) <= L /\ L - Len(y) + 1 = (k + n) + 1
    BY <1>1, <1>2, <1>4
  <2>2. QED
    BY <1>10, <2>1 DEF Rests, v, L
<1>12. x = SubSeq(t, 1, n)
  BY DEF x
<1>13. QED
  BY <1>4, <1>9, <1>11, <1>12 DEF k, y, u, l

LEMMA AppendIs ==
    ASSUME NEW D, NEW q \in Seq(D), NEW x, NEW p, p = Append(q, x)
    PROVE  /\ \A i \in DOMAIN q : i \in DOMAIN p /\ p[i] = q[i]
           /\ \E i \in DOMAIN p : p[i] = x
           /\ \A i \in DOMAIN p : i \in DOMAIN q \/ p[i] = x
<1>1. Len(q) \in Nat /\ DOMAIN q = 1..Len(q)
  OBVIOUS
<1>2. /\ DOMAIN p = 1..(Len(q) + 1) /\ p[Len(q) + 1] = x
      /\ \A i \in 1..Len(q) : p[i] = q[i]
  BY <1>1
<1>3. QED
  BY <1>1, <1>2

\* Segment f with the next n bytes is queued; it counts as sent unless tcp_tx
\* failed, and then the mutex stays locked.
SendsOn(e, f, n) ==
    /\ n \in 1..TodoLen(e) /\ n <= Mss
    /\ f.seq = cb[e].snd_nxt /\ f.ack = cb[e].rcv_nxt /\ f.flg = {"PSH", "ACK"}
    /\ f.data = SubSeq(todo[e], 1, n)
    /\ \E age : cb'[e].txq = Append(cb[e].txq, [seg |-> f, age |-> age])
    /\ \/ /\ cb'[e].snd_nxt = SeqAdd(cb[e].snd_nxt, n)
          /\ todo'[e] = SubSeq(todo[e], n + 1, TodoLen(e))
          /\ \A s \in net'[Other(e)] : s \in net[Other(e)] \/ s = f
       \/ /\ cb'[e].snd_nxt = cb[e].snd_nxt /\ todo'[e] = todo[e]
          /\ mutex'[e] = "leaked"
          /\ \A s \in net'[Other(e)] : s \in net[Other(e)]

Sends(e) ==
    /\ cb[e].state = "ESTABLISHED" /\ cb'[e].state = cb[e].state
    /\ mutex[e] # "leaked" /\ LockStep(e)
    /\ cb'[e].iss = cb[e].iss /\ cb'[e].snd_una = cb[e].snd_una /\ NoText(e)
    /\ \E f, n : SendsOn(e, f, n)

\* Nothing that counts lies behind what was sent.
LEMMA MarksBehind ==
    ASSUME PairTyped, StreamInv, NEW e \in Ends, mutex[e] # "leaked", Opened(cb[e])
    PROVE  \A p \in Marks(e) : p <= cb[e].snd_nxt
<1> DEFINE o == Other(e)
           N == cb[e].snd_nxt
<1>1. o \in Ends /\ Other(o) = e
  BY OtherIs
<1>2. Fixed(e) /\ Scalars(cb[e]) /\ Scalars(cb[o]) /\ SentN(e) \in Int
  <2>1. Fixed(e) /\ Scalars(cb[e]) /\ Scalars(cb[o]) /\ TodoLen(e) \in Nat
    BY <1>1, FixedIs, EndNums DEF EndTyped
  <2>2. QED
    BY <2>1 DEF Fixed, SentN
<1>3. N = Iss[e] + 1 + SentN(e) /\ cb[e].snd_una <= N /\ SentN(e) >= 0
  <2>1. N = Iss[e] + 1 + SentN(e) /\ cb[e].snd_una <= N
    BY DEF StreamInv, Local, SndInv
  <2>2. TodoLen(e) <= StreamLen(e) /\ TodoLen(e) \in Nat /\ StreamLen(e) \in Nat
    BY EndNums, FixedIs DEF StreamInv, Local, RestInv, EndTyped, Fixed
  <2>3. QED
    BY <2>1, <2>2 DEF SentN
<1> HIDE DEF N
<1>4. Iss[e] <= N /\ Iss[e] + 1 <= N
  BY <1>2, <1>3 DEF Fixed
<1>5. Sync(cb[o]) => cb[o].rcv_nxt <= N
  <2>1. SUFFICES ASSUME Sync(cb[o]) PROVE cb[o].rcv_nxt <= N
    OBVIOUS
  <2>2. cb[o].rcv_nxt = Iss[e] + 1 + Pos(o) /\ Pos(o) <= SentN(e)
    BY <1>1, <2>1 DEF StreamInv, Local, RcvInv, Cross, PrefixInv
  <2>3. Pos(o) \in Nat
    <3>1. got[o] \in Seq(Bytes)
      BY DEF StreamInv, Cross, PrefixInv
    <3>2. QED
      BY <1>1, <3>1, LenNums
  <2>4. QED
    BY <1>2, <1>3, <2>2, <2>3 DEF Fixed
<1>6. \A s \in net[e] : Acking(s) => s.ack <= N
  BY <1>3 DEF StreamInv, Cross, AcksInv
<1>7. ASSUME NEW s \in Texts(e) PROVE s.seq + TextLen(s) <= N
  <2>1. Carries(e, s, SentN(e)) /\ s.data # <<>>
    BY DEF StreamInv, Local, QueueInv, Cross, NetInv, Texts
  <2>2. s.seq - Iss[e] - 1 + TextLen(s) <= SentN(e)
    BY <2>1 DEF Carries, Chunk
  <2>3. s.seq \in Nat /\ TextLen(s) \in Nat
    BY MarksNums DEF Nums
  <2>4. QED
    BY <1>2, <1>3, <2>2, <2>3 DEF Fixed
<1>8. QED
  BY <1>3, <1>4, <1>5, <1>6, <1>7 DEF Marks, N

LEMMA SendsKeeps ==
    ASSUME PairTyped, PairTyped', StreamInv, NEW e \in Ends, Sends(e)
    PROVE  Well(e)
<1> DEFINE o == Other(e)
           c == cb[e]
           d == cb'[e]
           k == SentN(e)
           K == SentN(e)'
<1>1. o \in Ends /\ Other(o) = e
  BY OtherIs
<1>2. PICK f, n : SendsOn(e, f, n)
  BY DEF Sends
<1>3. /\ Scalars(c) /\ Scalars(d) /\ QueueTyped(c) /\ Fixed(e)
      /\ todo[e] \in Seq(Bytes) /\ TodoLen(e) \in Nat /\ Stream[e] \in Seq(Bytes)
  BY EndNums, FixedIs, CbNums, StreamAssumption DEF EndTyped, PairTyped
<1>4. /\ c.state = "ESTABLISHED" /\ d.state = "ESTABLISHED" /\ mutex[e] # "leaked"
      /\ d.iss = c.iss /\ d.snd_una = c.snd_una /\ d.rcv_nxt = c.rcv_nxt
      /\ Opened(c) /\ Sync(c) /\ Opened(d) /\ Sync(d) /\ ~Early(d)
  BY DEF Sends, NoText, Opened, Sync, Early
<1>5. n \in Nat /\ n > 0 /\ n <= TodoLen(e) /\ n <= Mss
  BY <1>2, <1>3 DEF SendsOn
<1>6. /\ c.iss = Iss[e] /\ c.snd_nxt = Iss[e] + 1 + k
      /\ Iss[e] <= c.snd_una /\ c.snd_una <= c.snd_nxt
      /\ TodoLen(e) <= StreamLen(e)
  BY <1>4 DEF StreamInv, Local, SndInv, RestInv
<1>7. k = StreamLen(e) - TodoLen(e)
  BY DEF SentN
\* The text is the next piece of the stream, and the rest stays the rest.
<1>8. /\ TextLen(f) = n /\ f.data = SubSeq(Stream[e], k + 1, k + n)
      /\ Rests(todo[e], Stream[e])
      /\ Rests(SubSeq(todo[e], n + 1, TodoLen(e)), Stream[e])
      /\ Len(SubSeq(todo[e], n + 1, TodoLen(e))) = TodoLen(e) - n
  <2> DEFINE S == Stream[e]
             t == todo[e]
  <2>1. Rests(t, S)
    BY DEF StreamInv, Local, RestInv, Rests, SentN, TodoLen, StreamLen
  <2>2. S \in Seq(Bytes) /\ t \in Seq(Bytes) /\ n \in 0..Len(t)
    <3>1. n \in 0..TodoLen(e)
      BY <1>3, <1>5
    <3>2. QED
      BY <1>3, <3>1 DEF TodoLen
  <2>3. k = Len(S) - Len(t) /\ f.data = SubSeq(t, 1, n) /\ TodoLen(e) = Len(t)
    BY <1>2, <1>7 DEF TodoLen, StreamLen, SendsOn
  <2> HIDE DEF S, t, k
  <2>4. /\ Len(SubSeq(t, 1, n)) = n
        /\ SubSeq(t, 1, n) = SubSeq(S, (Len(S) - Len(t)) + 1, (Len(S) - Len(t)) + n)
        /\ Len(SubSeq(t, n + 1, Len(t))) = Len(t) - n
        /\ Rests(SubSeq(t, n + 1, Len(t)), S)
    BY <2>1, <2>2, RestsOn
  <2>5. QED
    BY <2>1, <2>3, <2>4 DEF S, t, TextLen
<1>9. f.data # <<>> /\ Nums(f)
  <2>1. PICK age : d.txq = Append(c.txq, [seg |-> f, age |-> age])
    BY <1>2 DEF SendsOn
  <2>2. c.txq \in Seq(EntryOf(Bytes))
    BY <1>3 DEF QueueTyped
  <2>3. PICK i \in DOMAIN d.txq : d.txq[i] = [seg |-> f, age |-> age]
    BY <2>1, <2>2, AppendIs
  <2>4. QueueTyped(d)
    BY CbNums DEF PairTyped
  <2>5. Nums(f)
    BY <2>3, <2>4 DEF QueueTyped
  <2>6. QED
    BY <1>5, <1>8, <2>5 DEF Nums
<1>10. /\ \A i \in DOMAIN c.txq : i \in DOMAIN d.txq /\ d.txq[i] = c.txq[i]
       /\ \E i \in DOMAIN d.txq : d.txq[i].seg = f
       /\ \A i \in DOMAIN d.txq :
            \/ i \in DOMAIN c.txq /\ d.txq[i] = c.txq[i]
            \/ d.txq[i].seg = f
  <2>1. PICK age : d.txq = Append(c.txq, [seg |-> f, age |-> age])
    BY <1>2 DEF SendsOn
  <2> DEFINE x == [seg |-> f, age |-> age]
             q == c.txq
             p == d.txq
  <2>2. q \in Seq(EntryOf(Bytes)) /\ p = Append(q, x)
    BY <1>3, <2>1 DEF QueueTyped
  <2>3. x.seg = f
    OBVIOUS
  <2> HIDE DEF x, q, p
  <2>4. /\ \A i \in DOMAIN q : i \in DOMAIN p /\ p[i] = q[i]
        /\ \E i \in DOMAIN p : p[i] = x
        /\ \A i \in DOMAIN p : i \in DOMAIN q \/ p[i] = x
    BY <2>2, AppendIs
  <2>5. QED
    BY <2>3, <2>4 DEF p, q
\* Two outcomes.
<1> DEFINE Ok == /\ d.snd_nxt = c.snd_nxt + n /\ K = k + n
                 /\ \A s \in net'[o] : s \in net[o] \/ s = f
           Failed == /\ d.snd_nxt = c.snd_nxt /\ K = k /\ mutex'[e] = "leaked"
                     /\ \A s \in net'[o] : s \in net[o]
<1>11. RestInv(e)' /\ (Ok \/ Failed)
  <2>1. CASE /\ d.snd_nxt = SeqAdd(c.snd_nxt, n)
             /\ todo'[e] = SubSeq(todo[e], n + 1, TodoLen(e))
             /\ \A s \in net'[o] : s \in net[o] \/ s = f
    <3>1. TodoLen(e)' = TodoLen(e) - n
      BY <1>8, <2>1 DEF TodoLen
    <3>2. K = StreamLen(e) - TodoLen(e)'
      BY DEF SentN, StreamLen
    <3>3. K = k + n
      BY <1>3, <1>5, <1>7, <3>1, <3>2 DEF Fixed
    <3>4. SeqAdd(c.snd_nxt, n) = c.snd_nxt + n
      <4>1. c.snd_nxt \in Nat /\ c.snd_nxt + n <= Iss[e] + 1 + StreamLen(e)
        BY <1>3, <1>5, <1>6, <1>7, SMTT(30) DEF Fixed, Scalars
      <4>2. QED
        BY <1>5, <4>1, NoWrap
    <3>5. RestInv(e)'
      BY <1>8, <2>1 DEF RestInv, Rests, SentN, TodoLen, StreamLen
    <3>6. QED
      BY <2>1, <3>3, <3>4, <3>5
  <2>2. CASE /\ d.snd_nxt = c.snd_nxt /\ todo'[e] = todo[e]
             /\ mutex'[e] = "leaked" /\ \A s \in net'[o] : s \in net[o]
    <3>1. K = k
      BY <2>2 DEF SentN, TodoLen, StreamLen
    <3>2. RestInv(e)'
      BY <1>8, <2>2 DEF RestInv, Rests, SentN, TodoLen, StreamLen
    <3>3. QED
      BY <2>2, <3>1, <3>2
  <2>3. QED
    BY <1>2, <2>1, <2>2 DEF SendsOn
<1>12. /\ f.seq = c.snd_nxt /\ f.ack = c.rcv_nxt /\ f.flg = {"PSH", "ACK"}
  BY <1>2 DEF SendsOn
<1>13. LockStep(e)
  BY DEF Sends
<1>14. \A p \in Marks(e) : p <= f.seq
  BY <1>4, <1>12, MarksBehind
<1>15. AckSide(e)
  <2>1. \A s \in net'[o] : s \in net[o] \/ s = f
    BY <1>11
  <2>2. QED
    BY <1>4, <1>12, <2>1 DEF AckSide
<1>16. RcvSide(e) /\ RcvInv(e)'
  <2>1. RcvStep(e) /\ StateStep(e)
    BY DEF Sends, RcvStep, StateStep
  <2>2. QED
    BY <1>15, <2>1, RcvKeeps
<1>17. \A i \in DOMAIN c.txq : Carries(e, c.txq[i].seg, k) /\ Nums(c.txq[i].seg)
  BY <1>3, <1>4 DEF StreamInv, Local, QueueInv, QueueTyped
<1>17a. \A s \in net[o] : Carries(e, s, k) /\ Nums(s)
  BY <1>1, EndNums DEF StreamInv, Cross, NetInv, EndTyped
<1> HIDE DEF k, K, c, d
<1>18. Scalars(c) /\ Scalars(d) /\ Fixed(e) /\ TodoLen(e) \in Nat
  BY <1>3
<1>18a. \/ d.snd_nxt = c.snd_nxt + n /\ K = k + n
        \/ d.snd_nxt = c.snd_nxt /\ K = k /\ mutex'[e] = "leaked"
  BY <1>11
<1>19. k \in Int /\ K \in Int /\ k <= K /\ k >= 0 /\ k + n <= StreamLen(e)
  <2>1. k \in Int /\ k >= 0 /\ k + n <= StreamLen(e)
    BY <1>5, <1>6, <1>7, <1>18 DEF Fixed
  <2>2. QED
    BY <1>5, <1>18a, <2>1
<1>20. ASSUME NEW m \in Int, k + n <= m PROVE Carries(e, f, m)
  <2>1. f.seq - Iss[e] - 1 = k /\ f.seq \in Nat
    BY <1>3, <1>6, <1>12, <1>19, SMTT(30) DEF Fixed, Scalars
  <2>2. Chunk(e, f, m)
    BY <1>8, <1>19, <1>20, <2>1 DEF Chunk
  <2>3. QED
    BY <1>5, <1>8, <1>12, <2>2 DEF Carries
<1>21. Local(e)'
  <2>1. StateInv(e)'
    BY <1>4, <1>13 DEF StateInv, LockStep, d
  <2>2. SndInv(e)'
    <3>1. d.iss = Iss[e] /\ d.snd_nxt = Iss[e] + 1 + K
          /\ Iss[e] <= d.snd_una /\ d.snd_una <= d.snd_nxt
      BY <1>4, <1>5, <1>6, <1>18, <1>18a, <1>19 DEF Fixed, Scalars
    <3>2. QED
      BY <3>1 DEF SndInv, d, K
  <2>3. QueueInv(e)'
    <3> DEFINE m == IF mutex'[e] = "leaked" THEN StreamLen(e) ELSE K
    <3>1. m \in Int /\ k <= m /\ k + n <= m
      BY <1>3, <1>5, <1>11, <1>19 DEF Fixed
    <3> HIDE DEF m
    <3>2. ASSUME NEW i \in DOMAIN d.txq PROVE Carries(e, d.txq[i].seg, m)
      <4>1. ASSUME i \in DOMAIN c.txq, d.txq[i] = c.txq[i]
            PROVE  Carries(e, d.txq[i].seg, m)
        <5>1. Again(c.txq[i].seg, c.txq[i].seg)
          BY DEF Again
        <5>2. Carries(e, c.txq[i].seg, m)
          BY <1>17, <1>19, <3>1, <4>1, <5>1, CarriesAgain
        <5>3. QED
          BY <4>1, <5>2
      <4>2. QED
        BY <1>10, <1>20, <3>1, <4>1
    <3>3. QED
      BY <3>2 DEF QueueInv, m, d, K, StreamLen
  <2>4. CoverInv(e)'
    <3>1. SUFFICES ASSUME NEW x \in d.snd_una..(d.snd_nxt - 1)
                   PROVE  \E i \in DOMAIN d.txq : Covers(d.txq[i].seg, x)
      BY DEF CoverInv, d
    <3>2. CASE x < c.snd_nxt
      <4>1. x \in c.snd_una..(c.snd_nxt - 1)
        BY <1>3, <1>4, <3>2 DEF Scalars
      <4>2. PICK i \in DOMAIN c.txq : Covers(c.txq[i].seg, x)
        BY <1>4, <4>1 DEF StreamInv, Local, CoverInv, c
      <4>3. QED
        BY <1>10, <4>2
    <3>3. CASE ~(x < c.snd_nxt)
      <4>1. c.snd_nxt <= x /\ x < c.snd_nxt + n
        BY <1>5, <1>18, <1>18a, <3>3 DEF Scalars
      <4>2. Covers(f, x)
        BY <1>3, <1>5, <1>8, <1>12, <4>1 DEF Covers, Scalars
      <4>3. QED
        BY <1>10, <4>2
    <3>4. QED
      BY <3>2, <3>3
  <2>5. QED
    BY <1>11, <1>16, <2>1, <2>2, <2>3, <2>4 DEF Local
<1>22. SndSide(e)
  <2>1. NetInv(e)'
    <3>1. ASSUME NEW s \in net'[o] PROVE Carries(e, s, K)
      <4>1. CASE s \in net[o]
        <5>1. Again(s, s)
          BY DEF Again
        <5>2. QED
          BY <1>17a, <1>19, <4>1, <5>1, CarriesAgain
      <4>2. CASE Ok /\ s = f
        BY <1>19, <1>20, <4>2
      <4>3. QED
        BY <1>11, <4>1, <4>2
    <3>2. QED
      BY <3>1 DEF NetInv, K
  <2>2. TextsSide(e)
    <3>1. \A s : Again(s, s)
      BY DEF Again
    <3>2. ASSUME NEW s \in Texts(e)' PROVE s = f \/ s \in Texts(e)
      <4>1. s.data # <<>> /\ (s \in net'[o] \/ \E i \in DOMAIN d.txq : s = d.txq[i].seg)
        BY TextsCases DEF d
      <4>2. s = f \/ s \in net[o] \/ \E i \in DOMAIN c.txq : s = c.txq[i].seg
        BY <1>10, <1>11, <4>1
      <4>3. QED
        BY <4>1, <4>2 DEF Texts, c
    <3>3. Fresh(e, f)
      BY <1>9, <1>14 DEF Fresh
    <3>4. \A s \in Texts(e)' : Again(s, f) \/ \E t \in Texts(e) : Again(s, t)
      BY <3>1, <3>2
    <3>5. QED
      BY <3>3, <3>4 DEF TextsSide
  <2>3. UnaSide(e)
    BY <1>4 DEF UnaSide, c, d
  <2>4. QED
    BY <1>19, <2>1, <2>2, <2>3 DEF SndSide, k, K
<1>23. QED
  BY <1>16, <1>21, <1>22 DEF Well

-----------------------------------------------------------------------------
(***************************************************************************)
(* Every step is, at each end, one of these.                               *)
(***************************************************************************)
Kinds(e) ==
    Advance(e) \/ Shuts(e) \/ OpensUp(e) \/ EstablishesUp(e) \/ Sends(e)

LEMMA KindsKeep ==
    ASSUME PairTyped, PairTyped', StreamInv, \A e \in Ends : Kinds(e)
    PROVE  StreamInv'
<1>1. ASSUME NEW e \in Ends PROVE Well(e)
  BY AdvanceKeeps, ShutsKeeps, OpensKeeps, EstablishesKeeps, SendsKeeps DEF Kinds
<1>2. QED
  BY <1>1, WellKeeps

\* The flow of e is as before; its queue may be another.
Stays(e) ==
    /\ \A f \in {"state", "iss", "snd_nxt", "snd_una", "rcv_nxt", "rcv_wnd", "buf"} :
         cb'[e][f] = cb[e][f]
    /\ got'[e] = got[e] /\ todo'[e] = todo[e]

LEMMA StaysAdvances ==
    ASSUME NEW e \in Ends, Stays(e), QueueStep(e), NetStep(e), LockStep(e)
    PROVE  Advance(e)
<1>1. NoText(e) /\ StateStep(e) /\ UnaStep(e)
  BY DEF Stays, NoText, StateStep, UnaStep
<1>2. QED
  BY <1>1 DEF Stays, Advance, RcvStep

LEMMA SameQueue ==
    ASSUME NEW e \in Ends, cb'[e].txq = cb[e].txq
    PROVE  QueueStep(e)
  BY DEF QueueStep, Again

\* An end at which nothing happens: the link from it may lose something.
Idle(e) ==
    /\ cb'[e] = cb[e] /\ got'[e] = got[e] /\ todo'[e] = todo[e] /\ LockStep(e)
    /\ \A s \in net'[Other(e)] : s \in net[Other(e)]

LEMMA IdleAdvances ==
    ASSUME NEW e \in Ends, Idle(e)
    PROVE  Advance(e)
<1>1. Stays(e)
  BY DEF Idle, Stays
<1>2. QueueStep(e) /\ NetStep(e) /\ LockStep(e)
  BY SameQueue DEF Idle, NetStep
<1>3. QED
  BY <1>1, <1>2, StaysAdvances

LEMMA LockSame ==
    ASSUME StreamInv, NEW e \in Ends, mutex'[e] = mutex[e],
           sender'[e] = "run" => sender[e] = "run"
    PROVE  LockStep(e)
  BY DEF StreamInv, Local, StateInv, LockStep

LEMMA ThreadKinds ==
    ASSUME PairTyped, StreamInv, NEW e \in Ends,
           SendCall(e) \/ SendWake(e) \/ SendRefused(e) \/ SendWait(e)
    PROVE  \A x \in Ends : Kinds(x)
<1>1. UNCHANGED <<cb, net, todo, got>>
  BY DEF SendCall, SendWake, SendRefused, SendWait
<1>2. mutex[e] # "leaked"
  BY DEF SendCall, SendWake, SendRefused, SendWait, Unlocked, StreamInv, Local, StateInv
<1>3. sender'[e] = "run" => mutex'[e] = "send"
  BY DEF SendCall, SendWake, SendRefused, SendWait, SendReturn, PairTyped
<1>4. ASSUME NEW x \in Ends, x # e PROVE mutex'[x] = mutex[x] /\ sender'[x] = sender[x]
  BY <1>4 DEF SendCall, SendWake, SendRefused, SendWait, SendReturn, PairTyped
<1>5. ASSUME NEW x \in Ends PROVE LockStep(x)
  <2>1. CASE x = e
    BY <1>2, <1>3, <2>1 DEF LockStep
  <2>2. CASE x # e
    BY <1>4, <2>2, LockSame
  <2>3. QED
    BY <2>1, <2>2
<1>6. ASSUME NEW x \in Ends PROVE Idle(x)
  BY <1>1, <1>5 DEF Idle
<1>7. QED
  BY <1>6, IdleAdvances DEF Kinds

LEMMA LoseKinds ==
    ASSUME PairTyped, StreamInv, NEW e \in Ends, Lose(e)
    PROVE  \A x \in Ends : Kinds(x)
<1>1. /\ UNCHANGED <<cb, todo, got, mutex, sender>>
      /\ \A x \in Ends : net'[x] \subseteq net[x]
  BY DEF Lose, PairTyped
<1>2. ASSUME NEW x \in Ends PROVE Idle(x)
  BY <1>1, LockSame, OtherIs DEF Idle
<1>3. QED
  BY <1>2, IdleAdvances DEF Kinds

LEMMA StutterKinds ==
    ASSUME StreamInv, UNCHANGED vars
    PROVE  \A x \in Ends : Kinds(x)
<1>1. ASSUME NEW x \in Ends PROVE Idle(x)
  BY LockSame, OtherIs DEF Idle, vars
<1>2. QED
  BY <1>1, IdleAdvances DEF Kinds

LEMMA AcceptKinds ==
    ASSUME PairTyped, StreamInv, Accept
    PROVE  \A x \in Ends : Kinds(x)
<1>1. UNCHANGED <<net, mutex, sender, todo, got>>
  BY DEF Accept
<1> DEFINE c == cb["B"]
           d == [c EXCEPT !.used = TRUE]
<1>2. CbShape(c) /\ cb' = [cb EXCEPT !["B"] = d]
  BY DEF Accept, PairTyped, CbTyped, Ends
<1>3. \A f \in CbFields \ {"used"} : d[f] = c[f]
  BY <1>2 DEF CbShape, CbFields
<1> HIDE DEF d
<1>4. \A x \in Ends : cb'[x] = IF x = "B" THEN d ELSE cb[x]
  BY <1>2 DEF PairTyped
<1>5. ASSUME NEW x \in Ends PROVE Advance(x)
  <2>1. \A f \in CbFields \ {"used"} : cb'[x][f] = cb[x][f]
    BY <1>3, <1>4
  <2>2. Stays(x)
    BY <1>1, <2>1 DEF Stays, CbFields
  <2>3. QueueStep(x)
    <3>1. cb'[x].txq = cb[x].txq
      BY <2>1 DEF CbFields
    <3>2. QED
      BY <3>1, SameQueue
  <2>4. NetStep(x) /\ LockStep(x)
    BY <1>1, LockSame DEF NetStep
  <2>5. QED
    BY <2>2, <2>3, <2>4, StaysAdvances
<1>6. QED
  BY <1>5 DEF Kinds

LEMMA TickKinds ==
    ASSUME PairTyped, StreamInv, Tick
    PROVE  \A x \in Ends : Kinds(x)
<1>1. UNCHANGED <<net, mutex, sender, todo, got>> /\ cb' = [e \in Ends |-> TickCb(cb[e])]
  BY DEF Tick
<1>2. ASSUME NEW x \in Ends PROVE Advance(x)
  <2> DEFINE c == cb[x]
             d == TickCb(c)
  <2>1. CbShape(c) /\ cb'[x] = d /\ c.txq \in Seq(EntryOf(Bytes))
    BY <1>1 DEF PairTyped, CbTyped
  <2>2. /\ d.txq = [i \in DOMAIN c.txq |-> Aged(c.txq[i])]
        /\ \A f \in CbFields \ {"left", "txq"} : d[f] = c[f]
    BY <2>1 DEF TickCb, CbShape, CbFields
  <2> HIDE DEF d
  <2>3. Stays(x)
    BY <1>1, <2>1, <2>2 DEF Stays, CbFields
  <2>4. ASSUME NEW i \in DOMAIN c.txq PROVE Aged(c.txq[i]).seg = c.txq[i].seg
    BY <2>1 DEF Aged, EntryOf
  <2>5. DOMAIN d.txq = DOMAIN c.txq /\ \A i \in DOMAIN c.txq : d.txq[i].seg = c.txq[i].seg
    BY <2>2, <2>4
  <2>6. QueueStep(x)
    BY <2>1, <2>5 DEF QueueStep, Again
  <2>7. NetStep(x) /\ LockStep(x)
    BY <1>1, LockSame DEF NetStep
  <2>8. QED
    BY <2>3, <2>6, <2>7, StaysAdvances
<1>3. QED
  BY <1>2 DEF Kinds

\* got is a function on the two ends.
GotShape == got = [e \in Ends |-> got[e]]

LEMMA GotNext == PairTyped /\ GotShape /\ [Next]_vars => GotShape'
<1> SUFFICES ASSUME GotShape, [Next]_vars PROVE GotShape'
  OBVIOUS
<1>1. CASE got' = got
  BY <1>1 DEF GotShape
<1>2. ASSUME NEW e \in Ends, RecvLoop(e) PROVE GotShape'
  <2>1. CASE got' = got
    BY <2>1 DEF GotShape
  <2>2. ASSUME NEW v, got' = [got EXCEPT ![e] = v] PROVE GotShape'
    BY <2>2 DEF GotShape
  <2>3. QED
    BY <1>2, <2>1, <2>2 DEF RecvLoop
<1>3. ASSUME NEW e \in Ends, TimerPass(e) PROVE got' = got
  BY <1>3 DEF TimerPass
<1>4. ASSUME NEW e \in Ends, NEW ok, SendSegment(e, ok) \/ Close(e, ok)
      PROVE  got' = got
  BY <1>4 DEF SendSegment, Close
<1>5. ASSUME NEW e \in Ends, Deliver(e) PROVE got' = got
  BY <1>5 DEF Deliver, Rx
<1>6. QED
  BY <1>1, <1>2, <1>3, <1>4, <1>5
     DEF Next, SendCall, SendWake, SendRefused, SendWait, Lose, Accept, Tick,
         RecvCall, RecvWake, vars

LEMMA RecvKinds ==
    ASSUME PairTyped, StreamInv, GotShape, NEW e \in Ends, RecvLoop(e)
    PROVE  \A x \in Ends : Kinds(x)
<1>1. UNCHANGED <<net, mutex, sender, todo>>
  BY DEF RecvLoop
<1>2. ASSUME NEW x \in Ends, cb'[x] = cb[x], got'[x] = got[x] PROVE Advance(x)
  BY <1>1, <1>2, LockSame, IdleAdvances DEF Idle
<1>3. CASE UNCHANGED <<cb, got>>
  BY <1>2, <1>3 DEF Kinds
<1>4. CASE ~UNCHANGED <<cb, got>>
  <2> DEFINE c == cb[e]
             len == Min({WinSize - c.rcv_wnd, RecvSize})
             d == Read(c, len)
  <2>1. /\ c.state \in {"CLOSE_WAIT", "ESTABLISHED", "FIN_WAIT1", "FIN_WAIT2"}
        /\ got' = [got EXCEPT ![e] = @ \o SubSeq(c.buf, 1, len)]
        /\ cb' = [cb EXCEPT ![e] = Read(@, len)]
    BY <1>4 DEF RecvLoop
  <2>2. Sync(c) /\ BufLen(c) <= WinSize
    <3>1. c.buf \in Seq(Bytes) /\ ~(Len(c.buf) > WinSize)
      BY DEF PairTyped, CbTyped, RecvLoop, Unlocked, Overrun
    <3>2. Len(c.buf) <= WinSize
      BY <3>1, WinSizeAssumption
    <3>3. QED
      BY <2>1, <3>2 DEF StreamInv, Local, StateInv, Sync, BufLen
  <2>3. len \in 0..(WinSize - c.rcv_wnd)
    BY RecvLen
  <2> HIDE DEF len
  <2>4. CbShape(c)
    BY DEF PairTyped, CbTyped
  <2>5. /\ d.buf = SubSeq(c.buf, len + 1, Len(c.buf))
        /\ d.rcv_wnd = Uint16(c.rcv_wnd + len)
        /\ \A f \in CbFields \ {"buf", "rcv_wnd"} : d[f] = c[f]
    BY <2>4 DEF Read, CbShape, CbFields
  <2> HIDE DEF d
  <2>7. cb'[e] = d /\ \A x \in Ends : x # e => cb'[x] = cb[x] /\ got'[x] = got[x]
    BY <2>1 DEF PairTyped, d
  <2>8. e \in DOMAIN got
    BY DEF GotShape
  <2>9. got'[e] = got[e] \o SubSeq(c.buf, 1, len)
    BY <2>1, <2>8
  <2>10. Advance(e)
    <3>1. ReadStep(e)
      BY <2>2, <2>3, <2>5, <2>7, <2>9 DEF ReadStep, CbFields, BufLen
    <3>2. StateStep(e) /\ UnaStep(e) /\ cb'[e].iss = c.iss /\ cb'[e].snd_nxt = c.snd_nxt
          /\ cb'[e].txq = c.txq
      BY <2>5, <2>7 DEF StateStep, UnaStep, CbFields
    <3>3. QueueStep(e) /\ NetStep(e) /\ LockStep(e)
      BY <1>1, <3>2, SameQueue, LockSame DEF NetStep
    <3>4. QED
      BY <1>1, <3>1, <3>2, <3>3 DEF Advance, RcvStep
  <2>11. QED
    BY <1>2, <2>7, <2>10 DEF Kinds
<1>5. QED
  BY <1>3, <1>4

\* Handlers that change one end only.
LEMMA ApplyIs ==
    ASSUME PairTyped, StreamInv, NEW e \in Ends, NEW r, Apply(e, r),
           UNCHANGED <<mutex, todo, got>>, NEW n, n = [x \in Ends |-> n[x]],
           \A x \in Ends : n[x] \subseteq net[x], net' = Sent(n, e, r.out)
    PROVE  /\ cb'[e] = r.cb /\ LockStep(e)
           /\ \A s \in net'[Other(e)] : s \in net[Other(e)] \/ s \in r.out
           /\ \A x \in Ends \ {e} : Advance(x)
<1>1. /\ cb' = [cb EXCEPT ![e] = r.cb]
      /\ sender' = [sender EXCEPT ![e] = IF Wakes(r) /\ @ = "wait" THEN "woken" ELSE @]
  BY DEF Apply, Woken
<1>2. /\ cb'[e] = r.cb /\ (sender'[e] = "run" => sender[e] = "run")
      /\ \A x \in Ends \ {e} : cb'[x] = cb[x] /\ sender'[x] = sender[x]
  BY <1>1 DEF PairTyped
<1>3. \A x \in Ends : LockStep(x)
  BY <1>2, LockSame
<1>4. /\ net'[e] \subseteq net[e]
      /\ \A s \in net'[Other(e)] : s \in net[Other(e)] \/ s \in r.out
  BY SentIs, OtherIs
<1>5. ASSUME NEW x \in Ends \ {e} PROVE Advance(x)
  <2>1. Other(x) = e
    BY DEF Other, Ends
  <2>2. Idle(x)
    BY <1>2, <1>3, <1>4, <2>1 DEF Idle
  <2>3. QED
    BY <2>2, IdleAdvances
<1>6. QED
  BY <1>2, <1>3, <1>4, <1>5

LEMMA TimerKinds ==
    ASSUME PairTyped, StreamInv, NEW e \in Ends, TimerPass(e)
    PROVE  \A x \in Ends : Kinds(x)
<1> DEFINE c == cb[e]
           r == tcp_timer_cb(c)
           d == r.cb
<1>1. /\ Apply(e, r) /\ net' = Sent(net, e, r.out) /\ mutex[e] = "free"
      /\ UNCHANGED <<mutex, todo, got>>
  BY DEF TimerPass, Unlocked
<1>2. CbTyped(c, Bytes) /\ net = [x \in Ends |-> net[x]]
  BY DEF PairTyped
<1>3. \/ Shut(r)
      \/ /\ Alike(c, d)
         /\ \A i \in DOMAIN d.txq : \E j \in DOMAIN c.txq :
              Again(d.txq[i].seg, c.txq[j].seg)
         /\ \A j \in DOMAIN c.txq : c.txq[j].seg.seq >= c.snd_una =>
              \E i \in DOMAIN d.txq : Again(d.txq[i].seg, c.txq[j].seg)
         /\ \A s \in r.out :
              s.ack = c.rcv_nxt /\ \E j \in DOMAIN c.txq : Again(s, c.txq[j].seg)
  BY <1>2, TimerIs
<1> HIDE DEF r
<1>4. /\ cb'[e] = d /\ LockStep(e)
      /\ \A s \in net'[Other(e)] : s \in net[Other(e)] \/ s \in r.out
      /\ \A x \in Ends \ {e} : Advance(x)
  BY <1>1, <1>2, ApplyIs
<1>5. CASE Shut(r)
  <2>1. Shuts(e)
    BY <1>1, <1>4, <1>5 DEF Shuts, Shut
  <2>2. QED
    BY <1>4, <2>1 DEF Kinds
<1>6. CASE ~Shut(r)
  <2>1. Stays(e) /\ d.rcv_nxt = c.rcv_nxt
    BY <1>1, <1>3, <1>4, <1>6 DEF Stays, Alike, CbFields
  <2>2. QueueStep(e)
    BY <1>3, <1>4, <1>6 DEF QueueStep
  <2>3. NetStep(e)
    BY <1>1, <1>3, <1>4, <1>6, <2>1 DEF NetStep
  <2>4. Advance(e)
    BY <1>4, <2>1, <2>2, <2>3, StaysAdvances
  <2>5. QED
    BY <1>4, <2>4 DEF Kinds
<1>7. QED
  BY <1>5, <1>6

\* The answer for a freed block is a reset.
LEMMA StrayIs ==
    ASSUME NEW e, NEW seg, "FIN" \notin seg.flg, NEW ok, NEW d
    PROVE  \A s \in Stray(e, seg, ok) : Bare(s, d)
<1> DEFINE r == ArrivesListen(Taken, seg, Iss[e], ok)
<1>1. CbShape(Taken)
  BY TakenTyped DEF CbTyped
<1>2. CASE Stray(e, seg, ok) = {}
  BY <1>2
<1>3. CASE "SYN" \notin seg.flg /\ Stray(e, seg, ok) = r.out
  <2>1. Shut(r) \/ Opens(Taken, r, seg, Iss[e])
    BY <1>1, ListenIs
  <2> HIDE DEF r
  <2>2. ~Opens(Taken, r, seg, Iss[e])
    BY <1>3 DEF Opens
  <2>3. \A s \in r.out : Bare(s, r.cb) /\ ~Sync(r.cb)
    BY <2>1, <2>2 DEF Shut, Sync
  <2>4. QED
    BY <1>3, <2>3 DEF Bare
<1>4. QED
  BY <1>2, <1>3 DEF Stray

LEMMA RxKinds ==
    ASSUME PairTyped, StreamInv, NEW e \in Ends, NEW seg \in net[e], NEW keep, NEW ok,
           Rx(e, seg, keep, ok)
    PROVE  \A x \in Ends : Kinds(x)
<1> DEFINE c == cb[e]
           o == Other(e)
           r == tcp_event_segment_arrives(c, seg, Iss[e], ok)
           d == r.cb
           n == IF keep THEN net ELSE [net EXCEPT ![e] = @ \ {seg}]
           q == [cb |-> c, out |-> Stray(e, seg, ok), wake |-> "none"]
<1>1. /\ mutex[e] = "free" /\ UNCHANGED <<mutex, todo, got>>
      /\ \/ net' = Sent(n, e, q.out) /\ UNCHANGED <<cb, sender, recver>>
         \/ Apply(e, r) /\ net' = Sent(n, e, r.out)
  BY DEF Rx, Unlocked
<1>1a. BufLen(c) <= WinSize
  <2>1. c.buf \in Seq(Bytes) /\ ~(Len(c.buf) > WinSize)
    BY DEF PairTyped, CbTyped, Rx, Unlocked, Overrun
  <2>2. Len(c.buf) <= WinSize
    BY <2>1, WinSizeAssumption
  <2>3. QED
    BY <2>2 DEF BufLen
<1>2. CbShape(c) /\ n = [x \in Ends |-> n[x]] /\ \A x \in Ends : n[x] \subseteq net[x]
  BY DEF PairTyped, CbTyped
<1>3. o \in Ends /\ Other(o) = e
  BY OtherIs
<1>4. Carries(o, seg, SentN(o)) /\ Nums(seg)
  BY <1>3, EndNums DEF StreamInv, Cross, NetInv, EndTyped
<1>5. "FIN" \notin seg.flg
  BY <1>4 DEF Carries
<1>6. StateInv(e) /\ SndInv(e) /\ Scalars(c) /\ Iss[e] \in Nat
  BY EndNums, FixedIs DEF StreamInv, Local, EndTyped, Fixed
<1>7. CASE net' = Sent(n, e, q.out) /\ UNCHANGED <<cb, sender, recver>>
  <2>1. Apply(e, q)
    BY <1>7 DEF Apply, Woken, Wakes, PairTyped
  <2>2. \A s \in q.out : Bare(s, c)
    BY <1>5, StrayIs
  <2>3. q.cb = c
    OBVIOUS
  <2> HIDE DEF n, q
  <2>4. /\ cb'[e] = c /\ LockStep(e)
        /\ \A s \in net'[o] : s \in net[o] \/ s \in q.out
        /\ \A x \in Ends \ {e} : Advance(x)
    BY <1>1, <1>2, <1>7, <2>1, <2>3, ApplyIs
  <2>5. Stays(e) /\ QueueStep(e) /\ NetStep(e)
    BY <1>1, <2>2, <2>4, SameQueue DEF Stays, NetStep
  <2>6. QED
    BY <2>4, <2>5, StaysAdvances DEF Kinds
<1>8. CASE Apply(e, r) /\ net' = Sent(n, e, r.out)
  <2> HIDE DEF n, q
  <2> DEFINE quiet == d = c /\ \A s \in r.out : Bare(s, c)
             goes == /\ Sync(c) /\ GoesOn(c, d, seg) /\ \A s \in r.out : Bare(s, d)
                     /\ "RST" \in seg.flg => d.snd_una = c.snd_una
             opens == c.state = "LISTEN" /\ Opens(c, r, seg, Iss[e])
             estab == c.state = "SYN_SENT" /\ Establishes(c, r, seg)
  <2>1. Shut(r) \/ quiet \/ goes \/ opens \/ estab
    <3>1. CASE c.state = "CLOSED"
      <4>1. r = ArrivesClosed(c, seg, ok)
        BY <3>1 DEF tcp_event_segment_arrives
      <4>2. QED
        BY <4>1, ClosedIs
    <3>2. CASE c.state = "LISTEN"
      <4>1. r = ArrivesListen(c, seg, Iss[e], ok)
        BY <3>2 DEF tcp_event_segment_arrives
      <4>2. QED
        BY <1>2, <1>5, <3>2, <4>1, ListenIs
    <3>3. CASE c.state = "SYN_SENT"
      <4>1. r = ArrivesSynSent(c, seg, ok)
        BY <3>3 DEF tcp_event_segment_arrives
      <4>2. c.iss = Iss[e] /\ c.snd_una = Iss[e] /\ e = "A" /\ o = "B"
        BY <1>6, <3>3 DEF StateInv, SndInv, Opened, Other
      <4>3. /\ c.iss \in Int /\ c.snd_una = c.iss /\ c.snd_nxt \in Int /\ seg.ack \in Int
        BY <1>4, <1>6, <4>2 DEF Scalars, Nums
      <4>4. "SYN" \in seg.flg => "ACK" \in seg.flg /\ seg.data = <<>>
        BY <1>4, <4>2 DEF Carries
      <4> HIDE DEF r
      <4>5. QED
        BY <1>2, <1>5, <3>3, <4>1, <4>3, <4>4, SynSentIs
    <3>4. CASE Sync(c)
      <4>1. r = ArrivesSynchronized(c, seg, ok)
        BY <3>4 DEF tcp_event_segment_arrives, Sync
      <4> HIDE DEF r
      <4>2. QED
        BY <1>2, <1>5, <3>4, <4>1, SynchronizedIs
    <3>5. QED
      BY <1>6, <3>1, <3>2, <3>3, <3>4 DEF StateInv, Sync
  <2> HIDE DEF r
  <2>2. /\ cb'[e] = d /\ LockStep(e)
        /\ \A s \in net'[o] : s \in net[o] \/ s \in r.out
        /\ \A x \in Ends \ {e} : Advance(x)
    BY <1>1, <1>2, <1>8, ApplyIs
  <2>3. Shut(r) => Shuts(e)
    BY <1>1, <2>2 DEF Shut, Shuts
  <2>4. opens => OpensUp(e)
    BY <1>1, <2>2 DEF OpensUp
  <2>5. estab => EstablishesUp(e)
    BY <1>1, <2>2 DEF EstablishesUp
  <2>6. quiet => Advance(e)
    <3>1. SUFFICES ASSUME quiet PROVE Advance(e)
      OBVIOUS
    <3>2. Stays(e) /\ QueueStep(e)
      BY <1>1, <2>2, <3>1, SameQueue DEF Stays
    <3>3. NetStep(e)
      BY <2>2, <3>1 DEF NetStep
    <3>4. QED
      BY <2>2, <3>2, <3>3, StaysAdvances
  <2>7. goes => Advance(e)
    <3>1. SUFFICES ASSUME goes PROVE Advance(e)
      OBVIOUS
    <3>2. StateStep(e) /\ d.iss = c.iss /\ d.snd_nxt = c.snd_nxt /\ d.txq = c.txq
      BY <2>2, <3>1 DEF GoesOn, StateStep
    <3>3. QueueStep(e) /\ NetStep(e)
      BY <2>2, <3>1, <3>2, SameQueue DEF NetStep
    <3>4. UnaStep(e)
      BY <2>2, <3>1 DEF GoesOn, UnaMoves, UnaStep, Acking
    <3>5. RcvStep(e)
      <4>1. CASE d.rcv_nxt = c.rcv_nxt /\ d.buf = c.buf /\ d.rcv_wnd = c.rcv_wnd
        BY <1>1, <2>2, <4>1 DEF RcvStep, NoText
      <4>2. CASE /\ seg.data # <<>> /\ c.rcv_nxt = seg.seq /\ SeqAcceptable(c, seg)
                 /\ d.buf = c.buf \o seg.data
                 /\ d.rcv_nxt = SeqAdd(seg.seq, Len(seg.data))
                 /\ d.rcv_wnd = Uint16(c.rcv_wnd - Len(seg.data))
        BY <1>1, <1>1a, <2>2, <3>1, <4>2 DEF RcvStep, TextStep, TextLen
      <4>3. QED
        BY <3>1, <4>1, <4>2 DEF GoesOn, TextMoves
    <3>6. QED
      BY <1>1, <2>2, <3>2, <3>3, <3>4, <3>5 DEF Advance
  <2>8. QED
    BY <2>1, <2>2, <2>3, <2>4, <2>5, <2>6, <2>7 DEF Kinds
<1>9. QED
  BY <1>1, <1>7, <1>8

\* What tcp_tx does with a segment of send.
LEMMA SendTxIs ==
    ASSUME NEW c, CbShape(c), NEW seq, NEW ack, NEW data, NEW ok
    PROVE  LET f == [seq |-> seq, ack |-> ack, flg |-> {"PSH", "ACK"},
                     win |-> c.rcv_wnd, data |-> data]
               r == tcp_tx(Result(c), seq, ack, {"PSH", "ACK"}, data, ok)
           IN  Alike(c, r.cb) /\ r.out \subseteq {f} /\ (r.failed => r.out = {})
<1> DEFINE f == [seq |-> seq, ack |-> ack, flg |-> {"PSH", "ACK"},
                 win |-> c.rcv_wnd, data |-> data]
           r == tcp_tx(Result(c), seq, ack, {"PSH", "ACK"}, data, ok)
<1>1. Result(c).cb = c /\ Result(c).out = {} /\ Result(c).wake = "none"
  BY DEF Result
<1>2. Alike(c, r.cb)
  BY <1>1, TxAlike
<1>3. r.out \subseteq {f} /\ (r.failed => r.out = {})
  BY <1>1 DEF tcp_tx
<1>4. QED
  BY <1>2, <1>3

LEMMA SendSegmentKinds ==
    ASSUME PairTyped, StreamInv, NEW e \in Ends, NEW ok, SendSegment(e, ok)
    PROVE  \A x \in Ends : Kinds(x)
<1> DEFINE o == Other(e)
           c == cb[e]
           size == Min({Mss, Len(todo[e]), SndRoom(c)})
           data == SubSeq(todo[e], 1, size)
           rest == SubSeq(todo[e], size + 1, Len(todo[e]))
           f == [seq |-> c.snd_nxt, ack |-> c.rcv_nxt, flg |-> {"PSH", "ACK"},
                 win |-> c.rcv_wnd, data |-> data]
           r == tcp_tx(Result(c), c.snd_nxt, c.rcv_nxt, {"PSH", "ACK"}, data, ok)
           b == r.cb
           g == [b EXCEPT !.snd_nxt = SeqAdd(@, size), !.left = UserTimeout + 1]
<1>1. /\ size \in Nat /\ size <= TodoLen(e) /\ size <= Mss
      /\ Len(data) = size /\ todo[e] \in Seq(Bytes) /\ data \in Seq(Bytes)
  <2>1. /\ size \in Wnds /\ size <= TodoLen(e)
        /\ Len(data) = size /\ todo[e] \in Seq(Bytes) /\ data \in Seq(Bytes)
    BY SendSize DEF PairTyped, TodoLen
  <2>2. size <= Mss
    <3> DEFINE S == {Mss, Len(todo[e]), SndRoom(c)}
    <3>1. S \subseteq Nat /\ S # {}
      <4>1. SndRoom(c) \in Wnds
        BY SendSize
      <4>2. todo[e] \in Seq(Bytes)
        BY <2>1
      <4>3. Len(todo[e]) \in Nat
        BY <4>2
      <4> HIDE DEF c
      <4>4. QED
        BY <4>1, <4>3, PairAssumption DEF Wnds
    <3>2. Mss \in S
      OBVIOUS
    <3> HIDE DEF S
    <3>3. \A y \in S : Min(S) <= y
      BY <3>1, MinIn
    <3>4. QED
      BY <3>2, <3>3 DEF S
  <2> HIDE DEF size, data
  <2>3. size \in Nat
    BY <2>1, WinSizeAssumption DEF Wnds
  <2>4. QED
    BY <2>1, <2>2, <2>3
<1>2. CbShape(c) /\ c.snd_nxt \in SeqNos /\ net = [x \in Ends |-> net[x]]
  BY DEF PairTyped, CbTyped
<1>3. /\ Alike(c, b) /\ r.out \subseteq {f} /\ (r.failed => r.out = {})
      /\ data = <<>> => b = c
      /\ data # <<>> => b.txq \in {Append(c.txq, [seg |-> f, age |-> Unsent]),
                                  Append(c.txq, [seg |-> f, age |-> 0])}
  <2> HIDE DEF c, data
  <2>1. CbShape(c)
    BY <1>2
  <2>2. Alike(c, b) /\ r.out \subseteq {f} /\ (r.failed => r.out = {})
    BY <2>1, SendTxIs
  <2>3. data = <<>> => b = c
    <3>1. Result(c).cb = c
      BY DEF Result
    <3>2. QED
      BY <3>1 DEF tcp_tx, Queued
  <2>4. data # <<>> => b.txq \in {Append(c.txq, [seg |-> f, age |-> Unsent]),
                                  Append(c.txq, [seg |-> f, age |-> 0])}
    <3> SUFFICES ASSUME data # <<>>
                 PROVE  b.txq \in {Append(c.txq, [seg |-> f, age |-> Unsent]),
                                   Append(c.txq, [seg |-> f, age |-> 0])}
      OBVIOUS
    <3>1. Queued({"PSH", "ACK"}, data)
      BY DEF Queued
    <3>2. Result(c).cb = c
      BY DEF Result
    <3>3. b \in {tcp_txq_add(c, f, Unsent),
                 [tcp_txq_add(c, f, 0) EXCEPT !.snt = Uint16(@ + Len(data))]}
      BY <3>1, <3>2 DEF tcp_tx
    <3> HIDE DEF b, f
    <3>4. QED
      BY <2>1, <3>3 DEF tcp_txq_add, CbShape, CbFields
  <2>5. QED
    BY <2>2, <2>3, <2>4
<1>4. /\ sender[e] = "run" /\ c.state = "ESTABLISHED" /\ mutex[e] = "send"
      /\ net' = Sent(net, e, r.out) /\ got' = got
  BY DEF SendSegment, StreamInv, Local, StateInv
<1> DEFINE failed == /\ r.failed /\ SendReturn(e, "leaked")
                     /\ cb' = [cb EXCEPT ![e] = b] /\ todo' = todo
           done == /\ cb' = [cb EXCEPT ![e] = g]
                   /\ todo' = [todo EXCEPT ![e] = rest]
                   /\ \/ SendReturn(e, "free")
                      \/ UNCHANGED <<sender, mutex>>
<1>5. failed \/ done
  BY DEF SendSegment
<1>6. /\ f.seq = c.snd_nxt /\ f.ack = c.rcv_nxt /\ f.flg = {"PSH", "ACK"}
      /\ f.data = data
  OBVIOUS
<1>7. /\ CbShape(b) /\ \A h \in CbFields \ {"txq", "snt"} : b[h] = c[h]
  BY <1>3 DEF Alike
<1>8. /\ g.snd_nxt = SeqAdd(c.snd_nxt, size)
      /\ \A h \in CbFields \ {"snd_nxt", "left"} : g[h] = b[h]
  <2> HIDE DEF b, c, size
  <2>1. QED
    BY <1>7 DEF CbShape, CbFields
<1> HIDE DEF r, f, g, size
<1>9. ASSUME NEW x \in Ends PROVE LockStep(x)
  BY <1>4, <1>5, LockSame DEF LockStep, SendReturn, PairTyped
<1>10. net'[e] = net[e] /\ \A s \in net'[o] : s \in net[o] \/ s \in r.out
  BY <1>2, <1>4, SentIs
<1>11. ASSUME NEW x \in Ends, x # e PROVE Advance(x)
  <2>1. Other(x) = e
    BY <1>11 DEF Other, Ends
  <2>2. cb'[x] = cb[x] /\ todo'[x] = todo[x]
    BY <1>5, <1>11 DEF PairTyped
  <2>3. Idle(x)
    BY <1>4, <1>9, <1>10, <2>1, <2>2 DEF Idle
  <2>4. QED
    BY <2>3, IdleAdvances
<1>12. /\ failed => cb'[e] = b /\ todo'[e] = todo[e] /\ mutex'[e] = "leaked"
       /\ done => cb'[e] = g /\ todo'[e] = rest
  BY DEF PairTyped, SendReturn
<1>13. /\ \A h \in CbFields \ {"txq", "snt", "snd_nxt", "left"} : cb'[e][h] = c[h]
       /\ cb'[e].txq = b.txq
       /\ failed => cb'[e].snd_nxt = c.snd_nxt
       /\ done => cb'[e].snd_nxt = SeqAdd(c.snd_nxt, size)
  <2>1. CASE failed
    BY <1>7, <1>8, <1>12, <2>1 DEF CbFields
  <2>2. CASE done
    BY <1>7, <1>8, <1>12, <2>2 DEF CbFields
  <2>3. QED
    BY <1>5, <2>1, <2>2
<1>14. CASE size = 0
  <2>1. data = <<>> /\ b = c
    <3>1. Len(data) = 0 /\ data \in Seq(Bytes)
      BY <1>1, <1>14
    <3>2. data = <<>>
      BY <3>1, EmptySeq
    <3>3. QED
      BY <1>3, <3>2
  <2>2. SeqAdd(c.snd_nxt, size) = c.snd_nxt
    BY <1>2, <1>14, SeqSpaceAssumption DEF SeqAdd, SeqNos
  <2>3. rest = todo[e]
    BY <1>1, <1>14, SubSeqFull
  <2>4. Stays(e)
    <3>1. cb'[e].snd_nxt = c.snd_nxt /\ todo'[e] = todo[e]
      BY <1>5, <1>12, <1>13, <2>2, <2>3
    <3>2. QED
      BY <1>4, <1>13, <3>1 DEF Stays, CbFields
  <2>5. QueueStep(e)
    BY <1>13, <2>1, SameQueue
  <2>6. NetStep(e)
    <3>1. Sync(cb'[e]) /\ cb'[e].rcv_nxt = c.rcv_nxt
      BY <1>4, <2>4 DEF Stays, Sync
    <3>2. Bare(f, cb'[e])
      BY <1>6, <2>1, <3>1 DEF Bare
    <3>3. QED
      BY <1>3, <1>10, <3>2 DEF NetStep
  <2>7. Advance(e)
    BY <1>9, <2>4, <2>5, <2>6, StaysAdvances
  <2>8. QED
    BY <1>11, <2>7 DEF Kinds
<1>15. CASE size # 0
  <2>1. data # <<>>
    <3>1. Len(data) # 0
      BY <1>1, <1>15
    <3>2. Len(<<>>) = 0
      OBVIOUS
    <3> HIDE DEF data
    <3>3. QED
      BY <3>1, <3>2
  <2>2. size \in 1..TodoLen(e)
    <3>1. TodoLen(e) \in Nat
      BY EndNums DEF EndTyped
    <3>2. QED
      BY <1>1, <1>15, <3>1
  <2>3. NoText(e) /\ cb'[e].state = c.state /\ cb'[e].iss = c.iss
        /\ cb'[e].snd_una = c.snd_una
    BY <1>4, <1>13 DEF NoText, CbFields
  <2>4. \E age : cb'[e].txq = Append(c.txq, [seg |-> f, age |-> age])
    BY <1>3, <1>13, <2>1
  <2>5. \/ /\ cb'[e].snd_nxt = SeqAdd(c.snd_nxt, size)
           /\ todo'[e] = SubSeq(todo[e], size + 1, TodoLen(e))
           /\ \A s \in net'[o] : s \in net[o] \/ s = f
        \/ /\ cb'[e].snd_nxt = c.snd_nxt /\ todo'[e] = todo[e]
           /\ mutex'[e] = "leaked"
           /\ \A s \in net'[o] : s \in net[o]
    BY <1>3, <1>5, <1>10, <1>12, <1>13 DEF TodoLen
  <2>6. SendsOn(e, f, size)
    <3>1. f.data = SubSeq(todo[e], 1, size) /\ size <= Mss
      BY <1>1, <1>6
    <3>2. QED
      BY <1>6, <2>2, <2>4, <2>5, <3>1 DEF SendsOn
  <2>7. Sends(e)
    BY <1>4, <1>9, <2>3, <2>6 DEF Sends
  <2>8. QED
    BY <1>11, <2>7 DEF Kinds
<1>16. QED
  BY <1>14, <1>15

LEMMA NextKinds ==
    ASSUME Closers = {}, PairTyped, StreamInv, GotShape, [Next]_vars
    PROVE  \A x \in Ends : Kinds(x)
<1>1. ASSUME NEW e \in Ends,
             SendCall(e) \/ SendWake(e) \/ SendRefused(e) \/ SendWait(e)
      PROVE  \A x \in Ends : Kinds(x)
  BY <1>1, ThreadKinds
<1>2. ASSUME NEW e \in Ends, RecvCall(e) \/ RecvWake(e)
      PROVE  \A x \in Ends : Kinds(x)
  BY <1>2, RecvKinds DEF RecvCall, RecvWake
<1>3. ASSUME NEW e \in Ends, NEW ok \in TxOk, SendSegment(e, ok)
      PROVE  \A x \in Ends : Kinds(x)
  BY <1>3, SendSegmentKinds
<1>4. ASSUME NEW e \in Ends, NEW ok \in TxOk PROVE ~Close(e, ok)
  BY DEF Close
<1>5. ASSUME NEW e \in Ends, Deliver(e) PROVE \A x \in Ends : Kinds(x)
  BY <1>5, RxKinds DEF Deliver, Deliverable
<1>6. ASSUME NEW e \in Ends, TimerPass(e) PROVE \A x \in Ends : Kinds(x)
  BY <1>6, TimerKinds
<1>7. ASSUME NEW e \in Ends, Lose(e) PROVE \A x \in Ends : Kinds(x)
  BY <1>7, LoseKinds
<1>8. QED
  BY <1>1, <1>2, <1>3, <1>4, <1>5, <1>6, <1>7, AcceptKinds, TickKinds, StutterKinds
     DEF Next

LEMMA NextStream ==
    ASSUME Closers = {}, PairTyped, StreamInv, GotShape, [Next]_vars
    PROVE  StreamInv'
<1>1. PairTyped' /\ \A x \in Ends : Kinds(x)
  BY NextTyped, NextKinds
<1>2. QED
  BY <1>1, KindsKeep

\* A has sent its SYN, B listens.
LEMMA InitStream ==
    ASSUME Init
    PROVE  StreamInv /\ GotShape /\ \A e \in Ends : Early(cb[e])
<1> DEFINE z == [ZeroCb("B") EXCEPT !.used = TRUE]
           c == [z EXCEPT !.port = 1, !.peer = "B", !.rcv_wnd = WinSize,
                          !.iss = Iss["A"]]
           t == tcp_tx(Result(c), Iss["A"], 0, {"SYN"}, <<>>, TRUE)
           syn == ConnectCb(z, 1, "B", Iss["A"], TRUE)
           s == [seq |-> Iss["A"], ack |-> 0, flg |-> {"SYN"}, win |-> c.rcv_wnd,
                 data |-> <<>>]
           a == cb["A"]
           b == cb["B"]
<1>1. PairTyped
  BY InitTyped
<1>2. /\ a = syn.cb /\ net["A"] = {} /\ net["B"] = syn.out
      /\ b = [ZeroCb("A") EXCEPT !.state = "LISTEN", !.port = 1, !.parent = 1]
      /\ \A e \in Ends : /\ mutex[e] = "free" /\ sender[e] = "idle"
                         /\ todo[e] = Stream[e] /\ got[e] = <<>>
      /\ GotShape
  BY DEF Init, Ends, GotShape, Taken
<1>3. /\ CbShape(c) /\ c.rcv_wnd = WinSize /\ c.iss = Iss["A"]
      /\ c.txq = <<>> /\ c.buf = <<>>
  BY DEF CbShape, CbFields, ZeroCb
<1> HIDE DEF c
<1>4. ~t.failed /\ t.out \subseteq {s} /\ Alike(c, t.cb)
  <2>1. Result(c).cb = c /\ Result(c).out = {} /\ Result(c).wake = "none"
    BY DEF Result
  <2>2. Alike(c, t.cb)
    BY <1>3, <2>1, TxAlike
  <2>3. QED
    BY <2>1, <2>2 DEF tcp_tx
<1>5. \E age : t.cb.txq = Append(<<>>, [seg |-> s, age |-> age])
  <2>1. Queued({"SYN"}, <<>>)
    BY DEF Queued
  <2>2. Result(c).cb = c
    BY DEF Result
  <2>3. t.cb \in {tcp_txq_add(c, s, Unsent),
                  [tcp_txq_add(c, s, 0) EXCEPT !.snt = Uint16(@ + Len(<<>>))]}
    BY <2>1, <2>2 DEF tcp_tx
  <2> HIDE DEF t, s
  <2>4. t.cb.txq \in {Append(c.txq, [seg |-> s, age |-> Unsent]),
                      Append(c.txq, [seg |-> s, age |-> 0])}
    BY <1>3, <2>3 DEF tcp_txq_add, CbShape, CbFields
  <2>5. QED
    BY <1>3, <2>4
<1>6. /\ syn.out = t.out
      /\ syn.cb = [t.cb EXCEPT !.snd_nxt = SeqAdd(Iss["A"], 1),
                               !.snd_una = Iss["A"], !.left = UserTimeout + 1,
                               !.state = "SYN_SENT"]
  BY <1>4 DEF ConnectCb, With, c
<1> HIDE DEF t, syn
<1>7. /\ a.state = "SYN_SENT" /\ a.iss = Iss["A"] /\ a.rcv_wnd = WinSize
      /\ a.snd_nxt = SeqAdd(Iss["A"], 1) /\ a.snd_una = Iss["A"] /\ a.buf = <<>>
      /\ a.txq = t.cb.txq
  <2> DEFINE k == t.cb
  <2>1. CbShape(k) /\ \A f \in CbFields \ {"txq", "snt"} : k[f] = c[f]
    BY <1>4 DEF Alike
  <2>2. a = [k EXCEPT !.snd_nxt = SeqAdd(Iss["A"], 1), !.snd_una = Iss["A"],
                      !.left = UserTimeout + 1, !.state = "SYN_SENT"]
    BY <1>2, <1>6
  <2> HIDE DEF k, a
  <2>3. /\ a.state = "SYN_SENT" /\ a.snd_una = Iss["A"]
        /\ a.snd_nxt = SeqAdd(Iss["A"], 1)
        /\ \A f \in CbFields \ {"snd_nxt", "snd_una", "left", "state"} : a[f] = k[f]
    BY <2>1, <2>2 DEF CbShape, CbFields
  <2>4. QED
    BY <1>3, <2>1, <2>3 DEF CbFields, k
<1>8. b.state = "LISTEN" /\ b.txq = <<>> /\ b.buf = <<>>
  BY <1>2 DEF ZeroCb
<1>9. PICK age : a.txq = Append(<<>>, [seg |-> s, age |-> age])
  BY <1>5, <1>7
<1>10. DOMAIN a.txq = {1} /\ a.txq[1].seg = s
  <2> HIDE DEF a, s
  <2>1. QED
    BY <1>9
<1>11. /\ s.seq = Iss["A"] /\ s.flg = {"SYN"} /\ s.data = <<>>
  OBVIOUS
<1> HIDE DEF s, a, b
<1>12. DOMAIN b.txq = {}
  BY <1>8
<1>13. "A" \in Ends /\ "B" \in Ends /\ Other("A") = "B" /\ Other("B") = "A"
       /\ \A e \in Ends : e \in {"A", "B"}
  BY DEF Ends, Other
<1>14. a.snd_nxt = Iss["A"] + 1
  BY <1>7, <1>13, FixedIs, NoWrap DEF Fixed
<1>15. \A e \in Ends : Len(<<>>) = 0 /\ SentN(e) = 0 /\ TodoLen(e) = StreamLen(e)
  <2>1. ASSUME NEW e \in Ends PROVE TodoLen(e) = StreamLen(e)
    BY <1>2 DEF TodoLen, StreamLen
  <2>2. QED
    BY <2>1, FixedIs DEF SentN, Fixed
<1>16. \A e \in Ends : /\ Early(cb[e]) /\ ~Sync(cb[e]) /\ Pos(e) = 0
                        /\ got[e] = <<>> /\ cb[e].buf = <<>>
  <2>1. ASSUME NEW e \in Ends
        PROVE  Early(cb[e]) /\ ~Sync(cb[e]) /\ got[e] = <<>> /\ cb[e].buf = <<>>
    BY <1>2, <1>7, <1>8, <1>13 DEF Early, Sync, a, b
  <2>2. ASSUME NEW e \in Ends PROVE GotLen(e) = 0 /\ BufLen(cb[e]) = 0
    BY <2>1 DEF GotLen, BufLen
  <2>3. QED
    BY <2>1, <2>2 DEF Pos
<1>17. ASSUME NEW e \in Ends PROVE SubSeq(Stream[e], 1, 0) = <<>>
  BY StreamAssumption
<1>18. ASSUME NEW e \in Ends PROVE StateInv(e)
  <2>1. /\ sender[e] = "idle" /\ todo[e] = Stream[e] /\ got[e] = <<>>
        /\ cb[e].buf = <<>>
    BY <1>2, <1>16
  <2>2. CASE e = "A"
    <3>1. cb[e] = a
      BY <2>2 DEF a
    <3>2. /\ a.state = "SYN_SENT" /\ a.rcv_wnd = WinSize /\ a.snd_una = Iss[e]
          /\ \A i \in DOMAIN a.txq : "ACK" \notin a.txq[i].seg.flg
      BY <1>7, <1>10, <1>11, <2>2
    <3>3. QED
      BY <2>1, <2>2, <3>1, <3>2 DEF StateInv
  <2>3. CASE e = "B"
    <3>1. cb[e] = b
      BY <2>3 DEF b
    <3>2. QED
      BY <1>8, <1>12, <2>1, <2>3, <3>1 DEF StateInv
  <2>4. QED
    BY <1>13, <2>2, <2>3
<1>19. ASSUME NEW e \in Ends PROVE RestInv(e)
  <2>1. Stream[e] \in Seq(Bytes)
    BY StreamAssumption
  <2>2. Stream[e] = SubSeq(Stream[e], 1, StreamLen(e))
    BY <2>1, SubSeqFull DEF StreamLen
  <2>3. todo[e] = Stream[e] /\ SentN(e) = 0 /\ TodoLen(e) = StreamLen(e)
    BY <1>2, <1>15
  <2>4. StreamLen(e) \in Nat
    BY FixedIs DEF Fixed
  <2>5. QED
    BY <2>2, <2>3, <2>4 DEF RestInv
<1>20. SndInv("A") /\ ~Opened(b)
  <2>1. SentN("A") = 0 /\ Iss["A"] \in Nat
    BY <1>13, <1>15, FixedIs DEF Fixed
  <2>2. QED
    BY <1>7, <1>8, <1>14, <2>1 DEF SndInv, Opened, a
<1>21. ASSUME NEW e \in Ends PROVE SndInv(e)
  BY <1>13, <1>20 DEF SndInv, b
<1>22. ASSUME NEW e \in Ends PROVE RcvInv(e)
  BY <1>16 DEF RcvInv
<1>23. \A n : Carries("A", s, n)
  BY <1>11 DEF Carries
<1>24. ASSUME NEW e \in Ends PROVE QueueInv(e)
  BY <1>10, <1>12, <1>13, <1>23 DEF QueueInv, a, b
<1>25. CoverInv("A")
  <2>1. ASSUME NEW n \in a.snd_una..(a.snd_nxt - 1) PROVE Covers(s, n)
    <3>1. TextLen(s) = 0
      BY <1>11 DEF TextLen
    <3>2. Iss["A"] \in Nat
      BY <1>13, FixedIs DEF Fixed
    <3>3. QED
      BY <1>7, <1>11, <1>14, <2>1, <3>1, <3>2 DEF Covers
  <2>2. QED
    BY <1>10, <2>1 DEF CoverInv, a
<1>26. ASSUME NEW e \in Ends PROVE CoverInv(e)
  BY <1>13, <1>20, <1>25 DEF CoverInv, b
<1>27. ASSUME NEW e \in Ends PROVE PrefixInv(e)
  <2>1. Other(e) \in Ends /\ Stream[e] \in Seq(Bytes)
    BY OtherIs, StreamAssumption
  <2>2. got[Other(e)] = <<>> /\ cb[Other(e)].buf = <<>> /\ Pos(Other(e)) = 0
        /\ SentN(e) = 0 /\ SubSeq(Stream[e], 1, 0) = <<>>
    BY <1>15, <1>16, <1>17, <2>1
  <2>3. <<>> \o <<>> = <<>> /\ <<>> \in Seq(Bytes)
    OBVIOUS
  <2>4. QED
    BY <2>2, <2>3 DEF PrefixInv
<1>28. /\ \A x \in net["B"] : x = s
       /\ net["A"] = {}
  BY <1>2, <1>4, <1>6
<1>29. ASSUME NEW e \in Ends PROVE NetInv(e) /\ AcksInv(e)
  BY <1>11, <1>13, <1>23, <1>28 DEF NetInv, AcksInv, Acking
<1>30. ASSUME NEW e \in Ends PROVE UnaInv(e)
  <2>1. ~Sync(cb[Other(e)])
    BY <1>16, OtherIs
  <2>2. Opened(cb[e]) => cb[e].snd_una = Iss[e]
    BY <1>7, <1>13, <1>20 DEF a, b
  <2>3. QED
    BY <2>1, <2>2 DEF UnaInv
<1>31. ASSUME NEW e \in Ends PROVE CutInv(e)
  <2>1. Texts(e) = {}
    BY <1>10, <1>11, <1>12, <1>13, <1>28 DEF Texts, a, b
  <2>2. QED
    BY <2>1 DEF CutInv
<1>32. QED
  BY <1>2, <1>16, <1>18, <1>19, <1>21, <1>22, <1>24, <1>26, <1>27, <1>29, <1>30, <1>31
     DEF StreamInv, Local, Cross

LEMMA StreamInvHolds ==
    ASSUME Closers = {}
    PROVE  Spec => [](PairTyped /\ GotShape /\ StreamInv)
<1>1. Init => PairTyped /\ GotShape /\ StreamInv
  BY InitTyped, InitStream
<1>2. (PairTyped /\ GotShape /\ StreamInv) /\ [Next]_vars
        => (PairTyped /\ GotShape /\ StreamInv)'
  BY NextTyped, GotNext, NextStream
<1>3. QED
  BY <1>1, <1>2, PTL DEF Spec

-----------------------------------------------------------------------------
(***************************************************************************)
(* What the invariant says to the two applications.                        *)
(***************************************************************************)

\* Without a close there are no other synchronized states than these two.
LEMMA SynchronizedSync ==
    ASSUME StreamInv, NEW e \in Ends, Synchronized(e)
    PROVE  Sync(cb[e]) /\ Opened(cb[e]) /\ ~Early(cb[e])
  BY DEF StreamInv, Local, StateInv, Synchronized, Sync, Opened, Early

\* rcv.wnd is sizeof(window) less the bytes waiting in the window, up to the
\* moment the peer's text goes beyond the window's end: the copies of
\* tcp_event_segment_arrives and of tcp_api_recv, one of which counts down and
\* the other one up, never disagree on what is readable, also while the window
\* fills, is full and is read again.
THEOREM WindowAccountsHolds ==
    ASSUME Closers = {}
    PROVE  Spec => []WindowAccounts
<1>1. PairTyped /\ StreamInv => WindowAccounts
  <2> SUFFICES ASSUME PairTyped, StreamInv, NEW e \in Ends, Synchronized(e),
                      ~Overrun(e)
               PROVE  Len(cb[e].buf) = WinSize - cb[e].rcv_wnd
    BY DEF WindowAccounts
  <2>1. Sync(cb[e])
    BY SynchronizedSync
  <2>2. cb[e].buf \in Seq(Bytes) /\ ~(Len(cb[e].buf) > WinSize)
    BY DEF PairTyped, CbTyped, Overrun
  <2>3. Len(cb[e].buf) <= WinSize
    BY <2>2, WinSizeAssumption
  <2>4. QED
    BY <2>1, <2>3 DEF StreamInv, Local, RcvInv, BufLen
<1>2. QED
  BY <1>1, StreamInvHolds, PTL

LEMMA MinPair ==
    ASSUME NEW a \in Int, NEW b \in Int
    PROVE  Min({a, b}) \in Int /\ Min({a, b}) <= a
<1>1. \E x \in {a, b} : \A y \in {a, b} : x <= y
  OBVIOUS
<1>2. Min({a, b}) \in {a, b} /\ \A y \in {a, b} : Min({a, b}) <= y
  BY <1>1 DEF Min
<1>3. QED
  BY <1>2

\* What one end takes for acknowledged, and has freed, the other end's
\* application has read or finds in the window.
THEOREM AckedDeliveredHolds ==
    ASSUME Closers = {}
    PROVE  Spec => []AckedDelivered
<1>1. PairTyped /\ GotShape /\ StreamInv => AckedDelivered
  <2> SUFFICES ASSUME PairTyped, StreamInv, NEW e \in Ends, Synchronized(e),
                      Synchronized(Other(e))
               PROVE  AckedBytes(e) <= Pos(Other(e))
    BY DEF AckedDelivered, Pos, GotLen, BufLen
  <2> DEFINE o == Other(e)
             n == cb[e].snd_una - Iss[e] - 1
             S == {n, SentN(e)}
  <2>1. o \in Ends /\ Other(o) = e
    BY OtherIs
  <2>2. /\ cb[e].snd_una <= cb[o].rcv_nxt
        /\ cb[o].rcv_nxt = Iss[e] + 1 + Pos(o)
    BY <2>1, SynchronizedSync DEF StreamInv, Local, Cross, UnaInv, RcvInv
  <2>3. cb[e].snd_una \in Nat /\ cb[o].rcv_nxt \in Nat /\ Iss[e] \in Nat
    BY <2>1, EndNums, FixedIs DEF EndTyped, Scalars, Fixed
  <2>4. Pos(o) \in Int
    <3>1. got[o] \in Seq(Bytes)
      BY <2>1 DEF StreamInv, Cross, PrefixInv
    <3>2. GotLen(o) \in Nat
      BY <3>1 DEF GotLen
    <3>3. BufLen(cb[o]) \in Nat
      BY <2>1, EndNums DEF EndTyped, Scalars
    <3>4. QED
      BY <3>2, <3>3 DEF Pos
  <2>5. SentN(e) \in Nat
    BY EndNums, FixedIs DEF EndTyped, Fixed, SentN, StreamInv, Local, RestInv
  <2>6. n \in Int /\ n <= Pos(o)
    BY <2>2, <2>3, <2>4
  <2>7. AckedBytes(e) = Min(S)
    BY DEF AckedBytes, SentN, StreamLen, TodoLen
  <2>8. Min(S) \in Int /\ Min(S) <= n
    BY <2>5, <2>6, MinPair
  <2> HIDE DEF n, S
  <2>9. QED
    BY <2>4, <2>6, <2>7, <2>8
<1>2. QED
  BY <1>1, StreamInvHolds, PTL

\* A SYN counts one, and nothing else does while there is no FIN.
LEMMA FlagCount ==
    ASSUME NEW F, "FIN" \notin F
    PROVE  Cardinality(F \cap {"SYN", "FIN"}) = IF "SYN" \in F THEN 1 ELSE 0
<1>1. CASE "SYN" \in F
  <2>1. F \cap {"SYN", "FIN"} = {"SYN"}
    BY <1>1
  <2>2. QED
    BY <1>1, <2>1, FS_Singleton
<1>2. CASE "SYN" \notin F
  <2>1. F \cap {"SYN", "FIN"} = {}
    BY <1>2
  <2>2. QED
    BY <1>2, <2>1, FS_EmptySet
<1>3. QED
  BY <1>1, <1>2

\* Whatever a call of send has put on the wire and the peer has not acknowledged
\* is still in the queue the timer thread retransmits from, SYN included: no
\* order of ACKs, timeouts and failed calls of ip_tx makes it free too much.
THEOREM UnackedQueuedHolds ==
    ASSUME Closers = {}
    PROVE  Spec => []UnackedQueued
<1>1. StreamInv => UnackedQueued
  <2> SUFFICES ASSUME StreamInv, NEW e \in Ends, Synchronized(e),
                      NEW n \in cb[e].snd_una..(cb[e].snd_nxt - 1)
               PROVE  \E i \in DOMAIN cb[e].txq :
                        LET s == cb[e].txq[i].seg
                        IN  s.seq <= n /\ n < s.seq + Len(s.data)
                                              + Cardinality(s.flg \cap {"SYN", "FIN"})
    BY DEF UnackedQueued
  <2>1. Opened(cb[e])
    BY SynchronizedSync
  <2>2. PICK i \in DOMAIN cb[e].txq : Covers(cb[e].txq[i].seg, n)
    BY <2>1 DEF StreamInv, Local, CoverInv
  <2> DEFINE s == cb[e].txq[i].seg
  <2>3. "FIN" \notin s.flg
    BY <2>2 DEF StreamInv, Local, QueueInv, Carries
  <2> HIDE DEF s
  <2>4. Cardinality(s.flg \cap {"SYN", "FIN"}) = IF "SYN" \in s.flg THEN 1 ELSE 0
    BY <2>3, FlagCount
  <2>5. Covers(s, n)
    BY <2>2 DEF s
  <2>6. s.seq <= n /\ n < s.seq + Len(s.data) + Cardinality(s.flg \cap {"SYN", "FIN"})
    BY <2>4, <2>5 DEF Covers, TextLen
  <2>7. QED
    BY <2>2, <2>6 DEF s
<1>2. QED
  BY <1>1, StreamInvHolds, PTL

-----------------------------------------------------------------------------
(***************************************************************************)
(* The connection implements StreamSpec.  A step moves one end: it sends,  *)
(* receives, reads or aborts there.                                        *)
(***************************************************************************)
Still(e) ==
    cb'[e].buf = cb[e].buf /\ got'[e] = got[e] /\ todo'[e] = todo[e]

LEMMA ApplyStill ==
    ASSUME PairTyped, NEW e \in Ends, NEW r, Apply(e, r), UNCHANGED <<todo, got>>,
           NEW x \in Ends \ {e}
    PROVE  Still(x)
  BY DEF Apply, PairTyped, Still

LEMMA OneMoves ==
    ASSUME Closers = {}, PairTyped, GotShape, [Next]_vars
    PROVE  \E e \in Ends : \A x \in Ends \ {e} : Still(x)
<1>1. ASSUME UNCHANGED <<cb, todo, got>>
      PROVE  \E e \in Ends : \A x \in Ends \ {e} : Still(x)
  BY <1>1 DEF Still, Ends
<1>2. ASSUME NEW e \in Ends,
             \/ SendCall(e) \/ SendWake(e) \/ SendRefused(e) \/ SendWait(e)
             \/ Lose(e)
      PROVE  UNCHANGED <<cb, todo, got>>
  BY <1>2 DEF SendCall, SendWake, SendRefused, SendWait, Lose
<1>3. ASSUME NEW e \in Ends, RecvLoop(e), NEW x \in Ends \ {e} PROVE Still(x)
  <2>1. /\ todo' = todo
        /\ \/ UNCHANGED <<cb, got>>
           \/ \E c, g : cb' = [cb EXCEPT ![e] = c] /\ got' = [got EXCEPT ![e] = g]
    BY <1>3 DEF RecvLoop
  <2>2. QED
    BY <2>1 DEF PairTyped, GotShape, Still
<1>4. ASSUME NEW e \in Ends, NEW ok \in TxOk, SendSegment(e, ok), NEW x \in Ends \ {e}
      PROVE  Still(x)
  <2>1. /\ got' = got
        /\ \E c : cb' = [cb EXCEPT ![e] = c]
        /\ \/ todo' = todo
           \/ \E t : todo' = [todo EXCEPT ![e] = t]
    BY <1>4 DEF SendSegment
  <2>2. QED
    BY <2>1 DEF PairTyped, Still
<1>5. ASSUME NEW e \in Ends, NEW seg, NEW keep, NEW ok, Rx(e, seg, keep, ok),
             NEW x \in Ends \ {e}
      PROVE  Still(x)
  <2> DEFINE r == tcp_event_segment_arrives(cb[e], seg, Iss[e], ok)
  <2>1. UNCHANGED <<todo, got>> /\ (cb' = cb \/ Apply(e, r))
    BY <1>5 DEF Rx
  <2> HIDE DEF r
  <2>2. QED
    BY <2>1, ApplyStill DEF Still
<1>6. ASSUME NEW e \in Ends, TimerPass(e), NEW x \in Ends \ {e} PROVE Still(x)
  BY <1>6, ApplyStill DEF TimerPass
<1>7. ASSUME Accept, NEW x \in Ends \ {"B"} PROVE Still(x)
  <2>1. UNCHANGED <<todo, got>> /\ \E c : cb' = [cb EXCEPT !["B"] = c]
    BY <1>7 DEF Accept
  <2>2. QED
    BY <2>1 DEF PairTyped, Still
<1>8. ASSUME Tick, NEW x \in Ends PROVE Still(x)
  <2>1. UNCHANGED <<todo, got>> /\ cb'[x] = TickCb(cb[x]) /\ CbShape(cb[x])
    BY <1>8 DEF Tick, PairTyped, CbTyped
  <2>2. QED
    BY <2>1 DEF Still, TickCb, CbShape, CbFields
<1>9. ASSUME NEW e \in Ends, NEW ok \in TxOk PROVE ~Close(e, ok)
  BY DEF Close
<1>10. "B" \in Ends
  BY DEF Ends
<1>11. CASE UNCHANGED vars
  BY <1>1, <1>11 DEF vars
<1>12. CASE Next
  <2>1. CASE Accept \/ Tick
    BY <1>7, <1>8, <1>10, <2>1
  <2>2. ASSUME NEW e \in Ends, RecvCall(e) \/ RecvWake(e) \/ Deliver(e) \/ TimerPass(e),
               NEW x \in Ends \ {e}
        PROVE  Still(x)
    BY <1>3, <1>5, <1>6, <2>2 DEF RecvCall, RecvWake, Deliver
  <2>3. QED
    BY <1>1, <1>2, <1>4, <1>9, <1>12, <2>1, <2>2 DEF Next
<1>13. QED
  BY <1>11, <1>12

\* Beginnings of a stream are beginnings of each other.
LEMMA Beginnings ==
    ASSUME NEW S \in Seq(Bytes), NEW m \in Nat, NEW n \in Nat, m <= n, n <= Len(S)
    PROVE  Streams!IsPrefix(SubSeq(S, 1, m), SubSeq(S, 1, n))
<1> DEFINE a == SubSeq(S, 1, m)
           b == SubSeq(S, 1, n)
<1>1. Len(S) \in Nat
  OBVIOUS
<1>2. /\ a \in Seq(Bytes) /\ Len(a) = m /\ \A i \in 1..m : a[i] = S[i]
      /\ b \in Seq(Bytes) /\ Len(b) = n /\ \A i \in 1..n : b[i] = S[i]
  BY <1>1
<1> HIDE DEF a, b
<1> DEFINE c == SubSeq(b, 1, m)
<1>3. c \in Seq(Bytes) /\ Len(c) = m /\ \A i \in 1..m : c[i] = b[i]
  BY <1>2
<1> HIDE DEF c
<1>4. SubSeq(a, 1, m) = a
  BY <1>2, SubSeqFull
<1>5. c = a
  BY <1>2, <1>3
<1>6. QED
  BY <1>2, <1>4, <1>5 DEF Streams!IsPrefix, a, b, c

LEMMA BeginsJoined ==
    ASSUME NEW g \in Seq(Bytes), NEW b \in Seq(Bytes)
    PROVE  Streams!IsPrefix(g, g \o b)
<1>1. /\ g \o b \in Seq(Bytes) /\ Len(g) \in Nat /\ Len(b) \in Nat
      /\ Len(g \o b) = Len(g) + Len(b)
  OBVIOUS
<1> DEFINE x == g \o b
           y == SubSeq(x, 1, Len(g))
<1>2. \A i \in 1..Len(g) : x[i] = g[i]
  OBVIOUS
<1>3. x \in Seq(Bytes) /\ Len(g) <= Len(x)
  BY <1>1
<1> HIDE DEF x
<1>4. y \in Seq(Bytes) /\ Len(y) = Len(g) /\ \A i \in 1..Len(g) : y[i] = x[i]
  BY <1>1, <1>3
<1> HIDE DEF y
<1>5. y = g
  BY <1>2, <1>4
<1>6. SubSeq(g, 1, Len(g)) = g
  BY SubSeqFull
<1>7. QED
  BY <1>3, <1>5, <1>6 DEF Streams!IsPrefix, x, y

-----------------------------------------------------------------------------
(***************************************************************************)
(* The four ways an end moves.                                             *)
(***************************************************************************)
Passes(e) == /\ cb'[e].buf = cb[e].buf /\ got'[e] = got[e]
             /\ SentN(e) <= SentN(e)'
Takes(e) == /\ todo'[e] = todo[e] /\ got'[e] = got[e]
            /\ Pos(e) <= Pos(e)' /\ Pos(e)' <= SentN(Other(e))
Reads(e) == /\ todo'[e] = todo[e]
            /\ got'[e] \o cb'[e].buf = got[e] \o cb[e].buf
            /\ Streams!IsPrefix(got[e], got'[e])
Drops(e) == todo'[e] = todo[e] /\ got'[e] = got[e] /\ cb'[e].buf = <<>>

LEMMA Moves ==
    ASSUME PairTyped, PairTyped', StreamInv, NEW e \in Ends, Kinds(e)
    PROVE  Still(e) \/ Passes(e) \/ Takes(e) \/ Reads(e) \/ Drops(e)
<1>1. CASE OpensUp(e) \/ EstablishesUp(e)
  BY <1>1 DEF OpensUp, EstablishesUp, Opens, Establishes, Still
<1>2. CASE Shuts(e)
  BY <1>2 DEF Shuts, Drops
<1>3. CASE Sends(e)
  <2>1. cb'[e].buf = cb[e].buf /\ got'[e] = got[e]
    BY <1>3 DEF Sends, NoText
  <2>2. PICK f, n : SendsOn(e, f, n)
    BY <1>3 DEF Sends
  <2>3. CASE todo'[e] = todo[e]
    BY <2>1, <2>3 DEF Still
  <2>4. CASE todo'[e] = SubSeq(todo[e], n + 1, TodoLen(e))
    <3>1. n \in 1..TodoLen(e) /\ todo[e] \in Seq(Bytes) /\ TodoLen(e) \in Nat
      BY <2>2, EndNums DEF SendsOn, EndTyped
    <3>2. TodoLen(e)' = TodoLen(e) - n
      BY <2>4, <3>1 DEF TodoLen
    <3>3. SentN(e) <= SentN(e)'
      BY <3>1, <3>2, FixedIs DEF SentN, Fixed
    <3>4. QED
      BY <2>1, <3>3 DEF Passes
  <2>5. QED
    BY <2>2, <2>3, <2>4 DEF SendsOn
<1>4. CASE Advance(e)
  <2>1. RcvStep(e) /\ todo'[e] = todo[e]
    BY <1>4 DEF Advance
  <2>2. CASE NoText(e)
    BY <2>1, <2>2 DEF NoText, Still
  <2>3. CASE ~NoText(e)
    <3>1. Sync(cb[e]) /\ (TextStep(e) \/ ReadStep(e))
      BY <2>1, <2>3 DEF RcvStep, TextStep, ReadStep
    <3>2. /\ cb'[e].rcv_nxt = Iss[Other(e)] + 1 + Pos(e)'
          /\ cb[e].rcv_nxt <= cb'[e].rcv_nxt
          /\ got'[e] \o cb'[e].buf = SubSeq(Stream[Other(e)], 1, Pos(e)')
          /\ Pos(e)' <= SentN(Other(e))
      BY <2>1, <3>1, Received
    <3>3. /\ cb[e].rcv_nxt = Iss[Other(e)] + 1 + Pos(e)
          /\ BufLen(cb[e]) = WinSize - cb[e].rcv_wnd
      BY <3>1 DEF StreamInv, Local, RcvInv, TextStep, ReadStep
    <3>4. Other(e) \in Ends /\ Other(Other(e)) = e
      BY OtherIs
    <3>5. got[e] \in Seq(Bytes) /\ cb[e].buf \in Seq(Bytes)
      BY <3>4, EndNums DEF StreamInv, Cross, PrefixInv, EndTyped, QueueTyped
    <3>6. Iss[Other(e)] \in Nat /\ Pos(e) \in Int
      <4>1. GotLen(e) \in Nat
        BY <3>5 DEF GotLen
      <4>2. BufLen(cb[e]) \in Nat
        BY <3>5 DEF BufLen
      <4>3. QED
        BY <3>4, <4>1, <4>2, FixedIs DEF Pos, Fixed
    <3>7. CASE TextStep(e)
      <4>1. Pos(e)' \in Int
        <5>1. got'[e] = got[e]
          BY <3>7 DEF TextStep
        <5>2. GotLen(e)' \in Nat
          BY <3>5, <5>1 DEF GotLen
        <5>3. cb'[e].buf \in Seq(Bytes)
          BY DEF PairTyped, CbTyped
        <5>4. BufLen(cb'[e]) \in Nat
          BY <5>3 DEF BufLen
        <5>5. QED
          BY <5>2, <5>4 DEF Pos
      <4>2. Pos(e) <= Pos(e)'
        BY <3>2, <3>3, <3>6, <4>1
      <4>3. QED
        BY <2>1, <3>2, <3>7, <4>2 DEF Takes, TextStep
    <3>8. CASE ReadStep(e)
      <4>1. PICK len \in 0..(WinSize - cb[e].rcv_wnd) :
              /\ got'[e] = got[e] \o SubSeq(cb[e].buf, 1, len)
              /\ cb'[e].buf = SubSeq(cb[e].buf, len + 1, BufLen(cb[e]))
        BY <3>8 DEF ReadStep
      <4>2. len \in 0..Len(cb[e].buf)
        BY <3>3, <4>1 DEF BufLen
      <4>3. got'[e] \o cb'[e].buf = got[e] \o cb[e].buf
        <5> DEFINE g == got[e]
                   b == cb[e].buf
        <5>1. g \in Seq(Bytes) /\ b \in Seq(Bytes) /\ len \in 0..Len(b)
          BY <3>5, <4>2
        <5>2. got'[e] = g \o SubSeq(b, 1, len) /\ cb'[e].buf = SubSeq(b, len + 1, Len(b))
          BY <4>1 DEF BufLen
        <5> HIDE DEF g, b
        <5>3. (g \o SubSeq(b, 1, len)) \o SubSeq(b, len + 1, Len(b)) = g \o b
          BY <5>1, Shorten
        <5>4. QED
          BY <5>2, <5>3 DEF g, b
      <4>4. SubSeq(cb[e].buf, 1, len) \in Seq(Bytes)
        BY <3>5, <4>2
      <4>5. Streams!IsPrefix(got[e], got'[e])
        BY <3>5, <4>1, <4>4, BeginsJoined
      <4>6. QED
        BY <2>1, <4>3, <4>5 DEF Reads
    <3>9. QED
      BY <3>1, <3>7, <3>8
  <2>4. QED
    BY <2>2, <2>3
<1>5. QED
  BY <1>1, <1>2, <1>3, <1>4 DEF Kinds

\* The state of StreamSpec.
Sents == [e \in Ends |-> SubSeq(Stream[e], 1, Len(Stream[e]) - Len(todo[e]))]
Recvs == [e \in Ends |-> got[e] \o cb[e].buf]
Eofs == [e \in Ends |-> cb[e].state = "CLOSE_WAIT"]

LEMMA NoEof ==
    ASSUME StreamInv
    PROVE  Eofs = [e \in Ends |-> FALSE]
<1>1. \A e \in Ends : (cb[e].state = "CLOSE_WAIT") = FALSE
  BY DEF StreamInv, Local, StateInv
<1>2. QED
  BY <1>1 DEF Eofs

View(e) ==
    /\ Sents[e] = SubSeq(Stream[e], 1, SentN(e))
    /\ Recvs[e] = SubSeq(Stream[Other(e)], 1, Pos(e))
    /\ SentN(e) \in 0..StreamLen(e) /\ Pos(e) \in 0..SentN(Other(e))
    /\ got[e] \in Seq(Bytes) /\ cb[e].buf \in Seq(Bytes)

LEMMA StreamStates ==
    ASSUME PairTyped, StreamInv, NEW e \in Ends
    PROVE  View(e)
<1>1. Other(e) \in Ends /\ Other(Other(e)) = e /\ Stream[e] \in Seq(Bytes)
  BY OtherIs, StreamAssumption
<1>2. Sents[e] = SubSeq(Stream[e], 1, SentN(e)) /\ Recvs[e] = got[e] \o cb[e].buf
  BY DEF Sents, Recvs, SentN, StreamLen, TodoLen
<1>3. ASSUME NEW x \in Ends PROVE SentN(x) \in 0..StreamLen(x)
  BY EndNums, FixedIs DEF EndTyped, Fixed, SentN, StreamInv, Local, RestInv
<1>4. /\ got[e] \in Seq(Bytes) /\ got[e] \o cb[e].buf = SubSeq(Stream[Other(e)], 1, Pos(e))
      /\ Pos(e) <= SentN(Other(e))
  BY <1>1 DEF StreamInv, Cross, PrefixInv
<1>5. cb[e].buf \in Seq(Bytes)
  BY EndNums DEF EndTyped, QueueTyped
<1>6. Pos(e) \in Nat
  <2>1. GotLen(e) \in Nat
    BY <1>4 DEF GotLen
  <2>2. BufLen(cb[e]) \in Nat
    BY <1>5 DEF BufLen
  <2>3. QED
    BY <2>1, <2>2 DEF Pos
<1>7. SentN(e) \in 0..StreamLen(e) /\ SentN(Other(e)) \in 0..StreamLen(Other(e))
  BY <1>1, <1>3
<1>8. Pos(e) \in 0..SentN(Other(e))
  BY <1>1, <1>4, <1>6, <1>7, FixedIs DEF Fixed
<1>9. QED
  BY <1>1, <1>2, <1>4, <1>5, <1>7, <1>8 DEF View

Views == Eofs = [e \in Ends |-> FALSE] /\ \A e \in Ends : View(e)

LEMMA ViewsHold == PairTyped /\ StreamInv => Views
  BY NoEof, StreamStates DEF Views

LEMMA ViewsNext == PairTyped' /\ StreamInv' => Views'
  BY ViewsHold, PTL

\* What stays at an end stays in its view.
LEMMA StillViews ==
    ASSUME NEW x \in Ends
    PROVE  /\ todo'[x] = todo[x] => Sents'[x] = Sents[x]
           /\ got'[x] = got[x] /\ cb'[x].buf = cb[x].buf => Recvs'[x] = Recvs[x]
  BY DEF Sents, Recvs

LEMMA ViewsEqual ==
    /\ (\A x \in Ends : Sents'[x] = Sents[x]) => Sents' = Sents
    /\ (\A x \in Ends : Recvs'[x] = Recvs[x]) => Recvs' = Recvs
    /\ GotShape /\ GotShape' /\ (\A x \in Ends : got'[x] = got[x]) => got' = got
  BY DEF Sents, Recvs, GotShape

LEMMA StepImplements ==
    ASSUME Closers = {}, PairTyped, GotShape, StreamInv, [Next]_vars
    PROVE  [Streams!Next]_(Streams!vars)
<1>1. PairTyped' /\ GotShape' /\ StreamInv'
  BY NextTyped, GotNext, NextStream
<1>2. PICK e \in Ends : \A x \in Ends \ {e} : Still(x)
  BY OneMoves
<1>3. Still(e) \/ Passes(e) \/ Takes(e) \/ Reads(e) \/ Drops(e)
  BY <1>1, NextKinds, Moves
<1>4. /\ Eofs = [x \in Ends |-> FALSE] /\ Eofs' = [x \in Ends |-> FALSE]
  BY <1>1, ViewsHold, ViewsNext DEF Views
<1>5. \A x \in Ends \ {e} :
        /\ todo'[x] = todo[x] /\ got'[x] = got[x] /\ cb'[x].buf = cb[x].buf
        /\ Sents'[x] = Sents[x] /\ Recvs'[x] = Recvs[x]
  BY <1>2, StillViews DEF Still
<1>6. Other(e) \in Ends \ {e} /\ Other(Other(e)) = e
  BY OtherIs
<1>7. Eofs' = Eofs
  BY <1>4
<1>8. /\ Stream[e] \in Seq(Bytes) /\ Stream[Other(e)] \in Seq(Bytes)
      /\ Len(Stream[e]) \in Nat /\ Len(Stream[Other(e)]) \in Nat
  BY <1>6, StreamAssumption
<1>9. todo'[e] = todo[e] => Sents' = Sents
  BY <1>5, StillViews, ViewsEqual
<1>10. got'[e] = got[e] => got' = got
  BY <1>1, <1>5, ViewsEqual
<1>11. Recvs'[e] = Recvs[e] => Recvs' = Recvs
  BY <1>5, ViewsEqual
<1>12. CASE Still(e)
  <2>1. Sents' = Sents /\ Recvs' = Recvs /\ got' = got
    BY <1>9, <1>10, <1>11, <1>12, StillViews DEF Still
  <2>2. QED
    BY <1>7, <2>1 DEF Streams!vars, Sents, Recvs, Eofs
<1>13. View(e) /\ View(e)'
  BY <1>1, ViewsHold, ViewsNext DEF Views
<1>14. CASE Passes(e)
  <2>1. Recvs' = Recvs /\ got' = got
    BY <1>10, <1>11, <1>14, StillViews DEF Passes
  <2>2. Streams!IsPrefix(Sents[e], Sents'[e])
    BY <1>8, <1>13, <1>14, Beginnings DEF View, Passes, StreamLen
  <2>3. Streams!Grows(Sents, Sents', e)
    BY <1>5, <2>2 DEF Streams!Grows
  <2>4. ~Eofs[Other(e)]
    BY <1>4, <1>6
  <2>5. Streams!Send(e)
    BY <1>7, <2>1, <2>3, <2>4 DEF Streams!Send, Sents, Recvs, Eofs
  <2>6. QED
    BY <2>5 DEF Streams!Next
<1>15. CASE Takes(e)
  <2> DEFINE o == Other(e)
             S == Stream[o]
  <2>1. Sents' = Sents /\ got' = got
    BY <1>9, <1>10, <1>15 DEF Takes
  <2>2. /\ Recvs[e] = SubSeq(S, 1, Pos(e)) /\ Recvs'[e] = SubSeq(S, 1, Pos(e)')
        /\ Pos(e) \in Nat /\ Pos(e)' \in Nat
        /\ Pos(e) <= Pos(e)' /\ Pos(e)' <= SentN(o)
    BY <1>13, <1>15 DEF View, Takes
  <2>3. View(o)
    BY <1>6, ViewsHold DEF Views
  <2>4. Sents[o] = SubSeq(S, 1, SentN(o)) /\ SentN(o) \in 0..Len(S)
    BY <2>3 DEF View, StreamLen
  <2>5. Streams!IsPrefix(Recvs[e], Recvs'[e])
    BY <1>8, <2>2, <2>4, Beginnings
  <2>6. Streams!IsPrefix(Recvs'[e], Sents[o])
    BY <1>8, <2>2, <2>4, Beginnings
  <2>7. Streams!Grows(Recvs, Recvs', e)
    BY <1>5, <2>5 DEF Streams!Grows
  <2>8. Streams!Receive(e)
    BY <1>7, <2>1, <2>6, <2>7 DEF Streams!Receive, Sents, Recvs, Eofs
  <2>9. QED
    BY <2>8 DEF Streams!Next
<1>16. CASE Reads(e)
  <2>1. Sents' = Sents /\ Recvs' = Recvs
    BY <1>9, <1>11, <1>16 DEF Reads, Recvs
  <2>2. Streams!Grows(got, got', e)
    BY <1>5, <1>16 DEF Streams!Grows, Reads
  <2>3. Streams!IsPrefix(got'[e], got'[e] \o cb'[e].buf)
    BY <1>13, BeginsJoined DEF View
  <2>4. Recvs'[e] = got'[e] \o cb'[e].buf
    BY DEF Recvs
  <2>5. Streams!IsPrefix(got'[e], Recvs[e])
    BY <2>1, <2>3, <2>4
  <2>6. Streams!Read(e)
    BY <1>7, <2>1, <2>2, <2>5 DEF Streams!Read, Sents, Recvs, Eofs
  <2>7. QED
    BY <2>6 DEF Streams!Next
<1>17. CASE Drops(e)
  <2>1. Sents' = Sents /\ got' = got
    BY <1>9, <1>10, <1>17 DEF Drops
  <2>2. Recvs'[e] = got[e]
    <3>1. Recvs'[e] = got[e] \o <<>>
      BY <1>17 DEF Drops, Recvs
    <3>2. got[e] \in Seq(Bytes)
      BY <1>13 DEF View
    <3>3. got[e] \o <<>> = got[e]
      BY <3>2
    <3>4. QED
      BY <3>1, <3>3
  <2>3. Recvs' = [Recvs EXCEPT ![e] = got[e]]
    <3>1. /\ Recvs = [x \in Ends |-> Recvs[x]] /\ Recvs' = [x \in Ends |-> Recvs'[x]]
      BY DEF Recvs
    <3> HIDE DEF Recvs
    <3>2. QED
      BY <1>5, <2>2, <3>1
  <2>4. Eofs' = [Eofs EXCEPT ![e] = FALSE]
    BY <1>4
  <2>5. Streams!Abort(e)
    BY <2>1, <2>3, <2>4 DEF Streams!Abort, Sents, Recvs, Eofs
  <2>6. QED
    BY <2>5 DEF Streams!Next
<1>18. QED
  BY <1>3, <1>12, <1>14, <1>15, <1>16, <1>17

LEMMA InitImplements ==
    ASSUME Init
    PROVE  Streams!Init
<1>1. PairTyped /\ StreamInv
  BY InitTyped, InitStream
<1>2. Eofs = [e \in Ends |-> FALSE]
  BY <1>1, NoEof
<1>3. ASSUME NEW e \in Ends PROVE Sents[e] = <<>>
  <2>1. todo[e] = Stream[e] /\ Stream[e] \in Seq(Bytes)
    BY StreamAssumption DEF Init
  <2>2. Len(Stream[e]) - Len(todo[e]) = 0
    BY <2>1
  <2>3. Sents[e] = SubSeq(Stream[e], 1, 0)
    BY <2>2 DEF Sents
  <2>4. QED
    BY <2>1, <2>3
<1>4. ASSUME NEW e \in Ends PROVE Recvs[e] = <<>>
  <2>1. Early(cb[e])
    BY InitStream
  <2>2. got[e] = <<>> /\ cb[e].buf = <<>>
    BY <1>1, <2>1 DEF StreamInv, Local, StateInv
  <2>3. QED
    BY <2>2 DEF Recvs
<1>5. Sents = [e \in Ends |-> <<>>] /\ Recvs = [e \in Ends |-> <<>>]
  BY <1>3, <1>4 DEF Sents, Recvs
<1>6. got = [e \in Ends |-> <<>>]
  BY DEF Init
<1>7. QED
  BY <1>2, <1>5, <1>6 DEF Streams!Init, Sents, Recvs, Eofs

\* Two ends running this code, over a network that loses, repeats and reorders,
\* are a byte stream each way: every step of the threads, the timers and the
\* network is a step of StreamSpec, and what recv returns is what send was
\* given, in order and once, whatever is retransmitted and however the
\* connection ends.  The streams may be longer than the window; what an end does
\* after its window was overrun is not part of this.
THEOREM StreamRefinement ==
    ASSUME Closers = {}
    PROVE  Spec => ImplementsStream
<1>1. Init => Streams!Init
  BY InitImplements
<1>2. (PairTyped /\ GotShape /\ StreamInv) /\ [Next]_vars
        => [Streams!Next]_(Streams!vars)
  BY StepImplements
<1>3. QED
  BY <1>1, <1>2, StreamInvHolds, PTL DEF Spec, ImplementsStream, Streams!Spec
=============================================================================
