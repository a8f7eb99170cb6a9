---------------------------- MODULE TcpHostProofs ----------------------------
(***************************************************************************)
(* Type correctness and SndInv of TcpHost, for every table size, every set *)
(* of threads, peers and ports and every set of data-free segments.        *)
(*                                                                         *)
(* The control blocks are handled by pure operators, so the proof is a     *)
(* lemma per operator: given a control block that satisfies CbInv, the one *)
(* it returns satisfies CbInv.  The steps of TcpHost then only move such   *)
(* control blocks around.  No part of CbInv depends on the transmission    *)
(* queue (txq, txq.snt), whose type is a second invariant.                 *)
(***************************************************************************)
EXTENDS TcpHost, TcpCbProofs

\* The inductive invariant of one control block.  iss is bounded whenever it
\* is set, also in a CLOSED control block a failed connect has left it in.
CbInv(cb) ==
    /\ CbShape(cb) /\ CbTypeOK(cb) /\ SndOK(cb)
    /\ cb.iss + 2 < SeqSpace

\* A handler's result: a push is only asked for a control block with a parent.
ResInv(r) == CbInv(r.cb) /\ r.push \in BOOLEAN
                /\ (r.push => r.cb.parent # NoParent)

-----------------------------------------------------------------------------
\* Sequence number arithmetic stays in range, and does not wrap below the end.
LEMMA SeqAddRange ==
    ASSUME NEW a \in SeqNos, NEW n \in Nat, n < SeqSpace
    PROVE  /\ SeqAdd(a, n) \in SeqNos
           /\ a + n < SeqSpace => SeqAdd(a, n) = a + n
  BY SeqSpaceAssumption DEF SeqAdd, SeqNos

LEMMA AlikeInv ==
    ASSUME NEW c, CbInv(c), NEW d, Alike(c, d)
    PROVE  CbInv(d) /\ d.parent = c.parent
<1>1. /\ d.used = c.used /\ d.state = c.state /\ d.port = c.port
      /\ d.peer = c.peer /\ d.snd_nxt = c.snd_nxt /\ d.snd_una = c.snd_una
      /\ d.snd_wl1 = c.snd_wl1 /\ d.snd_wl2 = c.snd_wl2
      /\ d.snd_wnd = c.snd_wnd /\ d.iss = c.iss /\ d.rcv_nxt = c.rcv_nxt
      /\ d.rcv_wnd = c.rcv_wnd /\ d.buf = c.buf /\ d.parent = c.parent
      /\ d.backlog = c.backlog /\ d.left = c.left
  BY DEF Alike, CbFields
<1>2. QED
  BY <1>1 DEF CbInv, CbTypeOK, SndOK, Alike

LEMMA TxInv ==
    ASSUME NEW r, ResInv(r), NEW seq, NEW ack, NEW flg, NEW data, NEW ok
    PROVE  ResInv(tcp_tx(r, seq, ack, flg, data, ok))
  BY TxAlike, AlikeInv DEF ResInv, CbInv

\* tcp_close_cb forgets the connection and keeps the rest.
LEMMA CloseCbInv ==
    ASSUME NEW cb, CbInv(cb)
    PROVE  /\ CbInv(tcp_close_cb(cb))
           /\ tcp_close_cb(cb).parent = cb.parent
<1>1. CbShape(tcp_close_cb(cb))
  BY DEF CbInv, CbShape, CbFields, tcp_close_cb
<1>2. /\ tcp_close_cb(cb).used = cb.used /\ tcp_close_cb(cb).state = "CLOSED"
      /\ tcp_close_cb(cb).port = cb.port /\ tcp_close_cb(cb).peer = cb.peer
      /\ tcp_close_cb(cb).parent = cb.parent
      /\ tcp_close_cb(cb).backlog = cb.backlog
      /\ tcp_close_cb(cb).left = cb.left /\ tcp_close_cb(cb).buf = <<>>
      /\ tcp_close_cb(cb).snd_nxt = 0 /\ tcp_close_cb(cb).snd_una = 0
      /\ tcp_close_cb(cb).snd_wl1 = 0 /\ tcp_close_cb(cb).snd_wl2 = 0
      /\ tcp_close_cb(cb).snd_wnd = 0 /\ tcp_close_cb(cb).iss = 0
      /\ tcp_close_cb(cb).rcv_nxt = 0 /\ tcp_close_cb(cb).rcv_wnd = 0
  BY DEF CbInv, CbShape, CbFields, tcp_close_cb
<1>3. CbTypeOK(tcp_close_cb(cb))
  BY <1>2, SeqSpaceAssumption, WinSizeAssumption
  DEF CbInv, CbTypeOK, SeqNos, Wnds, States
<1>4. SndOK(tcp_close_cb(cb)) /\ tcp_close_cb(cb).iss + 2 < SeqSpace
  BY <1>2, SeqSpaceAssumption DEF SndOK, PreFin, PostFin
<1>5. QED
  BY <1>1, <1>2, <1>3, <1>4 DEF CbInv

-----------------------------------------------------------------------------
(***************************************************************************)
(* The ways a handler's result is put together.                            *)
(***************************************************************************)
LEMMA ResultInv ==
    ASSUME NEW cb, CbInv(cb)
    PROVE  ResInv(Result(cb)) /\ Result(cb).cb = cb /\ ~Result(cb).push
  BY DEF ResInv, Result

LEMMA WithInv ==
    ASSUME NEW r, ResInv(r), NEW cb, CbInv(cb), cb.parent = r.cb.parent
    PROVE  ResInv(With(r, cb))
  BY DEF ResInv, With

LEMMA NotifiedInv ==
    ASSUME NEW r, ResInv(r)
    PROVE  ResInv(Broadcast(r)) /\ ResInv(Signal(r))
  BY DEF ResInv, Broadcast, Signal, Notified

LEMMA SendAckInv ==
    ASSUME NEW r, ResInv(r), NEW ok
    PROVE  /\ ResInv(SendAck(r, ok))
           /\ SendAck(r, ok).cb.state = r.cb.state
           /\ SendAck(r, ok).cb.parent = r.cb.parent
<1>1. ResInv(SendAck(r, ok))
  BY TxInv DEF SendAck
<1>2. Alike(r.cb, SendAck(r, ok).cb)
  BY TxAlike DEF SendAck, ResInv, CbInv
<1>3. QED
  BY <1>1, <1>2 DEF Alike, CbFields

LEMMA CloseResInv ==
    ASSUME NEW r, ResInv(r)
    PROVE  ResInv(CloseCb(r))
  BY CloseCbInv, WithInv DEF CloseCb, ResInv

\* A new rcv.nxt.
LEMMA RcvNxtInv ==
    ASSUME NEW cb, CbInv(cb), NEW n \in SeqNos
    PROVE  LET d == [cb EXCEPT !.rcv_nxt = n]
           IN  CbInv(d) /\ d.parent = cb.parent /\ d.state = cb.state
<1> DEFINE d == [cb EXCEPT !.rcv_nxt = n]
<1>1. CbShape(d)
  BY DEF CbInv, CbShape, CbFields
<1>2. \A f \in CbFields \ {"rcv_nxt"} : d[f] = cb[f]
  BY DEF CbInv, CbShape, CbFields
<1>3. d.rcv_nxt = n
  BY DEF CbInv, CbShape, CbFields
<1> HIDE DEF d
<1>4. CbInv(d)
  BY <1>1, <1>2, <1>3 DEF CbInv, CbTypeOK, SndOK, CbFields
<1>5. QED
  BY <1>2, <1>4 DEF CbFields, d

\* SameSide: states between which snd.nxt - iss does not change.
SameSide(s, t) ==
    \/ s = t
    \/ s \in PreFin /\ t \in PreFin
    \/ s \in PostFin /\ t \in PostFin

\* A new state on the same side, and a new timeout.
LEMMA StateInv ==
    ASSUME NEW cb, CbInv(cb), NEW s \in States, SameSide(cb.state, s),
           NEW l \in Nat
    PROVE  LET d == [cb EXCEPT !.state = s, !.left = l]
           IN  CbInv(d) /\ d.parent = cb.parent
<1> DEFINE d == [cb EXCEPT !.state = s, !.left = l]
<1>1. CbShape(d)
  BY DEF CbInv, CbShape, CbFields
<1>2. \A f \in CbFields \ {"state", "left"} : d[f] = cb[f]
  BY DEF CbInv, CbShape, CbFields
<1>3. d.state = s /\ d.left = l
  BY DEF CbInv, CbShape, CbFields
<1> HIDE DEF d
<1>4. CbTypeOK(d)
  BY <1>2, <1>3 DEF CbInv, CbTypeOK, CbFields
<1>5. SndOK(d) /\ d.iss + 2 < SeqSpace
  BY <1>2, <1>3 DEF CbInv, SndOK, CbFields, SameSide, PreFin, PostFin
<1>6. QED
  BY <1>1, <1>2, <1>4, <1>5 DEF CbInv, CbFields, d

-----------------------------------------------------------------------------
(***************************************************************************)
(* tcp_event_segment_arrives on a segment without data.                    *)
(***************************************************************************)
SegOK(seg) ==
    /\ seg.seq \in SeqNos /\ seg.ack \in SeqNos /\ seg.win \in Wnds
    /\ seg.flg \subseteq Flags /\ seg.data = <<>>
    /\ "ACK" \notin seg.flg => seg.ack = 0

LEMMA TextInv ==
    ASSUME NEW r, ResInv(r), NEW seg, SegOK(seg), NEW ok
    PROVE  ResInv(SegmentText(r, seg, ok))
  BY SendAckInv, NotifiedInv DEF SegmentText, SegOK

LEMMA FinInv ==
    ASSUME NEW r, ResInv(r), NEW seg, SegOK(seg), NEW ok
    PROVE  ResInv(SegmentFin(r, seg, ok))
<1> DEFINE c0 == [r.cb EXCEPT !.rcv_nxt = SeqAdd(seg.seq, 1)]
           acked == SendAck(With(r, c0), ok)
           next  == CASE r.cb.state \in {"SYN_RCVD", "ESTABLISHED"} -> "CLOSE_WAIT"
                      [] r.cb.state = "FIN_WAIT1" -> "CLOSING"
                      [] r.cb.state = "FIN_WAIT2" -> "TIME_WAIT"
                      [] OTHER -> r.cb.state
           left  == IF next = "TIME_WAIT" THEN TimeWaitTimeout + 1
                    ELSE acked.cb.left
<1>1. SeqAdd(seg.seq, 1) \in SeqNos
  BY SeqAddRange, SeqSpaceAssumption DEF SegOK
<1>2. CbInv(c0) /\ c0.parent = r.cb.parent /\ c0.state = r.cb.state
  BY <1>1, RcvNxtInv DEF ResInv
<1>3. ResInv(With(r, c0)) /\ With(r, c0).cb = c0
  BY <1>2, WithInv DEF With
<1>4. ResInv(acked) /\ acked.cb.state = r.cb.state
  <2> DEFINE w == With(r, c0)
  <2>1. ResInv(w) /\ w.cb.state = r.cb.state
    <3> HIDE DEF c0
    <3> QED
      BY <1>2, <1>3
  <2> HIDE DEF w
  <2>2. ResInv(SendAck(w, ok)) /\ SendAck(w, ok).cb.state = r.cb.state
    BY <2>1, SendAckInv
  <2>3. QED
    BY <2>2 DEF w
<1>5. next \in States /\ SameSide(r.cb.state, next)
  BY DEF ResInv, CbInv, CbTypeOK, States, SameSide, PreFin, PostFin
<1>6. left \in Nat
  BY <1>4, TimeoutAssumption DEF ResInv, CbInv, CbTypeOK
<1> DEFINE d == [acked.cb EXCEPT !.state = next, !.left = left]
<1>7. CbInv(d) /\ d.parent = acked.cb.parent
  <2> HIDE DEF acked, next, left
  <2> QED
    BY <1>4, <1>5, <1>6, StateInv DEF ResInv
<1>8. ResInv(With(acked, d))
  <2> HIDE DEF acked, d
  <2> QED
    BY <1>4, <1>7, WithInv
<1>9. FinReceived(r, seg, ok) = With(acked, d)
  <2>1. [acked.cb EXCEPT !.state = next,
                         !.left = IF next = "TIME_WAIT"
                                  THEN TimeWaitTimeout + 1 ELSE @] = d
    <3> HIDE DEF acked, next
    <3> QED
      BY <1>4 DEF ResInv, CbInv, CbShape, CbFields
  <2> QED
    BY <2>1 DEF FinReceived
<1>10. QED
  BY <1>8, <1>9, NotifiedInv DEF SegmentFin

LEMMA TextAndFinInv ==
    ASSUME NEW r, ResInv(r), NEW seg, SegOK(seg), NEW ok
    PROVE  ResInv(TextAndFin(r, seg, ok))
  BY TextInv, FinInv DEF TextAndFin

LEMMA ClosedInv ==
    ASSUME NEW cb, CbInv(cb), NEW seg, SegOK(seg), NEW ok
    PROVE  ResInv(ArrivesClosed(cb, seg, ok))
  BY ResultInv, TxInv DEF ArrivesClosed

\* iss is chosen while no connection is open, with any window and rcv.nxt.
LEMMA IssInv ==
    ASSUME NEW cb, CbInv(cb), cb.state \in {"CLOSED", "LISTEN"},
           NEW iss \in IssSet, NEW n \in SeqNos
    PROVE  LET d == [cb EXCEPT !.rcv_wnd = WinSize, !.rcv_nxt = n, !.iss = iss]
           IN  CbInv(d) /\ d.iss = iss
<1> DEFINE d == [cb EXCEPT !.rcv_wnd = WinSize, !.rcv_nxt = n, !.iss = iss]
<1>1. CbShape(d)
  BY DEF CbInv, CbShape, CbFields
<1>2. \A f \in CbFields \ {"rcv_wnd", "rcv_nxt", "iss"} : d[f] = cb[f]
  BY DEF CbInv, CbShape, CbFields
<1>3. d.rcv_wnd = WinSize /\ d.rcv_nxt = n /\ d.iss = iss
  BY DEF CbInv, CbShape, CbFields
<1> HIDE DEF d
<1>4. iss \in SeqNos /\ WinSize \in Wnds
  BY IssAssumption, WinSizeAssumption, SeqSpaceAssumption DEF SeqNos, Wnds
<1>5. CbTypeOK(d)
  BY <1>2, <1>3, <1>4 DEF CbInv, CbTypeOK, CbFields
<1>6. SndOK(d) /\ d.iss + 2 < SeqSpace
  BY <1>2, <1>3, IssAssumption DEF CbInv, SndOK, CbFields, PreFin, PostFin
<1>7. QED
  BY <1>1, <1>3, <1>5, <1>6 DEF CbInv, d

\* The SYN takes a sequence number.
SynTaken(cb, iss, s) ==
    [cb EXCEPT !.snd_nxt = SeqAdd(iss, 1), !.snd_una = iss,
               !.left = UserTimeout + 1, !.state = s]

LEMMA SynInv ==
    ASSUME NEW cb, CbInv(cb), NEW iss \in IssSet, cb.iss = iss,
           NEW s \in PreFin
    PROVE  /\ CbInv(SynTaken(cb, iss, s))
           /\ SynTaken(cb, iss, s).parent = cb.parent
<1> DEFINE d == SynTaken(cb, iss, s)
<1>1. CbShape(d)
  BY DEF CbInv, CbShape, CbFields, SynTaken
<1>2. \A f \in CbFields \ {"snd_nxt", "snd_una", "left", "state"} : d[f] = cb[f]
  BY DEF CbInv, CbShape, CbFields, SynTaken
<1>3. d.snd_nxt = SeqAdd(iss, 1) /\ d.snd_una = iss
        /\ d.left = UserTimeout + 1 /\ d.state = s
  BY DEF CbInv, CbShape, CbFields, SynTaken
<1> HIDE DEF d
<1>4. iss \in SeqNos /\ iss + 2 < SeqSpace /\ SeqAdd(iss, 1) = iss + 1
        /\ SeqAdd(iss, 1) \in SeqNos
  BY IssAssumption, SeqSpaceAssumption DEF SeqNos, SeqAdd
<1>5. CbTypeOK(d)
  BY <1>2, <1>3, <1>4, TimeoutAssumption
  DEF CbInv, CbTypeOK, CbFields, PreFin, States
<1>6. SndOK(d) /\ d.iss + 2 < SeqSpace
  BY <1>2, <1>3, <1>4 DEF SndOK, CbFields, PreFin, PostFin, SeqNos
<1>7. QED
  BY <1>1, <1>2, <1>5, <1>6 DEF CbInv, CbFields, d

\* A control block without a parent.
LEMMA OrphanInv ==
    ASSUME NEW cb, CbInv(cb)
    PROVE  CbInv([cb EXCEPT !.parent = NoParent])
<1> DEFINE d == [cb EXCEPT !.parent = NoParent]
<1>1. CbShape(d) /\ d.parent = NoParent
  BY DEF CbInv, CbShape, CbFields
<1>2. \A f \in CbFields \ {"parent"} : d[f] = cb[f]
  BY DEF CbInv, CbShape, CbFields
<1> HIDE DEF d
<1>3. CbTypeOK(d)
  BY <1>1, <1>2, HostAssumption DEF CbInv, CbTypeOK, CbFields, NoParent
<1>4. SndOK(d) /\ d.iss + 2 < SeqSpace
  BY <1>2 DEF CbInv, SndOK, CbFields
<1>5. QED
  BY <1>1, <1>3, <1>4 DEF CbInv, d

LEMMA ListenInv ==
    ASSUME NEW cb, CbInv(cb), cb.state = "LISTEN", NEW seg, SegOK(seg),
           NEW iss \in IssSet, NEW ok
    PROVE  ResInv(ArrivesListen(cb, seg, iss, ok))
<1> DEFINE reset == IF "ACK" \in seg.flg /\ "RST" \notin seg.flg
                    THEN tcp_tx(Result(cb), seg.ack, 0, {"RST"}, <<>>, ok)
                    ELSE Result(cb)
           ready == [cb EXCEPT !.rcv_wnd = WinSize,
                               !.rcv_nxt = SeqAdd(seg.seq, 1), !.iss = iss]
           synack == tcp_tx(Result(ready), iss, ready.rcv_nxt, {"SYN", "ACK"},
                            <<>>, ok)
           d == [synack.cb EXCEPT !.snd_nxt = SeqAdd(iss, 1), !.snd_una = iss,
                                  !.left = UserTimeout + 1, !.state = "SYN_RCVD"]
           refused == [tcp_close_cb(reset.cb) EXCEPT !.parent = NoParent]
<1>1. ResInv(TextAndFin(With(synack, d), seg, ok))
  <2>1. SeqAdd(seg.seq, 1) \in SeqNos
    BY SeqAddRange, SeqSpaceAssumption DEF SegOK
  <2>2. CbInv(ready) /\ ready.iss = iss
    BY <2>1, IssInv
  <2> HIDE DEF ready
  <2>3. ResInv(Result(ready)) /\ Result(ready).cb = ready
    BY <2>2, ResultInv
  <2>4. ResInv(synack)
    BY <2>3, TxInv
  <2>5. Alike(ready, synack.cb)
    BY <2>2, <2>3, TxAlike DEF CbInv
  <2>6. synack.cb.iss = iss
    BY <2>2, <2>5 DEF Alike, CbFields
  <2> HIDE DEF synack
  <2>7. "SYN_RCVD" \in PreFin /\ CbInv(synack.cb)
    BY <2>4 DEF PreFin, ResInv
  <2>8. CbInv(d) /\ d.parent = synack.cb.parent
    <3>1. d = SynTaken(synack.cb, iss, "SYN_RCVD")
      BY DEF SynTaken
    <3>2. QED
      BY <2>6, <2>7, <3>1, SynInv
  <2> HIDE DEF d
  <2>9. QED
    BY <2>4, <2>8, WithInv, TextAndFinInv
<1>2. ResInv(Broadcast(With(reset, refused)))
  <2>1. ResInv(reset)
    BY ResultInv, TxInv
  <2>2. ~reset.push
    BY ResultInv, TxAlike DEF CbInv
  <2> HIDE DEF reset
  <2>3. CbInv(refused)
    BY <2>1, CloseCbInv, OrphanInv DEF ResInv
  <2> HIDE DEF refused
  <2>4. ResInv(With(reset, refused))
    BY <2>1, <2>2, <2>3 DEF ResInv, With
  <2>5. QED
    BY <2>4, NotifiedInv
<1>3. QED
  BY <1>1, <1>2 DEF ArrivesListen

\* An acceptable answer to the SYN: snd.una moves by at most the SYN.
SynAnswered(cb, n, una, l, s) ==
    [cb EXCEPT !.rcv_nxt = n, !.snd_una = una, !.left = l, !.state = s]

LEMMA AnsweredInv ==
    ASSUME NEW cb, CbInv(cb), cb.state = "SYN_SENT", NEW n \in SeqNos,
           NEW una \in SeqNos, cb.iss <= una, una <= cb.snd_nxt,
           NEW l \in Nat, NEW s \in PreFin
    PROVE  CbInv(SynAnswered(cb, n, una, l, s))
<1> DEFINE d == SynAnswered(cb, n, una, l, s)
<1>1. CbShape(d)
  BY DEF CbInv, CbShape, CbFields, SynAnswered
<1>2. \A f \in CbFields \ {"rcv_nxt", "snd_una", "left", "state"} : d[f] = cb[f]
  BY DEF CbInv, CbShape, CbFields, SynAnswered
<1>3. d.rcv_nxt = n /\ d.snd_una = una /\ d.left = l /\ d.state = s
  BY DEF CbInv, CbShape, CbFields, SynAnswered
<1> HIDE DEF d
<1>4. CbTypeOK(d)
  BY <1>2, <1>3 DEF CbInv, CbTypeOK, CbFields, PreFin, States
<1>5. SndOK(d) /\ d.iss + 2 < SeqSpace
  BY <1>2, <1>3 DEF CbInv, SndOK, CbFields, PreFin, PostFin
<1>6. QED
  BY <1>1, <1>4, <1>5 DEF CbInv, d

LEMMA SynSentInv ==
    ASSUME NEW cb, CbInv(cb), cb.state = "SYN_SENT", NEW seg, SegOK(seg), NEW ok
    PROVE  ResInv(ArrivesSynSent(cb, seg, ok))
<1> DEFINE una == IF cb.snd_una < seg.ack THEN seg.ack ELSE cb.snd_una
           left == IF una # cb.snd_una THEN UserTimeout + 1 ELSE cb.left
           syn(s) == Result(SynAnswered(cb, SeqAdd(seg.seq, 1), una, left, s))
           estab == Signal(SendAck(syn("ESTABLISHED"), ok))
           rcvd  == Signal(tcp_tx(syn("SYN_RCVD"), cb.iss, SeqAdd(seg.seq, 1),
                                  {"SYN", "ACK"}, <<>>, ok))
           refused == "ACK" \in seg.flg
                        /\ (seg.ack <= cb.iss \/ seg.ack > cb.snd_nxt)
<1>1. ResInv(Result(cb))
  BY ResultInv
<1>2. ResInv(tcp_tx(Result(cb), seg.ack, 0, {"RST"}, <<>>, ok))
  BY <1>1, TxInv
<1>3. ResInv(Signal(CloseCb(Result(cb))))
  BY <1>1, CloseResInv, NotifiedInv
<1>4. ASSUME ~refused, NEW s \in PreFin
      PROVE  ResInv(syn(s))
  <2>1. SeqAdd(seg.seq, 1) \in SeqNos
    BY SeqAddRange, SeqSpaceAssumption DEF SegOK
  <2>2. /\ una \in SeqNos /\ cb.iss <= una /\ una <= cb.snd_nxt
    BY <1>4 DEF SegOK, CbInv, CbTypeOK, SndOK, PreFin, SeqNos
  <2>3. left \in Nat
    BY TimeoutAssumption DEF CbInv, CbTypeOK
  <2> HIDE DEF una, left
  <2>4. QED
    BY <2>1, <2>2, <2>3, AnsweredInv, ResultInv
<1>5. "ESTABLISHED" \in PreFin /\ "SYN_RCVD" \in PreFin
  BY DEF PreFin
<1>6. ASSUME ~refused PROVE ResInv(estab) /\ ResInv(rcvd)
  <2>1. ResInv(syn("ESTABLISHED")) /\ ResInv(syn("SYN_RCVD"))
    BY <1>4, <1>5, <1>6
  <2> HIDE DEF syn
  <2>2. QED
    BY <2>1, SendAckInv, TxInv, NotifiedInv
<1>7. ASSUME ~refused PROVE ResInv(TextAndFin(estab, seg, ok))
  BY <1>6, <1>7, TextAndFinInv
<1> DEFINE raw(s) ==
             Result([cb EXCEPT
                      !.rcv_nxt = SeqAdd(seg.seq, 1),
                      !.snd_una = una,
                      !.left = IF una # cb.snd_una THEN UserTimeout + 1 ELSE @,
                      !.state = s])
           cases(e, r) ==
             IF refused
             THEN tcp_tx(Result(cb), seg.ack, 0, {"RST"}, <<>>, ok)
             ELSE IF "ACK" \in seg.flg
                       /\ ~(cb.snd_una <= seg.ack /\ seg.ack <= cb.snd_nxt)
             THEN Result(cb)
             ELSE IF "RST" \in seg.flg
             THEN IF "ACK" \in seg.flg THEN Signal(CloseCb(Result(cb)))
                  ELSE Result(cb)
             ELSE IF "SYN" \notin seg.flg THEN Result(cb)
             ELSE IF una <= cb.iss THEN r
             ELSE IF seg.data # <<>> THEN TextAndFin(e, seg, ok) ELSE e
<1>8. raw("ESTABLISHED") = syn("ESTABLISHED") /\ raw("SYN_RCVD") = syn("SYN_RCVD")
  BY DEF SynAnswered, CbInv, CbShape, CbFields
<1>9. ArrivesSynSent(cb, seg, ok)
        = cases(Signal(SendAck(raw("ESTABLISHED"), ok)),
                Signal(tcp_tx(raw("SYN_RCVD"), cb.iss, SeqAdd(seg.seq, 1),
                              {"SYN", "ACK"}, <<>>, ok)))
  BY DEF ArrivesSynSent
<1>10. ArrivesSynSent(cb, seg, ok) = cases(estab, rcvd)
  <2> HIDE DEF raw, syn, cases
  <2> QED
    BY <1>8, <1>9
<1>11. ResInv(cases(estab, rcvd))
  <2> HIDE DEF una, estab, rcvd
  <2> QED
    BY <1>1, <1>2, <1>3, <1>6, <1>7
<1>12. QED
  BY <1>10, <1>11

Synchronized == (PreFin \cup PostFin) \ {"SYN_SENT"}

\* An acknowledgement inside [snd.una, snd.nxt].
LEMMA AckTakenInv ==
    ASSUME NEW r, ResInv(r), r.cb.state \in Synchronized, NEW seg, SegOK(seg),
           r.cb.snd_una <= seg.ack, seg.ack <= r.cb.snd_nxt
    PROVE  ResInv(AckTaken(r, seg)) /\ AckTaken(r, seg).cb.state = r.cb.state
<1> DEFINE cb == r.cb
           d == AckTaken(r, seg).cb
<1>1. CbShape(d)
  BY DEF ResInv, CbInv, CbShape, CbFields, AckTaken, With
<1>2. \A f \in CbFields \ {"snd_una", "left", "snd_wnd", "snd_wl1", "snd_wl2"} :
        d[f] = cb[f]
  BY DEF ResInv, CbInv, CbShape, CbFields, AckTaken, With
<1>3. /\ d.snd_una = seg.ack
      /\ d.left \in {cb.left, UserTimeout + 1}
      /\ d.snd_wnd \in {cb.snd_wnd, seg.win}
      /\ d.snd_wl1 \in {cb.snd_wl1, seg.seq}
      /\ d.snd_wl2 \in {cb.snd_wl2, seg.ack}
  BY DEF ResInv, CbInv, CbShape, CbFields, AckTaken, With
<1>4. AckTaken(r, seg).push = r.push
  BY DEF AckTaken, With
<1> HIDE DEF d
<1>5. CbTypeOK(d)
  BY <1>2, <1>3, TimeoutAssumption DEF ResInv, CbInv, CbTypeOK, CbFields, SegOK
<1>6. SndOK(d) /\ d.iss + 2 < SeqSpace
  <2>1. /\ d.state = cb.state /\ d.iss = cb.iss /\ d.snd_nxt = cb.snd_nxt
        /\ d.snd_una = seg.ack
    BY <1>2, <1>3 DEF CbFields
  <2>2. /\ cb.iss \in Nat /\ cb.snd_una \in Nat /\ cb.snd_nxt \in Nat
        /\ seg.ack \in Nat
    BY SeqSpaceAssumption DEF ResInv, CbInv, CbTypeOK, SegOK, SeqNos
  <2>3. SndOK(cb) /\ cb.iss + 2 < SeqSpace
    BY DEF ResInv, CbInv
  <2>4. cb.iss <= seg.ack
    BY <2>2, <2>3 DEF SndOK, Synchronized
  <2>5. QED
    BY <2>1, <2>3, <2>4 DEF SndOK, Synchronized, PreFin, PostFin
<1>7. CbInv(d) /\ d.state = cb.state /\ d.parent = cb.parent
  BY <1>1, <1>2, <1>5, <1>6 DEF CbInv, CbFields
<1>8. QED
  BY <1>4, <1>7 DEF ResInv, d

\* A new state on the same side.
LEMMA StateOnlyInv ==
    ASSUME NEW cb, CbInv(cb), NEW s \in States, SameSide(cb.state, s)
    PROVE  LET d == [cb EXCEPT !.state = s]
           IN  CbInv(d) /\ d.parent = cb.parent /\ d.state = s
                 /\ d.snd_una = cb.snd_una /\ d.snd_nxt = cb.snd_nxt
<1> DEFINE d == [cb EXCEPT !.state = s]
<1>1. CbShape(d) /\ d.state = s
  BY DEF CbInv, CbShape, CbFields
<1>2. \A f \in CbFields \ {"state"} : d[f] = cb[f]
  BY DEF CbInv, CbShape, CbFields
<1> HIDE DEF d
<1>3. CbTypeOK(d)
  BY <1>1, <1>2 DEF CbInv, CbTypeOK, CbFields
<1>4. SndOK(d) /\ d.iss + 2 < SeqSpace
  BY <1>1, <1>2 DEF CbInv, SndOK, CbFields, SameSide, PreFin, PostFin
<1>5. QED
  BY <1>1, <1>2, <1>3, <1>4 DEF CbInv, CbFields, d

LEMMA FinAckedInv ==
    ASSUME NEW r, ResInv(r), NEW seg
    PROVE  ResInv(FinAcked(r, seg))
<1> DEFINE next == CASE r.cb.state = "FIN_WAIT1" -> "FIN_WAIT2"
                     [] r.cb.state = "CLOSING" -> "TIME_WAIT"
                     [] OTHER -> r.cb.state
           d == [r.cb EXCEPT !.state = next]
<1>1. next \in States /\ SameSide(r.cb.state, next)
  BY DEF ResInv, CbInv, CbTypeOK, States, SameSide, PreFin, PostFin
<1>2. CbInv(d) /\ d.parent = r.cb.parent
  <2> HIDE DEF next
  <2> QED
    BY <1>1, StateOnlyInv DEF ResInv
<1>3. ResInv(With(r, d))
  <2> HIDE DEF d
  <2> QED
    BY <1>2, WithInv
<1>4. QED
  BY <1>3 DEF FinAcked

LEMMA SegmentAckInv ==
    ASSUME NEW cb, CbInv(cb), cb.state \in Synchronized, NEW seg, SegOK(seg), NEW ok
    PROVE  ResInv(SegmentAck(cb, seg, ok).r)
<1> DEFINE inWindow == cb.snd_una <= seg.ack /\ seg.ack <= cb.snd_nxt
           c1 == [cb EXCEPT !.state = "ESTABLISHED"]
           estab == [cb |-> c1, out |-> {},
                     wake |-> IF cb.parent = NoParent THEN "one" ELSE "none",
                     push |-> cb.parent # NoParent, failed |-> FALSE]
           r0 == IF cb.state = "SYN_RCVD" THEN estab ELSE Result(cb)
<1>1. ResInv(Result(cb)) /\ Result(cb).cb = cb
  BY ResultInv
<1>2. ResInv(Broadcast(CloseCb(Result(cb))))
  BY <1>1, CloseResInv, NotifiedInv
<1>3. ResInv(tcp_tx(Result(cb), seg.ack, cb.rcv_nxt, {"RST"}, <<>>, ok))
  BY <1>1, TxInv
<1>4. /\ ResInv(r0) /\ r0.cb.state \in Synchronized
      /\ r0.cb.snd_una = cb.snd_una /\ r0.cb.snd_nxt = cb.snd_nxt
  <2>1. CASE cb.state = "SYN_RCVD"
    <3>1. "ESTABLISHED" \in States /\ SameSide(cb.state, "ESTABLISHED")
      BY <2>1 DEF States, SameSide, PreFin
    <3>2. /\ CbInv(c1) /\ c1.parent = cb.parent /\ c1.state = "ESTABLISHED"
          /\ c1.snd_una = cb.snd_una /\ c1.snd_nxt = cb.snd_nxt
      BY <3>1, StateOnlyInv
    <3> HIDE DEF c1
    <3>3. ResInv(estab) /\ estab.cb = c1
      BY <3>2 DEF ResInv
    <3>4. "ESTABLISHED" \in Synchronized
      BY DEF Synchronized, PreFin
    <3>5. QED
      BY <2>1, <3>2, <3>3, <3>4
  <2>2. CASE cb.state # "SYN_RCVD"
    BY <1>1, <2>2
  <2>3. QED
    BY <2>1, <2>2
<1> HIDE DEF r0
<1>5. ResInv(SendAck(r0, ok))
  BY <1>4, SendAckInv
<1>6. ResInv(IF inWindow THEN AckUpdate(r0, seg) ELSE r0)
  BY <1>4, AckTakenInv, NotifiedInv DEF AckUpdate
<1>7. ResInv(FinAcked(IF inWindow THEN AckUpdate(r0, seg) ELSE r0, seg))
  BY <1>6, FinAckedInv
<1>8. QED
  BY <1>1, <1>2, <1>3, <1>5, <1>7 DEF SegmentAck, r0

LEMMA SynchronizedInv ==
    ASSUME NEW cb, CbInv(cb), cb.state \in Synchronized, NEW seg, SegOK(seg), NEW ok
    PROVE  ResInv(ArrivesSynchronized(cb, seg, ok))
<1>1. ResInv(Result(cb))
  BY ResultInv
<1>2. ResInv(SendAck(Result(cb), ok))
  BY <1>1, SendAckInv
<1>3. /\ ResInv(Signal(CloseCb(Result(cb))))
      /\ ResInv(Broadcast(CloseCb(Result(cb))))
  BY <1>1, CloseResInv, NotifiedInv
<1>4. ResInv(Broadcast(CloseCb(
               tcp_tx(Result(cb), 0, cb.rcv_nxt, {"RST"}, <<>>, ok))))
  BY <1>1, TxInv, CloseResInv, NotifiedInv
<1>5. /\ ResInv(SegmentAck(cb, seg, ok).r)
      /\ ResInv(TextAndFin(SegmentAck(cb, seg, ok).r, seg, ok))
  BY SegmentAckInv, TextAndFinInv
<1>6. QED
  BY <1>1, <1>2, <1>3, <1>4, <1>5 DEF ArrivesSynchronized

\* Whatever segment arrives in whatever state.
LEMMA ArrivesInv ==
    ASSUME NEW cb, CbInv(cb), NEW seg, SegOK(seg), NEW iss \in IssSet, NEW ok
    PROVE  ResInv(tcp_event_segment_arrives(cb, seg, iss, ok))
<1>1. CASE cb.state = "CLOSED"
  BY <1>1, ClosedInv DEF tcp_event_segment_arrives
<1>2. CASE cb.state = "LISTEN"
  BY <1>2, ListenInv DEF tcp_event_segment_arrives
<1>3. CASE cb.state = "SYN_SENT"
  BY <1>3, SynSentInv DEF tcp_event_segment_arrives
<1>4. CASE cb.state \in Synchronized
  <2>1. cb.state \notin {"CLOSED", "LISTEN", "SYN_SENT"}
    BY <1>4 DEF Synchronized, PreFin, PostFin
  <2>2. QED
    BY <1>4, <2>1, SynchronizedInv DEF tcp_event_segment_arrives
<1>5. QED
  BY <1>1, <1>2, <1>3, <1>4
  DEF CbInv, CbTypeOK, States, Synchronized, PreFin, PostFin

-----------------------------------------------------------------------------
(***************************************************************************)
(* The timer thread, the clock, CLOSE and CONNECT.                         *)
(***************************************************************************)
LEMMA TimerInv ==
    ASSUME NEW cb, CbInv(cb)
    PROVE  CbInv(tcp_timer_cb(cb).cb)
<1>1. CbInv(Result(cb).cb) /\ CbInv(Broadcast(CloseCb(Result(cb))).cb)
  BY ResultInv, CloseResInv, NotifiedInv DEF ResInv
<1>2. Alike(cb, TimerTxq(cb).cb)
  BY DEF TimerTxq, Alike, CbInv, CbShape, CbFields
<1>3. CbInv(TimerTxq(cb).cb)
  BY <1>2, AlikeInv
<1>4. QED
  BY <1>1, <1>3 DEF tcp_timer_cb

LEMMA TickInv ==
    ASSUME NEW cb, CbInv(cb)
    PROVE  CbInv(TickCb(cb))
<1> DEFINE d == TickCb(cb)
<1>1. CbShape(d)
  BY DEF TickCb, CbInv, CbShape, CbFields
<1>2. \A f \in CbFields \ {"left", "txq"} : d[f] = cb[f]
  BY DEF TickCb, CbInv, CbShape, CbFields
<1>3. d.left = IF cb.left > 0 THEN cb.left - 1 ELSE 0
  BY DEF TickCb, CbInv, CbShape, CbFields
<1> HIDE DEF d
<1>4. CbTypeOK(d)
  BY <1>2, <1>3 DEF CbInv, CbTypeOK, CbFields
<1>5. SndOK(d) /\ d.iss + 2 < SeqSpace
  BY <1>2 DEF CbInv, SndOK, CbFields
<1>6. QED
  BY <1>1, <1>4, <1>5 DEF CbInv, d

\* The FIN takes a sequence number.
FinTaken(cb, s) == [cb EXCEPT !.snd_nxt = SeqAdd(@, 1), !.state = s]

LEMMA FinTakenInv ==
    ASSUME NEW cb, CbInv(cb), cb.state \in PreFin, NEW s \in PostFin
    PROVE  CbInv(FinTaken(cb, s)) /\ FinTaken(cb, s).parent = cb.parent
<1> DEFINE d == FinTaken(cb, s)
<1>1. CbShape(d)
  BY DEF FinTaken, CbInv, CbShape, CbFields
<1>2. \A f \in CbFields \ {"snd_nxt", "state"} : d[f] = cb[f]
  BY DEF FinTaken, CbInv, CbShape, CbFields
<1>3. d.snd_nxt = SeqAdd(cb.snd_nxt, 1) /\ d.state = s
  BY DEF FinTaken, CbInv, CbShape, CbFields
<1>4. /\ cb.iss \in Nat /\ cb.snd_una \in Nat /\ cb.snd_nxt \in SeqNos
      /\ cb.snd_nxt = cb.iss + 1 /\ cb.iss + 2 < SeqSpace
      /\ cb.iss <= cb.snd_una /\ cb.snd_una <= cb.snd_nxt
  BY SeqSpaceAssumption DEF CbInv, CbTypeOK, SndOK, SeqNos
<1>5. SeqAdd(cb.snd_nxt, 1) = cb.iss + 2 /\ SeqAdd(cb.snd_nxt, 1) \in SeqNos
  BY <1>4, SeqAddRange, SeqSpaceAssumption, SMTT(30)
<1> HIDE DEF d
<1>6. CbTypeOK(d)
  BY <1>2, <1>3, <1>5 DEF CbInv, CbTypeOK, CbFields, PostFin, States
<1>7. SndOK(d) /\ d.iss + 2 < SeqSpace
  <2>1. d.iss = cb.iss /\ d.snd_una = cb.snd_una
    BY <1>2 DEF CbFields
  <2>2. QED
    BY <2>1, <1>3, <1>4, <1>5 DEF SndOK, PreFin, PostFin
<1>8. QED
  BY <1>1, <1>2, <1>6, <1>7 DEF CbInv, CbFields, d

LEMMA CloseFinInv ==
    ASSUME NEW cb, CbInv(cb), cb.state \in PreFin, NEW s \in PostFin, NEW ok
    PROVE  CbInv(CloseFin(cb, s, ok).cb)
<1> DEFINE r == tcp_tx(Result(cb), cb.snd_nxt, cb.rcv_nxt, {"FIN", "ACK"},
                       <<>>, ok)
<1>1. CbInv(r.cb) /\ r.cb.state = cb.state
  BY ResultInv, TxAlike, AlikeInv DEF CbInv, Alike, CbFields
<1>2. CloseFin(cb, s, ok).cb = FinTaken(r.cb, s)
  BY DEF CloseFin, FinTaken, With
<1> HIDE DEF r
<1>3. QED
  BY <1>1, <1>2, FinTakenInv

LEMMA UsedInv ==
    ASSUME NEW cb, CbInv(cb), NEW b \in BOOLEAN
    PROVE  CbInv([cb EXCEPT !.used = b]) /\ [cb EXCEPT !.used = b].state = cb.state
<1> DEFINE d == [cb EXCEPT !.used = b]
<1>1. CbShape(d) /\ d.used = b
  BY DEF CbInv, CbShape, CbFields
<1>2. \A f \in CbFields \ {"used"} : d[f] = cb[f]
  BY DEF CbInv, CbShape, CbFields
<1> HIDE DEF d
<1>3. CbTypeOK(d)
  BY <1>1, <1>2 DEF CbInv, CbTypeOK, CbFields
<1>4. SndOK(d) /\ d.iss + 2 < SeqSpace
  BY <1>2 DEF CbInv, SndOK, CbFields
<1>5. QED
  BY <1>1, <1>2, <1>3, <1>4 DEF CbInv, CbFields, d

LEMMA BacklogInv ==
    ASSUME NEW cb, CbInv(cb), NEW q \in Seq(Cbs)
    PROVE  CbInv([cb EXCEPT !.backlog = q])
<1> DEFINE d == [cb EXCEPT !.backlog = q]
<1>1. CbShape(d) /\ d.backlog = q
  BY DEF CbInv, CbShape, CbFields
<1>2. \A f \in CbFields \ {"backlog"} : d[f] = cb[f]
  BY DEF CbInv, CbShape, CbFields
<1> HIDE DEF d
<1>3. CbTypeOK(d)
  BY <1>1, <1>2 DEF CbInv, CbTypeOK, CbFields
<1>4. SndOK(d) /\ d.iss + 2 < SeqSpace
  BY <1>2 DEF CbInv, SndOK, CbFields
<1>5. QED
  BY <1>1, <1>3, <1>4 DEF CbInv, d

LEMMA CloseInv ==
    ASSUME NEW cb, CbInv(cb), NEW ok
    PROVE  CbInv(tcp_close(cb, ok).cb)
<1> DEFINE c0 == [cb EXCEPT !.used = FALSE]
           c1 == [c0 EXCEPT !.backlog = <<>>]
<1>1. CbInv(c0) /\ c0.state = cb.state
  BY UsedInv
<1>2. CbInv(c1)
  <2> HIDE DEF c0
  <2>1. <<>> \in Seq(Cbs)
    OBVIOUS
  <2>2. QED
    BY <1>1, <2>1, BacklogInv
<1> HIDE DEF c0, c1
<1>3. /\ CbInv(Broadcast(CloseCb(Result(c1))).cb)
      /\ CbInv(Broadcast(CloseCb(Result(c0))).cb) /\ CbInv(Result(c0).cb)
  BY <1>1, <1>2, ResultInv, CloseResInv, NotifiedInv DEF ResInv
<1>4. CASE cb.state \in {"SYN_RCVD", "ESTABLISHED", "CLOSE_WAIT"}
  <2>1. cb.state \in PreFin /\ "FIN_WAIT1" \in PostFin /\ "CLOSING" \in PostFin
    BY <1>4 DEF PreFin, PostFin
  <2>2. CbInv(CloseFin(c0, "FIN_WAIT1", ok).cb) /\ CbInv(CloseFin(c0, "CLOSING", ok).cb)
    BY <1>1, <2>1, CloseFinInv
  <2>3. QED
    BY <1>4, <2>2 DEF tcp_close, c0
<1>5. CASE cb.state \notin {"SYN_RCVD", "ESTABLISHED", "CLOSE_WAIT"}
  BY <1>3, <1>5 DEF tcp_close, c0, c1
<1>6. QED
  BY <1>4, <1>5

\* A closed control block given an address and an iss by connect.
Addressed(cb, port, peer, iss) ==
    [cb EXCEPT !.port = port, !.peer = peer, !.rcv_wnd = WinSize, !.iss = iss]

LEMMA AddressedInv ==
    ASSUME NEW cb, CbInv(cb), cb.state = "CLOSED",
           NEW port \in Ports \cup Ephemeral \cup {NoPort}, NEW peer \in Peers,
           NEW iss \in IssSet
    PROVE  /\ CbInv(Addressed(cb, port, peer, iss))
           /\ Addressed(cb, port, peer, iss).iss = iss
<1> DEFINE d == Addressed(cb, port, peer, iss)
<1>1. CbShape(d)
  BY DEF Addressed, CbInv, CbShape, CbFields
<1>2. \A f \in CbFields \ {"port", "peer", "rcv_wnd", "iss"} : d[f] = cb[f]
  BY DEF Addressed, CbInv, CbShape, CbFields
<1>3. d.port = port /\ d.peer = peer /\ d.rcv_wnd = WinSize /\ d.iss = iss
  BY DEF Addressed, CbInv, CbShape, CbFields
<1>4. iss \in SeqNos /\ iss + 2 < SeqSpace /\ WinSize \in Wnds
  BY IssAssumption, WinSizeAssumption, SeqSpaceAssumption DEF SeqNos, Wnds
<1> HIDE DEF d
<1>5. CbTypeOK(d)
  BY <1>2, <1>3, <1>4 DEF CbInv, CbTypeOK, CbFields
<1>6. SndOK(d)
  BY <1>2 DEF CbInv, SndOK, CbFields, PreFin, PostFin
<1>7. QED
  BY <1>1, <1>3, <1>4, <1>5, <1>6 DEF CbInv, d

LEMMA ConnectInv ==
    ASSUME NEW cb, CbInv(cb), cb.state = "CLOSED",
           NEW port \in Ports \cup Ephemeral \cup {NoPort}, NEW peer \in Peers,
           NEW iss \in IssSet, NEW ok
    PROVE  CbInv(ConnectCb(cb, port, peer, iss, ok).cb)
<1> DEFINE c0 == Addressed(cb, port, peer, iss)
           syn == tcp_tx(Result(c0), iss, 0, {"SYN"}, <<>>, ok)
<1>1. CbInv(c0) /\ c0.iss = iss
  BY AddressedInv
<1> HIDE DEF c0
<1>2. CbInv(syn.cb) /\ syn.cb.iss = iss
  BY <1>1, ResultInv, TxAlike, AlikeInv DEF CbInv, Alike, CbFields
<1>3. "SYN_SENT" \in PreFin
  BY DEF PreFin
<1>4. CbInv(SynTaken(syn.cb, iss, "SYN_SENT"))
  <2> HIDE DEF syn
  <2> QED
    BY <1>2, <1>3, SynInv
<1>5. ConnectCb(cb, port, peer, iss, ok)
        = IF syn.failed THEN syn ELSE With(syn, SynTaken(syn.cb, iss, "SYN_SENT"))
  BY DEF ConnectCb, SynTaken, c0, Addressed
<1>6. QED
  <2> HIDE DEF syn
  <2> QED
    BY <1>2, <1>4, <1>5 DEF With

\* A socket that starts listening, or a control block taken for a connection.
LEMMA ListeningInv ==
    ASSUME NEW cb, CbInv(cb), cb.state = "CLOSED",
           NEW port \in Ports \cup Ephemeral \cup {NoPort},
           NEW peer \in Peers \cup {NoPeer}, NEW p \in 0..NCb
    PROVE  /\ CbInv([cb EXCEPT !.state = "LISTEN"])
           /\ CbInv([cb EXCEPT !.port = port])
           /\ CbInv([cb EXCEPT !.port = port, !.peer = peer])
           /\ CbInv([cb EXCEPT !.state = "LISTEN", !.port = port, !.peer = peer,
                               !.parent = p])
<1>1. CbInv([cb EXCEPT !.state = "LISTEN"])
  <2> DEFINE d == [cb EXCEPT !.state = "LISTEN"]
  <2>1. CbShape(d) /\ d.state = "LISTEN"
    BY DEF CbInv, CbShape, CbFields
  <2>2. \A f \in CbFields \ {"state"} : d[f] = cb[f]
    BY DEF CbInv, CbShape, CbFields
  <2> HIDE DEF d
  <2>3. CbTypeOK(d)
    BY <2>1, <2>2 DEF CbInv, CbTypeOK, CbFields, States
  <2>4. SndOK(d) /\ d.iss + 2 < SeqSpace
    BY <2>1, <2>2 DEF CbInv, SndOK, CbFields, PreFin, PostFin
  <2>5. QED
    BY <2>1, <2>3, <2>4 DEF CbInv, d
<1>2. CbInv([cb EXCEPT !.port = port])
  <2> DEFINE d == [cb EXCEPT !.port = port]
  <2>1. CbShape(d) /\ d.port = port
    BY DEF CbInv, CbShape, CbFields
  <2>2. \A f \in CbFields \ {"port"} : d[f] = cb[f]
    BY DEF CbInv, CbShape, CbFields
  <2> HIDE DEF d
  <2>3. CbTypeOK(d) /\ SndOK(d) /\ d.iss + 2 < SeqSpace
    BY <2>1, <2>2 DEF CbInv, CbTypeOK, SndOK, CbFields
  <2>4. QED
    BY <2>1, <2>3 DEF CbInv, d
<1>3. CbInv([cb EXCEPT !.port = port, !.peer = peer])
  <2> DEFINE d == [cb EXCEPT !.port = port, !.peer = peer]
  <2>1. CbShape(d) /\ d.port = port /\ d.peer = peer
    BY DEF CbInv, CbShape, CbFields
  <2>2. \A f \in CbFields \ {"port", "peer"} : d[f] = cb[f]
    BY DEF CbInv, CbShape, CbFields
  <2> HIDE DEF d
  <2>3. CbTypeOK(d) /\ SndOK(d) /\ d.iss + 2 < SeqSpace
    BY <2>1, <2>2 DEF CbInv, CbTypeOK, SndOK, CbFields
  <2>4. QED
    BY <2>1, <2>3 DEF CbInv, d
<1>4. CbInv([cb EXCEPT !.state = "LISTEN", !.port = port, !.peer = peer,
                       !.parent = p])
  <2> DEFINE d == [cb EXCEPT !.state = "LISTEN", !.port = port, !.peer = peer,
                             !.parent = p]
  <2>1. CbShape(d) /\ d.state = "LISTEN" /\ d.port = port /\ d.peer = peer
          /\ d.parent = p
    BY DEF CbInv, CbShape, CbFields
  <2>2. \A f \in CbFields \ {"state", "port", "peer", "parent"} : d[f] = cb[f]
    BY DEF CbInv, CbShape, CbFields
  <2> HIDE DEF d
  <2>3. CbTypeOK(d)
    BY <2>1, <2>2 DEF CbInv, CbTypeOK, CbFields, States
  <2>4. SndOK(d) /\ d.iss + 2 < SeqSpace
    BY <2>1, <2>2 DEF CbInv, SndOK, CbFields, PreFin, PostFin
  <2>5. QED
    BY <2>1, <2>3, <2>4 DEF CbInv, d
<1>5. QED
  BY <1>1, <1>2, <1>3, <1>4

-----------------------------------------------------------------------------
(***************************************************************************)
(* The steps of the host.                                                  *)
(***************************************************************************)

\* The inductive invariant: a blocked thread is blocked on a control block, and
\* CbInv holds of every control block.
ThreadOK == {x \in ThreadType : x.op # "idle" => x.soc \in Cbs}

ThrInv == thr \in [Threads -> ThreadOK]
CbsInv == cbs = [c \in Cbs |-> cbs[c]] /\ \A c \in Cbs : CbInv(cbs[c])
IndInv == ThrInv /\ CbsInv

LEMMA IndInvImplies == IndInv => ScalarTypeOK /\ SndInv
<1> SUFFICES ASSUME IndInv PROVE ScalarTypeOK /\ SndInv
  OBVIOUS
<1>1. thr \in [Threads -> ThreadType]
  BY DEF IndInv, ThrInv, ThreadOK
<1>2. QED
  BY <1>1 DEF IndInv, CbsInv, CbInv, ScalarTypeOK, SndInv

LEMMA InitInv == Init => IndInv
<1> SUFFICES ASSUME Init PROVE IndInv
  OBVIOUS
<1>1. Idle \in ThreadOK
  BY HostAssumption DEF Idle, ThreadOK, ThreadType
<1>2. ThrInv
  BY <1>1 DEF Init, ThrInv
<1> DEFINE z == ZeroCb(NoPeer)
<1>3. CbShape(z)
  BY DEF CbShape, CbFields, ZeroCb
<1>4. CbTypeOK(z)
  BY SeqSpaceAssumption, WinSizeAssumption, HostAssumption
  DEF CbTypeOK, ZeroCb, States, SeqNos, Wnds, NoParent
<1>5. SndOK(z) /\ z.iss + 2 < SeqSpace
  BY SeqSpaceAssumption DEF SndOK, ZeroCb, PreFin, PostFin
<1>6. CbInv(z)
  BY <1>3, <1>4, <1>5 DEF CbInv
<1> HIDE DEF z
<1>7. CbsInv
  BY <1>6 DEF Init, CbsInv, z
<1>8. QED
  BY <1>2, <1>7 DEF IndInv

\* One control block replaced by another that satisfies the invariant.
LEMMA PutInv ==
    ASSUME CbsInv, NEW c \in Cbs, NEW d, CbInv(d), cbs' = [cbs EXCEPT ![c] = d]
    PROVE  CbsInv'
  BY DEF CbsInv

\* All of them replaced.
LEMMA MapInv ==
    ASSUME NEW F, cbs' = [c \in Cbs |-> F[c]], \A c \in Cbs : CbInv(F[c])
    PROVE  CbsInv'
  BY DEF CbsInv

\* What the notifications do to the threads.
LEMMA WakeType ==
    ASSUME ThrInv
    PROVE  /\ \A C : WakeAll(C) \in [Threads -> ThreadOK]
           /\ \A c : WakeOne(c) \subseteq [Threads -> ThreadOK]
<1>1. \A x \in ThreadOK : [x EXCEPT !.woken = TRUE] \in ThreadOK
  BY DEF ThreadOK, ThreadType
<1>2. \A C : WakeAll(C) \in [Threads -> ThreadOK]
  BY <1>1 DEF WakeAll, ThrInv
<1>3. \A c : WakeOne(c) \subseteq [Threads -> ThreadOK]
  BY <1>1 DEF WakeOne, Waiting, ThrInv
<1>4. QED
  BY <1>2, <1>3

LEMMA NotifyType ==
    ASSUME ThrInv, NEW c, NEW r
    PROVE  Notify(c, r) \subseteq [Threads -> ThreadOK]
<1>1. \A x \in ThreadOK : [x EXCEPT !.woken = TRUE] \in ThreadOK
  BY DEF ThreadOK, ThreadType
<1>2. ASSUME NEW th \in WakeOne(r.cb.parent)
      PROVE  [t \in Threads |-> IF r.wake = "all" /\ th[t].soc = c
                                THEN [th[t] EXCEPT !.woken = TRUE]
                                ELSE th[t]] \in [Threads -> ThreadOK]
  <2>1. th \in [Threads -> ThreadOK]
    BY WakeType
  <2>2. QED
    BY <1>1, <2>1
<1>3. CASE r.push
  BY <1>2, <1>3 DEF Notify
<1>4. CASE ~r.push
  BY <1>4, WakeType DEF Notify, ThrInv
<1>5. QED
  BY <1>3, <1>4

LEMMA BlockedType ==
    /\ Idle \in ThreadOK
    /\ \A s \in Cbs : Blocked("connect", s) \in ThreadOK
                        /\ Blocked("accept", s) \in ThreadOK
  BY HostAssumption DEF Idle, Blocked, ThreadOK, ThreadType, Cbs

LEMMA FreeClosed ==
    ASSUME CbsInv
    PROVE  /\ Free \subseteq Cbs /\ Cbs \subseteq Nat
           /\ \A c \in Free : cbs[c].state = "CLOSED"
  BY HostAssumption DEF Free, Cbs, IS_FREE_CB

LEMMA OpenStep ==
    ASSUME IndInv, NEW t \in Threads, Open(t)
    PROVE  IndInv'
<1>1. Min(Free) \in Cbs
  BY MinIn, FreeClosed DEF Open, IndInv
<1>2. CbInv([cbs[Min(Free)] EXCEPT !.used = TRUE])
  BY <1>1, UsedInv DEF IndInv, CbsInv
<1>3. cbs' = [cbs EXCEPT ![Min(Free)] = [cbs[Min(Free)] EXCEPT !.used = TRUE]]
  BY DEF Open
<1>4. CbsInv'
  BY <1>1, <1>2, <1>3, PutInv DEF IndInv
<1>5. QED
  BY <1>4 DEF Open, IndInv, ThrInv

LEMMA CloseStep ==
    ASSUME IndInv, NEW t \in Threads, NEW s \in Cbs, NEW ok, Close(t, s, ok)
    PROVE  IndInv'
<1> DEFINE closed == {c \in CloseSet(s) : cbs[c].used}
           r == [c \in closed |-> tcp_close(cbs[c], ok)]
           F == [c \in Cbs |-> IF c \in closed THEN r[c].cb ELSE cbs[c]]
<1>1. \A c \in Cbs : CbInv(F[c])
  BY CloseInv DEF IndInv, CbsInv
<1>2. cbs' = [c \in Cbs |-> F[c]]
  BY DEF Close
<1>3. CbsInv'
  <2> HIDE DEF F
  <2> QED
    BY <1>1, <1>2, MapInv
<1>4. ThrInv'
  BY WakeType DEF Close, IndInv, ThrInv
<1>5. QED
  BY <1>3, <1>4 DEF IndInv

LEMMA ConnectStep ==
    ASSUME IndInv, NEW t \in Threads, NEW s \in Cbs, NEW peer \in Targets,
           NEW iss \in IssSet, NEW ok, Connect(t, s, peer, iss, ok)
    PROVE  IndInv'
<1>1. PICK port \in ConnectPorts(s) :
        /\ cbs' = [cbs EXCEPT ![s] = ConnectCb(cbs[s], port, peer, iss, ok).cb]
        /\ thr' = IF ConnectCb(cbs[s], port, peer, iss, ok).failed THEN thr
                  ELSE [thr EXCEPT ![t] = Blocked("connect", s)]
  BY DEF Connect
<1>2. CbInv(cbs[s]) /\ cbs[s].state = "CLOSED"
  BY DEF IndInv, CbsInv, Connect
<1>3. port \in Ports \cup Ephemeral \cup {NoPort}
  BY <1>2 DEF ConnectPorts, CbInv, CbTypeOK
<1>4. peer \in Peers
  BY HostAssumption
<1>5. CbInv(ConnectCb(cbs[s], port, peer, iss, ok).cb)
  BY <1>2, <1>3, <1>4, ConnectInv
<1>6. CbsInv'
  BY <1>1, <1>5, PutInv DEF IndInv
<1>7. ThrInv'
  BY <1>1, BlockedType DEF IndInv, ThrInv
<1>8. QED
  BY <1>6, <1>7 DEF IndInv

LEMMA ConnectNoRouteStep ==
    ASSUME IndInv, NEW t \in Threads, NEW s \in Cbs, NEW peer \in NoRoute,
           ConnectNoRoute(t, s, peer)
    PROVE  IndInv'
<1>1. PICK port \in ConnectPorts(s) :
        cbs' = [cbs EXCEPT ![s] = [cbs[s] EXCEPT !.port = port, !.peer = peer]]
  BY DEF ConnectNoRoute
<1>2. CbInv(cbs[s]) /\ cbs[s].state = "CLOSED" /\ cbs[s].parent \in 0..NCb
  BY DEF IndInv, CbsInv, CbInv, CbTypeOK, ConnectNoRoute
<1>3. port \in Ports \cup Ephemeral \cup {NoPort}
  BY <1>2 DEF ConnectPorts, CbInv, CbTypeOK
<1>4. peer \in Peers \cup {NoPeer}
  BY HostAssumption
<1>5. CbInv([cbs[s] EXCEPT !.port = port, !.peer = peer])
  BY <1>2, <1>3, <1>4, ListeningInv
<1>6. CbsInv'
  BY <1>1, <1>5, PutInv DEF IndInv
<1>7. QED
  BY <1>6 DEF ConnectNoRoute, IndInv, ThrInv

LEMMA ConnectWakeStep ==
    ASSUME IndInv, NEW t \in Threads, ConnectWake(t)
    PROVE  IndInv'
<1>1. thr[t].soc \in Cbs
  BY DEF IndInv, ThrInv, ThreadOK, ConnectWake
<1>2. ThrInv'
  BY <1>1, BlockedType DEF ConnectWake, IndInv, ThrInv
<1>3. QED
  BY <1>2 DEF ConnectWake, IndInv, CbsInv

LEMMA BindStep ==
    ASSUME IndInv, NEW t \in Threads, NEW s \in Cbs, NEW port \in Ports,
           Bind(t, s, port)
    PROVE  IndInv'
<1>1. CbInv(cbs[s]) /\ cbs[s].state = "CLOSED" /\ cbs[s].parent \in 0..NCb
        /\ cbs[s].peer \in Peers \cup {NoPeer}
  BY DEF IndInv, CbsInv, CbInv, CbTypeOK, Bind
<1>2. CbInv([cbs[s] EXCEPT !.port = port])
  BY <1>1, ListeningInv
<1>3. cbs' = [cbs EXCEPT ![s] = [cbs[s] EXCEPT !.port = port]]
  BY DEF Bind
<1>4. CbsInv'
  BY <1>2, <1>3, PutInv DEF IndInv
<1>5. QED
  BY <1>4 DEF Bind, IndInv, ThrInv

LEMMA ListenStep ==
    ASSUME IndInv, NEW t \in Threads, NEW s \in Cbs, Listen(t, s)
    PROVE  IndInv'
<1>1. CbInv(cbs[s]) /\ cbs[s].state = "CLOSED" /\ cbs[s].parent \in 0..NCb
        /\ cbs[s].peer \in Peers \cup {NoPeer}
        /\ cbs[s].port \in Ports \cup Ephemeral \cup {NoPort}
  BY DEF IndInv, CbsInv, CbInv, CbTypeOK, Listen
<1>2. CbInv([cbs[s] EXCEPT !.state = "LISTEN"])
  BY <1>1, ListeningInv
<1>3. cbs' = [cbs EXCEPT ![s] = [cbs[s] EXCEPT !.state = "LISTEN"]]
  BY DEF Listen
<1>4. CbsInv'
  BY <1>2, <1>3, PutInv DEF IndInv
<1>5. QED
  BY <1>4 DEF Listen, IndInv, ThrInv

LEMMA AcceptLoopStep ==
    ASSUME IndInv, NEW t \in Threads, NEW s \in Cbs, AcceptLoop(t, s)
    PROVE  IndInv'
<1>1. ThrInv'
  BY BlockedType DEF AcceptLoop, IndInv, ThrInv
<1>2. CASE UNCHANGED cbs
  BY <1>1, <1>2 DEF IndInv, CbsInv
<1>3. CASE /\ cbs[s].backlog # <<>>
           /\ cbs' = [cbs EXCEPT ![s].backlog = Tail(@),
                                 ![Head(cbs[s].backlog)].used = TRUE]
  <2> DEFINE q == cbs[s].backlog
             c0 == [cbs[s] EXCEPT !.backlog = Tail(q)]
             F == [c \in Cbs |-> IF c = s THEN c0 ELSE cbs[c]]
             G == [c \in Cbs |-> IF c = Head(q) THEN [F[c] EXCEPT !.used = TRUE]
                                 ELSE F[c]]
  <2>1. q \in Seq(Cbs) /\ CbInv(cbs[s])
    BY DEF IndInv, CbsInv, CbInv, CbTypeOK
  <2>2. Tail(q) \in Seq(Cbs) /\ Head(q) \in Cbs
    BY <1>3, <2>1
  <2>3. CbInv(c0)
    BY <2>1, <2>2, BacklogInv
  <2> HIDE DEF c0
  <2>4. \A c \in Cbs : CbInv(F[c])
    BY <2>3 DEF IndInv, CbsInv
  <2>5. F = [cbs EXCEPT ![s].backlog = Tail(@)]
    BY DEF IndInv, CbsInv, c0
  <2> HIDE DEF F
  <2>6. \A c \in Cbs : CbInv(G[c])
    BY <2>4, UsedInv
  <2>7. cbs' = [F EXCEPT ![Head(q)].used = TRUE]
    BY <1>3, <2>5
  <2>8. F = [c \in Cbs |-> F[c]]
    BY DEF F
  <2>9. cbs' = [c \in Cbs |-> G[c]]
    BY <2>7, <2>8
  <2> HIDE DEF G
  <2>10. CbsInv'
    BY <2>6, <2>9, MapInv
  <2>11. QED
    BY <1>1, <2>10 DEF IndInv
<1>4. QED
  BY <1>2, <1>3 DEF AcceptLoop

LEMMA AcceptStep ==
    ASSUME IndInv, NEW t \in Threads, NEW s \in Cbs, Accept(t, s)
    PROVE  IndInv'
  BY AcceptLoopStep DEF Accept

LEMMA AcceptWakeStep ==
    ASSUME IndInv, NEW t \in Threads, AcceptWake(t)
    PROVE  IndInv'
<1>1. thr[t].soc \in Cbs
  BY DEF IndInv, ThrInv, ThreadOK, AcceptWake
<1>2. QED
  BY <1>1, AcceptLoopStep DEF AcceptWake

\* A control block taken for a segment nothing matches.
LEMMA PreparedInv ==
    ASSUME CbsInv, NEW f \in Free, NEW peer \in Peers,
           NEW port \in Ports \cup Ephemeral
    PROVE  CbInv(Prepared(f, peer, port))
<1>1. CbInv(cbs[f]) /\ cbs[f].state = "CLOSED" /\ f \in Cbs
  BY FreeClosed DEF CbsInv
<1>2. CASE Listening(port) # {}
  <2>1. Listening(port) \subseteq Nat /\ Listening(port) \subseteq Cbs
    BY FreeClosed DEF Listening
  <2>2. Min(Listening(port)) \in 0..NCb
    BY <1>2, <2>1, MinIn DEF Cbs
  <2> HIDE DEF Cbs
  <2>3. QED
    BY <1>1, <1>2, <2>2, ListeningInv DEF Prepared
<1>3. CASE Listening(port) = {}
  <2>1. 0 \in 0..NCb
    BY HostAssumption
  <2>2. CbInv([cbs[f] EXCEPT !.port = NoPort, !.peer = peer])
    BY <1>1, <2>1, ListeningInv
  <2>3. QED
    BY <1>3, <2>2 DEF Prepared
<1>4. QED
  BY <1>2, <1>3

LEMMA RxStep ==
    ASSUME IndInv, NEW peer \in Peers, NEW port \in Ports \cup Ephemeral,
           NEW seg \in Segments, NEW iss \in IssSet, NEW ok,
           Rx(peer, port, seg, iss, ok)
    PROVE  IndInv'
<1> DEFINE m == Matching(peer, port)
           c == IF m # {} THEN Min(m) ELSE Min(Free)
           cb == IF m # {} THEN cbs[c] ELSE Prepared(c, peer, port)
           r == tcp_event_segment_arrives(cb, seg, iss, ok)
<1>1. SegOK(seg)
  BY SegmentsAssumption DEF SegOK, SegType
<1>2. c \in Cbs /\ (m = {} => c \in Free)
  <2>1. m \subseteq Cbs /\ Cbs \subseteq Nat /\ Free \subseteq Cbs
    BY FreeClosed DEF Matching, IndInv
  <2>2. m # {} \/ Free # {}
    BY DEF Rx
  <2> HIDE DEF m
  <2>3. QED
    BY <2>1, <2>2, MinIn
<1>3. CbInv(cb)
  <2> HIDE DEF c, m
  <2> QED
    BY <1>2, PreparedInv DEF IndInv, CbsInv
<1>4. ResInv(r)
  <2> HIDE DEF cb
  <2> QED
    BY <1>1, <1>3, ArrivesInv
<1>5. /\ cbs' = IF r.push
                THEN [[cbs EXCEPT ![c] = r.cb]
                        EXCEPT ![r.cb.parent].backlog = Append(@, c)]
                ELSE [cbs EXCEPT ![c] = r.cb]
      /\ thr' \in Notify(c, r)
  BY DEF Rx
<1> HIDE DEF c, r
<1>6. ThrInv'
  BY <1>5, NotifyType DEF IndInv, ThrInv
<1>7. CASE ~r.push
  BY <1>2, <1>4, <1>5, <1>6, <1>7, PutInv DEF IndInv, ResInv
<1>8. CASE r.push
  <2> DEFINE F == [cbs EXCEPT ![c] = r.cb]
             p == r.cb.parent
             b == [F[p] EXCEPT !.backlog = Append(F[p].backlog, c)]
             G == [d \in Cbs |-> IF d = p THEN b ELSE F[d]]
  <2>1. F = [d \in Cbs |-> F[d]] /\ \A d \in Cbs : CbInv(F[d])
    BY <1>2, <1>4 DEF IndInv, CbsInv, ResInv
  <2>2. cbs' = [F EXCEPT ![p].backlog = Append(@, c)]
    BY <1>5, <1>8
  <2> HIDE DEF F
  <2>3. p \in Cbs
    BY <1>4, <1>8 DEF ResInv, CbInv, CbTypeOK, NoParent, Cbs
  <2> HIDE DEF p
  <2>4. Append(F[p].backlog, c) \in Seq(Cbs) /\ CbInv(F[p])
    BY <1>2, <2>1, <2>3 DEF CbInv, CbTypeOK
  <2>5. CbInv(b)
    BY <2>4, BacklogInv
  <2>6. cbs' = [d \in Cbs |-> G[d]]
    BY <2>1, <2>2
  <2> HIDE DEF b
  <2>7. \A d \in Cbs : CbInv(G[d])
    BY <2>1, <2>5
  <2> HIDE DEF G
  <2>8. CbsInv'
    BY <2>6, <2>7, MapInv
  <2>9. QED
    BY <1>6, <2>8 DEF IndInv
<1>9. QED
  BY <1>7, <1>8

LEMMA TimerStep ==
    ASSUME IndInv, TimerPass
    PROVE  IndInv'
<1> DEFINE F == [c \in Cbs |-> tcp_timer_cb(cbs[c]).cb]
<1>1. \A c \in Cbs : CbInv(F[c])
  BY TimerInv DEF IndInv, CbsInv
<1>2. cbs' = [c \in Cbs |-> F[c]]
  BY DEF TimerPass
<1> HIDE DEF F
<1>3. CbsInv'
  BY <1>1, <1>2, MapInv
<1>4. ThrInv'
  BY WakeType DEF TimerPass, IndInv, ThrInv
<1>5. QED
  BY <1>3, <1>4 DEF IndInv

LEMMA TickStep ==
    ASSUME IndInv, Tick
    PROVE  IndInv'
<1> DEFINE F == [c \in Cbs |-> TickCb(cbs[c])]
<1>1. \A c \in Cbs : CbInv(F[c])
  BY TickInv DEF IndInv, CbsInv
<1>2. cbs' = [c \in Cbs |-> F[c]]
  BY DEF Tick
<1> HIDE DEF F
<1>3. CbsInv'
  BY <1>1, <1>2, MapInv
<1>4. QED
  BY <1>3 DEF Tick, IndInv, ThrInv

-----------------------------------------------------------------------------
LEMMA NextInv == IndInv /\ [Next]_vars => IndInv'
<1> SUFFICES ASSUME IndInv, [Next]_vars PROVE IndInv'
  OBVIOUS
<1>1. ASSUME NEW t \in Threads, Open(t) PROVE IndInv'
  BY <1>1, OpenStep
<1>2. ASSUME NEW t \in Threads, ConnectWake(t) PROVE IndInv'
  BY <1>2, ConnectWakeStep
<1>3. ASSUME NEW t \in Threads, AcceptWake(t) PROVE IndInv'
  BY <1>3, AcceptWakeStep
<1>4. ASSUME NEW t \in Threads, NEW s \in Cbs, NEW ok \in TxOk, Close(t, s, ok)
      PROVE  IndInv'
  BY <1>4, CloseStep
<1>5. ASSUME NEW t \in Threads, NEW s \in Cbs, NEW peer \in Targets,
             NEW iss \in IssSet, NEW ok \in TxOk, Connect(t, s, peer, iss, ok)
      PROVE  IndInv'
  BY <1>5, ConnectStep
<1>6. ASSUME NEW t \in Threads, NEW s \in Cbs, NEW peer \in NoRoute,
             ConnectNoRoute(t, s, peer)
      PROVE  IndInv'
  BY <1>6, ConnectNoRouteStep
<1>7. ASSUME NEW t \in Threads, NEW s \in Cbs, NEW port \in Ports, Bind(t, s, port)
      PROVE  IndInv'
  BY <1>7, BindStep
<1>8. ASSUME NEW t \in Threads, NEW s \in Cbs, Listen(t, s) PROVE IndInv'
  BY <1>8, ListenStep
<1>9. ASSUME NEW t \in Threads, NEW s \in Cbs, Accept(t, s) PROVE IndInv'
  BY <1>9, AcceptStep
<1>10. ASSUME NEW peer \in Peers, NEW port \in Ports \cup Ephemeral,
             NEW seg \in Segments, NEW iss \in IssSet, NEW ok \in TxOk,
             Rx(peer, port, seg, iss, ok)
      PROVE  IndInv'
  BY <1>10, RxStep
<1>11. CASE TimerPass
  BY <1>11, TimerStep
<1>12. CASE Tick
  BY <1>12, TickStep
<1>13. CASE UNCHANGED vars
  BY <1>13 DEF vars, IndInv, ThrInv, CbsInv
<1>14. QED
  BY <1>1, <1>2, <1>3, <1>4, <1>5, <1>6, <1>7, <1>8, <1>9, <1>10, <1>11,
     <1>12, <1>13 DEF Next

LEMMA IndInvHolds == Spec => []IndInv
  BY InitInv, NextInv, PTL DEF Spec

-----------------------------------------------------------------------------
(***************************************************************************)
(* The transmission queues: the entries stay data-free segments with an    *)
(* age, and txq.snt a uint16_t, through every send, retransmission and     *)
(* removal.                                                                *)
(***************************************************************************)
QueueInv == \A c \in Cbs : CbTyped(cbs[c], {})

LEMMA QueueInvImplies ==
    ASSUME QueueInv, NEW c \in Cbs
    PROVE  QueueTypeOK(cbs[c])
<1>1. \A d \in Seq({}) : d = <<>>
  OBVIOUS
<1>2. SegOf({}) \subseteq SegType
  BY <1>1 DEF SegOf, SegType
<1>3. EntryOf({}) \subseteq EntryType
  BY <1>2 DEF EntryOf, EntryType
<1>4. cbs[c].txq \in Seq(EntryOf({})) /\ cbs[c].snt \in Wnds
  BY DEF QueueInv, CbTyped
<1> HIDE DEF Cbs
<1>5. cbs[c].txq \in Seq(EntryType)
  BY <1>3, <1>4
<1>6. QED
  BY <1>4, <1>5 DEF QueueTypeOK

LEMMA SegmentTyped == Segments \subseteq SegOf({})
<1>1. <<>> \in Seq({}) /\ Len(<<>>) <= WinSize
  BY WinSizeAssumption
<1>2. SegType \subseteq SegOf({})
  BY <1>1 DEF SegType, SegOf
<1>3. QED
  BY <1>2, SegmentsAssumption

LEMMA IssTyped == IssSet \subseteq SeqNos
  BY IssAssumption, SeqSpaceAssumption DEF SeqNos

\* A control block that is opened, bound, set to listen or prepared by tcp_rx.
LEMMA AddressTyped ==
    ASSUME NEW c, CbTyped(c, {}), NEW d, CbShape(d), d.state \in {c.state, "LISTEN"},
           \A f \in CbFields \ {"used", "port", "peer", "parent", "backlog", "state"} :
             d[f] = c[f]
    PROVE  CbTyped(d, {})
  BY DEF CbTyped, CbFields, States

LEMMA InitQueue == Init => QueueInv
  BY ZeroTyped DEF Init, QueueInv

LEMMA RxQueue ==
    ASSUME IndInv, QueueInv, NEW peer \in Peers, NEW port \in Ports \cup Ephemeral,
           NEW seg \in Segments, NEW iss \in IssSet, NEW ok,
           Rx(peer, port, seg, iss, ok)
    PROVE  QueueInv'
<1> DEFINE m == Matching(peer, port)
           c == IF m # {} THEN Min(m) ELSE Min(Free)
           cb == IF m # {} THEN cbs[c] ELSE Prepared(c, peer, port)
           r == tcp_event_segment_arrives(cb, seg, iss, ok)
<1>1. c \in Cbs
  <2>1. m \subseteq Cbs /\ Cbs \subseteq Nat /\ Free \subseteq Cbs
    BY FreeClosed DEF Matching, IndInv
  <2>2. m # {} \/ Free # {}
    BY DEF Rx
  <2> HIDE DEF m
  <2>3. QED
    BY <2>1, <2>2, MinIn
<1>2. /\ cbs' = IF r.push
                THEN [[cbs EXCEPT ![c] = r.cb]
                        EXCEPT ![r.cb.parent].backlog = Append(@, c)]
                ELSE [cbs EXCEPT ![c] = r.cb]
  BY DEF Rx
<1> HIDE DEF c, m
<1>3. CbTyped(cbs[c], {})
  BY <1>1 DEF QueueInv
<1>4. CbTyped(cb, {})
  <2> DEFINE p == Prepared(c, peer, port)
  <2>1. /\ CbShape(p) /\ p.state \in {cbs[c].state, "LISTEN"}
        /\ \A f \in CbFields \ {"port", "peer", "parent", "state"} : p[f] = cbs[c][f]
    BY <1>3 DEF Prepared, CbTyped, CbShape, CbFields
  <2> HIDE DEF p
  <2>2. CbTyped(p, {})
    BY <1>3, <2>1, AddressTyped
  <2>3. QED
    BY <1>3, <2>2 DEF p
<1> HIDE DEF cb
<1>5. CbTyped(r.cb, {})
  <2>1. ResTyped(r, {})
    BY <1>4, SegmentTyped, IssTyped, ArrivesTyped
  <2>2. QED
    BY <2>1 DEF ResTyped
<1> HIDE DEF r
<1> DEFINE F == [cbs EXCEPT ![c] = r.cb]
<1>6. F = [x \in Cbs |-> F[x]] /\ \A x \in Cbs : CbTyped(F[x], {})
  BY <1>1, <1>5 DEF QueueInv, IndInv, CbsInv
<1>7. cbs' = F \/ cbs' = [F EXCEPT ![r.cb.parent].backlog = Append(@, c)]
  BY <1>2
<1> HIDE DEF F
<1>8. ASSUME NEW x \in Cbs PROVE CbTyped(cbs'[x], {})
  <2> DEFINE d == [F[x] EXCEPT !.backlog = Append(@, c)]
  <2>1. cbs'[x] \in {F[x], d}
    BY <1>6, <1>7
  <2>2. CbShape(d) /\ \A f \in CbFields \ {"backlog"} : d[f] = F[x][f]
    BY <1>6 DEF CbTyped, CbShape, CbFields
  <2> HIDE DEF d
  <2>3. CbTyped(F[x], {}) /\ CbTyped(d, {})
    BY <1>6, <2>2, SameTyped
  <2>4. QED
    BY <2>1, <2>3
<1>9. QED
  BY <1>8 DEF QueueInv

\* The calls of the application that change no more than the address, the state
\* and the backlog.
LEMMA AddressQueue ==
    ASSUME IndInv, QueueInv, NEW t \in Threads,
           \/ Open(t) \/ AcceptWake(t) \/ ConnectWake(t)
           \/ \E s \in Cbs : \/ \E peer \in NoRoute : ConnectNoRoute(t, s, peer)
                             \/ \E port \in Ports : Bind(t, s, port)
                             \/ Listen(t, s) \/ Accept(t, s)
    PROVE  QueueInv'
<1> DEFINE Moved(c, d) ==
             /\ CbShape(d) /\ d.state \in {c.state, "LISTEN"}
             /\ \A f \in CbFields \ {"used", "port", "peer", "parent", "backlog",
                                      "state"} : d[f] = c[f]
<1>1. ASSUME NEW c, CbShape(c)
      PROVE  /\ Moved(c, c) /\ Moved(c, [c EXCEPT !.used = TRUE])
             /\ Moved(c, [c EXCEPT !.state = "LISTEN"])
  BY <1>1 DEF CbShape, CbFields
<1>2. \A c \in Cbs : CbShape(cbs[c])
  BY DEF QueueInv, CbTyped
<1>3. ASSUME NEW s \in Cbs, AcceptLoop(t, s), NEW c \in Cbs
      PROVE  Moved(cbs[c], cbs'[c])
  <2> DEFINE q == cbs[s].backlog
             F == [cbs EXCEPT ![s].backlog = Tail(q)]
             b == [cbs[c] EXCEPT !.backlog = Tail(q)]
  <2>1. cbs' = cbs \/ cbs' = [F EXCEPT ![Head(q)].used = TRUE]
    BY <1>3 DEF AcceptLoop
  <2>2. F[c] \in {cbs[c], b} /\ F = [x \in Cbs |-> F[x]]
    BY DEF IndInv, CbsInv
  <2> HIDE DEF F
  <2>3. cbs'[c] \in {cbs[c], F[c], [F[c] EXCEPT !.used = TRUE]}
    BY <2>1, <2>2
  <2>4. cbs'[c] \in {cbs[c], b, [cbs[c] EXCEPT !.used = TRUE],
                     [b EXCEPT !.used = TRUE]}
    BY <2>2, <2>3
  <2>5. Moved(cbs[c], b) /\ Moved(cbs[c], [b EXCEPT !.used = TRUE])
    BY <1>2 DEF CbShape, CbFields
  <2> HIDE DEF Moved, b
  <2>6. QED
    BY <1>1, <1>2, <2>4, <2>5
<1>4. ASSUME NEW c \in Cbs PROVE Moved(cbs[c], cbs'[c])
  <2> HIDE DEF Moved
  <2>1. CASE Open(t)
    <3>1. cbs'[c] \in {cbs[c], [cbs[c] EXCEPT !.used = TRUE]}
      BY <2>1 DEF Open, IndInv, CbsInv
    <3>2. QED
      BY <1>1, <1>2, <3>1
  <2>2. CASE ConnectWake(t)
    BY <1>1, <1>2, <2>2 DEF ConnectWake
  <2>3. CASE AcceptWake(t)
    <3>1. thr[t].soc \in Cbs
      BY <2>3 DEF IndInv, ThrInv, ThreadOK, AcceptWake
    <3>2. QED
      BY <1>3, <2>3, <3>1 DEF AcceptWake
  <2>4. ASSUME NEW s \in Cbs, NEW peer \in NoRoute, ConnectNoRoute(t, s, peer)
        PROVE  Moved(cbs[c], cbs'[c])
    <3>1. PICK port : cbs' = [cbs EXCEPT ![s] = [@ EXCEPT !.port = port, !.peer = peer]]
      BY <2>4 DEF ConnectNoRoute
    <3>2. cbs'[c] \in {cbs[c], [cbs[c] EXCEPT !.port = port, !.peer = peer]}
      BY <3>1 DEF IndInv, CbsInv
    <3>3. Moved(cbs[c], [cbs[c] EXCEPT !.port = port, !.peer = peer])
      BY <1>2 DEF Moved, CbShape, CbFields
    <3>4. QED
      BY <1>1, <1>2, <3>2, <3>3
  <2>5. ASSUME NEW s \in Cbs, NEW port \in Ports, Bind(t, s, port)
        PROVE  Moved(cbs[c], cbs'[c])
    <3>1. cbs'[c] \in {cbs[c], [cbs[c] EXCEPT !.port = port]}
      BY <2>5 DEF Bind, IndInv, CbsInv
    <3>2. Moved(cbs[c], [cbs[c] EXCEPT !.port = port])
      BY <1>2 DEF Moved, CbShape, CbFields
    <3>3. QED
      BY <1>1, <1>2, <3>1, <3>2
  <2>6. ASSUME NEW s \in Cbs, Listen(t, s) PROVE Moved(cbs[c], cbs'[c])
    <3>1. cbs'[c] \in {cbs[c], [cbs[c] EXCEPT !.state = "LISTEN"]}
      BY <2>6 DEF Listen, IndInv, CbsInv
    <3>2. QED
      BY <1>1, <1>2, <3>1
  <2>7. ASSUME NEW s \in Cbs, Accept(t, s) PROVE Moved(cbs[c], cbs'[c])
    BY <1>3, <2>7 DEF Accept
  <2>8. QED
    BY <2>1, <2>2, <2>3, <2>4, <2>5, <2>6, <2>7
<1>5. ASSUME NEW c \in Cbs PROVE CbTyped(cbs'[c], {})
  BY <1>4, AddressTyped DEF QueueInv
<1>6. QED
  BY <1>5 DEF QueueInv

LEMMA NextQueue == IndInv /\ QueueInv /\ [Next]_vars => QueueInv'
<1> SUFFICES ASSUME IndInv, QueueInv, [Next]_vars PROVE QueueInv'
  OBVIOUS
<1>1. ASSUME NEW t \in Threads, NEW s \in Cbs, NEW ok \in TxOk, Close(t, s, ok)
      PROVE  QueueInv'
  <2>1. ASSUME NEW c \in Cbs
        PROVE  cbs'[c] \in {cbs[c], tcp_close(cbs[c], ok).cb}
    BY <1>1 DEF Close
  <2>2. QED
    BY <2>1, CloseTyped DEF QueueInv, ResTyped
<1>2. ASSUME NEW t \in Threads, NEW s \in Cbs, NEW peer \in Targets,
             NEW iss \in IssSet, NEW ok \in TxOk, Connect(t, s, peer, iss, ok)
      PROVE  QueueInv'
  <2>1. PICK port : cbs' = [cbs EXCEPT ![s] = ConnectCb(cbs[s], port, peer, iss, ok).cb]
    BY <1>2 DEF Connect
  <2>2. ASSUME NEW c \in Cbs
        PROVE  cbs'[c] \in {cbs[c], ConnectCb(cbs[c], port, peer, iss, ok).cb}
    BY <2>1 DEF IndInv, CbsInv
  <2>3. ASSUME NEW c \in Cbs
        PROVE  CbTyped(ConnectCb(cbs[c], port, peer, iss, ok).cb, {})
    BY IssTyped, ConnectTyped DEF QueueInv, ResTyped
  <2>4. QED
    BY <2>2, <2>3 DEF QueueInv
<1>3. CASE TimerPass
  <2>1. ASSUME NEW c \in Cbs PROVE cbs'[c] = tcp_timer_cb(cbs[c]).cb
    BY <1>3 DEF TimerPass
  <2>2. QED
    BY <2>1, TimerTyped DEF QueueInv, ResTyped
<1>4. CASE Tick
  <2>1. ASSUME NEW c \in Cbs PROVE cbs'[c] = TickCb(cbs[c])
    BY <1>4 DEF Tick
  <2>2. QED
    BY <2>1, TickTyped DEF QueueInv
<1>5. CASE UNCHANGED vars
  BY <1>5 DEF vars, QueueInv
<1>6. QED
  BY <1>1, <1>2, <1>3, <1>4, <1>5, RxQueue, AddressQueue DEF Next

\* Every thread record, every scalar field of every control block and every
\* queued segment stays in its range, whatever segments arrive and whatever
\* calls are made.
THEOREM TypeCorrect == Spec => []TypeOK
<1>1. Spec => [](IndInv /\ QueueInv)
  BY IndInvHolds, InitInv, InitQueue, NextInv, NextQueue, PTL DEF Spec
<1>2. IndInv /\ QueueInv => TypeOK
  BY IndInvImplies, QueueInvImplies DEF TypeOK
<1>3. QED
  BY <1>1, <1>2, PTL

\* The send sequence variables of every control block agree with its state,
\* for every table size, number of threads and peers, and set of segments.
THEOREM SndInvHolds == Spec => []SndInv
<1>1. IndInv => SndInv
  BY IndInvImplies
<1>2. QED
  BY <1>1, IndInvHolds, PTL
=============================================================================
