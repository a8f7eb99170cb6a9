-------------------------------- MODULE TcpCb --------------------------------
(***************************************************************************)
(* One TCP control block (struct tcp_cb) and everything the stack computes *)
(* on it: queueing and sending a segment (tcp_tx), processing an arriving  *)
(* segment (tcp_event_segment_arrives), one visit of the timer thread, and *)
(* CLOSE.  Every operator is a function of the control block; the modules  *)
(* that extend this one hold the table, the threads and the network.       *)
(*                                                                         *)
(* Abstractions: segment data is a sequence of abstract bytes.  Segments   *)
(* with URG are left out, and with them the urgent pointers and the branch *)
(* of SYN_SENT the flag takes.  irs and iface are left out: no code reads  *)
(* them to decide anything on a host with one interface.  `left' is        *)
(* timeout - now + 1 in seconds, cut at 0, so "timeout < now" is left = 0. *)
(* The timestamp of a queued segment is its age in seconds, cut at         *)
(* RtxTimeout + 1.                                                         *)
(***************************************************************************)
EXTENDS Integers, FiniteSetsExt, SequencesExt

CONSTANTS
    SeqSpace,         \* number of sequence numbers (2^32 in the code)
    WinSize,          \* sizeof(cb->window), 65535: the largest uint16_t
    UserTimeout,      \* USER_TIMEOUT
    TimeWaitTimeout,  \* TIME_WAIT_TIMEOUT
    RtxTimeout        \* the retransmission timeout of tcp_timer_thread

ASSUME SeqSpaceAssumption == SeqSpace \in Nat /\ SeqSpace > 3
ASSUME WinSizeAssumption == WinSize \in Nat \ {0} /\ WinSize < SeqSpace
ASSUME TimeoutAssumption ==
    UserTimeout \in Nat /\ TimeWaitTimeout \in Nat /\ RtxTimeout \in Nat

States ==
    {"CLOSED", "LISTEN", "SYN_SENT", "SYN_RCVD", "ESTABLISHED", "FIN_WAIT1",
     "FIN_WAIT2", "CLOSING", "TIME_WAIT", "CLOSE_WAIT", "LAST_ACK"}

Flags == {"FIN", "SYN", "RST", "PSH", "ACK"}

SeqNos == 0..(SeqSpace - 1)
Wnds == 0..WinSize

(***************************************************************************)
(* Operators named Mut... are variants with a planted bug; the mutation    *)
(* runs put one in place of the definition that follows it.                *)
(***************************************************************************)
MutSeqAdd(a, n) == a + n

\* uint32_t addition of sequence numbers.
SeqAdd(a, n) == IF a + n < SeqSpace THEN a + n ELSE a + n - SeqSpace

MutUint16(n) == n

\* uint16_t arithmetic; 65535 = WinSize is its largest value.
Uint16(n) == n % (WinSize + 1)

NoPort == 0          \* cb->port of a control block that was never bound
NoParent == 0        \* cb->parent == NULL
Unsent == -1         \* txq->timestamp.tv_sec == 0

\* A zeroed entry of cb_table (static storage).
ZeroCb(noPeer) ==
    [used |-> FALSE, state |-> "CLOSED", port |-> NoPort, peer |-> noPeer,
     snd_nxt |-> 0, snd_una |-> 0, snd_wl1 |-> 0, snd_wl2 |-> 0, snd_wnd |-> 0,
     iss |-> 0, rcv_nxt |-> 0, rcv_wnd |-> 0, txq |-> <<>>, snt |-> 0,
     buf |-> <<>>, parent |-> NoParent, backlog |-> <<>>, left |-> 0]

IS_FREE_CB(cb) == ~cb.used /\ cb.state = "CLOSED"

(***************************************************************************)
(* What a handler leaves behind: the control block, the set of segments    *)
(* passed to ip_tx, how cb->cond was notified ("one": signal, "all":       *)
(* broadcast), whether cb was pushed on cb->parent->backlog (and that      *)
(* cond signalled), and whether tcp_tx returned -1.                        *)
(***************************************************************************)
Result(cb) ==
    [cb |-> cb, out |-> {}, wake |-> "none", push |-> FALSE, failed |-> FALSE]

\* r with another control block, or another notification.
With(r, cb) ==
    [cb |-> cb, out |-> r.out, wake |-> r.wake, push |-> r.push,
     failed |-> r.failed]
Notified(r, how) ==
    [cb |-> r.cb, out |-> r.out, wake |-> how, push |-> r.push,
     failed |-> r.failed]

Broadcast(r) == Notified(r, "all")
Signal(r) == Notified(r, IF r.wake = "all" THEN "all" ELSE "one")

-----------------------------------------------------------------------------
(***************************************************************************)
(* Sending.                                                                *)
(***************************************************************************)

\* Only segments that will be acknowledged are kept for retransmission.
Queued(flg, data) == data # <<>> \/ flg \cap {"SYN", "FIN"} # {}

MutHeld(cb, flg, data) == "SYN" \notin flg /\ cb.snt + Len(data) > cb.snd_wnd

\* Flow control: behind an unsent segment, or beyond the peer's window.
Held(cb, flg, data) ==
    \/ cb.txq # <<>> /\ Last(cb.txq).age = Unsent
    \/ "SYN" \notin flg /\ cb.snt + Len(data) > cb.snd_wnd

\* tcp_txq_add.
tcp_txq_add(cb, seg, age) ==
    [cb EXCEPT !.txq = Append(@, [seg |-> seg, age |-> age])]

\* tcp_tx on the result r of the handler so far; ok says that ip_tx succeeds.
\* A segment ip_tx refused stays queued and unsent.
tcp_tx(r, seq, ack, flg, data, ok) ==
    LET cb   == r.cb
        seg  == [seq |-> seq, ack |-> ack, flg |-> flg, win |-> cb.rcv_wnd,
                 data |-> data]
        held == Queued(flg, data) /\ Held(cb, flg, data)
        sent == ok /\ ~held
        done == IF ~Queued(flg, data) THEN cb
                ELSE IF sent
                THEN [tcp_txq_add(cb, seg, 0) EXCEPT !.snt = Uint16(@ + Len(data))]
                ELSE tcp_txq_add(cb, seg, Unsent)
    IN  [cb |-> done, out |-> IF sent THEN r.out \cup {seg} ELSE r.out,
         wake |-> r.wake, push |-> r.push, failed |-> ~ok /\ ~held]

\* The segment every out-of-order or data segment is answered with.
SendAck(r, ok) ==
    tcp_tx(r, r.cb.snd_nxt, r.cb.rcv_nxt, {"ACK"}, <<>>, ok)

\* tcp_close_cb: snd, rcv, iss and the queue are cleared; used, port, peer,
\* parent, backlog, timeout and txq.snt keep what they had.  The bytes left in
\* the window are out of reach from here on: both ways out of CLOSED and LISTEN
\* set rcv.wnd back to the whole window.
tcp_close_cb(cb) ==
    [cb EXCEPT !.state = "CLOSED", !.snd_nxt = 0, !.snd_una = 0,
               !.snd_wl1 = 0, !.snd_wl2 = 0, !.snd_wnd = 0, !.iss = 0,
               !.rcv_nxt = 0, !.rcv_wnd = 0, !.txq = <<>>, !.buf = <<>>]

CloseCb(r) == With(r, tcp_close_cb(r.cb))

-----------------------------------------------------------------------------
(***************************************************************************)
(* tcp_event_segment_arrives, in the order of its checks.                  *)
(***************************************************************************)

\* case TCP_CB_STATE_CLOSED: an RST for anything but an RST.
ArrivesClosed(cb, seg, ok) ==
    IF "RST" \in seg.flg THEN Result(cb)
    ELSE IF "ACK" \in seg.flg
         THEN tcp_tx(Result(cb), seg.ack, 0, {"RST"}, <<>>, ok)
         ELSE tcp_tx(Result(cb), 0, SeqAdd(seg.seq, Len(seg.data)),
                     {"RST", "ACK"}, <<>>, ok)

\* Text is copied behind what the window holds and acknowledged; there is no
\* check that it fits.
TextReceived(r, seg, ok) ==
    Broadcast(SendAck(With(r,
      [r.cb EXCEPT !.buf = @ \o seg.data,
                   !.rcv_nxt = SeqAdd(seg.seq, Len(seg.data)),
                   !.rcv_wnd = Uint16(@ - Len(seg.data))]), ok))

MutSegmentText(r, seg, ok) ==
    IF r.cb.state \notin {"ESTABLISHED", "FIN_WAIT1", "FIN_WAIT2"} THEN r
    ELSE IF seg.data # <<>> THEN TextReceived(r, seg, ok)
    ELSE IF "PSH" \in seg.flg THEN Broadcast(SendAck(r, ok))
    ELSE r

\* Seventh: the segment text, taken only in order.
SegmentText(r, seg, ok) ==
    IF r.cb.state \notin {"ESTABLISHED", "FIN_WAIT1", "FIN_WAIT2"} THEN r
    ELSE IF seg.data # <<>> /\ r.cb.rcv_nxt = seg.seq THEN TextReceived(r, seg, ok)
    ELSE IF "PSH" \in seg.flg THEN Broadcast(SendAck(r, ok))
    ELSE r

\* rcv.nxt moves behind the FIN's own sequence number, then the state.
FinReceived(r, seg, ok) ==
    LET acked == SendAck(With(r, [r.cb EXCEPT !.rcv_nxt = SeqAdd(seg.seq, 1)]), ok)
        next  == CASE r.cb.state \in {"SYN_RCVD", "ESTABLISHED"} -> "CLOSE_WAIT"
                   [] r.cb.state = "FIN_WAIT1" -> "CLOSING"
                   [] r.cb.state = "FIN_WAIT2" -> "TIME_WAIT"
                   [] OTHER -> r.cb.state
    IN  With(acked, [acked.cb EXCEPT
                       !.state = next,
                       !.left = IF next = "TIME_WAIT"
                                THEN TimeWaitTimeout + 1 ELSE @])

\* Eighth: the FIN bit.
SegmentFin(r, seg, ok) ==
    IF "FIN" \in seg.flg THEN Broadcast(FinReceived(r, seg, ok)) ELSE r

TextAndFin(r, seg, ok) == SegmentFin(SegmentText(r, seg, ok), seg, ok)

\* case TCP_CB_STATE_LISTEN: the control block is the one just taken for a new
\* connection (or a listener whose stale peer matched).
ArrivesListen(cb, seg, iss, ok) ==
    LET reset == IF "ACK" \in seg.flg /\ "RST" \notin seg.flg
                 THEN tcp_tx(Result(cb), seg.ack, 0, {"RST"}, <<>>, ok)
                 ELSE Result(cb)
        ready == [cb EXCEPT !.rcv_wnd = WinSize, !.rcv_nxt = SeqAdd(seg.seq, 1),
                            !.iss = iss]
        synack == tcp_tx(Result(ready), iss, ready.rcv_nxt, {"SYN", "ACK"},
                         <<>>, ok)
    IN  IF "SYN" \in seg.flg /\ seg.flg \cap {"RST", "ACK"} = {}
        THEN TextAndFin(With(synack, [synack.cb EXCEPT
                                        !.snd_nxt = SeqAdd(iss, 1),
                                        !.snd_una = iss,
                                        !.left = UserTimeout + 1,
                                        !.state = "SYN_RCVD"]), seg, ok)
        ELSE Broadcast(With(reset, [tcp_close_cb(reset.cb) EXCEPT
                                      !.parent = NoParent]))

\* case TCP_CB_STATE_SYN_SENT.  The acknowledgement number is used to move
\* snd.una whether or not the ACK bit is set.
ArrivesSynSent(cb, seg, ok) ==
    LET ackOk == cb.snd_una <= seg.ack /\ seg.ack <= cb.snd_nxt
        una   == IF cb.snd_una < seg.ack THEN seg.ack ELSE cb.snd_una
        syn(state) ==
            Result([cb EXCEPT
                      !.rcv_nxt = SeqAdd(seg.seq, 1),
                      !.snd_una = una,
                      !.left = IF una # cb.snd_una THEN UserTimeout + 1 ELSE @,
                      !.state = state])
        estab == Signal(SendAck(syn("ESTABLISHED"), ok))
        rcvd  == Signal(tcp_tx(syn("SYN_RCVD"), cb.iss, SeqAdd(seg.seq, 1),
                               {"SYN", "ACK"}, <<>>, ok))
    IN  IF "ACK" \in seg.flg /\ (seg.ack <= cb.iss \/ seg.ack > cb.snd_nxt)
        THEN tcp_tx(Result(cb), seg.ack, 0, {"RST"}, <<>>, ok)
        ELSE IF "ACK" \in seg.flg /\ ~ackOk THEN Result(cb)
        ELSE IF "RST" \in seg.flg
        THEN IF "ACK" \in seg.flg THEN Signal(CloseCb(Result(cb))) ELSE Result(cb)
        ELSE IF "SYN" \notin seg.flg THEN Result(cb)
        ELSE IF una <= cb.iss THEN rcvd
        ELSE IF seg.data # <<>> THEN TextAndFin(estab, seg, ok) ELSE estab

\* First check of the synchronized states: the sequence number.  A segment is
\* acceptable as soon as its first byte is in the window.
SeqAcceptable(cb, seg) ==
    LET in(n) == cb.rcv_nxt <= seg.seq /\ n < SeqAdd(cb.rcv_nxt, cb.rcv_wnd)
    IN  IF cb.rcv_wnd > 0
        THEN in(seg.seq) \/ (seg.data # <<>> /\ in(seg.seq + Len(seg.data) - 1))
        ELSE seg.data = <<>> /\ seg.seq = cb.rcv_nxt

\* snd.una, the user timeout and the send window update.
AckTaken(r, seg) ==
    LET cb    == r.cb
        fresh == \/ cb.snd_wl1 < seg.seq
                 \/ cb.snd_wl1 = seg.seq /\ cb.snd_wl2 <= seg.ack
    IN  With(r, [cb EXCEPT
                   !.snd_una = seg.ack,
                   !.left = IF cb.snd_una < seg.ack THEN UserTimeout + 1 ELSE @,
                   !.snd_wnd = IF fresh THEN seg.win ELSE @,
                   !.snd_wl1 = IF fresh THEN seg.seq ELSE @,
                   !.snd_wl2 = IF fresh THEN seg.ack ELSE @])

MutAckUpdate(r, seg) == AckTaken(r, seg)

\* An acknowledgement between snd.una and snd.nxt, in the states SYN_RCVD has
\* fallen through to.
AckUpdate(r, seg) == Broadcast(AckTaken(r, seg))

\* The state change under "if this ACK is for sent FIN".
FinAcked(r, seg) ==
    LET next == CASE r.cb.state = "FIN_WAIT1" -> "FIN_WAIT2"
                  [] r.cb.state = "CLOSING" -> "TIME_WAIT"
                  [] OTHER -> r.cb.state
    IN  IF SeqAdd(seg.ack, 1) = r.cb.snd_nxt
        THEN With(r, [r.cb EXCEPT !.state = next]) ELSE r

\* Fifth: the ACK field.  [r, done]: done when the handler returns here.
SegmentAck(cb, seg, ok) ==
    LET inWindow == cb.snd_una <= seg.ack /\ seg.ack <= cb.snd_nxt
        \* SYN_RCVD with an acceptable ACK: established, then as the others
        estab == [cb |-> [cb EXCEPT !.state = "ESTABLISHED"], out |-> {},
                  wake |-> IF cb.parent = NoParent THEN "one" ELSE "none",
                  push |-> cb.parent # NoParent, failed |-> FALSE]
        r0    == IF cb.state = "SYN_RCVD" THEN estab ELSE Result(cb)
    IN  CASE "ACK" \notin seg.flg \/ cb.state = "TIME_WAIT" ->
               [r |-> Result(cb), done |-> FALSE]
          [] "ACK" \in seg.flg /\ cb.state = "LAST_ACK" ->
               IF seg.ack = cb.snd_nxt
               THEN [r |-> Broadcast(CloseCb(Result(cb))), done |-> TRUE]
               ELSE [r |-> Result(cb), done |-> FALSE]
          [] "ACK" \in seg.flg /\ cb.state = "SYN_RCVD" /\ ~inWindow ->
               [r |-> tcp_tx(Result(cb), seg.ack, cb.rcv_nxt, {"RST"}, <<>>, ok),
                done |-> FALSE]
          [] OTHER ->
               IF seg.ack > cb.snd_nxt
               THEN [r |-> SendAck(r0, ok), done |-> TRUE]
               ELSE [r |-> FinAcked(IF inWindow THEN AckUpdate(r0, seg) ELSE r0,
                                    seg),
                     done |-> FALSE]

\* The states from SYN_RCVD on.
ArrivesSynchronized(cb, seg, ok) ==
    LET acked == SegmentAck(cb, seg, ok)
    IN  IF ~SeqAcceptable(cb, seg)
        THEN IF "RST" \in seg.flg THEN Result(cb) ELSE SendAck(Result(cb), ok)
        ELSE IF "RST" \in seg.flg
        THEN IF cb.state = "SYN_RCVD" THEN Signal(CloseCb(Result(cb)))
             ELSE Broadcast(CloseCb(Result(cb)))
        ELSE IF "SYN" \in seg.flg
        THEN Broadcast(CloseCb(
               tcp_tx(Result(cb), 0, cb.rcv_nxt, {"RST"}, <<>>, ok)))
        ELSE IF acked.done THEN acked.r
        ELSE TextAndFin(acked.r, seg, ok)

tcp_event_segment_arrives(cb, seg, iss, ok) ==
    CASE cb.state = "CLOSED"   -> ArrivesClosed(cb, seg, ok)
      [] cb.state = "LISTEN"   -> ArrivesListen(cb, seg, iss, ok)
      [] cb.state = "SYN_SENT" -> ArrivesSynSent(cb, seg, ok)
      [] OTHER                 -> ArrivesSynchronized(cb, seg, ok)

-----------------------------------------------------------------------------
(***************************************************************************)
(* The timer thread's visit of one control block, and the clock.           *)
(***************************************************************************)

\* Data bytes in the first n entries of a queue.
DataLen(txq, n) ==
    LET sum[i \in 0..n] ==
          IF i = 0 THEN 0 ELSE sum[i - 1] + Len(txq[i].seg.data)
    IN  sum[n]

MutTimedOut(cb) == cb.state = "TIME_WAIT" /\ cb.left = 0

\* Nothing acknowledged for USER_TIMEOUT, or TIME_WAIT is over.
TimedOut(cb) ==
    /\ cb.state # "CLOSED"
    /\ cb.snd_una # cb.snd_nxt \/ cb.state = "TIME_WAIT"
    /\ cb.left = 0

MutUnacked(cb, entry) == entry.seg.seq > cb.snd_una

\* Entries that stay queued.
Unacked(cb, entry) == entry.seg.seq >= cb.snd_una

\* What is left of the queue when the loop has unlinked the other entries.
Kept(cb) ==
    LET kept[i \in 0..Len(cb.txq)] ==
          IF i = 0 THEN <<>>
          ELSE IF Unacked(cb, cb.txq[i]) THEN Append(kept[i - 1], cb.txq[i])
          ELSE kept[i - 1]
    IN  kept[Len(cb.txq)]

\* The kept entries that are sent: those that start inside the send window and
\* were never sent or were sent more than RtxTimeout ago.
Due(cb) ==
    {i \in DOMAIN Kept(cb) :
       /\ DataLen(Kept(cb), i - 1) < cb.snd_wnd
       /\ Kept(cb)[i].age = Unsent \/ Kept(cb)[i].age > RtxTimeout}

SentAgain(cb, i) == [Kept(cb)[i].seg EXCEPT !.ack = cb.rcv_nxt]

TimerQueue(cb) ==
    [i \in DOMAIN Kept(cb) |->
       IF i \in Due(cb) THEN [seg |-> SentAgain(cb, i), age |-> 0]
       ELSE Kept(cb)[i]]

\* Removing an entry subtracts its length from txq.snt, whoever sent it.
TimerSnt(cb) ==
    Uint16(cb.snt - (DataLen(cb.txq, Len(cb.txq))
                       - DataLen(Kept(cb), Len(Kept(cb)))))

TimerTxq(cb) ==
    [cb |-> [cb EXCEPT !.txq = TimerQueue(cb), !.snt = TimerSnt(cb)],
     out |-> {SentAgain(cb, i) : i \in Due(cb)},
     wake |-> "none", push |-> FALSE, failed |-> FALSE]

MutTimerCb(cb) ==
    IF cb.state = "CLOSED" THEN Result(cb)
    ELSE IF TimedOut(cb) THEN CloseCb(Result(cb))
    ELSE TimerTxq(cb)

tcp_timer_cb(cb) ==
    IF cb.state = "CLOSED" THEN Result(cb)
    ELSE IF TimedOut(cb) THEN Broadcast(CloseCb(Result(cb)))
    ELSE TimerTxq(cb)

\* One second passes (gettimeofday).
Aged(e) == [e EXCEPT !.age = IF @ = Unsent \/ @ > RtxTimeout THEN @ ELSE @ + 1]

TickCb(cb) ==
    [cb EXCEPT !.left = IF @ > 0 THEN @ - 1 ELSE 0,
               !.txq = [i \in DOMAIN cb.txq |-> Aged(cb.txq[i])]]

-----------------------------------------------------------------------------
(***************************************************************************)
(* The parts of CONNECT and CLOSE that concern the control block alone.    *)
(***************************************************************************)

MutCloseFin(cb, state, ok) ==
    LET r == tcp_tx(Result(cb), cb.snd_nxt, cb.rcv_nxt, {"FIN", "ACK"}, <<>>, ok)
    IN  With(r, [r.cb EXCEPT !.state = state])

\* CLOSE of a connection: the FIN takes a sequence number.  The user timeout
\* is not restarted.
CloseFin(cb, state, ok) ==
    LET r == tcp_tx(Result(cb), cb.snd_nxt, cb.rcv_nxt, {"FIN", "ACK"}, <<>>, ok)
    IN  With(r, [r.cb EXCEPT !.snd_nxt = SeqAdd(@, 1), !.state = state])

\* tcp_close on a used control block; popping a listener's backlog is left to
\* the module that holds the table.  `used' is cleared even when -1 is returned.
tcp_close(cb, ok) ==
    LET c0 == [cb EXCEPT !.used = FALSE]
    IN  CASE cb.state = "LISTEN" ->
               Broadcast(CloseCb(Result([c0 EXCEPT !.backlog = <<>>])))
          [] cb.state = "SYN_SENT" -> Broadcast(CloseCb(Result(c0)))
          [] cb.state \in {"SYN_RCVD", "ESTABLISHED"} -> CloseFin(c0, "FIN_WAIT1", ok)
          [] cb.state = "CLOSE_WAIT" -> CloseFin(c0, "CLOSING", ok)
          [] OTHER -> Result(c0)

\* tcp_api_connect from "initalize cb" to the wait.
ConnectCb(cb, port, peer, iss, ok) ==
    LET c0 == [cb EXCEPT !.port = port, !.peer = peer, !.rcv_wnd = WinSize,
                         !.iss = iss]
        syn == tcp_tx(Result(c0), iss, 0, {"SYN"}, <<>>, ok)
    IN  IF syn.failed THEN syn
        ELSE With(syn, [syn.cb EXCEPT !.snd_nxt = SeqAdd(iss, 1), !.snd_una = iss,
                                      !.left = UserTimeout + 1,
                                      !.state = "SYN_SENT"])
=============================================================================
