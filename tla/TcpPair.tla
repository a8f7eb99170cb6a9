------------------------------- MODULE TcpPair -------------------------------
(***************************************************************************)
(* One connection between two hosts that both run this stack, over a       *)
(* network that may lose, duplicate and reorder: A has called connect, B   *)
(* has a control block taken by its listener.  At each end one thread may  *)
(* be in tcp_api_send and one in tcp_api_recv, beside the receive thread   *)
(* and the timer thread.                                                   *)
(*                                                                         *)
(* The mutex of each host is explicit here, because tcp_api_send runs its  *)
(* loop over segments under it and one return path does not release it.    *)
(***************************************************************************)
EXTENDS TcpCb

CONSTANTS
    Iss,         \* Iss[e]: what random() gave at e
    Mss,         \* payload of a full segment (mtu minus headers)
    SndBufSize,  \* TCP_SND_BUF_SIZE
    Stream,      \* Stream[e]: the bytes the application at e sends
    RecvSize,    \* size of the buffer passed to recv
    Readers,     \* the ends whose application calls recv
    Closers,     \* the ends whose application calls close
    TxOk,        \* outcomes of ip_tx: {TRUE} or {TRUE, FALSE}
    Lossy,       \* the network may lose and duplicate
    InOrder,     \* no segment overtakes one with a smaller sequence number
    MaxNet       \* MaxNet[e]: segments in flight to e; a full link loses

Ends == {"A", "B"}
Other(e) == IF e = "A" THEN "B" ELSE "A"

ASSUME PairAssumption ==
    /\ Mss \in Nat \ {0} /\ RecvSize \in Nat \ {0}
    /\ SndBufSize \in 1..(WinSize - 1)
    /\ TxOk \subseteq BOOLEAN /\ Lossy \in BOOLEAN /\ InOrder \in BOOLEAN
    /\ \A e \in Ends : MaxNet[e] \in Nat \ {0}
    /\ Readers \subseteq Ends /\ Closers \subseteq Ends
    /\ \A e \in Ends : Iss[e] \in Nat /\ Iss[e] + Len(Stream[e]) + 2 < SeqSpace

Bytes == UNION {ToSet(Stream[e]) : e \in Ends}
ASSUME StreamAssumption == Stream \in [Ends -> Seq(Bytes)]

VARIABLES
    cb,       \* the control block at each end
    net,      \* net[e]: the set of segments on their way to e
    mutex,    \* "free", "send" (inside tcp_api_send) or "leaked"
    sender,   \* the thread in tcp_api_send: "idle", "run", "wait", "woken"
    todo,     \* what the application at e has not passed to send yet
    recver,   \* the thread in tcp_api_recv: "idle", "wait", "woken"
    got,      \* what recv returned at e
    pushed    \* B is in its listener's backlog

vars == <<cb, net, mutex, sender, todo, recver, got, pushed>>

\* What tcp_rx makes of a free control block when B's listener is addressed.
Taken == [ZeroCb("A") EXCEPT !.state = "LISTEN", !.port = 1, !.parent = 1]

Init ==
    LET syn == ConnectCb([ZeroCb("B") EXCEPT !.used = TRUE], 1, "B", Iss["A"], TRUE)
    IN  /\ cb = [e \in Ends |-> IF e = "A" THEN syn.cb ELSE Taken]
        /\ net = [e \in Ends |-> IF e = "B" THEN syn.out ELSE {}]
        /\ mutex = [e \in Ends |-> "free"]
        /\ sender = [e \in Ends |-> "idle"]
        /\ todo = Stream
        /\ recver = [e \in Ends |-> "idle"]
        /\ got = [e \in Ends |-> <<>>]
        /\ pushed = FALSE

-----------------------------------------------------------------------------
\* Text beyond the window was copied over what lies behind it.  What e does
\* after that is undefined; the model follows e up to there.
Overrun(e) == Len(cb[e].buf) > WinSize

\* A thread that waits for the mutex of e gets it.
Unlocked(e) == mutex[e] = "free" /\ ~Overrun(e)

\* Segments handed to ip_tx.
Sent(n, e, out) ==
    [n EXCEPT ![Other(e)] = IF Cardinality(@ \cup out) <= MaxNet[Other(e)]
                            THEN @ \cup out ELSE @]

\* Both threads wait on the same cond; every notification of a synchronized
\* connection is a broadcast, and nobody waits before.
Wakes(r) == r.wake # "none"
Woken(th, e, r) == [th EXCEPT ![e] = IF Wakes(r) /\ @ = "wait" THEN "woken" ELSE @]

Apply(e, r) ==
    /\ cb' = [cb EXCEPT ![e] = r.cb]
    /\ sender' = Woken(sender, e, r)
    /\ recver' = Woken(recver, e, r)

-----------------------------------------------------------------------------
(***************************************************************************)
(* tcp_api_send: from the check of cb->used to the return, one segment a   *)
(* step, the mutex held in between.                                        *)
(***************************************************************************)
SendCall(e) ==
    /\ sender[e] = "idle" /\ todo[e] # <<>>
    /\ Unlocked(e) /\ cb[e].used
    /\ sender' = [sender EXCEPT ![e] = "run"]
    /\ mutex' = [mutex EXCEPT ![e] = "send"]
    /\ UNCHANGED <<cb, net, todo, recver, got, pushed>>

\* pthread_cond_wait returns with the mutex.
SendWake(e) ==
    /\ sender[e] = "woken" /\ Unlocked(e)
    /\ sender' = [sender EXCEPT ![e] = "run"]
    /\ mutex' = [mutex EXCEPT ![e] = "send"]
    /\ UNCHANGED <<cb, net, todo, recver, got, pushed>>

SendReturn(e, m) ==
    /\ sender' = [sender EXCEPT ![e] = "idle"]
    /\ mutex' = [mutex EXCEPT ![e] = m]

\* The state allows no sending: -1, and the application gives up.
SendRefused(e) ==
    /\ sender[e] = "run"
    /\ cb[e].state \notin {"ESTABLISHED", "CLOSE_WAIT"}
    /\ SendReturn(e, "free")
    /\ UNCHANGED <<cb, net, todo, recver, got, pushed>>

\* Room in the send buffer, as a uint16_t.
SndRoom(c) == Uint16(SndBufSize - (c.snd_nxt - c.snd_una))

\* "wait until some data ack"
SendWait(e) ==
    /\ sender[e] = "run"
    /\ cb[e].state \in {"ESTABLISHED", "CLOSE_WAIT"}
    /\ SndRoom(cb[e]) = 0
    /\ sender' = [sender EXCEPT ![e] = "wait"]
    /\ mutex' = [mutex EXCEPT ![e] = "free"]
    /\ UNCHANGED <<cb, net, todo, recver, got, pushed>>

\* One segment.  When tcp_tx fails the call returns with the mutex locked.
SendSegment(e, ok) ==
    LET c    == cb[e]
        size == Min({Mss, Len(todo[e]), SndRoom(c)})
        r    == tcp_tx(Result(c), c.snd_nxt, c.rcv_nxt, {"PSH", "ACK"},
                       SubSeq(todo[e], 1, size), ok)
        rest == SubSeq(todo[e], size + 1, Len(todo[e]))
    IN  /\ sender[e] = "run"
        /\ c.state \in {"ESTABLISHED", "CLOSE_WAIT"}
        /\ SndRoom(c) > 0
        /\ net' = Sent(net, e, r.out)
        /\ IF r.failed
           THEN /\ SendReturn(e, "leaked")
                /\ cb' = [cb EXCEPT ![e] = r.cb]
                /\ UNCHANGED todo
           ELSE /\ cb' = [cb EXCEPT ![e] = [r.cb EXCEPT
                                              !.snd_nxt = SeqAdd(@, size),
                                              !.left = UserTimeout + 1]]
                /\ todo' = [todo EXCEPT ![e] = rest]
                /\ IF rest = <<>> THEN SendReturn(e, "free")
                   ELSE UNCHANGED <<sender, mutex>>
        /\ UNCHANGED <<recver, got, pushed>>

-----------------------------------------------------------------------------
(***************************************************************************)
(* tcp_api_recv, entered by the call and after each wake-up.               *)
(***************************************************************************)
MutRead(c, len) == [c EXCEPT !.buf = SubSeq(@, len + 1, Len(@)),
                             !.rcv_wnd = Uint16(@ + RecvSize)]

\* len bytes leave the window.
Read(c, len) == [c EXCEPT !.buf = SubSeq(@, len + 1, Len(@)),
                          !.rcv_wnd = Uint16(@ + len)]

RecvLoop(e) ==
    LET c     == cb[e]
        total == WinSize - c.rcv_wnd
        len   == Min({total, RecvSize})
    IN  /\ Unlocked(e)
        /\ IF c.state \notin {"CLOSE_WAIT", "ESTABLISHED", "FIN_WAIT1", "FIN_WAIT2"}
           THEN recver' = [recver EXCEPT ![e] = "idle"] /\ UNCHANGED <<cb, got>>
           ELSE IF total = 0
           THEN /\ recver' = [recver EXCEPT ![e] =
                                IF c.state = "CLOSE_WAIT" THEN "idle" ELSE "wait"]
                /\ UNCHANGED <<cb, got>>
           ELSE /\ recver' = [recver EXCEPT ![e] = "idle"]
                /\ got' = [got EXCEPT ![e] = @ \o SubSeq(c.buf, 1, len)]
                /\ cb' = [cb EXCEPT ![e] = Read(@, len)]
        /\ UNCHANGED <<net, mutex, sender, todo, pushed>>

RecvCall(e) == e \in Readers /\ recver[e] = "idle" /\ cb[e].used /\ RecvLoop(e)
RecvWake(e) == recver[e] = "woken" /\ RecvLoop(e)

\* tcp_api_accept at B.
Accept ==
    /\ pushed /\ Unlocked("B")
    /\ cb' = [cb EXCEPT !["B"].used = TRUE]
    /\ pushed' = FALSE
    /\ UNCHANGED <<net, mutex, sender, todo, recver, got>>

\* tcp_api_close, whatever other threads are in: one asleep in send or recv
\* sleeps on when a FIN is sent.
Close(e, ok) ==
    LET r == tcp_close(cb[e], ok)
    IN  /\ e \in Closers /\ Unlocked(e) /\ cb[e].used
        /\ Apply(e, r)
        /\ net' = Sent(net, e, r.out)
        /\ UNCHANGED <<mutex, todo, got, pushed>>

-----------------------------------------------------------------------------
(***************************************************************************)
(* The receive thread, the timer thread, the clock and the network.        *)
(***************************************************************************)
Deliverable(e) ==
    {seg \in net[e] : InOrder => \A s \in net[e] : seg.seq <= s.seq}

\* The answer to a segment for a control block that was freed: at B a block
\* taken for the listener resets it (a SYN would open another connection, which
\* is not part of this one); at A it carries port 0 and reaches nobody.
Stray(e, seg, ok) ==
    IF e = "B" /\ "SYN" \notin seg.flg
    THEN ArrivesListen(Taken, seg, Iss[e], ok).out ELSE {}

\* tcp_rx.
Rx(e, seg, keep, ok) ==
    LET r == tcp_event_segment_arrives(cb[e], seg, Iss[e], ok)
        n == IF keep THEN net ELSE [net EXCEPT ![e] = @ \ {seg}]
    IN  /\ Unlocked(e)
        /\ IF IS_FREE_CB(cb[e])
           THEN /\ net' = Sent(n, e, Stray(e, seg, ok))
                /\ UNCHANGED <<cb, sender, recver, pushed>>
           ELSE /\ Apply(e, r)
                /\ net' = Sent(n, e, r.out)
                /\ pushed' = (pushed \/ r.push)
        /\ UNCHANGED <<mutex, todo, got>>

TimerPass(e) ==
    /\ Unlocked(e)
    /\ \E r \in {tcp_timer_cb(cb[e])} : Apply(e, r) /\ net' = Sent(net, e, r.out)
    /\ UNCHANGED <<mutex, todo, got, pushed>>

Tick ==
    /\ cb' = [e \in Ends |-> TickCb(cb[e])]
    /\ UNCHANGED <<net, mutex, sender, todo, recver, got, pushed>>

Lose(e) ==
    /\ Lossy
    /\ \E seg \in net[e] : net' = [net EXCEPT ![e] = @ \ {seg}]
    /\ UNCHANGED <<cb, mutex, sender, todo, recver, got, pushed>>

Deliver(e) ==
    \E seg \in Deliverable(e), ok \in TxOk, keep \in {FALSE, Lossy} :
        Rx(e, seg, keep, ok)

Next ==
    \/ \E e \in Ends :
         \/ SendCall(e) \/ SendWake(e) \/ SendRefused(e) \/ SendWait(e)
         \/ RecvCall(e) \/ RecvWake(e)
         \/ \E ok \in TxOk : SendSegment(e, ok) \/ Close(e, ok)
         \/ Deliver(e)
         \/ TimerPass(e)
         \/ Lose(e)
    \/ Accept
    \/ Tick

Spec == Init /\ [][Next]_vars

(***************************************************************************)
(* Fairness: the clock and the timer thread run, a thread that was woken   *)
(* or is inside send goes on.  Nothing is assumed of the network.          *)
(***************************************************************************)
SendStep(e) ==
    \/ SendWake(e) \/ SendRefused(e) \/ SendWait(e)
    \/ \E ok \in TxOk : SendSegment(e, ok)

Fairness ==
    /\ WF_vars(Tick)
    /\ \A e \in Ends :
         WF_vars(TimerPass(e)) /\ WF_vars(SendStep(e)) /\ WF_vars(RecvWake(e))

FairSpec == Spec /\ Fairness

\* ... and a network that delivers.
DeliverySpec == FairSpec /\ \A e \in Ends : WF_vars(Deliver(e))

-----------------------------------------------------------------------------
Synchronized(e) == cb[e].state \notin {"CLOSED", "LISTEN", "SYN_SENT"}
SegType == [seq : SeqNos, ack : SeqNos, flg : SUBSET Flags, win : Wnds,
            data : Seq(Bytes)]

\* Control blocks, threads, mutexes and the network are well formed.
TypeOK ==
    /\ \A e \in Ends :
         /\ cb[e].state \in States
         /\ {cb[e].snd_nxt, cb[e].snd_una, cb[e].snd_wl1, cb[e].snd_wl2,
             cb[e].rcv_nxt} \subseteq SeqNos
         /\ {cb[e].snd_wnd, cb[e].rcv_wnd, cb[e].snt} \subseteq Wnds
         /\ \A i \in DOMAIN cb[e].txq : cb[e].txq[i].seg \in SegType
         /\ \A s \in net[e] : s \in SegType
    /\ mutex \in [Ends -> {"free", "send", "leaked"}]
    /\ sender \in [Ends -> {"idle", "run", "wait", "woken"}]
    /\ recver \in [Ends -> {"idle", "wait", "woken"}]
    /\ pushed \in BOOLEAN

\* The byte stream this connection carries: what a call of send has passed on,
\* what recv returned and what it would return, and the peer's FIN.
Streams == INSTANCE StreamSpec WITH
    sent <- [e \in Ends |-> SubSeq(Stream[e], 1, Len(Stream[e]) - Len(todo[e]))],
    received <- [e \in Ends |-> got[e] \o cb[e].buf],
    read <- got,
    eof <- [e \in Ends |-> cb[e].state = "CLOSE_WAIT"]

\* A connection implements a byte stream: what arrives is what was sent, in order
\* and once, nothing that arrived is taken back, and the end of the stream comes
\* behind all data.  While nobody closes this is so whatever is lost, repeated,
\* reordered and retransmitted; with closes only on a network that neither loses
\* nor reorders, since a FIN is taken although data before it is missing.
ImplementsStream == Streams!Spec

\* Everything sent and not acknowledged is still queued for retransmission:
\* the timer thread never frees an entry the peer has not taken over.
UnackedQueued ==
    \A e \in Ends : Synchronized(e) =>
        \A n \in cb[e].snd_una..(cb[e].snd_nxt - 1) :
            \E i \in DOMAIN cb[e].txq :
                LET s == cb[e].txq[i].seg
                IN  s.seq <= n /\ n < s.seq + Len(s.data)
                                      + Cardinality(s.flg \cap {"SYN", "FIN"})

\* Number of data bytes end e takes for acknowledged.
AckedBytes(e) == Min({cb[e].snd_una - Iss[e] - 1, Len(Stream[e]) - Len(todo[e])})

\* What one end takes for acknowledged, and frees, the other one has: of
\* connections nobody closes, as a FIN acknowledges what never arrived.
AckedDelivered ==
    \A e \in Ends : Synchronized(e) /\ Synchronized(Other(e)) =>
        AckedBytes(e) <= Len(got[Other(e)]) + Len(cb[Other(e)].buf)

\* rcv.wnd accounts for the window: what recv takes for readable,
\* sizeof(window) - rcv.wnd bytes, is what was copied there and not yet read,
\* as long as the peer has not been let send more than the window holds.
WindowAccounts ==
    \A e \in Ends : Synchronized(e) /\ ~Overrun(e) =>
        Len(cb[e].buf) = WinSize - cb[e].rcv_wnd

\* No lost wake-up in recv: a thread sleeps in it only while there is nothing
\* to read and more may come.
RecvNoLostWakeup ==
    \A e \in Ends : recver[e] = "wait" =>
        /\ cb[e].rcv_wnd = WinSize
        /\ cb[e].state \in {"ESTABLISHED", "FIN_WAIT1", "FIN_WAIT2"}

\* No lost wake-up in send: while a thread sleeps in it something sent, a FIN
\* included, is not acknowledged, so that an ACK or else the user timeout, which
\* both broadcast, is still to come; and as long as the connection may send, the
\* send buffer is full.  A close by another thread does not change that.
SendNoLostWakeup ==
    \A e \in Ends : sender[e] = "wait" =>
        /\ cb[e].state # "CLOSED" /\ cb[e].snd_una # cb[e].snd_nxt
        /\ cb[e].state \in {"ESTABLISHED", "CLOSE_WAIT"} => SndRoom(cb[e]) = 0

\* send returns, whether or not the peer ever acknowledges anything.
SendReturns == \A e \in Ends : sender[e] # "idle" ~> sender[e] = "idle"

-----------------------------------------------------------------------------
(***************************************************************************)
(* What comments, the README and tests of the repository say.              *)
(***************************************************************************)

HasUnsent(e) == \E i \in DOMAIN cb[e].txq : cb[e].txq[i].age = Unsent

\* "segment is stored in txq and send later in timer_thread" (tcp.c:771): a
\* segment held back is sent while the connection lasts.
HeldIsSent ==
    \A e \in Ends : HasUnsent(e) ~> ~HasUnsent(e) /\ cb[e].state # "CLOSED"
=============================================================================
