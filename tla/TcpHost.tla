------------------------------- MODULE TcpHost -------------------------------
(***************************************************************************)
(* One host: the table of control blocks, the application threads calling  *)
(* tcp_api_open/close/connect/bind/listen/accept, the receive thread       *)
(* (tcp_rx) and the timer thread.  Every call runs under the one mutex of  *)
(* tcp.c, so a call is one step, except that connect and accept release it *)
(* in pthread_cond_wait: each is a step up to the wait and one per wake-up. *)
(*                                                                         *)
(* The peers are an environment that may send any segment of Segments at   *)
(* any time.  Segments carry no data; send, recv and the data stream are   *)
(* in TcpPair.                                                             *)
(***************************************************************************)
EXTENDS TcpCb

CONSTANTS
    NCb,          \* TCP_CB_TABLE_SIZE
    Threads,      \* application threads
    Peers,        \* remote address and port pairs
    NoPeer,       \* the peer of a control block that never had one
    Ports,        \* ports applications bind
    Ephemeral,    \* TCP_SOURCE_PORT_MIN..TCP_SOURCE_PORT_MAX
    Targets,      \* the peers applications connect to
    NoRoute,      \* those for which ip_netif_by_peer may return NULL
    IssSet,       \* values of random()
    Segments,     \* what the peers may send
    TxOk,         \* outcomes of ip_tx: {TRUE} or {TRUE, FALSE}
    Shared,       \* may a thread close, connect or listen on a socket another
                  \* thread is blocked on
    FreshListen,  \* do applications listen only on sockets that never had a peer
    MaxBacklog,   \* bound on a backlog (unbounded in the code)
    MaxTxq        \* bound on the SYNs failed connects leave queued

ASSUME HostAssumption ==
    /\ NCb \in Nat \ {0} /\ MaxBacklog \in Nat /\ MaxTxq \in Nat
    /\ NoPeer \notin Peers /\ Targets \subseteq Peers /\ NoRoute \subseteq Targets
    /\ Ports \subseteq Nat \ {NoPort} /\ Ephemeral \subseteq Nat \ {NoPort}
    /\ TxOk \subseteq BOOLEAN /\ Shared \in BOOLEAN /\ FreshListen \in BOOLEAN

ASSUME ThreadsAssumption == IsFiniteSet(Threads)

\* random() stays below 2^31, so no data-free connection wraps.
ASSUME IssAssumption == \A iss \in IssSet : iss \in Nat /\ iss + 2 < SeqSpace

SegType == [seq : SeqNos, ack : SeqNos, flg : SUBSET Flags, win : Wnds,
            data : {<<>>}]

\* A segment without the ACK bit has a zero acknowledgement number.
ASSUME SegmentsAssumption ==
    /\ Segments \subseteq SegType
    /\ \A seg \in Segments : "ACK" \notin seg.flg => seg.ack = 0

VARIABLES
    cbs,   \* cb_table
    thr    \* the blocking call each application thread is in

vars == <<cbs, thr>>

Cbs == 1..NCb
Idle == [op |-> "idle", soc |-> 0, woken |-> FALSE]
Blocked(op, s) == [op |-> op, soc |-> s, woken |-> FALSE]

Init ==
    /\ cbs = [c \in Cbs |-> ZeroCb(NoPeer)]
    /\ thr = [t \in Threads |-> Idle]

-----------------------------------------------------------------------------
(***************************************************************************)
(* Condition variables: the threads blocked on cbs[c].cond and not yet     *)
(* woken, and what a notification may do to the threads.                   *)
(***************************************************************************)
Waiting(c) == {t \in Threads : thr[t].soc = c /\ ~thr[t].woken}

WakeAll(C) == [t \in Threads |-> IF thr[t].soc \in C
                                 THEN [thr[t] EXCEPT !.woken = TRUE] ELSE thr[t]]

WakeOne(c) == IF Waiting(c) = {} THEN {thr}
              ELSE {[thr EXCEPT ![t].woken = TRUE] : t \in Waiting(c)}

MutNotify(c, r) ==
    CASE r.wake = "all" -> {WakeAll({c})}
      [] r.wake = "one" -> WakeOne(c)
      [] OTHER -> {thr}

\* The notifications of one handler run on control block c.
Notify(c, r) ==
    IF r.push THEN {[t \in Threads |-> IF r.wake = "all" /\ th[t].soc = c
                                       THEN [th[t] EXCEPT !.woken = TRUE]
                                       ELSE th[t]] : th \in WakeOne(r.cb.parent)}
    ELSE CASE r.wake = "all" -> {WakeAll({c})}
           [] r.wake = "one" -> WakeOne(c)
           [] OTHER -> {thr}

-----------------------------------------------------------------------------
(***************************************************************************)
(* The application interface.  A call that is refused changes nothing.     *)
(***************************************************************************)
Idling(t) == thr[t] = Idle
Usable(s) == Shared \/ \A u \in Threads : thr[u].soc # s

Free == {c \in Cbs : IS_FREE_CB(cbs[c])}

\* tcp_api_open takes the first free control block.
Open(t) ==
    /\ Idling(t)
    /\ Free # {}
    /\ cbs' = [cbs EXCEPT ![Min(Free)].used = TRUE]
    /\ UNCHANGED thr

\* The control blocks tcp_close(cb) is called on: cb and, when a used one is
\* a listener, whatever its backlog holds (the call is recursive).
CloseSet(s) ==
    {c \in Cbs : \A S \in SUBSET Cbs :
        (/\ s \in S
         /\ \A l \in S : cbs[l].used /\ cbs[l].state = "LISTEN"
                            => ToSet(cbs[l].backlog) \subseteq S) => c \in S}

\* tcp_api_close.  tcp_close does nothing to a control block not in use.
Close(t, s, ok) ==
    LET closed == {c \in CloseSet(s) : cbs[c].used}
        r == [c \in closed |-> tcp_close(cbs[c], ok)]
    IN  /\ Idling(t)
        /\ cbs[s].used
        /\ Usable(s)
        /\ cbs' = [c \in Cbs |-> IF c \in closed THEN r[c].cb ELSE cbs[c]]
        /\ thr' = WakeAll({c \in closed : r[c].wake = "all"})

\* The port connect uses: the one the control block has, or an ephemeral one
\* no control block in use has.
ConnectPorts(s) ==
    IF cbs[s].port # NoPort THEN {cbs[s].port}
    ELSE {p \in Ephemeral : \A c \in Cbs \ Free : cbs[c].port # p}

\* tcp_api_connect up to pthread_cond_wait.
Connect(t, s, peer, iss, ok) ==
    /\ Idling(t) /\ Usable(s)
    /\ cbs[s].used /\ cbs[s].state = "CLOSED"
    /\ Len(cbs[s].txq) < MaxTxq
    /\ \E port \in ConnectPorts(s) :
         LET r == ConnectCb(cbs[s], port, peer, iss, ok)
         IN  /\ cbs' = [cbs EXCEPT ![s] = r.cb]
             /\ thr' = IF r.failed THEN thr
                       ELSE [thr EXCEPT ![t] = Blocked("connect", s)]

\* ... and its return when no interface is registered yet, at any time here:
\* port and peer stay.
ConnectNoRoute(t, s, peer) ==
    /\ Idling(t) /\ Usable(s)
    /\ cbs[s].used /\ cbs[s].state = "CLOSED"
    /\ \E port \in ConnectPorts(s) :
         cbs' = [cbs EXCEPT ![s] = [@ EXCEPT !.port = port, !.peer = peer]]
    /\ UNCHANGED thr

\* ... and from a wake-up on: wait again in SYN_SENT, else return 0.
ConnectWake(t) ==
    /\ thr[t].op = "connect" /\ thr[t].woken
    /\ thr' = [thr EXCEPT ![t] =
                 IF cbs[thr[t].soc].state = "SYN_SENT"
                 THEN Blocked("connect", thr[t].soc) ELSE Idle]
    /\ UNCHANGED cbs

\* tcp_api_bind.  The ports of free control blocks count as used.
Bind(t, s, port) ==
    /\ Idling(t)
    /\ \A c \in Cbs : cbs[c].port # port
    /\ cbs[s].used /\ cbs[s].state = "CLOSED"
    /\ cbs' = [cbs EXCEPT ![s].port = port]
    /\ UNCHANGED thr

\* tcp_api_listen.
Listen(t, s) ==
    /\ Idling(t) /\ Usable(s)
    /\ cbs[s].used /\ cbs[s].state = "CLOSED" /\ cbs[s].port # NoPort
    /\ FreshListen => cbs[s].peer = NoPeer
    /\ cbs' = [cbs EXCEPT ![s].state = "LISTEN"]
    /\ UNCHANGED thr

\* The loop of tcp_api_accept, entered by the call and after each wake-up.
AcceptLoop(t, s) ==
    LET l == cbs[s]
    IN  IF l.state # "LISTEN"
        THEN /\ thr' = [thr EXCEPT ![t] = Idle]
             /\ UNCHANGED cbs
        ELSE IF l.backlog = <<>>
        THEN /\ thr' = [thr EXCEPT ![t] = Blocked("accept", s)]
             /\ UNCHANGED cbs
        ELSE /\ thr' = [thr EXCEPT ![t] = Idle]
             /\ cbs' = [cbs EXCEPT ![s].backlog = Tail(@),
                                   ![Head(l.backlog)].used = TRUE]

Accept(t, s) ==
    /\ Idling(t)
    /\ cbs[s].used /\ cbs[s].state = "LISTEN"
    /\ AcceptLoop(t, s)

AcceptWake(t) ==
    /\ thr[t].op = "accept" /\ thr[t].woken
    /\ AcceptLoop(t, thr[t].soc)

-----------------------------------------------------------------------------
(***************************************************************************)
(* The receive thread and the timer thread.                                *)
(***************************************************************************)

MutMatching(peer, port) ==
    {c \in Cbs : cbs[c].used /\ cbs[c].port = port /\ cbs[c].peer = peer}

\* The control blocks a segment from peer to port belongs to, and listeners.
Matching(peer, port) ==
    {c \in Cbs \ Free : cbs[c].port = port /\ cbs[c].peer = peer}
Listening(port) ==
    {c \in Cbs \ Free : cbs[c].port = port /\ cbs[c].state = "LISTEN"}

\* The free control block f prepared by tcp_rx for a segment nothing matches.
Prepared(f, peer, port) ==
    IF Listening(port) # {}
    THEN [cbs[f] EXCEPT !.state = "LISTEN", !.port = port, !.peer = peer,
                        !.parent = Min(Listening(port))]
    ELSE [cbs[f] EXCEPT !.port = NoPort, !.peer = peer]

\* tcp_rx: the first match, else the first free one; dropped when neither is.
Rx(peer, port, seg, iss, ok) ==
    LET m == Matching(peer, port)
        c == IF m # {} THEN Min(m) ELSE Min(Free)
        r == tcp_event_segment_arrives(
               IF m # {} THEN cbs[c] ELSE Prepared(c, peer, port), seg, iss, ok)
    IN  /\ m # {} \/ Free # {}
        /\ r.push => Len(cbs[r.cb.parent].backlog) < MaxBacklog
        /\ cbs' = IF r.push
                  THEN [[cbs EXCEPT ![c] = r.cb]
                          EXCEPT ![r.cb.parent].backlog = Append(@, c)]
                  ELSE [cbs EXCEPT ![c] = r.cb]
        /\ thr' \in Notify(c, r)

MutTimerPass ==
    /\ cbs' = [c \in Cbs |-> tcp_timer_cb(cbs[c]).cb]
    /\ UNCHANGED thr

\* One pass of tcp_timer_thread over the table.
TimerPass ==
    /\ cbs' = [c \in Cbs |-> tcp_timer_cb(cbs[c]).cb]
    /\ thr' = WakeAll({c \in Cbs : TimedOut(cbs[c])})

Tick ==
    /\ cbs' = [c \in Cbs |-> TickCb(cbs[c])]
    /\ UNCHANGED thr

Next ==
    \/ \E t \in Threads :
         \/ Open(t)
         \/ ConnectWake(t)
         \/ AcceptWake(t)
         \/ \E s \in Cbs :
              \/ \E ok \in TxOk : Close(t, s, ok)
              \/ \E peer \in Targets, iss \in IssSet, ok \in TxOk :
                   Connect(t, s, peer, iss, ok)
              \/ \E peer \in NoRoute : ConnectNoRoute(t, s, peer)
              \/ \E port \in Ports : Bind(t, s, port)
              \/ Listen(t, s)
              \/ Accept(t, s)
    \/ \E peer \in Peers, port \in Ports \cup Ephemeral, seg \in Segments,
          iss \in IssSet, ok \in TxOk : Rx(peer, port, seg, iss, ok)
    \/ TimerPass
    \/ Tick

Spec == Init /\ [][Next]_vars

(***************************************************************************)
(* Fairness: the clock runs, the timer thread runs every 100 ms, and a     *)
(* thread that was woken gets the mutex.  Nothing is assumed of the peers  *)
(* or of what applications call.                                           *)
(***************************************************************************)
Fairness ==
    /\ WF_vars(Tick)
    /\ WF_vars(TimerPass)
    /\ \A t \in Threads : WF_vars(ConnectWake(t)) /\ WF_vars(AcceptWake(t))

FairSpec == Spec /\ Fairness

-----------------------------------------------------------------------------
ThreadType == [op : {"idle", "connect", "accept"}, soc : 0..NCb, woken : BOOLEAN]

EntryType == [seg : SegType, age : Unsent..(RtxTimeout + 1)]

\* The scalar fields of a control block, and its transmission queue.
CbTypeOK(cb) ==
    /\ cb.used \in BOOLEAN /\ cb.state \in States
    /\ cb.port \in Ports \cup Ephemeral \cup {NoPort}
    /\ cb.peer \in Peers \cup {NoPeer}
    /\ cb.snd_nxt \in SeqNos /\ cb.snd_una \in SeqNos
    /\ cb.snd_wl1 \in SeqNos /\ cb.snd_wl2 \in SeqNos /\ cb.snd_wnd \in Wnds
    /\ cb.iss \in SeqNos /\ cb.rcv_nxt \in SeqNos /\ cb.rcv_wnd \in Wnds
    /\ cb.buf = <<>> /\ cb.left \in Nat
    /\ cb.parent \in 0..NCb /\ cb.backlog \in Seq(Cbs)
QueueTypeOK(cb) == cb.txq \in Seq(EntryType) /\ cb.snt \in Wnds

\* Every thread record and every scalar of every control block is well formed.
ScalarTypeOK ==
    /\ thr \in [Threads -> ThreadType]
    /\ DOMAIN cbs = Cbs
    /\ \A c \in Cbs : CbTypeOK(cbs[c])

\* ... and so are the transmission queues.
TypeOK == ScalarTypeOK /\ \A c \in Cbs : QueueTypeOK(cbs[c])

PreFin == {"SYN_SENT", "SYN_RCVD", "ESTABLISHED", "CLOSE_WAIT"}
PostFin == {"FIN_WAIT1", "FIN_WAIT2", "CLOSING", "TIME_WAIT", "LAST_ACK"}

SndOK(cb) ==
    /\ cb.state \in {"CLOSED", "LISTEN"} => cb.snd_una = 0 /\ cb.snd_nxt = 0
    /\ cb.state \in PreFin => cb.snd_nxt = cb.iss + 1
    /\ cb.state \in PostFin => cb.snd_nxt = cb.iss + 2
    /\ cb.state \in PreFin \cup PostFin =>
           cb.iss <= cb.snd_una /\ cb.snd_una <= cb.snd_nxt

\* What the peer has acknowledged never runs ahead of what was sent, and the
\* state tells which of SYN and FIN have taken a sequence number, whatever the
\* peers send and whenever the timer thread closes or applications recycle a
\* control block.
SndInv == \A c \in Cbs : SndOK(cbs[c])

\* At most one control block answers for a local port and peer.
ConnUnique ==
    \A c, d \in Cbs :
        (/\ cbs[c].state \in PreFin \cup PostFin
         /\ cbs[d].state \in PreFin \cup PostFin
         /\ cbs[c].port = cbs[d].port /\ cbs[c].peer = cbs[d].peer) => c = d

Acceptors(l) == {t \in Threads : thr[t].op = "accept" /\ thr[t].soc = l}

\* No lost wake-up in accept: while a thread sleeps in accept its socket is
\* listening and every connection in the backlog has a woken thread to take it.
AcceptNoLostWakeup ==
    \A l \in Cbs : \A t \in Acceptors(l) : ~thr[t].woken =>
        /\ cbs[l].state = "LISTEN"
        /\ Len(cbs[l].backlog) <= Cardinality({u \in Acceptors(l) : thr[u].woken})

\* No lost wake-up in connect: a thread sleeps in it only in SYN_SENT.
ConnectNoLostWakeup ==
    \A t \in Threads : thr[t].op = "connect" /\ ~thr[t].woken =>
        cbs[thr[t].soc].state = "SYN_SENT"

-----------------------------------------------------------------------------
(***************************************************************************)
(* What comments and tests of the repository say of the program.           *)
(***************************************************************************)

\* "if this ACK is for sent FIN" (tcp.c:578): a connection in CLOSING goes on
\* to TIME_WAIT or is timed out; its control block becomes free again.
ClosingEnds ==
    \A c \in Cbs : cbs[c].state = "CLOSING" ~> cbs[c].state # "CLOSING"

-----------------------------------------------------------------------------
\* A half-open connection does not hold its control block forever.
HalfOpenReclaimed ==
    \A c \in Cbs : cbs[c].state = "SYN_RCVD" ~> cbs[c].state # "SYN_RCVD"

\* connect returns, answered or not.
ConnectReturns == \A t \in Threads : thr[t].op = "connect" ~> thr[t].op = "idle"
=============================================================================
