------------------------- MODULE TcpHostWakeupProofs -------------------------
(***************************************************************************)
(* One connection per port and peer, and no lost wake-up in connect and    *)
(* accept, for every table size, number of threads and set of data-free    *)
(* segments.                                                               *)
(*                                                                         *)
(* What the handlers do to one control block is in TcpCbProofs; here it is *)
(* put together with the condition variables.  Most steps only settle      *)
(* control blocks: a listener or a half-open connection either stays as it *)
(* is or is closed and its threads are woken (Settles).  Connect, listen,  *)
(* accept and the receive thread are treated one by one.                   *)
(***************************************************************************)
EXTENDS TcpHostProofs, FiniteSetTheorems

\* What a step that opens no connection may do to control block c when the
\* threads blocked on the control blocks of W are woken.
Settles(c, W) ==
    /\ cbs'[c].port = cbs[c].port /\ cbs'[c].peer = cbs[c].peer
    /\ cbs'[c].state \in {"LISTEN", "SYN_SENT"} => cbs'[c].state = cbs[c].state
    /\ cbs[c].state \in {"CLOSED", "LISTEN"} =>
           cbs'[c].state \in {"CLOSED", cbs[c].state}
    /\ c \notin W /\ cbs[c].state \in {"LISTEN", "SYN_SENT"} =>
           cbs'[c].state = cbs[c].state /\ cbs'[c].backlog = cbs[c].backlog

SettlesAll(W) == W \subseteq Cbs /\ thr' = WakeAll(W) /\ \A c \in Cbs : Settles(c, W)

LEMMA ShapeOf ==
    ASSUME IndInv, NEW c \in Cbs
    PROVE  CbShape(cbs[c]) /\ CbInv(cbs[c])
  BY DEF IndInv, CbsInv, CbInv

LEMMA WakeNone ==
    ASSUME ThrInv, thr' = thr
    PROVE  thr' = WakeAll({})
  BY DEF ThrInv, WakeAll

LEMMA OpenSettles ==
    ASSUME IndInv, NEW t \in Threads, Open(t)
    PROVE  SettlesAll({})
<1> DEFINE f == Min(Free)
<1>1. f \in Cbs
  BY MinIn, FreeClosed DEF Open, IndInv
<1>2. cbs' = [cbs EXCEPT ![f] = [cbs[f] EXCEPT !.used = TRUE]]
  BY DEF Open
<1> HIDE DEF f
<1>3. LET d == [cbs[f] EXCEPT !.used = TRUE]
      IN  /\ d.port = cbs[f].port /\ d.peer = cbs[f].peer
          /\ d.state = cbs[f].state /\ d.backlog = cbs[f].backlog
  BY <1>1, ShapeOf DEF CbShape, CbFields
<1>4. ASSUME NEW c \in Cbs
      PROVE  /\ cbs'[c].port = cbs[c].port /\ cbs'[c].peer = cbs[c].peer
             /\ cbs'[c].state = cbs[c].state /\ cbs'[c].backlog = cbs[c].backlog
  <2>1. CASE c = f
    BY <1>1, <1>2, <1>3, <2>1 DEF IndInv, CbsInv
  <2>2. CASE c # f
    BY <1>1, <1>2, <2>2 DEF IndInv, CbsInv
  <2>3. QED
    BY <2>1, <2>2
<1>5. \A c \in Cbs : Settles(c, {})
  BY <1>4 DEF Settles
<1>6. QED
  BY <1>5, WakeNone DEF SettlesAll, Open, IndInv

LEMMA CloseSettles ==
    ASSUME IndInv, NEW t \in Threads, NEW s \in Cbs, NEW ok, Close(t, s, ok)
    PROVE  \E W : SettlesAll(W)
<1> DEFINE closed == {c \in CloseSet(s) : cbs[c].used}
           r == [c \in closed |-> tcp_close(cbs[c], ok)]
           W == {c \in closed : r[c].wake = "all"}
<1>1. /\ cbs' = [c \in Cbs |-> IF c \in closed THEN r[c].cb ELSE cbs[c]]
      /\ thr' = WakeAll(W)
  BY DEF Close
<1>2. W \subseteq Cbs
  BY DEF CloseSet
<1>3. ASSUME NEW c \in Cbs PROVE Settles(c, W)
  <2>1. CASE c \in closed
    <3> DEFINE q == tcp_close(cbs[c], ok)
    <3>1. cbs'[c] = q.cb /\ (q.wake = "all" => c \in W)
      BY <1>1, <2>1
    <3>2. /\ q.cb.port = cbs[c].port /\ q.cb.peer = cbs[c].peer
          /\ q.cb.state \notin {"LISTEN", "SYN_SENT"}
          /\ cbs[c].state = "CLOSED" => q.cb.state = "CLOSED"
          /\ cbs[c].state \in {"LISTEN", "SYN_SENT"} =>
                 q.cb.state = "CLOSED" /\ q.wake = "all"
      BY ShapeOf, CloseHandled
    <3> HIDE DEF q, W
    <3>3. QED
      BY <3>1, <3>2 DEF Settles
  <2>2. CASE c \notin closed
    BY <1>1, <2>2 DEF Settles
  <2>3. QED
    BY <2>1, <2>2
<1> HIDE DEF W
<1>4. QED
  BY <1>1, <1>2, <1>3 DEF SettlesAll

LEMMA TimerSettles ==
    ASSUME IndInv, TimerPass
    PROVE  \E W : SettlesAll(W)
<1> DEFINE W == {c \in Cbs : TimedOut(cbs[c])}
<1>1. ASSUME NEW c \in Cbs PROVE Settles(c, W)
  <2> DEFINE q == tcp_timer_cb(cbs[c])
  <2>1. cbs'[c] = q.cb
    BY DEF TimerPass
  <2>2. /\ SameSocket(cbs[c], q.cb)
        /\ IF TimedOut(cbs[c]) THEN q.wake = "all" /\ q.cb.state = "CLOSED"
           ELSE q.wake = "none" /\ Alike(cbs[c], q.cb)
    BY ShapeOf, TimerHandled
  <2> HIDE DEF q
  <2>3. CASE TimedOut(cbs[c])
    BY <2>1, <2>2, <2>3 DEF Settles, SameSocket
  <2>4. CASE ~TimedOut(cbs[c])
    BY <2>1, <2>2, <2>4 DEF Settles, SameSocket, Alike, CbFields
  <2>5. QED
    BY <2>3, <2>4
<1>2. thr' = WakeAll(W) /\ W \subseteq Cbs
  BY DEF TimerPass
<1> HIDE DEF W
<1>3. QED
  BY <1>1, <1>2 DEF SettlesAll

LEMMA TickSettles ==
    ASSUME IndInv, Tick
    PROVE  SettlesAll({})
<1>1. ASSUME NEW c \in Cbs PROVE Settles(c, {})
  <2>1. cbs'[c] = TickCb(cbs[c])
    BY DEF Tick
  <2>2. \A f \in CbFields \ {"left", "txq"} : TickCb(cbs[c])[f] = cbs[c][f]
    BY ShapeOf, TickHandled
  <2>3. QED
    BY <2>1, <2>2 DEF Settles, CbFields
<1>2. QED
  BY <1>1, WakeNone DEF SettlesAll, Tick, IndInv

LEMMA StutterSettles ==
    ASSUME IndInv, UNCHANGED vars
    PROVE  SettlesAll({})
  BY WakeNone DEF vars, IndInv, SettlesAll, Settles

-----------------------------------------------------------------------------
(***************************************************************************)
(* The steps that change one control block.                                *)
(***************************************************************************)
LEMMA PutOne ==
    ASSUME IndInv, NEW s \in Cbs, NEW d, cbs' = [cbs EXCEPT ![s] = d]
    PROVE  cbs'[s] = d /\ \A c \in Cbs \ {s} : cbs'[c] = cbs[c]
  BY DEF IndInv, CbsInv

\* bind: the port of a closed control block.
LEMMA BindFrame ==
    ASSUME IndInv, NEW t \in Threads, NEW s \in Cbs, NEW port, Bind(t, s, port)
    PROVE  /\ thr' = thr
           /\ cbs[s].state = "CLOSED" /\ cbs'[s].state = "CLOSED"
           /\ \A c \in Cbs \ {s} : cbs'[c] = cbs[c]
<1> DEFINE d == [cbs[s] EXCEPT !.port = port]
<1>1. cbs' = [cbs EXCEPT ![s] = d]
  BY DEF Bind
<1>2. d.state = cbs[s].state
  BY ShapeOf DEF CbShape, CbFields
<1> HIDE DEF d
<1>3. QED
  BY <1>1, <1>2, PutOne DEF Bind

LEMMA ListenFrame ==
    ASSUME IndInv, NEW t \in Threads, NEW s \in Cbs, Listen(t, s)
    PROVE  /\ thr' = thr
           /\ cbs[s].state = "CLOSED" /\ cbs'[s].state = "LISTEN"
           /\ cbs'[s].peer = cbs[s].peer /\ cbs'[s].backlog = cbs[s].backlog
           /\ \A c \in Cbs \ {s} : cbs'[c] = cbs[c]
<1> DEFINE d == [cbs[s] EXCEPT !.state = "LISTEN"]
<1>1. cbs' = [cbs EXCEPT ![s] = d]
  BY DEF Listen
<1>2. d.state = "LISTEN" /\ d.peer = cbs[s].peer /\ d.backlog = cbs[s].backlog
  BY ShapeOf DEF CbShape, CbFields
<1> HIDE DEF d
<1>3. QED
  BY <1>1, <1>2, PutOne DEF Listen

\* connect: the call fails and the state stays, or it blocks in SYN_SENT.
LEMMA ConnectFrame ==
    ASSUME IndInv, NEW t \in Threads, NEW s \in Cbs, NEW peer, NEW iss, NEW ok,
           Connect(t, s, peer, iss, ok)
    PROVE  /\ cbs[s].state = "CLOSED"
           /\ \/ cbs'[s].state = "CLOSED" /\ thr' = thr
              \/ /\ cbs'[s].state = "SYN_SENT"
                 /\ thr' = [thr EXCEPT ![t] = Blocked("connect", s)]
           /\ \A c \in Cbs \ {s} : cbs'[c] = cbs[c]
<1>1. PICK port \in ConnectPorts(s) :
        /\ cbs' = [cbs EXCEPT ![s] = ConnectCb(cbs[s], port, peer, iss, ok).cb]
        /\ thr' = IF ConnectCb(cbs[s], port, peer, iss, ok).failed THEN thr
                  ELSE [thr EXCEPT ![t] = Blocked("connect", s)]
  BY DEF Connect
<1> DEFINE r == ConnectCb(cbs[s], port, peer, iss, ok)
           c0 == Addressed(cbs[s], port, peer, iss)
           syn == tcp_tx(Result(c0), iss, 0, {"SYN"}, <<>>, ok)
<1>2. CbShape(c0) /\ c0.state = cbs[s].state
  BY ShapeOf DEF Addressed, CbShape, CbFields
<1>3. r = IF syn.failed THEN syn
          ELSE With(syn, SynTaken(syn.cb, iss, "SYN_SENT"))
  BY DEF ConnectCb, SynTaken, Addressed
<1> HIDE DEF c0
<1>4. CbShape(syn.cb) /\ syn.cb.state = cbs[s].state
  <2>1. Alike(c0, syn.cb)
    BY <1>2, ResultIs, TxAlike
  <2> HIDE DEF syn
  <2>2. QED
    BY <1>2, <2>1 DEF Alike, CbFields
<1> HIDE DEF syn, r
<1>5. IF syn.failed THEN r.cb.state = cbs[s].state
      ELSE r.cb.state = "SYN_SENT" /\ r.failed = syn.failed
  <2>1. CASE syn.failed
    BY <1>3, <1>4, <2>1
  <2>2. CASE ~syn.failed
    <3>1. r = With(syn, SynTaken(syn.cb, iss, "SYN_SENT"))
      BY <1>3, <2>2
    <3>2. SynTaken(syn.cb, iss, "SYN_SENT").state = "SYN_SENT"
      BY <1>4 DEF SynTaken, CbShape, CbFields
    <3>3. QED
      BY <2>2, <3>1, <3>2 DEF With
  <2>3. QED
    BY <2>1, <2>2
<1>6. cbs[s].state = "CLOSED"
  BY DEF Connect
<1>7. cbs'[s] = r.cb /\ \A c \in Cbs \ {s} : cbs'[c] = cbs[c]
  BY <1>1, PutOne DEF r
<1>8. CASE syn.failed
  BY <1>1, <1>3, <1>5, <1>6, <1>7, <1>8 DEF r
<1>9. CASE ~syn.failed
  BY <1>1, <1>5, <1>6, <1>7, <1>9 DEF r
<1>10. QED
  BY <1>8, <1>9

LEMMA NoRouteFrame ==
    ASSUME IndInv, NEW t \in Threads, NEW s \in Cbs, NEW peer,
           ConnectNoRoute(t, s, peer)
    PROVE  /\ thr' = thr
           /\ cbs[s].state = "CLOSED" /\ cbs'[s].state = "CLOSED"
           /\ \A c \in Cbs \ {s} : cbs'[c] = cbs[c]
<1>1. PICK port \in ConnectPorts(s) :
        cbs' = [cbs EXCEPT ![s] = [cbs[s] EXCEPT !.port = port, !.peer = peer]]
  BY DEF ConnectNoRoute
<1> DEFINE d == [cbs[s] EXCEPT !.port = port, !.peer = peer]
<1>2. d.state = cbs[s].state
  BY ShapeOf DEF CbShape, CbFields
<1> HIDE DEF d
<1>3. QED
  BY <1>1, <1>2, PutOne DEF ConnectNoRoute, d

\* accept: the state of no control block changes, and only s may lose the
\* head of its backlog.
LEMMA AcceptFrame ==
    ASSUME IndInv, NEW t \in Threads, NEW s \in Cbs, AcceptLoop(t, s)
    PROVE  /\ \A c \in Cbs : /\ cbs'[c].state = cbs[c].state
                             /\ cbs'[c].port = cbs[c].port
                             /\ cbs'[c].peer = cbs[c].peer
           /\ \A c \in Cbs \ {s} : cbs'[c].backlog = cbs[c].backlog
           /\ \/ /\ thr' = [thr EXCEPT ![t] = Idle]
                 /\ cbs[s].state # "LISTEN"
              \/ /\ thr' = [thr EXCEPT ![t] = Blocked("accept", s)]
                 /\ cbs[s].state = "LISTEN"
                 /\ cbs[s].backlog = <<>> /\ cbs'[s].backlog = <<>>
              \/ /\ thr' = [thr EXCEPT ![t] = Idle]
                 /\ cbs[s].state = "LISTEN"
                 /\ cbs[s].backlog # <<>>
                 /\ cbs'[s].backlog = Tail(cbs[s].backlog)
<1>1. CASE cbs[s].state # "LISTEN" \/ cbs[s].backlog = <<>>
  BY <1>1 DEF AcceptLoop
<1>2. CASE cbs[s].state = "LISTEN" /\ cbs[s].backlog # <<>>
  <2> DEFINE q == cbs[s].backlog
             h == Head(q)
             d == [cbs[s] EXCEPT !.backlog = Tail(q)]
             F == [cbs EXCEPT ![s] = d]
  <2>1. thr' = [thr EXCEPT ![t] = Idle]
    BY <1>2 DEF AcceptLoop
  <2>2. cbs' = [F EXCEPT ![h] = [F[h] EXCEPT !.used = TRUE]]
    BY <1>2 DEF AcceptLoop
  <2>3. h \in Cbs
    BY <1>2, ShapeOf DEF CbInv, CbTypeOK
  <2>4. /\ CbShape(d) /\ d.state = cbs[s].state /\ d.port = cbs[s].port
        /\ d.peer = cbs[s].peer /\ d.backlog = Tail(q)
    BY ShapeOf DEF CbShape, CbFields
  <2> HIDE DEF d, h
  <2>5. /\ F = [c \in Cbs |-> F[c]] /\ F[s] = d
        /\ \A c \in Cbs \ {s} : F[c] = cbs[c]
    BY DEF IndInv, CbsInv
  <2>6. \A c \in Cbs : CbShape(F[c])
    BY <2>4, <2>5, ShapeOf
  <2> HIDE DEF F
  <2>7. \A c \in Cbs : /\ cbs'[c].state = F[c].state /\ cbs'[c].port = F[c].port
                       /\ cbs'[c].peer = F[c].peer
                       /\ cbs'[c].backlog = F[c].backlog
    <3>1. cbs'[h] = [F[h] EXCEPT !.used = TRUE] /\ \A c \in Cbs \ {h} : cbs'[c] = F[c]
      BY <2>2, <2>3, <2>5
    <3>2. LET e == [F[h] EXCEPT !.used = TRUE]
          IN  e.state = F[h].state /\ e.port = F[h].port /\ e.peer = F[h].peer
                /\ e.backlog = F[h].backlog
      BY <2>3, <2>6 DEF CbShape, CbFields
    <3>3. QED
      BY <3>1, <3>2
  <2>8. QED
    BY <1>2, <2>1, <2>4, <2>5, <2>7
<1>3. QED
  BY <1>1, <1>2

\* The receive thread: the handler's result r for b, which is control block c
\* or, for a segment nothing matches, a free one prepared for it.
RxDoes(peer, port, c, b, r) ==
    /\ c \in Cbs /\ Handled(b, r) /\ b.backlog = cbs[c].backlog
    /\ \/ b = cbs[c] /\ cbs[c].peer = peer
       \/ /\ c \in Free /\ Matching(peer, port) = {} /\ b.peer = peer
          /\ b.state = "CLOSED" \/ (b.state = "LISTEN" /\ b.port = port)
    /\ r.push => r.cb.parent \in Cbs
    /\ \A d \in Cbs :
         /\ d = c => /\ cbs'[d].state = r.cb.state /\ cbs'[d].port = r.cb.port
                     /\ cbs'[d].peer = r.cb.peer
         /\ d # c => /\ cbs'[d].state = cbs[d].state /\ cbs'[d].port = cbs[d].port
                     /\ cbs'[d].peer = cbs[d].peer
         /\ cbs'[d].backlog = IF r.push /\ d = r.cb.parent
                              THEN Append(cbs[d].backlog, c) ELSE cbs[d].backlog
    /\ thr' \in Notify(c, r)

LEMMA RxFrame ==
    ASSUME IndInv, NEW peer \in Peers, NEW port \in Ports \cup Ephemeral,
           NEW seg \in Segments, NEW iss \in IssSet, NEW ok,
           Rx(peer, port, seg, iss, ok)
    PROVE  \E c, b, r : RxDoes(peer, port, c, b, r)
<1> DEFINE m == Matching(peer, port)
           c == IF m # {} THEN Min(m) ELSE Min(Free)
           b == IF m # {} THEN cbs[c] ELSE Prepared(c, peer, port)
           r == tcp_event_segment_arrives(b, seg, iss, ok)
<1>1. /\ cbs' = IF r.push
                THEN [[cbs EXCEPT ![c] = r.cb]
                        EXCEPT ![r.cb.parent].backlog = Append(@, c)]
                ELSE [cbs EXCEPT ![c] = r.cb]
      /\ thr' \in Notify(c, r)
  BY DEF Rx
<1>2. c \in Cbs /\ (m # {} => c \in m) /\ (m = {} => c \in Free)
  <2>1. m \subseteq Cbs /\ Cbs \subseteq Nat /\ Free \subseteq Cbs
    BY FreeClosed DEF Matching, IndInv
  <2>2. m # {} \/ Free # {}
    BY DEF Rx
  <2> HIDE DEF m
  <2>3. QED
    BY <2>1, <2>2, MinIn
<1>3. /\ CbInv(b) /\ b.backlog = cbs[c].backlog
      /\ \/ b = cbs[c] /\ cbs[c].peer = peer
         \/ /\ c \in Free /\ m = {} /\ b.peer = peer
            /\ b.state = "CLOSED" \/ (b.state = "LISTEN" /\ b.port = port)
  <2>1. CASE m = {}
    <3>1. c \in Free /\ b = Prepared(c, peer, port)
      BY <1>2, <2>1
    <3> HIDE DEF c, m, b
    <3>2. cbs[c].state = "CLOSED"
      BY <1>2, <3>1, FreeClosed DEF IndInv
    <3>3. /\ b.backlog = cbs[c].backlog /\ b.peer = peer
          /\ b.state = "CLOSED" \/ (b.state = "LISTEN" /\ b.port = port)
      BY <1>2, <3>1, <3>2, ShapeOf DEF Prepared, CbShape, CbFields
    <3>4. CbInv(b)
      BY <3>1, PreparedInv DEF IndInv
    <3>5. QED
      BY <2>1, <3>1, <3>3, <3>4
  <2>2. CASE m # {}
    <3>1. b = cbs[c]
      BY <2>2
    <3>2. cbs[c].peer = peer
      BY <1>2, <2>2 DEF Matching
    <3> HIDE DEF c, m, b
    <3>3. QED
      BY <1>2, <3>1, <3>2, ShapeOf
  <2>3. QED
    BY <2>1, <2>2
<1> HIDE DEF b, c
<1>4. Handled(b, r)
  BY <1>3, ArrivesHandled DEF CbInv
<1>5. ResInv(r)
  <2>1. SegOK(seg)
    BY SegmentsAssumption DEF SegOK, SegType
  <2>2. QED
    BY <1>3, <2>1, ArrivesInv
<1> HIDE DEF r, m
<1>6. r.push => r.cb.parent \in Cbs
  BY <1>5 DEF ResInv, CbInv, CbTypeOK, NoParent, Cbs
<1>7. r.cb.backlog = cbs[c].backlog
  BY <1>3, <1>4 DEF Handled, SameSocket
<1> DEFINE F == [cbs EXCEPT ![c] = r.cb]
<1>8. /\ F = [d \in Cbs |-> F[d]] /\ F[c] = r.cb
      /\ \A d \in Cbs \ {c} : F[d] = cbs[d]
  BY <1>2 DEF IndInv, CbsInv
<1>9. cbs' = IF r.push THEN [F EXCEPT ![r.cb.parent].backlog = Append(@, c)] ELSE F
  BY <1>1
<1> HIDE DEF F
<1>10. \A d \in Cbs : CbShape(F[d])
  BY <1>4, <1>8, ShapeOf DEF Handled
<1>11. ASSUME NEW d \in Cbs
       PROVE  /\ cbs'[d].state = F[d].state /\ cbs'[d].port = F[d].port
              /\ cbs'[d].peer = F[d].peer
              /\ cbs'[d].backlog = IF r.push /\ d = r.cb.parent
                                   THEN Append(F[d].backlog, c) ELSE F[d].backlog
  <2>1. CASE r.push /\ d = r.cb.parent
    <3>1. cbs'[d] = [F[d] EXCEPT !.backlog = Append(@, c)]
      BY <1>8, <1>9, <2>1
    <3>2. QED
      BY <1>10, <2>1, <3>1 DEF CbShape, CbFields
  <2>2. CASE ~(r.push /\ d = r.cb.parent)
    <3>1. cbs'[d] = F[d]
      BY <1>6, <1>8, <1>9, <2>2
    <3>2. QED
      BY <2>2, <3>1
  <2>3. QED
    BY <2>1, <2>2
<1>12. \A d \in Cbs : F[d].backlog = cbs[d].backlog
  BY <1>7, <1>8
<1>13. ASSUME NEW d \in Cbs
       PROVE  /\ d = c => /\ cbs'[d].state = r.cb.state /\ cbs'[d].port = r.cb.port
                          /\ cbs'[d].peer = r.cb.peer
              /\ d # c => /\ cbs'[d].state = cbs[d].state
                          /\ cbs'[d].port = cbs[d].port
                          /\ cbs'[d].peer = cbs[d].peer
              /\ cbs'[d].backlog = IF r.push /\ d = r.cb.parent
                                   THEN Append(cbs[d].backlog, c)
                                   ELSE cbs[d].backlog
  BY <1>8, <1>11, <1>12
<1>14. thr' \in Notify(c, r)
  BY <1>1
<1>15. RxDoes(peer, port, c, b, r)
  BY <1>2, <1>3, <1>4, <1>6, <1>13, <1>14 DEF RxDoes, m
<1>16. QED
  BY <1>15

\* Every step, with the ones that only settle control blocks taken together.
LEMMA StepCases ==
    ASSUME IndInv, [Next]_vars
    PROVE  \/ \E W : SettlesAll(W)
           \/ \E t \in Threads : ConnectWake(t)
           \/ \E t \in Threads : AcceptWake(t)
           \/ \E t \in Threads, s \in Cbs :
                \/ \E peer \in Targets, iss \in IssSet, ok \in TxOk :
                     Connect(t, s, peer, iss, ok)
                \/ \E peer \in NoRoute : ConnectNoRoute(t, s, peer)
                \/ \E port \in Ports : Bind(t, s, port)
                \/ Listen(t, s)
                \/ Accept(t, s)
           \/ \E peer \in Peers, port \in Ports \cup Ephemeral : \E c, b, r :
                RxDoes(peer, port, c, b, r)
<1>1. ASSUME NEW t \in Threads, Open(t) PROVE \E W : SettlesAll(W)
  BY <1>1, OpenSettles
<1>2. ASSUME NEW t \in Threads, NEW s \in Cbs, NEW ok \in TxOk, Close(t, s, ok)
      PROVE  \E W : SettlesAll(W)
  BY <1>2, CloseSettles
<1>3. TimerPass \/ Tick \/ UNCHANGED vars => \E W : SettlesAll(W)
  BY TimerSettles, TickSettles, StutterSettles
<1>4. ASSUME NEW peer \in Peers, NEW port \in Ports \cup Ephemeral,
             NEW seg \in Segments, NEW iss \in IssSet, NEW ok \in TxOk,
             Rx(peer, port, seg, iss, ok)
      PROVE  \E c, b, r : RxDoes(peer, port, c, b, r)
  BY <1>4, RxFrame
<1>5. QED
  BY <1>1, <1>2, <1>3, <1>4 DEF Next

-----------------------------------------------------------------------------
(***************************************************************************)
(* One connection per port and peer.                                       *)
(***************************************************************************)

\* A listener has no peer, so no segment is taken for one of its own.
ListenFresh == \A c \in Cbs : cbs[c].state = "LISTEN" => cbs[c].peer = NoPeer

LEMMA FreshStep ==
    ASSUME FreshListen, IndInv, ListenFresh, [Next]_vars
    PROVE  ListenFresh'
<1>0. Cbs' = Cbs
  BY DEF Cbs
<1>1. ASSUME NEW W, SettlesAll(W) PROVE ListenFresh'
  BY <1>0, <1>1 DEF SettlesAll, Settles, ListenFresh
<1>2. ASSUME NEW t \in Threads, ConnectWake(t) PROVE ListenFresh'
  BY <1>2 DEF ConnectWake, ListenFresh
<1>3. ASSUME NEW t \in Threads, NEW s \in Cbs, AcceptLoop(t, s)
      PROVE  ListenFresh'
  BY <1>0, <1>3, AcceptFrame DEF ListenFresh
<1>4. ASSUME NEW t \in Threads, AcceptWake(t) PROVE ListenFresh'
  <2>1. thr[t].soc \in Cbs
    BY <1>4 DEF IndInv, ThrInv, ThreadOK, AcceptWake
  <2>2. QED
    BY <1>3, <1>4, <2>1 DEF AcceptWake
<1>5. ASSUME NEW t \in Threads, NEW s \in Cbs, Accept(t, s) PROVE ListenFresh'
  BY <1>3, <1>5 DEF Accept
<1>6. ASSUME NEW t \in Threads, NEW s \in Cbs, NEW peer \in Targets,
             NEW iss \in IssSet, NEW ok \in TxOk, Connect(t, s, peer, iss, ok)
      PROVE  ListenFresh'
  BY <1>0, <1>6, ConnectFrame DEF ListenFresh
<1>7. ASSUME NEW t \in Threads, NEW s \in Cbs, NEW peer \in NoRoute,
             ConnectNoRoute(t, s, peer)
      PROVE  ListenFresh'
  BY <1>0, <1>7, NoRouteFrame DEF ListenFresh
<1>8. ASSUME NEW t \in Threads, NEW s \in Cbs, NEW port \in Ports, Bind(t, s, port)
      PROVE  ListenFresh'
  BY <1>0, <1>8, BindFrame DEF ListenFresh
<1>9. ASSUME NEW t \in Threads, NEW s \in Cbs, Listen(t, s) PROVE ListenFresh'
  <2>1. cbs[s].peer = NoPeer
    BY <1>9 DEF Listen
  <2>2. QED
    BY <1>0, <1>9, <2>1, ListenFrame DEF ListenFresh
<1>10. ASSUME NEW peer \in Peers, NEW port \in Ports \cup Ephemeral,
              NEW c, NEW b, NEW r, RxDoes(peer, port, c, b, r)
       PROVE  ListenFresh'
  BY <1>0, <1>10 DEF RxDoes, Handled, ListenFresh
<1>11. QED
  BY <1>1, <1>2, <1>4, <1>5, <1>6, <1>7, <1>8, <1>9, <1>10, StepCases

LEMMA FreshHolds ==
    ASSUME FreshListen
    PROVE  Spec => []ListenFresh
<1>1. Init => ListenFresh
  BY DEF Init, ListenFresh, ZeroCb
<1>2. IndInv /\ ListenFresh /\ [Next]_vars => ListenFresh'
  BY FreshStep
<1>3. QED
  BY <1>1, <1>2, IndInvHolds, PTL DEF Spec

Active == PreFin \cup PostFin

LEMMA UniqueStep ==
    ASSUME Targets = {}, IndInv, ListenFresh, ConnUnique, [Next]_vars
    PROVE  ConnUnique'
<1>0. Cbs' = Cbs /\ Active \cap {"CLOSED", "LISTEN"} = {}
  BY DEF Cbs, Active, PreFin, PostFin
<1>1. SUFFICES ASSUME NEW c \in Cbs, NEW d \in Cbs,
                      cbs'[c].state \in Active, cbs'[d].state \in Active,
                      cbs'[c].port = cbs'[d].port, cbs'[c].peer = cbs'[d].peer,
                      c # d
               PROVE  FALSE
  BY <1>0 DEF ConnUnique, Active
<1>2. ASSUME cbs[c].state \in Active, cbs[d].state \in Active,
             cbs[c].port = cbs[d].port, cbs[c].peer = cbs[d].peer
      PROVE  FALSE
  BY <1>1, <1>2 DEF ConnUnique, Active
<1>3. ASSUME NEW W, SettlesAll(W) PROVE FALSE
  <2>1. \A e \in Cbs : /\ cbs'[e].port = cbs[e].port
                       /\ cbs'[e].peer = cbs[e].peer
                       /\ cbs[e].state \in {"CLOSED", "LISTEN"} =>
                              cbs'[e].state \in {"CLOSED", "LISTEN"}
    BY <1>3 DEF SettlesAll, Settles
  <2>2. \A e \in Cbs : cbs[e].state \in States
    BY DEF IndInv, CbsInv, CbInv, CbTypeOK
  <2>3. cbs[c].state \in Active /\ cbs[d].state \in Active
    BY <1>0, <1>1, <2>1, <2>2 DEF States, Active, PreFin, PostFin
  <2>4. QED
    BY <1>1, <1>2, <2>1, <2>3
<1>4. ASSUME NEW t \in Threads, ConnectWake(t) PROVE FALSE
  BY <1>1, <1>2, <1>4 DEF ConnectWake
<1>5. ASSUME NEW t \in Threads, NEW s \in Cbs, AcceptLoop(t, s) PROVE FALSE
  BY <1>1, <1>2, <1>5, AcceptFrame
<1>6. ASSUME NEW t \in Threads, AcceptWake(t) PROVE FALSE
  <2>1. thr[t].soc \in Cbs
    BY <1>6 DEF IndInv, ThrInv, ThreadOK, AcceptWake
  <2>2. QED
    BY <1>5, <1>6, <2>1 DEF AcceptWake
<1>7. ASSUME NEW t \in Threads, NEW s \in Cbs, Accept(t, s) PROVE FALSE
  BY <1>5, <1>7 DEF Accept
<1>8. NoRoute = {}
  BY HostAssumption
<1>9. ASSUME NEW t \in Threads, NEW s \in Cbs,
             \/ \E port \in Ports : Bind(t, s, port)
             \/ Listen(t, s)
      PROVE  FALSE
  <2>1. /\ cbs'[s].state \in {"CLOSED", "LISTEN"}
        /\ \A e \in Cbs \ {s} : cbs'[e] = cbs[e]
    BY <1>9, BindFrame, ListenFrame
  <2>2. QED
    BY <1>0, <1>1, <1>2, <2>1
<1>10. ASSUME NEW peer \in Peers, NEW port \in Ports \cup Ephemeral,
              NEW e, NEW b, NEW r, RxDoes(peer, port, e, b, r)
       PROVE  FALSE
  <2>1. e \in Cbs /\ SameSocket(b, r.cb)
    BY <1>10 DEF RxDoes, Handled
  <2>2. /\ cbs'[e].state = r.cb.state /\ cbs'[e].port = b.port
        /\ cbs'[e].peer = b.peer
    BY <1>10, <2>1 DEF RxDoes, SameSocket
  <2>3. \A f \in Cbs \ {e} : /\ cbs'[f].state = cbs[f].state
                             /\ cbs'[f].port = cbs[f].port
                             /\ cbs'[f].peer = cbs[f].peer
    BY <1>10 DEF RxDoes
  <2>4. b.state = "CLOSED" => r.cb.state = "CLOSED"
    BY <1>10 DEF RxDoes, Handled
  <2>5. \* a segment for e: e is not a listener, so it was active before
        CASE b = cbs[e] /\ cbs[e].peer = peer
    <3>1. cbs[e].state # "LISTEN"
      BY <2>1, <2>5, HostAssumption DEF ListenFresh
    <3>2. cbs[e].state \in States
      BY <2>1 DEF IndInv, CbsInv, CbInv, CbTypeOK
    <3>3. cbs'[e].state \in Active => cbs[e].state \in Active
      BY <1>0, <2>2, <2>4, <2>5, <3>1, <3>2 DEF States, Active, PreFin, PostFin
    <3>4. cbs'[e].port = cbs[e].port /\ cbs'[e].peer = cbs[e].peer
      BY <2>2, <2>5
    <3>5. cbs[c].state \in Active /\ cbs[d].state \in Active
      BY <1>1, <2>3, <3>3
    <3>6. cbs[c].port = cbs[d].port /\ cbs[c].peer = cbs[d].peer
      BY <1>1, <2>3, <3>4
    <3>7. QED
      BY <1>2, <3>5, <3>6
  <2>6. \* a new connection: no control block in use has its port and peer
        CASE /\ Matching(peer, port) = {} /\ b.peer = peer
             /\ b.state = "LISTEN" /\ b.port = port
    <3>1. \A f \in Cbs : cbs[f].state \in Active =>
              ~(cbs[f].port = port /\ cbs[f].peer = peer)
      <4>1. \A f \in Cbs : cbs[f].state \in Active => f \notin Free
        BY <1>0 DEF Free, IS_FREE_CB
      <4>2. QED
        BY <2>6, <4>1 DEF Matching
    <3>2. CASE c # e /\ d # e
      BY <1>1, <1>2, <2>3, <3>2
    <3>3. CASE c = e /\ d # e
      BY <1>1, <2>2, <2>3, <2>6, <3>1, <3>3
    <3>4. CASE c # e /\ d = e
      BY <1>1, <2>2, <2>3, <2>6, <3>1, <3>4
    <3>5. QED
      BY <1>1, <3>2, <3>3, <3>4
  <2>7. CASE b.state = "CLOSED"
    <3>1. cbs'[e].state = "CLOSED"
      BY <2>2, <2>4, <2>7
    <3>2. QED
      BY <1>0, <1>1, <1>2, <2>3, <3>1
  <2>8. QED
    BY <1>10, <2>5, <2>6, <2>7 DEF RxDoes
<1>11. QED
  BY <1>3, <1>4, <1>6, <1>7, <1>8, <1>9, <1>10, StepCases

\* On a host that only accepts connections, a port and a peer name at most one
\* connection, whatever segments arrive, are repeated or come late: tcp_rx
\* takes a free control block only when none in use answers for them.
THEOREM ConnUniqueHolds ==
    ASSUME FreshListen, Targets = {}
    PROVE  Spec => []ConnUnique
<1>1. Init => ConnUnique
  BY DEF Init, ConnUnique, ZeroCb, PreFin, PostFin
<1>2. IndInv /\ ListenFresh /\ ConnUnique /\ [Next]_vars => ConnUnique'
  BY UniqueStep
<1>3. Spec => []ListenFresh
  BY FreshHolds
<1>4. QED
  BY <1>1, <1>2, <1>3, IndInvHolds, PTL DEF Spec

-----------------------------------------------------------------------------
(***************************************************************************)
(* The condition variables.                                                *)
(***************************************************************************)

\* th is thr with some threads woken.
Rouses(th) ==
    \A t \in Threads : /\ th[t].op = thr[t].op /\ th[t].soc = thr[t].soc
                       /\ thr[t].woken => th[t].woken

\* An idle thread is on no socket.
IdleInv == \A t \in Threads : thr[t].op = "idle" => thr[t].soc = 0

LEMMA WakeAllIs ==
    ASSUME ThrInv, NEW C
    PROVE  /\ Rouses(WakeAll(C))
           /\ \A t \in Threads : WakeAll(C)[t].woken <=>
                  (thr[t].woken \/ thr[t].soc \in C)
<1>1. \A x \in ThreadOK : /\ [x EXCEPT !.woken = TRUE].op = x.op
                          /\ [x EXCEPT !.woken = TRUE].soc = x.soc
                          /\ [x EXCEPT !.woken = TRUE].woken = TRUE
  BY DEF ThreadOK, ThreadType
<1>2. QED
  BY <1>1 DEF ThrInv, WakeAll, Rouses

\* A signal wakes one of the waiting threads, if there is one.
LEMMA WakeOneIs ==
    ASSUME ThrInv, NEW c, NEW th \in WakeOne(c)
    PROVE  /\ Rouses(th)
           /\ \/ Waiting(c) = {} /\ th = thr
              \/ \E u \in Waiting(c) :
                   th[u].woken /\ \A t \in Threads \ {u} : th[t] = thr[t]
<1>1. CASE Waiting(c) = {}
  BY <1>1 DEF WakeOne, Rouses
<1>2. CASE Waiting(c) # {}
  <2>1. PICK u \in Waiting(c) : th = [thr EXCEPT ![u].woken = TRUE]
    BY <1>2 DEF WakeOne
  <2>2. u \in Threads /\ thr[u] \in ThreadOK
    BY DEF Waiting, ThrInv
  <2>3. th[u] = [thr[u] EXCEPT !.woken = TRUE]
          /\ \A t \in Threads \ {u} : th[t] = thr[t]
    BY <2>1, <2>2 DEF ThrInv
  <2>4. th[u].op = thr[u].op /\ th[u].soc = thr[u].soc /\ th[u].woken
    BY <2>2, <2>3 DEF ThreadOK, ThreadType
  <2>5. QED
    BY <2>3, <2>4 DEF Rouses
<1>3. QED
  BY <1>1, <1>2

\* One handler's notifications: on c itself, or on its parent and on c.
LEMMA NotifyPush ==
    ASSUME ThrInv, NEW c, NEW r, r.push, NEW th \in Notify(c, r)
    PROVE  /\ Rouses(th)
           /\ \E one \in WakeOne(r.cb.parent) :
                \A t \in Threads : one[t].woken => th[t].woken
<1>1. PICK one \in WakeOne(r.cb.parent) :
        th = [t \in Threads |-> IF r.wake = "all" /\ one[t].soc = c
                                THEN [one[t] EXCEPT !.woken = TRUE]
                                ELSE one[t]]
  BY DEF Notify
<1>2. Rouses(one) /\ one \in [Threads -> ThreadOK]
  BY <1>1, WakeOneIs, WakeType
<1>3. \A x \in ThreadOK : /\ [x EXCEPT !.woken = TRUE].op = x.op
                          /\ [x EXCEPT !.woken = TRUE].soc = x.soc
                          /\ [x EXCEPT !.woken = TRUE].woken = TRUE
  BY DEF ThreadOK, ThreadType
<1>4. \A t \in Threads : /\ th[t].op = one[t].op /\ th[t].soc = one[t].soc
                         /\ one[t].woken => th[t].woken
  BY <1>1, <1>2, <1>3
<1>5. QED
  BY <1>2, <1>4 DEF Rouses

LEMMA NotifyIs ==
    ASSUME ThrInv, NEW c, NEW r, r.push \in BOOLEAN, NEW th \in Notify(c, r)
    PROVE  /\ Rouses(th)
           /\ ~r.push /\ r.wake = "all" =>
                  \A t \in Threads : thr[t].soc = c => th[t].woken
           /\ ~r.push /\ r.wake = "one" => th \in WakeOne(c)
<1>1. CASE r.push
  BY <1>1, NotifyPush
<1>2. CASE ~r.push
  <2>1. CASE r.wake = "all"
    <3>1. th = WakeAll({c})
      BY <1>2, <2>1 DEF Notify
    <3>2. QED
      BY <1>2, <2>1, <3>1, WakeAllIs
  <2>2. CASE r.wake = "one"
    <3>1. th \in WakeOne(c)
      BY <1>2, <2>2 DEF Notify
    <3>2. QED
      BY <1>2, <2>2, <3>1, WakeOneIs
  <2>3. CASE r.wake \notin {"all", "one"}
    <3>1. th = thr
      BY <1>2, <2>3 DEF Notify
    <3>2. QED
      BY <1>2, <2>3, <3>1 DEF Rouses
  <2>4. QED
    BY <2>1, <2>2, <2>3
<1>3. QED
  BY <1>1, <1>2

\* What a thread of a blocking call is left with by its own step.
LEMMA PutThread ==
    ASSUME ThrInv, NEW t \in Threads, NEW x, thr' = [thr EXCEPT ![t] = x]
    PROVE  thr'[t] = x /\ \A u \in Threads \ {t} : thr'[u] = thr[u]
  BY DEF ThrInv

LEMMA IdleStep ==
    ASSUME IndInv, IdleInv, [Next]_vars
    PROVE  IdleInv'
<1>1. ASSUME Rouses(thr') PROVE IdleInv'
  BY <1>1 DEF Rouses, IdleInv
<1>2. thr' = thr => IdleInv'
  BY DEF IdleInv
<1>3. ASSUME NEW t \in Threads, NEW x, x.op = "idle" => x.soc = 0,
             thr' = [thr EXCEPT ![t] = x]
      PROVE  IdleInv'
  BY <1>3, PutThread DEF IdleInv, IndInv
<1>4. /\ Idle.soc = 0
      /\ \A s : Blocked("connect", s).op = "connect" /\ Blocked("accept", s).op = "accept"
  BY DEF Idle, Blocked
<1>5. ASSUME NEW W, SettlesAll(W) PROVE IdleInv'
  BY <1>1, <1>5, WakeAllIs DEF SettlesAll, IndInv
<1>6. ASSUME NEW t \in Threads, ConnectWake(t) PROVE IdleInv'
  <2>1. thr' = [thr EXCEPT ![t] = Idle]
          \/ thr' = [thr EXCEPT ![t] = Blocked("connect", thr[t].soc)]
    BY <1>6 DEF ConnectWake
  <2>2. QED
    BY <1>3, <1>4, <2>1
<1>7. ASSUME NEW t \in Threads, NEW s, AcceptLoop(t, s) PROVE IdleInv'
  <2>1. thr' = [thr EXCEPT ![t] = Idle]
          \/ thr' = [thr EXCEPT ![t] = Blocked("accept", s)]
    BY <1>7 DEF AcceptLoop
  <2>2. QED
    BY <1>3, <1>4, <2>1
<1>8. ASSUME NEW t \in Threads, AcceptWake(t) PROVE IdleInv'
  BY <1>7, <1>8 DEF AcceptWake
<1>9. ASSUME NEW t \in Threads, NEW s \in Cbs, Accept(t, s) PROVE IdleInv'
  BY <1>7, <1>9 DEF Accept
<1>10. ASSUME NEW t \in Threads, NEW s \in Cbs, NEW peer \in Targets,
              NEW iss \in IssSet, NEW ok \in TxOk, Connect(t, s, peer, iss, ok)
       PROVE  IdleInv'
  <2>1. thr' = thr \/ thr' = [thr EXCEPT ![t] = Blocked("connect", s)]
    BY <1>10, ConnectFrame
  <2>2. QED
    BY <1>2, <1>3, <1>4, <2>1
<1>11. ASSUME NEW t \in Threads, NEW s \in Cbs,
              \/ \E peer \in NoRoute : ConnectNoRoute(t, s, peer)
              \/ \E port \in Ports : Bind(t, s, port)
              \/ Listen(t, s)
       PROVE  IdleInv'
  BY <1>2, <1>11 DEF ConnectNoRoute, Bind, Listen
<1>12. ASSUME NEW peer \in Peers, NEW port \in Ports \cup Ephemeral,
              NEW c, NEW b, NEW r, RxDoes(peer, port, c, b, r)
       PROVE  IdleInv'
  <2>1. thr' \in Notify(c, r) /\ r.push \in BOOLEAN
    BY <1>12 DEF RxDoes, Handled
  <2>2. QED
    BY <1>1, <2>1, NotifyIs DEF IndInv
<1>13. QED
  BY <1>5, <1>6, <1>8, <1>9, <1>10, <1>11, <1>12, StepCases

LEMMA IdleHolds == Spec => []IdleInv
<1>1. Init => IdleInv
  BY DEF Init, IdleInv, Idle
<1>2. IndInv /\ IdleInv /\ [Next]_vars => IdleInv'
  BY IdleStep
<1>3. QED
  BY <1>1, <1>2, IndInvHolds, PTL DEF Spec

-----------------------------------------------------------------------------
(***************************************************************************)
(* connect.  A signal wakes any one waiter, so connect relies on being     *)
(* alone on its socket, and on the socket not becoming a listener before   *)
(* the thread has run.                                                     *)
(***************************************************************************)
ConnectAlone ==
    \A t \in Threads : thr[t].op = "connect" =>
        /\ cbs[thr[t].soc].state # "LISTEN"
        /\ \A u \in Threads : thr[u].soc = thr[t].soc => u = t
        /\ ~thr[t].woken => cbs[thr[t].soc].state = "SYN_SENT"

LEMMA SocOf ==
    ASSUME ThrInv, NEW t \in Threads, thr[t].op # "idle"
    PROVE  thr[t].soc \in Cbs /\ thr[t].soc # 0
  BY DEF ThrInv, ThreadOK, Cbs

\* A step that leaves the threads where they are, and may wake some.
LEMMA AloneRouse ==
    ASSUME IndInv, ConnectAlone, Rouses(thr'),
           \A t \in Threads : thr[t].op = "connect" =>
             LET s == thr[t].soc
             IN  /\ cbs'[s].state # "LISTEN"
                 /\ ~thr'[t].woken => cbs'[s].state = "SYN_SENT"
    PROVE  ConnectAlone'
  BY DEF ConnectAlone, Rouses

LEMMA AloneAccept ==
    ASSUME IndInv, ConnectAlone, NEW t \in Threads, NEW s \in Cbs,
           thr[t].op # "connect", AcceptLoop(t, s)
    PROVE  ConnectAlone'
<1>1. \A c \in Cbs : cbs'[c].state = cbs[c].state
  BY AcceptFrame
<1>2. \A u \in Threads \ {t} : thr'[u] = thr[u]
  BY AcceptFrame, PutThread DEF IndInv
<1>3. /\ thr'[t].op # "connect"
      /\ thr'[t].soc = 0 \/ (thr'[t].soc = s /\ cbs[s].state = "LISTEN")
  <2>1. \/ thr' = [thr EXCEPT ![t] = Idle]
        \/ thr' = [thr EXCEPT ![t] = Blocked("accept", s)] /\ cbs[s].state = "LISTEN"
    BY AcceptFrame
  <2>2. thr'[t] = Idle \/ (thr'[t] = Blocked("accept", s) /\ cbs[s].state = "LISTEN")
    BY <2>1, PutThread DEF IndInv
  <2>3. QED
    BY <2>2 DEF Idle, Blocked
<1>4. SUFFICES ASSUME NEW u \in Threads, thr'[u].op = "connect"
               PROVE  /\ cbs'[thr'[u].soc].state # "LISTEN"
                      /\ \A v \in Threads : thr'[v].soc = thr'[u].soc => v = u
                      /\ ~thr'[u].woken => cbs'[thr'[u].soc].state = "SYN_SENT"
  BY DEF ConnectAlone
<1>5. u # t /\ thr'[u] = thr[u] /\ thr[u].soc \in Cbs /\ thr[u].soc # 0
  BY <1>2, <1>3, <1>4, SocOf DEF IndInv
<1>6. thr'[t].soc # thr[u].soc
  BY <1>3, <1>4, <1>5 DEF ConnectAlone
<1>7. QED
  BY <1>1, <1>2, <1>4, <1>5, <1>6 DEF ConnectAlone

LEMMA AloneStep ==
    ASSUME ~Shared, IndInv, ConnectAlone, [Next]_vars
    PROVE  ConnectAlone'
<1>0. ThrInv
  BY DEF IndInv
<1>1. ASSUME NEW W, SettlesAll(W) PROVE ConnectAlone'
  <2>1. Rouses(thr')
          /\ \A t \in Threads : thr'[t].woken <=> (thr[t].woken \/ thr[t].soc \in W)
    BY <1>0, <1>1, WakeAllIs DEF SettlesAll
  <2>2. ASSUME NEW t \in Threads, thr[t].op = "connect"
        PROVE  /\ cbs'[thr[t].soc].state # "LISTEN"
               /\ ~thr'[t].woken => cbs'[thr[t].soc].state = "SYN_SENT"
    <3>1. thr[t].soc \in Cbs /\ Settles(thr[t].soc, W)
      BY <1>0, <1>1, <2>2, SocOf DEF SettlesAll
    <3>2. QED
      BY <2>1, <2>2, <3>1 DEF Settles, ConnectAlone
  <2>3. QED
    BY <2>1, <2>2, AloneRouse
<1>2. ASSUME NEW t \in Threads, ConnectWake(t) PROVE ConnectAlone'
  <2>1. /\ cbs' = cbs
        /\ \/ thr' = [thr EXCEPT ![t] = Idle]
           \/ /\ thr' = [thr EXCEPT ![t] = Blocked("connect", thr[t].soc)]
              /\ cbs[thr[t].soc].state = "SYN_SENT"
    BY <1>2 DEF ConnectWake
  <2>2. \A u \in Threads \ {t} : thr'[u] = thr[u]
    BY <1>0, <2>1, PutThread
  <2>3. \/ thr'[t].soc = 0 /\ thr'[t].op = "idle"
        \/ /\ thr'[t].soc = thr[t].soc /\ thr'[t].op = "connect"
           /\ cbs[thr[t].soc].state = "SYN_SENT"
    <3>1. thr'[t] = Idle \/ (thr'[t] = Blocked("connect", thr[t].soc)
                               /\ cbs[thr[t].soc].state = "SYN_SENT")
      BY <1>0, <2>1, PutThread
    <3>2. QED
      BY <3>1 DEF Idle, Blocked
  <2>4. thr[t].op = "connect"
    BY <1>2 DEF ConnectWake
  <2>5. SUFFICES ASSUME NEW u \in Threads, thr'[u].op = "connect"
                 PROVE  /\ cbs'[thr'[u].soc].state # "LISTEN"
                        /\ \A v \in Threads : thr'[v].soc = thr'[u].soc => v = u
                        /\ ~thr'[u].woken => cbs'[thr'[u].soc].state = "SYN_SENT"
    BY DEF ConnectAlone
  <2>6. thr[u].op = "connect" /\ thr'[u].soc = thr[u].soc /\ thr[u].soc # 0
    BY <1>0, <2>2, <2>3, <2>4, <2>5, SocOf
  <2>7. QED
    BY <2>1, <2>2, <2>3, <2>4, <2>5, <2>6 DEF ConnectAlone
<1>3. ASSUME NEW t \in Threads, AcceptWake(t) PROVE ConnectAlone'
  <2>1. thr[t].op = "accept" /\ AcceptLoop(t, thr[t].soc)
    BY <1>3 DEF AcceptWake
  <2>2. QED
    BY <1>0, <2>1, SocOf, AloneAccept
<1>4. ASSUME NEW t \in Threads, NEW s \in Cbs, Accept(t, s) PROVE ConnectAlone'
  <2>1. thr[t].op = "idle" /\ AcceptLoop(t, s)
    BY <1>4 DEF Accept, Idling, Idle
  <2>2. QED
    BY <2>1, AloneAccept
<1>5. \* connect, listen: nobody is on the socket
      ASSUME NEW s \in Cbs, Usable(s), thr' = thr,
             \A c \in Cbs \ {s} : cbs'[c] = cbs[c]
      PROVE  ConnectAlone'
  <2>1. \A t \in Threads : thr[t].op = "connect" =>
            thr[t].soc \in Cbs \ {s}
    BY <1>0, <1>5, SocOf DEF Usable
  <2>2. QED
    BY <1>5, <2>1 DEF ConnectAlone
<1>6. ASSUME NEW t \in Threads, NEW s \in Cbs, NEW peer \in Targets,
             NEW iss \in IssSet, NEW ok \in TxOk, Connect(t, s, peer, iss, ok)
      PROVE  ConnectAlone'
  <2>1. Usable(s) /\ Idling(t)
    BY <1>6 DEF Connect
  <2>2. \A c \in Cbs \ {s} : cbs'[c] = cbs[c]
    BY <1>6, ConnectFrame
  <2>3. CASE thr' = thr
    BY <1>5, <2>1, <2>2, <2>3
  <2>4. CASE /\ thr' = [thr EXCEPT ![t] = Blocked("connect", s)]
             /\ cbs'[s].state = "SYN_SENT"
    <3>1. thr'[t] = Blocked("connect", s) /\ \A u \in Threads \ {t} : thr'[u] = thr[u]
      BY <1>0, <2>4, PutThread
    <3>2. thr'[t].op = "connect" /\ thr'[t].soc = s
      BY <3>1 DEF Blocked
    <3>3. \A u \in Threads : thr[u].soc # s
      BY <2>1 DEF Usable
    <3>4. \A u \in Threads : thr[u].op = "connect" => thr[u].soc \in Cbs \ {s}
      BY <1>0, <3>3, SocOf
    <3>5. QED
      BY <2>2, <2>4, <3>1, <3>2, <3>3, <3>4 DEF ConnectAlone
  <2>5. QED
    BY <1>6, <2>3, <2>4, ConnectFrame
<1>7. ASSUME NEW t \in Threads, NEW s \in Cbs,
             \/ \E peer \in NoRoute : ConnectNoRoute(t, s, peer)
             \/ Listen(t, s)
      PROVE  ConnectAlone'
  <2>1. Usable(s)
    BY <1>7 DEF ConnectNoRoute, Listen
  <2>2. thr' = thr /\ \A c \in Cbs \ {s} : cbs'[c] = cbs[c]
    BY <1>7, NoRouteFrame, ListenFrame
  <2>3. QED
    BY <1>5, <2>1, <2>2
<1>8. ASSUME NEW t \in Threads, NEW s \in Cbs, NEW port \in Ports, Bind(t, s, port)
      PROVE  ConnectAlone'
  <2>1. /\ thr' = thr /\ cbs[s].state = "CLOSED" /\ cbs'[s].state = "CLOSED"
        /\ \A c \in Cbs \ {s} : cbs'[c] = cbs[c]
    BY <1>8, BindFrame
  <2>2. \A c \in Cbs : cbs'[c].state = cbs[c].state
    BY <2>1
  <2>3. QED
    BY <1>0, <2>1, <2>2, SocOf DEF ConnectAlone
<1>9. ASSUME NEW peer \in Peers, NEW port \in Ports \cup Ephemeral,
             NEW c, NEW b, NEW r, RxDoes(peer, port, c, b, r)
      PROVE  ConnectAlone'
  <2>1. thr' \in Notify(c, r) /\ Handled(b, r) /\ r.push \in BOOLEAN
    BY <1>9 DEF RxDoes, Handled
  <2>2. Rouses(thr')
    BY <1>0, <2>1, NotifyIs
  <2>3. ASSUME NEW t \in Threads, thr[t].op = "connect"
        PROVE  /\ cbs'[thr[t].soc].state # "LISTEN"
               /\ ~thr'[t].woken => cbs'[thr[t].soc].state = "SYN_SENT"
    <3> DEFINE s == thr[t].soc
    <3>1. s \in Cbs /\ cbs[s].state # "LISTEN"
      BY <1>0, <2>3, SocOf DEF ConnectAlone
    <3>2. ~thr'[t].woken => ~thr[t].woken /\ cbs[s].state = "SYN_SENT"
      BY <2>2, <2>3 DEF Rouses, ConnectAlone
    <3> HIDE DEF s
    <3>3. CASE s # c
      BY <1>9, <3>1, <3>2, <3>3 DEF RxDoes, s
    <3>4. CASE s = c
      <4>1. cbs'[s].state = r.cb.state /\ r.cb.state # "LISTEN"
        BY <1>9, <3>1, <3>4 DEF RxDoes, Handled
      <4>2. ASSUME ~thr'[t].woken, r.cb.state # "SYN_SENT"
            PROVE  FALSE
        <5>1. cbs[c].state = "SYN_SENT"
          BY <3>2, <3>4, <4>2
        <5>2. b = cbs[c]
          BY <1>9, <5>1, FreeClosed DEF RxDoes, IndInv
        <5>3. ~r.push /\ r.wake \in {"one", "all"}
          BY <2>1, <4>2, <5>1, <5>2 DEF Handled, Quiet, QuietStates
        <5>4. ~(r.wake = "all")
          BY <1>0, <2>1, <3>4, <4>2, <5>3, NotifyIs DEF s
        <5>5. CASE r.wake = "one"
          <6>1. thr' \in WakeOne(c)
            BY <1>0, <2>1, <5>3, <5>5, NotifyIs
          <6>2. t \in Waiting(c)
            BY <3>2, <3>4, <4>2 DEF Waiting, s
          <6>3. PICK u \in Waiting(c) : thr'[u].woken
            BY <1>0, <6>1, <6>2, WakeOneIs
          <6>4. u = t
            BY <2>3, <3>4 DEF ConnectAlone, Waiting, s
          <6>5. QED
            BY <4>2, <6>3, <6>4
        <5>6. QED
          BY <5>3, <5>4, <5>5
      <4>3. QED
        BY <4>1, <4>2 DEF s
    <3>5. QED
      BY <3>3, <3>4
  <2>4. QED
    BY <2>2, <2>3, AloneRouse
<1>10. QED
  BY <1>1, <1>2, <1>3, <1>4, <1>6, <1>7, <1>8, <1>9, StepCases

LEMMA AloneHolds ==
    ASSUME ~Shared
    PROVE  Spec => []ConnectAlone
<1>1. Init => ConnectAlone
  BY DEF Init, ConnectAlone, Idle
<1>2. IndInv /\ ConnectAlone /\ [Next]_vars => ConnectAlone'
  BY AloneStep
<1>3. QED
  BY <1>1, <1>2, IndInvHolds, PTL DEF Spec

\* A thread sleeps in tcp_api_connect only while its SYN is unanswered, as long
\* as applications do not use a socket another thread is blocked on: the
\* answer, a refusal, the user timeout and close all wake it.
THEOREM ConnectWakeups ==
    ASSUME ~Shared
    PROVE  Spec => []ConnectNoLostWakeup
<1>1. ConnectAlone => ConnectNoLostWakeup
  BY DEF ConnectAlone, ConnectNoLostWakeup
<1>2. Spec => []ConnectAlone
  BY AloneHolds
<1>3. QED
  BY <1>1, <1>2, PTL

-----------------------------------------------------------------------------
(***************************************************************************)
(* accept.  The backlog of a listener grows by one with each signal, and   *)
(* every signal must reach a thread that is in accept.                     *)
(***************************************************************************)

\* The woken threads in accept on l, for the threads th.
WokenOn(th, l) ==
    {u \in Threads : th[u].op = "accept" /\ th[u].soc = l /\ th[u].woken}

LEMMA WokenCount ==
    ASSUME NEW S \in SUBSET Threads, NEW T \in SUBSET Threads
    PROVE  /\ Cardinality(S) \in Nat /\ Cardinality(T) \in Nat
           /\ S \subseteq T => Cardinality(S) <= Cardinality(T)
           /\ \A u : S \cup {u} \subseteq T /\ u \notin S =>
                  Cardinality(S) + 1 <= Cardinality(T)
           /\ \A u : S \ {u} \subseteq T => Cardinality(S) - 1 <= Cardinality(T)
<1>1. IsFiniteSet(S) /\ IsFiniteSet(T)
  BY ThreadsAssumption, FS_Subset
<1>2. Cardinality(S) \in Nat /\ Cardinality(T) \in Nat
  BY <1>1, FS_CardinalityType
<1>3. S \subseteq T => Cardinality(S) <= Cardinality(T)
  BY <1>1, FS_Subset
<1>4. ASSUME NEW u, S \cup {u} \subseteq T, u \notin S
      PROVE  Cardinality(S) + 1 <= Cardinality(T)
  <2>1. Cardinality(S \cup {u}) = Cardinality(S) + 1
    BY <1>1, <1>4, FS_AddElement
  <2>2. S \cup {u} \in SUBSET T
    BY <1>4
  <2>3. Cardinality(S \cup {u}) <= Cardinality(T)
    BY <1>1, <2>2, FS_Subset
  <2>4. QED
    BY <2>1, <2>3
<1>5. ASSUME NEW u, S \ {u} \subseteq T
      PROVE  Cardinality(S) - 1 <= Cardinality(T)
  <2>1. Cardinality(S \ {u}) \in {Cardinality(S) - 1, Cardinality(S)}
    BY <1>1, FS_RemoveElement
  <2>2. Cardinality(S \ {u}) <= Cardinality(T)
    BY <1>1, <1>5, FS_Subset
  <2>3. QED
    BY <1>2, <2>1, <2>2
<1>6. QED
  BY <1>2, <1>3, <1>4, <1>5

\* The invariant of one listener for one sleeping thread, in terms of the
\* woken threads.
Backed(l, cs, th) ==
    /\ cs[l].state = "LISTEN"
    /\ Len(cs[l].backlog) <= Cardinality(WokenOn(th, l))

Asleep(th, t, l) == th[t].op = "accept" /\ th[t].soc = l /\ ~th[t].woken

LEMMA AcceptAsBacked ==
    /\ AcceptNoLostWakeup <=>
         \A l \in Cbs, t \in Threads : Asleep(thr, t, l) => Backed(l, cbs, thr)
    /\ AcceptNoLostWakeup' <=>
         \A l \in Cbs, t \in Threads : Asleep(thr', t, l) => Backed(l, cbs', thr')
<1>1. \A l : {u \in Acceptors(l) : thr[u].woken} = WokenOn(thr, l)
  BY DEF Acceptors, WokenOn
<1>2. \A l : {u \in Acceptors(l)' : thr'[u].woken} = WokenOn(thr', l)
  BY DEF Acceptors, WokenOn
<1>3. AcceptNoLostWakeup <=>
        \A l \in Cbs, t \in Threads : Asleep(thr, t, l) => Backed(l, cbs, thr)
  BY <1>1 DEF AcceptNoLostWakeup, Asleep, Backed, Acceptors
<1>4. AcceptNoLostWakeup' <=>
        \A l \in Cbs, t \in Threads : Asleep(thr', t, l) => Backed(l, cbs', thr')
  BY <1>2 DEF AcceptNoLostWakeup, Asleep, Backed, Acceptors, Cbs
<1>5. QED
  BY <1>3, <1>4

\* No thread is in connect on a listener.
Apart == \A t \in Threads : thr[t].op = "connect" => cbs[thr[t].soc].state # "LISTEN"

\* A step that changes neither the listener nor makes its woken threads fewer.
LEMMA BackedKept ==
    ASSUME NEW l \in Cbs, Backed(l, cbs, thr), WokenOn(thr, l) \subseteq WokenOn(thr', l),
           cbs'[l].state = cbs[l].state, cbs'[l].backlog = cbs[l].backlog,
           CbsInv
    PROVE  Backed(l, cbs', thr')
<1>1. Len(cbs[l].backlog) \in Nat
  BY DEF CbsInv, CbInv, CbTypeOK
<1>2. WokenOn(thr, l) \subseteq Threads /\ WokenOn(thr', l) \subseteq Threads
  BY DEF WokenOn
<1>3. /\ Cardinality(WokenOn(thr, l)) \in Nat /\ Cardinality(WokenOn(thr', l)) \in Nat
      /\ Cardinality(WokenOn(thr, l)) <= Cardinality(WokenOn(thr', l))
  BY <1>2, WokenCount
<1>4. QED
  BY <1>1, <1>3 DEF Backed

LEMMA BackedAccept ==
    ASSUME IndInv, AcceptNoLostWakeup, NEW t \in Threads, NEW s \in Cbs,
           thr[t].op = "idle" \/ (thr[t].op = "accept" /\ thr[t].soc = s),
           AcceptLoop(t, s)
    PROVE  AcceptNoLostWakeup'
<1>0. ThrInv /\ CbsInv
  BY DEF IndInv
<1>1. SUFFICES ASSUME NEW l \in Cbs, NEW u \in Threads, Asleep(thr', u, l)
               PROVE  Backed(l, cbs', thr')
  BY AcceptAsBacked
<1>2. \A v \in Threads \ {t} : thr'[v] = thr[v]
  BY AcceptFrame, PutThread, <1>0
<1>3. Idle.op = "idle" /\ Blocked("accept", s).soc = s
  BY DEF Idle, Blocked
<1>4. \A v \in Threads \ {t} : v \in WokenOn(thr, l) => v \in WokenOn(thr', l)
  BY <1>2 DEF WokenOn
<1>5. u # t => Asleep(thr, u, l) /\ Backed(l, cbs, thr)
  BY <1>1, <1>2, AcceptAsBacked DEF Asleep
<1>6. CASE l # s
  <2>1. thr'[t] = Idle \/ thr'[t] = Blocked("accept", s)
    <3>1. \/ thr' = [thr EXCEPT ![t] = Idle]
          \/ thr' = [thr EXCEPT ![t] = Blocked("accept", s)]
      BY AcceptFrame
    <3>2. QED
      BY <1>0, <3>1, PutThread
  <2>2. u # t
    BY <1>1, <1>3, <1>6, <2>1 DEF Asleep
  <2>3. t \notin WokenOn(thr, l)
    BY <1>6 DEF WokenOn
  <2>4. WokenOn(thr, l) \subseteq WokenOn(thr', l)
    BY <1>4, <2>3 DEF WokenOn
  <2>5. cbs'[l].state = cbs[l].state /\ cbs'[l].backlog = cbs[l].backlog
    BY <1>6, AcceptFrame
  <2>6. QED
    BY <1>0, <1>5, <2>2, <2>4, <2>5, BackedKept
<1>7. CASE l = s
  <2>0. cbs'[s].state = cbs[s].state
    BY AcceptFrame
  <2>1. CASE thr' = [thr EXCEPT ![t] = Idle] /\ cbs[s].state # "LISTEN"
    <3>1. thr'[t] = Idle
      BY <1>0, <2>1, PutThread
    <3>2. u # t
      BY <1>1, <1>3, <3>1 DEF Asleep
    <3>3. QED
      BY <1>5, <1>7, <2>1, <3>2 DEF Backed
  <2>2. CASE cbs[s].state = "LISTEN" /\ cbs'[s].backlog = <<>>
    <3>1. WokenOn(thr', l) \subseteq Threads
      BY DEF WokenOn
    <3>2. Cardinality(WokenOn(thr', l)) \in Nat
      BY <3>1, WokenCount
    <3>3. Len(cbs'[l].backlog) = 0
      BY <1>7, <2>2
    <3>4. QED
      BY <1>7, <2>0, <2>2, <3>2, <3>3 DEF Backed
  <2>3. CASE /\ thr' = [thr EXCEPT ![t] = Idle]
             /\ cbs[s].state = "LISTEN"
             /\ cbs[s].backlog # <<>>
             /\ cbs'[s].backlog = Tail(cbs[s].backlog)
    <3>1. thr'[t] = Idle
      BY <1>0, <2>3, PutThread
    <3>2. u # t
      BY <1>1, <1>3, <3>1 DEF Asleep
    <3>3. Len(cbs[l].backlog) \in Nat /\ Len(cbs'[l].backlog) = Len(cbs[l].backlog) - 1
      <4>1. cbs[s].backlog \in Seq(Cbs)
        BY <1>0 DEF CbsInv, CbInv, CbTypeOK
      <4>2. QED
        BY <1>7, <2>3, <4>1
    <3>4. WokenOn(thr, l) \subseteq Threads /\ WokenOn(thr', l) \subseteq Threads
            /\ WokenOn(thr, l) \ {t} \subseteq WokenOn(thr', l)
      BY <1>4 DEF WokenOn
    <3>5. /\ Cardinality(WokenOn(thr, l)) \in Nat
          /\ Cardinality(WokenOn(thr', l)) \in Nat
          /\ Cardinality(WokenOn(thr, l)) - 1 <= Cardinality(WokenOn(thr', l))
      BY <3>4, WokenCount
    <3>6. Len(cbs[l].backlog) <= Cardinality(WokenOn(thr, l))
      BY <1>5, <3>2 DEF Backed
    <3>7. Len(cbs'[l].backlog) <= Cardinality(WokenOn(thr', l))
      BY <3>3, <3>5, <3>6
    <3>8. QED
      BY <1>7, <2>0, <2>3, <3>7 DEF Backed
  <2>4. QED
    BY <2>1, <2>2, <2>3, AcceptFrame
<1>8. QED
  BY <1>6, <1>7

LEMMA BackedRx ==
    ASSUME IndInv, IdleInv, ListenFresh, Apart, AcceptNoLostWakeup,
           NEW peer \in Peers, NEW port \in Ports \cup Ephemeral,
           NEW c, NEW b, NEW r, RxDoes(peer, port, c, b, r)
    PROVE  AcceptNoLostWakeup'
<1>0. ThrInv /\ CbsInv
  BY DEF IndInv
<1>1. SUFFICES ASSUME NEW l \in Cbs, NEW t \in Threads, Asleep(thr', t, l)
               PROVE  Backed(l, cbs', thr')
  BY AcceptAsBacked
<1>2. thr' \in Notify(c, r) /\ r.push \in BOOLEAN /\ c \in Cbs
  BY DEF RxDoes, Handled
<1>3. Rouses(thr')
  BY <1>0, <1>2, NotifyIs
<1>4. Asleep(thr, t, l) /\ Backed(l, cbs, thr)
  BY <1>1, <1>3, AcceptAsBacked DEF Rouses, Asleep
<1>5. l # c
  <2>1. cbs[l].state = "LISTEN" /\ cbs[l].peer = NoPeer /\ l \notin Free
    BY <1>0, <1>4, FreeClosed DEF Backed, ListenFresh
  <2>2. c \in Free \/ cbs[c].peer = peer
    BY DEF RxDoes
  <2>3. QED
    BY <2>1, <2>2, HostAssumption
<1>6. /\ cbs'[l].state = cbs[l].state
      /\ cbs'[l].backlog = IF r.push /\ l = r.cb.parent
                           THEN Append(cbs[l].backlog, c) ELSE cbs[l].backlog
  BY <1>5 DEF RxDoes
<1>7. WokenOn(thr, l) \subseteq WokenOn(thr', l)
  BY <1>3 DEF Rouses, WokenOn
<1>8. CASE ~(r.push /\ l = r.cb.parent)
  BY <1>0, <1>4, <1>6, <1>7, <1>8, BackedKept
<1>9. CASE r.push /\ l = r.cb.parent
  <2>1. PICK one \in WakeOne(l) :
          \A u \in Threads : one[u].woken => thr'[u].woken
    <3>1. \E one \in WakeOne(r.cb.parent) :
            \A u \in Threads : one[u].woken => thr'[u].woken
      BY <1>0, <1>2, <1>9, NotifyPush
    <3>2. QED
      BY <1>9, <3>1
  <2>2. t \in Waiting(l)
    BY <1>4 DEF Asleep, Waiting
  <2>3. PICK u \in Waiting(l) : one[u].woken
    BY <1>0, <2>1, <2>2, WakeOneIs
  <2>4. u \in Threads /\ thr[u].soc = l /\ ~thr[u].woken /\ thr'[u].woken
    BY <2>1, <2>3 DEF Waiting
  <2>5. thr[u].op = "accept"
    <3>1. thr[u].op \in {"idle", "connect", "accept"}
      BY <1>0, <2>4 DEF ThrInv, ThreadOK, ThreadType
    <3>2. thr[u].op # "idle"
      BY <2>4 DEF IdleInv, Cbs
    <3>3. thr[u].op # "connect"
      BY <1>4, <2>4 DEF Apart, Backed
    <3>4. QED
      BY <3>1, <3>2, <3>3
  <2>6. u \in WokenOn(thr', l) /\ u \notin WokenOn(thr, l)
    BY <1>3, <2>4, <2>5 DEF Rouses, WokenOn
  <2>7. /\ WokenOn(thr, l) \subseteq Threads /\ WokenOn(thr', l) \subseteq Threads
        /\ WokenOn(thr, l) \cup {u} \subseteq WokenOn(thr', l)
    BY <1>7, <2>6 DEF WokenOn
  <2>8. /\ Cardinality(WokenOn(thr, l)) \in Nat
        /\ Cardinality(WokenOn(thr', l)) \in Nat
        /\ Cardinality(WokenOn(thr, l)) + 1 <= Cardinality(WokenOn(thr', l))
    BY <2>6, <2>7, WokenCount
  <2>9. Len(cbs[l].backlog) \in Nat /\ Len(cbs'[l].backlog) = Len(cbs[l].backlog) + 1
    <3>1. cbs[l].backlog \in Seq(Cbs)
      BY <1>0 DEF CbsInv, CbInv, CbTypeOK
    <3>2. QED
      BY <1>2, <1>6, <1>9, <3>1
  <2>10. QED
    BY <1>4, <1>6, <2>8, <2>9 DEF Backed
<1>10. QED
  BY <1>8, <1>9

LEMMA BackedStep ==
    ASSUME IndInv, IdleInv, ListenFresh, Apart, AcceptNoLostWakeup, [Next]_vars
    PROVE  AcceptNoLostWakeup'
<1>0. ThrInv /\ CbsInv
  BY DEF IndInv
<1>1. ASSUME NEW W, SettlesAll(W) PROVE AcceptNoLostWakeup'
  <2>1. SUFFICES ASSUME NEW l \in Cbs, NEW t \in Threads, Asleep(thr', t, l)
                 PROVE  Backed(l, cbs', thr')
    BY AcceptAsBacked
  <2>2. Rouses(thr')
          /\ \A u \in Threads : thr'[u].woken <=> (thr[u].woken \/ thr[u].soc \in W)
    BY <1>0, <1>1, WakeAllIs DEF SettlesAll
  <2>3. Asleep(thr, t, l) /\ l \notin W
    BY <2>1, <2>2 DEF Rouses, Asleep
  <2>4. Backed(l, cbs, thr)
    BY <2>3, AcceptAsBacked
  <2>5. WokenOn(thr, l) \subseteq WokenOn(thr', l)
    BY <2>2 DEF Rouses, WokenOn
  <2>6. cbs'[l].state = cbs[l].state /\ cbs'[l].backlog = cbs[l].backlog
    BY <1>1, <2>3, <2>4 DEF SettlesAll, Settles, Backed
  <2>7. QED
    BY <1>0, <2>4, <2>5, <2>6, BackedKept
<1>2. \* a thread that was and is in no accept; a control block that was closed
      ASSUME NEW t \in Threads, thr[t].op # "accept", thr'[t].op # "accept",
             \A u \in Threads \ {t} : thr'[u] = thr[u],
             \A c \in Cbs : cbs[c].state = "LISTEN" => cbs'[c] = cbs[c]
      PROVE  AcceptNoLostWakeup'
  <2>1. SUFFICES ASSUME NEW l \in Cbs, NEW u \in Threads, Asleep(thr', u, l)
                 PROVE  Backed(l, cbs', thr')
    BY AcceptAsBacked
  <2>2. Asleep(thr, u, l)
    BY <1>2, <2>1 DEF Asleep
  <2>3. Backed(l, cbs, thr)
    BY <2>2, AcceptAsBacked
  <2>4. WokenOn(thr, l) \subseteq WokenOn(thr', l)
    BY <1>2 DEF WokenOn
  <2>5. cbs'[l] = cbs[l]
    BY <1>2, <2>3 DEF Backed
  <2>6. QED
    BY <1>0, <2>3, <2>4, <2>5, BackedKept
<1>3. ASSUME NEW t \in Threads, ConnectWake(t) PROVE AcceptNoLostWakeup'
  <2>1. thr[t].op = "connect" /\ cbs' = cbs
          /\ \/ thr' = [thr EXCEPT ![t] = Idle]
             \/ thr' = [thr EXCEPT ![t] = Blocked("connect", thr[t].soc)]
    BY <1>3 DEF ConnectWake
  <2>2. \A u \in Threads \ {t} : thr'[u] = thr[u]
    BY <1>0, <2>1, PutThread
  <2>3. thr'[t] = Idle \/ thr'[t] = Blocked("connect", thr[t].soc)
    BY <1>0, <2>1, PutThread
  <2>4. thr'[t].op # "accept"
    BY <2>3 DEF Idle, Blocked
  <2>5. QED
    BY <1>2, <2>1, <2>2, <2>4
<1>4. ASSUME NEW t \in Threads, AcceptWake(t) PROVE AcceptNoLostWakeup'
  <2>1. thr[t].op = "accept" /\ AcceptLoop(t, thr[t].soc)
    BY <1>4 DEF AcceptWake
  <2>2. thr[t].soc \in Cbs
    BY <1>0, <2>1, SocOf
  <2>3. QED
    BY <2>1, <2>2, BackedAccept
<1>5. ASSUME NEW t \in Threads, NEW s \in Cbs, Accept(t, s)
      PROVE  AcceptNoLostWakeup'
  <2>1. thr[t].op = "idle" /\ AcceptLoop(t, s)
    BY <1>5 DEF Accept, Idling, Idle
  <2>2. QED
    BY <2>1, BackedAccept
<1>6. ASSUME NEW t \in Threads, NEW s \in Cbs,
             \/ \E peer \in NoRoute : ConnectNoRoute(t, s, peer)
             \/ \E port \in Ports : Bind(t, s, port)
             \/ Listen(t, s)
      PROVE  AcceptNoLostWakeup'
  <2>1. thr[t] = Idle
    BY <1>6 DEF ConnectNoRoute, Bind, Listen, Idling
  <2>2. thr' = thr /\ cbs[s].state = "CLOSED" /\ \A c \in Cbs \ {s} : cbs'[c] = cbs[c]
    BY <1>6, NoRouteFrame, BindFrame, ListenFrame
  <2>3. \A c \in Cbs : cbs[c].state = "LISTEN" => cbs'[c] = cbs[c]
    BY <2>2
  <2>4. thr[t].op # "accept" /\ thr'[t].op # "accept"
    BY <2>1, <2>2 DEF Idle
  <2>5. QED
    BY <1>2, <2>2, <2>3, <2>4
<1>7. ASSUME NEW t \in Threads, NEW s \in Cbs, NEW peer \in Targets,
             NEW iss \in IssSet, NEW ok \in TxOk, Connect(t, s, peer, iss, ok)
      PROVE  AcceptNoLostWakeup'
  <2>1. thr[t] = Idle
    BY <1>7 DEF Connect, Idling
  <2>2. /\ thr' = thr \/ thr' = [thr EXCEPT ![t] = Blocked("connect", s)]
        /\ cbs[s].state = "CLOSED" /\ \A c \in Cbs \ {s} : cbs'[c] = cbs[c]
    BY <1>7, ConnectFrame
  <2>3. \A c \in Cbs : cbs[c].state = "LISTEN" => cbs'[c] = cbs[c]
    BY <2>2
  <2>4. \A u \in Threads \ {t} : thr'[u] = thr[u]
    BY <1>0, <2>2, PutThread
  <2>5. thr'[t] = Idle \/ thr'[t] = Blocked("connect", s)
    BY <1>0, <2>1, <2>2, PutThread
  <2>6. thr[t].op # "accept" /\ thr'[t].op # "accept"
    BY <2>1, <2>5 DEF Idle, Blocked
  <2>7. QED
    BY <1>2, <2>3, <2>4, <2>6
<1>8. ASSUME NEW peer \in Peers, NEW port \in Ports \cup Ephemeral,
             NEW c, NEW b, NEW r, RxDoes(peer, port, c, b, r)
      PROVE  AcceptNoLostWakeup'
  BY <1>8, BackedRx
<1>9. QED
  BY <1>1, <1>3, <1>4, <1>5, <1>6, <1>7, <1>8, StepCases

\* Nobody connects to anything.
NoneConnects == \A t \in Threads : thr[t].op # "connect"

LEMMA NoneConnectsStep ==
    ASSUME Targets = {}, IndInv, NoneConnects, [Next]_vars
    PROVE  NoneConnects'
<1>0. ThrInv
  BY DEF IndInv
<1>1. ASSUME NEW W, SettlesAll(W) PROVE NoneConnects'
  BY <1>0, <1>1, WakeAllIs DEF SettlesAll, Rouses, NoneConnects
<1>2. ASSUME NEW t \in Threads, ConnectWake(t) PROVE FALSE
  BY <1>2 DEF ConnectWake, NoneConnects
<1>3. ASSUME NEW t \in Threads, NEW s, AcceptLoop(t, s) PROVE NoneConnects'
  <2>1. \/ thr' = [thr EXCEPT ![t] = Idle]
        \/ thr' = [thr EXCEPT ![t] = Blocked("accept", s)]
    BY <1>3 DEF AcceptLoop
  <2>2. Idle.op # "connect" /\ Blocked("accept", s).op # "connect"
    BY DEF Idle, Blocked
  <2>3. thr'[t].op # "connect" /\ \A u \in Threads \ {t} : thr'[u] = thr[u]
    BY <1>0, <2>1, <2>2, PutThread
  <2>4. QED
    BY <2>3 DEF NoneConnects
<1>4. ASSUME NEW t \in Threads, AcceptWake(t) PROVE NoneConnects'
  BY <1>3, <1>4 DEF AcceptWake
<1>5. ASSUME NEW t \in Threads, NEW s \in Cbs, Accept(t, s) PROVE NoneConnects'
  BY <1>3, <1>5 DEF Accept
<1>6. ASSUME NEW t \in Threads, NEW s \in Cbs,
             \/ \E port \in Ports : Bind(t, s, port)
             \/ Listen(t, s)
      PROVE  NoneConnects'
  BY <1>6 DEF Bind, Listen, NoneConnects
<1>7. NoRoute = {}
  BY HostAssumption
<1>8. ASSUME NEW peer \in Peers, NEW port \in Ports \cup Ephemeral,
             NEW c, NEW b, NEW r, RxDoes(peer, port, c, b, r)
      PROVE  NoneConnects'
  <2>1. thr' \in Notify(c, r) /\ r.push \in BOOLEAN
    BY <1>8 DEF RxDoes, Handled
  <2>2. Rouses(thr')
    BY <1>0, <2>1, NotifyIs
  <2>3. QED
    BY <2>2 DEF Rouses, NoneConnects
<1>9. QED
  BY <1>1, <1>2, <1>4, <1>5, <1>6, <1>7, <1>8, StepCases

LEMMA ApartHolds ==
    ASSUME ~Shared \/ Targets = {}
    PROVE  Spec => []Apart
<1>1. CASE ~Shared
  <2>1. ConnectAlone => Apart
    BY DEF ConnectAlone, Apart
  <2>2. Spec => []ConnectAlone
    BY <1>1, AloneHolds
  <2>3. QED
    BY <2>1, <2>2, PTL
<1>2. CASE Targets = {}
  <2>1. Init => NoneConnects
    BY DEF Init, NoneConnects, Idle
  <2>2. IndInv /\ NoneConnects /\ [Next]_vars => NoneConnects'
    BY <1>2, NoneConnectsStep
  <2>3. NoneConnects => Apart
    BY DEF NoneConnects, Apart
  <2>4. QED
    BY <2>1, <2>2, <2>3, IndInvHolds, PTL DEF Spec
<1>3. QED
  BY <1>1, <1>2

\* A thread sleeps in tcp_api_accept only while its socket listens and every
\* connection in the backlog has a woken thread to take it, however many
\* threads share the listener, when applications listen on fresh sockets and
\* either connect nowhere or leave alone the sockets others are blocked on.
THEOREM AcceptWakeups ==
    ASSUME FreshListen, ~Shared \/ Targets = {}
    PROVE  Spec => []AcceptNoLostWakeup
<1>1. Init => AcceptNoLostWakeup
  BY DEF Init, AcceptNoLostWakeup, Acceptors, Idle
<1>2. IndInv /\ IdleInv /\ ListenFresh /\ Apart /\ AcceptNoLostWakeup
        /\ [Next]_vars => AcceptNoLostWakeup'
  BY BackedStep
<1>3. Spec => []ListenFresh
  BY FreshHolds
<1>4. Spec => []Apart
  BY ApartHolds
<1>5. QED
  BY <1>1, <1>2, <1>3, <1>4, IdleHolds, IndInvHolds, PTL DEF Spec
=============================================================================
