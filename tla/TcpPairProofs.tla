---------------------------- MODULE TcpPairProofs ----------------------------
(***************************************************************************)
(* No lost wake-up in tcp_api_recv and tcp_api_send, for every stream,     *)
(* segment and buffer size, loss pattern and set of ends that close, at    *)
(* any time.                                                               *)
(***************************************************************************)
EXTENDS TcpPair, TcpCbProofs, SequenceTheorems

\* Both control blocks are records, and the threads functions of the end.
ShapeInv ==
    /\ cb = [e \in Ends |-> cb[e]] /\ \A e \in Ends : CbShape(cb[e])
    /\ sender = [e \in Ends |-> sender[e]]
    /\ recver = [e \in Ends |-> recver[e]]

\* What a thread asleep in recv, or in send, relies on.
RecvAsleep(c) ==
    c.rcv_wnd = WinSize /\ c.state \in {"ESTABLISHED", "FIN_WAIT1", "FIN_WAIT2"}
SendAsleep(c) ==
    /\ c.state \notin {"CLOSED", "LISTEN", "SYN_SENT", "SYN_RCVD"}
    /\ c.snd_una # c.snd_nxt
    /\ c.state \in {"ESTABLISHED", "CLOSE_WAIT"} => SndRoom(c) = 0

WakeInv ==
    /\ ShapeInv
    /\ \A e \in Ends : recver[e] = "wait" => RecvAsleep(cb[e])
    /\ \A e \in Ends : sender[e] = "wait" => SendAsleep(cb[e])

\* A quiet change keeps both asleep.
LEMMA QuietAsleep ==
    ASSUME NEW c, NEW d, Quiet(c, d)
    PROVE  /\ RecvAsleep(c) => RecvAsleep(d)
           /\ SendAsleep(c) => SendAsleep(d)
  BY DEF Quiet, QuietStates, RecvAsleep, SendAsleep, SndRoom

\* A handler's result r put in place at e, with its notification.
LEMMA ApplyWake ==
    ASSUME WakeInv, NEW e \in Ends, NEW r, CbShape(r.cb), Apply(e, r),
           r.wake = "none" =>
             /\ RecvAsleep(cb[e]) => RecvAsleep(r.cb)
             /\ SendAsleep(cb[e]) => SendAsleep(r.cb)
    PROVE  WakeInv'
<1>1. /\ cb' = [cb EXCEPT ![e] = r.cb]
      /\ sender' = Woken(sender, e, r) /\ recver' = Woken(recver, e, r)
  BY DEF Apply
<1>2. ShapeInv'
  BY <1>1 DEF WakeInv, ShapeInv, Woken
<1>3. cb'[e] = r.cb /\ \A x \in Ends \ {e} : cb'[x] = cb[x]
  BY <1>1 DEF WakeInv, ShapeInv
<1>4. /\ recver'[e] = "wait" => recver[e] = "wait" /\ r.wake = "none"
      /\ sender'[e] = "wait" => sender[e] = "wait" /\ r.wake = "none"
      /\ \A x \in Ends \ {e} : recver'[x] = recver[x] /\ sender'[x] = sender[x]
  BY <1>1 DEF WakeInv, ShapeInv, Woken, Wakes
<1>5. ASSUME NEW x \in Ends, recver'[x] = "wait" PROVE RecvAsleep(cb'[x])
  BY <1>3, <1>4, <1>5 DEF WakeInv
<1>6. ASSUME NEW x \in Ends, sender'[x] = "wait" PROVE SendAsleep(cb'[x])
  BY <1>3, <1>4, <1>6 DEF WakeInv
<1>7. QED
  BY <1>2, <1>5, <1>6 DEF WakeInv, RecvAsleep, SendAsleep, SndRoom

LEMMA RxWake ==
    ASSUME WakeInv, NEW e \in Ends, NEW seg, NEW keep, NEW ok, Rx(e, seg, keep, ok)
    PROVE  WakeInv'
<1> DEFINE r == tcp_event_segment_arrives(cb[e], seg, Iss[e], ok)
<1>1. CASE UNCHANGED <<cb, sender, recver>>
  BY <1>1 DEF WakeInv, ShapeInv, RecvAsleep, SendAsleep, SndRoom
<1>2. CASE Apply(e, r)
  <2>1. Handled(cb[e], r)
    BY ArrivesHandled DEF WakeInv, ShapeInv
  <2>2. ASSUME r.wake = "none", cb[e].state \notin {"LISTEN", "SYN_RCVD"}
        PROVE  /\ RecvAsleep(cb[e]) => RecvAsleep(r.cb)
               /\ SendAsleep(cb[e]) => SendAsleep(r.cb)
    <3>1. Quiet(cb[e], r.cb)
      BY <2>1, <2>2 DEF Handled
    <3> HIDE DEF r
    <3>2. QED
      BY <3>1, QuietAsleep
  <2> HIDE DEF r
  <2>3. cb[e].state \in {"LISTEN", "SYN_RCVD"} =>
          ~RecvAsleep(cb[e]) /\ ~SendAsleep(cb[e])
    BY DEF RecvAsleep, SendAsleep
  <2>4. CbShape(r.cb)
    BY <2>1 DEF Handled
  <2>5. QED
    BY <1>2, <2>2, <2>3, <2>4, ApplyWake
<1>3. QED
  BY <1>1, <1>2 DEF Rx

LEMMA TimerWake ==
    ASSUME WakeInv, NEW e \in Ends, TimerPass(e)
    PROVE  WakeInv'
<1> DEFINE r == tcp_timer_cb(cb[e])
<1>1. /\ CbShape(r.cb)
      /\ r.wake = "all" \/ (r.wake = "none" /\ Alike(cb[e], r.cb))
  BY TimerHandled DEF WakeInv, ShapeInv
<1>2. Apply(e, r)
  BY DEF TimerPass
<1> HIDE DEF r
<1>3. r.wake = "none" => Quiet(cb[e], r.cb)
  BY <1>1 DEF Alike, CbFields, Quiet, QuietStates
<1>4. QED
  BY <1>1, <1>2, <1>3, QuietAsleep, ApplyWake

\* A full send buffer stays unacknowledged by a FIN behind it.
LEMMA FullUnacked ==
    ASSUME NEW c, c.snd_una \in Nat, c.snd_nxt \in Nat, SndRoom(c) = 0
    PROVE  /\ c.snd_una # c.snd_nxt
           /\ c.snd_nxt + 1 < SeqSpace => c.snd_una # SeqAdd(c.snd_nxt, 1)
<1>1. /\ WinSize \in Nat /\ SndBufSize \in Nat
      /\ 0 < SndBufSize /\ SndBufSize + 1 <= WinSize
  BY PairAssumption, WinSizeAssumption
<1>2. \A n \in Nat : n < WinSize + 1 => n % (WinSize + 1) = n
  BY <1>1
<1>3. SndBufSize % (WinSize + 1) # 0 /\ (SndBufSize + 1) % (WinSize + 1) # 0
  <2>1. SndBufSize % (WinSize + 1) = SndBufSize
    BY <1>1, <1>2
  <2>2. (SndBufSize + 1) % (WinSize + 1) = SndBufSize + 1
    BY <1>1, <1>2
  <2>3. QED
    BY <1>1, <2>1, <2>2
<1>4. (SndBufSize - (c.snd_nxt - c.snd_una)) % (WinSize + 1) = 0
  BY DEF SndRoom, Uint16
<1>5. c.snd_una # c.snd_nxt
  <2>1. c.snd_una = c.snd_nxt => SndBufSize - (c.snd_nxt - c.snd_una) = SndBufSize
    BY <1>1
  <2>2. QED
    BY <1>3, <1>4, <2>1
<1>6. c.snd_una # c.snd_nxt + 1
  <2>1. c.snd_una = c.snd_nxt + 1 =>
          SndBufSize - (c.snd_nxt - c.snd_una) = SndBufSize + 1
    BY <1>1
  <2>2. QED
    BY <1>3, <1>4, <2>1
<1>7. QED
  BY <1>5, <1>6 DEF SeqAdd

LEMMA CloseWake ==
    ASSUME WakeInv, NEW e \in Ends, NEW ok, Close(e, ok),
           cb[e].snd_una \in Nat, cb[e].snd_nxt \in Nat,
           cb[e].state \in {"ESTABLISHED", "CLOSE_WAIT"} =>
               cb[e].snd_nxt + 1 < SeqSpace
    PROVE  WakeInv'
<1> DEFINE c == cb[e]
           r == tcp_close(c, ok)
<1>1. CbShape(c)
  BY DEF WakeInv, ShapeInv
<1>2. CbShape(r.cb) /\ Apply(e, r)
  BY <1>1, CloseHandled DEF Close
<1>3. /\ c.state \in {"SYN_RCVD", "ESTABLISHED", "CLOSE_WAIT"} =>
             /\ r.cb.state = IF c.state = "CLOSE_WAIT" THEN "CLOSING" ELSE "FIN_WAIT1"
             /\ r.cb.snd_nxt = SeqAdd(c.snd_nxt, 1)
             /\ r.cb.snd_una = c.snd_una /\ r.cb.rcv_wnd = c.rcv_wnd
      /\ c.state \notin {"LISTEN", "SYN_SENT", "SYN_RCVD", "ESTABLISHED",
                         "CLOSE_WAIT"} =>
             /\ r.cb.state = c.state /\ r.cb.snd_nxt = c.snd_nxt
             /\ r.cb.snd_una = c.snd_una /\ r.cb.rcv_wnd = c.rcv_wnd
  BY <1>1, CloseNumbers
<1> HIDE DEF r
<1>4. RecvAsleep(c) => RecvAsleep(r.cb)
  <2>1. RecvAsleep(c) => c.state \in {"ESTABLISHED", "FIN_WAIT1", "FIN_WAIT2"}
    BY DEF RecvAsleep
  <2>2. QED
    BY <1>3, <2>1 DEF RecvAsleep
<1>5. SendAsleep(c) => SendAsleep(r.cb)
  <2>1. CASE c.state \in {"ESTABLISHED", "CLOSE_WAIT"} /\ SendAsleep(c)
    <3>1. c.snd_una # SeqAdd(c.snd_nxt, 1)
      BY <2>1, FullUnacked DEF SendAsleep
    <3>2. QED
      BY <1>3, <2>1, <3>1 DEF SendAsleep
  <2>2. CASE c.state \notin {"ESTABLISHED", "CLOSE_WAIT"} /\ SendAsleep(c)
    BY <1>3, <2>2 DEF SendAsleep
  <2>3. QED
    BY <2>1, <2>2
<1>6. QED
  BY <1>2, <1>4, <1>5, ApplyWake

\* Steps of the threads themselves.
LEMMA SendWakeInv ==
    ASSUME WakeInv, NEW e \in Ends,
           SendCall(e) \/ SendWake(e) \/ SendRefused(e) \/ SendWait(e),
           cb[e].snd_una \in Nat, cb[e].snd_nxt \in Nat
    PROVE  WakeInv'
<1>1. /\ cb' = cb /\ recver' = recver
      /\ \E v \in {"run", "idle", "wait"} : sender' = [sender EXCEPT ![e] = v]
      /\ sender'[e] = "wait" => SendAsleep(cb[e])
  BY FullUnacked DEF SendCall, SendWake, SendRefused, SendWait, SendReturn,
                     SendAsleep, WakeInv, ShapeInv
<1>2. ShapeInv' /\ \A x \in Ends \ {e} : sender'[x] = sender[x]
  BY <1>1 DEF WakeInv, ShapeInv
<1>3. QED
  BY <1>1, <1>2 DEF WakeInv, RecvAsleep, SendAsleep, SndRoom

LEMMA SendSegmentWake ==
    ASSUME WakeInv, NEW e \in Ends, NEW ok, SendSegment(e, ok)
    PROVE  WakeInv'
<1> DEFINE c == cb[e]
           size == Min({Mss, Len(todo[e]), SndRoom(c)})
           r == tcp_tx(Result(c), c.snd_nxt, c.rcv_nxt, {"PSH", "ACK"},
                       SubSeq(todo[e], 1, size), ok)
           d == [r.cb EXCEPT !.snd_nxt = SeqAdd(@, size), !.left = UserTimeout + 1]
<1>1. /\ sender[e] = "run" /\ recver' = recver
      /\ cb' = [cb EXCEPT ![e] = r.cb] \/ cb' = [cb EXCEPT ![e] = d]
      /\ sender' = sender \/ sender' = [sender EXCEPT ![e] = "idle"]
  BY DEF SendSegment, SendReturn
<1>2. Alike(c, r.cb)
  BY ResultIs, TxAlike DEF WakeInv, ShapeInv
<1> HIDE DEF r, size
<1>3. /\ CbShape(d) /\ d.rcv_wnd = r.cb.rcv_wnd /\ d.state = r.cb.state
  BY <1>2 DEF Alike, CbShape, CbFields
<1> HIDE DEF d
<1>4. PICK f \in {r.cb, d} : cb' = [cb EXCEPT ![e] = f]
  BY <1>1
<1>5. CbShape(f) /\ f.rcv_wnd = cb[e].rcv_wnd /\ f.state = cb[e].state
  BY <1>2, <1>3, <1>4 DEF Alike, CbFields
<1>6. ShapeInv' /\ sender'[e] # "wait" /\ cb'[e] = f
        /\ \A x \in Ends \ {e} : sender'[x] = sender[x] /\ cb'[x] = cb[x]
  BY <1>1, <1>4, <1>5 DEF WakeInv, ShapeInv
<1>7. QED
  BY <1>1, <1>5, <1>6 DEF WakeInv, RecvAsleep, SendAsleep, SndRoom

LEMMA RecvWakeInv ==
    ASSUME WakeInv, NEW e \in Ends, RecvLoop(e), cb[e].rcv_wnd \in Int
    PROVE  WakeInv'
<1> DEFINE c == cb[e]
           len == Min({WinSize - c.rcv_wnd, RecvSize})
           d == Read(c, len)
<1>1. CASE cb' = cb
  <2>1. /\ sender' = sender
        /\ \E v \in {"idle", "wait"} : recver' = [recver EXCEPT ![e] = v]
        /\ recver'[e] = "wait" => RecvAsleep(cb[e])
    BY <1>1, WinSizeAssumption DEF RecvLoop, RecvAsleep, WakeInv, ShapeInv
  <2>2. ShapeInv' /\ \A x \in Ends \ {e} : recver'[x] = recver[x]
    BY <1>1, <2>1 DEF WakeInv, ShapeInv
  <2>3. QED
    BY <1>1, <2>1, <2>2 DEF WakeInv, RecvAsleep, SendAsleep, SndRoom
<1>2. CASE cb' = [cb EXCEPT ![e] = d] /\ recver' = [recver EXCEPT ![e] = "idle"]
  <2>1. /\ CbShape(d) /\ d.snd_nxt = c.snd_nxt /\ d.snd_una = c.snd_una
        /\ d.state = c.state
    BY DEF Read, WakeInv, ShapeInv, CbShape, CbFields
  <2> HIDE DEF d
  <2>2. sender' = sender
    BY DEF RecvLoop
  <2>3. ShapeInv' /\ cb'[e] = d /\ recver'[e] = "idle"
          /\ \A x \in Ends \ {e} : cb'[x] = cb[x] /\ recver'[x] = recver[x]
    BY <1>2, <2>1, <2>2 DEF WakeInv, ShapeInv
  <2>4. QED
    BY <2>1, <2>2, <2>3 DEF WakeInv, RecvAsleep, SendAsleep, SndRoom
<1>3. QED
  BY <1>1, <1>2 DEF RecvLoop

-----------------------------------------------------------------------------
(***************************************************************************)
(* Type correctness.                                                       *)
(***************************************************************************)
PairTyped ==
    /\ cb = [e \in Ends |-> cb[e]] /\ \A e \in Ends : CbTyped(cb[e], Bytes)
    /\ net \in [Ends -> SUBSET SegOf(Bytes)]
    /\ todo \in [Ends -> Seq(Bytes)]
    /\ mutex \in [Ends -> {"free", "send", "leaked"}]
    /\ sender \in [Ends -> {"idle", "run", "wait", "woken"}]
    /\ recver \in [Ends -> {"idle", "wait", "woken"}]
    /\ pushed \in BOOLEAN

LEMMA PairTypedImplies == PairTyped => TypeOK
<1> SUFFICES ASSUME PairTyped PROVE TypeOK
  OBVIOUS
<1>1. SegOf(Bytes) \subseteq SegType
  BY DEF SegOf, SegType
<1>2. ASSUME NEW e \in Ends
      PROVE  /\ cb[e].state \in States
             /\ {cb[e].snd_nxt, cb[e].snd_una, cb[e].snd_wl1, cb[e].snd_wl2,
                 cb[e].rcv_nxt} \subseteq SeqNos
             /\ {cb[e].snd_wnd, cb[e].rcv_wnd, cb[e].snt} \subseteq Wnds
             /\ \A s \in net[e] : s \in SegType
  BY <1>1 DEF PairTyped, CbTyped
<1>3. ASSUME NEW e \in Ends, NEW i \in DOMAIN cb[e].txq
      PROVE  cb[e].txq[i].seg \in SegType
  <2>1. cb[e].txq[i] \in EntryOf(Bytes)
    BY DEF PairTyped, CbTyped
  <2>2. QED
    BY <1>1, <2>1 DEF EntryOf
<1>4. QED
  BY <1>2, <1>3 DEF TypeOK, PairTyped

LEMMA OtherIs ==
    ASSUME NEW e \in Ends
    PROVE  Other(e) \in Ends /\ Other(e) # e /\ Other(Other(e)) = e
             /\ Ends = {e, Other(e)}
  BY DEF Ends, Other

\* What is on its way after ip_tx: some of what was, and of what was sent.
LEMMA SentIs ==
    ASSUME NEW n, n = [x \in Ends |-> n[x]], NEW e \in Ends, NEW out
    PROVE  /\ Sent(n, e, out) = [x \in Ends |-> Sent(n, e, out)[x]]
           /\ Sent(n, e, out)[e] = n[e]
           /\ Sent(n, e, out)[Other(e)] \in {n[Other(e)], n[Other(e)] \cup out}
  BY OtherIs DEF Sent

LEMMA SentTyped ==
    ASSUME NEW n \in [Ends -> SUBSET SegOf(Bytes)], NEW e \in Ends,
           NEW out \in SUBSET SegOf(Bytes)
    PROVE  Sent(n, e, out) \in [Ends -> SUBSET SegOf(Bytes)]
  BY OtherIs DEF Sent

LEMMA IssType ==
    ASSUME NEW e \in Ends
    PROVE  Iss[e] \in SeqNos /\ Iss[e] \in Nat /\ Len(Stream[e]) \in Nat
             /\ Iss[e] + Len(Stream[e]) + 2 < SeqSpace
<1>1. Stream[e] \in Seq(Bytes)
  BY StreamAssumption
<1>2. Len(Stream[e]) \in Nat
  BY <1>1
<1>3. QED
  BY <1>2, PairAssumption, SeqSpaceAssumption DEF SeqNos

LEMMA ApplyTyped ==
    ASSUME PairTyped, NEW e \in Ends, NEW r, ResTyped(r, Bytes), Apply(e, r)
    PROVE  /\ cb' = [x \in Ends |-> cb'[x]]
           /\ \A x \in Ends : CbTyped(cb'[x], Bytes)
           /\ sender' \in [Ends -> {"idle", "run", "wait", "woken"}]
           /\ recver' \in [Ends -> {"idle", "wait", "woken"}]
<1>1. cb' = [cb EXCEPT ![e] = r.cb] /\ CbTyped(r.cb, Bytes)
  BY DEF Apply, ResTyped
<1>2. sender' = [sender EXCEPT ![e] = IF Wakes(r) /\ @ = "wait" THEN "woken" ELSE @]
      /\ recver' = [recver EXCEPT ![e] = IF Wakes(r) /\ @ = "wait" THEN "woken" ELSE @]
  BY DEF Apply, Woken
<1>3. /\ cb' = [x \in Ends |-> cb'[x]]
      /\ \A x \in Ends : cb'[x] = IF x = e THEN r.cb ELSE cb[x]
  BY <1>1 DEF PairTyped
<1>4. QED
  BY <1>1, <1>2, <1>3 DEF PairTyped

LEMMA TakenTyped == CbTyped(Taken, Bytes)
<1> DEFINE z == ZeroCb("A")
<1>1. CbTyped(z, Bytes)
  BY ZeroTyped
<1>2. /\ CbShape(Taken) /\ Taken.state = "LISTEN"
      /\ \A f \in CbFields \ {"state", "port", "parent"} : Taken[f] = z[f]
  BY <1>1 DEF Taken, CbTyped, CbShape, CbFields
<1> HIDE DEF z
<1>3. QED
  BY <1>1, <1>2 DEF CbTyped, CbFields, States

\* The answer for a freed block: a reset, which carries no data.
LEMMA StrayTyped ==
    ASSUME NEW e \in Ends, NEW seg \in SegOf(Bytes), NEW ok
    PROVE  Stray(e, seg, ok) \in SUBSET SegOf(Bytes)
  BY TakenTyped, IssType, ListenTyped DEF Stray, ResTyped

LEMMA InitTyped == Init => PairTyped
<1> SUFFICES ASSUME Init PROVE PairTyped
  OBVIOUS
<1> DEFINE c == [ZeroCb("B") EXCEPT !.used = TRUE]
           syn == ConnectCb(c, 1, "B", Iss["A"], TRUE)
<1>1. CbTyped(ZeroCb("B"), Bytes)
  BY ZeroTyped
<1>2. CbTyped(c, Bytes)
  <2>1. CbShape(c) /\ \A f \in CbFields \ {"used"} : c[f] = ZeroCb("B")[f]
    BY <1>1 DEF CbTyped, CbShape, CbFields
  <2> HIDE DEF c
  <2>2. QED
    BY <1>1, <2>1, SameTyped
<1> HIDE DEF c
<1>3. ResTyped(syn, Bytes)
  BY <1>2, IssType, ConnectTyped DEF Ends
<1>4. CbTyped(Taken, Bytes)
  BY TakenTyped
<1>5. /\ cb = [e \in Ends |-> IF e = "A" THEN syn.cb ELSE Taken]
      /\ net = [e \in Ends |-> IF e = "B" THEN syn.out ELSE {}]
  BY DEF Init, c
<1> HIDE DEF syn
<1>6. cb = [e \in Ends |-> cb[e]] /\ \A e \in Ends : CbTyped(cb[e], Bytes)
  BY <1>3, <1>4, <1>5 DEF ResTyped
<1>7. net \in [Ends -> SUBSET SegOf(Bytes)]
  BY <1>3, <1>5 DEF ResTyped
<1>8. QED
  BY <1>6, <1>7, StreamAssumption DEF Init, PairTyped

\* A segment of send is cut from what is to be sent, within the send buffer.
LEMMA SendSize ==
    ASSUME PairTyped, NEW e \in Ends
    PROVE  LET size == Min({Mss, Len(todo[e]), SndRoom(cb[e])})
               data == SubSeq(todo[e], 1, size)
               rest == SubSeq(todo[e], size + 1, Len(todo[e]))
           IN  /\ size \in Wnds /\ size <= Len(todo[e]) /\ size <= SndRoom(cb[e])
               /\ size \in {Mss, Len(todo[e]), SndRoom(cb[e])}
               /\ SndRoom(cb[e]) \in Wnds
               /\ data \in Seq(Bytes) /\ Len(data) = size
               /\ rest \in Seq(Bytes) /\ Len(rest) = Len(todo[e]) - size
               /\ todo[e] = data \o rest
<1> DEFINE t == todo[e]
           room == SndRoom(cb[e])
           S == {Mss, Len(t), room}
           size == Min(S)
<1>1. t \in Seq(Bytes) /\ Len(t) \in Nat
  BY DEF PairTyped
<1>2. room \in Wnds
  <2>1. SndBufSize - (cb[e].snd_nxt - cb[e].snd_una) \in Int
    BY PairAssumption, WinSizeAssumption, SeqSpaceAssumption
       DEF PairTyped, CbTyped, SeqNos, Wnds
  <2>2. QED
    BY <2>1, Uint16Type DEF SndRoom
<1>3. S \subseteq Nat /\ S # {}
  BY <1>1, <1>2, PairAssumption, WinSizeAssumption DEF Wnds
<1> HIDE DEF t, room
<1>4. size \in S /\ size <= Len(t) /\ size <= room
  <2> HIDE DEF S
  <2>1. size \in S /\ \A y \in S : size <= y
    BY <1>3, MinIn
  <2>2. QED
    BY <2>1 DEF S
<1>5. size \in Wnds
  BY <1>2, <1>3, <1>4, WinSizeAssumption DEF Wnds
<1> HIDE DEF size, S
<1>6. size \in Nat /\ size <= Len(t)
  BY <1>4, <1>5, WinSizeAssumption DEF Wnds
<1>7. /\ SubSeq(t, 1, size) \in Seq(Bytes) /\ Len(SubSeq(t, 1, size)) = size
      /\ SubSeq(t, size + 1, Len(t)) \in Seq(Bytes)
      /\ Len(SubSeq(t, size + 1, Len(t))) = Len(t) - size
  BY <1>1, <1>6
<1>8. t = SubSeq(t, 1, size) \o SubSeq(t, size + 1, Len(t))
  <2>1. 1 \in 1..(Len(t) + 1) /\ size \in (1 - 1)..Len(t) /\ Len(t) \in size..Len(t)
    BY <1>1, <1>6
  <2>2. SubSeq(t, 1, size) \o SubSeq(t, size + 1, Len(t)) = SubSeq(t, 1, Len(t))
    BY <1>1, <2>1, ConcatAdjacentSubSeq
  <2>3. QED
    BY <1>1, <2>2, SubSeqFull
<1>9. QED
  BY <1>2, <1>4, <1>5, <1>7, <1>8 DEF t, room, size, S

LEMMA SendSegmentTyped ==
    ASSUME PairTyped, NEW e \in Ends, NEW ok, SendSegment(e, ok)
    PROVE  PairTyped'
<1> DEFINE c == cb[e]
           size == Min({Mss, Len(todo[e]), SndRoom(c)})
           data == SubSeq(todo[e], 1, size)
           rest == SubSeq(todo[e], size + 1, Len(todo[e]))
           r == tcp_tx(Result(c), c.snd_nxt, c.rcv_nxt, {"PSH", "ACK"}, data, ok)
           d == [r.cb EXCEPT !.snd_nxt = SeqAdd(@, size), !.left = UserTimeout + 1]
<1>1. /\ size \in Wnds /\ data \in Seq(Bytes) /\ Len(data) = size
      /\ rest \in Seq(Bytes)
  BY SendSize
<1>2. /\ net' = Sent(net, e, r.out)
      /\ cb' \in {[cb EXCEPT ![e] = r.cb], [cb EXCEPT ![e] = d]}
      /\ todo' \in {todo, [todo EXCEPT ![e] = rest]}
      /\ \/ sender' = sender /\ mutex' = mutex
         \/ \E m \in {"leaked", "free"} : SendReturn(e, m)
      /\ UNCHANGED <<recver, pushed>>
  BY DEF SendSegment
<1> HIDE DEF size, data, rest
<1>3. ResTyped(r, Bytes)
  <2>1. c.snd_nxt \in SeqNos /\ c.rcv_nxt \in SeqNos /\ Len(data) <= WinSize
    BY <1>1, WinSizeAssumption DEF PairTyped, CbTyped, Wnds
  <2>2. ResTyped(Result(c), Bytes)
    BY ResultTyped DEF PairTyped
  <2> HIDE DEF c
  <2>3. QED
    BY <1>1, <2>1, <2>2, TxTyped, FlagSets
<1> HIDE DEF r
<1>4. /\ CbShape(d) /\ d.snd_nxt = SeqAdd(r.cb.snd_nxt, size)
      /\ d.left = UserTimeout + 1
      /\ \A f \in CbFields \ {"snd_nxt", "left"} : d[f] = r.cb[f]
  BY <1>3 DEF ResTyped, CbTyped, CbShape, CbFields
<1> HIDE DEF d
<1>5. CbTyped(r.cb, Bytes) /\ d.left \in Nat /\ d.snd_nxt \in SeqNos
  BY <1>1, <1>3, <1>4, TimeoutAssumption, SeqAddType DEF ResTyped, CbTyped
<1>6. CbTyped(d, Bytes)
  BY <1>4, <1>5 DEF CbTyped, CbFields
<1>7. net' \in [Ends -> SUBSET SegOf(Bytes)]
  BY <1>2, <1>3, SentTyped DEF ResTyped, PairTyped
<1>8. cb' = [x \in Ends |-> cb'[x]] /\ \A x \in Ends : CbTyped(cb'[x], Bytes)
  BY <1>2, <1>5, <1>6 DEF PairTyped
<1>9. /\ mutex' \in [Ends -> {"free", "send", "leaked"}]
      /\ sender' \in [Ends -> {"idle", "run", "wait", "woken"}]
  <2>1. CASE sender' = sender /\ mutex' = mutex
    BY <2>1 DEF PairTyped
  <2>2. ASSUME NEW m \in {"leaked", "free"}, SendReturn(e, m)
        PROVE  /\ mutex' \in [Ends -> {"free", "send", "leaked"}]
               /\ sender' \in [Ends -> {"idle", "run", "wait", "woken"}]
    BY <2>2 DEF SendReturn, PairTyped
  <2>3. QED
    BY <1>2, <2>1, <2>2
<1>10. todo' \in [Ends -> Seq(Bytes)]
  BY <1>1, <1>2 DEF PairTyped
<1>11. QED
  BY <1>2, <1>7, <1>8, <1>9, <1>10 DEF PairTyped

LEMMA ReadTyped ==
    ASSUME NEW c, CbTyped(c, Bytes), NEW len \in Nat
    PROVE  CbTyped(Read(c, len), Bytes)
<1> DEFINE d == Read(c, len)
           buf == SubSeq(c.buf, len + 1, Len(c.buf))
           wnd == Uint16(c.rcv_wnd + len)
<1>1. /\ CbShape(d) /\ d.buf = buf /\ d.rcv_wnd = wnd
      /\ \A f \in CbFields \ {"buf", "rcv_wnd"} : d[f] = c[f]
  BY DEF Read, CbTyped, CbShape, CbFields
<1>2. buf \in Seq(Bytes)
  BY DEF CbTyped
<1>3. wnd \in Wnds
  <2>1. c.rcv_wnd + len \in Int
    BY WinSizeAssumption DEF CbTyped, Wnds
  <2>2. QED
    BY <2>1, Uint16Type
<1> HIDE DEF d, buf, wnd
<1>4. CbTyped(d, Bytes)
  BY <1>1, <1>2, <1>3 DEF CbTyped, CbFields
<1>5. QED
  BY <1>4 DEF d

\* What recv takes: as much as the buffer passed to it holds.
LEMMA RecvLen ==
    ASSUME PairTyped, NEW e \in Ends
    PROVE  LET total == WinSize - cb[e].rcv_wnd
               len == Min({total, RecvSize})
           IN  total \in Nat /\ len \in Nat /\ len <= total /\ len <= RecvSize
<1> DEFINE total == WinSize - cb[e].rcv_wnd
           S == {total, RecvSize}
<1>1. total \in Nat /\ S \subseteq Nat /\ S # {}
  BY PairAssumption, WinSizeAssumption DEF PairTyped, CbTyped, Wnds
<1> HIDE DEF S, total
<1>2. Min(S) \in S /\ \A y \in S : Min(S) <= y
  BY <1>1, MinIn
<1>3. QED
  BY <1>1, <1>2 DEF S, total

LEMMA RecvTyped ==
    ASSUME PairTyped, NEW e \in Ends, RecvLoop(e)
    PROVE  PairTyped'
<1> DEFINE c == cb[e]
           len == Min({WinSize - c.rcv_wnd, RecvSize})
<1>1. len \in Nat
  BY RecvLen
<1>2. CbTyped(Read(c, len), Bytes)
  BY <1>1, ReadTyped DEF PairTyped
<1>3. /\ cb' \in {cb, [cb EXCEPT ![e] = Read(c, len)]}
      /\ \E v \in {"idle", "wait"} : recver' = [recver EXCEPT ![e] = v]
      /\ UNCHANGED <<net, mutex, sender, todo, pushed>>
  BY DEF RecvLoop, PairTyped
<1> HIDE DEF len
<1>4. cb' = [x \in Ends |-> cb'[x]] /\ \A x \in Ends : CbTyped(cb'[x], Bytes)
  BY <1>2, <1>3 DEF PairTyped
<1>5. recver' \in [Ends -> {"idle", "wait", "woken"}]
  BY <1>3 DEF PairTyped
<1>6. QED
  BY <1>3, <1>4, <1>5 DEF PairTyped

LEMMA RxTyped ==
    ASSUME PairTyped, NEW e \in Ends, NEW seg \in net[e], NEW keep, NEW ok,
           Rx(e, seg, keep, ok)
    PROVE  PairTyped'
<1> DEFINE r == tcp_event_segment_arrives(cb[e], seg, Iss[e], ok)
           n == IF keep THEN net ELSE [net EXCEPT ![e] = @ \ {seg}]
<1>1. ResTyped(r, Bytes)
  BY ArrivesTyped, IssType DEF PairTyped
<1>2. n \in [Ends -> SUBSET SegOf(Bytes)]
  BY DEF PairTyped
<1>3. /\ UNCHANGED <<mutex, todo>>
      /\ \/ /\ net' = Sent(n, e, Stray(e, seg, ok))
            /\ UNCHANGED <<cb, sender, recver, pushed>>
         \/ /\ Apply(e, r) /\ net' = Sent(n, e, r.out)
            /\ pushed' = (pushed \/ r.push)
  BY DEF Rx
<1> HIDE DEF r, n
<1>4. CASE /\ net' = Sent(n, e, Stray(e, seg, ok))
           /\ UNCHANGED <<cb, sender, recver, pushed>>
  <2>1. Stray(e, seg, ok) \in SUBSET SegOf(Bytes)
    BY StrayTyped DEF PairTyped
  <2>2. net' \in [Ends -> SUBSET SegOf(Bytes)]
    BY <1>2, <1>4, <2>1, SentTyped
  <2>3. QED
    BY <1>3, <1>4, <2>2 DEF PairTyped
<1>5. CASE Apply(e, r) /\ net' = Sent(n, e, r.out) /\ pushed' = (pushed \/ r.push)
  <2>1. net' \in [Ends -> SUBSET SegOf(Bytes)]
    BY <1>1, <1>2, <1>5, SentTyped DEF ResTyped
  <2>2. pushed' \in BOOLEAN
    BY <1>5
  <2>3. QED
    BY <1>1, <1>3, <1>5, <2>1, <2>2, ApplyTyped DEF PairTyped
<1>6. QED
  BY <1>3, <1>4, <1>5

LEMMA TimerPairTyped ==
    ASSUME PairTyped, NEW e \in Ends, TimerPass(e)
    PROVE  PairTyped'
<1> DEFINE r == tcp_timer_cb(cb[e])
<1>1. ResTyped(r, Bytes)
  BY TimerTyped DEF PairTyped
<1>2. Apply(e, r) /\ net' = Sent(net, e, r.out) /\ UNCHANGED <<mutex, todo, pushed>>
  BY DEF TimerPass
<1> HIDE DEF r
<1>3. net' \in [Ends -> SUBSET SegOf(Bytes)]
  BY <1>1, <1>2, SentTyped DEF ResTyped, PairTyped
<1>4. QED
  BY <1>1, <1>2, <1>3, ApplyTyped DEF PairTyped

LEMMA ClosePairTyped ==
    ASSUME PairTyped, NEW e \in Ends, NEW ok, Close(e, ok)
    PROVE  PairTyped'
<1> DEFINE r == tcp_close(cb[e], ok)
<1>1. ResTyped(r, Bytes)
  BY CloseTyped DEF PairTyped
<1>2. Apply(e, r) /\ net' = Sent(net, e, r.out) /\ UNCHANGED <<mutex, todo, pushed>>
  BY DEF Close
<1> HIDE DEF r
<1>3. net' \in [Ends -> SUBSET SegOf(Bytes)]
  BY <1>1, <1>2, SentTyped DEF ResTyped, PairTyped
<1>4. QED
  BY <1>1, <1>2, <1>3, ApplyTyped DEF PairTyped

LEMMA NextTyped == PairTyped /\ [Next]_vars => PairTyped'
<1> SUFFICES ASSUME PairTyped, [Next]_vars PROVE PairTyped'
  OBVIOUS
<1>1. ASSUME NEW e \in Ends,
             SendCall(e) \/ SendWake(e) \/ SendRefused(e) \/ SendWait(e)
      PROVE  PairTyped'
  BY <1>1 DEF SendCall, SendWake, SendRefused, SendWait, SendReturn, PairTyped
<1>2. ASSUME NEW e \in Ends, RecvCall(e) \/ RecvWake(e) PROVE PairTyped'
  BY <1>2, RecvTyped DEF RecvCall, RecvWake
<1>3. ASSUME NEW e \in Ends, NEW ok, SendSegment(e, ok) \/ Close(e, ok)
      PROVE  PairTyped'
  BY <1>3, SendSegmentTyped, ClosePairTyped
<1>4. ASSUME NEW e \in Ends, Deliver(e) PROVE PairTyped'
  BY <1>4, RxTyped DEF Deliver, Deliverable
<1>5. ASSUME NEW e \in Ends, TimerPass(e) PROVE PairTyped'
  BY <1>5, TimerPairTyped
<1>6. ASSUME NEW e \in Ends, Lose(e) PROVE PairTyped'
  BY <1>6 DEF Lose, PairTyped
<1>7. ASSUME Accept PROVE PairTyped'
  <2> DEFINE d == [cb["B"] EXCEPT !.used = TRUE]
  <2>1. CbTyped(cb["B"], Bytes)
    BY DEF PairTyped, Ends
  <2>2. CbShape(d) /\ \A f \in CbFields \ {"used"} : d[f] = cb["B"][f]
    BY <2>1 DEF CbTyped, CbShape, CbFields
  <2>3. cb' = [cb EXCEPT !["B"] = d] /\ pushed' = FALSE
          /\ UNCHANGED <<net, mutex, sender, todo, recver>>
    BY <1>7 DEF Accept
  <2> HIDE DEF d
  <2>4. CbTyped(d, Bytes)
    BY <2>1, <2>2, SameTyped
  <2>5. QED
    BY <2>3, <2>4 DEF PairTyped
<1>8. ASSUME Tick PROVE PairTyped'
  BY <1>8, TickTyped DEF Tick, PairTyped
<1>9. ASSUME UNCHANGED vars PROVE PairTyped'
  BY <1>9 DEF vars, PairTyped
<1>10. QED
  BY <1>1, <1>2, <1>3, <1>4, <1>5, <1>6, <1>7, <1>8, <1>9 DEF Next

LEMMA PairTypedHolds == Spec => []PairTyped
  BY InitTyped, NextTyped, PTL DEF Spec

\* Control blocks, segments in flight, threads and mutexes stay well formed,
\* however much is lost, repeated and sent again: in particular the uint16_t
\* windows and the count of bytes in flight never leave their range.
THEOREM PairTypeCorrect == Spec => []TypeOK
  BY PairTypedHolds, PairTypedImplies, PTL

-----------------------------------------------------------------------------
(***************************************************************************)
(* Up to a FIN snd.nxt counts the bytes passed to send, so that it does    *)
(* not wrap.                                                               *)
(***************************************************************************)
Passed(e) == Len(Stream[e]) - Len(todo[e])
NextOf(e, c) == ~Finned(c.state) => c.snd_nxt <= Iss[e] + 1 + Passed(e)
NextInv ==
    \A e \in Ends : Len(todo[e]) <= Len(Stream[e]) /\ NextOf(e, cb[e])

LEMMA PassedType ==
    ASSUME PairTyped, NextInv, NEW e \in Ends
    PROVE  /\ Passed(e) \in Nat /\ Iss[e] \in Nat /\ Len(todo[e]) \in Nat
           /\ Iss[e] + 1 + Passed(e) + 1 < SeqSpace
           /\ cb[e].snd_nxt \in Nat /\ cb[e].snd_una \in Nat
<1>1. Len(todo[e]) \in Nat
  BY DEF PairTyped
<1>2. cb[e].snd_nxt \in Nat /\ cb[e].snd_una \in Nat
  BY SeqSpaceAssumption DEF PairTyped, CbTyped, SeqNos
<1>3. Len(todo[e]) <= Len(Stream[e])
  BY DEF NextInv
<1> DEFINE n == Len(Stream[e])
           m == Len(todo[e])
<1>4. /\ Iss[e] \in Nat /\ n \in Nat /\ Iss[e] + n + 2 < SeqSpace
      /\ m \in Nat /\ m <= n
  BY <1>1, <1>3, IssType
<1>5. Passed(e) = n - m
  BY DEF Passed
<1> HIDE DEF n, m
<1>6. Passed(e) \in Nat /\ Passed(e) <= n
  BY <1>4, <1>5
<1>7. Iss[e] + 1 + Passed(e) + 1 < SeqSpace
  BY <1>4, <1>6, SeqSpaceAssumption
<1>8. QED
  BY <1>1, <1>2, <1>4, <1>6, <1>7

\* Steps that leave what is to be sent alone, at one end.
LEMMA NextAt ==
    ASSUME PairTyped, NextInv, todo' = todo, NEW e \in Ends, NEW d,
           cb' = [cb EXCEPT ![e] = d], NextOf(e, d)
    PROVE  NextInv'
<1>1. \A x \in Ends : cb'[x] = IF x = e THEN d ELSE cb[x]
  BY DEF PairTyped
<1>2. QED
  BY <1>1 DEF NextInv, NextOf, Passed

LEMMA NextNext == PairTyped /\ NextInv /\ [Next]_vars => NextInv'
<1> SUFFICES ASSUME PairTyped, NextInv, [Next]_vars PROVE NextInv'
  OBVIOUS
<1>1. ASSUME NEW e \in Ends, NEW ok, SendSegment(e, ok) PROVE NextInv'
  <2> DEFINE c == cb[e]
             size == Min({Mss, Len(todo[e]), SndRoom(c)})
             data == SubSeq(todo[e], 1, size)
             rest == SubSeq(todo[e], size + 1, Len(todo[e]))
             r == tcp_tx(Result(c), c.snd_nxt, c.rcv_nxt, {"PSH", "ACK"}, data, ok)
             d == [r.cb EXCEPT !.snd_nxt = SeqAdd(@, size), !.left = UserTimeout + 1]
  <2>1. /\ size \in Wnds /\ rest \in Seq(Bytes) /\ Len(rest) = Len(todo[e]) - size
        /\ size <= Len(todo[e])
    BY SendSize
  <2>2. /\ c.state \in {"ESTABLISHED", "CLOSE_WAIT"}
        /\ \/ cb' = [cb EXCEPT ![e] = r.cb] /\ todo' = todo
           \/ cb' = [cb EXCEPT ![e] = d] /\ todo' = [todo EXCEPT ![e] = rest]
    BY <1>1 DEF SendSegment
  <2>3. Alike(c, r.cb)
    BY ResultIs, TxAlike DEF PairTyped, CbTyped
  <2> HIDE DEF r, size, rest
  <2>4. /\ r.cb.snd_nxt = c.snd_nxt /\ r.cb.state = c.state
        /\ d.snd_nxt = SeqAdd(c.snd_nxt, size) /\ d.state = c.state
    BY <2>3 DEF Alike, CbShape, CbFields
  <2> HIDE DEF d
  <2>5. /\ Passed(e) \in Nat /\ Iss[e] \in Nat /\ c.snd_nxt \in Nat
        /\ size \in Nat /\ Len(todo[e]) \in Nat /\ Len(rest) \in Nat
        /\ SeqSpace \in Nat
    BY <2>1, PassedType, WinSizeAssumption, SeqSpaceAssumption DEF Wnds
  <2>6. SeqAdd(c.snd_nxt, size) <= c.snd_nxt + size
    BY <2>5 DEF SeqAdd
  <2>7. c.snd_nxt <= Iss[e] + 1 + Passed(e)
    BY <2>2 DEF NextInv, NextOf, Finned
  <2>8. CASE cb' = [cb EXCEPT ![e] = r.cb] /\ todo' = todo
    BY <2>4, <2>7, <2>8, NextAt DEF NextOf
  <2>9. CASE cb' = [cb EXCEPT ![e] = d] /\ todo' = [todo EXCEPT ![e] = rest]
    <3>1. /\ cb'[e] = d /\ todo'[e] = rest
          /\ \A x \in Ends \ {e} : cb'[x] = cb[x] /\ todo'[x] = todo[x]
      BY <2>9 DEF PairTyped
    <3>2. Len(rest) <= Len(Stream[e])
      BY <2>1, <2>5, IssType DEF NextInv
    <3>3. d.snd_nxt <= Iss[e] + 1 + (Len(Stream[e]) - Len(rest))
      <4>1. d.snd_nxt \in Int
        BY <2>4, <2>5 DEF SeqAdd
      <4> DEFINE n == Len(Stream[e])
                 m == Len(todo[e])
                 k == Len(rest)
      <4>2. /\ n \in Nat /\ m \in Nat /\ k = m - size /\ Passed(e) = n - m
        BY <2>1, <2>5, IssType DEF Passed
      <4>3. d.snd_nxt <= c.snd_nxt + size
        BY <2>4, <2>6
      <4> HIDE DEF n, m, k, c
      <4>4. d.snd_nxt <= Iss[e] + 1 + (n - k)
        BY <2>5, <2>7, <4>1, <4>2, <4>3
      <4>5. QED
        BY <4>4 DEF n, k
    <3>4. QED
      BY <3>1, <3>2, <3>3 DEF NextInv, NextOf, Passed
  <2>10. QED
    BY <2>2, <2>8, <2>9
<1>2. ASSUME NEW e \in Ends, NEW seg, NEW keep, NEW ok, Rx(e, seg, keep, ok)
      PROVE  NextInv'
  <2> DEFINE r == tcp_event_segment_arrives(cb[e], seg, Iss[e], ok)
  <2>1. CASE UNCHANGED <<cb, todo>>
    BY <2>1 DEF NextInv, NextOf, Passed
  <2>2. CASE Apply(e, r) /\ todo' = todo
    <3>1. CbShape(cb[e])
      BY DEF PairTyped, CbTyped
    <3>2. /\ cb[e].state = "LISTEN" => r.cb.snd_nxt \in {SeqAdd(Iss[e], 1), 0}
          /\ cb[e].state # "LISTEN" => NextKept(cb[e], r.cb)
      <4>1. cb[e].state = "LISTEN" => r = ArrivesListen(cb[e], seg, Iss[e], ok)
        BY DEF tcp_event_segment_arrives
      <4>2. ArrivesListen(cb[e], seg, Iss[e], ok).cb.snd_nxt
              \in {SeqAdd(Iss[e], 1), 0}
        BY <3>1, ListenHandled
      <4>3. Handled(cb[e], r)
        BY <3>1, ArrivesHandled
      <4> HIDE DEF r
      <4>4. QED
        BY <4>1, <4>2, <4>3 DEF Handled
    <3>3. cb' = [cb EXCEPT ![e] = r.cb]
      BY <2>2 DEF Apply
    <3> HIDE DEF r
    <3>4. SeqAdd(Iss[e], 1) = Iss[e] + 1
      BY IssType, SeqSpaceAssumption DEF SeqAdd
    <3>5. NextOf(e, r.cb)
      BY <3>2, <3>4, PassedType DEF NextOf, NextKept, NextInv
    <3>6. QED
      BY <2>2, <3>3, <3>5, NextAt
  <2>3. QED
    BY <1>2, <2>1, <2>2 DEF Rx
<1>3. ASSUME NEW e \in Ends, NEW ok, Close(e, ok) PROVE NextInv'
  <2> DEFINE d == tcp_close(cb[e], ok).cb
  <2>1. CbShape(cb[e])
    BY DEF PairTyped, CbTyped
  <2>2. Finned(d.state) \/ d.snd_nxt = 0
          \/ (d.state = cb[e].state /\ d.snd_nxt = cb[e].snd_nxt)
    BY <2>1, CloseNumbers DEF Finned
  <2>3. cb' = [cb EXCEPT ![e] = d] /\ todo' = todo
    BY <1>3 DEF Close, Apply
  <2> HIDE DEF d
  <2>4. NextOf(e, d)
    BY <2>2, PassedType DEF NextOf, NextInv
  <2>5. QED
    BY <2>3, <2>4, NextAt
<1>4. ASSUME NEW e \in Ends, TimerPass(e) PROVE NextInv'
  <2> DEFINE d == tcp_timer_cb(cb[e]).cb
  <2>1. CbShape(cb[e])
    BY DEF PairTyped, CbTyped
  <2>2. d.snd_nxt = 0 \/ (d.state = cb[e].state /\ d.snd_nxt = cb[e].snd_nxt)
    BY <2>1, TimerHandled DEF Alike, CbFields
  <2>3. cb' = [cb EXCEPT ![e] = d] /\ todo' = todo
    BY <1>4 DEF TimerPass, Apply
  <2> HIDE DEF d
  <2>4. NextOf(e, d)
    BY <2>2, PassedType DEF NextOf, NextInv
  <2>5. QED
    BY <2>3, <2>4, NextAt
<1>5. ASSUME NEW e \in Ends, RecvLoop(e) PROVE NextInv'
  <2> DEFINE len == Min({WinSize - cb[e].rcv_wnd, RecvSize})
             d == Read(cb[e], len)
  <2>1. CbShape(cb[e])
    BY DEF PairTyped, CbTyped
  <2>2. d.state = cb[e].state /\ d.snd_nxt = cb[e].snd_nxt
    BY <2>1 DEF Read, CbShape, CbFields
  <2>3. todo' = todo /\ (cb' = cb \/ cb' = [cb EXCEPT ![e] = d])
    BY <1>5 DEF RecvLoop
  <2> HIDE DEF d
  <2>4. NextOf(e, d)
    BY <2>2 DEF NextOf, NextInv
  <2>5. QED
    BY <2>3, <2>4, NextAt DEF NextInv, NextOf, Passed
<1>6. ASSUME Accept \/ Tick PROVE NextInv'
  <2>1. ASSUME NEW e \in Ends
        PROVE  cb'[e].state = cb[e].state /\ cb'[e].snd_nxt = cb[e].snd_nxt
    <3>1. CbShape(cb[e]) /\ cb = [x \in Ends |-> cb[x]]
      BY DEF PairTyped, CbTyped
    <3>2. CASE Accept
      <4>1. cb'[e] \in {cb[e], [cb[e] EXCEPT !.used = TRUE]}
        BY <3>1, <3>2 DEF Accept
      <4>2. QED
        BY <3>1, <4>1 DEF CbShape, CbFields
    <3>3. CASE Tick
      <4>1. cb'[e] = TickCb(cb[e])
        BY <3>3 DEF Tick
      <4>2. QED
        BY <3>1, <4>1, TickHandled DEF CbFields
    <3>4. QED
      BY <1>6, <3>2, <3>3
  <2>2. todo' = todo
    BY <1>6 DEF Accept, Tick
  <2>3. QED
    BY <2>1, <2>2 DEF NextInv, NextOf, Passed
<1>7. ASSUME UNCHANGED <<cb, todo>> PROVE NextInv'
  BY <1>7 DEF NextInv, NextOf, Passed
<1>8. QED
  BY <1>1, <1>2, <1>3, <1>4, <1>5, <1>6, <1>7
     DEF Next, vars, Deliver, Lose, RecvCall, RecvWake, SendCall, SendWake,
         SendRefused, SendWait

LEMMA InitNext == PairTyped /\ Init => NextInv
<1> SUFFICES ASSUME PairTyped, Init PROVE NextInv
  OBVIOUS
<1> DEFINE c == [ZeroCb("B") EXCEPT !.used = TRUE]
           syn == ConnectCb(c, 1, "B", Iss["A"], TRUE)
<1>1. cb["A"] = syn.cb /\ cb["B"] = Taken /\ todo = Stream
  BY DEF Init, Ends
<1>2. syn.cb.snd_nxt \in {SeqAdd(Iss["A"], 1), 0}
  <2> DEFINE c0 == [c EXCEPT !.port = 1, !.peer = "B", !.rcv_wnd = WinSize,
                             !.iss = Iss["A"]]
             tx == tcp_tx(Result(c0), Iss["A"], 0, {"SYN"}, <<>>, TRUE)
             d == [tx.cb EXCEPT !.snd_nxt = SeqAdd(Iss["A"], 1),
                                !.snd_una = Iss["A"], !.left = UserTimeout + 1,
                                !.state = "SYN_SENT"]
  <2>1. CbShape(c0) /\ c0.snd_nxt = 0
    BY DEF ZeroCb, CbShape, CbFields
  <2> HIDE DEF c0
  <2>2. Alike(c0, tx.cb)
    BY <2>1, ResultIs, TxAlike
  <2>3. syn.cb \in {tx.cb, d}
    BY DEF ConnectCb, With, c0
  <2> HIDE DEF tx
  <2>4. tx.cb.snd_nxt = 0 /\ d.snd_nxt = SeqAdd(Iss["A"], 1)
    BY <2>1, <2>2 DEF Alike, CbShape, CbFields
  <2>5. QED
    BY <2>3, <2>4
<1> HIDE DEF syn
<1>3. Taken.snd_nxt = 0
  BY DEF Taken, ZeroCb
<1>4. SeqAdd(Iss["A"], 1) = Iss["A"] + 1
  BY IssType, SeqSpaceAssumption DEF SeqAdd, Ends
<1>5. ASSUME NEW e \in Ends PROVE Len(todo[e]) <= Len(Stream[e]) /\ NextOf(e, cb[e])
  BY <1>1, <1>2, <1>3, <1>4, IssType DEF NextOf, Passed, Ends
<1>6. QED
  BY <1>5 DEF NextInv

-----------------------------------------------------------------------------
(***************************************************************************)
(* The two wake-up properties.                                             *)
(***************************************************************************)
LEMMA InitWake == PairTyped /\ Init => WakeInv
  BY DEF Init, PairTyped, CbTyped, WakeInv, ShapeInv

LEMMA NextWake == PairTyped /\ NextInv /\ WakeInv /\ [Next]_vars => WakeInv'
<1> SUFFICES ASSUME PairTyped, NextInv, WakeInv, [Next]_vars PROVE WakeInv'
  OBVIOUS
<1>0. ASSUME NEW e \in Ends
      PROVE  /\ cb[e].snd_una \in Nat /\ cb[e].snd_nxt \in Nat
             /\ cb[e].state \in {"ESTABLISHED", "CLOSE_WAIT"} =>
                    cb[e].snd_nxt + 1 < SeqSpace
  <2>1. cb[e].state \in {"ESTABLISHED", "CLOSE_WAIT"} =>
          cb[e].snd_nxt <= Iss[e] + 1 + Passed(e)
    BY DEF NextInv, NextOf, Finned
  <2>2. QED
    BY <2>1, PassedType, SeqSpaceAssumption
<1>1. ASSUME NEW e \in Ends,
             SendCall(e) \/ SendWake(e) \/ SendRefused(e) \/ SendWait(e)
      PROVE  WakeInv'
  BY <1>0, <1>1, SendWakeInv
<1>2. ASSUME NEW e \in Ends, RecvCall(e) \/ RecvWake(e) PROVE WakeInv'
  <2>1. RecvLoop(e)
    BY <1>2 DEF RecvCall, RecvWake
  <2>2. cb[e].rcv_wnd \in Int
    BY WinSizeAssumption DEF PairTyped, CbTyped, Wnds
  <2>3. QED
    BY <2>1, <2>2, RecvWakeInv
<1>3. ASSUME NEW e \in Ends, NEW ok, SendSegment(e, ok) \/ Close(e, ok)
      PROVE  WakeInv'
  BY <1>0, <1>3, SendSegmentWake, CloseWake
<1>4. ASSUME NEW e \in Ends, Deliver(e) PROVE WakeInv'
  BY <1>4, RxWake DEF Deliver
<1>5. ASSUME NEW e \in Ends, TimerPass(e) PROVE WakeInv'
  BY <1>5, TimerWake
<1>6. ASSUME UNCHANGED <<cb, sender, recver>> PROVE WakeInv'
  BY <1>6 DEF WakeInv, ShapeInv, RecvAsleep, SendAsleep, SndRoom
<1>7. ASSUME Accept \/ Tick PROVE WakeInv'
  <2>1. ASSUME NEW e \in Ends
        PROVE  /\ CbShape(cb'[e])
               /\ \A f \in CbFields \ {"left", "txq", "used"} : cb'[e][f] = cb[e][f]
    <3>1. CASE Accept
      <4>1. cb'[e] \in {cb[e], [cb[e] EXCEPT !.used = TRUE]}
        BY <3>1 DEF Accept, WakeInv, ShapeInv
      <4>2. CbShape(cb[e])
        BY DEF WakeInv, ShapeInv
      <4>3. QED
        BY <4>1, <4>2 DEF CbShape, CbFields
    <3>2. CASE Tick
      <4>1. cb'[e] = TickCb(cb[e])
        BY <3>2 DEF Tick
      <4>2. CbShape(cb[e])
        BY DEF WakeInv, ShapeInv
      <4>3. QED
        BY <4>1, <4>2, TickHandled
    <3>3. QED
      BY <1>7, <3>1, <3>2
  <2>2. cb' = [e \in Ends |-> cb'[e]] /\ sender' = sender /\ recver' = recver
    BY <1>7 DEF Accept, Tick, WakeInv, ShapeInv
  <2>3. ASSUME NEW e \in Ends
        PROVE  /\ RecvAsleep(cb[e]) => RecvAsleep(cb'[e])
               /\ SendAsleep(cb[e]) => SendAsleep(cb'[e])
    BY <2>1 DEF RecvAsleep, SendAsleep, SndRoom, CbFields
  <2>4. QED
    BY <2>1, <2>2, <2>3 DEF WakeInv, ShapeInv, RecvAsleep, SendAsleep, SndRoom
<1>8. QED
  BY <1>1, <1>2, <1>3, <1>4, <1>5, <1>6, <1>7 DEF Next, Lose, vars

LEMMA WakeInvHolds == Spec => []WakeInv
<1>1. Spec => [](PairTyped /\ NextInv /\ WakeInv)
  BY InitTyped, InitNext, InitWake, NextTyped, NextNext, NextWake, PTL DEF Spec
<1>2. QED
  BY <1>1, PTL

\* A thread asleep in tcp_api_recv has nothing to read and may still get more,
\* whatever the network and the timer thread do at any moment: every change of
\* the window or the state that recv waits for is announced.
THEOREM RecvWakeups == Spec => []RecvNoLostWakeup
<1>1. WakeInv => RecvNoLostWakeup
  BY DEF WakeInv, RecvNoLostWakeup, RecvAsleep
<1>2. QED
  BY <1>1, WakeInvHolds, PTL

\* While a thread is asleep in tcp_api_send something sent is unacknowledged, so
\* that an ACK, a reset or else the user timeout will wake it, and the send buffer
\* is full as long as the state allows sending.  The ends may close at any time,
\* also under the sleeper: tcp_close announces nothing, and need not.
THEOREM SendWakeups == Spec => []SendNoLostWakeup
<1>1. WakeInv => SendNoLostWakeup
  BY DEF WakeInv, SendNoLostWakeup, SendAsleep
<1>2. QED
  BY <1>1, WakeInvHolds, PTL
=============================================================================
