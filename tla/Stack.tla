-------------------------------- MODULE Stack --------------------------------
(***************************************************************************)
(* The layers together: the Ethernet device and its receive thread         *)
(* (ethernet.c, net.c), ARP (Arp), and TCP as the holder of a mutex that   *)
(* passes packets to ip_tx.                                                *)
(*                                                                         *)
(* A thread inside TCP keeps the TCP mutex while ip_tx resolves the        *)
(* address, which may take a second; the receive thread, the only one that *)
(* can bring the ARP reply, takes the TCP mutex for every TCP segment and  *)
(* may itself answer one through ip_tx.  What TCP computes is in TcpCb.    *)
(***************************************************************************)
EXTENDS Arp

CONSTANTS
    TcpThreads,   \* threads that call TCP: applications and the timer thread
    SendThreads,  \* those of them that call tcp_api_send
    RxThread,     \* ethernet_rx_thread
    NoThread,     \* the TCP mutex is free
    MaxPackets    \* packets passed to ip_tx under the TCP mutex

ASSUME StackAssumption ==
    /\ SendThreads \subseteq TcpThreads /\ RxThread \notin TcpThreads
    /\ Callers = TcpThreads \cup {RxThread}
    /\ NoThread \notin Callers /\ {"leaked", "dead"} \cap Callers = {}
    /\ NoThread \notin {"leaked", "dead"}
    /\ MaxPackets \in Nat \ {0}

\* A frame as the receive path looks at it: destination address and ethertype.
\* An ARP frame carries a message.
Frames ==
    {[dst |-> d, type |-> "ARP", msg |-> m] : d \in {"self", "broadcast", "other"},
                                              m \in Messages}
      \cup {[dst |-> d, type |-> ty] : d \in {"self", "broadcast", "other"},
                                       ty \in {"IP", "IPV6"}}

VARIABLES
    dev,     \* dev->priv: allocated or not, terminate, thread is the rx thread
    ctl,     \* the thread that runs the device: "idle", "stop", "close" (joins),
             \* or "dead": the process has ended
    rxpc,    \* where the receive thread is
    tcp,     \* the owner of the TCP mutex, "leaked" or "dead"
    todo     \* packets each thread inside TCP has still to pass to ip_tx

stackVars == <<dev, ctl, rxpc, tcp, todo>>
vars == <<arpVars, stackVars>>

Closed == [open |-> FALSE, terminate |-> FALSE, thread |-> FALSE]

Init ==
    /\ ArpInit
    /\ dev = Closed /\ ctl = "idle" /\ rxpc = "none"
    /\ tcp = NoThread
    /\ todo = [t \in Callers |-> 0]

Inside(t) == tcp = t

-----------------------------------------------------------------------------
(***************************************************************************)
(* The device: ethernet_open, ethernet_run, ethernet_stop, ethernet_close. *)
(***************************************************************************)
Open ==
    /\ ctl = "idle" /\ ~dev.open
    /\ dev' = [Closed EXCEPT !.open = TRUE]
    /\ UNCHANGED <<arpVars, ctl, rxpc, tcp, todo>>

\* Called once for a device: a second receive thread is not modelled.
Run ==
    /\ ctl = "idle" /\ dev.open /\ ~dev.thread
    /\ dev' = [dev EXCEPT !.thread = TRUE]
    /\ rxpc' = "loop"
    /\ UNCHANGED <<arpVars, ctl, tcp, todo>>

MutStop ==
    /\ ctl = "idle" /\ dev.open
    /\ ctl' = "stop"
    /\ UNCHANGED <<arpVars, dev, rxpc, tcp, todo>>

Stop ==
    /\ ctl = "idle" /\ dev.open
    /\ dev' = [dev EXCEPT !.terminate = TRUE]
    /\ ctl' = "stop"
    /\ UNCHANGED <<arpVars, rxpc, tcp, todo>>

MutStopped ==
    /\ ctl = "stop"
    /\ dev' = [dev EXCEPT !.thread = FALSE, !.terminate = FALSE]
    /\ ctl' = "idle"
    /\ UNCHANGED <<arpVars, rxpc, tcp, todo>>

\* pthread_join returned (at once, with an error, when no thread was started).
Stopped ==
    /\ ctl = "stop" /\ rxpc = "none"
    /\ dev' = [dev EXCEPT !.thread = FALSE, !.terminate = FALSE]
    /\ ctl' = "idle"
    /\ UNCHANGED <<arpVars, rxpc, tcp, todo>>

MutClose ==
    /\ ctl = "idle" /\ dev.open
    /\ dev' = Closed
    /\ UNCHANGED <<arpVars, ctl, rxpc, tcp, todo>>

\* priv->thread is the caller's own id unless the receive thread was started.
\* Threads inside TCP, and the timer that calls it for ever, are not waited for.
Close ==
    /\ ctl = "idle" /\ dev.open
    /\ IF dev.thread THEN /\ dev' = [dev EXCEPT !.terminate = TRUE]
                          /\ ctl' = "close"
                     ELSE dev' = Closed /\ UNCHANGED ctl
    /\ UNCHANGED <<arpVars, rxpc, tcp, todo>>

CloseJoined ==
    /\ ctl = "close" /\ rxpc = "none"
    /\ dev' = Closed
    /\ ctl' = "idle"
    /\ UNCHANGED <<arpVars, rxpc, tcp, todo>>

-----------------------------------------------------------------------------
(***************************************************************************)
(* Inside TCP: the mutex is taken, some packets go to ip_tx, each through  *)
(* arp_resolve, and the mutex is released.                                 *)
(***************************************************************************)
Lock(t) ==
    /\ tcp = NoThread
    /\ tcp' = t
    /\ \E n \in 0..MaxPackets : todo' = [todo EXCEPT ![t] = n]

\* An application or the timer enters TCP.
Call(t) ==
    /\ t \in TcpThreads /\ ~Inside(t)
    /\ Lock(t)
    /\ UNCHANGED <<arpVars, dev, ctl, rxpc>>

\* arp_resolve asks for an address, or ip_tx_netdev has one for the packet: both
\* reach for dev->priv, which is NULL once the device was closed, and then the
\* process ends.
ethernet_tx(t) ==
    IF ~dev.open /\ (call'[t].pc = "wait" \/ call'[t].ret \in {"FOUND", "QUERY"})
    THEN ctl' = "dead" /\ rxpc' = "none" /\ tcp' = "dead"
    ELSE UNCHANGED <<ctl, rxpc, tcp>>

\* One packet.  tcp_api_send goes no further after a failure, the timer does.
Transmit(t) ==
    /\ tcp = t /\ todo[t] > 0
    /\ t \in SendThreads => call[t].ret # "ERROR"
    /\ \E pa \in Hosts : Resolve(t, pa)
    /\ ethernet_tx(t)
    /\ todo' = [todo EXCEPT ![t] = @ - 1]
    /\ UNCHANGED dev

Resume(t) ==
    /\ tcp = t
    /\ TimeOut(t) \/ ResolveReturn(t)
    /\ ethernet_tx(t)
    /\ UNCHANGED <<dev, todo>>

\* The call returns, after its last packet or after ip_tx failed.  A failure
\* makes tcp_api_send return with the mutex locked.
Leave(t) ==
    /\ tcp = t /\ call[t].pc = "done"
    /\ todo[t] = 0 \/ call[t].ret = "ERROR"
    /\ todo' = [todo EXCEPT ![t] = 0]
    /\ tcp' = IF t \in SendThreads /\ call[t].ret = "ERROR" THEN "leaked" ELSE NoThread
    /\ call' = [call EXCEPT ![t] = Returned(NoHost, "NONE", Any)]
    /\ UNCHANGED <<table, since, rx, dev, ctl>>

-----------------------------------------------------------------------------
(***************************************************************************)
(* ethernet_rx_thread.                                                     *)
(***************************************************************************)
RxLoop ==
    /\ rxpc = "loop"
    /\ rxpc' = IF dev.terminate THEN "none" ELSE "poll"
    /\ UNCHANGED <<arpVars, dev, ctl, tcp, todo>>

\* poll timed out, or read failed.
RxTimeout ==
    /\ rxpc = "poll"
    /\ rxpc' = "loop"
    /\ UNCHANGED <<arpVars, dev, ctl, tcp, todo>>

\* ethernet_rx drops frames for other hosts, netdev_rx_handler those of a type
\* nobody registered for.
Accepted(f) == f.dst \in {"self", "broadcast"} /\ f.type \in {"ARP", "IP"}

RxFrame(f) ==
    /\ rxpc = "poll"
    /\ \/ /\ ~Accepted(f)
          /\ rxpc' = "loop"
          /\ UNCHANGED arpVars
       \/ /\ Accepted(f) /\ f.type = "ARP"
          /\ RxUpdate(f.msg)
          /\ rxpc' = IF rx' = NoMsg THEN "loop" ELSE "insert"
       \/ /\ Accepted(f) /\ f.type = "IP"
          /\ rxpc' = "lock"
          /\ UNCHANGED arpVars
    /\ UNCHANGED <<dev, ctl, tcp, todo>>

RxArpInsert ==
    /\ rxpc = "insert"
    /\ RxInsert
    /\ rxpc' = "loop"
    /\ UNCHANGED <<dev, ctl, tcp, todo>>

\* tcp_rx: takes the mutex and may answer.
RxLock ==
    /\ rxpc = "lock"
    /\ Lock(RxThread)
    /\ rxpc' = "tcp"
    /\ UNCHANGED <<arpVars, dev, ctl>>

RxLeave == Leave(RxThread) /\ rxpc' = "loop"

Tick == ArpTick /\ UNCHANGED stackVars

\* A thread inside TCP goes on.
ThreadStep(t) ==
    \/ Transmit(t) \/ Resume(t)
    \/ t \in TcpThreads /\ Leave(t) /\ UNCHANGED rxpc

Next ==
    \/ Open \/ Run \/ Stop \/ Stopped \/ Close \/ CloseJoined
    \/ \E t \in TcpThreads : Call(t)
    \/ \E t \in Callers : ThreadStep(t)
    \/ RxLoop \/ RxTimeout \/ RxArpInsert \/ RxLock \/ RxLeave
    \/ \E f \in Frames : RxFrame(f)
    \/ Tick

Spec == Init /\ [][Next]_vars

(***************************************************************************)
(* Fairness: the clock runs and threads go on; poll returns after at most  *)
(* a second; a join sees that the thread ended.  A thread that waits for   *)
(* the TCP mutex gets it if it is free again and again.                    *)
(***************************************************************************)
Fairness ==
    /\ WF_vars(Tick)
    /\ \A t \in Callers : WF_vars(ThreadStep(t))
    /\ WF_vars(RxLoop) /\ WF_vars(RxTimeout) /\ WF_vars(RxArpInsert)
    /\ WF_vars(RxLeave) /\ SF_vars(RxLock)
    /\ WF_vars(Stopped) /\ WF_vars(CloseJoined)

FairSpec == Spec /\ Fairness

-----------------------------------------------------------------------------
\* The device, the receive thread and the mutex are well formed. There is one
\* receive thread at a time: arp_rx is between its two critical sections
\* exactly when that thread is, and it owns the TCP mutex exactly while it is
\* in tcp_rx, whenever the device was stopped and run again.
TypeOK ==
    /\ ArpTypeOK
    /\ dev \in [open : BOOLEAN, terminate : BOOLEAN, thread : BOOLEAN]
    /\ ctl \in {"idle", "stop", "close", "dead"}
    /\ rxpc \in {"none", "loop", "poll", "insert", "lock", "tcp"}
    /\ tcp \in Callers \cup {NoThread, "leaked", "dead"}
    /\ todo \in [Callers -> 0..MaxPackets]
    /\ ctl = "dead" \/ (rx # NoMsg <=> rxpc = "insert")
    /\ tcp = RxThread <=> rxpc = "tcp"

\* The receive thread never uses a device that was freed: wherever it is, in
\* its loop, in ARP, before or inside TCP, asleep for an ARP reply, dev->priv
\* exists. Of other threads nothing is said: ethernet_close does not wait for
\* them.
NoUseAfterClose ==
    rxpc # "none" \/ tcp = RxThread \/ (InWait(RxThread) /\ ctl # "dead") => dev.open

\* A TCP call that passes packets to ip_tx returns although it waits for ARP
\* replies that the receive thread may be unable to bring (or the process ends).
CallReturns == \A t \in TcpThreads : Inside(t) ~> ~Inside(t)

\* The receive thread comes back to its loop from every frame, although it
\* waits for the TCP mutex and may wait for an ARP reply that only it reads.
\* After "tcp_api_send: partial success" (test/tcp_listen_test.c:98) the stack
\* is still in use, so this is asked for with threads in tcp_api_send too.
FramesHandled == rxpc # "none" ~> rxpc \in {"none", "loop"}

\* Stopping and closing the device return, whatever the receive thread does
\* (or the process ends).
StopReturns == ctl \in {"stop", "close"} ~> ctl \notin {"stop", "close"}
=============================================================================
