----------------------------- MODULE StackProofs -----------------------------
(***************************************************************************)
(* The receive thread never uses a freed device, for every number of       *)
(* threads, table size and timeout, whoever else is inside TCP when the    *)
(* device is closed.                                                       *)
(*                                                                         *)
(* The invariant relates what ethernet_close looks at, the thread id, to   *)
(* what it must know, whether the receive thread runs: while it does, the  *)
(* device is open and dev.thread is set, so that Close joins it.  That a   *)
(* thread waits for an ARP reply only while it owns the TCP mutex places   *)
(* a receive thread asleep in arp_resolve inside tcp_rx.  Arp's inductive  *)
(* invariant holds here too, since Stack only takes Arp's steps and resets *)
(* what a call returned.                                                   *)
(***************************************************************************)
EXTENDS Stack, ArpProofs

WaitInv == \A t \in Callers : InWait(t) => tcp \in {t, "dead"}

DevInv ==
    /\ dev \in [open : BOOLEAN, terminate : BOOLEAN, thread : BOOLEAN]
    /\ rxpc # "none" => dev.open /\ dev.thread
    /\ ctl \in {"stop", "close"} => dev.open
    /\ tcp = RxThread <=> rxpc = "tcp"
    /\ tcp = "dead" => ctl = "dead"

-----------------------------------------------------------------------------
\* Leaving TCP resets what arp_resolve returned, and nothing else of Arp.
LEMMA LeaveArp ==
    ASSUME IndInv, NEW t \in Callers, Leave(t)
    PROVE  IndInv'
<1>1. table' = table /\ since' = since /\ rx' = rx
      /\ call' = [call EXCEPT ![t] = Returned(NoHost, "NONE", Any)]
  BY DEF Leave
<1>2. CallsOK(call', table)
  BY <1>1, AnyIn, ReturnedOK, CallReplaceOK DEF IndInv
<1>3. QED
  BY <1>1, <1>2 DEF IndInv

\* Every step is a step of Arp, leaves Arp alone, or leaves TCP.
LEMMA StepsOfArp ==
    ASSUME [Next]_vars
    PROVE  [ArpNext]_arpVars \/ \E t \in Callers : Leave(t)
<1>1. CASE \/ Open \/ Run \/ Stop \/ Stopped \/ Close \/ CloseJoined
           \/ \E t \in TcpThreads : Call(t)
           \/ RxLoop \/ RxTimeout \/ RxLock \/ UNCHANGED vars
  BY <1>1 DEF Open, Run, Stop, Stopped, Close, CloseJoined, Call, RxLoop,
              RxTimeout, RxLock, vars
<1>2. ASSUME NEW t \in Callers, ThreadStep(t)
      PROVE  [ArpNext]_arpVars \/ \E u \in Callers : Leave(u)
  BY <1>2 DEF ThreadStep, Transmit, Resume, ArpNext
<1>3. CASE RxArpInsert
  BY <1>3 DEF RxArpInsert, ArpNext
<1>4. CASE RxLeave
  BY <1>4, StackAssumption DEF RxLeave
<1>5. ASSUME NEW f \in Frames, RxFrame(f) PROVE [ArpNext]_arpVars
  <2>1. f.type = "ARP" => f.msg \in Messages
    BY DEF Frames
  <2>2. QED
    BY <1>5, <2>1 DEF RxFrame, ArpNext
<1>6. CASE Tick
  BY <1>6 DEF Tick, ArpNext
<1>7. QED
  BY <1>1, <1>2, <1>3, <1>4, <1>5, <1>6 DEF Next

LEMMA ArpInvNext == IndInv /\ [Next]_vars => IndInv'
  BY StepsOfArp, LeaveArp, NextInv

-----------------------------------------------------------------------------
\* arp_rx and the clock put nobody into a wait.
LEMMA BroadcastWait ==
    ASSUME IndInv, NEW es, NEW t \in Callers, call' = Broadcast(call, es)
    PROVE  InWait(t)' => InWait(t)
<1>1. call[t] \in CallType
  BY DEF IndInv, CallsOK
<1>2. QED
  BY <1>1 DEF Broadcast, InWait, CallType

LEMMA RxWait ==
    ASSUME IndInv, NEW t \in Callers, RxInsert \/ \E msg \in Messages : RxUpdate(msg)
    PROVE  InWait(t)' => InWait(t)
<1>1. (\E es : call' = Broadcast(call, es)) \/ call' = call
  BY DEF RxInsert, RxUpdate
<1>2. QED
  BY <1>1, BroadcastWait DEF InWait

LEMMA TickWait ==
    ASSUME IndInv, NEW t \in Callers, ArpTick
    PROVE  InWait(t)' => InWait(t)
<1>1. call[t] \in CallType
  BY DEF IndInv, CallsOK
<1>2. QED
  BY <1>1 DEF ArpTick, InWait, CallType

\* A step of arp_resolve changes only its caller.
LEMMA ResolveWaitOthers ==
    ASSUME IndInv, NEW t \in Callers, NEW u \in Callers, u # t,
           (\E pa \in Hosts : Resolve(t, pa)) \/ TimeOut(t) \/ ResolveReturn(t)
    PROVE  InWait(u)' => InWait(u)
<1>1. call \in [Callers -> CallType]
  BY DEF IndInv, CallsOK
<1>2. call'[u] = call[u]
  BY <1>1 DEF Resolve, ResolveFound, ResolveWait, ResolveQuery, ResolveFull,
              TimeOut, ResolveReturn, Return
<1>3. QED
  BY <1>2 DEF InWait

\* A thread waits for an ARP reply only while it owns the TCP mutex.
LEMMA WaitInvNext == IndInv /\ WaitInv /\ [Next]_vars => WaitInv'
<1> SUFFICES ASSUME IndInv, WaitInv, [Next]_vars, NEW u \in Callers, InWait(u)'
             PROVE  tcp' \in {u, "dead"}
  BY DEF WaitInv
<1>1. ASSUME InWait(u), tcp' = tcp PROVE tcp' \in {u, "dead"}
  BY <1>1 DEF WaitInv
<1>2. ASSUME call' = call, tcp' = tcp PROVE tcp' \in {u, "dead"}
  BY <1>1, <1>2 DEF InWait
<1>3. CASE Open \/ Run \/ Stop \/ Stopped \/ Close \/ CloseJoined \/ RxLoop
           \/ RxTimeout \/ UNCHANGED vars
  BY <1>2, <1>3 DEF Open, Run, Stop, Stopped, Close, CloseJoined, RxLoop,
                    RxTimeout, vars, arpVars, stackVars
<1>4. ASSUME NEW t \in Callers, Lock(t), call' = call PROVE tcp' \in {u, "dead"}
  <2>1. tcp \in {u, "dead"}
    BY <1>4 DEF WaitInv, InWait
  <2>2. QED
    BY <1>4, <2>1, StackAssumption DEF Lock
<1>5. CASE \E t \in TcpThreads : Call(t)
  BY <1>4, <1>5, StackAssumption DEF Call, arpVars
<1>6. CASE RxLock
  BY <1>4, <1>6, StackAssumption DEF RxLock, arpVars
<1>7. ASSUME NEW t \in Callers, Transmit(t) PROVE tcp' \in {u, "dead"}
  <2>1. tcp = t /\ tcp' \in {tcp, "dead"}
    BY <1>7 DEF Transmit, ethernet_tx
  <2>2. u # t => InWait(u)
    BY <1>7, ResolveWaitOthers DEF Transmit
  <2>3. QED
    BY <1>1, <2>1, <2>2
<1>8. ASSUME NEW t \in Callers, Resume(t) PROVE tcp' \in {u, "dead"}
  <2>1. tcp = t /\ tcp' \in {tcp, "dead"}
    BY <1>8 DEF Resume, ethernet_tx
  <2>2. u # t => InWait(u)
    BY <1>8, ResolveWaitOthers DEF Resume
  <2>3. QED
    BY <1>1, <2>1, <2>2
<1>9. ASSUME NEW t \in Callers, Leave(t) PROVE tcp' \in {u, "dead"}
  <2>1. call \in [Callers -> CallType]
    BY DEF IndInv, CallsOK
  <2>2. tcp = t /\ call[t].pc = "done"
        /\ call' = [call EXCEPT ![t] = Returned(NoHost, "NONE", Any)]
    BY <1>9 DEF Leave
  <2>3. InWait(u) /\ u # t
    BY <2>1, <2>2 DEF InWait, Returned
  <2>4. QED
    BY <2>2, <2>3, StackAssumption DEF WaitInv
<1>10. ASSUME NEW t \in Callers, ThreadStep(t) PROVE tcp' \in {u, "dead"}
  BY <1>7, <1>8, <1>9, <1>10 DEF ThreadStep
<1>11. CASE RxLeave
  BY <1>9, <1>11, StackAssumption DEF RxLeave
<1>12. CASE RxArpInsert
  BY <1>1, <1>12, RxWait DEF RxArpInsert
<1>13. ASSUME NEW f \in Frames, RxFrame(f) PROVE tcp' \in {u, "dead"}
  <2>1. tcp' = tcp
    BY <1>13 DEF RxFrame
  <2>2. f.type = "ARP" => f.msg \in Messages
    BY DEF Frames
  <2>3. call' = call \/ \E msg \in Messages : RxUpdate(msg)
    BY <1>13, <2>2 DEF RxFrame, arpVars
  <2>4. QED
    BY <1>1, <1>2, <2>1, <2>3, RxWait
<1>14. CASE Tick
  BY <1>1, <1>14, TickWait DEF Tick, stackVars
<1>15. QED
  BY <1>3, <1>5, <1>6, <1>10, <1>11, <1>12, <1>13, <1>14 DEF Next

-----------------------------------------------------------------------------
\* The device outlives the receive thread.
LEMMA DevInvNext == DevInv /\ [Next]_vars => DevInv'
<1> SUFFICES ASSUME DevInv, [Next]_vars PROVE DevInv'
  OBVIOUS
<1>1. ASSUME UNCHANGED stackVars PROVE DevInv'
  BY <1>1 DEF DevInv, stackVars
<1>2. CASE Open
  BY <1>2 DEF DevInv, Open, Closed
<1>3. CASE Run
  BY <1>3 DEF DevInv, Run
<1>4. CASE Stop
  BY <1>4 DEF DevInv, Stop
<1>5. CASE Stopped
  BY <1>5 DEF DevInv, Stopped
<1>6. CASE Close
  <2>1. rxpc' = rxpc /\ tcp' = tcp /\ ctl = "idle" /\ dev.open
    BY <1>6 DEF Close
  <2>2. CASE dev.thread
    <3>1. dev' = [dev EXCEPT !.terminate = TRUE] /\ ctl' = "close"
      BY <1>6, <2>2 DEF Close
    <3>2. QED
      BY <2>1, <2>2, <3>1 DEF DevInv
  <2>3. CASE ~dev.thread
    <3>1. dev' = Closed /\ ctl' = "idle" /\ rxpc = "none"
      BY <1>6, <2>3 DEF Close, DevInv
    <3>2. QED
      BY <2>1, <3>1 DEF DevInv, Closed
  <2>4. QED
    BY <2>2, <2>3
<1>7. CASE CloseJoined
  BY <1>7 DEF DevInv, CloseJoined, Closed
<1>8. ASSUME NEW t \in TcpThreads, Call(t) PROVE DevInv'
  BY <1>8, StackAssumption DEF DevInv, Call, Lock
<1>9. ASSUME NEW t \in Callers, ThreadStep(t) PROVE DevInv'
  <2>1. ASSUME ethernet_tx(t), UNCHANGED dev PROVE DevInv'
    BY <2>1, StackAssumption DEF DevInv, ethernet_tx
  <2>2. CASE Transmit(t) \/ Resume(t)
    BY <2>1, <2>2 DEF Transmit, Resume
  <2>3. CASE t \in TcpThreads /\ Leave(t) /\ UNCHANGED rxpc
    <3>1. tcp = t /\ tcp' \in {NoThread, "leaked"} /\ UNCHANGED <<dev, ctl, rxpc>>
      BY <2>3 DEF Leave
    <3>2. QED
      BY <2>3, <3>1, StackAssumption DEF DevInv
  <2>4. QED
    BY <1>9, <2>2, <2>3 DEF ThreadStep
<1>10. CASE RxLoop
  BY <1>10 DEF DevInv, RxLoop
<1>11. CASE RxTimeout
  BY <1>11 DEF DevInv, RxTimeout
<1>12. CASE RxArpInsert
  BY <1>12 DEF DevInv, RxArpInsert
<1>13. CASE RxLock
  BY <1>13, StackAssumption DEF DevInv, RxLock, Lock
<1>14. CASE RxLeave
  <2>1. tcp = RxThread /\ tcp' \in {NoThread, "leaked"} /\ UNCHANGED <<dev, ctl>>
        /\ rxpc' = "loop"
    BY <1>14 DEF RxLeave, Leave
  <2>2. QED
    BY <2>1, StackAssumption DEF DevInv
<1>15. ASSUME NEW f \in Frames, RxFrame(f) PROVE DevInv'
  <2>1. rxpc = "poll" /\ rxpc' \in {"loop", "insert", "lock"} /\ UNCHANGED <<dev, ctl, tcp>>
    BY <1>15 DEF RxFrame
  <2>2. QED
    BY <2>1 DEF DevInv
<1>16. CASE Tick
  BY <1>1, <1>16 DEF Tick
<1>17. CASE UNCHANGED vars
  BY <1>1, <1>17 DEF vars
<1>18. QED
  BY <1>2, <1>3, <1>4, <1>5, <1>6, <1>7, <1>8, <1>9, <1>10, <1>11, <1>12,
     <1>13, <1>14, <1>15, <1>16, <1>17 DEF Next

LEMMA StackInit == Init => IndInv /\ WaitInv /\ DevInv
<1> SUFFICES ASSUME Init PROVE IndInv /\ WaitInv /\ DevInv
  OBVIOUS
<1>1. IndInv
  BY InitInv DEF Init
<1>2. WaitInv
  BY DEF Init, ArpInit, WaitInv, InWait, Returned
<1>3. DevInv
  BY StackAssumption DEF Init, DevInv, Closed
<1>4. QED
  BY <1>1, <1>2, <1>3

\* Composed with TCP and the device, the ARP table stays true and nobody sleeps
\* past an answer: whatever the layers do, the table's invariants hold.
THEOREM StackArpHolds == Spec => [](ArpTypeOK /\ TableTrue /\ ArpNoLostWakeup)
<1>1. Spec => []IndInv
  BY StackInit, ArpInvNext, PTL DEF Spec
<1>2. QED
  BY <1>1, IndInvImplies, PTL

\* ethernet_close frees dev->priv only when the receive thread has ended: while
\* that thread is anywhere, asleep in arp_resolve under the TCP mutex included,
\* the device exists, however often it is opened, run, stopped and closed, and
\* whatever threads are inside TCP then. The theorem is about the receive
\* thread only: nothing in the code makes it true of the others.
THEOREM NoUseAfterCloseHolds == Spec => []NoUseAfterClose
<1>1. WaitInv /\ DevInv => NoUseAfterClose
  <2> SUFFICES ASSUME WaitInv, DevInv,
                      \/ rxpc # "none" \/ tcp = RxThread
                      \/ InWait(RxThread) /\ ctl # "dead"
               PROVE  dev.open
    BY DEF NoUseAfterClose
  <2>1. rxpc # "none"
    BY StackAssumption DEF WaitInv, DevInv
  <2>2. QED
    BY <2>1 DEF DevInv
<1>2. Spec => []IndInv
  BY StackInit, ArpInvNext, PTL DEF Spec
<1>3. Spec => [](WaitInv /\ DevInv)
  BY <1>2, StackInit, WaitInvNext, DevInvNext, PTL DEF Spec
<1>4. QED
  BY <1>1, <1>3, PTL

-----------------------------------------------------------------------------
\* The rest of TypeOK.
StackTyped ==
    /\ dev \in [open : BOOLEAN, terminate : BOOLEAN, thread : BOOLEAN]
    /\ ctl \in {"idle", "stop", "close", "dead"}
    /\ rxpc \in {"none", "loop", "poll", "insert", "lock", "tcp"}
    /\ tcp \in Callers \cup {NoThread, "leaked", "dead"}
    /\ todo \in [Callers -> 0..MaxPackets]
    /\ ctl = "dead" \/ (rx # NoMsg <=> rxpc = "insert")

LEMMA LeaveTyped ==
    ASSUME StackTyped, NEW t \in Callers, Leave(t)
    PROVE  /\ UNCHANGED <<dev, ctl>> /\ tcp' \in Callers \cup {NoThread, "leaked", "dead"}
           /\ todo' \in [Callers -> 0..MaxPackets] /\ rx' = rx
  BY StackAssumption DEF StackTyped, Leave

LEMMA StackTypedNext == DevInv /\ StackTyped /\ [Next]_vars => StackTyped'
<1> SUFFICES ASSUME DevInv, StackTyped, [Next]_vars PROVE StackTyped'
  OBVIOUS
<1>1. ASSUME UNCHANGED stackVars, rx' = rx PROVE StackTyped'
  BY <1>1 DEF StackTyped, stackVars
<1>2. CASE Open \/ Run \/ Stop \/ Stopped \/ Close \/ CloseJoined
  <2>1. /\ rxpc' = rxpc \/ (rxpc = "none" /\ rxpc' = "loop")
        /\ ctl # "dead" /\ ctl' \in {"idle", "stop", "close"}
        /\ UNCHANGED <<tcp, todo, rx>>
    BY <1>2 DEF DevInv, Open, Run, Stop, Stopped, Close, CloseJoined, arpVars
  <2>2. Closed \in [open : BOOLEAN, terminate : BOOLEAN, thread : BOOLEAN]
    BY DEF Closed
  <2>3. dev' \in [open : BOOLEAN, terminate : BOOLEAN, thread : BOOLEAN]
    <3>1. CASE Open \/ CloseJoined
      BY <2>2, <3>1 DEF Open, CloseJoined
    <3>2. CASE Run \/ Stop \/ Stopped
      BY <3>2 DEF StackTyped, Run, Stop, Stopped
    <3>3. CASE Close
      BY <2>2, <3>3 DEF StackTyped, Close
    <3>4. QED
      BY <1>2, <3>1, <3>2, <3>3
  <2>4. QED
    BY <2>1, <2>3 DEF StackTyped
<1>3. ASSUME NEW t \in Callers, Lock(t)
      PROVE  tcp' \in Callers /\ todo' \in [Callers -> 0..MaxPackets]
  BY <1>3 DEF StackTyped, Lock
<1>4. ASSUME NEW t \in TcpThreads, Call(t) PROVE StackTyped'
  <2>1. t \in Callers /\ Lock(t) /\ UNCHANGED <<dev, ctl, rxpc, rx>>
    BY <1>4, StackAssumption DEF Call, arpVars
  <2>2. QED
    BY <1>3, <2>1 DEF StackTyped
<1>5. ASSUME NEW t \in Callers, ThreadStep(t) PROVE StackTyped'
  <2>1. ASSUME ethernet_tx(t), UNCHANGED <<dev, rx>>, todo' \in [Callers -> 0..MaxPackets]
        PROVE  StackTyped'
    BY <2>1 DEF StackTyped, ethernet_tx
  <2>2. CASE Transmit(t)
    <3>1. todo[t] \in 0..MaxPackets /\ todo[t] > 0 /\ MaxPackets \in Nat
      BY <2>2, StackAssumption DEF StackTyped, Transmit
    <3>2. todo[t] - 1 \in 0..MaxPackets
      BY <3>1
    <3>3. todo' \in [Callers -> 0..MaxPackets]
      BY <2>2, <3>2 DEF StackTyped, Transmit
    <3>4. ethernet_tx(t) /\ UNCHANGED <<dev, rx>>
      BY <2>2 DEF Transmit, Resolve
    <3>5. QED
      BY <2>1, <3>3, <3>4
  <2>3. CASE Resume(t)
    <3>1. ethernet_tx(t) /\ UNCHANGED <<dev, rx, todo>>
      BY <2>3 DEF Resume, TimeOut, ResolveReturn
    <3>2. QED
      BY <2>1, <3>1 DEF StackTyped
  <2>4. CASE Leave(t) /\ UNCHANGED rxpc
    BY <2>4, LeaveTyped DEF StackTyped
  <2>5. QED
    BY <1>5, <2>2, <2>3, <2>4 DEF ThreadStep
<1>6. CASE RxLoop \/ RxTimeout
  <2>1. /\ rxpc \in {"loop", "poll"} /\ rxpc' \in {"none", "loop", "poll"}
        /\ UNCHANGED <<dev, ctl, tcp, todo, rx>>
    BY <1>6 DEF RxLoop, RxTimeout, arpVars
  <2>2. QED
    BY <2>1 DEF StackTyped
<1>7. CASE RxArpInsert
  <2>1. rx' = NoMsg /\ rxpc' = "loop" /\ UNCHANGED <<dev, ctl, tcp, todo>>
    BY <1>7 DEF RxArpInsert, RxInsert
  <2>2. QED
    BY <2>1 DEF StackTyped
<1>8. CASE RxLock
  <2>1. /\ RxThread \in Callers /\ Lock(RxThread) /\ rxpc = "lock" /\ rxpc' = "tcp"
        /\ UNCHANGED <<dev, ctl, rx>>
    BY <1>8, StackAssumption DEF RxLock, arpVars
  <2>2. QED
    BY <1>3, <2>1 DEF StackTyped
<1>9. CASE RxLeave
  <2>1. RxThread \in Callers /\ Leave(RxThread) /\ rxpc' = "loop" /\ tcp = RxThread
    BY <1>9, StackAssumption DEF RxLeave, Leave
  <2>2. rxpc = "tcp"
    BY <2>1 DEF DevInv
  <2>3. QED
    BY <2>1, <2>2, LeaveTyped DEF StackTyped
<1>10. ASSUME NEW f \in Frames, RxFrame(f) PROVE StackTyped'
  <2>1. /\ rxpc = "poll" /\ UNCHANGED <<dev, ctl, tcp, todo>>
        /\ \/ rxpc' \in {"loop", "lock"} /\ rx' = rx
           \/ rxpc' = IF rx' = NoMsg THEN "loop" ELSE "insert"
    BY <1>10 DEF RxFrame, arpVars
  <2>2. QED
    BY <2>1 DEF StackTyped
<1>11. CASE Tick \/ UNCHANGED vars
  BY <1>1, <1>11 DEF Tick, ArpTick, vars, arpVars
<1>12. QED
  BY <1>2, <1>4, <1>5, <1>6, <1>7, <1>8, <1>9, <1>10, <1>11 DEF Next

\* Device, receive thread, TCP mutex and ARP table stay well formed, however
\* applications, the receive thread and whoever runs the device interleave: the
\* mutex has an owner that exists, is free, or was left locked by tcp_api_send,
\* and there is one receive thread: it alone is between the critical sections
\* of arp_rx, and it owns the mutex exactly while it is in tcp_rx.
THEOREM StackTypeCorrect == Spec => []TypeOK
<1>1. Init => StackTyped
  BY StackAssumption DEF Init, ArpInit, StackTyped, Closed
<1>2. Spec => []DevInv
  BY StackInit, DevInvNext, PTL DEF Spec
<1>3. Spec => []StackTyped
  BY <1>1, <1>2, StackTypedNext, PTL DEF Spec
<1>4. ArpTypeOK /\ DevInv /\ StackTyped => TypeOK
  BY DEF TypeOK, StackTyped, DevInv
<1>5. QED
  BY <1>2, <1>3, <1>4, StackArpHolds, PTL
=============================================================================
