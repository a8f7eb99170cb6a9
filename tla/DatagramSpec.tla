----------------------------- MODULE DatagramSpec -----------------------------
(***************************************************************************)
(* What IP promises to the protocols above it: a datagram that is          *)
(* delivered was sent, by that source, to this host, for that protocol,    *)
(* and is whole.  It may be lost, delivered late, out of order, or twice.  *)
(***************************************************************************)
CONSTANT Datagrams   \* the datagrams applications may send

VARIABLES sent, delivered

Init == sent = {} /\ delivered = {}

Send(d) ==
    /\ sent' = sent \cup {d}
    /\ UNCHANGED delivered

Deliver(d) ==
    /\ d \in sent
    /\ delivered' = delivered \cup {d}
    /\ UNCHANGED sent

Next == \E d \in Datagrams : Send(d) \/ Deliver(d)

Spec == Init /\ [][Next]_<<sent, delivered>>
=============================================================================
