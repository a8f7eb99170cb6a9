------------------------------ MODULE MCTcpHost ------------------------------
(***************************************************************************)
(* TcpHost for TLC: peers that start at sequence number 0 and a host whose *)
(* random() is 4, so SYN takes 4 and FIN takes 5.                          *)
(***************************************************************************)
EXTENDS TcpHost

CONSTANTS p1, p2, t1, t2

Sym == Permutations({p1, p2}) \cup Permutations({t1, t2})

MCIss == {4}
Sg(flg, seq, ack) == [seq |-> seq, ack |-> ack, flg |-> flg, win |-> WinSize,
                      data |-> <<>>]

\* What clients that open and abort connections send: SYN, ACK of SYN, RST.
OpenSegments == {Sg({"SYN"}, 0, 0), Sg({"ACK"}, 1, 5), Sg({"RST"}, 1, 0)}

\* ... and what they send to close: ACKs before and after our FIN, and a FIN;
\* one connection starts at the last sequence number.
CloseSegments ==
    OpenSegments \cup
    {Sg({"ACK"}, 1, 6), Sg({"ACK"}, 2, 6), Sg({"FIN", "ACK"}, 1, 5),
     Sg({"FIN", "ACK"}, 1, 6),
     Sg({"SYN"}, SeqSpace - 1, 0), Sg({"ACK"}, 0, 5)}

\* What a server answers a SYN with: SYN|ACK, a refusal, a crossing SYN and the
\* ACK that completes the simultaneous open, and an RST later on.
ServerSegments ==
    {Sg({"SYN", "ACK"}, 0, 5), Sg({"RST", "ACK"}, 0, 5), Sg({"SYN"}, 0, 0),
     Sg({"ACK"}, 1, 5), Sg({"RST"}, 1, 0)}
=============================================================================
