--------------------------------- MODULE MCIp ---------------------------------
(***************************************************************************)
(* Ip for TLC: two hosts send a datagram of three fragments and one of two *)
(* under the same id; the first host also broadcasts a short one. No       *)
(* inverted bit of the header length of a fragment passes the checksum.    *)
(***************************************************************************)
EXTENDS Ip

MCDatagram ==
    [c \in Calls |->
        CASE c = 1 -> [src |-> 1, dst |-> 9, proto |-> 6,
                       data |-> [i \in 1..14 |-> i]]
          [] c = 2 -> [src |-> 2, dst |-> 9, proto |-> 6,
                       data |-> [i \in 1..8 |-> 14 + i]]
          [] OTHER -> [src |-> 1, dst |-> 31, proto |-> 6, data |-> <<23>>]]

ASSUME IhlNoticed
=============================================================================
