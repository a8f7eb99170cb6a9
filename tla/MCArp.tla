-------------------------------- MODULE MCArp --------------------------------
(***************************************************************************)
(* Arp for TLC.                                                            *)
(***************************************************************************)
EXTENDS Arp

MCHwOf == [h \in Hosts |-> <<"hw", h>>]
=============================================================================
