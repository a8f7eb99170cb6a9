------------------------------- MODULE MCStack -------------------------------
(***************************************************************************)
(* Stack for TLC.                                                          *)
(***************************************************************************)
EXTENDS Stack

MCHwOf == [h \in Hosts |-> <<"hw", h>>]
=============================================================================
