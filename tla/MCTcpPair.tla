------------------------------ MODULE MCTcpPair ------------------------------
(***************************************************************************)
(* TcpPair for TLC.  The bytes of the two streams are distinct numbers.    *)
(***************************************************************************)
EXTENDS TcpPair

MCIss == [e \in Ends |-> IF e = "A" THEN 10 ELSE 20]

\* Who speaks, and how much.
PassiveFills == [e \in Ends |-> IF e = "A" THEN <<>> ELSE <<21, 22, 23, 24, 25>>]
PassiveSpeaks == [e \in Ends |-> IF e = "A" THEN <<>> ELSE <<21, 22>>]
ActiveSpeaks == [e \in Ends |-> IF e = "A" THEN <<11>> ELSE <<>>]

\* Room for two segments towards A and one towards B; room for all.
Narrow == [e \in Ends |-> IF e = "A" THEN 2 ELSE 1]
Wide == [e \in Ends |-> 6]
=============================================================================
