------------------------------ MODULE StreamSpec ------------------------------
(***************************************************************************)
(* What a TCP connection promises to its two applications: a stream of     *)
(* bytes each way.  What one end has received is always a beginning of     *)
(* what the other one sent, nothing received is taken back while the       *)
(* connection lasts, and the end of the stream is seen only behind all of  *)
(* it.                                                                     *)
(***************************************************************************)
EXTENDS Sequences, SequencesExt

CONSTANTS Ends, Other(_)

VARIABLES
    sent,      \* sent[e]: what the application at e passed to send
    received,  \* received[e]: what the stack at e has for its application
    read,      \* read[e]: what recv has returned at e
    eof        \* eof[e]: e knows that nothing more comes

vars == <<sent, received, read, eof>>

Init ==
    /\ sent = [e \in Ends |-> <<>>]
    /\ received = [e \in Ends |-> <<>>]
    /\ read = [e \in Ends |-> <<>>]
    /\ eof = [e \in Ends |-> FALSE]

\* f' differs from f at e only, where it goes on from f[e].
Grows(old, new, e) ==
    /\ IsPrefix(old[e], new[e])
    /\ \A x \in Ends \ {e} : new[x] = old[x]

Send(e) ==
    /\ ~eof[Other(e)]
    /\ Grows(sent, sent', e)
    /\ UNCHANGED <<received, read, eof>>

Receive(e) ==
    /\ Grows(received, received', e)
    /\ IsPrefix(received'[e], sent[Other(e)])
    /\ \/ UNCHANGED eof
       \/ /\ eof' = [eof EXCEPT ![e] = TRUE]
          /\ received'[e] = sent[Other(e)]
    /\ UNCHANGED <<sent, read>>

Read(e) ==
    /\ Grows(read, read', e)
    /\ IsPrefix(read'[e], received[e])
    /\ UNCHANGED <<sent, received, eof>>

\* The connection ends at e: what was not read is gone.
Abort(e) ==
    /\ received' = [received EXCEPT ![e] = read[e]]
    /\ eof' = [eof EXCEPT ![e] = FALSE]
    /\ UNCHANGED <<sent, read>>

Next == \E e \in Ends : Send(e) \/ Receive(e) \/ Read(e) \/ Abort(e)

Spec == Init /\ [][Next]_vars
=============================================================================
