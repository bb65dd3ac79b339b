---------------------------- MODULE RelayContract ----------------------------
(***************************************************************************)
(* What the relay promises an upstream server, whatever its threads, queues *)
(* and codecs do: in each session audio is a lossless FIFO while the session *)
(* is served, video is a FIFO that may skip frames, and a session starts    *)
(* from nothing.  Packets are their serial numbers in the session.          *)
(***************************************************************************)
EXTENDS Integers, Sequences

VARIABLES
    served,      \* a queue thread serves the session
    inA, inV,    \* packets received in the session
    outA, outV   \* serial numbers relayed, in the order of relaying

cvars == <<served, inA, inV, outA, outV>>

Init == served = FALSE /\ inA = 0 /\ inV = 0 /\ outA = <<>> /\ outV = <<>>

Begin ==
    /\ ~served
    /\ served' = TRUE
    /\ inA' = 0 /\ inV' = 0 /\ outA' = <<>> /\ outV' = <<>>

ReceiveAudio == served /\ inA' = inA + 1 /\ UNCHANGED <<served, inV, outA, outV>>

ReceiveVideo == served /\ inV' = inV + 1 /\ UNCHANGED <<served, inA, outA, outV>>

\* The oldest audio packet not yet relayed.
NextAudio ==
    /\ Len(outA) < inA
    /\ outA' = Append(outA, Len(outA) + 1)

\* Some received frame younger than all those relayed.
LaterFrame ==
    \E n \in 1 .. inV :
        /\ \A i \in 1 .. Len(outV) : outV[i] < n
        /\ outV' = Append(outV, n)

Relay ==
    /\ served
    /\ \/ NextAudio /\ outV' = outV
       \/ LaterFrame /\ outA' = outA
       \/ LaterFrame /\ NextAudio
    /\ UNCHANGED <<served, inA, inV>>

End == served /\ served' = FALSE /\ UNCHANGED <<inA, inV, outA, outV>>

Next == Begin \/ ReceiveAudio \/ ReceiveVideo \/ Relay \/ End

Spec == Init /\ [][Next]_cvars
=============================================================================
