---------------------------- MODULE MCMediaRelay ----------------------------
(***************************************************************************)
(* Instances of MediaRelay for TLC, and the environments some runs assume.  *)
(***************************************************************************)
EXTENDS MediaRelay

\* The contract the relay implements, over what the relay has received and
\* sent.
Contract == INSTANCE RelayContract WITH
    served <- qpc \in Serving,
    inA  <- gotA,
    inV  <- gotV,
    outA <- [i \in 1 .. Len(sentA) |-> sentA[i].id],
    outV <- [i \in 1 .. Len(sentV) |-> sentV[i].id]

\* The relay implements its contract: lossless ordered audio and ordered
\* video in every session, across all interleavings of its two threads.
ImplementsContract == Contract!Spec

\* A publisher that the relay keeps up with: video comes at any pace until the
\* first audio packet, then one packet at a time, each when the queue thread has
\* finished the one before; audio follows the frame in work.
CaughtUp == qpc = "loop" /\ videoQ = <<>>

VideoInPace == (CaughtUp \/ gotA = 0) /\ ReceiveVideo

AudioInPace == hasDataFrame = 1 /\ Len(videoQ) <= 1 /\ ReceiveAudio

\* Its packets are refused only where the decoder could not be created: when
\* one is refused before, the first frame relayed is stamped 0 and audio bound
\* to a later timestamp than the clock's is what EncodeSendsVideo fails on.
RefusedForGood == qpc \notin {"release0", "create"} /\ RefuseVideo

PacedNext ==
    \/ BeginPublish \/ BeginJoined \/ BeginStart
    \/ ExitCallback \/ ExitJoined
    \/ RefusedForGood \/ VideoInPace \/ AudioInPace
    \/ QueueThread

PacedSpec == Init /\ [][PacedNext]_vars /\ Fairness
=============================================================================
