---------------------------- MODULE MCMppDecoder ----------------------------
(***************************************************************************)
(* Instances of MppDecoder for TLC.                                         *)
(***************************************************************************)
EXTENDS MppDecoder

Pkt(kind, size, eos) == [kind |-> kind, size |-> size, eos |-> eos]

\* The last packet carries eos: pictures, a new size, pictures lost and none at all.
Pictures == <<Pkt("I", 1, FALSE), Pkt("P", 1, FALSE), Pkt("P", 1, FALSE), Pkt("P", 1, TRUE)>>
ShortStreams ==
    {Pictures,
     <<Pkt("I", 1, FALSE), Pkt("P", 1, FALSE), Pkt("P", 1, TRUE)>>,
     <<Pkt("I", 1, FALSE), Pkt("I", 2, TRUE)>>,
     <<Pkt("P", 1, FALSE), Pkt("I", 1, FALSE), Pkt("bad", 1, TRUE)>>,
     <<Pkt("I", 1, FALSE), Pkt("empty", 1, TRUE)>>}
\* The group may have no buffer that fits in the stream with two sizes.
NewSize == {s \in ShortStreams : \E i \in DOMAIN s : s[i].size = 2}
ShortResets == [s \in ShortStreams |-> IF s = Pictures THEN 0 ELSE 1]

\* Five frames, the last of a new size, to fill mFrmOut beyond its limit.
LongStream == {<<Pkt("I", 1, FALSE), Pkt("P", 1, FALSE), Pkt("P", 1, FALSE),
                 Pkt("P", 1, FALSE), Pkt("I", 2, FALSE)>>}
LongResets == [s \in LongStream |-> 0]

\* A change of size between two resets, and a frame of that size after them.
ChangedStream == {<<Pkt("I", 1, FALSE), Pkt("I", 2, FALSE), Pkt("I", 2, FALSE)>>}
TwoResets == [s \in ChangedStream |-> 2]
=============================================================================
