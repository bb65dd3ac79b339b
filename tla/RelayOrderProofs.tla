-------------------------- MODULE RelayOrderProofs --------------------------
(***************************************************************************)
(* What MediaRelay guarantees about frames for every value of its           *)
(* constants: their order, the place of the audio around them, and their    *)
(* timestamps; and that it implements RelayContract.                        *)
(***************************************************************************)
EXTENDS MCMediaRelay, MediaRelayProofs

USE DEF vars, rtmpVars, clockVars, curVars, codecVars, callVars, sentVars,
        StopFrame, EncodeEndFrame, AudioLoopFrame, cleanQueueFrame

-----------------------------------------------------------------------------
(* Frames on their way *)

Increasing(q) == \A i, j \in 1 .. Len(q) : i < j => q[i] < q[j]

\* The frames encodeFunc may still be called for.
Ahead == Frames(inCodec) \cup Frames(Rest)

\* The frames encodeFunc was called for when it sent audio.
Calls == {sentA[i].call : i \in 1 .. Len(sentA)}

\* Frames stand in one line from the publisher to the upstream server, which the
\* codec may shorten: queued after decoded, decoded after relayed.
OneLine ==
    /\ Increasing(inCodec) /\ Increasing(Rest)
    /\ \A n \in Frames(inCodec), m \in Frames(Rest) : n < m
    /\ Ahead \subseteq 1 .. gotV
    /\ \A n \in SentIds \cup Calls : \A m \in Ahead : n < m
    /\ \A n \in Calls : n <= gotV
    /\ qpc \in {"none", "release0"} \/ ~enableCodec => inCodec = <<>>

\* The frame of encodeFunc stands between what is relayed and what is to come.
FrameAtHand ==
    /\ qpc = "encode" \/ InCall =>
           frame \in 1 .. gotV /\ \A m \in Ahead : frame < m
    /\ qpc = "encode" => \A n \in SentIds \cup Calls : n < frame
    /\ InCall => /\ \A n \in Calls : n <= frame
                 /\ \A n \in SentIds : n <= frame
                 /\ ~hasSent => \A n \in SentIds : n < frame

\* What encodeFunc has sent in the call at work.
CallAtHand ==
    InCall =>
        /\ \A i \in 1 .. Len(sentA) : sentA[i].call = frame =>
               sentA[i].vts <= curTs /\ (~hasSent => sentA[i].ts < curTs)
        /\ \A j \in 1 .. Len(sentV) : sentV[j].id = frame => sentV[j].ts = curTs
        /\ hasSent => frame \in SentIds

Line == VideoInOrder /\ OneLine /\ FrameAtHand

-----------------------------------------------------------------------------
(* The output clock *)

\* Before the first video packet the relay knows nothing of this session.
NothingReceived ==
    /\ hasDataFrame = 0 /\ refused = {} => gotV = 0
    /\ refused = {} => orgTs = pubTs
    /\ gotV = 0 => pubTs = 0 /\ sentV = <<>> /\ curAbs = 1

\* What the relay takes for an interval lies within lo .. hi.
Measured(lo, hi) == gotV > 0 => fpsUnit \in lo .. hi

\* t is one interval after s.
OneOn(s, t, lo, hi) == \E d \in lo .. hi : t = (s + d) % TsMod

\* encodeFunc's clock stands at the frame sent last, or, with a frame to send,
\* one interval after it.
ClockAt(lo, hi) ==
    /\ sentV # <<>> => sentV[1].ts = 0
    /\ \A i \in 1 .. Len(sentV) - 1 : OneOn(sentV[i].ts, sentV[i + 1].ts, lo, hi)
    /\ ~InCall /\ sentV = <<>> => curAbs = 1
    /\ ~InCall /\ sentV # <<>> => curAbs = 0 /\ curTs = sentV[Len(sentV)].ts
    /\ InCall /\ ~hasSent =>
           IF sentV = <<>> THEN curTs = 0 ELSE OneOn(sentV[Len(sentV)].ts, curTs, lo, hi)
    /\ InCall /\ hasSent => sentV # <<>> /\ curTs = sentV[Len(sentV)].ts

Within(lo, hi) == VideoSteps \cup {orgFpsUnit} \subseteq lo .. hi

ClockInv ==
    /\ NothingReceived
    /\ \A lo, hi \in VideoSteps :
           Within(lo, hi) /\ refused = {} => Measured(lo, hi) /\ ClockAt(lo, hi)
-----------------------------------------------------------------------------
(* Sequences of frames *)

\* A later frame put last is in the queue, which stays in order.
LEMMA FramesAppend ==
    ASSUME NEW q \in Seq(Nat), NEW e \in Nat
    PROVE  /\ Frames(Append(q, e)) = Frames(q) \cup {e}
           /\ Increasing(q) /\ (\A n \in Frames(q) : n < e) => Increasing(Append(q, e))
<1>1. /\ Len(Append(q, e)) = Len(q) + 1 /\ Len(q) \in Nat
      /\ \A i \in 1 .. Len(q) : Append(q, e)[i] = q[i]
      /\ Append(q, e)[Len(q) + 1] = e
  BY AppendAt
<1>2. Frames(Append(q, e)) = Frames(q) \cup {e}
  <2>1. 1 .. Len(q) + 1 = (1 .. Len(q)) \cup {Len(q) + 1}
    BY <1>1
  <2> QED BY <1>1, <2>1 DEF Frames
<1>3. ASSUME Increasing(q), \A n \in Frames(q) : n < e,
             NEW i \in 1 .. Len(q) + 1, NEW j \in 1 .. Len(q) + 1, i < j
      PROVE  Append(q, e)[i] < Append(q, e)[j]
  <2>1. i \in 1 .. Len(q)
    BY <1>1, <1>3
  <2>2. CASE j \in 1 .. Len(q)
    BY <1>1, <1>3, <2>1, <2>2 DEF Increasing
  <2>3. CASE j = Len(q) + 1
    BY <1>1, <1>3, <2>1, <2>3 DEF Frames
  <2> QED BY <1>1, <2>2, <2>3
<1> QED BY <1>1, <1>2, <1>3 DEF Increasing

\* The head of a queue in order is before the rest.
LEMMA FramesTail ==
    ASSUME NEW q \in Seq(Nat), q # <<>>
    PROVE  /\ Frames(q) = {Head(q)} \cup Frames(Tail(q))
           /\ Increasing(q) =>
                  Increasing(Tail(q)) /\ \A n \in Frames(Tail(q)) : Head(q) < n
<1>1. /\ Len(Tail(q)) = Len(q) - 1 /\ Len(q) \in Nat \ {0}
      /\ \A i \in 1 .. Len(q) - 1 : Tail(q)[i] = q[i + 1]
      /\ Head(q) = q[1]
  BY TailAt
<1>2. Frames(q) = {Head(q)} \cup Frames(Tail(q))
  <2>1. ASSUME NEW n \in Frames(q) PROVE n \in {Head(q)} \cup Frames(Tail(q))
    <3>1. PICK i \in 1 .. Len(q) : n = q[i]
      BY DEF Frames
    <3>2. CASE i = 1
      BY <1>1, <3>1, <3>2
    <3>3. CASE i # 1
      <4>1. i - 1 \in 1 .. Len(q) - 1 /\ (i - 1) + 1 = i
        BY <1>1, <3>3
      <4>2. n = Tail(q)[i - 1]
        BY <1>1, <3>1, <4>1
      <4> QED BY <1>1, <4>1, <4>2 DEF Frames
    <3> QED BY <3>2, <3>3
  <2>2. ASSUME NEW n \in Frames(Tail(q)) PROVE n \in Frames(q)
    <3>1. PICK i \in 1 .. Len(q) - 1 : n = q[i + 1]
      BY <1>1 DEF Frames
    <3>2. i + 1 \in 1 .. Len(q)
      BY <1>1
    <3> QED BY <3>1, <3>2 DEF Frames
  <2>3. Head(q) \in Frames(q)
    BY <1>1 DEF Frames
  <2> QED BY <2>1, <2>2, <2>3
<1>3. ASSUME Increasing(q) PROVE Increasing(Tail(q))
  <2>1. ASSUME NEW i \in 1 .. Len(q) - 1, NEW j \in 1 .. Len(q) - 1, i < j
        PROVE  Tail(q)[i] < Tail(q)[j]
    <3>1. i + 1 \in 1 .. Len(q) /\ j + 1 \in 1 .. Len(q) /\ i + 1 < j + 1
      BY <1>1, <2>1
    <3> QED BY <1>1, <1>3, <3>1 DEF Increasing
  <2> QED BY <1>1, <2>1 DEF Increasing
<1>4. ASSUME Increasing(q), NEW n \in Frames(Tail(q)) PROVE Head(q) < n
  <2>1. PICK i \in 1 .. Len(q) - 1 : n = q[i + 1]
    BY <1>1 DEF Frames
  <2>2. 1 \in 1 .. Len(q) /\ i + 1 \in 1 .. Len(q) /\ 1 < i + 1
    BY <1>1
  <2> QED BY <1>1, <1>4, <2>1, <2>2 DEF Increasing
<1> QED BY <1>2, <1>3, <1>4

\* An empty queue is in order.
LEMMA NoFrames == Frames(<<>>) = {} /\ Increasing(<<>>)
BY DEF Frames, Increasing

\* The record appended last joins what is relayed.
LEMMA SentAppend ==
    ASSUME NEW S, NEW q \in Seq(S), NEW e
    PROVE  /\ {Append(q, e)[i].id : i \in 1 .. Len(Append(q, e))} =
                  {q[i].id : i \in 1 .. Len(q)} \cup {e.id}
           /\ {Append(q, e)[i].call : i \in 1 .. Len(Append(q, e))} =
                  {q[i].call : i \in 1 .. Len(q)} \cup {e.call}
<1>1. /\ Len(Append(q, e)) = Len(q) + 1 /\ Len(q) \in Nat
      /\ \A i \in 1 .. Len(q) : Append(q, e)[i] = q[i]
      /\ Append(q, e)[Len(q) + 1] = e
  BY AppendAt
<1>2. 1 .. Len(q) + 1 = (1 .. Len(q)) \cup {Len(q) + 1}
  BY <1>1
<1> QED BY <1>1, <1>2

\* A frame relayed after all others keeps the order.
LEMMA OrderAppend ==
    ASSUME NEW q \in Seq(SentVideo), NEW e, e.sess = sess, e.id <= gotV,
           \A i \in 1 .. Len(q) : q[i].id < e.id,
           \A i, j \in 1 .. Len(q) : i < j => q[i].id < q[j].id,
           \A i \in 1 .. Len(q) : q[i].sess = sess /\ q[i].id <= gotV
    PROVE  /\ \A i, j \in 1 .. Len(Append(q, e)) :
                  i < j => Append(q, e)[i].id < Append(q, e)[j].id
           /\ \A i \in 1 .. Len(Append(q, e)) :
                  Append(q, e)[i].sess = sess /\ Append(q, e)[i].id <= gotV
<1>1. /\ Len(Append(q, e)) = Len(q) + 1 /\ Len(q) \in Nat
      /\ \A i \in 1 .. Len(q) : Append(q, e)[i] = q[i]
      /\ Append(q, e)[Len(q) + 1] = e
  BY AppendAt
<1>2. ASSUME NEW i \in 1 .. Len(q) + 1, NEW j \in 1 .. Len(q) + 1, i < j
      PROVE  Append(q, e)[i].id < Append(q, e)[j].id
  <2>1. i \in 1 .. Len(q)
    BY <1>1, <1>2
  <2>2. CASE j \in 1 .. Len(q)
    BY <1>1, <1>2, <2>1, <2>2
  <2>3. CASE j = Len(q) + 1
    BY <1>1, <2>1, <2>3
  <2> QED BY <1>1, <2>2, <2>3
<1>3. ASSUME NEW i \in 1 .. Len(q) + 1
      PROVE  Append(q, e)[i].sess = sess /\ Append(q, e)[i].id <= gotV
  BY <1>1
<1> QED BY <1>1, <1>2, <1>3

-----------------------------------------------------------------------------
(* The line of frames, step by step *)

\* Types of the queues, the frame at hand and the history, from the typing invariant.
LEMMA LineTypes ==
    Clean => /\ inCodec \in Seq(Nat) /\ videoQ \in Seq(Nat) /\ Rest \in Seq(Nat)
             /\ frame \in Nat /\ gotV \in Nat /\ sess \in Nat
             /\ sentV \in Seq(SentVideo) /\ sentA \in Seq(SentAudio)
             /\ InWork => videoQ # <<>>
             /\ Ahead \subseteq Nat /\ SentIds \subseteq Nat /\ Calls \subseteq Nat
<1> SUFFICES ASSUME Clean
             PROVE  /\ inCodec \in Seq(Nat) /\ videoQ \in Seq(Nat) /\ Rest \in Seq(Nat)
                    /\ frame \in Nat /\ gotV \in Nat /\ sess \in Nat
                    /\ sentV \in Seq(SentVideo) /\ sentA \in Seq(SentAudio)
                    /\ InWork => videoQ # <<>>
                    /\ Ahead \subseteq Nat /\ SentIds \subseteq Nat /\ Calls \subseteq Nat
  OBVIOUS
<1>1. /\ inCodec \in Seq(Nat) /\ videoQ \in Seq(Nat)
      /\ frame \in Nat /\ gotV \in Nat /\ sess \in Nat
      /\ sentV \in Seq(SentVideo) /\ sentA \in Seq(SentAudio)
  BY DEF Clean, Types, TypeOK, QueueTypeOK, RtmpTypeOK
<1>2. InWork => videoQ # <<>>
  BY DEF Clean, Types, HeadsHeld, InWork
<1>3. Rest \in Seq(Nat)
  BY <1>1, <1>2, SequenceFacts DEF Rest
<1>4. Ahead \subseteq Nat
  BY <1>1, <1>3 DEF Ahead, Frames
<1>5. SentIds \subseteq Nat /\ Calls \subseteq Nat
  <2>1. /\ \A i \in 1 .. Len(sentV) : sentV[i] \in SentVideo
        /\ \A i \in 1 .. Len(sentA) : sentA[i] \in SentAudio
    BY <1>1
  <2>2. /\ \A i \in 1 .. Len(sentV) : sentV[i].id \in Nat
        /\ \A i \in 1 .. Len(sentA) : sentA[i].call \in Nat
    BY <2>1 DEF SentVideo, SentAudio
  <2> QED BY <2>2 DEF SentIds, Calls
<1> QED BY <1>1, <1>2, <1>3, <1>4, <1>5

\* A step that calls no frame and relays none keeps the line if what is ahead
\* only gets less.
LEMMA LineKept ==
    ASSUME Clean, Line,
           Increasing(inCodec)', Increasing(Rest)',
           \A n \in Frames(inCodec'), m \in Frames(Rest') : n < m,
           Ahead' \subseteq Ahead,
           qpc' \in {"none", "release0"} \/ ~enableCodec => inCodec' = <<>>,
           UNCHANGED <<sentV, sentA, frame, hasSent, sess, enableCodec>>,
           gotV' \in Nat, gotV <= gotV',
           qpc' = "encode" => qpc = "encode", InCall' => InCall
    PROVE  Line'
<1>1. SentIds' = SentIds /\ Calls' = Calls
  BY DEF SentIds, Calls
<1>2. VideoInOrder'
  <2>1. \A i \in 1 .. Len(sentV) : sentV[i].id \in Nat /\ gotV \in Nat
    BY LineTypes DEF SentIds
  <2> QED BY <2>1 DEF Line, VideoInOrder
<1>3. OneLine'
  BY <1>1, LineTypes DEF Line, OneLine
<1>4. FrameAtHand'
  BY <1>1, LineTypes DEF Line, FrameAtHand
<1> QED BY <1>2, <1>3, <1>4 DEF Line

\* What SendAudio and EncodeEnd may do to the frames relayed.
VideoSent ==
    ~hasSent /\ \E out \in SentVideo :
        /\ sentV' = Append(sentV, out)
        /\ out.id = frame /\ out.sess = sess /\ out.ts = curTs

\* What the audio loop sends, with the frame before the first packet that is not older
\* (encodeFunc).
LEMMA SendAudioFacts ==
    ASSUME Clean, SendAudio
    PROVE  /\ \/ VideoSent /\ hasSent'
              \/ sentV' = sentV /\ hasSent' = hasSent
           /\ \E out \in SentAudio :
                  /\ sentA' = Append(sentA, out)
                  /\ out.call = frame /\ out.vts <= curTs
                  /\ out.after = Len(sentV')
                  /\ ~hasSent' => out.ts < curTs
<1> DEFINE a == Head(audioQ)
           out == [id |-> a.id, sess |-> a.sess, ts |-> a.ts, vts |-> a.vts,
                   call |-> frame, after |-> Len(sentV')]
<1> USE DEF Clean, Types, TypeOK
<1>1. a \in Audio
  BY SequenceFacts DEF SendAudio, QueueTypeOK
<1>2. hasSent \in BOOLEAN /\ hasSent' \in BOOLEAN
  BY DEF SendAudio, FrameGoesFirst, ThreadTypeOK
<1>3. VideoOut(a.vabs) \in SentVideo
  BY <1>1 DEF Audio, SentVideo, VideoOut, QueueTypeOK, RtmpTypeOK, ClockTypeOK
<1>4. /\ a.vts <= curTs
      /\ hasSent' = (hasSent \/ FrameGoesFirst(a))
      /\ sentV' = IF FrameGoesFirst(a) THEN Append(sentV, VideoOut(a.vabs)) ELSE sentV
      /\ sentA' = Append(sentA, out)
  BY DEF SendAudio
<1>5. out \in SentAudio
  <2>1. sentV' \in Seq(SentVideo)
    BY <1>3, <1>4, SequenceFacts
  <2> QED BY <1>1, <2>1 DEF Audio, SentAudio, QueueTypeOK
<1>6. CASE FrameGoesFirst(a)
  <2>1. ~hasSent /\ hasSent'
    BY <1>2, <1>4, <1>6 DEF FrameGoesFirst
  <2>2. VideoSent
    BY <1>3, <1>4, <1>6, <2>1 DEF VideoSent, VideoOut
  <2> QED BY <1>4, <1>5, <2>1, <2>2
<1>7. CASE ~FrameGoesFirst(a)
  <2>1. hasSent' = hasSent
    BY <1>2, <1>4, <1>7
  <2>2. ~hasSent => a.ts < curTs
    <3>1. a.ts \in Nat /\ curTs \in Nat
      BY <1>1, ZeroTimestamp DEF Audio, ClockTypeOK
    <3> QED BY <1>7, <3>1 DEF FrameGoesFirst
  <2> QED BY <1>4, <1>5, <1>7, <2>1, <2>2
<1> QED BY <1>6, <1>7

\* At its end encodeFunc has sent the frame.
LEMMA EncodeEndFacts ==
    ASSUME Clean, EncodeEnd
    PROVE  \/ VideoSent
           \/ hasSent /\ sentV' = sentV
<1>1. VideoOut(curAbs) \in SentVideo
  BY DEF Clean, Types, TypeOK, SentVideo, VideoOut, QueueTypeOK, RtmpTypeOK, ClockTypeOK
<1>2. hasSent \in BOOLEAN
  BY DEF Clean, Types, TypeOK, ThreadTypeOK
<1> QED BY <1>1, <1>2 DEF EncodeEnd, SendIfDue, VideoSent, VideoOut

\* The frame at hand is later than all frames relayed.
LEMMA VideoSentOrder ==
    ASSUME Clean, Line, InCall, VideoSent, UNCHANGED <<sess, gotV>>
    PROVE  VideoInOrder' /\ SentIds' = SentIds \cup {frame}
<1>1. PICK out \in SentVideo :
          /\ sentV' = Append(sentV, out)
          /\ out.id = frame /\ out.sess = sess
  BY DEF VideoSent
<1>2. \A i \in 1 .. Len(sentV) : sentV[i].id < frame
  BY DEF Line, FrameAtHand, SentIds, VideoSent
<1>3. frame <= gotV
  BY LineTypes DEF Line, FrameAtHand
<1>4. VideoInOrder'
  <2>1. /\ \A i, j \in 1 .. Len(sentV') : i < j => sentV'[i].id < sentV'[j].id
        /\ \A i \in 1 .. Len(sentV') : sentV'[i].sess = sess /\ sentV'[i].id <= gotV
    BY <1>1, <1>2, <1>3, LineTypes, OrderAppend DEF Line, VideoInOrder
  <2> QED BY <2>1 DEF VideoInOrder
<1>5. SentIds' = SentIds \cup {frame}
  <2>1. sentV \in Seq(SentVideo)
    BY LineTypes
  <2>2. {Append(sentV, out)[i].id : i \in 1 .. Len(Append(sentV, out))} =
            {sentV[i].id : i \in 1 .. Len(sentV)} \cup {out.id}
    BY <2>1, SentAppend
  <2> QED BY <1>1, <2>2 DEF SentIds
<1> QED BY <1>4, <1>5

\* Nor does a step that moves no frame.
LEMMA LineUnmoved ==
    ASSUME Clean, Line,
           UNCHANGED <<inCodec, Rest, sentV, sentA, frame, hasSent, sess, enableCodec>>,
           gotV' \in {gotV, gotV + 1},
           qpc' \in {"none", "release0"} => qpc = qpc' \/ inCodec' = <<>>,
           qpc' = "encode" => qpc = "encode", InCall' => InCall
    PROVE  Line'
<1>1. Ahead' \subseteq Ahead
  BY DEF Ahead
<1>2. gotV' \in Nat /\ gotV <= gotV'
  BY LineTypes
<1>3. /\ Increasing(inCodec)' /\ Increasing(Rest)'
      /\ \A n \in Frames(inCodec'), m \in Frames(Rest') : n < m
  BY DEF Line, OneLine, Increasing
<1>4. qpc' \in {"none", "release0"} \/ ~enableCodec => inCodec' = <<>>
  BY DEF Line, OneLine
<1> QED BY <1>1, <1>2, <1>3, <1>4, LineKept

\* The packet received is the last one the queue thread will look at.
LEMMA PacketQueued ==
    ASSUME Clean, ReceiveVideo
    PROVE  /\ Rest' = Append(Rest, gotV + 1)
           /\ Frames(Rest') = Frames(Rest) \cup {gotV + 1}
<1>1. /\ videoQ' = Append(videoQ, gotV + 1) /\ videoQ \in Seq(Nat)
      /\ gotV + 1 \in Nat /\ InWork' = InWork
  BY LineTypes DEF ReceiveVideo, InWork
<1>2. Rest' = Append(Rest, gotV + 1)
  <2>1. CASE InWork
    <3>1. videoQ # <<>>
      BY <2>1, LineTypes
    <3> QED BY <1>1, <2>1, <3>1, TailOfAppend DEF Rest
  <2>2. CASE ~InWork
    BY <1>1, <2>2 DEF Rest
  <2> QED BY <2>1, <2>2
<1> QED BY <1>1, <1>2, LineTypes, FramesAppend

\* Every step keeps the line of frames and the order of those relayed.
LEMMA LineStep == Clean /\ Line /\ [Next]_vars => Line'
<1> SUFFICES ASSUME Clean, Line, [Next]_vars PROVE Line'
  OBVIOUS
<1> USE DEF Clean, Types
<1>1. CASE BeginPublish
  BY <1>1, LineUnmoved DEF BeginPublish, Rest, InWork, InCall
<1>2. CASE BeginJoined
  BY <1>2, LineUnmoved DEF BeginJoined, Rest, InWork, InCall, Leftovers
<1>3. CASE BeginStart
  <2>1. /\ inCodec' = <<>> /\ Rest' = <<>> /\ ~InCall' /\ qpc' = "release0"
        /\ sentV' = <<>> /\ sentA' = <<>>
    BY <1>3 DEF BeginStart, OneThreadPerSession, Leftovers, Line, OneLine, Rest,
                InWork, InCall
  <2>2. SentIds' = {} /\ Calls' = {} /\ VideoInOrder'
    BY <2>1 DEF SentIds, Calls, VideoInOrder
  <2>3. OneLine' /\ FrameAtHand'
    BY <2>1, <2>2, NoFrames DEF OneLine, FrameAtHand, Ahead
  <2> QED BY <2>2, <2>3 DEF Line
<1>4. CASE ExitCallback
  BY <1>4, LineUnmoved DEF ExitCallback, Rest, InWork, InCall
<1>5. CASE ExitJoined
  BY <1>5, LineUnmoved DEF ExitJoined, Rest, InWork, InCall, Leftovers
<1>6. CASE RefuseVideo
  BY <1>6, LineUnmoved DEF RefuseVideo, Rest, InWork, InCall
<1>7. CASE ReceiveVideo
  <2>1. Rest' = Append(Rest, gotV + 1)
    BY <1>7, PacketQueued
  <2>2. \A n \in Frames(Rest) : n < gotV + 1
    BY LineTypes DEF Line, OneLine, Ahead
  <2>3. Frames(Rest') = Frames(Rest) \cup {gotV + 1} /\ Increasing(Rest')
    BY <2>1, <2>2, LineTypes, FramesAppend DEF Line, OneLine
  <2>4. /\ Ahead' = Ahead \cup {gotV + 1} /\ gotV' = gotV + 1 /\ inCodec' = inCodec
        /\ SentIds' = SentIds /\ Calls' = Calls
        /\ InCall' <=> InCall
    BY <1>7, <2>3 DEF ReceiveVideo, Ahead, SentIds, Calls, InCall
  <2>5. \A n \in SentIds \cup Calls : n <= gotV
    BY DEF Line, OneLine, VideoInOrder, SentIds
  <2>6. VideoInOrder'
    <3>1. \A i \in 1 .. Len(sentV) : sentV[i].id \in Nat /\ gotV \in Nat
      BY LineTypes DEF SentIds
    <3> QED BY <1>7, <2>4, <3>1 DEF ReceiveVideo, Line, VideoInOrder
  <2>7. OneLine'
    <3>1. Increasing(inCodec') /\ Increasing(Rest')
      BY <2>3, <2>4 DEF Line, OneLine
    <3>2. \A n \in Frames(inCodec'), m \in Frames(Rest') : n < m
      BY <2>3, <2>4, LineTypes DEF Line, OneLine, Ahead
    <3>3. Ahead' \subseteq 1 .. gotV'
      <4>1. \A n \in Ahead : n \in 1 .. gotV + 1
        BY LineTypes DEF Line, OneLine
      <4> QED BY <2>4, <4>1, LineTypes
    <3>4. \A n \in SentIds' \cup Calls' : \A m \in Ahead' : n < m
      BY <2>4, <2>5, LineTypes DEF Line, OneLine
    <3>5. \A n \in Calls' : n <= gotV'
      BY <2>4, <2>5, LineTypes
    <3>6. qpc' \in {"none", "release0"} \/ ~enableCodec' => inCodec' = <<>>
      BY <1>7 DEF ReceiveVideo, Line, OneLine
    <3> QED BY <3>1, <3>2, <3>3, <3>4, <3>5, <3>6 DEF OneLine
  <2>8. FrameAtHand'
    <3>1. frame' = frame /\ qpc' = qpc /\ hasSent' = hasSent
      BY <1>7 DEF ReceiveVideo
    <3>2. qpc = "encode" \/ InCall => /\ frame \in 1 .. gotV'
                                      /\ \A m \in Ahead' : frame < m
      BY <2>4, LineTypes DEF Line, FrameAtHand
    <3> QED BY <2>4, <3>1, <3>2 DEF Line, FrameAtHand
  <2> QED BY <2>6, <2>7, <2>8 DEF Line
<1>8. CASE ReceiveAudio
  BY <1>8, LineUnmoved DEF ReceiveAudio, Rest, InWork, InCall
<1>9. CASE ReleaseOldCodecs
  <2>1. inCodec' = <<>> /\ Rest' = Rest /\ ~InCall' /\ qpc' = "create"
    BY <1>9 DEF ReleaseOldCodecs, Rest, InWork, InCall
  <2>2. Ahead' \subseteq Ahead
    BY <2>1, NoFrames DEF Ahead
  <2> QED BY <1>9, <2>1, <2>2, NoFrames, LineTypes, LineKept
          DEF ReleaseOldCodecs, Line, OneLine
<1>10. CASE CreateCodecs
  BY <1>10, LineUnmoved DEF CreateCodecs, Rest, InWork, InCall
<1>11. CASE TakeVideo
  <2> DEFINE h == Head(videoQ)
  <2>1. /\ Rest = videoQ /\ Rest' = Tail(videoQ) /\ videoQ # <<>>
        /\ h \in Nat /\ Tail(videoQ) \in Seq(Nat)
    BY <1>11, LineTypes, SequenceFacts DEF TakeVideo, Rest, InWork
  <2>2. /\ Frames(Rest) = {h} \cup Frames(Rest')
        /\ Increasing(Rest') /\ \A n \in Frames(Rest') : h < n
    BY <2>1, LineTypes, FramesTail DEF Line, OneLine
  <2>3. UNCHANGED <<sentV, sentA, hasSent, sess, gotV, enableCodec>> /\ ~InCall'
    BY <1>11 DEF TakeVideo, InCall
  <2>4. CASE enableCodec /\ decoder
    <3>1. inCodec' = Append(inCodec, h) /\ qpc' = "decode" /\ frame' = frame
      BY <1>11, <2>4 DEF TakeVideo
    <3>2. /\ Frames(inCodec') = Frames(inCodec) \cup {h}
          /\ Increasing(inCodec')
      BY <2>1, <2>2, <3>1, LineTypes, FramesAppend DEF Line, OneLine
    <3>3. \A n \in Frames(inCodec'), m \in Frames(Rest') : n < m
      BY <2>2, <3>2 DEF Line, OneLine
    <3>4. Ahead' \subseteq Ahead
      BY <2>2, <3>2 DEF Ahead
    <3> QED BY <2>2, <2>3, <2>4, <3>1, <3>2, <3>3, <3>4, LineTypes, LineKept
  <2>5. CASE enableCodec /\ ~decoder
    <3>1. inCodec' = inCodec /\ qpc' = "decode" /\ frame' = frame
      BY <1>11, <2>5 DEF TakeVideo
    <3>2. Ahead' \subseteq Ahead
      BY <2>2, <3>1 DEF Ahead
    <3> QED BY <2>2, <2>3, <2>5, <3>1, <3>2, LineTypes, LineKept DEF Line, OneLine
  <2>6. CASE ~enableCodec
    <3>1. inCodec' = <<>> /\ inCodec = <<>> /\ qpc' = "encode" /\ frame' = h
      BY <1>11, <2>6 DEF TakeVideo, Line, OneLine
    <3>2. Ahead = {h} \cup Ahead' /\ \A m \in Ahead' : h < m
      BY <2>2, <3>1, NoFrames DEF Ahead
    <3> HIDE DEF h
    <3>3. /\ SentIds' = SentIds /\ Calls' = Calls
          /\ \A n \in SentIds \cup Calls : n < h
          /\ h \in 1 .. gotV
      BY <2>3, <3>2 DEF SentIds, Calls, Line, OneLine
    <3>4. VideoInOrder'
      BY <2>3 DEF Line, VideoInOrder
    <3>5. OneLine'
      BY <2>2, <2>3, <3>1, <3>2, <3>3, NoFrames DEF Line, OneLine
    <3>6. FrameAtHand'
      BY <2>3, <3>1, <3>2, <3>3 DEF FrameAtHand
    <3> QED BY <3>4, <3>5, <3>6 DEF Line
  <2> QED BY <2>4, <2>5, <2>6
<1>12. CASE FrameEncoded
  <2> DEFINE h == Head(inCodec)
  <2>1. /\ Rest' = Rest /\ inCodec # <<>> /\ inCodec' = Tail(inCodec)
        /\ frame' = h /\ qpc' = "encode" /\ ~InCall'
        /\ UNCHANGED <<sentV, sentA, hasSent, sess, gotV, enableCodec>>
    BY <1>12 DEF FrameEncoded, Rest, InWork, InCall
  <2>2. /\ Frames(inCodec) = {h} \cup Frames(inCodec')
        /\ Increasing(inCodec') /\ \A n \in Frames(inCodec') : h < n
    BY <2>1, LineTypes, FramesTail DEF Line, OneLine
  <2> HIDE DEF h
  <2>3. Ahead = {h} \cup Ahead' /\ \A m \in Ahead' : h < m
    BY <2>1, <2>2 DEF Ahead, Line, OneLine
  <2>4. /\ SentIds' = SentIds /\ Calls' = Calls
        /\ \A n \in SentIds \cup Calls : n < h
        /\ h \in 1 .. gotV
    BY <2>1, <2>3 DEF SentIds, Calls, Line, OneLine
  <2>5. VideoInOrder'
    BY <2>1 DEF Line, VideoInOrder
  <2>6. OneLine'
    BY <2>1, <2>2, <2>3, <2>4 DEF Line, OneLine
  <2>7. FrameAtHand'
    BY <2>1, <2>3, <2>4 DEF FrameAtHand
  <2> QED BY <2>5, <2>6, <2>7 DEF Line
<1>13. CASE FrameLost
  <2>1. /\ Rest' = Rest /\ inCodec # <<>> /\ inCodec' = Tail(inCodec)
        /\ qpc' = "decode" /\ ~InCall'
    BY <1>13 DEF FrameLost, Rest, InWork, InCall
  <2>2. Frames(inCodec') \subseteq Frames(inCodec) /\ Increasing(inCodec')
    BY <2>1, LineTypes, FramesTail DEF Line, OneLine
  <2>3. Ahead' \subseteq Ahead
    BY <2>1, <2>2 DEF Ahead
  <2> QED BY <1>13, <2>1, <2>2, <2>3, LineTypes, LineKept DEF FrameLost, Line, OneLine
<1>14. CASE DecodeReturns
  BY <1>14, LineUnmoved DEF DecodeReturns, Rest, InWork, InCall
<1>15. CASE EncodeStart
  <2>1. /\ Rest' = Rest /\ inCodec' = inCodec /\ InCall' /\ qpc' = "audio"
        /\ ~hasSent' /\ frame' = frame /\ qpc = "encode"
        /\ UNCHANGED <<sentV, sentA, sess, gotV, enableCodec>>
    BY <1>15 DEF EncodeStart, Rest, InWork, InCall
  <2>2. Ahead' = Ahead /\ SentIds' = SentIds /\ Calls' = Calls
    BY <2>1 DEF Ahead, SentIds, Calls
  <2>3. VideoInOrder'
    BY <2>1 DEF Line, VideoInOrder
  <2>4. OneLine'
    BY <2>1, <2>2 DEF Line, OneLine
  <2>5. FrameAtHand'
    BY <2>1, <2>2, LineTypes DEF Line, FrameAtHand
  <2> QED BY <2>3, <2>4, <2>5 DEF Line
<1>16. CASE SendAudio
  <2>1. /\ Rest' = Rest /\ inCodec' = inCodec /\ InCall /\ InCall' /\ qpc' = "popAudio"
        /\ UNCHANGED <<sess, gotV, frame, enableCodec>>
    BY <1>16 DEF SendAudio, Rest, InWork, InCall
  <2>2. Ahead' = Ahead
    BY <2>1 DEF Ahead
  <2>3. Calls' = Calls \cup {frame}
    <3>1. PICK out \in SentAudio : sentA' = Append(sentA, out) /\ out.call = frame
      BY <1>16, SendAudioFacts
    <3>2. {Append(sentA, out)[i].call : i \in 1 .. Len(Append(sentA, out))} =
              {sentA[i].call : i \in 1 .. Len(sentA)} \cup {out.call}
      <4>1. sentA \in Seq(SentAudio)
        BY LineTypes
      <4> QED BY <4>1, SentAppend
    <3> QED BY <3>1, <3>2 DEF Calls
  <2>4. /\ VideoInOrder'
        /\ \/ SentIds' = SentIds \cup {frame} /\ hasSent'
           \/ SentIds' = SentIds /\ hasSent' = hasSent
    <3>1. CASE VideoSent /\ hasSent'
      BY <2>1, <3>1, VideoSentOrder
    <3>2. CASE sentV' = sentV /\ hasSent' = hasSent
      BY <2>1, <3>2 DEF Line, VideoInOrder, SentIds
    <3> QED BY <1>16, <3>1, <3>2, SendAudioFacts
  <2>5. OneLine'
    <3>1. SentIds' \cup Calls' \subseteq SentIds \cup Calls \cup {frame}
      BY <2>3, <2>4
    <3>2. frame \in 1 .. gotV /\ \A m \in Ahead : frame < m
      BY <2>1 DEF Line, FrameAtHand
    <3> QED BY <2>1, <2>2, <2>3, <3>1, <3>2 DEF Line, OneLine
  <2>6. FrameAtHand'
    BY <2>1, <2>2, <2>3, <2>4, LineTypes DEF Line, FrameAtHand
  <2> QED BY <2>4, <2>5, <2>6 DEF Line
<1>17. CASE PopAudio
  BY <1>17, LineUnmoved DEF PopAudio, Rest, InWork, InCall
<1>18. CASE AudioLoopEnds
  BY <1>18, LineUnmoved DEF AudioLoopEnds, Rest, InWork, InCall
<1>19. CASE EncodeEnd
  <2>1. /\ Rest' = Rest /\ inCodec' = inCodec /\ InCall /\ ~InCall'
        /\ qpc' \in {"decode", "pop"}
        /\ UNCHANGED <<sess, gotV, frame, sentA, enableCodec>>
    BY <1>19 DEF EncodeEnd, Rest, InWork, InCall
  <2>2. Ahead' = Ahead /\ Calls' = Calls
    BY <2>1 DEF Ahead, Calls
  <2>3. VideoInOrder' /\ SentIds' \subseteq SentIds \cup {frame}
    <3>1. CASE VideoSent
      BY <2>1, <3>1, VideoSentOrder
    <3>2. CASE sentV' = sentV
      BY <2>1, <3>2 DEF Line, VideoInOrder, SentIds
    <3> QED BY <1>19, <3>1, <3>2, EncodeEndFacts
  <2>4. frame \in 1 .. gotV /\ \A m \in Ahead : frame < m
    BY <2>1 DEF Line, FrameAtHand
  <2>5. OneLine'
    BY <2>1, <2>2, <2>3, <2>4 DEF Line, OneLine
  <2>6. FrameAtHand'
    BY <2>1 DEF FrameAtHand
  <2> QED BY <2>3, <2>5, <2>6 DEF Line
<1>20. CASE PopVideo
  BY <1>20, LineUnmoved DEF PopVideo, Rest, InWork, InCall
<1>21. CASE StopLoop
  <2>1. inCodec' = <<>> /\ Rest' = Rest /\ ~InCall' /\ qpc' = "clean"
    BY <1>21 DEF StopLoop, Rest, InWork, InCall
  <2>2. Ahead' \subseteq Ahead
    BY <2>1, NoFrames DEF Ahead
  <2> QED BY <1>21, <2>1, <2>2, NoFrames, LineTypes, LineKept
          DEF StopLoop, Line, OneLine
<1>22. CASE cleanQueue
  <2>1. inCodec' = <<>> /\ Rest' = <<>> /\ ~InCall' /\ qpc' = "done"
    BY <1>22 DEF cleanQueue, Rest, InWork, InCall, Leftovers
  <2>2. Ahead' \subseteq Ahead
    BY <2>1, NoFrames DEF Ahead
  <2> QED BY <1>22, <2>1, <2>2, NoFrames, LineTypes, LineKept DEF cleanQueue
<1>23. CASE UNCHANGED vars
  BY <1>23, LineUnmoved DEF Rest, InWork, InCall, Line, OneLine
<1> QED
  BY <1>1, <1>2, <1>3, <1>4, <1>5, <1>6, <1>7, <1>8, <1>9, <1>10,
     <1>11, <1>12, <1>13, <1>14, <1>15, <1>16, <1>17, <1>18, <1>19,
     <1>20, <1>21, <1>22, <1>23
  DEF Next, RtmpThread, QueueThread, Codec, encodeFunc

\* Frames stand in one line always.
LEMMA LineInvariant == Spec => []Line
<1>1. Init => Line
  <2> SUFFICES ASSUME Init PROVE Line
    OBVIOUS
  <2>1. /\ inCodec = <<>> /\ Rest = <<>> /\ ~InCall /\ qpc = "none"
        /\ sentV = <<>> /\ sentA = <<>>
    BY DEF Init, Rest, InWork, InCall
  <2>2. SentIds = {} /\ Calls = {} /\ VideoInOrder
    BY <2>1 DEF SentIds, Calls, VideoInOrder
  <2>3. OneLine /\ FrameAtHand
    BY <2>1, <2>2, NoFrames DEF OneLine, FrameAtHand, Ahead
  <2> QED BY <2>2, <2>3 DEF Line
<1>2. Clean /\ Line /\ [Next]_vars => Line'
  BY LineStep
<1> QED BY <1>1, <1>2, CleanInvariant, PTL DEF Spec

-----------------------------------------------------------------------------
(* No frame is lost unseen *)

\* Only packets of the session are refused or given up.
Accounts == FramesAccounted /\ refused \cup givenUp \subseteq 1 .. gotV

\* A step that moves no frame keeps the account.
LEMMA AccountsKept ==
    ASSUME Accounts,
           UNCHANGED <<SentIds, UnderWay, gotV, refused, givenUp>>,
           qpc' \in Serving => qpc \in Serving
    PROVE  Accounts'
  BY DEF Accounts, FramesAccounted

\* When the first frame under way is given up, it is under way no more.
LEMMA FrameGivenUp ==
    ASSUME Clean, Line, Accounts, NEW h \in Ahead, h \notin UnderWay', h \notin SentIds,
           UnderWay = {h} \cup UnderWay', givenUp' = givenUp \cup {h},
           UNCHANGED <<SentIds, gotV, refused>>, qpc \in Serving
    PROVE  Accounts'
<1>1. h \in 1 .. gotV
  BY DEF Line, OneLine
<1>2. SentIds \cup UnderWay = (1 .. gotV) \ (refused \cup givenUp)
  BY DEF Accounts, FramesAccounted
<1>3. SentIds' \cup UnderWay' = (1 .. gotV') \ (refused' \cup givenUp')
  BY <1>2
<1> QED BY <1>1, <1>3 DEF Accounts, FramesAccounted

\* The frame sent was at hand.
LEMMA FrameLeaves ==
    ASSUME Clean, Line, Accounts, InCall, VideoSent,
           UNCHANGED <<sess, gotV, refused, givenUp, Rest, inCodec>>, AtHand' = {}
    PROVE  Accounts'
<1>1. SentIds' = SentIds \cup {frame} /\ AtHand = {frame}
  BY VideoSentOrder DEF AtHand, VideoSent
<1>2. SentIds' \cup UnderWay' = SentIds \cup UnderWay
  BY <1>1 DEF UnderWay
<1>3. qpc \in Serving
  BY DEF InCall, Serving
<1> QED BY <1>2, <1>3 DEF Accounts, FramesAccounted

\* Every step keeps the account of the frames.
LEMMA AccountsStep == Clean /\ Line /\ Accounts /\ [Next]_vars => Accounts'
<1> SUFFICES ASSUME Clean, Line, Accounts, [Next]_vars PROVE Accounts'
  OBVIOUS
<1> USE DEF Clean, Types
<1>1. CASE BeginPublish
  BY <1>1, AccountsKept DEF BeginPublish, UnderWay, AtHand, SentIds, Rest, InWork, InCall, Serving
<1>2. CASE BeginJoined
  BY <1>2, AccountsKept DEF BeginJoined, UnderWay, AtHand, SentIds, Rest, InWork, InCall, Serving
<1>3. CASE BeginStart
  <2>1. /\ inCodec = <<>> /\ Rest' = <<>> /\ qpc' = "release0" /\ inCodec' = inCodec
        /\ sentV' = <<>> /\ gotV' = 0 /\ refused' = {} /\ givenUp' = {}
    BY <1>3 DEF BeginStart, OneThreadPerSession, Leftovers, Line, OneLine, Rest, InWork
  <2>2. SentIds' = {} /\ UnderWay' = {}
    BY <2>1, NoFrames DEF SentIds, UnderWay, AtHand, InCall
  <2> QED BY <2>1, <2>2 DEF Accounts, FramesAccounted
<1>4. CASE ExitCallback
  BY <1>4, AccountsKept DEF ExitCallback, UnderWay, AtHand, SentIds, Rest, InWork, InCall, Serving
<1>5. CASE ExitJoined
  BY <1>5, AccountsKept DEF ExitJoined, UnderWay, AtHand, SentIds, Rest, InWork, InCall, Serving
<1>6. CASE RefuseVideo
  <2>1. /\ UNCHANGED <<SentIds, UnderWay, givenUp, qpc>>
        /\ gotV' = gotV + 1 /\ refused' = refused \cup {gotV + 1}
    BY <1>6 DEF RefuseVideo, SentIds, UnderWay, AtHand, Rest, InWork, InCall
  <2>2. gotV \in Nat
    BY LineTypes
  <2> QED BY <2>1, <2>2 DEF Accounts, FramesAccounted
<1>7. CASE ReceiveVideo
  <2>1. /\ UNCHANGED <<SentIds, AtHand, inCodec, givenUp, refused, qpc>>
        /\ gotV' = gotV + 1
    BY <1>7 DEF ReceiveVideo, SentIds, AtHand, InCall
  <2>2. gotV \in Nat /\ Frames(Rest') = Frames(Rest) \cup {gotV + 1}
    BY <1>7, LineTypes, PacketQueued
  <2>3. UnderWay' = UnderWay \cup {gotV + 1}
    BY <2>1, <2>2 DEF UnderWay
  <2>4. (1 .. gotV + 1) = (1 .. gotV) \cup {gotV + 1} /\ gotV + 1 \notin 1 .. gotV
    BY <2>2
  <2> QED BY <2>1, <2>3, <2>4 DEF Accounts, FramesAccounted
<1>8. CASE ReceiveAudio
  BY <1>8, AccountsKept DEF ReceiveAudio, UnderWay, AtHand, SentIds, Rest, InWork, InCall, Serving
<1>9. CASE ReleaseOldCodecs
  <2>1. inCodec = <<>> /\ inCodec' = <<>>
    BY <1>9 DEF ReleaseOldCodecs, Line, OneLine
  <2> QED BY <1>9, <2>1, AccountsKept
          DEF ReleaseOldCodecs, UnderWay, AtHand, SentIds, Rest, InWork, InCall, Serving
<1>10. CASE CreateCodecs
  BY <1>10, AccountsKept DEF CreateCodecs, UnderWay, AtHand, SentIds, Rest, InWork, InCall, Serving
<1>11. CASE TakeVideo
  <2> DEFINE h == Head(videoQ)
  <2>1. /\ Rest = videoQ /\ Rest' = Tail(videoQ) /\ videoQ # <<>>
        /\ h \in Nat /\ qpc = "loop" /\ AtHand = {}
        /\ UNCHANGED <<SentIds, gotV, refused>>
    BY <1>11, LineTypes, SequenceFacts
    DEF TakeVideo, Rest, InWork, AtHand, InCall, SentIds
  <2>2. /\ Frames(Rest) = {h} \cup Frames(Rest')
        /\ \A n \in Frames(Rest') : h < n
    BY <2>1, LineTypes, FramesTail DEF Line, OneLine
  <2>3. h \in Ahead /\ qpc \in Serving
    BY <2>1, <2>2 DEF Ahead, Serving
  <2>4. CASE enableCodec /\ decoder
    <3>1. inCodec' = Append(inCodec, h) /\ AtHand' = {} /\ givenUp' = givenUp
      BY <1>11, <2>4 DEF TakeVideo, AtHand, InCall
    <3>2. Frames(inCodec') = Frames(inCodec) \cup {h}
      BY <2>1, <3>1, LineTypes, FramesAppend
    <3>3. UnderWay' = UnderWay
      BY <2>1, <2>2, <3>1, <3>2 DEF UnderWay
    <3> QED BY <2>1, <2>3, <3>1, <3>3, AccountsKept
  <2>5. CASE enableCodec /\ ~decoder
    <3>1. inCodec' = inCodec /\ AtHand' = {} /\ givenUp' = givenUp \cup {h}
      BY <1>11, <2>5 DEF TakeVideo, AtHand, InCall
    <3> HIDE DEF h
    <3>2. UnderWay = {h} \cup UnderWay'
      BY <2>1, <2>2, <3>1 DEF UnderWay
    <3>3. h \notin UnderWay' /\ h \notin SentIds
      <4>1. \A n \in Frames(inCodec) : n < h
        BY <2>2 DEF Line, OneLine
      <4>2. \A n \in SentIds : n < h
        BY <2>3 DEF Line, OneLine
      <4>3. ~(h < h)
        BY <2>1
      <4> QED BY <2>2, <3>1, <4>1, <4>2, <4>3 DEF UnderWay
    <3> QED BY <2>1, <2>3, <3>1, <3>2, <3>3, FrameGivenUp
  <2>6. CASE ~enableCodec
    <3>1. inCodec' = inCodec /\ AtHand' = {h} /\ givenUp' = givenUp
      BY <1>11, <2>6 DEF TakeVideo, AtHand
    <3>2. UnderWay' = UnderWay
      BY <2>1, <2>2, <3>1 DEF UnderWay
    <3> QED BY <2>1, <2>3, <3>1, <3>2, AccountsKept
  <2> QED BY <2>4, <2>5, <2>6
<1>12. CASE FrameEncoded
  <2>1. /\ inCodec # <<>> /\ inCodec' = Tail(inCodec) /\ qpc = "decode"
        /\ AtHand = {} /\ AtHand' = {Head(inCodec)}
        /\ UNCHANGED <<Rest, SentIds, gotV, refused, givenUp>>
    BY <1>12 DEF FrameEncoded, Rest, InWork, AtHand, InCall, SentIds
  <2>2. Frames(inCodec) = {Head(inCodec)} \cup Frames(inCodec')
    BY <2>1, LineTypes, FramesTail
  <2>3. UnderWay' = UnderWay
    BY <2>1, <2>2 DEF UnderWay
  <2> QED BY <2>1, <2>3, AccountsKept DEF Serving
<1>13. CASE FrameLost
  <2> DEFINE h == Head(inCodec)
  <2>1. /\ inCodec # <<>> /\ inCodec' = Tail(inCodec) /\ qpc = "decode"
        /\ AtHand = {} /\ AtHand' = {} /\ givenUp' = givenUp \cup {h} /\ h \in Nat
        /\ UNCHANGED <<Rest, SentIds, gotV, refused>>
    BY <1>13, LineTypes, SequenceFacts
    DEF FrameLost, Rest, InWork, AtHand, InCall, SentIds
  <2>2. /\ Frames(inCodec) = {h} \cup Frames(inCodec')
        /\ \A n \in Frames(inCodec') : h < n
    BY <2>1, LineTypes, FramesTail DEF Line, OneLine
  <2> HIDE DEF h
  <2>3. h \in Ahead /\ UnderWay = {h} \cup UnderWay'
    BY <2>1, <2>2 DEF UnderWay, Ahead
  <2>4. h \notin UnderWay' /\ h \notin SentIds
    <3>1. \A n \in Frames(Rest) : h < n
      BY <2>2 DEF Line, OneLine
    <3>2. \A n \in SentIds : n < h
      BY <2>3 DEF Line, OneLine
    <3>3. ~(h < h)
      BY <2>1
    <3> QED BY <2>1, <2>2, <3>1, <3>2, <3>3 DEF UnderWay
  <2> QED BY <2>1, <2>3, <2>4, FrameGivenUp DEF Serving
<1>14. CASE DecodeReturns
  BY <1>14, AccountsKept DEF DecodeReturns, UnderWay, AtHand, SentIds, Rest, InWork, InCall, Serving
<1>15. CASE EncodeStart
  BY <1>15, AccountsKept DEF EncodeStart, UnderWay, AtHand, SentIds, Rest, InWork, InCall, Serving
<1>16. CASE SendAudio
  <2>1. /\ InCall /\ InCall' /\ qpc \in Serving /\ qpc' = "popAudio"
        /\ UNCHANGED <<sess, gotV, refused, givenUp, Rest, inCodec, frame>>
    BY <1>16 DEF SendAudio, InCall, Serving, Rest, InWork
  <2>2. CASE VideoSent /\ hasSent'
    BY <2>1, <2>2, FrameLeaves DEF AtHand
  <2>3. CASE sentV' = sentV /\ hasSent' = hasSent
    <3>1. AtHand' = AtHand /\ SentIds' = SentIds
      BY <1>16, <2>1, <2>3 DEF SendAudio, AtHand, SentIds
    <3> QED BY <2>1, <3>1, AccountsKept DEF UnderWay
  <2> QED BY <1>16, <2>2, <2>3, SendAudioFacts
<1>17. CASE PopAudio
  BY <1>17, AccountsKept DEF PopAudio, UnderWay, AtHand, SentIds, Rest, InWork, InCall, Serving
<1>18. CASE AudioLoopEnds
  BY <1>18, AccountsKept DEF AudioLoopEnds, UnderWay, AtHand, SentIds, Rest, InWork, InCall, Serving
<1>19. CASE EncodeEnd
  <2>1. /\ InCall /\ qpc \in Serving /\ AtHand' = {}
        /\ UNCHANGED <<sess, gotV, refused, givenUp, Rest, inCodec>>
    BY <1>19 DEF EncodeEnd, InCall, Serving, Rest, InWork, AtHand
  <2>2. CASE VideoSent
    BY <2>1, <2>2, FrameLeaves
  <2>3. CASE hasSent /\ sentV' = sentV
    <3>1. AtHand = {} /\ SentIds' = SentIds
      BY <1>19, <2>3 DEF EncodeEnd, AtHand, SentIds
    <3> QED BY <2>1, <3>1, AccountsKept DEF UnderWay
  <2> QED BY <1>19, <2>2, <2>3, EncodeEndFacts
<1>20. CASE PopVideo
  BY <1>20, AccountsKept DEF PopVideo, UnderWay, AtHand, SentIds, Rest, InWork, InCall, Serving
<1>21. CASE StopLoop
  <2>1. ~(qpc' \in Serving) /\ UNCHANGED <<gotV, refused, givenUp>>
    BY <1>21 DEF StopLoop, Serving
  <2> QED BY <2>1 DEF Accounts, FramesAccounted
<1>22. CASE cleanQueue
  <2>1. ~(qpc' \in Serving) /\ UNCHANGED <<gotV, refused, givenUp>>
    BY <1>22 DEF cleanQueue, Serving
  <2> QED BY <2>1 DEF Accounts, FramesAccounted
<1>23. CASE UNCHANGED vars
  BY <1>23, AccountsKept DEF UnderWay, AtHand, SentIds, Rest, InWork, InCall
<1> QED
  BY <1>1, <1>2, <1>3, <1>4, <1>5, <1>6, <1>7, <1>8, <1>9, <1>10,
     <1>11, <1>12, <1>13, <1>14, <1>15, <1>16, <1>17, <1>18, <1>19,
     <1>20, <1>21, <1>22, <1>23
  DEF Next, RtmpThread, QueueThread, Codec, encodeFunc

\* Whatever the codec holds back, frames are relayed in the order of reception,
\* each at most once and none of another session; and while the session is served
\* every frame that was not refused, nor given up by the codec, is relayed or on
\* its way in the queue, the codec or encodeFunc.
THEOREM VideoOrder == Spec => []VideoOnceInOrder
<1>1. Init => Accounts
  BY DEF Init, Accounts, FramesAccounted, Serving
<1>2. Clean /\ Line /\ Accounts /\ [Next]_vars => Accounts'
  BY AccountsStep
<1>3. Line /\ Accounts => VideoOnceInOrder
  BY DEF Line, Accounts, VideoOnceInOrder
<1> QED BY <1>1, <1>2, <1>3, CleanInvariant, LineInvariant, PTL DEF Spec

-----------------------------------------------------------------------------
(* The place of the audio *)

Placed == CallAtHand /\ AudioAroundItsFrame

\* The audio and video relayed stay, and no call of encodeFunc begins or ends.
LEMMA PlacedKept ==
    ASSUME Placed, UNCHANGED <<sentV, sentA>>,
           InCall' <=> InCall, InCall => UNCHANGED <<frame, curTs, hasSent>>
    PROVE  Placed'
<1>1. SentIds' = SentIds
  BY DEF SentIds
<1>2. CallAtHand'
  BY <1>1 DEF Placed, CallAtHand
<1>3. AudioAroundItsFrame'
  BY <1>1 DEF Placed, AudioAroundItsFrame
<1> QED BY <1>2, <1>3 DEF Placed

\* The frame that is sent, at the end of what is relayed.
LEMMA FrameSentAt ==
    ASSUME Clean, VideoSent
    PROVE  /\ Len(sentV) \in Nat /\ Len(sentV') = Len(sentV) + 1
           /\ \A j \in 1 .. Len(sentV) : sentV'[j] = sentV[j]
           /\ sentV'[Len(sentV) + 1].id = frame
           /\ sentV'[Len(sentV) + 1].ts = curTs
           /\ SentIds' = SentIds \cup {frame}
<1>1. PICK v \in SentVideo :
          sentV' = Append(sentV, v) /\ v.id = frame /\ v.ts = curTs
  BY DEF VideoSent
<1>2. sentV \in Seq(SentVideo)
  BY LineTypes
<1>3. {Append(sentV, v)[i].id : i \in 1 .. Len(Append(sentV, v))} =
          {sentV[i].id : i \in 1 .. Len(sentV)} \cup {v.id}
  BY <1>2, SentAppend
<1>4. SentIds' = SentIds \cup {frame}
  BY <1>1, <1>3 DEF SentIds
<1> QED BY <1>1, <1>2, <1>4, AppendAt

\* The audio already sent stays around its frames when encodeFunc's frame is sent.
LEMMA SentBefore ==
    ASSUME Clean, Line, Placed, InCall, VideoSent,
           NEW i \in 1 .. Len(sentA), NEW j \in 1 .. Len(sentV')
    PROVE  /\ j <= sentA[i].after => sentV'[j].id <= sentA[i].call
           /\ j > sentA[i].after => sentV'[j].id >= sentA[i].call
           /\ sentV'[j].id = sentA[i].call =>
                 /\ sentA[i].vts <= sentV'[j].ts
                 /\ j > sentA[i].after => sentA[i].ts < sentV'[j].ts
<1>1. CASE j \in 1 .. Len(sentV)
  BY <1>1, FrameSentAt DEF Placed, AudioAroundItsFrame
<1>2. CASE j = Len(sentV) + 1
  <2>1. sentA[i].after \in Nat /\ sentA[i].after <= Len(sentV) /\ Len(sentV) \in Nat
    <3>1. sentA[i] \in SentAudio
      BY LineTypes
    <3> QED BY <3>1, FrameSentAt DEF SentAudio, Placed, AudioAroundItsFrame
  <2>2. sentA[i].call \in Nat /\ frame \in Nat /\ sentA[i].call <= frame
    BY LineTypes DEF Calls, Line, FrameAtHand
  <2>3. sentA[i].call = frame => sentA[i].vts <= curTs /\ sentA[i].ts < curTs
    BY DEF Placed, CallAtHand, VideoSent
  <2> QED BY <1>2, <2>1, <2>2, <2>3, FrameSentAt
<1> QED BY <1>1, <1>2, FrameSentAt

\* An audio packet sent keeps the placement.
LEMMA AudioSentPlaced ==
    ASSUME Clean, Line, Placed, SendAudio
    PROVE  Placed'
<1>1. PICK a \in SentAudio :
          /\ sentA' = Append(sentA, a)
          /\ a.call = frame /\ a.vts <= curTs
          /\ a.after = Len(sentV')
          /\ ~hasSent' => a.ts < curTs
  BY SendAudioFacts
<1>2. /\ Len(sentA') = Len(sentA) + 1 /\ Len(sentA) \in Nat
      /\ \A i \in 1 .. Len(sentA) : sentA'[i] = sentA[i]
      /\ sentA'[Len(sentA) + 1] = a
  BY <1>1, LineTypes, AppendAt
<1>3. ASSUME NEW i \in 1 .. Len(sentA')
      PROVE  (i \in 1 .. Len(sentA) /\ sentA'[i] = sentA[i]) \/ sentA'[i] = a
  BY <1>2
<1>4. InCall /\ InCall' /\ UNCHANGED <<frame, curTs>>
  BY DEF SendAudio, InCall
<1>5. frame \in Nat /\ Len(sentV) \in Nat /\ \A n \in SentIds : n \in Nat /\ n <= frame
  BY <1>4, LineTypes DEF Line, FrameAtHand
<1>6. CASE VideoSent /\ hasSent'
  <2> USE FrameSentAt
  <2>1. SentIds' = SentIds \cup {frame} /\ ~hasSent
    BY <1>6 DEF VideoSent
  <2>2. CallAtHand'
    <3>1. ASSUME NEW i \in 1 .. Len(sentA'), sentA'[i].call = frame
          PROVE  sentA'[i].vts <= curTs
      BY <1>1, <1>3, <1>4, <3>1 DEF Placed, CallAtHand
    <3>2. ASSUME NEW j \in 1 .. Len(sentV'), sentV'[j].id = frame
          PROVE  sentV'[j].ts = curTs
      <4>1. CASE j \in 1 .. Len(sentV)
        BY <1>4, <1>6, <3>2, <4>1 DEF Placed, CallAtHand
      <4>2. CASE j = Len(sentV) + 1
        BY <1>6, <4>2
      <4> QED BY <1>6, <4>1, <4>2
    <3> QED BY <1>4, <1>6, <2>1, <3>1, <3>2 DEF CallAtHand
  <2>3. ASSUME NEW i \in 1 .. Len(sentA'), NEW j \in 1 .. Len(sentV')
        PROVE  /\ j <= sentA'[i].after => sentV'[j].id <= sentA'[i].call
               /\ j > sentA'[i].after => sentV'[j].id >= sentA'[i].call
               /\ sentV'[j].id = sentA'[i].call =>
                     /\ sentA'[i].vts <= sentV'[j].ts
                     /\ j > sentA'[i].after => sentA'[i].ts < sentV'[j].ts
    <3>1. CASE i \in 1 .. Len(sentA) /\ sentA'[i] = sentA[i]
      BY <1>4, <1>6, <3>1, SentBefore
    <3>2. CASE sentA'[i] = a
      <4>1. ~(j > Len(sentV')) /\ j <= Len(sentV')
        BY <1>5, <1>6
      <4>2. sentV'[j].id \in SentIds'
        BY DEF SentIds
      <4>3. sentV'[j].id <= frame
        BY <1>5, <2>1, <4>2
      <4>4. sentV'[j].id = frame => sentV'[j].ts = curTs
        BY <1>4, <2>2 DEF CallAtHand
      <4> QED BY <1>1, <3>2, <4>1, <4>3, <4>4
    <3> QED BY <1>3, <3>1, <3>2
  <2>4. ASSUME NEW i \in 1 .. Len(sentA')
        PROVE  /\ sentA'[i].after <= Len(sentV')
               /\ sentA'[i].call \in SentIds' \/ (InCall' /\ sentA'[i].call = frame')
    <3>1. CASE i \in 1 .. Len(sentA) /\ sentA'[i] = sentA[i]
      <4>1. sentA[i].after \in Nat /\ sentA[i].after <= Len(sentV)
        <5>1. sentA[i] \in SentAudio
          BY <3>1, LineTypes
        <5> QED BY <3>1, <5>1 DEF SentAudio, Placed, AudioAroundItsFrame
      <4> QED BY <1>4, <1>5, <1>6, <2>1, <3>1, <4>1 DEF Placed, AudioAroundItsFrame
    <3>2. CASE sentA'[i] = a
      BY <1>1, <1>4, <1>5, <1>6, <3>2
    <3> QED BY <1>3, <3>1, <3>2
  <2> QED BY <2>2, <2>3, <2>4 DEF Placed, AudioAroundItsFrame
<1>7. CASE sentV' = sentV /\ hasSent' = hasSent
  <2>1. SentIds' = SentIds
    BY <1>7 DEF SentIds
  <2>2. CallAtHand'
    <3>1. ASSUME NEW i \in 1 .. Len(sentA'), sentA'[i].call = frame
          PROVE  sentA'[i].vts <= curTs /\ (~hasSent => sentA'[i].ts < curTs)
      BY <1>1, <1>3, <1>4, <1>7, <3>1 DEF Placed, CallAtHand
    <3> QED BY <1>4, <1>7, <2>1, <3>1 DEF Placed, CallAtHand
  <2>3. ASSUME NEW i \in 1 .. Len(sentA'), NEW j \in 1 .. Len(sentV)
        PROVE  /\ j <= sentA'[i].after => sentV[j].id <= sentA'[i].call
               /\ j > sentA'[i].after => sentV[j].id >= sentA'[i].call
               /\ sentV[j].id = sentA'[i].call =>
                     /\ sentA'[i].vts <= sentV[j].ts
                     /\ j > sentA'[i].after => sentA'[i].ts < sentV[j].ts
    <3>1. CASE i \in 1 .. Len(sentA) /\ sentA'[i] = sentA[i]
      BY <3>1 DEF Placed, AudioAroundItsFrame
    <3>2. CASE sentA'[i] = a
      <4>1. ~(j > Len(sentV')) /\ j <= Len(sentV')
        BY <1>5, <1>7
      <4>2. sentV[j].id \in SentIds
        BY DEF SentIds
      <4>3. sentV[j].id = frame => sentV[j].ts = curTs
        BY <1>4 DEF Placed, CallAtHand
      <4> QED BY <1>1, <1>5, <3>2, <4>1, <4>2, <4>3
    <3> QED BY <1>3, <3>1, <3>2
  <2>4. ASSUME NEW i \in 1 .. Len(sentA')
        PROVE  /\ sentA'[i].after <= Len(sentV)
               /\ sentA'[i].call \in SentIds \/ (InCall' /\ sentA'[i].call = frame')
    <3>1. CASE i \in 1 .. Len(sentA) /\ sentA'[i] = sentA[i]
      BY <1>4, <3>1 DEF Placed, AudioAroundItsFrame
    <3>2. CASE sentA'[i] = a
      BY <1>1, <1>4, <1>5, <1>7, <3>2
    <3> QED BY <1>3, <3>1, <3>2
  <2> QED BY <1>7, <2>1, <2>2, <2>3, <2>4 DEF Placed, AudioAroundItsFrame
<1> QED BY <1>6, <1>7, SendAudioFacts

\* So does the frame sent after the audio.
LEMMA FrameSentPlaced ==
    ASSUME Clean, Line, Placed, EncodeEnd
    PROVE  Placed'
<1>1. InCall /\ ~InCall' /\ sentA' = sentA
  BY DEF EncodeEnd, InCall
<1>2. CallAtHand'
  BY <1>1 DEF CallAtHand
<1>3. CASE hasSent /\ sentV' = sentV
  <2>1. SentIds' = SentIds /\ frame \in SentIds
    BY <1>1, <1>3 DEF SentIds, Placed, CallAtHand
  <2>2. AudioAroundItsFrame'
    BY <1>1, <1>3, <2>1 DEF Placed, AudioAroundItsFrame
  <2> QED BY <1>2, <2>2 DEF Placed
<1>4. CASE VideoSent
  <2>1. ASSUME NEW i \in 1 .. Len(sentA)
        PROVE  /\ sentA[i].after <= Len(sentV') /\ sentA[i].call \in SentIds'
    <3>1. sentA[i].after \in Nat /\ sentA[i].after <= Len(sentV)
      <4>1. sentA[i] \in SentAudio
        BY LineTypes
      <4> QED BY <4>1 DEF SentAudio, Placed, AudioAroundItsFrame
    <3>2. Len(sentV) \in Nat /\ Len(sentV') = Len(sentV) + 1
          /\ SentIds' = SentIds \cup {frame}
      BY <1>4, FrameSentAt
    <3> QED BY <3>1, <3>2 DEF Placed, AudioAroundItsFrame
  <2>2. AudioAroundItsFrame'
    BY <1>1, <1>4, <2>1, SentBefore DEF AudioAroundItsFrame
  <2> QED BY <1>2, <2>2 DEF Placed
<1> QED BY <1>3, <1>4, EncodeEndFacts

\* Every step keeps the placement of audio around its frame.
LEMMA PlacedStep == Clean /\ Line /\ Placed /\ [Next]_vars => Placed'
<1> SUFFICES ASSUME Clean, Line, Placed, [Next]_vars PROVE Placed'
  OBVIOUS
<1>1. CASE BeginPublish
  BY <1>1, PlacedKept DEF BeginPublish, InCall
<1>2. CASE BeginJoined
  BY <1>2, PlacedKept DEF BeginJoined, InCall
<1>3. CASE BeginStart
  <2>1. sentV' = <<>> /\ sentA' = <<>> /\ ~InCall'
    BY <1>3 DEF BeginStart, InCall
  <2> QED BY <2>1 DEF Placed, CallAtHand, AudioAroundItsFrame
<1>4. CASE ExitCallback
  BY <1>4, PlacedKept DEF ExitCallback, InCall
<1>5. CASE ExitJoined
  BY <1>5, PlacedKept DEF ExitJoined, InCall
<1>6. CASE RefuseVideo
  BY <1>6, PlacedKept DEF RefuseVideo, InCall
<1>7. CASE ReceiveVideo
  BY <1>7, PlacedKept DEF ReceiveVideo, InCall
<1>8. CASE ReceiveAudio
  BY <1>8, PlacedKept DEF ReceiveAudio, InCall
<1>9. CASE ReleaseOldCodecs
  BY <1>9, PlacedKept DEF ReleaseOldCodecs, InCall
<1>10. CASE CreateCodecs
  BY <1>10, PlacedKept DEF CreateCodecs, InCall
<1>11. CASE TakeVideo
  BY <1>11, PlacedKept DEF TakeVideo, InCall
<1>12. CASE FrameEncoded
  BY <1>12, PlacedKept DEF FrameEncoded, InCall
<1>13. CASE FrameLost
  BY <1>13, PlacedKept DEF FrameLost, InCall
<1>14. CASE DecodeReturns
  BY <1>14, PlacedKept DEF DecodeReturns, InCall
<1>15. CASE EncodeStart
  <2>1. UNCHANGED <<sentV, sentA, frame>> /\ qpc = "encode"
    BY <1>15 DEF EncodeStart
  <2>2. /\ \A i \in 1 .. Len(sentA) : sentA[i].call # frame
        /\ \A j \in 1 .. Len(sentV) : sentV[j].id # frame
    <3>1. frame \in Nat /\ ~(frame < frame)
      BY LineTypes
    <3>2. \A n \in SentIds \cup Calls : n < frame
      BY <2>1 DEF Line, FrameAtHand
    <3> QED BY <3>1, <3>2 DEF SentIds, Calls
  <2>3. CallAtHand' /\ SentIds' = SentIds /\ ~InCall
    BY <1>15, <2>1, <2>2 DEF EncodeStart, CallAtHand, SentIds, InCall
  <2>4. AudioAroundItsFrame'
    BY <2>1, <2>3 DEF Placed, AudioAroundItsFrame
  <2> QED BY <2>3, <2>4 DEF Placed
<1>16. CASE SendAudio
  BY <1>16, AudioSentPlaced
<1>17. CASE PopAudio
  BY <1>17, PlacedKept DEF PopAudio, InCall
<1>18. CASE AudioLoopEnds
  BY <1>18, PlacedKept DEF AudioLoopEnds, InCall
<1>19. CASE EncodeEnd
  BY <1>19, FrameSentPlaced
<1>20. CASE PopVideo
  BY <1>20, PlacedKept DEF PopVideo, InCall
<1>21. CASE StopLoop
  BY <1>21, PlacedKept DEF StopLoop, InCall
<1>22. CASE cleanQueue
  BY <1>22, PlacedKept DEF cleanQueue, InCall
<1>23. CASE UNCHANGED vars
  BY <1>23, PlacedKept DEF InCall
<1> QED
  BY <1>1, <1>2, <1>3, <1>4, <1>5, <1>6, <1>7, <1>8, <1>9, <1>10,
     <1>11, <1>12, <1>13, <1>14, <1>15, <1>16, <1>17, <1>18, <1>19,
     <1>20, <1>21, <1>22, <1>23
  DEF Next, RtmpThread, QueueThread, Codec, encodeFunc

\* The audio a call of encodeFunc sends stands upstream around the frame of that
\* call, which goes out too: after no later frame and before no earlier one,
\* before it only what is older, and nothing that is bound to a later timestamp.
THEOREM AudioPlaced == Spec => []AudioAroundItsFrame
<1>1. Init => Placed
  BY DEF Init, Placed, CallAtHand, AudioAroundItsFrame, InCall
<1>2. Clean /\ Line /\ Placed /\ [Next]_vars => Placed'
  BY PlacedStep
<1>3. Placed => AudioAroundItsFrame
  BY DEF Placed
<1> QED BY <1>1, <1>2, <1>3, CleanInvariant, LineInvariant, PTL DEF Spec

-----------------------------------------------------------------------------
(* The pace of the clock *)

\* The frame sent has the timestamp of the clock.
LEMMA VideoSentClock ==
    ASSUME Clean, NEW lo, NEW hi, ClockAt(lo, hi), InCall, VideoSent
    PROVE  /\ sentV' # <<>> /\ sentV'[1].ts = 0
           /\ \A i \in 1 .. Len(sentV') - 1 :
                  OneOn(sentV'[i].ts, sentV'[i + 1].ts, lo, hi)
           /\ curTs = sentV'[Len(sentV')].ts
<1>1. PICK v \in SentVideo : sentV' = Append(sentV, v) /\ v.ts = curTs
  BY DEF VideoSent
<1>2. /\ Len(sentV') = Len(sentV) + 1 /\ Len(sentV) \in Nat
      /\ \A i \in 1 .. Len(sentV) : sentV'[i] = sentV[i]
      /\ sentV'[Len(sentV) + 1] = v
      /\ sentV' # <<>> /\ (sentV = <<>> <=> Len(sentV) = 0)
  <2>1. sentV \in Seq(SentVideo)
    BY LineTypes
  <2>2. sentV = <<>> <=> Len(sentV) = 0
    BY <2>1
  <2> QED BY <1>1, <2>1, <2>2, AppendAt, SequenceFacts
<1>3. IF sentV = <<>> THEN curTs = 0 ELSE OneOn(sentV[Len(sentV)].ts, curTs, lo, hi)
  BY DEF VideoSent, ClockAt
<1>4. sentV'[1].ts = 0
  <2>1. CASE sentV = <<>>
    BY <1>1, <1>2, <1>3, <2>1
  <2>2. CASE sentV # <<>>
    BY <1>2, <2>2 DEF ClockAt
  <2> QED BY <2>1, <2>2
<1>5. ASSUME NEW i \in 1 .. Len(sentV') - 1
      PROVE  OneOn(sentV'[i].ts, sentV'[i + 1].ts, lo, hi)
  <2>1. CASE i \in 1 .. Len(sentV) - 1
    <3>1. i \in 1 .. Len(sentV) /\ i + 1 \in 1 .. Len(sentV)
      BY <1>2, <2>1
    <3> QED BY <1>2, <2>1, <3>1 DEF ClockAt
  <2>2. CASE i = Len(sentV)
    <3>1. sentV # <<>> /\ i \in 1 .. Len(sentV)
      BY <1>2, <2>2
    <3> QED BY <1>1, <1>2, <1>3, <2>2, <3>1
  <2> QED BY <1>2, <2>1, <2>2
<1> QED BY <1>1, <1>2, <1>4, <1>5

\* A step that neither moves the output clock nor relays a frame keeps it.
LEMMA ClockKept ==
    ASSUME NEW lo, NEW hi, ClockAt(lo, hi), UNCHANGED <<sentV, curTs, curAbs>>,
           InCall' <=> InCall, InCall => UNCHANGED hasSent
    PROVE  ClockAt(lo, hi)'
  BY DEF ClockAt, OneOn

\* The interval measured between two packets of the publisher.
LEMMA MeasuredInterval ==
    ASSUME Clean, NothingReceived, NEW lo \in Timestamp, NEW hi \in Timestamp,
           VideoSteps \subseteq lo .. hi, NEW unit \in lo .. hi,
           Measured(lo, hi), refused = {}, NEW ts \in NextVideoTs
    PROVE  MeasuredUnit(ts, unit) \in lo .. hi
<1> USE DEF Clean, Types, TypeOK, RtmpTypeOK, ClockTypeOK
<1>1. orgTs = pubTs /\ pubTs \in Timestamp
  BY DEF NothingReceived
<1>2. CASE gotV = 0
  BY <1>1, <1>2 DEF NothingReceived, MeasuredUnit
<1>3. CASE gotV # 0
  <2>1. PICK d \in VideoSteps : ts = (pubTs + d) % TsMod
    BY <1>3 DEF NextVideoTs
  <2>2. d \in 0 .. TsMod - 1 /\ d \in lo .. hi
    BY UnitAssumption
  <2>3. ts > pubTs => ts - pubTs = d
    <3>1. ts = IF pubTs + d < TsMod THEN pubTs + d ELSE pubTs + d - TsMod
      BY <1>1, <2>1, <2>2, TsModAssumption DEF Timestamp
    <3> QED BY <1>1, <2>2, <3>1, TsModAssumption DEF Timestamp
  <2>4. fpsUnit \in lo .. hi
    BY <1>3 DEF Measured
  <2> QED BY <1>1, <2>2, <2>3, <2>4 DEF MeasuredUnit
<1> QED BY <1>2, <1>3

\* The mean of two intervals lies between them.
LEMMA MeanWithin ==
    ASSUME NEW lo \in Nat, NEW hi \in Nat, NEW a \in lo .. hi, NEW b \in lo .. hi
    PROVE  (a + b) \div 2 \in lo .. hi
  OBVIOUS

\* Every step keeps what is known before the first packet.
LEMMA ReceivedStep == Clean /\ Line /\ NothingReceived /\ [Next]_vars => NothingReceived'
<1> SUFFICES ASSUME Clean, Line, NothingReceived, [Next]_vars PROVE NothingReceived'
  OBVIOUS
<1> USE DEF Clean, Types, TypeOK, RtmpTypeOK, NothingReceived
<1>a. InCall => gotV # 0
  BY DEF Line, FrameAtHand
<1>1. CASE BeginPublish
  BY <1>1 DEF BeginPublish
<1>2. CASE BeginJoined
  BY <1>2 DEF BeginJoined
<1>3. CASE BeginStart
  BY <1>3 DEF BeginStart
<1>4. CASE ExitCallback
  BY <1>4 DEF ExitCallback
<1>5. CASE ExitJoined
  BY <1>5 DEF ExitJoined
<1>6. CASE RefuseVideo
  BY <1>6 DEF RefuseVideo
<1>7. CASE ReceiveVideo
  BY <1>7 DEF ReceiveVideo
<1>8. CASE ReceiveAudio
  BY <1>8 DEF ReceiveAudio
<1>9. CASE ReleaseOldCodecs
  BY <1>9 DEF ReleaseOldCodecs
<1>10. CASE CreateCodecs
  BY <1>10 DEF CreateCodecs
<1>11. CASE TakeVideo
  BY <1>11 DEF TakeVideo
<1>12. CASE FrameEncoded
  BY <1>12 DEF FrameEncoded
<1>13. CASE FrameLost
  BY <1>13 DEF FrameLost
<1>14. CASE DecodeReturns
  BY <1>14 DEF DecodeReturns
<1>15. CASE EncodeStart
  BY <1>15 DEF EncodeStart
<1>16. CASE SendAudio
  <2>1. gotV # 0
    BY <1>16, <1>a DEF SendAudio, InCall
  <2> QED BY <1>16, <2>1 DEF SendAudio
<1>17. CASE PopAudio
  BY <1>17 DEF PopAudio
<1>18. CASE AudioLoopEnds
  BY <1>18 DEF AudioLoopEnds
<1>19. CASE EncodeEnd
  <2>1. gotV # 0
    BY <1>19, <1>a DEF EncodeEnd, InCall
  <2> QED BY <1>19, <2>1 DEF EncodeEnd
<1>20. CASE PopVideo
  BY <1>20 DEF PopVideo
<1>21. CASE StopLoop
  BY <1>21 DEF StopLoop
<1>22. CASE cleanQueue
  BY <1>22 DEF cleanQueue
<1>23. CASE UNCHANGED vars
  BY <1>23
<1> QED
  BY <1>1, <1>2, <1>3, <1>4, <1>5, <1>6, <1>7, <1>8, <1>9, <1>10,
     <1>11, <1>12, <1>13, <1>14, <1>15, <1>16, <1>17, <1>18, <1>19,
     <1>20, <1>21, <1>22, <1>23
  DEF Next, RtmpThread, QueueThread, Codec, encodeFunc

\* Until a video packet is received nothing is measured or relayed.
LEMMA BeforeFirst ==
    ASSUME Clean, Line, NothingReceived, gotV = 0
    PROVE  \A lo, hi : Measured(lo, hi) /\ ClockAt(lo, hi)
<1>1. /\ sentV = <<>> /\ curAbs = 1 /\ ~InCall
      /\ \A i \in 1 .. Len(sentV) - 1 : FALSE
  BY LineTypes DEF NothingReceived, Line, FrameAtHand
<1> QED BY <1>1 DEF Measured, ClockAt

\* Every step keeps the pace of the clock.
LEMMA ClockStep == Clean /\ Line /\ ClockInv /\ [Next]_vars => ClockInv'
<1> SUFFICES ASSUME Clean, Line, ClockInv, [Next]_vars PROVE ClockInv'
  OBVIOUS
<1>d. NothingReceived'
  BY ReceivedStep DEF ClockInv
<1> SUFFICES ASSUME NEW lo \in VideoSteps, NEW hi \in VideoSteps,
                    Within(lo, hi)', refused' = {}
             PROVE  Measured(lo, hi)' /\ ClockAt(lo, hi)'
  BY <1>d DEF ClockInv
<1>a. lo \in Timestamp /\ hi \in Timestamp /\ lo \in Nat /\ hi \in Nat
  BY UnitAssumption, TsModAssumption DEF Timestamp
<1>b. refused = {} /\ Within(lo, hi) => Measured(lo, hi) /\ ClockAt(lo, hi)
  BY DEF ClockInv
<1>c. NothingReceived
  BY DEF ClockInv
<1>1. CASE BeginPublish
  <2>1. Measured(lo, hi) /\ ClockAt(lo, hi)
    BY <1>1, <1>b DEF BeginPublish, Within
  <2> QED BY <1>1, <2>1, ClockKept DEF BeginPublish, InCall, Measured
<1>2. CASE BeginJoined
  <2>1. Measured(lo, hi) /\ ClockAt(lo, hi)
    BY <1>2, <1>b DEF BeginJoined, Within
  <2> QED BY <1>2, <2>1, ClockKept DEF BeginJoined, InCall, Measured
<1>3. CASE BeginStart
  <2>1. gotV' = 0 /\ sentV' = <<>> /\ curAbs' = 1 /\ ~InCall'
    BY <1>3 DEF BeginStart, InCall
  <2> QED BY <2>1 DEF Measured, ClockAt
<1>4. CASE ExitCallback
  <2>1. Measured(lo, hi) /\ ClockAt(lo, hi)
    BY <1>4, <1>b DEF ExitCallback, Within
  <2> QED BY <1>4, <2>1, ClockKept DEF ExitCallback, InCall, Measured
<1>5. CASE ExitJoined
  <2>1. Measured(lo, hi) /\ ClockAt(lo, hi)
    BY <1>5, <1>b DEF ExitJoined, Within
  <2> QED BY <1>5, <2>1, ClockKept DEF ExitJoined, InCall, Measured
<1>6. CASE RefuseVideo
  BY <1>6 DEF RefuseVideo
<1>7. CASE ReceiveVideo
  <2>1. PICK ts \in NextVideoTs :
            /\ orgFpsUnit' = IF hasDataFrame = 0 /\ metaUnit > 0
                             THEN metaUnit ELSE orgFpsUnit
            /\ fpsUnit' = MeasuredUnit(ts, orgFpsUnit')
    BY <1>7 DEF ReceiveVideo
  <2>2. /\ refused = {}
        /\ UNCHANGED <<sentV, curTs, curAbs, hasSent, qpc>>
    BY <1>7 DEF ReceiveVideo
  <2>3. Measured(lo, hi) /\ ClockAt(lo, hi)
    <3>1. CASE gotV = 0
      BY <1>c, <3>1, BeforeFirst
    <3>2. CASE gotV # 0
      <4>1. hasDataFrame # 0
        BY <1>c, <2>2, <3>2 DEF NothingReceived
      <4>2. Within(lo, hi)
        BY <2>1, <4>1 DEF Within
      <4> QED BY <1>b, <2>2, <4>2
    <3> QED BY <3>1, <3>2
  <2>4. orgFpsUnit' \in lo .. hi /\ VideoSteps \subseteq lo .. hi
    BY DEF Within
  <2>5. fpsUnit' \in lo .. hi
    BY <1>a, <1>c, <2>1, <2>2, <2>3, <2>4, MeasuredInterval
  <2> QED BY <2>2, <2>3, <2>5, ClockKept DEF Measured, InCall
<1>8. CASE ReceiveAudio
  <2>1. Measured(lo, hi) /\ ClockAt(lo, hi)
    BY <1>8, <1>b DEF ReceiveAudio, Within
  <2> QED BY <1>8, <2>1, ClockKept DEF ReceiveAudio, InCall, Measured
<1>9. CASE ReleaseOldCodecs
  <2>1. Measured(lo, hi) /\ ClockAt(lo, hi)
    BY <1>9, <1>b DEF ReleaseOldCodecs, Within
  <2> QED BY <1>9, <2>1, ClockKept DEF ReleaseOldCodecs, InCall, Measured
<1>10. CASE CreateCodecs
  <2>1. Measured(lo, hi) /\ ClockAt(lo, hi)
    BY <1>10, <1>b DEF CreateCodecs, Within
  <2> QED BY <1>10, <2>1, ClockKept DEF CreateCodecs, InCall, Measured
<1>11. CASE TakeVideo
  <2>1. Measured(lo, hi) /\ ClockAt(lo, hi)
    BY <1>11, <1>b DEF TakeVideo, Within
  <2> QED BY <1>11, <2>1, ClockKept DEF TakeVideo, InCall, Measured
<1>12. CASE FrameEncoded
  <2>1. Measured(lo, hi) /\ ClockAt(lo, hi)
    BY <1>12, <1>b DEF FrameEncoded, Within
  <2> QED BY <1>12, <2>1, ClockKept DEF FrameEncoded, InCall, Measured
<1>13. CASE FrameLost
  <2>1. Measured(lo, hi) /\ ClockAt(lo, hi)
    BY <1>13, <1>b DEF FrameLost, Within
  <2> QED BY <1>13, <2>1, ClockKept DEF FrameLost, InCall, Measured
<1>14. CASE DecodeReturns
  <2>1. Measured(lo, hi) /\ ClockAt(lo, hi)
    BY <1>14, <1>b DEF DecodeReturns, Within
  <2> QED BY <1>14, <2>1, ClockKept DEF DecodeReturns, InCall, Measured
<1>15. CASE EncodeStart
  <2>1. /\ Measured(lo, hi) /\ ClockAt(lo, hi) /\ orgFpsUnit \in lo .. hi
        /\ qpc = "encode" /\ ~InCall /\ InCall' /\ ~hasSent'
        /\ curTs' = NextClock /\ UNCHANGED <<sentV, curAbs, gotV, fpsUnit>>
    BY <1>15, <1>b DEF EncodeStart, InCall, Within
  <2>2. gotV > 0
    BY <2>1, LineTypes DEF Line, FrameAtHand
  <2>3. (orgFpsUnit + fpsUnit) \div 2 \in lo .. hi
    BY <1>a, <2>1, <2>2, MeanWithin DEF Measured
  <2>4. IF sentV = <<>> THEN curTs' = 0
        ELSE OneOn(sentV[Len(sentV)].ts, curTs', lo, hi)
    <3>1. CASE sentV = <<>>
      BY <2>1, <3>1 DEF ClockAt, NextClock
    <3>2. CASE sentV # <<>>
      <4>1. curAbs = 0 /\ curTs = sentV[Len(sentV)].ts
        BY <2>1, <3>2 DEF ClockAt
      <4>2. curTs' = (curTs + (orgFpsUnit + fpsUnit) \div 2) % TsMod
        BY <2>1, <4>1 DEF NextClock
      <4> QED BY <2>3, <3>2, <4>1, <4>2 DEF OneOn
    <3> QED BY <3>1, <3>2
  <2>5. ClockAt(lo, hi)'
    BY <2>1, <2>4 DEF ClockAt, OneOn
  <2> QED BY <2>1, <2>5 DEF Measured
<1>16. CASE SendAudio
  <2>1. /\ Measured(lo, hi) /\ ClockAt(lo, hi) /\ InCall /\ InCall'
        /\ UNCHANGED <<curTs, curAbs, gotV, fpsUnit>>
    BY <1>16, <1>b DEF SendAudio, InCall, Within
  <2>2. CASE VideoSent /\ hasSent'
    <3>1. /\ sentV' # <<>> /\ sentV'[1].ts = 0
          /\ \A i \in 1 .. Len(sentV') - 1 :
                 OneOn(sentV'[i].ts, sentV'[i + 1].ts, lo, hi)
          /\ curTs = sentV'[Len(sentV')].ts
      BY <2>1, <2>2, VideoSentClock
    <3> QED BY <2>1, <2>2, <3>1 DEF Measured, ClockAt, OneOn
  <2>3. CASE sentV' = sentV /\ hasSent' = hasSent
    BY <2>1, <2>3, ClockKept DEF Measured
  <2> QED BY <1>16, <2>2, <2>3, SendAudioFacts
<1>17. CASE PopAudio
  <2>1. Measured(lo, hi) /\ ClockAt(lo, hi)
    BY <1>17, <1>b DEF PopAudio, Within
  <2> QED BY <1>17, <2>1, ClockKept DEF PopAudio, InCall, Measured
<1>18. CASE AudioLoopEnds
  <2>1. Measured(lo, hi) /\ ClockAt(lo, hi)
    BY <1>18, <1>b DEF AudioLoopEnds, Within
  <2> QED BY <1>18, <2>1, ClockKept DEF AudioLoopEnds, InCall, Measured
<1>19. CASE EncodeEnd
  <2>1. /\ Measured(lo, hi) /\ ClockAt(lo, hi) /\ InCall /\ ~InCall'
        /\ curAbs' = 0 /\ UNCHANGED <<curTs, gotV, fpsUnit>>
    BY <1>19, <1>b DEF EncodeEnd, InCall, Within
  <2>2. CASE VideoSent
    <3>1. /\ sentV' # <<>> /\ sentV'[1].ts = 0
          /\ \A i \in 1 .. Len(sentV') - 1 :
                 OneOn(sentV'[i].ts, sentV'[i + 1].ts, lo, hi)
          /\ curTs = sentV'[Len(sentV')].ts
      BY <2>1, <2>2, VideoSentClock
    <3> QED BY <2>1, <3>1 DEF Measured, ClockAt, OneOn
  <2>3. CASE hasSent /\ sentV' = sentV
    BY <2>1, <2>3 DEF Measured, ClockAt, OneOn
  <2> QED BY <1>19, <2>2, <2>3, EncodeEndFacts
<1>20. CASE PopVideo
  <2>1. Measured(lo, hi) /\ ClockAt(lo, hi)
    BY <1>20, <1>b DEF PopVideo, Within
  <2> QED BY <1>20, <2>1, ClockKept DEF PopVideo, InCall, Measured
<1>21. CASE StopLoop
  <2>1. Measured(lo, hi) /\ ClockAt(lo, hi)
    BY <1>21, <1>b DEF StopLoop, Within
  <2> QED BY <1>21, <2>1, ClockKept DEF StopLoop, InCall, Measured
<1>22. CASE cleanQueue
  <2>1. Measured(lo, hi) /\ ClockAt(lo, hi)
    BY <1>22, <1>b DEF cleanQueue, Within
  <2> QED BY <1>22, <2>1, ClockKept DEF cleanQueue, InCall, Measured
<1>23. CASE UNCHANGED vars
  <2>1. Measured(lo, hi) /\ ClockAt(lo, hi)
    BY <1>23, <1>b DEF Within
  <2> QED BY <1>23, <2>1, ClockKept DEF InCall, Measured
<1> QED
  BY <1>1, <1>2, <1>3, <1>4, <1>5, <1>6, <1>7, <1>8, <1>9, <1>10,
     <1>11, <1>12, <1>13, <1>14, <1>15, <1>16, <1>17, <1>18, <1>19,
     <1>20, <1>21, <1>22, <1>23
  DEF Next, RtmpThread, QueueThread, Codec, encodeFunc

\* When nothing was refused and lo .. hi holds the publisher's intervals and the
\* recorded one, the first frame relayed is stamped 0 and each next one lo to hi
\* later, modulo 2^32, however far the RTMP thread is ahead of the clock.
THEOREM Clock == Spec => []SteadyClock
<1>1. Init => ClockInv
  BY DEF Init, ClockInv, NothingReceived, Measured, ClockAt, InCall
<1>2. Clean /\ Line /\ ClockInv /\ [Next]_vars => ClockInv'
  BY ClockStep
<1>3. ClockInv => SteadyClock
  BY DEF ClockInv, ClockAt, OneOn, Within, SteadyClock
<1> QED BY <1>1, <1>2, <1>3, CleanInvariant, LineInvariant, PTL DEF Spec

-----------------------------------------------------------------------------
(* The contract of the relay *)

\* The serial numbers of what was relayed.
Ids(q) == [i \in 1 .. Len(q) |-> q[i].id]

\* The serial numbers of a history with one entry more.
LEMMA IdsAppend ==
    ASSUME NEW S, NEW q \in Seq(S), NEW e
    PROVE  Ids(Append(q, e)) = Append(Ids(q), e.id)
<1>1. /\ Len(Append(q, e)) = Len(q) + 1 /\ Len(q) \in Nat
      /\ \A i \in 1 .. Len(q) : Append(q, e)[i] = q[i]
      /\ Append(q, e)[Len(q) + 1] = e
  BY AppendAt
<1> DEFINE T == {q[i].id : i \in 1 .. Len(q)}
<1>2. Ids(q) \in Seq(T) /\ Len(Ids(q)) = Len(q)
  BY <1>1 DEF Ids
<1>3. /\ Len(Append(Ids(q), e.id)) = Len(q) + 1
      /\ \A i \in 1 .. Len(q) : Append(Ids(q), e.id)[i] = Ids(q)[i]
      /\ Append(Ids(q), e.id)[Len(q) + 1] = e.id
  BY <1>2, AppendAt
<1>4. /\ Append(Ids(q), e.id) =
             [i \in 1 .. Len(q) + 1 |-> Append(Ids(q), e.id)[i]]
  BY <1>1, <1>2
<1>5. ASSUME NEW i \in 1 .. Len(q) + 1
      PROVE  Append(q, e)[i].id = Append(Ids(q), e.id)[i]
  <2>1. CASE i \in 1 .. Len(q)
    BY <1>1, <1>3, <2>1 DEF Ids
  <2>2. CASE i = Len(q) + 1
    BY <1>1, <1>3, <2>2
  <2>3. i \in 1 .. Len(q) \/ i = Len(q) + 1
    BY <1>1
  <2> QED BY <2>1, <2>2, <2>3
<1> QED BY <1>1, <1>4, <1>5 DEF Ids

\* A step that receives and relays nothing, of a session that goes on.
LEMMA Stutters ==
    ASSUME UNCHANGED <<gotA, gotV, sentA, sentV>>,
           (qpc \in Serving)' = (qpc \in Serving)
    PROVE  [Contract!Next]_(Contract!cvars)
  BY DEF Contract!cvars

\* The frame relayed is received and later than all relayed before.
LEMMA FrameRelayed ==
    ASSUME Clean, Line, InCall, VideoSent
    PROVE  /\ Ids(sentV)' = Append(Ids(sentV), frame)
           /\ frame \in 1 .. gotV
           /\ \A i \in 1 .. Len(Ids(sentV)) : Ids(sentV)[i] < frame
<1>1. PICK out \in SentVideo : sentV' = Append(sentV, out) /\ out.id = frame
  BY DEF VideoSent
<1>2. sentV \in Seq(SentVideo) /\ Len(Ids(sentV)) = Len(sentV)
  BY LineTypes DEF Ids
<1>3. Ids(sentV)' = Ids(sentV')
  BY DEF Ids
<1>4. Ids(sentV') = Append(Ids(sentV), frame)
  BY <1>1, <1>2, IdsAppend
<1>5. \A i \in 1 .. Len(sentV) : sentV[i].id < frame
  BY DEF Line, FrameAtHand, SentIds, VideoSent
<1> QED BY <1>2, <1>3, <1>4, <1>5 DEF Line, FrameAtHand, Ids

\* The audio packet relayed is the next one received.
LEMMA AudioRelayed ==
    ASSUME Clean, AudioOnceInOrder, AudioOnceInOrder', SendAudio
    PROVE  Ids(sentA)' = Append(Ids(sentA), Len(Ids(sentA)) + 1) /\ Len(Ids(sentA)) < gotA
<1>1. PICK out \in SentAudio : sentA' = Append(sentA, out)
  BY SendAudioFacts
<1>2. sentA \in Seq(SentAudio) /\ Len(sentA) \in Nat /\ Len(Ids(sentA)) = Len(sentA)
  BY LineTypes DEF Ids
<1>3. out.id = Len(sentA) + 1
  <2>1. Len(sentA') = Len(sentA) + 1 /\ sentA'[Len(sentA) + 1] = out
    BY <1>1, <1>2, AppendAt
  <2> QED BY <1>2, <2>1 DEF AudioOnceInOrder
<1>4. Ids(sentA') = Append(Ids(sentA), Len(sentA) + 1)
  BY <1>1, <1>2, <1>3, IdsAppend
<1>5. Len(sentA) < gotA
  <2>1. Unsent \in Seq(Audio) /\ Unsent # <<>> /\ qpc \in Serving
    BY UnsentType DEF SendAudio, Unsent, Serving, Clean
  <2>2. Len(Unsent) \in Nat \ {0}
    BY <2>1
  <2> QED BY <1>2, <2>1, <2>2 DEF AudioOnceInOrder
<1> QED BY <1>2, <1>4, <1>5 DEF Ids

\* Every step of the relay is a step of the contract, or none.
LEMMA ContractStep ==
    Clean /\ Line /\ AudioOnceInOrder /\ AudioOnceInOrder' /\ [Next]_vars
        => [Contract!Next]_(Contract!cvars)
<1> SUFFICES ASSUME Clean, Line, AudioOnceInOrder, AudioOnceInOrder', [Next]_vars
             PROVE  [Contract!Next]_(Contract!cvars)
  OBVIOUS
<1>1. CASE BeginPublish
  BY <1>1, Stutters DEF BeginPublish, Serving
<1>2. CASE BeginJoined
  BY <1>2, Stutters DEF BeginJoined, Serving
<1>3. CASE BeginStart
  <2>1. ~(qpc \in Serving) /\ (qpc \in Serving)'
    BY <1>3 DEF BeginStart, Clean, Types, OneThreadPerSession, Serving
  <2>2. Contract!Begin
    BY <1>3, <2>1 DEF BeginStart, Contract!Begin
  <2> QED BY <2>2 DEF Contract!Next
<1>4. CASE ExitCallback
  BY <1>4, Stutters DEF ExitCallback, Serving
<1>5. CASE ExitJoined
  BY <1>5, Stutters DEF ExitJoined, Serving
<1>6. CASE RefuseVideo
  <2>1. qpc \in Serving
    BY <1>6 DEF RefuseVideo, Clean, Types, OneThreadPerSession
  <2>2. Contract!ReceiveVideo
    BY <1>6, <2>1 DEF RefuseVideo, Contract!ReceiveVideo
  <2> QED BY <2>2 DEF Contract!Next
<1>7. CASE ReceiveVideo
  <2>1. qpc \in Serving
    BY <1>7 DEF ReceiveVideo, Clean, Types, OneThreadPerSession
  <2>2. Contract!ReceiveVideo
    BY <1>7, <2>1 DEF ReceiveVideo, Contract!ReceiveVideo
  <2> QED BY <2>2 DEF Contract!Next
<1>8. CASE ReceiveAudio
  <2>1. qpc \in Serving
    BY <1>8 DEF ReceiveAudio, Clean, Types, OneThreadPerSession
  <2>2. Contract!ReceiveAudio
    BY <1>8, <2>1 DEF ReceiveAudio, Contract!ReceiveAudio
  <2> QED BY <2>2 DEF Contract!Next
<1>9. CASE ReleaseOldCodecs
  BY <1>9, Stutters DEF ReleaseOldCodecs, Serving
<1>10. CASE CreateCodecs
  BY <1>10, Stutters DEF CreateCodecs, Serving
<1>11. CASE TakeVideo
  BY <1>11, Stutters DEF TakeVideo, Serving
<1>12. CASE FrameEncoded
  BY <1>12, Stutters DEF FrameEncoded, Serving
<1>13. CASE FrameLost
  BY <1>13, Stutters DEF FrameLost, Serving
<1>14. CASE DecodeReturns
  BY <1>14, Stutters DEF DecodeReturns, Serving
<1>15. CASE EncodeStart
  BY <1>15, Stutters DEF EncodeStart, Serving
<1>16. CASE SendAudio
  <2>1. /\ InCall /\ qpc \in Serving /\ (qpc \in Serving)'
        /\ UNCHANGED <<gotA, gotV>>
    BY <1>16 DEF SendAudio, InCall, Serving
  <2>2. Contract!NextAudio
    BY <1>16, AudioRelayed DEF Contract!NextAudio, Ids
  <2>3. CASE VideoSent
    <3>1. Contract!LaterFrame
      BY <2>1, <2>3, FrameRelayed DEF Contract!LaterFrame, Ids
    <3>2. Contract!Relay
      BY <2>1, <2>2, <3>1 DEF Contract!Relay
    <3> QED BY <3>2 DEF Contract!Next
  <2>4. CASE sentV' = sentV
    <3>1. Contract!Relay
      BY <2>1, <2>2, <2>4 DEF Contract!Relay
    <3> QED BY <3>1 DEF Contract!Next
  <2> QED BY <1>16, <2>3, <2>4, SendAudioFacts
<1>17. CASE PopAudio
  BY <1>17, Stutters DEF PopAudio, Serving
<1>18. CASE AudioLoopEnds
  BY <1>18, Stutters DEF AudioLoopEnds, Serving
<1>19. CASE EncodeEnd
  <2>1. /\ InCall /\ qpc \in Serving /\ (qpc \in Serving)'
        /\ UNCHANGED <<gotA, gotV, sentA>>
    BY <1>19 DEF EncodeEnd, InCall, Serving
  <2>2. CASE VideoSent
    <3>1. Contract!LaterFrame
      BY <2>1, <2>2, FrameRelayed DEF Contract!LaterFrame, Ids
    <3>2. Contract!Relay
      BY <2>1, <3>1 DEF Contract!Relay
    <3> QED BY <3>2 DEF Contract!Next
  <2>3. CASE sentV' = sentV
    BY <2>1, <2>3, Stutters
  <2> QED BY <1>19, <2>2, <2>3, EncodeEndFacts
<1>20. CASE PopVideo
  BY <1>20, Stutters DEF PopVideo, Serving
<1>21. CASE StopLoop
  <2>1. (qpc \in Serving) /\ ~(qpc \in Serving)'
    BY <1>21 DEF StopLoop, Serving
  <2>2. Contract!End
    BY <1>21, <2>1 DEF StopLoop, Contract!End
  <2> QED BY <2>2 DEF Contract!Next
<1>22. CASE cleanQueue
  BY <1>22, Stutters DEF cleanQueue, Serving
<1>23. CASE UNCHANGED vars
  BY <1>23, Stutters
<1> QED
  BY <1>1, <1>2, <1>3, <1>4, <1>5, <1>6, <1>7, <1>8, <1>9, <1>10,
     <1>11, <1>12, <1>13, <1>14, <1>15, <1>16, <1>17, <1>18, <1>19,
     <1>20, <1>21, <1>22, <1>23
  DEF Next, RtmpThread, QueueThread, Codec, encodeFunc

\* The relay implements its contract: in every session audio is a FIFO without
\* loss and video a FIFO that may skip frames, across all interleavings of the
\* RTMP thread and the queue thread.
THEOREM Implements == Spec => ImplementsContract
<1>1. Init => Contract!Init
  BY DEF Init, Contract!Init, Serving
<1>2. Clean /\ Line /\ AudioOnceInOrder /\ AudioOnceInOrder' /\ [Next]_vars
          => [Contract!Next]_(Contract!cvars)
  BY ContractStep
<1> QED BY <1>1, <1>2, CleanInvariant, LineInvariant, AudioOrder, PTL
        DEF Spec, ImplementsContract, Contract!Spec
=============================================================================
