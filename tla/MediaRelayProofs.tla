-------------------------- MODULE MediaRelayProofs --------------------------
(***************************************************************************)
(* What MediaRelay guarantees for every value of its constants.             *)
(***************************************************************************)
EXTENDS MediaRelay, TLAPS

USE DEF vars, rtmpVars, clockVars, curVars, codecVars, callVars, sentVars,
        StopFrame, EncodeEndFrame, AudioLoopFrame, cleanQueueFrame

\* The queue thread is past the head of a queue only while there is a head:
\* nobody but it pops.
HeadsHeld ==
    /\ qpc = "popAudio" => audioQ # <<>>
    /\ qpc \in {"decode", "encode", "audio", "popAudio", "encodeEnd", "pop"} =>
           videoQ # <<>>

HistoryTypeOK ==
    /\ sentV \in Seq(SentVideo) /\ sentA \in Seq(SentAudio)
    /\ givenUp \in SUBSET Nat

Types == TypeOK /\ OneThreadPerSession /\ HeadsHeld

-----------------------------------------------------------------------------

\* Types of what is put into a queue and taken off it.
LEMMA SequenceFacts ==
    ASSUME NEW S, NEW q \in Seq(S)
    PROVE  /\ <<>> \in Seq(S)
           /\ \A e \in S : Append(q, e) \in Seq(S)
           /\ \A e : Append(q, e) # <<>>
           /\ q # <<>> => Head(q) \in S /\ Tail(q) \in Seq(S)
  OBVIOUS

\* The elements of a queue after a push.
LEMMA AppendAt ==
    ASSUME NEW S, NEW q \in Seq(S), NEW e
    PROVE  /\ Len(Append(q, e)) = Len(q) + 1
           /\ \A i \in 1 .. Len(q) : Append(q, e)[i] = q[i]
           /\ Append(q, e)[Len(q) + 1] = e
           /\ Len(q) \in Nat
  OBVIOUS

\* The elements of a queue after a pop.
LEMMA TailAt ==
    ASSUME NEW S, NEW q \in Seq(S), q # <<>>
    PROVE  /\ Len(Tail(q)) = Len(q) - 1 /\ Len(q) \in Nat \ {0}
           /\ \A i \in 1 .. Len(q) - 1 : Tail(q)[i] = q[i + 1]
           /\ Head(q) = q[1]
  OBVIOUS

\* A push on a queue that has a head and a pop can change places.
LEMMA TailOfAppend ==
    ASSUME NEW S, NEW q \in Seq(S), q # <<>>, NEW e \in S
    PROVE  Tail(Append(q, e)) = Append(Tail(q), e)
  OBVIOUS

\* A sum of timestamps wraps into their range.
LEMMA TimestampArith ==
    ASSUME NEW a \in Nat, NEW b \in Nat
    PROVE  (a + b) % TsMod \in Timestamp
  BY TsModAssumption DEF Timestamp

\* 0 is a timestamp, and timestamps are natural numbers.
LEMMA ZeroTimestamp == 0 \in Timestamp /\ Timestamp \subseteq Nat
  BY TsModAssumption DEF Timestamp

\* The publisher's next timestamp is one.
LEMMA VideoTsType == RtmpTypeOK => NextVideoTs \subseteq Timestamp
  <1> SUFFICES ASSUME RtmpTypeOK, NEW t \in NextVideoTs PROVE t \in Timestamp
    OBVIOUS
  <1>1. CASE gotV = 0
    BY <1>1, ZeroTimestamp DEF NextVideoTs
  <1>2. CASE gotV # 0
    <2>1. PICK d \in VideoSteps : t = (pubTs + d) % TsMod
      BY <1>2 DEF NextVideoTs
    <2>2. pubTs \in Nat /\ d \in Nat
      BY UnitAssumption, TsModAssumption, ZeroTimestamp DEF RtmpTypeOK
    <2> QED BY <2>1, <2>2, TimestampArith
  <1> QED BY <1>1, <1>2

\* Every step keeps the types of the publish thread's variables.
LEMMA RtmpTypes == Types /\ [Next]_vars => RtmpTypeOK'
  <1> SUFFICES ASSUME Types, [Next]_vars PROVE RtmpTypeOK'
    OBVIOUS
  <1> USE DEF Types, TypeOK, RtmpTypeOK
  <1>1. CASE BeginPublish
    BY <1>1 DEF BeginPublish
  <1>2. CASE BeginJoined
    BY <1>2 DEF BeginJoined
  <1>3. CASE BeginStart
    BY <1>3, ZeroTimestamp, UnitAssumption DEF BeginStart
  <1>4. CASE ExitCallback
    BY <1>4 DEF ExitCallback
  <1>5. CASE ExitJoined
    BY <1>5 DEF ExitJoined
  <1>6. CASE RefuseVideo
    BY <1>6, VideoTsType DEF RefuseVideo
  <1>7. CASE ReceiveVideo
    BY <1>7, VideoTsType DEF ReceiveVideo
  <1>8. CASE ReceiveAudio
    BY <1>8 DEF ReceiveAudio
  <1>9. CASE ReleaseOldCodecs
    BY <1>9 DEF ReleaseOldCodecs
  <1>10. CASE CreateCodecs
    BY <1>10 DEF CreateCodecs
  <1>11. CASE TakeVideo
    BY <1>11 DEF TakeVideo
  <1>12. CASE FrameEncoded
    BY <1>12 DEF FrameEncoded
  <1>13. CASE FrameLost
    BY <1>13 DEF FrameLost
  <1>14. CASE DecodeReturns
    BY <1>14 DEF DecodeReturns
  <1>15. CASE EncodeStart
    BY <1>15 DEF EncodeStart
  <1>16. CASE SendAudio
    BY <1>16 DEF SendAudio
  <1>17. CASE PopAudio
    BY <1>17 DEF PopAudio
  <1>18. CASE AudioLoopEnds
    BY <1>18 DEF AudioLoopEnds
  <1>19. CASE EncodeEnd
    BY <1>19 DEF EncodeEnd
  <1>20. CASE PopVideo
    BY <1>20 DEF PopVideo
  <1>21. CASE StopLoop
    BY <1>21 DEF StopLoop
  <1>22. CASE cleanQueue
    BY <1>22 DEF cleanQueue
  <1>23. CASE UNCHANGED vars
    BY <1>23
  <1> QED
    BY <1>1, <1>2, <1>3, <1>4, <1>5, <1>6, <1>7, <1>8, <1>9, <1>10, 
       <1>11, <1>12, <1>13, <1>14, <1>15, <1>16, <1>17, <1>18, <1>19, 
       <1>20, <1>21, <1>22, <1>23
    DEF Next, RtmpThread, QueueThread, Codec, encodeFunc

\* Every step keeps the types of the timestamps and intervals.
LEMMA ClockTypes == Types /\ [Next]_vars => ClockTypeOK'
  <1> SUFFICES ASSUME Types, [Next]_vars PROVE ClockTypeOK'
    OBVIOUS
  <1> USE DEF Types, TypeOK, ClockTypeOK
  <1>1. CASE BeginPublish
    BY <1>1 DEF BeginPublish
  <1>2. CASE BeginJoined
    BY <1>2 DEF BeginJoined
  <1>3. CASE BeginStart
    BY <1>3, ZeroTimestamp DEF BeginStart
  <1>4. CASE ExitCallback
    BY <1>4 DEF ExitCallback
  <1>5. CASE ExitJoined
    BY <1>5 DEF ExitJoined
  <1>6. CASE RefuseVideo
    BY <1>6 DEF RefuseVideo
  <1>7. CASE ReceiveVideo
    <2>1. PICK ts \in NextVideoTs, abs \in AbsOf(gotV = 0) :
              /\ orgFpsUnit' = IF hasDataFrame = 0 /\ metaUnit > 0
                               THEN metaUnit ELSE orgFpsUnit
              /\ fpsUnit' = MeasuredUnit(ts, orgFpsUnit')
              /\ orgTs' = ts /\ orgAbs' = abs
      BY <1>7 DEF ReceiveVideo
    <2>2. ts \in Timestamp /\ abs \in {0, 1}
      BY VideoTsType, UnitAssumption DEF AbsOf
    <2>3. orgFpsUnit' \in Nat
      BY <2>1 DEF RtmpTypeOK
    <2>4. fpsUnit' \in Nat
      BY <2>1, <2>2, <2>3, ZeroTimestamp DEF MeasuredUnit
    <2> QED BY <1>7, <2>1, <2>2, <2>3, <2>4 DEF ReceiveVideo
  <1>8. CASE ReceiveAudio
    BY <1>8 DEF ReceiveAudio
  <1>9. CASE ReleaseOldCodecs
    BY <1>9 DEF ReleaseOldCodecs
  <1>10. CASE CreateCodecs
    BY <1>10 DEF CreateCodecs
  <1>11. CASE TakeVideo
    BY <1>11 DEF TakeVideo
  <1>12. CASE FrameEncoded
    BY <1>12 DEF FrameEncoded
  <1>13. CASE FrameLost
    BY <1>13 DEF FrameLost
  <1>14. CASE DecodeReturns
    BY <1>14 DEF DecodeReturns
  <1>15. CASE EncodeStart
    BY <1>15, TimestampArith, ZeroTimestamp DEF EncodeStart, NextClock
  <1>16. CASE SendAudio
    BY <1>16 DEF SendAudio
  <1>17. CASE PopAudio
    BY <1>17 DEF PopAudio
  <1>18. CASE AudioLoopEnds
    BY <1>18 DEF AudioLoopEnds
  <1>19. CASE EncodeEnd
    BY <1>19 DEF EncodeEnd
  <1>20. CASE PopVideo
    BY <1>20 DEF PopVideo
  <1>21. CASE StopLoop
    BY <1>21 DEF StopLoop
  <1>22. CASE cleanQueue
    BY <1>22 DEF cleanQueue
  <1>23. CASE UNCHANGED vars
    BY <1>23
  <1> QED
    BY <1>1, <1>2, <1>3, <1>4, <1>5, <1>6, <1>7, <1>8, <1>9, <1>10, 
       <1>11, <1>12, <1>13, <1>14, <1>15, <1>16, <1>17, <1>18, <1>19, 
       <1>20, <1>21, <1>22, <1>23
    DEF Next, RtmpThread, QueueThread, Codec, encodeFunc

\* Every step keeps the types of the run flag, the positions and the codec handles.
LEMMA ThreadTypes == Types /\ [Next]_vars => ThreadTypeOK'
  <1> SUFFICES ASSUME Types, [Next]_vars PROVE ThreadTypeOK'
    OBVIOUS
  <1> USE DEF Types, TypeOK, ThreadTypeOK, Serving
  <1>1. CASE BeginPublish
    BY <1>1 DEF BeginPublish
  <1>2. CASE BeginJoined
    BY <1>2 DEF BeginJoined
  <1>3. CASE BeginStart
    BY <1>3 DEF BeginStart
  <1>4. CASE ExitCallback
    BY <1>4 DEF ExitCallback
  <1>5. CASE ExitJoined
    BY <1>5 DEF ExitJoined
  <1>6. CASE RefuseVideo
    BY <1>6 DEF RefuseVideo
  <1>7. CASE ReceiveVideo
    BY <1>7 DEF ReceiveVideo
  <1>8. CASE ReceiveAudio
    BY <1>8 DEF ReceiveAudio
  <1>9. CASE ReleaseOldCodecs
    BY <1>9 DEF ReleaseOldCodecs
  <1>10. CASE CreateCodecs
    BY <1>10, ModeAssumption DEF CreateCodecs
  <1>11. CASE TakeVideo
    BY <1>11 DEF TakeVideo
  <1>12. CASE FrameEncoded
    BY <1>12 DEF FrameEncoded
  <1>13. CASE FrameLost
    BY <1>13 DEF FrameLost
  <1>14. CASE DecodeReturns
    BY <1>14 DEF DecodeReturns
  <1>15. CASE EncodeStart
    BY <1>15 DEF EncodeStart
  <1>16. CASE SendAudio
    BY <1>16 DEF SendAudio
  <1>17. CASE PopAudio
    BY <1>17 DEF PopAudio
  <1>18. CASE AudioLoopEnds
    BY <1>18 DEF AudioLoopEnds
  <1>19. CASE EncodeEnd
    BY <1>19 DEF EncodeEnd
  <1>20. CASE PopVideo
    BY <1>20 DEF PopVideo
  <1>21. CASE StopLoop
    BY <1>21 DEF StopLoop
  <1>22. CASE cleanQueue
    BY <1>22 DEF cleanQueue
  <1>23. CASE UNCHANGED vars
    BY <1>23
  <1> QED
    BY <1>1, <1>2, <1>3, <1>4, <1>5, <1>6, <1>7, <1>8, <1>9, <1>10, 
       <1>11, <1>12, <1>13, <1>14, <1>15, <1>16, <1>17, <1>18, <1>19, 
       <1>20, <1>21, <1>22, <1>23
    DEF Next, RtmpThread, QueueThread, Codec, encodeFunc

\* Every step keeps the types of the queues and of the frame at hand.
LEMMA QueueTypes == Types /\ [Next]_vars => QueueTypeOK'
  <1> SUFFICES ASSUME Types, [Next]_vars PROVE QueueTypeOK'
    OBVIOUS
  <1> USE DEF Types, TypeOK, QueueTypeOK
  <1>1. CASE BeginPublish
    BY <1>1, SequenceFacts DEF BeginPublish
  <1>2. CASE BeginJoined
    BY <1>2, SequenceFacts DEF BeginJoined
  <1>3. CASE BeginStart
    BY <1>3, SequenceFacts DEF BeginStart
  <1>4. CASE ExitCallback
    BY <1>4, SequenceFacts DEF ExitCallback
  <1>5. CASE ExitJoined
    BY <1>5, SequenceFacts DEF ExitJoined
  <1>6. CASE RefuseVideo
    BY <1>6, SequenceFacts DEF RefuseVideo
  <1>7. CASE ReceiveVideo
    BY <1>7, SequenceFacts DEF ReceiveVideo, RtmpTypeOK
  <1>8. CASE ReceiveAudio
    BY <1>8, SequenceFacts, TimestampArith, ZeroTimestamp, UnitAssumption
    DEF ReceiveAudio, AbsOf, Audio, RtmpTypeOK, ClockTypeOK
  <1>9. CASE ReleaseOldCodecs
    BY <1>9, SequenceFacts DEF ReleaseOldCodecs
  <1>10. CASE CreateCodecs
    BY <1>10, SequenceFacts DEF CreateCodecs
  <1>11. CASE TakeVideo
    BY <1>11, SequenceFacts DEF TakeVideo
  <1>12. CASE FrameEncoded
    BY <1>12, SequenceFacts DEF FrameEncoded
  <1>13. CASE FrameLost
    BY <1>13, SequenceFacts DEF FrameLost
  <1>14. CASE DecodeReturns
    BY <1>14, SequenceFacts DEF DecodeReturns
  <1>15. CASE EncodeStart
    BY <1>15, SequenceFacts DEF EncodeStart
  <1>16. CASE SendAudio
    BY <1>16, SequenceFacts DEF SendAudio
  <1>17. CASE PopAudio
    BY <1>17, SequenceFacts DEF PopAudio, HeadsHeld
  <1>18. CASE AudioLoopEnds
    BY <1>18, SequenceFacts DEF AudioLoopEnds
  <1>19. CASE EncodeEnd
    BY <1>19, SequenceFacts DEF EncodeEnd
  <1>20. CASE PopVideo
    BY <1>20, SequenceFacts DEF PopVideo, HeadsHeld
  <1>21. CASE StopLoop
    BY <1>21, SequenceFacts DEF StopLoop
  <1>22. CASE cleanQueue
    BY <1>22, SequenceFacts DEF cleanQueue
  <1>23. CASE UNCHANGED vars
    BY <1>23
  <1> QED
    BY <1>1, <1>2, <1>3, <1>4, <1>5, <1>6, <1>7, <1>8, <1>9, <1>10, 
       <1>11, <1>12, <1>13, <1>14, <1>15, <1>16, <1>17, <1>18, <1>19, 
       <1>20, <1>21, <1>22, <1>23
    DEF Next, RtmpThread, QueueThread, Codec, encodeFunc

\* Every step keeps the types of what was sent.
LEMMA HistoryTypes == Types /\ [Next]_vars => HistoryTypeOK'
  <1> SUFFICES ASSUME Types, [Next]_vars PROVE HistoryTypeOK'
    OBVIOUS
  <1> USE DEF Types, TypeOK, HistoryTypeOK
  <1>1. CASE BeginPublish
    BY <1>1, SequenceFacts DEF BeginPublish
  <1>2. CASE BeginJoined
    BY <1>2, SequenceFacts DEF BeginJoined
  <1>3. CASE BeginStart
    BY <1>3, SequenceFacts DEF BeginStart
  <1>4. CASE ExitCallback
    BY <1>4, SequenceFacts DEF ExitCallback
  <1>5. CASE ExitJoined
    BY <1>5, SequenceFacts DEF ExitJoined
  <1>6. CASE RefuseVideo
    BY <1>6, SequenceFacts DEF RefuseVideo
  <1>7. CASE ReceiveVideo
    BY <1>7, SequenceFacts DEF ReceiveVideo
  <1>8. CASE ReceiveAudio
    BY <1>8, SequenceFacts DEF ReceiveAudio
  <1>9. CASE ReleaseOldCodecs
    BY <1>9, SequenceFacts DEF ReleaseOldCodecs
  <1>10. CASE CreateCodecs
    BY <1>10, SequenceFacts DEF CreateCodecs
  <1>11. CASE TakeVideo
    <2>1. Head(videoQ) \in Nat
      BY <1>11, SequenceFacts DEF TakeVideo, QueueTypeOK
    <2> QED BY <1>11, <2>1 DEF TakeVideo
  <1>12. CASE FrameEncoded
    BY <1>12, SequenceFacts DEF FrameEncoded
  <1>13. CASE FrameLost
    <2>1. Head(inCodec) \in Nat
      BY <1>13, SequenceFacts DEF FrameLost, QueueTypeOK
    <2> QED BY <1>13, <2>1 DEF FrameLost
  <1>14. CASE DecodeReturns
    BY <1>14, SequenceFacts DEF DecodeReturns
  <1>15. CASE EncodeStart
    BY <1>15, SequenceFacts DEF EncodeStart
  <1>16. CASE SendAudio
    <2> DEFINE a == Head(audioQ)
               out == [id |-> a.id, sess |-> a.sess, ts |-> a.ts, vts |-> a.vts,
                       call |-> frame, after |-> Len(sentV')]
    <2>1. a \in Audio
      BY <1>16, SequenceFacts DEF SendAudio, QueueTypeOK
    <2>2. VideoOut(a.vabs) \in SentVideo
      BY <2>1 DEF Audio, SentVideo, VideoOut, QueueTypeOK, RtmpTypeOK, ClockTypeOK
    <2>3. /\ sentV' \in {sentV, Append(sentV, VideoOut(a.vabs))}
          /\ sentA' = Append(sentA, out) /\ givenUp' = givenUp
      BY <1>16 DEF SendAudio
    <2>4. sentV' \in Seq(SentVideo)
      BY <2>2, <2>3, SequenceFacts
    <2>5. out \in SentAudio
      BY <2>1, <2>4 DEF Audio, SentAudio, QueueTypeOK
    <2> QED BY <2>3, <2>4, <2>5, SequenceFacts
  <1>17. CASE PopAudio
    BY <1>17, SequenceFacts DEF PopAudio
  <1>18. CASE AudioLoopEnds
    BY <1>18, SequenceFacts DEF AudioLoopEnds
  <1>19. CASE EncodeEnd
    BY <1>19, SequenceFacts DEF EncodeEnd, SendIfDue, VideoOut, SentVideo,
    RtmpTypeOK, ClockTypeOK, QueueTypeOK
  <1>20. CASE PopVideo
    BY <1>20, SequenceFacts DEF PopVideo
  <1>21. CASE StopLoop
    BY <1>21, SequenceFacts DEF StopLoop
  <1>22. CASE cleanQueue
    BY <1>22, SequenceFacts DEF cleanQueue
  <1>23. CASE UNCHANGED vars
    BY <1>23
  <1> QED
    BY <1>1, <1>2, <1>3, <1>4, <1>5, <1>6, <1>7, <1>8, <1>9, <1>10, 
       <1>11, <1>12, <1>13, <1>14, <1>15, <1>16, <1>17, <1>18, <1>19, 
       <1>20, <1>21, <1>22, <1>23
    DEF Next, RtmpThread, QueueThread, Codec, encodeFunc

\* Every step keeps one queue thread per session.
LEMMA ThreadsStep == Types /\ [Next]_vars => OneThreadPerSession'
  <1> SUFFICES ASSUME Types, [Next]_vars PROVE OneThreadPerSession'
    OBVIOUS
  <1> USE DEF Types, OneThreadPerSession, Serving
  <1>1. CASE BeginPublish
    BY <1>1 DEF BeginPublish
  <1>2. CASE BeginJoined
    BY <1>2 DEF BeginJoined
  <1>3. CASE BeginStart
    BY <1>3 DEF BeginStart
  <1>4. CASE ExitCallback
    BY <1>4 DEF ExitCallback
  <1>5. CASE ExitJoined
    BY <1>5 DEF ExitJoined
  <1>6. CASE RefuseVideo
    BY <1>6 DEF RefuseVideo
  <1>7. CASE ReceiveVideo
    BY <1>7 DEF ReceiveVideo
  <1>8. CASE ReceiveAudio
    BY <1>8 DEF ReceiveAudio
  <1>9. CASE ReleaseOldCodecs
    BY <1>9 DEF ReleaseOldCodecs
  <1>10. CASE CreateCodecs
    BY <1>10 DEF CreateCodecs
  <1>11. CASE TakeVideo
    BY <1>11 DEF TakeVideo
  <1>12. CASE FrameEncoded
    BY <1>12 DEF FrameEncoded
  <1>13. CASE FrameLost
    BY <1>13 DEF FrameLost
  <1>14. CASE DecodeReturns
    BY <1>14 DEF DecodeReturns
  <1>15. CASE EncodeStart
    BY <1>15 DEF EncodeStart
  <1>16. CASE SendAudio
    BY <1>16 DEF SendAudio
  <1>17. CASE PopAudio
    BY <1>17 DEF PopAudio
  <1>18. CASE AudioLoopEnds
    BY <1>18 DEF AudioLoopEnds
  <1>19. CASE EncodeEnd
    BY <1>19 DEF EncodeEnd
  <1>20. CASE PopVideo
    BY <1>20 DEF PopVideo
  <1>21. CASE StopLoop
    BY <1>21 DEF StopLoop
  <1>22. CASE cleanQueue
    BY <1>22 DEF cleanQueue
  <1>23. CASE UNCHANGED vars
    BY <1>23
  <1> QED
    BY <1>1, <1>2, <1>3, <1>4, <1>5, <1>6, <1>7, <1>8, <1>9, <1>10, 
       <1>11, <1>12, <1>13, <1>14, <1>15, <1>16, <1>17, <1>18, <1>19, 
       <1>20, <1>21, <1>22, <1>23
    DEF Next, RtmpThread, QueueThread, Codec, encodeFunc

\* Every step keeps the heads the queue thread works on in their queues.
LEMMA HeadsStep == Types /\ [Next]_vars => HeadsHeld'
  <1> SUFFICES ASSUME Types, [Next]_vars PROVE HeadsHeld'
    OBVIOUS
  <1> USE DEF Types, TypeOK, QueueTypeOK, HeadsHeld
  <1>1. CASE BeginPublish
    BY <1>1, SequenceFacts DEF BeginPublish
  <1>2. CASE BeginJoined
    BY <1>2, SequenceFacts DEF BeginJoined
  <1>3. CASE BeginStart
    BY <1>3, SequenceFacts DEF BeginStart
  <1>4. CASE ExitCallback
    BY <1>4, SequenceFacts DEF ExitCallback
  <1>5. CASE ExitJoined
    BY <1>5, SequenceFacts DEF ExitJoined
  <1>6. CASE RefuseVideo
    BY <1>6, SequenceFacts DEF RefuseVideo
  <1>7. CASE ReceiveVideo
    <2>1. videoQ' # <<>>
      BY <1>7, SequenceFacts DEF ReceiveVideo
    <2> QED BY <1>7, <2>1 DEF ReceiveVideo
  <1>8. CASE ReceiveAudio
    <2>1. PICK packet : audioQ' = Append(audioQ, packet)
      BY <1>8 DEF ReceiveAudio
    <2>2. audioQ' # <<>>
      BY <2>1, SequenceFacts
    <2> QED BY <1>8, <2>2 DEF ReceiveAudio
  <1>9. CASE ReleaseOldCodecs
    BY <1>9, SequenceFacts DEF ReleaseOldCodecs
  <1>10. CASE CreateCodecs
    BY <1>10, SequenceFacts DEF CreateCodecs
  <1>11. CASE TakeVideo
    BY <1>11, SequenceFacts DEF TakeVideo
  <1>12. CASE FrameEncoded
    BY <1>12, SequenceFacts DEF FrameEncoded
  <1>13. CASE FrameLost
    BY <1>13, SequenceFacts DEF FrameLost
  <1>14. CASE DecodeReturns
    BY <1>14, SequenceFacts DEF DecodeReturns
  <1>15. CASE EncodeStart
    BY <1>15, SequenceFacts DEF EncodeStart
  <1>16. CASE SendAudio
    BY <1>16, SequenceFacts DEF SendAudio
  <1>17. CASE PopAudio
    BY <1>17, SequenceFacts DEF PopAudio
  <1>18. CASE AudioLoopEnds
    BY <1>18, SequenceFacts DEF AudioLoopEnds
  <1>19. CASE EncodeEnd
    BY <1>19, SequenceFacts DEF EncodeEnd
  <1>20. CASE PopVideo
    BY <1>20, SequenceFacts DEF PopVideo
  <1>21. CASE StopLoop
    BY <1>21, SequenceFacts DEF StopLoop
  <1>22. CASE cleanQueue
    BY <1>22, SequenceFacts DEF cleanQueue
  <1>23. CASE UNCHANGED vars
    BY <1>23
  <1> QED
    BY <1>1, <1>2, <1>3, <1>4, <1>5, <1>6, <1>7, <1>8, <1>9, <1>10, 
       <1>11, <1>12, <1>13, <1>14, <1>15, <1>16, <1>17, <1>18, <1>19, 
       <1>20, <1>21, <1>22, <1>23
    DEF Next, RtmpThread, QueueThread, Codec, encodeFunc

\* The initial state is well typed.
LEMMA InitTypes == Init => Types
  <1> SUFFICES ASSUME Init PROVE Types
    OBVIOUS
  <1>1. RtmpTypeOK /\ ClockTypeOK
    BY ZeroTimestamp DEF Init, RtmpTypeOK, ClockTypeOK
  <1>2. ThreadTypeOK
    BY ModeAssumption DEF Init, ThreadTypeOK
  <1>3. /\ QueueTypeOK /\ sentV \in Seq(SentVideo) /\ sentA \in Seq(SentAudio)
        /\ givenUp \in SUBSET Nat
    BY DEF Init, QueueTypeOK
  <1>4. OneThreadPerSession /\ HeadsHeld
    BY DEF Init, OneThreadPerSession, HeadsHeld
  <1> QED BY <1>1, <1>2, <1>3, <1>4 DEF Types, TypeOK

\* Every step keeps the typing invariant.
LEMMA TypesInductive == Types /\ [Next]_vars => Types'
  BY RtmpTypes, ClockTypes, ThreadTypes, QueueTypes, HistoryTypes, ThreadsStep,
     HeadsStep DEF Types, TypeOK, HistoryTypeOK

\* Every variable keeps its type and its width, no callback delivers to a
\* queue thread that has stopped, and no second queue thread is started.
THEOREM TypeCorrect == Spec => [](TypeOK /\ OneThreadPerSession)
  <1>1. Types => TypeOK /\ OneThreadPerSession
    BY DEF Types
  <1> QED BY <1>1, InitTypes, TypesInductive, PTL DEF Spec

\* A new queue thread is started only where the one before was joined: no
\* assignment to _queueThread finds it joinable, which would end the process.
THEOREM OneThread == Spec => []OneThreadPerSession
  BY TypeCorrect, PTL

-----------------------------------------------------------------------------
(* The end of a session leaves nothing *)

\* Once the queue thread has left its loop its codecs are gone, once it has
\* ended its queues are empty, and nobody can push until the next thread.
Leftovers ==
    /\ qpc \in {"none", "done"} => videoQ = <<>> /\ audioQ = <<>>
    /\ qpc \in {"clean", "done"} \/ (qpc = "none" /\ sess > 0) =>
           inCodec = <<>> /\ ~decoder /\ ~encoder

Clean == Types /\ Leftovers

\* Every step keeps what a queue thread that ends leaves behind.
LEMMA LeftoversStep == Clean /\ [Next]_vars => Leftovers'
  <1> SUFFICES ASSUME Clean, [Next]_vars PROVE Leftovers'
    OBVIOUS
  <1> USE DEF Clean, Types, OneThreadPerSession, Leftovers, Serving
  <1>1. CASE BeginPublish
    BY <1>1 DEF BeginPublish
  <1>2. CASE BeginJoined
    BY <1>2 DEF BeginJoined
  <1>3. CASE BeginStart
    BY <1>3 DEF BeginStart
  <1>4. CASE ExitCallback
    BY <1>4 DEF ExitCallback
  <1>5. CASE ExitJoined
    BY <1>5 DEF ExitJoined
  <1>6. CASE RefuseVideo
    BY <1>6 DEF RefuseVideo
  <1>7. CASE ReceiveVideo
    BY <1>7 DEF ReceiveVideo
  <1>8. CASE ReceiveAudio
    BY <1>8 DEF ReceiveAudio
  <1>9. CASE ReleaseOldCodecs
    BY <1>9 DEF ReleaseOldCodecs
  <1>10. CASE CreateCodecs
    BY <1>10 DEF CreateCodecs
  <1>11. CASE TakeVideo
    BY <1>11 DEF TakeVideo
  <1>12. CASE FrameEncoded
    BY <1>12 DEF FrameEncoded
  <1>13. CASE FrameLost
    BY <1>13 DEF FrameLost
  <1>14. CASE DecodeReturns
    BY <1>14 DEF DecodeReturns
  <1>15. CASE EncodeStart
    BY <1>15 DEF EncodeStart
  <1>16. CASE SendAudio
    BY <1>16 DEF SendAudio
  <1>17. CASE PopAudio
    BY <1>17 DEF PopAudio
  <1>18. CASE AudioLoopEnds
    BY <1>18 DEF AudioLoopEnds
  <1>19. CASE EncodeEnd
    BY <1>19 DEF EncodeEnd
  <1>20. CASE PopVideo
    BY <1>20 DEF PopVideo
  <1>21. CASE StopLoop
    BY <1>21 DEF StopLoop
  <1>22. CASE cleanQueue
    BY <1>22 DEF cleanQueue
  <1>23. CASE UNCHANGED vars
    BY <1>23
  <1> QED
    BY <1>1, <1>2, <1>3, <1>4, <1>5, <1>6, <1>7, <1>8, <1>9, <1>10, 
       <1>11, <1>12, <1>13, <1>14, <1>15, <1>16, <1>17, <1>18, <1>19, 
       <1>20, <1>21, <1>22, <1>23
    DEF Next, RtmpThread, QueueThread, Codec, encodeFunc

\* Types and leftovers hold always.
LEMMA CleanInvariant == Spec => []Clean
  <1>1. Init => Clean
    BY InitTypes DEF Init, Clean, Leftovers
  <1>2. Clean /\ [Next]_vars => Clean'
    BY TypesInductive, LeftoversStep DEF Clean
  <1> QED BY <1>1, <1>2, PTL DEF Spec

\* However the threads interleave and whatever the codec kept, a queue thread
\* that has ended leaves no packet and no codec to the next session.
THEOREM NothingIsLeft == Spec => []ThreadLeavesNothing
  <1>1. Clean => ThreadLeavesNothing
    BY DEF Clean, Leftovers, ThreadLeavesNothing
  <1> QED BY <1>1, CleanInvariant, PTL

-----------------------------------------------------------------------------
(* The order of the audio *)

\* The audio received and not yet sent is a queue of packets.
LEMMA UnsentType == Types => Unsent \in Seq(Audio)
  BY SequenceFacts DEF Types, TypeOK, QueueTypeOK, HeadsHeld, Unsent

\* Every step keeps the order of the audio.
LEMMA AudioOrderStep == Clean /\ AudioOnceInOrder /\ [Next]_vars => AudioOnceInOrder'
  <1> SUFFICES ASSUME Clean /\ AudioOnceInOrder, [Next]_vars PROVE AudioOnceInOrder'
    OBVIOUS
  <1> USE DEF Clean, Types, TypeOK, QueueTypeOK, AudioOnceInOrder, Serving
  <1>1. CASE BeginPublish
    <2>1. Unsent' = Unsent
      BY <1>1 DEF BeginPublish, Unsent
    <2> QED BY <1>1, <2>1 DEF BeginPublish
  <1>2. CASE BeginJoined
    <2>1. Unsent' = Unsent
      BY <1>2 DEF BeginJoined, Unsent
    <2> QED BY <1>2, <2>1 DEF BeginJoined
  <1>3. CASE BeginStart
    <2>1. Unsent' = <<>>
      BY <1>3 DEF BeginStart, Unsent, Leftovers, OneThreadPerSession
    <2> QED BY <1>3, <2>1 DEF BeginStart
  <1>4. CASE ExitCallback
    <2>1. Unsent' = Unsent
      BY <1>4 DEF ExitCallback, Unsent
    <2> QED BY <1>4, <2>1 DEF ExitCallback
  <1>5. CASE ExitJoined
    <2>1. Unsent' = Unsent
      BY <1>5 DEF ExitJoined, Unsent
    <2> QED BY <1>5, <2>1 DEF ExitJoined
  <1>6. CASE RefuseVideo
    <2>1. Unsent' = Unsent
      BY <1>6 DEF RefuseVideo, Unsent
    <2> QED BY <1>6, <2>1 DEF RefuseVideo
  <1>7. CASE ReceiveVideo
    <2>1. Unsent' = Unsent
      BY <1>7 DEF ReceiveVideo, Unsent
    <2> QED BY <1>7, <2>1 DEF ReceiveVideo
  <1>8. CASE ReceiveAudio
    <2>1. PICK packet \in Audio :
              /\ audioQ' = Append(audioQ, packet)
              /\ packet.id = gotA + 1 /\ packet.sess = sess
      <3>1. PICK o \in AudioOffsets, abs \in AbsOf(gotA = 0) :
                audioQ' = Append(audioQ,
                    [id |-> gotA + 1, sess |-> sess, ts |-> (pubTs + o) % TsMod,
                     abs |-> abs, vts |-> orgTs, vabs |-> orgAbs])
        BY <1>8 DEF ReceiveAudio
      <3>2. abs \in {0, 1} /\ (pubTs + o) % TsMod \in Timestamp
        BY TimestampArith, ZeroTimestamp, UnitAssumption DEF AbsOf, RtmpTypeOK
      <3> DEFINE p == [id |-> gotA + 1, sess |-> sess,
                      ts |-> (pubTs + o) % TsMod, abs |-> abs,
                      vts |-> orgTs, vabs |-> orgAbs]
      <3>3. p \in Audio
        BY <3>2 DEF Audio, RtmpTypeOK, ClockTypeOK
      <3> QED BY <3>1, <3>3
    <2>2. qpc \in Serving
      BY <1>8 DEF ReceiveAudio, OneThreadPerSession
    <2>3. Unsent' = Append(Unsent, packet)
      BY <1>8, <2>1, TailOfAppend DEF ReceiveAudio, Unsent, HeadsHeld
    <2>4. /\ Len(Unsent') = Len(Unsent) + 1
          /\ \A i \in 1 .. Len(Unsent) : Unsent'[i] = Unsent[i]
          /\ Unsent'[Len(Unsent) + 1] = packet
          /\ Len(Unsent) \in Nat
      BY <2>3, UnsentType, AppendAt
    <2>5. Len(sentA) \in Nat /\ Len(sentA) + Len(Unsent) = gotA
      BY <2>2
    <2>6. sentA' = sentA /\ sess' = sess /\ gotA' = gotA + 1
      BY <1>8 DEF ReceiveAudio
    <2>7. ASSUME NEW i \in 1 .. Len(Unsent')
          PROVE  Unsent'[i].id = Len(sentA') + i /\ Unsent'[i].sess = sess'
      <3>1. CASE i \in 1 .. Len(Unsent)
        BY <3>1, <2>4, <2>6
      <3>2. CASE i = Len(Unsent) + 1
        BY <3>2, <2>1, <2>4, <2>5, <2>6
      <3> QED BY <3>1, <3>2, <2>4
    <2>8. Len(sentA') + Len(Unsent') = gotA'
      BY <2>4, <2>5, <2>6
    <2> QED BY <2>6, <2>7, <2>8
  <1>9. CASE ReleaseOldCodecs
    <2>1. Unsent' = Unsent
      BY <1>9 DEF ReleaseOldCodecs, Unsent
    <2> QED BY <1>9, <2>1 DEF ReleaseOldCodecs
  <1>10. CASE CreateCodecs
    <2>1. Unsent' = Unsent
      BY <1>10 DEF CreateCodecs, Unsent
    <2> QED BY <1>10, <2>1 DEF CreateCodecs
  <1>11. CASE TakeVideo
    <2>1. Unsent' = Unsent
      BY <1>11 DEF TakeVideo, Unsent
    <2> QED BY <1>11, <2>1 DEF TakeVideo
  <1>12. CASE FrameEncoded
    <2>1. Unsent' = Unsent
      BY <1>12 DEF FrameEncoded, Unsent
    <2> QED BY <1>12, <2>1 DEF FrameEncoded
  <1>13. CASE FrameLost
    <2>1. Unsent' = Unsent
      BY <1>13 DEF FrameLost, Unsent
    <2> QED BY <1>13, <2>1 DEF FrameLost
  <1>14. CASE DecodeReturns
    <2>1. Unsent' = Unsent
      BY <1>14 DEF DecodeReturns, Unsent
    <2> QED BY <1>14, <2>1 DEF DecodeReturns
  <1>15. CASE EncodeStart
    <2>1. Unsent' = Unsent
      BY <1>15 DEF EncodeStart, Unsent
    <2> QED BY <1>15, <2>1 DEF EncodeStart
  <1>16. CASE SendAudio
    <2>1. Unsent = audioQ /\ Unsent' = Tail(audioQ) /\ audioQ # <<>>
      BY <1>16 DEF SendAudio, Unsent
    <2>2. PICK out : /\ sentA' = Append(sentA, out)
                     /\ out.id = Head(audioQ).id /\ out.sess = Head(audioQ).sess
      BY <1>16 DEF SendAudio
    <2>3. /\ Len(Unsent') = Len(Unsent) - 1 /\ Len(Unsent) \in Nat \ {0}
          /\ \A i \in 1 .. Len(Unsent) - 1 : Unsent'[i] = Unsent[i + 1]
          /\ Head(audioQ) = Unsent[1]
      BY <2>1, TailAt
    <2>4. /\ Len(sentA') = Len(sentA) + 1 /\ Len(sentA) \in Nat
          /\ \A i \in 1 .. Len(sentA) : sentA'[i] = sentA[i]
          /\ sentA'[Len(sentA) + 1] = out
      BY <2>2, AppendAt
    <2>5. out.id = Len(sentA) + 1 /\ out.sess = sess
      BY <2>2, <2>3
    <2>6. sess' = sess /\ gotA' = gotA /\ qpc \in Serving
      BY <1>16 DEF SendAudio
    <2>7. ASSUME NEW i \in 1 .. Len(Unsent')
          PROVE  Unsent'[i].id = Len(sentA') + i /\ Unsent'[i].sess = sess'
      <3>1. i + 1 \in 1 .. Len(Unsent)
        BY <2>3
      <3>2. Unsent[i + 1].id = Len(sentA) + (i + 1) /\ Unsent[i + 1].sess = sess
        BY <3>1
      <3>3. Unsent'[i] = Unsent[i + 1] /\ i \in Int
        BY <2>3
      <3> QED BY <3>2, <3>3, <2>4, <2>6
    <2>8. ASSUME NEW i \in 1 .. Len(sentA')
          PROVE  sentA'[i].id = i /\ sentA'[i].sess = sess'
      <3>1. CASE i \in 1 .. Len(sentA)
        <4>1. sentA[i].id = i /\ sentA[i].sess = sess
          BY <3>1
        <4> QED BY <3>1, <4>1, <2>4, <2>6
      <3>2. CASE i = Len(sentA) + 1
        BY <3>2, <2>4, <2>5, <2>6
      <3> QED BY <3>1, <3>2, <2>4
    <2>9. Len(sentA') + Len(Unsent') = gotA'
      BY <2>3, <2>4, <2>6
    <2> QED BY <2>7, <2>8, <2>9
  <1>17. CASE PopAudio
    <2>1. Unsent' = Unsent
      BY <1>17 DEF PopAudio, Unsent
    <2> QED BY <1>17, <2>1 DEF PopAudio
  <1>18. CASE AudioLoopEnds
    <2>1. Unsent' = Unsent
      BY <1>18 DEF AudioLoopEnds, Unsent
    <2> QED BY <1>18, <2>1 DEF AudioLoopEnds
  <1>19. CASE EncodeEnd
    <2>1. Unsent' = Unsent
      BY <1>19 DEF EncodeEnd, Unsent
    <2> QED BY <1>19, <2>1 DEF EncodeEnd
  <1>20. CASE PopVideo
    <2>1. Unsent' = Unsent
      BY <1>20 DEF PopVideo, Unsent
    <2> QED BY <1>20, <2>1 DEF PopVideo
  <1>21. CASE StopLoop
    <2>1. Unsent' = Unsent
      BY <1>21 DEF StopLoop, Unsent
    <2> QED BY <1>21, <2>1 DEF StopLoop
  <1>22. CASE cleanQueue
    <2>1. Unsent' = <<>>
      BY <1>22 DEF cleanQueue, Unsent
    <2> QED BY <1>22, <2>1 DEF cleanQueue
  <1>23. CASE UNCHANGED vars
    BY <1>23 DEF Unsent
  <1> QED
    BY <1>1, <1>2, <1>3, <1>4, <1>5, <1>6, <1>7, <1>8, <1>9, <1>10, 
       <1>11, <1>12, <1>13, <1>14, <1>15, <1>16, <1>17, <1>18, <1>19, 
       <1>20, <1>21, <1>22, <1>23
    DEF Next, RtmpThread, QueueThread, Codec, encodeFunc

\* Audio leaves in the order of reception, each packet once, none lost while
\* the session is served and none from another session.
THEOREM AudioOrder == Spec => []AudioOnceInOrder
  <1>1. Init => AudioOnceInOrder
    BY DEF Init, AudioOnceInOrder, Unsent, Serving
  <1>2. Clean /\ AudioOnceInOrder /\ [Next]_vars => AudioOnceInOrder'
    BY AudioOrderStep
  <1> QED BY <1>1, <1>2, CleanInvariant, PTL DEF Spec
=============================================================================
