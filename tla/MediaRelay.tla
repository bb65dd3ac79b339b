----------------------------- MODULE MediaRelay -----------------------------
(***************************************************************************)
(* The relay path of com_medialib_jni_MediaJni.cpp.  Two threads share the  *)
(* file's static variables:                                                 *)
(*                                                                          *)
(*   - the RTMP server's publish thread, inside librtmpsvr.so, which calls  *)
(*     rtmpBeginPublish, rtmpVideoReceiv, rtmpAudioReceiv and               *)
(*     rtmpThreadExitCallback, one at a time;                               *)
(*   - the queue thread (queueThreadFunction), which takes video packets,   *)
(*     runs them through decoder, beauty renderer and encoder, and whose    *)
(*     encoder callback (encodeFunc) interleaves the queued audio with the  *)
(*     frame and sends both upstream.                                       *)
(*                                                                          *)
(* A video packet is its serial number in the session (nothing else of it   *)
(* is used once it is queued); an audio packet carries its timestamp and    *)
(* the video timestamp it was bound to on reception.  Unlocked reads of the *)
(* queues are atomic here: a stale emptiness answer equals an earlier read. *)
(***************************************************************************)
EXTENDS Integers, Sequences

CONSTANTS
    TsMod,          \* timestamps are uint32_t in the code: 2^32 there
    CodecModes,     \* the settings of _enableCodec looked at
    CodecMayFail,   \* create_video_codec may return 0 on the queue thread
    FrameMayBeLost, \* toTexture may return without encoding the frame
    CodecMayHold,   \* a decoder call may return and keep its frame for later
    MetaUnits,      \* what 1000 / fps can be; 0 stands for "no metadata"
    VideoSteps,     \* intervals between the publisher's video timestamps
    AudioOffsets,   \* audio timestamp relative to the last video timestamp
    AbsFlags,       \* absTimestamp of the packets after the first one
    MaxSessions, MaxVideo, MaxAudio   \* bounds on the publisher

ASSUME TsModAssumption == TsMod \in Nat \ {0}
ASSUME ModeAssumption ==
    /\ CodecModes \subseteq BOOLEAN
    /\ CodecMayFail \in BOOLEAN
    /\ FrameMayBeLost \in BOOLEAN
    /\ CodecMayHold \in BOOLEAN
ASSUME UnitAssumption ==
    /\ MetaUnits \subseteq Nat
    /\ VideoSteps \subseteq 0 .. TsMod - 1
    /\ AudioOffsets \subseteq Nat
    /\ AbsFlags \subseteq {0, 1}
ASSUME BoundAssumption ==
    /\ MaxSessions \in Nat
    /\ MaxVideo \in Nat
    /\ MaxAudio \in Nat

VARIABLES
    \* the publisher and the RTMP thread
    enableCodec,    \* _enableCodec: decode, render and re-encode, or pass on;
                    \* set before the server is opened
    rpc,            \* where the RTMP thread is in its callbacks
    sess,           \* sessions begun so far
    metaUnit,       \* the interval announced by this session's metadata
    pubTs,          \* timestamp of the publisher's last video packet
    gotV, gotA,     \* packets published in this session
    refused,        \* the video packets refused in it (_decodec == 0)
    \* static variables
    run,            \* _queueThreadRun
    hasDataFrame,   \* _hasDataFrame
    orgTs, orgAbs,  \* _orgVideoTimestamp, _orgVideoAbsTimestamp
    fpsUnit,        \* _fpsUnit
    orgFpsUnit,     \* _orgFpsUnit
    curTs, curAbs,  \* _curVideoTimestamp, _curVideoAbsTimestamp
    decoder, encoder,  \* _decodec # 0, _encodec # 0
    videoQ, audioQ, \* _queueVideo, _queueAudio
    \* the queue thread and its codecs
    qpc,            \* where the queue thread is
    inCodec,        \* frames fed to the decoder that have not come out
    frame,          \* the frame encodeFunc was called for
    hasSent,        \* hasSendVideo
    \* what went upstream in this session, and the frames the codec gave up
    sentV, sentA, givenUp

rtmpVars  == <<enableCodec, rpc, sess, metaUnit, pubTs, gotV, gotA, refused>>
clockVars == <<hasDataFrame, orgTs, orgAbs, fpsUnit, orgFpsUnit>>
curVars   == <<curTs, curAbs>>
codecVars == <<decoder, encoder, inCodec>>
callVars  == <<frame, hasSent>>
sentVars  == <<sentV, sentA, givenUp>>
vars == <<rtmpVars, run, clockVars, curVars, codecVars, videoQ, audioQ,
          qpc, callVars, sentVars>>

Timestamp == 0 .. TsMod - 1

Audio == [id : Nat \ {0}, sess : Nat, ts : Timestamp, abs : {0, 1},
          vts : Timestamp, vabs : {0, 1}]

\* After a successful openMediaServer: both codecs exist, nothing is published.
Init ==
    /\ enableCodec \in CodecModes
    /\ rpc = "idle" /\ sess = 0 /\ metaUnit = 0 /\ pubTs = 0
    /\ gotV = 0 /\ gotA = 0 /\ refused = {}
    /\ run = FALSE
    /\ hasDataFrame = 0 /\ orgTs = 0 /\ orgAbs = 1
    /\ fpsUnit = 0 /\ orgFpsUnit = 0
    /\ curTs = 0 /\ curAbs = 1
    /\ decoder = TRUE /\ encoder = TRUE /\ inCodec = <<>>
    /\ videoQ = <<>> /\ audioQ = <<>>
    /\ qpc = "none" /\ frame = 0 /\ hasSent = FALSE
    /\ sentV = <<>> /\ sentA = <<>> /\ givenUp = {}

-----------------------------------------------------------------------------
(* The RTMP thread: session begin and end *)

StopFrame ==
    UNCHANGED <<enableCodec, sess, metaUnit, pubTs, gotV, gotA, refused,
                clockVars, curVars, codecVars, videoQ, audioQ, qpc, callVars, sentVars>>

BeginWithoutJoin ==   \* fault: the old queue thread is not waited for
    /\ rpc \in {"idle", "live"} /\ sess < MaxSessions
    /\ run' = FALSE /\ rpc' = "start"
    /\ StopFrame

\* rtmpBeginPublish up to the join: a running queue thread is told to stop.
BeginPublish ==
    /\ rpc \in {"idle", "live"} /\ sess < MaxSessions
    /\ run' = FALSE
    /\ rpc' = IF run THEN "joinBegin" ELSE "start"
    /\ StopFrame

\* _queueThread.join() of rtmpBeginPublish returns.
BeginJoined ==
    /\ rpc = "joinBegin" /\ qpc = "done"
    /\ qpc' = "none" /\ rpc' = "start"
    /\ UNCHANGED <<enableCodec, sess, metaUnit, pubTs, gotV, gotA, refused, run,
                   clockVars, curVars, codecVars, videoQ, audioQ, callVars,
                   sentVars>>

\* The rest of rtmpBeginPublish.  _fpsUnit and _orgFpsUnit keep their values.
BeginStart ==
    /\ rpc = "start"
    /\ hasDataFrame' = 0
    /\ curTs' = 0 /\ curAbs' = 1
    /\ orgTs' = 0 /\ orgAbs' = 1
    /\ run' = TRUE /\ qpc' = "release0"
    /\ rpc' = "live" /\ sess' = sess + 1
    /\ metaUnit' \in MetaUnits
    /\ pubTs' = 0 /\ gotV' = 0 /\ gotA' = 0 /\ refused' = {}
    /\ sentV' = <<>> /\ sentA' = <<>> /\ givenUp' = {}
    /\ UNCHANGED <<enableCodec, fpsUnit, orgFpsUnit, codecVars, videoQ, audioQ,
                   callVars>>

ExitWithoutStop ==   \* fault: the queue thread is not told to stop
    rpc = "live" /\ run' = run /\ rpc' = "joinExit" /\ StopFrame

\* rtmpThreadExitCallback up to the join.
ExitCallback ==
    rpc = "live" /\ run' = FALSE /\ rpc' = "joinExit" /\ StopFrame

ExitJoined ==
    /\ rpc = "joinExit" /\ qpc = "done"
    /\ qpc' = "none" /\ rpc' = "idle"
    /\ UNCHANGED <<enableCodec, sess, metaUnit, pubTs, gotV, gotA, refused, run,
                   clockVars, curVars, codecVars, videoQ, audioQ, callVars,
                   sentVars>>

-----------------------------------------------------------------------------
(* The RTMP thread: packets *)

\* The timestamp of the publisher's next video packet.
NextVideoTs == IF gotV = 0 THEN {0}
               ELSE {(pubTs + d) % TsMod : d \in VideoSteps}

\* A publisher's first packet carries an absolute timestamp.
AbsOf(first) == IF first THEN {1} ELSE AbsFlags

\* The interval rtmpVideoReceiv leaves in _fpsUnit for a packet of time ts.
MeasuredUnit(ts, unit) ==
    IF orgTs = 0 THEN unit ELSE IF ts > orgTs THEN ts - orgTs ELSE fpsUnit

\* rtmpVideoReceiv while there is no decoder: the packet is dropped.
RefuseVideo ==
    /\ rpc = "live" /\ gotV < MaxVideo
    /\ ~decoder
    /\ gotV' = gotV + 1 /\ refused' = refused \cup {gotV + 1}
    /\ pubTs' \in NextVideoTs
    /\ UNCHANGED <<enableCodec, rpc, sess, metaUnit, gotA, run, clockVars,
                   curVars, codecVars, videoQ, audioQ, qpc, callVars, sentVars>>

\* rtmpVideoReceiv.  The first media packet of a session reads the metadata.
ReceiveVideo ==
    /\ rpc = "live" /\ gotV < MaxVideo
    /\ decoder
    /\ \E ts \in NextVideoTs, abs \in AbsOf(gotV = 0) :
        LET unit == IF hasDataFrame = 0 /\ metaUnit > 0
                    THEN metaUnit ELSE orgFpsUnit
        IN  /\ orgFpsUnit' = unit
            /\ fpsUnit' = MeasuredUnit(ts, unit)
            /\ orgTs' = ts /\ orgAbs' = abs /\ pubTs' = ts
    /\ hasDataFrame' = 1
    /\ gotV' = gotV + 1
    /\ videoQ' = Append(videoQ, gotV + 1)
    /\ UNCHANGED <<enableCodec, rpc, sess, metaUnit, gotA, refused, run,
                   curVars, codecVars, audioQ, qpc, callVars, sentVars>>

\* rtmpAudioReceiv: the packet is bound to the last video packet received.
\* Its metadata branch does not set _orgFpsUnit.
ReceiveAudio ==
    /\ rpc = "live" /\ gotA < MaxAudio
    /\ \E o \in AudioOffsets, abs \in AbsOf(gotA = 0) :
        audioQ' = Append(audioQ, [id |-> gotA + 1, sess |-> sess,
                                  ts |-> (pubTs + o) % TsMod, abs |-> abs,
                                  vts |-> orgTs, vabs |-> orgAbs])
    /\ hasDataFrame' = 1
    /\ gotA' = gotA + 1
    /\ UNCHANGED <<enableCodec, rpc, sess, metaUnit, pubTs, gotV, refused, run,
                   orgTs, orgAbs, fpsUnit, orgFpsUnit, curVars, codecVars, videoQ, qpc,
                   callVars, sentVars>>

-----------------------------------------------------------------------------
(* The queue thread *)

\* The next two steps are createVideoCodec, called first by the thread: the
\* codecs of openMediaServer are released, then new ones are made.  Its result
\* is ignored; an encoder is only tried for when there is a decoder.
ReleaseOldCodecs ==
    /\ qpc = "release0"
    /\ decoder' = FALSE /\ encoder' = FALSE /\ inCodec' = <<>>
    /\ qpc' = "create"
    /\ UNCHANGED <<rtmpVars, run, clockVars, curVars, videoQ, audioQ, callVars,
                   sentVars>>

CreateCodecs ==
    /\ qpc = "create"
    /\ decoder' \in {TRUE, ~CodecMayFail}
    /\ encoder' \in {decoder', decoder' /\ ~CodecMayFail}
    /\ qpc' = "loop"
    /\ UNCHANGED <<rtmpVars, run, clockVars, curVars, inCodec, videoQ, audioQ,
                   callVars, sentVars>>

\* The head of the video queue is decoded, or passed to encodeFunc as it is.
\* decode_to_rgba does nothing where there is no decoder.
TakeVideo ==
    /\ qpc = "loop" /\ run
    /\ videoQ # <<>>
    /\ qpc' = IF enableCodec THEN "decode" ELSE "encode"
    /\ inCodec' = IF enableCodec /\ decoder THEN Append(inCodec, Head(videoQ))
                  ELSE inCodec
    /\ givenUp' = IF enableCodec /\ ~decoder THEN givenUp \cup {Head(videoQ)}
                  ELSE givenUp
    /\ frame' = IF enableCodec THEN frame ELSE Head(videoQ)
    /\ UNCHANGED <<rtmpVars, run, clockVars, curVars, decoder, encoder, videoQ,
                   audioQ, hasSent, sentV, sentA>>

\* Inside decode_to_rgba: a decoded frame is rendered and encoded, which calls
\* encodeFunc; or decodeFunc / toTexture gives it up; or the decoder returns.
FrameEncoded ==
    /\ qpc = "decode" /\ encoder
    /\ inCodec # <<>>
    /\ frame' = Head(inCodec) /\ inCodec' = Tail(inCodec)
    /\ qpc' = "encode"
    /\ UNCHANGED <<rtmpVars, run, clockVars, curVars, decoder, encoder, videoQ,
                   audioQ, hasSent, sentVars>>

FrameLost ==
    /\ qpc = "decode"
    /\ FrameMayBeLost \/ ~encoder
    /\ inCodec # <<>>
    /\ inCodec' = Tail(inCodec) /\ givenUp' = givenUp \cup {Head(inCodec)}
    /\ UNCHANGED <<rtmpVars, run, clockVars, curVars, decoder, encoder, videoQ,
                   audioQ, qpc, callVars, sentV, sentA>>

DecodeReturns ==
    /\ qpc = "decode"
    /\ CodecMayHold \/ inCodec = <<>>
    /\ qpc' = "pop"
    /\ UNCHANGED <<rtmpVars, run, clockVars, curVars, codecVars, videoQ, audioQ,
                   callVars, sentVars>>

\* encodeFunc: the output clock moves on by the mean of the announced and the
\* last measured interval.
UnwrappedClock ==   \* fault: the clock is not kept to 32 bits
    IF curAbs = 1 THEN 0 ELSE curTs + (orgFpsUnit + fpsUnit) \div 2

ClockWithoutReset ==   \* fault: the first frame is not timestamp 0
    (curTs + (orgFpsUnit + fpsUnit) \div 2) % TsMod

NextClock ==
    IF curAbs = 1 THEN 0 ELSE (curTs + (orgFpsUnit + fpsUnit) \div 2) % TsMod

EncodeStart ==
    /\ qpc = "encode"
    /\ curTs' = NextClock
    /\ hasSent' = FALSE
    /\ qpc' = "audio"
    /\ UNCHANGED <<rtmpVars, run, clockVars, curAbs, codecVars, videoQ, audioQ,
                   frame, sentVars>>

\* The frame goes before this audio packet, if it has not gone already.
LateFrame(a) == a.ts > curTs /\ ~hasSent   \* fault: off by one

FrameGoesFirst(a) == a.ts >= curTs /\ ~hasSent

VideoOut(abs) == [id |-> frame, sess |-> sess, ts |-> curTs, abs |-> abs]

\* The loop of encodeFunc over the audio queue.  A head that is bound to a
\* later video timestamp neither leaves the loop nor is sent: no action is
\* enabled for it, as the thread then spins without changing anything.
SendAudio ==
    /\ qpc = "audio"
    /\ audioQ # <<>>
    /\ LET a == Head(audioQ)
       IN  /\ a.vabs <= curTs
           /\ a.vts <= curTs
           /\ hasSent' = (hasSent \/ FrameGoesFirst(a))
           /\ sentV' = IF FrameGoesFirst(a) THEN Append(sentV, VideoOut(a.vabs))
                       ELSE sentV
           /\ sentA' = Append(sentA, [id |-> a.id, sess |-> a.sess, ts |-> a.ts,
                                      vts |-> a.vts, call |-> frame,
                                      after |-> Len(sentV')])
    /\ qpc' = "popAudio"
    /\ UNCHANGED <<rtmpVars, run, clockVars, curVars, codecVars, videoQ, audioQ,
                   frame, givenUp>>

PopAllAudio ==   \* fault: what was pushed meanwhile is popped too
    /\ qpc = "popAudio" /\ audioQ' = <<>> /\ qpc' = "audio"
    /\ UNCHANGED <<rtmpVars, run, clockVars, curVars, codecVars, videoQ,
                   callVars, sentVars>>

PopAudio ==
    /\ qpc = "popAudio" /\ audioQ' = Tail(audioQ) /\ qpc' = "audio"
    /\ UNCHANGED <<rtmpVars, run, clockVars, curVars, codecVars, videoQ,
                   callVars, sentVars>>

AudioLoopFrame ==
    UNCHANGED <<rtmpVars, run, clockVars, curVars, codecVars, videoQ, audioQ,
                callVars, sentVars>>

AudioLoopDrains ==   \* fault: nothing but an empty queue ends the loop
    qpc = "audio" /\ audioQ = <<>> /\ qpc' = "encodeEnd" /\ AudioLoopFrame

AudioLoopEnds ==
    /\ qpc = "audio"
    /\ audioQ # <<>> => Head(audioQ).vabs > curTs
    /\ qpc' = "encodeEnd"
    /\ AudioLoopFrame

SendAgain == Append(sentV, VideoOut(curAbs))   \* fault: hasSendVideo ignored

SendIfDue == IF hasSent THEN sentV ELSE Append(sentV, VideoOut(curAbs))

EncodeEndFrame ==
    UNCHANGED <<rtmpVars, run, clockVars, curTs, codecVars, videoQ, audioQ,
                callVars, sentA, givenUp>>

EncodeEndStillFirst ==   \* fault: _curVideoAbsTimestamp is not cleared
    /\ qpc = "encodeEnd" /\ sentV' = SendIfDue /\ curAbs' = curAbs
    /\ qpc' = IF enableCodec THEN "decode" ELSE "pop"
    /\ EncodeEndFrame

EncodeEnd ==
    /\ qpc = "encodeEnd" /\ sentV' = SendIfDue /\ curAbs' = 0
    /\ qpc' = IF enableCodec THEN "decode" ELSE "pop"
    /\ EncodeEndFrame

PopAllVideo ==   \* fault: what was pushed meanwhile is popped too
    /\ qpc = "pop" /\ videoQ' = <<>> /\ qpc' = "loop"
    /\ UNCHANGED <<rtmpVars, run, clockVars, curVars, codecVars, audioQ,
                   callVars, sentVars>>

PopVideo ==
    /\ qpc = "pop" /\ videoQ' = Tail(videoQ) /\ qpc' = "loop"
    /\ UNCHANGED <<rtmpVars, run, clockVars, curVars, codecVars, audioQ,
                   callVars, sentVars>>

\* _queueThreadRun was cleared: releaseVideoCodec, then cleanQueue.
StopLoop ==
    /\ qpc = "loop" /\ ~run
    /\ decoder' = FALSE /\ encoder' = FALSE /\ inCodec' = <<>>
    /\ qpc' = "clean"
    /\ UNCHANGED <<rtmpVars, run, clockVars, curVars, videoQ, audioQ, callVars,
                   sentVars>>

cleanQueueFrame ==
    UNCHANGED <<rtmpVars, run, clockVars, curVars, codecVars, callVars,
                sentVars>>

cleanVideoOnly ==   \* fault: the audio queue is not emptied
    qpc = "clean" /\ videoQ' = <<>> /\ audioQ' = audioQ /\ qpc' = "done"
    /\ cleanQueueFrame

cleanQueue ==
    qpc = "clean" /\ videoQ' = <<>> /\ audioQ' = <<>> /\ qpc' = "done"
    /\ cleanQueueFrame

-----------------------------------------------------------------------------
RtmpThread ==
    \/ BeginPublish \/ BeginJoined \/ BeginStart
    \/ ExitCallback \/ ExitJoined
    \/ RefuseVideo \/ ReceiveVideo \/ ReceiveAudio

Codec == FrameEncoded \/ FrameLost \/ DecodeReturns

encodeFunc ==
    EncodeStart \/ SendAudio \/ PopAudio \/ AudioLoopEnds \/ EncodeEnd

QueueThread ==
    \/ ReleaseOldCodecs \/ CreateCodecs
    \/ TakeVideo \/ Codec \/ encodeFunc \/ PopVideo
    \/ StopLoop \/ cleanQueue

Next == RtmpThread \/ QueueThread

Spec == Init /\ [][Next]_vars

\* The scheduler runs the queue thread, a join returns once its thread has
\* ended, and a begun callback goes on.  Publishing itself is never forced.
Fairness ==
    /\ WF_vars(QueueThread)
    /\ WF_vars(BeginJoined) /\ WF_vars(BeginStart) /\ WF_vars(ExitJoined)

FairSpec == Spec /\ Fairness
-----------------------------------------------------------------------------
(* Properties *)

Serving == {"release0", "create", "loop", "decode", "encode", "audio",
            "popAudio", "encodeEnd", "pop"}

RtmpTypeOK ==
    /\ rpc \in {"idle", "live", "joinBegin", "joinExit", "start"}
    /\ sess \in Nat /\ metaUnit \in Nat /\ pubTs \in Timestamp
    /\ gotV \in Nat /\ gotA \in Nat /\ refused \in SUBSET Nat

ClockTypeOK ==
    /\ hasDataFrame \in {0, 1}
    /\ orgTs \in Timestamp /\ orgAbs \in {0, 1}
    /\ fpsUnit \in Nat /\ orgFpsUnit \in Nat
    /\ curTs \in Timestamp /\ curAbs \in {0, 1}

ThreadTypeOK ==
    /\ run \in BOOLEAN /\ enableCodec \in BOOLEAN
    /\ decoder \in BOOLEAN /\ encoder \in BOOLEAN /\ hasSent \in BOOLEAN
    /\ qpc \in Serving \cup {"none", "clean", "done"}

QueueTypeOK ==
    /\ inCodec \in Seq(Nat) /\ videoQ \in Seq(Nat) /\ audioQ \in Seq(Audio)
    /\ frame \in Nat

SentVideo == [id : Nat, sess : Nat, ts : Timestamp, abs : {0, 1}]
SentAudio == [id : Nat, sess : Nat, ts : Timestamp, vts : Timestamp,
              call : Nat, after : Nat]

\* The types of the variables; the timestamps stay inside their 32 bits.
TypeOK ==
    /\ RtmpTypeOK /\ ClockTypeOK /\ ThreadTypeOK /\ QueueTypeOK
    /\ sentV \in Seq(SentVideo) /\ sentA \in Seq(SentAudio)
    /\ givenUp \in SUBSET Nat

\* The audio packets that encodeFunc has still to send: its head is popped
\* only after it was sent, and the RTMP thread may push in between.
Unsent == IF qpc = "popAudio" THEN Tail(audioQ) ELSE audioQ

\* Audio is relayed in the order of reception, each packet once, none lost
\* while the queue thread serves, and none of it from an earlier session:
\* what encodeFunc sent followed by what is queued is what was received.
AudioOnceInOrder ==
    /\ \A i \in 1 .. Len(sentA) : sentA[i].id = i /\ sentA[i].sess = sess
    /\ \A i \in 1 .. Len(Unsent) :
           Unsent[i].id = Len(sentA) + i /\ Unsent[i].sess = sess
    /\ qpc \in Serving => Len(sentA) + Len(Unsent) = gotA

Frames(q) == {q[i] : i \in 1 .. Len(q)}

\* The queue thread is past the front of the video queue and before its pop;
\* encodeFunc has moved its clock.
InWork == qpc \in {"decode", "encode", "audio", "popAudio", "encodeEnd", "pop"}
InCall == qpc \in {"audio", "popAudio", "encodeEnd"}

\* The packets the queue thread has not looked at.
Rest == IF InWork THEN Tail(videoQ) ELSE videoQ

\* The frames that are still to be relayed: queued, in the codec or at hand.
AtHand == IF qpc = "encode" \/ (InCall /\ ~hasSent) THEN {frame} ELSE {}
UnderWay == Frames(Rest) \cup Frames(inCodec) \cup AtHand

SentIds == {sentV[i].id : i \in 1 .. Len(sentV)}

VideoInOrder ==
    /\ \A i, j \in 1 .. Len(sentV) : i < j => sentV[i].id < sentV[j].id
    /\ \A i \in 1 .. Len(sentV) : sentV[i].sess = sess /\ sentV[i].id <= gotV

FramesAccounted ==
    qpc \in Serving =>
        SentIds \cup UnderWay = (1 .. gotV) \ (refused \cup givenUp)

\* Frames leave in the order of reception, each at most once and all of this
\* session, whichever of the two places in encodeFunc that send video is used;
\* and while the session is served none is lost but those that were refused or
\* that the codec gave up: every other one is relayed or under way.
VideoOnceInOrder == VideoInOrder /\ FramesAccounted

\* encodeFunc places audio around the frame it was called for.  Upstream an
\* audio packet stands after no later frame and before no earlier one; that
\* frame does go out with it; the packet is bound to no later timestamp than
\* the frame's, and if the frame comes after it, it is older than the frame.
AudioAroundItsFrame ==
    /\ \A i \in 1 .. Len(sentA), j \in 1 .. Len(sentV) :
        /\ j <= sentA[i].after => sentV[j].id <= sentA[i].call
        /\ j > sentA[i].after => sentV[j].id >= sentA[i].call
        /\ sentV[j].id = sentA[i].call =>
            /\ sentA[i].vts <= sentV[j].ts
            /\ j > sentA[i].after => sentA[i].ts < sentV[j].ts
    /\ \A i \in 1 .. Len(sentA) :
        /\ sentA[i].after <= Len(sentV)
        /\ sentA[i].call \in SentIds \/ (InCall /\ sentA[i].call = frame)

\* When the queue thread has ended, and so whenever a join has returned and a
\* new session may start, it has left no packet and no codec behind: the
\* next session starts from empty queues.
ThreadLeavesNothing ==
    (qpc = "done" \/ (qpc = "none" /\ sess > 0)) =>
        /\ videoQ = <<>> /\ audioQ = <<>> /\ inCodec = <<>>
        /\ ~decoder /\ ~encoder

\* The RTMP thread delivers packets only to a queue thread that still serves;
\* it never starts a second one beside a thread that has not been joined.
OneThreadPerSession ==
    /\ rpc = "live" => run /\ qpc \in Serving
    /\ rpc \in {"idle", "start"} => ~run /\ qpc = "none"
    /\ rpc \in {"joinBegin", "joinExit"} => ~run /\ qpc # "none"

\* When the publisher's intervals and the recorded one lie within lo .. hi and
\* no packet was refused, the output clock of encodeFunc starts at 0 and moves
\* on by lo .. hi with every frame relayed, although it is computed from the
\* interval last measured by the RTMP thread, which may be many frames ahead:
\* for a constant interval (lo = hi) it has no drift.
SteadyClock ==
    \A lo, hi \in VideoSteps :
        VideoSteps \cup {orgFpsUnit} \subseteq lo .. hi /\ refused = {} =>
            /\ sentV # <<>> => sentV[1].ts = 0
            /\ \A i \in 1 .. Len(sentV) - 1 :
                \E d \in lo .. hi : sentV[i + 1].ts = (sentV[i].ts + d) % TsMod

\* rtmpBeginPublish and rtmpThreadExitCallback return from their join.
JoinsReturn ==
    /\ rpc = "joinBegin" ~> rpc = "live"
    /\ rpc = "joinExit" ~> rpc = "idle"

\* A received video packet leaves the queue: the thread gets through it, or
\* the session ends and cleanQueue drops it.
PacketsAreTaken ==
    \A n \in 1 .. MaxVideo :
        (videoQ # <<>> /\ videoQ[1] = n) ~> (videoQ = <<>> \/ videoQ[1] # n)

\* line 539 of the source: if this video has not been sent, send it.  Each call
\* of encodeFunc comes to its end.
EncodeSendsVideo == qpc = "audio" ~> qpc = "encodeEnd"
=============================================================================
