--------------------------- MODULE DecoderOrderProofs ---------------------------
(***************************************************************************)
(* Proofs about MppDecoder: the order of the packets, the end of the        *)
(* stream, and what is left after a reset.                                  *)
(***************************************************************************)
EXTENDS DecoderSlotProofs

-----------------------------------------------------------------------------
(* The invariant: users, queues and output *)

\* The drainer and its command: counted, sent, answered (mpp_dec_control).
Controls ==
    /\ dpc \in {"free", "ready", "notify", "wait"} /\ cmd \in BOOLEAN
    /\ cmdStart \in {0, 1} /\ cmdDone \in {0, 1}
    /\ dpc \in {"free", "ready"} => ~cmd /\ cmdStart = 0 /\ cmdDone = 0
    /\ dpc = "notify" => cmd /\ cmdStart = 0 /\ cmdDone = 0
    /\ dpc = "wait" => cmdStart + cmdDone = 1 /\ (cmd <=> cmdStart = 1)

\* No task of the input queue is lost.
Queue ==
    /\ eosTask \in BOOLEAN /\ inTask \in BOOLEAN /\ free \in Nat
    /\ free + Len(port) + (IF eosTask THEN 1 ELSE 0) + (IF inTask THEN 1 ELSE 0) = PortTasks

\* The frames made of the first n packets, and those without picture.
Outs(n) == [frm : 0 .. n, size : Nat, eos : BOOLEAN, chg : BOOLEAN]

Outputs ==
    /\ out \in Seq(Outs(sent)) /\ got \in Seq(Outs(sent))
    /\ held \subseteq 1 .. sent /\ dropped \subseteq 1 .. sent

\* What the parser knows, and what it was told.
Known ==
    /\ info \in Sizes \cup {0} /\ infoSet \in Sizes \cup {0} /\ changed \in BOOLEAN
    /\ foundI \in BOOLEAN /\ commanded \in BOOLEAN /\ notify \subseteq Reset

\* A packet slot is used by the packet at hand or by a frame task whose hardware has
\* not ended.
InputsOf(s) == {s[i].input : i \in Frames(s)}
PacketSlots ==
    /\ pslots \subseteq 1 .. TaskCount
    /\ pslots \subseteq (IF tk.curr THEN {tk.input} ELSE {})
                            \cup (IF hpc = "status" THEN {} ELSE InputsOf(proc))

\* From the answer to a reset until the feeder has it, both threads have nothing.
Quiet ==
    parserSem = 1 =>
        /\ port = <<>> /\ proc = <<>> /\ done = 0 /\ ~tk.curr /\ ref = 0
        /\ hpc \in {"get", "asleep"} /\ ppc \in {"check", "asleep", "work"}

-----------------------------------------------------------------------------
(* The invariant: the line of packets *)

All == got \o out
OnDisplay == {slots[display[i]].frame : i \in DOMAIN display}
AtHand == IF tk.curr /\ ~tk.parsed THEN {tk.frm} ELSE {}
InPort == {port[i] : i \in DOMAIN port}
Below(A, B) == \A a \in A, b \in B : a < b

Ordered ==
    /\ \A i, j \in DOMAIN All : i < j /\ All[i].frm # 0 /\ All[j].frm # 0 => All[i].frm < All[j].frm
    /\ \A i, j \in DOMAIN display : i < j => slots[display[i]].frame < slots[display[j]].frame
    /\ \A i, j \in DOMAIN port : i < j => port[i] < port[j]
    /\ Below(FrmIds(All), OnDisplay \cup AtHand \cup InPort)
    /\ Below(OnDisplay, AtHand \cup InPort)
    /\ Below(AtHand, InPort)

InLine == FrmIds(All) \cup OnDisplay \cup AtHand \cup InPort
Kept ==
    /\ InLine \cup dropped = 1 .. sent
    /\ InLine \cap dropped = {}

-----------------------------------------------------------------------------
(* The invariant: the end of the stream *)

\* The last packet has left the parser.
Ended == sent = Len(stream) /\ port = <<>> /\ ~tk.curr
EosAll == \E i \in DOMAIN All : All[i].eos
LastTask ==
    /\ tk.curr => (tk.eos => tk.frm = Len(stream))
    /\ \A i \in DOMAIN proc : proc[i].eos => Ended /\ i = Len(proc)
    /\ hpc \in {"status", "clear", "push", "notify"} /\ cur.eos =>
        /\ Ended
        /\ hpc = "status" \/ (hpc = "push" /\ cur.kind # "frame") \/ proc = <<>>
    /\ EosAll => Ended /\ display = <<>>
    /\ EosIsLast

\* The inductive invariant.
OInv ==
    /\ DInv /\ Controls /\ Queue /\ Outputs /\ Known /\ PacketSlots /\ Quiet
    /\ Ordered /\ Kept /\ LastTask

-----------------------------------------------------------------------------
(* Users, queues and output *)

\* What the stream holds.
LEMMA StreamEntries ==
    ASSUME Fed, NEW i \in DOMAIN stream
    PROVE  /\ stream[i].eos \in BOOLEAN /\ stream[i].size \in Nat /\ stream[i].size \in Sizes
           /\ stream[i].eos => i = Len(stream)
           /\ stream[i].kind = "empty" => stream[i].eos
<1> DEFINE Packet == [kind : Kinds, size : Sizes, eos : BOOLEAN]
<1>1. stream \in Seq(Packet)
  BY StreamAssumption DEF Fed
<1>2. stream[i] \in Packet
  <2> HIDE DEF Packet
  <2>1. stream \in [1 .. Len(stream) -> Packet]
    BY <1>1, LenProperties
  <2> QED BY <2>1
<1>3. stream[i].size \in Nat
  BY <1>2, SizeAssumption
<1> QED BY <1>2, <1>3, StreamAssumption DEF Fed

\* Every step keeps the parts of the invariant.
LEMMA ControlsStep == OInv /\ [Next]_vars => Controls'
<1> SUFFICES ASSUME OInv, [Next]_vars PROVE Controls'
  OBVIOUS
<1> DEFINE Left == UNCHANGED <<dpc, cmd, cmdStart, cmdDone>>
<1>1. CASE PutPacket \/ PutPacketNotify \/ ResetStart \/ ResetNotify \/ ResetFlush \/ (\E
         p \in held : ReleaseFrame(p)) \/ CheckTaskWait \/ ResetPort
  <2>1. Left
    BY <1>1 DEF PutPacket, PutPacketNotify, Notify, ResetStart, ResetNotify, ResetFlush,
       ReleaseFrame, CheckTaskWait, ResetPort, WakeHal, queueVars, groupVars, infoVars,
       cmdVars, resetVars, halVars, userVars, historyVars
  <2> QED BY <2>1 DEF OInv, Controls
<1>2. CASE ResetParser \/ NoTaskLeft \/ TaskWithPacket \/ NoPacket \/ PreparePacket \/
         PutEos \/ WaitPrevious \/ SlotForParsed
  <2>1. Left
    BY <1>2 DEF ResetParser, NoTaskLeft, Working, TaskWithPacket, WithTask, NoPacket,
       PreparePacket, PutEos, PutTask, WakeHal, WaitPrevious, SlotForParsed, queueVars,
       groupVars, infoVars, cmdVars, resetVars, halVars, userVars, historyVars
  <2> QED BY <2>1 DEF OInv, Controls
<1>3. CASE ParseNothing \/ ParsePicture \/ PutInfo \/ WaitInfo \/ WaitBuffer \/ WaitMatch
         \/ PutFrame
         \/ HalRun \/ HalStatus
  <2>1. Left
    BY <1>3 DEF ParseNothing, PutTask, WakeHal, ParsePicture, PutInfo, WaitInfo,
       WaitBuffer, WaitMatch, PutFrame, HalRun, HalStatus, queueVars, groupVars, infoVars, cmdVars,
       resetVars, halVars, userVars, historyVars
  <2> QED BY <2>1 DEF OInv, Controls
<1>4. CASE HalClear \/ HalPush \/ HalPushed \/ HalNotify \/ HalReset \/ HalSleep
  <2>1. Left
    BY <1>4 DEF HalClear, Notify, HalPush, HalPushed, HalNotify, HalReset, HalSleep,
       queueVars, groupVars, infoVars, cmdVars, resetVars, halVars, userVars, historyVars
  <2> QED BY <2>1 DEF OInv, Controls
<1>5. CASE GetFrame
  <2>1. /\ dpc = "free" /\ dpc' \in {"free", "ready"} /\ UNCHANGED <<cmd, cmdStart, cmdDone>>
    BY <1>5 DEF GetFrame, cmdVars
  <2> QED BY <2>1 DEF OInv, Controls
<1>6. CASE ControlSend
  <2>1. dpc = "ready" /\ dpc' = "notify" /\ cmd' = TRUE /\ UNCHANGED <<cmdStart, cmdDone>>
    BY <1>6 DEF ControlSend
  <2> QED BY <2>1 DEF OInv, Controls
<1>7. CASE ControlNotify
  <2>1. dpc = "notify" /\ dpc' = "wait" /\ cmdStart' = cmdStart + 1 /\ UNCHANGED <<cmd, cmdDone>>
    BY <1>7 DEF ControlNotify
  <2>2. cmd' \in BOOLEAN
    BY <2>1, Zenon DEF OInv, Controls
  <2> QED BY <2>1, <2>2 DEF OInv, Controls
<1>8. CASE ControlDone
  <2>1. /\ dpc = "wait" /\ dpc' = "free" /\ cmdDone > 0 /\ cmdDone' = cmdDone - 1
        /\ UNCHANGED <<cmd, cmdStart>>
    BY <1>8 DEF ControlDone
  <2>2. cmd' \in BOOLEAN
    BY <2>1, Zenon DEF OInv, Controls
  <2> QED BY <2>1, <2>2 DEF OInv, Controls
<1>9. CASE ProcessControl
  <2>1. /\ cmd /\ cmdStart > 0 /\ cmdStart' = cmdStart - 1 /\ cmdDone' = cmdDone + 1
        /\ cmd' = FALSE /\ dpc' = dpc
    BY <1>9 DEF ProcessControl, userVars
  <2>2. dpc = "wait" /\ cmdStart = 1 /\ cmdDone = 0
    BY <2>1 DEF OInv, Controls
  <2>3. cmd' \in BOOLEAN /\ ~cmd'
    BY <2>1, Zenon
  <2>4. cmdStart' = 0 /\ cmdDone' = 1 /\ dpc' = "wait"
    BY <2>1, <2>2
  <2> QED BY <2>3, <2>4 DEF Controls
<1>10. CASE UNCHANGED vars
  <2>1. Left
    BY <1>10 DEF vars, queueVars, groupVars, infoVars, cmdVars, resetVars, halVars,
       userVars, historyVars
  <2> QED BY <2>1 DEF OInv, Controls
<1> QED BY <1>1, <1>2, <1>3, <1>4, <1>5, <1>6, <1>7, <1>8, <1>9, <1>10 DEF Next, GoOn,
       FeederGoesOn, Drainer, Parser, Hal

\* put_packet takes tasks from the queue, the parser gives them back.
LEMMA QueueStep == OInv /\ [Next]_vars => Queue'
<1> SUFFICES ASSUME OInv, [Next]_vars PROVE Queue'
  OBVIOUS
<1> DEFINE Left == UNCHANGED queueVars
<1>1. CASE ResetStart \/ ResetNotify \/ ResetFlush \/ GetFrame \/ (\E p \in held :
         ReleaseFrame(p)) \/ ControlSend \/ ControlNotify \/ ControlDone
  <2>1. Left
    BY <1>1 DEF ResetStart, ResetNotify, Notify, ResetFlush, GetFrame, ReleaseFrame,
       ControlSend, ControlNotify, ControlDone, queueVars, groupVars, infoVars, cmdVars,
       resetVars, halVars, userVars, historyVars
  <2> QED BY <2>1 DEF OInv, Queue, queueVars
<1>2. CASE CheckTaskWait \/ ProcessControl \/ ResetParser \/ NoTaskLeft \/ TaskWithPacket
         \/ NoPacket \/ WaitPrevious \/ SlotForParsed
  <2>1. Left
    BY <1>2 DEF CheckTaskWait, ProcessControl, ResetParser, NoTaskLeft, Working,
       TaskWithPacket, WithTask, NoPacket, WaitPrevious, SlotForParsed, queueVars,
       groupVars, infoVars, cmdVars, resetVars, halVars, userVars, historyVars
  <2> QED BY <2>1 DEF OInv, Queue, queueVars
<1>3. CASE ParseNothing \/ ParsePicture \/ PutInfo \/ WaitInfo \/ WaitBuffer \/ WaitMatch
         \/ PutFrame
         \/ HalRun \/ HalStatus
  <2>1. Left
    BY <1>3 DEF ParseNothing, PutTask, WakeHal, ParsePicture, PutInfo, WaitInfo,
       WaitBuffer, WaitMatch, PutFrame, HalRun, HalStatus, queueVars, groupVars, infoVars, cmdVars,
       resetVars, halVars, userVars, historyVars
  <2> QED BY <2>1 DEF OInv, Queue, queueVars
<1>4. CASE HalClear \/ HalPush \/ HalPushed \/ HalNotify \/ HalReset \/ HalSleep
  <2>1. Left
    BY <1>4 DEF HalClear, Notify, HalPush, HalPushed, HalNotify, HalReset, HalSleep,
       queueVars, groupVars, infoVars, cmdVars, resetVars, halVars, userVars, historyVars
  <2> QED BY <2>1 DEF OInv, Queue, queueVars
<1>5. CASE PutPacket
  <2> DEFINE eos == stream[sent + 1].eos
  <2>1. eos \in BOOLEAN
    <3>1. sent + 1 \in DOMAIN stream
      BY <1>5 DEF PutPacket
    <3>2. \A i \in DOMAIN stream : stream[i].eos \in BOOLEAN
      BY StreamEntries DEF OInv, DInv
    <3> QED BY <3>1, <3>2
  <2>2. /\ port' = Append(port, sent + 1) /\ eosTask' = ~eos /\ inTask' = (inTask /\ eos)
        /\ free >= (IF eosTask THEN 0 ELSE 1) + (IF eos \/ inTask THEN 0 ELSE 1)
        /\ free' = free - ((IF eosTask THEN 0 ELSE 1) + (IF eos \/ inTask THEN 0 ELSE 1))
    BY <1>5 DEF PutPacket, Reserve
  <2>3. Len(port') = Len(port) + 1 /\ Len(port) \in Nat
    BY <2>2 DEF OInv, DInv, Fed
  <2> HIDE DEF eos
  <2>4. eosTask' \in BOOLEAN /\ inTask' \in BOOLEAN
    BY <2>2, Zenon
  <2>5. free' \in Nat
    BY <2>2 DEF OInv, Queue
  <2>6. free' + Len(port') + (IF eosTask' THEN 1 ELSE 0) + (IF inTask' THEN 1 ELSE 0) = PortTasks
    <3>1. CASE eos
      <4>1. ~eosTask' /\ (inTask' <=> inTask)
        BY <2>2, <3>1, Zenon DEF OInv, Queue
      <4>2. free' = free - (IF eosTask THEN 0 ELSE 1)
        BY <2>2, <3>1 DEF OInv, Queue
      <4> QED BY <2>3, <4>1, <4>2 DEF OInv, Queue
    <3>2. CASE ~eos
      <4>1. eosTask' /\ ~inTask'
        BY <2>1, <2>2, <3>2, Zenon
      <4>2. free' = free - (IF eosTask THEN 0 ELSE 1) - (IF inTask THEN 0 ELSE 1)
        BY <2>2, <3>2 DEF OInv, Queue
      <4> QED BY <2>3, <4>1, <4>2 DEF OInv, Queue
    <3> QED BY <3>1, <3>2
  <2> QED BY <2>4, <2>5, <2>6 DEF Queue
<1>6. CASE PutPacketNotify
  <2>1. /\ inTask' = (inTask \/ free > 0) /\ UNCHANGED <<port, eosTask>>
        /\ free' = IF ~inTask /\ free > 0 THEN free - 1 ELSE free
    BY <1>6 DEF PutPacketNotify
  <2>2. eosTask' \in BOOLEAN /\ inTask' \in BOOLEAN
    BY <2>1, Zenon DEF OInv, Queue
  <2>3. Len(port) \in Nat
    BY DEF OInv, DInv, Fed
  <2>4. CASE ~inTask /\ free > 0
    <3>1. inTask' /\ free' = free - 1
      BY <2>1, <2>4
    <3> QED BY <2>1, <2>2, <2>3, <2>4, <3>1 DEF OInv, Queue
  <2>5. CASE ~(~inTask /\ free > 0)
    <3>1. (inTask' <=> inTask) /\ free' = free
      BY <2>1, <2>5 DEF OInv, Queue
    <3> QED BY <2>1, <2>2, <2>3, <3>1 DEF OInv, Queue
  <2> QED BY <2>4, <2>5
<1>7. CASE ResetPort
  <2>1. port' = <<>> /\ free' = free + Len(port) /\ UNCHANGED <<eosTask, inTask>>
    BY <1>7 DEF ResetPort
  <2>2. eosTask' \in BOOLEAN /\ inTask' \in BOOLEAN
    BY <2>1, Zenon DEF OInv, Queue
  <2>3. Len(port) \in Nat /\ Len(port') = 0
    BY <2>1 DEF OInv, DInv, Fed
  <2> QED BY <2>1, <2>2, <2>3 DEF OInv, Queue
<1>8. CASE PreparePacket \/ PutEos
  <2>1. port # <<>> /\ port' = Tail(port) /\ free' = free + 1 /\ UNCHANGED <<eosTask, inTask>>
    BY <1>8 DEF PreparePacket, PutEos
  <2>2. eosTask' \in BOOLEAN /\ inTask' \in BOOLEAN
    BY <2>1, Zenon DEF OInv, Queue
  <2>3. Len(port) \in Nat /\ Len(port') = Len(port) - 1
    BY <2>1 DEF OInv, DInv, Fed
  <2> QED BY <2>1, <2>2, <2>3 DEF OInv, Queue
<1>9. CASE UNCHANGED vars
  <2>1. Left
    BY <1>9 DEF vars, queueVars, groupVars, infoVars, cmdVars, resetVars, halVars, userVars,
       historyVars
  <2> QED BY <2>1 DEF OInv, Queue, queueVars
<1> QED BY <1>1, <1>2, <1>3, <1>4, <1>5, <1>6, <1>7, <1>8, <1>9 DEF Next, GoOn,
       FeederGoesOn, Drainer, Parser, Hal

\* The parser learns and is told.
LEMMA KnownStep == OInv /\ [Next]_vars => Known'
<1> SUFFICES ASSUME OInv, [Next]_vars PROVE Known'
  OBVIOUS
<1> DEFINE Left == /\ UNCHANGED <<info, infoSet, changed, foundI>> /\ notify' \subseteq notify \cup Reset
                   /\ commanded' \in {commanded, FALSE}
<1>1. CASE PutPacket \/ PutPacketNotify \/ ResetStart \/ ResetNotify \/ ResetFlush
  <2>1. Left
    BY <1>1 DEF PutPacket, PutPacketNotify, Notify, ResetStart, ResetNotify, ResetFlush,
       queueVars, groupVars, infoVars, cmdVars, resetVars, halVars, userVars, historyVars,
       FreedBuffers, Reset, WaitBits, NotifyDone
  <2> QED BY <2>1 DEF OInv, Known
<1>2. CASE GetFrame \/ (\E p \in held : ReleaseFrame(p)) \/ ControlSend \/ ControlNotify
         \/ ControlDone
  <2>1. Left
    BY <1>2 DEF GetFrame, Notify, ReleaseFrame, ControlSend, ControlNotify, ControlDone,
       queueVars, groupVars, infoVars, cmdVars, resetVars, halVars, userVars, historyVars,
       FreedBuffers, Reset, WaitBits, NotifyDone
  <2> QED BY <2>1 DEF OInv, Known
<1>3. CASE CheckTaskWait \/ ResetPort \/ NoTaskLeft \/ TaskWithPacket \/ NoPacket
  <2>1. Left
    BY <1>3 DEF CheckTaskWait, ResetPort, WakeHal, NoTaskLeft, Working, TaskWithPacket,
       WithTask, NoPacket, queueVars, groupVars, infoVars, cmdVars, resetVars, halVars,
       userVars, historyVars, FreedBuffers, Reset, WaitBits, NotifyDone
  <2> QED BY <2>1 DEF OInv, Known
<1>4. CASE PreparePacket \/ PutEos \/ WaitPrevious \/ SlotForParsed \/ ParseNothing
  <2>1. Left
    BY <1>4 DEF PreparePacket, Working, WithTask, PutEos, PutTask, WakeHal, WaitPrevious,
       SlotForParsed, ParseNothing, queueVars, groupVars, infoVars, cmdVars, resetVars,
       halVars, userVars, historyVars, FreedBuffers, Reset, WaitBits, NotifyDone
  <2> QED BY <2>1 DEF OInv, Known
<1>5. CASE PutInfo \/ WaitInfo \/ WaitBuffer \/ WaitMatch \/ PutFrame \/ HalRun
  <2>1. Left
    BY <1>5 DEF PutInfo, PutTask, WakeHal, WaitInfo, WaitBuffer, WaitMatch, PutFrame, HalRun,
       queueVars, groupVars, infoVars, cmdVars, resetVars, halVars, userVars, historyVars,
       FreedBuffers, Reset, WaitBits, NotifyDone
  <2> QED BY <2>1 DEF OInv, Known
<1>6. CASE HalStatus \/ HalClear \/ HalPush \/ HalPushed \/ HalNotify
  <2>1. Left
    BY <1>6 DEF HalStatus, HalClear, Notify, HalPush, HalPushed, HalNotify, queueVars,
       groupVars, infoVars, cmdVars, resetVars, halVars, userVars, historyVars,
       FreedBuffers, Reset, WaitBits, NotifyDone
  <2> QED BY <2>1 DEF OInv, Known
<1>7. CASE HalReset \/ HalSleep
  <2>1. Left
    BY <1>7 DEF HalReset, HalSleep, queueVars, groupVars, infoVars, cmdVars, resetVars,
       halVars, userVars, historyVars, FreedBuffers, Reset, WaitBits, NotifyDone
  <2> QED BY <2>1 DEF OInv, Known
<1>8. CASE ProcessControl
  <2>1. info' = infoSet /\ changed' = FALSE /\ commanded' = TRUE /\ UNCHANGED <<infoSet, foundI, notify>>
    BY <1>8 DEF ProcessControl
  <2> QED BY <2>1 DEF OInv, Known
<1>9. CASE ResetParser
  <2>1. UNCHANGED <<info, infoSet, changed, commanded>> /\ foundI' = FALSE
    BY <1>9 DEF ResetParser, infoVars
  <2>2. notify' \subseteq notify \cup Reset
    BY <1>9 DEF ResetParser, FreedBuffers, Reset, WaitBits
  <2> QED BY <2>1, <2>2 DEF OInv, Known
<1>10. CASE ParsePicture
  <2>1. UNCHANGED <<info, commanded>> /\ foundI' = TRUE /\ infoSet' = stream[tk.frm].size
    BY <1>10 DEF ParsePicture, historyVars
  <2>2. notify' \subseteq notify \cup Reset
    BY <1>10 DEF ParsePicture, FreedBuffers, Reset, WaitBits
  <2>3. infoSet' \in Sizes
    BY <1>10, <2>1, PacketFields DEF ParsePicture, OInv, DInv, Parses
  <2>4. changed' \in BOOLEAN
    <3>1. changed' = (changed \/ info # stream[tk.frm].size)
      BY <1>10 DEF ParsePicture, SizeChanged
    <3> QED BY <3>1, Zenon DEF OInv, Known
  <2> QED BY <2>1, <2>2, <2>3, <2>4 DEF OInv, Known
<1>11. CASE UNCHANGED vars
  <2>1. Left
    BY <1>11 DEF vars, queueVars, groupVars, infoVars, cmdVars, resetVars, halVars,
       userVars, historyVars, FreedBuffers, Reset, WaitBits, NotifyDone
  <2> QED BY <2>1 DEF OInv, Known
<1> QED BY <1>1, <1>2, <1>3, <1>4, <1>5, <1>6, <1>7, <1>8, <1>9, <1>10, <1>11 DEF Next,
       GoOn, FeederGoesOn, Drainer, Parser, Hal

\* A packet more in the stream leaves the frames what they are.
LEMMA OutsMore ==
    ASSUME NEW n \in Nat, NEW s \in Seq(Outs(n))
    PROVE  s \in Seq(Outs(n + 1))
<1>1. Outs(n) \subseteq Outs(n + 1)
  BY DEF Outs
<1>2. s \in [1 .. Len(s) -> Outs(n)] /\ Len(s) \in Nat
  BY LenProperties
<1> QED BY <1>1, <1>2, SeqDef

\* The packets that made some frames.
LEMMA FrmIdsOf ==
    ASSUME NEW n \in Nat, NEW s \in Seq(Outs(n))
    PROVE  FrmIds(s) \subseteq 1 .. n
<1>1. \A i \in DOMAIN s : s[i] \in Outs(n)
  BY ElementOfSeq, LenProperties
<1>2. \A i \in DOMAIN s : s[i].frm \in 0 .. n
  BY <1>1 DEF Outs
<1> QED BY <1>2 DEF FrmIds

\* A frame that is output, and the slot it is in.
LEMMA PushedFrame ==
    ASSUME OInv, HalPush
    PROVE  /\ out' = Append(out, Frame(cur.slot, LastIsEos)) /\ Frame(cur.slot, LastIsEos) \in Outs(sent)
           /\ cur.slot \in Slots /\ slots[cur.slot].frame \in 1 .. sent
<1>1. cur.slot \in Slots /\ Head(display) = cur.slot
  BY PushSlots DEF OInv
<1>2. display \in Seq(Slots) /\ display # <<>>
  BY PushSlots, DisplaySeq DEF OInv
<1>3. 1 \in DOMAIN display /\ display[1] = cur.slot
  BY <1>1, <1>2
<1>4. slots[cur.slot].used
  BY <1>1, <1>3 DEF OInv, DInv, Flags, Tables
<1>5. slots[cur.slot].frame \in 1 .. sent
  BY <1>1, <1>4 DEF OInv, DInv, Flags
<1>6. stream[slots[cur.slot].frame].size \in Nat
  BY <1>5, PacketFields, SizeAssumption DEF OInv, DInv
<1>7. LastIsEos \in BOOLEAN
  <2>1. cur.eos \in BOOLEAN
    <3>1. cur \in SentTasks(sent)
      BY DEF HalPush, OInv, DInv, Group
    <3> QED BY <3>1 DEF SentTasks, Tasks
  <2> QED BY <2>1, Zenon DEF LastIsEos
<1>8. Frame(cur.slot, LastIsEos) \in Outs(sent)
  <2> DEFINE b == LastIsEos
  <2>1. slots[cur.slot].frame \in 0 .. sent
    BY <1>5
  <2> HIDE DEF b
  <2> QED BY <1>6, <1>7, <2>1 DEF Frame, Outs
<1>9. out' = Append(out, Frame(cur.slot, LastIsEos))
  BY <1>1 DEF HalPush
<1> QED BY <1>1, <1>5, <1>8, <1>9

\* What an info or eos task puts into mFrmOut.
LEMMA PushedMark ==
    ASSUME OInv, HalPushed
    PROVE  \E f \in Outs(sent) :
              /\ out' = Append(out, f) /\ f.frm = 0 /\ f.eos = cur.eos
              /\ f.chg <=> cur.kind = "info"
              /\ f.chg => f.size = stream[cur.frm].size
<1> DEFINE f == [frm |-> 0, eos |-> cur.eos,
                 size |-> IF cur.kind = "info" THEN stream[cur.frm].size ELSE 0,
                 chg |-> cur.kind = "info"]
<1>1. out' = Append(out, f)
  BY DEF HalPushed
<1>2. cur \in SentTasks(sent)
  BY DEF HalPushed, OInv, DInv, Group
<1>3. cur.frm \in 1 .. sent /\ cur.eos \in BOOLEAN
  BY <1>2 DEF SentTasks, Tasks
<1>4. stream[cur.frm].size \in Nat
  BY <1>3, PacketFields, SizeAssumption DEF OInv, DInv
<1>5. f \in Outs(sent)
  <2>1. 0 \in 0 .. sent /\ f.size \in Nat
    BY <1>4, StreamLength DEF OInv, DInv
  <2> QED BY <1>3, <2>1 DEF Outs
<1>6. /\ f.frm = 0 /\ f.eos = cur.eos /\ (f.chg <=> cur.kind = "info")
      /\ f.chg => f.size = stream[cur.frm].size
  OBVIOUS
<1> HIDE DEF f
<1> QED BY <1>1, <1>5, <1>6

\* The frames in the display queue are of packets put.
LEMMA ShownFrames ==
    ASSUME OInv
    PROVE  OnDisplay \subseteq 1 .. sent
<1> SUFFICES ASSUME NEW i \in DOMAIN display PROVE slots[display[i]].frame \in 1 .. sent
  BY DEF OnDisplay
<1>1. display \in Seq(Slots)
  BY DisplaySeq DEF OInv
<1>2. display[i] \in Slots
  BY <1>1
<1> QED BY <1>2 DEF OInv, DInv, Flags, Tables

\* What the parser discards in a reset: the display queue and the packet at hand.
LEMMA ResetDropped ==
    ASSUME OInv, ResetParser
    PROVE  dropped' = dropped \cup OnDisplay \cup (IF tk.curr THEN {tk.frm} ELSE {})
<1> DEFINE n == ReadyCount(ParsedCleared(ClearCodecUse(slots, ref)))
           gone == {slots[display[i]].frame : i \in 1 .. n}
<1>1. /\ dropped' = dropped \cup gone \cup (IF tk.curr THEN {tk.frm} ELSE {})
      /\ display' = SubSeq(display, n + 1, Len(display))
  BY DEF ResetParser
<1>2. display \in Seq(Slots)
  BY DisplaySeq DEF OInv
<1>3. n \in 0 .. Len(display) /\ Len(display) \in Nat
  BY <1>2, ReadyFrames
<1> HIDE DEF n
<1>4. display' = <<>>
  BY ResetSlots DEF OInv
<1>5. n = Len(display)
  <2>1. Len(SubSeq(display, n + 1, Len(display))) = Len(display) - n
    BY <1>2, <1>3
  <2>2. Len(display') = 0
    BY <1>4, EmptySeq
  <2> QED BY <1>1, <1>3, <2>1, <2>2
<1>6. gone = OnDisplay
  BY <1>2, <1>5 DEF OnDisplay
<1> QED BY <1>1, <1>6

\* Frames output are made of packets put.
LEMMA OutputsStep == OInv /\ [Next]_vars => Outputs'
<1> SUFFICES ASSUME OInv, [Next]_vars PROVE Outputs'
  OBVIOUS
<1> DEFINE Left == UNCHANGED <<out, got, held, dropped, sent>>
<1>1. CASE PutPacketNotify \/ ResetStart \/ ResetNotify \/ ControlSend \/ ControlNotify
  <2>1. Left
    BY <1>1 DEF PutPacketNotify, Notify, ResetStart, ResetNotify, ControlSend,
       ControlNotify, queueVars, groupVars, infoVars, cmdVars, resetVars, halVars,
       userVars, historyVars
  <2> QED BY <2>1 DEF OInv, Outputs
<1>2. CASE ControlDone \/ CheckTaskWait \/ ProcessControl \/ NoTaskLeft \/ TaskWithPacket
  <2>1. Left
    BY <1>2 DEF ControlDone, Notify, CheckTaskWait, ProcessControl, NoTaskLeft, Working,
       TaskWithPacket, WithTask, queueVars, groupVars, infoVars, cmdVars, resetVars,
       halVars, userVars, historyVars
  <2> QED BY <2>1 DEF OInv, Outputs
<1>3. CASE NoPacket \/ PreparePacket \/ WaitPrevious \/ SlotForParsed \/ ParsePicture
  <2>1. Left
    BY <1>3 DEF NoPacket, Working, WithTask, PreparePacket, WaitPrevious, SlotForParsed,
       ParsePicture, queueVars, groupVars, infoVars, cmdVars, resetVars, halVars,
       userVars, historyVars
  <2> QED BY <2>1 DEF OInv, Outputs
<1>4. CASE PutInfo \/ WaitInfo \/ WaitBuffer \/ WaitMatch \/ PutFrame \/ HalRun
  <2>1. Left
    BY <1>4 DEF PutInfo, PutTask, WakeHal, WaitInfo, WaitBuffer, WaitMatch, PutFrame, HalRun,
       queueVars, groupVars, infoVars, cmdVars, resetVars, halVars, userVars, historyVars
  <2> QED BY <2>1 DEF OInv, Outputs
<1>5. CASE HalStatus \/ HalClear \/ HalNotify \/ HalSleep
  <2>1. Left
    BY <1>5 DEF HalStatus, HalClear, Notify, HalNotify, HalSleep, queueVars, groupVars,
       infoVars, cmdVars, resetVars, halVars, userVars, historyVars
  <2> QED BY <2>1 DEF OInv, Outputs
<1>6. CASE PutPacket
  <2>9. sent \in Nat
    BY StreamLength DEF OInv, DInv
  <2>1. UNCHANGED <<out, got, held, dropped>> /\ sent' = sent + 1
    BY <1>6 DEF PutPacket, historyVars
  <2>2. out' \in Seq(Outs(sent')) /\ got' \in Seq(Outs(sent'))
    BY <2>1, <2>9, OutsMore DEF OInv, Outputs
  <2> QED BY <2>1, <2>2, <2>9 DEF OInv, Outputs
<1>7. CASE ResetFlush
  <2>9. sent \in Nat
    BY StreamLength DEF OInv, DInv
  <2>1. UNCHANGED <<got, held, sent>> /\ out' = <<>> /\ dropped' = dropped \cup FrmIds(out)
    BY <1>7 DEF ResetFlush
  <2>2. out' \in Seq(Outs(sent'))
    BY <2>1, EmptySeq
  <2>3. FrmIds(out) \subseteq 1 .. sent
    BY <2>9, FrmIdsOf DEF OInv, Outputs
  <2> QED BY <2>1, <2>2, <2>3 DEF OInv, Outputs
<1>8. CASE GetFrame
  <2>9. sent \in Nat
    BY StreamLength DEF OInv, DInv
  <2>1. /\ UNCHANGED <<dropped, sent>> /\ out # <<>> /\ out' = Tail(out)
        /\ got' = Append(got, Head(out)) /\ held' = held \cup FrmIds(<<Head(out)>>)
    BY <1>8 DEF GetFrame
  <2> DEFINE S == Outs(sent)
  <2>2. out \in Seq(S) /\ got \in Seq(S)
    BY DEF OInv, Outputs
  <2>3. Head(out) \in S
    <3> HIDE DEF S
    <3> QED BY <2>1, <2>2
  <2>4. out' \in Seq(S) /\ got' \in Seq(S)
    <3> HIDE DEF S
    <3> QED BY <2>1, <2>2, <2>3
  <2>5. FrmIds(<<Head(out)>>) \subseteq 1 .. sent
    <3>1. <<Head(out)>> \in Seq(S)
      <4> HIDE DEF S
      <4> QED BY <2>3
    <3> QED BY <2>9, <3>1, FrmIdsOf
  <2> QED BY <2>1, <2>4, <2>5 DEF OInv, Outputs
<1>9. ASSUME NEW p \in held, ReleaseFrame(p) PROVE Outputs'
  <2>1. UNCHANGED <<out, got, dropped, sent>> /\ held' = held \ {p}
    BY <1>9 DEF ReleaseFrame, historyVars
  <2> QED BY <2>1 DEF OInv, Outputs
<1>10. CASE ResetPort
  <2>1. UNCHANGED <<out, got, held, sent>> /\ dropped' = dropped \cup ToSet(port)
    BY <1>10 DEF ResetPort, userVars
  <2>2. ToSet(port) \subseteq 1 .. sent
    BY DEF OInv, DInv, Fed, ToSet
  <2> QED BY <2>1, <2>2 DEF OInv, Outputs
<1>11. CASE ResetParser
  <2>1. UNCHANGED <<out, got, held, sent>>
    BY <1>11 DEF ResetParser, userVars
  <2>2. dropped' \subseteq dropped \cup OnDisplay \cup (IF tk.curr THEN {tk.frm} ELSE {})
    BY <1>11, ResetDropped
  <2>3. OnDisplay \subseteq 1 .. sent
    BY ShownFrames
  <2>4. tk.curr => tk.frm \in 1 .. sent
    BY DEF OInv, DInv, Parses
  <2> QED BY <2>1, <2>2, <2>3, <2>4 DEF OInv, Outputs
<1>12. CASE PutEos
  <2>1. UNCHANGED <<out, got, held, sent>> /\ dropped' = dropped \cup {Head(port)} /\ port # <<>>
    BY <1>12 DEF PutEos, userVars
  <2>2. Head(port) \in 1 .. sent
    BY <2>1 DEF OInv, DInv, Fed
  <2> QED BY <2>1, <2>2 DEF OInv, Outputs
<1>13. CASE ParseNothing
  <2>1. UNCHANGED <<out, got, held, sent>> /\ dropped' = dropped \cup {tk.frm}
    BY <1>13 DEF ParseNothing, userVars
  <2>2. tk.frm \in 1 .. sent
    BY <1>13 DEF ParseNothing, OInv, DInv, Parses
  <2> QED BY <2>1, <2>2 DEF OInv, Outputs
<1>14. CASE HalPush
  <2>1. UNCHANGED <<got, held, dropped, sent>>
    BY <1>14 DEF HalPush, userVars, historyVars
  <2>2. out' \in Seq(Outs(sent))
    <3> DEFINE S == Outs(sent)
    <3>1. out \in Seq(S)
      BY DEF OInv, Outputs
    <3>2. PICK f \in S : out' = Append(out, f)
      BY <1>14, PushedFrame
    <3> HIDE DEF S
    <3>3. out' \in Seq(S)
      BY <3>1, <3>2
    <3> QED BY <3>3 DEF S
  <2> QED BY <2>1, <2>2 DEF OInv, Outputs
<1>15. CASE HalPushed
  <2>1. UNCHANGED <<got, held, dropped, sent>>
    BY <1>15 DEF HalPushed, userVars, historyVars
  <2>2. out' \in Seq(Outs(sent))
    <3> DEFINE S == Outs(sent)
    <3>1. out \in Seq(S)
      BY DEF OInv, Outputs
    <3>2. PICK f \in S : out' = Append(out, f)
      BY <1>15, PushedMark
    <3> HIDE DEF S
    <3>3. out' \in Seq(S)
      BY <3>1, <3>2
    <3> QED BY <3>3 DEF S
  <2> QED BY <2>1, <2>2 DEF OInv, Outputs
<1>16. CASE HalReset
  <2>1. UNCHANGED <<out, got, held, dropped, sent>>
    BY <1>16, HalResetSlots DEF HalReset, userVars, historyVars, OInv
  <2> QED BY <2>1 DEF OInv, Outputs
<1>17. CASE UNCHANGED vars
  <2>1. Left
    BY <1>17 DEF vars, queueVars, groupVars, infoVars, cmdVars, resetVars, halVars,
       userVars, historyVars
  <2> QED BY <2>1 DEF OInv, Outputs
<1> QED BY <1>1, <1>2, <1>3, <1>4, <1>5, <1>6, <1>7, <1>8, <1>9, <1>10, <1>11, <1>12,
       <1>13, <1>14, <1>15, <1>16, <1>17 DEF Next, GoOn, FeederGoesOn, Drainer, Parser,
       Hal

-----------------------------------------------------------------------------
(* Packet slots *)

\* A task sent adds at most its own packet slot.
LEMMA InputsSent ==
    ASSUME NEW s, IsSeq(s), NEW e
    PROVE  InputsOf(Append(s, e)) = InputsOf(s) \cup (IF e.kind = "frame" THEN {e.input} ELSE {})
<1> DEFINE S == {s[i] : i \in DOMAIN s} \cup {e}
           t == Append(s, e)
<1>1. s \in Seq(S)
  BY DEF IsSeq
<1>2. /\ \A i \in DOMAIN s : t[i] = s[i]
      /\ t[Len(s) + 1] = e
  BY <1>1, AppendProperties, LenProperties
<1>3. Frames(t) = Frames(s) \cup (IF e.kind = "frame" THEN {Len(s) + 1} ELSE {})
  BY AppendSeq
<1>4. Frames(s) \subseteq DOMAIN s
  BY DEF Frames
<1> HIDE DEF t
<1>5. InputsOf(t) = {t[i].input : i \in Frames(s)} \cup (IF e.kind = "frame" THEN {e.input} ELSE {})
  BY <1>2, <1>3 DEF InputsOf
<1>6. {t[i].input : i \in Frames(s)} = InputsOf(s)
  BY <1>2, <1>4 DEF InputsOf
<1> QED BY <1>5, <1>6 DEF t

\* Taking back a task without picture frees no packet slot.
LEMMA InputsTaken ==
    ASSUME NEW s, IsSeq(s), s # <<>>, s[1].kind # "frame"
    PROVE  InputsOf(s) \subseteq InputsOf(Tail(s))
<1> DEFINE S == {s[i] : i \in DOMAIN s}
           t == Tail(s)
<1>1. s \in Seq(S)
  BY DEF IsSeq
<1>2. DOMAIN s = 1 .. Len(s) /\ Len(s) \in Nat \ {0}
  BY <1>1, EmptySeq, LenProperties
<1>3. \A i \in 1 .. Len(s) - 1 : t[i] = s[i + 1]
  BY <1>1, HeadTailProperties
<1>4. Frames(t) = {i \in 1 .. Len(s) - 1 : i + 1 \in Frames(s)}
  BY TailSeq
<1> HIDE DEF t
<1>5. ASSUME NEW i \in Frames(s) PROVE s[i].input \in InputsOf(t)
  <2>1. i - 1 \in 1 .. Len(s) - 1 /\ (i - 1) + 1 = i
    BY <1>2, <1>5 DEF Frames
  <2>2. i - 1 \in Frames(t) /\ t[i - 1] = s[i]
    BY <1>3, <1>4, <1>5, <2>1
  <2> QED BY <2>2 DEF InputsOf
<1> QED BY <1>5 DEF InputsOf, t

\* A task without picture keeps no packet slot.
LEMMA NoInputSent ==
    ASSUME IInv, NEW kind, kind # "frame", NEW t, PutTask(kind, t)
    PROVE  InputsOf(proc') = InputsOf(proc) /\ hpc' = (IF hpc = "asleep" THEN "get" ELSE hpc)
<1>1. proc' = Append(proc, TaskInfo(kind, t)) /\ hpc' = (IF hpc = "asleep" THEN "get" ELSE hpc)
  BY DEF PutTask, WakeHal
<1>2. TaskInfo(kind, t).kind # "frame"
  BY DEF TaskInfo
<1> QED BY <1>1, <1>2, InputsSent DEF IInv

\* Packet slots are given back when the hardware has ended.
LEMMA PacketSlotsStep == OInv /\ [Next]_vars => PacketSlots'
<1> SUFFICES ASSUME OInv, [Next]_vars PROVE PacketSlots'
  OBVIOUS
<1> DEFINE Left == /\ UNCHANGED <<pslots, proc>> /\ tk'.curr = tk.curr /\ tk'.input = tk.input
                   /\ hpc' = "status" => hpc = "status"
<1>1. CASE PutPacket \/ PutPacketNotify \/ ResetStart \/ ResetNotify
  <2>1. Left
    BY <1>1 DEF PutPacket, PutPacketNotify, Notify, ResetStart, ResetNotify, queueVars,
       groupVars, infoVars, cmdVars, resetVars, halVars, userVars, historyVars, OInv,
       DInv, Parses, ParserTasks
  <2> QED BY <2>1 DEF OInv, PacketSlots
<1>2. CASE ResetFlush \/ GetFrame \/ (\E p \in held : ReleaseFrame(p)) \/ ControlSend
  <2>1. Left
    BY <1>2 DEF ResetFlush, Notify, GetFrame, ReleaseFrame, ControlSend, queueVars,
       groupVars, infoVars, cmdVars, resetVars, halVars, userVars, historyVars, OInv,
       DInv, Parses, ParserTasks
  <2> QED BY <2>1 DEF OInv, PacketSlots
<1>3. CASE ControlNotify \/ ControlDone \/ CheckTaskWait \/ ProcessControl
  <2>1. Left
    BY <1>3 DEF ControlNotify, Notify, ControlDone, CheckTaskWait, ProcessControl,
       queueVars, groupVars, infoVars, cmdVars, resetVars, halVars, userVars, historyVars,
       OInv, DInv, Parses, ParserTasks
  <2> QED BY <2>1 DEF OInv, PacketSlots
<1>4. CASE ResetPort \/ NoTaskLeft \/ TaskWithPacket \/ NoPacket
  <2>1. Left
    BY <1>4 DEF ResetPort, WakeHal, NoTaskLeft, Working, TaskWithPacket, WithTask,
       NoPacket, queueVars, groupVars, infoVars, cmdVars, resetVars, halVars, userVars,
       historyVars, OInv, DInv, Parses, ParserTasks
  <2> QED BY <2>1 DEF OInv, PacketSlots
<1>5. CASE WaitPrevious \/ SlotForParsed \/ ParsePicture \/ WaitInfo
  <2>1. Left
    BY <1>5 DEF WaitPrevious, SlotForParsed, ParsePicture, WaitInfo, queueVars, groupVars,
       infoVars, cmdVars, resetVars, halVars, userVars, historyVars, OInv, DInv, Parses,
       ParserTasks
  <2> QED BY <2>1 DEF OInv, PacketSlots
<1>6. CASE WaitBuffer \/ WaitMatch \/ HalClear \/ HalPush \/ HalNotify
  <2>1. Left
    BY <1>6 DEF WaitBuffer, WaitMatch, HalClear, Notify, HalPush, HalNotify, queueVars, groupVars,
       infoVars, cmdVars, resetVars, halVars, userVars, historyVars, OInv, DInv, Parses,
       ParserTasks
  <2> QED BY <2>1 DEF OInv, PacketSlots
<1>7. CASE HalReset \/ HalSleep
  <2>1. Left
    BY <1>7 DEF HalReset, HalSleep, queueVars, groupVars, infoVars, cmdVars, resetVars,
       halVars, userVars, historyVars, OInv, DInv, Parses, ParserTasks
  <2> QED BY <2>1 DEF OInv, PacketSlots
<1>8. CASE ResetParser
  <2>1. UNCHANGED <<proc, hpc>> /\ pslots' = (IF tk.copied THEN pslots \ {tk.input} ELSE pslots)
    BY <1>8 DEF ResetParser, PacketSlotsLeft, groupVars, halVars
  <2>2. tk.curr <=> tk.copied
    BY DEF OInv, DInv, Parses
  <2> QED BY <2>1, <2>2 DEF OInv, PacketSlots
<1>9. CASE PreparePacket
  <2>1. /\ UNCHANGED <<proc, hpc>> /\ ~tk.curr
        /\ \E i \in 1 .. TaskCount : pslots' = pslots \cup {i} /\ tk' = [WithTask EXCEPT
             !.wait = @ \ {"pkt"}, !.frm = Head(port), !.curr = TRUE,
             !.eos = stream[Head(port)].eos, !.input = i, !.copied = TRUE]
    BY <1>9 DEF PreparePacket, NeedsPacket, groupVars, halVars
  <2>2. PICK i \in 1 .. TaskCount : pslots' = pslots \cup {i} /\ tk'.curr /\ tk'.input = i
    BY <2>1 DEF WithTask, OInv, DInv, Parses, ParserTasks
  <2> QED BY <2>1, <2>2 DEF OInv, PacketSlots
<1>10. CASE PutEos \/ PutInfo
  <2>1. /\ UNCHANGED pslots /\ tk'.curr = tk.curr /\ tk'.input = tk.input
        /\ \E kind \in {"eos", "info"}, t \in {tk, InfoWithoutEos, [tk EXCEPT !.frm = Head(port), !.eos = TRUE]} :
              PutTask(kind, t)
    BY <1>10 DEF PutEos, PutInfo, WithTask, OInv, DInv, Parses, ParserTasks
  <2>2. InputsOf(proc') = InputsOf(proc) /\ (hpc' = "status" => hpc = "status")
    BY <2>1, NoInputSent DEF OInv, DInv
  <2> QED BY <2>1, <2>2 DEF OInv, PacketSlots
<1>11. CASE ParseNothing
  <2>1. pslots' = pslots \ {tk.input} /\ (PutTask("eos", tk) \/ UNCHANGED <<proc, hpc>>)
    BY <1>11 DEF ParseNothing
  <2>2. InputsOf(proc') = InputsOf(proc) /\ (hpc' = "status" => hpc = "status")
    BY <2>1, NoInputSent DEF OInv, DInv
  <2> QED BY <2>1, <2>2 DEF OInv, PacketSlots
<1>12. CASE PutFrame
  <2>1. /\ UNCHANGED pslots /\ PutTask("frame", tk) /\ ppc = "info"
        /\ tk' = [NoTask EXCEPT !.prev = FALSE, !.wait = tk.wait \ {"info", "buf", "match"}]
    BY <1>12 DEF PutFrame
  <2>2. proc' = Append(proc, TaskInfo("frame", tk)) /\ hpc' = (IF hpc = "asleep" THEN "get" ELSE hpc)
    BY <2>1 DEF PutTask, WakeHal
  <2>3. TaskInfo("frame", tk).kind = "frame" /\ TaskInfo("frame", tk).input = tk.input
    BY DEF TaskInfo
  <2>4. InputsOf(proc') = InputsOf(proc) \cup {tk.input}
    BY <2>2, <2>3, InputsSent DEF OInv, DInv, IInv
  <2>5. hpc # "status"
    BY <2>1 DEF OInv, DInv, IInv, Handshake, AtWork
  <2> QED BY <2>1, <2>2, <2>4, <2>5 DEF OInv, PacketSlots
<1>13. CASE HalRun
  <2>1. /\ UNCHANGED <<proc, tk>> /\ proc # <<>> /\ hpc = "get"
        /\ pslots' = (IF Head(proc).kind = "frame" THEN pslots \ {Head(proc).input} ELSE pslots)
        /\ hpc' = (IF Head(proc).kind = "frame" THEN "status" ELSE "push")
    BY <1>13 DEF HalRun, groupVars
  <2>2. IsSeq(proc) /\ \A i, j \in Frames(proc) : i = j
    BY DEF OInv, DInv, IInv, Handshake
  <2>3. Head(proc) = proc[1] /\ (Head(proc).kind = "frame" => 1 \in Frames(proc))
    BY <2>1, <2>2, HeadSeq DEF IsSeq
  <2>4. Head(proc).kind = "frame" => InputsOf(proc) = {Head(proc).input}
    BY <2>2, <2>3 DEF InputsOf
  <2> QED BY <2>1, <2>4 DEF OInv, PacketSlots
<1>14. CASE HalStatus
  <2>1. UNCHANGED <<pslots, tk>> /\ hpc = "status" /\ hpc' = "clear"
    BY <1>14 DEF HalStatus
  <2> QED BY <2>1 DEF OInv, PacketSlots
<1>15. CASE HalPushed
  <2>1. UNCHANGED <<pslots, tk>> /\ hpc = "push" /\ cur.kind # "frame" /\ hpc' = "notify" /\ proc' = Tail(proc)
    BY <1>15 DEF HalPushed
  <2>2. proc # <<>> /\ cur = proc[1] /\ IsSeq(proc)
    BY <2>1 DEF OInv, DInv, Group, IInv
  <2>3. InputsOf(proc) \subseteq InputsOf(proc')
    BY <2>1, <2>2, InputsTaken
  <2> QED BY <2>1, <2>3 DEF OInv, PacketSlots
<1>16. CASE UNCHANGED vars
  <2>1. Left
    BY <1>16 DEF vars, queueVars, groupVars, infoVars, cmdVars, resetVars, halVars,
       userVars, historyVars, OInv, DInv, Parses, ParserTasks
  <2> QED BY <2>1 DEF OInv, PacketSlots
<1> QED BY <1>1, <1>2, <1>3, <1>4, <1>5, <1>6, <1>7, <1>8, <1>9, <1>10, <1>11, <1>12,
       <1>13, <1>14, <1>15, <1>16 DEF Next, GoOn, FeederGoesOn, Drainer, Parser, Hal

\* Only the parser's answer to a reset posts the feeder's semaphore.
LEMMA AnswerStep == (OInv /\ parserSem' = 1 /\ parserSem # 1) /\ [Next]_vars => ResetParser
<1> SUFFICES ASSUME (OInv /\ parserSem' = 1 /\ parserSem # 1), [Next]_vars PROVE ResetParser
  OBVIOUS
<1> DEFINE Left == UNCHANGED parserSem
<1>1. CASE PutPacket \/ PutPacketNotify \/ ResetStart \/ ResetNotify \/ GetFrame \/ (\E p
         \in held : ReleaseFrame(p)) \/ ControlSend \/ ControlNotify
  <2>1. Left
    BY <1>1 DEF PutPacket, PutPacketNotify, Notify, ResetStart, ResetNotify, GetFrame,
       ReleaseFrame, ControlSend, ControlNotify, queueVars, groupVars, infoVars, cmdVars,
       resetVars, halVars, userVars, historyVars
  <2> QED BY <2>1
<1>2. CASE ControlDone \/ CheckTaskWait \/ ProcessControl \/ ResetPort \/ NoTaskLeft \/
         TaskWithPacket \/ NoPacket \/ PreparePacket
  <2>1. Left
    BY <1>2 DEF ControlDone, Notify, CheckTaskWait, ProcessControl, ResetPort, WakeHal,
       NoTaskLeft, Working, TaskWithPacket, WithTask, NoPacket, PreparePacket, queueVars,
       groupVars, infoVars, cmdVars, resetVars, halVars, userVars, historyVars
  <2> QED BY <2>1
<1>3. CASE PutEos \/ WaitPrevious \/ SlotForParsed \/ ParseNothing \/ ParsePicture \/
         PutInfo \/ WaitInfo \/ WaitBuffer \/ WaitMatch
  <2>1. Left
    BY <1>3 DEF PutEos, Working, WithTask, PutTask, WakeHal, WaitPrevious, SlotForParsed,
       ParseNothing, ParsePicture, PutInfo, WaitInfo, WaitBuffer, WaitMatch, queueVars, groupVars,
       infoVars, cmdVars, resetVars, halVars, userVars, historyVars
  <2> QED BY <2>1
<1>4. CASE PutFrame \/ HalRun \/ HalStatus \/ HalClear \/ HalPush \/ HalPushed \/
         HalNotify \/ HalReset
  <2>1. Left
    BY <1>4 DEF PutFrame, PutTask, WakeHal, HalRun, HalStatus, HalClear, Notify, HalPush,
       HalPushed, HalNotify, HalReset, queueVars, groupVars, infoVars, cmdVars, resetVars,
       halVars, userVars, historyVars
  <2> QED BY <2>1
<1>5. CASE HalSleep
  <2>1. Left
    BY <1>5 DEF HalSleep, queueVars, groupVars, infoVars, cmdVars, resetVars, halVars,
       userVars, historyVars
  <2> QED BY <2>1
<1>6. CASE ResetParser
  <2> QED BY <1>6
<1>7. CASE ResetFlush
  <2>1. parserSem' = parserSem - 1 /\ parserSem \in {0, 1} /\ parserSem > 0
    BY <1>7 DEF ResetFlush, OInv, DInv, Resets
  <2> QED BY <2>1
<1>8. CASE UNCHANGED vars
  <2>1. Left
    BY <1>8 DEF vars, queueVars, groupVars, infoVars, cmdVars, resetVars, halVars, userVars,
       historyVars
  <2> QED BY <2>1
<1> QED BY <1>1, <1>2, <1>3, <1>4, <1>5, <1>6, <1>7, <1>8 DEF Next, GoOn, FeederGoesOn,
       Drainer, Parser, Hal

-----------------------------------------------------------------------------
(* After a reset *)

\* Nothing comes to either thread while the feeder has the answer to take.
LEMMA StillQuiet == (OInv /\ parserSem = 1) /\ [Next]_vars => Quiet'
<1> SUFFICES ASSUME (OInv /\ parserSem = 1), [Next]_vars PROVE Quiet'
  OBVIOUS
<1>0. /\ port = <<>> /\ proc = <<>> /\ done = 0 /\ tk.curr = FALSE /\ ref = 0
      /\ hpc \in {"get", "asleep"} /\ ppc \in {"check", "asleep", "work"}
      /\ ~resetFlag /\ ~halReset /\ "curr" \in DOMAIN tk /\ fpc = "resetWait"
  <2>1. tk.curr \in BOOLEAN /\ "curr" \in DOMAIN tk
    BY DEF OInv, DInv, Parses, ParserTasks
  <2>2. ~tk.curr /\ port = <<>> /\ proc = <<>> /\ done = 0 /\ ref = 0
        /\ hpc \in {"get", "asleep"} /\ ppc \in {"check", "asleep", "work"}
    BY DEF OInv, Quiet
  <2>3. ~resetFlag /\ fpc = "resetWait"
    BY DEF OInv, DInv, Resets
  <2>4. ~halReset
    BY <2>2 DEF OInv, DInv, IInv, ResetAnswer
  <2>5. tk.curr = FALSE
    BY <2>1, <2>2, Zenon
  <2> QED BY <2>1, <2>2, <2>3, <2>4, <2>5
<1> DEFINE Left == /\ UNCHANGED <<port, proc, done, ref>> /\ tk'.curr = tk.curr
                   /\ hpc' \in {"get", "asleep"} /\ ppc' \in {"check", "asleep", "work"}
<1>1. CASE PutPacket \/ PutPacketNotify \/ ResetStart \/ ResetNotify
  <2>1. Left
    BY <1>0, <1>1 DEF PutPacket, PutPacketNotify, Notify, ResetStart, ResetNotify, queueVars,
       groupVars, infoVars, cmdVars, resetVars, halVars, userVars, historyVars
  <2> QED BY <2>1, <1>0 DEF Quiet
<1>2. CASE GetFrame \/ (\E p \in held : ReleaseFrame(p)) \/ ControlSend \/ ControlNotify
  <2>1. Left
    BY <1>0, <1>2 DEF GetFrame, Notify, ReleaseFrame, ControlSend, ControlNotify, queueVars,
       groupVars, infoVars, cmdVars, resetVars, halVars, userVars, historyVars
  <2> QED BY <2>1, <1>0 DEF Quiet
<1>3. CASE ControlDone \/ CheckTaskWait \/ ProcessControl \/ ResetPort
  <2>1. Left
    BY <1>0, <1>3 DEF ControlDone, Notify, CheckTaskWait, ProcessControl, ResetPort, WakeHal,
       queueVars, groupVars, infoVars, cmdVars, resetVars, halVars, userVars, historyVars
  <2> QED BY <2>1, <1>0 DEF Quiet
<1>4. CASE ResetParser \/ NoTaskLeft \/ TaskWithPacket \/ NoPacket
  <2>1. Left
    BY <1>0, <1>4 DEF ResetParser, NoTaskLeft, Working, TaskWithPacket, WithTask, NoPacket,
       queueVars, groupVars, infoVars, cmdVars, resetVars, halVars, userVars, historyVars
  <2> QED BY <2>1, <1>0 DEF Quiet
<1>5. CASE PreparePacket \/ PutEos \/ WaitPrevious \/ SlotForParsed
  <2>1. Left
    BY <1>0, <1>5 DEF PreparePacket, Working, WithTask, PutEos, PutTask, WakeHal, WaitPrevious,
       SlotForParsed, queueVars, groupVars, infoVars, cmdVars, resetVars, halVars,
       userVars, historyVars
  <2> QED BY <2>1, <1>0 DEF Quiet
<1>6. CASE ParseNothing \/ ParsePicture \/ PutInfo \/ WaitInfo
  <2>1. Left
    BY <1>0, <1>6 DEF ParseNothing, PutTask, WakeHal, ParsePicture, PutInfo, WaitInfo,
       queueVars, groupVars, infoVars, cmdVars, resetVars, halVars, userVars, historyVars
  <2> QED BY <2>1, <1>0 DEF Quiet
<1>7. CASE WaitBuffer \/ WaitMatch \/ PutFrame \/ HalRun \/ HalStatus
  <2>1. Left
    BY <1>0, <1>7 DEF WaitBuffer, WaitMatch, PutFrame, PutTask, WakeHal, HalRun, HalStatus,
       queueVars,
       groupVars, infoVars, cmdVars, resetVars, halVars, userVars, historyVars
  <2> QED BY <2>1, <1>0 DEF Quiet
<1>8. CASE HalClear \/ HalPush \/ HalPushed \/ HalNotify
  <2>1. Left
    BY <1>0, <1>8 DEF HalClear, Notify, HalPush, HalPushed, HalNotify, queueVars, groupVars,
       infoVars, cmdVars, resetVars, halVars, userVars, historyVars
  <2> QED BY <2>1, <1>0 DEF Quiet
<1>9. CASE HalReset \/ HalSleep
  <2>1. Left
    BY <1>0, <1>9 DEF HalReset, HalSleep, queueVars, groupVars, infoVars, cmdVars, resetVars,
       halVars, userVars, historyVars
  <2> QED BY <2>1, <1>0 DEF Quiet
<1>10. CASE ResetFlush
  <2>1. parserSem' # 1
    BY <1>10 DEF ResetFlush
  <2> QED BY <2>1 DEF Quiet
<1>11. CASE UNCHANGED vars
  <2>1. Left
    BY <1>0, <1>11 DEF vars, queueVars, groupVars, infoVars, cmdVars, resetVars, halVars,
       userVars, historyVars
  <2> QED BY <2>1, <1>0 DEF Quiet
<1> QED BY <1>1, <1>2, <1>3, <1>4, <1>5, <1>6, <1>7, <1>8, <1>9, <1>10, <1>11 DEF Next,
       GoOn, FeederGoesOn, Drainer, Parser, Hal

\* The parser's answer finds every packet and task gone.
LEMMA QuietStep == OInv /\ [Next]_vars => Quiet'
<1> SUFFICES ASSUME OInv, [Next]_vars, parserSem' = 1, parserSem # 1 PROVE Quiet'
  BY StillQuiet DEF Quiet
<1>1. ResetParser
  BY AnswerStep
<1>2. /\ UNCHANGED <<port, proc, done, hpc>> /\ ppc = "reset" /\ halSem > 0
      /\ ref' = 0 /\ tk' = NoTask /\ ppc' = "check"
  BY <1>1 DEF ResetParser, queueVars, groupVars, halVars
<1>3. proc = <<>> /\ done = 0
  BY <1>2 DEF OInv, DInv, IInv, ResetAnswer
<1>4. port = <<>> /\ hpc \in {"get", "asleep"}
  BY <1>2 DEF OInv, DInv, Resets
<1>5. ~tk'.curr
  BY <1>2 DEF NoTask
<1> QED BY <1>2, <1>3, <1>4, <1>5 DEF Quiet

-----------------------------------------------------------------------------
(* The frames output and received, as one sequence *)

\* The frames received, then those in mFrmOut.
LEMMA AllFrames ==
    ASSUME OInv
    PROVE  /\ All \in Seq(Outs(sent)) /\ Len(All) = Len(got) + Len(out)
           /\ Len(got) \in Nat /\ Len(out) \in Nat /\ DOMAIN All = 1 .. Len(All)
           /\ DOMAIN got = 1 .. Len(got) /\ DOMAIN out = 1 .. Len(out)
           /\ \A i \in DOMAIN got : i \in DOMAIN All /\ All[i] = got[i]
           /\ \A i \in DOMAIN out : Len(got) + i \in DOMAIN All /\ All[Len(got) + i] = out[i]
<1> DEFINE S == Outs(sent)
<1>1. got \in Seq(S) /\ out \in Seq(S)
  BY DEF OInv, Outputs
<1> HIDE DEF S
<1>2. /\ got \o out \in Seq(S) /\ Len(got \o out) = Len(got) + Len(out)
      /\ \A i \in 1 .. Len(got) + Len(out) : (got \o out)[i] =
            IF i <= Len(got) THEN got[i] ELSE out[i - Len(got)]
  BY <1>1, ConcatProperties
<1>3. Len(got) \in Nat /\ Len(out) \in Nat /\ DOMAIN got = 1 .. Len(got) /\ DOMAIN out = 1 .. Len(out)
  BY <1>1, LenProperties
<1>4. DOMAIN All = 1 .. Len(All)
  BY <1>2, LenProperties DEF All
<1>5. ASSUME NEW i \in DOMAIN got PROVE i \in DOMAIN All /\ All[i] = got[i]
  BY <1>2, <1>3, <1>4 DEF All
<1>6. ASSUME NEW i \in DOMAIN out PROVE Len(got) + i \in DOMAIN All /\ All[Len(got) + i] = out[i]
  <2>1. Len(got) + i \in 1 .. Len(got) + Len(out) /\ ~(Len(got) + i <= Len(got)) /\ (Len(got) + i) - Len(got) = i
    BY <1>3
  <2> QED BY <1>2, <1>4, <2>1 DEF All
<1> QED BY <1>2, <1>3, <1>4, <1>5, <1>6 DEF All, S

\* A frame output comes last.
LEMMA AllPushed ==
    ASSUME OInv, NEW f \in Outs(sent), out' = Append(out, f), got' = got
    PROVE  /\ All' = Append(All, f) /\ Len(All) \in Nat
           /\ DOMAIN All = 1 .. Len(All) /\ DOMAIN All' = 1 .. Len(All) + 1
           /\ \A i \in DOMAIN All : All'[i] = All[i]
           /\ All'[Len(All) + 1] = f
           /\ FrmIds(All') = FrmIds(All) \cup ({f.frm} \ {0})
<1> DEFINE S == Outs(sent)
<1>1. got \in Seq(S) /\ out \in Seq(S) /\ All \in Seq(S)
  BY AllFrames DEF OInv, Outputs
<1> HIDE DEF S
<1>2. f \in S
  BY DEF S
<1>3. Append(out, f) = out \o <<f>> /\ Append(All, f) = All \o <<f>> /\ <<f>> \in Seq(S)
  BY <1>1, <1>2, AppendIsConcat
<1>4. All' = Append(All, f)
  BY <1>1, <1>3, ConcatAssociative DEF All
<1>5. /\ Len(All) \in Nat /\ DOMAIN All = 1 .. Len(All)
      /\ Append(All, f) \in Seq(S) /\ Len(Append(All, f)) = Len(All) + 1
      /\ \A i \in 1 .. Len(All) : Append(All, f)[i] = All[i]
      /\ Append(All, f)[Len(All) + 1] = f
  BY <1>1, <1>2, AppendProperties, LenProperties
<1>6. DOMAIN Append(All, f) = 1 .. Len(All) + 1
  BY <1>5, LenProperties
<1>7. FrmIds(Append(All, f)) = FrmIds(All) \cup ({f.frm} \ {0})
  <2> DEFINE t == Append(All, f)
  <2>1. DOMAIN t = DOMAIN All \cup {Len(All) + 1}
    BY <1>5, <1>6
  <2>2. \A i \in DOMAIN All : t[i] = All[i]
    BY <1>5
  <2>3. t[Len(All) + 1] = f
    BY <1>5
  <2> HIDE DEF t
  <2>4. {t[i].frm : i \in DOMAIN t} = {All[i].frm : i \in DOMAIN All} \cup {f.frm}
    BY <2>1, <2>2, <2>3
  <2> QED BY <2>4 DEF FrmIds, t
<1> QED BY <1>4, <1>5, <1>6, <1>7

\* The drainer takes the first frame of mFrmOut.
LEMMA AllTaken ==
    ASSUME OInv, GetFrame
    PROVE  All' = All
<1> DEFINE S == Outs(sent)
<1>1. got \in Seq(S) /\ out \in Seq(S)
  BY DEF OInv, Outputs
<1> HIDE DEF S
<1>2. out # <<>> /\ got' = Append(got, Head(out)) /\ out' = Tail(out)
  BY DEF GetFrame
<1>3. Head(out) \in S /\ Tail(out) \in Seq(S)
  BY <1>1, <1>2, HeadTailProperties
<1>4. /\ <<Head(out)>> \in Seq(S) /\ Append(got, Head(out)) = got \o <<Head(out)>>
  BY <1>1, <1>3, AppendIsConcat
<1>5. <<Head(out)>> \o Tail(out) = out
  <2> DEFINE h == Head(out)
             t == Tail(out)
             u == <<h>> \o t
  <2>1. /\ Len(t) = Len(out) - 1 /\ Len(out) \in Nat \ {0} /\ h = out[1]
        /\ \A i \in 1 .. Len(t) : t[i] = out[i + 1]
    BY <1>1, <1>2, HeadTailProperties, EmptySeq, LenProperties
  <2>2. <<h>> \in Seq(S) /\ Len(<<h>>) = 1 /\ <<h>>[1] = h /\ t \in Seq(S)
    BY <1>3, <1>4
  <2> HIDE DEF h, t
  <2>3. /\ u \in Seq(S) /\ Len(u) = 1 + Len(t)
        /\ \A i \in 1 .. 1 + Len(t) : u[i] = IF i <= 1 THEN <<h>>[i] ELSE t[i - 1]
    BY <2>2, ConcatProperties
  <2> HIDE DEF u
  <2>4. ASSUME NEW i \in 1 .. Len(u) PROVE u[i] = out[i]
    <3>1. CASE i = 1
      BY <2>1, <2>2, <2>3, <3>1
    <3>2. CASE i # 1
      <4>1. i - 1 \in 1 .. Len(t) /\ (i - 1) + 1 = i /\ ~(i <= 1)
        BY <2>1, <2>3, <3>2
      <4> QED BY <2>1, <2>3, <4>1
    <3> QED BY <3>1, <3>2
  <2>5. u = out
    BY <1>1, <2>1, <2>3, <2>4, SeqEqual
  <2> QED BY <2>5 DEF u, h, t
<1> QED BY <1>1, <1>2, <1>3, <1>4, <1>5, ConcatAssociative DEF All

\* A reset empties mFrmOut: what was received is left.
LEMMA AllFlushed ==
    ASSUME OInv, out' = <<>>, got' = got
    PROVE  /\ All' = got
           /\ FrmIds(All) = FrmIds(got) \cup FrmIds(out)
           /\ Ordered => FrmIds(got) \cap FrmIds(out) = {}
<1> DEFINE S == Outs(sent)
<1>1. got \in Seq(S) /\ out \in Seq(S)
  BY DEF OInv, Outputs
<1> HIDE DEF S
<1>2. All' = got
  BY <1>1, ConcatEmptySeq DEF All
<1>3. FrmIds(got) \cup FrmIds(out) \subseteq FrmIds(All)
  <2>1. \A i \in DOMAIN got : got[i].frm \in {All[k].frm : k \in DOMAIN All}
    BY AllFrames
  <2>2. \A i \in DOMAIN out : out[i].frm \in {All[k].frm : k \in DOMAIN All}
    BY AllFrames
  <2> QED BY <2>1, <2>2 DEF FrmIds
<1>4. ASSUME NEW k \in DOMAIN All
      PROVE  \/ k \in DOMAIN got /\ All[k] = got[k]
             \/ k - Len(got) \in DOMAIN out /\ All[k] = out[k - Len(got)]
  <2>1. /\ DOMAIN All = 1 .. Len(got) + Len(out) /\ Len(got) \in Nat /\ Len(out) \in Nat
        /\ DOMAIN got = 1 .. Len(got) /\ DOMAIN out = 1 .. Len(out)
    BY AllFrames
  <2>2. CASE k <= Len(got)
    <3>1. k \in DOMAIN got
      BY <2>1, <2>2
    <3> QED BY <3>1, AllFrames
  <2>3. CASE k > Len(got)
    <3>1. k - Len(got) \in DOMAIN out /\ Len(got) + (k - Len(got)) = k
      BY <2>1, <2>3
    <3> QED BY <3>1, AllFrames
  <2> QED BY <2>1, <2>2, <2>3
<1>5. FrmIds(All) \subseteq FrmIds(got) \cup FrmIds(out)
  BY <1>4 DEF FrmIds
<1>6. ASSUME Ordered, NEW x \in FrmIds(got) \cap FrmIds(out) PROVE FALSE
  <2>1. PICK i \in DOMAIN got : x = got[i].frm
    BY <1>6 DEF FrmIds
  <2>2. PICK k \in DOMAIN out : x = out[k].frm
    BY <1>6 DEF FrmIds
  <2>3. i \in DOMAIN All /\ Len(got) + k \in DOMAIN All /\ i < Len(got) + k
    BY <2>1, <2>2, AllFrames
  <2>4. All[i].frm = x /\ All[Len(got) + k].frm = x /\ x # 0
    BY <1>6, <2>1, <2>2, AllFrames DEF FrmIds
  <2>5. x < x
    BY <1>6, <2>3, <2>4 DEF Ordered
  <2>6. x \in Nat
    BY <1>6, <1>1, FrmIdsOf, StreamLength DEF OInv, DInv, S
  <2> QED BY <2>5, <2>6
<1> QED BY <1>2, <1>3, <1>5, <1>6

-----------------------------------------------------------------------------
(* The line of packets *)

\* The parts of the line hold packets put.
LEMMA PartsTyped ==
    ASSUME OInv
    PROVE  /\ FrmIds(All) \subseteq 1 .. sent /\ OnDisplay \subseteq 1 .. sent
           /\ AtHand \subseteq 1 .. sent /\ InPort \subseteq 1 .. sent /\ sent \in Nat
BY StreamLength DEF OInv, DInv, Kept, InLine

\* The packet at the head of the port comes before the others.
LEMMA PortTaken ==
    ASSUME OInv, port # <<>>, port' = Tail(port)
    PROVE  /\ InPort = {Head(port)} \cup InPort'
           /\ \A x \in InPort' : Head(port) < x
           /\ \A i, j \in DOMAIN port' : i < j => port'[i] < port'[j]
<1> DEFINE S == 1 .. sent
<1>1. port \in Seq(S)
  BY DEF OInv, DInv, Fed
<1> HIDE DEF S
<1>2. /\ DOMAIN port = 1 .. Len(port) /\ Len(port) \in Nat \ {0} /\ Head(port) = port[1]
      /\ DOMAIN port' = 1 .. Len(port) - 1
      /\ \A i \in 1 .. Len(port) - 1 : port'[i] = port[i + 1]
  <2>1. port' \in Seq(S) /\ Len(port') = Len(port) - 1 /\ \A i \in 1 .. Len(port') : port'[i] = port[i + 1]
    BY <1>1, HeadTailProperties
  <2>2. DOMAIN port' = 1 .. Len(port')
    BY <2>1, LenProperties
  <2> QED BY <1>1, <2>1, <2>2, EmptySeq, LenProperties
<1>3. \A i \in DOMAIN port' : i + 1 \in DOMAIN port /\ port'[i] = port[i + 1] /\ 1 < i + 1
  BY <1>2
<1>4. \A i, j \in DOMAIN port : i < j => port[i] < port[j]
  BY DEF OInv, Ordered
<1>5. 1 \in DOMAIN port
  BY <1>2
<1>6. \A x \in InPort' : Head(port) < x
  BY <1>2, <1>3, <1>4, <1>5 DEF InPort
<1>7. ASSUME NEW i \in DOMAIN port PROVE port[i] \in {Head(port)} \cup InPort'
  <2>1. CASE i = 1
    BY <1>2, <2>1
  <2>2. CASE i # 1
    <3>1. i - 1 \in DOMAIN port' /\ port'[i - 1] = port[i]
      BY <1>2, <2>2
    <3> QED BY <3>1 DEF InPort
  <2> QED BY <2>1, <2>2
<1>8. \A i \in DOMAIN port' : port'[i] \in InPort
  BY <1>3 DEF InPort
<1>9. Head(port) \in InPort
  BY <1>2, <1>5 DEF InPort
<1>10. InPort = {Head(port)} \cup InPort'
  BY <1>7, <1>8, <1>9 DEF InPort
<1>11. ASSUME NEW i \in DOMAIN port', NEW j \in DOMAIN port', i < j PROVE port'[i] < port'[j]
  <2>1. i + 1 \in DOMAIN port /\ j + 1 \in DOMAIN port /\ i + 1 < j + 1
    BY <1>2, <1>11
  <2> QED BY <1>3, <1>4, <2>1
<1> QED BY <1>6, <1>10, <1>11

\* Slots that are displayed keep their frames.
LEMMA DisplayLeft ==
    ASSUME OInv, display' = display, \A s \in Slots : slots[s].used => slots'[s].frame = slots[s].frame
    PROVE  /\ OnDisplay' = OnDisplay
           /\ \A i, j \in DOMAIN display' : i < j => slots'[display'[i]].frame < slots'[display'[j]].frame
<1>1. display \in Seq(Slots)
  BY DisplaySeq DEF OInv
<1>2. \A i \in DOMAIN display : display[i] \in Slots
  BY <1>1
<1>3. ASSUME NEW i \in DOMAIN display PROVE slots'[display[i]].frame = slots[display[i]].frame
  <2>1. slots[display[i]].queued
    BY <1>2 DEF OInv, DInv, Flags
  <2>2. slots[display[i]].used
    BY <1>2, <2>1 DEF OInv, DInv, Flags, Tables
  <2> QED BY <1>2, <2>2
<1>4. OnDisplay' = OnDisplay
  BY <1>3 DEF OnDisplay
<1>5. \A i, j \in DOMAIN display : i < j => slots[display[i]].frame < slots[display[j]].frame
  BY DEF OInv, Ordered
<1> QED BY <1>3, <1>4, <1>5

\* A frame output that comes after those before it.
LEMMA OrderPushed ==
    ASSUME NEW s, NEW t, NEW n \in Nat, DOMAIN s = 1 .. n, DOMAIN t = 1 .. n + 1,
           \A i \in DOMAIN s : t[i] = s[i],
           \A i, j \in DOMAIN s : i < j /\ s[i].frm # 0 /\ s[j].frm # 0 => s[i].frm < s[j].frm,
           t[n + 1].frm # 0 => \A a \in FrmIds(s) : a < t[n + 1].frm
    PROVE  \A i, j \in DOMAIN t : i < j /\ t[i].frm # 0 /\ t[j].frm # 0 => t[i].frm < t[j].frm
<1> SUFFICES ASSUME NEW i \in DOMAIN t, NEW j \in DOMAIN t, i < j, t[i].frm # 0, t[j].frm # 0
             PROVE  t[i].frm < t[j].frm
  OBVIOUS
<1>1. i \in DOMAIN s
  OBVIOUS
<1>2. CASE j \in DOMAIN s
  BY <1>1, <1>2
<1>3. CASE j \notin DOMAIN s
  <2>1. j = n + 1
    BY <1>3
  <2>2. t[i].frm \in FrmIds(s)
    BY <1>1 DEF FrmIds
  <2> QED BY <2>1, <2>2
<1> QED BY <1>2, <1>3

\* The frame at the head of the display queue is output.
LEMMA DisplayPushed ==
    ASSUME OInv, HalPush
    PROVE  /\ OnDisplay = {slots[cur.slot].frame} \cup OnDisplay'
           /\ \A y \in OnDisplay' : slots[cur.slot].frame < y
           /\ \A i, j \in DOMAIN display' : i < j => slots'[display'[i]].frame < slots'[display'[j]].frame
<1>1. /\ \/ display = <<cur.slot>> /\ display' = <<>>
         \/ cur.slot # ref /\ display = <<cur.slot, ref>> /\ display' = <<ref>>
      /\ slots' \in Tables
      /\ \A x \in Slots : (slots'[x].queued <=> slots[x].queued /\ x # cur.slot) /\ Keeps(slots'[x], slots[x])
  BY PushSlots DEF OInv
<1>2. CASE display = <<cur.slot>> /\ display' = <<>>
  <2>1. DOMAIN display = {1} /\ display[1] = cur.slot /\ DOMAIN display' = {}
    BY <1>2
  <2> QED BY <2>1 DEF OnDisplay
<1>3. CASE cur.slot # ref /\ display = <<cur.slot, ref>> /\ display' = <<ref>>
  <2>1. /\ DOMAIN display = {1, 2} /\ display[1] = cur.slot /\ display[2] = ref
        /\ DOMAIN display' = {1} /\ display'[1] = ref
    BY <1>3
  <2>2. ref \in Slots
    BY <2>1, DisplaySeq DEF OInv
  <2>3. slots[ref].queued
    BY <2>1, <2>2 DEF OInv, DInv, Flags
  <2>4. slots'[ref].used
    BY <1>1, <1>3, <2>2, <2>3 DEF Tables
  <2>5. slots'[ref].frame = slots[ref].frame
    BY <1>1, <2>2, <2>4 DEF Keeps
  <2>6. slots[cur.slot].frame < slots[ref].frame
    BY <2>1 DEF OInv, Ordered
  <2>7. OnDisplay = {slots[cur.slot].frame, slots[ref].frame} /\ OnDisplay' = {slots[ref].frame}
    BY <2>1, <2>5 DEF OnDisplay
  <2> QED BY <2>1, <2>6, <2>7
<1> QED BY <1>1, <1>2, <1>3

\* Each step moves packets along the line, or takes them out of it.
LEMMA LineStep == OInv /\ [Next]_vars => (Ordered /\ Kept)'
<1> SUFFICES ASSUME OInv, [Next]_vars PROVE (Ordered /\ Kept)'
  OBVIOUS
<1> DEFINE Left == /\ UNCHANGED <<out, got, display, slots, port, dropped, sent>>
                   /\ tk'.curr = tk.curr /\ tk'.parsed = tk.parsed /\ tk'.frm = tk.frm
<1>1. CASE PutPacketNotify \/ ResetStart \/ ResetNotify \/ (\E p \in held :
         ReleaseFrame(p)) \/ ControlSend
  <2>1. Left
    BY <1>1 DEF PutPacketNotify, Notify, ResetStart, ResetNotify, ReleaseFrame,
       ControlSend, queueVars, groupVars, infoVars, cmdVars, resetVars, halVars, userVars,
       historyVars, OInv, DInv, Parses, ParserTasks
  <2> QED BY <2>1 DEF OInv, Ordered, Kept, InLine, All, OnDisplay, AtHand, InPort
<1>2. CASE ControlNotify \/ ControlDone \/ CheckTaskWait \/ ProcessControl \/ NoTaskLeft
  <2>1. Left
    BY <1>2 DEF ControlNotify, Notify, ControlDone, CheckTaskWait, ProcessControl,
       NoTaskLeft, Working, queueVars, groupVars, infoVars, cmdVars, resetVars, halVars,
       userVars, historyVars, OInv, DInv, Parses, ParserTasks
  <2> QED BY <2>1 DEF OInv, Ordered, Kept, InLine, All, OnDisplay, AtHand, InPort
<1>3. CASE TaskWithPacket \/ NoPacket \/ WaitPrevious \/ SlotForParsed \/ PutInfo
  <2>1. Left
    BY <1>3 DEF TaskWithPacket, Working, WithTask, NoPacket, WaitPrevious, SlotForParsed,
       PutInfo, PutTask, WakeHal, queueVars, groupVars, infoVars, cmdVars, resetVars,
       halVars, userVars, historyVars, OInv, DInv, Parses, ParserTasks
  <2> QED BY <2>1 DEF OInv, Ordered, Kept, InLine, All, OnDisplay, AtHand, InPort
<1>4. CASE WaitInfo \/ WaitBuffer \/ WaitMatch \/ HalRun \/ HalStatus \/ HalNotify
  <2>1. Left
    BY <1>4 DEF WaitInfo, WaitBuffer, WaitMatch, HalRun, HalStatus, HalNotify, Notify, queueVars,
       groupVars, infoVars, cmdVars, resetVars, halVars, userVars, historyVars, OInv,
       DInv, Parses, ParserTasks
  <2> QED BY <2>1 DEF OInv, Ordered, Kept, InLine, All, OnDisplay, AtHand, InPort
<1>5. CASE HalSleep
  <2>1. Left
    BY <1>5 DEF HalSleep, queueVars, groupVars, infoVars, cmdVars, resetVars, halVars,
       userVars, historyVars, OInv, DInv, Parses, ParserTasks
  <2> QED BY <2>1 DEF OInv, Ordered, Kept, InLine, All, OnDisplay, AtHand, InPort
<1>6. CASE PutPacket
  <2>1. /\ UNCHANGED <<out, got, display, slots, tk, dropped>>
        /\ port' = Append(port, sent + 1) /\ sent' = sent + 1
    BY <1>6 DEF PutPacket, historyVars
  <2>2. /\ All' = All /\ OnDisplay' = OnDisplay /\ AtHand' = AtHand
    BY <2>1 DEF All, OnDisplay, AtHand
  <2>3. port \in Seq(1 .. sent) /\ sent \in Nat
    BY PartsTyped DEF OInv, DInv, Fed
  <2>4. /\ DOMAIN port = 1 .. Len(port) /\ Len(port) \in Nat /\ DOMAIN port' = 1 .. Len(port) + 1
        /\ \A i \in DOMAIN port : port'[i] = port[i] /\ port[i] \in 1 .. sent
        /\ port'[Len(port) + 1] = sent + 1
    BY <2>1, <2>3
  <2>5. InPort' = InPort \cup {sent + 1}
    <3>1. DOMAIN port' = DOMAIN port \cup {Len(port) + 1}
      BY <2>4
    <3> QED BY <2>4, <3>1 DEF InPort
  <2>6. \A i, j \in DOMAIN port' : i < j => port'[i] < port'[j]
    <3> SUFFICES ASSUME NEW i \in DOMAIN port', NEW j \in DOMAIN port', i < j
                 PROVE  port'[i] < port'[j]
      OBVIOUS
    <3>1. i \in DOMAIN port
      BY <2>4
    <3>2. CASE j \in DOMAIN port
      BY <2>4, <3>1, <3>2 DEF OInv, Ordered
    <3>3. CASE j \notin DOMAIN port
      <4>1. j = Len(port) + 1
        BY <2>4, <3>3
      <4> QED BY <2>3, <2>4, <3>1, <4>1
    <3> QED BY <3>2, <3>3
  <2>7. 1 .. sent + 1 = (1 .. sent) \cup {sent + 1} /\ \A x \in 1 .. sent : x < sent + 1
    BY <2>3
  <2>8. Ordered'
    <3>1. Below(FrmIds(All'), OnDisplay' \cup AtHand' \cup InPort')
      BY <2>2, <2>5, <2>7, PartsTyped DEF OInv, Ordered, Below
    <3>2. Below(OnDisplay', AtHand' \cup InPort') /\ Below(AtHand', InPort')
      BY <2>2, <2>5, <2>7, PartsTyped DEF OInv, Ordered, Below
    <3>3. /\ \A i, j \in DOMAIN All' : i < j /\ All'[i].frm # 0 /\ All'[j].frm # 0 => All'[i].frm < All'[j].frm
          /\ \A i, j \in DOMAIN display' : i < j => slots'[display'[i]].frame < slots'[display'[j]].frame
      BY <2>1, <2>2 DEF OInv, Ordered
    <3> QED BY <2>6, <3>1, <3>2, <3>3 DEF Ordered
  <2>9. Kept'
    <3>1. dropped \subseteq 1 .. sent
      BY DEF OInv, Outputs
    <3>2. sent + 1 \notin 1 .. sent
      BY <2>3
    <3> QED BY <2>1, <2>2, <2>5, <2>7, <3>1, <3>2, PartsTyped DEF OInv, Kept, InLine
  <2> QED BY <2>8, <2>9
<1>7. CASE ResetFlush
  <2>1. /\ UNCHANGED <<got, display, slots, tk, port, sent>>
        /\ out' = <<>> /\ dropped' = dropped \cup FrmIds(out)
    BY <1>7 DEF ResetFlush, queueVars
  <2>2. OnDisplay' = OnDisplay /\ AtHand' = AtHand /\ InPort' = InPort
    BY <2>1 DEF OnDisplay, AtHand, InPort
  <2>3. All' = got /\ FrmIds(All) = FrmIds(got) \cup FrmIds(out) /\ FrmIds(got) \cap FrmIds(out) = {}
    BY <2>1, AllFlushed DEF OInv
  <2>4. \A i, j \in DOMAIN got : i < j /\ got[i].frm # 0 /\ got[j].frm # 0 => got[i].frm < got[j].frm
    BY AllFrames DEF OInv, Ordered
  <2>5. FrmIds(out) \cap (OnDisplay \cup AtHand \cup InPort) = {}
    BY <2>3, PartsTyped DEF OInv, Ordered, Below
  <2>6. Ordered'
    BY <2>1, <2>2, <2>3, <2>4 DEF OInv, Ordered, Below
  <2>7. Kept'
    BY <2>1, <2>2, <2>3, <2>5 DEF OInv, Kept, InLine
  <2> QED BY <2>6, <2>7
<1>8. CASE GetFrame
  <2>1. UNCHANGED <<display, slots, tk, port, sent, dropped>>
    BY <1>8 DEF GetFrame, queueVars
  <2>2. All' = All
    BY <1>8, AllTaken
  <2> QED BY <2>1, <2>2 DEF OInv, Ordered, Kept, InLine, OnDisplay, AtHand, InPort
<1>9. CASE ResetPort
  <2>1. UNCHANGED <<out, got, display, slots, tk, sent>> /\ port' = <<>> /\ dropped' = dropped \cup ToSet(port)
    BY <1>9 DEF ResetPort, userVars
  <2>2. All' = All /\ OnDisplay' = OnDisplay /\ AtHand' = AtHand
    BY <2>1 DEF All, OnDisplay, AtHand
  <2>3. InPort' = {} /\ ToSet(port) = InPort /\ DOMAIN port' = {}
    BY <2>1 DEF InPort, ToSet
  <2>4. Ordered'
    BY <2>1, <2>2, <2>3 DEF OInv, Ordered, Below
  <2>5. InPort \cap (FrmIds(All) \cup OnDisplay \cup AtHand) = {}
    BY PartsTyped DEF OInv, Ordered, Below
  <2>6. Kept'
    BY <2>1, <2>2, <2>3, <2>5 DEF OInv, Kept, InLine
  <2> QED BY <2>4, <2>6
<1>10. CASE ResetParser
  <2>1. UNCHANGED <<out, got, port, sent>> /\ tk' = NoTask
    BY <1>10 DEF ResetParser, queueVars, userVars
  <2>2. display' = <<>>
    BY <1>10, ResetSlots DEF OInv
  <2>3. All' = All /\ InPort' = InPort
    BY <2>1 DEF All, InPort
  <2>4. OnDisplay' = {} /\ AtHand' = {} /\ DOMAIN display' = {}
    BY <2>1, <2>2 DEF OnDisplay, AtHand, NoTask
  <2>5. Ordered'
    BY <2>1, <2>3, <2>4 DEF OInv, Ordered, Below
  <2>6. dropped' = dropped \cup OnDisplay \cup AtHand
    <3>1. dropped' = dropped \cup OnDisplay \cup (IF tk.curr THEN {tk.frm} ELSE {})
      BY <1>10, ResetDropped
    <3>2. tk.curr /\ tk.parsed => tk.frm \in OnDisplay
      <4> SUFFICES ASSUME tk.curr, tk.parsed PROVE tk.frm \in OnDisplay
        OBVIOUS
      <4>1. Job(tk) \in Pending
        BY DEF Pending, ParsedJobs
      <4>2. display = <<ref>>
        BY <1>10, <4>1, ResetJobs DEF OInv, DInv, Shape
      <4>3. slots[ref].frame = tk.frm
        <5>1. Holds(Job(tk)) /\ Job(tk).slot = ref /\ Job(tk).frm = tk.frm
          BY <4>1 DEF OInv, DInv, Hardware, Parses, Job
        <5> QED BY <5>1 DEF Holds
      <4>4. 1 \in DOMAIN display /\ display[1] = ref
        BY <4>2
      <4> QED BY <4>3, <4>4 DEF OnDisplay
    <3> QED BY <3>1, <3>2 DEF AtHand
  <2>7. (OnDisplay \cup AtHand) \cap (FrmIds(All) \cup InPort) = {}
    BY PartsTyped DEF OInv, Ordered, Below
  <2>8. Kept'
    BY <2>1, <2>3, <2>4, <2>6, <2>7 DEF OInv, Kept, InLine
  <2> QED BY <2>5, <2>8
<1>11. CASE PreparePacket
  <2>1. /\ UNCHANGED <<out, got, display, slots, sent, dropped>> /\ ~tk.curr
        /\ port # <<>> /\ port' = Tail(port)
        /\ \E i \in 1 .. TaskCount : tk' = [WithTask EXCEPT
             !.wait = @ \ {"pkt"}, !.frm = Head(port), !.curr = TRUE,
             !.eos = stream[Head(port)].eos, !.input = i, !.copied = TRUE]
    BY <1>11 DEF PreparePacket, NeedsPacket, userVars
  <2>2. tk'.curr /\ ~tk'.parsed /\ tk'.frm = Head(port)
    BY <2>1 DEF WithTask, OInv, DInv, Parses, ParserTasks
  <2>3. All' = All /\ OnDisplay' = OnDisplay /\ AtHand = {} /\ AtHand' = {Head(port)}
    BY <2>1, <2>2 DEF All, OnDisplay, AtHand
  <2>4. /\ InPort = {Head(port)} \cup InPort' /\ \A x \in InPort' : Head(port) < x
        /\ \A i, j \in DOMAIN port' : i < j => port'[i] < port'[j]
    BY <2>1, PortTaken
  <2>5. Ordered'
    BY <2>1, <2>3, <2>4 DEF OInv, Ordered, Below
  <2>6. Kept'
    BY <2>1, <2>3, <2>4 DEF OInv, Kept, InLine
  <2> QED BY <2>5, <2>6
<1>12. CASE PutEos
  <2>1. /\ UNCHANGED <<out, got, display, slots, sent>> /\ ~tk.curr
        /\ port # <<>> /\ port' = Tail(port) /\ dropped' = dropped \cup {Head(port)}
        /\ tk' = [WithTask EXCEPT !.hnd = FALSE, !.wait = @ \ {"pkt"}]
    BY <1>12 DEF PutEos, NeedsPacket, userVars
  <2>2. ~tk'.curr
    BY <2>1 DEF WithTask, OInv, DInv, Parses, ParserTasks
  <2>3. All' = All /\ OnDisplay' = OnDisplay /\ AtHand = {} /\ AtHand' = {}
    BY <2>1, <2>2 DEF All, OnDisplay, AtHand
  <2>4. /\ InPort = {Head(port)} \cup InPort' /\ \A x \in InPort' : Head(port) < x
        /\ \A i, j \in DOMAIN port' : i < j => port'[i] < port'[j]
    BY <2>1, PortTaken
  <2>5. Ordered'
    BY <2>1, <2>3, <2>4 DEF OInv, Ordered, Below
  <2>6. Head(port) \notin FrmIds(All) \cup OnDisplay \cup InPort'
    BY <2>4, PartsTyped DEF OInv, Ordered, Below
  <2>7. Kept'
    BY <2>1, <2>3, <2>4, <2>6 DEF OInv, Kept, InLine
  <2> QED BY <2>5, <2>7
<1>13. CASE ParseNothing
  <2>1. /\ UNCHANGED <<out, got, display, slots, port, sent>> /\ dropped' = dropped \cup {tk.frm}
        /\ ppc = "slot" /\ ~tk.parsed /\ tk' = [NoTask EXCEPT !.prev = tk.prev, !.wait = tk.wait \ {"slot"}]
    BY <1>13 DEF ParseNothing, queueVars, userVars
  <2>2. tk.curr /\ ~tk'.curr
    BY <2>1 DEF NoTask, OInv, DInv, Parses
  <2>3. All' = All /\ OnDisplay' = OnDisplay /\ AtHand = {tk.frm} /\ AtHand' = {} /\ InPort' = InPort
    BY <2>1, <2>2 DEF All, OnDisplay, AtHand, InPort
  <2>4. Ordered'
    BY <2>1, <2>3 DEF OInv, Ordered, Below
  <2>5. tk.frm \notin FrmIds(All) \cup OnDisplay \cup InPort
    BY <2>3, PartsTyped DEF OInv, Ordered, Below
  <2>6. Kept'
    BY <2>1, <2>3, <2>5 DEF OInv, Kept, InLine
  <2> QED BY <2>4, <2>6
<1>14. CASE ParsePicture
  <2>1. UNCHANGED <<out, got, port, sent, dropped>> /\ ppc = "slot" /\ ~tk.parsed
    BY <1>14 DEF ParsePicture, queueVars, userVars, historyVars
  <2>2. /\ ref' \in Slots /\ ~slots[ref'].used /\ display' = Append(display, ref')
        /\ slots'[ref'].frame = tk.frm
        /\ \A x \in Slots \ {ref'} : Keeps(slots'[x], slots[x]) /\ slots'[x].queued = slots[x].queued
        /\ slots' \in Tables /\ tk'.parsed
    BY <1>14, PictureSlots, PictureJobs DEF OInv
  <2>3. tk.curr /\ AtHand = {tk.frm} /\ AtHand' = {} /\ All' = All /\ InPort' = InPort
    BY <2>1, <2>2 DEF OInv, DInv, Parses, AtHand, All, InPort
  <2>4. display \in Seq(Slots)
    BY DisplaySeq DEF OInv
  <2>5. /\ DOMAIN display = 1 .. Len(display) /\ Len(display) \in Nat
        /\ DOMAIN display' = 1 .. Len(display) + 1
        /\ \A i \in DOMAIN display : display'[i] = display[i] /\ display[i] \in Slots
        /\ display'[Len(display) + 1] = ref'
    BY <2>2, <2>4
  <2>6. ASSUME NEW i \in DOMAIN display PROVE slots'[display'[i]].frame = slots[display[i]].frame
    <3> DEFINE s == display[i]
    <3>1. s \in Slots /\ slots[s].queued /\ display'[i] = s
      BY <2>5 DEF OInv, DInv, Flags
    <3> HIDE DEF s
    <3>2. slots[s].used
      BY <3>1 DEF OInv, DInv, Flags, Tables
    <3>3. s # ref'
      BY <2>2, <3>2
    <3>4. slots'[s].used
      BY <2>2, <3>1, <3>3 DEF Tables
    <3>5. slots'[s].frame = slots[s].frame
      BY <2>2, <3>1, <3>3, <3>4 DEF Keeps
    <3> QED BY <3>1, <3>5 DEF s
  <2>7. OnDisplay' = OnDisplay \cup {tk.frm}
    <3>1. DOMAIN display' = DOMAIN display \cup {Len(display) + 1}
      BY <2>5
    <3> QED BY <2>2, <2>5, <2>6, <3>1 DEF OnDisplay
  <2>8. \A i, j \in DOMAIN display' : i < j => slots'[display'[i]].frame < slots'[display'[j]].frame
    <3> SUFFICES ASSUME NEW i \in DOMAIN display', NEW j \in DOMAIN display', i < j
                 PROVE  slots'[display'[i]].frame < slots'[display'[j]].frame
      OBVIOUS
    <3>1. i \in DOMAIN display
      BY <2>5
    <3>2. CASE j \in DOMAIN display
      BY <2>6, <3>1, <3>2 DEF OInv, Ordered
    <3>3. CASE j \notin DOMAIN display
      <4>1. j = Len(display) + 1
        BY <2>5, <3>3
      <4>2. slots[display[i]].frame \in OnDisplay
        BY <3>1 DEF OnDisplay
      <4>3. slots[display[i]].frame < tk.frm
        BY <2>3, <4>2 DEF OInv, Ordered, Below
      <4> QED BY <2>2, <2>5, <2>6, <3>1, <4>1, <4>3
    <3> QED BY <3>2, <3>3
  <2>9. Ordered'
    BY <2>1, <2>3, <2>7, <2>8 DEF OInv, Ordered, Below
  <2>10. Kept'
    BY <2>1, <2>3, <2>7 DEF OInv, Kept, InLine
  <2> QED BY <2>9, <2>10
<1>15. CASE PutFrame
  <2>1. /\ UNCHANGED <<out, got, display, port, sent, dropped>>
        /\ slots' = [slots EXCEPT ![tk.slot].buf = TRUE]
        /\ tk' = [NoTask EXCEPT !.prev = FALSE, !.wait = tk.wait \ {"info", "buf", "match"}] /\ tk.parsed
    BY <1>15 DEF PutFrame, queueVars, userVars, historyVars, OInv, DInv, Parses
  <2>2. \A s \in Slots : slots'[s].frame = slots[s].frame
    BY <2>1 DEF OInv, DInv, Flags, Tables, Entries
  <2>3. /\ OnDisplay' = OnDisplay
        /\ \A i, j \in DOMAIN display' : i < j => slots'[display'[i]].frame < slots'[display'[j]].frame
    BY <2>1, <2>2, DisplayLeft
  <2>4. AtHand = {} /\ AtHand' = {} /\ All' = All /\ InPort' = InPort
    BY <2>1 DEF NoTask, AtHand, All, InPort
  <2>5. Ordered'
    BY <2>1, <2>3, <2>4 DEF OInv, Ordered
  <2>6. Kept'
    BY <2>1, <2>3, <2>4 DEF OInv, Kept, InLine
  <2> QED BY <2>5, <2>6
<1>16. CASE HalClear
  <2>1. UNCHANGED <<out, got, display, port, sent, dropped, tk>>
    BY <1>16 DEF HalClear, queueVars, userVars, historyVars
  <2>2. \A s \in Slots : slots'[s].queued = slots[s].queued /\ Keeps(slots'[s], slots[s]) /\ slots' \in Tables
    BY <1>16, ClearSlots DEF OInv
  <2>3. ASSUME NEW i \in DOMAIN display PROVE slots'[display[i]].frame = slots[display[i]].frame
    <3> DEFINE s == display[i]
    <3>1. s \in Slots /\ slots[s].queued
      BY DisplaySeq DEF OInv, DInv, Flags
    <3> HIDE DEF s
    <3>2. slots'[s].used
      BY <2>2, <3>1 DEF Tables
    <3> QED BY <2>2, <3>1, <3>2 DEF Keeps, s
  <2>4. OnDisplay' = OnDisplay
    BY <2>1, <2>3 DEF OnDisplay
  <2>5. AtHand' = AtHand /\ All' = All /\ InPort' = InPort
    BY <2>1 DEF AtHand, All, InPort
  <2>6. Ordered'
    BY <2>1, <2>3, <2>4, <2>5 DEF OInv, Ordered
  <2>7. Kept'
    BY <2>1, <2>4, <2>5 DEF OInv, Kept, InLine
  <2> QED BY <2>6, <2>7
<1>17. CASE HalPush
  <2> DEFINE f == Frame(cur.slot, LastIsEos)
             x == slots[cur.slot].frame
  <2>1. UNCHANGED <<got, port, sent, dropped, tk>>
    BY <1>17 DEF HalPush, queueVars, userVars, historyVars
  <2>2. out' = Append(out, f) /\ f \in Outs(sent) /\ cur.slot \in Slots /\ x \in 1 .. sent /\ f.frm = x
    BY <1>17, PushedFrame DEF Frame
  <2>3. /\ DOMAIN All = 1 .. Len(All) /\ DOMAIN All' = 1 .. Len(All) + 1 /\ Len(All) \in Nat
        /\ \A i \in DOMAIN All : All'[i] = All[i]
        /\ All'[Len(All) + 1] = f
        /\ FrmIds(All') = FrmIds(All) \cup ({f.frm} \ {0})
    <3> HIDE DEF f
    <3> QED BY <2>1, <2>2, AllPushed
  <2> HIDE DEF f
  <2>4. FrmIds(All') = FrmIds(All) \cup {x}
    BY <2>2, <2>3
  <2>5. /\ OnDisplay = {x} \cup OnDisplay' /\ \A y \in OnDisplay' : x < y
        /\ \A i, j \in DOMAIN display' : i < j => slots'[display'[i]].frame < slots'[display'[j]].frame
    BY <1>17, DisplayPushed
  <2> HIDE DEF x
  <2>6. AtHand' = AtHand /\ InPort' = InPort
    BY <2>1 DEF AtHand, InPort
  <2>7. \A a \in FrmIds(All) : a < x
    BY <2>5 DEF OInv, Ordered, Below
  <2>8. \A i, j \in DOMAIN All' : i < j /\ All'[i].frm # 0 /\ All'[j].frm # 0 => All'[i].frm < All'[j].frm
    BY <2>2, <2>3, <2>7, OrderPushed DEF OInv, Ordered
  <2>9. Ordered'
    <3>1. Below(FrmIds(All'), OnDisplay' \cup AtHand' \cup InPort')
      BY <2>4, <2>5, <2>6 DEF OInv, Ordered, Below
    <3>2. Below(OnDisplay', AtHand' \cup InPort') /\ Below(AtHand', InPort')
      BY <2>5, <2>6 DEF OInv, Ordered, Below
    <3> QED BY <2>1, <2>5, <2>8, <3>1, <3>2 DEF OInv, Ordered
  <2>10. Kept'
    BY <2>1, <2>4, <2>5, <2>6 DEF OInv, Kept, InLine
  <2> QED BY <2>9, <2>10
<1>18. CASE HalPushed
  <2>1. UNCHANGED <<got, port, sent, dropped, tk, display, slots>>
    BY <1>18 DEF HalPushed, queueVars, userVars, historyVars
  <2>2. PICK f \in Outs(sent) : out' = Append(out, f) /\ f.frm = 0
    BY <1>18, PushedMark
  <2>3. /\ DOMAIN All = 1 .. Len(All) /\ DOMAIN All' = 1 .. Len(All) + 1 /\ Len(All) \in Nat
        /\ \A i \in DOMAIN All : All'[i] = All[i]
        /\ All'[Len(All) + 1] = f
        /\ FrmIds(All') = FrmIds(All) \cup ({f.frm} \ {0})
    BY <2>1, <2>2, AllPushed
  <2>4. FrmIds(All') = FrmIds(All)
    BY <2>2, <2>3
  <2>5. AtHand' = AtHand /\ InPort' = InPort /\ OnDisplay' = OnDisplay
    BY <2>1 DEF AtHand, InPort, OnDisplay
  <2>6. \A i, j \in DOMAIN All' : i < j /\ All'[i].frm # 0 /\ All'[j].frm # 0 => All'[i].frm < All'[j].frm
    BY <2>2, <2>3, OrderPushed DEF OInv, Ordered
  <2>7. Ordered'
    BY <2>1, <2>4, <2>5, <2>6 DEF OInv, Ordered
  <2>8. Kept'
    BY <2>1, <2>4, <2>5 DEF OInv, Kept, InLine
  <2> QED BY <2>7, <2>8
<1>19. CASE HalReset
  <2>1. UNCHANGED <<slots, display, out, got, tk, port, dropped, sent>>
    BY <1>19, HalResetSlots DEF HalReset, queueVars, userVars, historyVars, OInv
  <2> QED BY <2>1 DEF OInv, Ordered, Kept, InLine, All, OnDisplay, AtHand, InPort
<1>20. CASE UNCHANGED vars
  <2>1. Left
    BY <1>20 DEF vars, queueVars, groupVars, infoVars, cmdVars, resetVars, halVars,
       userVars, historyVars, OInv, DInv, Parses, ParserTasks
  <2> QED BY <2>1 DEF OInv, Ordered, Kept, InLine, All, OnDisplay, AtHand, InPort
<1> QED BY <1>1, <1>2, <1>3, <1>4, <1>5, <1>6, <1>7, <1>8, <1>9, <1>10, <1>11, <1>12,
       <1>13, <1>14, <1>15, <1>16, <1>17, <1>18, <1>19, <1>20 DEF Next, GoOn,
       FeederGoesOn, Drainer, Parser, Hal

-----------------------------------------------------------------------------
(* The end of the stream *)

\* The packet the parser has, parsed or not, comes before those in the port.
LEMMA HandBeforePort ==
    ASSUME OInv, tk.curr
    PROVE  \A x \in InPort : tk.frm < x
<1>1. CASE ~tk.parsed
  BY <1>1 DEF OInv, Ordered, Below, AtHand
<1>2. CASE tk.parsed
  <2>1. Job(tk) \in Pending
    BY <1>2 DEF Pending, ParsedJobs
  <2>2. display = <<ref>> \/ display = <<cur.slot, ref>>
    BY <2>1 DEF OInv, DInv, Shape
  <2>3. \E i \in DOMAIN display : display[i] = ref
    <3>1. CASE display = <<ref>>
      <4>1. 1 \in DOMAIN display /\ display[1] = ref
        BY <3>1
      <4> QED BY <4>1
    <3>2. CASE display = <<cur.slot, ref>>
      <4>1. 2 \in DOMAIN display /\ display[2] = ref
        BY <3>2
      <4> QED BY <4>1
    <3> QED BY <2>2, <3>1, <3>2
  <2>4. slots[ref].frame = tk.frm
    <3>1. Holds(Job(tk)) /\ Job(tk).slot = ref /\ Job(tk).frm = tk.frm
      BY <1>2, <2>1 DEF OInv, DInv, Hardware, Parses, Job
    <3> QED BY <3>1 DEF Holds
  <2>5. tk.frm \in OnDisplay
    BY <2>3, <2>4 DEF OnDisplay
  <2> QED BY <2>5 DEF OInv, Ordered, Below
<1> QED BY <1>1, <1>2

\* With the last packet out of the port, the port is empty.
LEMMA PortEnds ==
    ASSUME OInv, NEW q, q \in Seq(1 .. sent), NEW p \in 1 .. sent, p = Len(stream),
           \A x \in {q[i] : i \in DOMAIN q} : p < x
    PROVE  q = <<>> /\ sent = Len(stream)
<1>1. sent = Len(stream)
  BY StreamLength DEF OInv, DInv, Fed
<1>2. DOMAIN q = 1 .. Len(q) /\ Len(q) \in Nat /\ \A i \in DOMAIN q : q[i] \in 1 .. sent
  BY LenProperties, ElementOfSeq
<1>3. q # <<>> => Len(q) \in Nat \ {0}
  BY EmptySeq
<1>4. q # <<>> => 1 \in DOMAIN q
  BY <1>2, <1>3
<1>5. \A i \in DOMAIN q : q[i] <= p
  BY <1>1, <1>2
<1>6. \A i \in DOMAIN q : p < q[i] /\ q[i] \in 1 .. sent /\ p \in 1 .. sent
  BY <1>2
<1> QED BY <1>1, <1>4, <1>5, <1>6

\* Before the end no task or frame has the eos mark.
LEMMA NoEos ==
    ASSUME OInv, ~Ended
    PROVE  /\ \A i \in DOMAIN proc : ~proc[i].eos
           /\ hpc \in {"status", "clear", "push", "notify"} => ~cur.eos
           /\ ~EosAll
BY DEF OInv, LastTask

\* Steps that send, process and output no task.
LEMMA LastKept ==
    ASSUME OInv, Ended => Ended', tk'.curr => (tk'.eos => tk'.frm = Len(stream')),
           proc' = proc, (hpc' = hpc /\ cur' = cur) \/ hpc' \in {"get", "asleep"},
           All' = All, Ended => display' = display \/ display' = <<>>
    PROVE  LastTask'
<1>1. \A i \in DOMAIN proc' : proc'[i].eos => Ended' /\ i = Len(proc')
  BY DEF OInv, LastTask
<1>2. hpc' \in {"status", "clear", "push", "notify"} /\ cur'.eos =>
        /\ Ended'
        /\ hpc' = "status" \/ (hpc' = "push" /\ cur'.kind # "frame") \/ proc' = <<>>
  BY DEF OInv, LastTask
<1>3. EosAll' => Ended' /\ display' = <<>>
  BY DEF OInv, LastTask, EosAll
<1>4. EosIsLast'
  BY DEF OInv, LastTask, EosIsLast, All
<1> QED BY <1>1, <1>2, <1>3, <1>4 DEF LastTask

\* A task is sent: the eos task, or the last packet's, is the last.
LEMMA LastSent ==
    ASSUME OInv, ~Ended, NEW e, proc' = Append(proc, e), e.eos => Ended',
           tk'.curr => (tk'.eos => tk'.frm = Len(stream')),
           cur' = cur, hpc' = hpc \/ hpc' = "get", All' = All
    PROVE  LastTask'
<1> DEFINE S == {proc[i] : i \in DOMAIN proc} \cup {e}
<1>1. proc \in Seq(S)
  BY DEF OInv, DInv, IInv, IsSeq
<1>2. /\ Len(proc) \in Nat /\ DOMAIN proc' = 1 .. Len(proc) + 1 /\ DOMAIN proc = 1 .. Len(proc)
      /\ \A i \in DOMAIN proc : proc'[i] = proc[i]
      /\ proc'[Len(proc) + 1] = e /\ Len(proc') = Len(proc) + 1
  <2>1. e \in S
    OBVIOUS
  <2> HIDE DEF S
  <2>2. /\ Append(proc, e) \in Seq(S) /\ Len(Append(proc, e)) = Len(proc) + 1
        /\ \A i \in 1 .. Len(proc) : Append(proc, e)[i] = proc[i]
        /\ Append(proc, e)[Len(proc) + 1] = e
    BY <1>1, <2>1, AppendProperties
  <2>3. DOMAIN Append(proc, e) = 1 .. Len(proc) + 1
    BY <2>2, LenProperties
  <2>4. Len(proc) \in Nat /\ DOMAIN proc = 1 .. Len(proc)
    BY <1>1, LenProperties
  <2> QED BY <2>2, <2>3, <2>4
<1>3. ASSUME NEW i \in DOMAIN proc', proc'[i].eos PROVE Ended' /\ i = Len(proc')
  <2>1. CASE i \in DOMAIN proc
    BY <1>2, <1>3, <2>1, NoEos
  <2>2. CASE i \notin DOMAIN proc
    <3>1. i = Len(proc) + 1
      BY <1>2, <2>2
    <3> QED BY <1>2, <1>3, <3>1
  <2> QED BY <2>1, <2>2
<1>4. hpc' \in {"status", "clear", "push", "notify"} => ~cur'.eos
  BY NoEos
<1>5. ~EosAll'
  BY NoEos DEF EosAll
<1>6. EosIsLast'
  BY DEF OInv, LastTask, EosIsLast, All
<1> QED BY <1>3, <1>4, <1>5, <1>6 DEF LastTask

\* The first task to process is taken off the list.
LEMMA LastTaken ==
    ASSUME OInv, proc # <<>>, proc' = Tail(proc), Ended' <=> Ended
    PROVE  /\ proc[1].eos => proc' = <<>> /\ Ended
           /\ \A i \in DOMAIN proc' : proc'[i].eos => Ended' /\ i = Len(proc')
<1> DEFINE S == {proc[i] : i \in DOMAIN proc}
<1>1. proc \in Seq(S)
  BY DEF OInv, DInv, IInv, IsSeq
<1> HIDE DEF S
<1>2. /\ proc' \in Seq(S) /\ Len(proc') = Len(proc) - 1 /\ Len(proc) \in Nat \ {0}
      /\ \A i \in 1 .. Len(proc') : proc'[i] = proc[i + 1]
      /\ DOMAIN proc = 1 .. Len(proc)
  BY <1>1, HeadTailProperties, LenProperties, EmptySeq
<1>3. DOMAIN proc' = 1 .. Len(proc')
  BY <1>2, LenProperties
<1>4. proc[1].eos => proc' = <<>> /\ Ended
  <2>1. proc[1].eos => Ended /\ 1 = Len(proc)
    BY <1>2 DEF OInv, LastTask
  <2>2. Len(proc') = 0 => proc' = <<>>
    BY <1>2, EmptySeq
  <2> QED BY <1>2, <2>1, <2>2
<1>5. ASSUME NEW i \in DOMAIN proc', proc'[i].eos PROVE Ended' /\ i = Len(proc')
  <2>1. i + 1 \in DOMAIN proc /\ proc[i + 1].eos
    BY <1>2, <1>3, <1>5
  <2>2. Ended /\ i + 1 = Len(proc)
    BY <2>1 DEF OInv, LastTask
  <2> QED BY <1>2, <1>3, <2>2
<1> QED BY <1>4, <1>5

\* A frame is output after others: none of them with the mark, or it has no picture.
LEMMA EosPushed ==
    ASSUME OInv, NEW f \in Outs(sent), out' = Append(out, f), got' = got, EosAll => f.frm = 0
    PROVE  EosIsLast' /\ (EosAll' => EosAll \/ f.eos)
<1>1. /\ DOMAIN All = 1 .. Len(All) /\ DOMAIN All' = 1 .. Len(All) + 1 /\ Len(All) \in Nat
      /\ \A i \in DOMAIN All : All'[i] = All[i]
      /\ All'[Len(All) + 1] = f
  BY AllPushed
<1>2. \A i, j \in DOMAIN All : i < j /\ All[i].eos => All[j].frm = 0
  BY DEF OInv, LastTask, EosIsLast, All
<1>3. ASSUME NEW i \in DOMAIN All', NEW j \in DOMAIN All', i < j, All'[i].eos PROVE All'[j].frm = 0
  <2>1. i \in DOMAIN All
    BY <1>1, <1>3
  <2>2. CASE j \in DOMAIN All
    BY <1>1, <1>2, <1>3, <2>1, <2>2
  <2>3. CASE j \notin DOMAIN All
    <3>1. j = Len(All) + 1
      BY <1>1, <2>3
    <3>2. EosAll
      BY <1>1, <1>3, <2>1 DEF EosAll
    <3> QED BY <1>1, <3>1, <3>2
  <2> QED BY <2>2, <2>3
<1>4. ASSUME NEW i \in DOMAIN All', All'[i].eos PROVE EosAll \/ f.eos
  <2>1. CASE i \in DOMAIN All
    BY <1>1, <1>4, <2>1 DEF EosAll
  <2>2. CASE i \notin DOMAIN All
    <3>1. i = Len(All) + 1
      BY <1>1, <2>2
    <3> QED BY <1>1, <1>4, <3>1
  <2> QED BY <2>1, <2>2
<1>5. EosAll' => EosAll \/ f.eos
  BY <1>4 DEF EosAll
<1>6. EosIsLast'
  BY <1>3 DEF EosIsLast, All
<1> QED BY <1>5, <1>6

\* The eos mark goes with the last task, and on the last frame.
LEMMA LastTaskStep == OInv /\ [Next]_vars => LastTask'
<1> SUFFICES ASSUME OInv, [Next]_vars PROVE LastTask'
  OBVIOUS
<1> DEFINE Left == /\ UNCHANGED <<stream, sent, port, proc, out, got, display>>
                   /\ tk'.curr = tk.curr /\ tk'.eos = tk.eos /\ tk'.frm = tk.frm
                   /\ (hpc' = hpc /\ cur' = cur) \/ hpc' \in {"get", "asleep"}
<1>1. CASE PutPacketNotify \/ ResetStart \/ ResetNotify \/ (\E p \in held :
         ReleaseFrame(p)) \/ ControlSend
  <2>1. Left
    BY <1>1 DEF PutPacketNotify, Notify, ResetStart, ResetNotify, ReleaseFrame,
       ControlSend, queueVars, groupVars, infoVars, cmdVars, resetVars, halVars, userVars,
       historyVars, OInv, DInv, Parses, ParserTasks
  <2> QED BY <2>1, LastKept DEF OInv, LastTask, Ended, All
<1>2. CASE ControlNotify \/ ControlDone \/ CheckTaskWait \/ ProcessControl \/ NoTaskLeft
  <2>1. Left
    BY <1>2 DEF ControlNotify, Notify, ControlDone, CheckTaskWait, ProcessControl,
       NoTaskLeft, Working, queueVars, groupVars, infoVars, cmdVars, resetVars, halVars,
       userVars, historyVars, OInv, DInv, Parses, ParserTasks
  <2> QED BY <2>1, LastKept DEF OInv, LastTask, Ended, All
<1>3. CASE TaskWithPacket \/ NoPacket \/ WaitPrevious \/ SlotForParsed \/ WaitInfo
  <2>1. Left
    BY <1>3 DEF TaskWithPacket, Working, WithTask, NoPacket, WaitPrevious, SlotForParsed,
       WaitInfo, queueVars, groupVars, infoVars, cmdVars, resetVars, halVars, userVars,
       historyVars, OInv, DInv, Parses, ParserTasks
  <2> QED BY <2>1, LastKept DEF OInv, LastTask, Ended, All
<1>4. CASE WaitBuffer \/ WaitMatch \/ HalNotify \/ HalSleep
  <2>1. Left
    BY <1>4 DEF WaitBuffer, WaitMatch, HalNotify, Notify, HalSleep, queueVars, groupVars, infoVars,
       cmdVars, resetVars, halVars, userVars, historyVars, OInv, DInv, Parses, ParserTasks
  <2> QED BY <2>1, LastKept DEF OInv, LastTask, Ended, All
<1>5. CASE PutPacket
  <2>1. UNCHANGED <<stream, tk, proc, out, got, display, hpc, cur>> /\ sent + 1 \in DOMAIN stream
    BY <1>5 DEF PutPacket, groupVars, halVars, historyVars
  <2>2. ~Ended
    BY <2>1, StreamLength DEF Ended, OInv, DInv
  <2> QED BY <2>1, <2>2, LastKept DEF OInv, LastTask, All
<1>6. CASE ResetFlush
  <2>1. UNCHANGED <<stream, sent, port, tk, proc, got, display, hpc, cur>> /\ out' = <<>>
    BY <1>6 DEF ResetFlush, queueVars, groupVars, halVars
  <2>2. All' = got /\ \A i \in DOMAIN got : i \in DOMAIN All /\ All[i] = got[i]
    BY <2>1, AllFlushed, AllFrames
  <2>3. EosAll' => EosAll
    BY <2>2 DEF EosAll
  <2>4. EosIsLast'
    BY <2>2 DEF OInv, LastTask, EosIsLast, All
  <2> QED BY <2>1, <2>3, <2>4 DEF OInv, LastTask, Ended
<1>7. CASE GetFrame
  <2>1. UNCHANGED <<stream, sent, port, tk, proc, display, hpc, cur>>
    BY <1>7 DEF GetFrame, queueVars, groupVars, halVars
  <2>2. All' = All
    BY <1>7, AllTaken
  <2> QED BY <2>1, <2>2, LastKept DEF OInv, LastTask, Ended
<1>8. CASE ResetPort
  <2>1. /\ UNCHANGED <<stream, sent, out, got, tk, proc, display, cur>> /\ port' = <<>>
        /\ hpc' = hpc \/ hpc' = "get"
    BY <1>8 DEF ResetPort, WakeHal, userVars, groupVars
  <2> QED BY <2>1, LastKept DEF OInv, LastTask, Ended, All
<1>9. CASE ResetParser
  <2>1. UNCHANGED <<stream, sent, port, out, got, proc, hpc, cur>> /\ tk' = NoTask
    BY <1>9 DEF ResetParser, queueVars, groupVars, halVars, userVars
  <2>2. display' = <<>> /\ ~tk'.curr
    BY <1>9, <2>1, ResetSlots DEF OInv, NoTask
  <2> QED BY <2>1, <2>2, LastKept DEF Ended, All
<1>10. CASE PreparePacket
  <2>1. /\ UNCHANGED <<stream, out, got, proc, hpc, cur, display>> /\ port # <<>>
        /\ \E i \in 1 .. TaskCount : tk' = [WithTask EXCEPT
             !.wait = @ \ {"pkt"}, !.frm = Head(port), !.curr = TRUE,
             !.eos = stream[Head(port)].eos, !.input = i, !.copied = TRUE]
    BY <1>10 DEF PreparePacket, groupVars, halVars, historyVars
  <2>2. tk'.eos = stream[Head(port)].eos /\ tk'.frm = Head(port)
    BY <2>1 DEF WithTask, OInv, DInv, Parses, ParserTasks
  <2>3. Head(port) \in DOMAIN stream
    BY <2>1, PacketFields DEF OInv, DInv, Fed
  <2>4. tk'.eos => tk'.frm = Len(stream')
    BY <2>1, <2>2, <2>3, StreamEntries DEF OInv, DInv
  <2> QED BY <2>1, <2>4, LastKept DEF Ended, All
<1>11. CASE PutEos
  <2> DEFINE p == Head(port)
             e == TaskInfo("eos", [tk EXCEPT !.frm = p, !.eos = TRUE])
  <2>1. /\ UNCHANGED <<stream, sent, out, got, cur, display>> /\ port # <<>> /\ port' = Tail(port)
        /\ proc' = Append(proc, e) /\ (hpc' = hpc \/ hpc' = "get")
        /\ stream[p].kind = "empty" /\ ~tk.curr
        /\ tk' = [WithTask EXCEPT !.hnd = FALSE, !.wait = @ \ {"pkt"}]
    BY <1>11 DEF PutEos, PutTask, WakeHal, NeedsPacket, userVars, historyVars
  <2>2. ~tk'.curr
    BY <2>1 DEF WithTask, OInv, DInv, Parses, ParserTasks
  <2>3. port \in Seq(1 .. sent)
    BY DEF OInv, DInv, Fed
  <2>4. p \in 1 .. sent /\ port' \in Seq(1 .. sent)
    <3> DEFINE S == 1 .. sent
    <3>1. port \in Seq(S)
      BY <2>3
    <3> HIDE DEF S
    <3>2. Head(port) \in S /\ Tail(port) \in Seq(S)
      BY <2>1, <3>1, HeadTailProperties
    <3> QED BY <2>1, <3>2 DEF S
  <2>5. p = Len(stream)
    BY <2>1, <2>4, PacketFields, StreamEntries DEF OInv, DInv
  <2>6. \A x \in {port'[i] : i \in DOMAIN port'} : p < x
    BY <2>1, PortTaken DEF InPort
  <2> HIDE DEF p, e
  <2>7. port' = <<>> /\ sent = Len(stream)
    BY <2>4, <2>5, <2>6, PortEnds
  <2>8. ~Ended /\ Ended'
    BY <2>1, <2>2, <2>7 DEF Ended
  <2> QED BY <2>1, <2>2, <2>8, LastSent DEF All
<1>12. CASE ParseNothing
  <2>1. /\ UNCHANGED <<stream, sent, port, out, got, cur, display>> /\ ppc = "slot"
        /\ tk' = [NoTask EXCEPT !.prev = tk.prev, !.wait = tk.wait \ {"slot"}]
        /\ IF tk.eos THEN PutTask("eos", tk) ELSE UNCHANGED <<proc, hpc>>
    BY <1>12 DEF ParseNothing, queueVars, userVars
  <2>2. ~tk'.curr /\ tk.curr /\ ~Ended
    BY <2>1 DEF NoTask, OInv, DInv, Parses, Ended
  <2>3. CASE ~tk.eos
    BY <2>1, <2>2, <2>3, LastKept DEF All
  <2>4. CASE tk.eos
    <3>1. tk.frm \in 1 .. sent /\ tk.frm = Len(stream) /\ port \in Seq(1 .. sent)
      BY <2>2, <2>4 DEF OInv, DInv, Parses, Fed, LastTask
    <3>2. port = <<>> /\ sent = Len(stream)
      BY <2>2, <3>1, HandBeforePort, PortEnds DEF InPort
    <3>3. Ended'
      BY <2>1, <2>2, <3>2 DEF Ended
    <3>4. proc' = Append(proc, TaskInfo("eos", tk)) /\ (hpc' = hpc \/ hpc' = "get")
      BY <2>1, <2>4 DEF PutTask, WakeHal
    <3> QED BY <2>1, <2>2, <3>3, <3>4, LastSent DEF All
  <2> QED BY <2>3, <2>4
<1>13. CASE ParsePicture
  <2>1. UNCHANGED <<stream, sent, port, out, got, proc, hpc, cur>> /\ ppc = "slot"
    BY <1>13 DEF ParsePicture, queueVars, groupVars, halVars, userVars, historyVars
  <2>2. tk'.eos = tk.eos /\ tk'.frm = tk.frm /\ tk'.curr = tk.curr
    BY <1>13 DEF ParsePicture, OInv, DInv, Parses, ParserTasks
  <2>3. tk.curr
    BY <2>1 DEF OInv, DInv, Parses
  <2> QED BY <2>1, <2>2, <2>3, LastKept DEF OInv, LastTask, Ended, All
<1>14. CASE PutInfo
  <2> DEFINE e == TaskInfo("info", InfoWithoutEos)
  <2>1. /\ UNCHANGED <<stream, out, got, cur, display>> /\ ppc = "info"
        /\ proc' = Append(proc, e) /\ (hpc' = hpc \/ hpc' = "get")
        /\ tk'.eos = tk.eos /\ tk'.frm = tk.frm /\ tk'.curr = tk.curr
    BY <1>14 DEF PutInfo, PutTask, WakeHal, historyVars, OInv, DInv, Parses, ParserTasks
  <2>2. tk.curr /\ ~Ended
    BY <2>1 DEF OInv, DInv, Parses, Ended
  <2>3. e.eos = FALSE
    BY DEF TaskInfo, InfoWithoutEos, OInv, DInv, Parses, ParserTasks
  <2> HIDE DEF e
  <2> QED BY <2>1, <2>2, <2>3, LastSent DEF OInv, LastTask, All
<1>15. CASE PutFrame
  <2> DEFINE e == TaskInfo("frame", tk)
  <2>1. /\ UNCHANGED <<stream, sent, port, out, got, cur, display>> /\ ppc = "info"
        /\ proc' = Append(proc, e) /\ (hpc' = hpc \/ hpc' = "get")
        /\ tk' = [NoTask EXCEPT !.prev = FALSE, !.wait = tk.wait \ {"info", "buf", "match"}]
    BY <1>15 DEF PutFrame, PutTask, WakeHal, queueVars, userVars, historyVars
  <2>2. ~tk'.curr /\ tk.curr /\ ~Ended /\ e.eos = tk.eos
    BY <2>1 DEF NoTask, TaskInfo, OInv, DInv, Parses, Ended
  <2>3. tk.eos => Ended'
    <3> SUFFICES ASSUME tk.eos PROVE Ended'
      OBVIOUS
    <3>1. tk.frm \in 1 .. sent /\ tk.frm = Len(stream) /\ port \in Seq(1 .. sent)
      BY <2>2 DEF OInv, DInv, Parses, Fed, LastTask
    <3>2. port = <<>> /\ sent = Len(stream)
      BY <2>2, <3>1, HandBeforePort, PortEnds DEF InPort
    <3> QED BY <2>1, <2>2, <3>2 DEF Ended
  <2> HIDE DEF e
  <2> QED BY <2>1, <2>2, <2>3, LastSent DEF All
<1>16. CASE HalRun
  <2>1. /\ UNCHANGED <<stream, sent, port, tk, out, got, proc, display>> /\ proc # <<>>
        /\ cur' = Head(proc) /\ hpc' = (IF cur'.kind = "frame" THEN "status" ELSE "push")
    BY <1>16 DEF HalRun, queueVars, groupVars, userVars, historyVars
  <2>2. Head(proc) = proc[1] /\ 1 \in DOMAIN proc
    BY <2>1 DEF OInv, DInv, IInv, IsSeq
  <2>3. cur'.eos => Ended
    BY <2>1, <2>2 DEF OInv, LastTask
  <2>4. hpc' = "status" \/ (hpc' = "push" /\ cur'.kind # "frame")
    BY <2>1
  <2> QED BY <2>1, <2>3, <2>4 DEF OInv, LastTask, Ended, EosAll, EosIsLast, All
<1>17. CASE HalStatus
  <2>1. /\ UNCHANGED <<stream, sent, port, tk, out, got, cur, display>>
        /\ hpc = "status" /\ hpc' = "clear" /\ proc' = Tail(proc)
    BY <1>17 DEF HalStatus, Processed, queueVars, userVars, historyVars
  <2>2. proc # <<>> /\ cur = proc[1] /\ (Ended' <=> Ended)
    BY <2>1 DEF OInv, DInv, Group, Ended
  <2>3. /\ cur.eos => proc' = <<>> /\ Ended
        /\ \A i \in DOMAIN proc' : proc'[i].eos => Ended' /\ i = Len(proc')
    BY <2>1, <2>2, LastTaken
  <2> QED BY <2>1, <2>2, <2>3 DEF OInv, LastTask, EosAll, EosIsLast, All
<1>18. CASE HalClear
  <2>1. /\ UNCHANGED <<stream, sent, port, tk, out, got, proc, cur, display>>
        /\ hpc = "clear" /\ hpc' = "push"
    BY <1>18 DEF HalClear, queueVars, groupVars, userVars, historyVars
  <2> QED BY <2>1 DEF OInv, LastTask, Ended, EosAll, EosIsLast, All
<1>19. CASE HalPush
  <2> DEFINE f == Frame(cur.slot, LastIsEos)
  <2>1. UNCHANGED <<stream, sent, port, tk, got, proc, cur, hpc>> /\ hpc = "push"
    BY <1>19 DEF HalPush, queueVars, groupVars, halVars, userVars, historyVars
  <2>2. /\ out' = Append(out, f) /\ f \in Outs(sent) /\ (f.eos => cur.eos /\ Len(display) = 1)
    BY <1>19, PushedFrame DEF Frame, LastIsEos
  <2> HIDE DEF f
  <2>3. \/ display = <<cur.slot>> /\ display' = <<>>
        \/ display = <<cur.slot, ref>>
    BY <1>19, PushSlots DEF OInv
  <2>4. display # <<>> /\ (Len(display) = 1 => display' = <<>>)
    BY <2>3
  <2>5. ~EosAll
    BY <2>4 DEF OInv, LastTask
  <2>6. EosIsLast' /\ (EosAll' => f.eos)
    BY <2>1, <2>2, <2>5, EosPushed
  <2> QED BY <2>1, <2>2, <2>4, <2>6 DEF OInv, LastTask, Ended
<1>20. CASE HalPushed
  <2>1. /\ UNCHANGED <<stream, sent, port, tk, got, cur, display>> /\ cur.kind # "frame"
        /\ hpc = "push" /\ hpc' = "notify" /\ proc' = Tail(proc)
    BY <1>20 DEF HalPushed, queueVars, userVars, historyVars
  <2>2. PICK f \in Outs(sent) : out' = Append(out, f) /\ f.frm = 0 /\ f.eos = cur.eos
    BY <1>20, PushedMark
  <2>3. proc # <<>> /\ cur = proc[1] /\ (Ended' <=> Ended)
    BY <2>1 DEF OInv, DInv, Group, Ended
  <2>4. /\ cur.eos => proc' = <<>> /\ Ended
        /\ \A i \in DOMAIN proc' : proc'[i].eos => Ended' /\ i = Len(proc')
    BY <2>1, <2>3, LastTaken
  <2>5. EosIsLast' /\ (EosAll' => EosAll \/ cur.eos)
    BY <2>1, <2>2, EosPushed
  <2>6. cur.eos => display = <<>>
    <3> SUFFICES ASSUME cur.eos PROVE display = <<>>
      OBVIOUS
    <3>1. ~tk.parsed
      BY <2>4 DEF Ended, OInv, DInv, Parses
    <3>2. JobsOf(proc) = {}
      <4>1. JobsOf(proc) = JobsOf(proc')
        BY <2>1, <2>3, JobTaken DEF OInv, DInv, IInv
      <4> QED BY <2>4, <4>1, NoJobs
    <3>3. Pending = {} /\ ~Draining
      BY <2>1, <3>1, <3>2 DEF Pending, ParsedJobs, Draining
    <3> QED BY <3>3 DEF OInv, DInv, Shape
  <2> QED BY <2>1, <2>3, <2>4, <2>5, <2>6 DEF OInv, LastTask
<1>21. CASE HalReset
  <2>1. UNCHANGED <<stream, sent, port, tk, got, proc, cur, hpc, slots, display, out>>
    BY <1>21, HalResetSlots DEF HalReset, queueVars, halVars, userVars, historyVars, OInv
  <2> QED BY <2>1, LastKept DEF OInv, LastTask, Ended, All
<1>22. CASE UNCHANGED vars
  <2>1. Left
    BY <1>22 DEF vars, queueVars, groupVars, infoVars, cmdVars, resetVars, halVars,
       userVars, historyVars, OInv, DInv, Parses, ParserTasks
  <2> QED BY <2>1, LastKept DEF OInv, LastTask, Ended, All
<1> QED BY <1>1, <1>2, <1>3, <1>4, <1>5, <1>6, <1>7, <1>8, <1>9, <1>10, <1>11, <1>12,
       <1>13, <1>14, <1>15, <1>16, <1>17, <1>18, <1>19, <1>20, <1>21, <1>22 DEF Next,
       GoOn, FeederGoesOn, Drainer, Parser, Hal

-----------------------------------------------------------------------------
(* The invariant holds always *)

\* The initial state has the invariant.
LEMMA InitOInv == Init => OInv
<1> SUFFICES ASSUME Init PROVE OInv
  OBVIOUS
<1>1. DInv
  BY InitDInv
<1>2. /\ port = <<>> /\ out = <<>> /\ got = <<>> /\ display = <<>> /\ proc = <<>> /\ sent = 0
      /\ held = {} /\ dropped = {} /\ pslots = {} /\ notify = {} /\ hpc = "get" /\ parserSem = 0
  BY DEF Init
<1>3. tk.curr = FALSE /\ tk.eos = FALSE
  BY DEF Init, NoTask
<1>4. Controls
  <2>1. dpc = "free" /\ cmd = FALSE /\ cmdStart = 0 /\ cmdDone = 0
    BY DEF Init
  <2> QED BY <2>1 DEF Controls
<1>5. Queue
  <2>1. eosTask = FALSE /\ inTask = FALSE /\ free = PortTasks /\ PortTasks \in Nat
    BY CountAssumption DEF Init
  <2>2. Len(port) = 0
    BY <1>2, EmptySeq
  <2>3. (IF eosTask THEN 1 ELSE 0) = 0 /\ (IF inTask THEN 1 ELSE 0) = 0
    BY <2>1, Zenon
  <2>4. eosTask \in BOOLEAN /\ inTask \in BOOLEAN
    BY <2>1
  <2>5. free + Len(port) + 0 + 0 = PortTasks
    BY <2>1, <2>2
  <2> QED BY <2>1, <2>3, <2>4, <2>5, Zenon DEF Queue
<1>6. Outputs
  <2>1. <<>> \in Seq(Outs(sent))
    BY EmptySeq
  <2> QED BY <1>2, <2>1 DEF Outputs
<1>7. Known
  <2>1. info = 0 /\ infoSet = 0 /\ changed = FALSE /\ foundI = FALSE /\ commanded = FALSE
    BY DEF Init
  <2> QED BY <1>2, <2>1 DEF Known
<1>8. PacketSlots /\ Quiet
  BY <1>2 DEF PacketSlots, Quiet
<1>9. All = <<>>
  BY <1>2, EmptySeq, ConcatEmptySeq DEF All
<1>10. DOMAIN All = {} /\ DOMAIN display = {} /\ DOMAIN port = {} /\ DOMAIN proc = {} /\ DOMAIN (got \o out) = {}
  BY <1>2, <1>9 DEF All
<1>11. FrmIds(All) = {} /\ OnDisplay = {} /\ AtHand = {} /\ InPort = {}
  BY <1>3, <1>10 DEF FrmIds, OnDisplay, AtHand, InPort
<1>12. Ordered
  BY <1>10, <1>11 DEF Ordered, Below
<1>13. Kept
  BY <1>2, <1>11 DEF Kept, InLine
<1>14. LastTask
  BY <1>2, <1>3, <1>10 DEF LastTask, EosAll, EosIsLast
<1> QED BY <1>1, <1>4, <1>5, <1>6, <1>7, <1>8, <1>12, <1>13, <1>14 DEF OInv

\* Every step keeps it.
LEMMA StepOInv == OInv /\ [Next]_vars => OInv'
<1>1. OInv => DInv
  BY DEF OInv
<1> QED BY <1>1, StepDInv, ControlsStep, QueueStep, OutputsStep, KnownStep, PacketSlotsStep,
           QuietStep, LineStep, LastTaskStep DEF OInv

\* The invariant of the line of packets holds always.
THEOREM OInvHolds == Spec => []OInv
BY InitOInv, StepOInv, PTL DEF Spec

-----------------------------------------------------------------------------
(* What follows from it *)

\* The variables have their types, and the counts of input tasks, hardware tasks and
\* semaphores their ranges, for any number of packets and resets.
THEOREM Types == Spec => []TypeOK
<1>1. ASSUME OInv PROVE TypeOK
  <2>1. stream \in Streams /\ sent \in 0 .. Len(stream) /\ resets \in 0 .. MaxResets[stream]
        /\ port \in Seq(1 .. sent) /\ fpc \in {"free", "notify", "resetNotify", "resetWait"}
    BY <1>1 DEF OInv, DInv, Fed
  <2>2. sent \in Nat
    BY <1>1, StreamLength DEF OInv, DInv
  <2>3. free \in 0 .. PortTasks
        /\ free + Len(port) + (IF eosTask THEN 1 ELSE 0) + (IF inTask THEN 1 ELSE 0) = PortTasks
    <3> DEFINE S == 1 .. sent
    <3>1. port \in Seq(S)
      BY <2>1
    <3> HIDE DEF S
    <3>2. Len(port) \in Nat
      BY <3>1, LenProperties
    <3> QED BY <1>1, <3>2, CountAssumption DEF OInv, Queue
  <2>4. idle \in 0 .. TaskCount /\ done \in 0 .. TaskCount /\ proc \in Seq(Tasks)
        /\ idle + done + Len(proc) = TaskCount
    <3> DEFINE S == SentTasks(sent)
    <3>1. proc \in Seq(S) /\ S \subseteq Tasks
      BY <1>1 DEF OInv, DInv, Group, SentTasks
    <3> HIDE DEF S
    <3>2. Len(proc) \in Nat /\ proc \in Seq(Tasks)
      BY <3>1, LenProperties, SeqMonotonic
    <3> QED BY <1>1, <3>2, CountAssumption DEF OInv, DInv, Group
  <2>5. out \in Seq(Frame0) /\ got \in Seq(Frame0)
    <3>1. Outs(sent) \subseteq Frame0
      BY <2>2 DEF Outs, Frame0
    <3> QED BY <1>1, <3>1, SeqMonotonic DEF OInv, Outputs
  <2>6. slots \in [Slots -> [used : BOOLEAN, codec : BOOLEAN, hin : Nat, hout : BOOLEAN,
                             queued : BOOLEAN, buf : BOOLEAN, frame : Nat]]
    BY <1>1 DEF OInv, DInv, Flags, Tables, Entries
  <2>7. display \in Seq(Slots) /\ pslots \subseteq 1 .. TaskCount
    BY <1>1, DisplaySeq DEF OInv, PacketSlots
  <2>8. tk \in ParserTasks /\ ref \in Slots \cup {0} /\ foundI \in BOOLEAN /\ notify \subseteq Reset
    BY <1>1 DEF OInv, DInv, Parses, Known
  <2>9. {info, infoSet} \subseteq Sizes \cup {0} /\ changed \in BOOLEAN
    BY <1>1 DEF OInv, Known
  <2>10. halSem \in {0, 1}
    BY <1>1 DEF OInv, DInv, IInv, ResetAnswer
  <2>11. {cmdStart, cmdDone, halSem, parserSem} \subseteq {0, 1}
    BY <1>1, <2>10 DEF OInv, DInv, Resets, Controls
  <2>12. cmd \in BOOLEAN /\ resetFlag \in BOOLEAN /\ halReset \in BOOLEAN /\ eosTask \in BOOLEAN
         /\ inTask \in BOOLEAN /\ commanded \in BOOLEAN
    BY <1>1, Zenon DEF OInv, DInv, IInv, Controls, Queue, Known, Resets
  <2>13. {cmd, resetFlag, halReset, eosTask, inTask, commanded} \subseteq BOOLEAN
    BY <2>12, Zenon
  <2>14. ppc \in {"check", "asleep", "work", "reset", "prev", "slot", "info"}
         /\ hpc \in {"get", "asleep", "status", "clear", "push", "notify"}
         /\ dpc \in {"free", "ready", "notify", "wait"}
    BY <1>1 DEF OInv, DInv, Parses, Group, Controls
  <2>15. {held, dropped} \subseteq SUBSET (1 .. sent)
    BY <1>1 DEF OInv, Outputs
  <2> HIDE DEF Tasks
  <2> QED BY <2>1, <2>3, <2>4, <2>5, <2>6, <2>7, <2>8, <2>9, <2>11, <2>13, <2>14, <2>15, Zenon
     DEF TypeOK, ParserTasks
<1> QED BY <1>1, OInvHolds, PTL

\* A reset returns with the flush of mFrmOut only.
LEMMA FlushStep == (OInv /\ fpc = "resetWait" /\ fpc' = "free") /\ [Next]_vars => ResetFlush
<1> SUFFICES ASSUME (OInv /\ fpc = "resetWait" /\ fpc' = "free"), [Next]_vars PROVE ResetFlush
  OBVIOUS
<1> DEFINE Left == (fpc' = fpc \/ fpc' # "free")
<1>1. CASE PutPacket \/ ResetStart \/ ResetNotify \/ GetFrame \/ (\E p \in held :
         ReleaseFrame(p)) \/ ControlSend \/ ControlNotify \/ ControlDone
  <2>1. Left
    BY <1>1 DEF PutPacket, ResetStart, ResetNotify, Notify, GetFrame, ReleaseFrame,
       ControlSend, ControlNotify, ControlDone, queueVars, groupVars, infoVars, cmdVars,
       resetVars, halVars, userVars, historyVars
  <2> QED BY <2>1
<1>2. CASE CheckTaskWait \/ ProcessControl \/ ResetPort \/ ResetParser \/ NoTaskLeft \/
         TaskWithPacket \/ NoPacket \/ PreparePacket
  <2>1. Left
    BY <1>2 DEF CheckTaskWait, ProcessControl, ResetPort, WakeHal, ResetParser,
       NoTaskLeft, Working, TaskWithPacket, WithTask, NoPacket, PreparePacket, queueVars,
       groupVars, infoVars, cmdVars, resetVars, halVars, userVars, historyVars
  <2> QED BY <2>1
<1>3. CASE PutEos \/ WaitPrevious \/ SlotForParsed \/ ParseNothing \/ ParsePicture \/
         PutInfo \/ WaitInfo \/ WaitBuffer \/ WaitMatch
  <2>1. Left
    BY <1>3 DEF PutEos, Working, WithTask, PutTask, WakeHal, WaitPrevious, SlotForParsed,
       ParseNothing, ParsePicture, PutInfo, WaitInfo, WaitBuffer, WaitMatch, queueVars, groupVars,
       infoVars, cmdVars, resetVars, halVars, userVars, historyVars
  <2> QED BY <2>1
<1>4. CASE PutFrame \/ HalRun \/ HalStatus \/ HalClear \/ HalPush \/ HalPushed \/
         HalNotify \/ HalReset
  <2>1. Left
    BY <1>4 DEF PutFrame, PutTask, WakeHal, HalRun, HalStatus, HalClear, Notify, HalPush,
       HalPushed, HalNotify, HalReset, queueVars, groupVars, infoVars, cmdVars, resetVars,
       halVars, userVars, historyVars
  <2> QED BY <2>1
<1>5. CASE HalSleep
  <2>1. Left
    BY <1>5 DEF HalSleep, queueVars, groupVars, infoVars, cmdVars, resetVars, halVars,
       userVars, historyVars
  <2> QED BY <2>1
<1>6. CASE ResetFlush
  <2> QED BY <1>6
<1>7. CASE PutPacketNotify
  <2>1. fpc = "notify"
    BY <1>7 DEF PutPacketNotify
  <2> QED BY <2>1
<1>8. CASE UNCHANGED vars
  <2>1. Left
    BY <1>8 DEF vars, queueVars, groupVars, infoVars, cmdVars, resetVars, halVars, userVars,
       historyVars
  <2> QED BY <2>1
<1> QED BY <1>1, <1>2, <1>3, <1>4, <1>5, <1>6, <1>7, <1>8 DEF Next, GoOn, FeederGoesOn,
       Drainer, Parser, Hal

\* What a step of ResetDiscardsAll does.
ResetDone ==
    fpc = "resetWait" /\ fpc' = "free" =>
        /\ port' = <<>> /\ proc' = <<>> /\ display' = <<>> /\ out' = <<>>
        /\ pslots' = {} /\ idle' = TaskCount
        /\ \A s \in Slots : ~slots'[s].used

\* When reset returns the decoder is empty: nothing in the port, the tasks, the slots
\* or mFrmOut, for any number of slots, tasks and packets, and whatever the two threads
\* and the drainer did meanwhile.
THEOREM ResetDiscards == Spec => ResetDiscardsAll
<1>1. ASSUME OInv, [Next]_vars, fpc = "resetWait", fpc' = "free"
      PROVE  /\ port' = <<>> /\ proc' = <<>> /\ display' = <<>> /\ out' = <<>>
             /\ pslots' = {} /\ idle' = TaskCount
             /\ \A s \in Slots : ~slots'[s].used
  <2>1. ResetFlush
    BY <1>1, FlushStep
  <2>2. /\ UNCHANGED <<port, proc, display, pslots, idle, slots>> /\ out' = <<>> /\ parserSem > 0
    BY <2>1 DEF ResetFlush, queueVars, groupVars
  <2>3. parserSem = 1
    BY <1>1, <2>2 DEF OInv, DInv, Resets
  <2>4. /\ port = <<>> /\ proc = <<>> /\ done = 0 /\ ~tk.curr /\ ref = 0
        /\ hpc \in {"get", "asleep"}
    BY <1>1, <2>3 DEF OInv, Quiet
  <2>5. ~tk.parsed
    BY <1>1, <2>4 DEF OInv, DInv, Parses
  <2>6. Pending = {} /\ Clearing = {} /\ ~Draining
    BY <2>4, <2>5, NoJobs DEF Pending, ParsedJobs, Clearing, Draining
  <2>7. display = <<>>
    BY <1>1, <2>6 DEF OInv, DInv, Shape
  <2>8. pslots = {}
    <3>1. InputsOf(proc) = {}
      BY <2>4, NoTasks DEF InputsOf
    <3> QED BY <1>1, <2>4, <3>1 DEF OInv, PacketSlots
  <2>9. idle = TaskCount
    <3>1. Len(proc) = 0
      BY <2>4, EmptySeq
    <3> QED BY <1>1, <2>4, <3>1 DEF OInv, DInv, Group
  <2>10. ASSUME NEW s \in Slots PROVE ~slots[s].used
    <3>1. s # 0
      BY CountAssumption DEF Slots
    <3>2. ~slots[s].codec /\ ~slots[s].hout
      BY <1>1, <2>4, <2>6, <3>1 DEF OInv, DInv, Flags
    <3>3. ~slots[s].queued
      <4>1. DOMAIN display = {}
        BY <2>7
      <4> QED BY <1>1, <4>1 DEF OInv, DInv, Flags
    <3>4. slots[s].hin = 0
      BY <1>1, <2>6 DEF OInv, DInv, Flags, Reads
    <3> QED BY <1>1, <3>2, <3>3, <3>4 DEF OInv, DInv, Flags, Tables
  <2> QED BY <2>2, <2>4, <2>7, <2>8, <2>9, <2>10
<1>2. OInv /\ [Next]_vars => [ResetDone]_vars
  BY <1>1 DEF ResetDone
<1> QED BY <1>2, OInvHolds, PTL DEF Spec, ResetDiscardsAll, ResetDone

\* Sequences that rise, but for the zeros in them.
Rising(s) == \A i, j \in DOMAIN s : i < j /\ 0 \notin {s[i], s[j]} => s[i] < s[j]

\* Two sequences that rise, the second above the first, rise as one.
LEMMA RisingJoined ==
    ASSUME NEW a \in Seq(Nat), NEW b \in Seq(Nat), Rising(a), Rising(b),
           \A x \in ToSet(a) \ {0}, y \in ToSet(b) \ {0} : x < y
    PROVE  a \o b \in Seq(Nat) /\ Rising(a \o b) /\ ToSet(a \o b) = ToSet(a) \cup ToSet(b)
<1> DEFINE c == a \o b
           m == Len(a)
           n == Len(b)
<1>1. /\ c \in Seq(Nat) /\ Len(c) = m + n
      /\ \A i \in 1 .. m + n : c[i] = IF i <= m THEN a[i] ELSE b[i - m]
  BY ConcatProperties
<1>2. m \in Nat /\ n \in Nat /\ DOMAIN a = 1 .. m /\ DOMAIN b = 1 .. n /\ DOMAIN c = 1 .. m + n
      /\ (\A i \in 1 .. m : a[i] \in Nat) /\ (\A i \in 1 .. n : b[i] \in Nat)
  BY <1>1, LenProperties, ElementOfSeq
<1> HIDE DEF c, m, n
<1>3. ASSUME NEW i \in DOMAIN c
      PROVE  \/ i <= m /\ i \in DOMAIN a /\ c[i] = a[i]
             \/ m < i /\ i - m \in DOMAIN b /\ c[i] = b[i - m]
  BY <1>1, <1>2
<1>4. \A i \in DOMAIN a : i \in DOMAIN c /\ c[i] = a[i]
  BY <1>1, <1>2
<1>5. \A i \in DOMAIN b : m + i \in DOMAIN c /\ c[m + i] = b[i]
  <2> SUFFICES ASSUME NEW i \in DOMAIN b PROVE m + i \in DOMAIN c /\ c[m + i] = b[i]
    OBVIOUS
  <2>1. m + i \in 1 .. m + n /\ ~(m + i <= m) /\ (m + i) - m = i
    BY <1>2
  <2> QED BY <1>1, <1>2, <2>1
<1>6. ToSet(c) = ToSet(a) \cup ToSet(b)
  BY <1>3, <1>4, <1>5 DEF ToSet
<1>7. ASSUME NEW i \in DOMAIN c, NEW j \in DOMAIN c, i < j, 0 \notin {c[i], c[j]}
      PROVE  c[i] < c[j]
  <2>1. CASE j <= m
    <3>1. i \in DOMAIN a /\ j \in DOMAIN a /\ c[i] = a[i] /\ c[j] = a[j]
      BY <1>2, <1>3, <1>7, <2>1
    <3> QED BY <1>7, <3>1 DEF Rising
  <2>2. CASE i <= m /\ m < j
    <3>1. i \in DOMAIN a /\ j - m \in DOMAIN b /\ c[i] = a[i] /\ c[j] = b[j - m]
      BY <1>2, <1>3, <2>2
    <3>2. c[i] \in ToSet(a) \ {0} /\ c[j] \in ToSet(b) \ {0}
      BY <1>7, <3>1 DEF ToSet
    <3> QED BY <3>2
  <2>3. CASE m < i
    <3>1. i - m \in DOMAIN b /\ j - m \in DOMAIN b /\ i - m < j - m /\ c[i] = b[i - m] /\ c[j] = b[j - m]
      BY <1>2, <1>3, <1>7, <2>3
    <3> QED BY <1>7, <3>1 DEF Rising
  <2> QED BY <1>2, <1>7, <2>1, <2>2, <2>3
<1>8. Rising(c)
  BY <1>7 DEF Rising
<1> QED BY <1>1, <1>6, <1>8 DEF c

\* The frames received and those in mFrmOut rise.
LEMMA FramesLine ==
    ASSUME OInv
    PROVE  /\ Ids(got) \o Ids(out) \in Seq(Nat) /\ Rising(Ids(got) \o Ids(out))
           /\ ToSet(Ids(got) \o Ids(out)) \ {0} = FrmIds(All)
<1>1. /\ \A i \in DOMAIN got : i \in DOMAIN All /\ All[i] = got[i]
      /\ \A i \in DOMAIN out : Len(got) + i \in DOMAIN All /\ All[Len(got) + i] = out[i]
      /\ DOMAIN got = 1 .. Len(got) /\ DOMAIN out = 1 .. Len(out) /\ Len(got) \in Nat /\ Len(out) \in Nat
      /\ DOMAIN All = 1 .. Len(All) /\ Len(All) = Len(got) + Len(out)
  BY AllFrames
<1>2. (\A i \in DOMAIN got : got[i].frm \in Nat) /\ (\A i \in DOMAIN out : out[i].frm \in Nat)
  <2> DEFINE S == Outs(sent)
  <2>1. got \in Seq(S) /\ out \in Seq(S)
    BY DEF OInv, Outputs
  <2>2. \A f \in S : f.frm \in Nat
    BY StreamLength DEF Outs, OInv, DInv
  <2> HIDE DEF S
  <2>3. (\A i \in DOMAIN got : got[i] \in S) /\ (\A i \in DOMAIN out : out[i] \in S)
    BY <2>1, ElementOfSeq, LenProperties
  <2> QED BY <2>2, <2>3
<1>3. /\ DOMAIN Ids(got) = DOMAIN got /\ DOMAIN Ids(out) = DOMAIN out
      /\ \A i \in DOMAIN got : Ids(got)[i] = got[i].frm
      /\ \A i \in DOMAIN out : Ids(out)[i] = out[i].frm
  BY DEF Ids
<1>4. Ids(got) \in Seq(Nat) /\ Ids(out) \in Seq(Nat)
  <2>1. Ids(got) \in [1 .. Len(got) -> Nat] /\ Ids(out) \in [1 .. Len(out) -> Nat]
    BY <1>1, <1>2 DEF Ids
  <2> QED BY <1>1, <2>1, SeqDef
<1>5. \A i, j \in DOMAIN All : i < j /\ All[i].frm # 0 /\ All[j].frm # 0 => All[i].frm < All[j].frm
  BY DEF OInv, Ordered
<1>6. Rising(Ids(got))
  BY <1>1, <1>3, <1>5 DEF Rising
<1>7. Rising(Ids(out))
  <2> SUFFICES ASSUME NEW i \in DOMAIN out, NEW j \in DOMAIN out, i < j,
                      0 \notin {out[i].frm, out[j].frm}
               PROVE  out[i].frm < out[j].frm
    BY <1>3 DEF Rising
  <2>1. Len(got) + i < Len(got) + j
    BY <1>1
  <2> QED BY <1>1, <1>5, <2>1
<1>8. ASSUME NEW i \in DOMAIN got, NEW j \in DOMAIN out, got[i].frm # 0, out[j].frm # 0
      PROVE  got[i].frm < out[j].frm
  <2>1. i < Len(got) + j
    BY <1>1
  <2> QED BY <1>1, <1>5, <1>8, <2>1
<1>9. \A x \in ToSet(Ids(got)) \ {0}, y \in ToSet(Ids(out)) \ {0} : x < y
  BY <1>3, <1>8 DEF ToSet
<1>10. /\ Ids(got) \o Ids(out) \in Seq(Nat) /\ Rising(Ids(got) \o Ids(out))
       /\ ToSet(Ids(got) \o Ids(out)) = ToSet(Ids(got)) \cup ToSet(Ids(out))
  BY <1>4, <1>6, <1>7, <1>9, RisingJoined
<1>11. FrmIds(All) = FrmIds(got) \cup FrmIds(out)
  <2>1. ASSUME NEW i \in DOMAIN All
        PROVE  (i \in DOMAIN got /\ All[i] = got[i])
               \/ (i - Len(got) \in DOMAIN out /\ All[i] = out[i - Len(got)])
    <3>1. CASE i <= Len(got)
      BY <1>1, <3>1
    <3>2. CASE ~(i <= Len(got))
      <4>1. i - Len(got) \in DOMAIN out /\ Len(got) + (i - Len(got)) = i
        BY <1>1, <3>2
      <4> QED BY <1>1, <4>1
    <3> QED BY <3>1, <3>2
  <2> QED BY <1>1, <2>1 DEF FrmIds
<1>12. ToSet(Ids(got)) \ {0} = FrmIds(got) /\ ToSet(Ids(out)) \ {0} = FrmIds(out)
  BY <1>3 DEF ToSet, FrmIds
<1> QED BY <1>10, <1>11, <1>12

\* From the drainer back to the port the packets stand in stream order, each once,
\* and every packet put is among them, refused or discarded: for any number of
\* packets, slots and tasks, and any resets.
THEOREM InOneLine == Spec => []PacketsInOneLine
<1>1. ASSUME OInv PROVE PacketsInOneLine
  <2> DEFINE a == Ids(got) \o Ids(out)
             hand == IF tk.curr /\ ~tk.parsed THEN <<tk.frm>> ELSE <<>>
  <2>1. a \in Seq(Nat) /\ Rising(a) /\ ToSet(a) \ {0} = FrmIds(All)
    BY <1>1, FramesLine
  <2>2. sent \in Nat /\ FrmIds(All) \subseteq 1 .. sent /\ OnDisplay \subseteq 1 .. sent
        /\ AtHand \subseteq 1 .. sent /\ InPort \subseteq 1 .. sent
    BY <1>1, PartsTyped
  <2>3. Displayed \in Seq(Nat) /\ Rising(Displayed) /\ ToSet(Displayed) = OnDisplay
    <3>1. DOMAIN Displayed = DOMAIN display
          /\ \A i \in DOMAIN display : Displayed[i] = slots[display[i]].frame
      BY DEF Displayed
    <3>2. ToSet(Displayed) = OnDisplay
      BY <3>1 DEF ToSet, OnDisplay
    <3>3. display \in Seq(Slots)
      BY <1>1, DisplaySeq DEF OInv
    <3>4. Len(display) \in Nat /\ DOMAIN display = 1 .. Len(display)
      BY <3>3, LenProperties
    <3>5. \A i \in DOMAIN display : Displayed[i] \in Nat
      BY <2>2, <3>1 DEF OnDisplay
    <3>6. Displayed \in [1 .. Len(display) -> Nat]
      BY <3>1, <3>4, <3>5 DEF Displayed
    <3>7. Displayed \in Seq(Nat)
      BY <3>4, <3>6, SeqDef
    <3> QED BY <1>1, <3>1, <3>2, <3>7 DEF OInv, Ordered, Rising
  <2>4. hand \in Seq(Nat) /\ Rising(hand) /\ ToSet(hand) = AtHand
    <3>1. CASE tk.curr /\ ~tk.parsed
      <4>1. hand = <<tk.frm>> /\ AtHand = {tk.frm} /\ tk.frm \in Nat
        BY <2>2, <3>1 DEF AtHand
      <4>2. DOMAIN hand = {1} /\ hand[1] = tk.frm
        BY <4>1
      <4> QED BY <4>1, <4>2 DEF Rising, ToSet
    <3>2. CASE ~(tk.curr /\ ~tk.parsed)
      <4>1. hand = <<>> /\ AtHand = {}
        BY <3>2 DEF AtHand
      <4>2. DOMAIN hand = {}
        BY <4>1
      <4> QED BY <4>1, <4>2, EmptySeq DEF Rising, ToSet
    <3> QED BY <3>1, <3>2
  <2>5. port \in Seq(Nat) /\ Rising(port) /\ ToSet(port) = InPort
    <3>1. port \in Seq(1 .. sent) /\ 1 .. sent \subseteq Nat
      BY <1>1, <2>2 DEF OInv, DInv, Fed
    <3>2. port \in Seq(Nat)
      BY <3>1, SeqMonotonic
    <3> QED BY <1>1, <3>2 DEF OInv, Ordered, Rising, ToSet, InPort
  <2>6. /\ \A x \in FrmIds(All), y \in OnDisplay \cup AtHand \cup InPort : x < y
        /\ \A x \in OnDisplay, y \in AtHand \cup InPort : x < y
        /\ \A x \in AtHand, y \in InPort : x < y
    BY <1>1 DEF OInv, Ordered, Below
  <2> HIDE DEF a, hand
  <2>7. a \o Displayed \in Seq(Nat) /\ Rising(a \o Displayed) /\ ToSet(a \o Displayed) = ToSet(a) \cup OnDisplay
    BY <2>1, <2>3, <2>6, RisingJoined
  <2> DEFINE b == a \o Displayed
  <2>8. ToSet(b) \ {0} = FrmIds(All) \cup OnDisplay
    BY <2>1, <2>2, <2>7
  <2>9. b \in Seq(Nat) /\ Rising(b)
    BY <2>7
  <2> HIDE DEF b
  <2>10. b \o hand \in Seq(Nat) /\ Rising(b \o hand) /\ ToSet(b \o hand) = ToSet(b) \cup AtHand
    BY <2>4, <2>6, <2>8, <2>9, RisingJoined
  <2> DEFINE c == b \o hand
  <2>11. ToSet(c) \ {0} = FrmIds(All) \cup OnDisplay \cup AtHand
    BY <2>2, <2>8, <2>10
  <2>12. c \in Seq(Nat) /\ Rising(c)
    BY <2>10
  <2> HIDE DEF c
  <2>13. c \o port \in Seq(Nat) /\ Rising(c \o port) /\ ToSet(c \o port) = ToSet(c) \cup InPort
    BY <2>5, <2>6, <2>11, <2>12, RisingJoined
  <2>14. Line = c \o port
    BY DEF Line, a, b, c, hand
  <2>15. ToSet(Line) \ {0} = InLine
    BY <2>2, <2>11, <2>13, <2>14 DEF InLine
  <2>16. (ToSet(Line) \ {0}) \cup dropped = 1 .. sent /\ ToSet(Line) \cap dropped = {}
    <3>1. InLine \cup dropped = 1 .. sent /\ InLine \cap dropped = {}
      BY <1>1 DEF OInv, Kept
    <3>2. 0 \notin dropped
      BY <2>2, <3>1
    <3> QED BY <2>15, <3>1, <3>2
  <2> QED BY <2>13, <2>14, <2>16 DEF PacketsInOneLine, Rising
<1> QED BY <1>1, OInvHolds, PTL

\* Only the last frame has the eos mark, whatever the display queue holds when the
\* last task is output.
THEOREM EosMarksTheLast == Spec => []EosIsLast
<1>1. OInv => EosIsLast
  BY DEF OInv, LastTask
<1> QED BY <1>1, OInvHolds, PTL
=============================================================================
