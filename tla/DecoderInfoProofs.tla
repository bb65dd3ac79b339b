--------------------------- MODULE DecoderInfoProofs ---------------------------
(***************************************************************************)
(* Proofs about MppDecoder: a change of size is told before the frames of   *)
(* that size, and a reset does not come between.                            *)
(***************************************************************************)
EXTENDS DecoderOrderProofs

-----------------------------------------------------------------------------
(* The invariant: what the parser has learnt, told and been answered *)

\* The answer to a size change is not processed yet.
Answering == dpc \in {"ready", "notify"} \/ cmd

\* Infos of the output list and of the tasks to process.
InfosOut == {i \in DOMAIN out : out[i].chg}
Infos(s) == {i \in DOMAIN s : s[i].kind = "info"}
TaskSize(t) == stream[t.frm].size

\* The last change in sequence s of frames was to size z.
LastTold(s, z) ==
    \E i \in DOMAIN s : /\ s[i].chg /\ s[i].size = z
                        /\ \A k \in DOMAIN s : i <= k /\ s[k].chg => s[k].size = z

\* The change that is last when the tasks to process are output is to size z.
WillTell(z) ==
    IF Infos(proc) = {} THEN LastTold(All, z)
    ELSE \A i \in Infos(proc) : TaskSize(proc[i]) = z

\* What the parser has learnt of sizes.
Learnt ==
    /\ ~changed => info = infoSet
    /\ tk.infoGen => tk.parsed
    /\ tk.parsed => infoSet = TaskSize(tk)
    /\ tk.parsed /\ changed /\ ~tk.infoGen => ppc = "info"
    /\ fpc \in {"resetNotify", "resetWait"} => resets # 0

\* One task at a time tells a change, before the frame that waits for it.
OneInfo ==
    /\ \A i, j \in Infos(proc) : i = j
    /\ \A i \in Infos(proc), j \in Frames(proc) : i < j
    /\ Infos(proc) # {} => Frames(proc) # {} \/ (tk.parsed /\ (tk.infoGen \/ ~changed))

\* Until the first reset returns, one change at a time is being told or answered, and
\* the parser waits for it.
FirstReset == resets = 0 \/ (resets = 1 /\ fpc \in {"resetNotify", "resetWait"})
Waits == changed /\ (parserSem = 1 \/ (tk.parsed /\ tk.infoGen))
OneChange ==
    /\ InfosOut # {} => Waits /\ Infos(proc) = {} /\ ~Answering
    /\ Infos(proc) # {} => Waits /\ ~Answering
    /\ Answering => Waits
    /\ \A i, j \in InfosOut : i = j

\* The last change told is to the size the parser has learnt last, unless it is about
\* to be told, or the reset has discarded it: then it will be told again.
ToldLast ==
    \/ infoSet = 0 /\ InfosOut = {} /\ Infos(proc) = {} /\ ~Answering
    \/ WillTell(infoSet)
    \/ tk.parsed /\ changed /\ ~tk.infoGen
    \/ changed /\ ~tk.parsed /\ InfosOut = {} /\ Infos(proc) = {} /\ ~Answering

\* A frame to be output was told of.
FrameTold(s) ==
    \A j \in DOMAIN s : s[j].frm # 0 =>
        \E i \in 1 .. j : /\ s[i].chg /\ s[i].size = s[j].size
                         /\ \A k \in i .. j : s[k].chg => s[k].size = s[j].size
Told ==
    /\ ToldLast
    /\ \A j \in Frames(proc) : WillTell(TaskSize(proc[j]))
    /\ Draining => LastTold(All, TaskSize(cur))
    /\ FrameTold(All)

\* The slot of the frame being output is the parser's reference until the next picture,
\* and holds the frame while it is displayed.
Drains ==
    Draining =>
        /\ cur.slot = ref <=> Pending = {}
        /\ \A i \in DOMAIN display : display[i] = cur.slot => slots[cur.slot].frame = cur.frm

\* The inductive invariant.
SInv == OInv /\ Learnt /\ OneInfo /\ Drains /\ (FirstReset => OneChange) /\ (resets <= 1 => Told)

-----------------------------------------------------------------------------
(* Sequences of tasks and of frames *)

\* A task sent stands last, after those of either kind.
LEMMA KindsSent ==
    ASSUME NEW s, IsSeq(s), NEW e
    PROVE  /\ Len(s) \in Nat /\ Infos(s) \subseteq 1 .. Len(s) /\ Frames(s) \subseteq 1 .. Len(s)
           /\ Infos(Append(s, e)) = Infos(s) \cup (IF e.kind = "info" THEN {Len(s) + 1} ELSE {})
           /\ Frames(Append(s, e)) = Frames(s) \cup (IF e.kind = "frame" THEN {Len(s) + 1} ELSE {})
           /\ \A i \in 1 .. Len(s) : Append(s, e)[i] = s[i]
           /\ Append(s, e)[Len(s) + 1] = e
<1> DEFINE S == {s[i] : i \in DOMAIN s} \cup {e}
<1>1. s \in Seq(S) BY DEF IsSeq
<1>2. Append(s, e) \in Seq(S) /\ Len(Append(s, e)) = Len(s) + 1
  BY <1>1
<1>3. \A i \in 1 .. Len(s) : Append(s, e)[i] = s[i]
  BY <1>1
<1>4. Append(s, e)[Len(s) + 1] = e
  BY <1>1
<1>5. DOMAIN s = 1 .. Len(s) /\ DOMAIN Append(s, e) = 1 .. Len(s) + 1 /\ Len(s) \in Nat
  BY <1>1, <1>2
<1> QED BY <1>2, <1>3, <1>4, <1>5 DEF Frames, Infos

\* The first task taken off leaves the others one place nearer.
LEMMA KindsTaken ==
    ASSUME NEW s, IsSeq(s), s # <<>>
    PROVE  /\ Len(s) \in Nat /\ Infos(s) \subseteq 1 .. Len(s) /\ Frames(s) \subseteq 1 .. Len(s)
           /\ Infos(Tail(s)) = {i \in 1 .. Len(s) - 1 : i + 1 \in Infos(s)}
           /\ Frames(Tail(s)) = {i \in 1 .. Len(s) - 1 : i + 1 \in Frames(s)}
           /\ \A i \in 1 .. Len(s) - 1 : Tail(s)[i] = s[i + 1]
           /\ 1 \in Infos(s) <=> s[1].kind = "info"
           /\ 1 \in Frames(s) <=> s[1].kind = "frame"
<1> DEFINE S == {s[i] : i \in DOMAIN s}
<1>1. s \in Seq(S) BY DEF IsSeq
<1>2. Tail(s) \in Seq(S) /\ Len(Tail(s)) = Len(s) - 1 /\ Len(s) \in Nat \ {0}
  BY <1>1
<1>3. \A i \in 1 .. Len(s) - 1 : Tail(s)[i] = s[i + 1]
  BY <1>1
<1>5. DOMAIN s = 1 .. Len(s) /\ DOMAIN Tail(s) = 1 .. Len(s) - 1
  BY <1>1, <1>2
<1> QED BY <1>2, <1>3, <1>5 DEF Frames, Infos

\* No task, no change and no frame.
LEMMA NoKinds == Infos(<<>>) = {} /\ Frames(<<>>) = {}
BY DEF Infos, Frames

\* A frame that is no change leaves the last change.
LEMMA LastToldKept ==
    ASSUME NEW s, NEW t, NEW n \in Nat, DOMAIN s = 1 .. n, DOMAIN t = 1 .. n + 1,
           \A i \in DOMAIN s : t[i] = s[i], ~t[n + 1].chg, NEW z
    PROVE  LastTold(s, z) => LastTold(t, z)
<1> SUFFICES ASSUME LastTold(s, z) PROVE LastTold(t, z)
  OBVIOUS
<1>1. PICK i \in DOMAIN s : /\ s[i].chg /\ s[i].size = z
                            /\ \A k \in DOMAIN s : i <= k /\ s[k].chg => s[k].size = z
  BY DEF LastTold
<1>2. \A k \in DOMAIN t : i <= k /\ t[k].chg => t[k].size = z
  <2> TAKE k \in DOMAIN t
  <2>1. CASE k \in DOMAIN s
    BY <1>1, <2>1
  <2>2. CASE k = n + 1
    BY <2>2
  <2> QED BY <2>1, <2>2
<1>3. i \in DOMAIN t /\ t[i].chg /\ t[i].size = z
  BY <1>1
<1> QED BY <1>2, <1>3 DEF LastTold

\* A change that comes last is the last.
LEMMA LastToldNow ==
    ASSUME NEW t, NEW n \in Nat, DOMAIN t = 1 .. n + 1, t[n + 1].chg
    PROVE  LastTold(t, t[n + 1].size)
<1>1. n + 1 \in DOMAIN t /\ \A k \in DOMAIN t : n + 1 <= k => k = n + 1
  OBVIOUS
<1> QED BY <1>1 DEF LastTold

\* A frame that comes last was told of when the last change was to its size.
LEMMA FrameToldMore ==
    ASSUME NEW s, NEW t, NEW n \in Nat, DOMAIN s = 1 .. n, DOMAIN t = 1 .. n + 1,
           \A i \in DOMAIN s : t[i] = s[i], FrameTold(s),
           t[n + 1].frm # 0 => ~t[n + 1].chg /\ LastTold(s, t[n + 1].size)
    PROVE  FrameTold(t)
<1> SUFFICES ASSUME NEW j \in DOMAIN t, t[j].frm # 0
             PROVE  \E i \in 1 .. j : /\ t[i].chg /\ t[i].size = t[j].size
                                      /\ \A k \in i .. j : t[k].chg => t[k].size = t[j].size
  BY DEF FrameTold
<1>1. CASE j \in DOMAIN s
  <2>1. PICK i \in 1 .. j : /\ s[i].chg /\ s[i].size = s[j].size
                            /\ \A k \in i .. j : s[k].chg => s[k].size = s[j].size
    BY <1>1 DEF FrameTold
  <2>2. i .. j \subseteq DOMAIN s /\ i \in DOMAIN s
    BY <1>1
  <2> QED BY <1>1, <2>1, <2>2
<1>2. CASE j = n + 1
  <2>1. PICK i \in DOMAIN s :
            /\ s[i].chg /\ s[i].size = t[j].size
            /\ \A k \in DOMAIN s : i <= k /\ s[k].chg => s[k].size = t[j].size
    BY <1>2 DEF LastTold
  <2>2. ASSUME NEW k \in i .. j, t[k].chg PROVE t[k].size = t[j].size
    <3>1. CASE k \in DOMAIN s
      BY <2>1, <2>2, <3>1
    <3>2. CASE k = n + 1
      BY <1>2, <3>2
    <3> QED BY <1>2, <2>1, <3>1, <3>2
  <2>3. i \in 1 .. j /\ t[i] = s[i]
    BY <1>2, <2>1
  <2> QED BY <2>1, <2>2, <2>3
<1> QED BY <1>1, <1>2

-----------------------------------------------------------------------------
(* Steps *)

\* What the parser has learnt of sizes.
LEMMA LearntStep == SInv /\ [Next]_vars => Learnt'
<1> SUFFICES ASSUME SInv, [Next]_vars PROVE Learnt'
  OBVIOUS
<1> DEFINE Left == /\ UNCHANGED <<info, infoSet, changed, stream, resets>>
                   /\ tk'.parsed = tk.parsed /\ tk'.infoGen = tk.infoGen /\ tk'.frm = tk.frm
                   /\ (ppc = "info" => ppc' = "info")
                   /\ (fpc' \in {"resetNotify", "resetWait"} => fpc \in {"resetNotify", "resetWait"})
<1>1. CASE PutPacket \/ PutPacketNotify \/ ResetNotify \/ ResetFlush \/ GetFrame \/ (\E p
         \in held : ReleaseFrame(p))
  <2>1. Left
    BY <1>1 DEF PutPacket, PutPacketNotify, Notify, ResetNotify, ResetFlush, GetFrame,
       ReleaseFrame, queueVars, groupVars, infoVars, cmdVars, resetVars, halVars,
       userVars, historyVars, SInv, OInv, DInv, Parses, ParserTasks
  <2> QED BY <2>1 DEF SInv, Learnt, TaskSize
<1>2. CASE ControlSend \/ ControlNotify \/ ControlDone \/ CheckTaskWait \/ ResetPort \/
         NoTaskLeft
  <2>1. Left
    BY <1>2 DEF ControlSend, ControlNotify, Notify, ControlDone, CheckTaskWait, ResetPort,
       WakeHal, NoTaskLeft, Working, queueVars, groupVars, infoVars, cmdVars, resetVars,
       halVars, userVars, historyVars, SInv, OInv, DInv, Parses, ParserTasks
  <2> QED BY <2>1 DEF SInv, Learnt, TaskSize
<1>3. CASE TaskWithPacket \/ NoPacket \/ PutEos \/ WaitPrevious \/ SlotForParsed \/ HalRun
  <2>1. Left
    BY <1>3 DEF TaskWithPacket, Working, WithTask, NoPacket, PutEos, PutTask, WakeHal,
       WaitPrevious, SlotForParsed, HalRun, queueVars, groupVars, infoVars, cmdVars,
       resetVars, halVars, userVars, historyVars, SInv, OInv, DInv, Parses, ParserTasks
  <2> QED BY <2>1 DEF SInv, Learnt, TaskSize
<1>4. CASE HalStatus \/ HalClear \/ HalPush \/ HalPushed \/ HalNotify \/ HalReset
  <2>1. Left
    BY <1>4 DEF HalStatus, HalClear, Notify, HalPush, HalPushed, HalNotify, HalReset,
       queueVars, groupVars, infoVars, cmdVars, resetVars, halVars, userVars, historyVars,
       SInv, OInv, DInv, Parses, ParserTasks
  <2> QED BY <2>1 DEF SInv, Learnt, TaskSize
<1>5. CASE HalSleep
  <2>1. Left
    BY <1>5 DEF HalSleep, queueVars, groupVars, infoVars, cmdVars, resetVars, halVars,
       userVars, historyVars, SInv, OInv, DInv, Parses, ParserTasks
  <2> QED BY <2>1 DEF SInv, Learnt, TaskSize
<1>6. CASE ResetStart
  <2>1. /\ UNCHANGED <<stream, info, infoSet, changed, tk, ppc>> /\ resets' = resets + 1
    BY <1>6 DEF ResetStart, infoVars
  <2>2. resets \in Nat
    BY StreamAssumption DEF SInv, OInv, DInv, Fed
  <2> QED BY <2>1, <2>2 DEF SInv, Learnt, TaskSize
<1>7. CASE ProcessControl
  <2>1. /\ UNCHANGED <<stream, infoSet, tk, fpc, resets>> /\ info' = infoSet /\ ~changed'
    BY <1>7 DEF ProcessControl, userVars
  <2> QED BY <2>1 DEF SInv, Learnt, TaskSize
<1>8. CASE ResetParser
  <2>1. /\ UNCHANGED <<info, infoSet, changed, fpc, resets>> /\ ~tk'.parsed /\ ~tk'.infoGen
    BY <1>8 DEF ResetParser, NoTask, infoVars, userVars
  <2> QED BY <2>1 DEF SInv, Learnt
<1>9. CASE ParseNothing
  <2>1. /\ UNCHANGED <<info, infoSet, changed, fpc, resets>> /\ ~tk'.parsed /\ ~tk'.infoGen
    BY <1>9 DEF ParseNothing, NoTask, infoVars, userVars
  <2> QED BY <2>1 DEF SInv, Learnt
<1>10. CASE PutFrame
  <2>1. /\ UNCHANGED <<info, infoSet, changed, fpc, resets>> /\ ~tk'.parsed /\ ~tk'.infoGen
    BY <1>10 DEF PutFrame, NoTask, infoVars, userVars
  <2> QED BY <2>1 DEF SInv, Learnt
<1>11. CASE PreparePacket
  <2>1. /\ UNCHANGED <<info, infoSet, changed, fpc, resets>> /\ ~tk.curr
        /\ tk'.parsed = tk.parsed /\ tk'.infoGen = tk.infoGen
    BY <1>11 DEF PreparePacket, WithTask, NeedsPacket, infoVars, userVars, SInv, OInv, DInv,
       Parses, ParserTasks
  <2>2. ~tk.parsed
    BY <2>1 DEF SInv, OInv, DInv, Parses
  <2> QED BY <2>1, <2>2 DEF SInv, Learnt
<1>12. CASE ParsePicture
  <2>1. /\ UNCHANGED <<stream, info, fpc, resets>> /\ infoSet' = stream[tk.frm].size
        /\ changed' = (changed \/ SizeChanged(tk.frm)) /\ ppc' = "info" /\ ~tk.parsed
    BY <1>12 DEF ParsePicture, userVars
  <2>2. tk'.frm = tk.frm /\ tk'.infoGen = tk.infoGen
    BY <1>12 DEF ParsePicture, SInv, OInv, DInv, Parses, ParserTasks
  <2> QED BY <2>1, <2>2 DEF SInv, Learnt, TaskSize, SizeChanged
<1>13. CASE PutInfo \/ WaitInfo \/ WaitBuffer \/ WaitMatch
  <2>1. /\ UNCHANGED <<stream, info, infoSet, changed, fpc, resets>> /\ ppc = "info"
        /\ tk'.parsed = tk.parsed /\ tk'.frm = tk.frm /\ (tk'.infoGen \/ ~changed)
    BY <1>13 DEF PutInfo, WaitInfo, WaitBuffer, WaitMatch, infoVars, userVars, SInv, OInv, DInv,
       Parses, ParserTasks
  <2>2. tk.parsed
    BY <2>1 DEF SInv, OInv, DInv, Parses
  <2> QED BY <2>1, <2>2 DEF SInv, Learnt, TaskSize
<1>14. CASE UNCHANGED vars
  <2>1. Left
    BY <1>14 DEF vars, queueVars, groupVars, infoVars, cmdVars, resetVars, halVars,
       userVars, historyVars, SInv, OInv, DInv, Parses, ParserTasks
  <2> QED BY <2>1 DEF SInv, Learnt, TaskSize
<1> QED BY <1>1, <1>2, <1>3, <1>4, <1>5, <1>6, <1>7, <1>8, <1>9, <1>10, <1>11, <1>12,
       <1>13, <1>14 DEF Next, GoOn, FeederGoesOn, Drainer, Parser, Hal

\* The parser that is between two tasks, or has a change to tell, has told none that
\* is not processed.
LEMMA NoInfo ==
    ASSUME SInv, \/ ppc = "slot" /\ ~tk.parsed
                 \/ ppc = "info" /\ changed /\ ~tk.infoGen
    PROVE  Infos(proc) = {} /\ Frames(proc) = {}
BY DEF SInv, OInv, DInv, IInv, Handshake, OneInfo

\* The frame task that the hardware has done is the only task.
LEMMA StatusInfos ==
    ASSUME SInv, HalStatus
    PROVE  /\ Infos(proc) = {} /\ Infos(proc') = {} /\ Frames(proc') = {}
           /\ 1 \in Frames(proc) /\ proc[1] = cur
<1>1. /\ proc # <<>> /\ proc' = Tail(proc) /\ proc[1] = cur /\ cur.kind = "frame"
  BY DEF HalStatus, Processed, SInv, OInv, DInv, Group, IInv, AtWork
<1>2. /\ Infos(proc) \subseteq 1 .. Len(proc) /\ Frames(proc) \subseteq 1 .. Len(proc) /\ Len(proc) \in Nat
      /\ Infos(proc') = {i \in 1 .. Len(proc) - 1 : i + 1 \in Infos(proc)}
      /\ Frames(proc') = {i \in 1 .. Len(proc) - 1 : i + 1 \in Frames(proc)}
      /\ 1 \in Frames(proc)
  BY <1>1, KindsTaken DEF SInv, OInv, DInv, IInv
<1>3. Infos(proc) = {}
  BY <1>2 DEF SInv, OneInfo
<1>4. \A i \in Frames(proc) : i = 1
  BY <1>2 DEF SInv, OInv, DInv, IInv, Handshake
<1> QED BY <1>1, <1>2, <1>3, <1>4

\* An eos task is of neither kind.
LEMMA EosSent ==
    ASSUME SInv, PutEos \/ ParseNothing
    PROVE  /\ Infos(proc') = Infos(proc) /\ Frames(proc') = Frames(proc)
           /\ \A i \in Infos(proc) \cup Frames(proc) : proc'[i] = proc[i]
<1>1. proc' = proc \/ \E e : proc' = Append(proc, e) /\ e.kind = "eos"
  <2>1. CASE PutEos
    BY <2>1 DEF PutEos, PutTask, TaskInfo
  <2>2. CASE ParseNothing
    BY <2>2 DEF ParseNothing, PutTask, TaskInfo
  <2> QED BY <2>1, <2>2
<1>2. CASE proc' = proc
  BY <1>2
<1>3. CASE \E e : proc' = Append(proc, e) /\ e.kind = "eos"
  <2>1. PICK e : proc' = Append(proc, e) /\ e.kind = "eos"
    BY <1>3
  <2>2. IsSeq(proc)
    BY DEF SInv, OInv, DInv, IInv
  <2>3. /\ Infos(Append(proc, e)) = Infos(proc) \cup (IF e.kind = "info" THEN {Len(proc) + 1} ELSE {})
        /\ Frames(Append(proc, e)) = Frames(proc) \cup (IF e.kind = "frame" THEN {Len(proc) + 1} ELSE {})
        /\ Infos(proc) \subseteq 1 .. Len(proc) /\ Frames(proc) \subseteq 1 .. Len(proc)
        /\ \A i \in 1 .. Len(proc) : Append(proc, e)[i] = proc[i]
    BY <2>2, KindsSent
  <2> QED BY <2>1, <2>3
<1> QED BY <1>1, <1>2, <1>3

\* A change is told by the only task of its kind, and no frame is before it.
LEMMA InfoSent ==
    ASSUME SInv, PutInfo
    PROVE  /\ Infos(proc) = {} /\ Frames(proc) = {} /\ tk.parsed /\ changed /\ ~tk.infoGen
           /\ Infos(proc') = {Len(proc) + 1} /\ Frames(proc') = {}
           /\ proc'[Len(proc) + 1].frm = tk.frm
           /\ tk'.parsed /\ tk'.infoGen
<1> DEFINE e == TaskInfo("info", InfoWithoutEos)
<1>1. /\ Infos(proc) = {} /\ Frames(proc) = {} /\ tk.parsed /\ changed /\ ~tk.infoGen
      /\ proc' = Append(proc, e)
  BY NoInfo DEF PutInfo, PutTask, SInv, OInv, DInv, Parses
<1>2. tk'.parsed /\ tk'.infoGen
  BY <1>1 DEF PutInfo, SInv, OInv, DInv, Parses, ParserTasks
<1>3. e.kind = "info" /\ e.frm = tk.frm
  BY DEF TaskInfo, InfoWithoutEos, SInv, OInv, DInv, Parses, ParserTasks
<1>4. IsSeq(proc)
  BY DEF SInv, OInv, DInv, IInv
<1> HIDE DEF e
<1>5. /\ Infos(Append(proc, e)) = Infos(proc) \cup (IF e.kind = "info" THEN {Len(proc) + 1} ELSE {})
      /\ Frames(Append(proc, e)) = Frames(proc) \cup (IF e.kind = "frame" THEN {Len(proc) + 1} ELSE {})
      /\ Append(proc, e)[Len(proc) + 1] = e
  BY <1>4, KindsSent
<1> QED BY <1>1, <1>2, <1>3, <1>5

\* A frame task stands last.
LEMMA FrameSent ==
    ASSUME SInv, PutFrame
    PROVE  /\ Infos(proc') = Infos(proc) /\ Frames(proc') = {Len(proc) + 1}
           /\ Infos(proc) \subseteq 1 .. Len(proc) /\ Len(proc) \in Nat
           /\ \A i \in Infos(proc) : proc'[i] = proc[i]
           /\ proc'[Len(proc) + 1].frm = tk.frm /\ tk.parsed
<1> DEFINE e == TaskInfo("frame", tk)
<1>1. proc' = Append(proc, e) /\ Frames(proc) = {} /\ tk.parsed
  BY DEF PutFrame, PutTask, SInv, OInv, DInv, IInv, Handshake, Parses
<1>2. e.kind = "frame" /\ e.frm = tk.frm
  BY DEF TaskInfo
<1>3. IsSeq(proc)
  BY DEF SInv, OInv, DInv, IInv
<1> HIDE DEF e
<1>4. /\ Infos(Append(proc, e)) = Infos(proc) \cup (IF e.kind = "info" THEN {Len(proc) + 1} ELSE {})
      /\ Frames(Append(proc, e)) = Frames(proc) \cup (IF e.kind = "frame" THEN {Len(proc) + 1} ELSE {})
      /\ Infos(proc) \subseteq 1 .. Len(proc) /\ Len(proc) \in Nat
      /\ \A i \in 1 .. Len(proc) : Append(proc, e)[i] = proc[i]
      /\ Append(proc, e)[Len(proc) + 1] = e
  BY <1>3, KindsSent
<1> QED BY <1>1, <1>2, <1>4

\* An info or eos task that is output is the first of the list.
LEMMA MarkTaken ==
    ASSUME SInv, HalPushed
    PROVE  /\ Infos(proc) \subseteq 1 .. Len(proc) /\ Frames(proc) \subseteq 1 .. Len(proc) /\ Len(proc) \in Nat
           /\ Infos(proc') = {i \in 1 .. Len(proc) - 1 : i + 1 \in Infos(proc)}
           /\ Frames(proc') = {i \in 1 .. Len(proc) - 1 : i + 1 \in Frames(proc)}
           /\ \A i \in 1 .. Len(proc) - 1 : proc'[i] = proc[i + 1]
           /\ 1 \notin Frames(proc) /\ proc[1] = cur /\ (1 \in Infos(proc) <=> cur.kind = "info")
<1>1. proc' = Tail(proc) /\ proc # <<>> /\ proc[1] = cur /\ cur.kind # "frame"
  BY DEF HalPushed, SInv, OInv, DInv, Group
<1>2. IsSeq(proc)
  BY DEF SInv, OInv, DInv, IInv
<1>3. /\ Len(proc) \in Nat /\ Infos(proc) \subseteq 1 .. Len(proc) /\ Frames(proc) \subseteq 1 .. Len(proc)
      /\ Infos(Tail(proc)) = {i \in 1 .. Len(proc) - 1 : i + 1 \in Infos(proc)}
      /\ Frames(Tail(proc)) = {i \in 1 .. Len(proc) - 1 : i + 1 \in Frames(proc)}
      /\ \A i \in 1 .. Len(proc) - 1 : Tail(proc)[i] = proc[i + 1]
      /\ (1 \in Infos(proc) <=> proc[1].kind = "info") /\ (1 \in Frames(proc) <=> proc[1].kind = "frame")
  BY <1>1, <1>2, KindsTaken
<1> QED BY <1>1, <1>3

\* Steps that send and process no task.
LEMMA OneInfoKept ==
    ASSUME SInv, proc' = proc, tk'.parsed = tk.parsed, tk'.infoGen = tk.infoGen,
           changed' \in {changed, FALSE}
    PROVE  OneInfo'
<1>1. CASE changed' = changed
  BY <1>1 DEF SInv, OneInfo
<1>2. CASE changed' = FALSE
  BY <1>2 DEF SInv, OneInfo
<1> QED BY <1>1, <1>2

\* One task at a time tells a change, before the frame that waits for it.
LEMMA OneInfoStep == SInv /\ [Next]_vars => OneInfo'
<1> SUFFICES ASSUME SInv, [Next]_vars PROVE OneInfo'
  OBVIOUS
<1> DEFINE Left == /\ proc' = proc /\ tk'.parsed = tk.parsed /\ tk'.infoGen = tk.infoGen
                   /\ changed' \in {changed, FALSE}
<1>1. CASE PutPacket \/ PutPacketNotify \/ ResetStart \/ ResetNotify \/ ResetFlush \/
         GetFrame
  <2>1. Left
    BY <1>1 DEF PutPacket, PutPacketNotify, Notify, ResetStart, ResetNotify, ResetFlush,
       GetFrame, queueVars, groupVars, infoVars, cmdVars, resetVars, halVars, userVars,
       historyVars, SInv, OInv, DInv, Parses, ParserTasks
  <2> QED BY <2>1, OneInfoKept
<1>2. CASE (\E p \in held : ReleaseFrame(p)) \/ ControlSend \/ ControlNotify \/
         ControlDone \/ CheckTaskWait \/ ProcessControl
  <2>1. Left
    BY <1>2 DEF ReleaseFrame, Notify, ControlSend, ControlNotify, ControlDone,
       CheckTaskWait, ProcessControl, queueVars, groupVars, infoVars, cmdVars, resetVars,
       halVars, userVars, historyVars, SInv, OInv, DInv, Parses, ParserTasks
  <2> QED BY <2>1, OneInfoKept
<1>3. CASE ResetPort \/ NoTaskLeft \/ TaskWithPacket \/ NoPacket \/ PreparePacket \/
         WaitPrevious
  <2>1. Left
    BY <1>3 DEF ResetPort, WakeHal, NoTaskLeft, Working, TaskWithPacket, WithTask,
       NoPacket, PreparePacket, WaitPrevious, queueVars, groupVars, infoVars, cmdVars,
       resetVars, halVars, userVars, historyVars, SInv, OInv, DInv, Parses, ParserTasks
  <2> QED BY <2>1, OneInfoKept
<1>4. CASE SlotForParsed \/ WaitInfo \/ HalRun \/ HalClear \/ HalPush \/ HalNotify
  <2>1. Left
    BY <1>4 DEF SlotForParsed, WaitInfo, HalRun, HalClear, Notify, HalPush, HalNotify,
       queueVars, groupVars, infoVars, cmdVars, resetVars, halVars, userVars, historyVars,
       SInv, OInv, DInv, Parses, ParserTasks
  <2> QED BY <2>1, OneInfoKept
<1>5. CASE HalReset \/ HalSleep
  <2>1. Left
    BY <1>5 DEF HalReset, HalSleep, queueVars, groupVars, infoVars, cmdVars, resetVars,
       halVars, userVars, historyVars, SInv, OInv, DInv, Parses, ParserTasks
  <2> QED BY <2>1, OneInfoKept
<1>6. CASE ResetParser
  <2>1. proc' = <<>>
    BY <1>6 DEF ResetParser, groupVars, SInv, OInv, DInv, IInv, ResetAnswer
  <2> QED BY <2>1, NoKinds DEF OneInfo
<1>7. CASE PutEos
  <2>1. /\ changed' = changed /\ tk'.parsed = tk.parsed /\ tk'.infoGen = tk.infoGen
    BY <1>7 DEF PutEos, WithTask, infoVars, SInv, OInv, DInv, Parses, ParserTasks
  <2>2. Infos(proc') = Infos(proc) /\ Frames(proc') = Frames(proc)
    BY <1>7, EosSent
  <2> QED BY <2>1, <2>2 DEF SInv, OneInfo
<1>8. CASE ParseNothing
  <2>1. Infos(proc) = {}
    BY <1>8, NoInfo DEF ParseNothing
  <2>2. Infos(proc') = {}
    BY <1>8, <2>1, EosSent
  <2> QED BY <2>2 DEF OneInfo
<1>9. CASE ParsePicture
  <2>1. Infos(proc) = {} /\ proc' = proc
    BY <1>9, NoInfo DEF ParsePicture, groupVars
  <2> QED BY <2>1 DEF OneInfo
<1>10. CASE PutInfo
  <2> QED BY <1>10, InfoSent DEF OneInfo
<1>11. CASE WaitBuffer \/ WaitMatch
  <2>1. proc' = proc /\ ~changed'
    BY <1>11 DEF WaitBuffer, WaitMatch, groupVars, infoVars
  <2>2. tk \in ParserTasks
    BY DEF SInv, OInv, DInv, Parses
  <2>3. tk'.parsed = tk.parsed
    <3>1. CASE WaitBuffer
      BY <2>2, <3>1 DEF WaitBuffer, ParserTasks
    <3>2. CASE WaitMatch
      BY <2>2, <3>2 DEF WaitMatch, ParserTasks
    <3> QED BY <1>11, <3>1, <3>2
  <2> QED BY <2>1, <2>3 DEF SInv, OneInfo
<1>12. CASE PutFrame
  <2>1. /\ Infos(proc') = Infos(proc) /\ Frames(proc') = {Len(proc) + 1}
        /\ Infos(proc) \subseteq 1 .. Len(proc) /\ Len(proc) \in Nat
    BY <1>12, FrameSent
  <2> QED BY <2>1 DEF SInv, OneInfo
<1>13. CASE HalStatus
  <2>1. Infos(proc) = {} /\ Infos(proc') = {}
    BY <1>13, StatusInfos
  <2> QED BY <2>1 DEF OneInfo
<1>14. CASE HalPushed
  <2>1. UNCHANGED <<tk, changed>>
    BY <1>14 DEF HalPushed, infoVars
  <2>2. /\ Infos(proc) \subseteq 1 .. Len(proc) /\ Frames(proc) \subseteq 1 .. Len(proc) /\ Len(proc) \in Nat
        /\ Infos(proc') = {i \in 1 .. Len(proc) - 1 : i + 1 \in Infos(proc)}
        /\ Frames(proc') = {i \in 1 .. Len(proc) - 1 : i + 1 \in Frames(proc)}
        /\ 1 \notin Frames(proc)
    BY <1>14, MarkTaken
  <2>3. Frames(proc) # {} => Frames(proc') # {}
    <3> SUFFICES ASSUME NEW i \in Frames(proc) PROVE Frames(proc') # {}
      OBVIOUS
    <3>1. i - 1 \in 1 .. Len(proc) - 1 /\ (i - 1) + 1 = i
      BY <2>2
    <3> QED BY <2>2, <3>1
  <2>4. Infos(proc') # {} => Infos(proc) # {}
    BY <2>2
  <2>5. \A i, j \in Infos(proc') : i = j
    BY <2>2 DEF SInv, OneInfo
  <2>6. \A i \in Infos(proc'), j \in Frames(proc') : i < j
    BY <2>2 DEF SInv, OneInfo
  <2> QED BY <2>1, <2>3, <2>4, <2>5, <2>6 DEF SInv, OneInfo
<1>15. CASE UNCHANGED vars
  <2>1. Left
    BY <1>15 DEF vars, queueVars, groupVars, infoVars, cmdVars, resetVars, halVars,
       userVars, historyVars, SInv, OInv, DInv, Parses, ParserTasks
  <2> QED BY <2>1, OneInfoKept
<1> QED BY <1>1, <1>2, <1>3, <1>4, <1>5, <1>6, <1>7, <1>8, <1>9, <1>10, <1>11, <1>12,
       <1>13, <1>14, <1>15 DEF Next, GoOn, FeederGoesOn, Drainer, Parser, Hal

\* No reset ends before the first has begun, and none is undone.
LEMMA FirstStays == SInv /\ [Next]_vars => (FirstReset' => FirstReset) /\ (resets' <= 1 => resets <= 1)
<1> SUFFICES ASSUME SInv, [Next]_vars PROVE (FirstReset' => FirstReset) /\ (resets' <= 1 => resets <= 1)
  OBVIOUS
<1> DEFINE Left == /\ resets' = resets
                   /\ (fpc' \in {"resetNotify", "resetWait"} => fpc \in {"resetNotify", "resetWait"})
<1>1. CASE PutPacket \/ PutPacketNotify \/ ResetNotify \/ ResetFlush \/ GetFrame \/ (\E p
         \in held : ReleaseFrame(p))
  <2>1. Left
    BY <1>1 DEF PutPacket, PutPacketNotify, Notify, ResetNotify, ResetFlush, GetFrame,
       ReleaseFrame, queueVars, groupVars, infoVars, cmdVars, resetVars, halVars,
       userVars, historyVars
  <2> QED BY <2>1 DEF FirstReset
<1>2. CASE ControlSend \/ ControlNotify \/ ControlDone \/ CheckTaskWait \/ ProcessControl
         \/ ResetPort
  <2>1. Left
    BY <1>2 DEF ControlSend, ControlNotify, Notify, ControlDone, CheckTaskWait,
       ProcessControl, ResetPort, WakeHal, queueVars, groupVars, infoVars, cmdVars,
       resetVars, halVars, userVars, historyVars
  <2> QED BY <2>1 DEF FirstReset
<1>3. CASE ResetParser \/ NoTaskLeft \/ TaskWithPacket \/ NoPacket \/ PreparePacket \/
         PutEos
  <2>1. Left
    BY <1>3 DEF ResetParser, NoTaskLeft, Working, TaskWithPacket, WithTask, NoPacket,
       PreparePacket, PutEos, PutTask, WakeHal, queueVars, groupVars, infoVars, cmdVars,
       resetVars, halVars, userVars, historyVars
  <2> QED BY <2>1 DEF FirstReset
<1>4. CASE WaitPrevious \/ SlotForParsed \/ ParseNothing \/ ParsePicture \/ PutInfo \/
         WaitInfo
  <2>1. Left
    BY <1>4 DEF WaitPrevious, SlotForParsed, ParseNothing, PutTask, WakeHal, ParsePicture,
       PutInfo, WaitInfo, queueVars, groupVars, infoVars, cmdVars, resetVars, halVars,
       userVars, historyVars
  <2> QED BY <2>1 DEF FirstReset
<1>5. CASE WaitBuffer \/ WaitMatch \/ PutFrame \/ HalRun \/ HalStatus \/ HalClear \/ HalPush
  <2>1. Left
    BY <1>5 DEF WaitBuffer, WaitMatch, PutFrame, PutTask, WakeHal, HalRun, HalStatus, HalClear,
       Notify, HalPush, queueVars, groupVars, infoVars, cmdVars, resetVars, halVars,
       userVars, historyVars
  <2> QED BY <2>1 DEF FirstReset
<1>6. CASE HalPushed \/ HalNotify \/ HalReset \/ HalSleep
  <2>1. Left
    BY <1>6 DEF HalPushed, HalNotify, Notify, HalReset, HalSleep, queueVars, groupVars,
       infoVars, cmdVars, resetVars, halVars, userVars, historyVars
  <2> QED BY <2>1 DEF FirstReset
<1>7. CASE ResetStart
  <2>1. resets' = resets + 1 /\ resets \in Nat
    BY <1>7, StreamAssumption DEF ResetStart, SInv, OInv, DInv, Fed
  <2> QED BY <2>1 DEF FirstReset
<1>8. CASE UNCHANGED vars
  <2>1. Left
    BY <1>8 DEF vars, queueVars, groupVars, infoVars, cmdVars, resetVars, halVars, userVars,
       historyVars
  <2> QED BY <2>1 DEF FirstReset
<1> QED BY <1>1, <1>2, <1>3, <1>4, <1>5, <1>6, <1>7, <1>8 DEF Next, GoOn, FeederGoesOn,
       Drainer, Parser, Hal

\* The drainer takes the first of mFrmOut.
LEMMA OutTaken ==
    ASSUME OInv, out # <<>>, out' = Tail(out)
    PROVE  /\ InfosOut' = {i \in 1 .. Len(out) - 1 : i + 1 \in InfosOut} /\ Len(out) \in Nat
           /\ (1 \in InfosOut <=> Head(out).chg) /\ InfosOut \subseteq 1 .. Len(out)
<1> DEFINE S == Outs(sent)
<1>1. out \in Seq(S)
  BY DEF OInv, Outputs
<1> HIDE DEF S
<1>2. Tail(out) \in Seq(S) /\ Len(Tail(out)) = Len(out) - 1 /\ Len(out) \in Nat \ {0}
  BY <1>1
<1>3. (\A i \in 1 .. Len(out) - 1 : Tail(out)[i] = out[i + 1]) /\ Head(out) = out[1]
  BY <1>1
<1>4. DOMAIN out = 1 .. Len(out) /\ DOMAIN Tail(out) = 1 .. Len(out) - 1
  BY <1>1, <1>2
<1> QED BY <1>2, <1>3, <1>4 DEF InfosOut

\* A frame output stands last in mFrmOut.
LEMMA OutPushed ==
    ASSUME OInv, NEW f \in Outs(sent), out' = Append(out, f)
    PROVE  InfosOut' = InfosOut \cup (IF f.chg THEN {Len(out) + 1} ELSE {})
<1> DEFINE S == Outs(sent)
<1>1. out \in Seq(S) /\ f \in S
  BY DEF OInv, Outputs
<1> HIDE DEF S
<1>2. Append(out, f) \in Seq(S) /\ Len(Append(out, f)) = Len(out) + 1 /\ Len(out) \in Nat
  BY <1>1
<1>3. (\A i \in 1 .. Len(out) : Append(out, f)[i] = out[i]) /\ Append(out, f)[Len(out) + 1] = f
  BY <1>1
<1>4. DOMAIN out = 1 .. Len(out) /\ DOMAIN Append(out, f) = 1 .. Len(out) + 1
  BY <1>1, <1>2
<1> QED BY <1>2, <1>3, <1>4 DEF InfosOut

\* The parser that parses, or goes on without a change, waits for none, so that none is
\* under way.
LEMMA NotWaiting ==
    ASSUME SInv, OneChange, \/ ppc = "slot" /\ ~tk.parsed
                            \/ ppc = "info" /\ ~(changed /\ tk.infoGen)
    PROVE  InfosOut = {} /\ Infos(proc) = {} /\ ~Answering
<1>1. parserSem # 1
  BY DEF SInv, OInv, Quiet
<1> QED BY <1>1 DEF OneChange, Waits

\* Steps that tell and answer nothing.
LEMMA OneChangeKept ==
    ASSUME OneChange, UNCHANGED <<out, proc, parserSem, changed>>, tk'.parsed = tk.parsed,
           tk'.infoGen = tk.infoGen, Answering' => Answering
    PROVE  OneChange'
<1>1. InfosOut' = InfosOut /\ (Waits' <=> Waits)
  BY DEF InfosOut, Waits
<1> QED BY <1>1 DEF OneChange

\* One change at a time is told or answered, until the first reset returns.
LEMMA OneChangeStep == (SInv /\ OneChange /\ FirstReset') /\ [Next]_vars => OneChange'
<1> SUFFICES ASSUME (SInv /\ OneChange /\ FirstReset'), [Next]_vars PROVE OneChange'
  OBVIOUS
<1> DEFINE Left == /\ UNCHANGED <<out, proc, parserSem, changed>> /\ tk'.parsed = tk.parsed
                   /\ tk'.infoGen = tk.infoGen /\ cmd' = cmd
                   /\ (dpc' = dpc \/ dpc' \in {"wait", "free"})
<1>1. CASE PutPacket \/ PutPacketNotify \/ ResetStart \/ ResetNotify \/ (\E p \in held :
         ReleaseFrame(p)) \/ ControlNotify
  <2>1. Left
    BY <1>1 DEF PutPacket, PutPacketNotify, Notify, ResetStart, ResetNotify, ReleaseFrame,
       ControlNotify, queueVars, groupVars, infoVars, cmdVars, resetVars, halVars,
       userVars, historyVars, SInv, OInv, DInv, Parses, ParserTasks
  <2> QED BY <2>1, OneChangeKept DEF Answering
<1>2. CASE ControlDone \/ CheckTaskWait \/ ResetPort \/ NoTaskLeft \/ TaskWithPacket \/
         NoPacket
  <2>1. Left
    BY <1>2 DEF ControlDone, Notify, CheckTaskWait, ResetPort, WakeHal, NoTaskLeft,
       Working, TaskWithPacket, WithTask, NoPacket, queueVars, groupVars, infoVars,
       cmdVars, resetVars, halVars, userVars, historyVars, SInv, OInv, DInv, Parses,
       ParserTasks
  <2> QED BY <2>1, OneChangeKept DEF Answering
<1>3. CASE PreparePacket \/ WaitPrevious \/ SlotForParsed \/ WaitInfo \/ HalRun \/
         HalClear
  <2>1. Left
    BY <1>3 DEF PreparePacket, Working, WithTask, WaitPrevious, SlotForParsed, WaitInfo,
       HalRun, HalClear, Notify, queueVars, groupVars, infoVars, cmdVars, resetVars,
       halVars, userVars, historyVars, SInv, OInv, DInv, Parses, ParserTasks
  <2> QED BY <2>1, OneChangeKept DEF Answering
<1>4. CASE HalNotify \/ HalSleep
  <2>1. Left
    BY <1>4 DEF HalNotify, Notify, HalSleep, queueVars, groupVars, infoVars, cmdVars,
       resetVars, halVars, userVars, historyVars, SInv, OInv, DInv, Parses, ParserTasks
  <2> QED BY <2>1, OneChangeKept DEF Answering
<1>5. CASE GetFrame
  <2>1. /\ UNCHANGED <<proc, parserSem, changed, tk, cmd>> /\ out # <<>> /\ out' = Tail(out) /\ dpc = "free"
        /\ dpc' = IF Head(out).chg THEN "ready" ELSE "free"
    BY <1>5 DEF GetFrame, Notify, groupVars, resetVars, infoVars, cmdVars
  <2>2. ~cmd
    BY <2>1 DEF SInv, OInv, Controls
  <2>3. /\ InfosOut' = {i \in 1 .. Len(out) - 1 : i + 1 \in InfosOut} /\ Len(out) \in Nat
        /\ (1 \in InfosOut <=> Head(out).chg) /\ InfosOut \subseteq 1 .. Len(out)
    BY <2>1, OutTaken DEF SInv
  <2>4. CASE Head(out).chg
    <3>1. InfosOut' = {}
      BY <2>3, <2>4 DEF OneChange
    <3>2. Waits /\ Infos(proc) = {}
      BY <2>3, <2>4 DEF OneChange
    <3>3. Waits'
      BY <2>1, <3>2 DEF Waits
    <3> QED BY <2>1, <3>1, <3>2, <3>3 DEF OneChange
  <2>5. CASE ~Head(out).chg
    <3>1. ~Answering'
      BY <2>1, <2>2, <2>5 DEF Answering
    <3>2. Waits' <=> Waits
      BY <2>1 DEF Waits
    <3>3. InfosOut' # {} => InfosOut # {}
      BY <2>3
    <3>4. \A i, j \in InfosOut' : i = j
      BY <2>3 DEF OneChange
    <3> QED BY <2>1, <3>1, <3>2, <3>3, <3>4 DEF OneChange
  <2> QED BY <2>4, <2>5
<1>6. CASE ProcessControl
  <2>1. UNCHANGED <<out, proc, dpc>> /\ cmd /\ cmd' = FALSE /\ cmdStart > 0
    BY <1>6 DEF ProcessControl, groupVars, userVars
  <2>2. dpc \notin {"ready", "notify"}
    BY <2>1 DEF SInv, OInv, Controls
  <2>3. Answering /\ ~Answering'
    BY <2>1, <2>2 DEF Answering
  <2>4. InfosOut = {} /\ Infos(proc) = {}
    BY <2>3 DEF OneChange
  <2>5. InfosOut' = {}
    BY <2>1, <2>4 DEF InfosOut
  <2> QED BY <2>1, <2>3, <2>4, <2>5 DEF OneChange
<1>7. CASE ResetParser
  <2>1. UNCHANGED <<out, proc, changed, dpc, cmd>> /\ parserSem' = parserSem + 1 /\ ppc = "reset"
    BY <1>7 DEF ResetParser, groupVars, infoVars, cmdVars, userVars
  <2>2. parserSem = 0
    BY <2>1 DEF SInv, OInv, DInv, Resets
  <2>3. Waits => Waits'
    BY <2>1, <2>2 DEF Waits
  <2>4. InfosOut' = InfosOut /\ (Answering' <=> Answering)
    BY <2>1 DEF InfosOut, Answering
  <2> QED BY <2>1, <2>3, <2>4 DEF OneChange
<1>8. CASE ResetFlush
  <2>1. fpc = "resetWait" /\ fpc' = "free" /\ resets' = resets
    BY <1>8 DEF ResetFlush
  <2>2. resets # 0
    BY <2>1 DEF SInv, Learnt
  <2> QED BY <2>1, <2>2 DEF FirstReset
<1>9. CASE PutEos
  <2>1. /\ UNCHANGED <<out, parserSem, changed, dpc, cmd>>
        /\ tk'.parsed = tk.parsed /\ tk'.infoGen = tk.infoGen
    BY <1>9 DEF PutEos, WithTask, resetVars, infoVars, cmdVars, userVars, SInv, OInv, DInv,
       Parses, ParserTasks
  <2>2. Infos(proc') = Infos(proc)
    BY <1>9, EosSent
  <2>3. /\ (Waits' <=> Waits) /\ InfosOut' = InfosOut /\ (Answering' <=> Answering)
    BY <2>1 DEF InfosOut, Answering, Waits
  <2> QED BY <2>2, <2>3 DEF OneChange
<1>10. CASE ParseNothing
  <2>1. UNCHANGED <<out, dpc, cmd, changed>> /\ ppc = "slot" /\ ~tk.parsed
    BY <1>10 DEF ParseNothing, infoVars, cmdVars, userVars
  <2>2. InfosOut = {} /\ Infos(proc) = {} /\ ~Answering
    BY <2>1, NotWaiting
  <2>3. InfosOut' = {} /\ ~Answering'
    BY <2>1, <2>2 DEF InfosOut, Answering
  <2>4. Infos(proc') = {}
    BY <1>10, <2>2, EosSent
  <2> QED BY <2>3, <2>4 DEF OneChange
<1>11. CASE ParsePicture
  <2>1. UNCHANGED <<out, dpc, cmd>> /\ ppc = "slot" /\ ~tk.parsed
    BY <1>11 DEF ParsePicture, infoVars, cmdVars, userVars
  <2>2. InfosOut = {} /\ Infos(proc) = {} /\ ~Answering
    BY <2>1, NotWaiting
  <2>3. InfosOut' = {} /\ ~Answering'
    BY <2>1, <2>2 DEF InfosOut, Answering
  <2>4. Infos(proc') = {}
    BY <1>11, <2>2 DEF ParsePicture, groupVars
  <2> QED BY <2>3, <2>4 DEF OneChange
<1>12. CASE PutInfo
  <2>1. UNCHANGED <<out, dpc, cmd, changed>> /\ ppc = "info" /\ ~tk.infoGen
    BY <1>12 DEF PutInfo, infoVars, cmdVars, userVars
  <2>2. InfosOut = {} /\ Infos(proc) = {} /\ ~Answering
    BY <2>1, NotWaiting
  <2>3. InfosOut' = {} /\ ~Answering'
    BY <2>1, <2>2 DEF InfosOut, Answering
  <2>4. Waits'
    BY <1>12, <2>1, InfoSent DEF Waits
  <2> QED BY <2>2, <2>3, <2>4 DEF OneChange
<1>13. CASE WaitBuffer \/ WaitMatch
  <2>1. UNCHANGED <<out, dpc, cmd, changed>> /\ ppc = "info" /\ ~changed
    BY <1>13 DEF WaitBuffer, WaitMatch, infoVars, cmdVars, userVars
  <2>2. InfosOut = {} /\ Infos(proc) = {} /\ ~Answering
    BY <2>1, NotWaiting
  <2>3. InfosOut' = {} /\ ~Answering'
    BY <2>1, <2>2 DEF InfosOut, Answering
  <2>4. Infos(proc') = {}
    BY <1>13, <2>2 DEF WaitBuffer, WaitMatch, groupVars
  <2> QED BY <2>3, <2>4 DEF OneChange
<1>14. CASE PutFrame
  <2>1. UNCHANGED <<out, dpc, cmd, changed>> /\ ppc = "info" /\ ~changed
    BY <1>14 DEF PutFrame, infoVars, cmdVars, userVars
  <2>2. InfosOut = {} /\ Infos(proc) = {} /\ ~Answering
    BY <2>1, NotWaiting
  <2>3. InfosOut' = {} /\ ~Answering'
    BY <2>1, <2>2 DEF InfosOut, Answering
  <2>4. Infos(proc') = {}
    BY <1>14, <2>2, FrameSent
  <2> QED BY <2>3, <2>4 DEF OneChange
<1>15. CASE HalStatus
  <2>1. UNCHANGED <<out, parserSem, changed, dpc, cmd, tk>>
    BY <1>15 DEF HalStatus, resetVars, infoVars, cmdVars, userVars
  <2>2. Infos(proc') = {} /\ Infos(proc) = {}
    BY <1>15, StatusInfos
  <2>3. /\ (Waits' <=> Waits) /\ InfosOut' = InfosOut /\ (Answering' <=> Answering)
    BY <2>1 DEF InfosOut, Answering, Waits
  <2> QED BY <2>2, <2>3 DEF OneChange
<1>16. CASE HalPush
  <2>1. UNCHANGED <<proc, parserSem, changed, dpc, cmd, tk>>
    BY <1>16 DEF HalPush, groupVars, resetVars, infoVars, cmdVars, userVars
  <2>2. out' = Append(out, Frame(cur.slot, LastIsEos)) /\ ~Frame(cur.slot, LastIsEos).chg
    BY <1>16, PushedFrame DEF SInv, Frame
  <2>3. InfosOut' = InfosOut
    <3>1. Frame(cur.slot, LastIsEos) \in Outs(sent)
      BY <1>16, PushedFrame DEF SInv
    <3> QED BY <2>2, <3>1, OutPushed DEF SInv
  <2>4. (Waits' <=> Waits) /\ (Answering' <=> Answering)
    BY <2>1 DEF Answering, Waits
  <2> QED BY <2>1, <2>3, <2>4 DEF OneChange
<1>17. CASE HalPushed
  <2>1. UNCHANGED <<parserSem, changed, dpc, cmd, tk>>
    BY <1>17 DEF HalPushed, resetVars, infoVars, cmdVars, userVars
  <2>2. PICK f \in Outs(sent) : out' = Append(out, f) /\ (f.chg <=> cur.kind = "info")
    BY <1>17, PushedMark DEF SInv
  <2>3. InfosOut' = InfosOut \cup (IF f.chg THEN {Len(out) + 1} ELSE {})
    BY <2>2, OutPushed DEF SInv
  <2>4. (Waits' <=> Waits) /\ (Answering' <=> Answering)
    BY <2>1 DEF Answering, Waits
  <2>5. /\ Infos(proc') = {i \in 1 .. Len(proc) - 1 : i + 1 \in Infos(proc)} /\ Len(proc) \in Nat
        /\ (1 \in Infos(proc) <=> cur.kind = "info")
    BY <1>17, MarkTaken
  <2>6. CASE cur.kind = "info"
    <3>1. Infos(proc') = {}
      BY <2>5, <2>6 DEF SInv, OneInfo
    <3>2. Waits /\ ~Answering /\ InfosOut = {}
      BY <2>5, <2>6 DEF OneChange
    <3> QED BY <2>2, <2>3, <2>4, <2>6, <3>1, <3>2 DEF OneChange
  <2>7. CASE cur.kind # "info"
    <3>1. Infos(proc') # {} => Infos(proc) # {}
      BY <2>5
    <3>2. InfosOut' = InfosOut
      BY <2>2, <2>3, <2>7
    <3> QED BY <2>4, <3>1, <3>2 DEF OneChange
  <2> QED BY <2>6, <2>7
<1>18. CASE ControlSend
  <2>1. UNCHANGED <<out, proc, parserSem, changed, tk>> /\ dpc = "ready"
    BY <1>18 DEF ControlSend, groupVars, resetVars, infoVars
  <2> QED BY <2>1, OneChangeKept DEF Answering
<1>19. CASE HalReset
  <2>1. UNCHANGED <<out, proc, parserSem, changed, dpc, cmd, tk>>
    BY <1>19, HalResetSlots DEF HalReset, infoVars, cmdVars, userVars, SInv, OInv
  <2> QED BY <2>1, OneChangeKept DEF Answering
<1>20. CASE UNCHANGED vars
  <2>1. Left
    BY <1>20 DEF vars, queueVars, groupVars, infoVars, cmdVars, resetVars, halVars,
       userVars, historyVars, SInv, OInv, DInv, Parses, ParserTasks
  <2> QED BY <2>1, OneChangeKept DEF Answering
<1> QED BY <1>1, <1>2, <1>3, <1>4, <1>5, <1>6, <1>7, <1>8, <1>9, <1>10, <1>11, <1>12,
       <1>13, <1>14, <1>15, <1>16, <1>17, <1>18, <1>19, <1>20 DEF Next, GoOn,
       FeederGoesOn, Drainer, Parser, Hal

\* The frame being output stays in its slot while it is displayed.
LEMMA DrainsStep == SInv /\ [Next]_vars => Drains'
<1> SUFFICES ASSUME SInv, [Next]_vars PROVE Drains'
  OBVIOUS
<1>1. CASE SlotsLeft
  <2>1. /\ Pending' = Pending /\ UNCHANGED <<slots, display, ref>> /\ (Draining' <=> Draining)
        /\ (Draining => cur' = cur)
    BY <1>1 DEF SlotsLeft, Pending
  <2> QED BY <2>1 DEF SInv, Drains
<1>2. CASE ParsePicture
  <2>1. Pending = {} /\ Pending' # {} /\ (Draining' <=> Draining) /\ cur' = cur
    BY <1>2, PictureJobs DEF SInv, OInv
  <2>2. /\ ref' \in Slots /\ ref # ref' /\ display' = Append(display, ref')
        /\ slots' \in Tables
        /\ \A x \in Slots \ {ref'} : slots'[x].queued = slots[x].queued
        /\ \A x \in Slots \ {ref'} : slots[x].used /\ slots'[x].used => slots'[x].frame = slots[x].frame
    BY <1>2, PictureSlots DEF SInv, OInv, Keeps
  <2> SUFFICES ASSUME Draining PROVE cur'.slot # ref' /\ \A i \in DOMAIN display' : display'[i] = cur.slot
                                        => slots'[cur.slot].frame = cur.frm
    BY <2>1 DEF Drains
  <2>3. cur.slot = ref
    BY <2>1 DEF SInv, Drains
  <2>4. ASSUME NEW i \in DOMAIN display', display'[i] = cur.slot PROVE slots'[cur.slot].frame = cur.frm
    <3>1. display \in Seq(Slots)
      BY DisplaySeq DEF SInv, OInv
    <3>2. i \in DOMAIN display /\ display[i] = cur.slot /\ cur.slot \in Slots
      BY <2>2, <2>3, <2>4, <3>1
    <3>3. slots[cur.slot].queued /\ slots[cur.slot].used
      BY <3>2 DEF SInv, OInv, DInv, Flags, Tables
    <3>4. slots'[cur.slot].used
      BY <2>2, <2>3, <3>2, <3>3 DEF Tables
    <3>5. slots[cur.slot].frame = cur.frm
      BY <3>2 DEF SInv, Drains
    <3> QED BY <2>2, <2>3, <3>2, <3>3, <3>4, <3>5
  <2> QED BY <2>1, <2>2, <2>3, <2>4
<1>3. CASE PutFrame
  <2>1. /\ Pending' = Pending /\ UNCHANGED <<display, ref, cur>> /\ (Draining' <=> Draining)
        /\ slots' = [slots EXCEPT ![tk.slot].buf = TRUE]
    BY <1>3, FrameJobs DEF SInv, OInv
  <2>2. \A s \in Slots : slots'[s].frame = slots[s].frame
    BY <2>1 DEF SInv, OInv, DInv, Flags, Tables, Entries
  <2>3. \A i \in DOMAIN display : display[i] \in Slots
    BY DisplaySeq DEF SInv, OInv
  <2> QED BY <2>1, <2>2, <2>3 DEF SInv, Drains
<1>4. CASE ResetParser
  BY <1>4, ResetJobs DEF SInv, OInv, Drains
<1>5. CASE HalStatus
  <2>1. /\ Pending = {Job(cur)} /\ Pending' = {} /\ UNCHANGED <<slots, display, ref, cur>>
    BY <1>5, StatusJobs DEF SInv, OInv
  <2>2. Job(cur).slot = cur.slot /\ Job(cur).frm = cur.frm
    BY DEF Job
  <2>3. ref = cur.slot /\ slots[cur.slot].frame = cur.frm
    BY <2>1, <2>2 DEF SInv, OInv, DInv, Chain, Hardware, Holds
  <2> QED BY <2>1, <2>3 DEF Drains
<1>6. CASE HalClear
  <2>1. Pending' = Pending /\ UNCHANGED <<display, ref, cur>> /\ Draining /\ cur.slot \in Slots
    BY <1>6, ClearJobs DEF SInv, OInv
  <2>2. slots' \in Tables /\ \A x \in Slots : slots'[x].queued = slots[x].queued /\ Keeps(slots'[x], slots[x])
    BY <1>6, ClearSlots DEF SInv, OInv
  <2>3. ASSUME NEW i \in DOMAIN display, display[i] = cur.slot PROVE slots'[cur.slot].frame = cur.frm
    <3>1. slots[cur.slot].queued
      BY <2>1, <2>3 DEF SInv, OInv, DInv, Flags
    <3>2. slots'[cur.slot].used
      BY <2>1, <2>2, <3>1 DEF Tables
    <3>3. slots[cur.slot].frame = cur.frm
      BY <2>1, <2>3 DEF SInv, Drains
    <3> QED BY <2>1, <2>2, <3>2, <3>3 DEF Keeps
  <2> QED BY <2>1, <2>3 DEF SInv, Drains
<1>7. CASE HalPush
  <2>1. Pending' = Pending /\ UNCHANGED ref
    BY <1>7, OutputJobs DEF SInv, OInv
  <2>2. /\ Draining /\ cur' = cur
        /\ \/ display' = <<>>
           \/ cur.slot # ref /\ display' = <<ref>>
    BY <1>7, PushSlots DEF SInv, OInv
  <2>3. \A i \in DOMAIN display' : display'[i] # cur.slot
    BY <2>2
  <2> QED BY <2>1, <2>2, <2>3 DEF SInv, Drains
<1>8. CASE HalNotify
  BY <1>8, NotifySlots DEF SInv, OInv, Drains
<1>9. CASE HalReset
  BY <1>9, HalResetSlots DEF SInv, OInv, Drains
<1> QED BY <1>1, <1>2, <1>3, <1>4, <1>5, <1>6, <1>7, <1>8, <1>9, SlotSteps DEF SlotStep, SInv,
   OInv

-----------------------------------------------------------------------------
(* What was told last *)

\* The last change stays the last, and the tasks that tell one stay: so does what will
\* be told last.
LEMMA WillTellSame ==
    ASSUME stream' = stream, \A z : LastTold(All, z) => LastTold(All, z)',
           Infos(proc') = Infos(proc), \A i \in Infos(proc) : proc'[i] = proc[i]
    PROVE  \A z : WillTell(z) => WillTell(z)'
<1> SUFFICES ASSUME NEW z, WillTell(z) PROVE WillTell(z)'
  OBVIOUS
<1>1. CASE Infos(proc) = {}
  <2>1. LastTold(All, z)'
    BY <1>1 DEF WillTell
  <2> QED BY <1>1, <2>1 DEF WillTell
<1>2. CASE Infos(proc) # {}
  <2>1. \A i \in Infos(proc) : TaskSize(proc[i]) = z
    BY <1>2 DEF WillTell
  <2>2. \A i \in Infos(proc)' : TaskSize(proc[i])' = z
    BY <2>1 DEF TaskSize
  <2> QED BY <1>2, <2>2 DEF WillTell
<1> QED BY <1>1, <1>2

\* What was received was told of, whatever is in mFrmOut.
LEMMA ReceivedTold ==
    ASSUME OInv, FrameTold(All)
    PROVE  FrameTold(got)
<1> SUFFICES ASSUME NEW j \in DOMAIN got, got[j].frm # 0
             PROVE  \E i \in 1 .. j : /\ got[i].chg /\ got[i].size = got[j].size
                                      /\ \A k \in i .. j : got[k].chg => got[k].size = got[j].size
  BY DEF FrameTold
<1>1. j \in DOMAIN All /\ All[j] = got[j] /\ DOMAIN got = 1 .. Len(got) /\ Len(got) \in Nat
  BY AllFrames
<1>2. PICK i \in 1 .. j : /\ All[i].chg /\ All[i].size = All[j].size
                          /\ \A k \in i .. j : All[k].chg => All[k].size = All[j].size
  BY <1>1 DEF FrameTold
<1>3. 1 .. j \subseteq DOMAIN got /\ i .. j \subseteq 1 .. j /\ i \in i .. j
  BY <1>1
<1>4. \A k \in 1 .. j : All[k] = got[k]
  BY <1>3, AllFrames
<1> QED BY <1>1, <1>2, <1>3, <1>4

\* The last change is one received when none is in mFrmOut.
LEMMA LastReceived ==
    ASSUME OInv, InfosOut = {}, NEW z, LastTold(All, z)
    PROVE  LastTold(got, z)
<1>1. PICK i \in DOMAIN All : /\ All[i].chg /\ All[i].size = z
                              /\ \A k \in DOMAIN All : i <= k /\ All[k].chg => All[k].size = z
  BY DEF LastTold
<1>2. /\ DOMAIN All = 1 .. Len(got) + Len(out) /\ Len(got) \in Nat /\ Len(out) \in Nat
      /\ DOMAIN got = 1 .. Len(got) /\ DOMAIN out = 1 .. Len(out)
  BY AllFrames
<1>3. i \in DOMAIN got
  <2> SUFFICES ASSUME i > Len(got) PROVE FALSE
    BY <1>1, <1>2
  <2>1. i - Len(got) \in DOMAIN out /\ Len(got) + (i - Len(got)) = i
    BY <1>1, <1>2
  <2>2. All[i] = out[i - Len(got)]
    BY <2>1, AllFrames
  <2> QED BY <1>1, <2>1, <2>2 DEF InfosOut
<1>4. \A k \in DOMAIN got : k \in DOMAIN All /\ All[k] = got[k]
  BY AllFrames
<1> QED BY <1>1, <1>3, <1>4 DEF LastTold

\* Steps that tell nothing and take nothing off mFrmOut.
LEMMA ToldKept ==
    ASSUME Told, UNCHANGED <<stream, infoSet, changed, got, out>>,
           Infos(proc') = Infos(proc), Frames(proc') = Frames(proc),
           \A i \in Infos(proc) \cup Frames(proc) : proc'[i] = proc[i],
           tk'.parsed = tk.parsed, tk.parsed /\ changed => tk'.infoGen = tk.infoGen,
           Answering' => Answering, Draining' => Draining /\ cur' = cur
    PROVE  Told'
<1>1. All' = All /\ InfosOut' = InfosOut
  BY DEF All, InfosOut
<1>2. \A z : LastTold(All, z) => LastTold(All, z)'
  BY <1>1 DEF LastTold
<1>3. \A z : WillTell(z) => WillTell(z)'
  BY <1>2, WillTellSame
<1>4. ToldLast'
  BY <1>1, <1>3 DEF Told, ToldLast
<1>5. \A j \in Frames(proc)' : WillTell(TaskSize(proc[j]))'
  <2> SUFFICES ASSUME NEW j \in Frames(proc) PROVE WillTell(TaskSize(proc[j]))'
    OBVIOUS
  <2>1. WillTell(TaskSize(proc[j])) /\ TaskSize(proc[j])' = TaskSize(proc[j])
    BY DEF Told, TaskSize
  <2> QED BY <1>3, <2>1
<1>6. Draining' => LastTold(All, TaskSize(cur))'
  <2> SUFFICES ASSUME Draining' PROVE LastTold(All, TaskSize(cur))'
    OBVIOUS
  <2>1. LastTold(All, TaskSize(cur)) /\ TaskSize(cur)' = TaskSize(cur)
    BY DEF Told, TaskSize
  <2> QED BY <1>2, <2>1
<1>7. FrameTold(All)'
  BY <1>1 DEF Told, FrameTold
<1> QED BY <1>4, <1>5, <1>6, <1>7 DEF Told

\* Steps that leave the tasks and the frames output: only what the parser has learnt, or
\* who has the answer, can change.
LEMMA ToldIf ==
    ASSUME Told, UNCHANGED <<stream, proc>>, All' = All,
           Draining' => Draining /\ cur' = cur, ToldLast'
    PROVE  Told'
<1>1. \A z : LastTold(All, z) => LastTold(All, z)'
  BY DEF LastTold
<1>2. \A z : WillTell(z) => WillTell(z)'
  BY <1>1, WillTellSame
<1>3. \A j \in Frames(proc)' : WillTell(TaskSize(proc[j]))'
  <2> SUFFICES ASSUME NEW j \in Frames(proc) PROVE WillTell(TaskSize(proc[j]))'
    OBVIOUS
  <2>1. WillTell(TaskSize(proc[j])) /\ TaskSize(proc[j])' = TaskSize(proc[j])
    BY DEF Told, TaskSize
  <2> QED BY <1>2, <2>1
<1>4. Draining' => LastTold(All, TaskSize(cur))'
  <2> SUFFICES ASSUME Draining' PROVE LastTold(All, TaskSize(cur))'
    OBVIOUS
  <2>1. LastTold(All, TaskSize(cur)) /\ TaskSize(cur)' = TaskSize(cur)
    BY DEF Told, TaskSize
  <2> QED BY <1>1, <2>1
<1>5. FrameTold(All)'
  BY DEF Told, FrameTold
<1> QED BY <1>3, <1>4, <1>5 DEF Told

\* The size the parser has parsed is not 0.
LEMMA SizeParsed ==
    ASSUME SInv, tk.curr
    PROVE  stream[tk.frm].size # 0
<1>1. tk.frm \in 1 .. sent
  BY DEF SInv, OInv, DInv, Parses
<1>2. tk.frm \in DOMAIN stream
  <2>1. sent <= Len(stream) /\ sent \in Nat /\ DOMAIN stream = 1 .. Len(stream) /\ Len(stream) \in Nat
    BY StreamAssumption DEF SInv, OInv, DInv, Fed
  <2> QED BY <1>1, <2>1
<1>3. stream[tk.frm].size \in Sizes
  BY <1>2, StreamEntries DEF SInv, OInv, DInv
<1> QED BY <1>3, SizeAssumption

\* A frame to be output was told of, and a change is told until the reset that
\* discards it has returned.
LEMMA ToldStep == (SInv /\ Told /\ resets' <= 1) /\ [Next]_vars => Told'
<1> SUFFICES ASSUME (SInv /\ Told /\ resets' <= 1), [Next]_vars PROVE Told'
  OBVIOUS
<1> DEFINE Left == /\ UNCHANGED <<stream, infoSet, changed, got, out, proc>> /\ tk'.parsed = tk.parsed
                   /\ tk'.infoGen = tk.infoGen /\ cmd' = cmd
                   /\ (dpc' = dpc \/ dpc' \in {"wait", "free"})
                   /\ (Draining' => Draining /\ cur' = cur)
<1>1. CASE PutPacket \/ PutPacketNotify \/ ResetStart \/ ResetNotify \/ (\E p \in held :
         ReleaseFrame(p)) \/ ControlNotify
  <2>1. Left
    BY <1>1 DEF PutPacket, PutPacketNotify, Notify, ResetStart, ResetNotify, ReleaseFrame,
       ControlNotify, queueVars, groupVars, infoVars, cmdVars, resetVars, halVars,
       userVars, historyVars, Draining, SInv, OInv, DInv, IInv, AtWork, Parses,
       ParserTasks
  <2> QED BY <2>1, ToldKept DEF Answering
<1>2. CASE ControlDone \/ CheckTaskWait \/ ResetPort \/ NoTaskLeft \/ TaskWithPacket \/
         NoPacket
  <2>1. Left
    BY <1>2 DEF ControlDone, Notify, CheckTaskWait, ResetPort, WakeHal, NoTaskLeft,
       Working, TaskWithPacket, WithTask, NoPacket, queueVars, groupVars, infoVars,
       cmdVars, resetVars, halVars, userVars, historyVars, Draining, SInv, OInv, DInv,
       IInv, AtWork, Parses, ParserTasks
  <2> QED BY <2>1, ToldKept DEF Answering
<1>3. CASE PreparePacket \/ WaitPrevious \/ SlotForParsed \/ WaitInfo \/ HalClear \/
         HalNotify
  <2>1. Left
    BY <1>3 DEF PreparePacket, Working, WithTask, WaitPrevious, SlotForParsed, WaitInfo,
       HalClear, Notify, HalNotify, queueVars, groupVars, infoVars, cmdVars, resetVars,
       halVars, userVars, historyVars, Draining, SInv, OInv, DInv, IInv, AtWork, Parses,
       ParserTasks
  <2> QED BY <2>1, ToldKept DEF Answering
<1>4. CASE HalSleep
  <2>1. Left
    BY <1>4 DEF HalSleep, queueVars, groupVars, infoVars, cmdVars, resetVars, halVars,
       userVars, historyVars, Draining, SInv, OInv, DInv, IInv, AtWork, Parses,
       ParserTasks
  <2> QED BY <2>1, ToldKept DEF Answering
<1>5. CASE ResetFlush
  <2>1. /\ UNCHANGED <<stream, proc, infoSet, changed, tk, got, cmd, dpc, hpc, cur, resets>>
        /\ out' = <<>> /\ fpc = "resetWait" /\ parserSem > 0
    BY <1>5 DEF ResetFlush, Notify, groupVars, infoVars, halVars, cmdVars
  <2>2. parserSem = 1
    BY <2>1 DEF SInv, OInv, DInv, Resets
  <2>3. proc = <<>> /\ ~tk.curr /\ hpc \in {"get", "asleep"}
    BY <2>2 DEF SInv, OInv, Quiet
  <2>4. ~tk.parsed
    BY <2>3 DEF SInv, OInv, DInv, Parses
  <2>5. resets = 1
    BY <2>1, StreamAssumption DEF SInv, Learnt, OInv, DInv, Fed
  <2>6. OneChange
    BY <2>1, <2>5 DEF SInv, FirstReset
  <2>7. Infos(proc) = {} /\ Infos(proc)' = {} /\ Frames(proc)' = {} /\ InfosOut' = {}
    BY <2>1, <2>3, NoKinds DEF InfosOut
  <2>8. All' = got
    BY <2>1, AllFlushed DEF SInv
  <2>9. FrameTold(All)'
    BY <2>1, <2>8, ReceivedTold DEF SInv, Told, FrameTold
  <2>10. ~Draining'
    BY <2>1, <2>3 DEF Draining
  <2>11. Answering' <=> Answering
    BY <2>1 DEF Answering
  <2>12. ToldLast'
    <3>1. CASE WillTell(infoSet) /\ InfosOut = {}
      <4>1. LastTold(got, infoSet)
        BY <2>7, <3>1, LastReceived DEF SInv, WillTell
      <4>2. WillTell(infoSet)'
        BY <2>1, <2>7, <2>8, <4>1 DEF WillTell, LastTold
      <4> QED BY <4>2 DEF ToldLast
    <3>2. CASE InfosOut # {}
      <4>1. changed /\ ~Answering
        BY <2>6, <3>2 DEF OneChange, Waits
      <4> QED BY <2>1, <2>4, <2>7, <2>11, <4>1 DEF ToldLast
    <3>3. CASE ~WillTell(infoSet)
      BY <2>1, <2>4, <2>7, <2>11, <3>3 DEF Told, ToldLast
    <3> QED BY <3>1, <3>2, <3>3
  <2> QED BY <2>7, <2>9, <2>10, <2>12 DEF Told
<1>6. CASE GetFrame
  <2>1. /\ UNCHANGED <<stream, proc, infoSet, changed, tk, cmd, hpc, cur>>
        /\ out # <<>> /\ out' = Tail(out) /\ dpc = "free"
        /\ dpc' = IF Head(out).chg THEN "ready" ELSE "free"
    BY <1>6 DEF GetFrame, Notify, groupVars, infoVars, halVars, cmdVars
  <2>2. ~cmd
    BY <2>1 DEF SInv, OInv, Controls
  <2>3. /\ InfosOut' = {i \in 1 .. Len(out) - 1 : i + 1 \in InfosOut}
        /\ (1 \in InfosOut <=> Head(out).chg)
    BY <2>1, OutTaken DEF SInv
  <2>4. All' = All
    BY <1>6, AllTaken DEF SInv
  <2>5. Draining' => Draining /\ cur' = cur
    BY <2>1 DEF Draining
  <2>6. ToldLast'
    <3>1. CASE WillTell(infoSet)
      <4>1. WillTell(infoSet)'
        BY <2>1, <2>4, <3>1 DEF WillTell, LastTold, TaskSize
      <4> QED BY <4>1 DEF ToldLast
    <3>2. CASE tk.parsed /\ changed /\ ~tk.infoGen
      BY <2>1, <3>2 DEF ToldLast
    <3>3. CASE InfosOut = {}
      <4>1. InfosOut' = {} /\ ~Answering'
        BY <2>1, <2>2, <2>3, <3>3 DEF Answering
      <4>2. ~Answering
        BY <2>1, <2>2 DEF Answering
      <4> QED BY <2>1, <3>1, <3>2, <4>1, <4>2 DEF Told, ToldLast
    <3> QED BY <3>1, <3>2, <3>3 DEF Told, ToldLast
  <2> QED BY <2>1, <2>4, <2>5, <2>6, ToldIf
<1>7. CASE ControlSend
  <2>1. UNCHANGED <<stream, infoSet, changed, got, out, proc, tk, hpc, cur>> /\ dpc = "ready"
    BY <1>7 DEF ControlSend, groupVars, infoVars, halVars, historyVars
  <2> QED BY <2>1, ToldKept DEF Answering, Draining
<1>8. CASE ProcessControl
  <2>1. UNCHANGED <<stream, infoSet, got, out, proc, tk, hpc, cur>> /\ cmd /\ ppc = "work"
    BY <1>8 DEF ProcessControl, groupVars, halVars
  <2>2. Answering
    BY <2>1 DEF Answering
  <2>3. ~(tk.parsed /\ changed /\ ~tk.infoGen)
    BY <2>1 DEF SInv, Learnt
  <2>4. WillTell(infoSet)
    BY <2>2, <2>3 DEF Told, ToldLast
  <2>5. All' = All /\ (Draining' => Draining /\ cur' = cur)
    BY <2>1 DEF All, Draining
  <2>6. WillTell(infoSet)'
    BY <2>1, <2>4, <2>5 DEF WillTell, LastTold, TaskSize
  <2> QED BY <2>1, <2>5, <2>6, ToldIf DEF ToldLast
<1>9. CASE ResetParser
  <2>1. /\ UNCHANGED <<stream, infoSet, changed, got, out, proc, hpc, cur, cmd, dpc>>
        /\ ppc = "reset" /\ ~tk'.parsed
    BY <1>9 DEF ResetParser, groupVars, halVars, infoVars, cmdVars, userVars, NoTask
  <2>2. ~(tk.parsed /\ changed /\ ~tk.infoGen)
    BY <2>1 DEF SInv, Learnt
  <2>3. /\ All' = All /\ InfosOut' = InfosOut /\ (Answering' <=> Answering)
        /\ (Draining' => Draining /\ cur' = cur)
    BY <2>1 DEF All, InfosOut, Answering, Draining
  <2>4. WillTell(infoSet) => WillTell(infoSet)'
    BY <2>1, <2>3 DEF WillTell, LastTold, TaskSize
  <2>5. ToldLast'
    BY <2>1, <2>2, <2>3, <2>4 DEF Told, ToldLast
  <2> QED BY <2>1, <2>3, <2>5, ToldIf
<1>10. CASE PutEos
  <2>1. /\ UNCHANGED <<stream, infoSet, changed, got, out, cur, cmd, dpc>>
        /\ tk'.parsed = tk.parsed /\ tk'.infoGen = tk.infoGen
        /\ hpc' \in {hpc, "get"}
    BY <1>10 DEF PutEos, PutTask, WakeHal, WithTask, infoVars, cmdVars, userVars, SInv,
       OInv, DInv, Parses, ParserTasks
  <2>2. (Draining' => Draining /\ cur' = cur) /\ (Answering' => Answering)
    BY <2>1 DEF Draining, Answering
  <2> QED BY <1>10, <2>1, <2>2, EosSent, ToldKept
<1>11. CASE ParseNothing
  <2>1. /\ UNCHANGED <<stream, infoSet, changed, got, out, cur, cmd, dpc>>
        /\ ~tk'.parsed /\ ~tk.parsed /\ tk'.parsed = tk.parsed
        /\ hpc' \in {hpc, "get"}
    BY <1>11 DEF ParseNothing, PutTask, WakeHal, NoTask, infoVars, cmdVars, userVars, SInv,
       OInv, DInv, Parses, ParserTasks
  <2>2. (Draining' => Draining /\ cur' = cur) /\ (Answering' => Answering)
    BY <2>1 DEF Draining, Answering
  <2> QED BY <1>11, <2>1, <2>2, EosSent, ToldKept
<1>12. CASE ParsePicture
  <2>1. /\ UNCHANGED <<stream, info, got, out, proc, hpc, cur, cmd, dpc>>
        /\ ~tk.parsed /\ infoSet' = stream[tk.frm].size /\ changed' = (changed \/ SizeChanged(tk.frm))
        /\ ppc = "slot"
    BY <1>12 DEF ParsePicture, groupVars, halVars, cmdVars, userVars, historyVars
  <2>2. tk'.parsed /\ tk'.infoGen = tk.infoGen
    BY <1>12 DEF ParsePicture, SInv, OInv, DInv, Parses, ParserTasks
  <2>3. ~tk.infoGen
    BY <2>1 DEF SInv, Learnt
  <2>4. All' = All /\ (Draining' => Draining /\ cur' = cur)
    BY <2>1 DEF All, Draining
  <2>5. stream[tk.frm].size # 0
    BY <2>1, SizeParsed DEF SInv, OInv, DInv, Parses
  <2>6. CASE changed \/ SizeChanged(tk.frm)
    BY <2>1, <2>2, <2>3, <2>4, <2>6, ToldIf DEF ToldLast
  <2>7. CASE ~changed /\ ~SizeChanged(tk.frm)
    <3>1. infoSet' = infoSet /\ infoSet # 0
      BY <2>1, <2>5, <2>7 DEF SInv, Learnt, SizeChanged
    <3>2. WillTell(infoSet)
      BY <2>7, <3>1 DEF Told, ToldLast
    <3>3. WillTell(infoSet)'
      BY <2>1, <2>4, <3>1, <3>2 DEF WillTell, LastTold, TaskSize
    <3> QED BY <2>1, <2>4, <3>3, ToldIf DEF ToldLast
  <2> QED BY <2>6, <2>7
<1>13. CASE PutInfo
  <2>1. UNCHANGED <<stream, infoSet, got, out, cur>> /\ hpc' \in {hpc, "get"}
    BY <1>13 DEF PutInfo, PutTask, WakeHal, infoVars, historyVars
  <2>2. All' = All /\ (Draining' => Draining /\ cur' = cur)
    BY <2>1 DEF All, Draining
  <2>3. infoSet = TaskSize(tk)
    BY <1>13, InfoSent DEF SInv, Learnt
  <2>4. /\ Infos(proc') = {Len(proc) + 1} /\ proc'[Len(proc) + 1].frm = tk.frm
        /\ Frames(proc') = {}
    BY <1>13, InfoSent
  <2>5. WillTell(infoSet)'
    BY <2>1, <2>3, <2>4 DEF WillTell, TaskSize
  <2>6. \A z : LastTold(All, z) => LastTold(All, z)'
    BY <2>2 DEF LastTold
  <2>7. Draining' => LastTold(All, TaskSize(cur))'
    <3> SUFFICES ASSUME Draining' PROVE LastTold(All, TaskSize(cur))'
      OBVIOUS
    <3>1. LastTold(All, TaskSize(cur)) /\ TaskSize(cur)' = TaskSize(cur)
      BY <2>1, <2>2 DEF Told, TaskSize
    <3> QED BY <2>6, <3>1
  <2>8. FrameTold(All)'
    BY <2>2 DEF Told, FrameTold
  <2> QED BY <2>4, <2>5, <2>7, <2>8 DEF Told, ToldLast
<1>14. CASE WaitBuffer \/ WaitMatch
  <2>1. /\ UNCHANGED <<stream, infoSet, changed, got, out, proc, hpc, cur, cmd, dpc>>
        /\ tk'.parsed = tk.parsed /\ ~changed
    BY <1>14 DEF WaitBuffer, WaitMatch, groupVars, halVars, infoVars, cmdVars, userVars,
       historyVars, SInv, OInv, DInv, Parses, ParserTasks
  <2> QED BY <2>1, ToldKept DEF Answering, Draining
<1>15. CASE PutFrame
  <2>1. UNCHANGED <<stream, infoSet, got, out, cur>> /\ hpc' \in {hpc, "get"} /\ ~changed
    BY <1>15 DEF PutFrame, PutTask, WakeHal, infoVars, historyVars
  <2>2. All' = All /\ (Draining' => Draining /\ cur' = cur)
    BY <2>1 DEF All, Draining
  <2>3. tk.parsed /\ infoSet = TaskSize(tk)
    BY <1>15, FrameSent DEF SInv, Learnt
  <2>4. infoSet # 0
    BY <2>3, SizeParsed DEF TaskSize, SInv, OInv, DInv, Parses
  <2>5. WillTell(infoSet)
    BY <2>1, <2>4 DEF Told, ToldLast
  <2>6. \A z : LastTold(All, z) => LastTold(All, z)'
    BY <2>2 DEF LastTold
  <2>7. \A z : WillTell(z) => WillTell(z)'
    BY <1>15, <2>1, <2>6, FrameSent, WillTellSame
  <2>8. \A j \in Frames(proc)' : TaskSize(proc[j])' = infoSet
    BY <1>15, <2>1, <2>3, FrameSent DEF TaskSize
  <2>9. Draining' => LastTold(All, TaskSize(cur))'
    <3> SUFFICES ASSUME Draining' PROVE LastTold(All, TaskSize(cur))'
      OBVIOUS
    <3>1. LastTold(All, TaskSize(cur)) /\ TaskSize(cur)' = TaskSize(cur)
      BY <2>1, <2>2 DEF Told, TaskSize
    <3> QED BY <2>6, <3>1
  <2>10. FrameTold(All)'
    BY <2>2 DEF Told, FrameTold
  <2>11. WillTell(infoSet)' /\ infoSet' = infoSet
    BY <2>1, <2>5, <2>7
  <2>12. \A j \in Frames(proc)' : WillTell(TaskSize(proc[j]))'
    BY <2>8, <2>5, <2>7
  <2> QED BY <2>9, <2>10, <2>11, <2>12 DEF Told, ToldLast
<1>16. CASE HalRun
  <2>1. /\ UNCHANGED <<stream, infoSet, changed, got, out, proc, tk, cmd, dpc>>
        /\ cur' = Head(proc) /\ hpc' = IF Head(proc).kind = "frame" THEN "status" ELSE "push"
    BY <1>16 DEF HalRun, groupVars, infoVars, cmdVars, userVars, historyVars
  <2>2. ~Draining' /\ (Answering' => Answering)
    BY <2>1 DEF Draining, Answering
  <2> QED BY <2>1, <2>2, ToldKept
<1>17. CASE HalStatus
  <2>1. UNCHANGED <<stream, infoSet, changed, got, out, tk, cur, cmd, dpc>>
    BY <1>17 DEF HalStatus, infoVars, cmdVars, userVars, historyVars
  <2>2. All' = All /\ InfosOut' = InfosOut /\ (Answering' <=> Answering)
    BY <2>1 DEF All, InfosOut, Answering
  <2>3. \A z : LastTold(All, z) => LastTold(All, z)'
    BY <2>2 DEF LastTold
  <2>4. /\ Infos(proc) = {} /\ Infos(proc') = {} /\ Frames(proc') = {}
        /\ 1 \in Frames(proc) /\ proc[1] = cur
    BY <1>17, StatusInfos
  <2>5. \A z : WillTell(z) => LastTold(All, z) /\ WillTell(z)'
    BY <2>3, <2>4 DEF WillTell
  <2>6. LastTold(All, TaskSize(cur))'
    <3>1. WillTell(TaskSize(cur)) /\ TaskSize(cur)' = TaskSize(cur)
      BY <2>1, <2>4 DEF Told, TaskSize
    <3> QED BY <2>3, <2>5, <3>1
  <2>7. ToldLast'
    BY <2>1, <2>2, <2>4, <2>5 DEF Told, ToldLast
  <2>8. FrameTold(All)'
    BY <2>2 DEF Told, FrameTold
  <2> QED BY <2>4, <2>6, <2>7, <2>8 DEF Told
<1>18. CASE HalPush
  <2> DEFINE f == Frame(cur.slot, LastIsEos)
  <2>1. UNCHANGED <<stream, infoSet, changed, got, proc, tk, cur, cmd, dpc>>
    BY <1>18 DEF HalPush, halVars, groupVars, infoVars, cmdVars, userVars, historyVars
  <2>2. out' = Append(out, f) /\ f \in Outs(sent)
    BY <1>18, PushedFrame DEF SInv
  <2>3. /\ Draining /\ cur.slot \in Slots /\ \E i \in DOMAIN display : display[i] = cur.slot
    <3>1. /\ Draining /\ cur.slot \in Slots
          /\ \/ display = <<cur.slot>>
             \/ display = <<cur.slot, ref>>
      BY <1>18, PushSlots DEF SInv, OInv
    <3>2. 1 \in DOMAIN display /\ display[1] = cur.slot
      BY <3>1
    <3> QED BY <3>1, <3>2
  <2>4. slots[cur.slot].frame = cur.frm
    BY <2>3 DEF SInv, Drains
  <2>5. ~f.chg /\ f.size = TaskSize(cur)
    BY <2>4 DEF Frame, TaskSize
  <2> HIDE DEF f
  <2>6. /\ Len(All) \in Nat /\ DOMAIN All = 1 .. Len(All) /\ DOMAIN All' = 1 .. Len(All) + 1
        /\ \A i \in DOMAIN All : All'[i] = All[i]
        /\ All'[Len(All) + 1] = f
    BY <2>1, <2>2, AllPushed DEF SInv
  <2>7. \A z : LastTold(All, z) => LastTold(All, z)'
    <3> TAKE z
    <3> DEFINE t == All'
               n == Len(All)
    <3>1. LastTold(All, z) => LastTold(t, z)
      <4>1. n \in Nat /\ DOMAIN All = 1 .. n /\ DOMAIN t = 1 .. n + 1
            /\ (\A i \in DOMAIN All : t[i] = All[i]) /\ ~t[n + 1].chg
        BY <2>5, <2>6
      <4> HIDE DEF t, n
      <4> QED BY <4>1, LastToldKept
    <3> QED BY <3>1 DEF LastTold
  <2>8. LastTold(All, TaskSize(cur))
    BY <2>3 DEF Told
  <2>9. FrameTold(All)'
    <3> DEFINE t == All'
               n == Len(All)
    <3>1. n \in Nat /\ DOMAIN All = 1 .. n /\ DOMAIN t = 1 .. n + 1
          /\ (\A i \in DOMAIN All : t[i] = All[i]) /\ ~t[n + 1].chg /\ LastTold(All, t[n + 1].size)
      BY <2>5, <2>6, <2>8
    <3>2. FrameTold(t)
      <4> HIDE DEF t, n
      <4> QED BY <3>1, FrameToldMore DEF Told
    <3> QED BY <3>2 DEF FrameTold
  <2>10. \A z : WillTell(z) => WillTell(z)'
    BY <2>1, <2>7, WillTellSame
  <2>11. InfosOut' = InfosOut /\ (Answering' <=> Answering)
    BY <2>1, <2>2, <2>5, OutPushed DEF SInv, Answering
  <2>12. ToldLast'
    BY <2>1, <2>10, <2>11 DEF Told, ToldLast
  <2>13. LastTold(All, TaskSize(cur))'
    <3>1. TaskSize(cur)' = TaskSize(cur)
      BY <2>1 DEF TaskSize
    <3> QED BY <2>7, <2>8, <3>1
  <2>14. \A j \in Frames(proc)' : WillTell(TaskSize(proc[j]))'
    <3> SUFFICES ASSUME NEW j \in Frames(proc) PROVE WillTell(TaskSize(proc[j]))'
      BY <2>1
    <3>1. WillTell(TaskSize(proc[j])) /\ TaskSize(proc[j])' = TaskSize(proc[j])
      BY <2>1 DEF Told, TaskSize
    <3> QED BY <2>10, <3>1
  <2> QED BY <2>9, <2>12, <2>13, <2>14 DEF Told
<1>19. CASE HalPushed
  <2>1. UNCHANGED <<stream, infoSet, changed, got, tk, cur, cmd, dpc>> /\ hpc' = "notify"
    BY <1>19 DEF HalPushed, infoVars, cmdVars, userVars, historyVars
  <2>2. PICK f \in Outs(sent) : /\ out' = Append(out, f) /\ f.frm = 0 /\ (f.chg <=> cur.kind = "info")
                                /\ f.chg => f.size = TaskSize(cur)
    BY <1>19, PushedMark DEF SInv, TaskSize
  <2>3. /\ Infos(proc) \subseteq 1 .. Len(proc) /\ Frames(proc) \subseteq 1 .. Len(proc) /\ Len(proc) \in Nat
        /\ Infos(proc') = {i \in 1 .. Len(proc) - 1 : i + 1 \in Infos(proc)}
        /\ Frames(proc') = {i \in 1 .. Len(proc) - 1 : i + 1 \in Frames(proc)}
        /\ \A i \in 1 .. Len(proc) - 1 : proc'[i] = proc[i + 1]
        /\ 1 \notin Frames(proc) /\ proc[1] = cur /\ (1 \in Infos(proc) <=> cur.kind = "info")
    BY <1>19, MarkTaken
  <2>4. /\ Len(All) \in Nat /\ DOMAIN All = 1 .. Len(All) /\ DOMAIN All' = 1 .. Len(All) + 1
        /\ \A i \in DOMAIN All : All'[i] = All[i]
        /\ All'[Len(All) + 1] = f
    BY <2>1, <2>2, AllPushed DEF SInv
  <2>5. InfosOut' = InfosOut \cup (IF f.chg THEN {Len(out) + 1} ELSE {})
    BY <2>2, OutPushed DEF SInv
  <2>6. FrameTold(All)'
    <3> DEFINE t == All'
               n == Len(All)
    <3>1. n \in Nat /\ DOMAIN All = 1 .. n /\ DOMAIN t = 1 .. n + 1
          /\ (\A i \in DOMAIN All : t[i] = All[i]) /\ t[n + 1].frm = 0
      BY <2>2, <2>4
    <3>2. FrameTold(t)
      <4> HIDE DEF t, n
      <4> QED BY <3>1, FrameToldMore DEF Told
    <3> QED BY <3>2 DEF FrameTold
  <2>7. \A z : WillTell(z) => WillTell(z)'
    <3> SUFFICES ASSUME NEW z, WillTell(z) PROVE WillTell(z)'
      OBVIOUS
    <3> DEFINE t == All'
               n == Len(All)
    <3>1. CASE cur.kind = "info"
      <4>1. Infos(proc') = {} /\ TaskSize(cur) = z
        BY <2>3, <3>1 DEF SInv, OneInfo, WillTell
      <4>2. n \in Nat /\ DOMAIN t = 1 .. n + 1 /\ t[n + 1].chg /\ t[n + 1].size = z
        BY <2>2, <2>4, <3>1, <4>1
      <4>3. LastTold(t, z)
        <5> HIDE DEF t, n
        <5> QED BY <4>2, LastToldNow
      <4>4. LastTold(All, z)'
        BY <4>3 DEF LastTold
      <4> QED BY <4>1, <4>4 DEF WillTell
    <3>2. CASE cur.kind # "info"
      <4>1. n \in Nat /\ DOMAIN All = 1 .. n /\ DOMAIN t = 1 .. n + 1
            /\ (\A i \in DOMAIN All : t[i] = All[i]) /\ ~t[n + 1].chg
        BY <2>2, <2>4, <3>2
      <4>2. LastTold(All, z) => LastTold(t, z)
        <5> HIDE DEF t, n
        <5> QED BY <4>1, LastToldKept
      <4>3. LastTold(All, z) => LastTold(All, z)'
        BY <4>2 DEF LastTold
      <4>4. CASE Infos(proc) = {}
        <5>1. Infos(proc') = {} /\ LastTold(All, z)
          BY <2>3, <4>4 DEF WillTell
        <5> QED BY <4>3, <5>1 DEF WillTell
      <4>5. CASE Infos(proc) # {}
        <5>1. \A i \in Infos(proc) : TaskSize(proc[i]) = z
          BY <4>5 DEF WillTell
        <5>2. \A i \in Infos(proc)' : TaskSize(proc[i])' = z
          BY <2>1, <2>3, <5>1 DEF TaskSize
        <5>3. Infos(proc') # {}
          <6>1. PICK i \in Infos(proc) : TRUE
            BY <4>5
          <6>2. i - 1 \in 1 .. Len(proc) - 1 /\ (i - 1) + 1 = i
            BY <2>3, <3>2, <6>1
          <6> QED BY <2>3, <6>2
        <5> QED BY <5>2, <5>3 DEF WillTell
      <4> QED BY <4>4, <4>5
    <3> QED BY <3>1, <3>2
  <2>8. ToldLast'
    <3>1. CASE WillTell(infoSet)
      BY <2>1, <2>7, <3>1 DEF ToldLast
    <3>2. CASE tk.parsed /\ changed /\ ~tk.infoGen
      BY <2>1, <3>2 DEF ToldLast
    <3>3. CASE InfosOut = {} /\ Infos(proc) = {}
      <4>1. Infos(proc') = {} /\ InfosOut' = {}
        BY <2>2, <2>3, <2>5, <3>3
      <4>2. Answering' <=> Answering
        BY <2>1 DEF Answering
      <4> QED BY <2>1, <3>1, <3>2, <3>3, <4>1, <4>2 DEF Told, ToldLast
    <3> QED BY <3>1, <3>2, <3>3 DEF Told, ToldLast
  <2>9. \A j \in Frames(proc)' : WillTell(TaskSize(proc[j]))'
    <3> SUFFICES ASSUME NEW j \in Frames(proc') PROVE WillTell(TaskSize(proc[j]))'
      OBVIOUS
    <3>1. j + 1 \in Frames(proc) /\ proc'[j] = proc[j + 1]
      BY <2>3
    <3>2. WillTell(TaskSize(proc[j + 1]))
      BY <3>1 DEF Told
    <3>3. TaskSize(proc[j])' = TaskSize(proc[j + 1])
      BY <2>1, <3>1 DEF TaskSize
    <3> QED BY <2>7, <3>2, <3>3
  <2>10. ~Draining'
    BY <2>1 DEF Draining
  <2> QED BY <2>6, <2>8, <2>9, <2>10 DEF Told
<1>20. CASE HalReset
  <2>1. UNCHANGED <<stream, infoSet, changed, got, out, proc, tk, cmd, dpc>> /\ ~Draining'
    BY <1>20, HalResetSlots DEF HalReset, infoVars, cmdVars, userVars, historyVars, SInv, OInv
  <2> QED BY <2>1, ToldKept DEF Answering
<1>21. CASE UNCHANGED vars
  <2>1. Left
    BY <1>21 DEF vars, queueVars, groupVars, infoVars, cmdVars, resetVars, halVars,
       userVars, historyVars, Draining, SInv, OInv, DInv, IInv, AtWork, Parses, ParserTasks
  <2> QED BY <2>1, ToldKept DEF Answering
<1> QED BY <1>1, <1>2, <1>3, <1>4, <1>5, <1>6, <1>7, <1>8, <1>9, <1>10, <1>11, <1>12,
       <1>13, <1>14, <1>15, <1>16, <1>17, <1>18, <1>19, <1>20, <1>21 DEF Next, GoOn,
       FeederGoesOn, Drainer, Parser, Hal

-----------------------------------------------------------------------------
(* The invariant holds *)

\* The initial state has the invariant.
LEMMA InitSInv == Init => SInv
<1> SUFFICES ASSUME Init PROVE SInv
  OBVIOUS
<1>1. OInv
  BY InitOInv
<1>2. /\ out = <<>> /\ got = <<>> /\ proc = <<>> /\ ~changed /\ info = 0 /\ infoSet = 0
      /\ ~tk.parsed /\ ~tk.infoGen /\ fpc = "free" /\ resets = 0 /\ dpc = "free" /\ ~cmd
      /\ hpc = "get"
  BY DEF Init, NoTask
<1>3. Learnt
  BY <1>2 DEF Learnt
<1>4. Infos(proc) = {} /\ Frames(proc) = {}
  BY <1>2, NoKinds
<1>5. ~Answering /\ ~Draining /\ InfosOut = {}
  BY <1>2 DEF Answering, Draining, InfosOut
<1>6. OneInfo
  BY <1>4 DEF OneInfo
<1>7. OneChange
  BY <1>4, <1>5 DEF OneChange
<1>8. All = <<>>
  BY <1>2, AllFlushed DEF All
<1>9. FrameTold(All)
  BY <1>8 DEF FrameTold
<1>10. Told
  BY <1>2, <1>4, <1>5, <1>9 DEF Told, ToldLast
<1> QED BY <1>1, <1>3, <1>5, <1>6, <1>7, <1>10 DEF SInv, Drains

\* Every step keeps it.
LEMMA StepSInv == SInv /\ [Next]_vars => SInv'
<1> SUFFICES ASSUME SInv, [Next]_vars PROVE SInv'
  OBVIOUS
<1>1. OInv'
  BY StepOInv DEF SInv
<1>2. Learnt' /\ OneInfo' /\ Drains'
  BY LearntStep, OneInfoStep, DrainsStep
<1>3. (FirstReset' => FirstReset) /\ (resets' <= 1 => resets <= 1)
  BY FirstStays
<1>4. FirstReset' => OneChange'
  BY <1>3, OneChangeStep DEF SInv
<1>5. resets' <= 1 => Told'
  BY <1>3, ToldStep DEF SInv
<1> QED BY <1>1, <1>2, <1>4, <1>5 DEF SInv

\* The invariant of the sizes told.
THEOREM SInvHolds == Spec => []SInv
<1>1. Init => SInv
  BY InitSInv
<1>2. SInv /\ [Next]_vars => SInv'
  BY StepSInv
<1> QED BY <1>1, <1>2, PTL DEF Spec

\* A frame is received after the change to its size, and after no later one, while
\* the user has reset at most once (mpp_dec_proc_cfg, reset_parser_thread).
THEOREM InfoFirst == Spec => []InfoSurvivesReset
<1>1. SInv => InfoSurvivesReset
  <2> SUFFICES ASSUME SInv, resets <= 1 PROVE InfoBeforeFrame
    BY DEF InfoSurvivesReset
  <2>1. FrameTold(got)
    BY ReceivedTold DEF SInv, Told
  <2> QED BY <2>1 DEF FrameTold, InfoBeforeFrame
<1> QED BY <1>1, SInvHolds, PTL
=============================================================================
