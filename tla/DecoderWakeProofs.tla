--------------------------- MODULE DecoderWakeProofs ---------------------------
(***************************************************************************)
(* Proofs about MppDecoder: no notification of the parser is missed between  *)
(* its looking at a condition and its sleep.                                 *)
(***************************************************************************)
EXTENDS DecoderOrderProofs

-----------------------------------------------------------------------------
(* The invariant: what the parser waits for, and why *)

\* Each wait bit is set with a packet at hand, or without one, and cleared on the way.
WaitShape ==
    /\ "slot" \notin tk.wait
    /\ "pkt" \in tk.wait => ~tk.curr
    /\ tk.wait \cap {"prev", "disp", "info", "buf", "match"} # {} => tk.curr
    /\ "prev" \in tk.wait => ~tk.prev
    /\ "info" \in tk.wait => tk.parsed /\ tk.infoGen
    /\ {"buf", "match"} \cap tk.wait # {} => tk.parsed /\ ~changed /\ ~tk.infoGen
    /\ ppc \in {"prev", "slot", "info"} => tk.wait \cap {"hnd", "pkt"} = {}
    /\ ppc \in {"slot", "info"} => tk.wait \cap {"prev", "disp"} = {}

\* Why the parser waits for w, and who is about to notify it of w.
Cause(w) ==
    \/ w = "hnd" /\ ~HasTask
    \/ w = "pkt" /\ port = <<>>
    \/ w = "prev" /\ done = 0
    \/ w = "disp" /\ Len(out) > DisplayLimit
    \/ w = "info" /\ changed
    \/ w = "buf" /\ UnusedBuffers < 1
    \/ w = "match"
Notifier(w) ==
    \/ w = "hnd" /\ hpc = "notify"
    \/ w = "pkt" /\ fpc = "notify"
    \/ w = "prev" /\ Draining

\* The parser that is to sleep waits for something that is not, or of which it is told.
StillAwaits == \E w \in tk.wait : Cause(w) \/ Notifier(w) \/ w \in notify
Awaits == ppc \in {"check", "asleep"} /\ ~commanded /\ tk.wait # {} => StillAwaits

\* A parser asleep has been told of nothing it waits for; a command or a reset finds
\* one that is not asleep, or wakes it.
Asleep ==
    /\ ppc = "asleep" => /\ tk.wait # {} /\ notify \cap tk.wait = {} /\ "control" \notin notify
                         /\ resetFlag => fpc = "resetNotify"
    /\ cmdStart = 1 => "control" \in notify \/ ppc = "work"

\* The inductive invariant.
WInv == OInv /\ WaitShape /\ Awaits /\ Asleep

-----------------------------------------------------------------------------
(* Wait bits *)

\* What the parser waits for are wait bits other than "slot".
LEMMA WaitKinds ==
    ASSUME WInv
    PROVE  /\ tk.wait \subseteq {"pkt", "disp", "info", "buf", "match", "hnd", "prev"}
           /\ tk.wait \subseteq WaitBits
<1>1. tk.wait \subseteq WaitBits
  BY DEF WInv, OInv, DInv, Parses, ParserTasks
<1> QED BY <1>1 DEF WInv, WaitShape, WaitBits

\* A turn that gives the packet up, or sends a task, waits for nothing.
LEMMA NoneAwaitedAfter ==
    ASSUME WInv, ResetParser \/ ParseNothing \/ PutFrame \/ PutEos \/ PreparePacket \/ PutInfo
    PROVE  tk'.wait = {}
<1>1. CASE ResetParser
  BY <1>1 DEF ResetParser, NoTask
<1>2. CASE ParseNothing
  <2>1. ppc = "slot" /\ ~tk.parsed /\ tk'.wait = tk.wait \ {"slot"}
    BY <1>2 DEF ParseNothing, NoTask
  <2> QED BY <2>1, WaitKinds DEF WInv, WaitShape
<1>3. CASE PutFrame
  <2>1. ppc = "info" /\ tk'.wait = tk.wait \ {"info", "buf", "match"}
    BY <1>3 DEF PutFrame, NoTask
  <2> QED BY <2>1, WaitKinds DEF WInv, WaitShape
<1>4. CASE PutEos \/ PreparePacket
  <2>1. ~tk.curr /\ tk'.wait = tk.wait \ {"hnd", "pkt"}
    BY <1>4 DEF PutEos, PreparePacket, NeedsPacket, WithTask, WInv, OInv, DInv, Parses,
       ParserTasks
  <2> QED BY <2>1, WaitKinds DEF WInv, WaitShape
<1>5. CASE PutInfo
  <2>1. ppc = "info" /\ changed /\ ~tk.infoGen /\ tk'.wait = tk.wait
    BY <1>5 DEF PutInfo, WInv, OInv, DInv, Parses, ParserTasks
  <2> QED BY <2>1, WaitKinds DEF WInv, WaitShape
<1> QED BY <1>1, <1>2, <1>3, <1>4, <1>5

\* Each bit is set, and cleared, where the shape says so.
LEMMA WaitShapeStep == WInv /\ [Next]_vars => WaitShape'
<1> SUFFICES ASSUME WInv, [Next]_vars PROVE WaitShape'
  OBVIOUS
<1> DEFINE Left == /\ tk' = tk /\ (changed' = changed \/ ~changed')
                   /\ ppc' \in {ppc, "work", "check", "reset", "asleep"}
<1>1. CASE PutPacket \/ PutPacketNotify \/ ResetStart \/ ResetNotify \/ ResetFlush \/
         GetFrame
  <2>1. Left
    BY <1>1 DEF PutPacket, PutPacketNotify, Notify, ResetStart, ResetNotify, ResetFlush,
       GetFrame, queueVars, groupVars, infoVars, cmdVars, resetVars, halVars, userVars,
       historyVars
  <2> QED BY <2>1 DEF WInv, WaitShape
<1>2. CASE (\E p \in held : ReleaseFrame(p)) \/ ControlSend \/ ControlNotify \/
         ControlDone \/ CheckTaskWait \/ ProcessControl
  <2>1. Left
    BY <1>2 DEF ReleaseFrame, Notify, ControlSend, ControlNotify, ControlDone,
       CheckTaskWait, ProcessControl, queueVars, groupVars, infoVars, cmdVars, resetVars,
       halVars, userVars, historyVars
  <2> QED BY <2>1 DEF WInv, WaitShape
<1>3. CASE ResetPort \/ HalRun \/ HalStatus \/ HalClear \/ HalPush \/ HalPushed
  <2>1. Left
    BY <1>3 DEF ResetPort, WakeHal, HalRun, HalStatus, HalClear, Notify, HalPush,
       HalPushed, queueVars, groupVars, infoVars, cmdVars, resetVars, halVars, userVars,
       historyVars
  <2> QED BY <2>1 DEF WInv, WaitShape
<1>4. CASE HalNotify \/ HalReset \/ HalSleep
  <2>1. Left
    BY <1>4 DEF HalNotify, Notify, HalReset, HalSleep, queueVars, groupVars, infoVars,
       cmdVars, resetVars, halVars, userVars, historyVars
  <2> QED BY <2>1 DEF WInv, WaitShape
<1>5. CASE ResetParser \/ ParseNothing \/ PutFrame \/ PutEos \/ PreparePacket \/ PutInfo
  <2>1. tk'.wait = {}
    BY <1>5, NoneAwaitedAfter
  <2> QED BY <2>1 DEF WaitShape
<1>6. CASE NoTaskLeft \/ TaskWithPacket \/ NoPacket
  <2>1. /\ tk'.curr = tk.curr /\ tk'.prev = tk.prev /\ tk'.parsed = tk.parsed
        /\ tk'.infoGen = tk.infoGen /\ changed' = changed
        /\ \/ tk'.wait = tk.wait \cup {"hnd"} /\ ppc' = "check"
           \/ tk'.wait = tk.wait \ {"hnd"} /\ ppc' = "prev" /\ tk.curr
           \/ tk'.wait = (tk.wait \ {"hnd"}) \cup {"pkt"} /\ ppc' = "check" /\ ~tk.curr
    BY <1>6 DEF NoTaskLeft, TaskWithPacket, NoPacket, NeedsPacket, WithTask, infoVars, WInv,
       OInv, DInv, Parses, ParserTasks
  <2> QED BY <2>1 DEF WInv, WaitShape
<1>7. CASE WaitPrevious
  <2>1. /\ ppc = "prev" /\ tk.curr /\ tk'.curr = tk.curr /\ tk'.prev = PreviousDone
        /\ tk'.parsed = tk.parsed /\ tk'.infoGen = tk.infoGen /\ changed' = changed
        /\ tk'.wait \subseteq tk.wait \cup {"prev", "disp"}
        /\ "prev" \in tk'.wait => ~PreviousDone
        /\ ppc' \in {"check", "slot"}
        /\ ppc' = "slot" => PreviousDone /\ "disp" \notin tk'.wait
    <3>1. /\ ppc = "prev" /\ tk'.curr = tk.curr /\ tk'.prev = PreviousDone
          /\ tk'.parsed = tk.parsed /\ tk'.infoGen = tk.infoGen /\ changed' = changed
      BY <1>7 DEF WaitPrevious, infoVars, WInv, OInv, DInv, Parses, ParserTasks
    <3>2. tk.curr
      BY <3>1 DEF WInv, OInv, DInv, Parses
    <3> DEFINE wait1 == IF ~tk.prev /\ done > 0 THEN tk.wait \ {"prev"} ELSE tk.wait
    <3>3. /\ tk'.wait = IF ~PreviousDone THEN wait1 \cup {"prev"}
                        ELSE IF Len(out) > DisplayLimit THEN wait1 \cup {"disp"} ELSE wait1 \ {"disp"}
          /\ ppc' = IF PreviousDone /\ ~(Len(out) > DisplayLimit) THEN "slot" ELSE "check"
      BY <1>7 DEF WaitPrevious, WInv, OInv, DInv, Parses, ParserTasks
    <3>4. PreviousDone => "prev" \notin wait1
      BY DEF PreviousDone, WInv, WaitShape
    <3>5. wait1 \subseteq tk.wait
      OBVIOUS
    <3> HIDE DEF wait1
    <3>6. CASE ~PreviousDone
      BY <3>1, <3>2, <3>3, <3>5, <3>6
    <3>7. CASE PreviousDone /\ Len(out) > DisplayLimit
      BY <3>1, <3>2, <3>3, <3>4, <3>5, <3>7
    <3>8. CASE PreviousDone /\ ~(Len(out) > DisplayLimit)
      BY <3>1, <3>2, <3>3, <3>4, <3>5, <3>8
    <3> QED BY <3>6, <3>7, <3>8
  <2>2. "prev" \in tk'.wait => ~tk'.prev
    BY <2>1
  <2> HIDE DEF PreviousDone
  <2> QED BY <2>1, <2>2 DEF WInv, WaitShape
<1>8. CASE SlotForParsed \/ ParsePicture
  <2>1. /\ ppc = "slot" /\ tk'.curr = tk.curr /\ tk'.wait = tk.wait \ {"slot"}
        /\ tk'.infoGen = tk.infoGen /\ ppc' = "info"
        /\ \/ tk'.parsed = tk.parsed /\ changed' = changed
           \/ ~tk.parsed /\ tk'.parsed = TRUE
    BY <1>8 DEF SlotForParsed, ParsePicture, infoVars, WInv, OInv, DInv, Parses, ParserTasks
  <2> QED BY <2>1 DEF WInv, WaitShape
<1>9. CASE WaitInfo \/ WaitBuffer \/ WaitMatch
  <2>1. /\ ppc = "info" /\ tk.parsed /\ tk.curr
    BY <1>9 DEF WaitInfo, WaitBuffer, WaitMatch, WInv, OInv, DInv, Parses
  <2>2. /\ tk'.curr = tk.curr /\ tk'.prev = tk.prev /\ tk'.parsed = tk.parsed /\ changed' = changed
        /\ ppc' = "check"
        /\ \/ changed /\ tk.infoGen /\ tk'.infoGen = tk.infoGen /\ tk'.wait = tk.wait \cup {"info"}
           \/ ~changed /\ tk'.infoGen = FALSE /\ tk'.wait = (tk.wait \ {"info"}) \cup {"buf"}
           \/ /\ ~changed /\ tk'.infoGen = FALSE
              /\ tk'.wait = (tk.wait \ {"info", "buf"}) \cup {"match"}
    BY <1>9 DEF WaitInfo, WaitBuffer, WaitMatch, infoVars, WInv, OInv, DInv, Parses, ParserTasks
  <2> QED BY <2>1, <2>2 DEF WInv, WaitShape
<1>10. CASE UNCHANGED vars
  <2>1. Left
    BY <1>10 DEF vars, queueVars, groupVars, infoVars, cmdVars, resetVars, halVars,
       userVars, historyVars
  <2> QED BY <2>1 DEF WInv, WaitShape
<1> QED BY <1>1, <1>2, <1>3, <1>4, <1>5, <1>6, <1>7, <1>8, <1>9, <1>10 DEF Next, GoOn,
       FeederGoesOn, Drainer, Parser, Hal

-----------------------------------------------------------------------------
(* Buffers *)

\* Finitely many frames keep a buffer.
LEMMA BufferedFinite ==
    ASSUME NEW sl \in Tables, NEW n \in Nat, NEW o \in Seq(Outs(n)), NEW h \in SUBSET (1 .. n)
    PROVE  IsFiniteSet(Buffered(sl, o, h))
<1> DEFINE A == {x \in Slots : sl[x].buf}
           T == {sl[x].frame : x \in A}
           f == [x \in A |-> sl[x].frame]
<1>1. IsFiniteSet(A)
  <2>1. IsFiniteSet(Slots)
    BY CountAssumption, FS_Interval DEF Slots
  <2>2. A \in SUBSET Slots
    OBVIOUS
  <2> HIDE DEF A
  <2> QED BY <2>1, <2>2, FS_Subset
<1>2. f \in Surjection(A, T)
  BY DEF Surjection
<1>3. IsFiniteSet(T)
  <2> HIDE DEF A, T, f
  <2> QED BY <1>1, <1>2, FS_Surjection
<1>4. IsFiniteSet(1 .. n)
  BY FS_Interval
<1>5. FrmIds(o) \in SUBSET (1 .. n)
  BY FrmIdsOf
<1>6. IsFiniteSet(FrmIds(o)) /\ IsFiniteSet(h)
  BY <1>4, <1>5, FS_Subset
<1>7. Buffered(sl, o, h) = T \cup FrmIds(o) \cup h
  BY DEF Buffered, FrmIds
<1> HIDE DEF T
<1> QED BY <1>3, <1>6, <1>7, FS_Union

\* While the frames with a buffer grow in number no buffer becomes unused.
LEMMA NoneFreed ==
    ASSUME OInv', OInv, Buffered(slots, out, held) \subseteq Buffered(slots', out', held'),
           UnusedBuffers < 1
    PROVE  UnusedBuffers' < 1
<1>1. slots' \in Tables /\ sent' \in Nat /\ out' \in Seq(Outs(sent')) /\ held' \in SUBSET (1 .. sent')
  BY StreamLength DEF OInv, DInv, Flags, Fed, Outputs
<1>2. IsFiniteSet(Buffered(slots', out', held'))
  BY <1>1, BufferedFinite
<1>3. slots \in Tables /\ sent \in Nat /\ out \in Seq(Outs(sent)) /\ held \in SUBSET (1 .. sent)
  BY StreamLength DEF OInv, DInv, Flags, Fed, Outputs
<1>4. IsFiniteSet(Buffered(slots, out, held))
  BY <1>3, BufferedFinite
<1>5. Cardinality(Buffered(slots, out, held)) <= Cardinality(Buffered(slots', out', held'))
  BY <1>2, FS_Subset
<1>6. /\ Cardinality(Buffered(slots, out, held)) \in Nat
      /\ Cardinality(Buffered(slots', out', held')) \in Nat
  BY <1>2, <1>4, FS_CardinalityType
<1>7. BufferLimit \in Nat
  BY CountAssumption
<1> QED BY <1>5, <1>6, <1>7 DEF UnusedBuffers

\* The drainer that takes a frame has its buffer.
LEMMA TakenBuffered ==
    ASSUME NEW sl, NEW n, NEW o \in Seq(Outs(n)), o # <<>>, NEW h
    PROVE  Buffered(sl, o, h) \subseteq Buffered(sl, Tail(o), h \cup FrmIds(<<Head(o)>>))
<1>1. FrmIds(o) \subseteq FrmIds(Tail(o)) \cup FrmIds(<<Head(o)>>)
  <2> SUFFICES ASSUME NEW i \in DOMAIN o, o[i].frm # 0
               PROVE  o[i].frm \in FrmIds(Tail(o)) \cup FrmIds(<<Head(o)>>)
    BY DEF FrmIds
  <2>1. o \in [1 .. Len(o) -> Outs(n)] /\ Len(o) \in Nat
    BY LenProperties
  <2>2. CASE i = 1
    <3>1. Head(o) = o[1] /\ <<Head(o)>>[1] = Head(o) /\ 1 \in DOMAIN <<Head(o)>>
      OBVIOUS
    <3> QED BY <2>2, <3>1 DEF FrmIds
  <2>3. CASE i # 1
    <3>1. i - 1 \in DOMAIN Tail(o) /\ Tail(o)[i - 1] = o[i]
      BY <2>1, <2>3
    <3> QED BY <3>1 DEF FrmIds
  <2> QED BY <2>2, <2>3
<1>2. /\ Buffered(sl, o, h) = {sl[s].frame : s \in {x \in Slots : sl[x].buf}} \cup FrmIds(o) \cup h
      /\ Buffered(sl, Tail(o), h \cup FrmIds(<<Head(o)>>))
            = {sl[s].frame : s \in {x \in Slots : sl[x].buf}} \cup FrmIds(Tail(o))
                  \cup (h \cup FrmIds(<<Head(o)>>))
  BY DEF Buffered, FrmIds
<1> QED BY <1>1, <1>2

\* A frame put into mFrmOut leaves those before it.
LEMMA PutBuffered ==
    ASSUME NEW n, NEW o \in Seq(Outs(n)), NEW e
    PROVE  /\ FrmIds(o) \subseteq FrmIds(Append(o, e))
           /\ e.frm # 0 => e.frm \in FrmIds(Append(o, e))
<1> DEFINE S == Outs(n) \cup {e}
<1>1. o \in [1 .. Len(o) -> Outs(n)] /\ Len(o) \in Nat
  BY LenProperties
<1>2. o \in Seq(S) /\ e \in S
  BY <1>1, SeqDef
<1> HIDE DEF S
<1>3. /\ DOMAIN Append(o, e) = 1 .. Len(o) + 1 /\ Append(o, e)[Len(o) + 1] = e
      /\ \A i \in 1 .. Len(o) : Append(o, e)[i] = o[i]
  BY <1>1, <1>2
<1> QED BY <1>1, <1>3 DEF FrmIds

\* What the hardware thread outputs keeps its buffer, first in a slot, then in mFrmOut.
LEMMA PushBuffered ==
    ASSUME OInv, HalPush
    PROVE  Buffered(slots, out, held) \subseteq Buffered(slots', out', held')
<1> DEFINE s == cur.slot
           f == Frame(s, LastIsEos)
<1>1. /\ s \in Slots /\ slots[s].frame # 0 /\ f.frm = slots[s].frame
      /\ out' = Append(out, f) /\ held' = held
  <2>1. slots[s].frame \in 1 .. sent /\ s \in Slots /\ out' = Append(out, f)
    BY PushedFrame
  <2>2. held' = held
    BY DEF HalPush, userVars
  <2>3. slots[s].frame # 0
    BY <2>1
  <2> QED BY <2>1, <2>2, <2>3 DEF Frame
<1>2. \A x \in Slots : x # s => slots'[x] = slots[x]
  <2>1. slots' = ClearQueueUse(slots, {s})
    BY PushSlots DEF HalPush, OInv
  <2> QED BY <2>1 DEF ClearQueueUse
<1>3. FrmIds(out) \subseteq FrmIds(out') /\ slots[s].frame \in FrmIds(out')
  <2> HIDE DEF f, s
  <2> QED BY <1>1, PutBuffered DEF OInv, Outputs
<1>4. \A x \in Slots : slots[x].buf => slots[x].frame \in Buffered(slots', out', held')
  <2> SUFFICES ASSUME NEW x \in Slots, slots[x].buf
               PROVE  slots[x].frame \in Buffered(slots', out', held')
    OBVIOUS
  <2>1. CASE x = s
    BY <1>3, <2>1 DEF Buffered, FrmIds
  <2>2. CASE x # s
    BY <1>2, <2>2 DEF Buffered
  <2> QED BY <2>1, <2>2
<1>5. FrmIds(out) \cup held \subseteq Buffered(slots', out', held')
  BY <1>1, <1>3 DEF Buffered, FrmIds
<1> QED BY <1>4, <1>5 DEF Buffered, FrmIds

\* A frame without picture has none.
LEMMA MarkBuffered ==
    ASSUME OInv, HalPushed
    PROVE  Buffered(slots, out, held) \subseteq Buffered(slots', out', held')
<1>1. PICK f \in Outs(sent) : out' = Append(out, f)
  BY PushedMark
<1>2. slots' = slots /\ held' = held
  BY DEF HalPushed, userVars
<1>3. FrmIds(out) \subseteq FrmIds(out')
  BY <1>1, PutBuffered DEF OInv, Outputs
<1> QED BY <1>2, <1>3 DEF Buffered, FrmIds

-----------------------------------------------------------------------------
(* What the parser still waits for *)

\* Why w keeps the parser waiting, or how it will be told of w.
Told(w) == Cause(w) \/ Notifier(w) \/ w \in notify

\* A step that leaves the parser and ends no wait without a notification.
LEMMA AwaitsKept ==
    ASSUME WInv, UNCHANGED <<tk, commanded>>, ppc' \in {ppc, "work"},
           \A w \in tk.wait : Told(w) => Told(w)'
    PROVE  Awaits'
<1> SUFFICES ASSUME ppc' \in {"check", "asleep"}, ~commanded', tk'.wait # {}
             PROVE  StillAwaits'
  BY DEF Awaits
<1>1. StillAwaits
  BY DEF WInv, Awaits
<1>2. PICK w \in tk.wait : Told(w)
  BY <1>1 DEF StillAwaits, Told
<1>3. Told(w)' /\ w \in tk'.wait
  BY <1>2
<1> QED BY <1>3 DEF StillAwaits, Told

\* Every step ends a wait only with a notification.
LEMMA AwaitsStep == WInv /\ [Next]_vars => Awaits'
<1> SUFFICES ASSUME WInv, [Next]_vars PROVE Awaits'
  OBVIOUS
<1> DEFINE Left == /\ UNCHANGED <<tk, commanded, idle, port, done, out, changed, slots, held>>
                   /\ notify \subseteq notify' /\ ppc' \in {ppc, "work"}
                   /\ (fpc = "notify" => fpc' = "notify") /\ (hpc = "notify" => hpc' = "notify")
                   /\ (hpc \in {"clear", "push"} => hpc' = hpc /\ cur' = cur)
<1>1. CASE ResetStart \/ ControlSend \/ ControlNotify \/ ControlDone \/ HalRun \/ HalSleep
  <2>1. Left
    BY <1>1 DEF ResetStart, ControlSend, ControlNotify, Notify, ControlDone, HalRun,
       HalSleep, queueVars, groupVars, infoVars, cmdVars, resetVars, halVars, userVars,
       historyVars
  <2>2. \A w \in tk.wait : Told(w) => Told(w)'
    BY <2>1 DEF Told, Cause, Notifier, HasTask, Draining, UnusedBuffers
  <2> QED BY <2>1, <2>2, AwaitsKept
<1>2. CASE PutPacket
  <2>1. /\ UNCHANGED <<tk, commanded, idle, done, out, changed, slots, held, hpc, cur, ppc, notify>>
        /\ fpc = "free" /\ fpc' = "notify"
    BY <1>2 DEF PutPacket, queueVars, groupVars, infoVars, halVars, historyVars
  <2>2. \A w \in tk.wait : Told(w) => Told(w)'
    BY <2>1 DEF Told, Cause, Notifier, HasTask, Draining, UnusedBuffers
  <2> QED BY <2>1, <2>2, AwaitsKept
<1>3. CASE PutPacketNotify
  <2>1. /\ UNCHANGED <<tk, commanded, idle, port, done, out, changed, slots, held, hpc, cur>>
        /\ "pkt" \in notify' /\ notify \subseteq notify' /\ ppc' \in {ppc, "work"}
    BY <1>3 DEF PutPacketNotify, Notify, groupVars, infoVars, halVars, historyVars
  <2>2. \A w \in tk.wait : Told(w) => Told(w)'
    BY <2>1 DEF Told, Cause, Notifier, HasTask, Draining, UnusedBuffers
  <2> QED BY <2>1, <2>2, AwaitsKept
<1>4. CASE ResetNotify
  <2>1. UNCHANGED <<tk, commanded>> /\ Reset \subseteq notify' /\ ppc' \in {ppc, "work"}
    BY <1>4 DEF ResetNotify, Notify, historyVars
  <2>2. \A w \in tk.wait : Told(w) => Told(w)'
    BY <2>1, WaitKinds DEF Told, Reset
  <2> QED BY <2>1, <2>2, AwaitsKept
<1>5. CASE ResetFlush
  <2>1. /\ UNCHANGED <<tk, commanded, idle, port, done, changed, hpc, cur>> /\ fpc = "resetWait"
        /\ notify \subseteq notify' /\ ppc' \in {ppc, "work"} /\ parserSem > 0
    BY <1>5 DEF ResetFlush, Notify, queueVars, groupVars, infoVars, halVars
  <2>2. ~tk.curr
    <3>1. parserSem = 1
      BY <2>1 DEF WInv, OInv, DInv, Resets
    <3> QED BY <3>1 DEF WInv, OInv, Quiet
  <2>3. tk.wait \subseteq {"hnd", "pkt"}
    BY <2>2, WaitKinds DEF WInv, WaitShape
  <2>4. \A w \in tk.wait : Told(w) => Told(w)'
    BY <2>1, <2>3 DEF Told, Cause, Notifier, HasTask
  <2> QED BY <2>1, <2>4, AwaitsKept
<1>6. CASE GetFrame
  <2>1. /\ UNCHANGED <<tk, commanded, idle, port, done, changed, slots, hpc, cur, fpc>>
        /\ "disp" \in notify' /\ notify \subseteq notify' /\ ppc' \in {ppc, "work"}
    BY <1>6 DEF GetFrame, Notify, queueVars, groupVars, infoVars, halVars
  <2>2. UnusedBuffers < 1 => UnusedBuffers' < 1
    <3>1. out # <<>> /\ out' = Tail(out) /\ held' = held \cup FrmIds(<<Head(out)>>)
      BY <1>6 DEF GetFrame
    <3>2. Buffered(slots, out, held) \subseteq Buffered(slots', out', held')
      BY <2>1, <3>1, TakenBuffered DEF WInv, OInv, Outputs
    <3>3. OInv /\ OInv'
      BY StepOInv DEF WInv
    <3> QED BY <3>2, <3>3, NoneFreed
  <2>3. \A w \in tk.wait : Told(w) => Told(w)'
    BY <2>1, <2>2 DEF Told, Cause, Notifier, HasTask, Draining
  <2> QED BY <2>1, <2>3, AwaitsKept
<1>7. ASSUME NEW p \in held, ReleaseFrame(p) PROVE Awaits'
  <2>1. /\ UNCHANGED <<tk, commanded, idle, port, done, out, changed, slots, hpc, cur, fpc>>
        /\ notify \subseteq notify' /\ ppc' \in {ppc, "work"} /\ held' = held \ {p}
        /\ FreedBuffers(slots, out, held') \subseteq notify'
    BY <1>7 DEF ReleaseFrame, Notify, queueVars, groupVars, infoVars, halVars, historyVars
  <2>2. "buf" \in notify' \/ UnusedBuffers' = UnusedBuffers
    BY <2>1 DEF FreedBuffers, UnusedBuffers
  <2>3. \A w \in tk.wait : Told(w) => Told(w)'
    BY <2>1, <2>2 DEF Told, Cause, Notifier, HasTask, Draining
  <2> QED BY <2>1, <2>3, AwaitsKept
<1>8. CASE CheckTaskWait
  <2> SUFFICES ASSUME ppc' \in {"check", "asleep"}, ~commanded', tk'.wait # {}
               PROVE  StillAwaits'
    BY DEF Awaits
  <2>1. /\ UNCHANGED <<tk, commanded, idle, port, done, out, changed, slots, held, hpc, cur, fpc>>
        /\ ppc = "check" /\ (ppc' = "work" \/ ~Awaited)
    BY <1>8 DEF CheckTaskWait, queueVars, groupVars, infoVars, halVars, userVars, historyVars
  <2>2. tk.wait \cap notify = {}
    BY <2>1 DEF Awaited
  <2>3. PICK w \in tk.wait : Cause(w) \/ Notifier(w)
    BY <2>1, <2>2 DEF WInv, Awaits, StillAwaits
  <2>4. Cause(w)' \/ Notifier(w)'
    BY <2>1, <2>3 DEF Cause, Notifier, HasTask, Draining, UnusedBuffers
  <2> QED BY <2>1, <2>3, <2>4 DEF StillAwaits
<1>9. CASE ProcessControl
  <2> QED BY <1>9 DEF ProcessControl, Awaits
<1>10. CASE ResetPort \/ TaskWithPacket \/ SlotForParsed \/ ParsePicture \/ PreparePacket
  <2>1. ppc' \in {"reset", "prev", "info"}
    BY <1>10 DEF ResetPort, TaskWithPacket, SlotForParsed, ParsePicture, PreparePacket
  <2> QED BY <2>1 DEF Awaits
<1>11. CASE ResetParser \/ ParseNothing \/ PutFrame \/ PutEos \/ PutInfo
  <2>1. tk'.wait = {}
    BY <1>11, NoneAwaitedAfter
  <2> QED BY <2>1 DEF Awaits
<1>12. CASE NoTaskLeft
  <2>1. ~HasTask /\ "hnd" \in tk'.wait /\ tk'.hnd = tk.hnd /\ idle' = idle
    BY <1>12 DEF NoTaskLeft, groupVars, WInv, OInv, DInv, Parses, ParserTasks
  <2>2. Cause("hnd")'
    BY <2>1 DEF Cause, HasTask
  <2> QED BY <2>1, <2>2 DEF Awaits, StillAwaits
<1>13. CASE NoPacket
  <2>1. port' = <<>> /\ "pkt" \in tk'.wait
    BY <1>13 DEF NoPacket, WithTask, queueVars, WInv, OInv, DInv, Parses, ParserTasks
  <2>2. Cause("pkt")'
    BY <2>1 DEF Cause
  <2> QED BY <2>1, <2>2 DEF Awaits, StillAwaits
<1>14. CASE WaitPrevious
  <2>1. out' = out /\ done \in Nat
    BY <1>14 DEF WaitPrevious, WInv, OInv, DInv, Group
  <2>2. CASE ~PreviousDone
    <3>1. "prev" \in tk'.wait /\ done' = done
      BY <1>14, <2>2 DEF WaitPrevious, PreviousDone, WInv, OInv, DInv, Parses, ParserTasks
    <3>2. Cause("prev")'
      BY <2>1, <2>2, <3>1 DEF Cause, PreviousDone
    <3> QED BY <3>1, <3>2 DEF Awaits, StillAwaits
  <2>3. CASE PreviousDone /\ Len(out) > DisplayLimit
    <3>1. "disp" \in tk'.wait
      BY <1>14, <2>3 DEF WaitPrevious, WInv, OInv, DInv, Parses, ParserTasks
    <3>2. Cause("disp")'
      BY <2>1, <2>3 DEF Cause
    <3> QED BY <3>1, <3>2 DEF Awaits, StillAwaits
  <2>4. CASE PreviousDone /\ ~(Len(out) > DisplayLimit)
    <3>1. ppc' = "slot"
      BY <1>14, <2>4 DEF WaitPrevious
    <3> QED BY <3>1 DEF Awaits
  <2> QED BY <2>2, <2>3, <2>4
<1>15. CASE WaitInfo
  <2>1. changed /\ changed' = changed /\ "info" \in tk'.wait
    BY <1>15 DEF WaitInfo, infoVars, WInv, OInv, DInv, Parses, ParserTasks
  <2>2. Cause("info")'
    BY <2>1 DEF Cause
  <2> QED BY <2>1, <2>2 DEF Awaits, StillAwaits
<1>16. CASE WaitBuffer
  <2>1. UnusedBuffers < 1 /\ UNCHANGED <<slots, out, held>> /\ "buf" \in tk'.wait
    BY <1>16 DEF WaitBuffer, userVars, WInv, OInv, DInv, Parses, ParserTasks
  <2>2. Cause("buf")'
    BY <2>1 DEF Cause, UnusedBuffers
  <2> QED BY <2>1, <2>2 DEF Awaits, StillAwaits
<1>23. CASE WaitMatch
  <2>1. "match" \in tk'.wait
    BY <1>23 DEF WaitMatch, WInv, OInv, DInv, Parses, ParserTasks
  <2> QED BY <2>1 DEF Awaits, StillAwaits, Cause
<1>17. CASE HalStatus
  <2>1. /\ UNCHANGED <<tk, commanded, idle, port, out, changed, slots, held, ppc, cur, fpc, notify>>
        /\ hpc = "status" /\ hpc' = "clear"
    BY <1>17 DEF HalStatus, queueVars, infoVars, userVars, historyVars
  <2>2. Draining'
    BY <2>1 DEF Draining, WInv, OInv, DInv, IInv, AtWork
  <2>3. \A w \in tk.wait : Told(w) => Told(w)'
    BY <2>1, <2>2 DEF Told, Cause, Notifier, HasTask, UnusedBuffers
  <2> QED BY <2>1, <2>3, AwaitsKept
<1>18. CASE HalClear
  <2> DEFINE s1 == ClearHalInput(ClearHalOutput(slots, cur.slot), cur.ref)
  <2>1. /\ UNCHANGED <<tk, commanded, idle, port, done, out, changed, held, cur, fpc>>
        /\ hpc = "clear" /\ hpc' = "push" /\ slots' = s1
        /\ notify \subseteq notify' /\ ppc' \in {ppc, "work"}
        /\ FreedBuffers(s1, out, held) \subseteq notify'
    BY <1>18 DEF HalClear, Notify, queueVars, groupVars, infoVars, userVars, historyVars
  <2> HIDE DEF s1
  <2>2. "buf" \in notify' \/ UnusedBuffers' = UnusedBuffers
    BY <2>1 DEF FreedBuffers, UnusedBuffers
  <2>3. \A w \in tk.wait : Told(w) => Told(w)'
    BY <2>1, <2>2 DEF Told, Cause, Notifier, HasTask, Draining
  <2> QED BY <2>1, <2>3, AwaitsKept
<1>19. CASE HalPush \/ HalPushed
  <2>1. /\ UNCHANGED <<tk, commanded, port, done, changed, held, cur, fpc, ppc, notify>>
        /\ \/ UNCHANGED <<hpc, idle>>
           \/ hpc' = "notify" /\ cur.kind # "frame"
    BY <1>19 DEF HalPush, HalPushed, queueVars, groupVars, infoVars, userVars, historyVars,
       halVars
  <2>2. OInv /\ OInv' /\ DisplayLimit \in Nat
    BY StepOInv, CountAssumption DEF WInv
  <2>3. UnusedBuffers < 1 => UnusedBuffers' < 1
    BY <1>19, <2>2, PushBuffered, MarkBuffered, NoneFreed
  <2>4. Len(out) \in Nat /\ Len(out') = Len(out) + 1
    <3>1. PICK f \in Outs(sent) : out' = Append(out, f)
      BY <1>19, <2>2, PushedFrame, PushedMark
    <3> QED BY <2>2, <3>1 DEF OInv, Outputs
  <2>5. \A w \in tk.wait : Told(w) => Told(w)'
    BY <2>1, <2>2, <2>3, <2>4 DEF Told, Cause, Notifier, HasTask, Draining
  <2> QED BY <2>1, <2>5, AwaitsKept
<1>20. CASE HalNotify
  <2>1. /\ UNCHANGED <<tk, commanded, idle, port, done, out, changed, slots, held, fpc>>
        /\ notify \subseteq notify' /\ NotifyDone \subseteq notify' /\ ppc' \in {ppc, "work"}
        /\ hpc = "notify" \/ (hpc = "push" /\ cur.kind = "frame")
    BY <1>20 DEF HalNotify, Notify, queueVars, groupVars, infoVars, userVars, historyVars
  <2>2. "hnd" \in notify' /\ (Draining => "prev" \in notify')
    BY <2>1 DEF NotifyDone, Draining
  <2>3. \A w \in tk.wait : Told(w) => Told(w)'
    BY <2>1, <2>2 DEF Told, Cause, Notifier, HasTask, UnusedBuffers
  <2> QED BY <2>1, <2>3, AwaitsKept
<1>21. CASE HalReset
  <2>1. ppc = "reset" /\ ppc' = ppc
    BY <1>21 DEF HalReset, WInv, OInv, DInv, IInv, ResetAnswer
  <2> QED BY <2>1 DEF Awaits
<1>22. CASE UNCHANGED vars
  <2>1. Left
    BY <1>22 DEF vars, queueVars, groupVars, infoVars, cmdVars, resetVars, halVars,
       userVars, historyVars
  <2>2. \A w \in tk.wait : Told(w) => Told(w)'
    BY <2>1 DEF Told, Cause, Notifier, HasTask, Draining, UnusedBuffers
  <2> QED BY <2>1, <2>2, AwaitsKept
<1> QED BY <1>1, <1>2, <1>3, <1>4, <1>5, <1>6, <1>7, <1>8, <1>9, <1>10, <1>11, <1>12,
       <1>13, <1>14, <1>15, <1>16, <1>17, <1>18, <1>19, <1>20, <1>21, <1>22, <1>23 DEF Next,
       GoOn, FeederGoesOn, Drainer, Parser, Hal

-----------------------------------------------------------------------------
(* The parser asleep *)

\* A notification leaves the parser asleep only when it waits for nothing it is told.
LEMMA AsleepKept ==
    ASSUME WInv, NEW F, Notify(F), "control" \notin F, tk' = tk,
           cmdStart' \in {0, cmdStart}, resetFlag' => resetFlag /\ fpc' = fpc
    PROVE  Asleep'
<1>1. notify' = notify \cup F /\ ppc' \in {ppc, "work"}
  BY DEF Notify
<1>2. ASSUME ppc' = "asleep"
      PROVE  /\ tk'.wait # {} /\ notify' \cap tk'.wait = {} /\ "control" \notin notify'
             /\ resetFlag' => fpc' = "resetNotify"
  <2>1. /\ ppc = "asleep" /\ (notify' = notify \/ notify' \cap tk.wait = {})
    BY <1>2 DEF Notify
  <2> QED BY <1>1, <2>1 DEF WInv, Asleep
<1>3. cmdStart' = 1 => "control" \in notify' \/ ppc' = "work"
  BY <1>1 DEF WInv, Asleep
<1> QED BY <1>2, <1>3 DEF Asleep

\* A parser asleep stays so only when told of nothing it waits for.
LEMMA AsleepStep == WInv /\ [Next]_vars => Asleep'
<1> SUFFICES ASSUME WInv, [Next]_vars PROVE Asleep'
  OBVIOUS
<1> DEFINE Left == UNCHANGED <<tk, notify, ppc, cmdStart, resetFlag, fpc>>
<1>1. CASE ControlSend \/ HalRun \/ HalStatus \/ HalPush \/ HalPushed \/ HalReset
  <2>1. Left
    BY <1>1 DEF ControlSend, HalRun, HalStatus, HalPush, HalPushed, HalReset, queueVars,
       groupVars, infoVars, cmdVars, resetVars, halVars, userVars, historyVars
  <2> QED BY <2>1 DEF WInv, Asleep
<1>2. CASE HalSleep
  <2>1. Left
    BY <1>2 DEF HalSleep, queueVars, groupVars, infoVars, cmdVars, resetVars, halVars,
       userVars, historyVars
  <2> QED BY <2>1 DEF WInv, Asleep
<1>3. CASE GetFrame
  <2>1. /\ Notify({"disp"})
        /\ UNCHANGED <<tk, cmdStart, resetFlag, fpc>>
    BY <1>3 DEF GetFrame, cmdVars, resetVars, userVars
  <2>2. "control" \notin {"disp"}
    BY DEF FreedBuffers, NotifyDone
  <2> QED BY <2>1, <2>2, AsleepKept
<1>4. ASSUME NEW p \in held, ReleaseFrame(p) PROVE Asleep'
  <2>1. /\ Notify(FreedBuffers(slots, out, held \ {p}))
        /\ UNCHANGED <<tk, cmdStart, resetFlag, fpc>>
    BY <1>4 DEF ReleaseFrame, cmdVars, resetVars, userVars
  <2>2. "control" \notin FreedBuffers(slots, out, held \ {p})
    BY DEF FreedBuffers, NotifyDone
  <2> QED BY <2>1, <2>2, AsleepKept
<1>5. CASE ControlDone
  <2>1. /\ Notify({"info", "match"})
        /\ UNCHANGED <<tk, cmdStart, resetFlag, fpc>>
    BY <1>5 DEF ControlDone, cmdVars, resetVars, userVars
  <2>2. "control" \notin {"info", "match"}
    BY DEF FreedBuffers, NotifyDone
  <2> QED BY <2>1, <2>2, AsleepKept
<1>6. CASE HalClear
  <2>1. /\ Notify(FreedBuffers(slots', out, held))
        /\ UNCHANGED <<tk, cmdStart, resetFlag, fpc>>
    BY <1>6 DEF HalClear, cmdVars, resetVars, userVars
  <2>2. "control" \notin FreedBuffers(slots', out, held)
    BY DEF FreedBuffers, NotifyDone
  <2> QED BY <2>1, <2>2, AsleepKept
<1>7. CASE HalNotify
  <2>1. /\ Notify(NotifyDone)
        /\ UNCHANGED <<tk, cmdStart, resetFlag, fpc>>
    BY <1>7 DEF HalNotify, cmdVars, resetVars, userVars
  <2>2. "control" \notin NotifyDone
    BY DEF FreedBuffers, NotifyDone
  <2> QED BY <2>1, <2>2, AsleepKept
<1>8. CASE PutPacket
  <2>1. fpc = "free" /\ UNCHANGED <<tk, notify, ppc, cmdStart, resetFlag>>
    BY <1>8 DEF PutPacket, cmdVars, resetVars
  <2>2. ~resetFlag
    BY <2>1 DEF WInv, OInv, DInv, Resets
  <2> QED BY <2>1, <2>2 DEF WInv, Asleep
<1>9. CASE PutPacketNotify
  <2>1. Notify({"pkt"}) /\ fpc = "notify" /\ UNCHANGED <<tk, cmdStart, resetFlag>>
    BY <1>9 DEF PutPacketNotify, cmdVars, resetVars
  <2>2. ~resetFlag
    BY <2>1 DEF WInv, OInv, DInv, Resets
  <2> QED BY <2>1, <2>2, AsleepKept
<1>10. CASE ResetStart
  <2>1. fpc' = "resetNotify" /\ UNCHANGED <<tk, notify, ppc, cmdStart>>
    BY <1>10 DEF ResetStart, cmdVars
  <2> QED BY <2>1 DEF WInv, Asleep
<1>11. CASE ResetNotify
  <2>1. Notify(Reset) /\ UNCHANGED <<tk, cmdStart>>
    BY <1>11 DEF ResetNotify, cmdVars
  <2>2. ppc' # "asleep"
    <3> SUFFICES ASSUME ppc = "asleep" PROVE ppc' # "asleep"
      BY <2>1 DEF Notify
    <3>1. tk.wait # {} /\ notify \cap tk.wait = {} /\ tk.wait \subseteq Reset
      BY WaitKinds DEF WInv, Asleep, Reset
    <3>2. notify' = notify \cup Reset
      BY <2>1 DEF Notify
    <3>3. notify' # notify /\ notify' \cap tk.wait # {}
      BY <3>1, <3>2
    <3> QED BY <2>1, <3>3 DEF Notify
  <2>3. "control" \in notify'
    BY <2>1 DEF Notify, Reset
  <2> QED BY <2>2, <2>3 DEF Asleep
<1>12. CASE ResetFlush
  <2>1. /\ Notify(FreedBuffers(slots, <<>>, held)) /\ parserSem > 0
        /\ UNCHANGED <<tk, cmdStart, resetFlag>>
    BY <1>12 DEF ResetFlush, cmdVars
  <2>2. ~resetFlag
    BY <2>1 DEF WInv, OInv, DInv, Resets
  <2>3. "control" \notin FreedBuffers(slots, <<>>, held)
    BY DEF FreedBuffers
  <2> QED BY <2>1, <2>2, <2>3, AsleepKept
<1>13. CASE ControlNotify
  <2>1. Notify({"control"}) /\ UNCHANGED <<tk, resetFlag, fpc>>
    BY <1>13 DEF ControlNotify, resetVars
  <2>2. ppc' # "asleep" /\ "control" \in notify'
    BY <2>1 DEF Notify
  <2> QED BY <2>2 DEF Asleep
<1>14. CASE CheckTaskWait
  <2>1. /\ ppc = "check" /\ UNCHANGED <<tk, cmdStart, resetFlag>> /\ notify' = {}
        /\ ppc' = IF resetFlag \/ "control" \in notify \/ tk.wait = {} \/ Awaited
                  THEN "work" ELSE "asleep"
    BY <1>14 DEF CheckTaskWait, cmdVars, resetVars
  <2>2. cmdStart = 1 => "control" \in notify
    BY <2>1 DEF WInv, Asleep
  <2> QED BY <2>1, <2>2 DEF Asleep
<1>15. CASE ProcessControl
  <2>1. ppc' = "check" /\ cmdStart > 0 /\ cmdStart' = cmdStart - 1
    BY <1>15 DEF ProcessControl
  <2>2. cmdStart' = 0
    BY <2>1 DEF WInv, OInv, Controls
  <2> QED BY <2>1, <2>2 DEF Asleep
<1>16. CASE ResetPort \/ NoTaskLeft \/ TaskWithPacket \/ NoPacket \/ PreparePacket \/
         PutEos
  <2>1. ~cmd /\ cmdStart' = cmdStart /\ ppc' \in {"reset", "check", "prev"}
    BY <1>16 DEF ResetPort, NoTaskLeft, TaskWithPacket, NoPacket, PreparePacket, PutEos,
       Working, cmdVars
  <2>2. cmdStart # 1
    BY <2>1 DEF WInv, OInv, Controls
  <2> QED BY <2>1, <2>2 DEF Asleep
<1>17. CASE ResetParser \/ WaitPrevious \/ SlotForParsed \/ ParseNothing \/ ParsePicture
         \/ PutInfo \/ WaitInfo \/ WaitBuffer \/ WaitMatch \/ PutFrame
  <2>1. /\ ppc # "work" /\ cmdStart' = cmdStart /\ notify \subseteq notify'
        /\ ppc' \in {"check", "slot", "info"}
    BY <1>17 DEF ResetParser, WaitPrevious, SlotForParsed, ParseNothing, ParsePicture, PutInfo,
       WaitInfo, WaitBuffer, WaitMatch, PutFrame, cmdVars
  <2> QED BY <2>1 DEF WInv, Asleep
<1>18. CASE UNCHANGED vars
  <2>1. Left
    BY <1>18 DEF vars, queueVars, groupVars, infoVars, cmdVars, resetVars, halVars,
       userVars, historyVars
  <2> QED BY <2>1 DEF WInv, Asleep
<1> QED BY <1>1, <1>2, <1>3, <1>4, <1>5, <1>6, <1>7, <1>8, <1>9, <1>10, <1>11, <1>12,
       <1>13, <1>14, <1>15, <1>16, <1>17, <1>18 DEF Next, GoOn, FeederGoesOn, Drainer,
       Parser, Hal

-----------------------------------------------------------------------------
(* The invariant holds always, and what follows from it *)

\* The initial state has the invariant.
LEMMA InitWInv == Init => WInv
<1> SUFFICES ASSUME Init PROVE WInv
  OBVIOUS
<1>1. OInv
  BY InitOInv
<1>2. tk.wait = {} /\ ppc = "check" /\ cmdStart = 0
  BY DEF Init, NoTask
<1> QED BY <1>1, <1>2 DEF WInv, WaitShape, Awaits, Asleep

\* Every step keeps it.
LEMMA StepWInv == WInv /\ [Next]_vars => WInv'
<1>1. WInv => OInv
  BY DEF WInv
<1> QED BY <1>1, StepOInv, WaitShapeStep, AwaitsStep, AsleepStep DEF WInv

\* The invariant of what the parser waits for.
THEOREM WInvHolds == Spec => []WInv
BY InitWInv, StepWInv, PTL DEF Spec

\* No notification is missed between the parser's looking at a condition and its sleep,
\* unless its last turn went to a command (check_task_wait, mpp_dec_notify).
THEOREM NoneMissed == Spec => []NoMissedWakeup
<1>1. WInv => NoMissedWakeup
  <2> SUFFICES ASSUME WInv, ppc = "asleep", ~commanded, ~Waking
               PROVE  Blocked /\ ~cmd /\ ~resetFlag
    BY DEF NoMissedWakeup, SleepsWithCause
  <2>1. /\ tk.wait # {} /\ notify \cap tk.wait = {} /\ ~resetFlag /\ cmdStart # 1
    BY DEF WInv, Asleep, Waking
  <2>2. ~cmd
    BY <2>1 DEF WInv, OInv, Controls, Waking
  <2>3. PICK w \in tk.wait : Cause(w) \/ Notifier(w)
    BY <2>1 DEF WInv, Awaits, StillAwaits
  <2>4. ~Notifier(w)
    BY <2>3 DEF Notifier, Waking, Draining
  <2>5. Blocked
    BY <2>3, <2>4 DEF Cause, Blocked, WInv, WaitShape
  <2> QED BY <2>1, <2>2, <2>5
<1> QED BY <1>1, WInvHolds, PTL
=============================================================================
