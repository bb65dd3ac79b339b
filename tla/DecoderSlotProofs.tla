--------------------------- MODULE DecoderSlotProofs ---------------------------
(***************************************************************************)
(* Proofs about MppDecoder: the handshake between the parser, which starts  *)
(* the hardware, and the hardware thread, which waits for it; the tasks of  *)
(* both, the frame slots and who holds them.                                *)
(***************************************************************************)
EXTENDS MppDecoder, SequenceTheorems, FiniteSetTheorems, WellFoundedInduction, TLAPS

-----------------------------------------------------------------------------
(* The handshake *)

\* A sequence, whatever its elements.
IsSeq(s) == s \in Seq({s[i] : i \in DOMAIN s})

Frames(s) == {i \in DOMAIN s : s[i].kind = "frame"}

\* A frame task to process, or done and not yet taken back, is one the parser knows
\* it has sent (task.status.prev_task_rdy is 0); it sends the next when it is ready.
Handshake ==
    /\ \A i, j \in Frames(proc) : i = j
    /\ Frames(proc) # {} => done = 0 /\ ~tk.prev
    /\ done > 0 => done = 1 /\ ~tk.prev
    /\ ppc \in {"slot", "info"} => tk.prev

\* The task the hardware thread works on is the first of those to process.
AtWork ==
    /\ hpc = "status" => proc # <<>> /\ 1 \in Frames(proc)
    /\ hpc = "push" /\ cur.kind # "frame" => proc # <<>>
    /\ hpc \in {"status", "clear"} => cur.kind = "frame"

\* A reset asked for is answered once, by a hardware thread with no task left.
ResetAnswer ==
    /\ halReset => ppc = "reset" /\ halSem = 0
    /\ halSem # 0 => halSem = 1 /\ ppc = "reset" /\ proc = <<>> /\ done = 0

\* The inductive invariant, with the types it needs.
IInv ==
    /\ IsSeq(proc) /\ done \in Nat /\ halSem \in Nat
    /\ "prev" \in DOMAIN tk /\ tk.prev \in BOOLEAN /\ halReset \in BOOLEAN
    /\ Handshake /\ AtWork /\ ResetAnswer

-----------------------------------------------------------------------------
(* The list of tasks to process *)

\* A sequence is one over its own elements.
LEMMA RangeSeq ==
    ASSUME NEW S, NEW s \in Seq(S)
    PROVE  s \in Seq({s[i] : i \in DOMAIN s})
<1> DEFINE R == {s[i] : i \in DOMAIN s}
<1>1. s \in [1 .. Len(s) -> S] /\ Len(s) \in Nat
  BY LenProperties
<1>2. s \in [1 .. Len(s) -> R]
  BY <1>1
<1> HIDE DEF R
<1>3. s \in Seq(R)
  BY <1>1, <1>2, SeqDef
<1> QED BY <1>3 DEF R

\* Every sequence is one.
LEMMA IsSeqIf ==
    ASSUME NEW S, NEW s \in Seq(S)
    PROVE  IsSeq(s)
BY RangeSeq DEF IsSeq

\* The list of tasks at the start, and after a reset.
LEMMA NoTasks == IsSeq(<<>>) /\ Frames(<<>>) = {}
<1>1. <<>> \in Seq({})
  BY EmptySeq
<1>2. DOMAIN <<>> = {}
  OBVIOUS
<1> QED BY <1>1, <1>2, IsSeqIf DEF Frames

\* The first task of the list.
LEMMA HeadSeq ==
    ASSUME NEW s, IsSeq(s), s # <<>>
    PROVE  Head(s).kind = "frame" => 1 \in Frames(s)
<1>1. Head(s) = s[1] /\ 1 \in DOMAIN s
  BY DEF IsSeq
<1> QED BY <1>1 DEF Frames

\* A task sent to the hardware thread stands last (hal_task_hnd_set_status).
LEMMA AppendSeq ==
    ASSUME NEW s, IsSeq(s), NEW e
    PROVE  /\ IsSeq(Append(s, e)) /\ Append(s, e) # <<>>
           /\ Frames(Append(s, e)) =
                Frames(s) \cup (IF e.kind = "frame" THEN {Len(s) + 1} ELSE {})
           /\ s # <<>> => Append(s, e)[1] = s[1]
<1> DEFINE S == {s[i] : i \in DOMAIN s} \cup {e}
<1>1. s \in Seq(S) BY DEF IsSeq
<1>2. Append(s, e) \in Seq(S) /\ Len(Append(s, e)) = Len(s) + 1
  BY <1>1
<1>3. \A i \in 1 .. Len(s) : Append(s, e)[i] = s[i]
  BY <1>1
<1>4. Append(s, e)[Len(s) + 1] = e
  BY <1>1
<1>5. DOMAIN s = 1 .. Len(s) /\ DOMAIN Append(s, e) = 1 .. Len(s) + 1 /\ Len(s) \in Nat
  BY <1>1, <1>2
<1>6. IsSeq(Append(s, e))
  BY <1>2, IsSeqIf
<1> QED BY <1>1, <1>2, <1>3, <1>4, <1>5, <1>6 DEF Frames

\* The first task is taken off.
LEMMA TailSeq ==
    ASSUME NEW s, IsSeq(s), s # <<>>
    PROVE  /\ IsSeq(Tail(s))
           /\ Frames(Tail(s)) = {i \in 1 .. Len(s) - 1 : i + 1 \in Frames(s)}
<1> DEFINE S == {s[i] : i \in DOMAIN s}
<1>1. s \in Seq(S) BY DEF IsSeq
<1>2. Tail(s) \in Seq(S) /\ Len(Tail(s)) = Len(s) - 1 /\ Len(s) \in Nat \ {0}
  BY <1>1
<1>3. \A i \in 1 .. Len(s) - 1 : Tail(s)[i] = s[i + 1]
  BY <1>1
<1>5. DOMAIN s = 1 .. Len(s) /\ DOMAIN Tail(s) = 1 .. Len(s) - 1
  BY <1>1, <1>2
<1>6. IsSeq(Tail(s))
  BY <1>2, IsSeqIf
<1> QED BY <1>2, <1>3, <1>5, <1>6 DEF Frames

\* What mpp_dec_put_task does to the list.
LEMMA SendTask ==
    ASSUME IsSeq(proc), NEW kind, NEW t, PutTask(kind, t)
    PROVE  /\ IsSeq(proc') /\ proc' # <<>>
           /\ kind # "frame" => Frames(proc') = Frames(proc)
           /\ kind = "frame" /\ Frames(proc) = {} => \A i, j \in Frames(proc') : i = j
           /\ proc # <<>> /\ 1 \in Frames(proc) => 1 \in Frames(proc')
           /\ hpc' = IF hpc = "asleep" THEN "get" ELSE hpc
<1>1. proc' = Append(proc, TaskInfo(kind, t)) /\ TaskInfo(kind, t).kind = kind
  BY DEF PutTask, TaskInfo
<1>2. Frames(proc') = Frames(proc) \cup (IF kind = "frame" THEN {Len(proc) + 1} ELSE {})
  BY <1>1, AppendSeq
<1>3. IsSeq(proc') /\ proc' # <<>>
  BY <1>1, AppendSeq
<1>4. hpc' = IF hpc = "asleep" THEN "get" ELSE hpc
  BY DEF PutTask, WakeHal
<1> QED BY <1>2, <1>3, <1>4

-----------------------------------------------------------------------------
(* The inductive invariant *)

\* The handshake holds at the start.
LEMMA InitInv == Init => IInv
<1> SUFFICES ASSUME Init PROVE IInv
  OBVIOUS
<1>1. "prev" \in DOMAIN tk /\ tk.prev = TRUE
  BY DEF Init, NoTask
<1>2. Handshake
  BY <1>1, NoTasks DEF Init, Handshake
<1>3. AtWork /\ ResetAnswer
  BY DEF Init, AtWork, ResetAnswer
<1> QED BY <1>1, <1>2, <1>3, NoTasks DEF Init, IInv

\* Every step of a thread keeps the handshake: only those that send, process or take
\* back a task, or answer a reset, touch it.
LEMMA StepInv == IInv /\ [Next]_vars => IInv'
<1> SUFFICES ASSUME IInv, [Next]_vars PROVE IInv'
  OBVIOUS
<1>1. ASSUME PutPacket PROVE IInv'
  BY <1>1 DEF PutPacket, IInv, Handshake, AtWork, ResetAnswer, groupVars, halVars,
     resetVars
<1>2. ASSUME PutPacketNotify PROVE IInv'
  BY <1>2 DEF PutPacketNotify, Notify, IInv, Handshake, AtWork, ResetAnswer,
     groupVars, halVars, resetVars
<1>3. ASSUME ResetStart PROVE IInv'
  BY <1>3 DEF ResetStart, IInv, Handshake, AtWork, ResetAnswer, groupVars, halVars
<1>4. ASSUME ResetNotify PROVE IInv'
  BY <1>4 DEF ResetNotify, Notify, IInv, Handshake, AtWork, ResetAnswer, groupVars,
     halVars, resetVars
<1>5. ASSUME ResetFlush PROVE IInv'
  BY <1>5 DEF ResetFlush, Notify, IInv, Handshake, AtWork, ResetAnswer, groupVars,
     halVars
<1>6. ASSUME GetFrame PROVE IInv'
  BY <1>6 DEF GetFrame, Notify, IInv, Handshake, AtWork, ResetAnswer, groupVars,
     halVars, resetVars
<1>7. ASSUME NEW p \in held, ReleaseFrame(p) PROVE IInv'
  BY <1>7 DEF ReleaseFrame, Notify, IInv, Handshake, AtWork, ResetAnswer, groupVars,
     halVars, resetVars
<1>8. ASSUME ControlSend PROVE IInv'
  BY <1>8 DEF ControlSend, IInv, Handshake, AtWork, ResetAnswer, groupVars, halVars,
     resetVars
<1>9. ASSUME ControlNotify PROVE IInv'
  BY <1>9 DEF ControlNotify, Notify, IInv, Handshake, AtWork, ResetAnswer,
     groupVars, halVars, resetVars
<1>10. ASSUME ControlDone PROVE IInv'
  BY <1>10 DEF ControlDone, Notify, IInv, Handshake, AtWork, ResetAnswer, groupVars,
     halVars, resetVars
<1>11. ASSUME CheckTaskWait PROVE IInv'
  BY <1>11 DEF CheckTaskWait, IInv, Handshake, AtWork, ResetAnswer, groupVars,
     halVars, resetVars
<1>12. ASSUME ProcessControl PROVE IInv'
  BY <1>12 DEF ProcessControl, IInv, Handshake, AtWork, ResetAnswer, groupVars,
     halVars, resetVars
<1>13. ASSUME ResetPort PROVE IInv'
  BY <1>13 DEF ResetPort, WakeHal, IInv, Handshake, AtWork, ResetAnswer, groupVars
<1>14. ASSUME ResetParser PROVE IInv'
  <2>1. /\ UNCHANGED <<proc, done, hpc, cur, halReset>> /\ ppc = "reset"
        /\ halSem > 0 /\ halSem' = halSem - 1 /\ tk' = NoTask /\ ppc' = "check"
    BY <1>14 DEF ResetParser, groupVars, halVars
  <2>2. "prev" \in DOMAIN tk' /\ tk'.prev = TRUE
    BY <2>1 DEF NoTask
  <2>3. proc = <<>> /\ done = 0 /\ halSem' = 0 /\ halReset = FALSE
    BY <2>1 DEF IInv, ResetAnswer
  <2>4. Handshake' /\ AtWork' /\ ResetAnswer'
    BY <2>1, <2>2, <2>3, NoTasks DEF IInv, Handshake, AtWork, ResetAnswer
  <2> QED BY <2>1, <2>2, <2>3, <2>4 DEF IInv
<1>15. ASSUME NoTaskLeft PROVE IInv'
  BY <1>15 DEF NoTaskLeft, Working, IInv, Handshake, AtWork, ResetAnswer, groupVars,
     halVars, resetVars
<1>16. ASSUME TaskWithPacket PROVE IInv'
  BY <1>16 DEF TaskWithPacket, Working, WithTask, IInv, Handshake, AtWork,
     ResetAnswer, groupVars, halVars, resetVars
<1>17. ASSUME NoPacket PROVE IInv'
  BY <1>17 DEF NoPacket, Working, WithTask, IInv, Handshake, AtWork, ResetAnswer,
     groupVars, halVars, resetVars
<1>18. ASSUME PreparePacket PROVE IInv'
  BY <1>18 DEF PreparePacket, Working, WithTask, IInv, Handshake, AtWork,
     ResetAnswer, groupVars, halVars, resetVars
<1>19. ASSUME PutEos PROVE IInv'
  BY <1>19, SendTask DEF PutEos, Working, WithTask, IInv, Handshake, AtWork,
     ResetAnswer, resetVars
<1>20. ASSUME WaitPrevious PROVE IInv'
  <2>1. UNCHANGED <<proc, hpc, cur, halReset, halSem>>
    BY <1>20 DEF WaitPrevious, halVars, resetVars
  <2>2. /\ "prev" \in DOMAIN tk' /\ tk'.prev = (tk.prev \/ done > 0)
        /\ done' = IF ~tk.prev /\ done > 0 THEN done - 1 ELSE done
        /\ ppc = "prev" /\ ppc' \in {"slot", "check"}
        /\ ppc' = "slot" => tk'.prev
    BY <1>20 DEF WaitPrevious, PreviousDone, IInv
  <2>3. Handshake'
    BY <2>1, <2>2 DEF IInv, Handshake
  <2>4. AtWork' /\ ResetAnswer'
    BY <2>1, <2>2 DEF IInv, AtWork, ResetAnswer
  <2> QED BY <2>1, <2>2, <2>3, <2>4 DEF IInv, Handshake
<1>21. ASSUME SlotForParsed PROVE IInv'
  BY <1>21 DEF SlotForParsed, IInv, Handshake, AtWork, ResetAnswer, groupVars,
     halVars, resetVars
<1>22. ASSUME ParseNothing PROVE IInv'
  BY <1>22, SendTask DEF ParseNothing, NoTask, IInv, Handshake, AtWork, ResetAnswer,
     resetVars
<1>23. ASSUME ParsePicture PROVE IInv'
  BY <1>23 DEF ParsePicture, IInv, Handshake, AtWork, ResetAnswer, groupVars,
     halVars, resetVars
<1>24. ASSUME PutInfo PROVE IInv'
  BY <1>24, SendTask DEF PutInfo, IInv, Handshake, AtWork, ResetAnswer, resetVars
<1>25. ASSUME WaitInfo PROVE IInv'
  BY <1>25 DEF WaitInfo, IInv, Handshake, AtWork, ResetAnswer, groupVars, halVars,
     resetVars
<1>26. ASSUME WaitBuffer PROVE IInv'
  BY <1>26 DEF WaitBuffer, IInv, Handshake, AtWork, ResetAnswer, groupVars, halVars,
     resetVars
<1>37. ASSUME WaitMatch PROVE IInv'
  BY <1>37 DEF WaitMatch, IInv, Handshake, AtWork, ResetAnswer, groupVars, halVars,
     resetVars
<1>27. ASSUME PutFrame PROVE IInv'
  BY <1>27, SendTask DEF PutFrame, NoTask, IInv, Handshake, AtWork, ResetAnswer,
     resetVars
<1>28. ASSUME HalRun PROVE IInv'
  BY <1>28, HeadSeq DEF HalRun, IInv, Handshake, AtWork, ResetAnswer, groupVars,
     resetVars
<1>29. ASSUME HalStatus PROVE IInv'
  BY <1>29, TailSeq DEF HalStatus, Processed, IInv, Handshake, AtWork, ResetAnswer,
     resetVars
<1>30. ASSUME HalClear PROVE IInv'
  BY <1>30 DEF HalClear, Notify, IInv, Handshake, AtWork, ResetAnswer, groupVars,
     resetVars
<1>31. ASSUME HalPush PROVE IInv'
  BY <1>31 DEF HalPush, IInv, Handshake, AtWork, ResetAnswer, groupVars, halVars,
     resetVars
<1>32. ASSUME HalPushed PROVE IInv'
  BY <1>32, TailSeq DEF HalPushed, IInv, Handshake, AtWork, ResetAnswer, resetVars
<1>33. ASSUME HalNotify PROVE IInv'
  BY <1>33 DEF HalNotify, Notify, IInv, Handshake, AtWork, ResetAnswer, groupVars,
     resetVars
<1>34. ASSUME HalReset PROVE IInv'
  <2>1. /\ proc = <<>> /\ UNCHANGED <<proc, hpc, cur, tk, ppc>>
        /\ hpc = "get" /\ halReset /\ halReset' = FALSE /\ done' = 0 /\ halSem' = halSem + 1
    BY <1>34, NoTasks DEF HalReset, AllProcessed, halVars, IInv
  <2>2. Handshake' /\ AtWork' /\ ResetAnswer'
    BY <2>1, NoTasks DEF IInv, Handshake, AtWork, ResetAnswer
  <2>3. IsSeq(proc')
    BY <2>1, NoTasks
  <2>4. done' \in Nat /\ halSem' \in Nat /\ halReset' \in BOOLEAN
    <3>1. halSem \in Nat /\ halSem' = halSem + 1 /\ done' = 0
      BY <2>1 DEF IInv
    <3>2. halReset' \in BOOLEAN
      BY <2>1, Zenon
    <3> QED BY <3>1, <3>2
  <2>5. "prev" \in DOMAIN tk' /\ tk'.prev \in BOOLEAN
    BY <2>1, Zenon DEF IInv
  <2> QED BY <2>2, <2>3, <2>4, <2>5 DEF IInv
<1>35. ASSUME HalSleep PROVE IInv'
  BY <1>35 DEF HalSleep, AllProcessed, IInv, Handshake, AtWork, ResetAnswer,
     groupVars, resetVars
<1>36. ASSUME UNCHANGED vars PROVE IInv'
  BY <1>36 DEF IInv, Handshake, AtWork, ResetAnswer, vars, groupVars, halVars, resetVars
<1> QED BY <1>1, <1>2, <1>3, <1>4, <1>5, <1>6, <1>7, <1>8, <1>9, <1>10, <1>11,
       <1>12, <1>13, <1>14, <1>15, <1>16, <1>17, <1>18, <1>19, <1>20, <1>21, <1>22,
       <1>23, <1>24, <1>25, <1>26, <1>27, <1>28, <1>29, <1>30, <1>31, <1>32, <1>33,
       <1>34, <1>35, <1>36, <1>37 DEF Next, GoOn, FeederGoesOn, Drainer, Parser, Hal

\* The handshake holds always.
THEOREM InvHolds == Spec => []IInv
BY InitInv, StepInv, PTL DEF Spec

\* The parser never starts the hardware while it works on a frame: between the start
\* (step 12) and the end of the hardware thread's wait is one task at most.
THEOREM OneFrame == Spec => []OneFrameInHardware
<1>1. IInv => OneFrameInHardware
  BY DEF IInv, Handshake, Frames, OneFrameInHardware
<1> QED BY <1>1, InvHolds, PTL

\* When the hardware thread has answered a reset no task is left to process, so the
\* abort in reset_parser_thread is not reached, whatever the counts of tasks and slots.
THEOREM ResetIdle == Spec => []ResetFindsIdle
<1>1. IInv => ResetFindsIdle
  BY DEF IInv, ResetAnswer, ResetFindsIdle
<1> QED BY <1>1, InvHolds, PTL

-----------------------------------------------------------------------------
(* The invariant: the threads and their tasks *)

ParserTasks ==
    [hnd : BOOLEAN, frm : Nat, curr : BOOLEAN, eos : BOOLEAN,
     input : 0 .. TaskCount, copied : BOOLEAN, prev : BOOLEAN,
     parsed : BOOLEAN, infoGen : BOOLEAN, slot : Slots \cup {0},
     ref : Slots \cup {0}, rfrm : Nat, wait : SUBSET WaitBits]

\* The tasks made of the first n packets.
SentTasks(n) == {t \in Tasks : t.frm \in 1 .. n /\ (t.kind = "frame" => t.slot # 0)}

\* What the feeder has put, and what of it is in the port.
Fed ==
    /\ stream \in Streams /\ sent \in 0 .. Len(stream) /\ resets \in 0 .. MaxResets[stream]
    /\ fpc \in {"free", "notify", "resetNotify", "resetWait"}
    /\ port \in Seq(1 .. sent)

\* How far the parser is with the packet at hand.
Parses ==
    /\ tk \in ParserTasks /\ ref \in Slots \cup {0}
    /\ ppc \in {"check", "asleep", "work", "reset", "prev", "slot", "info"}
    /\ ppc \in {"prev", "slot", "info"} => tk.hnd /\ tk.curr
    /\ ppc = "info" => tk.parsed
    /\ tk.parsed => tk.curr /\ tk.prev /\ tk.slot = ref /\ tk.slot # 0
    /\ tk.curr <=> tk.copied
    /\ tk.curr => tk.input # 0 /\ tk.frm \in 1 .. sent

\* Where the tasks of the group are: the parser has an idle one when it says so, and
\* the hardware thread works on the first of those to process.
Group ==
    /\ proc \in Seq(SentTasks(sent))
    /\ hpc \in {"get", "asleep", "status", "clear", "push", "notify"}
    /\ hpc \in {"status", "clear", "push", "notify"} => cur \in SentTasks(sent)
    /\ hpc = "status" => proc # <<>> /\ cur = proc[1]
    /\ hpc = "push" /\ cur.kind # "frame" => proc # <<>> /\ cur = proc[1]
    /\ hpc = "notify" => cur.kind # "frame"
    /\ idle \in Nat /\ done \in Nat /\ idle + done + Len(proc) = TaskCount
    /\ tk.hnd => idle > 0

\* A reset is asked for while the feeder waits; the hardware thread that has answered
\* it has nothing to do.
Resets ==
    /\ resetFlag \in BOOLEAN /\ parserSem \in {0, 1}
    /\ resetFlag => fpc \in {"resetNotify", "resetWait"} /\ parserSem = 0
    /\ fpc = "resetNotify" => resetFlag
    /\ fpc = "resetWait" => resetFlag \/ parserSem = 1
    /\ parserSem = 1 => fpc = "resetWait"
    /\ ppc = "reset" => resetFlag /\ port = <<>> /\ (halReset \/ halSem = 1)
    /\ halSem # 0 => hpc \in {"get", "asleep"}
    /\ halReset => hpc # "asleep"

-----------------------------------------------------------------------------
(* The invariant: frame slots *)

Entries == [used : BOOLEAN, codec : BOOLEAN, hin : Nat, hout : BOOLEAN,
            queued : BOOLEAN, buf : BOOLEAN, frame : Nat]

\* Tables of slots in which a slot is used while one of its flags is set.
Tables ==
    {f \in [Slots -> Entries] :
        \A s \in Slots : f[s].used <=> f[s].codec \/ f[s].queued \/ f[s].hout \/ f[s].hin > 0}

\* What a task says of slots: the one it writes, the one it reads, their frames.
Job(t) == [slot |-> t.slot, ref |-> t.ref, frm |-> t.frm, rfrm |-> t.rfrm]
JobsOf(s) == {Job(s[i]) : i \in Frames(s)}

\* Jobs with the parser, with the hardware, and done but with their flags set.
ParsedJobs == IF tk.parsed THEN {Job(tk)} ELSE {}
Pending == ParsedJobs \cup JobsOf(proc)
Clearing == IF hpc = "clear" THEN {Job(cur)} ELSE {}

\* The hardware thread is about to output the frame of its task.
Draining == hpc \in {"clear", "push"} /\ cur.kind = "frame"

\* How many of these jobs read slot s: one or none.
Reads(jobs, s) == IF \E j \in jobs : j.ref = s THEN 1 ELSE 0

Flags ==
    /\ slots \in Tables
    /\ \A s \in Slots :
        /\ slots[s].codec <=> ref = s
        /\ slots[s].queued <=> \E i \in DOMAIN display : display[i] = s
        /\ slots[s].hout <=> \E j \in Pending \cup Clearing : j.slot = s
        /\ slots[s].hin = Reads(Pending, s) + Reads(Clearing, s)
        /\ slots[s].used => slots[s].frame \in 1 .. sent

\* One job at a time is pending, and its picture is the parser's reference; what it
\* reads is the picture before, which is the one whose flags are being cleared.
Chain ==
    /\ \A p, q \in Pending : p = q
    /\ \A p \in Pending : p.slot = ref /\ ref # 0
    /\ \A c \in Clearing :
        /\ c.slot \in Slots
        /\ Pending = {} => c.slot = ref
        /\ \A p \in Pending : p.ref \in {0, c.slot} /\ p.slot # c.slot

\* The display queue: the picture being output, and the pending one.
Shape ==
    \/ Pending = {} /\ display = <<>>
    \/ Pending # {} /\ display = <<ref>>
    \/ Draining /\ cur.slot \in Slots /\ Pending = {} /\ display = <<cur.slot>>
    \/ Draining /\ cur.slot \in Slots /\ Pending # {} /\ cur.slot # ref /\ display = <<cur.slot, ref>>

\* The slots of job j hold its frames, with a buffer to read from.
Holds(j) ==
    /\ slots[j.slot].frame = j.frm
    /\ j.ref # 0 => slots[j.ref].frame = j.rfrm /\ slots[j.ref].buf

Hardware ==
    /\ \A j \in Pending \cup Clearing : Holds(j)
    /\ \A j \in JobsOf(proc) \cup Clearing : slots[j.slot].buf
    /\ ref # 0 /\ ~tk.parsed => slots[ref].buf

\* The inductive invariant.
DInv == IInv /\ Fed /\ Parses /\ Group /\ Resets /\ Flags /\ Chain /\ Shape /\ Hardware

-----------------------------------------------------------------------------
(* Sequences of tasks *)

\* A packet more in the stream leaves the tasks what they are.
LEMMA SentMore ==
    ASSUME NEW n \in Nat
    PROVE  SentTasks(n) \subseteq SentTasks(n + 1)
BY DEF SentTasks

\* A task sent with what the parser knows of the packet at hand.
LEMMA SentTask ==
    ASSUME NEW n \in Nat, NEW t \in ParserTasks, t.frm \in 1 .. n,
           NEW kind \in {"frame", "info", "eos"}, kind = "frame" => t.slot # 0
    PROVE  TaskInfo(kind, t) \in SentTasks(n)
BY DEF TaskInfo, ParserTasks, SentTasks, Tasks

\* What mpp_dec_put_task does to the list of tasks of the first n packets.
LEMMA PutTaskSeq ==
    ASSUME NEW S, proc \in Seq(S), NEW kind, NEW t, TaskInfo(kind, t) \in S,
           PutTask(kind, t)
    PROVE  /\ proc' \in Seq(S) /\ Len(proc') = Len(proc) + 1
           /\ proc' # <<>> /\ (proc # <<>> => proc'[1] = proc[1])
           /\ idle' = idle - 1
           /\ hpc' = IF hpc = "asleep" THEN "get" ELSE hpc
<1>1. /\ proc' = Append(proc, TaskInfo(kind, t)) /\ idle' = idle - 1
      /\ hpc' = IF hpc = "asleep" THEN "get" ELSE hpc
  BY DEF PutTask, WakeHal
<1>2. proc # <<>> => Len(proc) > 0
  BY EmptySeq
<1>3. /\ Append(proc, TaskInfo(kind, t)) \in Seq(S)
      /\ Len(Append(proc, TaskInfo(kind, t))) = Len(proc) + 1
      /\ \A i \in 1 .. Len(proc) : Append(proc, TaskInfo(kind, t))[i] = proc[i]
      /\ Len(proc) \in Nat
  BY AppendProperties, LenProperties
<1> QED BY <1>1, <1>2, <1>3, EmptySeq

\* A stream is a sequence.
LEMMA StreamLength ==
    ASSUME Fed
    PROVE  Len(stream) \in Nat /\ DOMAIN stream = 1 .. Len(stream) /\ sent \in Nat
<1> DEFINE Packet == [kind : Kinds, size : Sizes, eos : BOOLEAN]
<1>1. stream \in Seq(Packet) /\ sent \in 0 .. Len(stream)
  BY StreamAssumption DEF Fed
<1> HIDE DEF Packet
<1> QED BY <1>1, LenProperties

\* dec_task_init
LEMMA NoTaskTyped == NoTask \in ParserTasks
BY CountAssumption DEF NoTask, ParserTasks

\* The wait bits of a task are set and cleared one by one.
LEMMA WaitTyped ==
    ASSUME NEW t \in ParserTasks, NEW w \in SUBSET WaitBits, NEW b \in WaitBits
    PROVE  /\ t.wait \in SUBSET WaitBits
           /\ w \cup {b} \in SUBSET WaitBits /\ w \ {b} \in SUBSET WaitBits
           /\ [t EXCEPT !.wait = w] \in ParserTasks
<1>1. t.wait \in SUBSET WaitBits
  BY DEF ParserTasks
<1>2. w \cup {b} \in SUBSET WaitBits /\ w \ {b} \in SUBSET WaitBits
  OBVIOUS
<1>3. [t EXCEPT !.wait = w] \in ParserTasks
  BY DEF ParserTasks
<1> QED BY <1>1, <1>2, <1>3

\* A packet of the stream has an eos mark and a size.
LEMMA PacketFields ==
    ASSUME Fed, NEW p \in 1 .. sent
    PROVE  p \in DOMAIN stream /\ stream[p].eos \in BOOLEAN /\ stream[p].size \in Sizes
<1> DEFINE Packet == [kind : Kinds, size : Sizes, eos : BOOLEAN]
<1>1. stream \in Seq(Packet) /\ sent \in 0 .. Len(stream)
  BY StreamAssumption DEF Fed
<1> HIDE DEF Packet
<1>2. p \in 1 .. Len(stream) /\ DOMAIN stream = 1 .. Len(stream)
  BY <1>1, LenProperties
<1>3. stream[p] \in Packet
  BY <1>1, <1>2, ElementOfSeq
<1> QED BY <1>2, <1>3 DEF Packet

\* The parser takes the first unused slot (mpp_buf_slot_get_unused).
LEMMA LeastUnused ==
    ASSUME UnusedSlots # {}
    PROVE  (CHOOSE x \in UnusedSlots : \A y \in UnusedSlots : x <= y) \in UnusedSlots
<1>1. UnusedSlots \subseteq Nat
  BY CountAssumption DEF UnusedSlots, Slots
<1> DEFINE R == OpToRel(<, Nat)
<1>2. PICK x \in UnusedSlots : \A y \in UnusedSlots : ~ (<<y, x>> \in R)
  <2>1. IsWellFoundedOn(R, Nat)
    BY NatLessThanWellFounded
  <2> HIDE DEF R
  <2> QED BY <1>1, <2>1, WFMin
<1>3. ASSUME NEW y \in UnusedSlots PROVE x <= y
  <2>1. x \in Nat /\ y \in Nat /\ ~ (<<y, x>> \in R)
    BY <1>1, <1>2
  <2>2. y < x => <<y, x>> \in R
    BY <2>1 DEF OpToRel
  <2> HIDE DEF R
  <2> QED BY <2>1, <2>2
<1> QED BY <1>3

-----------------------------------------------------------------------------
(* Steps: the threads and their tasks *)

\* What each step does to the packets put.
LEMMA FedStep == DInv /\ [Next]_vars => Fed'
<1> SUFFICES ASSUME DInv, [Next]_vars PROVE Fed'
  OBVIOUS
<1> DEFINE Left == UNCHANGED <<stream, sent, resets, fpc, port>>
<1>1. CASE GetFrame \/ (\E p \in held : ReleaseFrame(p)) \/ ControlSend \/ ControlNotify
         \/ ControlDone \/ CheckTaskWait
  <2>1. Left
    BY <1>1 DEF GetFrame, Notify, ReleaseFrame, ControlSend, ControlNotify, ControlDone,
       CheckTaskWait, queueVars, groupVars, infoVars, cmdVars, resetVars, halVars,
       userVars, historyVars
  <2> QED BY <2>1 DEF DInv, Fed
<1>2. CASE ProcessControl \/ ResetParser \/ NoTaskLeft \/ TaskWithPacket \/ NoPacket \/
         WaitPrevious
  <2>1. Left
    BY <1>2 DEF ProcessControl, ResetParser, NoTaskLeft, Working, TaskWithPacket,
       WithTask, NoPacket, WaitPrevious, queueVars, groupVars, infoVars, cmdVars,
       resetVars, halVars, userVars, historyVars
  <2> QED BY <2>1 DEF DInv, Fed
<1>3. CASE SlotForParsed \/ ParseNothing \/ ParsePicture \/ PutInfo \/ WaitInfo \/
         WaitBuffer \/ WaitMatch
  <2>1. Left
    BY <1>3 DEF SlotForParsed, ParseNothing, PutTask, WakeHal, ParsePicture, PutInfo,
       WaitInfo, WaitBuffer, WaitMatch, queueVars, groupVars, infoVars, cmdVars, resetVars, halVars,
       userVars, historyVars
  <2> QED BY <2>1 DEF DInv, Fed
<1>4. CASE PutFrame \/ HalRun \/ HalStatus \/ HalClear \/ HalPush \/ HalPushed
  <2>1. Left
    BY <1>4 DEF PutFrame, PutTask, WakeHal, HalRun, HalStatus, HalClear, Notify, HalPush,
       HalPushed, queueVars, groupVars, infoVars, cmdVars, resetVars, halVars, userVars,
       historyVars
  <2> QED BY <2>1 DEF DInv, Fed
<1>5. CASE HalNotify \/ HalReset \/ HalSleep
  <2>1. Left
    BY <1>5 DEF HalNotify, Notify, HalReset, HalSleep, queueVars, groupVars, infoVars,
       cmdVars, resetVars, halVars, userVars, historyVars
  <2> QED BY <2>1 DEF DInv, Fed
<1>6. CASE PutPacket
  <2>1. /\ UNCHANGED <<stream, resets>> /\ sent' = sent + 1 /\ sent + 1 \in DOMAIN stream
        /\ port' = Append(port, sent + 1) /\ fpc' = "notify"
    BY <1>6 DEF PutPacket
  <2>2. Len(stream) \in Nat /\ DOMAIN stream = 1 .. Len(stream) /\ sent \in Nat
    BY StreamLength DEF DInv
  <2>3. sent + 1 \in 0 .. Len(stream)
    BY <2>1, <2>2
  <2>4. port \in Seq(1 .. sent + 1)
    BY <2>2, SeqMonotonic DEF DInv, Fed
  <2>5. Append(port, sent + 1) \in Seq(1 .. sent + 1)
    BY <2>2, <2>4
  <2> QED BY <2>1, <2>3, <2>5 DEF DInv, Fed
<1>7. CASE ResetStart
  <2>1. MaxResets[stream] \in Nat
    BY CountAssumption DEF DInv, Fed
  <2> QED BY <1>7, <2>1 DEF ResetStart, DInv, Fed, queueVars
<1>8. CASE PutPacketNotify \/ ResetNotify \/ ResetFlush
  BY <1>8 DEF PutPacketNotify, ResetNotify, ResetFlush, DInv, Fed, queueVars
<1>9. CASE ResetPort
  <2>1. <<>> \in Seq(1 .. sent)
    BY EmptySeq
  <2> QED BY <1>9, <2>1 DEF ResetPort, DInv, Fed, userVars
<1>10. CASE PreparePacket \/ PutEos
  <2>1. port # <<>> /\ port' = Tail(port)
    BY <1>10 DEF PreparePacket, PutEos
  <2>2. Tail(port) \in Seq(1 .. sent)
    BY <2>1 DEF DInv, Fed
  <2> QED BY <1>10, <2>1, <2>2 DEF PreparePacket, PutEos, DInv, Fed, userVars
<1>11. CASE UNCHANGED vars
  <2>1. Left
    BY <1>11 DEF vars, queueVars, groupVars, infoVars, cmdVars, resetVars, halVars, userVars, historyVars
  <2> QED BY <2>1 DEF DInv, Fed
<1> QED BY <1>1, <1>2, <1>3, <1>4, <1>5, <1>6, <1>7, <1>8, <1>9, <1>10, <1>11 DEF Next,
       GoOn, FeederGoesOn, Drainer, Parser, Hal

\* To the parser's task.
LEMMA ParsesStep == DInv /\ [Next]_vars => Parses'
<1> SUFFICES ASSUME DInv, [Next]_vars PROVE Parses'
  OBVIOUS
<1> DEFINE Left == /\ UNCHANGED <<tk, ref, sent>>
                   /\ ppc' = ppc \/ (ppc \in {"check", "asleep"} /\ ppc' \in {"work", "asleep"})
                         \/ (ppc = "work" /\ ppc' \in {"check", "reset"})
<1>1. CASE PutPacketNotify \/ ResetStart \/ ResetNotify \/ ResetFlush \/ GetFrame \/ (\E p
         \in held : ReleaseFrame(p))
  <2>1. Left
    BY <1>1 DEF PutPacketNotify, Notify, ResetStart, ResetNotify, ResetFlush, GetFrame,
       ReleaseFrame, queueVars, groupVars, infoVars, cmdVars, resetVars, halVars,
       userVars, historyVars
  <2> QED BY <2>1 DEF DInv, Parses
<1>2. CASE ControlSend \/ ControlNotify \/ ControlDone \/ CheckTaskWait \/ ProcessControl
         \/ ResetPort
  <2>1. Left
    BY <1>2 DEF ControlSend, ControlNotify, Notify, ControlDone, CheckTaskWait,
       ProcessControl, ResetPort, WakeHal, queueVars, groupVars, infoVars, cmdVars,
       resetVars, halVars, userVars, historyVars
  <2> QED BY <2>1 DEF DInv, Parses
<1>3. CASE HalRun \/ HalStatus \/ HalClear \/ HalPush \/ HalPushed \/ HalNotify
  <2>1. Left
    BY <1>3 DEF HalRun, HalStatus, HalClear, Notify, HalPush, HalPushed, HalNotify,
       queueVars, groupVars, infoVars, cmdVars, resetVars, halVars, userVars, historyVars
  <2> QED BY <2>1 DEF DInv, Parses
<1>4. CASE HalReset \/ HalSleep
  <2>1. Left
    BY <1>4 DEF HalReset, HalSleep, queueVars, groupVars, infoVars, cmdVars, resetVars,
       halVars, userVars, historyVars
  <2> QED BY <2>1 DEF DInv, Parses
<1>5. CASE PutPacket
  BY <1>5 DEF PutPacket, DInv, Fed, Parses
<1>6. CASE ResetParser
  <2>1. tk' = NoTask /\ ref' = 0 /\ ppc' = "check"
    BY <1>6 DEF ResetParser
  <2> QED BY <2>1, NoTaskTyped DEF NoTask, Parses
<1>7. CASE NoTaskLeft \/ NoPacket \/ WaitInfo \/ WaitBuffer \/ WaitMatch \/ SlotForParsed
  <2>1. UNCHANGED <<ref, sent>> /\ ppc' \in {"check", "info"} /\ (ppc' = "info" => tk.parsed /\ ppc = "slot")
    BY <1>7 DEF NoTaskLeft, NoPacket, WaitInfo, WaitBuffer, WaitMatch, SlotForParsed, userVars
  <2>2. tk \in ParserTasks /\ tk.wait \in SUBSET WaitBits
    BY DEF DInv, Parses, ParserTasks
  <2>3. tk' \in ParserTasks
    <3>1. {"pkt", "info", "buf", "match", "hnd", "slot"} \subseteq WaitBits
      BY DEF WaitBits
    <3>2. CASE NoTaskLeft
      <4>1. tk' = [tk EXCEPT !.wait = tk.wait \cup {"hnd"}]
        BY <3>2, <2>2 DEF NoTaskLeft
      <4> QED BY <4>1, <2>2, <3>1, WaitTyped
    <3>3. CASE NoPacket
      <4>1. tk' = [[tk EXCEPT !.hnd = TRUE] EXCEPT !.wait = (tk.wait \ {"hnd"}) \cup {"pkt"}]
        BY <3>3, <2>2 DEF NoPacket, WithTask, ParserTasks
      <4>2. [tk EXCEPT !.hnd = TRUE] \in ParserTasks
        BY <2>2 DEF ParserTasks
      <4>3. (tk.wait \ {"hnd"}) \cup {"pkt"} \in SUBSET WaitBits
        BY <2>2, <3>1
      <4> QED BY <4>1, <4>2, <4>3, <3>1, WaitTyped
    <3>4. CASE WaitInfo
      <4>1. tk' = [tk EXCEPT !.wait = tk.wait \cup {"info"}]
        BY <3>4, <2>2 DEF WaitInfo
      <4> QED BY <4>1, <2>2, <3>1, WaitTyped
    <3>5. CASE WaitBuffer
      <4>1. tk' = [[tk EXCEPT !.infoGen = FALSE] EXCEPT !.wait = (tk.wait \ {"info"}) \cup {"buf"}]
        BY <3>5, <2>2 DEF WaitBuffer, ParserTasks
      <4>2. [tk EXCEPT !.infoGen = FALSE] \in ParserTasks
        BY <2>2 DEF ParserTasks
      <4>3. (tk.wait \ {"info"}) \cup {"buf"} \in SUBSET WaitBits
        BY <2>2, <3>1
      <4> QED BY <4>1, <4>2, <4>3, <3>1, WaitTyped
    <3>6. CASE WaitMatch
      <4>1. tk' = [[tk EXCEPT !.infoGen = FALSE]
                      EXCEPT !.wait = (tk.wait \ {"info", "buf"}) \cup {"match"}]
        BY <3>6, <2>2 DEF WaitMatch, ParserTasks
      <4>2. [tk EXCEPT !.infoGen = FALSE] \in ParserTasks
        BY <2>2 DEF ParserTasks
      <4>3. (tk.wait \ {"info", "buf"}) \cup {"match"} \in SUBSET WaitBits
        BY <2>2, <3>1
      <4> QED BY <4>1, <4>2, <4>3, <3>1, WaitTyped
    <3>7. CASE SlotForParsed
      <4>1. tk' = [tk EXCEPT !.wait = tk.wait \ {"slot"}]
        BY <3>7, <2>2 DEF SlotForParsed
      <4> QED BY <4>1, <2>2, <3>1, WaitTyped
    <3> QED BY <1>7, <3>2, <3>3, <3>4, <3>5, <3>6, <3>7
  <2>4. /\ tk'.curr = tk.curr /\ tk'.copied = tk.copied /\ tk'.parsed = tk.parsed /\ tk'.prev = tk.prev
        /\ tk'.slot = tk.slot /\ tk'.input = tk.input /\ tk'.frm = tk.frm /\ (tk.hnd => tk'.hnd)
    BY <1>7, <2>2 DEF NoTaskLeft, NoPacket, WaitInfo, WaitBuffer, WaitMatch, SlotForParsed,
       WithTask, ParserTasks
  <2> QED BY <2>1, <2>3, <2>4 DEF DInv, Parses
<1>8. CASE TaskWithPacket
  BY <1>8 DEF TaskWithPacket, WithTask, userVars, DInv, Parses, ParserTasks
<1>9. CASE PreparePacket
  <2>1. UNCHANGED <<ref, sent>> /\ ppc' = "prev" /\ ~tk.curr /\ port # <<>>
    BY <1>9 DEF PreparePacket, NeedsPacket, userVars
  <2>2. PICK i \in 1 .. TaskCount :
            tk' = [WithTask EXCEPT !.wait = @ \ {"pkt"}, !.frm = Head(port), !.curr = TRUE,
                                   !.eos = stream[Head(port)].eos, !.input = i, !.copied = TRUE]
    BY <1>9 DEF PreparePacket
  <2>3. Head(port) \in 1 .. sent
    BY <2>1 DEF DInv, Fed
  <2>4. stream[Head(port)].eos \in BOOLEAN
    BY <2>3, PacketFields DEF DInv
  <2> DEFINE p == Head(port)
             eos == stream[Head(port)].eos
  <2> HIDE DEF p, eos
  <2>5. tk' \in ParserTasks
    <3>1. p \in Nat /\ eos \in BOOLEAN /\ tk \in ParserTasks
      BY <2>3, <2>4 DEF p, eos, DInv, Parses, Fed
    <3>2. tk' = [[tk EXCEPT !.hnd = TRUE, !.frm = p, !.curr = TRUE, !.eos = eos, !.input = i,
                            !.copied = TRUE] EXCEPT !.wait = (tk.wait \ {"hnd"}) \ {"pkt"}]
      BY <2>2, <3>1 DEF WithTask, ParserTasks, p, eos
    <3>3. [tk EXCEPT !.hnd = TRUE, !.frm = p, !.curr = TRUE, !.eos = eos, !.input = i,
                     !.copied = TRUE] \in ParserTasks
      <4>1. i \in 0 .. TaskCount
        BY CountAssumption
      <4> QED BY <3>1, <4>1 DEF ParserTasks
    <3>4. (tk.wait \ {"hnd"}) \ {"pkt"} \in SUBSET WaitBits
      <4>1. tk.wait \in SUBSET WaitBits
        BY <3>1 DEF ParserTasks
      <4> QED BY <4>1
    <3>5. "pkt" \in WaitBits
      BY DEF WaitBits
    <3> QED BY <3>2, <3>3, <3>4, <3>5, WaitTyped
  <2>6. tk'.curr /\ tk'.copied /\ tk'.hnd /\ tk'.frm = p /\ tk'.input = i /\ tk'.parsed = tk.parsed
    BY <2>2 DEF WithTask, DInv, Parses, ParserTasks, p
  <2> QED BY <2>1, <2>3, <2>5, <2>6 DEF DInv, Parses, p
<1>10. CASE PutEos
  BY <1>10 DEF PutEos, WithTask, NeedsPacket, userVars, DInv, Parses, ParserTasks
<1>11. CASE WaitPrevious
  <2>1. UNCHANGED <<ref, sent>> /\ ppc = "prev" /\ ppc' \in {"slot", "check"}
    BY <1>11 DEF WaitPrevious, userVars
  <2>2. PICK w : w \subseteq WaitBits /\ tk' = [tk EXCEPT !.prev = PreviousDone, !.wait = w]
    BY <1>11 DEF WaitPrevious, WaitBits, DInv, Parses, ParserTasks
  <2>3. PreviousDone \in BOOLEAN /\ (tk.prev => PreviousDone)
    BY DEF PreviousDone, DInv, Parses, ParserTasks
  <2> QED BY <2>1, <2>2, <2>3 DEF DInv, Parses, ParserTasks
<1>12. CASE ParseNothing \/ PutFrame
  <2>1. UNCHANGED <<ref, sent>> /\ ppc' = "check"
    BY <1>12 DEF ParseNothing, PutFrame, userVars
  <2>2. tk' \in ParserTasks
    <3>1. PICK q \in BOOLEAN, w \in SUBSET WaitBits : tk' = [[NoTask EXCEPT !.prev = q] EXCEPT !.wait = w]
      <4>1. tk.prev \in BOOLEAN /\ tk.wait \in SUBSET WaitBits
        BY DEF DInv, Parses, ParserTasks
      <4>2. tk.wait \ {"slot"} \in SUBSET WaitBits /\ tk.wait \ {"info", "buf", "match"} \in SUBSET WaitBits
        BY <4>1
      <4>3. CASE ParseNothing
        BY <4>1, <4>2, <4>3 DEF ParseNothing, NoTask
      <4>4. CASE PutFrame
        BY <4>1, <4>2, <4>4 DEF PutFrame, NoTask
      <4> QED BY <1>12, <4>3, <4>4
    <3>2. [NoTask EXCEPT !.prev = q] \in ParserTasks /\ "slot" \in WaitBits
      BY NoTaskTyped DEF ParserTasks, WaitBits
    <3> QED BY <3>1, <3>2, WaitTyped
  <2>3. tk'.curr = FALSE /\ tk'.copied = FALSE /\ tk'.parsed = FALSE
    BY <1>12 DEF ParseNothing, PutFrame, NoTask
  <2> QED BY <2>1, <2>2, <2>3 DEF DInv, Parses
<1>13. CASE ParsePicture
  <2>1. PICK s : /\ s = CHOOSE x \in UnusedSlots : \A y \in UnusedSlots : x <= y
                 /\ ref' = s /\ UNCHANGED sent /\ ppc = "slot" /\ ppc' = "info"
    BY <1>13 DEF ParsePicture, userVars
  <2>2. s \in Slots
    BY <1>13, <2>1, LeastUnused DEF ParsePicture, UnusedSlots
  <2>3. PICK r \in {0, ref} :
            tk' = [tk EXCEPT !.parsed = TRUE, !.slot = s, !.ref = r,
                             !.rfrm = IF r = 0 THEN 0 ELSE slots[r].frame, !.wait = @ \ {"slot"}]
    BY <1>13, <2>1 DEF ParsePicture
  <2>4. r # 0 => slots[r].frame \in Nat
    BY DEF DInv, Parses, Flags, Tables, Entries
  <2>5. tk.hnd /\ tk.curr /\ tk.prev
    BY <2>1 DEF DInv, Parses, IInv, Handshake
  <2> DEFINE rf == IF r = 0 THEN 0 ELSE slots[r].frame
  <2>6. rf \in Nat /\ r \in Slots \cup {0} /\ tk \in ParserTasks
    BY <2>4 DEF DInv, Parses
  <2> HIDE DEF rf
  <2>7. tk' \in ParserTasks
    BY <2>2, <2>3, <2>6 DEF ParserTasks, rf
  <2>8. /\ tk'.curr = tk.curr /\ tk'.copied = tk.copied /\ tk'.parsed /\ tk'.prev = tk.prev
        /\ tk'.slot = s /\ tk'.input = tk.input /\ tk'.frm = tk.frm /\ tk'.hnd = tk.hnd
    BY <2>3 DEF DInv, Parses, ParserTasks
  <2>9. s # 0
    BY <2>2, CountAssumption DEF Slots
  <2> QED BY <2>1, <2>2, <2>5, <2>7, <2>8, <2>9 DEF DInv, Parses
<1>14. CASE PutInfo
  BY <1>14 DEF PutInfo, DInv, Parses, ParserTasks, userVars
<1>15. CASE UNCHANGED vars
  <2>1. Left
    BY <1>15 DEF vars, queueVars, groupVars, infoVars, cmdVars, resetVars, halVars, userVars, historyVars
  <2> QED BY <2>1 DEF DInv, Parses
<1> QED BY <1>1, <1>2, <1>3, <1>4, <1>5, <1>6, <1>7, <1>8, <1>9, <1>10, <1>11, <1>12,
       <1>13, <1>14, <1>15 DEF Next, GoOn, FeederGoesOn, Drainer, Parser, Hal

\* To the tasks of the group.
LEMMA GroupStep == DInv /\ [Next]_vars => Group'
<1> SUFFICES ASSUME DInv, [Next]_vars PROVE Group'
  OBVIOUS
<1> DEFINE Left == UNCHANGED <<sent, proc, idle, done, hpc, cur>> /\ (tk'.hnd => tk.hnd \/ idle > 0)
<1>1. CASE PutPacketNotify \/ ResetStart \/ ResetNotify \/ ResetFlush \/ GetFrame \/ (\E p
         \in held : ReleaseFrame(p))
  <2>1. Left
    BY <1>1 DEF PutPacketNotify, Notify, ResetStart, ResetNotify, ResetFlush, GetFrame,
       ReleaseFrame, queueVars, groupVars, infoVars, cmdVars, resetVars, halVars,
       userVars, historyVars, HasTask, NeedsPacket, DInv, Parses, ParserTasks
  <2> QED BY <2>1 DEF DInv, Group
<1>2. CASE ControlSend \/ ControlNotify \/ ControlDone \/ CheckTaskWait \/ ProcessControl
         \/ NoTaskLeft
  <2>1. Left
    BY <1>2 DEF ControlSend, ControlNotify, Notify, ControlDone, CheckTaskWait,
       ProcessControl, NoTaskLeft, Working, queueVars, groupVars, infoVars, cmdVars,
       resetVars, halVars, userVars, historyVars, HasTask, NeedsPacket, DInv, Parses,
       ParserTasks
  <2> QED BY <2>1 DEF DInv, Group
<1>3. CASE TaskWithPacket \/ NoPacket \/ PreparePacket \/ SlotForParsed \/ ParsePicture \/
         WaitInfo
  <2>1. Left
    BY <1>3 DEF TaskWithPacket, Working, WithTask, NoPacket, PreparePacket, SlotForParsed,
       ParsePicture, WaitInfo, queueVars, groupVars, infoVars, cmdVars, resetVars,
       halVars, userVars, historyVars, HasTask, NeedsPacket, DInv, Parses, ParserTasks
  <2> QED BY <2>1 DEF DInv, Group
<1>4. CASE WaitBuffer \/ WaitMatch \/ HalPush
  <2>1. Left
    BY <1>4 DEF WaitBuffer, WaitMatch, HalPush, queueVars, groupVars, infoVars, cmdVars, resetVars,
       halVars, userVars, historyVars, HasTask, NeedsPacket, DInv, Parses, ParserTasks
  <2> QED BY <2>1 DEF DInv, Group
<1>5. CASE PutPacket
  <2>1. UNCHANGED <<tk, hpc, cur, idle, done, proc>> /\ sent' = sent + 1
    BY <1>5 DEF PutPacket, groupVars, halVars
  <2>2. SentTasks(sent) \subseteq SentTasks(sent + 1)
    BY SentMore DEF DInv, Fed
  <2>3. proc \in Seq(SentTasks(sent + 1))
    BY <2>2, SeqMonotonic DEF DInv, Group
  <2> QED BY <2>1, <2>2, <2>3 DEF DInv, Group
<1>6. CASE ResetPort \/ HalSleep
  <2>1. UNCHANGED <<tk, cur, idle, done, proc, sent>> /\ hpc' \in {hpc, "get", "asleep"}
    BY <1>6 DEF ResetPort, WakeHal, HalSleep, groupVars, userVars
  <2> QED BY <2>1 DEF DInv, Group
<1>7. CASE ResetParser
  <2>1. UNCHANGED <<hpc, cur, idle, done, proc, sent>> /\ tk' = NoTask
    BY <1>7 DEF ResetParser, groupVars, halVars, userVars
  <2> QED BY <2>1 DEF DInv, Group, NoTask
<1>8. CASE PutEos
  <2> DEFINE t == [tk EXCEPT !.frm = Head(port), !.eos = TRUE]
  <2>1. /\ UNCHANGED <<cur, done, sent>> /\ tk'.hnd = FALSE /\ PutTask("eos", t) /\ port # <<>>
        /\ HasTask
    BY <1>8 DEF PutEos, WithTask, NeedsPacket, userVars, DInv, Parses, ParserTasks
  <2>2. Head(port) \in 1 .. sent
    BY <2>1 DEF DInv, Fed
  <2>3. TaskInfo("eos", t) \in SentTasks(sent)
    <3>1. t \in ParserTasks /\ t.frm = Head(port) /\ sent \in Nat
      <4>1. tk \in ParserTasks /\ sent \in Nat
        BY StreamLength DEF DInv, Parses
      <4> DEFINE p == Head(port)
      <4>2. p \in Nat
        BY <2>2, <4>1
      <4> HIDE DEF p
      <4> QED BY <4>1, <4>2 DEF ParserTasks, p
    <3> HIDE DEF t
    <3> QED BY <2>2, <3>1, SentTask
  <2>4. idle > 0
    BY <2>1 DEF HasTask, DInv, Group
  <2> HIDE DEF t
  <2> QED BY <2>1, <2>3, <2>4, PutTaskSeq DEF DInv, Group
<1>9. CASE ParseNothing
  <2>1. UNCHANGED <<cur, done, sent>> /\ tk'.hnd = FALSE /\ ppc = "slot"
    BY <1>9 DEF ParseNothing, NoTask, userVars
  <2>2. tk.hnd /\ tk.curr /\ idle > 0
    BY <2>1 DEF DInv, Parses, Group
  <2>3. CASE tk.eos
    <3>1. PutTask("eos", tk)
      BY <1>9, <2>3 DEF ParseNothing
    <3>2. TaskInfo("eos", tk) \in SentTasks(sent)
      BY <2>2, SentTask DEF DInv, Parses, Fed
    <3> QED BY <2>1, <2>2, <3>1, <3>2, PutTaskSeq DEF DInv, Group
  <2>4. CASE ~tk.eos
    <3>1. UNCHANGED <<proc, idle, hpc>>
      BY <1>9, <2>4 DEF ParseNothing
    <3> QED BY <2>1, <3>1 DEF DInv, Group
  <2> QED BY <2>3, <2>4
<1>10. CASE PutInfo
  <2> DEFINE t == InfoWithoutEos
  <2>1. /\ UNCHANGED <<cur, done, sent>> /\ tk'.hnd = FALSE /\ PutTask("info", t) /\ ppc = "info"
    BY <1>10 DEF PutInfo, userVars, DInv, Parses, ParserTasks
  <2>2. tk.hnd /\ tk.curr /\ idle > 0
    BY <2>1 DEF DInv, Parses, Group
  <2>3. TaskInfo("info", t) \in SentTasks(sent)
    <3>1. t \in ParserTasks /\ t.frm = tk.frm /\ sent \in Nat
      BY <2>2, StreamLength DEF InfoWithoutEos, DInv, Parses, ParserTasks
    <3> HIDE DEF t
    <3>2. t.frm \in 1 .. sent
      BY <2>2, <3>1 DEF DInv, Parses
    <3> QED BY <3>1, <3>2, SentTask
  <2> HIDE DEF t
  <2> QED BY <2>1, <2>2, <2>3, PutTaskSeq DEF DInv, Group
<1>11. CASE PutFrame
  <2>1. UNCHANGED <<cur, done, sent>> /\ tk'.hnd = FALSE /\ PutTask("frame", tk) /\ ppc = "info"
    BY <1>11 DEF PutFrame, NoTask, userVars
  <2>2. tk.hnd /\ tk.curr /\ idle > 0 /\ tk.slot # 0
    BY <2>1 DEF DInv, Parses, Group
  <2>3. TaskInfo("frame", tk) \in SentTasks(sent)
    BY <2>2, SentTask DEF DInv, Parses, Fed
  <2>4. /\ proc' \in Seq(SentTasks(sent)) /\ Len(proc') = Len(proc) + 1
        /\ proc' # <<>> /\ (proc # <<>> => proc'[1] = proc[1])
        /\ idle' = idle - 1 /\ hpc' = IF hpc = "asleep" THEN "get" ELSE hpc
    BY <2>1, <2>3, PutTaskSeq DEF DInv, Group
  <2> QED BY <2>1, <2>2, <2>4 DEF DInv, Group
<1>12. CASE WaitPrevious
  <2>1. /\ UNCHANGED <<hpc, cur, proc, sent>> /\ ppc = "prev"
        /\ \/ UNCHANGED <<idle, done>>
           \/ done > 0 /\ done' = done - 1 /\ idle' = idle + 1
    BY <1>12 DEF WaitPrevious, halVars, userVars
  <2> QED BY <2>1 DEF DInv, Parses, Group
<1>13. CASE HalRun
  <2>1. /\ UNCHANGED <<proc, idle, done, tk, sent>> /\ proc # <<>> /\ cur' = Head(proc)
        /\ hpc' = IF Head(proc).kind = "frame" THEN "status" ELSE "push"
    BY <1>13 DEF HalRun, groupVars, userVars
  <2>2. Head(proc) = proc[1] /\ proc[1] \in SentTasks(sent)
    BY <2>1, HeadTailProperties, EmptySeq DEF DInv, Group
  <2> QED BY <2>1, <2>2 DEF DInv, Group
<1>14. CASE HalStatus
  <2>1. /\ UNCHANGED <<idle, tk, cur, sent>> /\ proc' = Tail(proc) /\ done' = done + 1
        /\ hpc = "status" /\ hpc' = "clear"
    BY <1>14 DEF HalStatus, Processed, userVars
  <2>2. proc # <<>>
    BY <2>1 DEF DInv, Group
  <2>3. Tail(proc) \in Seq(SentTasks(sent)) /\ Len(Tail(proc)) = Len(proc) - 1
    BY <2>2, HeadTailProperties DEF DInv, Group
  <2> QED BY <2>1, <2>3 DEF DInv, Group
<1>15. CASE HalClear
  <2>1. UNCHANGED <<proc, idle, done, tk, cur, sent>> /\ hpc = "clear" /\ hpc' = "push"
    BY <1>15 DEF HalClear, Notify, groupVars, userVars
  <2>2. cur.kind = "frame"
    BY <2>1 DEF DInv, IInv, AtWork
  <2> QED BY <2>1, <2>2 DEF DInv, Group
<1>16. CASE HalPushed
  <2>1. /\ UNCHANGED <<done, tk, cur, sent>> /\ proc' = Tail(proc) /\ idle' = idle + 1
        /\ hpc = "push" /\ cur.kind # "frame" /\ hpc' = "notify"
    BY <1>16 DEF HalPushed, userVars
  <2>2. proc # <<>>
    BY <2>1 DEF DInv, Group
  <2>3. Tail(proc) \in Seq(SentTasks(sent)) /\ Len(Tail(proc)) = Len(proc) - 1
    BY <2>2, HeadTailProperties DEF DInv, Group
  <2> QED BY <2>1, <2>3 DEF DInv, Group
<1>17. CASE HalNotify
  <2>1. UNCHANGED <<proc, idle, done, tk, sent>> /\ hpc' = "get"
    BY <1>17 DEF HalNotify, Notify, groupVars, userVars
  <2> QED BY <2>1 DEF DInv, Group
<1>18. CASE HalReset
  <2>1. /\ UNCHANGED <<proc, tk, cur, hpc, sent>> /\ hpc = "get"
        /\ idle' = idle + done /\ done' = 0
    BY <1>18 DEF HalReset, halVars, userVars
  <2> QED BY <2>1 DEF DInv, Group
<1>19. CASE UNCHANGED vars
  <2>1. Left
    BY <1>19 DEF vars, queueVars, groupVars, infoVars, cmdVars, resetVars, halVars, userVars,
                 historyVars, HasTask, NeedsPacket, DInv, Parses, ParserTasks
  <2> QED BY <2>1 DEF DInv, Group
<1> QED BY <1>1, <1>2, <1>3, <1>4, <1>5, <1>6, <1>7, <1>8, <1>9, <1>10, <1>11, <1>12,
       <1>13, <1>14, <1>15, <1>16, <1>17, <1>18, <1>19 DEF Next, GoOn, FeederGoesOn,
       Drainer, Parser, Hal

\* To a reset.
LEMMA ResetsStep == DInv /\ [Next]_vars => Resets'
<1> SUFFICES ASSUME DInv, [Next]_vars PROVE Resets'
  OBVIOUS
<1> DEFINE Left == /\ UNCHANGED <<port, fpc, hpc, resetFlag, halReset, halSem, parserSem>>
                   /\ ppc' = "reset" => ppc = "reset"
<1>1. CASE GetFrame \/ (\E p \in held : ReleaseFrame(p)) \/ ControlSend \/ ControlNotify
         \/ ControlDone \/ CheckTaskWait
  <2>1. Left
    BY <1>1 DEF GetFrame, Notify, ReleaseFrame, ControlSend, ControlNotify, ControlDone,
       CheckTaskWait, queueVars, groupVars, infoVars, cmdVars, resetVars, halVars,
       userVars, historyVars
  <2> QED BY <2>1 DEF DInv, Resets
<1>2. CASE ProcessControl \/ NoTaskLeft \/ TaskWithPacket \/ NoPacket \/ WaitPrevious \/
         SlotForParsed
  <2>1. Left
    BY <1>2 DEF ProcessControl, NoTaskLeft, Working, TaskWithPacket, WithTask, NoPacket,
       WaitPrevious, SlotForParsed, queueVars, groupVars, infoVars, cmdVars, resetVars,
       halVars, userVars, historyVars
  <2> QED BY <2>1 DEF DInv, Resets
<1>3. CASE ParsePicture \/ WaitInfo \/ WaitBuffer \/ WaitMatch \/ HalPush
  <2>1. Left
    BY <1>3 DEF ParsePicture, WaitInfo, WaitBuffer, WaitMatch, HalPush, queueVars, groupVars,
       infoVars, cmdVars, resetVars, halVars, userVars, historyVars
  <2> QED BY <2>1 DEF DInv, Resets
<1>4. CASE PutPacket
  <2>1. UNCHANGED <<ppc, hpc, resetFlag, halReset, halSem, parserSem>> /\ fpc = "free" /\ fpc' = "notify"
    BY <1>4 DEF PutPacket, resetVars, halVars
  <2>2. ppc # "reset"
    BY <2>1 DEF DInv, Resets
  <2> QED BY <2>1, <2>2 DEF DInv, Resets
<1>5. CASE PutPacketNotify
  <2>1. UNCHANGED <<port, hpc, resetFlag, halReset, halSem, parserSem>> /\ fpc = "notify" /\ fpc' = "free"
    BY <1>5 DEF PutPacketNotify, resetVars, halVars
  <2>2. ppc' = "reset" => ppc = "reset"
    BY <1>5 DEF PutPacketNotify, Notify
  <2> QED BY <2>1, <2>2 DEF DInv, Resets
<1>6. CASE ResetStart
  <2>1. /\ UNCHANGED <<port, ppc, hpc, halReset, halSem, parserSem>> /\ fpc = "free" /\ fpc' = "resetNotify"
        /\ resetFlag' = TRUE
    BY <1>6 DEF ResetStart, halVars, queueVars
  <2> QED BY <2>1 DEF DInv, Resets
<1>7. CASE ResetNotify
  <2>1. UNCHANGED <<port, hpc, resetFlag, halReset, halSem, parserSem>> /\ fpc = "resetNotify" /\ fpc' = "resetWait"
    BY <1>7 DEF ResetNotify, resetVars, halVars, queueVars
  <2>2. ppc' = "reset" => ppc = "reset"
    BY <1>7 DEF ResetNotify, Notify
  <2> QED BY <2>1, <2>2 DEF DInv, Resets
<1>8. CASE ResetFlush
  <2>1. /\ UNCHANGED <<port, hpc, resetFlag, halReset, halSem>> /\ fpc = "resetWait" /\ fpc' = "free"
        /\ parserSem > 0 /\ parserSem' = parserSem - 1
    BY <1>8 DEF ResetFlush, halVars, queueVars
  <2>2. ppc' = "reset" => ppc = "reset"
    BY <1>8 DEF ResetFlush, Notify
  <2> QED BY <2>1, <2>2 DEF DInv, Resets
<1>9. CASE ResetPort
  <2>1. /\ UNCHANGED <<fpc, resetFlag, halSem, parserSem>> /\ port' = <<>> /\ halReset' = TRUE
        /\ hpc' = (IF hpc = "asleep" THEN "get" ELSE hpc) /\ resetFlag
    BY <1>9 DEF ResetPort, WakeHal, userVars
  <2> QED BY <2>1 DEF DInv, Resets
<1>10. CASE ResetParser
  <2>1. /\ UNCHANGED <<port, hpc, fpc, halReset>> /\ ppc = "reset" /\ ppc' = "check"
        /\ fpc # "resetNotify" /\ halSem > 0 /\ halSem' = halSem - 1
        /\ resetFlag' = FALSE /\ parserSem' = parserSem + 1
    BY <1>10 DEF ResetParser, halVars, queueVars, userVars
  <2>2. halSem = 1
    BY <2>1 DEF DInv, IInv, ResetAnswer
  <2>3. resetFlag /\ parserSem = 0 /\ fpc = "resetWait"
    BY <2>1 DEF DInv, Resets
  <2>4. /\ halSem' = 0 /\ parserSem' = 1 /\ fpc' = "resetWait" /\ ppc' = "check" /\ ~resetFlag'
    BY <2>1, <2>2, <2>3
  <2>5. resetFlag' \in BOOLEAN
    BY <2>1, Zenon
  <2> QED BY <2>1, <2>4, <2>5 DEF DInv, Resets
<1>11. CASE PreparePacket \/ PutEos \/ PutInfo \/ PutFrame \/ ParseNothing
  <2>1. /\ UNCHANGED <<fpc, resetFlag, halReset, halSem, parserSem>> /\ ppc' # "reset"
        /\ hpc' \in {hpc, IF hpc = "asleep" THEN "get" ELSE hpc}
    BY <1>11 DEF PreparePacket, PutEos, PutInfo, PutFrame, ParseNothing, PutTask, WakeHal,
       resetVars, userVars, halVars
  <2> QED BY <2>1 DEF DInv, Resets
<1>12. CASE HalSleep
  <2>1. UNCHANGED <<port, fpc, ppc, resetFlag, halReset, halSem, parserSem>> /\ ~halReset /\ hpc' = "asleep"
    BY <1>12 DEF HalSleep, queueVars, resetVars, userVars
  <2> QED BY <2>1 DEF DInv, Resets
<1>13. CASE HalRun
  <2>1. /\ UNCHANGED <<port, fpc, ppc, resetFlag, halReset, halSem, parserSem>> /\ proc # <<>>
        /\ hpc' \in {"status", "push"}
    BY <1>13 DEF HalRun, queueVars, resetVars, userVars
  <2>2. halSem = 0
    BY <2>1 DEF DInv, IInv, ResetAnswer
  <2> QED BY <2>1, <2>2 DEF DInv, Resets
<1>14. CASE HalStatus \/ HalClear \/ HalPushed \/ HalNotify
  <2>1. /\ UNCHANGED <<port, fpc, resetFlag, halReset, halSem, parserSem>> /\ hpc \notin {"get", "asleep"}
        /\ hpc' # "asleep" /\ (ppc' = "reset" => ppc = "reset")
    BY <1>14 DEF HalStatus, HalClear, HalPushed, HalNotify, Notify, queueVars, resetVars, userVars
  <2> QED BY <2>1 DEF DInv, Resets
<1>15. CASE HalReset
  <2>1. /\ UNCHANGED <<port, fpc, ppc, hpc, resetFlag, parserSem>> /\ hpc = "get"
        /\ halReset /\ halReset' = FALSE /\ halSem' = halSem + 1
    BY <1>15 DEF HalReset, halVars, queueVars, userVars
  <2>2. halSem = 0
    BY <2>1 DEF DInv, IInv, ResetAnswer
  <2> QED BY <2>1, <2>2 DEF DInv, Resets
<1>16. CASE UNCHANGED vars
  <2>1. Left
    BY <1>16 DEF vars, queueVars, groupVars, infoVars, cmdVars, resetVars, halVars, userVars, historyVars
  <2> QED BY <2>1 DEF DInv, Resets
<1> QED BY <1>1, <1>2, <1>3, <1>4, <1>5, <1>6, <1>7, <1>8, <1>9, <1>10, <1>11, <1>12,
       <1>13, <1>14, <1>15, <1>16 DEF Next, GoOn, FeederGoesOn, Drainer, Parser, Hal

-----------------------------------------------------------------------------
(* Flags of slots *)

\* An entry that is used while one of its flags is set.
Consistent(e) == e \in Entries /\ (e.used <=> e.codec \/ e.queued \/ e.hout \/ e.hin > 0)

\* Entry r is e after some flags were cleared: while it is used it keeps its frame.
Keeps(r, e) == r.used => e.used /\ r.frame = e.frame /\ r.buf = e.buf

\* check_entry_unused, after flags of entry e were cleared.
LEMMA ReleasedEntry ==
    ASSUME NEW e, Consistent(e), NEW d \in Entries,
           d.used = e.used, d.frame = e.frame, d.buf = e.buf,
           (d.codec \/ d.queued \/ d.hout \/ d.hin > 0) => e.used
    PROVE  /\ Consistent(Released(d)) /\ Keeps(Released(d), e)
           /\ Released(d).codec = d.codec /\ Released(d).hout = d.hout
           /\ Released(d).hin = d.hin /\ Released(d).queued = d.queued
<1>1. CASE d.used /\ ~d.codec /\ ~d.hout /\ d.hin = 0 /\ ~d.queued
  <2>1. Released(d) = Unused
    BY <1>1 DEF Released
  <2>2. /\ Consistent(Unused) /\ Unused.used = FALSE /\ Unused.codec = FALSE /\ Unused.hout = FALSE
        /\ Unused.hin = 0 /\ Unused.queued = FALSE
    BY DEF Consistent, Unused, Entries
  <2>3. d.codec = FALSE /\ d.hout = FALSE /\ d.hin = 0 /\ d.queued = FALSE
    BY <1>1 DEF Entries
  <2> QED BY <2>1, <2>2, <2>3 DEF Keeps
<1>2. CASE ~(d.used /\ ~d.codec /\ ~d.hout /\ d.hin = 0 /\ ~d.queued)
  <2>1. Released(d) = d
    BY <1>2 DEF Released
  <2>2. Consistent(d)
    BY <1>2 DEF Consistent, Entries
  <2> QED BY <2>1, <2>2 DEF Keeps
<1> QED BY <1>1, <1>2

\* The parser drops its reference.
LEMMA CodecCleared ==
    ASSUME NEW sl \in Tables, NEW s \in Slots \cup {0}
    PROVE  /\ ClearCodecUse(sl, s) \in Tables
           /\ \A x \in Slots : LET e == ClearCodecUse(sl, s)[x] IN
                /\ e.codec <=> sl[x].codec /\ x # s
                /\ e.hout = sl[x].hout /\ e.hin = sl[x].hin /\ e.queued = sl[x].queued
                /\ Keeps(e, sl[x])
<1>1. \A x \in Slots : Consistent(sl[x]) /\ sl \in [Slots -> Entries]
  BY DEF Tables, Consistent
<1>2. CASE s = 0
  BY <1>1, <1>2, CountAssumption DEF ClearCodecUse, Keeps, Slots, Consistent, Entries
<1>3. CASE s # 0
  <2> DEFINE d == [sl[s] EXCEPT !.codec = FALSE]
  <2>1. s \in Slots
    BY <1>3
  <2>2. /\ d \in Entries /\ d.used = sl[s].used /\ d.frame = sl[s].frame /\ d.buf = sl[s].buf
        /\ d.codec = FALSE /\ d.hout = sl[s].hout /\ d.hin = sl[s].hin /\ d.queued = sl[s].queued
    BY <1>1, <2>1 DEF Consistent, Entries
  <2>3. ClearCodecUse(sl, s) = [sl EXCEPT ![s] = Released(d)]
    BY <1>3 DEF ClearCodecUse
  <2> HIDE DEF d
  <2>4. /\ Consistent(Released(d)) /\ Keeps(Released(d), sl[s])
        /\ Released(d).codec = FALSE /\ Released(d).hout = sl[s].hout
        /\ Released(d).hin = sl[s].hin /\ Released(d).queued = sl[s].queued
    BY <1>1, <2>1, <2>2, ReleasedEntry DEF Consistent
  <2> QED BY <1>1, <2>1, <2>3, <2>4 DEF Tables, Consistent, Keeps, Entries
<1> QED BY <1>2, <1>3

\* The picture of slot s is written.
LEMMA OutputCleared ==
    ASSUME NEW sl \in Tables, NEW s \in Slots
    PROVE  /\ ClearHalOutput(sl, s) \in Tables
           /\ \A x \in Slots : LET e == ClearHalOutput(sl, s)[x] IN
                /\ e.hout <=> sl[x].hout /\ x # s
                /\ e.codec = sl[x].codec /\ e.hin = sl[x].hin /\ e.queued = sl[x].queued
                /\ Keeps(e, sl[x])
<1>1. \A x \in Slots : Consistent(sl[x]) /\ sl \in [Slots -> Entries]
  BY DEF Tables, Consistent
<1> DEFINE d == [sl[s] EXCEPT !.hout = FALSE]
<1>2. /\ d \in Entries /\ d.used = sl[s].used /\ d.frame = sl[s].frame /\ d.buf = sl[s].buf
      /\ d.codec = sl[s].codec /\ d.hout = FALSE /\ d.hin = sl[s].hin /\ d.queued = sl[s].queued
  BY <1>1 DEF Consistent, Entries
<1>3. ClearHalOutput(sl, s) = [sl EXCEPT ![s] = Released(d)]
  BY DEF ClearHalOutput
<1> HIDE DEF d
<1>4. /\ Consistent(Released(d)) /\ Keeps(Released(d), sl[s])
      /\ Released(d).codec = sl[s].codec /\ Released(d).hout = FALSE
      /\ Released(d).hin = sl[s].hin /\ Released(d).queued = sl[s].queued
  BY <1>1, <1>2, ReleasedEntry DEF Consistent
<1> QED BY <1>1, <1>3, <1>4 DEF Tables, Consistent, Keeps, Entries

\* The picture of slot s is no longer read by one of those that read it.
LEMMA InputCleared ==
    ASSUME NEW sl \in Tables, NEW s \in Slots \cup {0}, s # 0 => sl[s].hin > 0
    PROVE  /\ ClearHalInput(sl, s) \in Tables
           /\ \A x \in Slots : LET e == ClearHalInput(sl, s)[x] IN
                /\ e.hin = IF x = s THEN sl[x].hin - 1 ELSE sl[x].hin
                /\ e.codec = sl[x].codec /\ e.hout = sl[x].hout /\ e.queued = sl[x].queued
                /\ Keeps(e, sl[x])
<1>1. \A x \in Slots : Consistent(sl[x]) /\ sl \in [Slots -> Entries]
  BY DEF Tables, Consistent
<1>2. CASE s = 0
  BY <1>1, <1>2, CountAssumption DEF ClearHalInput, Keeps, Slots, Consistent, Entries
<1>3. CASE s # 0
  <2> DEFINE d == [sl[s] EXCEPT !.hin = @ - 1]
  <2>1. s \in Slots
    BY <1>3
  <2>2. /\ d \in Entries /\ d.used = sl[s].used /\ d.frame = sl[s].frame /\ d.buf = sl[s].buf
        /\ d.codec = sl[s].codec /\ d.hout = sl[s].hout /\ d.hin = sl[s].hin - 1
        /\ d.queued = sl[s].queued
    BY <1>1, <1>3, <2>1 DEF Consistent, Entries
  <2>3. ClearHalInput(sl, s) = [sl EXCEPT ![s] = Released(d)]
    BY <1>3 DEF ClearHalInput
  <2> HIDE DEF d
  <2>4. (d.codec \/ d.queued \/ d.hout \/ d.hin > 0) => sl[s].used
    BY <1>1, <1>3, <2>1, <2>2 DEF Consistent, Entries
  <2>5. /\ Consistent(Released(d)) /\ Keeps(Released(d), sl[s])
        /\ Released(d).codec = sl[s].codec /\ Released(d).hout = sl[s].hout
        /\ Released(d).hin = sl[s].hin - 1 /\ Released(d).queued = sl[s].queued
    BY <1>1, <2>1, <2>2, <2>4, ReleasedEntry
  <2> QED BY <1>1, <2>1, <2>3, <2>5 DEF Tables, Consistent, Keeps, Entries
<1> QED BY <1>2, <1>3

\* The slots in S leave the display queue.
LEMMA QueueCleared ==
    ASSUME NEW sl \in Tables, NEW S
    PROVE  /\ ClearQueueUse(sl, S) \in Tables
           /\ \A x \in Slots : LET e == ClearQueueUse(sl, S)[x] IN
                /\ e.queued <=> sl[x].queued /\ x \notin S
                /\ e.codec = sl[x].codec /\ e.hout = sl[x].hout /\ e.hin = sl[x].hin
                /\ Keeps(e, sl[x])
<1>1. \A x \in Slots : Consistent(sl[x]) /\ sl \in [Slots -> Entries]
  BY DEF Tables, Consistent
<1>2. ASSUME NEW x \in Slots
      PROVE  LET e == ClearQueueUse(sl, S)[x] IN
                /\ Consistent(e) /\ e \in Entries
                /\ e.queued <=> sl[x].queued /\ x \notin S
                /\ e.codec = sl[x].codec /\ e.hout = sl[x].hout /\ e.hin = sl[x].hin
                /\ Keeps(e, sl[x])
  <2> DEFINE d == [sl[x] EXCEPT !.queued = FALSE]
  <2>1. /\ d \in Entries /\ d.used = sl[x].used /\ d.frame = sl[x].frame /\ d.buf = sl[x].buf
        /\ d.codec = sl[x].codec /\ d.hout = sl[x].hout /\ d.hin = sl[x].hin /\ d.queued = FALSE
    BY <1>1 DEF Consistent, Entries
  <2>2. ClearQueueUse(sl, S)[x] = IF x \in S THEN Released(d) ELSE sl[x]
    BY DEF ClearQueueUse
  <2> HIDE DEF d
  <2>3. /\ Consistent(Released(d)) /\ Keeps(Released(d), sl[x])
        /\ Released(d).codec = sl[x].codec /\ Released(d).hout = sl[x].hout
        /\ Released(d).hin = sl[x].hin /\ Released(d).queued = FALSE
    BY <1>1, <2>1, ReleasedEntry DEF Consistent
  <2> QED BY <1>1, <2>2, <2>3 DEF Consistent, Keeps
<1>3. ClearQueueUse(sl, S) \in [Slots -> Entries]
  BY <1>2 DEF ClearQueueUse
<1> QED BY <1>2, <1>3 DEF Tables, Consistent

\* Nothing leaves it.
LEMMA QueueKept ==
    ASSUME NEW sl \in Tables
    PROVE  ClearQueueUse(sl, {}) = sl
BY DEF ClearQueueUse, Tables

\* The parser keeps its reference for the hardware.
LEMMA ReferenceKept ==
    ASSUME NEW sl \in Tables, NEW r \in Slots \cup {0}, r # 0 => sl[r].used
    PROVE  /\ KeepReference(sl, r) \in Tables
           /\ \A x \in Slots : LET e == KeepReference(sl, r)[x] IN
                /\ e.hin = IF x = r THEN sl[x].hin + 1 ELSE sl[x].hin
                /\ e.codec = sl[x].codec /\ e.hout = sl[x].hout /\ e.queued = sl[x].queued
                /\ e.used = sl[x].used /\ e.frame = sl[x].frame /\ e.buf = sl[x].buf
<1>1. \A x \in Slots : Consistent(sl[x]) /\ sl \in [Slots -> Entries]
  BY DEF Tables, Consistent
<1>2. CASE r = 0
  BY <1>1, <1>2, CountAssumption DEF KeepReference, Slots, Consistent, Entries
<1>3. CASE r # 0
  <2> DEFINE d == [sl[r] EXCEPT !.hin = @ + 1]
  <2>1. r \in Slots
    BY <1>3
  <2>2. /\ Consistent(d) /\ d.used = sl[r].used /\ d.frame = sl[r].frame /\ d.buf = sl[r].buf
        /\ d.codec = sl[r].codec /\ d.hout = sl[r].hout /\ d.hin = sl[r].hin + 1
        /\ d.queued = sl[r].queued
    BY <1>1, <1>3, <2>1 DEF Consistent, Entries
  <2>3. KeepReference(sl, r) = [sl EXCEPT ![r] = d]
    BY <1>1, <1>3, <2>1 DEF KeepReference, Consistent
  <2> HIDE DEF d
  <2> QED BY <1>1, <2>1, <2>2, <2>3 DEF Tables, Consistent, Entries
<1> QED BY <1>2, <1>3

-----------------------------------------------------------------------------
(* Jobs *)

\* A task sent to the hardware thread brings its job, if it has one.
LEMMA JobSent ==
    ASSUME NEW s, IsSeq(s), NEW e
    PROVE  JobsOf(Append(s, e)) = JobsOf(s) \cup (IF e.kind = "frame" THEN {Job(e)} ELSE {})
<1> DEFINE S == {s[i] : i \in DOMAIN s} \cup {e}
           t == Append(s, e)
<1>1. s \in Seq(S)
  BY DEF IsSeq
<1>2. /\ \A i \in DOMAIN s : t[i] = s[i]
      /\ t[Len(s) + 1] = e /\ DOMAIN s = 1 .. Len(s) /\ Len(s) \in Nat
  BY <1>1, AppendProperties, LenProperties
<1>3. Frames(t) = Frames(s) \cup (IF e.kind = "frame" THEN {Len(s) + 1} ELSE {})
  BY AppendSeq
<1>4. Frames(s) \subseteq DOMAIN s
  BY DEF Frames
<1> HIDE DEF t
<1>5. JobsOf(t) = {Job(t[i]) : i \in Frames(s)} \cup (IF e.kind = "frame" THEN {Job(e)} ELSE {})
  BY <1>2, <1>3 DEF JobsOf
<1>6. {Job(t[i]) : i \in Frames(s)} = JobsOf(s)
  BY <1>2, <1>4 DEF JobsOf
<1> QED BY <1>5, <1>6 DEF t

\* The first task taken off leaves the others' jobs.
LEMMA JobTaken ==
    ASSUME NEW s, IsSeq(s), s # <<>>
    PROVE  JobsOf(s) = JobsOf(Tail(s)) \cup (IF s[1].kind = "frame" THEN {Job(s[1])} ELSE {})
<1> DEFINE S == {s[i] : i \in DOMAIN s}
           t == Tail(s)
<1>1. s \in Seq(S)
  BY DEF IsSeq
<1>2. DOMAIN s = 1 .. Len(s) /\ Len(s) \in Nat \ {0}
  BY <1>1, EmptySeq, LenProperties
<1>3. \A i \in 1 .. Len(s) - 1 : t[i] = s[i + 1]
  BY <1>1, HeadTailProperties
<1>4. Frames(t) = {i \in 1 .. Len(s) - 1 : i + 1 \in Frames(s)}
  BY TailSeq
<1> HIDE DEF t
<1>5. ASSUME NEW j \in JobsOf(s) PROVE j \in JobsOf(t) \cup (IF s[1].kind = "frame" THEN {Job(s[1])} ELSE {})
  <2>1. PICK i \in DOMAIN s : s[i].kind = "frame" /\ j = Job(s[i])
    BY <1>5 DEF JobsOf, Frames
  <2>2. CASE i = 1
    BY <2>1, <2>2
  <2>3. CASE i # 1
    <3>1. i - 1 \in 1 .. Len(s) - 1 /\ (i - 1) + 1 = i
      BY <1>2, <2>3
    <3>2. i - 1 \in Frames(t) /\ t[i - 1] = s[i]
      BY <1>3, <1>4, <2>1, <3>1 DEF Frames
    <3> QED BY <2>1, <3>2 DEF JobsOf
  <2> QED BY <2>2, <2>3
<1>6. ASSUME NEW j \in JobsOf(t) PROVE j \in JobsOf(s)
  <2>1. PICK i \in 1 .. Len(s) - 1 : i + 1 \in Frames(s) /\ j = Job(s[i + 1])
    BY <1>3, <1>4, <1>6 DEF JobsOf
  <2> QED BY <2>1 DEF JobsOf
<1>7. s[1].kind = "frame" => Job(s[1]) \in JobsOf(s)
  BY <1>2 DEF JobsOf, Frames
<1> QED BY <1>5, <1>6, <1>7 DEF t

\* Steps that leave slots, jobs and the display queue.
SlotsLeft ==
    /\ UNCHANGED <<slots, display, ref>> /\ sent' \in {sent, sent + 1}
    /\ JobsOf(proc') = JobsOf(proc) /\ ParsedJobs' = ParsedJobs /\ tk'.parsed = tk.parsed
    /\ Clearing' = Clearing /\ (Draining' <=> Draining) /\ (Draining => cur' = cur)

\* The steps that may not.
SlotStep ==
    \/ SlotsLeft \/ ParsePicture \/ PutFrame \/ ResetParser
    \/ HalStatus \/ HalClear \/ HalPush \/ HalNotify \/ HalReset

\* A task sent without a frame brings no job.
LEMMA NoJobSent ==
    ASSUME IInv, NEW kind, kind # "frame", NEW t, PutTask(kind, t)
    PROVE  JobsOf(proc') = JobsOf(proc) /\ hpc' = (IF hpc = "asleep" THEN "get" ELSE hpc)
<1>1. proc' = Append(proc, TaskInfo(kind, t)) /\ TaskInfo(kind, t).kind = kind
  BY DEF PutTask, TaskInfo
<1>2. JobsOf(proc') = JobsOf(proc)
  BY <1>1, JobSent DEF IInv
<1> QED BY <1>2 DEF PutTask, WakeHal

\* The hardware thread between two tasks has nothing to clear or output.
LEMMA HalWakes ==
    ASSUME hpc' \in {hpc, "get", "asleep"}, hpc \in {"get", "asleep"} \/ hpc' = hpc, cur' = cur
    PROVE  Clearing' = Clearing /\ (Draining' <=> Draining)
BY DEF Clearing, Draining

\* A parser that keeps what it parsed keeps its job.
LEMMA JobKept ==
    ASSUME \/ ~tk.parsed /\ ~tk'.parsed
           \/ /\ tk.parsed /\ tk'.parsed /\ tk'.slot = tk.slot /\ tk'.ref = tk.ref
              /\ tk'.frm = tk.frm /\ tk'.rfrm = tk.rfrm
    PROVE  ParsedJobs' = ParsedJobs
BY DEF ParsedJobs, Job

\* Every step is one of these.
LEMMA SlotSteps == DInv /\ [Next]_vars => SlotStep
<1> SUFFICES ASSUME DInv, [Next]_vars PROVE SlotStep
  OBVIOUS
<1> DEFINE Left == UNCHANGED <<slots, display, ref, proc, tk, cur, hpc>> /\ sent' \in {sent, sent + 1}
<1>1. CASE PutPacket \/ PutPacketNotify \/ ResetStart \/ ResetNotify \/ ResetFlush \/
         GetFrame
  <2>1. Left
    BY <1>1 DEF PutPacket, PutPacketNotify, Notify, ResetStart, ResetNotify, ResetFlush,
       GetFrame, queueVars, groupVars, infoVars, cmdVars, resetVars, halVars, userVars,
       historyVars
  <2> QED BY <2>1 DEF SlotStep, SlotsLeft, ParsedJobs, Clearing, Draining
<1>2. CASE (\E p \in held : ReleaseFrame(p)) \/ ControlSend \/ ControlNotify \/
         ControlDone \/ CheckTaskWait \/ ProcessControl
  <2>1. Left
    BY <1>2 DEF ReleaseFrame, Notify, ControlSend, ControlNotify, ControlDone,
       CheckTaskWait, ProcessControl, queueVars, groupVars, infoVars, cmdVars, resetVars,
       halVars, userVars, historyVars
  <2> QED BY <2>1 DEF SlotStep, SlotsLeft, ParsedJobs, Clearing, Draining
<1>3. CASE ParsePicture \/ PutFrame \/ ResetParser \/ HalStatus \/ HalClear \/ HalPush \/
         HalNotify \/ HalReset
  BY <1>3 DEF SlotStep
<1>4. CASE ResetPort \/ HalSleep
  <2>1. /\ UNCHANGED <<slots, display, ref, proc, tk, cur, sent>> /\ hpc' \in {hpc, "get", "asleep"}
        /\ hpc \in {"get", "asleep"} \/ hpc' = hpc
    BY <1>4 DEF ResetPort, WakeHal, HalSleep, groupVars, userVars
  <2> QED BY <2>1, HalWakes DEF SlotStep, SlotsLeft, ParsedJobs
<1>5. CASE NoTaskLeft \/ TaskWithPacket \/ NoPacket \/ WaitPrevious \/ SlotForParsed \/
         WaitInfo \/ WaitBuffer \/ WaitMatch
  <2>1. /\ UNCHANGED <<slots, display, ref, proc, cur, hpc, sent>>
        /\ tk'.parsed = tk.parsed /\ tk'.slot = tk.slot /\ tk'.ref = tk.ref
        /\ tk'.frm = tk.frm /\ tk'.rfrm = tk.rfrm
    BY <1>5 DEF NoTaskLeft, TaskWithPacket, NoPacket, WaitPrevious, SlotForParsed, WaitInfo,
       WaitBuffer, WaitMatch,
       WithTask, groupVars, halVars, userVars, DInv, Parses, ParserTasks
  <2>2. tk.parsed \in BOOLEAN
    BY DEF DInv, Parses, ParserTasks
  <2> QED BY <2>1, <2>2, JobKept, HalWakes DEF SlotStep, SlotsLeft
<1>6. CASE PreparePacket
  <2>1. UNCHANGED <<slots, display, ref, proc, cur, hpc, sent>> /\ ~tk.curr
    BY <1>6 DEF PreparePacket, NeedsPacket, groupVars, halVars, userVars
  <2>2. tk.parsed = FALSE
    BY <2>1 DEF DInv, Parses, ParserTasks
  <2>3. tk'.parsed = tk.parsed
    BY <1>6 DEF PreparePacket, WithTask, DInv, Parses, ParserTasks
  <2> QED BY <2>1, <2>2, <2>3, JobKept, HalWakes DEF SlotStep, SlotsLeft
<1>7. CASE PutEos
  <2>1. UNCHANGED <<slots, display, ref, cur, sent>> /\ ~tk.curr
    BY <1>7 DEF PutEos, NeedsPacket, userVars
  <2>2. tk.parsed = FALSE
    BY <2>1 DEF DInv, Parses, ParserTasks
  <2>3. tk'.parsed = tk.parsed
    BY <1>7 DEF PutEos, WithTask, DInv, Parses, ParserTasks
  <2>4. JobsOf(proc') = JobsOf(proc) /\ hpc' = (IF hpc = "asleep" THEN "get" ELSE hpc)
    BY <1>7, NoJobSent DEF PutEos, DInv
  <2>5. Clearing' = Clearing /\ (Draining' <=> Draining)
    BY <2>1, <2>4, HalWakes
  <2> QED BY <2>1, <2>2, <2>3, <2>4, <2>5, JobKept DEF SlotStep, SlotsLeft
<1>8. CASE PutInfo
  <2>1. UNCHANGED <<slots, display, ref, cur, sent>>
    BY <1>8 DEF PutInfo, userVars
  <2>2. /\ tk'.parsed = tk.parsed /\ tk'.slot = tk.slot /\ tk'.ref = tk.ref
        /\ tk'.frm = tk.frm /\ tk'.rfrm = tk.rfrm /\ tk.parsed \in BOOLEAN
    BY <1>8 DEF PutInfo, DInv, Parses, ParserTasks
  <2>4. JobsOf(proc') = JobsOf(proc) /\ hpc' = (IF hpc = "asleep" THEN "get" ELSE hpc)
    BY <1>8, NoJobSent DEF PutInfo, DInv
  <2>5. Clearing' = Clearing /\ (Draining' <=> Draining)
    BY <2>1, <2>4, HalWakes
  <2> QED BY <2>1, <2>2, <2>4, <2>5, JobKept DEF SlotStep, SlotsLeft
<1>9. CASE ParseNothing
  <2>1. UNCHANGED <<slots, display, ref, cur, sent>> /\ tk.parsed = FALSE /\ tk'.parsed = FALSE
    BY <1>9 DEF ParseNothing, NoTask, userVars, DInv, Parses, ParserTasks
  <2>2. JobsOf(proc') = JobsOf(proc) /\ hpc' \in {hpc, IF hpc = "asleep" THEN "get" ELSE hpc}
    BY <1>9, NoJobSent DEF ParseNothing, DInv
  <2>3. Clearing' = Clearing /\ (Draining' <=> Draining)
    BY <2>1, <2>2, HalWakes
  <2> QED BY <2>1, <2>2, <2>3, JobKept DEF SlotStep, SlotsLeft
<1>10. CASE HalRun
  <2>1. /\ UNCHANGED <<slots, display, ref, proc, tk, sent>> /\ hpc = "get" /\ cur' = Head(proc)
        /\ hpc' = IF Head(proc).kind = "frame" THEN "status" ELSE "push"
    BY <1>10 DEF HalRun, groupVars, userVars
  <2>2. Clearing' = Clearing /\ ~Draining /\ ~Draining'
    BY <2>1 DEF Clearing, Draining
  <2> QED BY <2>1, <2>2 DEF SlotStep, SlotsLeft, ParsedJobs
<1>11. CASE HalPushed
  <2>1. /\ UNCHANGED <<slots, display, ref, tk, cur, sent>> /\ proc' = Tail(proc)
        /\ hpc = "push" /\ cur.kind # "frame" /\ hpc' = "notify"
    BY <1>11 DEF HalPushed, userVars
  <2>2. proc # <<>> /\ cur = proc[1]
    BY <2>1 DEF DInv, Group
  <2>3. JobsOf(proc') = JobsOf(proc)
    BY <2>1, <2>2, JobTaken DEF DInv, IInv
  <2>4. Clearing' = Clearing /\ ~Draining /\ ~Draining'
    BY <2>1 DEF Clearing, Draining
  <2> QED BY <2>1, <2>3, <2>4 DEF SlotStep, SlotsLeft, ParsedJobs
<1>12. CASE UNCHANGED vars
  <2>1. Left
    BY <1>12 DEF vars, queueVars, groupVars, infoVars, cmdVars, resetVars, halVars, userVars, historyVars
  <2> QED BY <2>1 DEF SlotStep, SlotsLeft, ParsedJobs, Clearing, Draining
<1> QED BY <1>1, <1>2, <1>3, <1>4, <1>5, <1>6, <1>7, <1>8, <1>9, <1>10, <1>11, <1>12 DEF
       Next, GoOn, FeederGoesOn, Drainer, Parser, Hal

-----------------------------------------------------------------------------
(* What the steps on slots do to jobs and slots *)

\* A parser at step 7.3 or later has no job with the hardware.
LEMMA NoneSent ==
    ASSUME DInv, ppc \in {"slot", "info"} \/ tk.parsed
    PROVE  JobsOf(proc) = {}
<1>1. tk.prev
  BY DEF DInv, IInv, Handshake, Parses
<1>2. Frames(proc) = {}
  BY <1>1 DEF DInv, IInv, Handshake
<1> QED BY <1>2 DEF JobsOf

\* An empty list of tasks has no jobs.
LEMMA NoJobs == JobsOf(<<>>) = {}
BY NoTasks DEF JobsOf

\* Parsing a picture makes the only pending job: nothing is left with the hardware
\* (h263d_parse).
LEMMA PictureJobs ==
    ASSUME DInv, ParsePicture
    PROVE  /\ Pending = {} /\ Pending' = {Job(tk')} /\ tk'.parsed
           /\ JobsOf(proc) = {} /\ JobsOf(proc') = {}
           /\ UNCHANGED <<hpc, cur, sent>> /\ Clearing' = Clearing /\ (Draining' <=> Draining)
<1>1. UNCHANGED <<proc, hpc, cur, sent>> /\ ppc = "slot" /\ ~tk.parsed /\ ppc' = "info"
  BY DEF ParsePicture, groupVars, halVars, userVars
<1>2. JobsOf(proc) = {} /\ JobsOf(proc') = {}
  BY <1>1, NoneSent
<1>3. tk'.parsed
  BY DEF ParsePicture, DInv, Parses, ParserTasks
<1>4. Pending = {} /\ Pending' = {Job(tk')}
  BY <1>1, <1>2, <1>3 DEF Pending, ParsedJobs
<1> QED BY <1>1, <1>2, <1>3, <1>4 DEF Clearing, Draining

\* The task sent to the hardware thread is the parsed one, and its slot gets a buffer
\* (step 12).
LEMMA FrameJobs ==
    ASSUME DInv, PutFrame
    PROVE  /\ Pending = {Job(tk)} /\ Pending' = Pending /\ JobsOf(proc') = {Job(tk)} /\ ~tk'.parsed
           /\ tk.parsed /\ tk.slot = ref /\ ref \in Slots /\ tk.curr
           /\ UNCHANGED <<display, ref, cur, sent>> /\ Clearing' = Clearing /\ (Draining' <=> Draining)
           /\ slots' = [slots EXCEPT ![tk.slot].buf = TRUE]
<1>1. /\ ppc = "info" /\ PutTask("frame", tk) /\ tk'.parsed = FALSE /\ UNCHANGED <<display, ref, cur, sent>>
      /\ slots' = [slots EXCEPT ![tk.slot].buf = TRUE]
  BY DEF PutFrame, NoTask, userVars
<1>2. tk.parsed /\ tk.slot = ref /\ ref # 0 /\ ref \in Slots \cup {0} /\ tk.curr
  BY <1>1 DEF DInv, Parses
<1>3. JobsOf(proc) = {}
  BY <1>1, NoneSent
<1>4. /\ proc' = Append(proc, TaskInfo("frame", tk)) /\ hpc' = (IF hpc = "asleep" THEN "get" ELSE hpc)
      /\ TaskInfo("frame", tk).kind = "frame" /\ Job(TaskInfo("frame", tk)) = Job(tk)
  BY <1>1 DEF PutTask, WakeHal, TaskInfo, Job
<1>5. JobsOf(proc') = {Job(tk)}
  BY <1>3, <1>4, JobSent DEF DInv, IInv
<1>6. Pending = {Job(tk)} /\ Pending' = Pending
  BY <1>1, <1>2, <1>3, <1>5 DEF Pending, ParsedJobs
<1>7. Clearing' = Clearing /\ (Draining' <=> Draining)
  BY <1>1, <1>4, HalWakes
<1> QED BY <1>1, <1>2, <1>5, <1>6, <1>7

\* The task that is done is the only one; its flags are still to be cleared.
LEMMA StatusJobs ==
    ASSUME DInv, HalStatus
    PROVE  /\ Pending = {Job(cur)} /\ Pending' = {} /\ JobsOf(proc) = {Job(cur)} /\ JobsOf(proc') = {}
           /\ Clearing = {} /\ Clearing' = {Job(cur)} /\ ~Draining /\ Draining'
           /\ UNCHANGED <<slots, display, ref, cur, sent, tk>> /\ ~tk.parsed /\ cur.slot \in Slots
<1>1. /\ proc' = Tail(proc) /\ hpc = "status" /\ hpc' = "clear"
      /\ UNCHANGED <<slots, display, ref, cur, sent, tk>>
  BY DEF HalStatus, Processed, userVars
<1>2. proc # <<>> /\ cur = proc[1] /\ cur.kind = "frame" /\ cur \in SentTasks(sent) /\ IsSeq(proc)
  BY <1>1 DEF DInv, IInv, AtWork, Group
<1>3. Frames(proc) = {1} /\ ~tk.prev
  BY <1>1 DEF DInv, IInv, AtWork, Handshake
<1>4. ~tk.parsed
  BY <1>3 DEF DInv, Parses
<1>5. JobsOf(proc) = {Job(cur)}
  BY <1>2, <1>3 DEF JobsOf
<1>6. Frames(Tail(proc)) = {}
  <2>1. Frames(Tail(proc)) = {i \in 1 .. Len(proc) - 1 : i + 1 \in Frames(proc)}
    BY <1>2, TailSeq
  <2>2. \A i \in 1 .. Len(proc) - 1 : i + 1 # 1
    BY <1>2 DEF IsSeq
  <2> QED BY <1>3, <2>1, <2>2
<1>7. JobsOf(proc') = {}
  BY <1>1, <1>6 DEF JobsOf
<1>8. cur.slot \in Slots
  BY <1>2 DEF SentTasks, Tasks
<1> QED BY <1>1, <1>2, <1>4, <1>5, <1>7, <1>8 DEF Pending, ParsedJobs, Clearing, Draining

\* At the end of a reset only a parsed task can be pending, and it is given up.
LEMMA ResetJobs ==
    ASSUME DInv, ResetParser
    PROVE  /\ Pending = ParsedJobs /\ Pending' = {} /\ JobsOf(proc) = {} /\ JobsOf(proc') = {}
           /\ Clearing = {} /\ Clearing' = {} /\ ~Draining /\ ~Draining'
           /\ ref' = 0 /\ UNCHANGED <<cur, sent>> /\ ~tk'.parsed
<1>1. UNCHANGED <<proc, hpc, cur, sent>> /\ tk' = NoTask /\ ref' = 0 /\ halSem > 0
  BY DEF ResetParser, groupVars, halVars, userVars
<1>2. proc = <<>> /\ hpc \in {"get", "asleep"} /\ tk'.parsed = FALSE
  BY <1>1 DEF DInv, IInv, ResetAnswer, Resets, NoTask
<1>3. JobsOf(proc) = {} /\ JobsOf(proc') = {}
  BY <1>1, <1>2, NoJobs
<1> QED BY <1>1, <1>2, <1>3 DEF Pending, ParsedJobs, Clearing, Draining

\* Clearing the flags of the task done leaves the pending job alone.
LEMMA ClearJobs ==
    ASSUME DInv, HalClear
    PROVE  /\ Pending' = Pending /\ JobsOf(proc') = JobsOf(proc) /\ UNCHANGED <<tk, cur, ref, display, sent>>
           /\ Clearing = {Job(cur)} /\ Clearing' = {} /\ Draining /\ Draining'
           /\ cur.slot \in Slots /\ cur.ref \in Slots \cup {0}
           /\ slots' = ClearHalInput(ClearHalOutput(slots, cur.slot), cur.ref)
<1>1. /\ UNCHANGED <<proc, tk, cur, ref, display, sent>> /\ hpc = "clear" /\ hpc' = "push"
      /\ slots' = ClearHalInput(ClearHalOutput(slots, cur.slot), cur.ref)
  BY DEF HalClear, Notify, groupVars, userVars
<1>2. cur.kind = "frame" /\ cur \in SentTasks(sent)
  BY <1>1 DEF DInv, IInv, AtWork, Group
<1>3. cur.slot \in Slots /\ cur.ref \in Slots \cup {0}
  BY <1>2 DEF SentTasks, Tasks
<1> QED BY <1>1, <1>2, <1>3 DEF Pending, ParsedJobs, Clearing, Draining

\* Output of frames.
LEMMA OutputJobs ==
    ASSUME DInv, HalPush \/ HalNotify \/ HalReset
    PROVE  /\ Pending' = Pending /\ JobsOf(proc') = JobsOf(proc) /\ UNCHANGED <<tk, ref, sent>>
           /\ Clearing = {} /\ Clearing' = {}
<1>1. /\ UNCHANGED <<proc, tk, ref, sent>> /\ hpc \in {"get", "push", "notify"} /\ hpc' \in {"get", "push"}
  BY DEF HalPush, HalNotify, HalReset, Notify, groupVars, halVars, userVars
<1> QED BY <1>1 DEF Pending, ParsedJobs, Clearing

\* The reference is marked while there is one.
LEMMA ReferenceUsed ==
    ASSUME DInv, ref # 0
    PROVE  ref \in Slots /\ slots[ref].used /\ slots[ref].codec
<1>1. ref \in Slots
  BY DEF DInv, Parses
<1> QED BY <1>1 DEF DInv, Flags, Tables

\* A picture takes a slot nobody uses and becomes the reference; the last picture stays
\* used while the new one reads it.
LEMMA PictureSlots ==
    ASSUME DInv, ParsePicture
    PROVE  /\ ref' \in Slots /\ ~slots[ref'].used /\ ref # ref' /\ display' = Append(display, ref')
           /\ tk'.slot = ref' /\ tk'.frm = tk.frm /\ tk'.ref \in {0, ref}
           /\ tk'.rfrm = (IF tk'.ref = 0 THEN 0 ELSE slots[tk'.ref].frame)
           /\ slots' \in Tables
           /\ LET e == slots'[ref'] IN
                /\ e.used /\ e.codec /\ e.hout /\ e.queued /\ e.hin = 0 /\ e.frame = tk.frm
           /\ \A x \in Slots \ {ref'} : LET e == slots'[x] IN
                /\ ~e.codec /\ e.hout = slots[x].hout /\ e.queued = slots[x].queued
                /\ e.hin = slots[x].hin + (IF x = tk'.ref THEN 1 ELSE 0)
                /\ Keeps(e, slots[x])
<1> DEFINE p == tk.frm
           s == CHOOSE x \in UnusedSlots : \A y \in UnusedSlots : x <= y
           r == IF stream[p].kind = "P" THEN ref ELSE 0
           entry == [Unused EXCEPT !.used = TRUE, !.codec = TRUE, !.hout = TRUE,
                                   !.queued = TRUE, !.frame = p]
           s1 == [slots EXCEPT ![s] = entry]
           s2 == KeepReference(s1, r)
           s3 == ClearCodecUse(s2, ref)
<1>1. /\ UnusedSlots # {} /\ slots' = s3 /\ ref' = s /\ display' = Append(display, s)
      /\ tk' = [tk EXCEPT !.parsed = TRUE, !.slot = s, !.ref = r,
                          !.rfrm = IF r = 0 THEN 0 ELSE slots[r].frame, !.wait = @ \ {"slot"}]
  BY DEF ParsePicture
<1>2. s \in Slots /\ ~slots[s].used
  BY <1>1, LeastUnused DEF UnusedSlots
<1>3. slots \in Tables /\ \A x \in Slots : Consistent(slots[x])
  BY DEF DInv, Flags, Tables, Consistent
<1>4. p \in Nat /\ ref \in Slots \cup {0}
  BY DEF DInv, Parses, ParserTasks
<1> HIDE DEF p, s
<1>5. ref # 0 => ref # s
  BY <1>2, ReferenceUsed
<1>6. s # 0
  BY <1>2, CountAssumption DEF Slots
<1>7. /\ Consistent(entry) /\ entry.used /\ entry.codec /\ entry.hout /\ entry.queued /\ entry.hin = 0
      /\ entry.frame = p
  BY <1>4 DEF Consistent, Unused, Entries
<1> HIDE DEF entry
<1>8. s1 \in Tables /\ s1[s] = entry /\ \A x \in Slots \ {s} : s1[x] = slots[x]
  BY <1>2, <1>3, <1>7 DEF Tables, Consistent
<1>9. r \in {0, ref} /\ (r # 0 => s1[r].used)
  BY <1>4, <1>5, <1>8, ReferenceUsed
<1> HIDE DEF s1, r
<1>10. /\ s2 \in Tables
       /\ \A x \in Slots : LET e == s2[x] IN
            /\ e.hin = IF x = r THEN s1[x].hin + 1 ELSE s1[x].hin
            /\ e.codec = s1[x].codec /\ e.hout = s1[x].hout /\ e.queued = s1[x].queued
            /\ e.used = s1[x].used /\ e.frame = s1[x].frame /\ e.buf = s1[x].buf
  BY <1>4, <1>8, <1>9, ReferenceKept
<1> HIDE DEF s2
<1>11. /\ s3 \in Tables
       /\ \A x \in Slots : LET e == s3[x] IN
            /\ e.codec <=> s2[x].codec /\ x # ref
            /\ e.hout = s2[x].hout /\ e.hin = s2[x].hin /\ e.queued = s2[x].queued
            /\ Keeps(e, s2[x])
  BY <1>4, <1>10, CodecCleared
<1> HIDE DEF s3
<1>12. LET e == s3[s] IN e.used /\ e.codec /\ e.hout /\ e.queued /\ e.hin = 0 /\ e.frame = p
  <2>1. s # r /\ s # ref
    BY <1>5, <1>6, <1>9
  <2>2. s3[s].codec /\ s3[s].hout /\ s3[s].queued /\ s3[s].hin = 0
    BY <1>2, <1>7, <1>8, <1>10, <1>11, <2>1
  <2>3. s3[s].used
    BY <1>2, <1>11, <2>2 DEF Tables
  <2> QED BY <1>2, <1>7, <1>8, <1>10, <1>11, <2>2, <2>3 DEF Keeps
<1>13. ASSUME NEW x \in Slots \ {s}
       PROVE  LET e == s3[x] IN
                /\ ~e.codec /\ e.hout = slots[x].hout /\ e.queued = slots[x].queued
                /\ e.hin = slots[x].hin + (IF x = r THEN 1 ELSE 0)
                /\ Keeps(e, slots[x])
  <2>1. slots[x].codec <=> ref = x
    BY DEF DInv, Flags
  <2>2. slots[x].hin \in Nat
    BY <1>3 DEF Consistent, Entries
  <2> QED BY <1>8, <1>10, <1>11, <2>1, <2>2 DEF Keeps
<1>14. /\ tk'.slot = s /\ tk'.frm = tk.frm /\ tk'.ref = r
       /\ tk'.rfrm = (IF r = 0 THEN 0 ELSE slots[r].frame)
  BY <1>1 DEF DInv, Parses, ParserTasks
<1> QED BY <1>1, <1>2, <1>5, <1>6, <1>9, <1>11, <1>12, <1>13, <1>14 DEF p

\* Clearing the flags of the task done changes its slot and the one it reads, and no
\* other flag.
LEMMA ClearSlots ==
    ASSUME DInv, HalClear
    PROVE  /\ slots' \in Tables
           /\ \A x \in Slots : LET e == slots'[x] IN
                /\ e.codec = slots[x].codec /\ e.queued = slots[x].queued
                /\ e.hout <=> slots[x].hout /\ x # cur.slot
                /\ e.hin = IF x = cur.ref THEN slots[x].hin - 1 ELSE slots[x].hin
                /\ Keeps(e, slots[x])
<1> DEFINE s1 == ClearHalOutput(slots, cur.slot)
           s2 == ClearHalInput(s1, cur.ref)
<1>1. /\ slots' = s2 /\ Clearing = {Job(cur)} /\ cur.slot \in Slots /\ cur.ref \in Slots \cup {0}
      /\ slots \in Tables
  BY ClearJobs DEF DInv, Flags
<1>2. /\ s1 \in Tables
      /\ \A x \in Slots : LET e == s1[x] IN
           /\ e.hout <=> slots[x].hout /\ x # cur.slot
           /\ e.codec = slots[x].codec /\ e.hin = slots[x].hin /\ e.queued = slots[x].queued
           /\ Keeps(e, slots[x])
  BY <1>1, OutputCleared
<1>3. cur.ref # 0 => s1[cur.ref].hin > 0
  <2>1. SUFFICES ASSUME cur.ref # 0 PROVE s1[cur.ref].hin > 0
    OBVIOUS
  <2>2. cur.ref \in Slots /\ Job(cur).ref = cur.ref
    BY <1>1, <2>1 DEF Job
  <2>3. Reads(Clearing, cur.ref) = 1
    BY <1>1, <2>2 DEF Reads
  <2>4. slots[cur.ref].hin = Reads(Pending, cur.ref) + 1 /\ Reads(Pending, cur.ref) \in {0, 1}
    BY <2>2, <2>3 DEF DInv, Flags, Reads
  <2> QED BY <1>2, <2>2, <2>4
<1> HIDE DEF s1
<1>4. /\ s2 \in Tables
      /\ \A x \in Slots : LET e == s2[x] IN
           /\ e.hin = IF x = cur.ref THEN s1[x].hin - 1 ELSE s1[x].hin
           /\ e.codec = s1[x].codec /\ e.hout = s1[x].hout /\ e.queued = s1[x].queued
           /\ Keeps(e, s1[x])
  BY <1>1, <1>2, <1>3, InputCleared
<1> HIDE DEF s2
<1> QED BY <1>1, <1>2, <1>4 DEF Keeps

-----------------------------------------------------------------------------
(* The display queue *)

\* It holds slots.
LEMMA DisplaySeq ==
    ASSUME DInv
    PROVE  display \in Seq(Slots)
<1>1. Pending # {} => ref \in Slots
  BY DEF DInv, Parses, Chain
<1>2. <<>> \in Seq(Slots)
  BY EmptySeq
<1>3. \A a, b \in Slots : <<a>> \in Seq(Slots) /\ <<a, b>> \in Seq(Slots)
  OBVIOUS
<1>4. \/ display = <<>>
      \/ Pending # {} /\ display = <<ref>>
      \/ cur.slot \in Slots /\ display = <<cur.slot>>
      \/ cur.slot \in Slots /\ Pending # {} /\ display = <<cur.slot, ref>>
  BY DEF DInv, Shape
<1> QED BY <1>1, <1>2, <1>3, <1>4

\* A second slot joins it.
LEMMA AppendedPair == ASSUME NEW a, NEW b PROVE Append(<<a>>, b) = <<a, b>>
<1>1. <<a>> \in Seq({a, b}) /\ <<a, b>> \in Seq({a, b}) /\ Len(<<a>>) = 1 /\ Len(<<a, b>>) = 2
  OBVIOUS
<1>2. /\ Append(<<a>>, b) \in Seq({a, b}) /\ Len(Append(<<a>>, b)) = 2
      /\ Append(<<a>>, b)[1] = a /\ Append(<<a>>, b)[2] = b
  BY <1>1, AppendProperties
<1>3. 1 .. 2 = {1, 2} /\ <<a, b>>[1] = a /\ <<a, b>>[2] = b
  OBVIOUS
<1> QED BY <1>1, <1>2, <1>3, SeqEqual

\* How many frames at the head of the queue are ready.
LEMMA ReadyFrames ==
    ASSUME display \in Seq(Slots), NEW sl
    PROVE  /\ ReadyCount(sl) \in 0 .. Len(display) /\ Len(display) \in Nat
           /\ ReadyCount(sl) = 0 <=> display = <<>> \/ sl[display[1]].hout
           /\ (\A i \in DOMAIN display : ~sl[display[i]].hout) => ReadyCount(sl) = Len(display)
<1> DEFINE R == {i \in DOMAIN display : \A j \in 1 .. i : ~sl[display[j]].hout}
<1>1. DOMAIN display = 1 .. Len(display) /\ Len(display) \in Nat
  BY LenProperties
<1>2. IsFiniteSet(1 .. Len(display)) /\ Cardinality(1 .. Len(display)) = Len(display)
  BY <1>1, FS_Interval
<1>3. R \in SUBSET (1 .. Len(display))
  BY <1>1
<1>4. IsFiniteSet(R) /\ Cardinality(R) <= Len(display) /\ Cardinality(R) \in Nat
  BY <1>2, <1>3, FS_Subset, FS_CardinalityType
<1>5. ReadyCount(sl) = Cardinality(R)
  BY DEF ReadyCount
<1>6. R = {} <=> display = <<>> \/ sl[display[1]].hout
  <2>1. CASE display = <<>>
    BY <1>1, <2>1
  <2>2. CASE display # <<>>
    <3>1. 1 \in DOMAIN display
      BY <1>1, <2>2, EmptySeq
    <3>2. \A i \in R : 1 \in 1 .. i
      BY <1>1
    <3>3. ~sl[display[1]].hout => 1 \in R
      BY <3>1
    <3> QED BY <2>2, <3>2, <3>3
  <2> QED BY <2>1, <2>2
<1>7. (\A i \in DOMAIN display : ~sl[display[i]].hout) => R = 1 .. Len(display)
  <2>1. SUFFICES ASSUME \A i \in DOMAIN display : ~sl[display[i]].hout, NEW i \in 1 .. Len(display)
                 PROVE  \A j \in 1 .. i : ~sl[display[j]].hout
    BY <1>1
  <2> QED BY <1>1, <2>1
<1> HIDE DEF R
<1>8. Cardinality(R) = 0 <=> R = {}
  BY <1>4, FS_EmptySet
<1> QED BY <1>1, <1>2, <1>4, <1>5, <1>6, <1>7, <1>8

\* A slot is written by a pending job or one whose flags are being cleared.
LEMMA PendingWritten ==
    ASSUME DInv, Clearing = {}, NEW s \in Slots
    PROVE  slots[s].hout <=> Pending # {} /\ s = ref
<1>1. slots[s].hout <=> \E j \in Pending : j.slot = s
  BY DEF DInv, Flags
<1> QED BY <1>1 DEF DInv, Chain

\* The hardware thread outputs the frame of its task (mpp_dec_push_display).
LEMMA PushSlots ==
    ASSUME DInv, HalPush
    PROVE  /\ Draining /\ Draining' /\ cur' = cur /\ cur.slot \in Slots /\ Head(display) = cur.slot
           /\ \/ Pending = {} /\ display = <<cur.slot>> /\ display' = <<>>
              \/ Pending # {} /\ cur.slot # ref /\ display = <<cur.slot, ref>> /\ display' = <<ref>>
           /\ slots' \in Tables
           /\ \A x \in Slots : LET e == slots'[x] IN
                /\ e.queued <=> slots[x].queued /\ x # cur.slot
                /\ e.codec = slots[x].codec /\ e.hout = slots[x].hout /\ e.hin = slots[x].hin
                /\ Keeps(e, slots[x])
<1>1. /\ hpc = "push" /\ ReadyCount(slots) > 0 /\ UNCHANGED <<hpc, cur>>
      /\ slots' = ClearQueueUse(slots, {Head(display)}) /\ display' = Tail(display)
  BY DEF HalPush, halVars
<1>2. display # <<>> /\ ~slots[display[1]].hout
  BY <1>1, ReadyFrames, DisplaySeq
<1>3. Clearing = {}
  BY <1>1 DEF Clearing
<1>4. ~(Pending # {} /\ display = <<ref>>)
  <2>1. SUFFICES ASSUME Pending # {}, display = <<ref>> PROVE FALSE
    OBVIOUS
  <2>2. ref \in Slots /\ display[1] = ref
    BY <2>1 DEF DInv, Parses, Chain
  <2> QED BY <1>2, <1>3, <2>1, <2>2, PendingWritten
<1>5. /\ Draining /\ cur.slot \in Slots
      /\ \/ Pending = {} /\ display = <<cur.slot>>
         \/ Pending # {} /\ cur.slot # ref /\ display = <<cur.slot, ref>>
  BY <1>2, <1>4 DEF DInv, Shape
<1>6. Head(display) = cur.slot /\ display' = (IF Pending = {} THEN <<>> ELSE <<ref>>)
  <2>1. \A a, b : Tail(<<a, b>>) = <<b>> /\ Tail(<<a>>) = <<>> /\ Head(<<a, b>>) = a /\ Head(<<a>>) = a
    OBVIOUS
  <2> QED BY <1>1, <1>5, <2>1
<1>7. /\ ClearQueueUse(slots, {cur.slot}) \in Tables
      /\ \A x \in Slots : LET e == ClearQueueUse(slots, {cur.slot})[x] IN
           /\ e.queued <=> slots[x].queued /\ x \notin {cur.slot}
           /\ e.codec = slots[x].codec /\ e.hout = slots[x].hout /\ e.hin = slots[x].hin
           /\ Keeps(e, slots[x])
  BY QueueCleared DEF DInv, Flags
<1>8. Draining'
  BY <1>1, <1>5 DEF Draining
<1> QED BY <1>1, <1>5, <1>6, <1>7, <1>8

\* When it has, nothing but the pending picture is left.
LEMMA NotifySlots ==
    ASSUME DInv, HalNotify
    PROVE  /\ ~Draining' /\ UNCHANGED <<slots, display>>
           /\ display = IF Pending = {} THEN <<>> ELSE <<ref>>
<1>1. /\ UNCHANGED <<slots, display>> /\ hpc' = "get"
      /\ \/ hpc = "notify"
         \/ hpc = "push" /\ ReadyCount(slots) = 0
  BY DEF HalNotify, Notify
<1>2. ~Draining' /\ Clearing = {}
  BY <1>1 DEF Draining, Clearing
<1>3. ASSUME Draining, cur.slot \in Slots, display \in {<<cur.slot>>, <<cur.slot, ref>>},
             Pending = {} \/ cur.slot # ref
      PROVE  FALSE
  <2>1. ReadyCount(slots) = 0
    BY <1>1, <1>3 DEF Draining
  <2>2. display # <<>> /\ display[1] = cur.slot
    BY <1>3
  <2>3. slots[cur.slot].hout
    BY <2>1, <2>2, ReadyFrames, DisplaySeq
  <2> QED BY <1>2, <1>3, <2>3, PendingWritten
<1>4. display = IF Pending = {} THEN <<>> ELSE <<ref>>
  BY <1>3 DEF DInv, Shape
<1> QED BY <1>1, <1>2, <1>4

\* In a reset, the hardware thread finds nothing ready: what was is output.
LEMMA HalResetSlots ==
    ASSUME DInv, HalReset
    PROVE  /\ ~Draining /\ ~Draining' /\ UNCHANGED <<slots, display, out>>
<1> DEFINE n == ReadyCount(slots)
<1>1. /\ hpc = "get" /\ UNCHANGED <<hpc, cur>>
      /\ slots' = ClearQueueUse(slots, ToSet(SubSeq(display, 1, n)))
      /\ display' = SubSeq(display, n + 1, Len(display))
      /\ out' = out \o [i \in 1 .. n |-> Frame(display[i], FALSE)]
  BY DEF HalReset, halVars
<1>2. ~Draining /\ ~Draining' /\ Clearing = {}
  BY <1>1 DEF Draining, Clearing
<1>3. n = 0
  <2>1. display \in Seq(Slots)
    BY DisplaySeq
  <2>2. CASE display = <<>>
    BY <2>1, <2>2, ReadyFrames
  <2>3. CASE display # <<>>
    <3>1. Pending # {} /\ display = <<ref>> /\ ref \in Slots
      BY <1>2, <2>3 DEF DInv, Shape, Chain, Parses
    <3>2. slots[display[1]].hout
      BY <1>2, <3>1, PendingWritten
    <3> QED BY <2>1, <3>2, ReadyFrames
  <2> QED BY <2>2, <2>3
<1> HIDE DEF n
<1>4. display' = display
  BY <1>1, <1>3, DisplaySeq, SubSeqFull
<1>5. ToSet(SubSeq(display, 1, n)) = {}
  <2>1. SubSeq(display, 1, 0) = <<>>
    BY SubSeqEmpty
  <2> QED BY <1>3, <2>1 DEF ToSet
<1>6. slots' = slots
  BY <1>1, <1>5, QueueKept DEF DInv, Flags
<1>7. out' = out
  BY <1>1, <1>3
<1> QED BY <1>2, <1>4, <1>6, <1>7

\* The parser's answer to a reset leaves no slot used (reset_parser_thread).
LEMMA ResetSlots ==
    ASSUME DInv, ResetParser
    PROVE  /\ display' = <<>> /\ slots' \in Tables
           /\ \A x \in Slots : LET e == slots'[x] IN
                ~e.used /\ ~e.codec /\ ~e.hout /\ ~e.queued /\ e.hin = 0
<1> DEFINE s1 == ClearCodecUse(slots, ref)
           s2 == ParsedCleared(s1)
           n  == ReadyCount(s2)
           shown == ToSet(SubSeq(display, 1, n))
           s3 == ClearQueueUse(s2, shown)
<1>1. slots' = s3 /\ display' = SubSeq(display, n + 1, Len(display))
  BY DEF ResetParser
<1>2. /\ Pending = ParsedJobs /\ Clearing = {} /\ ~Draining /\ slots \in Tables
      /\ ref \in Slots \cup {0} /\ display \in Seq(Slots)
  BY ResetJobs, DisplaySeq DEF DInv, Flags, Parses
<1>3. /\ s1 \in Tables
      /\ \A x \in Slots : LET e == s1[x] IN
           /\ e.codec <=> slots[x].codec /\ x # ref
           /\ e.hout = slots[x].hout /\ e.hin = slots[x].hin /\ e.queued = slots[x].queued
           /\ Keeps(e, slots[x])
  BY <1>2, CodecCleared
<1> HIDE DEF s1
<1>4. ASSUME NEW x \in Slots
      PROVE  /\ slots[x].codec <=> x = ref
             /\ slots[x].hout <=> tk.parsed /\ tk.slot = x
             /\ slots[x].hin = IF tk.parsed /\ tk.ref = x THEN 1 ELSE 0
             /\ slots[x].queued <=> \E i \in DOMAIN display : display[i] = x
  <2>1. Reads(Clearing, x) = 0
    BY <1>2 DEF Reads
  <2>2. Reads(Pending, x) = IF tk.parsed /\ tk.ref = x THEN 1 ELSE 0
    <3>1. CASE tk.parsed
      <4>1. Pending = {Job(tk)} /\ Job(tk).ref = tk.ref
        BY <1>2, <3>1 DEF ParsedJobs, Job
      <4> QED BY <3>1, <4>1 DEF Reads
    <3>2. CASE ~tk.parsed
      BY <1>2, <3>2 DEF Reads, ParsedJobs
    <3> QED BY <3>1, <3>2
  <2>3. (\E j \in Pending : j.slot = x) <=> tk.parsed /\ tk.slot = x
    <3>1. Job(tk).slot = tk.slot
      BY DEF Job
    <3> QED BY <1>2, <3>1 DEF ParsedJobs
  <2> QED BY <1>2, <2>1, <2>2, <2>3 DEF DInv, Flags
<1>5. s2 \in Tables /\ \A x \in Slots : LET e == s2[x] IN
           ~e.codec /\ ~e.hout /\ e.hin = 0 /\ e.queued = slots[x].queued
  <2>1. CASE ~tk.parsed
    BY <1>3, <1>4, <2>1 DEF ParsedCleared
  <2>2. CASE tk.parsed
    <3> DEFINE o == ClearHalOutput(s1, tk.slot)
    <3>1. tk.slot \in Slots /\ tk.ref \in Slots \cup {0} /\ tk.slot = ref
      BY <2>2 DEF DInv, Parses, ParserTasks
    <3>2. /\ o \in Tables
          /\ \A x \in Slots : LET e == o[x] IN
               /\ e.hout <=> s1[x].hout /\ x # tk.slot
               /\ e.codec = s1[x].codec /\ e.hin = s1[x].hin /\ e.queued = s1[x].queued
               /\ Keeps(e, s1[x])
      BY <1>3, <3>1, OutputCleared
    <3> HIDE DEF o
    <3>3. tk.ref # 0 => o[tk.ref].hin > 0
      BY <1>3, <1>4, <2>2, <3>1, <3>2
    <3>4. /\ ClearHalInput(o, tk.ref) \in Tables
          /\ \A x \in Slots : LET e == ClearHalInput(o, tk.ref)[x] IN
               /\ e.hin = IF x = tk.ref THEN o[x].hin - 1 ELSE o[x].hin
               /\ e.codec = o[x].codec /\ e.hout = o[x].hout /\ e.queued = o[x].queued
               /\ Keeps(e, o[x])
      BY <3>1, <3>2, <3>3, InputCleared
    <3>5. s2 = ClearHalInput(o, tk.ref)
      BY <2>2 DEF ParsedCleared, o
    <3> HIDE DEF s2
    <3> QED BY <1>3, <1>4, <2>2, <3>1, <3>2, <3>4, <3>5
  <2> QED BY <2>1, <2>2
<1> HIDE DEF s2
<1>6. n = Len(display) /\ Len(display) \in Nat
  <2>1. \A i \in DOMAIN display : display[i] \in Slots
    BY <1>2
  <2> QED BY <1>2, <1>5, <2>1, ReadyFrames
<1> HIDE DEF n
<1>7. display' = <<>>
  BY <1>1, <1>6, SubSeqEmpty
<1>8. shown = ToSet(display)
  BY <1>2, <1>6, SubSeqFull
<1> HIDE DEF shown
<1>9. /\ s3 \in Tables
      /\ \A x \in Slots : LET e == s3[x] IN
           /\ e.queued <=> s2[x].queued /\ x \notin ToSet(display)
           /\ e.codec = s2[x].codec /\ e.hout = s2[x].hout /\ e.hin = s2[x].hin
           /\ Keeps(e, s2[x])
  BY <1>5, <1>8, QueueCleared
<1> HIDE DEF s3
<1>10. ASSUME NEW x \in Slots
       PROVE  LET e == s3[x] IN ~e.codec /\ ~e.hout /\ ~e.queued /\ e.hin = 0
  BY <1>4, <1>5, <1>9 DEF ToSet
<1>11. \A x \in Slots : ~s3[x].used
  BY <1>9, <1>10 DEF Tables
<1> QED BY <1>1, <1>7, <1>9, <1>10, <1>11

-----------------------------------------------------------------------------
(* Steps: frame slots *)

\* One job at a time is pending, and reads the picture before.
LEMMA ChainStep == DInv /\ [Next]_vars => Chain'
<1> SUFFICES ASSUME DInv, [Next]_vars PROVE Chain'
  OBVIOUS
<1>1. CASE SlotsLeft
  <2>1. Pending' = Pending /\ Clearing' = Clearing /\ ref' = ref
    BY <1>1 DEF SlotsLeft, Pending
  <2> QED BY <2>1 DEF DInv, Chain
<1>2. CASE ParsePicture
  <2>1. Pending = {} /\ Pending' = {Job(tk')} /\ Clearing' = Clearing
    BY <1>2, PictureJobs
  <2>2. /\ ref' \in Slots /\ ~slots[ref'].used /\ tk'.slot = ref' /\ tk'.ref \in {0, ref}
    BY <1>2, PictureSlots
  <2>3. \A c \in Clearing : c.slot \in Slots /\ c.slot = ref /\ slots[c.slot].used
    BY <2>1 DEF DInv, Chain, Flags, Tables
  <2>4. ref' # 0
    BY <2>2, CountAssumption DEF Slots
  <2>5. Job(tk').slot = ref' /\ Job(tk').ref \in {0, ref}
    BY <2>2 DEF Job
  <2> QED BY <2>1, <2>2, <2>3, <2>4, <2>5 DEF Chain
<1>3. CASE PutFrame
  <2>1. Pending' = Pending /\ Clearing' = Clearing /\ ref' = ref
    BY <1>3, FrameJobs
  <2> QED BY <2>1 DEF DInv, Chain
<1>4. CASE ResetParser
  BY <1>4, ResetJobs DEF Chain
<1>5. CASE HalStatus
  <2>1. /\ Pending = {Job(cur)} /\ Pending' = {} /\ Clearing' = {Job(cur)} /\ ref' = ref
        /\ cur.slot \in Slots
    BY <1>5, StatusJobs
  <2>2. Job(cur).slot = cur.slot
    BY DEF Job
  <2> QED BY <2>1, <2>2 DEF DInv, Chain
<1>6. CASE HalClear
  BY <1>6, ClearJobs DEF DInv, Chain
<1>7. CASE HalPush \/ HalNotify \/ HalReset
  BY <1>7, OutputJobs DEF DInv, Chain
<1> QED BY <1>1, <1>2, <1>3, <1>4, <1>5, <1>6, <1>7, SlotSteps DEF SlotStep

\* The display queue holds the picture being output and the pending one.
LEMMA ShapeStep == DInv /\ [Next]_vars => Shape'
<1> SUFFICES ASSUME DInv, [Next]_vars PROVE Shape'
  OBVIOUS
<1>1. CASE SlotsLeft
  <2>1. /\ Pending' = Pending /\ UNCHANGED <<display, ref>> /\ (Draining' <=> Draining)
        /\ (Draining => cur' = cur)
    BY <1>1 DEF SlotsLeft, Pending
  <2> QED BY <2>1 DEF DInv, Shape
<1>2. CASE ParsePicture
  <2>1. Pending = {} /\ Pending' # {} /\ (Draining' <=> Draining) /\ cur' = cur
    BY <1>2, PictureJobs
  <2>2. ref' \in Slots /\ ~slots[ref'].used /\ display' = Append(display, ref')
    BY <1>2, PictureSlots
  <2>3. CASE display = <<>>
    BY <2>1, <2>2, <2>3 DEF Shape
  <2>4. CASE Draining /\ cur.slot \in Slots /\ display = <<cur.slot>>
    <3>1. slots[cur.slot].queued
      <4>1. 1 \in DOMAIN display /\ display[1] = cur.slot
        BY <2>4
      <4> QED BY <2>4, <4>1 DEF DInv, Flags
    <3>2. slots[cur.slot].used
      BY <2>4, <3>1 DEF DInv, Flags, Tables
    <3>3. display' = <<cur.slot, ref'>>
      BY <2>2, <2>4, AppendedPair
    <3> QED BY <2>1, <2>2, <2>4, <3>2, <3>3 DEF Shape
  <2> QED BY <2>1, <2>3, <2>4 DEF DInv, Shape
<1>3. CASE PutFrame
  <2>1. /\ Pending' = Pending /\ UNCHANGED <<display, ref, cur>> /\ (Draining' <=> Draining)
    BY <1>3, FrameJobs
  <2> QED BY <2>1 DEF DInv, Shape
<1>4. CASE ResetParser
  BY <1>4, ResetJobs, ResetSlots DEF Shape
<1>5. CASE HalStatus
  <2>1. /\ Pending = {Job(cur)} /\ Pending' = {} /\ ~Draining /\ Draining' /\ UNCHANGED <<display, cur>>
        /\ cur.slot \in Slots
    BY <1>5, StatusJobs
  <2>2. display = <<ref>> /\ Job(cur).slot = cur.slot
    BY <2>1 DEF DInv, Shape, Job
  <2>3. ref = cur.slot
    BY <2>1, <2>2 DEF DInv, Chain
  <2> QED BY <2>1, <2>2, <2>3 DEF Shape
<1>6. CASE HalClear
  <2>1. Pending' = Pending /\ UNCHANGED <<display, ref, cur>> /\ Draining /\ Draining'
    BY <1>6, ClearJobs
  <2> QED BY <2>1 DEF DInv, Shape
<1>7. CASE HalPush
  BY <1>7, OutputJobs, PushSlots DEF Shape
<1>8. CASE HalNotify
  BY <1>8, OutputJobs, NotifySlots DEF Shape
<1>9. CASE HalReset
  BY <1>9, OutputJobs, HalResetSlots DEF DInv, Shape
<1> QED BY <1>1, <1>2, <1>3, <1>4, <1>5, <1>6, <1>7, <1>8, <1>9, SlotSteps DEF SlotStep

\* The jobs are about slots.
LEMMA JobsTyped ==
    ASSUME DInv, NEW j \in Pending \cup Clearing
    PROVE  j.slot \in Slots /\ j.ref \in Slots \cup {0}
<1>1. CASE j \in ParsedJobs
  <2>1. tk.parsed /\ j = Job(tk) /\ Job(tk).slot = tk.slot /\ Job(tk).ref = tk.ref
    BY <1>1 DEF ParsedJobs, Job
  <2>2. tk.slot \in Slots \cup {0} /\ tk.ref \in Slots \cup {0} /\ (tk.parsed => tk.slot # 0)
    BY DEF DInv, Parses, ParserTasks
  <2> QED BY <2>1, <2>2
<1>2. CASE j \in JobsOf(proc)
  <2>1. PICK i \in DOMAIN proc : proc[i].kind = "frame" /\ j = Job(proc[i])
    BY <1>2 DEF JobsOf, Frames
  <2>2. proc[i] \in SentTasks(sent)
    BY <2>1 DEF DInv, Group
  <2> QED BY <2>1, <2>2 DEF SentTasks, Tasks, Job
<1>3. CASE j \in Clearing
  <2>1. hpc = "clear" /\ j = Job(cur) /\ Job(cur).slot = cur.slot /\ Job(cur).ref = cur.ref
    BY <1>3 DEF Clearing, Job
  <2>2. cur \in SentTasks(sent) /\ cur.kind = "frame"
    BY <2>1 DEF DInv, Group, IInv, AtWork
  <2> QED BY <2>1, <2>2 DEF SentTasks, Tasks
<1> QED BY <1>1, <1>2, <1>3 DEF Pending

\* A slot is shown when it is in the display queue.
Shown(d, s) == \E i \in DOMAIN d : d[i] = s

\* The slots in a display queue of at most two.
LEMMA ShownIn ==
    ASSUME NEW a, NEW b, NEW s
    PROVE  /\ ~Shown(<<>>, s)
           /\ Shown(<<a>>, s) <=> s = a
           /\ Shown(<<a, b>>, s) <=> s \in {a, b}
<1>1. DOMAIN <<>> = {} /\ DOMAIN <<a>> = {1} /\ DOMAIN <<a, b>> = {1, 2}
  OBVIOUS
<1>2. <<a>>[1] = a /\ <<a, b>>[1] = a /\ <<a, b>>[2] = b
  OBVIOUS
<1> QED BY <1>1, <1>2 DEF Shown

\* A slot put last into the display queue is in it, with those before.
LEMMA ShownAppend ==
    ASSUME NEW S, NEW d \in Seq(S), NEW a \in S, NEW s
    PROVE  Shown(Append(d, a), s) <=> Shown(d, s) \/ s = a
<1>1. DOMAIN d = 1 .. Len(d) /\ DOMAIN Append(d, a) = 1 .. Len(d) + 1 /\ Len(d) \in Nat
  BY AppendProperties, LenProperties
<1>2. (\A i \in 1 .. Len(d) : Append(d, a)[i] = d[i]) /\ Append(d, a)[Len(d) + 1] = a
  BY AppendProperties
<1> QED BY <1>1, <1>2 DEF Shown

\* The flags of every slot are its holders'.
LEMMA FlagsStep == DInv /\ [Next]_vars => Flags'
<1> SUFFICES ASSUME DInv, [Next]_vars PROVE Flags'
  OBVIOUS
<1> USE DEF Shown
<1>0. sent \in Nat /\ slots \in Tables /\ slots \in [Slots -> Entries]
  BY StreamLength DEF DInv, Flags, Tables
<1>1. CASE SlotsLeft
  <2>1. Pending' = Pending /\ Clearing' = Clearing /\ UNCHANGED <<slots, display, ref>> /\ sent' \in {sent, sent + 1}
    BY <1>1 DEF SlotsLeft, Pending
  <2>2. 1 .. sent \subseteq 1 .. sent'
    BY <1>0, <2>1
  <2> QED BY <2>1, <2>2 DEF DInv, Flags
<1>2. CASE ParsePicture
  <2>1. Pending = {} /\ Pending' = {Job(tk')} /\ Clearing' = Clearing /\ sent' = sent /\ tk.frm \in 1 .. sent
    <3>1. ppc = "slot"
      BY <1>2 DEF ParsePicture
    <3> QED BY <1>2, <3>1, PictureJobs DEF DInv, Parses
  <2> DEFINE s == ref'
  <2>2. /\ s \in Slots /\ ~slots[s].used /\ ref # s /\ display' = Append(display, s)
        /\ tk'.slot = s /\ tk'.ref \in {0, ref} /\ slots' \in Tables
        /\ LET e == slots'[s] IN
             e.used /\ e.codec /\ e.hout /\ e.queued /\ e.hin = 0 /\ e.frame = tk.frm
        /\ \A x \in Slots \ {s} : LET e == slots'[x] IN
             /\ ~e.codec /\ e.hout = slots[x].hout /\ e.queued = slots[x].queued
             /\ e.hin = slots[x].hin + (IF x = tk'.ref THEN 1 ELSE 0)
             /\ Keeps(e, slots[x])
    BY <1>2, PictureSlots
  <2>3. Job(tk').slot = s /\ Job(tk').ref = tk'.ref
    BY <2>2 DEF Job
  <2>4. \A x \in Slots : Shown(display', x) <=> Shown(display, x) \/ x = s
    BY <2>2, DisplaySeq, ShownAppend
  <2>5. \A x \in Slots : Reads(Pending', x) = (IF x = tk'.ref THEN 1 ELSE 0) /\ Reads(Pending, x) = 0
    BY <2>1, <2>3 DEF Reads
  <2>6. \A x \in Slots : slots[x].hin = Reads(Clearing, x)
    BY <2>5 DEF DInv, Flags, Reads
  <2>7. s # 0
    BY <2>2, CountAssumption DEF Slots
  <2> HIDE DEF s, Shown
  <2>8. Reads(Clearing, s) = 0
    <3>1. slots[s].hin \in Nat
      BY <1>0, <2>2 DEF Entries
    <3>2. ~(slots[s].hin > 0)
      BY <1>0, <2>2 DEF Tables
    <3> QED BY <2>2, <2>6, <3>1, <3>2
  <2>9. ASSUME NEW x \in Slots
        PROVE  /\ slots'[x].codec <=> s = x
               /\ slots'[x].queued <=> Shown(display', x)
               /\ slots'[x].hout <=> \E j \in Pending' \cup Clearing' : j.slot = x
               /\ slots'[x].hin = Reads(Pending', x) + Reads(Clearing', x)
               /\ slots'[x].used => slots'[x].frame \in 1 .. sent'
    <3>1. CASE x = s
      <4>1. slots'[x].codec /\ slots'[x].queued /\ Shown(display', x)
        BY <2>2, <2>4, <3>1
      <4>2. slots'[x].hout /\ \E j \in Pending' \cup Clearing' : j.slot = x
        BY <2>1, <2>2, <2>3, <3>1
      <4>3. slots'[x].hin = Reads(Pending', x) + Reads(Clearing', x)
        <5>1. x # tk'.ref /\ slots'[x].hin = 0
          BY <2>2, <2>7, <3>1
        <5>2. Reads(Pending', x) = 0
          BY <2>5, <5>1
        <5>3. Reads(Clearing', x) = 0
          BY <2>1, <2>8, <3>1
        <5> QED BY <5>1, <5>2, <5>3
      <4>4. slots'[x].frame \in 1 .. sent'
        BY <2>1, <2>2, <3>1
      <4> QED BY <3>1, <4>1, <4>2, <4>3, <4>4
    <3>2. CASE x # s
      <4>1. /\ slots[x].queued <=> Shown(display, x)
            /\ slots[x].hout <=> \E j \in Clearing : j.slot = x
            /\ slots[x].used => slots[x].frame \in 1 .. sent
        BY <2>1 DEF DInv, Flags, Shown
      <4>2. slots'[x].used => slots'[x].frame \in 1 .. sent'
        BY <2>1, <2>2, <3>2, <4>1 DEF Keeps
      <4>3. slots'[x].hin = Reads(Pending', x) + Reads(Clearing', x)
        BY <2>1, <2>2, <2>5, <2>6, <3>2 DEF Reads
      <4>4. slots'[x].hout <=> \E j \in Pending' \cup Clearing' : j.slot = x
        BY <2>1, <2>2, <2>3, <3>2, <4>1
      <4> QED BY <2>2, <2>4, <3>2, <4>1, <4>2, <4>3, <4>4
    <3> QED BY <3>1, <3>2
  <2> QED BY <2>2, <2>9 DEF Flags, Shown, s
<1>3. CASE PutFrame
  <2>1. /\ Pending' = Pending /\ Clearing' = Clearing /\ UNCHANGED <<display, ref, sent>>
        /\ slots' = [slots EXCEPT ![tk.slot].buf = TRUE] /\ tk.slot \in Slots
    BY <1>3, FrameJobs
  <2>2. slots' \in [Slots -> Entries]
    BY <1>0, <2>1 DEF Entries
  <2>3. \A x \in Slots : /\ slots'[x].codec = slots[x].codec /\ slots'[x].queued = slots[x].queued
                         /\ slots'[x].hout = slots[x].hout /\ slots'[x].hin = slots[x].hin
                         /\ slots'[x].used = slots[x].used /\ slots'[x].frame = slots[x].frame
    BY <1>0, <2>1 DEF Entries
  <2>4. slots' \in Tables
    BY <1>0, <2>2, <2>3 DEF Tables
  <2> QED BY <2>1, <2>3, <2>4 DEF DInv, Flags
<1>4. CASE ResetParser
  <2>1. Pending' = {} /\ Clearing' = {} /\ ref' = 0 /\ display' = <<>>
    BY <1>4, ResetJobs, ResetSlots
  <2>2. \A x \in Slots : x # 0
    BY CountAssumption DEF Slots
  <2>3. \A x \in Slots : ~Shown(display', x)
    BY <2>1
  <2>4. \A x \in Slots : Reads(Pending', x) = 0 /\ Reads(Clearing', x) = 0
    BY <2>1 DEF Reads
  <2> HIDE DEF Shown
  <2>5. /\ slots' \in Tables
        /\ \A x \in Slots : LET e == slots'[x] IN
             ~e.used /\ ~e.codec /\ ~e.hout /\ ~e.queued /\ e.hin = 0
    BY <1>4, ResetSlots
  <2> QED BY <2>1, <2>2, <2>3, <2>4, <2>5 DEF Flags, Shown
<1>5. CASE HalStatus
  <2>1. /\ Pending = {Job(cur)} /\ Pending' = {} /\ Clearing = {} /\ Clearing' = {Job(cur)}
        /\ UNCHANGED <<slots, display, ref, sent>>
    BY <1>5, StatusJobs
  <2>2. Pending' \cup Clearing' = Pending \cup Clearing
    BY <2>1
  <2>3. \A x \in Slots : /\ Reads(Pending', x) = Reads(Clearing, x)
                         /\ Reads(Clearing', x) = Reads(Pending, x)
    BY <2>1
  <2>4. \A x \in Slots : Reads(Pending, x) \in {0, 1} /\ Reads(Clearing, x) \in {0, 1}
    BY DEF Reads
  <2> QED BY <2>1, <2>2, <2>3, <2>4 DEF DInv, Flags
<1>6. CASE HalClear
  <2>1. /\ Pending' = Pending /\ Clearing = {Job(cur)} /\ Clearing' = {} /\ UNCHANGED <<ref, display, sent>>
        /\ cur.slot \in Slots
    BY <1>6, ClearJobs
  <2>2. /\ slots' \in Tables
        /\ \A x \in Slots : LET e == slots'[x] IN
             /\ e.codec = slots[x].codec /\ e.queued = slots[x].queued
             /\ e.hout <=> slots[x].hout /\ x # cur.slot
             /\ e.hin = IF x = cur.ref THEN slots[x].hin - 1 ELSE slots[x].hin
             /\ Keeps(e, slots[x])
    BY <1>6, ClearSlots
  <2>3. Job(cur).slot = cur.slot /\ Job(cur).ref = cur.ref
    BY DEF Job
  <2>4. \A p \in Pending : p.slot # cur.slot
    BY <2>1, <2>3 DEF DInv, Chain
  <2>5. \A x \in Slots : /\ Reads(Clearing, x) = (IF x = cur.ref THEN 1 ELSE 0)
                         /\ Reads(Clearing', x) = 0 /\ Reads(Pending', x) = Reads(Pending, x)
                         /\ Reads(Pending, x) \in {0, 1}
    BY <2>1, <2>3 DEF Reads
  <2> HIDE DEF Shown
  <2>6. ASSUME NEW x \in Slots
        PROVE  /\ slots'[x].codec <=> ref' = x
               /\ slots'[x].queued <=> Shown(display', x)
               /\ slots'[x].hout <=> \E j \in Pending' \cup Clearing' : j.slot = x
               /\ slots'[x].hin = Reads(Pending', x) + Reads(Clearing', x)
               /\ slots'[x].used => slots'[x].frame \in 1 .. sent'
    <3>1. /\ slots[x].codec <=> ref = x
          /\ slots[x].queued <=> Shown(display, x)
          /\ slots[x].hout <=> \E j \in Pending \cup Clearing : j.slot = x
          /\ slots[x].hin = Reads(Pending, x) + Reads(Clearing, x)
          /\ slots[x].used => slots[x].frame \in 1 .. sent
      BY DEF DInv, Flags, Shown
    <3>2. slots'[x].hin = Reads(Pending', x) + Reads(Clearing', x)
      BY <2>2, <2>5, <3>1
    <3>3. slots'[x].hout <=> \E j \in Pending' \cup Clearing' : j.slot = x
      BY <2>1, <2>2, <2>3, <2>4, <3>1
    <3>4. slots'[x].used => slots'[x].frame \in 1 .. sent'
      BY <2>1, <2>2, <3>1 DEF Keeps
    <3> QED BY <2>1, <2>2, <3>1, <3>2, <3>3, <3>4
  <2> QED BY <2>2, <2>6 DEF Flags, Shown
<1>7. CASE HalPush
  <2>1. Pending' = Pending /\ Clearing' = Clearing /\ UNCHANGED <<ref, sent>>
    BY <1>7, OutputJobs
  <2>2. /\ slots' \in Tables
        /\ \A x \in Slots : LET e == slots'[x] IN
             /\ e.queued <=> slots[x].queued /\ x # cur.slot
             /\ e.codec = slots[x].codec /\ e.hout = slots[x].hout /\ e.hin = slots[x].hin
             /\ Keeps(e, slots[x])
    BY <1>7, PushSlots
  <2>3. \A x \in Slots : Shown(display', x) <=> Shown(display, x) /\ x # cur.slot
    <3>1. \/ Pending = {} /\ display = <<cur.slot>> /\ display' = <<>>
          \/ cur.slot # ref /\ display = <<cur.slot, ref>> /\ display' = <<ref>>
      BY <1>7, PushSlots
    <3> HIDE DEF Shown
    <3>2. /\ \A x : ~Shown(<<>>, x)
          /\ \A x : Shown(<<cur.slot>>, x) <=> x = cur.slot
          /\ \A x : Shown(<<ref>>, x) <=> x = ref
          /\ \A x : Shown(<<cur.slot, ref>>, x) <=> x \in {cur.slot, ref}
      BY ShownIn
    <3>3. CASE display = <<cur.slot>> /\ display' = <<>>
      BY <3>2, <3>3
    <3>4. CASE cur.slot # ref /\ display = <<cur.slot, ref>> /\ display' = <<ref>>
      BY <3>2, <3>4
    <3> QED BY <3>1, <3>3, <3>4
  <2> HIDE DEF Shown
  <2>4. ASSUME NEW x \in Slots
        PROVE  /\ slots'[x].codec <=> ref' = x
               /\ slots'[x].queued <=> Shown(display', x)
               /\ slots'[x].hout <=> \E j \in Pending' \cup Clearing' : j.slot = x
               /\ slots'[x].hin = Reads(Pending', x) + Reads(Clearing', x)
               /\ slots'[x].used => slots'[x].frame \in 1 .. sent'
    <3>1. /\ slots[x].codec <=> ref = x
          /\ slots[x].queued <=> Shown(display, x)
          /\ slots[x].hout <=> \E j \in Pending \cup Clearing : j.slot = x
          /\ slots[x].hin = Reads(Pending, x) + Reads(Clearing, x)
          /\ slots[x].used => slots[x].frame \in 1 .. sent
      BY DEF DInv, Flags, Shown
    <3>2. slots'[x].used => slots'[x].frame \in 1 .. sent'
      BY <2>1, <2>2, <3>1 DEF Keeps
    <3> QED BY <2>1, <2>2, <2>3, <3>1, <3>2
  <2> QED BY <2>2, <2>4 DEF Flags, Shown
<1>8. CASE HalNotify \/ HalReset
  <2>1. Pending' = Pending /\ Clearing' = Clearing /\ UNCHANGED <<ref, sent, slots, display>>
    BY <1>8, OutputJobs, NotifySlots, HalResetSlots
  <2> QED BY <2>1 DEF DInv, Flags
<1> QED BY <1>1, <1>2, <1>3, <1>4, <1>5, <1>6, <1>7, <1>8, SlotSteps DEF SlotStep

\* A job's slots keep its frames while their flags are set.
LEMMA HoldsKept ==
    ASSUME Flags', NEW j \in Pending' \cup Clearing', j.slot \in Slots, j.ref \in Slots \cup {0},
           Holds(j), Keeps(slots'[j.slot], slots[j.slot]),
           j.ref # 0 => Keeps(slots'[j.ref], slots[j.ref])
    PROVE  Holds(j)' /\ slots'[j.slot].buf = slots[j.slot].buf
<1>1. slots'[j.slot].used
  BY DEF Flags, Tables
<1>2. j.ref # 0 => slots'[j.ref].used
  <2>1. SUFFICES ASSUME j.ref # 0 PROVE slots'[j.ref].used
    OBVIOUS
  <2>2. /\ Reads(Pending', j.ref) \in {0, 1} /\ Reads(Clearing', j.ref) \in {0, 1}
        /\ Reads(Pending', j.ref) = 1 \/ Reads(Clearing', j.ref) = 1
    BY DEF Reads
  <2>3. slots'[j.ref].hin > 0
    BY <2>1, <2>2 DEF Flags
  <2> QED BY <2>1, <2>3 DEF Flags, Tables
<1> QED BY <1>1, <1>2 DEF Holds, Keeps

\* The hardware's slots hold its frames.
LEMMA HardwareStep == DInv /\ [Next]_vars => Hardware'
<1> SUFFICES ASSUME DInv, [Next]_vars PROVE Hardware'
  OBVIOUS
<1>0. Flags' /\ Chain'
  BY FlagsStep, ChainStep
<1>1. CASE SlotsLeft
  <2>1. /\ Pending' = Pending /\ Clearing' = Clearing /\ UNCHANGED <<slots, ref>>
        /\ JobsOf(proc') = JobsOf(proc) /\ tk'.parsed = tk.parsed
    BY <1>1 DEF SlotsLeft, Pending
  <2> QED BY <2>1 DEF DInv, Hardware, Holds
<1>2. CASE ParsePicture
  <2>1. /\ Pending = {} /\ Pending' = {Job(tk')} /\ Clearing' = Clearing
        /\ tk'.parsed /\ JobsOf(proc') = {} /\ ~tk.parsed
    <3>1. ~tk.parsed
      BY <1>2 DEF ParsePicture
    <3> QED BY <1>2, <3>1, PictureJobs
  <2>2. /\ ref' \in Slots /\ ~slots[ref'].used /\ tk'.slot = ref' /\ tk'.frm = tk.frm
        /\ tk'.ref \in {0, ref} /\ tk'.rfrm = (IF tk'.ref = 0 THEN 0 ELSE slots[tk'.ref].frame)
        /\ slots'[ref'].frame = tk.frm
        /\ \A x \in Slots \ {ref'} : Keeps(slots'[x], slots[x])
        /\ \A x \in Slots \ {ref'} : slots'[x].hin = slots[x].hin + (IF x = tk'.ref THEN 1 ELSE 0)
        /\ slots' \in Tables
    BY <1>2, PictureSlots
  <2>3. \A s \in Slots : (slots[s].hout \/ slots[s].hin > 0) => s # ref'
    BY <2>2 DEF DInv, Flags, Tables
  <2>4. ASSUME NEW c \in Clearing PROVE Holds(c)' /\ slots'[c.slot].buf
    <3>1. c.slot \in Slots /\ c.ref \in Slots \cup {0} /\ Holds(c) /\ slots[c.slot].buf
      BY JobsTyped DEF DInv, Hardware
    <3>2. slots[c.slot].hout /\ (c.ref # 0 => slots[c.ref].hin > 0)
      <4>1. c.ref # 0 => Reads(Clearing, c.ref) = 1 /\ Reads(Pending, c.ref) \in {0, 1}
        BY DEF Reads
      <4> QED BY <3>1, <4>1 DEF DInv, Flags
    <3>3. Keeps(slots'[c.slot], slots[c.slot]) /\ (c.ref # 0 => Keeps(slots'[c.ref], slots[c.ref]))
      BY <2>2, <2>3, <3>1, <3>2
    <3>4. c \in Pending' \cup Clearing'
      BY <2>1
    <3> QED BY <1>0, <3>1, <3>3, <3>4, HoldsKept
  <2>5. ASSUME NEW j \in Pending' PROVE Holds(j)'
    <3>1. j.slot = ref' /\ j.frm = tk.frm /\ j.ref = tk'.ref /\ j.rfrm = tk'.rfrm
      BY <2>1, <2>2 DEF Job
    <3>2. ASSUME tk'.ref # 0 PROVE slots'[tk'.ref].frame = tk'.rfrm /\ slots'[tk'.ref].buf
      <4>1. tk'.ref = ref /\ ref \in Slots /\ slots[ref].used /\ slots[ref].buf
        BY <2>1, <2>2, <3>2, ReferenceUsed DEF DInv, Hardware
      <4>2. ref # ref' /\ slots[ref].hin \in Nat
        BY <2>2, <4>1 DEF DInv, Flags, Tables, Entries
      <4>3. slots'[ref].hin > 0
        BY <2>2, <4>1, <4>2
      <4>4. slots'[ref].used
        BY <2>2, <4>1, <4>3 DEF Tables
      <4> QED BY <2>2, <3>2, <4>1, <4>2, <4>4 DEF Keeps
    <3>3. slots'[ref'].frame = tk.frm
      BY <2>2
    <3> QED BY <3>1, <3>2, <3>3 DEF Holds
  <2> QED BY <2>1, <2>4, <2>5 DEF Hardware
<1>3. CASE PutFrame
  <2>1. /\ Pending = {Job(tk)} /\ Pending' = Pending /\ Clearing' = Clearing /\ ref' = ref
        /\ JobsOf(proc') = {Job(tk)} /\ tk.slot = ref /\ ref \in Slots
        /\ slots' = [slots EXCEPT ![tk.slot].buf = TRUE]
    BY <1>3, FrameJobs
  <2>2. slots \in [Slots -> Entries]
    BY DEF DInv, Flags, Tables
  <2>3. \A x \in Slots : /\ slots'[x].frame = slots[x].frame
                         /\ slots'[x].buf <=> slots[x].buf \/ x = ref
    BY <2>1, <2>2 DEF Entries
  <2>4. ASSUME NEW j \in Pending \cup Clearing PROVE Holds(j)'
    BY <2>3, JobsTyped DEF DInv, Hardware, Holds
  <2>5. \A c \in Clearing : slots'[c.slot].buf
    BY <2>3, JobsTyped DEF DInv, Hardware
  <2>6. Job(tk).slot = ref
    BY <2>1 DEF Job
  <2> QED BY <2>1, <2>3, <2>4, <2>5, <2>6 DEF Hardware
<1>4. CASE ResetParser
  BY <1>4, ResetJobs DEF Hardware
<1>5. CASE HalStatus
  <2>1. /\ Pending = {Job(cur)} /\ Pending' = {} /\ JobsOf(proc) = {Job(cur)} /\ JobsOf(proc') = {}
        /\ Clearing = {} /\ Clearing' = {Job(cur)} /\ UNCHANGED <<slots, ref, tk>>
    BY <1>5, StatusJobs
  <2> QED BY <2>1 DEF DInv, Hardware, Holds
<1>6. CASE HalClear \/ HalPush
  <2>1. /\ Pending' = Pending /\ Clearing' = {} /\ JobsOf(proc') = JobsOf(proc) /\ UNCHANGED <<ref, tk>>
        /\ \A x \in Slots : Keeps(slots'[x], slots[x])
    BY <1>6, ClearJobs, ClearSlots, OutputJobs, PushSlots
  <2>2. ASSUME NEW j \in Pending PROVE Holds(j)' /\ slots'[j.slot].buf = slots[j.slot].buf
    <3>1. j.slot \in Slots /\ j.ref \in Slots \cup {0} /\ Holds(j)
      BY JobsTyped DEF DInv, Hardware
    <3> QED BY <1>0, <2>1, <3>1, HoldsKept
  <2>3. JobsOf(proc) \subseteq Pending
    BY DEF Pending
  <2>4. ref # 0 /\ ~tk.parsed => slots'[ref].buf
    <3>1. SUFFICES ASSUME ref # 0, ~tk.parsed PROVE slots'[ref].buf
      OBVIOUS
    <3>2. ref \in Slots /\ slots[ref].buf
      BY <3>1, ReferenceUsed DEF DInv, Hardware
    <3>3. slots'[ref].used
      BY <1>0, <2>1, <3>2 DEF Flags, Tables
    <3> QED BY <2>1, <3>2, <3>3 DEF Keeps
  <2> QED BY <2>1, <2>2, <2>3, <2>4 DEF DInv, Hardware
<1>7. CASE HalNotify \/ HalReset
  <2>1. /\ Pending' = Pending /\ Clearing' = Clearing /\ UNCHANGED <<slots, ref, tk>>
        /\ JobsOf(proc') = JobsOf(proc)
    BY <1>7, OutputJobs, NotifySlots, HalResetSlots
  <2> QED BY <2>1 DEF DInv, Hardware, Holds
<1> QED BY <1>1, <1>2, <1>3, <1>4, <1>5, <1>6, <1>7, SlotSteps DEF SlotStep

-----------------------------------------------------------------------------
(* The invariant holds *)

\* The initial state has the invariant.
LEMMA InitDInv == Init => DInv
<1> SUFFICES ASSUME Init PROVE DInv
  OBVIOUS
<1>1. Fed
  <2>1. stream \in Streams /\ sent = 0 /\ resets = 0 /\ fpc = "free" /\ port = <<>>
    BY DEF Init
  <2>2. Len(stream) \in Nat /\ MaxResets[stream] \in Nat
    <3> DEFINE Packet == [kind : Kinds, size : Sizes, eos : BOOLEAN]
    <3>1. stream \in Seq(Packet)
      BY <2>1, StreamAssumption
    <3> HIDE DEF Packet
    <3> QED BY <2>1, <3>1, LenProperties, CountAssumption
  <2>3. <<>> \in Seq(1 .. sent)
    BY EmptySeq
  <2> QED BY <2>1, <2>2, <2>3 DEF Fed
<1>2. Parses
  BY NoTaskTyped DEF Init, Parses, NoTask
<1>3. Group
  <2>1. <<>> \in Seq(SentTasks(sent)) /\ Len(<<>>) = 0
    BY EmptySeq
  <2>2. tk.hnd = FALSE
    BY DEF Init, NoTask
  <2> QED BY <2>1, <2>2, CountAssumption DEF Init, Group
<1>4. Resets
  <2>1. resetFlag \in BOOLEAN /\ ~resetFlag /\ ~halReset
    BY DEF Init
  <2>2. fpc = "free" /\ ppc = "check" /\ hpc = "get" /\ parserSem = 0 /\ halSem = 0
    BY DEF Init
  <2> QED BY <2>1, <2>2 DEF Resets
<1>5. Pending = {} /\ Clearing = {} /\ JobsOf(proc) = {}
  <2>1. tk.parsed = FALSE
    BY DEF Init, NoTask
  <2> QED BY <2>1, NoJobs DEF Init, Pending, ParsedJobs, Clearing
<1>6. Flags
  <2>1. slots = [s \in Slots |-> Unused] /\ ref = 0 /\ display = <<>>
    BY DEF Init
  <2>2. /\ Unused \in Entries /\ Unused.used = FALSE /\ Unused.codec = FALSE /\ Unused.queued = FALSE
        /\ Unused.hout = FALSE /\ Unused.hin = 0
    BY DEF Unused, Entries
  <2>3. slots \in Tables
    BY <2>1, <2>2 DEF Tables
  <2>4. \A s \in Slots : s # 0 /\ Reads(Pending, s) = 0 /\ Reads(Clearing, s) = 0
    BY <1>5, CountAssumption DEF Reads, Slots
  <2>5. DOMAIN display = {}
    BY <2>1
  <2> QED BY <1>5, <2>1, <2>2, <2>3, <2>4, <2>5 DEF Flags
<1>7. Chain /\ Shape
  BY <1>5 DEF Init, Chain, Shape
<1>8. Hardware
  BY <1>5 DEF Init, Hardware
<1> QED BY <1>1, <1>2, <1>3, <1>4, <1>6, <1>7, <1>8, InitInv DEF DInv

\* Every step keeps it.
LEMMA StepDInv == DInv /\ [Next]_vars => DInv'
<1>1. DInv => IInv
  BY DEF DInv
<1> QED BY <1>1, StepInv, FedStep, ParsesStep, GroupStep, ResetsStep, FlagsStep, ChainStep, ShapeStep,
           HardwareStep DEF DInv

\* The invariant of tasks and slots holds always.
THEOREM DInvHolds == Spec => []DInv
BY InitDInv, StepDInv, PTL DEF Spec

-----------------------------------------------------------------------------
(* What follows from it *)

\* What a job marks.
Mark(j) == [slot |-> j.slot, ref |-> j.ref]
ReadMarks(jobs, s) == {Mark(j) : j \in {k \in jobs : k.ref = s}}

\* Of jobs that are all the same one at most reads a slot.
LEMMA OneReader ==
    ASSUME NEW jobs, \A p, q \in jobs : p = q, NEW s
    PROVE  IsFiniteSet(ReadMarks(jobs, s)) /\ Cardinality(ReadMarks(jobs, s)) = Reads(jobs, s)
<1>1. CASE \E j \in jobs : j.ref = s
  <2>1. PICK j \in jobs : j.ref = s
    BY <1>1
  <2>2. ReadMarks(jobs, s) = {Mark(j)}
    BY <2>1 DEF ReadMarks
  <2>3. Reads(jobs, s) = 1
    BY <1>1 DEF Reads
  <2> QED BY <2>2, <2>3, FS_Singleton
<1>2. CASE ~ \E j \in jobs : j.ref = s
  <2>1. ReadMarks(jobs, s) = {} /\ Reads(jobs, s) = 0
    BY <1>2 DEF ReadMarks, Reads
  <2> QED BY <2>1, FS_EmptySet
<1> QED BY <1>1, <1>2

\* The marked tasks of the model's property are the pending jobs and the one being
\* cleared.
LEMMA MarkedJobs ==
    ASSUME DInv
    PROVE  Marked = {Mark(j) : j \in Pending \cup Clearing}
<1> DEFINE T == IF tk.parsed THEN {TaskInfo("frame", tk)} ELSE {}
           M(t) == [slot |-> t.slot, ref |-> t.ref]
<1>1. Marked = {M(t) : t \in Running \cup T}
  BY DEF Marked
<1>2. \A t : M(t) = Mark(Job(t)) /\ Mark(Job(TaskInfo("frame", t))) = Mark(Job(t))
  BY DEF Mark, Job, TaskInfo
<1> HIDE DEF M
<1>3. \A t \in Running : Job(t) \in Pending \cup Clearing
  <2>1. hpc = "clear" => cur.kind = "frame"
    BY DEF DInv, IInv, AtWork
  <2> QED BY <2>1 DEF Running, Pending, Clearing, JobsOf, Frames
<1>4. \A t \in T : M(t) = Mark(Job(tk)) /\ Job(tk) \in Pending
  BY <1>2 DEF Pending, ParsedJobs
<1>5. \A j \in JobsOf(proc) \cup Clearing : \E t \in Running : j = Job(t)
  BY DEF Running, JobsOf, Frames, Clearing
<1>6. \A j \in ParsedJobs : \E t \in T : Mark(j) = M(t)
  BY <1>2 DEF ParsedJobs
<1> HIDE DEF T
<1>7. ASSUME NEW m \in Marked PROVE m \in {Mark(j) : j \in Pending \cup Clearing}
  <2>1. PICK t \in Running \cup T : m = M(t)
    BY <1>1
  <2>2. CASE t \in Running
    BY <1>2, <1>3, <2>1, <2>2
  <2>3. CASE t \in T
    BY <1>4, <2>1, <2>3
  <2> QED BY <2>1, <2>2, <2>3
<1>8. ASSUME NEW j \in Pending \cup Clearing PROVE Mark(j) \in Marked
  <2>1. CASE j \in ParsedJobs
    BY <1>1, <1>6, <2>1
  <2>2. CASE j \in JobsOf(proc) \cup Clearing
    BY <1>1, <1>2, <1>5, <2>2
  <2> QED BY <2>1, <2>2 DEF Pending
<1> QED BY <1>7, <1>8

\* The flags of every frame slot are exactly its holders': no slot leaks and none is
\* freed under the parser, the display queue or the hardware, with any number of slots
\* and tasks (mpp_buf_slot_set_flag, mpp_buf_slot_clr_flag, reset_parser_thread).
THEOREM FlagsMatch == Spec => []FlagsMatchHolders
<1>1. ASSUME DInv PROVE FlagsMatchHolders
  <2> SUFFICES ASSUME NEW s \in Slots
               PROVE  /\ slots[s].codec <=> ref = s
                      /\ slots[s].queued <=> s \in ToSet(display)
                      /\ slots[s].hout <=> \E t \in Marked : t.slot = s
                      /\ slots[s].hin = Cardinality({t \in Marked : t.ref = s})
                      /\ slots[s].used <=> \/ slots[s].codec \/ slots[s].queued
                                           \/ slots[s].hout \/ slots[s].hin > 0
    BY DEF FlagsMatchHolders
  <2>1. /\ slots[s].codec <=> ref = s
        /\ slots[s].queued <=> s \in ToSet(display)
        /\ slots[s].used <=> slots[s].codec \/ slots[s].queued \/ slots[s].hout \/ slots[s].hin > 0
    BY <1>1 DEF DInv, Flags, Tables, ToSet
  <2>2. \A j : Mark(j).slot = j.slot /\ Mark(j).ref = j.ref
    BY DEF Mark
  <2>3. slots[s].hout <=> \E t \in Marked : t.slot = s
    <3>1. slots[s].hout <=> \E j \in Pending \cup Clearing : j.slot = s
      BY <1>1 DEF DInv, Flags
    <3> QED BY <1>1, <2>2, <3>1, MarkedJobs
  <2>4. slots[s].hin = Cardinality({t \in Marked : t.ref = s})
    <3> DEFINE A == ReadMarks(Pending, s)
               B == ReadMarks(Clearing, s)
    <3>1. {t \in Marked : t.ref = s} = A \cup B
      BY <1>1, <2>2, MarkedJobs DEF ReadMarks
    <3>2. \A p, q \in Pending : p = q
      BY <1>1 DEF DInv, Chain
    <3>3. \A p, q \in Clearing : p = q
      BY DEF Clearing
    <3>4. IsFiniteSet(A) /\ Cardinality(A) = Reads(Pending, s)
      BY <3>2, OneReader
    <3>5. IsFiniteSet(B) /\ Cardinality(B) = Reads(Clearing, s)
      BY <3>3, OneReader
    <3>6. A \cap B = {}
      <4>1. \A p \in Pending, c \in Clearing : p.slot # c.slot
        BY <1>1 DEF DInv, Chain
      <4>2. \A p \in Pending, c \in Clearing : Mark(p) # Mark(c)
        BY <2>2, <4>1
      <4> QED BY <4>2 DEF ReadMarks
    <3> HIDE DEF A, B
    <3>7. Cardinality(A \cup B) = Cardinality(A) + Cardinality(B) - Cardinality(A \cap B)
      BY <3>4, <3>5, FS_Union
    <3>8. Cardinality(A \cap B) = 0
      BY <3>6, FS_EmptySet
    <3>9. slots[s].hin = Reads(Pending, s) + Reads(Clearing, s)
      BY <1>1 DEF DInv, Flags
    <3>10. Reads(Pending, s) \in {0, 1} /\ Reads(Clearing, s) \in {0, 1}
      BY DEF Reads
    <3> QED BY <3>1, <3>4, <3>5, <3>7, <3>8, <3>9, <3>10
  <2> QED BY <2>1, <2>3, <2>4
<1> QED BY <1>1, DInvHolds, PTL

\* While the hardware may work on a task, the slot it writes and the one it reads hold
\* the task's frames, with their buffers.
THEOREM FramesStay == Spec => []HardwareOwnsItsFrames
<1>1. ASSUME DInv, NEW t \in Running
      PROVE  /\ slots[t.slot].frame = t.frm /\ slots[t.slot].buf
             /\ t.ref # 0 => slots[t.ref].frame = t.rfrm /\ slots[t.ref].buf
  <2>1. Job(t) \in JobsOf(proc) \cup Clearing
    BY DEF Running, JobsOf, Frames, Clearing
  <2>2. Holds(Job(t)) /\ slots[Job(t).slot].buf
    BY <1>1, <2>1 DEF DInv, Hardware, Pending
  <2>3. Job(t).slot = t.slot /\ Job(t).ref = t.ref /\ Job(t).frm = t.frm /\ Job(t).rfrm = t.rfrm
    BY DEF Job
  <2> QED BY <2>2, <2>3 DEF Holds
<1>2. DInv => HardwareOwnsItsFrames
  BY <1>1 DEF HardwareOwnsItsFrames
<1> QED BY <1>2, DInvHolds, PTL

\* At most three slots are used: the reference, the picture being output or whose flags
\* are being cleared, and the one that picture or the pending one was made from.
LEMMA ThreeUsed ==
    ASSUME DInv
    PROVE  \E a, b, c : \A s \in Slots : slots[s].used => s \in {a, b, c}
<1>1. ASSUME NEW s \in Slots, slots[s].used
      PROVE  \/ s = ref
             \/ Draining /\ s = cur.slot
             \/ \E p \in Pending : p.ref = s
             \/ hpc = "clear" /\ s \in {cur.slot, cur.ref}
  <2>1. slots[s].codec \/ slots[s].queued \/ slots[s].hout \/ slots[s].hin > 0
    BY <1>1 DEF DInv, Flags, Tables
  <2>2. Clearing = {} \/ (hpc = "clear" /\ Clearing = {Job(cur)})
    <3>1. CASE hpc = "clear"
      BY <3>1 DEF Clearing
    <3>2. CASE hpc # "clear"
      BY <3>2 DEF Clearing
    <3> QED BY <3>1, <3>2
  <2>3. Job(cur).slot = cur.slot /\ Job(cur).ref = cur.ref
    BY DEF Job
  <2>4. CASE slots[s].codec
    BY <2>4 DEF DInv, Flags
  <2>5. CASE slots[s].queued
    <3>1. Shown(display, s)
      BY <2>5 DEF DInv, Flags, Shown
    <3>2. /\ ~Shown(<<>>, s)
          /\ Shown(<<ref>>, s) <=> s = ref
          /\ Shown(<<cur.slot>>, s) <=> s = cur.slot
          /\ Shown(<<cur.slot, ref>>, s) <=> s \in {cur.slot, ref}
      BY ShownIn
    <3>3. CASE display = <<>>
      BY <3>1, <3>2, <3>3
    <3>4. CASE display = <<ref>>
      BY <3>1, <3>2, <3>4
    <3>5. CASE Draining /\ display = <<cur.slot>>
      BY <3>1, <3>2, <3>5
    <3>6. CASE Draining /\ display = <<cur.slot, ref>>
      BY <3>1, <3>2, <3>6
    <3> QED BY <3>3, <3>4, <3>5, <3>6 DEF DInv, Shape
  <2>6. CASE slots[s].hout
    <3>1. PICK j \in Pending \cup Clearing : j.slot = s
      BY <2>6 DEF DInv, Flags
    <3> QED BY <2>2, <2>3, <3>1 DEF DInv, Chain
  <2>7. CASE slots[s].hin > 0
    <3>1. Reads(Pending, s) = 1 \/ Reads(Clearing, s) = 1
      BY <2>7 DEF DInv, Flags, Reads
    <3>2. (\E j \in Pending : j.ref = s) \/ (\E j \in Clearing : j.ref = s)
      BY <3>1 DEF Reads
    <3> QED BY <2>2, <2>3, <3>2
  <2> QED BY <2>1, <2>4, <2>5, <2>6, <2>7
<1>2. CASE hpc = "clear"
  <2>1. Clearing = {Job(cur)} /\ Job(cur).slot = cur.slot
    BY <1>2 DEF Clearing, Job
  <2>2. \A p \in Pending : p.ref \in {0, cur.slot}
    BY <2>1 DEF DInv, Chain
  <2>3. \A s \in Slots : s # 0
    BY CountAssumption DEF Slots
  <2>4. \A s \in Slots : slots[s].used => s \in {ref, cur.slot, cur.ref}
    BY <1>1, <2>2, <2>3
  <2> QED BY <2>4
<1>3. CASE hpc # "clear" /\ Pending = {}
  <2>1. \A s \in Slots : slots[s].used => s \in {ref, cur.slot, cur.slot}
    BY <1>1, <1>3
  <2> QED BY <2>1
<1>4. CASE hpc # "clear" /\ Pending # {}
  <2>1. PICK p : p \in Pending
    BY <1>4
  <2>2. \A q \in Pending : q = p
    BY <2>1 DEF DInv, Chain
  <2>3. \A s \in Slots : slots[s].used => s \in {ref, cur.slot, p.ref}
    BY <1>1, <1>4, <2>2
  <2> QED BY <2>3
<1> QED BY <1>2, <1>3, <1>4

\* With the four slots H.263 sets up or more, the parser that asks for a frame slot
\* finds one, so that it never waits for it (h263d_parser.c: mpp_buf_slot_setup of 4).
THEOREM SlotFound ==
    ASSUME SlotCount >= 4
    PROVE  Spec => []SlotLeft
<1>1. ASSUME DInv PROVE UnusedSlots # {}
  <2>1. PICK a, b, c : \A s \in Slots : slots[s].used => s \in {a, b, c}
    BY <1>1, ThreeUsed
  <2>2. {1, 2, 3, 4} \subseteq Slots
    BY CountAssumption DEF Slots
  <2>3. \E s \in {1, 2, 3, 4} : s \notin {a, b, c}
    OBVIOUS
  <2> QED BY <2>1, <2>2, <2>3 DEF UnusedSlots
<1>2. DInv => SlotLeft
  BY <1>1 DEF SlotLeft
<1> QED BY <1>2, DInvHolds, PTL
=============================================================================
