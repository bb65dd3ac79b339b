----------------------------- MODULE MppDecoder -----------------------------
(***************************************************************************)
(* The decoder pipeline of the bundled Rockchip MPP: Mpp::put_packet and    *)
(* friends (mpp.cpp), the parser and the hardware thread (mpp_dec.cpp), the *)
(* frame slots they share (mpp_buf_slot.cpp), their tasks (hal_task.cpp),   *)
(* and the H.263 parser (h263d_api.c, h263d_parser.c), the smallest one.    *)
(*                                                                          *)
(* A feeder thread puts packets and resets; a drainer takes frames, gives   *)
(* their buffers back and answers info changes.  A packet is its number in  *)
(* the stream; each holds one frame (copy mode), and so does a slot.        *)
(*                                                                          *)
(* The group of the frame buffers may answer NULL although it counts an     *)
(* unused one; the parser's own group of packet buffers is taken to have a  *)
(* buffer for every packet slot, as its limit is above their number.        *)
(***************************************************************************)
EXTENDS Integers, Sequences, FiniteSets, SequencesExt

CONSTANTS
    Streams,        \* streams of packets, [kind, size, eos] each
    Sizes,          \* frame sizes
    SlotCount,      \* mpp_buf_slot_setup(frame_slots, .)
    TaskCount,      \* hal_task_count, also the number of packet slots
    PortTasks,      \* tasks of the input task queue
    BufferLimit,    \* limit of the frame buffer group
    DisplayLimit,   \* frames in mFrmOut the parser goes on with
    Unmatched,      \* streams in which the group may have no buffer that fits
    MaxResets       \* bound on the feeder's resets, for each stream

Kinds == {"I", "P", "bad", "empty"}
Slots == 1 .. SlotCount
Packets(s) == 1 .. Len(s)

\* Only the last packet has eos, and only such a packet is empty.
ASSUME StreamAssumption ==
    \A s \in Streams :
        /\ s \in Seq([kind : Kinds, size : Sizes, eos : BOOLEAN])
        /\ \A i \in DOMAIN s : /\ s[i].eos => i = Len(s)
                               /\ s[i].kind = "empty" => s[i].eos
ASSUME CountAssumption ==
    /\ {SlotCount, TaskCount, BufferLimit} \subseteq Nat \ {0}
    /\ {PortTasks, DisplayLimit} \subseteq Nat
    /\ MaxResets \in [Streams -> Nat] /\ Unmatched \subseteq Streams
ASSUME SizeAssumption == Sizes \subseteq Nat \ {0}

VARIABLES
    stream,     \* the packets the feeder will put
    \* the input task queue
    port,       \* packets at the parser's side of it
    free,       \* tasks at the user's side
    eosTask,    \* mEosTask is reserved
    inTask,     \* mInputTask is reserved
    \* output
    out,        \* mFrmOut
    \* parser thread
    ppc,
    tk,         \* its DecTask
    notify,     \* parser_notify_flag
    ref,        \* hdr_ref0.slot_idx, 0 for none
    foundI,     \* found_i_vop
    \* hardware thread
    hpc,
    cur,        \* the task it works on
    \* task group: how many are idle and done, and the list of those to process
    idle, done, proc,
    \* slots
    slots, display, pslots,
    info, infoSet, changed,
    \* control and reset
    cmd,        \* cmd_send # cmd_recv
    cmdStart, cmdDone,
    resetFlag, halReset, halSem, parserSem,
    \* users
    fpc, dpc,
    sent, resets,
    held,       \* frames whose buffer the drainer has
    \* history
    got,        \* frames the drainer received
    dropped,    \* packets refused by the parser or discarded by a reset
    commanded   \* the parser's last turn went to a command

queueVars == <<port, free, eosTask, inTask>>
groupVars == <<idle, done, proc>>
infoVars  == <<info, infoSet, changed>>
cmdVars   == <<cmd, cmdStart, cmdDone>>
resetVars == <<resetFlag, halReset, halSem, parserSem>>
halVars   == <<hpc, cur>>
userVars  == <<fpc, dpc, sent, resets, held>>
historyVars == <<got, dropped, commanded>>
vars == <<stream, queueVars, out, ppc, tk, notify, ref, foundI, halVars, groupVars,
          slots, display, pslots, infoVars, cmdVars, resetVars, userVars, historyVars>>

\* The wait bits the notify flags answer; nobody notifies "slot".
WaitBits == {"pkt", "disp", "info", "buf", "match", "hnd", "prev", "slot"}
Reset == WaitBits \cup {"control"}

Unused == [used |-> FALSE, codec |-> FALSE, hin |-> 0, hout |-> FALSE,
           queued |-> FALSE, buf |-> FALSE, frame |-> 0]

\* dec_task_init
NoTask == [hnd |-> FALSE, frm |-> 0, curr |-> FALSE, eos |-> FALSE,
           input |-> 0, copied |-> FALSE, prev |-> TRUE, parsed |-> FALSE,
           infoGen |-> FALSE, slot |-> 0, ref |-> 0, rfrm |-> 0, wait |-> {}]

\* What mpp_dec_put_task copies into a task of the group.
TaskInfo(kind, t) == [kind |-> kind, frm |-> t.frm, eos |-> t.eos, input |-> t.input,
                      slot |-> t.slot, ref |-> t.ref, rfrm |-> t.rfrm]

Init ==
    /\ stream \in Streams
    /\ port = <<>> /\ free = PortTasks /\ eosTask = FALSE /\ inTask = FALSE
    /\ out = <<>>
    /\ ppc = "check" /\ tk = NoTask /\ notify = {}
    /\ ref = 0 /\ foundI = FALSE
    /\ hpc = "get" /\ cur = <<>>
    /\ idle = TaskCount /\ done = 0 /\ proc = <<>>
    /\ slots = [s \in Slots |-> Unused] /\ display = <<>> /\ pslots = {}
    /\ info = 0 /\ infoSet = 0 /\ changed = FALSE
    /\ cmd = FALSE /\ cmdStart = 0 /\ cmdDone = 0
    /\ resetFlag = FALSE /\ halReset = FALSE /\ halSem = 0 /\ parserSem = 0
    /\ fpc = "free" /\ dpc = "free" /\ sent = 0 /\ resets = 0 /\ held = {}
    /\ got = <<>> /\ dropped = {} /\ commanded = FALSE

-----------------------------------------------------------------------------
(* Slots, buffers and wakeups *)

\* fault: the slot's buffer is put, but on_used stays set
ReleasedInUse(e) ==
    IF e.used /\ ~e.codec /\ ~e.hout /\ e.hin = 0 /\ ~e.queued
    THEN [Unused EXCEPT !.used = TRUE]
    ELSE e

\* check_entry_unused after a change of entry e: no flag left, the slot is free.
Released(e) == IF e.used /\ ~e.codec /\ ~e.hout /\ e.hin = 0 /\ ~e.queued THEN Unused ELSE e

ClearCodecUse(sl, s) ==
    IF s = 0 THEN sl ELSE [sl EXCEPT ![s] = Released([sl[s] EXCEPT !.codec = FALSE])]

ClearHalInput(sl, s) ==
    IF s = 0 THEN sl ELSE [sl EXCEPT ![s] = Released([sl[s] EXCEPT !.hin = @ - 1])]

ClearHalOutput(sl, s) == [sl EXCEPT ![s] = Released([sl[s] EXCEPT !.hout = FALSE])]

\* The slots in S are dequeued from the display queue: clear SLOT_QUEUE_USE.
ClearQueueUse(sl, S) ==
    [s \in Slots |-> IF s \in S THEN Released([sl[s] EXCEPT !.queued = FALSE]) ELSE sl[s]]

UnusedSlots == {s \in Slots : ~slots[s].used}

\* Frames that keep a buffer of the group: in a slot, in mFrmOut, with the user.
Buffered(sl, o, h) ==
    {sl[s].frame : s \in {x \in Slots : sl[x].buf}}
        \cup ({o[i].frm : i \in DOMAIN o} \ {0}) \cup h

\* mpp_buffer_group_unused
UnusedBuffers == BufferLimit - Cardinality(Buffered(slots, out, held))

\* mpp_dec_notify: flags accumulate, and a sleeping parser is signalled when
\* a new one is among those it waits for, or is user control.
Notify(flags) ==
    /\ notify' = notify \cup flags
    /\ ppc' = IF /\ ppc = "asleep"
                 /\ \/ flags = {"control"}
                    \/ notify' # notify /\ notify' \cap tk.wait # {}
              THEN "work" ELSE ppc

\* A buffer that goes back to the group notifies through the group's callback.
FreedBuffers(sl, o, h) ==
    IF Buffered(sl, o, h) # Buffered(slots, out, held) THEN {"buf", "match"} ELSE {}

\* fault: the hardware thread is not signalled
LeaveHal == hpc' = hpc

WakeHal == hpc' = IF hpc = "asleep" THEN "get" ELSE hpc

FrmIds(frames) == {frames[i].frm : i \in DOMAIN frames} \ {0}

-----------------------------------------------------------------------------
(* Feeder: put_packet and reset *)

\* put_packet first reserves a task for the eos packet, and would block for it.
Reserve == IF eosTask THEN 0 ELSE 1

\* The packet takes the eos task, the reserved task, or one of the queue.  A call
\* that finds none reserves at most what the next one would.
PutPacket ==
    LET p == sent + 1
        eos == stream[p].eos
        need == Reserve + (IF eos \/ inTask THEN 0 ELSE 1)
    IN
    /\ fpc = "free" /\ p \in DOMAIN stream
    /\ free >= need
    /\ free' = free - need
    /\ eosTask' = ~eos
    /\ inTask' = (inTask /\ eos)
    /\ port' = Append(port, p)
    /\ sent' = p
    /\ fpc' = "notify"
    /\ UNCHANGED <<stream, out, ppc, tk, notify, ref, foundI, halVars, groupVars, slots,
                   display, pslots, infoVars, cmdVars, resetVars, dpc, resets, held, historyVars>>

\* Mpp::enqueue notifies; put_packet then reserves a task for its next call.
PutPacketNotify ==
    /\ fpc = "notify"
    /\ Notify({"pkt"})
    /\ inTask' = (inTask \/ free > 0)
    /\ free' = IF ~inTask /\ free > 0 THEN free - 1 ELSE free
    /\ fpc' = "free"
    /\ UNCHANGED <<stream, port, eosTask, out, tk, ref, foundI, halVars, groupVars, slots,
                   display, pslots, infoVars, cmdVars, resetVars, dpc, sent, resets, held, historyVars>>

\* Mpp::reset, mpp_dec_reset: the flag is set and the parser notified under the
\* parser's control lock, then the feeder waits, then mFrmOut is flushed.
ResetStart ==
    /\ fpc = "free" /\ resets < MaxResets[stream]
    /\ resets' = resets + 1
    /\ resetFlag' = TRUE
    /\ fpc' = "resetNotify"
    /\ UNCHANGED <<stream, queueVars, out, ppc, tk, notify, ref, foundI, halVars, groupVars,
                   slots, display, pslots, infoVars, cmdVars, halReset, halSem, parserSem,
                   dpc, sent, held, historyVars>>

ResetNotify ==
    /\ fpc = "resetNotify"
    /\ Notify(Reset)
    /\ fpc' = "resetWait"
    /\ UNCHANGED <<stream, queueVars, out, tk, ref, foundI, halVars, groupVars, slots,
                   display, pslots, infoVars, cmdVars, resetVars, dpc, sent, resets, held, historyVars>>

ResetFlush ==
    /\ fpc = "resetWait"
    /\ parserSem > 0
    /\ parserSem' = parserSem - 1
    /\ out' = <<>>
    /\ dropped' = dropped \cup FrmIds(out)
    /\ Notify(FreedBuffers(slots, <<>>, held))
    /\ fpc' = "free"
    /\ UNCHANGED <<stream, queueVars, tk, ref, foundI, halVars, groupVars, slots, display,
                   pslots, infoVars, cmdVars, resetFlag, halReset, halSem, dpc, sent,
                   resets, held, got, commanded>>

-----------------------------------------------------------------------------
(* Drainer: get_frame, frame release, MPP_DEC_SET_INFO_CHANGE_READY *)

\* get_frame pops and notifies under the lock of mFrmOut.
GetFrame ==
    /\ dpc = "free" /\ out # <<>>
    /\ out' = Tail(out)
    /\ got' = Append(got, Head(out))
    /\ held' = held \cup FrmIds(<<Head(out)>>)
    /\ dpc' = IF Head(out).chg THEN "ready" ELSE "free"
    /\ Notify({"disp"})
    /\ UNCHANGED <<stream, queueVars, tk, ref, foundI, halVars, groupVars, slots, display,
                   pslots, infoVars, cmdVars, resetVars, fpc, sent, resets, dropped, commanded>>

\* mpp_frame_deinit of a frame the drainer has.
ReleaseFrame(p) ==
    /\ p \in held
    /\ held' = held \ {p}
    /\ Notify(FreedBuffers(slots, out, held \ {p}))
    /\ UNCHANGED <<stream, queueVars, out, tk, ref, foundI, halVars, groupVars, slots,
                   display, pslots, infoVars, cmdVars, resetVars, fpc, dpc, sent, resets, historyVars>>

\* mpp_dec_control: count the command, notify the parser and post cmd_start,
\* wait for cmd_done; control_dec notifies once more.
ControlSend ==
    /\ dpc = "ready"
    /\ cmd' = TRUE
    /\ dpc' = "notify"
    /\ UNCHANGED <<stream, queueVars, out, ppc, tk, notify, ref, foundI, halVars, groupVars,
                   slots, display, pslots, infoVars, cmdStart, cmdDone, resetVars, fpc,
                   sent, resets, held, historyVars>>

ControlNotify ==
    /\ dpc = "notify"
    /\ Notify({"control"})
    /\ cmdStart' = cmdStart + 1
    /\ dpc' = "wait"
    /\ UNCHANGED <<stream, queueVars, out, tk, ref, foundI, halVars, groupVars, slots,
                   display, pslots, infoVars, cmd, cmdDone, resetVars, fpc, sent, resets,
                   held, historyVars>>

ControlDone ==
    /\ dpc = "wait"
    /\ cmdDone > 0
    /\ cmdDone' = cmdDone - 1
    /\ Notify({"info", "match"})
    /\ dpc' = "free"
    /\ UNCHANGED <<stream, queueVars, out, tk, ref, foundI, halVars, groupVars, slots,
                   display, pslots, infoVars, cmd, cmdStart, resetVars, fpc, sent, resets,
                   held, historyVars>>

-----------------------------------------------------------------------------
(* Parser thread: its loop, user control and reset.  A step ends where the  *)
(* thread next reads what another one may have changed meanwhile.           *)

\* fault: flags set while the parser worked are not looked at
NoneAwaited == FALSE

Awaited == tk.wait \cap notify # {}

\* check_task_wait, under the parser's lock; notify flags are used up either way.
CheckTaskWait ==
    /\ ppc = "check"
    /\ ppc' = IF \/ resetFlag \/ "control" \in notify
                 \/ tk.wait = {} \/ Awaited
              THEN "work" ELSE "asleep"
    /\ notify' = {}
    /\ UNCHANGED <<stream, queueVars, out, tk, ref, foundI, halVars, groupVars, slots,
                   display, pslots, infoVars, cmdVars, resetVars, userVars, historyVars>>

\* A command comes first: INFO_CHANGE_READY, which is mpp_buf_slot_ready.
ProcessControl ==
    /\ ppc = "work" /\ cmd
    /\ cmdStart > 0
    /\ cmdStart' = cmdStart - 1 /\ cmdDone' = cmdDone + 1 /\ cmd' = FALSE
    /\ info' = infoSet /\ changed' = FALSE
    /\ ppc' = "check"
    /\ commanded' = TRUE
    /\ UNCHANGED <<stream, queueVars, out, tk, notify, ref, foundI, halVars, groupVars,
                   slots, display, pslots, infoSet, resetVars, userVars, got, dropped>>

\* Then a reset, reset_parser_thread: release the packets in the port and ask
\* the hardware thread to reset.
ResetPort ==
    /\ ppc = "work" /\ ~cmd /\ resetFlag
    /\ port' = <<>> /\ free' = free + Len(port)
    /\ dropped' = dropped \cup ToSet(port)
    /\ halReset' = TRUE
    /\ WakeHal
    /\ ppc' = "reset"
    /\ commanded' = FALSE
    /\ UNCHANGED <<stream, eosTask, inTask, out, tk, notify, ref, foundI, cur, groupVars,
                   slots, display, pslots, infoVars, cmdVars, resetFlag, halSem, parserSem,
                   userVars, got>>

\* How many frames at the head of the display queue are ready.
ReadyCount(sl) ==
    Cardinality({i \in DOMAIN display : \A j \in 1 .. i : ~sl[display[j]].hout})

\* fault: the flags of the parsed task stay set
ParsedKept(sl) == sl

ParsedCleared(sl) ==
    IF tk.parsed THEN ClearHalInput(ClearHalOutput(sl, tk.slot), tk.ref) ELSE sl

\* fault: the packet slot of the task given up stays used
PacketSlotsKept == pslots

PacketSlotsLeft == IF tk.copied THEN pslots \ {tk.input} ELSE pslots

\* The hardware thread answered.  The parser drops its reference; the flags of
\* a task parsed and not sent are cleared; what is left in the display queue is
\* discarded.  The control lock, which the feeder may hold, guards the end.
ResetParser ==
    LET s1 == ClearCodecUse(slots, ref)
        s2 == ParsedCleared(s1)
        n  == ReadyCount(s2)
        s3 == ClearQueueUse(s2, ToSet(SubSeq(display, 1, n)))
        gone == {slots[display[i]].frame : i \in 1 .. n}
    IN
    /\ ppc = "reset"
    /\ halSem > 0 /\ fpc # "resetNotify"
    /\ slots' = s3
    /\ display' = SubSeq(display, n + 1, Len(display))
    /\ ref' = 0 /\ foundI' = FALSE
    /\ pslots' = PacketSlotsLeft
    /\ dropped' = dropped \cup gone \cup (IF tk.curr THEN {tk.frm} ELSE {})
    /\ tk' = NoTask
    /\ notify' = notify \cup FreedBuffers(s3, out, held)
    /\ halSem' = halSem - 1
    /\ resetFlag' = FALSE
    /\ parserSem' = parserSem + 1
    /\ ppc' = "check"
    /\ UNCHANGED <<stream, queueVars, out, halVars, groupVars, infoVars, cmdVars, halReset,
                   userVars, got, commanded>>

-----------------------------------------------------------------------------
(* Parser thread: try_proc_dec_task, step by step; "check" is its return *)

Working == ppc = "work" /\ ~cmd /\ ~resetFlag

\* 1. an idle task
HasTask == tk.hnd \/ idle > 0

WithTask == [tk EXCEPT !.hnd = TRUE, !.wait = @ \ {"hnd"}]

NoTaskLeft ==
    /\ Working /\ ~HasTask
    /\ tk' = [tk EXCEPT !.wait = @ \cup {"hnd"}]
    /\ ppc' = "check"
    /\ commanded' = FALSE
    /\ UNCHANGED <<stream, queueVars, out, notify, ref, foundI, halVars, groupVars, slots,
                   display, pslots, infoVars, cmdVars, resetVars, userVars, got, dropped>>

TaskWithPacket ==
    /\ Working /\ HasTask /\ tk.curr
    /\ tk' = WithTask
    /\ ppc' = "prev"
    /\ commanded' = FALSE
    /\ UNCHANGED <<stream, queueVars, out, notify, ref, foundI, halVars, groupVars, slots,
                   display, pslots, infoVars, cmdVars, resetVars, userVars, got, dropped>>

\* 2. a packet
\* fault: the packet at hand is not looked at
AlwaysNeedsPacket == HasTask

NeedsPacket == HasTask /\ ~tk.curr

NoPacket ==
    /\ Working /\ NeedsPacket /\ port = <<>>
    /\ tk' = [WithTask EXCEPT !.wait = @ \cup {"pkt"}]
    /\ ppc' = "check"
    /\ commanded' = FALSE
    /\ UNCHANGED <<stream, queueVars, out, notify, ref, foundI, halVars, groupVars, slots,
                   display, pslots, infoVars, cmdVars, resetVars, userVars, got, dropped>>

\* 3 to 6. h263d_prepare consumes the packet whole, and an unused packet slot
\* holds its copy: the parser that has an idle task finds one, as there are as many,
\* and a buffer for it.
PreparePacket ==
    LET p == Head(port)
        unused == (1 .. TaskCount) \ pslots
    IN
    /\ Working /\ NeedsPacket
    /\ port # <<>> /\ stream[p].kind # "empty"
    /\ port' = Tail(port) /\ free' = free + 1
    /\ \E i \in unused :
        /\ \A j \in unused : i <= j
        /\ pslots' = pslots \cup {i}
        /\ tk' = [WithTask EXCEPT !.wait = @ \ {"pkt"}, !.frm = p, !.curr = TRUE,
                                  !.eos = stream[p].eos, !.input = i, !.copied = TRUE]
    /\ ppc' = "prev"
    /\ commanded' = FALSE
    /\ UNCHANGED <<stream, eosTask, inTask, out, notify, ref, foundI, halVars, groupVars,
                   slots, display, infoVars, cmdVars, resetVars, userVars, got, dropped>>

\* mpp_dec_put_task: the task joins those to process, and the hardware thread
\* is signalled, under that thread's lock.
PutTask(kind, t) ==
    /\ proc' = Append(proc, TaskInfo(kind, t))
    /\ idle' = idle - 1
    /\ WakeHal

\* An empty packet with eos makes no valid task, only an eos task.
PutEos ==
    LET p == Head(port) IN
    /\ Working /\ NeedsPacket
    /\ port # <<>> /\ stream[p].kind = "empty"
    /\ port' = Tail(port) /\ free' = free + 1
    /\ dropped' = dropped \cup {p}
    /\ PutTask("eos", [tk EXCEPT !.frm = p, !.eos = TRUE])
    /\ tk' = [WithTask EXCEPT !.hnd = FALSE, !.wait = @ \ {"pkt"}]
    /\ ppc' = "check"
    /\ commanded' = FALSE
    /\ UNCHANGED <<stream, eosTask, inTask, out, notify, ref, foundI, cur, done, slots,
                   display, pslots, infoVars, cmdVars, resetVars, userVars, got>>

\* fault: the parser goes on while the hardware works
PreviousIgnored == TRUE

PreviousDone == tk.prev \/ done > 0

\* 7.1. The previous task is done, and becomes idle; then not too many frames
\* may wait in mFrmOut.
WaitPrevious ==
    LET take == ~tk.prev /\ done > 0
        ok == PreviousDone
        full == Len(out) > DisplayLimit
        wait1 == IF take THEN tk.wait \ {"prev"} ELSE tk.wait
        wait2 == IF ~ok THEN wait1 \cup {"prev"}
                 ELSE IF full THEN wait1 \cup {"disp"} ELSE wait1 \ {"disp"}
    IN
    /\ ppc = "prev"
    /\ done' = IF take THEN done - 1 ELSE done
    /\ idle' = IF take THEN idle + 1 ELSE idle
    /\ tk' = [tk EXCEPT !.prev = ok, !.wait = wait2]
    /\ ppc' = IF ok /\ ~full THEN "slot" ELSE "check"
    /\ UNCHANGED <<stream, queueVars, out, notify, ref, foundI, halVars, proc, slots,
                   display, pslots, infoVars, cmdVars, resetVars, userVars, historyVars>>

\* 7.3. an unused frame slot, asked for even when the packet is parsed already
\* (the wait for one, which nobody would end, is not reached: SlotLeft)
SlotForParsed ==
    /\ ppc = "slot" /\ UnusedSlots # {} /\ tk.parsed
    /\ tk' = [tk EXCEPT !.wait = @ \ {"slot"}]
    /\ ppc' = "info"
    /\ UNCHANGED <<stream, queueVars, out, notify, ref, foundI, halVars, groupVars, slots,
                   display, pslots, infoVars, cmdVars, resetVars, userVars, historyVars>>

\* 8. h263d_parse of a packet with no picture, or before the first I picture:
\* no output, the task is given up, or becomes an eos task.
Decodable(p) == stream[p].kind # "bad" /\ (foundI \/ stream[p].kind = "I")

ParseNothing ==
    /\ ppc = "slot" /\ UnusedSlots # {} /\ ~tk.parsed
    /\ ~Decodable(tk.frm)
    /\ dropped' = dropped \cup {tk.frm}
    /\ tk' = [NoTask EXCEPT !.prev = tk.prev, !.wait = tk.wait \ {"slot"}]
    /\ pslots' = pslots \ {tk.input}
    /\ ppc' = "check"
    /\ IF tk.eos THEN PutTask("eos", tk) ELSE UNCHANGED <<proc, idle, hpc>>
    /\ UNCHANGED <<stream, queueVars, out, notify, ref, foundI, cur, done, slots, display,
                   infoVars, cmdVars, resetVars, userVars, got, commanded>>

\* fault: the reference is not kept for the hardware
ReferenceNotKept(sl, r) == sl

KeepReference(sl, r) == IF r = 0 THEN sl ELSE [sl EXCEPT ![r].hin = @ + 1]

\* fault: only the first frame is a change
FirstSize(p) == info = 0

SizeChanged(p) == info # stream[p].size

\* A picture takes the first unused slot, refers to the last picture when it is
\* a P picture, becomes the reference and joins the display queue.
ParsePicture ==
    LET p == tk.frm
        s == CHOOSE x \in UnusedSlots : \A y \in UnusedSlots : x <= y
        r == IF stream[p].kind = "P" THEN ref ELSE 0
        entry == [Unused EXCEPT !.used = TRUE, !.codec = TRUE, !.hout = TRUE,
                                !.queued = TRUE, !.frame = p]
        s1 == [slots EXCEPT ![s] = entry]
        s2 == ClearCodecUse(KeepReference(s1, r), ref)
    IN
    /\ ppc = "slot" /\ UnusedSlots # {} /\ ~tk.parsed
    /\ Decodable(p)
    /\ foundI' = TRUE
    /\ slots' = s2
    /\ display' = Append(display, s)
    /\ ref' = s
    /\ infoSet' = stream[p].size
    /\ changed' = (changed \/ SizeChanged(p))
    /\ tk' = [tk EXCEPT !.parsed = TRUE, !.slot = s, !.ref = r,
                        !.rfrm = IF r = 0 THEN 0 ELSE slots[r].frame,
                        !.wait = @ \ {"slot"}]
    /\ notify' = notify \cup FreedBuffers(s2, out, held)
    /\ ppc' = "info"
    /\ UNCHANGED <<stream, queueVars, out, halVars, groupVars, pslots, info, cmdVars,
                   resetVars, userVars, historyVars>>

\* fault: the info change goes with the packet's eos
InfoWithEos == tk

InfoWithoutEos == [tk EXCEPT !.eos = FALSE]

\* 9. a change of size is told once, by a task without eos, then waited for
PutInfo ==
    /\ ppc = "info" /\ changed /\ ~tk.infoGen
    /\ PutTask("info", InfoWithoutEos)
    /\ tk' = [tk EXCEPT !.hnd = FALSE, !.infoGen = TRUE]
    /\ ppc' = "check"
    /\ UNCHANGED <<stream, queueVars, out, notify, ref, foundI, cur, done, slots, display,
                   pslots, infoVars, cmdVars, resetVars, userVars, historyVars>>

WaitInfo ==
    /\ ppc = "info" /\ changed /\ tk.infoGen
    /\ tk' = [tk EXCEPT !.wait = @ \cup {"info"}]
    /\ ppc' = "check"
    /\ UNCHANGED <<stream, queueVars, out, notify, ref, foundI, halVars, groupVars, slots,
                   display, pslots, infoVars, cmdVars, resetVars, userVars, historyVars>>

\* 10. the group has an unused frame buffer
WaitBuffer ==
    /\ ppc = "info" /\ ~changed /\ UnusedBuffers < 1
    /\ tk' = [tk EXCEPT !.wait = (@ \ {"info"}) \cup {"buf"}, !.infoGen = FALSE]
    /\ ppc' = "check"
    /\ UNCHANGED <<stream, queueVars, out, notify, ref, foundI, halVars, groupVars, slots,
                   display, pslots, infoVars, cmdVars, resetVars, userVars, historyVars>>

\* 11. but mpp_buffer_get answers NULL: none that is large enough, or no memory
WaitMatch ==
    /\ ppc = "info" /\ ~changed /\ UnusedBuffers >= 1
    /\ stream \in Unmatched
    /\ tk' = [tk EXCEPT !.wait = (@ \ {"info", "buf"}) \cup {"match"}, !.infoGen = FALSE]
    /\ ppc' = "check"
    /\ UNCHANGED <<stream, queueVars, out, notify, ref, foundI, halVars, groupVars, slots,
                   display, pslots, infoVars, cmdVars, resetVars, userVars, historyVars>>

\* 11, 12. The slot has a buffer; the hardware is started and the task sent to its
\* thread.
PutFrame ==
    /\ ppc = "info" /\ ~changed /\ UnusedBuffers >= 1
    /\ slots' = [slots EXCEPT ![tk.slot].buf = TRUE]
    /\ PutTask("frame", tk)
    /\ tk' = [NoTask EXCEPT !.prev = FALSE, !.wait = tk.wait \ {"info", "buf", "match"}]
    /\ ppc' = "check"
    /\ UNCHANGED <<stream, queueVars, out, notify, ref, foundI, cur, done, display, pslots,
                   infoVars, cmdVars, resetVars, userVars, historyVars>>

-----------------------------------------------------------------------------
(* Hardware thread *)

\* mpp_dec_put_frame of the frame in slot s, without post-processing.
Frame(s, eos) == [frm |-> slots[s].frame, size |-> stream[slots[s].frame].size,
                  eos |-> eos, chg |-> FALSE]

\* fault: tasks to process are not waited for
ProcessedOrNot == TRUE

AllProcessed == proc = <<>>

\* reset_hal_thread, when every task is processed: output what is ready, make
\* the processed tasks idle, answer the parser.
HalReset ==
    LET n == ReadyCount(slots)
        s1 == ClearQueueUse(slots, ToSet(SubSeq(display, 1, n)))
    IN
    /\ hpc = "get" /\ AllProcessed /\ halReset
    /\ out' = out \o [i \in 1 .. n |-> Frame(display[i], FALSE)]
    /\ slots' = s1
    /\ display' = SubSeq(display, n + 1, Len(display))
    /\ idle' = idle + done /\ done' = 0
    /\ halReset' = FALSE
    /\ halSem' = halSem + 1
    /\ UNCHANGED <<stream, queueVars, ppc, tk, notify, ref, foundI, halVars, proc, pslots,
                   infoVars, cmdVars, resetFlag, parserSem, userVars, historyVars>>

\* (TASK_ALL_DONE, which only VP9 waits for, is left out.)
HalSleep ==
    /\ hpc = "get" /\ AllProcessed /\ ~halReset
    /\ hpc' = "asleep"
    /\ UNCHANGED <<stream, queueVars, out, ppc, tk, notify, ref, foundI, cur, groupVars,
                   slots, display, pslots, infoVars, cmdVars, resetVars, userVars, historyVars>>

\* The first task to process; a frame task waits for the hardware and frees the
\* packet slot.
HalRun ==
    LET t == Head(proc) IN
    /\ hpc = "get" /\ proc # <<>>
    /\ cur' = t
    /\ pslots' = IF t.kind = "frame" THEN pslots \ {t.input} ELSE pslots
    /\ hpc' = IF t.kind = "frame" THEN "status" ELSE "push"
    /\ UNCHANGED <<stream, queueVars, out, ppc, tk, notify, ref, foundI, groupVars, slots,
                   display, infoVars, cmdVars, resetVars, userVars, historyVars>>

\* fault: the done task stays among those to process
StillToProcess == proc

Processed == Tail(proc)

\* The task is done.
HalStatus ==
    /\ hpc = "status"
    /\ proc' = Processed
    /\ done' = done + 1
    /\ hpc' = "clear"
    /\ UNCHANGED <<stream, queueVars, out, ppc, tk, notify, ref, foundI, cur, idle, slots,
                   display, pslots, infoVars, cmdVars, resetVars, userVars, historyVars>>

\* The frame is ready and its reference is no longer read.
HalClear ==
    LET s1 == ClearHalInput(ClearHalOutput(slots, cur.slot), cur.ref) IN
    /\ hpc = "clear"
    /\ slots' = s1
    /\ Notify(FreedBuffers(s1, out, held))
    /\ hpc' = "push"
    /\ UNCHANGED <<stream, queueVars, out, tk, ref, foundI, cur, groupVars, display, pslots,
                   infoVars, cmdVars, resetVars, userVars, historyVars>>

\* fault: the last frame is output without eos
NeverEos == FALSE

LastIsEos == cur.eos /\ Len(display) = 1

\* mpp_dec_push_display, frame by frame; the last one gets the task's eos.
HalPush ==
    LET s == Head(display) IN
    /\ hpc = "push"
    /\ ReadyCount(slots) > 0
    /\ out' = Append(out, Frame(s, LastIsEos))
    /\ slots' = ClearQueueUse(slots, {s})
    /\ display' = Tail(display)
    /\ UNCHANGED <<stream, queueVars, ppc, tk, notify, ref, foundI, halVars, groupVars,
                   pslots, infoVars, cmdVars, resetVars, userVars, historyVars>>

\* An info or eos task puts a frame without picture, and is idle.
HalPushed ==
    /\ hpc = "push" /\ cur.kind # "frame"
    /\ ReadyCount(slots) = 0
    /\ out' = Append(out, [frm |-> 0, eos |-> cur.eos,
                          size |-> IF cur.kind = "info" THEN stream[cur.frm].size ELSE 0,
                          chg |-> cur.kind = "info"])
    /\ proc' = Tail(proc)
    /\ idle' = idle + 1
    /\ hpc' = "notify"
    /\ UNCHANGED <<stream, queueVars, ppc, tk, notify, ref, foundI, cur, done, slots,
                   display, pslots, infoVars, cmdVars, resetVars, userVars, historyVars>>

\* fault: the parser is not told that its previous task is done
NotifyHandle == {"hnd"}

NotifyDone == IF cur.kind = "frame" THEN {"hnd", "prev"} ELSE {"hnd"}

HalNotify ==
    /\ \/ hpc = "notify"
       \/ hpc = "push" /\ cur.kind = "frame" /\ ReadyCount(slots) = 0
    /\ Notify(NotifyDone)
    /\ hpc' = "get" /\ cur' = <<>>
    /\ UNCHANGED <<stream, queueVars, out, tk, ref, foundI, groupVars, slots, display,
                   pslots, infoVars, cmdVars, resetVars, userVars, historyVars>>

-----------------------------------------------------------------------------
(* Specification *)

FeederGoesOn == PutPacketNotify \/ ResetNotify \/ ResetFlush
Drainer == GetFrame \/ ControlSend \/ ControlNotify \/ ControlDone
Parser ==
    \/ CheckTaskWait \/ ProcessControl \/ ResetPort \/ ResetParser
    \/ NoTaskLeft \/ TaskWithPacket \/ NoPacket \/ PreparePacket \/ PutEos
    \/ WaitPrevious \/ SlotForParsed \/ ParseNothing \/ ParsePicture
    \/ PutInfo \/ WaitInfo \/ WaitBuffer \/ WaitMatch \/ PutFrame
Hal == HalRun \/ HalStatus \/ HalClear \/ HalPush \/ HalPushed \/ HalNotify \/ HalReset \/ HalSleep

GoOn == FeederGoesOn \/ Drainer \/ (\E p \in held : ReleaseFrame(p)) \/ Parser \/ Hal

Next == PutPacket \/ ResetStart \/ GoOn

Spec == Init /\ [][Next]_vars

\* Some thread goes on while one can: the parser and the hardware thread, and
\* the user's calls once made; the drainer takes frames and frees them.  This is
\* weaker than fairness to each thread, which the system's scheduler gives.
\* Nothing obliges the feeder to put a packet or to reset.
FairSpec == Spec /\ WF_vars(GoOn)

-----------------------------------------------------------------------------
(* Properties *)

Frame0 == [frm : Nat, size : Nat, eos : BOOLEAN, chg : BOOLEAN]
Tasks == [kind : {"frame", "info", "eos"}, frm : Nat, eos : BOOLEAN,
          input : 0 .. TaskCount, slot : Slots \cup {0}, ref : Slots \cup {0}, rfrm : Nat]

\* The variables have their types; the counts of input tasks, hardware tasks and
\* posted semaphores stay in their ranges, and no task is lost (put_packet,
\* hal_task_hnd_set_status).
TypeOK ==
    /\ stream \in Streams /\ sent \in 0 .. Len(stream) /\ resets \in 0 .. MaxResets[stream]
    /\ port \in Seq(1 .. sent) /\ free \in 0 .. PortTasks
    /\ free + Len(port) + (IF eosTask THEN 1 ELSE 0) + (IF inTask THEN 1 ELSE 0) = PortTasks
    /\ idle \in 0 .. TaskCount /\ done \in 0 .. TaskCount /\ proc \in Seq(Tasks)
    /\ idle + done + Len(proc) = TaskCount
    /\ out \in Seq(Frame0) /\ got \in Seq(Frame0)
    /\ slots \in [Slots -> [used : BOOLEAN, codec : BOOLEAN, hin : Nat, hout : BOOLEAN,
                            queued : BOOLEAN, buf : BOOLEAN, frame : Nat]]
    /\ display \in Seq(Slots) /\ pslots \subseteq 1 .. TaskCount
    /\ ref \in Slots \cup {0} /\ foundI \in BOOLEAN
    /\ tk \in [hnd : BOOLEAN, frm : Nat, curr : BOOLEAN, eos : BOOLEAN,
               input : 0 .. TaskCount, copied : BOOLEAN, prev : BOOLEAN,
               parsed : BOOLEAN, infoGen : BOOLEAN, slot : Slots \cup {0},
               ref : Slots \cup {0}, rfrm : Nat, wait : SUBSET WaitBits]
    /\ notify \subseteq Reset
    /\ {info, infoSet} \subseteq Sizes \cup {0} /\ changed \in BOOLEAN
    /\ {cmdStart, cmdDone, halSem, parserSem} \subseteq {0, 1}
    /\ {cmd, resetFlag, halReset, eosTask, inTask, commanded} \subseteq BOOLEAN
    /\ ppc \in {"check", "asleep", "work", "reset", "prev", "slot", "info"}
    /\ hpc \in {"get", "asleep", "status", "clear", "push", "notify"}
    /\ fpc \in {"free", "notify", "resetNotify", "resetWait"}
    /\ dpc \in {"free", "ready", "notify", "wait"}
    /\ {held, dropped} \subseteq SUBSET (1 .. sent)

\* Frame tasks the hardware may still work on, or whose flags are not cleared yet.
Running ==
    {proc[i] : i \in {j \in DOMAIN proc : proc[j].kind = "frame"}}
        \cup (IF hpc = "clear" THEN {cur} ELSE {})

\* Tasks whose slots the parser has marked: parsed, sent, or not yet cleared.
Marked ==
    {[slot |-> t.slot, ref |-> t.ref] :
        t \in Running \cup (IF tk.parsed THEN {TaskInfo("frame", tk)} ELSE {})}

\* The flags of every slot are exactly its holders': the parser for its reference,
\* the display queue, and the tasks that write it or read it.  No slot leaks, and
\* none is freed under a holder, whichever of the parser, the hardware thread and
\* a reset clears its flag last (mpp_buf_slot_clr_flag, reset_parser_thread).
FlagsMatchHolders ==
    \A s \in Slots :
        /\ slots[s].codec <=> ref = s
        /\ slots[s].queued <=> s \in ToSet(display)
        /\ slots[s].hout <=> \E t \in Marked : t.slot = s
        /\ slots[s].hin = Cardinality({t \in Marked : t.ref = s})
        /\ slots[s].used <=> \/ slots[s].codec \/ slots[s].queued \/ slots[s].hout
                             \/ slots[s].hin > 0

\* While the hardware may work on a task, the slot it writes still holds the task's
\* frame and the slot it refers to the frame the parser referred to, both with
\* their buffers: neither was released and taken again (SLOT_HAL_INPUT of
\* mpp_h263_parser_setup_refer).
HardwareOwnsItsFrames ==
    \A t \in Running :
        /\ slots[t.slot].frame = t.frm /\ slots[t.slot].buf
        /\ t.ref # 0 => slots[t.ref].frame = t.rfrm /\ slots[t.ref].buf

\* The H.263 hardware layer has one set of registers: one frame task at a time is
\* between its start by the parser and the end of its wait by the hardware thread
\* (the handshake of step 7.1 with TASK_PROC_DONE).
OneFrameInHardware ==
    \A i, j \in DOMAIN proc : proc[i].kind = "frame" /\ proc[j].kind = "frame" => i = j

\* The parser that asks for a frame slot finds one: H.263's four slots suffice, and
\* the wait bit that no thread notifies is never set (step 7.3).
SlotLeft == ppc = "slot" => UnusedSlots # {}

\* 0 stands for a frame without picture.
Ids(frames) == [i \in DOMAIN frames |-> frames[i].frm]
Displayed == [i \in DOMAIN display |-> slots[display[i]].frame]
Line == Ids(got) \o Ids(out) \o Displayed
            \o (IF tk.curr /\ ~tk.parsed THEN <<tk.frm>> ELSE <<>>) \o port

\* From the drainer back to the port, the packets stand in one line in stream
\* order, and every packet put is in it once, or was refused or discarded: the
\* threads and a reset neither lose, repeat nor reorder one.
PacketsInOneLine ==
    /\ \A i, j \in DOMAIN Line : i < j /\ 0 \notin {Line[i], Line[j]} => Line[i] < Line[j]
    /\ (ToSet(Line) \ {0}) \cup dropped = 1 .. sent
    /\ ToSet(Line) \cap dropped = {}

\* The drainer has received the change to a size before the first frame of it, and
\* no other change in between (readme.txt: the user creates the buffer group
\* "according to the returned info change MppFrame"; step 9, mpp_dec_proc_cfg).
InfoBeforeFrame ==
    \A j \in DOMAIN got : got[j].frm # 0 =>
        \E i \in 1 .. j : /\ got[i].chg /\ got[i].size = got[j].size
                         /\ \A k \in i .. j : got[k].chg => got[k].size = got[j].size

\* One reset, wherever it comes, does not let a frame overtake its size change: it
\* may discard the parsed picture of a change, the change in mFrmOut, or come
\* between a change and its answer. Of two, the first can leave an unanswered
\* change whose answer the second makes that of a change it discards.
InfoSurvivesReset == resets <= 1 => InfoBeforeFrame

\* No frame follows one marked eos: the mark is on the last of the stream though
\* the hardware thread outputs frame by frame (mpp_dec_push_display).
EosIsLast ==
    LET all == got \o out IN
    \A i, j \in DOMAIN all : i < j /\ all[i].eos => all[j].frm = 0

\* When the hardware thread has answered a reset it has processed every task: the
\* parser's abort at "found task not processed" is not reached.
ResetFindsIdle == halSem > 0 => ppc = "reset" /\ proc = <<>>

\* Where a turn of the parser would end as the last one did, waiting.
Blocked ==
    \/ ~HasTask
    \/ ~tk.curr /\ port = <<>>
    \/ tk.curr /\ ~tk.prev /\ done = 0
    \/ tk.curr /\ Len(out) > DisplayLimit
    \/ tk.parsed /\ changed /\ tk.infoGen
    \/ tk.parsed /\ ~changed /\ (UnusedBuffers < 1 \/ "match" \in tk.wait)

\* A thread has yet to notify the parser, of something it waits for.
Waking ==
    \/ dpc = "notify" \/ fpc = "resetNotify"
    \/ fpc = "notify" /\ "pkt" \in tk.wait
    \/ dpc = "wait" /\ cmdDone > 0 /\ "info" \in tk.wait
    \/ hpc \in {"clear", "push", "notify"} /\ {"hnd", "prev"} \cap tk.wait # {}

\* The parser sleeps only in the cases its loop lists: no task, no packet, an info
\* change or no buffer (mpp_dec_parser_thread); or a thread is about to notify it.
SleepsWithCause == ppc = "asleep" => Waking \/ (Blocked /\ ~cmd /\ ~resetFlag)

\* No notification is missed between the parser's looking at a condition and its
\* sleep, unless its last turn went to a command (check_task_wait, mpp_dec_notify).
NoMissedWakeup == SleepsWithCause \/ commanded

\* The parser sleeps on a notification that a command's turn used up.
Robbed == ~SleepsWithCause /\ commanded

\* When reset returns, every packet put before it is out of the decoder: nothing in
\* the port, the tasks, the slots or mFrmOut, so no old frame comes out later
\* (inc/rk_mpi.h: "discard all packet and frame, reset all component").
ResetDiscardsAll ==
    [][fpc = "resetWait" /\ fpc' = "free" =>
        /\ port' = <<>> /\ proc' = <<>> /\ display' = <<>> /\ out' = <<>>
        /\ pslots' = {} /\ idle' = TaskCount
        /\ \A s \in Slots : ~slots'[s].used]_vars

\* The parser waits for a frame buffer that the group could not give it.
Starved == "match" \in tk.wait

\* Every packet put is at last received as a frame, refused or discarded, unless the
\* parser sleeps on a notification that a command's turn used up, or has no buffer.
PacketsComeOut ==
    []<>(1 .. sent \subseteq dropped \cup ToSet(Ids(got)) \/ Robbed \/ Starved)

\* The last packet's eos reaches the drainer on some frame, though it may carry no
\* picture or one the parser refuses, and the display queue may be empty; with the
\* same exceptions.
EosComesOut ==
    []<>(sent = Len(stream) /\ stream[sent].eos /\ resets = 0
            => Robbed \/ Starved \/ \E i \in DOMAIN got : got[i].eos)

\* put_packet, reset and control return: the three semaphores are posted for every
\* caller though commands and resets meet in one thread.
CallsReturn == []<>(fpc = "free" /\ dpc = "free")
=============================================================================
