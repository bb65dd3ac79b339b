# Verification of the beauty box

The repository is the software of a *beauty box*: an Android device that sits
between a camera or streaming app and a live-streaming server. It accepts an
RTMP push on a local port, decodes the video, runs every frame through a beauty
SDK, encodes it again, interleaves it with the untouched audio and pushes the
result to a remote RTMP server. The box runs unattended: it starts at boot,
reads `box.json`, checks for an update and opens the relay.

This directory holds TLA+ models of the parts of that program whose correctness
depends on interleaving, ordering and long sequences of calls, TLC
configurations that check them on small instances, and TLAPS proofs of all their
safety properties for every value of the constants.

## 1. Inventory

| part | source | state | operations | interacts with |
|---|---|---|---|---|
| JNI relay | `MediaLibApp/MediaLib/.../com_medialib_jni_MediaJni.cpp` 455–773 | run flag and queue thread, audio and video queue, timestamps and frame intervals, codec handles | `rtmpBeginPublish`, `rtmpVideoReceiv`, `rtmpAudioReceiv`, `rtmpThreadExitCallback`; `queueThreadFunction`, `decodeFunc`, `toTexture`, `encodeFunc` | callbacks of librtmpsvr (publish thread) and libmycodec (on the queue thread); calls Java for rendering and librtmpsvr's client for sending |
| JNI server life cycle | same file, 774–991 | server and client handles, codec handles, pixel buffer, listener reference, test thread | `setParams`, `openMediaServer`, `closeMediaServer`, `putTestMediaFile`, `stopTestMedia` | called by the UI thread, shares every variable above |
| EGL helpers | same file, 80–290 | EGL context, texture and frame buffer ids, pixel buffer | `initEGLContext`, `loadTextureIds`, `getGluBuf` and their releases | queue thread; also `closeMediaServer` |
| activity | `app/.../MainActivity.kt` | configuration, beauty adapter | permissions, `surfaceCreated`, `surfaceDestroyed`, `onDestroy`, render callbacks | UI thread opens and closes the server; queue thread calls `onRender...` |
| beauty adapters | `app/.../mysdk/` | one vendor engine | `init`, `reinit`, `renderTextureId`, `renderBuffer`, `unInit` | render calls on the queue thread, `unInit` from either thread |
| self-update | `updateLibrary/.../UpdateMgr.kt` | version map, progress, cancel flag, save path | `checkUpdate`, download thread, install message | HTTP server, UI message queue, package manager |
| configuration, utilities | `app/.../obj`, `util`, `receiver` | a settings object | file and JSON reads | activity |
| MPP node scheduler | `mpp-develop/mpp/base/mpp_cluster.cpp` | state word, semaphore and list link of each node, one queue, workers | attach, trigger, detach; workers take, run and requeue | any codec thread against worker threads |
| MPP task queues | `mpp-develop/mpp/base/mpp_task_impl.cpp` | status lists of tasks, ports | poll, dequeue, enqueue | application against codec threads |
| MPP buffer slots | `mpp-develop/mpp/base/mpp_buf_slot.cpp` | flags, references and queues of frame slots | set and clear flag, enqueue, ready, info change | parser, HAL and output threads |
| MPP buffer groups | `mpp-develop/mpp/base/mpp_buffer_impl.cpp` | reference counts, used and unused lists, groups and orphans | get, put, reset, deinit | all codec threads, several sessions |
| MPP decoder threads | `mpp-develop/mpp/mpp.cpp`, `codec/mpp_dec.cpp`, `hal/hal_task.cpp`, `codec/dec/h263` | wait bits, notify flags and status bits of the parser's task, task lists of the hardware thread, reset counters, `mFrmOut` | `put_packet`, `get_frame`, `reset`, `control`; the parser's and the hardware thread's loop | task queues, slots, buffer groups, hardware |
| MPP encoder threads | `mpp-develop/mpp/codec/mpp_enc_v2.cpp`, `mpp_enc_impl.cpp` | notify flags, control semaphore, rate control passes | encoder loop, reset, control | task queues, hardware |
| MPP parsers, HAL, osal, tools | `mpp-develop/mpp/hal`, `codec`, `osal` | data formats, registers, primitives | sequential | – |
| vendored and prebuilt | librtmpsvr, libmycodec, librtmp, libyuv, byted, mhui, SDK archives | – | – | external |

The hard behaviours of each part, and what would make it correct:

* **JNI relay.** Two threads share plain static variables. The queue thread
  polls both queues without a lock, keeps a copy of the head while it is worked
  on and pops afterwards; the publish thread pushes meanwhile, measures the frame
  interval the other thread's output clock uses, and joins the other thread at
  the begin and the end of a session. Correct means: audio leaves once and in
  order, video in order, each on the right side of the other; nothing crosses
  sessions; one queue thread at a time; the joins return.
* **Server life cycle.** Codecs, textures and buffers are released by the UI
  thread before the other threads are stopped. Correct means: nobody uses a
  released handle, a server can be opened again after it was closed or failed
  to open, the UI thread never waits for itself.
* **Beauty adapters.** Check-then-act on the engine from two threads.
* **Self-update.** A download loop ended by a flag, an end of stream or an
  exception, and an install message that overtakes the close of the file.
  Correct means: what is installed is the closed, whole file, and the loop ends.
* **MPP node scheduler.** Compare-and-swap on a state word, decisions from a
  read that may be stale, two kinds of wakeup, a semaphore hand-off before a
  free. Correct means: a task is in one place, a queued task is run, a trigger is
  served, a detached node is gone and detach returns.
* **MPP decoder threads and frame slots.** Four threads – feeder, parser, hardware
  thread, drainer – hand packets, tasks, slots and frames on. The parser returns from
  any of twelve steps to wait, and remembers where it was in status bits; a slot is
  freed by whoever clears its last flag; a size change and a reset cross all
  threads. Correct means: frames come out once and in order, none after its eos,
  none before its size was told; a slot in the hardware is not reused; a reset
  leaves nothing behind; nobody sleeps with work to do.
* **MPP buffer groups.** References are counted under one lock and lists changed
  under another; limits are read under none; the owner may clear or put the
  group at any time. Correct means: lists, counters and holders agree, no buffer of
  an old size is handed out, a group lives as long as its buffers and no longer.
* **MPP task queues, encoder threads.** State machines under one lock per object
  whose callers hand tasks from thread to thread. Correct means: a task has one
  owner, and every wait is signalled.
* **Configuration, utilities, parsers.** Sequential; unit tests reach them.

Every part is a component in `PROJECT.json`, with what is not modelled and why;
its `hazards` list gives the source line at which each hard behaviour bites.

## 2. Modules

| module | what it is |
|---|---|
| `MediaRelay` | the JNI relay: publish thread and queue thread |
| `RelayContract` | what the relay promises the upstream server, without threads or queues |
| `MCMediaRelay` | instances of `MediaRelay`, the refinement mapping, a paced publisher |
| `MediaRelayProofs` | theorems about `MediaRelay`: types, threads, sessions, order of audio |
| `RelayOrderProofs` | theorems about `MediaRelay`: frames, audio around them, clock; the contract is implemented |
| `MppCluster` | the node scheduler: clients, workers, queue |
| `MCMppCluster` | instances of `MppCluster` |
| `MppClusterProofs` | theorems about `MppCluster` |
| `MppDecoder` | the decoder pipeline: feeder, parser, hardware thread, drainer |
| `MCMppDecoder` | streams for `MppDecoder` |
| `DecoderSlotProofs` | theorems about `MppDecoder`: handshake of the threads, tasks and frame slots |
| `DecoderOrderProofs` | order of the packets, end of the stream, what a reset leaves, types |
| `DecoderInfoProofs` | a change of size before its frames |
| `DecoderWakeProofs` | no missed wakeup of the parser |
| `MppBuffer` | a buffer group: getter, threads with references, owner |
| `MCMppBuffer` | instance of `MppBuffer` |
| `MppBufferProofs` | theorems about `MppBuffer` |

Each model also contains a few operators commented `fault:`. They are not part
of the specification: each is one plausible mistake in the definition that
follows it, and putting it in that definition's place makes a named property fail
(`mutants` in `PROJECT.json`). They document what each property is sensitive to.

### 2.1 MediaRelay

State. The variables are the file's static variables under shorter names (`run`
is `_queueThreadRun`, `curTs` is `_curVideoTimestamp`, `orgTs` is
`_orgVideoTimestamp`, `fpsUnit` and `orgFpsUnit` the two intervals, `videoQ` and
`audioQ` the queues, `decoder` and `encoder` whether the handles are non-zero),
two program counters (`rpc` for the publish thread, `qpc` for the queue thread),
the locals that live across a step (`frame`, `hasSent`), the setting `enableCodec`,
and history: what went upstream (`sentV`, `sentA`), the video packets that
`rtmpVideoReceiv` refused (`refused`) and the frames the codec gave up (`givenUp`).

Actions.

| code | actions |
|---|---|
| `rtmpBeginPublish` | `BeginPublish`, `BeginJoined`, `BeginStart` (before, at and after the join) |
| `rtmpThreadExitCallback` | `ExitCallback`, `ExitJoined` |
| `rtmpVideoReceiv`, `rtmpAudioReceiv` | `RefuseVideo`, `ReceiveVideo`, `ReceiveAudio` |
| `createVideoCodec` on the queue thread | `ReleaseOldCodecs`, `CreateCodecs` |
| loop of `queueThreadFunction` | `TakeVideo`, `PopVideo`, `StopLoop`, `cleanQueue` |
| `decode_to_rgba` and its callbacks | `FrameEncoded`, `FrameLost`, `DecodeReturns` |
| `encodeFunc` | `EncodeStart`, `SendAudio`, `PopAudio`, `AudioLoopEnds`, `EncodeEnd` |

Abstractions.

* A video packet is its serial number; once queued nothing else of it is read.
  An audio packet keeps the timestamps `encodeFunc` compares. Payloads, logging
  and the measurement of delays are left out.
* Timestamps are `uint32_t`; `TsMod` stands for 2^32 and every addition wraps.
* The callbacks of a publish come one at a time, from the library's publish
  thread, and packets come only between begin and exit. That is how the library
  is used by the file; its own code is prebuilt.
* Reads of the queues without their mutex are atomic here. A stale answer of
  `empty()` equals an answer given earlier, which the interleaving covers. A torn
  read is undefined behaviour with no outcome to enumerate; it is in the hazards.
* Each receive callback is one action. Inside it only `_fpsUnit` and the queue are
  read by the other thread, and `encodeFunc` reads `_fpsUnit` in a step of its own.
* The codec is external: fed a packet it may produce frames at once, later or
  never (`CodecMayHold`, `FrameMayBeLost`), in order; and it may not be made
  (`CodecMayFail`). `_enableCodec` is set before the server is opened; with it off
  packets go to `encodeFunc` as they are.
* The sleep of the empty loop is a stutter. So is the spin of the audio loop on a
  packet bound to a later frame: it changes nothing and no action is enabled.
* The model begins when `openMediaServer` has succeeded and has no
  `closeMediaServer`.

### 2.2 RelayContract

Five variables: whether a session is served, how much was received and what
was relayed. Its only relaying step appends the oldest audio packet not yet
relayed, some frame later than all relayed so far, or both.
`MCMediaRelay!ImplementsContract` is its specification under the mapping in
`MCMediaRelay`: serial numbers of the history, and `served` while the queue thread
is between its start and `releaseVideoCodec`.

### 2.3 MppCluster

State. `st` is the node's state word as a set of its `NODE_` flags; `queue` the
task list of the cluster; `wpc`, `task`, `seen`, `wstate`, `locked`, `woken` a
worker's position, task, the state word it read, its `WORKER_` state, its mutex and
its condition variable; `cpc`, `cnode`, `then`, `at` a client's position in
`mpp_node_task_schedule_f`, `cluster_signal_f` or `mpp_node_task_detach`. `owed`
and `gone` are history.

Grain. Every access to the state word is a step of its own, because that is
where threads race: the swap of schedule (`ScheduleCas`), of get (`GetTask`), of
requeue (`Requeue`) and of idle (`ToIdle`), the read after the procedure
(`ReadState`) and the reads of the assertions (`AssertIdle`). Each lock section
is a step (`Enqueue`, `ReAdd`, each worker `Signal` looks at), and going to sleep
is two: `GetNone`, which keeps the mutex, then `Sleep`, which gives it up.
`Requeue` compares with the value `ReadState` saw and the code never reads it again:
when the word has changed the worker spins, and no action is enabled.

Abstractions. One cluster with its one priority and a batch of one, as compiled.
Spurious wakeups are left out: they can only repair a lost wakeup, so leaving
them out is the harder case. The shutdown of workers and a second attach of a
node are not modelled. A client triggers only nodes it knows to be attached.
The unknown-state branch of schedule swaps the word to 0 as the code does; no
reachable state takes it, because a destroyed node keeps `NODE_RUN`, and a late
trigger only sets `NODE_SIGNAL` on it. `DetachedIsGone` says how far a detached node
is gone: it is in no list and nobody is about to queue it. What it leaves open, and its
comment names, is a worker that made the node idle and is at the assertions of lines
525 and 526, and a trigger that has yet to read the state word: both touch memory the
caller may have freed.

### 2.4 MppDecoder

State. `port`, `free`, `eosTask`, `inTask` are the input task queue and the two tasks
`put_packet` keeps reserved; `out` is `mFrmOut`. `tk` is the parser's `DecTask`: its
packet, its status bits (`prev` is `prev_task_rdy`, `parsed` is `task_parsed_rdy`,
`infoGen` is `info_task_gen_rdy`) and its wait bits; `notify` is
`parser_notify_flag`; `ref` and `foundI` are the H.263 parser's. `cur` is the task in
the hardware thread; `idle`, `done`, `proc` the lists of the task group. A slot is a
record of its flags (`codec`, `hin`, `hout`, `queued` for `SLOT_CODEC_USE` to
`SLOT_QUEUE_USE`), whether it has a buffer, and the frame in it; `display` is
`QUEUE_DISPLAY`, `pslots` the used packet slots; `info`, `infoSet`, `changed` the
information change. `cmd` … `cmdDone` and `resetFlag` … `parserSem` are the counters
and semaphores of control and reset. `ppc`, `hpc`, `fpc`, `dpc` are positions of the
four threads; `got`, `dropped`, `commanded` are history.

| code | actions |
|---|---|
| `Mpp::put_packet` | `PutPacket`, `PutPacketNotify` |
| `Mpp::reset`, `mpp_dec_reset` | `ResetStart`, `ResetNotify`, `ResetFlush` |
| `Mpp::get_frame`, `mpp_frame_deinit` | `GetFrame`, `ReleaseFrame` |
| `mpp_dec_control`, `control_dec` | `ControlSend`, `ControlNotify`, `ControlDone` |
| `mpp_dec_notify`, `mpp_dec_callback` | `Notify`, part of the action that calls it |
| loop of `mpp_dec_parser_thread`, `check_task_wait` | `CheckTaskWait`, `ProcessControl` |
| `reset_parser_thread` | `ResetPort`, `ResetParser` |
| `try_proc_dec_task`, steps 1–6 | `NoTaskLeft`, `TaskWithPacket`, `NoPacket`, `PreparePacket`, `PutEos` |
| steps 7–8, `h263d_parse` | `WaitPrevious`, `SlotForParsed`, `ParseNothing`, `ParsePicture` |
| steps 9–12 | `PutInfo`, `WaitInfo`, `WaitBuffer`, `WaitMatch`, `PutFrame` |
| `mpp_dec_hal_thread` | `HalRun`, `HalStatus`, `HalClear`, `HalPush`, `HalPushed`, `HalNotify`, `HalSleep` |
| `reset_hal_thread` | `HalReset` |

Grain. A step ends where its thread next reads something another thread may have
changed, or takes a lock another thread contends for; what lies between is one
action. The parser's task goes through at most five such steps (`work`, `prev`,
`slot`, `info`, `check`).

Abstractions. A packet is its number in a stream that is fixed at the start and says of
each packet whether it is an I picture, a P picture, unusable or empty, its size and
whether it has eos. H.263 is the parser modelled: it is the one with the least syntax
and exactly the parser–slot protocol of the others. A frame buffer is counted, in slots,
in `mFrmOut` and with the user, against the limit of its group; `MppBuffer` has the
group itself. In the streams of `Unmatched` the group may answer NULL for a picture
although it counts an unused buffer (`WaitMatch`, lines 1081–1102): it holds buffers of
another size, or memory ran out. Whether it does is a free choice each time. Packet
slots and their buffers are simpler: with as many slots as tasks an idle task finds an
unused one – `PreparePacket` waits for one if it does not, and then `PacketsComeOut`
would fail – and the group of the packet buffers, whose limit is above the number of
slots, is assumed to have memory (lines 903–916). The command is
`MPP_DEC_SET_INFO_CHANGE_READY`, the one a user must give. Left out: fast mode, split
mode, post-processing, other commands, start and stop, and two threads that reset at
once.

### 2.5 MppBuffer

State. `lists` is the group's `list_used` and `list_unused` with its four counters,
`size`, `ref`, `discard` the fields of each buffer, `held` the references that threads
really have. `releasing` are the buffers whose count came to 0 under their own lock and
whose thread has not yet taken `buf_lock`; `taken` is the one whose thread has, and has
unlinked it. `group` is where the group is in its life: live, being put (`walked`,
`leaving`), an orphan, or gone. `gpc`, `want`, `promised` are the getter's; `old` is
history.

| code | actions |
|---|---|
| `mpp_buffer_group_unused`, read by step 10 of the parser | `Look` |
| `mpp_buffer_get_with_tag`, `mpp_buffer_get_unused` | `GetUnused` |
| `mpp_buffer_create` | `CreateAlloc`, `CreateFail`, `Insert` |
| `mpp_buffer_ref_inc`, `mpp_buffer_ref_dec` to the search of the group | `IncRef`, `PutRef` |
| `put_buffer` of a used buffer: the unlinking at 244; the rest | `Unlink`; `Release` |
| `mpp_buffer_import_with_tag`, as commit and as import | `Commit` |
| `mpp_buffer_group_clear` | `GroupClear` |
| `put_group`: the walk of `list_unused`; the test at 968, with `destroy_group`; the mark at 999 | `GroupPut`; `Decide`; `MarkOrphan` |

Grain. One action per section of `buf_lock`, with two exceptions. The reads of the
limits at 355 are outside it and are a step before the insertion. And `put_group` does
not take it, only the service's lock, so that its three steps come between the two of a
`put_buffer`; the search of the group in `mpp_buffer_ref_dec` does need the service's
lock (`ServiceLockFree`). What is left out of that race is its undefined part, a counter
or link that `put_group`'s walk and a `put_buffer` write at once: no property looks at a
counter from the walk on, except `DestroyedEmpty`, which is violated without it. After a
group was destroyed under a thread in `put_buffer` that thread has no further step.
Abstractions: allocation succeeds or fails; the callback of a freed buffer is
`FreedBuffers` in `MppDecoder`; the service's table of groups, misc lookup and forced
release are left out.

## 3. Runs

Deadlock is not checked in any run: a publisher may stop publishing, sessions and
triggers are bounded, the two spins are states without a step, the feeder stops after
its stream, and buffers are bounded.

| run | what it asks | instance |
|---|---|---|
| `relay_safety` | type, order, loss, placement, sessions, clock, contract | 2 sessions, 3 video and 2 audio packets each, `_enableCodec` on and off, a codec that is lossy, late or not made, intervals of 1 and 3, metadata or none, clock wraps at 5 |
| `relay_paced` | joins return, packets are taken, `encodeFunc` ends | 2 sessions; `_enableCodec` on and off, a codec that may not be made; video at any pace until the first audio, then a publisher the relay keeps up with |
| `relay_spin` | *violated:* the frame is sent (line 539) | 3 video packets, any pace |
| `cluster_safety` | the six safety properties; a queued node runs | 1 node, 2 clients, 2 workers, 1 trigger each, detach |
| `cluster_lost_trigger` | *violated:* a trigger is served (477) | 1 of each |
| `cluster_detach_hang` | *violated:* detach returns (`mpp_cluster_test.c` 82–98) | 1 of each |
| `decoder` | ownership of slots, order of frames, eos, size change under one reset (`InfoSurvivesReset`), wakeups of the parser, reset; packets come out, calls return | 5 streams of 2–4 packets, one reset in all but the longest, 4 slots, 2 tasks, 2 frame buffers, none fitting for a while in the stream with two sizes, `mFrmOut` limited to 1 |
| `decoder_lost_notify` | *violated:* the parser sleeps only in the listed cases (`mpp_dec.cpp` 171–177) | 5 packets, the last of a new size; `mFrmOut` limited to 4 as in the code |
| `decoder_stale_answer` | *violated:* a frame follows the change to its size (`readme.txt` 352, `mpp_buf_slot.h` 114) | 3 packets with a change of size, two resets |
| `buffer` | lists, reuse, limits, the group found by who puts a buffer | a group of each kind, limit 2, 3 buffers, 3 sizes, 2 references |
| `buffer_destroyed` | *violated:* a group is destroyed when it has no buffer (`mpp_buffer_impl.cpp` 1013–1014) | 2 buffers |
| `buffer_orphan` | *violated:* an orphan group waits for a release (`mpp_buffer_impl.cpp` 995) | 2 buffers |

Why the bounds are enough. In the relay one packet of each kind in work, one
queued behind it and one arriving meanwhile is every relation the code can tell
apart, since it looks at heads only; two sessions are what a leftover needs; a
modulus of 5 with steps of 1 and 3 makes timestamps and clock wrap at different
frames, one of 8 leaves room for timestamps that do not. In the scheduler one node with two
clients and two workers has every pair of racing accesses to a state word, and a
trigger of each with attach and detach reaches a signalled and requeued node; more
triggers, nodes and workers are covered by the proofs. In the decoder the streams are one
for each way through the twelve steps: pictures that refer to the last one, a new
size, pictures lost before the first I picture, an unusable and an empty last packet;
two buffers and a limit of 1 make the parser wait for each of them, two tasks are
the code's number without fast mode, four slots the H.263 parser's. A buffer group
with a limit of 2 and three buffers reaches its limit, frees what is too small and makes
another; three sizes make one buffer too small, fitting and too large for the
limit; two references are what a put that is not the last needs. The theorems of section 4
remove the bounds for the properties they state.

What the violations show.

* `relay_spin`: when a frame is relayed after a later video packet and its audio
  were received – a relay a single frame behind – the audio at the head is bound
  to a later timestamp. The loop's first test does not break for it, its second
  does not pop it, and the queue thread spins. The join of
  `rtmpThreadExitCallback` then waits for ever. `relay_paced` shows the three
  liveness properties for a publisher that sends video at any pace until its first
  audio, and from then on lets the relay finish a frame before the next. It may begin and
  end sessions at any time, served ones too, and finds its packets refused where no
  decoder could be made. Only refusals while the codecs are being made again are left out
  of it: after one the first frame relayed is stamped 0, audio is bound to later
  timestamps, and the relay spins as above.
* `cluster_lost_trigger`: a trigger in the window between the read at line 491 and
  the swap at 523 sets `NODE_SIGNAL` on a node that then goes idle. It is served
  only if another trigger comes.
* `cluster_detach_hang`: detach in that window leaves nobody to post; in the
  requeue branch it leaves the worker spinning as well.
* `decoder_lost_notify`: `check_task_wait` clears every flag, also in the turn that then
  goes to a command and looks at nothing else. The drainer empties a full `mFrmOut` down
  to the info change and answers it in the parser's one turn: the parser then sleeps
  with `dis_que_full` set and an empty `mFrmOut`. `NoMissedWakeup` of run `decoder` shows
  that a command's turn is the only way to lose a wakeup; the liveness properties
  `PacketsComeOut` and `EosComesOut` allow just that state (`Robbed`), and that of a parser
  whose group has no buffer that fits (`Starved`).
* `decoder_stale_answer`: an answer to a size change takes over whatever size the parser
  has learnt last (`mpp_buf_slot.cpp` 775), and a reset forgets no change. Of two resets
  the first can leave a change that is received and not answered; its answer then accepts
  the next change, which the second reset has discarded, and frames of that size come out
  with no change told. `InfoSurvivesReset` shows that one reset is not enough for it.
* `buffer_destroyed`: a thread in `put_buffer` has unlinked the last used buffer and not
  yet counted it; the owner, who does not take `buf_lock`, finds `list_used` empty and
  destroys the group, with `count_used` still 1, while that thread goes on to write to
  it. `GroupFound` of run `buffer` shows that this is the only window: whoever has a
  reference, or put the last one and is yet to take `buf_lock`, is counted by the list
  and finds the group.
* `buffer_orphan`: the decision to reuse a buffer does not look at `is_orphan`, so the
  last buffer of a group that becomes an orphan goes to its unused list and the test that
  would end the group is not reached. A discarded one, which is freed, reaches it; but
  between the owner's test at 968 and its mark at 999 it finds `is_orphan` still 0.

Three more places where code and comment differ are modelled as the code has them
and listed as hazards, without a run of their own: the one-bit flag compared with a
timestamp (`com_medialib_jni_MediaJni.cpp` 520), the interval that is not recorded
when audio comes first (748; `SteadyClock` bounds the clock by the interval that is
recorded, whichever it is), and the
assertions that read the state word again (`mpp_cluster.cpp` 525).

Fairness. `MediaRelay!Fairness` is weak fairness of the queue thread, of the
returns of the joins and of the rest of a begun callback: the operating system
schedules a runnable thread, and a join whose thread has ended returns. That the
publisher sends or ends a session is never assumed. `MppCluster!Fairness` is
weak fairness of each worker and of the steps of a call a client has begun; no
client has to begin a call. Weak fairness is enough as no step of a thread
waits for a condition that others switch on and off for ever: the one that comes
and goes is a worker's mutex in `Signal`, and with finitely many triggers the
worker comes to its sleep, where it has given the mutex up. `MppDecoder!FairSpec` is
weak fairness of `GoOn`, all threads together without a new call of the feeder: some
thread goes on while one can. That is less than fairness of each thread, which the
operating system gives; it includes the drainer, as frames cannot come out of a
decoder from which nobody takes them.

## 4. Proofs

Every safety property a passing run checks – the invariants, `ResetDiscardsAll` and the
refinement `ImplementsContract` – is a theorem, proved for every value of the
constants that satisfies the named assumptions of its model: types of the
parameters, a positive modulus, video intervals below it, at least one worker, a
`None` that is no node, streams whose last packet alone may carry eos. Bounds on
sessions, packets, triggers, resets, buffers and references are arbitrary numbers in
them. One theorem has a hypothesis of its own, `SlotFound`: four slots or more, the number
`h263d_parser.c` 230 sets up.

Each inductive invariant was checked by TLC on the instances of section 3 before it was
proved. They are conjunctions of named parts, one for each idea; a step that preserves
one is split into a lemma per action and part.

### 4.1 The relay

`MediaRelayProofs`:

* `TypeCorrect` – the type invariant, with `OneThreadPerSession`. Alone it is not
  inductive: `Tail` and `Head` are typed only on non-empty queues, and that the
  queue thread has its head depends on nobody else popping. The invariant `Types`
  adds `HeadsHeld` (while the thread works on a packet the packet is in its
  queue) and the typed history; only `cleanQueue` could disturb it, which the
  thread's own position excludes.
* `OneThread` – `OneThreadPerSession` alone, from the same invariant: a `std::thread` is
  never assigned while joinable.
* `NothingIsLeft` – `ThreadLeavesNothing`. The strengthening `Leftovers` says
  what is already gone at each of the thread's last steps and that nothing is
  received until it serves again, which `OneThreadPerSession` gives.
* `AudioOrder` – `AudioOnceInOrder`, from the two above. The cases that matter are
  a push between send and pop (the tail of an append is the append of the tail),
  the pop, and the begin of a session.

`RelayOrderProofs`, on top of them:

* `VideoOrder` – `VideoOnceInOrder`: frames in order, each at most once
  (`VideoInOrder`), and while the session is served none lost but the refused and those
  the codec gave up (`FramesAccounted`). Its strengthening `Line` puts all frames of a
  session in one line (`OneLine`: those in the codec before those the thread has not
  looked at, each part increasing) and says where the frame at hand stands in it
  (`FrameAtHand`: after all relayed, before all to come). Without the codec's part a
  frame it held could come out after a later one. `Accounts` follows each frame from
  queue to codec to `encodeFunc` to upstream; a hand-over of one place to the next
  leaves the union alone.
* `AudioPlaced` – `AudioAroundItsFrame`: of audio it says where the packets sent in a
  call of `encodeFunc` stand around that call's frame, and that the frame goes out; not
  in which call a packet is sent, which depends on the codec's pace. While `encodeFunc`
  is at work, what this call has sent is bound to a time not after its clock
  (`CallAtHand`); frames sent later have a larger number by `Line`.
* `Clock` – `SteadyClock`: of a session in which nothing was refused. What is measured
  last lies within the publisher's intervals, so the mean with the recorded one does, if
  that one does; `ClockInv` says so, and that `encodeFunc`'s clock is at the last frame
  sent or at the one at hand. A constant interval is the case without drift.
* `Implements` – the refinement: `ImplementsContract`, step by step (`ContractStep`): each
  action of the two threads is a step of `RelayContract` or a stutter under the mapping
  of `MCMediaRelay`. A relayed frame is later than all relayed before by `Line`, a relayed
  packet the oldest by `AudioOnceInOrder`.

### 4.2 The scheduler

`MppClusterProofs` has one inductive invariant, `Inv`:

* `TypeOK`, and `NodesKnown`: a client inside a call and a worker past get have a
  node;
* `TaskInOnePlace`;
* `PlaceHasState`: the flags of each place, in both directions – `WaitingIsQueued`
  is one of its consequences. Without the direction from flag to place
  `TaskInOnePlace` is not inductive, because the swap of schedule decides from the
  flags that the task is nowhere;
* `Lives`: how `attached`, the semaphore and `gone` go with the place of an
  invalid node;
* `Wakeups`: `NoLostWakeup` with the mutex – a worker between finding the queue
  empty and sleeping holds its mutex, so a client that has just queued either comes
  to its `Signal` after the worker sleeps, or the worker is still awake.

Moves of a task are factored: `ScheduleCasMoves` … `ToIdleMoves` say where each
action puts a task, `OthersMoveNothing` that the rest leaves all places alone, and
`PlaceStep` combines them. Theorems: `TypeCorrect`, `OnePlace`, `StateAgrees`,
`NoneForgotten`, `WakeupsArrive`, `DetachIsFinal`, that is, all safety properties of
`cluster_safety`. `DetachIsFinal` says of a worker that it can still have the node at its
assertions only, and of a trigger that it will not queue it.

### 4.3 The decoder

Four modules, each extending the one before (the last two both extend the second);
all results hold for every stream, any number of tasks, slots and buffers, and resets at
any point.

`DecoderSlotProofs` has two invariants. `IInv` is the handshake of parser and hardware
thread: `Handshake` (a frame task to process, or done and not taken back, is one
the parser knows it sent; the step that starts the next is reached only with
`prev_task_rdy`), `AtWork` (the task the hardware thread works on is the first of
those to process – without it taking the wrong task off the list could not be
excluded), `ResetAnswer` (a reset is asked for and answered once, with no task left).
`OneFrame` and `ResetIdle` follow: `OneFrameInHardware` and `ResetFindsIdle`.

`DInv` adds the slots: what the feeder has sent (`Fed`), what the parser's task and the
task group can be (`Parses`, `Group`), how a reset goes on (`Resets`), and then

* `Flags` – each flag of each slot has its holder and each holder its flag; this is
  `FlagsMatchHolders`, but with the slots' `used` and the steps in between;
* `Chain` – at most one frame is pending in the hardware, it is the parser's reference, and
  the one the hardware thread is clearing is the reference of the pending one;
* `Shape` – the display queue is the picture being output followed by the pending one: at
  most two. It replaces reasoning about a queue of any length;
* `Hardware` – slots of the tasks hold the frames of the tasks, with their buffers.

`FlagsMatch`, `FramesStay` and `SlotFound` follow: `FlagsMatchHolders`,
`HardwareOwnsItsFrames`, and `SlotLeft`, since by `Chain` and `Shape` at most three
slots are used.

`DecoderOrderProofs` – `OInv` adds to `DInv` the users and the queues (`Controls`,
`Queue`, `Outputs`, `Known`, `PacketSlots`), what a parser that has answered a reset has
left (`Quiet`), the line of packets and its end:

* `Ordered` – received, output, on display, at hand, in the port: each part increasing and
  each part below the next; `Kept` – every packet put is in the line or was dropped, never
  both. With `Shape` it gives `InOneLine`: `PacketsInOneLine`;
* `LastTask` – a task with eos is the last, and its frame is the last of the display queue.
  `EosMarksTheLast` follows: `EosIsLast`.

`Types` is `TypeOK`; `ResetDiscards` is the action property `ResetDiscardsAll`, from
`Quiet` with `Queue` and `Flags`.

`DecoderInfoProofs` – `SInv` adds what is known of sizes: what the parser has learnt
(`Learnt`), that a change goes before the frame that waits for it (`OneInfo`), the frame
being output (`Drains`); until the first reset returns one change is under way at a
time, from the task to the answer (`OneChange`); and while the user has reset at most
once, the last change told before a frame is to its size (`Told`). `InfoFirst` follows:
`InfoSurvivesReset`. The condition is not a weakening of the proof's: with two resets
the statement is false, which is what `decoder_stale_answer` shows.

`DecoderWakeProofs` – `WInv` adds to `OInv` when each wait bit may be set (`WaitShape`);
that a parser which is to sleep waits for something whose cause still holds, or of which
it is notified or will be (`Awaits`); and that a sleeping one has been told nothing yet
and a reset or command finds it awake or wakes it (`Asleep`). `NoneMissed` follows:
`NoMissedWakeup`. The hard step is `HalPush`, where a frame's buffer moves from its slot
to `mFrmOut`: that the number of unused buffers stays needs the slots' and frames' sets
to be finite and their sizes to add up.

### 4.4 The buffer group

`MppBufferProofs` has one inductive invariant, `IInv`: the types (`Typed`), the counters
against the lists (`Books`), lists and references against the threads that have them
(`Holders`), that every buffer made has a size (`SizesGiven`), when a group ends
(`Ends`), what of an old size is still used (`OldDiscarded`), and the room for a
promised buffer (`Promise`). Theorems: `Types`, `Accounts`, `GroupThere`, `OldGone`,
`PromiseHolds`, that is, all properties of run `buffer`. `GroupThere` is `GroupFound`,
and holds because a buffer somebody has, or put and has not unlinked, is still in the
list `put_group` tests.

The usage of a group is a recursive sum over its lists. `Total` says it without
recursion: a sum is the last of its partial sums, and appending or removing an element
is an operation on them.

### 4.5 What is only model-checked

The liveness properties: `JoinsReturn`, `PacketsAreTaken`, `EncodeSendsVideo`,
`QueuedRuns`, `PacketsComeOut`, `EosComesOut`, `CallsReturn`. The prover handles neither
`ENABLED` nor weak fairness, so they stay with the runs of section 3; so do the seven
violations, each of which is one behaviour.

Induction schemes with an operator parameter cannot be used by the installed provers.
Where an induction is needed – sums, the first large enough buffer, the frames in a
sequence – it is one over a set of numbers (`NatSetInduction`, from well-foundedness) or
avoided by a closed form.

## 5. Plan

Done: the relay, which is what the box is for; the scheduler, whose state word is the
densest concurrency in the tree; the decoder pipeline with its frame slots; the
buffer group; proofs of all their safety properties. Next, in this order:

1. An abstract decoder: a line of packets of which a prefix has come out as frames, some
   dropped, size changes told before the frames they concern, emptied by a reset – and the
   refinement of it by `MppDecoder`, from `OInv`. `RelayContract` is the pattern.
2. `TaskQueue`: the status lists and waits of `mpp_task_impl.cpp`, with an abstract
   specification (a task has one owner) it refines, under `MppDecoder`'s `port`.
3. `MediaServer`: open, close, re-open and the test file on the UI thread against
   publish and queue threads; ownership of each handle as state, with the life
   cycle of `MainActivity` and of the adapters' engine. No handle is used after its
   release, each is released once per open, the UI thread never waits for itself.
4. `UpdateMgr`: check, download, install. What is installed is closed and whole,
   cancel is final, the loop ends.
5. The encoder threads, on the structure of `MppDecoder`.

## 6. Not modelled, and why

* Librtmpsvr, libmycodec, the GL driver, the vendor engines and the hardware:
  not in the tree or third-party; modelled only as the code uses them.
* Most of the tree's source lines are data formats: bit stream syntax of eleven
  codecs, register layouts of as many hardware generations, rate control tables,
  vendored libraries. They are sequential code over data, within reach of unit
  tests, and no state of theirs meets another thread except through the interfaces
  modelled here. The models cover a small share of the lines for that reason.
* Parsers other than H.263's: they differ in syntax and in the number of references,
  and use the same slot calls.
* Bits and buffers, JSON, preferences, views: the same.
* Memory: leaks (`js2c`, `_jcallBack`), torn reads of `std::queue`, torn counters of a
  buffer group that is put, the use of a group after it was freed (`mpp_buffer_impl.cpp`
  505), failing memory of packet buffers.
* Real time: sleeps, measured delays and CPU binding, which only affect pace.
* Section 5 lists what is not modelled yet.
