----------------------------- MODULE MppCluster -----------------------------
(***************************************************************************)
(* The node scheduler of the bundled Rockchip MPP (mpp/base/mpp_cluster.cpp).*)
(* A codec instance is a node.  Client threads attach it, trigger it and    *)
(* detach it; a cluster's worker threads take triggered nodes from a queue  *)
(* and run their procedure.  A node's state word is changed by compare-and- *)
(* swap only; queue, worker lists and condition variables have locks.       *)
(*                                                                          *)
(* One cluster with its single priority (MAX_PRIORITY is 1).  A worker      *)
(* takes one task at a time (batch_count is 1), so its list is a task.      *)
(***************************************************************************)
EXTENDS Integers, Sequences

CONSTANTS
    Nodes, Clients,
    WorkerCount,    \* mpp_cluster_thd_cnt
    Owner,          \* the client that attaches and detaches each node
    MaxTriggers,    \* bound on the triggers of a client
    MayDetach,      \* whether owners detach their nodes at all
    None            \* no task, no node

Workers == 1 .. WorkerCount

ASSUME WorkerAssumption == WorkerCount \in Nat \ {0}
ASSUME OwnerAssumption == Owner \in [Nodes -> Clients]
ASSUME ClusterAssumption == MaxTriggers \in Nat /\ MayDetach \in BOOLEAN
ASSUME NoneAssumption == None \notin Nodes

VARIABLES
    st,         \* node->state, as the set of its NODE_ flags
    attached,   \* node->attached
    sem,        \* node->sem_detach
    queue,      \* the cluster's queue of tasks
    \* workers
    wpc, task,  \* where a worker is, and its task
    seen,       \* the state word it read after the procedure
    wstate,     \* p->state: "idle" or "running"
    locked,     \* the worker holds its thread's mutex
    woken,      \* its condition variable was signalled
    \* clients
    cpc, cnode, \* where a client is, and the node it works on
    then,       \* where it goes after mpp_node_task_schedule
    at,         \* the worker cluster_signal_f looks at
    left,       \* triggers it may still make
    \* history
    owed,       \* a trigger was made and the procedure not started since
    gone        \* mpp_node_detach returned

nodeVars   == <<st, attached, sem>>
workerVars == <<wpc, task, seen, wstate, locked, woken>>
clientVars == <<cpc, cnode, then, at, left>>
vars == <<nodeVars, queue, workerVars, clientVars, owed, gone>>

Flags == {"valid", "idle", "signal", "wait", "run"}

\* old ^ flags
Toggle(old, flags) == (old \ flags) \cup (flags \ old)

Init ==
    /\ st = [n \in Nodes |-> {}]
    /\ attached = [n \in Nodes |-> FALSE]
    /\ sem = [n \in Nodes |-> 0]
    /\ queue = <<>>
    /\ wpc = [w \in Workers |-> "start"]
    /\ task = [w \in Workers |-> None]
    /\ seen = [w \in Workers |-> {}]
    /\ wstate = [w \in Workers |-> "idle"]
    /\ locked = [w \in Workers |-> FALSE]
    /\ woken = [w \in Workers |-> FALSE]
    /\ cpc = [c \in Clients |-> "free"]
    /\ cnode = [c \in Clients |-> None]
    /\ then = [c \in Clients |-> "free"]
    /\ at = [c \in Clients |-> 1]
    /\ left = [c \in Clients |-> MaxTriggers]
    /\ owed = [n \in Nodes |-> FALSE]
    /\ gone = [n \in Nodes |-> FALSE]

-----------------------------------------------------------------------------
(* Clients *)

\* A client enters mpp_node_task_schedule_f for n and will go on at pc.
Schedule(c, n, pc) ==
    /\ cpc' = [cpc EXCEPT ![c] = "sched"]
    /\ cnode' = [cnode EXCEPT ![c] = n]
    /\ then' = [then EXCEPT ![c] = pc]

\* mpp_node_attach of a fresh node: attach and run once first.
Attach(c, n) ==
    /\ cpc[c] = "free" /\ Owner[n] = c
    /\ ~attached[n] /\ ~gone[n]
    /\ st' = [st EXCEPT ![n] = {"valid", "idle"}]
    /\ attached' = [attached EXCEPT ![n] = TRUE]
    /\ Schedule(c, n, "free")
    /\ UNCHANGED <<sem, queue, workerVars, at, left, owed, gone>>

\* mpp_node_trigger_f of a node the clients know to be attached.
Trigger(c, n) ==
    /\ cpc[c] = "free" /\ left[c] > 0
    /\ attached[n]
    /\ left' = [left EXCEPT ![c] = @ - 1]
    /\ Schedule(c, n, "free")
    /\ UNCHANGED <<nodeVars, queue, workerVars, at, owed, gone>>

\* mpp_node_task_detach: the node is no longer valid, it is scheduled once
\* more, and the caller waits for the worker that sees it.
Detach(c, n) ==
    /\ MayDetach
    /\ cpc[c] = "free" /\ Owner[n] = c
    /\ attached[n]
    /\ st' = [st EXCEPT ![n] = @ \ {"valid"}]
    /\ Schedule(c, n, "semwait")
    /\ UNCHANGED <<attached, sem, queue, workerVars, at, left, owed, gone>>

ScheduleRunning(c) ==   \* fault: a running node is queued as an idle one is
    /\ cpc[c] = "sched"
    /\ owed' = [owed EXCEPT ![cnode[c]] = TRUE]
    /\ cpc' = [cpc EXCEPT ![c] = IF "wait" \in st[cnode[c]] THEN then[c] ELSE "enqueue"]
    /\ st' = [st EXCEPT ![cnode[c]] = (@ \ {"idle", "run"}) \cup {"wait"}]
    /\ at' = [at EXCEPT ![c] = 1]
    /\ UNCHANGED <<attached, sem, queue, workerVars, cnode, then, left, gone>>

\* The compare-and-swap loop of mpp_node_task_schedule_f.
ScheduleCas(c) ==
    LET n == cnode[c] IN
    /\ cpc[c] = "sched"
    /\ owed' = [owed EXCEPT ![n] = TRUE]
    /\ IF "wait" \in st[n]
       THEN /\ cpc' = [cpc EXCEPT ![c] = then[c]]
            /\ st' = st
       ELSE IF "idle" \in st[n]
       THEN /\ cpc' = [cpc EXCEPT ![c] = "enqueue"]
            /\ st' = [st EXCEPT ![n] = Toggle(@, {"idle", "wait"})]
       ELSE IF "run" \in st[n]
       THEN /\ cpc' = [cpc EXCEPT ![c] = "signal"]
            /\ st' = [st EXCEPT ![n] = @ \cup {"signal"}]
       ELSE /\ cpc' = [cpc EXCEPT ![c] = then[c]]
            /\ st' = [st EXCEPT ![n] = {}]
    /\ at' = [at EXCEPT ![c] = 1]
    /\ UNCHANGED <<attached, sem, queue, workerVars, cnode, then, left, gone>>

EnqueueSilently(c) ==   \* fault: no worker is signalled
    /\ cpc[c] = "enqueue"
    /\ queue' = Append(queue, cnode[c])
    /\ cpc' = [cpc EXCEPT ![c] = then[c]]
    /\ UNCHANGED <<nodeVars, workerVars, cnode, then, at, left, owed, gone>>

\* NODE_ACT_IDLE_TO_WAIT: the task joins the queue, under the queue's lock.
Enqueue(c) ==
    /\ cpc[c] = "enqueue"
    /\ queue' = Append(queue, cnode[c])
    /\ cpc' = [cpc EXCEPT ![c] = "signal"]
    /\ UNCHANGED <<nodeVars, workerVars, cnode, then, at, left, owed, gone>>

SignalWorker(c) ==
    IF wstate[at[c]] = "idle"
    THEN /\ woken' = [woken EXCEPT ![at[c]] = @ \/ wpc[at[c]] = "sleep"]
         /\ cpc' = [cpc EXCEPT ![c] = then[c]]
         /\ at' = at
    ELSE /\ at' = [at EXCEPT ![c] = @ + 1]
         /\ UNCHANGED <<cpc, woken>>

SignalFrame ==
    UNCHANGED <<nodeVars, queue, wpc, task, seen, wstate, locked, cnode, then,
                left, owed, gone>>

SignalUnlocked(c) ==   \* fault: the worker's state is read without its mutex
    /\ cpc[c] = "signal"
    /\ IF at[c] \notin Workers
       THEN cpc' = [cpc EXCEPT ![c] = then[c]] /\ UNCHANGED <<at, woken>>
       ELSE SignalWorker(c)
    /\ SignalFrame

\* cluster_signal_f: under each worker's mutex in turn, the first worker in
\* state WORKER_IDLE is signalled; a signal nobody waits for is lost.
Signal(c) ==
    /\ cpc[c] = "signal"
    /\ IF at[c] \notin Workers
       THEN cpc' = [cpc EXCEPT ![c] = then[c]] /\ UNCHANGED <<at, woken>>
       ELSE ~locked[at[c]] /\ SignalWorker(c)
    /\ SignalFrame

SemWaitNoBlock(c) ==   \* fault: the caller does not wait for the post
    /\ cpc[c] = "semwait"
    /\ sem' = [sem EXCEPT ![cnode[c]] = @ - 1]
    /\ gone' = [gone EXCEPT ![cnode[c]] = TRUE]
    /\ cpc' = [cpc EXCEPT ![c] = "free"]
    /\ UNCHANGED <<st, attached, queue, workerVars, cnode, then, at, left, owed>>

\* sem_wait of mpp_node_task_detach returns; the caller may free the node.
SemWait(c) ==
    LET n == cnode[c] IN
    /\ cpc[c] = "semwait"
    /\ sem[n] > 0
    /\ sem' = [sem EXCEPT ![n] = @ - 1]
    /\ gone' = [gone EXCEPT ![n] = TRUE]
    /\ cpc' = [cpc EXCEPT ![c] = "free"]
    /\ UNCHANGED <<st, attached, queue, workerVars, cnode, then, at, left, owed>>

-----------------------------------------------------------------------------
(* Workers *)

Goto(w, pc) == wpc' = [wpc EXCEPT ![w] = pc]

\* The loop of cluster_worker takes the mutex of its thread.
Lock(w) ==
    /\ wpc[w] = "start"
    /\ locked' = [locked EXCEPT ![w] = TRUE]
    /\ Goto(w, "get")
    /\ UNCHANGED <<nodeVars, queue, task, seen, wstate, woken, clientVars,
                   owed, gone>>

\* cluster_worker_get_task: the oldest task, its node now running.
GetTask(w) ==
    /\ wpc[w] = "get" /\ queue # <<>>
    /\ queue' = Tail(queue)
    /\ st' = [st EXCEPT ![Head(queue)] = Toggle(@, {"wait", "run"})]
    /\ task' = [task EXCEPT ![w] = Head(queue)]
    /\ locked' = [locked EXCEPT ![w] = FALSE]
    /\ Goto(w, "proc")
    /\ UNCHANGED <<attached, sem, seen, wstate, woken, clientVars, owed, gone>>

\* There was no task; the mutex is still held.
GetNone(w) ==
    /\ wpc[w] = "get" /\ queue = <<>>
    /\ wstate' = [wstate EXCEPT ![w] = "idle"]
    /\ Goto(w, "wait")
    /\ UNCHANGED <<nodeVars, queue, task, seen, locked, woken, clientVars,
                   owed, gone>>

\* thd->wait() gives the mutex up and sleeps, in one step.
Sleep(w) ==
    /\ wpc[w] = "wait"
    /\ locked' = [locked EXCEPT ![w] = FALSE]
    /\ Goto(w, "sleep")
    /\ UNCHANGED <<nodeVars, queue, task, seen, wstate, woken, clientVars,
                   owed, gone>>

Wake(w) ==
    /\ wpc[w] = "sleep" /\ woken[w]
    /\ woken' = [woken EXCEPT ![w] = FALSE]
    /\ wstate' = [wstate EXCEPT ![w] = "running"]
    /\ Goto(w, "start")
    /\ UNCHANGED <<nodeVars, queue, task, seen, locked, clientVars, owed, gone>>

\* cluster_worker_run_task calls the procedure, which looks at all its input.
Run(w) ==
    /\ wpc[w] = "proc"
    /\ owed' = [owed EXCEPT ![task[w]] = FALSE]
    /\ Goto(w, "ran")
    /\ UNCHANGED <<nodeVars, queue, task, seen, wstate, locked, woken,
                   clientVars, gone>>

\* The state is read once, and chooses the branch; the task leaves the list.
ReadState(w) ==
    /\ wpc[w] = "ran"
    /\ seen' = [seen EXCEPT ![w] = st[task[w]]]
    /\ Goto(w, IF "valid" \notin st[task[w]] THEN "destroy"
               ELSE IF "signal" \in st[task[w]] THEN "requeue" ELSE "toIdle")
    /\ UNCHANGED <<nodeVars, queue, task, wstate, locked, woken, clientVars,
                   owed, gone>>

DestroyAfterPost(w) ==   \* fault: the post comes before the node is let go
    /\ wpc[w] = "destroy"
    /\ sem' = [sem EXCEPT ![task[w]] = @ + 1]
    /\ Goto(w, "post")
    /\ UNCHANGED <<st, attached, queue, task, seen, wstate, locked, woken,
                   clientVars, owed, gone>>

\* The node is not valid: it is no longer attached, then the detacher may go on.
Destroy(w) ==
    /\ wpc[w] = "destroy"
    /\ attached' = [attached EXCEPT ![task[w]] = FALSE]
    /\ Goto(w, "post")
    /\ UNCHANGED <<st, sem, queue, task, seen, wstate, locked, woken,
                   clientVars, owed, gone>>

Post(w) ==
    /\ wpc[w] = "post"
    /\ sem' = [sem EXCEPT ![task[w]] = @ + 1]
    /\ task' = [task EXCEPT ![w] = None]
    /\ Goto(w, "start")
    /\ UNCHANGED <<st, attached, queue, seen, wstate, locked, woken,
                   clientVars, owed, gone>>

RequeueStillRunning(w) ==   \* fault: NODE_RUN is not cleared
    /\ wpc[w] = "requeue"
    /\ st[task[w]] = seen[w]
    /\ st' = [st EXCEPT ![task[w]] = Toggle(@, {"signal", "wait"})]
    /\ Goto(w, "readd")
    /\ UNCHANGED <<attached, sem, queue, task, seen, wstate, locked, woken,
                   clientVars, owed, gone>>

\* It was signalled while running: back to waiting.  The swap compares with
\* the state read before, and its loop does not read again: no action is
\* enabled, as the worker spins, once the state is another.
Requeue(w) ==
    /\ wpc[w] = "requeue"
    /\ st[task[w]] = seen[w]
    /\ st' = [st EXCEPT ![task[w]] = Toggle(@, {"signal", "wait", "run"})]
    /\ Goto(w, "readd")
    /\ UNCHANGED <<attached, sem, queue, task, seen, wstate, locked, woken,
                   clientVars, owed, gone>>

ForgetTask(w) ==   \* fault: the signalled task is not queued again
    /\ wpc[w] = "readd"
    /\ task' = [task EXCEPT ![w] = None]
    /\ Goto(w, "start")
    /\ UNCHANGED <<nodeVars, queue, seen, wstate, locked, woken, clientVars, owed, gone>>

ReAdd(w) ==
    /\ wpc[w] = "readd"
    /\ queue' = Append(queue, task[w])
    /\ task' = [task EXCEPT ![w] = None]
    /\ Goto(w, "start")
    /\ UNCHANGED <<nodeVars, seen, wstate, locked, woken, clientVars, owed, gone>>

\* Otherwise to idle.  This loop does read the state again before its swap.
ToIdle(w) ==
    /\ wpc[w] = "toIdle"
    /\ st' = [st EXCEPT ![task[w]] = Toggle(@, {"idle", "run"})]
    /\ Goto(w, "assert")
    /\ UNCHANGED <<attached, sem, queue, task, seen, wstate, locked, woken,
                   clientVars, owed, gone>>

\* The two assertions that follow read the state once more.
AssertIdle(w) ==
    /\ wpc[w] = "assert"
    /\ task' = [task EXCEPT ![w] = None]
    /\ Goto(w, "start")
    /\ UNCHANGED <<nodeVars, queue, seen, wstate, locked, woken, clientVars,
                   owed, gone>>

-----------------------------------------------------------------------------
\* The steps of a call that was begun.
Proceed(c) == ScheduleCas(c) \/ Enqueue(c) \/ Signal(c) \/ SemWait(c)

Client(c) ==
    \/ \E n \in Nodes : Attach(c, n) \/ Trigger(c, n) \/ Detach(c, n)
    \/ Proceed(c)

Worker(w) ==
    \/ Lock(w) \/ GetTask(w) \/ GetNone(w) \/ Sleep(w) \/ Wake(w)
    \/ Run(w) \/ ReadState(w) \/ Destroy(w) \/ Post(w)
    \/ Requeue(w) \/ ReAdd(w) \/ ToIdle(w) \/ AssertIdle(w)

Next == (\E c \in Clients : Client(c)) \/ (\E w \in Workers : Worker(w))

Spec == Init /\ [][Next]_vars

\* Every thread that can go on does; a client is never forced to begin a call.
Fairness ==
    /\ \A c \in Clients : WF_vars(Proceed(c))
    /\ \A w \in Workers : WF_vars(Worker(w))

FairSpec == Spec /\ Fairness

-----------------------------------------------------------------------------
(* Properties *)

WorkerPcs == {"start", "get", "wait", "sleep", "proc", "ran", "destroy", "post",
              "requeue", "readd", "toIdle", "assert"}

\* where a worker has a task in its list, or has taken it off and has still to change
\* its node's state, let the node go or queue it again; at "assert" it only reads
HoldingPcs == {"proc", "ran", "requeue", "toIdle", "destroy", "post", "readd"}

ClientPcs == {"free", "sched", "enqueue", "signal", "semwait"}

\* The types of the variables.
TypeOK ==
    /\ st \in [Nodes -> SUBSET Flags]
    /\ attached \in [Nodes -> BOOLEAN] /\ sem \in [Nodes -> Nat]
    /\ queue \in Seq(Nodes)
    /\ wpc \in [Workers -> WorkerPcs] /\ task \in [Workers -> Nodes \cup {None}]
    /\ seen \in [Workers -> SUBSET Flags]
    /\ wstate \in [Workers -> {"idle", "running"}]
    /\ locked \in [Workers -> BOOLEAN] /\ woken \in [Workers -> BOOLEAN]
    /\ cpc \in [Clients -> ClientPcs] /\ cnode \in [Clients -> Nodes \cup {None}]
    /\ then \in [Clients -> {"free", "semwait"}]
    /\ at \in [Clients -> Nat] /\ left \in [Clients -> Nat]
    /\ owed \in [Nodes -> BOOLEAN] /\ gone \in [Nodes -> BOOLEAN]

\* Where the task of a node is: in the queue, in a worker's list, or in the
\* hands of a thread that moves it from one to the other.
Queued(n)      == \E i \in 1 .. Len(queue) : queue[i] = n
Once(n)        == \A i, j \in 1 .. Len(queue) : queue[i] = n /\ queue[j] = n => i = j
Entering(c, n) == cpc[c] = "enqueue" /\ cnode[c] = n
Held(w, n)     == task[w] = n /\ wpc[w] \in HoldingPcs

\* The list assertions at lines 271 and 435 and their consequence: whatever
\* threads race on the state word, a task is in one place, once, so two
\* workers never run a node's procedure at the same time and no list is
\* corrupted by adding a task that is already linked.
TaskInOnePlace ==
    \A n \in Nodes :
        /\ Once(n)
        /\ Queued(n) => \A c \in Clients : ~Entering(c, n)
        /\ Queued(n) => \A w \in Workers : ~Held(w, n)
        /\ \A c \in Clients, w \in Workers : ~(Entering(c, n) /\ Held(w, n))
        /\ \A c, d \in Clients : Entering(c, n) /\ Entering(d, n) => c = d
        /\ \A v, w \in Workers : Held(v, n) /\ Held(w, n) => v = w

\* The state word agrees with where the task is: waiting while it is queued or
\* being queued, running while a worker has it, and never both or neither.
StateMatchesPlace ==
    \A n \in Nodes :
        /\ Queued(n) => "wait" \in st[n]
        /\ \A c \in Clients : Entering(c, n) => "wait" \in st[n]
        /\ \A w \in Workers : Held(w, n) =>
               IF wpc[w] = "readd" THEN "wait" \in st[n] ELSE "run" \in st[n]
        /\ st[n] # {} => \E f \in {"idle", "wait", "run"} :
                            st[n] \cap {"idle", "wait", "run"} = {f}

\* A node that waits is on its way: in the queue or being queued.
WaitingIsQueued ==
    \A n \in Nodes : "wait" \in st[n] =>
        \/ Queued(n)
        \/ \E c \in Clients : Entering(c, n)
        \/ \E w \in Workers : Held(w, n) /\ wpc[w] = "readd"

\* No wakeup is lost: while tasks are queued, some worker is awake or
\* signalled, or the client that queued has still to signal.
NoLostWakeup ==
    queue # <<>> =>
        \/ \E w \in Workers : wpc[w] # "sleep" \/ woken[w]
        \/ \E c \in Clients : cpc[c] = "signal"

\* The assertion after sem_wait, line 307, and what a caller that goes on to free the
\* node in mpp_node_deinit counts on: once detach has returned, the node is in no
\* list and no client is about to queue it; a worker that still has it made it idle
\* before and only reads its state in the assertions of lines 525 and 526; and a
\* trigger still under way cannot queue it.  (That worker and that trigger do touch
\* a word that may be freed by then.)
DetachedIsGone ==
    \A n \in Nodes : gone[n] =>
        /\ ~attached[n] /\ ~Queued(n)
        /\ \A c \in Clients : ~Entering(c, n)
        /\ \A w \in Workers : task[w] = n => wpc[w] = "assert"
        /\ st[n] \cap {"idle", "wait"} = {}

\* A queued node is run, if only to see that it was detached: as long as another
\* worker is left when one spins in its swap (line 508), which ends that worker.
QueuedRuns == \A n \in Nodes : "wait" \in st[n] ~> "run" \in st[n]

\* line 477, check trigger for re-add task: a trigger that comes while the
\* procedure runs makes it run again.
TriggerIsServed == \A n \in Nodes : owed[n] ~> ~owed[n]

\* mpp_cluster_test.c lines 80-97: a node that was attached and triggered can
\* be detached, and the caller goes on to mpp_node_deinit.
DetachReturns == \A n \in Nodes : cpc[Owner[n]] = "semwait" ~> gone[n]
=============================================================================
