-------------------------- MODULE MppClusterProofs --------------------------
(***************************************************************************)
(* What the scheduler of MppCluster guarantees for any number of nodes,     *)
(* clients, workers and triggers.                                           *)
(***************************************************************************)
EXTENDS MppCluster, TLAPS

USE DEF vars, nodeVars, workerVars, clientVars

Idle(n)    == "idle" \in st[n] /\ "wait" \notin st[n] /\ "run" \notin st[n]
Waiting(n) == "wait" \in st[n] /\ "idle" \notin st[n] /\ "run" \notin st[n]
Running(n) == "run" \in st[n] /\ "idle" \notin st[n] /\ "wait" \notin st[n]

\* A thread that needs a node has one, and a worker only then.
NodesKnown ==
    /\ \A w \in Workers : task[w] = None \/ wpc[w] \in HoldingPcs \cup {"assert"}
    /\ \A w \in Workers : wpc[w] \in HoldingPcs \cup {"assert"} => task[w] \in Nodes
    /\ \A c \in Clients : cpc[c] # "free" => cnode[c] \in Nodes

\* Wherever a node's task is, its state says so; a waiting node's is somewhere.
PlaceHasState ==
    \A n \in Nodes :
        /\ Queued(n) => Waiting(n)
        /\ \A c \in Clients : Entering(c, n) => Waiting(n)
        /\ \A w \in Workers : Held(w, n) =>
               IF wpc[w] = "readd" THEN Waiting(n) ELSE Running(n)
        /\ st[n] = {} \/ Idle(n) \/ Waiting(n) \/ Running(n)
        /\ Waiting(n) => \/ Queued(n)
                         \/ \E c \in Clients : Entering(c, n)
                         \/ \E w \in Workers : Held(w, n) /\ wpc[w] = "readd"

\* The owner is inside mpp_node_task_detach of n.
Detaching(n) ==
    /\ cnode[Owner[n]] = n
    /\ \/ cpc[Owner[n]] = "semwait"
       \/ /\ cpc[Owner[n]] \in {"sched", "enqueue", "signal"}
          /\ then[Owner[n]] = "semwait"

\* A node is attached from mpp_node_attach until a worker destroys it; once
\* destroyed it stays running, so that nobody queues it again.
Life(n) ==
    /\ attached[n] => sem[n] = 0 /\ ~gone[n] /\ st[n] # {}
    /\ ~attached[n] /\ st[n] # {} => Running(n) /\ "valid" \notin st[n]
    /\ st[n] # {} /\ "valid" \notin st[n] /\ ~gone[n] => Detaching(n)
    /\ gone[n] => st[n] # {} /\ sem[n] = 0
    /\ sem[n] > 0 => sem[n] = 1 /\ st[n] # {}
    /\ \A w \in Workers : Held(w, n) =>
           /\ wpc[w] = "post" => sem[n] = 0 /\ ~gone[n] /\ ~attached[n]
           /\ wpc[w] # "post" => attached[n]
           /\ wpc[w] = "destroy" => "valid" \notin st[n]

Lives == \A n \in Nodes : Life(n)

\* A worker holds its mutex from its look at the queue to its sleep, and
\* sleeps in state idle; a client that queued looks at all workers.
Awake(w) == wpc[w] \notin {"wait", "sleep"} \/ woken[w]

Wakeups ==
    /\ \A w \in Workers : locked[w] <=> wpc[w] \in {"get", "wait"}
    /\ \A w \in Workers : wpc[w] \in {"wait", "sleep"} => wstate[w] = "idle"
    /\ \A w \in Workers : woken[w] => wpc[w] = "sleep"
    /\ \A c \in Clients : cpc[c] = "enqueue" => at[c] = 1
    /\ queue # <<>> =>
           \/ \E w \in Workers : Awake(w)
           \/ \E c \in Clients : cpc[c] = "signal" /\ at[c] \in Workers

-----------------------------------------------------------------------------

\* Types of what is put into the queue and taken off it.
LEMMA SequenceFacts ==
    ASSUME NEW S, NEW q \in Seq(S)
    PROVE  /\ <<>> \in Seq(S)
           /\ \A e \in S : Append(q, e) \in Seq(S)
           /\ \A e : Append(q, e) # <<>>
           /\ q # <<>> => Head(q) \in S /\ Tail(q) \in Seq(S)
           /\ Len(q) \in Nat
  OBVIOUS

\* A state word with some flags exchanged is a state word.
LEMMA ToggleType ==
    ASSUME NEW old \in SUBSET Flags, NEW flags \in SUBSET Flags
    PROVE  Toggle(old, flags) \in SUBSET Flags
  BY DEF Toggle

\* The types, and a thread that needs a node has one.
LEMMA TypesStep ==
    ASSUME TypeOK, NodesKnown, [Next]_vars
    PROVE  TypeOK' /\ NodesKnown'
  <1>1. ASSUME NEW c \in Clients, NEW n \in Nodes, Attach(c, n)
       PROVE  TypeOK' /\ NodesKnown'
    BY <1>1, NoneAssumption, OwnerAssumption
    DEF Attach, Schedule, TypeOK, NodesKnown, Flags, WorkerPcs, ClientPcs, HoldingPcs
  <1>2. ASSUME NEW c \in Clients, NEW n \in Nodes, Trigger(c, n)
       PROVE  TypeOK' /\ NodesKnown'
    BY <1>2, NoneAssumption
    DEF Trigger, Schedule, TypeOK, NodesKnown, Flags, WorkerPcs, ClientPcs, HoldingPcs
  <1>3. ASSUME NEW c \in Clients, NEW n \in Nodes, Detach(c, n)
       PROVE  TypeOK' /\ NodesKnown'
    BY <1>3, NoneAssumption, OwnerAssumption
    DEF Detach, Schedule, TypeOK, NodesKnown, Flags, WorkerPcs, ClientPcs, HoldingPcs
  <1>4. ASSUME NEW c \in Clients, ScheduleCas(c)
       PROVE  TypeOK' /\ NodesKnown'
    <2>1. cnode[c] \in Nodes /\ st[cnode[c]] \in SUBSET Flags
      BY <1>4, NoneAssumption DEF ScheduleCas, TypeOK, NodesKnown
    <2>2. st' \in [Nodes -> SUBSET Flags]
      <3>1. Toggle(st[cnode[c]], {"idle", "wait"}) \in SUBSET Flags
        BY <2>1, ToggleType DEF Flags
      <3>2. st[cnode[c]] \cup {"signal"} \in SUBSET Flags
        BY <2>1 DEF Flags
      <3>3. st \in [Nodes -> SUBSET Flags]
        BY DEF TypeOK
      <3>4. \E s \in SUBSET Flags : st' = [st EXCEPT ![cnode[c]] = s]
        BY <1>4, <2>1, <3>1, <3>2, <3>3 DEF ScheduleCas
      <3> QED
        BY <3>3, <3>4
    <2>3. /\ cpc' \in [Clients -> ClientPcs]
          /\ \A d \in Clients : d # c => cpc'[d] = cpc[d]
      BY <1>4 DEF ScheduleCas, TypeOK, ClientPcs
    <2>4. /\ at' \in [Clients -> Nat] /\ owed' \in [Nodes -> BOOLEAN]
          /\ UNCHANGED <<attached, sem, queue, workerVars, cnode, then, left, gone>>
      BY <1>4 DEF ScheduleCas, TypeOK
    <2> QED
      BY <2>1, <2>2, <2>3, <2>4 DEF TypeOK, NodesKnown
  <1>5. ASSUME NEW c \in Clients, Enqueue(c)
       PROVE  TypeOK' /\ NodesKnown'
    BY <1>5, NoneAssumption, SequenceFacts
    DEF Enqueue, TypeOK, NodesKnown, Flags, WorkerPcs, ClientPcs, HoldingPcs
  <1>6. ASSUME NEW c \in Clients, Signal(c)
       PROVE  TypeOK' /\ NodesKnown'
    <2>1. /\ cpc[c] = "signal" /\ SignalFrame
          /\ cpc' \in [Clients -> ClientPcs]
          /\ \A d \in Clients : d # c => cpc'[d] = cpc[d]
      BY <1>6 DEF Signal, SignalWorker, TypeOK, ClientPcs
    <2>2. at' \in [Clients -> Nat]
      BY <1>6 DEF Signal, SignalWorker, TypeOK
    <2>3. woken' \in [Workers -> BOOLEAN]
      BY <1>6 DEF Signal, SignalWorker, TypeOK
    <2> QED
      BY <2>1, <2>2, <2>3 DEF SignalFrame, TypeOK, NodesKnown
  <1>7. ASSUME NEW c \in Clients, SemWait(c)
       PROVE  TypeOK' /\ NodesKnown'
    BY <1>7, NoneAssumption
    DEF SemWait, TypeOK, NodesKnown, Flags, WorkerPcs, ClientPcs, HoldingPcs
  <1>8. ASSUME NEW w \in Workers, Lock(w)
       PROVE  TypeOK' /\ NodesKnown'
    BY <1>8, NoneAssumption
    DEF Lock, Goto, TypeOK, NodesKnown, Flags, WorkerPcs, ClientPcs, HoldingPcs
  <1>9. ASSUME NEW w \in Workers, GetTask(w)
       PROVE  TypeOK' /\ NodesKnown'
    BY <1>9, NoneAssumption, SequenceFacts, ToggleType
    DEF GetTask, Goto, TypeOK, NodesKnown, Flags, WorkerPcs, ClientPcs, HoldingPcs
  <1>10. ASSUME NEW w \in Workers, GetNone(w)
       PROVE  TypeOK' /\ NodesKnown'
    BY <1>10, NoneAssumption
    DEF GetNone, Goto, TypeOK, NodesKnown, Flags, WorkerPcs, ClientPcs, HoldingPcs
  <1>11. ASSUME NEW w \in Workers, Sleep(w)
       PROVE  TypeOK' /\ NodesKnown'
    BY <1>11, NoneAssumption
    DEF Sleep, Goto, TypeOK, NodesKnown, Flags, WorkerPcs, ClientPcs, HoldingPcs
  <1>12. ASSUME NEW w \in Workers, Wake(w)
       PROVE  TypeOK' /\ NodesKnown'
    BY <1>12, NoneAssumption
    DEF Wake, Goto, TypeOK, NodesKnown, Flags, WorkerPcs, ClientPcs, HoldingPcs
  <1>13. ASSUME NEW w \in Workers, Run(w)
       PROVE  TypeOK' /\ NodesKnown'
    BY <1>13, NoneAssumption
    DEF Run, Goto, TypeOK, NodesKnown, Flags, WorkerPcs, ClientPcs, HoldingPcs
  <1>14. ASSUME NEW w \in Workers, ReadState(w)
       PROVE  TypeOK' /\ NodesKnown'
    BY <1>14, NoneAssumption
    DEF ReadState, Goto, TypeOK, NodesKnown, Flags, WorkerPcs, ClientPcs, HoldingPcs
  <1>15. ASSUME NEW w \in Workers, Destroy(w)
       PROVE  TypeOK' /\ NodesKnown'
    BY <1>15, NoneAssumption
    DEF Destroy, Goto, TypeOK, NodesKnown, Flags, WorkerPcs, ClientPcs, HoldingPcs
  <1>16. ASSUME NEW w \in Workers, Post(w)
       PROVE  TypeOK' /\ NodesKnown'
    BY <1>16, NoneAssumption
    DEF Post, Goto, TypeOK, NodesKnown, Flags, WorkerPcs, ClientPcs, HoldingPcs
  <1>17. ASSUME NEW w \in Workers, Requeue(w)
       PROVE  TypeOK' /\ NodesKnown'
    BY <1>17, NoneAssumption, ToggleType
    DEF Requeue, Goto, TypeOK, NodesKnown, Flags, WorkerPcs, ClientPcs, HoldingPcs
  <1>18. ASSUME NEW w \in Workers, ReAdd(w)
       PROVE  TypeOK' /\ NodesKnown'
    BY <1>18, NoneAssumption, SequenceFacts
    DEF ReAdd, Goto, TypeOK, NodesKnown, Flags, WorkerPcs, ClientPcs, HoldingPcs
  <1>19. ASSUME NEW w \in Workers, ToIdle(w)
       PROVE  TypeOK' /\ NodesKnown'
    BY <1>19, NoneAssumption, ToggleType
    DEF ToIdle, Goto, TypeOK, NodesKnown, Flags, WorkerPcs, ClientPcs, HoldingPcs
  <1>20. ASSUME NEW w \in Workers, AssertIdle(w)
       PROVE  TypeOK' /\ NodesKnown'
    BY <1>20, NoneAssumption
    DEF AssertIdle, Goto, TypeOK, NodesKnown, Flags, WorkerPcs, ClientPcs, HoldingPcs
  <1>21. ASSUME UNCHANGED vars
       PROVE  TypeOK' /\ NodesKnown'
    BY <1>21 DEF TypeOK, NodesKnown
  <1> QED
    BY <1>1, <1>2, <1>3, <1>4, <1>5, <1>6, <1>7, <1>8, <1>9, <1>10, <1>11, <1>12, <1>13, <1>14, <1>15, <1>16, <1>17, <1>18, <1>19, <1>20, <1>21
    DEF Next, Client, Proceed, Worker

-----------------------------------------------------------------------------

\* A step that leaves the queue leaves who is queued.
LEMMA QueueStays ==
    ASSUME queue' = queue
    PROVE  \A n \in Nodes : (Queued(n)' <=> Queued(n)) /\ (Once(n)' <=> Once(n))
  BY DEF Queued, Once

\* A node put last is queued, and once if it was not.
LEMMA QueueGrows ==
    ASSUME queue \in Seq(Nodes), NEW e \in Nodes, queue' = Append(queue, e)
    PROVE  /\ \A n \in Nodes : Queued(n)' <=> Queued(n) \/ n = e
           /\ \A n \in Nodes : Once(n) /\ ~(n = e /\ Queued(e)) => Once(n)'
  <1>1. /\ Len(queue') = Len(queue) + 1 /\ Len(queue) \in Nat
        /\ \A i \in 1 .. Len(queue) : queue'[i] = queue[i]
        /\ queue'[Len(queue) + 1] = e
    OBVIOUS
  <1>2. ASSUME NEW n \in Nodes PROVE Queued(n)' <=> Queued(n) \/ n = e
    <2>1. ASSUME Queued(n)' PROVE Queued(n) \/ n = e
      BY <1>1, <2>1 DEF Queued
    <2>2. ASSUME Queued(n) PROVE Queued(n)'
      BY <1>1, <2>2 DEF Queued
    <2>3. ASSUME n = e PROVE Queued(n)'
      BY <1>1, <2>3, Len(queue) + 1 \in 1 .. Len(queue') DEF Queued
    <2> QED
      BY <2>1, <2>2, <2>3
  <1>3. ASSUME NEW n \in Nodes, Once(n), ~(n = e /\ Queued(e)) PROVE Once(n)'
    BY <1>1, <1>3 DEF Once, Queued
  <1> QED
    BY <1>2, <1>3

\* The head taken off is not queued any more, as it was queued once.
LEMMA QueueShrinks ==
    ASSUME queue \in Seq(Nodes), queue # <<>>, queue' = Tail(queue),
           \A n \in Nodes : Once(n)
    PROVE  /\ Queued(Head(queue))
           /\ \A n \in Nodes : Queued(n)' <=> Queued(n) /\ n # Head(queue)
           /\ \A n \in Nodes : Once(n)'
  <1>1. /\ Len(queue') = Len(queue) - 1 /\ Len(queue) \in Nat \ {0}
        /\ \A i \in 1 .. Len(queue) - 1 : queue'[i] = queue[i + 1]
        /\ Head(queue) = queue[1]
        /\ \A i \in 1 .. Len(queue) : queue[i] \in Nodes
    OBVIOUS
  <1>2. Queued(Head(queue))
    BY <1>1 DEF Queued
  <1>3. ASSUME NEW n \in Nodes PROVE Queued(n)' <=> Queued(n) /\ n # Head(queue)
    <2>1. ASSUME Queued(n)' PROVE Queued(n) /\ n # Head(queue)
      <3>1. PICK i \in 1 .. Len(queue) - 1 : queue[i + 1] = n
        BY <1>1, <2>1 DEF Queued
      <3>2. i + 1 \in 1 .. Len(queue) /\ 1 \in 1 .. Len(queue) /\ i + 1 # 1
        BY <1>1, <3>1
      <3> QED
        BY <1>1, <3>1, <3>2 DEF Queued, Once
    <2>2. ASSUME Queued(n), n # Head(queue) PROVE Queued(n)'
      <3>1. PICK i \in 1 .. Len(queue) : queue[i] = n
        BY <2>2 DEF Queued
      <3>2. i - 1 \in 1 .. Len(queue) - 1 /\ i = (i - 1) + 1
        BY <1>1, <2>2, <3>1
      <3> QED
        BY <1>1, <3>1, <3>2 DEF Queued
    <2> QED
      BY <2>1, <2>2
  <1>4. ASSUME NEW n \in Nodes PROVE Once(n)'
    <2> SUFFICES ASSUME NEW i \in 1 .. Len(queue) - 1, NEW j \in 1 .. Len(queue) - 1,
                        queue[i + 1] = n, queue[j + 1] = n
                 PROVE  i = j
      BY <1>1 DEF Once
    <2>1. i + 1 \in 1 .. Len(queue) /\ j + 1 \in 1 .. Len(queue)
      BY <1>1
    <2>2. i + 1 = j + 1
      BY <2>1 DEF Once
    <2> QED
      BY <2>2
  <1> QED
    BY <1>2, <1>3, <1>4

\* The task of every node stays where it is.
Still ==
    \A m \in Nodes :
        /\ (Queued(m)' <=> Queued(m)) /\ (Once(m)' <=> Once(m))
        /\ \A d \in Clients : Entering(d, m)' <=> Entering(d, m)
        /\ \A v \in Workers : Held(v, m)' <=> Held(v, m)

\* Where the steps that move a task put it.
LEMMA ScheduleCasMoves ==
    ASSUME TypeOK, NodesKnown, TaskInOnePlace, NEW c \in Clients, ScheduleCas(c)
    PROVE  /\ \A m \in Nodes : Queued(m)' <=> Queued(m)
           /\ \A m \in Nodes : Once(m)'
           /\ \A m \in Nodes, d \in Clients :
              Entering(d, m)' <=> Entering(d, m) \/ (d = c /\ m = cnode[c] /\ ~("wait" \in st[m]) /\ "idle" \in st[m])
           /\ \A m \in Nodes, v \in Workers : Held(v, m)' <=> Held(v, m)
  <1>2. \A m \in Nodes : Queued(m)' <=> Queued(m)
    BY QueueStays DEF ScheduleCas, TypeOK, TaskInOnePlace
  <1>3. \A m \in Nodes : Once(m)'
    BY QueueStays DEF ScheduleCas, TypeOK, TaskInOnePlace
  <1>4. \A m \in Nodes, d \in Clients :
           Entering(d, m)' <=> Entering(d, m) \/ (d = c /\ m = cnode[c] /\ ~("wait" \in st[m]) /\ "idle" \in st[m])
    BY DEF ScheduleCas, Entering, TypeOK
  <1>5. \A m \in Nodes, v \in Workers : Held(v, m)' <=> Held(v, m)
    BY DEF ScheduleCas, Held, HoldingPcs, TypeOK, NodesKnown
  <1> QED
    BY <1>2, <1>3, <1>4, <1>5

\* The task goes from the client to the queue.
LEMMA EnqueueMoves ==
    ASSUME TypeOK, NodesKnown, TaskInOnePlace, NEW c \in Clients, Enqueue(c)
    PROVE  /\ \A m \in Nodes : Queued(m)' <=> Queued(m) \/ m = cnode[c]
           /\ \A m \in Nodes : Once(m)'
           /\ \A m \in Nodes, d \in Clients :
              Entering(d, m)' <=> Entering(d, m) /\ d # c
           /\ \A m \in Nodes, v \in Workers : Held(v, m)' <=> Held(v, m)
  <1>1. cnode[c] \in Nodes /\ ~Queued(cnode[c])
    BY DEF Enqueue, NodesKnown, TaskInOnePlace, Entering, Held, HoldingPcs
  <1>2. \A m \in Nodes : Queued(m)' <=> Queued(m) \/ m = cnode[c]
    BY <1>1, QueueGrows DEF Enqueue, TypeOK
  <1>3. \A m \in Nodes : Once(m)'
    BY <1>1, QueueGrows DEF Enqueue, TypeOK, TaskInOnePlace
  <1>4. \A m \in Nodes, d \in Clients :
           Entering(d, m)' <=> Entering(d, m) /\ d # c
    BY DEF Enqueue, Entering, TypeOK
  <1>5. \A m \in Nodes, v \in Workers : Held(v, m)' <=> Held(v, m)
    BY DEF Enqueue, Held, HoldingPcs, TypeOK, NodesKnown
  <1> QED
    BY <1>2, <1>3, <1>4, <1>5

\* The task goes from the queue to the worker.
LEMMA GetTaskMoves ==
    ASSUME TypeOK, NodesKnown, TaskInOnePlace, NEW w \in Workers, GetTask(w)
    PROVE  /\ \A m \in Nodes : Queued(m)' <=> Queued(m) /\ m # Head(queue)
           /\ \A m \in Nodes : Once(m)'
           /\ \A m \in Nodes, d \in Clients :
              Entering(d, m)' <=> Entering(d, m)
           /\ \A m \in Nodes, v \in Workers : Held(v, m)' <=> Held(v, m) \/ (v = w /\ m = Head(queue))
  <1>2. \A m \in Nodes : Queued(m)' <=> Queued(m) /\ m # Head(queue)
    BY QueueShrinks DEF GetTask, Goto, TypeOK, TaskInOnePlace
  <1>3. \A m \in Nodes : Once(m)'
    BY QueueShrinks DEF GetTask, Goto, TypeOK, TaskInOnePlace
  <1>4. \A m \in Nodes, d \in Clients :
           Entering(d, m)' <=> Entering(d, m)
    BY DEF GetTask, Goto, Entering, TypeOK
  <1>5. \A m \in Nodes, v \in Workers : Held(v, m)' <=> Held(v, m) \/ (v = w /\ m = Head(queue))
    BY SequenceFacts DEF GetTask, Goto, Held, HoldingPcs, TypeOK, NodesKnown
  <1> QED
    BY <1>2, <1>3, <1>4, <1>5

\* A detached node's task leaves its worker.
LEMMA PostMoves ==
    ASSUME TypeOK, NodesKnown, TaskInOnePlace, NEW w \in Workers, Post(w)
    PROVE  /\ \A m \in Nodes : Queued(m)' <=> Queued(m)
           /\ \A m \in Nodes : Once(m)'
           /\ \A m \in Nodes, d \in Clients :
              Entering(d, m)' <=> Entering(d, m)
           /\ \A m \in Nodes, v \in Workers : Held(v, m)' <=> Held(v, m) /\ v # w
  <1>2. \A m \in Nodes : Queued(m)' <=> Queued(m)
    BY QueueStays DEF Post, Goto, TypeOK, TaskInOnePlace
  <1>3. \A m \in Nodes : Once(m)'
    BY QueueStays DEF Post, Goto, TypeOK, TaskInOnePlace
  <1>4. \A m \in Nodes, d \in Clients :
           Entering(d, m)' <=> Entering(d, m)
    BY DEF Post, Goto, Entering, TypeOK
  <1>5. \A m \in Nodes, v \in Workers : Held(v, m)' <=> Held(v, m) /\ v # w
    BY DEF Post, Goto, Held, HoldingPcs, TypeOK, NodesKnown
  <1> QED
    BY <1>2, <1>3, <1>4, <1>5

\* The task goes from the worker back to the queue.
LEMMA ReAddMoves ==
    ASSUME TypeOK, NodesKnown, TaskInOnePlace, NEW w \in Workers, ReAdd(w)
    PROVE  /\ \A m \in Nodes : Queued(m)' <=> Queued(m) \/ m = task[w]
           /\ \A m \in Nodes : Once(m)'
           /\ \A m \in Nodes, d \in Clients :
              Entering(d, m)' <=> Entering(d, m)
           /\ \A m \in Nodes, v \in Workers : Held(v, m)' <=> Held(v, m) /\ v # w
  <1>1. task[w] \in Nodes /\ ~Queued(task[w])
    BY DEF ReAdd, Goto, NodesKnown, TaskInOnePlace, Entering, Held, HoldingPcs
  <1>2. \A m \in Nodes : Queued(m)' <=> Queued(m) \/ m = task[w]
    BY <1>1, QueueGrows DEF ReAdd, Goto, TypeOK
  <1>3. \A m \in Nodes : Once(m)'
    BY <1>1, QueueGrows DEF ReAdd, Goto, TypeOK, TaskInOnePlace
  <1>4. \A m \in Nodes, d \in Clients :
           Entering(d, m)' <=> Entering(d, m)
    BY DEF ReAdd, Goto, Entering, TypeOK
  <1>5. \A m \in Nodes, v \in Workers : Held(v, m)' <=> Held(v, m) /\ v # w
    BY DEF ReAdd, Goto, Held, HoldingPcs, TypeOK, NodesKnown
  <1> QED
    BY <1>2, <1>3, <1>4, <1>5

\* The task of a node that goes idle leaves its worker.
LEMMA ToIdleMoves ==
    ASSUME TypeOK, NodesKnown, TaskInOnePlace, NEW w \in Workers, ToIdle(w)
    PROVE  /\ \A m \in Nodes : Queued(m)' <=> Queued(m)
           /\ \A m \in Nodes : Once(m)'
           /\ \A m \in Nodes, d \in Clients :
              Entering(d, m)' <=> Entering(d, m)
           /\ \A m \in Nodes, v \in Workers : Held(v, m)' <=> Held(v, m) /\ v # w
  <1>2. \A m \in Nodes : Queued(m)' <=> Queued(m)
    BY QueueStays DEF ToIdle, Goto, TypeOK, TaskInOnePlace
  <1>3. \A m \in Nodes : Once(m)'
    BY QueueStays DEF ToIdle, Goto, TypeOK, TaskInOnePlace
  <1>4. \A m \in Nodes, d \in Clients :
           Entering(d, m)' <=> Entering(d, m)
    BY DEF ToIdle, Goto, Entering, TypeOK
  <1>5. \A m \in Nodes, v \in Workers : Held(v, m)' <=> Held(v, m) /\ v # w
    BY DEF ToIdle, Goto, Held, HoldingPcs, TypeOK, NodesKnown
  <1> QED
    BY <1>2, <1>3, <1>4, <1>5

\* No other step moves a task.
Others ==
    \/ \E c \in Clients, n \in Nodes : Attach(c, n) \/ Trigger(c, n) \/ Detach(c, n)
    \/ \E c \in Clients : Signal(c) \/ SemWait(c)
    \/ \E w \in Workers : \/ Lock(w) \/ GetNone(w) \/ Sleep(w) \/ Wake(w) \/ Run(w)
                          \/ ReadState(w) \/ Destroy(w) \/ Requeue(w) \/ AssertIdle(w)
    \/ UNCHANGED vars

\* No other step moves a task.
LEMMA OthersMoveNothing ==
    ASSUME TypeOK, NodesKnown, Others
    PROVE  Still
  <1>1. ASSUME NEW c \in Clients, NEW n \in Nodes, Attach(c, n) PROVE Still
    BY <1>1, QueueStays DEF Attach, Schedule, Still, Entering, Held, HoldingPcs, TypeOK
  <1>2. ASSUME NEW c \in Clients, NEW n \in Nodes, Trigger(c, n) PROVE Still
    BY <1>2, QueueStays DEF Trigger, Schedule, Still, Entering, Held, HoldingPcs, TypeOK
  <1>3. ASSUME NEW c \in Clients, NEW n \in Nodes, Detach(c, n) PROVE Still
    BY <1>3, QueueStays DEF Detach, Schedule, Still, Entering, Held, HoldingPcs, TypeOK
  <1>4. ASSUME NEW c \in Clients, Signal(c) PROVE Still
    BY <1>4, QueueStays DEF Signal, SignalWorker, SignalFrame, Still, Entering, Held, HoldingPcs, TypeOK
  <1>5. ASSUME NEW c \in Clients, SemWait(c) PROVE Still
    BY <1>5, QueueStays DEF SemWait, Still, Entering, Held, HoldingPcs, TypeOK
  <1>6. ASSUME NEW w \in Workers, Lock(w) PROVE Still
    BY <1>6, QueueStays DEF Lock, Goto, Still, Entering, Held, HoldingPcs, TypeOK
  <1>7. ASSUME NEW w \in Workers, GetNone(w) PROVE Still
    BY <1>7, QueueStays DEF GetNone, Goto, Still, Entering, Held, HoldingPcs, TypeOK
  <1>8. ASSUME NEW w \in Workers, Sleep(w) PROVE Still
    BY <1>8, QueueStays DEF Sleep, Goto, Still, Entering, Held, HoldingPcs, TypeOK
  <1>9. ASSUME NEW w \in Workers, Wake(w) PROVE Still
    BY <1>9, QueueStays DEF Wake, Goto, Still, Entering, Held, HoldingPcs, TypeOK
  <1>10. ASSUME NEW w \in Workers, Run(w) PROVE Still
    BY <1>10, QueueStays DEF Run, Goto, Still, Entering, Held, HoldingPcs, TypeOK
  <1>11. ASSUME NEW w \in Workers, ReadState(w) PROVE Still
    BY <1>11, QueueStays DEF ReadState, Goto, Still, Entering, Held, HoldingPcs, TypeOK
  <1>12. ASSUME NEW w \in Workers, Destroy(w) PROVE Still
    BY <1>12, QueueStays DEF Destroy, Goto, Still, Entering, Held, HoldingPcs, TypeOK
  <1>13. ASSUME NEW w \in Workers, Requeue(w) PROVE Still
    BY <1>13, QueueStays DEF Requeue, Goto, Still, Entering, Held, HoldingPcs, TypeOK
  <1>14. ASSUME NEW w \in Workers, AssertIdle(w) PROVE Still
    BY <1>14, QueueStays DEF AssertIdle, Goto, Still, Entering, Held, HoldingPcs, TypeOK
  <1>15. ASSUME UNCHANGED vars PROVE Still
    BY <1>15, QueueStays DEF Still, Entering, Held, HoldingPcs, TypeOK
  <1> QED
    BY <1>1, <1>2, <1>3, <1>4, <1>5, <1>6, <1>7, <1>8, <1>9, <1>10, <1>11, <1>12, <1>13, <1>14, <1>15 DEF Others

\* Every step is one of these.
LEMMA NextIsMoveOrOther ==
    ASSUME [Next]_vars
    PROVE  \/ \E c \in Clients : ScheduleCas(c) \/ Enqueue(c)
           \/ \E w \in Workers : GetTask(w) \/ Post(w) \/ ReAdd(w) \/ ToIdle(w)
           \/ Others
  BY DEF Next, Client, Proceed, Worker, Others

\* No step puts a task in a second place.
LEMMA PlaceStep ==
    ASSUME TypeOK, NodesKnown, TaskInOnePlace, PlaceHasState, Lives, [Next]_vars
    PROVE  TaskInOnePlace'
  <1>1. ASSUME NEW c \in Clients, ScheduleCas(c) PROVE TaskInOnePlace'
    BY <1>1, ScheduleCasMoves DEF TaskInOnePlace, PlaceHasState, Waiting, Running
  <1>2. ASSUME NEW c \in Clients, Enqueue(c) PROVE TaskInOnePlace'
    <2>1. Entering(c, cnode[c]) /\ cnode[c] \in Nodes
      BY <1>2 DEF Enqueue, Entering, Held, HoldingPcs, NodesKnown
    <2> QED
      BY <1>2, <2>1, EnqueueMoves DEF TaskInOnePlace
  <1>3. ASSUME NEW w \in Workers, GetTask(w) PROVE TaskInOnePlace'
    <2>1. Queued(Head(queue)) /\ Head(queue) \in Nodes
      BY <1>3, SequenceFacts, QueueShrinks DEF GetTask, TypeOK, TaskInOnePlace
    <2> QED
      BY <1>3, <2>1, GetTaskMoves DEF TaskInOnePlace
  <1>4. ASSUME NEW w \in Workers, Post(w) PROVE TaskInOnePlace'
    BY <1>4, PostMoves DEF TaskInOnePlace
  <1>5. ASSUME NEW w \in Workers, ReAdd(w) PROVE TaskInOnePlace'
    <2>1. Held(w, task[w]) /\ task[w] \in Nodes
      BY <1>5 DEF ReAdd, Entering, Held, HoldingPcs, NodesKnown
    <2> QED
      BY <1>5, <2>1, ReAddMoves DEF TaskInOnePlace
  <1>6. ASSUME NEW w \in Workers, ToIdle(w) PROVE TaskInOnePlace'
    BY <1>6, ToIdleMoves DEF TaskInOnePlace
  <1>7. ASSUME Others PROVE TaskInOnePlace'
    BY <1>7, OthersMoveNothing DEF Still, TaskInOnePlace
  <1> QED
    BY <1>1, <1>2, <1>3, <1>4, <1>5, <1>6, <1>7, NextIsMoveOrOther

\* Every step keeps a node's state in agreement with the place of its task.
LEMMA StateStep ==
    ASSUME TypeOK, NodesKnown, TaskInOnePlace, PlaceHasState, Lives, [Next]_vars
    PROVE  PlaceHasState'
  <1>1. ASSUME NEW c \in Clients, NEW n \in Nodes, Attach(c, n) PROVE PlaceHasState'
    <2>1. Still
      BY <1>1, OthersMoveNothing DEF Others
    <2>2. st[n] = {}
      BY <1>1, OwnerAssumption DEF Attach, Lives, Life, Detaching
    <2>3. st' = [st EXCEPT ![n] = {"valid", "idle"}] /\ UNCHANGED wpc
      BY <1>1 DEF Attach
    <2> QED
      BY <2>1, <2>2, <2>3 DEF TypeOK, Still, PlaceHasState, Idle, Waiting, Running
  <1>2. ASSUME NEW c \in Clients, NEW n \in Nodes, Detach(c, n) PROVE PlaceHasState'
    <2>1. Still
      BY <1>2, OthersMoveNothing DEF Others
    <2>2. st' = [st EXCEPT ![n] = @ \ {"valid"}] /\ UNCHANGED wpc
      BY <1>2 DEF Detach
    <2> QED
      BY <2>1, <2>2 DEF TypeOK, Still, PlaceHasState, Idle, Waiting, Running
  <1>3. ASSUME NEW c \in Clients, ScheduleCas(c) PROVE PlaceHasState'
    <2>1. PICK n \in Nodes : n = cnode[c]
      BY <1>3 DEF ScheduleCas, NodesKnown
    <2>4. UNCHANGED wpc
      BY <1>3 DEF ScheduleCas
    <2>2. \A m \in Nodes : m # n => st'[m] = st[m]
      BY <1>3, <2>1 DEF ScheduleCas, TypeOK
    <2>3. /\ "wait" \in st[n] => st'[n] = st[n]
          /\ Idle(n) => Waiting(n)'
          /\ Running(n) => Running(n)'
          /\ st[n] = {} => st'[n] = {}
      <3>1. "wait" \in st[n] => st'[n] = st[n]
        BY <1>3, <2>1 DEF ScheduleCas
      <3>2. Idle(n) => st'[n] = Toggle(st[n], {"idle", "wait"})
        BY <1>3, <2>1 DEF ScheduleCas, TypeOK, Idle
      <3>3. Running(n) => st'[n] = st[n] \cup {"signal"}
        BY <1>3, <2>1 DEF ScheduleCas, TypeOK, Running
      <3>4. st[n] = {} => st'[n] = {}
        BY <1>3, <2>1 DEF ScheduleCas, TypeOK
      <3> QED
        BY <3>1, <3>2, <3>3, <3>4 DEF Toggle, Idle, Waiting, Running
    <2> QED
      BY <1>3, <2>1, <2>2, <2>3, <2>4, ScheduleCasMoves DEF PlaceHasState, Idle, Waiting, Running
  <1>4. ASSUME NEW c \in Clients, Enqueue(c) PROVE PlaceHasState'
    <2>1. PICK n \in Nodes : n = cnode[c]
      BY <1>4 DEF Enqueue, NodesKnown
    <2>2. /\ Entering(c, n) /\ UNCHANGED <<st, wpc>>
          /\ \A m \in Nodes : Entering(c, m) => m = n
      BY <1>4, <2>1 DEF Enqueue, Entering
    <2>3. /\ \A m \in Nodes : Queued(m)' <=> Queued(m) \/ m = n
          /\ \A m \in Nodes, d \in Clients :
                 Entering(d, m)' <=> Entering(d, m) /\ d # c
          /\ \A m \in Nodes, v \in Workers : Held(v, m)' <=> Held(v, m)
      BY <1>4, <2>1, EnqueueMoves
    <2> QED
      BY <2>2, <2>3 DEF PlaceHasState, Idle, Waiting, Running
  <1>5. ASSUME NEW w \in Workers, GetTask(w) PROVE PlaceHasState'
    <2>1. PICK n \in Nodes : n = Head(queue) /\ Queued(n)
      BY <1>5, SequenceFacts, QueueShrinks DEF GetTask, TypeOK, TaskInOnePlace
    <2>2. /\ \A m \in Nodes : m # n => st'[m] = st[m]
          /\ \A v \in Workers : v # w => wpc'[v] = wpc[v]
          /\ wpc'[w] = "proc"
      BY <1>5, <2>1 DEF GetTask, Goto, TypeOK
    <2>3. Running(n)'
      BY <1>5, <2>1 DEF Toggle, GetTask, TypeOK, PlaceHasState, Waiting, Running
    <2>4. /\ \A d \in Clients : ~Entering(d, n)
          /\ \A v \in Workers : ~Held(v, n)
      BY <2>1 DEF TaskInOnePlace
    <2> QED
      <3>1. /\ \A m \in Nodes : Queued(m)' <=> Queued(m) /\ m # n
            /\ \A m \in Nodes, d \in Clients : Entering(d, m)' <=> Entering(d, m)
            /\ \A m \in Nodes, v \in Workers :
                   Held(v, m)' <=> Held(v, m) \/ (v = w /\ m = n)
        BY <1>5, <2>1, GetTaskMoves
      <3>2. \A m \in Nodes : ~Held(w, m)
        BY <1>5 DEF GetTask, Held, HoldingPcs
      <3> QED
        BY <2>2, <2>3, <2>4, <3>1, <3>2 DEF PlaceHasState, Idle, Waiting, Running
  <1>6. ASSUME NEW w \in Workers, Requeue(w) PROVE PlaceHasState'
    <2>1. Still
      BY <1>6, OthersMoveNothing DEF Others
    <2>2. PICK n \in Nodes : n = task[w] /\ Held(w, n) /\ wpc[w] = "requeue"
      BY <1>6 DEF Requeue, NodesKnown, Held, HoldingPcs
    <2>3. /\ \A m \in Nodes : m # n => st'[m] = st[m]
          /\ \A v \in Workers : v # w => wpc'[v] = wpc[v]
          /\ wpc'[w] = "readd"
      BY <1>6, <2>2 DEF Requeue, Goto, TypeOK
    <2>4. Waiting(n)'
      BY <1>6, <2>2 DEF Toggle, Requeue, TypeOK, PlaceHasState, Waiting, Running
    <2>5. /\ \A d \in Clients : ~Entering(d, n)
          /\ \A v \in Workers : v # w => ~Held(v, n)
          /\ \A m \in Nodes : Held(w, m) => m = n
      BY <2>2 DEF TaskInOnePlace, Held
    <2> QED
      BY <2>1, <2>2, <2>3, <2>4, <2>5 DEF Still, PlaceHasState, Idle, Waiting, Running
  <1>7. ASSUME NEW w \in Workers, ToIdle(w) PROVE PlaceHasState'
    <2>1. PICK n \in Nodes : n = task[w] /\ Held(w, n) /\ Running(n)
      BY <1>7 DEF ToIdle, NodesKnown, Held, HoldingPcs, PlaceHasState
    <2>2. /\ \A m \in Nodes : m # n => st'[m] = st[m]
          /\ \A v \in Workers : v # w => wpc'[v] = wpc[v]
      BY <1>7, <2>1 DEF ToIdle, Goto, TypeOK
    <2>3. Idle(n)'
      BY <1>7, <2>1 DEF Toggle, ToIdle, TypeOK, Idle, Running
    <2>4. /\ ~Queued(n) /\ \A d \in Clients : ~Entering(d, n)
          /\ \A v \in Workers : v # w => ~Held(v, n)
      BY <2>1 DEF TaskInOnePlace
    <2> QED
      BY <1>7, <2>1, <2>2, <2>3, <2>4, ToIdleMoves DEF PlaceHasState, Idle, Waiting, Running
  <1>8. ASSUME NEW w \in Workers, Post(w) PROVE PlaceHasState'
    <2>1. /\ task[w] \in Nodes /\ Held(w, task[w]) /\ UNCHANGED st
          /\ \A m \in Nodes : Held(w, m) => m = task[w]
          /\ \A v \in Workers : v # w => wpc'[v] = wpc[v]
          /\ wpc[w] = "post"
      BY <1>8 DEF Post, Goto, NodesKnown, Held, HoldingPcs, TypeOK
    <2> QED
      BY <1>8, <2>1, PostMoves DEF PlaceHasState, Idle, Waiting, Running
  <1>9. ASSUME NEW w \in Workers, ReAdd(w) PROVE PlaceHasState'
    <2>1. /\ task[w] \in Nodes /\ Held(w, task[w]) /\ UNCHANGED st
          /\ \A m \in Nodes : Held(w, m) => m = task[w]
          /\ \A v \in Workers : v # w => wpc'[v] = wpc[v]
          /\ wpc[w] = "readd"
      BY <1>9 DEF ReAdd, Goto, NodesKnown, Held, HoldingPcs, TypeOK
    <2> QED
      BY <1>9, <2>1, ReAddMoves DEF PlaceHasState, Idle, Waiting, Running
  <1>10. ASSUME NEW c \in Clients, NEW n \in Nodes, Trigger(c, n) PROVE PlaceHasState'
    <2>1. Still
      BY <1>10, OthersMoveNothing DEF Others
    <2>2. /\ UNCHANGED st
          /\ \A v \in Workers : wpc'[v] = "readd" <=> wpc[v] = "readd"
      BY <1>10 DEF Trigger, Schedule, TypeOK
    <2> QED
      BY <2>1, <2>2 DEF Still, PlaceHasState, Idle, Waiting, Running
  <1>11. ASSUME NEW c \in Clients, Signal(c) PROVE PlaceHasState'
    <2>1. Still
      BY <1>11, OthersMoveNothing DEF Others
    <2>2. /\ UNCHANGED st
          /\ \A v \in Workers : wpc'[v] = "readd" <=> wpc[v] = "readd"
      BY <1>11 DEF Signal, SignalWorker, SignalFrame, TypeOK
    <2> QED
      BY <2>1, <2>2 DEF Still, PlaceHasState, Idle, Waiting, Running
  <1>12. ASSUME NEW c \in Clients, SemWait(c) PROVE PlaceHasState'
    <2>1. Still
      BY <1>12, OthersMoveNothing DEF Others
    <2>2. /\ UNCHANGED st
          /\ \A v \in Workers : wpc'[v] = "readd" <=> wpc[v] = "readd"
      BY <1>12 DEF SemWait, TypeOK
    <2> QED
      BY <2>1, <2>2 DEF Still, PlaceHasState, Idle, Waiting, Running
  <1>13. ASSUME NEW w \in Workers, Lock(w) PROVE PlaceHasState'
    <2>1. Still
      BY <1>13, OthersMoveNothing DEF Others
    <2>2. /\ UNCHANGED st
          /\ \A v \in Workers : wpc'[v] = "readd" <=> wpc[v] = "readd"
      BY <1>13 DEF Lock, Goto, TypeOK
    <2> QED
      BY <2>1, <2>2 DEF Still, PlaceHasState, Idle, Waiting, Running
  <1>14. ASSUME NEW w \in Workers, GetNone(w) PROVE PlaceHasState'
    <2>1. Still
      BY <1>14, OthersMoveNothing DEF Others
    <2>2. /\ UNCHANGED st
          /\ \A v \in Workers : wpc'[v] = "readd" <=> wpc[v] = "readd"
      BY <1>14 DEF GetNone, Goto, TypeOK
    <2> QED
      BY <2>1, <2>2 DEF Still, PlaceHasState, Idle, Waiting, Running
  <1>15. ASSUME NEW w \in Workers, Sleep(w) PROVE PlaceHasState'
    <2>1. Still
      BY <1>15, OthersMoveNothing DEF Others
    <2>2. /\ UNCHANGED st
          /\ \A v \in Workers : wpc'[v] = "readd" <=> wpc[v] = "readd"
      BY <1>15 DEF Sleep, Goto, TypeOK
    <2> QED
      BY <2>1, <2>2 DEF Still, PlaceHasState, Idle, Waiting, Running
  <1>16. ASSUME NEW w \in Workers, Wake(w) PROVE PlaceHasState'
    <2>1. Still
      BY <1>16, OthersMoveNothing DEF Others
    <2>2. /\ UNCHANGED st
          /\ \A v \in Workers : wpc'[v] = "readd" <=> wpc[v] = "readd"
      BY <1>16 DEF Wake, Goto, TypeOK
    <2> QED
      BY <2>1, <2>2 DEF Still, PlaceHasState, Idle, Waiting, Running
  <1>17. ASSUME NEW w \in Workers, Run(w) PROVE PlaceHasState'
    <2>1. Still
      BY <1>17, OthersMoveNothing DEF Others
    <2>2. /\ UNCHANGED st
          /\ \A v \in Workers : wpc'[v] = "readd" <=> wpc[v] = "readd"
      BY <1>17 DEF Run, Goto, TypeOK
    <2> QED
      BY <2>1, <2>2 DEF Still, PlaceHasState, Idle, Waiting, Running
  <1>18. ASSUME NEW w \in Workers, ReadState(w) PROVE PlaceHasState'
    <2>1. Still
      BY <1>18, OthersMoveNothing DEF Others
    <2>2. /\ UNCHANGED st
          /\ \A v \in Workers : wpc'[v] = "readd" <=> wpc[v] = "readd"
      BY <1>18 DEF ReadState, Goto, TypeOK
    <2> QED
      BY <2>1, <2>2 DEF Still, PlaceHasState, Idle, Waiting, Running
  <1>19. ASSUME NEW w \in Workers, Destroy(w) PROVE PlaceHasState'
    <2>1. Still
      BY <1>19, OthersMoveNothing DEF Others
    <2>2. /\ UNCHANGED st
          /\ \A v \in Workers : wpc'[v] = "readd" <=> wpc[v] = "readd"
      BY <1>19 DEF Destroy, Goto, TypeOK
    <2> QED
      BY <2>1, <2>2 DEF Still, PlaceHasState, Idle, Waiting, Running
  <1>20. ASSUME NEW w \in Workers, AssertIdle(w) PROVE PlaceHasState'
    <2>1. Still
      BY <1>20, OthersMoveNothing DEF Others
    <2>2. /\ UNCHANGED st
          /\ \A v \in Workers : wpc'[v] = "readd" <=> wpc[v] = "readd"
      BY <1>20 DEF AssertIdle, Goto, TypeOK
    <2> QED
      BY <2>1, <2>2 DEF Still, PlaceHasState, Idle, Waiting, Running
  <1>21. ASSUME UNCHANGED vars PROVE PlaceHasState'
    BY <1>21 DEF PlaceHasState, Queued, Entering, Held, Idle, Waiting, Running
  <1> QED
    BY <1>1, <1>2, <1>3, <1>4, <1>5, <1>6, <1>7, <1>8, <1>9, <1>10, <1>11, <1>12, <1>13, <1>14, <1>15, <1>16, <1>17, <1>18, <1>19, <1>20, <1>21
    DEF Next, Client, Proceed, Worker

\* Every step keeps the life of a node: attached, detaching, destroyed, gone.
LEMMA LifeStep ==
    ASSUME TypeOK, NodesKnown, TaskInOnePlace, PlaceHasState, Lives, [Next]_vars
    PROVE  Lives'
  <1>1. ASSUME NEW c \in Clients, NEW n \in Nodes, Attach(c, n) PROVE Lives'
    <2>1. Still
      BY <1>1, OthersMoveNothing DEF Others
    <2>2. st[n] = {} /\ sem[n] = 0 /\ ~gone[n] /\ \A v \in Workers : ~Held(v, n)
      <3>1. st[n] = {} /\ ~gone[n]
        BY <1>1, OwnerAssumption DEF Attach, Lives, Life, Detaching
      <3>2. sem[n] = 0
        <4>1. sem[n] \in Nat
          BY DEF TypeOK
        <4> QED
          BY <3>1, <4>1 DEF Lives, Life
      <3>3. \A v \in Workers : ~Held(v, n)
        BY <3>1 DEF PlaceHasState, Waiting, Running
      <3> QED
        BY <3>1, <3>2, <3>3
    <2>3. /\ st' = [st EXCEPT ![n] = {"valid", "idle"}]
          /\ attached' = [attached EXCEPT ![n] = TRUE]
          /\ UNCHANGED <<sem, wpc, gone>>
      BY <1>1 DEF Attach
    <2>4. \A m \in Nodes : Detaching(m) => Detaching(m)'
      BY <1>1, OwnerAssumption DEF Attach, Schedule, Detaching, TypeOK
    <2> QED
      BY <2>1, <2>2, <2>3, <2>4 DEF Still, Lives, Life, Running, TypeOK
  <1>2. ASSUME NEW c \in Clients, NEW n \in Nodes, Trigger(c, n) PROVE Lives'
    BY <1>2 DEF Trigger, Schedule, TypeOK, NodesKnown, Lives, Life, Detaching, Running, Held, HoldingPcs
  <1>3. ASSUME NEW c \in Clients, NEW n \in Nodes, Detach(c, n) PROVE Lives'
    <2>1. Still
      BY <1>3, OthersMoveNothing DEF Others
    <2>2. /\ st' = [st EXCEPT ![n] = st[n] \ {"valid"}]
          /\ UNCHANGED <<attached, sem, wpc, gone>> /\ attached[n]
      BY <1>3 DEF Detach
    <2>3. /\ \A m \in Nodes : Detaching(m) => Detaching(m)'
          /\ Detaching(n)'
      BY <1>3, OwnerAssumption DEF Detach, Schedule, Detaching, TypeOK
    <2>4. /\ \A m \in Nodes : m # n => st'[m] = st[m]
          /\ st'[n] = st[n] \ {"valid"}
      BY <2>2 DEF TypeOK
    <2>5. st'[n] # {}
      <3>1. Idle(n) \/ Waiting(n) \/ Running(n)
        BY <2>2 DEF PlaceHasState, Lives, Life
      <3> QED
        BY <2>4, <3>1 DEF Idle, Waiting, Running
    <2> QED
      BY <2>1, <2>2, <2>3, <2>4, <2>5 DEF Still, Lives, Life, Running
  <1>4. ASSUME NEW c \in Clients, ScheduleCas(c) PROVE Lives'
    <2>1. PICK n \in Nodes : n = cnode[c]
      BY <1>4 DEF ScheduleCas, NodesKnown
    <2>2. UNCHANGED <<attached, sem, wpc, task, gone>>
      BY <1>4 DEF ScheduleCas
    <2>3. \A m \in Nodes : m # n => st'[m] = st[m]
      BY <1>4, <2>1 DEF ScheduleCas, TypeOK
    <2>4. /\ st[n] # {} <=> st'[n] # {}
          /\ "valid" \in st'[n] <=> "valid" \in st[n]
          /\ Running(n) => Running(n)'
      <3>1. "wait" \in st[n] => st'[n] = st[n]
        BY <1>4, <2>1 DEF ScheduleCas
      <3>2. Idle(n) => st'[n] = Toggle(st[n], {"idle", "wait"})
        BY <1>4, <2>1 DEF ScheduleCas, TypeOK, Idle
      <3>3. Running(n) => st'[n] = st[n] \cup {"signal"}
        BY <1>4, <2>1 DEF ScheduleCas, TypeOK, Running
      <3>4. st[n] = {} => st'[n] = {}
        BY <1>4, <2>1 DEF ScheduleCas, TypeOK
      <3> QED
        BY <3>1, <3>2, <3>3, <3>4 DEF PlaceHasState, Toggle, Idle, Waiting, Running
    <2>5. \A m \in Nodes : Detaching(m) => Detaching(m)'
      <3>1. /\ cpc[c] = "sched" /\ cpc'[c] \in {then[c], "enqueue", "signal"}
            /\ \A d \in Clients : d # c => cpc'[d] = cpc[d]
            /\ UNCHANGED <<cnode, then>>
        BY <1>4 DEF ScheduleCas, TypeOK
      <3> QED
        BY <3>1, OwnerAssumption DEF Detaching
    <2>6. \A m \in Nodes, v \in Workers : Held(v, m)' <=> Held(v, m)
      BY <1>4, ScheduleCasMoves
    <2> QED
      <3>1. ASSUME NEW m \in Nodes, m # n PROVE Life(m)'
        BY <2>2, <2>3, <2>5, <2>6, <3>1 DEF Lives, Life, Running
      <3>2. Life(n)'
        BY <2>2, <2>4, <2>5, <2>6 DEF Lives, Life
      <3> QED
        BY <3>1, <3>2 DEF Lives
  <1>5. ASSUME NEW c \in Clients, Enqueue(c) PROVE Lives'
    BY <1>5 DEF Enqueue, TypeOK, NodesKnown, Lives, Life, Detaching, Running, Held, HoldingPcs
  <1>6. ASSUME NEW c \in Clients, Signal(c) PROVE Lives'
    <2>1. Still
      BY <1>6, OthersMoveNothing DEF Others
    <2>2. UNCHANGED <<st, attached, sem, wpc, gone>>
      BY <1>6 DEF Signal, SignalFrame
    <2>3. \A m \in Nodes : Detaching(m) => Detaching(m)'
      BY <1>6, OwnerAssumption DEF Signal, SignalWorker, SignalFrame, Detaching, TypeOK
    <2> QED
      BY <2>1, <2>2, <2>3 DEF Still, Lives, Life, Running
  <1>7. ASSUME NEW c \in Clients, SemWait(c) PROVE Lives'
    <2>1. Still
      BY <1>7, OthersMoveNothing DEF Others
    <2>2. PICK n \in Nodes : n = cnode[c]
      BY <1>7 DEF SemWait, NodesKnown
    <2>3. /\ sem[n] > 0 /\ sem' = [sem EXCEPT ![n] = sem[n] - 1]
          /\ gone' = [gone EXCEPT ![n] = TRUE]
          /\ UNCHANGED <<st, attached, wpc>>
      BY <1>7, <2>2 DEF SemWait
    <2>4. \A m \in Nodes : m # n /\ Detaching(m) => Detaching(m)'
      BY <1>7, <2>2, OwnerAssumption DEF SemWait, Detaching, TypeOK
    <2>5. sem[n] = 1
      BY <2>3 DEF Lives, Life
    <2> QED
      BY <2>1, <2>2, <2>3, <2>4, <2>5 DEF Still, Lives, Life, Running, TypeOK
  <1>8. ASSUME NEW w \in Workers, Lock(w) PROVE Lives'
    BY <1>8 DEF Lock, Goto, TypeOK, NodesKnown, Lives, Life, Detaching, Running, Held, HoldingPcs
  <1>9. ASSUME NEW w \in Workers, GetTask(w) PROVE Lives'
    <2>1. PICK n \in Nodes : n = Head(queue) /\ Queued(n)
      BY <1>9, SequenceFacts, QueueShrinks DEF GetTask, TypeOK, TaskInOnePlace
    <2>2. /\ \A m \in Nodes : m # n => st'[m] = st[m]
          /\ st'[n] = Toggle(st[n], {"wait", "run"})
          /\ \A v \in Workers : v # w => wpc'[v] = wpc[v]
          /\ wpc'[w] = "proc"
          /\ UNCHANGED <<attached, sem, gone>>
      BY <1>9, <2>1 DEF GetTask, Goto, TypeOK
    <2>3. attached[n] /\ st'[n] # {} /\ ("valid" \in st'[n] <=> "valid" \in st[n])
      BY <2>1, <2>2 DEF PlaceHasState, Waiting, Running, Lives, Life, Toggle
    <2>4. \A m \in Nodes : Detaching(m)' <=> Detaching(m)
      BY <1>9 DEF GetTask, Detaching
    <2>5. \A m \in Nodes, v \in Workers :
              Held(v, m)' <=> Held(v, m) \/ (v = w /\ m = n)
      BY <1>9, <2>1, GetTaskMoves
    <2>6. \A m \in Nodes : ~Held(w, m)
      BY <1>9 DEF GetTask, Held, HoldingPcs
    <2>7. \A v \in Workers : ~Held(v, n)
      BY <2>1 DEF TaskInOnePlace
    <2> QED
      BY <2>2, <2>3, <2>4, <2>5, <2>6, <2>7 DEF Lives, Life, Running
  <1>10. ASSUME NEW w \in Workers, GetNone(w) PROVE Lives'
    BY <1>10 DEF GetNone, Goto, TypeOK, NodesKnown, Lives, Life, Detaching, Running, Held, HoldingPcs
  <1>11. ASSUME NEW w \in Workers, Sleep(w) PROVE Lives'
    BY <1>11 DEF Sleep, Goto, TypeOK, NodesKnown, Lives, Life, Detaching, Running, Held, HoldingPcs
  <1>12. ASSUME NEW w \in Workers, Wake(w) PROVE Lives'
    BY <1>12 DEF Wake, Goto, TypeOK, NodesKnown, Lives, Life, Detaching, Running, Held, HoldingPcs
  <1>13. ASSUME NEW w \in Workers, Run(w) PROVE Lives'
    BY <1>13 DEF Run, Goto, TypeOK, NodesKnown, Lives, Life, Detaching, Running, Held, HoldingPcs
  <1>14. ASSUME NEW w \in Workers, ReadState(w) PROVE Lives'
    BY <1>14 DEF ReadState, Goto, TypeOK, NodesKnown, Lives, Life, Detaching, Running, Held, HoldingPcs
  <1>15. ASSUME NEW w \in Workers, Destroy(w) PROVE Lives'
    <2>1. PICK n \in Nodes : n = task[w] /\ Held(w, n)
      BY <1>15 DEF Destroy, NodesKnown, Held, HoldingPcs
    <2>2. Still
      BY <1>15, OthersMoveNothing DEF Others
    <2>3. /\ \A m \in Nodes : Held(w, m) => m = n
          /\ \A v \in Workers : v # w => ~Held(v, n)
      BY <2>1 DEF TaskInOnePlace, Held
    <2>4. /\ \A v \in Workers : v # w => wpc'[v] = wpc[v]
          /\ wpc[w] = "destroy"
          /\ \A m \in Nodes : Detaching(m)' <=> Detaching(m)
      BY <1>15 DEF Destroy, Goto, Detaching, TypeOK
    <2>5. /\ attached' = [attached EXCEPT ![n] = FALSE] /\ wpc'[w] = "post"
          /\ UNCHANGED <<st, sem, gone>>
      BY <1>15, <2>1 DEF Destroy, Goto, TypeOK
    <2>6. Running(n)
      BY <2>1, <2>4 DEF PlaceHasState
    <2> QED
      BY <2>1, <2>2, <2>3, <2>4, <2>5, <2>6 DEF Still, Lives, Life, Running, TypeOK
  <1>16. ASSUME NEW w \in Workers, Post(w) PROVE Lives'
    <2>1. PICK n \in Nodes : n = task[w] /\ Held(w, n)
      BY <1>16 DEF Post, NodesKnown, Held, HoldingPcs
    <2>2. \A m \in Nodes, v \in Workers : Held(v, m)' <=> Held(v, m) /\ v # w
      BY <1>16, PostMoves
    <2>3. /\ \A m \in Nodes : Held(w, m) => m = n
          /\ \A v \in Workers : v # w => ~Held(v, n)
      BY <2>1 DEF TaskInOnePlace, Held
    <2>4. /\ \A v \in Workers : v # w => wpc'[v] = wpc[v]
          /\ wpc[w] = "post"
          /\ \A m \in Nodes : Detaching(m)' <=> Detaching(m)
      BY <1>16 DEF Post, Goto, Detaching, TypeOK
    <2>5. /\ sem' = [sem EXCEPT ![n] = sem[n] + 1]
          /\ UNCHANGED <<st, attached, gone>>
      BY <1>16, <2>1 DEF Post
    <2>6. Running(n)
      BY <2>1, <2>4 DEF PlaceHasState
    <2> QED
      BY <2>1, <2>2, <2>3, <2>4, <2>5, <2>6 DEF Lives, Life, Running, TypeOK
  <1>17. ASSUME NEW w \in Workers, Requeue(w) PROVE Lives'
    <2>1. PICK n \in Nodes : n = task[w] /\ Held(w, n)
      BY <1>17 DEF Requeue, NodesKnown, Held, HoldingPcs
    <2>2. Still
      BY <1>17, OthersMoveNothing DEF Others
    <2>3. /\ \A m \in Nodes : Held(w, m) => m = n
          /\ \A v \in Workers : v # w => ~Held(v, n)
      BY <2>1 DEF TaskInOnePlace, Held
    <2>4. /\ \A v \in Workers : v # w => wpc'[v] = wpc[v]
          /\ wpc[w] = "requeue"
          /\ \A m \in Nodes : Detaching(m)' <=> Detaching(m)
      BY <1>17 DEF Requeue, Goto, Detaching, TypeOK
    <2>5. /\ \A m \in Nodes : m # n => st'[m] = st[m]
          /\ st'[n] = Toggle(st[n], {"signal", "wait", "run"})
          /\ wpc'[w] = "readd" /\ UNCHANGED <<attached, sem, gone>>
      BY <1>17, <2>1 DEF Requeue, Goto, TypeOK
    <2>6. st'[n] # {} /\ ("valid" \in st'[n] <=> "valid" \in st[n])
      BY <2>1, <2>4, <2>5 DEF PlaceHasState, Running, Toggle
    <2>7. attached[n] /\ (Detaching(n)' \/ "valid" \in st[n])
      BY <2>1, <2>4 DEF Lives, Life
    <2>8. ASSUME NEW m \in Nodes, m # n PROVE Life(m)'
      BY <2>2, <2>3, <2>4, <2>5, <2>8 DEF Still, Lives, Life, Running
    <2>9. Life(n)'
      BY <2>1, <2>2, <2>3, <2>4, <2>5, <2>6, <2>7 DEF Still, Lives, Life
    <2> QED
      BY <2>8, <2>9 DEF Lives
  <1>18. ASSUME NEW w \in Workers, ReAdd(w) PROVE Lives'
    BY <1>18 DEF ReAdd, Goto, TypeOK, NodesKnown, Lives, Life, Detaching, Running, Held, HoldingPcs
  <1>19. ASSUME NEW w \in Workers, ToIdle(w) PROVE Lives'
    <2>1. PICK n \in Nodes : n = task[w] /\ Held(w, n)
      BY <1>19 DEF ToIdle, NodesKnown, Held, HoldingPcs
    <2>2. \A m \in Nodes, v \in Workers : Held(v, m)' <=> Held(v, m) /\ v # w
      BY <1>19, ToIdleMoves
    <2>3. /\ \A m \in Nodes : Held(w, m) => m = n
          /\ \A v \in Workers : v # w => ~Held(v, n)
      BY <2>1 DEF TaskInOnePlace, Held
    <2>4. /\ \A v \in Workers : v # w => wpc'[v] = wpc[v]
          /\ wpc[w] = "toIdle"
          /\ \A m \in Nodes : Detaching(m)' <=> Detaching(m)
      BY <1>19 DEF ToIdle, Goto, Detaching, TypeOK
    <2>5. /\ \A m \in Nodes : m # n => st'[m] = st[m]
          /\ st'[n] = Toggle(st[n], {"idle", "run"})
          /\ UNCHANGED <<attached, sem, gone>>
      BY <1>19, <2>1 DEF ToIdle, TypeOK
    <2>6. st'[n] # {} /\ ("valid" \in st'[n] <=> "valid" \in st[n])
      BY <2>1, <2>4, <2>5 DEF PlaceHasState, Running, Toggle
    <2>7. attached[n] /\ (Detaching(n)' \/ "valid" \in st[n])
      BY <2>1, <2>4 DEF Lives, Life
    <2>8. ASSUME NEW m \in Nodes, m # n PROVE Life(m)'
      BY <2>2, <2>3, <2>4, <2>5, <2>8 DEF Lives, Life, Running
    <2>9. Life(n)'
      BY <2>1, <2>2, <2>3, <2>4, <2>5, <2>6, <2>7 DEF Lives, Life
    <2> QED
      BY <2>8, <2>9 DEF Lives
  <1>20. ASSUME NEW w \in Workers, AssertIdle(w) PROVE Lives'
    BY <1>20 DEF AssertIdle, Goto, TypeOK, NodesKnown, Lives, Life, Detaching, Running, Held, HoldingPcs
  <1>21. ASSUME UNCHANGED vars PROVE Lives'
    BY <1>21 DEF Lives, Life, Detaching, Running, Held
  <1> QED
    BY <1>1, <1>2, <1>3, <1>4, <1>5, <1>6, <1>7, <1>8, <1>9, <1>10, <1>11, <1>12, <1>13, <1>14, <1>15, <1>16, <1>17, <1>18, <1>19, <1>20, <1>21
    DEF Next, Client, Proceed, Worker

\* No step leaves tasks queued with every worker asleep and nobody to wake one.
LEMMA WakeStep ==
    ASSUME TypeOK, NodesKnown, Wakeups, [Next]_vars
    PROVE  Wakeups'
  <1>1. ASSUME NEW c \in Clients, NEW n \in Nodes, Attach(c, n) PROVE Wakeups'
    BY <1>1 DEF Attach, Schedule, TypeOK, Wakeups, Awake, Workers
  <1>2. ASSUME NEW c \in Clients, NEW n \in Nodes, Trigger(c, n) PROVE Wakeups'
    BY <1>2 DEF Trigger, Schedule, TypeOK, Wakeups, Awake, Workers
  <1>3. ASSUME NEW c \in Clients, NEW n \in Nodes, Detach(c, n) PROVE Wakeups'
    BY <1>3 DEF Detach, Schedule, TypeOK, Wakeups, Awake, Workers
  <1>4. ASSUME NEW c \in Clients, ScheduleCas(c) PROVE Wakeups'
    <2>1. /\ cpc[c] = "sched" /\ at'[c] = 1
          /\ \A d \in Clients : d # c => cpc'[d] = cpc[d] /\ at'[d] = at[d]
          /\ UNCHANGED <<queue, workerVars>>
      BY <1>4 DEF ScheduleCas, TypeOK
    <2> QED
      BY <2>1 DEF Wakeups, Awake
  <1>5. ASSUME NEW c \in Clients, Enqueue(c) PROVE Wakeups'
    BY <1>5, WorkerAssumption DEF Enqueue, TypeOK, Wakeups, Awake, Workers
  <1>6. ASSUME NEW c \in Clients, Signal(c) PROVE Wakeups'
    <2>1. /\ cpc[c] = "signal" /\ cpc'[c] # "enqueue" /\ at[c] \in Nat
          /\ \A d \in Clients : d # c => cpc'[d] = cpc[d] /\ at'[d] = at[d]
          /\ UNCHANGED <<queue, wpc, wstate, locked>>
      BY <1>6 DEF Signal, SignalWorker, SignalFrame, TypeOK
    <2>2. \A w \in Workers : woken[w] => woken'[w]
      BY <1>6 DEF Signal, SignalWorker, TypeOK
    <2>3. \A w \in Workers : woken'[w] => wpc[w] = "sleep"
      <3>1. \/ UNCHANGED woken
            \/ woken' = [woken EXCEPT ![at[c]] = woken[at[c]] \/ wpc[at[c]] = "sleep"]
        BY <1>6 DEF Signal, SignalWorker
      <3>2. \A w \in Workers : woken[w] => wpc[w] = "sleep"
        BY DEF Wakeups
      <3>3. CASE UNCHANGED woken
        BY <3>2, <3>3
      <3>4. CASE woken' = [woken EXCEPT ![at[c]] = woken[at[c]] \/ wpc[at[c]] = "sleep"]
        <4> SUFFICES ASSUME NEW w \in Workers, woken'[w] PROVE wpc[w] = "sleep"
          OBVIOUS
        <4>1. CASE w = at[c]
          <5>1. woken'[w] = (woken[w] \/ wpc[w] = "sleep")
            BY <3>4, <4>1 DEF TypeOK
          <5> QED
            BY <3>2, <5>1
        <4>2. CASE w # at[c]
          BY <3>2, <3>4, <4>2 DEF TypeOK
        <4> QED
          BY <4>1, <4>2
      <3> QED
        BY <3>1, <3>3, <3>4
    <2>4. ASSUME at[c] \in Workers PROVE \E w \in Workers : Awake(w)'
      <3>1. CASE wpc[at[c]] \notin {"wait", "sleep"}
        BY <2>1, <2>4, <3>1 DEF Awake
      <3>2. CASE wpc[at[c]] \in {"wait", "sleep"}
        <4>1. wpc[at[c]] = "sleep" /\ wstate[at[c]] = "idle"
          BY <1>6, <2>4, <3>2 DEF Signal, Wakeups
        <4>2. woken'[at[c]]
          BY <1>6, <2>4, <4>1 DEF Signal, SignalWorker, TypeOK
        <4> QED
          BY <2>4, <4>2 DEF Awake
      <3> QED
        BY <3>1, <3>2
    <2> QED
      BY <2>1, <2>2, <2>3, <2>4 DEF Wakeups, Awake
  <1>7. ASSUME NEW c \in Clients, SemWait(c) PROVE Wakeups'
    BY <1>7 DEF SemWait, TypeOK, Wakeups, Awake, Workers
  <1>8. ASSUME NEW w \in Workers, Lock(w) PROVE Wakeups'
    BY <1>8 DEF Lock, Goto, TypeOK, Wakeups, Awake, Workers
  <1>9. ASSUME NEW w \in Workers, GetTask(w) PROVE Wakeups'
    BY <1>9, SequenceFacts DEF GetTask, Goto, TypeOK, Wakeups, Awake, Workers
  <1>10. ASSUME NEW w \in Workers, GetNone(w) PROVE Wakeups'
    BY <1>10 DEF GetNone, Goto, TypeOK, Wakeups, Awake, Workers
  <1>11. ASSUME NEW w \in Workers, Sleep(w) PROVE Wakeups'
    BY <1>11 DEF Sleep, Goto, TypeOK, Wakeups, Awake, Workers
  <1>12. ASSUME NEW w \in Workers, Wake(w) PROVE Wakeups'
    BY <1>12 DEF Wake, Goto, TypeOK, Wakeups, Awake, Workers
  <1>13. ASSUME NEW w \in Workers, Run(w) PROVE Wakeups'
    BY <1>13 DEF Run, Goto, TypeOK, Wakeups, Awake, Workers
  <1>14. ASSUME NEW w \in Workers, ReadState(w) PROVE Wakeups'
    BY <1>14 DEF ReadState, Goto, TypeOK, Wakeups, Awake, Workers
  <1>15. ASSUME NEW w \in Workers, Destroy(w) PROVE Wakeups'
    BY <1>15 DEF Destroy, Goto, TypeOK, Wakeups, Awake, Workers
  <1>16. ASSUME NEW w \in Workers, Post(w) PROVE Wakeups'
    BY <1>16 DEF Post, Goto, TypeOK, Wakeups, Awake, Workers
  <1>17. ASSUME NEW w \in Workers, Requeue(w) PROVE Wakeups'
    BY <1>17 DEF Requeue, Goto, TypeOK, Wakeups, Awake, Workers
  <1>18. ASSUME NEW w \in Workers, ReAdd(w) PROVE Wakeups'
    BY <1>18 DEF ReAdd, Goto, TypeOK, Wakeups, Awake, Workers
  <1>19. ASSUME NEW w \in Workers, ToIdle(w) PROVE Wakeups'
    BY <1>19 DEF ToIdle, Goto, TypeOK, Wakeups, Awake, Workers
  <1>20. ASSUME NEW w \in Workers, AssertIdle(w) PROVE Wakeups'
    BY <1>20 DEF AssertIdle, Goto, TypeOK, Wakeups, Awake, Workers
  <1>21. ASSUME UNCHANGED vars PROVE Wakeups'
    BY <1>21 DEF Wakeups, Awake
  <1> QED
    BY <1>1, <1>2, <1>3, <1>4, <1>5, <1>6, <1>7, <1>8, <1>9, <1>10, <1>11, <1>12, <1>13, <1>14, <1>15, <1>16, <1>17, <1>18, <1>19, <1>20, <1>21
    DEF Next, Client, Proceed, Worker

-----------------------------------------------------------------------------
Inv == /\ TypeOK /\ NodesKnown /\ TaskInOnePlace /\ PlaceHasState /\ Lives
       /\ Wakeups

\* The initial state has the invariant.
LEMMA InitInv == Init => Inv
  <1> SUFFICES ASSUME Init PROVE Inv
    OBVIOUS
  <1>1. /\ \A w \in Workers : wpc[w] = "start" /\ ~locked[w] /\ ~woken[w]
        /\ \A c \in Clients : cpc[c] = "free"
        /\ \A n \in Nodes : st[n] = {} /\ ~attached[n] /\ ~gone[n] /\ sem[n] = 0
        /\ queue = <<>> /\ Len(queue) = 0
    BY DEF Init
  <1>2. TypeOK
    BY ClusterAssumption DEF Init, TypeOK, Flags, WorkerPcs, ClientPcs
  <1>3. NodesKnown
    BY <1>1 DEF Init, NodesKnown, HoldingPcs
  <1>4. \A n \in Nodes :
            /\ ~Queued(n) /\ Once(n)
            /\ \A c \in Clients : ~Entering(c, n)
            /\ \A w \in Workers : ~Held(w, n)
    <2>1. \A n \in Nodes : ~Queued(n) /\ Once(n)
      <3>1. 1 .. Len(queue) = {}
        BY <1>1
      <3> QED
        BY <3>1 DEF Queued, Once
    <2>2. \A n \in Nodes, c \in Clients : ~Entering(c, n)
      BY <1>1 DEF Entering
    <2>3. \A n \in Nodes, w \in Workers : ~Held(w, n)
      BY <1>1 DEF Held, HoldingPcs
    <2> QED
      BY <2>1, <2>2, <2>3
  <1>5. TaskInOnePlace /\ PlaceHasState /\ Lives
    BY <1>1, <1>4 DEF TaskInOnePlace, PlaceHasState, Lives, Life, Waiting
  <1>6. Wakeups
    BY <1>1 DEF Wakeups
  <1> QED
    BY <1>2, <1>3, <1>5, <1>6 DEF Inv

\* Every step keeps it.
LEMMA StepInv == Inv /\ [Next]_vars => Inv'
  BY TypesStep, PlaceStep, StateStep, LifeStep, WakeStep DEF Inv

\* The invariant of the scheduler holds always.
LEMMA Invariance == Spec => []Inv
  BY InitInv, StepInv, PTL DEF Spec

-----------------------------------------------------------------------------
\* The variables have their types.
THEOREM TypeCorrect == Spec => []TypeOK
  <1>1. Inv => TypeOK
    BY DEF Inv
  <1> QED
    BY <1>1, Invariance, PTL

\* However many threads race on a node's state word, its task is in the queue,
\* in one worker's list or in one thread's hands, and in no two of them: the
\* list assertions of the code hold and no node's procedure runs twice at once.
THEOREM OnePlace == Spec => []TaskInOnePlace
  <1>1. Inv => TaskInOnePlace
    BY DEF Inv
  <1> QED
    BY <1>1, Invariance, PTL

\* The state word agrees with that place, so the assertions on NODE_WAIT and
\* NODE_RUN at the hand-over to a worker and at the start of a run hold.
THEOREM StateAgrees == Spec => []StateMatchesPlace
  <1>1. Inv => StateMatchesPlace
    <2> SUFFICES ASSUME Inv, NEW n \in Nodes
                 PROVE  /\ Queued(n) => "wait" \in st[n]
                        /\ \A c \in Clients : Entering(c, n) => "wait" \in st[n]
                        /\ \A w \in Workers : Held(w, n) =>
                               IF wpc[w] = "readd" THEN "wait" \in st[n] ELSE "run" \in st[n]
                        /\ st[n] # {} => \E f \in {"idle", "wait", "run"} :
                                            st[n] \cap {"idle", "wait", "run"} = {f}
      BY DEF StateMatchesPlace
    <2>1. /\ Queued(n) => Waiting(n)
          /\ \A c \in Clients : Entering(c, n) => Waiting(n)
          /\ \A w \in Workers : Held(w, n) =>
                 IF wpc[w] = "readd" THEN Waiting(n) ELSE Running(n)
          /\ st[n] = {} \/ Idle(n) \/ Waiting(n) \/ Running(n)
      BY DEF Inv, PlaceHasState
    <2>2. Idle(n) => st[n] \cap {"idle", "wait", "run"} = {"idle"}
      BY DEF Idle
    <2>3. Waiting(n) => st[n] \cap {"idle", "wait", "run"} = {"wait"}
      BY DEF Waiting
    <2>4. Running(n) => st[n] \cap {"idle", "wait", "run"} = {"run"}
      BY DEF Running
    <2> QED
      BY <2>1, <2>2, <2>3, <2>4 DEF Waiting, Running
  <1> QED
    BY <1>1, Invariance, PTL

\* A node whose state says it waits is queued or about to be.
THEOREM NoneForgotten == Spec => []WaitingIsQueued
  <1>1. Inv => WaitingIsQueued
    BY DEF Inv, WaitingIsQueued, PlaceHasState, Idle, Waiting, Running
  <1> QED
    BY <1>1, Invariance, PTL

\* cluster_signal_f never misses the worker that is about to sleep: while a
\* task is queued, a worker is awake or woken, or a client has yet to signal.
THEOREM WakeupsArrive == Spec => []NoLostWakeup
  <1>1. Inv => NoLostWakeup
    BY DEF Inv, NoLostWakeup, Wakeups, Awake
  <1> QED
    BY <1>1, Invariance, PTL

\* When mpp_node_detach has returned, the node is in no list, no client is about to
\* queue it, a worker that still has it is at the two assertions after its swap to
\* idle, and a trigger that is at its own swap will not queue it.
THEOREM DetachIsFinal == Spec => []DetachedIsGone
  <1>1. Inv => DetachedIsGone
    <2> SUFFICES ASSUME Inv, NEW n \in Nodes, gone[n]
                 PROVE  /\ ~attached[n] /\ ~Queued(n)
                        /\ \A c \in Clients : ~Entering(c, n)
                        /\ \A w \in Workers : task[w] = n => wpc[w] = "assert"
                        /\ st[n] \cap {"idle", "wait"} = {}
      BY DEF DetachedIsGone
    <2>1. ~attached[n] /\ Running(n)
      BY DEF Inv, Lives, Life
    <2>2. \A w \in Workers : ~Held(w, n)
      BY <2>1 DEF Inv, Lives, Life
    <2>3. \A w \in Workers : task[w] = n => wpc[w] \in HoldingPcs \cup {"assert"}
      BY NoneAssumption DEF Inv, NodesKnown
    <2> QED
      BY <2>1, <2>2, <2>3 DEF Inv, PlaceHasState, Running, Waiting, Held
  <1> QED
    BY <1>1, Invariance, PTL

=============================================================================
