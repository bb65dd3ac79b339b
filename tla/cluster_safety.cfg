CONSTANTS
    c1 = c1
    c2 = c2
    n1 = n1
    Nodes = {n1}
    Clients = {c1, c2}
    WorkerCount = 2
    Owner <- OneOwner
    MaxTriggers = 1
    MayDetach = TRUE
    None = None
SPECIFICATION FairSpec
INVARIANTS TypeOK TaskInOnePlace StateMatchesPlace WaitingIsQueued NoLostWakeup DetachedIsGone
PROPERTIES QueuedRuns
CHECK_DEADLOCK FALSE
