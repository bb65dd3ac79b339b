CONSTANTS
    c1 = c1
    c2 = c2
    n1 = n1
    Nodes = {n1}
    Clients = {c1}
    WorkerCount = 1
    Owner <- OneOwner
    MaxTriggers = 1
    MayDetach = FALSE
    None = None
SPECIFICATION FairSpec
PROPERTIES TriggerIsServed
CHECK_DEADLOCK FALSE
