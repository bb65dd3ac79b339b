CONSTANTS
    Kinds = {"internal", "external", "misc"}
    Sizes = {1, 2, 3}
    Limit = 2
    SizeLimit = 2
    MaxBuffers = 3
    MaxRefs = 2
SPECIFICATION Spec
INVARIANTS
    TypeOK
    ListsMatchHolders
    GroupFound
    OldNeverUnused
    PromiseKept
CHECK_DEADLOCK FALSE
