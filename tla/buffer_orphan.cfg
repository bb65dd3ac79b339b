CONSTANTS
    Kinds = {"internal", "external"}
    Sizes = {1, 2}
    Limit = 2
    SizeLimit = 2
    MaxBuffers = 2
    MaxRefs = 1
SPECIFICATION Spec
INVARIANTS
    OrphanWaits
CHECK_DEADLOCK FALSE
