CONSTANTS
    Kinds = {"internal", "external"}
    Sizes = {1, 2}
    Limit = 2
    SizeLimit = 2
    MaxBuffers = 2
    MaxRefs = 1
SPECIFICATION Spec
INVARIANTS
    DestroyedEmpty
CHECK_DEADLOCK FALSE
