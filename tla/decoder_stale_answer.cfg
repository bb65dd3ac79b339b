CONSTANTS
    Streams <- ChangedStream
    Sizes = {1, 2}
    SlotCount = 4
    TaskCount = 2
    PortTasks = 4
    BufferLimit = 2
    DisplayLimit = 1
    Unmatched = {}
    MaxResets <- TwoResets
SPECIFICATION Spec
INVARIANTS
    InfoBeforeFrame
CHECK_DEADLOCK FALSE
