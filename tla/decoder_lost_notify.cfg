CONSTANTS
    Streams <- LongStream
    Sizes = {1, 2}
    SlotCount = 4
    TaskCount = 2
    PortTasks = 4
    BufferLimit = 5
    DisplayLimit = 4
    Unmatched = {}
    MaxResets <- LongResets
SPECIFICATION Spec
INVARIANTS SleepsWithCause
CHECK_DEADLOCK FALSE
