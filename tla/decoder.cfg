CONSTANTS
    Streams <- ShortStreams
    Sizes = {1, 2}
    SlotCount = 4
    TaskCount = 2
    PortTasks = 4
    BufferLimit = 2
    DisplayLimit = 1
    Unmatched <- NewSize
    MaxResets <- ShortResets
SPECIFICATION FairSpec
INVARIANTS
    TypeOK
    FlagsMatchHolders
    HardwareOwnsItsFrames
    OneFrameInHardware
    SlotLeft
    PacketsInOneLine
    InfoSurvivesReset
    EosIsLast
    ResetFindsIdle
    NoMissedWakeup
PROPERTIES
    ResetDiscardsAll
    PacketsComeOut
    EosComesOut
    CallsReturn
CHECK_DEADLOCK FALSE
