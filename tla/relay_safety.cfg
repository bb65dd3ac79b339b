SPECIFICATION Spec
CONSTANTS
    TsMod = 5
    CodecModes = {TRUE, FALSE}
    CodecMayFail = TRUE
    FrameMayBeLost = TRUE
    CodecMayHold = TRUE
    MetaUnits = {0, 3}
    VideoSteps = {1, 3}
    AudioOffsets = {1}
    AbsFlags = {0, 1}
    MaxSessions = 2
    MaxVideo = 3
    MaxAudio = 2
INVARIANTS
    TypeOK
    AudioOnceInOrder
    VideoOnceInOrder
    AudioAroundItsFrame
    ThreadLeavesNothing
    OneThreadPerSession
    SteadyClock
PROPERTIES
    ImplementsContract
CHECK_DEADLOCK FALSE
