SPECIFICATION FairSpec
CONSTANTS
    TsMod = 8
    CodecModes = {TRUE}
    CodecMayFail = FALSE
    FrameMayBeLost = FALSE
    CodecMayHold = FALSE
    MetaUnits = {2}
    VideoSteps = {2}
    AudioOffsets = {0, 1}
    AbsFlags = {0}
    MaxSessions = 1
    MaxVideo = 3
    MaxAudio = 2
PROPERTIES
    EncodeSendsVideo
CHECK_DEADLOCK FALSE
