SPECIFICATION PacedSpec
CONSTANTS
    TsMod = 8
    CodecModes = {TRUE, FALSE}
    CodecMayFail = TRUE
    FrameMayBeLost = FALSE
    CodecMayHold = FALSE
    MetaUnits = {2}
    VideoSteps = {2}
    AudioOffsets = {0, 1}
    AbsFlags = {0}
    MaxSessions = 2
    MaxVideo = 3
    MaxAudio = 2
PROPERTIES
    JoinsReturn
    PacketsAreTaken
    EncodeSendsVideo
CHECK_DEADLOCK FALSE
