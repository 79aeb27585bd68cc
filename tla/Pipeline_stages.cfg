SPECIFICATION FairSpec
CONSTANTS
    Files <- Films
    VideoStream = 0
    AudioStream = 1
    QueueMax = 2
    DecoderDelay = 1
    EncoderDelay = 1
    Throwing <- AllStages
    MaxFailures = 2
    AudioWriteFails = TRUE
    VideoWriteFails = TRUE
    EncoderRefuses = TRUE
INVARIANTS IndexFaithful IndexAligned GapFree Complete
PROPERTY Ends
CHECK_DEADLOCK FALSE
