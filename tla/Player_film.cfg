SPECIFICATION FairSpec
CONSTANTS
    Films <- AllFilms
    MaxAudioqSize = 2
    MaxVideoqSize = 2
    N = 3
    VideoDelay = 1
    AudioDelay = 1
    ReadFails = TRUE
INVARIANTS QueueBounds ShownByIndex IndexSuffices HeardInOrder
PROPERTY PlayedToEnd
CHECK_DEADLOCK FALSE
