SPECIFICATION FairSpec
CONSTANTS
    VIDEO_PICTURE_QUEUE_SIZE = 3
    MaxPictures = 5
    MaxInputs = 1
    MaxWaitFails = 1
    OtherEvents <- UsualEvents
    AllocFails = TRUE
    TimerFails = TRUE
INVARIANTS RefreshesAddUp IInv
PROPERTIES ImplementsChannel QueuedIsShown
CHECK_DEADLOCK FALSE
