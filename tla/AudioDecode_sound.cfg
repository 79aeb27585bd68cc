SPECIFICATION FairSpec
CONSTANTS
    Sounds <- AllSounds
    Length = 2
    Silence = 3
INVARIANTS InOrder SilentAtTheEnds ClockLead
PROPERTY HeardToEnd
CHECK_DEADLOCK FALSE
