SPECIFICATION FairSpec
CONSTANTS
    MaxPackets = 5
    Sizes <- OneOrTwo
INVARIANT IInv
PROPERTIES ImplementsChannel PacketIsTaken
CHECK_DEADLOCK FALSE
