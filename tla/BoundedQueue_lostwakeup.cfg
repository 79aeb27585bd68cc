SPECIFICATION FairSpec
CONSTANTS
    Producer = producer
    Consumers = {c1}
    Others = {}
    NoThread = none
    SizeMax = 2
    MaxItems = 4
    MaxSpurious = 0
PROPERTIES FinishedEndsPop
CHECK_DEADLOCK FALSE
