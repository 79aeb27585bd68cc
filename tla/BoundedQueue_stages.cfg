SPECIFICATION FairSpec
CONSTANTS
    Producer = producer
    Consumers = {c1, c2}
    Others = {other}
    NoThread = none
    SizeMax = 2
    MaxItems = 3
    MaxSpurious = 1
INVARIANT IInv
PROPERTIES ImplementsChannel AcceptedIsDelivered PushReturns
CHECK_DEADLOCK FALSE
