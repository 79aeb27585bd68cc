SPECIFICATION FairSchedulerSpec
CONSTANTS
    Limit = 5
    FD_SETSIZE = 4
INVARIANT SelectSeesAll
PROPERTY HandledInTurn
