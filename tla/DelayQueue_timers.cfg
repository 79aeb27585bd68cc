SPECIFICATION DelaySpec
CONSTANTS
    Delays = {0, 1, 3}
    Eternity = 100
    Settings <- MCSettings
    MaxTime = 5
    MaxTokens = 3
    MaxSettings = 2
INVARIANT DeltasAddUp
PROPERTIES ImplementsTimers NotEarly SleepsUntilDue
