SPECIFICATION Spec
CONSTANTS
    Films <- AllFilms
    N = 3
    Timebase = 2
    Second = 20
    FirstDelay = 4
    NoSync = 30
    MaxIdle = 5
    MaxSilence = 2
    MaxLead = 2
    MaxLag = 1
    MaxTime = 45
INVARIANTS SleepBounded InSync TimesIncrease
CHECK_DEADLOCK FALSE
