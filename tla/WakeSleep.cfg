\* The deadline is assumed only where StopEndsSleep says so.
SPECIFICATION FairSleepSpec
INVARIANTS
    NoLostWakeup
PROPERTIES
    ImplementsSleeper
    StopEndsSleep
CHECK_DEADLOCK FALSE
