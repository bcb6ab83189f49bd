SPECIFICATION TimerSpec
CONSTANTS
    Timers = {t1, t2}
    Delays = {1, 2}
    TicksPerSecond = 1
    MaxDelegates = 3
    MaxTime = 4
INVARIANT NeverEarly
CHECK_DEADLOCK FALSE
