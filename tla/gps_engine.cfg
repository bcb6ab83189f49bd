SPECIFICATION GpsSpec
CONSTANTS
    MaxRequests = 2
    MaxRestarts = 1
    c1 = c1
    c2 = c2
    Conns <- MCConns
    Routes <- MCRoutes
    MAX_START_DATA_CALL_RETRIES = 1
    MaxAsked = 2
    MaxEngineUps = 1
    MaxLosses = 1
    t1 = t1
    t2 = t2
    Timers <- MCTimers
    Delays = {1, 3}
    TicksPerSecond = 2
    MaxDelegates = 2
    MaxTime = 4
    nothing = nothing
    Items = {1, 2, 3, 4, 5}
    Rank <- MCRank
    None = nothing
INVARIANT GpsTypeOK
INVARIANT AnsweredOnce
INVARIANT AnswersOwnRequest
INVARIANT StateMatchesNetwork
INVARIANT KernelSetForSoonest
PROPERTY WhatBeginsEnds
PROPERTY ImplementsRankedSet
CHECK_DEADLOCK FALSE
