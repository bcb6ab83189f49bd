SPECIFICATION ModemSpec
CONSTANTS
    c1 = c1
    c2 = c2
    c3 = c3
    mode = mode
    time = time
    LOC_SYNC_REQ_BUFFER_SIZE = 2
    Callers = {c1, c2, c3}
    Kinds = {mode, time}
    Requests <- TwoAlike
    MaxCalls = 1
    Nothing = Nothing
    AidingData = {"ephemeris", "almanac"}
    MaxStarts = 2
    MaxEvents = 2
    MaxTogether = 2
    MaxWaiting = 1
INVARIANTS OneCallerPerSlot NoSleepOnAnswer SuccessHasAnswer
INVARIANTS EngineFollowsClient NothingWaitsForEngineOff
PROPERTIES WritesOnlyDuringCall CallReturns
CHECK_DEADLOCK FALSE
