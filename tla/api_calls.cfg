SPECIFICATION ApiSpec
CONSTANTS
    MayFail = FALSE
    EarlyRestart = FALSE
    Params = {}
    Commands = {}
    BusyParams = FALSE
    app = app
    recorder = recorder
    Nobody = Nobody
    Threads <- Callers
    Calls <- QuietCalls
    MaxCalls = 4
    MaxEvents = 2
INVARIANT NoLostWakeup
INVARIANT OwnReply
PROPERTY ImplementsApiCall
CHECK_DEADLOCK FALSE
