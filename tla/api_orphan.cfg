SPECIFICATION ApiSpec
CONSTANTS
    MayFail = FALSE
    EarlyRestart = FALSE
    Params = {}
    Commands = {}
    BusyParams = FALSE
    app = app
    recorder = recorder
    Nobody = Nobody
    Threads <- Callers
    Calls <- CancellingCalls
    MaxCalls = 4
    MaxEvents = 2
CHECK_DEADLOCK FALSE
INVARIANT OwnReply
