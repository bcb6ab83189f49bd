SPECIFICATION ApiSpec
CONSTANTS
    MayFail = FALSE
    EarlyRestart = FALSE
    Params = {}
    Commands = {}
    BusyParams = FALSE
    app = app
    recorder = recorder
    Nobody = Nobody
    Threads <- Callers
    Calls <- PictureCalls
    MaxCalls = 5
    MaxEvents = 2
CHECK_DEADLOCK FALSE
INVARIANT DoneEndsItsCapture
