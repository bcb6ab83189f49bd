SPECIFICATION CaptureSpec
CONSTANTS
    MayFail = FALSE
    EarlyRestart = FALSE
    Params <- Modes
    Commands = {"OTHER"}
    BusyParams = FALSE
    Streams = {"preview"}
    NumOfSnapshots = 2
    MaxStreamFrames = 1
    MaxStreamLives = 1
    MaxCaptures = 2
    Setups <- MCSetups
    Reports <- MCReports
    Requests <- MCRequests
    BufNum = 2
    MaxFrame = 2
    MaxCommands = 1
INVARIANTS HardwareMatchesState NoCallbackOfDeadStream DoneAfterItsPictures BuffersAccounted SuperbufsInOrder
PROPERTY DoneComes
CHECK_DEADLOCK FALSE
