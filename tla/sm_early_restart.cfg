SPECIFICATION Spec
CONSTANTS
    MayFail = FALSE
    EarlyRestart = TRUE
    Params <- Modes
    Commands = {"OTHER"}
    BusyParams = FALSE
INVARIANT StoppedMeansStopped
