SPECIFICATION Spec
CONSTANTS
    MayFail = TRUE
    EarlyRestart = TRUE
    Params <- TroubledModes
    Commands = {"LONGSHOT_ON", "LONGSHOT_OFF", "OTHER"}
    BusyParams = TRUE
VIEW WithoutReply
INVARIANT VideoIffRecording
INVARIANT LiveSnapshotOwned
