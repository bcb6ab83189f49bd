SPECIFICATION ChannelsSpec
CONSTANTS
    Layouts <- MCLayouts
    app = app
    hal = hal
    other = other
    Callers = {app, hal, other}
    Hal = {app, hal}
    MaxCameras = 2
    Situations <- MCSituations
    PollSetups <- MCPolled
INVARIANTS ChannelsTypeOK HandlesAreLive AllOrNothing FramesHaveReaders QuietOnceOff
PROPERTIES OpsReturn FramesPickedUp
CHECK_DEADLOCK FALSE
