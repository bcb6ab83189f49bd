SPECIFICATION PicturesSpec
CONSTANTS
    NUM_MAX_JPEG_CNCURRENT_JOBS = 1
    MM_JPEG_CONCURRENT_SESSIONS_COUNT = 2
    MaxJobs = 2
    Captures <- MCCaptures
    ReprocBufs = 1
    MaxPicFrames = 2
    MaxRounds = 1
    MAX_ONGOING_JOBS = 2
    o1 = o1
    o2 = o2
    o3 = o3
    Objects = {o1, o2, o3}
    RawYuv = TRUE
    MayFail = TRUE
    PastTheEnd = TRUE
INVARIANTS OwnedOnce EncoderOwnsInput OneWorkPerSlot WorkPrecedesUse
PROPERTIES BuffersReturned CloseEnds FrameMeetsPostprocessor WaitsEnd
CHECK_DEADLOCK FALSE
