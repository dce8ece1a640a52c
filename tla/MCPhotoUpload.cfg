\* Five screens, so that a second rotate screen or a second registration can come
\* up, and three chains of requests under way.
CONSTANTS
    NoView = NoView
    NoImage = NoImage
    MaxScreens = 5
    MaxTaps = 3
    MaxTurns = 1
SPECIFICATION FairSpec
INVARIANTS
    TypeOK
    PhotoShownIsPhotoFiled
    NobodyIsLockedOut
PROPERTIES
    ScreensAreFreed
CHECK_DEADLOCK FALSE
