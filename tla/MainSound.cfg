\* The sound: player and focus callbacks, beside one stream; and that the UI
\* thread goes on (no symmetry, as that is liveness).
SPECIFICATION MainFairSpec
CONSTANTS
    Threads = {t1}
    Streams = {s1}
    NoThread = NoThread
    NoStream = NoStream
    MaxReads = 1
    HasSound = TRUE
INVARIANTS
    AudioObeysPause
    PausedHoldsNoFocus
PROPERTY
    UIReturns
