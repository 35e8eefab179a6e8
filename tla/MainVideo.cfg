\* The video: a home monitor without sound, two reads at a time, one stream
\* that is held and one that is posted.
SPECIFICATION MainSpec
CONSTANTS
    Threads = {t1}
    Streams = {s1, s2}
    NoThread = NoThread
    NoStream = NoStream
    MaxReads = 2
    HasSound = FALSE
SYMMETRY Symmetry
INVARIANTS
    MainTypeOK
    VideoObeysPause
    BackgroundIsQuiet
    FaultNeedsMishap
PROPERTY
    ViewSpec
