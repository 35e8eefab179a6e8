\* One camera stream, with sound.
SPECIFICATION MainSpec
CONSTANTS
    Threads = {t1}
    Streams = {s1}
    NoThread = NoThread
    NoStream = NoStream
    MaxReads = 1
    HasSound = TRUE
INVARIANT
    PlaybackPauses
