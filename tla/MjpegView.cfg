\* Two thread objects are enough for a second renderer, three streams for one
\* that is read, one that is held and one that is posted.
SPECIFICATION Spec
CONSTANTS
    Threads = {t1, t2}
    Streams = {s1, s2, s3}
    NoThread = NoThread
    NoStream = NoStream
    MaxReads = 2
INVARIANTS
    TypeOK
    AtMostOneRenderer
    OnlyOpenStreamsAreRead
    NothingRunsBehindPause
    HeldStreamIsRendered
    FaultHasCause
PROPERTIES
    RenderingBeginsWithASource
    ContractSpec
