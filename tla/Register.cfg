\* Three calls: a new token, one more, and a request from the menu; one start
\* for each and one for a retry.
SPECIFICATION FairSpec
CONSTANTS
    MaxTokens = 2
    MaxAsks = 1
    MaxCalls = 3
    MaxStarts = 4
INVARIANTS
    TypeOK
    NoCallForgotten
PROPERTIES
    TokensSentInOrder
    FinishIsCurrent
    EveryJobEnds
