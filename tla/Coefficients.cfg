\* Every block size with every single AC term, every setting of the managers at
\* a DC, a low and the highest position, and the parts of arithmetic coding.  A
\* behaviour ends when everything is encoded or decoded.
SPECIFICATION Spec
CONSTANTS
    Chosen = {"inverse", "forward", "scaled", "coder", "model"}
    Positions = {0, 9, 63}
    InverseComps <- MCComps
    Scans <- MCScans
    InverseQuants <- MCInverseQuants
    InverseSizes <- MCInverseSizes
    DctMethods <- MCDctMethods
    N = 3
    Tables <- MCTables
    Quants <- MCQuants
    BlockSizes <- MCBlockSizes
    Values <- MCValues
    Levels <- MCLevels
    Tolerance = 40
    DecisionScans <- MCDecisionScans
    Bins <- MCBins
    FixedBin = "fixed"
    Jobs <- MCJobs
    Period = 8
    Length = 180
INVARIANTS
    ScaledSizesAgree
    QuantizesByItsOwnStep
    DecisionsSurvive
    DecoderKeepsToItsBins
PROPERTIES
    PassShowsItsScan
CHECK_DEADLOCK FALSE
