\* The divisors of a table that components of two methods share.
SPECIFICATION Spec
CONSTANTS
    Chosen = {"forward"}
    Positions = {0, 9, 63}
    InverseComps <- MCComps
    Scans <- MCScans
    InverseQuants <- MCInverseQuants
    InverseSizes <- MCInverseSizes
    DctMethods <- MCDctMethods
    N = 3
    Tables <- MCTables
    Quants <- MCQuants
    BlockSizes <- MCBlockSizes
    Values <- MCValues
    Levels <- MCLevels
    Tolerance = 40
    DecisionScans <- MCDecisionScans
    Bins <- MCBins
    FixedBin = "fixed"
    Jobs <- MCJobs
    Period = 8
    Length = 180
INVARIANTS
    SharingIsNoBigDeal
CHECK_DEADLOCK FALSE
