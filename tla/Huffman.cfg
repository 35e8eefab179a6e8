\* All three parts, each within the bounds its module names.
SPECIFICATION Spec
CONSTANTS
    Chosen = {"table", "sequential", "progressive"}
    TableMaxLen = 3
    TableLookahead = 2
    N = 5
    Counts <- MCCounts
    MAX_CLEN = 5
    GivenBits <- MCGivenBits
    GivenVals <- MCGivenVals
    MaxLen = 5
    Lookahead = 3
    MinGet = 9
    Intervals <- MCIntervals
    Baseline <- MCBaseline
    Natural <- MCNatural
    Membership <- MCMembership
    Pictures <- MCPictures
    BufSize = 16
    Rooms <- MCRooms
    Wanted <- MCWanted
    Losses <- MCLosses
    Banded <- MCBanded
    MaxEobRun = 3
    MaxCorrBits = 11
    Images <- MCImages
    Scripts <- MCScripts
INVARIANTS
    TablesAreSound
    ScansAreSound
    ScansSurvive
