\* All three parts, each within the bounds its module names.
SPECIFICATION PartsSpec
CONSTANTS
    Setups <- MCSetups
    Files <- MCFiles
    Chosen = {"markers", "calls", "rows"}
    ImageFiles <- MCImages
    Options <- MCOptions
    Wanted <- MCWanted
    Shapes <- MCShapes
    Rows = 2
    Cols = 2
    Lines = 2
    MaxLines = 5
INVARIANTS
    ImagesComeWhole
PROPERTIES
    ReadingKeepsItsPlace
    ReadingSucceeds
    RowsComeRight
