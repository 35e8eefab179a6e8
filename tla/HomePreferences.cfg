\* Messages from home only.
SPECIFICATION Spec
CONSTANTS
    Chosen = {"messages"}
    v1 = v1
    v2 = v2
    Values <- MCValues
    Nothing = Nothing
    Sent <- MCSent
    Cameras <- MCCameras
    FRAME_MAX_LENGTH = 20
    MaxWidth = 2
    MaxHeight = 2
    BitmapWidth = 2
    BitmapHeight = 2
    MaxMessages = 3
    MaxTasks = 4
    MaxParts = 3
    MaxLength = 5
    MaxFrames = 2
PROPERTY
    PreferencesAreUsed
