CONSTANTS
    Forms = {"full", "extended"}
    MaxResults = 2
    MaxLines = 3
    MaxFrames = 2
SPECIFICATION Spec
CHECK_DEADLOCK FALSE
INVARIANTS
    DecodedSpotsPosted
