SPECIFICATION Spec
CONSTANTS
    Archives <- MCArchives
    MaxEntries = 2
    MaxUncompressed = 3
    MaxManifest = 1
    MaxLinkTarget = 2
    RequireVersionMatch = TRUE
    MaxLength = 2
INVARIANT AcceptedIsWithinTheCap
CHECK_DEADLOCK FALSE
