\* Every archive of the menu, entry by entry; the pass ends, so it may stop.
SPECIFICATION Spec
CONSTANTS
    Archives <- MCArchives
    MaxEntries = 2
    MaxUncompressed = 3
    MaxManifest = 1
    MaxLinkTarget = 2
    RequireVersionMatch = TRUE
    MaxLength = 3
INVARIANTS
    ReadIsBounded
    AcceptedKeepsTheRules
    VerdictIsExact
    ReportedRulesAreBroken
    EscapesIsClimbs
CHECK_DEADLOCK FALSE
