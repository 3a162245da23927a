\* Two publishes of good archives to one version or two, a download, crashes.
SPECIFICATION Spec
CONSTANTS
    Callers = {r1, r2}
    Readers = {k1}
    Packages = {p1}
    Versions = {v1, v2}
    Digests = {Good1, Good2}
    Good1 = Good1
    Good2 = Good2
    Big = Big
    Broken = Broken
    Bad = Bad
    Verdict <- MCVerdict
    TempFaults = {}
    Absent = Absent
    Torn = Torn
    NoDigest = NoDigest
    Free = Free
SYMMETRY Symmetry
INVARIANTS
    EveryRowHasItsBytes
    DownloadsServeWhatIsPublished
    AcknowledgedIsPublished
    ConflictNamesWinnerOrNothing
PROPERTIES
    ObjectsAreFinal
    IsLinearizable
