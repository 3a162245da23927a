\* Every path of two publishes of one version, of archives with every verdict, and a
\* download, with crashes and an upload file that resists removal: what each leaves on
\* disk, and that it ends.
SPECIFICATION Spec
CONSTANTS
    Callers = {r1, r2}
    Readers = {k1}
    Packages = {p1}
    Versions = {v1}
    Digests = {Good1, Big, Broken, Bad}
    Good1 = Good1
    Good2 = Good2
    Big = Big
    Broken = Broken
    Bad = Bad
    Verdict <- MCVerdict
    TempFaults = {r1}
    Absent = Absent
    Torn = Torn
    NoDigest = NoDigest
    Free = Free
INVARIANTS
    OnlyAcceptedArchivesAreStored
    UploadsAreOwned
PROPERTY RequestsEnd
