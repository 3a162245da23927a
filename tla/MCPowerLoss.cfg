\* Two publishes, the second perhaps after the power was cut, of one version or two.
SPECIFICATION PowerSpec
CONSTANTS
    Callers = {r1, r2}
    Readers = {}
    Packages = {p1}
    Versions = {v1, v2}
    Digests = {d1, d2}
    Verdict <- MCVerdict
    TempFaults = {}
    Absent = Absent
    Torn = Torn
    NoDigest = NoDigest
    Free = Free
SYMMETRY Symmetry
INVARIANTS
    ContentAddressed
    OnlyACutTakesBytes
    OnlyACutTakesA201
    RepublishRestoresBytes
PROPERTY SettledIsForever
