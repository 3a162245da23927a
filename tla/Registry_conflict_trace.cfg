SPECIFICATION Spec
CONSTANTS
    Callers = {r1, r2}
    Readers = {}
    Packages = {p1}
    Versions = {v1}
    Digests = {Good1, Good2}
    Good1 = Good1
    Good2 = Good2
    Big = Big
    Broken = Broken
    Bad = Bad
    Verdict <- MCVerdict
    TempFaults = {}
    Absent = Absent
    Torn = Torn
    NoDigest = NoDigest
    Free = Free
INVARIANT ConflictLeavesNoBlob
