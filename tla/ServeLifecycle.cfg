\* Two processes on one address, an upload and two migrations (the source has one).
SPECIFICATION LifeSpec
CONSTANTS
    Processes = {a, b}
    Ports = {port1}
    Uploads = {u1}
    Last = 2
    NoProcess = NoProcess
INVARIANTS
    SchemaIsAPrefix
    OnlyATransactionLocks
    UploadsSurviveSweeps
    SweptMeansGone
    ServesOnlyMigrated
PROPERTIES
    StopsWhenTold
