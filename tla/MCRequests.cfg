\* A refused process stops, and a request that is answered is over.
SPECIFICATION RequestsSpec
CONSTANTS
    Environments <- MCEnvironments
    MaxInt = 7
    MaxIdentityLength = 7
    MaxIdentityComponents = 3
    MaxVersionLength = 3
    MaxRepositoryNameLength = 2
    Repositories <- MCRepositories
    RawNames <- MCRawNames
    Grants <- MCGrants
    Exchanges = {e1}
    MaxSize = 4
INVARIANTS
    RequestsTypeOK
    BindsWhatWasAsked
    StartsOnlyWhenSound
    BodyIsReadLast
    JudgedWholeOrRefused
    PackagesHaveOneName
    GrantsKeepToTheirOwner
    NotFoundIsNotPublished
    AnsweredAndLoggedOnce
PROPERTY AnsweredUnlessTheBodyStalls
CHECK_DEADLOCK FALSE
