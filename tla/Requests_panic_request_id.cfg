\* One request of each kind to a server on its defaults, in which a handler may panic.
SPECIFICATION RequestsSpec
CONSTANTS
    Environments <- MCDefaults
    MaxInt = 7
    MaxIdentityLength = 7
    MaxIdentityComponents = 3
    MaxVersionLength = 3
    MaxRepositoryNameLength = 2
    Repositories <- MCRepositories
    RawNames <- MCRawNames
    Grants <- MCGrants
    Exchanges = {e1}
    MaxSize = 4
INVARIANT EveryProblemNamesItsRequest
CHECK_DEADLOCK FALSE
