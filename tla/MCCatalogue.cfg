\* Two publishes of one archive and a listing, while an operator makes the two
\* repositories.
SPECIFICATION CatalogueSpec
CONSTANTS
    Callers = {c1, c2}
    p1 = p1
    p2 = p2
    g1 = g1
    g2 = g2
    Packages = {p1, p2}
    Versions = {v1, v2}
    Digests = {d1}
    Repositories = {g1, g2}
    Home <- MCHome
    Listers = {k1}
    MaxTime = 1
    NoDigest = NoDigest
    Free = Free
INVARIANTS
    ListingIsComplete
    LaterPublishesComeFirst
    TablesAgree
PROPERTY EveryCallAndListingEnds
