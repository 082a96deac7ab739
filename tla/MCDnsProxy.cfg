\* Two clients, two names, two identifiers.
CONSTANTS
    page = page
    ad = ad
    parent = parent
    Client = {c1, c2}
    Domain = {page, ad}
    Suffix <- MCSuffix
    List <- MCList
    Id = {i1, i2}
    MaxQueries = 1
    RetryAge = 1
    MaxAge = 2
SPECIFICATION FairSpec
INVARIANTS
    OwnAnswer
PROPERTIES
    BlockedIsRefused
    NoQueryWaitsForever
