SPECIFICATION MCSpec
CONSTANTS
    r1 = r1
    Runs = {r1, r2}
    p1 = p1
    Packages = {p1, p2}
    c1 = c1
    c2 = c2
    Commands = {c1, c2}
    Loadable <- AllLoadable
    NoRun = NoRun
    NoPackage = NoPackage
    MaxOutput = 1
    MaxRestarts = 1
INVARIANTS
    TypeOK NoOrphanWaiter CatalogMatchesPackages
    StreamOrder EveryEndReported SingleActive NoLostUpdate
PROPERTIES
    NoImportAfterAbort AbortedRunsEnd
CHECK_DEADLOCK FALSE
