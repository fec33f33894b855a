SPECIFICATION Spec
CONSTANTS
    r1 = r1
    Runs = {r1}
    p1 = p1
    Packages = {p1}
    c1 = c1
    c2 = c2
    Commands = {c1}
    Loadable <- RunLoadable
    NoRun = NoRun
    NoPackage = NoPackage
    MaxOutput = 0
    MaxRestarts = 0
INVARIANTS
    NoSuccessAfterCancellation
CHECK_DEADLOCK FALSE
