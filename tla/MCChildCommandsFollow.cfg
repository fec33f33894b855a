SPECIFICATION Spec
CONSTANTS
    run = run
    child = child
    grandchild = grandchild
    Invocations = {run, child, grandchild}
    Root = run
    Parent <- ChainParent
    Ancestors <- ChainAncestors
    NoOne = NoOne
    MaxOutput = 2
PROPERTIES
    FollowsParent
CHECK_DEADLOCK FALSE
