CONSTANTS
    PackageRoot = FALSE
    Redirected = {0, 1}
    Duplicated = {0, 1, 3, 4}
    Mounts = {"workspace", "other"}
    MaxFd = 6
    MaxOpenFiles = 3
    MaxObjects = 0
    MaxOffset = 1
    MaxForks = 2
    PipeLimit = 1
SPECIFICATION Spec
INVARIANT VforkParentResumes
CHECK_DEADLOCK FALSE
