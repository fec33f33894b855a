CONSTANTS
  c1 = c1  c2 = c2  c3 = c3
  Calls = {c1, c2, c3}
  Script <- MCScript
  Configs <- MCConfigs
  NoId = NoId
  MaxFaults = 1

  Callers = {"x1", "x2"}
  Changes <- MCChanges
  Stored <- MCStored
  OneFirstCall = TRUE
  MaxReloads = 1

  d1 = d1  d2 = d2
  Dispatches = {d1, d2}
  Id <- MCId
  Requests <- MCRequests
  Responses <- MCResponses
  BodyLimit = 2
  FrameLimit = 4
  NoDispatch = NoDispatch
  WaitsForEnd = TRUE
  MaxBody = 1

  Slots = {"fd1"}
  Texts <- MCRootTexts
  ScratchTexts <- MCScratchTexts
  OpenRequests <- MCOpenRequests
  Snapshot <- MCSnapshot
  PackageFiles <- MCPackageFiles
  PackageRoot <- MCPackageRoot
  ChildChanges <- MCChildChanges
  ChildLeavesOpen = TRUE
  MaxDepth = 2
  MaxNodes = 4
SPECIFICATION PageSpec
INVARIANT RunKept
CHECK_DEADLOCK FALSE
