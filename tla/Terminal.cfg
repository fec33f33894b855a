SPECIFICATION TerminalSpec
CONSTANTS MaxChunks=2 MaxReads=3 MaxRuns=2 MaxOutput=1 MaxResets=1
INVARIANTS FifoDelivery DrainedBeforeEnd NoStrandedReader OwnOutcome
PROPERTY BusyEnds
CHECK_DEADLOCK FALSE
