SPECIFICATION FairSpec
CONSTANT Requests = {r1, r2}
INVARIANTS TypeOK ExitStatusTruthful CleanExitDrained
PROPERTY ShutdownCompletes
CHECK_DEADLOCK FALSE
