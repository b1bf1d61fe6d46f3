\* One instance, each server, every fault.
CONSTANTS
    Instances = {p1}
    Kinds = {"postgres", "mysql", "mariadb"}
    RowRange = 2
    RollbackIds = {0, 7}
    DropBelow = 1
    DropLimit = 2
    Batch = 1
    Faults = {"break", "crash", "restart", "failover", "lock", "age"}
    None = None
SPECIFICATION FairSpec
INVARIANT TypeOK
INVARIANT OnlyProbesCommitted
INVARIANT FailsForAReason
INVARIANT EvidenceHolds
PROPERTY CleanupSparesRecent
PROPERTY Recovers
PROPERTY ImplementsOutcome
