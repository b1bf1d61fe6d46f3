\* Two instances on PostgreSQL, crashes, failovers, locks that need not be given back.
CONSTANTS
    Instances = {p1, p2}
    Kinds = {"postgres"}
    RowRange = 1
    RollbackIds = {0}
    DropBelow = 1
    DropLimit = 2
    Batch = 1
    Faults = {"lock", "crash", "failover"}
    None = None
SPECIFICATION FairSpec
INVARIANT OnlyProbesCommitted
INVARIANT EvidenceHolds
INVARIANT FailsForAReason
PROPERTY CheckEnds
PROPERTY ImplementsOutcome
