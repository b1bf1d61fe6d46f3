\* One instance on MySQL, a lock that need not be given back.
CONSTANTS
    Instances = {p1}
    Kinds = {"mysql"}
    RowRange = 2
    RollbackIds = {0, 7}
    DropBelow = 1
    DropLimit = 2
    Batch = 1
    Faults = {"lock"}
    None = None
SPECIFICATION FairSpec
PROPERTY NeverHangsOnLocks
