\* Two instances on PostgreSQL, a database that exists, no table dropped, no fault.
CONSTANTS
    Instances = {p1, p2}
    Kinds = {"postgres"}
    RowRange = 2
    RollbackIds = {0, 7}
    DropBelow = 0
    DropLimit = 2
    Batch = 1
    Faults = {}
    None = None
SPECIFICATION CreatedSpec
SYMMETRY Symmetry
INVARIANT InstancesIndependent
