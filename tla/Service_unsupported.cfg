\* An unsupported driver on two workers. An exited process stops.
CONSTANTS
    Listens = {"auto"}
    Drivers = {"unsupported"}
    Workers = {2}
    Clients = {c1}
    None = None
SPECIFICATION FairSpec
PROPERTY UnsupportedEnds
CHECK_DEADLOCK FALSE
