\* The monitor dies on two workers. An exited process stops.
CONSTANTS
    Listens = {"auto"}
    Drivers = {"supported"}
    Workers = {2}
    Clients = {c1}
    None = None
SPECIFICATION Spec
INVARIANT DeathReported
CHECK_DEADLOCK FALSE
