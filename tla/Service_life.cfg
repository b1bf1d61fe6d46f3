\* Both ways to listen, both kinds of driver, one worker or two, two scrapers. An exited process stops.
CONSTANTS
    Listens = {"explicit", "auto"}
    Drivers = {"supported", "unsupported"}
    Workers = {1, 2}
    Clients = {c1, c2}
    None = None
SPECIFICATION FairSpec
INVARIANT TypeOK
INVARIANT BindingRespected
INVARIANT StopsForAReason
PROPERTY MonitorDeathExits
PROPERTY ScrapesAnswered
CHECK_DEADLOCK FALSE
