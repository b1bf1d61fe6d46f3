\* One host, a usable --range and --range 0, a database that always answers or refuses.
CONSTANTS
    Hosts = {h1}
    Releases = {v1}
    Sessions = {t1}
    Modes = {"writable", "replica", "down"}
    Ranges = {0, 1}
    TlsEnabled = TRUE
    None = None
SPECIFICATION FairSpec
PROPERTY OutageReported
PROPERTY RecoveryReported
PROPERTY LoopKeepsRunning
PROPERTY ImplementsSignal
PROPERTY AwaitsContract
