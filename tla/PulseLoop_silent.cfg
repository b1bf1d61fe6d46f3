\* A database that may stop answering without an error.
CONSTANTS
    Hosts = {h1}
    Releases = {v1}
    Sessions = {}
    Modes = {"writable", "silent"}
    Ranges = {1}
    TlsEnabled = FALSE
    None = None
SPECIFICATION FairSpec
PROPERTY AnyOutageReported
