\* Every database behaviour, TLS on, a usable --range and --range 0.
CONSTANTS
    Hosts = {h1, h2}
    Releases = {v1, v2}
    Sessions = {t1, t2}
    Modes = {"writable", "replica", "down", "silent"}
    Ranges = {0, 1}
    TlsEnabled = TRUE
    None = None
SPECIFICATION Spec
SYMMETRY Symmetry
INVARIANT TypeOK
INVARIANT SeriesTracked
INVARIANT NoTornVerdict
INVARIANT VerdictHonest
INVARIANT CountedOnce
PROPERTY RaisedWithCurrentLabels
