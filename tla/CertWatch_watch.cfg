\* Four DSNs, five servers, two certificates, no cache and a TTL of two ticks.
CONSTANTS
    Dsns <- MCDsns
    Peers = {"good", "plain", "opaque", "odd", "down"}
    Serials = {s1, s2}
    MaxLeft = 0
    MinLeft <- JustExpired
    PerDay = 1
    Ttls = {0, 2}
    Every = 1
    MaxStep = 1
    None = None
SPECIFICATION FairSpec
INVARIANT TypeOK
INVARIANT StaleAtMostTTL
INVARIANT LapseAtMostTTL
INVARIANT CacheExact
INVARIANT NeverMixed
INVARIANT InStep
INVARIANT FailureContained
INVARIANT NoDowngrade
INVARIANT Paced
PROPERTY RenewalShown
