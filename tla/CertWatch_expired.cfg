\* One certificate that expires while it is watched, two units of time to a day.
CONSTANTS
    Dsns <- MCExpired
    Peers = {"good"}
    Serials = {s1}
    MaxLeft = 2
    MinLeft <- LongExpired
    PerDay = 2
    Ttls = {1}
    Every = 1
    MaxStep = 0
    None = None
SPECIFICATION Spec
INVARIANT ExpiredShownNegative
