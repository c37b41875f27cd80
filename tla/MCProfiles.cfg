SPECIFICATION MCSpec
CONSTANTS
    Tokens = {t1, t2}
    Requests = {r1, r2}
    MaxInFlight = 2
    MaxProfiles = 2
    Limits = {None, 1}
    Lifetimes = {None, 1}
    Faults = TRUE
    MaxHour = 1
    MaxServed = 3
    None = None
SYMMETRY MCSymmetry
CHECK_DEADLOCK FALSE
INVARIANTS
    ExpiryExact
    RevocationHolds
    QuietLimits
PROPERTY
    QuietLinksKept
