SPECIFICATION Spec
CONSTANTS
    old = old
    new = new
    i1 = i1
    i2 = i2
    e1 = e1
    Isolates = {i1}
    Builds = {old, new}
    Build <- MCUpgraded
    Requests = {r1, r2}
    Kinds = {"load", "form", "patch", "preset", "command", "reset"}
    Resolvers = {dns1, dns2}
    Shipped = dns1
    PresetDNS = dns2
    Entries = {e1, e2}
    MaxCleanIPs = 1
    MaxEntries = 1
    Starts <- MCStarts
    Faults = TRUE
    None = None
CHECK_DEADLOCK FALSE
SYMMETRY Symmetry
INVARIANTS
    HostMatches
PROPERTIES
    SteadyReadsOnly
    UncontestedEditIsExact
