SPECIFICATION MCSpec
CONSTANTS
    Lists <- MCLists
    Asked <- MCAsked
    Latencies <- MCLatencies
    MaxTargets = 3
    MaxAttempts = 2
    DefaultAttempts = 2
    Concurrency = 2
    Blank = Blank
    Null = Null
    Ranges <- MCRanges
    Hosts = 2
    Mixes <- MCMixes
    Wanted = 3
    Passes = 8
    Measures <- MCMeasures
    Foreign <- MCForeign
    Relays <- MCRelays
    RelayScores = {70, 100}
    PanelKinds = {"proxy-ip", "clean-ip"}
    Stored <- MCStored
    RunsKept = 4
    ObservationsKept = 5
    PreferredLimit = 2
    MaxScans = 2
    Gaps = {7, 63}
    KeptHours = 2
    KeptDays = 1
    KeptEntries = 2
    HoursInDay = 2
    Requests = {1, 2, 3}
    Asks <- MCAsks
    Scripts <- MCScripts
    Isolates = {i1, i2}
    Bodies = {1}
    Upload = 1
    FlushRequests = 2
    FlushInterval = 2
    MaxClock = 3
    MaxInFlight = 2
    Faults = TRUE
    None = None
CHECK_DEADLOCK FALSE
INVARIANTS
    RunIsSound
    OldScansDoNotMislead
    AdviceSettles
    CountsAreHonest
    WriteBudget
PROPERTY
    RunEnds
