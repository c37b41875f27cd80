SPECIFICATION MCSpec
CONSTANTS
    Kinds = {"page", "claim", "save"}
    Starts = {"absent", "corrupt", "deployed"}
    Isolates = {1, 2}
    Requests = {1, 2, 3}
    MaxInFlight = 2
    Faults = TRUE
    EnvPath = None
    EnvEmail = None
    FirstPath = FirstPath
    Corrupt = Corrupt
    None = None
CHECK_DEADLOCK FALSE
INVARIANTS
    SetupStaysClosed
    PasswordHasOwner
    UncontestedClaimOwns
PROPERTIES
    NeverRegenerated
    ClaimSucceeds
