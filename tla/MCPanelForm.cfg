CONSTANTS
    t1 = t1
    t2 = t2
    i1 = i1
    i2 = i2
    Tabs <- MCTabs
    Isolates <- MCIsolates
    Stored <- MCStored
    Worlds <- MCWorlds
    Edits <- MCEdits
    Shared <- MCShared
    Backups <- MCBackups
    DefaultDoH = "https://doh.example/dns-query"
    DefaultPrefixes <- MCPrefixes
    VERSION <- MCVersion
    Tried <- MCTried
    Modes <- MCModes
    MaxActs = 4
    MaxTrouble = 1
    Encrypted <- MCEncrypted
    Google = "https://8.8.8.8/dns-query"
    Cloudflare = "https://1.1.1.1/dns-query"
    Texts <- MCTexts
    Kind <- MCKind
    Url <- MCUrl
    CloudflareDNS = {"1.1.1.1"}
    HttpsPorts <- MCPorts
    NoText = ""
    None = None
SPECIFICATION Spec
SYMMETRY Symmetry
CHECK_DEADLOCK FALSE
INVARIANTS
    SavedIsStored
    StoredIsValid
    
    PresetsDoNoHarm
    AdviceIsHonest
