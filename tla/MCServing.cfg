SPECIFICATION MCSpec
CONSTANTS
    None = None
    HttpsPorts <- MCHttpsPorts
    WorkersDev <- MCWorkersDev
    Names <- MCNames
    Addresses <- MCAddresses
    Records <- MCRecords
    Blocked = {"cloudflare-dns.com"}
    Requests = {r1, r2}
    MaxInFlight = 2
    Hosts = {"panel.workers.dev", "own.example"}
    Forms <- MCForms
    Default <- Base
    FragmentLengths = 2
    Lengths <- MCLengths
    append1 = append1
    append2 = append2
    clear = clear
    throw = throw
    Updates = {append1, append2, clear, throw}
    Mutation <- MCMutation
    Readers = {reader1, reader2}
    Flushers = {flush}
    Others = {other}
    Retain = 2
    Orderly = TRUE
    KvFaults = TRUE
    Undefined = Undefined
    Protocols = {"vless", "trojan"}
    Headers <- MCHeaders
    Modes = {"proxyip", "prefix"}
    MaxChunks = 4
    MaxReplies = 2
CHECK_DEADLOCK FALSE
INVARIANTS
    FlushCoversQueued
    NamesHangTogether
    DefaultRouteProxied
    ClientsAgree
    SoleRequestsServed
    NothingReordered
PROPERTIES
    CallsSettle
    ImplementsAtomic
    EndsReachBoth
