SPECIFICATION Spec
CONSTANTS
    None = None
    HttpsPorts <- MCHttpsPorts
    WorkersDev <- MCWorkersDev
    Names <- MCNames
    Addresses <- MCAddresses
    Records <- MCRecords
    Blocked = {"cloudflare-dns.com"}
    Requests = {r1, r2}
    MaxInFlight = 2
    Hosts = {"panel.workers.dev", "own.example"}
    Forms <- FewForms
    Default <- Base
    FragmentLengths = 2
    Lengths <- MCLengths
CHECK_DEADLOCK FALSE
INVARIANT AnswersOwnRequest
