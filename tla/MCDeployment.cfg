SPECIFICATION MCSpec
CONSTANTS
    a1 = a1
    a2 = a2
    w0 = w0
    w1 = w1
    s1 = s1
    s2 = s2
    MaxPages = 2
    Kinds = {"oauth"}
    Accounts = {a1}
    Grants <- OneOrBoth
    Names = {w0, w1}
    Old = {w0}
    Subdomains = {s1, s2}
    Taken = {s2}
    None = None
    MaxTrouble = 2
    Owned <- NoSubdomain
    PageCost = 2
    MaxTokens = 2
CHECK_DEADLOCK FALSE
INVARIANTS
    CompleteIsServed
    RetryLeavesNoOrphans
PROPERTIES
    LeftoversKept
    Deploys
