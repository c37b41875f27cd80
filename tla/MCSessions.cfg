SPECIFICATION Spec
CONSTANTS
    Requests = {r1, r2, r3}
    Kinds = {"login", "reset", "mint", "redeem", "revoke", "view"}
    Passwords = {p1, p2}
    Codes = {c1}
    Installed = s0
    MaxInFlight = 2
    StartForms = {"weak", "over"}
    Perishable = {c1}
    Faults = TRUE
    None = None
CHECK_DEADLOCK FALSE
SYMMETRY Symmetry
INVARIANTS
    CodeServesOnce
    SessionsSurvive
    LastPasswordHolds
    AdmitsOnlySessions
