\* Do concurrent state writes keep each other's keys?
SPECIFICATION Spec
CONSTANTS
    Procs = {p1, p2}
    Sessions = {s1}
    NoSession = NoSession
    Keys = {k1, k2}
    TTL = 2
    MaxOps = 4
    Kinds = {"create", "get", "set"}
    Faulty = FALSE
    HasPersister = FALSE
    Leased = FALSE
    NewIDs = TRUE
    QuietClock = TRUE
INVARIANT
    AckedStateSurvives
