\* If requests use a session one at a time: does it keep what was written, and
\* does the persister learn what Redis holds, though Redis calls fail?
SPECIFICATION Spec
CONSTANTS
    Procs = {p1, p2}
    Sessions = {s1}
    NoSession = NoSession
    Keys = {k1, k2}
    TTL = 2
    MaxOps = 4
    Kinds = {"create", "get", "append", "set", "delete", "list"}
    Faulty = TRUE
    HasPersister = TRUE
    Leased = TRUE
    NewIDs = FALSE
    QuietClock = FALSE
SYMMETRY Symmetry
INVARIANTS
    AckedStateSurvives
    OutboxAgrees
