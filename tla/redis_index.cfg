\* Does the index list every live session and outlive it, whatever List and its
\* cleanup do meanwhile, does only Create bring a session back, and do all keys
\* expire once the requests stop?
SPECIFICATION FairSpec
CONSTANTS
    Procs = {p1, p2}
    Sessions = {s1, s2}
    NoSession = NoSession
    Keys = {k1}
    TTL = 2
    MaxOps = 5
    Kinds = {"create", "get", "append", "list"}
    Faulty = FALSE
    HasPersister = FALSE
    Leased = FALSE
    NewIDs = FALSE
    QuietClock = TRUE
INVARIANTS
    TypeOK
    IndexCoversLive
    IndexOutlivesListed
PROPERTIES
    OnlyCreateRevives
    EventuallyReclaimed
