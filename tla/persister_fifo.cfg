\* When the channel does not overflow, does the persister implement the archive,
\* and do the tables end up as the calls say, through Close and crashes?
SPECIFICATION Spec
CONSTANTS
    Producers = {p1, p2}
    Worker = Worker
    NoOne = NoOne
    Sessions = {s1, s2}
    Kinds = {"session", "event", "delete"}
    Async = TRUE
    Capacity = 4
    MaxCalls = 4
    InitRows = {}
    Faulty = FALSE
    MayCrash = TRUE
SYMMETRY Symmetry
INVARIANTS
    TypeOK
    SettledArchive
PROPERTY
    ArchiveSpec
