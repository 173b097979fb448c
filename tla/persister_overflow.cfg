\* Callers beside the worker: is the numbering safe, does Close drain the channel
\* and return, does the worker get through?
SPECIFICATION FairSpec
CONSTANTS
    Producers = {p1, p2}
    Worker = Worker
    NoOne = NoOne
    Sessions = {s1}
    Kinds = {"session", "event"}
    Async = TRUE
    Capacity = 1
    MaxCalls = 4
    InitRows = {s1}
    Faulty = TRUE
    MayCrash = FALSE
INVARIANTS
    NextOrderFree
    CloseDrains
PROPERTIES
    CloseReturns
    QueueDrains
