\* May a delete that finds the channel full overtake the session it deletes?
SPECIFICATION Spec
CONSTANTS
    Producers = {p1}
    Worker = Worker
    NoOne = NoOne
    Sessions = {s1}
    Kinds = {"session", "delete"}
    Async = TRUE
    Capacity = 1
    MaxCalls = 3
    InitRows = {}
    Faulty = FALSE
    MayCrash = FALSE
INVARIANT
    SettledArchive
