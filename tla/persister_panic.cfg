\* May a call be caught by Close between its two steps?
SPECIFICATION Spec
CONSTANTS
    Producers = {p1}
    Worker = Worker
    NoOne = NoOne
    Sessions = {s1}
    Kinds = {"session"}
    Async = TRUE
    Capacity = 1
    MaxCalls = 2
    InitRows = {}
    Faulty = FALSE
    MayCrash = FALSE
INVARIANT
    NoPanic
