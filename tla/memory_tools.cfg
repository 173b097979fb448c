\* Do the agent's edits, some of them run by their callers, end as asked?
SPECIFICATION Spec
CONSTANTS
    Callers = {p1, p2}
    Worker = Worker
    Sessions = {}
    NoSession = NoSession
    Events = {e1, e2}
    Silent = {}
    NoEvent = NoEvent
    Texts = {t1, t2}
    NoText = NoText
    Kinds = {"save", "update", "delete"}
    Capacity = 2
    MaxCalls = 6
    Embeds = TRUE
    Faulty = FALSE
    MayVanish = FALSE
    MayCrash = FALSE
SYMMETRY Symmetry
INVARIANT
    EditsLast
