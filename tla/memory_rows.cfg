\* Do failures, overflow and crashes leave whole sessions and fresh embeddings?
SPECIFICATION Spec
CONSTANTS
    Callers = {p1}
    Worker = Worker
    Sessions = {s1}
    NoSession = NoSession
    Events = {e1, e2, e3}
    Silent = {e3}
    NoEvent = NoEvent
    Texts = {t1}
    NoText = NoText
    Kinds = {"add", "save", "update", "delete"}
    Capacity = 1
    MaxCalls = 3
    Embeds = TRUE
    Faulty = TRUE
    MayVanish = TRUE
    MayCrash = TRUE
INVARIANTS
    TypeOK
    EmbeddingFresh
PROPERTY
    AllOrNothing
