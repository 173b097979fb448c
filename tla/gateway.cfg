\* Are the runs of clients that stay remembered, through overflow, disconnects
\* and shutdown?  The process may end.
SPECIFICATION FairGatewaySpec
CONSTANTS
    Callers = {p1, p2}
    Worker = Worker
    Sessions = {s1}
    NoSession = NoSession
    Events = {e1, e2}
    Silent = {}
    NoEvent = NoEvent
    Texts = {}
    NoText = NoText
    Kinds = {"add"}
    Capacity = 1
    MaxCalls = 2
    Embeds = FALSE
    Faulty = TRUE
    MayVanish = FALSE
    MayCrash = FALSE
    Streams = {p2}
    MaxRequests = 2
    MaxGone = 1
    PingRetries = 2
INVARIANTS
    GatewayTypeOK
    CreatedWhole
    UsersOutlived
    GracefulStopKeepsAll
PROPERTIES
    SignalEnds
    Remembered
CHECK_DEADLOCK FALSE
