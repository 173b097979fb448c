\* Is what is sent to either API well formed and complete, and what is streamed
\* the answer?  A conversation that has reached MaxContents may stop.
SPECIFICATION Spec
CONSTANTS
    ToolIDs = {i1, i2}
    Invalid = {i2}
    Long = {i2}
    NoID = NoID
    MaxContents = 5
    MaxBlocks = 2
    MaxDeltas = 2
INVARIANTS
    TypeOK
    ToolUsesAnswered
    OnlyOrphansDropped
    ToolMessagesMatch
    HistorySent
    PartialsAddUp
PROPERTIES
    AnswerKept
CHECK_DEADLOCK FALSE
