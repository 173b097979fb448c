--------------------------- MODULE SessionArchive ---------------------------
(***************************************************************************)
(* What the PostgreSQL archive of a user's sessions promises: the calls    *)
(* accepted by the persister reach the tables one at a time and in order,  *)
(* and the events of a session are numbered 0, 1, 2, ... without a gap.    *)
(* A call that fails is skipped, a crash forgets the calls still pending,  *)
(* and nothing else ever touches the tables.                               *)
(***************************************************************************)
EXTENDS Naturals, Sequences, FiniteSets

CONSTANTS
    Sessions,   \* session IDs
    Calls,      \* the calls: records with an id, a kind and a session ID
    InitRows    \* the sessions archived when the program starts

VARIABLES
    pending,    \* the accepted calls that have not reached the tables
    rows,       \* table sessions: the sessions that have a row
    evs         \* table session_events: the numbered events of each session

avars == <<pending, rows, evs>>

ArchiveSession(s) == rows' = rows \cup {s} /\ UNCHANGED evs

ArchiveEvent(s, e) ==
    /\ evs' = [evs EXCEPT ![s] = @ \cup {[ord |-> Cardinality(@), id |-> e]}]
    /\ UNCHANGED rows

RemoveSession(s) ==
    /\ rows' = rows \ {s}
    /\ evs' = [evs EXCEPT ![s] = {}]

\* The effect of one call on the tables.
Effect(c) ==
    \/ c.kind = "session" /\ ArchiveSession(c.sid)
    \/ c.kind = "event" /\ ArchiveEvent(c.sid, c.id)
    \/ c.kind = "delete" /\ RemoveSession(c.sid)

AInit ==
    /\ pending = <<>>
    /\ rows = InitRows
    /\ evs = [s \in Sessions |-> {}]

Accept ==
    /\ \E c \in Calls : pending' = Append(pending, c)
    /\ UNCHANGED <<rows, evs>>

Apply ==
    /\ pending # <<>>
    /\ Effect(Head(pending))
    /\ pending' = Tail(pending)

Skip ==
    /\ pending # <<>>
    /\ pending' = Tail(pending)
    /\ UNCHANGED <<rows, evs>>

Forget ==
    /\ pending' = <<>>
    /\ UNCHANGED <<rows, evs>>

ANext == Accept \/ Apply \/ Skip \/ Forget

ASpec == AInit /\ [][ANext]_avars
=============================================================================
