-------------------------- MODULE SessionPersister --------------------------
(***************************************************************************)
(* SessionPersister (pkg/adk-util/session/postgres/persister.go): calls    *)
(* are queued in a bounded channel that one worker goroutine drains into   *)
(* PostgreSQL; a caller that finds the channel full runs its call itself,  *)
(* beside the worker.  Close closes the channel and waits for the worker.  *)
(*                                                                         *)
(* An executor is the worker or a caller.  A transaction is split where    *)
(* another one can come between its statements; PostgreSQL runs it at READ *)
(* COMMITTED, and a row lock taken by SELECT ... FOR UPDATE makes others   *)
(* that write the row wait.  Data: a session is its ID, an event the       *)
(* number of the call that brought it; all events are of one user and so   *)
(* in one shard.                                                           *)
(*                                                                         *)
(* Definitions whose name ends in _ are slips a programmer could make in   *)
(* the definition that follows them; they are no part of the specification *)
(* and show that its properties can fail.                                  *)
(***************************************************************************)
EXTENDS Naturals, Sequences, FiniteSets

CONSTANTS
    Producers,  \* goroutines that call the persister
    Worker,     \* the asyncWorker goroutine
    NoOne,      \* nobody holds a row lock
    Sessions,   \* session IDs
    Kinds,      \* the kinds of calls made
    Async,      \* is there a channel (buffer size >= 0)?
    Capacity,   \* buffer size of the channel
    MaxCalls,   \* bound: calls made
    InitRows,   \* the sessions archived when the program starts
    Faulty,     \* may a database operation fail?
    MayCrash    \* may the process die and be started again?

CallKinds == {"session", "event", "delete"}
Execs == Producers \cup {Worker}

ASSUME WorkerAssumption == Worker \notin Producers /\ NoOne \notin Execs
ASSUME CapacityAssumption == Capacity \in Nat \ {0}
ASSUME MaxCallsAssumption == MaxCalls \in Nat
ASSUME KindAssumption == Kinds \subseteq CallKinds
ASSUME InitRowsAssumption == InitRows \subseteq Sessions
ASSUME ModeAssumption ==
    Async \in BOOLEAN /\ Faulty \in BOOLEAN /\ MayCrash \in BOOLEAN

VARIABLES
    rows,       \* table sessions: the sessions that have a row
    evs,        \* table session_events_n: the numbered events of a session
    lock,       \* the executor that holds the lock of a session's row
    queue,      \* asyncChan
    chanClosed, \* asyncChan has been closed
    closed,     \* the closed flag
    closer,     \* progress of Close
    task,       \* what each executor is doing
    calls,      \* calls made (bounded by MaxCalls)
    accepted,   \* history: calls put in the channel
    settled,    \* history: calls of the channel the worker is done with
    prows, pevs \* history: the tables, had each call run as it was made

tables == <<rows, evs, lock>>
channel == <<queue, chanClosed>>
closing == <<closed, closer>>
promise == <<prows, pevs>>
vars == <<rows, evs, lock, queue, chanClosed, closed, closer, task, calls,
          accepted, settled, prows, pevs>>

Calls == [id : 1 .. MaxCalls, kind : CallKinds, sid : Sessions]

\* The archive as the calls promise it.
Promised == INSTANCE SessionArchive
                WITH rows <- prows, evs <- pevs, pending <- <<>>

-----------------------------------------------------------------------------
Idle == [pc |-> "idle", call |-> <<>>, next |-> 0, seen |-> {}]
Doing(pc, c) == [Idle EXCEPT !.pc = pc, !.call = c]

At(x, pc) == task[x].pc = pc
Become(x, t) == task' = [task EXCEPT ![x] = t]
SidOf(x) == task[x].call.sid

\* COALESCE(MAX(event_order), -1) + 1
NextOrder(E) ==
    IF E = {} THEN 0
    ELSE 1 + CHOOSE m \in {r.ord : r \in E} : \A r \in E : r.ord <= m

\* May executor x write the row of session s?
RowFree(s) == s \in rows => lock[s] = NoOne

\* The lock outlives the transaction.
Finish_(x) ==
    /\ Become(x, Idle)
    /\ settled' = IF x = Worker THEN settled + 1 ELSE settled
    /\ UNCHANGED lock

\* The transaction of x is over: its lock is released, and the worker goes
\* back to the channel.
Finish(x) ==
    /\ Become(x, Idle)
    /\ lock' = [s \in Sessions |-> IF lock[s] = x THEN NoOne ELSE lock[s]]
    /\ settled' = IF x = Worker THEN settled + 1 ELSE settled

Init ==
    /\ rows = InitRows
    /\ evs = [s \in Sessions |-> {}]
    /\ lock = [s \in Sessions |-> NoOne]
    /\ queue = <<>>
    /\ chanClosed = FALSE
    /\ closed = FALSE
    /\ closer = "open"
    /\ task = [x \in Execs |-> Idle]
    /\ calls = 0
    /\ accepted = 0
    /\ settled = 0
    /\ prows = rows
    /\ pevs = evs

-----------------------------------------------------------------------------
(* PersistSession, PersistEvent, DeleteSession. *)

\* The closed flag is read under the mutex, and the mutex released.
Call(p, kind, s) ==
    /\ At(p, "idle")
    /\ kind \in Kinds
    /\ calls < MaxCalls
    /\ calls' = calls + 1
    /\ ~closed
    /\ Become(p, Doing("send", [id |-> calls', kind |-> kind, sid |-> s]))
    /\ UNCHANGED <<tables, channel, closing, accepted, settled, promise>>

CallRejected(p) ==
    /\ At(p, "idle")
    /\ calls < MaxCalls
    /\ calls' = calls + 1
    /\ closed
    /\ UNCHANGED <<tables, channel, closing, task, accepted, settled, promise>>

Enqueue(p) ==
    /\ At(p, "send")
    /\ Async
    /\ ~chanClosed
    /\ Len(queue) < Capacity
    /\ queue' = Append(queue, task[p].call)
    /\ accepted' = accepted + 1
    /\ Promised!Effect(task[p].call)
    /\ Become(p, Idle)
    /\ UNCHANGED <<tables, chanClosed, closing, calls, settled>>

\* Callers run their calls whether or not there is room in the channel.
RunSyncEager_(p) ==
    /\ At(p, "send")
    /\ Async => ~chanClosed
    /\ Promised!Effect(task[p].call)
    /\ Become(p, Doing("begin", task[p].call))
    /\ UNCHANGED <<tables, channel, closing, calls, accepted, settled>>

\* No channel, or a full one: the caller runs the call.
RunSync(p) ==
    /\ At(p, "send")
    /\ Async => ~chanClosed /\ Len(queue) = Capacity
    /\ Promised!Effect(task[p].call)
    /\ Become(p, Doing("begin", task[p].call))
    /\ UNCHANGED <<tables, channel, closing, calls, accepted, settled>>

\* A send on a closed channel panics, also in a select with a default.
SendPanics(p) ==
    /\ At(p, "send")
    /\ Async
    /\ chanClosed
    /\ Become(p, [Idle EXCEPT !.pc = "panicked"])
    /\ UNCHANGED <<tables, channel, closing, calls, accepted, settled, promise>>

\* The recovery middleware ends the request.
Recovered(p) ==
    /\ At(p, "panicked")
    /\ Become(p, Idle)
    /\ UNCHANGED <<tables, channel, closing, calls, accepted, settled, promise>>

-----------------------------------------------------------------------------
(* asyncWorker. *)

Receive ==
    /\ Async
    /\ At(Worker, "idle")
    /\ queue # <<>>
    /\ queue' = Tail(queue)
    /\ Become(Worker, Doing("begin", Head(queue)))
    /\ UNCHANGED <<tables, chanClosed, closing, calls, accepted, settled,
                   promise>>

\* The worker leaves as soon as the channel is closed.
WorkerExit_ ==
    /\ At(Worker, "idle")
    /\ chanClosed
    /\ Become(Worker, [Idle EXCEPT !.pc = "exited"])
    /\ UNCHANGED <<tables, channel, closing, calls, accepted, settled, promise>>

\* The range loop ends when the channel is closed and empty.
WorkerExit ==
    /\ At(Worker, "idle")
    /\ chanClosed
    /\ queue = <<>>
    /\ Become(Worker, [Idle EXCEPT !.pc = "exited"])
    /\ UNCHANGED <<tables, channel, closing, calls, accepted, settled, promise>>

-----------------------------------------------------------------------------
(* persistSessionSync, persistEventSync, deleteSessionSync. *)

Begins(x, kind) == At(x, "begin") /\ task[x].call.kind = kind

\* One upsert.
UpsertSession(x) ==
    /\ Begins(x, "session")
    /\ RowFree(SidOf(x))
    /\ rows' = rows \cup {SidOf(x)}
    /\ Finish(x)
    /\ UNCHANGED <<evs, channel, closing, calls, accepted, promise>>

\* The next event_order without the lock.
EventOrder_(x) ==
    LET s == SidOf(x) IN
    /\ Begins(x, "event")
    /\ RowFree(s)
    /\ Become(x, [Doing("insert", task[x].call) EXCEPT !.next = NextOrder(evs[s])])
    /\ UNCHANGED <<tables, channel, closing, calls, accepted, settled, promise>>

\* SELECT ... FOR UPDATE, which locks nothing if the session has no row, and
\* the next event_order.
EventOrder(x) ==
    LET s == SidOf(x) IN
    /\ Begins(x, "event")
    /\ RowFree(s)
    /\ lock' = IF s \in rows THEN [lock EXCEPT ![s] = x] ELSE lock
    /\ Become(x, [Doing("insert", task[x].call) EXCEPT !.next = NextOrder(evs[s])])
    /\ UNCHANGED <<rows, evs, channel, closing, calls, accepted, settled,
                   promise>>

\* INSERT, UPDATE of last_update_time, COMMIT: a duplicate of the primary key
\* is an error that rolls the transaction back.
EventInsert(x) ==
    LET s == SidOf(x) IN
    /\ At(x, "insert")
    /\ evs' = IF \E r \in evs[s] : r.ord = task[x].next THEN evs
              ELSE [evs EXCEPT ![s] = @ \cup {[ord |-> task[x].next,
                                              id |-> task[x].call.id]}]
    /\ Finish(x)
    /\ UNCHANGED <<rows, channel, closing, calls, accepted, promise>>

\* The first DELETE removes the event rows it sees.
DeleteEventRows(x) ==
    /\ Begins(x, "delete")
    /\ Become(x, [Doing("remove", task[x].call) EXCEPT !.seen = evs[SidOf(x)]])
    /\ UNCHANGED <<tables, channel, closing, calls, accepted, settled, promise>>

\* The events of the session are left.
DeleteSessionRow_(x) ==
    LET s == SidOf(x) IN
    /\ At(x, "remove")
    /\ RowFree(s)
    /\ rows' = rows \ {s}
    /\ Finish(x)
    /\ UNCHANGED <<evs, channel, closing, calls, accepted, promise>>

\* The second DELETE waits for the row's lock; COMMIT.
DeleteSessionRow(x) ==
    LET s == SidOf(x) IN
    /\ At(x, "remove")
    /\ RowFree(s)
    /\ rows' = rows \ {s}
    /\ evs' = [evs EXCEPT ![s] = @ \ task[x].seen]
    /\ Finish(x)
    /\ UNCHANGED <<channel, closing, calls, accepted, promise>>

\* The database fails, or the context of the call ends: a rollback, and an
\* error that the worker logs and a caller gets.
ExecFails(x) ==
    /\ Faulty
    /\ task[x].pc \in {"begin", "insert", "remove"}
    /\ Finish(x)
    /\ UNCHANGED <<rows, evs, channel, closing, calls, accepted, promise>>

-----------------------------------------------------------------------------
(* Close, and the end of the process. *)

CloseBegin ==
    /\ closer = "open"
    /\ closed' = TRUE
    /\ closer' = "flagged"
    /\ UNCHANGED <<tables, channel, task, calls, accepted, settled, promise>>

\* Close waits without closing the channel.
CloseChannel_ ==
    /\ closer = "flagged"
    /\ closer' = "waiting"
    /\ UNCHANGED <<tables, channel, closed, task, calls, accepted, settled,
                   promise>>

CloseChannel ==
    /\ closer = "flagged"
    /\ chanClosed' = Async
    /\ closer' = "waiting"
    /\ UNCHANGED <<tables, queue, closed, task, calls, accepted, settled, promise>>

CloseReturn ==
    /\ closer = "waiting"
    /\ Async => At(Worker, "exited")
    /\ closer' = "closed"
    /\ UNCHANGED <<tables, channel, closed, task, calls, accepted, settled,
                   promise>>

\* The process dies (also main's log.Fatalf, which runs no deferred Close)
\* and a new one starts: the channel is lost, open transactions roll back.
Crash ==
    /\ MayCrash
    /\ lock' = [s \in Sessions |-> NoOne]
    /\ queue' = <<>>
    /\ chanClosed' = FALSE
    /\ closed' = FALSE
    /\ closer' = "open"
    /\ task' = [x \in Execs |-> Idle]
    /\ accepted' = 0
    /\ settled' = 0
    /\ prows' = rows
    /\ pevs' = evs
    /\ UNCHANGED <<rows, evs, calls>>

\* The persister is closed and nobody is in it.
Stopped ==
    /\ closer = "closed"
    /\ calls = MaxCalls
    /\ \A p \in Producers : At(p, "idle")
    /\ UNCHANGED vars

-----------------------------------------------------------------------------
Execute(x) ==
    \/ UpsertSession(x)
    \/ EventOrder(x)
    \/ EventInsert(x)
    \/ DeleteEventRows(x)
    \/ DeleteSessionRow(x)

Produce(p) ==
    \/ \E kind \in CallKinds, s \in Sessions : Call(p, kind, s)
    \/ CallRejected(p)

Proceed(p) ==
    \/ Enqueue(p)
    \/ RunSync(p)
    \/ SendPanics(p)
    \/ Recovered(p)

Work == Receive \/ WorkerExit
Close == CloseBegin \/ CloseChannel \/ CloseReturn

Next ==
    \/ \E p \in Producers : Produce(p) \/ Proceed(p)
    \/ \E x \in Execs : Execute(x) \/ ExecFails(x)
    \/ Work
    \/ Close
    \/ Crash
    \/ Stopped

\* The goroutines and the database make progress; nobody has to call the
\* persister, or to begin its Close.
Fairness ==
    /\ \A p \in Producers : WF_vars(Proceed(p))
    /\ \A x \in Execs : WF_vars(Execute(x))
    /\ WF_vars(Work)
    /\ WF_vars(CloseChannel)
    /\ WF_vars(CloseReturn)

Spec == Init /\ [][Next]_vars
FairSpec == Spec /\ Fairness

-----------------------------------------------------------------------------
(* Properties. *)

Numbered == [ord : Nat, id : Nat]

TableTypes ==
    /\ rows \subseteq Sessions
    /\ evs \in [Sessions -> SUBSET Numbered]
    /\ prows \subseteq Sessions
    /\ pevs \in [Sessions -> SUBSET Numbered]

ChannelTypes ==
    /\ queue \in Seq(Calls)
    /\ Len(queue) <= Capacity
    /\ chanClosed \in BOOLEAN
    /\ closed \in BOOLEAN
    /\ closer \in {"open", "flagged", "waiting", "closed"}
    /\ calls \in 0 .. MaxCalls
    /\ accepted \in Nat
    /\ settled \in Nat

TaskType(t) ==
    /\ t.pc \in {"idle", "send", "panicked", "exited", "begin", "insert", "remove"}
    /\ t.next \in Nat
    /\ t.seen \subseteq Numbered
    /\ t.pc \in {"send", "begin", "insert", "remove"} => t.call \in Calls

LocksHeld ==
    /\ lock \in [Sessions -> Execs \cup {NoOne}]
    /\ \A s \in Sessions :
          lock[s] # NoOne => At(lock[s], "insert") /\ SidOf(lock[s]) = s

\* Every variable has its type; a row lock is held by an executor that is
\* between its SELECT ... FOR UPDATE and its COMMIT (persister.go:300-309).
TypeOK ==
    /\ TableTypes
    /\ ChannelTypes
    /\ \A x \in Execs : TaskType(task[x])
    /\ LocksHeld

\* When Close returns, every call that was put in the channel has been
\* carried out by the worker: none is left in the channel and none is put
\* there later (persister.go:440).
CloseDrains ==
    closer = "closed" => queue = <<>> /\ settled = accepted

\* The event_order an executor computed is still free when it inserts
\* (persister.go:292, 300).
NextOrderFree ==
    \A x \in Execs :
        At(x, "insert") => \A r \in evs[SidOf(x)] : r.ord # task[x].next

\* Nobody is still working on a call.
Quiet ==
    /\ queue = <<>>
    /\ \A x \in Execs : task[x].pc \in {"idle", "exited"}

\* Once every call has run, the tables are what the calls say, in the order
\* in which they were made: a deleted session has no row and no events
\* (persister.go:367), the events of a session are numbered as they came.
SettledArchive == Quiet => rows = prows /\ evs = pevs

\* A call made while the persister is closing gets an error or is carried
\* out, it does not panic (persister.go:193-196).
NoPanic == \A p \in Producers : ~At(p, "panicked")

\* The pending calls of the abstract archive: the one the worker is at, then
\* those in the channel.
Pending == (IF task[Worker].pc \in {"begin", "insert", "remove"}
            THEN <<task[Worker].call>> ELSE <<>>) \o queue

Archive == INSTANCE SessionArchive WITH pending <- Pending

\* With a channel that does not overflow, the persister implements the
\* archive: one call after the other, in order, each at once or not at all,
\* through failures, Close and crashes (persister.go:160-187, 292).
ArchiveSpec == Archive!ASpec

\* A Close that has begun returns (persister.go:452).
CloseReturns == (closer = "flagged") ~> (closer = "closed")

\* A queued call is carried out: the channel is empty again and again
\* (persister.go:160-166).
QueueDrains == []<>(queue = <<>> /\ settled = accepted)
=============================================================================
