---------------------------- MODULE AgentService ----------------------------
(***************************************************************************)
(* The requests of the gateway that write sessions: creating one with its  *)
(* first events, deleting one, and running the agent on one                *)
(* (internal/handler, internal/service/user, internal/service/agent).  A   *)
(* run ends by handing its session to the memory service, whose module     *)
(* this one extends.  The goroutine of a request has the request's         *)
(* context, which is cancelled when the client disconnects.                *)
(*                                                                         *)
(* The ADK runner is external: it appends an event to the session and then *)
(* yields it, may yield an error at any time, and gets errors from the     *)
(* session service when the context is cancelled.  Partial events of a     *)
(* stream are not appended and left out.                                   *)
(*                                                                         *)
(* Getting sessions and requests refused for their parameters change       *)
(* nothing and are left out.  So is List, whose background cleanup changes *)
(* the index of the user's sessions: that is in RedisSession, and nothing  *)
(* here depends on the index.  A session ID is created once.               *)
(***************************************************************************)
EXTENDS MemoryService

CONSTANTS
    Streams,        \* the goroutines whose runs are streamed to the client
    MaxRequests,    \* bound: requests served
    MaxGone         \* bound: clients that have disconnected at the same time

ASSUME RequestAssumption ==
    /\ Streams \subseteq Callers
    /\ {MaxRequests, MaxGone} \subseteq Nat

VARIABLES
    life,       \* Redis: is a session "new", "live", "gone", or stored again
                \* by an append that overtook its end, "revived"?
    req,        \* the request each goroutine handles
    gone,       \* the goroutines whose client has disconnected
    archiving,  \* are there calls in the channel of the session persister?
    served,     \* requests begun (bounded by MaxRequests)
    created,    \* history: the events each live session was created with, once
                \* that was answered
    answered,   \* history: its events of runs that were answered to a client
    missed      \* history: the events for which the memory service, or the Get
                \* before it, returned an error, which is logged

memory == <<log, used, text, emb, gen, queue, task, found, calls, wish>>
told == <<created, answered, missed>>

NoRequest == [pc |-> "none", sid |-> NoSession, todo |-> 0, evts |-> {},
              step |-> "none", evt |-> NoEvent]

There(s) == life[s] \in {"live", "revived"}

On(p, pc) == req[p].pc = pc
Sid(p) == req[p].sid
Handles(p, r) == req' = [req EXCEPT ![p] = r]
Goes(p, pc) == req' = [req EXCEPT ![p].pc = pc]
Ends(p) == Handles(p, NoRequest) /\ gone' = gone \ {p}

ServiceInit ==
    /\ Init
    /\ life \in [Sessions -> {"new", "live"}]
    /\ req = [p \in Callers |-> NoRequest]
    /\ gone = {}
    /\ archiving = FALSE
    /\ served = 0
    /\ created = [s \in Sessions |-> {}]
    /\ answered = [s \in Sessions |-> {}]
    /\ missed = {}

\* A request of a client arrives.
Arrives(p) ==
    /\ On(p, "none")
    /\ served < MaxRequests
    /\ served' = served + 1
    /\ UNCHANGED gone

\* The client disconnects, and the request's context is cancelled.
Leave(p) ==
    /\ ~On(p, "none")
    /\ p \notin gone
    /\ Cardinality(gone) < MaxGone
    /\ gone' = gone \cup {p}
    /\ UNCHANGED <<memory, life, req, archiving, served, told>>

-----------------------------------------------------------------------------
(* The session service, as its callers see it. *)

\* An event that has not occurred; which one is all the same.
NewEvent == CHOOSE e \in Events : e \notin used
Occurs(s) == used # Events /\ AppendEvent(s, NewEvent)

\* A call fails when the client has gone, or as a store may fail.
InTrouble(p) == p \in gone \/ Faulty

\* Is a request about to append its next event?
Appending(p) == On(p, "run") \/ (On(p, "create") /\ req[p].todo > 0)

\* RPUSH, for which the session need not be there.
Push(p) ==
    /\ Appending(p)
    /\ req[p].step = "none"
    /\ p \notin gone
    /\ Occurs(Sid(p))
    /\ Handles(p, [req[p] EXCEPT !.step = "get", !.evt = NewEvent])
    /\ UNCHANGED <<life, gone, archiving, served, told>>

\* GET finds the session.
Find(p) ==
    /\ req[p].step = "get"
    /\ p \notin gone
    /\ There(Sid(p))
    /\ Handles(p, [req[p] EXCEPT !.step = "set"])
    /\ UNCHANGED <<memory, life, gone, archiving, served, told>>

\* SET, which brings back a session that has ended since the GET.
Restore(s) == life' = [life EXCEPT ![s] = IF @ = "gone" THEN "revived" ELSE @]

\* What follows an append that returned nil: the next event of a creation, or,
\* in a run, what the runner does after yielding the event to Run or a stream.
Appended(r) == [r EXCEPT !.step = "none", !.evt = NoEvent,
                         !.evts = @ \cup {r.evt},
                         !.todo = IF r.pc = "create" THEN @ - 1 ELSE @]

\* SET, and the persister is told; AppendEvent returns nil.
Store(p) ==
    /\ req[p].step = "set"
    /\ p \notin gone
    /\ Restore(Sid(p))
    /\ archiving' = TRUE
    /\ Handles(p, Appended(req[p]))
    /\ UNCHANGED <<memory, gone, served, told>>

\* AppendEvent returns an error, at one of its calls; the call may have been
\* carried out nevertheless.
AppendFails(p) ==
    /\ Appending(p)
    /\ \/ /\ req[p].step = "none"
          /\ InTrouble(p)
          /\ Occurs(Sid(p)) \/ UNCHANGED memory
          /\ UNCHANGED life
       \/ /\ req[p].step = "get"
          /\ InTrouble(p) \/ ~There(Sid(p))
          /\ UNCHANGED <<memory, life>>
       \/ /\ req[p].step = "set"
          /\ InTrouble(p)
          /\ Restore(Sid(p)) \/ UNCHANGED life
          /\ UNCHANGED memory
    /\ UNCHANGED archiving

\* The end of session s and of its events; that its time to live passes has the
\* same effect, and only the requests remove sessions here.
Remove(s) ==
    /\ life[s] # "new"
    /\ life' = [life EXCEPT ![s] = "gone"]
    /\ log' = [log EXCEPT ![s] = {}]
    /\ created' = [created EXCEPT ![s] = {}]
    /\ answered' = [answered EXCEPT ![s] = {}]
    /\ UNCHANGED <<used, table, queue, task, found, calls, wish, missed>>

-----------------------------------------------------------------------------
(* UserService. *)

\* Create; what follows are the events of the request.
CreateSession(p, s, n) ==
    /\ Arrives(p)
    /\ life[s] = "new"
    /\ life' = [life EXCEPT ![s] = "live"]
    /\ archiving' = TRUE
    /\ Handles(p, [NoRequest EXCEPT !.pc = "create", !.sid = s, !.todo = n])
    /\ UNCHANGED <<memory, told>>

\* A call after Create's first fails, or the client has gone: an error is
\* answered, though the session is there.
CreateSessionFails(p, s) ==
    /\ Arrives(p)
    /\ life[s] = "new"
    /\ life' = [life EXCEPT ![s] = "live"]
    /\ UNCHANGED <<memory, req, archiving, told>>

\* The failure of one event is logged and the next one appended.
CreateFails_(p) ==
    /\ On(p, "create")
    /\ AppendFails(p)
    /\ Handles(p, Appended([req[p] EXCEPT !.evt = NewEvent]))
    /\ UNCHANGED <<gone, served, told>>

\* The answer is an error; the session and the events before stay.
CreateFails(p) ==
    /\ On(p, "create")
    /\ AppendFails(p)
    /\ Ends(p)
    /\ UNCHANGED <<served, told>>

CreateAnswered(p) ==
    /\ On(p, "create")
    /\ req[p].todo = 0
    /\ created' = IF life[Sid(p)] = "live"
                  THEN [created EXCEPT ![Sid(p)] = req[p].evts] ELSE created
    /\ Ends(p)
    /\ UNCHANGED <<memory, life, archiving, served, answered, missed>>

\* The persister is told unless the answer of Redis is lost.
DeleteSession(p, s) ==
    /\ Arrives(p)
    /\ Remove(s)
    /\ archiving' \in {archiving, TRUE}
    /\ UNCHANGED req

-----------------------------------------------------------------------------
(* AgentService and its handlers. *)

\* prepareRunner finds the session; the answer is 404 when there is none.
StartRun(p, s) ==
    /\ Arrives(p)
    /\ There(s)
    /\ Handles(p, [NoRequest EXCEPT !.pc = "run", !.sid = s])
    /\ UNCHANGED <<memory, life, archiving, told>>

\* The runner does something else than append: it yields an error of the model,
\* it has come to its end, or its client has gone.
BetweenAppends(p) ==
    /\ On(p, "run")
    /\ req[p].step = "none"
    /\ UNCHANGED <<memory, life, archiving>>

\* The runner yields an error, of the model or of an append: Run returns it.
RunErrs(p) ==
    /\ On(p, "run")
    /\ p \notin Streams
    /\ AppendFails(p) \/ BetweenAppends(p)
    /\ Ends(p)
    /\ UNCHANGED <<served, told>>

\* A stream shows the error to its client and goes on, which changes nothing
\* unless an append failed; or, as with an event, it finds that the client has
\* gone and leaves the loop.
StreamErrs(p) ==
    /\ On(p, "run")
    /\ p \in Streams
    /\ AppendFails(p) \/ (p \in gone /\ BetweenAppends(p))
    /\ Handles(p, [req[p] EXCEPT !.pc = IF p \in gone THEN "post" ELSE "run",
                                 !.step = "none", !.evt = NoEvent])
    /\ UNCHANGED <<gone, served, told>>

RunnerEnds(p) ==
    /\ BetweenAppends(p)
    /\ Goes(p, "post")
    /\ UNCHANGED <<gone, served, told>>

\* The session prepareRunner found, without the events of the run.
AddSessionToMemory_(p) ==
    /\ On(p, "post")
    /\ p \notin gone
    /\ There(Sid(p))
    /\ Submit(p, [NoCall EXCEPT !.kind = "add", !.sid = Sid(p),
                                !.cached = log[Sid(p)] \ req[p].evts])
    /\ Goes(p, "reply")
    /\ UNCHANGED <<sessions, table, found, wish, life, gone, archiving, served, told>>

\* The session is read again and handed to the memory service.
AddSessionToMemory(p) ==
    /\ On(p, "post")
    /\ p \notin gone
    /\ There(Sid(p))
    /\ AddSession(p, Sid(p))
    /\ Goes(p, "reply")
    /\ UNCHANGED <<life, gone, archiving, served, told>>

\* The session cannot be read, because it is gone or the context cancelled: the
\* error is only logged.
PostRunFails(p) ==
    /\ On(p, "post")
    /\ p \in gone \/ ~There(Sid(p))
    /\ Goes(p, "reply")
    /\ UNCHANGED <<memory, life, gone, archiving, served, told>>

\* The Get fails although client and session are there: only logged as well.
PostRunErrs(p) ==
    /\ Faulty
    /\ On(p, "post")
    /\ p \notin gone
    /\ There(Sid(p))
    /\ missed' = missed \cup req[p].evts
    /\ Goes(p, "reply")
    /\ UNCHANGED <<memory, life, gone, archiving, served, created, answered>>

\* A call the goroutine runs itself has the request's context: cancelled, its
\* transaction is rolled back.
Abandon(p) ==
    /\ p \in gone
    /\ ~At(p, "idle")
    /\ Become(p, Idle)
    /\ UNCHANGED <<sessions, table, queue, found, calls, wish>>
    /\ UNCHANGED <<life, req, gone, archiving, served, told>>

Answered(p) ==
    answered' = IF p \in gone \/ life[Sid(p)] # "live" THEN answered
                ELSE [answered EXCEPT ![Sid(p)] = @ \cup (req[p].evts \ Silent)]

\* The answer does not wait for a call that did not fit into the channel.
Reply_(p) ==
    /\ On(p, "reply")
    /\ Answered(p)
    /\ Ends(p)
    /\ UNCHANGED <<memory, life, archiving, served, created, missed>>

\* The end of the request, which the client sees unless it has gone.
Reply(p) ==
    /\ On(p, "reply")
    /\ At(p, "idle")
    /\ Answered(p)
    /\ Ends(p)
    /\ UNCHANGED <<memory, life, archiving, served, created, missed>>

-----------------------------------------------------------------------------
Arrival(p) ==
    \/ \E s \in Sessions, n \in 0 .. Cardinality(Events) : CreateSession(p, s, n)
    \/ \E s \in Sessions : CreateSessionFails(p, s)
    \/ \E s \in Sessions : DeleteSession(p, s)
    \/ \E s \in Sessions : StartRun(p, s)

Progress(p) ==
    \/ Push(p)
    \/ Find(p)
    \/ Store(p)
    \/ CreateFails(p)
    \/ CreateAnswered(p)
    \/ RunErrs(p)
    \/ StreamErrs(p)
    \/ RunnerEnds(p)
    \/ AddSessionToMemory(p)
    \/ PostRunFails(p)
    \/ PostRunErrs(p)
    \/ Abandon(p)
    \/ Reply(p)

\* The memory service at work for its queue or for a request.
Remembering ==
    /\ UNCHANGED <<life, req, gone, archiving, served, told>>
    /\ Receive \/ \E x \in Execs : BeginAdd(x) \/ (\E e \in Events : AddRow(x, e)) \/ Commit(x)

\* An INSERT, the COMMIT or the connection fails, or the 30 seconds are up: the
\* error is logged, or counted, and nobody is told.
RememberFails ==
    /\ \E x \in Execs : /\ ExecFails(x) \/ \E e \in Events : RowFails(x, e)
                       /\ missed' = missed \cup task[x].call.cached
    /\ UNCHANGED <<life, req, gone, archiving, served, created, answered>>

\* The worker of the session persister has got through its channel.
Archived ==
    /\ archiving
    /\ archiving' = FALSE
    /\ UNCHANGED <<memory, life, req, gone, served, told>>
=============================================================================
