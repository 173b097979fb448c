------------------------------- MODULE Gateway -------------------------------
(***************************************************************************)
(* The gateway process (cmd/gateway/main.go, internal/stores): it opens    *)
(* the stores, starts the persister and the memory service with their      *)
(* workers, serves the requests of AgentService, and on a signal shuts the *)
(* server down and closes, by the deferred calls of main, what it opened.  *)
(*                                                                         *)
(* log.Fatalf ends the process without the deferred calls.  The gateway    *)
(* configures no embedding model and gives its agent no tools.             *)
(*                                                                         *)
(* How the session persister works through its channel is the matter of    *)
(* SessionPersister; here it only matters whether it is done.              *)
(***************************************************************************)
EXTENDS AgentService

CONSTANT PingRetries    \* attempts to reach a store at start-up

ASSUME PingAssumption == PingRetries \in Nat \ {0}

VARIABLES
    stage,      \* how far main has got
    tries,      \* pings of the present store that failed
    signalled,  \* has SIGINT or SIGTERM arrived?
    defers,     \* the deferred Close calls of main
    open        \* what is open and not yet closed

process == <<stage, tries, signalled, defers, open>>
service == <<memory, life, req, gone, archiving, served, told>>
gateway == <<service, process>>

Resources == {"postgres", "redis", "persister", "memory"}
Stages == {"postgres", "redis", "persister", "memory", "ready", "serving",
           "shutdown", "returning", "returned", "dead"}

GatewayInit ==
    /\ ServiceInit
    /\ stage = "postgres"
    /\ tries = 0
    /\ signalled = FALSE
    /\ defers = <<>>
    /\ open = {}

\* log.Fatalf: the process ends, and with it all that is not in a store.
Dies ==
    /\ stage' = "dead"
    /\ queue' = <<>>
    /\ task' = [x \in Execs |-> Idle]
    /\ req' = [p \in Callers |-> NoRequest]
    /\ gone' = {}
    /\ archiving' = FALSE
    /\ open' = {}
    /\ defers' = <<>>
    /\ created' = [s \in Sessions |-> {}]
    /\ answered' = [s \in Sessions |-> {}]
    /\ missed' = {}
    /\ UNCHANGED <<sessions, table, found, calls, wish, life, served, tries, signalled>>

Runs == stage \notin {"returned", "dead"}

-----------------------------------------------------------------------------
(* Start-up. *)

\* r is ready, its Close deferred, and main goes on to the next stage.
Opened(r, next) ==
    /\ stage = r
    /\ stage' = next
    /\ open' = open \cup {r}
    /\ defers' = Append(defers, r)
    /\ tries' = 0
    /\ UNCHANGED <<service, signalled>>

\* Connecting fails: after the last attempt the process ends.
PingFails(r) ==
    /\ stage = r
    /\ IF tries + 1 < PingRetries
       THEN tries' = tries + 1 /\ UNCHANGED <<service, stage, signalled, defers, open>>
       ELSE Dies

\* The ping of PostgreSQL has the context that a signal cancels.
NewPostgresClient == ~signalled /\ Opened("postgres", "redis")
NewRedisClient == Opened("redis", "persister")

\* So have the statements that create the tables.
NewSessionPersister == ~signalled /\ Opened("persister", "memory")
NewMemoryService == ~signalled /\ Opened("memory", "ready")

\* log.Fatalf, as the model, the agent, a service or the application's tables
\* cannot be made.
StartFails ==
    /\ stage \in {"redis", "persister", "memory"}
    /\ Dies

\* A signal that has arrived meanwhile is noticed at once.
Listen ==
    /\ stage = "ready"
    /\ stage' = IF signalled THEN "shutdown" ELSE "serving"
    /\ UNCHANGED <<service, tries, signalled, defers, open>>

\* log.Fatalf in the goroutine of the server, as for an address in use.
ListenFails ==
    /\ stage = "serving"
    /\ Dies

-----------------------------------------------------------------------------
(* Shutdown. *)

\* SIGINT or SIGTERM.  When main waits for it, it calls srv.Shutdown, which
\* stops listening and waits for the requests.
Signal ==
    /\ ~signalled
    /\ Runs
    /\ signalled' = TRUE
    /\ stage' = IF stage = "serving" THEN "shutdown" ELSE stage
    /\ UNCHANGED <<service, tries, defers, open>>

\* The requests are left to themselves.
ShutdownReturns_ ==
    /\ stage = "shutdown"
    /\ stage' = "returning"
    /\ UNCHANGED <<service, tries, signalled, defers, open>>

ShutdownReturns ==
    /\ stage = "shutdown"
    /\ \A p \in Callers : On(p, "none")
    /\ stage' = "returning"
    /\ UNCHANGED <<service, tries, signalled, defers, open>>

\* Shutdown has no deadline.
ShutdownTimesOut_ == FALSE /\ UNCHANGED gateway

\* After ten seconds with a request still running: log.Fatalf.
ShutdownTimesOut ==
    /\ stage = "shutdown"
    /\ \E p \in Callers : ~On(p, "none")
    /\ Dies

\* Close of a service waits for its worker to get through the channel.
Drained(r) ==
    CASE r = "memory" -> queue = <<>> /\ At(Worker, "idle")
      [] r = "persister" -> ~archiving
      [] OTHER -> TRUE

\* The calls run in the order in which they were deferred.
RunDefer_ ==
    /\ stage = "returning"
    /\ defers # <<>>
    /\ Drained(Head(defers))
    /\ open' = open \ {Head(defers)}
    /\ defers' = Tail(defers)
    /\ UNCHANGED <<service, stage, tries, signalled>>

RunDefer ==
    LET r == defers[Len(defers)]
    IN  /\ stage = "returning"
        /\ defers # <<>>
        /\ Drained(r)
        /\ open' = open \ {r}
        /\ defers' = SubSeq(defers, 1, Len(defers) - 1)
        /\ UNCHANGED <<service, stage, tries, signalled>>

MainReturns ==
    /\ stage = "returning"
    /\ defers = <<>>
    /\ stage' = "returned"
    /\ UNCHANGED <<service, tries, signalled, defers, open>>

-----------------------------------------------------------------------------
Startup ==
    \/ NewPostgresClient
    \/ NewRedisClient
    \/ NewSessionPersister
    \/ NewMemoryService
    \/ \E r \in {"postgres", "redis"} : PingFails(r)
    \/ StartFails
    \/ Listen

Stopping ==
    \/ ShutdownReturns
    \/ ShutdownTimesOut
    \/ RunDefer
    \/ MainReturns

Main == Startup \/ Stopping

\* Requests arrive while the server listens; their goroutines run on until
\* the process ends.
Requests ==
    /\ \/ stage = "serving" /\ \E p \in Callers : Arrival(p)
       \/ Runs /\ \E p \in Callers : Progress(p) \/ Leave(p)
    /\ UNCHANGED process

Workers ==
    /\ Runs
    /\ UNCHANGED process
    /\ Remembering \/ Archived

\* The database or Redis fails a call of the memory service.
StoreFails ==
    /\ Runs
    /\ RememberFails
    /\ UNCHANGED process

GatewayNext == Main \/ ListenFails \/ Signal \/ Requests \/ Workers \/ StoreFails

\* Pings return or time out, so do Shutdown and the deferred calls; the workers,
\* and goroutines that carry out a call themselves, get through it.  A request
\* may take for ever, and no signal has to come.
GatewayFairness ==
    /\ WF_gateway(Main)
    /\ WF_gateway(Workers)

GatewaySpec == GatewayInit /\ [][GatewayNext]_gateway
FairGatewaySpec == GatewaySpec /\ GatewayFairness

-----------------------------------------------------------------------------
(* Properties. *)

\* The events of runs answered to clients that are neither remembered nor has an
\* error been logged for them.
Outstanding(s) == {e \in answered[s] : ~Stored(e) /\ e \notin missed}

RequestType == [pc : {"none", "create", "run", "post", "reply"},
                sid : Sessions \cup {NoSession}, todo : Nat, evts : SUBSET Events,
                step : {"none", "get", "set"}, evt : Events \cup {NoEvent}]

\* Every variable has its type, and a goroutine carries out a call of the
\* memory service only for a request that waits for it: an answered request
\* leaves nothing running behind (svr.go:110-115, memory.go:234).
GatewayTypeOK ==
    /\ TypeOK
    /\ life \in [Sessions -> {"new", "live", "gone", "revived"}]
    /\ req \in [Callers -> RequestType]
    /\ gone \subseteq Callers
    /\ archiving \in BOOLEAN
    /\ served \in 0 .. MaxRequests
    /\ {created, answered} \subseteq [Sessions -> SUBSET Events]
    /\ missed \subseteq Events
    /\ stage \in Stages
    /\ tries \in 0 .. PingRetries
    /\ signalled \in BOOLEAN
    /\ defers \in Seq(Resources)
    /\ open \subseteq Resources
    /\ \A p \in Callers : ~At(p, "idle") => On(p, "reply")

\* A session whose creation was answered has every event it was created with
\* until it is first deleted, though an append in the middle may fail and others
\* use the session meanwhile (user/session.go:66-76).  Of a session that was
\* deleted while an append of its creation or of a run was under way, and stored
\* again by it, nothing is said: it lacks the events of before
\* (service.go:446, 471).
CreatedWhole ==
    \A s \in Sessions : life[s] = "live" => created[s] \subseteq log[s]

\* Nothing is closed while the workers, the archive or a request may use it: the
\* workers still read Redis and write PostgreSQL while the services are being
\* closed (main.go:47, 56, 89, 103).  Nothing is said of the goroutine that List
\* leaves behind to clean up the index: it may find Redis closed
\* (service.go:356-365).
UsersOutlived ==
    Runs =>
        /\ (queue # <<>> \/ ~At(Worker, "idle")) => {"postgres", "redis"} \subseteq open
        /\ archiving => "postgres" \in open
        /\ (\E p \in Callers : ~On(p, "none")) => open = Resources

\* When main has returned, nothing is left in a channel, and of the events that
\* runs answered to clients have added to sessions never deleted, all are
\* remembered but those for which an error was logged (main.go:139 "server
\* exited gracefully"; memory.go:355).
GracefulStopKeepsAll ==
    stage = "returned" =>
        /\ queue = <<>> /\ ~archiving
        /\ \A s \in Sessions : life[s] = "live" => Outstanding(s) = {}

\* A signal ends the process, whatever it is doing: pinging a store, running
\* the agent for a client that waits for ever, or closing (main.go:38, 132).
SignalEnds == signalled ~> ~Runs

\* No event of a run that was answered to its client is lost silently: it is
\* remembered, also when the channel is full, or an error was logged for it,
\* unless the session is deleted or the process dies first (svr.go:159-160:
\* "re-fetches the session (which now includes the latest events) and persists
\* it"; svr.go:111-113, memory.go:209-211, 335-339).
Remembered ==
    \A s \in Sessions :
        (Outstanding(s) # {}) ~>
            (Outstanding(s) = {} \/ life[s] # "live" \/ stage = "dead")

\* The same of every stream that got through PostRun (svr.go:152: "PostRun
\* persists session to memory. Should be called after streaming completes").
StreamsRemembered ==
    \A s \in Sessions, e \in Events \ Silent :
        (\E p \in Streams : On(p, "reply") /\ Sid(p) = s /\ e \in req[p].evts)
          ~> (Stored(e) \/ e \in missed \/ life[s] # "live" \/ stage = "dead")
=============================================================================
