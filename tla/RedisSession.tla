---------------------------- MODULE RedisSession ----------------------------
(***************************************************************************)
(* RedisSessionService (pkg/adk-util/session/redis): the sessions of one   *)
(* user of one application, kept in Redis as three kinds of keys           *)
(*   session:{app}:{user}:{id}   the session with its whole state map      *)
(*   events:{app}:{user}:{id}    the list of its events                    *)
(*   session:{app}:{user}        the index, the set of its session IDs     *)
(* each with its own time to live.  A process of Procs is one request      *)
(* (a goroutine); an operation is split at its Redis round trips, which    *)
(* are what other requests and the clock can come between.                 *)
(*                                                                         *)
(* Definitions whose name ends in _ are slips a programmer could make in    *)
(* the definition that follows them; they are no part of the specification  *)
(* and show that its properties can fail.                                   *)
(*                                                                         *)
(* Time: one tick is a fraction of the TTL, which is a whole number of     *)
(* seconds.  Data: a state map is the set of the keys it holds, an event   *)
(* is the number of the operation that appended it.                        *)
(***************************************************************************)
EXTENDS Naturals, Sequences, FiniteSets

CONSTANTS
    Procs,          \* concurrent requests
    Sessions,       \* session IDs of the user
    NoSession,      \* no session ID
    Keys,           \* keys of the session state
    TTL,            \* the service's ttl, in ticks
    MaxOps,         \* bound: operations started
    Kinds,          \* the operations the requests perform
    Faulty,         \* may a Redis call fail?
    HasPersister,   \* is a persister configured?
    Leased,         \* do the callers use a session one request at a time?
    NewIDs,         \* are sessions created only under IDs not in use?
    QuietClock      \* does the clock stand still during an operation?

AllKinds == {"create", "get", "append", "set", "delete", "list"}

ASSUME TTLAssumption == TTL \in Nat \ {0}
ASSUME NoSessionAssumption == NoSession \notin Sessions
ASSUME MaxOpsAssumption == MaxOps \in Nat
ASSUME KindsAssumption == Kinds \subseteq AllKinds
ASSUME FlagsAssumption ==
    /\ Faulty \in BOOLEAN /\ HasPersister \in BOOLEAN
    /\ Leased \in BOOLEAN /\ NewIDs \in BOOLEAN /\ QuietClock \in BOOLEAN

VARIABLES
    state,      \* session key: the state keys stored for each session
    sessTTL,    \* session key: time to live, 0 when the key is absent
    events,     \* events key: the list of each session
    evTTL,      \* events key: time to live, 0 when the key is absent
    index,      \* index key: the set of session IDs
    idxTTL,     \* index key: time to live, 0 when the key is absent
    handle,     \* the session object each request holds
    job,        \* the operation each request is executing
    cleanups,   \* background cleanups pending, by the IDs they found stale
    outbox,     \* the calls made to the persister, in order
    ops,        \* operations started (bounded by MaxOps)
    acked,      \* history: keys whose write returned nil, per live session
    last        \* history: what was last done to each session

redis == <<state, sessTTL, events, evTTL, index, idxTTL>>
vars == <<state, sessTTL, events, evTTL, index, idxTTL,
          handle, job, cleanups, outbox, ops, acked, last>>

-----------------------------------------------------------------------------
(* Redis, as the service uses it. *)

NoExpiry == TTL + 1     \* the TTL of a key that never expires
Expiries == 0 .. NoExpiry

Live(s) == sessTTL[s] > 0

\* EXPIRE: without effect on an absent key.
Expire(t) == IF t = 0 THEN 0 ELSE TTL

\* SADD and RPUSH create an absent key without expiry.
Touch(t) == IF t = 0 THEN NoExpiry ELSE t

\* A key left empty by SREM is removed.
AfterRemoval(S) == IF S = {} THEN 0 ELSE idxTTL

Age(t) == IF t \in 1 .. TTL THEN t - 1 ELSE t

-----------------------------------------------------------------------------
(* Requests. *)

Labels == {"idle", "create_sadd", "create_expire", "create_persist",
           "append_expire", "append_get", "append_set", "append_index",
           "append_persist", "delete_events", "delete_srem",
           "delete_persist", "list_get"}

Idle == [pc |-> "idle", sid |-> NoSession, evt |-> 0, todo |-> {}, stale |-> {}]
Running(pc, s) == [Idle EXCEPT !.pc = pc, !.sid = s]
NoHandle == [sid |-> NoSession, state |-> {}]

At(p, pc) == job[p].pc = pc
Goto(p, pc) == job' = [job EXCEPT ![p].pc = pc]
Return(p) == job' = [job EXCEPT ![p] = Idle]

\* Is nobody else using session s?  (Only under Leased.)
MayUse(p, s) ==
    Leased => \A q \in Procs \ {p} : handle[q].sid # s /\ job[q].sid # s

Start(p, kind) ==
    /\ job[p] = Idle
    /\ kind \in Kinds
    /\ ops < MaxOps
    /\ ops' = ops + 1

\* The call to the persister, its result only logged.
Submit(op, s, e) == outbox' = Append(outbox, [op |-> op, sid |-> s, evt |-> e])

\* What follows the last Redis call of a write.
Finish(p, persist) == IF HasPersister THEN Goto(p, persist) ELSE Return(p)

Init ==
    /\ state = [s \in Sessions |-> {}]
    /\ sessTTL = [s \in Sessions |-> 0]
    /\ events = [s \in Sessions |-> <<>>]
    /\ evTTL = [s \in Sessions |-> 0]
    /\ index = {}
    /\ idxTTL = 0
    /\ handle = [p \in Procs |-> NoHandle]
    /\ job = [p \in Procs |-> Idle]
    /\ cleanups = [ids \in SUBSET Sessions |-> 0]
    /\ outbox = <<>>
    /\ ops = 0
    /\ acked = [s \in Sessions |-> {}]
    /\ last = [s \in Sessions |-> "none"]

-----------------------------------------------------------------------------
(* Create: SET, SADD, EXPIRE of the index, persister. *)

\* An existing session of the same ID is overwritten; its events stay.
CreateSet(p, s, init) ==
    /\ Start(p, "create")
    /\ handle[p] = NoHandle
    /\ MayUse(p, s)
    /\ NewIDs => ~Live(s)
    /\ state' = [state EXCEPT ![s] = init]
    /\ sessTTL' = [sessTTL EXCEPT ![s] = TTL]
    /\ acked' = [acked EXCEPT ![s] = init]
    /\ last' = [last EXCEPT ![s] = "session"]
    /\ handle' = [handle EXCEPT ![p] = [sid |-> s, state |-> init]]
    /\ job' = [job EXCEPT ![p] = Running("create_sadd", s)]
    /\ UNCHANGED <<events, evTTL, index, idxTTL, cleanups, outbox>>

CreateSAdd(p) ==
    /\ At(p, "create_sadd")
    /\ index' = index \cup {job[p].sid}
    /\ idxTTL' = Touch(idxTTL)
    /\ Goto(p, "create_expire")
    /\ UNCHANGED <<state, sessTTL, events, evTTL, handle, cleanups, outbox,
                   ops, acked, last>>

CreateExpire(p) ==
    /\ At(p, "create_expire")
    /\ idxTTL' = Expire(idxTTL)
    /\ Finish(p, "create_persist")
    /\ UNCHANGED <<state, sessTTL, events, evTTL, index, handle, cleanups,
                   outbox, ops, acked, last>>

CreatePersist(p) ==
    /\ At(p, "create_persist")
    /\ Submit("session", job[p].sid, 0)
    /\ Return(p)
    /\ UNCHANGED <<redis, handle, cleanups, ops, acked, last>>

-----------------------------------------------------------------------------
(* Get, and the state of a session object. *)

\* The object copies the stored state; the events it also reads are a cache
\* that no write depends on.
GetSession(p, s) ==
    /\ Start(p, "get")
    /\ handle[p] = NoHandle
    /\ MayUse(p, s)
    /\ Live(s)
    /\ handle' = [handle EXCEPT ![p] = [sid |-> s, state |-> state[s]]]
    /\ UNCHANGED <<redis, job, cleanups, outbox, acked, last>>

\* The request is over.
Release(p) ==
    /\ job[p] = Idle
    /\ handle[p] # NoHandle
    /\ handle' = [handle EXCEPT ![p] = NoHandle]
    /\ UNCHANGED <<redis, job, cleanups, outbox, ops, acked, last>>

\* The script stores the one key in place of the map.
StateSetOneKey_(p, k) ==
    LET s == handle[p].sid IN
    /\ Start(p, "set")
    /\ s \in Sessions
    /\ Live(s)
    /\ handle' = [handle EXCEPT ![p].state = @ \cup {k}]
    /\ state' = [state EXCEPT ![s] = {k}]
    /\ sessTTL' = [sessTTL EXCEPT ![s] = TTL]
    /\ acked' = [acked EXCEPT ![s] = @ \cup {k}]
    /\ UNCHANGED <<events, evTTL, index, idxTTL, job, cleanups, outbox,
                   last>>

\* redisState.Set: the local store, then the script that replaces the whole
\* stored state with this object's map if the session exists.  One step, as
\* only the one goroutine uses the object.
StateSet(p, k) ==
    LET s == handle[p].sid IN
    /\ Start(p, "set")
    /\ s \in Sessions
    /\ Live(s)
    /\ handle' = [handle EXCEPT ![p].state = @ \cup {k}]
    /\ state' = [state EXCEPT ![s] = handle'[p].state]
    /\ sessTTL' = [sessTTL EXCEPT ![s] = TTL]
    /\ acked' = [acked EXCEPT ![s] = @ \cup {k}]
    /\ UNCHANGED <<events, evTTL, index, idxTTL, job, cleanups, outbox,
                   last>>

\* The script finds no session, or the call fails: an error is returned, the
\* object keeps the key.
StateSetError(p, k) ==
    /\ Start(p, "set")
    /\ handle[p].sid \in Sessions
    /\ Faulty \/ ~Live(handle[p].sid)
    /\ handle' = [handle EXCEPT ![p].state = @ \cup {k}]
    /\ UNCHANGED <<redis, job, cleanups, outbox, acked, last>>

\* The answer to the script is lost: an error is returned for a key that is
\* stored.
StateSetLost(p, k) ==
    LET s == handle[p].sid IN
    /\ Faulty
    /\ Start(p, "set")
    /\ s \in Sessions
    /\ Live(s)
    /\ handle' = [handle EXCEPT ![p].state = @ \cup {k}]
    /\ state' = [state EXCEPT ![s] = handle'[p].state]
    /\ sessTTL' = [sessTTL EXCEPT ![s] = TTL]
    /\ UNCHANGED <<events, evTTL, index, idxTTL, job, cleanups, outbox, acked,
                   last>>

-----------------------------------------------------------------------------
(* AppendEvent: RPUSH, EXPIRE of the events, GET, SET, EXPIRE of the index,
   persister. *)

\* The check for a missing session object is forgotten.
AppendRPush_(p) ==
    LET s == handle[p].sid IN
    /\ Start(p, "append")
    /\ events' = [events EXCEPT ![s] = Append(@, ops')]
    /\ evTTL' = [evTTL EXCEPT ![s] = Touch(@)]
    /\ job' = [job EXCEPT ![p] = [Running("append_expire", s)
                                    EXCEPT !.evt = ops']]
    /\ UNCHANGED <<state, sessTTL, index, idxTTL, handle, cleanups, outbox,
                   acked, last>>

AppendRPush(p) ==
    LET s == handle[p].sid IN
    /\ Start(p, "append")
    /\ s \in Sessions
    /\ events' = [events EXCEPT ![s] = Append(@, ops')]
    /\ evTTL' = [evTTL EXCEPT ![s] = Touch(@)]
    /\ job' = [job EXCEPT ![p] = [Running("append_expire", s)
                                    EXCEPT !.evt = ops']]
    /\ UNCHANGED <<state, sessTTL, index, idxTTL, handle, cleanups, outbox,
                   acked, last>>

\* The events get no TTL.
AppendExpireEvents_(p) ==
    /\ At(p, "append_expire")
    /\ Goto(p, "append_get")
    /\ UNCHANGED <<redis, handle, cleanups, outbox, ops, acked, last>>

AppendExpireEvents(p) ==
    /\ At(p, "append_expire")
    /\ evTTL' = [evTTL EXCEPT ![job[p].sid] = Expire(@)]
    /\ Goto(p, "append_get")
    /\ UNCHANGED <<state, sessTTL, events, index, idxTTL, handle, cleanups,
                   outbox, ops, acked, last>>

\* The session is not looked for.
AppendGet_(p) ==
    /\ At(p, "append_get")
    /\ Goto(p, "append_set")
    /\ UNCHANGED <<redis, handle, cleanups, outbox, ops, acked, last>>

\* The session must exist now; the event stays in the list if it does not.
AppendGet(p) ==
    /\ At(p, "append_get")
    /\ IF Live(job[p].sid) THEN Goto(p, "append_set") ELSE Return(p)
    /\ UNCHANGED <<redis, handle, cleanups, outbox, ops, acked, last>>

\* The stored state becomes the object's whole map, whatever happened to the
\* session since the GET.
AppendSet(p) ==
    LET s == job[p].sid IN
    /\ At(p, "append_set")
    /\ state' = [state EXCEPT ![s] = handle[p].state]
    /\ sessTTL' = [sessTTL EXCEPT ![s] = TTL]
    /\ Goto(p, "append_index")
    /\ UNCHANGED <<events, evTTL, index, idxTTL, handle, cleanups, outbox,
                   ops, acked, last>>

\* The TTL of the index is not refreshed.
AppendExpireIndex_(p) ==
    /\ At(p, "append_index")
    /\ Finish(p, "append_persist")
    /\ UNCHANGED <<redis, handle, cleanups, outbox, ops, acked, last>>

AppendExpireIndex(p) ==
    /\ At(p, "append_index")
    /\ idxTTL' = Expire(idxTTL)
    /\ Finish(p, "append_persist")
    /\ UNCHANGED <<state, sessTTL, events, evTTL, index, handle, cleanups,
                   outbox, ops, acked, last>>

AppendPersist(p) ==
    /\ At(p, "append_persist")
    /\ Submit("event", job[p].sid, job[p].evt)
    /\ Return(p)
    /\ UNCHANGED <<redis, handle, cleanups, ops, acked, last>>

-----------------------------------------------------------------------------
(* Delete: a pipeline (no transaction) of DEL, DEL, SREM, then the persister. *)

DeleteKey(p, s) ==
    /\ Start(p, "delete")
    /\ handle[p] = NoHandle
    /\ MayUse(p, s)
    /\ state' = [state EXCEPT ![s] = {}]
    /\ sessTTL' = [sessTTL EXCEPT ![s] = 0]
    /\ acked' = [acked EXCEPT ![s] = {}]
    /\ last' = [last EXCEPT ![s] = "delete"]
    /\ job' = [job EXCEPT ![p] = Running("delete_events", s)]
    /\ UNCHANGED <<events, evTTL, index, idxTTL, handle, cleanups, outbox>>

DeleteEvents(p) ==
    /\ At(p, "delete_events")
    /\ events' = [events EXCEPT ![job[p].sid] = <<>>]
    /\ evTTL' = [evTTL EXCEPT ![job[p].sid] = 0]
    /\ Goto(p, "delete_srem")
    /\ UNCHANGED <<state, sessTTL, index, idxTTL, handle, cleanups, outbox,
                   ops, acked, last>>

\* The persister is forgotten.
DeleteSRem_(p) ==
    /\ At(p, "delete_srem")
    /\ index' = index \ {job[p].sid}
    /\ idxTTL' = AfterRemoval(index')
    /\ Return(p)
    /\ UNCHANGED <<state, sessTTL, events, evTTL, handle, cleanups, outbox,
                   ops, acked, last>>

DeleteSRem(p) ==
    /\ At(p, "delete_srem")
    /\ index' = index \ {job[p].sid}
    /\ idxTTL' = AfterRemoval(index')
    /\ Finish(p, "delete_persist")
    /\ UNCHANGED <<state, sessTTL, events, evTTL, handle, cleanups, outbox,
                   ops, acked, last>>

DeletePersist(p) ==
    /\ At(p, "delete_persist")
    /\ Submit("delete", job[p].sid, 0)
    /\ Return(p)
    /\ UNCHANGED <<redis, handle, cleanups, ops, acked, last>>

-----------------------------------------------------------------------------
(* List: SMEMBERS, a pipeline of GETs, a background cleanup of the IDs whose
   session is gone. *)

ListSMembers(p) ==
    /\ Start(p, "list")
    /\ handle[p] = NoHandle
    /\ index # {}
    /\ job' = [job EXCEPT ![p] = [Idle EXCEPT !.pc = "list_get", !.todo = index]]
    /\ UNCHANGED <<redis, handle, cleanups, outbox, acked, last>>

ListGet(p, s) ==
    /\ At(p, "list_get")
    /\ s \in job[p].todo
    /\ job' = [job EXCEPT ![p].todo = @ \ {s},
                          ![p].stale = IF Live(s) THEN @ ELSE @ \cup {s}]
    /\ UNCHANGED <<redis, handle, cleanups, outbox, ops, acked, last>>

ListReturn(p) ==
    /\ At(p, "list_get")
    /\ job[p].todo = {}
    /\ cleanups' = IF job[p].stale = {} THEN cleanups
                   ELSE [cleanups EXCEPT ![job[p].stale] = @ + 1]
    /\ Return(p)
    /\ UNCHANGED <<redis, handle, outbox, ops, acked, last>>

\* A plain SREM of the IDs found stale.
CleanStale_(ids) ==
    /\ cleanups[ids] > 0
    /\ cleanups' = [cleanups EXCEPT ![ids] = @ - 1]
    /\ index' = index \ ids
    /\ idxTTL' = AfterRemoval(index')
    /\ UNCHANGED <<state, sessTTL, events, evTTL, handle, job, outbox, ops,
                   acked, last>>

\* cleanStaleScript: one atomic script that checks each key again.
CleanStale(ids) ==
    /\ cleanups[ids] > 0
    /\ cleanups' = [cleanups EXCEPT ![ids] = @ - 1]
    /\ index' = index \ {s \in ids : ~Live(s)}
    /\ idxTTL' = AfterRemoval(index')
    /\ UNCHANGED <<state, sessTTL, events, evTTL, handle, job, outbox, ops,
                   acked, last>>

-----------------------------------------------------------------------------
(* Failing calls, and time. *)

Creating(p) == job[p].pc \in {"create_sadd", "create_expire", "create_persist"}
Deleting(p) == job[p].pc \in {"delete_events", "delete_srem", "delete_persist"}

\* A Redis call fails, or the answer to the last one is lost: the operation
\* returns an error and makes no further call.  A failed Create returns no
\* session object.
Fail(p) ==
    /\ Faulty
    /\ job[p] # Idle
    /\ ~At(p, "create_persist")
    /\ ~At(p, "append_persist")
    /\ handle' = IF Creating(p) THEN [handle EXCEPT ![p] = NoHandle] ELSE handle
    /\ last' = IF Creating(p) \/ Deleting(p)
               THEN [last EXCEPT ![job[p].sid] = "failed"] ELSE last
    /\ Return(p)
    /\ UNCHANGED <<redis, cleanups, outbox, ops, acked>>

\* A failed EXPIRE is only logged.
SkipExpire(p) ==
    /\ Faulty
    /\ \/ At(p, "create_expire") /\ Finish(p, "create_persist")
       \/ At(p, "append_expire") /\ Goto(p, "append_get")
       \/ At(p, "append_index") /\ Finish(p, "append_persist")
    /\ UNCHANGED <<redis, handle, cleanups, outbox, ops, acked, last>>

\* The script fails or its five seconds run out.
CleanFails(ids) ==
    /\ Faulty
    /\ cleanups[ids] > 0
    /\ cleanups' = [cleanups EXCEPT ![ids] = @ - 1]
    /\ UNCHANGED <<redis, handle, job, outbox, ops, acked, last>>

Tick ==
    /\ QuietClock => \A p \in Procs : job[p] = Idle
    /\ sessTTL' = [s \in Sessions |-> Age(sessTTL[s])]
    /\ state' = [s \in Sessions |-> IF sessTTL'[s] = 0 THEN {} ELSE state[s]]
    /\ acked' = [s \in Sessions |-> IF sessTTL'[s] = 0 THEN {} ELSE acked[s]]
    /\ evTTL' = [s \in Sessions |-> Age(evTTL[s])]
    /\ events' = [s \in Sessions |-> IF evTTL'[s] = 0 THEN <<>> ELSE events[s]]
    /\ idxTTL' = Age(idxTTL)
    /\ index' = IF idxTTL' = 0 THEN {} ELSE index
    /\ UNCHANGED <<handle, job, cleanups, outbox, ops, last>>

-----------------------------------------------------------------------------
\* The requests a client may begin.
Request(p) ==
    \/ \E s \in Sessions, init \in SUBSET Keys : CreateSet(p, s, init)
    \/ \E s \in Sessions : GetSession(p, s)
    \/ \E k \in Keys : StateSet(p, k)
    \/ \E k \in Keys : StateSetError(p, k)
    \/ \E k \in Keys : StateSetLost(p, k)
    \/ AppendRPush(p)
    \/ \E s \in Sessions : DeleteKey(p, s)
    \/ ListSMembers(p)
    \/ Release(p)

\* The next round trip of the operation a request is executing.
Continue(p) ==
    \/ CreateSAdd(p)
    \/ CreateExpire(p)
    \/ CreatePersist(p)
    \/ AppendExpireEvents(p)
    \/ AppendGet(p)
    \/ AppendSet(p)
    \/ AppendExpireIndex(p)
    \/ AppendPersist(p)
    \/ DeleteEvents(p)
    \/ DeleteSRem(p)
    \/ DeletePersist(p)
    \/ \E s \in Sessions : ListGet(p, s)
    \/ ListReturn(p)

Next ==
    \/ \E p \in Procs : Request(p)
    \/ \E p \in Procs : Continue(p)
    \/ \E p \in Procs : Fail(p)
    \/ \E p \in Procs : SkipExpire(p)
    \/ \E ids \in SUBSET Sessions : CleanStale(ids)
    \/ \E ids \in SUBSET Sessions : CleanFails(ids)
    \/ Tick

\* A goroutine that started an operation runs on, a cleanup goroutine is
\* scheduled, and time passes; no request has to arrive.
Fairness ==
    /\ \A p \in Procs : WF_vars(Continue(p))
    /\ \A ids \in SUBSET Sessions : WF_vars(CleanStale(ids))
    /\ WF_vars(Tick)

Spec == Init /\ [][Next]_vars
FairSpec == Spec /\ Fairness

-----------------------------------------------------------------------------
(* Properties. *)

Handles == [sid : Sessions \cup {NoSession}, state : SUBSET Keys]
Jobs == [pc : Labels, sid : Sessions \cup {NoSession}, evt : Nat,
         todo : SUBSET Sessions, stale : SUBSET Sessions]
Calls == [op : {"session", "event", "delete"}, sid : Sessions, evt : Nat]

KeyTypes ==
    /\ state \in [Sessions -> SUBSET Keys]
    /\ sessTTL \in [Sessions -> 0 .. TTL]
    /\ events \in [Sessions -> Seq(Nat)]
    /\ evTTL \in [Sessions -> Expiries]
    /\ index \in SUBSET Sessions
    /\ idxTTL \in Expiries

RequestTypes ==
    /\ handle \in [Procs -> Handles]
    /\ job \in [Procs -> Jobs]
    /\ \A p \in Procs : job[p].pc \notin {"idle", "list_get"}
                            => job[p].sid \in Sessions

OtherTypes ==
    /\ cleanups \in [SUBSET Sessions -> Nat]
    /\ outbox \in Seq(Calls)
    /\ ops \in Nat
    /\ acked \in [Sessions -> SUBSET Keys]
    /\ last \in [Sessions -> {"none", "session", "delete", "failed"}]

NoEmptyKeys ==
    /\ \A s \in Sessions : events[s] = <<>> <=> evTTL[s] = 0
    /\ index = {} <=> idxTTL = 0

\* Every variable has its type, an operation on a session names one, and a
\* key is absent exactly when it is empty: Redis keeps no empty list or set
\* (service.go:158, 384, 414, 433).
TypeOK == KeyTypes /\ RequestTypes /\ OtherTypes /\ NoEmptyKeys

\* An operation on s that has written the session key and not yet refreshed
\* the index.
Refreshing(s) ==
    \E p \in Procs :
        /\ job[p].sid = s
        /\ job[p].pc \in {"create_sadd", "create_expire", "append_index"}

\* The index never expires before a session it lists, except for the moment
\* between an operation's SET and its EXPIRE (service.go:478: "Refresh index
\* key TTL to keep it aligned with active sessions").
IndexOutlivesListed ==
    \A s \in index : sessTTL[s] <= idxTTL \/ Refreshing(s)

\* Every live session of the user is in the index, so that List returns it,
\* but for one that is just being created: neither the cleanup of stale IDs
\* nor an index that expires first may drop it (service.go:348-351, 499-502).
IndexCoversLive ==
    \A s \in Sessions :
        Live(s) => s \in index \/ \E p \in Procs : /\ At(p, "create_sadd")
                                                   /\ job[p].sid = s

\* A session that is gone, deleted or expired, comes back only when a Create
\* stores it again: not by a late write of a request that still holds the
\* session object (service.go:371 "Delete removes a session"; state.go:32-34).
OnlyCreateRevives ==
    [][\A s \in Sessions :
          ~Live(s) /\ Live(s)' =>
              \E p \in Procs : job'[p].pc = "create_sadd" /\ job'[p].sid = s
                               /\ job[p] = Idle]_vars

\* A state key whose Set returned nil stays in the stored state for as long
\* as the session does (state.go:103-104: "atomically update the session
\* state, preventing race conditions in concurrent scenarios").
AckedStateSurvives == \A s \in Sessions : acked[s] \subseteq state[s]

\* Entry i of the outbox is the creation or the deletion of s.
Tells(i, s) == outbox[i].sid = s /\ outbox[i].op # "event"

\* The last that the persister was told of s is op, or it was told nothing.
ToldLast(s, op) ==
    IF op = "none" THEN \A i \in 1 .. Len(outbox) : ~Tells(i, s)
    ELSE \E i \in 1 .. Len(outbox) :
            /\ Tells(i, s) /\ outbox[i].op = op
            /\ \A j \in 1 .. Len(outbox) : j > i => ~Tells(j, s)

\* Between the operations on a session, what the persister was last told of it
\* is what was last done to it in Redis, a creation or a deletion: unless that
\* operation wrote and then returned an error, after which the persister is
\* told nothing (service.go:53-55, 149-174, 384-400).
OutboxAgrees ==
    \A s \in Sessions :
        last[s] # "failed" /\ (\A p \in Procs : job[p].sid # s)
            => ToldLast(s, last[s])

\* When the requests stop, every key of the user expires: no operation leaves
\* a key without a TTL behind, not even in part (service.go:163, 440, 480).
EventuallyReclaimed ==
    <>[](/\ \A s \in Sessions : sessTTL[s] = 0 /\ evTTL[s] = 0
         /\ idxTTL = 0)

=============================================================================
