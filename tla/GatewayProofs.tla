---------------------------- MODULE GatewayProofs ----------------------------
(***************************************************************************)
(* Theorems about Gateway: what the process promises from its start to its *)
(* end, for any number of requests, sessions and events.                   *)
(***************************************************************************)
EXTENDS Gateway, MemoryServiceProofs

USE DEF At, Begins, Stored, Execs, Contents, On, Sid

-----------------------------------------------------------------------------
(* The invariant. *)

RequestTypes ==
    /\ life \in [Sessions -> {"new", "live", "gone", "revived"}]
    /\ req \in [Callers -> RequestType]
    /\ gone \subseteq Callers
    /\ archiving \in BOOLEAN
    /\ served \in 0 .. MaxRequests
    /\ created \in [Sessions -> SUBSET Events]
    /\ answered \in [Sessions -> SUBSET Events]
    /\ missed \subseteq Events

ProcessTypes ==
    /\ stage \in Stages
    /\ tries \in 0 .. PingRetries
    /\ signalled \in BOOLEAN
    /\ defers \in Seq(Resources)
    /\ open \subseteq Resources

\* The rows of a transaction are of the events it read, one by one, unless an
\* INSERT has failed.
Rowwise ==
    \A x \in Execs :
        /\ task[x].pc = "begin" => task[x].rows = {}
        /\ task[x].pc = "rows" =>
              \/ {r.evt : r \in task[x].rows} \cup task[x].todo = task[x].seen
              \/ task[x].call.cached \subseteq missed

\* A request that has pushed an event is a creation, with events to append, or a
\* run.
Appends(r) ==
    r.step # "none" =>
        /\ r.evt \in Events
        /\ r.pc = "run" \/ (r.pc = "create" /\ r.todo > 0)

\* What request r has added, and is about to store the session for.
Pushed(r) == r.evts \cup (IF r.step = "none" THEN {} ELSE {r.evt})

\* A request is about a session that was there, and until that is first deleted
\* it has the events the request has added.
Underway(p) ==
    /\ Appends(req[p])
    /\ ~On(p, "none") =>
          /\ Sid(p) \in Sessions
          /\ life[Sid(p)] # "new"
          /\ life[Sid(p)] = "live" => Pushed(req[p]) \subseteq log[Sid(p)]

Histories ==
    \A s \in Sessions :
        /\ life[s] = "new" => created[s] = {} /\ answered[s] = {}
        /\ life[s] = "live" => created[s] \cup answered[s] \subseteq log[s]
        /\ answered[s] \cap Silent = {}

ServiceInv ==
    /\ RequestTypes
    /\ \A p \in Callers : ~At(p, "idle") => On(p, "reply")
    /\ \A p \in Callers : Underway(p)
    /\ Histories

\* How far an event of session s is on its way to table memory_entries.
Covers(c, s, e) == c.kind = "add" /\ c.sid = s /\ e \in c.cached
Waits(s, e) == \E i \in 1 .. Len(queue) : Covers(queue[i], s, e)
InWork(x, s, e) ==
    /\ Covers(task[x].call, s, e)
    /\ At(x, "begin") \/ (At(x, "rows") /\ e \in task[x].seen)

\* It has arrived, or is told to have been lost, or will be one or the other.
Safe(s, e) ==
    \/ Stored(e)
    \/ e \in missed
    \/ Waits(s, e)
    \/ InWork(Worker, s, e)

KeepInv ==
    /\ \A s \in Sessions :
          life[s] = "live" => \A e \in answered[s] : Safe(s, e)
    /\ \A p \in Callers :
          On(p, "reply") /\ p \notin gone /\ life[Sid(p)] = "live" =>
              \A e \in req[p].evts \ Silent :
                  Safe(Sid(p), e) \/ InWork(p, Sid(p), e)

\* main opens in this order and closes in the opposite one.
Order == <<"postgres", "redis", "persister", "memory">>

Depth ==
    /\ Len(defers) <= 4
    /\ \A i \in 1 .. Len(defers) : defers[i] = Order[i]
    /\ open = {defers[i] : i \in 1 .. Len(defers)}
    /\ stage \in {"postgres", "returned", "dead"} => Len(defers) = 0
    /\ stage = "redis" => Len(defers) = 1
    /\ stage = "persister" => Len(defers) = 2
    /\ stage = "memory" => Len(defers) = 3
    /\ stage \in {"ready", "serving", "shutdown"} => Len(defers) = 4

\* What is closed has nothing to do.
Closed ==
    /\ Len(defers) < 4 => queue = <<>> /\ At(Worker, "idle")
    /\ Len(defers) < 3 => ~archiving
    /\ stage \notin {"serving", "shutdown"} => \A p \in Callers : On(p, "none")

MemoryInv == IInv /\ Rowwise
ProcessInv == ProcessTypes /\ Depth /\ Closed
GatewayInv == MemoryInv /\ ServiceInv /\ KeepInv /\ ProcessInv

-----------------------------------------------------------------------------
(* The memory service, as the gateway uses it. *)

LEMMA CallersApart == Worker \in Execs /\ \A p \in Callers : p \in Execs /\ p # Worker
BY WorkerAssumption

\* An executor is set to a task that has read nothing yet.
LEMMA FreshTask ==
    ASSUME IInv, Rowwise, missed \subseteq missed', NEW x \in Execs, NEW t, Become(x, t),
           t.pc \in {"idle", "begin"}, t.rows = {}
    PROVE  Rowwise'
BY DEF Become, Rowwise, IInv, TypeOK

LEMMA MemoryStays ==
    ASSUME MemoryInv, missed \subseteq missed', UNCHANGED memory
    PROVE  MemoryInv'
<1>1. IInv'
  BY OutsideInv DEF MemoryInv, memory, vars
<1> QED BY <1>1 DEF MemoryInv, Rowwise, memory

LEMMA MemoryAppend ==
    ASSUME MemoryInv, missed \subseteq missed', NEW s \in Sessions, NEW e \in Events, AppendEvent(s, e)
    PROVE  MemoryInv'
<1>1. IInv'
  BY OutsideInv DEF MemoryInv
<1> QED BY <1>1 DEF MemoryInv, Rowwise, AppendEvent

LEMMA MemorySubmit ==
    ASSUME MemoryInv, missed \subseteq missed', NEW p \in Callers, NEW s \in Sessions, AddSession(p, s)
    PROVE  MemoryInv'
<1>1. IInv'
  BY RequestInv DEF MemoryInv, Request
<1>2. CASE task' = task
  BY <1>1, <1>2 DEF MemoryInv, Rowwise
<1>3. CASE task' # task
  <2>1. PICK c : Become(p, [Idle EXCEPT !.pc = "begin", !.call = c])
    BY <1>3 DEF AddSession, Submit
  <2> DEFINE t == [Idle EXCEPT !.pc = "begin", !.call = c]
  <2>2. t.pc = "begin" /\ t.rows = {}
    BY DEF Idle
  <2> HIDE DEF t
  <2>3. Rowwise'
    BY <2>1, <2>2, CallersApart, FreshTask DEF MemoryInv, t
  <2> QED BY <1>1, <2>3 DEF MemoryInv
<1> QED BY <1>2, <1>3

\* The session is emptied.
LEMMA MemoryRemove ==
    ASSUME MemoryInv, missed \subseteq missed', NEW s \in Sessions, log' = [log EXCEPT ![s] = {}],
           UNCHANGED <<used, table, queue, task, found, calls, wish>>
    PROVE  MemoryInv'
<1>1. RowsFresh' /\ EmbeddingFresh'
  BY QuietTasks DEF MemoryInv
<1>2. TypeOK'
  BY DEF MemoryInv, IInv, TypeOK, table
<1> QED BY <1>1, <1>2 DEF MemoryInv, IInv, Rowwise

\* An executor drops its call.
LEMMA MemoryIdle ==
    ASSUME MemoryInv, missed \subseteq missed', NEW x \in Execs, Become(x, Idle),
           UNCHANGED <<sessions, table, queue, found, calls, wish>>
    PROVE  MemoryInv'
<1>1. /\ task' \in [Execs -> Task]
      /\ \A y \in Execs : \/ task'[y] = task[y]
                          \/ task'[y].rows = {} /\ task'[y].todo = {}
  BY IdleInv DEF MemoryInv
<1>2. /\ RowsFresh' /\ EmbeddingFresh'
      /\ \A e \in Silent : ~Stored(e)' /\ \A y \in Execs : e \notin task'[y].todo
  BY <1>1, QuietTasks DEF MemoryInv
<1>3. IInv'
  BY <1>1, <1>2 DEF MemoryInv, IInv, TypeOK, sessions, table
<1>4. Idle.pc = "idle" /\ Idle.rows = {}
  BY DEF Idle
<1>5. Rowwise'
  BY <1>4, FreshTask DEF MemoryInv
<1> QED BY <1>3, <1>5 DEF MemoryInv

LEMMA MemoryDies ==
    ASSUME MemoryInv, Dies
    PROVE  MemoryInv'
<1>1. /\ queue' = <<>> /\ task' = [x \in Execs |-> Idle]
      /\ UNCHANGED <<sessions, table, found, calls, wish>>
  BY DEF Dies
<1>2. queue' \in Seq(Call)
  BY <1>1
<1>3. /\ task' \in [Execs -> Task]
      /\ \A x \in Execs : task'[x].rows = {} /\ task'[x].todo = {}
                          /\ task'[x].pc = "idle"
  BY <1>1, CallTypes DEF Idle
<1>4. /\ RowsFresh' /\ EmbeddingFresh'
      /\ \A e \in Silent : ~Stored(e)' /\ \A x \in Execs : e \notin task'[x].todo
  BY <1>1, <1>3, QuietTasks DEF MemoryInv
<1>5. IInv'
  BY <1>1, <1>2, <1>3, <1>4 DEF MemoryInv, IInv, TypeOK, sessions, table
<1> QED BY <1>3, <1>5 DEF MemoryInv, Rowwise

\* The executors of calls.
Works(x) == BeginAdd(x) \/ (\E e \in Events : AddRow(x, e)) \/ Commit(x)

\* A call that is begun has read all the events of its session, or those it
\* was made with, and those without text make no rows.
LEMMA BegunAdd ==
    ASSUME MemoryInv, UNCHANGED missed, NEW x \in Execs, BeginAdd(x)
    PROVE  /\ Rowwise'
           /\ \A y \in Execs \ {x} : task'[y] = task[y]
           /\ UNCHANGED <<log, used, text, queue>>
           /\ task[x].pc = "begin"
           /\ \A s \in Sessions : \A e \in log[s] \ Silent :
                 Covers(task[x].call, s, e) =>
                     /\ task'[x].pc = "rows" /\ e \in task'[x].seen
                     /\ task'[x].call = task[x].call
<1> DEFINE c == task[x].call
<1>1. /\ task[x] \in Task /\ task[x].pc = "begin" /\ task[x].rows = {}
      /\ UNCHANGED <<log, used, text, queue>>
  BY DEF MemoryInv, IInv, TypeOK, Rowwise, BeginAdd, sessions, table
<1>2. \A t : Become(x, t) => /\ task'[x] = t
                             /\ \A y \in Execs \ {x} : task'[y] = task[y]
  BY DEF Become, MemoryInv, IInv, TypeOK
<1>3. CASE c.cached = {}
  <2>1. Become(x, Idle)
    BY <1>3 DEF BeginAdd
  <2>2. Idle.pc = "idle" /\ Idle.rows = {}
    BY DEF Idle
  <2>3. Rowwise'
    BY <2>1, <2>2, FreshTask DEF MemoryInv
  <2> QED BY <1>1, <1>2, <1>3, <2>1, <2>3 DEF Covers
<1>4. CASE c.cached # {}
  <2>1. PICK E \in {IF c.kind = "add" THEN log[c.sid] ELSE c.cached}
                     \cup (IF Faulty THEN {c.cached} ELSE {}) :
           Become(x, [task[x] EXCEPT !.pc = "rows", !.seen = E \ Silent,
                                     !.todo = E \ Silent])
    BY <1>4 DEF BeginAdd
  <2> DEFINE t == [task[x] EXCEPT !.pc = "rows", !.seen = E \ Silent,
                                  !.todo = E \ Silent]
  <2>2. /\ t.pc = "rows" /\ t.seen = E \ Silent /\ t.todo = E \ Silent
        /\ t.rows = {} /\ t.call = c
    BY <1>1 DEF Task
  <2>3. task'[x] = t /\ \A y \in Execs \ {x} : task'[y] = task[y]
    BY <1>2, <2>1
  <2> HIDE DEF t
  <2>4. Rowwise'
    BY <2>2, <2>3 DEF MemoryInv, Rowwise
  <2>5. ASSUME NEW s \in Sessions, NEW e \in log[s] \ Silent, Covers(c, s, e)
        PROVE  e \in E \ Silent
    BY <2>1, <2>5 DEF Covers
  <2> QED BY <1>1, <2>2, <2>3, <2>4, <2>5
<1> QED BY <1>3, <1>4

LEMMA RowAdded ==
    ASSUME MemoryInv, UNCHANGED missed, NEW x \in Execs, NEW e \in Events, AddRow(x, e)
    PROVE  /\ Rowwise'
           /\ \A y \in Execs \ {x} : task'[y] = task[y]
           /\ UNCHANGED <<log, used, text, queue>>
           /\ task[x].pc = "rows" /\ task'[x].pc = "rows"
           /\ task'[x].seen = task[x].seen /\ task'[x].call = task[x].call
<1>1. PICK v : Become(x, [task[x] EXCEPT !.todo = @ \ {e},
                             !.rows = @ \cup {[evt |-> e, emb |-> v]}])
  BY DEF AddRow
<1> DEFINE t == [task[x] EXCEPT !.todo = @ \ {e},
                                !.rows = @ \cup {[evt |-> e, emb |-> v]}]
           R == task[x].rows
           new == [evt |-> e, emb |-> v]
<1>2. /\ task[x] \in Task /\ task[x].pc = "rows" /\ e \in task[x].todo
      /\ UNCHANGED <<log, used, text, queue>>
      /\ \/ {r.evt : r \in R} \cup task[x].todo = task[x].seen
         \/ task[x].call.cached \subseteq missed
  BY DEF AddRow, MemoryInv, IInv, TypeOK, Rowwise, sessions, table
<1>3. /\ t.pc = "rows" /\ t.seen = task[x].seen /\ t.call = task[x].call
      /\ t.todo = task[x].todo \ {e}
      /\ t.rows = R \cup {new} /\ new.evt = e
  BY <1>2 DEF Task
<1>4. task'[x] = t /\ \A y \in Execs \ {x} : task'[y] = task[y]
  BY <1>1 DEF Become, MemoryInv, IInv, TypeOK
<1> HIDE DEF t, R, new
<1>5. \/ {r.evt : r \in t.rows} \cup t.todo = t.seen
      \/ t.call.cached \subseteq missed
  <2>1. {r.evt : r \in R \cup {new}} = {r.evt : r \in R} \cup {new.evt}
    OBVIOUS
  <2> QED BY <1>2, <1>3, <2>1
<1>6. Rowwise'
  BY <1>3, <1>4, <1>5 DEF MemoryInv, Rowwise
<1> QED BY <1>2, <1>3, <1>4, <1>6

LEMMA Committed ==
    ASSUME MemoryInv, UNCHANGED missed, NEW x \in Execs, Commit(x)
    PROVE  /\ Rowwise'
           /\ \A y \in Execs \ {x} : task'[y] = task[y]
           /\ task'[x] = Idle
           /\ UNCHANGED <<log, used, queue>>
           /\ \A e \in Events : Stored(e) => Stored(e)'
           /\ task[x].pc = "rows"
           /\ \/ \A e \in task[x].seen : Stored(e)'
              \/ task[x].call.cached \subseteq missed
<1> DEFINE R == IF Aborted(x) THEN {} ELSE task[x].rows
<1>1. /\ task[x].pc = "rows" /\ task[x].todo = {} /\ Become(x, Idle)
      /\ UNCHANGED <<log, used, queue>>
      /\ text' = [e \in Events |-> IF e \in {r.evt : r \in R} THEN e ELSE text[e]]
      /\ task[x].seen \subseteq Events
  BY DEF Commit, Upsert, sessions, MemoryInv, IInv, TypeOK, Task
<1>2. \/ {r.evt : r \in R} = task[x].seen
      \/ task[x].call.cached \subseteq missed
  BY <1>1 DEF Aborted, Written, MemoryInv, Rowwise
<1> HIDE DEF R
<1>3. /\ \A e \in Events : Stored(e) => Stored(e)'
      /\ \/ \A e \in task[x].seen : Stored(e)'
         \/ task[x].call.cached \subseteq missed
  BY <1>1, <1>2, TextAssumption
<1>4. Idle.pc = "idle" /\ Idle.rows = {}
  BY DEF Idle
<1>5. task'[x] = Idle /\ \A y \in Execs \ {x} : task'[y] = task[y]
  BY <1>1 DEF Become, MemoryInv, IInv, TypeOK
<1> QED BY <1>1, <1>3, <1>4, <1>5, FreshTask DEF MemoryInv

LEMMA Received ==
    ASSUME MemoryInv, UNCHANGED missed, Receive
    PROVE  /\ Rowwise'
           /\ \A p \in Callers : task'[p] = task[p]
           /\ UNCHANGED <<log, used, text>>
           /\ task[Worker].pc = "idle" /\ task'[Worker].pc = "begin"
           /\ queue # <<>> /\ queue \in Seq(Call)
           /\ task'[Worker].call = Head(queue) /\ queue' = Tail(queue)
<1> DEFINE t == [Idle EXCEPT !.pc = "begin", !.call = Head(queue)]
<1>1. /\ Become(Worker, t) /\ UNCHANGED <<log, used, text>>
      /\ task[Worker].pc = "idle" /\ queue # <<>> /\ queue' = Tail(queue)
      /\ queue \in Seq(Call)
  BY DEF Receive, sessions, table, MemoryInv, IInv, TypeOK
<1>2. t.pc = "begin" /\ t.rows = {} /\ t.call = Head(queue)
  BY DEF Idle
<1> HIDE DEF t
<1>3. task'[Worker] = t /\ \A p \in Callers : task'[p] = task[p]
  BY <1>1, CallersApart DEF Become, MemoryInv, IInv, TypeOK
<1>4. Rowwise'
  BY <1>1, <1>2, CallersApart, FreshTask DEF MemoryInv
<1> QED BY <1>1, <1>2, <1>3, <1>4

LEMMA MemoryWorks ==
    ASSUME MemoryInv, UNCHANGED missed, Receive \/ \E x \in Execs : Works(x)
    PROVE  MemoryInv'
<1>1. IInv'
  BY ReceiveInv, BeginAddInv, AddRowInv, CommitInv DEF MemoryInv, Works
<1>2. Rowwise'
  BY Received, BegunAdd, RowAdded, Committed DEF Works
<1> QED BY <1>1, <1>2 DEF MemoryInv

\* A call fails, and its events are told to be lost.
Stumbles(x) ==
    /\ ExecFails(x) \/ \E e \in Events : RowFails(x, e)
    /\ missed' = missed \cup task[x].call.cached

LEMMA Stumbled ==
    ASSUME MemoryInv, NEW x \in Execs, Stumbles(x)
    PROVE  /\ MemoryInv'
           /\ \A y \in Execs \ {x} : task'[y] = task[y]
           /\ UNCHANGED <<log, used, text, queue>>
           /\ task[x].pc # "idle"
<1>1. IInv'
  BY TroubleInv DEF Stumbles, Trouble, MemoryInv
<1>2. /\ UNCHANGED <<log, used, text, queue>> /\ task[x].pc # "idle"
      /\ missed' = missed \cup task[x].call.cached
      /\ task \in [Execs -> Task]
  BY DEF Stumbles, ExecFails, RowFails, sessions, table, MemoryInv, IInv, TypeOK
<1>3. CASE ExecFails(x)
  <2>1. Become(x, Idle) /\ Idle.pc = "idle" /\ Idle.rows = {}
    BY <1>3 DEF ExecFails, Idle
  <2>2. Rowwise'
    BY <1>2, <2>1, FreshTask DEF MemoryInv
  <2> QED BY <1>1, <1>2, <2>1, <2>2 DEF MemoryInv, Become
<1>4. CASE \E e \in Events : RowFails(x, e)
  <2>1. PICK e \in Events : /\ Become(x, [task[x] EXCEPT !.todo = @ \ {e}])
                            /\ task[x].pc = "rows"
    BY <1>4 DEF RowFails
  <2> PICK t : t = [task[x] EXCEPT !.todo = @ \ {e}]
    OBVIOUS
  <2>2. t.pc = "rows" /\ t.call = task[x].call
    BY <1>2, <2>1 DEF Task
  <2>3. task'[x] = t /\ \A y \in Execs \ {x} : task'[y] = task[y]
    BY <1>2, <2>1 DEF Become
  <2>4. Rowwise'
    BY <1>2, <2>2, <2>3 DEF MemoryInv, Rowwise
  <2> QED BY <1>1, <1>2, <2>3, <2>4 DEF MemoryInv
<1> QED BY <1>3, <1>4 DEF Stumbles

-----------------------------------------------------------------------------
(* An event on its way to the table does not get lost. *)

\* It is the same for every step of the service: an event of a session still
\* there that is on its way, in the channel or with the worker or with the
\* caller q, stays so, or is stored.
LEMMA SafeWorks ==
    ASSUME MemoryInv,
           \/ UNCHANGED missed /\ (Receive \/ \E x \in Execs : Works(x))
           \/ \E x \in Execs : Stumbles(x),
           NEW s \in Sessions, NEW e \in log[s] \ Silent, e \in Events
    PROVE  /\ Safe(s, e) => Safe(s, e)'
           /\ \A q \in Callers : InWork(q, s, e) =>
                 (Stored(e) \/ e \in missed \/ InWork(q, s, e))'
<1>1. CASE UNCHANGED missed /\ Receive
  <2>1. /\ UNCHANGED text /\ task[Worker].pc = "idle"
        /\ queue # <<>> /\ queue \in Seq(Call)
        /\ task'[Worker].pc = "begin"
        /\ task'[Worker].call = Head(queue) /\ queue' = Tail(queue)
        /\ \A p \in Callers : task'[p] = task[p]
    BY <1>1, Received
  <2>2. ASSUME Waits(s, e)
        PROVE  (Waits(s, e) \/ InWork(Worker, s, e))'
    <3>1. PICK i \in 1 .. Len(queue) : Covers(queue[i], s, e)
      BY <2>2 DEF Waits
    <3>2. CASE i = 1
      <4>1. Head(queue) = queue[1]
        BY <2>1
      <4> QED BY <2>1, <3>1, <3>2, <4>1 DEF InWork
    <3>3. CASE i # 1
      <4>1. i - 1 \in 1 .. Len(queue') /\ queue'[i - 1] = queue[i]
        BY <2>1, <3>3
      <4> QED BY <3>1, <4>1 DEF Waits
    <3> QED BY <3>2, <3>3
  <2> QED BY <1>1, <2>1, <2>2 DEF Safe, InWork
<1>2. ASSUME NEW x \in Execs, (UNCHANGED missed /\ Works(x)) \/ Stumbles(x)
      PROVE  /\ queue' = queue
             /\ Stored(e) => Stored(e)'
             /\ missed \subseteq missed'
             /\ \A y \in Execs : InWork(y, s, e) =>
                   (Stored(e) \/ e \in missed \/ InWork(y, s, e))'
  <2>1. CASE UNCHANGED missed /\ BeginAdd(x)
    <3>1. /\ \A y \in Execs \ {x} : task'[y] = task[y]
          /\ UNCHANGED <<text, queue>>
          /\ task[x].pc = "begin"
          /\ Covers(task[x].call, s, e) =>
                 /\ task'[x].pc = "rows" /\ e \in task'[x].seen
                 /\ task'[x].call = task[x].call
      BY <2>1, BegunAdd
    <3>2. InWork(x, s, e) => InWork(x, s, e)'
      BY <3>1 DEF InWork
    <3>3. \A y \in Execs \ {x} : InWork(y, s, e) => InWork(y, s, e)'
      BY <3>1 DEF InWork
    <3> QED BY <2>1, <3>1, <3>2, <3>3
  <2>2. CASE UNCHANGED missed /\ \E d \in Events : AddRow(x, d)
    BY <2>2, RowAdded DEF InWork
  <2>3. CASE UNCHANGED missed /\ Commit(x)
    BY <2>3, Committed DEF InWork, Covers
  <2>4. CASE Stumbles(x)
    <3>1. InWork(x, s, e) => e \in missed'
      BY <2>4 DEF Stumbles, InWork, Covers
    <3>2. \A y \in Execs \ {x} : InWork(y, s, e) => InWork(y, s, e)'
      BY <2>4, Stumbled DEF InWork
    <3>3. queue' = queue /\ text' = text /\ missed \subseteq missed'
      BY <2>4, Stumbled DEF Stumbles
    <3> QED BY <3>1, <3>2, <3>3
  <2> QED BY <1>2, <2>1, <2>2, <2>3, <2>4 DEF Works
<1> QED BY <1>1, <1>2, CallersApart DEF Safe, Waits

\* A step of the sessions: none is new again, or as if it had never ended, and
\* one that stays keeps its events.
Grows ==
    \A s \in Sessions :
        /\ life'[s] = "new" => life[s] = "new"
        /\ life'[s] = "live" => life[s] \in {"new", "live"} /\ log[s] \subseteq log'[s]

\* A step that leaves on its way what is on its way, but for what p carries.
Onward(p) ==
    \A s \in Sessions : life'[s] = "live" =>
        \A e \in log[s] \ Silent :
            /\ Safe(s, e) => Safe(s, e)'
            /\ \A q \in Callers \ {p} : InWork(q, s, e) => InWork(q, s, e)'

LEMMA OnwardSame ==
    ASSUME NEW p \in Callers, UNCHANGED <<text, queue, task>>, missed \subseteq missed'
    PROVE  Onward(p)
BY DEF Onward, Safe, Waits, InWork

LEMMA OnwardIdle ==
    ASSUME MemoryInv, NEW p \in Callers, Become(p, Idle),
           UNCHANGED <<text, queue, missed>>
    PROVE  Onward(p)
<1>1. \A x \in Execs \ {p} : task'[x] = task[x]
  BY DEF MemoryInv, IInv, TypeOK, Become
<1> QED BY <1>1, CallersApart DEF Onward, Safe, Waits, InWork

\* What AddSession is called with is in the channel or with its caller.
LEMMA OnwardSubmit ==
    ASSUME MemoryInv, NEW p \in Callers, NEW s \in Sessions, AddSession(p, s),
           UNCHANGED missed
    PROVE  /\ Onward(p)
           /\ \A q \in Callers \ {p} : task'[q] = task[q]
           /\ UNCHANGED <<log, used, text>>
           /\ \A e \in log[s] : (Safe(s, e) \/ InWork(p, s, e))'
<1> DEFINE c == [NoCall EXCEPT !.kind = "add", !.sid = s, !.cached = log[s]]
           t == [Idle EXCEPT !.pc = "begin", !.call = c]
<1>1. /\ \A e \in log[s] : Covers(c, s, e)
      /\ t.pc = "begin" /\ t.call = c
  BY DEF Covers, NoCall, Idle
<1>2. /\ UNCHANGED <<log, used, text>>
      /\ \/ queue' = Append(queue, c) /\ UNCHANGED task
         \/ Become(p, t) /\ UNCHANGED queue
  BY DEF AddSession, Submit, sessions, table
<1> HIDE DEF c, t
<1>3. queue \in Seq(Call)
  BY DEF MemoryInv, IInv, TypeOK
<1>4. CASE queue' = Append(queue, c) /\ UNCHANGED task
  <2>1. /\ Len(queue') = Len(queue) + 1 /\ queue'[Len(queue) + 1] = c
        /\ \A i \in 1 .. Len(queue) : queue'[i] = queue[i] /\ i \in 1 .. Len(queue')
        /\ Len(queue) + 1 \in 1 .. Len(queue')
    BY <1>3, <1>4
  <2>2. \A r \in Sessions, e \in Events : Waits(r, e) => Waits(r, e)'
    BY <2>1 DEF Waits, Covers
  <2>3. \A e \in log[s] : Waits(s, e)'
    BY <1>1, <2>1 DEF Waits, Covers
  <2>4. \A r \in Sessions : log[r] \subseteq Events
    BY DEF MemoryInv, IInv, TypeOK
  <2> QED BY <1>2, <1>4, <2>2, <2>3, <2>4 DEF Onward, Safe, InWork
<1>5. CASE Become(p, t) /\ UNCHANGED queue
  <2>1. /\ \A x \in Execs \ {p} : task'[x] = task[x]
        /\ task'[p] = t
    BY <1>5, CallersApart DEF Become, MemoryInv, IInv, TypeOK
  <2>2. Onward(p)
    BY <1>2, <1>5, <2>1, CallersApart DEF Onward, Safe, Waits, InWork
  <2>3. \A e \in log[s] : InWork(p, s, e)'
    BY <1>1, <2>1 DEF InWork, Covers
  <2> QED BY <1>2, <2>1, <2>2, <2>3, CallersApart
<1> QED BY <1>2, <1>4, <1>5

-----------------------------------------------------------------------------
(* A step of one request. *)

LEMMA RequestStep ==
    ASSUME ServiceInv, NEW p \in Callers, NEW r \in RequestType, Handles(p, r),
           RequestTypes', Histories', Grows,
           \A q \in Callers \ {p} : task'[q] = task[q],
           At(p, "idle")' \/ r.pc = "reply",
           Appends(r),
           r.pc # "none" => /\ r.sid \in Sessions /\ life'[r.sid] # "new"
                            /\ life'[r.sid] = "live" => Pushed(r) \subseteq log'[r.sid]
    PROVE  ServiceInv'
<1>1. req' = [req EXCEPT ![p] = r] /\ req'[p] = r
      /\ \A q \in Callers \ {p} : req'[q] = req[q]
  BY DEF Handles, ServiceInv, RequestTypes
<1>2. \A q \in Callers : (~At(q, "idle") => On(q, "reply"))'
  BY <1>1 DEF ServiceInv
<1>3. Underway(p)'
  BY <1>1 DEF Underway, Pushed, Appends
<1>4. ASSUME NEW q \in Callers \ {p} PROVE Underway(q)'
  <2>1. /\ req'[q] = req[q] /\ Underway(q)
        /\ Pushed(req'[q]) = Pushed(req[q]) /\ Appends(req'[q])
    BY <1>1, <1>4 DEF ServiceInv, Underway
  <2> QED BY <2>1 DEF ServiceInv, RequestTypes, Underway, Grows, Pushed, Appends
<1> QED BY <1>2, <1>3, <1>4 DEF ServiceInv

LEMMA HistoryStays ==
    ASSUME ServiceInv, Grows, UNCHANGED <<created, answered>>
    PROVE  Histories'
BY DEF ServiceInv, RequestTypes, Histories, Grows

LEMMA KeepStep ==
    ASSUME MemoryInv, ServiceInv, KeepInv,
           NEW p \in Callers, NEW r \in RequestType, Handles(p, r),
           Grows, Onward(p), gone \ {p} \subseteq gone',
           \A s \in Sessions : life'[s] = "live" =>
               \A e \in answered'[s] : e \in answered[s] \/ Safe(s, e)',
           r.pc = "reply" /\ p \notin gone' /\ life'[r.sid] = "live" =>
               \A e \in r.evts \ Silent : (Safe(r.sid, e) \/ InWork(p, r.sid, e))'
    PROVE  KeepInv'
<1>1. req'[p] = r /\ \A q \in Callers \ {p} : req'[q] = req[q]
  BY DEF Handles, ServiceInv, RequestTypes
<1>2. ASSUME NEW s \in Sessions, life'[s] = "live", NEW e \in answered'[s]
      PROVE  Safe(s, e)'
  <2>1. CASE e \in answered[s]
    <3>1. life[s] = "live"
      BY <1>2, <2>1 DEF Grows, ServiceInv, Histories, RequestTypes
    <3>2. e \in log[s] \ Silent /\ Safe(s, e)
      BY <2>1, <3>1 DEF ServiceInv, Histories, KeepInv
    <3> QED BY <1>2, <3>2 DEF Onward
  <2> QED BY <1>2, <2>1
<1>3. ASSUME NEW q \in Callers \ {p}, On(q, "reply")', q \notin gone',
             NEW s, s = req'[q].sid, life'[s] = "live",
             NEW e \in req'[q].evts \ Silent
      PROVE  (Safe(s, e) \/ InWork(q, s, e))'
  <2>1. s \in Sessions /\ life[s] # "new"
        /\ (life[s] = "live" => req[q].evts \subseteq log[s])
    BY <1>1, <1>3 DEF ServiceInv, Underway, Pushed
  <2>2. life[s] = "live"
    BY <1>3, <2>1 DEF Grows, ServiceInv, RequestTypes
  <2>3. On(q, "reply") /\ q \notin gone /\ s = req[q].sid
        /\ e \in req[q].evts \ Silent
    BY <1>1, <1>3
  <2>4. Safe(s, e) \/ InWork(q, s, e)
    BY <2>2, <2>3 DEF KeepInv
  <2> QED BY <1>3, <2>1, <2>2, <2>3, <2>4 DEF Onward
<1> QED BY <1>1, <1>2, <1>3 DEF KeepInv, Safe, Waits, InWork, Covers

\* An event that occurs is a new one, and one more in its session.
LEMMA Occurred ==
    ASSUME MemoryInv, UNCHANGED missed, NEW s \in Sessions, Occurs(s)
    PROVE  /\ NewEvent \in Events /\ NewEvent \in log'[s]
           /\ MemoryInv'
           /\ \A r \in Sessions : log[r] \subseteq log'[r]
           /\ UNCHANGED <<text, queue, task>>
<1>1. NewEvent \in Events /\ AppendEvent(s, NewEvent)
  BY DEF Occurs, NewEvent, MemoryInv, IInv, TypeOK
<1> DEFINE e == NewEvent
<1> HIDE DEF e
<1>2. MemoryInv'
  BY <1>1, MemoryAppend
<1>3. /\ e \in log'[s] /\ \A r \in Sessions : log[r] \subseteq log'[r]
      /\ UNCHANGED <<text, queue, task>>
  BY <1>1 DEF AppendEvent, table, MemoryInv, IInv, TypeOK, e
<1> QED BY <1>1, <1>2, <1>3 DEF e

\* A step of a request that creates or runs: the memory service is not asked,
\* sessions only grow or come back, and no answer is given.
LEMMA PlainStep ==
    ASSUME MemoryInv, ServiceInv, KeepInv,
           NEW p \in Callers, NEW r \in RequestType, Handles(p, r), Grows,
           UNCHANGED <<text, queue, task, served, created, answered>>,
           life' \in [Sessions -> {"new", "live", "gone", "revived"}],
           \A s \in Sessions : life'[s] = "new" <=> life[s] = "new",
           missed \subseteq missed', missed' \subseteq Events,
           archiving' \in BOOLEAN, gone \ {p} \subseteq gone', gone' \subseteq Callers,
           ~On(p, "none"), ~On(p, "reply"), Appends(r),
           r.pc # "none" => /\ r.sid = Sid(p)
                            /\ life'[Sid(p)] = "live" => Pushed(r) \subseteq log'[Sid(p)],
           r.pc = "reply" => \/ p \in gone' \/ life'[Sid(p)] # "live"
                             \/ r.evts \subseteq missed'
    PROVE  ServiceInv' /\ KeepInv'
<1>1. Histories'
  BY HistoryStays
<1>2. RequestTypes'
  BY DEF ServiceInv, RequestTypes, Handles
<1>3. At(p, "idle")'
  BY DEF ServiceInv
<1>4. Sid(p) \in Sessions /\ life'[Sid(p)] # "new"
  BY DEF ServiceInv, Underway
<1>5. ServiceInv'
  BY <1>1, <1>2, <1>3, <1>4, RequestStep
<1>6. Onward(p)
  BY OnwardSame
<1>7. \A s \in Sessions : answered'[s] = answered[s]
  OBVIOUS
<1>8. r.pc = "reply" /\ p \notin gone' /\ life'[r.sid] = "live" =>
         \A e \in r.evts \ Silent : Safe(r.sid, e)'
  BY DEF Safe
<1>9. KeepInv'
  BY <1>6, <1>7, <1>8, KeepStep
<1> QED BY <1>5, <1>9

\* What is known of a request that creates or runs.
LEMMA Known ==
    ASSUME ServiceInv, NEW p \in Callers, ~On(p, "none")
    PROVE  /\ Sid(p) \in Sessions /\ req[p] \in RequestType /\ Appends(req[p])
           /\ life[Sid(p)] # "new" /\ life[Sid(p)] \in {"live", "gone", "revived"}
           /\ life[Sid(p)] = "live" => Pushed(req[p]) \subseteq log[Sid(p)]
BY DEF ServiceInv, RequestTypes, Underway

\* RPUSH.
LEMMA PushStep ==
    ASSUME MemoryInv, ServiceInv, KeepInv, NEW p \in Callers, Push(p)
    PROVE  MemoryInv' /\ ServiceInv' /\ KeepInv'
<1>1. /\ On(p, "run") \/ (On(p, "create") /\ req[p].todo > 0)
      /\ req[p].step = "none" /\ Occurs(Sid(p))
      /\ Handles(p, [req[p] EXCEPT !.step = "get", !.evt = NewEvent])
      /\ UNCHANGED <<life, gone, archiving, served, created, answered, missed>>
  BY DEF Push, Appending, told
<1>2. /\ Sid(p) \in Sessions /\ req[p] \in RequestType
      /\ life[Sid(p)] = "live" => Pushed(req[p]) \subseteq log[Sid(p)]
  BY <1>1, Known
<1>3. /\ NewEvent \in Events /\ NewEvent \in log'[Sid(p)]
      /\ MemoryInv' /\ UNCHANGED <<text, queue, task>>
      /\ \A s \in Sessions : log[s] \subseteq log'[s]
  BY <1>1, <1>2, Occurred
<1> PICK e \in Events : e = NewEvent
  BY <1>3
<1> PICK r : r = [req[p] EXCEPT !.step = "get", !.evt = e]
  OBVIOUS
<1>4. /\ r \in RequestType /\ r.pc = req[p].pc /\ r.sid = Sid(p)
      /\ r.step = "get" /\ r.evt = e /\ r.evts = req[p].evts
      /\ r.todo = req[p].todo
  BY <1>2 DEF RequestType
<1>5. Appends(r) /\ Pushed(r) = Pushed(req[p]) \cup {e}
  <2>1. Pushed(req[p]) = req[p].evts /\ Pushed(r) = req[p].evts \cup {e}
    BY <1>1, <1>4 DEF Pushed
  <2>2. Appends(r)
    BY <1>1, <1>4 DEF Appends
  <2> QED BY <2>1, <2>2
<1>6. Grows
  BY <1>1, <1>3 DEF Grows, ServiceInv, RequestTypes
<1>7. /\ life' \in [Sessions -> {"new", "live", "gone", "revived"}]
      /\ missed \subseteq missed' /\ missed' \subseteq Events
      /\ gone \ {p} \subseteq gone' /\ gone' \subseteq Callers /\ archiving' \in BOOLEAN
  BY <1>1 DEF ServiceInv, RequestTypes
<1>8. Handles(p, r) /\ r.pc # "reply"
  BY <1>1, <1>4
<1>9. life'[Sid(p)] = "live" => Pushed(r) \subseteq log'[Sid(p)]
  BY <1>1, <1>2, <1>3, <1>5
<1> QED BY <1>1, <1>3, <1>4, <1>5, <1>6, <1>7, <1>8, <1>9, PlainStep

\* GET.
LEMMA FindStep ==
    ASSUME MemoryInv, ServiceInv, KeepInv, NEW p \in Callers, Find(p)
    PROVE  MemoryInv' /\ ServiceInv' /\ KeepInv'
<1>1. /\ req[p].step = "get" /\ UNCHANGED memory
      /\ Handles(p, [req[p] EXCEPT !.step = "set"])
      /\ UNCHANGED <<life, gone, archiving, served, created, answered, missed>>
  BY DEF Find, told
<1>2. On(p, "run") \/ On(p, "create")
  BY <1>1 DEF ServiceInv, Underway, Appends
<1>3. /\ Sid(p) \in Sessions /\ req[p] \in RequestType /\ Appends(req[p])
      /\ life[Sid(p)] = "live" => Pushed(req[p]) \subseteq log[Sid(p)]
  BY <1>2, Known
<1>4. MemoryInv' /\ UNCHANGED <<text, queue, task, log>>
  BY <1>1, MemoryStays DEF memory, told
<1> PICK r : r = [req[p] EXCEPT !.step = "set"]
  OBVIOUS
<1>5. /\ r \in RequestType /\ r.pc = req[p].pc /\ r.sid = Sid(p)
      /\ r.step = "set" /\ r.evt = req[p].evt /\ r.evts = req[p].evts
  BY <1>3 DEF RequestType
<1>6. Appends(r) /\ Pushed(r) = Pushed(req[p])
  BY <1>1, <1>3, <1>5 DEF Appends, Pushed
<1>7. Grows
  BY <1>1, <1>4 DEF Grows, ServiceInv, RequestTypes
<1>8. /\ life' \in [Sessions -> {"new", "live", "gone", "revived"}]
      /\ missed \subseteq missed' /\ missed' \subseteq Events
      /\ gone \ {p} \subseteq gone' /\ gone' \subseteq Callers /\ archiving' \in BOOLEAN
  BY <1>1 DEF ServiceInv, RequestTypes
<1>9. Handles(p, r) /\ r.pc # "reply"
  BY <1>1, <1>2, <1>5
<1>10. life'[Sid(p)] = "live" => Pushed(r) \subseteq log'[Sid(p)]
  BY <1>1, <1>3, <1>4, <1>6
<1> QED BY <1>1, <1>2, <1>4, <1>5, <1>6, <1>7, <1>8, <1>9, <1>10, PlainStep

\* SET brings a session back only when it had been there before.
LEMMA Restored ==
    ASSUME ServiceInv, NEW s \in Sessions, Restore(s) \/ UNCHANGED life,
           \A q \in Sessions : log[q] \subseteq log'[q]
    PROVE  /\ Grows
           /\ life' \in [Sessions -> {"new", "live", "gone", "revived"}]
           /\ \A q \in Sessions : /\ life'[q] = "new" <=> life[q] = "new"
                                  /\ life'[q] = "live" <=> life[q] = "live"
<1>1. life \in [Sessions -> {"new", "live", "gone", "revived"}]
  BY DEF ServiceInv, RequestTypes
<1>2. /\ life' \in [Sessions -> {"new", "live", "gone", "revived"}]
      /\ \A q \in Sessions : /\ life'[q] = "new" <=> life[q] = "new"
                             /\ life'[q] = "live" <=> life[q] = "live"
  BY <1>1 DEF Restore
<1> QED BY <1>2 DEF Grows

LEMMA StoreStep ==
    ASSUME MemoryInv, ServiceInv, KeepInv, NEW p \in Callers, Store(p)
    PROVE  MemoryInv' /\ ServiceInv' /\ KeepInv'
<1>1. /\ req[p].step = "set" /\ UNCHANGED memory
      /\ Handles(p, Appended(req[p])) /\ Restore(Sid(p)) /\ archiving' = TRUE
      /\ UNCHANGED <<gone, served, created, answered, missed>>
  BY DEF Store, told
<1>2. On(p, "run") \/ On(p, "create")
  BY <1>1 DEF ServiceInv, Underway, Appends
<1>3. /\ Sid(p) \in Sessions /\ req[p] \in RequestType /\ Appends(req[p])
      /\ life[Sid(p)] = "live" => Pushed(req[p]) \subseteq log[Sid(p)]
  BY <1>2, Known
<1>4. MemoryInv' /\ UNCHANGED <<text, queue, task, log>>
  BY <1>1, MemoryStays DEF memory, told
<1> PICK n : n = IF req[p].pc = "create" THEN req[p].todo - 1 ELSE req[p].todo
  OBVIOUS
<1> PICK E : E = req[p].evts \cup {req[p].evt}
  OBVIOUS
<1> PICK r : r = [req[p] EXCEPT !.step = "none", !.evt = NoEvent, !.evts = E, !.todo = n]
  OBVIOUS
<1>5. n \in Nat /\ E \in SUBSET Events
  <2>1. req[p].todo \in Nat /\ req[p].evts \in SUBSET Events
    BY <1>3 DEF RequestType
  <2> QED BY <1>1, <1>2, <1>3, <2>1 DEF Appends
<1>6. /\ r \in RequestType /\ r.pc = req[p].pc /\ r.sid = Sid(p)
      /\ r.step = "none" /\ r.evts = E
  BY <1>3, <1>5 DEF RequestType
<1>7. Handles(p, r) /\ r.pc # "reply"
  BY <1>1, <1>2, <1>6 DEF Appended
<1>8. Appends(r) /\ Pushed(r) = Pushed(req[p])
  BY <1>1, <1>6 DEF Appends, Pushed
<1>9. /\ Grows /\ life' \in [Sessions -> {"new", "live", "gone", "revived"}]
      /\ \A q \in Sessions : /\ life'[q] = "new" <=> life[q] = "new"
                             /\ life'[q] = "live" <=> life[q] = "live"
  BY <1>1, <1>3, <1>4, Restored
<1>10. /\ missed \subseteq missed' /\ missed' \subseteq Events
       /\ gone \ {p} \subseteq gone' /\ gone' \subseteq Callers /\ archiving' \in BOOLEAN
  BY <1>1 DEF ServiceInv, RequestTypes
<1>11. life'[Sid(p)] = "live" => Pushed(r) \subseteq log'[Sid(p)]
  BY <1>3, <1>4, <1>8, <1>9
<1> QED BY <1>1, <1>2, <1>4, <1>6, <1>7, <1>8, <1>9, <1>10, <1>11, PlainStep

\* When AppendEvent fails, the event may have been pushed, and the session stored.
LEMMA Failed ==
    ASSUME MemoryInv, ServiceInv, NEW p \in Callers, ~On(p, "none"),
           AppendFails(p) \/ UNCHANGED <<memory, life, archiving>>, UNCHANGED missed
    PROVE  /\ MemoryInv' /\ Grows
           /\ life' \in [Sessions -> {"new", "live", "gone", "revived"}]
           /\ \A q \in Sessions : /\ life'[q] = "new" <=> life[q] = "new"
                                  /\ life'[q] = "live" <=> life[q] = "live"
           /\ \A q \in Sessions : log[q] \subseteq log'[q]
           /\ UNCHANGED <<text, queue, task, archiving>>
<1>1. Sid(p) \in Sessions
  BY Known
<1>2. /\ Occurs(Sid(p)) \/ UNCHANGED memory
      /\ Restore(Sid(p)) \/ UNCHANGED life
      /\ UNCHANGED archiving
  BY DEF AppendFails
<1>3. /\ MemoryInv' /\ UNCHANGED <<text, queue, task>>
      /\ \A q \in Sessions : log[q] \subseteq log'[q]
  <2>1. CASE Occurs(Sid(p))
    BY <1>1, <2>1, Occurred
  <2>2. CASE UNCHANGED memory
    BY <2>2, MemoryStays DEF memory
  <2> QED BY <1>2, <2>1, <2>2
<1> QED BY <1>1, <1>2, <1>3, Restored

\* A request that ends without an answer the histories note.
LEMMA EndsStep ==
    ASSUME MemoryInv, ServiceInv, KeepInv, NEW p \in Callers,
           On(p, "create") \/ On(p, "run"),
           AppendFails(p) \/ UNCHANGED <<memory, life, archiving>>,
           Ends(p), UNCHANGED <<served, told>>
    PROVE  MemoryInv' /\ ServiceInv' /\ KeepInv'
<1>1. UNCHANGED <<served, created, answered, missed>>
  BY DEF told
<1>2. /\ MemoryInv' /\ Grows /\ UNCHANGED <<text, queue, task, archiving>>
      /\ life' \in [Sessions -> {"new", "live", "gone", "revived"}]
      /\ \A q \in Sessions : life'[q] = "new" <=> life[q] = "new"
  BY <1>1, Failed
<1>3. /\ NoRequest \in RequestType /\ NoRequest.pc = "none"
      /\ NoRequest.step = "none"
  BY DEF NoRequest, RequestType
<1>4. /\ Handles(p, NoRequest) /\ Appends(NoRequest)
      /\ missed \subseteq missed' /\ missed' \subseteq Events
      /\ gone \ {p} \subseteq gone' /\ gone' \subseteq Callers /\ archiving' \in BOOLEAN
  BY <1>1, <1>2, <1>3 DEF Ends, ServiceInv, RequestTypes, Appends
<1> QED BY <1>1, <1>2, <1>3, <1>4, PlainStep

\* A run that goes on, or has come to its end.
LEMMA RunGoes ==
    ASSUME MemoryInv, ServiceInv, KeepInv, NEW p \in Callers, On(p, "run"),
           AppendFails(p) \/ UNCHANGED <<memory, life, archiving>>,
           NEW pc \in {"run", "post"},
           Handles(p, [req[p] EXCEPT !.pc = pc, !.step = "none", !.evt = NoEvent]),
           UNCHANGED <<gone, served, told>>
    PROVE  MemoryInv' /\ ServiceInv' /\ KeepInv'
<1>1. UNCHANGED <<gone, served, created, answered, missed>>
  BY DEF told
<1>2. /\ MemoryInv' /\ Grows /\ UNCHANGED <<text, queue, task, archiving>>
      /\ life' \in [Sessions -> {"new", "live", "gone", "revived"}]
      /\ \A q \in Sessions : /\ life'[q] = "new" <=> life[q] = "new"
                             /\ life'[q] = "live" <=> life[q] = "live"
      /\ \A q \in Sessions : log[q] \subseteq log'[q]
  BY <1>1, Failed
<1>3. /\ Sid(p) \in Sessions /\ req[p] \in RequestType
      /\ life[Sid(p)] = "live" => Pushed(req[p]) \subseteq log[Sid(p)]
  BY Known
<1> PICK r : r = [req[p] EXCEPT !.pc = pc, !.step = "none", !.evt = NoEvent]
  OBVIOUS
<1>4. /\ r \in RequestType /\ r.pc = pc /\ r.sid = Sid(p)
      /\ r.step = "none" /\ r.evts = req[p].evts
  BY <1>3 DEF RequestType
<1>5. Appends(r) /\ Pushed(r) \subseteq Pushed(req[p])
  BY <1>4 DEF Appends, Pushed
<1>6. /\ Handles(p, r) /\ missed \subseteq missed' /\ missed' \subseteq Events
      /\ gone \ {p} \subseteq gone' /\ gone' \subseteq Callers /\ archiving' \in BOOLEAN
  BY <1>1, <1>2 DEF ServiceInv, RequestTypes
<1>7. life'[Sid(p)] = "live" => Pushed(r) \subseteq log'[Sid(p)]
  BY <1>2, <1>3, <1>5
<1> QED BY <1>1, <1>2, <1>3, <1>4, <1>5, <1>6, <1>7, PlainStep

LEMMA RunnerEndsStep ==
    ASSUME MemoryInv, ServiceInv, KeepInv, NEW p \in Callers, RunnerEnds(p)
    PROVE  MemoryInv' /\ ServiceInv' /\ KeepInv'
<1>1. /\ On(p, "run") /\ req[p].step = "none"
      /\ Handles(p, [req[p] EXCEPT !.pc = "post"])
      /\ UNCHANGED <<memory, life, archiving, gone, served, created, answered, missed>>
  BY DEF RunnerEnds, BetweenAppends, Goes, Handles, told
<1>2. /\ Sid(p) \in Sessions /\ req[p] \in RequestType
      /\ life[Sid(p)] = "live" => Pushed(req[p]) \subseteq log[Sid(p)]
  BY <1>1, Known
<1>3. MemoryInv' /\ UNCHANGED <<text, queue, task, log>>
  BY <1>1, MemoryStays DEF memory
<1> PICK r : r = [req[p] EXCEPT !.pc = "post"]
  OBVIOUS
<1>4. /\ r \in RequestType /\ r.pc = "post" /\ r.sid = Sid(p)
      /\ r.step = "none" /\ r.evts = req[p].evts
  BY <1>1, <1>2 DEF RequestType
<1>5. Appends(r) /\ Pushed(r) = Pushed(req[p])
  BY <1>1, <1>4 DEF Appends, Pushed
<1>6. Grows
  BY <1>1, <1>3 DEF Grows, ServiceInv, RequestTypes
<1>7. /\ Handles(p, r) /\ life' \in [Sessions -> {"new", "live", "gone", "revived"}]
      /\ missed \subseteq missed' /\ missed' \subseteq Events
      /\ gone \ {p} \subseteq gone' /\ gone' \subseteq Callers /\ archiving' \in BOOLEAN
  BY <1>1 DEF ServiceInv, RequestTypes
<1>8. life'[Sid(p)] = "live" => Pushed(r) \subseteq log'[Sid(p)]
  BY <1>1, <1>2, <1>3, <1>5
<1> QED BY <1>1, <1>3, <1>4, <1>5, <1>6, <1>7, <1>8, PlainStep

\* PostRun without a session: it is gone, or nobody waits for the answer, or the
\* error is told.
LEMMA PostRunStep ==
    ASSUME MemoryInv, ServiceInv, KeepInv, NEW p \in Callers,
           PostRunFails(p) \/ PostRunErrs(p)
    PROVE  MemoryInv' /\ ServiceInv' /\ KeepInv'
<1>1. /\ On(p, "post") /\ Handles(p, [req[p] EXCEPT !.pc = "reply"])
      /\ UNCHANGED <<memory, life, gone, archiving, served, created, answered>>
      /\ \/ p \in gone /\ missed' = missed
         \/ life[Sid(p)] # "live" /\ missed' = missed
         \/ missed' = missed \cup req[p].evts
  BY DEF PostRunFails, PostRunErrs, Goes, Handles, There, told
<1>2. /\ Sid(p) \in Sessions /\ req[p] \in RequestType /\ Appends(req[p])
      /\ life[Sid(p)] = "live" => Pushed(req[p]) \subseteq log[Sid(p)]
  BY <1>1, Known
<1>3. missed \subseteq missed' /\ missed' \subseteq Events
  BY <1>1, <1>2 DEF ServiceInv, RequestTypes, RequestType
<1>4. MemoryInv' /\ UNCHANGED <<text, queue, task, log>>
  BY <1>1, <1>3, MemoryStays DEF memory
<1> PICK r : r = [req[p] EXCEPT !.pc = "reply"]
  OBVIOUS
<1>5. /\ r \in RequestType /\ r.pc = "reply" /\ r.sid = Sid(p)
      /\ r.step = req[p].step /\ r.evt = req[p].evt /\ r.evts = req[p].evts
  BY <1>2 DEF RequestType
<1>6. Appends(r) /\ Pushed(r) = Pushed(req[p])
  BY <1>1, <1>2, <1>5 DEF Appends, Pushed
<1>7. Grows
  BY <1>1, <1>4 DEF Grows, ServiceInv, RequestTypes
<1>8. /\ Handles(p, r) /\ life' \in [Sessions -> {"new", "live", "gone", "revived"}]
      /\ gone \ {p} \subseteq gone' /\ gone' \subseteq Callers /\ archiving' \in BOOLEAN
  BY <1>1 DEF ServiceInv, RequestTypes
<1>9. p \in gone' \/ life'[Sid(p)] # "live" \/ r.evts \subseteq missed'
  BY <1>1, <1>5
<1>10. life'[Sid(p)] = "live" => Pushed(r) \subseteq log'[Sid(p)]
  BY <1>1, <1>2, <1>4, <1>6
<1> QED BY <1>1, <1>3, <1>4, <1>5, <1>6, <1>7, <1>8, <1>9, <1>10, PlainStep

LEMMA CreateSessionStep ==
    ASSUME MemoryInv, ServiceInv, KeepInv, NEW p \in Callers, NEW s \in Sessions,
           NEW n \in 0 .. Cardinality(Events), CreateSession(p, s, n)
    PROVE  MemoryInv' /\ ServiceInv' /\ KeepInv'
<1> DEFINE r == [NoRequest EXCEPT !.pc = "create", !.sid = s, !.todo = n]
<1>1. /\ life[s] = "new" /\ life' = [life EXCEPT ![s] = "live"]
      /\ Handles(p, r) /\ served < MaxRequests /\ served' = served + 1
      /\ UNCHANGED <<memory, created, answered, missed, gone>> /\ archiving' = TRUE
      /\ On(p, "none")
  BY DEF CreateSession, Arrives, told
<1>2. MemoryInv' /\ UNCHANGED <<text, queue, task, log>>
  BY <1>1, MemoryStays DEF memory, told
<1>3. n \in Nat
  OBVIOUS
<1>4. /\ r \in RequestType /\ r.pc = "create" /\ r.sid = s /\ r.evts = {}
      /\ r.step = "none"
  BY <1>3 DEF RequestType, NoRequest
<1> HIDE DEF r
<1>13. Appends(r) /\ Pushed(r) = {}
  BY <1>4 DEF Appends, Pushed
<1>5. Grows
  BY <1>1, <1>2 DEF Grows, ServiceInv, RequestTypes
<1>6. Histories' /\ \A q \in Sessions : answered'[q] = answered[q]
  BY <1>1, <1>5, HistoryStays
<1>7. RequestTypes'
  <2>1. served' \in 0 .. MaxRequests
    BY <1>1, RequestAssumption DEF ServiceInv, RequestTypes
  <2> QED BY <1>1, <1>4, <2>1 DEF ServiceInv, RequestTypes, Handles
<1>8. At(p, "idle")'
  BY <1>1, <1>2 DEF ServiceInv
<1>9. life'[s] = "live"
  BY <1>1 DEF ServiceInv, RequestTypes
<1>10. ServiceInv'
  BY <1>1, <1>2, <1>4, <1>5, <1>6, <1>7, <1>8, <1>9, <1>13, RequestStep
<1>11. Onward(p) /\ gone \ {p} \subseteq gone'
  BY <1>1, <1>2, OnwardSame
<1>12. KeepInv'
  BY <1>1, <1>4, <1>5, <1>6, <1>11, KeepStep
<1> QED BY <1>2, <1>10, <1>12

\* A step that leaves the request itself as it is.
LEMMA SameRequest ==
    ASSUME ServiceInv, NEW p \in Callers, UNCHANGED req
    PROVE  req[p] \in RequestType /\ Handles(p, req[p]) /\ Appends(req[p])
BY DEF ServiceInv, RequestTypes, Handles, Underway

LEMMA CreateSessionFailsStep ==
    ASSUME MemoryInv, ServiceInv, KeepInv, NEW p \in Callers, NEW s \in Sessions,
           CreateSessionFails(p, s)
    PROVE  MemoryInv' /\ ServiceInv' /\ KeepInv'
<1>1. /\ life[s] = "new" /\ life' = [life EXCEPT ![s] = "live"]
      /\ UNCHANGED <<memory, created, answered, missed, gone, req, archiving>>
      /\ served < MaxRequests /\ served' = served + 1 /\ On(p, "none")
  BY DEF CreateSessionFails, Arrives, told
<1>2. MemoryInv' /\ UNCHANGED <<text, queue, task, log>>
  BY <1>1, MemoryStays DEF memory, told
<1>3. req[p] \in RequestType /\ Handles(p, req[p]) /\ Appends(req[p])
  BY <1>1, SameRequest
<1>4. Grows
  BY <1>1, <1>2 DEF Grows, ServiceInv, RequestTypes
<1>5. Histories' /\ \A q \in Sessions : answered'[q] = answered[q]
  BY <1>1, <1>4, HistoryStays
<1>6. RequestTypes'
  <2>1. served' \in 0 .. MaxRequests
    BY <1>1, RequestAssumption DEF ServiceInv, RequestTypes
  <2> QED BY <1>1, <2>1 DEF ServiceInv, RequestTypes
<1>7. At(p, "idle")'
  BY <1>1, <1>2 DEF ServiceInv
<1>8. ServiceInv'
  BY <1>1, <1>2, <1>3, <1>4, <1>5, <1>6, <1>7, RequestStep
<1>9. Onward(p) /\ gone \ {p} \subseteq gone'
  BY <1>1, <1>2, OnwardSame
<1>10. KeepInv'
  BY <1>1, <1>3, <1>4, <1>5, <1>9, KeepStep
<1> QED BY <1>2, <1>8, <1>10

LEMMA StartRunStep ==
    ASSUME MemoryInv, ServiceInv, KeepInv, NEW p \in Callers, NEW s \in Sessions,
           StartRun(p, s)
    PROVE  MemoryInv' /\ ServiceInv' /\ KeepInv'
<1> DEFINE r == [NoRequest EXCEPT !.pc = "run", !.sid = s]
<1>1. /\ life[s] # "new" /\ UNCHANGED life
      /\ Handles(p, r) /\ served < MaxRequests /\ served' = served + 1
      /\ UNCHANGED <<memory, created, answered, missed, gone, archiving>>
      /\ On(p, "none")
  BY DEF StartRun, Arrives, There, told
<1>2. MemoryInv' /\ UNCHANGED <<text, queue, task, log>>
  BY <1>1, MemoryStays DEF memory, told
<1>3. r \in RequestType /\ r.pc = "run" /\ r.sid = s /\ r.evts = {} /\ r.step = "none"
  BY DEF RequestType, NoRequest
<1> HIDE DEF r
<1>4. Grows
  BY <1>1, <1>2 DEF Grows, ServiceInv, RequestTypes
<1>5. Histories' /\ \A q \in Sessions : answered'[q] = answered[q]
  BY <1>1, <1>4, HistoryStays
<1>6. RequestTypes'
  <2>1. served' \in 0 .. MaxRequests
    BY <1>1, RequestAssumption DEF ServiceInv, RequestTypes
  <2> QED BY <1>1, <1>3, <2>1 DEF ServiceInv, RequestTypes, Handles
<1>7. At(p, "idle")'
  BY <1>1, <1>2 DEF ServiceInv
<1>8. Appends(r) /\ Pushed(r) = {}
  BY <1>3 DEF Appends, Pushed
<1>9. ServiceInv'
  BY <1>1, <1>2, <1>3, <1>4, <1>5, <1>6, <1>7, <1>8, RequestStep
<1>10. Onward(p) /\ gone \ {p} \subseteq gone'
  BY <1>1, <1>2, OnwardSame
<1>11. KeepInv'
  BY <1>1, <1>3, <1>4, <1>5, <1>10, KeepStep
<1> QED BY <1>2, <1>9, <1>11

LEMMA DeleteSessionStep ==
    ASSUME MemoryInv, ServiceInv, KeepInv, NEW p \in Callers, NEW s \in Sessions,
           DeleteSession(p, s)
    PROVE  MemoryInv' /\ ServiceInv' /\ KeepInv'
<1>1. /\ life[s] # "new" /\ life' = [life EXCEPT ![s] = "gone"]
      /\ log' = [log EXCEPT ![s] = {}]
      /\ created' = [created EXCEPT ![s] = {}]
      /\ answered' = [answered EXCEPT ![s] = {}]
      /\ UNCHANGED <<used, table, queue, task, found, calls, wish, missed>>
      /\ served < MaxRequests /\ served' = served + 1
      /\ UNCHANGED <<gone, req>> /\ archiving' \in {archiving, TRUE}
      /\ On(p, "none")
  BY DEF DeleteSession, Remove, Arrives
<1>2. MemoryInv' /\ UNCHANGED <<text, queue, task>>
  BY <1>1, MemoryRemove DEF table
<1>3. req[p] \in RequestType /\ Handles(p, req[p]) /\ Appends(req[p])
  BY <1>1, SameRequest
<1>4. Grows
  BY <1>1 DEF Grows, ServiceInv, RequestTypes, MemoryInv, IInv, TypeOK
<1>5. /\ Histories'
      /\ \A q \in Sessions : \A e \in answered'[q] : e \in answered[q]
  BY <1>1 DEF Histories, ServiceInv, RequestTypes, MemoryInv, IInv, TypeOK
<1>6. RequestTypes'
  <2>1. served' \in 0 .. MaxRequests
    BY <1>1, RequestAssumption DEF ServiceInv, RequestTypes
  <2> QED BY <1>1, <2>1 DEF ServiceInv, RequestTypes
<1>7. At(p, "idle")'
  BY <1>1, <1>2 DEF ServiceInv
<1>8. ServiceInv'
  BY <1>1, <1>3, <1>4, <1>5, <1>6, <1>7, RequestStep
<1>9. Onward(p) /\ gone \ {p} \subseteq gone'
  BY <1>1, <1>2, OnwardSame
<1>10. KeepInv'
  BY <1>1, <1>3, <1>4, <1>5, <1>9, KeepStep
<1> QED BY <1>2, <1>8, <1>10

LEMMA LeaveStep ==
    ASSUME MemoryInv, ServiceInv, KeepInv, NEW p \in Callers, Leave(p)
    PROVE  MemoryInv' /\ ServiceInv' /\ KeepInv'
<1>1. /\ UNCHANGED <<memory, life, req, archiving, served, told>>
      /\ gone' = gone \cup {p}
  BY DEF Leave
<1>2. MemoryInv' /\ UNCHANGED <<text, queue, task, log>>
  BY <1>1, MemoryStays DEF memory, told
<1>3. ServiceInv'
  BY <1>1, <1>2 DEF ServiceInv, RequestTypes, Underway, Pushed, Histories, told
<1>4. KeepInv'
  BY <1>1, <1>2 DEF KeepInv, Safe, Waits, InWork, Covers, told
<1> QED BY <1>2, <1>3, <1>4

LEMMA AbandonStep ==
    ASSUME MemoryInv, ServiceInv, KeepInv, NEW p \in Callers, Abandon(p)
    PROVE  MemoryInv' /\ ServiceInv' /\ KeepInv'
<1>1. /\ p \in gone /\ Become(p, Idle)
      /\ UNCHANGED <<sessions, table, queue, found, calls, wish>>
      /\ UNCHANGED <<life, req, gone, archiving, served, told>>
  BY DEF Abandon
<1>2. MemoryInv' /\ UNCHANGED <<text, queue, log>>
  BY <1>1, CallersApart, MemoryIdle DEF sessions, table, told
<1>3. /\ At(p, "idle")'
      /\ \A q \in Callers \ {p} : task'[q] = task[q]
  BY <1>1, CallersApart DEF Become, Idle, MemoryInv, IInv, TypeOK
<1>4. req[p] \in RequestType /\ Handles(p, req[p]) /\ Appends(req[p])
  BY <1>1, SameRequest
<1>5. Grows
  BY <1>1, <1>2 DEF Grows, ServiceInv, RequestTypes
<1>6. Histories' /\ \A s \in Sessions : answered'[s] = answered[s]
  BY <1>1, <1>5, HistoryStays DEF told
<1>7. RequestTypes'
  BY <1>1 DEF ServiceInv, RequestTypes, told
<1>8. ServiceInv'
  BY <1>1, <1>2, <1>3, <1>4, <1>5, <1>6, <1>7, RequestStep
     DEF ServiceInv, Underway
<1>9. Onward(p) /\ gone \ {p} \subseteq gone'
  BY <1>1, <1>2, OnwardIdle DEF told
<1>10. KeepInv'
  BY <1>1, <1>4, <1>5, <1>6, <1>9, KeepStep
<1> QED BY <1>2, <1>8, <1>10

LEMMA CreateAnsweredStep ==
    ASSUME MemoryInv, ServiceInv, KeepInv, NEW p \in Callers, CreateAnswered(p)
    PROVE  MemoryInv' /\ ServiceInv' /\ KeepInv'
<1>1. /\ On(p, "create") /\ Handles(p, NoRequest) /\ gone' = gone \ {p}
      /\ created' = IF life[Sid(p)] = "live"
                    THEN [created EXCEPT ![Sid(p)] = req[p].evts] ELSE created
      /\ UNCHANGED <<memory, life, archiving, served, answered, missed>>
  BY DEF CreateAnswered, Ends
<1>2. MemoryInv' /\ UNCHANGED <<text, queue, task, log>>
  BY <1>1, MemoryStays DEF memory, told
<1>3. /\ Sid(p) \in Sessions /\ req[p].evts \in SUBSET Events
      /\ life[Sid(p)] = "live" => req[p].evts \subseteq log[Sid(p)]
      /\ At(p, "idle")
  BY <1>1 DEF ServiceInv, RequestTypes, Underway, RequestType, Pushed
<1>4. /\ NoRequest \in RequestType /\ NoRequest.pc = "none"
      /\ Appends(NoRequest)
  BY DEF NoRequest, RequestType, Appends
<1>5. Grows
  BY <1>1, <1>2 DEF Grows, ServiceInv, RequestTypes
<1>6. Histories'
  BY <1>1, <1>2, <1>3 DEF ServiceInv, RequestTypes, Histories
<1>7. RequestTypes'
  BY <1>1, <1>3, <1>4 DEF ServiceInv, RequestTypes, Handles
<1>8. ServiceInv'
  BY <1>1, <1>2, <1>3, <1>4, <1>5, <1>6, <1>7, RequestStep
<1>9. Onward(p) /\ gone \ {p} \subseteq gone'
  BY <1>1, <1>2, OnwardSame
<1>10. KeepInv'
  BY <1>1, <1>4, <1>5, <1>9, KeepStep
<1> QED BY <1>2, <1>8, <1>10

\* PostRun: what the run has added is now in the channel, or in the hands of
\* the goroutine of the request.
LEMMA AddSessionToMemoryStep ==
    ASSUME MemoryInv, ServiceInv, KeepInv, NEW p \in Callers, AddSessionToMemory(p)
    PROVE  MemoryInv' /\ ServiceInv' /\ KeepInv'
<1>1. /\ On(p, "post") /\ AddSession(p, Sid(p))
      /\ Handles(p, [req[p] EXCEPT !.pc = "reply"])
      /\ UNCHANGED <<life, gone, archiving, served, told>>
  BY DEF AddSessionToMemory, Goes, Handles
<1>2. /\ Sid(p) \in Sessions /\ req[p] \in RequestType /\ Appends(req[p])
      /\ life[Sid(p)] # "new"
      /\ life[Sid(p)] = "live" => Pushed(req[p]) \subseteq log[Sid(p)]
  BY <1>1, Known
<1> PICK s \in Sessions : s = Sid(p)
  BY <1>2
<1>3. MemoryInv'
  BY <1>1, MemorySubmit DEF told
<1>4. /\ Onward(p)
      /\ \A q \in Callers \ {p} : task'[q] = task[q]
      /\ UNCHANGED <<log, used, text>>
      /\ \A e \in log[s] : (Safe(s, e) \/ InWork(p, s, e))'
  BY <1>1, OnwardSubmit DEF told
<1> PICK r \in RequestType : r = [req[p] EXCEPT !.pc = "reply"]
  BY <1>2 DEF RequestType
<1>5. /\ r.pc = "reply" /\ r.sid = s /\ r.evts = req[p].evts
      /\ r.step = req[p].step /\ r.evt = req[p].evt
  BY <1>2 DEF RequestType
<1>12. Appends(r) /\ Pushed(r) = Pushed(req[p])
  BY <1>1, <1>2, <1>5 DEF Appends, Pushed
<1>6. Grows
  BY <1>1, <1>4 DEF Grows, ServiceInv, RequestTypes
<1>7. Histories' /\ \A q \in Sessions : answered'[q] = answered[q]
  BY <1>1, <1>6, HistoryStays DEF told
<1>8. RequestTypes'
  BY <1>1, <1>5 DEF ServiceInv, RequestTypes, Handles, told
<1>9. ServiceInv'
  BY <1>1, <1>2, <1>4, <1>5, <1>6, <1>7, <1>8, <1>12, RequestStep
<1>10. life'[r.sid] = "live" =>
          \A e \in r.evts \ Silent : (Safe(r.sid, e) \/ InWork(p, r.sid, e))'
  BY <1>1, <1>2, <1>4, <1>5 DEF Pushed
<1>11. KeepInv'
  BY <1>1, <1>4, <1>5, <1>6, <1>7, <1>10, KeepStep
<1> QED BY <1>3, <1>9, <1>11

\* The answer waits for a call that the goroutine runs itself.
LEMMA ReplyStep ==
    ASSUME MemoryInv, ServiceInv, KeepInv, NEW p \in Callers, Reply(p)
    PROVE  MemoryInv' /\ ServiceInv' /\ KeepInv'
<1>1. /\ On(p, "reply") /\ At(p, "idle")
      /\ Handles(p, NoRequest) /\ gone' = gone \ {p}
      /\ answered' = IF p \in gone \/ life[Sid(p)] # "live" THEN answered
                     ELSE [answered EXCEPT ![Sid(p)] = @ \cup (req[p].evts \ Silent)]
      /\ UNCHANGED <<memory, life, archiving, served, created, missed>>
  BY DEF Reply, Answered, Ends
<1>2. MemoryInv' /\ UNCHANGED <<text, queue, task, log>>
  BY <1>1, MemoryStays DEF memory, told
<1>3. /\ Sid(p) \in Sessions /\ req[p].evts \in SUBSET Events
      /\ life[Sid(p)] = "live" => req[p].evts \subseteq log[Sid(p)]
  BY <1>1 DEF ServiceInv, RequestTypes, Underway, RequestType, Pushed
<1>4. /\ NoRequest \in RequestType /\ NoRequest.pc = "none"
      /\ Appends(NoRequest)
  BY DEF NoRequest, RequestType, Appends
<1>5. Grows
  BY <1>1, <1>2 DEF Grows, ServiceInv, RequestTypes
<1>6. Histories'
  BY <1>1, <1>2, <1>3 DEF ServiceInv, RequestTypes, Histories
<1>7. RequestTypes'
  BY <1>1, <1>3, <1>4 DEF ServiceInv, RequestTypes, Handles
<1>8. ServiceInv'
  BY <1>1, <1>2, <1>3, <1>4, <1>5, <1>6, <1>7, RequestStep
<1>9. Onward(p) /\ gone \ {p} \subseteq gone'
  BY <1>1, <1>2, OnwardSame
<1>10. ASSUME NEW s \in Sessions, life'[s] = "live", NEW e \in answered'[s]
       PROVE  e \in answered[s] \/ Safe(s, e)'
  <2>1. CASE e \notin answered[s]
    <3>1. /\ p \notin gone /\ s = Sid(p) /\ life[s] = "live"
          /\ e \in req[p].evts \ Silent
      BY <1>1, <1>10, <2>1 DEF ServiceInv, RequestTypes
    <3>2. Safe(s, e) \/ InWork(p, s, e)
      BY <1>1, <3>1 DEF KeepInv
    <3>3. ~InWork(p, s, e)
      BY <1>1 DEF InWork
    <3>4. e \in log[s] \ Silent
      BY <1>3, <3>1
    <3> QED BY <1>10, <3>2, <3>3, <3>4, <1>9 DEF Onward
  <2> QED BY <2>1
<1>11. KeepInv'
  BY <1>1, <1>4, <1>5, <1>9, <1>10, KeepStep
<1> QED BY <1>2, <1>8, <1>11

LEMMA RequestsStep ==
    ASSUME MemoryInv, ServiceInv, KeepInv, NEW p \in Callers,
           Arrival(p) \/ Progress(p) \/ Leave(p)
    PROVE  MemoryInv' /\ ServiceInv' /\ KeepInv'
<1>1. CASE Arrival(p)
  BY <1>1, CreateSessionStep, CreateSessionFailsStep, DeleteSessionStep, StartRunStep
     DEF Arrival
<1>2. CASE CreateFails(p)
  BY <1>2, EndsStep DEF CreateFails
<1>3. CASE RunErrs(p)
  BY <1>3, EndsStep DEF RunErrs, BetweenAppends
<1>4. CASE StreamErrs(p)
  <2> PICK pc \in {"run", "post"} : pc = IF p \in gone THEN "post" ELSE "run"
    OBVIOUS
  <2>1. Handles(p, [req[p] EXCEPT !.pc = pc, !.step = "none", !.evt = NoEvent])
    BY <1>4 DEF StreamErrs
  <2>2. AppendFails(p) \/ UNCHANGED <<memory, life, archiving>>
    BY <1>4 DEF StreamErrs, BetweenAppends
  <2> QED BY <1>4, <2>1, <2>2, RunGoes DEF StreamErrs
<1>5. CASE RunnerEnds(p)
  BY <1>5, RunnerEndsStep
<1> QED BY <1>1, <1>2, <1>3, <1>4, <1>5, PushStep, FindStep, StoreStep,
           CreateAnsweredStep, AddSessionToMemoryStep, PostRunStep,
           AbandonStep, ReplyStep, LeaveStep DEF Progress

-----------------------------------------------------------------------------
(* A step of the workers. *)

LEMMA RememberStep ==
    ASSUME MemoryInv, ServiceInv, KeepInv, Remembering \/ RememberFails
    PROVE  MemoryInv' /\ ServiceInv' /\ KeepInv'
<1>1. /\ \/ UNCHANGED missed /\ (Receive \/ \E x \in Execs : Works(x))
         \/ \E x \in Execs : Stumbles(x)
      /\ UNCHANGED <<life, req, gone, archiving, served, created, answered>>
  BY DEF Remembering, RememberFails, Works, Stumbles, told
<1>2. MemoryInv'
  BY <1>1, MemoryWorks, Stumbled
<1>3. /\ log' = log
      /\ \A p \in Callers : task[p].pc = "idle" => task'[p].pc = "idle"
      /\ missed' \subseteq Events
  <2>1. CASE UNCHANGED missed /\ Receive
    BY <2>1, Received DEF ServiceInv, RequestTypes
  <2>2. ASSUME NEW x \in Execs, (UNCHANGED missed /\ Works(x)) \/ Stumbles(x)
        PROVE  /\ log' = log /\ task[x].pc # "idle"
               /\ \A y \in Execs \ {x} : task'[y] = task[y]
    BY <2>2, BegunAdd, RowAdded, Committed, Stumbled DEF Works
  <2>3. ASSUME NEW x \in Execs, Stumbles(x)
        PROVE  missed' \subseteq Events
    <3>1. task[x].call.cached \subseteq Events
      BY DEF MemoryInv, IInv, TypeOK, Task, Call
    <3> QED BY <2>3, <3>1 DEF Stumbles, ServiceInv, RequestTypes
  <2> QED BY <1>1, <2>1, <2>2, <2>3, CallersApart DEF ServiceInv, RequestTypes
<1>4. ServiceInv'
  BY <1>1, <1>3 DEF ServiceInv, RequestTypes, Underway, Pushed, Histories
<1>5. \A s \in Sessions : \A e \in log[s] \ Silent :
         /\ Safe(s, e) => Safe(s, e)'
         /\ \A q \in Callers : InWork(q, s, e) =>
               (Stored(e) \/ e \in missed \/ InWork(q, s, e))'
  <2>1. \A s \in Sessions : log[s] \subseteq Events
    BY DEF MemoryInv, IInv, TypeOK
  <2> QED BY <1>1, <2>1, SafeWorks
<1>6. ASSUME NEW s \in Sessions, life[s] = "live", NEW e \in answered[s]
      PROVE  Safe(s, e)'
  <2>1. e \in log[s] \ Silent /\ Safe(s, e)
    BY <1>6 DEF ServiceInv, Histories, KeepInv
  <2> QED BY <1>5, <2>1
<1>7. ASSUME NEW q \in Callers, On(q, "reply"), q \notin gone, NEW s, s = req[q].sid,
             life[s] = "live", NEW e \in req[q].evts \ Silent
      PROVE  (Safe(s, e) \/ InWork(q, s, e))'
  <2>1. s \in Sessions /\ e \in log[s] \ Silent
    BY <1>7 DEF ServiceInv, Underway, Pushed
  <2>2. Safe(s, e) \/ InWork(q, s, e)
    BY <1>7 DEF KeepInv
  <2> QED BY <1>5, <2>1, <2>2 DEF Safe
<1>8. KeepInv'
  BY <1>1, <1>6, <1>7 DEF KeepInv, Safe, Waits, InWork, Covers
<1> QED BY <1>2, <1>4, <1>8

LEMMA ArchivedStep ==
    ASSUME MemoryInv, ServiceInv, KeepInv, Archived
    PROVE  MemoryInv' /\ ServiceInv' /\ KeepInv'
<1>1. /\ UNCHANGED <<memory, life, req, gone, served, told>>
      /\ archiving' = FALSE
  BY DEF Archived
<1>2. MemoryInv' /\ UNCHANGED <<text, queue, task, log>>
  BY <1>1, MemoryStays DEF memory, told
<1>3. ServiceInv'
  BY <1>1, <1>2 DEF ServiceInv, RequestTypes, Underway, Pushed, Histories, told
<1>4. KeepInv'
  BY <1>1, <1>2 DEF KeepInv, Safe, Waits, InWork, Covers, told
<1> QED BY <1>2, <1>3, <1>4

-----------------------------------------------------------------------------
(* A step of main. *)

LEMMA ServiceStays ==
    ASSUME MemoryInv, ServiceInv, KeepInv, UNCHANGED service
    PROVE  MemoryInv' /\ ServiceInv' /\ KeepInv'
<1>1. UNCHANGED <<memory, life, req, gone, archiving, served, told>>
  BY DEF service
<1>2. MemoryInv' /\ UNCHANGED <<text, queue, task, log>>
  BY <1>1, MemoryStays DEF memory, told
<1>3. ServiceInv'
  BY <1>1, <1>2 DEF ServiceInv, RequestTypes, Underway, Pushed, Histories, told
<1>4. KeepInv'
  BY <1>1, <1>2 DEF KeepInv, Safe, Waits, InWork, Covers, told
<1> QED BY <1>2, <1>3, <1>4

LEMMA OrderIs ==
    /\ Order[1] = "postgres" /\ Order[2] = "redis"
    /\ Order[3] = "persister" /\ Order[4] = "memory"
BY DEF Order

LEMMA DiesStep ==
    ASSUME MemoryInv, ServiceInv, KeepInv, ProcessInv, Dies
    PROVE  MemoryInv' /\ ServiceInv' /\ KeepInv' /\ ProcessInv'
<1>1. MemoryInv'
  BY MemoryDies
<1>2. /\ req' = [p \in Callers |-> NoRequest] /\ gone' = {} /\ archiving' = FALSE
      /\ task' = [x \in Execs |-> Idle] /\ queue' = <<>>
      /\ created' = [s \in Sessions |-> {}] /\ answered' = [s \in Sessions |-> {}]
      /\ missed' = {} /\ UNCHANGED <<life, served>>
  BY DEF Dies
<1>3. /\ NoRequest \in RequestType /\ NoRequest.pc = "none" /\ Idle.pc = "idle"
      /\ Appends(NoRequest)
  BY DEF NoRequest, RequestType, Idle, Appends
<1>4. ServiceInv'
  BY <1>2, <1>3, CallersApart DEF ServiceInv, RequestTypes, Underway, Histories
<1>5. KeepInv'
  BY <1>2, <1>3 DEF KeepInv
<1>6. /\ stage' = "dead" /\ open' = {} /\ defers' = <<>>
      /\ UNCHANGED <<tries, signalled>>
  BY DEF Dies
<1>7. ProcessTypes'
  BY <1>6 DEF ProcessInv, ProcessTypes, Stages
<1>8. Depth'
  BY <1>6 DEF Depth
<1>9. Closed'
  BY <1>2, <1>3, CallersApart DEF Closed
<1> QED BY <1>1, <1>4, <1>5, <1>7, <1>8, <1>9 DEF ProcessInv

\* A store or a service is opened: it is the next one of the order.
LEMMA OpenedStep ==
    ASSUME ProcessInv, NEW r, NEW next, Opened(r, next),
           \/ r = "postgres" /\ next = "redis"
           \/ r = "redis" /\ next = "persister"
           \/ r = "persister" /\ next = "memory"
           \/ r = "memory" /\ next = "ready"
    PROVE  ProcessInv'
<1>1. /\ stage = r /\ stage' = next /\ open' = open \cup {r}
      /\ defers' = Append(defers, r) /\ tries' = 0
      /\ UNCHANGED <<queue, task, req, archiving, signalled>>
  BY DEF Opened, service, memory
<1>2. /\ defers \in Seq(Resources) /\ r \in Resources /\ next \in Stages
  BY DEF ProcessInv, ProcessTypes, Resources, Stages
<1>3. ProcessTypes'
  BY <1>1, <1>2, PingAssumption DEF ProcessInv, ProcessTypes
<1>4. /\ Len(defers) < 4 /\ Len(defers') = Len(defers) + 1
      /\ r = Order[Len(defers')] /\ defers'[Len(defers')] = r
      /\ \A i \in 1 .. Len(defers) : defers'[i] = defers[i]
  BY <1>1, <1>2, OrderIs DEF ProcessInv, Depth
<1>5. Depth'
  <2>1. /\ Len(defers') <= 4
        /\ \A i \in 1 .. Len(defers') : defers'[i] = Order[i]
    BY <1>2, <1>4 DEF ProcessInv, Depth
  <2>2. open' = {defers'[i] : i \in 1 .. Len(defers')}
    <3>1. 1 .. Len(defers') = (1 .. Len(defers)) \cup {Len(defers')}
      BY <1>2, <1>4
    <3>2. {defers'[i] : i \in 1 .. Len(defers')}
             = {defers[i] : i \in 1 .. Len(defers)} \cup {r}
      BY <1>4, <3>1
    <3> QED BY <1>1, <3>2 DEF ProcessInv, Depth
  <2>3. /\ stage' \in {"postgres", "returned", "dead"} => Len(defers') = 0
        /\ stage' = "redis" => Len(defers') = 1
        /\ stage' = "persister" => Len(defers') = 2
        /\ stage' = "memory" => Len(defers') = 3
        /\ stage' \in {"ready", "serving", "shutdown"} => Len(defers') = 4
    <3>1. CASE r = "postgres" /\ next = "redis"
      BY <1>1, <1>4, <3>1 DEF ProcessInv, Depth
    <3>2. CASE r = "redis" /\ next = "persister"
      <4>1. Len(defers) = 1
        BY <1>1, <3>2 DEF ProcessInv, Depth
      <4>2. Len(defers') = 2
        BY <1>4, <4>1
      <4> QED BY <1>1, <3>2, <4>2
    <3>3. CASE r = "persister" /\ next = "memory"
      <4>1. Len(defers) = 2
        BY <1>1, <3>3 DEF ProcessInv, Depth
      <4>2. Len(defers') = 3
        BY <1>4, <4>1
      <4> QED BY <1>1, <3>3, <4>2
    <3>4. CASE r = "memory" /\ next = "ready"
      <4>1. Len(defers) = 3
        BY <1>1, <3>4 DEF ProcessInv, Depth
      <4>2. Len(defers') = 4
        BY <1>4, <4>1
      <4> QED BY <1>1, <3>4, <4>2
    <3> QED BY <3>1, <3>2, <3>3, <3>4
  <2> QED BY <2>1, <2>2, <2>3 DEF Depth
<1>6. Closed'
  BY <1>1, <1>2, <1>4 DEF ProcessInv, Closed
<1> QED BY <1>3, <1>5, <1>6 DEF ProcessInv

\* The last deferred call runs, and what it waits for is done.
LEMMA RunDeferStep ==
    ASSUME ProcessInv, RunDefer
    PROVE  ProcessInv'
<1>0. defers \in Seq(Resources) /\ Len(defers) \in Nat
  BY DEF ProcessInv, ProcessTypes
<1> PICK n \in Nat : n = Len(defers)
  BY <1>0
<1> PICK r : r = defers[n]
  OBVIOUS
<1>1. /\ stage = "returning" /\ defers # <<>> /\ Drained(r)
      /\ open' = open \ {r} /\ defers' = SubSeq(defers, 1, n - 1)
      /\ UNCHANGED <<queue, task, req, archiving, stage, tries, signalled>>
  BY DEF RunDefer, service, memory
<1>2. n \in 1 .. 4
  <2>1. n # 0
    BY <1>0, <1>1
  <2>2. n <= 4
    BY DEF ProcessInv, Depth
  <2> QED BY <2>1, <2>2
<1>3. /\ Len(defers') = n - 1
      /\ \A i \in 1 .. (n - 1) : defers'[i] = defers[i]
      /\ defers' \in Seq(Resources)
  BY <1>0, <1>1, <1>2
<1>4. r = Order[n]
  BY <1>2 DEF ProcessInv, Depth
<1>5. ProcessTypes'
  BY <1>1, <1>3 DEF ProcessInv, ProcessTypes
<1>6. Depth'
  <2>1. /\ Len(defers') <= 4
        /\ \A i \in 1 .. Len(defers') : defers'[i] = Order[i]
    BY <1>2, <1>3 DEF ProcessInv, Depth
  <2>2. open' = {defers'[i] : i \in 1 .. Len(defers')}
    <3>1. 1 .. n = (1 .. (n - 1)) \cup {n}
      BY <1>2
    <3>2. \A i \in 1 .. (n - 1) : defers[i] # r
      BY <1>2, <1>4, OrderIs DEF ProcessInv, Depth
    <3>3. open = {defers[i] : i \in 1 .. n}
      BY DEF ProcessInv, Depth
    <3> QED BY <1>1, <1>3, <3>1, <3>2, <3>3
  <2> QED BY <1>1, <2>1, <2>2 DEF Depth
<1>7. Closed'
  <2>1. Len(defers') < 4 => queue = <<>> /\ At(Worker, "idle")
    BY <1>1, <1>2, <1>4, OrderIs DEF Drained, ProcessInv, Closed
  <2>2. Len(defers') < 3 => ~archiving
    BY <1>1, <1>2, <1>3, <1>4, OrderIs DEF Drained, ProcessInv, Closed
  <2> QED BY <1>1, <2>1, <2>2 DEF ProcessInv, Closed
<1> QED BY <1>5, <1>6, <1>7 DEF ProcessInv

\* main goes on without opening or closing anything.
LEMMA StageStep ==
    ASSUME ProcessInv, NEW next, stage' = next,
           UNCHANGED <<service, tries, defers, open>>, signalled' \in BOOLEAN,
           \/ next = stage
           \/ stage \in {"ready", "serving"} /\ next \in {"serving", "shutdown"}
           \/ /\ stage = "shutdown" /\ next = "returning"
              /\ \A p \in Callers : On(p, "none")
           \/ stage = "returning" /\ next = "returned" /\ defers = <<>>
    PROVE  ProcessInv'
<1>1. UNCHANGED <<queue, task, req, archiving>>
  BY DEF service, memory
<1>2. ProcessTypes'
  BY DEF ProcessInv, ProcessTypes, Stages
<1>3. Depth'
  BY DEF ProcessInv, Depth
<1>4. Closed'
  BY <1>1 DEF ProcessInv, Closed, Depth
<1> QED BY <1>2, <1>3, <1>4 DEF ProcessInv

LEMMA PingFailsStep ==
    ASSUME MemoryInv, ServiceInv, KeepInv, ProcessInv, NEW r, PingFails(r)
    PROVE  MemoryInv' /\ ServiceInv' /\ KeepInv' /\ ProcessInv'
<1>1. CASE Dies
  BY <1>1, DiesStep
<1>2. CASE ~Dies
  <2>1. /\ tries + 1 < PingRetries /\ tries' = tries + 1
        /\ UNCHANGED <<service, stage, signalled, defers, open>>
    BY <1>2 DEF PingFails
  <2>2. UNCHANGED <<queue, task, req, archiving>>
    BY <2>1 DEF service, memory
  <2>3. ProcessTypes'
    BY <2>1, PingAssumption DEF ProcessInv, ProcessTypes
  <2>4. Depth' /\ Closed'
    BY <2>1, <2>2 DEF ProcessInv, Depth, Closed
  <2> QED BY <2>1, <2>3, <2>4, ServiceStays DEF ProcessInv
<1> QED BY <1>1, <1>2

-----------------------------------------------------------------------------
(* The invariant holds throughout. *)

LEMMA GatewayInitInv == GatewayInit => GatewayInv
<1> SUFFICES ASSUME GatewayInit PROVE GatewayInv
  OBVIOUS
<1>1. MemoryInv
  BY InitInv DEF GatewayInit, ServiceInit, Init, MemoryInv, Rowwise, Idle
<1>2. /\ NoRequest \in RequestType /\ NoRequest.pc = "none" /\ Idle.pc = "idle"
      /\ Appends(NoRequest)
  BY DEF NoRequest, RequestType, Idle, Appends
<1>3. ServiceInv
  <2>1. /\ life \in [Sessions -> {"new", "live"}]
        /\ req = [p \in Callers |-> NoRequest] /\ gone = {} /\ archiving = FALSE
        /\ served = 0 /\ task = [x \in Execs |-> Idle]
        /\ created = [s \in Sessions |-> {}] /\ answered = [s \in Sessions |-> {}]
        /\ missed = {}
    BY DEF GatewayInit, ServiceInit, Init
  <2>2. RequestTypes
    <3>1. 0 \in 0 .. MaxRequests
      BY RequestAssumption
    <3> QED BY <1>2, <2>1, <3>1 DEF RequestTypes
  <2>3. \A p \in Callers : At(p, "idle") /\ On(p, "none")
    BY <1>2, <2>1, CallersApart
  <2>4. Histories
    BY <2>1 DEF Histories
  <2> QED BY <1>2, <2>1, <2>2, <2>3, <2>4 DEF ServiceInv, Underway
<1>4. KeepInv
  BY <1>2 DEF GatewayInit, ServiceInit, KeepInv
<1>5. ProcessInv
  <2>1. ProcessTypes
    <3>1. 0 \in 0 .. PingRetries
      BY PingAssumption
    <3>2. defers \in Seq(Resources)
      BY DEF GatewayInit
    <3> QED BY <3>1, <3>2 DEF GatewayInit, ProcessTypes, Stages
  <2>2. Depth
    BY DEF GatewayInit, Depth
  <2>3. Closed
    BY <1>2, CallersApart DEF GatewayInit, ServiceInit, Init, Closed
  <2> QED BY <2>1, <2>2, <2>3 DEF ProcessInv
<1> QED BY <1>1, <1>3, <1>4, <1>5 DEF GatewayInv

\* Requests are only there while everything is open.
LEMMA RequestsInv ==
    ASSUME GatewayInv, Requests
    PROVE  GatewayInv'
<1>1. PICK p \in Callers : \/ stage = "serving" /\ Arrival(p)
                           \/ Progress(p) \/ Leave(p)
  BY DEF Requests
<1>2. UNCHANGED <<stage, tries, signalled, defers, open>>
  BY DEF Requests, process
<1>3. stage \in {"serving", "shutdown"}
  <2>1. CASE Leave(p) \/ Abandon(p)
    BY <2>1 DEF Leave, Abandon, GatewayInv, ServiceInv, ProcessInv, Closed
  <2>2. CASE Progress(p) /\ ~Abandon(p)
    <3>1. ~On(p, "none")
      BY <2>2 DEF Progress, Push, Appending, Find, Store, CreateFails,
                  CreateAnswered, RunErrs, StreamErrs, RunnerEnds, BetweenAppends,
                  AddSessionToMemory, PostRunFails, PostRunErrs, Reply,
                  GatewayInv, ServiceInv, Underway, Appends
    <3> QED BY <3>1 DEF GatewayInv, ProcessInv, Closed
  <2> QED BY <1>1, <2>1, <2>2
<1>4. MemoryInv' /\ ServiceInv' /\ KeepInv'
  BY <1>1, RequestsStep DEF GatewayInv
<1>5. Len(defers) = 4
  BY <1>3 DEF GatewayInv, ProcessInv, Depth
<1>6. ProcessTypes' /\ Depth'
  BY <1>2 DEF GatewayInv, ProcessInv, ProcessTypes, Depth
<1>7. Closed'
  BY <1>2, <1>3, <1>5 DEF Closed
<1> QED BY <1>4, <1>6, <1>7 DEF GatewayInv, ProcessInv

\* The memory service works only while it is open.
LEMMA WorkersInv ==
    ASSUME GatewayInv, Workers \/ StoreFails
    PROVE  GatewayInv'
<1>1. UNCHANGED <<stage, tries, signalled, defers, open>>
  BY DEF Workers, StoreFails, process
<1>2. ProcessTypes' /\ Depth'
  BY <1>1 DEF GatewayInv, ProcessInv, ProcessTypes, Depth
<1>3. CASE Remembering \/ RememberFails
  <2>1. MemoryInv' /\ ServiceInv' /\ KeepInv'
    BY <1>3, RememberStep DEF GatewayInv
  <2>2. UNCHANGED <<req, archiving>>
    BY <1>3 DEF Remembering, RememberFails
  <2>3. ~(Len(defers) < 4)
    <3>1. CASE Receive
      BY <3>1 DEF Receive, GatewayInv, ProcessInv, Closed
    <3>2. ASSUME NEW x \in Execs, Works(x) \/ Stumbles(x)
          PROVE  ~(Len(defers) < 4)
      <4>1. ~At(x, "idle")
        BY <3>2 DEF Works, BeginAdd, AddRow, Commit, Stumbles, ExecFails, RowFails
      <4>2. CASE x = Worker
        BY <4>1, <4>2 DEF GatewayInv, ProcessInv, Closed
      <4>3. CASE x \in Callers
        <5>1. ~On(x, "none")
          BY <4>1, <4>3 DEF GatewayInv, ServiceInv
        <5>2. Len(defers) = 4
          BY <4>3, <5>1 DEF GatewayInv, ProcessInv, Closed, Depth
        <5> QED BY <5>2
      <4> QED BY <4>2, <4>3
    <3> QED BY <1>3, <3>1, <3>2 DEF Remembering, RememberFails, Works, Stumbles
  <2>4. Len(defers) < 3 => FALSE
    BY <2>3 DEF GatewayInv, ProcessInv, ProcessTypes
  <2>5. Closed'
    BY <1>1, <2>2, <2>3, <2>4 DEF GatewayInv, ProcessInv, Closed
  <2> QED BY <1>2, <2>1, <2>5 DEF GatewayInv, ProcessInv
<1>4. CASE Archived
  <2>1. MemoryInv' /\ ServiceInv' /\ KeepInv'
    BY <1>4, ArchivedStep DEF GatewayInv
  <2>2. Closed'
    BY <1>1, <1>4 DEF Archived, memory, GatewayInv, ProcessInv, Closed
  <2> QED BY <1>2, <2>1, <2>2 DEF GatewayInv, ProcessInv
<1> QED BY <1>3, <1>4 DEF Workers, StoreFails

LEMMA MainInv ==
    ASSUME GatewayInv, Main \/ ListenFails \/ Signal
    PROVE  GatewayInv'
<1> USE DEF GatewayInv
<1>1. CASE NewPostgresClient
  BY <1>1, OpenedStep, ServiceStays DEF NewPostgresClient, Opened
<1>2. CASE NewRedisClient
  BY <1>2, OpenedStep, ServiceStays DEF NewRedisClient, Opened
<1>3. CASE NewSessionPersister
  BY <1>3, OpenedStep, ServiceStays DEF NewSessionPersister, Opened
<1>4. CASE NewMemoryService
  BY <1>4, OpenedStep, ServiceStays DEF NewMemoryService, Opened
<1>5. CASE \E r \in {"postgres", "redis"} : PingFails(r)
  BY <1>5, PingFailsStep
<1>6. CASE StartFails
  BY <1>6, DiesStep DEF StartFails
<1>7. CASE Listen
  BY <1>7, StageStep, ServiceStays DEF Listen, ProcessInv, ProcessTypes
<1>8. CASE ShutdownReturns
  BY <1>8, StageStep, ServiceStays DEF ShutdownReturns, ProcessInv, ProcessTypes
<1>9. CASE ShutdownTimesOut
  BY <1>9, DiesStep DEF ShutdownTimesOut
<1>10. CASE RunDefer
  BY <1>10, RunDeferStep, ServiceStays DEF RunDefer
<1>11. CASE MainReturns
  BY <1>11, StageStep, ServiceStays DEF MainReturns, ProcessInv, ProcessTypes
<1>12. CASE ListenFails
  BY <1>12, DiesStep DEF ListenFails
<1>13. CASE Signal
  BY <1>13, StageStep, ServiceStays DEF Signal, ProcessInv, ProcessTypes
<1> QED BY <1>1, <1>2, <1>3, <1>4, <1>5, <1>6, <1>7, <1>8, <1>9, <1>10, <1>11,
           <1>12, <1>13 DEF Main, Startup, Stopping

LEMMA GatewayNextInv == GatewayInv /\ [GatewayNext]_gateway => GatewayInv'
<1> SUFFICES ASSUME GatewayInv, [GatewayNext]_gateway PROVE GatewayInv'
  OBVIOUS
<1>1. CASE UNCHANGED gateway
  <2>1. UNCHANGED service /\ UNCHANGED <<stage, tries, signalled, defers, open>>
        /\ UNCHANGED <<queue, task, req, archiving>>
    BY <1>1 DEF gateway, service, process, memory
  <2>2. MemoryInv' /\ ServiceInv' /\ KeepInv'
    BY <2>1, ServiceStays DEF GatewayInv
  <2>3. ProcessTypes' /\ Depth' /\ Closed'
    BY <2>1 DEF GatewayInv, ProcessInv, ProcessTypes, Depth, Closed
  <2> QED BY <2>2, <2>3 DEF GatewayInv, ProcessInv
<1>2. CASE GatewayNext
  BY <1>2, MainInv, RequestsInv, WorkersInv DEF GatewayNext
<1> QED BY <1>1, <1>2

LEMMA GatewayInvariant == GatewaySpec => []GatewayInv
BY GatewayInitInv, GatewayNextInv, PTL DEF GatewaySpec

-----------------------------------------------------------------------------
(* Theorems. *)

\* Every variable of the process has its type, and only a request that waits
\* for it has its goroutine carry out a call of the memory service
\* (svr.go:110-115, memory.go:234).
THEOREM GatewayTypeCorrect == GatewaySpec => []GatewayTypeOK
<1>1. GatewayInv => GatewayTypeOK
  BY DEF GatewayInv, MemoryInv, IInv, ServiceInv, RequestTypes, ProcessInv,
         ProcessTypes, GatewayTypeOK
<1> QED BY <1>1, GatewayInvariant, PTL

\* The answer that a session is created promises all its events until the
\* session is first deleted, however its appends fail and whoever else uses it:
\* their RPUSH is done when AppendEvent returns nil, whatever happens before its
\* GET and SET (user/session.go:66-76, service.go:433-471).
THEOREM CreatedIsWhole == GatewaySpec => []CreatedWhole
<1>1. GatewayInv => CreatedWhole
  BY DEF GatewayInv, ServiceInv, Histories, CreatedWhole
<1> QED BY <1>1, GatewayInvariant, PTL

\* What is closed has none of these users left: the workers, the archive and the
\* requests (main.go:47, 56, 89, 103).  The goroutine that List leaves behind is
\* not among them.
THEOREM NothingOutlived == GatewaySpec => []UsersOutlived
<1>1. GatewayInv => UsersOutlived
  <2> SUFFICES ASSUME GatewayInv, Runs PROVE UsersOutlived
    BY DEF UsersOutlived
  <2>1. /\ defers \in Seq(Resources) /\ Len(defers) <= 4
        /\ open = {defers[i] : i \in 1 .. Len(defers)}
        /\ \A i \in 1 .. Len(defers) : defers[i] = Order[i]
    BY DEF GatewayInv, ProcessInv, ProcessTypes, Depth
  <2>2. ~(Len(defers) < 3) => {"postgres", "redis"} \subseteq open
    <3> SUFFICES ASSUME ~(Len(defers) < 3) PROVE {"postgres", "redis"} \subseteq open
      OBVIOUS
    <3>1. 1 \in 1 .. Len(defers) /\ 2 \in 1 .. Len(defers)
      BY <2>1
    <3> QED BY <2>1, <3>1, OrderIs
  <2>3. Len(defers) = 4 => open = Resources
    <3> SUFFICES ASSUME Len(defers) = 4 PROVE open = Resources
      OBVIOUS
    <3>1. /\ 1 \in 1 .. Len(defers) /\ 2 \in 1 .. Len(defers)
          /\ 3 \in 1 .. Len(defers) /\ 4 \in 1 .. Len(defers)
      OBVIOUS
    <3>2. Resources \subseteq open
      BY <2>1, <3>1, OrderIs DEF Resources
    <3> QED BY <3>2 DEF GatewayInv, ProcessInv, ProcessTypes
  <2>4. queue # <<>> \/ ~At(Worker, "idle") => ~(Len(defers) < 4)
    BY DEF GatewayInv, ProcessInv, Closed
  <2>5. archiving => ~(Len(defers) < 3)
    BY DEF GatewayInv, ProcessInv, Closed
  <2>6. (\E p \in Callers : ~On(p, "none")) => Len(defers) = 4
    BY DEF GatewayInv, ProcessInv, Closed, Depth
  <2>7. ~(Len(defers) < 4) => ~(Len(defers) < 3)
    BY <2>1
  <2> QED BY <2>2, <2>3, <2>4, <2>5, <2>6, <2>7 DEF UsersOutlived
<1> QED BY <1>1, GatewayInvariant, PTL

\* When main has returned, the channels are empty, and of the sessions never
\* deleted every event with text that a run was answered with is in the table, or
\* an error was logged for it (main.go:139, memory.go:355).  Neither the size of
\* the channel nor clients that leave, nor a request that outlives the signal, make
\* an exception.
THEOREM GracefulStop == GatewaySpec => []GracefulStopKeepsAll
<1>1. GatewayInv => GracefulStopKeepsAll
  <2> SUFFICES ASSUME GatewayInv, stage = "returned" PROVE GracefulStopKeepsAll
    BY DEF GracefulStopKeepsAll
  <2>1. Len(defers) = 0
    BY DEF GatewayInv, ProcessInv, Depth
  <2>2. queue = <<>> /\ At(Worker, "idle") /\ ~archiving
    BY <2>1 DEF GatewayInv, ProcessInv, Closed
  <2>3. \A s \in Sessions, e \in Events : ~Waits(s, e) /\ ~InWork(Worker, s, e)
    <3>1. 1 .. Len(queue) = {}
      BY <2>2
    <3> QED BY <2>2, <3>1 DEF Waits, InWork
  <2>4. ASSUME NEW s \in Sessions, life[s] = "live", NEW e \in answered[s]
        PROVE  Stored(e) \/ e \in missed
    <3>1. Safe(s, e) /\ e \in Events
      BY <2>4 DEF GatewayInv, KeepInv, ServiceInv, RequestTypes
    <3> QED BY <2>3, <3>1 DEF Safe
  <2> QED BY <2>2, <2>4 DEF GracefulStopKeepsAll, Outstanding
<1> QED BY <1>1, GatewayInvariant, PTL
=============================================================================
