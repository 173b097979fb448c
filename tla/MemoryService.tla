---------------------------- MODULE MemoryService ----------------------------
(***************************************************************************)
(* PostgresMemoryService (pkg/adk-util/memory/postgres/memory.go) and the  *)
(* memory tools (pkg/adk-util/tools/memory/toolset.go) for one user: table *)
(* memory_entries is filled with the events of a session after each run of *)
(* the agent and with what the agent saves, and edited by the agent under  *)
(* the entry IDs a search gave it.  The writes are queued for one worker;  *)
(* a caller that finds the channel full runs its call itself.              *)
(*                                                                         *)
(* Closing is the code of the session persister and is modelled there.     *)
(* Data: the content of an event is the event; an entry is named by the    *)
(* event it was made of, and its serial ID by the event and the number of  *)
(* times a row was inserted for it.                                        *)
(*                                                                         *)
(* Definitions whose name ends in _ are slips a programmer could make in   *)
(* the definition that follows them; they are no part of the specification *)
(* and show that its properties can fail.                                  *)
(***************************************************************************)
EXTENDS Naturals, Sequences, FiniteSets

CONSTANTS
    Callers,    \* goroutines that call the service
    Worker,     \* the asyncWorker goroutine
    Sessions,   \* session IDs
    NoSession,  \* no session ID
    Events,     \* the events that may occur
    Silent,     \* the events without text, as function calls
    NoEvent,    \* no event
    Texts,      \* the contents an update may write
    NoText,     \* NULL
    Kinds,      \* the kinds of calls made
    Capacity,   \* buffer size of the channel
    MaxCalls,   \* bound: calls made
    Embeds,     \* is an embedding model configured?
    Faulty,     \* may the database, Redis or the embedding model fail?
    MayVanish,  \* may a session be deleted or expire?
    MayCrash    \* may the process die and be started again?

CallKinds == {"add", "save", "update", "delete"}
Execs == Callers \cup {Worker}
Contents == Events \cup Texts

ASSUME WorkerAssumption == Worker \notin Callers
ASSUME EventAssumption == Silent \subseteq Events /\ NoEvent \notin Events
ASSUME TextAssumption ==
    /\ NoText \notin Contents
    /\ {"gone", "raced"} \cap (Contents \cup {NoText}) = {}
ASSUME BoundAssumption == Capacity \in Nat \ {0} /\ MaxCalls \in Nat
ASSUME KindAssumption == Kinds \subseteq CallKinds
ASSUME ModeAssumption ==
    /\ Embeds \in BOOLEAN /\ Faulty \in BOOLEAN
    /\ MayVanish \in BOOLEAN /\ MayCrash \in BOOLEAN

VARIABLES
    log,        \* Redis: the events of each session
    used,       \* the events that have occurred
    text,       \* memory_entries: content of the entry of an event, or NoText
    emb,        \* memory_entries: the content its embedding was made from
    gen,        \* rows inserted so far for each event
    queue,      \* asyncChan
    task,       \* what each executor is doing
    found,      \* the entry IDs each caller's last search returned
    calls,      \* calls made (bounded by MaxCalls)
    wish        \* history: what the tools were told to make of an entry

table == <<text, emb, gen>>
sessions == <<log, used>>
vars == <<log, used, text, emb, gen, queue, task, found, calls, wish>>

-----------------------------------------------------------------------------
Stored(e) == text[e] # NoText

NoCall == [kind |-> "none", sid |-> NoSession, cached |-> {}, evt |-> NoEvent,
           gen |-> 0, text |-> NoText]
Idle == [pc |-> "idle", call |-> NoCall, seen |-> {}, todo |-> {}, rows |-> {}]

At(x, pc) == task[x].pc = pc
Become(x, t) == task' = [task EXCEPT ![x] = t]
Begins(x, kind) == At(x, "begin") /\ task[x].call.kind = kind

Init ==
    /\ log = [s \in Sessions |-> {}]
    /\ used = {}
    /\ text = [e \in Events |-> NoText]
    /\ emb = [e \in Events |-> NoText]
    /\ gen = [e \in Events |-> 0]
    /\ queue = <<>>
    /\ task = [x \in Execs |-> Idle]
    /\ found = [p \in Callers |-> {}]
    /\ calls = 0
    /\ wish = [e \in Events |-> NoText]

-----------------------------------------------------------------------------
(* The sessions, kept by RedisSessionService: their event lists. *)

\* The event is in the list from its RPUSH on.
AppendEvent(s, e) ==
    /\ e \notin used
    /\ used' = used \cup {e}
    /\ log' = [log EXCEPT ![s] = @ \cup {e}]
    /\ UNCHANGED <<table, queue, task, found, calls, wish>>

\* Deleted, or its time to live has passed.
Vanish(s) ==
    /\ MayVanish
    /\ log[s] # {}
    /\ log' = [log EXCEPT ![s] = {}]
    /\ UNCHANGED <<used, table, queue, task, found, calls, wish>>

-----------------------------------------------------------------------------
(* AddSession, UpdateMemory and DeleteMemory, and the tools. *)

\* Into the channel, or, when it is full, to be run by the caller.
Submit(p, call) ==
    /\ At(p, "idle")
    /\ call.kind \in Kinds
    /\ calls < MaxCalls
    /\ calls' = calls + 1
    /\ IF Len(queue) < Capacity
       THEN queue' = Append(queue, call) /\ UNCHANGED task
       ELSE Become(p, [Idle EXCEPT !.pc = "begin", !.call = call])
             /\ UNCHANGED queue

\* The session as Get returned it at the end of a run of the agent.
AddSession(p, s) ==
    /\ Submit(p, [NoCall EXCEPT !.kind = "add", !.sid = s, !.cached = log[s]])
    /\ UNCHANGED <<sessions, table, found, wish>>

\* saveToMemory: a session of one event, made for it.
SaveToMemory(p, e) ==
    /\ e \notin used \cup Silent
    /\ used' = used \cup {e}
    /\ Submit(p, [NoCall EXCEPT !.kind = "save", !.cached = {e}])
    /\ wish' = [wish EXCEPT ![e] = e]
    /\ UNCHANGED <<log, table, found>>

\* May an update of e made now be carried out before an edit made earlier?
\* Queued, it is behind all but what callers run themselves; run by its caller,
\* it is ahead of all that is queued.
Races(e) ==
    \/ \E p \in Callers : ~At(p, "idle") /\ task[p].call.evt = e
    \/ /\ Len(queue) = Capacity
       /\ \/ \E i \in 1 .. Len(queue) : queue[i].evt = e
          \/ ~At(Worker, "idle") /\ task[Worker].call.evt = e

\* What is wanted of an entry: the deletion if one reaches it, or the last
\* update, unless it races with an earlier one.
Wanted(e, g, t) ==
    IF Stored(e) /\ gen[e] = g /\ wish[e] # "gone"
    THEN [wish EXCEPT ![e] = IF t # "gone" /\ Races(e) THEN "raced" ELSE t]
    ELSE wish

UpdateMemory(p, id, t) ==
    /\ id \in found[p]
    /\ Submit(p, [NoCall EXCEPT !.kind = "update", !.evt = id.evt,
                                !.gen = id.gen, !.text = t])
    /\ wish' = Wanted(id.evt, id.gen, t)
    /\ UNCHANGED <<sessions, table, found>>

DeleteMemory(p, id) ==
    /\ id \in found[p]
    /\ Submit(p, [NoCall EXCEPT !.kind = "delete", !.evt = id.evt,
                                !.gen = id.gen])
    /\ wish' = Wanted(id.evt, id.gen, "gone")
    /\ UNCHANGED <<sessions, table, found>>

\* SearchWithID: by vector, else by text, else the recent entries.  A query
\* is the content it matches, NoText the empty query.
Hits(q, embedded) ==
    LET all == {e \in Events : Stored(e)}
        vector == {e \in all : embedded /\ q # NoText /\ emb[e] # NoText}
        match == {e \in all : q # NoText /\ text[e] = q}
    IN  IF vector # {} THEN vector ELSE IF match # {} THEN match ELSE all

Search(p, q) ==
    /\ At(p, "idle")
    /\ \E embedded \in {Embeds} \cup (IF Faulty THEN {FALSE} ELSE {}) :
          found' = [found EXCEPT
                       ![p] = {[evt |-> e, gen |-> gen[e]] : e \in Hits(q, embedded)}]
    /\ UNCHANGED <<sessions, table, queue, task, calls, wish>>

-----------------------------------------------------------------------------
(* asyncWorker, addSessionSync, updateMemorySync, deleteMemorySync. *)

Receive ==
    /\ At(Worker, "idle")
    /\ queue # <<>>
    /\ queue' = Tail(queue)
    /\ Become(Worker, [Idle EXCEPT !.pc = "begin", !.call = Head(queue)])
    /\ UNCHANGED <<sessions, table, found, calls, wish>>

\* Every event makes a row.
BeginAdd_(x) ==
    LET c == task[x].call IN
    /\ Begins(x, "add") \/ Begins(x, "save")
    /\ LET events == IF c.kind = "add" THEN log[c.sid] ELSE c.cached
       IN  Become(x, [task[x] EXCEPT !.pc = "rows", !.seen = events,
                                     !.todo = events])
    /\ UNCHANGED <<sessions, table, queue, found, calls, wish>>

\* The events are read now.  When Redis does not answer they are those of
\* the session object; an object without events is not looked up again.
BeginAdd(x) ==
    LET c == task[x].call IN
    /\ Begins(x, "add") \/ Begins(x, "save")
    /\ IF c.cached = {} THEN Become(x, Idle)
       ELSE \E events \in {IF c.kind = "add" THEN log[c.sid] ELSE c.cached}
                             \cup (IF Faulty THEN {c.cached} ELSE {}) :
               Become(x, [task[x] EXCEPT !.pc = "rows", !.seen = events \ Silent,
                                         !.todo = events \ Silent])
    /\ UNCHANGED <<sessions, table, queue, found, calls, wish>>

\* One INSERT ... ON CONFLICT DO UPDATE; the transaction shows it at COMMIT.
\* Without a model, and when the model fails, there is no embedding.
\* (An event whose content cannot be written as JSON is passed over: left out.)
AddRow(x, e) ==
    /\ At(x, "rows")
    /\ e \in task[x].todo
    /\ \E v \in (IF Embeds THEN {e} ELSE {NoText})
                    \cup (IF Faulty THEN {NoText} ELSE {}) :
          Become(x, [task[x] EXCEPT !.todo = @ \ {e},
                                    !.rows = @ \cup {[evt |-> e, emb |-> v]}])
    /\ UNCHANGED <<sessions, table, queue, found, calls, wish>>

\* A failed INSERT is counted and the loop goes on, in a transaction that
\* PostgreSQL has aborted.
RowFails(x, e) ==
    /\ Faulty
    /\ At(x, "rows")
    /\ e \in task[x].todo
    /\ Become(x, [task[x] EXCEPT !.todo = @ \ {e}])
    /\ UNCHANGED <<sessions, table, queue, found, calls, wish>>

Written(x) == {r.evt : r \in task[x].rows}
Aborted(x) == task[x].seen # Written(x) \cup task[x].todo

\* The effect of rows R on the table.
Upsert(R) ==
    LET row(e) == CHOOSE r \in R : r.evt = e
        new == {r.evt : r \in R}
    IN  /\ text' = [e \in Events |-> IF e \in new THEN e ELSE text[e]]
        /\ emb' = [e \in Events |->
                      IF e \in new /\ (Embeds \/ ~Stored(e))
                      THEN row(e).emb ELSE emb[e]]
        /\ gen' = [e \in Events |-> IF e \in new /\ ~Stored(e)
                                    THEN gen[e] + 1 ELSE gen[e]]

\* The rows of a transaction in which an INSERT failed.
Commit_(x) ==
    /\ At(x, "rows")
    /\ task[x].todo = {}
    /\ Upsert(task[x].rows)
    /\ Become(x, Idle)
    /\ UNCHANGED <<sessions, queue, found, calls, wish>>

\* COMMIT, which rolls an aborted transaction back.
Commit(x) ==
    /\ At(x, "rows")
    /\ task[x].todo = {}
    /\ Upsert(IF Aborted(x) THEN {} ELSE task[x].rows)
    /\ Become(x, Idle)
    /\ UNCHANGED <<sessions, queue, found, calls, wish>>

\* The embedding of the old content is left.
UpdateEntry_(x) ==
    LET c == task[x].call IN
    /\ Begins(x, "update")
    /\ text' = IF Stored(c.evt) /\ gen[c.evt] = c.gen
               THEN [text EXCEPT ![c.evt] = c.text] ELSE text
    /\ Become(x, Idle)
    /\ UNCHANGED <<sessions, emb, gen, queue, found, calls, wish>>

\* An update that finds no entry writes one.
UpdateEntryUpserts_(x) ==
    LET c == task[x].call IN
    /\ Begins(x, "update")
    /\ text' = [text EXCEPT ![c.evt] = c.text]
    /\ Become(x, Idle)
    /\ UNCHANGED <<sessions, emb, gen, queue, found, calls, wish>>

\* One UPDATE, of the content and of the embedding made anew: an entry that
\* is gone is an error.
UpdateEntry(x) ==
    LET c == task[x].call
        hit == Stored(c.evt) /\ gen[c.evt] = c.gen
    IN  /\ Begins(x, "update")
        /\ text' = IF hit THEN [text EXCEPT ![c.evt] = c.text] ELSE text
        /\ emb' = IF hit /\ Embeds THEN [emb EXCEPT ![c.evt] = c.text] ELSE emb
        /\ Become(x, Idle)
        /\ UNCHANGED <<sessions, gen, queue, found, calls, wish>>

DeleteEntry(x) ==
    LET c == task[x].call
        hit == Stored(c.evt) /\ gen[c.evt] = c.gen
    IN  /\ Begins(x, "delete")
        /\ text' = IF hit THEN [text EXCEPT ![c.evt] = NoText] ELSE text
        /\ emb' = IF hit THEN [emb EXCEPT ![c.evt] = NoText] ELSE emb
        /\ Become(x, Idle)
        /\ UNCHANGED <<sessions, gen, queue, found, calls, wish>>

\* BEGIN, COMMIT or the statement of an edit fails, or the embedding that an
\* update needs: the worker only logs the error.
ExecFails(x) ==
    /\ Faulty
    /\ At(x, "begin") \/ At(x, "rows")
    /\ Become(x, Idle)
    /\ UNCHANGED <<sessions, table, queue, found, calls, wish>>

\* The process dies and a new one starts: the channel is lost.
Crash ==
    /\ MayCrash
    /\ queue' = <<>>
    /\ task' = [x \in Execs |-> Idle]
    /\ found' = [p \in Callers |-> {}]
    /\ wish' = [e \in Events |-> NoText]
    /\ UNCHANGED <<sessions, table, calls>>

-----------------------------------------------------------------------------
Ids == [evt : Events, gen : Nat]

Request(p) ==
    \/ \E s \in Sessions : AddSession(p, s)
    \/ \E e \in Events : SaveToMemory(p, e)
    \/ \E id \in found[p], t \in Texts : UpdateMemory(p, id, t)
    \/ \E id \in found[p] : DeleteMemory(p, id)
    \/ \E q \in Contents \cup {NoText} : Search(p, q)

Execute(x) ==
    \/ BeginAdd(x)
    \/ \E e \in Events : AddRow(x, e)
    \/ Commit(x)
    \/ UpdateEntry(x)
    \/ DeleteEntry(x)

Trouble(x) ==
    \/ \E e \in Events : RowFails(x, e)
    \/ ExecFails(x)

Next ==
    \/ \E s \in Sessions, e \in Events : AppendEvent(s, e)
    \/ \E s \in Sessions : Vanish(s)
    \/ \E p \in Callers : Request(p)
    \/ Receive
    \/ \E x \in Execs : Execute(x) \/ Trouble(x)
    \/ Crash

Spec == Init /\ [][Next]_vars

-----------------------------------------------------------------------------
(* Properties. *)

Call ==
    {c \in [kind : CallKinds \cup {"none"}, sid : Sessions \cup {NoSession},
            cached : SUBSET Events, evt : Events \cup {NoEvent}, gen : Nat,
            text : Contents \cup {NoText}] :
        c.kind = "add" => c.sid \in Sessions}
Row == [evt : Events, emb : Events \cup {NoText}]
Task == [pc : {"idle", "begin", "rows"}, call : Call, seen : SUBSET Events,
         todo : SUBSET Events, rows : SUBSET Row]

\* Every variable has its type, and an event without text is never stored or
\* about to be: only searchable content is remembered (memory.go:259-269).
TypeOK ==
    /\ log \in [Sessions -> SUBSET Events]
    /\ used \subseteq Events
    /\ text \in [Events -> Contents \cup {NoText}]
    /\ emb \in [Events -> Contents \cup {NoText}]
    /\ gen \in [Events -> Nat]
    /\ queue \in Seq(Call)
    /\ task \in [Execs -> Task]
    /\ found \in [Callers -> SUBSET Ids]
    /\ calls \in Nat
    /\ \A e \in Silent : ~Stored(e) /\ \A x \in Execs : e \notin task[x].todo

\* An entry that has an embedding has that of its present content: vector
\* search ranks by what it returns (memory.go:304-305, 712, 776-780).
EmbeddingFresh ==
    \A e \in Events : Stored(e) => emb[e] \in {NoText, text[e]}

\* Entries appear by whole sessions: all the events of one that its
\* transaction read, or none (memory.go:247, 343).
AllOrNothing ==
    [][LET new == {e \in Events : ~Stored(e) /\ Stored(e)'}
       IN  new # {} => \E x \in Execs : /\ At(x, "rows")
                                        /\ new \subseteq task[x].seen
                                        /\ \A e \in task[x].seen : Stored(e)']_vars

\* Nobody is still working on a call.
Quiet == queue = <<>> /\ \A x \in Execs : At(x, "idle")

\* Once every call has run, what the agent saved is there, with the content its
\* last update gave it, and a deleted entry is gone, whichever of its edits ran
\* first (toolset.go:98-100, 114-116: "Delete a memory entry permanently").
\* Nothing is said of the content of an entry whose last update may have run
\* before an earlier one, which a full channel brings about (memory.go:730-745),
\* until an update comes that does not race.
EditsLast ==
    Quiet => \A e \in Events :
        /\ wish[e] = "gone" => ~Stored(e)
        /\ wish[e] = "raced" => Stored(e)
        /\ wish[e] \in Contents => text[e] = wish[e]
=============================================================================
