# k-agent: TLA+ verification

k-agent is a gateway for ADK agents: it keeps sessions in Redis, archives them
in PostgreSQL, remembers conversations in a searchable memory table and talks to
language models. This directory holds TLA+ modules of its stateful parts, TLC
configurations that check them on small instances, and TLAPS proofs of the
results that should hold for every size. File names below are relative to
`src/pkg/adk-util/` unless they begin with `src/`.

## 1. The system

| Component | State | Operations | Hard behaviour | What makes it correct |
|---|---|---|---|---|
| Redis session service (`session/redis`) | per session a key with the session and its whole state map, a list of events; per user an index set; each with a TTL. Requests hold session objects with a copy of the state | Create, Get, List (with a background cleanup of stale IDs), Delete, AppendEvent, State.Set | every operation is several round trips with no transaction around them; keys expire between them; a call may fail halfway | a live session is listed; the index outlives what it lists; a deleted or expired session stays gone; an acknowledged write stays; every key expires in the end |
| Session persister (`session/postgres`) | bounded channel, one worker, closed flag; tables of sessions and (sharded) events | PersistSession, PersistEvent, DeleteSession, Close | a full channel makes the caller run its call beside the worker; row locks; Close beside callers; crash with a full channel | the tables are what the calls say; event numbers are unique and in order; Close loses nothing and returns |
| Memory service (`memory/postgres`) | channel and worker as above; table of entries with embeddings | AddSession, UpdateMemory, DeleteMemory, searches | the worker reads the session from Redis later; a failing row aborts the transaction while its loop goes on; edits under IDs found earlier | a session is added whole or not at all; an embedding is that of the content; edits are carried out in order; what was accepted is remembered |
| Memory tools (`tools/memory`) | entry IDs a search gave the agent | save, search, update, delete | IDs go stale | as above |
| Embedding client (`memory/postgres/embedding.go`) | detected dimension | Embed, Dimension | may fail; detected once by compare-and-swap | a failure leaves no wrong embedding |
| Anthropic adapter (`genai/anthropic`) | none between calls | GenerateContent, single or streamed | calls of tools answered late, apart or never; the stream breaks off; the caller stops listening | every request is one the API accepts; nothing else is lost; the pieces of a stream are its final text |
| OpenAI adapter (`genai/openai`) | none between calls | the same | one content becomes several messages; IDs are shortened; a single and a streamed answer are converted by different functions; no repair of the history | results have their calls; nothing is lost; both ways keep the same answer |
| Agent service, handlers (`src/internal/service/agent`, `handler`) | runner per request, the request's context | Run, RunSSE, PostRun | a client that disconnects cancels the context that the runner, PostRun and a call carried out by the request itself use; the runner fails halfway | what was answered to a client is remembered; an answered request leaves nothing running behind |
| User sessions (`src/internal/service/user`) | none | CreateSession with events, list, delete | Create and several AppendEvents, any of which may fail, while others already use the session | a creation that was answered is whole |
| Gateway (`src/cmd/gateway`), stores | what is open, the deferred closes, the signal | start with retries, serve, shutdown | a signal at any time; requests that outlast the shutdown; `log.Fatalf` skips the deferred closes | nothing is closed under its users; a graceful end loses nothing; a signal ends the process |
| Middleware, router, models, configuration | none | | a panicking request is recovered | |

How they interact: a request reaches a handler, which calls the ADK runner. The
runner Gets the session from the Redis service, asks a model adapter for
answers, runs tools (the memory tools among them) and appends each event to the
session. The Redis service, when it has written Redis, calls the persister.
After the run the agent service hands the session to the memory service, whose
worker reads its events from Redis. Persister and memory service are shared by
all requests. The ADK runner, Redis, PostgreSQL and the model providers are
external and modelled from how the code uses them.

## 2. Modules

| Module | Models | Proofs |
|---|---|---|
| `RedisSession` | `session/redis/service.go`, `state.go` | `RedisSessionProofs`, `RedisLeaseProofs` |
| `SessionPersister` | `session/postgres/persister.go` | `SessionPersisterProofs` |
| `SessionArchive` | the interface `session/persister.go`: the archive that the persister should be | |
| `MemoryService` | `memory/postgres/memory.go`, `tools/memory/toolset.go`, the hand-over in `svr.go` | `MemoryServiceProofs` |
| `AgentService` (extends `MemoryService`) | `src/internal/service/agent`, `service/user`, `handler`: the requests that write sessions | |
| `Gateway` (extends `AgentService`) | `src/cmd/gateway/main.go`, `src/internal/stores`: the process around them | `GatewayProofs` |
| `Conversation` | what the two model adapters share: the conversation, a request, an answer | |
| `AnthropicModel` (extends `Conversation`) | `genai/anthropic/anthropic.go`, `base.go` | `RequestProofs` |
| `OpenAIModel` (extends `Conversation`) | `genai/openai/openai.go`, `base.go` | `RequestProofs` |
| `ModelAdapters` (extends `Conversation`, instances of both adapters) | a conversation that is held through either | `ModelAdaptersProofs` over `RequestProofs` and `SequenceLemmas` |

What the runs check has an `MC...` module that adds what TLC needs (symmetry). A definition
whose name ends in `_` is a slip in the definition that follows it: it is no part
of the specification, and replacing the definition by it makes a property fail.

### RedisSession

One user of one application. A process is a request; its operation is split at
the Redis round trips (`CreateSet`, `CreateSAdd`, `CreateExpire`,
`CreatePersist`, and so on for the others). A pipeline without a transaction is
split as well (`DeleteKey`, `DeleteEvents`, `DeleteSRem`). A Lua script is one
step: `CleanStale`, and the state script in `StateSet`, which replaces the whole
stored map by the map of the caller's object. `ListReturn` starts a cleanup with
the IDs found stale; the cleanup runs whenever it likes. `Tick` ages every key;
RPUSH or SADD on an absent key makes one without expiry, and `SkipExpire` is the
EXPIRE whose failure is only logged. With `Faulty`, `Fail` returns early with
what has been written so far in place, and `StateSetLost` is a script that took
effect though its answer was lost. `outbox` records the calls to the
persister in order, and `last` what was last done to a session, "failed" when
the operation wrote and then returned an error.

State.Set stores the key in the object, takes a copy of its map and sends the
script. That is one step, as an object is used by one goroutine and nothing
else can be seen before the script.

Four constants stand for how the service is used. `Leased`: a session is used by
one request at a time. `QuietClock`: no operation lasts as long as a tick.
`Kinds`: which operations are in use. `NewIDs`:
sessions are created only under IDs not in use. Data: a state map is the set of its keys
(whether a key stayed is the question, its value is not), an event is a number.
Application and user state, which the service splits off by prefix, are left out.

### SessionPersister and SessionArchive

The check of the closed flag (`Call`) and the send (`Enqueue`, or `RunSync` if the
channel is full) are two steps, as the mutex is released between them;
`SendPanics` is the send on a channel closed in between, and `Recovered` the
middleware that catches it. Transactions run at READ COMMITTED: `EventOrder` is
`SELECT ... FOR UPDATE` and the MAX, `EventInsert` the INSERT and the commit;
`DeleteEventRows` and `DeleteSessionRow` are the two DELETEs with their commit. A
row lock makes other writers wait. `prows` and `pevs` are the tables as they would
be had each call run as it was made.

`SessionArchive` is the promise of the interface: pending calls, carried out one
after the other, each at once, skipped by a failure, forgotten by a crash. `pending` is mapped
to the call the worker is at followed by the channel.

### MemoryService

`AddSession`, `SaveToMemory`, `UpdateMemory` and `DeleteMemory` submit a call;
`BeginAdd` reads the session, `AddRow` / `RowFails` go through its events (in any
order, which no property tells apart), and `Commit` writes the rows or, when one of
them has failed, none. `UpdateEntry` and `DeleteEntry` act on an entry ID found by
an earlier `Search`; an ID is an event with the number of rows inserted for it, so
that an entry made anew has another one. `wish` records what the
tools asked for: a deletion for good, else the last update, or "raced" when a full
channel or a call of another caller may bring an earlier update after it (`Races`).
Close is line by line that of the persister: its races with
callers are modelled there, its place in the shutdown in Gateway.

### AgentService and Gateway

A goroutine of AgentService is a process of MemoryService that handles a request
(`req`): creating a session and appending its first events (`CreateSession`,
`CreateFails`, `CreateAnswered`), deleting one, or running the agent on one. An
append is three steps, as its round trips are: `Push` (RPUSH), `Find` (GET) and
`Store` (SET, and the persister is told), and fails at any of them by
`AppendFails`, whose call may have been carried out. A delete in between ends the
session and its list; the SET then brings the session back without the events of
before (`Restore`). Such a session is `"revived"`: every later request finds
it, and no property promises anything of it, because the code has lost its
events while it answers the requests with success.

A run finds its session (`StartRun`), the external runner appends events or fails
(`RunErrs` returns, `StreamErrs` goes on), and at its end the session is read
again and handed to the memory service (`AddSessionToMemory`), or cannot be: because
the session or the client is gone (`PostRunFails`), or because Redis fails
(`PostRunErrs`). If the channel is full the goroutine carries the call out itself,
with the context of its request; `Reply` waits for that. `Leave` is the client
disconnecting: from then on appends, the read of PostRun and a call of the goroutine
itself fail (`AppendFails`, `PostRunFails`, `Abandon`). `Remembering` is the memory
service at work, and `RememberFails` an INSERT, a COMMIT or a connection that fails, or
the 30 seconds of a queued call that are up. These errors are logged and the
client is answered with success all the same; `missed` is the set of events that
this has happened to.

Gateway is the process. `stage` is how far main has got; what it has opened it
closes by `RunDefer`, in reverse order, each service waiting for its worker
(`Drained`). `Signal` may come at any time: the statements of the start-up that have
its context fail then, the pings of Redis do not notice. `ShutdownReturns` waits
for every request, `ShutdownTimesOut` gives up, and like every `log.Fatalf` ends the
process with what is in its channels (`Dies`). Of the session persister only
whether it is through its channel matters here (`archiving`).

The module composes the memory service as a whole with the requests. The session
service appears as its callers see it: RedisSession has the interleavings of its
round trips, which would multiply with those of the process. Only the append, where
a delete in between loses what was answered, is split here as well; Create and
Delete are one step each, and `CreateSessionFails` is a Create that stored its session
and then returned an error. Which step of them a request is at makes no difference
to the properties: an append or a run that finds the session is the same before and
after the calls that only concern the index and times to live.

### Conversation, AnthropicModel, OpenAIModel, ModelAdapters

Conversation has the runner (`UserSays`, `ToolsAnswer`: tools may answer some calls
only, late or never, and a client may say something with their results) and the
life of a request: it is built and sent (`Asks`), the answer arrives (`BlockStarts`
and the text deltas), and it ends as `Final`, `Fails` or `Stops`, when the caller
leaves the stream.

AnthropicModel converts the history (`ConvertPart`, `Messages`) and repairs it
(`AnsweredIDs`, `FilterToolUse`, `RepairMessageHistory`). OpenAIModel makes of one
content the messages of its results (`ToolMessages`) and one of its role
(`BuildRoleMessage`), and does not repair. IDs that a provider would not accept are
replaced (`SanitizeToolID`, `NormalizeToolCallID`), by different ones for different
IDs as SHA-256 makes them. The conversions of single and streamed answers are
apart in OpenAIModel as in the code (`ConvertResponse`, `BuildStreamFinalResponse`).

ModelAdapters chooses the provider for each request: sessions outlive the process
that is configured with one, so that either adapter may be given a history the
other has made.

## 3. What the runs check

| Run | Instance | Properties | Shows |
|---|---|---|---|
| `redis_index` | 2 requests, 2 sessions, TTL of 2 ticks, 5 operations (create, get, append, list), quiet clock, fairness | TypeOK, IndexCoversLive, IndexOutlivesListed, OnlyCreateRevives, EventuallyReclaimed | List and its cleanup never lose a live session, the index outlives what it lists, only Create revives, nothing is left without a TTL |
| `redis_leased` | 2 requests that take turns, 1 session, 2 state keys, all operations, failing calls, any clock, 4 operations | AckedStateSurvives, OutboxAgrees | a write that returned nil stays; between the operations on a session the persister was last told what was last done to it, unless that returned an error |
| `redis_lost_update` | 2 requests, create (of IDs not in use), get and set | AckedStateSurvives **fails** | finding 1 |
| `persister_fifo` | 2 callers, 2 sessions, 4 calls, room in the channel, Close and crashes | TypeOK, SettledArchive, ArchiveSpec | the persister implements the archive |
| `persister_overflow` | 2 callers, a session with a row, channel of 1, 4 calls, failures, Close | NextOrderFree, CloseDrains, CloseReturns, QueueDrains | numbering, draining and progress with callers beside the worker |
| `persister_overtake` | 1 caller, channel of 1 | SettledArchive **fails** | finding 2 |
| `persister_panic` | 1 caller, Close | NoPanic **fails** | finding 3 |
| `memory_tools` | 2 callers, 2 events, 2 texts, channel of 2, 6 calls | EditsLast | saves and edits end up as asked for, also when the channel is full: a deleted entry is gone whichever edit runs first; the content is left open only when an update could overtake another |
| `memory_rows` | a session with 3 events, one silent, channel of 1, failures of every statement and embedding, vanishing session, crashes | TypeOK, EmbeddingFresh, AllOrNothing | whole sessions and fresh embeddings |
| `gateway` | 2 goroutines and 2 requests on one session, 2 events, one of the goroutines streaming, channel of 1, failing calls of Redis and PostgreSQL, deletes between the round trips of an append, one client gone at a time, 2 pings per store, fairness | GatewayTypeOK, CreatedWhole, UsersOutlived, GracefulStopKeepsAll, SignalEnds, Remembered | from start-up to the end of the process: creations are whole, nothing is closed under its users, a signal ends the process, what was answered is remembered or an error was logged for it |
| `gateway_left` | the same without failing calls | StreamsRemembered **fails** | finding 4 |
| `model_history` | conversations of 5 contents over both providers, 2 tool-call IDs, one of them long and not acceptable, answers of 2 blocks and 2 deltas | TypeOK, ToolUsesAnswered, OnlyOrphansDropped, ToolMessagesMatch, HistorySent, PartialsAddUp, AnswerKept | requests are well formed and complete, streams add up, the answer is kept |

### Bounds and why they are enough

`MaxOps`, `MaxCalls`, `MaxRequests`, `MaxContents`, `MaxBlocks` and `MaxDeltas` bound
counters, `MaxGone` the clients that have disconnected at the same time;
everything else is an instance of a constant.

* Redis: the hazards are races of two requests over one session or over the index
  they share. Five operations allow create, append, list and its cleanup beside a
  second creation. With a TTL of two ticks a key can be refreshed halfway, and
  expire before or after another one.
* Persister: a session, an event and a delete in the channel and one more call
  overtake each other with four calls; the channel of one is full as soon as one
  call waits.
* Memory: one session with two rows to add is enough for half a session; an
  update between search and execution needs three calls. With room for two calls in
  the channel and six calls a caller finds it full behind edits of the same
  entry and of another one, and there are calls left to edit it once more.
* Gateway: two requests of one session are a creation beside a delete or a run, and
  two runs, so that a delete comes between the round trips of either. One
  goroutine streams, the other does not; one client at a time has disconnected, as
  what it means for a request does not depend on others. The channel of one is full when the second run ends before the worker
  has taken the first; two pings are a retry and a last attempt.
* Adapters: a late answer needs user, model with calls, user, result and the next
  request; five contents leave room for an answer in between.

Deadlock is checked everywhere but in `model_history`, where a conversation that
has reached its bound stops, and in the runs of the gateway, where the process
ends.

### Fairness

Weak fairness of each started operation, of the worker, of a pending cleanup, of
Close once it has begun, and of time: Go schedules runnable goroutines, Redis and
PostgreSQL answer or time out, and a row lock is released by a transaction that
is itself under fairness. Nobody has to send a request, to call Close, or to
crash, and no operation has to fail or to succeed. In Gateway main and the workers are
under weak fairness: a ping, Shutdown and a deferred close return or time out. No
request has to get on, so that a stream may last for ever, and no signal has to
come. `EventuallyReclaimed` is
checked with calls that do not fail, because a failed EXPIRE leaves a key without
TTL (`service.go:440`, a listed hazard).

## 4. Findings

1. **Lost state** (`redis_lost_update`, `session/redis/state.go:110`). The script is
   said to prevent "race conditions in concurrent scenarios" (`state.go:103-104`),
   but it replaces the stored map by the map of one session object, so that of two
   requests that set different keys the second removes the first one's. The run: one
   request creates a session, another Gets it and Sets k1, the creator Sets k2, and
   k1 is gone.
2. **Overtaking** (`persister_overtake`, `session/postgres/persister.go:395`). A
   DeleteSession that finds the channel full runs before the queued
   PersistSession; the archive keeps a deleted session.
3. **Panic at Close** (`persister_panic`, `persister.go:201`). A call that has passed
   the check of the closed flag sends on a channel that Close closes meanwhile. It
   was promised the error "persister is closed".
4. **Unremembered streams** (`gateway_left`, `src/internal/handler/agent.go:122`). When
   the client of a stream disconnects, PostRun gets the cancelled context, cannot
   read the session, and the events the run has appended are not remembered,
   although PostRun is to be called "after streaming completes"
   (`src/internal/service/agent/svr.go:152`) to do just that. A later run of the
   session makes up for it; there need not be one.

What else the models show, kept as hazards because the code promises nothing
else, or only a run with the operation in question would show it:

* AppendEvent stores the session it read two round trips before
  (`service.go:446`, `471`); after a Delete in between, the session is back and not
  in the index. This is why `redis_index` leaves deletes out and
  `NoRevival` needs its assumption. The event itself is lost as well, its list having
  been deleted after the RPUSH, while AppendEvent returns nil and a creation is answered
  with 201: the properties of Gateway speak of sessions that were never deleted.
* A run whose session cannot be read afterwards, or whose rows, commit or time-out
  fail in the memory service, is answered with success and not remembered; only a
  log line tells (`src/internal/service/agent/svr.go:111-113`,
  `memory/postgres/memory.go:195-211`, `335-346`). Remembered and
  GracefulStopKeepsAll say that nothing is lost without one.
* A Create or a Delete that fails after it has written Redis does not tell the
  persister (`service.go:149-167`, `384-389`): the archive then lacks a session
  that lives, or keeps one that is gone, until the next operation on it.
* An update that finds the channel of the memory service full overtakes the updates
  that are queued, and an older one ends up as the content
  (`memory/postgres/memory.go:730-745`). EditsLast leaves such a content open.
* The goroutine in which List cleans up the index outlives its request and Shutdown
  and may find Redis closed (`service.go:356-365`); its error is logged and the IDs
  stay for the next List.
* State.Set renews the session's TTL and not the index's, so that a session that
  is only written to outlives the index; `IndexAlignment` needs its assumption
  for that.
* A session without a row in the archive has nothing to lock, so that two
  executors may compute the same event number; the unique constraint then rejects
  one of the events (`persister.go:300-309`).
* An entry that was deleted "permanently" (`toolset.go:114`) is back when its
  session is added again after the next run (`memory.go:304`).
* A stream that outlasts the ten seconds of Shutdown makes main call `log.Fatalf`:
  the deferred closes do not run, and sessions of other runs, answered long before,
  are lost from the channel (`src/cmd/gateway/main.go:136`).
* A message with a part of an unsupported MIME type stays in its session, and every
  later request of it fails while it is built, with either provider.
* A search without a match answers with the latest entries (`memory.go:621`).
* A result that came late stays in the request as a `tool_result` without its
  `tool_use`: only the converse is repaired (`genai/anthropic/base.go:180`). The
  OpenAI adapter sends open calls as they are (`genai/openai/openai.go:131`).

## 5. What is proved

All for any number of processes, sessions, keys, calls, and any TTL or capacity,
from the named assumptions on the constants alone.

* `RedisSessionProofs!TypeCorrect`: `Spec => []TypeOK`. TypeOK is inductive: it
  contains that an operation on a session names one, and that a list or set is
  absent exactly when empty.
* `RedisSessionProofs!IndexAlignment`: `[]IndexOutlivesListed`, if calls do not
  fail and State.Set is not used. With TypeOK it is inductive as it stands,
  because it excuses exactly the requests between their SET and their EXPIRE; the
  work is in showing that every other step takes from the index or from a
  session's TTL, and that ticking takes from both alike.
* `RedisSessionProofs!NoRevival`: `OnlyCreateRevives`, failing calls included, if
  AppendEvent is not used, or if nothing removes a session between its GET and its
  SET (quiet clock, and no Delete or only of sessions nobody uses). The invariant is
  that a session an append is about to store is live (AppendsLive).
* `RedisLeaseProofs` is about callers that use a session one request at a time
  (`Leased`). Its invariant LeaseInv says that no two requests use one session
  (Exclusive), that an operation is about the session of its request's object
  (Carries), that what is being deleted is gone (Deleted), and that the object has
  every key that was acknowledged (Holds). From it, for failing calls and any clock:
  `AcknowledgedStays` (`[]AckedStateSurvives`) and `PersisterIsTold` (`[]OutboxAgrees`);
  the latter adds that what was last done to a session is what the persister was
  last told of it, or what an operation under way is about to tell, or returned an
  error (TellInv).
* `RedisLeaseProofs!ListedWhileLive`: `[]IndexCoversLive`, if calls do not fail, the
  clock is quiet, State.Set is not used and there is no Delete or only of sessions
  nobody uses. It takes IndexOutlivesListed (the index does not expire first),
  AppendsLive (an append stores no session that left the index) and Deleted (SREM
  takes only what is gone). Each hypothesis excludes a hazard of section 4 or of the
  list of hazards.
* `SessionPersisterProofs!TypeCorrect`: `[]TypeOK`, with the invariant Typed.
* `SessionPersisterProofs!CloseIsComplete`: `[]CloseDrains`. CloseDrains says
  nothing before Close has returned; the invariant DrainInv adds that calls
  accepted are those settled, those in the channel and the one in the worker's
  hand, and that the worker leaves only a closed and empty channel.
* `SessionPersisterProofs!NumbersAreFree`: `[]NextOrderFree`, for sessions that have a
  row and keep it: the row is what an executor locks. The invariant says that every
  executor between its MAX and its INSERT has the lock, and a number above all that
  are in the table.
* `SessionPersisterProofs!ArchiveRefined`: `Spec /\ NeverFull => ArchiveSpec`. NeverFull
  says that no caller finds the channel full; otherwise it is refuted (finding 2).
  The worker alone writes then, events are numbered without a gap (Dense), so that
  the number it took is still the next one when it inserts. Each step maps to one
  of the archive or to a stutter.
* `SessionPersisterProofs!ArchiveSettles`: `Spec /\ NeverFull => []SettledArchive`, if
  database operations do not fail. The invariant Kept says that the calls that are
  pending, applied one after the other to the tables, lead to what was promised.
* `MemoryServiceProofs!TypeCorrect` and `EmbeddingsFollowContents`: `[]TypeOK` and
  `[]EmbeddingFresh`. The invariant adds RowsFresh: the rows of an open transaction
  hold the embedding of their own event or none.
* `MemoryServiceProofs!SessionsAreWhole`: the action property AllOrNothing, from Whole:
  the rows inserted and those to insert are of the events the executor has read.
* `MemoryServiceProofs!LastEditWins`: `Spec /\ HasRoom => []EditsLast`, if no session is
  added, nothing fails and no caller finds the channel full; no update races with
  another then, so that nothing is excepted (NoneRaced). The invariant InOrder
  follows each entry through the places a call about it can be at, the worker first
  and then the channel: the last of them, or the table, has what was wished.
* `GatewayProofs`: `GatewayTypeCorrect`, `CreatedIsWhole`, `NothingOutlived` and
  `GracefulStop`, that is `[]GatewayTypeOK`, `[]CreatedWhole`, `[]UsersOutlived` and
  `[]GracefulStopKeepsAll` of the whole process, from one invariant, GatewayInv. Its
  parts: what the memory service guarantees, and that the rows of a transaction
  are of the events it read unless an error was logged (MemoryInv, Rowwise); that until
  its session is first deleted a request's events are in the log, the one it has
  pushed and not yet stored among them, and so is what was created and answered
  (ServiceInv, Pushed); where an answered event is: in the table, missed, in the channel
  or in an executor's hand, by a call whose cached session covers it (KeepInv,
  Covers); and that what is open is a prefix of the order of opening, with requests
  under way only while all of it is (ProcessInv). Failing calls, failing stores and
  deletes between the round trips of an append are in all of them. Not covered:
  sessions that an append brought back, whose events the code loses, and the cleanup
  goroutine of List.

* `ModelAdaptersProofs`: every property of the adapters, for conversations of every
  length with any number of calls, texts and provider changes:
  `ModelsTypeCorrect`, `UsesAnswered`, `NothingElseDropped`, `MessagesMatch`,
  `NothingLost` and `StreamsAddUp`, that is TypeOK, ToolUsesAnswered,
  OnlyOrphansDropped, ToolMessagesMatch, HistorySent and PartialsAddUp, and the action
  property AnswerKept (`AnswersKept`). The properties of a request are not inductive:
  they say nothing while none is being answered, and of the history only what is in
  the request. The invariant says that contents are what the runner may add, that
  every result in the history has its call before it and every open call is in it
  (HistoryInv), that the request, while it is being answered, is the conversion of
  the history (RequestInv), and that the pieces yielded so far are the text of the
  blocks received so far (AnswerInv).

How the adapters are proved about. What a conversion does to a history of any
length needs an induction over sequences, and the induction theorems of the
library take an operator. `SequenceLemmas` does without: it takes the least element
of the set of counterexamples, which exists because the finite sets `1 .. n` are
well-founded, and from that derives what FlattenSeq does to a sequence that grows at
its end, when it commutes with another conversion, and where each element ends up
(FlattenPlaces). Every conversion of the adapters makes a sequence of every
element and puts them together, which is why the model writes a filter as
`Chosen` rather than as SelectSeq: the two are equal, but the definition of the
latter is a recursion that no prover here unfolds. `RequestProofs` says what the
conversions make of a history, without the state machine: for OpenAI, that the texts
and calls of a request are those of the history, and that a message of a result comes
after the message of its call, since its content does; for Anthropic, that a call is
kept by the repair exactly if the next message has its result, and that the
message with that result still follows it when messages that were left empty have
been taken out.

The one assumption there that is not about sets of IDs is HashAssumption. An ID of
more than 40 bytes is replaced by one of 40 (`genai/openai/openai.go:227`), so that
no replacement is too long itself; and an ID that Anthropic would not accept is
replaced by a SHA-256 hash, which is not also the ID that a provider has given to
some other call. TLC evaluates it on the instance of `model_history`.

Only model-checked: the liveness properties EventuallyReclaimed, CloseReturns,
QueueDrains, SignalEnds and Remembered, as the prover does not do fairness. The
other properties of the passing runs are proved, some under the hypotheses named
above. The instances of their runs satisfy these, but for EditsLast: its run also
has callers that find the channel full.

## 6. Not modelled

* The values of state keys, application and user state, texts, embeddings,
  similarity, ranking; the wording of logs.
* The embedding client's HTTP call and its detected dimension, which is the same
  whoever detects it; a change of the embedding model between two starts.
* Pool sizes, waiting times between pings, the pool monitor (it logs).
* Requests that only read or are refused for their parameters; partial events of a
  stream, which are shown and not stored.
* In Gateway, the expiry of sessions, which has the effect of a delete, and List
  with the goroutine it leaves behind: RedisSession has both. What an `"add"` reads that
  Redis fails is the session's cached events, as in MemoryService.
* An event whose content cannot be written as JSON, which `addSessionSync` passes
  over (`memory/postgres/memory.go:272-277`).
* Messages of roles other than user and model in the OpenAI adapter
  (`genai/openai/openai.go:307-311`), which the runner does not add, and the newline
  by which it joins texts (`genai/openai/base.go:306`): what is asked is whether a text
  is sent, and in which order.
* Tool schemas, arguments, usage figures, model configuration: conversions without
  state that nothing in the models depends on.
* Router, CORS, request logging, configuration: no state and no order to get
  wrong.
* TTLs below one second, which the state script turns into no expiry
  (`state.go:120`): the model's TTL is a whole number of seconds.

## 7. Plan

Built in this order, the state that everything else rests on first:
`RedisSession`, `SessionPersister` over `SessionArchive`, `MemoryService`,
`AnthropicModel`; then `AgentService` and `Gateway` over `MemoryService`, `OpenAIModel`
and `ModelAdapters` over `Conversation`; then the proofs, in the same order. Next:

1. The archived state map of the persister; embeddings across a restart with another
   embedding model.
2. RedisSession as an implementation of a session service whose operations are
   atomic, for the operations for which it is one.
