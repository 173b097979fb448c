----------------------- MODULE SessionPersisterProofs -----------------------
(***************************************************************************)
(* Theorems about SessionPersister, for every value of its constants.      *)
(***************************************************************************)
EXTENDS SessionPersister, SequenceTheorems, FiniteSetTheorems, TLAPS

-----------------------------------------------------------------------------
(* Close drains the channel.  CloseDrains alone is not inductive: it needs  *)
(* the balance of the calls that entered the channel, and that the worker   *)
(* leaves its loop only from a channel that is closed and empty.            *)

Busy == {"begin", "insert", "remove"}
InHand == IF task[Worker].pc \in Busy THEN 1 ELSE 0

\* What Close, the channel and the worker know of each other.
WorkerInv ==
    /\ DOMAIN task = Execs
    /\ task[Worker].pc \in Busy \cup {"idle", "exited"}
    /\ task[Worker].pc = "exited" => chanClosed /\ queue = <<>>
    /\ closer = "closed" /\ Async => task[Worker].pc = "exited"
    /\ ~Async => queue = <<>> /\ task[Worker].pc = "idle" /\ ~chanClosed

\* The calls accepted are those settled, those waiting and the one in hand.
Balance ==
    /\ queue \in Seq(Calls)
    /\ accepted \in Nat /\ settled \in Nat
    /\ accepted = settled + Len(queue) + InHand

\* The calls that callers hold are calls.
CallTypes ==
    /\ calls \in Nat
    /\ \A p \in Producers : task[p].pc = "send" => task[p].call \in Calls

DrainInv == WorkerInv /\ Balance /\ CallTypes

\* The worker is not a caller.
LEMMA WorkerApart == Worker \in Execs /\ \A p \in Producers : p \in Execs /\ p # Worker
BY WorkerAssumption DEF Execs

LEMMA InitDrain == Init => DrainInv
<1> SUFFICES ASSUME Init PROVE DrainInv
  OBVIOUS
<1>1. task[Worker] = Idle /\ \A p \in Producers : task[p] = Idle
  BY WorkerApart DEF Init
<1>2. WorkerInv
  BY <1>1 DEF Init, WorkerInv, Busy, Idle
<1>3. InHand = 0
  BY <1>1 DEF InHand, Busy, Idle
<1>4. Balance
  <2>1. queue = <<>> /\ accepted = 0 /\ settled = 0
    BY DEF Init
  <2> QED BY <1>3, <2>1 DEF Balance
<1>5. Idle.pc = "idle"
  BY DEF Idle
<1>6. CallTypes
  BY <1>1, <1>5 DEF Init, CallTypes
<1> QED BY <1>2, <1>4, <1>6 DEF DrainInv

\* A step of a caller that leaves the channel and Close alone.
LEMMA CallerStep ==
    ASSUME DrainInv, NEW p \in Producers, NEW t, Become(p, t),
           t.pc = "send" => t.call \in Calls,
           calls' \in Nat,
           UNCHANGED <<queue, chanClosed, closer, accepted, settled>>
    PROVE  DrainInv'
<1>1. task'[Worker] = task[Worker] /\ DOMAIN task' = Execs
  BY WorkerApart DEF Become, DrainInv, WorkerInv
<1>2. WorkerInv'
  BY <1>1 DEF WorkerInv, DrainInv
<1>3. Balance'
  BY <1>1 DEF Balance, InHand, DrainInv
<1>4. CallTypes'
  BY WorkerApart DEF CallTypes, DrainInv, WorkerInv, Become
<1> QED BY <1>2, <1>3, <1>4 DEF DrainInv

LEMMA ProduceDrain ==
    ASSUME DrainInv, NEW p \in Producers, Produce(p)
    PROVE  DrainInv'
<1>1. ASSUME NEW kind \in CallKinds, NEW s \in Sessions, Call(p, kind, s)
      PROVE  DrainInv'
  <2> DEFINE c == [id |-> calls', kind |-> kind, sid |-> s]
  <2>1. calls' \in 1 .. MaxCalls
    BY <1>1, MaxCallsAssumption DEF Call, DrainInv, CallTypes
  <2>2. Doing("send", c).call \in Calls
    BY <2>1 DEF Doing, Idle, Calls
  <2> QED BY <1>1, <2>1, <2>2, CallerStep DEF Call, channel, closing
<1>2. CASE CallRejected(p)
  BY <1>2 DEF CallRejected, channel, closing, DrainInv, WorkerInv, Balance,
     InHand, CallTypes
<1> QED BY <1>1, <1>2 DEF Produce

LEMMA ProceedDrain ==
    ASSUME DrainInv, NEW p \in Producers, Proceed(p)
    PROVE  DrainInv'
<1>1. CASE Enqueue(p)
  <2>1. task'[Worker] = task[Worker] /\ DOMAIN task' = Execs
    BY <1>1, WorkerApart DEF Enqueue, Become, DrainInv, WorkerInv
  <2>2. WorkerInv'
    BY <1>1, <2>1 DEF Enqueue, closing, WorkerInv, DrainInv
  <2>3. queue' \in Seq(Calls) /\ Len(queue') = Len(queue) + 1
    <3>1. queue \in Seq(Calls) /\ task[p].call \in Calls
      BY <1>1 DEF Enqueue, At, DrainInv, Balance, CallTypes
    <3>2. queue' = Append(queue, task[p].call)
      BY <1>1 DEF Enqueue
    <3> QED BY <3>1, <3>2, AppendProperties
  <2>4. accepted' = accepted + 1 /\ settled' = settled /\ Len(queue) \in Nat
    BY <1>1 DEF Enqueue, DrainInv, Balance
  <2>5. Balance'
    BY <2>1, <2>3, <2>4 DEF Balance, DrainInv, InHand
  <2>6. CallTypes'
    BY <1>1, WorkerApart DEF Enqueue, CallTypes, DrainInv, WorkerInv, Become, Idle
  <2> QED BY <2>2, <2>5, <2>6 DEF DrainInv
<1>2. CASE RunSync(p)
  BY <1>2, CallerStep
     DEF RunSync, Doing, Idle, channel, closing, DrainInv, CallTypes
<1>3. CASE SendPanics(p)
  BY <1>3, CallerStep
     DEF SendPanics, Idle, channel, closing, DrainInv, CallTypes
<1>4. CASE Recovered(p)
  BY <1>4, CallerStep
     DEF Recovered, Idle, channel, closing, DrainInv, CallTypes
<1> QED BY <1>1, <1>2, <1>3, <1>4 DEF Proceed

\* The end of a transaction.
LEMMA FinishDrain ==
    ASSUME DrainInv, NEW x \in Execs, task[x].pc \in Busy, Finish(x),
           UNCHANGED <<queue, chanClosed, closer, accepted, calls>>
    PROVE  DrainInv'
<1>1. CASE x # Worker
  <2>1. x \in Producers
    BY <1>1 DEF Execs
  <2> QED BY <1>1, <2>1, CallerStep
          DEF Finish, Idle, DrainInv, CallTypes
<1>2. CASE x = Worker
  <2>1. task'[Worker] = Idle /\ DOMAIN task' = Execs
    BY <1>2 DEF Finish, Become, DrainInv, WorkerInv
  <2>2. WorkerInv'
    BY <1>2, <2>1 DEF WorkerInv, DrainInv, Idle, Busy
  <2>3. InHand = 1 /\ InHand' = 0 /\ settled' = settled + 1
    BY <1>2, <2>1 DEF InHand, Finish, Idle, Busy
  <2>4. Balance'
    BY <2>3 DEF Balance, DrainInv
  <2>5. CallTypes'
    BY <1>2, WorkerApart DEF CallTypes, DrainInv, Finish, Become, WorkerInv
  <2> QED BY <2>2, <2>4, <2>5 DEF DrainInv
<1> QED BY <1>1, <1>2

\* A transaction goes on.
LEMMA TransactionStep ==
    ASSUME DrainInv, NEW x \in Execs, task[x].pc \in Busy,
           NEW t, t.pc \in Busy, Become(x, t),
           UNCHANGED <<queue, chanClosed, closer, accepted, settled, calls>>
    PROVE  DrainInv'
<1>1. CASE x # Worker
  <2>1. x \in Producers /\ t.pc # "send"
    BY <1>1 DEF Execs, Busy
  <2> QED BY <2>1, CallerStep DEF DrainInv, CallTypes
<1>2. CASE x = Worker
  <2>1. task'[Worker] = t /\ DOMAIN task' = Execs
    BY <1>2 DEF Become, DrainInv, WorkerInv
  <2>2. WorkerInv'
    BY <1>2, <2>1 DEF WorkerInv, DrainInv, Busy
  <2>3. InHand' = InHand
    BY <1>2, <2>1 DEF InHand
  <2>4. Balance'
    BY <2>3 DEF Balance, DrainInv
  <2>5. CallTypes'
    BY <1>2, WorkerApart DEF CallTypes, DrainInv, Become, WorkerInv
  <2> QED BY <2>2, <2>4, <2>5 DEF DrainInv
<1> QED BY <1>1, <1>2

LEMMA ExecuteDrain ==
    ASSUME DrainInv, NEW x \in Execs, Execute(x) \/ ExecFails(x)
    PROVE  DrainInv'
<1>1. CASE UpsertSession(x)
  BY <1>1, FinishDrain DEF UpsertSession, Begins, At, Busy, channel, closing
<1>2. CASE EventOrder(x)
  <2> DEFINE t == [Doing("insert", task[x].call)
                     EXCEPT !.next = NextOrder(evs[SidOf(x)])]
  <2>1. t.pc \in Busy
    BY DEF Doing, Idle, Busy
  <2>2. Become(x, t)
    BY <1>2 DEF EventOrder
  <2> HIDE DEF t
  <2> QED BY <1>2, <2>1, <2>2, TransactionStep
          DEF EventOrder, Begins, At, Busy, channel, closing
<1>3. CASE EventInsert(x)
  BY <1>3, FinishDrain DEF EventInsert, At, Busy, channel, closing
<1>4. CASE DeleteEventRows(x)
  <2> DEFINE t == [Doing("remove", task[x].call) EXCEPT !.seen = evs[SidOf(x)]]
  <2>1. t.pc \in Busy
    BY DEF Doing, Idle, Busy
  <2>2. Become(x, t)
    BY <1>4 DEF DeleteEventRows
  <2> HIDE DEF t
  <2> QED BY <1>4, <2>1, <2>2, TransactionStep
          DEF DeleteEventRows, Begins, At, Busy, channel, closing
<1>5. CASE DeleteSessionRow(x)
  BY <1>5, FinishDrain DEF DeleteSessionRow, At, Busy, channel, closing
<1>6. CASE ExecFails(x)
  BY <1>6, FinishDrain DEF ExecFails, Busy, channel, closing
<1> QED BY <1>1, <1>2, <1>3, <1>4, <1>5, <1>6 DEF Execute

LEMMA WorkDrain ==
    ASSUME DrainInv, Work
    PROVE  DrainInv'
<1>1. CASE Receive
  <2>1. task'[Worker] = Doing("begin", Head(queue)) /\ DOMAIN task' = Execs
    BY <1>1, WorkerApart DEF Receive, Become, DrainInv, WorkerInv
  <2>2. WorkerInv'
    BY <1>1, <2>1 DEF Receive, At, closing, WorkerInv, DrainInv, Doing, Idle, Busy
  <2>3. InHand = 0 /\ InHand' = 1
    BY <1>1, <2>1 DEF Receive, At, InHand, Doing, Idle, Busy
  <2>4. queue' \in Seq(Calls) /\ Len(queue') = Len(queue) - 1 /\ Len(queue) \in Nat
    <3>1. queue \in Seq(Calls) /\ queue # <<>> /\ queue' = Tail(queue)
      BY <1>1 DEF Receive, DrainInv, Balance
    <3> QED BY <3>1, HeadTailProperties
  <2>5. Balance'
    BY <1>1, <2>3, <2>4 DEF Receive, Balance, DrainInv
  <2>6. CallTypes'
    BY <1>1, WorkerApart DEF Receive, CallTypes, DrainInv, WorkerInv, Become
  <2> QED BY <2>2, <2>5, <2>6 DEF DrainInv
<1>2. CASE WorkerExit
  <2>1. task'[Worker].pc = "exited" /\ DOMAIN task' = Execs
    BY <1>2, WorkerApart DEF WorkerExit, Become, Idle, DrainInv, WorkerInv
  <2>2. WorkerInv'
    BY <1>2, <2>1 DEF WorkerExit, channel, closing, WorkerInv, DrainInv
  <2>3. InHand = 0 /\ InHand' = 0
    BY <1>2, <2>1 DEF WorkerExit, At, InHand, Busy
  <2>4. Balance'
    BY <1>2, <2>3 DEF WorkerExit, channel, Balance, DrainInv
  <2>5. CallTypes'
    BY <1>2, WorkerApart
       DEF WorkerExit, channel, CallTypes, DrainInv, WorkerInv, Become
  <2> QED BY <2>2, <2>4, <2>5 DEF DrainInv
<1> QED BY <1>1, <1>2 DEF Work

LEMMA CloseDrain ==
    ASSUME DrainInv, Close
    PROVE  DrainInv'
<1>1. task' = task /\ queue' = queue /\ calls' = calls
      /\ accepted' = accepted /\ settled' = settled
  BY DEF Close, CloseBegin, CloseChannel, CloseReturn, channel
<1>2. WorkerInv'
  BY <1>1 DEF DrainInv, WorkerInv, Close, CloseBegin, CloseChannel,
     CloseReturn, At, channel
<1> QED BY <1>1, <1>2 DEF DrainInv, Balance, InHand, CallTypes

LEMMA CrashDrain ==
    ASSUME DrainInv, Crash
    PROVE  DrainInv'
<1>1. task'[Worker] = Idle /\ \A p \in Producers : task'[p] = Idle
  BY WorkerApart DEF Crash
<1>2. WorkerInv'
  BY <1>1 DEF Crash, WorkerInv, Busy, Idle
<1>3. InHand' = 0
  BY <1>1 DEF InHand, Busy, Idle
<1>4. Balance'
  <2>1. queue' = <<>> /\ accepted' = 0 /\ settled' = 0
    BY DEF Crash
  <2> QED BY <1>3, <2>1 DEF Balance
<1>5. Idle.pc = "idle"
  BY DEF Idle
<1>6. CallTypes'
  BY <1>1, <1>5 DEF Crash, DrainInv, CallTypes
<1> QED BY <1>2, <1>4, <1>6 DEF DrainInv

LEMMA NextDrain == DrainInv /\ [Next]_vars => DrainInv'
<1> SUFFICES ASSUME DrainInv, [Next]_vars PROVE DrainInv'
  OBVIOUS
<1>1. CASE UNCHANGED vars \/ Stopped
  BY <1>1 DEF Stopped, vars, DrainInv, WorkerInv, Balance, InHand, CallTypes
<1> QED BY <1>1, ProduceDrain, ProceedDrain, ExecuteDrain, WorkDrain,
           CloseDrain, CrashDrain DEF Next

\* Whatever the size of the channel and however callers, worker and Close
\* interleave, with failing operations and crashes, a Close that has returned
\* has left no accepted call behind.
THEOREM CloseIsComplete == Spec => []CloseDrains
<1>1. DrainInv => CloseDrains
  <2> SUFFICES ASSUME DrainInv, closer = "closed"
               PROVE  queue = <<>> /\ settled = accepted
    BY DEF CloseDrains
  <2>1. queue = <<>> /\ InHand = 0
    BY ModeAssumption DEF DrainInv, WorkerInv, InHand, Busy
  <2> QED BY <2>1 DEF DrainInv, Balance
<1> QED BY <1>1, InitDrain, NextDrain, PTL DEF Spec

-----------------------------------------------------------------------------
(* Type correctness.  The next event_order is a number because a set of     *)
(* numbered events has a last one.                                          *)

\* Every non-empty part of E has a last event.
Topped(E) == \A F \in SUBSET E :
                F # {} => \E last \in F : \A r \in F : r.ord <= last.ord

\* What the types rest on.
Shape ==
    /\ DOMAIN task = Execs
    /\ \A s \in Sessions : /\ IsFiniteSet(evs[s]) /\ Topped(evs[s])
                           /\ IsFiniteSet(pevs[s])

Typed == TypeOK /\ Shape

\* The next event_order lies above all that there are.
LEMMA NextOrderAbove ==
    ASSUME NEW E \in SUBSET Numbered, Topped(E)
    PROVE  /\ NextOrder(E) \in Nat
           /\ \A r \in E : r.ord < NextOrder(E)
<1>1. CASE E = {}
  BY <1>1 DEF NextOrder
<1>2. CASE E # {}
  <2> DEFINE ords == {r.ord : r \in E}
             top == CHOOSE m \in ords : \A r \in E : r.ord <= m
  <2>1. \E m \in ords : \A r \in E : r.ord <= m
    BY <1>2 DEF Topped
  <2>2. top \in ords /\ \A r \in E : r.ord <= top
    BY <2>1
  <2>3. NextOrder(E) = 1 + top
    BY <1>2 DEF NextOrder
  <2>4. top \in Nat /\ \A r \in E : r.ord \in Nat
    BY <2>2 DEF Numbered
  <2> HIDE DEF top
  <2> QED BY <2>2, <2>3, <2>4
<1> QED BY <1>1, <1>2

\* An event may be added, and events taken away.
LEMMA ToppedAdd ==
    ASSUME NEW E \in SUBSET Numbered, Topped(E), NEW e \in Numbered
    PROVE  Topped(E \cup {e})
<1> SUFFICES ASSUME NEW F \in SUBSET (E \cup {e}), F # {}
             PROVE  \E last \in F : \A r \in F : r.ord <= last.ord
  BY DEF Topped
<1>0. \A r \in F : r.ord \in Nat
  BY DEF Numbered
<1>1. CASE e \notin F \/ F = {e}
  BY <1>0, <1>1 DEF Topped
<1>2. CASE e \in F /\ F # {e}
  <2>1. F \ {e} \in SUBSET E /\ F \ {e} # {}
    BY <1>2
  <2>2. PICK t \in F \ {e} : \A r \in F \ {e} : r.ord <= t.ord
    BY <2>1 DEF Topped
  <2>3. CASE t.ord <= e.ord
    BY <1>0, <1>2, <2>2, <2>3
  <2>4. CASE ~(t.ord <= e.ord)
    BY <1>0, <1>2, <2>2, <2>4
  <2> QED BY <2>3, <2>4
<1> QED BY <1>1, <1>2

LEMMA ToppedRemove ==
    ASSUME NEW E, Topped(E), NEW F \in SUBSET E
    PROVE  Topped(F)
BY DEF Topped

LEMMA ToppedEmpty == Topped({})
BY DEF Topped

LEMMA InitTyped == Init => Typed
<1> SUFFICES ASSUME Init PROVE Typed
  OBVIOUS
<1> USE DEF Init
<1>1. TableTypes
  BY InitRowsAssumption DEF TableTypes
<1>2. ChannelTypes
  <2>1. queue \in Seq(Calls) /\ Len(queue) <= Capacity
    <3>1. queue \in Seq(Calls) /\ Len(queue) = 0
      BY EmptySeq
    <3> HIDE DEF Init
    <3> QED BY <3>1, CapacityAssumption
  <2>2. chanClosed \in BOOLEAN /\ closed \in BOOLEAN
    OBVIOUS
  <2>3. closer \in {"open", "flagged", "waiting", "closed"}
    OBVIOUS
  <2>4. calls \in 0 .. MaxCalls /\ accepted \in Nat /\ settled \in Nat
    BY MaxCallsAssumption
  <2> HIDE DEF Init
  <2> QED BY <2>1, <2>2, <2>3, <2>4 DEF ChannelTypes
<1>3. \A x \in Execs : TaskType(task[x])
  BY DEF TaskType, Idle
<1>4. LocksHeld
  BY DEF LocksHeld
<1>5. Shape
  BY ToppedEmpty, FS_EmptySet DEF Shape
<1> QED BY <1>1, <1>2, <1>3, <1>4, <1>5 DEF Typed, TypeOK

\* The tasks after a step of executor x.
LEMMA BecomeTypes ==
    ASSUME Typed, NEW x \in Execs, NEW t, TaskType(t), Become(x, t)
    PROVE  /\ DOMAIN task' = Execs
           /\ \A y \in Execs : TaskType(task'[y])
           /\ task'[x] = t
           /\ \A y \in Execs \ {x} : task'[y] = task[y]
BY DEF Become, Typed, TypeOK, Shape

\* An executor that was not about to insert holds no lock.
LEMMA LocksUndisturbed ==
    ASSUME Typed, NEW x \in Execs, NEW t, Become(x, t), ~At(x, "insert"),
           lock' = lock
    PROVE  LocksHeld'
<1>1. \A y \in Execs : y # x => task'[y] = task[y]
  BY DEF Become, Typed, Shape
<1>2. \A s \in Sessions : lock[s] # x
  BY WorkerAssumption DEF Typed, TypeOK, LocksHeld
<1> QED BY <1>1, <1>2 DEF Typed, TypeOK, LocksHeld, At, SidOf

LEMMA IdleType == TaskType(Idle)
BY DEF TaskType, Idle

\* The end of a transaction.
LEMMA FinishTypes ==
    ASSUME Typed, NEW x \in Execs, Finish(x)
    PROVE  /\ DOMAIN task' = Execs
           /\ \A y \in Execs : TaskType(task'[y])
           /\ LocksHeld'
           /\ settled' \in Nat
<1>1. /\ DOMAIN task' = Execs
      /\ \A y \in Execs : TaskType(task'[y])
      /\ \A y \in Execs \ {x} : task'[y] = task[y]
  BY IdleType, BecomeTypes DEF Finish
<1>2. \A s \in Sessions :
         \/ lock'[s] = NoOne
         \/ lock'[s] = lock[s] /\ lock[s] # x
  BY DEF Finish
<1>3. lock' \in [Sessions -> Execs \cup {NoOne}]
  BY DEF Finish, Typed, TypeOK, LocksHeld
<1>4. LocksHeld'
  BY <1>1, <1>2, <1>3 DEF Typed, TypeOK, LocksHeld, At, SidOf
<1>5. settled' \in Nat
  BY DEF Finish, Typed, TypeOK, ChannelTypes
<1> QED BY <1>1, <1>4, <1>5

\* A step of executor x that leaves the tables and the locks alone.
LEMMA TaskStepTyped ==
    ASSUME Typed, NEW x \in Execs, NEW t, TaskType(t), Become(x, t),
           ~At(x, "insert"), UNCHANGED <<tables, promise>>, ChannelTypes'
    PROVE  Typed'
<1>1. TableTypes' /\ Shape'
  BY BecomeTypes DEF Typed, TypeOK, TableTypes, Shape, tables, promise
<1>2. LocksHeld'
  BY LocksUndisturbed DEF tables
<1> QED BY <1>1, <1>2, BecomeTypes DEF Typed, TypeOK

\* The library's operator is the same in the archive.
LEMMA PromisedCardinality == \A S : Promised!Cardinality(S) = Cardinality(S)
BY DEF Promised!Cardinality, Cardinality

\* What one more call promises is again a table.
LEMMA PromiseTypes ==
    ASSUME Typed, NEW c \in Calls, Promised!Effect(c)
    PROVE  /\ prows' \subseteq Sessions
           /\ pevs' \in [Sessions -> SUBSET Numbered]
           /\ \A s \in Sessions : IsFiniteSet(pevs'[s])
<1> USE DEF Typed, TypeOK, TableTypes, Shape
<1>0. c.sid \in Sessions /\ c.id \in Nat
  BY MaxCallsAssumption DEF Calls
<1>1. CASE Promised!ArchiveSession(c.sid)
  BY <1>0, <1>1 DEF Promised!ArchiveSession
<1>2. CASE Promised!ArchiveEvent(c.sid, c.id)
  <2> DEFINE E == pevs[c.sid]
             e == [ord |-> Cardinality(E), id |-> c.id]
  <2>1. IsFiniteSet(E) /\ E \in SUBSET Numbered
    BY <1>0
  <2>2. e \in Numbered
    BY <1>0, <2>1, FS_CardinalityType DEF Numbered
  <2>3. pevs' = [pevs EXCEPT ![c.sid] = E \cup {e}] /\ prows' = prows
    BY <1>2, PromisedCardinality DEF Promised!ArchiveEvent
  <2>4. IsFiniteSet(E \cup {e})
    <3> HIDE DEF E, e
    <3> QED BY ONLY <2>1, FS_AddElement
  <2> HIDE DEF e
  <2> QED BY <1>0, <2>1, <2>2, <2>3, <2>4
<1>3. CASE Promised!RemoveSession(c.sid)
  BY <1>0, <1>3, FS_EmptySet DEF Promised!RemoveSession
<1> QED BY <1>1, <1>2, <1>3 DEF Promised!Effect

LEMMA ProduceTyped ==
    ASSUME Typed, NEW p \in Producers, Produce(p)
    PROVE  Typed'
<1>0. p \in Execs
  BY DEF Execs
<1>1. ASSUME NEW kind \in CallKinds, NEW s \in Sessions, Call(p, kind, s)
      PROVE  Typed'
  <2> DEFINE c == [id |-> calls', kind |-> kind, sid |-> s]
  <2>1. calls' \in 1 .. MaxCalls
    BY <1>1, MaxCallsAssumption DEF Call, Typed, TypeOK, ChannelTypes
  <2>2. c \in Calls
    BY <2>1 DEF Calls
  <2> HIDE DEF c
  <2>3. TaskType(Doing("send", c))
    BY <2>2 DEF TaskType, Doing, Idle
  <2>4. Become(p, Doing("send", c))
    BY <1>1 DEF Call, c
  <2>5. ChannelTypes'
    BY <1>1, <2>1 DEF Call, channel, closing, Typed, TypeOK, ChannelTypes
  <2> QED BY <1>0, <1>1, <2>3, <2>4, <2>5, TaskStepTyped DEF Call, At
<1>2. CASE CallRejected(p)
  <2>1. calls' \in 0 .. MaxCalls
    BY <1>2, MaxCallsAssumption DEF CallRejected, Typed, TypeOK, ChannelTypes
  <2> QED BY <1>2, <2>1 DEF CallRejected, tables, channel, closing, promise,
             Typed, TypeOK, TableTypes, ChannelTypes, LocksHeld, At, SidOf, Shape
<1> QED BY <1>1, <1>2 DEF Produce

LEMMA ProceedTyped ==
    ASSUME Typed, NEW p \in Producers, Proceed(p)
    PROVE  Typed'
<1>0. p \in Execs /\ TaskType(task[p])
  BY DEF Execs, Typed, TypeOK
<1>1. ASSUME At(p, "send")
      PROVE  task[p].call \in Calls
  BY <1>0, <1>1 DEF At, TaskType
<1>2. CASE Enqueue(p)
  <2>1. queue' \in Seq(Calls) /\ Len(queue') <= Capacity
    <3>1. queue \in Seq(Calls) /\ task[p].call \in Calls
      BY <1>1, <1>2 DEF Enqueue, Typed, TypeOK, ChannelTypes
    <3>2. Len(queue') = Len(queue) + 1 /\ queue' \in Seq(Calls)
      BY <1>2, <3>1, AppendProperties DEF Enqueue
    <3>3. Len(queue) \in Nat
      BY <3>1, LenProperties
    <3> QED BY <1>2, <3>2, <3>3, CapacityAssumption DEF Enqueue
  <2>2. ChannelTypes'
    BY <1>2, <2>1 DEF Enqueue, closing, Typed, TypeOK, ChannelTypes
  <2>3. TableTypes' /\ Shape'
    BY <1>0, <1>1, <1>2, IdleType, BecomeTypes, PromiseTypes
       DEF Enqueue, tables, Typed, TypeOK, TableTypes, Shape
  <2>4. LocksHeld'
    BY <1>0, <1>2, LocksUndisturbed DEF Enqueue, tables, At
  <2> QED BY <1>0, <1>2, <2>2, <2>3, <2>4, IdleType, BecomeTypes
          DEF Enqueue, Typed, TypeOK
<1>3. CASE RunSync(p)
  <2>1. task[p].call \in Calls /\ TaskType(Doing("begin", task[p].call))
    BY <1>1, <1>3 DEF RunSync, TaskType, Doing, Idle
  <2>2. ChannelTypes'
    BY <1>3 DEF RunSync, channel, closing, Typed, TypeOK, ChannelTypes
  <2>3. TableTypes' /\ Shape'
    BY <1>0, <1>3, <2>1, BecomeTypes, PromiseTypes
       DEF RunSync, tables, Typed, TypeOK, TableTypes, Shape
  <2>4. LocksHeld'
    BY <1>0, <1>3, LocksUndisturbed DEF RunSync, tables, At
  <2> QED BY <1>0, <1>3, <2>1, <2>2, <2>3, <2>4, BecomeTypes
          DEF RunSync, Typed, TypeOK
<1>4. CASE SendPanics(p)
  <2>1. TaskType([Idle EXCEPT !.pc = "panicked"])
    BY DEF TaskType, Idle
  <2>2. ChannelTypes'
    BY <1>4 DEF SendPanics, channel, closing, Typed, TypeOK, ChannelTypes
  <2> QED BY <1>0, <1>4, <2>1, <2>2, TaskStepTyped DEF SendPanics, At
<1>5. CASE Recovered(p)
  <2>1. ChannelTypes'
    BY <1>5 DEF Recovered, channel, closing, Typed, TypeOK, ChannelTypes
  <2> QED BY <1>0, <1>5, <2>1, IdleType, TaskStepTyped DEF Recovered, At
<1> QED BY <1>2, <1>3, <1>4, <1>5 DEF Proceed

\* A transaction that has written tables and is over.
LEMMA FinishTyped ==
    ASSUME Typed, NEW x \in Execs, Finish(x), TableTypes',
           \A s \in Sessions : IsFiniteSet(evs'[s]) /\ Topped(evs'[s]),
           UNCHANGED <<channel, closing, calls, accepted, promise>>
    PROVE  Typed'
<1>1. ChannelTypes'
  BY FinishTypes DEF channel, closing, Typed, TypeOK, ChannelTypes
<1>2. Shape'
  BY FinishTypes DEF promise, Typed, Shape
<1> QED BY <1>1, <1>2, FinishTypes DEF Typed, TypeOK

LEMMA EventOrderTyped ==
    ASSUME Typed, NEW x \in Execs, EventOrder(x)
    PROVE  Typed'
<1> DEFINE s == SidOf(x)
           t == [Doing("insert", task[x].call) EXCEPT !.next = NextOrder(evs[s])]
<1>0. task[x].call \in Calls /\ s \in Sessions
  BY DEF EventOrder, Begins, At, SidOf, Typed, TypeOK, TaskType, Calls
<1>1. NextOrder(evs[s]) \in Nat
  BY <1>0, NextOrderAbove DEF Typed, TypeOK, TableTypes, Shape
<1>2. /\ TaskType(t) /\ t.pc = "insert" /\ t.call = task[x].call
  BY <1>0, <1>1 DEF TaskType, Doing, Idle
<1>3. Become(x, t)
  BY DEF EventOrder
<1> HIDE DEF t
<1>4. TableTypes' /\ ChannelTypes' /\ Shape'
  BY <1>2, <1>3, BecomeTypes DEF EventOrder, channel, closing, promise,
     Typed, TypeOK, TableTypes, ChannelTypes, Shape
<1>5. \A r \in Sessions : lock[r] # x
  BY WorkerAssumption DEF EventOrder, Begins, At, Typed, TypeOK, LocksHeld
<1>6. LocksHeld'
  <2>1. lock' = lock \/ lock' = [lock EXCEPT ![s] = x]
    BY DEF EventOrder
  <2>2. lock' \in [Sessions -> Execs \cup {NoOne}]
    BY <1>0, <2>1 DEF Typed, TypeOK, LocksHeld
  <2>3. ASSUME NEW r \in Sessions, lock'[r] # NoOne
        PROVE  task'[lock'[r]].pc = "insert" /\ task'[lock'[r]].call.sid = r
    <3>1. CASE lock'[r] = x
      <4>1. r = s
        BY <1>5, <2>1, <3>1 DEF Typed, TypeOK, LocksHeld
      <4> QED BY <1>2, <1>3, <3>1, <4>1, BecomeTypes DEF SidOf
    <3>2. CASE lock'[r] # x
      <4>1. lock'[r] = lock[r] /\ lock[r] \in Execs \ {x}
        BY <2>1, <2>2, <2>3, <3>2 DEF Typed, TypeOK, LocksHeld
      <4> QED BY <1>2, <1>3, <2>3, <4>1, BecomeTypes
              DEF Typed, TypeOK, LocksHeld, At, SidOf
    <3> QED BY <3>1, <3>2
  <2> QED BY <2>2, <2>3 DEF LocksHeld, At, SidOf
<1> QED BY <1>2, <1>3, <1>4, <1>6, BecomeTypes DEF Typed, TypeOK

LEMMA ExecuteTyped ==
    ASSUME Typed, NEW x \in Execs, Execute(x) \/ ExecFails(x)
    PROVE  Typed'
<1> USE DEF Typed, TypeOK
<1>0. ASSUME task[x].pc \in Busy
      PROVE  /\ task[x].call \in Calls /\ SidOf(x) \in Sessions
             /\ task[x].call.id \in Nat
             /\ task[x].next \in Nat /\ task[x].seen \subseteq Numbered
  BY <1>0, MaxCallsAssumption DEF Busy, TaskType, Calls, SidOf
<1>1. CASE UpsertSession(x)
  <2>1. SidOf(x) \in Sessions
    BY <1>0, <1>1 DEF UpsertSession, Begins, At, Busy
  <2> QED BY <1>1, <2>1, FinishTyped DEF UpsertSession, TableTypes, promise, Shape
<1>2. CASE EventOrder(x)
  BY <1>2, EventOrderTyped
<1>3. CASE EventInsert(x)
  <2> DEFINE s == SidOf(x)
             E == evs[s]
             e == [ord |-> task[x].next, id |-> task[x].call.id]
  <2>1. s \in Sessions /\ e \in Numbered
    BY <1>0, <1>3 DEF EventInsert, At, Busy, Numbered
  <2>2. E \in SUBSET Numbered /\ IsFiniteSet(E) /\ Topped(E)
    BY <2>1 DEF TableTypes, Shape
  <2>3. IsFiniteSet(E \cup {e}) /\ Topped(E \cup {e})
    <3> HIDE DEF E, e
    <3> QED BY <2>1, <2>2, ToppedAdd, FS_AddElement
  <2>4. evs' = evs \/ evs' = [evs EXCEPT ![s] = E \cup {e}]
    BY <1>3 DEF EventInsert
  <2> HIDE DEF e
  <2>5. evs' \in [Sessions -> SUBSET Numbered]
    BY <2>1, <2>2, <2>4 DEF TableTypes
  <2>6. \A r \in Sessions : IsFiniteSet(evs'[r]) /\ Topped(evs'[r])
    BY <2>1, <2>3, <2>4 DEF TableTypes, Shape
  <2> QED BY <1>3, <2>5, <2>6, FinishTyped DEF EventInsert, TableTypes, promise
<1>4. CASE DeleteEventRows(x)
  <2> DEFINE t == [Doing("remove", task[x].call) EXCEPT !.seen = evs[SidOf(x)]]
  <2>1. TaskType(t)
    BY <1>0, <1>4
       DEF DeleteEventRows, Begins, At, Busy, TaskType, Doing, Idle, TableTypes
  <2>2. Become(x, t)
    BY <1>4 DEF DeleteEventRows
  <2> HIDE DEF t
  <2>3. ChannelTypes'
    BY <1>4 DEF DeleteEventRows, channel, closing, ChannelTypes
  <2> QED BY <1>4, <2>1, <2>2, <2>3, TaskStepTyped DEF DeleteEventRows, Begins, At
<1>5. CASE DeleteSessionRow(x)
  <2> DEFINE s == SidOf(x)
             F == evs[s] \ task[x].seen
  <2>1. s \in Sessions
    BY <1>0, <1>5 DEF DeleteSessionRow, At, Busy
  <2>2. IsFiniteSet(F) /\ Topped(F) /\ F \in SUBSET Numbered
    <3>1. F \in SUBSET evs[s] /\ IsFiniteSet(evs[s]) /\ Topped(evs[s])
          /\ evs[s] \in SUBSET Numbered
      BY <2>1 DEF Shape, TableTypes
    <3> QED BY <3>1, ToppedRemove, FS_Subset
  <2>3. evs' = [evs EXCEPT ![s] = F]
    BY <1>5 DEF DeleteSessionRow
  <2> HIDE DEF F
  <2>4. TableTypes'
    BY <1>5, <2>1, <2>2, <2>3 DEF DeleteSessionRow, TableTypes, promise
  <2>5. \A r \in Sessions : IsFiniteSet(evs'[r]) /\ Topped(evs'[r])
    BY <2>1, <2>2, <2>3 DEF TableTypes, Shape
  <2> QED BY <1>5, <2>4, <2>5, FinishTyped DEF DeleteSessionRow
<1>6. CASE ExecFails(x)
  BY <1>6, FinishTyped DEF ExecFails, TableTypes, promise, Shape
<1> QED BY <1>1, <1>2, <1>3, <1>4, <1>5, <1>6 DEF Execute

LEMMA WorkTyped ==
    ASSUME Typed, Work
    PROVE  Typed'
<1>0. Worker \in Execs
  BY WorkerApart
<1>1. CASE Receive
  <2>1. /\ Head(queue) \in Calls
        /\ queue' \in Seq(Calls)
        /\ Len(queue') <= Capacity
    <3>1. queue \in Seq(Calls) /\ queue # <<>> /\ queue' = Tail(queue)
      BY <1>1 DEF Receive, Typed, TypeOK, ChannelTypes
    <3>2. /\ Head(queue) \in Calls /\ Tail(queue) \in Seq(Calls)
          /\ Len(Tail(queue)) = Len(queue) - 1 /\ Len(queue) \in Nat
      BY <3>1, HeadTailProperties, LenProperties
    <3> QED BY <3>1, <3>2, CapacityAssumption DEF Typed, TypeOK, ChannelTypes
  <2>2. TaskType(Doing("begin", Head(queue)))
    BY <2>1 DEF TaskType, Doing, Idle
  <2>3. ChannelTypes'
    BY <1>1, <2>1 DEF Receive, closing, Typed, TypeOK, ChannelTypes
  <2> QED BY <1>0, <1>1, <2>2, <2>3, TaskStepTyped DEF Receive, At
<1>2. CASE WorkerExit
  <2>1. TaskType([Idle EXCEPT !.pc = "exited"])
    BY DEF TaskType, Idle
  <2>2. ChannelTypes'
    BY <1>2 DEF WorkerExit, channel, closing, Typed, TypeOK, ChannelTypes
  <2> QED BY <1>0, <1>2, <2>1, <2>2, TaskStepTyped DEF WorkerExit, At
<1> QED BY <1>1, <1>2 DEF Work

LEMMA CloseTyped ==
    ASSUME Typed, Close
    PROVE  Typed'
<1> USE DEF Typed, TypeOK
<1>1. UNCHANGED <<tables, queue, task, calls, accepted, settled, promise>>
  BY DEF Close, CloseBegin, CloseChannel, CloseReturn, channel
<1>2. chanClosed' \in BOOLEAN /\ closed' \in BOOLEAN
      /\ closer' \in {"open", "flagged", "waiting", "closed"}
  BY ModeAssumption DEF Close, CloseBegin, CloseChannel, CloseReturn, channel,
     ChannelTypes
<1>3. ChannelTypes'
  BY <1>1, <1>2 DEF ChannelTypes
<1> QED BY <1>1, <1>3 DEF TableTypes, LocksHeld, At, SidOf, Shape, tables, promise

LEMMA CrashTyped ==
    ASSUME Typed, Crash
    PROVE  Typed'
<1> USE DEF Typed, TypeOK
<1>1. ChannelTypes'
  <2>1. queue' \in Seq(Calls) /\ Len(queue') <= Capacity
    BY EmptySeq, CapacityAssumption DEF Crash
  <2>2. chanClosed' \in BOOLEAN /\ closed' \in BOOLEAN /\ closer' = "open"
    BY DEF Crash
  <2>3. calls' \in 0 .. MaxCalls /\ accepted' = 0 /\ settled' = 0
    BY DEF Crash, ChannelTypes
  <2> QED BY <2>1, <2>2, <2>3 DEF ChannelTypes
<1>2. TableTypes' /\ Shape'
  BY DEF Crash, TableTypes, Shape
<1>3. \A x \in Execs : TaskType(task'[x])
  BY IdleType DEF Crash
<1>4. LocksHeld'
  BY DEF Crash, LocksHeld
<1> QED BY <1>1, <1>2, <1>3, <1>4

LEMMA NextTyped == Typed /\ [Next]_vars => Typed'
<1> SUFFICES ASSUME Typed, [Next]_vars PROVE Typed'
  OBVIOUS
<1>1. CASE UNCHANGED vars \/ Stopped
  BY <1>1 DEF Stopped, vars, Typed, TypeOK, TableTypes, ChannelTypes, LocksHeld,
     At, SidOf, Shape
<1> QED BY <1>1, ProduceTyped, ProceedTyped, ExecuteTyped, WorkTyped,
           CloseTyped, CrashTyped DEF Next

LEMMA TypedAlways == Spec => []Typed
BY InitTyped, NextTyped, PTL DEF Spec

\* Every variable keeps its type, the channel its capacity and every row lock
\* a transaction that will release it, through overflow, failures, Close and
\* crashes, for any number of callers and calls.
THEOREM TypeCorrect == Spec => []TypeOK
<1>1. Typed => TypeOK
  BY DEF Typed
<1> QED BY <1>1, TypedAlways, PTL

-----------------------------------------------------------------------------
(* The numbering of events.  Where every session keeps its row, SELECT ...  *)
(* FOR UPDATE always finds a row to lock; without one (before the session   *)
(* is archived, or after its deletion) nothing keeps two executors apart.   *)

LastingCalls == {c \in Calls : c.kind # "delete"}

\* What is called, and what the executor of an insert holds.
Lasting ==
    /\ rows = Sessions
    /\ queue \in Seq(LastingCalls)
    /\ \A x \in Execs : task[x].pc \in {"send", "begin", "insert", "remove"}
                            => task[x].call \in LastingCalls
    /\ \A x \in Execs : ~At(x, "remove")

OrderHeld ==
    \A x \in Execs : At(x, "insert") => lock[SidOf(x)] = x

Numbering == Lasting /\ OrderHeld /\ NextOrderFree

\* A step of x that begins no insert and touches no event.
LEMMA NumberingStep ==
    ASSUME Typed, Numbering, NEW x \in Execs, NEW t, Become(x, t),
           t.pc # "insert", ~At(x, "insert"),
           UNCHANGED <<lock, evs>>, Lasting'
    PROVE  Numbering'
<1>1. task'[x] = t /\ \A y \in Execs \ {x} : task'[y] = task[y]
  BY DEF Become, Typed, Shape
<1>2. \A y \in Execs : task'[y].pc = "insert" => task'[y] = task[y]
  BY <1>1
<1> QED BY <1>2 DEF Numbering, OrderHeld, NextOrderFree, At, SidOf

\* The transaction of x ends, and its lock is released; only the events of
\* its session may have changed, and only if it held that lock.
LEMMA NumberingFinish ==
    ASSUME Typed, Numbering, NEW x \in Execs, Finish(x),
           UNCHANGED <<rows, queue>>,
           \A y \in Execs \ {x} : At(y, "insert") => evs'[SidOf(y)] = evs[SidOf(y)]
    PROVE  Numbering'
<1>1. task'[x] = Idle /\ \A y \in Execs \ {x} : task'[y] = task[y]
  BY DEF Finish, Become, Typed, Shape
<1>2. Lasting'
  BY <1>1 DEF Numbering, Lasting, At, Idle
<1>3. ASSUME NEW y \in Execs, task'[y].pc = "insert"
      PROVE  /\ lock'[task'[y].call.sid] = y
             /\ \A r \in evs'[task'[y].call.sid] : r.ord # task'[y].next
  <2>1. y # x /\ task'[y] = task[y]
    BY <1>1, <1>3 DEF Idle
  <2>2. At(y, "insert") /\ lock[SidOf(y)] = y
    BY <1>3, <2>1 DEF At, Numbering, OrderHeld
  <2>3. SidOf(y) \in Sessions
    BY <2>2 DEF At, SidOf, Typed, TypeOK, TaskType, Calls
  <2>4. lock'[SidOf(y)] = y
    BY <2>1, <2>2, <2>3 DEF Finish
  <2>5. evs'[SidOf(y)] = evs[SidOf(y)]
    BY <2>1, <2>2
  <2> QED BY <2>1, <2>2, <2>4, <2>5 DEF SidOf, Numbering, NextOrderFree
<1> QED BY <1>2, <1>3 DEF Numbering, OrderHeld, NextOrderFree, At, SidOf

LEMMA ProduceNumbering ==
    ASSUME "delete" \notin Kinds, Typed, Numbering, NEW p \in Producers,
           Produce(p)
    PROVE  Numbering'
<1>0. p \in Execs
  BY DEF Execs
<1>1. ASSUME NEW kind \in CallKinds, NEW s \in Sessions, Call(p, kind, s)
      PROVE  Numbering'
  <2> DEFINE c == [id |-> calls', kind |-> kind, sid |-> s]
  <2>1. calls' \in 1 .. MaxCalls /\ kind # "delete"
    BY <1>1, MaxCallsAssumption DEF Call, Typed, TypeOK, ChannelTypes
  <2>2. c \in LastingCalls
    BY <2>1 DEF Calls, LastingCalls
  <2>3. Become(p, Doing("send", c))
    BY <1>1 DEF Call
  <2> HIDE DEF c
  <2>4. Doing("send", c).pc = "send" /\ Doing("send", c).call = c
    BY DEF Doing, Idle
  <2>5. Lasting'
    BY <1>0, <1>1, <2>2, <2>3, <2>4
       DEF Call, Become, tables, channel, Numbering, Lasting, At, Typed, Shape
  <2> QED BY <1>0, <1>1, <2>3, <2>4, <2>5, NumberingStep DEF Call, At, tables
<1>2. CASE CallRejected(p)
  BY <1>2 DEF CallRejected, tables, channel, Numbering, Lasting, OrderHeld,
     NextOrderFree, At, SidOf
<1> QED BY <1>1, <1>2 DEF Produce

LEMMA ProceedNumbering ==
    ASSUME Typed, Numbering, NEW p \in Producers, Proceed(p)
    PROVE  Numbering'
<1>0. p \in Execs
  BY DEF Execs
<1>1. CASE Enqueue(p)
  <2>1. queue' \in Seq(LastingCalls)
    <3>1. queue \in Seq(LastingCalls) /\ task[p].call \in LastingCalls
      BY <1>0, <1>1 DEF Enqueue, At, Numbering, Lasting
    <3> QED BY <1>1, <3>1, AppendProperties DEF Enqueue
  <2>2. Lasting'
    BY <1>0, <1>1, <2>1 DEF Enqueue, Become, tables, Idle, Numbering, Lasting, At,
       Typed, Shape
  <2> QED BY <1>0, <1>1, <2>2, NumberingStep DEF Enqueue, At, tables, Idle
<1>2. CASE RunSync(p)
  <2> DEFINE t == Doing("begin", task[p].call)
  <2>1. t.pc = "begin" /\ t.call = task[p].call
    BY DEF Doing, Idle
  <2>2. Become(p, t) /\ t.call \in LastingCalls
    BY <1>0, <1>2, <2>1 DEF RunSync, At, Numbering, Lasting
  <2> HIDE DEF t
  <2>3. Lasting'
    BY <1>0, <1>2, <2>1, <2>2 DEF RunSync, Become, tables, channel, Numbering,
       Lasting, At, Typed, Shape
  <2> QED BY <1>0, <1>2, <2>1, <2>2, <2>3, NumberingStep DEF RunSync, At, tables
<1>3. CASE SendPanics(p) \/ Recovered(p)
  <2>1. PICK t : Become(p, t) /\ t.pc \in {"panicked", "idle"}
    BY <1>3 DEF SendPanics, Recovered, Idle
  <2>2. Lasting'
    BY <1>0, <1>3, <2>1 DEF SendPanics, Recovered, Become, tables, channel,
       Numbering, Lasting, At, Typed, Shape
  <2> QED BY <1>0, <1>3, <2>1, <2>2, NumberingStep
          DEF SendPanics, Recovered, At, tables
<1> QED BY <1>1, <1>2, <1>3 DEF Proceed

LEMMA ExecuteNumbering ==
    ASSUME Typed, Numbering, NEW x \in Execs, Execute(x) \/ ExecFails(x)
    PROVE  Numbering'
<1>1. CASE UpsertSession(x)
  <2>1. rows' = rows
    BY <1>1 DEF UpsertSession, Begins, At, SidOf, Numbering, Lasting, LastingCalls,
       Calls
  <2> QED BY <1>1, <2>1, NumberingFinish DEF UpsertSession, channel
<1>2. CASE EventOrder(x)
  <2> DEFINE s == SidOf(x)
             t == [Doing("insert", task[x].call) EXCEPT !.next = NextOrder(evs[s])]
  <2>1. t.pc = "insert" /\ t.call = task[x].call /\ t.next = NextOrder(evs[s])
    BY DEF Doing, Idle
  <2>2. task[x].call \in LastingCalls /\ s \in Sessions
    BY <1>2 DEF EventOrder, Begins, At, SidOf, Numbering, Lasting, LastingCalls,
       Calls
  <2>3. Become(x, t)
    BY <1>2 DEF EventOrder
  <2> HIDE DEF t
  <2>4. task'[x] = t /\ \A y \in Execs \ {x} : task'[y] = task[y]
    BY <2>3, BecomeTypes DEF Become, Typed, Shape
  <2>5. lock' = [lock EXCEPT ![s] = x] /\ lock[s] = NoOne
    BY <1>2, <2>2 DEF EventOrder, RowFree, Numbering, Lasting
  <2>6. Lasting'
    BY <1>2, <2>1, <2>2, <2>4 DEF EventOrder, channel, Numbering, Lasting, At
  <2>7. \A r \in evs[s] : r.ord # NextOrder(evs[s])
    <3>1. evs[s] \in SUBSET Numbered /\ Topped(evs[s])
      BY <2>2 DEF Typed, TypeOK, TableTypes, Shape
    <3>2. NextOrder(evs[s]) \in Nat /\ \A r \in evs[s] : r.ord < NextOrder(evs[s])
      BY <3>1, NextOrderAbove
    <3>3. \A r \in evs[s] : r.ord \in Nat
      BY <3>1 DEF Numbered
    <3> QED BY <3>2, <3>3
  <2>8. ASSUME NEW y \in Execs, task'[y].pc = "insert"
        PROVE  /\ lock'[task'[y].call.sid] = y
               /\ \A r \in evs'[task'[y].call.sid] : r.ord # task'[y].next
    <3>1. CASE y = x
      BY <1>2, <2>1, <2>2, <2>4, <2>5, <2>7, <3>1
         DEF EventOrder, SidOf, Typed, TypeOK, LocksHeld
    <3>2. CASE y # x
      <4>1. task'[y] = task[y] /\ At(y, "insert") /\ lock[SidOf(y)] = y
        BY <2>4, <2>8, <3>2 DEF At, Numbering, OrderHeld
      <4>2. SidOf(y) # s
        BY <2>5, <4>1, WorkerAssumption
      <4> QED BY <1>2, <2>5, <4>1, <4>2
              DEF EventOrder, SidOf, Numbering, NextOrderFree
    <3> QED BY <3>1, <3>2
  <2> QED BY <2>6, <2>8 DEF Numbering, OrderHeld, NextOrderFree, At, SidOf
<1>3. CASE EventInsert(x)
  <2>1. ASSUME NEW y \in Execs \ {x}, At(y, "insert")
        PROVE  evs'[SidOf(y)] = evs[SidOf(y)]
    <3>1. SidOf(y) # SidOf(x)
      BY <1>3, <2>1 DEF EventInsert, Numbering, OrderHeld
    <3> QED BY <1>3, <3>1 DEF EventInsert, Typed, TypeOK, TableTypes
  <2> QED BY <1>3, <2>1, NumberingFinish DEF EventInsert, channel
<1>4. CASE DeleteEventRows(x)
  BY <1>4 DEF DeleteEventRows, Begins, At, Numbering, Lasting, LastingCalls
<1>5. CASE DeleteSessionRow(x)
  BY <1>5 DEF DeleteSessionRow, Numbering, Lasting
<1>6. CASE ExecFails(x)
  BY <1>6, NumberingFinish DEF ExecFails, channel
<1> QED BY <1>1, <1>2, <1>3, <1>4, <1>5, <1>6 DEF Execute

LEMMA WorkNumbering ==
    ASSUME Typed, Numbering, Work
    PROVE  Numbering'
<1>0. Worker \in Execs
  BY WorkerApart
<1>1. CASE Receive
  <2> DEFINE t == Doing("begin", Head(queue))
  <2>1. Head(queue) \in LastingCalls /\ queue' \in Seq(LastingCalls)
    <3>1. queue \in Seq(LastingCalls) /\ queue # <<>> /\ queue' = Tail(queue)
      BY <1>1 DEF Receive, Numbering, Lasting
    <3> QED BY <3>1, HeadTailProperties
  <2>2. t.pc = "begin" /\ t.call = Head(queue)
    BY DEF Doing, Idle
  <2>3. Become(Worker, t)
    BY <1>1 DEF Receive
  <2> HIDE DEF t
  <2>4. Lasting'
    BY <1>0, <1>1, <2>1, <2>2, <2>3 DEF Receive, Become, tables, Numbering, Lasting,
       At, Typed, Shape
  <2> QED BY <1>0, <1>1, <2>2, <2>3, <2>4, NumberingStep DEF Receive, At, tables
<1>2. CASE WorkerExit
  <2>1. PICK t : Become(Worker, t) /\ t.pc = "exited"
    BY <1>2 DEF WorkerExit, Idle
  <2>2. Lasting'
    BY <1>0, <1>2, <2>1 DEF WorkerExit, Become, tables, channel, Numbering, Lasting,
       At, Typed, Shape
  <2> QED BY <1>0, <1>2, <2>1, <2>2, NumberingStep DEF WorkerExit, At, tables
<1> QED BY <1>1, <1>2 DEF Work

LEMMA NextNumbering ==
    ASSUME "delete" \notin Kinds, Typed, Numbering, [Next]_vars
    PROVE  Numbering'
<1>1. CASE UNCHANGED vars \/ Stopped \/ Close
  BY <1>1 DEF Stopped, vars, Close, CloseBegin, CloseChannel, CloseReturn, tables,
     channel, Numbering, Lasting, OrderHeld, NextOrderFree, At, SidOf
<1>2. CASE Crash
  <2>1. \A x \in Execs : task'[x].pc = "idle"
    BY <1>2 DEF Crash, Idle
  <2>2. queue' \in Seq(LastingCalls) /\ rows' = Sessions
    BY <1>2, EmptySeq DEF Crash, Numbering, Lasting
  <2> QED BY <2>1, <2>2 DEF Numbering, Lasting, OrderHeld, NextOrderFree, At
<1> QED BY <1>1, <1>2, ProduceNumbering, ProceedNumbering, ExecuteNumbering,
           WorkNumbering DEF Next

\* However many callers find the channel full and write beside the worker, the
\* event_order an executor has computed is still free when it inserts,
\* through failures, Close and crashes: the lock on the session's row is
\* enough, as long as the session has a row and keeps it.
THEOREM NumbersAreFree ==
    ASSUME "delete" \notin Kinds, InitRows = Sessions
    PROVE  Spec => []NextOrderFree
<1>1. Init => Numbering
  <2> SUFFICES ASSUME Init PROVE Numbering
    OBVIOUS
  <2>1. \A x \in Execs : task[x].pc = "idle"
    BY DEF Init, Idle
  <2>2. queue \in Seq(LastingCalls) /\ rows = Sessions
    BY EmptySeq DEF Init
  <2> QED BY <2>1, <2>2 DEF Numbering, Lasting, OrderHeld, NextOrderFree, At
<1>2. Typed /\ Numbering /\ [Next]_vars => Numbering'
  BY NextNumbering
<1>3. Numbering => NextOrderFree
  BY DEF Numbering
<1> QED BY <1>1, <1>2, <1>3, TypedAlways, PTL DEF Spec

-----------------------------------------------------------------------------
(***************************************************************************)
(* SessionPersister implements SessionArchive, and its tables end up as    *)
(* the calls say, as long as no caller finds the channel full: then the    *)
(* worker alone writes.                                                    *)
(***************************************************************************)

\* No caller has to run its call itself.
NeverFull == [][\A p \in Producers : ~RunSync(p)]_vars

-----------------------------------------------------------------------------
(* Events without a gap. *)

\* The events of E are numbered 0, 1, ... without a gap.
Dense(E) ==
    /\ IsFiniteSet(E)
    /\ \A i \in Nat : (\E r \in E : r.ord = i) <=> i < Cardinality(E)

LEMMA DenseEmpty == Dense({})
BY FS_EmptySet DEF Dense

\* The next number is their number.
LEMMA DenseNext ==
    ASSUME NEW E \in SUBSET Numbered, Topped(E), Dense(E)
    PROVE  NextOrder(E) = Cardinality(E)
<1> DEFINE n == Cardinality(E)
<1>1. n \in Nat
  BY FS_CardinalityType DEF Dense
<1>2. NextOrder(E) \in Nat /\ \A r \in E : r.ord < NextOrder(E)
  BY NextOrderAbove
<1>3. n <= NextOrder(E)
  <2>1. CASE n = 0
    BY <1>2, <2>1
  <2>2. CASE n > 0
    <3>1. n - 1 \in Nat /\ n - 1 < n
      BY <1>1, <2>2
    <3>2. PICK r \in E : r.ord = n - 1
      BY <3>1 DEF Dense
    <3> QED BY <1>1, <1>2, <3>2
  <2> QED BY <1>1, <2>1, <2>2
<1>4. NextOrder(E) <= n
  <2>1. CASE E = {}
    BY <1>1, <2>1 DEF NextOrder
  <2>2. CASE E # {}
    <3> DEFINE ords == {r.ord : r \in E}
               top == CHOOSE m \in ords : \A r \in E : r.ord <= m
    <3>1. \E m \in ords : \A r \in E : r.ord <= m
      BY <2>2 DEF Topped
    <3>2. top \in ords
      BY <3>1
    <3>3. NextOrder(E) = 1 + top
      BY <2>2 DEF NextOrder
    <3>4. top \in Nat /\ \E r \in E : r.ord = top
      BY <3>2 DEF Numbered
    <3> HIDE DEF top
    <3>5. top < n
      BY <3>4 DEF Dense
    <3> QED BY <1>1, <3>3, <3>4, <3>5
  <2> QED BY <2>1, <2>2
<1> HIDE DEF n
<1> QED BY <1>1, <1>2, <1>3, <1>4 DEF n

\* One more event under that number leaves no gap.
LEMMA DenseAdd ==
    ASSUME NEW E \in SUBSET Numbered, Dense(E), NEW e,
           e.ord = Cardinality(E)
    PROVE  Dense(E \cup {e})
<1> DEFINE n == Cardinality(E)
           F == E \cup {e}
<1>1. n \in Nat /\ IsFiniteSet(E)
  BY FS_CardinalityType DEF Dense
<1>2. e \notin E
  <2>1. SUFFICES ASSUME e \in E PROVE FALSE
    OBVIOUS
  <2>2. n < n
    BY <1>1, <2>1 DEF Dense
  <2> QED BY <1>1, <2>2
<1>3. IsFiniteSet(F) /\ Cardinality(F) = n + 1
  <2> HIDE DEF n
  <2>1. /\ IsFiniteSet(E \cup {e})
        /\ Cardinality(E \cup {e}) = IF e \in E THEN n ELSE n + 1
    BY <1>1, FS_AddElement DEF n
  <2> QED BY <1>2, <2>1
<1>4. ASSUME NEW i \in Nat
      PROVE  (\E r \in F : r.ord = i) <=> i < n + 1
  <2>1. (\E r \in F : r.ord = i) <=> (\E r \in E : r.ord = i) \/ i = n
    OBVIOUS
  <2>2. (\E r \in E : r.ord = i) <=> i < n
    BY DEF Dense
  <2> QED BY <1>1, <2>1, <2>2
<1> QED BY <1>3, <1>4 DEF Dense

-----------------------------------------------------------------------------
(* The pending calls. *)

\* A call in hand ahead of a queue.
LEMMA HandBeforeQueue ==
    ASSUME NEW S, NEW c \in S, NEW q \in Seq(S)
    PROVE  /\ <<c>> \o q \in Seq(S)
           /\ <<c>> \o q # <<>>
           /\ Head(<<c>> \o q) = c
           /\ Tail(<<c>> \o q) = q
<1> DEFINE cq == <<c>> \o q
<1>1. <<c>> \in Seq(S) /\ Len(<<c>>) = 1
  OBVIOUS
<1>2. /\ cq \in Seq(S) /\ Len(cq) = 1 + Len(q)
      /\ \A i \in 1 .. 1 + Len(q) : cq[i] = IF i <= 1 THEN <<c>>[i] ELSE q[i - 1]
  BY <1>1, ConcatProperties
<1>3. Len(q) \in Nat
  BY LenProperties
<1> HIDE DEF cq
<1>4. cq # <<>> /\ Head(cq) = c
  <2>1. cq[1] = c
    BY <1>2, <1>3
  <2> QED BY <1>2, <1>3, <2>1, EmptySeq
<1>5. /\ Tail(cq) \in Seq(S) /\ Len(Tail(cq)) = Len(q)
      /\ \A i \in 1 .. Len(q) : Tail(cq)[i] = q[i]
  <2>1. /\ Tail(cq) \in Seq(S) /\ Len(Tail(cq)) = Len(cq) - 1
        /\ \A i \in 1 .. Len(Tail(cq)) : Tail(cq)[i] = cq[i + 1]
    BY <1>2, <1>4, HeadTailProperties
  <2>2. \A i \in 1 .. Len(q) : cq[i + 1] = q[i]
    BY <1>2, <1>3
  <2> QED BY <1>2, <1>3, <2>1, <2>2
<1>6. Tail(cq) = q
  BY <1>5, SeqEqual
<1> QED BY <1>2, <1>4, <1>6 DEF cq

\* Taking the first call into the hand changes nothing.
LEMMA HandTakesFirst ==
    ASSUME NEW S, NEW q \in Seq(S), q # <<>>
    PROVE  <<Head(q)>> \o Tail(q) = q
<1>1. /\ Head(q) \in S /\ Tail(q) \in Seq(S) /\ Len(Tail(q)) = Len(q) - 1
      /\ \A i \in 1 .. Len(Tail(q)) : Tail(q)[i] = q[i + 1]
  BY HeadTailProperties
<1>2. Len(q) \in Nat /\ Len(q) # 0
  BY EmptySeq, LenProperties
<1> DEFINE cq == <<Head(q)>> \o Tail(q)
<1>3. <<Head(q)>> \in Seq(S) /\ Len(<<Head(q)>>) = 1
  BY <1>1
<1>4. /\ cq \in Seq(S) /\ Len(cq) = 1 + Len(Tail(q))
      /\ \A i \in 1 .. 1 + Len(Tail(q)) :
            cq[i] = IF i <= 1 THEN <<Head(q)>>[i] ELSE Tail(q)[i - 1]
  BY <1>1, <1>3, ConcatProperties
<1>5. \A i \in 1 .. Len(q) : cq[i] = q[i]
  <2> SUFFICES ASSUME NEW i \in 1 .. Len(q) PROVE cq[i] = q[i]
    OBVIOUS
  <2>1. CASE i = 1
    BY <1>1, <1>2, <1>4, <2>1
  <2>2. CASE i # 1
    BY <1>1, <1>2, <1>4, <2>2
  <2> QED BY <2>1, <2>2
<1> HIDE DEF cq
<1>6. cq = q
  BY <1>1, <1>2, <1>4, <1>5, SeqEqual
<1> QED BY <1>6 DEF cq

\* A call that comes last comes last.
LEMMA HandBeforeAppend ==
    ASSUME NEW S, NEW c \in S, NEW q \in Seq(S), NEW d \in S
    PROVE  <<c>> \o Append(q, d) = Append(<<c>> \o q, d)
<1>1. <<c>> \in Seq(S) /\ <<d>> \in Seq(S)
  OBVIOUS
<1>2. <<c>> \o q \in Seq(S)
  BY HandBeforeQueue
<1>3. Append(q, d) = q \o <<d>>
  BY AppendIsConcat
<1>4. Append(<<c>> \o q, d) = (<<c>> \o q) \o <<d>>
  BY <1>2, AppendIsConcat
<1> QED BY <1>1, <1>3, <1>4, ConcatAssociative

-----------------------------------------------------------------------------
(* The worker alone writes. *)

InLine ==
    /\ \A p \in Producers : task[p].pc \notin Busy
    /\ \A s \in Sessions : Dense(evs[s])
    /\ At(Worker, "insert") =>
          /\ task[Worker].call.kind = "event"
          /\ task[Worker].next = Cardinality(evs[SidOf(Worker)])
    /\ At(Worker, "remove") =>
          /\ task[Worker].call.kind = "delete"
          /\ task[Worker].seen = evs[SidOf(Worker)]

\* What a step of the worker does to the archive: it goes on with the call in
\* its hand, or the call takes effect.
LEMMA WorkerWrites ==
    ASSUME Typed, InLine, Execute(Worker)
    PROVE  LET c == task[Worker].call IN
           /\ task[Worker].pc \in Busy /\ c \in Calls
           /\ UNCHANGED <<channel, closing, calls, accepted, promise>>
           /\ \A p \in Producers : task'[p] = task[p]
           /\ \/ /\ task'[Worker].pc \in Busy /\ task'[Worker].call = c
                 /\ UNCHANGED <<rows, evs>>
              \/ task'[Worker] = Idle /\ Archive!Effect(c)
           /\ InLine'
<1> DEFINE c == task[Worker].call
           s == SidOf(Worker)
<1>0. Worker \in Execs /\ \A p \in Producers : p \in Execs /\ p # Worker
  BY WorkerApart
<1>1. task[Worker].pc \in Busy
  BY DEF Execute, UpsertSession, EventOrder, EventInsert, DeleteEventRows,
     DeleteSessionRow, Begins, At, Busy
<1>2. c \in Calls /\ s \in Sessions /\ s = c.sid
  BY <1>0, <1>1 DEF Busy, Typed, TypeOK, TaskType, Calls, SidOf
<1>3. UNCHANGED <<channel, closing, calls, accepted, promise>>
  BY DEF Execute, UpsertSession, EventOrder, EventInsert, DeleteEventRows,
     DeleteSessionRow
<1>4. ASSUME NEW t, Become(Worker, t)
      PROVE  task'[Worker] = t /\ \A p \in Producers : task'[p] = task[p]
  BY <1>0, <1>4 DEF Become, Typed, Shape
<1>5. evs[s] \in SUBSET Numbered /\ Topped(evs[s]) /\ Dense(evs[s])
  BY <1>2 DEF Typed, TypeOK, TableTypes, Shape, InLine
<1>6. \A S : Archive!Cardinality(S) = Cardinality(S)
  BY DEF Archive!Cardinality, Cardinality
<1>7. Idle.pc = "idle" /\ Idle.pc \notin Busy
  BY DEF Idle, Busy
<1> HIDE DEF c, s
<1>8. CASE UpsertSession(Worker)
  <2>1. task'[Worker] = Idle /\ \A p \in Producers : task'[p] = task[p]
    BY <1>4, <1>8 DEF UpsertSession, Finish
  <2>2. c.kind = "session" /\ rows' = rows \cup {c.sid} /\ evs' = evs
    BY <1>2, <1>8 DEF UpsertSession, Begins, c, s
  <2>3. Archive!Effect(c)
    BY <2>2 DEF Archive!Effect, Archive!ArchiveSession
  <2>4. InLine'
    BY <1>7, <2>1, <2>2 DEF InLine, At
  <2> QED BY <1>1, <1>2, <1>3, <2>1, <2>3, <2>4 DEF c
<1>9. CASE EventOrder(Worker)
  <2> DEFINE t == [Doing("insert", c) EXCEPT !.next = NextOrder(evs[s])]
  <2>1. Become(Worker, t) /\ UNCHANGED <<rows, evs>> /\ c.kind = "event"
    BY <1>9 DEF EventOrder, Begins, c, s
  <2>2. t.pc = "insert" /\ t.call = c /\ t.next = NextOrder(evs[s])
    BY DEF Doing, Idle
  <2> HIDE DEF t
  <2>3. task'[Worker] = t /\ \A p \in Producers : task'[p] = task[p]
    BY <1>4, <2>1
  <2>4. t.next = Cardinality(evs[s])
    BY <1>5, <2>2, DenseNext
  <2>5. InLine'
    BY <1>2, <2>1, <2>2, <2>3, <2>4 DEF InLine, At, SidOf
  <2> QED BY <1>1, <1>2, <1>3, <2>1, <2>2, <2>3, <2>5 DEF c, Busy
<1>10. CASE EventInsert(Worker)
  <2> DEFINE n == task[Worker].next
             e == [ord |-> n, id |-> c.id]
  <2>1. task'[Worker] = Idle /\ \A p \in Producers : task'[p] = task[p]
    BY <1>4, <1>10 DEF EventInsert, Finish
  <2>2. c.kind = "event" /\ n = Cardinality(evs[s]) /\ n \in Nat
    BY <1>0, <1>10 DEF EventInsert, InLine, c, s, Typed, TypeOK, TaskType
  <2>3. ~ \E r \in evs[s] : r.ord = n
    <3>1. ~(n < Cardinality(evs[s]))
      BY <2>2
    <3> QED BY <1>5, <2>2, <3>1 DEF Dense
  <2>4. evs' = [evs EXCEPT ![s] = @ \cup {e}] /\ rows' = rows
    BY <1>10, <2>3 DEF EventInsert, c, s
  <2>5. Archive!Effect(c)
    BY <1>2, <1>6, <2>2, <2>4 DEF Archive!Effect, Archive!ArchiveEvent
  <2>6. Dense(evs[s] \cup {e})
    BY <1>5, <2>2, DenseAdd
  <2> HIDE DEF e
  <2>7. \A r \in Sessions : Dense(evs'[r])
    BY <1>2, <2>4, <2>6 DEF InLine, Typed, TypeOK, TableTypes
  <2>8. InLine'
    BY <1>7, <2>1, <2>7 DEF InLine, At
  <2> QED BY <1>1, <1>2, <1>3, <2>1, <2>5, <2>8 DEF c
<1>11. CASE DeleteEventRows(Worker)
  <2> DEFINE t == [Doing("remove", c) EXCEPT !.seen = evs[s]]
  <2>1. Become(Worker, t) /\ UNCHANGED <<rows, evs>> /\ c.kind = "delete"
    BY <1>11 DEF DeleteEventRows, Begins, tables, c, s
  <2>2. t.pc = "remove" /\ t.call = c /\ t.seen = evs[s]
    BY DEF Doing, Idle
  <2> HIDE DEF t
  <2>3. task'[Worker] = t /\ \A p \in Producers : task'[p] = task[p]
    BY <1>4, <2>1
  <2>4. InLine'
    BY <1>2, <2>1, <2>2, <2>3 DEF InLine, At, SidOf
  <2> QED BY <1>1, <1>2, <1>3, <2>1, <2>2, <2>3, <2>4 DEF c, Busy
<1>12. CASE DeleteSessionRow(Worker)
  <2>1. task'[Worker] = Idle /\ \A p \in Producers : task'[p] = task[p]
    BY <1>4, <1>12 DEF DeleteSessionRow, Finish
  <2>2. c.kind = "delete" /\ task[Worker].seen = evs[s]
    BY <1>12 DEF DeleteSessionRow, InLine, c, s
  <2>3. rows' = rows \ {s} /\ evs' = [evs EXCEPT ![s] = {}]
    BY <1>12, <2>2 DEF DeleteSessionRow, s
  <2>4. Archive!Effect(c)
    BY <1>2, <2>2, <2>3 DEF Archive!Effect, Archive!RemoveSession
  <2>5. \A r \in Sessions : Dense(evs'[r])
    BY <2>3, DenseEmpty DEF InLine, Typed, TypeOK, TableTypes
  <2>6. InLine'
    BY <1>7, <2>1, <2>5 DEF InLine, At
  <2> QED BY <1>1, <1>2, <1>3, <2>1, <2>4, <2>6 DEF c
<1> QED BY <1>8, <1>9, <1>10, <1>11, <1>12 DEF Execute

-----------------------------------------------------------------------------
(* What a step does to the archive and to what is promised of it. *)

Accepts ==
    \E c \in Calls : /\ Pending' = Append(Pending, c)
                     /\ Promised!Effect(c)
                     /\ UNCHANGED <<rows, evs>>
Applies ==
    /\ Pending # <<>>
    /\ Archive!Effect(Head(Pending))
    /\ Pending' = Tail(Pending)
    /\ UNCHANGED promise
Skips ==
    /\ Faulty
    /\ Pending # <<>>
    /\ Pending' = Tail(Pending)
    /\ UNCHANGED <<rows, evs, promise>>
Forgets ==
    /\ Pending' = <<>>
    /\ prows' = rows /\ pevs' = evs
    /\ UNCHANGED <<rows, evs>>
Stutters == Pending' = Pending /\ UNCHANGED <<rows, evs, promise>>

Archives == Accepts \/ Applies \/ Skips \/ Forgets \/ Stutters

LEMMA PendingNow ==
    ASSUME Typed
    PROVE  /\ Pending \in Seq(Calls)
           /\ task[Worker].pc \notin Busy => Pending = queue
           /\ task[Worker].pc \in Busy =>
                 /\ Pending # <<>>
                 /\ Head(Pending) = task[Worker].call
                 /\ Tail(Pending) = queue
<1>1. queue \in Seq(Calls)
  BY DEF Typed, TypeOK, ChannelTypes
<1>2. CASE task[Worker].pc \notin Busy
  BY <1>1, <1>2, ConcatEmptySeq DEF Pending, Busy
<1>3. CASE task[Worker].pc \in Busy
  <2>1. task[Worker].call \in Calls
    BY <1>3, WorkerApart DEF Typed, TypeOK, TaskType, Busy
  <2>2. Pending = <<task[Worker].call>> \o queue
    BY <1>3 DEF Pending, Busy
  <2> QED BY <1>1, <1>3, <2>1, <2>2, HandBeforeQueue
<1> QED BY <1>2, <1>3

\* Nothing that the archive sees has changed.
LEMMA Unseen ==
    ASSUME UNCHANGED <<rows, evs, promise, queue>>,
           task'[Worker] = task[Worker]
    PROVE  Stutters
BY DEF Stutters, Pending

\* The tasks of the callers are of no concern to the worker.
LEMMA InLineStep ==
    ASSUME InLine, evs' = evs,
           \/ task'[Worker] = task[Worker]
           \/ task'[Worker].pc \notin {"insert", "remove"},
           \A p \in Producers : \/ task'[p] = task[p]
                                \/ task'[p].pc \notin Busy
    PROVE  InLine'
BY DEF InLine, At, SidOf

LEMMA ProduceArchives ==
    ASSUME Typed, InLine, NEW p \in Producers, Produce(p)
    PROVE  Archives /\ InLine'
<1>1. UNCHANGED <<rows, evs, promise, queue>>
  BY DEF Produce, Call, CallRejected, tables, channel
<1>2. \A x \in Execs : task'[x] = task[x] \/ (x = p /\ task'[x].pc = "send")
  BY DEF Produce, Call, CallRejected, Become, Doing, Idle, Typed, Shape
<1>3. task'[Worker] = task[Worker]
  BY <1>2, WorkerApart
<1>4. \A q \in Producers : task'[q] = task[q] \/ task'[q].pc \notin Busy
  BY <1>2, WorkerApart DEF Busy
<1> QED BY <1>1, <1>3, <1>4, Unseen, InLineStep DEF Archives

LEMMA ProceedArchives ==
    ASSUME Typed, InLine, NEW p \in Producers, Proceed(p), ~RunSync(p)
    PROVE  Archives /\ InLine'
<1>1. UNCHANGED <<rows, evs>>
  BY DEF Proceed, Enqueue, SendPanics, Recovered, tables
<1>2. \A x \in Execs : \/ task'[x] = task[x]
                       \/ x = p /\ task'[x].pc \in {"idle", "panicked"}
  BY DEF Proceed, Enqueue, SendPanics, Recovered, Become, Idle, Typed, Shape
<1>3. task'[Worker] = task[Worker]
  BY <1>2, WorkerApart
<1>4. \A q \in Producers : task'[q] = task[q] \/ task'[q].pc \notin Busy
  BY <1>2, WorkerApart DEF Busy
<1>5. InLine'
  BY <1>1, <1>3, <1>4, InLineStep
<1>6. CASE Enqueue(p)
  <2> DEFINE d == task[p].call
             c == task[Worker].call
  <2>1. d \in Calls /\ queue \in Seq(Calls)
    BY <1>6, WorkerApart DEF Enqueue, At, Typed, TypeOK, TaskType, ChannelTypes
  <2>2. queue' = Append(queue, d) /\ Promised!Effect(d)
    BY <1>6 DEF Enqueue
  <2> HIDE DEF d
  <2>3. CASE task[Worker].pc \in Busy
    <3>1. c \in Calls
      BY <2>3, WorkerApart DEF Typed, TypeOK, TaskType, Busy
    <3>2. Pending = <<c>> \o queue /\ Pending' = <<c>> \o Append(queue, d)
      BY <1>3, <2>2, <2>3 DEF Pending, Busy
    <3>3. Pending' = Append(Pending, d)
      BY <2>1, <3>1, <3>2, HandBeforeAppend
    <3> QED BY <1>1, <1>5, <2>1, <2>2, <3>3 DEF Archives, Accepts
  <2>4. CASE task[Worker].pc \notin Busy
    <3>1. Append(queue, d) \in Seq(Calls)
      BY <2>1, AppendProperties
    <3>2. Pending = <<>> \o queue /\ Pending' = <<>> \o Append(queue, d)
      BY <1>3, <2>2, <2>4 DEF Pending, Busy
    <3>3. Pending' = Append(Pending, d)
      BY <2>1, <3>1, <3>2, ConcatEmptySeq
    <3> QED BY <1>1, <1>5, <2>1, <2>2, <3>3 DEF Archives, Accepts
  <2> QED BY <2>3, <2>4
<1>7. CASE SendPanics(p) \/ Recovered(p)
  <2>1. UNCHANGED <<promise, queue>>
    BY <1>7 DEF SendPanics, Recovered, channel
  <2> QED BY <1>1, <1>3, <1>5, <2>1, Unseen DEF Archives
<1> QED BY <1>6, <1>7 DEF Proceed

LEMMA ExecuteArchives ==
    ASSUME Typed, InLine, NEW x \in Execs, Execute(x)
    PROVE  Archives /\ InLine'
<1>1. x = Worker
  BY DEF Execute, UpsertSession, EventOrder, EventInsert, DeleteEventRows,
     DeleteSessionRow, Begins, At, InLine, Busy, Execs
<1> DEFINE c == task[Worker].call
<1>2. /\ task[Worker].pc \in Busy /\ c \in Calls
      /\ UNCHANGED <<channel, closing, calls, accepted, promise>>
      /\ \/ /\ task'[Worker].pc \in Busy /\ task'[Worker].call = c
            /\ UNCHANGED <<rows, evs>>
         \/ task'[Worker] = Idle /\ Archive!Effect(c)
      /\ InLine'
  BY <1>1, WorkerWrites
<1>3. /\ Pending # <<>> /\ Head(Pending) = c /\ Tail(Pending) = queue
      /\ queue \in Seq(Calls)
  BY <1>2, PendingNow DEF Typed, TypeOK, ChannelTypes
<1>4. CASE /\ task'[Worker].pc \in Busy /\ task'[Worker].call = c
           /\ UNCHANGED <<rows, evs>>
  <2>1. Pending' = Pending
    BY <1>2, <1>4 DEF Pending, Busy, channel
  <2> QED BY <1>2, <1>4, <2>1 DEF Archives, Stutters
<1>5. CASE task'[Worker] = Idle /\ Archive!Effect(c)
  <2>1. Pending' = <<>> \o queue'
    BY <1>5 DEF Pending, Idle
  <2>2. Pending' = Tail(Pending)
    BY <1>2, <1>3, <2>1, ConcatEmptySeq DEF channel
  <2> QED BY <1>2, <1>3, <1>5, <2>2 DEF Archives, Applies
<1> QED BY <1>2, <1>4, <1>5

LEMMA ExecFailsArchives ==
    ASSUME Typed, InLine, NEW x \in Execs, ExecFails(x)
    PROVE  Archives /\ InLine'
<1>1. x = Worker /\ task[Worker].pc \in Busy
  BY DEF ExecFails, InLine, Busy, Execs
<1>2. task'[Worker] = Idle /\ \A p \in Producers : task'[p] = task[p]
  BY <1>1, WorkerApart DEF ExecFails, Finish, Become, Typed, Shape
<1>3. UNCHANGED <<rows, evs, promise, queue>> /\ Faulty
  BY DEF ExecFails, channel
<1>4. Pending # <<>> /\ Tail(Pending) = queue /\ queue \in Seq(Calls)
  BY <1>1, PendingNow DEF Typed, TypeOK, ChannelTypes
<1>5. Pending' = <<>> \o queue
  BY <1>2, <1>3 DEF Pending, Idle
<1>6. Pending' = Tail(Pending)
  BY <1>4, <1>5, ConcatEmptySeq
<1>7. InLine'
  BY <1>2, <1>3, InLineStep DEF Idle
<1> QED BY <1>3, <1>4, <1>6, <1>7 DEF Archives, Skips

LEMMA WorkArchives ==
    ASSUME Typed, InLine, Work
    PROVE  Archives /\ InLine'
<1>1. UNCHANGED <<rows, evs, promise>>
  BY DEF Work, Receive, WorkerExit, tables
<1>2. /\ DOMAIN task = Execs /\ Worker \in Execs
      /\ \A p \in Producers : task'[p] = task[p]
  BY WorkerApart DEF Work, Receive, WorkerExit, Become, Typed, Shape
<1>3. queue \in Seq(Calls)
  BY DEF Typed, TypeOK, ChannelTypes
<1>4. CASE Receive
  <2> DEFINE t == Doing("begin", Head(queue))
  <2>1. task'[Worker] = t /\ t.pc = "begin" /\ t.call = Head(queue)
    BY <1>2, <1>4 DEF Receive, Become, Doing, Idle
  <2> HIDE DEF t
  <2>2. queue # <<>> /\ queue' = Tail(queue) /\ task[Worker].pc = "idle"
    BY <1>4 DEF Receive, At
  <2>3. Pending = <<>> \o queue /\ Pending' = <<Head(queue)>> \o Tail(queue)
    BY <2>1, <2>2 DEF Pending
  <2>4. Pending' = Pending
    BY <1>3, <2>2, <2>3, HandTakesFirst, ConcatEmptySeq
  <2>5. InLine'
    BY <1>1, <1>2, <2>1, InLineStep
  <2> QED BY <1>1, <2>4, <2>5 DEF Archives, Stutters
<1>5. CASE WorkerExit
  <2>1. task'[Worker].pc = "exited" /\ task[Worker].pc = "idle" /\ queue' = queue
    BY <1>2, <1>5 DEF WorkerExit, Become, At, Idle, channel
  <2>2. Pending' = Pending
    BY <2>1 DEF Pending
  <2>3. InLine'
    BY <1>1, <1>2, <2>1, InLineStep
  <2> QED BY <1>1, <2>2, <2>3 DEF Archives, Stutters
<1> QED BY <1>4, <1>5 DEF Work

\* Every step is one that the archive may take, or none.
LEMMA NextArchives ==
    ASSUME Typed, InLine, [Next]_vars, \A p \in Producers : ~RunSync(p)
    PROVE  Archives /\ InLine'
<1>1. CASE UNCHANGED vars \/ Stopped \/ Close
  <2>1. UNCHANGED <<rows, evs, promise, queue, task>>
    BY <1>1 DEF Stopped, vars, promise, Close, CloseBegin, CloseChannel,
       CloseReturn, tables, channel
  <2> QED BY <2>1, Unseen, InLineStep DEF Archives
<1>2. CASE Crash
  <2>1. /\ \A x \in Execs : task'[x].pc = "idle"
        /\ queue' = <<>> /\ prows' = rows /\ pevs' = evs
        /\ UNCHANGED <<rows, evs>>
    BY <1>2 DEF Crash, Idle
  <2>2. task'[Worker].pc = "idle" /\ \A p \in Producers : task'[p].pc \notin Busy
    BY <2>1, WorkerApart DEF Busy
  <2>3. Pending' = <<>> \o <<>>
    BY <2>1, <2>2 DEF Pending
  <2>4. <<>> \o <<>> = <<>>
    BY EmptySeq, ConcatEmptySeq
  <2>5. InLine'
    BY <2>1, <2>2, InLineStep
  <2> QED BY <2>1, <2>3, <2>4, <2>5 DEF Archives, Forgets
<1> QED BY <1>1, <1>2, ProduceArchives, ProceedArchives, ExecuteArchives,
           ExecFailsArchives, WorkArchives DEF Next

LEMMA InitInLine == Init => InLine
<1> SUFFICES ASSUME Init PROVE InLine
  OBVIOUS
<1>1. \A x \in Execs : task[x].pc = "idle"
  BY DEF Init, Idle
<1>2. \A s \in Sessions : Dense(evs[s])
  BY DenseEmpty DEF Init
<1> QED BY <1>1, <1>2, WorkerApart DEF InLine, Busy, At

LEMMA InLineAlways == Spec /\ NeverFull => []InLine
<1>1. Typed /\ InLine /\ [Next]_vars /\ [\A p \in Producers : ~RunSync(p)]_vars
         => InLine'
  <2>1. UNCHANGED vars => UNCHANGED <<evs, task>>
    BY DEF vars
  <2> QED BY <2>1, NextArchives, InLineStep
<1> QED BY <1>1, InitInLine, TypedAlways, PTL DEF Spec, NeverFull

\* As long as no caller finds the channel full, the tables change as if the
\* calls were carried out one after the other, in the order in which they
\* were accepted, each at once or not at all, and the events of a session are
\* numbered without a gap: for any number of callers and calls, through
\* failures, Close and crashes.
THEOREM ArchiveRefined == Spec /\ NeverFull => ArchiveSpec
<1>1. Init => Archive!AInit
  <2> SUFFICES ASSUME Init PROVE Archive!AInit
    OBVIOUS
  <2>1. Pending = <<>> \o <<>>
    BY WorkerApart DEF Init, Pending, Idle
  <2>2. <<>> \o <<>> = <<>>
    BY EmptySeq, ConcatEmptySeq
  <2> QED BY <2>1, <2>2 DEF Init, Archive!AInit
<1>2. Typed /\ InLine /\ [Next]_vars /\ [\A p \in Producers : ~RunSync(p)]_vars
         => [Archive!ANext]_(Archive!avars)
  <2> SUFFICES ASSUME Typed, InLine, [Next]_vars,
                      [\A p \in Producers : ~RunSync(p)]_vars
               PROVE  [Archive!ANext]_(Archive!avars)
    OBVIOUS
  <2>1. CASE UNCHANGED vars
    BY <2>1 DEF vars, Archive!avars, Pending
  <2>2. CASE \A p \in Producers : ~RunSync(p)
    <3>1. Archives
      BY <2>2, NextArchives
    <3> QED BY <3>1 DEF Archives, Accepts, Applies, Skips, Forgets, Stutters,
               Archive!ANext, Archive!Accept, Archive!Apply, Archive!Skip,
               Archive!Forget, Archive!avars
  <2> QED BY <2>1, <2>2
<1> QED BY <1>1, <1>2, TypedAlways, InLineAlways, PTL
        DEF Spec, NeverFull, ArchiveSpec, Archive!ASpec

-----------------------------------------------------------------------------
(* Settled tables.  What is promised of the tables is what they hold once   *)
(* the pending calls have run: a history h of the tables leads from what    *)
(* they hold now, call by call, to what is promised.                        *)

Now == [rows |-> rows, evs |-> evs]
PromisedNow == [rows |-> prows, evs |-> pevs]

\* The tables after one more call.
After(a, c) ==
    IF c.kind = "session" THEN [rows |-> a.rows \cup {c.sid}, evs |-> a.evs]
    ELSE IF c.kind = "event"
    THEN LET E == a.evs[c.sid] IN
         [rows |-> a.rows,
          evs |-> [a.evs EXCEPT
                     ![c.sid] = E \cup {[ord |-> Cardinality(E), id |-> c.id]}]]
    ELSE [rows |-> a.rows \ {c.sid}, evs |-> [a.evs EXCEPT ![c.sid] = {}]]

Leads(h, q) ==
    /\ DOMAIN h = 0 .. Len(q)
    /\ \A i \in 1 .. Len(q) : h[i] = After(h[i - 1], q[i])

Kept ==
    \E h : /\ Leads(h, Pending)
           /\ h[0] = Now
           /\ h[Len(Pending)] = PromisedNow

\* The archive's Effect is After, of the tables and of what is promised.
LEMMA EffectNow ==
    ASSUME NEW c, Archive!Effect(c)
    PROVE  Now' = After(Now, c)
<1>1. \A S : Archive!Cardinality(S) = Cardinality(S)
  BY DEF Archive!Cardinality, Cardinality
<1>2. CASE c.kind = "session"
  BY <1>2 DEF Archive!Effect, Archive!ArchiveSession, Now, After
<1>3. CASE c.kind = "event"
  BY <1>1, <1>3 DEF Archive!Effect, Archive!ArchiveEvent, Now, After
<1>4. CASE c.kind = "delete"
  BY <1>4 DEF Archive!Effect, Archive!RemoveSession, Now, After
<1> QED BY <1>2, <1>3, <1>4 DEF Archive!Effect

LEMMA EffectPromised ==
    ASSUME NEW c, Promised!Effect(c)
    PROVE  PromisedNow' = After(PromisedNow, c)
<1>2. CASE c.kind = "session"
  BY <1>2 DEF Promised!Effect, Promised!ArchiveSession, PromisedNow, After
<1>3. CASE c.kind = "event"
  BY PromisedCardinality, <1>3
     DEF Promised!Effect, Promised!ArchiveEvent, PromisedNow, After
<1>4. CASE c.kind = "delete"
  BY <1>4 DEF Promised!Effect, Promised!RemoveSession, PromisedNow, After
<1> QED BY <1>2, <1>3, <1>4 DEF Promised!Effect

\* A call that comes last leads one step further.
LEMMA LeadsAppend ==
    ASSUME NEW q \in Seq(Calls), NEW d \in Calls, NEW h, Leads(h, q)
    PROVE  \E g : /\ Leads(g, Append(q, d))
                  /\ g[0] = h[0]
                  /\ g[Len(Append(q, d))] = After(h[Len(q)], d)
<1> DEFINE n == Len(q)
           z == After(h[n], d)
           g == [i \in 0 .. n + 1 |-> IF i = n + 1 THEN z ELSE h[i]]
           qd == Append(q, d)
<1>1. n \in Nat
  BY LenProperties
<1>2. /\ Len(qd) = n + 1
      /\ \A i \in 1 .. n : qd[i] = q[i]
      /\ qd[n + 1] = d
  BY AppendProperties
<1>3. \A i \in 1 .. n : h[i] = After(h[i - 1], q[i])
  BY DEF Leads
<1> HIDE DEF n, qd
<1>4. ASSUME NEW i \in 1 .. n + 1
      PROVE  g[i] = After(g[i - 1], qd[i])
  <2>1. CASE i = n + 1
    BY <1>1, <1>2, <2>1
  <2>2. CASE i # n + 1
    <3>1. i \in 1 .. n /\ i - 1 \in 0 .. n + 1 /\ i - 1 # n + 1
      BY <1>1, <2>2
    <3>2. g[i] = h[i] /\ g[i - 1] = h[i - 1]
      BY <2>2, <3>1
    <3> QED BY <1>2, <1>3, <3>1, <3>2
  <2> QED BY <2>1, <2>2
<1>5. g[0] = h[0] /\ g[n + 1] = z /\ DOMAIN g = 0 .. n + 1
  BY <1>1
<1> HIDE DEF g
<1>6. Leads(g, qd)
  BY <1>2, <1>4, <1>5 DEF Leads
<1> QED BY <1>2, <1>5, <1>6 DEF qd, n

\* When the first call has run, the others lead on.
LEMMA LeadsTail ==
    ASSUME NEW q \in Seq(Calls), q # <<>>, NEW h, Leads(h, q)
    PROVE  \E g : /\ Leads(g, Tail(q))
                  /\ g[0] = After(h[0], Head(q))
                  /\ g[Len(Tail(q))] = h[Len(q)]
<1> DEFINE n == Len(q)
           g == [i \in 0 .. n - 1 |-> h[i + 1]]
           tq == Tail(q)
<1>1. n \in Nat /\ n # 0
  BY EmptySeq, LenProperties
<1>2. /\ Len(tq) = n - 1
      /\ \A i \in 1 .. n - 1 : tq[i] = q[i + 1]
      /\ Head(q) = q[1]
  BY HeadTailProperties
<1>3. \A i \in 1 .. n : h[i] = After(h[i - 1], q[i])
  BY DEF Leads
<1> HIDE DEF n, tq
<1>4. ASSUME NEW i \in 1 .. n - 1
      PROVE  g[i] = After(g[i - 1], tq[i])
  <2>1. i + 1 \in 1 .. n /\ i \in 0 .. n - 1 /\ i - 1 \in 0 .. n - 1
    BY <1>1
  <2>2. g[i] = h[i + 1] /\ g[i - 1] = h[i]
    BY <1>1, <2>1
  <2>3. h[i + 1] = After(h[i], q[i + 1])
    <3>1. i + 1 - 1 = i
      BY <1>1
    <3> QED BY <1>3, <2>1, <3>1
  <2> QED BY <1>2, <2>2, <2>3
<1>5. g[0] = h[1] /\ g[n - 1] = h[n] /\ DOMAIN g = 0 .. n - 1
  BY <1>1
<1>6. h[1] = After(h[0], q[1])
  BY <1>1, <1>3
<1> HIDE DEF g
<1>7. Leads(g, tq)
  BY <1>2, <1>4, <1>5 DEF Leads
<1> QED BY <1>2, <1>5, <1>6, <1>7 DEF tq, n

\* Nothing is pending: the tables are as promised.
LEMMA LeadsNowhere ==
    ASSUME NEW a, NEW b
    PROVE  (\E h : Leads(h, <<>>) /\ h[0] = a /\ h[Len(<<>>)] = b) <=> a = b
<1>1. Len(<<>>) = 0
  BY EmptySeq
<1>2. ASSUME a = b
      PROVE  \E h : Leads(h, <<>>) /\ h[0] = a /\ h[Len(<<>>)] = b
  <2> DEFINE h == [i \in 0 .. 0 |-> a]
  <2>1. Leads(h, <<>>)
    BY <1>1 DEF Leads
  <2>2. h[0] = a
    OBVIOUS
  <2> HIDE DEF h
  <2> QED BY <1>1, <1>2, <2>1, <2>2
<1> QED BY <1>1, <1>2

LEMMA NextKept ==
    ASSUME ~Faulty, Typed, Kept, Archives
    PROVE  Kept'
<1>0. Pending \in Seq(Calls)
  BY PendingNow
<1> PICK h : Leads(h, Pending) /\ h[0] = Now /\ h[Len(Pending)] = PromisedNow
  BY DEF Kept
<1>1. CASE Accepts
  <2>1. PICK c \in Calls : /\ Pending' = Append(Pending, c)
                           /\ Promised!Effect(c)
                           /\ UNCHANGED <<rows, evs>>
    BY <1>1 DEF Accepts
  <2>2. PICK g : /\ Leads(g, Append(Pending, c))
                 /\ g[0] = h[0]
                 /\ g[Len(Append(Pending, c))] = After(h[Len(Pending)], c)
    BY <1>0, LeadsAppend
  <2>3. Now' = Now /\ PromisedNow' = After(PromisedNow, c)
    BY <2>1, EffectPromised DEF Now
  <2> QED BY <2>1, <2>2, <2>3 DEF Kept
<1>2. CASE Applies
  <2>1. PICK g : /\ Leads(g, Tail(Pending))
                 /\ g[0] = After(h[0], Head(Pending))
                 /\ g[Len(Tail(Pending))] = h[Len(Pending)]
    BY <1>0, <1>2, LeadsTail DEF Applies
  <2>2. Now' = After(Now, Head(Pending)) /\ PromisedNow' = PromisedNow
    BY <1>2, EffectNow DEF Applies, promise, PromisedNow
  <2> QED BY <1>2, <2>1, <2>2 DEF Applies, Kept
<1>3. CASE Forgets
  <2>1. Pending' = <<>> /\ Now' = PromisedNow'
    BY <1>3 DEF Forgets, Now, PromisedNow
  <2> QED BY <2>1, LeadsNowhere DEF Kept
<1>4. CASE Stutters
  BY <1>4 DEF Stutters, Now, PromisedNow, promise, Kept
<1> QED BY <1>1, <1>2, <1>3, <1>4 DEF Archives, Skips

\* As long as no caller finds the channel full and no operation of the
\* database fails, the tables are, whenever every call has run, what the
\* calls said in the order in which they were made: for any number of callers
\* and calls, through Close and crashes.
THEOREM ArchiveSettles ==
    ASSUME ~Faulty
    PROVE  Spec /\ NeverFull => []SettledArchive
<1>1. Init => Kept
  <2> SUFFICES ASSUME Init PROVE Kept
    OBVIOUS
  <2>1. Pending = <<>> \o <<>>
    BY WorkerApart DEF Init, Pending, Idle
  <2>2. Pending = <<>>
    BY <2>1, EmptySeq, ConcatEmptySeq
  <2>3. Now = PromisedNow
    BY DEF Init, Now, PromisedNow
  <2> QED BY <2>2, <2>3, LeadsNowhere DEF Kept
<1>2. Typed /\ InLine /\ Kept /\ [Next]_vars
         /\ [\A p \in Producers : ~RunSync(p)]_vars => Kept'
  <2> SUFFICES ASSUME Typed, InLine, Kept, [Next]_vars,
                      [\A p \in Producers : ~RunSync(p)]_vars
               PROVE  Kept'
    OBVIOUS
  <2>1. CASE UNCHANGED vars
    BY <2>1, NextKept, Unseen DEF vars, promise, Archives
  <2>2. CASE \A p \in Producers : ~RunSync(p)
    BY <2>2, NextArchives, NextKept
  <2> QED BY <2>1, <2>2
<1>3. Typed /\ Kept => SettledArchive
  <2> SUFFICES ASSUME Typed, Kept, Quiet PROVE rows = prows /\ evs = pevs
    BY DEF SettledArchive
  <2>1. Pending = <<>>
    BY PendingNow, WorkerApart DEF Quiet, Busy
  <2>2. Now = PromisedNow
    BY <2>1, LeadsNowhere DEF Kept
  <2> QED BY <2>2 DEF Now, PromisedNow
<1> QED BY <1>1, <1>2, <1>3, TypedAlways, InLineAlways, PTL DEF Spec, NeverFull

=============================================================================
