------------------------- MODULE MemoryServiceProofs -------------------------
(* Theorems about MemoryService. *)
EXTENDS MemoryService, TLAPS

\* Without an embedding model there are no embeddings; a row about to be
\* committed has the embedding of its own event, or none.
RowsFresh ==
    /\ ~Embeds => \A e \in Events : emb[e] = NoText
    /\ \A x \in Execs : \A r \in task[x].rows :
          /\ r.evt \notin Silent
          /\ r.emb \in (IF Embeds THEN {NoText, r.evt} ELSE {NoText})

IInv == TypeOK /\ RowsFresh /\ EmbeddingFresh

USE DEF At, Begins, Stored, Execs, Contents

LEMMA CallTypes ==
    /\ NoCall \in Call
    /\ Idle \in Task
    /\ \A c \in Call : [Idle EXCEPT !.pc = "begin", !.call = c] \in Task
BY DEF NoCall, Idle, Call, Task, CallKinds

LEMMA InitInv == Init => IInv
<1> SUFFICES ASSUME Init PROVE IInv
  OBVIOUS
<1>1. TypeOK
  <2>1. queue \in Seq(Call)
    BY DEF Init
  <2>2. task \in [Execs -> Task]
    BY CallTypes DEF Init
  <2>3. \A e \in Silent : ~Stored(e) /\ \A x \in Execs : e \notin task[x].todo
    BY EventAssumption DEF Init, Idle
  <2> QED BY <2>1, <2>2, <2>3 DEF Init, TypeOK
<1>2. RowsFresh /\ EmbeddingFresh
  BY DEF Init, RowsFresh, EmbeddingFresh, Idle
<1> QED BY <1>1, <1>2 DEF IInv

\* What Submit does to the channel and the executors.
LEMMA SubmitInv ==
    ASSUME IInv, NEW p \in Callers, NEW c \in Call, Submit(p, c)
    PROVE  /\ queue' \in Seq(Call)
           /\ task' \in [Execs -> Task]
           /\ calls' \in Nat
           /\ \A x \in Execs : \/ task'[x] = task[x]
                               \/ task'[x].rows = {} /\ task'[x].todo = {}
<1> USE DEF IInv, TypeOK
<1>1. CASE Len(queue) < Capacity
  BY <1>1 DEF Submit
<1>2. CASE ~(Len(queue) < Capacity)
  <2>1. task' = [task EXCEPT ![p] = [Idle EXCEPT !.pc = "begin", !.call = c]]
    BY <1>2 DEF Submit, Become
  <2>2. [Idle EXCEPT !.pc = "begin", !.call = c] \in Task
    BY CallTypes
  <2> QED BY <1>2, <2>1, <2>2 DEF Submit, Idle
<1> QED BY <1>1, <1>2

\* An executor that goes idle.
LEMMA IdleInv ==
    ASSUME IInv, NEW x \in Execs, Become(x, Idle)
    PROVE  /\ task' \in [Execs -> Task]
           /\ \A y \in Execs : \/ task'[y] = task[y]
                               \/ task'[y].rows = {} /\ task'[y].todo = {}
BY CallTypes DEF IInv, TypeOK, Become, Idle

\* Steps that leave the table alone and start no row.
LEMMA QuietTasks ==
    ASSUME IInv, UNCHANGED table,
           \A x \in Execs : \/ task'[x] = task[x]
                            \/ task'[x].rows = {} /\ task'[x].todo = {}
    PROVE  /\ RowsFresh' /\ EmbeddingFresh'
           /\ \A e \in Silent : ~Stored(e)' /\ \A x \in Execs : e \notin task'[x].todo
<1>1. RowsFresh'
  BY DEF IInv, RowsFresh, table
<1>2. EmbeddingFresh'
  BY DEF IInv, EmbeddingFresh, table
<1>3. \A e \in Silent : ~Stored(e)' /\ \A x \in Execs : e \notin task'[x].todo
  BY DEF IInv, TypeOK, table
<1> QED BY <1>1, <1>2, <1>3

LEMMA RequestInv ==
    ASSUME IInv, NEW p \in Callers, Request(p)
    PROVE  IInv'
<1> USE EventAssumption, TextAssumption
<1>1. CASE \E s \in Sessions : AddSession(p, s)
  <2> PICK s \in Sessions : AddSession(p, s)
    BY <1>1
  <2> DEFINE c == [NoCall EXCEPT !.kind = "add", !.sid = s, !.cached = log[s]]
  <2>1. c \in Call
    BY CallTypes DEF Call, CallKinds, NoCall, IInv, TypeOK
  <2>2. Submit(p, c) /\ UNCHANGED <<sessions, table, found, wish>>
    BY DEF AddSession
  <2> HIDE DEF c
  <2>3. /\ queue' \in Seq(Call) /\ task' \in [Execs -> Task] /\ calls' \in Nat
        /\ \A x \in Execs : \/ task'[x] = task[x]
                            \/ task'[x].rows = {} /\ task'[x].todo = {}
    BY <2>1, <2>2, SubmitInv
  <2>4. RowsFresh' /\ EmbeddingFresh'
        /\ \A e \in Silent : ~Stored(e)' /\ \A x \in Execs : e \notin task'[x].todo
    BY <2>2, <2>3, QuietTasks
  <2> QED BY <2>2, <2>3, <2>4 DEF IInv, TypeOK, sessions, table
<1>2. CASE \E e \in Events : SaveToMemory(p, e)
  <2> PICK e \in Events : SaveToMemory(p, e)
    BY <1>2
  <2> DEFINE c == [NoCall EXCEPT !.kind = "save", !.cached = {e}]
  <2>1. c \in Call
    BY CallTypes DEF Call, CallKinds, NoCall
  <2>2. Submit(p, c) /\ UNCHANGED <<log, table, found>>
        /\ used' = used \cup {e}
        /\ e \notin Silent
    BY DEF SaveToMemory
  <2> HIDE DEF c
  <2>3. /\ queue' \in Seq(Call) /\ task' \in [Execs -> Task] /\ calls' \in Nat
        /\ \A x \in Execs : \/ task'[x] = task[x]
                            \/ task'[x].rows = {} /\ task'[x].todo = {}
    BY <2>1, <2>2, SubmitInv
  <2>4. RowsFresh' /\ EmbeddingFresh'
        /\ \A d \in Silent : ~Stored(d)' /\ \A x \in Execs : d \notin task'[x].todo
    BY <2>2, <2>3, QuietTasks
  <2> QED BY <2>2, <2>3, <2>4 DEF IInv, TypeOK, table
<1>3. CASE \E id \in found[p], t \in Texts : UpdateMemory(p, id, t)
  <2> PICK id \in found[p], t \in Texts : UpdateMemory(p, id, t)
    BY <1>3
  <2> DEFINE c == [NoCall EXCEPT !.kind = "update", !.evt = id.evt,
                                 !.gen = id.gen, !.text = t]
  <2>0. id \in Ids
    BY DEF IInv, TypeOK
  <2>1. c \in Call
    BY <2>0, CallTypes DEF Call, CallKinds, NoCall, Ids
  <2>2. Submit(p, c) /\ UNCHANGED <<sessions, table, found>>
    BY DEF UpdateMemory
  <2> HIDE DEF c
  <2>3. /\ queue' \in Seq(Call) /\ task' \in [Execs -> Task] /\ calls' \in Nat
        /\ \A x \in Execs : \/ task'[x] = task[x]
                            \/ task'[x].rows = {} /\ task'[x].todo = {}
    BY <2>1, <2>2, SubmitInv
  <2>4. RowsFresh' /\ EmbeddingFresh'
        /\ \A e \in Silent : ~Stored(e)' /\ \A x \in Execs : e \notin task'[x].todo
    BY <2>2, <2>3, QuietTasks
  <2> QED BY <2>2, <2>3, <2>4 DEF IInv, TypeOK, sessions, table
<1>4. CASE \E id \in found[p] : DeleteMemory(p, id)
  <2> PICK id \in found[p] : DeleteMemory(p, id)
    BY <1>4
  <2> DEFINE c == [NoCall EXCEPT !.kind = "delete", !.evt = id.evt,
                                 !.gen = id.gen]
  <2>0. id \in Ids
    BY DEF IInv, TypeOK
  <2>1. c \in Call
    BY <2>0, CallTypes DEF Call, CallKinds, NoCall, Ids
  <2>2. Submit(p, c) /\ UNCHANGED <<sessions, table, found>>
    BY DEF DeleteMemory
  <2> HIDE DEF c
  <2>3. /\ queue' \in Seq(Call) /\ task' \in [Execs -> Task] /\ calls' \in Nat
        /\ \A x \in Execs : \/ task'[x] = task[x]
                            \/ task'[x].rows = {} /\ task'[x].todo = {}
    BY <2>1, <2>2, SubmitInv
  <2>4. RowsFresh' /\ EmbeddingFresh'
        /\ \A e \in Silent : ~Stored(e)' /\ \A x \in Execs : e \notin task'[x].todo
    BY <2>2, <2>3, QuietTasks
  <2> QED BY <2>2, <2>3, <2>4 DEF IInv, TypeOK, sessions, table
<1>5. CASE \E q \in Contents \cup {NoText} : Search(p, q)
  <2> PICK q \in Contents \cup {NoText} : Search(p, q)
    BY <1>5
  <2> PICK embedded :
        found' = [found EXCEPT
                     ![p] = {[evt |-> e, gen |-> gen[e]] : e \in Hits(q, embedded)}]
    BY DEF Search
  <2>1. Hits(q, embedded) \subseteq Events
    BY DEF Hits
  <2>2. {[evt |-> e, gen |-> gen[e]] : e \in Hits(q, embedded)} \subseteq Ids
    BY <2>1 DEF Ids, IInv, TypeOK
  <2>3. found' \in [Callers -> SUBSET Ids]
    BY <2>2 DEF IInv, TypeOK
  <2>4. UNCHANGED <<sessions, table, queue, task, calls, wish>>
    BY DEF Search
  <2>5. RowsFresh' /\ EmbeddingFresh'
        /\ \A e \in Silent : ~Stored(e)' /\ \A x \in Execs : e \notin task'[x].todo
    BY <2>4, QuietTasks
  <2> QED BY <2>3, <2>4, <2>5 DEF IInv, TypeOK, sessions, table
<1> QED BY <1>1, <1>2, <1>3, <1>4, <1>5 DEF Request

LEMMA ReceiveInv ==
    ASSUME IInv, Receive
    PROVE  IInv'
<1>1. /\ queue # <<>> /\ queue \in Seq(Call)
      /\ queue' = Tail(queue)
      /\ task' = [task EXCEPT ![Worker] = [Idle EXCEPT !.pc = "begin",
                                                     !.call = Head(queue)]]
      /\ UNCHANGED <<sessions, table, found, calls, wish>>
  BY DEF Receive, Become, IInv, TypeOK
<1>2. Head(queue) \in Call /\ queue' \in Seq(Call)
  BY <1>1
<1>3. [Idle EXCEPT !.pc = "begin", !.call = Head(queue)] \in Task
  BY <1>2, CallTypes
<1>4. /\ task' \in [Execs -> Task]
      /\ \A x \in Execs : \/ task'[x] = task[x]
                          \/ task'[x].rows = {} /\ task'[x].todo = {}
  BY <1>1, <1>3 DEF IInv, TypeOK, Idle
<1>5. RowsFresh' /\ EmbeddingFresh'
      /\ \A e \in Silent : ~Stored(e)' /\ \A x \in Execs : e \notin task'[x].todo
  BY <1>1, <1>4, QuietTasks
<1> QED BY <1>1, <1>2, <1>4, <1>5 DEF IInv, TypeOK, sessions, table

LEMMA BeginAddInv ==
    ASSUME IInv, NEW x \in Execs, BeginAdd(x)
    PROVE  IInv'
<1> DEFINE c == task[x].call
<1>0. /\ UNCHANGED <<sessions, table, queue, found, calls, wish>>
      /\ task[x] \in Task /\ c \in Call
      /\ Begins(x, "add") \/ Begins(x, "save")
  BY DEF BeginAdd, IInv, TypeOK, Task
<1>1. CASE c.cached = {}
  <2>1. Become(x, Idle)
    BY <1>1 DEF BeginAdd
  <2>2. /\ task' \in [Execs -> Task]
        /\ \A y \in Execs : \/ task'[y] = task[y]
                            \/ task'[y].rows = {} /\ task'[y].todo = {}
    BY <2>1, IdleInv
  <2>3. RowsFresh' /\ EmbeddingFresh'
        /\ \A e \in Silent : ~Stored(e)' /\ \A y \in Execs : e \notin task'[y].todo
    BY <1>0, <2>2, QuietTasks
  <2> QED BY <1>0, <2>2, <2>3 DEF IInv, TypeOK, sessions, table
<1>2. CASE c.cached # {}
  <2>1. PICK events \in {IF c.kind = "add" THEN log[c.sid] ELSE c.cached}
                           \cup (IF Faulty THEN {c.cached} ELSE {}) :
            task' = [task EXCEPT ![x] =
                        [task[x] EXCEPT !.pc = "rows", !.seen = events \ Silent,
                                        !.todo = events \ Silent]]
    BY <1>2 DEF BeginAdd, Become
  <2>2. events \in SUBSET Events
    BY <1>0 DEF Call, IInv, TypeOK
  <2>3. [task[x] EXCEPT !.pc = "rows", !.seen = events \ Silent,
                        !.todo = events \ Silent] \in Task
    BY <1>0, <2>2 DEF Task
  <2>4. /\ task' \in [Execs -> Task]
        /\ \A y \in Execs : /\ task'[y].rows = task[y].rows
                            /\ \/ task'[y].todo = task[y].todo
                               \/ task'[y].todo = events \ Silent
    BY <1>0, <2>1, <2>3 DEF IInv, TypeOK, Task
  <2>5. RowsFresh' /\ EmbeddingFresh'
    BY <1>0, <2>4 DEF IInv, RowsFresh, EmbeddingFresh, table
  <2>6. TypeOK'
    BY <1>0, <2>4 DEF IInv, TypeOK, sessions, table
  <2> QED BY <2>5, <2>6 DEF IInv
<1> QED BY <1>1, <1>2

LEMMA AddRowInv ==
    ASSUME IInv, NEW x \in Execs, NEW e \in Events, AddRow(x, e)
    PROVE  IInv'
<1>1. PICK v \in (IF Embeds THEN {e} ELSE {NoText})
                    \cup (IF Faulty THEN {NoText} ELSE {}) :
          task' = [task EXCEPT
                      ![x] = [task[x] EXCEPT !.todo = @ \ {e},
                                             !.rows = @ \cup {[evt |-> e, emb |-> v]}]]
  BY DEF AddRow, Become
<1>2. UNCHANGED <<sessions, table, queue, found, calls, wish>> /\ task[x] \in Task
  BY DEF AddRow, IInv, TypeOK
<1>3. [evt |-> e, emb |-> v] \in Row
  BY DEF Row
<1>4. [task[x] EXCEPT !.todo = @ \ {e},
                      !.rows = @ \cup {[evt |-> e, emb |-> v]}] \in Task
  BY <1>2, <1>3 DEF Task
<1>5. /\ task' \in [Execs -> Task]
      /\ task'[x].todo = task[x].todo \ {e}
      /\ task'[x].rows = task[x].rows \cup {[evt |-> e, emb |-> v]}
      /\ \A y \in Execs \ {x} : task'[y] = task[y]
  BY <1>1, <1>2, <1>4 DEF IInv, TypeOK, Task
<1>6. RowsFresh' /\ EmbeddingFresh'
  <2>1. e \notin Silent
    BY DEF AddRow, IInv, TypeOK
  <2>2. UNCHANGED <<text, emb, gen>>
    BY <1>2 DEF table
  <2>3. EmbeddingFresh'
    BY <2>2 DEF IInv, EmbeddingFresh, Stored
  <2>4. ASSUME NEW y \in Execs, NEW r \in task'[y].rows
        PROVE  r.evt \notin Silent /\ r.emb \in IF Embeds THEN {NoText, r.evt} ELSE {NoText}
    <3>1. CASE r \in task[y].rows
      BY <3>1 DEF IInv, RowsFresh
    <3>2. CASE y = x /\ r = [evt |-> e, emb |-> v]
      BY <3>2, <2>1
    <3> QED BY <1>5, <3>1, <3>2
  <2> QED BY <2>2, <2>3, <2>4 DEF IInv, RowsFresh
<1>7. TypeOK'
  BY <1>2, <1>5 DEF IInv, TypeOK, sessions, table
<1> QED BY <1>6, <1>7 DEF IInv

\* A commit overwrites the entries of its rows, content and embedding.
LEMMA UpsertInv ==
    ASSUME IInv, NEW R \in SUBSET Row, Upsert(R),
           \A r \in R : r.evt \notin Silent /\ r.emb \in (IF Embeds THEN {NoText, r.evt} ELSE {NoText})
    PROVE  /\ text' \in [Events -> Contents \cup {NoText}]
           /\ emb' \in [Events -> Contents \cup {NoText}]
           /\ gen' \in [Events -> Nat]
           /\ \A e \in Silent : ~Stored(e)'
           /\ ~Embeds => \A e \in Events : emb'[e] = NoText
           /\ EmbeddingFresh'
<1> DEFINE row(e) == CHOOSE r \in R : r.evt = e
           new == {r.evt : r \in R}
<1>1. \A e \in new : row(e) \in R /\ row(e).evt = e
  OBVIOUS
<1>2. \A e \in new : row(e).emb \in (IF Embeds THEN {NoText, e} ELSE {NoText})
  BY <1>1
<1>3. new \subseteq Events \ Silent
  BY DEF Row
<1>4. /\ text' = [e \in Events |-> IF e \in new THEN e ELSE text[e]]
      /\ emb' = [e \in Events |-> IF e \in new /\ (Embeds \/ ~Stored(e))
                                  THEN row(e).emb ELSE emb[e]]
      /\ gen' = [e \in Events |-> IF e \in new /\ ~Stored(e)
                                  THEN gen[e] + 1 ELSE gen[e]]
  BY DEF Upsert
<1> HIDE DEF row, new
<1>5. /\ text' \in [Events -> Contents \cup {NoText}]
      /\ emb' \in [Events -> Contents \cup {NoText}]
      /\ gen' \in [Events -> Nat]
  <2>1. text' \in [Events -> Contents \cup {NoText}]
    BY <1>4 DEF IInv, TypeOK
  <2>2. emb' \in [Events -> Contents \cup {NoText}]
    <3> SUFFICES ASSUME NEW e \in Events
                 PROVE  (IF e \in new /\ (Embeds \/ ~Stored(e))
                         THEN row(e).emb ELSE emb[e]) \in Contents \cup {NoText}
      BY <1>4
    <3>1. emb[e] \in Contents \cup {NoText}
      BY DEF IInv, TypeOK
    <3>2. e \in new => row(e).emb \in Contents \cup {NoText}
      BY <1>2
    <3> QED BY <3>1, <3>2
  <2>3. gen' \in [Events -> Nat]
    BY <1>4 DEF IInv, TypeOK
  <2> QED BY <2>1, <2>2, <2>3
<1>6. \A e \in Silent : ~Stored(e)'
  <2> SUFFICES ASSUME NEW e \in Silent PROVE text'[e] = NoText
    OBVIOUS
  <2>1. e \in Events /\ e \notin new /\ text[e] = NoText
    BY <1>3, EventAssumption DEF IInv, TypeOK
  <2> QED BY <1>4, <2>1
<1>7. ~Embeds => \A e \in Events : emb'[e] = NoText
  BY <1>2, <1>4 DEF IInv, RowsFresh
<1>8. EmbeddingFresh'
  <2> SUFFICES ASSUME NEW e \in Events, Stored(e)'
               PROVE  emb'[e] \in {NoText, text'[e]}
    BY DEF EmbeddingFresh
  <2>1. CASE e \in new /\ Embeds
    BY <1>2, <1>4, <2>1
  <2>2. CASE e \notin new
    BY <1>4, <2>2 DEF IInv, EmbeddingFresh
  <2>3. CASE ~Embeds
    BY <1>7, <2>3
  <2> QED BY <2>1, <2>2, <2>3
<1> QED BY <1>5, <1>6, <1>7, <1>8

LEMMA CommitInv ==
    ASSUME IInv, NEW x \in Execs, Commit(x)
    PROVE  IInv'
<1> DEFINE R == IF Aborted(x) THEN {} ELSE task[x].rows
<1>1. /\ Upsert(R) /\ Become(x, Idle)
      /\ UNCHANGED <<sessions, queue, found, calls, wish>>
  BY DEF Commit
<1>2. task[x].rows \in SUBSET Row
  BY DEF IInv, TypeOK, Task
<1>3. /\ R \in SUBSET Row
      /\ \A r \in R : /\ r.evt \notin Silent
                      /\ r.emb \in (IF Embeds THEN {NoText, r.evt} ELSE {NoText})
  BY <1>2 DEF IInv, RowsFresh
<1> HIDE DEF R
<1>4. /\ text' \in [Events -> Contents \cup {NoText}]
      /\ emb' \in [Events -> Contents \cup {NoText}]
      /\ gen' \in [Events -> Nat]
      /\ \A e \in Silent : ~Stored(e)'
      /\ ~Embeds => \A e \in Events : emb'[e] = NoText
      /\ EmbeddingFresh'
  BY <1>1, <1>3, UpsertInv
<1>5. /\ task' \in [Execs -> Task]
      /\ \A y \in Execs : \/ task'[y] = task[y]
                          \/ task'[y].rows = {} /\ task'[y].todo = {}
  BY <1>1, IdleInv
<1>6. TypeOK'
  BY <1>1, <1>4, <1>5 DEF IInv, TypeOK, sessions
<1>7. RowsFresh'
  BY <1>4, <1>5 DEF IInv, RowsFresh
<1> QED BY <1>4, <1>6, <1>7 DEF IInv

LEMMA UpdateInv ==
    ASSUME IInv, NEW x \in Execs, UpdateEntry(x)
    PROVE  IInv'
<1> DEFINE c == task[x].call
           hit == Stored(c.evt) /\ gen[c.evt] = c.gen
<1>1. /\ c \in Call
      /\ text' = (IF hit THEN [text EXCEPT ![c.evt] = c.text] ELSE text)
      /\ emb' = (IF hit /\ Embeds THEN [emb EXCEPT ![c.evt] = c.text] ELSE emb)
      /\ Become(x, Idle)
      /\ UNCHANGED <<sessions, gen, queue, found, calls, wish>>
  BY DEF UpdateEntry, IInv, TypeOK, Task
<1>2. c.text \in Contents \cup {NoText}
  BY <1>1 DEF Call
<1> HIDE DEF c
<1>3. /\ text' \in [Events -> Contents \cup {NoText}]
      /\ emb' \in [Events -> Contents \cup {NoText}]
  BY <1>1, <1>2 DEF IInv, TypeOK
<1>4. \A e \in Silent : ~Stored(e)'
  BY <1>1, EventAssumption DEF IInv, TypeOK
<1>5. EmbeddingFresh'
  <2> SUFFICES ASSUME NEW e \in Events, Stored(e)'
               PROVE  emb'[e] \in {NoText, text'[e]}
    BY DEF EmbeddingFresh
  <2>1. CASE hit /\ e = c.evt /\ Embeds
    BY <1>1, <2>1 DEF IInv, TypeOK
  <2>2. CASE ~Embeds
    BY <1>1, <2>2 DEF IInv, RowsFresh
  <2>3. CASE ~hit \/ e # c.evt
    BY <1>1, <2>3 DEF IInv, TypeOK, EmbeddingFresh
  <2> QED BY <2>1, <2>2, <2>3
<1>6. /\ task' \in [Execs -> Task]
      /\ \A y \in Execs : \/ task'[y] = task[y]
                          \/ task'[y].rows = {} /\ task'[y].todo = {}
  BY <1>1, IdleInv
<1>7. TypeOK'
  BY <1>1, <1>3, <1>4, <1>6 DEF IInv, TypeOK, sessions
<1>8. RowsFresh'
  BY <1>1, <1>6 DEF IInv, RowsFresh
<1> QED BY <1>5, <1>7, <1>8 DEF IInv

LEMMA DeleteInv ==
    ASSUME IInv, NEW x \in Execs, DeleteEntry(x)
    PROVE  IInv'
<1> DEFINE e == task[x].call.evt
<1>1. /\ \/ text' = [text EXCEPT ![e] = NoText] /\ emb' = [emb EXCEPT ![e] = NoText]
         \/ text' = text /\ emb' = emb
      /\ Become(x, Idle)
      /\ UNCHANGED <<sessions, gen, queue, found, calls, wish>>
  BY DEF DeleteEntry
<1> HIDE DEF e
<1>2. /\ text' \in [Events -> Contents \cup {NoText}]
      /\ emb' \in [Events -> Contents \cup {NoText}]
      /\ \A d \in Events : \/ text'[d] = NoText /\ emb'[d] = NoText
                           \/ text'[d] = text[d] /\ emb'[d] = emb[d]
  BY <1>1 DEF IInv, TypeOK
<1>3. /\ task' \in [Execs -> Task]
      /\ \A y \in Execs : \/ task'[y] = task[y]
                          \/ task'[y].rows = {} /\ task'[y].todo = {}
  BY <1>1, IdleInv
<1>4. TypeOK'
  BY <1>1, <1>2, <1>3, EventAssumption DEF IInv, TypeOK, sessions
<1>5. RowsFresh' /\ EmbeddingFresh'
  BY <1>2, <1>3 DEF IInv, RowsFresh, EmbeddingFresh
<1> QED BY <1>4, <1>5 DEF IInv

LEMMA TroubleInv ==
    ASSUME IInv, NEW x \in Execs, Trouble(x)
    PROVE  IInv'
<1>1. CASE \E e \in Events : RowFails(x, e)
  <2> PICK e \in Events : RowFails(x, e)
    BY <1>1
  <2>1. /\ task' = [task EXCEPT ![x] = [task[x] EXCEPT !.todo = @ \ {e}]]
        /\ UNCHANGED <<sessions, table, queue, found, calls, wish>>
        /\ task[x] \in Task
    BY DEF RowFails, Become, IInv, TypeOK
  <2>2. [task[x] EXCEPT !.todo = @ \ {e}] \in Task
    BY <2>1 DEF Task
  <2>3. /\ task' \in [Execs -> Task]
        /\ \A y \in Execs : /\ task'[y].rows = task[y].rows
                            /\ task'[y].todo \subseteq task[y].todo
    BY <2>1, <2>2 DEF IInv, TypeOK, Task
  <2>4. RowsFresh' /\ EmbeddingFresh'
    BY <2>1, <2>3 DEF IInv, RowsFresh, EmbeddingFresh, table
  <2>5. TypeOK'
    BY <2>1, <2>3 DEF IInv, TypeOK, sessions, table
  <2> QED BY <2>4, <2>5 DEF IInv
<1>2. CASE ExecFails(x)
  <2>1. /\ Become(x, Idle)
        /\ UNCHANGED <<sessions, table, queue, found, calls, wish>>
    BY <1>2 DEF ExecFails
  <2>2. /\ task' \in [Execs -> Task]
        /\ \A y \in Execs : \/ task'[y] = task[y]
                            \/ task'[y].rows = {} /\ task'[y].todo = {}
    BY <2>1, IdleInv
  <2>3. RowsFresh' /\ EmbeddingFresh'
        /\ \A e \in Silent : ~Stored(e)' /\ \A y \in Execs : e \notin task'[y].todo
    BY <2>1, <2>2, QuietTasks
  <2> QED BY <2>1, <2>2, <2>3 DEF IInv, TypeOK, sessions, table
<1> QED BY <1>1, <1>2 DEF Trouble

\* The sessions change, and the process dies, without a step of the service.
LEMMA OutsideInv ==
    ASSUME IInv, \/ \E s \in Sessions, e \in Events : AppendEvent(s, e)
                 \/ \E s \in Sessions : Vanish(s)
                 \/ Crash
                 \/ UNCHANGED vars
    PROVE  IInv'
<1>1. CASE \E s \in Sessions, e \in Events : AppendEvent(s, e)
  <2> PICK s \in Sessions, e \in Events : AppendEvent(s, e)
    BY <1>1
  <2>1. UNCHANGED <<table, task>>
    BY DEF AppendEvent
  <2>2. TypeOK'
    BY DEF AppendEvent, IInv, TypeOK, table
  <2> QED BY <2>1, <2>2, QuietTasks DEF IInv
<1>2. CASE \E s \in Sessions : Vanish(s)
  <2>1. UNCHANGED <<table, task>>
    BY <1>2 DEF Vanish
  <2>2. TypeOK'
    BY <1>2 DEF Vanish, IInv, TypeOK, table
  <2> QED BY <2>1, <2>2, QuietTasks DEF IInv
<1>3. CASE Crash
  <2>1. /\ UNCHANGED <<sessions, table, calls>>
        /\ queue' \in Seq(Call)
        /\ task' \in [Execs -> Task]
        /\ \A x \in Execs : task'[x].rows = {} /\ task'[x].todo = {}
        /\ found' \in [Callers -> SUBSET Ids]
    <3>1. queue' \in Seq(Call)
      BY <1>3 DEF Crash
    <3>2. task' = [x \in Execs |-> Idle] /\ found' = [p \in Callers |-> {}]
          /\ UNCHANGED <<sessions, table, calls>>
      BY <1>3 DEF Crash
    <3> QED BY <3>1, <3>2, CallTypes DEF Idle
  <2>2. RowsFresh' /\ EmbeddingFresh'
        /\ \A e \in Silent : ~Stored(e)' /\ \A x \in Execs : e \notin task'[x].todo
    BY <2>1, QuietTasks
  <2> QED BY <2>1, <2>2 DEF IInv, TypeOK, sessions, table
<1>4. CASE UNCHANGED vars
  <2>1. UNCHANGED <<table, task>>
    BY <1>4 DEF vars, table
  <2>2. TypeOK'
    BY <1>4 DEF vars, IInv, TypeOK
  <2> QED BY <2>1, <2>2, QuietTasks DEF IInv
<1> QED BY <1>1, <1>2, <1>3, <1>4

LEMMA NextInv == IInv /\ [Next]_vars => IInv'
<1> SUFFICES ASSUME IInv, [Next]_vars PROVE IInv'
  OBVIOUS
<1>1. CASE \E p \in Callers : Request(p)
  BY <1>1, RequestInv
<1>2. CASE Receive
  BY <1>2, ReceiveInv
<1>3. CASE \E x \in Execs : Execute(x)
  BY <1>3, BeginAddInv, AddRowInv, CommitInv, UpdateInv, DeleteInv DEF Execute
<1>4. CASE \E x \in Execs : Trouble(x)
  BY <1>4, TroubleInv
<1>5. CASE \/ \E s \in Sessions, e \in Events : AppendEvent(s, e)
           \/ \E s \in Sessions : Vanish(s)
           \/ Crash
           \/ UNCHANGED vars
  BY <1>5, OutsideInv
<1> QED BY <1>1, <1>2, <1>3, <1>4, <1>5 DEF Next

\* Through overflow, failures and crashes every variable keeps its type, and
\* no event without text is stored (memory.go:259-269).
THEOREM TypeCorrect == Spec => []TypeOK
<1>1. IInv => TypeOK
  BY DEF IInv
<1> QED BY <1>1, InitInv, NextInv, PTL DEF Spec

\* However adding, updating and deleting interleave and fail, an entry never
\* has the embedding of a content it no longer has (memory.go:304-305, 776-780).
THEOREM EmbeddingsFollowContents == Spec => []EmbeddingFresh
<1>1. IInv => EmbeddingFresh
  BY DEF IInv
<1> QED BY <1>1, InitInv, NextInv, PTL DEF Spec

-----------------------------------------------------------------------------
(* Whole sessions.  The rows an executor has inserted and those it has yet  *)
(* to insert are of the events that it read.                                *)

WholeTask(t) ==
    /\ {r.evt : r \in t.rows} \cup t.todo \subseteq t.seen
    /\ t.pc = "begin" => t.rows = {}

Whole == \A x \in Execs : WholeTask(task[x])

LEMMA WholeInit == Init => Whole
BY DEF Init, Whole, WholeTask, Idle

LEMMA WholeFresh ==
    /\ WholeTask(Idle)
    /\ \A c : WholeTask([Idle EXCEPT !.pc = "begin", !.call = c])
BY DEF WholeTask, Idle

LEMMA WholeNext ==
    ASSUME IInv, Whole, [Next]_vars
    PROVE  Whole'
<1> USE DEF IInv, TypeOK
<1>1. ASSUME NEW x \in Execs, NEW t, Become(x, t), WholeTask(t)
      PROVE  Whole'
  BY <1>1 DEF Become, Whole
<1>2. ASSUME UNCHANGED task
      PROVE  Whole'
  BY <1>2 DEF Whole
<1>3. ASSUME NEW p \in Callers, Request(p)
      PROVE  Whole'
  <2>1. \/ UNCHANGED task
        \/ \E c : Become(p, [Idle EXCEPT !.pc = "begin", !.call = c])
    BY <1>3 DEF Request, AddSession, SaveToMemory, UpdateMemory, DeleteMemory,
       Search, Submit
  <2> QED BY <1>1, <1>2, <2>1, WholeFresh
<1>4. CASE Receive
  BY <1>1, <1>4, WholeFresh DEF Receive
<1>5. ASSUME NEW x \in Execs, BeginAdd(x)
      PROVE  Whole'
  <2>1. CASE Become(x, Idle)
    BY <1>1, <2>1, WholeFresh
  <2>2. CASE ~Become(x, Idle)
    <3>1. PICK E : Become(x, [task[x] EXCEPT !.pc = "rows", !.seen = E \ Silent,
                                             !.todo = E \ Silent])
      BY <1>5, <2>2 DEF BeginAdd
    <3> DEFINE t == [task[x] EXCEPT !.pc = "rows", !.seen = E \ Silent,
                                    !.todo = E \ Silent]
    <3>2. task[x] \in Task
      OBVIOUS
    <3>3. t.seen = E \ Silent /\ t.todo = E \ Silent /\ t.rows = task[x].rows
          /\ t.pc = "rows"
      BY <3>2 DEF Task
    <3>4. task[x].rows = {}
      BY <1>5 DEF BeginAdd, Whole, WholeTask
    <3> HIDE DEF t
    <3>5. WholeTask(t)
      BY <3>3, <3>4 DEF WholeTask
    <3> QED BY <1>1, <3>1, <3>5 DEF t
  <2> QED BY <2>1, <2>2
<1>6. ASSUME NEW x \in Execs, NEW e \in Events, AddRow(x, e)
      PROVE  Whole'
  <2>1. PICK v : Become(x, [task[x] EXCEPT !.todo = @ \ {e},
                               !.rows = @ \cup {[evt |-> e, emb |-> v]}])
    BY <1>6 DEF AddRow
  <2> DEFINE t == [task[x] EXCEPT !.todo = @ \ {e},
                                  !.rows = @ \cup {[evt |-> e, emb |-> v]}]
  <2>2. task[x] \in Task /\ WholeTask(task[x])
    BY DEF Whole
  <2>3. t.seen = task[x].seen /\ t.todo = task[x].todo \ {e} /\ t.pc = "rows"
        /\ t.rows = task[x].rows \cup {[evt |-> e, emb |-> v]}
    BY <1>6, <2>2 DEF Task, AddRow
  <2> HIDE DEF t
  <2>4. e \in task[x].todo
    BY <1>6 DEF AddRow
  <2>5. WholeTask(t)
    BY <2>2, <2>3, <2>4 DEF WholeTask
  <2> QED BY <1>1, <2>1, <2>5 DEF t
<1>7. ASSUME NEW x \in Execs, NEW e \in Events, RowFails(x, e)
      PROVE  Whole'
  <2> DEFINE t == [task[x] EXCEPT !.todo = @ \ {e}]
  <2>1. task[x] \in Task /\ WholeTask(task[x]) /\ Become(x, t)
    BY <1>7 DEF Whole, RowFails
  <2>2. t.seen = task[x].seen /\ t.todo = task[x].todo \ {e} /\ t.pc = "rows"
        /\ t.rows = task[x].rows
    BY <1>7, <2>1 DEF Task, RowFails
  <2> HIDE DEF t
  <2>3. WholeTask(t)
    BY <2>1, <2>2 DEF WholeTask
  <2> QED BY <1>1, <2>1, <2>3
<1>8. ASSUME NEW x \in Execs,
             Commit(x) \/ UpdateEntry(x) \/ DeleteEntry(x) \/ ExecFails(x)
      PROVE  Whole'
  BY <1>1, <1>8, WholeFresh DEF Commit, UpdateEntry, DeleteEntry, ExecFails
<1>9. CASE Crash
  BY <1>9, WholeFresh DEF Crash, Whole
<1>10. CASE \/ \E s \in Sessions, e \in Events : AppendEvent(s, e)
            \/ \E s \in Sessions : Vanish(s)
            \/ UNCHANGED vars
  BY <1>2, <1>10 DEF AppendEvent, Vanish, vars
<1> QED BY <1>3, <1>4, <1>5, <1>6, <1>7, <1>8, <1>9, <1>10
        DEF Next, Execute, Trouble

\* Only a commit stores entries that were not there.
LEMMA StoresByCommit ==
    ASSUME IInv, [Next]_vars, \A x \in Execs : ~Commit(x),
           NEW e \in Events, ~Stored(e)
    PROVE  ~Stored(e)'
<1>1. CASE \E x \in Execs : UpdateEntry(x)
  BY <1>1 DEF UpdateEntry, IInv, TypeOK
<1>2. CASE \E x \in Execs : DeleteEntry(x)
  BY <1>2 DEF DeleteEntry, IInv, TypeOK
<1>3. CASE text' = text
  BY <1>3
<1> QED BY <1>1, <1>2, <1>3 DEF Next, Request, AddSession, SaveToMemory,
           UpdateMemory, DeleteMemory, Search, Receive, Execute, BeginAdd, AddRow,
           Trouble, RowFails, ExecFails, AppendEvent, Vanish, Crash, table, vars

LEMMA CommitsWhole ==
    ASSUME IInv, Whole, NEW x \in Execs, Commit(x)
    PROVE  LET new == {e \in Events : ~Stored(e) /\ Stored(e)'}
           IN  new # {} => /\ new \subseteq task[x].seen
                           /\ \A e \in task[x].seen : Stored(e)'
<1> DEFINE R == IF Aborted(x) THEN {} ELSE task[x].rows
<1>1. /\ task[x].todo = {} /\ task[x].seen \subseteq Events
      /\ WholeTask(task[x])
  BY DEF Commit, IInv, TypeOK, Task, Whole
<1>2. text' = [e \in Events |-> IF e \in {r.evt : r \in R} THEN e ELSE text[e]]
  BY DEF Commit, Upsert
<1>3. CASE Aborted(x)
  BY <1>2, <1>3 DEF IInv, TypeOK
<1>4. CASE ~Aborted(x)
  <2>1. {r.evt : r \in R} = task[x].seen
    BY <1>1, <1>4 DEF Aborted, Written
  <2> HIDE DEF R
  <2> QED BY <1>1, <1>2, <2>1, TextAssumption
<1> QED BY <1>3, <1>4

\* Whatever fails, and however many executors write at a time: entries that
\* appear are all the events that one transaction read (memory.go:247, 343).
THEOREM SessionsAreWhole == Spec => AllOrNothing
<1>1. IInv /\ Whole /\ [Next]_vars
        => [LET new == {e \in Events : ~Stored(e) /\ Stored(e)'}
            IN  new # {} => \E x \in Execs : /\ At(x, "rows")
                                             /\ new \subseteq task[x].seen
                                             /\ \A e \in task[x].seen : Stored(e)']_vars
  <2> SUFFICES ASSUME IInv, Whole, [Next]_vars,
                      {e \in Events : ~Stored(e) /\ Stored(e)'} # {}
               PROVE  \E x \in Execs :
                         /\ At(x, "rows")
                         /\ {e \in Events : ~Stored(e) /\ Stored(e)'}
                               \subseteq task[x].seen
                         /\ \A e \in task[x].seen : Stored(e)'
    OBVIOUS
  <2>1. PICK x \in Execs : Commit(x)
    BY StoresByCommit
  <2>2. At(x, "rows")
    BY <2>1 DEF Commit
  <2> QED BY <2>1, <2>2, CommitsWhole
<1>2. IInv /\ Whole /\ [Next]_vars => IInv' /\ Whole'
  BY NextInv, WholeNext
<1> QED BY <1>1, <1>2, InitInv, WholeInit, PTL DEF Spec, AllOrNothing

-----------------------------------------------------------------------------
(***************************************************************************)
(* The edits of the agent (MemoryService!EditsLast): as long as the        *)
(* channel has room the worker alone writes, and every edit takes effect   *)
(* in the order in which the agent made it.                                *)
(***************************************************************************)

\* No call is made while the channel is full.
HasRoom == [][calls' # calls => Len(queue) < Capacity]_vars

\* No entry's last update may run before an earlier one: what the agent wants of
\* every entry is known.
NoneRaced == \A e \in Events : wish[e] # "raced"

-----------------------------------------------------------------------------
(* The calls under way: place 0 is the worker's hand, the others are those *)
(* of the channel.                                                         *)

Places == {i \in 0 .. Len(queue) : i = 0 => ~At(Worker, "idle")}
Pend(i) == IF i = 0 THEN task[Worker].call ELSE queue[i]

Touches(c, e) == IF c.kind = "save" THEN c.cached = {e} ELSE c.evt = e
Saves(c, e) == c.kind = "save" /\ Touches(c, e)
Deletes(c, e) == c.kind = "delete" /\ Touches(c, e)
Content(c, e) == IF c.kind = "save" THEN e ELSE c.text
Writes(c, e, t) == Touches(c, e) /\ c.kind # "delete" /\ Content(c, e) = t

\* What the tools call: an entry is saved once, and edited under the ID it
\* got when it was.
ToolCall(c) ==
    /\ c.kind \in {"save", "update", "delete"}
    /\ c.kind = "save" => \E e \in used \ Silent : c.cached = {e}
    /\ c.kind # "save" => c.evt \in Events /\ c.gen = 1 /\ gen[c.evt] = 1
    /\ c.kind = "update" => c.text \in Texts

\* The last call that concerns e writes t, or, where there is none, the
\* entry is t already.
LastWrite(e, t) ==
    \/ \E i \in Places : /\ Writes(Pend(i), e, t)
                         /\ \A j \in Places : j > i => ~Touches(Pend(j), e)
    \/ text[e] = t /\ \A i \in Places : ~Touches(Pend(i), e)

\* An entry, its pending calls and what the agent wants of it.
Entry(e) ==
    /\ gen[e] \in {0, 1} /\ (Stored(e) => gen[e] = 1)
    /\ \A i \in Places : Saves(Pend(i), e) =>
          /\ gen[e] = 0 /\ wish[e] = e
          /\ \A j \in Places : Touches(Pend(j), e) => j = i
    /\ e \notin used =>
          /\ gen[e] = 0 /\ wish[e] = NoText
          /\ \A i \in Places : ~Touches(Pend(i), e)
    /\ wish[e] = "gone" => ~Stored(e) \/ \E i \in Places : Deletes(Pend(i), e)
    /\ \A i \in Places : Deletes(Pend(i), e) => wish[e] = "gone" \/ ~Stored(e)
    /\ wish[e] \in Contents => /\ gen[e] = 1 => Stored(e)
                               /\ LastWrite(e, wish[e])

\* The worker at an INSERT has the entry that the call in its hand saves.
Insert(t) ==
    /\ t.call.kind = "save"
    /\ t.call.cached = t.seen
    /\ {r.evt : r \in t.rows} \cup t.todo = t.seen

InOrder ==
    /\ \A p \in Callers : At(p, "idle")
    /\ At(Worker, "rows") => Insert(task[Worker])
    /\ \A i \in Places : ToolCall(Pend(i))
    /\ wish \in [Events -> Contents \cup {NoText, "gone"}]
    /\ \A e \in Events : Entry(e)
    /\ \A p \in Callers : \A id \in found[p] : id.gen = 1 /\ gen[id.evt] = 1

-----------------------------------------------------------------------------
(* How the places change. *)

LEMMA WorkerApart == Worker \in Execs /\ \A p \in Callers : p \in Execs /\ p # Worker
BY WorkerAssumption

LEMMA PlacesStay ==
    ASSUME queue' = queue, task'[Worker].call = task[Worker].call,
           task'[Worker].pc = "idle" <=> task[Worker].pc = "idle"
    PROVE  /\ Places' = Places
           /\ \A i \in Places : Pend(i)' = Pend(i)
BY DEF Places, Pend

LEMMA PlacesGrow ==
    ASSUME IInv, NEW c \in Call, queue' = Append(queue, c),
           task'[Worker] = task[Worker], NEW n, n = Len(queue) + 1
    PROVE  /\ Places' = Places \cup {n} /\ Pend(n)' = c
           /\ \A i \in Places : i \in Nat /\ i < n /\ Pend(i)' = Pend(i)
<1>1. queue \in Seq(Call) /\ Len(queue) \in Nat
  BY DEF IInv, TypeOK
<1>2. /\ Len(queue') = n /\ queue'[n] = c
      /\ \A i \in 1 .. Len(queue) : queue'[i] = queue[i]
  BY <1>1
<1>3. Places' = Places \cup {n}
  BY <1>1, <1>2 DEF Places
<1>4. n # 0 /\ n \in Nat
  BY <1>1
<1>5. Pend(n)' = c
  BY <1>2, <1>4 DEF Pend
<1>6. \A i \in Places : i \in Nat /\ i < n /\ Pend(i)' = Pend(i)
  BY <1>1, <1>2 DEF Places, Pend
<1> QED BY <1>3, <1>4, <1>5, <1>6

LEMMA PlacesShift ==
    ASSUME IInv, Receive
    PROVE  /\ \A i \in Places' : /\ i + 1 \in Places /\ Pend(i)' = Pend(i + 1)
                                 /\ i \in Nat
           /\ \A i \in Places : /\ i \in Nat /\ i - 1 \in Places'
                                /\ Pend(i - 1)' = Pend(i)
<1>1. /\ queue \in Seq(Call) /\ queue # <<>> /\ queue' = Tail(queue)
      /\ task[Worker].pc = "idle"
  BY DEF Receive, IInv, TypeOK
<1>2. task'[Worker].pc = "begin" /\ task'[Worker].call = Head(queue)
  BY WorkerApart DEF Receive, Become, Idle, IInv, TypeOK
<1>3. /\ Len(queue) \in Nat /\ Len(queue) # 0 /\ Len(queue') = Len(queue) - 1
      /\ Head(queue) = queue[1]
      /\ \A i \in 1 .. Len(queue) - 1 : queue'[i] = queue[i + 1]
  BY <1>1
<1>4. Places = 1 .. Len(queue) /\ Places' = 0 .. Len(queue) - 1
  BY <1>1, <1>2, <1>3 DEF Places
<1>5. \A i \in Places' : /\ i \in Nat /\ i + 1 \in Places
                         /\ Pend(i)' = Pend(i + 1)
  <2> SUFFICES ASSUME NEW i \in Places'
               PROVE  i \in Nat /\ i + 1 \in Places /\ Pend(i)' = Pend(i + 1)
    OBVIOUS
  <2>1. i \in Nat /\ i + 1 \in Places /\ i + 1 # 0
    BY <1>3, <1>4
  <2>2. CASE i = 0
    BY <1>2, <1>3, <2>1, <2>2 DEF Pend
  <2>3. CASE i # 0
    <3>1. i \in 1 .. Len(queue) - 1
      BY <1>3, <1>4, <2>3
    <3> QED BY <1>3, <2>1, <2>3, <3>1 DEF Pend
  <2> QED BY <2>1, <2>2, <2>3
<1>6. \A i \in Places : /\ i \in Nat /\ i - 1 \in Places' /\ i - 1 + 1 = i
  BY <1>3, <1>4
<1> QED BY <1>5, <1>6

LEMMA PlacesShrink ==
    ASSUME IInv, queue' = queue, ~At(Worker, "idle"), task'[Worker] = Idle
    PROVE  /\ Places' = Places \ {0} /\ 0 \in Places /\ Places \subseteq Nat
           /\ \A i \in Places' : Pend(i)' = Pend(i)
           /\ Pend(0) = task[Worker].call
<1>1. Len(queue) \in Nat
  BY DEF IInv, TypeOK
<1> QED BY <1>1 DEF Places, Pend, Idle

-----------------------------------------------------------------------------
(* An entry that a step does not concern. *)

\* The entry is as it was, and as much wanted.
Same(e) ==
    /\ text'[e] = text[e] /\ gen'[e] = gen[e] /\ wish'[e] = wish[e]
    /\ e \in used => e \in used'

LEMMA EntryStays ==
    ASSUME NEW e \in Events, Entry(e), Same(e),
           Places' = Places, \A i \in Places : Pend(i)' = Pend(i)
    PROVE  Entry(e)'
<1>1. ASSUME LastWrite(e, wish[e])
      PROVE  LastWrite(e, wish[e])'
  BY <1>1 DEF Same, LastWrite
<1> QED BY <1>1 DEF Same, Entry

LEMMA EntryApart ==
    ASSUME IInv, NEW e \in Events, Entry(e), Same(e),
           NEW c \in Call, ~Touches(c, e),
           queue' = Append(queue, c), task'[Worker] = task[Worker]
    PROVE  Entry(e)'
<1> DEFINE m == Len(queue) + 1
<1>0. PICK n : n = m
  OBVIOUS
<1>1. /\ Places' = Places \cup {n} /\ Pend(n)' = c
      /\ \A i \in Places : i \in Nat /\ i < n /\ Pend(i)' = Pend(i)
  BY <1>0, PlacesGrow
<1>2. ASSUME LastWrite(e, wish[e])
      PROVE  LastWrite(e, wish[e])'
  BY <1>1, <1>2 DEF Same, LastWrite
<1> QED BY <1>1, <1>2 DEF Same, Entry, Saves, Deletes

LEMMA EntryShifts ==
    ASSUME IInv, NEW e \in Events, Entry(e), Receive
    PROVE  Entry(e)'
<1>1. /\ \A i \in Places' : /\ i + 1 \in Places /\ Pend(i)' = Pend(i + 1)
                            /\ i \in Nat
      /\ \A i \in Places : /\ i \in Nat /\ i - 1 \in Places'
                           /\ Pend(i - 1)' = Pend(i)
  BY PlacesShift
<1>2. Same(e)
  BY DEF Receive, Same, table, sessions
<1>3. ASSUME LastWrite(e, wish[e])
      PROVE  LastWrite(e, wish[e])'
  <2>1. CASE text[e] = wish[e] /\ \A i \in Places : ~Touches(Pend(i), e)
    BY <1>1, <1>2, <2>1 DEF Same, LastWrite
  <2>2. ASSUME NEW i \in Places, Writes(Pend(i), e, wish[e]),
               \A j \in Places : j > i => ~Touches(Pend(j), e)
        PROVE  LastWrite(e, wish[e])'
    <3>1. i - 1 \in Places' /\ Writes(Pend(i - 1)', e, wish'[e])
      BY <1>1, <1>2, <2>2 DEF Same
    <3>2. ASSUME NEW j \in Places', j > i - 1
          PROVE  ~Touches(Pend(j)', e)
      <4>1. j + 1 \in Places /\ Pend(j)' = Pend(j + 1) /\ j \in Nat /\ i \in Nat
        BY <1>1
      <4>2. j + 1 > i
        BY <3>2, <4>1
      <4> QED BY <2>2, <4>1, <4>2
    <3> QED BY <3>1, <3>2 DEF LastWrite
  <2> QED BY <1>3, <2>1, <2>2 DEF LastWrite
<1>4. \A i \in Places' : Saves(Pend(i)', e) =>
          /\ gen[e] = 0 /\ wish[e] = e
          /\ \A j \in Places' : Touches(Pend(j)', e) => j = i
  <2> SUFFICES ASSUME NEW i \in Places', Saves(Pend(i)', e)
               PROVE  /\ gen[e] = 0 /\ wish[e] = e
                      /\ \A j \in Places' : Touches(Pend(j)', e) => j = i
    OBVIOUS
  <2>1. i + 1 \in Places /\ Saves(Pend(i + 1), e) /\ i \in Nat
    BY <1>1
  <2>2. /\ gen[e] = 0 /\ wish[e] = e
        /\ \A j \in Places : Touches(Pend(j), e) => j = i + 1
    BY <2>1 DEF Entry
  <2>3. ASSUME NEW j \in Places', Touches(Pend(j)', e)
        PROVE  j = i
    <3>1. j + 1 \in Places /\ Touches(Pend(j + 1), e) /\ j \in Nat
      BY <1>1, <2>3
    <3> QED BY <2>1, <2>2, <3>1
  <2> QED BY <2>2, <2>3
<1>5. /\ \A i \in Places' : Deletes(Pend(i)', e) => \E j \in Places : Deletes(Pend(j), e)
      /\ \A i \in Places : Deletes(Pend(i), e) => \E j \in Places' : Deletes(Pend(j)', e)
      /\ \A i \in Places' : Touches(Pend(i)', e) => \E j \in Places : Touches(Pend(j), e)
  BY <1>1
<1> QED BY <1>2, <1>3, <1>4, <1>5 DEF Same, Entry

\* The worker is done with its call, which was about another entry.
LEMMA EntryWaits ==
    ASSUME IInv, NEW e \in Events, Entry(e), Same(e),
           ~Touches(task[Worker].call, e),
           queue' = queue, ~At(Worker, "idle"), task'[Worker] = Idle
    PROVE  Entry(e)'
<1>1. /\ Places' = Places \ {0} /\ 0 \in Places
      /\ \A i \in Places' : Pend(i)' = Pend(i)
      /\ ~Touches(Pend(0), e)
  BY PlacesShrink
<1>2. ASSUME LastWrite(e, wish[e])
      PROVE  LastWrite(e, wish[e])'
  BY <1>1, <1>2 DEF Same, LastWrite, Writes
<1> QED BY <1>1, <1>2 DEF Same, Entry, Saves, Deletes

-----------------------------------------------------------------------------
(* An entry that the agent saves or edits. *)

\* The call that comes last concerns e.
LEMMA EntrySaved ==
    ASSUME IInv, NEW e \in Events, Entry(e), e \notin used,
           NEW c \in Call, Saves(c, e),
           queue' = Append(queue, c), task'[Worker] = task[Worker],
           text'[e] = text[e], gen'[e] = gen[e], wish'[e] = e, e \in used'
    PROVE  Entry(e)'
<1> DEFINE m == Len(queue) + 1
<1>0. PICK n : n = m
  OBVIOUS
<1>1. /\ Places' = Places \cup {n} /\ Pend(n)' = c
      /\ \A i \in Places : i \in Nat /\ i < n /\ Pend(i)' = Pend(i)
  BY <1>0, PlacesGrow
<1>2. n \in Nat
  BY <1>0 DEF IInv, TypeOK
<1>3. /\ gen[e] = 0 /\ ~Stored(e)
      /\ \A i \in Places : ~Touches(Pend(i), e)
  BY DEF Entry
<1>4. c.kind = "save" /\ Touches(c, e)
  BY DEF Saves
<1>5. LastWrite(e, e)'
  <2>1. Writes(c, e, e)
    BY <1>4 DEF Writes, Content
  <2>2. \A j \in Places' : ~(j > n)
    BY <1>1, <1>2
  <2> QED BY <1>1, <2>1, <2>2 DEF LastWrite
<1>6. \A i \in Places' : Touches(Pend(i)', e) => i = n
  BY <1>1, <1>3
<1>7. e # "gone"
  BY TextAssumption
<1> QED BY <1>1, <1>3, <1>4, <1>5, <1>6, <1>7 DEF Entry, Deletes, Saves

\* An update of e is wanted if e is there and shall stay.
LEMMA EntryEdited ==
    ASSUME IInv, NEW e \in Events, Entry(e), gen[e] = 1,
           wish \in [Events -> Contents \cup {NoText, "gone"}],
           NEW c \in Call, c.kind \in {"update", "delete"}, Touches(c, e),
           NEW t, t = (IF c.kind = "update" THEN c.text ELSE "gone"),
           c.kind = "update" => t \in Texts,
           queue' = Append(queue, c), task'[Worker] = task[Worker],
           text'[e] = text[e], gen'[e] = gen[e], used' = used,
           ~Races(e), wish' = Wanted(e, 1, t)
    PROVE  Entry(e)'
<1> DEFINE m == Len(queue) + 1
<1>0. PICK n : n = m
  OBVIOUS
<1>1. /\ Places' = Places \cup {n} /\ Pend(n)' = c
      /\ \A i \in Places : i \in Nat /\ i < n /\ Pend(i)' = Pend(i)
  BY <1>0, PlacesGrow
<1>2. n \in Nat
  BY <1>0 DEF IInv, TypeOK
<1>3. \A i \in Places' : ~Saves(Pend(i)', e)
  BY <1>1 DEF Entry, Saves
<1>4. e \in used
  BY DEF Entry
<1>5. "gone" \notin Contents /\ NoText \notin Contents /\ NoText # "gone"
  BY TextAssumption
<1>6. CASE Stored(e) /\ wish[e] # "gone"
  <2>1. wish'[e] = t
    BY <1>6 DEF Wanted
  <2>2. \A i \in Places : ~Deletes(Pend(i), e)
    BY <1>6 DEF Entry
  <2>3. CASE c.kind = "delete"
    <3>1. Deletes(Pend(n)', e) /\ n \in Places'
      BY <1>1, <2>3 DEF Deletes
    <3>2. wish'[e] = "gone"
      BY <2>1, <2>3
    <3> QED BY <1>3, <1>4, <1>5, <1>6, <3>1, <3>2 DEF Entry
  <2>4. CASE c.kind = "update"
    <3>1. LastWrite(e, t)'
      <4>1. Writes(c, e, t)
        BY <2>4 DEF Writes, Content
      <4>2. \A j \in Places' : ~(j > n)
        BY <1>1, <1>2
      <4> QED BY <1>1, <4>1, <4>2 DEF LastWrite
    <3>2. \A i \in Places' : ~Deletes(Pend(i)', e)
      BY <1>1, <2>2, <2>4 DEF Deletes
    <3>3. t # "gone"
      BY <1>5, <2>4
    <3> QED BY <1>3, <1>4, <1>6, <2>1, <3>1, <3>2, <3>3 DEF Entry
  <2> QED BY <2>3, <2>4
<1>7. CASE ~(Stored(e) /\ wish[e] # "gone")
  <2>1. wish'[e] = wish[e]
    BY <1>7 DEF Wanted
  <2>2. wish[e] \notin Contents
    BY <1>5, <1>7 DEF Entry
  <2>3. wish[e] = "gone" \/ ~Stored(e)
    BY <1>7
  <2>4. wish[e] = "gone" => ~Stored(e) \/ \E i \in Places' : Deletes(Pend(i)', e)
    BY <1>1 DEF Entry
  <2> QED BY <1>3, <1>4, <2>1, <2>2, <2>3, <2>4 DEF Entry
<1> QED BY <1>6, <1>7

\* The worker is done with a call about e.
LEMMA EntryWritten ==
    ASSUME IInv, NEW e \in Events, Entry(e), ToolCall(task[Worker].call),
           Touches(task[Worker].call, e),
           queue' = queue, ~At(Worker, "idle"), task'[Worker] = Idle,
           wish'[e] = wish[e], used' = used,
           LET c == task[Worker].call
           IN  \/ /\ c.kind = "save" /\ text'[e] = e
                  /\ gen'[e] = 1
               \/ /\ c.kind = "update" /\ gen'[e] = gen[e]
                  /\ text'[e] = IF Stored(e) THEN c.text ELSE text[e]
               \/ /\ c.kind = "delete" /\ gen'[e] = gen[e]
                  /\ text'[e] = IF Stored(e) THEN NoText ELSE text[e]
    PROVE  Entry(e)'
<1> DEFINE c == task[Worker].call
<1>1. /\ Places' = Places \ {0} /\ 0 \in Places /\ Places \subseteq Nat
      /\ \A i \in Places' : Pend(i)' = Pend(i)
      /\ Pend(0) = c
  BY PlacesShrink
<1>2. e \in used
  BY <1>1 DEF Entry
<1>3. "gone" \notin Contents /\ NoText \notin Contents /\ NoText # "gone"
  BY TextAssumption
<1> HIDE DEF c
<1>4. CASE c.kind = "save"
  <2>1. /\ gen[e] = 0 /\ wish[e] = e
        /\ \A j \in Places : Touches(Pend(j), e) => j = 0
    BY <1>1, <1>4 DEF Entry, Saves, c
  <2>2. \A i \in Places' : ~Touches(Pend(i)', e)
    BY <1>1, <2>1
  <2>3. text'[e] = e /\ gen'[e] = 1
    BY <1>4 DEF c
  <2>4. LastWrite(e, e)'
    BY <2>2, <2>3 DEF LastWrite
  <2>5. \A i \in Places' : ~Saves(Pend(i)', e) /\ ~Deletes(Pend(i)', e)
    BY <2>2 DEF Saves, Deletes
  <2>6. e # "gone" /\ e # NoText
    BY <1>3
  <2>7. wish'[e] = e /\ Stored(e)' /\ e \in used'
    BY <1>2, <2>1, <2>3, <2>6
  <2> QED BY <2>3, <2>4, <2>5, <2>6, <2>7 DEF Entry
<1>5. CASE c.kind # "save"
  <2>1. gen[e] = 1 /\ gen'[e] = 1
    BY <1>5 DEF c, ToolCall, Touches
  <2>2. \A i \in Places' : ~Saves(Pend(i)', e)
    BY <1>1, <2>1 DEF Entry
  <2>3. CASE c.kind = "update"
    <3>1. text'[e] = IF Stored(e) THEN c.text ELSE text[e]
      BY <2>3 DEF c
    <3>2. c.text \in Texts
      BY <2>3 DEF c, ToolCall
    <3>3. Stored(e)' <=> Stored(e)
      BY <1>3, <3>1, <3>2
    <3>4. ~Deletes(c, e)
      BY <2>3 DEF Deletes
    <3>5. \A i \in Places : Deletes(Pend(i), e) => i \in Places' /\ Deletes(Pend(i)', e)
      BY <1>1, <3>4
    <3>6. \A i \in Places' : Deletes(Pend(i)', e) => Deletes(Pend(i), e) /\ i \in Places
      BY <1>1
    <3>7. ASSUME wish[e] \in Contents
          PROVE  LastWrite(e, wish[e])'
      <4>1. LastWrite(e, wish[e]) /\ Stored(e)
        BY <2>1, <3>7 DEF Entry
      <4>2. ~(\A i \in Places : ~Touches(Pend(i), e))
        BY <1>1 DEF c
      <4>3. PICK i \in Places : /\ Writes(Pend(i), e, wish[e])
                                /\ \A j \in Places : j > i => ~Touches(Pend(j), e)
        BY <4>1, <4>2 DEF LastWrite
      <4>4. CASE i = 0
        <5>1. text'[e] = wish[e]
          BY <1>1, <2>3, <3>1, <4>1, <4>3, <4>4 DEF Writes, Content
        <5>2. \A j \in Places' : ~Touches(Pend(j)', e)
          <6> SUFFICES ASSUME NEW j \in Places' PROVE ~Touches(Pend(j)', e)
            OBVIOUS
          <6>1. j \in Places /\ j \in Nat /\ j # 0 /\ Pend(j)' = Pend(j)
            BY <1>1
          <6> QED BY <4>3, <4>4, <6>1
        <5> QED BY <5>1, <5>2 DEF LastWrite
      <4>5. CASE i # 0
        BY <1>1, <4>3, <4>5 DEF LastWrite
      <4> QED BY <4>4, <4>5
    <3> QED BY <1>2, <2>1, <2>2, <3>3, <3>5, <3>6, <3>7 DEF Entry
  <2>4. CASE c.kind = "delete"
    <3>1. ~Stored(e)'
      BY <2>4 DEF c
    <3>2. wish[e] = "gone" \/ ~Stored(e)
      BY <1>1, <2>4 DEF c, Entry, Deletes
    <3>3. wish[e] \notin Contents
      BY <1>3, <2>1, <3>2 DEF Entry
    <3> QED BY <1>2, <2>1, <2>2, <3>1, <3>3 DEF Entry
  <2> QED BY <1>5, <2>3, <2>4 DEF c, ToolCall
<1> QED BY <1>4, <1>5

-----------------------------------------------------------------------------
(* The steps. *)

Room == calls' # calls => Len(queue) < Capacity

\* A call that finds room in the channel.
LEMMA SubmitQueues ==
    ASSUME IInv, Room, NEW p \in Callers, NEW c, Submit(p, c)
    PROVE  /\ queue' = Append(queue, c) /\ task' = task /\ c.kind \in Kinds
           /\ Len(queue) # Capacity
BY BoundAssumption DEF IInv, TypeOK, Room, Submit

\* Calls stay what they are.
LEMMA ToolCallStays ==
    ASSUME NEW c, ToolCall(c), used \subseteq used',
           \A e \in Events : gen[e] = 1 => gen'[e] = 1
    PROVE  ToolCall(c)'
BY DEF ToolCall

LEMMA QueuedCalls ==
    ASSUME IInv, InOrder, NEW c \in Call, queue' = Append(queue, c), task' = task,
           ToolCall(c)', used \subseteq used', gen' = gen
    PROVE  \A i \in Places' : ToolCall(Pend(i))'
<1> DEFINE m == Len(queue) + 1
<1>0. PICK n : n = m
  OBVIOUS
<1>1. /\ Places' = Places \cup {n} /\ Pend(n)' = c
      /\ \A i \in Places : Pend(i)' = Pend(i)
  BY <1>0, PlacesGrow
<1>2. \A i \in Places : ToolCall(Pend(i))
  BY DEF InOrder
<1> QED BY <1>1, <1>2 DEF ToolCall

LEMMA SaveInOrder ==
    ASSUME IInv, InOrder, Room, NEW p \in Callers, NEW e \in Events,
           SaveToMemory(p, e)
    PROVE  InOrder'
<1> DEFINE c == [NoCall EXCEPT !.kind = "save", !.cached = {e}]
<1>1. c \in Call /\ c.kind = "save" /\ c.cached = {e}
  BY CallTypes DEF Call, CallKinds, NoCall
<1>2. /\ e \notin used \cup Silent /\ used' = used \cup {e}
      /\ wish' = [wish EXCEPT ![e] = e]
      /\ UNCHANGED <<log, text, emb, gen, found>>
      /\ Submit(p, c)
  BY DEF SaveToMemory, table
<1> HIDE DEF c
<1>3. queue' = Append(queue, c) /\ task' = task
  BY <1>2, SubmitQueues
<1>4. ToolCall(c)'
  BY <1>1, <1>2 DEF ToolCall
<1>5. \A i \in Places' : ToolCall(Pend(i))'
  BY <1>1, <1>2, <1>3, <1>4, QueuedCalls
<1>6. ASSUME NEW d \in Events
      PROVE  Entry(d)'
  <2>1. CASE d = e
    BY <1>1, <1>2, <1>3, <2>1, EntrySaved DEF InOrder, Saves, Touches
  <2>2. CASE d # e
    <3>1. ~Touches(c, d) /\ Same(d)
      BY <1>1, <1>2, <2>2 DEF Touches, Same, InOrder
    <3> QED BY <1>1, <1>3, <3>1, EntryApart DEF InOrder
  <2> QED BY <2>1, <2>2
<1>7. wish' \in [Events -> Contents \cup {NoText, "gone"}]
  BY <1>2 DEF InOrder
<1> QED BY <1>2, <1>3, <1>5, <1>6, <1>7 DEF InOrder

LEMMA EditInOrder ==
    ASSUME IInv, InOrder, Room, NEW p \in Callers, NEW id \in found[p],
           \/ \E t \in Texts : UpdateMemory(p, id, t)
           \/ DeleteMemory(p, id)
    PROVE  InOrder'
<1> DEFINE e == id.evt
<1>1. id \in Ids /\ e \in Events /\ id.gen = 1 /\ gen[e] = 1
  BY DEF IInv, TypeOK, Ids, InOrder
<1> DEFINE Edits(c, t) ==
              /\ c.kind \in {"update", "delete"} /\ c.evt = e /\ c.gen = 1
              /\ t = (IF c.kind = "update" THEN c.text ELSE "gone")
              /\ c.kind = "update" => t \in Texts
              /\ Submit(p, c)
              /\ wish' = Wanted(e, 1, t)
              /\ UNCHANGED <<log, used, text, emb, gen, found>>
<1>2. \E c \in Call : \E t : Edits(c, t)
  <2>1. ASSUME NEW t \in Texts, UpdateMemory(p, id, t)
        PROVE  \E c \in Call : Edits(c, t)
    <3> DEFINE c == [NoCall EXCEPT !.kind = "update", !.evt = id.evt,
                                   !.gen = id.gen, !.text = t]
    <3>1. c.kind = "update" /\ c.evt = e /\ c.gen = 1 /\ c.text = t
      BY <1>1 DEF NoCall
    <3>2. c \in Call
      BY <1>1, CallTypes DEF Call, CallKinds, NoCall, Ids
    <3>3. Submit(p, c) /\ wish' = Wanted(e, 1, t)
          /\ UNCHANGED <<log, used, text, emb, gen, found>>
      BY <1>1, <2>1 DEF UpdateMemory, table, sessions
    <3> HIDE DEF c, e
    <3> QED BY <3>1, <3>2, <3>3
  <2>2. ASSUME DeleteMemory(p, id)
        PROVE  \E c \in Call : Edits(c, "gone")
    <3> DEFINE c == [NoCall EXCEPT !.kind = "delete", !.evt = id.evt,
                                   !.gen = id.gen]
    <3>1. c.kind = "delete" /\ c.evt = e /\ c.gen = 1
      BY <1>1 DEF NoCall
    <3>2. c \in Call
      BY <1>1, CallTypes DEF Call, CallKinds, NoCall, Ids
    <3>3. Submit(p, c) /\ wish' = Wanted(e, 1, "gone")
          /\ UNCHANGED <<log, used, text, emb, gen, found>>
      BY <1>1, <2>2 DEF DeleteMemory, table, sessions
    <3> HIDE DEF c, e
    <3> QED BY <3>1, <3>2, <3>3
  <2> QED BY <2>1, <2>2
<1> HIDE DEF e
<1>3. PICK c \in Call : \E t : Edits(c, t)
  BY <1>2
<1>4. PICK t : Edits(c, t)
  BY <1>3
<1>5. queue' = Append(queue, c) /\ task' = task
  BY <1>4, SubmitQueues
<1>6. ToolCall(c)'
  BY <1>1, <1>4 DEF ToolCall
<1>7. \A i \in Places' : ToolCall(Pend(i))'
  BY <1>4, <1>5, <1>6, QueuedCalls
<1>8. ~Races(e)
  BY <1>4, SubmitQueues, BoundAssumption DEF InOrder, Races
<1>9. wish' \in [Events -> Contents \cup {NoText, "gone"}]
  BY <1>1, <1>4, <1>8 DEF InOrder, Wanted
<1>10. ASSUME NEW d \in Events
      PROVE  Entry(d)'
  <2>1. CASE d = e
    BY <1>1, <1>4, <1>5, <1>8, <2>1, EntryEdited DEF InOrder, Touches
  <2>2. CASE d # e
    <3>1. ~Touches(c, d) /\ Same(d)
      BY <1>4, <2>2 DEF Touches, Same, InOrder, Wanted
    <3> QED BY <1>4, <1>5, <3>1, EntryApart DEF InOrder
  <2> QED BY <2>1, <2>2
<1> QED BY <1>4, <1>5, <1>7, <1>9, <1>10 DEF InOrder

LEMMA SearchInOrder ==
    ASSUME IInv, InOrder, NEW p \in Callers, NEW q, Search(p, q)
    PROVE  InOrder'
<1> PICK embedded :
       found' = [found EXCEPT
                    ![p] = {[evt |-> e, gen |-> gen[e]] : e \in Hits(q, embedded)}]
  BY DEF Search
<1>1. UNCHANGED <<log, used, text, emb, gen, queue, task, wish>>
  BY DEF Search, sessions, table
<1>2. Hits(q, embedded) \subseteq {e \in Events : Stored(e)}
  BY DEF Hits
<1>3. \A e \in Hits(q, embedded) : gen[e] = 1
  BY <1>2 DEF InOrder, Entry
<1>4. \A r \in Callers : \A id \in found'[r] : id.gen = 1 /\ gen[id.evt] = 1
  BY <1>3 DEF InOrder, IInv, TypeOK
<1>5. Places' = Places /\ \A i \in Places : Pend(i)' = Pend(i)
  BY <1>1 DEF Places, Pend
<1>6. \A e \in Events : Entry(e)'
  BY <1>1, <1>5, EntryStays DEF InOrder, Same
<1> QED BY <1>1, <1>4, <1>5, <1>6 DEF InOrder, ToolCall

LEMMA RequestInOrder ==
    ASSUME "add" \notin Kinds, IInv, InOrder, Room, NEW p \in Callers, Request(p)
    PROVE  InOrder'
<1>1. ~ \E s \in Sessions : AddSession(p, s)
  <2> SUFFICES ASSUME NEW s \in Sessions, AddSession(p, s) PROVE FALSE
    OBVIOUS
  <2> DEFINE c == [NoCall EXCEPT !.kind = "add", !.sid = s, !.cached = log[s]]
  <2>1. c.kind = "add" /\ Submit(p, c)
    BY DEF AddSession, NoCall
  <2> QED BY <2>1, SubmitQueues
<1> QED BY <1>1, SaveInOrder, EditInOrder, SearchInOrder DEF Request

LEMMA ReceiveInOrder ==
    ASSUME IInv, InOrder, Receive
    PROVE  InOrder'
<1>1. UNCHANGED <<log, used, text, emb, gen, found, wish>>
  BY DEF Receive, sessions, table
<1>2. \A i \in Places' : i + 1 \in Places /\ Pend(i)' = Pend(i + 1)
  BY PlacesShift
<1>3. \A i \in Places' : ToolCall(Pend(i))'
  BY <1>1, <1>2 DEF InOrder, ToolCall
<1>4. \A e \in Events : Entry(e)'
  BY EntryShifts DEF InOrder
<1>5. /\ task'[Worker].pc = "begin"
      /\ \A p \in Callers : task'[p] = task[p]
  BY WorkerApart DEF Receive, Become, Idle, IInv, TypeOK
<1> QED BY <1>1, <1>3, <1>4, <1>5 DEF InOrder

\* The worker goes on with the call in its hand.
LEMMA InsertInOrder ==
    ASSUME IInv, InOrder, NEW t, Become(Worker, t), ~At(Worker, "idle"),
           t.pc = "rows", t.call = task[Worker].call, Insert(t),
           UNCHANGED <<used, text, gen, queue, found, wish>>
    PROVE  InOrder'
<1>1. task'[Worker] = t /\ \A p \in Callers : task'[p] = task[p]
  BY WorkerApart DEF Become, IInv, TypeOK
<1>2. Places' = Places /\ \A i \in Places : Pend(i)' = Pend(i)
  BY <1>1, PlacesStay
<1>3. \A e \in Events : Entry(e)'
  BY <1>2, EntryStays DEF InOrder, Same
<1> QED BY <1>1, <1>2, <1>3 DEF InOrder, ToolCall

LEMMA BeginAddInOrder ==
    ASSUME ~Faulty, IInv, Whole, InOrder, BeginAdd(Worker)
    PROVE  InOrder'
<1> DEFINE c == task[Worker].call
<1>1. /\ task[Worker] \in Task /\ At(Worker, "begin")
      /\ UNCHANGED <<used, text, gen, queue, found, wish>>
      /\ task[Worker].rows = {}
  BY WorkerApart DEF BeginAdd, IInv, TypeOK, sessions, table, Whole, WholeTask
<1>2. ToolCall(c)
  <2>1. Len(queue) \in Nat
    BY DEF IInv, TypeOK
  <2>2. 0 \in Places /\ Pend(0) = c
    BY <1>1, <2>1 DEF Places, Pend
  <2> QED BY <2>2 DEF InOrder
<1>3. PICK e \in used \ Silent : c.kind = "save" /\ c.cached = {e}
  BY <1>2 DEF BeginAdd, ToolCall
<1> DEFINE t == [task[Worker] EXCEPT !.pc = "rows", !.seen = c.cached \ Silent,
                                     !.todo = c.cached \ Silent]
<1>4. Become(Worker, t)
  BY <1>3 DEF BeginAdd
<1>5. /\ t.pc = "rows" /\ t.call = c /\ t.rows = {}
      /\ t.seen = c.cached /\ t.todo = c.cached
  BY <1>1, <1>3 DEF Task
<1> HIDE DEF t
<1>6. Insert(t)
  BY <1>3, <1>5 DEF Insert
<1> QED BY <1>1, <1>4, <1>5, <1>6, InsertInOrder

LEMMA AddRowInOrder ==
    ASSUME IInv, InOrder, NEW e \in Events, AddRow(Worker, e)
    PROVE  InOrder'
<1>1. PICK v : Become(Worker, [task[Worker] EXCEPT !.todo = @ \ {e},
                                  !.rows = @ \cup {[evt |-> e, emb |-> v]}])
  BY DEF AddRow
<1> DEFINE t == [task[Worker] EXCEPT !.todo = @ \ {e},
                                     !.rows = @ \cup {[evt |-> e, emb |-> v]}]
<1>2. /\ task[Worker] \in Task /\ At(Worker, "rows") /\ e \in task[Worker].todo
      /\ UNCHANGED <<used, text, gen, queue, found, wish>>
  BY WorkerApart DEF AddRow, IInv, TypeOK, sessions, table
<1>3. /\ t.pc = "rows" /\ t.call = task[Worker].call /\ t.seen = task[Worker].seen
      /\ t.todo = task[Worker].todo \ {e}
      /\ t.rows = task[Worker].rows \cup {[evt |-> e, emb |-> v]}
  BY <1>2 DEF Task
<1> HIDE DEF t
<1>4. Insert(t)
  <2>1. Insert(task[Worker])
    BY <1>2 DEF InOrder
  <2>2. {r.evt : r \in t.rows} = {r.evt : r \in task[Worker].rows} \cup {e}
    <3> DEFINE R == task[Worker].rows
               new == [evt |-> e, emb |-> v]
    <3>1. t.rows = R \cup {new} /\ new.evt = e
      BY <1>3
    <3> HIDE DEF R, new
    <3>2. {r.evt : r \in R \cup {new}} = {r.evt : r \in R} \cup {new.evt}
      OBVIOUS
    <3> QED BY <3>1, <3>2 DEF R
  <2> QED BY <1>2, <1>3, <2>1, <2>2 DEF Insert
<1> QED BY <1>1, <1>2, <1>3, <1>4, InsertInOrder DEF t

\* The worker is done with its call, and the table changed for e at most.
LEMMA DoneInOrder ==
    ASSUME IInv, InOrder, ~At(Worker, "idle"), Become(Worker, Idle),
           UNCHANGED <<used, queue, found, wish>>,
           \A e \in Events : gen[e] = 1 => gen'[e] = 1,
           \A e \in Events : \/ ~Touches(task[Worker].call, e) /\ Same(e)
                             \/ Touches(task[Worker].call, e) /\ Entry(e)'
    PROVE  InOrder'
<1>1. /\ task'[Worker] = Idle /\ Idle.pc = "idle"
      /\ \A p \in Callers : task'[p] = task[p]
  BY WorkerApart DEF Become, IInv, TypeOK, Idle
<1>2. \A e \in Events : Entry(e)'
  BY <1>1, EntryWaits DEF InOrder
<1>3. Places' \subseteq Places /\ \A i \in Places' : Pend(i)' = Pend(i)
  BY <1>1, PlacesShrink
<1>4. \A i \in Places' : ToolCall(Pend(i))'
  BY <1>3, ToolCallStays DEF InOrder, ToolCall
<1>5. \A p \in Callers : \A id \in found'[p] : id.gen = 1 /\ gen'[id.evt] = 1
  BY DEF InOrder, IInv, TypeOK, Ids
<1> QED BY <1>1, <1>2, <1>4, <1>5 DEF InOrder

LEMMA HandInOrder ==
    ASSUME IInv, InOrder, ~At(Worker, "idle")
    PROVE  ToolCall(task[Worker].call)
<1>1. Len(queue) \in Nat
  BY DEF IInv, TypeOK
<1>2. 0 \in Places /\ Pend(0) = task[Worker].call
  BY <1>1 DEF Places, Pend
<1> QED BY <1>2 DEF InOrder

LEMMA CommitInOrder ==
    ASSUME IInv, InOrder, Commit(Worker)
    PROVE  InOrder'
<1> DEFINE c == task[Worker].call
           R == IF Aborted(Worker) THEN {} ELSE task[Worker].rows
<1>1. /\ At(Worker, "rows") /\ task[Worker].todo = {} /\ Upsert(R)
      /\ Become(Worker, Idle) /\ UNCHANGED <<used, queue, found, wish>>
      /\ Insert(task[Worker])
  BY DEF Commit, sessions, InOrder
<1>2. PICK e \in Events : c.kind = "save" /\ c.cached = {e}
  BY <1>1, HandInOrder DEF Insert, ToolCall, IInv, TypeOK
<1>3. {r.evt : r \in R} = {e}
  <2>1. task[Worker].seen = {e} /\ Written(Worker) = {e}
    BY <1>1, <1>2 DEF Insert, Written
  <2> QED BY <1>1, <2>1 DEF Aborted, Written
<1>4. /\ text' = [d \in Events |-> IF d \in {e} THEN d ELSE text[d]]
      /\ gen' = [d \in Events |-> IF d \in {e} /\ ~Stored(d)
                                  THEN gen[d] + 1 ELSE gen[d]]
  <2> HIDE DEF R
  <2> QED BY <1>1, <1>3 DEF Upsert
<1>5. gen[e] = 0 /\ ~Stored(e)
  <2>1. Len(queue) \in Nat
    BY DEF IInv, TypeOK
  <2>2. 0 \in Places /\ Pend(0) = c
    BY <1>1, <2>1 DEF Places, Pend
  <2>3. Saves(c, e)
    BY <1>2 DEF Saves, Touches
  <2>4. gen[e] = 0
    BY <2>2, <2>3 DEF InOrder, Entry
  <2> QED BY <2>4 DEF InOrder, Entry
<1>6. ToolCall(c)
  BY <1>1, HandInOrder
<1>7. task'[Worker] = Idle
  BY <1>1, WorkerApart DEF Become, IInv, TypeOK
<1>8. ASSUME NEW d \in Events
      PROVE  \/ ~Touches(c, d) /\ Same(d)
             \/ Touches(c, d) /\ Entry(d)'
  <2>1. CASE d = e
    <3>1. Touches(c, d) /\ text'[d] = d /\ gen'[d] = 1
      BY <1>2, <1>4, <1>5, <2>1 DEF Touches
    <3> QED BY <1>1, <1>2, <1>6, <1>7, <3>1, EntryWritten DEF InOrder
  <2>2. CASE d # e
    BY <1>1, <1>2, <1>4, <2>2 DEF Touches, Same
  <2> QED BY <2>1, <2>2
<1>9. \A d \in Events : gen[d] = 1 => gen'[d] = 1
  BY <1>4, <1>5
<1> QED BY <1>1, <1>8, <1>9, DoneInOrder

LEMMA UpdateInOrder ==
    ASSUME IInv, InOrder, UpdateEntry(Worker) \/ DeleteEntry(Worker)
    PROVE  InOrder'
<1> DEFINE c == task[Worker].call
           e == c.evt
           t == IF c.kind = "update" THEN c.text ELSE NoText
<1>1. /\ At(Worker, "begin") /\ c.kind \in {"update", "delete"}
      /\ Become(Worker, Idle) /\ UNCHANGED <<used, gen, queue, found, wish>>
      /\ text' = IF Stored(e) /\ gen[e] = c.gen
                 THEN [text EXCEPT ![e] = t] ELSE text
  BY DEF UpdateEntry, DeleteEntry, sessions
<1>2. ToolCall(c) /\ e \in Events /\ c.gen = 1 /\ gen[e] = 1
  BY <1>1, HandInOrder DEF ToolCall
<1>3. /\ text'[e] = IF Stored(e) THEN t ELSE text[e]
      /\ \A d \in Events \ {e} : text'[d] = text[d]
  BY <1>1, <1>2 DEF IInv, TypeOK
<1>4. task'[Worker] = Idle
  BY <1>1, WorkerApart DEF Become, IInv, TypeOK
<1>5. ASSUME NEW d \in Events
      PROVE  \/ ~Touches(c, d) /\ Same(d)
             \/ Touches(c, d) /\ Entry(d)'
  <2>1. CASE d = e
    <3>1. Touches(c, d)
      BY <1>1, <2>1 DEF Touches
    <3> QED BY <1>1, <1>2, <1>3, <1>4, <2>1, <3>1, EntryWritten DEF InOrder
  <2>2. CASE d # e
    BY <1>1, <1>3, <2>2 DEF Touches, Same
  <2> QED BY <2>1, <2>2
<1> QED BY <1>1, <1>5, DoneInOrder

\* The sessions change, or the process dies, or nothing happens.
LEMMA OutsideInOrder ==
    ASSUME IInv, InOrder, \/ \E s \in Sessions, e \in Events : AppendEvent(s, e)
                          \/ \E s \in Sessions : Vanish(s)
                          \/ Crash
                          \/ UNCHANGED vars
    PROVE  InOrder'
<1>1. CASE ~Crash
  <2>1. used \subseteq used' /\ UNCHANGED <<text, gen, queue, task, found, wish>>
    BY <1>1 DEF AppendEvent, Vanish, vars, table
  <2>2. Places' = Places /\ \A i \in Places : Pend(i)' = Pend(i)
    BY <2>1 DEF Places, Pend
  <2>3. \A e \in Events : Entry(e)'
    BY <2>1, <2>2, EntryStays DEF InOrder, Same
  <2>4. \A i \in Places' : ToolCall(Pend(i))'
    BY <2>1, <2>2 DEF InOrder, ToolCall
  <2> QED BY <2>1, <2>3, <2>4 DEF InOrder
<1>2. CASE Crash
  <2>1. /\ queue' = <<>> /\ UNCHANGED <<used, text, gen>>
        /\ task' = [x \in Execs |-> Idle] /\ found' = [p \in Callers |-> {}]
        /\ wish' = [e \in Events |-> NoText]
    BY <1>2 DEF Crash, sessions, table
  <2>2. \A x \in Execs : task'[x].pc = "idle"
    BY <2>1 DEF Idle
  <2>3. Places' = {}
    <3>1. Len(queue') = 0 /\ task'[Worker].pc = "idle"
      BY <2>1, <2>2
    <3> QED BY <3>1 DEF Places
  <2>4. \A e \in Events : Entry(e)'
    BY <2>1, <2>3, TextAssumption DEF InOrder, Entry
  <2>5. \A p \in Callers : At(p, "idle")'
    BY <2>2
  <2>6. ~At(Worker, "rows")'
    BY <2>2
  <2> QED BY <2>1, <2>3, <2>4, <2>5, <2>6 DEF InOrder
<1> QED BY <1>1, <1>2

LEMMA NextInOrder ==
    ASSUME "add" \notin Kinds, ~Faulty, IInv, Whole, InOrder, [Next]_vars,
           Room \/ UNCHANGED vars
    PROVE  InOrder'
<1>1. \A x \in Execs : Execute(x) => x = Worker
  BY DEF Execute, BeginAdd, AddRow, Commit, UpdateEntry, DeleteEntry, InOrder
<1>2. CASE \E x \in Execs : Execute(x)
  BY <1>1, <1>2, BeginAddInOrder, AddRowInOrder, CommitInOrder, UpdateInOrder
     DEF Execute
<1>3. ~ \E x \in Execs : Trouble(x)
  BY DEF Trouble, RowFails, ExecFails
<1> QED BY <1>2, <1>3, RequestInOrder, ReceiveInOrder, OutsideInOrder DEF Next

LEMMA InitInOrder == Init => InOrder
<1> SUFFICES ASSUME Init PROVE InOrder
  OBVIOUS
<1>1. \A x \in Execs : task[x].pc = "idle"
  BY DEF Init, Idle
<1>2. Places = {}
  <2>1. Len(queue) = 0 /\ task[Worker].pc = "idle"
    BY <1>1 DEF Init
  <2> QED BY <2>1 DEF Places
<1>3. \A e \in Events : Entry(e)
  BY <1>2, TextAssumption DEF Init, Entry
<1> QED BY <1>1, <1>2, <1>3 DEF Init, InOrder

\* As long as no call is made to a full channel, no update races with another,
\* and what the agent saves and edits ends up as its last word on each entry,
\* in whatever order several runs of it search, save, update and delete, and a
\* deleted entry never comes back: provided that no session is added, which
\* writes entries again, and that the database and the model do not fail.
THEOREM LastEditWins ==
    ASSUME "add" \notin Kinds, ~Faulty
    PROVE  Spec /\ HasRoom => [](EditsLast /\ NoneRaced)
<1>1. IInv /\ Whole /\ InOrder /\ [Next]_vars
         /\ [calls' # calls => Len(queue) < Capacity]_vars => InOrder'
  BY NextInOrder DEF Room
<1>2. IInv /\ Whole /\ [Next]_vars => IInv' /\ Whole'
  BY NextInv, WholeNext
<1>3. InOrder => NoneRaced
  BY TextAssumption DEF InOrder, NoneRaced
<1>4. IInv /\ InOrder => EditsLast
  <2> SUFFICES ASSUME IInv, InOrder, Quiet, NEW e \in Events
               PROVE  /\ wish[e] = "gone" => ~Stored(e)
                      /\ wish[e] \in Contents => text[e] = wish[e]
    BY <1>3 DEF EditsLast, NoneRaced
  <2>1. Places = {}
    <3>1. Len(queue) = 0 /\ task[Worker].pc = "idle"
      BY WorkerApart DEF Quiet
    <3> QED BY <3>1 DEF Places
  <2> QED BY <2>1 DEF InOrder, Entry, LastWrite
<1> QED BY <1>1, <1>2, <1>3, <1>4, InitInv, WholeInit, InitInOrder, PTL
        DEF Spec, HasRoom

=============================================================================
