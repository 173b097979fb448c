-------------------------- MODULE RedisLeaseProofs --------------------------
(***************************************************************************)
(* Theorems about RedisSession for callers that use a session one request  *)
(* at a time: what was written stays, and the archive is told the truth.   *)
(* The last section is about the index and does without that if sessions   *)
(* are not deleted.                                                        *)
(***************************************************************************)
EXTENDS RedisSessionProofs

DeleteLabels == {"delete_events", "delete_srem", "delete_persist"}
CreateLabels == {"create_sadd", "create_expire", "create_persist"}

Uses(p, s) == handle[p].sid = s \/ job[p].sid = s

\* No session is used by two requests.
Exclusive ==
    \A p, q \in Procs, s \in Sessions : Uses(p, s) /\ Uses(q, s) => p = q

\* An operation is about the session of the request's object, but for Delete,
\* which has none.
Carries ==
    \A p \in Procs : job[p].sid \in Sessions =>
        handle[p].sid = IF job[p].pc \in DeleteLabels THEN NoSession ELSE job[p].sid

\* What is being deleted is gone.
Deleted == \A p \in Procs : job[p].pc \in DeleteLabels => ~Live(job[p].sid)

\* A session object has every key whose write was acknowledged.
Holds ==
    \A p \in Procs, s \in Sessions : handle[p].sid = s => acked[s] \subseteq handle[p].state

LeaseInv == Exclusive /\ Carries /\ Deleted /\ Holds /\ AckedStateSurvives

WriteLabels == CreateLabels \cup DeleteLabels

\* An operation under way is what was last done to its session.
Doing ==
    \A p \in Procs :
        /\ job[p].pc \in CreateLabels => last[job[p].sid] = "session"
        /\ job[p].pc \in DeleteLabels => last[job[p].sid] = "delete"

\* What was last done to s, the persister was told; or it failed, or has not got
\* that far.
Informed(s) ==
    \/ ToldLast(s, last[s])
    \/ last[s] = "failed"
    \/ \E p \in Procs : job[p].sid = s /\ job[p].pc \in WriteLabels

TellInv == Doing /\ \A s \in Sessions : Informed(s)

-----------------------------------------------------------------------------
(* How a step of request p changes who uses what. *)

\* The others stay as they are.
Alone(p) ==
    \A q \in Procs \ {p} : handle'[q] = handle[q] /\ job'[q] = job[q]

\* A request takes no session that another one uses.
LEMMA TakesFree ==
    ASSUME Exclusive, NEW p \in Procs, Alone(p),
           \A s \in Sessions : Uses(p, s)' =>
               Uses(p, s) \/ \A q \in Procs \ {p} : ~Uses(q, s)
    PROVE  Exclusive'
<1> SUFFICES ASSUME NEW q \in Procs, NEW r \in Procs, NEW s \in Sessions,
                    Uses(q, s)', Uses(r, s)'
             PROVE  q = r
  BY DEF Exclusive
<1>1. \A x \in Procs \ {p} : Uses(x, s)' <=> Uses(x, s)
  BY DEF Alone, Uses
<1> QED BY <1>1 DEF Exclusive

\* A step inside an operation: p goes on with what it had, or drops it, and
\* stores nothing.
LEMMA QuietStep ==
    ASSUME TypeOK, LeaseInv, NEW p \in Procs, Alone(p),
           UNCHANGED <<state, sessTTL, acked>>,
           \/ handle'[p] = handle[p] /\ job'[p].sid \in {job[p].sid, NoSession}
           \/ handle'[p].sid = NoSession /\ job'[p].sid = NoSession,
           job'[p].pc \in DeleteLabels <=> job[p].pc \in DeleteLabels /\ job'[p].sid \in Sessions
    PROVE  LeaseInv'
<1> USE NoSessionAssumption
<1>1. \A s \in Sessions : Uses(p, s)' => Uses(p, s)
  BY DEF Uses
<1>2. Exclusive'
  BY <1>1, TakesFree DEF LeaseInv
<1>3. Carries'
  BY DEF LeaseInv, Carries, Alone
<1>4. Deleted'
  BY DEF LeaseInv, Deleted, Live, Alone
<1>5. Holds'
  BY DEF LeaseInv, Holds, Alone
<1>6. AckedStateSurvives'
  BY DEF LeaseInv, AckedStateSurvives
<1> QED BY <1>2, <1>3, <1>4, <1>5, <1>6 DEF LeaseInv

LEMMA GotoIs ==
    ASSUME TypeOK, NEW p \in Procs, NEW pc, Goto(p, pc)
    PROVE  /\ job'[p].pc = pc /\ job'[p].sid = job[p].sid /\ job'[p].evt = job[p].evt
           /\ \A q \in Procs \ {p} : job'[q] = job[q]
BY DEF Goto, TypeOK, RequestTypes, Jobs

LEMMA ReturnIs ==
    ASSUME TypeOK, NEW p \in Procs, Return(p)
    PROVE  /\ job'[p].pc = "idle" /\ job'[p].sid = NoSession
           /\ \A q \in Procs \ {p} : job'[q] = job[q]
BY DEF Return, Idle, TypeOK, RequestTypes

\* A request that begins an operation is using nothing but its object.
LEMMA StartIs ==
    ASSUME NEW p \in Procs, NEW kind, Start(p, kind)
    PROVE  job[p].pc = "idle" /\ job[p].sid = NoSession
BY DEF Start, Idle

\* A step inside an operation that goes on or ends it.
LEMMA MovesQuietly ==
    ASSUME TypeOK, LeaseInv, NEW p \in Procs, handle' = handle,
           UNCHANGED <<state, sessTTL, acked>>, job[p].sid \in Sessions,
           \/ Return(p)
           \/ \E pc : Goto(p, pc) /\ (pc \in DeleteLabels <=> job[p].pc \in DeleteLabels)
    PROVE  LeaseInv'
<1>1. CASE Return(p)
  <2>1. Alone(p) /\ job'[p].sid = NoSession /\ job'[p].pc = "idle"
    BY <1>1, ReturnIs DEF Alone
  <2> QED BY <2>1, QuietStep, NoSessionAssumption DEF DeleteLabels
<1>2. CASE \E pc : Goto(p, pc) /\ (pc \in DeleteLabels <=> job[p].pc \in DeleteLabels)
  <2> PICK pc : Goto(p, pc) /\ (pc \in DeleteLabels <=> job[p].pc \in DeleteLabels)
    BY <1>2
  <2>1. Alone(p) /\ job'[p].sid = job[p].sid /\ job'[p].pc = pc
    BY GotoIs DEF Alone
  <2> QED BY <2>1, QuietStep
<1> QED BY <1>1, <1>2

LEMMA CreateSetLease ==
    ASSUME TypeOK, LeaseInv, Leased, NEW p \in Procs, NEW s \in Sessions,
           NEW init \in SUBSET Keys, CreateSet(p, s, init)
    PROVE  LeaseInv'
<1> USE NoSessionAssumption
<1>1. /\ \A q \in Procs \ {p} : ~Uses(q, s)
      /\ handle'[p] = [sid |-> s, state |-> init]
      /\ job'[p] = Running("create_sadd", s)
      /\ Alone(p)
      /\ state' = [state EXCEPT ![s] = init] /\ acked' = [acked EXCEPT ![s] = init]
      /\ sessTTL' = [sessTTL EXCEPT ![s] = TTL]
  BY DEF CreateSet, MayUse, Uses, Alone, TypeOK, RequestTypes
<1>2. handle'[p].sid = s /\ handle'[p].state = init
      /\ job'[p].sid = s /\ job'[p].pc = "create_sadd"
  BY <1>1 DEF Running, Idle
<1>3. Exclusive'
  BY <1>1, <1>2, TakesFree DEF LeaseInv, Uses
<1>4. Carries'
  BY <1>1, <1>2 DEF LeaseInv, Carries, Alone, DeleteLabels
<1>5. Deleted'
  <2> SUFFICES ASSUME NEW q \in Procs, job'[q].pc \in DeleteLabels
               PROVE  ~(sessTTL'[job'[q].sid] > 0)
    BY DEF Deleted, Live
  <2>1. q # p
    BY <1>2 DEF DeleteLabels
  <2>2. job'[q] = job[q] /\ job[q].sid # s /\ job[q].sid \in Sessions
    BY <1>1, <2>1 DEF Alone, Uses, TypeOK, RequestTypes, DeleteLabels
  <2>3. sessTTL'[job[q].sid] = sessTTL[job[q].sid]
    BY <1>1, <2>2 DEF TypeOK, KeyTypes
  <2> QED BY <2>2, <2>3 DEF LeaseInv, Deleted, Live
<1>6. Holds'
  <2> SUFFICES ASSUME NEW q \in Procs, NEW r \in Sessions, handle'[q].sid = r
               PROVE  acked'[r] \subseteq handle'[q].state
    BY DEF Holds
  <2>1. CASE q = p
    BY <1>1, <1>2, <2>1 DEF TypeOK, OtherTypes
  <2>2. CASE q # p
    <3>1. handle'[q] = handle[q] /\ r # s
      BY <1>1, <2>2 DEF Alone, Uses
    <3> QED BY <1>1, <3>1 DEF LeaseInv, Holds, TypeOK, OtherTypes
  <2> QED BY <2>1, <2>2
<1>7. AckedStateSurvives'
  BY <1>1 DEF LeaseInv, AckedStateSurvives, TypeOK, KeyTypes, OtherTypes
<1> QED BY <1>3, <1>4, <1>5, <1>6, <1>7 DEF LeaseInv

LEMMA GetSessionLease ==
    ASSUME TypeOK, LeaseInv, Leased, NEW p \in Procs, NEW s \in Sessions,
           GetSession(p, s)
    PROVE  LeaseInv'
<1> USE NoSessionAssumption
<1>1. /\ \A q \in Procs \ {p} : ~Uses(q, s)
      /\ handle'[p] = [sid |-> s, state |-> state[s]]
      /\ job' = job /\ job[p].sid = NoSession
      /\ Alone(p)
      /\ UNCHANGED <<state, acked, sessTTL>>
  BY StartIs DEF GetSession, MayUse, Uses, Alone, TypeOK, RequestTypes, redis
<1>2. handle'[p].sid = s /\ handle'[p].state = state[s]
  BY <1>1
<1>3. Exclusive'
  BY <1>1, <1>2, TakesFree DEF LeaseInv, Uses
<1>4. Carries'
  BY <1>1 DEF LeaseInv, Carries, Alone
<1>5. Deleted'
  BY <1>1 DEF LeaseInv, Deleted, Live
<1>6. Holds'
  BY <1>1, <1>2 DEF LeaseInv, Holds, Alone, AckedStateSurvives
<1>7. AckedStateSurvives'
  BY <1>1 DEF LeaseInv, AckedStateSurvives
<1> QED BY <1>3, <1>4, <1>5, <1>6, <1>7 DEF LeaseInv

\* Set makes the stored state that of the object, which holds the new key.
LEMMA StateSetLease ==
    ASSUME TypeOK, LeaseInv, NEW p \in Procs, NEW k \in Keys,
           StateSet(p, k) \/ StateSetError(p, k) \/ StateSetLost(p, k)
    PROVE  LeaseInv'
<1> USE NoSessionAssumption
<1>0. PICK s \in Sessions : s = handle[p].sid
  BY DEF StateSet, StateSetError, StateSetLost
<1>1. /\ handle' = [handle EXCEPT ![p].state = @ \cup {k}]
      /\ job' = job /\ job[p].sid = NoSession
  BY StartIs DEF StateSet, StateSetError, StateSetLost
<1>2. /\ handle'[p].sid = s /\ handle'[p].state = handle[p].state \cup {k}
      /\ Alone(p)
  BY <1>0, <1>1 DEF Alone, TypeOK, RequestTypes, Handles
<1>3. \/ UNCHANGED <<state, sessTTL, acked>>
      \/ /\ Live(s)
         /\ state' = [state EXCEPT ![s] = handle[p].state \cup {k}]
         /\ sessTTL' = [sessTTL EXCEPT ![s] = TTL]
         /\ acked' = acked \/ acked' = [acked EXCEPT ![s] = @ \cup {k}]
  BY <1>0, <1>2 DEF StateSet, StateSetError, StateSetLost, redis
<1>4. Exclusive'
  BY <1>0, <1>1, <1>2, TakesFree DEF LeaseInv, Uses
<1>5. Carries'
  BY <1>0, <1>1, <1>2 DEF LeaseInv, Carries, Alone
<1>6. Deleted'
  BY <1>1, <1>3 DEF LeaseInv, Deleted, Live, TypeOK, KeyTypes, RequestTypes, DeleteLabels
<1>7. Holds'
  <2> SUFFICES ASSUME NEW q \in Procs, NEW r \in Sessions, handle'[q].sid = r
               PROVE  acked'[r] \subseteq handle'[q].state
    BY DEF Holds
  <2>1. CASE q = p
    BY <1>0, <1>2, <1>3, <2>1 DEF LeaseInv, Holds, TypeOK, OtherTypes
  <2>2. CASE q # p
    <3>1. handle'[q] = handle[q] /\ r # s
      BY <1>0, <1>2, <2>2 DEF Alone, Uses, LeaseInv, Exclusive
    <3> QED BY <1>3, <3>1 DEF LeaseInv, Holds, TypeOK, OtherTypes
  <2> QED BY <2>1, <2>2
<1>8. AckedStateSurvives'
  <2> SUFFICES ASSUME NEW r \in Sessions PROVE acked'[r] \subseteq state'[r]
    BY DEF AckedStateSurvives
  <2>1. acked[r] \subseteq state[r] /\ acked[s] \subseteq handle[p].state
    BY <1>0 DEF LeaseInv, AckedStateSurvives, Holds
  <2>2. CASE UNCHANGED <<state, sessTTL, acked>>
    BY <2>1, <2>2
  <2>3. CASE /\ state' = [state EXCEPT ![s] = handle[p].state \cup {k}]
             /\ acked' = acked \/ acked' = [acked EXCEPT ![s] = @ \cup {k}]
    BY <2>1, <2>3 DEF TypeOK, KeyTypes, OtherTypes
  <2> QED BY <1>3, <2>2, <2>3
<1> QED BY <1>4, <1>5, <1>6, <1>7, <1>8 DEF LeaseInv

LEMMA AppendRPushLease ==
    ASSUME TypeOK, LeaseInv, NEW p \in Procs, AppendRPush(p)
    PROVE  LeaseInv'
<1> USE NoSessionAssumption
<1>1. /\ handle[p].sid \in Sessions /\ handle' = handle
      /\ UNCHANGED <<state, sessTTL, acked>> /\ Alone(p)
      /\ job'[p].sid = handle[p].sid /\ job'[p].pc = "append_expire"
  BY DEF AppendRPush, Alone, Running, Idle, TypeOK, RequestTypes
<1>2. Exclusive'
  BY <1>1, TakesFree DEF LeaseInv, Uses
<1>3. Carries'
  BY <1>1 DEF LeaseInv, Carries, Alone, DeleteLabels
<1>4. Deleted'
  BY <1>1 DEF LeaseInv, Deleted, Live, Alone, DeleteLabels
<1>5. Holds' /\ AckedStateSurvives'
  BY <1>1 DEF LeaseInv, Holds, AckedStateSurvives
<1> QED BY <1>2, <1>3, <1>4, <1>5 DEF LeaseInv

\* The event is stored with all the object holds, and nobody else has one.
LEMMA AppendSetLease ==
    ASSUME TypeOK, LeaseInv, NEW p \in Procs, AppendSet(p)
    PROVE  LeaseInv'
<1> USE NoSessionAssumption
<1>0. PICK s \in Sessions : s = job[p].sid
  BY DEF AppendSet, At, TypeOK, RequestTypes
<1>1. /\ state' = [state EXCEPT ![s] = handle[p].state]
      /\ sessTTL' = [sessTTL EXCEPT ![s] = TTL]
      /\ UNCHANGED <<handle, acked>>
      /\ job[p].pc = "append_set"
  BY <1>0 DEF AppendSet, At
<1>2. job'[p].pc = "append_index" /\ job'[p].sid = s /\ Alone(p)
  BY <1>0, <1>1, GotoIs DEF AppendSet, Alone
<1>3. handle[p].sid = s
  BY <1>0, <1>1 DEF LeaseInv, Carries, DeleteLabels
<1>4. Exclusive'
  BY <1>0, <1>1, <1>2, TakesFree DEF LeaseInv, Uses
<1>5. Carries'
  BY <1>0, <1>1, <1>2, <1>3 DEF LeaseInv, Carries, Alone, DeleteLabels
<1>6. Deleted'
  <2> SUFFICES ASSUME NEW q \in Procs, job'[q].pc \in DeleteLabels
               PROVE  ~(sessTTL'[job'[q].sid] > 0)
    BY DEF Deleted, Live
  <2>1. q # p
    BY <1>2 DEF DeleteLabels
  <2>2. job'[q] = job[q] /\ job[q].sid \in Sessions
    BY <1>2, <2>1 DEF Alone, TypeOK, RequestTypes, DeleteLabels
  <2>3. job[q].sid # s
    BY <1>0, <2>1, <2>2 DEF LeaseInv, Exclusive, Uses
  <2>4. sessTTL'[job[q].sid] = sessTTL[job[q].sid]
    BY <1>1, <2>2, <2>3 DEF TypeOK, KeyTypes
  <2> QED BY <2>2, <2>4 DEF LeaseInv, Deleted, Live
<1>7. Holds'
  BY <1>1 DEF LeaseInv, Holds
<1>8. AckedStateSurvives'
  BY <1>1, <1>3 DEF LeaseInv, Holds, AckedStateSurvives, TypeOK, KeyTypes
<1> QED BY <1>4, <1>5, <1>6, <1>7, <1>8 DEF LeaseInv

LEMMA DeleteKeyLease ==
    ASSUME TypeOK, LeaseInv, Leased, NEW p \in Procs, NEW s \in Sessions,
           DeleteKey(p, s)
    PROVE  LeaseInv'
<1> USE NoSessionAssumption
<1>1. /\ \A q \in Procs \ {p} : ~Uses(q, s)
      /\ handle' = handle /\ handle[p].sid = NoSession
      /\ job'[p].sid = s /\ job'[p].pc = "delete_events" /\ Alone(p)
      /\ state' = [state EXCEPT ![s] = {}] /\ acked' = [acked EXCEPT ![s] = {}]
      /\ sessTTL' = [sessTTL EXCEPT ![s] = 0]
  BY DEF DeleteKey, MayUse, Uses, Alone, NoHandle, Running, Idle, TypeOK, RequestTypes
<1>2. Exclusive'
  BY <1>1, TakesFree DEF LeaseInv, Uses
<1>3. Carries'
  BY <1>1 DEF LeaseInv, Carries, Alone, DeleteLabels
<1>4. Deleted'
  <2> SUFFICES ASSUME NEW q \in Procs, job'[q].pc \in DeleteLabels
               PROVE  ~(sessTTL'[job'[q].sid] > 0)
    BY DEF Deleted, Live
  <2>1. CASE q = p
    BY <1>1, <2>1 DEF TypeOK, KeyTypes
  <2>2. CASE q # p
    <3>1. job'[q] = job[q] /\ job[q].sid # s /\ job[q].sid \in Sessions
      BY <1>1, <2>2 DEF Alone, Uses, TypeOK, RequestTypes, DeleteLabels
    <3>2. sessTTL'[job[q].sid] = sessTTL[job[q].sid]
      BY <1>1, <3>1 DEF TypeOK, KeyTypes
    <3> QED BY <3>1, <3>2 DEF LeaseInv, Deleted, Live
  <2> QED BY <2>1, <2>2
<1>5. Holds'
  BY <1>1 DEF LeaseInv, Holds, TypeOK, OtherTypes
<1>6. AckedStateSurvives'
  BY <1>1 DEF LeaseInv, AckedStateSurvives, TypeOK, KeyTypes, OtherTypes
<1> QED BY <1>2, <1>3, <1>4, <1>5, <1>6 DEF LeaseInv

LEMMA RequestLease ==
    ASSUME TypeOK, LeaseInv, Leased, NEW p \in Procs, Request(p)
    PROVE  LeaseInv'
<1>1. CASE ListSMembers(p)
  <2>1. /\ job[p].sid = NoSession /\ job[p].pc = "idle" /\ handle' = handle
        /\ job'[p].sid = NoSession /\ job'[p].pc = "list_get" /\ Alone(p)
        /\ UNCHANGED <<state, sessTTL, acked>>
    BY <1>1, StartIs DEF ListSMembers, Idle, Alone, redis, TypeOK, RequestTypes
  <2> QED BY <2>1, QuietStep DEF DeleteLabels
<1>2. CASE Release(p)
  <2>1. /\ job' = job /\ job[p].sid = NoSession /\ job[p].pc = "idle"
        /\ handle'[p].sid = NoSession /\ Alone(p)
        /\ UNCHANGED <<state, sessTTL, acked>>
    BY <1>2 DEF Release, Idle, NoHandle, Alone, redis, TypeOK, RequestTypes
  <2> QED BY <2>1, QuietStep DEF DeleteLabels
<1> QED BY <1>1, <1>2, CreateSetLease, GetSessionLease, StateSetLease,
           AppendRPushLease, DeleteKeyLease DEF Request

LEMMA ContinueLease ==
    ASSUME TypeOK, LeaseInv, NEW p \in Procs, Continue(p)
    PROVE  LeaseInv'
<1>1. ASSUME NEW pc, At(p, pc), pc \in Labels \ {"idle", "list_get"}
      PROVE  job[p].sid \in Sessions
  BY <1>1 DEF At, TypeOK, RequestTypes
<1>2. CASE CreateSAdd(p) \/ CreateExpire(p) \/ CreatePersist(p)
  <2>1. /\ job[p].sid \in Sessions /\ job[p].pc \notin DeleteLabels
        /\ handle' = handle /\ UNCHANGED <<state, sessTTL, acked>>
        /\ Return(p) \/ \E pc \in CreateLabels : Goto(p, pc)
    BY <1>1, <1>2 DEF CreateSAdd, CreateExpire, CreatePersist, Finish, redis,
       At, Labels, CreateLabels, DeleteLabels
  <2> QED BY <2>1, MovesQuietly DEF CreateLabels, DeleteLabels
<1>3. CASE \/ AppendExpireEvents(p) \/ AppendGet(p)
           \/ AppendExpireIndex(p) \/ AppendPersist(p)
  <2>1. /\ job[p].sid \in Sessions /\ job[p].pc \notin DeleteLabels
        /\ handle' = handle /\ UNCHANGED <<state, sessTTL, acked>>
        /\ Return(p) \/ \E pc \in AppendLabels : Goto(p, pc)
    BY <1>1, <1>3 DEF AppendExpireEvents, AppendGet, AppendExpireIndex,
       AppendPersist, Finish, redis, At, Labels, AppendLabels, DeleteLabels
  <2> QED BY <2>1, MovesQuietly DEF AppendLabels, DeleteLabels
<1>4. CASE DeleteEvents(p) \/ DeleteSRem(p) \/ DeletePersist(p)
  <2>1. /\ job[p].sid \in Sessions /\ job[p].pc \in DeleteLabels
        /\ handle' = handle /\ UNCHANGED <<state, sessTTL, acked>>
        /\ Return(p) \/ \E pc \in DeleteLabels : Goto(p, pc)
    BY <1>1, <1>4 DEF DeleteEvents, DeleteSRem, DeletePersist, Finish, redis,
       At, Labels, DeleteLabels
  <2> QED BY <2>1, MovesQuietly
<1>5. ASSUME NEW s \in Sessions, ListGet(p, s)
      PROVE  LeaseInv'
  <2>1. /\ job'[p].sid = job[p].sid /\ job[p].pc = "list_get"
        /\ job'[p].pc = "list_get" /\ Alone(p)
        /\ handle' = handle /\ UNCHANGED <<state, sessTTL, acked>>
    BY <1>5 DEF ListGet, At, Alone, redis, TypeOK, RequestTypes, Jobs
  <2> QED BY <2>1, QuietStep DEF DeleteLabels
<1>6. CASE ListReturn(p)
  <2>1. /\ job'[p].sid = NoSession /\ job'[p].pc = "idle"
        /\ job[p].pc = "list_get" /\ Alone(p)
        /\ handle' = handle /\ UNCHANGED <<state, sessTTL, acked>>
    BY <1>6, ReturnIs DEF ListReturn, At, Alone, redis
  <2> QED BY <2>1, QuietStep DEF DeleteLabels
<1> QED BY <1>2, <1>3, <1>4, <1>5, <1>6, AppendSetLease DEF Continue

LEMMA FailLease ==
    ASSUME TypeOK, LeaseInv, NEW p \in Procs, Fail(p) \/ SkipExpire(p)
    PROVE  LeaseInv'
<1>1. CASE Fail(p)
  <2>1. /\ job'[p].sid = NoSession /\ job'[p].pc = "idle" /\ Alone(p)
        /\ handle'[p] = handle[p] \/ handle'[p].sid = NoSession
        /\ UNCHANGED <<state, sessTTL, acked>>
    BY <1>1, ReturnIs DEF Fail, Alone, redis, NoHandle, TypeOK, RequestTypes
  <2> QED BY <2>1, QuietStep, NoSessionAssumption DEF DeleteLabels
<1>2. CASE SkipExpire(p)
  <2>1. /\ job[p].sid \in Sessions /\ job[p].pc \notin DeleteLabels
        /\ handle' = handle /\ UNCHANGED <<state, sessTTL, acked>>
        /\ Return(p) \/ \E pc \in AppendLabels \cup CreateLabels : Goto(p, pc)
    BY <1>2 DEF SkipExpire, Finish, redis, At, AppendLabels, CreateLabels,
       DeleteLabels, TypeOK, RequestTypes
  <2> QED BY <2>1, MovesQuietly DEF AppendLabels, CreateLabels, DeleteLabels
<1> QED BY <1>1, <1>2

LEMMA TickLease ==
    ASSUME TypeOK, LeaseInv, Tick
    PROVE  LeaseInv'
<1>1. /\ handle' = handle /\ job' = job
      /\ sessTTL' = [s \in Sessions |-> Age(sessTTL[s])]
      /\ state' = [s \in Sessions |-> IF sessTTL'[s] = 0 THEN {} ELSE state[s]]
      /\ acked' = [s \in Sessions |-> IF sessTTL'[s] = 0 THEN {} ELSE acked[s]]
  BY DEF Tick
<1>2. Exclusive' /\ Carries'
  BY <1>1 DEF LeaseInv, Exclusive, Carries, Uses
<1>3. Deleted'
  <2> SUFFICES ASSUME NEW q \in Procs, job[q].pc \in DeleteLabels
               PROVE  ~(sessTTL'[job[q].sid] > 0)
    BY <1>1 DEF Deleted, Live
  <2>1. job[q].sid \in Sessions /\ ~Live(job[q].sid)
    BY DEF LeaseInv, Deleted, DeleteLabels, TypeOK, RequestTypes
  <2>2. sessTTL[job[q].sid] = 0
    BY <2>1 DEF Live, TypeOK, KeyTypes
  <2>3. sessTTL'[job[q].sid] = 0
    BY <1>1, <2>1, <2>2, TTLAssumption DEF Age
  <2> QED BY <2>3
<1>4. Holds' /\ AckedStateSurvives'
  BY <1>1 DEF LeaseInv, Holds, AckedStateSurvives
<1> QED BY <1>2, <1>3, <1>4 DEF LeaseInv

LEMMA NextLease ==
    ASSUME TypeOK, LeaseInv, Leased, [Next]_vars
    PROVE  LeaseInv'
<1>1. ASSUME UNCHANGED <<state, sessTTL, acked, handle, job>>
      PROVE  LeaseInv'
  BY <1>1 DEF LeaseInv, Exclusive, Carries, Deleted, Holds, AckedStateSurvives,
     Uses, Live
<1>2. CASE UNCHANGED vars
  BY <1>1, <1>2 DEF vars
<1>3. ASSUME NEW ids \in SUBSET Sessions, CleanStale(ids) \/ CleanFails(ids)
      PROVE  LeaseInv'
  BY <1>1, <1>3 DEF CleanStale, CleanFails, redis
<1> QED BY <1>2, <1>3, RequestLease, ContinueLease, FailLease, TickLease DEF Next

LEMMA InitLease == Init => LeaseInv
BY NoSessionAssumption DEF Init, LeaseInv, Exclusive, Carries, Deleted, Holds,
   AckedStateSurvives, Uses, NoHandle, Idle, DeleteLabels

\* Where callers use a session one request at a time, a state key whose Set
\* returned nil stays in the stored state for as long as the session does, even
\* if Redis calls fail and time passes during an operation (state.go:103-104).
THEOREM AcknowledgedStays ==
    ASSUME Leased PROVE Spec => []AckedStateSurvives
<1>1. TypeOK /\ LeaseInv /\ [Next]_vars => LeaseInv'
  BY NextLease
<1>2. LeaseInv => AckedStateSurvives
  BY DEF LeaseInv
<1> QED BY <1>1, <1>2, InitLease, TypeCorrect, PTL DEF Spec

-----------------------------------------------------------------------------
(* What the persister is told. *)

\* A call about an event or another session leaves what was last told of s.
LEMMA ToldStays ==
    ASSUME TypeOK, NEW s \in Sessions, NEW c, outbox' = Append(outbox, c),
           c.sid # s \/ c.op = "event", NEW op, ToldLast(s, op)
    PROVE  ToldLast(s, op)'
<1>1. outbox \in Seq(Calls)
  BY DEF TypeOK, OtherTypes
<1>2. /\ Len(outbox') = Len(outbox) + 1 /\ outbox'[Len(outbox) + 1] = c
      /\ \A i \in 1 .. Len(outbox) : outbox'[i] = outbox[i]
      /\ Len(outbox) \in Nat
  BY <1>1
<1>3. \A j \in 1 .. Len(outbox') : j \in 1 .. Len(outbox) \/ j = Len(outbox) + 1
  BY <1>2
<1>4. ASSUME NEW j \in 1 .. Len(outbox'), Tells(j, s)'
      PROVE  j \in 1 .. Len(outbox) /\ Tells(j, s)
  <2>1. j # Len(outbox) + 1
    BY <1>2, <1>4 DEF Tells
  <2>2. j \in 1 .. Len(outbox)
    BY <1>3, <2>1
  <2> QED BY <1>2, <1>4, <2>2 DEF Tells
<1>5. CASE op = "none"
  BY <1>4, <1>5 DEF ToldLast
<1>6. CASE op # "none"
  <2>1. PICK i \in 1 .. Len(outbox) :
           /\ Tells(i, s) /\ outbox[i].op = op
           /\ \A j \in 1 .. Len(outbox) : j > i => ~Tells(j, s)
    BY <1>6 DEF ToldLast
  <2>2. i \in 1 .. Len(outbox') /\ outbox'[i] = outbox[i]
    BY <1>2, <2>1
  <2>3. Tells(i, s)'
    BY <2>1, <2>2 DEF Tells
  <2>4. \A j \in 1 .. Len(outbox') : j > i => ~Tells(j, s)'
    BY <1>4, <2>1
  <2> QED BY <1>6, <2>1, <2>2, <2>3, <2>4 DEF ToldLast
<1> QED BY <1>5, <1>6

LEMMA ToldNow ==
    ASSUME TypeOK, NEW s \in Sessions, NEW c, outbox' = Append(outbox, c),
           c.sid = s, NEW op \in {"session", "delete"}, c.op = op
    PROVE  ToldLast(s, op)'
<1>1. outbox \in Seq(Calls)
  BY DEF TypeOK, OtherTypes
<1>2. /\ Len(outbox') = Len(outbox) + 1 /\ outbox'[Len(outbox) + 1] = c
      /\ Len(outbox) \in Nat
  BY <1>1
<1>3. PICK i : i = Len(outbox) + 1
  OBVIOUS
<1>4. i \in 1 .. Len(outbox') /\ \A j \in 1 .. Len(outbox') : ~(j > i)
  BY <1>2, <1>3
<1>5. outbox'[i].sid = s /\ outbox'[i].op = op
  BY <1>2, <1>3
<1>6. Tells(i, s)'
  BY <1>5 DEF Tells
<1>7. op # "none"
  OBVIOUS
<1> QED BY <1>4, <1>5, <1>6, <1>7 DEF ToldLast

\* A step of p inside an operation or of one that writes no session, and tells
\* the persister of none.
LEMMA InformedQuiet ==
    ASSUME TypeOK, TellInv, NEW p \in Procs, Alone(p), UNCHANGED <<outbox, last>>,
           \/ job[p].pc \notin WriteLabels /\ job'[p].pc \notin WriteLabels
           \/ /\ job'[p].sid = job[p].sid
              /\ job[p].pc \in CreateLabels <=> job'[p].pc \in CreateLabels
              /\ job[p].pc \in DeleteLabels <=> job'[p].pc \in DeleteLabels
    PROVE  TellInv'
<1>1. Doing'
  <2> SUFFICES ASSUME NEW q \in Procs
               PROVE  /\ job'[q].pc \in CreateLabels => last[job'[q].sid] = "session"
                      /\ job'[q].pc \in DeleteLabels => last[job'[q].sid] = "delete"
    BY DEF Doing
  <2>1. CASE q = p
    BY <2>1 DEF TellInv, Doing, WriteLabels
  <2>2. CASE q # p
    BY <2>2 DEF TellInv, Doing, Alone
  <2> QED BY <2>1, <2>2
<1>2. ASSUME NEW s \in Sessions PROVE Informed(s)'
  <2>1. ASSUME NEW op, ToldLast(s, op) PROVE ToldLast(s, op)'
    BY <2>1 DEF ToldLast, Tells
  <2>2. CASE ToldLast(s, last[s]) \/ last[s] = "failed"
    BY <2>2 DEF Informed, ToldLast, Tells
  <2>3. ASSUME NEW q \in Procs, job[q].sid = s, job[q].pc \in WriteLabels
        PROVE  Informed(s)'
    <3>1. CASE q = p
      BY <2>3, <3>1 DEF Informed, WriteLabels
    <3>2. CASE q # p
      BY <2>3, <3>2 DEF Informed, Alone
    <3> QED BY <3>1, <3>2
  <2> QED BY <2>2, <2>3 DEF TellInv, Informed
<1> QED BY <1>1, <1>2 DEF TellInv

\* The first step of Create and Delete, on a session nobody else is using.
LEMMA InformedBegins ==
    ASSUME TypeOK, TellInv, NEW p \in Procs, Alone(p), outbox' = outbox,
           NEW s \in Sessions, \A q \in Procs \ {p} : ~Uses(q, s),
           job[p].pc = "idle", job'[p].sid = s, NEW op,
           last' = [last EXCEPT ![s] = op],
           \/ job'[p].pc \in CreateLabels /\ op = "session"
           \/ job'[p].pc \in DeleteLabels /\ op = "delete"
    PROVE  TellInv'
<1>1. last'[s] = op /\ \A r \in Sessions \ {s} : last'[r] = last[r]
  BY DEF TypeOK, OtherTypes
<1>2. Doing'
  <2> SUFFICES ASSUME NEW q \in Procs
               PROVE  /\ job'[q].pc \in CreateLabels => last'[job'[q].sid] = "session"
                      /\ job'[q].pc \in DeleteLabels => last'[job'[q].sid] = "delete"
    BY DEF Doing
  <2>1. CASE q = p
    BY <1>1, <2>1 DEF CreateLabels, DeleteLabels
  <2>2. CASE q # p /\ job[q].pc \in WriteLabels
    <3>1. job'[q] = job[q] /\ job[q].sid \in Sessions \ {s}
      BY <2>2 DEF Alone, Uses, TypeOK, RequestTypes, WriteLabels, CreateLabels, DeleteLabels
    <3> QED BY <1>1, <3>1 DEF TellInv, Doing
  <2>3. CASE q # p /\ job[q].pc \notin WriteLabels
    BY <2>3 DEF Alone, WriteLabels
  <2> QED BY <2>1, <2>2, <2>3
<1>3. Informed(s)'
  BY DEF Informed, WriteLabels
<1>4. ASSUME NEW r \in Sessions \ {s} PROVE Informed(r)'
  <2>1. CASE ToldLast(r, last[r]) \/ last[r] = "failed"
    BY <1>1, <2>1 DEF Informed, ToldLast, Tells
  <2>2. ASSUME NEW q \in Procs, job[q].sid = r, job[q].pc \in WriteLabels
        PROVE  Informed(r)'
    <3>1. q # p
      BY <2>2 DEF WriteLabels, CreateLabels, DeleteLabels
    <3> QED BY <2>2, <3>1 DEF Informed, Alone
  <2> QED BY <2>1, <2>2 DEF TellInv, Informed
<1> QED BY <1>2, <1>3, <1>4 DEF TellInv

\* A call to the persister that ends the operation: with it the operation has
\* told what it did, and an event tells of no session.
LEMMA InformedTells ==
    ASSUME TypeOK, TellInv, NEW p \in Procs, Return(p), last' = last,
           NEW s \in Sessions, job[p].sid = s, NEW c, outbox' = Append(outbox, c), c.sid = s,
           \/ job[p].pc \in CreateLabels /\ c.op = "session"
           \/ job[p].pc \in DeleteLabels /\ c.op = "delete"
           \/ job[p].pc \notin WriteLabels /\ c.op = "event"
    PROVE  TellInv'
<1>2. job'[p].pc = "idle" /\ \A q \in Procs \ {p} : job'[q] = job[q]
  BY ReturnIs
<1>3. Doing'
  <2> SUFFICES ASSUME NEW q \in Procs
               PROVE  /\ job'[q].pc \in CreateLabels => last[job'[q].sid] = "session"
                      /\ job'[q].pc \in DeleteLabels => last[job'[q].sid] = "delete"
    BY DEF Doing
  <2> QED BY <1>2 DEF TellInv, Doing, CreateLabels, DeleteLabels
<1>4. ASSUME NEW r \in Sessions, r # s \/ c.op = "event" PROVE Informed(r)'
  <2>1. PICK op : op = last[r]
    OBVIOUS
  <2>2. CASE ToldLast(r, op)
    <3>1. ToldLast(r, op)'
      BY <1>4, <2>2, ToldStays
    <3>2. last'[r] = op
      BY <2>1
    <3> QED BY <3>1, <3>2 DEF Informed
  <2>3. CASE last[r] = "failed"
    BY <2>3 DEF Informed
  <2>4. ASSUME NEW q \in Procs, job[q].sid = r, job[q].pc \in WriteLabels
        PROVE  Informed(r)'
    <3>1. q # p
      BY <1>4, <2>4 DEF WriteLabels
    <3> QED BY <1>2, <2>4, <3>1 DEF Informed
  <2> QED BY <2>1, <2>2, <2>3, <2>4 DEF TellInv, Informed
<1>5. CASE c.op # "event"
  <2>1. PICK op : op = c.op
    OBVIOUS
  <2>2. op \in {"session", "delete"} /\ last'[s] = op
    BY <1>5, <2>1 DEF TellInv, Doing
  <2>3. ToldLast(s, op)'
    BY <2>1, <2>2, ToldNow
  <2>4. Informed(s)'
    BY <2>2, <2>3 DEF Informed
  <2> QED BY <1>3, <1>4, <2>4 DEF TellInv
<1> QED BY <1>3, <1>4, <1>5 DEF TellInv

LEMMA RequestInformed ==
    ASSUME TypeOK, Leased, TellInv, NEW p \in Procs, Request(p)
    PROVE  TellInv'
<1> USE NoSessionAssumption
<1>1. ASSUME NEW s \in Sessions, NEW init \in SUBSET Keys, CreateSet(p, s, init)
      PROVE  TellInv'
  <2>1. /\ Alone(p) /\ job[p].pc = "idle" /\ outbox' = outbox
        /\ job'[p].sid = s /\ job'[p].pc \in CreateLabels
        /\ last' = [last EXCEPT ![s] = "session"]
        /\ \A q \in Procs \ {p} : ~Uses(q, s)
    BY <1>1, StartIs DEF CreateSet, MayUse, Uses, Alone, Running, Idle, CreateLabels,
       TypeOK, RequestTypes
  <2> QED BY <2>1, InformedBegins
<1>2. ASSUME NEW s \in Sessions, DeleteKey(p, s)
      PROVE  TellInv'
  <2>1. /\ Alone(p) /\ job[p].pc = "idle" /\ outbox' = outbox
        /\ job'[p].sid = s /\ job'[p].pc \in DeleteLabels
        /\ last' = [last EXCEPT ![s] = "delete"]
        /\ \A q \in Procs \ {p} : ~Uses(q, s)
    BY <1>2, StartIs DEF DeleteKey, MayUse, Uses, Alone, Running, Idle, DeleteLabels,
       TypeOK, RequestTypes
  <2> QED BY <2>1, InformedBegins
<1>3. CASE \/ \E s \in Sessions : GetSession(p, s)
           \/ \E k \in Keys : StateSet(p, k) \/ StateSetError(p, k) \/ StateSetLost(p, k)
           \/ Release(p)
  <2>1. /\ Alone(p) /\ job' = job /\ job[p].pc = "idle"
        /\ UNCHANGED <<outbox, last>>
    BY <1>3, StartIs DEF GetSession, StateSet, StateSetError, StateSetLost, Release,
       Alone, Idle, TypeOK, RequestTypes
  <2> QED BY <2>1, InformedQuiet
<1>4. CASE AppendRPush(p)
  <2>1. job[p].pc = "idle" /\ UNCHANGED <<outbox, last>> /\ handle' = handle
    BY <1>4 DEF AppendRPush, Start, Idle
  <2>2. PICK t : t = [Running("append_expire", handle[p].sid) EXCEPT !.evt = ops']
    OBVIOUS
  <2>3. job' = [job EXCEPT ![p] = t]
    BY <1>4, <2>2 DEF AppendRPush
  <2>4. t.pc = "append_expire"
    BY <2>2 DEF Running, Idle
  <2>5. Alone(p) /\ job'[p].pc = "append_expire"
    BY <2>1, <2>3, <2>4 DEF Alone, TypeOK, RequestTypes
  <2>6. job'[p].pc \notin WriteLabels /\ job[p].pc \notin WriteLabels
    BY <2>1, <2>5 DEF WriteLabels, CreateLabels, DeleteLabels
  <2> QED BY <2>1, <2>5, <2>6, InformedQuiet DEF WriteLabels
<1>5. CASE ListSMembers(p)
  <2>1. job[p].pc = "idle" /\ UNCHANGED <<outbox, last>> /\ handle' = handle
    BY <1>5 DEF ListSMembers, Start, Idle
  <2>2. PICK t : t = [Idle EXCEPT !.pc = "list_get", !.todo = index]
    OBVIOUS
  <2>3. job' = [job EXCEPT ![p] = t]
    BY <1>5, <2>2 DEF ListSMembers
  <2>4. t.pc = "list_get"
    BY <2>2 DEF Running, Idle
  <2>5. Alone(p) /\ job'[p].pc = "list_get"
    BY <2>1, <2>3, <2>4 DEF Alone, TypeOK, RequestTypes
  <2>6. job'[p].pc \notin WriteLabels /\ job[p].pc \notin WriteLabels
    BY <2>1, <2>5 DEF WriteLabels, CreateLabels, DeleteLabels
  <2> QED BY <2>1, <2>5, <2>6, InformedQuiet DEF WriteLabels
<1> QED BY <1>1, <1>2, <1>3, <1>4, <1>5 DEF Request

LEMMA ContinueInformed ==
    ASSUME TypeOK, HasPersister, TellInv, NEW p \in Procs, Continue(p)
    PROVE  TellInv'
<1> USE NoSessionAssumption
<1>1. CASE CreateSAdd(p) \/ CreateExpire(p)
  <2>1. /\ handle' = handle /\ UNCHANGED <<outbox, last>>
        /\ job[p].pc \in CreateLabels /\ \E pc \in CreateLabels : Goto(p, pc)
    BY <1>1 DEF CreateSAdd, CreateExpire, Finish, CreateLabels, At
  <2>2. Alone(p) /\ job'[p].pc \in CreateLabels /\ job'[p].sid = job[p].sid
    BY <2>1, GotoIs DEF Alone
  <2> QED BY <2>1, <2>2, InformedQuiet DEF CreateLabels, DeleteLabels
<1>2. CASE DeleteEvents(p) \/ DeleteSRem(p)
  <2>1. /\ handle' = handle /\ UNCHANGED <<outbox, last>>
        /\ job[p].pc \in DeleteLabels /\ \E pc \in DeleteLabels : Goto(p, pc)
    BY <1>2 DEF DeleteEvents, DeleteSRem, Finish, DeleteLabels, At
  <2>2. Alone(p) /\ job'[p].pc \in DeleteLabels /\ job'[p].sid = job[p].sid
    BY <2>1, GotoIs DEF Alone
  <2> QED BY <2>1, <2>2, InformedQuiet DEF CreateLabels, DeleteLabels
<1>3. CASE CreatePersist(p) \/ DeletePersist(p) \/ AppendPersist(p)
  <2> PICK s \in Sessions : s = job[p].sid
    BY <1>3 DEF CreatePersist, DeletePersist, AppendPersist, At, TypeOK, RequestTypes
  <2>1. PICK op, e : /\ outbox' = Append(outbox, [op |-> op, sid |-> s, evt |-> e])
                     /\ \/ job[p].pc \in CreateLabels /\ op = "session"
                        \/ job[p].pc \in DeleteLabels /\ op = "delete"
                        \/ job[p].pc \notin WriteLabels /\ op = "event"
    BY <1>3 DEF CreatePersist, DeletePersist, AppendPersist, Submit, At, WriteLabels,
       CreateLabels, DeleteLabels
  <2>2. PICK c : c = [op |-> op, sid |-> s, evt |-> e]
    OBVIOUS
  <2>3. c.sid = s /\ c.op = op /\ outbox' = Append(outbox, c)
    BY <2>1, <2>2
  <2>4. Return(p) /\ last' = last
    BY <1>3 DEF CreatePersist, DeletePersist, AppendPersist
  <2> QED BY <2>1, <2>3, <2>4, InformedTells
<1>4. CASE \/ AppendExpireEvents(p) \/ AppendGet(p) \/ AppendSet(p)
           \/ AppendExpireIndex(p) \/ ListReturn(p)
  <2>1. /\ handle' = handle /\ UNCHANGED <<outbox, last>>
        /\ job[p].pc \notin WriteLabels
        /\ Return(p) \/ \E pc : Goto(p, pc) /\ pc \notin WriteLabels
    BY <1>4 DEF AppendExpireEvents, AppendGet, AppendSet, AppendExpireIndex,
       ListReturn, Finish, At, WriteLabels, CreateLabels, DeleteLabels
  <2>2. Alone(p) /\ job'[p].pc \notin WriteLabels
    BY <2>1, GotoIs, ReturnIs DEF Alone, WriteLabels, CreateLabels, DeleteLabels
  <2> QED BY <2>1, <2>2, InformedQuiet
<1>5. ASSUME NEW s \in Sessions, ListGet(p, s)
      PROVE  TellInv'
  <2>1. /\ Alone(p) /\ UNCHANGED <<outbox, last>>
        /\ job[p].pc \notin WriteLabels /\ job'[p].pc \notin WriteLabels
    BY <1>5 DEF ListGet, At, Alone, WriteLabels, CreateLabels, DeleteLabels, TypeOK,
       RequestTypes, Jobs
  <2> QED BY <2>1, InformedQuiet
<1> QED BY <1>1, <1>2, <1>3, <1>4, <1>5 DEF Continue

\* A creation or deletion that fails is one the persister was not told of.
LEMMA FailInformed ==
    ASSUME TypeOK, LeaseInv, HasPersister, TellInv, NEW p \in Procs,
           Fail(p) \/ SkipExpire(p)
    PROVE  TellInv'
<1> USE NoSessionAssumption
<1>1. CASE Fail(p) /\ job[p].pc \notin WriteLabels
  <2>1. /\ Return(p) /\ UNCHANGED <<outbox, last>>
        /\ handle' = handle
    BY <1>1 DEF Fail, Creating, Deleting, WriteLabels, CreateLabels, DeleteLabels
  <2>2. Alone(p) /\ job'[p].pc = "idle"
    BY <2>1, ReturnIs DEF Alone
  <2> QED BY <1>1, <2>1, <2>2, InformedQuiet DEF WriteLabels, CreateLabels, DeleteLabels
<1>2. CASE Fail(p) /\ job[p].pc \in WriteLabels
  <2> PICK s \in Sessions : s = job[p].sid
    BY <1>2 DEF TypeOK, RequestTypes, WriteLabels, CreateLabels, DeleteLabels
  <2>1. /\ Return(p) /\ outbox' = outbox /\ last' = [last EXCEPT ![s] = "failed"]
    BY <1>2 DEF Fail, Creating, Deleting, WriteLabels, CreateLabels, DeleteLabels
  <2>2. last'[s] = "failed" /\ \A r \in Sessions \ {s} : last'[r] = last[r]
    BY <2>1 DEF TypeOK, OtherTypes
  <2>3. job'[p].pc = "idle" /\ \A q \in Procs \ {p} : job'[q] = job[q] /\ job[q].sid # s
    BY <2>1, ReturnIs DEF LeaseInv, Exclusive, Uses
  <2>4. Doing'
    <3> SUFFICES ASSUME NEW q \in Procs
                 PROVE  /\ job'[q].pc \in CreateLabels => last'[job'[q].sid] = "session"
                        /\ job'[q].pc \in DeleteLabels => last'[job'[q].sid] = "delete"
      BY DEF Doing
    <3>1. CASE q = p
      BY <2>3, <3>1 DEF CreateLabels, DeleteLabels
    <3>2. CASE q # p /\ job[q].pc \in WriteLabels
      <4>1. job'[q] = job[q] /\ job[q].sid \in Sessions \ {s}
        BY <2>3, <3>2 DEF TypeOK, RequestTypes, WriteLabels, CreateLabels, DeleteLabels
      <4> QED BY <2>2, <4>1 DEF TellInv, Doing
    <3>3. CASE q # p /\ job[q].pc \notin WriteLabels
      BY <2>3, <3>3 DEF WriteLabels
    <3> QED BY <3>1, <3>2, <3>3
  <2>5. Informed(s)'
    BY <2>2 DEF Informed
  <2>6. ASSUME NEW r \in Sessions \ {s} PROVE Informed(r)'
    <3>1. CASE ToldLast(r, last[r]) \/ last[r] = "failed"
      BY <2>1, <2>2, <3>1 DEF Informed, ToldLast, Tells
    <3>2. ASSUME NEW q \in Procs, job[q].sid = r, job[q].pc \in WriteLabels
          PROVE  Informed(r)'
      <4>1. q # p
        BY <3>2
      <4> QED BY <2>3, <3>2, <4>1 DEF Informed
    <3> QED BY <3>1, <3>2 DEF TellInv, Informed
  <2> QED BY <2>4, <2>5, <2>6 DEF TellInv
<1>3. CASE SkipExpire(p)
  <2>1. /\ handle' = handle /\ UNCHANGED <<outbox, last>>
        /\ \E pc : /\ Goto(p, pc)
                   /\ job[p].pc \in CreateLabels <=> pc \in CreateLabels
                   /\ job[p].pc \in DeleteLabels <=> pc \in DeleteLabels
    BY <1>3 DEF SkipExpire, Finish, redis, At, CreateLabels, DeleteLabels
  <2>2. /\ Alone(p) /\ job'[p].sid = job[p].sid
        /\ job[p].pc \in CreateLabels <=> job'[p].pc \in CreateLabels
        /\ job[p].pc \in DeleteLabels <=> job'[p].pc \in DeleteLabels
    BY <2>1, GotoIs DEF Alone
  <2> QED BY <2>1, <2>2, InformedQuiet
<1> QED BY <1>1, <1>2, <1>3

LEMMA NextInformed ==
    ASSUME TypeOK, LeaseInv, Leased, HasPersister, TellInv, [Next]_vars
    PROVE  TellInv'
<1>1. ASSUME UNCHANGED <<job, outbox, last>> PROVE TellInv'
  BY <1>1 DEF TellInv, Doing, Informed, ToldLast, Tells
<1>2. CASE UNCHANGED vars
  BY <1>1, <1>2 DEF vars
<1>3. ASSUME NEW ids \in SUBSET Sessions, CleanStale(ids) \/ CleanFails(ids)
      PROVE  TellInv'
  BY <1>1, <1>3 DEF CleanStale, CleanFails
<1>4. CASE Tick
  BY <1>1, <1>4 DEF Tick
<1> QED BY <1>2, <1>3, <1>4, RequestInformed, ContinueInformed, FailInformed DEF Next

\* Where callers use a session one request at a time, the persister knows what
\* was last done to every session, its creation or its deletion, once that
\* operation is over: whatever other sessions' requests, failing Redis calls
\* and expiries come between.  Only of a Create or a Delete that returned an
\* error after its first write is it told nothing (service.go:53-55, 384-400).
THEOREM PersisterIsTold ==
    ASSUME Leased, HasPersister PROVE Spec => []OutboxAgrees
<1>1. Init => TellInv
  BY DEF Init, TellInv, Doing, Informed, ToldLast, Tells, Idle, CreateLabels, DeleteLabels
<1>2. TypeOK /\ LeaseInv /\ [Next]_vars => LeaseInv'
  BY NextLease
<1>3. TypeOK /\ LeaseInv /\ TellInv /\ [Next]_vars => TellInv'
  BY NextInformed
<1>4. TellInv => OutboxAgrees
  BY DEF TellInv, Informed, OutboxAgrees
<1> QED BY <1>1, <1>2, <1>3, <1>4, InitLease, TypeCorrect, PTL DEF Spec

-----------------------------------------------------------------------------
(* The index lists what is live. *)

\* Nobody is deleting.
NoDelete == \A p \in Procs : job[p].pc \notin DeleteLabels

\* A step of p that neither ends nor continues a deletion, or begins none.
LEMMA NoDeleteStays ==
    ASSUME TypeOK, NoDelete, NEW p \in Procs,
           \/ job' = job
           \/ Return(p)
           \/ \E pc : Goto(p, pc) /\ pc \notin DeleteLabels
           \/ \E t : job' = [job EXCEPT ![p] = t] /\ t.pc \notin DeleteLabels
    PROVE  NoDelete'
<1>1. CASE job' = job
  BY <1>1 DEF NoDelete
<1>2. CASE Return(p) \/ \E pc : Goto(p, pc) /\ pc \notin DeleteLabels
  BY <1>2, GotoIs, ReturnIs DEF NoDelete, DeleteLabels
<1>3. CASE \E t : job' = [job EXCEPT ![p] = t] /\ t.pc \notin DeleteLabels
  BY <1>3 DEF NoDelete, TypeOK, RequestTypes
<1> QED BY <1>1, <1>2, <1>3

LEMMA NextNoDelete ==
    ASSUME "delete" \notin Kinds, TypeOK, NoDelete, [Next]_vars
    PROVE  NoDelete'
<1>1. ASSUME NEW p \in Procs, Request(p) PROVE NoDelete'
  <2>1. ASSUME NEW s \in Sessions, NEW init \in SUBSET Keys, CreateSet(p, s, init)
        PROVE  NoDelete'
    <3>1. Running("create_sadd", s).pc \notin DeleteLabels
      BY DEF Running, Idle, DeleteLabels
    <3> QED BY <2>1, <3>1, NoDeleteStays DEF CreateSet
  <2>2. CASE AppendRPush(p)
    <3> PICK t : /\ t = [Running("append_expire", handle[p].sid) EXCEPT !.evt = ops']
                 /\ job' = [job EXCEPT ![p] = t]
      BY <2>2 DEF AppendRPush
    <3>1. t.pc \notin DeleteLabels
      BY DEF Running, Idle, DeleteLabels
    <3> QED BY <3>1, NoDeleteStays
  <2>3. CASE ListSMembers(p)
    <3> PICK t : /\ t = [Idle EXCEPT !.pc = "list_get", !.todo = index]
                 /\ job' = [job EXCEPT ![p] = t]
      BY <2>3 DEF ListSMembers
    <3>1. t.pc \notin DeleteLabels
      BY DEF Idle, DeleteLabels
    <3> QED BY <3>1, NoDeleteStays
  <2>4. ASSUME NEW s \in Sessions, DeleteKey(p, s) PROVE FALSE
    BY <2>4 DEF DeleteKey, Start
  <2> QED BY <1>1, <2>1, <2>2, <2>3, <2>4, NoDeleteStays
          DEF Request, GetSession, StateSet, StateSetError, StateSetLost, Release
<1>2. ASSUME NEW p \in Procs, Continue(p) PROVE NoDelete'
  <2>1. CASE \/ CreateSAdd(p) \/ CreateExpire(p) \/ CreatePersist(p)
             \/ AppendExpireEvents(p) \/ AppendGet(p) \/ AppendSet(p)
             \/ AppendExpireIndex(p) \/ AppendPersist(p) \/ ListReturn(p)
    BY <2>1, NoDeleteStays DEF CreateSAdd, CreateExpire, CreatePersist,
       AppendExpireEvents, AppendGet, AppendSet, AppendExpireIndex,
       AppendPersist, ListReturn, Finish, DeleteLabels
  <2>2. CASE DeleteEvents(p) \/ DeleteSRem(p) \/ DeletePersist(p)
    BY <2>2 DEF DeleteEvents, DeleteSRem, DeletePersist, At, NoDelete, DeleteLabels
  <2>3. ASSUME NEW s \in Sessions, ListGet(p, s) PROVE NoDelete'
    <3>1. \A q \in Procs : job'[q].pc = job[q].pc
      BY <2>3 DEF ListGet, TypeOK, RequestTypes, Jobs
    <3> QED BY <3>1 DEF NoDelete
  <2> QED BY <1>2, <2>1, <2>2, <2>3 DEF Continue
<1>3. ASSUME NEW p \in Procs, Fail(p) \/ SkipExpire(p) PROVE NoDelete'
  BY <1>3, NoDeleteStays DEF Fail, SkipExpire, Finish, DeleteLabels
<1>4. ASSUME NEW ids \in SUBSET Sessions, CleanStale(ids) \/ CleanFails(ids)
      PROVE  NoDelete'
  BY <1>4 DEF CleanStale, CleanFails, NoDelete
<1>5. CASE Tick \/ UNCHANGED vars
  BY <1>5 DEF Tick, vars, NoDelete
<1> QED BY <1>1, <1>2, <1>3, <1>4, <1>5 DEF Next

\* A step of p that is not its SADD, revives no session and drops from the
\* index only what is gone.
LEMMA CoverKeeps ==
    ASSUME IndexCoversLive, NEW p \in Procs, job[p].pc # "create_sadd",
           \A q \in Procs \ {p} : job'[q] = job[q],
           \A s \in index \ index' : ~Live(s),
           \A s \in Sessions : sessTTL'[s] > 0 =>
               Live(s) \/ (job'[p].pc = "create_sadd" /\ job'[p].sid = s)
    PROVE  IndexCoversLive'
<1> SUFFICES ASSUME NEW s \in Sessions, sessTTL'[s] > 0, s \notin index'
             PROVE  \E q \in Procs : job'[q].pc = "create_sadd" /\ job'[q].sid = s
  BY DEF IndexCoversLive, Live, At
<1>1. CASE job'[p].pc = "create_sadd" /\ job'[p].sid = s
  BY <1>1
<1>2. CASE Live(s)
  <2>1. s \notin index
    BY <1>2
  <2>2. PICK q \in Procs : job[q].pc = "create_sadd" /\ job[q].sid = s
    BY <1>2, <2>1 DEF IndexCoversLive, At
  <2> QED BY <2>2
<1> QED BY <1>1, <1>2

LEMMA RequestCovers ==
    ASSUME TypeOK, IndexCoversLive, "set" \notin Kinds, NEW p \in Procs, Request(p)
    PROVE  IndexCoversLive'
<1>1. ASSUME NEW s \in Sessions, NEW init \in SUBSET Keys, CreateSet(p, s, init)
      PROVE  IndexCoversLive'
  <2>1. /\ job[p].pc = "idle" /\ index' = index
        /\ job'[p].pc = "create_sadd" /\ job'[p].sid = s
        /\ \A q \in Procs \ {p} : job'[q] = job[q]
    BY <1>1, StartIs DEF CreateSet, Running, Idle, TypeOK, RequestTypes
  <2>2. \A r \in Sessions : sessTTL'[r] > 0 => Live(r) \/ r = s
    BY <1>1 DEF CreateSet, Live, TypeOK, KeyTypes
  <2> QED BY <2>1, <2>2, CoverKeeps
<1>2. ASSUME NEW s \in Sessions, DeleteKey(p, s)
      PROVE  IndexCoversLive'
  <2>1. /\ job[p].pc = "idle" /\ index' = index
        /\ \A q \in Procs \ {p} : job'[q] = job[q]
    BY <1>2, StartIs DEF DeleteKey, TypeOK, RequestTypes
  <2>2. \A r \in Sessions : sessTTL'[r] > 0 => Live(r)
    BY <1>2 DEF DeleteKey, Live, TypeOK, KeyTypes
  <2> QED BY <2>1, <2>2, CoverKeeps
<1>3. ASSUME NEW k \in Keys,
             StateSet(p, k) \/ StateSetError(p, k) \/ StateSetLost(p, k)
      PROVE  FALSE
  BY <1>3 DEF StateSet, StateSetError, StateSetLost, Start
<1>4. CASE \/ AppendRPush(p) \/ ListSMembers(p) \/ Release(p)
           \/ \E s \in Sessions : GetSession(p, s)
  <2>1. /\ job[p].pc = "idle" /\ index' = index /\ sessTTL' = sessTTL
        /\ \A q \in Procs \ {p} : job'[q] = job[q]
    BY <1>4, StartIs DEF AppendRPush, ListSMembers, Release, GetSession, redis, Idle,
       TypeOK, RequestTypes
  <2> QED BY <2>1, CoverKeeps DEF Live
<1> QED BY <1>1, <1>2, <1>3, <1>4 DEF Request

LEMMA ContinueCovers ==
    ASSUME TypeOK, IndexCoversLive, AppendsLive, Deleted, NEW p \in Procs, Continue(p)
    PROVE  IndexCoversLive'
<1>1. CASE CreateSAdd(p)
  <2>1. /\ sessTTL' = sessTTL /\ index' = index \cup {job[p].sid}
        /\ \A q \in Procs \ {p} : job'[q] = job[q]
    BY <1>1, GotoIs DEF CreateSAdd
  <2> SUFFICES ASSUME NEW s \in Sessions, sessTTL'[s] > 0, s \notin index'
               PROVE  \E q \in Procs : job'[q].pc = "create_sadd" /\ job'[q].sid = s
    BY DEF IndexCoversLive, Live, At
  <2>2. PICK q \in Procs : job[q].pc = "create_sadd" /\ job[q].sid = s
    BY <2>1 DEF IndexCoversLive, At, Live
  <2> QED BY <2>1, <2>2
<1>2. CASE AppendSet(p)
  <2>1. /\ job[p].pc = "append_set" /\ index' = index
        /\ \A q \in Procs \ {p} : job'[q] = job[q]
    BY <1>2, GotoIs DEF AppendSet, At
  <2>2. \A r \in Sessions : sessTTL'[r] > 0 => Live(r)
    BY <1>2 DEF AppendSet, AppendsLive, Live, TypeOK, KeyTypes
  <2> QED BY <2>1, <2>2, CoverKeeps
<1>3. CASE DeleteSRem(p)
  <2>1. /\ job[p].pc = "delete_srem" /\ index' = index \ {job[p].sid}
        /\ sessTTL' = sessTTL
        /\ \A q \in Procs \ {p} : job'[q] = job[q]
    BY <1>3, GotoIs, ReturnIs DEF DeleteSRem, Finish, At
  <2>2. ~Live(job[p].sid)
    BY <2>1 DEF Deleted, DeleteLabels
  <2> QED BY <2>1, <2>2, CoverKeeps DEF Live
<1>4. CASE \/ CreateExpire(p) \/ CreatePersist(p) \/ AppendExpireEvents(p)
           \/ AppendGet(p) \/ AppendExpireIndex(p) \/ AppendPersist(p)
           \/ DeleteEvents(p) \/ DeletePersist(p) \/ ListReturn(p)
  <2>1. /\ job[p].pc # "create_sadd" /\ index' = index /\ sessTTL' = sessTTL
        /\ Return(p) \/ \E pc : Goto(p, pc)
    BY <1>4 DEF CreateExpire, CreatePersist, AppendExpireEvents, AppendGet,
       AppendExpireIndex, AppendPersist, DeleteEvents, DeletePersist, ListReturn,
       Finish, At, redis
  <2>2. \A q \in Procs \ {p} : job'[q] = job[q]
    BY <2>1, GotoIs, ReturnIs
  <2> QED BY <2>1, <2>2, CoverKeeps DEF Live
<1>5. ASSUME NEW s \in Sessions, ListGet(p, s)
      PROVE  IndexCoversLive'
  <2>1. /\ job[p].pc # "create_sadd" /\ index' = index /\ sessTTL' = sessTTL
        /\ \A q \in Procs \ {p} : job'[q] = job[q]
    BY <1>5 DEF ListGet, At, redis, TypeOK, RequestTypes
  <2> QED BY <2>1, CoverKeeps DEF Live
<1> QED BY <1>1, <1>2, <1>3, <1>4, <1>5 DEF Continue

\* When no operation is under way, the index has at least the life of every
\* session it lists, so the clock does not take it first.
LEMMA TickCovers ==
    ASSUME QuietClock, TypeOK, IndexCoversLive, IndexOutlivesListed, Tick
    PROVE  IndexCoversLive'
<1> SUFFICES ASSUME NEW s \in Sessions, sessTTL'[s] > 0
             PROVE  s \in index'
  BY DEF IndexCoversLive, Live
<1>1. \A p \in Procs : job[p].pc = "idle"
  BY DEF Tick, Idle
<1>2. /\ sessTTL[s] \in 0 .. TTL /\ idxTTL \in 0 .. TTL + 1
      /\ sessTTL'[s] = Age(sessTTL[s]) /\ idxTTL' = Age(idxTTL)
  BY DEF Tick, TypeOK, KeyTypes, Expiries, NoExpiry
<1>3. sessTTL[s] > 1
  BY <1>2, TTLAssumption DEF Age
<1>4. s \in index
  <2>1. sessTTL[s] > 0
    BY <1>2, <1>3
  <2>2. \A p \in Procs : job[p].pc # "create_sadd"
    BY <1>1
  <2> QED BY <2>1, <2>2 DEF IndexCoversLive, Live, At
<1>5. sessTTL[s] <= idxTTL
  BY <1>1, <1>4 DEF IndexOutlivesListed, Refreshing
<1>6. idxTTL' # 0
  BY <1>2, <1>3, <1>5, TTLAssumption DEF Age
<1> QED BY <1>4, <1>6 DEF Tick

LEMMA NextCovers ==
    ASSUME QuietClock, Faulty = FALSE, "set" \notin Kinds, TypeOK, Deleted,
           IndexCoversLive, IndexOutlivesListed, AppendsLive, [Next]_vars
    PROVE  IndexCoversLive'
<1>1. CASE UNCHANGED vars
  BY <1>1 DEF vars, IndexCoversLive, Live, At
<1>2. ASSUME NEW ids \in SUBSET Sessions, CleanStale(ids)
      PROVE  IndexCoversLive'
  BY <1>2 DEF CleanStale, IndexCoversLive, Live, At
<1>3. ASSUME NEW p \in Procs, Fail(p) \/ SkipExpire(p) PROVE FALSE
  BY <1>3 DEF Fail, SkipExpire
<1>4. ASSUME NEW ids \in SUBSET Sessions, CleanFails(ids) PROVE FALSE
  BY <1>4 DEF CleanFails
<1> QED BY <1>1, <1>2, <1>3, <1>4, RequestCovers, ContinueCovers, TickCovers DEF Next

\* Where Redis calls succeed, session states are not written between events, no
\* key expires in the middle of an operation and no session is deleted while a
\* request is using it, every live session of the user is in the index, however
\* creations, appends, lists, cleanups and the clock interleave
\* (service.go:348-351, 499-502).
THEOREM ListedWhileLive ==
    ASSUME QuietClock, Faulty = FALSE, "set" \notin Kinds,
           "delete" \notin Kinds \/ Leased
    PROVE  Spec => []IndexCoversLive
<1> DEFINE Cover == IndexCoversLive /\ IndexOutlivesListed /\ AppendsLive
           Gone == IF "delete" \notin Kinds THEN NoDelete ELSE LeaseInv
<1>1. Init => Cover /\ Gone
  BY InitLease DEF Init, IndexCoversLive, IndexOutlivesListed, AppendsLive, NoDelete,
     DeleteLabels, Live, At, Idle
<1>2. TypeOK /\ Gone => Deleted
  BY DEF NoDelete, LeaseInv, Deleted
<1>3. TypeOK /\ Gone /\ [Next]_vars => Gone'
  <2>1. CASE "delete" \notin Kinds
    BY <2>1, NextNoDelete
  <2>2. CASE "delete" \in Kinds
    BY <2>2, NextLease
  <2> QED BY <2>1, <2>2
<1>4. TypeOK /\ Gone /\ Cover /\ [Next]_vars => Cover'
  BY <1>2, NextCovers, NextKeepsIndex, NextAppendsLive
<1> QED BY <1>1, <1>3, <1>4, TypeCorrect, PTL DEF Spec
=============================================================================
