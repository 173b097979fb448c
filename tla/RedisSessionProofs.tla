------------------------- MODULE RedisSessionProofs -------------------------
(***************************************************************************)
(* Theorems about RedisSession, for every value of its constants.          *)
(***************************************************************************)
EXTENDS RedisSession, SequenceTheorems, TLAPS

-----------------------------------------------------------------------------
(* Type correctness. *)

\* The initial keyspace is empty and nobody is at work.
LEMMA InitTypeOK == Init => TypeOK
<1> SUFFICES ASSUME Init PROVE TypeOK
  OBVIOUS
<1> USE TTLAssumption DEF Init
<1>1. KeyTypes
  BY DEF KeyTypes, Expiries, NoExpiry
<1>2. RequestTypes
  BY DEF RequestTypes, Handles, Jobs, NoHandle, Idle, Labels
<1>3. OtherTypes
  BY DEF OtherTypes
<1>4. NoEmptyKeys
  BY DEF NoEmptyKeys
<1> QED BY <1>1, <1>2, <1>3, <1>4 DEF TypeOK

\* How an operation moves on: it goes to its next step, it returns, it ends
\* with or without a call to the persister.
LEMMA GotoTypes ==
    ASSUME RequestTypes, NEW p \in Procs, NEW pc \in Labels,
           job[p].pc \notin {"idle", "list_get"}, Goto(p, pc), handle' = handle
    PROVE  RequestTypes'
BY DEF RequestTypes, Handles, Jobs, Goto

LEMMA ReturnTypes ==
    ASSUME RequestTypes, NEW p \in Procs, Return(p), handle' \in [Procs -> Handles]
    PROVE  RequestTypes'
<1>1. Idle \in Jobs
  BY DEF Jobs, Idle, Labels
<1>2. job' \in [Procs -> Jobs]
  BY <1>1 DEF RequestTypes, Return
<1>3. \A q \in Procs : job'[q] = job[q] \/ job'[q].pc = "idle"
  BY DEF RequestTypes, Return, Idle
<1> QED BY <1>2, <1>3 DEF RequestTypes

LEMMA FinishTypes ==
    ASSUME RequestTypes, NEW p \in Procs, NEW pc \in Labels,
           job[p].pc \notin {"idle", "list_get"}, Finish(p, pc), handle' = handle
    PROVE  RequestTypes'
<1>1. CASE HasPersister
  BY <1>1, GotoTypes DEF Finish
<1>2. CASE ~HasPersister
  BY <1>2, ReturnTypes DEF Finish, RequestTypes
<1> QED BY <1>1, <1>2


\* Create: each of its steps keeps the types.
LEMMA CreateSetTypeOK ==
    ASSUME TypeOK, NEW p \in Procs, NEW s \in Sessions, NEW init \in SUBSET Keys, 
           CreateSet(p, s, init)
    PROVE  TypeOK'
<1> USE TTLAssumption DEF TypeOK, CreateSet
<1>1. KeyTypes'
  BY DEF KeyTypes
<1>2. RequestTypes'
  BY DEF RequestTypes, Handles, Jobs, Running, Idle, Labels
<1>3. OtherTypes'
  BY DEF OtherTypes, Start
<1>4. NoEmptyKeys'
  BY DEF NoEmptyKeys
<1> QED BY <1>1, <1>2, <1>3, <1>4

LEMMA CreateSAddTypeOK ==
    ASSUME TypeOK, NEW p \in Procs, 
           CreateSAdd(p)
    PROVE  TypeOK'
<1> USE TTLAssumption DEF TypeOK, CreateSAdd
<1>0. job[p].sid \in Sessions
  BY DEF RequestTypes, At
<1>1. KeyTypes'
  BY <1>0 DEF KeyTypes, Touch, Expiries, NoExpiry
<1>2. RequestTypes'
  BY GotoTypes DEF At, Labels
<1>3. OtherTypes'
  BY DEF OtherTypes
<1>4. NoEmptyKeys'
  <2>1. index' # {}
    BY <1>0
  <2>2. idxTTL' # 0
    BY DEF KeyTypes, Touch, NoExpiry, Expiries
  <2> QED BY <2>1, <2>2 DEF NoEmptyKeys
<1> QED BY <1>1, <1>2, <1>3, <1>4

LEMMA CreateExpireTypeOK ==
    ASSUME TypeOK, NEW p \in Procs, 
           CreateExpire(p)
    PROVE  TypeOK'
<1> USE TTLAssumption DEF TypeOK, CreateExpire
<1>1. KeyTypes'
  BY DEF KeyTypes, Expire, Expiries, NoExpiry
<1>2. RequestTypes'
  BY FinishTypes DEF At, Labels
<1>3. OtherTypes'
  BY DEF OtherTypes
<1>4. NoEmptyKeys'
  BY DEF NoEmptyKeys, Expire
<1> QED BY <1>1, <1>2, <1>3, <1>4

LEMMA CreatePersistTypeOK ==
    ASSUME TypeOK, NEW p \in Procs, 
           CreatePersist(p)
    PROVE  TypeOK'
<1> USE TTLAssumption DEF TypeOK, CreatePersist
<1>0. job[p].sid \in Sessions
  BY DEF RequestTypes, At
<1>1. KeyTypes'
  BY DEF KeyTypes, redis
<1>2. RequestTypes'
  BY ReturnTypes DEF RequestTypes
<1>3. OtherTypes'
  BY <1>0 DEF OtherTypes, RequestTypes, Jobs, Submit, Calls
<1>4. NoEmptyKeys'
  BY DEF NoEmptyKeys, redis
<1> QED BY <1>1, <1>2, <1>3, <1>4

\* Get, State.Set and the end of a request.
LEMMA GetSessionTypeOK ==
    ASSUME TypeOK, NEW p \in Procs, NEW s \in Sessions, 
           GetSession(p, s)
    PROVE  TypeOK'
<1> USE TTLAssumption DEF TypeOK, GetSession
<1>1. KeyTypes'
  BY DEF KeyTypes, redis
<1>2. RequestTypes'
  BY DEF RequestTypes, KeyTypes, Handles
<1>3. OtherTypes'
  BY DEF OtherTypes, Start
<1>4. NoEmptyKeys'
  BY DEF NoEmptyKeys, redis
<1> QED BY <1>1, <1>2, <1>3, <1>4

LEMMA ReleaseTypeOK ==
    ASSUME TypeOK, NEW p \in Procs, 
           Release(p)
    PROVE  TypeOK'
<1> USE TTLAssumption DEF TypeOK, Release
<1>1. KeyTypes'
  BY DEF KeyTypes, redis
<1>2. RequestTypes'
  BY DEF RequestTypes, Handles, NoHandle
<1>3. OtherTypes'
  BY DEF OtherTypes
<1>4. NoEmptyKeys'
  BY DEF NoEmptyKeys, redis
<1> QED BY <1>1, <1>2, <1>3, <1>4

LEMMA StateSetTypeOK ==
    ASSUME TypeOK, NEW p \in Procs, NEW k \in Keys, 
           StateSet(p, k)
    PROVE  TypeOK'
<1> USE TTLAssumption DEF TypeOK, StateSet
<1>1. KeyTypes'
  BY DEF KeyTypes, RequestTypes, Handles
<1>2. RequestTypes'
  BY DEF RequestTypes, Handles
<1>3. OtherTypes'
  BY DEF OtherTypes, Start
<1>4. NoEmptyKeys'
  BY DEF NoEmptyKeys
<1> QED BY <1>1, <1>2, <1>3, <1>4

LEMMA StateSetErrorTypeOK ==
    ASSUME TypeOK, NEW p \in Procs, NEW k \in Keys, 
           StateSetError(p, k)
    PROVE  TypeOK'
<1> USE TTLAssumption DEF TypeOK, StateSetError
<1>1. KeyTypes'
  BY DEF KeyTypes, redis
<1>2. RequestTypes'
  BY DEF RequestTypes, Handles
<1>3. OtherTypes'
  BY DEF OtherTypes, Start
<1>4. NoEmptyKeys'
  BY DEF NoEmptyKeys, redis
<1> QED BY <1>1, <1>2, <1>3, <1>4

LEMMA StateSetLostTypeOK ==
    ASSUME TypeOK, NEW p \in Procs, NEW k \in Keys, 
           StateSetLost(p, k)
    PROVE  TypeOK'
<1> USE TTLAssumption DEF TypeOK, StateSetLost
<1>1. KeyTypes'
  BY DEF KeyTypes, RequestTypes, Handles
<1>2. RequestTypes'
  BY DEF RequestTypes, Handles
<1>3. OtherTypes'
  BY DEF OtherTypes, Start
<1>4. NoEmptyKeys'
  BY DEF NoEmptyKeys
<1> QED BY <1>1, <1>2, <1>3, <1>4

\* AppendEvent.
LEMMA AppendRPushTypeOK ==
    ASSUME TypeOK, NEW p \in Procs, 
           AppendRPush(p)
    PROVE  TypeOK'
<1> USE TTLAssumption DEF TypeOK, AppendRPush
<1>1. KeyTypes'
  <2>1. ops' \in Nat
    BY DEF OtherTypes, Start
  <2> QED BY <2>1 DEF KeyTypes, Touch, Expiries, NoExpiry
<1>2. RequestTypes'
  <2>1. ops' \in Nat
    BY DEF OtherTypes, Start
  <2>2. [Running("append_expire", handle[p].sid) EXCEPT !.evt = ops'] \in Jobs
    BY <2>1 DEF Running, Idle, Jobs, Labels
  <2>3. job' \in [Procs -> Jobs] /\ job'[p].sid \in Sessions
    BY <2>2 DEF RequestTypes, Running, Idle
  <2> QED BY <2>3 DEF RequestTypes
<1>3. OtherTypes'
  BY DEF OtherTypes, Start
<1>4. NoEmptyKeys'
  <2>1. ops' \in Nat
    BY DEF OtherTypes, Start
  <2>2. events'[handle[p].sid] = Append(events[handle[p].sid], ops')
    BY DEF KeyTypes
  <2>3. events'[handle[p].sid] # <<>>
    <3>1. events[handle[p].sid] \in Seq(Nat)
      BY DEF KeyTypes
    <3> QED BY <2>1, <2>2, <3>1, AppendProperties
  <2>4. evTTL'[handle[p].sid] # 0
    BY TTLAssumption DEF KeyTypes, Touch, NoExpiry, Expiries
  <2> QED BY <2>3, <2>4 DEF NoEmptyKeys, KeyTypes
<1> QED BY <1>1, <1>2, <1>3, <1>4

LEMMA AppendExpireEventsTypeOK ==
    ASSUME TypeOK, NEW p \in Procs, 
           AppendExpireEvents(p)
    PROVE  TypeOK'
<1> USE TTLAssumption DEF TypeOK, AppendExpireEvents
<1>0. job[p].sid \in Sessions
  BY DEF RequestTypes, At
<1>1. KeyTypes'
  BY <1>0 DEF KeyTypes, Expire, Expiries, NoExpiry
<1>2. RequestTypes'
  BY GotoTypes DEF At, Labels
<1>3. OtherTypes'
  BY DEF OtherTypes
<1>4. NoEmptyKeys'
  BY <1>0 DEF NoEmptyKeys, KeyTypes, Expire
<1> QED BY <1>1, <1>2, <1>3, <1>4

LEMMA AppendGetTypeOK ==
    ASSUME TypeOK, NEW p \in Procs, 
           AppendGet(p)
    PROVE  TypeOK'
<1> USE TTLAssumption DEF TypeOK, AppendGet
<1>1. KeyTypes'
  BY DEF KeyTypes, redis
<1>2. RequestTypes'
  BY GotoTypes, ReturnTypes DEF RequestTypes, At, Labels
<1>3. OtherTypes'
  BY DEF OtherTypes
<1>4. NoEmptyKeys'
  BY DEF NoEmptyKeys, redis
<1> QED BY <1>1, <1>2, <1>3, <1>4

LEMMA AppendSetTypeOK ==
    ASSUME TypeOK, NEW p \in Procs, 
           AppendSet(p)
    PROVE  TypeOK'
<1> USE TTLAssumption DEF TypeOK, AppendSet
<1>0. job[p].sid \in Sessions
  BY DEF RequestTypes, At
<1>1. KeyTypes'
  BY <1>0 DEF KeyTypes, RequestTypes, Handles
<1>2. RequestTypes'
  BY GotoTypes DEF At, Labels
<1>3. OtherTypes'
  BY DEF OtherTypes
<1>4. NoEmptyKeys'
  BY DEF NoEmptyKeys
<1> QED BY <1>1, <1>2, <1>3, <1>4

LEMMA AppendExpireIndexTypeOK ==
    ASSUME TypeOK, NEW p \in Procs, 
           AppendExpireIndex(p)
    PROVE  TypeOK'
<1> USE TTLAssumption DEF TypeOK, AppendExpireIndex
<1>1. KeyTypes'
  BY DEF KeyTypes, Expire, Expiries, NoExpiry
<1>2. RequestTypes'
  BY FinishTypes DEF At, Labels
<1>3. OtherTypes'
  BY DEF OtherTypes
<1>4. NoEmptyKeys'
  BY DEF NoEmptyKeys, Expire
<1> QED BY <1>1, <1>2, <1>3, <1>4

LEMMA AppendPersistTypeOK ==
    ASSUME TypeOK, NEW p \in Procs, 
           AppendPersist(p)
    PROVE  TypeOK'
<1> USE TTLAssumption DEF TypeOK, AppendPersist
<1>0. job[p].sid \in Sessions
  BY DEF RequestTypes, At
<1>1. KeyTypes'
  BY DEF KeyTypes, redis
<1>2. RequestTypes'
  BY ReturnTypes DEF RequestTypes
<1>3. OtherTypes'
  BY <1>0 DEF OtherTypes, RequestTypes, Jobs, Submit, Calls
<1>4. NoEmptyKeys'
  BY DEF NoEmptyKeys, redis
<1> QED BY <1>1, <1>2, <1>3, <1>4

\* Delete.
LEMMA DeleteKeyTypeOK ==
    ASSUME TypeOK, NEW p \in Procs, NEW s \in Sessions, 
           DeleteKey(p, s)
    PROVE  TypeOK'
<1> USE TTLAssumption DEF TypeOK, DeleteKey
<1>1. KeyTypes'
  BY DEF KeyTypes
<1>2. RequestTypes'
  BY DEF RequestTypes, Handles, Jobs, Running, Idle, Labels
<1>3. OtherTypes'
  BY DEF OtherTypes, Start
<1>4. NoEmptyKeys'
  BY DEF NoEmptyKeys
<1> QED BY <1>1, <1>2, <1>3, <1>4

LEMMA DeleteEventsTypeOK ==
    ASSUME TypeOK, NEW p \in Procs, 
           DeleteEvents(p)
    PROVE  TypeOK'
<1> USE TTLAssumption DEF TypeOK, DeleteEvents
<1>0. job[p].sid \in Sessions
  BY DEF RequestTypes, At
<1>1. KeyTypes'
  BY <1>0 DEF KeyTypes, Expiries, NoExpiry
<1>2. RequestTypes'
  BY GotoTypes DEF At, Labels
<1>3. OtherTypes'
  BY DEF OtherTypes
<1>4. NoEmptyKeys'
  BY DEF NoEmptyKeys, KeyTypes
<1> QED BY <1>1, <1>2, <1>3, <1>4

LEMMA DeleteSRemTypeOK ==
    ASSUME TypeOK, NEW p \in Procs, 
           DeleteSRem(p)
    PROVE  TypeOK'
<1> USE TTLAssumption DEF TypeOK, DeleteSRem
<1>1. KeyTypes'
  BY DEF KeyTypes, AfterRemoval, Expiries, NoExpiry
<1>2. RequestTypes'
  BY FinishTypes DEF At, Labels
<1>3. OtherTypes'
  BY DEF OtherTypes
<1>4. NoEmptyKeys'
  BY DEF NoEmptyKeys, AfterRemoval
<1> QED BY <1>1, <1>2, <1>3, <1>4

LEMMA DeletePersistTypeOK ==
    ASSUME TypeOK, NEW p \in Procs, 
           DeletePersist(p)
    PROVE  TypeOK'
<1> USE TTLAssumption DEF TypeOK, DeletePersist
<1>0. job[p].sid \in Sessions
  BY DEF RequestTypes, At
<1>1. KeyTypes'
  BY DEF KeyTypes, redis
<1>2. RequestTypes'
  BY ReturnTypes DEF RequestTypes
<1>3. OtherTypes'
  BY <1>0 DEF OtherTypes, RequestTypes, Jobs, Submit, Calls
<1>4. NoEmptyKeys'
  BY DEF NoEmptyKeys, redis
<1> QED BY <1>1, <1>2, <1>3, <1>4

\* List and the cleanup.
LEMMA ListSMembersTypeOK ==
    ASSUME TypeOK, NEW p \in Procs, 
           ListSMembers(p)
    PROVE  TypeOK'
<1> USE TTLAssumption DEF TypeOK, ListSMembers
<1>1. KeyTypes'
  BY DEF KeyTypes, redis
<1>2. RequestTypes'
  BY DEF RequestTypes, KeyTypes, Handles, Jobs, Idle, Labels
<1>3. OtherTypes'
  BY DEF OtherTypes, Start
<1>4. NoEmptyKeys'
  BY DEF NoEmptyKeys, redis
<1> QED BY <1>1, <1>2, <1>3, <1>4

LEMMA ListGetTypeOK ==
    ASSUME TypeOK, NEW p \in Procs, NEW s \in Sessions, 
           ListGet(p, s)
    PROVE  TypeOK'
<1> USE TTLAssumption DEF TypeOK, ListGet
<1>1. KeyTypes'
  BY DEF KeyTypes, redis
<1>2. RequestTypes'
  <2> DEFINE stale == IF Live(s) THEN job[p].stale ELSE job[p].stale \cup {s}
             next == [job[p] EXCEPT !.todo = @ \ {s}, !.stale = stale]
  <2>1. job[p] \in Jobs
    BY DEF RequestTypes
  <2>2. next \in Jobs /\ next.pc = "list_get"
    BY <2>1 DEF Jobs, At
  <2>3. job' = [job EXCEPT ![p] = next]
    OBVIOUS
  <2> HIDE DEF next
  <2> QED BY <2>2, <2>3 DEF RequestTypes
<1>3. OtherTypes'
  BY DEF OtherTypes
<1>4. NoEmptyKeys'
  BY DEF NoEmptyKeys, redis
<1> QED BY <1>1, <1>2, <1>3, <1>4

LEMMA ListReturnTypeOK ==
    ASSUME TypeOK, NEW p \in Procs, 
           ListReturn(p)
    PROVE  TypeOK'
<1> USE TTLAssumption DEF TypeOK, ListReturn
<1>1. KeyTypes'
  BY DEF KeyTypes, redis
<1>2. RequestTypes'
  BY ReturnTypes DEF RequestTypes
<1>3. OtherTypes'
  BY DEF OtherTypes, RequestTypes, Jobs
<1>4. NoEmptyKeys'
  BY DEF NoEmptyKeys, redis
<1> QED BY <1>1, <1>2, <1>3, <1>4

LEMMA CleanStaleTypeOK ==
    ASSUME TypeOK, NEW ids \in SUBSET Sessions, 
           CleanStale(ids)
    PROVE  TypeOK'
<1> USE TTLAssumption DEF TypeOK, CleanStale
<1>1. KeyTypes'
  BY DEF KeyTypes, AfterRemoval, Expiries, NoExpiry
<1>2. RequestTypes'
  BY DEF RequestTypes
<1>3. OtherTypes'
  BY DEF OtherTypes
<1>4. NoEmptyKeys'
  BY DEF NoEmptyKeys, AfterRemoval
<1> QED BY <1>1, <1>2, <1>3, <1>4

\* Failing calls and the clock.
LEMMA FailTypeOK ==
    ASSUME TypeOK, NEW p \in Procs, 
           Fail(p)
    PROVE  TypeOK'
<1> USE TTLAssumption DEF TypeOK, Fail
<1>1. KeyTypes'
  BY DEF KeyTypes, redis
<1>2. RequestTypes'
  BY ReturnTypes DEF RequestTypes, Handles, NoHandle
<1>3. OtherTypes'
  BY DEF OtherTypes, RequestTypes, At
<1>4. NoEmptyKeys'
  BY DEF NoEmptyKeys, redis
<1> QED BY <1>1, <1>2, <1>3, <1>4

LEMMA SkipExpireTypeOK ==
    ASSUME TypeOK, NEW p \in Procs, 
           SkipExpire(p)
    PROVE  TypeOK'
<1> USE TTLAssumption DEF TypeOK, SkipExpire
<1>1. KeyTypes'
  BY DEF KeyTypes, redis
<1>2. RequestTypes'
  BY FinishTypes, GotoTypes DEF At, Labels
<1>3. OtherTypes'
  BY DEF OtherTypes
<1>4. NoEmptyKeys'
  BY DEF NoEmptyKeys, redis
<1> QED BY <1>1, <1>2, <1>3, <1>4

LEMMA CleanFailsTypeOK ==
    ASSUME TypeOK, NEW ids \in SUBSET Sessions, 
           CleanFails(ids)
    PROVE  TypeOK'
<1> USE TTLAssumption DEF TypeOK, CleanFails
<1>1. KeyTypes'
  BY DEF KeyTypes, redis
<1>2. RequestTypes'
  BY DEF RequestTypes
<1>3. OtherTypes'
  BY DEF OtherTypes
<1>4. NoEmptyKeys'
  BY DEF NoEmptyKeys, redis
<1> QED BY <1>1, <1>2, <1>3, <1>4

LEMMA TickTypeOK ==
    ASSUME TypeOK, 
           Tick
    PROVE  TypeOK'
<1> USE TTLAssumption DEF TypeOK, Tick
<1>1. KeyTypes'
  BY DEF KeyTypes, Age, Expiries, NoExpiry
<1>2. RequestTypes'
  BY DEF RequestTypes
<1>3. OtherTypes'
  BY DEF OtherTypes
<1>4. NoEmptyKeys'
  BY DEF NoEmptyKeys, KeyTypes, Age, Expiries, NoExpiry
<1> QED BY <1>1, <1>2, <1>3, <1>4

\* Every step keeps the types.
LEMMA NextTypeOK == TypeOK /\ [Next]_vars => TypeOK'
<1> SUFFICES ASSUME TypeOK, [Next]_vars PROVE TypeOK'
  OBVIOUS
<1>1. CASE UNCHANGED vars
  BY <1>1 DEF vars, TypeOK, KeyTypes, RequestTypes, OtherTypes, NoEmptyKeys
<1>2. ASSUME NEW p \in Procs, Request(p) PROVE TypeOK'
  BY <1>2, CreateSetTypeOK, GetSessionTypeOK, StateSetTypeOK,
     StateSetErrorTypeOK, StateSetLostTypeOK, AppendRPushTypeOK,
     DeleteKeyTypeOK, ListSMembersTypeOK, ReleaseTypeOK DEF Request
<1>3. ASSUME NEW p \in Procs, Continue(p) PROVE TypeOK'
  BY <1>3, CreateSAddTypeOK, CreateExpireTypeOK, CreatePersistTypeOK,
     AppendExpireEventsTypeOK, AppendGetTypeOK, AppendSetTypeOK,
     AppendExpireIndexTypeOK, AppendPersistTypeOK, DeleteEventsTypeOK,
     DeleteSRemTypeOK, DeletePersistTypeOK, ListGetTypeOK, ListReturnTypeOK
     DEF Continue
<1> QED
  BY <1>1, <1>2, <1>3, FailTypeOK, SkipExpireTypeOK, CleanStaleTypeOK,
     CleanFailsTypeOK, TickTypeOK DEF Next

\* The types hold throughout, and a Redis key is absent exactly when it holds
\* nothing.
THEOREM TypeCorrect == Spec => []TypeOK
BY InitTypeOK, NextTypeOK, PTL DEF Spec

-----------------------------------------------------------------------------
(* The index outlives the sessions it lists.  Once the types are known the  *)
(* property is inductive: an operation that lengthens the life of a session *)
(* is Refreshing it until it has lengthened the life of the index.          *)

RefreshLabels == {"create_sadd", "create_expire", "append_index"}

\* A request that is not refreshing takes nothing from those that are.
LEMMA StillRefreshing ==
    ASSUME TypeOK, NEW p \in Procs, NEW s \in Sessions, NEW t,
           job' = [job EXCEPT ![p] = t],
           job[p].pc \notin RefreshLabels \/ job[p].sid # s,
           Refreshing(s)
    PROVE  Refreshing(s)'
<1>1. PICK q \in Procs : job[q].sid = s /\ job[q].pc \in RefreshLabels
  BY DEF Refreshing, RefreshLabels
<1>2. q # p
  BY <1>1
<1>3. job'[q] = job[q]
  BY <1>2 DEF TypeOK, RequestTypes
<1> QED BY <1>1, <1>3 DEF Refreshing, RefreshLabels

\* A step that leaves the session keys and the index alone, and is not one
\* that ends a refresh.
LEMMA IndexUndisturbed ==
    ASSUME TypeOK, IndexOutlivesListed, NEW p \in Procs, NEW t,
           UNCHANGED <<sessTTL, index, idxTTL>>,
           job' = [job EXCEPT ![p] = t],
           job[p].pc \notin RefreshLabels
    PROVE  IndexOutlivesListed'
<1> SUFFICES ASSUME NEW s \in index'
             PROVE  sessTTL'[s] <= idxTTL' \/ Refreshing(s)'
  BY DEF IndexOutlivesListed
<1>1. s \in index /\ s \in Sessions
  BY DEF TypeOK, KeyTypes
<1>2. CASE sessTTL[s] <= idxTTL
  BY <1>2
<1>3. CASE Refreshing(s)
  BY <1>1, <1>3, StillRefreshing
<1> QED BY <1>1, <1>2, <1>3 DEF IndexOutlivesListed

\* A step that writes the session key of s and leaves its request refreshing.
LEMMA RefreshBegins ==
    ASSUME TypeOK, IndexOutlivesListed, NEW p \in Procs, NEW s \in Sessions,
           NEW t, t.sid = s, t.pc \in RefreshLabels,
           sessTTL' = [sessTTL EXCEPT ![s] = TTL],
           UNCHANGED <<index, idxTTL>>,
           job' = [job EXCEPT ![p] = t],
           job[p].pc \notin RefreshLabels
    PROVE  IndexOutlivesListed'
<1> SUFFICES ASSUME NEW r \in index'
             PROVE  sessTTL'[r] <= idxTTL' \/ Refreshing(r)'
  BY DEF IndexOutlivesListed
<1>1. r \in index /\ r \in Sessions
  BY DEF TypeOK, KeyTypes
<1>2. CASE r = s
  BY <1>2 DEF Refreshing, RefreshLabels, TypeOK, RequestTypes
<1>3. CASE r # s
  <2>1. sessTTL'[r] = sessTTL[r]
    BY <1>3, <1>1 DEF TypeOK, KeyTypes
  <2>2. CASE sessTTL[r] <= idxTTL
    BY <2>1, <2>2
  <2>3. CASE Refreshing(r)
    BY <1>1, <2>3, StillRefreshing
  <2> QED BY <1>1, <2>2, <2>3 DEF IndexOutlivesListed
<1> QED BY <1>2, <1>3

\* A step that gives the index its full life again.
LEMMA RefreshEnds ==
    ASSUME TypeOK, idxTTL' = Expire(idxTTL), UNCHANGED <<sessTTL, index>>
    PROVE  IndexOutlivesListed'
<1> SUFFICES ASSUME NEW s \in index'
             PROVE  sessTTL'[s] <= idxTTL'
  BY DEF IndexOutlivesListed
<1>1. s \in index /\ s \in Sessions
  BY DEF TypeOK, KeyTypes
<1>2. idxTTL' = TTL
  BY <1>1 DEF TypeOK, NoEmptyKeys, Expire
<1> QED BY <1>1, <1>2, TTLAssumption DEF TypeOK, KeyTypes

\* A step that takes IDs from the index.
LEMMA IndexShrinks ==
    ASSUME TypeOK, IndexOutlivesListed, index' \subseteq index,
           idxTTL' = AfterRemoval(index'), UNCHANGED sessTTL,
           \A s \in Sessions : Refreshing(s) => Refreshing(s)'
    PROVE  IndexOutlivesListed'
BY DEF IndexOutlivesListed, AfterRemoval, TypeOK, KeyTypes

\* The first step of an operation.
LEMMA RequestKeepsIndex ==
    ASSUME TypeOK, IndexOutlivesListed, "set" \notin Kinds,
           NEW p \in Procs, Request(p)
    PROVE  IndexOutlivesListed'
<1>0. Start(p, "create") \/ Start(p, "append") \/ Start(p, "delete")
      \/ Start(p, "list") => job[p].pc \notin RefreshLabels
  BY DEF Start, Idle, RefreshLabels
<1>1. ASSUME NEW s \in Sessions, NEW init \in SUBSET Keys, CreateSet(p, s, init)
      PROVE  IndexOutlivesListed'
  <2>1. /\ Running("create_sadd", s).sid = s
        /\ Running("create_sadd", s).pc \in RefreshLabels
    BY DEF Running, Idle, RefreshLabels
  <2> QED BY <1>0, <1>1, <2>1, RefreshBegins DEF CreateSet
<1>2. ASSUME NEW s \in Sessions, GetSession(p, s)
      PROVE  IndexOutlivesListed'
  BY <1>2 DEF GetSession, redis, IndexOutlivesListed, Refreshing
<1>3. ASSUME NEW k \in Keys,
             StateSet(p, k) \/ StateSetError(p, k) \/ StateSetLost(p, k)
      PROVE  IndexOutlivesListed'
  BY <1>3 DEF StateSet, StateSetError, StateSetLost, Start
<1>4. CASE AppendRPush(p)
  BY <1>0, <1>4, IndexUndisturbed DEF AppendRPush
<1>5. ASSUME NEW s \in Sessions, DeleteKey(p, s)
      PROVE  IndexOutlivesListed'
  <2> SUFFICES ASSUME NEW r \in index'
               PROVE  sessTTL'[r] <= idxTTL' \/ Refreshing(r)'
    BY DEF IndexOutlivesListed
  <2>1. r \in index /\ r \in Sessions /\ idxTTL' = idxTTL /\ idxTTL \in Nat
    BY <1>5, TTLAssumption DEF DeleteKey, TypeOK, KeyTypes, Expiries, NoExpiry
  <2>2. CASE sessTTL[r] <= idxTTL
    BY <1>5, <2>1, <2>2 DEF DeleteKey, TypeOK, KeyTypes
  <2>3. CASE Refreshing(r)
    BY <1>0, <1>5, <2>1, <2>3, StillRefreshing DEF DeleteKey
  <2> QED BY <2>1, <2>2, <2>3 DEF IndexOutlivesListed
<1>6. CASE ListSMembers(p)
  BY <1>0, <1>6, IndexUndisturbed DEF ListSMembers, redis
<1>7. CASE Release(p)
  BY <1>7 DEF Release, redis, IndexOutlivesListed, Refreshing
<1> QED BY <1>1, <1>2, <1>3, <1>4, <1>5, <1>6, <1>7 DEF Request

\* The later steps of an operation.
LEMMA ContinueKeepsIndex ==
    ASSUME TypeOK, IndexOutlivesListed, NEW p \in Procs, Continue(p)
    PROVE  IndexOutlivesListed'
<1>1. CASE CreateSAdd(p)
  <2> SUFFICES ASSUME NEW s \in index'
               PROVE  sessTTL'[s] <= idxTTL' \/ Refreshing(s)'
    BY DEF IndexOutlivesListed
  <2>1. s \in Sessions
    BY <1>1 DEF CreateSAdd, At, TypeOK, KeyTypes, RequestTypes
  <2>2. job'[p].sid = job[p].sid /\ job'[p].pc = "create_expire"
    BY <1>1 DEF CreateSAdd, Goto, TypeOK, RequestTypes, Jobs
  <2>3. CASE s = job[p].sid
    BY <2>2, <2>3 DEF Refreshing
  <2>4. CASE s # job[p].sid
    <3>1. s \in index /\ sessTTL' = sessTTL
      BY <1>1, <2>4 DEF CreateSAdd
    <3>2. idxTTL' = idxTTL
      BY <1>1, <3>1 DEF CreateSAdd, Touch, TypeOK, NoEmptyKeys
    <3>3. CASE Refreshing(s)
      BY <1>1, <2>1, <2>4, <3>3, StillRefreshing DEF CreateSAdd, Goto
    <3> QED BY <3>1, <3>2, <3>3 DEF IndexOutlivesListed
  <2> QED BY <2>3, <2>4
<1>2. CASE CreateExpire(p)
  BY <1>2, RefreshEnds DEF CreateExpire
<1>3. CASE CreatePersist(p)
  BY <1>3, IndexUndisturbed DEF CreatePersist, Return, At, redis, RefreshLabels
<1>4. CASE AppendExpireEvents(p)
  BY <1>4, IndexUndisturbed DEF AppendExpireEvents, Goto, At, RefreshLabels
<1>5. CASE AppendGet(p)
  BY <1>5, IndexUndisturbed DEF AppendGet, Goto, Return, At, redis, RefreshLabels
<1>6. CASE AppendSet(p)
  <2> DEFINE t == [job[p] EXCEPT !.pc = "append_index"]
  <2>1. t.sid = job[p].sid /\ t.pc \in RefreshLabels /\ job[p].sid \in Sessions
    BY <1>6 DEF AppendSet, At, RefreshLabels, TypeOK, RequestTypes, Jobs
  <2>2. job' = [job EXCEPT ![p] = t] /\ job[p].pc \notin RefreshLabels
    BY <1>6 DEF AppendSet, At, Goto, RefreshLabels
  <2> HIDE DEF t
  <2> QED BY <1>6, <2>1, <2>2, RefreshBegins DEF AppendSet
<1>7. CASE AppendExpireIndex(p)
  BY <1>7, RefreshEnds DEF AppendExpireIndex
<1>8. CASE AppendPersist(p)
  BY <1>8, IndexUndisturbed DEF AppendPersist, Return, At, redis, RefreshLabels
<1>9. CASE DeleteEvents(p)
  BY <1>9, IndexUndisturbed DEF DeleteEvents, Goto, At, RefreshLabels
<1>10. CASE DeleteSRem(p)
  <2>1. \A s \in Sessions : Refreshing(s) => Refreshing(s)'
    BY <1>10, StillRefreshing
       DEF DeleteSRem, Finish, Goto, Return, At, RefreshLabels
  <2> QED BY <1>10, <2>1, IndexShrinks DEF DeleteSRem
<1>11. CASE DeletePersist(p)
  BY <1>11, IndexUndisturbed DEF DeletePersist, Return, At, redis, RefreshLabels
<1>12. ASSUME NEW s \in Sessions, ListGet(p, s)
       PROVE  IndexOutlivesListed'
  <2> DEFINE t == [job[p] EXCEPT
                     !.todo = @ \ {s},
                     !.stale = IF Live(s) THEN @ ELSE @ \cup {s}]
  <2>1. job' = [job EXCEPT ![p] = t]
    BY <1>12 DEF ListGet
  <2> HIDE DEF t
  <2> QED BY <1>12, <2>1, IndexUndisturbed DEF ListGet, At, redis, RefreshLabels
<1>13. CASE ListReturn(p)
  BY <1>13, IndexUndisturbed DEF ListReturn, Return, At, redis, RefreshLabels
<1> QED BY <1>1, <1>2, <1>3, <1>4, <1>5, <1>6, <1>7, <1>8, <1>9, <1>10, <1>11,
           <1>12, <1>13 DEF Continue

\* The clock ages the index and what it lists together.
LEMMA TickKeepsIndex ==
    ASSUME TypeOK, IndexOutlivesListed, Tick
    PROVE  IndexOutlivesListed'
<1> SUFFICES ASSUME NEW s \in index'
             PROVE  sessTTL'[s] <= idxTTL' \/ Refreshing(s)'
  BY DEF IndexOutlivesListed
<1>1. s \in index /\ s \in Sessions /\ idxTTL' # 0
  BY DEF Tick, TypeOK, KeyTypes
<1>2. CASE Refreshing(s)
  BY <1>2 DEF Tick, Refreshing
<1>3. CASE sessTTL[s] <= idxTTL
  <2>1. sessTTL'[s] = Age(sessTTL[s]) /\ idxTTL' = Age(idxTTL)
    BY <1>1 DEF Tick
  <2>2. sessTTL[s] \in 0 .. TTL /\ idxTTL \in 0 .. TTL + 1
    BY <1>1 DEF TypeOK, KeyTypes, Expiries, NoExpiry
  <2> QED BY <1>3, <2>1, <2>2, TTLAssumption DEF Age
<1> QED BY <1>1, <1>2, <1>3 DEF IndexOutlivesListed

\* Every step of a service whose Redis calls succeed and whose session states
\* are not written between events keeps the index ahead of its sessions.
LEMMA NextKeepsIndex ==
    ASSUME "set" \notin Kinds, Faulty = FALSE,
           TypeOK, IndexOutlivesListed, [Next]_vars
    PROVE  IndexOutlivesListed'
<1>1. CASE UNCHANGED vars
  BY <1>1 DEF vars, IndexOutlivesListed, Refreshing
<1>2. ASSUME NEW ids \in SUBSET Sessions, CleanStale(ids)
      PROVE  IndexOutlivesListed'
  <2>1. \A s \in Sessions : Refreshing(s) => Refreshing(s)'
    BY <1>2 DEF CleanStale, Refreshing
  <2> QED BY <1>2, <2>1, IndexShrinks DEF CleanStale
<1>3. ASSUME NEW p \in Procs, Fail(p) \/ SkipExpire(p)
      PROVE  FALSE
  BY <1>3 DEF Fail, SkipExpire
<1>4. ASSUME NEW ids \in SUBSET Sessions, CleanFails(ids)
      PROVE  FALSE
  BY <1>4 DEF CleanFails
<1> QED BY <1>1, <1>2, <1>3, <1>4, RequestKeepsIndex, ContinueKeepsIndex,
           TickKeepsIndex DEF Next

\* Without failing calls and without State.Set, whatever Create, Append,
\* Delete, List, the cleanup and the clock do, the index expires no earlier
\* than the sessions it lists, except for one whose operation is between its
\* SET and its EXPIRE.
THEOREM IndexAlignment ==
    ASSUME "set" \notin Kinds, Faulty = FALSE
    PROVE  Spec => []IndexOutlivesListed
<1>1. Init => IndexOutlivesListed
  BY DEF Init, IndexOutlivesListed
<1>2. TypeOK /\ IndexOutlivesListed /\ [Next]_vars => IndexOutlivesListed'
  BY NextKeepsIndex
<1> QED BY <1>1, <1>2, TypeCorrect, PTL DEF Spec

-----------------------------------------------------------------------------
(* Who may bring a session back. *)

\* The steps of an AppendEvent.
AppendLabels == {"append_expire", "append_get", "append_set", "append_index",
                 "append_persist"}

\* Nobody is appending.
NoAppend == \A p \in Procs : job[p].pc \notin AppendLabels

\* Moving on to a step that is not one of AppendEvent's.
LEMMA GotoNoAppend ==
    ASSUME TypeOK, NoAppend, NEW p \in Procs, NEW pc, pc \notin AppendLabels,
           Goto(p, pc)
    PROVE  NoAppend'
BY DEF NoAppend, Goto, TypeOK, RequestTypes, Jobs

LEMMA ReturnNoAppend ==
    ASSUME TypeOK, NoAppend, NEW p \in Procs, Return(p)
    PROVE  NoAppend'
BY DEF NoAppend, Return, Idle, AppendLabels, TypeOK, RequestTypes

LEMMA RequestNoAppend ==
    ASSUME "append" \notin Kinds, TypeOK, NoAppend, NEW p \in Procs, Request(p)
    PROVE  NoAppend'
<1> USE DEF NoAppend, AppendLabels
<1>1. ASSUME NEW s \in Sessions, NEW init \in SUBSET Keys, CreateSet(p, s, init)
      PROVE  NoAppend'
  BY <1>1 DEF CreateSet, Running, Idle, TypeOK, RequestTypes
<1>2. ASSUME NEW s \in Sessions, DeleteKey(p, s)
      PROVE  NoAppend'
  BY <1>2 DEF DeleteKey, Running, Idle, TypeOK, RequestTypes
<1>3. CASE ListSMembers(p)
  BY <1>3 DEF ListSMembers, Idle, TypeOK, RequestTypes
<1>4. CASE AppendRPush(p)
  BY <1>4 DEF AppendRPush, Start
<1> QED BY <1>1, <1>2, <1>3, <1>4 DEF Request, GetSession, StateSet,
           StateSetError, StateSetLost, Release

LEMMA ContinueNoAppend ==
    ASSUME TypeOK, NoAppend, NEW p \in Procs, Continue(p)
    PROVE  NoAppend'
<1>1. CASE CreateSAdd(p) \/ CreateExpire(p) \/ CreatePersist(p)
  BY <1>1, GotoNoAppend, ReturnNoAppend
     DEF CreateSAdd, CreateExpire, CreatePersist, Finish, AppendLabels
<1>2. CASE \/ AppendExpireEvents(p) \/ AppendGet(p) \/ AppendSet(p)
           \/ AppendExpireIndex(p) \/ AppendPersist(p)
  BY <1>2 DEF AppendExpireEvents, AppendGet, AppendSet, AppendExpireIndex,
     AppendPersist, At, NoAppend, AppendLabels
<1>3. CASE DeleteEvents(p) \/ DeleteSRem(p) \/ DeletePersist(p)
  BY <1>3, GotoNoAppend, ReturnNoAppend
     DEF DeleteEvents, DeleteSRem, DeletePersist, Finish, AppendLabels
<1>4. ASSUME NEW s \in Sessions, ListGet(p, s)
      PROVE  NoAppend'
  <2>1. \A q \in Procs : job'[q].pc = job[q].pc
    BY <1>4 DEF ListGet, TypeOK, RequestTypes, Jobs
  <2> QED BY <2>1 DEF NoAppend
<1>5. CASE ListReturn(p)
  BY <1>5, ReturnNoAppend DEF ListReturn
<1> QED BY <1>1, <1>2, <1>3, <1>4, <1>5 DEF Continue

LEMMA NextNoAppend ==
    ASSUME "append" \notin Kinds, TypeOK, NoAppend, [Next]_vars
    PROVE  NoAppend'
<1>1. CASE UNCHANGED vars
  BY <1>1 DEF vars, NoAppend
<1>2. ASSUME NEW p \in Procs, Fail(p) \/ SkipExpire(p) PROVE NoAppend'
  <2>1. CASE Fail(p)
    BY <2>1, ReturnNoAppend DEF Fail
  <2>2. CASE SkipExpire(p)
    BY <2>2, GotoNoAppend, ReturnNoAppend
       DEF SkipExpire, At, Finish, NoAppend, AppendLabels
  <2> QED BY <1>2, <2>1, <2>2
<1>3. ASSUME NEW ids \in SUBSET Sessions, CleanStale(ids) \/ CleanFails(ids)
      PROVE  NoAppend'
  BY <1>3 DEF CleanStale, CleanFails, NoAppend
<1>4. CASE Tick
  BY <1>4 DEF Tick, NoAppend
<1> QED BY <1>1, <1>2, <1>3, <1>4, RequestNoAppend, ContinueNoAppend DEF Next

\* An append about to store the session does so to one that is there.
AppendsLive == \A p \in Procs : At(p, "append_set") => Live(job[p].sid)

\* Only Delete and the clock take a session away.
LEMMA LiveStays ==
    ASSUME TypeOK, [Next]_vars, ~Tick, NEW s \in Sessions, Live(s),
           \A p \in Procs : ~DeleteKey(p, s)
    PROVE  Live(s)'
<1> USE TTLAssumption DEF Live, TypeOK, KeyTypes
<1>1. ASSUME NEW p \in Procs, Request(p)
      PROVE  Live(s)'
  <2>1. ASSUME NEW r \in Sessions, DeleteKey(p, r)
        PROVE  Live(s)'
    BY <2>1 DEF DeleteKey
  <2>2. ASSUME NEW r \in Sessions, NEW init \in SUBSET Keys, CreateSet(p, r, init)
        PROVE  Live(s)'
    BY <2>2 DEF CreateSet
  <2>3. ASSUME NEW k \in Keys, StateSet(p, k) \/ StateSetLost(p, k)
        PROVE  Live(s)'
    <3>1. sessTTL' = [sessTTL EXCEPT ![handle[p].sid] = TTL]
      BY <2>3 DEF StateSet, StateSetLost
    <3> QED BY <3>1
  <2> QED BY <1>1, <2>1, <2>2, <2>3 DEF Request, GetSession, StateSetError,
             AppendRPush, ListSMembers, Release, redis
<1>2. ASSUME NEW p \in Procs, Continue(p)
      PROVE  Live(s)'
  <2>1. CASE AppendSet(p)
    BY <2>1 DEF AppendSet
  <2> QED BY <1>2, <2>1 DEF Continue, CreateSAdd, CreateExpire, CreatePersist,
             AppendExpireEvents, AppendGet, AppendExpireIndex, AppendPersist,
             DeleteEvents, DeleteSRem, DeletePersist, ListGet, ListReturn, redis
<1>3. ASSUME NEW p \in Procs, Fail(p) \/ SkipExpire(p)
      PROVE  Live(s)'
  BY <1>3 DEF Fail, SkipExpire, redis
<1>4. ASSUME NEW ids \in SUBSET Sessions, CleanStale(ids) \/ CleanFails(ids)
      PROVE  Live(s)'
  BY <1>4 DEF CleanStale, CleanFails, redis
<1>5. CASE UNCHANGED vars
  BY <1>5 DEF vars
<1> QED BY <1>1, <1>2, <1>3, <1>4, <1>5 DEF Next

\* An operation gets to the SET of AppendEvent only by finding its session.
LEMMA StoresWhatItFound ==
    ASSUME TypeOK, [Next]_vars, NEW q \in Procs, job'[q].pc = "append_set"
    PROVE  /\ job'[q].sid = job[q].sid
           /\ job[q].sid \in Sessions
           /\ At(q, "append_set") \/ Live(job[q].sid)
<1> USE DEF At, TypeOK, RequestTypes
<1>1. ASSUME NEW p \in Procs, Request(p)
      PROVE  job'[q] = job[q]
  <2>1. ASSUME NEW t, job' = [job EXCEPT ![p] = t], t.pc # "append_set"
        PROVE  job'[q] = job[q]
    BY <2>1
  <2>2. ASSUME NEW s \in Sessions, NEW init \in SUBSET Keys, CreateSet(p, s, init)
        PROVE  job'[q] = job[q]
    BY <2>1, <2>2 DEF CreateSet, Running, Idle
  <2>3. ASSUME NEW s \in Sessions, DeleteKey(p, s)
        PROVE  job'[q] = job[q]
    BY <2>1, <2>3 DEF DeleteKey, Running, Idle
  <2>4. CASE ListSMembers(p)
    BY <2>1, <2>4 DEF ListSMembers, Idle
  <2>5. CASE AppendRPush(p)
    BY <2>1, <2>5 DEF AppendRPush, Running, Idle
  <2> QED BY <1>1, <2>2, <2>3, <2>4, <2>5 DEF Request, GetSession, StateSet,
             StateSetError, StateSetLost, Release
<1>2. ASSUME NEW p \in Procs, NEW pc, Goto(p, pc), pc # "append_set"
      PROVE  job'[q] = job[q]
  BY <1>2 DEF Goto, Jobs
<1>3. ASSUME NEW p \in Procs, Return(p)
      PROVE  job'[q] = job[q]
  BY <1>3 DEF Return, Idle
<1>4. ASSUME NEW p \in Procs, Continue(p)
      PROVE  \/ job'[q] = job[q]
             \/ /\ job'[q].sid = job[q].sid
                /\ job[q].sid \in Sessions
                /\ Live(job[q].sid)
  <2>1. CASE AppendGet(p)
    BY <2>1, <1>3 DEF AppendGet, Goto, Jobs
  <2>2. ASSUME NEW s \in Sessions, ListGet(p, s)
        PROVE  job'[q] = job[q]
    BY <2>2 DEF ListGet, Jobs
  <2>3. CASE \/ CreateSAdd(p) \/ CreateExpire(p) \/ CreatePersist(p)
             \/ AppendExpireEvents(p) \/ AppendSet(p) \/ AppendExpireIndex(p)
             \/ AppendPersist(p) \/ ListReturn(p)
    BY <2>3, <1>2, <1>3 DEF CreateSAdd, CreateExpire, CreatePersist,
       AppendExpireEvents, AppendSet, AppendExpireIndex, AppendPersist,
       ListReturn, Finish
  <2>4. CASE DeleteEvents(p) \/ DeleteSRem(p) \/ DeletePersist(p)
    BY <2>4, <1>2, <1>3 DEF DeleteEvents, DeleteSRem, DeletePersist, Finish
  <2> QED BY <1>4, <2>1, <2>2, <2>3, <2>4 DEF Continue
<1>5. ASSUME NEW p \in Procs, Fail(p) \/ SkipExpire(p)
      PROVE  job'[q] = job[q]
  BY <1>5, <1>2, <1>3 DEF Fail, SkipExpire, Finish
<1>6. ASSUME NEW ids \in SUBSET Sessions, CleanStale(ids) \/ CleanFails(ids)
      PROVE  job'[q] = job[q]
  BY <1>6 DEF CleanStale, CleanFails
<1>7. CASE Tick
  BY <1>7 DEF Tick
<1>8. CASE UNCHANGED vars
  BY <1>8 DEF vars
<1> QED BY <1>1, <1>4, <1>5, <1>6, <1>7, <1>8 DEF Next

LEMMA NextAppendsLive ==
    ASSUME QuietClock, "delete" \notin Kinds \/ Leased,
           TypeOK, AppendsLive, [Next]_vars
    PROVE  AppendsLive'
<1> SUFFICES ASSUME NEW q \in Procs, job'[q].pc = "append_set"
             PROVE  sessTTL'[job'[q].sid] > 0
  BY DEF AppendsLive, At, Live
<1>1. job'[q].sid = job[q].sid /\ job[q].sid \in Sessions /\ Live(job[q].sid)
  BY StoresWhatItFound DEF AppendsLive
<1>2. job[q] # Idle
  BY <1>1, NoSessionAssumption DEF Idle
<1>3. ~Tick
  BY <1>2 DEF Tick
<1>4. ASSUME NEW p \in Procs, DeleteKey(p, job[q].sid)
      PROVE  FALSE
  BY <1>2, <1>4 DEF DeleteKey, Start, MayUse
<1> QED BY <1>1, <1>3, <1>4, LiveStays DEF Live

\* The step that Create begins with.
Creates(s) == \E p \in Procs : /\ job'[p].pc = "create_sadd"
                               /\ job'[p].sid = s
                               /\ job[p] = Idle

LEMMA NextRevives ==
    ASSUME TypeOK, AppendsLive, [Next]_vars, NEW s \in Sessions, ~Live(s), Live(s)'
    PROVE  Creates(s)
<1>1. sessTTL'[s] # sessTTL[s] /\ sessTTL[s] = 0
  BY DEF Live, TypeOK, KeyTypes
<1>2. ASSUME NEW p \in Procs, NEW r \in Sessions, NEW init \in SUBSET Keys,
             CreateSet(p, r, init)
      PROVE  Creates(s)
  <2>1. r = s
    BY <1>1, <1>2 DEF CreateSet, TypeOK, KeyTypes
  <2> QED BY <1>2, <2>1
          DEF CreateSet, Start, Running, Idle, Creates, TypeOK, RequestTypes
<1>3. ASSUME NEW p \in Procs, NEW k \in Keys, StateSet(p, k) \/ StateSetLost(p, k)
      PROVE  FALSE
  BY <1>1, <1>3 DEF StateSet, StateSetLost, Live, TypeOK, KeyTypes
<1>4. ASSUME NEW p \in Procs, NEW r \in Sessions, DeleteKey(p, r)
      PROVE  FALSE
  BY <1>1, <1>4 DEF DeleteKey, TypeOK, KeyTypes
<1>5. ASSUME NEW p \in Procs, Request(p)
      PROVE  Creates(s)
  BY <1>1, <1>2, <1>3, <1>4, <1>5 DEF Request, GetSession, StateSetError,
     AppendRPush, ListSMembers, Release, redis
<1>6. ASSUME NEW p \in Procs, Continue(p)
      PROVE  FALSE
  <2>1. CASE AppendSet(p)
    BY <1>1, <2>1 DEF AppendSet, AppendsLive, Live, TypeOK, KeyTypes
  <2> QED BY <1>1, <1>6, <2>1 DEF Continue, CreateSAdd, CreateExpire,
             CreatePersist, AppendExpireEvents, AppendGet, AppendExpireIndex,
             AppendPersist, DeleteEvents, DeleteSRem, DeletePersist, ListGet,
             ListReturn, redis
<1>7. ASSUME NEW p \in Procs, Fail(p) \/ SkipExpire(p)
      PROVE  FALSE
  BY <1>1, <1>7 DEF Fail, SkipExpire, redis
<1>8. ASSUME NEW ids \in SUBSET Sessions, CleanStale(ids) \/ CleanFails(ids)
      PROVE  FALSE
  BY <1>1, <1>8 DEF CleanStale, CleanFails, redis
<1>9. CASE Tick
  BY <1>1, <1>9 DEF Tick, Age
<1>10. CASE UNCHANGED vars
  BY <1>1, <1>10 DEF vars
<1> QED BY <1>5, <1>6, <1>7, <1>8, <1>9, <1>10 DEF Next

\* A session that was deleted or has expired comes back only by a Create, even
\* if Redis calls fail: State.Set cannot bring it back, and AppendEvent cannot
\* where nothing takes a session away between its GET and its SET: no expiry,
\* and no Delete, or only of sessions that no request is using.
THEOREM NoRevival ==
    ASSUME \/ "append" \notin Kinds
           \/ QuietClock /\ ("delete" \notin Kinds \/ Leased)
    PROVE  Spec => OnlyCreateRevives
<1> DEFINE Found == AppendsLive /\ ("append" \notin Kinds => NoAppend)
<1>1. Init => Found
  BY DEF Init, NoAppend, AppendsLive, At, AppendLabels, Idle
<1>2. TypeOK /\ Found /\ [Next]_vars => Found'
  <2> SUFFICES ASSUME TypeOK, Found, [Next]_vars PROVE Found'
    OBVIOUS
  <2>1. CASE "append" \notin Kinds
    BY <2>1, NextNoAppend DEF NoAppend, AppendsLive, At, AppendLabels
  <2>2. CASE "append" \in Kinds
    BY <2>2, NextAppendsLive
  <2> QED BY <2>1, <2>2
<1>3. TypeOK /\ Found /\ [Next]_vars =>
        [\A s \in Sessions : ~Live(s) /\ Live(s)' =>
            \E p \in Procs : job'[p].pc = "create_sadd" /\ job'[p].sid = s
                             /\ job[p] = Idle]_vars
  BY NextRevives DEF Creates
<1> QED BY <1>1, <1>2, <1>3, TypeCorrect, PTL DEF Spec, OnlyCreateRevives
=============================================================================
