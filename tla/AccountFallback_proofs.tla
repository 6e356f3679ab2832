----------------------- MODULE AccountFallback_proofs -----------------------
(***************************************************************************)
(* Proofs about AccountFallback for every set of requests and connections,  *)
(* every error table entry and every setting of the durations.              *)
(***************************************************************************)
EXTENDS AccountFallback, TLAPS

Cooling == [fallback : BOOLEAN, cooldown : Nat, level : 0 .. BACKOFF_MAX_LEVEL]

-----------------------------------------------------------------------------
(* What the pure operators of AccountHealth return.                         *)

\* The rule table always answers with a duration and a level within the bounds.
LEMMA CheckFallbackErrorType ==
  ASSUME NEW err \in Errors, NEW level \in 0 .. BACKOFF_MAX_LEVEL
  PROVE  CheckFallbackError(err, level) \in Cooling
<1> DEFINE next == AtMost(level + 1, BACKOFF_MAX_LEVEL)
<1>1. BACKOFF_MAX_LEVEL \in Nat \ {0}
  BY DurationAssumption
<1>2. next \in 1 .. BACKOFF_MAX_LEVEL
  BY <1>1 DEF AtMost
<1>3. QuotaCooldown(next) \in Nat
  BY <1>2, BackoffAssumption
<1>4. {COOLDOWN_LONG, COOLDOWN_SHORT, TRANSIENT_COOLDOWN} \subseteq Nat
  BY DurationAssumption
<1> HIDE DEF next
<1>5. /\ NoFallback \in Cooling
      /\ CoolFor(QuotaCooldown(next), next) \in Cooling
      /\ CoolFor(COOLDOWN_LONG, level) \in Cooling
      /\ CoolFor(COOLDOWN_SHORT, level) \in Cooling
      /\ CoolFor(TRANSIENT_COOLDOWN, level) \in Cooling
  BY <1>1, <1>2, <1>3, <1>4 DEF NoFallback, CoolFor, Cooling
<1> QED
  BY <1>5 DEF CheckFallbackError, next

\* So does the verdict on an error, whichever of its three sources decides.
LEMMA VerdictType ==
  ASSUME NEW err \in Errors, NEW level \in 0 .. BACKOFF_MAX_LEVEL, NEW t \in Nat
  PROVE  Verdict(err, level, t) \in Cooling
<1>1. 0 \in 0 .. BACKOFF_MAX_LEVEL /\ MonthLength \in Nat \ {0}
      /\ MAX_RATE_LIMIT_COOLDOWN \in Nat
  BY DurationAssumption
<1>2. UntilNextMonth(t) \in Nat
  BY <1>1 DEF UntilNextMonth
<1>3. err.resetsAt > t => UntilReset(err, t) \in Nat
  BY <1>1 DEF UntilReset, AtMost, Errors
<1>4. CheckFallbackError(err, level) \in Cooling
  BY CheckFallbackErrorType
<1>5. CASE MonthlyExhausted(err)
  BY <1>1, <1>2, <1>5 DEF Verdict, CoolFor, Cooling
<1>6. CASE ~MonthlyExhausted(err) /\ err.resetsAt > t
  BY <1>1, <1>3, <1>6 DEF Verdict, CoolFor, Cooling
<1>7. CASE ~MonthlyExhausted(err) /\ ~(err.resetsAt > t)
  BY <1>4, <1>7 DEF Verdict
<1> QED
  BY <1>5, <1>6, <1>7

\* The writers of a connection record return a connection record.
LEMMA ConnWriters ==
  ASSUME NEW c \in Conn
  PROVE  /\ Activated(c) \in Conn
         /\ \A keys : ClearedKeys(c, keys) \in Conn
         /\ \A key \in LockKeys, until \in Nat, level \in 0 .. BACKOFF_MAX_LEVEL :
              Locked(c, key, until, level) \in Conn
         /\ \A snap, m, t : AfterSuccess(c, snap, m, t) \in Conn
<1>0. 0 \in 0 .. BACKOFF_MAX_LEVEL
  BY DurationAssumption
<1>1. Activated(c) \in Conn
  BY <1>0 DEF Activated, Conn, Absent, Null
<1>2. \A keys : ClearedKeys(c, keys) \in Conn
  BY DEF ClearedKeys, Conn, Null
<1>3. \A key \in LockKeys, until \in Nat, level \in 0 .. BACKOFF_MAX_LEVEL :
        Locked(c, key, until, level) \in Conn
  BY DEF Locked, Conn
<1>4. \A snap, m, t : AfterSuccess(c, snap, m, t) \in Conn
  BY <1>1, <1>2 DEF AfterSuccess
<1> QED
  BY <1>1, <1>2, <1>3, <1>4

\* A new account's record is a record.
LEMMA FreshConnType == FreshConn \in Conn
  BY DurationAssumption DEF FreshConn, Conn, Absent

-----------------------------------------------------------------------------
(* Type correctness.                                                        *)

\* So are the values that stand for nothing held.
LEMMA IdleTypes ==
  /\ NoList \in [Connections -> Conn]
  /\ NoError \in Errors
  /\ NoPatch \in Patches
BY FreshConnType, DurationAssumption
   DEF NoList, NoError, NoPatch, Errors, Patches, LockKeys

\* Ending a request keeps the types, whatever the action does to the table.
LEMMA FinishType ==
  ASSUME TypeOK, NEW r \in Requests,
         NEW a \in [kind : AnswerKinds, retryAfter : Nat],
         Finish(r, a), conn' \in [Connections -> Conn], resolved' \subseteq 0 .. tail
  PROVE  TypeOK'
BY IdleTypes, FreshConnType DEF Finish, TypeOK, Phases

\* Sending a request on an account keeps the types, whatever the strategy wrote.
LEMMA DispatchType ==
  ASSUME TypeOK, NEW r \in Requests, NEW c \in Connections,
         Dispatch(r, c), conn' \in [Connections -> Conn], ticket[r] <= tail
  PROVE  TypeOK'
<1>1. held' \in [Requests -> Conn] /\ list' \in [Requests -> [Connections -> Conn]]
  BY IdleTypes DEF Dispatch, TypeOK
<1>2. resolved' \subseteq 0 .. tail
  <2>1. ticket[r] \in 0 .. tail /\ resolved \subseteq 0 .. tail
    BY DEF TypeOK
  <2>2. resolved' = resolved \cup {ticket[r]}
    BY DEF Dispatch, Release
  <2> QED
    BY <2>1, <2>2
<1>3. pc' \in [Requests -> Phases] /\ current' \in [Requests -> Connections \cup {NoConn}]
  BY DEF Dispatch, TypeOK, Phases
<1> QED
  BY <1>1, <1>2, <1>3 DEF Dispatch, TypeOK

\* What each phase implies of the request's own variables: an account is in use from
\* its dispatch to its result, it was not excluded, and only a finished request has
\* an answer.  With TypeOK this is inductive.
InUse == {"upstream", "succeeded", "failed", "marking"}

ControlOK ==
  \A r \in Requests :
    /\ ticket[r] <= tail
    /\ current[r] # NoConn <=> pc[r] \in InUse
    /\ current[r] \notin excluded[r]
    /\ answer[r].kind = "pending" <=> pc[r] # "done"

\* The initial states have their types, and their requests are in no phase.
LEMMA InitType == Init => TypeOK /\ ControlOK
<1> SUFFICES ASSUME Init PROVE TypeOK /\ ControlOK
  OBVIOUS
<1>1. MaxTime \in Nat /\ MaxAdmin \in Nat /\ conn \in [Connections -> Conn]
  BY FallbackAssumption DEF Init
<1>2. now \in 1 .. MaxTime + 1 /\ admin \in 0 .. MaxAdmin /\ resolved \subseteq 0 .. tail
      /\ tail \in Nat
  BY <1>1 DEF Init
<1>3. sweep \subseteq Sweeps /\ pc \in [Requests -> Phases]
      /\ answer \in [Requests -> [kind : AnswerKinds, retryAfter : Nat]]
  BY DEF Init, Phases, AnswerKinds, Answer
<1>4. /\ list \in [Requests -> [Connections -> Conn]] /\ held \in [Requests -> Conn]
      /\ error \in [Requests -> Errors] /\ patch \in [Requests -> Patches]
  BY IdleTypes, FreshConnType DEF Init
<1>5. /\ model \in [Requests -> Models] /\ ticket \in [Requests -> Nat]
      /\ excluded \in [Requests -> SUBSET Connections]
      /\ current \in [Requests -> Connections \cup {NoConn}]
  BY DEF Init
<1>6. TypeOK
  BY <1>1, <1>2, <1>3, <1>4, <1>5 DEF TypeOK
<1>7. ControlOK
  BY DEF Init, ControlOK, InUse, Answer
<1> QED
  BY <1>6, <1>7

\* A step of a request keeps the types: it writes the record of an account in use.
LEMMA RequestStepType ==
  ASSUME TypeOK, ControlOK, NEW r \in Requests, RequestStep(r)
  PROVE  TypeOK'
<1>0. /\ conn \in [Connections -> Conn] /\ now \in Nat /\ tail \in Nat
      /\ resolved \subseteq 0 .. tail /\ ticket[r] \in 0 .. tail
  BY DEF TypeOK, ControlOK
<1>u. pc[r] \in InUse => current[r] \in Connections
  BY DEF TypeOK, ControlOK
<1>s. SuccessRecorded(r) \in [Connections -> Conn]
  <2>1. \A c \in Connections :
          AfterSuccess(conn[c], held[r], model[r], now) \in Conn
    BY <1>0, ConnWriters
  <2> DEFINE after == AfterSuccess(conn[current[r]], held[r], model[r], now)
  <2>2. current[r] \in Connections => after \in Conn
    BY <2>1
  <2>3. SuccessRecorded(r) = [conn EXCEPT ![current[r]] = after]
    BY DEF SuccessRecorded
  <2> HIDE DEF after
  <2> QED
    BY <1>0, <2>2, <2>3
<1>1. CASE Start(r)
  BY <1>1 DEF Start, Enqueue, TypeOK, Phases
<1>2. CASE ReadConnections(r)
  BY <1>2 DEF ReadConnections, TypeOK, Phases
<1>3. CASE SelectFillFirst(r)
  <2>1. PICK c \in Connections : Dispatch(r, c)
    BY <1>3 DEF SelectFillFirst, Available, ActiveIn
  <2>2. conn' = conn
    BY <1>3 DEF SelectFillFirst
  <2> QED
    BY <1>0, <2>1, <2>2, DispatchType
<1>4. CASE SelectSticky(r) \/ SelectRotate(r)
  <2>1. PICK c \in Connections, count \in Nat : Dispatch(r, c) /\ WriteUse(c, count)
    <3>1. list[r] \in [Connections -> Conn]
      BY DEF TypeOK
    <3>2. \A c \in Connections : list[r][c].useCount + 1 \in Nat
      BY <3>1 DEF Conn
    <3> QED
      BY <1>4, <3>2 DEF SelectSticky, SelectRotate, Available, ActiveIn
  <2>2. conn' \in [Connections -> Conn]
    <3>1. [conn[c] EXCEPT !.lastUsed = now, !.useCount = count] \in Conn
      BY <1>0 DEF Conn
    <3> QED
      BY <1>0, <2>1, <3>1 DEF WriteUse
  <2> QED
    BY <1>0, <2>1, <2>2, DispatchType
<1>5. CASE AllRateLimited(r)
  <2>1. PICK e \in LockExpiries(r) : Finish(r, [kind |-> "unavailable", retryAfter |-> e])
    BY <1>5 DEF AllRateLimited
  <2>2. e \in Nat
    <3>1. PICK c \in Connections : e \in ActiveExpiries(list[r][c], now)
      BY <2>1 DEF LockExpiries, LockedIn, ActiveIn
    <3>2. PICK k \in LockKeys : e = list[r][c].lock[k] /\ e > now
      BY <3>1 DEF ActiveExpiries
    <3>3. list[r][c].lock[k] \in Nat \cup {Absent}
      BY <3>1, <3>2 DEF TypeOK, Conn
    <3> QED
      BY <1>0, <3>2, <3>3 DEF Absent
  <2>3. conn' = conn /\ resolved' \subseteq 0 .. tail
    BY <1>0, <1>5 DEF AllRateLimited, Release
  <2> QED
    BY <1>0, <2>1, <2>2, <2>3, FinishType DEF AnswerKinds
<1>6. CASE NoAccountLeft(r) \/ SelectionThrows(r)
  <2>1. PICK kind \in AnswerKinds : Finish(r, Answer(kind))
    BY <1>6 DEF NoAccountLeft, SelectionThrows, AnswerKinds
  <2>2. conn' = conn /\ resolved' \subseteq 0 .. tail
    BY <1>0, <1>6 DEF NoAccountLeft, SelectionThrows, Release
  <2> QED
    BY <1>0, <2>1, <2>2, FinishType DEF Answer
<1>7. CASE UpstreamOk(r)
  BY <1>7 DEF UpstreamOk, TypeOK, Phases
<1>8. CASE UpstreamFails(r) \/ SuccessThenFails(r)
  <2>1. PICK e \in UpstreamErrors :
          error' = [error EXCEPT ![r] =
                      [status |-> e.status, texts |-> e.texts,
                       resetsAt |-> IF e.resetsIn = 0 THEN 0 ELSE now + e.resetsIn]]
    BY <1>8 DEF UpstreamFails, SuccessThenFails, SeesError
  <2>2. e \in [status : Nat, texts : SUBSET Texts, resetsIn : Nat]
    BY FallbackAssumption
  <2>3. error' \in [Requests -> Errors]
    BY <1>0, <2>1, <2>2 DEF TypeOK, Errors
  <2>4. conn' \in [Connections -> Conn]
    BY <1>0, <1>s, <1>8 DEF UpstreamFails, SuccessThenFails
  <2> QED
    BY <1>8, <2>3, <2>4 DEF UpstreamFails, SuccessThenFails, SeesError, TypeOK, Phases
<1>9. CASE ClearAccountError(r) \/ SuccessNotRecorded(r)
  <2>1. conn' \in [Connections -> Conn]
    BY <1>0, <1>s, <1>9 DEF ClearAccountError, SuccessNotRecorded
  <2>2. Finish(r, Answer("ok")) /\ resolved' = resolved
    BY <1>9 DEF ClearAccountError, SuccessNotRecorded
  <2> QED
    BY <1>0, <2>1, <2>2, FinishType DEF Answer, AnswerKinds
<1>10. CASE ReturnError(r) \/ RequestThrows(r)
  <2>1. PICK kind \in AnswerKinds : Finish(r, Answer(kind))
    BY <1>10 DEF ReturnError, RequestThrows, AnswerKinds
  <2>2. conn' = conn /\ resolved' = resolved
    BY <1>10 DEF ReturnError, RequestThrows
  <2> QED
    BY <1>0, <2>1, <2>2, FinishType DEF Answer
<1>11. CASE MarkRead(r)
  <2>1. current[r] \in Connections
    BY <1>11, <1>u DEF MarkRead, InUse
  <2>2. VerdictOf(r) \in Cooling
    <3>1. conn[current[r]].backoff \in 0 .. BACKOFF_MAX_LEVEL /\ error[r] \in Errors
      BY <2>1 DEF TypeOK, Conn
    <3> QED
      BY <1>0, <3>1, VerdictType DEF VerdictOf
  <2>3. model[r] \in LockKeys /\ AllKey \in LockKeys
    BY DEF TypeOK, LockKeys
  <2>4. patch' \in [Requests -> Patches]
    BY <1>0, <1>11, <2>2, <2>3 DEF MarkRead, TypeOK, Patches, Cooling
  <2> QED
    BY <1>11, <2>4 DEF MarkRead, TypeOK, Phases
<1>12. CASE MarkWrite(r)
  <2>1. current[r] \in Connections /\ patch[r] \in Patches
    BY <1>12, <1>u DEF MarkWrite, InUse, TypeOK
  <2>2. conn' \in [Connections -> Conn]
    BY <1>0, <1>12, <2>1, ConnWriters DEF MarkWrite, Patches
  <2> QED
    BY <1>12, <2>1, <2>2, IdleTypes, FreshConnType DEF MarkWrite, Enqueue, TypeOK, Phases
<1> QED
  BY <1>1, <1>2, <1>3, <1>4, <1>5, <1>6, <1>7, <1>8, <1>9, <1>10, <1>11, <1>12
     DEF RequestStep

\* A step of a request keeps what its phase implies.
LEMMA RequestStepControl ==
  ASSUME TypeOK, ControlOK, NEW r \in Requests, RequestStep(r)
  PROVE  ControlOK'
<1> USE DEF ControlOK, InUse
<1>0. NoConn \notin Connections
  BY FallbackAssumption
<1>t. /\ pc \in [Requests -> Phases] /\ ticket \in [Requests -> Nat] /\ tail \in Nat
      /\ current \in [Requests -> Connections \cup {NoConn}]
      /\ excluded \in [Requests -> SUBSET Connections]
      /\ answer \in [Requests -> [kind : AnswerKinds, retryAfter : Nat]]
  BY DEF TypeOK
<1>1. CASE Start(r) \/ ReadConnections(r)
  <2>1. /\ pc[r] \in {"new", "waiting"}
        /\ \E p \in {"waiting", "selecting"} : pc' = [pc EXCEPT ![r] = p]
        /\ UNCHANGED <<current, excluded, answer>>
    BY <1>1 DEF Start, ReadConnections
  <2>2. \A q \in Requests : ticket'[q] <= tail'
    BY <1>1, <1>t DEF Start, Enqueue, ReadConnections
  <2> QED
    BY <1>t, <2>1, <2>2
<1>2. CASE SelectFillFirst(r) \/ SelectSticky(r) \/ SelectRotate(r)
  <2>1. PICK c \in Connections : Dispatch(r, c)
    BY <1>2 DEF SelectFillFirst, SelectSticky, SelectRotate, Available, ActiveIn
  <2> QED
    BY <1>0, <1>t, <2>1 DEF Dispatch, Available
<1>3. CASE \/ AllRateLimited(r) \/ NoAccountLeft(r) \/ SelectionThrows(r)
           \/ ClearAccountError(r) \/ SuccessNotRecorded(r) \/ ReturnError(r)
           \/ RequestThrows(r)
  <2>1. PICK a : a.kind # "pending" /\ Finish(r, a)
    BY <1>3 DEF AllRateLimited, NoAccountLeft, SelectionThrows, ClearAccountError,
                SuccessNotRecorded, ReturnError, RequestThrows, Answer
  <2> QED
    BY <1>0, <1>t, <2>1 DEF Finish
<1>4. CASE MarkWrite(r)
  BY <1>0, <1>t, <1>4 DEF MarkWrite, Enqueue
<1>5. CASE UpstreamOk(r) \/ UpstreamFails(r) \/ SuccessThenFails(r) \/ MarkRead(r)
  <2>1. pc[r] \in InUse /\ \E p \in InUse : pc' = [pc EXCEPT ![r] = p]
    BY <1>5 DEF UpstreamOk, UpstreamFails, SuccessThenFails, SeesError, MarkRead
  <2>2. UNCHANGED <<tail, ticket, current, excluded, answer>>
    BY <1>5 DEF UpstreamOk, UpstreamFails, SuccessThenFails, MarkRead
  <2> QED
    BY <1>t, <2>1, <2>2
<1> QED
  BY <1>1, <1>2, <1>3, <1>4, <1>5 DEF RequestStep

\* The writes of the dashboard and the clock touch only the table and the clock.
LEMMA EnvironmentType ==
  ASSUME TypeOK, ControlOK,
         \/ \E c \in Connections : TestConnection(c) \/ SetActive(c)
         \/ \E m \in Models : ClearCooldown(m)
         \/ \E w \in sweep : ClearCooldownWrite(w)
         \/ Tick
  PROVE  TypeOK' /\ ControlOK'
<1>0. /\ conn \in [Connections -> Conn] /\ now \in 1 .. MaxTime + 1 /\ sweep \subseteq Sweeps
      /\ admin \in 0 .. MaxAdmin /\ MaxAdmin \in Nat /\ MaxTime \in Nat
  BY FallbackAssumption DEF TypeOK
<1>1. ASSUME NEW c \in Connections, TestConnection(c)
      PROVE  TypeOK' /\ ControlOK'
  <2>1. PICK tested \in {Activated(conn[c]), [Activated(conn[c]) EXCEPT !.failed = TRUE],
                         [conn[c] EXCEPT !.status = "error", !.failed = TRUE]} :
          conn' = [conn EXCEPT ![c] = tested]
    BY <1>1 DEF TestConnection
  <2>2. Activated(conn[c]) \in Conn
    BY <1>0, ConnWriters
  <2>3. /\ [Activated(conn[c]) EXCEPT !.failed = TRUE] \in Conn
        /\ [conn[c] EXCEPT !.status = "error", !.failed = TRUE] \in Conn
    BY <1>0, <2>2 DEF Conn
  <2>4. conn' \in [Connections -> Conn]
    BY <1>0, <2>1, <2>2, <2>3
  <2>5. AdminStep /\ UNCHANGED <<now, tail, resolved, reqVars, sweep>>
    BY <1>1 DEF TestConnection
  <2>6. admin' \in 0 .. MaxAdmin
    BY <1>0, <2>5 DEF AdminStep
  <2> QED
    BY <2>4, <2>5, <2>6 DEF reqVars, TypeOK, ControlOK
<1>2. ASSUME NEW c \in Connections, SetActive(c)
      PROVE  TypeOK' /\ ControlOK'
  <2>1. [conn[c] EXCEPT !.active = ~conn[c].active] \in Conn
    BY <1>0 DEF Conn
  <2> QED
    BY <1>0, <1>2, <2>1 DEF SetActive, AdminStep, reqVars, TypeOK, ControlOK
<1>3. ASSUME NEW m \in Models, ClearCooldown(m)
      PROVE  TypeOK' /\ ControlOK'
  <2>1. sweep' \subseteq Sweeps
    BY <1>0, <1>3 DEF ClearCooldown, Sweeps, Conn
  <2> QED
    BY <1>0, <1>3, <2>1 DEF ClearCooldown, AdminStep, reqVars, TypeOK, ControlOK
<1>4. ASSUME NEW w \in sweep, ClearCooldownWrite(w)
      PROVE  TypeOK' /\ ControlOK'
  <2>1. w.id \in Connections
    BY <1>0 DEF Sweeps
  <2>2. conn' \in [Connections -> Conn]
    BY <1>0, <1>4, <2>1, ConnWriters DEF ClearCooldownWrite
  <2> QED
    BY <1>0, <1>4, <2>2 DEF ClearCooldownWrite, reqVars, TypeOK, ControlOK
<1>5. ASSUME Tick
      PROVE  TypeOK' /\ ControlOK'
  BY <1>0, <1>5 DEF Tick, reqVars, TypeOK, ControlOK
<1> QED
  BY <1>1, <1>2, <1>3, <1>4, <1>5

\* Every variable keeps its type and every phase its own variables, for every
\* instance of the constants.
THEOREM TypeCorrect == Spec => [](TypeOK /\ ControlOK)
<1>1. Init => TypeOK /\ ControlOK
  BY InitType
<1>2. TypeOK /\ ControlOK /\ [Next]_vars => (TypeOK /\ ControlOK)'
  <2> SUFFICES ASSUME TypeOK, ControlOK, [Next]_vars PROVE TypeOK' /\ ControlOK'
    OBVIOUS
  <2>1. CASE \E r \in Requests : RequestStep(r)
    BY <2>1, RequestStepType, RequestStepControl
  <2>2. CASE \/ \E c \in Connections : TestConnection(c) \/ SetActive(c)
             \/ \E m \in Models : ClearCooldown(m)
             \/ \E w \in sweep : ClearCooldownWrite(w)
             \/ Tick
    BY <2>2, EnvironmentType
  <2>3. CASE UNCHANGED vars
    BY <2>3 DEF vars, reqVars, TypeOK, ControlOK
  <2> QED
    BY <2>1, <2>2, <2>3 DEF Next
<1> QED
  BY <1>1, <1>2, PTL DEF Spec


-----------------------------------------------------------------------------
(* The selection mutex.                                                     *)

InCall == {"waiting", "selecting"}

\* The promise chain: a request in its selection call holds a ticket of its own whose
\* promise is pending, it decides only once its predecessor's promise is resolved, the
\* resolved tickets form a prefix, and every pending ticket has its holder.
ChainOK ==
  /\ \A r \in Requests : pc[r] \in InCall => ticket[r] \in (1 .. tail) \ resolved
  /\ \A r, s \in Requests :
       pc[r] \in InCall /\ pc[s] \in InCall /\ ticket[r] = ticket[s] => r = s
  /\ \A r \in Requests : pc[r] = "selecting" => Admitted(r)
  /\ \A t \in resolved, u \in Nat : u <= t => u \in resolved
  /\ NoAbandonedTicket

\* ChainOK makes the chain a mutex: the earlier of two tickets being served would be
\* resolved already.
LEMMA ChainExcludes == TypeOK /\ ChainOK => SelectionExclusive
<1> SUFFICES ASSUME TypeOK, ChainOK,
                    NEW r \in Requests, NEW s \in Requests, Selecting(r), Selecting(s)
             PROVE  r = s
  BY DEF SelectionExclusive
<1>1. /\ pc[r] \in InCall /\ pc[s] \in InCall /\ Admitted(r) /\ Admitted(s)
      /\ ticket[r] \in 1 .. tail /\ ticket[s] \in 1 .. tail /\ tail \in Nat
      /\ ticket[r] \notin resolved /\ ticket[s] \notin resolved
  BY DEF Selecting, ChainOK, InCall, TypeOK
<1>2. ~(ticket[r] < ticket[s]) /\ ~(ticket[s] < ticket[r])
  <2>1. \A u \in Nat : (u <= ticket[s] - 1 \/ u <= ticket[r] - 1) => u \in resolved
    BY <1>1 DEF ChainOK, Admitted
  <2> QED
    BY <1>1, <2>1
<1>3. ticket[r] = ticket[s]
  BY <1>1, <1>2
<1> QED
  BY <1>1, <1>3 DEF ChainOK

\* A call that only queues a new ticket extends the chain.
LEMMA EnqueueChain ==
  ASSUME TypeOK, ControlOK, ChainOK, NEW r \in Requests, pc[r] \notin InCall,
         Enqueue(r), resolved' = resolved, pc' = [pc EXCEPT ![r] = "waiting"]
  PROVE  ChainOK'
<1>0. /\ tail \in Nat /\ tail' = tail + 1 /\ ticket' = [ticket EXCEPT ![r] = tail + 1]
      /\ ticket \in [Requests -> Nat] /\ pc \in [Requests -> Phases]
      /\ resolved \subseteq 0 .. tail
  BY DEF TypeOK, Enqueue
<1>1. \A q \in Requests : q # r => ticket'[q] = ticket[q] /\ pc'[q] = pc[q]
  BY <1>0
<1>2. ticket'[r] = tail + 1 /\ pc'[r] = "waiting" /\ tail + 1 \notin resolved
  BY <1>0
<1>3. \A q \in Requests : pc'[q] \in InCall => ticket'[q] \in (1 .. tail') \ resolved'
  BY <1>0, <1>1, <1>2 DEF ChainOK
<1>4. \A q, s \in Requests :
        pc'[q] \in InCall /\ pc'[s] \in InCall /\ ticket'[q] = ticket'[s] => q = s
  BY <1>0, <1>1, <1>2 DEF ChainOK
<1>5. \A q \in Requests : pc'[q] = "selecting" => Admitted(q)'
  BY <1>1, <1>2 DEF ChainOK, Admitted
<1>6. NoAbandonedTicket'
  <2> SUFFICES ASSUME NEW t \in 1 .. tail', t \notin resolved
               PROVE  \E q \in Requests : pc'[q] \in {"waiting", "selecting"} /\ ticket'[q] = t
    BY DEF NoAbandonedTicket
  <2>1. CASE t = tail + 1
    BY <1>2, <2>1
  <2>2. CASE t # tail + 1
    <3>1. t \in 1 .. tail
      BY <1>0, <2>2
    <3>2. PICK q \in Requests : pc[q] \in {"waiting", "selecting"} /\ ticket[q] = t
      BY <3>1 DEF ChainOK, NoAbandonedTicket
    <3>3. q # r
      BY <3>2 DEF InCall
    <3> QED
      BY <1>1, <3>2, <3>3
  <2> QED
    BY <2>1, <2>2
<1> QED
  BY <1>3, <1>4, <1>5, <1>6 DEF ChainOK

\* The end of a selection, whatever its outcome, resolves the request's own ticket,
\* the first pending one.
LEMMA ReleaseChain ==
  ASSUME TypeOK, ControlOK, ChainOK, NEW r \in Requests, Selecting(r),
         Release(r), UNCHANGED <<tail, ticket>>,
         pc' \in [Requests -> Phases], pc'[r] \notin InCall,
         \A q \in Requests : q # r => pc'[q] = pc[q]
  PROVE  ChainOK'
<1>0. /\ tail \in Nat /\ ticket \in [Requests -> Nat] /\ resolved \subseteq 0 .. tail
      /\ resolved' = resolved \cup {ticket[r]}
      /\ pc[r] \in InCall /\ Admitted(r) /\ ticket[r] \in 1 .. tail
      /\ tail' = tail /\ ticket' = ticket
  BY DEF TypeOK, Release, Selecting, ChainOK, InCall
<1>1. \A q \in Requests : pc'[q] \in InCall => q # r /\ pc[q] \in InCall
  OBVIOUS
<1>2. \A q \in Requests : pc'[q] \in InCall => ticket'[q] \in (1 .. tail') \ resolved'
  BY <1>0, <1>1 DEF ChainOK
<1>3. \A q, s \in Requests :
        pc'[q] \in InCall /\ pc'[s] \in InCall /\ ticket'[q] = ticket'[s] => q = s
  BY <1>0, <1>1 DEF ChainOK
<1>4. \A q \in Requests : pc'[q] = "selecting" => Admitted(q)'
  BY <1>0, <1>1 DEF ChainOK, Admitted, InCall
<1>5. \A t \in resolved', u \in Nat : u <= t => u \in resolved'
  <2>1. \A t \in resolved, u \in Nat : u <= t => u \in resolved
    BY DEF ChainOK
  <2>2. \A u \in Nat : u <= ticket[r] - 1 => u \in resolved
    BY <1>0, <2>1 DEF Admitted
  <2> QED
    BY <1>0, <2>1, <2>2
<1>6. NoAbandonedTicket'
  <2> SUFFICES ASSUME NEW t \in 1 .. tail, t \notin resolved'
               PROVE  \E q \in Requests : pc'[q] \in {"waiting", "selecting"} /\ ticket[q] = t
    BY <1>0 DEF NoAbandonedTicket
  <2>1. PICK q \in Requests : pc[q] \in {"waiting", "selecting"} /\ ticket[q] = t
    BY <1>0 DEF ChainOK, NoAbandonedTicket
  <2>2. q # r
    BY <1>0, <2>1
  <2> QED
    BY <2>1, <2>2
<1> QED
  BY <1>2, <1>3, <1>4, <1>5, <1>6 DEF ChainOK

\* Every other step leaves the chain alone: no request enters or leaves a call, and
\* only an admitted one goes from waiting to selecting.
LEMMA QuietChain ==
  ASSUME TypeOK, ChainOK, UNCHANGED <<tail, resolved, ticket>>,
         \A q \in Requests : \/ pc'[q] = pc[q]
                             \/ pc[q] \notin InCall /\ pc'[q] \notin InCall
                             \/ pc[q] = "waiting" /\ Admitted(q) /\ pc'[q] = "selecting"
  PROVE  ChainOK'
<1>1. \A q \in Requests : pc'[q] \in InCall <=> pc[q] \in InCall
  BY DEF InCall
<1>2. \A q \in Requests : pc'[q] = "selecting" => Admitted(q)'
  BY DEF ChainOK, Admitted, InCall
<1>3. NoAbandonedTicket'
  BY <1>1 DEF ChainOK, NoAbandonedTicket, InCall
<1> QED
  BY <1>1, <1>2, <1>3 DEF ChainOK

\* The chain begins with the resolved promise of ticket 0.
LEMMA ChainInit == Init => ChainOK
<1> SUFFICES ASSUME Init PROVE ChainOK
  OBVIOUS
<1>1. \A q \in Requests : pc[q] \notin InCall
  BY DEF Init, InCall
<1> QED
  BY <1>1 DEF Init, ChainOK, NoAbandonedTicket, InCall

\* Every step enters the chain, releases its head or leaves it alone.
LEMMA ChainStep ==
  ASSUME TypeOK, ControlOK, ChainOK, [Next]_vars
  PROVE  ChainOK'
<1>0. pc \in [Requests -> Phases]
  BY DEF TypeOK
<1>1. ASSUME NEW r \in Requests, RequestStep(r)
      PROVE  ChainOK'
  <2>1. CASE Start(r) \/ MarkWrite(r)
    BY <2>1, EnqueueChain DEF Start, MarkWrite, InCall
  <2>2. CASE \/ SelectFillFirst(r) \/ SelectSticky(r) \/ SelectRotate(r)
             \/ AllRateLimited(r) \/ NoAccountLeft(r) \/ SelectionThrows(r)
    <3>1. Selecting(r) /\ Release(r) /\ UNCHANGED <<tail, ticket>>
          /\ \E p \in {"upstream", "done"} : pc' = [pc EXCEPT ![r] = p]
      BY <2>2 DEF SelectFillFirst, SelectSticky, SelectRotate, Dispatch, AllRateLimited,
                  NoAccountLeft, SelectionThrows, Selecting, Finish
    <3> QED
      BY <1>0, <3>1, ReleaseChain DEF InCall, Phases
  <2>3. CASE \/ ReadConnections(r) \/ UpstreamOk(r) \/ UpstreamFails(r) \/ MarkRead(r)
             \/ ClearAccountError(r) \/ SuccessNotRecorded(r) \/ SuccessThenFails(r)
             \/ ReturnError(r) \/ RequestThrows(r)
    <3>1. /\ UNCHANGED <<tail, resolved, ticket>>
          /\ \/ pc[r] = "waiting" /\ Admitted(r) /\ pc' = [pc EXCEPT ![r] = "selecting"]
             \/ /\ pc[r] \in InUse
                /\ \E p \in InUse \cup {"done"} : pc' = [pc EXCEPT ![r] = p]
      BY <2>3 DEF ReadConnections, UpstreamOk, UpstreamFails, MarkRead, ClearAccountError,
                  SuccessNotRecorded, SuccessThenFails, SeesError, ReturnError, RequestThrows,
                  Finish, InUse
    <3> QED
      BY <1>0, <3>1, QuietChain DEF InCall, InUse
  <2> QED
    BY <1>1, <2>1, <2>2, <2>3 DEF RequestStep
<1>2. CASE \/ \E c \in Connections : TestConnection(c) \/ SetActive(c)
           \/ \E m \in Models : ClearCooldown(m)
           \/ \E w \in sweep : ClearCooldownWrite(w)
           \/ Tick \/ UNCHANGED vars
  <2>1. UNCHANGED <<tail, resolved, ticket, pc>>
    BY <1>2 DEF TestConnection, SetActive, ClearCooldown, ClearCooldownWrite, Tick, vars, reqVars
  <2> QED
    BY <2>1, QuietChain
<1> QED
  BY <1>1, <1>2 DEF Next

\* The invariant all the following theorems rest on.
SafetyInv == TypeOK /\ ControlOK /\ ChainOK

\* In every reachable state the types, the phases and the promise chain fit together.
THEOREM SafetyInvHolds == Spec => []SafetyInv
<1>1. Init => ChainOK
  BY ChainInit
<1>2. TypeOK /\ ControlOK /\ ChainOK /\ [Next]_vars => ChainOK'
  BY ChainStep
<1> QED
  BY <1>1, <1>2, TypeCorrect, PTL DEF Spec, SafetyInv

\* The promise chain of getProviderCredentials is a mutex.
THEOREM SelectionMutex == Spec => []SelectionExclusive
<1>1. SafetyInv => SelectionExclusive
  BY ChainExcludes DEF SafetyInv
<1> QED
  BY <1>1, SafetyInvHolds, PTL

\* No pending promise of the chain is without a request that will resolve it.
THEOREM NoLostLink == Spec => []NoAbandonedTicket
<1>1. SafetyInv => NoAbandonedTicket
  BY DEF SafetyInv, ChainOK
<1> QED
  BY <1>1, SafetyInvHolds, PTL


\* Calls enter the selection in the order of their tickets: while an earlier one
\* waits, its pending promise keeps the later ones out.
THEOREM FifoSelection == Spec => NoOvertaking
<1>1. SafetyInv /\ [Next]_vars =>
        [\A r, s \in Requests :
           pc[r] = "waiting" /\ pc'[r] = "selecting" /\ pc[s] = "waiting"
             => ticket[r] <= ticket[s]]_vars
  <2> SUFFICES ASSUME SafetyInv, Next, NEW r \in Requests, NEW s \in Requests,
                      pc[r] = "waiting", pc'[r] = "selecting", pc[s] = "waiting"
               PROVE  ticket[r] <= ticket[s]
    OBVIOUS
  <2>1. Admitted(r)
    <3>1. pc \in [Requests -> Phases]
      BY DEF SafetyInv, TypeOK
    <3>2. ASSUME NEW q \in Requests, RequestStep(q), ~ReadConnections(q)
          PROVE  pc'[r] # "selecting"
      BY <3>1, <3>2 DEF RequestStep, Start, SelectFillFirst, SelectSticky, SelectRotate,
            Dispatch, AllRateLimited, NoAccountLeft, SelectionThrows, Finish, UpstreamOk,
            UpstreamFails, SeesError, ClearAccountError, SuccessNotRecorded, SuccessThenFails,
            MarkRead, ReturnError, MarkWrite, RequestThrows
    <3>3. ASSUME NEW q \in Requests, ReadConnections(q)
          PROVE  q = r
      BY <3>1, <3>3 DEF ReadConnections
    <3>4. ASSUME ~\E q \in Requests : RequestStep(q)
          PROVE  pc' = pc
      BY <3>4 DEF Next, TestConnection, SetActive, ClearCooldown, ClearCooldownWrite, Tick, reqVars
    <3> QED
      BY <3>2, <3>3, <3>4 DEF ReadConnections
  <2>2. ticket[s] \in (1 .. tail) \ resolved /\ ticket[r] \in Nat /\ tail \in Nat
    BY DEF SafetyInv, ChainOK, TypeOK, InCall
  <2>3. \A u \in Nat : u <= ticket[r] - 1 => u \in resolved
    BY <2>1 DEF SafetyInv, ChainOK, Admitted
  <2> QED
    BY <2>2, <2>3
<1> QED
  BY <1>1, SafetyInvHolds, PTL DEF Spec, NoOvertaking

-----------------------------------------------------------------------------
(* What a selection may answer.                                             *)

\* Only a selection of an available account sends a selecting request upstream.
LEMMA OnlyDispatchServes ==
  ASSUME TypeOK, Next, NEW r \in Requests, pc[r] = "selecting", pc'[r] = "upstream"
  PROVE  \E c \in Available(r) : Dispatch(r, c)
<1>0. pc \in [Requests -> Phases]
  BY DEF TypeOK
<1>1. CASE \E q \in Requests : RequestStep(q)
  <2>1. PICK q \in Requests : RequestStep(q)
    BY <1>1
  <2>2. pc' # pc /\ pc'[r] # pc[r]
    BY <1>0
  <2>3. ASSUME SelectFillFirst(q) \/ SelectSticky(q) \/ SelectRotate(q)
        PROVE  \E c \in Available(r) : Dispatch(r, c)
    <3>1. PICK c \in Available(q) : Dispatch(q, c)
      BY <2>3 DEF SelectFillFirst, SelectSticky, SelectRotate
    <3>2. q = r
      <4>1. pc' = [pc EXCEPT ![q] = "upstream"]
        BY <3>1 DEF Dispatch
      <4> QED
        BY <1>0, <2>2, <4>1
    <3> QED
      BY <3>1, <3>2
  <2>4. ASSUME ~(SelectFillFirst(q) \/ SelectSticky(q) \/ SelectRotate(q))
        PROVE  FALSE
    <3>1. \/ pc[q] # "selecting"
          \/ \E p \in Phases \ {"upstream"} : pc' = [pc EXCEPT ![q] = p]
      BY <2>1, <2>4
         DEF Phases, RequestStep, Start, ReadConnections, AllRateLimited, NoAccountLeft,
           SelectionThrows, Finish, UpstreamOk, UpstreamFails, SeesError, ClearAccountError,
             SuccessNotRecorded, SuccessThenFails, MarkRead, ReturnError, MarkWrite,
             RequestThrows
    <3>2. \E p \in Phases : pc' = [pc EXCEPT ![q] = p]
      BY <2>1, <2>4
         DEF Phases, RequestStep, Start, ReadConnections, AllRateLimited, NoAccountLeft,
             SelectionThrows, Finish, UpstreamOk, UpstreamFails, SeesError, ClearAccountError,
             SuccessNotRecorded, SuccessThenFails, MarkRead, ReturnError, MarkWrite,
             RequestThrows
    <3> QED
      BY <1>0, <2>2, <3>1, <3>2
  <2> QED
    BY <2>3, <2>4
<1>2. CASE ~\E q \in Requests : RequestStep(q)
  BY <1>2 DEF Next, TestConnection, SetActive, ClearCooldown, ClearCooldownWrite, Tick, reqVars
<1> QED
  BY <1>1, <1>2

\* A request never goes upstream on an account whose lock for its model ran when the
\* account was chosen, whatever the account-wide lock and the rotation say.
THEOREM LockedModelNotServed == Spec => ModelLockRespected
<1>1. SafetyInv /\ [Next]_vars =>
        [\A r \in Requests : pc[r] = "selecting" /\ pc'[r] = "upstream"
           => held'[r].lock[model[r]] <= now]_vars
  <2> SUFFICES ASSUME SafetyInv, Next, NEW r \in Requests,
                      pc[r] = "selecting", pc'[r] = "upstream"
               PROVE  held'[r].lock[model[r]] <= now
    OBVIOUS
  <2>1. PICK c \in Available(r) : Dispatch(r, c)
    BY OnlyDispatchServes DEF SafetyInv
  <2>2. c \in Connections /\ ~IsModelLockActive(list[r][c], model[r], now)
    BY <2>1 DEF Available, ActiveIn, LockedIn
  <2>3. /\ list[r][c].lock \in [LockKeys -> Nat \cup {Absent}]
        /\ model[r] \in LockKeys /\ now \in Nat
    <3>1. TypeOK /\ list[r][c] \in Conn
      BY <2>2 DEF SafetyInv, TypeOK
    <3>2. list[r][c].lock \in [LockKeys -> Nat \cup {Absent}]
      BY <3>1 DEF Conn
    <3>3. model[r] \in LockKeys /\ now \in Nat
      BY <3>1 DEF TypeOK, LockKeys
    <3> QED
      BY <3>2, <3>3
  <2>4. list[r][c].lock[model[r]] <= now
    <3>1. list[r][c].lock[model[r]] \in Int
      BY <2>3 DEF Absent
    <3>2. CASE list[r][c].lock[model[r]] > 0
      BY <2>2, <3>1, <3>2, <2>3 DEF IsModelLockActive, GoverningExpiry, IsSet, Null
    <3>3. CASE ~(list[r][c].lock[model[r]] > 0)
      BY <3>1, <3>3, <2>3
    <3> QED
      BY <3>2, <3>3
  <2>5. held'[r] = list[r][c]
    BY <2>1 DEF Dispatch, SafetyInv, TypeOK
  <2> QED
    BY <2>4, <2>5
<1> QED
  BY <1>1, SafetyInvHolds, PTL DEF Spec, ModelLockRespected

\* What AccountWideLockRespected fails by, and nothing else: an account whose account-wide
\* lock runs is given to a request only if it also has a lock of the request's model, and
\* that one has expired (isModelLockActive looks at the first of the two that is set).
THEOREM WideLockHiddenOnlyByExpired ==
  Spec => [][\A r \in Requests : pc[r] = "selecting" /\ pc'[r] = "upstream"
               => \/ held'[r].lock[AllKey] <= now
                  \/ held'[r].lock[model[r]] \in 1 .. now]_vars
<1> DEFINE Hidden(r) == \/ held'[r].lock[AllKey] <= now
                        \/ held'[r].lock[model[r]] \in 1 .. now
<1>1. ASSUME SafetyInv, Next, NEW r \in Requests, pc[r] = "selecting", pc'[r] = "upstream"
      PROVE  Hidden(r)
  <2>1. PICK c \in Available(r) : Dispatch(r, c)
    BY <1>1, OnlyDispatchServes DEF SafetyInv
  <2>2. c \in Connections /\ ~(GoverningExpiry(list[r][c], model[r]) > now)
    BY <2>1 DEF Available, ActiveIn, LockedIn, IsModelLockActive
  <2>3. TypeOK /\ list[r][c] \in Conn
    BY <1>1, <2>2 DEF SafetyInv, TypeOK
  <2>4. /\ list[r][c].lock[AllKey] \in Int /\ list[r][c].lock[model[r]] \in Int /\ now \in Int
    BY <2>3 DEF TypeOK, Conn, LockKeys, Absent
  <2>5. held'[r] = list[r][c]
    BY <2>1, <2>3 DEF Dispatch, TypeOK
  <2> QED
    BY <2>2, <2>4, <2>5 DEF GoverningExpiry, IsSet, Null
<1>2. SafetyInv /\ [Next]_vars =>
        [\A r \in Requests : pc[r] = "selecting" /\ pc'[r] = "upstream" => Hidden(r)]_vars
  BY <1>1
<1> QED
  BY <1>2, SafetyInvHolds, PTL DEF Spec

-----------------------------------------------------------------------------
(* The answer of a selection that finds no account.                         *)

\* The only ends of a selection call, and what the answer is then.
LEMMA SelectionEnds ==
  ASSUME SafetyInv, Next, NEW r \in Requests, pc[r] = "selecting",
         pc'[r] = "done" \/ answer'[r].kind = "unavailable"
  PROVE  AllRateLimited(r) \/ NoAccountLeft(r) \/ SelectionThrows(r)
<1>1. /\ pc \in [Requests -> Phases] /\ answer \in [Requests -> [kind : AnswerKinds, retryAfter : Nat]]
      /\ answer[r].kind = "pending"
  BY DEF SafetyInv, TypeOK, ControlOK
<1>2. ASSUME NEW q \in Requests, RequestStep(q), q # r
      PROVE  pc'[r] = pc[r] /\ answer'[r] = answer[r]
  BY <1>1, <1>2 DEF RequestStep, Start, ReadConnections, SelectFillFirst, SelectSticky,
     SelectRotate, Dispatch, AllRateLimited, NoAccountLeft, SelectionThrows, Finish,
     UpstreamOk, UpstreamFails, SeesError, ClearAccountError, SuccessNotRecorded,
     SuccessThenFails, MarkRead, ReturnError, MarkWrite, RequestThrows
<1>3. ASSUME RequestStep(r), ~(AllRateLimited(r) \/ NoAccountLeft(r) \/ SelectionThrows(r))
      PROVE  pc'[r] # "done" /\ answer'[r] = answer[r]
  BY <1>1, <1>3 DEF RequestStep, Start, ReadConnections, SelectFillFirst, SelectSticky,
     SelectRotate, Dispatch, UpstreamOk, UpstreamFails, ClearAccountError, SuccessNotRecorded,
     SuccessThenFails, MarkRead, ReturnError, MarkWrite, RequestThrows
<1>4. ASSUME ~ \E q \in Requests : RequestStep(q)
      PROVE  UNCHANGED <<pc, answer>>
  BY <1>4 DEF Next, TestConnection, SetActive, ClearCooldown, ClearCooldownWrite, Tick, reqVars
<1> QED
  BY <1>1, <1>2, <1>3, <1>4

\* An active account that a lock keeps from the model contributes that lock's end to
\* the expiries the answer is made from.
LEMMA GoverningCounts ==
  ASSUME TypeOK, NEW r \in Requests, NEW c \in Connections, list[r][c].active,
         GoverningExpiry(list[r][c], model[r]) > now
  PROVE  GoverningExpiry(list[r][c], model[r]) \in LockExpiries(r)
<1>1. model[r] \in LockKeys /\ AllKey \in LockKeys
  BY DEF TypeOK, LockKeys
<1>2. PICK k \in LockKeys : GoverningExpiry(list[r][c], model[r]) = list[r][c].lock[k]
  BY <1>1 DEF GoverningExpiry
<1>3. c \in LockedIn(list[r], model[r])
  BY DEF LockedIn, ActiveIn, IsModelLockActive
<1>4. list[r][c].lock[k] \in ActiveExpiries(list[r][c], now)
  BY <1>2 DEF ActiveExpiries
<1> QED
  BY <1>2, <1>3, <1>4 DEF LockExpiries

\* 404, the last error and 503 each say of the accounts what was so when they were read.
THEOREM RefusalIsTrue == Spec => AnswerMatchesPool
<1> DEFINE Matching(r) ==
             LET kind == answer'[r].kind
                 pool == {c \in Connections : list[r][c].active}
             IN  /\ kind = "no_credentials" => pool = {} /\ excluded[r] = {}
                 /\ kind = "exhausted" => excluded[r] # {} /\ pool \subseteq excluded[r]
                 /\ kind = "unavailable" =>
                      \A c \in pool :
                        c \in excluded[r] \/ GoverningExpiry(list[r][c], model[r]) > now
<1>1. ASSUME SafetyInv, Next, NEW r \in Requests, pc[r] = "selecting", pc'[r] = "done"
      PROVE  Matching(r)
  <2>0. TypeOK /\ answer \in [Requests -> [kind : AnswerKinds, retryAfter : Nat]]
    BY <1>1 DEF SafetyInv, TypeOK
  <2>1. AllRateLimited(r) \/ NoAccountLeft(r) \/ SelectionThrows(r)
    BY <1>1, SelectionEnds
  <2>2. ASSUME Available(r) = {}, NEW c \in Connections, list[r][c].active, c \notin excluded[r]
        PROVE  GoverningExpiry(list[r][c], model[r]) > now
    BY <2>2 DEF Available, ActiveIn, LockedIn, IsModelLockActive
  <2>3. CASE AllRateLimited(r)
    <3>1. Available(r) = {} /\ answer'[r].kind = "unavailable"
      BY <2>0, <2>3 DEF AllRateLimited, Finish
    <3> QED
      BY <2>2, <3>1
  <2>4. CASE NoAccountLeft(r)
    <3>1. /\ Available(r) = {} /\ LockExpiries(r) = {}
          /\ answer'[r].kind = IF excluded[r] = {} THEN "no_credentials" ELSE "exhausted"
      BY <2>0, <2>4 DEF NoAccountLeft, Finish, Answer
    <3>2. \A c \in Connections : list[r][c].active => c \in excluded[r]
      BY <2>0, <2>2, <3>1, GoverningCounts
    <3> QED
      BY <3>1, <3>2
  <2>5. CASE SelectionThrows(r)
    <3>1. answer'[r].kind = "thrown"
      BY <2>0, <2>5 DEF SelectionThrows, Finish, Answer
    <3> QED
      BY <3>1
  <2> QED
    BY <2>1, <2>3, <2>4, <2>5
<1>2. SafetyInv /\ [Next]_vars =>
        [\A r \in Requests : pc[r] = "selecting" /\ pc'[r] = "done" => Matching(r)]_vars
  BY <1>1
<1> QED
  BY <1>2, SafetyInvHolds, PTL DEF Spec, AnswerMatchesPool

\* The Retry-After of a 503 lies ahead, and behind no lock that keeps an account away.
THEOREM RetryAfterInTime == Spec => RetryAfterNotLate
<1>1. SafetyInv /\ [Next]_vars =>
        [\A r \in Requests : pc[r] = "selecting" /\ answer'[r].kind = "unavailable" =>
           /\ answer'[r].retryAfter > now
           /\ \A c \in Connections :
                list[r][c].active /\ GoverningExpiry(list[r][c], model[r]) > now
                  => answer'[r].retryAfter <= GoverningExpiry(list[r][c], model[r])]_vars
  <2> SUFFICES ASSUME SafetyInv, Next, NEW r \in Requests,
                      pc[r] = "selecting", answer'[r].kind = "unavailable"
               PROVE  /\ answer'[r].retryAfter > now
                      /\ \A c \in Connections :
                           list[r][c].active /\ GoverningExpiry(list[r][c], model[r]) > now
                             => answer'[r].retryAfter <= GoverningExpiry(list[r][c], model[r])
    OBVIOUS
  <2>0. TypeOK /\ answer \in [Requests -> [kind : AnswerKinds, retryAfter : Nat]]
    BY DEF SafetyInv, TypeOK
  <2>1. AllRateLimited(r) \/ NoAccountLeft(r) \/ SelectionThrows(r)
    BY SelectionEnds
  <2>2. AllRateLimited(r)
    <3>1. NoAccountLeft(r) \/ SelectionThrows(r) => answer'[r].kind # "unavailable"
      BY <2>0 DEF NoAccountLeft, SelectionThrows, Finish, Answer
    <3> QED
      BY <2>1, <3>1
  <2>3. PICK e \in LockExpiries(r) :
          IsEarliest(e, LockExpiries(r)) /\ answer'[r].retryAfter = e
    BY <2>0, <2>2 DEF AllRateLimited, Finish
  <2>4. e > now
    BY <2>3 DEF LockExpiries, ActiveExpiries
  <2> QED
    BY <2>0, <2>3, <2>4, GoverningCounts DEF IsEarliest
<1> QED
  BY <1>1, SafetyInvHolds, PTL DEF Spec, RetryAfterNotLate

-----------------------------------------------------------------------------
(* What locks an account.                                                   *)

\* An error of the request's own making, which names neither a limit nor a reset time.
RequestsOwn(err) == err.status \in {400, 422} /\ err.texts = {} /\ err.resetsAt = 0

\* No rule of the table matches such an error, and the verdict is to return it.
LEMMA OwnErrorReturned ==
  ASSUME NEW err \in Errors, RequestsOwn(err), NEW level, NEW t \in Nat
  PROVE  ~ Verdict(err, level, t).fallback
<1>1. ~ MonthlyExhausted(err) /\ ~ (err.resetsAt > t)
  BY DEF RequestsOwn, MonthlyExhausted
<1>2. \A rule \in ERROR_RULES : rule.status \notin {400, 422}
  <2>1. \A rank, text, act : TextRule(rank, text, act).status = 0
    BY DEF TextRule
  <2>2. \A rank, status, act : StatusRule(rank, status, act).status = status
    BY DEF StatusRule
  <2>3. \A rule \in TextRules : rule.status = 0
    BY <2>1 DEF TextRules
  <2>4. \A rule \in StatusRules : rule.status \notin {400, 422}
    BY <2>2 DEF StatusRules
  <2> QED
    BY <2>3, <2>4 DEF ERROR_RULES
<1>3. FirstMatch(err) = {}
  BY <1>2 DEF FirstMatch, Matches, RequestsOwn
<1>4. RequestScoped(err.status)
  BY DEF RequestScoped, RequestsOwn
<1>5. CheckFallbackError(err, level) = NoFallback
  BY <1>3, <1>4 DEF CheckFallbackError
<1> QED
  BY <1>1, <1>5 DEF Verdict, NoFallback

\* The lock a request is about to write is that of its model or the account-wide one,
\* for an error that is not its own making.
PatchInv ==
  \A r \in Requests :
    pc[r] = "marking" => patch[r].key \in {model[r], AllKey} /\ ~ RequestsOwn(error[r])

\* The patch is made where the error is judged, and neither changes until it is written.
LEMMA PatchStep ==
  ASSUME SafetyInv, PatchInv, [Next]_vars
  PROVE  PatchInv'
<1>0. /\ TypeOK /\ ControlOK /\ pc \in [Requests -> Phases] /\ patch \in [Requests -> Patches]
      /\ error \in [Requests -> Errors] /\ now \in Nat
  BY DEF SafetyInv, TypeOK
<1>1. CASE UNCHANGED vars \/ ~ \E r \in Requests : RequestStep(r)
  <2>1. UNCHANGED <<pc, model, patch, error>>
    BY <1>1 DEF vars, reqVars, Next, TestConnection, SetActive, ClearCooldown,
                ClearCooldownWrite, Tick
  <2> QED
    BY <2>1 DEF PatchInv, RequestsOwn
<1>2. ASSUME NEW r \in Requests, MarkRead(r)
      PROVE  PatchInv'
  <2>1. ~ RequestsOwn(error[r])
    BY <1>0, <1>2, OwnErrorReturned DEF MarkRead, VerdictOf
  <2>2. /\ patch'[r].key \in {model[r], AllKey}
        /\ \A q \in Requests \ {r} : patch'[q] = patch[q] /\ pc'[q] = pc[q]
        /\ UNCHANGED <<model, error>>
    BY <1>0, <1>2 DEF MarkRead
  <2> QED
    BY <2>1, <2>2 DEF PatchInv, RequestsOwn
<1>3. ASSUME NEW r \in Requests, RequestStep(r), ~ MarkRead(r)
      PROVE  PatchInv'
  <2>1. /\ pc'[r] # "marking" /\ model' = model
        /\ \A q \in Requests \ {r} :
             pc'[q] = pc[q] /\ patch'[q] = patch[q] /\ error'[q] = error[q]
    BY <1>0, <1>3 DEF RequestStep, Start, ReadConnections, SelectFillFirst, SelectSticky,
       SelectRotate, Dispatch, AllRateLimited, NoAccountLeft, SelectionThrows, Finish,
       UpstreamOk, UpstreamFails, SeesError, ClearAccountError, SuccessNotRecorded,
       SuccessThenFails, ReturnError, MarkWrite, RequestThrows
  <2> QED
    BY <2>1 DEF PatchInv, RequestsOwn
<1> QED
  BY <1>1, <1>2, <1>3

\* Every other writer of a record leaves a lock as it is or clears it.
LEMMA WritersClear ==
  ASSUME NEW c \in Conn, NEW k \in LockKeys
  PROVE  /\ Activated(c).lock[k] \in {Absent, Null}
         /\ \A keys : ClearedKeys(c, keys).lock[k] \in {c.lock[k], Null}
         /\ \A snap, m, t : AfterSuccess(c, snap, m, t).lock[k] \in {c.lock[k], Absent, Null}
<1>1. Activated(c).lock[k] \in {Absent, Null}
  BY DEF Activated, Conn
<1>2. \A keys : ClearedKeys(c, keys).lock[k] \in {c.lock[k], Null}
  BY DEF ClearedKeys, Conn
<1> QED
  BY <1>1, <1>2 DEF AfterSuccess

\* A lock appears or grows only on the account that a failing request is using.
LEMMA LockWrites ==
  ASSUME SafetyInv, Next, NEW c \in Connections, NEW k \in LockKeys
  PROVE  \/ conn'[c].lock[k] \in {conn[c].lock[k], Absent, Null}
         \/ \E r \in Requests : MarkWrite(r) /\ current[r] = c /\ k = patch[r].key
<1>0. /\ conn \in [Connections -> Conn] /\ conn[c] \in Conn /\ sweep \subseteq Sweeps
      /\ current \in [Requests -> Connections \cup {NoConn}]
  BY DEF SafetyInv, TypeOK
<1>1. ASSUME NEW d \in Connections, NEW after, conn' = [conn EXCEPT ![d] = after],
             d = c => after.lock[k] \in {conn[c].lock[k], Absent, Null}
      PROVE  conn'[c].lock[k] \in {conn[c].lock[k], Absent, Null}
  BY <1>0, <1>1
<1>2. ASSUME NEW r \in Requests, ClearAccountError(r) \/ SuccessThenFails(r)
      PROVE  conn'[c].lock[k] \in {conn[c].lock[k], Absent, Null}
  <2>1. current[r] \in Connections
    BY <1>2 DEF SafetyInv, TypeOK, ControlOK, InUse, ClearAccountError, SuccessThenFails
  <2> DEFINE after == AfterSuccess(conn[current[r]], held[r], model[r], now)
  <2>2. current[r] = c => after.lock[k] \in {conn[c].lock[k], Absent, Null}
    BY <1>0, WritersClear
  <2>3. conn' = conn \/ conn' = [conn EXCEPT ![current[r]] = after]
    BY <1>2 DEF ClearAccountError, SuccessThenFails, SuccessRecorded
  <2> HIDE DEF after
  <2> QED
    BY <1>1, <2>1, <2>2, <2>3
<1>3. ASSUME NEW r \in Requests, SelectSticky(r) \/ SelectRotate(r)
      PROVE  conn'[c].lock[k] \in {conn[c].lock[k], Absent, Null}
  <2>0. PICK d \in Connections : \E n : WriteUse(d, n)
    BY <1>3 DEF SelectSticky, SelectRotate, Available, ActiveIn
  <2>1. PICK count : WriteUse(d, count)
    BY <2>0
  <2>2. conn[d] \in Conn
    BY <1>0
  <2>3. [conn[d] EXCEPT !.lastUsed = now, !.useCount = count].lock = conn[d].lock
    BY <2>2 DEF Conn
  <2> QED
    BY <1>1, <2>1, <2>3 DEF WriteUse
<1>4. ASSUME NEW r \in Requests, MarkWrite(r)
      PROVE  \/ conn'[c].lock[k] \in {conn[c].lock[k], Absent, Null}
             \/ current[r] = c /\ k = patch[r].key
  <2>1. current[r] \in Connections
    BY <1>4 DEF SafetyInv, TypeOK, ControlOK, InUse, MarkWrite
  <2> DEFINE after == Locked(conn[current[r]], patch[r].key, patch[r].until, patch[r].level)
  <2>2. current[r] = c /\ k # patch[r].key => after.lock[k] = conn[c].lock[k]
    BY <1>0 DEF Locked, Conn
  <2>3. conn' = [conn EXCEPT ![current[r]] = after]
    BY <1>4 DEF MarkWrite
  <2> HIDE DEF after
  <2> QED
    BY <1>1, <2>1, <2>2, <2>3
<1>5. ASSUME NEW d \in Connections, TestConnection(d)
      PROVE  conn'[c].lock[k] \in {conn[c].lock[k], Absent, Null}
  <2>1. PICK tested \in {Activated(conn[d]), [Activated(conn[d]) EXCEPT !.failed = TRUE],
                         [conn[d] EXCEPT !.status = "error", !.failed = TRUE]} :
          conn' = [conn EXCEPT ![d] = tested]
    BY <1>5 DEF TestConnection
  <2>2. conn[d] \in Conn /\ Activated(conn[d]) \in Conn
    BY <1>0, ConnWriters
  <2>3. tested.lock \in {Activated(conn[d]).lock, conn[d].lock}
    BY <2>1, <2>2 DEF Conn
  <2>4. tested.lock[k] \in {conn[d].lock[k], Absent, Null}
    BY <2>2, <2>3, WritersClear
  <2> QED
    BY <1>1, <2>1, <2>4
<1>6. ASSUME NEW d \in Connections, SetActive(d)
      PROVE  conn'[c].lock[k] \in {conn[c].lock[k], Absent, Null}
  <2>1. conn[d] \in Conn
    BY <1>0
  <2>2. [conn[d] EXCEPT !.active = ~conn[d].active].lock = conn[d].lock
    BY <2>1 DEF Conn
  <2> QED
    BY <1>1, <1>6, <2>2 DEF SetActive
<1>7. ASSUME NEW w \in sweep, ClearCooldownWrite(w)
      PROVE  conn'[c].lock[k] \in {conn[c].lock[k], Absent, Null}
  <2>1. w.id \in Connections /\ conn[w.id] \in Conn
    BY <1>0 DEF Sweeps
  <2> DEFINE after == IF w.status = "unavailable" THEN Activated(conn[w.id])
                      ELSE ClearedKeys(conn[w.id], {w.key})
  <2>2. after.lock[k] \in {conn[w.id].lock[k], Absent, Null}
    BY <2>1, WritersClear
  <2>3. conn' = [conn EXCEPT ![w.id] = after]
    BY <1>7 DEF ClearCooldownWrite
  <2> HIDE DEF after
  <2> QED
    BY <1>1, <2>1, <2>2, <2>3
<1>8. \/ conn' = conn
      \/ \E r \in Requests :
           \/ SelectSticky(r) \/ SelectRotate(r)
           \/ ClearAccountError(r) \/ SuccessThenFails(r) \/ MarkWrite(r)
      \/ \E d \in Connections : TestConnection(d) \/ SetActive(d)
      \/ \E w \in sweep : ClearCooldownWrite(w)
  BY DEF Next, RequestStep, Start, ReadConnections, SelectFillFirst, AllRateLimited,
         NoAccountLeft, SelectionThrows, UpstreamOk, UpstreamFails, SuccessNotRecorded, MarkRead,
         ReturnError, RequestThrows, ClearCooldown, Tick
<1> QED
  BY <1>2, <1>3, <1>4, <1>5, <1>6, <1>7, <1>8

\* Only a rule with the text "free models" refuses without a fallback, so the verdict to
\* return an error is given for that text or for a client error.
LEMMA ReturnedErrors ==
  ASSUME NEW err \in Errors, NEW level, NEW t \in Nat, ~ Verdict(err, level, t).fallback
  PROVE  err.status \in 400 .. 499 \/ "free models" \in err.texts
<1>1. \A cooldown, new : CoolFor(cooldown, new).fallback
  BY DEF CoolFor
<1>2. ~ CheckFallbackError(err, level).fallback
  BY <1>1 DEF Verdict
<1>3. \/ \E rule \in FirstMatch(err) : rule.act = "noFallback"
      \/ RequestScoped(err.status)
  BY <1>1, <1>2 DEF CheckFallbackError
<1>4. \A rule \in ERROR_RULES :
        rule.act = "noFallback" => rule.text = "free models" /\ rule.status = 0
  <2>1. \A rank, text, act : /\ TextRule(rank, text, act).act = act
                             /\ TextRule(rank, text, act).text = text
                             /\ TextRule(rank, text, act).status = 0
    BY DEF TextRule
  <2>2. \A rank, status, act : StatusRule(rank, status, act).act = act
    BY DEF StatusRule
  <2>3. ASSUME NEW rule \in TextRules, rule.act = "noFallback"
        PROVE  rule.text = "free models" /\ rule.status = 0
    <3>1. rule = TextRule(1, "free models", "noFallback")
          \/ \E rank, text : \E act \in {"long", "short", "backoff"} : rule = TextRule(rank, text, act)
      BY Zenon DEF TextRules
    <3>2. \A rank, text : \A act \in {"long", "short", "backoff"} :
            rule # TextRule(rank, text, act)
      BY <2>1, <2>3
    <3>3. rule = TextRule(1, "free models", "noFallback")
      BY <3>1, <3>2
    <3> QED
      BY <3>3 DEF TextRule
  <2>4. \A rule \in StatusRules : rule.act # "noFallback"
    BY <2>2 DEF StatusRules
  <2> QED
    BY <2>3, <2>4 DEF ERROR_RULES
<1>5. CASE RequestScoped(err.status)
  BY <1>5 DEF RequestScoped
<1>6. ASSUME NEW rule \in FirstMatch(err), rule.act = "noFallback"
      PROVE  "free models" \in err.texts
  BY <1>4, <1>6 DEF FirstMatch, Matches
<1> QED
  BY <1>3, <1>5, <1>6

\* An account is locked only for an error that is about the account, and an error goes
\* to the client only when it is about the request, whatever the rules say of the
\* wording and however the writes of others interleave.
THEOREM LocksAreEarned == Spec => LocksGoByTheError
<1> DEFINE Earned(c, k) ==
             conn'[c].lock[k] > conn[c].lock[k] /\ conn'[c].lock[k] > Null =>
               \E r \in Requests :
                 /\ current[r] = c /\ pc[r] = "marking"
                 /\ k \in {model[r], AllKey}
                 /\ ~(error[r].status \in {400, 422} /\ error[r].texts = {} /\ error[r].resetsAt = 0)
           Returned(r) ==
             pc[r] = "failed" /\ answer'[r].kind = "upstream_error" =>
               error[r].status \in 400 .. 499 \/ "free models" \in error[r].texts
<1>1. Init => PatchInv
  BY DEF Init, PatchInv
<1>2. SafetyInv /\ PatchInv /\ [Next]_vars => PatchInv'
  BY PatchStep
<1>3. ASSUME SafetyInv, PatchInv, Next, NEW c \in Connections, NEW k \in LockKeys
      PROVE  Earned(c, k)
  <2>1. conn[c].lock[k] \in Int
    BY <1>3 DEF SafetyInv, TypeOK, Conn, Absent
  <2>2. CASE conn'[c].lock[k] \in {conn[c].lock[k], Absent, Null}
    BY <2>1, <2>2 DEF Absent, Null
  <2>3. ASSUME NEW r \in Requests, MarkWrite(r), current[r] = c, k = patch[r].key
        PROVE  Earned(c, k)
    BY <1>3, <2>3 DEF MarkWrite, PatchInv, RequestsOwn
  <2> QED
    BY <1>3, <2>2, <2>3, LockWrites
<1>4. ASSUME SafetyInv, PatchInv, Next, NEW r \in Requests
      PROVE  Returned(r)
  <2>0. /\ error[r] \in Errors /\ now \in Nat /\ pc \in [Requests -> Phases]
        /\ answer \in [Requests -> [kind : AnswerKinds, retryAfter : Nat]]
        /\ pc[r] = "failed" => answer[r].kind # "upstream_error"
    BY <1>4 DEF SafetyInv, TypeOK, ControlOK
  <2>1. ASSUME pc[r] = "failed", answer'[r] # answer[r], answer'[r].kind = "upstream_error"
        PROVE  ~ VerdictOf(r).fallback
    <3>1. \A q \in Requests : \A a : Finish(q, a) =>
            answer'[q] = a /\ \A p \in Requests \ {q} : answer'[p] = answer[p]
      BY <2>0 DEF Finish
    <3>2. PICK q \in Requests : RequestStep(q)
      BY <1>4, <2>1 DEF Next, TestConnection, SetActive, ClearCooldown, ClearCooldownWrite,
                        Tick, reqVars
    <3>3. q = r
      BY <2>1, <3>1, <3>2
         DEF RequestStep, Start, ReadConnections, SelectFillFirst, SelectSticky, SelectRotate,
             Dispatch, AllRateLimited, NoAccountLeft, SelectionThrows, UpstreamOk,
             UpstreamFails, ClearAccountError, SuccessNotRecorded, SuccessThenFails, MarkRead,
             ReturnError, MarkWrite, RequestThrows
    <3>4. MarkRead(r) \/ ReturnError(r) \/ RequestThrows(r)
      BY <2>1, <3>2, <3>3
         DEF RequestStep, Start, ReadConnections, SelectFillFirst, SelectSticky, SelectRotate,
             Dispatch, AllRateLimited, NoAccountLeft, SelectionThrows, Selecting, UpstreamOk,
             UpstreamFails, ClearAccountError, SuccessNotRecorded, SuccessThenFails, MarkWrite
    <3> QED
      BY <2>1, <3>1, <3>4 DEF MarkRead, ReturnError, RequestThrows, Answer
  <2> QED
    BY <2>0, <2>1, ReturnedErrors DEF VerdictOf
<1>5. SafetyInv /\ PatchInv /\ [Next]_vars =>
        [/\ \A c \in Connections, k \in LockKeys : Earned(c, k)
         /\ \A r \in Requests : Returned(r)]_vars
  BY <1>3, <1>4
<1> QED
  BY <1>1, <1>2, <1>5, SafetyInvHolds, PTL DEF Spec, LocksGoByTheError

-----------------------------------------------------------------------------
(* What a success resets.                                                   *)

\* A success that makes an unavailable account active saw no lock of another model that
\* was still running when the account was selected.
LEMMA ResetSawNoLock ==
  ASSUME NEW stored \in Conn, NEW snap \in Conn, NEW m \in Models, NEW t \in Nat,
         stored.status = "unavailable", AfterSuccess(stored, snap, m, t).status = "active",
         NEW k \in Models \ {m}
  PROVE  snap.lock[k] <= t
<1>1. k \in LockKeys /\ k \notin {m, AllKey} /\ snap.lock[k] \in Int
  BY DurationAssumption DEF LockKeys, Conn, Absent
<1>2. \A keys : ClearedKeys(stored, keys).status = stored.status
  BY DEF ClearedKeys, Conn
<1>3. RemainingLocks(snap, m, t) = {}
  BY <1>2 DEF AfterSuccess
<1>4. SUFFICES ASSUME snap.lock[k] > t PROVE FALSE
  BY <1>1
<1>5. k \in PresentKeys(snap)
  BY <1>1, <1>4 DEF PresentKeys, Absent
<1>6. k \notin KeysToClear(snap, m, t)
  BY <1>1, <1>4 DEF KeysToClear
<1> QED
  BY <1>3, <1>4, <1>5, <1>6 DEF RemainingLocks

\* What ResetOnlyWithoutActiveLocks fails by, and nothing else: the locks that a success
\* wipes were not there, or not running, in the record as it was selected.
THEOREM ResetGoesByTheSnapshot ==
  Spec => [][\A r \in Requests : pc[r] = "succeeded" /\ pc'[r] = "done" =>
               LET c == current[r]
               IN  conn[c].status = "unavailable" /\ conn'[c].status = "active"
                     => \A k \in Models \ {model[r]} : held[r].lock[k] <= now]_vars
<1> DEFINE Seen(r) ==
             LET c == current[r]
             IN  conn[c].status = "unavailable" /\ conn'[c].status = "active"
                   => \A k \in Models \ {model[r]} : held[r].lock[k] <= now
<1>1. ASSUME SafetyInv, Next, NEW r \in Requests, pc[r] = "succeeded", pc'[r] = "done"
      PROVE  Seen(r)
  <2>0. TypeOK /\ ControlOK /\ pc \in [Requests -> Phases]
    BY <1>1 DEF SafetyInv, TypeOK
  <2>1. ClearAccountError(r) \/ SuccessNotRecorded(r)
    <3>1. PICK q \in Requests : RequestStep(q)
      BY <1>1 DEF Next, TestConnection, SetActive, ClearCooldown, ClearCooldownWrite, Tick, reqVars
    <3>2. q = r
      <4>1. \E phase \in Phases : pc' = [pc EXCEPT ![q] = phase]
        BY <3>1 DEF Phases, RequestStep, Start, ReadConnections, SelectFillFirst, SelectSticky,
           SelectRotate, Dispatch, AllRateLimited, NoAccountLeft, SelectionThrows, Finish,
           UpstreamOk, UpstreamFails, SeesError, ClearAccountError, SuccessNotRecorded,
           SuccessThenFails, MarkRead, ReturnError, MarkWrite, RequestThrows
      <4> QED
        BY <1>1, <2>0, <4>1
    <3> QED
      BY <1>1, <2>0, <3>1, <3>2 DEF RequestStep, Start, ReadConnections, SelectFillFirst,
         SelectSticky, SelectRotate, Dispatch, AllRateLimited, NoAccountLeft, SelectionThrows,
         Selecting, UpstreamOk, UpstreamFails, SuccessThenFails, SeesError, MarkRead,
         ReturnError, MarkWrite, RequestThrows
  <2> DEFINE c == current[r]
  <2>2. /\ c \in Connections /\ conn[c] \in Conn /\ held[r] \in Conn /\ model[r] \in Models
        /\ now \in Nat
    BY <1>1, <2>0 DEF TypeOK, ControlOK, InUse
  <2>3. CASE SuccessNotRecorded(r)
    BY <2>3 DEF SuccessNotRecorded
  <2>4. CASE ClearAccountError(r)
    <3>1. conn'[c] = AfterSuccess(conn[c], held[r], model[r], now)
      BY <2>0, <2>2, <2>4 DEF ClearAccountError, SuccessRecorded, TypeOK
    <3> HIDE DEF c
    <3>2. conn[c].status = "unavailable" /\ conn'[c].status = "active"
            => \A k \in Models \ {model[r]} : held[r].lock[k] <= now
      BY <2>2, <3>1, ResetSawNoLock
    <3> QED
      BY <3>2 DEF c
  <2> QED
    BY <2>1, <2>3, <2>4
<1>2. SafetyInv /\ [Next]_vars =>
        [\A r \in Requests : pc[r] = "succeeded" /\ pc'[r] = "done" => Seen(r)]_vars
  BY <1>1
<1> QED
  BY <1>2, SafetyInvHolds, PTL DEF Spec

-----------------------------------------------------------------------------
(* Round-robin bookkeeping.                                                 *)

SameUse(c, d) == c.lastUsed = d.lastUsed /\ c.useCount = d.useCount

\* The health writers leave the rotation fields alone.
LEMMA WritersKeepUse ==
  ASSUME NEW c \in Conn
  PROVE  /\ SameUse(Activated(c), c)
         /\ \A keys : SameUse(ClearedKeys(c, keys), c)
         /\ \A key, until, level : SameUse(Locked(c, key, until, level), c)
         /\ \A snap, m, t : SameUse(AfterSuccess(c, snap, m, t), c)
<1>1. SameUse(Activated(c), c) /\ (\A keys : SameUse(ClearedKeys(c, keys), c))
  BY DEF SameUse, Activated, ClearedKeys, Conn
<1>2. \A key, until, level : SameUse(Locked(c, key, until, level), c)
  BY DEF SameUse, Locked, Conn
<1>3. \A snap, m, t : SameUse(AfterSuccess(c, snap, m, t), c)
  BY <1>1 DEF AfterSuccess, SameUse
<1> QED
  BY <1>1, <1>2, <1>3

\* Only a round-robin selection, which holds the mutex, writes the rotation fields,
\* and it counts on from the value it read, below the limit.
LEMMA UseWrites ==
  ASSUME SafetyInv, Next
  PROVE  \/ \A c \in Connections : SameUse(conn'[c], conn[c])
         \/ \E r \in Requests, c \in Connections, count \in Nat :
              /\ pc[r] = "selecting" /\ pc'[r] = "upstream"
              /\ \A q \in Requests : q # r => pc'[q] = pc[q]
              /\ WriteUse(c, count)
              /\ count <= StickyLimit
<1>0. /\ conn \in [Connections -> Conn] /\ sweep \subseteq Sweeps
      /\ list \in [Requests -> [Connections -> Conn]] /\ pc \in [Requests -> Phases]
      /\ current \in [Requests -> Connections \cup {NoConn}]
  BY DEF SafetyInv, TypeOK
<1>1. ASSUME NEW r \in Requests, SelectSticky(r) \/ SelectRotate(r)
      PROVE  \E c \in Connections, count \in Nat :
               /\ pc[r] = "selecting" /\ pc'[r] = "upstream"
               /\ \A q \in Requests : q # r => pc'[q] = pc[q]
               /\ WriteUse(c, count)
               /\ count <= StickyLimit
  <2>1. CASE SelectSticky(r)
    <3>1. PICK c \in Connections :
            /\ StaysSticky(list[r][c]) /\ Dispatch(r, c)
            /\ WriteUse(c, list[r][c].useCount + 1)
      BY <2>1 DEF SelectSticky, Available, ActiveIn
    <3>2. /\ list[r][c].useCount + 1 \in Nat
          /\ list[r][c].useCount + 1 <= StickyLimit
      BY <1>0, <3>1, FallbackAssumption DEF StaysSticky, Conn
    <3> QED
      BY <1>0, <3>1, <3>2 DEF Dispatch
  <2>2. CASE SelectRotate(r)
    <3>1. PICK c \in Connections : Dispatch(r, c) /\ WriteUse(c, 1)
      BY <2>2 DEF SelectRotate, Available, ActiveIn
    <3>2. 1 \in Nat /\ 1 <= StickyLimit
      BY FallbackAssumption
    <3> QED
      BY <1>0, <3>1, <3>2 DEF Dispatch
  <2> QED
    BY <1>1, <2>1, <2>2
<1>2. ASSUME NEW r \in Requests, ClearAccountError(r) \/ SuccessThenFails(r)
      PROVE  \A c \in Connections : SameUse(conn'[c], conn[c])
  BY <1>0, <1>2, WritersKeepUse
     DEF ClearAccountError, SuccessThenFails, SuccessRecorded, SameUse
<1>3. ASSUME NEW r \in Requests, MarkWrite(r)
      PROVE  \A c \in Connections : SameUse(conn'[c], conn[c])
  BY <1>0, <1>3, WritersKeepUse DEF MarkWrite, SameUse
<1>4. ASSUME NEW c \in Connections, TestConnection(c)
      PROVE  \A d \in Connections : SameUse(conn'[d], conn[d])
  <2>1. Activated(conn[c]) \in Conn /\ SameUse(Activated(conn[c]), conn[c])
    BY <1>0, ConnWriters, WritersKeepUse
  <2>2. PICK tested \in {Activated(conn[c]), [Activated(conn[c]) EXCEPT !.failed = TRUE],
                         [conn[c] EXCEPT !.status = "error", !.failed = TRUE]} :
          conn' = [conn EXCEPT ![c] = tested]
    BY <1>4 DEF TestConnection
  <2>3. SameUse(tested, conn[c])
    BY <1>0, <2>1 DEF SameUse, Conn
  <2> QED
    BY <1>0, <2>2, <2>3 DEF SameUse
<1>5. ASSUME NEW c \in Connections, SetActive(c)
      PROVE  \A d \in Connections : SameUse(conn'[d], conn[d])
  BY <1>0, <1>5 DEF SetActive, SameUse, Conn
<1>6. ASSUME NEW w \in sweep, ClearCooldownWrite(w)
      PROVE  \A d \in Connections : SameUse(conn'[d], conn[d])
  BY <1>0, <1>6, WritersKeepUse DEF ClearCooldownWrite, SameUse, Sweeps
<1>7. CASE conn' = conn
  BY <1>7 DEF SameUse
<1>8. \/ conn' = conn
      \/ \E r \in Requests :
           \/ SelectSticky(r) \/ SelectRotate(r)
           \/ ClearAccountError(r) \/ SuccessThenFails(r) \/ MarkWrite(r)
      \/ \E c \in Connections : TestConnection(c) \/ SetActive(c)
      \/ \E w \in sweep : ClearCooldownWrite(w)
  BY DEF Next, RequestStep, Start, ReadConnections, SelectFillFirst, AllRateLimited,
         NoAccountLeft, SelectionThrows, UpstreamOk, UpstreamFails, SuccessNotRecorded, MarkRead,
         ReturnError, RequestThrows, ClearCooldown, Tick
<1> QED
  BY <1>1, <1>2, <1>3, <1>4, <1>5, <1>6, <1>7, <1>8

\* No account is ever counted beyond the sticky limit.
THEOREM StickyBound == Spec => []StickyWithinLimit
<1>1. Init => StickyWithinLimit
  BY FallbackAssumption DEF Init, StickyWithinLimit
<1>2. SafetyInv /\ StickyWithinLimit /\ [Next]_vars => StickyWithinLimit'
  <2> SUFFICES ASSUME SafetyInv, StickyWithinLimit, [Next]_vars, NEW d \in Connections
               PROVE  conn'[d].useCount <= StickyLimit
    BY DEF StickyWithinLimit
  <2>0. conn \in [Connections -> Conn]
    BY DEF SafetyInv, TypeOK
  <2>1. CASE UNCHANGED vars
    BY <2>1 DEF vars, StickyWithinLimit
  <2>2. CASE Next /\ \A c \in Connections : SameUse(conn'[c], conn[c])
    BY <2>2 DEF SameUse, StickyWithinLimit
  <2>3. ASSUME NEW c \in Connections, NEW count \in Nat, WriteUse(c, count), count <= StickyLimit
        PROVE  conn'[d].useCount <= StickyLimit
    BY <2>0, <2>3 DEF WriteUse, StickyWithinLimit, Conn
  <2> QED
    BY <2>1, <2>2, <2>3, UseWrites
<1> QED
  BY <1>1, <1>2, SafetyInvHolds, PTL DEF Spec

\* What a selection read of the rotation is what it overwrites: by mutual exclusion
\* the one writer of those fields is the selection itself.
THEOREM NoLostUse == Spec => []RotationStateFresh
<1>1. Init => RotationStateFresh
  BY DEF Init, RotationStateFresh
<1>2. SafetyInv /\ RotationStateFresh /\ [Next]_vars => RotationStateFresh'
  <2> SUFFICES ASSUME SafetyInv, RotationStateFresh, [Next]_vars,
                      NEW r \in Requests, pc'[r] = "selecting", NEW d \in Connections
               PROVE  SameUse(list'[r][d], conn'[d])
    BY DEF RotationStateFresh, SameUse
  <2>0. /\ pc \in [Requests -> Phases] /\ list \in [Requests -> [Connections -> Conn]]
        /\ conn \in [Connections -> Conn] /\ SelectionExclusive
    BY ChainExcludes DEF SafetyInv, TypeOK
  <2>1. CASE UNCHANGED vars
    BY <2>1 DEF vars, reqVars, RotationStateFresh, SameUse
  <2>2. CASE Next /\ ReadConnections(r)
    BY <2>0, <2>2 DEF ReadConnections, SameUse
  <2>3. CASE Next /\ ~ReadConnections(r)
    <3>1. pc[r] = "selecting" /\ list'[r] = list[r]
      <4>1. ASSUME NEW q \in Requests, RequestStep(q)
            PROVE  pc[r] = "selecting" /\ list'[r] = list[r]
        BY <2>0, <2>3, <4>1
           DEF RequestStep, Start, ReadConnections, SelectFillFirst, SelectSticky,
               SelectRotate, Dispatch, AllRateLimited, NoAccountLeft, SelectionThrows, Finish,
               UpstreamOk, UpstreamFails, SeesError, ClearAccountError, SuccessNotRecorded,
               SuccessThenFails, MarkRead, ReturnError, MarkWrite, RequestThrows
      <4>2. ASSUME ~\E q \in Requests : RequestStep(q)
            PROVE  UNCHANGED <<pc, list>>
        BY <2>3, <4>2 DEF Next, TestConnection, SetActive, ClearCooldown, ClearCooldownWrite,
                          Tick, reqVars
      <4> QED
        BY <4>1, <4>2
    <3>2. SameUse(list[r][d], conn[d])
      BY <3>1 DEF RotationStateFresh, SameUse
    <3>3. CASE \A c \in Connections : SameUse(conn'[c], conn[c])
      BY <3>1, <3>2, <3>3 DEF SameUse
    <3>4. ASSUME NEW q \in Requests, pc[q] = "selecting", pc'[q] = "upstream"
          PROVE  FALSE
      <4>1. q = r
        BY <2>0, <3>1, <3>4 DEF SelectionExclusive, Selecting
      <4> QED
        BY <3>4, <4>1
    <3> QED
      BY <2>3, <3>3, <3>4, UseWrites
  <2> QED
    BY <2>1, <2>2, <2>3
<1> QED
  BY <1>1, <1>2, SafetyInvHolds, PTL DEF Spec


-----------------------------------------------------------------------------
(* The fallback loop implements RequestContract.                            *)

Outcome == [r \in Requests |-> answer[r].kind]

\* Ending a request gives it the outcome of its answer.
LEMMA OutcomeOfFinish ==
  ASSUME TypeOK, NEW r \in Requests, NEW a, Finish(r, a)
  PROVE  Outcome' = [Outcome EXCEPT ![r] = a.kind]
BY DEF Outcome, Finish, TypeOK

\* A request that ends while an account is in use answers from that account.
LEMMA FinishInUse ==
  ASSUME TypeOK, ControlOK, NEW r \in Requests, pc[r] \in InUse,
         NEW kind \in {"ok", "upstream_error", "thrown"}, Finish(r, Answer(kind))
  PROVE  Contract!AnswerFromAccount(r)
<1>1. Outcome' = [Outcome EXCEPT ![r] = kind]
  BY OutcomeOfFinish DEF Answer
<1>2. Outcome[r] = "pending" /\ current[r] # NoConn
  BY DEF ControlOK, InUse, Outcome
<1>3. current' = [current EXCEPT ![r] = NoConn] /\ excluded' = excluded
  BY DEF Finish
<1> QED
  BY <1>1, <1>2, <1>3 DEF Contract!AnswerFromAccount, Outcome

\* A request that ends in its selection call refuses.
LEMMA FinishInCall ==
  ASSUME TypeOK, ControlOK, NEW r \in Requests, pc[r] \in InCall, NEW a, Finish(r, a),
         a.kind \in {"unavailable", "thrown",
                     IF excluded[r] = {} THEN "no_credentials" ELSE "exhausted"}
  PROVE  Contract!Refuse(r)
<1>1. Outcome' = [Outcome EXCEPT ![r] = a.kind]
  BY OutcomeOfFinish
<1>2. Outcome[r] = "pending" /\ current[r] = NoConn
  BY DEF ControlOK, InUse, InCall, Outcome
<1>3. current' = current /\ excluded' = excluded
  BY <1>2 DEF Finish, TypeOK
<1> QED
  BY <1>1, <1>2, <1>3 DEF Contract!Refuse, Outcome

\* A step of a request is one of the contract or invisible to the client.
LEMMA RequestStepRefines ==
  ASSUME TypeOK, ControlOK, NEW r \in Requests, RequestStep(r)
  PROVE  Contract!Next \/ UNCHANGED Contract!vars
<1>1. CASE \/ Start(r) \/ ReadConnections(r) \/ UpstreamOk(r) \/ UpstreamFails(r)
           \/ SuccessThenFails(r) \/ MarkRead(r)
  BY <1>1 DEF Start, ReadConnections, UpstreamOk, UpstreamFails, SuccessThenFails, MarkRead,
              Contract!vars
<1>2. CASE SelectFillFirst(r) \/ SelectSticky(r) \/ SelectRotate(r)
  <2>1. PICK c \in Connections : Dispatch(r, c)
    BY <1>2 DEF SelectFillFirst, SelectSticky, SelectRotate, Available, ActiveIn
  <2>2. /\ Outcome[r] = "pending" /\ current[r] = NoConn /\ c \notin excluded[r]
        /\ current' = [current EXCEPT ![r] = c] /\ UNCHANGED <<excluded, answer>>
    BY <2>1 DEF Dispatch, Available, ControlOK, InUse, Outcome
  <2>3. Contract!Serve(r, c)
    BY <2>2 DEF Contract!Serve, Outcome
  <2> QED
    BY <2>3 DEF Contract!Next
<1>3. CASE AllRateLimited(r) \/ NoAccountLeft(r) \/ SelectionThrows(r)
  <2>1. pc[r] \in InCall
    BY <1>3 DEF AllRateLimited, NoAccountLeft, SelectionThrows, Selecting, InCall
  <2>2. ASSUME AllRateLimited(r)
        PROVE  Contract!Refuse(r)
    <3>1. PICK e : Finish(r, [kind |-> "unavailable", retryAfter |-> e])
      BY <2>2 DEF AllRateLimited
    <3> QED
      BY <2>1, <3>1, FinishInCall
  <2>3. ASSUME NoAccountLeft(r) \/ SelectionThrows(r)
        PROVE  Contract!Refuse(r)
    <3>1. PICK kind \in {"thrown",
                         IF excluded[r] = {} THEN "no_credentials" ELSE "exhausted"} :
            Finish(r, Answer(kind))
      BY <2>3 DEF NoAccountLeft, SelectionThrows
    <3>2. Answer(kind).kind = kind
      BY DEF Answer
    <3> QED
      BY <2>1, <3>1, <3>2, FinishInCall
  <2>4. Contract!Refuse(r)
    BY <1>3, <2>2, <2>3
  <2> QED
    BY <2>4 DEF Contract!Next
<1>4. CASE \/ ClearAccountError(r) \/ SuccessNotRecorded(r) \/ ReturnError(r)
           \/ RequestThrows(r)
  <2>1. PICK kind \in {"ok", "upstream_error", "thrown"} : Finish(r, Answer(kind))
    BY <1>4 DEF ClearAccountError, SuccessNotRecorded, ReturnError, RequestThrows
  <2>2. pc[r] \in InUse
    BY <1>4 DEF ClearAccountError, SuccessNotRecorded, ReturnError, RequestThrows, InUse
  <2>3. Contract!AnswerFromAccount(r)
    BY <2>1, <2>2, FinishInUse
  <2> QED
    BY <2>3 DEF Contract!Next
<1>5. CASE MarkWrite(r)
  <2>1. current[r] # NoConn
    BY <1>5 DEF MarkWrite, ControlOK, InUse
  <2>2. /\ excluded' = [excluded EXCEPT ![r] = excluded[r] \cup {current[r]}]
        /\ current' = [current EXCEPT ![r] = NoConn] /\ answer' = answer
    BY <1>5 DEF MarkWrite
  <2>3. Contract!FallOver(r)
    BY <2>1, <2>2 DEF Contract!FallOver
  <2> QED
    BY <2>3 DEF Contract!Next
<1> QED
  BY <1>1, <1>2, <1>3, <1>4, <1>5 DEF RequestStep

\* Every behaviour of the fallback loop is one of the contract: an account is never
\* tried twice for a request, and the answer matches what was tried.
THEOREM FallbackKeepsContract == Spec => KeepsContract
<1>1. Init => Contract!Init
  BY DEF Init, Contract!Init, Answer
<1>2. SafetyInv /\ [Next]_vars => [Contract!Next]_(Contract!vars)
  <2> SUFFICES ASSUME SafetyInv, [Next]_vars
               PROVE  Contract!Next \/ UNCHANGED Contract!vars
    OBVIOUS
  <2>1. CASE \E r \in Requests : RequestStep(r)
    BY <2>1, RequestStepRefines DEF SafetyInv
  <2>2. CASE \/ \E c \in Connections : TestConnection(c) \/ SetActive(c)
             \/ \E m \in Models : ClearCooldown(m)
             \/ \E w \in sweep : ClearCooldownWrite(w)
             \/ Tick \/ UNCHANGED vars
    BY <2>2 DEF TestConnection, SetActive, ClearCooldown, ClearCooldownWrite, Tick, vars,
                reqVars, Contract!vars
  <2> QED
    BY <2>1, <2>2 DEF Next
<1> QED
  BY <1>1, <1>2, SafetyInvHolds, PTL DEF Spec, KeepsContract, Contract!Spec

=============================================================================
