-------------------------- MODULE AccountFallback --------------------------
(***************************************************************************)
(* Concurrent chat requests for the models of one provider: each selects   *)
(* an account under the selection mutex, sends the request upstream, and on *)
(* failure locks the account for the model and moves to the next account    *)
(* (handleSingleModelChat, getProviderCredentials, markAccountUnavailable,  *)
(* clearAccountError).  Every await of the source separates two actions, so *)
(* requests interleave exactly where the event loop lets them.              *)
(***************************************************************************)
EXTENDS AccountHealth, FiniteSets

CONSTANTS
  Requests, Connections,
  Priority,       \* [Connections -> Nat], the order getProviderConnections sorts by
  Strategy,       \* "fill-first" or "round-robin"
  StickyLimit,    \* stickyRoundRobinLimit
  UsedWindow,     \* age beyond which lastUsedAt counts as never used (two days)
  UpstreamErrors, \* errors explored: [status, texts, resetsIn]
  InitialConns,   \* possible stored connection tables when the run begins
  MaxTime,        \* bound on the clock
  MaxAdmin        \* bound on the dashboard's writes

NoConn == "none"

ASSUME FallbackAssumption ==
  /\ Priority \in [Connections -> Nat]
  /\ \A c, d \in Connections : Priority[c] = Priority[d] => c = d
  /\ NoConn \notin Connections
  /\ StickyLimit \in Nat \ {0}
  /\ UsedWindow \in Nat
  /\ UpstreamErrors \subseteq [status : Nat, texts : SUBSET Texts, resetsIn : Nat]
  /\ InitialConns \subseteq [Connections -> Conn]
  /\ \A t \in InitialConns : \A c \in Connections : t[c].useCount <= StickyLimit
  /\ MaxTime \in Nat /\ MaxAdmin \in Nat

VARIABLES
  now,       \* the clock, Date.now()
  conn,      \* the providerConnections table
  tail,      \* ticket of the last getProviderCredentials call: selectionMutex
  resolved,  \* tickets whose promise has been resolved
  pc,        \* where each request is
  model,     \* the model it asks for
  ticket,    \* the ticket of its current selection call
  list,      \* the connections it read in this call
  excluded,  \* excludeConnectionIds
  current,   \* the account it is using
  held,      \* credentials._connection: that account as it was read
  error,     \* the upstream error it is handling
  patch,     \* the lock markAccountUnavailable is about to write
  answer,    \* [kind, retryAfter] returned to the client
  admin,     \* number of dashboard writes so far
  sweep      \* per-connection writes a clearCooldown call still has to make

reqVars == <<pc, model, ticket, list, excluded, current, held, error, patch, answer>>
vars    == <<now, conn, tail, resolved, reqVars, admin, sweep>>

-----------------------------------------------------------------------------
Phases == {"new", "waiting", "selecting", "upstream", "succeeded", "failed",
           "marking", "done"}

AnswerKinds == {"pending", "ok", "upstream_error", "unavailable", "no_credentials",
                "exhausted", "thrown"}

Errors  == [status : Nat, texts : SUBSET Texts, resetsAt : Nat]
Patches == [key : LockKeys, until : Nat, level : 0 .. BACKOFF_MAX_LEVEL]
Sweeps  == [id : Connections, key : Models, status : {"active", "unavailable", "error"}]

NoList  == [c \in Connections |-> FreshConn]
NoError == [status |-> 0, texts |-> {}, resetsAt |-> 0]
NoPatch == [key |-> AllKey, until |-> 0, level |-> 0]
Answer(kind) == [kind |-> kind, retryAfter |-> 0]

\* A fresh request of the client, before its first selection call.
Init ==
  /\ now = 1
  /\ conn \in InitialConns
  /\ tail = 0 /\ resolved = {0}
  /\ pc = [r \in Requests |-> "new"]
  /\ model \in [Requests -> Models]
  /\ ticket = [r \in Requests |-> 0]
  /\ list = [r \in Requests |-> NoList]
  /\ excluded = [r \in Requests |-> {}]
  /\ current = [r \in Requests |-> NoConn]
  /\ held = [r \in Requests |-> FreshConn]
  /\ error = [r \in Requests |-> NoError]
  /\ patch = [r \in Requests |-> NoPatch]
  /\ answer = [r \in Requests |-> Answer("pending")]
  /\ admin = 0 /\ sweep = {}

-----------------------------------------------------------------------------
(* The selection mutex: a call waits for the promise of the previous call   *)
(* and resolves its own in a finally block.                                 *)

Enqueue(r) ==
  /\ tail' = tail + 1
  /\ ticket' = [ticket EXCEPT ![r] = tail + 1]

\* Mutants: the previous promise is not awaited; a flag in place of the chain.
AdmittedAtOnce(r)   == TRUE
AdmittedWhenIdle(r) == \A s \in Requests : pc[s] # "selecting"

Admitted(r) == ticket[r] - 1 \in resolved

Release(r) == resolved' = resolved \cup {ticket[r]}

Selecting(r) == (pc[r] = "waiting" /\ Admitted(r)) \/ pc[r] = "selecting"

\* A client request starts: handleSingleModelChat makes its first selection call.
Start(r) ==
  /\ pc[r] = "new"
  /\ Enqueue(r)
  /\ pc' = [pc EXCEPT ![r] = "waiting"]
  /\ UNCHANGED <<now, conn, resolved, model, list, excluded, current, held, error, patch,
                 answer, admin, sweep>>

\* The mutex is held: the connections of the provider are read from the database.
ReadConnections(r) ==
  /\ pc[r] = "waiting" /\ Admitted(r)
  /\ list' = [list EXCEPT ![r] = conn]
  /\ pc' = [pc EXCEPT ![r] = "selecting"]
  /\ UNCHANGED <<now, conn, tail, resolved, model, ticket, excluded, current, held, error,
                 patch, answer, admin, sweep>>

ActiveIn(l)   == {c \in Connections : l[c].active}
LockedIn(l, m) == {c \in ActiveIn(l) : IsModelLockActive(l[c], m, now)}

\* Mutant: the excluded connections are not filtered out.
AvailableAgain(r) == ActiveIn(list[r]) \ LockedIn(list[r], model[r])

Available(r)  == ActiveIn(list[r]) \ (excluded[r] \cup LockedIn(list[r], model[r]))

\* lastUsedAt, or 0 (the source's NaN) when it is older than the window.
LastUsed(c) == IF now - c.lastUsed <= UsedWindow THEN c.lastUsed ELSE 0

FirstByPriority(c, S) == \A d \in S : Priority[c] <= Priority[d]

MostRecent(c, S, l) ==
  \A d \in S \ {c} :
    \/ LastUsed(l[c]) > LastUsed(l[d])
    \/ LastUsed(l[c]) = LastUsed(l[d]) /\ Priority[c] < Priority[d]

LeastRecent(c, S, l) ==
  \A d \in S \ {c} :
    \/ LastUsed(l[c]) < LastUsed(l[d])
    \/ LastUsed(l[c]) = LastUsed(l[d]) /\ Priority[c] < Priority[d]

\* Mutant: off by one at the sticky limit.
StaysStickyOnce(c) == c.lastUsed > 0 /\ c.useCount <= StickyLimit

StaysSticky(c) == c.lastUsed > 0 /\ c.useCount < StickyLimit

\* An account is available: r is given it with the snapshot it was chosen from,
\* the mutex is released and the request goes upstream.
Dispatch(r, c) ==
  /\ pc[r] = "selecting" /\ c \in Available(r)
  /\ current' = [current EXCEPT ![r] = c]
  /\ held' = [held EXCEPT ![r] = list[r][c]]
  /\ Release(r)
  /\ list' = [list EXCEPT ![r] = NoList]
  /\ pc' = [pc EXCEPT ![r] = "upstream"]
  /\ UNCHANGED <<now, tail, model, ticket, excluded, error, patch, answer, admin, sweep>>

SelectFillFirst(r) ==
  /\ Strategy = "fill-first"
  /\ \E c \in Available(r) : FirstByPriority(c, Available(r)) /\ Dispatch(r, c)
  /\ UNCHANGED conn

\* The bookkeeping write of a round-robin selection: a merge of two fields.
WriteUse(c, count) ==
  conn' = [conn EXCEPT ![c] = [conn[c] EXCEPT !.lastUsed = now, !.useCount = count]]

\* Round-robin stays with the most recently used account up to the sticky limit.
SelectSticky(r) ==
  /\ Strategy = "round-robin"
  /\ \E c \in Available(r) :
       /\ MostRecent(c, Available(r), list[r]) /\ StaysSticky(list[r][c])
       /\ Dispatch(r, c)
       /\ WriteUse(c, list[r][c].useCount + 1)

\* Otherwise it moves to the least recently used one and counts from one again.
SelectRotate(r) ==
  /\ Strategy = "round-robin"
  /\ \E c, top \in Available(r) :
       /\ MostRecent(top, Available(r), list[r]) /\ ~StaysSticky(list[r][top])
       /\ LeastRecent(c, Available(r), list[r])
       /\ Dispatch(r, c)
       /\ WriteUse(c, 1)

\* r ends with answer a; what it held is dropped.
Finish(r, a) ==
  /\ answer' = [answer EXCEPT ![r] = a]
  /\ pc' = [pc EXCEPT ![r] = "done"]
  /\ list' = [list EXCEPT ![r] = NoList]
  /\ held' = [held EXCEPT ![r] = FreshConn]
  /\ current' = [current EXCEPT ![r] = NoConn]
  /\ error' = [error EXCEPT ![r] = NoError]
  /\ patch' = [patch EXCEPT ![r] = NoPatch]
  /\ UNCHANGED <<now, tail, model, ticket, excluded, admin, sweep>>

LockExpiries(r) ==
  UNION {ActiveExpiries(list[r][c], now) : c \in LockedIn(list[r], model[r])}

\* Mutant: the early return leaves the promise pending.
AllRateLimitedHeld(r) ==
  /\ pc[r] = "selecting" /\ Available(r) = {}
  /\ \E e \in LockExpiries(r) : Finish(r, [kind |-> "unavailable", retryAfter |-> e])
  /\ UNCHANGED <<conn, resolved>>

\* Every account is locked or excluded and some lock is active: 503 with the
\* earliest expiry as Retry-After.
AllRateLimited(r) ==
  /\ pc[r] = "selecting" /\ Available(r) = {}
  /\ \E e \in LockExpiries(r) :
       /\ IsEarliest(e, LockExpiries(r))
       /\ Finish(r, [kind |-> "unavailable", retryAfter |-> e])
  /\ Release(r)
  /\ UNCHANGED conn

\* Mutant: running locks are not looked at.
NoAccountLeftUnchecked(r) ==
  /\ pc[r] = "selecting" /\ Available(r) = {}
  /\ Finish(r, Answer(IF excluded[r] = {} THEN "no_credentials" ELSE "exhausted"))
  /\ Release(r)
  /\ UNCHANGED conn

\* No account is left and none is locked: 404 when none was ever tried, else the
\* last upstream error.
NoAccountLeft(r) ==
  /\ pc[r] = "selecting" /\ Available(r) = {} /\ LockExpiries(r) = {}
  /\ Finish(r, Answer(IF excluded[r] = {} THEN "no_credentials" ELSE "exhausted"))
  /\ Release(r)
  /\ UNCHANGED conn

\* Mutant: without the finally block the promise stays pending.
SelectionThrowsHeld(r) ==
  /\ Selecting(r)
  /\ Finish(r, Answer("thrown"))
  /\ UNCHANGED <<conn, resolved>>

\* A database or settings read throws while the mutex is held: the finally block
\* releases it and the exception ends the request.
SelectionThrows(r) ==
  /\ Selecting(r)
  /\ Finish(r, Answer("thrown"))
  /\ Release(r)
  /\ UNCHANGED conn

-----------------------------------------------------------------------------
UpstreamOk(r) ==
  /\ pc[r] = "upstream"
  /\ pc' = [pc EXCEPT ![r] = "succeeded"]
  /\ UNCHANGED <<now, conn, tail, resolved, model, ticket, list, excluded, current, held,
                 error, patch, answer, admin, sweep>>

\* r is handed an upstream error, with the provider's own reset time if it names one.
SeesError(r, errors) ==
  /\ \E e \in errors :
       error' = [error EXCEPT ![r] =
                   [status |-> e.status, texts |-> e.texts,
                    resetsAt |-> IF e.resetsIn = 0 THEN 0 ELSE now + e.resetsIn]]
  /\ pc' = [pc EXCEPT ![r] = "failed"]

\* The call fails before its headers are good; such a failure has a status.
UpstreamFails(r) ==
  /\ pc[r] = "upstream"
  /\ SeesError(r, {e \in UpstreamErrors : e.status # 0})
  /\ UNCHANGED <<now, conn, tail, resolved, model, ticket, list, excluded, current, held,
                 patch, answer, admin, sweep>>

SuccessRecorded(r) ==
  [conn EXCEPT ![current[r]] = AfterSuccess(conn[current[r]], held[r], model[r], now)]

\* onRequestSuccess: clearAccountError decides from the snapshot of the selection
\* and merges its patch into the stored record.
ClearAccountError(r) ==
  /\ pc[r] = "succeeded"
  /\ conn' = SuccessRecorded(r)
  /\ Finish(r, Answer("ok"))
  /\ UNCHANGED resolved

\* The write of the success throws: the handler logs it and answers all the same.
SuccessNotRecorded(r) ==
  /\ pc[r] = "succeeded"
  /\ Finish(r, Answer("ok"))
  /\ UNCHANGED <<conn, resolved>>

\* onRequestSuccess runs as soon as the response headers are good: the body may still
\* turn out to be an error, without a status when it is a page instead of a stream, or
\* the exception of the write be taken for one.
SuccessThenFails(r) ==
  /\ pc[r] = "succeeded"
  /\ conn' \in {conn, SuccessRecorded(r)}
  /\ SeesError(r, UpstreamErrors)
  /\ UNCHANGED <<now, tail, resolved, model, ticket, list, excluded, current, held, patch,
                 answer, admin, sweep>>

VerdictOf(r) == Verdict(error[r], conn[current[r]].backoff, now)

\* markAccountUnavailable up to its write: the backoff level is read from the
\* database and the lock computed.
MarkRead(r) ==
  /\ pc[r] = "failed" /\ VerdictOf(r).fallback
  /\ patch' = [patch EXCEPT ![r] =
                 [key   |-> IF MonthlyExhausted(error[r]) THEN AllKey ELSE model[r],
                  until |-> now + VerdictOf(r).cooldown,
                  level |-> VerdictOf(r).level]]
  /\ pc' = [pc EXCEPT ![r] = "marking"]
  /\ UNCHANGED <<now, conn, tail, resolved, model, ticket, list, excluded, current, held,
                 error, answer, admin, sweep>>

\* An error that says nothing about the account is returned to the client.
ReturnError(r) ==
  /\ pc[r] = "failed" /\ ~VerdictOf(r).fallback
  /\ Finish(r, Answer("upstream_error"))
  /\ UNCHANGED <<conn, resolved>>

\* Mutant: the whole record is written back as it was read at selection.
MarkWriteWhole(r) ==
  /\ pc[r] = "marking"
  /\ conn' = [conn EXCEPT ![current[r]] =
                Locked(held[r], patch[r].key, patch[r].until, patch[r].level)]
  /\ excluded' = [excluded EXCEPT ![r] = @ \cup {current[r]}]
  /\ Enqueue(r)
  /\ pc' = [pc EXCEPT ![r] = "waiting"]
  /\ current' = [current EXCEPT ![r] = NoConn]
  /\ held' = [held EXCEPT ![r] = FreshConn]
  /\ error' = [error EXCEPT ![r] = NoError]
  /\ patch' = [patch EXCEPT ![r] = NoPatch]
  /\ UNCHANGED <<now, resolved, model, list, answer, admin, sweep>>

\* The lock is written, the account excluded, and the next selection call made.
MarkWrite(r) ==
  /\ pc[r] = "marking"
  /\ conn' = [conn EXCEPT ![current[r]] =
                Locked(conn[current[r]], patch[r].key, patch[r].until, patch[r].level)]
  /\ excluded' = [excluded EXCEPT ![r] = @ \cup {current[r]}]
  /\ Enqueue(r)
  /\ pc' = [pc EXCEPT ![r] = "waiting"]
  /\ current' = [current EXCEPT ![r] = NoConn]
  /\ held' = [held EXCEPT ![r] = FreshConn]
  /\ error' = [error EXCEPT ![r] = NoError]
  /\ patch' = [patch EXCEPT ![r] = NoPatch]
  /\ UNCHANGED <<now, resolved, model, list, answer, admin, sweep>>

\* An exception outside the selection (a settings or database call) ends the request.
RequestThrows(r) ==
  /\ pc[r] \in {"upstream", "failed", "marking"}
  /\ Finish(r, Answer("thrown"))
  /\ UNCHANGED <<conn, resolved>>

-----------------------------------------------------------------------------
(* The dashboard's writes to the same records.                              *)

AdminStep == admin < MaxAdmin /\ admin' = admin + 1

\* A connection test: a valid credential is written as "active", which resets the
\* record's health, perhaps with a warning in lastError; an invalid one as "error".
TestConnection(c) ==
  /\ AdminStep
  /\ \E tested \in {Activated(conn[c]),
                    [Activated(conn[c]) EXCEPT !.failed = TRUE],
                    [conn[c] EXCEPT !.status = "error", !.failed = TRUE]} :
       conn' = [conn EXCEPT ![c] = tested]
  /\ UNCHANGED <<now, tail, resolved, reqVars, sweep>>

\* PUT /api/providers/[id] with isActive.
SetActive(c) ==
  /\ AdminStep
  /\ conn' = [conn EXCEPT ![c] = [conn[c] EXCEPT !.active = ~conn[c].active]]
  /\ UNCHANGED <<now, tail, resolved, reqVars, sweep>>

\* POST /api/models/availability: the rows are read, then each is written on its own.
ClearCooldown(m) ==
  /\ AdminStep /\ sweep = {}
  /\ sweep' = {[id |-> c, key |-> m, status |-> conn[c].status] :
                 c \in {d \in Connections : IsSet(conn[d].lock[m])}}
  /\ UNCHANGED <<now, conn, tail, resolved, reqVars>>

ClearCooldownWrite(w) ==
  /\ w \in sweep
  /\ sweep' = sweep \ {w}
  /\ conn' = [conn EXCEPT ![w.id] = IF w.status = "unavailable"
                                    THEN Activated(conn[w.id])
                                    ELSE ClearedKeys(conn[w.id], {w.key})]
  /\ UNCHANGED <<now, tail, resolved, reqVars, admin>>

Tick ==
  /\ now < MaxTime
  /\ now' = now + 1
  /\ UNCHANGED <<conn, tail, resolved, reqVars, admin, sweep>>

-----------------------------------------------------------------------------
RequestStep(r) ==
  \/ Start(r) \/ ReadConnections(r)
  \/ SelectFillFirst(r) \/ SelectSticky(r) \/ SelectRotate(r)
  \/ AllRateLimited(r) \/ NoAccountLeft(r) \/ SelectionThrows(r)
  \/ UpstreamOk(r) \/ UpstreamFails(r)
  \/ ClearAccountError(r) \/ SuccessNotRecorded(r) \/ SuccessThenFails(r)
  \/ MarkRead(r) \/ ReturnError(r) \/ MarkWrite(r) \/ RequestThrows(r)

Next ==
  \/ \E r \in Requests : RequestStep(r)
  \/ \E c \in Connections : TestConnection(c) \/ SetActive(c)
  \/ \E m \in Models : ClearCooldown(m)
  \/ \E w \in sweep : ClearCooldownWrite(w)
  \/ Tick

Spec == Init /\ [][Next]_vars

\* A started request keeps being run: the event loop resumes every continuation
\* whose promise settles, and upstream calls end by connect and stall timeouts.
FairSpec == Spec /\ \A r \in Requests : WF_vars(RequestStep(r) /\ pc[r] # "new")

-----------------------------------------------------------------------------
(* Properties.                                                              *)

\* Every variable keeps the type the code gives it; the clock stays in its bound.
TypeOK ==
  /\ now \in 1 .. MaxTime + 1
  /\ conn \in [Connections -> Conn]
  /\ tail \in Nat /\ resolved \subseteq 0 .. tail
  /\ pc \in [Requests -> Phases]
  /\ model \in [Requests -> Models]
  /\ ticket \in [Requests -> Nat]
  /\ list \in [Requests -> [Connections -> Conn]]
  /\ excluded \in [Requests -> SUBSET Connections]
  /\ current \in [Requests -> Connections \cup {NoConn}]
  /\ held \in [Requests -> Conn]
  /\ error \in [Requests -> Errors]
  /\ patch \in [Requests -> Patches]
  /\ answer \in [Requests -> [kind : AnswerKinds, retryAfter : Nat]]
  /\ admin \in 0 .. MaxAdmin
  /\ sweep \subseteq Sweeps

\* The promise chain of selectionMutex is a mutex: two requests are never between
\* the read of the connections and the end of their selection.
SelectionExclusive ==
  \A r, s \in Requests : Selecting(r) /\ Selecting(s) => r = s

\* No link of the promise chain is lost: a promise that is not resolved belongs to
\* a request still inside its selection call, so those queued behind it are not stuck.
NoAbandonedTicket ==
  \A t \in 1 .. tail :
    t \in resolved \/ \E r \in Requests : pc[r] \in {"waiting", "selecting"} /\ ticket[r] = t

\* Requests enter the selection in the order in which they called it.
NoOvertaking ==
  [][\A r, s \in Requests :
       pc[r] = "waiting" /\ pc'[r] = "selecting" /\ pc[s] = "waiting"
         => ticket[r] <= ticket[s]]_vars

\* The rotation fields a selection read are still the stored ones when it decides
\* and writes: locks, successes and dashboard writes that land meanwhile merge
\* other fields, so no use is lost or counted twice.
RotationStateFresh ==
  \A r \in Requests : pc[r] = "selecting" =>
    \A c \in Connections :
      /\ list[r][c].lastUsed = conn[c].lastUsed
      /\ list[r][c].useCount = conn[c].useCount

\* Round-robin never counts an account beyond the sticky limit.
StickyWithinLimit == \A c \in Connections : conn[c].useCount <= StickyLimit

\* A request never goes upstream on an account whose lock for its model was active
\* when the account was chosen.
ModelLockRespected ==
  [][\A r \in Requests : pc[r] = "selecting" /\ pc'[r] = "upstream"
       => held'[r].lock[model[r]] <= now]_vars

\* An answer that no account is left says what the connections were: 404 only when
\* none was active, the last error only when every active one was tried and failed,
\* 503 only when every active one was tried or is locked.
AnswerMatchesPool ==
  [][\A r \in Requests : pc[r] = "selecting" /\ pc'[r] = "done" =>
       LET kind == answer'[r].kind
           pool == {c \in Connections : list[r][c].active}
       IN  /\ kind = "no_credentials" => pool = {} /\ excluded[r] = {}
           /\ kind = "exhausted" => excluded[r] # {} /\ pool \subseteq excluded[r]
           /\ kind = "unavailable" =>
                \A c \in pool : c \in excluded[r] \/ GoverningExpiry(list[r][c], model[r]) > now
     ]_vars

\* The Retry-After of a 503 lies ahead, and is no later than the end of the lock
\* that keeps any account from the request's model.
RetryAfterNotLate ==
  [][\A r \in Requests : pc[r] = "selecting" /\ answer'[r].kind = "unavailable" =>
       /\ answer'[r].retryAfter > now
       /\ \A c \in Connections :
            list[r][c].active /\ GoverningExpiry(list[r][c], model[r]) > now
              => answer'[r].retryAfter <= GoverningExpiry(list[r][c], model[r])]_vars

\* A lock appears or grows only on the account a failing request is using, under
\* its model's key or the account-wide one, and never for an error of the request's
\* own making (a plain 400 or 422 with no rate-limit wording and no reset time); and
\* an error ends the request at once only when it is one: a failure without a status,
\* or with a server's, cools the account and the next one is tried.
LocksGoByTheError ==
  [][/\ \A c \in Connections, k \in LockKeys :
          conn'[c].lock[k] > conn[c].lock[k] /\ conn'[c].lock[k] > Null =>
            \E r \in Requests :
              /\ current[r] = c /\ pc[r] = "marking"
              /\ k \in {model[r], AllKey}
              /\ ~(error[r].status \in {400, 422} /\ error[r].texts = {} /\ error[r].resetsAt = 0)
     /\ \A r \in Requests :
          pc[r] = "failed" /\ answer'[r].kind = "upstream_error" =>
            error[r].status \in 400 .. 499 \/ "free models" \in error[r].texts
     ]_vars

\* Every started request is answered: the mutex, the fallback loop and the
\* exclusions let each one end.
Answered == \A r \in Requests : pc[r] = "waiting" ~> pc[r] = "done"

\* The client's view of a run: the accounts tried, the one in use, the answer.
Contract == INSTANCE RequestContract
              WITH tried <- excluded, serving <- current,
                   outcome <- [r \in Requests |-> answer[r].kind]

\* The fallback loop keeps the contract: distinct accounts, one at a time, one
\* answer that matches what was tried.
KeepsContract == Contract!Spec

\* tests/unit/github-monthly-usage-lock.test.js:35 says the monthly limit "locks the
\* whole account until the next UTC month": a request never goes upstream on an
\* account whose account-wide lock was active when it was chosen.
AccountWideLockRespected ==
  [][\A r \in Requests : pc[r] = "selecting" /\ pc'[r] = "upstream"
       => held'[r].lock[AllKey] <= now]_vars

\* auth.ts:408 says of clearAccountError that it "Resets error state only if no
\* active locks remain": a success does not make an unavailable account "active"
\* while the lock of another model on it is still running.
ResetOnlyWithoutActiveLocks ==
  [][\A r \in Requests : pc[r] = "succeeded" /\ pc'[r] = "done" =>
       LET c == current[r]
       IN  conn[c].status = "unavailable" /\ conn'[c].status = "active"
             => \A k \in Models \ {model[r]} : conn[c].lock[k] <= now]_vars

=============================================================================
