------------------------- MODULE CredentialRefresh -------------------------
(***************************************************************************)
(* OAuth refresh of a provider that rotates refresh tokens (Codex): chat    *)
(* requests refresh before and after the upstream call, background ticks    *)
(* refresh what is about to expire.  Refreshes of one connection share a    *)
(* promise (refreshLocks), results are reused by old refresh token for ten  *)
(* seconds (refreshDedupCache), and each caller persists what it got.  A    *)
(* refresh token is its generation: 1 is the one of the login.              *)
(***************************************************************************)
EXTENDS Integers, FiniteSets

CONSTANTS
  Connections,
  Requests,              \* chat requests, each with one 401/403 retry
  Ticks,                 \* firings of the background interval
  REFRESH_RESULT_TTL,    \* how long dedup.js reuses a result (10 s)
  RetryDelay,            \* unit of refreshWithRetry's delays (1 s)
  TickDelay,             \* pause between two accounts of a tick
  Lead, BackgroundLead,  \* refresh this long before expiry, on request and in a tick
  InitialExpiries,       \* possible expiresAt of the stored tokens at the start
  MaxTime,               \* bound on the clock
  MaxGen,                \* bound on the generations the provider issues
  MaxFaults              \* bound on failed exchanges

NoCaller == "none"
Never    == -1
Callers  == Requests \cup Ticks
Gens     == 1 .. MaxGen
MaxAttempts == 3

\* An access token issued during the run outlives it (Codex: ten days): one
\* value stands for every such expiry.
Later == MaxTime + Lead + BackgroundLead

ASSUME RefreshAssumption ==
  /\ Requests \cap Ticks = {} /\ NoCaller \notin Callers
  /\ REFRESH_RESULT_TTL \in Nat \ {0} /\ RetryDelay \in Nat /\ TickDelay \in Nat
  /\ Lead \in Nat /\ BackgroundLead \in Nat
  /\ InitialExpiries \subseteq Nat
  /\ MaxTime \in Nat /\ MaxGen \in Nat \ {0} /\ MaxFaults \in Nat

VARIABLES
  now,          \* Date.now()
  conn,         \* the stored tokens of each connection: [rt, expiresAt]
  lock,         \* refreshLocks: the caller whose refresh the connection's promise runs
  cache,        \* refreshDedupCache, by connection and old refresh token
  tickRunning,  \* the flag of runBackgroundTokenRefreshTick
  caller,       \* the local state of each request and tick
  due,          \* the connections a tick still has to refresh, as it read them
  valid,        \* the generation the provider accepts
  answered,     \* when the provider last answered for a token
  received,     \* newest generation the program has received
  written,      \* newest generation it has persisted
  lost,         \* the generations a write of which failed
  faults

providerVars == <<valid, answered, received, faults>>
vars == <<now, conn, lock, cache, tickRunning, caller, due, providerVars, written, lost>>

-----------------------------------------------------------------------------
Tokens  == [rt : Gens, expiresAt : Nat]
Results == [kind : {"tokens", "null", "error"}, rt : Gens]
Entries == [kind : {"none", "pending", "tokens", "null", "error"}, rt : Gens, until : Nat]
Phases  == {"new", "loading", "loop", "check", "flight", "joined", "persist",
            "upstream", "rejected", "retry", "done"}
Locals  == [pc : Phases, target : Connections, held : Tokens, attempt : 0 .. MaxAttempts,
            wake : Nat, got : Gens]

NoEntry == [kind |-> "none", rt |-> 1, until |-> 0]

\* A caller with nothing in hand, before its work or after it.
Idle(phase, c) == [pc |-> phase, target |-> c, held |-> [rt |-> 1, expiresAt |-> 0],
                   attempt |-> 0, wake |-> 0, got |-> 1]

Init ==
  /\ now = 0
  /\ conn \in [Connections -> {[rt |-> 1, expiresAt |-> e] : e \in InitialExpiries}]
  /\ lock = [c \in Connections |-> NoCaller]
  /\ cache = [c \in Connections |-> [g \in Gens |-> NoEntry]]
  /\ tickRunning = FALSE
  /\ caller \in [Callers -> {Idle("new", c) : c \in Connections}]
  /\ due = [t \in Ticks |-> {}]
  /\ valid = [c \in Connections |-> 1]
  /\ answered = [c \in Connections |-> [g \in Gens |-> Never]]
  /\ received = [c \in Connections |-> 1]
  /\ written = [c \in Connections |-> 1]
  /\ lost = [c \in Connections |-> {}]
  /\ faults = 0

-----------------------------------------------------------------------------
(* refreshProviderCredentials: its synchronous part, and its resolution.    *)

\* Mutant: the connection's promise is not looked up.
NeverJoins(p) == FALSE

\* Mutant: the promise is looked up by refresh token instead of by connection.
JoinsSameToken(p) ==
  LET owner == lock[caller[p].target]
  IN  owner # NoCaller /\ caller[owner].held.rt = caller[p].held.rt

\* withCredentialRefreshLock: a refresh of this connection is under way.
Joins(p) == lock[caller[p].target] # NoCaller

\* Mutant: dedup.js reuses successes only.
ReusesTokens(p) ==
  LET hit == cache[caller[p].target][caller[p].held.rt]
  IN  hit.kind = "tokens" /\ hit.until > now

\* dedupRefresh: a result, a failed one included, for this old token is still fresh.
Reuses(p) ==
  LET hit == cache[caller[p].target][caller[p].held.rt]
  IN  hit.kind \notin {"none", "pending"} /\ hit.until > now

\* Mutant: the 401 path does not persist what it got.
AfterUnsaved(p, kind) ==
  IF kind = "tokens" /\ caller[p].attempt = 0 THEN "persist"
  ELSE IF p \in Ticks                         THEN "loop"
  ELSE IF caller[p].attempt = 0               THEN "upstream"
  ELSE "done"

\* Mutant: refreshWithRetry does not count its attempts.
AfterUnbounded(p, kind) ==
  IF kind = "tokens"            THEN "persist"
  ELSE IF p \in Ticks           THEN "loop"
  ELSE IF caller[p].attempt = 0 THEN "upstream"
  ELSE IF kind = "null"         THEN "retry"
  ELSE "done"

\* What a caller does with a result: checkAndRefreshToken goes on with the old
\* credentials, refreshWithRetry tries again only after null.
After(p, kind) ==
  IF kind = "tokens"                                       THEN "persist"
  ELSE IF p \in Ticks                                      THEN "loop"
  ELSE IF caller[p].attempt = 0                            THEN "upstream"
  ELSE IF kind = "null" /\ caller[p].attempt < MaxAttempts THEN "retry"
  ELSE "done"

\* The caller resumes with the result.
Resume(p, result) ==
  LET next == After(p, result.kind)
  IN  CASE next = "done"    -> Idle("done", caller[p].target)
        [] next = "persist" -> [caller[p] EXCEPT !.pc = next, !.got = result.rt]
        [] next = "retry"   -> [caller[p] EXCEPT !.pc = next, !.attempt = @ + 1,
                                  !.wake = now + caller[p].attempt * RetryDelay]
        [] next = "loop"    -> [caller[p] EXCEPT !.pc = next, !.wake = now + TickDelay]
        [] OTHER            -> [caller[p] EXCEPT !.pc = next]

\* p calls refreshProviderCredentials with the tokens it holds.
Refresh(p) ==
  LET c == caller[p].target  rt == caller[p].held.rt
  IN  \/ /\ Joins(p)
         /\ caller' = [caller EXCEPT ![p].pc = "joined"]
         /\ UNCHANGED <<lock, cache>>
      \/ /\ ~Joins(p) /\ Reuses(p)
         /\ caller' = [caller EXCEPT ![p] = Resume(p, cache[c][rt])]
         /\ UNCHANGED <<lock, cache>>
      \/ /\ ~Joins(p) /\ ~Reuses(p)
         /\ lock' = [lock EXCEPT ![c] = p]
         /\ cache' = [cache EXCEPT ![c][rt] = [NoEntry EXCEPT !.kind = "pending"]]
         /\ caller' = [caller EXCEPT ![p].pc = "flight"]

-----------------------------------------------------------------------------
(* Chat requests *)

\* getProviderCredentials returns the stored tokens of the selected account.
Select(r) ==
  /\ caller[r].pc = "new"
  /\ caller' = [caller EXCEPT ![r].pc = "check", ![r].held = conn[caller[r].target]]
  /\ UNCHANGED <<now, conn, lock, cache, tickRunning, due, providerVars, written, lost>>

\* shouldRefreshCredentials, by the expiry the caller holds; a tick forces.
Due(p) == p \in Ticks \/ caller[p].held.expiresAt - now < Lead

\* isCodexRefreshStale: the tokens of the login may be past the age limit of eight
\* days, those issued during the run are not.
MayBeStale(p) == caller[p].held.expiresAt \in InitialExpiries

\* checkAndRefreshToken before the upstream call, or on behalf of a tick.
Check(p) ==
  /\ caller[p].pc = "check"
  /\ \/ (Due(p) \/ MayBeStale(p)) /\ Refresh(p)
     \/ /\ ~Due(p)
        /\ caller' = [caller EXCEPT ![p].pc = "upstream"]
        /\ UNCHANGED <<lock, cache>>
  /\ UNCHANGED <<now, conn, tickRunning, due, providerVars, written, lost>>

\* The upstream call: accepted, or rejected with 401/403 (a token can be refused
\* at any age, and 403 also has other causes).
Upstream(r) ==
  /\ caller[r].pc = "upstream"
  /\ \/ caller' = [caller EXCEPT ![r] = Idle("done", caller[r].target)]
     \/ caller' = [caller EXCEPT ![r].pc = "rejected", ![r].attempt = 1]
  /\ UNCHANGED <<now, conn, lock, cache, tickRunning, due, providerVars, written, lost>>

\* refreshWithRetry: the first attempt, or a later one after its delay.
RefreshAfterRejection(r) ==
  /\ \/ caller[r].pc = "rejected"
     \/ caller[r].pc = "retry" /\ now >= caller[r].wake
  /\ Refresh(r)
  /\ UNCHANGED <<now, conn, tickRunning, due, providerVars, written, lost>>

\* Both callers of updateProviderCredentials go on with the new tokens, stored or not:
\* a request with its first upstream call, or with the one repetition after a 401.
GoOn(p, new) ==
  caller' = [caller EXCEPT ![p] =
    IF p \in Ticks THEN [@ EXCEPT !.pc = "loop", !.held = new, !.wake = now + TickDelay]
    ELSE IF @.attempt = 0 THEN [@ EXCEPT !.pc = "upstream", !.held = new]
    ELSE Idle("done", @.target)]

\* updateProviderCredentials writes the tokens.
Persist(p) ==
  LET c == caller[p].target  new == [rt |-> caller[p].got, expiresAt |-> Later]
  IN  /\ caller[p].pc = "persist"
      /\ conn' = [conn EXCEPT ![c] = new]
      /\ written' = [written EXCEPT ![c] = IF new.rt > @ THEN new.rt ELSE @]
      /\ GoOn(p, new)
      /\ UNCHANGED <<now, lock, cache, tickRunning, due, providerVars, lost>>

\* The write throws, or its connection is gone: updateProviderCredentials logs it and
\* returns false, which nobody looks at.
PersistFails(p) ==
  LET c == caller[p].target  new == [rt |-> caller[p].got, expiresAt |-> Later]
  IN  /\ caller[p].pc = "persist"
      /\ lost' = [lost EXCEPT ![c] = @ \cup {new.rt}]
      /\ GoOn(p, new)
      /\ UNCHANGED <<now, conn, lock, cache, tickRunning, due, providerVars, written>>

-----------------------------------------------------------------------------
(* The background tick *)

\* Mutant: the flag is never set.
TickFiresUnmarked(t) ==
  /\ caller[t].pc = "new"
  /\ caller' = [caller EXCEPT ![t].pc = IF tickRunning THEN "done" ELSE "loading"]
  /\ UNCHANGED <<now, conn, lock, cache, tickRunning, due, providerVars, written, lost>>

\* The interval fires; a firing during another tick does nothing.
TickFires(t) ==
  /\ caller[t].pc = "new"
  /\ caller' = [caller EXCEPT ![t].pc = IF tickRunning THEN "done" ELSE "loading"]
  /\ tickRunning' = TRUE
  /\ UNCHANGED <<now, conn, lock, cache, due, providerVars, written, lost>>

\* loadActiveConnections and selectConnectionsNeedingRefresh: the list is read once.
Load(t) ==
  /\ caller[t].pc = "loading"
  /\ due' = [due EXCEPT ![t] =
       {d \in {[id |-> c, tokens |-> conn[c]] : c \in Connections} :
          d.tokens.expiresAt - now < BackgroundLead}]
  /\ caller' = [caller EXCEPT ![t].pc = "loop"]
  /\ UNCHANGED <<now, conn, lock, cache, tickRunning, providerVars, written, lost>>

\* The next connection of the list, after the pause, with the tokens read at the start.
TickNext(t) ==
  /\ caller[t].pc = "loop" /\ now >= caller[t].wake
  /\ \E d \in due[t] :
       /\ due' = [due EXCEPT ![t] = @ \ {d}]
       /\ caller' = [caller EXCEPT ![t].pc = "check", ![t].target = d.id, ![t].held = d.tokens]
  /\ UNCHANGED <<now, conn, lock, cache, tickRunning, providerVars, written, lost>>

\* The list is exhausted: the finally block clears the flag.
TickEnds(t) ==
  /\ caller[t].pc = "loop" /\ due[t] = {}
  /\ tickRunning' = FALSE
  /\ caller' = [caller EXCEPT ![t] = Idle("done", caller[t].target)]
  /\ UNCHANGED <<now, conn, lock, cache, due, providerVars, written, lost>>

-----------------------------------------------------------------------------
(* The provider's token endpoint, and the clock *)

\* Mutant: only a successful refresh deletes the connection's promise.
ReleaseOnSuccess(c, owners, result) ==
  lock' = [lock EXCEPT ![c] = IF @ \in owners /\ result.kind = "tokens" THEN NoCaller ELSE @]

\* The finally of withCredentialRefreshLock.
ReleaseLock(c, owners, result) ==
  lock' = [lock EXCEPT ![c] = IF @ \in owners THEN NoCaller ELSE @]

\* The exchange ends: the result is cached by old token, the connection's
\* promise resolves and every caller that awaits it resumes.
Resolve(c, rt, result) ==
  LET flying == {p \in Callers : caller[p].pc = "flight" /\ caller[p].target = c
                                  /\ caller[p].held.rt = rt}
      joined == {p \in Callers : caller[p].pc = "joined" /\ caller[p].target = c
                                  /\ lock[c] \in flying}
  IN  /\ cache' = [cache EXCEPT ![c][rt] =
           [kind |-> result.kind, rt |-> result.rt, until |-> now + REFRESH_RESULT_TTL]]
      /\ caller' = [p \in Callers |->
           IF p \in flying \cup joined THEN Resume(p, result) ELSE caller[p]]
      /\ ReleaseLock(c, flying, result)
      /\ answered' = [answered EXCEPT ![c][rt] = now]
      /\ received' = [received EXCEPT ![c] =
           IF result.kind = "tokens" /\ result.rt > @ THEN result.rt ELSE @]

\* refreshCodexToken's fetch completes: a new or the same token, a permanent
\* error for a consumed one, or null for a transient failure, which may come
\* after the provider rotated.
Exchange(c, rt) ==
  /\ cache[c][rt].kind = "pending"
  /\ \/ /\ rt = valid[c]
        /\ \E g \in {rt, rt + 1} \cap Gens :
             /\ valid' = [valid EXCEPT ![c] = g]
             /\ Resolve(c, rt, [kind |-> "tokens", rt |-> g])
        /\ UNCHANGED faults
     \/ /\ rt # valid[c]
        /\ Resolve(c, rt, [kind |-> "error", rt |-> rt])
        /\ UNCHANGED <<valid, faults>>
     \/ /\ faults < MaxFaults
        /\ faults' = faults + 1
        /\ \E g \in {valid[c], rt + 1} \cap Gens :
             g >= valid[c] /\ valid' = [valid EXCEPT ![c] = g]
        /\ Resolve(c, rt, [kind |-> "null", rt |-> rt])
  /\ UNCHANGED <<now, conn, tickRunning, due, written, lost>>

Tick ==
  /\ now < MaxTime
  /\ now' = now + 1
  /\ UNCHANGED <<conn, lock, cache, tickRunning, caller, due, providerVars, written, lost>>

Step(p) ==
  \/ Check(p) \/ Persist(p) \/ PersistFails(p)
  \/ p \in Requests /\ (Select(p) \/ Upstream(p) \/ RefreshAfterRejection(p))
  \/ p \in Ticks /\ (TickFires(p) \/ Load(p) \/ TickNext(p) \/ TickEnds(p))

Next ==
  \/ \E p \in Callers : Step(p)
  \/ \E c \in Connections, rt \in Gens : Exchange(c, rt)
  \/ Tick

\* Timers fire, the provider answers or the connection fails, and time passes.
Fairness ==
  /\ \A p \in Callers : WF_vars(Step(p))
  /\ \A c \in Connections, rt \in Gens : WF_vars(Exchange(c, rt))
  /\ WF_vars(Tick)

Spec == Init /\ [][Next]_vars /\ Fairness

-----------------------------------------------------------------------------
(* Properties *)

\* Every variable stays in its type.
TypeOK ==
  /\ now \in 0 .. MaxTime
  /\ conn \in [Connections -> Tokens]
  /\ lock \in [Connections -> Callers \cup {NoCaller}]
  /\ cache \in [Connections -> [Gens -> Entries]]
  /\ tickRunning \in BOOLEAN
  /\ caller \in [Callers -> Locals]
  /\ due \in [Ticks -> SUBSET [id : Connections, tokens : Tokens]]
  /\ valid \in [Connections -> Gens]
  /\ answered \in [Connections -> [Gens -> Nat \cup {Never}]]
  /\ received \in [Connections -> Gens] /\ written \in [Connections -> Gens]
  /\ lost \in [Connections -> SUBSET Gens]
  /\ faults \in 0 .. MaxFaults

\* However requests and ticks interleave, and whichever refresh token each of
\* them holds, one exchange at a time runs for a connection: a second one with
\* a consumed token would be taken for theft by the provider.
SingleFlight ==
  \A c \in Connections :
    Cardinality({g \in Gens : cache[c][g].kind = "pending"}) <= 1

\* No refresh token is sent to the provider twice within the reuse window, not
\* by another caller and not by refreshWithRetry after a failure, whose retries
\* fall within the window.
SentOncePerWindow ==
  [][\A c \in Connections, g \in Gens :
       cache[c][g].kind # "pending" /\ cache'[c][g].kind = "pending" =>
         answered[c][g] = Never \/ now - answered[c][g] >= REFRESH_RESULT_TTL]_vars

\* Two ticks never work through their lists at once, although the interval may
\* fire while a tick sleeps between accounts.
OneTick ==
  Cardinality({t \in Ticks : caller[t].pc \notin {"new", "done"}}) <= 1

\* A rotated token that was received is persisted, or a caller that will persist it
\* exists: nothing but a failed write of that very token drops it, however its callers
\* joined, reused, retried or went on after a failed write.
LostOnlyByFailedWrite ==
  \A c \in Connections :
    received[c] > written[c] =>
      \/ received[c] \in lost[c]
      \/ \E p \in Callers :
           caller[p].pc = "persist" /\ caller[p].target = c /\ caller[p].got = received[c]

\* A caller that joins another's refresh, waits for a retry or sleeps between
\* accounts always gets on: every request and every tick ends.
CallersFinish == \A p \in Callers : caller[p].pc # "new" ~> caller[p].pc = "done"

\* What the provider sees: the exchanges that run, and what has come of them.
OnWire == [c \in Connections |-> {g \in Gens : cache[c][g].kind = "pending"}]

Exchanges == INSTANCE ExchangeContract
               WITH Window <- REFRESH_RESULT_TTL, clock <- now, onWire <- OnWire,
                    answeredAt <- answered, newest <- received

\* Requests, retries after a 401 and background ticks together are to the provider a
\* client that exchanges one token at a time, only such as it was given, and no token
\* again before its last answer has aged.
KeepsExchangeContract == Exchanges!Spec

\* "New refresh_token from response is persisted (token rotation)": when no caller is
\* busy and no write of the account has failed, the stored refresh token is the newest
\* one received.
NewestTokenStored ==
  (\A p \in Callers : caller[p].pc \in {"new", "upstream", "done"}) =>
    \A c \in Connections : lost[c] = {} => conn[c].rt = received[c]
=============================================================================
