# A verification development of 10Router

10Router is a local proxy: it takes chat, embedding, image and search requests of AI
clients, picks a stored account ("connection") of the provider that serves the requested
model, sends the request upstream in the provider's format, and falls back to another
account or model when it fails. This directory models the parts of it whose behaviour
depends on what happens concurrently, checks them with TLC on small instances and proves
what matters most with TLAPS. Paths below are relative to the repository, whose root is
`src/` in `PROJECT.json`.

The program is one Node.js process. JavaScript runs to the next `await` without
interruption, so the models have one action for each stretch of code between two awaits
that reads or writes shared state: two requests interleave exactly at those points.
SQLite transactions are synchronous and therefore atomic.

## Inventory

| component | state | operations | what is hard |
|---|---|---|---|
| Account selection and fallback (`src/sse/services/auth.ts`, `src/sse/handlers/chat.js`, `open-sse/services/accountFallback.js`, `open-sse/config/errorConfig.js`) | selection mutex (a promise chain), the `providerConnections` table with `modelLock_*`, `testStatus`, `backoffLevel`, `lastUsedAt`, `consecutiveUseCount`; per request: excluded accounts, the selected record | select, send, record success, lock on failure, fall back, refuse | reads used after an await, locks that expire or are cleared in between, exactly-one release of the mutex |
| Connection repository (`src/lib/db/repos/connectionsRepo.js`) | the table | filtered read, create with dedup, merge update with health reset, delete, priority renumbering | merges of concurrent writers, renumbering |
| Dashboard health writes (`api/models/availability`, `api/providers/[id]`, `.../test`) | the same table | clear a cooldown, toggle, test | decide from a read, write later |
| OAuth credential refresh (`src/sse/services/tokenRefresh.ts`, `backgroundTokenRefresh.ts`, `open-sse/services/oauthCredentialManager.js`, `tokenRefresh/dedup.js`, the 401 path of `chatCore.js`) | refresh locks, result cache, stored tokens | proactive refresh, refresh on 401, background tick | single-use refresh tokens spent twice, stale results, partial two-step refresh |
| Combo routing and fusion (`open-sse/services/combo.js`, `capacityAdapter.js`) | rotation index and use count per combo; the panel's results and timers | rotate, fall through models, collect a panel, judge | shared rotation, quorum and grace timers racing results |
| Stream controller (`open-sse/utils/streamHandler.js`, `stream.js`) | disconnected flag, abort timer, stall timer | disconnect, complete, fail, abort | three endings racing a delayed abort |
| Executor retry (`open-sse/executors/base.js`) | attempts per URL | send, retry, next URL, connect timeout | one budget shared by several statuses, and a new one after a token refresh |
| Quota breakers (`antigravityQuota.ts`, `zedQuota.ts`) | RAM caches, strikes, blocks, billing cycle | refresh a quota, strike, block, unblock | state read before an await and written after, refreshes that overlap and are throttled |
| Project id cache (`open-sse/services/projectId.js`) | cache, pending fetches | get, invalidate, remove | a late `finally` deleting a newer entry |
| Login limiter (`src/lib/auth/loginLimiter.js`) | fails, window, lock level | check, fail, succeed | boundary of window and lock |
| Usage counters, request details (`usageRepo.js`, `requestDetailsRepo.js`) | pending counters with safety timers; write buffer | start, end, time out; push, flush | shared timer, lost batch |
| Tunnels (`src/lib/tunnel/cloudflare`, `src/shared/services/initializeApp.ts`) | service record, child process and its PID file, `state.json`, the `tunnelEnabled` setting | enable, disable, URL update, exit event, safe restart, watchdog | overlapping enables, an old child's exit after its successor's spawn, a disable during an await |
| Database driver, migration, backup (`src/lib/db`) | files | open, migrate, back up | start-up order, delayed save of the in-memory adapter |
| Everything else (translators, compressors, wire formats, OAuth login flows, headroom, pxpipe, MCP bridge, catalog sync, dashboard) | see `PROJECT.json` | | conversions, supervision of external processes, thin routes |

How they interact. `handleSingleModelChat` drives a request: it calls
`getProviderCredentials` (mutex, table), refreshes the token, calls `handleChatCore`
(executor, stream controller, pending counters), which calls back `onRequestSuccess`
(`clearAccountError`, table) or `onCredentialsRefreshed` (table); on failure it calls the
quota breakers and `markAccountUnavailable` (table) and loops. A combo calls it once per
model. The background refresher, the dashboard's routes and every other request write the
same table rows; all writes go through `updateProviderConnection`, which merges the given
fields into the row inside a transaction.

The correctness properties, per component:
selection and fallback - the mutex, its order and its release; locks respected and set
only for the account's own errors; every request answered, with an answer that says what
the accounts were. Refresh - one exchange at a time per account, a refresh token spent once,
a rotated token kept and not overwritten by an older one. Combos - rotation shares requests
as configured, every model gets its turn, the panel ends by all, grace or timeout with the
answers that were there. Streams and calls - retries end, no silent provider holds a request,
one end per stream which the client is told of, counters return to zero. Quotas - a block
stands until its time whatever refreshes report, strikes are earned, quota calls throttled.
Tunnels - the PID file tells the truth, a lost tunnel comes back, a disabled one stays away.
`PROJECT.json` lists the hazards line by line, with the properties that cover them.

## Modules

| module | role |
|---|---|
| `AccountHealth` | the connection record and the pure functions on it: rule table, backoff, verdict on an error, model locks, activation reset, what a success clears |
| `AccountFallback` | concurrent requests over the table: selection mutex, both strategies, upstream outcome, success and failure recording, dashboard writes, clock |
| `RequestContract` | abstract specification: what one request's client may observe of the loop |
| `CredentialRefresh` | OAuth refresh of rotating tokens: shared promise, reuse cache, requests before and after a 401, background ticks, persist |
| `StreamLifecycle` | one upstream call: executor retries and connect timeout, the repetition after a refresh, the stream with its controller, watchdog, backpressure and reader, the pending counter |
| `ComboRouting` | a combo's requests: rotation, capability order, fallback over models; fusion panel and judge |
| `QuotaBlocks` | quota caches, strikes and blocks of Antigravity and Zed accounts |
| `TunnelSupervisor` | the Cloudflare tunnel: enable, disable, child, PID file, safe restart |
| `ExchangeContract` | abstract specification: what a provider's token endpoint sees of one account |
| `MCAccountFallback`, `MCCredentialRefresh`, `MCStreamLifecycle`, `MCComboRouting`, `MCQuotaBlocks` | the small instances; `TunnelSupervisor` needs plain numbers only |
| `AccountFallback_proofs` | lemmas and theorems |

The modules of a request's life fit together by their outcomes. `StreamLifecycle` is what
`UpstreamOk` and `UpstreamFails` of `AccountFallback` stand for; its `refreshing` phase is a
request of `CredentialRefresh`; one attempt of `QuotaBlocks` is one turn of the fallback loop
with its pre-filter and its success and error callbacks; a `CallModel` of `ComboRouting` is a
whole request of `AccountFallback`. They share no variables in the models. Composing them
would multiply their states without a new interleaving on shared data, except that quota
blocks narrow the pool the selection sees, which the selection already meets as an account
that is not there. `TunnelSupervisor` has nothing in common with requests but the process.

### AccountHealth

A record has, for each lock key (every model plus `AllKey`, the `modelLock___all` field),
a field that is `Absent` (never written), `Null` (cleared) or an expiry. The difference
matters: `clearAccountError` works on the keys that exist. `GoverningExpiry` is the
`connection[key] || connection[MODEL_LOCK_ALL]` of `isModelLockActive`. An error is a status,
the set of rule texts found in its message, and the provider's reset time; `FirstMatch`
picks the topmost rule, as the loop over `ERROR_RULES` does; a failure without a status matches
no status rule and gets the transient cooldown unless its text says otherwise. `Activated` is
`resetHealthStateOnActivation`: whoever writes `testStatus: "active"` clears every lock.
Texts are abbreviated (`"region"` stands for the message "not available in your region"),
and the two numbers a rule may hold are `COOLDOWN_LONG` and `COOLDOWN_SHORT`.

### AccountFallback

| action | code |
|---|---|
| `Start` | first `getProviderCredentials` call: takes a ticket in the promise chain |
| `ReadConnections` | the previous promise is resolved; the rows are read |
| `SelectFillFirst`, `SelectSticky`, `SelectRotate` | the strategy's choice, its bookkeeping write, `finally`, the request goes upstream |
| `AllRateLimited`, `NoAccountLeft` | the two empty selections and the answers `chat.js` makes of them |
| `SelectionThrows` | an exception inside the mutex |
| `UpstreamOk`, `UpstreamFails` | outcome of `handleChatCore`, retries and token refresh included |
| `ClearAccountError` | `onRequestSuccess`; `SuccessNotRecorded`: its write throws and is logged; `SuccessThenFails`: it ran on good headers and the body is an error, with or without a status |
| `MarkRead`, `MarkWrite` | the two halves of `markAccountUnavailable` around its await, then exclusion and the next call |
| `ReturnError` | an error that is not the account's fault |
| `RequestThrows` | an exception outside the mutex |
| `TestConnection`, `SetActive`, `ClearCooldown`, `ClearCooldownWrite` | dashboard |
| `Tick` | the clock |

The promise chain is a ticket per call: `tail` is the last ticket, `resolved` the tickets
whose promise is resolved, and a call is admitted when its predecessor's ticket is in
`resolved`. The reads between taking the snapshot and writing it (settings, strategy) do not
touch the rows, so a selection is two actions: read, then decide-and-write. The proxy lookup
after the choice reads other tables and is part of the second; that the code holds the mutex
a little longer allows fewer interleavings, not more. A request keeps the selected record in
`held`, as `credentials._connection` does.

The connection table is global to the model and is of one provider, while the mutex in the
code is shared by all providers. Requests of other providers would only wait on it; the
theorems about it hold for any number of requests.

`RequestContract` knows three things about a request: the accounts tried, the one in use and
the outcome. `Contract == INSTANCE RequestContract WITH tried <- excluded, serving <-
current, outcome <- [r |-> answer[r].kind]` is the refinement mapping.

### CredentialRefresh

A refresh token is its generation. The provider accepts the newest one it issued (`valid`);
an exchange yields the next generation, the same one, a permanent error for a consumed one,
or null for a transient failure, after which the provider may or may not have rotated.

| action | code |
|---|---|
| `Select` | the stored tokens arrive with the selected account |
| `Check` | `checkAndRefreshToken` before the upstream call, or for a tick: due by expiry, or by the age limit |
| `Refresh` (part of `Check`, `RefreshAfterRejection`) | `refreshProviderCredentials` up to its first await: join the connection's promise, reuse a cached result, or start an exchange |
| `Upstream` | accepted, or 401/403 |
| `RefreshAfterRejection` | `refreshWithRetry`: three attempts with growing delays |
| `Persist`, `PersistFails` | `updateProviderCredentials`, by every caller with the result it got; a write that fails is logged and the caller goes on (`GoOn`) with tokens that are not stored |
| `TickFires`, `Load`, `TickNext`, `TickEnds` | `runBackgroundTokenRefreshTick`: flag, list read once, one account after the other, `finally` |
| `Exchange` | the provider answers: cache entry, promise, and all callers that wait for it, in one step, because continuations run before anything else |

The lock map holds, per connection, the caller whose promise is shared (`lock`); its
`finally` deletes the entry. `answered`, `received`, `written` and `lost` are history: when the
provider last answered for a token, the newest generation the program got, the newest it
persisted, the ones whose write failed.

`ExchangeContract` hides the callers, the locks and the cache: the token endpoint sees, of one
account, exchanges one at a time, of tokens the program was given, none twice within the window,
and the newest one replaced by the next. The refinement mapping (`Exchanges`) takes the tokens
whose cache entry is pending for those on the wire; `Exchange` is its `End`, a check that starts
an exchange its `Send`, and all other steps but the clock are stutters.

### StreamLifecycle

| action | code |
|---|---|
| `Start` | `handleChatCore` counts the request and calls the executor |
| `AnswerFails`, `ConnectTimeout`, `Retry` | `BaseExecutor.execute`: status or exception against the shared count (`tryRetry`), the delay, the same URL again |
| `Refreshed` | the 401/403 path: new credentials and one more `execute`, or the error |
| `AnswerBuffered`, `Buffer` | JSON clients and bodies that are no SSE |
| `OpenStream` | `handleStreamingResponse`, `pipeWithDisconnect` |
| `Chunk`, `EndOfBody`, `UpstreamFails` | the tap, the transform stage, which finalizes a Responses stream that is passed on as it is (`sameFormat`) at its terminal event, their flush, which finalizes any, a broken connection |
| `StallFires`, `AbortFires`, `PendingFires` | the watchdog, the delayed abort, the safety timer of the pending counter |
| `Pull`, `ReadChunk`, `ReadDone`, `ReadFails`, `Cancel` | `createDisconnectAwareStream` |
| `Tick` | time, up to the next timer |

`pending` and `pendingTimer` are one counter and one timer for the pair of account and model,
as in `trackPendingRequest`; all requests of the instance share them. `disconnected` is the
controller's flag, set by whichever end comes first. Timers hold the time left. `terminal` is
history: the terminal event has passed the transform.

### ComboRouting

| action | code |
|---|---|
| `StartCombo` | `getRotatedModels` moves the shared rotation at once; `reorderByCapabilities` |
| `CallModel`, `WaitOver`, `Exhausted` | the loop of `handleComboChat` and its six kinds of answer |
| `ResetRotation` | saving combo settings |
| `FanOut`, `PanelSettles`, `GraceOver`, `HardTimeoutStrikes` | `handleFusionChat`, `collectPanel`, `withTimeout` |
| `StragglerSettles` | a call that settles after the collection closed still writes its place in `out` |
| `ReadAnswer`, `Judge` | the answers are awaited one after the other; one survivor is called again, more go to the judge |

A round-robin request is a slot that serves one request after the other, so that two that overlap
can take the rotation through a full turn. `led` counts them since the last reset, `turn` is the
number a request got and `ranks` how well each model fits its media; the model it is really sent
to first is `tried[1]`. `atClose` is the panel when the collection closed.

### QuotaBlocks

| action | code |
|---|---|
| `Attempt` | the pre-filter of `getProviderCredentials` |
| `Succeed` | `clearAntigravityStrikes` or `clearZedQuotaBlock` |
| `Fail` | a quota error: join the refresh under way, go by the cache when throttled, or ask upstream |
| `RefreshFails`, `AntigravityRefreshed`, `ZedRefreshed` | the quota call ends; blocks that stand override the snapshot; Zed's block follows the reading |
| `HandleAntigravity`, `HandleZed` | the handlers after their await: strike or reset, spend limit or cached block |

`Quiet` lets the handlers a refresh resumed run before anything else, as the microtask queue
does. `recent` is history: the latest verdicts about each pair.

### TunnelSupervisor

Each call of `enableTunnel` is numbered; its cancel token and its child have its number.
`Orphan` is the cloudflared of an earlier run of the program, which may be running or gone when
the model starts, and may be what the PID file names, since the file outlives the process.

| action | code |
|---|---|
| `UserEnables`, `Reuse`, `ReplaceStale`, `Spawn`, `Announce`, `Register`, `Verify`, `Fail` | `enableTunnel` await by await, with `spawnQuickTunnel` |
| `SpawnFails` | the spawn or `savePid` throws after the child was tracked: the call fails, nobody listens to the child, the file does not name it |
| `FetchFails`, `DownloadStalls` | the download all calls share is rejected, or never settles: `downloadFile` has no timeout and listens to no error of the body |
| `ChangeUrl`, `SaveUrl` | `onUrlUpdate` |
| `KilledExits`, `Crash` | the exit event of a child: PID file, `intentionalKill`, the unexpected-exit handler |
| `ExitsUnheard` | the orphan, or the child of a failed start, exits: no event, the PID file stays |
| `Disable` | `disableTunnel`, which awaits nothing that others could see half done |
| `Wake`, `Offline`, `Restart`, `CooldownOver` | `safeRestartTunnel` from the watchdog, the network monitor or an exit event: guards, internet check, `enableTunnel` |

## Runs

| run | instance | properties | result |
|---|---|---|---|
| `locks` | 2 requests, 2 models, 2 accounts, fill-first, GitHub, four errors, clock to 3, a month of two ticks; fresh, locked or disabled accounts | `TypeOK`, `LocksGoByTheError`, `ModelLockRespected`, `AnswerMatchesPool`, `RetryAfterNotLate` | hold, 2.6 M states |
| `rotation` | 3 requests, 1 model, 2 accounts, round-robin with sticky limit 2, clock to 2 | `SelectionExclusive`, `NoAbandonedTicket`, `RotationStateFresh`, `StickyWithinLimit`, `NoOvertaking` | hold, 1.2 M states |
| `answers` | 2 requests, 1 model, 2 accounts, errors with and without a status, a dashboard write, under fairness | `KeepsContract`, `Answered` | hold, 0.17 M states |
| `accountwide` | 3 requests, 2 models, GitHub | `AccountWideLockRespected` | violated: finding 1 |
| `staleclear` | 2 requests, 2 models, a locked account to begin with | `ResetOnlyWithoutActiveLocks` | violated: finding 2 |
| `refresh` | 2 requests, 2 background ticks, 1 account, 2 generations, 1 failed exchange, any failed writes, under fairness | `TypeOK`, `SingleFlight`, `OneTick`, `LostOnlyByFailedWrite`, `SentOncePerWindow`, `KeepsExchangeContract`, `CallersFinish` | hold, 0.31 M states |
| `newesttoken` | 3 requests, 1 account, 3 generations | `NewestTokenStored` | violated: finding 3 |
| `stream` | 2 requests of one pair, up to 2 chunks, a pipe of 1, streams finalized in transform or not, under fairness | `TypeOK`, `NoPhantomPending`, `NeverSilentlyTruncated`, `UsageLoggedOnce`, `NoStaleWatchdog`, `NoRequestHangs` | hold, 0.59 M states |
| `routing` | 3 models; up to 7 round-robin requests in 2 slots with a reset and three rankings of the models, fallback requests, or one fusion, under fairness | `TypeOK`, `LeadsInTurn`, `FailsOnlyWhenExhausted`, `StragglersGetGrace`, `JudgeGetsEveryAnswer`, `RequestsEnd` | hold, 0.21 M states |
| `quota` | 4 requests of one Antigravity account (one or two models) or of one Zed account, clock to 4 | `TypeOK`, `BlockStands`, `StrikesEarned`, `ThrottledQuotaCalls`, `FallbackIsRecorded` | hold, 1.1 M states |
| `tunnel` | 2 enable calls by the user or by restarts, a disable, a URL change, two troubles (crash, failed or stalled download, failed start), a process and PID file of an earlier run, under fairness | `TypeOK`, `SpawnFlagNotStuck`, `PidFileTruthful`, `WatchdogRecovers` | hold, 0.41 M states |
| `resurrect` | 2 enable calls, a disable | `DisabledStaysDisabled` | violated: finding 4 |

What the newer passing runs show. `refresh`: however requests and ticks interleave and
whichever generation each of them holds, exchanges of an account never overlap, no token is
sent twice within the reuse window (failed results included), a rotated token that was
received is written or about to be unless its write failed, and nobody waits for ever.
`stream`: the pending counter
never exceeds the requests in progress, a stream that ends under a reading client ends with
the terminal event or was complete, usage is logged once when the body has ended or the terminal
event of a Responses stream passed on as it is has gone by, and not before, no watchdog outlives
its stream, and a request ends though its provider fails every attempt or is silent before its
headers or in a stream (a body that is read as a whole has no watchdog: how long the runtime waits
for it is not in the repository, and `NoRequestHangs` stops at that point).
`routing`: the n-th round-robin request is sent first to the model whose turn it is, or to the
next of those that fit its media best; an
exhausted combo has called every model; the grace period needs a quorum of successes; the
judge gets what had arrived, while late answers write the array it is read from. `quota`: a
strike block is what the selection sees until it runs out, through refreshes that report
something else; a block takes three strikes in a row within the window; the quota of an
account is asked for once per interval. `tunnel`: a process is dropped from the PID file only when
it is killed or has exited or a start writes the file, so that late exits of old children do not
clear the PID of their successors; the file names no child of this run that does not run; no
overlap of calls leaves the spawn flag set when they have ended; and a tunnel that lost its
process gets one again, whatever an earlier run left, unless a download stalls.

Bounds. `MaxTime` bounds the clock and `MaxAdmin` the dashboard's writes. Durations keep the
order of the source's (5 s < 30 s < 120 s; backoff doubling to a maximum) on a clock of a few
ticks, so that a lock of each kind can be written, be running, expire and be written again
within the run. Two accounts are enough for fallback, exhaustion and rotation; two models for
a lock of another model and the account-wide one; two requests for every race on one record,
three for overtaking and for a stale lock beside a fresh one. Requests are symmetric where a
run has no liveness property.

- `CredentialRefresh`: a tick of the clock is the 10 s of the reuse window, so the retries
  after 1 s and 2 s fall within one tick and their delay is 0. Two requests and two ticks give
  every pair of callers: two that share an exchange, one inside and one after the window, a
  tick during a tick. `MaxGen` bounds the generations (three in `newesttoken`, where two are
  rotated away), `MaxFaults` the failed exchanges. Writes of tokens may fail any number of times.
- `StreamLifecycle`: 0.5 s (abort) and 2-3 s (retry) are one tick, the 60 s of the connect and
  pending timeouts two, the 360 s of the watchdog three; two attempts stand for the limit of 502
  and 503, one for that of 500 and 504. Two chunks with a pipe of one give a reader that
  is behind, a body that ended before it was read, and a stream that stalls after its first
  chunk; one more request on the same pair gives everything the shared counter can meet.
- `ComboRouting`: three models are the least for which a quorum of two leaves a straggler
  and a rotation with sticky limit two differs from alternation; `MaxLed` is seven, one more than
  the six requests of a full turn, so that the rotation wraps around; `MaxResets` is one. The
  three rankings: all models fit, one alone fits best, two fit alike and the first does not.
- `QuotaBlocks`: interval (30 s), window (60 s) and block (15 min), which the code never
  compares with each other, are two ticks each, the threshold is three as in the source; four requests can earn a block and meet it.
- `TunnelSupervisor`: two calls are the least that overlap; one disable, one URL change, two
  troubles, such as a failed start and the exit of what it left. `watch` starts with a restart under way when the process finds the tunnel enabled.

Deadlock checking is off in every run: when all requests have been answered, or the calls are
used up, and the clock has reached its bound the models rightly stop; that nobody is stuck is
what the liveness properties say.

Fairness. `FairSpec` of `AccountFallback` assumes weak fairness of each started request's own
steps. The event loop resumes a continuation whose promise has settled, and an upstream call
ends by answer, connect timeout or stall timeout (`NoRequestHangs`). Nothing is assumed of
clients starting, of the clock or of the dashboard. The other modules put fairness in `Spec`:

- `CredentialRefresh`: callers proceed, the token endpoint answers or the connection breaks
  (its fetch has no timer of its own), and time passes.
- `StreamLifecycle`: timers fire, `refreshWithRetry` returns, and a client that stays
  connected reads on. Nothing is assumed of the provider.
- `ComboRouting`: timers fire, a started request proceeds, and the calls of the fallback loop end,
  each being a whole request; a panel call need never settle and no request need arrive.
- `TunnelSupervisor`: the awaits of a call end, except that of a download that stalls, which
  disables `Spawn` for good; the cooldown runs out, the watchdog ticks, and
  a restart that is tried for ever finds the internet once (strong fairness of
  `Restart("watchdog")`). cloudflared owes nothing.
- `QuotaBlocks` has safety properties only and no fairness.

## Findings

1. `open-sse/services/accountFallback.js:152`: an expired lock of the model hides a running
   account-wide lock (`connection[key] || connection[MODEL_LOCK_ALL]`), against
   `tests/unit/github-monthly-usage-lock.test.js:35` and the comment at `auth.ts:352`.
   Expired fields are only cleaned when a request succeeds, so the combination is reached by a
   rate limit followed by the monthly limit.
2. `src/sse/services/auth.ts:436`: `clearAccountError` looks for remaining locks in the record
   as it was selected; a lock written by another request since then is wiped by the activation
   reset, against the comment at `auth.ts:408`.
3. `src/sse/services/tokenRefresh.ts:193`: every caller persists the result it got, shared and
   reused results included, without a look at what is stored; a caller that comes late puts a
   consumed refresh token over the newest one, against
   `tests/unit/codex-refresh-token.test.js:6`.
4. `src/lib/tunnel/cloudflare/manager.js:104`: `enableTunnel` does not look at its token after
   `registerTunnelUrl`; a disable during that await is undone, against the comment at line 134.

Differences met on the way, with no run of their own:

- The comment at `accountFallback.js:5` gives the backoff as 1 s, 2 s, 4 s up to 4 minutes, the
  configuration in `errorConfig.js:34-38` starts at 2 s and ends at 5 minutes.
- Combos wait before the next model on a transient status only when its cooldown is at most
  5 s; the transient cooldown is 30 s, so the wait never happens for a plain 502 or 503.
- A combo reads `retryAfter` from error bodies; `unavailableResponse` sends it as a header.
- A fusion with one surviving answer calls that model again instead of returning the answer.
  Its quorum counts responses without text.
- A client that cancels after the end of the body was flushed decrements the pending counter a
  second time, and the timer of the pair is cleared by the first request that ends.
- A strike recorded after a success whose request was sent later counts: what clears strikes is
  the order of the handlers, not of the requests.
- A Zed success drops the billing cycle, so a spend limit within the throttle interval after it
  finds no cycle and sets no block.
- `killCloudflared` sets `intentionalKill` also when nothing runs; the next unexpected exit is
  then taken for a deliberate one. A later `enableTunnel` replaces the token, so that a disable
  cancels only the latest call; a cancelled call leaves its child to the next one.
- `stream.js:103` says that `finalizeStream` is "callable from transform() as well as flush(): a
  client that closes right after the terminal event cancels the reader, and flush() never runs".
  The transform calls it where it passes a Responses stream on (lines 294 and 390). A stream
  translated to the Responses format gets its `response.completed` from
  `openai-responses.js:117-121` without that call: if the client closes on it, the usage of the
  request is never logged. `UsageLoggedOnce` says exactly this.
- `updateProviderCredentials` catches a failed write and returns false, which neither of its
  callers looks at: a rotated refresh token is then lost with the program's memory of it.
- `downloadFile` (`cloudflared.js:64`) has no timeout and hears neither an abort nor an error of the
  body: a download that stalls leaves `enableTunnel` waiting with `spawnInProgress` set, all later
  calls wait for the same promise, and the watchdog returns at `initializeApp.ts:156` for good.
- A spawn that fails without a PID makes `savePid` throw before the listeners of the child are set,
  so its `error` event has none; a disk error in `savePid` leaves a child that runs, is tracked, but
  is in no file and has no exit handler.
- `projectId.js:134`: the `finally` of a fetch deletes a newer pending entry of its connection.

## Proofs

Every safety property that a passing run checks, invariant or action property, is also a theorem,
for every value of the constants that satisfies the assumptions: any sets of requests, accounts
and models, any durations, thresholds and bounds. Both refinements are theorems too. Each model
`X` has its proofs in `X_proofs`; the initial states, the steps and the conclusion are separate
lemmas, with one case per action.

| module | inductive invariant | theorems (run property) |
|---|---|---|
| `AccountFallback_proofs` | `SafetyInv == TypeOK /\ ControlOK /\ ChainOK`, then `PatchInv` | `TypeCorrect` (`TypeOK`), `SelectionMutex` (`SelectionExclusive`), `NoLostLink` (`NoAbandonedTicket`), `FifoSelection` (`NoOvertaking`), `LockedModelNotServed` (`ModelLockRespected`), `StickyBound` (`StickyWithinLimit`), `NoLostUse` (`RotationStateFresh`), `RefusalIsTrue` (`AnswerMatchesPool`), `RetryAfterInTime` (`RetryAfterNotLate`), `LocksAreEarned` (`LocksGoByTheError`), `FallbackKeepsContract` (`KeepsContract`) |
| `CredentialRefresh_proofs` | `TypeOK /\ LockInv /\ TickInv /\ WindowInv`, then `HeldInv` | `TypeCorrect`, `OneExchange` (`SingleFlight`), `TicksAlone` (`OneTick`), `WindowKept` (`SentOncePerWindow`), `NoRotationLost` (`LostOnlyByFailedWrite`), `JoinersHaveAFlight`, `RefreshKeepsContract` (`KeepsExchangeContract`) |
| `StreamLifecycle_proofs` | `TypeOK /\ StreamInv /\ PendingInv` with the properties | `TypeCorrect`, `PendingIsReal` (`NoPhantomPending`), `TruncationIsTold` (`NeverSilentlyTruncated`), `UsageLogged` (`UsageLoggedOnce`), `WatchdogOff` (`NoStaleWatchdog`) |
| `ComboRouting_proofs` | `TypeOK /\ RotationInv /\ LeadInv /\ RequestInv` | `TypeCorrect`, `RotationInTurn` (`LeadsInTurn`), `GivesUpLast` (`FailsOnlyWhenExhausted`), `GraceIsEarned` (`StragglersGetGrace`), `AnswersReachTheJudge` (`JudgeGetsEveryAnswer`) |
| `QuotaBlocks_proofs` | `TypeOK /\ ZedInv /\ FellInv /\ StrikeInv /\ BlockStands` | `TypeCorrect`, `BlocksStand` (`BlockStands`), `BlocksAreEarned` (`StrikesEarned`), `QuotaCallsThrottled` (`ThrottledQuotaCalls`), `FallbacksRecorded` (`FallbackIsRecorded`) |
| `TunnelSupervisor_proofs` | `TypeOK /\ FreshCalls`, then `PidHeld` | `TypeCorrect`, `PidFileKept` (`PidFileTruthful`), `FlagFollowsCalls` (`SpawnFlagNotStuck`) |

`AccountFallback`. `TypeOK` alone is not inductive: the writes of `MarkRead` and `MarkWrite`
index the table with `current[r]`, which must be an account. `ControlOK` says what a request's
phase implies. `SelectionExclusive` is not inductive either: after a release, who is admitted
depends on the whole chain. `ChainOK` says that calls in progress hold distinct unresolved
tickets, that the resolved tickets are a prefix, that a call past the wait has its predecessor
resolved, and that every unresolved ticket has an owner; `EnqueueChain`, `ReleaseChain` and
`QuietChain` are the three things a step can do to it. Rotation: only a selection writes
`lastUsed` and `useCount` (`WritersKeepUse`, `UseWrites`), and selections exclude each other, so
the snapshot a selection decides from is current in these fields. `LocksAreEarned` needs
`PatchInv`: the lock is written one await after the error was judged, so the invariant ties the
patch to the error it was made for. `ReturnedErrors` goes through the rule table for its other half,
which errors end the request. `RequestStepRefines` maps every step to the contract.

`CredentialRefresh`. The shared promise and the result cache are two maps with different keys,
account and token; that there is one exchange at a time follows only from what they say of each
other. `LockInv`: an entry is pending exactly while the caller that holds the account's lock has
its exchange in flight for that token, and who joined has a lock to wait on. `WindowInv` ties
the end of a settled entry to the time of the answer; with it "no entry, or an expired one" at a
`Check` becomes "answered a window ago". `HeldInv` follows tokens through every place that holds
one (row, tick's list, cache, caller) and gives the contract its "of a token it was given".
`NoRotationLost` follows the newest token from the exchange to its row: it is written, in the hands
of callers at `persist`, or in `lost`, which only a failed write adds to.

`StreamLifecycle`. The counter is shared and each request has several places that take it off,
so a bound on the counter cannot be kept by looking at one request. `PendingInv` bounds it by the
cardinality of `Live`, the requests that no place has taken off yet; each step removes at most one
request from `Live` and lowers the counter when it does. `StreamInv` says that every abort and
cancel has the controller's flag behind it and that a stream that is over has no watchdog.
`UsageLoggedOnce` is inductive as it stands.

`ComboRouting`. `LeadsInTurn` speaks of the number of a request, the code keeps an index and a
count: `RotationInv` says they are quotient and remainder of the number of requests led by the
sticky limit (`DivMod`, `ModUnique`, `NextDiv`). `BestOf` says what the capability sort puts first,
and `LeadInv` that a request under way has the order its turn and its ranking give. `LoopInv` keeps what was tried equal to the prefix of the
request's order, which is an arrangement of the combo through rotation and capability sort.
`CollectionInv` says that the running count is the cardinality of the panel's successes;
`ReadingInv` that late answers change no place that had settled when the collection closed.

`QuotaBlocks`. `StrikeInv` says that the counter counts a suffix of the verdicts that consists of
strikes and whose first is the window's start; without it a block could be earned by a counter
that survived a success. `ZedInv` and `FellInv` keep the two providers and the phases apart.

`TunnelSupervisor`. `FreshCalls` says that a call not made yet has no phase, hence no child: a
new call cannot meet a process with its number. `PidHeld` says that a child of this run that the PID
file names runs and is listened to: an exit that nobody hears is then never that of the child
named, and what clears the file is the exit handler of the same child, a kill, or a new start.

What the violated properties leave. For each finding a theorem states the exact boundary of the
divergence, so that a reader knows what can still be relied on:

- finding 1, `WideLockHiddenOnlyByExpired`: an account under a running account-wide lock is
  given away only if it has an expired lock of the request's model;
- finding 2, `ResetGoesByTheSnapshot`: a reset wipes only locks that were not running in the
  record as it was selected;
- finding 3, `StoredTokenWasReceived`: the stored token may be stale, but it is one the
  provider issued and the program received;
- finding 4, `DisableSticks`: a disable that meets no registration or URL update under way and no
  older uncancelled call is final; `Final` is left only by a call of `enableTunnel`.

Assumptions, each stated in the module that declares the constants and evaluated by TLC in the
runs: `FallbackAssumption` (types, distinct priorities, initial tables with counters within the
sticky limit), `DurationAssumption` (positive durations), `BackoffAssumption` (the backoff
cooldown is a positive number at each level: exponentiation is opaque to the provers),
`RefreshAssumption` (requests and ticks are different callers, a positive reuse window),
`StreamAssumption` (finitely many requests, timers that are not zero), `RoutingAssumption` (a combo
of two or more different models, a quorum of at least two and at most the panel),
`QuotaAssumption` (positive windows and threshold), `TunnelAssumption` (bounds are numbers).

Model-checked only:

- `Answered`, `CallersFinish`, `NoRequestHangs`, `RequestsEnd` and `WatchdogRecovers`: liveness
  under fairness needs ENABLED, which is out of the provers' reach.
- The four properties of the findings, which do not hold.

## Not modelled, and why

Of the selection: the virtual connection of no-auth providers (no state), a preferred
connection (used by routes other than chat), deletion of a connection while a request uses it.
Of the refresh: GitHub's second (Copilot) token, the project id, and providers whose executors
refresh without the lock. Of the executor: several URLs (no provider of the registry has more
than one), Antigravity's computed delays, the look at the first bytes of a Codex stream and its
own retries, executors that override `execute`. Of combos: the capacity adapter, combos within
combos, the Retry-After of a refusal. Of the quota blocks: the
database locks taken where no reset is known (`AccountFallback` has them). Of the tunnels: Tailscale,
whose daemon belongs to the operating system, the named tunnel, which nothing calls, and a PID that
the system has given to another program: the PID file names the process that was spawned or none.

Not begun: the project id cache, the login limiter, the write buffer of request details, usage
aggregation, the create, delete and renumbering of connections, database start-up and backup,
quota auto-ping, the helper processes. The loops of the media, search and fetch handlers repeat
the chat loop. Conversions between wire formats, compressors, login flows, thin routes and the
dashboard's pages, which are most of the repository's lines, keep no state that steps of
several actors could put wrong; their reasons are in `PROJECT.json`.

## Plan

Done: the models of the core and of the five other components, their safety proofs, the two
refinements, the boundaries of the findings. Left, in this order:

1. Safety halves of the liveness properties that need no fairness: that a request in progress
   always has a timer or a step of its own (`StreamLifecycle`), that a waiting caller's exchange
   can be answered (`JoinersHaveAFlight` is the first of these).
2. `ConnectionRepo`: create with dedup, delete, renumbering [priorities are 1..n]; then
   `ProjectIdCache` and `LoginLimiter`, each with its proofs.
3. The request-detail buffer; database start-up and backup.
