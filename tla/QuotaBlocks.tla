---------------------------- MODULE QuotaBlocks ----------------------------
(***************************************************************************)
(* The quota blocks that keep exhausted accounts out of rotation, in memory *)
(* only: Antigravity's per account and model with its strike breaker        *)
(* (antigravityQuota.ts) and Zed's per account with its billing cycle       *)
(* (zedQuota.ts).  A request is one attempt of the chat handler: the        *)
(* pre-filter of the selection, the upstream call, and the success or error *)
(* path with its quota refresh.  The locks that the database keeps are      *)
(* those of AccountFallback and do not occur here.                          *)
(***************************************************************************)
EXTENDS Integers, Sequences, FiniteSets

CONSTANTS
  Requests,
  Accounts, Antigravity,   \* Antigravity: those of that provider, the others are Zed's
  Models,
  RefreshInterval, StrikeWindow, StrikeThreshold, StrikeBlock,  \* MIN_REFRESH_INTERVAL_MS, STRIKE_*
  Targets,                 \* what the requests go to, [Requests -> Accounts \X Models]
  MaxTime                  \* bound on the clock

Keys == Accounts \X Models

ASSUME QuotaAssumption ==
  /\ Antigravity \subseteq Accounts
  /\ {RefreshInterval, StrikeWindow, StrikeThreshold, StrikeBlock, MaxTime} \subseteq Nat \ {0}
  /\ Targets \subseteq [Requests -> Keys]

VARIABLES
  now,
  target,       \* the account and model of each request
  phase,        \* where each request is
  error,        \* the kind of error it met: quota (409, 429, ...) or spend limit
  fell,         \* the reset it fell back with, 0: none
  cache,        \* quotaCache: the reading of each key
  lastRefresh,  \* lastRefreshAt, 0: never
  inflight,     \* inflightRefresh
  strikes,      \* strikeCounts: [count, windowStart]
  blocks,       \* strikeBlocks: blocked until, 0: no entry
  cycle,        \* billingResetCache, 0: no entry
  recent        \* the latest verdicts about each key: [what, at]

vars == <<now, target, phase, error, fell, cache, lastRefresh, inflight, strikes, blocks, cycle, recent>>

-----------------------------------------------------------------------------
\* A reading: none, or whether quota remains and when the window resets (0: no
\* reset is given, or one that has passed).
None == [known |-> FALSE, left |-> 0, resetAt |-> 0]
Reading(left, resetAt) == [known |-> TRUE, left |-> left, resetAt |-> resetAt]

NoStrikes == [count |-> 0, windowStart |-> 0]

Init ==
  /\ now = 1
  /\ target \in Targets
  /\ phase = [r \in Requests |-> "new"]
  /\ error = [r \in Requests |-> "none"]
  /\ fell = [r \in Requests |-> 0]
  /\ cache = [k \in Keys |-> None]
  /\ lastRefresh = [a \in Accounts |-> 0]
  /\ inflight = [a \in Accounts |-> FALSE]
  /\ strikes = [k \in Keys |-> NoStrikes]
  /\ blocks = [k \in Keys |-> 0]
  /\ cycle = [a \in Accounts |-> 0]
  /\ recent = [k \in Keys |-> <<>>]

-----------------------------------------------------------------------------
\* The pre-filter of getProviderCredentials.
Blocked(k) == cache[k].known /\ cache[k].left = 0 /\ cache[k].resetAt > now

\* The handlers that a finished refresh resumed run before anything else happens.
Quiet == \A r \in Requests : phase[r] \notin {"read", "unread"}

Note(k, what) ==
  LET all == Append(recent[k], [what |-> what, at |-> now])
  IN  recent' = [recent EXCEPT ![k] =
        SubSeq(all, IF Len(all) > StrikeThreshold THEN Len(all) - StrikeThreshold + 1 ELSE 1, Len(all))]

\* The request is sent, unless the pre-filter skips its account.
Attempt(r) ==
  /\ Quiet /\ phase[r] = "new"
  /\ phase' = [phase EXCEPT ![r] = IF Blocked(target[r]) THEN "done" ELSE "sent"]
  /\ UNCHANGED <<now, target, error, fell, cache, lastRefresh, inflight, strikes, blocks, cycle, recent>>

-----------------------------------------------------------------------------
(* onRequestSuccess *)

\* Mutant: a success leaves the count of strikes.
SucceedKeepingStrikes(r) ==
  LET k == target[r]
  IN  /\ Quiet /\ phase[r] = "sent"
      /\ phase' = [phase EXCEPT ![r] = "done"]
      /\ Note(k, "success")
      /\ blocks' = [blocks EXCEPT ![k] = 0]
      /\ cycle' = [cycle EXCEPT ![k[1]] = 0]
      /\ cache' = [cache EXCEPT ![k] =
           IF k[1] \notin Antigravity \/ (blocks[k] # 0 /\ @.resetAt = blocks[k]) THEN None ELSE @]
      /\ UNCHANGED <<now, target, error, fell, lastRefresh, inflight, strikes>>

\* clearAntigravityStrikes removes the block and the entry made for it, an upstream
\* reading stays; clearZedQuotaBlock removes the account's entry and its cycle.
Succeed(r) ==
  LET k == target[r]
  IN  /\ Quiet /\ phase[r] = "sent"
      /\ phase' = [phase EXCEPT ![r] = "done"]
      /\ Note(k, "success")
      /\ strikes' = [strikes EXCEPT ![k] = NoStrikes]
      /\ blocks' = [blocks EXCEPT ![k] = 0]
      /\ cycle' = [cycle EXCEPT ![k[1]] = 0]
      /\ cache' = [cache EXCEPT ![k] =
           IF k[1] \notin Antigravity \/ (blocks[k] # 0 /\ @.resetAt = blocks[k]) THEN None ELSE @]
      /\ UNCHANGED <<now, target, error, fell, lastRefresh, inflight>>

-----------------------------------------------------------------------------
(* refreshAntigravityQuota, refreshZedQuota *)

Throttled(a) == lastRefresh[a] # 0 /\ now - lastRefresh[a] < RefreshInterval

\* Mutant: only a refresh that succeeds is recorded.
FailUnrecorded(r) ==
  LET a == target[r][1]
  IN  /\ Quiet /\ phase[r] = "sent"
      /\ \E e \in IF a \in Antigravity THEN {"quota"} ELSE {"quota", "spend"} :
           error' = [error EXCEPT ![r] = e]
      /\ IF inflight[a] THEN /\ phase' = [phase EXCEPT ![r] = "waiting"]
                             /\ UNCHANGED <<inflight, lastRefresh>>
         ELSE IF Throttled(a) THEN /\ phase' = [phase EXCEPT ![r] = "read"]
                                   /\ UNCHANGED <<inflight, lastRefresh>>
         ELSE /\ phase' = [phase EXCEPT ![r] = "waiting"]
              /\ inflight' = [inflight EXCEPT ![a] = TRUE]
              /\ UNCHANGED lastRefresh
      /\ UNCHANGED <<now, target, fell, cache, strikes, blocks, cycle, recent>>

\* The request meets a quota error: it joins the refresh under way, or goes by the
\* cache when the last attempt is too recent, or asks upstream and records that.
Fail(r) ==
  LET a == target[r][1]
  IN  /\ Quiet /\ phase[r] = "sent"
      /\ \E e \in IF a \in Antigravity THEN {"quota"} ELSE {"quota", "spend"} :
           error' = [error EXCEPT ![r] = e]
      /\ IF inflight[a] \/ ~Throttled(a)
         THEN phase' = [phase EXCEPT ![r] = "waiting"]
         ELSE phase' = [phase EXCEPT ![r] = "read"]
      /\ IF inflight[a] \/ Throttled(a)
         THEN UNCHANGED <<inflight, lastRefresh>>
         ELSE /\ inflight' = [inflight EXCEPT ![a] = TRUE]
              /\ lastRefresh' = [lastRefresh EXCEPT ![a] = now]
      /\ UNCHANGED <<now, target, fell, cache, strikes, blocks, cycle, recent>>

\* All that waited for the refresh of an account resume.
Resume(a, as) ==
  /\ inflight' = [inflight EXCEPT ![a] = FALSE]
  /\ phase' = [r \in Requests |->
       IF phase[r] = "waiting" /\ target[r][1] = a THEN as ELSE phase[r]]
  /\ UNCHANGED <<now, target, error, fell, lastRefresh, strikes, recent>>

\* The refresh fails or yields no quotas: the known cache is kept.
RefreshFails(a) ==
  /\ Quiet /\ inflight[a]
  /\ Resume(a, "unread")
  /\ UNCHANGED <<cache, blocks, cycle>>

\* Mutant: a fresh snapshot replaces the blocks.
Snapshot(snapshot, a) == snapshot

\* applyActiveStrikeBlocks: the blocks that still stand override the snapshot.
ApplyActiveStrikeBlocks(snapshot, a) ==
  [m \in Models |-> IF blocks[<<a, m>>] > now THEN Reading(0, blocks[<<a, m>>]) ELSE snapshot[m]]

\* What upstream may report of an Antigravity model: nothing, quota left, none left.
Reported == {None, Reading(1, 0), Reading(0, 0), Reading(0, now + 1)}

\* A snapshot replaces the account's readings; blocks that have run out are dropped.
AntigravityRefreshed(a) ==
  /\ Quiet /\ inflight[a] /\ a \in Antigravity
  /\ \E snapshot \in [Models -> Reported] :
       LET held == ApplyActiveStrikeBlocks(snapshot, a)
       IN  cache' = [k \in Keys |-> IF k[1] = a THEN held[k[2]] ELSE cache[k]]
  /\ blocks' = [k \in Keys |-> IF k[1] = a /\ blocks[k] <= now THEN 0 ELSE blocks[k]]
  /\ Resume(a, "read")
  /\ UNCHANGED cycle

\* Zed reports the end of the billing cycle, if any, and whether a quota row is
\* exhausted.  Only an exhausted row with a reset to come blocks; any other reading
\* drops the block.
ZedRefreshed(a) ==
  /\ Quiet /\ inflight[a] /\ a \notin Antigravity
  /\ \E ends \in {0, now, now + 2}, exhausted \in BOOLEAN :
       /\ cycle' = [cycle EXCEPT ![a] = ends]
       /\ cache' = [k \in Keys |->
            IF k[1] # a THEN cache[k]
            ELSE IF exhausted /\ ends > now THEN Reading(0, ends) ELSE None]
  /\ Resume(a, "read")
  /\ UNCHANGED blocks

-----------------------------------------------------------------------------
(* handleAntigravityQuotaError, handleZedQuotaError, after their await *)

\* The request falls back with a reset, or goes on to the account's lock with none.
Decide(r, reset) ==
  /\ phase' = [phase EXCEPT ![r] = "done"]
  /\ fell' = [fell EXCEPT ![r] = reset]
  /\ UNCHANGED <<now, target, error, lastRefresh, inflight>>

\* Mutants: the strikes that led to a block are kept; the block is not put into the
\* cache the selection goes by.
StrikeUncleared(r, k) ==
  LET old   == strikes[k]
      same  == old.count > 0 /\ now - old.windowStart <= StrikeWindow
      count == IF same THEN old.count + 1 ELSE 1
  IN  /\ strikes' = [strikes EXCEPT ![k] =
           [count |-> count, windowStart |-> IF same THEN old.windowStart ELSE now]]
      /\ IF count >= StrikeThreshold
         THEN /\ blocks' = [blocks EXCEPT ![k] = now + StrikeBlock]
              /\ cache' = [cache EXCEPT ![k] = Reading(0, now + StrikeBlock)]
              /\ Decide(r, now + StrikeBlock)
         ELSE UNCHANGED <<blocks, cache>> /\ Decide(r, 0)
StrikeUncached(r, k) ==
  LET old   == strikes[k]
      same  == old.count > 0 /\ now - old.windowStart <= StrikeWindow
      count == IF same THEN old.count + 1 ELSE 1
  IN  IF count >= StrikeThreshold
      THEN /\ strikes' = [strikes EXCEPT ![k] = NoStrikes]
           /\ blocks' = [blocks EXCEPT ![k] = now + StrikeBlock]
           /\ UNCHANGED cache
           /\ Decide(r, now + StrikeBlock)
      ELSE /\ strikes' = [strikes EXCEPT ![k] =
                [count |-> count, windowStart |-> IF same THEN old.windowStart ELSE now]]
           /\ UNCHANGED <<blocks, cache>> /\ Decide(r, 0)

\* A strike: the window is anchored at its first; the last one that is needed blocks
\* the key.
Strike(r, k) ==
  LET old   == strikes[k]
      same  == old.count > 0 /\ now - old.windowStart <= StrikeWindow
      count == IF same THEN old.count + 1 ELSE 1
  IN  IF count >= StrikeThreshold
      THEN /\ strikes' = [strikes EXCEPT ![k] = NoStrikes]
           /\ blocks' = [blocks EXCEPT ![k] = now + StrikeBlock]
           /\ cache' = [cache EXCEPT ![k] = Reading(0, now + StrikeBlock)]
           /\ Decide(r, now + StrikeBlock)
      ELSE /\ strikes' = [strikes EXCEPT ![k] =
                [count |-> count, windowStart |-> IF same THEN old.windowStart ELSE now]]
           /\ UNCHANGED <<blocks, cache>> /\ Decide(r, 0)

\* No reading or an optimistic one is a strike; an exhausted one clears the strikes
\* and its reset counts if it is to come.
HandleAntigravity(r) ==
  LET k == target[r]
      quota == IF phase[r] = "read" THEN cache[k] ELSE None
  IN  /\ phase[r] \in {"read", "unread"} /\ k[1] \in Antigravity
      /\ IF ~quota.known \/ quota.left > 0
         THEN Strike(r, k) /\ Note(k, "strike")
         ELSE /\ strikes' = [strikes EXCEPT ![k] = NoStrikes]
              /\ Note(k, "exhausted")
              /\ Decide(r, IF quota.resetAt > now THEN quota.resetAt ELSE 0)
              /\ UNCHANGED <<blocks, cache>>
      /\ UNCHANGED cycle

\* A spend limit blocks until the end of a billing cycle to come; any other error
\* goes by the cached block.  What has passed is dropped.
HandleZed(r) ==
  LET k    == target[r]
      ends == IF error[r] = "spend" THEN cycle[k[1]] ELSE cache[k].resetAt
  IN  /\ phase[r] \in {"read", "unread"} /\ k[1] \notin Antigravity
      /\ cache' = [cache EXCEPT ![k] =
           IF error[r] = "spend" THEN (IF ends > now THEN Reading(0, ends) ELSE @)
           ELSE IF ends > now THEN @ ELSE None]
      /\ cycle' = [cycle EXCEPT ![k[1]] = IF error[r] = "spend" /\ @ <= now THEN 0 ELSE @]
      /\ Decide(r, IF ends > now THEN ends ELSE 0)
      /\ UNCHANGED <<strikes, blocks, recent>>

Tick ==
  /\ Quiet /\ now < MaxTime
  /\ now' = now + 1
  /\ UNCHANGED <<target, phase, error, fell, cache, lastRefresh, inflight, strikes, blocks, cycle, recent>>

Next ==
  \/ Tick
  \/ \E r \in Requests :
       Attempt(r) \/ Succeed(r) \/ Fail(r) \/ HandleAntigravity(r) \/ HandleZed(r)
  \/ \E a \in Accounts : RefreshFails(a) \/ AntigravityRefreshed(a) \/ ZedRefreshed(a)

Spec == Init /\ [][Next]_vars

-----------------------------------------------------------------------------
(* Properties *)

Readings == [known : BOOLEAN, left : 0 .. 1, resetAt : Nat]

\* Every variable stays in its type; the strikes of a key stay below the threshold.
TypeOK ==
  /\ now \in 1 .. MaxTime
  /\ target \in [Requests -> Keys]
  /\ phase \in [Requests -> {"new", "sent", "waiting", "read", "unread", "done"}]
  /\ error \in [Requests -> {"none", "quota", "spend"}]
  /\ fell \in [Requests -> Nat]
  /\ cache \in [Keys -> Readings]
  /\ lastRefresh \in [Accounts -> 0 .. MaxTime] /\ inflight \in [Accounts -> BOOLEAN]
  /\ strikes \in [Keys -> [count : 0 .. StrikeThreshold - 1, windowStart : 0 .. MaxTime]]
  /\ blocks \in [Keys -> Nat] /\ cycle \in [Accounts -> Nat]
  /\ recent \in [Keys -> Seq([what : {"strike", "success", "exhausted"}, at : 1 .. MaxTime])]

\* "an optimistic upstream reading cannot resurrect a pair we just circuit-broke":
\* while a strike block stands, the selection skips the pair, whichever refreshes of
\* the account end and whatever they report, those asked for by other models too.
BlockStands == \A k \in Keys : blocks[k] > now => Blocked(k) /\ cache[k].resetAt = blocks[k]

\* A pair is blocked only by StrikeThreshold strikes in a row within StrikeWindow of
\* the first, with no success and no exhausted reading handled among them.
StrikesEarned ==
  [][\A k \in Keys :
       blocks'[k] > blocks[k] =>
         /\ Len(recent'[k]) = StrikeThreshold
         /\ \A i \in DOMAIN recent'[k] : recent'[k][i].what = "strike"
         /\ recent'[k][StrikeThreshold].at - recent'[k][1].at <= StrikeWindow]_vars

\* "Record every attempt so failed quota calls cannot amplify an upstream 429 burst":
\* however many requests fail together, and whether its quota calls succeed or not,
\* an account's quota is asked for once per RefreshInterval.
ThrottledQuotaCalls ==
  [][\A a \in Accounts :
       ~inflight[a] /\ inflight'[a] =>
         /\ lastRefresh'[a] = now
         /\ lastRefresh[a] # 0 => now - lastRefresh[a] >= RefreshInterval]_vars

\* A request that falls back with a reset leaves no lock in the database, so the
\* block it goes by is in the cache the next selection reads, and until that reset.
FallbackIsRecorded ==
  [][\A r \in Requests :
       fell'[r] # fell[r] => Blocked(target[r])' /\ cache'[target[r]].resetAt = fell'[r]]_vars
=============================================================================
