--------------------------- MODULE AccountHealth ---------------------------
(***************************************************************************)
(* The health record of a provider connection (an "account") and the pure  *)
(* functions the selection and fallback code applies to it: the rule table *)
(* that turns an upstream error into a cooldown, the model locks, and the  *)
(* reset that a write of testStatus "active" entails.                      *)
(*                                                                         *)
(* Time is counted in abstract ticks; the durations of errorConfig.js are  *)
(* constants.  An error is [status, texts, resetsAt]: status 0 is an error *)
(* without one, texts is the set of rule texts its message contains,       *)
(* resetsAt the provider's own reset time (0 when it gives none).          *)
(***************************************************************************)
EXTENDS Integers

CONSTANTS
  Models,                     \* models requested of the provider
  AllKey,                     \* the lock key modelLock___all
  Provider,                   \* the provider id of the connections
  COOLDOWN_LONG, COOLDOWN_SHORT, TRANSIENT_COOLDOWN,
  BACKOFF_BASE, BACKOFF_MAX, BACKOFF_MAX_LEVEL,
  MAX_RATE_LIMIT_COOLDOWN,
  MonthLength                 \* ticks in a calendar month (GitHub's billing)

LockKeys == Models \cup {AllKey}

AtMost(a, b) == IF a <= b THEN a ELSE b

QuotaCooldown(level) ==
  AtMost(BACKOFF_BASE * 2 ^ (IF level > 1 THEN level - 1 ELSE 0), BACKOFF_MAX)

ASSUME DurationAssumption ==
  /\ AllKey \notin Models
  /\ {COOLDOWN_LONG, COOLDOWN_SHORT, TRANSIENT_COOLDOWN, BACKOFF_MAX_LEVEL,
      MAX_RATE_LIMIT_COOLDOWN, MonthLength} \subseteq Nat \ {0}

\* Exponentiation is opaque to the provers, so what they need of it is assumed.
ASSUME BackoffAssumption ==
  \A level \in 1 .. BACKOFF_MAX_LEVEL : QuotaCooldown(level) \in Nat \ {0}

-----------------------------------------------------------------------------
(* The rule table ERROR_RULES.  A rule is matched by its text or, when it   *)
(* has none, by its status; rank is its place in the table.                 *)

RuleTexts == {"free models", "no credentials", "request not allowed",
              "improperly formed", "rate limit", "too many requests",
              "quota exceeded", "capacity", "overloaded", "region", "legal"}

MonthlyText == "additional usage limit"

Texts == RuleTexts \cup {MonthlyText}

TextRule(rank, text, act)     == [rank |-> rank, text |-> text, status |-> 0, act |-> act]
StatusRule(rank, status, act) == [rank |-> rank, text |-> "", status |-> status, act |-> act]

TextRules ==
  { TextRule(1, "free models", "noFallback"),
    TextRule(2, "no credentials", "long"),
    TextRule(3, "request not allowed", "short"),
    TextRule(4, "improperly formed", "long"),
    TextRule(5, "rate limit", "backoff"),
    TextRule(6, "too many requests", "backoff"),
    TextRule(7, "quota exceeded", "backoff"),
    TextRule(8, "capacity", "backoff"),
    TextRule(9, "overloaded", "backoff"),
    TextRule(10, "region", "long"),
    TextRule(11, "legal", "long") }

StatusRules ==
  { StatusRule(12, 401, "long"),
    StatusRule(13, 402, "long"),
    StatusRule(14, 403, "long"),
    StatusRule(15, 404, "long"),
    StatusRule(16, 451, "long"),
    StatusRule(17, 429, "backoff") }

ERROR_RULES == TextRules \cup StatusRules

\* Mutant: a rule without a status matches a failure without one.
MatchesStatusless(rule, err) == rule.text \in err.texts \/ rule.status = err.status

\* A text rule names no status and a failure may have none: neither matches the other.
Matches(rule, err) ==
  \/ rule.text \in err.texts
  \/ rule.status # 0 /\ rule.status = err.status

\* The topmost matching rule: a singleton, or empty when none matches.
FirstMatch(err) ==
  { rule \in ERROR_RULES :
      /\ Matches(rule, err)
      /\ \A other \in ERROR_RULES : Matches(other, err) => rule.rank <= other.rank }

\* Mutant: no status is taken for the request's own fault.
RequestScopedNever(status) == FALSE

RequestScoped(status) == status \in (400 .. 499) \ {401, 402, 403, 429}

NoFallback                == [fallback |-> FALSE, cooldown |-> 0, level |-> 0]
CoolFor(cooldown, level)  == [fallback |-> TRUE, cooldown |-> cooldown, level |-> level]

\* Mutant: the backoff level is not capped.
CheckFallbackErrorUncapped(err, level) ==
  IF \E rule \in FirstMatch(err) : rule.act = "backoff"
  THEN CoolFor(QuotaCooldown(level + 1), level + 1) ELSE NoFallback

\* checkFallbackError; a rule without backoff keeps the level (newBackoffLevel ?? backoffLevel).
CheckFallbackError(err, level) ==
  LET acts == {rule.act : rule \in FirstMatch(err)}
      next == AtMost(level + 1, BACKOFF_MAX_LEVEL)
  IN  IF "noFallback" \in acts THEN NoFallback
      ELSE IF "backoff" \in acts THEN CoolFor(QuotaCooldown(next), next)
      ELSE IF "long" \in acts THEN CoolFor(COOLDOWN_LONG, level)
      ELSE IF "short" \in acts THEN CoolFor(COOLDOWN_SHORT, level)
      ELSE IF RequestScoped(err.status) THEN NoFallback
      ELSE CoolFor(TRANSIENT_COOLDOWN, level)

\* The account-wide monthly exhaustion only GitHub reports.
MonthlyExhausted(err) ==
  Provider = "github" /\ err.status = 402 /\ MonthlyText \in err.texts

UntilNextMonth(t) == MonthLength - (t % MonthLength)

\* A reset time of the provider's own, capped except for Antigravity.
UntilReset(err, t) ==
  IF Provider = "antigravity" THEN err.resetsAt - t
  ELSE AtMost(err.resetsAt - t, MAX_RATE_LIMIT_COOLDOWN)

\* What markAccountUnavailable decides about an error seen at time t.
Verdict(err, level, t) ==
  IF MonthlyExhausted(err) THEN CoolFor(UntilNextMonth(t), 0)
  ELSE IF err.resetsAt > t THEN CoolFor(UntilReset(err, t), 0)
  ELSE CheckFallbackError(err, level)

-----------------------------------------------------------------------------
(* The connection record.  A lock field is Absent until first written; a    *)
(* cleared one is Null, and its key stays on the record.                    *)

Absent == -1
Null   == 0

Conn == [active   : BOOLEAN,
         lock     : [LockKeys -> Nat \cup {Absent}],
         status   : {"active", "unavailable", "error"},
         failed   : BOOLEAN,                 \* lastError is set
         backoff  : 0 .. BACKOFF_MAX_LEVEL,
         lastUsed : Nat,                     \* 0: never used
         useCount : Nat]

FreshConn == [active |-> TRUE, lock |-> [k \in LockKeys |-> Absent], status |-> "active",
              failed |-> FALSE, backoff |-> 0, lastUsed |-> 0, useCount |-> 0]

IsSet(expiry) == expiry > Null

\* Mutant: the account-wide lock is consulted first.
GoverningExpiryAllFirst(c, m) == IF IsSet(c.lock[AllKey]) THEN c.lock[AllKey] ELSE c.lock[m]

\* The expiry isModelLockActive consults: the model's own lock when it has a
\* value, expired or not, and the account-wide lock only when it has none.
GoverningExpiry(c, m) == IF IsSet(c.lock[m]) THEN c.lock[m] ELSE c.lock[AllKey]

IsModelLockActive(c, m, t) == GoverningExpiry(c, m) > t

ActiveExpiries(c, t) == {c.lock[k] : k \in {j \in LockKeys : c.lock[j] > t}}

\* Mutant: the comparison is the wrong way round.
IsLatest(e, expiries) == e \in expiries /\ \A x \in expiries : x <= e

\* getEarliestModelLockUntil, as a relation: e is the earliest active expiry.
IsEarliest(e, expiries) == e \in expiries /\ \A x \in expiries : e <= x

\* resetHealthStateOnActivation: a write of testStatus "active" clears every lock.
Activated(c) ==
  [c EXCEPT !.lock = [k \in LockKeys |-> IF c.lock[k] = Absent THEN Absent ELSE Null],
            !.status = "active", !.failed = FALSE, !.backoff = 0]

\* buildModelLockUpdate with the fields markAccountUnavailable writes beside it.
Locked(c, key, until, level) ==
  [c EXCEPT !.lock = [c.lock EXCEPT ![key] = until],
            !.status = "unavailable", !.failed = TRUE, !.backoff = level]

ClearedKeys(c, keys) ==
  [c EXCEPT !.lock = [k \in LockKeys |-> IF k \in keys THEN Null ELSE c.lock[k]]]

-----------------------------------------------------------------------------
(* clearAccountError: what a success of model m decides from the snapshot   *)
(* the request was given when the account was selected.                     *)

PresentKeys(snap) == {k \in LockKeys : snap.lock[k] # Absent}

KeysToClear(snap, m, t) ==
  {k \in PresentKeys(snap) : k \in {m, AllKey} \/ (IsSet(snap.lock[k]) /\ snap.lock[k] <= t)}

NothingToClear(snap, m, t) ==
  KeysToClear(snap, m, t) = {} /\ snap.status # "unavailable" /\ ~snap.failed

RemainingLocks(snap, m, t) ==
  {k \in PresentKeys(snap) \ KeysToClear(snap, m, t) : snap.lock[k] > t}

\* The record after the success is recorded, from the snapshot and the stored record.
AfterSuccess(stored, snap, m, t) ==
  IF NothingToClear(snap, m, t) THEN stored
  ELSE IF RemainingLocks(snap, m, t) = {} THEN Activated(stored)
  ELSE ClearedKeys(stored, KeysToClear(snap, m, t))
=============================================================================
