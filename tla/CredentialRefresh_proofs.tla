----------------------- MODULE CredentialRefresh_proofs -----------------------
(***************************************************************************)
(* Proofs about CredentialRefresh for every set of connections, requests    *)
(* and ticks, every expiry of the stored tokens and every setting of the    *)
(* durations.                                                               *)
(***************************************************************************)
EXTENDS CredentialRefresh, FiniteSetTheorems, TLAPS

-----------------------------------------------------------------------------
(* The invariants the properties rest on.                                   *)

\* What refreshLocks and refreshDedupCache say of each other: the promise of a
\* connection is that of the caller in flight, an entry is pending exactly while that
\* caller's exchange runs, and who joined has a promise to wait for.
LockInv ==
  /\ \A c \in Connections, g \in Gens :
       cache[c][g].kind = "pending" =>
         /\ lock[c] \in Callers
         /\ caller[lock[c]].held.rt = g
  /\ \A c \in Connections :
       lock[c] \in Callers =>
         /\ caller[lock[c]].pc = "flight" /\ caller[lock[c]].target = c
         /\ cache[c][caller[lock[c]].held.rt].kind = "pending"
  /\ \A p \in Callers : caller[p].pc = "flight" => lock[caller[p].target] = p
  /\ \A p \in Callers : caller[p].pc = "joined" => lock[caller[p].target] \in Callers

\* A tick that is under way has set the flag, and is the only one.
Working == {t \in Ticks : caller[t].pc \notin {"new", "done"}}
TickInv ==
  /\ Working # {} => tickRunning
  /\ \A s, t \in Working : s = t

\* A settled entry of the cache ends the window that the answer began.
WindowInv ==
  \A c \in Connections, g \in Gens :
    /\ cache[c][g].kind = "none" => answered[c][g] = Never
    /\ cache[c][g].kind \in {"tokens", "null", "error"} =>
         cache[c][g].until = answered[c][g] + REFRESH_RESULT_TTL

IInv == TypeOK /\ LockInv /\ TickInv /\ WindowInv

-----------------------------------------------------------------------------
(* What the operators return.                                               *)

\* A set all of whose members are equal has at most one.
LEMMA AtMostOne ==
  ASSUME NEW S, \A x, y \in S : x = y
  PROVE  Cardinality(S) <= 1
<1>1. CASE S = {}
  BY <1>1, FS_EmptySet
<1>2. ASSUME NEW x \in S
      PROVE  Cardinality(S) <= 1
  <2>1. S = {x}
    OBVIOUS
  <2> QED
    BY <2>1, FS_Singleton
<1> QED
  BY <1>1, <1>2

\* A caller with nothing in hand is a caller.
LEMMA IdleType ==
  ASSUME NEW c \in Connections, NEW phase \in Phases
  PROVE  Idle(phase, c) \in Locals
<1>1. 1 \in Gens /\ 0 \in 0 .. MaxAttempts /\ [rt |-> 1, expiresAt |-> 0] \in Tokens
  BY RefreshAssumption DEF Gens, MaxAttempts, Tokens
<1> QED
  BY <1>1 DEF Idle, Locals

\* Whoever resumes with a result goes on with the same connection: with new tokens to
\* persist them, and as a tick never to the upstream call or to its end.
LEMMA ResumeType ==
  ASSUME TypeOK, NEW p \in Callers, NEW result,
         result.kind \in {"tokens", "null", "error"}, result.rt \in Gens
  PROVE  /\ Resume(p, result) \in Locals
         /\ Resume(p, result).target = caller[p].target
         /\ Resume(p, result).pc \in {"persist", "loop", "upstream", "retry", "done"}
         /\ p \in Ticks => Resume(p, result).pc \in {"persist", "loop"}
         /\ result.kind = "tokens" =>
              Resume(p, result).pc = "persist" /\ Resume(p, result).got = result.rt
<1> DEFINE next == After(p, result.kind)
<1>1. /\ next \in {"persist", "loop", "upstream", "retry", "done"}
      /\ p \in Ticks => next \in {"persist", "loop"}
      /\ result.kind = "tokens" => next = "persist"
      /\ next = "retry" => caller[p].attempt < MaxAttempts
  BY DEF After
<1>2. /\ caller[p] \in Locals /\ caller[p].target \in Connections
      /\ caller[p].attempt \in 0 .. MaxAttempts /\ now \in Nat
      /\ RetryDelay \in Nat /\ TickDelay \in Nat
  BY RefreshAssumption DEF TypeOK, Locals
<1> HIDE DEF next
<1>3. CASE next = "done"
  <2>1. Resume(p, result) = Idle("done", caller[p].target)
    BY <1>3 DEF Resume, next
  <2>2. Idle("done", caller[p].target) \in Locals
    BY <1>2, IdleType DEF Phases
  <2>3. /\ Idle("done", caller[p].target).pc = "done"
        /\ Idle("done", caller[p].target).target = caller[p].target
    BY DEF Idle
  <2> QED
    BY <1>1, <1>3, <2>1, <2>2, <2>3
<1>4. CASE next = "persist"
  <2>1. Resume(p, result) = [caller[p] EXCEPT !.pc = "persist", !.got = result.rt]
    BY <1>4 DEF Resume, next
  <2> QED
    BY <1>1, <1>2, <1>4, <2>1 DEF Locals, Phases
<1>5. CASE next = "retry"
  <2>1. Resume(p, result) =
          [caller[p] EXCEPT !.pc = "retry", !.attempt = @ + 1,
                            !.wake = now + caller[p].attempt * RetryDelay]
    BY <1>5 DEF Resume, next
  <2>2. /\ caller[p].attempt + 1 \in 0 .. MaxAttempts
        /\ now + caller[p].attempt * RetryDelay \in Nat
    BY <1>1, <1>2, <1>5 DEF MaxAttempts
  <2> QED
    BY <1>1, <1>2, <1>5, <2>1, <2>2 DEF Locals, Phases
<1>6. CASE next = "loop"
  <2>1. Resume(p, result) = [caller[p] EXCEPT !.pc = "loop", !.wake = now + TickDelay]
    BY <1>6 DEF Resume, next
  <2>2. now + TickDelay \in Nat
    BY <1>2
  <2> QED
    BY <1>1, <1>2, <1>6, <2>1, <2>2 DEF Locals, Phases
<1>7. CASE next = "upstream"
  <2>1. Resume(p, result) = [caller[p] EXCEPT !.pc = "upstream"]
    BY <1>7 DEF Resume, next
  <2> QED
    BY <1>1, <1>2, <1>7, <2>1 DEF Locals, Phases
<1> QED
  BY <1>1, <1>3, <1>4, <1>5, <1>6, <1>7

-----------------------------------------------------------------------------
(* What a step does to the callers, the locks and the cache.                *)

\* The ways a step of p treats the locks: it leaves them alone, joins a promise, or
\* takes the lock and the pending entry of the token it holds.
Plain(p) ==
  /\ lock' = lock /\ cache' = cache
  /\ \E l \in Locals :
       caller' = [caller EXCEPT ![p] = l] /\ l.pc \notin {"flight", "joined"}
JoinsFlight(p) ==
  /\ lock' = lock /\ cache' = cache /\ lock[caller[p].target] \in Callers
  /\ caller' = [caller EXCEPT ![p] = [@ EXCEPT !.pc = "joined"]]
TakesOff(p) ==
  LET c == caller[p].target  g == caller[p].held.rt IN
  /\ lock[c] = NoCaller /\ ~Reuses(p)
  /\ lock' = [lock EXCEPT ![c] = p]
  /\ cache' = [cache EXCEPT ![c] = [@ EXCEPT ![g] = [NoEntry EXCEPT !.kind = "pending"]]]
  /\ caller' = [caller EXCEPT ![p] = [@ EXCEPT !.pc = "flight"]]

\* A refresh is joined, answered from the cache, or put in flight; a tick's goes on to
\* persist or to its list.
LEMMA RefreshStep ==
  ASSUME TypeOK, NEW p \in Callers, Refresh(p)
  PROVE  /\ Plain(p) \/ JoinsFlight(p) \/ TakesOff(p)
         /\ \E l \in Locals :
              /\ caller' = [caller EXCEPT ![p] = l]
              /\ l.pc \notin {"new", "rejected", "check"} /\ l.target = caller[p].target
              /\ p \in Ticks => l.pc # "done"
<1> DEFINE c == caller[p].target
           g == caller[p].held.rt
           hit == cache[c][g]
<1>1. c \in Connections /\ g \in Gens /\ caller[p] \in Locals
  BY DEF TypeOK, Locals, Tokens
<1>2. CASE Joins(p)
  <2>1. JoinsFlight(p)
    BY <1>1, <1>2 DEF Refresh, JoinsFlight, Joins, TypeOK
  <2>2. [caller[p] EXCEPT !.pc = "joined"] \in Locals
    BY <1>1 DEF Locals, Phases
  <2> QED
    BY <1>1, <2>1, <2>2 DEF JoinsFlight, Locals
<1>3. CASE ~Joins(p) /\ Reuses(p)
  <2>1. lock' = lock /\ cache' = cache /\ caller' = [caller EXCEPT ![p] = Resume(p, hit)]
    BY <1>3 DEF Refresh
  <2>2. hit.kind \in {"tokens", "null", "error"} /\ hit.rt \in Gens
    BY <1>1, <1>3 DEF Reuses, TypeOK, Entries
  <2> HIDE DEF hit
  <2> DEFINE l == Resume(p, hit)
  <2>3. /\ l \in Locals /\ l.target = c
        /\ l.pc \in {"persist", "loop", "upstream", "retry", "done"}
        /\ p \in Ticks => l.pc \in {"persist", "loop"}
    BY <2>2, ResumeType
  <2> QED
    BY <2>1, <2>3 DEF Plain
<1>4. CASE ~Joins(p) /\ ~Reuses(p)
  <2>1. TakesOff(p)
    BY <1>1, <1>4 DEF Refresh, TakesOff, Joins, TypeOK
  <2>2. [caller[p] EXCEPT !.pc = "flight"] \in Locals
    BY <1>1 DEF Locals, Phases
  <2> QED
    BY <1>1, <2>1, <2>2 DEF TakesOff, Locals
<1> QED
  BY <1>2, <1>3, <1>4

\* Only who is neither in flight nor waiting takes a step of its own; one that is not a
\* refresh leaves the locks alone.
LEMMA StepShape ==
  ASSUME TypeOK, NEW p \in Callers, Step(p)
  PROVE  /\ caller[p].pc \notin {"flight", "joined"}
         /\ Plain(p) \/ JoinsFlight(p) \/ TakesOff(p)
<1>1. caller[p] \in Locals /\ caller[p].target \in Connections /\ caller[p].held \in Tokens
      /\ caller[p].got \in Gens
  BY DEF TypeOK, Locals
<1>2. CASE (Check(p) \/ RefreshAfterRejection(p)) /\ Refresh(p)
  BY <1>2, RefreshStep DEF Check, RefreshAfterRejection
<1>3. CASE Check(p) /\ caller' = [caller EXCEPT ![p].pc = "upstream"] /\ UNCHANGED <<lock, cache>>
  <2>1. [caller[p] EXCEPT !.pc = "upstream"] \in Locals
    BY <1>1 DEF Locals, Phases
  <2> QED
    BY <1>1, <1>3, <2>1 DEF Check, Plain, Locals
<1>4. CASE Persist(p) \/ PersistFails(p)
  <2> DEFINE new == [rt |-> caller[p].got, expiresAt |-> Later]
             l == IF p \in Ticks
                  THEN [caller[p] EXCEPT !.pc = "loop", !.held = new, !.wake = now + TickDelay]
                  ELSE IF caller[p].attempt = 0 THEN [caller[p] EXCEPT !.pc = "upstream", !.held = new]
                  ELSE Idle("done", caller[p].target)
  <2>1. new \in Tokens /\ now + TickDelay \in Nat
    BY <1>1, RefreshAssumption DEF Tokens, Later, TypeOK
  <2>2. caller' = [caller EXCEPT ![p] = l] /\ lock' = lock /\ cache' = cache
        /\ caller[p].pc = "persist"
    BY <1>4 DEF Persist, PersistFails, GoOn
  <2> HIDE DEF new
  <2>3. Idle("done", caller[p].target) \in Locals /\ Idle("done", caller[p].target).pc = "done"
    BY <1>1, IdleType DEF Idle, Phases
  <2>4. l \in Locals /\ l.pc \notin {"flight", "joined"}
    BY <1>1, <2>1, <2>3 DEF Locals, Phases
  <2> QED
    BY <2>2, <2>4 DEF Plain
<1>5. CASE Select(p)
  <2> DEFINE l == [caller[p] EXCEPT !.pc = "check", !.held = conn[caller[p].target]]
  <2>1. l \in Locals /\ l.pc = "check"
    BY <1>1 DEF TypeOK, Locals, Phases
  <2> QED
    BY <1>5, <2>1 DEF Select, Plain
<1>6. CASE Upstream(p)
  <2>1. Idle("done", caller[p].target) \in Locals /\ Idle("done", caller[p].target).pc = "done"
    BY <1>1, IdleType DEF Idle, Phases
  <2> DEFINE l == [caller[p] EXCEPT !.pc = "rejected", !.attempt = 1]
  <2>0. 1 \in 0 .. MaxAttempts
    BY DEF MaxAttempts
  <2>2. l \in Locals /\ l.pc = "rejected"
    BY <1>1, <2>0 DEF Locals, Phases
  <2> QED
    BY <1>6, <2>1, <2>2 DEF Upstream, Plain
<1>7. CASE TickFires(p) \/ Load(p)
  <2> DEFINE l(how) == [caller[p] EXCEPT !.pc = how]
  <2>1. \A how \in {"done", "loading", "loop"} : l(how) \in Locals /\ l(how).pc = how
    BY <1>1 DEF Locals, Phases
  <2>2. \E how \in {"done", "loading", "loop"} : caller' = [caller EXCEPT ![p] = l(how)]
    BY <1>7 DEF TickFires, Load
  <2>3. lock' = lock /\ cache' = cache /\ caller[p].pc \in {"new", "loading"}
    BY <1>7 DEF TickFires, Load
  <2> QED
    BY <2>1, <2>2, <2>3 DEF Plain
<1>8. CASE p \in Ticks /\ TickNext(p)
  <2>1. PICK d \in due[p] :
          caller' = [caller EXCEPT ![p] = [caller[p] EXCEPT !.pc = "check", !.target = d.id,
                                                           !.held = d.tokens]]
    BY <1>8 DEF TickNext
  <2>2. d.id \in Connections /\ d.tokens \in Tokens
    BY <1>8 DEF TypeOK
  <2> DEFINE l == [caller[p] EXCEPT !.pc = "check", !.target = d.id, !.held = d.tokens]
  <2>3. l \in Locals /\ l.pc = "check"
    BY <1>1, <2>2 DEF Locals, Phases
  <2> QED
    BY <1>8, <2>1, <2>3 DEF TickNext, Plain
<1>9. CASE TickEnds(p)
  <2>1. Idle("done", caller[p].target) \in Locals /\ Idle("done", caller[p].target).pc = "done"
    BY <1>1, IdleType DEF Idle, Phases
  <2> QED
    BY <1>9, <2>1 DEF TickEnds, Plain
<1>10. Check(p) => \/ Refresh(p)
                   \/ caller' = [caller EXCEPT ![p].pc = "upstream"] /\ UNCHANGED <<lock, cache>>
  BY DEF Check
<1>11. RefreshAfterRejection(p) => Refresh(p)
  BY DEF RefreshAfterRejection
<1> QED
  BY <1>2, <1>3, <1>4, <1>5, <1>6, <1>7, <1>8, <1>9, <1>10, <1>11 DEF Step

\* An answer is for the caller who holds the lock: it is cached, the lock is released,
\* and who flew or joined, and nobody else, resumes with it.
LEMMA ResolveStep ==
  ASSUME TypeOK, LockInv, NEW c \in Connections, NEW g \in Gens, NEW result,
         result.kind \in {"tokens", "null", "error"}, result.rt \in Gens,
         cache[c][g].kind = "pending", Resolve(c, g, result)
  PROVE  /\ cache' = [cache EXCEPT ![c] = [@ EXCEPT ![g] =
               [kind |-> result.kind, rt |-> result.rt, until |-> now + REFRESH_RESULT_TTL]]]
         /\ lock' = [lock EXCEPT ![c] = NoCaller]
         /\ caller' = [p \in Callers |->
               IF caller[p].pc \in {"flight", "joined"} /\ caller[p].target = c
               THEN Resume(p, result) ELSE caller[p]]
         /\ lock[c] \in Callers /\ caller[lock[c]].pc = "flight" /\ caller[lock[c]].target = c
<1> DEFINE flying == {p \in Callers : caller[p].pc = "flight" /\ caller[p].target = c
                                       /\ caller[p].held.rt = g}
           joined == {p \in Callers : caller[p].pc = "joined" /\ caller[p].target = c
                                       /\ lock[c] \in flying}
<1>1. /\ lock[c] \in Callers /\ caller[lock[c]].held.rt = g
      /\ caller[lock[c]].pc = "flight" /\ caller[lock[c]].target = c
  BY DEF LockInv
<1>2. lock[c] \in flying
  BY <1>1
<1>3. \A p \in Callers : caller[p].pc = "flight" /\ caller[p].target = c => p \in flying
  BY <1>1 DEF LockInv
<1>4. \A p \in Callers :
        p \in flying \cup joined <=> caller[p].pc \in {"flight", "joined"} /\ caller[p].target = c
  BY <1>2, <1>3
<1>5. /\ cache' = [cache EXCEPT ![c] = [@ EXCEPT ![g] =
            [kind |-> result.kind, rt |-> result.rt, until |-> now + REFRESH_RESULT_TTL]]]
      /\ caller' = [p \in Callers |->
           IF p \in flying \cup joined THEN Resume(p, result) ELSE caller[p]]
      /\ lock' = [lock EXCEPT ![c] = IF @ \in flying THEN NoCaller ELSE @]
  BY DEF Resolve, ReleaseLock
<1> HIDE DEF flying, joined
<1>6. lock' = [lock EXCEPT ![c] = NoCaller]
  BY <1>2, <1>5 DEF TypeOK
<1>7. caller' = [p \in Callers |->
        IF caller[p].pc \in {"flight", "joined"} /\ caller[p].target = c
        THEN Resume(p, result) ELSE caller[p]]
  BY <1>4, <1>5
<1> QED
  BY <1>1, <1>5, <1>6, <1>7

\* What the provider answers: tokens of this or the next generation, an error, or null.
LEMMA ExchangeStep ==
  ASSUME TypeOK, NEW c \in Connections, NEW g \in Gens, Exchange(c, g)
  PROVE  /\ cache[c][g].kind = "pending"
         /\ \E result \in Results : Resolve(c, g, result)
         /\ valid' \in [Connections -> Gens] /\ faults' \in 0 .. MaxFaults
<1>1. MaxFaults \in Nat
  BY RefreshAssumption
<1>2. CASE \E h \in {g, g + 1} \cap Gens :
             /\ valid' = [valid EXCEPT ![c] = h]
             /\ Resolve(c, g, [kind |-> "tokens", rt |-> h]) /\ UNCHANGED faults
  BY <1>2 DEF Exchange, TypeOK, Results
<1>3. CASE Resolve(c, g, [kind |-> "error", rt |-> g]) /\ UNCHANGED <<valid, faults>>
  BY <1>3 DEF Exchange, TypeOK, Results
<1>4. CASE /\ faults < MaxFaults /\ faults' = faults + 1
           /\ \E h \in Gens : valid' = [valid EXCEPT ![c] = h]
           /\ Resolve(c, g, [kind |-> "null", rt |-> g])
  BY <1>1, <1>4 DEF Exchange, TypeOK, Results
<1> QED
  BY <1>2, <1>3, <1>4 DEF Exchange

-----------------------------------------------------------------------------
(* Type correctness.                                                        *)

\* The three things a caller's step can be keep the types of the callers, the locks
\* and the cache.
LEMMA CallerType ==
  ASSUME TypeOK, NEW p \in Callers, Plain(p) \/ JoinsFlight(p) \/ TakesOff(p)
  PROVE  /\ caller' \in [Callers -> Locals]
         /\ lock' \in [Connections -> Callers \cup {NoCaller}]
         /\ cache' \in [Connections -> [Gens -> Entries]]
<1>1. caller[p] \in Locals /\ caller[p].target \in Connections /\ caller[p].held.rt \in Gens
  BY DEF TypeOK, Locals, Tokens
<1>2. CASE Plain(p)
  BY <1>2 DEF Plain, TypeOK
<1>3. CASE JoinsFlight(p)
  <2>1. [caller[p] EXCEPT !.pc = "joined"] \in Locals
    BY <1>1 DEF Locals, Phases
  <2> QED
    BY <1>3, <2>1 DEF JoinsFlight, TypeOK
<1>4. CASE TakesOff(p)
  <2>1. [caller[p] EXCEPT !.pc = "flight"] \in Locals
    BY <1>1 DEF Locals, Phases
  <2>2. [NoEntry EXCEPT !.kind = "pending"] \in Entries
    BY RefreshAssumption DEF NoEntry, Entries, Gens
  <2>3. cache' \in [Connections -> [Gens -> Entries]]
    BY <1>1, <1>4, <2>2 DEF TakesOff, TypeOK
  <2> QED
    BY <1>1, <1>4, <2>1, <2>3 DEF TakesOff, TypeOK
<1> QED
  BY <1>2, <1>3, <1>4

\* A caller's step keeps the types.
LEMMA StepType ==
  ASSUME TypeOK, NEW p \in Callers, Step(p)
  PROVE  TypeOK'
<1>1. /\ caller' \in [Callers -> Locals]
      /\ lock' \in [Connections -> Callers \cup {NoCaller}]
      /\ cache' \in [Connections -> [Gens -> Entries]]
  BY StepShape, CallerType
<1>2. CASE Check(p) \/ (p \in Requests /\ (Select(p) \/ Upstream(p) \/ RefreshAfterRejection(p)))
  BY <1>1, <1>2
     DEF Check, Select, Upstream, RefreshAfterRejection, providerVars, TypeOK
<1>3. CASE Persist(p)
  <2>1. caller[p].target \in Connections /\ caller[p].got \in Gens /\ Later \in Nat
    BY RefreshAssumption DEF TypeOK, Locals, Later
  <2>2. conn' \in [Connections -> Tokens] /\ written' \in [Connections -> Gens]
    BY <1>3, <2>1 DEF Persist, PersistFails, TypeOK, Tokens
  <2> QED
    BY <1>1, <1>3, <2>2 DEF Persist, providerVars, TypeOK
<1>6. CASE PersistFails(p)
  <2>1. caller[p].target \in Connections /\ caller[p].got \in Gens
    BY DEF TypeOK, Locals
  <2>2. lost' \in [Connections -> SUBSET Gens]
    BY <1>6, <2>1 DEF PersistFails, TypeOK
  <2> QED
    BY <1>1, <1>6, <2>2 DEF PersistFails, providerVars, TypeOK
<1>4. CASE p \in Ticks /\ (TickFires(p) \/ TickEnds(p))
  BY <1>1, <1>4 DEF TickFires, TickEnds, providerVars, TypeOK
<1>5. CASE p \in Ticks /\ (Load(p) \/ TickNext(p))
  <2>1. due' \in [Ticks -> SUBSET [id : Connections, tokens : Tokens]]
    <3>1. CASE Load(p)
      <4> DEFINE list == {d \in {[id |-> c, tokens |-> conn[c]] : c \in Connections} :
                            d.tokens.expiresAt - now < BackgroundLead}
      <4>1. list \subseteq [id : Connections, tokens : Tokens]
        BY DEF TypeOK
      <4>2. due' = [due EXCEPT ![p] = list]
        BY <3>1 DEF Load
      <4> HIDE DEF list
      <4> QED
        BY <4>1, <4>2 DEF TypeOK
    <3>2. CASE TickNext(p)
      <4>1. PICK d \in due[p] : due' = [due EXCEPT ![p] = due[p] \ {d}]
        BY <3>2 DEF TickNext
      <4>2. due[p] \ {d} \in SUBSET [id : Connections, tokens : Tokens]
        BY <1>5 DEF TypeOK
      <4> QED
        BY <1>5, <4>1, <4>2 DEF TypeOK
    <3> QED
      BY <1>5, <3>1, <3>2
  <2> QED
    BY <1>1, <1>5, <2>1 DEF Load, TickNext, providerVars, TypeOK
<1> QED
  BY <1>2, <1>3, <1>4, <1>5, <1>6 DEF Step

\* An answer of the provider keeps the types.
LEMMA ExchangeType ==
  ASSUME TypeOK, LockInv, NEW c \in Connections, NEW g \in Gens, Exchange(c, g)
  PROVE  TypeOK'
<1>1. PICK result \in Results : Resolve(c, g, result)
  BY ExchangeStep
<1>2. cache[c][g].kind = "pending"
      /\ valid' \in [Connections -> Gens] /\ faults' \in 0 .. MaxFaults
  BY ExchangeStep
<1>3. result.kind \in {"tokens", "null", "error"} /\ result.rt \in Gens
  BY DEF Results
<1>4. now \in Nat /\ now + REFRESH_RESULT_TTL \in Nat
  BY RefreshAssumption DEF TypeOK
<1>5. [kind |-> result.kind, rt |-> result.rt, until |-> now + REFRESH_RESULT_TTL] \in Entries
  BY <1>3, <1>4 DEF Entries
<1>6. /\ cache' \in [Connections -> [Gens -> Entries]]
      /\ lock' \in [Connections -> Callers \cup {NoCaller}]
  <2>1. /\ cache' = [cache EXCEPT ![c] = [@ EXCEPT ![g] =
              [kind |-> result.kind, rt |-> result.rt, until |-> now + REFRESH_RESULT_TTL]]]
        /\ lock' = [lock EXCEPT ![c] = NoCaller]
    BY <1>1, <1>2, <1>3, ResolveStep
  <2> DEFINE entry == [kind |-> result.kind, rt |-> result.rt, until |-> now + REFRESH_RESULT_TTL]
  <2>2. entry \in Entries
    BY <1>5
  <2> HIDE DEF entry
  <2>3. cache' = [cache EXCEPT ![c] = [@ EXCEPT ![g] = entry]]
    BY <2>1 DEF entry
  <2> QED
    BY <2>1, <2>2, <2>3 DEF TypeOK
<1>7. caller' \in [Callers -> Locals]
  <2>1. \A p \in Callers : Resume(p, result) \in Locals
    BY <1>3, ResumeType
  <2>2. caller' = [p \in Callers |->
          IF caller[p].pc \in {"flight", "joined"} /\ caller[p].target = c
          THEN Resume(p, result) ELSE caller[p]]
    BY <1>1, <1>2, <1>3, ResolveStep
  <2> QED
    BY <2>1, <2>2 DEF TypeOK
<1>8. answered' \in [Connections -> [Gens -> Nat \cup {Never}]]
      /\ received' \in [Connections -> Gens]
  BY <1>1, <1>3, <1>4 DEF Resolve, TypeOK
<1> QED
  BY <1>2, <1>6, <1>7, <1>8 DEF Exchange, TypeOK

\* So does the clock.
LEMMA ClockType ==
  ASSUME TypeOK, Tick
  PROVE  TypeOK'
BY RefreshAssumption DEF Tick, TypeOK, providerVars

-----------------------------------------------------------------------------
(* The locks.                                                               *)

\* A caller's step keeps locks and cache in agreement: it takes a free lock with a new
\* entry, joins a lock that is held, or touches neither.
LEMMA StepLocks ==
  ASSUME TypeOK, LockInv, NEW p \in Callers, Step(p)
  PROVE  LockInv'
<1>0. /\ caller[p] \in Locals /\ caller[p].target \in Connections
      /\ caller[p].held.rt \in Gens /\ caller[p].pc \notin {"flight", "joined"}
      /\ \A c \in Connections : lock[c] # p
      /\ NoCaller \notin Callers
  BY StepShape, RefreshAssumption DEF TypeOK, Locals, Tokens, LockInv
<1>1. CASE Plain(p)
  <2>1. PICK l \in Locals :
          caller' = [caller EXCEPT ![p] = l] /\ l.pc \notin {"flight", "joined"}
    BY <1>1 DEF Plain
  <2>2. lock' = lock /\ cache' = cache
    BY <1>1 DEF Plain
  <2>3. \A q \in Callers : caller'[q] = IF q = p THEN l ELSE caller[q]
    BY <2>1 DEF TypeOK
  <2> QED
    BY <1>0, <2>1, <2>2, <2>3 DEF LockInv
<1>2. CASE JoinsFlight(p)
  <2>1. lock' = lock /\ cache' = cache /\ lock[caller[p].target] \in Callers
    BY <1>2 DEF JoinsFlight
  <2>2. \A q \in Callers : q # p => caller'[q] = caller[q]
    BY <1>2 DEF JoinsFlight, TypeOK
  <2>3. caller'[p].pc = "joined" /\ caller'[p].target = caller[p].target
    BY <1>0, <1>2 DEF JoinsFlight, TypeOK, Locals
  <2> QED
    BY <1>0, <2>1, <2>2, <2>3 DEF LockInv
<1>3. CASE TakesOff(p)
  <2> DEFINE c == caller[p].target
             g == caller[p].held.rt
  <2>1. \A q \in Callers : q # p => caller'[q] = caller[q]
    BY <1>3 DEF TakesOff, TypeOK
  <2>2. caller'[p].pc = "flight" /\ caller'[p].target = c /\ caller'[p].held.rt = g
    BY <1>0, <1>3 DEF TakesOff, TypeOK, Locals
  <2>3. \A d \in Connections : lock'[d] = IF d = c THEN p ELSE lock[d]
    BY <1>3 DEF TakesOff, TypeOK
  <2>4. /\ \A d \in Connections, h \in Gens : d # c \/ h # g => cache'[d][h] = cache[d][h]
        /\ cache'[c][g].kind = "pending"
    BY <1>0, <1>3 DEF TakesOff, TypeOK, NoEntry
  <2>5. lock[c] \notin Callers
    BY <1>0, <1>3 DEF TakesOff
  <2> HIDE DEF c, g
  <2>6. c \in Connections /\ g \in Gens
    BY <1>0 DEF c, g
  <2>7. \A h \in Gens : h # g => cache'[c][h].kind # "pending"
    BY <2>4, <2>5, <2>6 DEF LockInv
  <2>8. \A d \in Connections, h \in Gens :
          cache'[d][h].kind = "pending" =>
            lock'[d] \in Callers /\ caller'[lock'[d]].held.rt = h
    BY <1>0, <2>1, <2>2, <2>3, <2>4, <2>6, <2>7 DEF LockInv
  <2>9. \A d \in Connections :
          lock'[d] \in Callers =>
            /\ caller'[lock'[d]].pc = "flight" /\ caller'[lock'[d]].target = d
            /\ cache'[d][caller'[lock'[d]].held.rt].kind = "pending"
    <3> SUFFICES ASSUME NEW d \in Connections, lock'[d] \in Callers
                 PROVE  /\ caller'[lock'[d]].pc = "flight" /\ caller'[lock'[d]].target = d
                        /\ cache'[d][caller'[lock'[d]].held.rt].kind = "pending"
      OBVIOUS
    <3>1. CASE d = c
      BY <2>2, <2>3, <2>4, <3>1
    <3>2. CASE d # c
      <4>1. lock'[d] = lock[d] /\ lock[d] # p /\ caller'[lock[d]] = caller[lock[d]]
        BY <1>0, <2>1, <2>3, <3>2
      <4>2. caller[lock[d]].held.rt \in Gens
        BY <4>1 DEF TypeOK, Locals, Tokens
      <4>3. cache'[d][caller[lock[d]].held.rt] = cache[d][caller[lock[d]].held.rt]
        BY <2>4, <3>2, <4>2
      <4> QED
        BY <4>1, <4>3 DEF LockInv
    <3> QED
      BY <3>1, <3>2
  <2>10. \A q \in Callers :
           /\ caller'[q].pc = "flight" => lock'[caller'[q].target] = q
           /\ caller'[q].pc = "joined" => lock'[caller'[q].target] \in Callers
    <3> SUFFICES ASSUME NEW q \in Callers
                 PROVE  /\ caller'[q].pc = "flight" => lock'[caller'[q].target] = q
                        /\ caller'[q].pc = "joined" => lock'[caller'[q].target] \in Callers
      OBVIOUS
    <3>1. CASE q = p
      BY <2>2, <2>3, <2>6, <3>1
    <3>2. CASE q # p
      <4>1. caller'[q] = caller[q] /\ caller[q].target \in Connections
        BY <2>1, <3>2 DEF TypeOK, Locals
      <4> QED
        BY <2>3, <2>5, <4>1 DEF LockInv
    <3> QED
      BY <3>1, <3>2
  <2> QED
    BY <2>8, <2>9, <2>10 DEF LockInv
<1> QED
  BY <1>1, <1>2, <1>3, StepShape

\* An answer settles the entry, frees the lock and resumes all that waited for it.
LEMMA ExchangeLocks ==
  ASSUME TypeOK, LockInv, NEW c \in Connections, NEW g \in Gens, Exchange(c, g)
  PROVE  LockInv'
<1>1. PICK result \in Results : Resolve(c, g, result)
  BY ExchangeStep
<1>2. cache[c][g].kind = "pending" /\ NoCaller \notin Callers
  BY ExchangeStep, RefreshAssumption
<1>3. result.kind \in {"tokens", "null", "error"} /\ result.rt \in Gens
  BY DEF Results
<1>4. /\ cache' = [cache EXCEPT ![c] = [@ EXCEPT ![g] =
            [kind |-> result.kind, rt |-> result.rt, until |-> now + REFRESH_RESULT_TTL]]]
      /\ lock' = [lock EXCEPT ![c] = NoCaller]
      /\ caller' = [p \in Callers |->
            IF caller[p].pc \in {"flight", "joined"} /\ caller[p].target = c
            THEN Resume(p, result) ELSE caller[p]]
  BY <1>1, <1>2, <1>3, ResolveStep
<1>5. \A d \in Connections : lock'[d] = IF d = c THEN NoCaller ELSE lock[d]
  BY <1>4 DEF TypeOK
<1>6. \A d \in Connections, h \in Gens : d # c \/ h # g => cache'[d][h] = cache[d][h]
  BY <1>4 DEF TypeOK
<1>7. \A h \in Gens : cache'[c][h].kind # "pending"
  <2> SUFFICES ASSUME NEW h \in Gens PROVE cache'[c][h].kind # "pending"
    OBVIOUS
  <2>1. CASE h = g
    BY <1>3, <1>4, <2>1 DEF TypeOK
  <2>2. CASE h # g
    <3>1. cache[c][h].kind # "pending"
      BY <1>2, <2>2 DEF LockInv
    <3> QED
      BY <1>6, <2>2, <3>1
  <2> QED
    BY <2>1, <2>2
<1>8. \A p \in Callers :
        /\ caller[p].target \in Connections
        /\ caller'[p] # caller[p] =>
             caller[p].target = c /\ caller'[p].pc \notin {"flight", "joined"}
        /\ caller[p].target = c => caller'[p].pc \notin {"flight", "joined"}
  <2> SUFFICES ASSUME NEW p \in Callers
               PROVE  /\ caller[p].target \in Connections
                      /\ caller'[p] # caller[p] =>
                           caller[p].target = c /\ caller'[p].pc \notin {"flight", "joined"}
                      /\ caller[p].target = c => caller'[p].pc \notin {"flight", "joined"}
    OBVIOUS
  <2>1. Resume(p, result).pc \notin {"flight", "joined"}
    BY <1>3, ResumeType
  <2> QED
    BY <1>4, <2>1 DEF TypeOK, Locals
<1>9. \A d \in Connections :
        lock'[d] \in Callers =>
          d # c /\ lock'[d] = lock[d] /\ caller'[lock[d]] = caller[lock[d]]
  BY <1>2, <1>5, <1>8 DEF LockInv
<1>10. \A d \in Connections, h \in Gens :
         cache'[d][h].kind = "pending" =>
           lock'[d] \in Callers /\ caller'[lock'[d]].held.rt = h
  BY <1>5, <1>6, <1>7, <1>9 DEF LockInv
<1>11. \A d \in Connections :
         lock'[d] \in Callers =>
           /\ caller'[lock'[d]].pc = "flight" /\ caller'[lock'[d]].target = d
           /\ cache'[d][caller'[lock'[d]].held.rt].kind = "pending"
  <2> SUFFICES ASSUME NEW d \in Connections, lock'[d] \in Callers
               PROVE  /\ caller'[lock'[d]].pc = "flight" /\ caller'[lock'[d]].target = d
                      /\ cache'[d][caller'[lock'[d]].held.rt].kind = "pending"
    OBVIOUS
  <2>1. d # c /\ lock'[d] = lock[d] /\ caller'[lock[d]] = caller[lock[d]]
    BY <1>9
  <2>2. caller[lock[d]].held.rt \in Gens
    BY <2>1 DEF TypeOK, Locals, Tokens
  <2>3. cache'[d][caller[lock[d]].held.rt] = cache[d][caller[lock[d]].held.rt]
    BY <1>6, <2>1, <2>2
  <2> QED
    BY <2>1, <2>3 DEF LockInv
<1>12. \A p \in Callers :
         /\ caller'[p].pc = "flight" => lock'[caller'[p].target] = p
         /\ caller'[p].pc = "joined" => lock'[caller'[p].target] \in Callers
  <2> SUFFICES ASSUME NEW p \in Callers, caller'[p].pc \in {"flight", "joined"}
               PROVE  /\ caller'[p].pc = "flight" => lock'[caller'[p].target] = p
                      /\ caller'[p].pc = "joined" => lock'[caller'[p].target] \in Callers
    OBVIOUS
  <2>1. caller'[p] = caller[p] /\ caller[p].target # c /\ caller[p].target \in Connections
    BY <1>8
  <2> QED
    BY <1>5, <2>1 DEF LockInv
<1> QED
  BY <1>10, <1>11, <1>12 DEF LockInv

-----------------------------------------------------------------------------
(* The ticks, and the window of reuse.                                      *)

\* No tick begins its work: the invariant of the ticks stays.
LEMMA NoNewTick ==
  ASSUME TickInv, Working' \subseteq Working, tickRunning' = tickRunning
  PROVE  TickInv'
BY DEF TickInv

\* A step of p changes no other caller, and in the cache it makes entries pending only.
LEMMA StepTouches ==
  ASSUME TypeOK, NEW p \in Callers, Step(p)
  PROVE  /\ \A q \in Callers : q # p => caller'[q] = caller[q]
         /\ \A c \in Connections, g \in Gens :
              cache'[c][g] = cache[c][g] \/ cache'[c][g].kind = "pending"
<1>1. CASE Plain(p) \/ JoinsFlight(p)
  <2>1. PICK l : caller' = [caller EXCEPT ![p] = l]
    BY <1>1 DEF Plain, JoinsFlight
  <2> QED
    BY <1>1, <2>1 DEF Plain, JoinsFlight, TypeOK
<1>2. CASE TakesOff(p)
  <2>1. caller[p].target \in Connections /\ caller[p].held.rt \in Gens
    BY DEF TypeOK, Locals, Tokens
  <2> QED
    BY <1>2, <2>1 DEF TakesOff, TypeOK, NoEntry
<1> QED
  BY <1>1, <1>2, StepShape

\* A tick begins only on a free flag and frees it at its end.
LEMMA StepTicks ==
  ASSUME TypeOK, TickInv, NEW p \in Callers, Step(p)
  PROVE  TickInv'
<1>0. \A q \in Callers : q # p => caller'[q] = caller[q]
  BY StepTouches
<1>1. Requests \cap Ticks = {} /\ Ticks \subseteq Callers
  BY RefreshAssumption DEF Callers
<1>2. CASE p \in Requests
  <2>1. Working' = Working
    BY <1>0, <1>1, <1>2 DEF Working
  <2>2. tickRunning' = tickRunning
    BY <1>1, <1>2
       DEF Step, Check, Persist, PersistFails, Select, Upstream, RefreshAfterRejection
  <2> QED
    BY <2>1, <2>2, NoNewTick
<1>3. CASE p \in Ticks /\ (Check(p) \/ Persist(p) \/ PersistFails(p) \/ Load(p) \/ TickNext(p))
  <2>1. p \in Working
    BY <1>3 DEF Working, Check, Persist, PersistFails, Load, TickNext
  <2>2. Working' \subseteq Working
    BY <1>0, <1>1, <2>1 DEF Working
  <2>3. tickRunning' = tickRunning
    BY <1>3 DEF Check, Persist, PersistFails, Load, TickNext
  <2> QED
    BY <2>2, <2>3, NoNewTick
<1>4. CASE p \in Ticks /\ TickFires(p)
  <2>1. caller'[p].pc = IF tickRunning THEN "done" ELSE "loading"
    BY <1>1, <1>4 DEF TickFires, TypeOK, Locals
  <2>2. CASE tickRunning
    <3>1. Working' \subseteq Working
      BY <1>0, <1>1, <2>1, <2>2 DEF Working
    <3> QED
      BY <1>4, <2>2, <3>1, NoNewTick DEF TickFires
  <2>3. CASE ~tickRunning
    <3>1. Working = {}
      BY <2>3 DEF TickInv
    <3>2. Working' \subseteq {p}
      BY <1>0, <1>1, <3>1 DEF Working
    <3> QED
      BY <1>4, <3>2 DEF TickFires, TickInv
  <2> QED
    BY <2>2, <2>3
<1>5. CASE p \in Ticks /\ TickEnds(p)
  <2>1. p \in Working
    BY <1>5 DEF Working, TickEnds
  <2>2. Working = {p}
    BY <2>1 DEF TickInv
  <2>3. caller'[p].pc = "done"
    BY <1>1, <1>5 DEF TickEnds, TypeOK, Idle
  <2>4. Working' = {}
    BY <1>0, <1>1, <2>2, <2>3 DEF Working
  <2> QED
    BY <2>4 DEF TickInv
<1> QED
  BY <1>2, <1>3, <1>4, <1>5 DEF Step, Callers

\* An answer resumes a tick, which goes on working.
LEMMA ExchangeTicks ==
  ASSUME TypeOK, LockInv, TickInv, NEW c \in Connections, NEW g \in Gens, Exchange(c, g)
  PROVE  TickInv'
<1>1. PICK result \in Results : Resolve(c, g, result)
  BY ExchangeStep
<1>2. cache[c][g].kind = "pending" /\ tickRunning' = tickRunning
  BY ExchangeStep DEF Exchange
<1>3. result.kind \in {"tokens", "null", "error"} /\ result.rt \in Gens
  BY DEF Results
<1>4. \A p \in Callers : caller'[p] = caller[p] \/ caller[p].pc \in {"flight", "joined"}
  BY <1>1, <1>2, <1>3, ResolveStep
<1>5. Working' \subseteq Working
  BY <1>4 DEF Working, Callers
<1> QED
  BY <1>2, <1>5, NoNewTick

\* A step of a caller makes entries pending at the most; an answer settles its entry and
\* begins its window at the same moment.
LEMMA StepWindow ==
  ASSUME TypeOK, WindowInv, NEW p \in Callers, Step(p)
  PROVE  WindowInv'
<1>1. answered' = answered
  BY DEF Step, Check, Persist, PersistFails, Select, Upstream, RefreshAfterRejection, TickFires, Load,
         TickNext, TickEnds, providerVars
<1>2. \A c \in Connections, g \in Gens :
        cache'[c][g] = cache[c][g] \/ cache'[c][g].kind = "pending"
  BY StepTouches
<1> QED
  BY <1>1, <1>2 DEF WindowInv

\* An answer sets the entry to end one window after it.
LEMMA ExchangeWindow ==
  ASSUME TypeOK, LockInv, WindowInv, NEW c \in Connections, NEW g \in Gens, Exchange(c, g)
  PROVE  WindowInv'
<1>1. PICK result \in Results : Resolve(c, g, result)
  BY ExchangeStep
<1>2. cache[c][g].kind = "pending"
  BY ExchangeStep
<1>3. result.kind \in {"tokens", "null", "error"} /\ result.rt \in Gens
  BY DEF Results
<1> DEFINE entry == [kind |-> result.kind, rt |-> result.rt, until |-> now + REFRESH_RESULT_TTL]
<1>4. entry.kind \in {"tokens", "null", "error"} /\ entry.until = now + REFRESH_RESULT_TTL
  BY <1>3
<1>5. cache' = [cache EXCEPT ![c] = [@ EXCEPT ![g] = entry]]
  BY <1>1, <1>2, <1>3, ResolveStep
<1> HIDE DEF entry
<1>6. \A d \in Connections, h \in Gens :
        cache'[d][h] = IF d = c /\ h = g THEN entry ELSE cache[d][h]
  BY <1>5 DEF TypeOK
<1>7. \A d \in Connections, h \in Gens :
        answered'[d][h] = IF d = c /\ h = g THEN now ELSE answered[d][h]
  BY <1>1 DEF Resolve, TypeOK
<1> QED
  BY <1>4, <1>6, <1>7 DEF WindowInv

-----------------------------------------------------------------------------
(* The invariant.                                                           *)

\* The inductive invariant holds initially.
LEMMA InitIInv == Init => IInv
<1> SUFFICES ASSUME Init PROVE IInv
  OBVIOUS
<1>0. 1 \in Gens /\ NoCaller \notin Callers /\ InitialExpiries \subseteq Nat
  BY RefreshAssumption DEF Gens
<1>1. TypeOK
  <2>1. caller \in [Callers -> Locals]
    BY IdleType DEF Init, Phases
  <2>2. conn \in [Connections -> Tokens]
    BY <1>0 DEF Init, Tokens
  <2>3. cache \in [Connections -> [Gens -> Entries]]
    BY <1>0 DEF Init, NoEntry, Entries
  <2>4. now \in 0 .. MaxTime /\ faults \in 0 .. MaxFaults
    BY RefreshAssumption DEF Init
  <2> QED
    BY <1>0, <2>1, <2>2, <2>3, <2>4 DEF Init, TypeOK
<1>2. \A p \in Callers : caller[p].pc = "new"
  BY DEF Init, Idle
<1>3. \A c \in Connections, g \in Gens : cache[c][g].kind = "none"
  BY DEF Init, NoEntry
<1>4. LockInv
  BY <1>0, <1>2, <1>3 DEF Init, LockInv
<1>5. TickInv
  BY <1>2 DEF TickInv, Working, Callers
<1>6. WindowInv
  BY <1>3 DEF Init, WindowInv
<1> QED
  BY <1>1, <1>4, <1>5, <1>6 DEF IInv

\* Every step keeps it.
LEMMA Inductive == IInv /\ [Next]_vars => IInv'
<1>1. SUFFICES ASSUME IInv, [Next]_vars PROVE IInv'
  OBVIOUS
<1>2. TypeOK /\ LockInv /\ TickInv /\ WindowInv
  BY <1>1 DEF IInv
<1>3. ASSUME NEW p \in Callers, Step(p) PROVE IInv'
  BY <1>2, <1>3, StepType, StepLocks, StepTicks, StepWindow DEF IInv
<1>4. ASSUME NEW c \in Connections, NEW g \in Gens, Exchange(c, g) PROVE IInv'
  BY <1>2, <1>4, ExchangeType, ExchangeLocks, ExchangeTicks, ExchangeWindow DEF IInv
<1>5. CASE Tick
  <2>1. TypeOK'
    BY <1>2, <1>5, ClockType
  <2>2. LockInv' /\ TickInv' /\ WindowInv'
    BY <1>2, <1>5 DEF Tick, LockInv, TickInv, Working, WindowInv, providerVars
  <2> QED
    BY <2>1, <2>2 DEF IInv
<1>6. CASE UNCHANGED vars
  BY <1>2, <1>6 DEF vars, providerVars, IInv, TypeOK, LockInv, TickInv, Working, WindowInv
<1> QED
  BY <1>1, <1>3, <1>4, <1>5, <1>6 DEF Next

\* Every variable stays in its type, for every set of connections, requests and ticks.
THEOREM TypeCorrect == Spec => []TypeOK
<1>1. IInv => TypeOK
  BY DEF IInv
<1> QED
  BY InitIInv, Inductive, <1>1, PTL DEF Spec

\* Whoever holds whichever refresh token, one exchange at a time runs for a connection.
THEOREM OneExchange == Spec => []SingleFlight
<1>1. IInv => SingleFlight
  <2> SUFFICES ASSUME IInv, NEW c \in Connections
               PROVE  Cardinality({g \in Gens : cache[c][g].kind = "pending"}) <= 1
    BY DEF SingleFlight
  <2> DEFINE S == {g \in Gens : cache[c][g].kind = "pending"}
  <2>1. \A x, y \in S : x = y
    BY DEF IInv, LockInv
  <2> HIDE DEF S
  <2>2. Cardinality(S) <= 1
    BY <2>1, AtMostOne
  <2> QED
    BY <2>2 DEF S
<1> QED
  BY InitIInv, Inductive, <1>1, PTL DEF Spec

\* Firings of the interval never work side by side.
THEOREM TicksAlone == Spec => []OneTick
<1>1. IInv => OneTick
  <2> SUFFICES ASSUME IInv PROVE OneTick
    OBVIOUS
  <2>1. Cardinality(Working) <= 1
    BY AtMostOne DEF IInv, TickInv
  <2> QED
    BY <2>1 DEF OneTick, Working
<1> QED
  BY InitIInv, Inductive, <1>1, PTL DEF Spec

-----------------------------------------------------------------------------
(* What each token is sent for, and what becomes of the answer.             *)

\* An entry becomes pending in a step of the caller that takes off with its token.
LEMMA PendingMeansTakesOff ==
  ASSUME IInv, NEW c \in Connections, NEW g \in Gens, [Next]_vars,
         cache[c][g].kind # "pending", cache'[c][g].kind = "pending"
  PROVE  \E p \in Callers :
           /\ caller[p].target = c /\ caller[p].held.rt = g
           /\ lock[c] = NoCaller /\ ~Reuses(p)
<1>1. TypeOK /\ LockInv
  BY DEF IInv
<1>2. ASSUME NEW p \in Callers, Step(p)
      PROVE  /\ caller[p].target = c /\ caller[p].held.rt = g
             /\ lock[c] = NoCaller /\ ~Reuses(p)
  <2>1. TakesOff(p)
    BY <1>1, <1>2, StepShape DEF Plain, JoinsFlight
  <2>2. caller[p].target \in Connections /\ caller[p].held.rt \in Gens
    BY <1>1 DEF TypeOK, Locals, Tokens
  <2>3. caller[p].target = c /\ caller[p].held.rt = g
    BY <1>1, <2>1, <2>2 DEF TakesOff, TypeOK
  <2> QED
    BY <2>1, <2>3 DEF TakesOff
<1>3. ASSUME NEW d \in Connections, NEW h \in Gens, Exchange(d, h) PROVE FALSE
  <2>1. PICK result \in Results : Resolve(d, h, result)
    BY <1>1, <1>3, ExchangeStep
  <2>2. cache[d][h].kind = "pending"
    BY <1>1, <1>3, ExchangeStep
  <2>3. result.kind \in {"tokens", "null", "error"} /\ result.rt \in Gens
    BY DEF Results
  <2>4. cache' = [cache EXCEPT ![d] = [@ EXCEPT ![h] =
          [kind |-> result.kind, rt |-> result.rt, until |-> now + REFRESH_RESULT_TTL]]]
    BY <1>1, <2>1, <2>2, <2>3, ResolveStep
  <2> QED
    BY <1>1, <2>3, <2>4 DEF TypeOK
<1>4. CASE Tick
  BY <1>4 DEF Tick
<1>5. CASE UNCHANGED vars
  BY <1>5 DEF vars
<1> QED
  BY <1>2, <1>3, <1>4, <1>5 DEF Next

\* Within the window of an answer its token is not sent again: not by another caller,
\* not by refreshWithRetry after a failure.
THEOREM WindowKept == Spec => SentOncePerWindow
<1> DEFINE Kept == \A c \in Connections, g \in Gens :
             cache[c][g].kind # "pending" /\ cache'[c][g].kind = "pending" =>
               answered[c][g] = Never \/ now - answered[c][g] >= REFRESH_RESULT_TTL
<1>1. IInv /\ [Next]_vars => Kept
  <2> SUFFICES ASSUME IInv, [Next]_vars, NEW c \in Connections, NEW g \in Gens,
                      cache[c][g].kind # "pending", cache'[c][g].kind = "pending"
               PROVE  answered[c][g] = Never \/ now - answered[c][g] >= REFRESH_RESULT_TTL
    OBVIOUS
  <2>1. PICK p \in Callers : /\ caller[p].target = c /\ caller[p].held.rt = g
                             /\ lock[c] = NoCaller /\ ~Reuses(p)
    BY PendingMeansTakesOff
  <2>2. cache[c][g].kind \in {"none", "tokens", "null", "error"}
        /\ cache[c][g].until \in Nat /\ answered[c][g] \in Nat \cup {Never}
        /\ now \in Nat /\ REFRESH_RESULT_TTL \in Nat
    BY RefreshAssumption DEF IInv, TypeOK, Entries
  <2>3. CASE cache[c][g].kind = "none"
    BY <2>3 DEF IInv, WindowInv
  <2>4. CASE cache[c][g].kind # "none"
    <3>1. cache[c][g].until = answered[c][g] + REFRESH_RESULT_TTL
      BY <2>2, <2>4 DEF IInv, WindowInv
    <3>2. cache[c][g].until <= now
      BY <2>1, <2>2, <2>4 DEF Reuses
    <3> QED
      BY <2>2, <3>1, <3>2 DEF Never
  <2> QED
    BY <2>3, <2>4
<1>2. IInv /\ [Next]_vars => [Kept]_vars
  BY <1>1
<1> QED
  BY InitIInv, Inductive, <1>2, PTL DEF Spec, SentOncePerWindow

\* Who is about to persist does nothing else before it has, or has failed to.
LEMMA StepRotation ==
  ASSUME TypeOK, LostOnlyByFailedWrite, NEW p \in Callers, Step(p)
  PROVE  LostOnlyByFailedWrite'
<1>1. /\ received' = received
      /\ caller[p].pc = "persist" => Persist(p) \/ PersistFails(p)
      /\ written' = written \/ Persist(p)
      /\ lost' = lost \/ PersistFails(p)
  BY DEF Step, Check, Persist, PersistFails, Select, Upstream, RefreshAfterRejection, TickFires,
         Load, TickNext, TickEnds, providerVars
<1>2. ASSUME Persist(p), NEW c \in Connections
      PROVE  /\ written'[c] >= written[c]
             /\ c = caller[p].target => written'[c] >= caller[p].got
  <2>1. /\ caller[p].got \in Int /\ written[c] \in Int
        /\ caller[p].target \in Connections
    BY DEF TypeOK, Locals, Gens
  <2>2. written' = [written EXCEPT ![caller[p].target] =
                      IF caller[p].got > @ THEN caller[p].got ELSE @]
    BY <1>2 DEF Persist
  <2> QED
    BY <2>1, <2>2 DEF TypeOK
<1>3. ASSUME PersistFails(p), NEW c \in Connections
      PROVE  /\ lost[c] \subseteq lost'[c]
             /\ c = caller[p].target => caller[p].got \in lost'[c]
  BY <1>3 DEF PersistFails, TypeOK
<1>4. \A q \in Callers : q # p => caller'[q] = caller[q]
  BY StepTouches
<1> SUFFICES ASSUME NEW c \in Connections, received'[c] > written'[c]
             PROVE  \/ received'[c] \in lost'[c]
                    \/ \E q \in Callers :
                         /\ caller'[q].pc = "persist" /\ caller'[q].target = c
                         /\ caller'[q].got = received'[c]
  BY DEF LostOnlyByFailedWrite
<1>5. /\ received[c] \in Int /\ written[c] \in Int /\ written'[c] \in Int
  BY <1>1, StepType DEF TypeOK, Gens
<1>6. received[c] > written[c] /\ lost[c] \subseteq lost'[c]
  BY <1>1, <1>2, <1>3, <1>5
<1>7. CASE received[c] \in lost[c]
  BY <1>1, <1>5, <1>6, <1>7
<1>8. CASE \E q \in Callers :
             caller[q].pc = "persist" /\ caller[q].target = c /\ caller[q].got = received[c]
  <2>1. PICK q \in Callers :
          caller[q].pc = "persist" /\ caller[q].target = c /\ caller[q].got = received[c]
    BY <1>8
  <2>2. CASE q = p
    BY <1>1, <1>2, <1>3, <1>5, <2>1, <2>2
  <2>3. CASE q # p
    BY <1>1, <1>4, <2>1, <2>3
  <2> QED
    BY <2>2, <2>3
<1> QED
  BY <1>6, <1>7, <1>8 DEF LostOnlyByFailedWrite

\* An answer with a newer token is persisted by the caller whose exchange it was.
LEMMA ExchangeRotation ==
  ASSUME TypeOK, LockInv, LostOnlyByFailedWrite,
         NEW d \in Connections, NEW g \in Gens, Exchange(d, g)
  PROVE  LostOnlyByFailedWrite'
<1>1. PICK result \in Results : Resolve(d, g, result)
  BY ExchangeStep
<1>2. cache[d][g].kind = "pending" /\ written' = written /\ lost' = lost
  BY ExchangeStep DEF Exchange
<1>3. result.kind \in {"tokens", "null", "error"} /\ result.rt \in Gens
  BY DEF Results
<1>4. /\ caller' = [p \in Callers |->
            IF caller[p].pc \in {"flight", "joined"} /\ caller[p].target = d
            THEN Resume(p, result) ELSE caller[p]]
      /\ lock[d] \in Callers /\ caller[lock[d]].pc = "flight" /\ caller[lock[d]].target = d
  BY <1>1, <1>2, <1>3, ResolveStep
<1>5. received' = [received EXCEPT ![d] =
        IF result.kind = "tokens" /\ result.rt > @ THEN result.rt ELSE @]
  BY <1>1 DEF Resolve
<1> SUFFICES ASSUME NEW c \in Connections, received'[c] > written'[c]
             PROVE  \/ received'[c] \in lost'[c]
                    \/ \E q \in Callers :
                         /\ caller'[q].pc = "persist" /\ caller'[q].target = c
                         /\ caller'[q].got = received'[c]
  BY DEF LostOnlyByFailedWrite
<1>6. CASE received'[c] = received[c]
  <2>1. CASE received[c] \in lost[c]
    BY <1>2, <1>6, <2>1
  <2>2. ASSUME NEW q \in Callers, caller[q].pc = "persist", caller[q].target = c,
               caller[q].got = received[c]
        PROVE  /\ caller'[q].pc = "persist" /\ caller'[q].target = c
               /\ caller'[q].got = received'[c]
    BY <1>4, <1>6, <2>2
  <2> QED
    BY <1>2, <1>6, <2>1, <2>2 DEF LostOnlyByFailedWrite
<1>7. CASE received'[c] # received[c]
  <2>1. c = d /\ result.kind = "tokens" /\ received'[c] = result.rt
    BY <1>5, <1>7 DEF TypeOK
  <2>2. caller'[lock[d]] = Resume(lock[d], result)
    BY <1>4
  <2>3. /\ caller'[lock[d]].pc = "persist" /\ caller'[lock[d]].target = d
        /\ caller'[lock[d]].got = result.rt
    BY <1>3, <1>4, <2>1, <2>2, ResumeType
  <2> QED
    BY <1>4, <2>1, <2>3
<1> QED
  BY <1>6, <1>7

\* A rotated refresh token that was received is persisted, or a caller is about to
\* persist it, or its write failed: no interleaving drops it.
THEOREM NoRotationLost == Spec => []LostOnlyByFailedWrite
<1>1. Init => LostOnlyByFailedWrite
  BY DEF Init, LostOnlyByFailedWrite
<1>2. IInv /\ LostOnlyByFailedWrite /\ [Next]_vars => LostOnlyByFailedWrite'
  <2> SUFFICES ASSUME IInv, LostOnlyByFailedWrite, [Next]_vars PROVE LostOnlyByFailedWrite'
    OBVIOUS
  <2>1. TypeOK /\ LockInv
    BY DEF IInv
  <2>2. ASSUME NEW p \in Callers, Step(p) PROVE LostOnlyByFailedWrite'
    BY <2>1, <2>2, StepRotation
  <2>3. ASSUME NEW c \in Connections, NEW g \in Gens, Exchange(c, g)
        PROVE  LostOnlyByFailedWrite'
    BY <2>1, <2>3, ExchangeRotation
  <2>4. CASE Tick \/ UNCHANGED vars
    BY <2>4 DEF Tick, vars, providerVars, LostOnlyByFailedWrite
  <2> QED
    BY <2>2, <2>3, <2>4 DEF Next
<1> QED
  BY InitIInv, Inductive, <1>1, <1>2, PTL DEF Spec

\* Who joined another's refresh waits for an exchange that runs: it is never left with
\* a promise that was answered before.
THEOREM JoinersHaveAFlight ==
  Spec => [](\A p \in Callers :
               caller[p].pc = "joined" =>
                 \E q \in Callers :
                   /\ caller[q].pc = "flight" /\ caller[q].target = caller[p].target
                   /\ cache[caller[q].target][caller[q].held.rt].kind = "pending")
<1>1. IInv => \A p \in Callers :
                caller[p].pc = "joined" =>
                  \E q \in Callers :
                    /\ caller[q].pc = "flight" /\ caller[q].target = caller[p].target
                    /\ cache[caller[q].target][caller[q].held.rt].kind = "pending"
  <2> SUFFICES ASSUME IInv, NEW p \in Callers, caller[p].pc = "joined"
               PROVE  \E q \in Callers :
                        /\ caller[q].pc = "flight" /\ caller[q].target = caller[p].target
                        /\ cache[caller[q].target][caller[q].held.rt].kind = "pending"
    OBVIOUS
  <2>1. caller[p].target \in Connections
    BY DEF IInv, TypeOK, Locals
  <2>2. lock[caller[p].target] \in Callers
    BY DEF IInv, LockInv
  <2> QED
    BY <2>1, <2>2 DEF IInv, LockInv
<1> QED
  BY InitIInv, Inductive, <1>1, PTL DEF Spec

-----------------------------------------------------------------------------
(* No refresh token is made up.                                             *)

\* Every refresh token the program holds, stored, in a list, in the cache or in the
\* hands of a caller, is one it has received; and it has received what the provider
\* issued.
HeldInv ==
  /\ \A c \in Connections : conn[c].rt <= received[c] /\ received[c] <= valid[c]
  /\ \A c \in Connections, g \in Gens :
       cache[c][g].kind = "tokens" => cache[c][g].rt <= received[c]
  /\ \A p \in Callers :
       /\ caller[p].held.rt <= received[caller[p].target]
       /\ caller[p].pc = "persist" => caller[p].got <= received[caller[p].target]
  /\ \A t \in Ticks : \A d \in due[t] : d.tokens.rt <= received[d.id]

\* Who resumes holds what it held, or nothing; it persists what the result brought.
LEMMA ResumeHolds ==
  ASSUME TypeOK, NEW p \in Callers, NEW result
  PROVE  /\ Resume(p, result).held.rt \in {caller[p].held.rt, 1}
         /\ Resume(p, result).pc = "persist" =>
              result.kind = "tokens" /\ Resume(p, result).got = result.rt
<1> DEFINE next == After(p, result.kind)
<1>1. next \in {"done", "persist", "loop", "upstream", "retry"}
      /\ (next = "persist" => result.kind = "tokens")
  BY DEF After
<1>2. caller[p] \in Locals
  BY DEF TypeOK
<1> HIDE DEF next
<1>3. CASE next = "done"
  BY <1>3 DEF Resume, next, Idle
<1>4. CASE next = "persist"
  BY <1>1, <1>2, <1>4 DEF Resume, next, Locals
<1>5. CASE next = "retry"
  BY <1>2, <1>5 DEF Resume, next, Locals
<1>6. CASE next = "loop"
  BY <1>2, <1>6 DEF Resume, next, Locals
<1>7. CASE next = "upstream"
  BY <1>2, <1>7 DEF Resume, next, Locals
<1> QED
  BY <1>1, <1>3, <1>4, <1>5, <1>6, <1>7

\* What the refresh leaves a caller with.
LEMMA RefreshHolds ==
  ASSUME TypeOK, HeldInv, NEW p \in Callers, Refresh(p)
  PROVE  /\ caller'[p].target = caller[p].target
         /\ caller'[p].held.rt <= received[caller[p].target]
         /\ caller'[p].pc = "persist" => caller'[p].got <= received[caller[p].target]
<1> DEFINE c == caller[p].target
           g == caller[p].held.rt
           hit == cache[c][g]
<1>1. /\ c \in Connections /\ g \in Gens /\ caller[p] \in Locals
      /\ received[c] \in Gens /\ g <= received[c] /\ 1 <= received[c]
  BY DEF TypeOK, Locals, Tokens, HeldInv, Gens
<1>2. CASE \E phase \in {"joined", "flight"} : caller' = [caller EXCEPT ![p].pc = phase]
  BY <1>1, <1>2 DEF TypeOK, Locals
<1>3. CASE Reuses(p) /\ caller' = [caller EXCEPT ![p] = Resume(p, hit)]
  <2>1. hit.kind \in {"tokens", "null", "error"} /\ hit.rt \in Gens
    BY <1>1, <1>3 DEF Reuses, TypeOK, Entries
  <2>2. hit.kind = "tokens" => hit.rt <= received[c]
    BY <1>1 DEF HeldInv
  <2>3. caller'[p] = Resume(p, hit)
    BY <1>3 DEF TypeOK
  <2> HIDE DEF hit, c, g
  <2>4. /\ Resume(p, hit).target = c /\ Resume(p, hit).held.rt \in {g, 1}
        /\ Resume(p, hit).pc = "persist" => hit.kind = "tokens" /\ Resume(p, hit).got = hit.rt
    BY <2>1, ResumeType, ResumeHolds DEF c, g
  <2> QED
    BY <1>1, <2>2, <2>3, <2>4 DEF c
<1> QED
  BY <1>2, <1>3 DEF Refresh

\* A caller's step brings no token that was not received: what it stores it was given,
\* what it takes it reads from the store, from its list or from the cache.
LEMMA StepHolds ==
  ASSUME TypeOK, HeldInv, NEW p \in Callers, Step(p)
  PROVE  HeldInv'
<1>0. /\ caller[p] \in Locals /\ caller[p].target \in Connections
      /\ \A c \in Connections : received[c] \in Gens /\ 1 <= received[c]
      /\ \A q \in Callers : q # p => caller'[q] = caller[q]
      /\ caller[p].held.rt <= received[caller[p].target]
  <2>1. \A q \in Callers : q # p => caller'[q] = caller[q]
    BY StepTouches
  <2> QED
    BY <2>1 DEF TypeOK, Locals, Gens, HeldInv
<1>1. received' = received /\ valid' = valid
  BY DEF Step, Check, Persist, PersistFails, Select, Upstream, RefreshAfterRejection, TickFires, Load,
         TickNext, TickEnds, providerVars
<1>2. \A c \in Connections : conn'[c].rt <= received[c]
  <2>1. CASE Persist(p)
    <3> DEFINE new == [rt |-> caller[p].got, expiresAt |-> Later]
    <3>1. conn' = [conn EXCEPT ![caller[p].target] = new] /\ new.rt = caller[p].got
          /\ caller[p].pc = "persist"
      BY <2>1 DEF Persist
    <3> HIDE DEF new
    <3> QED
      BY <3>1 DEF HeldInv, TypeOK
  <2>2. CASE ~ Persist(p)
    <3>1. conn' = conn
      BY <2>2 DEF Step, Check, PersistFails, Select, Upstream, RefreshAfterRejection, TickFires, Load,
                  TickNext, TickEnds
    <3> QED
      BY <3>1 DEF HeldInv
  <2> QED
    BY <2>1, <2>2
<1>3. \A c \in Connections, g \in Gens :
        cache'[c][g].kind = "tokens" => cache'[c][g].rt <= received[c]
  <2>1. \A c \in Connections, g \in Gens :
          cache'[c][g] = cache[c][g] \/ cache'[c][g].kind = "pending"
    BY StepTouches
  <2> QED
    BY <2>1 DEF HeldInv
<1>4. /\ caller'[p].held.rt <= received[caller'[p].target]
      /\ caller'[p].pc = "persist" => caller'[p].got <= received[caller'[p].target]
  <2>1. CASE Refresh(p)
    <3>1. /\ caller'[p].target = caller[p].target
          /\ caller'[p].held.rt <= received[caller[p].target]
          /\ caller'[p].pc = "persist" => caller'[p].got <= received[caller[p].target]
      BY <2>1, RefreshHolds
    <3> QED
      BY <3>1
  <2>2. CASE \E phase \in Phases \ {"persist"} : caller' = [caller EXCEPT ![p].pc = phase]
    BY <1>0, <2>2 DEF TypeOK, Locals
  <2>3. CASE caller' = [caller EXCEPT ![p] = Idle("done", caller[p].target)]
    BY <1>0, <2>3 DEF TypeOK, Idle
  <2>4. CASE Persist(p) \/ PersistFails(p)
    <3> DEFINE new == [rt |-> caller[p].got, expiresAt |-> Later]
               l == IF p \in Ticks
                    THEN [caller[p] EXCEPT !.pc = "loop", !.held = new, !.wake = now + TickDelay]
                    ELSE IF caller[p].attempt = 0
                         THEN [caller[p] EXCEPT !.pc = "upstream", !.held = new]
                         ELSE Idle("done", caller[p].target)
    <3>1. caller' = [caller EXCEPT ![p] = l] /\ caller[p].pc = "persist"
      BY <2>4 DEF Persist, PersistFails, GoOn
    <3>2. new.rt = caller[p].got
      OBVIOUS
    <3> HIDE DEF new
    <3>3. l.pc # "persist" /\ l.target = caller[p].target /\ l.held.rt \in {new.rt, 1}
      BY <1>0 DEF Idle, Locals
    <3>4. caller[p].got <= received[caller[p].target]
      BY <3>1 DEF HeldInv
    <3>5. caller'[p] = l
      BY <3>1 DEF TypeOK
    <3> HIDE DEF l
    <3> QED
      BY <1>0, <3>2, <3>3, <3>4, <3>5
  <2>5. CASE Select(p)
    <3> DEFINE l == [caller[p] EXCEPT !.pc = "check", !.held = conn[caller[p].target]]
    <3>1. l.pc = "check" /\ l.target = caller[p].target /\ l.held = conn[caller[p].target]
      BY <1>0 DEF Locals
    <3>2. caller'[p] = l
      BY <1>0, <2>5 DEF Select, TypeOK
    <3> HIDE DEF l
    <3> QED
      BY <1>0, <3>1, <3>2 DEF HeldInv
  <2>6. CASE caller' = [caller EXCEPT ![p].pc = "rejected", ![p].attempt = 1]
    BY <1>0, <2>6 DEF TypeOK, Locals
  <2>7. CASE p \in Ticks /\ TickNext(p)
    <3>1. PICK d \in due[p] :
            caller' = [caller EXCEPT ![p] = [caller[p] EXCEPT !.pc = "check", !.target = d.id,
                                                             !.held = d.tokens]]
      BY <2>7 DEF TickNext
    <3> DEFINE l == [caller[p] EXCEPT !.pc = "check", !.target = d.id, !.held = d.tokens]
    <3>2. l.pc = "check" /\ l.target = d.id /\ l.held = d.tokens
      BY <1>0 DEF Locals
    <3>3. caller'[p] = l
      BY <3>1 DEF TypeOK
    <3> HIDE DEF l
    <3> QED
      BY <2>7, <3>2, <3>3 DEF HeldInv
  <2>8. \/ Refresh(p) \/ Persist(p) \/ PersistFails(p) \/ Select(p) \/ (p \in Ticks /\ TickNext(p))
        \/ \E phase \in {"upstream", "done", "loading", "loop"} :
             caller' = [caller EXCEPT ![p].pc = phase]
        \/ caller' = [caller EXCEPT ![p] = Idle("done", caller[p].target)]
        \/ caller' = [caller EXCEPT ![p].pc = "rejected", ![p].attempt = 1]
    <3>1. \/ Check(p) \/ Persist(p) \/ PersistFails(p) \/ Select(p) \/ Upstream(p)
          \/ RefreshAfterRejection(p)
          \/ TickFires(p) \/ Load(p) \/ (p \in Ticks /\ TickNext(p)) \/ TickEnds(p)
      BY DEF Step
    <3>2. Check(p) => Refresh(p) \/ caller' = [caller EXCEPT ![p].pc = "upstream"]
      BY DEF Check
    <3>3. RefreshAfterRejection(p) => Refresh(p)
      BY DEF RefreshAfterRejection
    <3>4. Upstream(p) => \/ caller' = [caller EXCEPT ![p] = Idle("done", caller[p].target)]
                         \/ caller' = [caller EXCEPT ![p].pc = "rejected", ![p].attempt = 1]
      BY DEF Upstream
    <3>5. TickFires(p) => \E phase \in {"done", "loading"} :
                            caller' = [caller EXCEPT ![p].pc = phase]
      BY DEF TickFires
    <3>6. /\ Load(p) => caller' = [caller EXCEPT ![p].pc = "loop"]
          /\ TickEnds(p) => caller' = [caller EXCEPT ![p] = Idle("done", caller[p].target)]
      BY DEF Load, TickEnds
    <3> QED
      BY <3>1, <3>2, <3>3, <3>4, <3>5, <3>6
  <2>9. {"upstream", "done", "loading", "loop"} \subseteq Phases \ {"persist"}
    BY DEF Phases
  <2> QED
    BY <2>1, <2>2, <2>3, <2>4, <2>5, <2>6, <2>7, <2>8, <2>9
<1>5. \A t \in Ticks : \A d \in due'[t] : d.tokens.rt <= received[d.id]
  <2> SUFFICES ASSUME NEW t \in Ticks, NEW d \in due'[t]
               PROVE  d.tokens.rt <= received[d.id]
    OBVIOUS
  <2>1. CASE d \in due[t]
    BY <2>1 DEF HeldInv
  <2>2. CASE d \notin due[t]
    <3>1. Load(p) /\ p = t
      <4>1. ASSUME p \in Ticks, Load(p), p # t
            PROVE  due'[t] = due[t]
        BY <4>1 DEF Load, TypeOK
      <4>2. ASSUME p \in Ticks, TickNext(p)
            PROVE  due'[t] \subseteq due[t]
        BY <4>2 DEF TickNext, TypeOK
      <4>3. ASSUME ~ (p \in Ticks /\ (Load(p) \/ TickNext(p)))
            PROVE  due' = due
        BY <4>3 DEF Step, Check, Persist, PersistFails, Select, Upstream, RefreshAfterRejection, TickFires,
                    TickEnds
      <4> QED
        BY <2>2, <4>1, <4>2, <4>3
    <3>2. due'[t] = {e \in {[id |-> c, tokens |-> conn[c]] : c \in Connections} :
                       e.tokens.expiresAt - now < BackgroundLead}
      BY <3>1 DEF Load, TypeOK
    <3>3. PICK c \in Connections : d = [id |-> c, tokens |-> conn[c]]
      BY <3>2
    <3> QED
      BY <3>3 DEF HeldInv
  <2> QED
    BY <2>1, <2>2
<1>6. \A q \in Callers :
        /\ caller'[q].held.rt <= received[caller'[q].target]
        /\ caller'[q].pc = "persist" => caller'[q].got <= received[caller'[q].target]
  BY <1>0, <1>4 DEF HeldInv
<1>7. \A c \in Connections : received[c] <= valid[c]
  BY DEF HeldInv
<1> QED
  BY <1>1, <1>2, <1>3, <1>5, <1>6, <1>7 DEF HeldInv

\* An answer brings at most the next token, and only for the one the provider accepts.
LEMMA AnswerBrings ==
  ASSUME TypeOK, NEW c \in Connections, NEW g \in Gens, Exchange(c, g)
  PROVE  \E result \in Results :
           /\ Resolve(c, g, result)
           /\ result.kind = "tokens" => result.rt \in {g, g + 1} /\ result.rt <= valid'[c]
           /\ \A d \in Connections : valid[d] <= valid'[d]
<1>1. /\ g \in Int /\ valid \in [Connections -> Gens] /\ \A d \in Connections : valid[d] \in Int
  BY DEF TypeOK, Gens
<1>2. ASSUME NEW h \in {g, g + 1} \cap Gens, g = valid[c], valid' = [valid EXCEPT ![c] = h],
             Resolve(c, g, [kind |-> "tokens", rt |-> h])
      PROVE  \E result \in Results :
               /\ Resolve(c, g, result)
               /\ result.kind = "tokens" => result.rt \in {g, g + 1} /\ result.rt <= valid'[c]
               /\ \A d \in Connections : valid[d] <= valid'[d]
  <2>1. [kind |-> "tokens", rt |-> h] \in Results /\ h \in Int
    BY <1>1 DEF Results
  <2>2. valid'[c] = h /\ \A d \in Connections : valid[d] <= valid'[d]
    BY <1>1, <1>2, <2>1
  <2> QED
    BY <1>2, <2>1, <2>2
<1>3. ASSUME NEW kind \in {"error", "null"}, NEW h \in Gens, h >= valid[c],
             valid' \in {valid, [valid EXCEPT ![c] = h]},
             Resolve(c, g, [kind |-> kind, rt |-> g])
      PROVE  \E result \in Results :
               /\ Resolve(c, g, result)
               /\ result.kind = "tokens" => result.rt \in {g, g + 1} /\ result.rt <= valid'[c]
               /\ \A d \in Connections : valid[d] <= valid'[d]
  <2>1. [kind |-> kind, rt |-> g] \in Results /\ h \in Int
    BY DEF Results, Gens
  <2>2. \A d \in Connections : valid[d] <= valid'[d]
    BY <1>1, <1>3, <2>1
  <2> QED
    BY <1>3, <2>1, <2>2
<1>4. \/ \E h \in {g, g + 1} \cap Gens :
            /\ g = valid[c] /\ valid' = [valid EXCEPT ![c] = h]
            /\ Resolve(c, g, [kind |-> "tokens", rt |-> h])
      \/ Resolve(c, g, [kind |-> "error", rt |-> g]) /\ valid' = valid
      \/ \E h \in Gens :
            /\ h >= valid[c] /\ valid' = [valid EXCEPT ![c] = h]
            /\ Resolve(c, g, [kind |-> "null", rt |-> g])
  BY DEF Exchange
<1>5. valid[c] \in Gens /\ valid[c] >= valid[c]
  BY <1>1
<1> QED
  BY <1>2, <1>3, <1>4, <1>5

\* An answer that is newer than what was received is for the newest token.
LEMMA AnswerIsNext ==
  ASSUME TypeOK, LockInv, HeldInv, NEW c \in Connections, NEW g \in Gens, Exchange(c, g)
  PROVE  /\ g <= received[c]
         /\ received' = received \/ (g = received[c] /\ received' = [received EXCEPT ![c] = g + 1])
         /\ answered' = [answered EXCEPT ![c] = [@ EXCEPT ![g] = now]]
<1>1. PICK result \in Results :
        /\ Resolve(c, g, result)
        /\ result.kind = "tokens" => result.rt \in {g, g + 1} /\ result.rt <= valid'[c]
  BY AnswerBrings
<1>2. g <= received[c]
  <2>1. cache[c][g].kind = "pending"
    BY ExchangeStep
  <2>2. lock[c] \in Callers /\ caller[lock[c]].held.rt = g /\ caller[lock[c]].target = c
    BY <2>1 DEF LockInv
  <2> QED
    BY <2>2 DEF HeldInv
<1>3. /\ received' = [received EXCEPT ![c] =
            IF result.kind = "tokens" /\ result.rt > @ THEN result.rt ELSE @]
      /\ answered' = [answered EXCEPT ![c][g] = now]
  BY <1>1 DEF Resolve
<1>4. received \in [Connections -> Gens] /\ received[c] \in Int /\ g \in Int
  BY DEF TypeOK, Gens
<1>5. received' = received \/ (g = received[c] /\ received' = [received EXCEPT ![c] = g + 1])
  <2>1. CASE result.kind = "tokens" /\ result.rt > received[c]
    <3>1. g = received[c] /\ result.rt = g + 1
      BY <1>1, <1>2, <1>4, <2>1
    <3> QED
      BY <1>3, <1>4, <2>1, <3>1
  <2>2. CASE ~ (result.kind = "tokens" /\ result.rt > received[c])
    BY <1>3, <1>4, <2>2
  <2> QED
    BY <2>1, <2>2
<1> QED
  BY <1>2, <1>3, <1>5

\* An answer's token is received before it is in anybody's hands.
LEMMA ExchangeHolds ==
  ASSUME TypeOK, LockInv, HeldInv, NEW c \in Connections, NEW g \in Gens, Exchange(c, g)
  PROVE  HeldInv'
<1>1. PICK result \in Results :
        /\ Resolve(c, g, result)
        /\ result.kind = "tokens" => result.rt \in {g, g + 1} /\ result.rt <= valid'[c]
        /\ \A d \in Connections : valid[d] <= valid'[d]
  BY AnswerBrings
<1>2. result.kind \in {"tokens", "null", "error"} /\ result.rt \in Gens
  BY DEF Results
<1>3. cache[c][g].kind = "pending" /\ conn' = conn /\ due' = due
  BY ExchangeStep DEF Exchange
<1>4. /\ cache' = [cache EXCEPT ![c] = [@ EXCEPT ![g] =
            [kind |-> result.kind, rt |-> result.rt, until |-> now + REFRESH_RESULT_TTL]]]
      /\ caller' = [p \in Callers |->
            IF caller[p].pc \in {"flight", "joined"} /\ caller[p].target = c
            THEN Resume(p, result) ELSE caller[p]]
  BY <1>1, <1>2, <1>3, ResolveStep
<1>5. received' = [received EXCEPT ![c] =
        IF result.kind = "tokens" /\ result.rt > @ THEN result.rt ELSE @]
  BY <1>1 DEF Resolve
<1>6. \A d \in Connections :
        received[d] \in Int /\ received'[d] \in Int /\ valid[d] \in Int /\ valid'[d] \in Int
  BY ExchangeType DEF TypeOK, Gens
<1>7. /\ \A d \in Connections : received[d] <= received'[d]
      /\ result.kind = "tokens" => result.rt <= received'[c]
  BY <1>2, <1>5, <1>6 DEF TypeOK, Gens
<1>8. \A d \in Connections : received'[d] <= valid'[d]
  <2> SUFFICES ASSUME NEW d \in Connections PROVE received'[d] <= valid'[d]
    OBVIOUS
  <2>1. received[d] <= valid[d] /\ valid[d] <= valid'[d]
    BY <1>1 DEF HeldInv
  <2>2. received'[d] = received[d] \/ (d = c /\ result.kind = "tokens" /\ received'[d] = result.rt)
    BY <1>5 DEF TypeOK
  <2> QED
    BY <1>1, <1>6, <2>1, <2>2
<1>9. \A d \in Connections : conn'[d].rt <= received'[d]
  <2>1. \A d \in Connections : conn[d].rt \in Int /\ conn[d].rt <= received[d]
    BY DEF TypeOK, Tokens, Gens, HeldInv
  <2> QED
    BY <1>3, <1>6, <1>7, <2>1
<1>10. \A d \in Connections, h \in Gens :
         cache'[d][h].kind = "tokens" => cache'[d][h].rt <= received'[d]
  <2> DEFINE entry == [kind |-> result.kind, rt |-> result.rt, until |-> now + REFRESH_RESULT_TTL]
  <2>1. entry.kind = result.kind /\ entry.rt = result.rt
    OBVIOUS
  <2>2. cache' = [cache EXCEPT ![c] = [@ EXCEPT ![g] = entry]]
    BY <1>4
  <2> HIDE DEF entry
  <2>3. \A d \in Connections, h \in Gens :
          cache'[d][h] = IF d = c /\ h = g THEN entry ELSE cache[d][h]
    BY <2>2 DEF TypeOK
  <2>4. \A d \in Connections, h \in Gens :
          cache[d][h].rt \in Int /\ (cache[d][h].kind = "tokens" => cache[d][h].rt <= received[d])
    <3> SUFFICES ASSUME NEW d \in Connections, NEW h \in Gens
                 PROVE  /\ cache[d][h].rt \in Int
                        /\ cache[d][h].kind = "tokens" => cache[d][h].rt <= received[d]
      OBVIOUS
    <3>1. cache[d][h] \in Entries
      BY DEF TypeOK
    <3>2. cache[d][h].rt \in Int
      BY <3>1 DEF Entries, Gens
    <3> QED
      BY <3>2 DEF HeldInv
  <2> QED
    BY <1>6, <1>7, <2>1, <2>3, <2>4
<1>11. \A p \in Callers :
         /\ caller'[p].held.rt <= received'[caller'[p].target]
         /\ caller'[p].pc = "persist" => caller'[p].got <= received'[caller'[p].target]
  <2> SUFFICES ASSUME NEW p \in Callers
               PROVE  /\ caller'[p].held.rt <= received'[caller'[p].target]
                      /\ caller'[p].pc = "persist" => caller'[p].got <= received'[caller'[p].target]
    OBVIOUS
  <2>1. /\ caller[p].target \in Connections /\ caller[p].held.rt \in Int /\ caller[p].got \in Int
        /\ caller[p].held.rt <= received[caller[p].target]
        /\ caller[p].pc = "persist" => caller[p].got <= received[caller[p].target]
        /\ 1 <= received[caller[p].target]
    BY DEF TypeOK, Locals, Tokens, Gens, HeldInv
  <2>2. CASE caller'[p] = caller[p]
    BY <1>6, <1>7, <2>1, <2>2
  <2>3. CASE caller[p].target = c /\ caller'[p] = Resume(p, result)
    <3>1. /\ Resume(p, result).target = c
          /\ Resume(p, result).held.rt \in {caller[p].held.rt, 1}
          /\ Resume(p, result).pc = "persist" =>
               result.kind = "tokens" /\ Resume(p, result).got = result.rt
      BY <1>2, <2>3, ResumeType, ResumeHolds
    <3> QED
      BY <1>6, <1>7, <2>1, <2>3, <3>1
  <2> QED
    BY <1>4, <2>2, <2>3
<1>12. \A t \in Ticks : \A d \in due'[t] : d.tokens.rt <= received'[d.id]
  <2> SUFFICES ASSUME NEW t \in Ticks, NEW d \in due[t]
               PROVE  d.tokens.rt <= received'[d.id]
    BY <1>3
  <2>1. d.id \in Connections /\ d.tokens.rt \in Int /\ d.tokens.rt <= received[d.id]
    BY DEF TypeOK, Tokens, Gens, HeldInv
  <2> QED
    BY <1>6, <1>7, <2>1
<1> QED
  BY <1>8, <1>9, <1>10, <1>11, <1>12 DEF HeldInv

\* The program starts with what it was given.
LEMMA InitHolds == Init => HeldInv
<1> SUFFICES ASSUME Init PROVE HeldInv
  OBVIOUS
<1>1. \A p \in Callers : caller[p].pc = "new" /\ caller[p].held.rt = 1 /\ caller[p].target \in Connections
  BY DEF Init, Idle
<1>2. \A c \in Connections : /\ conn[c].rt = 1 /\ received[c] = 1 /\ valid[c] = 1
                             /\ \A g \in Gens : cache[c][g].kind = "none"
  BY DEF Init, NoEntry
<1>3. \A t \in Ticks : due[t] = {}
  BY DEF Init
<1> QED
  BY <1>1, <1>2, <1>3 DEF HeldInv

\* It gets further tokens only from the provider.
LEMMA NextHolds == IInv /\ HeldInv /\ [Next]_vars => HeldInv'
<1> SUFFICES ASSUME IInv, HeldInv, [Next]_vars PROVE HeldInv'
  OBVIOUS
<1>1. TypeOK /\ LockInv
  BY DEF IInv
<1>2. ASSUME NEW p \in Callers, Step(p) PROVE HeldInv'
  BY <1>1, <1>2, StepHolds
<1>3. ASSUME NEW c \in Connections, NEW g \in Gens, Exchange(c, g) PROVE HeldInv'
  BY <1>1, <1>3, ExchangeHolds
<1>4. CASE Tick \/ UNCHANGED vars
  BY <1>4 DEF Tick, vars, providerVars, HeldInv
<1> QED
  BY <1>2, <1>3, <1>4 DEF Next

\* The stored refresh token is one the provider issued and the program received: stale
\* it may be, for NewestTokenStored does not hold, but it is never made up.
THEOREM StoredTokenWasReceived ==
  Spec => [](\A c \in Connections : conn[c].rt <= received[c] /\ received[c] <= valid[c])
<1>1. HeldInv => \A c \in Connections : conn[c].rt <= received[c] /\ received[c] <= valid[c]
  BY DEF HeldInv
<1> QED
  BY InitIInv, Inductive, InitHolds, NextHolds, <1>1, PTL DEF Spec

-----------------------------------------------------------------------------
(* What the provider sees is an ExchangeContract.                           *)

\* A caller that takes off sends the token it holds; its other steps send nothing.
LEMMA StepRefines ==
  ASSUME IInv, HeldInv, NEW p \in Callers, Step(p)
  PROVE  \/ UNCHANGED <<now, OnWire, answered, received>>
         \/ \E c \in Connections, g \in Gens : Exchanges!Send(c, g)
<1>0. TypeOK /\ LockInv /\ WindowInv
  BY DEF IInv
<1>1. now' = now /\ answered' = answered /\ received' = received
  BY DEF Step, Check, Persist, PersistFails, Select, Upstream, RefreshAfterRejection, TickFires, Load,
         TickNext, TickEnds, providerVars
<1>2. CASE Plain(p) \/ JoinsFlight(p)
  <2>1. cache' = cache
    BY <1>2 DEF Plain, JoinsFlight
  <2> QED
    BY <1>1, <2>1 DEF OnWire
<1>3. CASE TakesOff(p)
  <2> DEFINE c == caller[p].target
             g == caller[p].held.rt
  <2>1. c \in Connections /\ g \in Gens /\ g <= received[c]
    BY <1>0 DEF TypeOK, Locals, Tokens, HeldInv
  <2>2. lock[c] = NoCaller /\ NoCaller \notin Callers
    BY <1>3, RefreshAssumption DEF TakesOff
  <2>3. OnWire[c] = {}
    BY <1>0, <2>1, <2>2 DEF OnWire, LockInv
  <2>4. answered[c][g] = Exchanges!Unanswered \/ now - answered[c][g] >= REFRESH_RESULT_TTL
    <3>1. /\ cache[c][g].kind \in {"none", "tokens", "null", "error"}
          /\ cache[c][g].until \in Nat /\ answered[c][g] \in Nat \cup {Never}
          /\ now \in Nat /\ REFRESH_RESULT_TTL \in Nat
      BY <1>0, <2>1, <2>2, RefreshAssumption DEF LockInv, TypeOK, Entries
    <3>2. cache[c][g].kind = "none" \/ cache[c][g].until <= now
      BY <1>3, <3>1 DEF TakesOff, Reuses
    <3> HIDE DEF c, g
    <3> QED
      BY <1>0, <2>1, <3>1, <3>2 DEF WindowInv, Never, Exchanges!Unanswered
  <2>5. OnWire' = [OnWire EXCEPT ![c] = {g}]
    <3> DEFINE entry == [NoEntry EXCEPT !.kind = "pending"]
    <3>1. entry.kind = "pending"
      BY DEF NoEntry
    <3>2. cache' = [cache EXCEPT ![c] = [@ EXCEPT ![g] = entry]]
      BY <1>3 DEF TakesOff
    <3> HIDE DEF entry, c, g
    <3>3. \A d \in Connections, h \in Gens :
            cache'[d][h] = IF d = c /\ h = g THEN entry ELSE cache[d][h]
      BY <1>0, <2>1, <3>2 DEF TypeOK
    <3>4. \A d \in Connections :
            {h \in Gens : cache'[d][h].kind = "pending"} = IF d = c THEN {g} ELSE OnWire[d]
      BY <2>1, <2>3, <3>1, <3>3 DEF OnWire
    <3> QED
      BY <3>4 DEF OnWire
  <2> HIDE DEF c, g
  <2>6. Exchanges!Send(c, g)
    BY <1>1, <2>1, <2>3, <2>4, <2>5 DEF Exchanges!Send
  <2> QED
    BY <2>1, <2>6
<1> QED
  BY <1>0, <1>2, <1>3, StepShape

\* An answer ends the one exchange of its account.
LEMMA ExchangeRefines ==
  ASSUME IInv, HeldInv, NEW c \in Connections, NEW g \in Gens, Exchange(c, g)
  PROVE  Exchanges!End(c, g)
<1>0. TypeOK /\ LockInv
  BY DEF IInv
<1>1. PICK result \in Results : Resolve(c, g, result)
  BY <1>0, ExchangeStep
<1>2. cache[c][g].kind = "pending" /\ now' = now
  BY <1>0, ExchangeStep DEF Exchange
<1>3. result.kind \in {"tokens", "null", "error"} /\ result.rt \in Gens
  BY DEF Results
<1>4. OnWire' = [OnWire EXCEPT ![c] = {}]
  <2> DEFINE entry == [kind |-> result.kind, rt |-> result.rt, until |-> now + REFRESH_RESULT_TTL]
  <2>1. entry.kind # "pending"
    BY <1>3
  <2>2. cache' = [cache EXCEPT ![c] = [@ EXCEPT ![g] = entry]]
    BY <1>0, <1>1, <1>2, <1>3, ResolveStep
  <2> HIDE DEF entry
  <2>3. \A d \in Connections, h \in Gens :
          cache'[d][h] = IF d = c /\ h = g THEN entry ELSE cache[d][h]
    BY <1>0, <2>2 DEF TypeOK
  <2>4. \A h \in Gens : cache[c][h].kind = "pending" => h = g
    BY <1>0, <1>2 DEF LockInv
  <2>5. \A d \in Connections :
          {h \in Gens : cache'[d][h].kind = "pending"} = IF d = c THEN {} ELSE OnWire[d]
    BY <2>1, <2>3, <2>4 DEF OnWire
  <2> QED
    BY <2>5 DEF OnWire
<1>5. g \in OnWire[c]
  BY <1>2 DEF OnWire
<1>6. /\ received' = received \/ (g = received[c] /\ received' = [received EXCEPT ![c] = g + 1])
      /\ answered' = [answered EXCEPT ![c] = [@ EXCEPT ![g] = now]]
  BY <1>0, AnswerIsNext
<1> QED
  BY <1>2, <1>4, <1>5, <1>6 DEF Exchanges!End

\* However many requests, retries and ticks refresh it, an account is to its provider a
\* client that exchanges one token it was given at a time, and the newest one for the next.
THEOREM RefreshKeepsContract == Spec => KeepsExchangeContract
<1>1. Init => Exchanges!Init
  BY DEF Init, Exchanges!Init, OnWire, NoEntry, Never, Exchanges!Unanswered
<1>2. IInv /\ HeldInv /\ [Next]_vars => [Exchanges!Next]_(Exchanges!vars)
  <2> SUFFICES ASSUME IInv, HeldInv, [Next]_vars
               PROVE  Exchanges!Next \/ UNCHANGED Exchanges!vars
    OBVIOUS
  <2>1. ASSUME NEW p \in Callers, Step(p)
        PROVE  Exchanges!Next \/ UNCHANGED Exchanges!vars
    BY <2>1, StepRefines DEF Exchanges!Next, Exchanges!vars
  <2>2. ASSUME NEW c \in Connections, NEW g \in Gens, Exchange(c, g)
        PROVE  Exchanges!Next
    BY <2>2, ExchangeRefines DEF Exchanges!Next
  <2>3. CASE Tick
    BY <2>3 DEF Tick, providerVars, OnWire, Exchanges!Pass, Exchanges!Next
  <2>4. CASE UNCHANGED vars
    BY <2>4 DEF vars, providerVars, OnWire, Exchanges!vars
  <2> QED
    BY <2>1, <2>2, <2>3, <2>4 DEF Next
<1> QED
  BY InitIInv, Inductive, InitHolds, NextHolds, <1>1, <1>2, PTL
     DEF Spec, KeepsExchangeContract, Exchanges!Spec
=============================================================================
