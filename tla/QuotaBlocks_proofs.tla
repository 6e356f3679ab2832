-------------------------- MODULE QuotaBlocks_proofs --------------------------
(***************************************************************************)
(* Proofs about QuotaBlocks for every set of requests, accounts and models, *)
(* and every setting of the windows and of the threshold.                   *)
(***************************************************************************)
EXTENDS QuotaBlocks, TLAPS

Verdicts == [what : {"strike", "success", "exhausted"}, at : 1 .. MaxTime]

-----------------------------------------------------------------------------
(* The invariants the properties rest on.                                   *)

\* The strike breaker is Antigravity's; a reading of a Zed account is a block or none.
ZedInv ==
  \A k \in Keys : k[1] \notin Antigravity =>
    /\ blocks[k] = 0
    /\ cache[k] = None \/ (cache[k].known /\ cache[k].left = 0)

\* A request falls back once, at its end.
FellInv == \A r \in Requests : phase[r] # "done" => fell[r] = 0

\* The j-th verdict from the end.
FromEnd(s, j) == s[Len(s) - j]

\* The count of a pair's strikes is that of the strikes its latest verdicts end with, and
\* its window begins at the first of them.
StrikeInv ==
  \A k \in Keys :
    /\ Len(recent[k]) <= StrikeThreshold
    /\ strikes[k].count <= Len(recent[k])
    /\ \A j \in 0 .. strikes[k].count - 1 : FromEnd(recent[k], j).what = "strike"
    /\ strikes[k].count > 0 =>
         FromEnd(recent[k], strikes[k].count - 1).at = strikes[k].windowStart

IInv == TypeOK /\ ZedInv /\ FellInv /\ StrikeInv /\ BlockStands

-----------------------------------------------------------------------------
(* What the operators return.                                               *)

\* The verdicts that Note keeps.
Kept(s, v) ==
  LET all == Append(s, v)
  IN  SubSeq(all, IF Len(all) > StrikeThreshold THEN Len(all) - StrikeThreshold + 1 ELSE 1,
             Len(all))

\* The verdicts of a pair with one more: at most StrikeThreshold of them are kept, the
\* newest last.
LEMMA KeptVerdicts ==
  ASSUME NEW s \in Seq(Verdicts), Len(s) <= StrikeThreshold, NEW v \in Verdicts
  PROVE  /\ Kept(s, v) \in Seq(Verdicts) /\ Len(Kept(s, v)) <= StrikeThreshold
         /\ Len(Kept(s, v)) = IF Len(s) = StrikeThreshold THEN StrikeThreshold ELSE Len(s) + 1
         /\ FromEnd(Kept(s, v), 0) = v
         /\ \A j \in 1 .. Len(Kept(s, v)) - 1 : FromEnd(Kept(s, v), j) = FromEnd(s, j - 1)
<1> DEFINE T    == StrikeThreshold
           all  == Append(s, v)
           from == IF Len(all) > T THEN Len(all) - T + 1 ELSE 1
           kept == SubSeq(all, from, Len(all))
<1>0. Kept(s, v) = kept
  BY DEF Kept
<1>1. all \in Seq(Verdicts) /\ Len(all) = Len(s) + 1 /\ Len(s) \in Nat /\ T \in Nat \ {0}
  BY QuotaAssumption
<1>2. /\ all[Len(s) + 1] = v
      /\ \A i \in 1 .. Len(s) : all[i] = s[i]
  OBVIOUS
<1> HIDE DEF all
<1>3. from = (IF Len(s) = T THEN 2 ELSE 1) /\ from \in 1 .. Len(all)
  BY <1>1
<1> HIDE DEF from
<1>4. /\ kept \in Seq(Verdicts) /\ Len(kept) = Len(all) - from + 1
      /\ \A i \in 1 .. Len(kept) : kept[i] = all[from + i - 1]
  BY <1>1, <1>3
<1> HIDE DEF kept
<1>5. Len(kept) = IF Len(s) = T THEN T ELSE Len(s) + 1
  BY <1>1, <1>3, <1>4
<1>6. FromEnd(kept, 0) = v
  BY <1>1, <1>2, <1>3, <1>4, <1>5 DEF FromEnd
<1>7. \A j \in 1 .. Len(kept) - 1 : FromEnd(kept, j) = FromEnd(s, j - 1)
  BY <1>1, <1>2, <1>3, <1>4, <1>5 DEF FromEnd
<1> QED
  BY <1>0, <1>1, <1>4, <1>5, <1>6, <1>7

\* The bounds of the durations.
LEMMA Bounds ==
  /\ RefreshInterval \in Nat \ {0} /\ StrikeWindow \in Nat \ {0} /\ StrikeBlock \in Nat \ {0}
  /\ StrikeThreshold \in Nat \ {0} /\ MaxTime \in Nat \ {0}
  /\ Antigravity \subseteq Accounts /\ Targets \subseteq [Requests -> Keys]
BY QuotaAssumption

\* A reading is one, with what it was made of; no reading is one too.
LEMMA ReadingType ==
  /\ None \in Readings
  /\ \A left \in 0 .. 1, reset \in Nat :
       /\ Reading(left, reset) \in Readings
       /\ Reading(left, reset).known /\ Reading(left, reset).left = left
       /\ Reading(left, reset).resetAt = reset
BY DEF None, Reading, Readings

\* The target of a request is an account and a model of the configuration.
LEMMA TargetType ==
  ASSUME TypeOK, NEW r \in Requests
  PROVE  target[r] \in Keys /\ target[r][1] \in Accounts
BY DEF TypeOK, Keys

\* Noting a verdict keeps the types and touches one pair.
LEMMA NoteStep ==
  ASSUME TypeOK, StrikeInv, NEW k \in Keys,
         NEW what \in {"strike", "success", "exhausted"}, Note(k, what)
  PROVE  /\ recent' \in [Keys -> Seq(Verdicts)]
         /\ \A h \in Keys : h # k => recent'[h] = recent[h]
         /\ Len(recent'[k]) <= StrikeThreshold
         /\ Len(recent'[k]) = IF Len(recent[k]) = StrikeThreshold THEN StrikeThreshold
                              ELSE Len(recent[k]) + 1
         /\ FromEnd(recent'[k], 0) = [what |-> what, at |-> now]
         /\ \A j \in 1 .. Len(recent'[k]) - 1 : FromEnd(recent'[k], j) = FromEnd(recent[k], j - 1)
<1> DEFINE s    == recent[k]
           v    == [what |-> what, at |-> now]
           kept == Kept(s, v)
<1>1. v \in Verdicts /\ s \in Seq(Verdicts) /\ Len(s) <= StrikeThreshold
  BY DEF TypeOK, Verdicts, StrikeInv
<1>2. recent' = [recent EXCEPT ![k] = kept]
  BY DEF Note, Kept
<1>3. /\ kept \in Seq(Verdicts) /\ Len(kept) <= StrikeThreshold
      /\ Len(kept) = IF Len(s) = StrikeThreshold THEN StrikeThreshold ELSE Len(s) + 1
      /\ FromEnd(kept, 0) = v
      /\ \A j \in 1 .. Len(kept) - 1 : FromEnd(kept, j) = FromEnd(s, j - 1)
  BY <1>1, KeptVerdicts
<1> HIDE DEF kept
<1>4. recent'[k] = kept /\ \A h \in Keys : h # k => recent'[h] = recent[h]
  BY <1>2 DEF TypeOK
<1>5. recent' \in [Keys -> Seq(Verdicts)]
  BY <1>2, <1>3 DEF TypeOK, Verdicts
<1> QED
  BY <1>3, <1>4, <1>5

\* A strike either lengthens the run of a pair's strikes, its window begun by the first,
\* or begins another, or ends it with a block.
LEMMA StrikeStep ==
  ASSUME TypeOK, NEW r \in Requests, NEW k \in Keys, Strike(r, k)
  PROVE  LET old == strikes[k]
             same == old.count > 0 /\ now - old.windowStart <= StrikeWindow
             count == IF same THEN old.count + 1 ELSE 1 IN
         \/ /\ count = StrikeThreshold
            /\ strikes' = [strikes EXCEPT ![k] = NoStrikes]
            /\ blocks' = [blocks EXCEPT ![k] = now + StrikeBlock]
            /\ cache' = [cache EXCEPT ![k] = Reading(0, now + StrikeBlock)]
            /\ Decide(r, now + StrikeBlock)
         \/ /\ count < StrikeThreshold
            /\ strikes' = [strikes EXCEPT ![k] =
                 [count |-> count, windowStart |-> IF same THEN old.windowStart ELSE now]]
            /\ blocks' = blocks /\ cache' = cache /\ Decide(r, 0)
<1> DEFINE old == strikes[k]
           same == old.count > 0 /\ now - old.windowStart <= StrikeWindow
           count == IF same THEN old.count + 1 ELSE 1
<1>1. old.count \in 0 .. StrikeThreshold - 1
  BY DEF TypeOK
<1>2. count \in 1 .. StrikeThreshold
  BY <1>1, Bounds
<1>3. CASE count >= StrikeThreshold
  BY <1>2, <1>3, Bounds DEF Strike
<1>4. CASE ~(count >= StrikeThreshold)
  BY <1>2, <1>4, Bounds DEF Strike
<1> QED
  BY <1>3, <1>4

-----------------------------------------------------------------------------
(* Each action keeps the invariant.                                         *)

\* Only a request's own phase and error change, or a refresh begins.
LEMMA AttemptFailStep ==
  ASSUME IInv, NEW r \in Requests, Attempt(r) \/ Fail(r)
  PROVE  IInv'
<1>1. /\ UNCHANGED <<now, target, fell, cache, strikes, blocks, cycle, recent>>
      /\ phase[r] \in {"new", "sent"}
  BY DEF Attempt, Fail
<1>0. TypeOK
  BY DEF IInv
<1>2. target[r][1] \in Accounts /\ now \in 0 .. MaxTime
  <2>1. target[r][1] \in Accounts
    BY <1>0, TargetType
  <2>2. now \in 0 .. MaxTime
    BY Bounds DEF IInv, TypeOK
  <2> QED
    BY <2>1, <2>2
<1>3. phase' \in [Requests -> {"new", "sent", "waiting", "read", "unread", "done"}]
  BY DEF Attempt, Fail, IInv, TypeOK
<1>4. /\ error' \in [Requests -> {"none", "quota", "spend"}]
      /\ lastRefresh' \in [Accounts -> 0 .. MaxTime] /\ inflight' \in [Accounts -> BOOLEAN]
  BY <1>2 DEF Attempt, Fail, IInv, TypeOK
<1>5. TypeOK'
  BY <1>1, <1>3, <1>4 DEF IInv, TypeOK
<1>6. FellInv'
  <2>1. \A q \in Requests : q # r => phase'[q] = phase[q]
    BY DEF Attempt, Fail, IInv, TypeOK
  <2> QED
    BY <1>1, <2>1 DEF IInv, FellInv
<1>7. ZedInv' /\ StrikeInv' /\ BlockStands'
  BY <1>1 DEF IInv, ZedInv, StrikeInv, BlockStands, Blocked
<1> QED
  BY <1>5, <1>6, <1>7 DEF IInv

\* A success clears the pair's strikes and its block.
LEMMA SucceedStep ==
  ASSUME IInv, NEW r \in Requests, Succeed(r)
  PROVE  IInv'
<1> DEFINE k == target[r]
<1>1. k \in Keys /\ k[1] \in Accounts /\ None \in Readings /\ 0 \in 0 .. MaxTime
      /\ 0 \in 0 .. StrikeThreshold - 1 /\ now \in Nat
  <2>1. TypeOK
    BY DEF IInv
  <2>2. now \in Nat /\ None \in Readings
    BY <2>1 DEF TypeOK, None, Readings
  <2>3. 0 \in 0 .. MaxTime /\ 0 \in 0 .. StrikeThreshold - 1
    BY Bounds
  <2> QED
    BY <2>1, <2>2, <2>3, TargetType
<1>2. /\ phase' = [phase EXCEPT ![r] = "done"] /\ Note(k, "success")
      /\ strikes' = [strikes EXCEPT ![k] = NoStrikes]
      /\ blocks' = [blocks EXCEPT ![k] = 0]
      /\ cycle' = [cycle EXCEPT ![k[1]] = 0]
      /\ cache' = [cache EXCEPT ![k] =
           IF k[1] \notin Antigravity \/ (blocks[k] # 0 /\ @.resetAt = blocks[k]) THEN None ELSE @]
      /\ UNCHANGED <<now, target, error, fell, lastRefresh, inflight>>
  BY DEF Succeed
<1> HIDE DEF k
<1>3. cache'[k] \in {cache[k], None} /\ \A h \in Keys : h # k => cache'[h] = cache[h]
  BY <1>1, <1>2 DEF IInv, TypeOK
<1>4. /\ recent' \in [Keys -> Seq(Verdicts)]
      /\ \A h \in Keys : h # k => recent'[h] = recent[h]
      /\ Len(recent'[k]) <= StrikeThreshold
  BY <1>1, <1>2, NoteStep DEF IInv
<1>5. TypeOK'
  <2>1. cache' \in [Keys -> Readings]
    BY <1>1, <1>2 DEF IInv, TypeOK
  <2>2. strikes' \in [Keys -> [count : 0 .. StrikeThreshold - 1, windowStart : 0 .. MaxTime]]
    BY <1>1, <1>2 DEF IInv, TypeOK, NoStrikes
  <2>3. blocks' \in [Keys -> Nat] /\ cycle' \in [Accounts -> Nat]
    BY <1>1, <1>2 DEF IInv, TypeOK
  <2> QED
    BY <1>2, <1>4, <2>1, <2>2, <2>3 DEF IInv, TypeOK, Verdicts
<1>6. blocks'[k] = 0 /\ \A h \in Keys : h # k => blocks'[h] = blocks[h]
  BY <1>1, <1>2 DEF IInv, TypeOK
<1>7. ZedInv'
  BY <1>3, <1>6 DEF IInv, ZedInv
<1>8. FellInv'
  BY <1>2 DEF IInv, FellInv, TypeOK
<1>9. StrikeInv'
  <2>1. strikes'[k].count = 0 /\ \A h \in Keys : h # k => strikes'[h] = strikes[h]
    BY <1>1, <1>2 DEF IInv, TypeOK, NoStrikes
  <2>2. Len(recent'[k]) \in Nat
    BY <1>1, <1>4
  <2> QED
    BY <1>1, <1>4, <2>1, <2>2 DEF IInv, StrikeInv
<1>10. BlockStands'
  BY <1>1, <1>2, <1>3, <1>6 DEF IInv, BlockStands, Blocked
<1> QED
  BY <1>5, <1>7, <1>8, <1>9, <1>10 DEF IInv

\* The end of a refresh resumes its waiters; none of them ends in that step.
LEMMA ResumeStep ==
  ASSUME IInv, NEW a \in Accounts, NEW as \in {"read", "unread"}, Resume(a, as)
  PROVE  /\ phase' \in [Requests -> {"new", "sent", "waiting", "read", "unread", "done"}]
         /\ inflight' \in [Accounts -> BOOLEAN]
         /\ UNCHANGED <<now, target, error, fell, lastRefresh, strikes, recent>>
         /\ FellInv'
<1>1. phase' \in [Requests -> {"new", "sent", "waiting", "read", "unread", "done"}]
  BY DEF Resume, IInv, TypeOK
<1>2. \A r \in Requests : phase[r] = "done" => phase'[r] = "done"
  BY DEF Resume, IInv, TypeOK
<1>3. UNCHANGED <<now, target, error, fell, lastRefresh, strikes, recent>>
  BY DEF Resume
<1>4. FellInv'
  BY <1>2, <1>3 DEF IInv, FellInv
<1>5. inflight' \in [Accounts -> BOOLEAN]
  BY DEF Resume, IInv, TypeOK
<1> QED
  BY <1>1, <1>3, <1>4, <1>5

\* A quota call that fails writes nothing the invariants speak of.
LEMMA RefreshFailsStep ==
  ASSUME IInv, NEW a \in Accounts, RefreshFails(a)
  PROVE  IInv'
<1>1. Resume(a, "unread") /\ UNCHANGED <<cache, blocks, cycle>>
  BY DEF RefreshFails
<1>2. /\ phase' \in [Requests -> {"new", "sent", "waiting", "read", "unread", "done"}]
      /\ inflight' \in [Accounts -> BOOLEAN]
      /\ UNCHANGED <<now, target, error, fell, lastRefresh, strikes, recent>>
      /\ FellInv'
  BY <1>1, ResumeStep
<1> QED
  BY <1>1, <1>2 DEF IInv, TypeOK, ZedInv, StrikeInv, BlockStands, Blocked

\* A snapshot is overridden where a block still stands, whatever it reports.
LEMMA AntigravityRefreshedStep ==
  ASSUME IInv, NEW a \in Accounts, AntigravityRefreshed(a)
  PROVE  IInv'
<1>0. now \in Nat /\ blocks \in [Keys -> Nat] /\ a \in Antigravity
  BY DEF IInv, TypeOK, AntigravityRefreshed
<1>1. Resume(a, "read") /\ UNCHANGED cycle
  BY DEF AntigravityRefreshed
<1>2. /\ phase' \in [Requests -> {"new", "sent", "waiting", "read", "unread", "done"}]
      /\ inflight' \in [Accounts -> BOOLEAN]
      /\ UNCHANGED <<now, target, error, fell, lastRefresh, strikes, recent>>
      /\ FellInv'
  BY <1>1, ResumeStep
<1>3. PICK snapshot \in [Models -> Reported] :
        cache' = [k \in Keys |-> IF k[1] = a THEN ApplyActiveStrikeBlocks(snapshot, a)[k[2]]
                                 ELSE cache[k]]
  BY DEF AntigravityRefreshed
<1>4. \A k \in Keys : k[1] = a =>
        cache'[k] = IF blocks[k] > now THEN Reading(0, blocks[k]) ELSE snapshot[k[2]]
  BY <1>3 DEF ApplyActiveStrikeBlocks, Keys
<1>5. \A k \in Keys : k[1] # a => cache'[k] = cache[k]
  BY <1>3
<1>6. blocks' = [k \in Keys |-> IF k[1] = a /\ blocks[k] <= now THEN 0 ELSE blocks[k]]
  BY DEF AntigravityRefreshed
<1>7. \A k \in Keys : cache'[k] \in Readings
  <2> SUFFICES ASSUME NEW k \in Keys PROVE cache'[k] \in Readings
    OBVIOUS
  <2>1. k[2] \in Models
    BY DEF Keys
  <2>2. snapshot[k[2]] \in Readings
    BY <1>0, <2>1, ReadingType DEF Reported
  <2>3. Reading(0, blocks[k]) \in Readings
    BY <1>0, ReadingType
  <2> QED
    BY <1>4, <1>5, <2>2, <2>3 DEF IInv, TypeOK
<1>8. cache' \in [Keys -> Readings]
  BY <1>3, <1>7
<1>9. TypeOK'
  BY <1>0, <1>1, <1>2, <1>6, <1>8 DEF IInv, TypeOK
<1>10. ZedInv'
  BY <1>0, <1>5, <1>6 DEF IInv, ZedInv
<1>11. BlockStands'
  <2> SUFFICES ASSUME NEW k \in Keys, blocks'[k] > now'
               PROVE  Blocked(k)' /\ cache'[k].resetAt = blocks'[k]
    BY DEF BlockStands
  <2>1. blocks'[k] = blocks[k] /\ blocks[k] > now
    BY <1>0, <1>2, <1>6
  <2>2. CASE k[1] = a
    <3>1. cache'[k] = Reading(0, blocks[k])
      BY <1>4, <2>1, <2>2
    <3>2. cache'[k].known /\ cache'[k].left = 0 /\ cache'[k].resetAt = blocks[k]
      BY <1>0, <3>1, ReadingType
    <3> QED
      BY <1>2, <2>1, <3>2 DEF Blocked
  <2>3. CASE k[1] # a
    BY <1>2, <1>5, <2>1, <2>3 DEF IInv, BlockStands, Blocked
  <2> QED
    BY <2>2, <2>3
<1>12. StrikeInv'
  BY <1>2 DEF IInv, StrikeInv
<1> QED
  BY <1>2, <1>9, <1>10, <1>11, <1>12 DEF IInv

\* Zed's readings change; a Zed account has no strike block.
LEMMA ZedRefreshedStep ==
  ASSUME IInv, NEW a \in Accounts, ZedRefreshed(a)
  PROVE  IInv'
<1>0. now \in Nat /\ a \notin Antigravity /\ UNCHANGED blocks
  BY DEF IInv, TypeOK, ZedRefreshed
<1>1. Resume(a, "read")
  BY DEF ZedRefreshed
<1>2. /\ phase' \in [Requests -> {"new", "sent", "waiting", "read", "unread", "done"}]
      /\ inflight' \in [Accounts -> BOOLEAN]
      /\ UNCHANGED <<now, target, error, fell, lastRefresh, strikes, recent>>
      /\ FellInv'
  BY <1>1, ResumeStep
<1>3. PICK ends \in {0, now, now + 2}, exhausted \in BOOLEAN :
        /\ cycle' = [cycle EXCEPT ![a] = ends]
        /\ cache' = [k \in Keys |->
             IF k[1] # a THEN cache[k]
             ELSE IF exhausted /\ ends > now THEN Reading(0, ends) ELSE None]
  BY DEF ZedRefreshed
<1>4. ends \in Nat
  BY <1>0, <1>3
<1>5. Reading(0, ends) \in Readings /\ None \in Readings
      /\ Reading(0, ends).known /\ Reading(0, ends).left = 0
  BY <1>4 DEF Reading, None, Readings
<1>6. \A k \in Keys :
        /\ k[1] # a => cache'[k] = cache[k]
        /\ k[1] = a => cache'[k] \in {Reading(0, ends), None}
  BY <1>3
<1>7. TypeOK'
  <2>1. cache' \in [Keys -> Readings]
    BY <1>3, <1>5 DEF IInv, TypeOK
  <2>2. cycle' \in [Accounts -> Nat]
    BY <1>3, <1>4 DEF IInv, TypeOK
  <2> QED
    BY <1>0, <1>2, <2>1, <2>2 DEF IInv, TypeOK
<1>8. ZedInv'
  BY <1>0, <1>5, <1>6 DEF IInv, ZedInv
<1>9. BlockStands'
  <2> SUFFICES ASSUME NEW k \in Keys, blocks'[k] > now'
               PROVE  Blocked(k)' /\ cache'[k].resetAt = blocks'[k]
    BY DEF BlockStands
  <2>1. k[1] # a
    BY <1>0, <1>2 DEF IInv, ZedInv
  <2> QED
    BY <1>0, <1>2, <1>6, <2>1 DEF IInv, BlockStands, Blocked
<1>10. StrikeInv'
  BY <1>2 DEF IInv, StrikeInv
<1> QED
  BY <1>2, <1>7, <1>8, <1>9, <1>10 DEF IInv

\* A request that decides is done, with the reset it falls back with.
LEMMA DecideStep ==
  ASSUME IInv, NEW r \in Requests, NEW reset \in Nat, Decide(r, reset)
  PROVE  /\ phase' \in [Requests -> {"new", "sent", "waiting", "read", "unread", "done"}]
         /\ fell' \in [Requests -> Nat] /\ FellInv'
         /\ UNCHANGED <<now, target, error, lastRefresh, inflight>>
<1>1. /\ phase' = [phase EXCEPT ![r] = "done"] /\ fell' = [fell EXCEPT ![r] = reset]
      /\ UNCHANGED <<now, target, error, lastRefresh, inflight>>
  BY DEF Decide
<1>2. /\ phase' \in [Requests -> {"new", "sent", "waiting", "read", "unread", "done"}]
      /\ fell' \in [Requests -> Nat]
  BY <1>1 DEF IInv, TypeOK
<1>3. FellInv'
  BY <1>1 DEF IInv, FellInv, TypeOK
<1> QED
  BY <1>1, <1>2, <1>3

\* A strike keeps the invariant: the run of strikes is counted, or ended by a block.
LEMMA HandleStrikeStep ==
  ASSUME IInv, NEW r \in Requests, NEW k \in Keys, k[1] \in Antigravity,
         Strike(r, k), Note(k, "strike"), cycle' = cycle
  PROVE  IInv'
<1> DEFINE old == strikes[k]
           same == old.count > 0 /\ now - old.windowStart <= StrikeWindow
           count == IF same THEN old.count + 1 ELSE 1
           start == IF same THEN old.windowStart ELSE now
<1>0. TypeOK /\ StrikeInv
  BY DEF IInv
<1>1. /\ old.count \in 0 .. StrikeThreshold - 1 /\ old.windowStart \in 0 .. MaxTime
      /\ now \in 1 .. MaxTime /\ now \in Nat /\ now + StrikeBlock \in Nat
      /\ StrikeThreshold \in Nat \ {0} /\ StrikeBlock \in Nat \ {0}
  BY Bounds DEF IInv, TypeOK
<1>2. \/ /\ count = StrikeThreshold
         /\ strikes' = [strikes EXCEPT ![k] = NoStrikes]
         /\ blocks' = [blocks EXCEPT ![k] = now + StrikeBlock]
         /\ cache' = [cache EXCEPT ![k] = Reading(0, now + StrikeBlock)]
         /\ Decide(r, now + StrikeBlock)
      \/ /\ count < StrikeThreshold
         /\ strikes' = [strikes EXCEPT ![k] = [count |-> count, windowStart |-> start]]
         /\ blocks' = blocks /\ cache' = cache /\ Decide(r, 0)
  BY <1>0, StrikeStep
<1>3. /\ phase' \in [Requests -> {"new", "sent", "waiting", "read", "unread", "done"}]
      /\ fell' \in [Requests -> Nat] /\ FellInv'
      /\ UNCHANGED <<now, target, error, lastRefresh, inflight>>
  BY <1>1, <1>2, DecideStep
<1>4. /\ recent' \in [Keys -> Seq(Verdicts)]
      /\ \A h \in Keys : h # k => recent'[h] = recent[h]
      /\ Len(recent'[k]) <= StrikeThreshold
      /\ Len(recent'[k]) = IF Len(recent[k]) = StrikeThreshold THEN StrikeThreshold
                           ELSE Len(recent[k]) + 1
      /\ FromEnd(recent'[k], 0) = [what |-> "strike", at |-> now]
      /\ \A j \in 1 .. Len(recent'[k]) - 1 : FromEnd(recent'[k], j) = FromEnd(recent[k], j - 1)
  BY <1>0, NoteStep
<1>5. /\ old.count <= Len(recent[k]) /\ Len(recent[k]) \in Nat
      /\ Len(recent'[k]) \in Nat
      /\ \A j \in 0 .. old.count - 1 : FromEnd(recent[k], j).what = "strike"
      /\ old.count > 0 => FromEnd(recent[k], old.count - 1).at = old.windowStart
  BY <1>4 DEF IInv, StrikeInv, TypeOK
<1>6. /\ count \in 1 .. StrikeThreshold /\ start \in 0 .. MaxTime
      /\ count = 1 \/ (count = old.count + 1 /\ start = old.windowStart)
      /\ old.count = 0 => start = now
      /\ count = 1 /\ old.count > 0 => start = now
  BY <1>1
<1> HIDE DEF old, same, count, start
<1>7. CASE count = StrikeThreshold /\ strikes' = [strikes EXCEPT ![k] = NoStrikes]
           /\ blocks' = [blocks EXCEPT ![k] = now + StrikeBlock]
           /\ cache' = [cache EXCEPT ![k] = Reading(0, now + StrikeBlock)]
  <2>1. Reading(0, now + StrikeBlock) \in Readings /\ 0 \in 0 .. 1
    BY <1>1, ReadingType
  <2>2. cache' \in [Keys -> Readings] /\ blocks' \in [Keys -> Nat]
    BY <1>0, <1>1, <1>7, <2>1 DEF TypeOK
  <2>3. strikes' \in [Keys -> [count : 0 .. StrikeThreshold - 1, windowStart : 0 .. MaxTime]]
    BY <1>0, <1>1, <1>7, Bounds DEF TypeOK, NoStrikes
  <2>4. TypeOK'
    BY <1>0, <1>3, <1>4, <2>2, <2>3 DEF TypeOK, Verdicts
  <2>5. /\ \A h \in Keys : h # k => cache'[h] = cache[h] /\ blocks'[h] = blocks[h]
                                     /\ strikes'[h] = strikes[h]
        /\ blocks'[k] = now + StrikeBlock /\ strikes'[k].count = 0
        /\ cache'[k].known /\ cache'[k].left = 0 /\ cache'[k].resetAt = now + StrikeBlock
    BY <1>0, <1>1, <1>7, <2>1, ReadingType DEF TypeOK, NoStrikes
  <2>6. ZedInv'
    BY <2>5 DEF IInv, ZedInv
  <2>7. BlockStands'
    BY <1>1, <1>3, <2>5 DEF IInv, BlockStands, Blocked
  <2>8. StrikeInv'
    BY <1>4, <1>5, <2>5 DEF IInv, StrikeInv
  <2> QED
    BY <1>3, <2>4, <2>6, <2>7, <2>8 DEF IInv
<1>8. CASE /\ count < StrikeThreshold
           /\ strikes' = [strikes EXCEPT ![k] = [count |-> count, windowStart |-> start]]
           /\ blocks' = blocks /\ cache' = cache
  <2>1. strikes' \in [Keys -> [count : 0 .. StrikeThreshold - 1, windowStart : 0 .. MaxTime]]
    BY <1>0, <1>1, <1>6, <1>8 DEF TypeOK
  <2>2. TypeOK'
    BY <1>0, <1>3, <1>4, <1>8, <2>1 DEF TypeOK, Verdicts
  <2>3. ZedInv' /\ BlockStands'
    BY <1>3, <1>8 DEF IInv, ZedInv, BlockStands, Blocked
  <2>4. /\ \A h \in Keys : h # k => strikes'[h] = strikes[h]
        /\ strikes'[k].count = count /\ strikes'[k].windowStart = start
    BY <1>0, <1>8 DEF TypeOK
  <2>5. count <= Len(recent'[k])
    BY <1>1, <1>4, <1>5, <1>6
  <2>6. \A j \in 0 .. count - 1 : FromEnd(recent'[k], j).what = "strike"
    <3> SUFFICES ASSUME NEW j \in 0 .. count - 1
                 PROVE  FromEnd(recent'[k], j).what = "strike"
      OBVIOUS
    <3>1. CASE j = 0
      BY <1>4, <3>1
    <3>2. CASE j # 0
      <4>1. j - 1 \in 0 .. old.count - 1 /\ j \in 1 .. Len(recent'[k]) - 1
        BY <1>1, <1>5, <1>6, <2>5, <3>2
      <4> QED
        BY <1>4, <1>5, <4>1
    <3> QED
      BY <3>1, <3>2
  <2>7. FromEnd(recent'[k], count - 1).at = start
    <3>1. CASE count = 1
      BY <1>1, <1>4, <1>6, <3>1
    <3>2. CASE count # 1
      <4>1. count - 1 \in 1 .. Len(recent'[k]) - 1 /\ count - 2 = old.count - 1 /\ old.count > 0
        BY <1>1, <1>5, <1>6, <2>5, <3>2
      <4>2. FromEnd(recent'[k], count - 1) = FromEnd(recent[k], (count - 1) - 1)
        BY <1>4, <4>1
      <4>3. (count - 1) - 1 = old.count - 1
        BY <1>1, <1>6, <4>1
      <4> QED
        BY <1>5, <1>6, <3>2, <4>1, <4>2, <4>3
    <3> QED
      BY <3>1, <3>2
  <2>8. StrikeInv'
    BY <1>0, <1>4, <2>4, <2>5, <2>6, <2>7 DEF StrikeInv
  <2> QED
    BY <1>3, <2>2, <2>3, <2>8 DEF IInv
<1> QED
  BY <1>2, <1>7, <1>8

\* What HandleAntigravity does: a strike, or an exhausted reading that clears them.
LEMMA HandleAntigravityCases ==
  ASSUME NEW r \in Requests, HandleAntigravity(r)
  PROVE  LET k == target[r] IN
         /\ k[1] \in Antigravity /\ phase[r] \in {"read", "unread"} /\ cycle' = cycle
         /\ \/ Strike(r, k) /\ Note(k, "strike")
            \/ /\ cache[k].known /\ ~(cache[k].left > 0)
               /\ strikes' = [strikes EXCEPT ![k] = NoStrikes]
               /\ Note(k, "exhausted")
               /\ Decide(r, IF cache[k].resetAt > now THEN cache[k].resetAt ELSE 0)
               /\ UNCHANGED <<blocks, cache>>
<1> DEFINE k == target[r]
           quota == IF phase[r] = "read" THEN cache[k] ELSE None
<1>1. CASE ~quota.known \/ quota.left > 0
  BY <1>1 DEF HandleAntigravity
<1>2. CASE ~(~quota.known \/ quota.left > 0)
  <2>1. quota = cache[k]
    BY <1>2 DEF None
  <2> QED
    BY <1>2, <2>1 DEF HandleAntigravity
<1> QED
  BY <1>1, <1>2

\* A strike is counted with the verdict that records it, and the one that reaches the
\* threshold starts over with a block.
LEMMA HandleAntigravityStep ==
  ASSUME IInv, NEW r \in Requests, HandleAntigravity(r)
  PROVE  IInv'
<1> DEFINE k == target[r]
           reset == IF cache[k].resetAt > now THEN cache[k].resetAt ELSE 0
<1>0. TypeOK /\ StrikeInv
  BY DEF IInv
<1>1. k \in Keys
  BY <1>0, TargetType
<1>2. k[1] \in Antigravity /\ cycle' = cycle
  BY HandleAntigravityCases
<1>3. CASE Strike(r, k) /\ Note(k, "strike")
  BY <1>1, <1>2, <1>3, HandleStrikeStep
<1>4. CASE /\ strikes' = [strikes EXCEPT ![k] = NoStrikes]
           /\ Note(k, "exhausted") /\ Decide(r, reset) /\ UNCHANGED <<blocks, cache>>
  <2>1. reset \in Nat
    BY <1>0, <1>1 DEF TypeOK, Readings
  <2>2. /\ phase' \in [Requests -> {"new", "sent", "waiting", "read", "unread", "done"}]
        /\ fell' \in [Requests -> Nat] /\ FellInv'
        /\ UNCHANGED <<now, target, error, lastRefresh, inflight>>
    BY <1>4, <2>1, DecideStep
  <2>3. /\ recent' \in [Keys -> Seq(Verdicts)]
        /\ \A h \in Keys : h # k => recent'[h] = recent[h]
        /\ Len(recent'[k]) <= StrikeThreshold
    BY <1>0, <1>1, <1>4, NoteStep
  <2>4. strikes' \in [Keys -> [count : 0 .. StrikeThreshold - 1, windowStart : 0 .. MaxTime]]
    <3>1. 0 \in 0 .. StrikeThreshold - 1 /\ 0 \in 0 .. MaxTime
      BY Bounds
    <3> QED
      BY <1>0, <1>4, <3>1 DEF TypeOK, NoStrikes
  <2>5. TypeOK'
    BY <1>0, <1>2, <1>4, <2>2, <2>3, <2>4 DEF TypeOK, Verdicts
  <2>6. ZedInv' /\ BlockStands'
    BY <1>4, <2>2 DEF IInv, ZedInv, BlockStands, Blocked
  <2>7. StrikeInv'
    <3>1. strikes'[k].count = 0 /\ \A h \in Keys : h # k => strikes'[h] = strikes[h]
      BY <1>0, <1>1, <1>4 DEF TypeOK, NoStrikes
    <3>2. Len(recent'[k]) \in Nat
      BY <1>1, <2>3
    <3> QED
      BY <1>0, <2>3, <3>1, <3>2 DEF StrikeInv
  <2> QED
    BY <2>2, <2>5, <2>6, <2>7 DEF IInv
<1> QED
  BY <1>3, <1>4, HandleAntigravityCases

\* A Zed error goes by the end of the billing cycle or by the cached block; either way a
\* reset to come is that of an exhausted reading in the cache.
LEMMA HandleZedCases ==
  ASSUME IInv, NEW r \in Requests, HandleZed(r)
  PROVE  LET k == target[r] IN
         \E ends \in Nat :
           /\ k \in Keys /\ k[1] \notin Antigravity
           /\ phase[r] \in {"read", "unread"}
           /\ cache' \in [Keys -> Readings] /\ cycle' \in [Accounts -> Nat]
           /\ \A h \in Keys : h # k => cache'[h] = cache[h]
           /\ cache'[k] = None \/ (cache'[k].known /\ cache'[k].left = 0)
           /\ ends > now =>
                cache'[k].known /\ cache'[k].left = 0 /\ cache'[k].resetAt = ends
           /\ Decide(r, IF ends > now THEN ends ELSE 0)
           /\ UNCHANGED <<strikes, blocks, recent>>
<1> DEFINE k == target[r]
           ends == IF error[r] = "spend" THEN cycle[k[1]] ELSE cache[k].resetAt
<1>0. TypeOK
  BY DEF IInv
<1>1. k \in Keys /\ k[1] \in Accounts /\ k[1] \notin Antigravity
      /\ phase[r] \in {"read", "unread"}
  BY <1>0, TargetType DEF HandleZed
<1>2. cache[k] = None \/ (cache[k].known /\ cache[k].left = 0)
  BY <1>1 DEF IInv, ZedInv
<1>3. ends \in Nat /\ now \in Nat
  BY <1>0, <1>1 DEF TypeOK, Readings
<1>4. Reading(0, ends) \in Readings /\ Reading(0, ends).known /\ Reading(0, ends).left = 0
      /\ Reading(0, ends).resetAt = ends /\ None \in Readings /\ None.resetAt = 0
  BY <1>3, ReadingType DEF None
<1>5. /\ cache' = [cache EXCEPT ![k] =
            IF error[r] = "spend" THEN (IF ends > now THEN Reading(0, ends) ELSE @)
            ELSE IF ends > now THEN @ ELSE None]
      /\ cycle' = [cycle EXCEPT ![k[1]] = IF error[r] = "spend" /\ @ <= now THEN 0 ELSE @]
      /\ Decide(r, IF ends > now THEN ends ELSE 0)
      /\ UNCHANGED <<strikes, blocks, recent>>
  BY DEF HandleZed
<1>6. cycle' \in [Accounts -> Nat]
  BY <1>0, <1>1, <1>5 DEF TypeOK
<1>7. error[r] # "spend" => ends = cache[k].resetAt
  OBVIOUS
<1> HIDE DEF ends, k
<1>8. /\ \A h \in Keys : h # k => cache'[h] = cache[h]
      /\ cache'[k] = IF error[r] = "spend" THEN (IF ends > now THEN Reading(0, ends) ELSE cache[k])
                     ELSE IF ends > now THEN cache[k] ELSE None
  BY <1>0, <1>1, <1>5 DEF TypeOK
<1>9. cache' \in [Keys -> Readings]
  BY <1>0, <1>1, <1>4, <1>5 DEF TypeOK
<1>10. cache'[k] = None \/ (cache'[k].known /\ cache'[k].left = 0)
  BY <1>2, <1>4, <1>8
<1>11. ends > now => cache'[k].known /\ cache'[k].left = 0 /\ cache'[k].resetAt = ends
  BY <1>2, <1>3, <1>4, <1>7, <1>8
<1> QED
  BY <1>1, <1>3, <1>5, <1>6, <1>8, <1>9, <1>10, <1>11 DEF k

\* Zed's handler writes the reading of its own account only.
LEMMA HandleZedStep ==
  ASSUME IInv, NEW r \in Requests, HandleZed(r)
  PROVE  IInv'
<1> DEFINE k == target[r]
<1>1. PICK ends \in Nat :
        /\ k \in Keys /\ k[1] \notin Antigravity
        /\ cache' \in [Keys -> Readings] /\ cycle' \in [Accounts -> Nat]
        /\ \A h \in Keys : h # k => cache'[h] = cache[h]
        /\ cache'[k] = None \/ (cache'[k].known /\ cache'[k].left = 0)
        /\ Decide(r, IF ends > now THEN ends ELSE 0)
        /\ UNCHANGED <<strikes, blocks, recent>>
  BY HandleZedCases
<1> HIDE DEF k
<1>2. (IF ends > now THEN ends ELSE 0) \in Nat
  OBVIOUS
<1>3. /\ phase' \in [Requests -> {"new", "sent", "waiting", "read", "unread", "done"}]
      /\ fell' \in [Requests -> Nat] /\ FellInv'
      /\ UNCHANGED <<now, target, error, lastRefresh, inflight>>
  BY <1>1, <1>2, DecideStep
<1>4. TypeOK'
  BY <1>1, <1>3 DEF IInv, TypeOK
<1>5. ZedInv'
  BY <1>1 DEF IInv, ZedInv
<1>6. BlockStands'
  <2> SUFFICES ASSUME NEW h \in Keys, blocks'[h] > now'
               PROVE  Blocked(h)' /\ cache'[h].resetAt = blocks'[h]
    BY DEF BlockStands
  <2>1. now \in Nat
    BY DEF IInv, TypeOK
  <2>2. h # k
    BY <1>1, <1>3, <2>1 DEF IInv, ZedInv
  <2> QED
    BY <1>1, <1>3, <2>2 DEF IInv, BlockStands, Blocked
<1>7. StrikeInv'
  BY <1>1 DEF IInv, StrikeInv
<1> QED
  BY <1>3, <1>4, <1>5, <1>6, <1>7 DEF IInv

\* Time ends blocks, it makes none.
LEMMA TickStep ==
  ASSUME IInv, Tick
  PROVE  IInv'
<1>1. /\ now' = now + 1 /\ now' \in 1 .. MaxTime /\ now \in Nat
      /\ UNCHANGED <<target, phase, error, fell, cache, lastRefresh, inflight, strikes,
                     blocks, cycle, recent>>
  BY Bounds DEF Tick, IInv, TypeOK
<1>2. TypeOK' /\ ZedInv' /\ FellInv' /\ StrikeInv'
  BY <1>1 DEF IInv, TypeOK, ZedInv, FellInv, StrikeInv
<1>3. BlockStands'
  <2> SUFFICES ASSUME NEW k \in Keys, blocks'[k] > now'
               PROVE  Blocked(k)' /\ cache'[k].resetAt = blocks'[k]
    BY DEF BlockStands
  <2>1. blocks'[k] = blocks[k] /\ blocks[k] > now /\ cache' = cache
    BY <1>1 DEF IInv, TypeOK
  <2> QED
    BY <1>1, <2>1 DEF IInv, BlockStands, Blocked
<1> QED
  BY <1>2, <1>3 DEF IInv

-----------------------------------------------------------------------------
(* The invariant, and the theorems.                                         *)

\* The inductive invariant holds initially.
LEMMA InitIInv == Init => IInv
<1> SUFFICES ASSUME Init PROVE IInv
  OBVIOUS
<1>0. now \in 1 .. MaxTime /\ 0 \in 0 .. MaxTime /\ 0 \in 0 .. StrikeThreshold - 1
      /\ target \in [Requests -> Keys] /\ StrikeThreshold \in Nat
  BY Bounds DEF Init
<1>1. TypeOK
  BY <1>0, ReadingType DEF Init, TypeOK, NoStrikes
<1>2. ZedInv /\ FellInv
  BY DEF Init, ZedInv, FellInv
<1>3. StrikeInv
  BY <1>0 DEF Init, StrikeInv, NoStrikes
<1>4. BlockStands
  BY DEF Init, BlockStands
<1> QED
  BY <1>1, <1>2, <1>3, <1>4 DEF IInv

\* Every step keeps it.
LEMMA Inductive == IInv /\ [Next]_vars => IInv'
<1> SUFFICES ASSUME IInv, [Next]_vars PROVE IInv'
  OBVIOUS
<1>1. ASSUME NEW r \in Requests,
             Attempt(r) \/ Succeed(r) \/ Fail(r) \/ HandleAntigravity(r) \/ HandleZed(r)
      PROVE  IInv'
  BY <1>1, AttemptFailStep, SucceedStep, HandleAntigravityStep, HandleZedStep
<1>2. ASSUME NEW a \in Accounts, RefreshFails(a) \/ AntigravityRefreshed(a) \/ ZedRefreshed(a)
      PROVE  IInv'
  BY <1>2, RefreshFailsStep, AntigravityRefreshedStep, ZedRefreshedStep
<1>3. CASE Tick
  BY <1>3, TickStep
<1>4. CASE UNCHANGED vars
  BY <1>4 DEF vars, IInv, TypeOK, ZedInv, FellInv, StrikeInv, BlockStands, Blocked
<1> QED
  BY <1>1, <1>2, <1>3, <1>4 DEF Next

\* Every variable stays in its type; no pair ever holds StrikeThreshold strikes.
THEOREM TypeCorrect == Spec => []TypeOK
<1>1. IInv => TypeOK
  BY DEF IInv
<1> QED
  BY InitIInv, Inductive, <1>1, PTL DEF Spec

\* While a strike block stands the selection skips the pair, whatever refreshes report.
THEOREM BlocksStand == Spec => []BlockStands
<1>1. IInv => BlockStands
  BY DEF IInv
<1> QED
  BY InitIInv, Inductive, <1>1, PTL DEF Spec

\* An account's quota is asked for once per interval, however many requests fail.
THEOREM QuotaCallsThrottled == Spec => ThrottledQuotaCalls
<1> DEFINE Slow == \A a \in Accounts :
             ~inflight[a] /\ inflight'[a] =>
               /\ lastRefresh'[a] = now
               /\ lastRefresh[a] # 0 => now - lastRefresh[a] >= RefreshInterval
<1>1. IInv /\ [Next]_vars => Slow
  <2> SUFFICES ASSUME IInv, [Next]_vars, NEW a \in Accounts, ~inflight[a], inflight'[a]
               PROVE  /\ lastRefresh'[a] = now
                      /\ lastRefresh[a] # 0 => now - lastRefresh[a] >= RefreshInterval
    OBVIOUS
  <2>0. TypeOK
    BY DEF IInv
  <2>1. ASSUME NEW r \in Requests, Fail(r)
        PROVE  /\ lastRefresh'[a] = now
               /\ lastRefresh[a] # 0 => now - lastRefresh[a] >= RefreshInterval
    <3> DEFINE b == target[r][1]
    <3>1. b \in Accounts
      BY <2>0, TargetType
    <3>2. ~(inflight[b] \/ Throttled(b))
      BY <2>1 DEF Fail
    <3>3. /\ inflight' = [inflight EXCEPT ![b] = TRUE]
          /\ lastRefresh' = [lastRefresh EXCEPT ![b] = now]
      BY <2>1, <3>2 DEF Fail
    <3> HIDE DEF b
    <3>4. b = a
      BY <2>0, <3>1, <3>3 DEF TypeOK
    <3>5. now \in Int /\ lastRefresh[a] \in Int /\ RefreshInterval \in Int
      BY Bounds DEF IInv, TypeOK
    <3> QED
      BY <2>0, <3>2, <3>3, <3>4, <3>5 DEF TypeOK, Throttled
  <2>2. ASSUME NEW r \in Requests,
               Attempt(r) \/ Succeed(r) \/ HandleAntigravity(r) \/ HandleZed(r)
        PROVE  FALSE
    BY <2>2 DEF Attempt, Succeed, HandleAntigravity, HandleZed, Strike, Decide
  <2>3. ASSUME NEW b \in Accounts, RefreshFails(b) \/ AntigravityRefreshed(b) \/ ZedRefreshed(b)
        PROVE  FALSE
    <3>1. inflight' = [inflight EXCEPT ![b] = FALSE]
      BY <2>3 DEF RefreshFails, AntigravityRefreshed, ZedRefreshed, Resume
    <3> QED
      BY <2>0, <3>1 DEF TypeOK
  <2>4. CASE Tick \/ UNCHANGED vars
    BY <2>4 DEF Tick, vars
  <2> QED
    BY <2>1, <2>2, <2>3, <2>4 DEF Next
<1>2. IInv /\ [Next]_vars => [Slow]_vars
  BY <1>1
<1> QED
  BY InitIInv, Inductive, <1>2, PTL DEF Spec, ThrottledQuotaCalls

\* The strike that blocks a pair is the last of StrikeThreshold in a row.
LEMMA BlockingStrike ==
  ASSUME IInv, NEW r \in Requests, NEW k \in Keys, Strike(r, k), Note(k, "strike"),
         NEW h \in Keys, blocks'[h] > blocks[h]
  PROVE  /\ Len(recent'[h]) = StrikeThreshold
         /\ \A i \in DOMAIN recent'[h] : recent'[h][i].what = "strike"
         /\ recent'[h][StrikeThreshold].at - recent'[h][1].at <= StrikeWindow
<1> DEFINE T == StrikeThreshold
           old == strikes[k]
           same == old.count > 0 /\ now - old.windowStart <= StrikeWindow
           count == IF same THEN old.count + 1 ELSE 1
<1>0. TypeOK /\ StrikeInv
  BY DEF IInv
<1>1. /\ old.count \in 0 .. T - 1 /\ old.windowStart \in Nat /\ now \in Nat
      /\ T \in Nat \ {0} /\ StrikeWindow \in Nat
  BY Bounds DEF IInv, TypeOK
<1>2. count = T /\ h = k
  <2>1. \/ count = T /\ blocks' = [blocks EXCEPT ![k] = now + StrikeBlock]
        \/ blocks' = blocks
    BY <1>0, StrikeStep
  <2>2. blocks[h] \in Nat
    BY <1>0 DEF TypeOK
  <2>3. ~(blocks' = blocks)
    BY <2>2
  <2> HIDE DEF count
  <2> QED
    BY <1>0, <2>1, <2>2, <2>3 DEF TypeOK
<1>3. /\ recent' \in [Keys -> Seq(Verdicts)]
      /\ Len(recent'[k]) = IF Len(recent[k]) = T THEN T ELSE Len(recent[k]) + 1
      /\ FromEnd(recent'[k], 0) = [what |-> "strike", at |-> now]
      /\ \A j \in 1 .. Len(recent'[k]) - 1 : FromEnd(recent'[k], j) = FromEnd(recent[k], j - 1)
  BY <1>0, NoteStep
<1>4. /\ old.count <= Len(recent[k]) /\ Len(recent[k]) \in Nat /\ Len(recent[k]) <= T
      /\ \A j \in 0 .. old.count - 1 : FromEnd(recent[k], j).what = "strike"
      /\ old.count > 0 => FromEnd(recent[k], old.count - 1).at = old.windowStart
  BY DEF IInv, StrikeInv, TypeOK
<1>5. /\ old.count = T - 1
      /\ T > 1 => now - old.windowStart <= StrikeWindow
  BY <1>1, <1>2
<1> HIDE DEF old, same, count, T
<1>6. Len(recent'[k]) = T
  BY <1>1, <1>3, <1>4, <1>5
<1>7. \A j \in 0 .. T - 1 :
        /\ FromEnd(recent'[k], j) = recent'[k][T - j]
        /\ FromEnd(recent'[k], j).what = "strike"
        /\ j = T - 1 => now - FromEnd(recent'[k], j).at <= StrikeWindow
  <2> SUFFICES ASSUME NEW j \in 0 .. T - 1
               PROVE  /\ FromEnd(recent'[k], j) = recent'[k][T - j]
                      /\ FromEnd(recent'[k], j).what = "strike"
                      /\ j = T - 1 => now - FromEnd(recent'[k], j).at <= StrikeWindow
    OBVIOUS
  <2>1. FromEnd(recent'[k], j) = recent'[k][T - j]
    BY <1>6 DEF FromEnd
  <2>2. CASE j = 0
    BY <1>1, <1>3, <2>1, <2>2
  <2>3. CASE j # 0
    <3>1. j \in 1 .. Len(recent'[k]) - 1 /\ j - 1 \in 0 .. old.count - 1
      BY <1>1, <1>5, <1>6, <2>3
    <3>2. FromEnd(recent'[k], j) = FromEnd(recent[k], j - 1)
      BY <1>3, <3>1
    <3>3. j = T - 1 => j - 1 = old.count - 1 /\ old.count > 0 /\ T > 1
      BY <1>1, <1>5, <2>3
    <3> QED
      BY <1>4, <1>5, <2>1, <3>1, <3>2, <3>3
  <2> QED
    BY <2>2, <2>3
<1>8. /\ \A i \in 1 .. T : T - i \in 0 .. T - 1 /\ T - (T - i) = i
      /\ 0 \in 0 .. T - 1 /\ T - 1 \in 0 .. T - 1 /\ T - 0 = T /\ T - (T - 1) = 1
  BY <1>1
<1>9. \A i \in 1 .. T : recent'[k][i].what = "strike"
  BY <1>7, <1>8
<1>10. recent'[k][T].at = now /\ now - recent'[k][1].at <= StrikeWindow
  BY <1>3, <1>7, <1>8
<1>11. DOMAIN recent'[k] = 1 .. T
  BY <1>3, <1>6
<1> QED
  BY <1>2, <1>6, <1>9, <1>10, <1>11 DEF T

\* A pair is blocked only by StrikeThreshold strikes in a row, the last within
\* StrikeWindow of the first, with no success and no exhausted reading among them.
THEOREM BlocksAreEarned == Spec => StrikesEarned
<1> DEFINE Earned == \A k \in Keys :
             blocks'[k] > blocks[k] =>
               /\ Len(recent'[k]) = StrikeThreshold
               /\ \A i \in DOMAIN recent'[k] : recent'[k][i].what = "strike"
               /\ recent'[k][StrikeThreshold].at - recent'[k][1].at <= StrikeWindow
<1>1. IInv /\ [Next]_vars => Earned
  <2> SUFFICES ASSUME IInv, [Next]_vars, NEW k \in Keys, blocks'[k] > blocks[k]
               PROVE  /\ Len(recent'[k]) = StrikeThreshold
                      /\ \A i \in DOMAIN recent'[k] : recent'[k][i].what = "strike"
                      /\ recent'[k][StrikeThreshold].at - recent'[k][1].at <= StrikeWindow
    OBVIOUS
  <2>0. TypeOK /\ blocks[k] \in Nat
    BY DEF IInv, TypeOK
  <2>1. ~(blocks' = blocks)
    BY <2>0
  <2>2. ASSUME NEW r \in Requests, HandleAntigravity(r)
        PROVE  Strike(r, target[r]) /\ Note(target[r], "strike") /\ target[r] \in Keys
    BY <2>0, <2>1, <2>2, TargetType, HandleAntigravityCases
  <2>3. ASSUME NEW r \in Requests, Succeed(r) PROVE FALSE
    <3>1. target[r] \in Keys /\ blocks' = [blocks EXCEPT ![target[r]] = 0]
      BY <2>0, <2>3, TargetType DEF Succeed
    <3> QED
      BY <2>0, <3>1 DEF TypeOK
  <2>4. ASSUME NEW r \in Requests, Attempt(r) \/ Fail(r) \/ HandleZed(r) PROVE FALSE
    BY <2>1, <2>4 DEF Attempt, Fail, HandleZed
  <2>5. ASSUME NEW a \in Accounts, RefreshFails(a) \/ AntigravityRefreshed(a) \/ ZedRefreshed(a)
        PROVE  FALSE
    <3>1. AntigravityRefreshed(a)
      BY <2>1, <2>5 DEF RefreshFails, ZedRefreshed
    <3>2. blocks' = [h \in Keys |-> IF h[1] = a /\ blocks[h] <= now THEN 0 ELSE blocks[h]]
      BY <3>1 DEF AntigravityRefreshed
    <3> QED
      BY <2>0, <3>2
  <2>6. CASE Tick \/ UNCHANGED vars
    BY <2>1, <2>6 DEF Tick, vars
  <2> QED
    BY <2>2, <2>3, <2>4, <2>5, <2>6, BlockingStrike DEF Next
<1>2. IInv /\ [Next]_vars => [Earned]_vars
  BY <1>1
<1> QED
  BY InitIInv, Inductive, <1>2, PTL DEF Spec, StrikesEarned

\* A request that falls back with a reset has its block in the cache the next selection
\* reads, until that reset.
THEOREM FallbacksRecorded == Spec => FallbackIsRecorded
<1> DEFINE Recorded == \A r \in Requests :
             fell'[r] # fell[r] => Blocked(target[r])' /\ cache'[target[r]].resetAt = fell'[r]
<1>1. IInv /\ [Next]_vars => Recorded
  <2> SUFFICES ASSUME IInv, [Next]_vars, NEW r \in Requests, fell'[r] # fell[r]
               PROVE  Blocked(target[r])' /\ cache'[target[r]].resetAt = fell'[r]
    OBVIOUS
  <2> DEFINE k == target[r]
  <2>0. TypeOK /\ k \in Keys /\ now \in Nat
    <3>1. TypeOK
      BY DEF IInv
    <3>2. now \in Nat
      BY <3>1 DEF TypeOK
    <3> QED
      BY <3>1, <3>2, TargetType
  \* who decides is r, it decides for a reset, and nothing else moves
  <2>1. ASSUME NEW q \in Requests, NEW reset \in Nat, Decide(q, reset),
               phase[q] \in {"read", "unread"}
        PROVE  q = r /\ fell'[r] = reset /\ reset # 0 /\ now' = now /\ target' = target
    <3>1. fell' = [fell EXCEPT ![q] = reset] /\ now' = now /\ target' = target
      BY <2>1 DEF Decide
    <3>2. q = r /\ fell'[r] = reset
      BY <2>0, <3>1 DEF TypeOK
    <3>3. fell[r] = 0
      BY <2>1, <3>2 DEF IInv, FellInv
    <3> QED
      BY <3>1, <3>2, <3>3
  <2>2. ASSUME NEW q \in Requests, HandleAntigravity(q)
        PROVE  Blocked(k)' /\ cache'[k].resetAt = fell'[r]
    <3> DEFINE h == target[q]
    <3>0. h \in Keys /\ phase[q] \in {"read", "unread"}
      BY <2>0, <2>2, TargetType, HandleAntigravityCases
    <3>1. CASE Strike(q, h)
      <4>1. \/ /\ cache' = [cache EXCEPT ![h] = Reading(0, now + StrikeBlock)]
               /\ Decide(q, now + StrikeBlock)
            \/ Decide(q, 0)
        BY <2>0, <3>0, <3>1, StrikeStep
      <4>2. now + StrikeBlock \in Nat /\ now + StrikeBlock > now
        BY <2>0, Bounds
      <4>3. ~Decide(q, 0)
        BY <2>1, <3>0
      <4>4. q = r /\ fell'[r] = now + StrikeBlock /\ now' = now /\ target' = target
        BY <2>1, <3>0, <4>1, <4>2, <4>3
      <4>5. cache'[k] = Reading(0, now + StrikeBlock)
        BY <2>0, <4>1, <4>3, <4>4 DEF TypeOK
      <4>6. cache'[k].known /\ cache'[k].left = 0 /\ cache'[k].resetAt = now + StrikeBlock
        BY <4>2, <4>5, ReadingType
      <4> QED
        BY <4>2, <4>4, <4>6 DEF Blocked
    <3>2. CASE /\ cache[h].known /\ ~(cache[h].left > 0) /\ cache' = cache
               /\ Decide(q, IF cache[h].resetAt > now THEN cache[h].resetAt ELSE 0)
      <4>1. cache[h].resetAt \in Nat /\ cache[h].left \in 0 .. 1
        BY <2>0, <3>0 DEF TypeOK, Readings
      <4>2. q = r /\ cache[h].resetAt > now /\ fell'[r] = cache[h].resetAt
            /\ now' = now /\ target' = target
        BY <2>1, <3>0, <3>2, <4>1
      <4>3. cache[h].left = 0
        BY <3>2, <4>1
      <4> QED
        BY <3>2, <4>2, <4>3 DEF Blocked
    <3> QED
      BY <2>2, <3>1, <3>2, HandleAntigravityCases
  <2>3. ASSUME NEW q \in Requests, HandleZed(q)
        PROVE  Blocked(k)' /\ cache'[k].resetAt = fell'[r]
    <3> DEFINE h == target[q]
    <3>1. PICK ends \in Nat :
            /\ phase[q] \in {"read", "unread"}
            /\ ends > now => cache'[h].known /\ cache'[h].left = 0 /\ cache'[h].resetAt = ends
            /\ Decide(q, IF ends > now THEN ends ELSE 0)
      BY <2>3, HandleZedCases
    <3>2. q = r /\ ends > now /\ fell'[r] = ends /\ now' = now /\ target' = target
      BY <2>1, <3>1
    <3> QED
      BY <3>1, <3>2 DEF Blocked
  <2>4. ASSUME NEW q \in Requests, Attempt(q) \/ Succeed(q) \/ Fail(q) PROVE FALSE
    BY <2>4 DEF Attempt, Succeed, Fail
  <2>5. ASSUME NEW a \in Accounts, RefreshFails(a) \/ AntigravityRefreshed(a) \/ ZedRefreshed(a)
        PROVE  FALSE
    BY <2>5 DEF RefreshFails, AntigravityRefreshed, ZedRefreshed, Resume
  <2>6. CASE Tick \/ UNCHANGED vars
    BY <2>6 DEF Tick, vars
  <2> QED
    BY <2>2, <2>3, <2>4, <2>5, <2>6 DEF Next
<1>2. IInv /\ [Next]_vars => [Recorded]_vars
  BY <1>1
<1> QED
  BY InitIInv, Inductive, <1>2, PTL DEF Spec, FallbackIsRecorded
=============================================================================
