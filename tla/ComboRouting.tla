---------------------------- MODULE ComboRouting ----------------------------
(***************************************************************************)
(* Requests for one combo.  With "fallback" or "round-robin" its models are *)
(* called one after the other, round-robin requests starting where the      *)
(* shared rotation stands (handleComboChat).  With "fusion" all are called  *)
(* at once, the answers are collected until everybody has settled, a quorum *)
(* has waited out a grace period or the hard timeout strikes, and a judge   *)
(* gets them (handleFusionChat, collectPanel).                              *)
(***************************************************************************)
EXTENDS Integers, Sequences, FiniteSets

CONSTANTS
  Requests,      \* slots: each serves one request after the other
  Models,        \* the combo's models, in order
  StickyLimit,   \* comboStickyRoundRobinLimit
  MinPanel,      \* quorum of a fusion: fusionTuning.minPanel, at least 2
  Grace, HardTimeout,  \* stragglerGraceMs, panelHardTimeoutMs
  Tiers,         \* how the models can rank for what a request's media require: 0, they
                 \* have it all, 1, they lack a soft capability, 2, a hard one
  Workloads,     \* the strategies of the requests, [Requests -> Strategies]
  MaxLed,        \* bound on the round-robin requests between two resets
  MaxResets      \* bound on the saves of combo settings

Strategies == {"none", "fallback", "round-robin", "fusion"}
Positions  == DOMAIN Models
Names      == {Models[i] : i \in Positions}

ASSUME RoutingAssumption ==
  /\ Models \in Seq(STRING) /\ Len(Models) > 1
  /\ \A i, j \in Positions : Models[i] = Models[j] => i = j
  /\ StickyLimit \in Nat \ {0}
  /\ MinPanel \in 2 .. Len(Models)
  /\ Grace \in Nat \ {0} /\ HardTimeout \in Nat \ {0}
  /\ Tiers \subseteq [Names -> 0 .. 2]
  /\ Workloads \subseteq [Requests -> Strategies]
  /\ MaxLed \in Nat /\ MaxResets \in Nat

VARIABLES
  rotation,   \* comboRotationState of the combo: [index, uses]
  led,        \* round-robin requests since the last reset
  turn,       \* which of them a request is, 0: none
  ranks,      \* how the models rank for what its media require
  resets,
  strategy,   \* of each request
  phase,      \* where it is
  order,      \* rotatedModels
  position,   \* the index of its loop
  tried,      \* the models called one by one, in order
  result,     \* how it ended: an answer, the client's own error, all models failed
  panel,      \* what collectPanel's out array holds for each panel call
  counted,    \* successes collectPanel has counted
  hard, grace,  \* time left on its timers, 0: not armed
  closedWith, \* how the collection ended: [by, ok]
  answers,    \* the panel answers read so far
  atClose     \* panel as it was when the collection ended

shared       == <<rotation, led, turn, ranks, resets>>
fallbackVars == <<order, position>>
fusionVars   == <<panel, counted, hard, grace, closedWith, answers, atClose>>
vars == <<shared, strategy, phase, tried, result, fallbackVars, fusionVars>>

-----------------------------------------------------------------------------
\* How a single model's response reads to the combo: a success, a fallbackable
\* error, one the combo waits on first (500/502/503/504), a member that names no
\* model (400 "invalid model format"), an error that is the client's, an exception.
Outcomes == {"ok", "fallback", "transient", "invalid", "final", "throw"}

\* What a panel call can hold: an answer with text or without, an error response,
\* an exception, the timeout of withTimeout.
Settled == {"text", "empty", "error", "throw", "timeout"}

Rotated(models, index) ==
  [i \in DOMAIN models |-> models[((i - 1 + index) % Len(models)) + 1]]

Init ==
  /\ rotation = [index |-> 0, uses |-> 0] /\ led = 0 /\ resets = 0
  /\ turn = [r \in Requests |-> 0]
  /\ ranks = [r \in Requests |-> [m \in Names |-> 0]]
  /\ strategy \in Workloads
  /\ phase = [r \in Requests |-> "new"]
  /\ order = [r \in Requests |-> Models]
  /\ position = [r \in Requests |-> 1]
  /\ tried = [r \in Requests |-> <<>>]
  /\ result = [r \in Requests |-> "none"]
  /\ panel = [r \in Requests |-> [i \in Positions |-> "running"]]
  /\ counted = [r \in Requests |-> 0]
  /\ hard = [r \in Requests |-> 0] /\ grace = [r \in Requests |-> 0]
  /\ closedWith = [r \in Requests |-> [by |-> "none", ok |-> 0]]
  /\ answers = [r \in Requests |-> <<>>]
  /\ atClose = [r \in Requests |-> [i \in Positions |-> "running"]]

-----------------------------------------------------------------------------
(* handleComboChat *)

\* Mutant: the count of uses is not reset when the rotation moves on.
AdvanceUnreset(state) ==
  [index |-> IF state.uses + 1 >= StickyLimit THEN (state.index + 1) % Len(Models) ELSE state.index,
   uses  |-> state.uses + 1]

\* Mutant: the rotation moves on one use too late.
AdvanceLate(state) ==
  IF state.uses + 1 > StickyLimit
  THEN [index |-> (state.index + 1) % Len(Models), uses |-> 0]
  ELSE [state EXCEPT !.uses = @ + 1]

\* getRotatedModels moves the shared state on, StickyLimit requests per model.
Advance(state) ==
  IF state.uses + 1 >= StickyLimit
  THEN [index |-> (state.index + 1) % Len(Models), uses |-> 0]
  ELSE [state EXCEPT !.uses = @ + 1]

\* Mutant: the last of the models that rank alike comes first.
PreferringLast(models, tier) ==
  LET Before(i, j) == \/ tier[models[i]] < tier[models[j]]
                      \/ tier[models[i]] = tier[models[j]] /\ i > j
      sorted == {p \in [DOMAIN models -> DOMAIN models] :
                   \A j, k \in DOMAIN models : j < k => Before(p[j], p[k])}
  IN  {[k \in DOMAIN models |-> models[p[k]]] : p \in sorted}

\* reorderByCapabilities: the models sorted by tier, those of one tier in their order.
Preferring(models, tier) ==
  LET Before(i, j) == \/ tier[models[i]] < tier[models[j]]
                      \/ tier[models[i]] = tier[models[j]] /\ i < j
      sorted == {p \in [DOMAIN models -> DOMAIN models] :
                   \A j, k \in DOMAIN models : j < k => Before(p[j], p[k])}
  IN  {[k \in DOMAIN models |-> models[p[k]]] : p \in sorted}

\* The next request of the slot starts: the rotation moves on at once, and the models
\* that fit the request's media float to the front of its order.
StartCombo(r) ==
  /\ phase[r] \in {"new", "done"} /\ strategy[r] \in {"fallback", "round-robin"}
  /\ phase' = [phase EXCEPT ![r] = "trying"]
  /\ position' = [position EXCEPT ![r] = 1]
  /\ tried' = [tried EXCEPT ![r] = <<>>]
  /\ result' = [result EXCEPT ![r] = "none"]
  /\ LET inTurn  == strategy[r] = "round-robin"
         rotated == IF inTurn THEN Rotated(Models, rotation.index) ELSE Models
     IN  /\ \E tier \in Tiers : \E o \in Preferring(rotated, tier) :
              /\ order' = [order EXCEPT ![r] = o]
              /\ ranks' = [ranks EXCEPT ![r] = tier]
         /\ IF inTurn
            THEN /\ led < MaxLed /\ led' = led + 1
                 /\ turn' = [turn EXCEPT ![r] = led + 1]
                 /\ rotation' = Advance(rotation)
            ELSE UNCHANGED <<rotation, led, turn>>
  /\ UNCHANGED <<resets, strategy, fusionVars>>

\* Mutant: an invalid member ends the request.
AfterCallAborting(outcome) ==
  CASE outcome \in {"ok", "final", "invalid"} -> "done"
    [] outcome = "transient"                  -> "waiting"
    [] OTHER                                  -> "trying"

\* What the loop does next.
AfterCall(outcome) ==
  CASE outcome \in {"ok", "final"} -> "done"
    [] outcome = "transient"       -> "waiting"
    [] OTHER                       -> "trying"

\* The next model answers.
CallModel(r) ==
  /\ phase[r] = "trying" /\ position[r] <= Len(order[r])
  /\ \E o \in Outcomes :
       /\ phase' = [phase EXCEPT ![r] = AfterCall(o)]
       /\ result' = [result EXCEPT ![r] = IF AfterCall(o) = "done" THEN o ELSE @]
  /\ tried' = [tried EXCEPT ![r] = Append(@, order[r][position[r]])]
  /\ position' = [position EXCEPT ![r] = @ + 1]
  /\ UNCHANGED <<shared, strategy, order, fusionVars>>

\* The cooldown of a transient error has passed.
WaitOver(r) ==
  /\ phase[r] = "waiting"
  /\ phase' = [phase EXCEPT ![r] = "trying"]
  /\ UNCHANGED <<shared, strategy, tried, result, fallbackVars, fusionVars>>

\* All models failed.
Exhausted(r) ==
  /\ phase[r] = "trying" /\ position[r] > Len(order[r])
  /\ phase' = [phase EXCEPT ![r] = "done"]
  /\ result' = [result EXCEPT ![r] = "exhausted"]
  /\ UNCHANGED <<shared, strategy, tried, fallbackVars, fusionVars>>

\* Combo or strategy settings are saved: resetComboRotation.
ResetRotation ==
  /\ resets < MaxResets
  /\ resets' = resets + 1
  /\ rotation' = [index |-> 0, uses |-> 0]
  /\ led' = 0 /\ turn' = [r \in Requests |-> 0]
  /\ UNCHANGED <<ranks, strategy, phase, tried, result, fallbackVars, fusionVars>>

-----------------------------------------------------------------------------
(* handleFusionChat *)

\* Mutant: the collection has no timeout of its own and neither have the calls.
FanOutUnbounded(r) ==
  /\ phase[r] = "new" /\ strategy[r] = "fusion"
  /\ phase' = [phase EXCEPT ![r] = "collecting"]
  /\ UNCHANGED <<shared, strategy, tried, result, fallbackVars, fusionVars>>

\* The panel is called in parallel, each call and the collection under the same
\* hard timeout.
FanOut(r) ==
  /\ phase[r] = "new" /\ strategy[r] = "fusion"
  /\ phase' = [phase EXCEPT ![r] = "collecting"]
  /\ hard' = [hard EXCEPT ![r] = HardTimeout]
  /\ UNCHANGED <<shared, strategy, tried, result, fallbackVars, panel, counted, grace,
                 closedWith, answers, atClose>>

\* collectPanel resolves; its timers are cleared.
CloseCollection(r, by, held, ok) ==
  /\ phase' = [phase EXCEPT ![r] = "reading"]
  /\ hard' = [hard EXCEPT ![r] = 0] /\ grace' = [grace EXCEPT ![r] = 0]
  /\ closedWith' = [closedWith EXCEPT ![r] = [by |-> by, ok |-> ok]]
  /\ atClose' = [atClose EXCEPT ![r] = held]

\* Mutant: any settled call counts towards the quorum.
CountsAlways(status) == TRUE

\* out[i].ok: a 2xx response, with text or not.
Counts(status) == status \in {"text", "empty"}

\* A panel call settles during the collection: it is counted, the last one closes
\* the collection and the quorum starts the grace period, once.
PanelSettles(r, i) ==
  /\ phase[r] = "collecting" /\ panel[r][i] = "running"
  /\ \E status \in Settled \ {"timeout"} :
       LET held == [panel[r] EXCEPT ![i] = status]
           ok   == counted[r] + (IF Counts(status) THEN 1 ELSE 0)
       IN  /\ panel' = [panel EXCEPT ![r] = held]
           /\ counted' = [counted EXCEPT ![r] = ok]
           /\ IF \A j \in Positions : held[j] # "running"
              THEN CloseCollection(r, "all", held, ok)
              ELSE /\ grace' = [grace EXCEPT ![r] = IF ok >= MinPanel /\ @ = 0 THEN Grace ELSE @]
                   /\ UNCHANGED <<phase, hard, closedWith, atClose>>
  /\ UNCHANGED <<shared, strategy, tried, result, fallbackVars, answers>>

\* A straggler settles after the collection closed: it still lands in out, which
\* is being read.
StragglerSettles(r, i) ==
  /\ phase[r] = "reading" /\ panel[r][i] = "running"
  /\ \E status \in Settled : panel' = [panel EXCEPT ![r][i] = status]
  /\ UNCHANGED <<shared, strategy, phase, tried, result, fallbackVars, counted, hard,
                 grace, closedWith, answers, atClose>>

GraceOver(r) ==
  /\ grace[r] = 1
  /\ CloseCollection(r, "grace", panel[r], counted[r])
  /\ UNCHANGED <<shared, strategy, tried, result, fallbackVars, panel, counted, answers>>

\* The timers of withTimeout settle every call that still runs, and the last of
\* them closes the collection.
HardTimeoutStrikes(r) ==
  LET held == [i \in Positions |-> IF panel[r][i] = "running" THEN "timeout" ELSE panel[r][i]]
  IN  /\ hard[r] = 1
      /\ panel' = [panel EXCEPT ![r] = held]
      /\ CloseCollection(r, "timeout", held, counted[r])
      /\ UNCHANGED <<shared, strategy, tried, result, fallbackVars, counted, answers>>

\* Mutant: the reading stops at the first call that has not settled.
ReadUntilGap(r) ==
  /\ phase[r] = "reading" /\ position[r] \in Positions
  /\ IF panel[r][position[r]] = "text"
     THEN answers' = [answers EXCEPT ![r] = Append(@, position[r])]
     ELSE UNCHANGED answers
  /\ position' = [position EXCEPT ![r] =
       IF panel[r][@] = "running" THEN Len(Models) + 1 ELSE @ + 1]
  /\ UNCHANGED <<shared, strategy, phase, tried, result, order, panel, counted, hard,
                 grace, closedWith, atClose>>

\* The next entry of out is read; only a response with text is an answer.
ReadAnswer(r) ==
  /\ phase[r] = "reading" /\ position[r] \in Positions
  /\ IF panel[r][position[r]] = "text"
     THEN answers' = [answers EXCEPT ![r] = Append(@, position[r])]
     ELSE UNCHANGED answers
  /\ position' = [position EXCEPT ![r] = @ + 1]
  /\ UNCHANGED <<shared, strategy, phase, tried, result, order, panel, counted, hard,
                 grace, closedWith, atClose>>

\* No answer: 503.  One: that model is called again with the client's own body.
\* More: the judge, the first model unless the combo names one, gets them all.
Judge(r) ==
  /\ phase[r] = "reading" /\ position[r] > Len(Models)
  /\ phase' = [phase EXCEPT ![r] = "done"]
  /\ IF answers[r] = <<>>
     THEN result' = [result EXCEPT ![r] = "exhausted"] /\ UNCHANGED tried
     ELSE /\ tried' = [tried EXCEPT ![r] = Append(@,
               IF Len(answers[r]) = 1 THEN Models[answers[r][1]] ELSE Models[1])]
          /\ \E o \in {"ok", "final"} : result' = [result EXCEPT ![r] = o]
  /\ UNCHANGED <<shared, strategy, fallbackVars, fusionVars>>

-----------------------------------------------------------------------------
Less(t) == IF t > 1 THEN t - 1 ELSE t

\* Time passes up to the next timer that has to fire.
Tick ==
  /\ \A r \in Requests : hard[r] # 1 /\ grace[r] # 1
  /\ \E r \in Requests : hard[r] > 0
  /\ hard'  = [r \in Requests |-> Less(hard[r])]
  /\ grace' = [r \in Requests |-> Less(grace[r])]
  /\ UNCHANGED <<shared, strategy, phase, tried, result, fallbackVars, panel, counted,
                 closedWith, answers, atClose>>

\* The steps of the program itself, and the calls of the fallback loop, which end.
Proceed(r) == CallModel(r) \/ WaitOver(r) \/ Exhausted(r) \/ ReadAnswer(r) \/ Judge(r)

Timers == Tick \/ \E r \in Requests : GraceOver(r) \/ HardTimeoutStrikes(r)

Next ==
  \/ Timers \/ ResetRotation
  \/ \E r \in Requests :
       \/ StartCombo(r) \/ FanOut(r) \/ Proceed(r)
       \/ \E i \in Positions : PanelSettles(r, i) \/ StragglerSettles(r, i)

\* No further request need come and a panel call may hang forever; all else goes on.
Fairness == WF_vars(Timers) /\ \A r \in Requests : WF_vars(Proceed(r))

Spec == Init /\ [][Next]_vars /\ Fairness

-----------------------------------------------------------------------------
(* Properties *)

\* Every variable stays in its type.
TypeOK ==
  /\ rotation \in [index : 0 .. Len(Models) - 1, uses : 0 .. StickyLimit - 1]
  /\ led \in Nat /\ turn \in [Requests -> Nat]
  /\ ranks \in [Requests -> [Names -> 0 .. 2]]
  /\ resets \in 0 .. MaxResets
  /\ strategy \in [Requests -> Strategies]
  /\ phase \in [Requests -> {"new", "trying", "waiting", "collecting", "reading", "done"}]
  /\ order \in [Requests -> Seq(Names)]
  /\ position \in [Requests -> 1 .. Len(Models) + 1]
  /\ tried \in [Requests -> Seq(Names)]
  /\ result \in [Requests -> {"none", "ok", "invalid", "final", "exhausted"}]
  /\ panel \in [Requests -> [Positions -> Settled \cup {"running"}]]
  /\ counted \in [Requests -> 0 .. Len(Models)]
  /\ hard \in [Requests -> 0 .. HardTimeout] /\ grace \in [Requests -> 0 .. Grace]
  /\ closedWith \in [Requests -> [by : {"none", "all", "grace", "timeout"}, ok : 0 .. Len(Models)]]
  /\ answers \in [Requests -> Seq(Positions)]
  /\ atClose \in [Requests -> [Positions -> Settled \cup {"running"}]]

\* However round-robin requests overlap, the model that the n-th of them since the last
\* reset calls first is the next in the rotation, StickyLimit requests a turn, among
\* those that fit its media best: the one whose turn it is unless another fits better.
LeadsInTurn ==
  \A r \in Requests :
    turn[r] > 0 /\ tried[r] # <<>> =>
      LET due  == ((turn[r] - 1) \div StickyLimit) % Len(Models)
          from == Rotated(Models, due)
      IN  \E k \in Positions :
            /\ tried[r][1] = from[k]
            /\ \A j \in Positions : ranks[r][from[k]] <= ranks[r][from[j]]
            /\ \A j \in Positions : j < k => ranks[r][from[k]] < ranks[r][from[j]]

\* A combo answers with an error only when a model's error was the client's own,
\* or after every model was called, each once: no failing, waiting, invalid or
\* throwing member costs another its turn.
FailsOnlyWhenExhausted ==
  \A r \in Requests :
    phase[r] = "done" /\ strategy[r] \in {"fallback", "round-robin"} =>
      \/ result[r] \in {"ok", "final"}
      \/ /\ Len(tried[r]) = Len(Models)
         /\ \A i \in Positions : \E k \in DOMAIN tried[r] : tried[r][k] = Models[i]

\* A panel call is given up before the hard timeout only once MinPanel calls have
\* succeeded: errors, exceptions and late answers never start the grace period.
StragglersGetGrace ==
  \A r \in Requests :
    closedWith[r].by = "grace" =>
      Cardinality({i \in Positions : atClose[r][i] \in {"text", "empty"}}) >= MinPanel

\* The judge gets every answer that had arrived when the collection closed, each
\* once and in panel order, although late answers land in the array being read.
JudgeGetsEveryAnswer ==
  \A r \in Requests :
    strategy[r] = "fusion" /\ phase[r] = "done" =>
      /\ \A i \in Positions : atClose[r][i] = "text" => \E k \in DOMAIN answers[r] : answers[r][k] = i
      /\ \A j, k \in DOMAIN answers[r] : j < k => answers[r][j] < answers[r][k]

\* "absolute cap so one hung model can't stall forever": every request for the
\* combo ends, though panel calls may never settle.
RequestsEnd == \A r \in Requests : phase[r] # "new" ~> phase[r] = "done"
=============================================================================
