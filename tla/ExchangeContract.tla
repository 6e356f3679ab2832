-------------------------- MODULE ExchangeContract --------------------------
(***************************************************************************)
(* What the provider's token endpoint sees of one account, whoever refreshes *)
(* it: one exchange at a time, of a refresh token that the program has, and  *)
(* none again within a window after its answer.  A newer token comes only    *)
(* from the exchange of the newest one.                                      *)
(***************************************************************************)
EXTENDS Integers

CONSTANTS
  Connections,
  Gens,      \* refresh tokens, by generation
  Window     \* how long an answer is reused

VARIABLES
  clock,
  onWire,      \* the tokens whose exchange runs, of each connection
  answeredAt,  \* when the provider last answered for a token
  newest       \* the newest token the program has received

vars == <<clock, onWire, answeredAt, newest>>

Unanswered == -1

Init ==
  /\ clock = 0
  /\ onWire = [c \in Connections |-> {}]
  /\ answeredAt = [c \in Connections |-> [g \in Gens |-> Unanswered]]
  /\ newest = [c \in Connections |-> 1]

\* A token is sent: one the program has, with no exchange under way.
Send(c, g) ==
  /\ onWire[c] = {} /\ g <= newest[c]
  /\ answeredAt[c][g] = Unanswered \/ clock - answeredAt[c][g] >= Window
  /\ onWire' = [onWire EXCEPT ![c] = {g}]
  /\ UNCHANGED <<clock, answeredAt, newest>>

\* The provider answers, or the connection breaks; the newest token may be replaced by
\* the next one.
End(c, g) ==
  /\ g \in onWire[c]
  /\ onWire' = [onWire EXCEPT ![c] = {}]
  /\ answeredAt' = [answeredAt EXCEPT ![c] = [@ EXCEPT ![g] = clock]]
  /\ \/ newest' = newest
     \/ g = newest[c] /\ newest' = [newest EXCEPT ![c] = g + 1]
  /\ UNCHANGED clock

Pass ==
  /\ clock' = clock + 1
  /\ UNCHANGED <<onWire, answeredAt, newest>>

Next ==
  \/ \E c \in Connections, g \in Gens : Send(c, g) \/ End(c, g)
  \/ Pass

Spec == Init /\ [][Next]_vars
=============================================================================
