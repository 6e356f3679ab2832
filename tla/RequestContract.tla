-------------------------- MODULE RequestContract --------------------------
(***************************************************************************)
(* What the fallback loop promises the client of a request, whatever the    *)
(* locks, clocks and other requests do: accounts are used one at a time,    *)
(* each at most once, an account is given up only for the next selection,   *)
(* and the one answer is a success or an error of the account in use, or a  *)
(* refusal between two accounts that matches what was tried.                *)
(***************************************************************************)
CONSTANTS Requests, Connections, NoConn

VARIABLES tried, serving, outcome

vars == <<tried, serving, outcome>>

Init ==
  /\ tried = [r \in Requests |-> {}]
  /\ serving = [r \in Requests |-> NoConn]
  /\ outcome = [r \in Requests |-> "pending"]

\* An account not tried before is put to work for r.
Serve(r, c) ==
  /\ outcome[r] = "pending" /\ serving[r] = NoConn
  /\ c \notin tried[r]
  /\ serving' = [serving EXCEPT ![r] = c]
  /\ UNCHANGED <<tried, outcome>>

\* The account failed: it will not be used again for r.
FallOver(r) ==
  /\ serving[r] # NoConn
  /\ tried' = [tried EXCEPT ![r] = tried[r] \cup {serving[r]}]
  /\ serving' = [serving EXCEPT ![r] = NoConn]
  /\ UNCHANGED outcome

\* The account's result, a failure of its own or an exception ends the request.
AnswerFromAccount(r) ==
  /\ outcome[r] = "pending" /\ serving[r] # NoConn
  /\ \E o \in {"ok", "upstream_error", "thrown"} : outcome' = [outcome EXCEPT ![r] = o]
  /\ serving' = [serving EXCEPT ![r] = NoConn]
  /\ UNCHANGED tried

\* No account can be given: 404 before any attempt, the last error after one.
Refuse(r) ==
  /\ outcome[r] = "pending" /\ serving[r] = NoConn
  /\ \E o \in {"unavailable", "thrown",
               IF tried[r] = {} THEN "no_credentials" ELSE "exhausted"} :
       outcome' = [outcome EXCEPT ![r] = o]
  /\ UNCHANGED <<tried, serving>>

Next ==
  \E r \in Requests :
    \/ \E c \in Connections : Serve(r, c)
    \/ FallOver(r) \/ AnswerFromAccount(r) \/ Refuse(r)

Spec == Init /\ [][Next]_vars
=============================================================================
