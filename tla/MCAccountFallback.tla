------------------------- MODULE MCAccountFallback -------------------------
(***************************************************************************)
(* Small instances of AccountFallback.  The durations keep the order of the *)
(* source's (5 s < 30 s < 120 s, backoff 2 s doubling to 300 s), scaled to  *)
(* a clock of a few ticks.                                                  *)
(***************************************************************************)
EXTENDS AccountFallback, TLC

CONSTANTS c1, c2, m1, m2, r1, r2, r3

MCPriority == (c1 :> 1) @@ (c2 :> 2)

Plain(status)            == [status |-> status, texts |-> {}, resetsIn |-> 0]
RateLimited              == [status |-> 429, texts |-> {"rate limit"}, resetsIn |-> 0]
UsageLimit(resetsIn)     == [status |-> 429, texts |-> {}, resetsIn |-> resetsIn]
MonthlyLimit             == [status |-> 402, texts |-> {MonthlyText}, resetsIn |-> 0]

\* A bad request, GitHub's monthly limit, a rate limit, a body without a status.
MixedErrors   == {Plain(400), MonthlyLimit, RateLimited, Plain(0)}
GitHubErrors  == {MonthlyLimit, RateLimited}
RateErrors    == {RateLimited}
\* A bad request, Codex's usage limit with its reset time, a body without a status.
AnswerErrors  == {Plain(400), UsageLimit(2), Plain(0)}

FreshTable  == [c \in Connections |-> FreshConn]
\* c1 was locked for m1 earlier and is still marked unavailable.
LockedTable == [FreshTable EXCEPT ![c1] = Locked(FreshConn, m1, 3, 1)]

FreshOnly     == {FreshTable}
FreshOrLocked == {FreshTable, LockedTable}

\* The dashboard disabled every account.
DisabledTable == [c \in Connections |-> [FreshConn EXCEPT !.active = FALSE]]
AnyTable      == {FreshTable, LockedTable, DisabledTable}

Symmetry == Permutations({r1, r2, r3} \cap Requests)
=============================================================================
