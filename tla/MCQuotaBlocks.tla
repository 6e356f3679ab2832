--------------------------- MODULE MCQuotaBlocks ---------------------------
(***************************************************************************)
(* Small instances of QuotaBlocks: four requests of an Antigravity account,  *)
(* one of them for another model, or three of a Zed account.                 *)
(***************************************************************************)
EXTENDS QuotaBlocks, TLC

CONSTANTS r1, r2, r3, r4, g, z, m1, m2

OneAccount ==
  { [r \in Requests |-> <<g, IF r = r4 THEN m2 ELSE m1>>],
    [r \in Requests |-> <<g, m1>>],
    [r \in Requests |-> <<z, m1>>] }

Alike == Permutations({r1, r2, r3})
=============================================================================
