------------------------ MODULE MCCredentialRefresh ------------------------
(***************************************************************************)
(* Small instances of CredentialRefresh.  The durations keep the order of   *)
(* the source's: retries after 1 s and 2 s fall within the 10 s of the      *)
(* reuse window, which the run outlives.                                    *)
(***************************************************************************)
EXTENDS CredentialRefresh, TLC

CONSTANTS r1, r2, r3

Symmetry == Permutations({r1, r2, r3} \cap Requests)
=============================================================================
