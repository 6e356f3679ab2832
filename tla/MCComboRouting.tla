--------------------------- MODULE MCComboRouting ---------------------------
(***************************************************************************)
(* Small instances of ComboRouting: two slots of round-robin requests share  *)
(* the rotation, or one serves fallback requests or a fusion.                *)
(***************************************************************************)
EXTENDS ComboRouting, TLC

CONSTANTS r1, r2

Three == <<"a/one", "b/two", "c/three">>

\* All models have what is required, only the last has and the first lacks the most,
\* or all but the first have it.
MediaRanks ==
  {[m \in {"a/one", "b/two", "c/three"} |-> 0],
   [m \in {"a/one", "b/two", "c/three"} |->
      CASE m = "a/one" -> 2 [] m = "b/two" -> 1 [] m = "c/three" -> 0],
   [m \in {"a/one", "b/two", "c/three"} |-> IF m = "a/one" THEN 2 ELSE 0]}

RotatingOrFusing ==
  { [r \in Requests |-> "round-robin"],
    [r \in Requests |-> IF r = r1 THEN "fallback" ELSE "none"],
    [r \in Requests |-> IF r = r1 THEN "fusion" ELSE "none"] }
=============================================================================
