------------------------- MODULE MCStreamLifecycle -------------------------
(***************************************************************************)
(* The instance of StreamLifecycle that is checked: its constants are all   *)
(* plain values, given by the configuration.                                *)
(***************************************************************************)
EXTENDS StreamLifecycle
=============================================================================
