----------------------------- MODULE MCSettings -----------------------------
(* Two bitrates, one of them beyond what a selection accepts; a dialog and *)
(* two restarts, so that it can come before, during, between and after     *)
(* them, and one restart can reopen what the next one replaces.            *)
EXTENDS Settings
=============================================================================
