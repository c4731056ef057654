----------------------------- MODULE MCHidRelay -----------------------------
(* One failure is enough for a leftover watchdog, which then brings down   *)
(* live connections by itself.  One slot of the channel keeps the writer   *)
(* busy; the period of the watchdogs is the program's.                     *)
EXTENDS HidRelay
=============================================================================
