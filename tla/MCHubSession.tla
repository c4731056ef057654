---------------------------- MODULE MCHubSession ----------------------------
(* Two selections, so one can be refused and repeated; three candidates,   *)
(* the least that blocks the Recv loop once the candidate goroutine ended. *)
EXTENDS HubSession
=============================================================================
