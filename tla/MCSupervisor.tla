---------------------------- MODULE MCSupervisor ----------------------------
(* Five children: one that ends, its successor, one that is spawned beside *)
(* it, one that fails and one more; three calls of Start.                  *)
EXTENDS Supervisor
=============================================================================
