---------------------------- MODULE MCHidService ----------------------------
(* Three messages of one connection: two that race, and one that heals or  *)
(* shows the outcome.  Two pads, so that one can be connected twice and    *)
(* two can meet on the list.  Tasks of two connections meet on the keys    *)
(* and the mode as tasks of one do.                                        *)
EXTENDS HidService
=============================================================================
