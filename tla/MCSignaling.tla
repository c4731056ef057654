----------------------------- MODULE MCSignaling -----------------------------
(* Three connections: a server of session 1, its client, and a third that  *)
(* is a second server of session 1, a client of session 2, or refused.  So *)
(* two pairs can share the client when it waits, the servers can take each *)
(* other's key, and a stranger is around.                                  *)
EXTENDS Signaling, TLC

CONSTANTS c1, c2, c3, x

Tenant(id, server) == [ID |-> id, IsServer |-> server, Recipient |-> x]

MCVerdicts ==
    c1 :> {Tenant(1, TRUE)}
    @@ c2 :> {Tenant(1, FALSE)}
    @@ c3 :> {Tenant(1, TRUE), Tenant(2, FALSE), None}

\* For liveness: a client and two servers of one session.
MCLiveVerdicts ==
    c1 :> {Tenant(1, TRUE)} @@ c2 :> {Tenant(1, FALSE)} @@ c3 :> {Tenant(1, TRUE)}
=============================================================================
