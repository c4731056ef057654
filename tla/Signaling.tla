------------------------------ MODULE Signaling ------------------------------
(***************************************************************************)
(* The signaling server (signaling/signaling.go and its two transports).   *)
(* Every connection runs OnTenant in a goroutine of its own: validate the  *)
(* token, look for a waiting tenant of the opposite role, then either make *)
(* a pair or wait.  Two goroutines per pair relay packets, and two sweeper *)
(* goroutines clean the tables: they collect keys under the lock, release  *)
(* it, and remove each key under the lock again.  The steps below are the  *)
(* critical sections and the blocking calls.                               *)
(***************************************************************************)
EXTENDS Naturals, Sequences

CONSTANTS
    Conn,        \* the connections (protocol.Tenant objects) of a behaviour
    Ids,         \* session ids the validator hands out
    Recipients,  \* values of the validation result's recipient field
    Verdicts,    \* Verdicts[c]: what the validator may answer to the token of c
    MaxPackets,  \* bound: packets the remote ends send in all
    MaxDrops,    \* bound: how many remote ends go away by themselves
    None         \* absence of a connection, packet or key


VARIABLES
    pc,        \* where the OnTenant handler of a connection stands
    result,    \* its ValidationResult, once there is one
    peer,      \* the tenant tokenMatch returned to it
    waitLine,  \* waitLine[r]: the tenant waiting under key r
    pairs,     \* pairs[k]: the handler whose pair object is stored under k
    exited,    \* the exited flag of each tenant
    alive,     \* is the connection's transport still open?
    inbox,     \* packets sent by the remote end and not read yet
    sent,      \* how many were sent in all (bounded by MaxPackets)
    drops,     \* how many remote ends went away (bounded by MaxDrops)
    fwd,       \* the two forwarding goroutines of the pair a handler made
    pairRev,   \* keys the pair sweeper collected, with the pair it saw there
    waitRev,   \* keys the wait sweeper collected, with the tenant it saw
    got,       \* history: whose packets were delivered to a tenant
    started,   \* history: tenants the server sent a START packet
    raced      \* history: handlers that were between their two lookups at once

vars == <<pc, result, peer, waitLine, pairs, exited, alive, inbox, sent, drops, fwd,
          pairRev, waitRev, got, started, raced>>

tenantVars  == <<pc, result, peer, raced>>
tableVars   == <<waitLine, pairs, pairRev, waitRev>>
remoteVars  == <<inbox, sent, drops>>
historyVars == <<got, started>>

Result == [ID : Ids, IsServer : BOOLEAN, Recipient : Recipients]

ASSUME NoneAssumption == None \notin Conn \cup Result \cup BOOLEAN
ASSUME BoundsAssumption == MaxPackets \in Nat /\ MaxDrops \in Nat
ASSUME VerdictsAssumption == Verdicts \in [Conn -> SUBSET (Result \cup {None})]

Dir    == {"down", "up"}   \* worker to client, client to worker

\* A packet is known when its Target is one ProcessReq forwards; it has data,
\* without which ProcessReq panics.
Packet == BOOLEAN

\* A forwarding goroutine holds a packet only in "send".
FwdAt == {"none", "check", "recv", "send", "stopped"}

Stage == {"new", "match", "pairing", "starting", "queueing", "served", "closed"}

\* The key a new pair is stored under: tokenMatch never assigns its named
\* result id, so it is the zero value whichever handler asks.
PairKey(c) == 0
PairKeys   == {0}

-----------------------------------------------------------------------------
(* Roles.  The matching rule ignores the recipient, which is part of the   *)
(* key of the wait line.                                                   *)

Opposite(r, s) == r.ID = s.ID /\ r.IsServer = ~ s.IsServer

Waiting(c) == \E r \in Result : waitLine[r] = c

\* The pair object the handler of c creates after a match.
ClientOf(c) == IF result[c].IsServer THEN peer[c] ELSE c

WorkerOf(c) == IF result[c].IsServer THEN c ELSE peer[c]

\* The two tenants of the pair the handler of c made, by relay direction.
Source(c, d) == IF d = "down" THEN WorkerOf(c) ELSE ClientOf(c)
\* Faulty variant: both goroutines send to the client.
SinkClient(c, d) == ClientOf(c)

Sink(c, d)   == IF d = "down" THEN ClientOf(c) ELSE WorkerOf(c)

Ended(c) == exited[ClientOf(c)] \/ exited[WorkerOf(c)]

-----------------------------------------------------------------------------
Init ==
    /\ pc       = [c \in Conn |-> "new"]
    /\ result   = [c \in Conn |-> None]
    /\ peer     = [c \in Conn |-> None]
    /\ waitLine = [r \in Result |-> None]
    /\ pairs    = [k \in PairKeys |-> None]
    /\ exited   = [c \in Conn |-> FALSE]
    /\ alive    = [c \in Conn |-> TRUE]
    /\ inbox    = [c \in Conn |-> <<>>]
    /\ sent     = 0
    /\ drops    = 0
    /\ fwd      = [c \in Conn |-> [d \in Dir |-> "none"]]
    /\ pairRev  = {}
    /\ waitRev  = {}
    /\ got      = [c \in Conn |-> {}]
    /\ started  = {}
    /\ raced    = {}

-----------------------------------------------------------------------------
(* OnTenant, run by the transport's handler.                               *)

\* The validator answers with a result or with an error; an error makes the
\* transport call Exit and go straight to its wait loop.
Validate(c) ==
    /\ pc[c] = "new"
    /\ \/ \E r \in Verdicts[c] \ {None} :
            /\ result' = [result EXCEPT ![c] = r]
            /\ pc' = [pc EXCEPT ![c] = "match"]
            /\ UNCHANGED exited
       \/ /\ None \in Verdicts[c]
          /\ pc' = [pc EXCEPT ![c] = "served"]
          /\ exited' = [exited EXCEPT ![c] = TRUE]
          /\ UNCHANGED result
    /\ UNCHANGED <<peer, raced, tableVars, alive, remoteVars, fwd, historyVars>>

\* Faulty variants of tokenMatch: the session is not compared; only a server
\* looks for its partner; the key is returned for the tenant.
TokenMatchAnyId(c) ==
    /\ pc[c] = "match"
    /\ \/ \E r \in Result :
            /\ waitLine[r] # None
            /\ result[c].IsServer = ~ r.IsServer
            /\ peer' = [peer EXCEPT ![c] = waitLine[r]]
            /\ pc' = [pc EXCEPT ![c] = "pairing"]
       \/ /\ \A r \in Result : waitLine[r] # None => result[c].IsServer = r.IsServer
          /\ pc' = [pc EXCEPT ![c] = "queueing"]
          /\ UNCHANGED peer
    /\ UNCHANGED <<result, raced, tableVars, exited, alive, remoteVars, fwd, historyVars>>

TokenMatchServers(c) ==
    /\ pc[c] = "match"
    /\ \/ \E r \in Result :
            /\ result[c].IsServer
            /\ waitLine[r] # None
            /\ Opposite(result[c], r)
            /\ peer' = [peer EXCEPT ![c] = waitLine[r]]
            /\ pc' = [pc EXCEPT ![c] = "pairing"]
            /\ UNCHANGED raced
       \/ /\ \A r \in Result :
                waitLine[r] # None /\ result[c].IsServer => ~ Opposite(result[c], r)
          /\ pc' = [pc EXCEPT ![c] = "queueing"]
          /\ raced' = raced \cup {{c, d} : d \in {e \in Conn : pc[e] = "queueing"}}
          /\ UNCHANGED peer
    /\ UNCHANGED <<result, tableVars, exited, alive, remoteVars, fwd, historyVars>>

\* tokenMatch: one critical section.  The range over the map stops at any
\* opposite entry; the entry stays in the wait line.
TokenMatch(c) ==
    /\ pc[c] = "match"
    /\ \/ \E r \in Result :
            /\ waitLine[r] # None
            /\ Opposite(result[c], r)
            /\ peer' = [peer EXCEPT ![c] = waitLine[r]]
            /\ pc' = [pc EXCEPT ![c] = "pairing"]
            /\ UNCHANGED raced
       \/ /\ \A r \in Result : waitLine[r] # None => ~ Opposite(result[c], r)
          /\ pc' = [pc EXCEPT ![c] = "queueing"]
          /\ raced' = raced \cup {{c, d} : d \in {e \in Conn : pc[e] = "queueing"}}
          /\ UNCHANGED peer
    /\ UNCHANGED <<result, tableVars, exited, alive, remoteVars, fwd, historyVars>>

\* Faulty variant: the arrival is paired and falls through to the wait line.
AddPairAndWait(c) ==
    /\ pc[c] = "pairing"
    /\ pairs' = [pairs EXCEPT ![PairKey(c)] = c]
    /\ fwd' = [fwd EXCEPT ![c] = [d \in Dir |-> "check"]]
    /\ pc' = [pc EXCEPT ![c] = "queueing"]
    /\ UNCHANGED <<result, peer, raced, waitLine, pairRev, waitRev, exited,
                   alive, remoteVars, historyVars>>

\* addPair stores the pair, handlePair then starts the relay goroutines.
AddPair(c) ==
    /\ pc[c] = "pairing"
    /\ pairs' = [pairs EXCEPT ![PairKey(c)] = c]
    /\ fwd' = [fwd EXCEPT ![c] = [d \in Dir |-> "check"]]
    /\ pc' = [pc EXCEPT ![c] = "starting"]
    /\ UNCHANGED <<result, peer, raced, waitLine, pairRev, waitRev, exited,
                   alive, remoteVars, historyVars>>

\* A Send on a transport that is down fails, and the tenant marks itself exited.
\* It is one step: a panic of the websocket library, when START and a relayed
\* packet are written at one moment, is left out.
SendOrExit(t) ==
    exited' = IF alive[t] THEN exited ELSE [exited EXCEPT ![t] = TRUE]

SendStart(c) ==
    /\ pc[c] = "starting"
    /\ SendOrExit(WorkerOf(c))
    /\ started' = IF alive[WorkerOf(c)] THEN started \cup {WorkerOf(c)} ELSE started
    /\ pc' = [pc EXCEPT ![c] = "served"]
    /\ UNCHANGED <<result, peer, raced, tableVars, alive, remoteVars, fwd, got>>

\* addTenant: a tenant already waiting under the same key is overwritten.
AddTenant(c) ==
    /\ pc[c] = "queueing"
    /\ waitLine' = [waitLine EXCEPT ![result[c]] = c]
    /\ pc' = [pc EXCEPT ![c] = "served"]
    /\ UNCHANGED <<result, peer, raced, pairs, pairRev, waitRev, exited, alive,
                   remoteVars, fwd, historyVars>>

\* The transport handler polls IsExited and returns, which ends the transport.
HandlerReturn(c) ==
    /\ pc[c] = "served"
    /\ exited[c]
    /\ pc' = [pc EXCEPT ![c] = "closed"]
    /\ alive' = [alive EXCEPT ![c] = FALSE]
    /\ UNCHANGED <<result, peer, raced, tableVars, exited, remoteVars, fwd, historyVars>>

-----------------------------------------------------------------------------
(* handlePair: goroutine d of the pair made by the handler of c.           *)

FwdCheck(c, d) ==
    /\ fwd[c][d] = "check"
    /\ fwd' = [fwd EXCEPT ![c][d] = IF Ended(c) THEN "stopped" ELSE "recv"]
    /\ UNCHANGED <<tenantVars, tableVars, exited, alive, remoteVars, historyVars>>

\* Faulty variant: a read error leaves the tenant's exited flag alone.
FwdReceiveNoExit(c, d) ==
    LET s == Source(c, d) IN
    /\ fwd[c][d] = "recv"
    /\ \/ /\ inbox[s] # <<>>
          /\ fwd' = [fwd EXCEPT ![c][d] = IF Head(inbox[s]) THEN "send" ELSE "check"]
          /\ inbox' = [inbox EXCEPT ![s] = Tail(@)]
       \/ /\ ~ alive[s]
          /\ fwd' = [fwd EXCEPT ![c][d] = "check"]
          /\ UNCHANGED inbox
    /\ UNCHANGED <<tenantVars, tableVars, exited, alive, sent, drops, historyVars>>

\* Receive and ProcessReq: the next packet, or an error that marks the source
\* exited.  The error and a packet of unknown target become nil, which the
\* Send that follows drops: the goroutine is back at its check.
FwdReceive(c, d) ==
    LET s == Source(c, d) IN
    /\ fwd[c][d] = "recv"
    /\ \/ /\ inbox[s] # <<>>
          /\ fwd' = [fwd EXCEPT ![c][d] = IF Head(inbox[s]) THEN "send" ELSE "check"]
          /\ inbox' = [inbox EXCEPT ![s] = Tail(@)]
          /\ UNCHANGED exited
       \/ /\ ~ alive[s]
          /\ fwd' = [fwd EXCEPT ![c][d] = "check"]
          /\ exited' = [exited EXCEPT ![s] = TRUE]
          /\ UNCHANGED inbox
    /\ UNCHANGED <<tenantVars, tableVars, alive, sent, drops, historyVars>>

FwdSend(c, d) ==
    LET s == Source(c, d)
        t == Sink(c, d)
    IN
    /\ fwd[c][d] = "send"
    /\ fwd' = [fwd EXCEPT ![c][d] = "check"]
    /\ SendOrExit(t)
    /\ got' = IF alive[t] THEN [got EXCEPT ![t] = @ \cup {s}] ELSE got
    /\ UNCHANGED <<tenantVars, tableVars, alive, remoteVars, started>>

-----------------------------------------------------------------------------
(* The sweepers.                                                           *)

\* Faulty variant: an ended pair is collected and its other side left running.
SweepPairsNoExit ==
    /\ pairRev = {}
    /\ LET dead == {k \in PairKeys : pairs[k] # None /\ Ended(pairs[k])} IN
       /\ dead # {}
       /\ pairRev' = {<<k, pairs[k]>> : k \in dead}
    /\ UNCHANGED <<tenantVars, waitLine, pairs, waitRev, exited, alive, remoteVars,
                   fwd, historyVars>>

\* One pass under the lock: when one side has exited the other is exited too.
SweepPairs ==
    /\ pairRev = {}
    /\ LET dead == {k \in PairKeys : pairs[k] # None /\ Ended(pairs[k])} IN
       /\ dead # {}
       /\ pairRev' = {<<k, pairs[k]>> : k \in dead}
       /\ exited' = [t \in Conn |->
            exited[t] \/ \E k \in dead : t \in {ClientOf(pairs[k]), WorkerOf(pairs[k])}]
    /\ UNCHANGED <<tenantVars, waitLine, pairs, waitRev, alive, remoteVars, fwd, historyVars>>

\* removePair: deletes by key, whatever is stored there by now.
RemovePair ==
    /\ \E e \in pairRev :
        /\ pairs' = [pairs EXCEPT ![e[1]] = None]
        /\ pairRev' = pairRev \ {e}
    /\ UNCHANGED <<tenantVars, waitLine, waitRev, exited, alive, remoteVars, fwd, historyVars>>

\* Faulty variant: every waiting tenant is collected.
SweepWaitLineAll ==
    /\ waitRev = {}
    /\ \E r \in Result : waitLine[r] # None
    /\ waitRev' = {<<r, waitLine[r]>> : r \in {q \in Result : waitLine[q] # None}}
    /\ UNCHANGED <<tenantVars, waitLine, pairs, pairRev, exited, alive, remoteVars,
                   fwd, historyVars>>

SweepWaitLine ==
    /\ waitRev = {}
    /\ LET dead == {r \in Result : waitLine[r] # None /\ exited[waitLine[r]]} IN
       /\ dead # {}
       /\ waitRev' = {<<r, waitLine[r]>> : r \in dead}
    /\ UNCHANGED <<tenantVars, waitLine, pairs, pairRev, exited, alive, remoteVars,
                   fwd, historyVars>>

\* removeTenant: likewise by key.
RemoveTenant ==
    /\ \E e \in waitRev :
        /\ waitLine' = [waitLine EXCEPT ![e[1]] = None]
        /\ waitRev' = waitRev \ {e}
    /\ UNCHANGED <<tenantVars, pairs, pairRev, exited, alive, remoteVars, fwd, historyVars>>

-----------------------------------------------------------------------------
(* The remote ends: they send packets, the first of them in answer to a    *)
(* START, and go away.                                                     *)

RemoteSend(c) ==
    /\ alive[c]
    /\ pc[c] = "served"
    /\ sent < MaxPackets
    /\ \E p \in Packet : inbox' = [inbox EXCEPT ![c] = Append(@, p)]
    /\ sent' = sent + 1
    /\ UNCHANGED <<tenantVars, tableVars, exited, alive, drops, fwd, historyVars>>

Disconnect(c) ==
    /\ alive[c]
    /\ pc[c] # "new"
    /\ drops < MaxDrops
    /\ alive' = [alive EXCEPT ![c] = FALSE]
    /\ drops' = drops + 1
    /\ UNCHANGED <<tenantVars, tableVars, exited, inbox, sent, fwd, historyVars>>

-----------------------------------------------------------------------------
OnTenant(c) == \/ TokenMatch(c) \/ AddPair(c) \/ SendStart(c)
               \/ AddTenant(c) \/ HandlerReturn(c)
Forward(c, d) == FwdCheck(c, d) \/ FwdReceive(c, d) \/ FwdSend(c, d)

Next ==
    \/ \E c \in Conn : \/ Validate(c) \/ TokenMatch(c) \/ AddPair(c)
                       \/ SendStart(c) \/ AddTenant(c) \/ HandlerReturn(c)
    \/ \E c \in Conn, d \in Dir : FwdCheck(c, d) \/ FwdReceive(c, d) \/ FwdSend(c, d)
    \/ SweepPairs \/ RemovePair \/ SweepWaitLine \/ RemoveTenant
    \/ \E c \in Conn : RemoteSend(c) \/ Disconnect(c)

Spec == Init /\ [][Next]_vars

\* The Go scheduler runs every goroutine that is not blocked.
Fairness ==
    /\ \A c \in Conn : WF_vars(OnTenant(c))
    /\ \A c \in Conn, d \in Dir : WF_vars(Forward(c, d))
    /\ WF_vars(SweepPairs) /\ WF_vars(RemovePair)
    /\ WF_vars(SweepWaitLine) /\ WF_vars(RemoveTenant)

FairSpec == Spec /\ Fairness

-----------------------------------------------------------------------------
TypeOK ==
    /\ pc \in [Conn -> Stage]
    /\ result \in [Conn -> Result \cup {None}]
    /\ peer \in [Conn -> Conn \cup {None}]
    /\ waitLine \in [Result -> Conn \cup {None}]
    /\ pairs \in [PairKeys -> Conn \cup {None}]
    /\ exited \in [Conn -> BOOLEAN]
    /\ alive \in [Conn -> BOOLEAN]
    /\ inbox \in [Conn -> Seq(Packet)]
    /\ sent \in Nat
    /\ drops \in Nat
    /\ fwd \in [Conn -> [Dir -> FwdAt]]
    /\ pairRev \subseteq PairKeys \X Conn
    /\ waitRev \subseteq Result \X Conn
    /\ got \in [Conn -> SUBSET Conn]
    /\ started \subseteq Conn
    /\ raced \subseteq SUBSET Conn

\* The strengthening the safety properties rest on: which stage of a handler
\* goes with which result and peer, that only a tenant whose handler is done
\* waits or is a peer, and that a peer made no pair of its own.
Settled(c) == pc[c] \in {"served", "closed"} /\ result[c] \in Result /\ peer[c] = None

StageOK ==
    \A c \in Conn :
        /\ pc[c] = "new" => result[c] = None
        /\ pc[c] \in {"match", "pairing", "starting", "queueing"} => result[c] \in Result
        /\ pc[c] \in {"pairing", "starting"} => peer[c] # None
        /\ pc[c] \in {"new", "match", "queueing"} => peer[c] = None
        /\ pc[c] = "pairing" => fwd[c]["up"] = "none"
        /\ \A d \in Dir : fwd[c][d] # "none" => fwd[c]["up"] # "none"
        /\ fwd[c]["up"] # "none" => peer[c] # None

QueueOK ==
    \A r \in Result : waitLine[r] # None => Settled(waitLine[r]) /\ result[waitLine[r]] = r

PeerOK ==
    \A c \in Conn : peer[c] # None =>
        /\ result[c] \in Result
        /\ Settled(peer[c])
        /\ Opposite(result[c], result[peer[c]])

PairsOK == \A k \in PairKeys : pairs[k] # None => fwd[pairs[k]]["up"] # "none"

Roles == StageOK /\ QueueOK /\ PeerOK /\ PairsOK

\* The history facts behind isolation and START.
HeardOK ==
    /\ \A t \in Conn : \A s \in got[t] : result[s] \in Result /\ result[t] \in Result
    /\ \A t \in started : result[t] \in Result

\* A handler that found nobody: it is about to wait, or waits.
Unmatched(c) == pc[c] = "queueing" \/ Waiting(c)

\* Strengthens StrandedOnlyByRace to the handlers about to queue.
RaceOK ==
    \A c, e \in Conn :
        Unmatched(c) /\ Unmatched(e) /\ Opposite(result[c], result[e]) => {c, e} \in raced

\* Whatever a sweeper holds, it saw exited.
SweptOK ==
    /\ \A e \in waitRev : exited[e[2]]
    /\ \A e \in pairRev : /\ peer[e[2]] # None
                          /\ exited[ClientOf(e[2])] /\ exited[WorkerOf(e[2])]

\* Session isolation: whatever the interleaving of arrivals, overwrites and
\* sweeps, a packet read from one tenant is delivered only to a tenant of the
\* same session and of the opposite role (tokenMatch, handlePair).
Isolation ==
    \A t \in Conn : \A s \in got[t] : Opposite(result[s], result[t])

\* The START packet that wakes the streaming machine goes to a server role
\* only, on whichever side of the match the server arrived.
StartOnlyServers == \A t \in started : result[t].IsServer

\* A client and a server of one session both sit in the wait line only if
\* their handlers overlapped between tokenMatch and addTenant, which are two
\* critical sections: arrivals in sequence are always paired.
StrandedOnlyByRace ==
    \A r, s \in Result :
        waitLine[r] # None /\ waitLine[s] # None /\ Opposite(r, s)
            => {waitLine[r], waitLine[s]} \in raced

\* A tenant that found its partner on arrival is never handed to a third one:
\* only a tenant that waited can end up in two pairs.
ArrivalPairsOnce ==
    \A c, e \in Conn :
        c # e /\ fwd[c]["up"] # "none" /\ fwd[e]["up"] # "none"
            => c \notin {ClientOf(e), WorkerOf(e)}

\* Sweeping removes a waiting tenant that is still connected only when it
\* took the key of an exited one after the sweeper had looked.
LiveWaiterKept ==
    [][\A r \in Result :
        waitLine[r] # None /\ waitLine'[r] = None /\ ~ exited[waitLine[r]]
            => \E e \in waitRev : e[1] = r /\ e[2] # waitLine[r]]_vars

\* A pair leaves the table with both ends exited, unless it was stored over a
\* finished pair after the sweeper had looked.
UntrackedOnlyWhenEnded ==
    [][\A k \in PairKeys :
        pairs[k] # None /\ pairs'[k] = None
            => \/ exited[ClientOf(pairs[k])] /\ exited[WorkerOf(pairs[k])]
               \/ \E e \in pairRev : e[1] = k /\ e[2] # pairs[k]]_vars

\* When one side of the pair in the table goes away while no removal is
\* pending, both sides are ended, unless another pair takes the slot first.
PairEndsTogether ==
    \A c \in Conn :
        (/\ pairs[PairKey(c)] = c
         /\ pairRev = {}
         /\ ~ alive[ClientOf(c)] \/ ~ alive[WorkerOf(c)])
        ~> \/ pairs[PairKey(c)] \notin {c, None}
           \/ peer[c] # None /\ exited[ClientOf(c)] /\ exited[WorkerOf(c)]

-----------------------------------------------------------------------------
\* The links made so far: the arrival first, the tenant it found second.
Links == {<<c, peer[c]>> : c \in {e \in Conn : fwd[e]["up"] # "none"}}

R == INSTANCE Rendezvous WITH member <- result, links <- Links, heard <- got

\* The server implements the rendezvous: every step of every interleaving is
\* a join, a link, a delivery between linked tenants, or none of them.
ImplementsRendezvous == R!Spec
=============================================================================
