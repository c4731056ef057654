--------------------------- MODULE SignalingProofs ---------------------------
(***************************************************************************)
(* Theorems about Signaling for every set of connections, ids, recipients, *)
(* validator and bounds.  TypeOK and Roles are inductive together; the     *)
(* others rest on them.  Then a theorem about Supervisor, which runs it.   *)
(***************************************************************************)
EXTENDS Signaling, Supervisor, TLAPS

\* A pair object joins two connections, the caller and a settled waiter.
LEMMA PairEnds ==
    ASSUME TypeOK, Roles, NEW c \in Conn, peer[c] # None
    PROVE  /\ ClientOf(c) \in Conn /\ WorkerOf(c) \in Conn
           /\ {ClientOf(c), WorkerOf(c)} = {c, peer[c]}
           /\ peer[c] \in Conn
           /\ c # peer[c]
           /\ Opposite(result[ClientOf(c)], result[WorkerOf(c)])
           /\ Opposite(result[WorkerOf(c)], result[ClientOf(c)])
           /\ result[ClientOf(c)] \in Result /\ result[WorkerOf(c)] \in Result
           /\ result[WorkerOf(c)].IsServer
<1>1. /\ peer[c] \in Conn /\ result[c] \in Result /\ result[peer[c]] \in Result
      /\ Opposite(result[c], result[peer[c]]) /\ peer[peer[c]] = None
  BY DEF TypeOK, Roles, PeerOK, Settled
<1>2. result[c].IsServer \in BOOLEAN /\ result[peer[c]].IsServer \in BOOLEAN
  BY <1>1 DEF Result
<1> QED
  BY <1>1, <1>2 DEF ClientOf, WorkerOf, Opposite

LEMMA TypeStep ==
    ASSUME TypeOK, Roles, [Next]_vars
    PROVE  TypeOK'
<1> USE DEF TypeOK, Stage, FwdAt, Packet
<1>1. ASSUME NEW c \in Conn, Validate(c) PROVE TypeOK'
  <2>1. /\ pc' \in [Conn -> Stage]
        /\ exited' \in [Conn -> BOOLEAN]
    BY <1>1 DEF Validate
  <2>2. result' \in [Conn -> Result \cup {None}]
    <3>1. \A r \in Verdicts[c] \ {None} : r \in Result
      BY VerdictsAssumption
    <3>2. result' = result \/ \E r \in Verdicts[c] \ {None} : result' = [result EXCEPT ![c] = r]
      BY <1>1 DEF Validate
    <3>3. result \in [Conn -> Result \cup {None}]
      OBVIOUS
    <3> HIDE DEF TypeOK
    <3> QED
      BY <3>1, <3>2, <3>3
  <2> QED
    BY <1>1, <2>1, <2>2 DEF Validate, tableVars, remoteVars, historyVars
<1>2. ASSUME NEW c \in Conn, TokenMatch(c) PROVE TypeOK'
  <2>1. pc' \in [Conn -> Stage]
    <3>1. pc' = [pc EXCEPT ![c] = "pairing"] \/ pc' = [pc EXCEPT ![c] = "queueing"]
      BY <1>2 DEF TokenMatch
    <3> QED
      BY <3>1
  <2>2. peer' \in [Conn -> Conn \cup {None}]
    <3>1. peer' = peer \/ \E r \in Result : peer' = [peer EXCEPT ![c] = waitLine[r]]
      BY <1>2 DEF TokenMatch
    <3> QED
      BY <3>1
  <2>3. raced' \subseteq SUBSET Conn
    <3>1. \A d \in Conn : {c, d} \in SUBSET Conn
      OBVIOUS
    <3>2. raced' \subseteq raced \cup {{c, d} : d \in Conn}
      BY <1>2 DEF TokenMatch
    <3>3. raced \subseteq SUBSET Conn
      OBVIOUS
    <3> HIDE DEF TypeOK
    <3> QED
      BY <3>1, <3>2, <3>3
  <2> QED
    BY <1>2, <2>1, <2>2, <2>3 DEF TokenMatch, tableVars, remoteVars, historyVars
<1>3. ASSUME NEW c \in Conn, AddPair(c) PROVE TypeOK'
  BY <1>3 DEF AddPair, PairKey, PairKeys, tableVars, remoteVars, historyVars
<1>4. ASSUME NEW c \in Conn, SendStart(c) PROVE TypeOK'
  <2>1. WorkerOf(c) \in Conn
    BY <1>4, PairEnds DEF SendStart, Roles, StageOK
  <2>2. pc' \in [Conn -> Stage] /\ exited' \in [Conn -> BOOLEAN]
    BY <1>4 DEF SendStart, SendOrExit
  <2>3. started' \subseteq Conn
    BY <1>4, <2>1 DEF SendStart
  <2> QED
    BY <1>4, <2>2, <2>3 DEF SendStart, tableVars, remoteVars
<1>5. ASSUME NEW c \in Conn, AddTenant(c) PROVE TypeOK'
  BY <1>5 DEF AddTenant, remoteVars, historyVars
<1>6. ASSUME NEW c \in Conn, HandlerReturn(c) PROVE TypeOK'
  BY <1>6 DEF HandlerReturn, tableVars, remoteVars, historyVars
<1>7. ASSUME NEW c \in Conn, NEW d \in Dir, FwdCheck(c, d) PROVE TypeOK'
  BY <1>7 DEF FwdCheck, tenantVars, tableVars, remoteVars, historyVars
<1>8. ASSUME NEW c \in Conn, NEW d \in Dir, FwdReceive(c, d) PROVE TypeOK'
  <2>1. fwd' \in [Conn -> [Dir -> FwdAt]]
    <3>1. \E a \in FwdAt : fwd' = [fwd EXCEPT ![c][d] = a]
      BY <1>8 DEF FwdReceive
    <3> QED
      BY <3>1
  <2>3. exited' \in [Conn -> BOOLEAN]
    BY <1>8 DEF FwdReceive
  <2>2. inbox' \in [Conn -> Seq(Packet)]
    <3>1. \A q \in Seq(BOOLEAN) : q # <<>> => Tail(q) \in Seq(BOOLEAN)
      OBVIOUS
    <3>2. \/ inbox' = inbox
          \/ /\ inbox[Source(c, d)] # <<>>
             /\ inbox' = [inbox EXCEPT ![Source(c, d)] = Tail(inbox[Source(c, d)])]
      BY <1>8 DEF FwdReceive
    <3>3. inbox \in [Conn -> Seq(BOOLEAN)]
      OBVIOUS
    <3> HIDE DEF TypeOK
    <3> QED
      BY <3>1, <3>2, <3>3
  <2> QED
    BY <1>8, <2>1, <2>2, <2>3 DEF FwdReceive, tenantVars, tableVars, historyVars
<1>9. ASSUME NEW c \in Conn, NEW d \in Dir, FwdSend(c, d) PROVE TypeOK'
  <2>1. Source(c, d) \in Conn
    BY <1>9, PairEnds DEF FwdSend, Source, Roles, StageOK
  <2>2. fwd' \in [Conn -> [Dir -> FwdAt]] /\ exited' \in [Conn -> BOOLEAN]
    BY <1>9 DEF FwdSend, SendOrExit
  <2>3. got' \in [Conn -> SUBSET Conn]
    BY <1>9, <2>1 DEF FwdSend
  <2> QED
    BY <1>9, <2>2, <2>3 DEF FwdSend, tenantVars, tableVars, remoteVars
<1>10. ASSUME SweepPairs PROVE TypeOK'
  <2>1. exited' \in [Conn -> BOOLEAN] /\ pairRev' \subseteq PairKeys \X Conn
    BY <1>10 DEF SweepPairs
  <2> QED
    BY <1>10, <2>1 DEF SweepPairs, tenantVars, remoteVars, historyVars
<1>11. ASSUME RemovePair PROVE TypeOK'
  BY <1>11 DEF RemovePair, tenantVars, remoteVars, historyVars
<1>12. ASSUME SweepWaitLine PROVE TypeOK'
  <2>1. waitRev' \subseteq Result \X Conn
    BY <1>12 DEF SweepWaitLine
  <2> QED
    BY <1>12, <2>1 DEF SweepWaitLine, tenantVars, remoteVars, historyVars
<1>13. ASSUME RemoveTenant PROVE TypeOK'
  BY <1>13 DEF RemoveTenant, tenantVars, remoteVars, historyVars
<1>14. ASSUME NEW c \in Conn, RemoteSend(c) PROVE TypeOK'
  BY <1>14 DEF RemoteSend, tenantVars, tableVars, historyVars
<1>15. ASSUME NEW c \in Conn, Disconnect(c) PROVE TypeOK'
  BY <1>15 DEF Disconnect, tenantVars, tableVars, historyVars
<1>16. CASE UNCHANGED vars
  BY <1>16 DEF vars
<1> QED
  BY <1>1, <1>2, <1>3, <1>4, <1>5, <1>6, <1>7, <1>8, <1>9, <1>10, <1>11,
     <1>12, <1>13, <1>14, <1>15, <1>16 DEF Next

-----------------------------------------------------------------------------
\* Roles depends on these variables only.
rolesVars == <<pc, result, peer, waitLine, pairs, fwd>>

LEMMA RolesStep ==
    ASSUME TypeOK, Roles, [Next]_vars
    PROVE  Roles'
<1> USE DEF Roles
<1>1. ASSUME NEW c \in Conn, Validate(c) PROVE Roles'
  <2>1. PICK r \in Result \cup {None} :
            /\ pc[c] = "new"
            /\ result' = [result EXCEPT ![c] = r]
            /\ IF r = None THEN pc' = [pc EXCEPT ![c] = "served"]
                           ELSE pc' = [pc EXCEPT ![c] = "match"]
            /\ UNCHANGED <<peer, waitLine, pairs, fwd>>
    <3>1. ASSUME NEW r \in Verdicts[c] \ {None}, result' = [result EXCEPT ![c] = r],
                 pc' = [pc EXCEPT ![c] = "match"]
          PROVE  r \in Result
      BY <3>1, VerdictsAssumption
    <3>2. result[c] = None /\ result = [result EXCEPT ![c] = result[c]]
      BY <1>1 DEF Validate, StageOK, TypeOK
    <3> QED
      BY <1>1, <3>1, <3>2 DEF Validate, tableVars
  <2>2. StageOK'
    BY <2>1 DEF StageOK, TypeOK
  <2>3. \A t \in Conn : Settled(t) => t # c /\ Settled(t)' /\ result'[t] = result[t]
    BY <2>1 DEF Settled, TypeOK
  <2>4. QueueOK'
    BY <2>1, <2>3 DEF QueueOK, TypeOK
  <2>5. PeerOK'
    <3>1. peer[c] = None
      BY <2>1 DEF StageOK
    <3> QED
      BY <2>1, <2>3, <3>1 DEF PeerOK, TypeOK
  <2>6. PairsOK'
    BY <2>1 DEF PairsOK
  <2> QED
    BY <2>2, <2>4, <2>5, <2>6
<1>2. ASSUME NEW c \in Conn, TokenMatch(c) PROVE Roles'
  <2>1. /\ pc[c] = "match" /\ peer[c] = None /\ result[c] \in Result
        /\ UNCHANGED <<result, waitLine, pairs, fwd>>
    BY <1>2 DEF TokenMatch, tableVars, StageOK
  <2>2. CASE \E r \in Result :
               /\ waitLine[r] # None /\ Opposite(result[c], r)
               /\ peer' = [peer EXCEPT ![c] = waitLine[r]]
               /\ pc' = [pc EXCEPT ![c] = "pairing"]
    <3>1. PICK r \in Result : /\ waitLine[r] # None /\ Opposite(result[c], r)
                              /\ peer' = [peer EXCEPT ![c] = waitLine[r]]
                              /\ pc' = [pc EXCEPT ![c] = "pairing"]
      BY <2>2
    <3>2. /\ waitLine[r] \in Conn /\ waitLine[r] # c /\ result[waitLine[r]] = r
          /\ Settled(waitLine[r])
      BY <2>1, <3>1 DEF QueueOK, Settled, TypeOK
    <3>3. \A t \in Conn : Settled(t) => t # c /\ Settled(t)'
      BY <2>1, <3>1 DEF Settled, TypeOK
    <3>4. StageOK'
      <4>1. fwd[c]["up"] = "none" /\ \A d \in Dir : fwd[c][d] = "none"
        BY <2>1 DEF StageOK
      <4> QED
        BY <2>1, <3>1, <4>1 DEF StageOK, TypeOK
    <3>5. QueueOK'
      BY <2>1, <3>3 DEF QueueOK, TypeOK
    <3>6. PeerOK'
      BY <2>1, <3>1, <3>2, <3>3 DEF PeerOK, TypeOK
    <3> QED
      BY <2>1, <3>4, <3>5, <3>6 DEF PairsOK
  <2>3. CASE pc' = [pc EXCEPT ![c] = "queueing"] /\ peer' = peer
    <3>1. \A t \in Conn : Settled(t) => Settled(t)'
      BY <2>1, <2>3 DEF Settled, TypeOK
    <3>2. StageOK'
      BY <2>1, <2>3 DEF StageOK, TypeOK
    <3> QED
      BY <2>1, <2>3, <3>1, <3>2 DEF QueueOK, PeerOK, PairsOK, TypeOK
  <2> QED
    BY <1>2, <2>2, <2>3 DEF TokenMatch
<1>3. ASSUME NEW c \in Conn, AddPair(c) PROVE Roles'
  <2>1. /\ pc[c] = "pairing" /\ peer[c] # None /\ result[c] \in Result
        /\ fwd' = [fwd EXCEPT ![c] = [d \in Dir |-> "check"]]
        /\ pc' = [pc EXCEPT ![c] = "starting"]
        /\ pairs' = [pairs EXCEPT ![PairKey(c)] = c]
        /\ UNCHANGED <<result, peer, waitLine>>
    BY <1>3 DEF AddPair, StageOK
  <2>2. \A t \in Conn : Settled(t) => Settled(t)'
    BY <2>1 DEF Settled, TypeOK
  <2>3. StageOK'
    BY <2>1 DEF StageOK, TypeOK, Dir
  <2>4. \A t \in Conn : fwd[t]["up"] # "none" => fwd'[t]["up"] # "none"
    BY <2>1 DEF TypeOK, Dir
  <2>5. fwd'[c]["up"] # "none"
    BY <2>1 DEF TypeOK, Dir
  <2>6. PairsOK'
    BY <2>1, <2>4, <2>5 DEF PairsOK, TypeOK
  <2> QED
    BY <2>1, <2>2, <2>3, <2>6 DEF QueueOK, PeerOK, TypeOK
<1>4. ASSUME NEW c \in Conn, SendStart(c) PROVE Roles'
  <2>1. /\ pc[c] = "starting" /\ pc' = [pc EXCEPT ![c] = "served"]
        /\ UNCHANGED <<result, peer, waitLine, pairs, fwd>>
    BY <1>4 DEF SendStart, tableVars
  <2>2. \A t \in Conn : Settled(t) => Settled(t)'
    BY <2>1 DEF Settled, TypeOK
  <2>3. StageOK'
    BY <2>1 DEF StageOK, TypeOK
  <2> QED
    BY <2>1, <2>2, <2>3 DEF QueueOK, PeerOK, PairsOK, TypeOK
<1>5. ASSUME NEW c \in Conn, AddTenant(c) PROVE Roles'
  <2>1. /\ pc[c] = "queueing" /\ pc' = [pc EXCEPT ![c] = "served"]
        /\ peer[c] = None /\ result[c] \in Result
        /\ waitLine' = [waitLine EXCEPT ![result[c]] = c]
        /\ UNCHANGED <<result, peer, pairs, fwd>>
    BY <1>5 DEF AddTenant, StageOK
  <2>2. \A t \in Conn : Settled(t) => Settled(t)'
    BY <2>1 DEF Settled, TypeOK
  <2>3. Settled(c)'
    BY <2>1 DEF Settled, TypeOK
  <2>4. StageOK'
    BY <2>1 DEF StageOK, TypeOK
  <2>5. QueueOK'
    BY <2>1, <2>2, <2>3 DEF QueueOK, TypeOK
  <2> QED
    BY <2>1, <2>2, <2>4, <2>5 DEF PeerOK, PairsOK, TypeOK
<1>6. ASSUME NEW c \in Conn, HandlerReturn(c) PROVE Roles'
  <2>1. /\ pc[c] = "served" /\ pc' = [pc EXCEPT ![c] = "closed"]
        /\ UNCHANGED <<result, peer, waitLine, pairs, fwd>>
    BY <1>6 DEF HandlerReturn, tableVars
  <2>2. \A t \in Conn : Settled(t) => Settled(t)'
    BY <2>1 DEF Settled, TypeOK
  <2>3. StageOK'
    BY <2>1 DEF StageOK, TypeOK
  <2> QED
    BY <2>1, <2>2, <2>3 DEF QueueOK, PeerOK, PairsOK, TypeOK
<1>7. ASSUME NEW c \in Conn, NEW d \in Dir, Forward(c, d) PROVE Roles'
  <2>1. /\ fwd[c][d] # "none"
        /\ \E a \in FwdAt \ {"none"} : fwd' = [fwd EXCEPT ![c][d] = a]
        /\ UNCHANGED <<pc, result, peer, waitLine, pairs>>
    BY <1>7 DEF Forward, FwdCheck, FwdReceive, FwdSend, tenantVars, tableVars, FwdAt
  <2>2. \A t \in Conn : \A e \in Dir : fwd'[t][e] = "none" <=> fwd[t][e] = "none"
    BY <2>1 DEF TypeOK
  <2>3. StageOK'
    BY <2>1, <2>2 DEF StageOK, Dir
  <2>4. PairsOK'
    BY <2>1, <2>2 DEF PairsOK, Dir, TypeOK
  <2> QED
    BY <2>1, <2>3, <2>4 DEF QueueOK, PeerOK, Settled
<1>8. ASSUME RemovePair PROVE Roles'
  <2>1. /\ \A k \in PairKeys : pairs'[k] \in {pairs[k], None}
        /\ UNCHANGED <<pc, result, peer, waitLine, fwd>>
    BY <1>8 DEF RemovePair, tenantVars, TypeOK
  <2> QED
    BY <2>1 DEF StageOK, QueueOK, PeerOK, PairsOK, Settled
<1>9. ASSUME RemoveTenant PROVE Roles'
  <2>1. /\ \A r \in Result : waitLine'[r] \in {waitLine[r], None}
        /\ UNCHANGED <<pc, result, peer, pairs, fwd>>
    BY <1>9 DEF RemoveTenant, tenantVars, TypeOK
  <2> QED
    BY <2>1 DEF StageOK, QueueOK, PeerOK, PairsOK, Settled
<1>10. ASSUME UNCHANGED rolesVars PROVE Roles'
  BY <1>10 DEF rolesVars, StageOK, QueueOK, PeerOK, PairsOK, Settled
<1>11. ASSUME \/ SweepPairs \/ SweepWaitLine
              \/ \E c \in Conn : RemoteSend(c) \/ Disconnect(c)
              \/ UNCHANGED vars
       PROVE  UNCHANGED rolesVars
  BY <1>11 DEF SweepPairs, SweepWaitLine, RemoteSend, Disconnect, vars, rolesVars,
               tenantVars, tableVars
<1> QED
  BY <1>1, <1>2, <1>3, <1>4, <1>5, <1>6, <1>7, <1>8, <1>9, <1>10, <1>11
  DEF Next, Forward

\* The stages of a handler, the wait line, the peers and the pairs agree: only
\* a tenant whose own handler is done and made no pair waits or is a peer.
THEOREM RolesCorrect == Spec => [](TypeOK /\ Roles)
<1>1. Init => TypeOK /\ Roles
  BY NoneAssumption DEF Init, TypeOK, Stage, FwdAt, Dir, PairKeys, Packet,
     Roles, StageOK, QueueOK, PeerOK, PairsOK
<1>2. TypeOK /\ Roles /\ [Next]_vars => (TypeOK /\ Roles)'
  BY TypeStep, RolesStep
<1> QED
  BY <1>1, <1>2, PTL DEF Spec

\* Type correctness: every variable keeps its type, in every interleaving of
\* handlers, relay goroutines and sweepers (signaling.go).
THEOREM TypeCorrect == Spec => []TypeOK
  BY RolesCorrect, PTL

\* A token's verdict and a match are never revised.
LEMMA Stable ==
    ASSUME TypeOK, Roles, [Next]_vars, NEW c \in Conn
    PROVE  /\ result[c] # None => result'[c] = result[c]
           /\ peer[c] # None => peer'[c] = peer[c]
<1>1. ASSUME NEW e \in Conn, Validate(e)
      PROVE  result[c] # None => result'[c] = result[c]
  <2>1. result[e] = None
    BY <1>1 DEF Validate, Roles, StageOK
  <2>2. result' = result \/ \E r \in Verdicts[e] \ {None} : result' = [result EXCEPT ![e] = r]
    BY <1>1 DEF Validate
  <2> QED
    BY <2>1, <2>2 DEF TypeOK
<1>2. ASSUME NEW e \in Conn, TokenMatch(e)
      PROVE  peer[c] # None => peer'[c] = peer[c]
  <2>1. peer[e] = None
    BY <1>2 DEF TokenMatch, Roles, StageOK
  <2>2. peer' = peer \/ \E r \in Result : peer' = [peer EXCEPT ![e] = waitLine[r]]
    BY <1>2 DEF TokenMatch
  <2> QED
    BY <2>1, <2>2 DEF TypeOK
<1>3. \/ \E e \in Conn : Validate(e)
      \/ result' = result
  BY DEF Next, TokenMatch, AddPair, SendStart, AddTenant, HandlerReturn, FwdCheck,
     FwdReceive, FwdSend, SweepPairs, RemovePair, SweepWaitLine, RemoveTenant,
     RemoteSend, Disconnect, tenantVars, vars
<1>4. \/ \E e \in Conn : TokenMatch(e)
      \/ peer' = peer
  BY DEF Next, Validate, AddPair, SendStart, AddTenant, HandlerReturn, FwdCheck,
     FwdReceive, FwdSend, SweepPairs, RemovePair, SweepWaitLine, RemoveTenant,
     RemoteSend, Disconnect, tenantVars, vars
<1> QED
  BY <1>1, <1>2, <1>3, <1>4

\* got grows only by a delivery along a pair, started only by a START.
LEMMA HistorySteps ==
    ASSUME [Next]_vars
    PROVE  /\ \/ got' = got
              \/ \E c \in Conn, d \in Dir : FwdSend(c, d)
           /\ \/ started' = started
              \/ \E c \in Conn : SendStart(c)
  BY DEF Next, Validate, TokenMatch, AddPair, SendStart, AddTenant, HandlerReturn,
     FwdCheck, FwdReceive, FwdSend, SweepPairs, RemovePair, SweepWaitLine,
     RemoveTenant, RemoteSend, Disconnect, historyVars, vars

\* Isolation with its strengthening: whoever heard a packet, sent one, or was
\* sent a START holds a result.
THEOREM HeardCorrect == Spec => [](HeardOK /\ Isolation)
<1> DEFINE Inv == HeardOK /\ Isolation
<1>1. Init => Inv
  BY DEF Init, HeardOK, Isolation
<1>2. TypeOK /\ Roles /\ Inv /\ [Next]_vars => Inv'
  <2> SUFFICES ASSUME TypeOK, Roles, Inv, [Next]_vars PROVE Inv'
    OBVIOUS
  <2>1. \A t \in Conn : \A s \in got[t] :
            /\ s \in Conn
            /\ result'[s] = result[s] /\ result'[t] = result[t]
    BY Stable, NoneAssumption DEF HeardOK, TypeOK
  <2>2. \A t \in started : t \in Conn /\ result'[t] = result[t]
    BY Stable, NoneAssumption DEF HeardOK, TypeOK
  <2>3. \A t \in Conn : \A s \in got'[t] :
            /\ result'[s] \in Result /\ result'[t] \in Result
            /\ Opposite(result'[s], result'[t])
    <3>1. CASE got' = got
      BY <2>1, <3>1 DEF HeardOK, Isolation
    <3>2. ASSUME NEW c \in Conn, NEW d \in Dir, FwdSend(c, d),
                 NEW t \in Conn, NEW s \in got'[t], s \notin got[t]
          PROVE  /\ s \in Conn
                 /\ result[s] \in Result /\ result[t] \in Result
                 /\ Opposite(result[s], result[t])
      <4>1. peer[c] # None
        BY <3>2 DEF FwdSend, Roles, StageOK
      <4>2. t = Sink(c, d) /\ s = Source(c, d)
        BY <3>2 DEF FwdSend, TypeOK
      <4> QED
        BY <4>1, <4>2, PairEnds DEF Sink, Source
    <3>3. ASSUME NEW c \in Conn, NEW d \in Dir, FwdSend(c, d) PROVE result' = result
      BY <3>3 DEF FwdSend, tenantVars
    <3> QED
      BY <2>1, <3>1, <3>2, <3>3, HistorySteps DEF HeardOK, Isolation
  <2>4. \A t \in started' : result'[t] \in Result
    <3>1. ASSUME NEW c \in Conn, SendStart(c)
          PROVE  result' = result /\ \A t \in started' : t \in started \/ t = WorkerOf(c)
      BY <3>1 DEF SendStart
    <3>2. ASSUME NEW c \in Conn, SendStart(c) PROVE result[WorkerOf(c)] \in Result
      <4>1. peer[c] # None
        BY <3>2 DEF SendStart, Roles, StageOK
      <4> QED
        BY <4>1, PairEnds
    <3> QED
      BY <2>2, <3>1, <3>2, HistorySteps DEF HeardOK
  <2> QED
    BY <2>3, <2>4 DEF HeardOK, Isolation
<1> QED
  BY <1>1, <1>2, RolesCorrect, PTL DEF Spec

\* Session isolation (tokenMatch, handlePair), for any number of sessions and
\* tenants: a packet reaches only a tenant of the same session and of the
\* opposite role, whatever sweeps and overwrites went on meanwhile.
THEOREM IsolationHolds == Spec => []Isolation
  BY HeardCorrect, PTL

\* START goes to server roles only (fun in InitSignallingServer), on whichever
\* side of the match the server arrived.
THEOREM StartGoesToServers == Spec => []StartOnlyServers
<1> DEFINE Inv == HeardOK /\ StartOnlyServers
<1>1. Init => Inv
  BY DEF Init, HeardOK, StartOnlyServers
<1>2. TypeOK /\ Roles /\ HeardOK' /\ Inv /\ [Next]_vars => Inv'
  <2> SUFFICES ASSUME TypeOK, Roles, Inv, [Next]_vars PROVE StartOnlyServers'
    OBVIOUS
  <2>1. \A t \in started : t \in Conn /\ result'[t] = result[t]
    BY Stable, NoneAssumption DEF HeardOK, TypeOK
  <2>2. ASSUME NEW c \in Conn, SendStart(c)
        PROVE  /\ result' = result /\ \A t \in started' : t \in started \/ t = WorkerOf(c)
               /\ peer[c] # None
    BY <2>2 DEF SendStart, Roles, StageOK
  <2>3. ASSUME NEW c \in Conn, SendStart(c) PROVE result[WorkerOf(c)].IsServer
    BY <2>2, <2>3, PairEnds
  <2> QED
    BY <2>1, <2>2, <2>3, HistorySteps DEF StartOnlyServers
<1>3. Spec => []HeardOK
  BY HeardCorrect, PTL
<1> QED
  BY <1>1, <1>2, <1>3, RolesCorrect, PTL DEF Spec

\* A tenant that found its partner on arrival is never handed to a third one
\* (tokenMatch hands out waiting tenants only, and a caller never waits).
THEOREM ArrivalPairsOnceHolds == Spec => []ArrivalPairsOnce
<1>1. TypeOK /\ Roles => ArrivalPairsOnce
  <2> SUFFICES ASSUME TypeOK, Roles, NEW c \in Conn, NEW e \in Conn, c # e,
                      fwd[c]["up"] # "none", fwd[e]["up"] # "none"
               PROVE  c \notin {ClientOf(e), WorkerOf(e)}
    BY DEF ArrivalPairsOnce
  <2>1. peer[c] # None /\ peer[e] # None
    BY DEF Roles, StageOK
  <2>2. peer[peer[e]] = None
    BY <2>1 DEF Roles, PeerOK, Settled
  <2> QED
    BY <2>1, <2>2, PairEnds
<1> QED
  BY <1>1, RolesCorrect, PTL

\* The exited flag is never cleared.
LEMMA ExitedStays ==
    ASSUME TypeOK, [Next]_vars, NEW t \in Conn, exited[t]
    PROVE  exited'[t]
<1>1. ASSUME NEW c \in Conn, SendStart(c) \/ (\E d \in Dir : FwdSend(c, d)) PROVE exited'[t]
  <2>1. exited' = exited \/ \E e : exited' = [exited EXCEPT ![e] = TRUE]
    BY <1>1 DEF SendStart, FwdSend, SendOrExit
  <2> QED
    BY <2>1 DEF TypeOK
<1>2. ASSUME NEW c \in Conn, Validate(c) \/ (\E d \in Dir : FwdReceive(c, d)) PROVE exited'[t]
  <2>1. exited' = exited \/ \E e : exited' = [exited EXCEPT ![e] = TRUE]
    BY <1>2 DEF Validate, FwdReceive
  <2> QED
    BY <2>1 DEF TypeOK
<1>3. ASSUME SweepPairs PROVE exited'[t]
  <2>1. PICK dead \in SUBSET PairKeys :
          exited' = [u \in Conn |->
            exited[u] \/ \E k \in dead : u \in {ClientOf(pairs[k]), WorkerOf(pairs[k])}]
    BY <1>3 DEF SweepPairs
  <2> QED
    BY <2>1
<1>4. \/ exited' = exited
      \/ SweepPairs
      \/ \E c \in Conn : SendStart(c) \/ Validate(c)
      \/ \E c \in Conn, d \in Dir : FwdSend(c, d) \/ FwdReceive(c, d)
  BY DEF Next, TokenMatch, AddPair, AddTenant, HandlerReturn, FwdCheck, RemovePair,
     SweepWaitLine, RemoveTenant, RemoteSend, Disconnect, vars
<1> QED
  BY <1>1, <1>2, <1>3, <1>4

\* The sweepers hold only what they saw exited (their collecting loops).
THEOREM SweptCorrect == Spec => []SweptOK
<1>1. Init => SweptOK
  BY DEF Init, SweptOK
<1>2. TypeOK /\ Roles /\ SweptOK /\ [Next]_vars => SweptOK'
  <2> SUFFICES ASSUME TypeOK, Roles, SweptOK, [Next]_vars PROVE SweptOK'
    OBVIOUS
  <2>1. \A t \in Conn : exited[t] => exited'[t]
    BY ExitedStays
  <2>2. ASSUME NEW c \in Conn, peer[c] # None
        PROVE  /\ peer'[c] = peer[c] /\ ClientOf(c)' = ClientOf(c) /\ WorkerOf(c)' = WorkerOf(c)
               /\ ClientOf(c) \in Conn /\ WorkerOf(c) \in Conn
    <3>1. result[c] # None
      BY <2>2, NoneAssumption DEF Roles, PeerOK
    <3> QED
      BY <2>2, <3>1, Stable, PairEnds DEF ClientOf, WorkerOf
  <2>3. waitRev' \subseteq waitRev \/ SweepWaitLine
    BY DEF Next, Validate, TokenMatch, AddPair, SendStart, AddTenant, HandlerReturn,
       FwdCheck, FwdReceive, FwdSend, SweepPairs, RemovePair,
       RemoveTenant, RemoteSend, Disconnect, tableVars, vars
  <2>4. pairRev' \subseteq pairRev \/ SweepPairs
    BY DEF Next, Validate, TokenMatch, AddPair, SendStart, AddTenant, HandlerReturn,
       FwdCheck, FwdReceive, FwdSend, RemovePair, SweepWaitLine,
       RemoveTenant, RemoteSend, Disconnect, tableVars, vars
  <2>5. ASSUME SweepPairs
        PROVE  \A e \in pairRev' : /\ peer[e[2]] # None
                                   /\ exited'[ClientOf(e[2])] /\ exited'[WorkerOf(e[2])]
    <3>1. PICK dead \in SUBSET PairKeys :
            /\ \A k \in dead : pairs[k] # None
            /\ pairRev' = {<<k, pairs[k]>> : k \in dead}
            /\ exited' = [t \in Conn |->
                 exited[t] \/ \E k \in dead : t \in {ClientOf(pairs[k]), WorkerOf(pairs[k])}]
      BY <2>5 DEF SweepPairs
    <3>2. \A k \in dead : pairs[k] \in Conn /\ peer[pairs[k]] # None
      BY <3>1 DEF Roles, PairsOK, StageOK, TypeOK
    <3>3. \A k \in dead : ClientOf(pairs[k]) \in Conn /\ WorkerOf(pairs[k]) \in Conn
      BY <3>2, PairEnds
    <3>4. ASSUME NEW k \in dead
          PROVE  exited'[ClientOf(pairs[k])] /\ exited'[WorkerOf(pairs[k])]
      BY <3>1, <3>3
    <3>5. \A e \in pairRev' : \E k \in dead : e[2] = pairs[k]
      BY <3>1
    <3> QED
      BY <3>2, <3>4, <3>5
  <2>6. \A e \in waitRev' : exited'[e[2]]
    <3>1. CASE waitRev' \subseteq waitRev
      BY <2>1, <3>1 DEF SweptOK, TypeOK
    <3>2. CASE SweepWaitLine
      <4>1. exited' = exited /\ \A e \in waitRev' : exited[e[2]]
        BY <3>2 DEF SweepWaitLine
      <4> QED
        BY <4>1
    <3> QED
      BY <2>3, <3>1, <3>2
  <2>7. pairRev' \subseteq PairKeys \X Conn
    BY TypeStep DEF TypeOK
  <2>8. \A e \in pairRev' : /\ peer'[e[2]] # None
                            /\ exited'[ClientOf(e[2])'] /\ exited'[WorkerOf(e[2])']
    BY <2>1, <2>2, <2>4, <2>5, <2>7 DEF SweptOK
  <2> QED
    BY <2>6, <2>8 DEF SweptOK
<1> QED
  BY <1>1, <1>2, RolesCorrect, PTL DEF Spec

\* removeTenant drops a tenant that is still connected only when that tenant
\* took its key from an exited one after the sweeper had looked.
THEOREM LiveWaiterKeptHolds == Spec => LiveWaiterKept
<1>1. TypeOK /\ SweptOK /\ [Next]_vars =>
        [\A r \in Result :
          waitLine[r] # None /\ waitLine'[r] = None /\ ~ exited[waitLine[r]]
            => \E e \in waitRev : e[1] = r /\ e[2] # waitLine[r]]_vars
  <2> SUFFICES ASSUME TypeOK, SweptOK, [Next]_vars, NEW r \in Result,
                      waitLine[r] # None, waitLine'[r] = None, ~ exited[waitLine[r]]
               PROVE  \E e \in waitRev : e[1] = r /\ e[2] # waitLine[r]
    OBVIOUS
  <2>1. \/ RemoveTenant
        \/ waitLine' = waitLine
        \/ \E c \in Conn : waitLine' = [waitLine EXCEPT ![result[c]] = c]
    BY DEF Next, Validate, TokenMatch, AddPair, AddTenant, SendStart, HandlerReturn,
       FwdCheck, FwdReceive, FwdSend, SweepPairs, RemovePair, SweepWaitLine,
       RemoteSend, Disconnect, tableVars, vars
  <2>2. RemoveTenant
    BY <2>1, NoneAssumption DEF TypeOK
  <2>3. PICK e \in waitRev : waitLine' = [waitLine EXCEPT ![e[1]] = None]
    BY <2>2 DEF RemoveTenant
  <2>4. e[1] = r
    BY <2>3 DEF TypeOK
  <2>5. exited[e[2]]
    BY DEF SweptOK
  <2> QED
    BY <2>4, <2>5
<1> QED
  BY <1>1, RolesCorrect, SweptCorrect, PTL DEF Spec, LiveWaiterKept

\* removePair drops a pair only when both ends exited, or when it was stored
\* over a finished pair after the sweeper had looked.
THEOREM UntrackedOnlyWhenEndedHolds == Spec => UntrackedOnlyWhenEnded
<1>1. TypeOK /\ SweptOK /\ [Next]_vars =>
        [\A k \in PairKeys :
          pairs[k] # None /\ pairs'[k] = None
            => \/ exited[ClientOf(pairs[k])] /\ exited[WorkerOf(pairs[k])]
               \/ \E e \in pairRev : e[1] = k /\ e[2] # pairs[k]]_vars
  <2> SUFFICES ASSUME TypeOK, SweptOK, [Next]_vars, NEW k \in PairKeys,
                      pairs[k] # None, pairs'[k] = None
               PROVE  \/ exited[ClientOf(pairs[k])] /\ exited[WorkerOf(pairs[k])]
                      \/ \E e \in pairRev : e[1] = k /\ e[2] # pairs[k]
    OBVIOUS
  <2>1. \/ RemovePair
        \/ pairs' = pairs
        \/ \E c \in Conn : pairs' = [pairs EXCEPT ![PairKey(c)] = c]
    BY DEF Next, Validate, TokenMatch, AddPair, AddTenant, SendStart, HandlerReturn,
       FwdCheck, FwdReceive, FwdSend, SweepPairs, SweepWaitLine, RemoveTenant,
       RemoteSend, Disconnect, tableVars, vars
  <2>2. RemovePair
    BY <2>1, NoneAssumption DEF TypeOK
  <2>3. PICK e \in pairRev : pairs' = [pairs EXCEPT ![e[1]] = None]
    BY <2>2 DEF RemovePair
  <2>4. e[1] = k
    BY <2>3 DEF TypeOK
  <2>5. exited[ClientOf(e[2])] /\ exited[WorkerOf(e[2])]
    BY DEF SweptOK
  <2> QED
    BY <2>4, <2>5
<1> QED
  BY <1>1, RolesCorrect, SweptCorrect, PTL DEF Spec, UntrackedOnlyWhenEnded

\* Arrivals in sequence are always paired: a client and a server of a session
\* both wait only if their handlers overlapped between the two critical
\* sections of OnTenant (tokenMatch 111-134, addTenant 40-44).
THEOREM StrandedOnlyByRaceHolds == Spec => []StrandedOnlyByRace
<1>1. Init => RaceOK
  BY NoneAssumption DEF Init, RaceOK, Unmatched, Waiting
<1>2. TypeOK /\ Roles /\ RaceOK /\ [Next]_vars => RaceOK'
  <2> SUFFICES ASSUME TypeOK, Roles, RaceOK, [Next]_vars,
                      NEW a \in Conn, NEW b \in Conn,
                      Unmatched(a)', Unmatched(b)', Opposite(result[a], result[b])'
               PROVE  ({a, b} \in raced)'
    BY DEF RaceOK
  <2>1. raced \subseteq raced'
    BY DEF Next, Validate, TokenMatch, AddPair, AddTenant, SendStart, HandlerReturn,
       FwdCheck, FwdReceive, FwdSend, SweepPairs, RemovePair, SweepWaitLine,
       RemoveTenant, RemoteSend, Disconnect, tenantVars, vars
  <2>2. ASSUME NEW c \in Conn, TokenMatch(c) PROVE ({a, b} \in raced)'
    <3>1. result' = result /\ waitLine' = waitLine
      BY <2>2 DEF TokenMatch, tableVars
    <3>2. CASE pc' = [pc EXCEPT ![c] = "pairing"]
      <4>1. Unmatched(a) /\ Unmatched(b)
        BY <3>1, <3>2 DEF Unmatched, Waiting, TypeOK
      <4> QED
        BY <2>1, <3>1, <4>1 DEF RaceOK
    <3>3. CASE /\ \A r \in Result : waitLine[r] # None => ~ Opposite(result[c], r)
               /\ pc' = [pc EXCEPT ![c] = "queueing"]
               /\ raced' = raced \cup {{c, d} : d \in {e \in Conn : pc[e] = "queueing"}}
      <4>1. \A t \in Conn : t # c /\ Unmatched(t)' => Unmatched(t)
        BY <3>1, <3>3 DEF Unmatched, Waiting, TypeOK
      <4>2. ASSUME NEW t \in Conn, Waiting(t) PROVE ~ Opposite(result[c], result[t])
        <5>1. PICK r \in Result : waitLine[r] = t
          BY <4>2 DEF Waiting
        <5>2. result[t] = r /\ waitLine[r] # None
          BY <5>1, NoneAssumption DEF Roles, QueueOK
        <5> QED
          BY <3>3, <5>2
      <4>3. ASSUME NEW t \in Conn, t # c, Unmatched(t), Opposite(result[c], result[t])
            PROVE  {c, t} \in raced'
        <5>1. pc[t] = "queueing"
          BY <4>2, <4>3 DEF Unmatched
        <5> QED
          BY <3>3, <5>1
      <4>4. \A t \in Conn : Unmatched(t)' => result[t] \in Result
        BY <2>2, <3>1, <4>1, NoneAssumption
        DEF Unmatched, Waiting, TokenMatch, Roles, StageOK, QueueOK, Settled
      <4>5. a # b
        BY <3>1, <4>4 DEF Opposite, Result
      <4>6. Opposite(result[b], result[a])
        BY <3>1, <4>4 DEF Opposite, Result
      <4>7. {a, b} = {b, a}
        OBVIOUS
      <4> QED
        BY <2>1, <3>1, <4>1, <4>3, <4>5, <4>6, <4>7 DEF RaceOK
    <3> QED
      BY <2>2, <3>2, <3>3 DEF TokenMatch
  <2>3. ASSUME NEW c \in Conn, NEW t \in Conn, Unmatched(t)', Validate(c)
        PROVE  Unmatched(t) /\ result'[t] = result[t]
    <3>1. waitLine' = waitLine /\ (pc'[t] = "queueing" => pc[t] = "queueing")
      BY <2>3 DEF Validate, tableVars, TypeOK
    <3>2. Unmatched(t)
      BY <2>3, <3>1 DEF Unmatched, Waiting
    <3>3. result[t] # None
      BY <3>2, NoneAssumption DEF Unmatched, Waiting, Roles, StageOK, QueueOK
    <3> QED
      BY <3>2, <3>3, Stable
  <2>4. ASSUME NEW c \in Conn, AddTenant(c) PROVE \A t \in Conn : Unmatched(t)' => Unmatched(t)
    BY <2>4 DEF AddTenant, Unmatched, Waiting, TypeOK
  <2>5. ASSUME NEW c \in Conn, AddPair(c) \/ SendStart(c) \/ HandlerReturn(c)
        PROVE  \A t \in Conn : Unmatched(t)' => Unmatched(t)
    <3>1. \E g \in {"starting", "served", "closed"} : pc' = [pc EXCEPT ![c] = g]
      BY <2>5 DEF AddPair, SendStart, HandlerReturn
    <3>2. waitLine' = waitLine
      BY <2>5 DEF AddPair, SendStart, HandlerReturn, tableVars
    <3> QED
      BY <3>1, <3>2 DEF Unmatched, Waiting, TypeOK
  <2>6. ASSUME RemoveTenant PROVE \A t \in Conn : Unmatched(t)' => Unmatched(t)
    BY <2>6, NoneAssumption DEF RemoveTenant, Unmatched, Waiting, tenantVars, TypeOK
  <2>7. \/ \E c \in Conn : \/ TokenMatch(c) \/ Validate(c) \/ AddTenant(c)
                           \/ AddPair(c) \/ SendStart(c) \/ HandlerReturn(c)
        \/ RemoveTenant
        \/ UNCHANGED <<pc, waitLine>>
    BY DEF Next, FwdCheck, FwdReceive, FwdSend, SweepPairs, RemovePair, SweepWaitLine,
       RemoteSend, Disconnect, tenantVars, tableVars, vars
  <2>8. (\E c \in Conn : Validate(c)) \/ result' = result
    BY DEF Next, TokenMatch, AddPair, SendStart, AddTenant, HandlerReturn, FwdCheck,
       FwdReceive, FwdSend, SweepPairs, RemovePair, SweepWaitLine, RemoveTenant,
       RemoteSend, Disconnect, tenantVars, vars
  <2>9. CASE \E c \in Conn : Validate(c)
    BY <2>1, <2>3, <2>9 DEF RaceOK
  <2>10. CASE result' = result /\ \A t \in Conn : Unmatched(t)' => Unmatched(t)
    BY <2>1, <2>10 DEF RaceOK
  <2>11. CASE UNCHANGED <<pc, waitLine>> /\ result' = result
    BY <2>1, <2>11 DEF RaceOK, Unmatched, Waiting
  <2> QED
    BY <2>2, <2>4, <2>5, <2>6, <2>7, <2>8, <2>9, <2>10, <2>11
<1>3. TypeOK /\ Roles /\ RaceOK => StrandedOnlyByRace
  <2> SUFFICES ASSUME TypeOK, Roles, RaceOK, NEW r \in Result, NEW s \in Result,
                      waitLine[r] # None, waitLine[s] # None, Opposite(r, s)
               PROVE  {waitLine[r], waitLine[s]} \in raced
    BY DEF StrandedOnlyByRace
  <2> QED
    BY DEF TypeOK, Roles, QueueOK, RaceOK, Unmatched, Waiting
<1> QED
  BY <1>1, <1>2, <1>3, RolesCorrect, PTL DEF Spec

\* The server implements the rendezvous: Validate joins, AddPair links an
\* arrival that has no link, FwdSend lets a tenant hear its link, and every
\* other step changes nothing the rendezvous shows.
THEOREM RefinesRendezvous == Spec => ImplementsRendezvous
<1> USE DEF R!Join, R!Link, R!Hear, R!Linked
<1>1. Init => R!Init
  BY DEF Init, R!Init, Links, Dir
<1>2. TypeOK /\ Roles /\ [Next]_vars => [R!Next]_(R!vars)
  <2> SUFFICES ASSUME TypeOK, Roles, [Next]_vars PROVE R!Next \/ UNCHANGED R!vars
    OBVIOUS
  <2>1. ASSUME NEW c \in Conn, Validate(c) PROVE R!Next \/ UNCHANGED R!vars
    <3>1. result[c] = None /\ Links' = Links /\ got' = got
      BY <2>1 DEF Validate, Links, Roles, StageOK, historyVars
    <3>2. \A r \in Verdicts[c] \ {None} : r \in Result
      BY VerdictsAssumption
    <3>3. result' = result \/ \E r \in Verdicts[c] \ {None} : result' = [result EXCEPT ![c] = r]
      BY <2>1 DEF Validate
    <3> QED
      BY <3>1, <3>2, <3>3 DEF R!Next, R!vars
  <2>2. ASSUME NEW c \in Conn, AddPair(c) PROVE R!Next
    <3>1. /\ peer[c] # None /\ fwd[c]["up"] = "none"
          /\ UNCHANGED <<result, peer, got>>
      BY <2>2 DEF AddPair, Roles, StageOK, historyVars
    <3>2. /\ peer[c] \in Conn /\ result[c] \in Result /\ result[peer[c]] \in Result
          /\ Opposite(result[c], result[peer[c]])
      BY <3>1 DEF TypeOK, Roles, PeerOK, Settled
    <3>3. \A t \in Conn : ~ R!Linked(c, t)
      <4>1. \A t \in Conn : fwd[t]["up"] # "none" => peer[t] # None /\ peer[t] # c
        BY <3>1 DEF Roles, StageOK, PeerOK, Settled
      <4> QED
        BY <3>1, <4>1 DEF Links
    <3>4. Links' = Links \cup {<<c, peer[c]>>}
      <4>1. fwd' = [fwd EXCEPT ![c] = [d \in Dir |-> "check"]]
        BY <2>2 DEF AddPair
      <4>2. \A t \in Conn : fwd'[t]["up"] # "none" <=> fwd[t]["up"] # "none" \/ t = c
        BY <4>1 DEF TypeOK, Dir
      <4>3. Links' = {<<t, peer[t]>> : t \in {e \in Conn : fwd'[e]["up"] # "none"}}
        BY <3>1 DEF Links
      <4>4. {e \in Conn : fwd'[e]["up"] # "none"} = {e \in Conn : fwd[e]["up"] # "none"} \cup {c}
        BY <4>2
      <4> QED
        BY <4>3, <4>4 DEF Links
    <3> QED
      BY <3>1, <3>2, <3>3, <3>4 DEF R!Next
  <2>3. ASSUME NEW c \in Conn, NEW d \in Dir, Forward(c, d) PROVE Links' = Links
    <3>1. /\ fwd[c][d] # "none" /\ peer' = peer
          /\ \E a \in FwdAt \ {"none"} : fwd' = [fwd EXCEPT ![c][d] = a]
      BY <2>3 DEF Forward, FwdCheck, FwdReceive, FwdSend, tenantVars, FwdAt
    <3>2. \A t \in Conn : fwd'[t]["up"] = "none" <=> fwd[t]["up"] = "none"
      BY <3>1 DEF TypeOK, Dir
    <3> QED
      BY <3>1, <3>2 DEF Links
  <2>4. ASSUME NEW c \in Conn, NEW d \in Dir, FwdSend(c, d) PROVE R!Next \/ UNCHANGED R!vars
    <3>1. fwd[c]["up"] # "none" /\ peer[c] # None
      BY <2>4 DEF FwdSend, Roles, StageOK
    <3>2. result' = result /\ Links' = Links
      BY <2>3, <2>4 DEF FwdSend, Forward, tenantVars
    <3>3. Source(c, d) \in Conn /\ Sink(c, d) \in Conn
      BY <3>1, PairEnds DEF Source, Sink
    <3>4. R!Linked(Source(c, d), Sink(c, d))
      BY <3>1, PairEnds DEF Links, Source, Sink, ClientOf, WorkerOf
    <3>5. \/ got' = got
          \/ got' = [got EXCEPT ![Sink(c, d)] = @ \cup {Source(c, d)}]
      BY <2>4 DEF FwdSend
    <3> QED
      BY <3>2, <3>3, <3>4, <3>5 DEF R!Next, R!vars
  <2>5. ASSUME NEW c \in Conn, TokenMatch(c) PROVE UNCHANGED R!vars
    <3>1. fwd[c]["up"] = "none"
      BY <2>5 DEF TokenMatch, Roles, StageOK
    <3>2. peer' = peer \/ \E r \in Result : peer' = [peer EXCEPT ![c] = waitLine[r]]
      BY <2>5 DEF TokenMatch
    <3>3. \A t \in {e \in Conn : fwd[e]["up"] # "none"} : peer'[t] = peer[t]
      BY <3>1, <3>2 DEF TypeOK
    <3> QED
      BY <2>5, <3>3 DEF TokenMatch, Links, R!vars, historyVars
  <2>6. ASSUME NEW c \in Conn, NEW d \in Dir, FwdCheck(c, d) \/ FwdReceive(c, d)
        PROVE  UNCHANGED R!vars
    BY <2>3, <2>6 DEF Forward, FwdCheck, FwdReceive, R!vars, tenantVars, historyVars
  <2>7. \/ UNCHANGED <<result, peer, fwd, got>>
        \/ \E c \in Conn : Validate(c) \/ AddPair(c) \/ TokenMatch(c)
        \/ \E c \in Conn, d \in Dir : FwdSend(c, d) \/ FwdCheck(c, d) \/ FwdReceive(c, d)
    BY DEF Next, SendStart, AddTenant, HandlerReturn, SweepPairs, RemovePair,
       SweepWaitLine, RemoveTenant, RemoteSend, Disconnect, tenantVars, historyVars, vars
  <2> QED
    BY <2>1, <2>2, <2>4, <2>5, <2>6, <2>7 DEF R!vars, Links
<1> QED
  BY <1>1, <1>2, RolesCorrect, PTL DEF Spec, ImplementsRendezvous, R!Spec

-----------------------------------------------------------------------------
(* The supervisor of the server: it runs one server at a time, for any     *)
(* number of spawns and calls, while no event of an earlier child is late. *)

ChildTypes ==
    /\ process \in Nat
    /\ running \subseteq 1 .. process /\ exits \subseteq 1 .. process /\ closes \subseteq 1 .. process

\* A child has at most one end ahead of it; as long as no event came late, the
\* last is the only one that may run, and does not while exited is believed.
Supervised ==
    /\ ChildTypes
    /\ running \cap (exits \cup closes) = {}
    /\ ~ late => running \subseteq {process} /\ (childExited => running = {})

LEMMA SupervisedSpawn == ASSUME Supervised, Tick PROVE Supervised'
<1> USE DEF Supervised, ChildTypes
<1>1. /\ process' = process + 1 /\ childExited' = FALSE /\ UNCHANGED <<exits, late>>
      /\ \/ running' = running \cup {process'} /\ UNCHANGED closes
         \/ closes' = closes \cup {process'} /\ UNCHANGED running
  BY DEF Tick, Spawn
<1>2. ~ late => running = {}
  BY DEF Tick
<1>3. process' \notin running \cup exits \cup closes
  BY <1>1
<1>4. ChildTypes'
  <2>1. process' \in Nat /\ process' \in 1 .. process' /\ 1 .. process \subseteq 1 .. process'
    BY <1>1
  <2>2. /\ running' \subseteq running \cup {process'}
        /\ closes' \subseteq closes \cup {process'} /\ exits' = exits
    BY <1>1
  <2> QED
    BY <2>1, <2>2
<1>5. (running \cap (exits \cup closes) = {})'
  BY <1>1, <1>3
<1>6. (~ late => running \subseteq {process} /\ (childExited => running = {}))'
  BY <1>1, <1>2
<1> QED
  BY <1>4, <1>5, <1>6

LEMMA SupervisedEvents ==
    ASSUME Supervised, NEW c \in Children, Ends(c) \/ OnExit(c) \/ OnClose(c)
    PROVE  Supervised'
<1> USE DEF Supervised, ChildTypes
<1>1. CASE Ends(c)
  BY <1>1 DEF Ends
<1>2. CASE OnExit(c)
  BY <1>2 DEF OnExit
<1>3. CASE OnClose(c)
  BY <1>3 DEF OnClose
<1> QED
  BY <1>1, <1>2, <1>3

LEMMA SupervisedInductive == ASSUME Supervised, [SupervisorNext]_supervisorVars PROVE Supervised'
<1>1. CASE UNCHANGED <<process, late, running, exits, closes, childExited>>
  BY <1>1 DEF Supervised, ChildTypes
<1>2. CASE Start \/ Stop \/ UNCHANGED supervisorVars
  BY <1>1, <1>2 DEF Start, Stop, supervisorVars
<1>3. CASE Tick
  BY <1>3, SupervisedSpawn
<1>4. ASSUME NEW c \in Children, Ends(c) \/ OnExit(c) \/ OnClose(c)
      PROVE  Supervised'
  BY <1>4, SupervisedEvents
<1> QED
  BY <1>2, <1>3, <1>4 DEF SupervisorNext

LEMMA SupervisedOneChild == ASSUME Supervised PROVE OneChild
<1>1. CASE late
  BY <1>1 DEF OneChild
<1>2. CASE ~ late
  BY <1>2 DEF OneChild, Supervised
<1> QED
  BY <1>1, <1>2

\* Two servers run at a time only after an event of an earlier child came when
\* its successor had been spawned, however often the supervisor is started.
THEOREM OneChildHolds == SupervisorSpec => []OneChild
<1>1. SupervisorInit => Supervised
  BY DEF SupervisorInit, Supervised, ChildTypes
<1> QED
  BY <1>1, SupervisedInductive, SupervisedOneChild, PTL DEF SupervisorSpec
=============================================================================
