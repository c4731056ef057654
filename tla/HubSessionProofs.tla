--------------------------- MODULE HubSessionProofs ---------------------------
(***************************************************************************)
(* Theorems about HubSession for every bound on what the peer sends: its   *)
(* invariants, and that the hub is the Peer its browser expects.           *)
(***************************************************************************)
EXTENDS HubSession, TLAPS

(* Sequences: what Head, Tail and Append do to the elements.               *)

LEMMA HeadTail ==
    ASSUME NEW S, NEW q \in Seq(S), q # <<>>
    PROVE  Head(q) \in S /\ Tail(q) \in Seq(S)
OBVIOUS

LEMMA AppendElems ==
    ASSUME NEW S, NEW q \in Seq(S), NEW x \in S
    PROVE  /\ Len(Append(q, x)) = Len(q) + 1
           /\ Append(q, x)[Len(q) + 1] = x
           /\ \A i \in 1 .. Len(q) : Append(q, x)[i] = q[i]
OBVIOUS

LEMMA TailElems ==
    ASSUME NEW S, NEW q \in Seq(S), q # <<>>
    PROVE  /\ Len(q) = Len(Tail(q)) + 1
           /\ Head(q) = q[1]
           /\ \A i \in 1 .. Len(Tail(q)) : Tail(q)[i] = q[i + 1]
OBVIOUS

-----------------------------------------------------------------------------
(* Types, by the part of TypeOK a variable belongs to: the first case of   *)
(* each lemma is every action that leaves the part alone.                  *)

LEMMA PeerTypesStep ==
    ASSUME PeerTypes, [Next]_vars
    PROVE  PeerTypes'
<1> USE DEF PeerTypes
<1>1. CASE UNCHANGED peerVars
  BY <1>1 DEF peerVars
<1>2. CASE PeerStart
  BY <1>2 DEF PeerStart, Arrive
<1>3. CASE PeerSelects
  BY <1>3 DEF PeerSelects, Arrive
<1>4. CASE PeerAnswersOffer
  BY <1>4 DEF PeerAnswersOffer, Arrive
<1>5. CASE PeerTrickles
  BY <1>5 DEF PeerTrickles, Arrive
<1>6. CASE RecvPacket
  BY <1>6 DEF RecvPacket
<1>7. CASE Select
  BY <1>7 DEF Select
<1>8. CASE SendOffer
  BY <1>8 DEF SendOffer
<1>9. CASE UNCHANGED vars
  BY <1>9, <1>1 DEF vars
<1> HIDE DEF PeerTypes
<1> QED
  BY <1>1, <1>2, <1>3, <1>4, <1>5, <1>6, <1>7, <1>8, <1>9 DEF Next,
     StreamLost, IceChanges, RecvError, RecvShutdown, HandSdp, HandIce,
     HandSelection, GiveSdp, ApplyAnswer, GiveIce, CheckIce, AddIce,
     TimerArmed, TimerFires, StarterFires, Decide, ConnectionState, Listen,
     StopClose, StopSignal, StopListeners, StopShutdown, Arrive

LEMMA StreamTypesStep ==
    ASSUME StreamTypes, [Next]_vars
    PROVE  StreamTypes'
<1> USE DEF StreamTypes
<1>1. CASE UNCHANGED streamVars
  BY <1>1 DEF streamVars
<1>2. CASE PeerStart
  BY <1>2 DEF PeerStart, Arrive, Packets, Selections
<1>3. CASE PeerSelects
  BY <1>3 DEF PeerSelects, Arrive, Packets, Selections
<1>4. CASE PeerAnswersOffer
  BY <1>4 DEF PeerAnswersOffer, Arrive, Packets, Selections
<1>5. CASE PeerTrickles
  BY <1>5 DEF PeerTrickles, Arrive, Packets, Selections
<1>6. CASE StreamLost
  BY <1>6 DEF StreamLost, Packets, Selections
<1>7. CASE RecvPacket
  BY <1>7 DEF RecvPacket, Packets, Selections
<1>8. ASSUME NEW s \in Stoppers, StopSignal(s) PROVE StreamTypes'
  BY <1>8 DEF StopSignal, Packets, Selections
<1>9. CASE UNCHANGED vars
  BY <1>9, <1>1 DEF vars
<1> HIDE DEF StreamTypes
<1> QED
  BY <1>1, <1>2, <1>3, <1>4, <1>5, <1>6, <1>7, <1>8, <1>9 DEF Next,
     IceChanges, RecvError, RecvShutdown, HandSdp, HandIce, HandSelection,
     Select, GiveSdp, ApplyAnswer, GiveIce, CheckIce, AddIce, SendOffer,
     TimerArmed, TimerFires, StarterFires, Decide, ConnectionState, Listen,
     StopClose, StopListeners, StopShutdown, Arrive

LEMMA LoopTypesStep ==
    ASSUME LoopTypes, inq \in Seq(Packets), [Next]_vars
    PROVE  LoopTypes'
<1> USE DEF LoopTypes
<1>1. CASE UNCHANGED <<recv, sdpVars, iceVars, selector, flagVars>>
  BY <1>1 DEF sdpVars, iceVars, flagVars
<1>2. CASE RecvPacket
  <2>1. Head(inq) \in Packets
    BY <1>2, HeadTail DEF RecvPacket
  <2>2. recv' \in {recv} \cup (Packets \ {"START", "garbled"})
    BY <1>2, <2>1 DEF RecvPacket
  <2>3. connected' \in {connected, TRUE}
    BY <1>2 DEF RecvPacket
  <2>4. UNCHANGED <<onSdp, sdpW, rejected, onIce, iceW, selector, selected>>
    BY <1>2 DEF RecvPacket, sdpVars, iceVars
  <2>5. recv' \in {"read", "SDP", "ICE", "good", "refused", "shutdown", "ended"}
    BY <2>2 DEF Packets, Selections
  <2>6. connected' \in BOOLEAN
    BY <2>3
  <2> QED
    BY <2>4, <2>5, <2>6
<1>3. CASE RecvError
  BY <1>3 DEF RecvError, sdpVars, iceVars, flagVars
<1>4. CASE RecvShutdown
  BY <1>4 DEF RecvShutdown, sdpVars, iceVars, flagVars
<1>5. CASE HandSdp
  BY <1>5 DEF HandSdp, iceVars, flagVars
<1>6. CASE HandIce
  BY <1>6 DEF HandIce, sdpVars, flagVars
<1>7. CASE HandSelection
  BY <1>7 DEF HandSelection, sdpVars, iceVars, flagVars, Packets, Selections
<1>8. CASE Select
  BY <1>8 DEF Select, sdpVars, iceVars
<1>9. CASE GiveSdp
  BY <1>9 DEF GiveSdp, iceVars, flagVars
<1>10. CASE ApplyAnswer
  BY <1>10 DEF ApplyAnswer, iceVars, flagVars
<1>11. CASE GiveIce
  BY <1>11 DEF GiveIce, sdpVars, flagVars
<1>12. CASE CheckIce
  BY <1>12 DEF CheckIce, sdpVars, flagVars
<1>13. CASE AddIce
  BY <1>13 DEF AddIce, sdpVars, flagVars
<1>14. CASE UNCHANGED vars
  BY <1>14, <1>1 DEF vars
<1> HIDE DEF LoopTypes
<1> QED
  BY <1>1, <1>2, <1>3, <1>4, <1>5, <1>6, <1>7, <1>8, <1>9, <1>10, <1>11,
     <1>12, <1>13, <1>14 DEF Next, PeerStart, PeerSelects, PeerAnswersOffer,
     PeerTrickles, StreamLost, IceChanges, SendOffer, TimerArmed,
     TimerFires, StarterFires, Decide, ConnectionState, Listen, StopClose,
     StopSignal, StopListeners, StopShutdown, Arrive

LEMMA TimerTypesStep ==
    ASSUME TimerTypes, [Next]_vars
    PROVE  TimerTypes'
<1> USE DEF TimerTypes
<1>1. CASE UNCHANGED timerVars
  BY <1>1 DEF timerVars
<1>2. CASE TimerArmed
  BY <1>2 DEF TimerArmed
<1>3. CASE TimerFires
  BY <1>3 DEF TimerFires
<1>4. CASE StarterFires
  BY <1>4 DEF StarterFires
<1>5. CASE Decide
  <2>1. start' \in Seq(BOOLEAN)
    BY <1>5, HeadTail DEF Decide
  <2>2. timer' = timer /\ starter' = starter /\ decider' = "done"
    BY <1>5 DEF Decide
  <2> QED
    BY <2>1, <2>2
<1>6. CASE UNCHANGED vars
  BY <1>6, <1>1 DEF vars
<1> HIDE DEF TimerTypes
<1> QED
  BY <1>1, <1>2, <1>3, <1>4, <1>5, <1>6 DEF Next, PeerStart, PeerSelects,
     PeerAnswersOffer, PeerTrickles, StreamLost, IceChanges, RecvPacket,
     RecvError, RecvShutdown, HandSdp, HandIce, HandSelection, Select,
     GiveSdp, ApplyAnswer, GiveIce, CheckIce, AddIce, SendOffer,
     ConnectionState, Listen, StopClose, StopSignal, StopListeners,
     StopShutdown, Arrive

LEMMA MediaTypesStep ==
    ASSUME MediaTypes, [Next]_vars
    PROVE  MediaTypes'
<1> USE DEF MediaTypes
<1>1. CASE UNCHANGED <<rtcVars, mediaVars, stopVars, main>>
  BY <1>1 DEF rtcVars, mediaVars, stopVars
<1>2. CASE IceChanges
  BY <1>2 DEF IceChanges, mediaVars, stopVars, Stoppers, StopStages
<1>3. CASE RecvShutdown
  BY <1>3 DEF RecvShutdown, rtcVars, mediaVars, stopVars, Stoppers,
     StopStages
<1>4. CASE ApplyAnswer
  BY <1>4 DEF ApplyAnswer, mediaVars, stopVars, Stoppers, StopStages
<1>5. CASE AddIce
  BY <1>5 DEF AddIce, rtcVars, mediaVars, stopVars, Stoppers, StopStages
<1>6. CASE SendOffer
  BY <1>6 DEF SendOffer, mediaVars, stopVars, Stoppers, StopStages
<1>7. CASE Decide
  <2>1. started' = started \/ started' = TRUE
    BY <1>7 DEF Decide
  <2>2. started' \in BOOLEAN
    BY <2>1
  <2>3. offers' = offers \/ offers' = offers + 1
    BY <1>7 DEF Decide
  <2>4. offers' \in Nat
    BY <2>3
  <2>5. stop' = stop \/ stop' = [stop EXCEPT !["decider"] = "close"]
    BY <1>7 DEF Decide
  <2>6. stop' \in [Stoppers -> StopStages]
    BY <2>5 DEF Stoppers, StopStages
  <2>7. UNCHANGED <<iceState, iceEvent, remoteSet, pcClosed, listening, lisClosed,
                    connLoop, main>>
    BY <1>7 DEF Decide
  <2> QED
    BY <2>2, <2>4, <2>6, <2>7
<1>8. CASE ConnectionState
  BY <1>8 DEF ConnectionState, mediaVars, Stoppers, StopStages
<1>9. CASE Listen
  <2>1. listening' = listening \/ listening' = TRUE
    BY <1>9 DEF Listen
  <2>2. listening' \in BOOLEAN
    BY <2>1
  <2>3. offers' = offers \/ offers' = offers + 1
    BY <1>9 DEF Listen
  <2>4. offers' \in Nat
    BY <2>3
  <2>5. connLoop' = "wait" /\ stop' = stop /\ main' = main
    BY <1>9 DEF Listen
  <2>6. UNCHANGED <<iceState, iceEvent, remoteSet, pcClosed, started, lisClosed>>
    BY <1>9 DEF Listen
  <2> QED
    BY <2>2, <2>4, <2>5, <2>6
<1>10. ASSUME NEW s \in Stoppers, StopClose(s) PROVE MediaTypes'
  BY <1>10 DEF StopClose, mediaVars, Stoppers, StopStages
<1>11. ASSUME NEW s \in Stoppers, StopSignal(s) PROVE MediaTypes'
  BY <1>11 DEF StopSignal, rtcVars, mediaVars, Stoppers, StopStages
<1>12. ASSUME NEW s \in Stoppers, StopListeners(s) PROVE MediaTypes'
  BY <1>12 DEF StopListeners, rtcVars, Stoppers, StopStages
<1>13. ASSUME NEW s \in Stoppers, StopShutdown(s) PROVE MediaTypes'
  BY <1>13 DEF StopShutdown, rtcVars, mediaVars, Stoppers, StopStages
<1>14. CASE UNCHANGED vars
  BY <1>14, <1>1 DEF vars
<1> HIDE DEF MediaTypes
<1> QED
  BY <1>1, <1>2, <1>3, <1>4, <1>5, <1>6, <1>7, <1>8, <1>9, <1>10, <1>11,
     <1>12, <1>13, <1>14 DEF Next, PeerStart, PeerSelects, PeerAnswersOffer,
     PeerTrickles, StreamLost, RecvPacket, RecvError, HandSdp, HandIce,
     HandSelection, Select, GiveSdp, GiveIce, CheckIce, TimerArmed,
     TimerFires, StarterFires, Arrive

LEMMA TypeInit ==
    ASSUME Init
    PROVE  TypeOK
<1> USE DEF Init
<1>1. PeerTypes
  BY DEF PeerTypes
<1>2. StreamTypes
  BY DEF StreamTypes
<1>3. LoopTypes
  BY DEF LoopTypes
<1>4. TimerTypes
  BY DEF TimerTypes
<1>5. MediaTypes
  BY DEF MediaTypes, StopStages
<1> QED
  BY <1>1, <1>2, <1>3, <1>4, <1>5 DEF TypeOK

LEMMA TypeStep ==
    ASSUME TypeOK, [Next]_vars
    PROVE  TypeOK'
<1>1. PeerTypes /\ StreamTypes /\ LoopTypes /\ TimerTypes /\ MediaTypes
  BY DEF TypeOK
<1>2. inq \in Seq(Packets)
  BY <1>1 DEF StreamTypes
<1>3. PeerTypes'
  BY <1>1, PeerTypesStep
<1>4. StreamTypes'
  BY <1>1, StreamTypesStep
<1>5. LoopTypes'
  BY <1>1, <1>2, LoopTypesStep
<1>6. TimerTypes'
  BY <1>1, TimerTypesStep
<1>7. MediaTypes'
  BY <1>1, MediaTypesStep
<1> QED
  BY <1>3, <1>4, <1>5, <1>6, <1>7 DEF TypeOK

\* Type correctness of the goroutines' stages, channels and flags (proxy.go,
\* grpc.go, webrtc.go).
THEOREM TypeCorrect == Spec => []TypeOK
<1>1. Init => TypeOK
  BY TypeInit
<1>2. TypeOK /\ [Next]_vars => TypeOK'
  BY TypeStep
<1> QED
  BY <1>1, <1>2, PTL DEF Spec

-----------------------------------------------------------------------------
(* Chain: each link is kept by every step, given the links before it.      *)

LEMMA StartTakenStep ==
    ASSUME start \in Seq(BOOLEAN), selected \in BOOLEAN, StartTaken, [Next]_vars
    PROVE  StartTaken'
<1> USE DEF StartTaken
<1>1. CASE UNCHANGED <<start, selected>>
  BY <1>1
<1>2. CASE Select
  BY <1>2 DEF Select, timerVars
<1>3. CASE TimerFires
  BY <1>3 DEF TimerFires, flagVars
<1>4. CASE StarterFires
  BY <1>4 DEF StarterFires, flagVars
<1>5. CASE Decide
  <2>1. start' = Tail(start) /\ selected' = selected /\ start # <<>>
    BY <1>5 DEF Decide, flagVars
  <2>2. Len(start') = Len(start) - 1 /\ \A i \in 1 .. Len(start') : start'[i] = start[i + 1]
    BY <2>1
  <2> QED
    BY <2>1, <2>2
<1>6. CASE UNCHANGED vars
  BY <1>6, <1>1 DEF vars, flagVars, timerVars
<1> HIDE DEF StartTaken
<1> QED
  BY <1>1, <1>2, <1>3, <1>4, <1>5, <1>6 DEF Next, PeerStart, PeerSelects,
     PeerAnswersOffer, PeerTrickles, StreamLost, IceChanges, RecvPacket,
     RecvError, RecvShutdown, HandSdp, HandIce, HandSelection, GiveSdp,
     ApplyAnswer, GiveIce, CheckIce, AddIce, SendOffer, TimerArmed,
     ConnectionState, Listen, StopClose, StopSignal, StopListeners,
     StopShutdown, Arrive, flagVars, timerVars

LEMMA StartedTakenStep ==
    ASSUME start \in Seq(BOOLEAN), StartTaken, StartedTaken, [Next]_vars
    PROVE  StartedTaken'
<1> USE DEF StartedTaken
<1>1. CASE UNCHANGED <<started, selected>>
  BY <1>1
<1>2. CASE Select
  <2>1. started' = started /\ (selected' = selected \/ selected' = TRUE)
    BY <1>2 DEF Select, mediaVars
  <2> QED
    BY <2>1
<1>3. CASE Decide
  <2>1. selected' = selected /\ (started' = started \/ Head(start))
    BY <1>3 DEF Decide, flagVars
  <2>2. start # <<>>
    BY <1>3 DEF Decide
  <2>3. 1 \in 1 .. Len(start) /\ Head(start) = start[1]
    BY <2>2
  <2>4. Head(start) => selected
    BY <2>3 DEF StartTaken
  <2> QED
    BY <2>1, <2>4
<1>4. CASE UNCHANGED vars
  BY <1>4, <1>1 DEF vars, flagVars, mediaVars
<1> HIDE DEF StartedTaken
<1> QED
  BY <1>1, <1>2, <1>3, <1>4 DEF Next, PeerStart, PeerSelects,
     PeerAnswersOffer, PeerTrickles, StreamLost, IceChanges, RecvPacket,
     RecvError, RecvShutdown, HandSdp, HandIce, HandSelection, GiveSdp,
     ApplyAnswer, GiveIce, CheckIce, AddIce, SendOffer, TimerArmed,
     TimerFires, StarterFires, ConnectionState, Listen, StopClose,
     StopSignal, StopListeners, StopShutdown, Arrive, flagVars, mediaVars

LEMMA OffersStartedStep ==
    ASSUME offers \in Nat, due \in Nat, OffersStarted, MediaAnswered, WorkersAnswered, [Next]_vars
    PROVE  OffersStarted'
<1> USE DEF OffersStarted
<1>1. CASE UNCHANGED <<offers, due, answered, started>>
  BY <1>1
<1>2. CASE PeerAnswersOffer
  BY <1>2 DEF PeerAnswersOffer, Arrive, rtcVars, mediaVars
<1>3. CASE SendOffer
  BY <1>3 DEF SendOffer, mediaVars
<1>4. CASE Decide
  BY <1>4 DEF Decide, peerVars
<1>5. CASE Listen
  <2>1. answered
    BY <1>5 DEF Listen, MediaAnswered, WorkersAnswered
  <2>2. started' = started
    BY <1>5 DEF Listen
  <2> QED
    BY <2>1, <2>2
<1>6. CASE UNCHANGED vars
  BY <1>6, <1>1 DEF vars, peerVars, rtcVars, mediaVars
<1> HIDE DEF OffersStarted
<1> QED
  BY <1>1, <1>2, <1>3, <1>4, <1>5, <1>6 DEF Next, PeerStart, PeerSelects,
     PeerTrickles, StreamLost, IceChanges, RecvPacket, RecvError,
     RecvShutdown, HandSdp, HandIce, HandSelection, Select, GiveSdp,
     ApplyAnswer, GiveIce, CheckIce, AddIce, TimerArmed, TimerFires,
     StarterFires, ConnectionState, StopClose, StopSignal, StopListeners,
     StopShutdown, Arrive, peerVars, rtcVars, mediaVars

LEMMA QueueAnsweredStep ==
    ASSUME inq \in Seq(Packets), QueueAnswered, [Next]_vars
    PROVE  QueueAnswered'
<1> USE DEF QueueAnswered
<1>1. CASE UNCHANGED <<inq, answered>>
  BY <1>1
<1>2. CASE PeerStart
  BY <1>2 DEF PeerStart, Arrive
<1>3. CASE PeerSelects
  <2>1. PICK s \in Selections : inq' = Append(inq, s)
    BY <1>3 DEF PeerSelects, Arrive
  <2>2. s \notin {"SDP", "ICE"} /\ answered' = answered
    BY <1>3 DEF Selections, PeerSelects
  <2>3. Len(inq') = Len(inq) + 1 /\ inq'[Len(inq) + 1] = s
    BY <2>1
  <2>4. \A i \in 1 .. Len(inq) : inq'[i] = inq[i]
    BY <2>1
  <2> QED
    BY <2>2, <2>3, <2>4
<1>4. CASE PeerAnswersOffer
  BY <1>4 DEF PeerAnswersOffer, Arrive
<1>5. CASE PeerTrickles
  BY <1>5 DEF PeerTrickles, Arrive
<1>6. CASE RecvPacket
  BY <1>6 DEF RecvPacket
<1>7. CASE UNCHANGED vars
  BY <1>7, <1>1 DEF vars, peerVars, streamVars
<1> HIDE DEF QueueAnswered
<1> QED
  BY <1>1, <1>2, <1>3, <1>4, <1>5, <1>6, <1>7 DEF Next, StreamLost,
     IceChanges, RecvError, RecvShutdown, HandSdp, HandIce, HandSelection,
     Select, GiveSdp, ApplyAnswer, GiveIce, CheckIce, AddIce, SendOffer,
     TimerArmed, TimerFires, StarterFires, Decide, ConnectionState, Listen,
     StopClose, StopSignal, StopListeners, StopShutdown, Arrive, peerVars,
     streamVars

LEMMA WorkersAnsweredStep ==
    ASSUME inq \in Seq(Packets), QueueAnswered, WorkersAnswered, [Next]_vars
    PROVE  WorkersAnswered'
<1> USE DEF WorkersAnswered
<1>1. CASE UNCHANGED <<recv, onSdp, sdpW, remoteSet, answered>>
  BY <1>1
<1>2. CASE PeerAnswersOffer
  BY <1>2 DEF PeerAnswersOffer, Arrive, sdpVars, rtcVars
<1>3. CASE RecvPacket
  <2>1. inq # <<>> /\ (recv' = recv \/ recv' = Head(inq))
    BY <1>3 DEF RecvPacket
  <2>2. Head(inq) \in {"SDP", "ICE"} => answered
    BY <2>1 DEF QueueAnswered
  <2>3. UNCHANGED <<onSdp, sdpW, remoteSet, answered>>
    BY <1>3 DEF RecvPacket, sdpVars, rtcVars
  <2> QED
    BY <2>1, <2>2, <2>3
<1>4. CASE RecvError
  BY <1>4 DEF RecvError, peerVars, sdpVars, rtcVars
<1>5. CASE RecvShutdown
  BY <1>5 DEF RecvShutdown, peerVars, sdpVars, rtcVars
<1>6. CASE HandSdp
  BY <1>6 DEF HandSdp, peerVars, rtcVars
<1>7. CASE HandIce
  BY <1>7 DEF HandIce, peerVars, sdpVars, rtcVars
<1>8. CASE HandSelection
  BY <1>8 DEF HandSelection, peerVars, sdpVars, rtcVars
<1>9. CASE GiveSdp
  BY <1>9 DEF GiveSdp, peerVars, rtcVars
<1>10. CASE ApplyAnswer
  BY <1>10 DEF ApplyAnswer, peerVars
<1>11. CASE UNCHANGED vars
  BY <1>11, <1>1 DEF vars, peerVars, sdpVars, rtcVars
<1> HIDE DEF WorkersAnswered
<1> QED
  BY <1>1, <1>2, <1>3, <1>4, <1>5, <1>6, <1>7, <1>8, <1>9, <1>10, <1>11 DEF
     Next, PeerStart, PeerSelects, PeerTrickles, StreamLost, IceChanges,
     Select, GiveIce, CheckIce, AddIce, SendOffer, TimerArmed, TimerFires,
     StarterFires, Decide, ConnectionState, Listen, StopClose, StopSignal,
     StopListeners, StopShutdown, Arrive, peerVars, sdpVars, rtcVars

LEMMA MediaAnsweredStep ==
    ASSUME MediaAnswered, [Next]_vars
    PROVE  MediaAnswered'
<1> USE DEF MediaAnswered
<1>1. CASE UNCHANGED <<iceEvent, connLoop, listening, remoteSet>>
  BY <1>1
<1>2. CASE IceChanges
  BY <1>2 DEF IceChanges, mediaVars, stopVars
<1>3. CASE ApplyAnswer
  BY <1>3 DEF ApplyAnswer, mediaVars, stopVars
<1>4. CASE ConnectionState
  BY <1>4 DEF ConnectionState, mediaVars
<1>5. CASE Listen
  BY <1>5 DEF Listen
<1>6. CASE UNCHANGED vars
  BY <1>6, <1>1 DEF vars, rtcVars, mediaVars, stopVars
<1> HIDE DEF MediaAnswered
<1> QED
  BY <1>1, <1>2, <1>3, <1>4, <1>5, <1>6 DEF Next, PeerStart, PeerSelects,
     PeerAnswersOffer, PeerTrickles, StreamLost, RecvPacket, RecvError,
     RecvShutdown, HandSdp, HandIce, HandSelection, Select, GiveSdp,
     GiveIce, CheckIce, AddIce, SendOffer, TimerArmed, TimerFires,
     StarterFires, Decide, StopClose, StopSignal, StopListeners,
     StopShutdown, Arrive, rtcVars, mediaVars, stopVars

-----------------------------------------------------------------------------
(* Order: the answer precedes the candidates from the stream to the        *)
(* goroutine that applies it.                                              *)

LEMMA AnswerKeptStep ==
    ASSUME inq \in Seq(Packets), AnswerKept, [Next]_vars
    PROVE  AnswerKept'
<1> USE DEF AnswerKept, AnswerInWorkers, Queued
<1>1. CASE UNCHANGED <<answered, onSdp, sdpW, remoteSet, rejected, recv, inq>>
  BY <1>1
<1>2. CASE PeerStart
  <2>1. inq' = Append(inq, "START")
    BY <1>2 DEF PeerStart, Arrive
  <2>2. "START" \in Packets
    BY DEF Packets
  <2>3. Len(inq') = Len(inq) + 1 /\ inq'[Len(inq) + 1] = "START"
    BY <2>1, <2>2, AppendElems
  <2>4. \A i \in 1 .. Len(inq) : inq'[i] = inq[i]
    BY <2>1, <2>2, AppendElems
  <2>5. UNCHANGED <<answered, onSdp, sdpW, remoteSet, rejected, recv>>
    BY <1>2 DEF PeerStart, sdpVars, rtcVars
  <2> QED
    BY <2>3, <2>4, <2>5
<1>3. CASE PeerSelects
  <2>1. PICK s \in Selections : inq' = Append(inq, s)
    BY <1>3 DEF PeerSelects, Arrive
  <2>2. s \in Packets
    BY DEF Packets
  <2>3. Len(inq') = Len(inq) + 1 /\ inq'[Len(inq) + 1] = s
    BY <2>1, <2>2, AppendElems
  <2>4. \A i \in 1 .. Len(inq) : inq'[i] = inq[i]
    BY <2>1, <2>2, AppendElems
  <2>5. UNCHANGED <<answered, onSdp, sdpW, remoteSet, rejected, recv>>
    BY <1>3 DEF PeerSelects, sdpVars, rtcVars
  <2> QED
    BY <2>3, <2>4, <2>5
<1>4. CASE PeerAnswersOffer
  <2>1. inq' = Append(inq, "SDP")
    BY <1>4 DEF PeerAnswersOffer, Arrive
  <2>2. "SDP" \in Packets
    BY DEF Packets
  <2>3. Len(inq') = Len(inq) + 1 /\ inq'[Len(inq) + 1] = "SDP"
    BY <2>1, <2>2, AppendElems
  <2>4. \A i \in 1 .. Len(inq) : inq'[i] = inq[i]
    BY <2>1, <2>2, AppendElems
  <2> QED
    BY <2>3
<1>5. CASE PeerTrickles
  <2>1. inq' = Append(inq, "ICE")
    BY <1>5 DEF PeerTrickles, Arrive
  <2>2. "ICE" \in Packets
    BY DEF Packets
  <2>3. Len(inq') = Len(inq) + 1 /\ inq'[Len(inq) + 1] = "ICE"
    BY <2>1, <2>2, AppendElems
  <2>4. \A i \in 1 .. Len(inq) : inq'[i] = inq[i]
    BY <2>1, <2>2, AppendElems
  <2>5. UNCHANGED <<answered, onSdp, sdpW, remoteSet, rejected, recv>>
    BY <1>5 DEF PeerTrickles, sdpVars, rtcVars
  <2> QED
    BY <2>3, <2>4, <2>5
<1>6. CASE RecvPacket
  <2>1. inq # <<>> /\ inq' = Tail(inq) /\ recv = "read"
    BY <1>6 DEF RecvPacket
  <2>2. Len(inq) = Len(inq') + 1 /\ Head(inq) = inq[1]
    BY <2>1, TailElems
  <2>3. \A i \in 1 .. Len(inq') : inq'[i] = inq[i + 1]
    BY <2>1, TailElems
  <2>4. inq[1] = "SDP" => recv' = "SDP"
    BY <1>6, <2>2 DEF RecvPacket
  <2>5. UNCHANGED <<answered, onSdp, sdpW, remoteSet, rejected>>
    BY <1>6 DEF RecvPacket, sdpVars, rtcVars
  <2>6. ASSUME answered, ~ AnswerInWorkers, NEW i \in 1 .. Len(inq), inq[i] = "SDP"
        PROVE  recv' = "SDP" \/ \E j \in 1 .. Len(inq') : inq'[j] = "SDP"
    <3>1. CASE i = 1
      BY <2>4, <2>6, <3>1
    <3>2. CASE i # 1
      <4>1. i - 1 \in 1 .. Len(inq') /\ inq'[i - 1] = inq[i]
        BY <2>2, <2>3, <3>2
      <4> QED
        BY <2>6, <4>1
    <3> QED
      BY <3>1, <3>2
  <2> QED
    BY <2>1, <2>5, <2>6
<1>7. CASE RecvError
  BY <1>7 DEF RecvError, peerVars, streamVars, sdpVars, rtcVars
<1>8. CASE RecvShutdown
  BY <1>8 DEF RecvShutdown, peerVars, streamVars, sdpVars, rtcVars
<1>9. CASE HandSdp
  BY <1>9 DEF HandSdp, peerVars, streamVars, rtcVars
<1>10. CASE HandIce
  BY <1>10 DEF HandIce, peerVars, streamVars, sdpVars, rtcVars
<1>11. CASE HandSelection
  BY <1>11 DEF HandSelection, peerVars, streamVars, sdpVars, rtcVars, Selections
<1>12. CASE GiveSdp
  BY <1>12 DEF GiveSdp, peerVars, streamVars, rtcVars
<1>13. CASE ApplyAnswer
  BY <1>13 DEF ApplyAnswer, peerVars, streamVars
<1>14. ASSUME NEW s \in Stoppers, StopClose(s) PROVE AnswerKept'
  BY <1>14 DEF StopClose, peerVars, streamVars, sdpVars
<1>15. CASE UNCHANGED vars
  BY <1>15, <1>1 DEF vars, peerVars, streamVars, sdpVars, rtcVars
<1> HIDE DEF AnswerKept, AnswerInWorkers, Queued
<1> QED
  BY <1>1, <1>2, <1>3, <1>4, <1>5, <1>6, <1>7, <1>8, <1>9, <1>10, <1>11,
     <1>12, <1>13, <1>14, <1>15 DEF Next, StreamLost, IceChanges, Select,
     GiveIce, CheckIce, AddIce, SendOffer, TimerArmed, TimerFires,
     StarterFires, Decide, ConnectionState, Listen, StopSignal,
     StopListeners, StopShutdown, Arrive, peerVars, streamVars, sdpVars,
     rtcVars

LEMMA IceBehindStep ==
    ASSUME inq \in Seq(Packets), AnswerKept, IceBehind, [Next]_vars
    PROVE  IceBehind'
<1> USE DEF IceBehind, AnswerInWorkers
<1>1. CASE UNCHANGED <<onSdp, sdpW, remoteSet, rejected, recv, inq>>
  BY <1>1
<1>2. CASE PeerStart
  <2>1. inq' = Append(inq, "START")
    BY <1>2 DEF PeerStart, Arrive
  <2>2. "START" \in Packets
    BY DEF Packets
  <2>3. Len(inq') = Len(inq) + 1 /\ inq'[Len(inq) + 1] = "START"
    BY <2>1, <2>2, AppendElems
  <2>4. \A i \in 1 .. Len(inq) : inq'[i] = inq[i]
    BY <2>1, <2>2, AppendElems
  <2>5. UNCHANGED <<onSdp, sdpW, remoteSet, rejected, recv>>
    BY <1>2 DEF PeerStart, sdpVars, rtcVars
  <2>6. "START" # "ICE"
    BY DEF Selections
  <2> QED
    BY <2>3, <2>4, <2>5, <2>6
<1>3. CASE PeerSelects
  <2>1. PICK s \in Selections : inq' = Append(inq, s)
    BY <1>3 DEF PeerSelects, Arrive
  <2>2. s \in Packets
    BY DEF Packets
  <2>3. Len(inq') = Len(inq) + 1 /\ inq'[Len(inq) + 1] = s
    BY <2>1, <2>2, AppendElems
  <2>4. \A i \in 1 .. Len(inq) : inq'[i] = inq[i]
    BY <2>1, <2>2, AppendElems
  <2>5. UNCHANGED <<onSdp, sdpW, remoteSet, rejected, recv>>
    BY <1>3 DEF PeerSelects, sdpVars, rtcVars
  <2>6. s # "ICE"
    BY DEF Selections
  <2> QED
    BY <2>3, <2>4, <2>5, <2>6
<1>4. CASE PeerAnswersOffer
  <2>1. inq' = Append(inq, "SDP")
    BY <1>4 DEF PeerAnswersOffer, Arrive
  <2>2. "SDP" \in Packets
    BY DEF Packets
  <2>3. Len(inq') = Len(inq) + 1 /\ inq'[Len(inq) + 1] = "SDP"
    BY <2>1, <2>2, AppendElems
  <2>4. \A i \in 1 .. Len(inq) : inq'[i] = inq[i]
    BY <2>1, <2>2, AppendElems
  <2>5. UNCHANGED <<onSdp, sdpW, remoteSet, rejected, recv>>
    BY <1>4 DEF PeerAnswersOffer, sdpVars, rtcVars
  <2>6. "SDP" # "ICE"
    BY DEF Selections
  <2> QED
    BY <2>3, <2>4, <2>5, <2>6
<1>5. CASE PeerTrickles
  <2>1. inq' = Append(inq, "ICE")
    BY <1>5 DEF PeerTrickles, Arrive
  <2>2. "ICE" \in Packets
    BY DEF Packets
  <2>3. Len(inq') = Len(inq) + 1 /\ inq'[Len(inq) + 1] = "ICE"
    BY <2>1, <2>2, AppendElems
  <2>4. \A i \in 1 .. Len(inq) : inq'[i] = inq[i]
    BY <2>1, <2>2, AppendElems
  <2>5. UNCHANGED <<onSdp, sdpW, remoteSet, rejected, recv>>
    BY <1>5 DEF PeerTrickles, sdpVars, rtcVars
  <2>6. answered
    BY <1>5 DEF PeerTrickles
  <2>7. AnswerInWorkers \/ recv = "SDP" \/ \E j \in 1 .. Len(inq) : inq[j] = "SDP"
    BY <2>6 DEF AnswerKept, Queued
  <2> QED
    BY <2>3, <2>4, <2>5, <2>7
<1>6. CASE RecvPacket
  <2>1. inq # <<>> /\ inq' = Tail(inq) /\ recv = "read"
    BY <1>6 DEF RecvPacket
  <2>2. Len(inq) = Len(inq') + 1 /\ Head(inq) = inq[1]
    BY <2>1, TailElems
  <2>3. \A i \in 1 .. Len(inq') : inq'[i] = inq[i + 1]
    BY <2>1, TailElems
  <2>4. inq[1] = "SDP" => recv' = "SDP"
    BY <1>6, <2>2 DEF RecvPacket
  <2>5. UNCHANGED <<answered, onSdp, sdpW, remoteSet, rejected>>
    BY <1>6 DEF RecvPacket, sdpVars, rtcVars
  <2>6. ASSUME ~ AnswerInWorkers, NEW i \in 1 .. Len(inq'), inq'[i] = "ICE"
        PROVE  recv' = "SDP" \/ \E j \in 1 .. (i - 1) : inq'[j] = "SDP"
    <3>1. i + 1 \in 1 .. Len(inq) /\ inq[i + 1] = "ICE"
      BY <2>2, <2>3, <2>6
    <3>2. PICK j \in 1 .. i : inq[j] = "SDP"
      BY <2>1, <2>6, <3>1
    <3>3. CASE j = 1
      BY <2>4, <3>2, <3>3
    <3>4. CASE j # 1
      <4>1. j - 1 \in 1 .. (i - 1) /\ inq'[j - 1] = inq[j]
        BY <2>2, <2>3, <3>4
      <4> QED
        BY <3>2, <4>1
    <3> QED
      BY <3>3, <3>4
  <2> QED
    BY <2>5, <2>6
<1>7. CASE RecvError
  BY <1>7 DEF RecvError, streamVars, sdpVars, rtcVars
<1>8. CASE RecvShutdown
  BY <1>8 DEF RecvShutdown, streamVars, sdpVars, rtcVars
<1>9. CASE HandSdp
  BY <1>9 DEF HandSdp, streamVars, rtcVars
<1>10. CASE HandIce
  BY <1>10 DEF HandIce, streamVars, sdpVars, rtcVars
<1>11. CASE HandSelection
  BY <1>11 DEF HandSelection, peerVars, streamVars, sdpVars, rtcVars, Selections
<1>12. CASE GiveSdp
  BY <1>12 DEF GiveSdp, streamVars, rtcVars
<1>13. CASE ApplyAnswer
  BY <1>13 DEF ApplyAnswer, streamVars
<1>14. ASSUME NEW s \in Stoppers, StopClose(s) PROVE IceBehind'
  BY <1>14 DEF StopClose, streamVars, sdpVars
<1>15. CASE UNCHANGED vars
  BY <1>15, <1>1 DEF vars, streamVars, sdpVars, rtcVars
<1> HIDE DEF IceBehind, AnswerInWorkers
<1> QED
  BY <1>1, <1>2, <1>3, <1>4, <1>5, <1>6, <1>7, <1>8, <1>9, <1>10, <1>11,
     <1>12, <1>13, <1>14, <1>15 DEF Next, StreamLost, IceChanges, Select,
     GiveIce, CheckIce, AddIce, SendOffer, TimerArmed, TimerFires,
     StarterFires, Decide, ConnectionState, Listen, StopSignal,
     StopListeners, StopShutdown, Arrive, streamVars, sdpVars, rtcVars

LEMMA IceInWorkersStep ==
    ASSUME inq \in Seq(Packets), IceBehind, IceInWorkers, [Next]_vars
    PROVE  IceInWorkers'
<1> USE DEF IceInWorkers, AnswerInWorkers
<1>1. CASE UNCHANGED <<recv, onSdp, sdpW, remoteSet, rejected, onIce, iceW>>
  BY <1>1
<1>2. CASE RecvPacket
  <2>1. inq # <<>> /\ recv = "read" /\ (recv' = recv \/ recv' = Head(inq))
    BY <1>2 DEF RecvPacket
  <2>2. 1 \in 1 .. Len(inq) /\ Head(inq) = inq[1]
    BY <2>1, TailElems
  <2>3. inq[1] = "ICE" => AnswerInWorkers
    BY <2>1, <2>2 DEF IceBehind
  <2>4. UNCHANGED <<onSdp, sdpW, remoteSet, rejected, onIce, iceW>>
    BY <1>2 DEF RecvPacket, sdpVars, rtcVars, iceVars
  <2> QED
    BY <2>1, <2>2, <2>3, <2>4
<1>3. CASE RecvError
  BY <1>3 DEF RecvError, sdpVars, iceVars, rtcVars
<1>4. CASE RecvShutdown
  BY <1>4 DEF RecvShutdown, sdpVars, iceVars, rtcVars
<1>5. CASE HandSdp
  BY <1>5 DEF HandSdp, iceVars, rtcVars
<1>6. CASE HandIce
  BY <1>6 DEF HandIce, sdpVars, rtcVars
<1>7. CASE HandSelection
  BY <1>7 DEF HandSelection, sdpVars, iceVars, rtcVars
<1>8. CASE GiveSdp
  BY <1>8 DEF GiveSdp, iceVars, rtcVars
<1>9. CASE ApplyAnswer
  BY <1>9 DEF ApplyAnswer, iceVars
<1>10. CASE GiveIce
  BY <1>10 DEF GiveIce, sdpVars, rtcVars
<1>11. CASE CheckIce
  BY <1>11 DEF CheckIce, sdpVars, rtcVars
<1>12. CASE AddIce
  BY <1>12 DEF AddIce, sdpVars, rtcVars
<1>13. ASSUME NEW s \in Stoppers, StopClose(s) PROVE IceInWorkers'
  BY <1>13 DEF StopClose, sdpVars, iceVars
<1>14. CASE UNCHANGED vars
  BY <1>14, <1>1 DEF vars, sdpVars, iceVars, rtcVars
<1> HIDE DEF IceInWorkers, AnswerInWorkers
<1> QED
  BY <1>1, <1>2, <1>3, <1>4, <1>5, <1>6, <1>7, <1>8, <1>9, <1>10, <1>11,
     <1>12, <1>13, <1>14 DEF Next, PeerStart, PeerSelects, PeerAnswersOffer,
     PeerTrickles, StreamLost, IceChanges, Select, SendOffer, TimerArmed,
     TimerFires, StarterFires, Decide, ConnectionState, Listen, StopSignal,
     StopListeners, StopShutdown, Arrive, sdpVars, iceVars, rtcVars

-----------------------------------------------------------------------------
(* Closing.                                                                *)

LEMMA ShutdownUnaskedStep ==
    ASSUME due \in Nat, offers \in Nat, inq \in Seq(Packets), StartedTaken, OffersStarted, ShutdownUnasked, [Next]_vars
    PROVE  ShutdownUnasked'
<1> USE DEF ShutdownUnasked
<1>1. CASE UNCHANGED <<recv, streamUp, answered, due>>
  BY <1>1
<1>2. CASE PeerAnswersOffer
  BY <1>2 DEF PeerAnswersOffer, Arrive
<1>3. CASE StreamLost
  BY <1>3 DEF StreamLost, peerVars
<1>4. CASE RecvPacket
  <2>1. recv' # "shutdown"
    <3>1. Head(inq) \in Packets
      BY <1>4, HeadTail DEF RecvPacket
    <3> QED
      BY <1>4, <3>1 DEF RecvPacket, Packets, Selections
  <2> QED
    BY <2>1
<1>5. CASE RecvError
  <2>1. CASE selected
    BY <1>5, <2>1 DEF RecvError
  <2>2. CASE ~ selected
    <3>1. ~ started
      BY <2>2 DEF StartedTaken
    <3>2. ~ answered /\ due = 0
      BY <3>1 DEF OffersStarted
    <3> QED
      BY <1>5, <3>2 DEF RecvError, peerVars, streamVars
  <2> QED
    BY <2>1, <2>2
<1>6. CASE RecvShutdown
  BY <1>6 DEF RecvShutdown, peerVars, streamVars
<1>7. CASE HandSdp
  BY <1>7 DEF HandSdp, peerVars, streamVars
<1>8. CASE HandIce
  BY <1>8 DEF HandIce, peerVars, streamVars
<1>9. CASE HandSelection
  BY <1>9 DEF HandSelection, peerVars, streamVars
<1>10. CASE SendOffer
  BY <1>10 DEF SendOffer, streamVars
<1>11. ASSUME NEW s \in Stoppers, StopSignal(s) PROVE ShutdownUnasked'
  BY <1>11 DEF StopSignal, peerVars
<1>12. CASE UNCHANGED vars
  BY <1>12, <1>1 DEF vars, peerVars, streamVars
<1> HIDE DEF ShutdownUnasked
<1> QED
  BY <1>1, <1>2, <1>3, <1>4, <1>5, <1>6, <1>7, <1>8, <1>9, <1>10, <1>11,
     <1>12 DEF Next, PeerStart, PeerSelects, PeerTrickles, IceChanges,
     Select, GiveSdp, ApplyAnswer, GiveIce, CheckIce, AddIce, TimerArmed,
     TimerFires, StarterFires, Decide, ConnectionState, Listen, StopClose,
     StopListeners, StopShutdown, Arrive, peerVars, streamVars

LEMMA StopClosesStep ==
    ASSUME stop \in [Stoppers -> StopStages], StopCloses, [Next]_vars
    PROVE  StopCloses'
<1> USE DEF StopCloses, Stoppers
<1>1. CASE UNCHANGED <<stop, lisClosed>>
  BY <1>1
<1>2. CASE Decide
  BY <1>2 DEF Decide
<1>3. CASE ConnectionState
  BY <1>3 DEF ConnectionState, mediaVars
<1>4. ASSUME NEW s \in Stoppers, StopClose(s) PROVE StopCloses'
  BY <1>4 DEF StopClose, mediaVars
<1>5. ASSUME NEW s \in Stoppers, StopSignal(s) PROVE StopCloses'
  BY <1>5 DEF StopSignal, mediaVars
<1>6. ASSUME NEW s \in Stoppers, StopListeners(s) PROVE StopCloses'
  BY <1>6 DEF StopListeners
<1>7. ASSUME NEW s \in Stoppers, StopShutdown(s) PROVE StopCloses'
  BY <1>7 DEF StopShutdown, mediaVars
<1>8. CASE UNCHANGED vars
  BY <1>8, <1>1 DEF vars, mediaVars, stopVars
<1> HIDE DEF StopCloses, Stoppers
<1> QED
  BY <1>1, <1>2, <1>3, <1>4, <1>5, <1>6, <1>7, <1>8 DEF Next, PeerStart,
     PeerSelects, PeerAnswersOffer, PeerTrickles, StreamLost, IceChanges,
     RecvPacket, RecvError, RecvShutdown, HandSdp, HandIce, HandSelection,
     Select, GiveSdp, ApplyAnswer, GiveIce, CheckIce, AddIce, SendOffer,
     TimerArmed, TimerFires, StarterFires, Listen, Arrive, mediaVars,
     stopVars

LEMMA ExitClosedStep ==
    ASSUME MediaAnswered, WorkersAnswered, ShutdownUnasked, StopCloses, ExitClosed, [Next]_vars
    PROVE  ExitClosed'
<1> USE DEF ExitClosed
<1>1. CASE UNCHANGED <<main, listening, lisClosed>>
  BY <1>1
<1>2. CASE RecvShutdown
  <2>1. ~ listening
    BY <1>2 DEF RecvShutdown, ShutdownUnasked, WorkersAnswered, MediaAnswered
  <2>2. listening' = listening
    BY <1>2 DEF RecvShutdown, mediaVars
  <2> QED
    BY <2>1, <2>2
<1>3. CASE AddIce
  BY <1>3 DEF AddIce, mediaVars
<1>4. CASE Listen
  BY <1>4 DEF Listen, Running
<1>5. ASSUME NEW s \in Stoppers, StopListeners(s) PROVE ExitClosed'
  BY <1>5 DEF StopListeners
<1>6. ASSUME NEW s \in Stoppers, StopShutdown(s) PROVE ExitClosed'
  <2>1. lisClosed /\ lisClosed' = lisClosed
    BY <1>6 DEF StopShutdown, StopCloses, mediaVars
  <2> QED
    BY <2>1
<1>7. CASE UNCHANGED vars
  BY <1>7, <1>1 DEF vars, mediaVars
<1> HIDE DEF ExitClosed
<1> QED
  BY <1>1, <1>2, <1>3, <1>4, <1>5, <1>6, <1>7 DEF Next, PeerStart,
     PeerSelects, PeerAnswersOffer, PeerTrickles, StreamLost, IceChanges,
     RecvPacket, RecvError, HandSdp, HandIce, HandSelection, Select,
     GiveSdp, ApplyAnswer, GiveIce, CheckIce, SendOffer, TimerArmed,
     TimerFires, StarterFires, Decide, ConnectionState, StopClose,
     StopSignal, Arrive, mediaVars

-----------------------------------------------------------------------------
\* TypeOK, Chain, Order and Closing together are inductive: a candidate can
\* only be behind its answer because the browser sends it after it (AnswerKept),
\* and only a selected session can have an answer (Chain).
Inductive == TypeOK /\ Chain /\ Order /\ Closing

LEMMA InductiveInit ==
    ASSUME Init
    PROVE  Inductive
<1>1. TypeOK
  BY TypeInit
<1>2. Chain
  BY DEF Init, Chain, StartTaken, StartedTaken, OffersStarted, QueueAnswered,
     WorkersAnswered, MediaAnswered
<1>3. Order
  BY DEF Init, Order, AnswerKept, IceBehind, IceInWorkers
<1>4. Closing
  BY DEF Init, Closing, ShutdownUnasked, StopCloses, ExitClosed
<1> QED
  BY <1>1, <1>2, <1>3, <1>4 DEF Inductive

LEMMA InductiveStep ==
    ASSUME Inductive, [Next]_vars
    PROVE  Inductive'
<1>1. TypeOK /\ Chain /\ Order /\ Closing
  BY DEF Inductive
<1>2. TypeOK'
  BY <1>1, TypeStep
<1>3. /\ inq \in Seq(Packets) /\ start \in Seq(BOOLEAN) /\ selected \in BOOLEAN
      /\ offers \in Nat /\ due \in Nat /\ stop \in [Stoppers -> StopStages]
  BY <1>1 DEF TypeOK, StreamTypes, TimerTypes, LoopTypes, PeerTypes, MediaTypes
<1>4. Chain'
  <2>1. /\ StartTaken /\ StartedTaken /\ OffersStarted
        /\ QueueAnswered /\ WorkersAnswered /\ MediaAnswered
    BY <1>1 DEF Chain
  <2>2. StartTaken' /\ StartedTaken'
    BY <1>3, <2>1, StartTakenStep, StartedTakenStep
  <2>3. OffersStarted' /\ MediaAnswered'
    BY <1>3, <2>1, OffersStartedStep, MediaAnsweredStep
  <2>4. QueueAnswered' /\ WorkersAnswered'
    BY <1>3, <2>1, QueueAnsweredStep, WorkersAnsweredStep
  <2> QED
    BY <2>2, <2>3, <2>4 DEF Chain
<1>5. Order'
  <2>1. AnswerKept /\ IceBehind /\ IceInWorkers
    BY <1>1 DEF Order
  <2> QED
    BY <1>3, <2>1, AnswerKeptStep, IceBehindStep, IceInWorkersStep DEF Order
<1>6. Closing'
  <2>1. /\ ShutdownUnasked /\ StopCloses /\ ExitClosed
        /\ StartedTaken /\ OffersStarted /\ MediaAnswered /\ WorkersAnswered
    BY <1>1 DEF Closing, Chain
  <2>2. ShutdownUnasked'
    BY <1>3, <2>1, ShutdownUnaskedStep
  <2>3. StopCloses'
    BY <1>3, <2>1, StopClosesStep
  <2>4. ExitClosed'
    BY <2>1, ExitClosedStep
  <2> QED
    BY <2>2, <2>3, <2>4 DEF Closing
<1> QED
  BY <1>2, <1>4, <1>5, <1>6 DEF Inductive

LEMMA InductiveCorrect == Spec => []Inductive
<1>1. Init => Inductive
  BY InductiveInit
<1>2. Inductive /\ [Next]_vars => Inductive'
  BY InductiveStep
<1> QED
  BY <1>1, <1>2, PTL DEF Spec

\* Whatever the order of selection, timeout, stream loss and ICE events, the
\* hub negotiates and captures only after a device selection was taken.
THEOREM SelectionFirstHolds == Spec => []SelectionFirst
<1>1. Inductive => SelectionFirst
  <2> SUFFICES ASSUME Inductive PROVE SelectionFirst
    OBVIOUS
  <2>1. StartedTaken /\ OffersStarted /\ WorkersAnswered /\ MediaAnswered
    BY DEF Inductive, Chain
  <2> QED
    BY <2>1 DEF SelectionFirst, StartedTaken, OffersStarted, WorkersAnswered,
       MediaAnswered
<1> QED
  BY <1>1, InductiveCorrect, PTL

\* The candidate goroutine (webrtc.go:143) can only give up because it overtook
\* the answer inside the hub, or after the connection refused an answer.
THEOREM IceLostOnlyWhenOvertakingHolds == Spec => []IceLostOnlyWhenOvertaking
<1>1. Inductive => IceLostOnlyWhenOvertaking
  BY DEF Inductive, Order, IceInWorkers, AnswerInWorkers, IceLostOnlyWhenOvertaking
<1> QED
  BY <1>1, InductiveCorrect, PTL

\* No receive from Shutdown (main.go:175) leaves the capture running.
THEOREM ExitClosesMediaHolds == Spec => []ExitClosesMedia
<1>1. Inductive => ExitClosesMedia
  BY DEF Inductive, Closing, ExitClosed, ExitClosesMedia
<1> QED
  BY <1>1, InductiveCorrect, PTL

-----------------------------------------------------------------------------
(* The peer of the browser.                                                *)

LEMMA SelectionSentStep ==
    ASSUME budget \in [start : Nat, answer : Nat, ice : Nat], inq \in Seq(Packets),
           SelectionSent, [Next]_vars
    PROVE  SelectionSent'
<1> USE DEF SelectionSent
<1>1. CASE UNCHANGED <<budget, inq, recv, selector, selected>>
  BY <1>1
<1>2. CASE PeerStart
  <2>1. inq' = Append(inq, "START") /\ "START" \in Packets /\ "START" \notin Selections
    BY <1>2 DEF PeerStart, Arrive, Packets, Selections
  <2>2. budget'.answer = budget.answer /\ UNCHANGED <<recv, selector, selected>>
    BY <1>2 DEF PeerStart, flagVars
  <2> QED
    BY <2>1, <2>2, AppendElems
<1>3. CASE PeerSelects
  <2>1. budget'.answer = budget.answer + 1 /\ budget.answer \in Nat
    BY <1>3 DEF PeerSelects
  <2> QED
    BY <2>1
<1>4. CASE PeerAnswersOffer
  <2>1. inq' = Append(inq, "SDP") /\ "SDP" \in Packets /\ "SDP" \notin Selections
    BY <1>4 DEF PeerAnswersOffer, Arrive, Packets, Selections
  <2>2. UNCHANGED <<budget, recv, selector, selected>>
    BY <1>4 DEF PeerAnswersOffer, flagVars
  <2> QED
    BY <2>1, <2>2, AppendElems
<1>5. CASE PeerTrickles
  <2>1. inq' = Append(inq, "ICE") /\ "ICE" \in Packets /\ "ICE" \notin Selections
    BY <1>5 DEF PeerTrickles, Arrive, Packets, Selections
  <2>2. budget'.answer = budget.answer /\ UNCHANGED <<recv, selector, selected>>
    BY <1>5 DEF PeerTrickles, flagVars
  <2> QED
    BY <2>1, <2>2, AppendElems
<1>6. CASE RecvPacket
  <2>1. /\ inq # <<>> /\ inq' = Tail(inq) /\ recv' \in {recv, Head(inq)}
        /\ UNCHANGED <<selector, selected>> /\ budget' = budget
    BY <1>6 DEF RecvPacket
  <2>2. /\ Len(inq) = Len(inq') + 1 /\ Len(inq') \in Nat /\ Head(inq) = inq[1]
        /\ \A i \in 1 .. Len(inq') : inq'[i] = inq[i + 1]
    BY <2>1, TailElems
  <2> QED
    BY <2>1, <2>2
<1>7. CASE RecvError \/ RecvShutdown \/ HandSdp \/ HandIce
  <2>1. recv' \in {"ended", "shutdown", "read"} /\ UNCHANGED <<budget, inq, selector, selected>>
    BY <1>7 DEF RecvError, RecvShutdown, HandSdp, HandIce, peerVars, streamVars, flagVars
  <2> QED
    BY <2>1 DEF Selections
<1>8. CASE HandSelection
  BY <1>8 DEF HandSelection, peerVars
<1>9. CASE Select
  BY <1>9 DEF Select
<1>10. CASE UNCHANGED vars
  BY <1>10, <1>1 DEF vars, peerVars, streamVars, flagVars
<1> HIDE DEF SelectionSent
<1> QED
  BY <1>1, <1>2, <1>3, <1>4, <1>5, <1>6, <1>7, <1>8, <1>9, <1>10 DEF Next, StreamLost,
     IceChanges, GiveSdp, ApplyAnswer, GiveIce, CheckIce, AddIce, SendOffer, TimerArmed,
     TimerFires, StarterFires, Decide, ConnectionState, Listen, StopClose, StopSignal,
     StopListeners, StopShutdown, peerVars, streamVars, flagVars, Arrive

LEMMA SelectionSentHolds == Spec => []SelectionSent
<1>1. Init => SelectionSent
  BY DEF Init, SelectionSent, Selections
<1>2. Inductive /\ SelectionSent /\ [Next]_vars => SelectionSent'
  BY SelectionSentStep DEF Inductive, TypeOK, PeerTypes, StreamTypes
<1> QED
  BY <1>1, <1>2, InductiveCorrect, PTL DEF Spec

\* An offer goes out only after the browser has answered a question.
LEMMA OfferAfterSelection ==
    ASSUME Inductive, SelectionSent, SendOffer
    PROVE  BrowserPeer!Offer \/ UNCHANGED BrowserPeer!vars
<1>1. offers > 0 /\ UNCHANGED <<budget, asked, answered>>
  BY DEF SendOffer
<1>2. selected /\ budget.answer \in Nat
  BY <1>1 DEF Inductive, Chain, OffersStarted, StartedTaken, TypeOK, PeerTypes
<1>3. budget.answer > 0
  BY <1>2 DEF SelectionSent
<1>4. due' = due + 1 \/ due' = due
  BY DEF SendOffer
<1> QED
  BY <1>1, <1>3, <1>4 DEF BrowserPeer!Offer, BrowserPeer!vars

\* The hub sends no offer before a selection of the browser reached it, and
\* counts on one answer to each question and offer: it is the peer
\* BrowserSession is written against.
THEOREM RefinesPeer == Spec => ImplementsPeer
<1>1. Init => BrowserPeer!Init
  BY DEF Init, BrowserPeer!Init
<1>2. Inductive /\ SelectionSent /\ [Next]_vars => [BrowserPeer!Next]_(BrowserPeer!vars)
  <2> SUFFICES ASSUME Inductive, SelectionSent, [Next]_vars
               PROVE  BrowserPeer!Next \/ UNCHANGED BrowserPeer!vars
    OBVIOUS
  <2>1. /\ budget \in [start : Nat, answer : Nat, ice : Nat]
        /\ asked \in Nat /\ due \in Nat /\ answered \in BOOLEAN
    BY DEF Inductive, TypeOK, PeerTypes
  <2> USE DEF BrowserPeer!Next, BrowserPeer!vars
  <2>2. CASE UNCHANGED <<budget, asked, due, answered>>
    BY <2>2
  <2>3. CASE PeerStart
    <3>1. budget'.answer = budget.answer /\ budget'.ice = budget.ice
      BY <2>1, <2>3 DEF PeerStart
    <3> QED
      BY <2>3, <3>1 DEF PeerStart
  <2>4. CASE PeerSelects
    <3>1. budget'.answer = budget.answer + 1 /\ budget'.ice = budget.ice
      BY <2>1, <2>4 DEF PeerSelects
    <3>2. (budget'.answer > 0) = TRUE
      BY <2>1, <3>1
    <3> QED
      BY <2>4, <3>1, <3>2 DEF PeerSelects, BrowserPeer!Select
  <2>5. CASE PeerAnswersOffer
    BY <2>5 DEF PeerAnswersOffer, BrowserPeer!Answer
  <2>6. CASE PeerTrickles
    <3>1. budget'.answer = budget.answer /\ budget'.ice = budget.ice + 1
      BY <2>1, <2>6 DEF PeerTrickles
    <3> QED
      BY <2>6, <3>1 DEF PeerTrickles, BrowserPeer!Trickle
  <2>7. CASE RecvPacket \/ Select
    <3>1. asked' = asked \/ asked' = asked + 1
      BY <2>7 DEF RecvPacket, Select
    <3>2. UNCHANGED <<budget, due, answered>>
      BY <2>7 DEF RecvPacket, Select
    <3> QED
      BY <3>1, <3>2 DEF BrowserPeer!Ask
  <2>8. CASE SendOffer
    BY <2>8, OfferAfterSelection
  <2> QED
    BY <2>2, <2>3, <2>4, <2>5, <2>6, <2>7, <2>8 DEF Next, StreamLost, IceChanges, RecvError,
       RecvShutdown, HandSdp, HandIce, HandSelection, GiveSdp, ApplyAnswer, GiveIce, CheckIce,
       AddIce, TimerArmed, TimerFires, StarterFires, Decide, ConnectionState, Listen,
       StopClose, StopSignal, StopListeners, StopShutdown, peerVars, vars
<1> QED
  BY <1>1, <1>2, InductiveCorrect, SelectionSentHolds, PTL
  DEF Spec, ImplementsPeer, BrowserPeer!Spec
=============================================================================
