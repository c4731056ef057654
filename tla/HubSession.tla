------------------------------ MODULE HubSession ------------------------------
(***************************************************************************)
(* One run of the streaming hub (server/hub): the gRPC signalling client   *)
(* (signalling/gRPC/grpc.go), the WebRTC client (webrtc/webrtc.go) and the *)
(* proxy that joins them (proxy.go), up to the moment main receives from   *)
(* Shutdown and the process ends.  Every goroutine has a variable for      *)
(* where it stands; a send on an unbuffered channel is a joint step of the *)
(* sender and of a receiver that stands at its receive.                    *)
(***************************************************************************)
EXTENDS Naturals, Sequences

CONSTANTS
    MaxStarts,   \* bound: START packets the signaling server sends
    MaxAnswers,  \* bound: PREFLIGHT answers the browser sends
    MaxIce       \* bound: ICE candidates the browser sends

ASSUME BoundsAssumption ==
    MaxStarts \in Nat /\ MaxAnswers \in Nat /\ MaxIce \in Nat

VARIABLES
    inq,        \* packets on the gRPC stream, not yet received
    streamUp,   \* the gRPC stream is open
    budget,     \* START, PREFLIGHT and ICE packets sent to the hub so far
    asked,      \* PREFLIGHT questions the browser has not answered
    due,        \* SDP offers the browser has not answered
    answered,   \* the browser answered an offer: it may trickle candidates
    recv,       \* the Recv loop, with the packet it is handing over
    onSdp,      \* the OnSDP goroutine
    sdpW,       \* the goroutine that applies remote descriptions
    onIce,      \* the OnICE goroutine
    iceW,       \* the goroutine that adds remote candidates
    selector,   \* the OnDeviceSelect goroutine, with the selection it runs
    connected,  \* GRPCclient.connected
    selected,   \* GRPCclient.deviceSelected
    timer,      \* handleTimeout: the goroutine that sleeps 30 s
    starter,    \* handleTimeout: the goroutine that waits for a selection
    start,      \* handleTimeout: the channel start
    decider,    \* handleTimeout: the goroutine that receives from it
    stop,       \* how far the Stop called by the decider or the state loop is
    connLoop,   \* the goroutine that receives connection states
    iceState,   \* the ICE connection state of the peer connection
    iceEvent,   \* state change whose callback waits on connectionState
    offers,     \* OnNegotiationNeeded callbacks waiting on toSdpChannel
    remoteSet,  \* a remote description is in force
    rejected,   \* history: the peer connection refused an answer
    pcClosed,   \* the peer connection was closed
    started,    \* Start registered the data channels
    listening,  \* Listen opened the media pipelines
    lisClosed,  \* Stop closed the media pipelines
    main        \* main waits for Shutdown, got it, or the process panicked

peerVars   == <<budget, asked, due, answered>>
streamVars == <<inq, streamUp>>
sdpVars    == <<onSdp, sdpW, rejected>>
iceVars    == <<onIce, iceW>>
flagVars   == <<connected, selected>>
timerVars  == <<timer, starter, start, decider>>
rtcVars    == <<iceState, iceEvent, offers, remoteSet, pcClosed>>
mediaVars  == <<started, listening, lisClosed>>
stopVars   == <<stop, connLoop>>

vars == <<peerVars, streamVars, recv, sdpVars, iceVars, selector, flagVars,
          timerVars, rtcVars, mediaVars, stopVars, main>>

\* PREFLIGHT answers: a selection the callback takes, one whose SetSource
\* fails, and one that is not JSON.
Selections == {"good", "refused", "garbled"}
Packets    == {"START", "SDP", "ICE"} \cup Selections
Stoppers   == {"decider", "conn"}
StopStages == {"no", "close", "signal", "listeners", "shutdown", "done"}

Running == main = "wait"

Init ==
    /\ inq = <<>> /\ streamUp = TRUE
    /\ budget = [start |-> 0, answer |-> 0, ice |-> 0]
    /\ asked = 0 /\ due = 0 /\ answered = FALSE
    /\ recv = "read" /\ onSdp = "idle" /\ sdpW = "idle"
    /\ onIce = "idle" /\ iceW = "idle" /\ selector = "idle"
    /\ connected = FALSE /\ selected = FALSE
    /\ timer = "wait" /\ starter = "wait" /\ start = <<>> /\ decider = "wait"
    /\ stop = [s \in Stoppers |-> "no"] /\ connLoop = "wait"
    /\ iceState = "new" /\ iceEvent = "none"
    /\ offers = 0 /\ remoteSet = FALSE /\ rejected = FALSE /\ pcClosed = FALSE
    /\ started = FALSE /\ listening = FALSE /\ lisClosed = FALSE
    /\ main = "wait"

-----------------------------------------------------------------------------
(* The other side: the signaling server's START, and the browser, which    *)
(* answers each PREFLIGHT and each offer and trickles candidates after its *)
(* first answer (app.ts, webrtc.ts).                                       *)

Arrive(p) == inq' = Append(inq, p) /\ UNCHANGED streamUp

PeerStart ==
    /\ Running /\ streamUp
    /\ budget.start < MaxStarts
    /\ budget' = [budget EXCEPT !.start = @ + 1]
    /\ Arrive("START")
    /\ UNCHANGED <<asked, due, answered, recv, sdpVars, iceVars, selector, flagVars,
                   timerVars, rtcVars, mediaVars, stopVars, main>>

PeerSelects ==
    /\ Running /\ streamUp
    /\ asked > 0
    /\ budget.answer < MaxAnswers
    /\ asked' = asked - 1
    /\ budget' = [budget EXCEPT !.answer = @ + 1]
    /\ \E s \in Selections : Arrive(s)
    /\ UNCHANGED <<due, answered, recv, sdpVars, iceVars, selector, flagVars,
                   timerVars, rtcVars, mediaVars, stopVars, main>>

PeerAnswersOffer ==
    /\ Running /\ streamUp
    /\ due > 0
    /\ due' = due - 1
    /\ answered' = TRUE
    /\ Arrive("SDP")
    /\ UNCHANGED <<budget, asked, recv, sdpVars, iceVars, selector, flagVars,
                   timerVars, rtcVars, mediaVars, stopVars, main>>

PeerTrickles ==
    /\ Running /\ streamUp
    /\ answered
    /\ budget.ice < MaxIce
    /\ budget' = [budget EXCEPT !.ice = @ + 1]
    /\ Arrive("ICE")
    /\ UNCHANGED <<asked, due, answered, recv, sdpVars, iceVars, selector, flagVars,
                   timerVars, rtcVars, mediaVars, stopVars, main>>

StreamLost ==
    /\ Running /\ streamUp
    /\ streamUp' = FALSE
    /\ UNCHANGED <<inq, peerVars, recv, sdpVars, iceVars, selector, flagVars,
                   timerVars, rtcVars, mediaVars, stopVars, main>>

\* The ICE agent of the peer connection: it connects once a remote description
\* is in force, and may fail or lose the connection.
IceChanges ==
    /\ Running /\ ~ pcClosed /\ remoteSet /\ iceEvent = "none"
    /\ \/ iceState = "new" /\ iceState' = "connected"
       \/ iceState \in {"new", "connected"} /\ iceState' = "down"
    /\ iceEvent' = iceState'
    /\ UNCHANGED <<peerVars, streamVars, recv, sdpVars, iceVars, selector, flagVars,
                   timerVars, offers, remoteSet, pcClosed, mediaVars, stopVars, main>>

-----------------------------------------------------------------------------
(* The Recv loop of InitGRPCClient.                                        *)

\* START asks the browser for a device (the stream may be gone by then) and
\* only then sets connected; a selection that is not JSON is dropped.
RecvPacket ==
    /\ Running /\ recv = "read" /\ inq # <<>>
    /\ LET p == Head(inq) IN
       \/ /\ p = "START"
          /\ asked' = IF streamUp THEN asked + 1 ELSE asked
          /\ connected' = TRUE
          /\ UNCHANGED recv
       \/ /\ p = "garbled"
          /\ UNCHANGED <<asked, connected, recv>>
       \/ /\ p \notin {"START", "garbled"}
          /\ recv' = p
          /\ UNCHANGED <<asked, connected>>
    /\ inq' = Tail(inq)
    /\ UNCHANGED <<streamUp, budget, due, answered, sdpVars, iceVars, selector, selected,
                   timerVars, rtcVars, mediaVars, stopVars, main>>

\* Faulty variant: the loop ends and nobody is told.
RecvErrorQuiet ==
    /\ Running /\ recv = "read" /\ ~ streamUp
    /\ recv' = "ended"
    /\ UNCHANGED <<peerVars, streamVars, sdpVars, iceVars, selector, flagVars,
                   timerVars, rtcVars, mediaVars, stopVars, main>>

\* An error ends the loop; without a selection it asks main to shut down.
RecvError ==
    /\ Running /\ recv = "read" /\ ~ streamUp
    /\ recv' = IF selected THEN "ended" ELSE "shutdown"
    /\ UNCHANGED <<peerVars, streamVars, sdpVars, iceVars, selector, flagVars,
                   timerVars, rtcVars, mediaVars, stopVars, main>>

RecvShutdown ==
    /\ Running /\ recv = "shutdown"
    /\ main' = "exited"
    /\ recv' = "ended"
    /\ UNCHANGED <<peerVars, streamVars, sdpVars, iceVars, selector, flagVars,
                   timerVars, rtcVars, mediaVars, stopVars>>

\* Faulty variants: a description is dropped when its goroutine is not at its
\* receive yet; anything the loop holds is handed over as a selection.
HandSdpOrDrop ==
    /\ Running /\ recv = "SDP"
    /\ onSdp' \in {onSdp, "give"} /\ recv' = "read"
    /\ UNCHANGED <<peerVars, streamVars, sdpW, rejected, iceVars, selector, flagVars,
                   timerVars, rtcVars, mediaVars, stopVars, main>>

\* sdpChan, iceChan and preflightChan: the loop waits for the receiver.
HandSdp ==
    /\ Running /\ recv = "SDP" /\ onSdp = "idle"
    /\ onSdp' = "give" /\ recv' = "read"
    /\ UNCHANGED <<peerVars, streamVars, sdpW, rejected, iceVars, selector, flagVars,
                   timerVars, rtcVars, mediaVars, stopVars, main>>

HandIce ==
    /\ Running /\ recv = "ICE" /\ onIce = "idle"
    /\ onIce' = "give" /\ recv' = "read"
    /\ UNCHANGED <<peerVars, streamVars, sdpVars, iceW, selector, flagVars,
                   timerVars, rtcVars, mediaVars, stopVars, main>>

HandSelection ==
    /\ Running /\ recv \in Selections /\ selector = "idle"
    /\ selector' = recv /\ recv' = "read"
    /\ UNCHANGED <<peerVars, streamVars, sdpVars, iceVars, flagVars,
                   timerVars, rtcVars, mediaVars, stopVars, main>>

-----------------------------------------------------------------------------
(* OnDeviceSelect: the callback sets the sources of the pipelines; when it *)
(* fails the browser is asked again.                                       *)
Select ==
    /\ Running /\ selector # "idle"
    /\ \/ /\ selector = "good"
          /\ selected' = TRUE
          /\ UNCHANGED asked
       \/ /\ selector = "refused"
          /\ asked' = IF streamUp THEN asked + 1 ELSE asked
          /\ UNCHANGED selected
    /\ selector' = "idle"
    /\ UNCHANGED <<budget, due, answered, streamVars, recv, sdpVars, iceVars, connected,
                   timerVars, rtcVars, mediaVars, stopVars, main>>

-----------------------------------------------------------------------------
(* Remote descriptions and candidates, each through two goroutines.        *)

GiveSdp ==
    /\ Running /\ onSdp = "give" /\ sdpW = "idle"
    /\ sdpW' = "apply" /\ onSdp' = "idle"
    /\ UNCHANGED <<peerVars, streamVars, recv, rejected, iceVars, selector, flagVars,
                   timerVars, rtcVars, mediaVars, stopVars, main>>

\* SetRemoteDescription(answer) may fail, and does on a closed connection; the
\* error is logged and the loop goes on.
ApplyAnswer ==
    /\ Running /\ sdpW = "apply"
    /\ \/ ~ pcClosed /\ remoteSet' = TRUE /\ UNCHANGED rejected
       \/ rejected' = TRUE /\ UNCHANGED remoteSet
    /\ sdpW' = "idle"
    /\ UNCHANGED <<peerVars, streamVars, recv, onSdp, iceVars, selector, flagVars,
                   timerVars, iceState, iceEvent, offers, pcClosed, mediaVars, stopVars, main>>

GiveIce ==
    /\ Running /\ onIce = "give" /\ iceW = "idle"
    /\ iceW' = "check" /\ onIce' = "idle"
    /\ UNCHANGED <<peerVars, streamVars, recv, sdpVars, selector, flagVars,
                   timerVars, rtcVars, mediaVars, stopVars, main>>

\* RemoteDescription() equals PendingRemoteDescription() when both are nil:
\* the goroutine returns for good.
CheckIce ==
    /\ Running /\ iceW = "check"
    /\ iceW' = IF remoteSet THEN "add" ELSE "dead"
    /\ UNCHANGED <<peerVars, streamVars, recv, sdpVars, onIce, selector, flagVars,
                   timerVars, rtcVars, mediaVars, stopVars, main>>

\* Faulty variant: the goroutine returns after its first candidate.
AddIceOnce ==
    /\ Running /\ iceW = "add"
    /\ iceW' = "done"
    /\ UNCHANGED <<peerVars, streamVars, recv, sdpVars, onIce, selector, flagVars,
                   timerVars, rtcVars, mediaVars, stopVars, main>>

\* AddICECandidate; on a closed connection it may fail, and the code panics.
AddIce ==
    /\ Running /\ iceW = "add"
    /\ \/ UNCHANGED main
       \/ pcClosed /\ main' = "crashed"
    /\ iceW' = "idle"
    /\ UNCHANGED <<peerVars, streamVars, recv, sdpVars, onIce, selector, flagVars,
                   timerVars, rtcVars, mediaVars, stopVars>>

\* The SendSDP loop takes an offer from toSdpChannel and sends it.
SendOffer ==
    /\ Running /\ offers > 0
    /\ offers' = offers - 1
    /\ due' = IF streamUp THEN due + 1 ELSE due
    /\ UNCHANGED <<budget, asked, answered, streamVars, recv, sdpVars, iceVars, selector,
                   flagVars, timerVars, iceState, iceEvent, remoteSet, pcClosed,
                   mediaVars, stopVars, main>>

-----------------------------------------------------------------------------
(* handleTimeout: three goroutines around a buffered channel.              *)

TimerArmed ==
    /\ Running /\ timer = "wait" /\ connected
    /\ timer' = "sleep"
    /\ UNCHANGED <<peerVars, streamVars, recv, sdpVars, iceVars, selector, flagVars,
                   starter, start, decider, rtcVars, mediaVars, stopVars, main>>

\* Faulty variant: the timer starts the session.
TimerStarts ==
    /\ Running /\ timer = "sleep"
    /\ timer' = "done"
    /\ start' = Append(start, TRUE)
    /\ UNCHANGED <<peerVars, streamVars, recv, sdpVars, iceVars, selector, flagVars,
                   starter, decider, rtcVars, mediaVars, stopVars, main>>

TimerFires ==
    /\ Running /\ timer = "sleep"
    /\ timer' = "done"
    /\ start' = Append(start, FALSE)
    /\ UNCHANGED <<peerVars, streamVars, recv, sdpVars, iceVars, selector, flagVars,
                   starter, decider, rtcVars, mediaVars, stopVars, main>>

StarterFires ==
    /\ Running /\ starter = "wait" /\ selected
    /\ starter' = "done"
    /\ start' = Append(start, TRUE)
    /\ UNCHANGED <<peerVars, streamVars, recv, sdpVars, iceVars, selector, flagVars,
                   timer, decider, rtcVars, mediaVars, stopVars, main>>

\* The first value decides: Start registers the data channels, which makes the
\* peer connection negotiate; a timeout stops the proxy.
Decide ==
    /\ Running /\ decider = "wait" /\ start # <<>>
    /\ decider' = "done"
    /\ start' = Tail(start)
    /\ IF Head(start)
       THEN /\ started' = TRUE
            /\ offers' = IF pcClosed THEN offers ELSE offers + 1
            /\ UNCHANGED stop
       ELSE /\ stop' = [stop EXCEPT !["decider"] = "close"]
            /\ UNCHANGED <<started, offers>>
    /\ UNCHANGED <<peerVars, streamVars, recv, sdpVars, iceVars, selector, flagVars,
                   timer, starter, iceState, iceEvent, remoteSet, pcClosed,
                   listening, lisClosed, connLoop, main>>

-----------------------------------------------------------------------------
(* Connection states, Listen and Stop.                                     *)

\* The loop receives a state; a lost peer makes it call Stop.
ConnectionState ==
    /\ Running /\ connLoop = "wait" /\ iceEvent # "none" /\ stop["conn"] = "no"
    /\ IF iceEvent = "connected"
       THEN connLoop' = "listen" /\ UNCHANGED stop
       ELSE stop' = [stop EXCEPT !["conn"] = "close"] /\ UNCHANGED connLoop
    /\ iceEvent' = "none"
    /\ UNCHANGED <<peerVars, streamVars, recv, sdpVars, iceVars, selector, flagVars,
                   timerVars, iceState, offers, remoteSet, pcClosed, mediaVars, main>>

\* Listen adds a track per pipeline and opens it; the new tracks need an offer.
\* A closed connection refuses the tracks and nothing is opened.
Listen ==
    /\ Running /\ connLoop = "listen"
    /\ connLoop' = "wait"
    /\ IF pcClosed
       THEN UNCHANGED <<listening, offers>>
       ELSE listening' = TRUE /\ offers' = offers + 1
    /\ UNCHANGED <<peerVars, streamVars, recv, sdpVars, iceVars, selector, flagVars,
                   timerVars, iceState, iceEvent, remoteSet, pcClosed, started,
                   lisClosed, stop, main>>

StopClose(s) ==
    /\ Running /\ stop[s] = "close"
    /\ pcClosed' = TRUE
    /\ stop' = [stop EXCEPT ![s] = "signal"]
    /\ UNCHANGED <<peerVars, streamVars, recv, sdpVars, iceVars, selector, flagVars,
                   timerVars, iceState, iceEvent, offers, remoteSet, mediaVars,
                   connLoop, main>>

\* Faulty variant: the process is told to end before the pipelines are closed.
StopSignalLast(s) ==
    /\ Running /\ stop[s] = "signal"
    /\ streamUp' = FALSE
    /\ stop' = [stop EXCEPT ![s] = "shutdown"]
    /\ UNCHANGED <<peerVars, inq, recv, sdpVars, iceVars, selector, flagVars,
                   timerVars, rtcVars, mediaVars, connLoop, main>>

StopSignal(s) ==
    /\ Running /\ stop[s] = "signal"
    /\ streamUp' = FALSE
    /\ stop' = [stop EXCEPT ![s] = "listeners"]
    /\ UNCHANGED <<peerVars, inq, recv, sdpVars, iceVars, selector, flagVars,
                   timerVars, rtcVars, mediaVars, connLoop, main>>

StopListeners(s) ==
    /\ Running /\ stop[s] = "listeners"
    /\ lisClosed' = TRUE
    /\ stop' = [stop EXCEPT ![s] = "shutdown"]
    /\ UNCHANGED <<peerVars, streamVars, recv, sdpVars, iceVars, selector, flagVars,
                   timerVars, rtcVars, started, listening, connLoop, main>>

\* Shutdown is unbuffered: the send completes when main receives it.
StopShutdown(s) ==
    /\ Running /\ stop[s] = "shutdown"
    /\ main' = "exited"
    /\ stop' = [stop EXCEPT ![s] = "done"]
    /\ UNCHANGED <<peerVars, streamVars, recv, sdpVars, iceVars, selector, flagVars,
                   timerVars, rtcVars, mediaVars, connLoop>>

Stop(s) == StopClose(s) \/ StopSignal(s) \/ StopListeners(s) \/ StopShutdown(s)

-----------------------------------------------------------------------------
RecvLoop  == \/ RecvPacket \/ RecvError \/ RecvShutdown
             \/ HandSdp \/ HandIce \/ HandSelection
IceWorker == GiveIce \/ CheckIce \/ AddIce
SdpWorker == GiveSdp \/ ApplyAnswer

Next ==
    \/ PeerStart \/ PeerSelects \/ PeerAnswersOffer \/ PeerTrickles
    \/ StreamLost \/ IceChanges
    \/ RecvPacket \/ RecvError \/ RecvShutdown \/ HandSdp \/ HandIce \/ HandSelection
    \/ Select \/ GiveSdp \/ ApplyAnswer \/ GiveIce \/ CheckIce \/ AddIce \/ SendOffer
    \/ TimerArmed \/ TimerFires \/ StarterFires \/ Decide
    \/ ConnectionState \/ Listen
    \/ \E s \in Stoppers : \/ StopClose(s) \/ StopSignal(s)
                           \/ StopListeners(s) \/ StopShutdown(s)

Spec == Init /\ [][Next]_vars

\* The scheduler runs every goroutine that can step and timers fire; nothing
\* is assumed of the browser, of the network or of the ICE agent.
Fairness ==
    /\ WF_vars(RecvLoop) /\ WF_vars(Select) /\ WF_vars(SdpWorker) /\ WF_vars(IceWorker)
    /\ WF_vars(SendOffer)
    /\ WF_vars(TimerArmed) /\ WF_vars(TimerFires) /\ WF_vars(StarterFires) /\ WF_vars(Decide)
    /\ WF_vars(ConnectionState) /\ WF_vars(Listen)
    /\ \A s \in Stoppers : WF_vars(Stop(s))

FairSpec == Spec /\ Fairness

-----------------------------------------------------------------------------
PeerTypes ==
    /\ budget \in [start : Nat, answer : Nat, ice : Nat]
    /\ asked \in Nat /\ due \in Nat /\ answered \in BOOLEAN

StreamTypes == inq \in Seq(Packets) /\ streamUp \in BOOLEAN

LoopTypes ==
    /\ recv \in {"read", "SDP", "ICE", "good", "refused", "shutdown", "ended"}
    /\ onSdp \in {"idle", "give"} /\ sdpW \in {"idle", "apply"} /\ rejected \in BOOLEAN
    /\ onIce \in {"idle", "give"} /\ iceW \in {"idle", "check", "add", "dead"}
    /\ selector \in {"idle", "good", "refused"}
    /\ connected \in BOOLEAN /\ selected \in BOOLEAN

TimerTypes ==
    /\ timer \in {"wait", "sleep", "done"} /\ starter \in {"wait", "done"}
    /\ start \in Seq(BOOLEAN) /\ decider \in {"wait", "done"}

MediaTypes ==
    /\ stop \in [Stoppers -> StopStages] /\ connLoop \in {"wait", "listen"}
    /\ iceState \in {"new", "connected", "down"}
    /\ iceEvent \in {"none", "connected", "down"}
    /\ offers \in Nat /\ remoteSet \in BOOLEAN /\ pcClosed \in BOOLEAN
    /\ started \in BOOLEAN /\ listening \in BOOLEAN /\ lisClosed \in BOOLEAN
    /\ main \in {"wait", "exited", "crashed"}

TypeOK == PeerTypes /\ StreamTypes /\ LoopTypes /\ TimerTypes /\ MediaTypes

\* The strengthenings behind the three invariants below.  Everything the
\* session negotiates goes back to a taken selection.
StartTaken      == \A i \in 1 .. Len(start) : start[i] => selected
StartedTaken    == started => selected
OffersStarted   == offers > 0 \/ due > 0 \/ answered => started
QueueAnswered   == \A i \in 1 .. Len(inq) : inq[i] \in {"SDP", "ICE"} => answered
WorkersAnswered == recv \in {"SDP", "ICE"} \/ onSdp = "give" \/ sdpW = "apply" \/ remoteSet
                       => answered
MediaAnswered   == iceEvent = "connected" \/ connLoop = "listen" \/ listening => remoteSet

Chain == /\ StartTaken /\ StartedTaken /\ OffersStarted
         /\ QueueAnswered /\ WorkersAnswered /\ MediaAnswered

\* A selection that was taken, or is on its way, came from the browser.
SelectionSent ==
    budget.answer = 0 =>
        /\ \A i \in 1 .. Len(inq) : inq[i] \notin Selections
        /\ recv \notin Selections /\ selector = "idle" /\ ~ selected

\* Every candidate is behind the answer it followed: an SDP answer that has
\* arrived is in force, was refused, or is somewhere in the pipeline.
Queued(p)       == \E i \in 1 .. Len(inq) : inq[i] = p
AnswerInWorkers == onSdp = "give" \/ sdpW = "apply" \/ remoteSet \/ rejected

AnswerKept   == answered => AnswerInWorkers \/ recv = "SDP" \/ Queued("SDP")
IceBehind    == \A i \in 1 .. Len(inq) : inq[i] = "ICE" =>
                    \/ AnswerInWorkers \/ recv = "SDP"
                    \/ \E j \in 1 .. (i - 1) : inq[j] = "SDP"
IceInWorkers == recv = "ICE" \/ onIce = "give" \/ iceW = "check" => AnswerInWorkers

Order == AnswerKept /\ IceBehind /\ IceInWorkers

\* A hub that shuts down for a lost stream had no selection, so no answer can
\* reach it any more; a Stop that shuts down has closed the pipelines.
ShutdownUnasked == recv = "shutdown" => ~ streamUp /\ ~ answered /\ due = 0
StopCloses      == \A s \in Stoppers : stop[s] \in {"shutdown", "done"} => lisClosed
ExitClosed      == main = "exited" => ~ listening \/ lisClosed

Closing == ShutdownUnasked /\ StopCloses /\ ExitClosed

\* Nothing is negotiated, and no pipeline opened, before a device selection
\* has succeeded: the data channels, the offer, the browser's answer and the
\* media all wait for it, whichever of timeout and selection wins.
SelectionFirst ==
    (started \/ offers > 0 \/ due > 0 \/ remoteSet \/ listening) => selected

\* The candidate goroutine is about to give up only while the answer sent
\* before that candidate is still on its way through the SDP goroutines, or
\* the connection refused it: candidates are lost to nothing else.
IceLostOnlyWhenOvertaking ==
    iceW = "check" /\ ~ remoteSet
        => onSdp = "give" \/ sdpW = "apply" \/ rejected

\* Once the pipelines run, the process exits only after Stop closed them
\* (a panic aside): no way out of main leaves the capture running.
ExitClosesMedia == main = "exited" /\ listening => lisClosed

\* The signalling loop never blocks for good on a goroutine it feeds, unless
\* the candidate goroutine gave up.
RecvUnblocks ==
    (recv \in {"SDP", "ICE", "good", "refused"})
        ~> (recv \in {"read", "shutdown", "ended"} \/ iceW = "dead" \/ ~ Running)

\* Losing the stream before a selection ends the process.
StreamLossExits == ~ streamUp ~> (selected \/ ~ Running)

\* The hub is the peer that BrowserSession takes it for: it sends no offer before
\* a selection of the browser, whatever the timer and the other goroutines do.
BrowserPeer == INSTANCE Peer WITH chosen <- budget.answer > 0, trickled <- budget.ice
ImplementsPeer == BrowserPeer!Spec
=============================================================================
