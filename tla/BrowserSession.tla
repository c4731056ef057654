--------------------------- MODULE BrowserSession ---------------------------
(***************************************************************************)
(* The page's side of a session (client/browser-core/src and               *)
(* client/browser/pages/index.tsx): the websocket, the device dialogs, the *)
(* peer connection with its chain of operations, the data channels.  One   *)
(* handler runs at a time and other events come in at every await; what    *)
(* follows an await runs as soon as the awaited operation completes.       *)
(***************************************************************************)
EXTENDS Naturals, Sequences

CONSTANTS
    MaxRetries,   \* bound: selections the hub refuses
    MaxOffers,    \* bound: offers the hub makes
    MaxHubIce,    \* bound: candidates the hub sends
    MaxPageIce    \* bound: candidates the page gathers

ASSUME BoundsAssumption ==
    MaxRetries \in Nat /\ MaxOffers \in Nat /\ MaxHubIce \in Nat /\ MaxPageIce \in Nat

VARIABLES
    monitors, soundcards,  \* how many devices the hub lists
    defaultListed,         \* "Default Audio Render Device" is among them
    page,          \* the page, until it reloads itself
    ws,            \* state of WebSocketConnection
    fromHub,       \* packets on the way to the page
    hub, questions, \* what the hub does about the device, and how often it asked
    offers, offering, \* offers the hub made; one is made and not sent
    hubIce,        \* candidates the hub sent
    defaultUsed,   \* defaultSoundcard is null
    dialog,        \* where selectDevice stands
    asks,          \* the user was asked for the selection under way
    selections,    \* selections sent
    Conn,          \* SetupConnection has run
    chain,         \* operations of Conn that are not completed, in order
    remote,        \* the offer that is Conn's remote description, 0 for none
    failed,        \* the offer that could not be applied or answered, 0 for none
    answers,       \* answers sent, by the offer they answer
    pageIce,       \* local candidates sent
    lost,          \* remote candidates refused
    early,         \* history: remote candidates that reached the page before its first offer
    state          \* connectionState of Conn

deviceVars == <<monitors, soundcards, defaultListed>>
hubVars == <<hub, questions, offers, offering, hubIce>>
dialogVars == <<defaultUsed, dialog, asks, selections>>
rtcVars == <<Conn, failed, chain, remote, answers, pageIce, lost, early, state>>
vars == <<deviceVars, page, ws, fromHub, hubVars, dialogVars, rtcVars>>

Running == page = "open"
Delivered(p) == fromHub' = IF ws = "open" THEN Append(fromHub, p) ELSE fromHub

\* onServerMessage hands a packet to the handler of its target.
Take(targets) ==
    /\ Running /\ ws = "open" /\ fromHub # <<>> /\ Head(fromHub) \in targets
    /\ fromHub' = Tail(fromHub)

\* A packet that is sent when the websocket has closed is discarded.
SignallingSend == ws = "open"

-----------------------------------------------------------------------------
\* GetDevice always lists the sound card "none", and may list no monitor.
Init ==
    /\ monitors \in {"none", "one", "many"} /\ soundcards \in {"one", "many"}
    /\ defaultListed \in BOOLEAN
    /\ page = "open" /\ ws = "connecting" /\ fromHub = <<>>
    /\ hub = "start" /\ questions = 0 /\ offers = 0 /\ offering = FALSE /\ hubIce = 0
    /\ defaultUsed = FALSE /\ dialog = "none" /\ asks = FALSE /\ selections = 0
    /\ Conn = FALSE /\ chain = <<>> /\ remote = 0 /\ failed = 0 /\ answers = <<>>
    /\ pageIce = 0 /\ lost = 0 /\ early = 0 /\ state = "new"

-----------------------------------------------------------------------------
(* The hub, through the signaling server: see HubSession.                  *)

HubAsks ==
    /\ Running /\ hub = "start" /\ ws = "open"
    /\ hub' = "asked" /\ questions' = 1 /\ Delivered("CONFIG")
    /\ UNCHANGED <<deviceVars, page, ws, offers, offering, hubIce, dialogVars, rtcVars>>

HubReplies ==
    /\ Running /\ hub = "selecting"
    /\ \/ hub' = "accepted" /\ UNCHANGED <<questions, fromHub>>
       \/ /\ questions <= MaxRetries /\ questions' = questions + 1
          /\ hub' = "asked" /\ Delivered("DEVICES")
    /\ UNCHANGED <<deviceVars, page, ws, offers, offering, hubIce, dialogVars, rtcVars>>

\* The first offer carries the data channels; the hub adds its tracks when ICE
\* connects, and makes an offer only when the last was answered.
HubNegotiates ==
    /\ Running /\ hub = "accepted" /\ ~ offering
    /\ offers < MaxOffers /\ Len(answers) = offers
    /\ offering' = TRUE
    /\ UNCHANGED <<deviceVars, page, ws, fromHub, hub, questions, offers, hubIce, dialogVars, rtcVars>>

HubSendsOffer ==
    /\ Running /\ offering
    /\ offering' = FALSE /\ offers' = offers + 1
    /\ Delivered("SDP")
    /\ UNCHANGED <<deviceVars, page, ws, hub, questions, hubIce, dialogVars, rtcVars>>

\* Candidates come from a goroutine of their own: they may pass the offer.
HubTrickles ==
    /\ Running /\ (offering \/ offers > 0)
    /\ hubIce < MaxHubIce
    /\ hubIce' = hubIce + 1
    /\ Delivered("ICE")
    /\ UNCHANGED <<deviceVars, page, ws, hub, questions, offers, offering, dialogVars, rtcVars>>

-----------------------------------------------------------------------------
(* The websocket.                                                          *)

OnServerOpen ==
    /\ Running /\ ws = "connecting"
    /\ ws' = "open"
    /\ UNCHANGED <<deviceVars, page, fromHub, hubVars, dialogVars, rtcVars>>

\* An error or a close is logged and that is all: nothing connects again, and
\* what is sent from then on is discarded.
OnServerError ==
    /\ Running /\ ws # "closed"
    /\ ws' = "closed" /\ fromHub' = <<>>
    /\ UNCHANGED <<deviceVars, page, hubVars, dialogVars, rtcVars>>

-----------------------------------------------------------------------------
(* Device selection.                                                       *)

\* The dialog for the display, or none when there is no choice.
AskDisplay == IF monitors = "many" THEN "display" ELSE "done"

\* Faulty variant: the default sound card is taken whenever it is listed.
SelectDefaultAlways ==
    IF monitors = "none" THEN dialog' = "failed" /\ UNCHANGED <<defaultUsed, asks>>
    ELSE IF soundcards = "many" /\ ~ defaultListed
    THEN dialog' = "soundcard" /\ asks' = TRUE /\ UNCHANGED defaultUsed
    ELSE dialog' = AskDisplay /\ asks' = (AskDisplay = "display") /\ UNCHANGED defaultUsed

\* selectDevice up to its first await.  It reads the first monitor before it
\* looks how many there are.  The default sound card is taken once.
SelectDevice ==
    LET default == soundcards = "many" /\ defaultListed /\ ~ defaultUsed
        card == soundcards = "many" /\ ~ default
    IN
    /\ dialog' = IF monitors = "none" THEN "failed"
                 ELSE IF card THEN "soundcard" ELSE AskDisplay
    /\ asks' = (dialog' \in {"soundcard", "display"})
    /\ defaultUsed' = (defaultUsed \/ (monitors # "none" /\ default))

\* The user chooses, or dismisses the dialog, which selects no device.
UserCloses ==
    /\ Running /\ dialog \in {"soundcard", "display"}
    /\ dialog' = IF dialog = "soundcard" THEN AskDisplay ELSE "done"
    /\ UNCHANGED <<deviceVars, page, ws, fromHub, hubVars, defaultUsed, asks, selections, rtcVars>>

\* Faulty variant: the dialog stays ready to be sent again.
SendTwice ==
    /\ Running /\ dialog = "done"
    /\ dialog' \in {"none", "done"}
    /\ IF SignallingSend
       THEN selections' = selections + 1 /\ hub' = "selecting"
       ELSE UNCHANGED <<selections, hub>>
    /\ UNCHANGED <<deviceVars, page, ws, fromHub, questions, offers, offering, hubIce, defaultUsed,
                   asks, rtcVars>>

SendSelection ==
    /\ Running /\ dialog = "done"
    /\ dialog' = "none"
    /\ IF SignallingSend
       THEN selections' = selections + 1 /\ hub' = "selecting"
       ELSE UNCHANGED <<selections, hub>>
    /\ UNCHANGED <<deviceVars, page, ws, fromHub, questions, offers, offering, hubIce, defaultUsed,
                   asks, rtcVars>>

-----------------------------------------------------------------------------
(* handleIncomingPacket and the peer connection.                           *)

\* Without a connection the handler throws.
Enqueue(op) == chain' = IF Conn THEN Append(chain, op) ELSE chain

\* No offer has reached the page: none is applied and none is in the chain.
OfferUnseen == remote = 0 /\ \A i \in 1 .. Len(chain) : chain[i][1] = "ice"

\* Faulty variant: a candidate does not wait for the operations before it.
ReceiveUnchained ==
    /\ Take({"ICE"})
    /\ lost' = IF remote = 0 THEN lost + 1 ELSE lost
    /\ early' = IF OfferUnseen THEN early + 1 ELSE early
    /\ UNCHANGED <<deviceVars, page, ws, hubVars, dialogVars, Conn, failed, chain, remote, answers,
                   pageIce, state>>

ReceiveSDP ==
    /\ Take({"SDP"})
    /\ Enqueue(<<"setRemote", offers>>)
    /\ UNCHANGED <<deviceVars, page, ws, hubVars, dialogVars, Conn, failed, remote, answers, pageIce,
                   lost, early, state>>

ReceiveICE ==
    /\ Take({"ICE"})
    /\ Enqueue(<<"ice", 0>>)
    /\ early' = IF OfferUnseen THEN early + 1 ELSE early
    /\ UNCHANGED <<deviceVars, page, ws, hubVars, dialogVars, Conn, failed, remote, answers, pageIce,
                   lost, state>>

\* PREFLIGHT: the first carries the configuration of the connection.
ReceivePreflight ==
    /\ Take({"CONFIG", "DEVICES"})
    /\ Conn' = (Conn \/ Head(fromHub) = "CONFIG")
    /\ SelectDevice
    /\ UNCHANGED <<deviceVars, page, ws, hubVars, selections, failed, chain, remote, answers, pageIce,
                   lost, early, state>>

\* Faulty variant: nothing is answered when an offer has been applied.
SetRemoteOnly ==
    /\ Running /\ chain # <<>> /\ Head(chain)[1] = "setRemote"
    /\ remote' = Head(chain)[2]
    /\ chain' = Tail(chain)
    /\ UNCHANGED <<deviceVars, page, ws, fromHub, hubVars, dialogVars, Conn, failed, answers, pageIce,
                   lost, early, state>>

\* onIncomingSDP, from await to await.
SetRemote ==
    /\ Running /\ chain # <<>> /\ Head(chain)[1] = "setRemote"
    /\ remote' = Head(chain)[2]
    /\ chain' = Append(Tail(chain), <<"createAnswer", Head(chain)[2]>>)
    /\ UNCHANGED <<deviceVars, page, ws, fromHub, hubVars, dialogVars, Conn, failed, answers, pageIce,
                   lost, early, state>>

CreateAnswer ==
    /\ Running /\ chain # <<>> /\ Head(chain)[1] = "createAnswer"
    /\ chain' = Append(Tail(chain), <<"setLocal", Head(chain)[2]>>)
    /\ UNCHANGED <<deviceVars, page, ws, fromHub, hubVars, dialogVars, Conn, failed, remote, answers,
                   pageIce, lost, early, state>>

\* onLocalDescription: the answer is sent when it has been applied.
SetLocal ==
    /\ Running /\ chain # <<>> /\ Head(chain)[1] = "setLocal"
    /\ chain' = Tail(chain)
    /\ answers' = IF SignallingSend THEN Append(answers, Head(chain)[2]) ELSE answers
    /\ state' = IF state = "new" THEN "connecting" ELSE state
    /\ UNCHANGED <<deviceVars, page, ws, fromHub, hubVars, dialogVars, Conn, failed, remote, pageIce,
                   lost, early>>

\* An await of onIncomingSDP throws: the error is logged, and what would have
\* followed does not.
OnIncomingSDPFails ==
    /\ Running /\ chain # <<>>
    /\ Head(chain)[1] \in {"setRemote", "createAnswer", "setLocal"}
    /\ chain' = Tail(chain)
    /\ failed' = Head(chain)[2]
    /\ UNCHANGED <<deviceVars, page, ws, fromHub, hubVars, dialogVars, Conn, remote, answers,
                   pageIce, lost, early, state>>

\* onIncomingICE: a refused candidate is logged.
AddIceCandidate ==
    /\ Running /\ chain # <<>> /\ Head(chain)[1] = "ice"
    /\ chain' = Tail(chain)
    /\ lost' = IF remote = 0 THEN lost + 1 ELSE lost
    /\ UNCHANGED <<deviceVars, page, ws, fromHub, hubVars, dialogVars, Conn, failed, remote, answers,
                   pageIce, early, state>>

-----------------------------------------------------------------------------
(* Events of the peer connection.                                          *)

\* Gathering starts when the first answer is applied.
OnICECandidates ==
    /\ Running /\ state # "new" /\ SignallingSend
    /\ pageIce < MaxPageIce /\ pageIce' = pageIce + 1
    /\ UNCHANGED <<deviceVars, page, ws, fromHub, hubVars, dialogVars, Conn, failed, chain, remote,
                   answers, lost, early, state>>

\* A connection that is lost, for however short a time, reloads the page.
OnConnectionStateChange ==
    /\ Running
    /\ \/ state = "connecting" /\ Len(answers) > 0 /\ state' = "connected" /\ UNCHANGED page
       \/ state \in {"connecting", "connected"} /\ state' = "lost" /\ page' = "reloaded"
    /\ UNCHANGED <<deviceVars, ws, fromHub, hubVars, dialogVars, Conn, failed, chain, remote, answers,
                   pageIce, lost, early>>

-----------------------------------------------------------------------------
Next ==
    \/ HubAsks \/ HubReplies \/ HubNegotiates \/ HubSendsOffer \/ HubTrickles
    \/ OnServerOpen \/ OnServerError
    \/ UserCloses \/ SendSelection
    \/ ReceivePreflight \/ ReceiveSDP \/ ReceiveICE
    \/ SetRemote \/ CreateAnswer \/ SetLocal \/ OnIncomingSDPFails \/ AddIceCandidate
    \/ OnICECandidates \/ OnConnectionStateChange

Spec == Init /\ [][Next]_vars

\* The page's event loop takes packets and completes operations, well or not.
Fairness ==
    /\ WF_vars(ReceivePreflight \/ ReceiveSDP \/ ReceiveICE)
    /\ WF_vars(\/ SetRemote \/ CreateAnswer \/ SetLocal \/ OnIncomingSDPFails
               \/ AddIceCandidate)
    /\ WF_vars(SendSelection)

FairSpec == Spec /\ Fairness
-----------------------------------------------------------------------------
\* A candidate of the hub is refused only if it reached the page before the
\* first offer did, or that offer could not be applied itself: those that come
\* while an offer is being applied wait for it.
CandidateLostOnlyBeforeOffer == lost <= early \/ (remote = 0 /\ failed # 0)

\* A refused selection is not repeated behind the user's back: the next one
\* follows a dialog, unless there is one sound card and one display.
RetryAsksUser ==
    [][selections' > selections /\ selections > 0
          => asks \/ (soundcards = "one" /\ monitors = "one")]_vars

\* Every offer that is sent is answered, unless the websocket fails, the page
\* reloads, or this very offer cannot be applied or answered: the error is only
\* logged, the hub is not told, and negotiation rests from then on.
OffersAnswered ==
    (offers > Len(answers))
        ~> (offers = Len(answers) \/ failed = offers \/ ws = "closed" \/ ~ Running)

\* The page is the peer that HubSession takes it for: it answers each question
\* and each offer once at most, and sends its candidates after its first answer.
HubPeer == INSTANCE Peer WITH
    asked <- questions - selections,
    chosen <- selections > 0,
    due <- offers - Len(answers),
    answered <- answers # <<>>,
    trickled <- pageIce
ImplementsPeer == HubPeer!Spec
=============================================================================
