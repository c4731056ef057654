------------------------- MODULE BrowserSessionProofs -------------------------
(***************************************************************************)
(* Theorems about BrowserSession for every number of refusals, offers and  *)
(* candidates: the page is the peer the hub takes it for, a candidate is   *)
(* lost only by coming too early, and no refused selection is repeated.    *)
(***************************************************************************)
EXTENDS BrowserSession, TLAPS

Packets == {"CONFIG", "DEVICES", "SDP", "ICE"}
Operations == {"setRemote", "createAnswer", "setLocal", "ice"} \X Nat
Asking == {"soundcard", "display", "done"}

SessionTypes ==
    /\ fromHub \in Seq(Packets) /\ chain \in Seq(Operations) /\ answers \in Seq(Nat)
    /\ questions \in Nat /\ selections \in Nat /\ offers \in Nat
    /\ pageIce \in Nat /\ lost \in Nat /\ early \in Nat /\ remote \in Nat /\ failed \in Nat
    /\ hub \in {"start", "asked", "selecting", "accepted"}
    /\ dialog \in Asking \cup {"none", "failed"}

-----------------------------------------------------------------------------
(* Questions: one is on its way, in a dialog or lost at a time.            *)

Question(i) == fromHub[i] \in {"CONFIG", "DEVICES"}

QuestionInv ==
    /\ questions = IF hub = "asked" THEN selections + 1 ELSE selections
    /\ hub = "start" => selections = 0
    /\ hub \in {"selecting", "accepted"} \/ offering => selections > 0
    /\ dialog \in Asking => hub = "asked"
    /\ \A i \in DOMAIN fromHub : Question(i) => hub = "asked" /\ dialog \notin Asking
    /\ \A i, j \in DOMAIN fromHub : Question(i) /\ Question(j) => i = j

-----------------------------------------------------------------------------
(* Offers: the one that is not answered is a packet, or in the chain, or   *)
(* lost; none follows one that failed.                                     *)

SDP(i) == fromHub[i] = "SDP"
Applying(i) == chain[i][1] # "ice"

OfferInv ==
    /\ offers = Len(answers) \/ (offers = Len(answers) + 1 /\ ~ offering)
    /\ \A i \in DOMAIN fromHub : SDP(i) => offers = Len(answers) + 1
    /\ \A i \in DOMAIN chain : Applying(i) => offers = Len(answers) + 1
    /\ \A i, j \in DOMAIN fromHub : SDP(i) /\ SDP(j) => i = j
    /\ \A i, j \in DOMAIN chain : Applying(i) /\ Applying(j) => i = j
    /\ ~ \E i \in DOMAIN fromHub, j \in DOMAIN chain : SDP(i) /\ Applying(j)
    /\ failed # 0 => /\ offers = Len(answers) + 1
                     /\ \A i \in DOMAIN fromHub : ~ SDP(i)
                     /\ \A i \in DOMAIN chain : ~ Applying(i)

\* Gathering has begun only after an answer, unless the websocket ate it.
TrickleInv ==
    /\ ws = "connecting" => chain = <<>> /\ state = "new"
    /\ ws = "open" /\ state # "new" => answers # <<>>

-----------------------------------------------------------------------------
(* Candidates: those that will be refused are in the chain before any      *)
(* offer.                                                                  *)

OffersNumbered ==
    \A i \in DOMAIN chain :
        /\ chain[i][1] = "setRemote" => chain[i][2] # 0
        /\ chain[i][1] \in {"createAnswer", "setLocal"} => remote # 0

EarlyCounted ==
    remote = 0 /\ failed = 0 => \A n \in DOMAIN chain :
        (\A i \in 1 .. n : chain[i][1] = "ice") => lost + n <= early

CandidateInv == CandidateLostOnlyBeforeOffer /\ OffersNumbered /\ EarlyCounted

-----------------------------------------------------------------------------
(* Dialogs: the default sound card is taken once, before the first         *)
(* selection.                                                              *)

DialogInv ==
    /\ monitors \in {"none", "one", "many"} /\ soundcards \in {"one", "many"}
    /\ dialog \in Asking => monitors # "none"
    /\ (dialog \in Asking \/ selections > 0) /\ soundcards = "many" /\ defaultListed => defaultUsed
    /\ dialog \in Asking /\ selections > 0
        => asks \/ (soundcards = "one" /\ monitors = "one")

SessionInv ==
    SessionTypes /\ QuestionInv /\ OfferInv /\ TrickleInv /\ CandidateInv /\ DialogInv

-----------------------------------------------------------------------------
(* Sequences that grow at the end and shrink at the head.                  *)

LEMMA Appended ==
    ASSUME NEW S, NEW s \in Seq(S), NEW e \in S
    PROVE  /\ Append(s, e) \in Seq(S)
           /\ DOMAIN Append(s, e) = DOMAIN s \cup {Len(s) + 1} /\ Len(s) + 1 \notin DOMAIN s
           /\ \A i \in DOMAIN s : Append(s, e)[i] = s[i]
           /\ Append(s, e)[Len(s) + 1] = e
OBVIOUS

LEMMA Shortened ==
    ASSUME NEW S, NEW s \in Seq(S), s # <<>>
    PROVE  /\ Tail(s) \in Seq(S) /\ 1 \in DOMAIN s /\ Head(s) = s[1] /\ Head(s) \in S
           /\ \A i \in DOMAIN Tail(s) : i \in Nat \ {0} /\ i + 1 \in DOMAIN s /\ Tail(s)[i] = s[i + 1]
OBVIOUS

\* What is on its way after a packet was sent.
LEMMA DeliveredOnly ==
    ASSUME fromHub \in Seq(Packets), NEW p \in Packets, Delivered(p)
    PROVE  /\ fromHub' \in Seq(Packets)
           /\ \A i \in DOMAIN fromHub' :
                 \/ i \in DOMAIN fromHub /\ fromHub'[i] = fromHub[i]
                 \/ i = Len(fromHub) + 1 /\ fromHub'[i] = p
BY Appended DEF Delivered

\* What is on its way after a packet was taken.
LEMMA TakenFirst ==
    ASSUME fromHub \in Seq(Packets), NEW targets, Take(targets)
    PROVE  /\ fromHub' \in Seq(Packets)
           /\ 1 \in DOMAIN fromHub /\ fromHub[1] \in targets /\ fromHub[1] = Head(fromHub)
           /\ \A i \in DOMAIN fromHub' :
                 i \in Nat \ {0} /\ i + 1 \in DOMAIN fromHub /\ fromHub'[i] = fromHub[i + 1]
BY Shortened DEF Take

\* The chain after an operation was enqueued.
LEMMA EnqueuedLast ==
    ASSUME chain \in Seq(Operations), NEW op \in Operations, Enqueue(op)
    PROVE  /\ chain' \in Seq(Operations)
           /\ \A i \in DOMAIN chain' :
                 \/ i \in DOMAIN chain /\ chain'[i] = chain[i]
                 \/ i = Len(chain) + 1 /\ chain'[i] = op
BY Appended DEF Enqueue

\* The chain after its first operation completed.
LEMMA CompletedFirst ==
    ASSUME chain \in Seq(Operations), chain # <<>>, chain' = Tail(chain)
    PROVE  /\ chain' \in Seq(Operations)
           /\ 1 \in DOMAIN chain /\ chain[1] = Head(chain) /\ Head(chain) \in Operations
           /\ \A i \in DOMAIN chain' :
                 i \in Nat \ {0} /\ i + 1 \in DOMAIN chain /\ chain'[i] = chain[i + 1]
BY Shortened

\* The chain after its first operation completed and was followed by another.
LEMMA CompletedAndFollowed ==
    ASSUME chain \in Seq(Operations), chain # <<>>, NEW op \in Operations,
           chain' = Append(Tail(chain), op)
    PROVE  /\ chain' \in Seq(Operations)
           /\ 1 \in DOMAIN chain /\ chain[1] = Head(chain) /\ Head(chain) \in Operations
           /\ \A i \in DOMAIN chain' :
                 \/ i \in Nat \ {0} /\ i + 1 \in DOMAIN chain /\ chain'[i] = chain[i + 1]
                 \/ i = Len(chain) /\ chain'[i] = op
<1>1. /\ Tail(chain) \in Seq(Operations) /\ Len(Tail(chain)) + 1 = Len(chain)
      /\ 1 \in DOMAIN chain /\ chain[1] = Head(chain) /\ Head(chain) \in Operations
      /\ \A i \in DOMAIN Tail(chain) :
            i \in Nat \ {0} /\ i + 1 \in DOMAIN chain /\ Tail(chain)[i] = chain[i + 1]
  BY Shortened
<1> QED
  BY <1>1, Appended

-----------------------------------------------------------------------------
LEMMA TypesStep ==
    ASSUME SessionTypes, [Next]_vars
    PROVE  SessionTypes'
<1> USE DEF SessionTypes, deviceVars, hubVars, dialogVars, rtcVars, Asking
<1>1. CASE HubAsks \/ HubReplies \/ HubNegotiates \/ HubSendsOffer \/ HubTrickles
  <2>1. \/ fromHub' = fromHub
        \/ Delivered("CONFIG") \/ Delivered("DEVICES") \/ Delivered("SDP") \/ Delivered("ICE")
    BY <1>1 DEF HubAsks, HubReplies, HubNegotiates, HubSendsOffer, HubTrickles
  <2>2. fromHub' \in Seq(Packets)
    BY <2>1, DeliveredOnly DEF Packets
  <2>3. CASE HubAsks \/ HubReplies
    BY <2>2, <2>3 DEF HubAsks, HubReplies
  <2>4. CASE HubNegotiates \/ HubSendsOffer
    <3>1. /\ offers' = offers \/ offers' = offers + 1
          /\ UNCHANGED <<chain, answers, questions, selections, pageIce, lost, early, remote,
                         failed, hub, dialog>>
      BY <2>4 DEF HubNegotiates, HubSendsOffer
    <3>2. offers' \in Nat
      BY <3>1
    <3> QED
      BY <2>2, <3>1, <3>2
  <2>5. CASE HubTrickles
    BY <2>2, <2>5 DEF HubTrickles
  <2> QED
    BY <1>1, <2>3, <2>4, <2>5
<1>2. CASE OnServerOpen \/ OnServerError \/ UserCloses \/ SendSelection
  <2>1. CASE OnServerOpen \/ OnServerError
    <3>1. <<>> \in Seq(Packets)
      OBVIOUS
    <3>2. CASE OnServerOpen
      BY <3>2 DEF OnServerOpen
    <3>3. CASE OnServerError
      BY <3>1, <3>3 DEF OnServerError
    <3> QED
      BY <2>1, <3>2, <3>3
  <2>2. CASE UserCloses \/ SendSelection
    BY <2>2 DEF UserCloses, SendSelection, AskDisplay
  <2> QED
    BY <1>2, <2>1, <2>2
<1>3. CASE ReceivePreflight
  BY <1>3, TakenFirst DEF ReceivePreflight, SelectDevice, AskDisplay
<1>4. CASE ReceiveSDP
  <2>1. <<"setRemote", offers>> \in Operations
    BY DEF Operations
  <2> QED
    BY <1>4, <2>1, TakenFirst, EnqueuedLast DEF ReceiveSDP
<1>5. CASE ReceiveICE
  <2>1. <<"ice", 0>> \in Operations
    BY DEF Operations
  <2> QED
    BY <1>5, <2>1, TakenFirst, EnqueuedLast DEF ReceiveICE
<1>6. CASE SetRemote \/ CreateAnswer \/ SetLocal \/ OnIncomingSDPFails \/ AddIceCandidate
  <2>1. chain # <<>> /\ Head(chain) \in Operations /\ Tail(chain) \in Seq(Operations)
    BY <1>6, Shortened DEF SetRemote, CreateAnswer, SetLocal, OnIncomingSDPFails, AddIceCandidate
  <2>2. /\ Head(chain)[2] \in Nat /\ <<"createAnswer", Head(chain)[2]>> \in Operations
        /\ <<"setLocal", Head(chain)[2]>> \in Operations
    BY <2>1 DEF Operations
  <2>3. CASE SetRemote \/ CreateAnswer
    BY <2>1, <2>2, <2>3, CompletedAndFollowed DEF SetRemote, CreateAnswer
  <2>4. CASE SetLocal
    <3>1. answers' \in Seq(Nat) /\ chain' \in Seq(Operations)
      BY <2>1, <2>2, <2>4, Appended DEF SetLocal
    <3> QED
      BY <2>4, <3>1 DEF SetLocal
  <2>5. CASE AddIceCandidate
    BY <2>1, <2>5 DEF AddIceCandidate
  <2>6. CASE OnIncomingSDPFails
    BY <2>1, <2>2, <2>6 DEF OnIncomingSDPFails
  <2> QED
    BY <1>6, <2>3, <2>4, <2>5, <2>6
<1>7. CASE OnICECandidates
  BY <1>7 DEF OnICECandidates
<1>8. CASE OnConnectionStateChange
  BY <1>8 DEF OnConnectionStateChange
<1>9. CASE UNCHANGED vars
  BY <1>9 DEF vars
<1> QED
  BY <1>1, <1>2, <1>3, <1>4, <1>5, <1>6, <1>7, <1>8, <1>9 DEF Next

-----------------------------------------------------------------------------
LEMMA QuestionStep ==
    ASSUME SessionTypes, QuestionInv, [Next]_vars
    PROVE  QuestionInv'
<1> USE DEF SessionTypes, QuestionInv, Question, deviceVars, hubVars, dialogVars, rtcVars, Asking
<1>1. CASE UNCHANGED <<questions, hub, selections, dialog, fromHub, offering>>
  BY <1>1
<1>2. CASE HubAsks
  <2>1. Delivered("CONFIG") /\ "CONFIG" \in Packets
    BY <1>2 DEF HubAsks, Packets
  <2>2. \A i \in DOMAIN fromHub' :
           \/ i \in DOMAIN fromHub /\ fromHub'[i] = fromHub[i]
           \/ i = Len(fromHub) + 1
    BY <2>1, DeliveredOnly
  <2> QED
    BY <1>2, <2>2 DEF HubAsks
<1>3. CASE HubReplies
  BY <1>3, DeliveredOnly DEF HubReplies, Packets
<1>4. CASE HubSendsOffer \/ HubTrickles
  <2>1. /\ UNCHANGED <<questions, hub, selections, dialog>> /\ (offering' => offering)
        /\ Delivered("SDP") \/ Delivered("ICE")
    BY <1>4 DEF HubSendsOffer, HubTrickles
  <2>2. \A i \in DOMAIN fromHub' : Question(i)' => i \in DOMAIN fromHub /\ fromHub'[i] = fromHub[i]
    BY <2>1, DeliveredOnly DEF Packets
  <2> QED
    BY <2>1, <2>2
<1>5. CASE OnServerError
  BY <1>5 DEF OnServerError
<1>6. CASE UserCloses
  BY <1>6 DEF UserCloses, AskDisplay
<1>7. CASE SendSelection
  BY <1>7 DEF SendSelection
<1>8. CASE ReceivePreflight
  BY <1>8, TakenFirst DEF ReceivePreflight, SelectDevice, AskDisplay
<1>9. CASE ReceiveSDP \/ ReceiveICE
  <2>1. /\ UNCHANGED <<questions, hub, selections, dialog, offering>>
        /\ \A i \in DOMAIN fromHub' :
              i \in Nat \ {0} /\ i + 1 \in DOMAIN fromHub /\ fromHub'[i] = fromHub[i + 1]
    BY <1>9, TakenFirst DEF ReceiveSDP, ReceiveICE
  <2> QED
    BY <2>1
<1>10. CASE OnServerOpen \/ SetRemote \/ CreateAnswer \/ SetLocal
            \/ OnIncomingSDPFails \/ AddIceCandidate \/ OnICECandidates \/ OnConnectionStateChange \/ UNCHANGED vars
  BY <1>1, <1>10 DEF OnServerOpen, SetRemote, CreateAnswer, SetLocal,
     OnIncomingSDPFails, AddIceCandidate, OnICECandidates, OnConnectionStateChange, vars
<1>11. CASE HubNegotiates
  BY <1>11 DEF HubNegotiates
<1> QED
  BY <1>2, <1>3, <1>4, <1>5, <1>6, <1>7, <1>8, <1>9, <1>10, <1>11 DEF Next

-----------------------------------------------------------------------------
LEMMA OfferStep ==
    ASSUME SessionTypes, OfferInv, [Next]_vars
    PROVE  OfferInv'
<1> USE DEF SessionTypes, OfferInv, SDP, Applying, deviceVars, hubVars, dialogVars, rtcVars
<1>1. CASE UNCHANGED <<offers, offering, answers, fromHub, chain, failed>>
  BY <1>1
<1>2. CASE HubNegotiates
  BY <1>2 DEF HubNegotiates
<1>3. CASE HubSendsOffer
  <2>1. Delivered("SDP") /\ "SDP" \in Packets
    BY <1>3 DEF HubSendsOffer, Packets
  <2>2. \A i \in DOMAIN fromHub' :
           \/ i \in DOMAIN fromHub /\ fromHub'[i] = fromHub[i]
           \/ i = Len(fromHub) + 1
    BY <2>1, DeliveredOnly
  <2> QED
    BY <1>3, <2>2 DEF HubSendsOffer
<1>4. CASE HubAsks \/ HubReplies \/ HubTrickles
  <2>1. UNCHANGED <<offers, offering, answers, chain, failed>>
    BY <1>4 DEF HubAsks, HubReplies, HubTrickles
  <2>2. \/ fromHub' = fromHub
        \/ Delivered("CONFIG") \/ Delivered("DEVICES") \/ Delivered("ICE")
    BY <1>4 DEF HubAsks, HubReplies, HubTrickles
  <2>3. \A i \in DOMAIN fromHub' :
           \/ i \in DOMAIN fromHub /\ fromHub'[i] = fromHub[i]
           \/ fromHub'[i] # "SDP"
    BY <2>2, DeliveredOnly DEF Packets
  <2> QED
    BY <2>1, <2>3
<1>5. CASE OnServerError
  BY <1>5 DEF OnServerError
<1>6. CASE ReceivePreflight
  <2>1. /\ UNCHANGED <<offers, offering, answers, chain, failed>>
        /\ \A i \in DOMAIN fromHub' :
              i \in Nat \ {0} /\ i + 1 \in DOMAIN fromHub /\ fromHub'[i] = fromHub[i + 1]
    BY <1>6, TakenFirst DEF ReceivePreflight
  <2> QED
    BY <2>1
<1>7. CASE ReceiveICE
  <2>1. /\ UNCHANGED <<offers, offering, answers, failed>>
        /\ \A i \in DOMAIN fromHub' :
              i \in Nat \ {0} /\ i + 1 \in DOMAIN fromHub /\ fromHub'[i] = fromHub[i + 1]
    BY <1>7, TakenFirst DEF ReceiveICE
  <2>2. Enqueue(<<"ice", 0>>) /\ <<"ice", 0>> \in Operations
    BY <1>7 DEF ReceiveICE, Operations
  <2>3. \A i \in DOMAIN chain' :
           (i \in DOMAIN chain /\ chain'[i] = chain[i]) \/ chain'[i] = <<"ice", 0>>
    BY <2>2, EnqueuedLast
  <2>4. \A i \in DOMAIN chain' : Applying(i)' => i \in DOMAIN chain /\ Applying(i)
    BY <2>3
  <2> QED
    BY <2>1, <2>4
<1>8. CASE ReceiveSDP
  <2>1. /\ UNCHANGED <<offers, offering, answers, failed>>
        /\ 1 \in DOMAIN fromHub /\ SDP(1)
        /\ \A i \in DOMAIN fromHub' :
              i \in Nat \ {0} /\ i + 1 \in DOMAIN fromHub /\ fromHub'[i] = fromHub[i + 1]
    BY <1>8, TakenFirst DEF ReceiveSDP
  <2>2. Enqueue(<<"setRemote", offers>>) /\ <<"setRemote", offers>> \in Operations
    BY <1>8 DEF ReceiveSDP, Operations
  <2>3. \A i \in DOMAIN chain' :
           (i \in DOMAIN chain /\ chain'[i] = chain[i]) \/ i = Len(chain) + 1
    BY <2>2, EnqueuedLast
  <2>4. \A i \in DOMAIN fromHub' : ~ SDP(i)'
    BY <2>1
  <2>5. \A i \in DOMAIN chain : ~ Applying(i)
    BY <2>1
  <2>6. \A i \in DOMAIN chain' : Applying(i)' => i = Len(chain) + 1
    BY <2>3, <2>5
  <2>7. offers = Len(answers) + 1
    BY <2>1
  <2> QED
    BY <2>1, <2>4, <2>6, <2>7
<1>9. CASE SetRemote \/ CreateAnswer
  <2>1. chain # <<>> /\ Head(chain)[1] # "ice" /\ UNCHANGED <<offers, offering, answers, fromHub, failed>>
    BY <1>9 DEF SetRemote, CreateAnswer
  <2>2. PICK op \in Operations : chain' = Append(Tail(chain), op)
    <3>1. Head(chain) \in Operations
      BY <2>1, Shortened
    <3>2. \A o \in {"createAnswer", "setLocal"} : <<o, Head(chain)[2]>> \in Operations
      BY <3>1 DEF Operations
    <3> QED
      BY <1>9, <3>2 DEF SetRemote, CreateAnswer
  <2>3. /\ 1 \in DOMAIN chain /\ Applying(1)
        /\ \A i \in DOMAIN chain' :
              \/ i \in Nat \ {0} /\ i + 1 \in DOMAIN chain /\ chain'[i] = chain[i + 1]
              \/ i = Len(chain)
    BY <2>1, <2>2, CompletedAndFollowed
  <2>4. \A i \in DOMAIN chain : Applying(i) => i = 1
    BY <2>3
  <2>5. \A i \in DOMAIN chain' : Applying(i)' => i = Len(chain)
    BY <2>3, <2>4
  <2>6. (\A i \in DOMAIN fromHub : ~ SDP(i)) /\ offers = Len(answers) + 1
    BY <2>3
  <2> QED
    BY <2>1, <2>5, <2>6
<1>10. CASE SetLocal
  <2>1. chain # <<>> /\ chain' = Tail(chain) /\ Head(chain)[1] # "ice"
        /\ UNCHANGED <<offers, offering, fromHub, failed>>
    BY <1>10 DEF SetLocal
  <2>2. /\ 1 \in DOMAIN chain /\ Applying(1) /\ Head(chain) \in Operations
        /\ \A i \in DOMAIN chain' :
              i \in Nat \ {0} /\ i + 1 \in DOMAIN chain /\ chain'[i] = chain[i + 1]
    BY <2>1, CompletedFirst
  <2>3. \A i \in DOMAIN chain' : ~ Applying(i)'
    BY <2>2
  <2>4. (\A i \in DOMAIN fromHub : ~ SDP(i)) /\ offers = Len(answers) + 1 /\ ~ offering
    BY <2>2
  <2>5. Len(answers') \in {Len(answers), Len(answers) + 1}
    <3>1. Head(chain)[2] \in Nat
      BY <2>2 DEF Operations
    <3> QED
      BY <1>10, <3>1 DEF SetLocal
  <2> QED
    BY <2>1, <2>3, <2>4, <2>5
<1>11. CASE AddIceCandidate
  <2>1. /\ UNCHANGED <<offers, offering, answers, fromHub, failed>>
        /\ \A i \in DOMAIN chain' :
              i \in Nat \ {0} /\ i + 1 \in DOMAIN chain /\ chain'[i] = chain[i + 1]
    BY <1>11, CompletedFirst DEF AddIceCandidate
  <2> QED
    BY <2>1
<1>12. CASE OnServerOpen \/ UserCloses \/ SendSelection \/ OnICECandidates
            \/ OnConnectionStateChange \/ UNCHANGED vars
  BY <1>1, <1>12 DEF OnServerOpen, UserCloses, SendSelection, OnICECandidates,
     OnConnectionStateChange, vars
<1>13. CASE OnIncomingSDPFails
  <2>1. chain # <<>> /\ chain' = Tail(chain) /\ Head(chain)[1] # "ice"
        /\ UNCHANGED <<offers, offering, answers, fromHub>>
    BY <1>13 DEF OnIncomingSDPFails
  <2>2. /\ 1 \in DOMAIN chain /\ Applying(1)
        /\ \A i \in DOMAIN chain' :
              i \in Nat \ {0} /\ i + 1 \in DOMAIN chain /\ chain'[i] = chain[i + 1]
    BY <2>1, CompletedFirst
  <2>3. \A i \in DOMAIN chain' : ~ Applying(i)'
    BY <2>2
  <2>4. (\A i \in DOMAIN fromHub : ~ SDP(i)) /\ offers = Len(answers) + 1 /\ ~ offering
    BY <2>2
  <2> QED
    BY <2>1, <2>3, <2>4
<1> QED
  BY <1>2, <1>3, <1>4, <1>5, <1>6, <1>7, <1>8, <1>9, <1>10, <1>11, <1>12, <1>13 DEF Next

-----------------------------------------------------------------------------
LEMMA TrickleStep ==
    ASSUME SessionTypes, TrickleInv, [Next]_vars
    PROVE  TrickleInv'
<1> USE DEF TrickleInv, deviceVars, hubVars, dialogVars, rtcVars
<1>1. CASE UNCHANGED <<ws, chain, state, answers>>
  BY <1>1
<1>2. CASE OnServerOpen \/ OnServerError
  BY <1>2 DEF OnServerOpen, OnServerError
<1>3. CASE ReceiveSDP \/ ReceiveICE
  BY <1>3 DEF ReceiveSDP, ReceiveICE, Take
<1>4. CASE SetRemote \/ CreateAnswer \/ OnIncomingSDPFails \/ AddIceCandidate
  BY <1>4 DEF SetRemote, CreateAnswer, OnIncomingSDPFails, AddIceCandidate
<1>5. CASE SetLocal
  <2>1. chain # <<>> /\ Head(chain) \in Operations
    BY <1>5, Shortened DEF SetLocal, SessionTypes
  <2>2. Head(chain)[2] \in Nat
    BY <2>1 DEF Operations
  <2>3. Append(answers, Head(chain)[2]) # <<>>
    BY <2>2, Appended DEF SessionTypes
  <2> QED
    BY <1>5, <2>1, <2>3 DEF SetLocal, SignallingSend
<1>6. CASE OnConnectionStateChange
  BY <1>6 DEF OnConnectionStateChange
<1>7. CASE HubAsks \/ HubReplies \/ HubNegotiates \/ HubSendsOffer \/ HubTrickles \/ UserCloses
           \/ SendSelection \/ ReceivePreflight \/ OnICECandidates \/ UNCHANGED vars
  BY <1>1, <1>7 DEF HubAsks, HubReplies, HubNegotiates, HubSendsOffer, HubTrickles, UserCloses,
     SendSelection, ReceivePreflight, OnICECandidates, vars
<1> QED
  BY <1>2, <1>3, <1>4, <1>5, <1>6, <1>7 DEF Next

-----------------------------------------------------------------------------
LEMMA CandidateStep ==
    ASSUME SessionTypes, OfferInv, CandidateInv, [Next]_vars
    PROVE  CandidateInv'
<1> USE DEF SessionTypes, CandidateInv, CandidateLostOnlyBeforeOffer, OffersNumbered, EarlyCounted,
            deviceVars, hubVars, dialogVars, rtcVars
<1>1. CASE UNCHANGED <<lost, early, remote, failed, chain>>
  BY <1>1
<1>2. CASE ReceiveSDP
  <2>1. 1 \in DOMAIN fromHub /\ SDP(1) /\ UNCHANGED <<lost, early, remote, failed>>
    BY <1>2, TakenFirst DEF ReceiveSDP, SDP
  <2>2. offers # 0
    BY <2>1 DEF OfferInv
  <2>3. Enqueue(<<"setRemote", offers>>) /\ <<"setRemote", offers>> \in Operations
    BY <1>2 DEF ReceiveSDP, Operations
  <2>4. \A i \in DOMAIN chain' :
           \/ i \in DOMAIN chain /\ chain'[i] = chain[i]
           \/ i = Len(chain) + 1 /\ chain'[i] = <<"setRemote", offers>>
    BY <2>3, EnqueuedLast
  <2>5. OffersNumbered'
    BY <2>1, <2>2, <2>4
  <2>6. ASSUME remote' = 0, failed' = 0, NEW n \in DOMAIN chain',
               \A i \in 1 .. n : chain'[i][1] = "ice"
        PROVE  lost' + n <= early'
    <3>1. n \in 1 .. n /\ 1 .. n \subseteq DOMAIN chain'
      BY <2>3, EnqueuedLast
    <3>2. n \in DOMAIN chain
      BY <2>4, <2>6, <3>1
    <3>3. \A i \in 1 .. n : i \in DOMAIN chain /\ i # Len(chain) + 1
      BY <3>2
    <3>4. \A i \in 1 .. n : chain'[i] = chain[i]
      BY <2>4, <3>1, <3>3
    <3> QED
      BY <2>1, <2>6, <3>2, <3>4
  <2> QED
    BY <2>1, <2>5, <2>6
<1>3. CASE ReceiveICE
  <2>1. /\ early' = IF OfferUnseen THEN early + 1 ELSE early
        /\ UNCHANGED <<lost, remote, failed>>
    BY <1>3 DEF ReceiveICE
  <2>2. Enqueue(<<"ice", 0>>) /\ <<"ice", 0>> \in Operations
    BY <1>3 DEF ReceiveICE, Operations
  <2>3. \A i \in DOMAIN chain' :
           \/ i \in DOMAIN chain /\ chain'[i] = chain[i]
           \/ i = Len(chain) + 1 /\ chain'[i] = <<"ice", 0>>
    BY <2>2, EnqueuedLast
  <2>4. OffersNumbered'
    BY <2>1, <2>3
  <2>5. ASSUME remote' = 0, failed' = 0, NEW n \in DOMAIN chain',
               \A i \in 1 .. n : chain'[i][1] = "ice"
        PROVE  lost' + n <= early'
    <3>1. n \in Nat \ {0} /\ 1 .. n \subseteq DOMAIN chain'
      BY <2>2, EnqueuedLast
    <3>2. CASE n \in DOMAIN chain
      <4>1. \A i \in 1 .. n : i \in DOMAIN chain /\ i # Len(chain) + 1
        BY <3>2
      <4>2. \A i \in 1 .. n : chain'[i] = chain[i]
        BY <2>3, <3>1, <4>1
      <4>3. lost + n <= early
        BY <2>1, <2>5, <3>2, <4>2
      <4> QED
        BY <2>1, <3>1, <4>3
    <3>3. CASE n = Len(chain) + 1
      <4>1. \A i \in DOMAIN chain : i \in 1 .. n /\ chain'[i] = chain[i]
        BY <2>3, <3>1, <3>3
      <4>2. \A i \in DOMAIN chain : chain[i][1] = "ice"
        BY <2>5, <4>1
      <4>3. OfferUnseen
        BY <2>1, <2>5, <4>2 DEF OfferUnseen
      <4>4. lost + Len(chain) <= early
        <5>1. CASE Len(chain) = 0
          BY <5>1, <2>1, <2>5
        <5>2. CASE Len(chain) # 0
          <6>1. Len(chain) \in DOMAIN chain /\ \A i \in 1 .. Len(chain) : i \in DOMAIN chain
            BY <5>2
          <6> QED
            BY <6>1, <2>1, <2>5, <4>2
        <5> QED
          BY <5>1, <5>2
      <4> QED
        BY <2>1, <3>3, <4>3, <4>4
    <3> QED
      BY <2>3, <3>2, <3>3
  <2>6. CandidateLostOnlyBeforeOffer'
    BY <2>1
  <2> QED
    BY <2>4, <2>5, <2>6
<1>4. CASE SetRemote
  <2>1. /\ chain # <<>> /\ Head(chain)[1] = "setRemote" /\ remote' = Head(chain)[2]
        /\ UNCHANGED <<lost, early>>
    BY <1>4 DEF SetRemote
  <2>2. 1 \in DOMAIN chain /\ chain[1] = Head(chain) /\ Head(chain) \in Operations
    BY <2>1, Shortened
  <2>3. remote' # 0 /\ lost <= early
    BY <2>1, <2>2 DEF OfferInv, Applying
  <2>4. <<"createAnswer", Head(chain)[2]>> \in Operations
    BY <2>2 DEF Operations
  <2>5. OffersNumbered'
    BY <1>4, <2>1, <2>4, CompletedAndFollowed DEF SetRemote
  <2> QED
    BY <2>1, <2>3, <2>5
<1>5. CASE CreateAnswer
  <2>1. /\ chain # <<>> /\ Head(chain)[1] = "createAnswer"
        /\ UNCHANGED <<lost, early, remote, failed>>
    BY <1>5 DEF CreateAnswer
  <2>2. 1 \in DOMAIN chain /\ chain[1] = Head(chain) /\ Head(chain) \in Operations
    BY <2>1, Shortened
  <2>3. <<"setLocal", Head(chain)[2]>> \in Operations
    BY <2>2 DEF Operations
  <2>4. remote # 0
    BY <2>1, <2>2
  <2>5. OffersNumbered'
    BY <1>5, <2>1, <2>3, <2>4, CompletedAndFollowed DEF CreateAnswer
  <2> QED
    BY <2>1, <2>4, <2>5
<1>6. CASE SetLocal
  <2>1. chain # <<>> /\ Head(chain)[1] = "setLocal" /\ chain' = Tail(chain)
        /\ UNCHANGED <<lost, early, remote, failed>>
    BY <1>6 DEF SetLocal
  <2>2. /\ 1 \in DOMAIN chain /\ chain[1] = Head(chain)
        /\ \A i \in DOMAIN chain' : i + 1 \in DOMAIN chain /\ chain'[i] = chain[i + 1]
    BY <2>1, CompletedFirst
  <2>3. remote # 0
    BY <2>1, <2>2
  <2> QED
    BY <2>1, <2>2, <2>3
<1>7. CASE AddIceCandidate
  <2>1. /\ chain # <<>> /\ Head(chain)[1] = "ice" /\ chain' = Tail(chain)
        /\ lost' = (IF remote = 0 THEN lost + 1 ELSE lost)
        /\ UNCHANGED <<early, remote, failed>>
    BY <1>7 DEF AddIceCandidate
  <2>2. /\ 1 \in DOMAIN chain /\ chain[1] = Head(chain)
        /\ \A i \in DOMAIN chain' :
              i \in Nat \ {0} /\ i + 1 \in DOMAIN chain /\ chain'[i] = chain[i + 1]
    BY <2>1, CompletedFirst
  <2>3. OffersNumbered'
    BY <2>1, <2>2
  <2>4. CandidateLostOnlyBeforeOffer'
    <3>1. CASE remote = 0 /\ failed = 0
      <4>1. \A i \in 1 .. 1 : chain[i][1] = "ice"
        BY <2>1, <2>2
      <4>2. lost + 1 <= early
        BY <2>2, <3>1, <4>1
      <4> QED
        BY <2>1, <3>1, <4>2
    <3>2. CASE remote # 0 \/ failed # 0
      BY <2>1, <3>2
    <3> QED
      BY <3>1, <3>2
  <2>5. ASSUME remote' = 0, failed' = 0, NEW n \in DOMAIN chain',
               \A i \in 1 .. n : chain'[i][1] = "ice"
        PROVE  lost' + n <= early'
    <3>1. n \in Nat \ {0} /\ n + 1 \in DOMAIN chain /\ 1 .. n \subseteq DOMAIN chain'
      BY <2>1, <2>2
    <3>2. ASSUME NEW i \in 1 .. n + 1
          PROVE  chain[i][1] = "ice"
      <4>1. CASE i = 1
        BY <2>1, <2>2, <4>1
      <4>2. CASE i # 1
        <5>1. i - 1 \in 1 .. n /\ (i - 1) + 1 = i
          BY <3>1, <4>2
        <5>2. chain'[i - 1] = chain[i] /\ chain'[i - 1][1] = "ice"
          BY <2>2, <2>5, <3>1, <5>1
        <5> QED
          BY <5>2
      <4> QED
        BY <4>1, <4>2
    <3>3. lost + (n + 1) <= early
      BY <2>1, <2>5, <3>1, <3>2
    <3> QED
      BY <2>1, <2>5, <3>1, <3>3
  <2> QED
    BY <2>3, <2>4, <2>5
<1>8. CASE HubAsks \/ HubReplies \/ HubNegotiates \/ HubSendsOffer \/ HubTrickles \/ OnServerOpen
           \/ OnServerError \/ UserCloses \/ SendSelection \/ ReceivePreflight
           \/ OnICECandidates \/ OnConnectionStateChange \/ UNCHANGED vars
  BY <1>1, <1>8 DEF HubAsks, HubReplies, HubNegotiates, HubSendsOffer, HubTrickles, OnServerOpen,
     OnServerError, UserCloses, SendSelection, ReceivePreflight, OnICECandidates,
     OnConnectionStateChange, vars
<1>9. CASE OnIncomingSDPFails
  <2>1. /\ chain # <<>> /\ Head(chain)[1] \in {"setRemote", "createAnswer", "setLocal"}
        /\ chain' = Tail(chain) /\ failed' = Head(chain)[2]
        /\ UNCHANGED <<lost, early, remote>>
    BY <1>9 DEF OnIncomingSDPFails
  <2>2. /\ 1 \in DOMAIN chain /\ chain[1] = Head(chain)
        /\ \A i \in DOMAIN chain' :
              i \in Nat \ {0} /\ i + 1 \in DOMAIN chain /\ chain'[i] = chain[i + 1]
    BY <2>1, CompletedFirst
  <2>3. OffersNumbered'
    BY <2>1, <2>2
  <2>4. remote = 0 => failed' # 0
    BY <2>1, <2>2
  <2> QED
    BY <2>1, <2>3, <2>4
<1> QED
  BY <1>2, <1>3, <1>4, <1>5, <1>6, <1>7, <1>8, <1>9 DEF Next

-----------------------------------------------------------------------------
LEMMA DialogStep ==
    ASSUME SessionTypes, DialogInv, [Next]_vars
    PROVE  DialogInv'
<1> USE DEF SessionTypes, DialogInv, deviceVars, hubVars, dialogVars, rtcVars, Asking
<1>1. CASE UserCloses
  BY <1>1 DEF UserCloses, AskDisplay
<1>2. CASE SendSelection
  BY <1>2 DEF SendSelection
<1>3. CASE ReceivePreflight
  <2>1. SelectDevice /\ UNCHANGED <<deviceVars, selections>>
    BY <1>3 DEF ReceivePreflight
  <2> USE DEF SelectDevice, AskDisplay
  <2>2. CASE monitors = "none"
    BY <2>1, <2>2
  <2>3. CASE monitors # "none" /\ soundcards = "one"
    BY <2>1, <2>3
  <2>4. CASE monitors # "none" /\ soundcards = "many" /\ ~ (defaultListed /\ ~ defaultUsed)
    BY <2>1, <2>4
  <2>5. CASE monitors # "none" /\ soundcards = "many" /\ defaultListed /\ ~ defaultUsed
    BY <2>1, <2>5
  <2> QED
    BY <2>2, <2>3, <2>4, <2>5
<1>4. CASE UNCHANGED <<deviceVars, dialogVars>>
  BY <1>4
<1> QED
  BY <1>1, <1>2, <1>3, <1>4 DEF Next, HubAsks, HubReplies, HubNegotiates, HubSendsOffer,
     HubTrickles, OnServerOpen, OnServerError, ReceiveSDP, ReceiveICE, SetRemote, CreateAnswer,
     SetLocal, OnIncomingSDPFails, AddIceCandidate, OnICECandidates, OnConnectionStateChange, vars

-----------------------------------------------------------------------------
LEMMA SessionInvHolds == Spec => []SessionInv
<1>1. Init => SessionInv
  BY DEF Init, SessionInv, SessionTypes, QuestionInv, OfferInv, TrickleInv, CandidateInv, DialogInv,
     CandidateLostOnlyBeforeOffer, OffersNumbered, EarlyCounted, Asking
<1>2. SessionInv /\ [Next]_vars => SessionInv'
  BY TypesStep, QuestionStep, OfferStep, TrickleStep, CandidateStep, DialogStep DEF SessionInv
<1> QED
  BY <1>1, <1>2, PTL DEF Spec

\* However offers and candidates of the hub overtake each other, one that comes
\* to the page with or after the first offer is never refused, unless that offer
\* itself cannot be applied: it waits in the chain for the offer.
THEOREM CandidateLostOnlyBeforeOfferHolds == Spec => []CandidateLostOnlyBeforeOffer
<1>1. SessionInv => CandidateLostOnlyBeforeOffer
  BY DEF SessionInv, CandidateInv
<1> QED
  BY <1>1, SessionInvHolds, PTL

\* However often the hub refuses a selection, the page asks the user before it
\* sends another, unless there is nothing to choose.
THEOREM RetryAsksUserHolds == Spec => RetryAsksUser
<1> DEFINE Asks == selections' > selections /\ selections > 0
                      => asks \/ (soundcards = "one" /\ monitors = "one")
<1>1. SessionInv /\ [Next]_vars => [Asks]_vars
  <2> SUFFICES ASSUME SessionInv, Next, selections' > selections
               PROVE  SendSelection
    BY DEF SessionInv, DialogInv, SendSelection, Asking
  <2>1. selections \in Nat
    BY DEF SessionInv, SessionTypes
  <2> QED
    BY <2>1 DEF Next, HubAsks, HubReplies, HubNegotiates, HubSendsOffer, HubTrickles, OnServerOpen,
       OnServerError, UserCloses, ReceivePreflight, ReceiveSDP, ReceiveICE, SetRemote,
       CreateAnswer, SetLocal, OnIncomingSDPFails, AddIceCandidate, OnICECandidates, OnConnectionStateChange,
       deviceVars, hubVars, dialogVars, rtcVars
<1> QED
  BY <1>1, SessionInvHolds, PTL DEF Spec, RetryAsksUser

-----------------------------------------------------------------------------
(* The peer of the hub.                                                    *)

\* A selection is sent only for a question that was not answered.
LEMMA SelectsWhenAsked ==
    ASSUME SessionInv, SendSelection
    PROVE  HubPeer!Select \/ UNCHANGED HubPeer!vars
<1>1. UNCHANGED <<questions, offers, answers, pageIce>>
  BY DEF SendSelection, rtcVars
<1>2. CASE SignallingSend
  <2>1. questions = selections + 1 /\ selections \in Nat
    BY DEF SendSelection, SessionInv, QuestionInv, SessionTypes, Asking
  <2>2. selections' = selections + 1
    BY <1>2 DEF SendSelection
  <2> QED
    BY <1>1, <2>1, <2>2 DEF HubPeer!Select
<1>3. CASE ~ SignallingSend
  BY <1>1, <1>3 DEF SendSelection, HubPeer!vars
<1> QED
  BY <1>2, <1>3

\* An answer is sent only for an offer that was not answered.
LEMMA AnswersWhenDue ==
    ASSUME SessionInv, SetLocal
    PROVE  HubPeer!Answer \/ UNCHANGED HubPeer!vars
<1>1. UNCHANGED <<questions, selections, offers, pageIce>>
  BY DEF SetLocal, hubVars, dialogVars
<1>2. chain # <<>> /\ Head(chain)[1] = "setLocal"
  BY DEF SetLocal
<1>3. 1 \in DOMAIN chain /\ chain[1] = Head(chain) /\ Head(chain) \in Operations
  BY <1>2, Shortened DEF SessionInv, SessionTypes
<1>4. CASE SignallingSend
  <2>1. offers = Len(answers) + 1
    BY <1>2, <1>3 DEF SessionInv, OfferInv, Applying
  <2>2. Len(answers') = Len(answers) + 1 /\ answers' # <<>> /\ Len(answers) \in Nat
    <3>1. Head(chain)[2] \in Nat /\ answers \in Seq(Nat)
      BY <1>3 DEF Operations, SessionInv, SessionTypes
    <3>2. answers' = Append(answers, Head(chain)[2])
      BY <1>4 DEF SetLocal
    <3>3. DOMAIN answers' # {}
      BY <3>1, <3>2, Appended
    <3> QED
      BY <3>1, <3>2, <3>3
  <2> QED
    BY <1>1, <2>1, <2>2 DEF HubPeer!Answer
<1>5. CASE ~ SignallingSend
  BY <1>1, <1>5 DEF SetLocal, HubPeer!vars
<1> QED
  BY <1>4, <1>5

\* A candidate is sent only after an answer.
LEMMA TricklesWhenAnswered ==
    ASSUME SessionInv, OnICECandidates
    PROVE  HubPeer!Trickle
BY DEF OnICECandidates, SignallingSend, SessionInv, TrickleInv, hubVars, dialogVars, HubPeer!Trickle

\* The page answers each question and each offer of the hub at most once, and
\* sends candidates only after its first answer: it is the peer HubSession is
\* written against.
THEOREM RefinesPeer == Spec => ImplementsPeer
<1>1. Init => HubPeer!Init
  <2> SUFFICES ASSUME Init PROVE HubPeer!Init
    OBVIOUS
  <2>1. questions - selections = 0 /\ offers - Len(answers) = 0 /\ pageIce = 0
    <3>1. questions = 0 /\ selections = 0 /\ offers = 0 /\ answers = <<>> /\ pageIce = 0
      BY DEF Init
    <3>2. Len(answers) = 0 /\ 0 - 0 = 0
      BY <3>1
    <3> QED
      BY <3>1, <3>2, Zenon
  <2>2. (answers # <<>>) = FALSE /\ (selections > 0) = FALSE
    BY DEF Init
  <2> QED
    BY <2>1, <2>2 DEF HubPeer!Init
<1>2. SessionInv /\ [Next]_vars => [HubPeer!Next]_(HubPeer!vars)
  <2> SUFFICES ASSUME SessionInv, [Next]_vars
               PROVE  HubPeer!Next \/ UNCHANGED HubPeer!vars
    OBVIOUS
  <2> USE DEF deviceVars, hubVars, dialogVars, rtcVars, HubPeer!vars, HubPeer!Next
  <2>1. CASE HubAsks \/ HubReplies
    <3>1. UNCHANGED <<offers, answers, selections, pageIce>>
      BY <2>1 DEF HubAsks, HubReplies
    <3>2. questions \in Nat /\ selections \in Nat /\ (hub = "start" => questions = 0)
      BY DEF SessionInv, SessionTypes, QuestionInv
    <3>3. questions' = questions \/ questions' = questions + 1
      BY <2>1, <3>2 DEF HubAsks, HubReplies
    <3> QED
      BY <3>1, <3>2, <3>3 DEF HubPeer!Ask
  <2>2. CASE HubSendsOffer
    <3>1. offers \in Nat /\ Len(answers) \in Nat /\ (offering => selections > 0)
      BY DEF SessionInv, SessionTypes, QuestionInv
    <3> QED
      BY <2>2, <3>1 DEF HubSendsOffer, HubPeer!Offer
  <2>3. CASE SendSelection
    BY <2>3, SelectsWhenAsked
  <2>4. CASE SetLocal
    BY <2>4, AnswersWhenDue
  <2>5. CASE OnICECandidates
    BY <2>5, TricklesWhenAnswered
  <2>6. CASE UNCHANGED <<questions, offers, selections, answers, pageIce>>
    BY <2>6
  <2> QED
    BY <2>1, <2>2, <2>3, <2>4, <2>5, <2>6 DEF Next, HubNegotiates, HubTrickles, OnServerOpen,
       OnServerError, UserCloses, ReceivePreflight, ReceiveSDP, ReceiveICE, SetRemote,
       CreateAnswer, OnIncomingSDPFails, AddIceCandidate, OnConnectionStateChange, vars
<1> QED
  BY <1>1, <1>2, SessionInvHolds, PTL DEF Spec, ImplementsPeer, HubPeer!Spec
=============================================================================
