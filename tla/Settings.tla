------------------------------ MODULE Settings ------------------------------
(***************************************************************************)
(* How the stream is adjusted while it runs: the page's bitrate dialog     *)
(* (popup.tsx, control.tsx), its reset and quality reports (app.ts,        *)
(* qos.ts) on the data channels "manual" and "adaptive", and the hub's     *)
(* goroutines behind them (listener/video/video.go, adaptive/ads.go) with  *)
(* the restart of the pipeline by the GStreamer main loop.  The goroutines *)
(* and the main loop share the map of properties without a lock.           *)
(***************************************************************************)
EXTENDS Naturals, Sequences

CONSTANTS
    Bitrates,      \* what the dialog offers
    Default,       \* the encoder's bitrate until it is told another
    Accepted,      \* bitrates a device selection may set
    MaxRequests,   \* bound: dialogs the user opens
    MaxRestarts,   \* bound: messages that restart the pipeline
    MaxReports     \* bound: quality reports on their way

ASSUME BitratesAssumption == Bitrates \subseteq Nat \ {0} /\ Default \in Nat /\ Accepted \subseteq Nat
ASSUME BoundsAssumption == MaxRequests \in Nat /\ MaxRestarts \in Nat /\ MaxReports \in Nat \ {0}

Labels == {"adaptive", "manual"}
NaN == 0     \* Number.parseInt of no value; null once it is JSON

VARIABLES
    channels,    \* data channels announced to the page
    dialog,      \* a bitrate dialog is open
    requests,    \* dialogs opened
    video,       \* the track: awaited, playing, or frozen for want of a key frame
    steady,      \* video has not changed since the last report
    slow,        \* the stream's frame rate is below the 25 a report is measured by
    polling,     \* the page's loop of reports goes on
    source,      \* the current pipeline was opened once, or reopened
    unread,      \* the goroutine that takes packets to the track has ended
    manual, adaptive, \* messages on the two channels
    last,        \* the hub has a report to compare with
    properties,  \* the hub's properties["bitrate"], 0 for none
    encoder,     \* bitrate of the current pipeline's encoder
    keyFrame,    \* a key frame is on its way
    setter,      \* the goroutine that receives manual messages, and its value
    restart,     \* the main loop in handleVideoStopOrError, and its value
    restarts,    \* restarts begun
    crashed,     \* why the hub died
    wanted,      \* history: the bitrate asked for last
    overlapped,  \* history: a change of bitrate met a restart
    unanswered   \* history: a bitrate dialog closed without a value

pageVars == <<channels, dialog, requests, unanswered>>
videoVars == <<video, steady, keyFrame>>
envVars == <<slow, polling, source, unread>>
queueVars == <<manual, adaptive>>
hubVars == <<last, properties, encoder, setter, restart, restarts, crashed, wanted, overlapped>>
vars == <<pageVars, videoVars, envVars, queueVars, hubVars>>

Idle == [at |-> "idle", val |-> 0]
Running == crashed = "no"

\* Samples get from the encoder to the track.  A pipeline that was reopened has
\* its callback connected twice and stands still after its first sample.
Flowing == restart.at = "idle" /\ source = "opened" /\ ~ unread

\* The session from the hub's Open on.  The selection came before: its bitrate
\* is in force if it was accepted.
Init ==
    /\ channels = {} /\ dialog = FALSE /\ requests = 0 /\ unanswered = FALSE
    /\ video = "awaited" /\ steady = FALSE /\ keyFrame = FALSE /\ slow \in BOOLEAN
    /\ polling = TRUE /\ source = "opened" /\ unread = FALSE
    /\ manual = <<>> /\ adaptive = <<>> /\ last = FALSE
    /\ properties \in Accepted \cup {0}
    /\ encoder = IF properties = 0 THEN Default ELSE properties
    /\ setter = Idle /\ restart = Idle /\ restarts = 0 /\ crashed = "no"
    /\ wanted = encoder /\ overlapped = FALSE

-----------------------------------------------------------------------------
(* The page.                                                               *)

\* A message for a channel that is not among those announced is dropped.
SendManual(announced, msgs) ==
    manual' = IF "manual" \in announced THEN manual \o msgs ELSE manual

BitrateMessage(b) == <<[type |-> "bitrate", val |-> b]>>
ResetVideo == <<[type |-> "reset", val |-> 0]>>

\* A popup with the status closes an open dialog, which then has no value, and
\* the bitrate that is not a number passes the test for being too small.
TurnOnStatus(announced, msgs) ==
    /\ dialog' = FALSE
    /\ unanswered' = (unanswered \/ dialog)
    /\ SendManual(announced, msgs \o IF dialog THEN BitrateMessage(NaN) ELSE <<>>)

\* Events of a session that runs, by the message a notifier is given; those the
\* page does not show are no reason for a popup.
Events == {"ReceivedVideoStream", "ReceivedAudioStream", "ReceivedDatachannel",
           "WebRTCConnectionChecking", "WebRTCConnectionDoneChecking",
           "ExchangingSignalingMessage"}
Shown(event) ==
    event \notin {"WebSocketConnected", "ExchangingSignalingMessage",
                  "WaitingAvailableDeviceSelection"}

LogConnectionEvent(event, announced, msgs) ==
    IF Shown(event) THEN TurnOnStatus(announced, msgs)
    ELSE UNCHANGED <<dialog, unanswered>> /\ SendManual(announced, msgs)

HandleIncomingDataChannel(l) ==
    /\ Running /\ l \notin channels
    /\ LogConnectionEvent("ReceivedDatachannel", channels \cup {l}, <<>>)
    /\ channels' = channels \cup {l}
    /\ UNCHANGED <<requests, videoVars, envVars, adaptive, hubVars>>

\* ResetVideo, then the popup.  The key frame the pipeline began with may have
\* come too early.
HandleIncomingTrack ==
    /\ Running /\ video = "awaited"
    /\ video' \in {"playing", "frozen"} /\ steady' = FALSE
    /\ LogConnectionEvent("ReceivedVideoStream", channels, ResetVideo)
    /\ UNCHANGED <<channels, requests, keyFrame, envVars, adaptive, hubVars>>

AskSelectBitrate ==
    /\ Running /\ ~ dialog /\ requests < MaxRequests
    /\ dialog' = TRUE /\ requests' = requests + 1
    /\ UNCHANGED <<channels, unanswered, videoVars, envVars, queueVars, hubVars>>

\* Faulty variant: a bitrate that a selection would refuse is no number.
ChangeBitrateChecked ==
    /\ Running /\ dialog
    /\ dialog' = FALSE
    /\ \E b \in Bitrates :
          SendManual(channels, BitrateMessage(IF b \in Accepted THEN b ELSE NaN))
    /\ UNCHANGED <<channels, requests, unanswered, videoVars, envVars, adaptive, hubVars>>

ChangeBitrate ==
    /\ Running /\ dialog
    /\ dialog' = FALSE
    /\ \E b \in Bitrates : SendManual(channels, BitrateMessage(b))
    /\ UNCHANGED <<channels, requests, unanswered, videoVars, envVars, adaptive, hubVars>>

\* Escape, or a click beside the dialog.
Dismiss ==
    /\ Running /\ dialog
    /\ dialog' = FALSE /\ unanswered' = TRUE
    /\ SendManual(channels, BitrateMessage(NaN))
    /\ UNCHANGED <<channels, requests, videoVars, envVars, adaptive, hubVars>>

\* Packets of the signaling, the audio track, the state of the connection.
OtherEvent ==
    /\ Running
    /\ \E e \in Events \ {"ReceivedVideoStream", "ReceivedDatachannel"} :
          LogConnectionEvent(e, channels, <<>>)
    /\ UNCHANGED <<channels, requests, videoVars, envVars, adaptive, hubVars>>

\* What the counters of the video stream show over the time between two reports.
FilterVideo == IF slow \/ video = "frozen" THEN "slow" ELSE "good"

\* One round of statsLoop.  Its first report after a change covers both what was
\* before and after it.  The reports of the network and of audio are only printed.
StatsLoop ==
    /\ Running /\ polling /\ "adaptive" \in channels /\ video # "awaited"
    /\ Len(adaptive) < MaxReports
    /\ \E report \in {"slow", "good"} :
          /\ steady => report = FilterVideo
          /\ adaptive' = Append(adaptive, report)
    /\ steady' = TRUE
    /\ UNCHANGED <<pageVars, video, keyFrame, envVars, manual, hubVars>>

\* A round that throws, in a filter or in the send, is the last: nothing
\* schedules the next one.
StatsLoopThrows ==
    /\ Running /\ polling
    /\ polling' = FALSE
    /\ UNCHANGED <<pageVars, videoVars, slow, source, unread, queueVars, hubVars>>

\* Packets are lost, or none come, and the decoder waits for a key frame.
Freeze ==
    /\ Running /\ video = "playing"
    /\ video' = "frozen" /\ steady' = FALSE
    /\ UNCHANGED <<pageVars, keyFrame, envVars, queueVars, hubVars>>

KeyFrameArrives ==
    /\ Running /\ keyFrame
    /\ keyFrame' = FALSE
    /\ video' = IF video = "frozen" THEN "playing" ELSE video
    /\ steady' = (steady /\ video # "frozen")
    /\ UNCHANGED <<pageVars, envVars, queueVars, hubVars>>

\* The key frame is among the packets that are lost.
KeyFrameLost ==
    /\ Running /\ keyFrame
    /\ keyFrame' = FALSE
    /\ UNCHANGED <<pageVars, video, steady, envVars, queueVars, hubVars>>

-----------------------------------------------------------------------------
(* The hub.                                                                *)

\* What asks a pipeline for a key frame that brings no samples gets none.
ForceKeyFrame(asked) == keyFrame' = (keyFrame \/ (asked /\ Flowing))

\* readLoopRTP ends with its first error.
ReaderEnds ==
    /\ Running /\ ~ unread
    /\ unread' = TRUE
    /\ UNCHANGED <<pageVars, videoVars, slow, polling, source, queueVars, hubVars>>

\* Faulty variant: a report is compared and not kept.
HandleVideoMetricKeepsNone ==
    /\ Running /\ adaptive # <<>>
    /\ adaptive' = Tail(adaptive)
    /\ ForceKeyFrame(last /\ Head(adaptive) = "slow")
    /\ UNCHANGED <<pageVars, video, steady, envVars, manual, hubVars>>

\* The first report is only kept; a later one that shows less than 25 decoded
\* frames per second forces a key frame.
HandleVideoMetric ==
    /\ Running /\ adaptive # <<>>
    /\ adaptive' = Tail(adaptive)
    /\ last' = TRUE
    /\ ForceKeyFrame(last /\ Head(adaptive) = "slow")
    /\ UNCHANGED <<pageVars, video, steady, envVars, manual, properties, encoder, setter, restart,
                   restarts, crashed, wanted, overlapped>>

\* A manual message: null is not a float64, and the goroutine panics.
ReceiveManual ==
    LET msg == Head(manual) IN
    /\ Running /\ setter.at = "idle" /\ manual # <<>>
    /\ manual' = Tail(manual)
    /\ crashed' = IF <<msg>> = BitrateMessage(NaN) THEN "null" ELSE crashed
    /\ ForceKeyFrame(msg.type = "reset")
    /\ IF msg.type = "bitrate" /\ msg.val # NaN
       THEN /\ setter' = [at |-> "write", val |-> msg.val]
            /\ wanted' = msg.val
            /\ overlapped' = (overlapped \/ restart.at # "idle")
       ELSE UNCHANGED <<setter, wanted, overlapped>>
    /\ UNCHANGED <<pageVars, video, steady, envVars, adaptive, last, properties, encoder, restart,
                   restarts>>

\* SetProperty writes the map.  A goroutine that finds another one writing or
\* reading it may abort the process, and need not.
MayCollide(other) ==
    \/ UNCHANGED crashed
    \/ other.at \in {"range", "write"} /\ crashed' = "map"

\* Faulty variant: the value goes to the encoder and is not remembered.
WritePropertyForgets ==
    /\ Running /\ setter.at = "write"
    /\ setter' = [setter EXCEPT !.at = "apply"]
    /\ MayCollide(restart)
    /\ UNCHANGED <<pageVars, videoVars, envVars, queueVars, last, properties, encoder, restart,
                   restarts, wanted, overlapped>>

WriteProperty ==
    /\ Running /\ setter.at = "write"
    /\ properties' = setter.val
    /\ setter' = [setter EXCEPT !.at = "apply"]
    /\ MayCollide(restart)
    /\ UNCHANGED <<pageVars, videoVars, envVars, queueVars, last, encoder, restart, restarts, wanted,
                   overlapped>>

SetBitrate ==
    /\ Running /\ setter.at = "apply"
    /\ encoder' = setter.val
    /\ setter' = Idle
    /\ UNCHANGED <<pageVars, videoVars, envVars, queueVars, last, properties, restart, restarts,
                   crashed, wanted, overlapped>>

\* A bus message: Close, and with the old pipeline may go the key frame that
\* was asked of it.
HandleVideoStopOrError ==
    /\ Running /\ restart.at = "idle" /\ restarts < MaxRestarts
    /\ keyFrame' \in {keyFrame, FALSE}
    /\ restarts' = restarts + 1
    /\ restart' = [Idle EXCEPT !.at = "source"]
    /\ overlapped' = (overlapped \/ setter.at # "idle")
    /\ UNCHANGED <<pageVars, video, steady, envVars, queueVars, last, properties, encoder, setter,
                   crashed, wanted>>

\* SetSource makes a new pipeline, or fails and leaves the old one.
RestartSetSource ==
    /\ Running /\ restart.at = "source"
    /\ \/ source' = "opened" /\ encoder' = Default
       \/ source' = "reopened" /\ UNCHANGED encoder
    /\ restart' = [restart EXCEPT !.at = "range"]
    /\ UNCHANGED <<pageVars, videoVars, slow, polling, unread, queueVars, last, properties,
                   setter, restarts, crashed, wanted, overlapped>>

\* The loop over properties, with SetProperty in its body.
RestartRange ==
    /\ Running /\ restart.at = "range"
    /\ restart' = IF properties = 0 THEN [restart EXCEPT !.at = "open"]
                  ELSE [at |-> "write", val |-> properties]
    /\ MayCollide(setter)
    /\ UNCHANGED <<pageVars, videoVars, envVars, queueVars, last, properties, encoder, setter,
                   restarts, wanted, overlapped>>

RestartWriteProperty ==
    /\ Running /\ restart.at = "write"
    /\ properties' = restart.val
    /\ restart' = [restart EXCEPT !.at = "apply"]
    /\ MayCollide(setter)
    /\ UNCHANGED <<pageVars, videoVars, envVars, queueVars, last, encoder, setter, restarts, wanted,
                   overlapped>>

RestartSetBitrate ==
    /\ Running /\ restart.at = "apply"
    /\ encoder' = restart.val
    /\ restart' = [restart EXCEPT !.at = "open"]
    /\ UNCHANGED <<pageVars, videoVars, envVars, queueVars, last, properties, setter, restarts,
                   crashed, wanted, overlapped>>

\* Open: a pipeline that starts begins with a key frame, also one that is
\* reopened.
RestartOpen ==
    /\ Running /\ restart.at = "open"
    /\ restart' = Idle /\ keyFrame' = (keyFrame \/ ~ unread)
    /\ UNCHANGED <<pageVars, video, steady, envVars, queueVars, last, properties, encoder, setter,
                   restarts, crashed, wanted, overlapped>>

-----------------------------------------------------------------------------
Restart == \/ RestartSetSource \/ RestartRange \/ RestartWriteProperty
           \/ RestartSetBitrate \/ RestartOpen

Next ==
    \/ \E l \in Labels : HandleIncomingDataChannel(l)
    \/ HandleIncomingTrack \/ AskSelectBitrate \/ ChangeBitrate \/ Dismiss \/ OtherEvent
    \/ StatsLoop \/ StatsLoopThrows \/ Freeze \/ KeyFrameArrives \/ KeyFrameLost \/ ReaderEnds
    \/ HandleVideoMetric \/ ReceiveManual \/ WriteProperty \/ SetBitrate
    \/ HandleVideoStopOrError \/ RestartSetSource \/ RestartRange \/ RestartWriteProperty
    \/ RestartSetBitrate \/ RestartOpen

Spec == Init /\ [][Next]_vars

\* The page's timer and the hub's goroutine run, and so does the main loop while
\* packets are taken from the pipeline it closes; of the key frames that are
\* asked for again and again not every one is lost.
Fairness ==
    /\ WF_vars(StatsLoop) /\ WF_vars(HandleVideoMetric)
    /\ WF_vars(~ unread /\ Restart)
    /\ SF_vars(KeyFrameArrives)

FairSpec == Spec /\ Fairness

-----------------------------------------------------------------------------
\* A restarted pipeline keeps the bitrate that was asked for last, unless the
\* request and the restart overlapped.
RestartKeepsBitrate ==
    setter = Idle /\ restart = Idle => encoder = wanted \/ overlapped

\* Of settings the hub dies only when a bitrate dialog closed without a value,
\* or in the window where a change of bitrate meets a restart.
CrashExplained ==
    /\ crashed = "null" => unanswered
    /\ crashed = "map" => overlapped

\* What a quality report cannot mend: the page sends no more of them, the hub
\* sends no more packets, or a restart that could make no source has reopened a
\* pipeline that brings one sample and no more.
Severed == ~ polling \/ unread \/ source = "reopened"

\* A page whose video stands still gets a key frame through its quality
\* reports, whether or not its own request for one was sent, whatever key frames
\* were lost, and also when the pipeline restarted in between; unless the stream
\* or the reports are severed.
FrozenRecovers ==
    (video = "frozen" /\ "adaptive" \in channels)
        ~> (video = "playing" \/ Severed \/ ~ Running)
=============================================================================
