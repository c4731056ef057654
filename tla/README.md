# A TLA+ model of the remote desktop

A browser controls a Windows machine: a *hub* process captures screen and sound
and sends them over WebRTC, a *HID service* injects keyboard, mouse and gamepad
events, and a *signaling server* introduces browser and hub to each other. The
modules here model the concurrent cores of these programs, TLC checks them on
small instances, and TLAPS proves the main safety properties for every instance.

## The system

| Part | Source | State | Operations | What is hard |
|---|---|---|---|---|
| Signaling server | `src/signaling/signaling.go`, `gRPC/`, `websocket/` | `waitLine`, `pairs`, one relay goroutine per direction of a pair | a tenant arrives, is matched or waits; packets are relayed; two sweepers | match and queue are two critical sections; keys removed after the lock; every pair has key 0 |
| Hub session | `src/server/hub/proxy.go`, `signalling/gRPC/grpc.go`, `webrtc/webrtc.go`, `cmd/server/main.go` | flags `connected`, `deviceSelected`; unbuffered channels; `Shutdown` | receive a packet, select a device, negotiate, listen, time out, stop | SDP and ICE take separate goroutines; timer against selection; several ways to stop |
| Capture pipelines | `src/server/hub/listener/`, `cgo/video.cpp`, `cgo/audio.cpp` | current GStreamer pipeline, packetizer, `rtpchan` | SetSource, Open, Close, restart on a bus message, one callback per sample, ReadRTP | five threads, no lock; stopping waits for the thread that waits for room |
| HID relay | `src/server/hub/hid/hid.go` | `ret.client`, `receive_ping`, `chann` | forward, ping, write, dial, read, watch | check-then-use of a pointer that four goroutines set to nil; watchdogs that outlive their connection |
| HID service | `src/server/hid/Controllers/SocketController.cs`, `Service/` | per connection: pads, ping flag; shared: mouse mode, controllers | one task per message, clean up at the end | tasks overtake each other and the clean-up |
| Browser session | `src/client/browser-core/src/app.ts`, `webrtc.ts`, `signaling/`, `src/client/browser/pages/index.tsx` | websocket, peer connection and its chain of operations, device dialog | packets, selection, descriptions, candidates, state changes | events at every await; dialogs while packets come; questions repeated |
| Browser input | `src/client/browser-core/src/hid/` | last values of pads, touches, hold timers, disable flags | events, polls, timers | timers that outlive their touch; disabling between down and up |
| Settings and quality | `src/client/browser/components/popup/`, `control/`, `src/client/browser-core/src/qos/`, `datachannel/`, `src/server/hub/adaptive/`, `listener/video/video.go` | channels, dialog; properties, the encoder's bitrate, the last report | bitrate, reset, reports, restart of the pipeline | popups close dialogs; a map shared without a lock by two threads |
| On-screen controls | `src/client/browser/components/` | modes of gamepad and mouse, sticks, places, `localStorage` | menu, press, move, drag | handlers that see an older rendering; controls that vanish under a finger |
| RTP payloaders | `src/server/hub/rtppay/` | sequence number, cached SPS and PPS | split, fragment | boundaries of NAL units and of the MTU |
| Supervisor | `src/signaling/index.ts` | child process, `exited`, timer | Start, Stop, exit events | late event of an old child |

How they interact: browser and hub each open a stream to the signaling server
with a token; the server pairs tenants of one session, sends START to the hub's
side and relays packets. The hub answers START with its devices; the browser
selects; the hub offers, the browser answers, both send candidates. When the
peers are connected the hub opens its pipelines; the data channel `hid` carries
input to the HID relay, which forwards it over a local websocket to the HID
service; `adaptive` and `manual` carry metrics and settings to the video pipeline.
The page's components call the browser core: the menu and the on-screen devices
its HID object, the dialogs its bitrate and the device selection, and the core
calls back with connection events, which open status popups or reload the page.
A supervisor in Node starts the signaling server as a child process.

What makes each part correct:

- signaling: packets stay within a session; whoever has a partner meets it; the
  end of one side ends the other;
- hub session: nothing is negotiated or captured before a device is selected;
  candidates are not lost; every failure ends the process, with media closed;
- pipelines: one source at a time, never a sample without a packetizer, a
  failed pipeline comes back, stopping gets through;
- HID relay: no crash, no live connection closed, a dead one replaced;
- HID service: keys, mode and pads are what the messages in their order say;
- browser session: each question and each offer is answered once, candidates
  that can be used are, the user is asked before a selection is repeated;
- settings: the bitrate that was asked for is the one in force, also after a
  restart; nothing the user does kills the hub; a frozen picture recovers;
- browser input and on-screen controls: what the messages add up to is what the
  user holds, a touch means one thing, the layout is remembered;
- supervisor: one server runs, and one that has ended is replaced;
- RTP payloader: what the browser puts together is what the encoder gave, with
  the parameter sets it needs.

The code does not meet all of these everywhere. A property is then stated as
what the code does guarantee: it names the window in which the promise fails
(an overlap, a leftover watchdog, an earlier failure), and nothing outside that
window is allowed to break it. Where a comment or message of the code promises
more, a run shows the counterexample (see *Findings*).

## Modules

| Module | Models | Extends |
|---|---|---|
| `Rendezvous` | what the signaling server promises: tenants join, are linked within a session, hear only what their partner said | |
| `Signaling` | the signaling server; instantiates `Rendezvous` through a refinement mapping | |
| `SignalingProofs` | its theorems, and those of `Supervisor` | `Signaling`, `TLAPS` |
| `HubSession` | one run of the hub from START to `Shutdown`, with the browser as its environment; instantiates `Peer` | |
| `HubSessionProofs` | its theorems | `HubSession`, `TLAPS` |
| `MediaPipeline` | one listener, video or audio, with GStreamer's threads | |
| `MediaPipelineProofs` | its theorems, and those of `H264Units` and `H264Payload` | `MediaPipeline`, `H264Payload`, `TLAPS` |
| `HidRelay` | the hub's websocket to the HID service | |
| `HidRelayProofs` | its theorems | `HidRelay`, `TLAPS` |
| `HidService` | the HID service with Windows' keys and ViGEm's controllers | |
| `HidServiceProofs` | its theorems | `HidService`, `TLAPS` |
| `BrowserInput` | the browser's keyboard, mouse, touch and gamepad handlers | |
| `OnScreen` | the on-screen gamepad and mouse, their menu and places, on top of the HID object | `BrowserInput` |
| `OnScreenProofs` | theorems of both | `OnScreen`, `TLAPS` |
| `Peer` | what hub and browser promise each other while they negotiate | |
| `BrowserSession` | the page's side of the session; instantiates `Peer` | |
| `BrowserSessionProofs` | its theorems | `BrowserSession`, `TLAPS` |
| `Settings` | bitrate, reset and quality reports, between page and hub | |
| `SettingsProofs` | its theorems | `Settings`, `TLAPS` |
| `Supervisor` | the process that starts the signaling server | |
| `H264Units` | the payloads of one NAL unit: whole, fragmented, or a pair of parameter sets | |
| `H264Payload` | splitting samples into NAL units, and the stream of their packets | `H264Units` |
| `MC...` | the instances TLC checks | the module in the name |

Definitions named *Faulty variant* in a comment are not part of a specification:
each is a plausible mistake in the definition it stands before, and shows that a
property can fail.

### Signaling

State: `waitLine` and `pairs` are the two maps of `InitSignallingServer`, a
tenant has its `exited` flag and what its transport has received, each pair has
a relay goroutine per direction with its own program counter. Actions: `Validate`
(the transport asks the validator), `TokenMatch` and then either `AddPair`,
`SendStart` or `AddTenant` (the critical sections of `fun`), `FwdCheck`,
`FwdReceive`, `FwdSend` (`handlePair`), `SweepPairs` with `RemovePair` and
`SweepWaitLine` with `RemoveTenant` (the sweepers, which collect under the lock
and remove after it), `HandlerReturn`, and the remote ends `RemoteSend` and
`Disconnect`. A validation result is a record of session, role and recipient,
as `ValidationResult` is.

### HubSession

State: what the peer has still to send, the gRPC stream, the program counters of
the receive loop, of the SDP, ICE and selection goroutines, of `handleTimeout`'s
three goroutines and of the connection-state loop. The unbuffered channels are
rendezvous steps. `RecvPacket`/`RecvError`/`RecvShutdown`, `HandSdp`/`HandIce`/
`HandSelection` are `InitGRPCClient`'s loop; `GiveSdp`, `ApplyAnswer`, `GiveIce`,
`CheckIce`, `AddIce` the way of an answer, which the connection may refuse
(`rejected`), and of a candidate; `TimerArmed`,
`TimerFires`, `StarterFires`, `Decide` the timeout; `ConnectionState`, `Listen`
and the four `Stop...` steps the end.

### MediaPipeline

State: which GStreamer pipeline is `p.pipeline`, the state of each pipeline, how
often its sample handler is connected, where its streaming thread is, whether
there is a packetizer, how full `rtpchan` is, and the program counters of the
reader, the device-selection goroutine, the connection loop and the bus. `Open`
and `Close` are split where another thread can come between: `OpenSets`,
`OpenStarts`, `CloseDrops`, `CloseHalts`, `CloseReturns`. GStreamer is external:
setting a pipeline to NULL returns when its streaming thread has left the
callback. When the callback meets a nil packetizer the process panics and the
model stops (`crashed`). A restart that could make no source opens the pipeline it
closed, with the sample handler connected a second time: its thread takes one
sample and waits in the second pull. `reopened` notes that, so that
`RestartResumes` can ask of every other restart that sample after sample gets
through.

### HidRelay

Every read or write of `ret.client` that another goroutine can come between is a
step. Time is a tick per second, taken only when every goroutine waits: the
service pings each live connection once a second, a watchdog sleeps three. The
watchdog of the last connection is told apart from *leftover* ones, which have
survived an earlier connection. A nil dereference stops the model, and `crashed`
names the statement.

### HidService

A message becomes a task, a task is the sequence of its steps on shared state
(`HandleKey`): `kd` and `ku` one key event, `kr` a key-up per special key, `cp`
four key events, `mmr` and `mma` set the mode and then move, `gcon` plugs a
controller in, registers and lists it, `gdis` disconnects and unlists. Mouse
buttons behave as keys with a character do. The list of pads is not synchronised:
when two tasks of a connection change it at one moment (`ListRace`), an entry may
be lost or kept, and a hole may be left (`torn`). The end of `Handle` disconnects the
listed pads one by one and throws when a task changes the list meanwhile, as
`List.ForEach` does, or when it comes to a hole; in which order it takes them is
left out, since no call of it disturbs another. History variables hold what the messages would do in order
(`want`) and which of them overlapped.

### BrowserInput

The handlers of a page run to their end, so each is one action: `KeyDown` and
`KeyUp` with the shortcut and `DisableKeyboard`, the mouse buttons, a touch's
start, end, cancellation and move, `RunButton` for one poll of the gamepads, the
on-screen gamepad. What can come between is a timer: `HoldTimeout`. The user is
the environment: `keys`, `buttons`, `glass` and `pressed` are what is physically
held, and the page may lose the focus (`FocusChanges`), when releases go
elsewhere. The remote variables are what the messages sent add up to. History
variables record the windows: a release or press that no message told of, a
press for a touch that had ended, gamepads that shared `prev_buttons`.
`ToggleMouseTouch` is called by the control panel, `DisableKeyboard` is part of
the package's interface. `DesktopTouch` and `MobileTouch` are two values of
`platform`.

### OnScreen

It extends `BrowserInput`: an action either is one of HID's handlers (`ByHand`,
`Press` and `Release`, which call `VirtualGamepadButton` and
`VirtualMouseButton`, and the change of a mode, whose effect calls
`ToggleMouseTouch`) or leaves HID alone. `hid` says that the HID object exists:
before the hub's channel has come, every call of the page is dropped. React runs
the effects of a click before the next event, so `EditVGamepad` and
`EnableVMouse` change the mode, unmount or mount the controls and run the effect
in one step; a rendering after a move or a drag comes later and is a step
(`StickRenders`, `GroupRenders`), because until then the handlers see the state
of the rendering before. `held` is what is under a finger, `sent` what the remote
takes for held, and `lost` the controls whose finger left unseen. A cancelled
touch ends no press and no stick (`Cancel`), and the timer of the mouse's stick
goes on sending moves until the stick is used again or its device is closed. One button and
one stick of each device stand for all of them, and one group with its place
for the four, whose code differs in the key of `localStorage` only.

### BrowserSession and Peer

State: the websocket with the packets on their way, the device dialog
(`selectDevice` between its awaits), the peer connection with the chain of
operations that a browser keeps for it, and the hub as far as the page sees it.
`Take` is `onServerMessage`; `ReceivePreflight`, `ReceiveSDP` and `ReceiveICE`
are the branches of `handleIncomingPacket` up to their first await, `SetRemote`,
`CreateAnswer` and `SetLocal` what `onIncomingSDP` does at each of its awaits,
`OnIncomingSDPFails` one of them throwing, after which the offer stays unanswered,
`AddIceCandidate` the completion of `onIncomingICE`. The operations of a
connection complete in the order in which they were requested, as WebRTC says.
`HubAsks` to `HubTrickles` are the hub: it asks again when it refuses a
selection, makes an offer only when the last was answered (the negotiation of
its WebRTC library waits for a stable state), and sends candidates from a
goroutine of its own, before or after the offer. `Peer` is the agreement of the
two sides: the hub asks, and offers only once it has had a selection; the page
answers each question and each offer once at most and sends candidates only after an
answer. `BrowserSession` implements it with the hub as its environment,
`HubSession` with the browser as its environment, each by computing `Peer`'s
state from its own counters of questions, selections, offers and answers; so
what each module assumes of the other side is what the other module does.

### Settings

The page's half: `LogConnectionEvent` raises an event, which opens a status
popup unless it is not shown; the popup closes an open bitrate dialog
(`TurnOnStatus`), whose value is then missing, becomes not-a-number and, in
JSON, null. `StatsLoop` reports what the video stream's counters show. The hub's
half: `HandleVideoMetric` compares a report with the last, `ReceiveManual` to
`SetBitrate` are the goroutine of manual messages, `HandleVideoStopOrError` to
`RestartOpen` the GStreamer main loop. Both write `properties` and the encoder's
bitrate without a lock, in steps of their own. Go may abort a process in which
two goroutines use a map at a time, and need not: `MayCollide` leaves it open.
`last`, `keyFrame`, `video` and `steady` are what a report can tell. The stream
may run below the 25 frames a second that a report is measured by (`slow`). What
can end the loop from a report to a key frame is modelled: a round of the page's
loop that throws is its last (`polling`), the goroutine that takes packets to the
track may end (`unread`), a restart that could make no source reopens a pipeline
that brings one sample and no more (`source`), and a key frame may be lost.

### Supervisor

State: the fields of `SignalingServer` (`exited` is `childExited` here), the intervals that run, the children that
run, and the "exit" and "close" events to come. Each of `Start`, `Stop`, the
interval's callback (`Tick` with `Spawn`) and the events is an action, as Node's
event loop runs them. A child that cannot be spawned has no "exit" but a "close".

### H264Payload

The payloader as functions on byte sequences: `FindIndicator`, `AnnexB`, `AVCC`
and `SplitNALUs` find the NAL units. `PayloadNalu` in `H264Units` makes the
payloads of one, with `Fragments` (FU-A) and `Aggregate` (STAP-A), and `Payload`
folds it over the units of a sample. Loops are recursive functions or `Fold`, a
fold whose step is a function, so that the prover can take it as an argument.
`PacketizeSample` is the one action. The receiver and the decoder are external:
`Receive` puts units together again as RFC 6184 says, and `Decode` says what a
decoder makes of them, which is to note every slice with the parameter sets in
force. `given` is such a decoder that takes the encoder's units, `received` one
that takes the receiver's; the properties compare what they have decoded. A slice
is noted as lost when the sets that came before it came without their pair or
exceed a packet together: the payloader then keeps or drops them. The reference
for the split, `Units`, is written from the definition of start codes and knows
nothing of the scanning loop.

`StreamsAssumption` is what an encoder gives: bytes, in units whose first octet
has the forbidden bit clear and a type below 24, since RTP uses those from 24 on
for its own payloads. The payloader does not look at either.

## Runs

| Run | Question | Instance |
|---|---|---|
| `signaling` | do packets, START, pairs and waiters survive every interleaving, and does the server implement `Rendezvous`? | three connections: a server and a client of session 1, and a third that is a second server, a client of session 2, or refused; one packet each, one disconnection |
| `signaling_live` | does the end of one side end the other? | a client and two servers, no packets, one disconnection, fair scheduler |
| `hub_session` | does the race of selection, answer, candidates, timer and failures start media too early, lose candidates, leave media open, or hang? | two selections, three candidates |
| `media_pipeline` | can a sample meet a nil packetizer, two sources feed a track, a restart fail to resume, Stop hang? | three GStreamer pipelines, two restarts, samples of 0 or 2 packets, a buffer of 1 (video) or 0 (audio) |
| `hid_relay` | what can crash the relay, close a live connection, leave a dead one? | one failure, the real periods of one and three seconds |
| `hid_service` | do keys, mouse mode and pads follow the messages? | one connection, three messages of any kind, one key of each sort, two pads |
| `browser_input` | do the remote's keys, left button and pads follow the user's hands, with the on-screen devices in play, and is their place kept? | four keys (the shortcut's), the left button, two fingers, two pads, two places, six events of the user |
| `browser_session` | what can the page lose, repeat or leave unanswered, and is it the peer the hub expects? | two refused selections, three offers, three candidates of the hub and two of the page, every list of devices |
| `settings` | does the bitrate survive, what kills the hub, does a frozen picture recover? | one dialog, two restarts, one report on its way, bitrates a selection accepts and refuses |
| `supervisor` | when do two servers run, and is one that ended replaced? | five children, three calls of Start |
| `h264_payload` | do samples split where their start codes are, do units survive the packets, do parameter sets reach the slices? | payloads of 9 bytes; see below |
| `hid_silent` | is a hub that hangs disconnected? | one connection; violated |

Why the bounds are enough. Three connections are the fewest in which a key of
`waitLine` is overwritten or two pairs share a slot of `pairs`. Three candidates
are the fewest that block the receive loop after the candidate goroutine is gone
(one held by it, one by the channel's goroutine, one by the loop). Two selections
allow a refused one. A second pipeline shows a replacement, a third a restart
after it. One failure of the HID link leaves a watchdog over, and from then on
the relay closes live connections by itself, so further failures add little.
Two messages race, the third heals or reveals. A touch that holds, ends and is
followed by another needs four events, losing the focus around a key as many;
six allow two of these to mix; opening a device, using it, closing and opening it
again needs six. A question that is refused once shows a repetition, a second
time that it is not repeated for ever; a third offer is one that comes after two
answers, and a third candidate allows one before the first offer, one while it
is applied and one after. A dialog and two restarts let a change of bitrate
meet a restart on either side of another, and a restart replace what another
reopened. Two pads let one be connected twice, and two meet on the list. Five children and three intervals give
a late event of each of two earlier children a successor to hit. For the payloader, `MCStreams` lists every string of up to six
bytes over 0, 1, 2 and 5 and of seven over 0, 1 and 5 (each start code, each size prefix that
fits or just does not), and streams of three samples with units that fill one packet, need two
fragments, fill two, and need three, and parameter sets that fit a packet
together and that do not. Bounds only limit how often the
environment acts (`MaxPackets`, `MaxDrops`, `MaxStarts`, `MaxAnswers`, `MaxIce`,
`MaxRestarts`, `MaxFailures`, `MaxMessages`, `MaxEvents`, `MaxRetries`, `MaxOffers`,
`MaxHubIce`, `MaxPageIce`, `MaxRequests`, `MaxReports`) or how many objects exist
(`MaxPipes`, `MaxSpawns`); `MaxLeftover` stops counting leftover watchdogs that stand at the
same place. Deadlock is not checked: each of these programs may stop.

Fairness. Goroutines, .NET tasks and GStreamer threads that can take a step
eventually do (weak fairness per goroutine, as the Go and .NET schedulers give),
and a sender blocked on a Go channel is served in its turn (strong fairness for
`Push`). Time passes in the relay although goroutines keep working (strong
fairness for `Tick`). The page's event loop takes packets and completes the
operations of the peer connection, its timer for reports runs, Node delivers the
events of a child and runs its interval, and a child that was sent a signal
ends. The main loop of the hub's pipeline goes on with a restart as long as
packets are taken from the pipeline, for then its Close returns. One external event
is assumed: of the key frames that the hub forces again and again, while reports
say that the picture stands still, not every one is lost (strong fairness for
`KeyFrameArrives`).
Otherwise nothing is assumed of the environment: no packet, sample, failure,
selection, dialog or disconnection has to happen. `BrowserInput`, `OnScreen` and
`H264Payload` state safety only and need no fairness.

## Proofs

The eight `...Proofs` modules prove every safety invariant and every action
property that the runs check, and both refinements
(`Signaling` of `Rendezvous`; `HubSession` and `BrowserSession` of `Peer`), for
every value of the constants that meets the ASSUMEs of the modules. In each, an
inductive invariant is put together from named parts, a lemma per action or per
part shows that steps keep it, and the property follows from it.

- `SignalingProofs`: the invariant says where a tenant can be while its handler
  is at a given line. Isolation follows from the pairs: two ends have one session
  and opposite roles, a relay goroutine belongs to a pair, and what it holds came
  from its source. `StrandedOnlyByRace` needs that of two waiting tenants that
  match, one had looked at the table before the other was in it.
  `LiveWaiterKept` and `UntrackedOnlyWhenEnded` are action properties; they need
  that a key the sweeper has collected was that of an exited tenant or pair.
  Of `Supervisor`, `Supervised` says that a child that runs has no event to come,
  and that as long as no event came late the only child that may run is the last,
  which does not while `childExited` is believed.
- `HubSessionProofs`: `Chain` follows an answer from packet to description, `Order`
  says that a candidate behind its answer cannot pass it before the hub has taken
  both, `Closing` ties the steps of Stop to what is closed. Without `Order`,
  `IceLostOnlyWhenOvertaking` is not inductive; an answer that came is in the
  workers, in force or refused. That the hub is a `Peer` needs
  `Chain` from the offer back to the taken selection, and `SelectionSent` from
  there back to the browser: no goroutine takes a selection that was not sent.
  This refinement has no run of its own, since the proof covers every instance.
- `MediaPipelineProofs`: `OneSource` needs to know what a restart has done when it
  is at each of its steps: the pipeline it closes is `p.pipeline`, it no longer
  plays when Close waits for it, none is in use when the next is made
  (`RestartClosesCurrent`), all of it unless a selection came between.
  `PacketizerWhileSampling` needs `PacketizerInv`: what Listen has opened has a
  packetizer except while a restart is under way. The buffer's size plays no part.
- `MediaPipelineProofs`, of `H264Units`, for every unit and packet size: where a
  fragment begins and ends (`EndBounds`), from which the fragments laid end to end
  are the unit without its first octet (`FragmentsKeepUnit`), and each tells that
  octet and whether it is the first or the last (`FragmentsMarked`, for units that
  leave the forbidden bit clear); both parameter sets lie in an aggregate that
  is sent where their lengths say (`AggregateReads`); one unit adds only payloads
  that fit (`PayloadsFit`). `MTU`, the packet's size less the RTP header, is
  assumed to be at least 3 and at most 65523: the size is a `uint16`, and with less
  than 3 a fragment has no room and the code drops the unit.
- `MediaPipelineProofs`, of `H264Payload`, for every sample, encoder and packet
  size. `SplitAsCoded`: the scan counts the zeros before the byte it is at, or has
  found a start code and there is none before it (`LookScans`), so it ends at the
  next code (`FindIndicatorFinds`). `AnnexB`'s units are the reference's from
  every code on, by going down from the last code (`AnnexBUnits`). `AVCC` returns
  units of bytes whatever the sizes are (`AVCCTyped`). `SlicesDelivered` and
  `ParametersInForce` hold together (`PayloaderInv`): between two samples both
  decoders have decoded the same slices, and the payloader holds just the sets
  that came since the last one, or at most one of them (`Tracks`). Within a sample
  this is kept by every unit (`RelatedStep`), when what has been put out so far is
  taken by the receiver: an aggregate becomes the pair (`TakesPair`), a fragment
  extends the unit (`TakesFragment`), and after the last the unit is whole
  (`GotSlice`). `SamplesFit`, that no payload exceeds a packet, is a part of it.
  Induction is from the least number that a set leaves out (`Induction`, from
  `WellFoundedInduction`), over sets instead of predicates, and a recursive
  function is used only after it has been shown to exist (`FoldExists`,
  `BackwardsExists`).
- `HidRelayProofs`: `CrashOnlyAfterFailure` says that before the first failure there
  is one connection, one watchdog, and that no statement can meet a nil client
  (`BeforeFailure`). `LiveClosedOnlyByLeftover` needs the times: a watchdog that is
  alone with its connection finds the ping of the last second, because it sleeps
  longer than the service waits between pings (`AloneInv`). So `WatchPeriod` is
  assumed to be more than one second, and `MaxLeftover` at least one, without
  which a leftover watchdog would not be counted.
- `HidServiceProofs`: `KeyInv` says of every key that no two tasks mixed that the
  last step about it leaves it as the messages want it; `ModeInv` that tasks which
  agree on the mode find it set; `PadInv` follows a controller from its plug to
  the list and out of it, for the connections whose tasks did not meet on a pad or
  on the list (`RaceKeeps` for those beside). That a task's program ends for each key with one step is
  a lemma per message; for `kr` it needs that the special keys are finitely many,
  an assumption the code's list meets.
- `BrowserSessionProofs`: at most one question and one offer are without an answer,
  and each is on its way, in the dialog or in the chain (`QuestionInv`,
  `OfferInv`), from which the step of `Peer` follows whenever the page sends.
  `CandidateLostOnlyBeforeOffer` needs the chain ahead of the first offer counted
  (`EarlyCounted`): what will be refused is known before it is, unless that offer
  itself fails. `RetryAsksUser`
  needs that the default sound card, taken without asking, is used up by the first
  selection (`DialogInv`).
- `SettingsProofs`: as long as no request has overlapped a restart, the map, the
  encoder and the user's wish agree but for the write under way (`Undisturbed`);
  the setter and the restart meet only if noted (`OverlapNoted`); and a null in
  the channel goes back to a dialog without a value (`NullsExplained`).
- `OnScreenProofs`, of both `BrowserInput` and `OnScreen`: `KeysFollowHands` is
  inductive as it stands. The two touch invariants hold together (`TouchInv`): that
  a finger on the glass is the only one to know its touch needs that the number of
  a touch is new; `LeftDownExplained` needs that a forgotten touch that had pressed
  the button leaves `stray`. `PadFollowed` needs that as long as one pad only was
  polled `prev_buttons` is what the remote has of it (`PadInv`). Every step of
  `OnScreen` is a step of `BrowserInput` or leaves HID's variables alone
  (`OnScreenStep`), so all of these hold with the on-screen devices too.
  `IgnoredWhileOpen` needs that the two flags of HID agree and that before HID
  exists `early` says whether a device is open (`ToggleInv`). `HeldOnScreen` needs
  that the mouse's stick is held only while the mouse is open (`HeldInv`). `LayoutKept` needs that what is shown is what is stored unless
  a drag has stored an earlier place (`LayoutInv`).

All of these hold for every value of the bounds on packets, events, failures and
retries. Type correctness is proved group by group of variables, with a lemma for
each group; the types have no run of their own.

What stays with TLC: liveness (`PairEndsTogether`, `RecvUnblocks`,
`StreamLossExits`, `StopGetsThrough`, `RestartResumes`, `Replaced`,
`OffersAnswered`, `FrozenRecovers`, `EndedIsReplaced`), because fairness is out of
the prover's reach. No safety property is only model-checked.

## Findings

- `hid_silent`: the service's ping watchdog looks once, finds the initial flag,
  and returns; a hub that hangs is never disconnected (`SocketController.cs:58`).

Seen in the models, within the windows the properties name:

- a client and a server that arrive together never meet; a second pair makes the
  signaling server forget the first, and a waiter whose connection has dropped
  stays matchable, since nobody reads from it (`signaling.go:70`);
- a stream lost between the selection of a device and the browser's answer leaves
  the hub waiting for ever, because the loop ends the process only before a
  selection (`grpc.go:79`);
- Close blocks when the RTP reader has given up; a restarted session may meet a
  nil packetizer; two watchdogs close live connections, and a closed connection
  usually crashes the hub on a nil client; a gamepad stays plugged in when its
  messages overlap, or when two gamepads change the unsynchronised list of pads at
  one moment (`SocketController.cs:49`);
- a restart whose SetSource fails ignores the error and opens the old pipeline
  again with the sample handler connected twice: after one sample the stream stands
  still, and no forced key frame helps (`video.go:149`, `video.cpp:98`);
- the page's loop of reports ends with its first round that throws (`qos.ts:240`),
  and from then on a frozen picture is not reported;
- an answer that the hub's connection refuses is only logged (`webrtc.go:117`), and
  the next candidate ends the candidate goroutine; an offer that the page cannot
  apply or answer is only logged too (`webrtc.ts:104`), so negotiation rests;
- a touch's hold timer presses the button also when the finger has left, since
  only a move clears it (`desktop.ts:161`); `MobileTouch` does not listen to
  touchcancel, so a cancelled touch is still counted (`mobile.ts:22`);
- a bitrate dialog that closes without a value, by the user or by the popup of an
  event, sends null and the hub panics (`video.go:84`); a change of bitrate that
  meets a restart may be undone by it, or abort the hub;
- a websocket that fails is only logged, and the page waits for ever, although a
  comment says that it connects again after three seconds (`websocket.ts:61`);
  a candidate that arrives before the first offer is lost (`webrtc.ts:78`);
- a control whose device is closed, or whose touch is cancelled, stays down at the
  remote; after a cancelled touch of the mouse's stick the pointer keeps moving until
  the stick is used again or the mouse is closed (`virtMouse.tsx:31`); a drag that ends before its last move is rendered stores the place
  before; a device opened before the HID channel has come leaves HID acting on
  the touches meant for it;
- with one display and one sound card, a refused selection is repeated at once,
  without the user and without end; with the supervisor, a late "close" of an
  earlier child starts a second server beside the first.

## Plan

Encoder selection, which chooses the pipeline that a restart makes again.

## Not modelled

Generated protobuf code, Win32 declarations, logging, build scripts, device
enumeration and child processes (calls into the operating system without state
of their own), broadcasters (the browser sends no track) and the browser's frame
pipeline (not used).

Within the modelled parts:

- signaling: a send is one step. A relay goroutine and the sender of START may
  write to one websocket at a time, which its library forbids and may answer with
  a panic (`signaling.go:162`); a packet without data makes `ProcessReq` write to a nil
  map, which panics (`signaling.go:52`). Neither panic is modelled, so the properties
  of the signaling server say nothing of a server that such a panic ended;
- hub: request ids, ICE gathering states, local candidates, the framerate property
  (the bitrate's path with another map key), the printing of network and audio
  reports, the wait of the HID relay for an open data channel;
- HID service: values of axes and sliders, the clipboard's content, rumble;
- browser session: the START packet, which a page is never sent, a preflight with
  an error, a page address that sets no bitrate (its default is always taken);
- browser input: mouse moves and the pointer lock, wheel, swipes and the pinch to
  full screen, and `connectGamepad` and `disconnectGamepad`, which listen on the
  document, where browsers do not send these events;
- page: styles, the ping URL, the dialogs for framerate (never opened) and
  clipboard, and the coordinates of sticks and groups beyond what the properties
  tell apart;
- payloaders: RTP headers, pacing and the Opus payloader, which copies.
