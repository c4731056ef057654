---------------------------- MODULE MediaPipeline ----------------------------
(***************************************************************************)
(* A capture pipeline of the hub: listener/video/video.go with             *)
(* cgo/video.cpp, or listener/audio/audio.go with its twin, and the loop   *)
(* of webrtc.go that reads it.  Five threads share it without a lock: the  *)
(* device-selection goroutine (SetSource), the connection loop (Open from  *)
(* Listen, then Close from Stop), the GStreamer main loop (restart on EOS  *)
(* or error), the streaming thread of each playing pipeline (samples), and *)
(* readLoopRTP.                                                            *)
(*                                                                         *)
(* GStreamer is external, as the code uses it: setting a pipeline to NULL  *)
(* returns when its streaming thread is out of the sample callback, and    *)
(* pull-sample called again inside one callback waits for the state change.*)
(***************************************************************************)
EXTENDS Naturals

CONSTANTS
    Capacity,   \* Capacity[k]: buffer of rtpchan for a kind of pipeline
    Bursts,     \* how many RTP packets one sample may become
    MaxPipes,   \* bound: GStreamer pipelines created in all
    MaxRestarts \* bound: messages that restart the pipeline

Kinds == {"video", "audio"}
Pipes == 1 .. MaxPipes

ASSUME CapacityAssumption == Capacity \in [Kinds -> Nat]
ASSUME BurstsAssumption == Bursts \subseteq Nat
ASSUME PipesAssumption == MaxPipes \in Nat /\ MaxRestarts \in Nat

VARIABLES
    kind,       \* which of the two listeners this is
    cur,        \* p.pipeline: 0 is nil
    born,       \* how many pipelines were created
    state,      \* GStreamer state of each
    handlers,   \* its new-sample signal is connected: not, once, more often
    thread,     \* where its streaming thread stands
    left,       \* packets the callback has still to push
    packetizer, \* p.packetizer is not nil
    queue,      \* packets in rtpchan
    reader,     \* readLoopRTP
    selector,   \* the device-selection goroutine
    conn,       \* the connection loop: Listen, then Stop
    bus,        \* the GStreamer main loop
    restartCount, \* restarts completed
    reopened,   \* the last restart made no source: it opens what it closed
    target,     \* the pipeline a Close is stopping, for conn and bus
    reselected, \* history: a selection replaced a pipeline that was in use
    crashed     \* the callback met a nil packetizer: the process panicked

pipeVars == <<state, handlers>>
sampleVars == <<thread, left>>
restartVars == <<restartCount, reopened>>
vars == <<kind, cur, born, pipeVars, sampleVars, packetizer, queue, reader,
          selector, conn, bus, restartVars, target, reselected, crashed>>

Closers == {"conn", "bus"}

Playing(i) == state[i] = "playing"

Init ==
    /\ kind \in Kinds
    /\ cur = 0 /\ born = 0
    /\ state = [i \in Pipes |-> "null"]
    /\ handlers = [i \in Pipes |-> 0]
    /\ thread = [i \in Pipes |-> "idle"]
    /\ left = [i \in Pipes |-> 0]
    /\ packetizer = (kind = "audio")
    /\ queue = 0 /\ reader = "none"
    /\ selector = "idle" /\ conn = "idle" /\ bus = "idle"
    /\ restartCount = 0 /\ reopened = FALSE
    /\ target = [w \in Closers |-> 0]
    /\ reselected = FALSE /\ crashed = FALSE

-----------------------------------------------------------------------------
(* SetSource, Open and Close, step by step; a step of thread w is combined *)
(* below with where w goes next.                                           *)

\* A tested source makes a new pipeline; a failed test or parse leaves
\* p.pipeline as it was.  At the bound, creating fails.
SetSource ==
    \/ /\ born < MaxPipes
       /\ born' = born + 1 /\ cur' = born + 1
    \/ UNCHANGED <<born, cur>>

\* Faulty variant: Open keeps the packetizer it finds.
OpenKeeps == UNCHANGED packetizer

\* Open returns at once without a pipeline; video gets a new packetizer.
OpenSets == packetizer' = (packetizer \/ cur # 0)

\* start_video_pipeline connects the callback again each time it is called.
\* State changes of one pipeline exclude each other.
OpenStarts ==
    /\ cur # 0 => state[cur] # "halting"
    /\ IF cur = 0
       THEN UNCHANGED pipeVars
       ELSE /\ state' = [state EXCEPT ![cur] = "playing"]
            /\ handlers' = [handlers EXCEPT ![cur] = IF @ = 0 THEN 1 ELSE 2]

\* Close of video drops the packetizer before it stops p.pipeline.
CloseDrops(w) ==
    /\ packetizer' = (packetizer /\ kind = "audio")
    /\ target' = [target EXCEPT ![w] = cur]

CloseHalts(w) ==
    LET i == target[w] IN
    /\ i # 0 => state[i] # "halting"
    /\ state' = IF i # 0 THEN [state EXCEPT ![i] = "halting"] ELSE state

CloseReturns(w) ==
    LET i == target[w] IN
    /\ i # 0 => thread[i] \in {"idle", "pull"}
    /\ IF i = 0
       THEN UNCHANGED <<state, thread>>
       ELSE /\ state' = [state EXCEPT ![i] = "null"]
            /\ thread' = [thread EXCEPT ![i] = "idle"]
    /\ target' = [target EXCEPT ![w] = 0]

-----------------------------------------------------------------------------
(* The device-selection goroutine (main.go's callback).                    *)

SelectBegins ==
    /\ ~ crashed /\ selector = "idle" /\ born < MaxPipes
    /\ selector' = "source"
    /\ UNCHANGED <<kind, restartVars, cur, born, pipeVars, sampleVars, packetizer, queue, reader,
                   conn, bus, target, reselected, crashed>>

Select ==
    /\ ~ crashed /\ selector = "source"
    /\ SetSource
    /\ reselected' = (reselected \/ (cur' # cur /\ conn # "idle"))
    /\ selector' = "idle"
    /\ UNCHANGED <<kind, restartVars, pipeVars, sampleVars, packetizer, queue, reader, conn, bus,
                   target, crashed>>

-----------------------------------------------------------------------------
(* The connection loop: Listen, after a taken selection, opens and starts  *)
(* the reader; Stop closes.                                                *)

ListenOpens ==
    /\ ~ crashed /\ conn = "idle" /\ cur # 0
    /\ OpenSets
    /\ conn' = "start"
    /\ UNCHANGED <<kind, restartVars, cur, born, pipeVars, sampleVars, queue, reader, selector, bus,
                   target, reselected, crashed>>

\* Faulty variant: the track is added and opened, nobody reads it.
ListenStartsUnread ==
    /\ ~ crashed /\ conn = "start"
    /\ OpenStarts
    /\ conn' = "listening"
    /\ UNCHANGED <<kind, restartVars, cur, born, sampleVars, packetizer, queue, reader,
                   selector, bus, target, reselected, crashed>>

ListenStarts ==
    /\ ~ crashed /\ conn = "start"
    /\ OpenStarts
    /\ reader' = "read"
    /\ conn' = "listening"
    /\ UNCHANGED <<kind, restartVars, cur, born, sampleVars, packetizer, queue, selector, bus,
                   target, reselected, crashed>>

StopDrops ==
    /\ ~ crashed /\ conn \in {"idle", "listening"}
    /\ CloseDrops("conn")
    /\ conn' = "call"
    /\ UNCHANGED <<kind, restartVars, cur, born, pipeVars, sampleVars, queue, reader, selector, bus,
                   reselected, crashed>>

StopHalts ==
    /\ ~ crashed /\ conn = "call"
    /\ CloseHalts("conn")
    /\ conn' = "halt"
    /\ UNCHANGED <<kind, restartVars, cur, born, handlers, sampleVars, packetizer, queue, reader,
                   selector, bus, target, reselected, crashed>>

StopReturns ==
    /\ ~ crashed /\ conn = "halt"
    /\ CloseReturns("conn")
    /\ conn' = "closed"
    /\ UNCHANGED <<kind, restartVars, cur, born, handlers, left, packetizer, queue, reader,
                   selector, bus, reselected, crashed>>

-----------------------------------------------------------------------------
(* The main loop: EOS or an error of a playing pipeline restarts p.        *)

BusMessage ==
    /\ ~ crashed /\ bus = "idle"
    /\ restartCount < MaxRestarts
    /\ \E i \in Pipes : Playing(i)
    /\ CloseDrops("bus")
    /\ bus' = "call"
    /\ UNCHANGED <<kind, restartVars, cur, born, pipeVars, sampleVars, queue, reader, selector, conn,
                   reselected, crashed>>

RestartHalts ==
    /\ ~ crashed /\ bus = "call"
    /\ CloseHalts("bus")
    /\ bus' = "halt"
    /\ UNCHANGED <<kind, restartVars, cur, born, handlers, sampleVars, packetizer, queue, reader,
                   selector, conn, target, reselected, crashed>>

\* Faulty variants: the restart does not wait for the streaming thread; it
\* gives up when no source can be made.
RestartReturnsEarly ==
    /\ ~ crashed /\ bus = "halt"
    /\ bus' = "source"
    /\ UNCHANGED <<kind, restartVars, cur, born, pipeVars, sampleVars, packetizer, queue,
                   reader, selector, conn, target, reselected, crashed>>

RestartSetsOrStops ==
    /\ ~ crashed /\ bus = "source"
    /\ SetSource
    /\ reopened' = (cur' = cur)
    /\ bus' = IF cur' = cur THEN "idle" ELSE "open"
    /\ UNCHANGED <<kind, restartCount, pipeVars, sampleVars, packetizer, queue, reader,
                   selector, conn, target, reselected, crashed>>

RestartReturns ==
    /\ ~ crashed /\ bus = "halt"
    /\ CloseReturns("bus")
    /\ bus' = "source"
    /\ UNCHANGED <<kind, restartVars, cur, born, handlers, left, packetizer, queue, reader,
                   selector, conn, reselected, crashed>>

RestartSets ==
    /\ ~ crashed /\ bus = "source"
    /\ SetSource
    /\ reopened' = (cur' = cur)
    /\ bus' = "open"
    /\ UNCHANGED <<kind, restartCount, pipeVars, sampleVars, packetizer, queue, reader, selector,
                   conn, target, reselected, crashed>>

RestartOpens ==
    /\ ~ crashed /\ bus = "open"
    /\ OpenSets
    /\ bus' = "start"
    /\ UNCHANGED <<kind, restartVars, cur, born, pipeVars, sampleVars, queue, reader, selector, conn,
                   target, reselected, crashed>>

RestartStarts ==
    /\ ~ crashed /\ bus = "start"
    /\ OpenStarts
    /\ bus' = "idle"
    /\ restartCount' = restartCount + 1
    /\ UNCHANGED <<kind, reopened, cur, born, sampleVars, packetizer, queue, reader, selector,
                   conn, target, reselected, crashed>>

-----------------------------------------------------------------------------
(* The streaming thread of pipeline i and the reader.                      *)

Sample(i) ==
    /\ ~ crashed /\ Playing(i) /\ thread[i] = "idle"
    /\ thread' = [thread EXCEPT ![i] = "pulled"]
    /\ UNCHANGED <<kind, restartVars, cur, born, pipeVars, left, packetizer, queue, reader,
                   selector, conn, bus, target, reselected, crashed>>

\* The callback packetizes with whatever p.packetizer is now.
Packetize(i) ==
    /\ ~ crashed /\ thread[i] = "pulled"
    /\ IF packetizer
       THEN /\ \E n \in Bursts : left' = [left EXCEPT ![i] = n]
            /\ thread' = [thread EXCEPT ![i] = "push"]
            /\ UNCHANGED crashed
       ELSE crashed' = TRUE /\ UNCHANGED sampleVars
    /\ UNCHANGED <<kind, restartVars, cur, born, pipeVars, packetizer, queue, reader,
                   selector, conn, bus, target, reselected>>

\* A send on rtpchan: into the buffer, or to the reader that waits.
Push(i) ==
    /\ ~ crashed /\ thread[i] = "push" /\ left[i] > 0
    /\ \/ queue < Capacity[kind] /\ queue' = queue + 1 /\ UNCHANGED reader
       \/ queue = 0 /\ reader = "read" /\ reader' = "write" /\ UNCHANGED queue
    /\ left' = [left EXCEPT ![i] = @ - 1]
    /\ UNCHANGED <<kind, restartVars, cur, born, pipeVars, thread, packetizer, selector, conn,
                   bus, target, reselected, crashed>>

\* The callback returns; a signal connected twice runs it again, and it waits
\* in pull-sample for a sample nobody else can bring.
SampleDone(i) ==
    /\ ~ crashed /\ thread[i] = "push" /\ left[i] = 0
    /\ thread' = [thread EXCEPT ![i] = IF handlers[i] > 1 THEN "pull" ELSE "idle"]
    /\ UNCHANGED <<kind, restartVars, cur, born, pipeVars, left, packetizer, queue, reader,
                   selector, conn, bus, target, reselected, crashed>>

ReadRTP ==
    /\ ~ crashed /\ reader = "read" /\ queue > 0
    /\ queue' = queue - 1
    /\ reader' = "write"
    /\ UNCHANGED <<kind, restartVars, cur, born, pipeVars, sampleVars, packetizer, selector, conn,
                   bus, target, reselected, crashed>>

\* WriteRTP: any error ends the loop.
WriteRTP ==
    /\ ~ crashed /\ reader = "write"
    /\ reader' \in {"read", "ended"}
    /\ UNCHANGED <<kind, restartVars, cur, born, pipeVars, sampleVars, packetizer, queue, selector,
                   conn, bus, target, reselected, crashed>>

-----------------------------------------------------------------------------
Restart == RestartHalts \/ RestartReturns \/ RestartSets \/ RestartOpens \/ RestartStarts
Stop    == StopHalts \/ StopReturns
Callback(i) == Packetize(i) \/ SampleDone(i)
Read    == ReadRTP \/ WriteRTP

Next ==
    \/ SelectBegins \/ Select
    \/ ListenOpens \/ ListenStarts \/ StopDrops \/ StopHalts \/ StopReturns
    \/ BusMessage \/ RestartHalts \/ RestartReturns \/ RestartSets
    \/ RestartOpens \/ RestartStarts
    \/ \E i \in Pipes : Sample(i) \/ Packetize(i) \/ Push(i) \/ SampleDone(i)
    \/ ReadRTP \/ WriteRTP

Spec == Init /\ [][Next]_vars

\* Goroutines and GStreamer threads that can step do; nothing makes a sample,
\* a bus message, a selection or the end of the session happen.  Goroutines that
\* wait to send on a channel are served in their order, hence SF for Push.
Fairness ==
    /\ WF_vars(Select) /\ WF_vars(ListenStarts) /\ WF_vars(Stop) /\ WF_vars(Restart)
    /\ \A i \in Pipes : WF_vars(Callback(i)) /\ SF_vars(Push(i))
    /\ WF_vars(Read)

FairSpec == Spec /\ Fairness

-----------------------------------------------------------------------------

Stopping == conn \in {"call", "halt", "closed"}
InUse(i) == Playing(i) \/ thread[i] = "pulled"

\* A pipeline that samples finds a packetizer, except in the window in which a
\* restart or Stop has dropped it and not yet stopped the pipeline (after Stop
\* has closed, only a restart opens it again), or when a new selection took
\* p.pipeline away from it.
PacketizerWhileSampling ==
    \A i \in Pipes : thread[i] = "pulled" /\ ~ packetizer
        => bus \in {"call", "halt"} \/ Stopping \/ reselected

\* Two pipelines feed the track at once only if a device was selected while
\* the session was listening: restarts alone never leave one behind.
OneSource ==
    \A i, j \in Pipes : i # j /\ InUse(i) /\ InUse(j) => reselected

\* Stop gets through the pipeline, so Shutdown can be sent, unless the reader
\* gave up (and the streaming thread waits in its send) or the process died.
StopGetsThrough == (conn = "call") ~> (conn = "closed" \/ reader = "ended" \/ crashed)

Opened   == cur # 0 /\ Playing(cur) /\ packetizer
Delivers == Opened /\ handlers[cur] = 1

\* A failed pipeline is replaced by one that delivers: it plays, has its
\* packetizer, and its callback is connected once, so that sample after sample
\* gets through.  The exception is a restart that could make no source: the old
\* pipeline plays again with its callback connected twice, and stands still in
\* the second pull of its first sample.  The reader may also have given up, or
\* the session be stopping or stopped.
RestartResumes ==
    (bus = "call") ~> (\/ bus = "idle" /\ Opened /\ (Delivers \/ reopened)
                       \/ reader = "ended" \/ Stopping \/ crashed)
=============================================================================
