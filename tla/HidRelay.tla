------------------------------ MODULE HidRelay ------------------------------
(***************************************************************************)
(* server/hub/hid/hid.go: the hub's websocket to the HID service.  Four    *)
(* kinds of goroutines share ret.client without a lock: the writer, the    *)
(* connector (which also reads), and the watchdogs; the pinger and the     *)
(* forwarder only fill the channel.  Each access to ret.client that        *)
(* another goroutine can come between is a step.                           *)
(*                                                                         *)
(* Every connection starts a watchdog, which does not remember for which   *)
(* connection: those of earlier connections are leftover.                  *)
(*                                                                         *)
(* Time is counted in seconds, and a goroutine that can run does so before *)
(* the second is over.                                                     *)
(***************************************************************************)
EXTENDS Naturals

CONSTANTS
    ChanCap,      \* capacity of ret.chann
    WatchPeriod,  \* seconds between two looks of a watchdog; the service pings every second
    MaxLeftover,  \* bound: leftover watchdogs that stand at one place
    MaxFailures   \* bound: failures of the service or of the network

ASSUME ChanAssumption == ChanCap \in Nat \ {0}
ASSUME TimeAssumption == WatchPeriod \in Nat \ {0, 1}
ASSUME BoundsAssumption == MaxLeftover \in Nat \ {0} /\ MaxFailures \in Nat

\* The client, the connection being read and the one being written to may
\* differ, so there are three at a time to tell apart; 0 is nil.
Conns == 1 .. 3

\* Where a watchdog stands, with the seconds it still sleeps.
NoDog == <<"none", 0>>
Looks == <<"look", 0>>
Closes == <<"close", 0>>
Forgets == <<"nil", 0>>
Asleep(n) == <<"sleep", n>>
Dogs == {Looks, Closes, Forgets} \cup {Asleep(n) : n \in 1 .. WatchPeriod}

VARIABLES
    client,       \* ret.client: 0 is nil
    link,         \* what became of each connection
    pinged,       \* connections with a ping of the service to be read
    receive_ping, \* the flag all watchdogs share
    chann,        \* messages in ret.chann
    reader,       \* where the connector stands
    reading,      \* the connection its ReadMessage was called on
    writer,       \* where the writer stands
    writing,      \* the connection its WriteMessage was called on
    dog,          \* the watchdog of the last connection
    leftover,     \* how many earlier ones stand where
    service,      \* the HID service accepts connections
    failures,     \* failures so far
    crashed       \* the statement that panicked, or "no"

linkVars == <<link, pinged, receive_ping>>
readerVars == <<reader, reading>>
writerVars == <<writer, writing>>
dogVars == <<dog, leftover>>
envVars == <<service, failures>>
vars == <<client, linkVars, chann, readerVars, writerVars, dogVars, envVars, crashed>>

\* One more watchdog at s; at the bound it is not told apart from the others.
Add(count, s) ==
    [u \in Dogs |-> IF u = s /\ count[u] < MaxLeftover THEN count[u] + 1 ELSE count[u]]

Fails(c) == link[c] \in {"broken", "closed"}

\* A number nobody refers to (any more) stands for a connection not made yet;
\* what it was before may still be open, and leaked.
Used == {client, reading, writing}
Free == Conns \ Used

Quiet ==
    /\ client = 0
    /\ link = [c \in Conns |-> "closed"]
    /\ pinged = {}
    /\ chann = 0
    /\ reader = "check" /\ reading = 0
    /\ writer = "take" /\ writing = 0
    /\ dog = NoDog /\ leftover = [s \in Dogs |-> 0]
    /\ service \in BOOLEAN /\ failures = 0
    /\ crashed = "no"

\* Faulty variant: the first watchdog finds no ping.
InitUnpinged == Quiet /\ receive_ping = FALSE

Init == Quiet /\ receive_ping = TRUE

-----------------------------------------------------------------------------
(* The pinger and the forwarder.                                           *)

Enqueue ==
    /\ crashed = "no" /\ chann < ChanCap
    /\ chann' = chann + 1
    /\ UNCHANGED <<client, linkVars, readerVars, writerVars, dogVars, envVars, crashed>>

-----------------------------------------------------------------------------
(* The writer: takes a message, looks at ret.client, uses it.              *)

\* Without a client the message is dropped.
WriterTakes ==
    /\ crashed = "no" /\ writer = "take" /\ chann > 0
    /\ chann' = chann - 1
    /\ writer' = IF client # 0 THEN "call" ELSE "take"
    /\ UNCHANGED <<client, linkVars, readerVars, writing, dogVars, envVars, crashed>>

\* ret.client may be nil by now; or the connector may be writing its hello,
\* which the websocket library may notice and panic.
WriterCalls ==
    /\ crashed = "no" /\ writer = "call"
    /\ \/ /\ client = 0
          /\ crashed' = "write"
          /\ UNCHANGED writerVars
       \/ /\ client # 0 /\ reader = "greeting" /\ reading = client
          /\ crashed' = "concurrent"
          /\ UNCHANGED writerVars
       \/ /\ client # 0
          /\ writing' = client
          /\ writer' = "writing"
          /\ UNCHANGED crashed
    /\ UNCHANGED <<client, linkVars, chann, readerVars, dogVars, envVars>>

WriterWritten ==
    /\ crashed = "no" /\ writer = "writing"
    /\ writer' = IF Fails(writing) THEN "nil" ELSE "take"
    /\ writing' = 0
    /\ UNCHANGED <<client, linkVars, chann, readerVars, dogVars, envVars, crashed>>

\* Whatever connection ret.client is now, it is forgotten.
WriterForgets ==
    /\ crashed = "no" /\ writer = "nil"
    /\ client' = 0
    /\ writer' = "take"
    /\ UNCHANGED <<linkVars, chann, readerVars, writing, dogVars, envVars, crashed>>

-----------------------------------------------------------------------------
(* The connector.                                                          *)

ReaderChecks ==
    /\ crashed = "no" /\ reader = "check"
    /\ reader' = IF client = 0 THEN "dial" ELSE "call"
    /\ UNCHANGED <<client, linkVars, chann, reading, writerVars, dogVars, envVars, crashed>>

\* A new connection gets the service's first ping; the watchdog of the one
\* before, if it still runs, is now leftover.
Dial ==
    /\ crashed = "no" /\ reader = "dial"
    /\ IF service
       THEN \E c \in Free :
            /\ \A d \in Free : c <= d
            /\ client' = c
            /\ link' = [link EXCEPT ![c] = "up"]
            /\ pinged' = pinged \cup {c}
            /\ reader' = "dialed"
            /\ dog' = NoDog
            /\ leftover' = IF dog = NoDog THEN leftover ELSE Add(leftover, dog)
       ELSE /\ client' = 0
            /\ reader' = "wait"
            /\ UNCHANGED <<link, pinged, dogVars>>
    /\ UNCHANGED <<receive_ping, chann, reading, writerVars, envVars, crashed>>

\* With a nil client and no error, the message to print is taken from nil.
ReaderDialed ==
    /\ crashed = "no" /\ reader = "dialed"
    /\ IF client = 0
       THEN crashed' = "error" /\ UNCHANGED reader
       ELSE reader' = "hello" /\ UNCHANGED crashed
    /\ UNCHANGED <<client, linkVars, chann, reading, writerVars, dogVars, envVars>>

ReaderGreets ==
    /\ crashed = "no" /\ reader = "hello"
    /\ \/ /\ client = 0
          /\ crashed' = "hello"
          /\ UNCHANGED readerVars
       \/ /\ client # 0 /\ writing = client
          /\ crashed' = "concurrent"
          /\ UNCHANGED readerVars
       \/ /\ client # 0
          /\ reading' = client
          /\ reader' = "greeting"
          /\ UNCHANGED crashed
    /\ UNCHANGED <<client, linkVars, chann, writerVars, dogVars, envVars>>

\* Faulty variant: no watchdog.
ReaderGreetedUnwatched ==
    /\ crashed = "no" /\ reader = "greeting"
    /\ reader' = IF Fails(reading) THEN "wait" ELSE "call"
    /\ reading' = 0
    /\ UNCHANGED <<client, linkVars, chann, writerVars, dogVars, envVars, crashed>>

\* The watchdog starts when the hello was written; else the connector sleeps
\* and goes on with the same client, unwatched.
ReaderGreeted ==
    /\ crashed = "no" /\ reader = "greeting"
    /\ IF Fails(reading)
       THEN reader' = "wait" /\ UNCHANGED dog
       ELSE reader' = "call" /\ dog' = Looks
    /\ reading' = 0
    /\ UNCHANGED <<client, linkVars, chann, writerVars, leftover, envVars, crashed>>

ReaderCalls ==
    /\ crashed = "no" /\ reader = "call"
    /\ IF client = 0
       THEN crashed' = "read" /\ UNCHANGED readerVars
       ELSE /\ reading' = client
            /\ reader' = "reading"
            /\ UNCHANGED crashed
    /\ UNCHANGED <<client, linkVars, chann, writerVars, dogVars, envVars>>

ReadPing ==
    /\ crashed = "no" /\ reader = "reading"
    /\ ~ Fails(reading) /\ reading \in pinged
    /\ pinged' = pinged \ {reading}
    /\ receive_ping' = TRUE
    /\ reader' = "check"
    /\ reading' = 0
    /\ UNCHANGED <<client, link, chann, writerVars, dogVars, envVars, crashed>>

ReadFails ==
    /\ crashed = "no" /\ reader = "reading" /\ Fails(reading)
    /\ reader' = "close"
    /\ reading' = 0
    /\ UNCHANGED <<client, linkVars, chann, writerVars, dogVars, envVars, crashed>>

ReaderCloses ==
    /\ crashed = "no" /\ reader = "close"
    /\ IF client = 0
       THEN crashed' = "close" /\ UNCHANGED <<link, reader>>
       ELSE /\ link' = [link EXCEPT ![client] = "closed"]
            /\ reader' = "nil"
            /\ UNCHANGED crashed
    /\ UNCHANGED <<client, pinged, receive_ping, chann, reading, writerVars, dogVars, envVars>>

ReaderForgets ==
    /\ crashed = "no" /\ reader = "nil"
    /\ client' = 0
    /\ reader' = "check"
    /\ UNCHANGED <<linkVars, chann, reading, writerVars, dogVars, envVars, crashed>>

-----------------------------------------------------------------------------
(* The watchdogs.  Any of them acts on ret.client, whichever it is.        *)

\* A watchdog that stands at s goes to t.
Goes(s, t) ==
    \/ /\ dog = s
       /\ dog' = t
       /\ UNCHANGED leftover
    \/ /\ leftover[s] > 0
       /\ leftover' = Add([leftover EXCEPT ![s] = @ - 1], t)
       /\ UNCHANGED dog

\* Faulty variant: it looks again after a second.
LookEachSecond ==
    /\ crashed = "no"
    /\ IF receive_ping
       THEN receive_ping' = FALSE /\ Goes(Looks, Asleep(1))
       ELSE Goes(Looks, Closes) /\ UNCHANGED receive_ping
    /\ UNCHANGED <<client, link, pinged, chann, readerVars, writerVars, envVars, crashed>>

Look ==
    /\ crashed = "no"
    /\ IF receive_ping
       THEN receive_ping' = FALSE /\ Goes(Looks, Asleep(WatchPeriod))
       ELSE Goes(Looks, Closes) /\ UNCHANGED receive_ping
    /\ UNCHANGED <<client, link, pinged, chann, readerVars, writerVars, envVars, crashed>>

DogCloses ==
    /\ crashed = "no"
    /\ IF client = 0
       THEN /\ dog = Closes \/ leftover[Closes] > 0
            /\ crashed' = "watchdog"
            /\ UNCHANGED <<link, dogVars>>
       ELSE /\ Goes(Closes, Forgets)
            /\ link' = [link EXCEPT ![client] = "closed"]
            /\ UNCHANGED crashed
    /\ UNCHANGED <<client, pinged, receive_ping, chann, readerVars, writerVars, envVars>>

DogForgets ==
    /\ crashed = "no"
    /\ Goes(Forgets, NoDog)
    /\ client' = 0
    /\ receive_ping' = TRUE
    /\ UNCHANGED <<link, pinged, chann, readerVars, writerVars, envVars, crashed>>

-----------------------------------------------------------------------------
(* Time, the service and the network.                                      *)

Waits ==
    /\ reader = "wait" \/ (reader = "reading" /\ ~ Fails(reading) /\ reading \notin pinged)
    /\ \A s \in {Looks, Closes, Forgets} : dog # s /\ leftover[s] = 0
    /\ writer = "take"

Nearer(s) ==
    IF s = Asleep(1) THEN Looks ELSE IF s[1] = "sleep" THEN Asleep(s[2] - 1) ELSE s

\* A second passes: the service pings, sleepers come closer to their end.
Tick ==
    /\ crashed = "no" /\ Waits
    /\ pinged' = {c \in Conns \cap Used : link[c] = "up"}
    /\ reader' = IF reader = "wait" THEN "check" ELSE reader
    /\ dog' = Nearer(dog)
    /\ leftover' = [s \in Dogs |-> IF s = Looks THEN leftover[Asleep(1)]
                                  ELSE IF s[2] \in 1 .. WatchPeriod - 1
                                  THEN leftover[Asleep(s[2] + 1)] ELSE 0]
    /\ UNCHANGED <<client, link, receive_ping, chann, reading, writerVars, envVars, crashed>>

\* A connection is reset, or hangs.
LinkFails(c) ==
    /\ crashed = "no" /\ failures < MaxFailures /\ link[c] = "up"
    /\ link' = [link EXCEPT ![c] = "broken"] \/ link' = [link EXCEPT ![c] = "silent"]
    /\ pinged' = pinged \ {c}
    /\ failures' = failures + 1
    /\ UNCHANGED <<client, receive_ping, chann, readerVars, writerVars, dogVars, service, crashed>>

ServiceStops ==
    /\ crashed = "no" /\ service /\ failures < MaxFailures
    /\ service' = FALSE
    /\ link' = [c \in Conns |-> IF link[c] \in {"up", "silent"} THEN "broken" ELSE link[c]]
    /\ pinged' = {}
    /\ failures' = failures + 1
    /\ UNCHANGED <<client, receive_ping, chann, readerVars, writerVars, dogVars, crashed>>

ServiceStarts ==
    /\ crashed = "no" /\ ~ service
    /\ service' = TRUE
    /\ UNCHANGED <<client, linkVars, chann, readerVars, writerVars, dogVars, failures, crashed>>

-----------------------------------------------------------------------------
Writer == WriterTakes \/ WriterCalls \/ WriterWritten \/ WriterForgets

Reader ==
    \/ ReaderChecks \/ Dial \/ ReaderDialed \/ ReaderGreets \/ ReaderGreeted
    \/ ReaderCalls \/ ReadPing \/ ReadFails \/ ReaderCloses \/ ReaderForgets

Watchdog == Look \/ DogCloses \/ DogForgets

Next ==
    \/ Enqueue
    \/ WriterTakes \/ WriterCalls \/ WriterWritten \/ WriterForgets
    \/ ReaderChecks \/ Dial \/ ReaderDialed \/ ReaderGreets \/ ReaderGreeted
    \/ ReaderCalls \/ ReadPing \/ ReadFails \/ ReaderCloses \/ ReaderForgets
    \/ Look \/ DogCloses \/ DogForgets
    \/ Tick
    \/ \E c \in Conns : LinkFails(c)
    \/ ServiceStops \/ ServiceStarts

Spec == Init /\ [][Next]_vars

\* The Go scheduler runs every goroutine, and time passes.  Time cannot pass
\* while the writer is busy, and the channel can always be filled again, hence
\* SF for Tick.
Fairness ==
    /\ WF_vars(Writer) /\ WF_vars(Reader) /\ WF_vars(Watchdog)
    /\ SF_vars(Tick)

FairSpec == Spec /\ Fairness

-----------------------------------------------------------------------------

\* While nothing fails the relay does not crash, but for the hello that meets
\* the writer; in particular no watchdog mistakes a service that pings.
CrashOnlyAfterFailure == crashed \notin {"no", "concurrent"} => failures > 0

\* A connection that is up is closed only while a watchdog is left over from
\* an earlier one: two that share receive_ping take each other's ping.
LiveClosedOnlyByLeftover ==
    [][\A c \in Conns : link[c] = "up" /\ link'[c] = "closed"
        => \E s \in Dogs : leftover[s] > 0]_vars

\* A connection that hangs or breaks is replaced, unless the service is down
\* or the relay ran into a nil client on the way.
Replaced ==
    (client # 0 /\ link[client] \in {"silent", "broken"})
        ~> (crashed # "no" \/ ~ service \/ (client # 0 /\ link[client] = "up"))
=============================================================================
