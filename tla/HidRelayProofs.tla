---------------------------- MODULE HidRelayProofs ----------------------------
(***************************************************************************)
(* Theorems about HidRelay for every capacity, every number of failures    *)
(* and every period of the watchdogs longer than the one of the pings.     *)
(***************************************************************************)
EXTENDS HidRelay, TLAPS

RelayTypes ==
    /\ client \in {0} \cup Conns
    /\ link \in [Conns -> {"up", "broken", "silent", "closed"}]
    /\ reading \in {0} \cup Conns /\ writing \in {0} \cup Conns
    /\ reader \in {"check", "dial", "dialed", "wait", "hello", "greeting", "call", "reading",
                   "close", "nil"}
    /\ writer \in {"take", "call", "writing", "nil"}
    /\ dog \in Dogs \cup {NoDog}
    /\ leftover \in [Dogs -> Nat]
    /\ failures \in Nat

NoLeftover == \A s \in Dogs : leftover[s] = 0

\* Only the connector makes connections, so the one it uses is ret.client or
\* ret.client is nil; what it is about to close or to wait for is no good; and
\* a connection that is not greeted yet is not watched.
ReaderInv ==
    /\ reader = "dial" => client = 0
    /\ reader \in {"greeting", "reading"} => reading \in Conns /\ client \in {0, reading}
    /\ reader \in {"wait", "close", "nil"} => client = 0 \/ Fails(client)
    /\ reader \in {"dialed", "hello", "greeting"} => dog = NoDog

\* A watchdog that is alone with its connection finds the ping of the last
\* second, or the connector is about to read it.
Watched ==
    /\ dog \notin {Closes, Forgets}
    /\ dog = Looks => receive_ping
    /\ \A n \in 1 .. WatchPeriod - 1 : dog = Asleep(n) => receive_ping \/ client \in pinged

AloneInv ==
    NoLeftover =>
        /\ dog = NoDog => receive_ping
        /\ client # 0 /\ link[client] = "up" => Watched

\* Before anything has failed: the first connection is up and stays, and there
\* is one watchdog.
BeforeFailure ==
    /\ NoLeftover
    /\ crashed \in {"no", "concurrent"}
    /\ client # 0 => link[client] = "up"
    /\ client = 0 => reader \in {"check", "dial", "wait"} /\ writer = "take" /\ dog = NoDog
    /\ reader \notin {"close", "nil"} /\ writer # "nil"
    /\ writer = "writing" => writing = client

RelayInv ==
    /\ RelayTypes /\ ReaderInv /\ AloneInv
    /\ failures = 0 => BeforeFailure

-----------------------------------------------------------------------------
(* Where watchdogs stand and go.                                           *)

LEMMA Places ==
    /\ Looks \in Dogs /\ Closes \in Dogs /\ Forgets \in Dogs /\ NoDog \notin Dogs
    /\ Looks # Closes /\ Looks # Forgets /\ Closes # Forgets
    /\ \A n \in 1 .. WatchPeriod : Asleep(n) \in Dogs /\ Asleep(n) \notin {Looks, Closes, Forgets}
    /\ \A m, n \in 1 .. WatchPeriod : Asleep(m) = Asleep(n) => m = n
    /\ \A d \in Dogs : d \in {Looks, Closes, Forgets} \/ \E n \in 1 .. WatchPeriod : d = Asleep(n)
BY TimeAssumption DEF Dogs, Looks, Closes, Forgets, NoDog, Asleep

\* A second brings sleepers nearer to their look and moves nobody else.
LEMMA NearerPlaces ==
    /\ Nearer(NoDog) = NoDog
    /\ \A d \in {Looks, Closes, Forgets} : Nearer(d) = d
    /\ Nearer(Asleep(1)) = Looks
    /\ \A n \in 2 .. WatchPeriod : Nearer(Asleep(n)) = Asleep(n - 1)
BY TimeAssumption DEF Nearer, Looks, Closes, Forgets, NoDog, Asleep

\* One more stands at s, at the bound or below it.
LEMMA AddCounts ==
    ASSUME NEW count \in [Dogs -> Nat], NEW s
    PROVE  Add(count, s) \in [Dogs -> Nat] /\ (s \in Dogs => Add(count, s)[s] > 0)
BY BoundsAssumption DEF Add

\* Either the watchdog of the connection goes, or one that is left over.
LEMMA GoesOne ==
    ASSUME RelayTypes, NEW s \in Dogs, NEW t \in Dogs \cup {NoDog}, Goes(s, t)
    PROVE  \/ dog = s /\ dog' = t /\ leftover' = leftover
           \/ /\ leftover[s] > 0 /\ dog' = dog /\ leftover' \in [Dogs -> Nat]
              /\ t \in Dogs => leftover'[t] > 0
<1>1. CASE dog = s /\ dog' = t /\ UNCHANGED leftover
  BY <1>1
<1>2. CASE /\ leftover[s] > 0 /\ UNCHANGED dog
           /\ leftover' = Add([leftover EXCEPT ![s] = @ - 1], t)
  <2>1. [leftover EXCEPT ![s] = @ - 1] \in [Dogs -> Nat]
    BY <1>2 DEF RelayTypes
  <2> QED
    BY <1>2, <2>1, AddCounts
<1> QED
  BY <1>1, <1>2 DEF Goes

\* Those left over when a second begins are left over when it ends.
LEMMA TickKeepsLeftover ==
    ASSUME RelayTypes, Tick
    PROVE  /\ leftover' \in [Dogs -> Nat] /\ dog' = Nearer(dog) /\ dog' \in Dogs \cup {NoDog}
           /\ NoLeftover <=> NoLeftover'
<1>1. \A s \in {Looks, Closes, Forgets} : dog # s /\ leftover[s] = 0
  BY DEF Tick, Waits
<1>2. /\ dog' = Nearer(dog)
      /\ leftover' = [s \in Dogs |-> IF s = Looks THEN leftover[Asleep(1)]
                                    ELSE IF s[2] \in 1 .. WatchPeriod - 1
                                    THEN leftover[Asleep(s[2] + 1)] ELSE 0]
  BY DEF Tick
<1>3. dog' \in Dogs \cup {NoDog}
  <2>1. CASE dog = NoDog
    BY <1>2, <2>1, NearerPlaces
  <2>2. ASSUME NEW n \in 1 .. WatchPeriod, dog = Asleep(n)
        PROVE  dog' \in Dogs
    <3>1. CASE n = 1
      BY <1>2, <2>2, <3>1, NearerPlaces, Places
    <3>2. CASE n # 1
      <4>1. n \in 2 .. WatchPeriod /\ n - 1 \in 1 .. WatchPeriod
        BY <3>2, TimeAssumption
      <4> QED
        BY <1>2, <2>2, <4>1, NearerPlaces, Places
    <3> QED
      BY <3>1, <3>2
  <2> QED
    BY <1>1, <2>1, <2>2, Places DEF RelayTypes
<1>4. /\ leftover'[Looks] = leftover[Asleep(1)]
      /\ leftover'[Closes] = 0 /\ leftover'[Forgets] = 0
      /\ \A n \in 1 .. WatchPeriod - 1 : leftover'[Asleep(n)] = leftover[Asleep(n + 1)]
      /\ leftover'[Asleep(WatchPeriod)] = 0
  BY <1>2, Places, TimeAssumption DEF Looks, Closes, Forgets, Asleep
<1>5. \A n \in 1 .. WatchPeriod : leftover[Asleep(n)] \in Nat
  BY Places DEF RelayTypes
<1>6. \A s \in Dogs : leftover'[s] \in Nat
  <2>1. \A n \in 1 .. WatchPeriod : leftover'[Asleep(n)] \in Nat
    <3> TAKE n \in 1 .. WatchPeriod
    <3>1. CASE n = WatchPeriod
      BY <1>4, <3>1
    <3>2. CASE n # WatchPeriod
      <4>1. n \in 1 .. WatchPeriod - 1 /\ n + 1 \in 1 .. WatchPeriod
        BY <3>2, TimeAssumption
      <4> QED
        BY <1>4, <1>5, <4>1
    <3> QED
      BY <3>1, <3>2
  <2>2. 1 \in 1 .. WatchPeriod
    BY TimeAssumption
  <2> QED
    BY <1>4, <1>5, <2>1, <2>2, Places
<1>7. leftover' \in [Dogs -> Nat]
  BY <1>2, <1>6
<1>8. ASSUME NoLeftover
      PROVE  NoLeftover'
  <2>1. \A n \in 1 .. WatchPeriod - 1 : n + 1 \in 1 .. WatchPeriod
    BY TimeAssumption
  <2>2. \A n \in 1 .. WatchPeriod : leftover[Asleep(n)] = 0
    BY <1>8, Places DEF NoLeftover
  <2>3. \A n \in 1 .. WatchPeriod : n = WatchPeriod \/ n \in 1 .. WatchPeriod - 1
    BY TimeAssumption
  <2>4. 1 \in 1 .. WatchPeriod
    BY TimeAssumption
  <2> QED
    BY <1>4, <2>1, <2>2, <2>3, <2>4, Places DEF NoLeftover
<1>9. ASSUME NoLeftover'
      PROVE  NoLeftover
  <2>1. \A n \in 1 .. WatchPeriod : leftover[Asleep(n)] = 0
    <3> TAKE n \in 1 .. WatchPeriod
    <3>1. CASE n = 1
      BY <1>4, <1>9, <3>1, Places DEF NoLeftover
    <3>2. CASE n # 1
      <4>1. n - 1 \in 1 .. WatchPeriod - 1 /\ (n - 1) + 1 = n /\ n - 1 \in 1 .. WatchPeriod
        BY <3>2, TimeAssumption
      <4> QED
        BY <1>4, <1>9, <4>1, Places DEF NoLeftover
    <3> QED
      BY <3>1, <3>2
  <2> QED
    BY <1>1, <2>1, Places DEF NoLeftover
<1> QED
  BY <1>2, <1>3, <1>7, <1>8, <1>9

-----------------------------------------------------------------------------
LEMMA TypesStep ==
    ASSUME RelayTypes, [Next]_vars
    PROVE  RelayTypes'
<1> USE DEF RelayTypes, linkVars, readerVars, writerVars, dogVars, envVars
<1>1. CASE Enqueue \/ ServiceStarts \/ UNCHANGED vars
  BY <1>1 DEF Enqueue, ServiceStarts, vars
<1>2. CASE WriterTakes \/ WriterCalls \/ WriterWritten \/ WriterForgets
  BY <1>2 DEF WriterTakes, WriterCalls, WriterWritten, WriterForgets
<1>3. CASE ReaderChecks \/ ReaderDialed \/ ReaderGreets \/ ReaderCalls \/ ReadPing \/ ReadFails
  BY <1>3 DEF ReaderChecks, ReaderDialed, ReaderGreets, ReaderCalls, ReadPing, ReadFails
<1>4. CASE ReaderCloses \/ ReaderForgets
  BY <1>4 DEF ReaderCloses, ReaderForgets
<1>5. CASE ReaderGreeted
  BY <1>5, Places DEF ReaderGreeted
<1>6. CASE Dial
  <2>1. dog' \in Dogs \cup {NoDog} /\ leftover' \in [Dogs -> Nat]
    BY <1>6, AddCounts DEF Dial
  <2> QED
    BY <1>6, <2>1 DEF Dial, Free
<1>7. CASE Look
  <2>1. Asleep(WatchPeriod) \in Dogs
    BY Places, TimeAssumption
  <2>2. dog' \in Dogs \cup {NoDog} /\ leftover' \in [Dogs -> Nat]
    BY <1>7, <2>1, Places, GoesOne DEF Look
  <2> QED
    BY <1>7, <2>2 DEF Look
<1>8. CASE DogCloses
  <2>1. dog' \in Dogs \cup {NoDog} /\ leftover' \in [Dogs -> Nat]
    BY <1>8, Places, GoesOne DEF DogCloses
  <2> QED
    BY <1>8, <2>1 DEF DogCloses
<1>9. CASE DogForgets
  <2>1. dog' \in Dogs \cup {NoDog} /\ leftover' \in [Dogs -> Nat]
    BY <1>9, Places, GoesOne DEF DogForgets
  <2> QED
    BY <1>9, <2>1 DEF DogForgets
<1>10. CASE Tick
  BY <1>10, TickKeepsLeftover DEF Tick
<1>11. CASE \E c \in Conns : LinkFails(c)
  BY <1>11 DEF LinkFails
<1>12. CASE ServiceStops
  BY <1>12 DEF ServiceStops
<1> QED
  BY <1>1, <1>2, <1>3, <1>4, <1>5, <1>6, <1>7, <1>8, <1>9, <1>10, <1>11, <1>12 DEF Next

\* A connection in use that failed does not come back, and the client is only
\* forgotten, but for a call of the connector.
LEMMA LinksStep ==
    ASSUME RelayTypes, [Next]_vars, ~ Dial
    PROVE  /\ client' \in {0, client}
           /\ \A c \in Conns : Fails(c) => Fails(c)'
           /\ \A c \in Conns : link'[c] = "up" => link[c] = "up"
<1> USE DEF RelayTypes, Fails, linkVars, readerVars, writerVars, dogVars, envVars
<1>1. CASE UNCHANGED link /\ client' \in {0, client}
  BY <1>1
<1>2. CASE ReaderCloses
  BY <1>2 DEF ReaderCloses
<1>3. CASE DogCloses
  BY <1>3 DEF DogCloses
<1>4. CASE \E c \in Conns : LinkFails(c)
  BY <1>4 DEF LinkFails
<1>5. CASE ServiceStops
  BY <1>5 DEF ServiceStops
<1> QED
  BY <1>1, <1>2, <1>3, <1>4, <1>5 DEF Next, Enqueue, WriterTakes, WriterCalls, WriterWritten,
     WriterForgets, ReaderChecks, ReaderDialed, ReaderGreets, ReaderGreeted, ReaderCalls, ReadPing,
     ReadFails, ReaderForgets, Look, DogForgets, Tick, ServiceStarts, vars

\* Only the connector sets a watchdog on a connection.
LEMMA DogStep ==
    ASSUME RelayTypes, [Next]_vars, ~ ReaderGreeted, dog = NoDog
    PROVE  dog' = NoDog
<1>1. CASE Look
  BY <1>1, Places, TimeAssumption, GoesOne DEF Look
<1>2. CASE DogCloses
  BY <1>2, Places, GoesOne DEF DogCloses, dogVars
<1>3. CASE DogForgets
  BY <1>3, Places, GoesOne DEF DogForgets
<1>4. CASE Tick
  BY <1>4, TickKeepsLeftover, NearerPlaces
<1> QED
  BY <1>1, <1>2, <1>3, <1>4 DEF Next, Enqueue, WriterTakes, WriterCalls, WriterWritten,
     WriterForgets, ReaderChecks, Dial, ReaderDialed, ReaderGreets, ReaderCalls, ReadPing,
     ReadFails, ReaderCloses, ReaderForgets, LinkFails, ServiceStops, ServiceStarts, vars, dogVars

LEMMA ReaderStep ==
    ASSUME RelayTypes, ReaderInv, [Next]_vars
    PROVE  ReaderInv'
<1> USE DEF RelayTypes, ReaderInv, linkVars, readerVars, writerVars, dogVars, envVars
<1>1. CASE Dial
  BY <1>1 DEF Dial
<1> SUFFICES ASSUME ~ Dial PROVE ReaderInv'
  BY <1>1
<1>2. /\ client' \in {0, client} /\ \A c \in Conns : Fails(c) => Fails(c)'
      /\ ~ ReaderGreeted /\ dog = NoDog => dog' = NoDog
  BY LinksStep, DogStep
<1>3. CASE UNCHANGED readerVars
  BY <1>2, <1>3 DEF ReaderGreeted
<1>4. CASE ReaderChecks \/ ReaderDialed \/ ReaderGreets \/ ReaderCalls
  BY <1>2, <1>4 DEF ReaderChecks, ReaderDialed, ReaderGreets, ReaderCalls
<1>5. CASE ReaderGreeted \/ ReadFails \/ ReadPing
  BY <1>2, <1>5 DEF ReaderGreeted, ReadFails, ReadPing
<1>6. CASE ReaderCloses \/ ReaderForgets
  BY <1>2, <1>6 DEF ReaderCloses, ReaderForgets, Fails
<1>7. CASE Tick
  BY <1>2, <1>7 DEF Tick, Waits, ReaderGreeted
<1> QED
  BY <1>3, <1>4, <1>5, <1>6, <1>7 DEF Next, Enqueue, WriterTakes, WriterCalls, WriterWritten,
     WriterForgets, Look, DogCloses, DogForgets, LinkFails, ServiceStops, ServiceStarts, vars

\* What a watchdog goes by.
watchVars == <<dog, leftover, receive_ping, pinged>>

LEMMA AloneStep ==
    ASSUME RelayTypes, ReaderInv, AloneInv, [Next]_vars
    PROVE  AloneInv'
<1> SUFFICES ASSUME NoLeftover' PROVE (dog = NoDog => receive_ping)' /\
                    (client # 0 /\ link[client] = "up" => Watched)'
  BY DEF AloneInv
<1> USE DEF Watched, linkVars, readerVars, writerVars, dogVars, envVars
<1>1. CASE Dial
  <2>1. CASE service
    <3>1. dog = NoDog /\ leftover' = leftover
      <4>1. dog # NoDog => leftover'[dog] > 0 /\ dog \in Dogs
        BY <1>1, <2>1, AddCounts DEF Dial, RelayTypes
      <4>2. dog = NoDog
        BY <4>1 DEF NoLeftover
      <4> QED
        BY <1>1, <2>1, <4>2 DEF Dial
    <3>2. receive_ping /\ receive_ping' = receive_ping /\ dog' = NoDog
      BY <1>1, <2>1, <3>1 DEF AloneInv, NoLeftover, Dial
    <3> QED
      BY <3>2, Places, TimeAssumption
  <2>2. CASE ~ service
    <3>1. client' = 0 /\ UNCHANGED watchVars
      BY <1>1, <2>2 DEF Dial, watchVars
    <3> QED
      BY <3>1 DEF watchVars, AloneInv, NoLeftover
  <2> QED
    BY <2>1, <2>2
<1> SUFFICES ASSUME ~ Dial PROVE (dog = NoDog => receive_ping)' /\
                    (client # 0 /\ link[client] = "up" => Watched)'
  BY <1>1
<1>2. /\ client' \in {0, client} /\ client \in {0} \cup Conns
      /\ \A c \in Conns : link'[c] = "up" => link[c] = "up"
  BY LinksStep DEF RelayTypes
<1>3. CASE UNCHANGED watchVars
  BY <1>2, <1>3 DEF watchVars, AloneInv, NoLeftover
<1>4. CASE ReaderGreeted
  <2>1. NoLeftover
    BY <1>4 DEF ReaderGreeted, NoLeftover
  <2>2. dog = NoDog /\ receive_ping
    BY <1>4, <2>1 DEF ReaderGreeted, ReaderInv, AloneInv
  <2>3. receive_ping' /\ (dog' = NoDog \/ dog' = Looks)
    BY <1>4, <2>2 DEF ReaderGreeted
  <2> QED
    BY <2>3, Places, TimeAssumption
<1>5. CASE ReadPing
  <2>1. NoLeftover /\ dog' = dog /\ receive_ping' = TRUE
    BY <1>5 DEF ReadPing, NoLeftover
  <2> QED
    BY <1>2, <2>1 DEF AloneInv
<1>6. CASE Look
  <2>1. Asleep(WatchPeriod) \in Dogs /\ Asleep(WatchPeriod) # Looks /\ Asleep(WatchPeriod) # NoDog
        /\ Asleep(WatchPeriod) \notin {Closes, Forgets}
    BY Places, TimeAssumption
  <2>2. CASE receive_ping
    <3>1. dog' = Asleep(WatchPeriod)
      BY <1>6, <2>1, <2>2, Places, GoesOne DEF Look, NoLeftover
    <3>2. \A n \in 1 .. WatchPeriod - 1 : dog' # Asleep(n)
      <4>1. \A n \in 1 .. WatchPeriod - 1 : n \in 1 .. WatchPeriod /\ n # WatchPeriod
        BY TimeAssumption
      <4>2. WatchPeriod \in 1 .. WatchPeriod
        BY TimeAssumption
      <4> QED
        BY <3>1, <4>1, <4>2, Places
    <3> QED
      BY <2>1, <3>1, <3>2
  <2>3. CASE ~ receive_ping
    <3>1. dog = Looks /\ dog' = Closes /\ leftover' = leftover
      BY <1>6, <2>3, Places, GoesOne DEF Look, NoLeftover
    <3>2. client = 0 \/ link[client] # "up"
      BY <2>3, <3>1 DEF AloneInv, NoLeftover
    <3> QED
      BY <1>2, <3>1, <3>2, Places
  <2> QED
    BY <2>2, <2>3
<1>7. CASE DogCloses
  <2>1. CASE client = 0
    BY <1>2, <1>7, <2>1 DEF DogCloses, AloneInv, NoLeftover
  <2>2. CASE client # 0
    <3>1. dog' = Forgets
      BY <1>7, <2>2, Places, GoesOne DEF DogCloses, NoLeftover
    <3>2. client' = client /\ link'[client] = "closed"
      BY <1>2, <1>7, <2>2 DEF DogCloses, RelayTypes
    <3> QED
      BY <3>1, <3>2, Places
  <2> QED
    BY <2>1, <2>2
<1>8. CASE DogForgets
  BY <1>8 DEF DogForgets
<1>9. CASE Tick
  <2>1. NoLeftover /\ dog' = Nearer(dog) /\ UNCHANGED <<client, link, receive_ping>>
    BY <1>9, TickKeepsLeftover DEF Tick
  <2>2. dog \notin {Looks, Closes, Forgets}
    BY <1>9 DEF Tick, Waits
  <2>3. CASE dog = NoDog
    BY <2>1, <2>3, NearerPlaces, Places, TimeAssumption DEF AloneInv
  <2>4. ASSUME NEW n \in 1 .. WatchPeriod, dog = Asleep(n)
        PROVE  (dog = NoDog => receive_ping)' /\
               (client # 0 /\ link[client] = "up" => Watched)'
    <3>1. CASE n = 1
      <4>1. dog' = Looks
        BY <2>1, <2>4, <3>1, NearerPlaces
      <4>2. 1 \in 1 .. WatchPeriod - 1
        BY TimeAssumption
      <4>3. ASSUME client # 0, link[client] = "up"
            PROVE  receive_ping
        <5>1. client \notin pinged
          BY <1>2, <1>9, <4>3 DEF Tick, Waits, ReaderInv, Fails
        <5> QED
          BY <2>1, <2>4, <3>1, <4>2, <4>3, <5>1 DEF AloneInv
      <4> QED
        BY <2>1, <4>1, <4>3, Places, TimeAssumption
    <3>2. CASE n # 1
      <4>1. n \in 2 .. WatchPeriod /\ n - 1 \in 1 .. WatchPeriod
        BY <3>2, TimeAssumption
      <4>2. dog' = Asleep(n - 1)
        BY <2>1, <2>4, <4>1, NearerPlaces
      <4>3. dog' \notin {Looks, Closes, Forgets, NoDog}
        BY <4>1, <4>2, Places
      <4>4. ASSUME client # 0, link[client] = "up"
            PROVE  client \in pinged'
        BY <1>2, <1>9, <4>4 DEF Tick, Used
      <4> QED
        BY <2>1, <4>3, <4>4
    <3> QED
      BY <3>1, <3>2
  <2> QED
    BY <2>2, <2>3, <2>4, Places DEF RelayTypes
<1>10. ASSUME NEW c \in Conns, LinkFails(c)
       PROVE  (dog = NoDog => receive_ping)' /\
              (client # 0 /\ link[client] = "up" => Watched)'
  <2>1. NoLeftover /\ UNCHANGED <<dog, client, receive_ping>> /\ pinged' = pinged \ {c}
        /\ link'[c] # "up"
    BY <1>10 DEF LinkFails, NoLeftover, RelayTypes
  <2> QED
    BY <1>2, <2>1 DEF AloneInv
<1>11. CASE ServiceStops
  <2>1. NoLeftover /\ UNCHANGED <<dog, client, receive_ping>>
    BY <1>11 DEF ServiceStops, NoLeftover
  <2>2. \A c \in Conns : link'[c] # "up"
    BY <1>11 DEF ServiceStops, RelayTypes
  <2> QED
    BY <1>2, <2>1, <2>2 DEF AloneInv
<1> QED
  BY <1>3, <1>4, <1>5, <1>6, <1>7, <1>8, <1>9, <1>10, <1>11 DEF Next, Enqueue, WriterTakes,
     WriterCalls, WriterWritten, WriterForgets, ReaderChecks, ReaderDialed, ReaderGreets,
     ReaderCalls, ReadFails, ReaderCloses, ReaderForgets, ServiceStarts, vars, watchVars

LEMMA FailureStep ==
    ASSUME RelayTypes, ReaderInv, AloneInv, BeforeFailure, [Next]_vars, failures' = 0, failures = 0
    PROVE  BeforeFailure'
<1> USE DEF BeforeFailure, linkVars, readerVars, writerVars, dogVars, envVars
<1>1. client # 0 => ~ Fails(client)
  BY DEF Fails
<1>2. /\ dog \notin {Closes, Forgets} /\ (dog = Looks => client # 0 /\ receive_ping)
  BY Places DEF AloneInv, Watched
<1>3. CASE Enqueue \/ ServiceStarts \/ UNCHANGED vars
  BY <1>3 DEF Enqueue, ServiceStarts, vars, NoLeftover
<1>4. CASE WriterTakes \/ WriterCalls \/ WriterForgets
  BY <1>4 DEF WriterTakes, WriterCalls, WriterForgets, NoLeftover
<1>5. CASE WriterWritten
  BY <1>1, <1>5 DEF WriterWritten, NoLeftover
<1>6. CASE ReaderChecks \/ ReaderDialed \/ ReaderGreets \/ ReaderCalls
  BY <1>6 DEF ReaderChecks, ReaderDialed, ReaderGreets, ReaderCalls, NoLeftover
<1>7. CASE Dial
  <2>1. client = 0 /\ dog = NoDog /\ leftover' = leftover /\ UNCHANGED <<writer, writing, crashed>>
    BY <1>7 DEF Dial, ReaderInv
  <2>2. NoLeftover' /\ dog' = NoDog /\ writer' = "take" /\ crashed' \in {"no", "concurrent"}
    BY <1>7, <2>1 DEF Dial, NoLeftover
  <2>3. CASE service
    <3>1. PICK c \in Free : client' = c /\ link' = [link EXCEPT ![c] = "up"]
      BY <1>7, <2>3 DEF Dial
    <3>2. c \in Conns /\ c # 0
      BY DEF Free, Conns
    <3>3. link'[c] = "up"
      BY <3>1, <3>2 DEF RelayTypes
    <3>4. reader' = "dialed"
      BY <1>7, <2>3 DEF Dial
    <3> QED
      BY <2>2, <3>1, <3>2, <3>3, <3>4
  <2>4. CASE ~ service
    BY <1>7, <2>2, <2>4 DEF Dial
  <2> QED
    BY <2>3, <2>4
<1>8. CASE ReaderGreeted \/ ReadPing \/ ReadFails
  <2>1. client # 0 /\ reading = client
    BY <1>8 DEF ReaderGreeted, ReadPing, ReadFails, ReaderInv
  <2> QED
    BY <1>1, <1>8, <2>1 DEF ReaderGreeted, ReadPing, ReadFails, NoLeftover
<1>9. CASE ReaderCloses \/ ReaderForgets
  BY <1>9 DEF ReaderCloses, ReaderForgets
<1>10. CASE Look
  <2>1. dog = Looks /\ leftover' = leftover
    BY <1>10, Places, TimeAssumption, GoesOne DEF Look, NoLeftover
  <2> QED
    BY <1>2, <1>10, <2>1 DEF Look, NoLeftover
<1>11. CASE DogCloses
  BY <1>2, <1>11, Places, GoesOne DEF DogCloses, NoLeftover
<1>12. CASE DogForgets
  BY <1>2, <1>12, Places, GoesOne DEF DogForgets, NoLeftover
<1>13. CASE Tick
  <2>1. NoLeftover' /\ (dog = NoDog => dog' = NoDog)
    BY <1>13, TickKeepsLeftover, NearerPlaces
  <2> QED
    BY <1>13, <2>1 DEF Tick
<1>14. CASE (\E c \in Conns : LinkFails(c)) \/ ServiceStops
  BY <1>14 DEF LinkFails, ServiceStops
<1> QED
  BY <1>3, <1>4, <1>5, <1>6, <1>7, <1>8, <1>9, <1>10, <1>11, <1>12, <1>13, <1>14 DEF Next

LEMMA FailuresGrow == ASSUME RelayTypes, [Next]_vars, failures' = 0 PROVE failures = 0
BY DEF RelayTypes, Next, Enqueue, WriterTakes, WriterCalls, WriterWritten, WriterForgets,
   ReaderChecks, Dial, ReaderDialed, ReaderGreets, ReaderGreeted, ReaderCalls, ReadPing, ReadFails,
   ReaderCloses, ReaderForgets, Look, DogCloses, DogForgets, Tick, LinkFails, ServiceStops,
   ServiceStarts, vars, envVars

-----------------------------------------------------------------------------
LEMMA RelayInvHolds == Spec => []RelayInv
<1>1. Init => RelayInv
  BY Places DEF Init, Quiet, RelayInv, RelayTypes, ReaderInv, AloneInv, BeforeFailure, NoLeftover
<1>2. RelayInv /\ [Next]_vars => RelayInv'
  BY TypesStep, ReaderStep, AloneStep, FailureStep, FailuresGrow DEF RelayInv
<1> QED
  BY <1>1, <1>2, PTL DEF Spec

\* As long as the service and the network do not fail, no goroutine of the
\* relay meets a nil client: the watchdog always finds a ping, so nobody closes
\* the connection.  The period of the watchdog must be longer than that of the
\* pings for this, which TimeAssumption states.
THEOREM CrashOnlyAfterFailureHolds == Spec => []CrashOnlyAfterFailure
<1>1. RelayInv => CrashOnlyAfterFailure
  BY DEF RelayInv, RelayTypes, BeforeFailure, CrashOnlyAfterFailure
<1> QED
  BY <1>1, RelayInvHolds, PTL

\* Whatever fails and however often, a connection that is up is closed only
\* while a watchdog of an earlier connection still runs.
THEOREM LiveClosedOnlyByLeftoverHolds == Spec => LiveClosedOnlyByLeftover
<1> DEFINE Closed == \A c \in Conns : link[c] = "up" /\ link'[c] = "closed"
                        => \E s \in Dogs : leftover[s] > 0
<1>1. RelayInv /\ [Next]_vars => [Closed]_vars
  <2> SUFFICES ASSUME RelayInv, Next, NEW c \in Conns, link[c] = "up", link'[c] = "closed",
                      NoLeftover
               PROVE  FALSE
    BY DEF NoLeftover, RelayInv, RelayTypes
  <2> USE DEF linkVars, readerVars, writerVars, dogVars, envVars
  <2>1. CASE ReaderCloses
    BY <2>1 DEF ReaderCloses, RelayInv, RelayTypes, ReaderInv, Fails
  <2>2. CASE DogCloses
    <3>1. client = c /\ dog = Closes
      BY <2>2, Places, GoesOne DEF DogCloses, RelayInv, RelayTypes, NoLeftover
    <3> QED
      BY <3>1 DEF RelayInv, AloneInv, Watched, Conns
  <2>3. CASE Dial
    BY <2>3 DEF Dial, RelayInv, RelayTypes, Free
  <2>4. CASE (\E d \in Conns : LinkFails(d)) \/ ServiceStops
    BY <2>4 DEF LinkFails, ServiceStops, RelayInv, RelayTypes
  <2>5. CASE UNCHANGED link
    BY <2>5
  <2> QED
    BY <2>1, <2>2, <2>3, <2>4, <2>5 DEF Next, Enqueue, WriterTakes, WriterCalls, WriterWritten,
       WriterForgets, ReaderChecks, ReaderDialed, ReaderGreets, ReaderGreeted, ReaderCalls,
       ReadPing, ReadFails, ReaderForgets, Look, DogForgets, Tick, ServiceStarts
<1> QED
  BY <1>1, RelayInvHolds, PTL DEF Spec, LiveClosedOnlyByLeftover
=============================================================================
