----------------------------- MODULE HidService -----------------------------
(***************************************************************************)
(* server/hid: SocketController.cs with the services it calls.  Each       *)
(* message of a hub's websocket is handled by a task of its own, so tasks  *)
(* overtake each other; a task is here the sequence of the steps it takes  *)
(* on shared state.  Windows and the ViGEm driver are external: they keep  *)
(* the keys that are down and the controllers that are plugged in.         *)
(***************************************************************************)
EXTENDS Naturals, FiniteSets, SequencesExt

CONSTANTS
    Conns,      \* websocket connections, each with its random id
    Pads,       \* gamepad ids a client uses
    Special,    \* keys without a character, among them Control
    Control,
    Chars,      \* keys with a character, among them V; mouse buttons behave so
    V,
    None,       \* no connection
    MaxMessages \* bound: messages received in all

Keys == Special \cup Chars

ASSUME KeysAssumption ==
    /\ Control \in Special /\ V \in Chars /\ Special \cap Chars = {}
    /\ IsFiniteSet(Special)
ASSUME MessagesAssumption == MaxMessages \in Nat /\ None \notin Conns

VARIABLES
    failed,     \* the gamepad driver could not be set up
    peer,       \* the hub at the other end: talks, hangs, or left
    handler,    \* Handle of each connection
    pinged,     \* its flag
    watchdog,   \* its ping watchdog
    list,       \* connectedGamepad: pads of the connection, each with the
                \* message that added it, for a pad may be there twice
    torn,       \* connections whose list was left with a hole, a null
    cleaned,    \* ForEach: the list it started on, and what is left of it; its
                \* order is left out: no call disturbs another
    tasks,      \* the running tasks
    received,   \* how many messages were received
    down,       \* keys Windows holds down
    mode,       \* relativeMouse
    xboxs,      \* the controller registered for a pad of a connection, or 0
    plugged,    \* the connection of each controller that is plugged in, or None
    want,       \* history: keys down had the messages been handled in order
    mixedKeys,  \* history: keys whose last messages were handled at one time
    mixedModes, \* history: moves of both modes were handled at one time
    misread,    \* history: a move was read in the other mode
    joined,     \* history: pads of each connection whose last message was gcon
    mixedPads   \* history: connections where messages about one pad overlapped,
                \* connected it twice, changed the list at one moment, or were
                \* running at the end

connVars == <<peer, handler, pinged, watchdog>>
padVars == <<list, torn, cleaned, xboxs, plugged>>
osVars == <<down, mode>>
keyHistory == <<want, mixedKeys>>
modeHistory == <<mixedModes, misread>>
padHistory == <<joined, mixedPads>>
vars == <<failed, connVars, padVars, tasks, received, osVars,
          keyHistory, modeHistory, padHistory>>

-----------------------------------------------------------------------------
(* Messages, and the steps their tasks take.                               *)

Message ==
    [op : {"kd", "ku"}, arg : Keys]
        \cup [op : {"mma", "mmr", "kr", "cp"}, arg : {Control}]
        \cup [op : {"gcon", "gdis"}, arg : Pads]

Step(do, arg) == [do |-> do, arg |-> arg]

\* SetKeyStatesUp sends a key-up for every special key, one after the other.
KeysUp == LET order == SetToSeq(Special) IN [i \in DOMAIN order |-> Step("up", order[i])]

\* Faulty variant: Control stays down.
PasteHolds == <<Step("down", Control), Step("down", V), Step("up", V)>>

Paste == <<Step("down", Control), Step("down", V), Step("up", V), Step("up", Control)>>

\* Faulty variant: the move does not set its mode.
MoveOnly(to) == <<Step("move", to)>>

Move(to) == <<Step("mode", to), Step("move", to)>>

\* Faulty variant: the pad is connected and not listed.
ConnectUnlisted(pad) == <<Step("plug", pad), Step("register", pad)>>

Connect(pad) == <<Step("plug", pad), Step("register", pad), Step("enlist", pad)>>

Disconnect(pad) == <<Step("disconnect", pad), Step("unlist", pad)>>

HandleKey(m) ==
    CASE m.op = "kd"   -> <<Step("down", m.arg)>>
      [] m.op = "ku"   -> <<Step("up", m.arg)>>
      [] m.op = "kr"   -> KeysUp
      [] m.op = "cp"   -> Paste
      [] m.op = "mmr"  -> Move("relative")
      [] m.op = "mma"  -> Move("absolute")
      [] m.op = "gcon" -> IF failed THEN <<>> ELSE Connect(m.arg)
      [] m.op = "gdis" -> IF failed THEN <<>> ELSE Disconnect(m.arg)

\* What a program is about.
KeysOf(prog) == {s.arg : s \in {r \in ToSet(prog) : r.do \in {"down", "up"}}}
ModesOf(prog) == {s.arg : s \in {r \in ToSet(prog) : r.do = "move"}}
PadsOf(prog) == {s.arg : s \in {r \in ToSet(prog) : r.do \notin {"down", "up", "mode", "move"}}}

-----------------------------------------------------------------------------
Init ==
    /\ failed \in BOOLEAN
    /\ peer = [c \in Conns |-> "talks"]
    /\ handler = [c \in Conns |-> "receives"]
    /\ pinged = [c \in Conns |-> TRUE]
    /\ watchdog = [c \in Conns |-> "sleeps"]
    /\ list = [c \in Conns |-> {}] /\ torn = {}
    /\ cleaned = [c \in Conns |-> [of |-> {}, left |-> {}]]
    /\ tasks = {} /\ received = 0
    /\ down = {} /\ mode = "absolute"
    /\ xboxs = [c \in Conns |-> [p \in Pads |-> 0]]
    /\ plugged = [n \in 1 .. MaxMessages |-> None]
    /\ want = {} /\ mixedKeys = {}
    /\ mixedModes = FALSE /\ misread = FALSE
    /\ joined = [c \in Conns |-> {}] /\ mixedPads = {}

-----------------------------------------------------------------------------
(* Receiving.                                                              *)

\* The keys down if the messages were handled in the order received.
KeysAfter(m) ==
    CASE m.op = "kd" -> want \cup {m.arg}
      [] m.op = "ku" -> want \ {m.arg}
      [] m.op = "kr" -> want \ Special
      [] m.op = "cp" -> want \ {Control, V}
      [] OTHER -> want

\* What the histories note of message m of connection c.
NoteKeys(m) ==
    LET busy == UNION {KeysOf(t.rest) : t \in tasks}
        keys == KeysOf(HandleKey(m))
    IN
    /\ want' = KeysAfter(m)
    /\ mixedKeys' = (mixedKeys \ keys) \cup (busy \cap keys)

NoteModes(m) ==
    LET busy == UNION {ModesOf(t.rest) : t \in tasks}
        modes == ModesOf(HandleKey(m))
    IN mixedModes' = (mixedModes \/ (modes # {} /\ busy \ modes # {}))

NotePads(c, m) ==
    LET busy == UNION {PadsOf(t.rest) : t \in {u \in tasks : u.conn = c}} IN
    /\ joined' = [joined EXCEPT ![c] = CASE m.op = "gcon" -> @ \cup {m.arg}
                                         [] m.op = "gdis" -> @ \ {m.arg}
                                         [] OTHER -> @]
    /\ mixedPads' = IF \/ busy \cap PadsOf(HandleKey(m)) # {}
                       \/ m.op = "gcon" /\ m.arg \in joined[c]
                    THEN mixedPads \cup {c} ELSE mixedPads

\* Handle starts a task for a message and goes on receiving.
Receive(c, m) ==
    /\ handler[c] = "receives" /\ peer[c] = "talks" /\ received < MaxMessages
    /\ received' = received + 1
    /\ tasks' = IF HandleKey(m) = <<>> THEN tasks
                ELSE tasks \cup {[conn |-> c, n |-> received', rest |-> HandleKey(m)]}
    /\ NoteKeys(m) /\ NoteModes(m) /\ NotePads(c, m)
    /\ UNCHANGED <<failed, connVars, padVars, osVars, misread>>

\* A ping sets the flag; setting it again changes nothing.
ReceivePing(c) ==
    /\ handler[c] = "receives" /\ peer[c] = "talks" /\ ~ pinged[c]
    /\ pinged' = [pinged EXCEPT ![c] = TRUE]
    /\ UNCHANGED <<failed, peer, handler, watchdog, padVars, tasks, received, osVars,
                   keyHistory, modeHistory, padHistory>>

\* The receive loop ends with the websocket.
ReceiveEnds(c) ==
    /\ handler[c] = "receives" /\ peer[c] = "left"
    /\ handler' = [handler EXCEPT ![c] = "cleans"]
    /\ cleaned' = [cleaned EXCEPT ![c] = [of |-> list[c], left |-> list[c]]]
    /\ mixedPads' = IF \E t \in tasks : t.conn = c /\ PadsOf(t.rest) # {}
                    THEN mixedPads \cup {c} ELSE mixedPads
    /\ UNCHANGED <<failed, peer, pinged, watchdog, list, torn, xboxs, plugged, tasks,
                   received, osVars, keyHistory, modeHistory, joined>>

\* After three seconds the watchdog looks, and stops when it finds a ping, as
\* the flag set at the start.  Without one it would ask for a close with a
\* description and no status, which .NET refuses, and the exception ends it.
WatchdogLooks(c) ==
    /\ watchdog[c] = "sleeps" /\ handler[c] = "receives"
    /\ watchdog' = [watchdog EXCEPT ![c] = "ended"]
    /\ pinged' = [pinged EXCEPT ![c] = FALSE]
    /\ UNCHANGED <<failed, peer, handler, padVars, tasks, received, osVars,
                   keyHistory, modeHistory, padHistory>>

-----------------------------------------------------------------------------
(* The end of Handle: every listed pad is disconnected.                    *)

DisConnect(c, p) ==
    /\ xboxs' = [xboxs EXCEPT ![c][p] = 0]
    /\ plugged' = IF xboxs[c][p] = 0 THEN plugged ELSE [plugged EXCEPT ![xboxs[c][p]] = None]

Clean(c) ==
    /\ handler[c] = "cleans" /\ list[c] = cleaned[c].of
    /\ \E e \in cleaned[c].left :
        /\ DisConnect(c, e.pad)
        /\ cleaned' = [cleaned EXCEPT ![c].left = @ \ {e}]
    /\ UNCHANGED <<failed, connVars, list, torn, tasks, received, osVars,
                   keyHistory, modeHistory, padHistory>>

\* ForEach is through, or it throws: a task changed the list under it, or it
\* came to a hole.
Cleaned(c) ==
    /\ handler[c] = "cleans"
    /\ list[c] # cleaned[c].of \/ c \in torn \/ cleaned[c].left = {}
    /\ handler' = [handler EXCEPT ![c] = "done"]
    /\ UNCHANGED <<failed, peer, pinged, watchdog, padVars, tasks, received, osVars,
                   keyHistory, modeHistory, padHistory>>

-----------------------------------------------------------------------------
(* A task takes its next step.                                             *)

Rest(t) == LET left == Tail(t.rest)
           IN (tasks \ {t}) \cup (IF left = <<>> THEN {} ELSE {[t EXCEPT !.rest = left]})

KeyStep(s) ==
    /\ s.do \in {"down", "up"}
    /\ down' = IF s.do = "down" THEN down \cup {s.arg} ELSE down \ {s.arg}
    /\ UNCHANGED <<mode, padVars, misread>>

MoveStep(s) ==
    /\ \/ s.do = "mode" /\ mode' = s.arg /\ UNCHANGED misread
       \/ s.do = "move" /\ misread' = (misread \/ mode # s.arg) /\ UNCHANGED mode
    /\ UNCHANGED <<down, padVars>>

\* TryAdd keeps the controller that is registered.
PadStep(t, s) ==
    LET c == t.conn IN
    /\ \/ /\ s.do = "plug"
          /\ plugged' = [plugged EXCEPT ![t.n] = c]
          /\ UNCHANGED <<list, xboxs>>
       \/ /\ s.do = "register"
          /\ xboxs' = IF xboxs[c][s.arg] = 0 THEN [xboxs EXCEPT ![c][s.arg] = t.n] ELSE xboxs
          /\ UNCHANGED <<list, plugged>>
       \/ /\ s.do = "enlist"
          /\ list' = [list EXCEPT ![c] = @ \cup {[pad |-> s.arg, n |-> t.n]}]
          /\ UNCHANGED <<xboxs, plugged>>
       \/ /\ s.do = "disconnect"
          /\ DisConnect(c, s.arg)
          /\ UNCHANGED list
       \/ /\ s.do = "unlist"
          /\ list' = [list EXCEPT ![c] = {e \in @ : e.pad # s.arg}]
          /\ UNCHANGED <<xboxs, plugged>>
    /\ UNCHANGED <<torn, cleaned, osVars, misread>>

TaskStep(t) ==
    /\ tasks' = Rest(t)
    /\ LET s == Head(t.rest) IN KeyStep(s) \/ MoveStep(s) \/ PadStep(t, s)
    /\ UNCHANGED <<failed, connVars, received, keyHistory, mixedModes, padHistory>>

OnList(c) == {t \in tasks : t.conn = c /\ Head(t.rest).do \in {"enlist", "unlist"}}

\* The list is not synchronised.  Tasks that change it at one moment, each with
\* its last step, may leave out what they add, lose or keep any other entry,
\* and leave a hole.
ListRace(c) ==
    \E raced \in SUBSET OnList(c) :
        LET added == {[pad |-> Head(t.rest).arg, n |-> t.n] :
                          t \in {u \in raced : Head(u.rest).do = "enlist"}}
        IN
        /\ \E t, u \in raced : t # u
        /\ \E kept \in SUBSET (list[c] \cup added) : list' = [list EXCEPT ![c] = kept]
        /\ tasks' = tasks \ raced
        /\ torn' \in {torn, torn \cup {c}}
        /\ mixedPads' = mixedPads \cup {c}
        /\ UNCHANGED <<failed, connVars, cleaned, xboxs, plugged, received, osVars,
                       keyHistory, modeHistory, joined>>

-----------------------------------------------------------------------------
(* The hub at the other end.                                               *)

PeerLeaves(c) ==
    /\ peer[c] = "talks"
    /\ peer' = [peer EXCEPT ![c] = "left"]
    /\ UNCHANGED <<failed, handler, pinged, watchdog, padVars, tasks, received, osVars,
                   keyHistory, modeHistory, padHistory>>

PeerHangs(c) ==
    /\ peer[c] = "talks"
    /\ peer' = [peer EXCEPT ![c] = "hangs"]
    /\ UNCHANGED <<failed, handler, pinged, watchdog, padVars, tasks, received, osVars,
                   keyHistory, modeHistory, padHistory>>

-----------------------------------------------------------------------------
Handle(c) == ReceiveEnds(c) \/ WatchdogLooks(c) \/ Clean(c) \/ Cleaned(c)

Next ==
    \/ \E c \in Conns :
        \/ \E m \in Message : Receive(c, m)
        \/ ReceivePing(c) \/ ReceiveEnds(c) \/ WatchdogLooks(c) \/ Clean(c) \/ Cleaned(c)
        \/ PeerLeaves(c) \/ PeerHangs(c) \/ ListRace(c)
    \/ \E t \in tasks : TaskStep(t)

Spec == Init /\ [][Next]_vars

\* The thread pool runs every task and every loop.
Fairness ==
    /\ \A c \in Conns : WF_vars(Handle(c))
    /\ WF_vars(\E t \in tasks : TaskStep(t))

FairSpec == Spec /\ Fairness

-----------------------------------------------------------------------------

\* When all tasks are through, a key is down as the messages in their order
\* say, unless messages about it were handled at one time.
KeysFollowMessages ==
    tasks = {} => \A k \in Keys \ mixedKeys : (k \in down) = (k \in want)

\* A move is read in the other mode only if moves of both modes met, from
\* whichever connections: the flag is shared.
ModeReadAsSent == misread => mixedModes

\* When a connection is over, none of its controllers stays plugged in, unless
\* messages about one pad overlapped or repeated a connect, messages about any
\* pads changed the list at one moment, or one was running at the end.
PadsReleased ==
    \A c \in Conns \ mixedPads :
        handler[c] = "done" => \A n \in DOMAIN plugged : plugged[n] # c

\* "ping timeout": a hub that has hung is disconnected, so its pads are freed.
HungPeerClosed ==
    \A c \in Conns : (peer[c] = "hangs") ~> (handler[c] # "receives")
=============================================================================
