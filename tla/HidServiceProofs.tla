--------------------------- MODULE HidServiceProofs ---------------------------
(***************************************************************************)
(* Theorems about HidService for every set of connections, keys and pads   *)
(* and every number of messages.                                           *)
(***************************************************************************)
EXTENDS HidService, FiniteSetTheorems, TLAPS

Steps ==
    [do : {"down", "up"}, arg : Keys]
        \cup [do : {"mode", "move"}, arg : {"relative", "absolute"}]
        \cup [do : {"plug", "register", "enlist", "disconnect", "unlist"}, arg : Pads]

\* A task has something left to do, and is known by its message.
TaskInv ==
    /\ received \in 0 .. MaxMessages
    /\ tasks \subseteq [conn : Conns, n : 1 .. received, rest : Seq(Steps) \ {<<>>}]
    /\ \A t, u \in tasks : t.n = u.n => t = u

-----------------------------------------------------------------------------
(* Keys.                                                                   *)

\* The last step of prog about key k is s.
LastStep(prog, k, s) ==
    \E i \in DOMAIN prog :
        /\ prog[i] = s
        /\ \A j \in DOMAIN prog : j > i => ~ (prog[j].do \in {"down", "up"} /\ prog[j].arg = k)

Wanted(k) == Step(IF k \in want THEN "down" ELSE "up", k)

\* A key that is not mixed is the business of one task at most, which leaves
\* it as the messages want it; else it is so already.
KeyInv ==
    \A k \in Keys \ mixedKeys :
        /\ \A t, u \in tasks : k \in KeysOf(t.rest) \cap KeysOf(u.rest) => t = u
        /\ \A t \in tasks : k \in KeysOf(t.rest) => LastStep(t.rest, k, Wanted(k))
        /\ (\A t \in tasks : k \notin KeysOf(t.rest)) => (k \in down <=> k \in want)

-----------------------------------------------------------------------------
(* The mode.                                                               *)

\* What tasks that move have left.
MovesLast(prog) ==
    \/ \E to \in {"relative", "absolute"} : prog = Move(to) \/ prog = <<Step("move", to)>>
    \/ \A i \in DOMAIN prog : prog[i].do \notin {"mode", "move"}

\* While all moves are of one mode, one that has set it finds it.
ModeInv ==
    /\ \A t \in tasks : MovesLast(t.rest)
    /\ ~ mixedModes =>
        /\ ~ misread
        /\ \A t, u \in tasks : \A a \in ModesOf(t.rest), b \in ModesOf(u.rest) : a = b
        /\ \A t \in tasks : Head(t.rest).do = "move" => mode = Head(t.rest).arg

-----------------------------------------------------------------------------
(* Gamepads.                                                               *)

Registering(p) == <<Step("register", p), Step("enlist", p)>>
Enlisting(p) == <<Step("enlist", p)>>
Unlisting(p) == <<Step("unlist", p)>>

PadPrograms(p) == {Connect(p), Registering(p), Enlisting(p), Disconnect(p), Unlisting(p)}

\* Connection c has a task with prog left.
Doing(c, prog) == \E t \in tasks : t.conn = c /\ t.rest = prog

Entries == [pad : Pads, n : Nat]

PadTypes ==
    /\ handler \in [Conns -> {"receives", "cleans", "done"}]
    /\ xboxs \in [Conns -> [Pads -> 0 .. MaxMessages]]
    /\ plugged \in [1 .. MaxMessages -> Conns \cup {None}]
    /\ list \in [Conns -> SUBSET Entries]
    /\ cleaned \in [Conns -> [of : SUBSET Entries, left : SUBSET Entries]]
    /\ joined \in [Conns -> SUBSET Pads]

\* What tasks about pads have left; without the driver there are none.
PadTasks ==
    /\ \A t \in tasks : \A p \in PadsOf(t.rest) : t.rest \in PadPrograms(p)
    /\ failed => /\ \A t \in tasks : PadsOf(t.rest) = {}
                 /\ \A c \in Conns, p \in Pads : xboxs[c][p] = 0

Listed(c, p) == \E e \in list[c] : e.pad = p

\* One task of the connection at a time is about a pad.
OneTask(c) ==
    \A t, u \in tasks : t.conn = c /\ u.conn = c /\ PadsOf(t.rest) \cap PadsOf(u.rest) # {} => t = u

\* A controller that is plugged in is registered, or about to be.
Registers(c, n) == \E t \in tasks, p \in Pads : t.conn = c /\ t.n = n /\ t.rest = Registering(p)

Owned(c) ==
    \A n \in 1 .. MaxMessages :
        plugged[n] = c => (\E p \in Pads : xboxs[c][p] = n) \/ Registers(c, n)

\* A registered controller is listed, or about to be, and its pad has joined,
\* or is about to be disconnected; a pad being connected or unlisted has none.
Tidy(c, p) ==
    /\ xboxs[c][p] # 0 => /\ Listed(c, p) \/ Doing(c, Enlisting(p))
                          /\ p \in joined[c] \/ Doing(c, Disconnect(p))
    /\ Doing(c, Connect(p)) \/ Doing(c, Registering(p)) => p \in joined[c] /\ xboxs[c][p] = 0
    /\ Doing(c, Unlisting(p)) => xboxs[c][p] = 0

\* Once the connection ends its controllers are all among what ForEach has left.
Freeing(c) ==
    /\ handler[c] # "receives" => \A t \in tasks : t.conn = c => PadsOf(t.rest) = {}
    /\ handler[c] = "cleans" =>
        /\ list[c] = cleaned[c].of
        /\ \A p \in Pads : xboxs[c][p] # 0 => \E e \in cleaned[c].left : e.pad = p
    /\ handler[c] = "done" => \A p \in Pads : xboxs[c][p] = 0

InOrder(c) == OneTask(c) /\ Owned(c) /\ Freeing(c) /\ \A p \in Pads : Tidy(c, p)

\* Only a list that tasks changed at one moment has a hole.
PadInv ==
    /\ PadTypes /\ PadTasks /\ torn \subseteq mixedPads
    /\ \A c \in Conns \ mixedPads : InOrder(c)

ServiceInv == TaskInv /\ KeyInv /\ ModeInv /\ PadInv
-----------------------------------------------------------------------------
(* Programs, and what is left of them.                                     *)

\* SetToSeq lists every element once.
LEMMA SetToSeqLists ==
    ASSUME NEW S, IsFiniteSet(S)
    PROVE  /\ SetToSeq(S) \in Seq(S)
           /\ \A s \in S : \E i \in DOMAIN SetToSeq(S) : SetToSeq(S)[i] = s
           /\ \A i, j \in DOMAIN SetToSeq(S) : SetToSeq(S)[i] = SetToSeq(S)[j] => i = j
<1> DEFINE n == Cardinality(S)
           f == SetToSeq(S)
<1>1. n \in Nat /\ ExistsBijection(1 .. n, S)
  BY FS_CardinalityType
<1>2. \E g \in [1 .. n -> S] : IsInjective(g)
  BY <1>1 DEF ExistsBijection, Bijection, Injection, IsInjective
<1>3. f \in [1 .. n -> S] /\ IsInjective(f)
  BY <1>2 DEF SetToSeq
<1>4. f \in Injection(1 .. n, S)
  BY <1>3 DEF Injection, IsInjective
<1>5. Cardinality(1 .. n) = n
  BY <1>1, FS_Interval
<1>6. f \in Surjection(1 .. n, S)
  BY <1>4, <1>5, FS_Injection
<1> QED
  BY <1>1, <1>3, <1>6 DEF Surjection, IsInjective

LEMMA StepFields == \A do, arg : Step(do, arg).do = do /\ Step(do, arg).arg = arg
BY DEF Step

LEMMA AboutKeys ==
    ASSUME NEW prog \in Seq(Steps), NEW a
    PROVE  a \in KeysOf(prog) <=>
             \E i \in DOMAIN prog : prog[i].do \in {"down", "up"} /\ prog[i].arg = a
BY DEF KeysOf, ToSet

LEMMA AboutModes ==
    ASSUME NEW prog \in Seq(Steps), NEW a
    PROVE  a \in ModesOf(prog) <=> \E i \in DOMAIN prog : prog[i].do = "move" /\ prog[i].arg = a
BY DEF ModesOf, ToSet

LEMMA AboutPads ==
    ASSUME NEW prog \in Seq(Steps), NEW a
    PROVE  a \in PadsOf(prog) <=>
             \E i \in DOMAIN prog :
                prog[i].do \notin {"down", "up", "mode", "move"} /\ prog[i].arg = a
BY DEF PadsOf, ToSet

LEMMA TailOf ==
    ASSUME NEW prog \in Seq(Steps), prog # <<>>
    PROVE  /\ Tail(prog) \in Seq(Steps) /\ Head(prog) = prog[1] /\ 1 \in DOMAIN prog
           /\ Head(prog) \in Steps
           /\ DOMAIN Tail(prog) = 1 .. Len(prog) - 1 /\ DOMAIN prog = 1 .. Len(prog)
           /\ Len(prog) \in Nat
           /\ \A i \in DOMAIN Tail(prog) : i + 1 \in DOMAIN prog /\ Tail(prog)[i] = prog[i + 1]
           /\ \A i \in DOMAIN prog : i # 1 => i - 1 \in DOMAIN Tail(prog) /\ Tail(prog)[i - 1] = prog[i]
OBVIOUS

\* Tail says nothing new, and leaves out what Head alone says.
LEMMA TailAbout ==
    ASSUME NEW prog \in Seq(Steps), prog # <<>>
    PROVE  /\ KeysOf(Tail(prog)) \subseteq KeysOf(prog)
           /\ ModesOf(Tail(prog)) \subseteq ModesOf(prog)
           /\ PadsOf(Tail(prog)) \subseteq PadsOf(prog)
           /\ Head(prog).do \in {"down", "up"} => Head(prog).arg \in KeysOf(prog)
           /\ Head(prog).do = "move" => Head(prog).arg \in ModesOf(prog)
           /\ Head(prog).do \notin {"down", "up", "mode", "move"} => Head(prog).arg \in PadsOf(prog)
<1>1. Tail(prog) \in Seq(Steps) /\ Head(prog) = prog[1] /\ 1 \in DOMAIN prog
  BY TailOf
<1>2. \A i \in DOMAIN Tail(prog) : i + 1 \in DOMAIN prog /\ Tail(prog)[i] = prog[i + 1]
  BY TailOf
<1>3. ASSUME NEW a \in KeysOf(Tail(prog)) PROVE a \in KeysOf(prog)
  <2>1. PICK i \in DOMAIN Tail(prog) : Tail(prog)[i].do \in {"down", "up"} /\ Tail(prog)[i].arg = a
    BY <1>1, <1>3, AboutKeys
  <2>2. i + 1 \in DOMAIN prog /\ prog[i + 1] = Tail(prog)[i]
    BY <1>2
  <2> QED
    BY <2>1, <2>2, AboutKeys
<1>4. ASSUME NEW a \in ModesOf(Tail(prog)) PROVE a \in ModesOf(prog)
  <2>1. PICK i \in DOMAIN Tail(prog) : Tail(prog)[i].do = "move" /\ Tail(prog)[i].arg = a
    BY <1>1, <1>4, AboutModes
  <2>2. i + 1 \in DOMAIN prog /\ prog[i + 1] = Tail(prog)[i]
    BY <1>2
  <2> QED
    BY <2>1, <2>2, AboutModes
<1>5. ASSUME NEW a \in PadsOf(Tail(prog)) PROVE a \in PadsOf(prog)
  <2>1. PICK i \in DOMAIN Tail(prog) : Tail(prog)[i].do \notin {"down", "up", "mode", "move"} /\ Tail(prog)[i].arg = a
    BY <1>1, <1>5, AboutPads
  <2>2. i + 1 \in DOMAIN prog /\ prog[i + 1] = Tail(prog)[i]
    BY <1>2
  <2> QED
    BY <2>1, <2>2, AboutPads
<1>6. Head(prog).do \in {"down", "up"} => Head(prog).arg \in KeysOf(prog)
  BY <1>1, AboutKeys
<1>7. Head(prog).do = "move" => Head(prog).arg \in ModesOf(prog)
  BY <1>1, AboutModes
<1>8. Head(prog).do \notin {"down", "up", "mode", "move"} => Head(prog).arg \in PadsOf(prog)
  BY <1>1, AboutPads
<1> QED
  BY <1>3, <1>4, <1>5, <1>6, <1>7, <1>8

After(t) == [t EXCEPT !.rest = Tail(@)]

\* A step leaves the other tasks alone.
LEMMA StepTasks ==
    ASSUME TaskInv, NEW t \in tasks, TaskStep(t)
    PROVE  /\ t.rest \in Seq(Steps) /\ t.rest # <<>> /\ t.conn \in Conns /\ t.n \in 1 .. MaxMessages
           /\ After(t).conn = t.conn /\ After(t).n = t.n /\ After(t).rest = Tail(t.rest)
           /\ \A u \in tasks' : u # After(t) => u \in tasks /\ u # t
           /\ After(t) \in tasks' <=> Tail(t.rest) # <<>>
           /\ \A u \in tasks : u # t => u \in tasks'
           /\ TaskInv'
<1>1. /\ t \in [conn : Conns, n : 1 .. received, rest : Seq(Steps) \ {<<>>}]
      /\ received' = received /\ received \in 0 .. MaxMessages
  BY DEF TaskInv, TaskStep
<1>2. Tail(t.rest) \in Seq(Steps)
  BY <1>1
<1>3. After(t) = [conn |-> t.conn, n |-> t.n, rest |-> Tail(t.rest)]
  BY <1>1 DEF After
<1>4. tasks' = (tasks \ {t}) \cup (IF Tail(t.rest) = <<>> THEN {} ELSE {After(t)})
  BY <1>1, <1>3 DEF TaskStep, Rest, After
<1>5. After(t) \notin tasks
  <2>1. SUFFICES ASSUME After(t) \in tasks PROVE FALSE
    OBVIOUS
  <2>2. After(t) = t
    BY <1>3, <2>1 DEF TaskInv
  <2>3. Len(Tail(t.rest)) = Len(t.rest) - 1 /\ Len(t.rest) \in Nat
    BY <1>1
  <2> QED
    BY <1>3, <2>2, <2>3
<1>6. TaskInv'
  <2>1. ASSUME Tail(t.rest) # <<>>
        PROVE  After(t) \in [conn : Conns, n : 1 .. received, rest : Seq(Steps) \ {<<>>}]
    BY <1>1, <1>2, <1>3, <2>1
  <2>2. After(t).n = t.n
    BY <1>3
  <2>3. \A u, v \in tasks' : u.n = v.n => u = v
    BY <1>4, <2>2 DEF TaskInv
  <2> QED
    BY <1>1, <1>4, <2>1, <2>3 DEF TaskInv
<1>7. t.n \in 1 .. MaxMessages
  BY <1>1, MessagesAssumption
<1> QED
  BY <1>1, <1>3, <1>4, <1>5, <1>6, <1>7

LEMMA KeysUpAll ==
    /\ KeysUp \in Seq(Steps)
    /\ \A i \in DOMAIN KeysUp : KeysUp[i].do = "up" /\ KeysUp[i].arg \in Special
    /\ \A k \in Special : \E i \in DOMAIN KeysUp :
         KeysUp[i] = Step("up", k) /\ \A j \in DOMAIN KeysUp : KeysUp[j].arg = k => i = j
<1> DEFINE order == SetToSeq(Special)
<1>1. /\ order \in Seq(Special) /\ \A k \in Special : \E i \in DOMAIN order : order[i] = k
      /\ \A i, j \in DOMAIN order : order[i] = order[j] => i = j
  BY SetToSeqLists, KeysAssumption
<1>2. /\ KeysUp = [i \in 1 .. Len(order) |-> Step("up", order[i])]
      /\ DOMAIN order = 1 .. Len(order) /\ Len(order) \in Nat
      /\ \A i \in 1 .. Len(order) : order[i] \in Special
  BY <1>1 DEF KeysUp
<1> HIDE DEF order
<1>3. \A k \in Special : Step("up", k) \in Steps
  BY DEF Step, Steps, Keys
<1>4. KeysUp \in Seq(Steps)
  BY <1>2, <1>3
<1>5. \A i \in DOMAIN KeysUp : KeysUp[i].do = "up" /\ KeysUp[i].arg \in Special
  BY <1>2 DEF Step
<1>6. \A k \in Special : \E i \in DOMAIN KeysUp :
        KeysUp[i] = Step("up", k) /\ \A j \in DOMAIN KeysUp : KeysUp[j].arg = k => i = j
  <2>1. SUFFICES ASSUME NEW k \in Special
        PROVE  \E i \in DOMAIN KeysUp :
                 KeysUp[i] = Step("up", k) /\ \A j \in DOMAIN KeysUp : KeysUp[j].arg = k => i = j
    OBVIOUS
  <2>2. PICK i \in DOMAIN order : order[i] = k
    BY <1>1
  <2>3. \A j \in DOMAIN KeysUp : KeysUp[j].arg = order[j]
    BY <1>2 DEF Step
  <2> QED
    BY <1>1, <1>2, <2>2, <2>3
<1> QED
  BY <1>4, <1>5, <1>6

\* The program of each message.
LEMMA Programs ==
    ASSUME NEW m \in Message
    PROVE  /\ HandleKey(m) \in Seq(Steps)
           /\ \/ m.op = "kd" /\ m.arg \in Keys /\ HandleKey(m) = <<Step("down", m.arg)>>
              \/ m.op = "ku" /\ m.arg \in Keys /\ HandleKey(m) = <<Step("up", m.arg)>>
              \/ m.op = "kr" /\ HandleKey(m) = KeysUp
              \/ m.op = "cp" /\ HandleKey(m) = Paste
              \/ m.op = "mmr" /\ HandleKey(m) = Move("relative")
              \/ m.op = "mma" /\ HandleKey(m) = Move("absolute")
              \/ m.op \in {"gcon", "gdis"} /\ failed /\ HandleKey(m) = <<>>
              \/ m.op = "gcon" /\ m.arg \in Pads /\ ~ failed /\ HandleKey(m) = Connect(m.arg)
              \/ m.op = "gdis" /\ m.arg \in Pads /\ ~ failed /\ HandleKey(m) = Disconnect(m.arg)
<1>1. CASE m.op \in {"kd", "ku"}
  <2>1. m.arg \in Keys
    BY <1>1 DEF Message
  <2>2. \A do \in {"down", "up"} : Step(do, m.arg) \in Steps
    BY <2>1 DEF Step, Steps
  <2> QED
    BY <1>1, <2>1, <2>2 DEF HandleKey
<1>2. CASE m.op = "kr"
  BY <1>2, KeysUpAll DEF HandleKey
<1>3. CASE m.op = "cp"
  <2>1. \A do \in {"down", "up"} : Step(do, Control) \in Steps /\ Step(do, V) \in Steps
    BY KeysAssumption DEF Step, Steps, Keys
  <2>2. Paste \in Seq(Steps)
    BY <2>1 DEF Paste
  <2> QED
    BY <1>3, <2>2 DEF HandleKey
<1>4. CASE m.op \in {"mmr", "mma"}
  <2>1. \A to \in {"relative", "absolute"} : Step("mode", to) \in Steps /\ Step("move", to) \in Steps
    BY DEF Step, Steps
  <2>2. \A to \in {"relative", "absolute"} : Move(to) \in Seq(Steps)
    BY <2>1 DEF Move
  <2> QED
    BY <1>4, <2>2 DEF HandleKey
<1>5. CASE m.op \in {"gcon", "gdis"}
  <2>1. m.arg \in Pads
    BY <1>5 DEF Message
  <2>2. \A do \in {"plug", "register", "enlist", "disconnect", "unlist"} : Step(do, m.arg) \in Steps
    BY <2>1 DEF Step, Steps
  <2>3. Connect(m.arg) \in Seq(Steps) /\ Disconnect(m.arg) \in Seq(Steps)
    BY <2>2 DEF Connect, Disconnect
  <2>4. <<>> \in Seq(Steps)
    OBVIOUS
  <2> QED
    BY <1>5, <2>1, <2>3, <2>4 DEF HandleKey
<1>6. m.op \in {"kd", "ku", "mma", "mmr", "kr", "cp", "gcon", "gdis"}
  BY DEF Message
<1> QED
  BY <1>1, <1>2, <1>3, <1>4, <1>5, <1>6

\* Receive adds a task with a number of its own, or none.
LEMMA ReceiveTasks ==
    ASSUME TaskInv, NEW c \in Conns, NEW m \in Message, Receive(c, m),
           NEW new, new = [conn |-> c, n |-> received + 1, rest |-> HandleKey(m)]
    PROVE  /\ TaskInv'
           /\ tasks \subseteq tasks'
           /\ \A u \in tasks' : u \in tasks \/ u = new
           /\ HandleKey(m) # <<>> <=> new \in tasks'
           /\ new \notin tasks
           /\ \A u \in tasks : u.n # new.n /\ u.rest \in Seq(Steps)
           /\ new.conn = c /\ new.rest = HandleKey(m) /\ new.rest \in Seq(Steps)
<1>1. /\ received \in 0 .. MaxMessages /\ received < MaxMessages /\ received' = received + 1
      /\ tasks' = tasks \cup (IF HandleKey(m) = <<>> THEN {} ELSE {new})
  BY DEF TaskInv, Receive
<1>2. HandleKey(m) \in Seq(Steps)
  BY Programs
<1>3. received' \in 0 .. MaxMessages /\ 1 .. received \subseteq 1 .. received' /\ received' \in 1 .. received'
  BY <1>1, MessagesAssumption
<1>4. \A u \in tasks : u.n \in 1 .. received /\ u.rest \in Seq(Steps)
  BY DEF TaskInv
<1>5. \A u \in tasks : u.n # new.n
  BY <1>1, <1>4
<1>6. HandleKey(m) # <<>> => new \in [conn : Conns, n : 1 .. received', rest : Seq(Steps) \ {<<>>}]
  BY <1>1, <1>2, <1>3
<1>7. tasks' \subseteq [conn : Conns, n : 1 .. received', rest : Seq(Steps) \ {<<>>}]
  BY <1>1, <1>3, <1>6 DEF TaskInv
<1>8. \A u, v \in tasks' : u.n = v.n => u = v
  BY <1>1, <1>5 DEF TaskInv
<1> QED
  BY <1>1, <1>2, <1>3, <1>4, <1>5, <1>7, <1>8 DEF TaskInv

-----------------------------------------------------------------------------
(* Keys follow their messages.                                             *)

\* The last step that is about k, if any, says what the messages say.
LEMMA KeyPrograms ==
    ASSUME NEW c \in Conns, NEW m \in Message, Receive(c, m), NEW k \in Keys
    PROVE  IF k \in KeysOf(HandleKey(m))
           THEN LastStep(HandleKey(m), k, Wanted(k)')
           ELSE k \in want' <=> k \in want
<1> DEFINE prog == HandleKey(m)
<1> SUFFICES IF k \in KeysOf(prog)
             THEN LastStep(prog, k, IF k \in want' THEN Step("down", k) ELSE Step("up", k))
             ELSE k \in want' <=> k \in want
  BY DEF Wanted
<1>1. prog \in Seq(Steps) /\ want' = KeysAfter(m)
  BY Programs DEF Receive, NoteKeys
<1>2. CASE m.op = "kd" \/ m.op = "ku"
  <2>1. PICK do \in {"down", "up"} : prog = <<Step(do, m.arg)>> /\ (do = "down" <=> m.op = "kd")
    BY <1>2, Programs
  <2>2. k \in KeysOf(prog) <=> k = m.arg
    BY <2>1 DEF Step, KeysOf, ToSet
  <2>3. want' = IF do = "down" THEN want \cup {m.arg} ELSE want \ {m.arg}
    BY <1>1, <1>2, <2>1 DEF KeysAfter
  <2> QED
    BY <2>1, <2>2, <2>3 DEF LastStep
<1>3. CASE m.op = "kr"
  <2>1. prog = KeysUp /\ want' = want \ Special
    BY <1>1, <1>3, Programs DEF KeysAfter
  <2>2. k \in KeysOf(prog) <=> k \in Special
    BY <1>1, <2>1, AboutKeys, KeysUpAll DEF Step
  <2>3. ASSUME k \in Special PROVE LastStep(prog, k, Step("up", k))
    <3>1. PICK i \in DOMAIN KeysUp :
            KeysUp[i] = Step("up", k) /\ \A j \in DOMAIN KeysUp : KeysUp[j].arg = k => i = j
      BY <2>3, KeysUpAll
    <3>2. \A j \in DOMAIN KeysUp : ~ (j > i /\ i = j)
      BY KeysUpAll
    <3> QED
      BY <2>1, <3>1, <3>2 DEF LastStep
  <2> QED
    BY <2>1, <2>2, <2>3
<1>4. CASE m.op = "cp"
  <2>1. prog = Paste /\ want' = want \ {Control, V} /\ Control # V
    BY <1>1, <1>4, Programs, KeysAssumption DEF KeysAfter
  <2>2. k \in KeysOf(prog) <=> k \in {Control, V}
    BY <2>1 DEF Step, Paste, KeysOf, ToSet
  <2>3. k = Control => LastStep(prog, k, Step("up", k))
    BY <2>1 DEF LastStep, Paste, Step
  <2>4. k = V => LastStep(prog, k, Step("up", k))
    BY <2>1 DEF LastStep, Paste, Step
  <2> QED
    BY <2>1, <2>2, <2>3, <2>4
<1>5. CASE m.op \in {"mma", "mmr", "gcon", "gdis"}
  <2>1. want' = want
    BY <1>1, <1>5 DEF KeysAfter
  <2>2. \A i \in DOMAIN prog : prog[i].do \notin {"down", "up"}
    BY <1>5, Programs DEF Step, Move, Connect, Disconnect
  <2>3. k \notin KeysOf(prog)
    BY <1>1, <2>2, AboutKeys
  <2> QED
    BY <2>1, <2>3
<1>6. m.op \in {"kd", "ku", "mma", "mmr", "kr", "cp", "gcon", "gdis"}
  BY DEF Message
<1> QED
  BY <1>2, <1>3, <1>4, <1>5, <1>6

LEMMA KeysReceive ==
    ASSUME TaskInv, KeyInv, NEW c \in Conns, NEW m \in Message, Receive(c, m)
    PROVE  KeyInv'
<1> DEFINE prog == HandleKey(m)
           new == [conn |-> c, n |-> received + 1, rest |-> prog]
<1>1. SUFFICES ASSUME NEW k \in Keys \ mixedKeys'
      PROVE  /\ \A t, u \in tasks' : k \in KeysOf(t.rest) \cap KeysOf(u.rest) => t = u
             /\ \A t \in tasks' : k \in KeysOf(t.rest) => LastStep(t.rest, k, Wanted(k)')
             /\ (\A t \in tasks' : k \notin KeysOf(t.rest)) => (k \in down' <=> k \in want')
  BY DEF KeyInv
<1>2. /\ tasks \subseteq tasks' /\ \A u \in tasks' : u \in tasks \/ u = new
      /\ prog # <<>> <=> new \in tasks'
      /\ new.rest = prog /\ prog \in Seq(Steps)
  BY ReceiveTasks
<1>3. down' = down
  BY DEF Receive, osVars
<1>4. \A a : a \in mixedKeys' <=>
             IF a \in KeysOf(prog) THEN \E t \in tasks : a \in KeysOf(t.rest) ELSE a \in mixedKeys
  <2>1. mixedKeys' = (mixedKeys \ KeysOf(prog))
                       \cup ((UNION {KeysOf(t.rest) : t \in tasks}) \cap KeysOf(prog))
    BY DEF Receive, NoteKeys
  <2> HIDE DEF prog
  <2> QED
    BY <2>1
<1> HIDE DEF new, prog
<1>5. CASE k \in KeysOf(prog)
  <2>1. \A t \in tasks : k \notin KeysOf(t.rest)
    BY <1>1, <1>4, <1>5
  <2>2. new \in tasks'
    BY <1>2, <1>5 DEF KeysOf, ToSet
  <2>3. LastStep(prog, k, Wanted(k)')
    BY <1>5, KeyPrograms DEF prog
  <2> QED
    BY <1>2, <1>5, <2>1, <2>2, <2>3
<1>6. CASE k \notin KeysOf(prog)
  <2>1. k \in Keys \ mixedKeys
    BY <1>1, <1>4, <1>6
  <2>2. (k \in want' <=> k \in want) /\ Wanted(k)' = Wanted(k)
    BY <1>6, KeyPrograms DEF prog, Wanted
  <2>3. \A t \in tasks' : k \in KeysOf(t.rest) => t \in tasks
    BY <1>2, <1>6
  <2> QED
    BY <1>2, <1>3, <2>1, <2>2, <2>3 DEF KeyInv
<1> QED
  BY <1>5, <1>6

LEMMA KeysStep ==
    ASSUME TaskInv, KeyInv, NEW t \in tasks, TaskStep(t)
    PROVE  KeyInv'
<1> DEFINE s == Head(t.rest)
<1>1. SUFFICES ASSUME NEW k \in Keys \ mixedKeys
      PROVE  /\ \A u, v \in tasks' : k \in KeysOf(u.rest) \cap KeysOf(v.rest) => u = v
             /\ \A u \in tasks' : k \in KeysOf(u.rest) => LastStep(u.rest, k, Wanted(k))
             /\ (\A u \in tasks' : k \notin KeysOf(u.rest)) => (k \in down' <=> k \in want)
  <2>1. mixedKeys' = mixedKeys /\ want' = want
    BY DEF TaskStep, keyHistory
  <2> QED
    BY <1>1, <2>1 DEF KeyInv, Wanted
<1>2. /\ \A u, v \in tasks : k \in KeysOf(u.rest) \cap KeysOf(v.rest) => u = v
      /\ \A u \in tasks : k \in KeysOf(u.rest) => LastStep(u.rest, k, Wanted(k))
      /\ (\A u \in tasks : k \notin KeysOf(u.rest)) => (k \in down <=> k \in want)
  BY <1>1 DEF KeyInv
<1>3. /\ t.rest \in Seq(Steps) /\ t.rest # <<>> /\ After(t).rest = Tail(t.rest)
      /\ \A u \in tasks' : u # After(t) => u \in tasks /\ u # t
      /\ After(t) \in tasks' <=> Tail(t.rest) # <<>>
      /\ \A u \in tasks : u # t => u \in tasks'
  BY StepTasks
<1>4. /\ KeysOf(Tail(t.rest)) \subseteq KeysOf(t.rest)
      /\ s.do \in {"down", "up"} => s.arg \in KeysOf(t.rest)
  BY <1>3, TailAbout
<1>5. /\ Tail(t.rest) \in Seq(Steps) /\ s = t.rest[1] /\ 1 \in DOMAIN t.rest
      /\ DOMAIN Tail(t.rest) = 1 .. Len(t.rest) - 1 /\ DOMAIN t.rest = 1 .. Len(t.rest)
      /\ Len(t.rest) \in Nat
      /\ \A i \in DOMAIN Tail(t.rest) : i + 1 \in DOMAIN t.rest /\ Tail(t.rest)[i] = t.rest[i + 1]
  BY <1>3, TailOf
<1>6. \A u, v \in tasks' : k \in KeysOf(u.rest) \cap KeysOf(v.rest) => u = v
  BY <1>2, <1>3, <1>4
<1>7. ASSUME k \in KeysOf(t.rest)
      PROVE  IF k \in KeysOf(Tail(t.rest)) THEN LastStep(Tail(t.rest), k, Wanted(k)) ELSE s = Wanted(k)
  <2>1. PICK i \in DOMAIN t.rest :
          /\ t.rest[i] = Wanted(k)
          /\ \A j \in DOMAIN t.rest : j > i => ~ (t.rest[j].do \in {"down", "up"} /\ t.rest[j].arg = k)
    BY <1>2, <1>7 DEF LastStep
  <2>2. CASE i = 1
    <3>1. k \notin KeysOf(Tail(t.rest))
      <4>1. \A j \in DOMAIN Tail(t.rest) : j + 1 > 1
        BY <1>5
      <4>2. \A j \in DOMAIN Tail(t.rest) :
              ~ (Tail(t.rest)[j].do \in {"down", "up"} /\ Tail(t.rest)[j].arg = k)
        BY <1>5, <2>1, <2>2, <4>1
      <4>3. ASSUME k \in KeysOf(Tail(t.rest)) PROVE FALSE
        <5>1. PICK j \in DOMAIN Tail(t.rest) :
                Tail(t.rest)[j].do \in {"down", "up"} /\ Tail(t.rest)[j].arg = k
          BY <1>5, <4>3, AboutKeys
        <5> QED
          BY <4>2, <5>1
      <4> QED
        BY <4>3
    <3> QED
      BY <1>5, <2>1, <2>2, <3>1
  <2>3. CASE i # 1
    <3>1. i - 1 \in DOMAIN Tail(t.rest) /\ Tail(t.rest)[i - 1] = Wanted(k)
      BY <1>5, <2>1, <2>3
    <3>2. \A j \in DOMAIN Tail(t.rest) : j > i - 1 =>
            ~ (Tail(t.rest)[j].do \in {"down", "up"} /\ Tail(t.rest)[j].arg = k)
      BY <1>5, <2>1
    <3>3. k \in KeysOf(Tail(t.rest))
      <4>1. Wanted(k).do \in {"down", "up"} /\ Wanted(k).arg = k
        BY DEF Wanted, Step
      <4> QED
        BY <1>5, <3>1, <4>1, AboutKeys
    <3> QED
      BY <3>1, <3>2, <3>3 DEF LastStep
  <2> QED
    BY <2>2, <2>3
<1>8. \A u \in tasks' : k \in KeysOf(u.rest) => LastStep(u.rest, k, Wanted(k))
  BY <1>2, <1>3, <1>4, <1>7
<1>9. ASSUME \A u \in tasks' : k \notin KeysOf(u.rest)
      PROVE  k \in down' <=> k \in want
  <2>1. k \notin KeysOf(Tail(t.rest))
    <3>1. CASE Tail(t.rest) = <<>>
      BY <3>1 DEF KeysOf, ToSet
    <3>2. CASE Tail(t.rest) # <<>>
      BY <1>3, <1>9, <3>2
    <3> QED
      BY <3>1, <3>2
  <2>2. KeyStep(s) \/ (s.do \notin {"down", "up"} /\ down' = down)
    BY DEF TaskStep, KeyStep, MoveStep, PadStep, osVars
  <2>3. CASE k \in KeysOf(t.rest)
    <3>1. s = Wanted(k)
      BY <1>7, <2>1, <2>3
    <3>2. s.do \in {"down", "up"} /\ s.arg = k /\ (s.do = "down" <=> k \in want)
      BY <3>1 DEF Wanted, Step
    <3> QED
      BY <2>2, <3>2 DEF KeyStep
  <2>4. CASE k \notin KeysOf(t.rest)
    <3>1. k \in down <=> k \in want
      BY <1>2, <1>3, <1>9, <2>4
    <3> QED
      BY <1>4, <2>2, <2>4, <3>1 DEF KeyStep
  <2> QED
    BY <2>3, <2>4
<1> QED
  BY <1>6, <1>8, <1>9

-----------------------------------------------------------------------------
(* Moves are read in their mode.                                           *)

Directions == {"relative", "absolute"}

\* What a task about the mode does next, and what it has left then.
LEMMA MoveLeft ==
    ASSUME NEW prog \in Seq(Steps), prog # <<>>, MovesLast(prog)
    PROVE  /\ MovesLast(Tail(prog))
           /\ \/ \E to \in Directions :
                   /\ Head(prog) = Step("mode", to) /\ Tail(prog) = <<Step("move", to)>>
                   /\ to \in ModesOf(prog)
              \/ \E to \in Directions : Head(prog) = Step("move", to) /\ Tail(prog) = <<>>
              \/ /\ Head(prog).do \notin {"mode", "move"}
                 /\ Tail(prog) # <<>> => Head(Tail(prog)).do # "move"
<1>1. ASSUME NEW to \in Directions, prog = Move(to)
      PROVE  /\ Head(prog) = Step("mode", to) /\ Tail(prog) = <<Step("move", to)>>
             /\ to \in ModesOf(prog)
  <2>1. 2 \in DOMAIN prog /\ prog[2] = Step("move", to)
    BY <1>1 DEF Move
  <2>2. to \in ModesOf(prog)
    BY <2>1, AboutModes DEF Step
  <2> QED
    BY <1>1, <2>2 DEF Move
<1>2. ASSUME NEW to \in Directions, prog = <<Step("move", to)>>
      PROVE  Head(prog) = Step("move", to) /\ Tail(prog) = <<>>
  BY <1>2
<1>3. ASSUME \A i \in DOMAIN prog : prog[i].do \notin {"mode", "move"}
      PROVE  /\ Head(prog).do \notin {"mode", "move"}
             /\ \A i \in DOMAIN Tail(prog) : Tail(prog)[i].do \notin {"mode", "move"}
             /\ Tail(prog) # <<>> => Head(Tail(prog)).do # "move"
  <2>1. Head(prog).do \notin {"mode", "move"}
    BY <1>3, TailOf
  <2>2. \A i \in DOMAIN Tail(prog) : Tail(prog)[i].do \notin {"mode", "move"}
    BY <1>3, TailOf
  <2>3. Tail(prog) # <<>> => Head(Tail(prog)) = Tail(prog)[1] /\ 1 \in DOMAIN Tail(prog)
    BY TailOf
  <2> QED
    BY <2>1, <2>2, <2>3
<1>4. \A i \in DOMAIN <<>> : <<>>[i].do \notin {"mode", "move"}
  OBVIOUS
<1> QED
  BY <1>1, <1>2, <1>3, <1>4 DEF MovesLast, Directions

LEMMA ModePrograms ==
    ASSUME NEW m \in Message
    PROVE  /\ MovesLast(HandleKey(m))
           /\ HandleKey(m) # <<>> => Head(HandleKey(m)).do # "move"
           /\ \A a, b \in ModesOf(HandleKey(m)) : a = b
<1> DEFINE prog == HandleKey(m)
<1>1. prog \in Seq(Steps)
  BY Programs
<1>2. ASSUME NEW to \in Directions, prog = Move(to)
      PROVE  MovesLast(prog) /\ Head(prog).do # "move" /\ \A a, b \in ModesOf(prog) : a = b
  <2>1. MovesLast(prog) /\ Head(prog).do # "move"
    BY <1>2 DEF MovesLast, Move, Step, Directions
  <2>2. \A a \in ModesOf(prog) : a = to
    BY <1>2 DEF Move, Step, ModesOf, ToSet
  <2> QED
    BY <2>1, <2>2
<1>3. ASSUME \A i \in DOMAIN prog : prog[i].do \notin {"mode", "move"}
      PROVE  MovesLast(prog) /\ (prog # <<>> => Head(prog).do # "move") /\ ModesOf(prog) = {}
  <2>1. MovesLast(prog)
    BY <1>3 DEF MovesLast
  <2>2. prog # <<>> => Head(prog).do # "move"
    BY <1>1, <1>3, TailOf
  <2>3. ASSUME NEW a \in ModesOf(prog) PROVE FALSE
    BY <1>1, <1>3, <2>3, AboutModes
  <2> QED
    BY <2>1, <2>2, <2>3
<1>4. m.op \in {"mmr", "mma"} => \E to \in Directions : prog = Move(to)
  BY Programs DEF Directions
<1>5. m.op \notin {"mmr", "mma"} => \A i \in DOMAIN prog : prog[i].do \notin {"mode", "move"}
  <2>1. CASE m.op \in {"kd", "ku"}
    BY <2>1, Programs DEF Step
  <2>2. CASE m.op = "kr"
    BY <2>2, Programs, KeysUpAll
  <2>3. CASE m.op = "cp"
    BY <2>3, Programs DEF Step, Paste
  <2>4. CASE m.op \in {"gcon", "gdis"}
    BY <2>4, Programs DEF Step, Connect, Disconnect
  <2>5. m.op \in {"kd", "ku", "mma", "mmr", "kr", "cp", "gcon", "gdis"}
    BY DEF Message
  <2> QED
    BY <2>1, <2>2, <2>3, <2>4, <2>5
<1> QED
  BY <1>2, <1>3, <1>4, <1>5

LEMMA ModesReceive ==
    ASSUME TaskInv, ModeInv, NEW c \in Conns, NEW m \in Message, Receive(c, m)
    PROVE  ModeInv'
<1> DEFINE prog == HandleKey(m)
           new == [conn |-> c, n |-> received + 1, rest |-> prog]
<1>1. /\ tasks \subseteq tasks' /\ \A u \in tasks' : u \in tasks \/ u = new
      /\ prog # <<>> <=> new \in tasks'
      /\ new.rest = prog
  BY ReceiveTasks
<1>2. /\ MovesLast(prog) /\ (prog # <<>> => Head(prog).do # "move")
      /\ \A a, b \in ModesOf(prog) : a = b
  BY ModePrograms
<1>3. mode' = mode /\ misread' = misread
  BY DEF Receive, osVars
<1>4. mixedModes' =
        (mixedModes \/ (ModesOf(prog) # {}
                          /\ (UNION {ModesOf(t.rest) : t \in tasks}) \ ModesOf(prog) # {}))
  BY Zenon DEF Receive, NoteModes
<1> HIDE DEF new, prog
<1>5. ASSUME ~ mixedModes', NEW t \in tasks, NEW a \in ModesOf(t.rest), NEW b \in ModesOf(prog)
      PROVE  a = b
  <2>1. a \in UNION {ModesOf(u.rest) : u \in tasks}
    BY <1>5
  <2>2. a \in ModesOf(prog)
    BY <1>4, <1>5, <2>1, Zenon
  <2> QED
    BY <1>2, <1>5, <2>2
<1>6. ~ mixedModes' => ~ mixedModes
  BY <1>4, Zenon
<1>7. \A t \in tasks' : MovesLast(t.rest)
  BY <1>1, <1>2 DEF ModeInv
<1>8. ASSUME ~ mixedModes' PROVE ~ misread'
  BY <1>3, <1>6, <1>8, Zenon DEF ModeInv
<1>9. ASSUME ~ mixedModes', NEW t \in tasks', NEW u \in tasks',
             NEW a \in ModesOf(t.rest), NEW b \in ModesOf(u.rest)
      PROVE  a = b
  <2>1. CASE t \in tasks /\ u \in tasks
    BY <1>6, <1>9, <2>1, Zenon DEF ModeInv
  <2>2. CASE t \in tasks /\ u = new
    BY <1>1, <1>5, <1>9, <2>2
  <2>3. CASE t = new /\ u \in tasks
    BY <1>1, <1>5, <1>9, <2>3
  <2>4. CASE t = new /\ u = new
    BY <1>1, <1>2, <1>9, <2>4
  <2> QED
    BY <1>1, <2>1, <2>2, <2>3, <2>4
<1>10. ASSUME ~ mixedModes', NEW t \in tasks', Head(t.rest).do = "move"
       PROVE  mode' = Head(t.rest).arg
  <2>1. t \in tasks
    BY <1>1, <1>2, <1>10
  <2> QED
    BY <1>3, <1>6, <1>10, <2>1, Zenon DEF ModeInv
<1> QED
  BY <1>7, <1>8, <1>9, <1>10 DEF ModeInv

LEMMA ModesStep ==
    ASSUME TaskInv, ModeInv, NEW t \in tasks, TaskStep(t)
    PROVE  ModeInv'
<1> DEFINE s == Head(t.rest)
<1>1. /\ t.rest \in Seq(Steps) /\ t.rest # <<>> /\ After(t).rest = Tail(t.rest)
      /\ \A u \in tasks' : u # After(t) => u \in tasks /\ u # t
      /\ After(t) \in tasks' <=> Tail(t.rest) # <<>>
  BY StepTasks
<1>2. \A u \in tasks : u.rest \in Seq(Steps) /\ u.rest # <<>>
  BY DEF TaskInv
<1>3. mixedModes' = mixedModes /\ MovesLast(t.rest)
  BY DEF TaskStep, ModeInv
<1>4. ModesOf(Tail(t.rest)) \subseteq ModesOf(t.rest)
  BY <1>1, TailAbout
<1>5. /\ MovesLast(Tail(t.rest))
      /\ \/ \E to \in Directions :
              /\ s = Step("mode", to) /\ Tail(t.rest) = <<Step("move", to)>>
              /\ to \in ModesOf(t.rest)
         \/ \E to \in Directions : s = Step("move", to) /\ Tail(t.rest) = <<>>
         \/ /\ s.do \notin {"mode", "move"}
            /\ Tail(t.rest) # <<>> => Head(Tail(t.rest)).do # "move"
  BY <1>1, <1>3, MoveLeft
<1>6. \A u \in tasks' : MovesLast(u.rest)
  BY <1>1, <1>5 DEF ModeInv
<1>7. SUFFICES ASSUME ~ mixedModes
      PROVE  /\ ~ misread'
             /\ \A u, v \in tasks' : \A a \in ModesOf(u.rest), b \in ModesOf(v.rest) : a = b
             /\ \A u \in tasks' : Head(u.rest).do = "move" => mode' = Head(u.rest).arg
  BY <1>3, <1>6 DEF ModeInv
<1>8. /\ ~ misread
      /\ \A u, v \in tasks : \A a \in ModesOf(u.rest), b \in ModesOf(v.rest) : a = b
      /\ \A u \in tasks : Head(u.rest).do = "move" => mode = Head(u.rest).arg
  BY <1>7, Zenon DEF ModeInv
<1>9. \A u, v \in tasks' : \A a \in ModesOf(u.rest), b \in ModesOf(v.rest) : a = b
  <2>1. \A u \in tasks' : \E v \in tasks : ModesOf(u.rest) \subseteq ModesOf(v.rest)
    BY <1>1, <1>4
  <2>2. SUFFICES ASSUME NEW u \in tasks', NEW v \in tasks',
                        NEW a \in ModesOf(u.rest), NEW b \in ModesOf(v.rest)
        PROVE  a = b
    OBVIOUS
  <2>3. PICK u0 \in tasks, v0 \in tasks : a \in ModesOf(u0.rest) /\ b \in ModesOf(v0.rest)
    BY <2>1, <2>2
  <2> QED
    BY <1>8, <2>3
<1>10. \A u \in tasks : Head(u.rest).do = "move" => Head(u.rest).arg \in ModesOf(u.rest)
  BY <1>2, TailAbout
<1>11. CASE \E to \in Directions :
              /\ s = Step("mode", to) /\ Tail(t.rest) = <<Step("move", to)>>
              /\ to \in ModesOf(t.rest)
  <2>1. PICK to \in Directions :
          /\ s = Step("mode", to) /\ Tail(t.rest) = <<Step("move", to)>>
          /\ to \in ModesOf(t.rest)
    BY <1>11
  <2>2. Head(<<Step("move", to)>>) = Step("move", to)
    OBVIOUS
  <2>3. Head(Tail(t.rest)) = Step("move", to)
    BY <2>1, <2>2, Zenon
  <2>4. s.do = "mode" /\ s.arg = to /\ Head(Tail(t.rest)).arg = to
    BY <2>1, <2>3, StepFields, Zenon
  <2>5. mode' = to /\ misread' = misread
    <3>1. MoveStep(s)
      BY <2>4 DEF TaskStep, KeyStep, PadStep
    <3>2. mode' = s.arg /\ misread' = misread
      BY <2>4, <3>1 DEF MoveStep
    <3> QED
      BY <2>4, <3>2, Zenon
  <2>6. ASSUME NEW u \in tasks, Head(u.rest).do = "move" PROVE Head(u.rest).arg = to
    <3>1. Head(u.rest).arg \in ModesOf(u.rest)
      BY <1>10, <2>6
    <3> QED
      BY <1>8, <2>1, <3>1
  <2>7. \A u \in tasks' : Head(u.rest).do = "move" => Head(u.rest).arg = to
    BY <1>1, <2>4, <2>6
  <2> QED
    BY <1>8, <1>9, <2>5, <2>7
<1>12. CASE \E to \in Directions : s = Step("move", to) /\ Tail(t.rest) = <<>>
  <2>1. s.do = "move" /\ mode = s.arg /\ After(t) \notin tasks'
    BY <1>1, <1>8, <1>12 DEF Step
  <2>2. mode' = mode /\ misread' = (misread \/ mode # s.arg)
    BY <2>1, Zenon DEF TaskStep, KeyStep, MoveStep, PadStep
  <2>3. ~ misread'
    BY <1>8, <2>1, <2>2, Zenon
  <2>4. \A u \in tasks' : u \in tasks
    BY <1>1, <2>1
  <2> QED
    BY <1>8, <1>9, <2>2, <2>3, <2>4
<1>13. CASE /\ s.do \notin {"mode", "move"}
            /\ Tail(t.rest) # <<>> => Head(Tail(t.rest)).do # "move"
  <2>1. mode' = mode /\ misread' = misread
    BY <1>13 DEF TaskStep, KeyStep, MoveStep, PadStep, osVars
  <2>2. \A u \in tasks' : Head(u.rest).do = "move" => u \in tasks
    BY <1>1, <1>13
  <2> QED
    BY <1>8, <1>9, <2>1, <2>2
<1> QED
  BY <1>5, <1>11, <1>12, <1>13

-----------------------------------------------------------------------------
(* Gamepads are released.                                                  *)

LEMMA ProgramOfPad ==
    ASSUME NEW p, NEW prog \in PadPrograms(p)
    PROVE  /\ PadsOf(prog) = {p} /\ prog # <<>> /\ Head(prog).arg = p
           /\ Head(prog).do \in {"plug", "register", "enlist", "disconnect", "unlist"}
           /\ Head(prog).do = "plug" => prog = Connect(p) /\ Tail(prog) = Registering(p)
           /\ Head(prog).do = "register" => prog = Registering(p) /\ Tail(prog) = Enlisting(p)
           /\ Head(prog).do = "enlist" => prog = Enlisting(p) /\ Tail(prog) = <<>>
           /\ Head(prog).do = "disconnect" => prog = Disconnect(p) /\ Tail(prog) = Unlisting(p)
           /\ Head(prog).do = "unlist" => prog = Unlisting(p) /\ Tail(prog) = <<>>
<1>1. CASE prog = Connect(p)
  <2>1. PadsOf(prog) = {p}
    BY <1>1 DEF PadsOf, ToSet, Connect, Step
  <2> QED
    BY <1>1, <2>1 DEF Connect, Registering, Step
<1>2. CASE prog = Registering(p)
  <2>1. PadsOf(prog) = {p}
    BY <1>2 DEF PadsOf, ToSet, Registering, Step
  <2> QED
    BY <1>2, <2>1 DEF Registering, Enlisting, Step
<1>3. CASE prog = Enlisting(p)
  <2>1. PadsOf(prog) = {p}
    BY <1>3 DEF PadsOf, ToSet, Enlisting, Step
  <2> QED
    BY <1>3, <2>1 DEF Enlisting, Step
<1>4. CASE prog = Disconnect(p)
  <2>1. PadsOf(prog) = {p}
    BY <1>4 DEF PadsOf, ToSet, Disconnect, Step
  <2> QED
    BY <1>4, <2>1 DEF Disconnect, Unlisting, Step
<1>5. CASE prog = Unlisting(p)
  <2>1. PadsOf(prog) = {p}
    BY <1>5 DEF PadsOf, ToSet, Unlisting, Step
  <2> QED
    BY <1>5, <2>1 DEF Unlisting, Step
<1> QED
  BY <1>1, <1>2, <1>3, <1>4, <1>5 DEF PadPrograms

\* The programs differ by their first step.
LEMMA FirstSteps ==
    ASSUME NEW p
    PROVE  /\ Head(Connect(p)).do = "plug" /\ Head(Registering(p)).do = "register"
           /\ Head(Enlisting(p)).do = "enlist" /\ Head(Disconnect(p)).do = "disconnect"
           /\ Head(Unlisting(p)).do = "unlist"
<1>1. \A a, b, c : Head(<<a>>) = a /\ Head(<<a, b>>) = a /\ Head(<<a, b, c>>) = a
  OBVIOUS
<1> QED
  BY <1>1, StepFields DEF Connect, Registering, Enlisting, Disconnect, Unlisting

\* A step is about a pad exactly if its task is.
LEMMA PadHead ==
    ASSUME TaskInv, PadTasks, NEW t \in tasks, NEW p \in PadsOf(t.rest)
    PROVE  /\ p \in Pads /\ t.rest \in PadPrograms(p) /\ PadsOf(t.rest) = {p}
           /\ Head(t.rest).arg = p /\ PadsOf(Tail(t.rest)) \subseteq {p}
           /\ Head(t.rest).do \notin {"down", "up", "mode", "move"}
           /\ Tail(t.rest) = <<>> \/ Tail(t.rest) \in PadPrograms(p)
<1>1. t.rest \in PadPrograms(p)
  BY DEF PadTasks
<1>2. t.rest \in Seq(Steps) /\ t.rest # <<>>
  BY DEF TaskInv
<1>3. Head(t.rest).do \in {"plug", "register", "enlist", "disconnect", "unlist"}
  BY <1>1, ProgramOfPad
<1>4. Head(t.rest).arg = p /\ Head(t.rest) \in Steps
  BY <1>1, <1>2, ProgramOfPad, TailOf
<1>5. p \in Pads
  BY <1>3, <1>4 DEF Steps
<1>6. Tail(t.rest) = <<>> \/ Tail(t.rest) \in PadPrograms(p)
  <2>1. {Registering(p), Enlisting(p), Unlisting(p)} \subseteq PadPrograms(p)
    BY DEF PadPrograms
  <2> QED
    BY <1>1, <1>3, <2>1, ProgramOfPad
<1>7. PadsOf(t.rest) = {p}
  BY <1>1, ProgramOfPad
<1>8. PadsOf(Tail(t.rest)) \subseteq {p}
  BY <1>2, <1>7, TailAbout
<1> QED
  BY <1>1, <1>3, <1>4, <1>5, <1>6, <1>7, <1>8

\* A connection stays in order while its tasks about pads, its registrations
\* and its list stay, and no controller is plugged in for it.
LEMMA StaysInOrder ==
    ASSUME NEW c \in Conns, InOrder(c), TaskInv, TaskInv', PadTasks,
           \A u \in tasks' : u.conn = c /\ PadsOf(u.rest) # {} => u \in tasks,
           \A u \in tasks : u.conn = c /\ PadsOf(u.rest) # {} => u \in tasks',
           xboxs'[c] = xboxs[c], list'[c] = list[c], cleaned'[c] = cleaned[c],
           handler'[c] = handler[c],
           \A p \in Pads : p \in joined'[c] <=> p \in joined[c],
           \A n \in 1 .. MaxMessages : plugged'[n] = c => plugged[n] = c
    PROVE  InOrder(c)'
<1>1. ASSUME NEW p \in Pads, NEW prog \in PadPrograms(p)
      PROVE  Doing(c, prog)' <=> Doing(c, prog)
  <2>1. PadsOf(prog) # {}
    BY ProgramOfPad
  <2> QED
    BY <2>1 DEF Doing
<1>2. ASSUME NEW n \in 1 .. MaxMessages, Registers(c, n)
      PROVE  Registers(c, n)'
  <2>1. PICK t \in tasks, p \in Pads : t.conn = c /\ t.n = n /\ t.rest = Registering(p)
    BY <1>2 DEF Registers
  <2>2. PadsOf(t.rest) # {}
    <3>1. Registering(p) \in PadPrograms(p)
      BY DEF PadPrograms
    <3>2. PadsOf(Registering(p)) = {p}
      BY <3>1, ProgramOfPad
    <3> QED
      BY <2>1, <3>2
  <2> QED
    BY <2>1, <2>2 DEF Registers
<1>3. OneTask(c)'
  BY DEF InOrder, OneTask
<1>4. Owned(c)'
  BY <1>2 DEF InOrder, Owned
<1>5. Freeing(c)'
  <2>1. handler[c] # "receives" => \A t \in tasks' : t.conn = c => PadsOf(t.rest) = {}
    BY DEF InOrder, Freeing
  <2> QED
    BY <2>1 DEF InOrder, Freeing
<1>6. ASSUME NEW p \in Pads PROVE Tidy(c, p)'
  <2>1. Listed(c, p)' <=> Listed(c, p)
    BY DEF Listed
  <2>2. \A prog \in PadPrograms(p) : Doing(c, prog)' <=> Doing(c, prog)
    BY <1>1
  <2> QED
    BY <2>1, <2>2 DEF InOrder, Tidy, PadPrograms
<1> QED
  BY <1>3, <1>4, <1>5, <1>6 DEF InOrder

LEMMA PadTasksStep ==
    ASSUME TaskInv, PadTypes, PadTasks, NEW t \in tasks, TaskStep(t)
    PROVE  PadTypes' /\ PadTasks'
<1> DEFINE s == Head(t.rest)
           c == t.conn
<1>1. /\ t.rest \in Seq(Steps) /\ t.rest # <<>> /\ c \in Conns /\ t.n \in 1 .. MaxMessages
      /\ After(t).rest = Tail(t.rest) /\ After(t).conn = c
      /\ \A u \in tasks' : u # After(t) => u \in tasks /\ u # t
  BY StepTasks
<1>2. UNCHANGED <<handler, joined, cleaned, failed>>
  BY DEF TaskStep, KeyStep, MoveStep, PadStep, connVars, padVars, padHistory
<1>3. s \in Steps
  BY <1>1, TailOf
<1>4. CASE s.do \in {"down", "up", "mode", "move"}
  <2>1. UNCHANGED <<list, xboxs, plugged>>
    BY <1>4 DEF TaskStep, KeyStep, MoveStep, PadStep, padVars
  <2>2. PadTypes'
    BY <1>2, <2>1 DEF PadTypes
  <2>3. PadsOf(t.rest) = {}
    BY <1>4, PadHead
  <2>4. PadsOf(Tail(t.rest)) = {}
    BY <1>1, <2>3, TailAbout
  <2> QED
    BY <1>1, <1>2, <2>1, <2>2, <2>4 DEF PadTasks
<1>5. CASE s.do \notin {"down", "up", "mode", "move"}
  <2>1. s.arg \in PadsOf(t.rest)
    BY <1>1, <1>5, TailAbout
  <2>2. s.arg \in Pads /\ ~ failed
    BY <2>1, PadHead DEF PadTasks
  <2>3. xboxs[c][s.arg] \in 0 .. MaxMessages
    BY <1>1, <2>2 DEF PadTypes
  <2>4. PadTypes'
    <3>1. CASE s.do = "plug"
      BY <1>1, <1>2, <3>1 DEF TaskStep, KeyStep, MoveStep, PadStep, PadTypes
    <3>2. CASE s.do = "register"
      <4>1. /\ xboxs' = IF xboxs[c][s.arg] = 0 THEN [xboxs EXCEPT ![c][s.arg] = t.n] ELSE xboxs
            /\ UNCHANGED <<list, plugged>>
        BY <1>5, <3>2 DEF TaskStep, KeyStep, MoveStep, PadStep
      <4>2. t.n \in 0 .. MaxMessages
        BY <1>1, MessagesAssumption
      <4>3. xboxs' \in [Conns -> [Pads -> 0 .. MaxMessages]]
        BY <1>1, <2>2, <4>1, <4>2 DEF PadTypes
      <4> QED
        BY <1>2, <4>1, <4>3 DEF PadTypes
    <3>3. CASE s.do = "enlist"
      <4>1. /\ list' = [list EXCEPT ![c] = @ \cup {[pad |-> s.arg, n |-> t.n]}]
            /\ UNCHANGED <<xboxs, plugged>>
        BY <1>5, <3>3 DEF TaskStep, KeyStep, MoveStep, PadStep
      <4>2. [pad |-> s.arg, n |-> t.n] \in Entries
        BY <1>1, <2>2 DEF Entries
      <4> QED
        BY <1>1, <1>2, <4>1, <4>2 DEF PadTypes
    <3>4. CASE s.do = "disconnect"
      <4>1. DisConnect(c, s.arg) /\ UNCHANGED list
        BY <1>5, <3>4 DEF TaskStep, KeyStep, MoveStep, PadStep
      <4>2. 0 \in 0 .. MaxMessages
        BY MessagesAssumption
      <4>3. xboxs' \in [Conns -> [Pads -> 0 .. MaxMessages]]
        BY <1>1, <2>2, <4>1, <4>2 DEF PadTypes, DisConnect
      <4>4. plugged' \in [1 .. MaxMessages -> Conns \cup {None}]
        BY <4>1 DEF PadTypes, DisConnect
      <4> QED
        BY <1>2, <4>1, <4>3, <4>4 DEF PadTypes
    <3>5. CASE s.do = "unlist"
      <4>1. /\ list' = [list EXCEPT ![c] = {e \in @ : e.pad # s.arg}]
            /\ UNCHANGED <<xboxs, plugged>>
        BY <1>5, <3>5 DEF TaskStep, KeyStep, MoveStep, PadStep
      <4> QED
        BY <1>1, <1>2, <4>1 DEF PadTypes
    <3> QED
      BY <1>3, <1>5, <3>1, <3>2, <3>3, <3>4, <3>5 DEF Steps
  <2>5. ASSUME NEW u \in tasks', NEW p \in PadsOf(u.rest) PROVE u.rest \in PadPrograms(p)
    <3>1. CASE u = After(t)
      <4>1. /\ PadsOf(Tail(t.rest)) \subseteq {s.arg}
            /\ Tail(t.rest) = <<>> \/ Tail(t.rest) \in PadPrograms(s.arg)
        <5>1. PICK a \in PadsOf(t.rest) : a = s.arg
          BY <2>1
        <5>2. PadsOf(Tail(t.rest)) \subseteq {a}
          BY PadHead
        <5>3. Tail(t.rest) = <<>> \/ Tail(t.rest) \in PadPrograms(a)
          BY PadHead
        <5> QED
          BY <5>1, <5>2, <5>3, Zenon
      <4>2. p \in PadsOf(Tail(t.rest))
        BY <1>1, <2>5, <3>1
      <4>3. Tail(t.rest) # <<>>
        BY <4>2 DEF PadsOf, ToSet
      <4> QED
        BY <1>1, <3>1, <4>1, <4>2, <4>3
    <3> QED
      BY <1>1, <2>5, <3>1 DEF PadTasks
  <2> QED
    BY <1>2, <2>2, <2>4, <2>5 DEF PadTasks
<1> QED
  BY <1>4, <1>5

\* The step of a task about a pad, for its connection.
LEMMA PadStepInOrder ==
    ASSUME TaskInv, PadTypes, PadTasks, NEW t \in tasks, TaskStep(t),
           NEW c \in Conns, c = t.conn, NEW p \in PadsOf(t.rest), InOrder(c)
    PROVE  InOrder(c)'
<1> DEFINE do == Head(t.rest).do
           left == Tail(t.rest)
<1>1. /\ t.rest \in Seq(Steps) /\ t.rest # <<>> /\ t.n \in 1 .. MaxMessages
      /\ After(t).rest = left /\ After(t).conn = c /\ After(t).n = t.n
      /\ \A u \in tasks' : u # After(t) => u \in tasks /\ u # t
      /\ After(t) \in tasks' <=> left # <<>>
      /\ \A u \in tasks : u # t => u \in tasks'
  BY StepTasks
<1>2. /\ p \in Pads /\ t.rest \in PadPrograms(p) /\ PadsOf(t.rest) = {p}
      /\ Head(t.rest).arg = p /\ PadsOf(left) \subseteq {p}
      /\ do \notin {"down", "up", "mode", "move"}
      /\ left = <<>> \/ left \in PadPrograms(p)
  BY PadHead
<1>3. PadStep(t, Head(t.rest))
  BY <1>2 DEF TaskStep, KeyStep, MoveStep
<1>4. UNCHANGED <<handler, cleaned, joined>>
  BY <1>3 DEF TaskStep, PadStep, connVars, padHistory
<1> HIDE DEF left
<1>5. \A u \in tasks : u.conn = c /\ u # t => p \notin PadsOf(u.rest)
  BY <1>2 DEF InOrder, OneTask
<1>6. ASSUME NEW q \in Pads, q # p, NEW prog \in PadPrograms(q)
      PROVE  Doing(c, prog)' <=> Doing(c, prog)
  <2>1. PadsOf(prog) = {q}
    BY ProgramOfPad
  <2>2. prog # t.rest /\ prog # left
    BY <1>2, <1>6, <2>1
  <2> QED
    BY <1>1, <2>2 DEF Doing
<1>7. ASSUME NEW prog \in PadPrograms(p)
      PROVE  (Doing(c, prog) <=> prog = t.rest) /\ (Doing(c, prog)' <=> prog = left)
  <2>1. PadsOf(prog) = {p} /\ prog # <<>>
    BY ProgramOfPad
  <2>2. \A u \in tasks : u.conn = c /\ u.rest = prog => u = t
    BY <1>5, <2>1
  <2> QED
    BY <1>1, <2>1, <2>2 DEF Doing
<1>8. OneTask(c)'
  <2>1. SUFFICES ASSUME NEW u \in tasks', NEW v \in tasks', u.conn = c, v.conn = c,
                        NEW q \in PadsOf(u.rest), q \in PadsOf(v.rest)
        PROVE  u = v
    BY DEF OneTask
  <2>2. \A w \in tasks' : w = After(t) => PadsOf(w.rest) \subseteq {p}
    BY <1>1, <1>2
  <2>3. u = After(t) <=> v = After(t)
    BY <1>1, <1>5, <2>1, <2>2
  <2>4. u # After(t) => u \in tasks /\ v \in tasks
    BY <1>1, <2>3
  <2> QED
    BY <2>1, <2>3, <2>4 DEF InOrder, OneTask
<1>9. Freeing(c)'
  <2>1. handler[c] = "receives"
    BY <1>2 DEF InOrder, Freeing
  <2> QED
    BY <1>4, <2>1 DEF Freeing
<1>10. ASSUME NEW q \in Pads, q # p, xboxs'[c][q] = xboxs[c][q], Listed(c, q)' <=> Listed(c, q)
       PROVE  Tidy(c, q)'
  <2>1. \A prog \in PadPrograms(q) : Doing(c, prog)' <=> Doing(c, prog)
    BY <1>6, <1>10
  <2> QED
    BY <1>4, <1>10, <2>1 DEF InOrder, Tidy, PadPrograms
<1>11. ASSUME NEW n \in 1 .. MaxMessages, Registers(c, n)
       PROVE  Registers(c, n)' \/ (do = "register" /\ n = t.n)
  <2>1. PICK u \in tasks, q \in Pads : u.conn = c /\ u.n = n /\ u.rest = Registering(q)
    BY <1>11 DEF Registers
  <2>2. u = t => do = "register"
    BY <2>1, FirstSteps
  <2> QED
    BY <1>1, <2>1, <2>2 DEF Registers
<1>12. ASSUME NEW n \in 1 .. MaxMessages, plugged[n] = c
       PROVE  (\E q \in Pads : xboxs[c][q] = n) \/ Registers(c, n)
  BY <1>12 DEF InOrder, Owned
<1>13. Tidy(c, p)
  BY <1>2 DEF InOrder
<1>14. {Connect(p), Registering(p), Enlisting(p), Disconnect(p), Unlisting(p)} \subseteq PadPrograms(p)
  BY DEF PadPrograms
<1>15. CASE do = "plug"
  <2>1. plugged' = [plugged EXCEPT ![t.n] = c] /\ list' = list /\ xboxs' = xboxs
    BY <1>3, <1>15 DEF PadStep
  <2>2. t.rest = Connect(p) /\ left = Registering(p)
    BY <1>2, <1>15, ProgramOfPad DEF left
  <2>3. p \in joined[c] /\ xboxs[c][p] = 0
    BY <1>7, <1>13, <1>14, <2>2 DEF Tidy
  <2>4. \A prog \in PadPrograms(p) : Doing(c, prog)' => prog = Registering(p)
    BY <1>7, <2>2
  <2>5. Unlisting(p) # Registering(p)
    BY FirstSteps
  <2>6. Tidy(c, p)'
    BY <1>4, <1>14, <2>1, <2>3, <2>4, <2>5 DEF Tidy
  <2>7. \A q \in Pads : Listed(c, q)' <=> Listed(c, q)
    BY <2>1 DEF Listed
  <2>8. \A q \in Pads : Tidy(c, q)'
    BY <1>10, <2>1, <2>6, <2>7
  <2>9. Registers(c, t.n)'
    <3>1. left # <<>>
      BY <1>14, <2>2, ProgramOfPad
    <3> QED
      BY <1>1, <1>2, <2>2, <3>1 DEF Registers
  <2>10. ASSUME NEW n \in 1 .. MaxMessages, plugged'[n] = c
         PROVE  (\E q \in Pads : xboxs'[c][q] = n) \/ Registers(c, n)'
    <3>1. n = t.n \/ plugged[n] = c
      BY <2>1, <2>10 DEF PadTypes
    <3> QED
      BY <1>11, <1>12, <1>15, <2>1, <2>9, <3>1
  <2> QED
    BY <1>8, <1>9, <2>8, <2>10 DEF InOrder, Owned
<1>16. CASE do = "register"
  <2>1. /\ xboxs' = IF xboxs[c][p] = 0 THEN [xboxs EXCEPT ![c][p] = t.n] ELSE xboxs
        /\ list' = list /\ plugged' = plugged
    BY <1>2, <1>3, <1>16 DEF PadStep
  <2>2. t.rest = Registering(p) /\ left = Enlisting(p)
    BY <1>2, <1>16, ProgramOfPad DEF left
  <2>3. p \in joined[c] /\ xboxs[c][p] = 0
    BY <1>7, <1>13, <1>14, <2>2 DEF Tidy
  <2>4. xboxs'[c][p] = t.n /\ \A q \in Pads : q # p => xboxs'[c][q] = xboxs[c][q]
    BY <1>2, <2>1, <2>3 DEF PadTypes
  <2>5. \A prog \in PadPrograms(p) : Doing(c, prog)' <=> prog = Enlisting(p)
    BY <1>7, <2>2
  <2>6. Enlisting(p) \notin {Connect(p), Registering(p), Unlisting(p)}
    BY FirstSteps
  <2>7. Tidy(c, p)'
    BY <1>4, <1>14, <2>3, <2>5, <2>6 DEF Tidy
  <2>8. \A q \in Pads : Listed(c, q)' <=> Listed(c, q)
    BY <2>1 DEF Listed
  <2>9. \A q \in Pads : Tidy(c, q)'
    BY <1>10, <2>4, <2>7, <2>8
  <2>10. ASSUME NEW n \in 1 .. MaxMessages, plugged'[n] = c
         PROVE  (\E q \in Pads : xboxs'[c][q] = n) \/ Registers(c, n)'
    <3>1. CASE \E q \in Pads : xboxs[c][q] = n
      BY <2>3, <2>4, <3>1
    <3>2. CASE Registers(c, n)
      BY <1>2, <1>11, <2>4, <3>2
    <3> QED
      BY <1>12, <2>1, <2>10, <3>1, <3>2
  <2> QED
    BY <1>8, <1>9, <2>9, <2>10 DEF InOrder, Owned
<1>17. CASE do = "enlist"
  <2>1. /\ list' = [list EXCEPT ![c] = @ \cup {[pad |-> p, n |-> t.n]}]
        /\ xboxs' = xboxs /\ plugged' = plugged
    BY <1>2, <1>3, <1>17 DEF PadStep
  <2>2. t.rest = Enlisting(p) /\ left = <<>>
    BY <1>2, <1>17, ProgramOfPad DEF left
  <2>3. list'[c] = list[c] \cup {[pad |-> p, n |-> t.n]}
    BY <2>1 DEF PadTypes
  <2>4. Listed(c, p)' /\ \A q \in Pads : q # p => (Listed(c, q)' <=> Listed(c, q))
    <3>1. PICK e : e = [pad |-> p, n |-> t.n]
      OBVIOUS
    <3>2. e.pad = p /\ list'[c] = list[c] \cup {e}
      BY <2>3, <3>1
    <3> QED
      BY <3>2 DEF Listed
  <2>5. \A prog \in PadPrograms(p) : ~ Doing(c, prog)'
    BY <1>7, <2>2, ProgramOfPad
  <2>6. xboxs[c][p] # 0 => p \in joined[c]
    <3>1. Disconnect(p) # Enlisting(p)
      BY FirstSteps
    <3> QED
      BY <1>7, <1>13, <1>14, <2>2, <3>1 DEF Tidy
  <2>7. Tidy(c, p)'
    BY <1>4, <1>14, <2>1, <2>4, <2>5, <2>6 DEF Tidy
  <2>8. \A q \in Pads : Tidy(c, q)'
    BY <1>10, <2>1, <2>4, <2>7
  <2>9. Owned(c)'
    BY <1>11, <1>12, <1>17, <2>1 DEF Owned
  <2> QED
    BY <1>8, <1>9, <2>8, <2>9 DEF InOrder
<1>18. CASE do = "disconnect"
  <2>1. DisConnect(c, p) /\ list' = list
    BY <1>2, <1>3, <1>18 DEF PadStep
  <2>2. xboxs'[c][p] = 0 /\ \A q \in Pads : q # p => xboxs'[c][q] = xboxs[c][q]
    BY <1>2, <2>1 DEF PadTypes, DisConnect
  <2>3. \A n \in 1 .. MaxMessages : plugged'[n] = c => plugged[n] = c /\ n # xboxs[c][p]
    BY <2>1, MessagesAssumption DEF PadTypes, DisConnect
  <2>4. t.rest = Disconnect(p) /\ left = Unlisting(p)
    BY <1>2, <1>18, ProgramOfPad DEF left
  <2>5. \A prog \in PadPrograms(p) : Doing(c, prog)' => prog = Unlisting(p)
    BY <1>7, <2>4
  <2>6. Unlisting(p) \notin {Connect(p), Registering(p)}
    BY FirstSteps
  <2>7. Tidy(c, p)'
    BY <1>14, <2>2, <2>5, <2>6 DEF Tidy
  <2>8. \A q \in Pads : Listed(c, q)' <=> Listed(c, q)
    BY <2>1 DEF Listed
  <2>9. \A q \in Pads : Tidy(c, q)'
    BY <1>10, <2>2, <2>7, <2>8
  <2>10. Owned(c)'
    BY <1>11, <1>12, <1>18, <2>2, <2>3 DEF Owned
  <2> QED
    BY <1>8, <1>9, <2>9, <2>10 DEF InOrder
<1>19. CASE do = "unlist"
  <2>1. /\ list' = [list EXCEPT ![c] = {e \in @ : e.pad # p}]
        /\ xboxs' = xboxs /\ plugged' = plugged
    BY <1>2, <1>3, <1>19 DEF PadStep
  <2>2. t.rest = Unlisting(p) /\ left = <<>>
    BY <1>2, <1>19, ProgramOfPad DEF left
  <2>3. list'[c] = {e \in list[c] : e.pad # p}
    BY <2>1 DEF PadTypes
  <2>4. \A q \in Pads : q # p => (Listed(c, q)' <=> Listed(c, q))
    BY <2>3 DEF Listed
  <2>5. \A prog \in PadPrograms(p) : ~ Doing(c, prog)'
    BY <1>7, <2>2, ProgramOfPad
  <2>6. xboxs[c][p] = 0
    BY <1>7, <1>13, <1>14, <2>2 DEF Tidy
  <2>7. Tidy(c, p)'
    BY <1>14, <2>1, <2>5, <2>6 DEF Tidy
  <2>8. \A q \in Pads : Tidy(c, q)'
    BY <1>10, <2>1, <2>4, <2>7
  <2>9. Owned(c)'
    BY <1>11, <1>12, <1>19, <2>1 DEF Owned
  <2> QED
    BY <1>8, <1>9, <2>8, <2>9 DEF InOrder
<1> QED
  BY <1>2, <1>15, <1>16, <1>17, <1>18, <1>19, ProgramOfPad

LEMMA PadsStep ==
    ASSUME TaskInv, PadInv, NEW t \in tasks, TaskStep(t)
    PROVE  PadInv'
<1> DEFINE s == Head(t.rest)
<1>1. PadTypes /\ PadTasks /\ PadTypes' /\ PadTasks' /\ TaskInv'
  BY PadTasksStep, StepTasks DEF PadInv
<1>2. /\ t.rest \in Seq(Steps) /\ t.rest # <<>> /\ t.conn \in Conns
      /\ After(t).rest = Tail(t.rest) /\ After(t).conn = t.conn
      /\ \A u \in tasks' : u # After(t) => u \in tasks /\ u # t
      /\ \A u \in tasks : u # t => u \in tasks'
  BY StepTasks
<1>3. PadsOf(Tail(t.rest)) \subseteq PadsOf(t.rest)
  BY <1>2, TailAbout
<1>4. UNCHANGED <<handler, joined, torn, cleaned, mixedPads>>
  BY DEF TaskStep, KeyStep, MoveStep, PadStep, connVars, padVars, padHistory
<1>5. SUFFICES ASSUME NEW c \in Conns \ mixedPads, InOrder(c) PROVE InOrder(c)'
  BY <1>1, <1>4 DEF PadInv
<1>6. CASE c = t.conn /\ PadsOf(t.rest) # {}
  <2>1. PICK p \in PadsOf(t.rest) : TRUE
    BY <1>6
  <2> QED
    BY <1>1, <1>5, <1>6, <2>1, PadStepInOrder
<1>7. CASE c # t.conn \/ PadsOf(t.rest) = {}
  <2>1. \A u \in tasks' : u.conn = c /\ PadsOf(u.rest) # {} => u \in tasks
    BY <1>2, <1>3, <1>7
  <2>2. \A u \in tasks : u.conn = c /\ PadsOf(u.rest) # {} => u \in tasks'
    BY <1>2, <1>7
  <2>3. /\ xboxs'[c] = xboxs[c] /\ list'[c] = list[c]
        /\ \A n \in 1 .. MaxMessages : plugged'[n] = c => plugged[n] = c
    <3>1. CASE KeyStep(s) \/ MoveStep(s)
      BY <3>1 DEF KeyStep, MoveStep, padVars
    <3>2. CASE PadStep(t, s) /\ c # t.conn
      <4>1. CASE s.do = "plug"
        BY <1>1, <3>2, <4>1 DEF PadStep, PadTypes
      <4>2. CASE s.do = "register"
        BY <1>1, <3>2, <4>2 DEF PadStep, PadTypes
      <4>3. CASE s.do = "enlist"
        BY <1>1, <3>2, <4>3 DEF PadStep, PadTypes
      <4>4. CASE s.do = "disconnect"
        <5>1. DisConnect(t.conn, s.arg) /\ list' = list
          BY <3>2, <4>4 DEF PadStep
        <5>2. xboxs'[c] = xboxs[c]
          BY <1>1, <1>5, <3>2, <5>1 DEF DisConnect, PadTypes
        <5>3. None # c
          BY MessagesAssumption
        <5>4. \A n \in 1 .. MaxMessages : plugged'[n] \in {plugged[n], None}
          BY <1>1, <5>1 DEF DisConnect, PadTypes
        <5> QED
          BY <5>1, <5>2, <5>3, <5>4
      <4>5. CASE s.do = "unlist"
        BY <1>1, <3>2, <4>5 DEF PadStep, PadTypes
      <4> QED
        BY <3>2, <4>1, <4>2, <4>3, <4>4, <4>5 DEF PadStep
    <3>3. CASE PadStep(t, s) /\ PadsOf(t.rest) = {}
      <4>1. s.do \in {"down", "up", "mode", "move"}
        BY <1>2, <3>3, TailAbout
      <4> QED
        BY <3>3, <4>1 DEF PadStep
    <3> QED
      BY <1>7, <3>1, <3>2, <3>3 DEF TaskStep
  <2> QED
    BY <1>1, <1>4, <1>5, <2>1, <2>2, <2>3, StaysInOrder
<1> QED
  BY <1>6, <1>7

LEMMA PadsReceive ==
    ASSUME TaskInv, PadInv, NEW c \in Conns, NEW m \in Message, Receive(c, m)
    PROVE  PadInv'
<1> DEFINE prog == HandleKey(m)
           new == [conn |-> c, n |-> received + 1, rest |-> prog]
<1>1. /\ TaskInv' /\ tasks \subseteq tasks' /\ \A u \in tasks' : u \in tasks \/ u = new
      /\ prog # <<>> <=> new \in tasks'
      /\ new.rest = prog /\ new.conn = c /\ prog \in Seq(Steps)
  BY ReceiveTasks
<1>2. UNCHANGED <<failed, handler, torn, cleaned, list, xboxs, plugged>> /\ handler[c] = "receives"
  BY DEF Receive, connVars, padVars
<1>3. PadTypes /\ PadTasks
  BY DEF PadInv
<1>4. CASE PadsOf(prog) = {} /\ (failed \/ joined' = joined)
  <2>1. mixedPads \subseteq mixedPads'
    BY DEF Receive, NotePads
  <2>2. joined' \in [Conns -> SUBSET Pads]
    <3>1. m.op \in {"gcon", "gdis"} => m.arg \in Pads
      BY DEF Message
    <3> QED
      BY <1>3, <3>1 DEF Receive, NotePads, PadTypes
  <2>3. PadTypes'
    BY <1>2, <1>3, <2>2 DEF PadTypes
  <2>4. PadTasks'
    BY <1>1, <1>2, <1>3, <1>4 DEF PadTasks
  <2>5. ASSUME NEW d \in Conns, InOrder(d) PROVE InOrder(d)'
    <3>1. /\ \A u \in tasks' : u.conn = d /\ PadsOf(u.rest) # {} => u \in tasks
          /\ \A u \in tasks : u.conn = d /\ PadsOf(u.rest) # {} => u \in tasks'
      BY <1>1, <1>4
    <3>2. CASE joined' = joined
      BY <1>1, <1>2, <1>3, <2>5, <3>1, <3>2, StaysInOrder
    <3>3. CASE failed
      <4>1. \A u \in tasks' : PadsOf(u.rest) = {}
        BY <1>3, <3>1, <1>1, <1>4, <3>3 DEF PadTasks
      <4>2. \A p \in Pads : xboxs'[d][p] = 0 /\ xboxs[d][p] = 0
        BY <1>2, <1>3, <3>3 DEF PadTasks
      <4>3. ASSUME NEW p \in Pads PROVE Tidy(d, p)'
        <5>1. \A prog2 \in PadPrograms(p) : ~ Doing(d, prog2)'
          <6>1. \A prog2 \in PadPrograms(p) : PadsOf(prog2) # {}
            BY ProgramOfPad
          <6> QED
            BY <4>1, <6>1 DEF Doing
        <5> QED
          BY <4>2, <5>1 DEF Tidy, PadPrograms
      <4>4. OneTask(d)'
        BY <4>1 DEF OneTask
      <4>5. Freeing(d)'
        BY <1>2, <2>5, <4>1, <4>2 DEF InOrder, Freeing
      <4>6. Owned(d)'
        <5>1. ASSUME NEW n \in 1 .. MaxMessages, plugged[n] = d PROVE FALSE
          <6>1. \A p \in Pads : xboxs[d][p] # n
            BY <4>2
          <6>2. ~ Registers(d, n)
            <7>1. \A p : PadsOf(Registering(p)) # {}
              <8>1. \A p : Registering(p) \in PadPrograms(p)
                BY DEF PadPrograms
              <8> QED
                BY <8>1, ProgramOfPad
            <7> QED
              BY <1>1, <4>1, <7>1 DEF Registers
          <6> QED
            BY <2>5, <5>1, <6>1, <6>2 DEF InOrder, Owned
        <5> QED
          BY <1>2, <5>1 DEF Owned
      <4> QED
        BY <4>3, <4>4, <4>5, <4>6 DEF InOrder
    <3> QED
      BY <1>4, <3>2, <3>3
  <2> QED
    BY <1>2, <2>1, <2>3, <2>4, <2>5 DEF PadInv
<1>5. CASE \/ m.op = "gcon" /\ m.arg \in Pads /\ ~ failed /\ prog = Connect(m.arg)
           \/ m.op = "gdis" /\ m.arg \in Pads /\ ~ failed /\ prog = Disconnect(m.arg)
  <2> DEFINE p == m.arg
  <2>1. p \in Pads /\ prog \in {Connect(p), Disconnect(p)} /\ prog \in PadPrograms(p) /\ ~ failed
    BY <1>5 DEF PadPrograms
  <2>2. PadsOf(prog) = {p} /\ prog # <<>>
    BY <2>1, ProgramOfPad
  <2>3. joined' = [joined EXCEPT ![c] = IF m.op = "gcon" THEN @ \cup {p} ELSE @ \ {p}]
    BY <1>5 DEF Receive, NotePads
  <2>4. /\ joined' \in [Conns -> SUBSET Pads]
        /\ joined'[c] = IF m.op = "gcon" THEN joined[c] \cup {p} ELSE joined[c] \ {p}
        /\ \A d \in Conns : d # c => joined'[d] = joined[d]
    BY <1>3, <2>1, <2>3 DEF PadTypes
  <2>5. PadTypes'
    BY <1>2, <1>3, <2>4 DEF PadTypes
  <2>6. PadTasks'
    BY <1>1, <1>2, <1>3, <2>1, <2>2 DEF PadTasks
  <2>7. /\ mixedPads \subseteq mixedPads'
        /\ c \notin mixedPads' =>
            /\ (UNION {PadsOf(t.rest) : t \in {u \in tasks : u.conn = c}}) \cap PadsOf(prog) = {}
            /\ ~ (m.op = "gcon" /\ p \in joined[c])
    BY DEF Receive, NotePads
  <2>8. ASSUME NEW d \in Conns, d # c, InOrder(d) PROVE InOrder(d)'
    <3>1. /\ \A u \in tasks' : u.conn = d /\ PadsOf(u.rest) # {} => u \in tasks
          /\ \A u \in tasks : u.conn = d /\ PadsOf(u.rest) # {} => u \in tasks'
      BY <1>1, <2>8
    <3> QED
      BY <1>1, <1>2, <1>3, <2>4, <2>8, <3>1, StaysInOrder
  <2>9. ASSUME InOrder(c), c \notin mixedPads' PROVE InOrder(c)'
    <3> HIDE DEF prog, p
    <3>1. \A u \in tasks : u.conn = c => p \notin PadsOf(u.rest)
      <4>1. SUFFICES ASSUME NEW u \in tasks, u.conn = c, p \in PadsOf(u.rest) PROVE FALSE
        OBVIOUS
      <4>2. p \in UNION {PadsOf(t.rest) : t \in {v \in tasks : v.conn = c}}
        BY <4>1
      <4> QED
        BY <2>2, <2>7, <2>9, <4>2
    <3> HIDE DEF new
    <3>2. OneTask(c)'
      <4>1. SUFFICES ASSUME NEW u \in tasks', NEW v \in tasks', u.conn = c, v.conn = c,
                            NEW q \in PadsOf(u.rest), q \in PadsOf(v.rest)
            PROVE  u = v
        BY DEF OneTask
      <4>2. u = new <=> v = new
        BY <1>1, <2>2, <3>1, <4>1
      <4> QED
        BY <1>1, <2>9, <4>1, <4>2 DEF InOrder, OneTask
    <3>3. Freeing(c)'
      BY <1>2 DEF Freeing
    <3>4. Owned(c)'
      <4>1. \A n : Registers(c, n) => Registers(c, n)'
        BY <1>1 DEF Registers
      <4> QED
        BY <1>2, <2>9, <4>1 DEF InOrder, Owned
    <3>5. ASSUME NEW q \in Pads, q # p PROVE Tidy(c, q)'
      <4>1. \A prog2 \in PadPrograms(q) : prog2 # prog
        BY <2>2, <3>5, ProgramOfPad
      <4>2. \A prog2 \in PadPrograms(q) : Doing(c, prog2)' <=> Doing(c, prog2)
        BY <1>1, <4>1 DEF Doing
      <4>3. (Listed(c, q)' <=> Listed(c, q)) /\ (q \in joined'[c] <=> q \in joined[c])
        BY <1>2, <2>4, <3>5 DEF Listed
      <4> QED
        BY <1>2, <2>9, <4>2, <4>3 DEF InOrder, Tidy, PadPrograms
    <3>6. Tidy(c, p)'
      <4>1. \A prog2 \in PadPrograms(p) : ~ Doing(c, prog2) /\ (Doing(c, prog2)' <=> prog2 = prog)
        <5>1. \A prog2 \in PadPrograms(p) : PadsOf(prog2) = {p}
          BY ProgramOfPad
        <5> QED
          BY <1>1, <2>2, <3>1, <5>1 DEF Doing
      <4>2. {Connect(p), Registering(p), Enlisting(p), Disconnect(p), Unlisting(p)} \subseteq PadPrograms(p)
        BY DEF PadPrograms
      <4>3. xboxs[c][p] # 0 => Listed(c, p) /\ p \in joined[c]
        BY <2>1, <2>9, <4>1, <4>2 DEF InOrder, Tidy
      <4>4. Listed(c, p)' <=> Listed(c, p)
        BY <1>2 DEF Listed
      <4>5. CASE m.op = "gcon"
        <5>1. prog = Connect(p) /\ p \in joined'[c] /\ xboxs[c][p] = 0
          BY <1>5, <2>4, <2>7, <2>9, <4>3, <4>5 DEF prog, p
        <5>2. Unlisting(p) # prog
          BY <5>1, FirstSteps
        <5> QED
          BY <1>2, <4>1, <4>2, <5>1, <5>2 DEF Tidy
      <4>6. CASE m.op = "gdis"
        <5>1. prog = Disconnect(p)
          BY <1>5, <4>6 DEF prog, p
        <5>2. prog \notin {Connect(p), Registering(p), Unlisting(p)}
          BY <5>1, FirstSteps
        <5> QED
          BY <1>2, <4>1, <4>2, <4>3, <4>4, <5>1, <5>2 DEF Tidy
      <4> QED
        BY <1>5, <4>5, <4>6
    <3> QED
      BY <3>2, <3>3, <3>4, <3>5, <3>6 DEF InOrder
  <2> QED
    BY <1>2, <2>5, <2>6, <2>7, <2>8, <2>9 DEF PadInv
<1>6. CASE m.op \notin {"gcon", "gdis"}
  <2>1. \A i \in DOMAIN prog : prog[i].do \in {"down", "up", "mode", "move"}
    <3>1. CASE m.op \in {"kd", "ku"}
      BY <3>1, Programs DEF Step
    <3>2. CASE m.op = "kr"
      BY <3>2, Programs, KeysUpAll
    <3>3. CASE m.op = "cp"
      BY <3>3, Programs DEF Step, Paste
    <3>4. CASE m.op \in {"mma", "mmr"}
      BY <3>4, Programs DEF Step, Move
    <3> QED
      BY <1>6, <3>1, <3>2, <3>3, <3>4, Programs
  <2>2. PadsOf(prog) = {}
    <3>1. ASSUME NEW a \in PadsOf(prog) PROVE FALSE
      BY <1>1, <2>1, <3>1, AboutPads
    <3> QED
      BY <3>1
  <2>3. joined' = joined
    BY <1>3, <1>6 DEF Receive, NotePads, PadTypes
  <2> QED
    BY <1>4, <2>2, <2>3
<1>7. CASE m.op \in {"gcon", "gdis"} /\ failed
  <2>1. prog = <<>>
    BY <1>7, Programs
  <2>2. PadsOf(prog) = {}
    BY <2>1 DEF PadsOf, ToSet
  <2> QED
    BY <1>4, <1>7, <2>2
<1> QED
  BY <1>5, <1>6, <1>7, Programs

\* A connection ends with no pad message under way, unless it is mixed.
LEMMA PadsEnd ==
    ASSUME TaskInv, PadInv, NEW c \in Conns, ReceiveEnds(c)
    PROVE  PadInv'
<1>1. /\ UNCHANGED <<failed, list, torn, xboxs, plugged, tasks, received, joined>>
      /\ handler' = [handler EXCEPT ![c] = "cleans"]
      /\ cleaned' = [cleaned EXCEPT ![c] = [of |-> list[c], left |-> list[c]]]
  BY DEF ReceiveEnds
<1>2. PadTypes /\ PadTasks
  BY DEF PadInv
<1>3. PadTypes'
  <2>1. [of |-> list[c], left |-> list[c]] \in [of : SUBSET Entries, left : SUBSET Entries]
    BY <1>2 DEF PadTypes
  <2> QED
    BY <1>1, <1>2, <2>1 DEF PadTypes
<1>4. PadTasks' /\ TaskInv'
  BY <1>1, <1>2 DEF PadTasks, TaskInv
<1>5. /\ mixedPads \subseteq mixedPads'
      /\ c \notin mixedPads' => \A t \in tasks : t.conn = c => PadsOf(t.rest) = {}
  BY DEF ReceiveEnds
<1>6. ASSUME NEW d \in Conns, d # c, InOrder(d) PROVE InOrder(d)'
  <2>1. handler'[d] = handler[d] /\ cleaned'[d] = cleaned[d]
    BY <1>1, <1>2, <1>6 DEF PadTypes
  <2> QED
    BY <1>1, <1>2, <1>4, <1>6, <2>1, StaysInOrder
<1>7. ASSUME InOrder(c), c \notin mixedPads' PROVE InOrder(c)'
  <2>1. handler'[c] = "cleans" /\ cleaned'[c].of = list[c] /\ cleaned'[c].left = list[c]
    BY <1>1, <1>2 DEF PadTypes
  <2>2. ASSUME NEW p \in Pads, xboxs[c][p] # 0 PROVE Listed(c, p)
    <3>1. PadsOf(Enlisting(p)) # {}
      <4>1. Enlisting(p) \in PadPrograms(p)
        BY DEF PadPrograms
      <4> QED
        BY <4>1, ProgramOfPad
    <3>2. ~ Doing(c, Enlisting(p))
      BY <1>5, <1>7, <3>1 DEF Doing
    <3> QED
      BY <1>7, <2>2, <3>2 DEF InOrder, Tidy
  <2>3. Freeing(c)'
    BY <1>1, <1>5, <1>7, <2>1, <2>2 DEF Freeing, Listed
  <2>4. OneTask(c)' /\ Owned(c)'
    BY <1>1, <1>7 DEF InOrder, OneTask, Owned, Registers
  <2>5. \A p \in Pads : Tidy(c, p)'
    BY <1>1, <1>7 DEF InOrder, Tidy, Doing, Listed
  <2> QED
    BY <2>3, <2>4, <2>5 DEF InOrder
<1> QED
  BY <1>1, <1>3, <1>4, <1>5, <1>6, <1>7 DEF PadInv

\* ForEach disconnects one pad after the other.
LEMMA PadsClean ==
    ASSUME TaskInv, PadInv, NEW c \in Conns, Clean(c)
    PROVE  PadInv'
<1>1. PICK e \in cleaned[c].left :
        DisConnect(c, e.pad) /\ cleaned' = [cleaned EXCEPT ![c].left = @ \ {e}]
  BY DEF Clean
<1>2. /\ UNCHANGED <<failed, handler, list, torn, tasks, received, joined, mixedPads>>
      /\ handler[c] = "cleans"
  BY DEF Clean, connVars, padHistory
<1>3. PadTypes /\ PadTasks /\ e.pad \in Pads
  BY <1>1 DEF PadInv, PadTypes, Entries
<1>4. /\ xboxs' = [xboxs EXCEPT ![c][e.pad] = 0]
      /\ \A d \in Conns : d # c => xboxs'[d] = xboxs[d] /\ cleaned'[d] = cleaned[d]
      /\ xboxs'[c][e.pad] = 0 /\ \A p \in Pads : p # e.pad => xboxs'[c][p] = xboxs[c][p]
      /\ cleaned'[c].of = cleaned[c].of /\ cleaned'[c].left = cleaned[c].left \ {e}
  BY <1>1, <1>3 DEF DisConnect, PadTypes
<1>5. \A n \in 1 .. MaxMessages : plugged'[n] \in {plugged[n], None}
                                   /\ (n = xboxs[c][e.pad] => plugged'[n] = None)
  BY <1>1, <1>3 DEF DisConnect, PadTypes
<1>6. PadTypes'
  <2>1. xboxs' \in [Conns -> [Pads -> 0 .. MaxMessages]]
    <3>1. 0 \in 0 .. MaxMessages
      BY MessagesAssumption
    <3> QED
      BY <1>3, <1>4, <3>1 DEF PadTypes
  <2>2. plugged' \in [1 .. MaxMessages -> Conns \cup {None}]
    BY <1>1, <1>3 DEF DisConnect, PadTypes
  <2>3. cleaned' \in [Conns -> [of : SUBSET Entries, left : SUBSET Entries]]
    BY <1>1, <1>3 DEF PadTypes
  <2> QED
    BY <1>2, <1>3, <2>1, <2>2, <2>3 DEF PadTypes
<1>7. PadTasks' /\ TaskInv'
  <2>1. \A d \in Conns, p \in Pads : xboxs'[d][p] \in {0, xboxs[d][p]}
    <3>1. SUFFICES ASSUME NEW d \in Conns, NEW p \in Pads PROVE xboxs'[d][p] \in {0, xboxs[d][p]}
      OBVIOUS
    <3>2. CASE d = c
      BY <1>4, <3>2
    <3>3. CASE d # c
      BY <1>4, <3>3
    <3> QED
      BY <3>2, <3>3
  <2>2. TaskInv'
    BY <1>2 DEF TaskInv
  <2> QED
    BY <1>2, <1>3, <2>1, <2>2 DEF PadTasks
<1>8. ASSUME NEW d \in Conns, d # c, InOrder(d) PROVE InOrder(d)'
  <2>1. \A n \in 1 .. MaxMessages : plugged'[n] = d => plugged[n] = d
    BY <1>5, MessagesAssumption
  <2> QED
    BY <1>2, <1>3, <1>4, <1>7, <1>8, <2>1, StaysInOrder
<1>9. ASSUME InOrder(c) PROVE InOrder(c)'
  <2>1. OneTask(c)'
    BY <1>2, <1>9 DEF InOrder, OneTask
  <2>2. Owned(c)'
    <3>1. ASSUME NEW n \in 1 .. MaxMessages, plugged'[n] = c
          PROVE  plugged[n] = c /\ n # xboxs[c][e.pad]
      BY <1>5, <3>1, MessagesAssumption
    <3>2. \A n : Registers(c, n)' <=> Registers(c, n)
      BY <1>2 DEF Registers
    <3> QED
      BY <1>4, <1>9, <3>1, <3>2 DEF InOrder, Owned
  <2>3. Freeing(c)'
    <3>1. ASSUME NEW p \in Pads, xboxs'[c][p] # 0
          PROVE  \E f \in cleaned'[c].left : f.pad = p
      <4>1. p # e.pad /\ xboxs[c][p] # 0
        BY <1>4, <3>1
      <4>2. PICK f \in cleaned[c].left : f.pad = p
        BY <1>2, <1>9, <4>1 DEF InOrder, Freeing
      <4> QED
        BY <1>4, <4>1, <4>2
    <3> QED
      BY <1>2, <1>4, <1>9, <3>1 DEF InOrder, Freeing
  <2>4. ASSUME NEW p \in Pads PROVE Tidy(c, p)'
    <3>1. xboxs'[c][p] \in {0, xboxs[c][p]}
      BY <1>4
    <3>2. Listed(c, p)' <=> Listed(c, p)
      BY <1>2 DEF Listed
    <3>3. \A prog : Doing(c, prog)' <=> Doing(c, prog)
      BY <1>2 DEF Doing
    <3> QED
      BY <1>2, <1>9, <3>1, <3>2, <3>3 DEF InOrder, Tidy
  <2> QED
    BY <2>1, <2>2, <2>3, <2>4 DEF InOrder
<1> QED
  BY <1>2, <1>6, <1>7, <1>8, <1>9 DEF PadInv

\* ForEach is through with a list that nobody changed.
LEMMA PadsCleaned ==
    ASSUME TaskInv, PadInv, NEW c \in Conns, Cleaned(c)
    PROVE  PadInv'
<1>1. /\ UNCHANGED <<failed, torn, cleaned, list, xboxs, plugged, tasks, received, joined, mixedPads>>
      /\ handler' = [handler EXCEPT ![c] = "done"] /\ handler[c] = "cleans"
      /\ list[c] # cleaned[c].of \/ c \in torn \/ cleaned[c].left = {}
  BY DEF Cleaned, padVars, padHistory
<1>2. PadTypes /\ PadTasks
  BY DEF PadInv
<1>3. PadTypes' /\ PadTasks' /\ TaskInv'
  BY <1>1, <1>2 DEF PadTypes, PadTasks, TaskInv
<1>4. ASSUME NEW d \in Conns, d # c, InOrder(d) PROVE InOrder(d)'
  <2>1. handler'[d] = handler[d]
    BY <1>1, <1>2, <1>4 DEF PadTypes
  <2> QED
    BY <1>1, <1>2, <1>3, <1>4, <2>1, StaysInOrder
<1>5. ASSUME InOrder(c), c \notin mixedPads PROVE InOrder(c)'
  <2>1. handler'[c] = "done" /\ c \notin torn
    BY <1>1, <1>2, <1>5 DEF PadInv, PadTypes
  <2>2. \A p \in Pads : xboxs[c][p] = 0
    BY <1>1, <1>5, <2>1 DEF InOrder, Freeing
  <2>3. Freeing(c)'
    BY <1>1, <1>5, <2>1, <2>2 DEF InOrder, Freeing
  <2>4. OneTask(c)' /\ Owned(c)'
    BY <1>1, <1>5 DEF InOrder, OneTask, Owned, Registers
  <2>5. \A p \in Pads : Tidy(c, p)'
    BY <1>1, <1>5 DEF InOrder, Tidy, Doing, Listed
  <2> QED
    BY <2>3, <2>4, <2>5 DEF InOrder
<1> QED
  BY <1>1, <1>3, <1>4, <1>5 DEF PadInv

\* Tasks that change the list at one moment are about nothing but pads.
LEMMA RacedTasks ==
    ASSUME TaskInv, PadTasks, NEW c, NEW t \in OnList(c)
    PROVE  /\ t \in tasks /\ t.conn = c /\ t.n \in Nat /\ Head(t.rest).arg \in Pads
           /\ KeysOf(t.rest) = {}
<1> DEFINE s == Head(t.rest)
<1>1. /\ t \in tasks /\ t.conn = c /\ s.do \in {"enlist", "unlist"}
      /\ t.rest \in Seq(Steps) /\ t.rest # <<>> /\ t.n \in Nat
  BY DEF OnList, TaskInv
<1>2. s.arg \in PadsOf(t.rest)
  BY <1>1, TailAbout
<1>3. PICK p \in PadsOf(t.rest) : p = s.arg
  BY <1>2
<1>4. p \in Pads /\ t.rest \in PadPrograms(p)
  BY <1>1, PadHead
<1>5. t.rest \in {Enlisting(p), Unlisting(p)}
  BY <1>1, <1>4, ProgramOfPad
<1>6. KeysOf(Enlisting(p)) = {} /\ KeysOf(Unlisting(p)) = {}
  BY DEF KeysOf, ToSet, Enlisting, Unlisting, Step
<1> QED
  BY <1>1, <1>3, <1>4, <1>5, <1>6

\* They leave the connection mixed, and the others as they were.
LEMMA RaceKeeps ==
    ASSUME ServiceInv, NEW c \in Conns, ListRace(c)
    PROVE  ServiceInv'
<1>1. TaskInv /\ KeyInv /\ ModeInv /\ PadInv /\ PadTypes /\ PadTasks
  BY DEF ServiceInv, PadInv
<1>2. PICK raced \in SUBSET OnList(c) :
        /\ tasks' = tasks \ raced
        /\ \E kept \in SUBSET (list[c] \cup {[pad |-> Head(t.rest).arg, n |-> t.n] :
                                  t \in {u \in raced : Head(u.rest).do = "enlist"}}) :
              list' = [list EXCEPT ![c] = kept]
  BY DEF ListRace
<1>3. /\ torn' \subseteq torn \cup {c} /\ mixedPads' = mixedPads \cup {c}
      /\ UNCHANGED <<failed, handler, cleaned, xboxs, plugged, received, down, mode,
                     want, mixedKeys, mixedModes, misread, joined>>
  BY DEF ListRace, connVars, osVars, keyHistory, modeHistory
<1>4. \A t \in raced : t \in tasks /\ t.conn = c /\ KeysOf(t.rest) = {}
  BY <1>1, <1>2, RacedTasks
<1>5. TaskInv'
  BY <1>1, <1>2, <1>3 DEF TaskInv
<1>6. KeyInv'
  <2>1. \A k : (\A t \in tasks' : k \notin KeysOf(t.rest)) => \A t \in tasks : k \notin KeysOf(t.rest)
    BY <1>2, <1>4
  <2>2. SUFFICES ASSUME NEW k \in Keys \ mixedKeys
        PROVE  /\ \A t, u \in tasks' : k \in KeysOf(t.rest) \cap KeysOf(u.rest) => t = u
               /\ \A t \in tasks' : k \in KeysOf(t.rest) => LastStep(t.rest, k, Wanted(k))
               /\ (\A t \in tasks' : k \notin KeysOf(t.rest)) => (k \in down <=> k \in want)
    BY <1>3, <2>1 DEF KeyInv, Wanted
  <2> QED
    BY <1>1, <1>2, <2>1, <2>2 DEF KeyInv
<1>7. ModeInv'
  BY <1>1, <1>2, <1>3 DEF ModeInv
<1>8. PadTypes'
  <2>1. list' \in [Conns -> SUBSET Entries]
    <3>1. \A t \in raced : [pad |-> Head(t.rest).arg, n |-> t.n] \in Entries
      BY <1>1, <1>2, RacedTasks DEF Entries
    <3> QED
      BY <1>1, <1>2, <3>1 DEF PadTypes
  <2> QED
    BY <1>1, <1>3, <2>1 DEF PadTypes
<1>9. PadTasks'
  BY <1>1, <1>2, <1>3 DEF PadTasks
<1>10. ASSUME NEW d \in Conns, d # c, InOrder(d) PROVE InOrder(d)'
  <2>1. list'[d] = list[d]
    BY <1>1, <1>2, <1>10 DEF PadTypes
  <2>2. /\ \A u \in tasks' : u.conn = d /\ PadsOf(u.rest) # {} => u \in tasks
        /\ \A u \in tasks : u.conn = d /\ PadsOf(u.rest) # {} => u \in tasks'
    BY <1>2, <1>4, <1>10
  <2> QED
    BY <1>1, <1>3, <1>5, <1>10, <2>1, <2>2, StaysInOrder
<1> QED
  BY <1>1, <1>3, <1>5, <1>6, <1>7, <1>8, <1>9, <1>10 DEF ServiceInv, PadInv

-----------------------------------------------------------------------------
(* The theorems.                                                           *)

LEMMA ServiceInit == ASSUME Init PROVE ServiceInv
<1>1. TaskInv
  BY MessagesAssumption DEF Init, TaskInv
<1>2. KeyInv
  BY DEF Init, KeyInv
<1>3. ModeInv
  BY DEF Init, ModeInv
<1>4. PadInv
  <2>1. 0 \in 0 .. MaxMessages /\ \A n \in 1 .. MaxMessages : n # 0
    BY MessagesAssumption
  <2>2. PadTypes
    BY <2>1 DEF Init, PadTypes
  <2>3. PadTasks
    BY DEF Init, PadTasks
  <2>4. ASSUME NEW c \in Conns PROVE InOrder(c)
    <3>1. OneTask(c) /\ Owned(c)
      BY MessagesAssumption DEF Init, OneTask, Owned
    <3>2. Freeing(c)
      BY DEF Init, Freeing
    <3>3. \A p \in Pads : Tidy(c, p)
      BY DEF Init, Tidy, Doing
    <3> QED
      BY <3>1, <3>2, <3>3 DEF InOrder
  <2>5. torn \subseteq mixedPads
    BY DEF Init
  <2> QED
    BY <2>2, <2>3, <2>4, <2>5 DEF PadInv
<1> QED
  BY <1>1, <1>2, <1>3, <1>4 DEF ServiceInv

LEMMA ServiceInductive == ASSUME ServiceInv, [Next]_vars PROVE ServiceInv'
<1>1. TaskInv /\ KeyInv /\ ModeInv /\ PadInv
  BY DEF ServiceInv
<1>2. ASSUME UNCHANGED <<tasks, received, down, mode, keyHistory, modeHistory>>
      PROVE  TaskInv' /\ KeyInv' /\ ModeInv'
  <2>1. TaskInv'
    BY <1>1, <1>2 DEF TaskInv
  <2>2. KeyInv'
    BY <1>1, <1>2 DEF KeyInv, Wanted, keyHistory
  <2>3. ModeInv'
    BY <1>1, <1>2 DEF ModeInv, modeHistory
  <2> QED
    BY <2>1, <2>2, <2>3
<1>3. ASSUME UNCHANGED <<failed, handler, padVars, tasks, padHistory>>, TaskInv'
      PROVE  PadInv'
  <2>1. PadTypes' /\ PadTasks'
    BY <1>1, <1>3 DEF PadInv, PadTypes, PadTasks, padVars, padHistory
  <2>2. ASSUME NEW c \in Conns, InOrder(c) PROVE InOrder(c)'
    BY <1>1, <1>3, <2>2, StaysInOrder DEF PadInv, padVars, padHistory
  <2> QED
    BY <1>1, <1>3, <2>1, <2>2 DEF PadInv, padVars, padHistory
<1>4. CASE UNCHANGED vars
  BY <1>2, <1>3, <1>4 DEF vars, connVars, osVars, ServiceInv
<1>5. ASSUME NEW c \in Conns, NEW m \in Message, Receive(c, m)
      PROVE  ServiceInv'
  <2>1. TaskInv'
    BY <1>1, <1>5, ReceiveTasks
  <2> QED
    BY <1>1, <1>5, <2>1, KeysReceive, ModesReceive, PadsReceive DEF ServiceInv
<1>6. ASSUME NEW t \in tasks, TaskStep(t)
      PROVE  ServiceInv'
  <2>1. TaskInv'
    BY <1>1, <1>6, StepTasks
  <2> QED
    BY <1>1, <1>6, <2>1, KeysStep, ModesStep, PadsStep DEF ServiceInv
<1>7. ASSUME NEW c \in Conns, ReceiveEnds(c)
      PROVE  ServiceInv'
  <2>1. PadInv'
    BY <1>1, <1>7, PadsEnd
  <2> QED
    BY <1>2, <1>7, <2>1 DEF ReceiveEnds, osVars, ServiceInv
<1>8. ASSUME NEW c \in Conns, Clean(c)
      PROVE  ServiceInv'
  <2>1. PadInv'
    BY <1>1, <1>8, PadsClean
  <2> QED
    BY <1>2, <1>8, <2>1 DEF Clean, osVars, ServiceInv
<1>9. ASSUME NEW c \in Conns, Cleaned(c)
      PROVE  ServiceInv'
  <2>1. PadInv'
    BY <1>1, <1>9, PadsCleaned
  <2> QED
    BY <1>2, <1>9, <2>1 DEF Cleaned, osVars, ServiceInv
<1>10. ASSUME NEW c \in Conns,
              ReceivePing(c) \/ WatchdogLooks(c) \/ PeerLeaves(c) \/ PeerHangs(c)
       PROVE  ServiceInv'
  BY <1>2, <1>3, <1>10
  DEF ReceivePing, WatchdogLooks, PeerLeaves, PeerHangs, osVars, ServiceInv
<1>11. ASSUME NEW c \in Conns, ListRace(c)
       PROVE  ServiceInv'
  BY <1>11, RaceKeeps
<1> QED
  BY <1>4, <1>5, <1>6, <1>7, <1>8, <1>9, <1>10, <1>11 DEF Next

\* When the tasks are through a key is down exactly if the messages, in the
\* order received, say so, whatever overlapped elsewhere: of any number of
\* messages only those about one key that met can have left it wrong.
THEOREM KeysFollowMessagesHolds == Spec => []KeysFollowMessages
<1>1. Init => ServiceInv
  BY ServiceInit
<1>2. ServiceInv => KeysFollowMessages
  BY DEF ServiceInv, KeyInv, KeysFollowMessages
<1> QED
  BY <1>1, <1>2, ServiceInductive, PTL DEF Spec

\* A move is read in the other mode only after moves of both modes met.
THEOREM ModeReadAsSentHolds == Spec => []ModeReadAsSent
<1>1. Init => ServiceInv
  BY ServiceInit
<1>2. ServiceInv => ModeReadAsSent
  BY Zenon DEF ServiceInv, ModeInv, ModeReadAsSent
<1> QED
  BY <1>1, <1>2, ServiceInductive, PTL DEF Spec

\* The end of a connection unplugs all its controllers, for any number of pads
\* and messages, unless messages about one pad overlapped or repeated a connect,
\* messages about any pads changed the list at one moment, or one was running
\* at the end.
THEOREM PadsReleasedHolds == Spec => []PadsReleased
<1>1. Init => ServiceInv
  BY ServiceInit
<1>2. ASSUME ServiceInv PROVE PadsReleased
  <2>1. SUFFICES ASSUME NEW c \in Conns \ mixedPads, handler[c] = "done",
                        NEW n \in DOMAIN plugged, plugged[n] = c
        PROVE  FALSE
    BY DEF PadsReleased
  <2>2. PadTypes /\ InOrder(c)
    BY <1>2 DEF ServiceInv, PadInv
  <2>3. n \in 1 .. MaxMessages /\ n # 0
    BY <2>1, <2>2, MessagesAssumption DEF PadTypes
  <2>4. \A p \in Pads : xboxs[c][p] = 0
    BY <2>1, <2>2 DEF InOrder, Freeing
  <2>5. Registers(c, n)
    BY <2>1, <2>2, <2>3, <2>4 DEF InOrder, Owned
  <2>6. PICK t \in tasks, p \in Pads : t.conn = c /\ t.rest = Registering(p)
    BY <2>5 DEF Registers
  <2>7. Registering(p) \in PadPrograms(p)
    BY DEF PadPrograms
  <2>8. PadsOf(t.rest) = {p}
    BY <2>6, <2>7, ProgramOfPad
  <2> QED
    BY <2>1, <2>2, <2>6, <2>8 DEF InOrder, Freeing
<1> QED
  BY <1>1, <1>2, ServiceInductive, PTL DEF Spec

=============================================================================
