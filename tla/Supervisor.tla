----------------------------- MODULE Supervisor -----------------------------
(***************************************************************************)
(* signaling/index.ts: SignalingServer runs the signaling server as a      *)
(* child process and starts it again, from a timer, when it has ended.     *)
(* Node's event loop runs the timers, the calls and the events of the      *)
(* children one at a time; "close" comes after "exit", as late as          *)
(* something holds the child's output open.                                *)
(***************************************************************************)
EXTENDS Naturals

CONSTANTS
    MaxSpawns,   \* bound: children ever spawned
    MaxStarts    \* bound: calls of Start

ASSUME SupervisorBounds == MaxSpawns \in Nat /\ MaxStarts \in Nat

Children == 1 .. MaxSpawns

VARIABLES
    timer,     \* the last interval made, 0 for none
    timers,    \* intervals that run
    stop, childExited, process, \* stop, exited, process of SignalingServer;
               \* children are numbered
    running,   \* children that run
    killed,    \* those among them that were sent a signal
    exits, closes, \* children whose event is to come
    late       \* history: an "exit" or "close" came of a child with a successor

supervisorVars ==
    <<timer, timers, stop, childExited, process, running, killed, exits, closes, late>>

SupervisorInit ==
    /\ timer = 0 /\ timers = {} /\ stop = FALSE /\ childExited = TRUE /\ process = 0
    /\ running = {} /\ killed = {} /\ exits = {} /\ closes = {} /\ late = FALSE

\* A second Start makes a second interval and forgets the first.
Start ==
    /\ timer < MaxStarts
    /\ stop' = FALSE
    /\ timer' = timer + 1 /\ timers' = timers \cup {timer + 1}
    /\ UNCHANGED <<childExited, process, running, killed, exits, closes, late>>

Stop ==
    /\ stop' = TRUE
    /\ timers' = timers \ {timer}
    /\ killed' = killed \cup ({process} \cap running)
    /\ UNCHANGED <<timer, childExited, process, running, exits, closes, late>>

\* Faulty variant: exited is left for the "spawn" event to reset.
SpawnStillExited ==
    /\ ~ stop /\ process < MaxSpawns
    /\ process' = process + 1
    /\ running' = running \cup {process'} /\ UNCHANGED <<childExited, closes>>

\* The test for a failure looks at Node's global process and is never true; a
\* spawn that fails has no "exit", only an "error", which is logged, and a "close".
Spawn ==
    /\ ~ stop /\ process < MaxSpawns
    /\ process' = process + 1
    /\ childExited' = FALSE
    /\ \/ running' = running \cup {process'} /\ UNCHANGED closes
       \/ closes' = closes \cup {process'} /\ UNCHANGED running

Tick ==
    /\ timers # {} /\ childExited
    /\ Spawn
    /\ UNCHANGED <<timer, timers, stop, killed, exits, late>>

\* A child ends by itself, or because of the signal.
Ends(c) ==
    /\ c \in running
    /\ running' = running \ {c} /\ killed' = killed \ {c}
    /\ exits' = exits \cup {c}
    /\ UNCHANGED <<timer, timers, stop, childExited, process, closes, late>>

OnExit(c) ==
    /\ c \in exits /\ exits' = exits \ {c}
    /\ closes' = closes \cup {c}
    /\ childExited' = TRUE
    /\ late' = (late \/ c # process)
    /\ UNCHANGED <<timer, timers, stop, process, running, killed>>

\* Faulty variant: only "exit" is taken for the end of a child.
OnCloseLogs(c) ==
    /\ c \in closes /\ closes' = closes \ {c}
    /\ UNCHANGED <<timer, timers, stop, childExited, process, running, killed, exits, late>>

OnClose(c) ==
    /\ c \in closes /\ closes' = closes \ {c}
    /\ childExited' = TRUE
    /\ late' = (late \/ c # process)
    /\ UNCHANGED <<timer, timers, stop, process, running, killed, exits>>

SupervisorNext ==
    \/ Start \/ Stop \/ Tick
    \/ \E c \in Children : Ends(c) \/ OnExit(c) \/ OnClose(c)

SupervisorSpec == SupervisorInit /\ [][SupervisorNext]_supervisorVars

\* Node delivers events and runs timers; a child that is killed ends.
SupervisorFairness ==
    /\ WF_supervisorVars(Tick)
    /\ \A c \in Children : /\ WF_supervisorVars(c \in killed /\ Ends(c))
                           /\ WF_supervisorVars(OnExit(c)) /\ WF_supervisorVars(OnClose(c))

FairSupervisorSpec == SupervisorSpec /\ SupervisorFairness

-----------------------------------------------------------------------------
\* Two signaling servers run at a time only after the end of one was reported
\* when its successor had been spawned.
OneChild == (\A c, d \in running : c = d) \/ late

\* A server that has ended, or could not be spawned, is spawned again.
EndedIsReplaced ==
    \A n \in 0 .. MaxSpawns - 1 :
        (process = n /\ n \notin running /\ timers # {}) ~> (process # n \/ stop)

=============================================================================
