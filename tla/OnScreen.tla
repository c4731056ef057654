------------------------------- MODULE OnScreen -------------------------------
(***************************************************************************)
(* The on-screen gamepad and mouse of a mobile page                        *)
(* (client/browser/components) on top of HID: the menu that opens and      *)
(* closes them, their buttons and sticks, the place where the user drags   *)
(* them.  BrowserInput is the HID they call; it does not exist until the   *)
(* hub's "hid" channel has come.  The four groups of controls are dragged  *)
(* in the same way: one, the gamepad's, stands for them.                   *)
(***************************************************************************)
EXTENDS BrowserInput

CONSTANTS
    Places         \* where a group can be

VARIABLES
    hid,           \* HID exists
    padMode, mouseMode, \* ButtonMode of the gamepad and of the mouse
    early,         \* history: HID has not been told that a device is open
    held,          \* controls under a finger
    enableJT,      \* sticks: what their handlers believe
    sent,          \* controls that the remote takes for held
    lost,          \* history: controls whose finger left unseen
    posBtn,        \* the group's place, as last set
    rendered,      \* the place that its handlers see
    dragging,
    stored,        \* the place in localStorage, or the default if there is none
    unsaved        \* history: the last place was not stored

onScreenVars == <<hid, padMode, mouseMode, early, held, enableJT, sent, lost,
                  posBtn, rendered, dragging, stored, unsaved>>
controlVars == <<held, enableJT, sent, lost>>
placeVars == <<posBtn, rendered, dragging, stored, unsaved>>
modeVars == <<hid, padMode, mouseMode, early>>
inputVars == <<platform, userVars, keyVars, mouseVars, touchVars, padVars, remoteButtons>>
allVars == <<vars, onScreenVars>>

\* One button and one stick of each device.
PadControls == {"button", "padStick"}
MouseControls == {"click", "mouseStick"}
Sticks == {"padStick", "mouseStick"}

Open(c) == IF c \in PadControls THEN padMode # "disable" ELSE mouseMode # "disable"
Visible == padMode # "disable" \/ mouseMode # "disable"

OnScreenInit ==
    /\ Init
    /\ hid = FALSE /\ padMode = "disable" /\ mouseMode = "disable" /\ early = FALSE
    /\ held = {} /\ enableJT = [s \in Sticks |-> "no"] /\ sent = {} /\ lost = {}
    /\ stored \in Places
    /\ posBtn = stored /\ rendered = stored /\ dragging = FALSE /\ unsaved = FALSE

-----------------------------------------------------------------------------
\* The HID starts with mouse and touches enabled, whatever is open by then.
HidChannel ==
    /\ ~ hid /\ hid' = TRUE
    /\ UNCHANGED <<vars, padMode, mouseMode, early, controlVars, placeVars>>

NextMode == [disable |-> "draggable", draggable |-> "static", static |-> "disable"]

\* Faulty variant: the effect looks at the gamepad only.
ToggleByGamepad ==
    /\ early' = (Visible' /\ ~ hid)
    /\ IF hid /\ (padMode' # "disable") # disableTouch
       THEN ToggleMouseTouch(padMode' # "disable")
       ELSE Does /\ UNCHANGED inputVars

\* The effect on the two modes.  Telling HID what it knows changes nothing.
ToggleEffect ==
    /\ early' = (Visible' /\ ~ hid)
    /\ IF hid /\ Visible' # disableTouch
       THEN ToggleMouseTouch(Visible')
       ELSE Does /\ UNCHANGED inputVars

\* Faulty variant: the timer of the mouse's stick outlives it.
UnmountLeaks(controls) ==
    /\ held' = held \ controls
    /\ lost' = lost \cup (held \cap controls)
    /\ enableJT' = [s \in Sticks |-> IF s \in controls THEN "no" ELSE enableJT[s]]
    /\ UNCHANGED sent

\* The controls of a closed device are gone before their finger is lifted.  The
\* mouse's stick takes its timer with it, so the pointer stops.
Unmount(controls) ==
    /\ held' = held \ controls
    /\ lost' = lost \cup (held \cap controls)
    /\ enableJT' = [s \in Sticks |-> IF s \in controls THEN "no" ELSE enableJT[s]]
    /\ sent' = sent \ (controls \cap {"mouseStick"})

\* A group that appears takes the place that is stored.
MountGroup ==
    /\ posBtn' = stored /\ rendered' = stored /\ unsaved' = FALSE
    /\ UNCHANGED <<dragging, stored>>

\* Closed while it is dragged, it stores nothing.  A drag that is under way goes
\* on when dragging is switched off.
EditVGamepad ==
    /\ platform = "mobile"
    /\ padMode' = NextMode[padMode] /\ UNCHANGED <<hid, mouseMode>>
    /\ IF padMode' = "disable" THEN Unmount(PadControls) ELSE UNCHANGED controlVars
    /\ IF padMode = "disable" THEN MountGroup
       ELSE /\ dragging' = (dragging /\ padMode' # "disable")
            /\ UNCHANGED <<posBtn, rendered, stored, unsaved>>
    /\ ToggleEffect

EnableVMouse ==
    /\ platform = "mobile"
    /\ mouseMode' = NextMode[mouseMode] /\ UNCHANGED <<hid, padMode>>
    /\ IF mouseMode' = "disable" THEN Unmount(MouseControls) ELSE UNCHANGED controlVars
    /\ ToggleEffect
    /\ UNCHANGED placeVars

-----------------------------------------------------------------------------
(* Buttons and sticks.  HID's own handlers hear these touches too: that is *)
(* TouchStart.                                                             *)

Touchable(c) == hid /\ Open(c) /\ c \notin held

Press ==
    /\ \/ /\ Touchable("button") /\ VirtualGamepadButton("down")
          /\ held' = held \cup {"button"} /\ sent' = sent \cup {"button"}
       \/ /\ Touchable("click") /\ VirtualMouseButton(Left, "down")
          /\ held' = held \cup {"click"} /\ sent' = sent \cup {"click"}
    /\ UNCHANGED <<modeVars, enableJT, lost, placeVars>>

Release ==
    /\ \/ /\ "button" \in held /\ VirtualGamepadButton("up")
          /\ held' = held \ {"button"} /\ sent' = sent \ {"button"} /\ lost' = lost \ {"button"}
       \/ /\ "click" \in held /\ VirtualMouseButton(Left, "up")
          /\ held' = held \ {"click"} /\ sent' = sent \ {"click"} /\ lost' = lost \ {"click"}
    /\ UNCHANGED <<modeVars, enableJT, placeVars>>

\* The browser cancels a touch: no button and no stick listens to that.  A stick
\* keeps its position, and the timer of the mouse's stick goes on sending it.
Cancel(c) ==
    /\ Does
    /\ c \in held
    /\ held' = held \ {c} /\ lost' = lost \cup {c}
    /\ UNCHANGED <<inputVars, modeVars, enableJT, sent, placeVars>>

\* What the remote is told of a stick: how far it is from its centre, or nowhere.
Axis(s, away) == sent' = IF away THEN sent \cup {s} ELSE sent \ {s}

StickStart(s) ==
    /\ Does
    /\ Touchable(s) /\ held' = held \cup {s}
    /\ enableJT' = [enableJT EXCEPT ![s] = IF @ = "yes" THEN "yes" ELSE "set"]
    /\ UNCHANGED <<inputVars, modeVars, sent, lost, placeVars>>

\* What a stick's handlers see of enableJT changes when it is rendered again.
StickRenders(s) ==
    /\ enableJT[s] = "set" /\ enableJT' = [enableJT EXCEPT ![s] = "yes"]
    /\ UNCHANGED <<vars, modeVars, held, sent, lost, placeVars>>

\* Until then a move counts as none.
StickMove(s) ==
    /\ Does
    /\ s \in held
    /\ Axis(s, enableJT[s] = "yes")
    /\ lost' = lost \ {s}
    /\ UNCHANGED <<inputVars, modeVars, held, enableJT, placeVars>>

StickStop(s) ==
    /\ Does
    /\ s \in held /\ held' = held \ {s}
    /\ enableJT' = [enableJT EXCEPT ![s] = "no"]
    /\ Axis(s, FALSE) /\ lost' = lost \ {s}
    /\ UNCHANGED <<inputVars, modeVars, placeVars>>

-----------------------------------------------------------------------------
(* Dragging a group.                                                       *)

HandleDrag(p) ==
    /\ Does
    /\ padMode = "draggable" \/ dragging
    /\ p # posBtn
    /\ posBtn' = p /\ dragging' = TRUE /\ unsaved' = TRUE
    /\ UNCHANGED <<inputVars, modeVars, controlVars, rendered, stored>>

GroupRenders ==
    /\ rendered # posBtn /\ rendered' = posBtn
    /\ UNCHANGED <<vars, modeVars, controlVars, posBtn, dragging, stored, unsaved>>

\* Faulty variant: the place stays in the component.
HandleStopForgets ==
    /\ Does
    /\ dragging /\ dragging' = FALSE
    /\ unsaved' = (rendered # posBtn)
    /\ UNCHANGED <<inputVars, modeVars, controlVars, posBtn, rendered, stored>>

\* It stores the place its handler sees, which may be the one before the last.
HandleStop ==
    /\ Does
    /\ dragging /\ dragging' = FALSE
    /\ stored' = rendered
    /\ unsaved' = (rendered # posBtn)
    /\ UNCHANGED <<inputVars, modeVars, controlVars, posBtn, rendered>>

-----------------------------------------------------------------------------
\* What the user does otherwise.  Stuck keys are in the menu of a desktop page.
ByHand ==
    /\ hid
    /\ \/ \E k \in Keys : KeyDown(k) \/ KeyUp(k)
       \/ platform = "desktop" /\ ResetKeyStuck
       \/ FocusChanges
       \/ \E val \in BOOLEAN : DisableKeyboard(val)
       \/ \E b \in Buttons : MouseButtonDown(b) \/ MouseButtonUp(b)
       \/ \E f \in Fingers : TouchStart(f) \/ TouchEnd(f) \/ TouchCancel(f)
       \/ TouchMove
       \/ \E n \in holdTimeout : HoldTimeout(n)
       \/ \E p \in Pads : GamepadPlugged(p) \/ GamepadUnplugged(p) \/ GamepadPressed(p)
       \/ RunButton
    /\ UNCHANGED onScreenVars

OnScreenNext ==
    \/ HidChannel \/ EditVGamepad \/ EnableVMouse
    \/ Press \/ Release
    \/ \E c \in PadControls \cup MouseControls : Cancel(c)
    \/ \E s \in Sticks : StickStart(s) \/ StickRenders(s) \/ StickMove(s) \/ StickStop(s)
    \/ \E p \in Places : HandleDrag(p)
    \/ GroupRenders \/ HandleStop
    \/ ByHand

OnScreenSpec == OnScreenInit /\ [][OnScreenNext]_allVars

-----------------------------------------------------------------------------
\* HID ignores mouse and touches exactly while a device is open on the screen,
\* unless the last change of the menu came before HID did.
IgnoredWhileOpen ==
    hid => early \/ (disableTouch = Visible /\ disableMouse = Visible)

\* What the remote takes for held on the screen is held there, or was when its
\* device was closed or its touch cancelled.  The pointer keeps moving after its
\* stick was let go only if the touch was cancelled, and then no longer than the
\* mouse is open: closing it takes the timer away.
HeldOnScreen ==
    /\ sent \subseteq held \cup lost
    /\ "mouseStick" \in sent => mouseMode # "disable"

\* A group comes back where it was left, unless it was let go before it was
\* rendered there or closed while it was dragged.
LayoutKept ==
    [][padMode = "disable" /\ padMode' # "disable" => posBtn' = posBtn \/ unsaved]_allVars
=============================================================================
