---------------------------- MODULE BrowserInput ----------------------------
(***************************************************************************)
(* client/browser-core/src/hid: how HID, DesktopTouch and MobileTouch turn *)
(* what the user does into messages.  The handlers of one page run one at  *)
(* a time; timers and polls run between them.  The remote variables hold   *)
(* what the messages sent so far amount to, taken in their order (that     *)
(* the service may take them in another order is HidService's subject).    *)
(***************************************************************************)
EXTENDS Naturals, FiniteSetsExt

CONSTANTS
    Keys,               \* keys of the user's keyboard
    Special,            \* those that the service's SetKeyStatesUp releases
    Control, Shift, Alt, KeyF,
    Buttons, Left,      \* mouse buttons; Left is the one that touches use
    Fingers,            \* touch identifiers
    Pads,               \* indices of gamepads
    Virtual,            \* the on-screen gamepad, which sends as pad 0
    MaxEvents           \* bound: what the user does, in all

ASSUME KeysAssumption == {Control, Shift, Alt, KeyF} \subseteq Keys /\ Special \subseteq Keys
ASSUME DevicesAssumption == /\ Left \in Buttons
                            /\ 0 \in Pads /\ Pads \subseteq Nat /\ Virtual \in Nat \ Pads
ASSUME EventsAssumption == MaxEvents \in Nat

VARIABLES
    platform,      \* which of DesktopTouch and MobileTouch HID made
    focused,       \* the page receives the user's key and mouse events
    keys, buttons, glass, plugged, pressed, \* what the user holds
    disableKeyboard, disableMouse, disableTouch,
    onGoingTouchs, \* number of the TouchData of each finger, 0 for none
    touchCount,    \* TouchData made so far
    holdTimeout,   \* TouchData whose hold timer runs
    prevButton,    \* prev_buttons of one index
    remoteKeys, remoteButtons, remotePads,
    events,        \* what the user did so far, counted
    missedUps,     \* history: keys released with no key-up sent since
    missedDowns,   \* history: keys pressed, or released remotely, with no key-down sent since
    missedMouse,   \* history: mouse buttons whose release was missed, or that were pressed
                   \* on the screen, with no mouse-up sent since
    holds,         \* history: TouchData whose timer pressed Left while they were on-going
    stray,         \* history: Left was pressed for a touch that is not on-going
    cancelled,     \* history: fingers whose touch was cancelled on a mobile page
    polled         \* history: gamepads that were polled, Virtual among them

userVars == <<keys, buttons, glass, plugged, pressed, focused>>
keyVars == <<disableKeyboard, remoteKeys, missedUps, missedDowns>>
mouseVars == <<disableMouse, missedMouse>>
touchVars == <<disableTouch, onGoingTouchs, touchCount, holdTimeout, holds, stray, cancelled>>
padVars == <<prevButton, remotePads, polled>>
vars == <<platform, userVars, keyVars, mouseVars, touchVars, padVars, remoteButtons, events>>

\* The user does one more thing.
Does == events < MaxEvents /\ events' = events + 1

-----------------------------------------------------------------------------
Init ==
    /\ platform \in {"desktop", "mobile"}
    /\ focused = TRUE
    /\ keys = {} /\ buttons = {} /\ glass = {} /\ plugged = {}
    /\ pressed = [p \in Pads |-> "up"]
    /\ disableKeyboard = FALSE /\ disableMouse = FALSE /\ disableTouch = FALSE
    /\ onGoingTouchs = [f \in Fingers |-> 0] /\ touchCount = 0 /\ holdTimeout = {}
    /\ prevButton = "unset"
    /\ remoteKeys = {} /\ remoteButtons = {} /\ remotePads = [p \in Pads |-> "up"]
    /\ events = 0
    /\ missedUps = {} /\ missedDowns = {} /\ missedMouse = {}
    /\ holds = {} /\ stray = FALSE /\ cancelled = {} /\ polled = {}

-----------------------------------------------------------------------------
(* Keyboard.                                                               *)

\* Shift, Alt and Ctrl must be as the shortcut lists them: Ctrl + Shift + F.
HandleShortcut(k) ==
    k = KeyF /\ {Control, Shift} \subseteq keys' /\ Alt \notin keys'

SendKeyDown(k) ==
    /\ remoteKeys' = remoteKeys \cup {k}
    /\ missedUps' = missedUps \ {k}
    /\ missedDowns' = missedDowns \ {k}

\* Presses, and the repetitions of the keyboard while a key is held.
KeyDown(k) ==
    /\ Does
    /\ keys' = keys \cup {k}
    /\ IF focused /\ ~ HandleShortcut(k) /\ ~ disableKeyboard
       THEN SendKeyDown(k)
       ELSE /\ missedDowns' = IF k \in remoteKeys THEN missedDowns ELSE missedDowns \cup {k}
            /\ UNCHANGED <<remoteKeys, missedUps>>
    /\ UNCHANGED <<platform, buttons, glass, plugged, pressed, focused, disableKeyboard,
                   mouseVars, touchVars, padVars, remoteButtons>>

SendKeyUp(k) ==
    /\ remoteKeys' = remoteKeys \ {k}
    /\ missedUps' = missedUps \ {k}

\* Faulty variant: a key-up of the shortcut is swallowed as its key-down is.
KeyUpSwallowed(k) ==
    /\ Does
    /\ k \in keys /\ keys' = keys \ {k}
    /\ IF focused /\ ~ disableKeyboard /\ ~ HandleShortcut(k)
       THEN SendKeyUp(k)
       ELSE /\ missedUps' = IF focused /\ ~ disableKeyboard THEN missedUps ELSE missedUps \cup {k}
            /\ UNCHANGED remoteKeys
    /\ missedDowns' = missedDowns \ {k}
    /\ UNCHANGED <<platform, buttons, glass, plugged, pressed, focused, disableKeyboard,
                   mouseVars, touchVars, padVars, remoteButtons>>

KeyUp(k) ==
    /\ Does
    /\ k \in keys /\ keys' = keys \ {k}
    /\ IF focused /\ ~ disableKeyboard
       THEN SendKeyUp(k)
       ELSE missedUps' = missedUps \cup {k} /\ UNCHANGED remoteKeys
    /\ missedDowns' = missedDowns \ {k}
    /\ UNCHANGED <<platform, buttons, glass, plugged, pressed, focused, disableKeyboard,
                   mouseVars, touchVars, padVars, remoteButtons>>

\* The service releases the special keys, and no others.
ResetKeyStuck ==
    /\ Does
    /\ remoteKeys' = remoteKeys \ Special
    /\ missedUps' = missedUps \ Special
    /\ missedDowns' = missedDowns \cup (keys \cap Special)
    /\ UNCHANGED <<platform, userVars, disableKeyboard, mouseVars, touchVars, padVars,
                   remoteButtons>>

DisableKeyboard(val) ==
    /\ Does
    /\ disableKeyboard' = val /\ val # disableKeyboard
    /\ UNCHANGED <<platform, userVars, remoteKeys, missedUps, missedDowns, mouseVars,
                   touchVars, padVars, remoteButtons>>

\* Keys and buttons held while the page has no focus are released elsewhere.
FocusChanges ==
    /\ Does
    /\ focused' = ~ focused
    /\ UNCHANGED <<platform, keys, buttons, glass, plugged, pressed, keyVars, mouseVars,
                   touchVars, padVars, remoteButtons>>

-----------------------------------------------------------------------------
(* Mouse buttons.                                                          *)

\* A mouse-up releases Left whoever pressed it.
SendMouseUp(b) ==
    /\ remoteButtons' = remoteButtons \ {b}
    /\ missedMouse' = missedMouse \ {b}
    /\ stray' = (stray /\ b # Left)

MouseButtonDown(b) ==
    /\ Does
    /\ b \notin buttons /\ buttons' = buttons \cup {b}
    /\ remoteButtons' = IF focused /\ ~ disableMouse THEN remoteButtons \cup {b} ELSE remoteButtons
    /\ UNCHANGED <<platform, keys, glass, plugged, pressed, focused, keyVars, mouseVars,
                   touchVars, padVars>>

MouseButtonUp(b) ==
    /\ Does
    /\ b \in buttons /\ buttons' = buttons \ {b}
    /\ IF focused /\ ~ disableMouse
       THEN SendMouseUp(b)
       ELSE missedMouse' = missedMouse \cup {b} /\ UNCHANGED <<remoteButtons, stray>>
    /\ UNCHANGED <<platform, keys, glass, plugged, pressed, focused, keyVars, disableMouse,
                   disableTouch, onGoingTouchs, touchCount, holdTimeout, holds, cancelled, padVars>>

\* The on-screen mouse sends whether or not the mouse is disabled.
VirtualMouseButton(b, to) ==
    /\ Does
    /\ IF to = "down"
       THEN /\ remoteButtons' = remoteButtons \cup {b}
            /\ missedMouse' = missedMouse \cup {b}
            /\ UNCHANGED stray
       ELSE SendMouseUp(b)
    /\ UNCHANGED <<platform, userVars, keyVars, disableMouse, disableTouch, onGoingTouchs,
                   touchCount, holdTimeout, holds, cancelled, padVars>>

\* Toggle forgets the touches and not their timers.
Toggle(disable) ==
    /\ disableTouch' = disable
    /\ IF disable
       THEN /\ onGoingTouchs' = [f \in Fingers |-> 0]
            /\ stray' = (stray \/ \E f \in Fingers : onGoingTouchs[f] \in holds)
       ELSE UNCHANGED <<onGoingTouchs, stray>>

\* The control panel switches mouse and touches together when an on-screen
\* device appears or goes.
ToggleMouseTouch(disable) ==
    /\ Does
    /\ disable # disableTouch
    /\ disableMouse' = disable /\ Toggle(disable)
    /\ UNCHANGED <<platform, userVars, keyVars, missedMouse, touchCount, holdTimeout, holds,
                   cancelled, padVars, remoteButtons>>

-----------------------------------------------------------------------------
(* Touches.  An event carries one changed touch.                           *)

Enter(f) ==
    /\ touchCount' = touchCount + 1
    /\ onGoingTouchs' = [onGoingTouchs EXCEPT ![f] = touchCount + 1]

\* Only DesktopTouch sets a hold timer.
TouchStart(f) ==
    /\ Does
    /\ f \notin glass /\ glass' = glass \cup {f}
    /\ IF disableTouch
       THEN UNCHANGED <<onGoingTouchs, touchCount, holdTimeout>>
       ELSE /\ Enter(f)
            /\ holdTimeout' = IF platform = "desktop" THEN holdTimeout \cup {touchCount + 1}
                              ELSE holdTimeout
    /\ cancelled' = cancelled \ {f}
    /\ UNCHANGED <<platform, keys, buttons, plugged, pressed, focused, keyVars, mouseVars,
                   disableTouch, holds, stray, padVars, remoteButtons>>

\* The hold timer fires, whether or not its touch goes on.
HoldTimeout(n) ==
    /\ n \in holdTimeout /\ holdTimeout' = holdTimeout \ {n}
    /\ remoteButtons' = remoteButtons \cup {Left}
    /\ IF \E f \in Fingers : onGoingTouchs[f] = n
       THEN holds' = holds \cup {n} /\ UNCHANGED stray
       ELSE stray' = TRUE /\ UNCHANGED holds
    /\ UNCHANGED <<platform, userVars, keyVars, mouseVars, disableTouch, onGoingTouchs,
                   touchCount, cancelled, padVars, events>>

\* A move clears the timers of the touches on the glass, up to the first that
\* is unknown, where the handler throws.
TouchMove ==
    LET known(f) == \A g \in glass : g <= f => onGoingTouchs[g] # 0 IN
    /\ Does
    /\ glass # {} /\ ~ disableTouch /\ platform = "desktop"
    /\ holdTimeout' = holdTimeout \ {onGoingTouchs[f] : f \in {g \in glass : known(g)}}
    /\ UNCHANGED <<platform, userVars, keyVars, mouseVars, disableTouch, onGoingTouchs,
                   touchCount, holds, stray, cancelled, padVars, remoteButtons>>

\* Faulty variant: a touch that ends sends no mouse-up.
EndsSilently(f) ==
    /\ onGoingTouchs' = [onGoingTouchs EXCEPT ![f] = 0]
    /\ UNCHANGED <<remoteButtons, missedMouse, stray>>

\* leftMouseDown is TRUE from the start, so every known touch that ends on a
\* desktop sends a mouse-up; an unknown one makes the handler throw.
Ends(f) ==
    /\ onGoingTouchs' = [onGoingTouchs EXCEPT ![f] = 0]
    /\ IF platform = "desktop" /\ onGoingTouchs[f] # 0
       THEN SendMouseUp(Left)
       ELSE UNCHANGED <<remoteButtons, missedMouse, stray>>

TouchEnd(f) ==
    /\ Does
    /\ f \in glass /\ glass' = glass \ {f}
    /\ IF disableTouch
       THEN UNCHANGED <<onGoingTouchs, remoteButtons, missedMouse, stray>>
       ELSE Ends(f)
    /\ UNCHANGED <<platform, keys, buttons, plugged, pressed, focused, keyVars, disableMouse,
                   disableTouch, touchCount, holdTimeout, holds, cancelled, padVars>>

\* MobileTouch does not listen to touchcancel.
TouchCancel(f) ==
    /\ Does
    /\ f \in glass /\ glass' = glass \ {f}
    /\ IF disableTouch \/ platform = "mobile"
       THEN UNCHANGED <<onGoingTouchs, remoteButtons, missedMouse, stray>>
       ELSE Ends(f)
    /\ cancelled' = IF platform = "mobile" THEN cancelled \cup {f} ELSE cancelled
    /\ UNCHANGED <<platform, keys, buttons, plugged, pressed, focused, keyVars, disableMouse,
                   disableTouch, touchCount, holdTimeout, holds, padVars>>

-----------------------------------------------------------------------------
(* Gamepads.  One button of each; a slider or an axis is compared and sent *)
(* in the same way.                                                        *)

\* A gamepad takes the lowest index that is free.
GamepadPlugged(p) ==
    /\ Does
    /\ p \in Pads \ plugged /\ \A q \in Pads : q < p => q \in plugged
    /\ plugged' = plugged \cup {p}
    /\ UNCHANGED <<platform, keys, buttons, glass, pressed, focused, keyVars, mouseVars,
                   touchVars, padVars, remoteButtons>>

\* A gamepad that goes is not polled again, whatever it held.
GamepadUnplugged(p) ==
    /\ Does
    /\ p \in plugged /\ plugged' = plugged \ {p}
    /\ pressed' = [pressed EXCEPT ![p] = "up"]
    /\ UNCHANGED <<platform, keys, buttons, glass, focused, keyVars, mouseVars,
                   touchVars, padVars, remoteButtons>>

GamepadPressed(p) ==
    /\ Does
    /\ p \in plugged
    /\ pressed' = [pressed EXCEPT ![p] = IF @ = "up" THEN "down" ELSE "up"]
    /\ UNCHANGED <<platform, keys, buttons, glass, plugged, focused, keyVars, mouseVars,
                   touchVars, padVars, remoteButtons>>

\* What prev_buttons holds when a poll comes to p: the state of the gamepad
\* before it, sent or not, since it is the same for all of them.
Previous(p) ==
    LET before == {q \in plugged : q < p}
    IN IF before = {} THEN prevButton ELSE pressed[Max(before)]

\* Faulty variant: the events' names are taken at their word, so a pressed
\* button is sent as up.
LookInverted(p) ==
    IF Previous(p) = pressed[p] THEN remotePads[p]
    ELSE IF pressed[p] = "up" THEN "down" ELSE "up"

\* One gamepad of a poll, taken in the order of their indices.
Look(p) == IF Previous(p) = pressed[p] THEN remotePads[p] ELSE pressed[p]

RunButton ==
    /\ plugged # {}
    /\ prevButton' = pressed[Max(plugged)]
    /\ remotePads' = [p \in Pads |-> IF p \in plugged THEN Look(p) ELSE remotePads[p]]
    /\ polled' = polled \cup plugged
    /\ UNCHANGED <<platform, userVars, keyVars, mouseVars, touchVars, remoteButtons, events>>

\* The on-screen gamepad sends for pad 0 and leaves prev_buttons alone.
VirtualGamepadButton(to) ==
    /\ Does
    /\ remotePads' = [remotePads EXCEPT ![0] = to]
    /\ polled' = polled \cup {Virtual}
    /\ UNCHANGED <<platform, userVars, keyVars, mouseVars, touchVars, prevButton, remoteButtons>>

-----------------------------------------------------------------------------
Next ==
    \/ \E k \in Keys : KeyDown(k) \/ KeyUp(k)
    \/ ResetKeyStuck \/ FocusChanges
    \/ \E val \in BOOLEAN : DisableKeyboard(val) \/ ToggleMouseTouch(val)
    \/ \E b \in Buttons : MouseButtonDown(b) \/ MouseButtonUp(b)
    \/ \E b \in Buttons, to \in {"up", "down"} : VirtualMouseButton(b, to)
    \/ \E f \in Fingers : TouchStart(f) \/ TouchEnd(f) \/ TouchCancel(f)
    \/ TouchMove
    \/ \E n \in holdTimeout : HoldTimeout(n)
    \/ \E p \in Pads : GamepadPlugged(p) \/ GamepadUnplugged(p) \/ GamepadPressed(p)
    \/ RunButton
    \/ \E to \in {"up", "down"} : VirtualGamepadButton(to)

Spec == Init /\ [][Next]_vars

-----------------------------------------------------------------------------

\* The remote holds a key the user does not only if its release never reached
\* the page's handler or was ignored while the keyboard was disabled, and lacks
\* one the user holds only if the press did or a reset released it.
KeysFollowHands ==
    /\ remoteKeys \ keys \subseteq missedUps
    /\ keys \ remoteKeys \subseteq missedDowns

\* The remote's left button is down only for the mouse, for a mouse release the
\* page missed, for an on-screen press, for a touch that is still on the glass, or because it was
\* pressed for a touch that had ended or been forgotten.
LeftDownExplained ==
    Left \in remoteButtons =>
        \/ Left \in buttons \cup missedMouse
        \/ \E f \in glass : onGoingTouchs[f] \in holds
        \/ stray

\* A touch is known only while its finger is on the glass, except that a mobile
\* page never learns of a cancelled one.
OnGoingOnGlass ==
    \A f \in Fingers : onGoingTouchs[f] # 0 => f \in glass \cup cancelled

\* After a poll the remote has the state of every gamepad, unless another one
\* was ever polled or the on-screen one used: they share prev_buttons.
PadFollowed ==
    [][RunButton => \A p \in plugged : remotePads'[p] = pressed[p] \/ polled' # {p}]_vars

=============================================================================
