---------------------------- MODULE OnScreenProofs ----------------------------
(***************************************************************************)
(* Theorems about BrowserInput and OnScreen for every set of keys,         *)
(* fingers, gamepads and places and every number of events: HID under the  *)
(* on-screen devices is still BrowserInput, and the devices keep their own *)
(* invariants.                                                             *)
(***************************************************************************)
EXTENDS OnScreen, TLAPS

-----------------------------------------------------------------------------
(* HID by itself, for every set of keys, buttons and fingers.              *)

LEMMA KeysFollowHandsInductive ==
    ASSUME KeysFollowHands, [Next]_vars
    PROVE  KeysFollowHands'
<1> USE DEF KeysFollowHands
<1>1. ASSUME NEW k \in Keys, KeyDown(k)
      PROVE  KeysFollowHands'
  BY <1>1 DEF KeyDown, SendKeyDown
<1>2. ASSUME NEW k \in Keys, KeyUp(k)
      PROVE  KeysFollowHands'
  BY <1>2 DEF KeyUp, SendKeyUp
<1>3. CASE ResetKeyStuck
  BY <1>3 DEF ResetKeyStuck, userVars
<1>4. CASE UNCHANGED <<keys, remoteKeys, missedUps, missedDowns>>
  BY <1>4
<1>5. CASE UNCHANGED vars
  BY <1>4, <1>5 DEF vars, userVars, keyVars
<1> HIDE DEF KeysFollowHands
<1> QED
  BY <1>1, <1>2, <1>3, <1>4, <1>5
  DEF Next, FocusChanges, DisableKeyboard, ToggleMouseTouch, MouseButtonDown,
      MouseButtonUp, VirtualMouseButton, TouchStart, TouchEnd, TouchCancel, TouchMove, HoldTimeout,
      GamepadPlugged, GamepadUnplugged, GamepadPressed, RunButton,
      VirtualGamepadButton, userVars, keyVars

\* A key is only held here, there, or its difference accounted for: inductive
\* as it stands, since every handler that changes one side notes what it owes.
THEOREM KeysFollowHandsHold == Spec => []KeysFollowHands
<1>1. Init => KeysFollowHands
  BY DEF Init, KeysFollowHands
<1> QED
  BY <1>1, KeysFollowHandsInductive, PTL DEF Spec

-----------------------------------------------------------------------------
(* Touches.  The strengthening says which platform has timers and which    *)
(* loses touches, and that a disabled page knows of none.                  *)

TouchTypes ==
    /\ platform \in {"desktop", "mobile"}
    /\ glass \subseteq Fingers /\ touchCount \in Nat
    /\ onGoingTouchs \in [Fingers -> 0 .. touchCount]
    /\ holdTimeout \subseteq 1 .. touchCount
    /\ holds \subseteq 1 .. touchCount
    /\ disableTouch \in BOOLEAN /\ stray \in BOOLEAN

PlatformInv ==
    /\ platform = "mobile" => holdTimeout = {} /\ holds = {}
    /\ platform = "desktop" => cancelled = {}
    /\ disableTouch => \A f \in Fingers : onGoingTouchs[f] = 0

TouchInv == TouchTypes /\ PlatformInv /\ OnGoingOnGlass /\ LeftDownExplained

touchState == <<platform, buttons, glass, remoteButtons, missedMouse, disableTouch,
                onGoingTouchs, touchCount, holdTimeout, holds, stray, cancelled>>

LEMMA TouchInvMouse ==
    ASSUME TouchInv, NEW b \in Buttons, MouseButtonDown(b) \/ MouseButtonUp(b)
    PROVE  TouchInv'
<1> USE DEF TouchInv, TouchTypes, PlatformInv, OnGoingOnGlass, LeftDownExplained
<1>1. CASE MouseButtonDown(b)
  BY <1>1 DEF MouseButtonDown, mouseVars, touchVars
<1>2. CASE MouseButtonUp(b)
  BY <1>2 DEF MouseButtonUp, SendMouseUp
<1> QED
  BY <1>1, <1>2

LEMMA TouchInvVirtualMouse ==
    ASSUME TouchInv, NEW b \in Buttons, NEW to \in {"up", "down"}, VirtualMouseButton(b, to)
    PROVE  TouchInv'
BY DevicesAssumption DEF TouchInv, TouchTypes, PlatformInv, OnGoingOnGlass, LeftDownExplained,
       VirtualMouseButton, SendMouseUp, userVars

LEMMA TouchInvToggle ==
    ASSUME TouchInv, NEW val \in BOOLEAN, ToggleMouseTouch(val)
    PROVE  TouchInv'
BY DEF TouchInv, TouchTypes, PlatformInv, OnGoingOnGlass, LeftDownExplained,
       ToggleMouseTouch, Toggle, userVars

LEMMA TouchInvStart ==
    ASSUME TouchInv, NEW f \in Fingers, TouchStart(f)
    PROVE  TouchInv'
<1> USE DEF TouchInv, TouchTypes, PlatformInv, OnGoingOnGlass, LeftDownExplained,
            TouchStart, Enter, mouseVars
<1>1. CASE disableTouch
  BY <1>1
<1>2. CASE ~ disableTouch
  <2>1. /\ touchCount' = touchCount + 1 /\ glass' = glass \cup {f}
        /\ onGoingTouchs' = [onGoingTouchs EXCEPT ![f] = touchCount']
        /\ holdTimeout' = IF platform = "desktop" THEN holdTimeout \cup {touchCount'}
                          ELSE holdTimeout
        /\ cancelled' = cancelled \ {f}
        /\ UNCHANGED <<platform, disableTouch, holds, stray>>
    BY <1>2
  <2>2. onGoingTouchs' \in [Fingers -> 0 .. touchCount']
    BY <2>1
  <2>5. TouchTypes'
    BY <2>1, <2>2
  <2>6. PlatformInv'
    BY <1>2, <2>1
  <2>7. OnGoingOnGlass'
    BY <1>2
  <2>3. \A g \in glass : g # f /\ onGoingTouchs'[g] = onGoingTouchs[g]
    BY <1>2
  <2>4. LeftDownExplained'
    BY <1>2, <2>3
  <2> QED
    BY <2>4, <2>5, <2>6, <2>7
<1> QED
  BY <1>1, <1>2

LEMMA TouchInvEnds ==
    ASSUME TouchInv, NEW f \in Fingers, TouchEnd(f) \/ TouchCancel(f)
    PROVE  TouchInv'
<1> USE DEF TouchInv
<1>1. /\ glass' = glass \ {f} /\ glass \subseteq Fingers
      /\ UNCHANGED <<platform, buttons, touchCount, holdTimeout, holds, disableTouch>>
      /\ cancelled' = IF platform = "mobile" /\ TouchCancel(f) THEN cancelled \cup {f}
                      ELSE cancelled
  BY DEF TouchEnd, TouchCancel, TouchTypes, PlatformInv
<1>2. CASE UNCHANGED <<onGoingTouchs, remoteButtons, missedMouse, stray>>
  <2>1. TouchTypes' /\ PlatformInv'
    BY <1>1, <1>2 DEF TouchTypes, PlatformInv
  <2>2. onGoingTouchs[f] = 0 \/ (platform = "mobile" /\ f \in cancelled')
    <3>1. CASE disableTouch
      BY <3>1 DEF PlatformInv
    <3>2. CASE Ends(f)
      BY <1>2, <3>2 DEF Ends, TouchTypes
    <3>3. CASE TouchCancel(f) /\ platform = "mobile"
      BY <1>1, <3>3
    <3> QED
      BY <3>1, <3>2, <3>3 DEF TouchEnd, TouchCancel, TouchTypes
  <2>3. OnGoingOnGlass'
    BY <1>1, <1>2, <2>2 DEF OnGoingOnGlass
  <2>4. onGoingTouchs[f] \notin holds
    BY <2>2 DEF TouchTypes, PlatformInv
  <2>5. LeftDownExplained'
    BY <1>1, <1>2, <2>4 DEF LeftDownExplained
  <2> QED
    BY <2>1, <2>3, <2>5
<1>3. CASE Ends(f)
  <2>1. onGoingTouchs' = [onGoingTouchs EXCEPT ![f] = 0]
    BY <1>3 DEF Ends
  <2>2. stray' \in BOOLEAN
    BY <1>3 DEF Ends, SendMouseUp, TouchTypes
  <2>3. TouchTypes'
    BY <1>1, <2>1, <2>2 DEF TouchTypes
  <2>4. PlatformInv'
    BY <1>1, <2>1 DEF TouchTypes, PlatformInv
  <2>5. OnGoingOnGlass'
    BY <1>1, <2>1 DEF OnGoingOnGlass, TouchTypes
  <2>6. \A g \in glass \ {f} : onGoingTouchs'[g] = onGoingTouchs[g]
    BY <1>1, <2>1 DEF TouchTypes
  <2>7. ASSUME platform = "desktop" /\ onGoingTouchs[f] # 0
        PROVE  LeftDownExplained'
    BY <1>3, <2>7 DEF Ends, SendMouseUp, LeftDownExplained
  <2>8. ASSUME ~ (platform = "desktop" /\ onGoingTouchs[f] # 0)
        PROVE  LeftDownExplained'
    <3>1. UNCHANGED <<remoteButtons, missedMouse, stray>>
      BY <1>3, <2>8 DEF Ends
    <3>2. onGoingTouchs[f] \notin holds
      BY <2>8 DEF TouchTypes, PlatformInv
    <3> QED
      BY <1>1, <2>6, <3>1, <3>2 DEF LeftDownExplained
  <2> QED
    BY <2>3, <2>4, <2>5, <2>7, <2>8
<1> QED
  BY <1>2, <1>3 DEF TouchEnd, TouchCancel

LEMMA TouchInvTimers ==
    ASSUME TouchInv, TouchMove \/ \E n \in holdTimeout : HoldTimeout(n)
    PROVE  TouchInv'
<1> USE DEF TouchInv, TouchTypes, PlatformInv, OnGoingOnGlass, LeftDownExplained
<1>1. CASE TouchMove
  BY <1>1 DEF TouchMove, userVars, mouseVars
<1>2. ASSUME NEW n \in holdTimeout, HoldTimeout(n)
      PROVE  TouchInv'
  <2>1. platform = "desktop" /\ cancelled = {} /\ n \in 1 .. touchCount
    OBVIOUS
  <2>2. CASE \E f \in Fingers : onGoingTouchs[f] = n
    <3>1. /\ holds' = holds \cup {n} /\ holdTimeout' = holdTimeout \ {n}
          /\ UNCHANGED <<platform, buttons, missedMouse, glass, onGoingTouchs, touchCount,
                         cancelled, disableTouch, stray>>
      BY <1>2, <2>2 DEF HoldTimeout, userVars, mouseVars
    <3>2. PICK f \in Fingers : onGoingTouchs[f] = n
      BY <2>2
    <3>3. f \in glass
      BY <2>1, <3>2
    <3>4. LeftDownExplained'
      BY <3>1, <3>2, <3>3
    <3>5. TouchTypes' /\ PlatformInv' /\ OnGoingOnGlass'
      BY <2>1, <3>1
    <3> QED
      BY <3>4, <3>5
  <2>3. CASE ~ \E f \in Fingers : onGoingTouchs[f] = n
    <3>1. stray' = TRUE /\ holdTimeout' = holdTimeout \ {n}
      BY <1>2, <2>3 DEF HoldTimeout
    <3>2. UNCHANGED <<platform, glass, onGoingTouchs, touchCount, holds, cancelled,
                      disableTouch>>
      BY <1>2, <2>3 DEF HoldTimeout, userVars, mouseVars
    <3> QED
      BY <2>1, <3>1, <3>2
  <2> QED
    BY <2>2, <2>3
<1> QED
  BY <1>1, <1>2

LEMMA TouchInvInductive ==
    ASSUME TouchInv, [Next]_vars
    PROVE  TouchInv'
<1>1. CASE UNCHANGED touchState
  BY <1>1 DEF touchState, TouchInv, TouchTypes, PlatformInv, OnGoingOnGlass, LeftDownExplained
<1>2. CASE UNCHANGED vars
  BY <1>1, <1>2 DEF vars, userVars, mouseVars, touchVars, touchState
<1>3. ASSUME NEW k \in Keys, KeyDown(k) \/ KeyUp(k)
      PROVE  TouchInv'
  BY <1>1, <1>3 DEF KeyDown, KeyUp, mouseVars, touchVars, touchState
<1>4. ASSUME NEW val \in BOOLEAN, DisableKeyboard(val)
      PROVE  TouchInv'
  BY <1>1, <1>4 DEF DisableKeyboard, userVars, mouseVars, touchVars, touchState
<1>5. CASE ResetKeyStuck \/ FocusChanges
  BY <1>1, <1>5 DEF ResetKeyStuck, FocusChanges, userVars, mouseVars, touchVars, touchState
<1>6. ASSUME NEW p \in Pads,
             GamepadPlugged(p) \/ GamepadUnplugged(p) \/ GamepadPressed(p)
      PROVE  TouchInv'
  BY <1>1, <1>6 DEF GamepadPlugged, GamepadUnplugged, GamepadPressed, mouseVars, touchVars,
     touchState
<1>7. CASE RunButton \/ \E to \in {"up", "down"} : VirtualGamepadButton(to)
  BY <1>1, <1>7 DEF RunButton, VirtualGamepadButton, userVars, mouseVars, touchVars, touchState
<1>8. ASSUME NEW b \in Buttons, MouseButtonDown(b) \/ MouseButtonUp(b)
      PROVE  TouchInv'
  BY <1>8, TouchInvMouse
<1>9. ASSUME NEW val \in BOOLEAN, ToggleMouseTouch(val)
      PROVE  TouchInv'
  BY <1>9, TouchInvToggle
<1>10. ASSUME NEW f \in Fingers, TouchStart(f) \/ TouchEnd(f) \/ TouchCancel(f)
       PROVE  TouchInv'
  BY <1>10, TouchInvStart, TouchInvEnds
<1>11. CASE TouchMove \/ \E n \in holdTimeout : HoldTimeout(n)
  BY <1>11, TouchInvTimers
<1>12. ASSUME NEW b \in Buttons, NEW to \in {"up", "down"}, VirtualMouseButton(b, to)
       PROVE  TouchInv'
  BY <1>12, TouchInvVirtualMouse
<1> QED
  BY <1>2, <1>3, <1>4, <1>5, <1>6, <1>7, <1>8, <1>9, <1>10, <1>11, <1>12 DEF Next

LEMMA TouchInvInit == Init => TouchInv
<1> SUFFICES ASSUME Init
             PROVE  TouchInv
  OBVIOUS
<1>1. onGoingTouchs \in [Fingers -> 0 .. touchCount]
  BY DEF Init
<1>2. \A f \in Fingers : onGoingTouchs[f] = 0
  BY DEF Init
<1> QED
  BY <1>1, <1>2
  DEF Init, TouchInv, TouchTypes, PlatformInv, OnGoingOnGlass, LeftDownExplained

LEMMA TouchInvHolds == Spec => []TouchInv
BY TouchInvInit, TouchInvInductive, PTL DEF Spec

\* A page knows only of touches whose finger is down, cancelled ones on a
\* mobile page excepted.
THEOREM OnGoingOnGlassHolds == Spec => []OnGoingOnGlass
BY TouchInvHolds, PTL DEF TouchInv

\* The left button is down only for a reason the user or a late timer gave.
THEOREM LeftDownExplainedHolds == Spec => []LeftDownExplained
BY TouchInvHolds, PTL DEF TouchInv

-----------------------------------------------------------------------------
(* HID under the on-screen devices.                                        *)

LEMMA ByHandIsInput == ASSUME ByHand PROVE Next
BY DEF ByHand, Next

LEMMA ToggleEffectIsInput ==
    ASSUME ToggleEffect
    PROVE  Next \/ UNCHANGED inputVars
<1>1. Visible' \in BOOLEAN
  BY DEF Visible
<1> QED
  BY <1>1 DEF ToggleEffect, Next

\* A step with the on-screen devices is one of HID's, or leaves HID alone and
\* at most counts.
LEMMA OnScreenStep ==
    ASSUME [OnScreenNext]_allVars
    PROVE  Next \/ UNCHANGED inputVars
<1>1. CASE ByHand
  BY <1>1, ByHandIsInput
<1>2. CASE EditVGamepad \/ EnableVMouse
  BY <1>2, ToggleEffectIsInput DEF EditVGamepad, EnableVMouse
<1>3. CASE Press
  BY <1>3, DevicesAssumption DEF Press, Next
<1>4. CASE Release
  BY <1>4, DevicesAssumption DEF Release, Next
<1>5. CASE \E c \in PadControls \cup MouseControls : Cancel(c)
  BY <1>5 DEF Cancel
<1>6. CASE \E s \in Sticks : StickStart(s) \/ StickMove(s) \/ StickStop(s)
  BY <1>6 DEF StickStart, StickMove, StickStop
<1>7. CASE (\E p \in Places : HandleDrag(p)) \/ HandleStop
  BY <1>7 DEF HandleDrag, HandleStop
<1>8. CASE HidChannel \/ GroupRenders \/ \E s \in Sticks : StickRenders(s)
  BY <1>8 DEF HidChannel, GroupRenders, StickRenders, vars, inputVars
<1>9. CASE UNCHANGED allVars
  BY <1>9 DEF allVars, vars, inputVars
<1> QED
  BY <1>1, <1>2, <1>3, <1>4, <1>5, <1>6, <1>7, <1>8, <1>9 DEF OnScreenNext

\* Keys differ only where a press or a release was missed, on-screen devices or
\* not.
THEOREM OnScreenKeysFollowHands == OnScreenSpec => []KeysFollowHands
<1>1. OnScreenInit => KeysFollowHands
  BY DEF OnScreenInit, Init, KeysFollowHands
<1>2. KeysFollowHands /\ [OnScreenNext]_allVars => KeysFollowHands'
  <2> SUFFICES ASSUME KeysFollowHands, [OnScreenNext]_allVars
               PROVE  KeysFollowHands'
    OBVIOUS
  <2>1. CASE Next
    BY <2>1, KeysFollowHandsInductive
  <2>2. CASE UNCHANGED inputVars
    BY <2>2 DEF inputVars, userVars, keyVars, KeysFollowHands
  <2> QED
    BY <2>1, <2>2, OnScreenStep
<1> QED
  BY <1>1, <1>2, PTL DEF OnScreenSpec

\* The left button and the touches are accounted for, on-screen devices or not.
THEOREM OnScreenTouches == OnScreenSpec => [](LeftDownExplained /\ OnGoingOnGlass)
<1>1. OnScreenInit => TouchInv
  BY TouchInvInit DEF OnScreenInit
<1>2. TouchInv /\ [OnScreenNext]_allVars => TouchInv'
  <2> SUFFICES ASSUME TouchInv, [OnScreenNext]_allVars
               PROVE  TouchInv'
    OBVIOUS
  <2>1. CASE Next
    BY <2>1, TouchInvInductive
  <2>2. CASE UNCHANGED inputVars
    BY <2>2 DEF inputVars, userVars, mouseVars, touchVars, TouchInv, TouchTypes,
       PlatformInv, OnGoingOnGlass, LeftDownExplained
  <2> QED
    BY <2>1, <2>2, OnScreenStep
<1>3. TouchInv => LeftDownExplained /\ OnGoingOnGlass
  BY DEF TouchInv
<1> QED
  BY <1>1, <1>2, <1>3, PTL DEF OnScreenSpec

-----------------------------------------------------------------------------
(* Gamepads.  As long as only one was ever polled, prev_buttons is what the *)
(* remote has of it.                                                        *)

PadTypes ==
    /\ plugged \subseteq Pads
    /\ pressed \in [Pads -> {"up", "down"}] /\ remotePads \in [Pads -> {"up", "down"}]

PadInv ==
    /\ PadTypes
    /\ polled = {} => prevButton = "unset"
    /\ \A p \in Pads : polled = {p} => prevButton = remotePads[p]

\* What one poll of a single gamepad does.
LEMMA OnePad ==
    ASSUME PadInv, RunButton, NEW p \in Pads, polled' = {p}
    PROVE  /\ plugged = {p} /\ polled \in {{}, {p}}
           /\ remotePads'[p] = pressed[p] /\ prevButton' = pressed[p]
<1>1. plugged = {p} /\ polled \in {{}, {p}}
  BY DEF RunButton
<1>2. {q \in plugged : q < p} = {}
  BY <1>1, DevicesAssumption
<1>3. Previous(p) = prevButton
  BY <1>2 DEF Previous
<1>4. prevButton = pressed[p] => remotePads[p] = pressed[p]
  BY <1>1 DEF PadInv, PadTypes
<1>5. remotePads'[p] = pressed[p]
  BY <1>1, <1>3, <1>4 DEF RunButton, Look
<1>6. Max(plugged) = p
  BY <1>1, DevicesAssumption DEF Max
<1> QED
  BY <1>1, <1>5, <1>6 DEF RunButton

LEMMA PadInvPoll ==
    ASSUME PadInv, RunButton
    PROVE  PadInv'
<1>1. PadTypes'
  <2>1. plugged' = plugged /\ pressed' = pressed
    BY DEF RunButton, userVars
  <2>2. \A p \in Pads : Look(p) \in {"up", "down"}
    BY DEF Look, PadInv, PadTypes
  <2> QED
    BY <2>1, <2>2 DEF RunButton, PadInv, PadTypes
<1>2. polled' # {}
  BY DEF RunButton
<1>3. ASSUME NEW p \in Pads, polled' = {p}
      PROVE  prevButton' = remotePads'[p]
  BY <1>3, OnePad
<1> QED
  BY <1>1, <1>2, <1>3 DEF PadInv

LEMMA PadInvOnScreenPad ==
    ASSUME PadInv, NEW to \in {"up", "down"}, VirtualGamepadButton(to)
    PROVE  PadInv'
<1>1. PadTypes'
  BY DEF VirtualGamepadButton, userVars, PadInv, PadTypes
<1>2. polled' # {} /\ \A p \in Pads : polled' # {p}
  BY DevicesAssumption DEF VirtualGamepadButton
<1> QED
  BY <1>1, <1>2 DEF PadInv

LEMMA PadInvHands ==
    ASSUME PadInv, NEW p \in Pads,
           GamepadPlugged(p) \/ GamepadUnplugged(p) \/ GamepadPressed(p)
    PROVE  PadInv'
<1>1. UNCHANGED <<remotePads, prevButton, polled>>
  BY DEF GamepadPlugged, GamepadUnplugged, GamepadPressed, padVars
<1>2. plugged' \subseteq Pads
  BY DEF GamepadPlugged, GamepadUnplugged, GamepadPressed, PadInv, PadTypes
<1>3. pressed' \in [Pads -> {"up", "down"}]
  BY DEF GamepadPlugged, GamepadUnplugged, GamepadPressed, PadInv, PadTypes
<1> QED
  BY <1>1, <1>2, <1>3 DEF PadInv, PadTypes

LEMMA PadInvInductive ==
    ASSUME PadInv, [Next]_vars
    PROVE  PadInv'
<1>1. CASE UNCHANGED <<plugged, pressed, padVars>>
  BY <1>1 DEF PadInv, PadTypes, padVars
<1>2. CASE UNCHANGED vars
  BY <1>1, <1>2 DEF vars, userVars
<1>3. ASSUME NEW k \in Keys, KeyDown(k) \/ KeyUp(k)
      PROVE  PadInv'
  BY <1>1, <1>3 DEF KeyDown, KeyUp
<1>4. ASSUME NEW val \in BOOLEAN, DisableKeyboard(val) \/ ToggleMouseTouch(val)
      PROVE  PadInv'
  BY <1>1, <1>4 DEF DisableKeyboard, ToggleMouseTouch, userVars
<1>5. CASE ResetKeyStuck \/ FocusChanges \/ TouchMove
  BY <1>1, <1>5 DEF ResetKeyStuck, FocusChanges, TouchMove, userVars
<1>6. ASSUME NEW b \in Buttons,
             \/ MouseButtonDown(b) \/ MouseButtonUp(b)
             \/ \E to \in {"up", "down"} : VirtualMouseButton(b, to)
      PROVE  PadInv'
  BY <1>1, <1>6 DEF MouseButtonDown, MouseButtonUp, VirtualMouseButton, userVars
<1>7. ASSUME NEW f \in Fingers, TouchStart(f) \/ TouchEnd(f) \/ TouchCancel(f)
      PROVE  PadInv'
  BY <1>1, <1>7 DEF TouchStart, TouchEnd, TouchCancel
<1>8. ASSUME NEW n \in holdTimeout, HoldTimeout(n)
      PROVE  PadInv'
  BY <1>1, <1>8 DEF HoldTimeout, userVars
<1>9. CASE RunButton
  BY <1>9, PadInvPoll
<1>10. ASSUME NEW to \in {"up", "down"}, VirtualGamepadButton(to)
       PROVE  PadInv'
  BY <1>10, PadInvOnScreenPad
<1>11. ASSUME NEW p \in Pads,
              GamepadPlugged(p) \/ GamepadUnplugged(p) \/ GamepadPressed(p)
       PROVE  PadInv'
  BY <1>11, PadInvHands
<1> QED
  BY <1>2, <1>3, <1>4, <1>5, <1>6, <1>7, <1>8, <1>9, <1>10, <1>11 DEF Next

\* After a poll the remote has the state of the gamepad, if no other was ever
\* polled and the on-screen one never used, for any number of gamepads.
THEOREM PadFollowedHolds == OnScreenSpec => PadFollowed
<1>1. OnScreenInit => PadInv
  BY DEF OnScreenInit, Init, PadInv, PadTypes
<1>2. PadInv /\ [OnScreenNext]_allVars => PadInv'
  <2> SUFFICES ASSUME PadInv, [OnScreenNext]_allVars
               PROVE  PadInv'
    OBVIOUS
  <2>1. CASE Next
    BY <2>1, PadInvInductive
  <2>2. CASE UNCHANGED inputVars
    BY <2>2 DEF inputVars, userVars, padVars, PadInv, PadTypes
  <2> QED
    BY <2>1, <2>2, OnScreenStep
<1>3. PadInv => [RunButton => \A p \in plugged : remotePads'[p] = pressed[p] \/ polled' # {p}]_vars
  BY OnePad DEF PadInv, PadTypes
<1> QED
  BY <1>1, <1>2, <1>3, PTL DEF OnScreenSpec, PadFollowed

-----------------------------------------------------------------------------
\* Nothing is disabled before HID exists, and what it was not told is known.
ToggleInv ==
    /\ IgnoredWhileOpen
    /\ ~ hid => ~ disableTouch /\ ~ disableMouse /\ early = Visible
    /\ disableTouch \in BOOLEAN /\ disableMouse \in BOOLEAN /\ early \in BOOLEAN
    /\ hid \in BOOLEAN
    /\ disableTouch = disableMouse

LEMMA ByHandKeepsToggles == ASSUME ByHand PROVE UNCHANGED <<disableTouch, disableMouse>>
BY DEF ByHand, KeyDown, KeyUp, ResetKeyStuck, FocusChanges, DisableKeyboard, MouseButtonDown,
   MouseButtonUp, TouchStart, TouchEnd, TouchCancel, TouchMove, HoldTimeout, GamepadPlugged,
   GamepadUnplugged, GamepadPressed, RunButton, mouseVars, touchVars

\* HID ignores mouse and touches exactly while an on-screen device is open,
\* unless it was opened before HID existed and not changed since.
THEOREM IgnoredWhileOpenHolds == OnScreenSpec => []IgnoredWhileOpen
<1>1. OnScreenInit => ToggleInv
  BY DEF OnScreenInit, Init, ToggleInv, IgnoredWhileOpen, Visible
<1>2. ToggleInv /\ [OnScreenNext]_allVars => ToggleInv'
  <2> SUFFICES ASSUME ToggleInv, [OnScreenNext]_allVars
               PROVE  ToggleInv'
    OBVIOUS
  <2> USE DEF ToggleInv, IgnoredWhileOpen
  <2>1. CASE UNCHANGED <<disableTouch, disableMouse, modeVars>>
    BY <2>1 DEF modeVars, Visible
  <2>2. CASE HidChannel
    <3>1. UNCHANGED <<disableTouch, disableMouse, padMode, mouseMode, early>> /\ ~ hid /\ hid'
      BY <2>2 DEF HidChannel, vars, mouseVars, touchVars
    <3> QED
      BY <3>1 DEF Visible
  <2>3. CASE EditVGamepad \/ EnableVMouse
    <3>1. ToggleEffect /\ hid' = hid /\ Visible' \in BOOLEAN
      BY <2>3 DEF EditVGamepad, EnableVMouse, Visible
    <3>2. CASE hid /\ Visible' # disableTouch
      BY <3>1, <3>2 DEF ToggleEffect, ToggleMouseTouch, Toggle
    <3>3. CASE ~ hid
      BY <3>1, <3>3 DEF ToggleEffect, inputVars, mouseVars, touchVars
    <3>4. CASE hid /\ Visible' = disableTouch
      <4>1. UNCHANGED <<disableTouch, disableMouse>> /\ early' = FALSE
        BY <3>1, <3>4 DEF ToggleEffect, inputVars, mouseVars, touchVars
      <4> QED
        BY <3>1, <3>4, <4>1
    <3> QED
      BY <3>1, <3>2, <3>3, <3>4
  <2>4. CASE ByHand
    BY <2>1, <2>4, ByHandKeepsToggles DEF ByHand, onScreenVars, modeVars
  <2>5. CASE Press \/ Release
    BY <2>1, <2>5 DEF Press, Release, VirtualGamepadButton, VirtualMouseButton, mouseVars,
       touchVars, modeVars
  <2>6. CASE \/ \E c \in PadControls \cup MouseControls : Cancel(c)
             \/ \E s \in Sticks : StickStart(s) \/ StickRenders(s) \/ StickMove(s) \/ StickStop(s)
             \/ \E p \in Places : HandleDrag(p)
             \/ GroupRenders \/ HandleStop
    BY <2>1, <2>6 DEF Cancel, StickStart, StickRenders, StickMove, StickStop, HandleDrag,
       GroupRenders, HandleStop, vars, inputVars, mouseVars, touchVars, modeVars
  <2>7. CASE UNCHANGED allVars
    BY <2>1, <2>7 DEF allVars, vars, mouseVars, touchVars, onScreenVars, modeVars
  <2> QED
    BY <2>2, <2>3, <2>4, <2>5, <2>6, <2>7 DEF OnScreenNext
<1>3. ToggleInv => IgnoredWhileOpen
  BY DEF ToggleInv
<1> QED
  BY <1>1, <1>2, <1>3, PTL DEF OnScreenSpec

\* A stick can be held only while its device is open.
HeldInv == HeldOnScreen /\ ("mouseStick" \in held => mouseMode # "disable")

\* The remote never takes a control for held that is neither held nor was lost
\* with its device or its touch, and the pointer, even of a stick whose touch was
\* cancelled, moves no longer than the on-screen mouse is open.
THEOREM HeldOnScreenHolds == OnScreenSpec => []HeldOnScreen
<1>1. OnScreenInit => HeldInv
  BY DEF OnScreenInit, HeldInv, HeldOnScreen
<1>2. HeldInv /\ [OnScreenNext]_allVars => HeldInv'
  <2> SUFFICES ASSUME HeldInv, [OnScreenNext]_allVars
               PROVE  HeldInv'
    OBVIOUS
  <2> USE DEF HeldInv, HeldOnScreen
  <2>1. CASE UNCHANGED <<held, sent, lost, mouseMode>>
    BY <2>1
  <2>2. CASE Press \/ Release
    BY <2>2 DEF Press, Release, modeVars
  <2>3. ASSUME NEW c \in PadControls \cup MouseControls, Cancel(c)
        PROVE  HeldInv'
    BY <2>3 DEF Cancel, modeVars
  <2>4. ASSUME NEW s \in Sticks, StickStart(s)
        PROVE  HeldInv'
    BY <2>4 DEF StickStart, Touchable, Open, PadControls, modeVars
  <2>5. ASSUME NEW s \in Sticks, StickMove(s) \/ StickStop(s)
        PROVE  HeldInv'
    BY <2>5 DEF StickMove, StickStop, Axis, modeVars
  <2>6. CASE EditVGamepad
    <3>1. mouseMode' = mouseMode /\ (Unmount(PadControls) \/ UNCHANGED controlVars)
      BY <2>6 DEF EditVGamepad
    <3> QED
      BY <3>1 DEF Unmount, controlVars
  <2>7. CASE EnableVMouse
    <3>1. CASE mouseMode' = "disable"
      BY <2>7, <3>1 DEF EnableVMouse, Unmount, MouseControls
    <3>2. CASE mouseMode' # "disable"
      BY <2>7, <3>2 DEF EnableVMouse, controlVars
    <3> QED
      BY <3>1, <3>2
  <2>8. CASE HidChannel \/ ByHand \/ GroupRenders \/ HandleStop
             \/ (\E p \in Places : HandleDrag(p)) \/ (\E s \in Sticks : StickRenders(s))
    BY <2>1, <2>8 DEF HidChannel, ByHand, onScreenVars, GroupRenders, HandleStop, HandleDrag,
       StickRenders, controlVars, modeVars
  <2>9. CASE UNCHANGED allVars
    BY <2>1, <2>9 DEF allVars, onScreenVars
  <2> HIDE DEF HeldInv
  <2> QED
    BY <2>2, <2>3, <2>4, <2>5, <2>6, <2>7, <2>8, <2>9 DEF OnScreenNext
<1>3. HeldInv => HeldOnScreen
  BY DEF HeldInv
<1> QED
  BY <1>1, <1>2, <1>3, PTL DEF OnScreenSpec

-----------------------------------------------------------------------------
\* What is shown is what is stored, except after a drag that stored less.
LayoutInv == unsaved \/ posBtn = stored

LEMMA LayoutInvInductive ==
    ASSUME LayoutInv, [OnScreenNext]_allVars
    PROVE  LayoutInv'
<1> USE DEF LayoutInv
<1>1. CASE UNCHANGED placeVars
  BY <1>1 DEF placeVars
<1>2. CASE EditVGamepad
  BY <1>2 DEF EditVGamepad, MountGroup
<1>3. ASSUME NEW p \in Places, HandleDrag(p)
      PROVE  LayoutInv'
  BY <1>3 DEF HandleDrag
<1>4. CASE HandleStop
  <2>1. stored' = rendered /\ unsaved' = (rendered # posBtn) /\ posBtn' = posBtn
    BY <1>4 DEF HandleStop
  <2> QED
    BY <2>1
<1>5. CASE GroupRenders
  BY <1>5 DEF GroupRenders
<1>6. CASE HidChannel \/ EnableVMouse \/ Press \/ Release \/ ByHand \/ UNCHANGED allVars
  BY <1>1, <1>6 DEF HidChannel, EnableVMouse, Press, Release, ByHand, allVars, onScreenVars,
     placeVars
<1>7. ASSUME \/ \E c \in PadControls \cup MouseControls : Cancel(c)
             \/ \E s \in Sticks : StickStart(s) \/ StickRenders(s) \/ StickMove(s) \/ StickStop(s)
      PROVE  LayoutInv'
  BY <1>1, <1>7 DEF Cancel, StickStart, StickRenders, StickMove, StickStop
<1> HIDE DEF LayoutInv
<1> QED
  BY <1>2, <1>3, <1>4, <1>5, <1>6, <1>7 DEF OnScreenNext

\* Only the menu opens the gamepad.
LEMMA OpenedByMenu ==
    ASSUME [OnScreenNext]_allVars, padMode' # padMode
    PROVE  EditVGamepad
BY DEF OnScreenNext, allVars, onScreenVars, modeVars, HidChannel, EnableVMouse, Press, Release,
   Cancel, StickStart, StickRenders, StickMove, StickStop, HandleDrag, GroupRenders, HandleStop,
   ByHand

\* A group that is opened again is where it was left, unless its last place was
\* not stored, for any set of places.
THEOREM LayoutKeptHolds == OnScreenSpec => LayoutKept
<1>1. OnScreenInit => LayoutInv
  BY DEF OnScreenInit, LayoutInv
<1>2. LayoutInv /\ [OnScreenNext]_allVars
      => [padMode = "disable" /\ padMode' # "disable" => posBtn' = posBtn \/ unsaved]_allVars
  <2> SUFFICES ASSUME LayoutInv, [OnScreenNext]_allVars,
                      padMode = "disable", padMode' # "disable"
               PROVE  posBtn' = posBtn \/ unsaved
    OBVIOUS
  <2>1. MountGroup
    BY OpenedByMenu DEF EditVGamepad
  <2> QED
    BY <2>1 DEF MountGroup, LayoutInv
<1> QED
  BY <1>1, <1>2, LayoutInvInductive, PTL DEF OnScreenSpec, LayoutKept

=============================================================================
