SPECIFICATION OnScreenSpec
CONSTANTS
    Keys = {"Control", "Shift", "Alt", "f"}
    Special = {"Control", "Shift", "Alt"}
    Control = "Control"
    Shift = "Shift"
    Alt = "Alt"
    KeyF = "f"
    Buttons = {0}
    Left = 0
    Fingers = {0, 1}
    Pads = {0, 1}
    Virtual = 9
    Places = {"corner", "middle"}
    MaxEvents = 6
CHECK_DEADLOCK FALSE
INVARIANTS KeysFollowHands LeftDownExplained IgnoredWhileOpen HeldOnScreen
PROPERTIES PadFollowed LayoutKept
