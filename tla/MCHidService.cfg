SPECIFICATION Spec
CONSTANTS
    None = "none"
    Conns = {"c1"}
    Pads = {"p", "q"}
    Special = {"Control"}
    Control = "Control"
    Chars = {"v"}
    V = "v"
    MaxMessages = 3
CHECK_DEADLOCK FALSE
INVARIANTS KeysFollowMessages ModeReadAsSent PadsReleased
