SPECIFICATION FairSpec
CONSTANTS
    None = "none"
    Conns = {"c1"}
    Pads = {"p"}
    Special = {"Control"}
    Control = "Control"
    Chars = {"v"}
    V = "v"
    MaxMessages = 1
CHECK_DEADLOCK FALSE
PROPERTIES HungPeerClosed
