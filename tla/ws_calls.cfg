SPECIFICATION Spec
CONSTANTS
    Call = {a, b, batch}
    BatchCall = {batch}
    Size <- MCSize
    MaxId = 4
    ChannelCapacity = 1
    PeerWindow = 2
    WireCap = 1
    PeerFaults = {"outputs", "malformed", "break"}
    Stream = {}
    SubId = {}
    MaxNotification = 0
    NoCall = NoCall
    NoStream = NoStream
SYMMETRY CallSymmetry
INVARIANTS CallerHeld UnsentNeverSent
PROPERTY ClientSpec
\* Every call may be settled and nothing more be asked for.
CHECK_DEADLOCK FALSE
