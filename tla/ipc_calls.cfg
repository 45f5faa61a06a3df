SPECIFICATION Spec
CONSTANTS
    Call = {a, batch}
    BatchCall = {batch}
    Size <- MCSize
    MaxId = 3
    ChannelCapacity = 1
    MaxBuffer = 2
    PeerWindow = 2
    WireCap = 1
    PeerFaults = {"outputs", "malformed", "end", "break"}
    Stream = {}
    SubId = {}
    MaxNotification = 0
    NoCall = NoCall
    NoStream = NoStream
    NoRequest = NoRequest
INVARIANTS CallerHeld BatchWhole
PROPERTY ClientSpec
\* Every call may be settled and nothing more be asked for.
CHECK_DEADLOCK FALSE
