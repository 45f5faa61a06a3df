SPECIFICATION Spec
CONSTANTS
    Call = {}
    BatchCall = {}
    Size <- MCSize
    MaxId = 1
    ChannelCapacity = 1
    MaxBuffer = 2
    PeerWindow = 1
    WireCap = 1
    PeerFaults = {"ignored", "end"}
    Stream = {h1, h2}
    SubId = {s1, s2}
    MaxNotification = 3
    NoCall = NoCall
    NoStream = NoStream
    NoRequest = NoRequest
SYMMETRY StreamSymmetry
INVARIANT NoGap
PROPERTY StreamKept
\* Every stream may have ended.
CHECK_DEADLOCK FALSE
