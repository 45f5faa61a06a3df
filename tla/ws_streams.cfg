SPECIFICATION Spec
CONSTANTS
    Call = {}
    BatchCall = {}
    Size <- MCSize
    MaxId = 2
    ChannelCapacity = 1
    PeerWindow = 1
    WireCap = 1
    PeerFaults = {"ignored", "break"}
    Stream = {h1, h2}
    SubId = {s1, s2}
    MaxNotification = 4
    NoCall = NoCall
    NoStream = NoStream
SYMMETRY StreamSymmetry
INVARIANT NoGap
PROPERTY StreamKept
\* Every stream may have ended.
CHECK_DEADLOCK FALSE
