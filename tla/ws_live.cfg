SPECIFICATION LiveSpec
CONSTANTS
    Call = {a, batch}
    BatchCall = {batch}
    Size <- MCSize
    MaxId = 2
    ChannelCapacity = 1
    PeerWindow = 2
    WireCap = 1
    PeerFaults = {"break"}
    Stream = {h1}
    SubId = {s1}
    MaxNotification = 2
    NoCall = NoCall
    NoStream = NoStream
INVARIANTS WsInv OwnAnswer
PROPERTIES EveryCallResolves BreakEndsStreams
\* Every call may be settled and nothing more be asked for.
CHECK_DEADLOCK FALSE
