SPECIFICATION LiveSpec
CONSTANTS
    Call = {a, batch}
    BatchCall = {batch}
    Size <- MCSize
    MaxId = 2
    ChannelCapacity = 1
    MaxBuffer = 3
    PeerWindow = 2
    WireCap = 2
    PeerFaults = {"end", "large", "break"}
    Stream = {}
    SubId = {}
    MaxNotification = 0
    NoCall = NoCall
    NoStream = NoStream
    NoRequest = NoRequest
INVARIANTS IpcInv BatchesHeld OwnAnswer UnsentNeverSent
PROPERTIES EveryCallResolves TaskEnds
\* Every request may be settled and nothing more be asked for.
CHECK_DEADLOCK FALSE
