SPECIFICATION Spec
CONSTANTS
    Stream = {h1, h2}
    Listener = {connect}
    SubId = {s1, s2}
    ReusesIds = FALSE
    MaxNotification = 2
    MaxEvents = 2
    NoStream = NoStream
    NoId = NoId
INVARIANTS NoPanic OwnNotifications ListenersFollow
\* Every stream may be gone.
CHECK_DEADLOCK FALSE
