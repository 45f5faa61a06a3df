SPECIFICATION FairSpec
CONSTANTS
    Request = {p, q, r}
    Submission = {s, t}
    MaxId = 2
    NoRequest = NoRequest
INVARIANTS BatchInv
PROPERTIES ClientSpec SubmittedResolves ReleaseSettles
\* Every submission may have ended.
CHECK_DEADLOCK FALSE
