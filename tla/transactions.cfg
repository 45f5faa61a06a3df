SPECIFICATION MCSpec
CONSTANTS
    first = a
    Op = {a, b}
    Kinds <- AllKinds
    OptionSets <- FeeOptions
    Types = {0, 1, 2, 3}
    Wanted = {0, 2}
    Deep = 2
    MaxReorgs = 1
    NoNonce = NoNonce
    Absent = Absent
INVARIANTS ConfirmedEnough NonceFresh OptionsKept
PROPERTY EveryWaitEnds
\* Every operation may have ended.
CHECK_DEADLOCK FALSE
