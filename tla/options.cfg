SPECIFICATION Spec
CONSTANTS
    first = a
    Op = {a}
    Kinds <- OneKind
    OptionSets <- AllOptions
    Types = {1, 2}
    Wanted = {1}
    Deep = 1
    MaxReorgs = 0
    NoNonce = NoNonce
    Absent = Absent
INVARIANT OptionsCarried
\* Every operation may have ended.
CHECK_DEADLOCK FALSE
