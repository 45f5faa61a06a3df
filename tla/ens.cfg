SPECIFICATION Spec
CONSTANTS
    reader = a
    old = old
    new = new
    Op = {a, b}
    Methods <- MCMethods
    Resolver = {old, new}
    Supports <- MCSupports
    Nobody = Nobody
    Others = Others
    MaxChanges = 2
INVARIANTS GateGuards NobodyAnswers
PROPERTY ReadsTheName
\* Every operation may have ended.
CHECK_DEADLOCK FALSE
