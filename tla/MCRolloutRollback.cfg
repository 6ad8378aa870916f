SPECIFICATION RolloutSpec
CONSTANTS
    Jobs = {1, 2}
    KindsOf <- MCKindsOf
    Branches = {main, dev}
    VarNames = {k}
    Values = {v}
    Unset = Unset
    MaxCommit = 3
    MaxEvents = 1
CHECK_DEADLOCK FALSE
SYMMETRY Symm
INVARIANTS
    RollbackTagExists
