SPECIFICATION Spec
CONSTANTS
    Users = {u1, u2}
    kMaxPendingWrites = 2
    MaxWrite = 3
    MaxFault = 3
INVARIANTS TypeOK WireInStep NoneForgotten LastWriteWins
PROPERTIES Implements AllAnswered
CHECK_DEADLOCK FALSE
