SPECIFICATION Spec
CONSTANTS
    Queries = {q1, q2}
    MaxVersion = 1
    MaxListen = 2
    MaxFault = 1
INVARIANTS TypeOK TrackerConsistent WatchedWhileNeeded AnsweredOnce FreshGet MonotonicReads
PROPERTIES GetsAnswered
CHECK_DEADLOCK FALSE
