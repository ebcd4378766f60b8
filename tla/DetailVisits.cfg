CONSTANTS
    MaxVisit = 2
    MaxAppear = 3
    MaxTap = 1
    MaxAuto = 1
    MaxQueue = 1
SPECIFICATION FairSpec
INVARIANTS TypeOK OneListener MirrorsDocument AnnouncesChanges
PROPERTIES LoadsDevice
CHECK_DEADLOCK FALSE
