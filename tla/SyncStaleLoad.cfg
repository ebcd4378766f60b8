CONSTANTS
    Devices = {"lamp"}
    Category <- MCCategory
    Filters <- MCFilters
    MaxDay = 1
    MaxTap = 0
    MaxAuto = 1
    MaxAppear = 1
    MaxEdit = 0
    MaxFilter = 0
    MaxError = 0
    MaxRelaunch = 0
    MaxQueue = 2
SPECIFICATION Spec
INVARIANTS RealTimeSync
CHECK_DEADLOCK FALSE
