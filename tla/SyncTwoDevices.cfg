CONSTANTS
    Devices = {"lamp", "heater"}
    Category <- MCCategory
    Filters <- MCFilters
    MaxDay = 1
    MaxTap = 1
    MaxAuto = 0
    MaxAppear = 1
    MaxEdit = 0
    MaxFilter = 1
    MaxError = 0
    MaxRelaunch = 0
    MaxQueue = 1
SPECIFICATION Spec
INVARIANTS TypeOK SwitchLock WholeList
CHECK_DEADLOCK FALSE
