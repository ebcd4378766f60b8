CONSTANTS
    Devices = {"lamp"}
    Category <- MCCategory
    Filters <- MCFilters
    MaxDay = 1
    MaxTap = 1
    MaxAuto = 1
    MaxAppear = 1
    MaxEdit = 1
    MaxFilter = 0
    MaxError = 0
    MaxRelaunch = 1
    MaxQueue = 1
SPECIFICATION Spec
PROPERTIES StaysInStep
CHECK_DEADLOCK FALSE
