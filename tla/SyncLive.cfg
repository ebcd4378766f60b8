CONSTANTS
    Devices = {"lamp"}
    Category <- MCCategory
    Filters <- MCFilters
    MaxDay = 2
    MaxTap = 1
    MaxAuto = 1
    MaxAppear = 1
    MaxEdit = 0
    MaxFilter = 0
    MaxError = 1
    MaxRelaunch = 0
    MaxQueue = 1
SPECIFICATION FairSpec
PROPERTIES Converges SwitchReleased
CHECK_DEADLOCK FALSE
