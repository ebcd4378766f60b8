CONSTANTS
    LastDay = 8
    MonthLength = 4
    Today = 4
    Weekdays = {0, 3}
    FirstWeekdays = {1, 2, 7}
    Collections = {{}, {1, 4}, {3, 7}}
    MaxAppear = 1
    MaxMonth = 1
    MaxHourly = 2
    MaxError = 1
SPECIFICATION Spec
INVARIANTS TypeOK InStep EveryDaySeen
PROPERTIES LoadingEnds HourlySettles
CHECK_DEADLOCK FALSE
