CONSTANTS
    YearLength = 365
    LastDay = 730
    Offsets = {2, 5}
    MinimalDays = {1, 4}
    Predicted = {{1, 365, 366}}
    Measured = {{2, 364}}
    Added = {367, 368}
    Today = 365
    Dates = {365, 366}
    MaxAppear = 2
    MaxOpen = 1
    MaxHourly = 2
    MaxError = 1
SPECIFICATION Spec
INVARIANTS TypeOK ChainsSettle LongRangeIsAYear
PROPERTIES NotifiesNew HourlySettles
CHECK_DEADLOCK FALSE
