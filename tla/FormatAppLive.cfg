SPECIFICATION Spec
CONSTANTS
    MaxPlugs = 1
    MaxStarts = 2
    MaxOthers = 0
    MaxRecreate = 1
    MaxReports = 0
    MaxDeaths = 1
PROPERTIES StartEnds ButtonReturns ServiceStops
CHECK_DEADLOCK FALSE
