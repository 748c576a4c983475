SPECIFICATION Spec
CONSTANTS
    MaxPlugs = 1
    MaxStarts = 2
    MaxOthers = 1
    MaxRecreate = 0
    MaxReports = 0
    MaxDeaths = 0
INVARIANT HandleIsOwn
CHECK_DEADLOCK FALSE
