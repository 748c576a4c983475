\* One stick, another USB device, two sessions, one recreation, one report a
\* session, one death of the process.
SPECIFICATION Spec
CONSTANTS
    MaxPlugs = 1
    MaxStarts = 2
    MaxOthers = 1
    MaxRecreate = 1
    MaxReports = 1
    MaxDeaths = 1
INVARIANTS EnabledHasDevice OwnsDriver NotificationSettles ForegroundUnlessShared
CHECK_DEADLOCK FALSE
