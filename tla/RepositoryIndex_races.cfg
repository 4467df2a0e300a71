SPECIFICATION Spec
CONSTANTS
    MaxScans = 3
    MaxChanges = 1
    MaxFailures = 1
PROPERTIES RescanReplaces OverlapReplaces ScansEnd
CHECK_DEADLOCK FALSE
