SPECIFICATION PartsSpec
CONSTANTS
    Parts = {"events"}
    Policies <- ScheduleAndExpiry
    Sessions = {c, d}
    Jobs = {"suspend", "restore", "save"}
    MaxEdits = 3
    MaxDirect = 1
    MaxMishaps = 3
    Nobody = Nobody
CHECK_DEADLOCK FALSE
PROPERTY ResponseEnds
