SPECIFICATION PartsSpec
CONSTANTS
    Parts = {"worker"}
    Policies <- ScheduleOnly
    Sessions = {c}
    Jobs = {"suspend"}
    MaxEdits = 3
    MaxDirect = 0
    MaxMishaps = 1
    Nobody = Nobody
CHECK_DEADLOCK FALSE
PROPERTY ManualStands
