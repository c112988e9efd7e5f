SPECIFICATION PartsSpec
CONSTANTS
    Parts = {"worker", "limit", "collector", "locks", "transports", "events"}
    Policies <- ScheduleAndExpiry
    Sessions = {c, d}
    Jobs = {"suspend", "restore", "save"}
    MaxEdits = 3
    MaxDirect = 1
    MaxMishaps = 3
    Nobody = Nobody
CHECK_DEADLOCK FALSE
INVARIANTS TypeOK OnRecord
PROPERTIES SuspensionStands RestrictionsSettle SessionLimitHolds CollectorCatchesUp WaitsEnd
