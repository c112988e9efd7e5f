SPECIFICATION FairSpec
CONSTANTS
    Ids = {a, b}
    Interfaces = {e}
    Ghost = Ghost
    Logins = {r}
    Clients = {s}
    Absent = Absent
    Unobserved = Unobserved
    Nobody = Nobody
    MaxCount = 1
    MaxSessions = 1
    MaxReplay = 2
    MaxSize = 2
    MaxClients = 1
    MaxSequence = 3
CHECK_DEADLOCK FALSE
INVARIANTS TypeOK ShownIsExact
PROPERTIES CatchesUp
