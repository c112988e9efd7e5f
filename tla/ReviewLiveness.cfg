SPECIFICATION FairSpec
CONSTANTS
    Workers = {w1, w2}
    Processes = {w1, w2}
    ProcessOf <- OwnProcess
    Accounts = {a}
    Settings = {on}
    Jobs = {"preview", "apply"}
    Free = Free
    Orphan = Orphan
    NoReceipt = NoReceipt
    Unread = Unread
    MaxChanges = 1
    MaxRun = 2
    MaxLosses = 2
    MaxLapses = 1
PROPERTIES RequestsEnd LocksComeFree HonouredReceiptIsCurrent
