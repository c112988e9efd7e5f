SPECIFICATION Spec
CONSTANTS
    Workers = {w1, w2}
    Processes = {w1, w2}
    ProcessOf <- OwnProcess
    Accounts = {a}
    Settings = {on}
    Jobs = {"preview", "apply", "override"}
    Free = Free
    Orphan = Orphan
    NoReceipt = NoReceipt
    Unread = Unread
    MaxChanges = 1
    MaxRun = 2
    MaxLosses = 1
    MaxLapses = 0
PROPERTY RestartStopsCoordination
