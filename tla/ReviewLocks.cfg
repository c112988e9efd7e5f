SPECIFICATION Spec
CONSTANTS
    Workers = {w1, w2}
    Processes = {w1, w2}
    ProcessOf <- OwnProcess
    Accounts = {a}
    Settings = {on, off}
    Jobs = {"preview", "apply", "override"}
    Free = Free
    Orphan = Orphan
    NoReceipt = NoReceipt
    Unread = Unread
    MaxChanges = 1
    MaxRun = 1
    MaxLosses = 2
    MaxLapses = 1
SYMMETRY WorkerSymmetry
INVARIANTS TypeOK OneWorkerPerAccount WriteReplacesWhatWasRead
PROPERTIES NoWriteIntoAnothersSection KeepsPromise
