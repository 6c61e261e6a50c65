\* A second turn after the first was fenced during its admission
SPECIFICATION Spec
CONSTANTS
    Workspaces = {w1}
    Requests = {r1, r2}
    Tasks = {t1}
    MaxPending = 8
    QueueLimit = 2
    PageSize = 1
    MaxShown = 2
    MaxGeneration = 2
    MaxLaunches = 1
    MaxEmit = 0
    Nil = Nil
INVARIANTS
    ImportedOnce
CHECK_DEADLOCK FALSE
