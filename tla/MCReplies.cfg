\* Replies: one reply and two commands at once, reading, stopping and deleting it
\* across two lives of the runtime, crashes and Quit.
\* Resources: two commands at once on one workspace, closings and a start.
\* Every bound of the exploration is a state where nothing more may happen.
SPECIFICATION RepliesSpec
CONSTANTS
    Workspaces = {w1}
    Requests = {r1}
    Tasks = {t1, t2}
    MaxPending = 8
    QueueLimit = 2
    PageSize = 1
    MaxShown = 2
    MaxGeneration = 1
    MaxLaunches = 2
    MaxEmit = 1
    Spaces = {w1}
    Orders = {c1, c2}
    MaxDeeds = 3
    Nil = Nil
SYMMETRY TaskSymmetry
INVARIANTS
    EventsWhole
    
    RecordedFirst
    NoOrphans
    BackgroundHeld

    
CHECK_DEADLOCK FALSE
