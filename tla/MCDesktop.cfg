\* One command at a time on one reply, across a provider change and a relaunch;
\* two edits, a message and a navigation, deletion or closing; a browser that is
\* opened once; one sign-in; two commands, starts or provider changes.
\* Liveness: no symmetry.
SPECIFICATION DesktopSpec
CONSTANTS
    Workspaces = {w1}
    Requests = {r1}
    Tasks = {t1}
    MaxPending = 8
    QueueLimit = 2
    PageSize = 1
    MaxShown = 2
    MaxGeneration = 2
    MaxLaunches = 2
    MaxEmit = 0
    MaxTyped = 2
    MaxSent = 1
    MaxMoves = 1
    Targets <- OnePage
    Google <- PublicPage
    AllowLoopback = FALSE
    MaxBrowsers = 1
    Ports = {p1}
    MaxAttempts = 1
    MaxClock = 5
    MaxCalls = 2
    Timeout = 2
    Spaces = {w1}
    Orders = {c1}
    MaxDeeds = 2
    Nil = Nil
INVARIANTS
    DraftsKept
PROPERTIES
    TypedStays
    WaitsEnd
    LeavingEnds
CHECK_DEADLOCK FALSE
