\* Accounts: two sign-ins, two refreshes and disconnections; no grants.
\* Callbacks: two sign-ins that may meet at a port, two connections to it.
SPECIFICATION AccountsSpec
CONSTANTS
    Connections = {c1, c2}
    Grants = {}
    Reads = {}
    Runs = {}
    WorkspaceOf <- OneWorkspace
    Operations = {mail, calendar}
    Nil = Nil
    GrantSpan = 1
    ReadSpan = 1
    MaxGrants = 1
    MaxCancelled = 1
    SignInSpan = 1
    MaxRefreshes = 2
    Horizon = 2
    Ports = {p1, p2}
    MaxAttempts = 2
    MaxClock = 5
    MaxCalls = 2
    Timeout = 2
SYMMETRY AccountSymmetry
INVARIANTS
    AccountsAgree
    SignInSound
PROPERTIES
    LateTasksHarmless
    SignInsImplemented
CHECK_DEADLOCK FALSE
