\* One schedule with two slots and two attempts: enabling, pausing, the
\* scheduler's tick and the occurrences it admits.
SPECIFICATION Spec
CONSTANTS
    Workspaces = {w1}
    Connections = {c1}
    Models = {m1}
    Operations = {o1}
    Grants = {}
    Runs = {r1, r2}
    Proposals = {p1}
    Interfaces = {i1}
    Schedules = {s1}
    Tools = {}
    Nil = Nil
    Import = Import
    Cron <- CronSome
    QueueLimit = 1
    Catalogs = {{m1}}
    RunMinutes = 1
    ClaimMinutes = 1
    MaxToolCalls = 0
    MaxIterations = 0
    DailyLimit = 0
    MinutesPerDay = 1
    Expiries = {2, 3}
    RunLimits = {1, 2}
    Horizon = 2
    MaxRevision = 0
    MaxGeneration = 0
    MaxVersion = 3
    MaxClaims = 0
SYMMETRY Symmetry
INVARIANTS
    SlotsAccounted
    SchedulesNeedAuthority
