\* One grant, two native requests, two models: claims, leases, results,
\* revocation and model requests across midnight.
SPECIFICATION Spec
CONSTANTS
    Workspaces = {w1}
    Connections = {c1}
    Models = {m1, m2}
    Operations = {o1}
    Grants = {g1}
    Runs = {r1}
    Proposals = {}
    Interfaces = {}
    Schedules = {}
    Tools = {t1, t2}
    Nil = Nil
    Import = Import
    Cron <- CronNone
    QueueLimit = 2
    Catalogs = {{m1}}
    RunMinutes = 2
    ClaimMinutes = 1
    MaxToolCalls = 2
    MaxIterations = 1
    DailyLimit = 1
    MinutesPerDay = 2
    Expiries = {2, 3}
    RunLimits = {}
    Horizon = 3
    MaxRevision = 0
    MaxGeneration = 2
    MaxVersion = 0
    MaxClaims = 2
INVARIANTS
    ToolsFollowRuns
    
