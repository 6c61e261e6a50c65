\* One interface, three proposals and a schedule: proposals, publication, rename,
\* rollback and deletion by the operator, while an occurrence publishes its own.
SPECIFICATION Spec
CONSTANTS
    Workspaces = {w1}
    Connections = {c1}
    Models = {m1}
    Operations = {o1}
    Grants = {}
    Runs = {r1}
    Proposals = {p1, p2, p3}
    Interfaces = {i1}
    Schedules = {s1}
    Tools = {}
    Nil = Nil
    Import = Import
    Cron <- CronSome
    QueueLimit = 1
    Catalogs = {{m1}}
    RunMinutes = 1
    ClaimMinutes = 1
    MaxToolCalls = 1
    MaxIterations = 0
    DailyLimit = 0
    MinutesPerDay = 1
    Expiries = {2}
    RunLimits = {1}
    Horizon = 1
    MaxRevision = 2
    MaxGeneration = 0
    MaxVersion = 2
    MaxClaims = 0
SYMMETRY Symmetry
INVARIANTS
    ProposalsGoverned
    RefreshPublished
