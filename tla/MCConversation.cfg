\* Two workspaces with a grant each on one connection: admission, dispatch,
\* cancellation, completion and restart of two runs amid revocation, expiry,
\* deletion and configuration changes.
SPECIFICATION Spec
CONSTANTS
    Workspaces = {w1, w2}
    Connections = {c1}
    Models = {m1}
    Operations = {o1}
    Grants = {g1, g2}
    Runs = {r1, r2}
    Proposals = {}
    Interfaces = {}
    Schedules = {}
    Tools = {}
    Nil = Nil
    Import = Import
    Cron <- CronNone
    QueueLimit = 2
    Catalogs = {{m1}}
    RunMinutes = 1
    ClaimMinutes = 1
    MaxToolCalls = 0
    MaxIterations = 0
    DailyLimit = 0
    MinutesPerDay = 1
    Expiries = {1}
    RunLimits = {}
    Horizon = 1
    MaxRevision = 0
    MaxGeneration = 2
    MaxVersion = 0
    MaxClaims = 0
SYMMETRY Symmetry
INVARIANTS
    TypeOK
    CancelledNeverAdmitted
    ConversationComplete
    ExclusiveWork
    EffectsNeedAuthority
PROPERTIES
    ImplementsLifecycle
