\* One account read under one grant, with a refresh that may narrow its scopes.
\* Liveness: no symmetry.
SPECIFICATION FairSpec
CONSTANTS
    Connections = {c1}
    Grants = {g1}
    Reads = {d1}
    Runs = {r1}
    WorkspaceOf <- OneWorkspace
    Operations = {mail, calendar}
    Nil = Nil
    GrantSpan = 1
    ReadSpan = 1
    MaxGrants = 1
    MaxCancelled = 1
    SignInSpan = 1
    MaxRefreshes = 1
    Horizon = 2
INVARIANTS
    GrantsWithinScopes
PROPERTIES
    
    LeasesEnd
CHECK_DEADLOCK FALSE
