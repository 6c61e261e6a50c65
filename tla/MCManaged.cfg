\* Two runs, two providers, and workers and sockets that may outlast cleanup.
SPECIFICATION ProcessesSpec
CONSTANTS
    Runs = {r1, r2}
    Handlers = {h1}
    A = A
    Refreshed = Refreshed
    Rekeyed = Rekeyed
    B = B
    NoProvider = NoProvider
    Configs = {A, B, NoProvider}
    Scope <- Providers
    Key <- Secrets
    Starts = {s1, s2}
    Clients = {k1}
    Nil = Nil
    MaxRequests = 1
    CleanupMayFail = TRUE
    MaxGenerations = 2
SYMMETRY Symmetry
INVARIANTS
    RelayAuthorized
    NothingOutlives
PROPERTIES
    ImplementsLifecycle
CHECK_DEADLOCK FALSE
