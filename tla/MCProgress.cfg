\* One run across provider changes and catalog refreshes, with cleanup that succeeds
SPECIFICATION FairProcessesSpec
CONSTANTS
    Runs = {r1}
    Handlers = {h1}
    A = A
    Refreshed = Refreshed
    Rekeyed = Rekeyed
    B = B
    NoProvider = NoProvider
    Configs = {A, Refreshed, B, NoProvider}
    Scope <- Providers
    Key <- Secrets
    Starts = {s1, s2}
    Clients = {k1}
    Nil = Nil
    MaxRequests = 1
    CleanupMayFail = FALSE
    MaxGenerations = 2
PROPERTIES
    QuietBeforeReplacement
    NothingStuck
CHECK_DEADLOCK FALSE
