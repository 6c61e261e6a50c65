\* Provider: two commands at a time, two configurations, two endpoints or none,
\* two launches.  Scans: accounts of up to five entries within four entries and
\* three pages.  Browser: opened twice.  Profile: three loads.
SPECIFICATION HostSpec
CONSTANTS
    Tasks = {t1, t2}
    Sites = {NoSite, s1, s2}
    NoSite = NoSite
    Nil = Nil
    MaxGeneration = 2
    MaxLaunches = 2
    Kinds = {"gmail", "calendar"}
    Sizes <- SmallAccounts
    MaxItems = 4
    MaxPages = 3
    Targets <- OneAndDenied
    Google <- PublicPage
    AllowLoopback = FALSE
    MaxBrowsers = 2
    Loads = {l1, l2, l3}
SYMMETRY HostSymmetry
INVARIANTS
    ProviderTrusted
    
    CompleteUnlessTruncated
    BrowserConsistent
    SameProfile
PROPERTIES
    LateForgotten
CHECK_DEADLOCK FALSE
