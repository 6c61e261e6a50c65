------------------------------- MODULE MCHost -------------------------------
(***************************************************************************)
(* An instance of ProviderConfig, ReadScan, OwnedBrowser and               *)
(* ProfileIdentity for TLC.  They share no state: a behaviour exercises    *)
(* one of them while the others rest where they start.                     *)
(***************************************************************************)
EXTENDS ProviderConfigSafety, ReadScan, OwnedBrowserSafety, ProfileIdentity, TLC

VARIABLE subject

SmallAccounts == 0..5
PublicPage == [scheme |-> "https", host |-> "public", userinfo |-> FALSE, plain |-> TRUE]
OneAndDenied == {PublicPage, [PublicPage EXCEPT !.host = "denied"]}

HostSymmetry == Permutations(Tasks) \cup Permutations(Sites \ {NoSite})

ScanRests ==
    /\ kind = "gmail" /\ size = 0 /\ inside = {} /\ asked = 1
    /\ page = 0 /\ listed = 0 /\ more = FALSE /\ queue = <<>>
    /\ scanned = 0 /\ items = {} /\ truncated = FALSE /\ outcome = "scanning"

HostInit ==
    /\ subject \in {"provider", "scan", "browser", "profile"}
    /\ ProviderInit /\ BrowserInit /\ ProfileInit
    /\ IF subject = "scan" THEN ScanInit ELSE ScanRests

HostNext ==
    /\ UNCHANGED subject
    /\ \/ /\ subject = "provider" /\ ProviderNext
          /\ UNCHANGED <<scanVars, browserVars, profileVars>>
       \/ /\ subject = "scan" /\ ScanNext
          /\ UNCHANGED <<providerVars, browserVars, profileVars>>
       \/ /\ subject = "browser" /\ BrowserNext
          /\ UNCHANGED <<providerVars, scanVars, profileVars>>
       \/ /\ subject = "profile" /\ ProfileNext
          /\ UNCHANGED <<providerVars, scanVars, browserVars>>

HostSpec ==
    HostInit /\ [][HostNext]_<<subject, providerVars, scanVars, browserVars, profileVars>>
=============================================================================
