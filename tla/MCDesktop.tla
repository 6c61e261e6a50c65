------------------------------ MODULE MCDesktop ------------------------------
(***************************************************************************)
(* An instance of the components behind the main window for TLC: replies,  *)
(* the drafts of a workspace, the owned browser, a sign-in and what the    *)
(* operator does to the runtime.  They share no state: a behaviour         *)
(* exercises one of them while the others rest, with nothing under way.    *)
(***************************************************************************)
EXTENDS RunReconciliationSafety, WorkspaceDraftSafety, OwnedBrowserSafety,
        SignInSafety, ResourceSafety, TLC

VARIABLE subject

PublicPage == [scheme |-> "https", host |-> "public", userinfo |-> FALSE, plain |-> TRUE]
OnePage == {PublicPage}

SignInRests ==
    /\ attempt = Nil /\ phases = [g \in Attempts |-> "none"]
    /\ wait = [g \in Attempts |-> NotBegun]
    /\ backlog = [p \in Ports |-> <<>>] /\ clock = MaxClock /\ calls = MaxCalls

DesktopInit ==
    /\ subject \in {"replies", "drafts", "browser", "sign-in", "resources"}
    /\ Init /\ DraftInit /\ BrowserInit /\ ResourceInit
    /\ subject # "resources" => desk.owners = {}
    /\ IF subject = "sign-in" THEN SignInInit ELSE SignInRests

RepliesNext   == Next /\ UNCHANGED <<draftVars, browserVars, signInVars, resourceVars>>
DraftsNext    == DraftNext /\ UNCHANGED <<vars, browserVars, signInVars, resourceVars>>
BrowsersNext  == BrowserNext /\ UNCHANGED <<vars, draftVars, signInVars, resourceVars>>
SignInsNext   == SignInNext /\ UNCHANGED <<vars, draftVars, browserVars, resourceVars>>
ResourcesNext == ResourceNext /\ UNCHANGED <<vars, draftVars, browserVars, signInVars>>

DesktopNext ==
    /\ UNCHANGED subject
    /\ \/ subject = "replies" /\ RepliesNext
       \/ subject = "drafts" /\ DraftsNext
       \/ subject = "browser" /\ BrowsersNext
       \/ subject = "sign-in" /\ SignInsNext
       \/ subject = "resources" /\ ResourcesNext

desktopVars == <<subject, vars, draftVars, browserVars, signInVars, resourceVars>>

\* What is fair of a component that rests is never enabled.
DesktopSpec ==
    /\ DesktopInit /\ [][DesktopNext]_desktopVars
    /\ Fairness /\ DraftFairness /\ BrowserFairness /\ SignInFairness /\ ResourceFairness

-----------------------------------------------------------------------------
(* Liveness.  What is waited for is one thing in each component here: there *)
(* is one task, one browser and one sign-in.                                *)

\* Every command on a reply returns; a draft that is not saved is saved, or says
\* why not; a browser that opens is open, or says why not; a sign-in ends
\* (runs.rs:330, store.ts:201, browser.rs:205, loopback.rs:46).
Underway == Commanded \/ Unsaved \/ BrowserOpening \/ SigningIn
WaitsEnd == Underway ~> ~Underway

\* A window that is to close closes or stays, the main one after its drafts were
\* saved and its schedules counted, and the browser's when it is not secured; and
\* a sign-in gives its port back (lib.rs:283, browser.rs:247, connectors.rs:659).
Leaving == DraftsClosing \/ FrameClosing \/ BrowserClosing \/ Listening
LeavingEnds == Leaving ~> ~Leaving
=============================================================================
