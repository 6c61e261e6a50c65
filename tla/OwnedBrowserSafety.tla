------------------------- MODULE OwnedBrowserSafety -------------------------
(* Properties of OwnedBrowser *)
EXTENDS OwnedBrowser

Phases == {"closed", "opening", "open", "error"}
LateKinds == {"compiled", "timer", "verify", "load", "loaded", "history", "reject",
          "drop", "present", "enter", "show", "gone", "shutdown"}

\* Types of the variables.
BrowserTypeOK ==
    /\ session.generation \in Nat /\ session.secured \in BOOLEAN /\ session.phase \in Phases
    /\ window # Nil => window.generation \in 1..session.generation
    /\ \A e \in late : e.kind \in LateKinds /\ e.generation \in Nat
    /\ main.at \in {"idle", "reopen", "status", "verify"}

PendingOf(kinds, g) == \E e \in late : e.kind \in kinds /\ e.generation = g

(***************************************************************************)
(* A browser counts as secured only over the window of its own generation, *)
(* whose bridge to the app has been removed, or over one whose end is      *)
(* about to be reported; and no window has shown a page before its bridge  *)
(* was removed (macos.rs:148).                                             *)
(***************************************************************************)
SecuredWindow ==
    /\ session.secured =>
          \/ window # Nil /\ window.generation = session.generation /\ window.stripped
          \/ PendingOf({"gone"}, session.generation)
    /\ window # Nil /\ ~window.stripped => window.page = Blank

(***************************************************************************)
(* The address the app shows beside a secured browser is that of the page  *)
(* its window is on, and one that is closed or being opened shows none     *)
(* while the app is not ending.                                            *)
(***************************************************************************)
AddressShown ==
    /\ /\ Idle /\ session.secured /\ Owns(session.generation)
       => session.url = Public(window.page)
    /\ session.phase \in {"closed", "opening"} /\ ~quit => session.url = Nil

(***************************************************************************)
(* With nothing left that reports, the renderer has been told the phase,   *)
(* the address and the error there are: a change by a timer, a failed      *)
(* verification or a late completion is announced by the step that made it *)
(* or by one that is certain to follow (browser.rs:202).                   *)
(***************************************************************************)
RendererFollows ==
    /\ Idle
    /\ ~\E e \in late : /\ e.kind \in {"present", "enter", "show"}
                        /\ e.generation = session.generation
    => seen = Shown(session)

BrowserConsistent == SecuredWindow /\ AddressShown /\ RendererFollows

(***************************************************************************)
(* What comes back for an earlier browser leaves the one that replaced it  *)
(* alone: a step that takes a completion, timer, task or window event of   *)
(* another generation changes nothing of the session.                      *)
(***************************************************************************)
LateLeavesAlone ==
    \A e \in late : e \notin late' /\ e.generation # session.generation /\ e.kind # "load"
                   => session' = session

LateForgotten == [][LateLeavesAlone]_browserVars

\* A browser that was asked for and is not open yet
BrowserOpening == \E g \in 1..MaxBrowsers : Awaited(g)

\* A window that is not the secured browser's, which the platform may refuse to
\* destroy
BrowserClosing == window # Nil /\ ~session.secured /\ ~quit /\ window.end # "failed"

\* Timers fire, closures on the main thread and spawned tasks run, the platform
\* ends the windows it agreed to destroy.
BrowserFairness ==
    /\ WF_browserVars(Reopened \/ StatusWritten \/ Verified)
    /\ WF_browserVars(\E e \in late : Verify(e))
    /\ WF_browserVars(window # Nil /\ window.end = "asked" /\ Forget)
    /\ WF_browserVars(\E e \in late : Expire(e))
    /\ WF_browserVars(\E e \in late : Reject(e) \/ Drop(e) \/ Present(e) \/ Enter(e))
=============================================================================
