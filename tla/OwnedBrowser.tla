---------------------------- MODULE OwnedBrowser ----------------------------
(***************************************************************************)
(* The browser window the app owns (browser.rs, browser/macos.rs): one     *)
(* session record behind a mutex, one native window, and the completions,  *)
(* timers, spawned tasks and window events that come back to them.         *)
(*                                                                         *)
(* Commands, completions and window events run on the main thread, one at  *)
(* a time; a command that takes the lock twice is two steps, between which *)
(* only spawned tasks act.  Everything under way is a member of late, each *)
(* with the generation it captured, and is taken in any order.             *)
(***************************************************************************)
EXTENDS Naturals, Absent

CONSTANTS Targets,          \* the addresses that are asked for or linked to
          Google,           \* the address of the services with a fixed one
          AllowLoopback,    \* a debug build under test (browser.rs:148)
          MaxBrowsers       \* bound of the exploration, on what is opened

VARIABLES session,   \* browser.rs:101
          window,    \* the native window, or Nil
          late,      \* what will still call back
          main,      \* the command or closure the main thread is in
          seen,      \* the last snapshot taken for the renderer
          quit       \* the app is ending

browserVars == <<session, window, late, main, seen, quit>>

-----------------------------------------------------------------------------
(* Addresses *)

Blank == [scheme |-> "about", host |-> "none", userinfo |-> FALSE, plain |-> TRUE]
Urls == [scheme : {"https", "http", "other"}, userinfo : BOOLEAN, plain : BOOLEAN,
         host : {"none", "public", "denied", "tauri", "127.0.0.1", "localhost"}]
Loopback == {"127.0.0.1", "localhost"}

\* The native window: its bridge removed or not, shown, its page, and the end
\* it is in.
Windows == [generation : Nat, stripped : BOOLEAN, shown : BOOLEAN, page : Urls \cup {Blank},
            end : {"no", "asked", "failed"}]

ASSUME BrowserAssumption ==
    /\ Targets \subseteq Urls /\ Google \in Targets
    /\ AllowLoopback \in BOOLEAN /\ MaxBrowsers \in Nat
    /\ Nil \notin Windows

Valid(url, loopback) ==
    /\ url.plain /\ ~url.userinfo /\ url.host \notin {"none", "denied", "tauri"}
    /\ url.host \in Loopback => loopback
    /\ \/ url.scheme = "https"
       \/ (url.scheme = "http" /\ loopback /\ url.host \in Loopback)

\* The callback address of a sign-in is accepted while one is under way, which
\* it may be or not at any time (external: connectors.rs); what is accepted may
\* be refused in every use.
Acceptable(url) ==
    \/ Valid(url, AllowLoopback)
    \/ (Valid(url, TRUE) /\ url.scheme = "http" /\ url.host = "127.0.0.1")

\* The origin; the rest of an address is never shown.
Public(url) == IF url = Blank \/ Valid(url, TRUE) THEN url ELSE Nil

Permits(g, url) ==
    /\ session.generation = g
    /\ \/ url = Blank
       \/ (session.secured /\ Acceptable(url))

ServiceUrls(service) ==
    CASE service = "home" -> {Blank}
      [] service = "google" -> {u \in {Google} : Valid(u, AllowLoopback)}
      [] service = "custom" -> {u \in Targets : Acceptable(u)}

-----------------------------------------------------------------------------
(* The session and the window *)

\* Variant: a browser that failed still counts as secured.
FailedSecured(s, g) ==
    IF s.generation # g THEN s ELSE [s EXCEPT !.phase = "error", !.error = "gate", !.url = Nil]

Failed(s, g) ==
    IF s.generation # g THEN s
    ELSE [s EXCEPT !.secured = FALSE, !.phase = "error", !.error = "gate", !.url = Nil]

\* Variant: the timer is left out.
NeverExpired(s, g) == s

Expired(s, g) == IF s.phase = "opening" THEN Failed(s, g) ELSE s

\* Variant: whichever browser is there is closed.
ClosedAnyhow(s, g, keepError) ==
    [s EXCEPT !.generation = g + 1, !.secured = FALSE, !.url = Nil, !.phase = "closed", !.error = Nil]

Closed(s, g, keepError) ==
    IF s.generation # g THEN s
    ELSE LET kept == keepError /\ s.phase = "error"
         IN  [s EXCEPT !.generation = g + 1, !.secured = FALSE, !.url = Nil,
                       !.phase = IF kept THEN "error" ELSE "closed",
                       !.error = IF kept THEN s.error ELSE Nil]

Opening(s) ==
    [generation |-> s.generation + 1, secured |-> FALSE, phase |-> "opening",
     url |-> Nil, error |-> Nil]

Awaited(g) == session.generation = g /\ session.phase = "opening"

NewWindow(g) ==
    [generation |-> g, stripped |-> FALSE, shown |-> FALSE, page |-> Blank, end |-> "no"]

Owns(g) == window # Nil /\ window.generation = g

\* destroy() asks for the end of the window, and may fail.
Destroy(g) ==
    IF ~Owns(g) THEN UNCHANGED window
    ELSE \E end \in {"asked", "failed"} :
            window' = [window EXCEPT !.end = IF @ = "asked" THEN @ ELSE end]

Shown(s) == [phase |-> s.phase, url |-> s.url, error |-> s.error]
EmitState == seen' = Shown(session')

-----------------------------------------------------------------------------
(* What is under way *)

Late(kind, g, url) == [kind |-> kind, generation |-> g, url |-> url]
Takes(e, kind) == e \in late /\ e.kind = kind
Becomes(e, new) == late' = (late \ {e}) \cup new

Idle == main.at = "idle"
NoWork == [at |-> "idle", generation |-> 0, url |-> Nil]
Work(at, url) == main' = [at |-> at, generation |-> session.generation, url |-> url]

\* A navigation asked for replaces the one under way in its window.
Loading(g, url) == {e \in late : e.kind \notin {"load", "loaded"}} \cup {Late("load", g, url)}

-----------------------------------------------------------------------------
(* Commands *)

\* Compilation of the content rules is asked for unless the host, the profile
\* or the compiler refuses; the timer runs in either case.
OpenWindow(service) ==
    /\ Idle /\ session.phase # "opening" /\ window = Nil
    /\ session.generation < MaxBrowsers
    /\ LET g == session.generation + 1
       IN  \/ /\ \E url \in ServiceUrls(service) :
                    late' = late \cup {Late("compiled", g, url), Late("timer", g, Nil)}
              /\ session' = Opening(session)
           \/ /\ ServiceUrls(service) # {}
              /\ late' = late \cup {Late("timer", g, Nil)}
              /\ session' = Failed(Opening(session), g)
    /\ EmitState /\ UNCHANGED <<window, main, quit>>

\* An open browser is navigated, unless Home is asked for, and brought forward.
Reopen(service) ==
    /\ Idle /\ session.phase # "opening" /\ window # Nil /\ session.secured
    /\ \E url \in ServiceUrls(service) :
          late' = IF service = "home" THEN late ELSE Loading(window.generation, url)
    /\ Work("reopen", Nil)
    /\ UNCHANGED <<session, window, seen, quit>>

Reopened ==
    /\ main.at = "reopen" /\ main' = NoWork
    /\ \/ /\ UNCHANGED <<session, seen>>     \* the window was not shown or focused
          /\ UNCHANGED window \/ window' = [window EXCEPT !.shown = TRUE]
       \/ /\ session' = [session EXCEPT !.error = Nil]
          /\ window' = [window EXCEPT !.shown = TRUE]
          /\ EmitState
    /\ UNCHANGED <<late, quit>>

Navigate ==
    /\ Idle /\ session.secured /\ window # Nil
    /\ \E url \in {u \in Targets : Acceptable(u)} : late' = Loading(window.generation, url)
    /\ UNCHANGED <<session, window, main, quit>> /\ EmitState

StatusRead ==
    /\ Idle /\ session.secured /\ window # Nil
    /\ Work("status", Public(window.page))
    /\ UNCHANGED <<session, window, late, seen, quit>>

StatusWritten ==
    /\ main.at = "status" /\ main' = NoWork
    /\ session' = [session EXCEPT !.url = main.url]
    /\ EmitState /\ UNCHANGED <<window, late, quit>>

StatusWithoutWindow ==
    /\ Idle /\ session.secured /\ window = Nil
    /\ session' = Closed(session, session.generation, FALSE)
    /\ EmitState /\ UNCHANGED <<window, late, main, quit>>

CloseWindow ==
    /\ Idle /\ (session.phase # "closed" \/ session.generation < MaxBrowsers)
    /\ IF window = Nil THEN UNCHANGED window ELSE window' = [window EXCEPT !.end = "asked"]
    /\ session' = Closed(session, session.generation, FALSE)
    /\ EmitState /\ UNCHANGED <<late, main, quit>>

\* Back, Forward and Reload run in a closure on the main thread, which checks
\* again and gives up after the command's deadline.
History ==
    /\ session.secured /\ window # Nil /\ ~\E e \in late : e.kind = "history"
    /\ late' = late \cup {Late("history", session.generation, Nil)}
    /\ UNCHANGED <<session, window, main, seen, quit>>

HistoryRuns(e) ==
    /\ Idle /\ Takes(e, "history")
    /\ \/ Becomes(e, {}) /\ UNCHANGED <<session, seen>>
       \/ /\ session.generation = e.generation /\ session.secured /\ window # Nil
          /\ \E url \in Targets \cup {Blank} :
                /\ Permits(e.generation, url)
                /\ late' = Loading(window.generation, url) \ {e}
          /\ UNCHANGED session /\ EmitState
    /\ UNCHANGED <<window, main, quit>>

\* No command comes once the app ends.
Commands ==
    /\ ~quit
    /\ \/ \E service \in {"home", "google", "custom"} : OpenWindow(service) \/ Reopen(service)
       \/ Navigate \/ StatusRead \/ StatusWithoutWindow \/ CloseWindow \/ History

-----------------------------------------------------------------------------
(* Completions and window events on the main thread *)

\* The blocker is compiled: the window is built hidden, with a bridge of
\* scripts and handlers, and a closure is queued that inspects it.
Compiled(e) ==
    /\ Idle /\ Takes(e, "compiled")
    /\ \/ ~Awaited(e.generation) /\ Becomes(e, {}) /\ UNCHANGED <<session, window, seen>>
       \/ /\ Awaited(e.generation)
          /\ Becomes(e, {Late("verify", e.generation, e.url), Late("load", e.generation, Blank)})
          /\ window' = NewWindow(e.generation)
          /\ UNCHANGED <<session, seen>>
       \/ /\ Awaited(e.generation) /\ Becomes(e, {})
          /\ \/ UNCHANGED window
             \/ \E end \in {"asked", "failed"} :
                   window' = [NewWindow(e.generation) EXCEPT !.end = end]
          /\ session' = Failed(session, e.generation)
          /\ EmitState
    /\ UNCHANGED <<main, quit>>

\* The window's store and controller are the ones asked for, or not; the
\* bridge is removed before the session is looked at again.
Verify(e) ==
    /\ Idle /\ Takes(e, "verify")
    /\ \/ /\ Becomes(e, {Late("reject", e.generation, Nil)})
          /\ UNCHANGED <<window, main>>
       \/ /\ Awaited(e.generation)
          /\ Becomes(e, {})
          /\ window' = [window EXCEPT !.stripped = TRUE]
          /\ Work("verify", e.url)
    /\ UNCHANGED <<session, seen, quit>>

Verified ==
    /\ main.at = "verify" /\ main' = NoWork
    /\ IF Awaited(main.generation)
       THEN /\ session' = [session EXCEPT !.secured = TRUE, !.phase = "open",
                                          !.url = Blank, !.error = Nil]
            /\ late' = late \cup {Late("present", main.generation, main.url)}
       ELSE /\ late' = late \cup {Late("drop", main.generation, Nil)}
            /\ UNCHANGED session
    /\ UNCHANGED <<window, seen, quit>>

\* The address is looked at when the navigation begins.
Load(e) ==
    /\ Idle /\ Takes(e, "load")
    /\ \/ Becomes(e, {})
       \/ /\ Permits(e.generation, e.url)
          /\ Becomes(e, {Late("loaded", e.generation, e.url)})
    /\ UNCHANGED <<session, window, main, seen, quit>>

\* The page is there, whatever has become of the session since.
Loaded(e) ==
    /\ Idle /\ Takes(e, "loaded") /\ Becomes(e, {})
    /\ window' = [window EXCEPT !.page = e.url]
    /\ session' = IF session.generation = e.generation /\ session.secured
                  THEN [session EXCEPT !.url = Public(e.url)] ELSE session
    /\ EmitState /\ UNCHANGED <<main, quit>>

\* The platform forgets a window that was destroyed, or that the user closed,
\* and reports it; what was queued for its view never runs.
Forget ==
    /\ Idle /\ window # Nil /\ (window.end = "asked" \/ window.shown)
    /\ window' = Nil
    /\ late' = {e \in late : \/ e.generation # window.generation
                             \/ e.kind \notin {"load", "loaded", "history", "verify"}}
               \cup {Late("gone", window.generation, Nil)}
    /\ UNCHANGED <<session, main, seen, quit>>

Destroyed(e) ==
    /\ Idle /\ Takes(e, "gone") /\ Becomes(e, {})
    /\ session' = Closed(session, e.generation, TRUE)
    /\ EmitState /\ UNCHANGED <<window, main, quit>>

MainThread ==
    \/ Reopened \/ StatusWritten \/ Verified \/ Forget
    \/ \E e \in late : \/ Compiled(e) \/ Verify(e) \/ Load(e) \/ Loaded(e)
                       \/ Destroyed(e) \/ HistoryRuns(e)

-----------------------------------------------------------------------------
(* Timers and spawned tasks *)

Expire(e) ==
    /\ Takes(e, "timer") /\ Becomes(e, {})
    /\ session' = Expired(session, e.generation)
    /\ EmitState /\ UNCHANGED <<window, main, quit>>

Reject(e) ==
    /\ Takes(e, "reject") /\ Becomes(e, {})
    /\ session' = Failed(session, e.generation)
    /\ Destroy(e.generation)
    /\ EmitState /\ UNCHANGED <<main, quit>>

Drop(e) ==
    /\ Takes(e, "drop") /\ Becomes(e, {})
    /\ Destroy(e.generation)
    /\ UNCHANGED <<session, main, seen, quit>>

Present(e) ==
    /\ Takes(e, "present")
    /\ IF session.generation = e.generation /\ session.secured
       THEN Becomes(e, {Late("enter", e.generation, e.url)}) /\ UNCHANGED window
       ELSE Becomes(e, {}) /\ Destroy(e.generation)
    /\ UNCHANGED <<session, main, seen, quit>>

Enter(e) ==
    /\ Takes(e, "enter")
    /\ \/ /\ Owns(e.generation)
          /\ late' = (Loading(e.generation, e.url) \ {e}) \cup {Late("show", e.generation, Nil)}
          /\ UNCHANGED <<session, window, seen>>
       \/ /\ Becomes(e, {})
          /\ session' = Failed(session, e.generation)
          /\ Destroy(e.generation) /\ EmitState
    /\ UNCHANGED <<main, quit>>

Show(e) ==
    /\ Takes(e, "show") /\ Becomes(e, {})
    /\ \/ /\ Owns(e.generation) /\ window' = [window EXCEPT !.shown = TRUE]
          /\ UNCHANGED session
       \/ /\ session' = IF session.generation = e.generation /\ session.secured
                        THEN [session EXCEPT !.error = "focus"] ELSE session
          /\ UNCHANGED window
    /\ EmitState /\ UNCHANGED <<main, quit>>

Spawned == \E e \in late : \/ Expire(e) \/ Reject(e) \/ Drop(e)
                           \/ Present(e) \/ Enter(e) \/ Show(e)

-----------------------------------------------------------------------------
(* The page and the end of the app *)

\* A page that was loaded asks for any address, by a link or a script.
FollowLink ==
    /\ Idle /\ window # Nil /\ window.page # Blank
    /\ \E url \in Targets :
          /\ Permits(window.generation, url)
          /\ late' = Loading(window.generation, url)
    /\ UNCHANGED <<session, window, main, seen, quit>>

\* The main window is gone, or the runtime was stopped first on a task of its
\* own, which reads the generation before it closes the session.
QuitApp ==
    /\ ~quit /\ quit' = TRUE
    /\ \/ /\ Idle /\ session' = Closed(session, session.generation, FALSE)
          /\ IF window = Nil THEN UNCHANGED window ELSE Destroy(window.generation)
          /\ UNCHANGED late /\ EmitState
       \/ /\ late' = late \cup {Late("shutdown", session.generation, Nil)}
          /\ UNCHANGED <<session, window, seen>>
    /\ UNCHANGED <<main>>

Shutdown(e) ==
    /\ Takes(e, "shutdown") /\ Becomes(e, {})
    /\ session' = Closed(session, e.generation, FALSE)
    /\ EmitState /\ UNCHANGED <<window, main, quit>>

BrowserInit ==
    /\ session = [generation |-> 0, secured |-> FALSE, phase |-> "closed",
                  url |-> Nil, error |-> Nil]
    /\ window = Nil /\ late = {} /\ main = NoWork
    /\ seen = Shown(session) /\ quit = FALSE

BrowserNext ==
    \/ Commands \/ MainThread \/ Spawned \/ FollowLink \/ QuitApp
    \/ \E e \in late : Shutdown(e)

BrowserSpec == BrowserInit /\ [][BrowserNext]_browserVars
=============================================================================
