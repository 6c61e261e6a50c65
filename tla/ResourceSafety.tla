--------------------------- MODULE ResourceSafety ---------------------------
(* Properties of ResourceCommands *)
EXTENDS ResourceCommands

\* A workspace that is erased from the desk has left nothing at the runtime that
\* the runtime does not know to be deleted (runs.rs:556, storage.rs:212), however
\* its commands and the deletion overlap and whichever answers are lost.
NoOrphans ==
    \A w \in Spaces \ desk.live :
        w \in service.gone \/ (service.proposal[w] = "none" /\ service.schedule[w] = "none")

\* A schedule the operator knows to be enabled keeps its approval, and has the
\* model's authority whenever the runtime is up and nobody is changing that
\* (managed.rs:181).
KeepsItsAuthority ==
    \A w \in told : service.schedule[w] = "enabled" =>
        /\ desk.approved
        /\ desk.alive /\ desk.gate = "free" => service.authority = desk.config

\* The approval is there although the answer of the enabling is lost
\* (resources.rs:448).
ApprovedFirst ==
    \A w \in Spaces :
        service.schedule[w] = "enabled" /\ service.consent[w] = desk.config => desk.approved

\* Closing the window does not stop a schedule that was known to be enabled when
\* it was closed, and was neither paused nor taken away since (lib.rs:288).
ClosingSpares ==
    frame.at \in {"stopping", "shut"} => \A w \in frame.counted : service.schedule[w] # "enabled"

BackgroundHeld == KeepsItsAuthority /\ ApprovedFirst /\ ClosingSpares

\* The main window is to close, enabled schedules come first
FrameClosing == frame.at \in {"closing", "counting", "stopping"}

\* The runtime serves, and what waits for an answer goes on when it has it.
ResourceFairness ==
    /\ WF_resourceVars(ServeHead) /\ WF_resourceVars(FrameSteps) /\ WF_resourceVars(GateSteps)
    /\ \A t \in Orders : WF_resourceVars(OrderSteps(t))
=============================================================================
