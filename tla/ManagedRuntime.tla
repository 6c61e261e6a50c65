--------------------------- MODULE ManagedRuntime ---------------------------
(***************************************************************************)
(* The runtime process: the control thread that installs provider          *)
(* configurations (managed.py), the supervisor thread that executes one    *)
(* run at a time in a worker process, and the relay's handler threads that *)
(* carry the worker's model requests to the provider (supervisor.py).      *)
(*                                                                         *)
(* Of the store only the runs' states, the provider scope and the request  *)
(* counts are kept; RuntimeStore has the rest.  A run whose fence fails    *)
(* although nobody told it to stop (its deadline passed, its grant         *)
(* expired) is unfit.  The end of the process takes the worker with it; a  *)
(* worker that survives its kill while the process goes on is a stray.     *)
(***************************************************************************)
EXTENDS Naturals, FiniteSets, Absent

CONSTANTS
    Runs, Handlers,
    Configs,          \* provider configurations the native host may send
    NoProvider,       \* the configuration without a provider
    Scope, Key,       \* what a configuration authorizes, and its secret
    MaxRequests,      \* model requests of one run
    CleanupMayFail,   \* a worker or a connection may outlast its deadline
    MaxGenerations    \* bound on the configurations installed

ASSUME ScopeAssumption ==
    /\ NoProvider \in Configs /\ Nil \notin Configs \cup Runs
    /\ \A c \in Configs \ {NoProvider} : Scope[c] # Scope[NoProvider]
    /\ MaxRequests \in Nat /\ MaxGenerations \in Nat /\ CleanupMayFail \in BOOLEAN

VARIABLES
    run, scope, requests,     \* durable: run states, authorized scope, counts
    owner,      \* the configuration each run was admitted under (history)
    unfit,      \* runs whose fence fails
    control,    \* the control thread: what it does, and to install what
    model,      \* Controller.model
    config,     \* the installed configuration
    verified,   \* config.ready()
    generation, \* the number of configurations installed
    cleared,    \* configurations up to this one lost their gateway key
    sup,        \* the supervisor thread
    job,        \* the run it executes
    relay,      \* the relay of that run
    worker,     \* the worker of that run lives
    stray,      \* a worker that survived its kill lives
    handler     \* the relay's handler threads

durable == <<run, scope, requests, owner, unfit>>
installed == <<model, config, verified, generation, cleared>>
execution == <<job, relay, worker, stray, handler>>
vars == <<durable, control, installed, sup, execution>>

Executing == {"running", "waiting_for_device", "cancelling"}
Idle == [pc |-> "idle", run |-> Nil, generation |-> 0, config |-> Nil,
         scanned |-> FALSE]
NoThread == [pc |-> "none", stopping |-> FALSE, ok |-> FALSE]

Fenced(r) == run[r] \in {"running", "waiting_for_device"} /\ r \notin unfit
Up == control.pc \notin {"down", "stopped"}
Serving == control.pc = "idle"

-----------------------------------------------------------------------------
(* Requests of the native host, between two configurations                 *)

Admit(r) ==
    /\ run[r] = "none" /\ verified
    /\ run' = [run EXCEPT ![r] = "queued"]
    /\ owner' = [owner EXCEPT ![r] = config]
    /\ UNCHANGED <<scope, requests, unfit>>

Submit(r) ==
    /\ Serving /\ Admit(r)
    /\ UNCHANGED <<control, installed, sup, execution>>

Stopped(R) ==
    [r \in Runs |-> IF r \notin R THEN run[r]
                    ELSE IF run[r] = "queued" THEN "cancelled"
                    ELSE IF run[r] \in Executing THEN "cancelling" ELSE run[r]]

\* A cancellation, and what a revocation or deletion does to a run.
Cancel(r) ==
    /\ Serving /\ run[r] \in {"queued", "running", "waiting_for_device"}
    /\ run' = Stopped({r})
    /\ UNCHANGED <<scope, requests, owner, unfit, control, installed, sup, execution>>

\* A deadline passes, or a grant expires.
LoseFence(r) ==
    /\ run[r] \in {"queued", "running", "waiting_for_device"} /\ r \notin unfit
    /\ unfit' = unfit \cup {r}
    /\ UNCHANGED <<run, scope, requests, owner, control, installed, sup, execution>>

\* The native device answers the tool request a run waits for.
DeviceAnswers(r) ==
    /\ Serving /\ run[r] = "waiting_for_device" /\ Fenced(r)
    /\ run' = [run EXCEPT ![r] = "running"]
    /\ UNCHANGED <<scope, requests, owner, unfit, control, installed, sup, execution>>

-----------------------------------------------------------------------------
(* The control thread *)

\* The first supervised configuration of a process.  Without a provider
\* nothing is authorized and what is stored stays as it is.
Bootstrap(c) ==
    /\ ~Up /\ generation < MaxGenerations
    /\ \E ok \in BOOLEAN : verified' = (ok /\ c # NoProvider)
    /\ model' = c /\ config' = c /\ generation' = generation + 1
    /\ control' = [pc |-> IF c = NoProvider THEN "start" ELSE "fence",
                   to |-> c, force |-> FALSE]
    /\ stray' = FALSE
    /\ UNCHANGED <<durable, cleared, sup, job, relay, worker, handler>>

SameAuthority(c) ==
    model \notin {Nil, NoProvider} /\ Scope[c] = Scope[model] /\ Key[c] = Key[model]

\* A catalog refresh changes the configuration in place.
RefreshCatalog(c) ==
    /\ Serving /\ c # model /\ SameAuthority(c) /\ verified
    /\ model' = c /\ config' = c
    /\ UNCHANGED <<durable, control, verified, generation, cleared, sup, execution>>

\* configureModel, until its fence: nothing is admitted from here on.
Configure(c) ==
    /\ Serving /\ generation < MaxGenerations
    /\ ~(c = model /\ (verified \/ c = NoProvider))
    /\ ~(SameAuthority(c) /\ verified)
    /\ verified' = FALSE
    /\ control' = [pc |-> "fence", to |-> c,
                   force |-> model \notin {Nil, NoProvider} /\ ~SameAuthority(c)]
    /\ UNCHANGED <<durable, model, config, generation, cleared, sup, execution>>

NeedsFenceHere == control.force \/ control.to = NoProvider

NeedsFence == \/ control.force \/ control.to = NoProvider
              \/ scope # Scope[control.to]

\* authorize_configuration: two transactions.
ControlFences ==
    /\ control.pc = "fence"
    /\ run' = IF NeedsFence THEN Stopped(Runs) ELSE run
    /\ control' = [control EXCEPT !.pc = "scope"]
    /\ UNCHANGED <<scope, requests, owner, unfit, installed, sup, execution>>

ControlAuthorizes ==
    /\ control.pc = "scope"
    /\ scope' = Scope[control.to]
    /\ control' = [control EXCEPT !.pc = IF sup.pc = "none" THEN "start" ELSE "stop"]
    /\ UNCHANGED <<run, requests, owner, unfit, installed, sup, execution>>

\* Supervisor.stop: ask the thread to end, and join it with a timeout.
ControlStops ==
    /\ control.pc = "stop"
    /\ sup' = [sup EXCEPT !.stopping = TRUE]
    /\ control' = [control EXCEPT !.pc = "join"]
    /\ UNCHANGED <<durable, installed, execution>>

AskedToStop == sup.stopping
Joined == sup.pc = "exited"

ControlJoins ==
    /\ control.pc = "join" /\ Joined
    /\ cleared' = generation /\ model' = Nil
    /\ control' = [control EXCEPT !.pc = "install"]
    /\ UNCHANGED <<durable, config, verified, generation, sup, execution>>

\* The join timed out: the request fails, the old configuration stays,
\* unverified.
ControlGivesUp ==
    /\ control.pc = "join" /\ ~Joined
    /\ control' = [control EXCEPT !.pc = "idle"]
    /\ UNCHANGED <<durable, installed, sup, execution>>

ControlInstalls ==
    /\ control.pc = "install"
    /\ config' = control.to /\ model' = control.to
    /\ \E ok \in BOOLEAN : verified' = (ok /\ control.to # NoProvider)
    /\ generation' = generation + 1
    /\ control' = [control EXCEPT !.pc = "start"]
    /\ UNCHANGED <<durable, cleared, sup, execution>>

ControlStartsAsIs ==
    /\ control.pc = "start"
    /\ sup' = [NoThread EXCEPT !.pc = "poll"]
    /\ job' = Nil
    /\ control' = [control EXCEPT !.pc = "idle"]
    /\ UNCHANGED <<durable, installed, relay, worker, stray, handler>>

\* Supervisor.start of a new supervisor: recover, then its thread.
ControlStarts ==
    /\ control.pc = "start"
    /\ run' = [r \in Runs |-> IF run[r] \in Executing THEN "interrupted" ELSE run[r]]
    /\ sup' = [NoThread EXCEPT !.pc = "poll"]
    /\ job' = Nil
    /\ control' = [control EXCEPT !.pc = "idle"]
    /\ UNCHANGED <<scope, requests, owner, unfit, installed, relay, worker, stray,
                   handler>>

ShutdownErasing ==
    /\ Serving
    /\ verified' = FALSE /\ cleared' = generation
    /\ sup' = [sup EXCEPT !.stopping = TRUE]
    /\ control' = [control EXCEPT !.pc = "quit"]
    /\ UNCHANGED <<durable, model, config, generation, execution>>

\* shutdown: acknowledged only after the supervisor ended.
Shutdown ==
    /\ Serving
    /\ verified' = FALSE
    /\ sup' = [sup EXCEPT !.stopping = TRUE]
    /\ control' = [control EXCEPT !.pc = "quit"]
    /\ UNCHANGED <<durable, model, config, generation, cleared, execution>>

Ends(pc) ==
    /\ control' = [pc |-> pc, to |-> Nil, force |-> FALSE]
    /\ model' = Nil /\ verified' = FALSE
    /\ sup' = NoThread /\ job' = Nil /\ relay' = "none" /\ worker' = FALSE
    /\ handler' = [h \in Handlers |-> Idle]
    /\ UNCHANGED <<durable, config, generation, cleared, stray>>

Acknowledge == control.pc = "quit" /\ Joined /\ Ends("stopped")

\* The process dies, or gives up on a shutdown that takes too long.
Crash == Up /\ Ends("down")

-----------------------------------------------------------------------------
(* The supervisor thread *)

Go(pc) == sup' = [sup EXCEPT !.pc = pc]
Fail == sup' = [sup EXCEPT !.pc = "abort", !.ok = FALSE]

Polls ==
    /\ sup.pc = "poll"
    /\ \/ sup.stopping /\ Go("exited")
       \/ ~sup.stopping /\ verified /\ Go("tick")
    /\ UNCHANGED <<durable, control, installed, execution>>

\* tick admits at most a due occurrence (one suffices here).
Ticks ==
    /\ sup.pc = "tick" /\ Go("pick")
    /\ \/ UNCHANGED durable
       \/ \E r \in Runs : Admit(r)
    /\ UNCHANGED <<control, installed, execution>>

PicksFit ==
    LET fit == {r \in Runs \ unfit : run[r] = "queued"}
    IN /\ sup.pc = "pick"
       /\ \/ fit = {} /\ Go("poll") /\ UNCHANGED <<run, job>>
          \/ \E r \in fit : run' = [run EXCEPT ![r] = "running"] /\ job' = r /\ Go("setup")
       /\ UNCHANGED <<scope, requests, owner, unfit, control, installed, relay,
                      worker, stray, handler>>

\* start_next: queued runs that lost their fence are blocked until one starts.
Picks ==
    LET queued == {r \in Runs : run[r] = "queued"}
        fit == queued \ unfit
    IN /\ sup.pc = "pick"
       /\ \E B \in SUBSET (queued \cap unfit) :
             LET blocked == [r \in Runs |-> IF r \in B THEN "blocked" ELSE run[r]]
             IN \/ /\ fit = {} /\ B = queued
                   /\ run' = blocked
                   /\ Go("poll") /\ UNCHANGED job
                \/ \E r \in fit :
                      /\ run' = [blocked EXCEPT ![r] = "running"]
                      /\ job' = r /\ Go("setup")
       /\ UNCHANGED <<scope, requests, owner, unfit, control, installed, relay,
                      worker, stray, handler>>

CheckedStop == ~sup.stopping

\* check_run, before and after every step of execute.
Checked == ~sup.stopping /\ Fenced(job)

CheckFails ==
    /\ sup.pc \in {"setup", "launch", "work"} /\ ~Checked
    /\ Fail
    /\ UNCHANGED <<durable, control, installed, execution>>

OpensRelay ==
    /\ sup.pc = "setup" /\ Checked
    /\ relay' = "open" /\ Go("launch")
    /\ UNCHANGED <<durable, control, installed, job, worker, stray, handler>>

Launches ==
    /\ sup.pc = "launch" /\ Checked
    /\ worker' = TRUE /\ Go("work")
    /\ UNCHANGED <<durable, control, installed, job, relay, stray, handler>>

\* The worker asks for a native read, and the run waits for the device.
ToolWaits ==
    /\ sup.pc = "work" /\ Checked /\ worker /\ run[job] = "running"
    /\ run' = [run EXCEPT ![job] = "waiting_for_device"]
    /\ UNCHANGED <<scope, requests, owner, unfit, control, installed, sup, execution>>

\* The worker reports its result; it cannot while it waits.
WorkerReports ==
    /\ sup.pc = "work" /\ Checked /\ worker /\ run[job] = "running"
    /\ sup' = [sup EXCEPT !.pc = "abort", !.ok = TRUE]
    /\ UNCHANGED <<durable, control, installed, execution>>

\* The worker could not be launched, exited, or broke the protocol.
WorkFails ==
    /\ sup.pc \in {"setup", "launch", "work"}
    /\ \E alive \in {FALSE, worker} : worker' = alive
    /\ Fail
    /\ UNCHANGED <<durable, control, installed, job, relay, stray, handler>>

InUse(h) == handler[h].pc # "idle" /\ handler[h].run = job

\* abort_active: no new upstream, and every live socket is shut.
AbortsEgress ==
    /\ sup.pc = "abort" /\ Go("reap")
    /\ relay' = IF relay = "open" THEN "closing" ELSE relay
    /\ handler' = [h \in Handlers |->
          IF InUse(h) /\ handler[h].pc \in {"owned", "sent", "read", "passed"}
          THEN [handler[h] EXCEPT !.pc = "aborted"] ELSE handler[h]]
    /\ UNCHANGED <<durable, control, installed, job, worker, stray>>

\* Terminate, then kill; a worker that outlasts both stops the supervisor.
Reaps ==
    /\ sup.pc = "reap"
    /\ \/ Go("close") /\ UNCHANGED stray
       \/ /\ CleanupMayFail /\ worker
          /\ stray' = TRUE
          /\ sup' = [sup EXCEPT !.pc = "close", !.ok = FALSE, !.stopping = TRUE]
    /\ worker' = FALSE
    /\ UNCHANGED <<durable, control, installed, job, relay, handler>>

\* server_close: wait for the handlers, for a limited time.
ClosesRelay ==
    /\ sup.pc = "close"
    /\ \/ (\A h \in Handlers : ~InUse(h)) /\ Go("finish")
       \/ /\ CleanupMayFail /\ \E h \in Handlers : InUse(h)
          /\ sup' = [sup EXCEPT !.pc = "finish", !.ok = FALSE, !.stopping = TRUE]
    /\ relay' = "none"
    /\ UNCHANGED <<durable, control, installed, job, worker, stray, handler>>

\* finish: the run's one end.
Outcomes ==
    IF run[job] \notin Executing THEN {run[job]}
    ELSE IF run[job] = "cancelling" THEN {"cancelled"}
    ELSE IF sup.ok /\ Fenced(job) THEN {"succeeded", "failed"}
    ELSE {"failed", "blocked"}

Finishes ==
    /\ sup.pc = "finish"
    /\ \E outcome \in Outcomes : run' = [run EXCEPT ![job] = outcome]
    /\ job' = Nil
    /\ sup' = [sup EXCEPT !.pc = "poll", !.ok = FALSE]
    /\ UNCHANGED <<scope, requests, owner, unfit, control, installed, relay, worker,
                   stray, handler>>

-----------------------------------------------------------------------------
(* A relay handler: one model request of the worker *)

Becomes(h, pc) == handler' = [handler EXCEPT ![h].pc = pc]
At(h, pc) == handler[h].pc = pc
Unrelated == <<control, installed, sup, job, relay, worker, stray>>

Accepts(h) ==
    /\ At(h, "idle") /\ relay = "open" /\ worker
    /\ handler' = [handler EXCEPT ![h] = [Idle EXCEPT !.pc = "accepted",
          !.run = job, !.generation = generation, !.config = config]]
    /\ UNCHANGED <<durable, Unrelated>>

\* reserve_model_request: the attempt is counted before any byte leaves.
Reserves(h) ==
    LET r == handler[h].run
    IN /\ At(h, "accepted") /\ Fenced(r) /\ requests[r] < MaxRequests
       /\ requests' = [requests EXCEPT ![r] = @ + 1]
       /\ Becomes(h, "reserved")
       /\ UNCHANGED <<run, scope, owner, unfit, Unrelated>>

RelayEver(h) == handler[h].run # Nil

\* The relay takes the upstream into its care, unless it is closing.
RelayOpen(h) == relay = "open" /\ handler[h].run = job

Owns(h) ==
    /\ At(h, "reserved") /\ RelayOpen(h)
    /\ Becomes(h, "owned")
    /\ UNCHANGED <<durable, Unrelated>>

Sends(h) ==
    /\ At(h, "owned")
    /\ Becomes(h, "sent")
    /\ UNCHANGED <<durable, Unrelated>>

\* The response is complete, and scanned for the key it was sent with.
Reads(h) ==
    /\ At(h, "sent")
    /\ handler' = [handler EXCEPT ![h].pc = "read",
                      ![h].scanned = handler[h].generation > cleared]
    /\ UNCHANGED <<durable, Unrelated>>

Passes(h) ==
    /\ At(h, "read") /\ Fenced(handler[h].run)
    /\ Becomes(h, "passed")
    /\ UNCHANGED <<durable, Unrelated>>

\* The response reaches the worker, or the worker is told of the failure.
Answers(h) ==
    /\ handler[h].pc # "idle"
    /\ handler' = [handler EXCEPT ![h] = Idle]
    /\ UNCHANGED <<durable, Unrelated>>

\* The stray worker is gone at last.
StrayDies ==
    /\ stray /\ stray' = FALSE
    /\ UNCHANGED <<durable, control, installed, sup, job, relay, worker, handler>>

-----------------------------------------------------------------------------

Init ==
    /\ run = [r \in Runs |-> "none"] /\ scope = Scope[NoProvider]
    /\ requests = [r \in Runs |-> 0] /\ owner = [r \in Runs |-> Nil]
    /\ unfit = {}
    /\ control = [pc |-> "down", to |-> Nil, force |-> FALSE]
    /\ model = Nil /\ config = NoProvider /\ verified = FALSE
    /\ generation = 0 /\ cleared = 0
    /\ sup = NoThread /\ job = Nil /\ relay = "none" /\ worker = FALSE
    /\ stray = FALSE /\ handler = [h \in Handlers |-> Idle]

Native ==
    \/ \E r \in Runs : Submit(r) \/ Cancel(r) \/ LoseFence(r) \/ DeviceAnswers(r)
    \/ \E c \in Configs : Bootstrap(c) \/ RefreshCatalog(c) \/ Configure(c)
    \/ Shutdown \/ Crash \/ StrayDies

Control ==
    \/ ControlFences \/ ControlAuthorizes \/ ControlStops \/ ControlJoins
    \/ ControlInstalls \/ ControlStarts \/ Acknowledge

Cleanup == AbortsEgress \/ Reaps \/ ClosesRelay \/ Finishes

\* The supervisor's own steps, and those that are up to its worker.
Progress == Polls \/ Ticks \/ Picks \/ CheckFails \/ OpensRelay \/ Launches \/ Cleanup
Working == ToolWaits \/ WorkerReports \/ WorkFails
Supervision == Progress \/ Working

Relaying(h) ==
    \/ Accepts(h) \/ Reserves(h) \/ Owns(h) \/ Sends(h) \/ Reads(h) \/ Passes(h)
    \/ Answers(h)

Next == Native \/ Control \/ ControlGivesUp \/ Supervision \/ \E h \in Handlers : Relaying(h)

Spec == Init /\ [][Next]_vars
=============================================================================
