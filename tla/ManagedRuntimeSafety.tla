------------------------- MODULE ManagedRuntimeSafety -------------------------
(* What the threads of the runtime process guarantee together. *)
EXTENDS ManagedRuntime

\* A socket to the provider, from before its connection to its end.
Live(h) == handler[h].pc \in {"owned", "sent"}
Told(r) == run[r] \notin {"queued", "running", "waiting_for_device"}

\* Whatever the native host configures, and however it interleaves with the
\* relay, bytes leave only to the provider, epoch and address the request's
\* run was admitted under, while that run executes and its attempt is counted
\* (authorize_configuration, reserve_model_request, OwnedUpstream).
EgressUnderAuthority ==
    \A h \in Handlers : Live(h) =>
        LET r == handler[h].run
        IN /\ r = job /\ run[r] \in Executing
           /\ Scope[handler[h].config] = Scope[owner[r]]
           /\ requests[r] >= 1

\* While runs can be admitted or started, every run that was not told to stop
\* was admitted under the authorized provider scope, across restarts too
\* (authorize_configuration, create_run, recover).
AuthorityMatches ==
    verified /\ control.pc = "idle" =>
        /\ scope = Scope[config]
        /\ \A r \in Runs : ~Told(r) => Scope[owner[r]] = scope

\* No response reaches a worker that was not searched for the key its request
\* was sent with, although the key is erased while handlers may still run
\* (guard_model_response, configureModel).
ResponsesScanned ==
    \A h \in Handlers : handler[h].pc = "passed" => handler[h].scanned

\* What leaves, what comes back and what may be started is under the authority of
\* the run it is for (authorize_configuration, OwnedUpstream).
RelayAuthorized == EgressUnderAuthority /\ AuthorityMatches /\ ResponsesScanned

\* Where no worker and no connection outlasts its cleanup, a configuration is
\* replaced only when the supervisor has ended and no socket and no worker of
\* the old one is left (configureModel: "never replace a relay's configuration
\* while an old socket/worker remains live").
Replaces == Up /\ generation' # generation
Quiet == /\ sup.pc \in {"none", "exited"} /\ ~worker /\ ~stray
         /\ \A h \in Handlers : ~Live(h)
QuietBeforeReplacement == [][Replaces => Quiet]_vars

\* An acknowledged shutdown left nothing executing (Controller.close).
NothingLeftRunning ==
    control.pc = "stopped" => \A r \in Runs : run[r] \notin Executing

-----------------------------------------------------------------------------
(* Progress *)

\* The two threads run, whatever the worker does or does not do; every socket
\* of a handler has a timer; a run has a deadline.
Fairness ==
    /\ WF_vars(Progress) /\ WF_vars(Control)
    /\ \A h \in Handlers : WF_vars(Answers(h))
    /\ \A r \in Runs : WF_vars(run[r] \in Executing /\ LoseFence(r))
FairSpec == Spec /\ Fairness

\* Whatever it waits for, a run that executes ends while the process lives:
\* its deadline or a cancellation reaches the worker, the relay and its
\* handlers drain, and finish is reached (execute).
ExecutionEnds ==
    \A r \in Runs : run[r] \in Executing ~> (run[r] \notin Executing \/ ~Up)

\* Under a configuration that stays ready no run waits for ever.
QueueDrains ==
    \A r \in Runs : <>[](verified /\ Up) => []<>(run[r] # "queued")

\* No run is stuck, neither in the queue nor in its execution (execute).
RunsProgress == ExecutionEnds /\ QueueDrains

-----------------------------------------------------------------------------

Lifecycle == INSTANCE RunLifecycle WITH state <- run

\* The threads implement the run lifecycle: dispatch is never concurrent, no
\* run is executed again after a restart, and each ends once.
ImplementsLifecycle == Lifecycle!Spec
=============================================================================
