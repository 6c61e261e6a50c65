---------------------- MODULE RunReconciliationSafety ----------------------
(* What the reconciliation of replies with runs promises *)
EXTENDS RunReconciliation

Ends     == {"complete", "error", "cancelled", "fenced"}

(* A reply shown as complete is the whole of a run that succeeded, and of any     *)
(* reply the client keeps the latest events it has read, in order, without a gap   *)
(* or a repetition, whatever pages were lost, read again or read after a restart   *)
(* (apply_poll's page checks and its wait for the last page, get_route's paging).  *)
SuccessIsWhole ==
    \A r \in Requests : request[r].status = "complete" =>
        server.run[r] = "succeeded" /\ request[r].cursor = server.seq[r]
NoGaps ==
    \A r \in Requests :
        LET q == request[r] IN
        \A i \in DOMAIN q.shown : q.shown[i] = q.cursor - (Len(q.shown) - i)
EventsWhole == SuccessIsWhole /\ NoGaps

(* Once the operator's stop is recorded the reply is never shown as a success,    *)
(* although the run may have succeeded meanwhile and the client may have crashed   *)
(* between recording the stop and telling the runtime (runtime_current).           *)
StopWins ==
    \A r \in Requests : request[r].cancelRequested => request[r].status # "complete"

(* A reply shown as stopped, or deleted with its workspace, has no run left that  *)
(* the runtime may still work on: admitted before, behind or by a replay of the    *)
(* stop or the deletion (cancel's receipt and its wait for the end of the run, the *)
(* runtime's tombstones of a run it never saw and of a workspace).                 *)
StoppedIsStopped ==
    \A r \in Requests :
        /\ request[r].status = "cancelled" => server.run[r] \notin Active
        /\ request[r].status = "deleted" => server.run[r] \notin {"queued", "running"}

(* A stop holds here and at the runtime (runtime_current, cancel's receipt).       *)
StopHolds == StopWins /\ StoppedIsStopped

(* The end of a run is never recorded before the admission it proves: a crash     *)
(* between the two writes of apply_poll leaves the history marked as taken, never *)
(* a finished reply whose history would be sent again (runs.rs:246).              *)
AdmissionRecordedFirst ==
    \A r \in Requests :
        request[r].status \in Ends \ {"fenced"} /\ request[r].run # Nil => request[r].workspace \in native.sessions

(* A workspace of the client of which the runtime holds anything is owned, so     *)
(* that it cannot be deleted here alone: the intent counts even if no answer to   *)
(* it ever arrived (runtime_own_workspace).                                       *)
KnownIsOwned ==
    \A w \in native.live \cap server.admitted : w \in native.owners \cup server.gone

RecordedFirst == AdmissionRecordedFirst /\ KnownIsOwned

(* What the client shows of a reply that ended never changes, whatever task, stop, *)
(* poll or fence comes late; only deleting the workspace takes it away.            *)
FinalForGood ==
    [][\A r \in Requests : request[r].status \in Ends => request'[r].status \in {request[r].status, "deleted"}]_vars

(* "a crash after final persistence must not cause a second history import on the *)
(* next turn" (runs.rs:246): no message waits to be sent whose body imports a      *)
(* history the runtime has already taken.                                          *)
ImportedOnce ==
    \A r \in Requests : request[r].status = "pending" /\ request[r].imports /\ server.run[r] = "none" =>
        request[r].workspace \notin server.admitted \ server.gone

(* The runtime tells the client of a run that failed as of one that was refused.   *)
ToldOf(state) == IF state = "failed" THEN "blocked" ELSE state
Reply == INSTANCE ReplyLifecycle WITH Replies <- Requests,
            shown <- [r \in Requests |-> request[r].status],
            run   <- [r \in Requests |-> ToldOf(server.run[r])]

(* Client and runtime together keep what the operator is promised of a reply,     *)
(* although each has a database of its own and either may crash between any two   *)
(* of its writes (complete, apply_poll, cancel, delete, interrupt_for_quit, and    *)
(* the runtime's admission, tombstones and recovery).                              *)
ImplementsReplies == Reply!ReplySpec
-----------------------------------------------------------------------------
(* The exchange ends within its timeout, tasks go on when answered, and a reader *)
(* that keeps polling meets its deadline.                                        *)
Fairness ==
    /\ WF_vars(Answer \/ Break(FALSE))
    /\ \A t \in Tasks : /\ WF_vars(Reads(t)) /\ WF_vars(Cancels(t)) /\ WF_vars(Deletes(t))
                        /\ SF_vars(GiveUp(t)) /\ SF_vars(task[t].at = "reaping" /\ Reap(t) /\ task'[t] = IdleTask)
FairSpec == Spec /\ Fairness

(* A complete, cancel or delete that has not returned *)
Commanded == \E t \in Tasks : task[t].at # "idle"
=============================================================================
