--------------------------- MODULE ReplyLifecycle ---------------------------
(***************************************************************************)
(* What the operator is promised of a reply, whatever happens between the  *)
(* client, which shows it, and the runtime, which works on its run: the    *)
(* reply ends once, as a success only if its run succeeded, and a stop or  *)
(* a deletion that is shown has stopped the run for good.  The runtime's   *)
(* side is RunLifecycle.  RunReconciliation implements it.                 *)
(***************************************************************************)
CONSTANT Replies
VARIABLES shown, run

INSTANCE RunLifecycle WITH Runs <- Replies, state <- run

ReplyInit == shown = [r \in Replies |-> "none"] /\ Init

Shows(r, before, after) ==
    /\ shown[r] \in before
    /\ shown' = [shown EXCEPT ![r] = after]
    /\ UNCHANGED run

Ask(r) == Shows(r, {"none"}, "pending")
\* The run did what it was asked.
Complete(r) == run[r] = "succeeded" /\ Shows(r, {"pending"}, "complete")
\* The run did not, or nobody is left to wait for it.
Fail(r) == Shows(r, {"pending"}, "error")
\* Nothing works on it any more.
Cancel(r) == run[r] \notin Active /\ Shows(r, {"pending"}, "cancelled")
\* The model is another one: what it was asked for is void.
Fence ==
    /\ shown' = [r \in Replies |-> IF shown[r] = "pending" THEN "fenced" ELSE shown[r]]
    /\ UNCHANGED run
\* Replies are taken away; what still runs of theirs was told to stop.
Erase(R) ==
    /\ \A r \in R : shown[r] # "none" /\ run[r] \notin {"queued", "running"}
    /\ shown' = [r \in Replies |-> IF r \in R THEN "deleted" ELSE shown[r]]
    /\ UNCHANGED run

\* The runtime works, on nothing that nobody asked for or that was stopped.
Work ==
    /\ Next
    /\ \A r \in Replies : run[r] = "none" /\ run'[r] # "none" =>
                              shown[r] \notin {"none", "cancelled", "deleted"}
    /\ UNCHANGED shown

ReplyNext ==
    \/ \E R \in SUBSET Replies : Erase(R)
    \/ \E r \in Replies : Ask(r) \/ Complete(r) \/ Fail(r) \/ Cancel(r)
    \/ Fence \/ Work

ReplySpec == ReplyInit /\ [][ReplyNext]_<<shown, run>>
=============================================================================
