-------------------------- MODULE SignInRefinement --------------------------
(* The sign-in seen from its two sides *)
EXTENDS ConnectorsSafety, SignInSafety

Account == INSTANCE SignInLifecycle WITH SignIns <- Connections, phase <- life.phase

\* An attempt that ran out of time is shown as failed (lifecycle.rs: expire).
PhaseShown(phase) == IF phase = "expired" THEN "failed" ELSE phase
Callback == INSTANCE SignInLifecycle WITH SignIns <- Attempts,
               phase <- [g \in Attempts |-> PhaseShown(phases[g])]

\* The accounts and the callback keep one and the same life of a sign-in: what
\* is late on either side, a deadline, a cancellation, a commit that fails, a
\* probe, never revives one that ended nor connects one that was not called
\* back (lifecycle.rs: begin, expire, finish, cancel; connectors.rs: commit_new).
SignInsImplemented == Account!Spec /\ Callback!Spec
=============================================================================
