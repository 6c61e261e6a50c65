-------------------------- MODULE ConnectorsSafety --------------------------
(* What the accounts of Connectors promise                                 *)
EXTENDS Connectors

\* A credential is never stored without a row that leads a later cleanup to
\* it, at whatever step an operation fails or the process ends
\* (connectors.rs: commit_new, commit_refresh_checked, disconnect_impl).
SecretsTracked == \A c \in Connections : secret[c] # Nil => row[c].state # "none"

\* A connection whose disconnection was recorded never is listed again,
\* whatever refresh was under way, whatever cleanup failed, and after a
\* restart (connectors.rs: disconnect_impl, commit_refresh_checked).
DisconnectedForGood == \A c \in dropped : row[c].state # "live"

\* A sign-in shown as cancelled or failed never produced a connection, not
\* even when its answer arrives later (connectors.rs: commit_new).
FailedNeverConnects ==
    \A c \in Connections : life.phase[c] \in {"cancelled", "failed"} => ~Live(c)

EndedNeverListed == DisconnectedForGood /\ FailedNeverConnects

\* The credential store, the listed connections and the phases that are shown
\* agree, whatever step fails (connectors.rs: commit_new, disconnect_impl).
AccountsAgree == SecretsTracked /\ EndedNeverListed

\* A sign-in fails by its own task or by its deadline: the end of an earlier
\* sign-in's task does not end the one that replaced it (lifecycle.rs: finish).
OwnFailureOnly ==
    [][\A c \in Connections :
         life.phase[c] # "failed" /\ life'.phase[c] = "failed"
            => \/ flow[c] # "done" /\ flow'[c] = "done"
               \/ life.pending.id = c /\ now >= life.pending.deadline]_vars

\* A refresh never overwrites the credential of one begun later: the
\* provider may have rotated it (connectors.rs: commit_refresh_checked).
NewestSecretKept ==
    [][\A c \in Connections :
         secret[c] # Nil /\ secret'[c] # Nil => secret[c] <= secret'[c]]_vars

\* A task that comes late leaves alone what replaced it (lifecycle.rs: finish;
\* connectors.rs: commit_refresh_checked).
LateTasksHarmless == OwnFailureOnly /\ NewestSecretKept

\* Outside of critical sections every grant reads a listed connection, within
\* the scopes the provider granted last (connectors.rs: commit_refresh_checked).
GrantsWithinScopes ==
    Available => \A g \in Registered(life.grants) :
        LET grant == life.grants.items[g]
        IN  Live(grant.connection) /\ grant.operations \subseteq row[grant.connection].scopes

\* The authority of a run under a grant ends when the run is cancelled, when
\* the grant is revoked, or when the account is disconnected or narrowed; no
\* result is delivered after that, and the fence of a cancelled run outlives
\* every grant it could use (grants.rs: check, cancel_run).
WithdrawnNeverDelivered ==
    [][\A d \in Reads : read[d].pc # "delivered" /\ read'[d].pc = "delivered"
         => <<read[d].context.grant, read[d].context.run>> \notin ended]_vars

\* Time passes, critical sections end, and a thread that waits for the lock gets
\* it.  Every await of a task has a deadline: the sign-in's, the client's 45
\* seconds, the read's expiry.
Fairness ==
    /\ WF_vars(Tick) /\ WF_vars(LockStep)
    /\ \A c \in Connections : SF_vars(FlowStep(c))
    /\ \A n \in Turns : SF_vars(RefreshStep(n))
    /\ \A d \in Reads : SF_vars(ReadProgress(d))
FairSpec == Spec /\ Fairness

\* Nothing is held for ever: not the one sign-in there may be, not the refresh
\* of a connection, not its one read (lifecycle.rs: begin; connectors.rs:
\* RefreshLease; reads.rs: ReadLease).
SignInEnds == \A c \in Connections : Current(life, c) ~> ~Current(life, c)
RefreshesEnd ==
    \A c \in Connections, n \in Turns : life.refreshes[c] = n ~> life.refreshes[c] # n
ReadsEnd ==
    \A c \in Connections, d \in Reads :
        (life.grants.active[c] # Nil /\ life.grants.active[c].id = d)
            ~> (life.grants.active[c] = Nil \/ life.grants.active[c].id # d)
LeasesEnd == SignInEnds /\ RefreshesEnd /\ ReadsEnd
=============================================================================
