---------------------------- MODULE SignInSafety ----------------------------
(* Properties of SignInCallback *)
EXTENDS SignInCallback

\* The code an attempt exchanges came in the one well-formed request that
\* carries that attempt's state (loopback.rs:89), whoever else had its port.
ExchangesOwnCode ==
    \A g \in Attempts : wait[g].taken # Nil => wait[g].taken = AnswerFor(g)

\* The embedded browser may go to a callback address only while the socket that
\* serves it is held (connectors.rs:668); a thread that could not be started
\* released it a moment before the attempt is finished.
AdmissionCovered ==
    \A g \in Attempts, p \in Ports :
        AllowsCallback(p, g) /\ ~StepAt(g, "unspawned") => wait[g].bound /\ wait[g].port = p

\* Probes never end a wait (loopback.rs:1): an attempt runs out of time only if
\* its turn to be read, each probe before it costing a second, came too late.
ProbesNeverEnd ==
    \A g \in Attempts :
        phases[g] = "expired" /\ wait[g].taken = Nil /\ wait[g].due # Nil
        => wait[g].due >= wait[g].deadline

SignInSound == ExchangesOwnCode /\ AdmissionCovered /\ ProbesNeverEnd

\* A sign-in that has not ended, and a socket that is held
SigningIn == \E g \in Attempts : phases[g] \in {"pending", "exchanging"}
Listening == \E g \in Attempts : wait[g].bound

\* Time passes, the launch and the exchange are bounded by timers of their own,
\* and the thread of an attempt runs.
SignInFairness ==
    /\ WF_signInVars(SecondPasses)
    /\ \A g \in Attempts : WF_signInVars(WaitSteps(g))
=============================================================================
