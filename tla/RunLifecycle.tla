---------------------------- MODULE RunLifecycle ----------------------------
(***************************************************************************)
(* What the runtime promises of a run's visible state, whoever observes    *)
(* it: a run is admitted once, dispatched in isolation, and ends once.     *)
(* RuntimeStore and ManagedRuntime implement it.  The states are those of  *)
(* docs/runtime/protocol.md and of store.py.                               *)
(***************************************************************************)
CONSTANT Runs
VARIABLE state

Executing == {"running", "waiting_for_device", "cancelling"}
Active == {"queued"} \cup Executing
Ended == {"succeeded", "failed", "cancelled", "interrupted", "blocked"}

In(S) == {r \in Runs : state[r] \in S}

Init == state = [r \in Runs |-> "none"]

\* A run identifier is used once.
Admit(r) ==
    /\ state[r] = "none"
    /\ state' = [state EXCEPT ![r] = "queued"]

\* Dispatch while nothing executes.  The queued runs of B lost their
\* authority and end unstarted; at most one of the others starts.
Dispatch(B, S) ==
    /\ In(Executing) = {}
    /\ B \subseteq In({"queued"}) /\ S \subseteq In({"queued"}) \ B
    /\ \A x, y \in S : x = y
    /\ state' = [r \in Runs |-> IF r \in B THEN "blocked"
                                ELSE IF r \in S THEN "running" ELSE state[r]]

\* A running run waits for the native device, and works again.
Wait(r) ==
    /\ state[r] = "running"
    /\ state' = [state EXCEPT ![r] = "waiting_for_device"]
Resume(r) ==
    /\ state[r] = "waiting_for_device"
    /\ state' = [state EXCEPT ![r] = "running"]

\* Any active runs are told to stop; what never started has ended with that.
Stop(R) ==
    /\ R \subseteq In(Active)
    /\ state' = [r \in Runs |-> IF r \notin R THEN state[r]
                                ELSE IF state[r] = "queued" THEN "cancelled"
                                ELSE "cancelling"]

\* An executing run ends; a stopped one only as cancelled, and only one that
\* works can succeed.
End(r) ==
    /\ state[r] \in Executing
    /\ \E outcome \in CASE state[r] = "cancelling" -> {"cancelled"}
                        [] state[r] = "running" -> {"succeeded", "failed", "blocked"}
                        [] OTHER -> {"failed", "blocked"} :
          state' = [state EXCEPT ![r] = outcome]

\* A restart ends what was executing; it is not executed again.
Restart ==
    state' = [r \in Runs |-> IF r \in In(Executing) THEN "interrupted"
                             ELSE state[r]]

Next ==
    \/ \E r \in Runs : Admit(r) \/ Wait(r) \/ Resume(r) \/ End(r)
    \/ \E B, S \in SUBSET Runs : Dispatch(B, S)
    \/ \E R \in SUBSET Runs : Stop(R)
    \/ Restart

Spec == Init /\ [][Next]_state
=============================================================================
