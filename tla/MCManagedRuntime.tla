-------------------------- MODULE MCManagedRuntime --------------------------
(***************************************************************************)
(* Instances of ManagedRuntime for TLC, with ProcessOwner beside it.  They *)
(* share no state: a behaviour exercises the one or the other.             *)
(***************************************************************************)
EXTENDS ManagedRuntimeSafety, ProcessOwner, TLC

\* A provider, the same with a new catalog or with another key, and another
\* provider.  (The native host rotates the epoch with the key; the runtime
\* does not rely on it while it runs.)
CONSTANTS A, Refreshed, Rekeyed, B

Providers ==
    [c \in Configs |-> CASE c = NoProvider -> "none" [] c = B -> "b" [] OTHER -> "a"]
Secrets == [c \in Configs |-> IF c = Rekeyed THEN "new" ELSE Providers[c]]

Symmetry == Permutations(Runs) \cup Permutations(Handlers)

VARIABLE subject

ProcessesInit == subject \in {"runtime", "host"} /\ Init /\ OwnerInit

RuntimeNext == Next /\ UNCHANGED ownerVars
HostNext    == OwnerNext /\ UNCHANGED vars

ProcessesNext ==
    /\ UNCHANGED subject
    /\ \/ subject = "runtime" /\ RuntimeNext
       \/ subject = "host" /\ HostNext

ProcessesSpec == ProcessesInit /\ [][ProcessesNext]_<<subject, vars, ownerVars>>

\* What is fair of a component that rests is never enabled.
FairProcessesSpec == ProcessesSpec /\ Fairness /\ OwnerFairness

\* Neither the runtime that acknowledged a shutdown nor the app that exits leaves
\* work behind, and no controller starts beside another
\* (Controller.close, transport.rs:72, lib.rs:221).
NothingOutlives == NothingLeftRunning /\ OneController /\ NoneOutlivesQuit

\* No run, call, start or Quit is stuck (execute, transport.rs:229, managed.rs:193).
NothingStuck == RunsProgress /\ OwnerProgress
=============================================================================
