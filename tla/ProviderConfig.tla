--------------------------- MODULE ProviderConfig ---------------------------
(***************************************************************************)
(* The provider the operator configures, from the native host's database   *)
(* and the operating system's key store to the configuration the runtime   *)
(* works under (core.rs, runtime/managed.rs, lib.rs).                      *)
(*                                                                         *)
(*   provider  the provider row; a key is named by the generation that     *)
(*             wrote it, since every reference is fresh;                   *)
(*   keys      the keys in the key store;                                  *)
(*   saved     the runtime_config row: the epoch is named by the           *)
(*             generation that rotated it, the catalog by the one checked; *)
(*   core      what the process remembers;                                 *)
(*   task      a command between two of its awaits, with the provider it   *)
(*             checks or the configuration it sends;                       *)
(*   gate      the task that holds runtime_gate;                           *)
(*   runtime   the runtime: its process, what it works under, and, on      *)
(*             disk, the authorized scope and what was approved under it.  *)
(*                                                                         *)
(* A step runs under the core mutex.  configure writes in two transactions *)
(* and the key store; it may fail or the process may end between any two.  *)
(* Labels, model names and the text of catalogs are left out.              *)
(***************************************************************************)
EXTENDS Naturals, Absent

CONSTANTS
    Tasks,
    Sites, NoSite,      \* endpoints the operator may enter; the empty one
    MaxGeneration, MaxLaunches      \* bounds

ASSUME ProviderAssumption ==
    /\ NoSite \in Sites /\ MaxGeneration \in Nat /\ MaxLaunches \in Nat
    /\ Nil \notin Tasks

VARIABLES
    provider, keys, saved, core, task, gate, runtime,
    latest,     \* history: the generation configured last
    proved,     \* history: the generation a check last succeeded for
    acked,      \* history: the generation whose configure last returned Ok
    torn        \* history: the generations whose configure ended between its
                \* two transactions

providerHistory == <<latest, proved, acked, torn>>
providerVars == <<provider, keys, saved, core, task, gate, runtime, providerHistory>>

IdleTask == [at |-> "idle", kind |-> "none", generation |-> 0,
             cancelled |-> FALSE, config |-> Nil]
NoCore == [check |-> Nil, discovery |-> Nil, synced |-> Nil, controller |-> 0]

ControllerAlive == core.controller # 0 /\ core.controller = runtime.launch
GateFree(t) == gate \in {Nil, t}
GateLeft(t) == IF gate = t THEN Nil ELSE gate

-----------------------------------------------------------------------------
(* configure_provider *)

Configured(site, fresh, clear) ==
    LET g == provider.generation + 1
    IN [generation |-> g, site |-> site, verified |-> FALSE,
        key |-> IF fresh THEN g
                ELSE IF site = provider.site /\ ~clear THEN provider.key ELSE Nil]

\* provider_changed, with the tokens configure cancels after it.
Rotated(g) ==
    [saved EXCEPT !.epoch = g, !.modelGeneration = Nil, !.background = FALSE,
                  !.catalog = Nil, !.state = "needsModel"]
Cancelled(ts) ==
    [t \in Tasks |-> IF t \in ts THEN [task[t] EXCEPT !.cancelled = TRUE] ELSE task[t]]

Removed(new, upto) ==
    IF new.key # provider.key /\ upto = "done" THEN {provider.key} ELSE {}

\* Variant: configure_provider does not wait for runtime_gate.
Unserialized(t) == TRUE
Serialized(t) == GateFree(t)

\* upto says how far it came: "torn" ends between the transactions, "kept"
\* could not remove the old key, so that the runtime is not told either.
Configure(t, site, fresh, clear, upto) ==
    LET new == Configured(site, fresh, clear)
    IN /\ task[t] = IdleTask /\ Serialized(t)
       /\ new.generation <= MaxGeneration
       /\ fresh => ~clear /\ site # NoSite
       /\ upto = "kept" => provider.key \notin {Nil, new.key}
       /\ provider' = new /\ latest' = new.generation
       /\ keys' = (keys \cup (IF fresh THEN {new.key} ELSE {})) \ Removed(new, upto)
       /\ IF upto = "torn"
          THEN /\ torn' = torn \cup {new.generation}
               /\ core' = [core EXCEPT !.synced = Nil] /\ UNCHANGED <<saved, task, gate>>
          ELSE /\ UNCHANGED torn
               /\ saved' = Rotated(new.generation)
               /\ core' = [core EXCEPT !.check = Nil, !.discovery = Nil, !.synced = Nil]
               /\ LET told == Cancelled({core.check, core.discovery})
                  IN IF upto = "done"
                     THEN /\ task' = [told EXCEPT ![t] =
                                [IdleTask EXCEPT !.at = "clearing", !.kind = "configure",
                                                 !.generation = new.generation]]
                          /\ gate' = t
                     ELSE task' = told /\ UNCHANGED gate
       /\ UNCHANGED <<runtime, proved, acked>>

-----------------------------------------------------------------------------
(* What the runtime does with a configuration (managed.py) *)

ScopeOf(config) == IF config = Nil THEN Nil ELSE <<config.site, config.epoch>>

SameAuthority(a, b) ==
    a # Nil /\ b # Nil /\ <<a.site, a.key, a.epoch>> = <<b.site, b.key, b.epoch>>

\* Whatever was approved under another provider is revoked.
Fences(config) ==
    /\ ~(config = Nil /\ runtime.installed = Nil)
    /\ ~SameAuthority(runtime.installed, config)
    /\ runtime.installed # Nil \/ runtime.scope # ScopeOf(config)

Installs(config) ==
    [runtime EXCEPT !.installed = config,
        !.scope = IF config = Nil /\ runtime.installed = Nil THEN @ ELSE ScopeOf(config),
        !.approved = IF Fences(config) THEN {} ELSE @]

Clear(t) ==
    /\ task[t].at = "clearing"
    /\ runtime' = IF ControllerAlive THEN Installs(Nil) ELSE runtime
    /\ acked' = task[t].generation
    /\ task' = [task EXCEPT ![t] = IdleTask] /\ gate' = GateLeft(t)
    /\ UNCHANGED <<provider, keys, saved, core, latest, proved, torn>>

\* The control queue is full: the command fails and the runtime is not told.
ClearFails(t) ==
    /\ task[t].at = "clearing" /\ ControllerAlive
    /\ task' = [task EXCEPT ![t] = IdleTask] /\ gate' = GateLeft(t)
    /\ UNCHANGED <<provider, keys, saved, core, runtime, providerHistory>>

-----------------------------------------------------------------------------
(* check_model and list_models *)

BeginCheck(t) ==
    /\ task[t] = IdleTask /\ core.check = Nil /\ provider.site # NoSite
    /\ provider' = [provider EXCEPT !.verified = FALSE]
    /\ saved' = [saved EXCEPT !.state = "needsModel"]
    /\ core' = [core EXCEPT !.check = t]
    /\ task' = [task EXCEPT ![t] =
          [IdleTask EXCEPT !.at = "checking", !.kind = "check", !.config = provider',
                           !.generation = provider.generation]]
    /\ UNCHANGED <<keys, gate, runtime, providerHistory>>

Stale(t) == task[t].cancelled \/ provider.generation # task[t].generation

\* Variant: a check notices only that it was cancelled.
OnlyUncancelled(t) == ~task[t].cancelled
Answerable(t) == ~Stale(t)

CheckStale(t) ==
    /\ task[t].at = "checking" /\ ~Answerable(t)
    /\ task' = [task EXCEPT ![t] = IdleTask]
    /\ UNCHANGED <<provider, keys, saved, core, gate, runtime, providerHistory>>

CheckFails(t) ==
    /\ task[t].at = "checking" /\ Answerable(t)
    /\ core' = [core EXCEPT !.check = Nil]
    /\ saved' = [saved EXCEPT !.state = "error"]
    /\ task' = [task EXCEPT ![t] = IdleTask]
    /\ UNCHANGED <<provider, keys, gate, runtime, providerHistory>>

CheckSucceeds(t) ==
    /\ task[t].at = "checking" /\ Answerable(t)
    /\ core' = [core EXCEPT !.check = Nil]
    /\ provider' = [task[t].config EXCEPT !.verified = TRUE]
    /\ proved' = task[t].generation
    /\ task' = [task EXCEPT ![t].at = "syncing", ![t].config = Nil]
    /\ UNCHANGED <<keys, saved, gate, runtime, latest, acked, torn>>

BeginDiscovery(t) ==
    /\ task[t] = IdleTask /\ core.discovery = Nil /\ provider.site # NoSite
    /\ core' = [core EXCEPT !.discovery = t]
    /\ task' = [task EXCEPT ![t] =
          [IdleTask EXCEPT !.at = "discovering", !.kind = "discovery",
                           !.generation = provider.generation]]
    /\ UNCHANGED <<provider, keys, saved, gate, runtime, providerHistory>>

EndDiscovery(t) ==
    /\ task[t].at = "discovering"
    /\ core' = IF Stale(t) THEN core ELSE [core EXCEPT !.discovery = Nil]
    /\ task' = [task EXCEPT ![t] = IdleTask]
    /\ UNCHANGED <<provider, keys, saved, gate, runtime, providerHistory>>

-----------------------------------------------------------------------------
(* sync_model, before a message is sent and after a check *)

BeginMessage(t) ==
    /\ task[t] = IdleTask /\ saved.catalog # Nil
    /\ task' = [task EXCEPT ![t] = [IdleTask EXCEPT !.at = "syncing", !.kind = "message"]]
    /\ UNCHANGED <<provider, keys, saved, core, gate, runtime, providerHistory>>

\* The configuration sync_locked sends, which names the catalog it was given.
Sent == [generation |-> provider.generation, site |-> provider.site,
         key |-> provider.key, epoch |-> saved.epoch]
InSync(t) ==
    /\ ControllerAlive
    /\ task[t].kind = "message" /\ core.synced = provider.generation
Sendable(t) ==
    /\ ControllerAlive /\ provider.verified /\ provider.site # NoSite
    /\ IF task[t].kind = "check" THEN task[t].generation = provider.generation
                                 ELSE saved.catalog # Nil

Sync(t) ==
    /\ task[t].at = "syncing" /\ GateFree(t)
    /\ ~InSync(t) /\ Sendable(t)
    /\ saved' = IF task[t].kind = "check"
                THEN [saved EXCEPT !.catalog = provider.generation] ELSE saved
    /\ task' = [task EXCEPT ![t].at = "sending", ![t].config = Sent]
    /\ gate' = t
    /\ UNCHANGED <<provider, keys, core, runtime, providerHistory>>

AlreadySynced(t) ==
    /\ task[t].at = "syncing" /\ GateFree(t) /\ InSync(t)
    /\ task' = [task EXCEPT ![t] = IdleTask]
    /\ UNCHANGED <<provider, keys, saved, core, gate, runtime, providerHistory>>

Install(t) ==
    /\ task[t].at = "sending" /\ ControllerAlive
    /\ runtime' = Installs(task[t].config)
    /\ task' = [task EXCEPT ![t].at = "accepting"]
    /\ UNCHANGED <<provider, keys, saved, core, gate, providerHistory>>

\* What a failed exchange leaves: a start gives its runtime up, and a check
\* records that it failed unless the provider has changed.
SyncFailed(t) ==
    /\ task' = [task EXCEPT ![t] = IdleTask] /\ gate' = GateLeft(t)
    /\ CASE task[t].kind = "start" ->
              /\ saved' = [saved EXCEPT !.state = "error"]
              /\ core' = [core EXCEPT !.controller = 0]
         [] task[t].kind = "check" /\ provider.generation = task[t].generation ->
              saved' = [saved EXCEPT !.state = "error"] /\ UNCHANGED core
         [] OTHER -> UNCHANGED <<saved, core>>
    /\ UNCHANGED <<provider, keys, providerHistory>>

Stopped == [runtime EXCEPT !.launch = 0, !.installed = Nil]
LeftRunning(t) == IF task[t].kind = "start" THEN Stopped ELSE runtime

\* A start also gives up when it cannot ask which schedules are enabled.
NotSendable(t) ==
    /\ task[t].at = "syncing" /\ GateFree(t) /\ ~InSync(t)
    /\ ~Sendable(t) \/ task[t].kind = "start"
    /\ SyncFailed(t) /\ runtime' = LeftRunning(t)

ExchangeFails(t) ==
    /\ task[t].at \in {"sending", "accepting"}
    /\ SyncFailed(t) /\ runtime' = LeftRunning(t)

\* The runtime fences, but its supervisor does not stop in time.
Refuses(t) ==
    /\ task[t].at = "sending" /\ ControllerAlive
    /\ ~SameAuthority(runtime.installed, task[t].config)
    /\ SyncFailed(t)
    /\ LET fenced == [Installs(task[t].config) EXCEPT !.installed = Nil]
       IN runtime' = IF task[t].kind = "start" THEN [fenced EXCEPT !.launch = 0] ELSE fenced

\* accept_snapshot, after the models were read through the same pipe; the
\* runtime may hold the configuration and still not be ready to work.
Accept(t, state) ==
    LET g == task[t].config.generation
    IN /\ task[t].at = "accepting" /\ ControllerAlive /\ provider.generation = g
       /\ saved' = [saved EXCEPT !.state = state, !.modelGeneration = g]
       /\ core' = [core EXCEPT !.synced = g]
       /\ task' = [task EXCEPT ![t] = IdleTask] /\ gate' = GateLeft(t)
       /\ UNCHANGED <<provider, keys, runtime, providerHistory>>

\* A grant or a schedule is approved under the provider the operator sees;
\* the answer, or the request itself, may be lost.
Approve(reached) ==
    /\ saved.state = "ready" /\ ControllerAlive /\ runtime.installed # Nil
    /\ saved' = [saved EXCEPT !.background = TRUE]
    /\ runtime' = IF reached
                  THEN [runtime EXCEPT !.approved = @ \cup
                          {[generation |-> provider.generation, site |-> provider.site,
                            key |-> provider.key]}]
                  ELSE runtime
    /\ UNCHANGED <<provider, keys, core, task, gate, providerHistory>>

-----------------------------------------------------------------------------
(* start, at launch and on retry *)

Start(t) ==
    /\ task[t] = IdleTask /\ gate = Nil
    /\ saved' = [saved EXCEPT !.state = "starting"]
    /\ core' = [core EXCEPT !.synced = Nil, !.controller = 0]
    /\ runtime' = Stopped
    /\ task' = [task EXCEPT ![t] = [IdleTask EXCEPT !.at = "launching", !.kind = "start"]]
    /\ gate' = t
    /\ UNCHANGED <<provider, keys, providerHistory>>

\* Work approved to run in the background gets its configuration at once.
Resumes ==
    /\ saved.background /\ saved.modelGeneration = provider.generation
    /\ runtime.approved # {}

ProcessUp(t) ==
    /\ task[t].at = "launching" /\ runtime.launches < MaxLaunches
    /\ LET n == runtime.launches + 1
       IN /\ runtime' = [runtime EXCEPT !.launch = n, !.launches = n]
          /\ core' = [core EXCEPT !.controller = n]
    /\ saved' = [saved EXCEPT !.state = "needsModel"]
    /\ IF Resumes THEN task' = [task EXCEPT ![t].at = "syncing"] /\ UNCHANGED gate
                  ELSE task' = [task EXCEPT ![t] = IdleTask] /\ gate' = Nil
    /\ UNCHANGED <<provider, keys, providerHistory>>

LaunchFails(t) ==
    /\ task[t].at = "launching"
    /\ saved' = [saved EXCEPT !.state = "error"]
    /\ task' = [task EXCEPT ![t] = IdleTask] /\ gate' = Nil
    /\ UNCHANGED <<provider, keys, core, runtime, providerHistory>>

RuntimeDies ==
    /\ runtime.launch # 0 /\ runtime' = Stopped
    /\ UNCHANGED <<provider, keys, saved, core, task, gate, providerHistory>>

\* The native process ends, and the runtime with it.
Crash ==
    /\ core' = NoCore /\ task' = [t \in Tasks |-> IdleTask] /\ gate' = Nil
    /\ runtime' = Stopped
    /\ UNCHANGED <<provider, keys, saved, providerHistory>>

-----------------------------------------------------------------------------
ProviderInit ==
    /\ provider = [generation |-> 0, site |-> NoSite, key |-> Nil, verified |-> FALSE]
    /\ keys = {}
    /\ saved = [epoch |-> 0, modelGeneration |-> Nil, background |-> FALSE,
                catalog |-> Nil, state |-> "starting"]
    /\ core = NoCore /\ task = [t \in Tasks |-> IdleTask] /\ gate = Nil
    /\ runtime = [launch |-> 0, launches |-> 0, installed |-> Nil, scope |-> Nil,
                  approved |-> {}]
    /\ latest = 0 /\ proved = 0 /\ acked = 0 /\ torn = {}

Step(t) ==
    \/ \E site \in Sites, fresh, clear \in BOOLEAN, upto \in {"torn", "kept", "done"} :
          Configure(t, site, fresh, clear, upto)
    \/ Clear(t) \/ ClearFails(t)
    \/ BeginCheck(t) \/ CheckStale(t) \/ CheckFails(t) \/ CheckSucceeds(t)
    \/ BeginDiscovery(t) \/ EndDiscovery(t)
    \/ BeginMessage(t) \/ Sync(t) \/ AlreadySynced(t) \/ NotSendable(t)
    \/ Install(t) \/ Refuses(t) \/ ExchangeFails(t)
    \/ \E state \in {"ready", "error"} : Accept(t, state)
    \/ Start(t) \/ ProcessUp(t) \/ LaunchFails(t)

ProviderNext ==
    \/ \E t \in Tasks : Step(t)
    \/ \E reached \in BOOLEAN : Approve(reached)
    \/ RuntimeDies \/ Crash

ProviderSpec == ProviderInit /\ [][ProviderNext]_providerVars
=============================================================================
