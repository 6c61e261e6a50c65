# Formal models of the desktop assistant's runtime, client and connectors

This directory holds TLA+ models of the program's core logic, TLC
configurations that check them on small instances, and TLAPS proofs of what
matters most for instances of any size. Each definition is translated from the
source; `PROJECT.json` maps every definition to the lines it stands for, lists
the runs, the wrong variants (*mutants*) that show which property notices which
bug, the hazards the properties are aimed at, and the theorems.

Run everything from this directory: `tlasany M.tla` parses a module,
`tlc -workers 2 -config X.cfg MCY.tla` checks a configuration, `tlapm M.tla`
checks the proofs of a module.

## 1. The system

The program is a desktop assistant. A native host (Rust, Tauri) owns the
window, a local database, the provider's configuration and keys, connector
accounts and an owned browser. It launches a *managed runtime* (Python) over a
pipe; the runtime keeps its own database of workspaces, grants, runs,
interfaces and schedules, executes one run at a time in a worker process and
relays the worker's model requests to the provider. The frontend
(TypeScript/React) shows both and sends commands.

| Part | Source | State | Operations |
|---|---|---|---|
| Runtime store | `runtime/forma_runtime/store.py`, `contracts.py` | SQLite: workspaces and committed conversation, grants, runs, tool requests, interfaces, proposals, revisions, schedules, occurrences, usage, cancellations | one transaction each: admit, dispatch, tool request / claim / result, cancel, finish, propose, publish, rename, roll back, delete, enable, pause, tick, fence a configuration, recover |
| Managed runtime, supervisor, relay | `managed.py`, `supervisor.py` | installed configuration, authorized scope, supervisor thread, worker, relay with handler threads | bootstrap, configure, shut down; check, launch, wait, reap and finish a run; admit, forward and scan a model request |
| Runtime HTTP adapter, worker stub | `server.py`, `worker.py` | none | parses a request, calls the store |
| Run reconciliation | `src-tauri/src/runtime/{runs,storage,transport,managed}.rs` | local messages with their stored requests, owned workspaces, sessions, the pipe | start, complete (admit, poll, apply), cancel, delete a workspace, provider change, Quit |
| Provider configuration, discovery, checks | `core.rs`, `lib.rs`, `provider.rs`, `hermes.rs`, `runtime/managed.rs` | provider row and generation, its key, the configuration epoch, running check and discovery, what was last sent to the runtime | configure, discover, check a model, start the runtime, send it the configuration |
| Native runtime process | `runtime/{managed,transport}.rs`, `lib.rs` | the controller of the core and the one of `ProcessOwner`, `runtime_stopping` | start, replace, dispatch calls, shut down, Quit |
| Interfaces and resources IPC | `runtime/{interfaces,resources,dto}.rs` | ownership of workspaces, consent to background work (both in the local database) | typed requests on interfaces, proposals and schedules; validates replies |
| Connector accounts | `connectors.rs`, `connectors/{lifecycle,store}.rs` | sign-in, refreshes, rows, secrets in the keychain | sign in, refresh, disconnect, restart |
| Connector grants and reads | `connectors/{grants,reads}.rs` | registered grants, fences, read leases | register, revoke, cancel a run, read, deliver |
| Sign-in callback | `connectors/{loopback,lifecycle}.rs`, `connectors.rs` | the pending attempt, a listening socket and its thread | bind, launch, read connections, finish, expire, cancel |
| Owned browser | `browser.rs`, `browser/` | session generation and phase, the native window, the profile's identity file | open, navigate, go back and forward, close, late completions; load the identity |
| App store and views | `src/app/` | workspace list, drafts, revisions | type, send, cancel, delete, save settings, close |
| Domain slices, contracts | `src/domain/`, `src/contracts/` | none (pure reducers and validators, not all imported by the app) | |
| Runtime libraries | `runtime/forma_runtime/*.py` (the small ones) | in-memory values | pure helpers nothing imports yet |

How they interact: the frontend calls native commands; the native core is one
mutex, released around every await. Native and runtime talk over one pipe with
one exchange at a time, and each has its own database, so a reply exists twice:
as a message here and as a run there. Inside the runtime the store is shared by
the HTTP/pipe thread, the supervisor thread and the relay's handlers, each step
being one `BEGIN IMMEDIATE` transaction. Connectors share one lifecycle lock,
never held over an await, and two stores (database and keychain) without a
common transaction.

What is hard here: revocations that must reach work already admitted; a
cancellation that arrives before what it cancels; a restart between two
transactions or two stores; late answers (OAuth, tool results, polls); a lost
pipe with calls queued; relay sockets that outlive a configuration; attempts
and budgets counted across midnight and restarts. `PROJECT.json` lists these
hazards with the line where each bites and the property that covers it.

## 2. The modules

| Module | Models | Correspondence |
|---|---|---|
| `RuntimeStore` | store.py (and the fences of managed.py) | one action per route or method; a transaction is one step, a Fault is an action that is not enabled. `run`, `grant`, `workspace`, ... are the tables; `ticking` the snapshot `tick` works on |
| `RuntimeStoreSafety` | its properties, and the refinement mapping to `RunLifecycle` | |
| `RunLifecycle` | what a run promises its observers: admitted once, dispatched alone, ended once | abstract specification; `state` is the column `runs.state` |
| `ReplyLifecycle` | what a reply promises the operator: it ends once, as a success only if its run succeeded, and a stop that is shown has stopped the run | abstract specification over `RunLifecycle`; `shown` is the status of the message in the host's database, `run` the state at the runtime |
| `SignInLifecycle` | what a sign-in promises: one at a time, each ends once, and none connects that was not called back | abstract specification; `phase` is that of lifecycle.rs |
| `SignInRefinement` | the mappings to `SignInLifecycle` from `Connectors` (`Account`) and from `SignInCallback` (`Callback`) | |
| `ManagedRuntime`, `ManagedRuntimeSafety` | control thread, supervisor thread, relay handlers | `control.pc`, `sup.pc`, `handler[h].pc` are the places between two statements that other threads can observe; of the store only run states, scope and counts |
| `ConnectorGrants` | grants.rs, as operators on one record | `Registrable`, `Begun`, `Revoked`, `RunCancelled`, ... are the methods of `Grants` |
| `Connectors`, `ConnectorsSafety` | connectors.rs, lifecycle.rs, store.rs, reads.rs | `lock` is the operation in its critical section and its next write; each write may fail and the process may end between two |
| `ProviderConfig`, `ProviderConfigSafety` | configure, check, discovery (core.rs), start and sync (managed.rs), and the scope managed.py keeps | `provider` and `saved` are rows of the host's database, `keys` the key store, `task` a command between two awaits, `gate` the holder of `runtime_gate`, `runtime` the process with what it keeps on disk |
| `ReadScan` | the paging loops of Gmail and Calendar reads | one step per page and message |
| `RunReconciliation`, `RunReconciliationSafety` | runs.rs, storage.rs, transport.rs and the runtime they talk to | `request` is a local message with its stored request, `task` a command between two awaits, `channel` the pipe, `server` the runtime's database |
| `ProcessOwner` | launches, dispatch loop and end of the controller process; starts that take turns; Quit | `slot.current` and `slot.used` are the controllers `ProcessOwner` and `Core` hold, `start[s].at` a start between two awaits, `child[c]` a process and its dispatch task, `quit` what `lib.rs` does about the exit |
| `ResourceCommands`, `ResourceSafety` | resources.rs, interfaces.rs, the deletion of a workspace (runs.rs), the changes of the model's authority (managed.rs) and the closing of the window (lib.rs) | `desk` is the host's database and gate, `order` a command between two awaits, `pipe` and `answers` the transport, `service` the runtime's store, `frame` the main window |
| `WorkspaceDraft`, `WorkspaceDraftSafety` | the composer of one workspace in store.ts over its row in store.rs | `composer` is the entry, `flushes` and `saving` the chain of writes, `sending` and `call` the active request, `stopping` its cancellation, `shell` navigation, deletion and closing |
| `SignInCallback`, `SignInSafety` | the listener of loopback.rs, the attempts of lifecycle.rs and the sign-in command of connectors.rs | `attempt` is the pending one, `wait[g]` the command, thread and task of an attempt, `backlog` the accept queue of each port |
| `OwnedBrowser`, `OwnedBrowserSafety` | browser.rs and browser/macos.rs | `session` is the record behind the mutex, `window` the native window, `late` every completion, timer, spawned task and window event on its way, `main` a command between its two lock takings |
| `ProfileIdentity` | browser/profile.rs | `load[l]` is the next system call of a load, `file` the identity on disk |
| `Absent` | declares `Nil` for the modules that are composed | |
| `RuntimeStoreProofs`, `RuntimeWorkProofs` | theorems about `RuntimeStore` | types, cancellation and authority; lifecycle, exclusive work, tools, conversation, schedules, proposals and model requests |
| `ReconciliationProofs` | theorems about `RunReconciliation` | |
| `ResourceProofs` | theorems about `ResourceCommands` | |
| `ProcessProofs` | theorems about `ProcessOwner` and `ManagedRuntime` | |
| `WorkspaceDraftProofs` | theorems about `WorkspaceDraft` | |
| `ConnectorProofs` | theorems about `SignInCallback`, about `Connectors` with `ConnectorGrants`, and about `SignInRefinement` | |
| `HostProofs` | theorems about `ReadScan`, `ProfileIdentity`, `ProviderConfig` and `OwnedBrowser` | |
| `MCRuntimeStore`, `MCConnectors`, `MCRunReconciliation` | instances of one module | cron tables, symmetry |
| `MCManagedRuntime`, `MCAccounts`, `MCReplies`, `MCHost`, `MCDesktop` | instances of several modules side by side | `subject` says which one acts |

`RuntimeStore` and `ManagedRuntime` both refine `RunLifecycle`, which
`ReplyLifecycle` uses for the runtime's side of a reply; `RunReconciliation` refines
`ReplyLifecycle`, and `Connectors` and `SignInCallback` both refine `SignInLifecycle`.
`RunReconciliation` and `ResourceCommands` contain the part of the store a client
can observe, each with its own, coarser server. `Connectors` EXTENDS
`ConnectorGrants`.

An instance of several modules explores them one at a time: the variable
`subject` is chosen initially, the module it names acts, and the others stay as
they start. Their states add up instead of multiplying, and a property of one
module is not weakened, because the modules share no state: what one takes of
another is in its own model of it.

A definition used by no action (`Unadmitted`, `KeepProposals`, ...) is a wrong
variant of the definition after it. `PROJECT.json` pairs each property with one
of them: with that variant in place, TLC must find the property violated.

### Abstractions

* Identifiers, models, operations and providers are model values; specs,
  texts, digests and timestamps are reduced to what guards compare.
* Time is in whole minutes (store) or ticks (connectors) and only moves
  forward. The code uses wall time, so a clock that steps back is not covered.
* `Cron.next` is the set of slots an expression matches (`Cron`), the least of
  them after a minute being the next due one.
* In `RunReconciliation` `waiting_for_device` is part of `running`, `blocked`
  part of `failed`, the display-only progress states are left out, there is one
  binding (`accept_snapshot` rejects any other identity), the generation of a
  workspace does not change while a reply is pending, and configuration calls
  are made when the pipe is empty (the pipe is first in, first out, so a later
  position adds no new order of effects). A call whose command stopped waiting
  before its turn keeps its place in the pipe and is skipped there (`SkippedCall`,
  transport.rs:175-178).
* In `ProviderConfig` a key and an epoch are named by the generation that wrote
  them (each is fresh), labels and catalogs are left out but for whether a
  catalog is there, and a key written for a configuration that then fails to be
  stored is not tracked (the code removes it as well as it can). `approved`
  stands for the grants and schedules the runtime would still act on, each with
  the generation, endpoint and key it was approved under; `torn` is a history, the
  generations whose `configure` ended between its transactions.
* In `OwnedBrowser` an address is what the admission tells apart: its scheme, the
  class of its host, user information, and whether the rest is plain. Commands,
  completions and window events run on the main thread, so a step of one is not
  interleaved with another; a command that takes the lock twice (`Reopened`,
  `StatusWritten`, `Verified`) is two steps, between which tasks act.
* In `WorkspaceDraft` every text that is typed is new and named by a number, 0
  being the empty one; there is one workspace, and navigation means leaving it
  and coming back. Generations of requests (`requestCurrent`) are left out: they
  tell apart workspaces.
* In `SignInCallback` a request is what the parser tells apart, and a tick is the
  second a probe may take to be read. `Probes` has every way to be wrong in one
  place. When the thread of the callback cannot be spawned the socket is released
  just before the attempt is finished (connectors.rs:668): that moment
  (`unspawned`) is excepted in `AdmissionCovered`.
* In `ResourceCommands` there is one binding of library and device (any other is
  rejected), and at most one interface, proposal and schedule of a workspace.
  Reads of pages and revisions change nothing and are the operation `consult`.
* In `ProcessOwner` a controller has the name of the start that launched it; the
  queue's limit of 32 calls and calls dropped by their callers are left out: a
  refused call changes nothing.
* In `ProfileIdentity` a load names the identity it draws, since what it draws is
  random; the temporary file has a fresh name and is in no one's way.
* In `Connectors` the OAuth exchange, the keychain and the browser are
  outcomes (success, failure, silence). Live Google reads are disabled in
  production builds by a gate (reads.rs:701) and need a configured client
  identifier; the model is of the code behind that gate.

## 3. What the runs check

All bounds are constants of the cfg; every bound is a guard that stops an
action (the exploration simply ends there), named in the module's CONSTANTS.

| Run | Instance | What it shows |
|---|---|---|
| `conversation` | two workspaces, each with a grant on the same connection; two runs; two configurations; one minute | `ConversationComplete`, `ExclusiveWork`, `CancelledNeverAdmitted`, `EffectsNeedAuthority`, `ImplementsLifecycle`, `TypeOK` amid revocation, expiry, deletion, provider changes and restarts |
| `schedules` | one schedule matching minutes 1 and 2, limits of one or two attempts, two runs, three versions | `SlotsAccounted` (`AttemptsAccounted` and `NextSlotOpen`) and `SchedulesNeedAuthority` while the schedule is paused, enabled again, deleted and ticked from a stale snapshot |
| `publication` | one interface, three proposals, a schedule with one occurrence, two manual revisions | `ProposalsGoverned` (`ProposalsFollowRuns` and `PublishedOnceOnExpected`), `RefreshPublished` |
| `tools` | one grant, two requests, two claims, two days of two minutes | `ToolsFollowRuns` (`WaitingHasRequest` and `ResultsPurged`), `RequestsAccounted` through lease expiry, late results, revocation, midnight and restart |
| `managed` | two runs, two providers and none, one relay handler, clean-up that may fail; or two starts of the controller, one other caller and Quit | `RelayAuthorized` (`EgressUnderAuthority`, `AuthorityMatches`, `ResponsesScanned`), `ImplementsLifecycle`; `NothingOutlives` (`NothingLeftRunning`, `OneController`, `NoneOutlivesQuit`) |
| `progress` | one run, a catalog refresh and another provider, clean-up that succeeds; or two starts, one other caller and Quit; fairness | `QuietBeforeReplacement`; `NothingStuck` (`RunsProgress`: `ExecutionEnds` and `QueueDrains`; `OwnerProgress`: `CallsAnswered`, `StartsEnd` and `QuitEnds`) |
| `accounts` | two sign-ins, two refreshes, a failure or a crash at any write; or two attempts, two ports, two connections, five ticks | `AccountsAgree` (`SecretsTracked` and `EndedNeverListed`), `LateTasksHarmless` (`OwnFailureOnly` and `NewestSecretKept`); `SignInSound` (`ExchangesOwnCode`, `AdmissionCovered`, `ProbesNeverEnd`), `SignInsImplemented` (`Account!Spec` and `Callback!Spec`) |
| `reads` | one account with two scopes, one grant, one read, one refresh, fairness | `GrantsWithinScopes`, `WithdrawnNeverDelivered`, `LeasesEnd` |
| `host` | two commands at once on two configurations, two endpoints and none, two launches; or scans of accounts of up to five entries with a limit of four entries and three pages; or two browsers on an admitted and a denied address; or three loads of the profile and a power failure | `ProviderTrusted`, `RuntimeFollowsProvider`; `CompleteUnlessTruncated`; `BrowserConsistent` (`SecuredWindow`, `AddressShown`, `RendererFollows`), `LateForgotten`; `SameProfile` |
| `replies` | one reply, two commands at once, two launches of the runtime, crashes, Quit; or one workspace, two resource commands at once and three deeds | `EventsWhole`, `StopHolds` (`StopWins` and `StoppedIsStopped`), `RecordedFirst` (`AdmissionRecordedFirst` and `KnownIsOwned`), `ImplementsReplies`; `NoOrphans`, `BackgroundHeld` (`KeepsItsAuthority`, `ApprovedFirst`, `ClosingSpares`) |
| `desktop` | one reply with one command at a time; or two edits, a message and a move; or one browser; or one sign-in; or one resource command and two deeds; fairness | `DraftsKept` (`CleanIsDurable` and `SentStaysSent`), `TypedStays`, `WaitsEnd`, `LeavingEnds` |
| `import` | two replies, one provider change; **a violation is expected** | `ImportedOnce` (section 5) |

A property that is a conjunction is one question in several parts (given in
parentheses), each defined by name beside it. In `WaitsEnd` and `LeavingEnds`,
`Underway` and `Leaving` are a disjunct of each component, and since one
component acts in a behaviour this is the conjunction of their `~>`.

Why the bounds suffice for the questions asked. Two of everything that can
conflict: runs for exclusivity, workspaces for a shared connection, providers
for authority, commands for races, launches and claims for "once before, once
after". One reader of an account is the code's own limit (one read per
connection), one executing run is what the supervisor permits, and one handler
reaches every interleaving with the control and supervisor threads because
handlers do not share state beyond the count of requests. A draft needs one
message and one navigation, deletion or closing beside two edits: one text that
is sent and one that must not be. A browser needs two generations, an earlier and
a later one (`MaxBrowsers` also stops a close that nothing follows, since each
close takes a generation). Two attempts and two ports are enough for a port to be
reused by the next attempt or not, and two connections for a probe and an answer, in either
order, before or after the end. Three deeds (`MaxDeeds`, commands, starts and provider changes
together) reach a command overtaken by another and by a deletion, and two starts
a start that finds, waits for or is overtaken by another's controller. Where a
run has only one of something, the theorems of section 4 or another run has more of it.
`schedules` has no grants: the part of `SchedulesNeedAuthority` about them is
covered by theorem `SchedulesAuthorized`, for any number.

Symmetry is used only in runs without liveness properties, over identifiers no
definition tells apart. Deadlock is checked for the store; the other models
really stop: a runtime that shut down, a client that quit, a scan that ended, a host
out of configurations and launches, a window that closed.

### Fairness

* `ManagedRuntime`: weak fairness of the control thread and of the
  supervisor's progress (operating-system threads); of each handler's answer
  (every socket has a timeout, `OwnedUpstream`); of the end of the fence of a
  run that executes (every run has a deadline). No fairness of the worker: it
  may hang, lie or never answer. `QueueDrains` further presumes that the
  configuration stays ready and clean-up succeeds.
* `Connectors`: weak fairness of the clock and of the step of a critical section;
  strong fairness of each task's steps, because the lock they
  need is repeatedly free (the mutex grants it) and every await has a deadline
  (sign-in, the HTTP client's 45 s, the lease of a read).
* `RunReconciliation`: weak fairness of the exchange (a call is answered or the
  pipe breaks within 30 s, and a call left behind is answered) and of each command's own continuation; strong
  fairness of a poll loop's deadline and of the wait for the end of a
  cancelled run, each of which has a wall-clock limit (210 s and 20 s).

* `ProcessOwner`: weak fairness of the steps of Quit and of the closing window
  (the main thread; a window that is asked to close closes or stays), of the
  starts' tasks, and of the dispatch loops and the end of processes that are
  cancelled: an exchange has a deadline, and a
  process that does not end by itself is killed after ten seconds
  (transport.rs). None of calls: nobody need call.
* `WorkspaceDraft`: weak fairness of timers, of the host's transactions and their
  answers and of what waits for them; strong fairness of the wait for the end of
  a message whose cancellation is retried, which resolves at once when the task
  ends. None of edits or of the user's decisions.
* `OwnedBrowser`: weak fairness of the deadline of an open, of closures on the
  main thread and spawned tasks, and of the end of a window the platform agreed
  to destroy. None of WebKit's completions: they may never come.
* `SignInCallback`: weak fairness of the clock, and of each attempt's command and
  thread (launch and token exchange are bounded by timers). None of connections.
* `ResourceCommands`: weak fairness of the exchange and of each command's
  continuation, as in `RunReconciliation`.

## 4. What is proved

About `RuntimeStore`, for every number of workspaces, runs, grants, ... and
every value of the limits, from the module's assumptions on constants
(`BudgetAssumption`, `BoundAssumption`, `NilAssumption`):

| Theorem | Statement |
|---|---|
| `TypeCorrect` | `Spec => []TypeOK` |
| `StoppedForGood` | `Spec => Irrevocable` |
| `CancellationFirst` | `Spec => []CancelledNeverAdmitted` |
| `EffectsAuthorized` | `Spec => []EffectsNeedAuthority` |
| `SchedulesAuthorized` | `Spec => []SchedulesNeedAuthority` |
| `StoreImplementsLifecycle` | `Spec => ImplementsLifecycle` |
| `WorkExclusive` | `Spec => []ExclusiveWork` |
| `ToolsBound` | `Spec => []ToolsFollowRuns` |
| `ConversationKept` | `Spec => []ConversationComplete` |
| `SlotsKeepAccount` | `Spec => []SlotsAccounted` |
| `ProposalsBound` | `Spec => []ProposalsGoverned` |
| `OccurrencesRefresh` | `Spec => []RefreshPublished` |
| `RequestsKeepAccount` | `Spec => []RequestsAccounted` |

* `TypeOK` is inductive as it stands: besides types it has the facts later
  proofs need (what exists belongs to something, revisions are numbered without
  gaps, only enabled schedules are in a tick's snapshot). One lemma per group of
  handlers, one step per action.
* `Irrevocable` (part of what `ImplementsLifecycle` says, so no run lists it) and
  `CancelledNeverAdmitted` follow from `TypeOK` and a lemma on
  the states `CancelRuns` leaves.
* Authority. `EffectsNeedAuthority` is not inductive: that a run holds live
  grants does not say that the *next* revocation finds it. The strengthening
  (`Authorized`) adds that a run, schedule and grant
  of one another agree on workspace, model and generation, so the set of
  runs each handler invalidates contains all that depend on what it
  takes away; the same for schedules.
* Refinement. Every action is classified by what it does to the states of all
  runs (admits one, dispatches one alone, moves one between running and waiting,
  stops a set, ends one, recovers, or nothing). Exclusive dispatch needs an
  invariant of its own (`Seated`): rows are distinct, so `start_next` starts at
  most one run, and an open tool request belongs to a run that was dispatched, so
  its answer never makes a queued run work.
* Work, tools, conversation. These rest on what a run keeps from its admission to
  its deletion (its workspace, grants, schedule and history) and on what a grant
  keeps (its connection). Exclusive work is then about `create_run` and
  `start_next` alone. A tool request lives as long as its run may still
  use it: a run waits exactly when one of its requests is open. For the
  conversation, an active operator run holds the history as it is committed now:
  between its admission and its completion nothing else commits to its workspace,
  so committing appends a whole turn.
* Schedules and proposals. Each step is first classified by what it does to a
  schedule, its occurrences and its runs (keeps it, pauses it, moves it to its next
  slot by handling this one), and to a proposal and its interface (keeps, edits,
  proposes, publishes, refreshes). The invariant says an occurrence is of the past
  and the slot waited for is later than all of them; and that a proposal follows the
  run that made it while that run may finish.
* Model requests. `RequestsAccounted` says that what was counted per day and what
  was counted per run is the same number. The sums are the cardinalities of the
  sets of counted items (`Tally`), so that one more item makes each larger by one
  (`TallyGrows`), with no induction over the days or runs. Each step keeps every
  count or counts one request on both sides (`NextCounts`), on a day that has a count
  (`TodayIsCounted`). The invariant (`Accounted`) adds that a run that was not admitted
  counted nothing, so its admission changes no sum, that only finitely many
  requests were counted, and that the clock is within the horizon.

About the other components:

| Theorem | Statement | For every | From |
|---|---|---|---|
| `NothingOrphaned` | `ResourceSpec => []NoOrphans` | number of workspaces, commands and deeds | `ResourceAssumption` |
| `BackgroundStays` | `ResourceSpec => []BackgroundHeld` | the same | `ResourceAssumption` |
| `OneOwner` | `OwnerSpec => [](OneController /\ NoneOutlivesQuit)` | number of starts and callers | `OwnerAssumption` |
| `OneIdentity` | `ProfileSpec => []SameProfile` | number of loads | `LoadsAssumption` |
| `ScansTellTheirLimits` | `ScanSpec => []CompleteUnlessTruncated` | account, limits and paging | `ScanAssumption` |
| `NothingLeftBehind` | `ProcessesSpec => []NothingOutlives` | number of runs, handlers, configurations, starts and callers | `ScopeAssumption`, `OwnerAssumption` |
| `EgressAuthorized` | `Spec => []RelayAuthorized` | number of runs, handlers and configurations | `ScopeAssumption` |
| `ReplacedInQuiet` | `CleanupMayFail = FALSE => (Spec => QuietBeforeReplacement)` | the same | `ScopeAssumption` |
| `RuntimeImplementsLifecycle` | `Spec => ImplementsLifecycle` | the same | `ScopeAssumption` |
| `TrustedProvider` | `ProviderSpec => []ProviderTrusted` | number of commands, endpoints and launches | `ProviderAssumption` |
| `FollowedProvider` | `ProviderSpec => []RuntimeFollowsProvider` | the same | `ProviderAssumption` |
| `ConsistentBrowser` | `BrowserSpec => []BrowserConsistent` | set of addresses, number of browsers | `BrowserAssumption` |
| `EarlierBrowserForgotten` | `BrowserSpec => LateForgotten` | the same | (no invariant) |
| `RepliesStop` | `Spec => []StopHolds` | number of replies, workspaces, commands and launches, page size and event limit | `ReconciliationAssumption` |
| `RepliesRecorded` | `Spec => []RecordedFirst` | the same | `ReconciliationAssumption` |
| `RepliesWhole` | `Spec => []EventsWhole` | the same | `ReconciliationAssumption` |
| `RepliesFinal` | `Spec => FinalForGood` | the same | `ReconciliationAssumption` |
| `RepliesImplement` | `Spec => ImplementsReplies` | the same | `ReconciliationAssumption` |
| `DraftsStay` | `DraftSpec => []DraftsKept` | number of edits, messages and moves | `DraftAssumption` |
| `TypingStays` | `DraftSpec => TypedStays` | the same | `DraftAssumption` |
| `SignInStaysSound` | `SignInSpec => []SignInSound` | number of attempts, ports and connections, length of a wait | `SignInAssumption` |
| `AccountsStayAgreed` | `Spec => []AccountsAgree` | number of connections, refreshes, grants, reads and runs, spans and limits | `ConnectorAssumption`, `GrantAssumption` |
| `GrantsStayWithinScopes` | `Spec => []GrantsWithinScopes` | the same | the same |
| `LateTasksStayHarmless` | `Spec => LateTasksHarmless` | the same | the same |
| `WithdrawnStaysWithdrawn` | `Spec => WithdrawnNeverDelivered` | the same | the same |
| `AccountsImplement` | `Spec => Account!Spec` | the same | the same |
| `CallbacksImplement` | `SignInSpec => Callback!Spec` | number of attempts, ports and connections, length of a wait | `SignInAssumption` |
| `SignInsImplement` | `Spec /\ SignInSpec => SignInsImplemented` | all of the above | the three |

* `NoOrphans` is about a workspace that is erased already; what makes it so is
  spread over the commands. `ResourceInvariant` adds that a workspace that has or
  may yet get something at the runtime (a call in the pipe included) is recorded
  as owned, or the runtime knows its deletion (`Recorded`); that a command which
  leaves something is never prepared without that record (`Prepared`); that a
  call in the pipe is the only one of a command that still awaits it (`Paired`,
  `AnswersAwaited`); and that a deletion answered "ok" is known to the runtime
  (`ReceiptsTrue`). What the runtime does with any call is one lemma
  (`ServingExtends`): nothing appears but what the call is for.
* `BackgroundInvariant`, for `BackgroundHeld`: a schedule the operator knows to be
  enabled is enabled and nothing under way takes it away (`ToldOK`); an answer that
  makes one known is still true when it is taken (`CertainEnabled`), since whatever
  begins to take it away meanwhile makes its command unsure; an enabling of the
  current configuration was approved, and the configuration synchronized, before its
  call (`OrdersOK`, `ConsentOK`). Three parts hold for what answers may be awaited:
  where the gate stands says what the runtime may be authorized for (`AuthorityOK`,
  `GateAnswers`), and what the window counts on is known (`WindowOK`). The count a
  start of the runtime waits for is still true when it is taken, because between
  the two nothing can be enabled: the runtime has no authority yet.
  TLC checked it first, with two commands and four deeds.
* `OwnerInvariant`: whatever process lives is the controller launched last
  (`LastLaunched`) and is the one the holder of the gate expects at its place, or
  the one recorded when the gate is free (`KnownToGate`); at most one start holds
  the gate; and once Quit awaits, launches are refused and nothing else lives
  (`QuitFenced`).
* `ProfileInvariant`: an identity that was returned pins the file to itself unless
  someone spoils it (`FilePinned`), what was durable is synced (`DurableSynced`), and
  a load that put its identity in place is the only one (`WriterAlone`).
* `ScanInvariant`: what is still queued is the end of what was listed, what was
  handled its beginning, and a page without a token is the last.

* `ReconciliationInvariant` connects two databases whose only connection is on its
  way: commands that await, calls in the pipe, answers. It says that what any of
  these relies on is never more than what the runtime keeps for good, which is a
  run that ended with its last event, a tombstone, and a workspace that is gone.
  `ServerOK` is the runtime's own part (a run implies an admission the client
  recorded first), `RowOK` a reply's row, `TaskOK` and `AnswerOK` what a command
  between two awaits may conclude from the answer it holds, `CallsOK` what a call
  asks for and that the command that awaits it is at the place where the answer is
  taken. Three lemmas carry the induction: steps of the runtime only add to what it
  keeps (`NextServer`), steps of a command keep the rows (`NextClient`), and no step
  takes from a command, a call or an answer what it relies on (`NextWork`).

* `RuntimeInvariant` says, for each place of the control thread and of the
  supervisor, what the others may be doing. `ThreadsOK`: which places go together,
  and whose worker and relay these are. `WorkOK`: a run executes only as the job of
  a supervisor that is at work on it. `AuthorityOK`: while a configuration is being
  authorized nothing is admitted; whatever was not told to stop is of the
  authorized scope; whatever the supervisor may start is of the installed one. The
  property alone is not inductive because the scope changes two steps before the
  configuration does. `HandlerOK`: while the run of a request still passes the
  store's checks, nothing was cleared since the request was accepted. The refinement
  follows from the same invariant: a run is picked when none executes.
* `ProviderInvariant`: the gate is held from the first step that counts on it to
  the last, and the provider stays what it is meanwhile (`CommandOK`); an epoch
  names one provider unless its `configure` was torn (`StoredOK`); what is installed
  is not older than what was acknowledged (`InstalledOK`), and what is approved
  is of the authorized scope (`ApprovedOK`). TLC checked it first; a third
  generation then showed that an exception for the *last* torn generation is not
  enough, since what was approved under an earlier one may still be there: `torn`
  is therefore a set, and the exception names the two providers compared.
* `BrowserInvariant`: a window is built once per generation, while there is none
  (`BuiltOnce`); what is queued for a window is dropped with it, and a page other
  than the blank one waits for the bridge to be removed (`QueuedForWindow`,
  `OpeningOK`); the address shown, or about to be written by a command between its
  lock takings, is the page's (`AddressOK`); the renderer was told or something that
  tells it is on its way (`RendererOK`). TLC checked it with three generations.
* `DraftInvariant` says what a call still on its way may tell the composer. A write
  under way is the composer's text at the version it was asked with, of a composer
  that is dirty since (`SavingOK`); any other answer is the row, unless the composer
  wrote since, and then the composer is at least as new as the row, so the older
  answer is dropped by its version (`Tells`). Sending is the hard case: the host
  empties the stored draft and adds a version, so the clean composer is *behind*
  until it takes the answer. `StartOK` says nothing edits or reads into it
  meanwhile, and `MessageOK` why: one message at a time, one flush of it, and no
  cancellation is asked before the acknowledgement. TLC checked the invariant first,
  with three edits, three messages and two moves.
* `SignInInvariant` is about who has a port and what is queued there. A bound port
  belongs to one attempt, and an attempt holds one as long as its thread or command
  may use it (`PortsOK`); the pending attempt is one whose command or thread has not
  ended it yet (`AttemptOK`); a code was taken from the attempt's own answer
  (`WaitOK`); and an answer that is due stands in the queue at a place that is read
  in time, each request before it costing at most a second (`Coming`, `DueOK`). So
  the proof follows an answer through the queue: accepting moves each one place up,
  and no second passes while an idle thread has something to accept. TLC checked it first. The
  proof also found that the cases of `ParseTarget` overlapped, which TLA+ leaves
  undetermined where TLC takes the first; they now exclude each other, as the early
  return of the code does.
* `ConnectorInvariant` is about the critical section the operations of an account
  share, in which each write may fail and between whose writes other tasks run.
  `LockOK` says, for the operation that holds it and its next write, what it found
  when it took the lock and may still count on: a refresh that writes has the lease
  and its connection was not dropped, a row is staged before its credential is
  written, and one is deleted only when its credential is gone. `AccountOK`: a connection
  being signed in was never stored, and a listed one was signed in. `SecretOK` with
  `TasksOK`: a stored credential is no later than the refresh that holds the lease,
  and that one was begun. `ScopeOK`: a grant reads a listed connection within its
  scopes, and under the lock only a refresh that keeps the scopes leaves grants.
  `AuthorityOK`: whatever withdrew a run's authority took the grant, or fences the
  run as long as the grant lasts; fences are dropped by time alone. The proof sorts
  the steps by the lock: those beside it, which may leave grants weaker but change no
  account (`FreeStep`, `GrantStep`, `WeakerStep`, `SignInStep`), those that take it
  (`LockTaken`) and those under it (`HeldStep`). TLC checked the invariant first.
* Refinement of `ReplyLifecycle`. A step moves replies here or runs there, never both
  (`PartMoves`, `NextParts`), although a command between two awaits has seen both:
  what it concludes from its answer is `ReconciliationInvariant`, which says that
  the answer is still true when it is taken. Then each move is a step of
  `ReplyLifecycle`: of the operator's side (`RepliesMove`), for which the run has ended or been
  told to stop, or of the runtime's (`RunsMove`), which starts nothing that was cancelled
  or deleted here. `FinalForGood` is the part of it about ended replies.
* Refinement of `SignInLifecycle`. The two sides need an invariant each, since the
  phase, the pending record and the task or thread of a sign-in are written at
  different steps. `PhaseOK` (callback) and `SignInOK` (account) say which phase each
  place of the task and each pending record allows: only the sign-in on record is
  under way, so none is left pending when another begins, and a commit finds the
  phase in which its code was exchanged. TLC checked both first.

The assumptions on constants say that bounds are numbers, that `Nil` and the
names of callers that are no commands are not members of the sets they stand
beside (nor a state of a run, a window or a call, nor an attempt, a request or the record of a pending sign-in), that configurations other than no
provider have another scope than it, and nothing else.

Liveness (`NothingStuck`, `LeasesEnd`, `WaitsEnd`, `LeavingEnds`), ENABLED, and what
recursive definitions compute for every input are outside the proof system and are
only model-checked, on the instances above. Every invariant and every other
action property of the passing runs is a theorem.

## 5. Where code and documents disagree

* **History imported twice** (run `import`, a violation). `start` imports the
  history whenever no session of the workspace is recorded (runs.rs:84). The
  session is recorded by the task that still finds its request current; a
  provider change or Quit that ends the message while its admission is in
  exchange leaves the runtime holding the history with no session recorded
  here. Each later message of the workspace then sends the history again and is
  refused (`history_already_initialized`, store.py:113). The comment at
  runs.rs:246 says that a second import must not happen; it holds for the crash it
  is about (`AdmissionRecordedFirst`), not for this interleaving.
* **Slots missed without record** (observed). `docs/runtime/protocol.md:209`
  says "No catch-up burst: record missed slots and advance next due". `tick`
  records the one slot the schedule waited for and takes the next due slot from the
  current minute (store.py:603-606), so the slots after it, the current minute's
  included, leave no record.
* **A configuration replaced beside a live worker** (observed).
  managed.py:151-152 says never to replace a relay's configuration while an old
  socket or worker remains live. When a worker survives SIGKILL for two seconds
  the supervisor thread ends (supervisor.py:579-592), `stop` joins the ended
  thread, and the new configuration is installed.
  `QuietBeforeReplacement` therefore holds only with clean-up that succeeds;
  `EgressUnderAuthority` holds in either case.
* After a failed clean-up the runtime still reports ready and admits runs
  that nobody dispatches until it is restarted; sending the same configuration
  again returns early (managed.py:139).
* `finish` of a run being cancelled returns before it clears the run's tool
  requests (store.py:519). That is harmless, and `ResultsPurged` and
  `WaitingHasRequest` say exactly what remains: only a cancelled run may still
  hold a result.
* **An epoch that is not rotated** (observed). managed.py:63 says that the native
  host rotates the epoch when the provider or its key changes. `configure` stores
  the provider in one transaction and rotates the epoch in the next (core.rs:139,
  146): when it ends between the two and only the key changed, the next runtime
  is given the new key under the old epoch and keeps what was approved before.
  `ApprovalsMatch` excepts the providers this happened to (`torn`). The slots of a check and of a
  discovery then also stay taken until the next `configure` that succeeds.
* When the old key cannot be removed, `configure` fails after the new provider is
  stored (core.rs:153-157) and `clear_model` is not reached: the runtime works
  under the superseded provider until the next check or message.
  `NothingSuperseded` is therefore about a `configure` that returned Ok.
* Drafts. (1) When the deletion of a workspace is requested while its message is
  being started, the answer of the start is dropped (store.ts:346); if the deletion
  then fails the sent text is back in the composer, as a clean draft of an old
  version. (2) A deletion under way while the window closes skips the flush; if it
  fails, what was typed is lost with the window (store.ts:221, 290-320, 569-580).
  (3) After a failed deletion a dirty draft has no timer until the next edit or
  flush (store.ts:294). `SentUnread` and `shell.kept` are these exceptions in
  `CleanIsDurable`, `SentStaysSent` and `Unsaved`.
* Profile. An identity that another load read before its writer synced the
  directory may be lost with the power, and another be made after it:
  `SameProfile` is about what was durable when it was returned.
* Process owner. A Quit whose draft flush fails leaves the window open with
  `runtime_stopping` set, and every later start is refused until the app is
  relaunched (lib.rs:232-248, managed.rs:143).
* Resources. Pages of lists are by offset, newest first (store.py:286-292,
  resources.rs:148-196), so an addition or removal between two pages makes a list
  repeat or miss an entry. Ownership or consent is recorded and the call sent in
  two steps, and the record stays when the call fails: `ApprovedFirst` and
  `NoOrphans` need that order and not more.
* Hazards that remain without a property: the wall clock may step back, and a slot
  recorded ahead of it is then waited for again (store.py:603); at 256 pending
  cancellations a cancel returns before the remote cancel, with only the local
  intent recorded (runs.rs:465); a queued reply shown as interrupted at Quit may
  still execute after the relaunch, because the runtime keeps queued runs
  (runs.rs:37).

## 6. What is not modelled

* Views, menus, tray, packaging scripts and the HTTP adapter: rendering, build
  time, or parsing in front of the calls that are modelled.
* Chromium (browser/chromium.rs): `require_available` refuses it always, so none of
  its states is reachable; hosts on which the browser is unavailable.
* The parsing of provider and token responses, of the pipe's frames and of the
  runtime's bundle (provider.rs, hermes.rs, oauth.rs, config.rs): their outcomes are
  the outcomes of the actions that call them.
* The text deltas of a reply, the device heartbeat and the display-only progress
  states.
* The pure helpers nothing imports (`runtime/forma_runtime`, `src/domain`,
  `src/contracts`): no state of the running system.
* The request ledger of `post()`: a call repeated with the same identifier is
  answered from the ledger; here it is the exactly-once effect of admission and
  cancellation.
* Settings and provider forms, and the order of workspaces in the sidebar.

`PROJECT.json` says for each component which part is left out.

## 7. Plan

Done: `RuntimeStore` and `ManagedRuntime` with `RunLifecycle`,
`RunReconciliation` with `ReplyLifecycle`, `Connectors` and `SignInCallback` with
`SignInLifecycle` (checked, the refinements and every safety property proved);
`ProviderConfig`, `OwnedBrowser`, `ReadScan`,
`ProfileIdentity`, `ProcessOwner`, `ResourceCommands`, `WorkspaceDraft`,
`ConnectorGrants` (checked, their safety properties proved).

Next, in this order:

1. The ledger of `post()` and the event log's cap, in `RuntimeStore`.
2. Pure algorithms (the next slot of a cron expression, threads, pins,
   manifests) against reference definitions over bounded inputs.
