---------------------------- MODULE RuntimeStore ----------------------------
(***************************************************************************)
(* The transactional product state of the app-owned agent runtime          *)
(* (runtime/forma_runtime/store.py): workspaces with their committed       *)
(* conversation, capability grants, runs, native tool requests, shared     *)
(* interfaces with their proposals and revisions, and schedules.           *)
(*                                                                         *)
(* Every action below is one SQLite transaction of the store.  A call that *)
(* raises a Fault rolls back, so it is the action that is not enabled.     *)
(* Times are whole minutes of the wall clock; timestamps, identifiers and  *)
(* specs are abstracted to what the guards compare.                        *)
(*                                                                         *)
(* A definition that no action uses (Unadmitted, KeepProposals, AsRead...) *)
(* is a wrong variant of the definition after it: PROJECT.json's mutants   *)
(* put it in that one's place to show which property would notice.         *)
(***************************************************************************)
EXTENDS Naturals, Sequences, FiniteSets

CONSTANTS
    Workspaces, Connections, Models, Operations,
    Grants, Runs, Proposals, Interfaces, Schedules, Tools,  \* identifiers
    Nil,             \* an absent field
    Import,          \* the history a first admission may import
    Cron,            \* the minutes each schedule's cron expression matches
    QueueLimit,      \* active runs admitted at once (8 in the code)
    RunMinutes,      \* a run's duration budget, in minutes
    ClaimMinutes,    \* a tool claim's lease, in minutes
    MaxToolCalls, MaxIterations, DailyLimit,       \* budgets
    MinutesPerDay,
    Catalogs,        \* the model catalogs a configuration may approve
    Expiries, RunLimits,   \* end times and run limits an operator may choose
    Horizon, MaxRevision, MaxGeneration, MaxVersion, MaxClaims  \* bounds

ASSUME BudgetAssumption ==
    /\ QueueLimit \in Nat \ {0} /\ RunMinutes \in Nat \ {0}
    /\ ClaimMinutes \in Nat \ {0} /\ MaxToolCalls \in Nat
    /\ MaxIterations \in Nat /\ DailyLimit \in Nat
    /\ MinutesPerDay \in Nat \ {0}

ASSUME BoundAssumption ==
    /\ Horizon \in Nat /\ MaxRevision \in Nat /\ MaxGeneration \in Nat
    /\ MaxVersion \in Nat /\ MaxClaims \in Nat
    /\ Cron \in [Schedules -> SUBSET Nat]
    /\ Expiries \subseteq Nat /\ RunLimits \subseteq Nat
    /\ Catalogs \subseteq SUBSET Models

ASSUME NilAssumption ==
    /\ Nil \notin Workspaces \cup Connections \cup Models \cup Runs
    /\ Nil \notin Proposals \cup Interfaces \cup Schedules \cup Nat
    /\ Import \notin Runs

VARIABLES
    now,          \* wall clock, in minutes
    ready,        \* config.ready(): a verified worker configuration
    models,       \* the available models of the approved catalog
    workspace, grant, run, proposal, interface, schedule, tool,  \* objects
    revision,     \* revision[i][n]: what interface i shows at revision n
    occurrence,   \* occurrence[s][m]: what happened to minute m of schedule s
    cancellation, \* run identifiers cancelled before their admission
    usage,        \* model requests attempted on each day
    rows,         \* runs inserted so far: the order of SQLite's rowid
    ticking       \* schedules the scheduler transaction in progress has left

control == <<now, ready, models>>
library == <<interface, revision>>
ledger == <<cancellation, usage, rows>>
vars == <<control, workspace, grant, run, proposal, library, schedule, tool,
          occurrence, ledger, ticking>>

-----------------------------------------------------------------------------
(* Objects *)

Terminal == {"succeeded", "failed", "cancelled", "interrupted", "blocked"}
Executing == {"running", "waiting_for_device", "cancelling"}
Unfenced == {"queued", "running", "waiting_for_device"}
RunStates == {"none", "queued"} \cup Executing \cup Terminal

GrantRef == [id : Grants, generation : Nat]

NoRun == [state |-> "none", workspace |-> Nil, schedule |-> Nil,
          version |-> 0, target |-> 0, model |-> Nil, grants |-> {},
          interfaces |-> {}, deadline |-> 0, history |-> <<>>, row |-> 0,
          toolCalls |-> 0, requests |-> 0]
NoProposal == [state |-> "none", workspace |-> Nil, run |-> Nil,
               interface |-> Nil, expected |-> 0]
NoGrant == [state |-> "none", workspace |-> Nil, connection |-> Nil,
            operations |-> {}, model |-> Nil, expires |-> 0, generation |-> 0]
NoSchedule == [state |-> "none", workspace |-> Nil, interface |-> Nil,
               model |-> Nil, grants |-> {}, version |-> 0, runsStarted |-> 0,
               maxRuns |-> 0, end |-> 0, next |-> Nil]
NoTool == [state |-> "none", run |-> Nil, grant |-> Nil, expires |-> 0,
           claim |-> Nil, claimUntil |-> 0, issued |-> 0, result |-> Nil]

Active(r) == run[r].state \in {"queued"} \cup Executing
ActiveRuns == {r \in Runs : Active(r)}
LiveWorkspace(w) == workspace[w].state = "live"
LiveInterface(i) == interface[i].state = "live"
LiveSchedules == {s \in Schedules : schedule[s].state \notin {"none", "deleted"}}
ConnectionsOf(refs) == {grant[x.id].connection : x \in refs}
Today == now \div MinutesPerDay
Days == 0..(Horizon \div MinutesPerDay)
CurrentRefs == {[id |-> g, generation |-> grant[g].generation] : g \in Grants}

-----------------------------------------------------------------------------
(* Guards shared by the operations *)

\* check_grants: every reference is to a current grant for this work.
CheckGrants(w, m, refs) ==
    \A x \in refs :
        /\ grant[x.id].state = "live"
        /\ grant[x.id].workspace = w
        /\ grant[x.id].model = m
        /\ grant[x.id].generation = x.generation
        /\ grant[x.id].expires > now

\* fence: the run may still have an effect.
ScheduleCurrent(r) ==
    run[r].schedule # Nil =>
        LET s == schedule[run[r].schedule]
        IN /\ s.state \in {"enabled", "ended"}
           /\ s.version = run[r].version
           /\ s.end > now

Fence(r) ==
    /\ run[r].state \in Unfenced
    /\ LiveWorkspace(run[r].workspace)
    /\ run[r].model \in models
    /\ run[r].deadline > now
    /\ CheckGrants(run[r].workspace, run[r].model, run[r].grants)
    /\ \A i \in run[r].interfaces : LiveInterface(i)
    /\ ScheduleCurrent(r)

\* The guards of create_run, for an operator's message or an occurrence, on
\* a run identifier that is neither admitted nor cancelled.
Unadmitted == {r \in Runs : run[r].state = "none"}
Fresh == {r \in Runs \ cancellation : run[r].state = "none"}

AdmissibleInAnyWorkspace(w, m, refs, targets) ==
    /\ ready /\ m \in models
    /\ workspace[w].state # "deleted" /\ CheckGrants(w, m, refs)
    /\ \A i \in targets : LiveInterface(i)
    /\ Cardinality(ActiveRuns) < QueueLimit

AdmissibleOnAnyConnection(w, m, refs, targets) ==
    /\ AdmissibleInAnyWorkspace(w, m, refs, targets)
    /\ \A x \in ActiveRuns : run[x].workspace # w

Admissible(w, m, refs, targets) ==
    /\ ready
    /\ m \in models
    /\ workspace[w].state # "deleted"
    /\ CheckGrants(w, m, refs)
    /\ \A i \in targets : LiveInterface(i)
    /\ Cardinality(ActiveRuns) < QueueLimit
    /\ \A x \in ActiveRuns :
        /\ run[x].workspace # w
        /\ ConnectionsOf(refs) \cap ConnectionsOf(run[x].grants) = {}

\* Cron.next: the first matching minute after now and before the end.
NextSlot(s, end) ==
    LET due == {m \in Cron[s] : m > now /\ m < end}
        first == {m \in due : \A x \in due : m <= x}
    IN IF first = {} THEN Nil ELSE CHOOSE m \in first : TRUE

-----------------------------------------------------------------------------
(* Cascades *)

\* workspace: the record exists, created on first use.
Touched(w) == [workspace EXCEPT ![w].state = "live"]

CancelStartedRuns(R) ==
    [r \in Runs |-> IF r \in R /\ run[r].state \in Executing
                    THEN [run[r] EXCEPT !.state = "cancelling"] ELSE run[r]]

CancelEvenEnded(R) ==
    [r \in Runs |-> IF r \in R /\ run[r].state # "none"
                    THEN [run[r] EXCEPT !.state = "cancelling"] ELSE run[r]]

CancelRuns(R) ==
    [r \in Runs |->
        IF r \in R /\ Active(r)
        THEN [run[r] EXCEPT !.state = IF @ = "queued" THEN "cancelled"
                                      ELSE "cancelling"]
        ELSE run[r]]

KeepProposals(R) == proposal

InvalidateProposals(R) ==
    [p \in Proposals |->
        IF proposal[p].state = "pending" /\ proposal[p].run \in R
        THEN [proposal[p] EXCEPT !.state = "invalidated"]
        ELSE proposal[p]]

\* invalidate: fence the runs and everything they proposed.
Invalidate(R) ==
    /\ run' = CancelRuns(R)
    /\ proposal' = InvalidateProposals(R)

RunsOf(S) == {r \in Runs : run[r].schedule \in S}

BumpSchedules(S) ==
    [s \in Schedules |-> IF s \in S THEN [schedule[s] EXCEPT !.version = @ + 1]
                         ELSE schedule[s]]

PauseSchedules(S) ==
    [s \in Schedules |->
        IF s \in S THEN [schedule[s] EXCEPT !.state = "paused",
                                            !.version = @ + 1, !.next = Nil]
        ELSE schedule[s]]

LeaveTools(T) == tool

\* Drop leases and account data from the tools in T; end the unfinished ones.
ClearTools(T) ==
    [t \in Tools |->
        IF t \in T /\ tool[t].state # "none"
        THEN [tool[t] EXCEPT !.claim = Nil, !.result = Nil,
                             !.state = IF @ = "completed" THEN @
                                       ELSE "invalidated"]
        ELSE tool[t]]

RevokeOpenTools(T) ==
    [t \in Tools |->
        IF t \in T /\ tool[t].state \in {"pending", "claimed"}
        THEN [tool[t] EXCEPT !.claim = Nil, !.state = "invalidated"]
        ELSE tool[t]]

\* The same for tools whose authority is gone, finished or not.
RevokeTools(T) ==
    [t \in Tools |->
        IF t \in T /\ tool[t].state # "none"
        THEN [tool[t] EXCEPT !.claim = Nil, !.result = Nil,
                             !.state = "invalidated"]
        ELSE tool[t]]

\* write_interface: a new revision; the old ones stay.
WriteInterface(i, spec, by) ==
    LET n == interface[i].rev + 1
    IN /\ interface' = [interface EXCEPT ![i] = [state |-> "live", rev |-> n]]
       /\ revision' = [revision EXCEPT ![i] =
             [k \in DOMAIN @ \cup {n} |->
                 IF k = n THEN [spec |-> spec, by |-> by] ELSE @[k]]]

-----------------------------------------------------------------------------
(* Workspaces and grants *)

DeleteWorkspace(w) ==
    LET owned == {r \in Runs : run[r].workspace = w}
        paused == {s \in LiveSchedules : schedule[s].workspace = w}
    IN /\ \A s \in paused : schedule[s].version < MaxVersion
       /\ workspace' = [workspace EXCEPT ![w] =
             [@ EXCEPT !.state = "deleted", !.history = <<>>]]
       /\ Invalidate(owned \cup RunsOf(paused))
       /\ schedule' = PauseSchedules(paused)
       /\ UNCHANGED <<control, grant, library, tool, occurrence, ledger, ticking>>

CreateGrant(g, w, c, m, ops, expires) ==
    /\ grant[g].state = "none"
    /\ ops # {}
    /\ expires > now
    /\ m \in models
    /\ workspace[w].state # "deleted"
    /\ workspace' = Touched(w)
    /\ grant' = [grant EXCEPT ![g] =
          [state |-> "live", workspace |-> w, connection |-> c,
           operations |-> ops, model |-> m, expires |-> expires,
           generation |-> 1]]
    /\ UNCHANGED <<control, run, proposal, library, schedule, tool, occurrence,
                   ledger, ticking>>

\* The request's generation is the grant's; revoking again is not refused.
RevokeGrant(g) ==
    LET holders == {r \in Runs : \E x \in run[r].grants : x.id = g}
        paused == {s \in LiveSchedules : \E x \in schedule[s].grants : x.id = g}
    IN /\ grant[g].state # "none"
       /\ grant[g].generation < MaxGeneration
       /\ grant' = [grant EXCEPT ![g].state = "revoked", ![g].generation = @ + 1]
       /\ Invalidate(holders \cup RunsOf(paused))
       /\ schedule' = PauseSchedules(paused)
       /\ tool' = RevokeTools({t \in Tools : tool[t].grant = g})
       /\ UNCHANGED <<control, workspace, library, occurrence, ledger, ticking>>

-----------------------------------------------------------------------------
(* Runs: admission, cancellation, dispatch, completion *)

\* create_run's new record, of an operator (s = Nil) or of a schedule.
Queue(r, w, m, refs, targets, history, s, version, target) ==
    /\ run' = [run EXCEPT ![r] = [NoRun EXCEPT
          !.state = "queued", !.workspace = w, !.schedule = s,
          !.version = version, !.target = target, !.model = m, !.grants = refs,
          !.interfaces = targets, !.deadline = now + RunMinutes,
          !.history = history, !.row = rows + 1]]
    /\ rows' = rows + 1

\* create_run for an operator's message.  The run takes a copy of the
\* committed history; a first admission may import one.
CreateRun(r, w, m, refs, targets, import) ==
    LET first == ~workspace[w].admitted
        history == IF ~first THEN workspace[w].history
                   ELSE IF import THEN <<Import>> ELSE <<>>
    IN /\ r \in Fresh /\ Admissible(w, m, refs, targets)
       /\ import => first
       /\ workspace' = [workspace EXCEPT ![w] =
             [state |-> "live", admitted |-> TRUE, history |-> history]]
       /\ Queue(r, w, m, refs, targets, history, Nil, 0, 0)
       /\ UNCHANGED <<control, grant, proposal, library, schedule, tool,
                      occurrence, cancellation, usage, ticking>>

\* Cancelling an unknown run leaves a receipt that fences its admission.
CancelRun(r) ==
    /\ \/ /\ run[r].state = "none"
          /\ cancellation' = cancellation \cup {r}
          /\ UNCHANGED <<run, proposal>>
       \/ /\ Active(r)
          /\ Invalidate({r})
          /\ UNCHANGED cancellation
    /\ UNCHANGED <<control, workspace, grant, library, schedule, tool,
                   occurrence, usage, rows, ticking>>

Queued == {r \in Runs : run[r].state = "queued"}
NoMatter == TRUE
Idle == \A r \in Runs : run[r].state \notin Executing

Oldest(R) == {r \in R : \A x \in R : run[r].row <= run[x].row}

\* start_next: the oldest queued run that passes its fence; the ones queued
\* before it that do not are blocked.
StartNext ==
    LET fit == {r \in Queued : Fence(r)}
        blocked == {r \in Queued \ fit :
                       \A x \in Oldest(fit) : run[r].row < run[x].row}
    IN /\ Idle /\ Queued # {}
       /\ run' = [r \in Runs |->
             IF r \in blocked THEN [run[r] EXCEPT !.state = "blocked"]
             ELSE IF r \in Oldest(fit)
                  THEN [run[r] EXCEPT !.state = "running"]
             ELSE run[r]]
       /\ UNCHANGED <<control, workspace, grant, proposal, library, schedule,
                      tool, occurrence, ledger, ticking>>

FaultCodes(r) == {"deadline_exceeded", "grant_denied"}

\* finish's failure: a passed deadline or a lost grant blocks the run, any
\* other lost fence fails it; with the fence intact it is the worker that
\* failed, or the supervisor's own monotonic deadline that ran out first.
FaultStates(r) ==
    IF Fence(r) THEN {"failed", "blocked"}
    ELSE IF /\ LiveWorkspace(run[r].workspace)
            /\ run[r].model \in models
            /\ \/ run[r].deadline <= now
               \/ ~CheckGrants(run[r].workspace, run[r].model, run[r].grants)
    THEN {"blocked"} ELSE {"failed"}

ToolsOf(r) == {t \in Tools : tool[t].run = r}
PendingOf(r) == {p \in Proposals : proposal[p].run = r
                                   /\ proposal[p].state = "pending"}

\* finish of a cancelled run returns before the tools are cleaned up.
FinishCancelled(r) ==
    /\ run[r].state = "cancelling"
    /\ run' = [run EXCEPT ![r].state = "cancelled"]
    /\ proposal' = InvalidateProposals({r})
    /\ UNCHANGED <<control, workspace, grant, library, schedule, tool,
                   occurrence, ledger, ticking>>

RefreshesAny(r) == Cardinality(PendingOf(r)) = 1

\* The publication a scheduled run ends with: its one proposal, against the
\* revision captured at admission.
Refreshes(r) ==
    /\ Cardinality(PendingOf(r)) = 1
    /\ \A p \in PendingOf(r) :
          /\ proposal[p].expected = run[r].target
          /\ interface[proposal[p].interface].rev = run[r].target

Succeeds(r) == Fence(r) /\ (run[r].schedule # Nil => Refreshes(r))

FinishFailed(r) ==
    /\ run[r].state \in {"running", "waiting_for_device"}
    /\ \E outcome \in FaultStates(r) :
          run' = [run EXCEPT ![r].state = outcome]
    /\ proposal' = InvalidateProposals({r})
    /\ tool' = ClearTools(ToolsOf(r))
    /\ UNCHANGED <<control, workspace, grant, library, schedule, occurrence,
                   ledger, ticking>>

\* An operator's run commits the prior history it was given and its own turn.
FinishSucceeded(r) ==
    /\ run[r].state = "running"
    /\ Succeeds(r)
    /\ run' = [run EXCEPT ![r].state = "succeeded"]
    /\ tool' = ClearTools(ToolsOf(r))
    /\ \/ /\ run[r].schedule = Nil
          /\ workspace' = [workspace EXCEPT ![run[r].workspace].history =
                              Append(run[r].history, r)]
          /\ UNCHANGED <<proposal, library>>
       \/ /\ run[r].schedule # Nil
          /\ \E p \in PendingOf(r) :
                /\ WriteInterface(proposal[p].interface, p, "publish")
                /\ proposal' = [proposal EXCEPT ![p].state = "published"]
          /\ UNCHANGED workspace
    /\ UNCHANGED <<control, grant, schedule, occurrence, ledger, ticking>>

\* recover, on every start of a supervisor, under the configuration b and
\* catalog ms it starts with.
Recover(ms, b) ==
    LET lost == {r \in Runs : run[r].state \in Executing}
    IN /\ models' = ms /\ ready' = b
       /\ run' = [r \in Runs |-> IF r \in lost
                    THEN [run[r] EXCEPT !.state = "interrupted"] ELSE run[r]]
       /\ proposal' = InvalidateProposals(lost)
       /\ tool' = ClearTools(Tools)
       /\ UNCHANGED <<now, workspace, grant, library, schedule, occurrence,
                      ledger, ticking>>

ReserveForTheDay(r) ==
    /\ run[r].state \in {"running", "waiting_for_device"} /\ Fence(r)
    /\ usage[Today] < DailyLimit
    /\ usage' = [usage EXCEPT ![Today] = @ + 1]
    /\ UNCHANGED <<control, workspace, grant, run, proposal, library, schedule,
                   tool, occurrence, cancellation, rows, ticking>>

\* reserve_model_request: one attempt of the worker's relay, counted before
\* any byte leaves.
ReserveModelRequest(r) ==
    /\ run[r].state \in {"running", "waiting_for_device"} /\ Fence(r)
    /\ run[r].requests < MaxIterations
    /\ usage[Today] < DailyLimit
    /\ usage' = [usage EXCEPT ![Today] = @ + 1]
    /\ run' = [run EXCEPT ![r].requests = @ + 1]
    /\ UNCHANGED <<control, workspace, grant, proposal, library, schedule, tool,
                   occurrence, cancellation, rows, ticking>>

-----------------------------------------------------------------------------
(* Tools: what the supervisor does on the worker's behalf, and the native  *)
(* device's leases on the reads only it can perform                        *)

\* The worker calls one tool at a time and waits for its answer.
Calling(r) ==
    /\ run[r].state = "running" /\ Fence(r)
    /\ run[r].toolCalls < MaxToolCalls

Counted(r) == [run EXCEPT ![r].toolCalls = @ + 1]

\* The tools that only read: the count is all they change.
ReadTool(r) ==
    /\ Calling(r)
    /\ run' = Counted(r)
    /\ UNCHANGED <<control, workspace, grant, proposal, library, schedule, tool,
                   occurrence, ledger, ticking>>

\* A native read: exactly one of the run's grants must allow it.
RequestTool(r, t, op) ==
    LET choices == {x \in run[r].grants : op \in grant[x.id].operations}
    IN /\ Calling(r)
       /\ tool[t].state = "none"
       /\ \E x \in choices :
             /\ choices = {x}
             /\ tool' = [tool EXCEPT ![t] = [NoTool EXCEPT
                   !.state = "pending", !.run = r, !.grant = x.id,
                   !.expires = IF run[r].deadline < grant[x.id].expires
                               THEN run[r].deadline ELSE grant[x.id].expires]]
       /\ run' = [Counted(r) EXCEPT ![r].state = "waiting_for_device"]
       /\ UNCHANGED <<control, workspace, grant, proposal, library, schedule,
                      occurrence, ledger, ticking>>

\* tool-claim: a lease on a pending request, or on one whose lease ran out.
ClaimTool(t) ==
    /\ tool[t].state # "none" /\ Fence(tool[t].run)
    /\ tool[t].expires > now
    /\ \/ tool[t].state = "pending"
       \/ tool[t].state = "claimed" /\ tool[t].claimUntil <= now
    /\ tool[t].issued < MaxClaims
    /\ tool' = [tool EXCEPT ![t].state = "claimed",
          ![t].issued = @ + 1, ![t].claim = tool[t].issued + 1,
          ![t].claimUntil = IF tool[t].expires < now + ClaimMinutes
                            THEN tool[t].expires ELSE now + ClaimMinutes]
    /\ UNCHANGED <<control, workspace, grant, run, proposal, library, schedule,
                   occurrence, ledger, ticking>>

\* tool-result, under any claim token the store ever issued for the request.
\* A repeated result of the same claim is accepted and changes nothing.
ToolResult(t, token, outcome) ==
    /\ tool[t].state = "claimed" /\ Fence(tool[t].run)
    /\ tool[t].expires > now
    /\ token \in 1..tool[t].issued /\ token = tool[t].claim
    /\ tool[t].claimUntil > now
    /\ tool' = [tool EXCEPT ![t] =
                   [@ EXCEPT !.state = "completed", !.result = outcome]]
    /\ run' = [run EXCEPT ![tool[t].run].state = "running"]
    /\ UNCHANGED <<control, workspace, grant, proposal, library, schedule,
                   occurrence, ledger, ticking>>

-----------------------------------------------------------------------------
(* Interfaces: proposals, publication, revisions *)

\* propose, by the operator (r = Nil) or by a run.  A new interface is
\* proposed with i = Nil and revision 0.
Proposes(p, w, r, i) ==
    /\ proposal[p].state = "none"
    /\ workspace[w].state # "deleted"
    /\ i # Nil => LiveInterface(i)
    /\ proposal' = [proposal EXCEPT ![p] =
          [state |-> "pending", workspace |-> w, run |-> r, interface |-> i,
           expected |-> IF i = Nil THEN 0 ELSE interface[i].rev]]
    /\ workspace' = Touched(w)

ProposeByOperator(p, w, i) ==
    /\ Proposes(p, w, Nil, i)
    /\ UNCHANGED <<control, grant, run, library, schedule, tool, occurrence,
                   ledger, ticking>>

\* A scheduled run may only propose its target at the captured revision.
ProposeByRun(p, r, i) ==
    /\ Calling(r)
    /\ Proposes(p, run[r].workspace, r, i)
    /\ run[r].schedule # Nil =>
          /\ i = schedule[run[r].schedule].interface
          /\ interface[i].rev = run[r].target
    /\ run' = Counted(r)
    /\ UNCHANGED <<control, grant, library, schedule, tool, occurrence, ledger,
                   ticking>>

AsRead(p, i) == TRUE
AsExpected(p, i) == interface[i].rev = proposal[p].expected

\* publish, by the operator, of a proposal against the current revision.
\* The interface of a new-interface proposal is an identifier not yet used.
Publish(p, i) ==
    LET source == proposal[p].run
    IN /\ proposal[p].state = "pending"
       /\ LiveWorkspace(proposal[p].workspace)
       /\ source # Nil =>
             /\ run[source].state = "succeeded"
             /\ run[source].schedule = Nil
             /\ CheckGrants(run[source].workspace, run[source].model,
                            run[source].grants)
       /\ IF proposal[p].interface = Nil
          THEN interface[i].state = "none"
          ELSE i = proposal[p].interface /\ LiveInterface(i)
       /\ AsExpected(p, i)
       /\ WriteInterface(i, p, "publish")
       /\ proposal' = [proposal EXCEPT ![p].state = "published",
                                       ![p].interface = i]
       /\ UNCHANGED <<control, workspace, grant, run, schedule, tool,
                      occurrence, ledger, ticking>>

RenameInterface(i) ==
    /\ LiveInterface(i) /\ interface[i].rev < MaxRevision
    /\ WriteInterface(i, revision[i][interface[i].rev].spec, "rename")
    /\ UNCHANGED <<control, workspace, grant, run, proposal, schedule, tool,
                   occurrence, ledger, ticking>>

\* A rollback is a new revision that shows an old one again.
RollbackInterface(i, target) ==
    /\ LiveInterface(i) /\ interface[i].rev < MaxRevision
    /\ target \in DOMAIN revision[i]
    /\ WriteInterface(i, revision[i][target].spec, "rollback")
    /\ UNCHANGED <<control, workspace, grant, run, proposal, schedule, tool,
                   occurrence, ledger, ticking>>

DeleteInterface(i) ==
    LET users == {r \in Runs : i \in run[r].interfaces}
        paused == {s \in LiveSchedules : schedule[s].interface = i}
        fenced == users \cup RunsOf(paused)
    IN /\ LiveInterface(i)
       /\ interface' = [interface EXCEPT ![i].state = "deleted"]
       /\ run' = CancelRuns(fenced)
       /\ schedule' = PauseSchedules(paused)
       /\ proposal' = [p \in Proposals |->
             IF proposal[p].interface = i
             THEN [proposal[p] EXCEPT !.state = "invalidated"]
             ELSE InvalidateProposals(fenced)[p]]
       /\ UNCHANGED <<control, workspace, grant, revision, tool, occurrence,
                      ledger, ticking>>

-----------------------------------------------------------------------------
(* Schedules *)

Schedulable(s, w, i, m, refs, end) ==
    /\ schedule[s].state = "none"
    /\ workspace[w].state # "deleted"
    /\ m \in models
    /\ LiveInterface(i)
    /\ CheckGrants(w, m, refs)
    /\ end > now

NewSchedule(w, i, m, refs, end, limit) ==
    [NoSchedule EXCEPT !.state = "paused", !.workspace = w, !.interface = i,
        !.model = m, !.grants = refs, !.version = 1, !.maxRuns = limit,
        !.end = end]

CreateSchedule(s, w, i, m, refs, end, limit) ==
    /\ Schedulable(s, w, i, m, refs, end)
    /\ workspace' = Touched(w)
    /\ schedule' = [schedule EXCEPT ![s] =
                       NewSchedule(w, i, m, refs, end, limit)]
    /\ UNCHANGED <<control, grant, run, proposal, library, tool, occurrence,
                   ledger, ticking>>

\* A run may propose a schedule within its own authority, never from an
\* occurrence; like every schedule it starts paused.
CreateScheduleByRun(s, r, i, end, limit) ==
    LET w == run[r].workspace
        m == run[r].model
    IN /\ Calling(r)
       /\ run[r].schedule = Nil
       /\ Schedulable(s, w, i, m, run[r].grants, end)
       /\ schedule' = [schedule EXCEPT ![s] =
                          NewSchedule(w, i, m, run[r].grants, end, limit)]
       /\ run' = Counted(r)
       /\ UNCHANGED <<control, workspace, grant, proposal, library, tool,
                      occurrence, ledger, ticking>>

\* The consent names exactly the version, model and grants of the schedule.
EnableSchedule(s) ==
    /\ s \in LiveSchedules
    /\ schedule[s].version < MaxVersion
    /\ ready
    /\ LiveWorkspace(schedule[s].workspace)
    /\ LiveInterface(schedule[s].interface)
    /\ CheckGrants(schedule[s].workspace, schedule[s].model, schedule[s].grants)
    /\ schedule[s].model \in models
    /\ schedule[s].runsStarted < schedule[s].maxRuns
    /\ schedule[s].end > now
    /\ NextSlot(s, schedule[s].end) # Nil
    /\ schedule' = [schedule EXCEPT ![s].state = "enabled",
          ![s].version = @ + 1, ![s].next = NextSlot(s, schedule[s].end)]
    /\ UNCHANGED <<control, workspace, grant, run, proposal, library, tool,
                   occurrence, ledger, ticking>>

PauseSchedule(s) ==
    /\ s \in LiveSchedules
    /\ schedule[s].version < MaxVersion
    /\ schedule' = PauseSchedules({s})
    /\ Invalidate(RunsOf({s}))
    /\ UNCHANGED <<control, workspace, grant, library, tool, occurrence, ledger,
                   ticking>>

DeleteSchedule(s) ==
    /\ s \in LiveSchedules
    /\ schedule' = [PauseSchedules({s}) EXCEPT ![s].state = "deleted"]
    /\ Invalidate(RunsOf({s}))
    /\ UNCHANGED <<control, workspace, grant, library, tool, occurrence, ledger,
                   ticking>>

-----------------------------------------------------------------------------
(* tick: one transaction over the enabled schedules.  The schedules it has *)
(* not reached are in ticking; nothing else happens until that is empty.   *)
(* The rows' order is abstracted to any order.                             *)

Due(s) == schedule[s].next # Nil /\ schedule[s].next <= now
PastEnd(s) == schedule[s].end <= now
Exhausted(s) == \/ schedule[s].end <= now
                \/ schedule[s].runsStarted >= schedule[s].maxRuns

\* The supervisor's loop, between two runs.  Enough identifiers are left.
TickStart ==
    LET enabled == {s \in Schedules : schedule[s].state = "enabled"}
    IN /\ ready /\ Idle
       /\ enabled # {}
       /\ Cardinality({s \in enabled : Due(s)}) <= Cardinality(Fresh)
       /\ ticking' = enabled
       /\ UNCHANGED <<control, workspace, grant, run, proposal, library,
                      schedule, tool, occurrence, ledger>>

TickEnds(s) ==
    /\ Exhausted(s)
    /\ schedule' = [schedule EXCEPT ![s] =
                       [@ EXCEPT !.state = "ended", !.next = Nil]]
    /\ UNCHANGED <<run, occurrence, rows>>

Recorded(s) == schedule[s].next \in DOMAIN occurrence[s]

TickSkips(s) ==
    /\ ~Exhausted(s)
    /\ ~Due(s) \/ Recorded(s)
    /\ UNCHANGED <<schedule, run, occurrence, rows>>

Record(s, what) ==
    LET slot == schedule[s].next
    IN occurrence' = [occurrence EXCEPT ![s] =
          [m \in DOMAIN @ \cup {slot} |-> IF m = slot THEN what ELSE @[m]]]

Unmoved(s) == schedule
Advanced(s) == [schedule EXCEPT ![s].next = NextSlot(s, schedule[s].end)]
Occurs(s) == ~Exhausted(s) /\ Due(s) /\ ~Recorded(s)
OnTime(s) == schedule[s].next = now

AdmissibleSlot(s) ==
    Admissible(schedule[s].workspace, schedule[s].model, schedule[s].grants,
               {schedule[s].interface})

TickMisses(s) ==
    /\ Occurs(s) /\ ~OnTime(s)
    /\ Record(s, [outcome |-> "missed", run |-> Nil])
    /\ schedule' = Advanced(s)
    /\ UNCHANGED <<run, rows>>

TickRejects(s) ==
    /\ Occurs(s) /\ OnTime(s) /\ ~AdmissibleSlot(s)
    /\ Record(s, [outcome |-> "rejected", run |-> Nil])
    /\ schedule' = Advanced(s)
    /\ UNCHANGED <<run, rows>>

\* create_run for an occurrence: no history, and the revision it may write.
TickAdmits(s, r) ==
    /\ Occurs(s) /\ OnTime(s) /\ r \in Fresh /\ AdmissibleSlot(s)
    /\ Queue(r, schedule[s].workspace, schedule[s].model, schedule[s].grants,
             {schedule[s].interface}, <<>>, s, schedule[s].version,
             interface[schedule[s].interface].rev)
    /\ Record(s, [outcome |-> "admitted", run |-> r])
    /\ schedule' = [Advanced(s) EXCEPT ![s].runsStarted = @ + 1]

TickSchedule(s) ==
    /\ s \in ticking
    /\ ticking' = ticking \ {s}
    /\ \/ TickEnds(s) \/ TickSkips(s) \/ TickMisses(s) \/ TickRejects(s)
       \/ \E r \in Runs : TickAdmits(s, r)
    /\ UNCHANGED <<control, workspace, grant, proposal, library, tool,
                   cancellation, usage>>

-----------------------------------------------------------------------------
(* Configuration and time *)

\* fence_model_configuration: no authority survives a change of provider.
FenceModelConfiguration ==
    LET granted == {g \in Grants : grant[g].state = "live"}
        enabled == {s \in Schedules : schedule[s].state = "enabled"}
    IN /\ grant' = [g \in Grants |-> IF g \in granted
             THEN [grant[g] EXCEPT !.state = "revoked", !.generation = @ + 1]
             ELSE grant[g]]
       /\ run' = CancelRuns(Runs)
       /\ schedule' = PauseSchedules(enabled)
       /\ proposal' = [p \in Proposals |-> IF proposal[p].state = "pending"
             THEN [proposal[p] EXCEPT !.state = "invalidated"]
             ELSE proposal[p]]
       /\ tool' = RevokeTools(Tools)
       /\ UNCHANGED <<control, workspace, library, occurrence, ledger, ticking>>

\* A configuration being replaced is unverified first.
Unverify ==
    /\ ready
    /\ ready' = FALSE
    /\ UNCHANGED <<now, models, workspace, grant, run, proposal, library,
                   schedule, tool, occurrence, ledger, ticking>>

\* A catalog refresh under the same authority.
RefreshModels(ms) ==
    /\ ready /\ ms # models
    /\ models' = ms
    /\ UNCHANGED <<now, ready, workspace, grant, run, proposal, library,
                   schedule, tool, occurrence, ledger, ticking>>

Clock ==
    /\ now < Horizon
    /\ now' = now + 1
    /\ UNCHANGED <<ready, models, workspace, grant, run, proposal, library,
                   schedule, tool, occurrence, ledger, ticking>>

-----------------------------------------------------------------------------

Init ==
    /\ now = 0 /\ ready = TRUE /\ models = Models
    /\ workspace = [w \in Workspaces |->
                       [state |-> "none", admitted |-> FALSE, history |-> <<>>]]
    /\ grant = [g \in Grants |-> NoGrant]
    /\ run = [r \in Runs |-> NoRun]
    /\ proposal = [p \in Proposals |-> NoProposal]
    /\ interface = [i \in Interfaces |-> [state |-> "none", rev |-> 0]]
    /\ schedule = [s \in Schedules |-> NoSchedule]
    /\ tool = [t \in Tools |-> NoTool]
    /\ revision = [i \in Interfaces |-> <<>>]
    /\ occurrence = [s \in Schedules |-> <<>>]
    /\ cancellation = {}
    /\ usage = [d \in Days |-> 0]
    /\ rows = 0
    /\ ticking = {}

\* The operator's mutations (POST routes).
Operator ==
    \/ \E w \in Workspaces :
          \/ DeleteWorkspace(w)
          \/ \E g \in Grants, c \in Connections, m \in Models,
                ops \in SUBSET Operations, e \in Expiries :
                CreateGrant(g, w, c, m, ops, e)
          \/ \E r \in Runs, m \in Models, refs \in SUBSET CurrentRefs,
                targets \in SUBSET Interfaces, import \in BOOLEAN :
                CreateRun(r, w, m, refs, targets, import)
          \/ \E p \in Proposals, i \in Interfaces \cup {Nil} :
                ProposeByOperator(p, w, i)
          \/ \E s \in Schedules, i \in Interfaces, m \in Models,
                refs \in SUBSET CurrentRefs, e \in Expiries, n \in RunLimits :
                CreateSchedule(s, w, i, m, refs, e, n)
    \/ \E g \in Grants : RevokeGrant(g)
    \/ \E r \in Runs : CancelRun(r)
    \/ \E p \in Proposals, i \in Interfaces : Publish(p, i)
    \/ \E i \in Interfaces :
          \/ RenameInterface(i) \/ DeleteInterface(i)
          \/ \E n \in DOMAIN revision[i] : RollbackInterface(i, n)
    \/ \E s \in Schedules :
          EnableSchedule(s) \/ PauseSchedule(s) \/ DeleteSchedule(s)

\* The native device that performs account reads.
Device ==
    \E t \in Tools :
        \/ ClaimTool(t)
        \/ \E token \in 1..MaxClaims, outcome \in {"succeeded", "failed"} :
              ToolResult(t, token, outcome)

\* The supervisor thread, for itself and for the worker of its current run.
Supervisor ==
    \/ StartNext
    \/ TickStart
    \/ \E r \in Runs :
          \/ FinishCancelled(r) \/ FinishFailed(r) \/ FinishSucceeded(r)
          \/ ReserveModelRequest(r)
          \/ ReadTool(r)
          \/ \E t \in Tools, op \in Operations : RequestTool(r, t, op)
          \/ \E p \in Proposals, i \in Interfaces \cup {Nil} :
                ProposeByRun(p, r, i)
          \/ \E s \in Schedules, i \in Interfaces, e \in Expiries,
                n \in RunLimits : CreateScheduleByRun(s, r, i, e, n)

\* The process that owns the store and its configuration.
Host ==
    \/ Unverify
    \/ FenceModelConfiguration
    \/ \E ms \in Catalogs :
          RefreshModels(ms) \/ \E b \in BOOLEAN : Recover(ms, b)
    \/ Clock

Next ==
    \/ \E s \in Schedules : TickSchedule(s)
    \/ ticking = {} /\ (Operator \/ Device \/ Supervisor \/ Host)

Spec == Init /\ [][Next]_vars

=============================================================================
