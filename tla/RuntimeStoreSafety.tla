------------------------- MODULE RuntimeStoreSafety -------------------------
(***************************************************************************)
(* What the runtime's store promises of every interleaving of operator     *)
(* mutations, the native device, the supervisor's steps, restarts and      *)
(* configuration changes.  Each property names the code it is about        *)
(* (store.py, unless another file is named).                               *)
(***************************************************************************)
EXTENDS RuntimeStore

Histories == Seq(Runs \cup {Import})
Revisions == [spec : Proposals, by : {"publish", "rename", "rollback"}]
Outcomes == [outcome : {"missed", "rejected", "admitted"}, run : Runs \cup {Nil}]

WorkspaceRecord ==
    [state : {"none", "live", "deleted"}, admitted : BOOLEAN, history : Histories]
GrantRecord ==
    [state : {"none", "live", "revoked"}, workspace : Workspaces \cup {Nil},
     connection : Connections \cup {Nil}, operations : SUBSET Operations,
     model : Models \cup {Nil}, expires : Nat, generation : Nat]
RunRecord ==
    [state : RunStates, workspace : Workspaces \cup {Nil},
     schedule : Schedules \cup {Nil}, version : Nat, target : Nat,
     model : Models \cup {Nil}, grants : SUBSET GrantRef,
     interfaces : SUBSET Interfaces, deadline : Nat, history : Histories,
     row : Nat, toolCalls : Nat, requests : Nat]
ProposalRecord ==
    [state : {"none", "pending", "published", "invalidated"},
     workspace : Workspaces \cup {Nil}, run : Runs \cup {Nil},
     interface : Interfaces \cup {Nil}, expected : Nat]
InterfaceRecord == [state : {"none", "live", "deleted"}, rev : Nat]
ScheduleRecord ==
    [state : {"none", "paused", "enabled", "ended", "deleted"},
     workspace : Workspaces \cup {Nil}, interface : Interfaces \cup {Nil},
     model : Models \cup {Nil}, grants : SUBSET GrantRef, version : Nat,
     runsStarted : Nat, maxRuns : Nat, end : Nat, next : Nat \cup {Nil}]
ToolRecord ==
    [state : {"none", "pending", "claimed", "completed", "invalidated"},
     run : Runs \cup {Nil}, grant : Grants \cup {Nil}, expires : Nat,
     claim : Nat \cup {Nil}, claimUntil : Nat, issued : Nat,
     result : {Nil, "succeeded", "failed"}]

\* Every object has the fields and the values its table can hold, and what
\* exists belongs to something: a run, proposal and schedule to a workspace,
\* a tool request to a run and a grant, a revision to its place in sequence.
ControlOK == now \in Nat /\ ready \in BOOLEAN /\ models \subseteq Models
WorkspacesOK == workspace \in [Workspaces -> WorkspaceRecord]
GrantsOK == grant \in [Grants -> GrantRecord]
RunsOK ==
    /\ run \in [Runs -> RunRecord]
    /\ \A r \in Runs : run[r].state # "none" => run[r].workspace \in Workspaces
ProposalsOK ==
    /\ proposal \in [Proposals -> ProposalRecord]
    /\ \A p \in Proposals : IF proposal[p].state = "none"
          THEN proposal[p].interface = Nil
          ELSE proposal[p].workspace \in Workspaces
InterfacesOK ==
    /\ interface \in [Interfaces -> InterfaceRecord]
    /\ DOMAIN revision = Interfaces
    /\ \A i \in Interfaces : /\ revision[i] \in [1..interface[i].rev -> Revisions]
                             /\ interface[i].state # "none" => interface[i].rev > 0
SchedulesOK ==
    /\ schedule \in [Schedules -> ScheduleRecord]
    /\ \A s \in Schedules : schedule[s].state # "none" =>
          schedule[s].workspace \in Workspaces /\ schedule[s].interface \in Interfaces
ToolsOK ==
    /\ tool \in [Tools -> ToolRecord]
    /\ \A t \in Tools : tool[t].state # "none" =>
          tool[t].run \in Runs /\ tool[t].grant \in Grants
OccurrencesOK ==
    /\ DOMAIN occurrence = Schedules
    /\ \A s \in Schedules : \A m \in DOMAIN occurrence[s] :
          m \in Nat /\ occurrence[s][m] \in Outcomes
LedgerOK == cancellation \subseteq Runs /\ usage \in [Days -> Nat] /\ rows \in Nat
TickingOK == ticking \subseteq {s \in Schedules : schedule[s].state = "enabled"}

TypeOK ==
    /\ ControlOK /\ WorkspacesOK /\ GrantsOK /\ RunsOK /\ ProposalsOK
    /\ InterfacesOK /\ SchedulesOK /\ ToolsOK /\ OccurrencesOK /\ LedgerOK
    /\ TickingOK

-----------------------------------------------------------------------------
(* Admission *)

\* No two active runs share a workspace or a provider connection, at most one
\* has a worker, and no more than the queue's capacity are active
\* (create_run, start_next).
ExclusiveWork ==
    /\ \A x, y \in ActiveRuns : x # y =>
          /\ run[x].workspace # run[y].workspace
          /\ ConnectionsOf(run[x].grants) \cap ConnectionsOf(run[y].grants) = {}
          /\ ~(run[x].state \in Executing /\ run[y].state \in Executing)
    /\ Cardinality(ActiveRuns) <= QueueLimit

\* A cancellation that arrives before its run's admission wins: the run is
\* never admitted (the cancellation receipt of the cancel route).
CancelledNeverAdmitted == \A r \in cancellation : run[r].state = "none"

\* What ended stays as it ended, and a run told to stop never works again,
\* however cancellation, completion, restart and configuration changes
\* interleave (state, finish, recover).
Irrevocable ==
    [][\A r \in Runs :
          /\ run[r].state \in Terminal => run'[r].state = run[r].state
          /\ run[r].state = "cancelling" =>
                run'[r].state \in {"cancelling", "cancelled", "interrupted"}]_vars

-----------------------------------------------------------------------------
(* Conversation *)

Turns(w) == {workspace[w].history[n] : n \in DOMAIN workspace[w].history}

\* The committed conversation of a workspace is exactly its succeeded
\* operator runs, after what its first admission imported, each once: no turn
\* is lost to a run that started from an older copy (finish).
ConversationComplete ==
    \A w \in Workspaces : LiveWorkspace(w) =>
        /\ Turns(w) \ {Import} =
              {r \in Runs : /\ run[r].workspace = w /\ run[r].schedule = Nil
                            /\ run[r].state = "succeeded"}
        /\ \A a, b \in DOMAIN workspace[w].history :
              workspace[w].history[a] = workspace[w].history[b] => a = b

-----------------------------------------------------------------------------
(* Authority *)

HoldsAuthority(r) ==
    /\ LiveWorkspace(run[r].workspace)
    /\ \A i \in run[r].interfaces : LiveInterface(i)
    /\ \A x \in run[r].grants :
          /\ grant[x.id].state = "live"
          /\ grant[x.id].generation = x.generation
          /\ grant[x.id].workspace = run[r].workspace
          /\ grant[x.id].model = run[r].model

\* A run that can still have an effect holds only current grants of its own
\* workspace and model, and its workspace and interfaces are not deleted:
\* revocation, deletion and a configuration change reach every run at once
\* (invalidate and its callers).
EffectsNeedAuthority ==
    \A r \in Runs : run[r].state \in Unfenced => HoldsAuthority(r)

ScheduleHoldsAuthority(s) ==
    /\ LiveWorkspace(schedule[s].workspace)
    /\ LiveInterface(schedule[s].interface)
    /\ \A x \in schedule[s].grants :
          /\ grant[x.id].state = "live"
          /\ grant[x.id].generation = x.generation

\* The same of what would admit further runs: an enabled schedule has all its
\* authority, and a scheduled run that can still have an effect belongs to a
\* schedule that was not paused or deleted since (pause and its callers).
SchedulesNeedAuthority ==
    /\ \A s \in Schedules :
          schedule[s].state = "enabled" => ScheduleHoldsAuthority(s)
    /\ \A r \in Runs : run[r].state \in Unfenced /\ run[r].schedule # Nil =>
          schedule[run[r].schedule].state \in {"enabled", "ended"}

-----------------------------------------------------------------------------
(* Interfaces *)

\* Nothing a run proposed outlives the run's authority: its proposal is
\* pending only while the run can still have an effect or, for an operator's
\* run, after it succeeded, and is published only if the run succeeded
\* (invalidate_proposals and its callers, publish).
ProposalsFollowRuns ==
    \A p \in Proposals : proposal[p].run # Nil =>
        LET source == run[proposal[p].run]
        IN /\ proposal[p].state = "pending" =>
                 \/ source.state \in Unfenced
                 \/ source.state = "succeeded" /\ source.schedule = Nil
           /\ proposal[p].state = "published" => source.state = "succeeded"

PublishedAt(p) ==
    UNION {{<<i, n>> : n \in {m \in DOMAIN revision[i] :
                                revision[i][m] = [spec |-> p, by |-> "publish"]}} :
              i \in Interfaces}

\* Publication is a compare-and-swap: a proposal is published at most once,
\* in the interface it was made for, directly on the revision it was made
\* against; no manual update is overwritten unseen (publish).
PublishedOnceOnExpected ==
    \A p \in Proposals :
        LET published == PublishedAt(p)
        IN /\ Cardinality(published) <= 1
           /\ proposal[p].state \in {"none", "pending"} => published = {}
           /\ proposal[p].state = "published" => published # {}
           /\ \A at \in published :
                 proposal[p].interface = at[1] /\ proposal[p].expected = at[2] - 1

\* A proposal is published by what it was made for, or never (publish).
ProposalsGoverned == ProposalsFollowRuns /\ PublishedOnceOnExpected

\* A succeeded occurrence refreshed its target: one of its proposals is the
\* revision right after the one captured at admission (finish, publish).
RefreshPublished ==
    \A r \in Runs : run[r].state = "succeeded" /\ run[r].schedule # Nil =>
        \E p \in Proposals :
            /\ proposal[p].run = r
            /\ PublishedAt(p) = {<<schedule[run[r].schedule].interface,
                                   run[r].target + 1>>}

-----------------------------------------------------------------------------
(* Schedules *)

Admitted(s) == {m \in DOMAIN occurrence[s] : occurrence[s][m].outcome = "admitted"}

\* Every scheduled run is the admitted occurrence of exactly one slot, and
\* the count of attempts is exact and within the schedule's limit, whatever
\* is paused, enabled again or restarted in between (tick).
AttemptsAccounted ==
    \A s \in Schedules :
        /\ {occurrence[s][m].run : m \in Admitted(s)} = RunsOf({s})
        /\ Cardinality(Admitted(s)) = Cardinality(RunsOf({s}))
        /\ schedule[s].runsStarted = Cardinality(RunsOf({s}))
        /\ schedule[s].runsStarted <= schedule[s].maxRuns

\* The slot an enabled schedule waits for is always one tick has not handled:
\* otherwise tick would skip it on every pass and the schedule would never
\* run again (tick's look-up of the occurrence).
NextSlotOpen ==
    \A s \in Schedules : schedule[s].next # Nil =>
        /\ schedule[s].state = "enabled"
        /\ schedule[s].next \notin DOMAIN occurrence[s]

\* What a schedule started and what it waits for agree with the occurrences that
\* are recorded (tick).
SlotsAccounted == AttemptsAccounted /\ NextSlotOpen

-----------------------------------------------------------------------------
(* Tools and budgets *)

OpenTools(r) == {t \in ToolsOf(r) : tool[t].state \in {"pending", "claimed"}}

\* A run waits for the device exactly while one of its requests is open, so
\* an answer is always possible and a stopped wait leaves nothing to answer;
\* the request's lease never outlasts the run or the grant (tool,
\* tool_response, finish).
WaitingHasRequest ==
    \A r \in Runs :
        /\ run[r].state = "waiting_for_device" => Cardinality(OpenTools(r)) = 1
        /\ run[r].state \notin {"waiting_for_device", "cancelling", "cancelled"} =>
              OpenTools(r) = {}
        /\ \A t \in ToolsOf(r) :
              /\ tool[t].expires <= run[r].deadline
              /\ tool[t].expires <= grant[tool[t].grant].expires
              /\ tool[t].claimUntil <= tool[t].expires

\* Account data a device returned is dropped when its run ends, when its
\* grant is revoked and when the store restarts; only a run that was
\* cancelled can still hold any (finish, revoke, recover).
ResultsPurged ==
    \A t \in Tools : tool[t].result # Nil \/ tool[t].claim # Nil =>
        /\ grant[tool[t].grant].state = "live"
        /\ run[tool[t].run].state \in Executing \cup {"cancelled"}

\* The requests of a run, and what came of them, last as long as it may use them
\* (tool, tool_response, finish, revoke, recover).
ToolsFollowRuns == WaitingHasRequest /\ ResultsPurged

\* What was counted for each of S, one by one: the sum as a set
Tally(count, S) == UNION {{x} \X (1..count[x]) : x \in S}
RequestsOf == [r \in Runs |-> run[r].requests]

\* Every model request a run made is in some day's count and nothing else is,
\* and neither limit is passed, across runs and midnight
\* (reserve_model_request).
RequestsAccounted ==
    /\ Cardinality(Tally(usage, Days)) = Cardinality(Tally(RequestsOf, Runs))
    /\ \A d \in Days : usage[d] <= DailyLimit
    /\ \A r \in Runs : run[r].requests <= MaxIterations

-----------------------------------------------------------------------------
(* What an observer of the runs sees *)

Lifecycle == INSTANCE RunLifecycle WITH state <- [r \in Runs |-> run[r].state]

\* The store implements the run lifecycle: whatever is revoked, deleted,
\* paused, replaced or restarted, every run is admitted once, dispatched
\* alone, and ends once (create_run, start_next, invalidate, finish, recover).
ImplementsLifecycle == Lifecycle!Spec

=============================================================================
