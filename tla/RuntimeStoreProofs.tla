------------------------- MODULE RuntimeStoreProofs -------------------------
(***************************************************************************)
(* Machine-checked proofs about RuntimeStore, for every set of workspaces, *)
(* grants, runs, interfaces, schedules and tools and every bound.          *)
(***************************************************************************)
EXTENDS RuntimeStoreSafety, TLAPS

-----------------------------------------------------------------------------
(* What the cascades return *)

\* What a step leaves alone keeps its type.
LEMMA Frames ==
    /\ ControlOK /\ UNCHANGED control => ControlOK'
    /\ WorkspacesOK /\ UNCHANGED workspace => WorkspacesOK'
    /\ GrantsOK /\ UNCHANGED grant => GrantsOK'
    /\ RunsOK /\ UNCHANGED run => RunsOK'
    /\ ProposalsOK /\ UNCHANGED proposal => ProposalsOK'
    /\ InterfacesOK /\ UNCHANGED library => InterfacesOK'
    /\ SchedulesOK /\ UNCHANGED schedule => SchedulesOK'
    /\ ToolsOK /\ UNCHANGED tool => ToolsOK'
    /\ OccurrencesOK /\ UNCHANGED occurrence => OccurrencesOK'
    /\ LedgerOK /\ UNCHANGED ledger => LedgerOK'
    /\ TickingOK /\ UNCHANGED <<schedule, ticking>> => TickingOK'
BY DEF control, ControlOK, WorkspacesOK, GrantsOK, RunsOK, ProposalsOK, library,
       InterfacesOK, SchedulesOK, ToolsOK, OccurrencesOK, ledger, LedgerOK, TickingOK

\* A run's state may become any state of an existing run.
LEMMA RunStateType ==
    ASSUME RunsOK, NEW r \in Runs, run[r].state # "none", NEW st \in RunStates,
           run' = [run EXCEPT ![r].state = st]
    PROVE  RunsOK'
BY DEF RunsOK, RunRecord

\* A run's counters may become any numbers.
LEMMA RunCountersType ==
    ASSUME RunsOK, NEW r \in Runs, NEW n \in Nat, NEW f \in {"toolCalls", "requests"},
           run' = [run EXCEPT ![r][f] = n]
    PROVE  RunsOK'
BY DEF RunsOK, RunRecord

\* invalidate keeps every run a run and changes nothing of it but its state.
LEMMA CancelRunsType ==
    ASSUME RunsOK, NEW R, run' = CancelRuns(R)
    PROVE  RunsOK'
BY DEF RunsOK, CancelRuns, RunRecord, RunStates, Executing, Terminal, Active

\* invalidate_proposals keeps every proposal a proposal.
LEMMA InvalidateProposalsType ==
    ASSUME ProposalsOK, NEW R, proposal' = InvalidateProposals(R)
    PROVE  ProposalsOK'
BY DEF ProposalsOK, InvalidateProposals, ProposalRecord

\* pause keeps every schedule a schedule of its workspace and interface.
LEMMA PausedType ==
    ASSUME SchedulesOK, NEW S \in SUBSET LiveSchedules
    PROVE  /\ PauseSchedules(S) \in [Schedules -> ScheduleRecord]
           /\ \A s \in Schedules :
                 /\ PauseSchedules(S)[s].workspace = schedule[s].workspace
                 /\ PauseSchedules(S)[s].interface = schedule[s].interface
                 /\ PauseSchedules(S)[s].state = "none" <=> schedule[s].state = "none"
<1> DEFINE paused(s) == [schedule[s] EXCEPT !.state = "paused",
                                            !.version = @ + 1, !.next = Nil]
<1>1. ASSUME NEW s \in S
      PROVE  /\ paused(s) \in ScheduleRecord
             /\ paused(s).workspace = schedule[s].workspace
             /\ paused(s).interface = schedule[s].interface
             /\ paused(s).state = "paused" /\ schedule[s].state # "none"
  <2>1. s \in Schedules /\ schedule[s].state # "none"
    BY DEF LiveSchedules
  <2>2. schedule[s] \in ScheduleRecord
    BY <2>1 DEF SchedulesOK
  <2>3. schedule[s].version + 1 \in Nat
    BY <2>2 DEF ScheduleRecord
  <2>4. ASSUME NEW v \in Nat
        PROVE  [schedule[s] EXCEPT !.state = "paused", !.version = v, !.next = Nil]
                  \in ScheduleRecord
    BY <2>2 DEF ScheduleRecord
  <2>5. paused(s) \in ScheduleRecord
    BY <2>3, <2>4
  <2> QED
    BY <2>1, <2>2, <2>5 DEF ScheduleRecord
<1>2. PauseSchedules(S) = [s \in Schedules |-> IF s \in S THEN paused(s)
                                              ELSE schedule[s]]
  BY DEF PauseSchedules
<1> HIDE DEF paused
<1> QED
  BY <1>1, <1>2 DEF SchedulesOK

LEMMA PauseSchedulesType ==
    ASSUME SchedulesOK, NEW S \in SUBSET LiveSchedules, schedule' = PauseSchedules(S)
    PROVE  SchedulesOK'
BY PausedType DEF SchedulesOK

\* Clearing and revoking tools keep every request a request of its run.
LEMMA ClearToolsType ==
    ASSUME ToolsOK, NEW T, tool' = ClearTools(T) \/ tool' = RevokeTools(T)
    PROVE  ToolsOK'
<1> DEFINE revoked(t) == [tool[t] EXCEPT !.claim = Nil, !.result = Nil,
                                         !.state = "invalidated"]
           cleared(t) == [tool[t] EXCEPT !.claim = Nil, !.result = Nil,
                             !.state = IF @ = "completed" THEN @ ELSE "invalidated"]
<1>1. ASSUME NEW t \in Tools
      PROVE  /\ revoked(t) \in ToolRecord /\ cleared(t) \in ToolRecord
             /\ revoked(t).run = tool[t].run /\ revoked(t).grant = tool[t].grant
             /\ cleared(t).run = tool[t].run /\ cleared(t).grant = tool[t].grant
  BY DEF ToolsOK, ToolRecord
<1>2. CASE tool' = ClearTools(T)
  BY <1>1, <1>2 DEF ToolsOK, ClearTools
<1>3. CASE tool' = RevokeTools(T)
  BY <1>1, <1>3 DEF ToolsOK, RevokeTools
<1> QED
  BY <1>2, <1>3

\* The next due minute is a minute, if there is one.
LEMMA NextSlotType ==
    ASSUME BoundAssumption, NEW s \in Schedules, NEW end
    PROVE  NextSlot(s, end) \in Nat \cup {Nil}
BY DEF NextSlot, BoundAssumption

\* write_interface adds exactly one revision.
LEMMA WriteInterfaceType ==
    ASSUME InterfacesOK, NEW i \in Interfaces, NEW spec \in Proposals,
           NEW by \in {"publish", "rename", "rollback"},
           WriteInterface(i, spec, by)
    PROVE  InterfacesOK'
<1> DEFINE n == interface[i].rev + 1
<1>1. interface[i].rev \in Nat
  BY DEF InterfaceRecord, InterfacesOK
<1>2. interface' \in [Interfaces -> InterfaceRecord]
  BY <1>1 DEF WriteInterface, InterfaceRecord, InterfacesOK
<1>3. revision[i] \in [1..interface[i].rev -> Revisions]
  BY DEF InterfacesOK
<1>4. 1..interface[i].rev \cup {n} = 1..n
  BY <1>1
<1>5. revision'[i] = [k \in 1..n |-> IF k = n THEN [spec |-> spec, by |-> by]
                                            ELSE revision[i][k]]
  BY <1>3, <1>4 DEF WriteInterface, InterfacesOK
<1>6. revision'[i] \in [1..n -> Revisions]
  BY <1>1, <1>3, <1>5 DEF Revisions
<1>7. /\ DOMAIN revision' = Interfaces
      /\ \A k \in Interfaces \ {i} : revision'[k] = revision[k]
  BY DEF WriteInterface, InterfacesOK
<1>8. /\ interface'[i].rev = n /\ n > 0
      /\ \A k \in Interfaces \ {i} : interface'[k] = interface[k]
  BY <1>1 DEF WriteInterface, InterfacesOK
<1> QED
  BY <1>2, <1>6, <1>7, <1>8 DEF InterfacesOK, WriteInterface

LEMMA DeleteWorkspaceType ==
    ASSUME TypeOK, NEW w \in Workspaces, ticking = {}, DeleteWorkspace(w)
    PROVE  TypeOK'
<1>1. WorkspacesOK'
  <2>1. [workspace[w] EXCEPT !.state = "deleted", !.history = <<>>] \in WorkspaceRecord
    <3>1. <<>> \in Histories
      BY DEF Histories
    <3>2. ASSUME NEW h \in Histories
          PROVE  [workspace[w] EXCEPT !.state = "deleted", !.history = h] \in WorkspaceRecord
      BY DEF TypeOK, WorkspacesOK, WorkspaceRecord
    <3> QED
      BY <3>1, <3>2
  <2> QED
    BY <2>1 DEF TypeOK, DeleteWorkspace, WorkspacesOK
<1>2. RunsOK' /\ ProposalsOK'
  BY CancelRunsType, InvalidateProposalsType DEF TypeOK, DeleteWorkspace, Invalidate
<1>3. SchedulesOK'
  BY PauseSchedulesType DEF TypeOK, DeleteWorkspace
<1>4. TickingOK'
  BY DEF DeleteWorkspace, TickingOK
<1> QED
  BY <1>1, <1>2, <1>3, <1>4, Frames DEF TypeOK, DeleteWorkspace, control, library, ledger

LEMMA CreateGrantType ==
    ASSUME TypeOK, NEW g \in Grants, NEW w \in Workspaces, NEW c \in Connections, NEW m \in Models, NEW ops \in SUBSET Operations, NEW e \in Expiries, ticking = {}, CreateGrant(g, w, c, m, ops, e)
    PROVE  TypeOK'
BY Frames, BoundAssumption DEF TypeOK, CreateGrant, control, library, ledger, GrantsOK, GrantRecord, WorkspacesOK, WorkspaceRecord, Touched

LEMMA RevokeGrantType ==
    ASSUME TypeOK, NEW g \in Grants, ticking = {}, RevokeGrant(g)
    PROVE  TypeOK'
BY Frames, CancelRunsType, InvalidateProposalsType, PauseSchedulesType, ClearToolsType DEF TypeOK, RevokeGrant, control, library, ledger, Invalidate, TickingOK, GrantsOK, GrantRecord

\* Admission creates a run of its workspace.
LEMMA QueueType ==
    ASSUME RunsOK, ControlOK, LedgerOK, BudgetAssumption,
           NEW r \in Runs, NEW w \in Workspaces, NEW m \in Models \cup {Nil},
           NEW refs \in SUBSET GrantRef, NEW targets \in SUBSET Interfaces,
           NEW h \in Histories, NEW s \in Schedules \cup {Nil}, NEW v \in Nat,
           NEW rev \in Nat, Queue(r, w, m, refs, targets, h, s, v, rev)
    PROVE  RunsOK' /\ rows' \in Nat
<1>1. now + RunMinutes \in Nat /\ rows + 1 \in Nat
  BY DEF BudgetAssumption, ControlOK, LedgerOK
<1>2. ASSUME NEW deadline \in Nat, NEW row \in Nat
      PROVE  [NoRun EXCEPT
          !.state = "queued", !.workspace = w, !.schedule = s,
          !.version = v, !.target = rev, !.model = m, !.grants = refs,
          !.interfaces = targets, !.deadline = deadline,
          !.history = h, !.row = row] \in RunRecord
  BY DEF NoRun, RunRecord, RunStates
<1> DEFINE new == [NoRun EXCEPT
          !.state = "queued", !.workspace = w, !.schedule = s,
          !.version = v, !.target = rev, !.model = m, !.grants = refs,
          !.interfaces = targets, !.deadline = now + RunMinutes,
          !.history = h, !.row = rows + 1]
<1>3. new \in RunRecord
  BY <1>1, <1>2
<1>4. new.workspace = w
  BY DEF NoRun
<1>5. run' = [run EXCEPT ![r] = new] /\ rows' = rows + 1
  BY DEF Queue
<1> HIDE DEF new
<1> QED
  BY <1>1, <1>3, <1>4, <1>5 DEF RunsOK

LEMMA CreateRunType ==
    ASSUME TypeOK, NEW r \in Runs, NEW w \in Workspaces, NEW m \in Models, NEW refs \in SUBSET GrantRef, NEW targets \in SUBSET Interfaces, NEW import \in BOOLEAN, ticking = {}, CreateRun(r, w, m, refs, targets, import)
    PROVE  TypeOK'
<1>1. workspace[w].history \in Histories /\ <<>> \in Histories /\ <<Import>> \in Histories
  BY DEF TypeOK, WorkspacesOK, WorkspaceRecord, Histories
<1>2. PICK h \in Histories :
          /\ workspace' = [workspace EXCEPT ![w] =
                [state |-> "live", admitted |-> TRUE, history |-> h]]
          /\ Queue(r, w, m, refs, targets, h, Nil, 0, 0)
  BY <1>1 DEF CreateRun
<1>3. WorkspacesOK'
  BY <1>2 DEF TypeOK, WorkspacesOK, WorkspaceRecord
<1>4. RunsOK' /\ rows' \in Nat
  BY <1>2, QueueType, BudgetAssumption DEF TypeOK
<1>5. LedgerOK'
  BY <1>4 DEF TypeOK, CreateRun, LedgerOK
<1> QED
  BY <1>1, <1>2, <1>3, <1>4, <1>5, Frames DEF TypeOK, CreateRun, control, library, ledger

LEMMA CancelRunType ==
    ASSUME TypeOK, NEW r \in Runs, ticking = {}, CancelRun(r)
    PROVE  TypeOK'
BY Frames, CancelRunsType, InvalidateProposalsType DEF TypeOK, CancelRun, control, library, ledger, Invalidate, LedgerOK

LEMMA StartNextType ==
    ASSUME TypeOK, ticking = {}, StartNext
    PROVE  TypeOK'
<1>1. ASSUME NEW r \in Runs
      PROVE  \/ run'[r] = run[r]
             \/ /\ run[r].state # "none"
                /\ run'[r] = [run[r] EXCEPT !.state = "blocked"]
             \/ /\ run[r].state # "none"
                /\ run'[r] = [run[r] EXCEPT !.state = "running"]
  BY DEF StartNext, Queued, Oldest
<1>2. DOMAIN run' = Runs /\ run' = [r \in Runs |-> run'[r]]
  BY DEF StartNext
<1>3. RunsOK'
  BY <1>1, <1>2 DEF TypeOK, RunsOK, RunRecord, RunStates, Executing, Terminal
<1> QED
  BY <1>3, Frames DEF TypeOK, StartNext, control, library, ledger

LEMMA FinishCancelledType ==
    ASSUME TypeOK, NEW r \in Runs, ticking = {}, FinishCancelled(r)
    PROVE  TypeOK'
BY Frames, InvalidateProposalsType, RunStateType DEF TypeOK, FinishCancelled, control, library, ledger, RunStates, Terminal

LEMMA FinishFailedType ==
    ASSUME TypeOK, NEW r \in Runs, ticking = {}, FinishFailed(r)
    PROVE  TypeOK'
BY Frames, InvalidateProposalsType, ClearToolsType, RunStateType DEF TypeOK, FinishFailed, control, library, ledger, RunStates, Terminal, FaultStates

LEMMA FinishSucceededType ==
    ASSUME TypeOK, NEW r \in Runs, ticking = {}, FinishSucceeded(r)
    PROVE  TypeOK'
<1>1. RunsOK' /\ ToolsOK'
  BY ClearToolsType, RunStateType DEF TypeOK, FinishSucceeded, RunStates, Terminal
<1>2. CASE run[r].schedule = Nil
  <2>1. run[r].workspace \in Workspaces /\ run[r].history \in Histories
    BY DEF TypeOK, RunsOK, RunRecord, FinishSucceeded
  <2>2. Append(run[r].history, r) \in Histories
    BY <2>1 DEF Histories
  <2>3. WorkspacesOK'
    BY <1>2, <2>1, <2>2 DEF TypeOK, FinishSucceeded, WorkspacesOK, WorkspaceRecord
  <2> QED
    BY <1>1, <1>2, <2>3, Frames
    DEF TypeOK, FinishSucceeded, control, library, ledger
<1>3. CASE run[r].schedule # Nil
  <2>1. PICK p \in PendingOf(r) :
           /\ WriteInterface(proposal[p].interface, p, "publish")
           /\ proposal' = [proposal EXCEPT ![p].state = "published"]
           /\ UNCHANGED workspace
    BY <1>3 DEF FinishSucceeded
  <2>2. p \in Proposals /\ proposal[p].state = "pending"
    BY DEF PendingOf
  <2>3. ProposalsOK'
    BY <2>1, <2>2 DEF TypeOK, ProposalsOK, ProposalRecord
  <2>4. InterfacesOK'
    <3>1. CASE proposal[p].interface \in Interfaces
      <4>1. PICK i \in Interfaces : WriteInterface(i, p, "publish")
        BY <2>1, <3>1
      <4> QED
        <5>1. InterfacesOK /\ p \in Proposals
          BY <2>2 DEF TypeOK
        <5>2. "publish" \in {"publish", "rename", "rollback"}
          OBVIOUS
        <5> QED
          BY <4>1, <5>1, <5>2, WriteInterfaceType
    <3>2. CASE proposal[p].interface \notin Interfaces
      <4>1. /\ interface' \in [Interfaces -> InterfaceRecord]
            /\ DOMAIN revision' = Interfaces
            /\ \A k \in Interfaces : interface'[k] = interface[k] /\ revision'[k] = revision[k]
        BY <2>1, <3>2 DEF TypeOK, WriteInterface, InterfacesOK
      <4>2. ASSUME NEW k \in Interfaces
            PROVE  /\ revision'[k] \in [1..interface'[k].rev -> Revisions]
                   /\ interface'[k].state # "none" => interface'[k].rev > 0
        <5>1. /\ interface'[k] = interface[k] /\ revision'[k] = revision[k]
              /\ revision[k] \in [1..interface[k].rev -> Revisions]
              /\ interface[k].state # "none" => interface[k].rev > 0
          BY <4>1 DEF TypeOK, InterfacesOK
        <5> QED
          BY <5>1
      <4> QED
        BY <4>1, <4>2 DEF InterfacesOK
    <3> QED
      BY <3>1, <3>2
  <2> QED
    BY <1>1, <2>1, <2>3, <2>4, Frames
    DEF TypeOK, FinishSucceeded, control, library, ledger
<1> QED
  BY <1>2, <1>3

LEMMA RecoverType ==
    ASSUME TypeOK, NEW ms \in SUBSET Models, NEW b \in BOOLEAN, ticking = {}, Recover(ms, b)
    PROVE  TypeOK'
<1>1. ControlOK'
  BY DEF TypeOK, Recover, ControlOK
<1>2. RunsOK'
  <2>1. \A r \in Runs : run'[r] = run[r] \/ run'[r] = [run[r] EXCEPT !.state = "interrupted"]
    BY DEF Recover
  <2>2. \A r \in Runs : run[r] \in RunRecord /\ run'[r] \in RunRecord
    <3>1. \A x \in RunRecord : [x EXCEPT !.state = "interrupted"] \in RunRecord
      BY DEF RunRecord, RunStates, Terminal
    <3>2. \A r \in Runs : run[r] \in RunRecord
      BY DEF TypeOK, RunsOK
    <3> TAKE r \in Runs
    <3>3. [run[r] EXCEPT !.state = "interrupted"] \in RunRecord
      BY <3>1, <3>2
    <3> QED
      BY <2>1, <3>2, <3>3
  <2>3. run' \in [Runs -> RunRecord]
    BY <2>2 DEF Recover
  <2>4. \A r \in Runs : run'[r].state # "none" =>
           run[r].state # "none" /\ run'[r].workspace = run[r].workspace
    BY <2>1, <2>2 DEF Recover, RunRecord, Executing
  <2> QED
    BY <2>3, <2>4 DEF TypeOK, RunsOK
<1>3. ProposalsOK' /\ ToolsOK'
  BY InvalidateProposalsType, ClearToolsType DEF TypeOK, Recover
<1> QED
  BY <1>1, <1>2, <1>3, Frames DEF TypeOK, Recover, library, ledger

LEMMA ReserveModelRequestType ==
    ASSUME TypeOK, NEW r \in Runs, ticking = {}, ReserveModelRequest(r)
    PROVE  TypeOK'
<1>1. LedgerOK'
  <2>1. usage \in [Days -> Nat]
    BY DEF TypeOK, LedgerOK
  <2>2. ASSUME NEW d, NEW n \in Nat
        PROVE  [usage EXCEPT ![d] = n] \in [Days -> Nat]
    BY <2>1
  <2>3. [usage EXCEPT ![Today] = usage[Today] + 1] \in [Days -> Nat]
    <3>1. CASE Today \in Days
      BY <2>1, <2>2, <3>1
    <3>2. CASE Today \notin Days
      BY <2>1, <3>2
    <3> QED
      BY <3>1, <3>2
  <2> QED
    BY <2>3 DEF TypeOK, ReserveModelRequest, LedgerOK
<1>2. RunsOK'
  <2>1. run[r].requests + 1 \in Nat
    BY DEF TypeOK, RunsOK, RunRecord
  <2>2. run' = [run EXCEPT ![r]["requests"] = run[r].requests + 1]
    BY DEF ReserveModelRequest
  <2> QED
    BY <2>1, <2>2, RunCountersType DEF TypeOK
<1> QED
  BY <1>1, <1>2, Frames DEF TypeOK, ReserveModelRequest, control, library

\* A counted tool call changes nothing else of the run.
LEMMA CountedType ==
    ASSUME RunsOK, NEW r \in Runs
    PROVE  /\ Counted(r) \in [Runs -> RunRecord]
           /\ \A x \in Runs : /\ Counted(r)[x].workspace = run[x].workspace
                              /\ Counted(r)[x].state = run[x].state
<1>1. run[r].toolCalls + 1 \in Nat
  BY DEF RunsOK, RunRecord
<1>2. ASSUME NEW n \in Nat
      PROVE  /\ [run EXCEPT ![r].toolCalls = n] \in [Runs -> RunRecord]
             /\ \A x \in Runs :
                   /\ [run EXCEPT ![r].toolCalls = n][x].workspace = run[x].workspace
                   /\ [run EXCEPT ![r].toolCalls = n][x].state = run[x].state
  BY DEF RunsOK, RunRecord
<1> QED
  BY <1>1, <1>2 DEF Counted

LEMMA ReadToolType ==
    ASSUME TypeOK, NEW r \in Runs, ticking = {}, ReadTool(r)
    PROVE  TypeOK'
<1>1. RunsOK'
  BY CountedType DEF TypeOK, ReadTool, RunsOK
<1> QED
  BY <1>1, Frames DEF TypeOK, ReadTool, control, library, ledger

LEMMA RequestToolType ==
    ASSUME TypeOK, NEW r \in Runs, NEW t \in Tools, NEW op \in Operations, ticking = {}, RequestTool(r, t, op)
    PROVE  TypeOK'
<1>1. RunsOK'
  <2>1. run[r].state # "none" /\ run[r].workspace \in Workspaces
    BY DEF TypeOK, RunsOK, RequestTool, Calling
  <2>2. run' = [Counted(r) EXCEPT ![r].state = "waiting_for_device"]
    BY DEF RequestTool
  <2>3. ASSUME NEW c \in [Runs -> RunRecord],
               \A x \in Runs : c[x].workspace = run[x].workspace
                              /\ c[x].state = run[x].state,
               run' = [c EXCEPT ![r].state = "waiting_for_device"]
        PROVE  RunsOK'
    <3>1. "waiting_for_device" \in RunStates
      BY DEF RunStates, Executing
    <3>2. /\ run' \in [Runs -> RunRecord]
          /\ \A x \in Runs : run'[x].workspace = run[x].workspace
          /\ \A x \in Runs \ {r} : run'[x].state = run[x].state
      BY <2>3, <3>1 DEF RunRecord
    <3> QED
      BY <2>1, <3>2 DEF TypeOK, RunsOK
  <2> QED
    BY <2>2, <2>3, CountedType DEF TypeOK
<1>2. PICK x \in run[r].grants :
        tool' = [tool EXCEPT ![t] = [NoTool EXCEPT
                   !.state = "pending", !.run = r, !.grant = x.id,
                   !.expires = IF run[r].deadline < grant[x.id].expires
                               THEN run[r].deadline ELSE grant[x.id].expires]]
  BY DEF RequestTool
<1>3. x.id \in Grants /\ run[r].deadline \in Nat
  BY DEF TypeOK, RunsOK, RunRecord, GrantRef
<1>4. (IF run[r].deadline < grant[x.id].expires
       THEN run[r].deadline ELSE grant[x.id].expires) \in Nat
  BY <1>3 DEF TypeOK, GrantsOK, GrantRecord
<1>5. ASSUME NEW e \in Nat, NEW g \in Grants
      PROVE  /\ [NoTool EXCEPT !.state = "pending", !.run = r, !.grant = g,
                               !.expires = e] \in ToolRecord
             /\ [NoTool EXCEPT !.state = "pending", !.run = r, !.grant = g,
                               !.expires = e].run = r
             /\ [NoTool EXCEPT !.state = "pending", !.run = r, !.grant = g,
                               !.expires = e].grant = g
  BY DEF NoTool, ToolRecord
<1>6. ToolsOK'
  <2> DEFINE new(e) == [NoTool EXCEPT !.state = "pending", !.run = r,
                                      !.grant = x.id, !.expires = e]
  <2>1. PICK e \in Nat : tool' = [tool EXCEPT ![t] = new(e)]
    BY <1>2, <1>4
  <2>2. new(e) \in ToolRecord /\ new(e).run = r /\ new(e).grant = x.id
    BY <1>3, <1>5
  <2> HIDE DEF new
  <2> QED
    BY <1>3, <2>1, <2>2 DEF TypeOK, ToolsOK
<1> QED
  BY <1>1, <1>6, Frames DEF TypeOK, RequestTool, control, library, ledger

LEMMA ClaimToolType ==
    ASSUME TypeOK, NEW t \in Tools, ticking = {}, ClaimTool(t)
    PROVE  TypeOK'
<1>1. now + ClaimMinutes \in Nat /\ tool[t].issued + 1 \in Nat /\ tool[t].expires \in Nat
  BY BudgetAssumption DEF TypeOK, ControlOK, ToolsOK, ToolRecord
<1>2. ASSUME NEW n \in Nat, NEW until \in Nat,
             tool' = [tool EXCEPT ![t].state = "claimed", ![t].issued = n,
                                  ![t].claim = n, ![t].claimUntil = until]
      PROVE  ToolsOK'
  <2>0. tool[t] \in ToolRecord
        /\ tool'[t] = [tool[t] EXCEPT !.state = "claimed", !.issued = n,
                                      !.claim = n, !.claimUntil = until]
    BY <1>2 DEF TypeOK, ToolsOK
  <2>1. tool'[t] \in ToolRecord /\ tool'[t].run = tool[t].run
        /\ tool'[t].grant = tool[t].grant
    <3>1. tool'[t] \in ToolRecord
      BY <2>0 DEF ToolRecord
    <3>2. tool'[t].run = tool[t].run /\ tool'[t].grant = tool[t].grant
      BY <2>0 DEF ToolRecord
    <3> QED
      BY <3>1, <3>2
  <2>2. \A x \in Tools \ {t} : tool'[x] = tool[x]
    BY <1>2 DEF TypeOK, ToolsOK
  <2>3. tool' \in [Tools -> ToolRecord]
    BY <1>2, <2>1, <2>2 DEF TypeOK, ToolsOK
  <2> QED
    BY <2>1, <2>2, <2>3 DEF TypeOK, ToolsOK, ClaimTool
<1>3. ToolsOK'
  BY <1>1, <1>2 DEF ClaimTool
<1> QED
  BY <1>3, Frames DEF TypeOK, ClaimTool, control, library, ledger

LEMMA ToolResultType ==
    ASSUME TypeOK, NEW t \in Tools, NEW token \in Nat, NEW outcome \in {"succeeded", "failed"}, ticking = {}, ToolResult(t, token, outcome)
    PROVE  TypeOK'
<1>1. tool[t].run \in Runs /\ tool[t].grant \in Grants /\ run[tool[t].run].state # "none"
  BY DEF TypeOK, ToolResult, ToolsOK, Fence, Unfenced
<1>2. RunsOK'
  BY <1>1, RunStateType DEF TypeOK, ToolResult, RunStates, Executing
<1>3. ToolsOK'
  <2> DEFINE done == [tool[t] EXCEPT !.state = "completed", !.result = outcome]
  <2>1. done \in ToolRecord /\ done.run = tool[t].run /\ done.grant = tool[t].grant
    BY DEF TypeOK, ToolsOK, ToolRecord
  <2>2. tool' = [tool EXCEPT ![t] = done]
    BY DEF ToolResult
  <2> HIDE DEF done
  <2> QED
    BY <1>1, <2>1, <2>2 DEF TypeOK, ToolsOK
<1> QED
  BY <1>1, <1>2, <1>3, Frames DEF TypeOK, ToolResult, control, library, ledger

\* propose adds a proposal of an existing workspace.
LEMMA ProposesType ==
    ASSUME ProposalsOK, WorkspacesOK, InterfacesOK, NEW p \in Proposals,
           NEW w \in Workspaces, NEW r \in Runs \cup {Nil},
           NEW i \in Interfaces \cup {Nil}, Proposes(p, w, r, i)
    PROVE  ProposalsOK' /\ WorkspacesOK'
<1>1. ASSUME NEW n \in Nat
      PROVE  [state |-> "pending", workspace |-> w, run |-> r, interface |-> i,
              expected |-> n] \in ProposalRecord
  BY DEF ProposalRecord
<1>2. (IF i = Nil THEN 0 ELSE interface[i].rev) \in Nat
  BY DEF InterfacesOK, InterfaceRecord
<1>3. ProposalsOK'
  BY <1>1, <1>2 DEF Proposes, ProposalsOK
<1>4. WorkspacesOK'
  BY DEF Proposes, Touched, WorkspacesOK, WorkspaceRecord
<1> QED
  BY <1>3, <1>4

LEMMA ProposeByOperatorType ==
    ASSUME TypeOK, NEW p \in Proposals, NEW w \in Workspaces, NEW i \in Interfaces \cup {Nil}, ticking = {}, ProposeByOperator(p, w, i)
    PROVE  TypeOK'
<1>1. ProposalsOK' /\ WorkspacesOK'
  BY ProposesType DEF TypeOK, ProposeByOperator
<1> QED
  BY <1>1, Frames DEF TypeOK, ProposeByOperator, control, library, ledger

LEMMA ProposeByRunType ==
    ASSUME TypeOK, NEW p \in Proposals, NEW r \in Runs, NEW i \in Interfaces \cup {Nil}, ticking = {}, ProposeByRun(p, r, i)
    PROVE  TypeOK'
<1>1. run[r].workspace \in Workspaces
  BY DEF TypeOK, ProposeByRun, Calling, RunsOK
<1>2. ProposalsOK' /\ WorkspacesOK'
  BY <1>1, ProposesType DEF TypeOK, ProposeByRun
<1>3. RunsOK'
  BY CountedType DEF TypeOK, ProposeByRun, RunsOK
<1> QED
  BY <1>1, <1>2, <1>3, Frames DEF TypeOK, ProposeByRun, control, library, ledger

LEMMA PublishType ==
    ASSUME TypeOK, NEW p \in Proposals, NEW i \in Interfaces, ticking = {}, Publish(p, i)
    PROVE  TypeOK'
<1>1. InterfacesOK'
  BY WriteInterfaceType DEF TypeOK, Publish
<1>2. ProposalsOK'
  <2>1. proposal[p] \in ProposalRecord /\ proposal[p].workspace \in Workspaces
    BY DEF TypeOK, Publish, ProposalsOK
  <2>2. /\ proposal'[p] = [proposal[p] EXCEPT !.state = "published", !.interface = i]
        /\ \A x \in Proposals \ {p} : proposal'[x] = proposal[x]
        /\ proposal' = [x \in Proposals |-> proposal'[x]]
    BY DEF TypeOK, Publish, ProposalsOK
  <2>3. /\ proposal'[p] \in ProposalRecord /\ proposal'[p].state = "published"
        /\ proposal'[p].workspace \in Workspaces
    BY <2>1, <2>2 DEF ProposalRecord
  <2>4. proposal' \in [Proposals -> ProposalRecord]
    BY <2>2, <2>3 DEF TypeOK, ProposalsOK
  <2> QED
    BY <2>2, <2>3, <2>4 DEF TypeOK, ProposalsOK
<1> QED
  BY <1>1, <1>2, Frames DEF TypeOK, Publish, control, ledger

LEMMA RenameInterfaceType ==
    ASSUME TypeOK, NEW i \in Interfaces, ticking = {}, RenameInterface(i)
    PROVE  TypeOK'
BY Frames, WriteInterfaceType DEF TypeOK, RenameInterface, control, library, ledger, InterfacesOK, InterfaceRecord, Revisions, LiveInterface

LEMMA RollbackInterfaceType ==
    ASSUME TypeOK, NEW i \in Interfaces, NEW n \in Nat, ticking = {}, RollbackInterface(i, n)
    PROVE  TypeOK'
BY Frames, WriteInterfaceType DEF TypeOK, RollbackInterface, control, library, ledger, InterfacesOK, InterfaceRecord, Revisions

LEMMA DeleteInterfaceType ==
    ASSUME TypeOK, NEW i \in Interfaces, ticking = {}, DeleteInterface(i)
    PROVE  TypeOK'
<1>1. InterfacesOK'
  BY DEF TypeOK, DeleteInterface, InterfacesOK, InterfaceRecord, LiveInterface
<1>2. RunsOK'
  BY CancelRunsType DEF TypeOK, DeleteInterface
<1>3. SchedulesOK'
  BY PauseSchedulesType DEF TypeOK, DeleteInterface
<1>4. ProposalsOK'
  <2>1. ASSUME NEW p \in Proposals
        PROVE  proposal'[p] \in {proposal[p], [proposal[p] EXCEPT !.state = "invalidated"]}
    BY DEF DeleteInterface, InvalidateProposals
  <2>2. proposal' = [p \in Proposals |-> proposal'[p]]
    BY DEF DeleteInterface
  <2>3. \A p \in Proposals : proposal[p].interface = i => proposal[p].state # "none"
    BY NilAssumption DEF TypeOK, ProposalsOK
  <2>4. ASSUME NEW p \in Proposals
        PROVE  /\ proposal'[p] \in ProposalRecord
               /\ IF proposal'[p].state = "none" THEN proposal'[p].interface = Nil
                  ELSE proposal'[p].workspace \in Workspaces
    <3>1. CASE proposal'[p] = proposal[p]
      BY <3>1 DEF TypeOK, ProposalsOK
    <3>2. CASE proposal'[p] # proposal[p]
      <4>1. /\ proposal'[p] = [proposal[p] EXCEPT !.state = "invalidated"]
            /\ proposal[p].state # "none"
        BY <2>1, <2>3, <3>2 DEF DeleteInterface, InvalidateProposals
      <4> QED
        BY <4>1 DEF TypeOK, ProposalsOK, ProposalRecord
    <3> QED
      BY <3>1, <3>2
  <2> QED
    BY <2>2, <2>4 DEF ProposalsOK
<1>5. TickingOK'
  BY DEF DeleteInterface, TickingOK
<1> QED
  BY <1>1, <1>2, <1>3, <1>4, <1>5, Frames DEF TypeOK, DeleteInterface, control, library, ledger

\* A new schedule is a paused schedule of an existing workspace and interface.
LEMMA NewScheduleType ==
    ASSUME SchedulesOK, BoundAssumption, NEW s \in Schedules, NEW w \in Workspaces,
           NEW i \in Interfaces, NEW m \in Models \cup {Nil}, NEW refs \in SUBSET GrantRef,
           NEW end \in Expiries, NEW limit \in RunLimits,
           schedule' = [schedule EXCEPT ![s] = NewSchedule(w, i, m, refs, end, limit)]
    PROVE  SchedulesOK'
<1>1. end \in Nat /\ limit \in Nat
  BY DEF BoundAssumption
<1>2. NewSchedule(w, i, m, refs, end, limit) \in ScheduleRecord
  BY <1>1 DEF NewSchedule, NoSchedule, ScheduleRecord
<1>3. /\ NewSchedule(w, i, m, refs, end, limit).workspace = w
      /\ NewSchedule(w, i, m, refs, end, limit).interface = i
  BY DEF NewSchedule, NoSchedule
<1> QED
  BY <1>2, <1>3 DEF SchedulesOK

LEMMA CreateScheduleType ==
    ASSUME TypeOK, NEW s \in Schedules, NEW w \in Workspaces, NEW i \in Interfaces, NEW m \in Models, NEW refs \in SUBSET GrantRef, NEW e \in Expiries, NEW n \in RunLimits, ticking = {}, CreateSchedule(s, w, i, m, refs, e, n)
    PROVE  TypeOK'
<1>1. SchedulesOK'
  BY NewScheduleType, BoundAssumption DEF TypeOK, CreateSchedule
<1>2. WorkspacesOK'
  BY DEF TypeOK, CreateSchedule, Touched, WorkspacesOK, WorkspaceRecord
<1>3. TickingOK'
  BY DEF CreateSchedule, TickingOK
<1> QED
  BY <1>1, <1>2, <1>3, Frames DEF TypeOK, CreateSchedule, control, library, ledger

LEMMA CreateScheduleByRunType ==
    ASSUME TypeOK, NEW s \in Schedules, NEW r \in Runs, NEW i \in Interfaces, NEW e \in Expiries, NEW n \in RunLimits, ticking = {}, CreateScheduleByRun(s, r, i, e, n)
    PROVE  TypeOK'
<1>1. run[r].workspace \in Workspaces /\ run[r].model \in Models \cup {Nil} /\ run[r].grants \in SUBSET GrantRef
  BY DEF TypeOK, CreateScheduleByRun, Calling, RunsOK, RunRecord
<1>2. SchedulesOK'
  BY <1>1, NewScheduleType, BoundAssumption DEF TypeOK, CreateScheduleByRun
<1>3. RunsOK'
  BY CountedType DEF TypeOK, CreateScheduleByRun, RunsOK
<1>4. TickingOK'
  BY DEF CreateScheduleByRun, TickingOK
<1> QED
  BY <1>1, <1>2, <1>3, <1>4, Frames DEF TypeOK, CreateScheduleByRun, control, library, ledger

LEMMA EnableScheduleType ==
    ASSUME TypeOK, NEW s \in Schedules, ticking = {}, EnableSchedule(s)
    PROVE  TypeOK'
BY Frames, NextSlotType, BoundAssumption DEF TypeOK, EnableSchedule, control, library, ledger, SchedulesOK, ScheduleRecord, LiveSchedules, TickingOK

LEMMA PauseScheduleType ==
    ASSUME TypeOK, NEW s \in Schedules, ticking = {}, PauseSchedule(s)
    PROVE  TypeOK'
BY Frames, CancelRunsType, InvalidateProposalsType, PauseSchedulesType DEF TypeOK, PauseSchedule, control, library, ledger, Invalidate, TickingOK

LEMMA DeleteScheduleType ==
    ASSUME TypeOK, NEW s \in Schedules, ticking = {}, DeleteSchedule(s)
    PROVE  TypeOK'
<1>1. RunsOK' /\ ProposalsOK'
  BY CancelRunsType, InvalidateProposalsType DEF TypeOK, DeleteSchedule, Invalidate
<1>2. s \in LiveSchedules /\ {s} \in SUBSET LiveSchedules
  BY DEF DeleteSchedule
<1>3. PauseSchedules({s}) \in [Schedules -> ScheduleRecord]
  BY <1>2, PausedType DEF TypeOK
<1>4. SchedulesOK'
  <2>1. schedule[s].state # "none"
    BY <1>2 DEF LiveSchedules
  <2>2. ASSUME NEW c \in [Schedules -> ScheduleRecord],
               \A x \in Schedules :
                  /\ c[x].workspace = schedule[x].workspace
                  /\ c[x].interface = schedule[x].interface
                  /\ c[x].state = "none" <=> schedule[x].state = "none",
               schedule' = [c EXCEPT ![s].state = "deleted"]
        PROVE  SchedulesOK'
    <3>1. /\ schedule' \in [Schedules -> ScheduleRecord]
          /\ \A x \in Schedules : /\ schedule'[x].workspace = schedule[x].workspace
                                 /\ schedule'[x].interface = schedule[x].interface
          /\ \A x \in Schedules \ {s} : schedule'[x].state = c[x].state
      BY <2>2 DEF ScheduleRecord
    <3> QED
      BY <2>1, <2>2, <3>1 DEF TypeOK, SchedulesOK
  <2>3. schedule' = [PauseSchedules({s}) EXCEPT ![s].state = "deleted"]
    BY DEF DeleteSchedule
  <2> QED
    BY <1>2, <2>2, <2>3, PausedType DEF TypeOK
<1>5. TickingOK'
  BY DEF DeleteSchedule, TickingOK
<1> QED
  BY <1>1, <1>4, <1>5, Frames DEF TypeOK, DeleteSchedule, control, library, ledger

LEMMA TickStartType ==
    ASSUME TypeOK, ticking = {}, TickStart
    PROVE  TypeOK'
BY Frames DEF TypeOK, TickStart, control, library, ledger, TickingOK

LEMMA FenceModelConfigurationType ==
    ASSUME TypeOK, ticking = {}, FenceModelConfiguration
    PROVE  TypeOK'
<1>1. GrantsOK'
  <2> DEFINE revoked(g) == [grant[g] EXCEPT !.state = "revoked", !.generation = @ + 1]
  <2>1. ASSUME NEW g \in Grants, NEW n \in Nat
        PROVE  [grant[g] EXCEPT !.state = "revoked", !.generation = n] \in GrantRecord
    BY DEF TypeOK, GrantsOK, GrantRecord
  <2>2. \A g \in Grants : grant[g].generation + 1 \in Nat
    BY DEF TypeOK, GrantsOK, GrantRecord
  <2>3. \A g \in Grants : revoked(g) \in GrantRecord
    BY <2>1, <2>2
  <2>4. grant' = [g \in Grants |-> IF grant[g].state = "live" THEN revoked(g)
                                   ELSE grant[g]]
    BY DEF FenceModelConfiguration
  <2> HIDE DEF revoked
  <2> QED
    BY <2>3, <2>4 DEF TypeOK, GrantsOK
<1>2. RunsOK'
  BY CancelRunsType DEF TypeOK, FenceModelConfiguration
<1>3. SchedulesOK'
  BY PauseSchedulesType DEF TypeOK, FenceModelConfiguration, LiveSchedules
<1>4. ProposalsOK'
  <2>1. \A x \in ProposalRecord :
           [x EXCEPT !.state = "invalidated"] \in ProposalRecord
    BY DEF ProposalRecord
  <2>2. \A p \in Proposals : proposal[p] \in ProposalRecord
    BY DEF TypeOK, ProposalsOK
  <2>3. \A p \in Proposals : proposal'[p] =
           IF proposal[p].state = "pending"
           THEN [proposal[p] EXCEPT !.state = "invalidated"] ELSE proposal[p]
    BY DEF FenceModelConfiguration
  <2>4. proposal' \in [Proposals -> ProposalRecord]
    BY <2>1, <2>2, <2>3 DEF FenceModelConfiguration
  <2> QED
    BY <2>2, <2>3, <2>4 DEF TypeOK, ProposalsOK, ProposalRecord
<1>5. ToolsOK'
  BY ClearToolsType DEF TypeOK, FenceModelConfiguration
<1>6. TickingOK'
  BY DEF FenceModelConfiguration, TickingOK
<1> QED
  BY <1>1, <1>2, <1>3, <1>4, <1>5, <1>6, Frames DEF TypeOK, FenceModelConfiguration, control, library, ledger

LEMMA UnverifyType ==
    ASSUME TypeOK, ticking = {}, Unverify
    PROVE  TypeOK'
BY Frames DEF TypeOK, Unverify, control, library, ledger, ControlOK

LEMMA RefreshModelsType ==
    ASSUME TypeOK, NEW ms \in SUBSET Models, ticking = {}, RefreshModels(ms)
    PROVE  TypeOK'
BY Frames DEF TypeOK, RefreshModels, control, library, ledger, ControlOK

LEMMA ClockType ==
    ASSUME TypeOK, ticking = {}, Clock
    PROVE  TypeOK'
BY Frames DEF TypeOK, Clock, control, library, ledger, ControlOK

LEMMA TickScheduleType ==
    ASSUME TypeOK, NEW s \in Schedules, TickSchedule(s)
    PROVE  TypeOK'
<1>1. /\ s \in ticking /\ ticking' = ticking \ {s}
      /\ UNCHANGED <<control, workspace, grant, proposal, library, tool,
                     cancellation, usage>>
  BY DEF TickSchedule
<1>2. /\ schedule[s].state = "enabled"
      /\ schedule[s].workspace \in Workspaces /\ schedule[s].interface \in Interfaces
  BY <1>1 DEF TypeOK, TickingOK, SchedulesOK
<1>4. CASE TickEnds(s)
  <2>1. SchedulesOK'
    <3> DEFINE ended == [schedule[s] EXCEPT !.state = "ended", !.next = Nil]
    <3>1. /\ ended \in ScheduleRecord
          /\ ended.workspace = schedule[s].workspace
          /\ ended.interface = schedule[s].interface
      <4>1. schedule[s] \in ScheduleRecord
        BY <1>2 DEF TypeOK, SchedulesOK
      <4> QED
        BY <4>1 DEF ScheduleRecord
    <3>2. schedule' = [schedule EXCEPT ![s] = ended]
      BY <1>4 DEF TickEnds
    <3> HIDE DEF ended
    <3> QED
      BY <1>2, <3>1, <3>2 DEF TypeOK, SchedulesOK
  <2>2. TickingOK'
    BY <1>1, <1>4 DEF TypeOK, TickEnds, TickingOK, SchedulesOK
  <2>3. LedgerOK'
    BY <1>1, <1>4 DEF TypeOK, TickEnds, LedgerOK
  <2> QED
    BY <1>1, <1>4, <2>1, <2>2, <2>3, Frames DEF TypeOK, TickEnds
<1>5. CASE TickSkips(s)
  BY <1>1, <1>5, Frames DEF TypeOK, TickSkips, LedgerOK, TickingOK
<1>6. ASSUME Occurs(s), NEW what \in Outcomes, Record(s, what)
      PROVE  OccurrencesOK'
  BY <1>6 DEF TypeOK, Occurs, Due, Record, OccurrencesOK, SchedulesOK, ScheduleRecord
<1>7. /\ Advanced(s) \in [Schedules -> ScheduleRecord]
      /\ Advanced(s)[s].state = "enabled"
      /\ \A x \in Schedules : /\ Advanced(s)[x].workspace = schedule[x].workspace
                              /\ Advanced(s)[x].interface = schedule[x].interface
                              /\ Advanced(s)[x].state = schedule[x].state
  <2>1. ASSUME NEW n \in Nat \cup {Nil}
        PROVE  /\ [schedule EXCEPT ![s].next = n] \in [Schedules -> ScheduleRecord]
               /\ \A x \in Schedules :
                     /\ [schedule EXCEPT ![s].next = n][x].workspace = schedule[x].workspace
                     /\ [schedule EXCEPT ![s].next = n][x].interface = schedule[x].interface
                     /\ [schedule EXCEPT ![s].next = n][x].state = schedule[x].state
    BY DEF TypeOK, SchedulesOK, ScheduleRecord
  <2> QED
    BY <1>2, <2>1, NextSlotType, BoundAssumption DEF Advanced
<1>8. CASE TickMisses(s) \/ TickRejects(s)
  <2>1. schedule' = Advanced(s) /\ UNCHANGED <<run, rows>> /\ OccurrencesOK'
    BY <1>6, <1>8 DEF TickMisses, TickRejects, Outcomes
  <2>2. SchedulesOK' /\ TickingOK'
    BY <1>1, <1>7, <2>1 DEF TypeOK, SchedulesOK, TickingOK
  <2>3. LedgerOK'
    BY <1>1, <2>1 DEF TypeOK, LedgerOK
  <2> QED
    BY <1>1, <2>1, <2>2, <2>3, Frames DEF TypeOK
<1>9. ASSUME NEW r \in Runs, TickAdmits(s, r)
      PROVE  TypeOK'
  <2>1. /\ OccurrencesOK'
        /\ schedule' = [Advanced(s) EXCEPT ![s].runsStarted = @ + 1]
    BY <1>6, <1>9 DEF TickAdmits, Outcomes
  <2>2. SchedulesOK' /\ TickingOK'
    <3>1. Advanced(s)[s].runsStarted + 1 \in Nat
      BY <1>7 DEF ScheduleRecord
    <3>2. ASSUME NEW c \in [Schedules -> ScheduleRecord], NEW n \in Nat,
                 \A x \in Schedules : /\ c[x].workspace = schedule[x].workspace
                                      /\ c[x].interface = schedule[x].interface
                                      /\ c[x].state = schedule[x].state,
                 schedule' = [c EXCEPT ![s].runsStarted = n]
          PROVE  SchedulesOK' /\ TickingOK'
      <4>1. schedule' \in [Schedules -> ScheduleRecord]
        BY <3>2 DEF ScheduleRecord
      <4>2. \A x \in Schedules : /\ schedule'[x].workspace = schedule[x].workspace
                                 /\ schedule'[x].interface = schedule[x].interface
                                 /\ schedule'[x].state = schedule[x].state
        BY <3>2 DEF ScheduleRecord
      <4> QED
        BY <1>1, <4>1, <4>2 DEF TypeOK, SchedulesOK, TickingOK
    <3>3. schedule' = [Advanced(s) EXCEPT ![s].runsStarted = Advanced(s)[s].runsStarted + 1]
      BY <2>1
    <3> QED
      BY <1>7, <3>1, <3>2, <3>3
  <2>3. RunsOK' /\ rows' \in Nat
    <3>1. /\ schedule[s].model \in Models \cup {Nil}
          /\ schedule[s].grants \in SUBSET GrantRef /\ schedule[s].version \in Nat
          /\ interface[schedule[s].interface].rev \in Nat /\ <<>> \in Histories
      BY <1>2 DEF TypeOK, SchedulesOK, ScheduleRecord, InterfacesOK, InterfaceRecord,
                  Histories
    <3> QED
      BY <1>2, <1>9, <3>1, QueueType, BudgetAssumption DEF TypeOK, TickAdmits
  <2>4. LedgerOK'
    BY <1>1, <2>3 DEF TypeOK, LedgerOK
  <2> QED
    BY <1>1, <2>1, <2>2, <2>3, <2>4, Frames DEF TypeOK
<1> QED
  BY <1>4, <1>5, <1>8, <1>9 DEF TickSchedule

-----------------------------------------------------------------------------
(* Every step keeps the types *)

LEMMA InitType == Init => TypeOK
<1> SUFFICES ASSUME Init PROVE TypeOK
  OBVIOUS
<1>1. ControlOK /\ LedgerOK /\ TickingOK
  BY DEF Init, ControlOK, LedgerOK, TickingOK
<1>2. WorkspacesOK
  BY DEF Init, WorkspacesOK, WorkspaceRecord, Histories
<1>3. GrantsOK /\ ToolsOK
  BY DEF Init, GrantsOK, GrantRecord, NoGrant, ToolsOK, ToolRecord, NoTool
<1>4. RunsOK
  BY DEF Init, RunsOK, RunRecord, NoRun, RunStates, Histories
<1>5. ProposalsOK /\ SchedulesOK
  BY DEF Init, ProposalsOK, ProposalRecord, NoProposal, SchedulesOK,
         ScheduleRecord, NoSchedule
<1>6. InterfacesOK
  <2>1. <<>> \in [1..0 -> Revisions]
    OBVIOUS
  <2> QED
    BY <2>1 DEF Init, InterfacesOK, InterfaceRecord
<1>7. OccurrencesOK
  BY DEF Init, OccurrencesOK
<1> QED
  BY <1>1, <1>2, <1>3, <1>4, <1>5, <1>6, <1>7 DEF TypeOK

\* The references an operator may hold are references.
LEMMA CurrentRefsType ==
    ASSUME GrantsOK
    PROVE  \A refs \in SUBSET CurrentRefs : refs \in SUBSET GrantRef
BY DEF GrantsOK, GrantRecord, GrantRef, CurrentRefs

LEMMA OperatorType ==
    ASSUME TypeOK, ticking = {}, Operator
    PROVE  TypeOK'
<1>1. \A refs \in SUBSET CurrentRefs : refs \in SUBSET GrantRef
  BY CurrentRefsType DEF TypeOK
<1>2. \A i \in Interfaces : DOMAIN revision[i] \subseteq Nat
  BY DEF TypeOK, InterfacesOK, InterfaceRecord
<1> QED
  BY <1>1, <1>2, DeleteWorkspaceType, CreateGrantType, CreateRunType,
     ProposeByOperatorType, CreateScheduleType, RevokeGrantType, CancelRunType,
     PublishType, RenameInterfaceType, DeleteInterfaceType,
     RollbackInterfaceType, EnableScheduleType, PauseScheduleType,
     DeleteScheduleType
  DEF Operator

LEMMA DeviceType ==
    ASSUME TypeOK, ticking = {}, Device
    PROVE  TypeOK'
<1>1. 1..MaxClaims \subseteq Nat
  OBVIOUS
<1> QED
  BY <1>1, ClaimToolType, ToolResultType DEF Device

LEMMA SupervisorType ==
    ASSUME TypeOK, ticking = {}, Supervisor
    PROVE  TypeOK'
BY StartNextType, TickStartType, FinishCancelledType, FinishFailedType,
   FinishSucceededType, ReserveModelRequestType, ReadToolType, RequestToolType,
   ProposeByRunType, CreateScheduleByRunType
DEF Supervisor

LEMMA HostType ==
    ASSUME TypeOK, ticking = {}, Host
    PROVE  TypeOK'
<1>1. Catalogs \subseteq SUBSET Models
  BY BoundAssumption
<1> QED
  BY <1>1, UnverifyType, FenceModelConfigurationType, RefreshModelsType,
     RecoverType, ClockType
  DEF Host

LEMMA NextType == TypeOK /\ [Next]_vars => TypeOK'
<1> SUFFICES ASSUME TypeOK, [Next]_vars PROVE TypeOK'
  OBVIOUS
<1>1. CASE UNCHANGED vars
  BY <1>1, Frames DEF vars, TypeOK
<1>2. CASE Next
  BY <1>2, TickScheduleType, OperatorType, DeviceType, SupervisorType, HostType
  DEF Next
<1> QED
  BY <1>1, <1>2

\* Every reachable state is well typed: no operation, in any order, produces
\* an object its table could not hold or that belongs to nothing.
THEOREM TypeCorrect == Spec => []TypeOK
<1>1. Init => TypeOK
  BY InitType
<1>2. TypeOK /\ [Next]_vars => TypeOK'
  BY NextType
<1> QED
  BY <1>1, <1>2, PTL DEF Spec

-----------------------------------------------------------------------------
(* What ended stays ended, and what was cancelled first never starts       *)

\* The moves a step may make between a run's states: an ended run stays, a
\* cancelling one can only end, and one that does not exist appears only when
\* it was not cancelled beforehand.
RunMoves ==
    \A r \in Runs :
        /\ run[r].state \in Terminal => run'[r].state = run[r].state
        /\ run[r].state = "cancelling" =>
              run'[r].state \in {"cancelling", "cancelled", "interrupted"}
        /\ run[r].state = "none" /\ r \in cancellation => run'[r].state = "none"

LEMMA UnchangedMoves == ASSUME UNCHANGED run PROVE RunMoves
BY DEF RunMoves, Terminal

LEMMA CancelMoves ==
    ASSUME NEW R, run' = CancelRuns(R)
    PROVE  RunMoves
BY DEF RunMoves, CancelRuns, Active, Executing, Terminal

\* A run that is admitted or that moves from one working state to another.
LEMMA OneMoves ==
    ASSUME RunsOK, NEW r \in Runs, NEW new, run' = [run EXCEPT ![r] = new],
           \/ r \in Fresh
           \/ run[r].state \in {"running", "waiting_for_device"}
           \/ run[r].state = "cancelling" /\ new.state = "cancelled"
    PROVE  RunMoves
BY DEF RunMoves, RunsOK, Fresh, Terminal

LEMMA CountedMoves ==
    ASSUME RunsOK, NEW r \in Runs, run' = Counted(r)
    PROVE  RunMoves
<1>1. \A x \in Runs : run'[x].state = run[x].state
  BY CountedType
<1> QED
  BY <1>1 DEF RunMoves, Terminal

LEMMA OperatorMoves ==
    ASSUME TypeOK, Operator
    PROVE  RunMoves
<1>1. ASSUME UNCHANGED run PROVE RunMoves
  BY <1>1, UnchangedMoves
<1>2. ASSUME NEW R, Invalidate(R) PROVE RunMoves
  BY <1>2, CancelMoves DEF Invalidate
<1>3. ASSUME NEW w \in Workspaces, DeleteWorkspace(w) PROVE RunMoves
  BY <1>2, <1>3 DEF DeleteWorkspace
<1>4. ASSUME NEW g \in Grants, RevokeGrant(g) PROVE RunMoves
  BY <1>2, <1>4 DEF RevokeGrant
<1>5. ASSUME NEW r \in Runs, NEW w, NEW m, NEW refs, NEW targets, NEW import,
             CreateRun(r, w, m, refs, targets, import)
      PROVE  RunMoves
  BY <1>5, OneMoves DEF TypeOK, CreateRun, Queue
<1>6. ASSUME NEW r \in Runs, CancelRun(r) PROVE RunMoves
  BY <1>1, <1>2, <1>6 DEF CancelRun
<1>7. ASSUME NEW i \in Interfaces, DeleteInterface(i) PROVE RunMoves
  BY <1>7, CancelMoves DEF DeleteInterface
<1>8. ASSUME NEW s \in Schedules, PauseSchedule(s) \/ DeleteSchedule(s) PROVE RunMoves
  BY <1>2, <1>8 DEF PauseSchedule, DeleteSchedule
<1>9. ASSUME NEW w, NEW g, NEW c, NEW m, NEW ops, NEW e, NEW p, NEW i, NEW s,
             NEW refs, NEW n,
             \/ CreateGrant(g, w, c, m, ops, e) \/ ProposeByOperator(p, w, i)
             \/ CreateSchedule(s, w, i, m, refs, e, n)
             \/ Publish(p, i) \/ RenameInterface(i) \/ RollbackInterface(i, n)
             \/ EnableSchedule(s)
      PROVE  RunMoves
  BY <1>1, <1>9
  DEF CreateGrant, ProposeByOperator, CreateSchedule, Publish, RenameInterface,
      RollbackInterface, EnableSchedule
<1> QED
  BY <1>3, <1>4, <1>5, <1>6, <1>7, <1>8, <1>9 DEF Operator

LEMMA DeviceMoves ==
    ASSUME TypeOK, Device
    PROVE  RunMoves
<1>1. ASSUME NEW t \in Tools, NEW token, NEW outcome, ToolResult(t, token, outcome)
      PROVE  RunMoves
  <2>1. tool[t].run \in Runs /\ run[tool[t].run].state \in Unfenced
    BY <1>1 DEF TypeOK, ToolsOK, ToolResult, Fence
  <2>2. run' = [run EXCEPT ![tool[t].run].state = "running"]
    BY <1>1 DEF ToolResult
  <2> QED
    BY <2>1, <2>2 DEF TypeOK, RunsOK, RunMoves, Unfenced, Terminal
<1> QED
  BY <1>1, UnchangedMoves DEF Device, ClaimTool

LEMMA SupervisorMoves ==
    ASSUME TypeOK, Supervisor
    PROVE  RunMoves
<1>1. ASSUME UNCHANGED run PROVE RunMoves
  BY <1>1, UnchangedMoves
<1>2. ASSUME StartNext PROVE RunMoves
  BY <1>2 DEF StartNext, Oldest, Queued, RunMoves, Terminal
<1>3. ASSUME NEW r \in Runs, FinishCancelled(r) PROVE RunMoves
  BY <1>3 DEF TypeOK, RunsOK, FinishCancelled, RunMoves, Terminal
<1>4. ASSUME NEW r \in Runs, FinishFailed(r) \/ FinishSucceeded(r) PROVE RunMoves
  BY <1>4 DEF TypeOK, RunsOK, FinishFailed, FinishSucceeded, RunMoves, Terminal
<1>5. ASSUME NEW r \in Runs, ReserveModelRequest(r) PROVE RunMoves
  <2>1. run' = [run EXCEPT ![r].requests = run[r].requests + 1]
    BY <1>5 DEF ReserveModelRequest
  <2>2. \A x \in Runs : run'[x].state = run[x].state
    BY <2>1 DEF TypeOK, RunsOK, RunRecord
  <2> QED
    BY <2>2 DEF RunMoves, Terminal
<1>6. ASSUME NEW r \in Runs, run' = Counted(r) PROVE RunMoves
  BY <1>6, CountedMoves DEF TypeOK
<1>7. ASSUME NEW r \in Runs, NEW t \in Tools, NEW op, RequestTool(r, t, op)
      PROVE  RunMoves
  <2>1. /\ run[r].state = "running"
        /\ run' = [Counted(r) EXCEPT ![r].state = "waiting_for_device"]
    BY <1>7 DEF RequestTool, Calling
  <2>2. \A x \in Runs \ {r} : run'[x].state = run[x].state
    BY <2>1, CountedType DEF TypeOK
  <2> QED
    BY <2>1, <2>2 DEF RunMoves, Terminal
<1> QED
  BY <1>1, <1>2, <1>3, <1>4, <1>5, <1>6, <1>7
  DEF Supervisor, TickStart, ReadTool, ProposeByRun, CreateScheduleByRun

LEMMA HostMoves ==
    ASSUME TypeOK, Host
    PROVE  RunMoves
<1>1. ASSUME NEW ms, NEW b, Recover(ms, b) PROVE RunMoves
  BY <1>1 DEF TypeOK, RunsOK, Recover, RunMoves, Executing, Terminal
<1> QED
  BY <1>1, UnchangedMoves, CancelMoves
  DEF Host, Unverify, RefreshModels, Clock, FenceModelConfiguration

LEMMA TickMoves ==
    ASSUME TypeOK, NEW s \in Schedules, TickSchedule(s)
    PROVE  RunMoves
<1>1. ASSUME NEW r \in Runs, TickAdmits(s, r) PROVE RunMoves
  BY <1>1, OneMoves DEF TypeOK, TickAdmits, Queue
<1> QED
  BY <1>1, UnchangedMoves
  DEF TickSchedule, TickEnds, TickSkips, TickMisses, TickRejects

LEMMA NextMoves == TypeOK /\ [Next]_vars => RunMoves
<1> SUFFICES ASSUME TypeOK, [Next]_vars PROVE RunMoves
  OBVIOUS
<1>1. CASE UNCHANGED vars
  BY <1>1, UnchangedMoves DEF vars
<1>2. CASE Next
  BY <1>2, TickMoves, OperatorMoves, DeviceMoves, SupervisorMoves, HostMoves DEF Next
<1> QED
  BY <1>1, <1>2

\* Cancellation, completion, restart and configuration changes never bring a
\* stopped run back, whatever order they come in.
THEOREM StoppedForGood == Spec => Irrevocable
<1>1. TypeOK /\ [Next]_vars =>
        [\A r \in Runs :
          /\ run[r].state \in Terminal => run'[r].state = run[r].state
          /\ run[r].state = "cancelling" =>
                run'[r].state \in {"cancelling", "cancelled", "interrupted"}]_vars
  BY NextMoves DEF RunMoves
<1> QED
  BY <1>1, TypeCorrect, PTL DEF Spec, Irrevocable

\* A cancellation that overtakes its run's admission prevents it.
THEOREM CancellationFirst == Spec => []CancelledNeverAdmitted
<1>1. Init => CancelledNeverAdmitted
  BY DEF Init, CancelledNeverAdmitted
<1>2. TypeOK /\ CancelledNeverAdmitted /\ [Next]_vars => CancelledNeverAdmitted'
  <2> SUFFICES ASSUME TypeOK, CancelledNeverAdmitted, [Next]_vars
               PROVE  CancelledNeverAdmitted'
    OBVIOUS
  <2>1. RunMoves /\ cancellation \subseteq Runs
    BY NextMoves DEF TypeOK, LedgerOK
  <2>2. CASE UNCHANGED cancellation
    BY <2>1, <2>2 DEF CancelledNeverAdmitted, RunMoves
  <2>3. ASSUME NEW r \in Runs, CancelRun(r)
        PROVE  CancelledNeverAdmitted'
    <3>1. CASE UNCHANGED cancellation
      BY <2>2, <3>1
    <3>2. CASE ~UNCHANGED cancellation
      BY <2>3, <3>2 DEF CancelRun, CancelledNeverAdmitted
    <3> QED
      BY <3>1, <3>2
  <2>4. UNCHANGED cancellation \/ \E r \in Runs : CancelRun(r)
    <3>1. CASE Operator
      <4>1. ASSUME NEW w, NEW r, NEW g, NEW c, NEW m, NEW refs, NEW targets,
                   NEW import, NEW ops, NEW e, NEW n, NEW p, NEW i, NEW s,
                   \/ DeleteWorkspace(w) \/ CreateGrant(g, w, c, m, ops, e)
                   \/ CreateRun(r, w, m, refs, targets, import)
                   \/ ProposeByOperator(p, w, i)
                   \/ CreateSchedule(s, w, i, m, refs, e, n)
            PROVE  UNCHANGED cancellation
        BY <4>1 DEF DeleteWorkspace, CreateGrant, CreateRun, ProposeByOperator,
                    CreateSchedule, ledger
      <4>2. ASSUME NEW g, NEW p, NEW i, NEW n, NEW s,
                   \/ RevokeGrant(g) \/ Publish(p, i) \/ RenameInterface(i)
                   \/ DeleteInterface(i) \/ RollbackInterface(i, n)
                   \/ EnableSchedule(s) \/ PauseSchedule(s) \/ DeleteSchedule(s)
            PROVE  UNCHANGED cancellation
        BY <4>2 DEF RevokeGrant, Publish, RenameInterface, DeleteInterface,
                    RollbackInterface, EnableSchedule, PauseSchedule,
                    DeleteSchedule, ledger
      <4> QED
        BY <3>1, <4>1, <4>2 DEF Operator
    <3>2. CASE Supervisor
      <4>1. ASSUME NEW r, NEW t, NEW op, NEW p, NEW i, NEW s, NEW e, NEW n,
                   \/ StartNext \/ TickStart \/ FinishCancelled(r)
                   \/ FinishFailed(r) \/ FinishSucceeded(r)
            PROVE  UNCHANGED cancellation
        BY <4>1 DEF StartNext, TickStart, FinishCancelled, FinishFailed,
                    FinishSucceeded, ledger
      <4>2. ASSUME NEW r, NEW t, NEW op, NEW p, NEW i, NEW s, NEW e, NEW n,
                   \/ ReserveModelRequest(r) \/ ReadTool(r) \/ RequestTool(r, t, op)
                   \/ ProposeByRun(p, r, i) \/ CreateScheduleByRun(s, r, i, e, n)
            PROVE  UNCHANGED cancellation
        BY <4>2 DEF ReserveModelRequest, ReadTool, RequestTool, ProposeByRun,
                    CreateScheduleByRun, ledger
      <4> QED
        BY <3>2, <4>1, <4>2 DEF Supervisor
    <3>3. CASE Host \/ Device
      BY <3>3 DEF Host, Device, Unverify, FenceModelConfiguration, RefreshModels,
        Recover, Clock, ClaimTool, ToolResult, ledger
    <3> QED
      BY <3>1, <3>2, <3>3 DEF Next, TickSchedule, vars, ledger
  <2> QED
    BY <2>2, <2>3, <2>4
<1> QED
  BY <1>1, <1>2, TypeCorrect, PTL DEF Spec

-----------------------------------------------------------------------------
(***************************************************************************)
(* Revocation reaches everything: for every instance, a run that can still *)
(* have an effect, and a schedule that can still admit one, holds all the  *)
(* authority it was given.  Both invariants are inductive beside TypeOK.   *)
(***************************************************************************)

(* Steps that leave the work of every run as it was *)

\* Whatever can have an effect after the step could before, for the same
\* workspace, model, grants, interfaces and schedule.
SameWork(r) ==
    /\ run[r].state \in Unfenced
    /\ run'[r].workspace = run[r].workspace /\ run'[r].model = run[r].model
    /\ run'[r].grants = run[r].grants /\ run'[r].interfaces = run[r].interfaces
    /\ run'[r].schedule = run[r].schedule
NoNewWork == \A r \in Runs : run'[r].state \in Unfenced => SameWork(r)

\* Nothing live is taken away or changed.
NothingRevoked ==
    /\ \A w \in Workspaces : LiveWorkspace(w) => LiveWorkspace(w)'
    /\ \A i \in Interfaces : LiveInterface(i) => LiveInterface(i)'
    /\ \A g \in Grants : grant[g].state = "live" => grant'[g] = grant[g]

LEMMA UnchangedWork == ASSUME UNCHANGED run PROVE NoNewWork
BY DEF NoNewWork, SameWork

LEMMA UnchangedAuthority ==
    ASSUME UNCHANGED <<workspace, interface, grant>>
    PROVE  NothingRevoked
BY DEF NothingRevoked, LiveWorkspace, LiveInterface

\* invalidate: what it reaches can have no further effect.
LEMMA CancelledWork ==
    ASSUME NEW R, run' = CancelRuns(R)
    PROVE  \A r \in Runs : run'[r].state \in Unfenced => SameWork(r) /\ r \notin R
BY DEF CancelRuns, Active, Executing, Unfenced, SameWork

LEMMA CountedWork ==
    ASSUME RunsOK, NEW r \in Runs, run' = Counted(r)
    PROVE  NoNewWork
<1>1. ASSUME NEW n, run' = [run EXCEPT ![r].toolCalls = n]
      PROVE  NoNewWork
  BY <1>1 DEF RunsOK, RunRecord, NoNewWork, SameWork
<1> QED
  BY <1>1 DEF Counted

\* A run that moves to another state, from one that can have an effect.
LEMMA MovedWork ==
    ASSUME RunsOK, NEW r \in Runs, NEW st, run' = [run EXCEPT ![r].state = st],
           run[r].state \in Unfenced \/ st \notin Unfenced
    PROVE  NoNewWork
BY DEF RunsOK, RunRecord, NoNewWork, SameWork

\* propose and create_schedule may create a workspace, never revive one.
LEMMA TouchedAuthority ==
    ASSUME TypeOK, NEW w \in Workspaces, workspace' = Touched(w),
           UNCHANGED <<interface, grant>>
    PROVE  NothingRevoked
BY DEF TypeOK, WorkspacesOK, WorkspaceRecord, Touched, NothingRevoked,
       LiveWorkspace, LiveInterface

\* write_interface leaves every interface that is live live.
LEMMA WrittenAuthority ==
    ASSUME TypeOK, NEW i, NEW spec, NEW by, WriteInterface(i, spec, by),
           UNCHANGED <<workspace, grant>>
    PROVE  NothingRevoked
BY DEF TypeOK, InterfacesOK, WriteInterface, NothingRevoked, LiveWorkspace,
       LiveInterface

-----------------------------------------------------------------------------
(* Runs *)

\* The objects a run names exist.
LEMMA RunNames ==
    ASSUME TypeOK, NEW r \in Runs, run[r].state # "none"
    PROVE  /\ run[r].workspace \in Workspaces /\ run[r].interfaces \subseteq Interfaces
           /\ \A x \in run[r].grants : x.id \in Grants
BY DEF TypeOK, RunsOK, RunRecord, GrantRef

LEMMA AuthorityKept ==
    ASSUME TypeOK, EffectsNeedAuthority, NoNewWork, NothingRevoked
    PROVE  EffectsNeedAuthority'
<1> SUFFICES ASSUME NEW r \in Runs, run'[r].state \in Unfenced
             PROVE  HoldsAuthority(r)'
  BY DEF EffectsNeedAuthority, Unfenced
<1>1. SameWork(r) /\ HoldsAuthority(r)
  BY DEF NoNewWork, SameWork, EffectsNeedAuthority
<1>2. /\ run[r].workspace \in Workspaces /\ run[r].interfaces \subseteq Interfaces
      /\ \A x \in run[r].grants : x.id \in Grants
  BY <1>1, RunNames DEF SameWork, Unfenced
<1> QED
  BY <1>1, <1>2 DEF SameWork, HoldsAuthority, NothingRevoked, LiveWorkspace, LiveInterface

\* Invalidation of every run that loses authority keeps the rest authorised.
LEMMA AuthorityInvalidated ==
    ASSUME TypeOK, EffectsNeedAuthority, NEW R, run' = CancelRuns(R),
           \A r \in Runs : run[r].state \in Unfenced /\ r \notin R =>
              /\ LiveWorkspace(run[r].workspace) =>
                    workspace'[run[r].workspace].state = "live"
              /\ \A i \in run[r].interfaces : LiveInterface(i) => LiveInterface(i)'
              /\ \A x \in run[r].grants : grant'[x.id] = grant[x.id]
    PROVE  EffectsNeedAuthority'
<1> SUFFICES ASSUME NEW r \in Runs, run'[r].state \in Unfenced
             PROVE  HoldsAuthority(r)'
  BY DEF EffectsNeedAuthority, Unfenced
<1>1. SameWork(r) /\ HoldsAuthority(r) /\ r \notin R
  BY CancelledWork DEF SameWork, EffectsNeedAuthority
<1> QED
  BY <1>1 DEF SameWork, HoldsAuthority, LiveWorkspace, LiveInterface

\* Admission checks exactly the authority a run needs.
LEMMA AuthorityAdmitted ==
    ASSUME TypeOK, EffectsNeedAuthority, NEW r \in Runs, NEW w \in Workspaces,
           NEW m, NEW refs \in SUBSET GrantRef, NEW targets \in SUBSET Interfaces,
           NEW h, NEW s, NEW v, NEW rev,
           Queue(r, w, m, refs, targets, h, s, v, rev), CheckGrants(w, m, refs),
           \A i \in targets : LiveInterface(i),
           NothingRevoked, LiveWorkspace(w)'
    PROVE  EffectsNeedAuthority'
<1> SUFFICES ASSUME NEW x \in Runs, run'[x].state \in Unfenced
             PROVE  HoldsAuthority(x)'
  BY DEF EffectsNeedAuthority, Unfenced
<1>1. CASE x = r
  <2>1. /\ run'[r].workspace = w /\ run'[r].model = m /\ run'[r].grants = refs
        /\ run'[r].interfaces = targets
    BY DEF Queue, NoRun, TypeOK, RunsOK
  <2> QED
    BY <1>1, <2>1 DEF HoldsAuthority, CheckGrants, NothingRevoked, GrantRef,
                      LiveInterface, LiveWorkspace
<1>2. CASE x # r
  <2>1. run'[x] = run[x] /\ HoldsAuthority(x)
    BY <1>2 DEF Queue, TypeOK, RunsOK, EffectsNeedAuthority
  <2>2. /\ run[x].workspace \in Workspaces /\ run[x].interfaces \subseteq Interfaces
        /\ \A y \in run[x].grants : y.id \in Grants
    BY <2>1, RunNames DEF Unfenced
  <2> QED
    BY <2>1, <2>2 DEF HoldsAuthority, NothingRevoked, LiveWorkspace, LiveInterface
<1> QED
  BY <1>1, <1>2

-----------------------------------------------------------------------------
(* Schedules *)

Authorized == EffectsNeedAuthority /\ SchedulesNeedAuthority

LEMMA ScheduleNames ==
    ASSUME TypeOK, NEW s \in Schedules, schedule[s].state # "none"
    PROVE  /\ schedule[s].workspace \in Workspaces
           /\ schedule[s].interface \in Interfaces
           /\ \A x \in schedule[s].grants : x.id \in Grants
BY DEF TypeOK, SchedulesOK, ScheduleRecord, GrantRef

\* A schedule is what it was, for the same workspace, interface and grants.
SameSchedule(s) ==
    /\ schedule'[s].state = schedule[s].state
    /\ schedule'[s].workspace = schedule[s].workspace
    /\ schedule'[s].interface = schedule[s].interface
    /\ schedule'[s].grants = schedule[s].grants

\* Schedules stay, or one that nothing enabled depends on changes.
LEMMA SchedulesKept ==
    ASSUME TypeOK, SchedulesNeedAuthority, NoNewWork, NothingRevoked,
           \A s \in Schedules : \/ SameSchedule(s)
                                \/ schedule[s].state = "none" /\ schedule'[s].state = "paused"
                                \/ schedule[s].state = "enabled" /\ schedule'[s].state = "ended"
    PROVE  SchedulesNeedAuthority'
<1>1. ASSUME NEW s \in Schedules, schedule'[s].state = "enabled"
      PROVE  ScheduleHoldsAuthority(s)'
  <2>1. SameSchedule(s) /\ schedule[s].state = "enabled" /\ ScheduleHoldsAuthority(s)
    BY <1>1 DEF SchedulesNeedAuthority, SameSchedule
  <2> QED
    BY <2>1, ScheduleNames
    DEF SameSchedule, ScheduleHoldsAuthority, NothingRevoked, LiveWorkspace, LiveInterface
<1>2. ASSUME NEW r \in Runs, run'[r].state \in Unfenced, run'[r].schedule # Nil
      PROVE  schedule'[run'[r].schedule].state \in {"enabled", "ended"}
  <2>1. /\ SameWork(r) /\ run[r].schedule \in Schedules
        /\ schedule[run[r].schedule].state \in {"enabled", "ended"}
    BY <1>2 DEF NoNewWork, SameWork, SchedulesNeedAuthority, TypeOK, RunsOK, RunRecord
  <2> QED
    BY <2>1 DEF SameWork, SameSchedule
<1> QED
  BY <1>1, <1>2 DEF SchedulesNeedAuthority, Unfenced

\* What loses its authority is paused, with every run it started.
LEMMA SchedulesPaused ==
    ASSUME TypeOK, SchedulesNeedAuthority, NEW S \in SUBSET LiveSchedules, NEW R,
           RunsOf(S) \subseteq R, run' = CancelRuns(R),
           \/ schedule' = PauseSchedules(S)
           \/ \E d \in S : schedule' = [PauseSchedules(S) EXCEPT ![d].state = "deleted"],
           \A s \in Schedules \ S : schedule[s].state = "enabled" =>
              /\ LiveWorkspace(schedule[s].workspace) =>
                    workspace'[schedule[s].workspace].state = "live"
              /\ LiveInterface(schedule[s].interface) =>
                    interface'[schedule[s].interface].state = "live"
              /\ \A x \in schedule[s].grants : grant'[x.id] = grant[x.id]
    PROVE  SchedulesNeedAuthority'
<1>1. ASSUME NEW s \in Schedules
      PROVE  IF s \in S THEN schedule'[s].state \in {"paused", "deleted"}
             ELSE schedule'[s] = schedule[s]
  <2>1. S \subseteq Schedules
    BY DEF LiveSchedules
  <2> DEFINE paused(x) == [schedule[x] EXCEPT !.state = "paused",
                                              !.version = @ + 1, !.next = Nil]
  <2>2. PauseSchedules(S) = [x \in Schedules |-> IF x \in S THEN paused(x) ELSE schedule[x]]
    BY DEF PauseSchedules
  <2>3. \A x \in S : paused(x).state = "paused"
    BY <2>1 DEF TypeOK, SchedulesOK, ScheduleRecord
  <2> HIDE DEF paused
  <2>4. CASE schedule' = PauseSchedules(S)
    BY <2>2, <2>3, <2>4
  <2>5. ASSUME NEW d \in S, schedule' = [PauseSchedules(S) EXCEPT ![d].state = "deleted"]
        PROVE  IF s \in S THEN schedule'[s].state \in {"paused", "deleted"}
               ELSE schedule'[s] = schedule[s]
    <3>1. CASE s = d
      <4>1. PauseSchedules(S)[d] \in ScheduleRecord
        BY <2>1, PausedType DEF TypeOK
      <4>2. schedule'[d] = [PauseSchedules(S)[d] EXCEPT !.state = "deleted"]
        BY <2>1, <2>2, <2>5
      <4>3. schedule'[d].state = "deleted"
        BY <4>1, <4>2 DEF ScheduleRecord
      <4> QED
        BY <3>1, <4>3
    <3>2. CASE s # d
      BY <2>2, <2>3, <2>5, <3>2
    <3> QED
      BY <3>1, <3>2
  <2> QED
    BY <2>4, <2>5
<1>2. ASSUME NEW s \in Schedules, schedule'[s].state = "enabled"
      PROVE  ScheduleHoldsAuthority(s)'
  <2>1. s \notin S /\ schedule'[s] = schedule[s] /\ ScheduleHoldsAuthority(s)
    BY <1>1, <1>2 DEF SchedulesNeedAuthority
  <2> QED
    BY <1>2, <2>1 DEF ScheduleHoldsAuthority, LiveWorkspace, LiveInterface
<1>3. ASSUME NEW r \in Runs, run'[r].state \in Unfenced, run'[r].schedule # Nil
      PROVE  schedule'[run'[r].schedule].state \in {"enabled", "ended"}
  <2>1. SameWork(r) /\ r \notin R
    BY <1>3, CancelledWork
  <2>2. /\ run[r].schedule \in Schedules /\ run[r].schedule \notin S
        /\ schedule[run[r].schedule].state \in {"enabled", "ended"}
    BY <1>3, <2>1 DEF SameWork, SchedulesNeedAuthority, RunsOf, TypeOK, RunsOK, RunRecord
  <2> QED
    BY <1>1, <2>1, <2>2 DEF SameWork
<1> QED
  BY <1>2, <1>3 DEF SchedulesNeedAuthority, Unfenced

\* A step that revokes nothing and starts nothing new.
LEMMA Kept ==
    ASSUME TypeOK, Authorized, NoNewWork, NothingRevoked, UNCHANGED schedule
    PROVE  Authorized'
<1>1. \A s \in Schedules : SameSchedule(s)
  BY DEF SameSchedule
<1> QED
  BY <1>1, AuthorityKept, SchedulesKept DEF Authorized

-----------------------------------------------------------------------------
(* Every operation keeps both *)

LEMMA WorkspaceSteps ==
    ASSUME TypeOK, Authorized, NEW w \in Workspaces, DeleteWorkspace(w)
    PROVE  Authorized'
<1> DEFINE paused == {s \in LiveSchedules : schedule[s].workspace = w}
           R == {r \in Runs : run[r].workspace = w} \cup RunsOf(paused)
<1>1. /\ run' = CancelRuns(R) /\ schedule' = PauseSchedules(paused)
      /\ UNCHANGED <<interface, grant>>
      /\ workspace' = [workspace EXCEPT ![w] =
             [@ EXCEPT !.state = "deleted", !.history = <<>>]]
  BY DEF DeleteWorkspace, Invalidate, library
<1>2. paused \in SUBSET LiveSchedules /\ RunsOf(paused) \subseteq R
  OBVIOUS
<1>3. \A x \in Workspaces \ {w} : workspace'[x] = workspace[x]
  BY <1>1 DEF TypeOK, WorkspacesOK
<1>4. EffectsNeedAuthority'
  <2>1. \A r \in Runs : run[r].state \in Unfenced /\ r \notin R =>
            run[r].workspace \in Workspaces \ {w}
    BY RunNames DEF Unfenced
  <2> HIDE DEF R
  <2> QED
    BY <1>1, <1>3, <2>1, AuthorityInvalidated DEF Authorized, LiveWorkspace, LiveInterface
<1>5. SchedulesNeedAuthority'
  <2>1. \A s \in Schedules \ paused : schedule[s].state = "enabled" =>
            schedule[s].workspace \in Workspaces \ {w}
    BY ScheduleNames DEF LiveSchedules
  <2> HIDE DEF R, paused
  <2> QED
    BY <1>1, <1>2, <1>3, <2>1, SchedulesPaused DEF Authorized, LiveWorkspace, LiveInterface
<1> QED
  BY <1>4, <1>5 DEF Authorized

\* A new grant is one nothing live refers to yet.
LEMMA CreateGrantStep ==
    ASSUME TypeOK, Authorized, NEW g \in Grants, NEW w \in Workspaces, NEW c, NEW m,
           NEW ops, NEW e, CreateGrant(g, w, c, m, ops, e)
    PROVE  Authorized'
<1>1. NoNewWork /\ UNCHANGED schedule
  BY UnchangedWork DEF CreateGrant
<1>2. NothingRevoked
  BY DEF CreateGrant, NothingRevoked, TypeOK, GrantsOK, WorkspacesOK, Touched,
         WorkspaceRecord, LiveWorkspace, LiveInterface, library
<1> QED
  BY <1>1, <1>2, Kept

LEMMA RevokeGrantStep ==
    ASSUME TypeOK, Authorized, NEW g \in Grants, RevokeGrant(g)
    PROVE  Authorized'
<1> DEFINE paused == {s \in LiveSchedules : \E x \in schedule[s].grants : x.id = g}
           R == {r \in Runs : \E x \in run[r].grants : x.id = g} \cup RunsOf(paused)
<1>1. /\ run' = CancelRuns(R) /\ schedule' = PauseSchedules(paused)
      /\ UNCHANGED <<workspace, interface>>
      /\ \A x \in Grants \ {g} : grant'[x] = grant[x]
  BY DEF RevokeGrant, Invalidate, library, TypeOK, GrantsOK
<1>2. paused \in SUBSET LiveSchedules /\ RunsOf(paused) \subseteq R
  OBVIOUS
<1>3. EffectsNeedAuthority'
  <2>1. \A r \in Runs : run[r].state \in Unfenced /\ r \notin R =>
            \A x \in run[r].grants : x.id \in Grants \ {g}
    BY RunNames DEF Unfenced
  <2> HIDE DEF R
  <2> QED
    BY <1>1, <2>1, AuthorityInvalidated DEF Authorized, LiveWorkspace, LiveInterface
<1>4. SchedulesNeedAuthority'
  <2>1. \A s \in Schedules \ paused : schedule[s].state = "enabled" =>
            \A x \in schedule[s].grants : x.id \in Grants \ {g}
    BY ScheduleNames DEF LiveSchedules
  <2> HIDE DEF R, paused
  <2> QED
    BY <1>1, <1>2, <2>1, SchedulesPaused DEF Authorized, LiveWorkspace, LiveInterface
<1> QED
  BY <1>3, <1>4 DEF Authorized

LEMMA DeleteInterfaceStep ==
    ASSUME TypeOK, Authorized, NEW i \in Interfaces, DeleteInterface(i)
    PROVE  Authorized'
<1> DEFINE paused == {s \in LiveSchedules : schedule[s].interface = i}
           R == {r \in Runs : i \in run[r].interfaces} \cup RunsOf(paused)
<1>1. /\ run' = CancelRuns(R) /\ schedule' = PauseSchedules(paused)
      /\ UNCHANGED <<workspace, grant>>
      /\ \A x \in Interfaces \ {i} : interface'[x] = interface[x]
  BY DEF DeleteInterface, TypeOK, InterfacesOK
<1>2. paused \in SUBSET LiveSchedules /\ RunsOf(paused) \subseteq R
  OBVIOUS
<1>3. EffectsNeedAuthority'
  <2>1. \A r \in Runs : run[r].state \in Unfenced /\ r \notin R =>
            run[r].interfaces \subseteq Interfaces \ {i}
    BY RunNames DEF Unfenced
  <2> HIDE DEF R
  <2> QED
    BY <1>1, <2>1, AuthorityInvalidated DEF Authorized, LiveWorkspace, LiveInterface
<1>4. SchedulesNeedAuthority'
  <2>1. \A s \in Schedules \ paused : schedule[s].state = "enabled" =>
            schedule[s].interface \in Interfaces \ {i}
    BY ScheduleNames DEF LiveSchedules
  <2> HIDE DEF R, paused
  <2> QED
    BY <1>1, <1>2, <2>1, SchedulesPaused DEF Authorized, LiveWorkspace, LiveInterface
<1> QED
  BY <1>3, <1>4 DEF Authorized

LEMMA PauseSteps ==
    ASSUME TypeOK, Authorized, NEW s \in Schedules, PauseSchedule(s) \/ DeleteSchedule(s)
    PROVE  Authorized'
<1>1. /\ run' = CancelRuns(RunsOf({s})) /\ {s} \in SUBSET LiveSchedules
      /\ \/ schedule' = PauseSchedules({s})
         \/ \E d \in {s} : schedule' = [PauseSchedules({s}) EXCEPT ![d].state = "deleted"]
      /\ UNCHANGED <<workspace, interface, grant>>
  BY DEF PauseSchedule, DeleteSchedule, Invalidate, library
<1>2. EffectsNeedAuthority'
  BY <1>1, AuthorityInvalidated DEF Authorized, LiveWorkspace, LiveInterface
<1>3. SchedulesNeedAuthority'
  BY <1>1, SchedulesPaused DEF Authorized, LiveWorkspace, LiveInterface
<1> QED
  BY <1>2, <1>3 DEF Authorized

\* Every run is cancelled, so no run is left to need what is revoked.
LEMMA FenceStep ==
    ASSUME TypeOK, Authorized, FenceModelConfiguration
    PROVE  Authorized'
<1> DEFINE enabled == {s \in Schedules : schedule[s].state = "enabled"}
<1>1. /\ run' = CancelRuns(Runs) /\ schedule' = PauseSchedules(enabled)
      /\ enabled \in SUBSET LiveSchedules /\ RunsOf(enabled) \subseteq Runs
  BY DEF FenceModelConfiguration, LiveSchedules, RunsOf
<1>2. EffectsNeedAuthority'
  BY <1>1, AuthorityInvalidated DEF Authorized
<1>3. SchedulesNeedAuthority'
  <2>1. \A s \in Schedules \ enabled : schedule[s].state # "enabled"
    OBVIOUS
  <2> HIDE DEF enabled
  <2> QED
    BY <1>1, <2>1, SchedulesPaused DEF Authorized
<1> QED
  BY <1>2, <1>3 DEF Authorized

LEMMA CreateRunStep ==
    ASSUME TypeOK, Authorized, NEW r \in Runs, NEW w \in Workspaces, NEW m,
           NEW refs \in SUBSET GrantRef, NEW targets \in SUBSET Interfaces,
           NEW import, CreateRun(r, w, m, refs, targets, import)
    PROVE  Authorized'
<1>1. PICK h : /\ workspace' = [workspace EXCEPT ![w] =
                     [state |-> "live", admitted |-> TRUE, history |-> h]]
               /\ Queue(r, w, m, refs, targets, h, Nil, 0, 0)
               /\ Admissible(w, m, refs, targets)
               /\ UNCHANGED <<interface, grant, schedule>>
  BY DEF CreateRun, library
<1>2. NothingRevoked /\ LiveWorkspace(w)'
  BY <1>1 DEF NothingRevoked, TypeOK, WorkspacesOK, LiveWorkspace, LiveInterface
<1>3. EffectsNeedAuthority'
  BY <1>1, <1>2, AuthorityAdmitted DEF Authorized, Admissible
<1>4. SchedulesNeedAuthority'
  <2>1. /\ run'[r].schedule = Nil
        /\ \A x \in Runs \ {r} : run'[x] = run[x]
    BY <1>1 DEF Queue, NoRun, TypeOK, RunsOK
  <2>2. ASSUME NEW s \in Schedules, schedule[s].state = "enabled"
        PROVE  ScheduleHoldsAuthority(s)'
    BY <1>1, <1>2, <2>2, ScheduleNames
    DEF Authorized, SchedulesNeedAuthority, ScheduleHoldsAuthority, NothingRevoked,
        LiveWorkspace, LiveInterface
  <2> QED
    BY <1>1, <2>1, <2>2 DEF Authorized, SchedulesNeedAuthority, Unfenced
<1> QED
  BY <1>3, <1>4 DEF Authorized

LEMMA CancelRunStep ==
    ASSUME TypeOK, Authorized, NEW r \in Runs, CancelRun(r)
    PROVE  Authorized'
<1>1. NothingRevoked /\ UNCHANGED schedule
  BY UnchangedAuthority DEF CancelRun, library
<1>2. NoNewWork
  BY UnchangedWork, CancelledWork DEF CancelRun, Invalidate, NoNewWork
<1> QED
  BY <1>1, <1>2, Kept

\* A schedule starts paused, so it needs no authority yet.
LEMMA CreateScheduleSteps ==
    ASSUME TypeOK, Authorized, NEW s \in Schedules, NoNewWork, NothingRevoked,
           schedule[s].state = "none", NEW w, NEW i, NEW m, NEW refs, NEW end, NEW limit,
           schedule' = [schedule EXCEPT ![s] = NewSchedule(w, i, m, refs, end, limit)]
    PROVE  Authorized'
<1>1. schedule'[s].state = "paused"
  BY DEF TypeOK, SchedulesOK, NewSchedule, NoSchedule
<1>2. \A x \in Schedules \ {s} : SameSchedule(x)
  BY DEF TypeOK, SchedulesOK, SameSchedule
<1> QED
  BY <1>1, <1>2, AuthorityKept, SchedulesKept DEF Authorized

\* Enabling checks exactly the authority an enabled schedule needs.
LEMMA EnableStep ==
    ASSUME TypeOK, Authorized, NEW s \in Schedules, EnableSchedule(s)
    PROVE  Authorized'
<1>1. UNCHANGED <<run, workspace, interface, grant>>
  BY DEF EnableSchedule, library
<1>2. EffectsNeedAuthority'
  BY <1>1 DEF Authorized, EffectsNeedAuthority, HoldsAuthority, LiveWorkspace, LiveInterface
<1>3. ASSUME NEW n, NEW v,
             schedule' = [schedule EXCEPT ![s].state = "enabled", ![s].version = v,
                                          ![s].next = n]
      PROVE  SchedulesNeedAuthority'
  <2>1. /\ schedule'[s].state = "enabled"
        /\ schedule'[s].workspace = schedule[s].workspace
        /\ schedule'[s].interface = schedule[s].interface
        /\ schedule'[s].grants = schedule[s].grants
        /\ \A x \in Schedules \ {s} : schedule'[x] = schedule[x]
    BY <1>3 DEF TypeOK, SchedulesOK, ScheduleRecord
  <2>2. ScheduleHoldsAuthority(s)'
    <3>1. /\ LiveWorkspace(schedule[s].workspace) /\ LiveInterface(schedule[s].interface)
          /\ \A x \in schedule[s].grants :
                grant[x.id].state = "live" /\ grant[x.id].generation = x.generation
      BY DEF EnableSchedule, CheckGrants
    <3> QED
      BY <1>1, <2>1, <3>1 DEF ScheduleHoldsAuthority, LiveWorkspace, LiveInterface
  <2>3. ASSUME NEW x \in Schedules \ {s}, schedule[x].state = "enabled"
        PROVE  ScheduleHoldsAuthority(x)'
    BY <1>1, <2>1, <2>3 DEF Authorized, SchedulesNeedAuthority, ScheduleHoldsAuthority,
                            LiveWorkspace, LiveInterface
  <2>4. \A r \in Runs : run[r].schedule # Nil => run[r].schedule \in Schedules
    BY DEF TypeOK, RunsOK, RunRecord
  <2> QED
    BY <1>1, <2>1, <2>2, <2>3, <2>4 DEF Authorized, SchedulesNeedAuthority
<1> QED
  BY <1>2, <1>3 DEF EnableSchedule, Authorized


LEMMA TickStep ==
    ASSUME TypeOK, Authorized, NEW s \in Schedules, TickSchedule(s)
    PROVE  Authorized'
<1>1. /\ schedule[s].state = "enabled" /\ ScheduleHoldsAuthority(s)
      /\ UNCHANGED <<workspace, interface, grant>>
  BY DEF TickSchedule, TypeOK, TickingOK, Authorized, SchedulesNeedAuthority, library
<1>2. NothingRevoked
  BY <1>1, UnchangedAuthority
<1>3. CASE TickSkips(s)
  BY <1>2, <1>3, UnchangedWork, Kept DEF TickSkips
<1>4. CASE TickEnds(s)
  <2>1. schedule' = [schedule EXCEPT ![s] = [@ EXCEPT !.state = "ended", !.next = Nil]]
    BY <1>4 DEF TickEnds
  <2>2. \A x \in Schedules : \/ SameSchedule(x)
                             \/ schedule[x].state = "enabled" /\ schedule'[x].state = "ended"
    BY <1>1, <2>1 DEF TypeOK, SchedulesOK, ScheduleRecord, SameSchedule
  <2> QED
    BY <1>2, <1>4, <2>2, UnchangedWork, AuthorityKept, SchedulesKept
    DEF Authorized, TickEnds
<1>5. ASSUME schedule' = Advanced(s) \/ schedule' = [Advanced(s) EXCEPT
                                            ![s].runsStarted = @ + 1]
      PROVE  \A x \in Schedules : SameSchedule(x)
  <2>1. ASSUME NEW n, NEW k,
               \/ schedule' = [schedule EXCEPT ![s].next = n]
               \/ schedule' = [[schedule EXCEPT ![s].next = n] EXCEPT ![s].runsStarted = k]
        PROVE  \A x \in Schedules : SameSchedule(x)
    BY <2>1 DEF TypeOK, SchedulesOK, ScheduleRecord, SameSchedule
  <2>2. CASE schedule' = Advanced(s)
    BY <2>1, <2>2 DEF Advanced
  <2>3. CASE schedule' = [Advanced(s) EXCEPT ![s].runsStarted = @ + 1]
    <3>1. schedule' = [Advanced(s) EXCEPT
                          ![s].runsStarted = Advanced(s)[s].runsStarted + 1]
      BY <2>3
    <3> QED
      BY <2>1, <3>1 DEF Advanced
  <2> QED
    BY <1>5, <2>2, <2>3
<1>6. CASE TickMisses(s) \/ TickRejects(s)
  <2>1. schedule' = Advanced(s) /\ UNCHANGED run
    BY <1>6 DEF TickMisses, TickRejects
  <2> QED
    BY <1>2, <1>5, <2>1, UnchangedWork, AuthorityKept, SchedulesKept DEF Authorized
<1>7. ASSUME NEW r \in Runs, TickAdmits(s, r)
      PROVE  Authorized'
  <2>1. PICK m, refs, v, rev :
           /\ Queue(r, schedule[s].workspace, m, refs, {schedule[s].interface},
                    <<>>, s, v, rev)
           /\ refs = schedule[s].grants
           /\ CheckGrants(schedule[s].workspace, m, refs)
           /\ LiveInterface(schedule[s].interface)
    BY <1>7 DEF TickAdmits, AdmissibleSlot, Admissible
  <2>2. /\ schedule[s].workspace \in Workspaces /\ refs \in SUBSET GrantRef
        /\ {schedule[s].interface} \in SUBSET Interfaces
    BY <1>1, <2>1 DEF TypeOK, SchedulesOK, ScheduleRecord
  <2>3. PICK w \in Workspaces : w = schedule[s].workspace /\ LiveWorkspace(w)'
    BY <1>1, <2>2 DEF ScheduleHoldsAuthority, LiveWorkspace
  <2>4. EffectsNeedAuthority'
    BY <1>2, <2>1, <2>2, <2>3, AuthorityAdmitted DEF Authorized
  <2>5. \A x \in Schedules : SameSchedule(x)
    BY <1>5, <1>7 DEF TickAdmits
  <2>6. ASSUME NEW x \in Schedules, schedule'[x].state = "enabled"
        PROVE  ScheduleHoldsAuthority(x)'
    BY <1>1, <2>5, <2>6 DEF SameSchedule, Authorized, SchedulesNeedAuthority,
         ScheduleHoldsAuthority, LiveWorkspace, LiveInterface
  <2>7. run'[r].schedule = s /\ \A x \in Runs \ {r} : run'[x] = run[x]
    BY <2>1 DEF Queue, NoRun, TypeOK, RunsOK
  <2>8. \A x \in Runs : run[x].schedule # Nil => run[x].schedule \in Schedules
    BY DEF TypeOK, RunsOK, RunRecord
  <2>9. ASSUME NEW x \in Runs, run'[x].state \in Unfenced, run'[x].schedule # Nil
        PROVE  schedule'[run'[x].schedule].state \in {"enabled", "ended"}
    BY <1>1, <2>5, <2>7, <2>8, <2>9
    DEF SameSchedule, Authorized, SchedulesNeedAuthority, Unfenced
  <2> QED
    BY <2>4, <2>6, <2>9 DEF Authorized, SchedulesNeedAuthority, Unfenced
<1> QED
  BY <1>3, <1>4, <1>6, <1>7 DEF TickSchedule

\* Completion publishes at most, and no run gains work by it.
LEMMA FinishSteps ==
    ASSUME TypeOK, Authorized, NEW r \in Runs,
           FinishCancelled(r) \/ FinishFailed(r) \/ FinishSucceeded(r)
    PROVE  Authorized'
<1>1. NoNewWork /\ UNCHANGED schedule
  BY MovedWork DEF TypeOK, FinishCancelled, FinishFailed, FinishSucceeded,
                   FaultStates, Unfenced
<1>2. NothingRevoked
  <2>1. CASE FinishCancelled(r) \/ FinishFailed(r)
    BY <2>1, UnchangedAuthority DEF FinishCancelled, FinishFailed, library
  <2>2. CASE FinishSucceeded(r) /\ run[r].schedule = Nil
    BY <2>2 DEF FinishSucceeded, NothingRevoked, TypeOK, WorkspacesOK, WorkspaceRecord,
                LiveWorkspace, LiveInterface, library
  <2>3. CASE FinishSucceeded(r) /\ run[r].schedule # Nil
    BY <2>3, WrittenAuthority DEF FinishSucceeded
  <2> QED
    BY <2>1, <2>2, <2>3
<1> QED
  BY <1>1, <1>2, Kept

LEMMA SupervisorStep ==
    ASSUME TypeOK, Authorized, Supervisor
    PROVE  Authorized'
<1>1. ASSUME StartNext PROVE Authorized'
  <2>1. NoNewWork
    BY <1>1 DEF StartNext, Queued, Oldest, NoNewWork, SameWork, Unfenced, TypeOK,
                RunsOK, RunRecord
  <2>2. NothingRevoked /\ UNCHANGED schedule
    BY <1>1, UnchangedAuthority DEF StartNext, library
  <2> QED
    BY <2>1, <2>2, Kept
<1>2. ASSUME TickStart PROVE Authorized'
  BY <1>2, UnchangedWork, UnchangedAuthority, Kept DEF TickStart, library
<1>3. ASSUME NEW r \in Runs, ReserveModelRequest(r) PROVE Authorized'
  <2>1. ASSUME NEW n, run' = [run EXCEPT ![r].requests = n] PROVE NoNewWork
    BY <2>1 DEF TypeOK, RunsOK, RunRecord, NoNewWork, SameWork
  <2>2. NoNewWork
    BY <1>3, <2>1 DEF ReserveModelRequest
  <2>3. NothingRevoked /\ UNCHANGED schedule
    BY <1>3, UnchangedAuthority DEF ReserveModelRequest, library
  <2> QED
    BY <2>2, <2>3, Kept
<1>4. ASSUME NEW r \in Runs, ReadTool(r) PROVE Authorized'
  <2>1. NoNewWork
    BY <1>4, CountedWork DEF TypeOK, ReadTool
  <2>2. NothingRevoked /\ UNCHANGED schedule
    BY <1>4, UnchangedAuthority DEF ReadTool, library
  <2> QED
    BY <2>1, <2>2, Kept
<1>5. ASSUME NEW r \in Runs, NEW t, NEW op, RequestTool(r, t, op)
      PROVE  Authorized'
  <2>1. /\ run[r].state = "running"
        /\ run' = [Counted(r) EXCEPT ![r].state = "waiting_for_device"]
    BY <1>5 DEF RequestTool, Calling
  <2>2. ASSUME NEW n, run' = [[run EXCEPT ![r].toolCalls = n] EXCEPT
                                 ![r].state = "waiting_for_device"]
        PROVE  NoNewWork
    BY <2>1, <2>2 DEF TypeOK, RunsOK, RunRecord, NoNewWork, SameWork, Unfenced
  <2>3. NoNewWork
    BY <2>1, <2>2 DEF Counted
  <2>4. NothingRevoked /\ UNCHANGED schedule
    BY <1>5, UnchangedAuthority DEF RequestTool, library
  <2> QED
    BY <2>3, <2>4, Kept
<1>6. ASSUME NEW r \in Runs, NEW p, NEW i, ProposeByRun(p, r, i)
      PROVE  Authorized'
  <2>1. NoNewWork /\ UNCHANGED <<schedule, interface, grant>>
    BY <1>6, CountedWork DEF TypeOK, ProposeByRun, library
  <2>2. run[r].workspace \in Workspaces /\ workspace' = Touched(run[r].workspace)
    BY <1>6, RunNames DEF ProposeByRun, Calling, Proposes
  <2>3. NothingRevoked
    BY <2>1, <2>2, TouchedAuthority
  <2> QED
    BY <2>1, <2>3, Kept
<1>7. ASSUME NEW r \in Runs, NEW s \in Schedules, NEW i, NEW e, NEW n,
             CreateScheduleByRun(s, r, i, e, n)
      PROVE  Authorized'
  <2>1. NoNewWork
    BY <1>7, CountedWork DEF TypeOK, CreateScheduleByRun
  <2>2. NothingRevoked
    BY <1>7, UnchangedAuthority DEF CreateScheduleByRun, library
  <2> QED
    BY <1>7, <2>1, <2>2, CreateScheduleSteps DEF CreateScheduleByRun, Schedulable
<1> QED
  BY <1>1, <1>2, <1>3, <1>4, <1>5, <1>6, <1>7, FinishSteps DEF Supervisor

LEMMA DeviceStep ==
    ASSUME TypeOK, Authorized, Device
    PROVE  Authorized'
<1>1. ASSUME NEW t \in Tools, ClaimTool(t) PROVE Authorized'
  BY <1>1, UnchangedWork, UnchangedAuthority, Kept DEF ClaimTool, library
<1>2. ASSUME NEW t \in Tools, NEW token, NEW outcome, ToolResult(t, token, outcome)
      PROVE  Authorized'
  <2>1. PICK r \in Runs : /\ run[r].state \in Unfenced
                          /\ run' = [run EXCEPT ![r].state = "running"]
    BY <1>2 DEF TypeOK, ToolsOK, ToolResult, Fence
  <2>2. NoNewWork
    BY <2>1, MovedWork DEF TypeOK
  <2>3. NothingRevoked /\ UNCHANGED schedule
    BY <1>2, UnchangedAuthority DEF ToolResult, library
  <2> QED
    BY <2>2, <2>3, Kept
<1> QED
  BY <1>1, <1>2 DEF Device

LEMMA HostStep ==
    ASSUME TypeOK, Authorized, Host
    PROVE  Authorized'
<1>1. CASE Unverify \/ Clock \/ \E ms \in Catalogs : RefreshModels(ms)
  BY <1>1, UnchangedWork, UnchangedAuthority, Kept DEF Unverify, RefreshModels, Clock, library
<1>2. ASSUME NEW ms, NEW b, Recover(ms, b) PROVE Authorized'
  <2>1. NoNewWork
    BY <1>2 DEF Recover, NoNewWork, SameWork, Executing, Unfenced, TypeOK, RunsOK, RunRecord
  <2>2. NothingRevoked /\ UNCHANGED schedule
    BY <1>2, UnchangedAuthority DEF Recover, library
  <2> QED
    BY <2>1, <2>2, Kept
<1> QED
  BY <1>1, <1>2, FenceStep DEF Host

LEMMA OperatorStep ==
    ASSUME TypeOK, Authorized, Operator
    PROVE  Authorized'
<1>1. \A refs \in SUBSET CurrentRefs : refs \in SUBSET GrantRef
  BY CurrentRefsType DEF TypeOK
<1>2. ASSUME NEW w \in Workspaces, NEW p, NEW i, ProposeByOperator(p, w, i)
      PROVE  Authorized'
  BY <1>2, UnchangedWork, TouchedAuthority, Kept DEF ProposeByOperator, Proposes, library
<1>3. ASSUME NEW s \in Schedules, NEW w \in Workspaces, NEW i, NEW m, NEW refs, NEW e,
             NEW n, CreateSchedule(s, w, i, m, refs, e, n)
      PROVE  Authorized'
  <2>1. NoNewWork
    BY <1>3, UnchangedWork DEF CreateSchedule
  <2>2. NothingRevoked
    BY <1>3, TouchedAuthority DEF CreateSchedule, library
  <2> QED
    BY <1>3, <2>1, <2>2, CreateScheduleSteps DEF CreateSchedule, Schedulable
<1>4. ASSUME NEW i, NEW p, NEW n,
             Publish(p, i) \/ RenameInterface(i) \/ RollbackInterface(i, n)
      PROVE  Authorized'
  <2>1. NoNewWork /\ UNCHANGED schedule
    BY <1>4, UnchangedWork DEF Publish, RenameInterface, RollbackInterface
  <2>2. NothingRevoked
    BY <1>4, WrittenAuthority DEF Publish, RenameInterface, RollbackInterface
  <2> QED
    BY <2>1, <2>2, Kept
<1>5. ASSUME NEW w \in Workspaces, NEW r \in Runs, NEW m, NEW refs \in SUBSET CurrentRefs,
             NEW targets \in SUBSET Interfaces, NEW import,
             CreateRun(r, w, m, refs, targets, import)
      PROVE  Authorized'
  BY <1>1, <1>5, CreateRunStep
<1> QED
  BY <1>2, <1>3, <1>4, <1>5, WorkspaceSteps, CreateGrantStep, RevokeGrantStep,
     DeleteInterfaceStep, PauseSteps, CancelRunStep, EnableStep
  DEF Operator

LEMMA AuthorizedInductive ==
    /\ Init => Authorized
    /\ TypeOK /\ Authorized /\ [Next]_vars => Authorized'
<1>1. Init => Authorized
  BY DEF Init, Authorized, EffectsNeedAuthority, SchedulesNeedAuthority, NoRun,
         NoSchedule, Unfenced
<1>2. ASSUME TypeOK, Authorized, [Next]_vars PROVE Authorized'
  <2>1. CASE UNCHANGED vars
    BY <1>2, <2>1, UnchangedWork, UnchangedAuthority, Kept DEF vars, library
  <2>2. CASE Next
    BY <1>2, <2>2, TickStep, OperatorStep, DeviceStep, SupervisorStep, HostStep DEF Next
  <2> QED
    BY <1>2, <2>1, <2>2
<1> QED
  BY <1>1, <1>2

LEMMA AlwaysAuthorized == Spec => []Authorized
BY AuthorizedInductive, TypeCorrect, PTL DEF Spec

\* No run can have an effect with authority that was revoked, deleted or
\* replaced, at any moment of any interleaving.
THEOREM EffectsAuthorized == Spec => []EffectsNeedAuthority
<1>1. Authorized => EffectsNeedAuthority
  BY DEF Authorized
<1> QED
  BY <1>1, AlwaysAuthorized, PTL

\* Nor can a schedule admit one, or keep one going after it was paused.
THEOREM SchedulesAuthorized == Spec => []SchedulesNeedAuthority
<1>1. Authorized => SchedulesNeedAuthority
  BY DEF Authorized
<1> QED
  BY <1>1, AlwaysAuthorized, PTL
=============================================================================
