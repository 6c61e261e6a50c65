------------------------- MODULE RuntimeWorkProofs -------------------------
(***************************************************************************)
(* The life of a run, of a schedule and of a proposal, for every instance. *)
(*                                                                         *)
(* First, the store implements the run lifecycle: every step of            *)
(* RuntimeStore is a step of RunLifecycle or changes no run's visible      *)
(* state.  Two facts beside TypeOK are needed.  Rows are distinct, so      *)
(* start_next starts at most one run; and a tool request that is open      *)
(* belongs to a run that was dispatched, so its answer never makes a       *)
(* queued run work.                                                        *)
(*                                                                         *)
(* Second, what admission, dispatch and completion keep: work is           *)
(* exclusive, the committed conversation loses no turn, tool requests last *)
(* as long as their run may use them.  A run keeps the terms it was        *)
(* admitted on, and only create_run, for an operator or an occurrence,     *)
(* admits one (Admits); a grant keeps its connection and its end for good. *)
(*                                                                         *)
(* Third, what schedules and proposals keep: the attempts of a schedule    *)
(* are its recorded occurrences, the slot it waits for is still open, and  *)
(* a proposal is published by what it was made for, once, on the revision  *)
(* it was made against, or never.  Occurrences are recorded in the past    *)
(* and Cron.next looks ahead, so the next slot is never one that was       *)
(* handled.                                                                *)
(*                                                                         *)
(* Fourth, the model requests: each one counted for its run is counted for *)
(* a day, and the other way round.  A clock that never goes back is what   *)
(* keeps a day from being counted anew.                                    *)
(***************************************************************************)
EXTENDS RuntimeStoreProofs, FiniteSetTheorems

States == [r \in Runs |-> run[r].state]
Open(t) == tool[t].state \in {"pending", "claimed"}

RowsDistinct ==
    /\ \A r \in Runs : run[r].state # "none" => run[r].row <= rows
    /\ \A x, y \in Runs :
          run[x].state # "none" /\ run[y].state # "none" /\ run[x].row = run[y].row
              => x = y

OpenToolsDispatched ==
    \A t \in Tools : Open(t) => run[tool[t].run].state \notin {"none", "queued"}

Seated == RowsDistinct /\ OpenToolsDispatched

-----------------------------------------------------------------------------
(* The ways a step of the store can change its runs.                       *)

\* Every run keeps its row.
SameRows == rows' = rows /\ \A r \in Runs : run'[r].row = run[r].row

StatesKept == \A r \in Runs : run'[r].state = run[r].state

Moved(r, from, to) ==
    /\ run[r].state \in from
    /\ run'[r].state \in to
    /\ \A x \in Runs \ {r} : run'[x].state = run[x].state

Shape ==
    \/ SameRows /\ StatesKept
    \/ SameRows /\ \E R : run' = CancelRuns(R)
    \/ SameRows /\ StartNext
    \/ SameRows /\ \E ms, b : Recover(ms, b)
    \/ \E r \in Runs :
          \/ SameRows /\ Moved(r, {"running"}, {"succeeded", "failed", "blocked"})
          \/ SameRows /\ Moved(r, {"waiting_for_device"}, {"failed", "blocked"})
          \/ SameRows /\ Moved(r, {"cancelling"}, {"cancelled"})
          \/ SameRows /\ Moved(r, {"running"}, {"waiting_for_device"})
          \/ SameRows /\ Moved(r, {"running", "waiting_for_device"}, {"running"})
          \/ \E w, m, refs, targets, history, s, version, target :
                /\ r \in Fresh
                /\ Queue(r, w, m, refs, targets, history, s, version, target)

\* A tool request is opened only by a run that waits for it from then on.
ToolsKept ==
    \A t \in Tools : Open(t)' =>
        \/ Open(t) /\ tool'[t].run = tool[t].run
        \/ run'[tool'[t].run].state = "waiting_for_device"

Step == Shape /\ ToolsKept

LEMMA UnchangedRuns ==
    ASSUME UNCHANGED <<run, rows>>
    PROVE  Shape
BY DEF Shape, SameRows, StatesKept

LEMMA CancelledShape ==
    ASSUME RunsOK, NEW R, run' = CancelRuns(R), rows' = rows
    PROVE  Shape
<1>1. SameRows
  BY DEF RunsOK, RunRecord, CancelRuns, SameRows
<1> QED
  BY <1>1 DEF Shape

LEMMA CountedShape ==
    ASSUME RunsOK, NEW r \in Runs, run' = Counted(r), rows' = rows
    PROVE  Shape
<1>1. SameRows /\ StatesKept
  BY DEF RunsOK, RunRecord, Counted, SameRows, StatesKept
<1> QED
  BY <1>1 DEF Shape

LEMMA UnchangedTools == ASSUME UNCHANGED tool PROVE ToolsKept
BY DEF ToolsKept, Open

LEMMA ClearedTools ==
    ASSUME ToolsOK, NEW T, tool' = ClearTools(T) \/ tool' = RevokeTools(T)
    PROVE  ToolsKept
<1> SUFFICES ASSUME NEW t \in Tools, Open(t)'
             PROVE  tool'[t] = tool[t]
  BY DEF ToolsKept, Open
<1>1. CASE tool' = ClearTools(T)
  BY <1>1 DEF ClearTools, Open, ToolsOK, ToolRecord
<1>2. CASE tool' = RevokeTools(T)
  <2>1. tool'[t] = tool[t] \/ tool'[t].state = "invalidated"
    <3>1. tool'[t] = tool[t]
          \/ tool'[t] = [tool[t] EXCEPT !.claim = Nil, !.result = Nil, !.state = "invalidated"]
      BY <1>2 DEF RevokeTools
    <3> QED
      BY <3>1 DEF ToolsOK, ToolRecord
  <2> QED
    BY <2>1 DEF Open
<1> QED
  BY <1>1, <1>2

-----------------------------------------------------------------------------
(* Every step of the store has one of these shapes.                        *)

LEMMA OperatorShape ==
    ASSUME TypeOK, Operator
    PROVE  Step
<1> USE DEF TypeOK
<1>1. ASSUME UNCHANGED <<run, rows, tool>> PROVE Step
  BY <1>1, UnchangedRuns, UnchangedTools DEF Step
<1>2. ASSUME NEW R, run' = CancelRuns(R), rows' = rows,
             UNCHANGED tool \/ \E T : tool' = RevokeTools(T)
      PROVE  Step
  BY <1>2, CancelledShape, UnchangedTools, ClearedTools DEF Step
<1>3. ASSUME NEW w \in Workspaces, DeleteWorkspace(w) PROVE Step
  BY <1>2, <1>3 DEF DeleteWorkspace, Invalidate, ledger
<1>4. ASSUME NEW g \in Grants, RevokeGrant(g) PROVE Step
  BY <1>2, <1>4 DEF RevokeGrant, Invalidate, ledger
<1>5. ASSUME NEW r \in Runs, NEW w, NEW m, NEW refs, NEW targets, NEW import,
             CreateRun(r, w, m, refs, targets, import)
      PROVE  Step
  <2>1. Shape
    BY <1>5 DEF CreateRun, Shape
  <2>2. UNCHANGED tool
    BY <1>5 DEF CreateRun
  <2> QED
    BY <2>1, <2>2, UnchangedTools DEF Step
<1>6. ASSUME NEW r \in Runs, CancelRun(r) PROVE Step
  BY <1>1, <1>2, <1>6 DEF CancelRun, Invalidate
<1>7. ASSUME NEW i \in Interfaces, DeleteInterface(i) PROVE Step
  BY <1>2, <1>7 DEF DeleteInterface, ledger
<1>8. ASSUME NEW s \in Schedules, PauseSchedule(s) \/ DeleteSchedule(s) PROVE Step
  BY <1>2, <1>8 DEF PauseSchedule, DeleteSchedule, Invalidate, ledger
<1>9. ASSUME NEW w, NEW g, NEW c, NEW m, NEW ops, NEW e, NEW p, NEW i, NEW s,
             NEW refs, NEW n,
             \/ CreateGrant(g, w, c, m, ops, e) \/ ProposeByOperator(p, w, i)
             \/ CreateSchedule(s, w, i, m, refs, e, n)
             \/ Publish(p, i) \/ RenameInterface(i) \/ RollbackInterface(i, n)
             \/ EnableSchedule(s)
      PROVE  Step
  BY <1>1, <1>9
  DEF CreateGrant, ProposeByOperator, CreateSchedule, Publish, RenameInterface,
      RollbackInterface, EnableSchedule, ledger
<1> QED
  BY <1>3, <1>4, <1>5, <1>6, <1>7, <1>8, <1>9 DEF Operator

LEMMA DeviceShape ==
    ASSUME TypeOK, Device, Seated
    PROVE  Step
<1>1. ASSUME NEW t \in Tools, ClaimTool(t) PROVE Step
  <2>1. Shape
    BY <1>1, UnchangedRuns DEF ClaimTool, ledger
  <2>2. Open(t) /\ tool'[t].run = tool[t].run
    BY <1>1 DEF ClaimTool, Open, TypeOK, ToolsOK, ToolRecord
  <2>3. \A x \in Tools \ {t} : tool'[x] = tool[x]
    BY <1>1 DEF ClaimTool, TypeOK, ToolsOK
  <2> QED
    BY <2>1, <2>2, <2>3 DEF Step, ToolsKept, Open
<1>2. ASSUME NEW t \in Tools, NEW token, NEW outcome, ToolResult(t, token, outcome)
      PROVE  Step
  <2>1. tool[t].run \in Runs /\ run[tool[t].run].state \in {"running", "waiting_for_device"}
    BY <1>2 DEF TypeOK, ToolsOK, ToolResult, Fence, Unfenced, Seated,
                OpenToolsDispatched, Open
  <2>2. SameRows /\ Moved(tool[t].run, {"running", "waiting_for_device"}, {"running"})
    BY <1>2, <2>1 DEF ToolResult, Moved, SameRows, TypeOK, RunsOK, RunRecord, ledger
  <2>3. tool'[t].state = "completed" /\ \A x \in Tools \ {t} : tool'[x] = tool[x]
    BY <1>2 DEF ToolResult, TypeOK, ToolsOK, ToolRecord
  <2> QED
    BY <2>1, <2>2, <2>3 DEF Step, Shape, ToolsKept, Open
<1> QED
  BY <1>1, <1>2 DEF Device

LEMMA HostShape ==
    ASSUME TypeOK, Host
    PROVE  Step
<1>1. ASSUME NEW ms, NEW b, Recover(ms, b) PROVE Step
  <2>1. SameRows
    BY <1>1 DEF Recover, SameRows, TypeOK, RunsOK, RunRecord, ledger
  <2> QED
    BY <1>1, <2>1, ClearedTools DEF Step, Shape, Recover, TypeOK
<1>2. CASE FenceModelConfiguration
  BY <1>2, CancelledShape, ClearedTools DEF FenceModelConfiguration, Step, TypeOK, ledger
<1>3. ASSUME NEW ms, Unverify \/ RefreshModels(ms) \/ Clock PROVE Step
  BY <1>3, UnchangedRuns, UnchangedTools DEF Unverify, RefreshModels, Clock, Step, ledger
<1> QED
  BY <1>1, <1>2, <1>3 DEF Host

LEMMA TickShape ==
    ASSUME TypeOK, NEW s \in Schedules, TickSchedule(s)
    PROVE  Step
<1>1. ToolsKept
  BY UnchangedTools DEF TickSchedule
<1>2. ASSUME NEW r \in Runs, TickAdmits(s, r) PROVE Shape
  BY <1>2 DEF TickAdmits, Shape
<1>3. ASSUME TickEnds(s) \/ TickSkips(s) \/ TickMisses(s) \/ TickRejects(s)
      PROVE  Shape
  <2>1. UNCHANGED <<run, rows>>
    BY <1>3 DEF TickEnds, TickSkips, TickMisses, TickRejects
  <2> QED
    BY <2>1, UnchangedRuns
<1> QED
  BY <1>1, <1>2, <1>3 DEF Step, TickSchedule

LEMMA SupervisorShape ==
    ASSUME TypeOK, Supervisor
    PROVE  Step
<1> USE DEF TypeOK
<1>1. CASE StartNext
  <2>1. SameRows
    BY <1>1 DEF StartNext, SameRows, RunsOK, RunRecord, ledger
  <2> QED
    BY <1>1, <2>1, UnchangedTools DEF Step, Shape, StartNext
<1>2. CASE TickStart
  BY <1>2, UnchangedRuns, UnchangedTools DEF TickStart, Step, ledger
<1>3. ASSUME NEW r \in Runs, FinishCancelled(r) PROVE Step
  <2>1. SameRows /\ Moved(r, {"cancelling"}, {"cancelled"})
    BY <1>3 DEF FinishCancelled, SameRows, Moved, RunsOK, RunRecord, ledger
  <2> QED
    BY <1>3, <2>1, UnchangedTools DEF Step, Shape, FinishCancelled
<1>4. ASSUME NEW r \in Runs, FinishFailed(r) PROVE Step
  <2>1. PICK outcome \in FaultStates(r) : run' = [run EXCEPT ![r].state = outcome]
    BY <1>4 DEF FinishFailed
  <2>2. outcome \in {"failed", "blocked"}
    BY <2>1 DEF FaultStates
  <2>3. SameRows /\ Moved(r, {"running", "waiting_for_device"}, {"failed", "blocked"})
    BY <1>4, <2>1, <2>2 DEF FinishFailed, SameRows, Moved, RunsOK, RunRecord, ledger
  <2>4. Shape
    BY <2>3 DEF Shape, Moved
  <2>5. ToolsKept
    BY <1>4, ClearedTools DEF FinishFailed
  <2> QED
    BY <2>4, <2>5 DEF Step
<1>5. ASSUME NEW r \in Runs, FinishSucceeded(r) PROVE Step
  <2>1. SameRows /\ Moved(r, {"running"}, {"succeeded", "failed", "blocked"})
    BY <1>5 DEF FinishSucceeded, SameRows, Moved, RunsOK, RunRecord, ledger
  <2>2. ToolsKept
    BY <1>5, ClearedTools DEF FinishSucceeded
  <2> QED
    BY <2>1, <2>2 DEF Step, Shape
<1>6. ASSUME NEW r \in Runs, ReserveModelRequest(r) PROVE Step
  <2>1. run' = [run EXCEPT ![r].requests = @ + 1] /\ rows' = rows
    BY <1>6 DEF ReserveModelRequest
  <2>2. SameRows /\ StatesKept
    BY <2>1 DEF SameRows, StatesKept, RunsOK, RunRecord
  <2> QED
    BY <1>6, <2>2, UnchangedTools DEF Step, Shape, ReserveModelRequest
<1>7. ASSUME NEW r \in Runs, NEW p, NEW i, NEW s, NEW e, NEW n,
             \/ ReadTool(r) \/ ProposeByRun(p, r, i)
             \/ CreateScheduleByRun(s, r, i, e, n)
      PROVE  Step
  BY <1>7, CountedShape, UnchangedTools
  DEF ReadTool, ProposeByRun, CreateScheduleByRun, Step, ledger
<1>8. ASSUME NEW r \in Runs, NEW t \in Tools, NEW op, RequestTool(r, t, op)
      PROVE  Step
  <2>1. run' = [Counted(r) EXCEPT ![r].state = "waiting_for_device"] /\ rows' = rows
    BY <1>8 DEF RequestTool, ledger
  <2>2. /\ \A x \in Runs : Counted(r)[x].row = run[x].row
        /\ \A x \in Runs : Counted(r)[x].state = run[x].state
        /\ Counted(r) \in [Runs -> RunRecord]
    BY CountedType DEF Counted, RunsOK, RunRecord
  <2>3. SameRows /\ Moved(r, {"running"}, {"waiting_for_device"})
    BY <1>8, <2>1, <2>2 DEF SameRows, Moved, RequestTool, Calling, RunRecord
  <2>4. ToolsKept
    <3>1. \A x \in Tools \ {t} : tool'[x] = tool[x]
      BY <1>8 DEF RequestTool, ToolsOK
    <3>2. tool'[t].run = r
      BY <1>8 DEF RequestTool, ToolsOK, NoTool
    <3> QED
      BY <2>3, <3>1, <3>2 DEF ToolsKept, Open, Moved
  <2> QED
    BY <2>3, <2>4 DEF Step, Shape
<1> QED
  BY <1>1, <1>2, <1>3, <1>4, <1>5, <1>6, <1>7, <1>8 DEF Supervisor

LEMMA NextShape == TypeOK /\ Seated /\ [Next]_vars => Step
<1> SUFFICES ASSUME TypeOK, Seated, [Next]_vars PROVE Step
  OBVIOUS
<1>1. CASE UNCHANGED vars
  BY <1>1, UnchangedRuns, UnchangedTools DEF vars, ledger, Step
<1>2. CASE Next
  BY <1>2, OperatorShape, DeviceShape, SupervisorShape, HostShape, TickShape DEF Next
<1> QED
  BY <1>1, <1>2

-----------------------------------------------------------------------------
(* Rows stay distinct, and open tool requests belong to dispatched runs.   *)

\* No run that exists ceases to, and none that left the queue returns to it.
LEMMA ShapeKeepsRuns ==
    ASSUME RunsOK, Shape, NEW r \in Runs
    PROVE  /\ run[r].state # "none" => run'[r].state # "none"
           /\ run[r].state \notin {"none", "queued"} =>
                 run'[r].state \notin {"none", "queued"}
<1>1. ASSUME NEW x \in Runs, NEW w, NEW m, NEW refs, NEW targets, NEW history,
             NEW s, NEW version, NEW target, x \in Fresh,
             Queue(x, w, m, refs, targets, history, s, version, target), x # r
      PROVE  run'[r] = run[r]
  BY <1>1 DEF Queue, RunsOK
<1>2. CASE StartNext
  BY <1>2 DEF StartNext, Oldest, Queued
<1>3. ASSUME NEW ms, NEW b, Recover(ms, b)
      PROVE  run'[r].state \in {run[r].state, "interrupted"}
  BY <1>3 DEF Recover, RunsOK, RunRecord
<1>4. ASSUME NEW R, run' = CancelRuns(R)
      PROVE  run'[r].state \in {run[r].state, "cancelled", "cancelling"}
  BY <1>4 DEF CancelRuns, RunsOK, RunRecord
<1> QED
  BY <1>1, <1>2, <1>3, <1>4 DEF Shape, StatesKept, Moved, Fresh

LEMMA RowsKept == TypeOK /\ Seated /\ Step => RowsDistinct'
<1> SUFFICES ASSUME TypeOK, Seated, Step PROVE RowsDistinct'
  OBVIOUS
<1>1. rows \in Nat /\ \A r \in Runs : run[r].row \in Nat
  BY DEF TypeOK, LedgerOK, RunsOK, RunRecord
<1>2. ASSUME SameRows, \A r \in Runs : run'[r].state # "none" => run[r].state # "none"
      PROVE  RowsDistinct'
  BY <1>2 DEF SameRows, RowsDistinct, Seated
<1>3. ASSUME NEW r \in Runs, NEW w, NEW m, NEW refs, NEW targets, NEW history,
             NEW s, NEW version, NEW target, r \in Fresh,
             Queue(r, w, m, refs, targets, history, s, version, target)
      PROVE  RowsDistinct'
  <2>1. rows' = rows + 1 /\ run'[r].row = rows + 1
    BY <1>3 DEF Queue, NoRun, TypeOK, RunsOK
  <2>2. \A x \in Runs \ {r} : run'[x] = run[x]
    BY <1>3 DEF Queue, TypeOK, RunsOK
  <2> QED
    BY <1>1, <2>1, <2>2 DEF RowsDistinct, Seated
<1>4. CASE SameRows /\ \E R : run' = CancelRuns(R)
  <2>1. \A r \in Runs : run[r].state = "none" => run'[r] = run[r]
    BY <1>4 DEF CancelRuns, Active, Executing
  <2> QED
    BY <1>2, <1>4, <2>1
<1>5. CASE SameRows /\ StartNext
  BY <1>2, <1>5 DEF StartNext, Oldest, Queued
<1>6. CASE SameRows /\ \E ms, b : Recover(ms, b)
  BY <1>2, <1>6 DEF Recover, Executing
<1>7. CASE SameRows /\ StatesKept
  BY <1>2, <1>7 DEF StatesKept
<1>8. ASSUME SameRows, NEW r \in Runs, NEW from, NEW to, Moved(r, from, to),
             "none" \notin from
      PROVE  RowsDistinct'
  BY <1>2, <1>8 DEF Moved
<1> QED
  BY <1>3, <1>4, <1>5, <1>6, <1>7, <1>8 DEF Step, Shape

LEMMA OpenToolsKept == TypeOK /\ TypeOK' /\ Seated /\ Step => OpenToolsDispatched'
<1> SUFFICES ASSUME TypeOK, TypeOK', Seated, Step, NEW t \in Tools, Open(t)'
             PROVE  run'[tool'[t].run].state \notin {"none", "queued"}
  BY DEF OpenToolsDispatched, Open
<1>1. CASE run'[tool'[t].run].state = "waiting_for_device"
  BY <1>1
<1>2. CASE Open(t) /\ tool'[t].run = tool[t].run
  <2>1. tool[t].run \in Runs /\ run[tool[t].run].state \notin {"none", "queued"}
    BY <1>2 DEF TypeOK, ToolsOK, Open, Seated, OpenToolsDispatched
  <2> QED
    BY <1>2, <2>1, ShapeKeepsRuns DEF TypeOK, Step
<1> QED
  BY <1>1, <1>2 DEF Step, ToolsKept

LEMMA AlwaysSeated == Spec => []Seated
<1>1. Init => Seated
  BY DEF Init, Seated, RowsDistinct, OpenToolsDispatched, Open, NoRun, NoTool
<1>2. TypeOK /\ TypeOK' /\ Seated /\ [Next]_vars => Seated'
  BY NextShape, RowsKept, OpenToolsKept DEF Seated
<1> QED
  BY <1>1, <1>2, TypeCorrect, PTL DEF Spec

-----------------------------------------------------------------------------
(* Every shape is a step of the lifecycle.                                 *)

LEMMA InitLifecycle == Init => Lifecycle!Init
BY DEF Init, NoRun, Lifecycle!Init

LEMMA StepLifecycle ==
    ASSUME TypeOK, Seated, Shape
    PROVE  Lifecycle!Next \/ UNCHANGED States
<1> USE DEF TypeOK, RunsOK
<1>1. CASE StatesKept
  BY <1>1 DEF StatesKept, States
<1>2. ASSUME NEW R, run' = CancelRuns(R) PROVE Lifecycle!Next
  <2>1. PICK S \in SUBSET Runs : S = {r \in R \cap Runs : Active(r)}
    OBVIOUS
  <2>2. Lifecycle!Stop(S)
    BY <1>2, <2>1
    DEF CancelRuns, Active, Executing, RunRecord, Lifecycle!Stop, Lifecycle!In,
        Lifecycle!Active, Lifecycle!Executing
  <2> QED
    BY <2>2 DEF Lifecycle!Next
<1>3. CASE StartNext
  <2> DEFINE fit == {r \in Queued : Fence(r)}
             blocked == {r \in Queued \ fit :
                            \A x \in Oldest(fit) : run[r].row < run[x].row}
  <2>1. Oldest(fit) \in SUBSET Runs /\ blocked \in SUBSET Runs
    BY DEF Oldest, Queued
  <2>2. \A x, y \in Oldest(fit) : x = y
    <3>1. \A x, y \in Oldest(fit) : run[x].row = run[y].row
      BY DEF Oldest, Queued, RunRecord
    <3> QED
      BY <2>1, <3>1 DEF Oldest, Queued, Seated, RowsDistinct
  <2>3. Lifecycle!In(Lifecycle!Executing) = {}
    BY <1>3 DEF StartNext, Idle, Executing, Lifecycle!In, Lifecycle!Executing
  <2>4. /\ blocked \subseteq Lifecycle!In({"queued"})
        /\ Oldest(fit) \subseteq Lifecycle!In({"queued"}) \ blocked
    BY DEF Oldest, Queued, Lifecycle!In
  <2>5. \A r \in Runs : run'[r].state = IF r \in blocked THEN "blocked"
                                        ELSE IF r \in Oldest(fit) THEN "running"
                                        ELSE run[r].state
    BY <1>3 DEF StartNext, RunRecord
  <2>6. PICK B \in SUBSET Runs, S \in SUBSET Runs : B = blocked /\ S = Oldest(fit)
    BY <2>1
  <2>7. Lifecycle!Dispatch(B, S)
    BY <2>2, <2>3, <2>4, <2>5, <2>6 DEF Lifecycle!Dispatch
  <2> QED
    BY <2>7 DEF Lifecycle!Next
<1>4. ASSUME NEW ms, NEW b, Recover(ms, b) PROVE Lifecycle!Next
  BY <1>4 DEF Recover, Executing, RunRecord, Lifecycle!Next, Lifecycle!Restart,
              Lifecycle!In, Lifecycle!Executing
<1>5. ASSUME NEW r \in Runs,
             \/ Moved(r, {"running"}, {"succeeded", "failed", "blocked"})
             \/ Moved(r, {"waiting_for_device"}, {"failed", "blocked"})
             \/ Moved(r, {"cancelling"}, {"cancelled"})
      PROVE  Lifecycle!Next
  <2>1. PICK to : to = run'[r].state
    OBVIOUS
  <2>2. [x \in Runs |-> run'[x].state] = [[x \in Runs |-> run[x].state] EXCEPT ![r] = to]
    BY <1>5, <2>1 DEF Moved
  <2>3. Lifecycle!End(r)
    BY <1>5, <2>1, <2>2 DEF Moved, Lifecycle!End, Lifecycle!Executing
  <2> QED
    BY <2>3 DEF Lifecycle!Next
<1>6. ASSUME NEW r \in Runs, Moved(r, {"running"}, {"waiting_for_device"})
      PROVE  Lifecycle!Next
  BY <1>6 DEF Moved, Lifecycle!Next, Lifecycle!Wait
<1>7. ASSUME NEW r \in Runs, Moved(r, {"running", "waiting_for_device"}, {"running"})
      PROVE  Lifecycle!Next \/ UNCHANGED States
  BY <1>7 DEF Moved, Lifecycle!Next, Lifecycle!Resume, States
<1>8. ASSUME NEW r \in Runs, NEW w, NEW m, NEW refs, NEW targets, NEW history,
             NEW s, NEW version, NEW target, r \in Fresh,
             Queue(r, w, m, refs, targets, history, s, version, target)
      PROVE  Lifecycle!Next
  <2>1. run[r].state = "none" /\ run'[r].state = "queued"
    BY <1>8 DEF Fresh, Queue, NoRun
  <2>2. \A x \in Runs \ {r} : run'[x] = run[x]
    BY <1>8 DEF Queue
  <2> QED
    BY <2>1, <2>2 DEF Lifecycle!Next, Lifecycle!Admit
<1> QED
  BY <1>1, <1>2, <1>3, <1>4, <1>5, <1>6, <1>7, <1>8 DEF Shape

\* Every behaviour of the store is one of the run lifecycle, for all numbers
\* of runs, workspaces, grants, schedules and tools.
THEOREM StoreImplementsLifecycle == Spec => ImplementsLifecycle
<1>1. Init => Lifecycle!Init
  BY InitLifecycle
<1>2. TypeOK /\ Seated /\ [Next]_vars => [Lifecycle!Next]_States
  BY NextShape, StepLifecycle DEF Step
<1>3. TypeOK /\ Seated /\ [Next]_vars => [Lifecycle!Next]_([r \in Runs |-> run[r].state])
  BY <1>2 DEF States
<1> QED
  BY <1>1, <1>3, TypeCorrect, AlwaysSeated, PTL DEF Spec, ImplementsLifecycle, Lifecycle!Spec

-----------------------------------------------------------------------------
(* What a run was admitted on                                              *)

\* Run r keeps its terms, and exists after the step if it did before.
SameTerms(r) ==
    /\ run'[r].workspace = run[r].workspace /\ run'[r].grants = run[r].grants
    /\ run'[r].schedule = run[r].schedule /\ run'[r].history = run[r].history
    /\ run'[r].deadline = run[r].deadline /\ run'[r].target = run[r].target
    /\ run'[r].state = "none" <=> run[r].state = "none"
TermsKept == \A r \in Runs : SameTerms(r)

OperatorAdmits ==
    \E r \in Runs, w \in Workspaces, m \in Models, refs \in SUBSET GrantRef,
       targets \in SUBSET Interfaces, import \in BOOLEAN :
        CreateRun(r, w, m, refs, targets, import)

TickAdmission(s, r) ==
    TickAdmits(s, r) /\ UNCHANGED <<control, workspace, grant, proposal, library, tool>>

Admits == OperatorAdmits \/ \E s \in ticking, r \in Runs : TickAdmission(s, r)

LEMMA UnchangedTerms == ASSUME UNCHANGED run PROVE TermsKept
BY DEF TermsKept, SameTerms

LEMMA CancelledTerms ==
    ASSUME RunsOK, NEW R, run' = CancelRuns(R)
    PROVE  TermsKept
BY DEF RunsOK, RunRecord, CancelRuns, Active, Executing, TermsKept, SameTerms

\* A run that exists moves to another state.
LEMMA MovedTerms ==
    ASSUME RunsOK, NEW r \in Runs, NEW st, run' = [run EXCEPT ![r].state = st],
           run[r].state # "none", st # "none"
    PROVE  TermsKept
BY DEF RunsOK, RunRecord, TermsKept, SameTerms

LEMMA CountedTerms ==
    ASSUME RunsOK, NEW r \in Runs,
           \/ run' = Counted(r)
           \/ /\ run' = [Counted(r) EXCEPT ![r].state = "waiting_for_device"]
              /\ run[r].state = "running"
    PROVE  TermsKept
<1>1. ASSUME NEW n, run' = [run EXCEPT ![r].toolCalls = n] PROVE TermsKept
  BY <1>1 DEF RunsOK, RunRecord, TermsKept, SameTerms
<1>2. ASSUME NEW n, run[r].state = "running",
             run' = [[run EXCEPT ![r].toolCalls = n]
                        EXCEPT ![r].state = "waiting_for_device"]
      PROVE  TermsKept
  BY <1>2 DEF RunsOK, RunRecord, TermsKept, SameTerms
<1> QED
  BY <1>1, <1>2 DEF Counted

LEMMA CurrentRefsAreRefs == ASSUME TypeOK PROVE CurrentRefs \subseteq GrantRef
BY DEF TypeOK, GrantsOK, GrantRecord, CurrentRefs, GrantRef

LEMMA OperatorTerms ==
    ASSUME TypeOK, Operator
    PROVE  TermsKept \/ Admits
<1>1. ASSUME NEW R, Invalidate(R) PROVE TermsKept
  BY <1>1, CancelledTerms DEF Invalidate, TypeOK
<1>2. ASSUME NEW w \in Workspaces, DeleteWorkspace(w) PROVE TermsKept
  BY <1>1, <1>2 DEF DeleteWorkspace
<1>3. ASSUME NEW g \in Grants, RevokeGrant(g) PROVE TermsKept
  BY <1>1, <1>3 DEF RevokeGrant
<1>4. ASSUME NEW w \in Workspaces, NEW r \in Runs, NEW m \in Models,
             NEW refs \in SUBSET CurrentRefs, NEW targets \in SUBSET Interfaces,
             NEW import \in BOOLEAN, CreateRun(r, w, m, refs, targets, import)
      PROVE  Admits
  <2>1. refs \in SUBSET GrantRef
    BY CurrentRefsAreRefs
  <2> QED
    BY <1>4, <2>1 DEF Admits, OperatorAdmits
<1>5. ASSUME NEW r \in Runs, CancelRun(r) PROVE TermsKept
  BY <1>1, <1>5, UnchangedTerms DEF CancelRun
<1>6. ASSUME NEW i \in Interfaces, DeleteInterface(i) PROVE TermsKept
  BY <1>6, CancelledTerms DEF DeleteInterface, TypeOK
<1>7. ASSUME NEW s \in Schedules, PauseSchedule(s) \/ DeleteSchedule(s) PROVE TermsKept
  BY <1>1, <1>7 DEF PauseSchedule, DeleteSchedule
<1>8. ASSUME NEW w, NEW g, NEW c, NEW m, NEW ops, NEW e, NEW p, NEW i, NEW s,
             NEW refs, NEW n,
             \/ CreateGrant(g, w, c, m, ops, e) \/ ProposeByOperator(p, w, i)
             \/ CreateSchedule(s, w, i, m, refs, e, n)
             \/ Publish(p, i) \/ RenameInterface(i) \/ RollbackInterface(i, n)
             \/ EnableSchedule(s)
      PROVE  TermsKept
  BY <1>8, UnchangedTerms
  DEF CreateGrant, ProposeByOperator, CreateSchedule, Publish, RenameInterface,
      RollbackInterface, EnableSchedule
<1> QED
  BY <1>2, <1>3, <1>4, <1>5, <1>6, <1>7, <1>8 DEF Operator

LEMMA DeviceTerms ==
    ASSUME TypeOK, Device
    PROVE  TermsKept
<1>1. ASSUME NEW t \in Tools, NEW token, NEW outcome, ToolResult(t, token, outcome)
      PROVE  TermsKept
  <2>1. /\ tool[t].run \in Runs /\ run[tool[t].run].state # "none"
        /\ run' = [run EXCEPT ![tool[t].run].state = "running"]
    BY <1>1 DEF TypeOK, ToolsOK, ToolResult, Fence, Unfenced
  <2> QED
    BY <2>1, MovedTerms DEF TypeOK
<1> QED
  BY <1>1, UnchangedTerms DEF Device, ClaimTool

LEMMA SupervisorTerms ==
    ASSUME TypeOK, Supervisor
    PROVE  TermsKept
<1> USE DEF TypeOK
<1>1. CASE StartNext
  BY <1>1 DEF StartNext, Oldest, Queued, RunsOK, RunRecord, TermsKept, SameTerms
<1>2. ASSUME NEW r \in Runs, FinishCancelled(r) PROVE TermsKept
  BY <1>2, MovedTerms DEF FinishCancelled
<1>3. ASSUME NEW r \in Runs, FinishFailed(r) PROVE TermsKept
  BY <1>3, MovedTerms DEF FinishFailed, FaultStates
<1>4. ASSUME NEW r \in Runs, FinishSucceeded(r) PROVE TermsKept
  BY <1>4, MovedTerms DEF FinishSucceeded
<1>5. ASSUME NEW r \in Runs, ReserveModelRequest(r) PROVE TermsKept
  <2>1. PICK n : run' = [run EXCEPT ![r].requests = n]
    BY <1>5 DEF ReserveModelRequest
  <2> QED
    BY <2>1 DEF RunsOK, RunRecord, TermsKept, SameTerms
<1>6. ASSUME NEW r \in Runs, NEW p, NEW i, NEW s, NEW e, NEW n,
             \/ ReadTool(r) \/ ProposeByRun(p, r, i)
             \/ CreateScheduleByRun(s, r, i, e, n)
      PROVE  TermsKept
  BY <1>6, CountedTerms DEF ReadTool, ProposeByRun, CreateScheduleByRun
<1>7. ASSUME NEW r \in Runs, NEW t \in Tools, NEW op, RequestTool(r, t, op)
      PROVE  TermsKept
  BY <1>7, CountedTerms DEF RequestTool, Calling
<1> QED
  BY <1>1, <1>2, <1>3, <1>4, <1>5, <1>6, <1>7, UnchangedTerms
  DEF Supervisor, TickStart

LEMMA HostTerms ==
    ASSUME TypeOK, Host
    PROVE  TermsKept
<1>1. ASSUME NEW ms, NEW b, Recover(ms, b) PROVE TermsKept
  BY <1>1 DEF TypeOK, RunsOK, RunRecord, Recover, Executing, TermsKept, SameTerms
<1> QED
  BY <1>1, UnchangedTerms, CancelledTerms
  DEF Host, Unverify, RefreshModels, Clock, FenceModelConfiguration, TypeOK

LEMMA TickTerms ==
    ASSUME TypeOK, NEW s \in Schedules, TickSchedule(s)
    PROVE  TermsKept \/ Admits
<1>1. ASSUME NEW r \in Runs, TickAdmits(s, r) PROVE Admits
  BY <1>1 DEF TickSchedule, Admits, TickAdmission
<1> QED
  BY <1>1, UnchangedTerms
  DEF TickSchedule, TickEnds, TickSkips, TickMisses, TickRejects

LEMMA NextTerms == TypeOK /\ [Next]_vars => TermsKept \/ Admits
<1> SUFFICES ASSUME TypeOK, [Next]_vars PROVE TermsKept \/ Admits
  OBVIOUS
<1>1. CASE UNCHANGED vars
  BY <1>1, UnchangedTerms DEF vars
<1>2. CASE Next
  BY <1>2, TickTerms, OperatorTerms, DeviceTerms, SupervisorTerms, HostTerms DEF Next
<1> QED
  BY <1>1, <1>2

\* What the new run is admitted on.
LEMMA QueuedTerms ==
    ASSUME RunsOK, NEW r \in Runs, NEW w, NEW m, NEW refs, NEW targets, NEW h,
           NEW s, NEW v, NEW rev, Queue(r, w, m, refs, targets, h, s, v, rev)
    PROVE  /\ run'[r].state = "queued" /\ run'[r].workspace = w
           /\ run'[r].grants = refs /\ run'[r].history = h
           /\ run'[r].schedule = s /\ run'[r].target = rev
           /\ \A x \in Runs \ {r} : run'[x] = run[x]
BY DEF RunsOK, Queue, NoRun

\* Run r is queued in workspace w behind the guards of create_run.
AdmittedTo(r, w, refs) ==
    /\ r \in Fresh
    /\ \E m, targets : Admissible(w, m, refs, targets)
    /\ run'[r].state = "queued" /\ run'[r].workspace = w /\ run'[r].grants = refs
    /\ \A x \in Runs \ {r} : run'[x] = run[x]

\* An admission, by whichever route, queues one run and changes no other.
LEMMA AdmittedRun ==
    ASSUME TypeOK, Admits
    PROVE  /\ UNCHANGED <<control, grant, proposal, library, tool>>
           /\ \E r \in Runs, w \in Workspaces, refs \in SUBSET GrantRef :
                 AdmittedTo(r, w, refs)
<1>1. CASE OperatorAdmits
  BY <1>1, QueuedTerms DEF OperatorAdmits, CreateRun, AdmittedTo, TypeOK
<1>2. ASSUME NEW s \in ticking, NEW r \in Runs, TickAdmission(s, r)
      PROVE  /\ UNCHANGED <<control, grant, proposal, library, tool>>
             /\ \E w \in Workspaces, refs \in SUBSET GrantRef : AdmittedTo(r, w, refs)
  <2>1. /\ s \in Schedules /\ schedule[s].workspace \in Workspaces
        /\ schedule[s].grants \in SUBSET GrantRef
    BY DEF TypeOK, TickingOK, SchedulesOK, ScheduleRecord
  <2>2. AdmittedTo(r, schedule[s].workspace, schedule[s].grants)
    BY <1>2, QueuedTerms DEF TickAdmission, TickAdmits, AdmissibleSlot, AdmittedTo, TypeOK
  <2> QED
    BY <1>2, <2>1, <2>2 DEF TickAdmission
<1> QED
  BY <1>1, <1>2 DEF Admits

-----------------------------------------------------------------------------
(* What a grant was given for                                              *)

\* A grant that exists keeps its connection and its end.
GrantsKept ==
    \A g \in Grants : grant[g].state # "none" =>
        /\ grant'[g].state # "none"
        /\ grant'[g].connection = grant[g].connection
        /\ grant'[g].expires = grant[g].expires

LEMMA OnlyGrants ==
    ASSUME [Next]_vars
    PROVE  \/ UNCHANGED grant
           \/ \E g \in Grants : \E w, c, m, ops, e : CreateGrant(g, w, c, m, ops, e)
           \/ \E g \in Grants : RevokeGrant(g)
           \/ FenceModelConfiguration
<1>1. CASE \E s \in Schedules : TickSchedule(s)
  BY <1>1 DEF TickSchedule
<1>2. ASSUME NEW w, NEW r, NEW m, NEW refs, NEW targets, NEW import, NEW p, NEW i,
             NEW s, NEW e, NEW n,
             \/ DeleteWorkspace(w) \/ CreateRun(r, w, m, refs, targets, import)
             \/ ProposeByOperator(p, w, i) \/ CreateSchedule(s, w, i, m, refs, e, n)
             \/ CancelRun(r) \/ Publish(p, i)
             \/ RenameInterface(i) \/ DeleteInterface(i) \/ RollbackInterface(i, n)
             \/ EnableSchedule(s) \/ PauseSchedule(s) \/ DeleteSchedule(s)
      PROVE  UNCHANGED grant
  BY <1>2
  DEF DeleteWorkspace, CreateRun, ProposeByOperator, CreateSchedule, CancelRun, Publish,
      RenameInterface, DeleteInterface, RollbackInterface, EnableSchedule,
      PauseSchedule, DeleteSchedule
<1>3. ASSUME NEW r, NEW t, NEW op, NEW p, NEW i, NEW s, NEW e, NEW n, NEW token,
             NEW outcome, NEW ms, NEW b,
             \/ StartNext \/ TickStart \/ FinishCancelled(r) \/ FinishFailed(r)
             \/ FinishSucceeded(r) \/ ReserveModelRequest(r) \/ ReadTool(r)
             \/ RequestTool(r, t, op) \/ ProposeByRun(p, r, i)
             \/ CreateScheduleByRun(s, r, i, e, n) \/ ClaimTool(t)
             \/ ToolResult(t, token, outcome)
             \/ Unverify \/ RefreshModels(ms) \/ Recover(ms, b) \/ Clock
      PROVE  UNCHANGED grant
  BY <1>3
  DEF StartNext, TickStart, FinishCancelled, FinishFailed, FinishSucceeded,
      ReserveModelRequest, ReadTool, RequestTool, ProposeByRun, CreateScheduleByRun,
      ClaimTool, ToolResult, Unverify, RefreshModels, Recover, Clock
<1> QED
  BY <1>1, <1>2, <1>3 DEF Next, Operator, Device, Supervisor, Host, vars

LEMMA RevokedGrant ==
    ASSUME NEW old \in GrantRecord, NEW new,
           new = [old EXCEPT !.state = "revoked", !.generation = @ + 1]
    PROVE  /\ new.state = "revoked" /\ new.connection = old.connection
           /\ new.expires = old.expires
BY DEF GrantRecord

LEMMA NextGrants == TypeOK /\ [Next]_vars => GrantsKept
<1> SUFFICES ASSUME TypeOK, [Next]_vars PROVE GrantsKept
  OBVIOUS
<1>1. CASE UNCHANGED grant
  BY <1>1 DEF GrantsKept
<1>2. ASSUME NEW g \in Grants, NEW w, NEW c, NEW m, NEW ops, NEW e,
             CreateGrant(g, w, c, m, ops, e)
      PROVE  GrantsKept
  BY <1>2 DEF CreateGrant, GrantsKept, TypeOK, GrantsOK
<1>3. ASSUME NEW g \in Grants, RevokeGrant(g) PROVE GrantsKept
  <2>1. /\ grant'[g] = [grant[g] EXCEPT !.state = "revoked", !.generation = @ + 1]
        /\ \A x \in Grants \ {g} : grant'[x] = grant[x]
    BY <1>3 DEF RevokeGrant, TypeOK, GrantsOK
  <2>2. /\ grant'[g].state = "revoked" /\ grant'[g].connection = grant[g].connection
        /\ grant'[g].expires = grant[g].expires
    BY <2>1, RevokedGrant DEF TypeOK, GrantsOK
  <2> QED
    BY <2>1, <2>2 DEF GrantsKept
<1>4. CASE FenceModelConfiguration
  <2>1. ASSUME NEW g \in Grants
        PROVE  \/ grant'[g] = grant[g]
               \/ grant'[g] = [grant[g] EXCEPT !.state = "revoked", !.generation = @ + 1]
    BY <1>4 DEF FenceModelConfiguration
  <2>2. ASSUME NEW g \in Grants, grant'[g] # grant[g]
        PROVE  /\ grant'[g].state = "revoked" /\ grant'[g].connection = grant[g].connection
               /\ grant'[g].expires = grant[g].expires
    BY <2>1, <2>2, RevokedGrant DEF TypeOK, GrantsOK
  <2> QED
    BY <2>2 DEF GrantsKept
<1> QED
  BY <1>1, <1>2, <1>3, <1>4, OnlyGrants

-----------------------------------------------------------------------------
(* Exclusive work                                                          *)

\* Runs hold grants that exist, so their connections never change; the
\* active runs are few because each was counted at its admission.
RefsExist ==
    \A r \in Runs : run[r].state # "none" =>
        \A x \in run[r].grants : grant[x.id].state # "none"
Apart ==
    \A x, y \in ActiveRuns : x # y =>
        /\ run[x].workspace # run[y].workspace
        /\ ConnectionsOf(run[x].grants) \cap ConnectionsOf(run[y].grants) = {}
OneExecutes ==
    \A x, y \in Runs :
        run[x].state \in Executing /\ run[y].state \in Executing => x = y
Few == IsFiniteSet(ActiveRuns) /\ Cardinality(ActiveRuns) <= QueueLimit

Exclusive == RefsExist /\ Apart /\ OneExecutes /\ Few

\* No run becomes active but by its admission.
LEMMA ActiveBefore ==
    ASSUME RunsOK, Shape, NEW r \in Runs, run[r].state # "none", Active(r)'
    PROVE  Active(r)
<1> USE DEF Active, Executing
<1>1. ASSUME NEW x \in Runs, NEW w, NEW m, NEW refs, NEW targets, NEW history,
             NEW s, NEW version, NEW target, x \in Fresh,
             Queue(x, w, m, refs, targets, history, s, version, target)
      PROVE  run'[r] = run[r]
  BY <1>1 DEF Queue, RunsOK, Fresh
<1>2. CASE StartNext
  BY <1>2 DEF StartNext, Oldest, Queued
<1>3. ASSUME NEW ms, NEW b, Recover(ms, b) PROVE Active(r)
  BY <1>3 DEF Recover, RunsOK, RunRecord
<1>4. ASSUME NEW R, run' = CancelRuns(R) PROVE Active(r)
  BY <1>4 DEF CancelRuns, RunsOK, RunRecord
<1> QED
  BY <1>1, <1>2, <1>3, <1>4 DEF Shape, StatesKept, Moved

\* start_next starts one run, when none executes; nothing else starts any.
LEMMA OneExecutesKept ==
    ASSUME TypeOK, Seated, Shape, OneExecutes
    PROVE  OneExecutes'
<1> USE DEF TypeOK, Executing
<1>1. ASSUME \A r \in Runs : run'[r].state \in Executing => run[r].state \in Executing
      PROVE  OneExecutes'
  BY <1>1 DEF OneExecutes
<1>2. ASSUME NEW x \in Runs, NEW w, NEW m, NEW refs, NEW targets, NEW history,
             NEW s, NEW version, NEW target, x \in Fresh,
             Queue(x, w, m, refs, targets, history, s, version, target)
      PROVE  OneExecutes'
  BY <1>1, <1>2, QueuedTerms
<1>3. CASE StartNext
  <2> DEFINE fit == {r \in Queued : Fence(r)}
  <2>1. \A r \in Runs : run'[r].state \in Executing => r \in Oldest(fit)
    BY <1>3 DEF StartNext, Idle, RunsOK, RunRecord
  <2>2. \A x, y \in Oldest(fit) : x = y
    <3>1. \A x, y \in Oldest(fit) : run[x].row = run[y].row
      BY DEF Oldest, Queued, RunsOK, RunRecord
    <3> QED
      BY <3>1 DEF Oldest, Queued, Seated, RowsDistinct
  <2> HIDE DEF fit
  <2> QED
    BY <2>1, <2>2 DEF OneExecutes
<1>4. ASSUME NEW ms, NEW b, Recover(ms, b) PROVE OneExecutes'
  BY <1>1, <1>4 DEF Recover, RunsOK, RunRecord
<1>5. ASSUME NEW R, run' = CancelRuns(R) PROVE OneExecutes'
  BY <1>1, <1>5 DEF CancelRuns, Active, RunsOK, RunRecord
<1> QED
  BY <1>1, <1>2, <1>3, <1>4, <1>5 DEF Shape, StatesKept, Moved

LEMMA RefsExistKept ==
    ASSUME TypeOK, RefsExist, TermsKept \/ Admits, GrantsKept
    PROVE  RefsExist'
<1>1. \A r \in Runs : \A x \in run[r].grants : x.id \in Grants
  BY DEF TypeOK, RunsOK, RunRecord, GrantRef
<1>2. CASE TermsKept
  BY <1>1, <1>2 DEF TermsKept, SameTerms, RefsExist, GrantsKept
<1>3. CASE Admits
  <2>1. UNCHANGED grant
    BY <1>3, AdmittedRun
  <2>2. PICK r \in Runs, w \in Workspaces, refs \in SUBSET GrantRef : AdmittedTo(r, w, refs)
    BY <1>3, AdmittedRun
  <2>3. \A x \in refs : grant[x.id].state = "live"
    BY <2>2 DEF AdmittedTo, Admissible, CheckGrants
  <2> QED
    BY <2>1, <2>2, <2>3 DEF AdmittedTo, RefsExist
<1> QED
  BY <1>2, <1>3

LEMMA ApartKept ==
    ASSUME TypeOK, Exclusive, Shape, TermsKept \/ Admits, GrantsKept
    PROVE  Apart' /\ Few'
<1>1. CASE TermsKept
  <2>1. ActiveRuns' \subseteq ActiveRuns
    <3>1. \A r \in Runs : run'[r].state = "none" <=> run[r].state = "none"
      BY <1>1 DEF TermsKept, SameTerms
    <3>2. \A r \in Runs : Active(r)' => Active(r)
      <4> SUFFICES ASSUME NEW r \in Runs, Active(r)' PROVE Active(r)
        OBVIOUS
      <4>1. run[r].state # "none"
        BY <3>1 DEF Active, Executing
      <4> QED
        BY <4>1, ActiveBefore DEF TypeOK
    <3> QED
      BY <3>2 DEF ActiveRuns
  <2>2. \A x \in ActiveRuns : ConnectionsOf(run[x].grants)' = ConnectionsOf(run[x].grants)
    <3> SUFFICES ASSUME NEW x \in ActiveRuns
                 PROVE  ConnectionsOf(run[x].grants)' = ConnectionsOf(run[x].grants)
      OBVIOUS
    <3>1. x \in Runs /\ run'[x].grants = run[x].grants /\ run[x].state # "none"
      BY <1>1 DEF ActiveRuns, Active, Executing, TermsKept, SameTerms
    <3>2. \A y \in run[x].grants : grant'[y.id].connection = grant[y.id].connection
      BY <3>1 DEF TypeOK, RunsOK, RunRecord, GrantRef, Exclusive, RefsExist, GrantsKept
    <3> QED
      BY <3>1, <3>2 DEF ConnectionsOf
  <2>3. Apart'
    BY <1>1, <2>1, <2>2 DEF Exclusive, Apart, ActiveRuns, TermsKept, SameTerms
  <2>4. Few'
    <3>1. /\ IsFiniteSet(ActiveRuns') /\ Cardinality(ActiveRuns') <= Cardinality(ActiveRuns)
          /\ Cardinality(ActiveRuns') \in Nat /\ Cardinality(ActiveRuns) \in Nat
      BY <2>1, FS_Subset, FS_CardinalityType DEF Exclusive, Few
    <3> QED
      BY <3>1, BudgetAssumption DEF Exclusive, Few
  <2> QED
    BY <2>3, <2>4
<1>2. CASE Admits
  <2>1. PICK r \in Runs, w \in Workspaces, refs \in SUBSET GrantRef : AdmittedTo(r, w, refs)
    BY <1>2, AdmittedRun
  <2>2. /\ r \in Fresh /\ UNCHANGED grant
        /\ run'[r].state = "queued" /\ run'[r].workspace = w /\ run'[r].grants = refs
        /\ \A x \in Runs \ {r} : run'[x] = run[x]
    BY <1>2, <2>1, AdmittedRun DEF AdmittedTo
  <2>3. r \notin ActiveRuns /\ ActiveRuns' = ActiveRuns \cup {r}
    BY <2>2 DEF ActiveRuns, Active, Fresh, Executing
  <2>4. Apart'
    <3>1. \A x \in ActiveRuns :
             /\ run'[x] = run[x] /\ run[x].workspace # w
             /\ ConnectionsOf(refs) \cap ConnectionsOf(run[x].grants) = {}
      BY <2>1, <2>2, <2>3 DEF AdmittedTo, Admissible, ActiveRuns
    <3>2. \A x \in Runs : ConnectionsOf(run[x].grants)' = ConnectionsOf(run'[x].grants)
      BY <2>2 DEF ConnectionsOf
    <3> SUFFICES ASSUME NEW x \in ActiveRuns', NEW y \in ActiveRuns', x # y
                 PROVE  /\ run'[x].workspace # run'[y].workspace
                        /\ ConnectionsOf(run[x].grants)'
                              \cap ConnectionsOf(run[y].grants)' = {}
      BY DEF Apart
    <3>3. x \in Runs /\ y \in Runs
      BY DEF ActiveRuns
    <3>4. CASE x # r /\ y # r
      BY <2>3, <3>1, <3>2, <3>3, <3>4 DEF Exclusive, Apart
    <3>5. CASE x = r \/ y = r
      BY <2>2, <2>3, <3>1, <3>2, <3>3, <3>5
    <3> QED
      BY <3>4, <3>5
  <2>5. Few'
    <3>1. /\ IsFiniteSet(ActiveRuns')
          /\ Cardinality(ActiveRuns') = Cardinality(ActiveRuns) + 1
          /\ Cardinality(ActiveRuns) \in Nat
      BY <2>3, FS_AddElement, FS_CardinalityType DEF Exclusive, Few
    <3>2. Cardinality(ActiveRuns) < QueueLimit
      BY <2>1 DEF AdmittedTo, Admissible
    <3> QED
      BY <3>1, <3>2, BudgetAssumption DEF Few
  <2> QED
    BY <2>4, <2>5
<1> QED
  BY <1>1, <1>2

LEMMA InitExclusive == Init => Exclusive
<1> SUFFICES ASSUME Init PROVE Exclusive
  OBVIOUS
<1>1. ActiveRuns = {} /\ \A r \in Runs : run[r].state = "none"
  BY DEF Init, ActiveRuns, Active, Executing, NoRun
<1> QED
  BY <1>1, FS_EmptySet, BudgetAssumption
  DEF Exclusive, RefsExist, Apart, OneExecutes, Few, Executing

LEMMA AlwaysExclusive == Spec => []Exclusive
<1>1. TypeOK /\ Seated /\ Exclusive /\ [Next]_vars => Exclusive'
  <2> SUFFICES ASSUME TypeOK, Seated, Exclusive, [Next]_vars PROVE Exclusive'
    OBVIOUS
  <2>1. Shape /\ (TermsKept \/ Admits) /\ GrantsKept
    BY NextShape, NextTerms, NextGrants DEF Step
  <2> QED
    BY <2>1, OneExecutesKept, RefsExistKept, ApartKept DEF Exclusive
<1> QED
  BY <1>1, InitExclusive, TypeCorrect, AlwaysSeated, PTL DEF Spec

\* Two runs never work in one workspace or on one connection, one worker runs
\* at a time and the queue keeps its limit, for any number of runs, whatever
\* is admitted, revoked, restarted or scheduled (create_run, start_next).
THEOREM WorkExclusive == Spec => []ExclusiveWork
<1>1. Exclusive => ExclusiveWork
  BY DEF Exclusive, Apart, OneExecutes, Few, ExclusiveWork, ActiveRuns
<1> QED
  BY <1>1, AlwaysExclusive, PTL

-----------------------------------------------------------------------------
(* Tool requests                                                           *)

MayHaveOpen == {"waiting_for_device", "cancelling", "cancelled"}
MayHold == Executing \cup {"cancelled"}

\* No run comes to wait, or leaves the states in which a request may be open
\* or a result kept.
QuietRuns ==
    \A r \in Runs :
        /\ run'[r].state = "waiting_for_device" => run[r].state = "waiting_for_device"
        /\ run[r].state \in MayHaveOpen => run'[r].state \in MayHaveOpen
        /\ run[r].state \in MayHold => run'[r].state \in MayHold

LiveKept == \A g \in Grants : grant[g].state = "live" => grant'[g].state = "live"

Quiet == UNCHANGED tool /\ QuietRuns /\ LiveKept

LEMMA SameStatesQuiet ==
    ASSUME \A r \in Runs : \/ run'[r].state = run[r].state
                           \/ run[r].state = "none" /\ run'[r].state = "queued"
    PROVE  QuietRuns
BY DEF QuietRuns, MayHaveOpen, MayHold, Executing

LEMMA UnchangedLive == ASSUME UNCHANGED grant PROVE LiveKept
BY DEF LiveKept

LEMMA CancelledQuiet ==
    ASSUME RunsOK, NEW R, run' = CancelRuns(R)
    PROVE  QuietRuns
BY DEF RunsOK, RunRecord, CancelRuns, Active, Executing, QuietRuns, MayHaveOpen, MayHold

LEMMA AdmissionQuiet == ASSUME TypeOK, Admits PROVE Quiet
<1>1. UNCHANGED <<grant, tool>>
  BY AdmittedRun
<1>2. PICK r \in Runs, w \in Workspaces, refs \in SUBSET GrantRef : AdmittedTo(r, w, refs)
  BY AdmittedRun
<1>3. \A x \in Runs : \/ run'[x].state = run[x].state
                      \/ run[x].state = "none" /\ run'[x].state = "queued"
  BY <1>2 DEF AdmittedTo, Fresh
<1> QED
  BY <1>1, <1>3, SameStatesQuiet, UnchangedLive DEF Quiet

\* The operations that touch a tool request, a grant that is held, or a run
\* that has called a tool.
Loud ==
    \/ \E g \in Grants : RevokeGrant(g)
    \/ FenceModelConfiguration
    \/ \E ms \in Catalogs, b \in BOOLEAN : Recover(ms, b)
    \/ \E r \in Runs : FinishFailed(r) \/ FinishSucceeded(r)
    \/ \E r \in Runs, t \in Tools, op \in Operations : RequestTool(r, t, op)
    \/ \E t \in Tools : ClaimTool(t)
    \/ \E t \in Tools, token \in 1..MaxClaims, outcome \in {"succeeded", "failed"} :
          ToolResult(t, token, outcome)

LEMMA OperatorQuiet ==
    ASSUME TypeOK, Operator
    PROVE  Quiet \/ Loud
<1> USE DEF TypeOK
<1>1. ASSUME UNCHANGED <<grant, run, tool>> PROVE Quiet
  BY <1>1, SameStatesQuiet, UnchangedLive DEF Quiet
<1>2. ASSUME NEW R, run' = CancelRuns(R), UNCHANGED <<grant, tool>> PROVE Quiet
  BY <1>2, CancelledQuiet, UnchangedLive DEF Quiet
<1>3. ASSUME NEW w \in Workspaces, DeleteWorkspace(w) PROVE Quiet
  BY <1>2, <1>3 DEF DeleteWorkspace, Invalidate
<1>4. ASSUME NEW g \in Grants, NEW w, NEW c, NEW m, NEW ops, NEW e,
             CreateGrant(g, w, c, m, ops, e)
      PROVE  Quiet
  BY <1>4, SameStatesQuiet DEF CreateGrant, Quiet, LiveKept, GrantsOK
<1>5. ASSUME NEW w \in Workspaces, NEW r \in Runs, NEW m \in Models,
             NEW refs \in SUBSET CurrentRefs, NEW targets \in SUBSET Interfaces,
             NEW import \in BOOLEAN, CreateRun(r, w, m, refs, targets, import)
      PROVE  Quiet
  <2>1. Admits
    BY <1>5, CurrentRefsAreRefs DEF Admits, OperatorAdmits
  <2> QED
    BY <2>1, AdmissionQuiet
<1>6. ASSUME NEW r \in Runs, CancelRun(r) PROVE Quiet
  BY <1>1, <1>2, <1>6 DEF CancelRun, Invalidate
<1>7. ASSUME NEW i \in Interfaces, DeleteInterface(i) PROVE Quiet
  BY <1>2, <1>7 DEF DeleteInterface
<1>8. ASSUME NEW s \in Schedules, PauseSchedule(s) \/ DeleteSchedule(s) PROVE Quiet
  BY <1>2, <1>8 DEF PauseSchedule, DeleteSchedule, Invalidate
<1>9. ASSUME NEW w, NEW m, NEW e, NEW p, NEW i, NEW s, NEW refs, NEW n,
             \/ ProposeByOperator(p, w, i) \/ CreateSchedule(s, w, i, m, refs, e, n)
             \/ Publish(p, i) \/ RenameInterface(i) \/ RollbackInterface(i, n)
             \/ EnableSchedule(s)
      PROVE  Quiet
  BY <1>1, <1>9
  DEF ProposeByOperator, CreateSchedule, Publish, RenameInterface,
      RollbackInterface, EnableSchedule
<1> QED
  BY <1>3, <1>4, <1>5, <1>6, <1>7, <1>8, <1>9 DEF Operator, Loud

LEMMA SupervisorQuiet ==
    ASSUME TypeOK, Supervisor
    PROVE  Quiet \/ Loud
<1> USE DEF TypeOK
<1>1. CASE StartNext
  <2>1. QuietRuns
    BY <1>1 DEF StartNext, Oldest, Queued, RunsOK, RunRecord, QuietRuns,
                MayHaveOpen, MayHold, Executing
  <2> QED
    BY <1>1, <2>1, UnchangedLive DEF StartNext, Quiet
<1>2. CASE TickStart
  BY <1>2, SameStatesQuiet, UnchangedLive DEF TickStart, Quiet
<1>3. ASSUME NEW r \in Runs, FinishCancelled(r) PROVE Quiet
  <2>1. QuietRuns
    BY <1>3 DEF FinishCancelled, RunsOK, RunRecord, QuietRuns, MayHaveOpen, MayHold,
                Executing
  <2> QED
    BY <1>3, <2>1, UnchangedLive DEF FinishCancelled, Quiet
<1>4. ASSUME NEW r \in Runs, ReserveModelRequest(r) PROVE Quiet
  <2>1. PICK n : run' = [run EXCEPT ![r].requests = n]
    BY <1>4 DEF ReserveModelRequest
  <2>2. \A x \in Runs : run'[x].state = run[x].state
    BY <2>1 DEF RunsOK, RunRecord
  <2> QED
    BY <1>4, <2>2, SameStatesQuiet, UnchangedLive DEF ReserveModelRequest, Quiet
<1>5. ASSUME NEW r \in Runs, NEW p, NEW i, NEW s, NEW e, NEW n,
             \/ ReadTool(r) \/ ProposeByRun(p, r, i)
             \/ CreateScheduleByRun(s, r, i, e, n)
      PROVE  Quiet
  <2>1. run' = Counted(r) /\ UNCHANGED <<grant, tool>>
    BY <1>5 DEF ReadTool, ProposeByRun, CreateScheduleByRun
  <2>2. \A x \in Runs : run'[x].state = run[x].state
    BY <2>1, CountedType
  <2> QED
    BY <2>1, <2>2, SameStatesQuiet, UnchangedLive DEF Quiet
<1> QED
  BY <1>1, <1>2, <1>3, <1>4, <1>5 DEF Supervisor, Loud

LEMMA TickQuiet ==
    ASSUME TypeOK, NEW s \in Schedules, TickSchedule(s)
    PROVE  Quiet
<1>1. ASSUME NEW r \in Runs, TickAdmits(s, r) PROVE Quiet
  BY <1>1, AdmissionQuiet DEF TickSchedule, Admits, TickAdmission
<1>2. ASSUME TickEnds(s) \/ TickSkips(s) \/ TickMisses(s) \/ TickRejects(s)
      PROVE  Quiet
  BY <1>2, SameStatesQuiet, UnchangedLive
  DEF TickSchedule, TickEnds, TickSkips, TickMisses, TickRejects, Quiet
<1> QED
  BY <1>1, <1>2 DEF TickSchedule

LEMMA NextQuiet == TypeOK /\ [Next]_vars => Quiet \/ Loud
<1> SUFFICES ASSUME TypeOK, [Next]_vars PROVE Quiet \/ Loud
  OBVIOUS
<1>1. ASSUME UNCHANGED <<run, tool, grant>> PROVE Quiet
  BY <1>1, SameStatesQuiet, UnchangedLive DEF Quiet
<1>2. CASE Host
  BY <1>1, <1>2 DEF Host, Unverify, RefreshModels, Clock, Loud
<1>3. CASE Device
  BY <1>3 DEF Device, Loud
<1>4. CASE Next
  BY <1>2, <1>3, <1>4, TickQuiet, OperatorQuiet, SupervisorQuiet DEF Next
<1> QED
  BY <1>1, <1>4 DEF vars

\* A request that exists belongs to a run that was dispatched, under a grant
\* that run holds.
ToolsBelong ==
    \A t \in Tools : tool[t].state # "none" =>
        /\ run[tool[t].run].state \notin {"none", "queued"}
        /\ \E x \in run[tool[t].run].grants : x.id = tool[t].grant
ToolsAbsent == \A t \in Tools : tool[t].state = "none" => tool[t] = NoTool

Leased(t) ==
    /\ tool[t].expires <= run[tool[t].run].deadline
    /\ tool[t].expires <= grant[tool[t].grant].expires
    /\ tool[t].claimUntil <= tool[t].expires
ToolsLeased == \A t \in Tools : tool[t].state # "none" => Leased(t)

Answerable ==
    \A r \in Runs :
        /\ run[r].state = "waiting_for_device" => \E t : OpenTools(r) = {t}
        /\ run[r].state \notin MayHaveOpen => OpenTools(r) = {}

ToolsGoverned == ToolsBelong /\ ToolsAbsent /\ ToolsLeased /\ Answerable /\ ResultsPurged

\* A request keeps its run, its grant and its end, and no lease passes it.
SameTool(t) ==
    /\ tool'[t].state # "none" /\ tool'[t].run = tool[t].run
    /\ tool'[t].grant = tool[t].grant /\ tool'[t].expires = tool[t].expires
    /\ \/ tool'[t].claimUntil = tool[t].claimUntil
       \/ tool'[t].claimUntil <= tool[t].expires

Requests(r, t, x) ==
    /\ run[r].state = "running" /\ run'[r].state = "waiting_for_device"
    /\ x \in run[r].grants
    /\ tool[t].state = "none" /\ tool'[t].state = "pending"
    /\ tool'[t].run = r /\ tool'[t].grant = x.id
    /\ tool'[t].expires <= run[r].deadline /\ tool'[t].expires <= grant[x.id].expires
    /\ tool'[t].claimUntil = 0 /\ tool'[t].claim = Nil /\ tool'[t].result = Nil

ToolsSame ==
    \A t \in Tools : \/ tool'[t] = tool[t]
                     \/ tool[t].state # "none" /\ SameTool(t)
                     \/ \E r \in Runs, x \in GrantRef : Requests(r, t, x)

\* What the two ways of ending requests do to one of them.
LEMMA EndedTools ==
    ASSUME ToolsOK, NEW T, tool' = ClearTools(T) \/ tool' = RevokeTools(T),
           NEW t \in Tools
    PROVE  IF t \in T /\ tool[t].state # "none"
           THEN /\ SameTool(t) /\ ~(Open(t)')
                /\ tool'[t].claim = Nil /\ tool'[t].result = Nil
           ELSE tool'[t] = tool[t]
<1>1. CASE ~(t \in T /\ tool[t].state # "none")
  BY <1>1 DEF ClearTools, RevokeTools
<1>2. CASE t \in T /\ tool[t].state # "none"
  <2>1. PICK st : /\ st \in {"completed", "invalidated"}
                  /\ tool'[t] = [tool[t] EXCEPT !.claim = Nil, !.result = Nil, !.state = st]
    BY <1>2 DEF ClearTools, RevokeTools, ToolsOK, ToolRecord
  <2>2. tool[t] \in ToolRecord
    BY DEF ToolsOK
  <2> QED
    BY <1>2, <2>1, <2>2 DEF ToolRecord, SameTool, Open
<1> QED
  BY <1>1, <1>2

LEMMA RequestedTool ==
    ASSUME TypeOK, NEW r \in Runs, NEW t \in Tools, NEW op, RequestTool(r, t, op)
    PROVE  /\ \E x \in GrantRef : Requests(r, t, x)
           /\ \A u \in Tools \ {t} : tool'[u] = tool[u]
           /\ \A y \in Runs \ {r} : run'[y].state = run[y].state
           /\ UNCHANGED grant
<1>1. PICK x \in run[r].grants :
         tool' = [tool EXCEPT ![t] = [NoTool EXCEPT
                   !.state = "pending", !.run = r, !.grant = x.id,
                   !.expires = IF run[r].deadline < grant[x.id].expires
                               THEN run[r].deadline ELSE grant[x.id].expires]]
  BY DEF RequestTool
<1>2. PICK e : /\ e = IF run[r].deadline < grant[x.id].expires
                      THEN run[r].deadline ELSE grant[x.id].expires
               /\ tool' = [tool EXCEPT ![t] = [NoTool EXCEPT
                              !.state = "pending", !.run = r, !.grant = x.id, !.expires = e]]
  BY <1>1
<1>3. e <= run[r].deadline /\ e <= grant[x.id].expires /\ x \in GrantRef
  <2>1. x \in GrantRef /\ run[r].deadline \in Nat /\ grant[x.id].expires \in Nat
    BY DEF TypeOK, RunsOK, RunRecord, GrantsOK, GrantRecord, GrantRef
  <2> QED
    BY <1>2, <2>1
<1>4. /\ tool'[t].state = "pending" /\ tool'[t].run = r /\ tool'[t].grant = x.id
      /\ tool'[t].expires = e /\ tool'[t].claimUntil = 0 /\ tool'[t].claim = Nil
      /\ tool'[t].result = Nil /\ \A u \in Tools \ {t} : tool'[u] = tool[u]
  BY <1>2 DEF NoTool, TypeOK, ToolsOK
<1>5. /\ run[r].state = "running" /\ tool[t].state = "none" /\ UNCHANGED grant
      /\ run' = [Counted(r) EXCEPT ![r].state = "waiting_for_device"]
  BY DEF RequestTool, Calling
<1>6. /\ run'[r].state = "waiting_for_device"
      /\ \A y \in Runs \ {r} : run'[y].state = run[y].state
  <2>1. Counted(r) \in [Runs -> RunRecord] /\ \A y \in Runs : Counted(r)[y].state = run[y].state
    BY CountedType DEF TypeOK
  <2> QED
    BY <1>5, <2>1 DEF RunRecord
<1> QED
  BY <1>3, <1>4, <1>5, <1>6 DEF Requests

\* A lease on a request its run waits for; it moves no run.
LEMMA ClaimedTool ==
    ASSUME TypeOK, NEW t \in Tools, ClaimTool(t)
    PROVE  /\ SameTool(t) /\ Open(t) /\ Open(t)' /\ tool'[t].result = tool[t].result
           /\ \A u \in Tools \ {t} : tool'[u] = tool[u]
           /\ Fence(tool[t].run) /\ UNCHANGED <<run, grant>>
<1>1. PICK n, until :
         /\ until = IF tool[t].expires < now + ClaimMinutes
                    THEN tool[t].expires ELSE now + ClaimMinutes
         /\ tool' = [tool EXCEPT ![t].state = "claimed", ![t].issued = n,
                                 ![t].claim = n, ![t].claimUntil = until]
  BY DEF ClaimTool
<1>2. until <= tool[t].expires
  <2>1. tool[t].expires \in Nat /\ now \in Nat /\ ClaimMinutes \in Nat
    BY BudgetAssumption DEF TypeOK, ToolsOK, ToolRecord, ControlOK
  <2> QED
    BY <1>1, <2>1
<1>3. /\ tool'[t].state = "claimed" /\ tool'[t].run = tool[t].run
      /\ tool'[t].grant = tool[t].grant /\ tool'[t].expires = tool[t].expires
      /\ tool'[t].claimUntil = until /\ tool'[t].result = tool[t].result
      /\ \A u \in Tools \ {t} : tool'[u] = tool[u]
  BY <1>1 DEF TypeOK, ToolsOK, ToolRecord
<1> QED
  BY <1>2, <1>3 DEF ClaimTool, SameTool, Open

\* The answer to a claimed request; its run works on.
LEMMA AnsweredTool ==
    ASSUME TypeOK, NEW t \in Tools, NEW token, NEW outcome, ToolResult(t, token, outcome)
    PROVE  /\ SameTool(t) /\ Open(t) /\ ~(Open(t)')
           /\ \A u \in Tools \ {t} : tool'[u] = tool[u]
           /\ tool[t].run \in Runs /\ Fence(tool[t].run) /\ UNCHANGED grant
           /\ run'[tool[t].run].state = "running"
           /\ \A y \in Runs \ {tool[t].run} : run'[y] = run[y]
<1>1. /\ tool'[t].state = "completed" /\ tool'[t].run = tool[t].run
      /\ tool'[t].grant = tool[t].grant /\ tool'[t].expires = tool[t].expires
      /\ tool'[t].claimUntil = tool[t].claimUntil
      /\ \A u \in Tools \ {t} : tool'[u] = tool[u]
  BY DEF ToolResult, TypeOK, ToolsOK, ToolRecord
<1>2. tool[t].run \in Runs
  BY DEF ToolResult, TypeOK, ToolsOK
<1> QED
  BY <1>1, <1>2 DEF ToolResult, SameTool, Open, TypeOK, RunsOK, RunRecord

LEMMA NextTools == TypeOK /\ [Next]_vars => ToolsSame
<1> SUFFICES ASSUME TypeOK, [Next]_vars PROVE ToolsSame
  OBVIOUS
<1>1. ASSUME NEW T, tool' = ClearTools(T) \/ tool' = RevokeTools(T) PROVE ToolsSame
  BY <1>1, EndedTools DEF ToolsSame, TypeOK
<1>2. ASSUME NEW g \in Grants, RevokeGrant(g) PROVE ToolsSame
  BY <1>1, <1>2 DEF RevokeGrant
<1>3. ASSUME NEW r \in Runs, FinishFailed(r) \/ FinishSucceeded(r) PROVE ToolsSame
  BY <1>1, <1>3 DEF FinishFailed, FinishSucceeded
<1>4. ASSUME NEW ms, NEW b, Recover(ms, b) PROVE ToolsSame
  BY <1>1, <1>4 DEF Recover
<1>5. CASE FenceModelConfiguration
  BY <1>1, <1>5 DEF FenceModelConfiguration
<1>6. ASSUME NEW r \in Runs, NEW t \in Tools, NEW op, RequestTool(r, t, op)
      PROVE  ToolsSame
  BY <1>6, RequestedTool DEF ToolsSame
<1>7. ASSUME NEW t \in Tools, ClaimTool(t) PROVE ToolsSame
  BY <1>7, ClaimedTool DEF ToolsSame, Open
<1>8. ASSUME NEW t \in Tools, NEW token, NEW outcome, ToolResult(t, token, outcome)
      PROVE  ToolsSame
  BY <1>8, AnsweredTool DEF ToolsSame, Open
<1>9. CASE Quiet
  BY <1>9 DEF Quiet, ToolsSame
<1> QED
  BY <1>2, <1>3, <1>4, <1>5, <1>6, <1>7, <1>8, <1>9, NextQuiet DEF Loud

LEMMA ToolNames ==
    ASSUME TypeOK, NEW t \in Tools, tool[t].state # "none"
    PROVE  tool[t].run \in Runs /\ tool[t].grant \in Grants
BY DEF TypeOK, ToolsOK

\* A run that exists keeps its terms, whatever the step.
LEMMA ExistingTerms ==
    ASSUME TypeOK, TermsKept \/ Admits, NEW r \in Runs, run[r].state # "none"
    PROVE  SameTerms(r)
<1>1. CASE Admits
  <2>1. PICK x \in Runs, w \in Workspaces, refs \in SUBSET GrantRef : AdmittedTo(x, w, refs)
    BY <1>1, AdmittedRun
  <2>2. run'[r] = run[r]
    BY <2>1 DEF AdmittedTo, Fresh
  <2> QED
    BY <2>2 DEF SameTerms
<1> QED
  BY <1>1 DEF TermsKept

LEMMA BelongKept ==
    ASSUME TypeOK, Shape, TermsKept \/ Admits, ToolsBelong, ToolsAbsent, ToolsSame
    PROVE  ToolsBelong' /\ ToolsAbsent'
<1>1. ASSUME NEW t \in Tools, tool'[t].state # "none"
      PROVE  /\ run'[tool'[t].run].state \notin {"none", "queued"}
             /\ \E x \in run'[tool'[t].run].grants : x.id = tool'[t].grant
  <2>1. CASE tool[t].state # "none" /\ tool'[t].run = tool[t].run
             /\ tool'[t].grant = tool[t].grant
    <3>1. tool[t].run \in Runs /\ run[tool[t].run].state \notin {"none", "queued"}
      BY <2>1, ToolNames DEF ToolsBelong
    <3>2. SameTerms(tool[t].run)
      BY <3>1, ExistingTerms
    <3>3. run'[tool[t].run].state \notin {"none", "queued"}
      BY <3>1, ShapeKeepsRuns DEF TypeOK
    <3> QED
      BY <2>1, <3>2, <3>3 DEF ToolsBelong, SameTerms
  <2>2. ASSUME NEW r \in Runs, NEW x \in GrantRef, Requests(r, t, x)
        PROVE  /\ run'[tool'[t].run].state \notin {"none", "queued"}
               /\ \E y \in run'[tool'[t].run].grants : y.id = tool'[t].grant
    <3>1. SameTerms(r)
      BY <2>2, ExistingTerms DEF Requests
    <3> QED
      BY <2>2, <3>1 DEF Requests, SameTerms
  <2> QED
    BY <1>1, <2>1, <2>2 DEF ToolsSame, SameTool
<1>2. ToolsAbsent'
  BY DEF ToolsSame, SameTool, Requests, ToolsAbsent
<1> QED
  BY <1>1, <1>2 DEF ToolsBelong

LEMMA LeasesKept ==
    ASSUME TypeOK, TypeOK', RefsExist, TermsKept \/ Admits, GrantsKept,
           ToolsBelong, ToolsLeased, ToolsSame
    PROVE  ToolsLeased'
<1> SUFFICES ASSUME NEW t \in Tools, tool'[t].state # "none" PROVE Leased(t)'
  BY DEF ToolsLeased
<1>1. CASE tool[t].state # "none" /\ (tool'[t] = tool[t] \/ SameTool(t))
  <2>1. /\ tool[t].run \in Runs /\ tool[t].grant \in Grants
        /\ run[tool[t].run].state # "none" /\ grant[tool[t].grant].state # "none"
    BY <1>1, ToolNames DEF ToolsBelong, RefsExist
  <2>2. /\ run'[tool[t].run].deadline = run[tool[t].run].deadline
        /\ grant'[tool[t].grant].expires = grant[tool[t].grant].expires
    BY <2>1, ExistingTerms DEF SameTerms, GrantsKept
  <2> QED
    BY <1>1, <2>2 DEF ToolsLeased, Leased, SameTool
<1>2. ASSUME NEW r \in Runs, NEW x \in GrantRef, Requests(r, t, x) PROVE Leased(t)'
  <2>1. x.id \in Grants /\ grant[x.id].state # "none"
    BY <1>2 DEF Requests, RefsExist, GrantRef
  <2>2. run'[r].deadline = run[r].deadline /\ grant'[x.id].expires = grant[x.id].expires
    BY <1>2, <2>1, ExistingTerms DEF Requests, SameTerms, GrantsKept
  <2>3. tool'[t].expires \in Nat
    BY DEF TypeOK, ToolsOK, ToolRecord
  <2> QED
    BY <1>2, <2>1, <2>2, <2>3 DEF Requests, Leased
<1> QED
  BY <1>1, <1>2 DEF ToolsSame

\* Who may still have an open request, and who may keep a result.
LEMMA QuietTools ==
    ASSUME TypeOK, TypeOK', ToolsGoverned, ToolsBelong', Quiet
    PROVE  Answerable' /\ ResultsPurged'
<1>1. \A r \in Runs : OpenTools(r)' = OpenTools(r)
  BY DEF Quiet, OpenTools, ToolsOf
<1>2. Answerable'
  BY <1>1 DEF Quiet, QuietRuns, ToolsGoverned, Answerable
<1>3. ASSUME NEW t \in Tools, tool[t].result # Nil \/ tool[t].claim # Nil
      PROVE  /\ grant'[tool[t].grant].state = "live"
             /\ run'[tool[t].run].state \in MayHold
  <2>1. tool[t].state # "none"
    BY <1>3 DEF ToolsGoverned, ToolsAbsent, NoTool
  <2>2. /\ tool[t].run \in Runs /\ run[tool[t].run].state # "none"
        /\ tool[t].grant \in Grants
    BY <2>1, ToolNames DEF ToolsGoverned, ToolsBelong
  <2> QED
    BY <1>3, <2>2 DEF Quiet, QuietRuns, LiveKept, ToolsGoverned, ResultsPurged, MayHold
<1> QED
  BY <1>2, <1>3 DEF Quiet, ResultsPurged, MayHold

\* finish: the run's own requests end with it.
LEMMA FinishedTools ==
    ASSUME TypeOK, ToolsGoverned, NEW r \in Runs, tool' = ClearTools(ToolsOf(r)),
           run'[r].state \in {"succeeded", "failed", "blocked"},
           \A x \in Runs \ {r} : run'[x].state = run[x].state, UNCHANGED grant
    PROVE  Answerable' /\ ResultsPurged'
<1>1. \A t \in Tools : IF tool[t].run = r /\ tool[t].state # "none"
                       THEN /\ SameTool(t) /\ ~(Open(t)')
                            /\ tool'[t].claim = Nil /\ tool'[t].result = Nil
                       ELSE tool'[t] = tool[t]
  BY EndedTools DEF TypeOK, ToolsOf
<1>2. OpenTools(r)' = {}
  BY <1>1 DEF OpenTools, ToolsOf, Open
<1>3. \A x \in Runs \ {r} : OpenTools(x)' = OpenTools(x)
  BY <1>1 DEF OpenTools, ToolsOf, SameTool
<1>4. Answerable'
  BY <1>2, <1>3 DEF ToolsGoverned, Answerable
<1>5. ASSUME NEW t \in Tools, tool'[t].result # Nil \/ tool'[t].claim # Nil
      PROVE  /\ grant'[tool'[t].grant].state = "live"
             /\ run'[tool'[t].run].state \in MayHold
  <2>1. tool'[t] = tool[t] /\ ~(tool[t].run = r /\ tool[t].state # "none")
    BY <1>1, <1>5
  <2>2. tool[t].state # "none"
    BY <1>5, <2>1 DEF ToolsGoverned, ToolsAbsent, NoTool
  <2>3. tool[t].run \in Runs \ {r}
    BY <2>1, <2>2, ToolNames
  <2> QED
    BY <1>5, <2>1, <2>3 DEF ToolsGoverned, ResultsPurged, MayHold
<1> QED
  BY <1>4, <1>5 DEF ResultsPurged, MayHold

\* recover and fence_model_configuration: every request ends.
LEMMA AllToolsEnded ==
    ASSUME TypeOK, ToolsGoverned, tool' = ClearTools(Tools) \/ tool' = RevokeTools(Tools),
           \A r \in Runs : run'[r].state # "waiting_for_device"
    PROVE  Answerable' /\ ResultsPurged'
<1>1. \A t \in Tools : ~(Open(t)') /\ tool'[t].claim = Nil /\ tool'[t].result = Nil
  <2> SUFFICES ASSUME NEW t \in Tools
               PROVE  ~(Open(t)') /\ tool'[t].claim = Nil /\ tool'[t].result = Nil
    OBVIOUS
  <2>1. CASE tool[t].state = "none"
    BY <2>1, EndedTools DEF TypeOK, ToolsGoverned, ToolsAbsent, NoTool, Open
  <2>2. CASE tool[t].state # "none"
    BY <2>2, EndedTools DEF TypeOK
  <2> QED
    BY <2>1, <2>2
<1>2. \A r \in Runs : OpenTools(r)' = {}
  BY <1>1 DEF OpenTools, ToolsOf, Open
<1> QED
  BY <1>1, <1>2 DEF Answerable, ResultsPurged

\* revoke: whoever waits on the grant is told to stop.
LEMMA RevokedTools ==
    ASSUME TypeOK, ToolsGoverned, NEW g \in Grants, RevokeGrant(g)
    PROVE  Answerable' /\ ResultsPurged'
<1> DEFINE R == {r \in Runs : \E x \in run[r].grants : x.id = g}
                   \cup RunsOf({s \in LiveSchedules : \E x \in schedule[s].grants : x.id = g})
<1>1. /\ run' = CancelRuns(R)
      /\ tool' = RevokeTools({t \in Tools : tool[t].grant = g})
      /\ \A x \in Grants \ {g} : grant'[x] = grant[x]
  BY DEF RevokeGrant, Invalidate, TypeOK, GrantsOK
<1>2. \A t \in Tools : tool[t].state # "none" /\ tool[t].grant = g => tool[t].run \in R
  BY ToolNames DEF ToolsGoverned, ToolsBelong
<1> HIDE DEF R
<1>3. \A t \in Tools : IF tool[t].grant = g /\ tool[t].state # "none"
                       THEN /\ SameTool(t) /\ ~(Open(t)')
                            /\ tool'[t].claim = Nil /\ tool'[t].result = Nil
                       ELSE tool'[t] = tool[t]
  <2>1. PICK T : tool' = RevokeTools(T) /\ T = {t \in Tools : tool[t].grant = g}
    BY <1>1
  <2> QED
    BY <2>1, EndedTools DEF TypeOK
<1>4. QuietRuns /\ \A r \in R \cap Runs : run'[r].state # "waiting_for_device"
  BY <1>1, CancelledQuiet DEF TypeOK, CancelRuns, Active, Executing, RunsOK, RunRecord
<1>5. \A r \in Runs : OpenTools(r)' \subseteq OpenTools(r)
  BY <1>3 DEF OpenTools, ToolsOf, SameTool, Open
<1>6. \A r \in Runs \ R : OpenTools(r)' = OpenTools(r)
  BY <1>2, <1>3 DEF OpenTools, ToolsOf, SameTool
<1>7. Answerable'
  BY <1>4, <1>5, <1>6 DEF QuietRuns, ToolsGoverned, Answerable
<1>8. ASSUME NEW t \in Tools, tool'[t].result # Nil \/ tool'[t].claim # Nil
      PROVE  /\ grant'[tool'[t].grant].state = "live"
             /\ run'[tool'[t].run].state \in MayHold
  <2>1. tool'[t] = tool[t] /\ ~(tool[t].grant = g /\ tool[t].state # "none")
    BY <1>3, <1>8
  <2>2. tool[t].state # "none"
    BY <1>8, <2>1 DEF ToolsGoverned, ToolsAbsent, NoTool
  <2>3. tool[t].run \in Runs /\ tool[t].grant \in Grants \ {g}
    BY <2>1, <2>2, ToolNames
  <2> QED
    BY <1>1, <1>4, <1>8, <2>1, <2>3 DEF QuietRuns, ToolsGoverned, ResultsPurged, MayHold
<1> QED
  BY <1>7, <1>8 DEF ResultsPurged, MayHold

LEMMA RequestAnswerable ==
    ASSUME TypeOK, ToolsGoverned, NEW r \in Runs, NEW t \in Tools, NEW op,
           RequestTool(r, t, op)
    PROVE  Answerable' /\ ResultsPurged'
<1>1. /\ \A u \in Tools \ {t} : tool'[u] = tool[u]
      /\ \A y \in Runs \ {r} : run'[y].state = run[y].state
      /\ UNCHANGED grant
  BY RequestedTool
<1>2. PICK x \in GrantRef : Requests(r, t, x)
  BY RequestedTool
<1>3. OpenTools(r) = {} /\ run[r].state = "running"
  BY <1>2 DEF Requests, ToolsGoverned, Answerable, MayHaveOpen
<1>4. OpenTools(r)' = {t}
  BY <1>1, <1>2, <1>3 DEF OpenTools, ToolsOf, Requests
<1>5. \A y \in Runs \ {r} : OpenTools(y)' = OpenTools(y)
  BY <1>1, <1>2 DEF OpenTools, ToolsOf, Requests
<1>6. Answerable'
  BY <1>1, <1>2, <1>4, <1>5 DEF Requests, ToolsGoverned, Answerable, MayHaveOpen
<1>7. ASSUME NEW u \in Tools, tool'[u].result # Nil \/ tool'[u].claim # Nil
      PROVE  /\ grant'[tool'[u].grant].state = "live"
             /\ run'[tool'[u].run].state \in MayHold
  <2>1. u # t /\ tool'[u] = tool[u]
    BY <1>1, <1>2, <1>7 DEF Requests
  <2>2. tool[u].state # "none"
    BY <1>7, <2>1 DEF ToolsGoverned, ToolsAbsent, NoTool
  <2>3. tool[u].run \in Runs
    BY <2>2, ToolNames
  <2> QED
    BY <1>1, <1>2, <1>7, <2>1, <2>3 
    DEF ToolsGoverned, ResultsPurged, MayHold, Requests, Executing
<1> QED
  BY <1>6, <1>7 DEF ResultsPurged, MayHold

\* What a claim or an answer passes the fence with.
LEMMA FencedTool ==
    ASSUME TypeOK, ToolsGoverned, NEW t \in Tools, Open(t), Fence(tool[t].run)
    PROVE  /\ tool[t].run \in Runs /\ grant[tool[t].grant].state = "live"
           /\ run[tool[t].run].state = "waiting_for_device"
           /\ OpenTools(tool[t].run) = {t}
<1>1. tool[t].state # "none" /\ tool[t].run \in Runs
  BY ToolNames DEF Open
<1>2. grant[tool[t].grant].state = "live"
  BY <1>1 DEF ToolsGoverned, ToolsBelong, Fence, CheckGrants
<1>3. t \in OpenTools(tool[t].run)
  BY DEF OpenTools, ToolsOf, Open
<1>4. run[tool[t].run].state = "waiting_for_device"
  BY <1>1, <1>3 DEF ToolsGoverned, ToolsBelong, Answerable, MayHaveOpen, Fence, Unfenced
<1> QED
  BY <1>1, <1>2, <1>3, <1>4 DEF ToolsGoverned, Answerable

LEMMA ClaimAnswerable ==
    ASSUME TypeOK, ToolsGoverned, NEW t \in Tools, ClaimTool(t)
    PROVE  Answerable' /\ ResultsPurged'
<1>1. /\ SameTool(t) /\ Open(t) /\ Open(t)' /\ UNCHANGED <<run, grant>>
      /\ \A u \in Tools \ {t} : tool'[u] = tool[u]
  BY ClaimedTool
<1>2. /\ grant[tool[t].grant].state = "live"
      /\ run[tool[t].run].state = "waiting_for_device"
  BY ClaimedTool, FencedTool
<1>3. \A r \in Runs : OpenTools(r)' = OpenTools(r)
  BY <1>1 DEF OpenTools, ToolsOf, Open, SameTool
<1>4. Answerable'
  BY <1>1, <1>3 DEF ToolsGoverned, Answerable
<1>5. ResultsPurged'
  BY <1>1, <1>2 DEF ToolsGoverned, ResultsPurged, SameTool, Executing
<1> QED
  BY <1>4, <1>5

LEMMA ResultAnswerable ==
    ASSUME TypeOK, ToolsGoverned, NEW t \in Tools, NEW token, NEW outcome,
           ToolResult(t, token, outcome)
    PROVE  Answerable' /\ ResultsPurged'
<1> PICK r \in Runs : r = tool[t].run
  BY AnsweredTool
<1>1. /\ SameTool(t) /\ Open(t) /\ ~(Open(t)') /\ UNCHANGED grant
      /\ \A u \in Tools \ {t} : tool'[u] = tool[u]
      /\ run'[r].state = "running" /\ \A y \in Runs \ {r} : run'[y] = run[y]
  BY AnsweredTool
<1>2. grant[tool[t].grant].state = "live" /\ OpenTools(r) = {t}
  BY AnsweredTool, FencedTool
<1>3. OpenTools(r)' = {}
  <2>1. \A u \in Tools : tool'[u].run = r /\ Open(u)' => u \in OpenTools(r) \ {t}
    BY <1>1 DEF OpenTools, ToolsOf, Open
  <2> QED
    BY <1>2, <2>1 DEF OpenTools, ToolsOf, Open
<1>4. \A y \in Runs \ {r} : OpenTools(y)' = OpenTools(y)
  BY <1>1 DEF OpenTools, ToolsOf, Open, SameTool
<1>5. Answerable'
  BY <1>1, <1>3, <1>4 DEF ToolsGoverned, Answerable
<1>6. ResultsPurged'
  <2>1. \A u \in Tools : tool'[u].grant = tool[u].grant /\ tool'[u].run = tool[u].run
    BY <1>1 DEF SameTool
  <2>2. \A u \in Tools : tool[u].result # Nil \/ tool[u].claim # Nil => tool[u].run \in Runs
    BY ToolNames DEF ToolsGoverned, ToolsAbsent, NoTool
  <2> QED
    BY <1>1, <1>2, <2>1, <2>2 DEF ToolsGoverned, ResultsPurged, Executing
<1> QED
  BY <1>5, <1>6

LEMMA LoudTools ==
    ASSUME TypeOK, ToolsGoverned, Loud
    PROVE  Answerable' /\ ResultsPurged'
<1>1. ASSUME NEW r \in Runs, FinishFailed(r) \/ FinishSucceeded(r)
      PROVE  Answerable' /\ ResultsPurged'
  <2>1. /\ tool' = ClearTools(ToolsOf(r)) /\ UNCHANGED grant
        /\ \E st \in {"succeeded", "failed", "blocked"} :
              run' = [run EXCEPT ![r].state = st]
    BY <1>1 DEF FinishFailed, FinishSucceeded, FaultStates
  <2>2. /\ run'[r].state \in {"succeeded", "failed", "blocked"}
        /\ \A x \in Runs \ {r} : run'[x].state = run[x].state
    BY <2>1 DEF TypeOK, RunsOK, RunRecord
  <2> QED
    BY <2>1, <2>2, FinishedTools
<1>2. ASSUME NEW ms, NEW b, Recover(ms, b) PROVE Answerable' /\ ResultsPurged'
  <2>1. \A r \in Runs : run'[r].state # "waiting_for_device"
    BY <1>2 DEF Recover, Executing, TypeOK, RunsOK, RunRecord
  <2> QED
    BY <1>2, <2>1, AllToolsEnded DEF Recover
<1>3. CASE FenceModelConfiguration
  <2>1. \A r \in Runs : run'[r].state # "waiting_for_device"
    BY <1>3 DEF FenceModelConfiguration, CancelRuns, Active, Executing, TypeOK, RunsOK,
                RunRecord
  <2> QED
    BY <1>3, <2>1, AllToolsEnded DEF FenceModelConfiguration
<1> QED
  BY <1>1, <1>2, <1>3, RevokedTools, RequestAnswerable, ClaimAnswerable,
     ResultAnswerable DEF Loud

LEMMA InitTools == Init => ToolsGoverned
<1> SUFFICES ASSUME Init PROVE ToolsGoverned
  OBVIOUS
<1>1. \A t \in Tools : tool[t] = NoTool /\ tool[t].state = "none" /\ tool[t].run = Nil
                       /\ tool[t].claim = Nil /\ tool[t].result = Nil
  BY DEF Init, NoTool
<1>2. \A r \in Runs : OpenTools(r) = {} /\ run[r].state = "none"
  BY <1>1 DEF OpenTools, ToolsOf, Init, NoRun
<1> QED
  BY <1>1, <1>2
  DEF ToolsGoverned, ToolsBelong, ToolsAbsent, ToolsLeased, Answerable, ResultsPurged

LEMMA AlwaysGoverned == Spec => []ToolsGoverned
<1>1. TypeOK /\ TypeOK' /\ Seated /\ Exclusive /\ ToolsGoverned /\ [Next]_vars
         => ToolsGoverned'
  <2> SUFFICES ASSUME TypeOK, TypeOK', Seated, Exclusive, ToolsGoverned, [Next]_vars
               PROVE  ToolsGoverned'
    OBVIOUS
  <2>1. Shape /\ (TermsKept \/ Admits) /\ GrantsKept /\ ToolsSame
    BY NextShape, NextTerms, NextGrants, NextTools DEF Step
  <2>2. ToolsBelong' /\ ToolsAbsent' /\ ToolsLeased'
    BY <2>1, BelongKept, LeasesKept DEF ToolsGoverned, Exclusive
  <2>3. Answerable' /\ ResultsPurged'
    BY <2>2, NextQuiet, QuietTools, LoudTools
  <2> QED
    BY <2>2, <2>3 DEF ToolsGoverned
<1> QED
  BY <1>1, InitTools, TypeCorrect, AlwaysSeated, AlwaysExclusive, PTL DEF Spec

\* A run that waits can always be answered, a stopped one leaves nothing to
\* answer, no lease outlasts the run or the grant, and account data goes with
\* the run, the grant or the process it was read for (tool, tool_response,
\* finish, revoke, recover).
THEOREM ToolsBound == Spec => []ToolsFollowRuns
<1>1. TypeOK /\ ToolsGoverned => ToolsFollowRuns
  <2> SUFFICES ASSUME TypeOK, ToolsGoverned PROVE WaitingHasRequest
    BY DEF ToolsFollowRuns, ToolsGoverned
  <2>1. \A r \in Runs : \A t \in ToolsOf(r) : tool[t].state # "none"
    BY NilAssumption DEF ToolsOf, ToolsGoverned, ToolsAbsent, NoTool
  <2>2. \A r \in Runs : \A t \in ToolsOf(r) :
           /\ tool[t].expires <= run[r].deadline
           /\ tool[t].expires <= grant[tool[t].grant].expires
           /\ tool[t].claimUntil <= tool[t].expires
    BY <2>1 DEF ToolsOf, ToolsGoverned, ToolsLeased, Leased
  <2>3. \A r \in Runs : run[r].state = "waiting_for_device" => Cardinality(OpenTools(r)) = 1
    BY FS_Singleton DEF ToolsGoverned, Answerable
  <2> QED
    BY <2>2, <2>3 DEF WaitingHasRequest, ToolsGoverned, Answerable, MayHaveOpen
<1> QED
  BY <1>1, AlwaysGoverned, TypeCorrect, PTL

-----------------------------------------------------------------------------
(* The committed conversation                                              *)

Finished(w) == {r \in Runs : /\ run[r].workspace = w /\ run[r].schedule = Nil
                             /\ run[r].state = "succeeded"}

\* The turns of a workspace are its succeeded operator runs, each once; an
\* operator run that is still active holds the history as committed now.
Complete(w) ==
    /\ Turns(w) \ {Import} = Finished(w)
    /\ \A a, b \in DOMAIN workspace[w].history :
          workspace[w].history[a] = workspace[w].history[b] => a = b
Untouched(w) ==
    /\ workspace[w].history = <<>>
    /\ \A r \in Runs : run[r].state # "none" /\ run[r].workspace = w => run[r].schedule # Nil
Current(w) ==
    \A r \in ActiveRuns : run[r].workspace = w /\ run[r].schedule = Nil =>
        run[r].history = workspace[w].history

Conversed(w) ==
    workspace[w].state # "deleted" =>
        /\ Complete(w) /\ Current(w)
        /\ ~workspace[w].admitted => Untouched(w)

\* Nothing succeeds and no history changes but by deletion.
NoSuccess == \A r \in Runs : run'[r].state = "succeeded" => run[r].state = "succeeded"
HistoryKept ==
    \A w \in Workspaces : workspace'[w].state # "deleted" =>
        /\ workspace[w].state # "deleted"
        /\ workspace'[w].history = workspace[w].history
        /\ workspace'[w].admitted = workspace[w].admitted
Calm == NoSuccess /\ HistoryKept

LEMMA UnchangedHistory == ASSUME UNCHANGED workspace PROVE HistoryKept
BY DEF HistoryKept

LEMMA TouchedHistory ==
    ASSUME TypeOK, NEW w \in Workspaces, workspace[w].state # "deleted",
           workspace' = Touched(w)
    PROVE  HistoryKept
BY DEF HistoryKept, Touched, TypeOK, WorkspacesOK, WorkspaceRecord

LEMMA UnchangedSuccess == ASSUME UNCHANGED run PROVE NoSuccess
BY DEF NoSuccess

LEMMA CancelledSuccess ==
    ASSUME RunsOK, NEW R, run' = CancelRuns(R)
    PROVE  NoSuccess
BY DEF RunsOK, RunRecord, CancelRuns, Active, Executing, NoSuccess

LEMMA CountedSuccess ==
    ASSUME RunsOK, NEW r \in Runs,
           \/ run' = Counted(r)
           \/ run' = [Counted(r) EXCEPT ![r].state = "waiting_for_device"]
    PROVE  NoSuccess
<1>1. Counted(r) \in [Runs -> RunRecord] /\ \A x \in Runs : Counted(r)[x].state = run[x].state
  BY CountedType
<1> QED
  BY <1>1 DEF NoSuccess, RunRecord

LEMMA OperatorCalm ==
    ASSUME TypeOK, Operator
    PROVE  Calm \/ OperatorAdmits
<1>1. ASSUME UNCHANGED <<run, workspace>> PROVE Calm
  BY <1>1, UnchangedSuccess, UnchangedHistory DEF Calm
<1>2. ASSUME NEW R, run' = CancelRuns(R), UNCHANGED workspace PROVE Calm
  BY <1>2, CancelledSuccess, UnchangedHistory DEF Calm, TypeOK
<1>3. ASSUME NEW w \in Workspaces, workspace[w].state # "deleted", workspace' = Touched(w),
             UNCHANGED run
      PROVE  Calm
  BY <1>3, UnchangedSuccess, TouchedHistory DEF Calm
<1>4. ASSUME NEW w \in Workspaces, DeleteWorkspace(w) PROVE Calm
  <2>1. NoSuccess
    BY <1>4, CancelledSuccess DEF DeleteWorkspace, Invalidate, TypeOK
  <2>2. HistoryKept
    BY <1>4 DEF DeleteWorkspace, HistoryKept, TypeOK, WorkspacesOK, WorkspaceRecord
  <2> QED
    BY <2>1, <2>2 DEF Calm
<1>5. ASSUME NEW w \in Workspaces, NEW r \in Runs, NEW m \in Models,
             NEW refs \in SUBSET CurrentRefs, NEW targets \in SUBSET Interfaces,
             NEW import \in BOOLEAN, CreateRun(r, w, m, refs, targets, import)
      PROVE  OperatorAdmits
  BY <1>5, CurrentRefsAreRefs DEF OperatorAdmits
<1>6. ASSUME NEW w \in Workspaces, NEW g, NEW c, NEW m, NEW ops, NEW e, NEW p, NEW i,
             NEW s, NEW refs, NEW n,
             \/ CreateGrant(g, w, c, m, ops, e) \/ ProposeByOperator(p, w, i)
             \/ CreateSchedule(s, w, i, m, refs, e, n)
      PROVE  Calm
  BY <1>3, <1>6 DEF CreateGrant, ProposeByOperator, Proposes, CreateSchedule, Schedulable
<1>7. ASSUME NEW g, NEW r, NEW i, NEW s,
             \/ RevokeGrant(g) \/ CancelRun(r) \/ DeleteInterface(i)
             \/ PauseSchedule(s) \/ DeleteSchedule(s)
      PROVE  Calm
  BY <1>1, <1>2, <1>7
  DEF RevokeGrant, CancelRun, DeleteInterface, PauseSchedule, DeleteSchedule, Invalidate
<1>8. ASSUME NEW p, NEW i, NEW s, NEW n,
             \/ Publish(p, i) \/ RenameInterface(i) \/ RollbackInterface(i, n)
             \/ EnableSchedule(s)
      PROVE  Calm
  BY <1>1, <1>8 DEF Publish, RenameInterface, RollbackInterface, EnableSchedule
<1> QED
  BY <1>4, <1>5, <1>6, <1>7, <1>8 DEF Operator

LEMMA DeviceCalm ==
    ASSUME TypeOK, Device
    PROVE  Calm
<1>1. ASSUME NEW t \in Tools, NEW token, NEW outcome, ToolResult(t, token, outcome)
      PROVE  NoSuccess
  BY <1>1, AnsweredTool DEF NoSuccess
<1> QED
  BY <1>1, UnchangedSuccess, UnchangedHistory DEF Device, ClaimTool, ToolResult, Calm

LEMMA SupervisorCalm ==
    ASSUME TypeOK, Supervisor
    PROVE  Calm \/ \E r \in Runs : FinishSucceeded(r)
<1> USE DEF TypeOK
<1>1. CASE StartNext
  <2>1. NoSuccess
    BY <1>1 DEF StartNext, Oldest, Queued, RunsOK, RunRecord, NoSuccess
  <2> QED
    BY <1>1, <2>1, UnchangedHistory DEF StartNext, Calm
<1>2. CASE TickStart
  BY <1>2, UnchangedSuccess, UnchangedHistory DEF TickStart, Calm
<1>3. ASSUME NEW r \in Runs, FinishCancelled(r) \/ FinishFailed(r) PROVE Calm
  <2>1. UNCHANGED workspace /\ \E st \in {"cancelled", "failed", "blocked"} :
                                  run' = [run EXCEPT ![r].state = st]
    BY <1>3 DEF FinishCancelled, FinishFailed, FaultStates
  <2>2. NoSuccess
    BY <2>1 DEF RunsOK, RunRecord, NoSuccess
  <2> QED
    BY <2>1, <2>2, UnchangedHistory DEF Calm
<1>4. ASSUME NEW r \in Runs, ReserveModelRequest(r) PROVE Calm
  <2>1. PICK n : run' = [run EXCEPT ![r].requests = n]
    BY <1>4 DEF ReserveModelRequest
  <2>2. NoSuccess
    BY <2>1 DEF RunsOK, RunRecord, NoSuccess
  <2> QED
    BY <1>4, <2>2, UnchangedHistory DEF ReserveModelRequest, Calm
<1>5. ASSUME NEW r \in Runs, NEW p, NEW i, ProposeByRun(p, r, i) PROVE Calm
  <2>1. /\ run[r].workspace \in Workspaces /\ run' = Counted(r)
        /\ workspace[run[r].workspace].state # "deleted"
        /\ workspace' = Touched(run[r].workspace)
    BY <1>5 DEF ProposeByRun, Proposes, Calling, RunsOK
  <2>2. HistoryKept
    BY <2>1, TouchedHistory
  <2> QED
    BY <2>1, <2>2, CountedSuccess DEF Calm
<1>6. ASSUME NEW r \in Runs, NEW t, NEW op, NEW s, NEW i, NEW e, NEW n,
             ReadTool(r) \/ RequestTool(r, t, op) \/ CreateScheduleByRun(s, r, i, e, n)
      PROVE  Calm
  BY <1>6, CountedSuccess, UnchangedHistory
  DEF ReadTool, RequestTool, CreateScheduleByRun, Calm
<1> QED
  BY <1>1, <1>2, <1>3, <1>4, <1>5, <1>6 DEF Supervisor

LEMMA HostCalm ==
    ASSUME TypeOK, Host
    PROVE  Calm
<1>1. ASSUME NEW ms, NEW b, Recover(ms, b) PROVE NoSuccess
  BY <1>1 DEF Recover, TypeOK, RunsOK, RunRecord, NoSuccess
<1> QED
  BY <1>1, UnchangedSuccess, UnchangedHistory, CancelledSuccess
  DEF Host, Unverify, RefreshModels, Clock, FenceModelConfiguration, Recover, TypeOK, Calm

LEMMA TickCalm ==
    ASSUME TypeOK, NEW s \in Schedules, TickSchedule(s)
    PROVE  Calm
<1>1. UNCHANGED workspace
  BY DEF TickSchedule
<1>2. ASSUME NEW r \in Runs, TickAdmits(s, r) PROVE NoSuccess
  BY <1>2, QueuedTerms DEF TickAdmits, NoSuccess, TypeOK
<1> QED
  BY <1>1, <1>2, UnchangedSuccess, UnchangedHistory
  DEF TickSchedule, TickEnds, TickSkips, TickMisses, TickRejects, Calm

LEMMA NextCalm ==
    TypeOK /\ [Next]_vars => Calm \/ OperatorAdmits \/ \E r \in Runs : FinishSucceeded(r)
<1> SUFFICES ASSUME TypeOK, [Next]_vars
             PROVE  Calm \/ OperatorAdmits \/ \E r \in Runs : FinishSucceeded(r)
  OBVIOUS
<1>1. CASE UNCHANGED vars
  BY <1>1, UnchangedSuccess, UnchangedHistory DEF vars, Calm
<1>2. CASE Next
  BY <1>2, TickCalm, OperatorCalm, DeviceCalm, SupervisorCalm, HostCalm DEF Next
<1> QED
  BY <1>1, <1>2

\* A run that comes to be, other than by create_run for an operator, belongs
\* to a schedule.
LEMMA NewcomersScheduled ==
    ASSUME TypeOK, TermsKept \/ Admits, ~OperatorAdmits,
           NEW r \in Runs, run[r].state = "none", run'[r].state # "none"
    PROVE  run'[r].schedule # Nil
<1>1. ~TermsKept
  BY DEF TermsKept, SameTerms
<1>2. PICK s \in ticking, x \in Runs : TickAdmission(s, x)
  BY <1>1 DEF Admits
<1>3. s \in Schedules /\ s # Nil
  BY NilAssumption DEF TypeOK, TickingOK
<1>4. run'[x].schedule = s /\ \A y \in Runs \ {x} : run'[y] = run[y]
  BY <1>2, QueuedTerms DEF TickAdmission, TickAdmits, TypeOK
<1> QED
  BY <1>3, <1>4

\* What succeeded keeps its place, and no other run joins it.
LEMMA FinishedKept ==
    ASSUME TypeOK, TermsKept \/ Admits, RunMoves, NoSuccess, NEW w \in Workspaces
    PROVE  Finished(w)' = Finished(w)
<1>1. \A r \in Runs : run[r].state = "succeeded" <=> run'[r].state = "succeeded"
  BY DEF RunMoves, NoSuccess, Terminal
<1>2. \A r \in Runs : run[r].state = "succeeded" => SameTerms(r)
  BY ExistingTerms
<1> QED
  BY <1>1, <1>2 DEF Finished, SameTerms

LEMMA CalmConversed ==
    ASSUME TypeOK, TermsKept \/ Admits, ~OperatorAdmits, RunMoves, Shape, Calm,
           NEW w \in Workspaces, Conversed(w)
    PROVE  Conversed(w)'
<1> SUFFICES ASSUME workspace'[w].state # "deleted"
             PROVE  /\ Complete(w)' /\ Current(w)'
                    /\ ~workspace'[w].admitted => Untouched(w)'
  BY DEF Conversed
<1>1. /\ workspace[w].state # "deleted" /\ workspace'[w].history = workspace[w].history
      /\ workspace'[w].admitted = workspace[w].admitted
  BY DEF Calm, HistoryKept
<1>2. /\ Complete(w) /\ Current(w)
      /\ ~workspace[w].admitted => Untouched(w)
  BY <1>1 DEF Conversed
<1>3. Complete(w)'
  <2>1. Finished(w)' = Finished(w)
    BY FinishedKept DEF Calm
  <2>2. Turns(w)' = Turns(w)
    BY <1>1 DEF Turns
  <2> QED
    BY <1>1, <1>2, <2>1, <2>2 DEF Complete
<1>4. ASSUME NEW r \in Runs, run'[r].state # "none", run'[r].schedule = Nil
      PROVE  run[r].state # "none" /\ SameTerms(r)
  BY <1>4, NewcomersScheduled, ExistingTerms
<1>5. Current(w)'
  <2> SUFFICES ASSUME NEW r \in ActiveRuns', run'[r].workspace = w, run'[r].schedule = Nil
               PROVE  run'[r].history = workspace'[w].history
    BY DEF Current
  <2>1. r \in Runs /\ Active(r)' /\ run'[r].state # "none"
    BY DEF ActiveRuns, Active, Executing
  <2>2. SameTerms(r) /\ Active(r)
    BY <1>4, <2>1, ActiveBefore DEF TypeOK
  <2> QED
    BY <1>1, <1>2, <2>1, <2>2 DEF Current, ActiveRuns, SameTerms
<1>6. ~workspace'[w].admitted => Untouched(w)'
  BY <1>1, <1>2, <1>4 DEF Untouched, SameTerms
<1> QED
  BY <1>3, <1>5, <1>6

\* create_run for an operator: the run takes the history as committed.
LEMMA AdmissionConversed ==
    ASSUME TypeOK, OperatorAdmits, \A w \in Workspaces : Conversed(w)
    PROVE  \A w \in Workspaces : Conversed(w)'
<1>1. PICK r \in Runs, u \in Workspaces, m \in Models, refs \in SUBSET GrantRef,
           targets \in SUBSET Interfaces, import \in BOOLEAN :
           CreateRun(r, u, m, refs, targets, import)
  BY DEF OperatorAdmits
<1> DEFINE h == IF workspace[u].admitted THEN workspace[u].history
                ELSE IF import THEN <<Import>> ELSE <<>>
<1>2. /\ r \in Fresh /\ workspace[u].state # "deleted"
      /\ \A x \in ActiveRuns : run[x].workspace # u
      /\ run'[r].state = "queued" /\ run'[r].workspace = u /\ run'[r].history = h
      /\ run'[r].schedule = Nil
      /\ \A x \in Runs \ {r} : run'[x] = run[x]
  BY <1>1, QueuedTerms DEF CreateRun, Admissible, TypeOK
<1>3. /\ workspace'[u].admitted /\ workspace'[u].history = h
      /\ workspace'[u].state = "live"
      /\ \A w \in Workspaces \ {u} : workspace'[w] = workspace[w]
  BY <1>1 DEF CreateRun, TypeOK, WorkspacesOK
<1>4. \A w \in Workspaces : Finished(w)' = Finished(w)
  BY <1>2 DEF Finished, Fresh
<1>5. \A x \in ActiveRuns' : x = r \/ x \in ActiveRuns
  BY <1>2 DEF ActiveRuns, Active
<1>6. ASSUME NEW w \in Workspaces, w # u PROVE Conversed(w)'
  <2>1. Turns(w)' = Turns(w)
    BY <1>3, <1>6 DEF Turns
  <2>2. Complete(w) => Complete(w)'
    BY <1>3, <1>4, <1>6, <2>1 DEF Complete
  <2>3. Current(w) => Current(w)'
    BY <1>2, <1>3, <1>5, <1>6 DEF Current, ActiveRuns
  <2>4. Untouched(w) => Untouched(w)'
    BY <1>2, <1>3, <1>6 DEF Untouched
  <2> QED
    BY <1>3, <1>6, <2>2, <2>3, <2>4 DEF Conversed
<1>7. Conversed(u)'
  <2>1. Conversed(u) /\ Complete(u) /\ (~workspace[u].admitted => Untouched(u))
    BY <1>2 DEF Conversed
  <2>2. Current(u)'
    BY <1>2, <1>3, <1>5 DEF Current, ActiveRuns
  <2>3. CASE workspace[u].admitted
    <3>1. workspace'[u].history = workspace[u].history
      BY <1>3, <2>3
    <3>2. Turns(u)' = Turns(u)
      BY <3>1 DEF Turns
    <3>3. Complete(u)'
      BY <1>4, <2>1, <3>1, <3>2 DEF Complete
    <3> QED
      BY <1>3, <2>2, <3>3 DEF Conversed
  <2>4. CASE ~workspace[u].admitted
    <3>1. Finished(u) = {}
      BY <2>1, <2>4 DEF Untouched, Finished
    <3>2. workspace'[u].history = <<Import>> \/ workspace'[u].history = <<>>
      BY <1>3, <2>4
    <3>3. Turns(u)' \ {Import} = {}
      BY <3>2 DEF Turns
    <3>4. \A a, b \in DOMAIN workspace'[u].history : a = b
      BY <3>2
    <3>5. Complete(u)'
      BY <1>4, <3>1, <3>3, <3>4 DEF Complete
    <3> QED
      BY <1>3, <2>2, <3>5 DEF Conversed
  <2> QED
    BY <2>3, <2>4
<1> QED
  BY <1>6, <1>7

\* finish: the turn is added to the history the run was given, which is the
\* one committed now.
LEMMA SuccessConversed ==
    ASSUME TypeOK, Apart, NEW r \in Runs, FinishSucceeded(r),
           \A w \in Workspaces : Conversed(w)
    PROVE  \A w \in Workspaces : Conversed(w)'
<1>0. PICK u \in Workspaces : u = run[r].workspace
  BY DEF FinishSucceeded, TypeOK, RunsOK
<1>1. /\ u = run[r].workspace /\ workspace[u].state = "live" /\ r \in ActiveRuns
      /\ run[r].state = "running" /\ run' = [run EXCEPT ![r].state = "succeeded"]
  BY <1>0 DEF FinishSucceeded, Succeeds, Fence, LiveWorkspace, ActiveRuns, Active, Executing
<1>2. /\ run'[r].state = "succeeded" /\ run'[r].workspace = run[r].workspace
      /\ run'[r].schedule = run[r].schedule /\ run'[r].history = run[r].history
      /\ \A x \in Runs \ {r} : run'[x] = run[x]
  BY <1>1 DEF TypeOK, RunsOK, RunRecord
<1>3. ActiveRuns' \subseteq ActiveRuns \ {r}
  BY <1>1, <1>2 DEF ActiveRuns, Active, Executing
<1>4. ASSUME NEW w \in Workspaces, workspace'[w] = workspace[w],
             w # u \/ run[r].schedule # Nil
      PROVE  Conversed(w)'
  <2>1. Finished(w)' = Finished(w)
    BY <1>1, <1>2, <1>4 DEF Finished
  <2>2. Turns(w)' = Turns(w)
    BY <1>4 DEF Turns
  <2>3. Complete(w) => Complete(w)'
    BY <1>4, <2>1, <2>2 DEF Complete
  <2>4. Current(w) => Current(w)'
    BY <1>2, <1>3, <1>4 DEF Current, ActiveRuns
  <2>5. Untouched(w) => Untouched(w)'
    BY <1>1, <1>2, <1>4 DEF Untouched
  <2> QED
    BY <1>4, <2>3, <2>4, <2>5 DEF Conversed
<1>5. CASE run[r].schedule # Nil
  BY <1>4, <1>5 DEF FinishSucceeded
<1>6. CASE run[r].schedule = Nil
  <2>1. workspace' = [workspace EXCEPT ![u].history = Append(run[r].history, r)]
    BY <1>1, <1>6 DEF FinishSucceeded
  <2>2. /\ workspace'[u].state = workspace[u].state
        /\ workspace'[u].admitted = workspace[u].admitted
        /\ workspace'[u].history = Append(run[r].history, r)
        /\ \A w \in Workspaces \ {u} : workspace'[w] = workspace[w]
    BY <1>1, <2>1 DEF TypeOK, WorkspacesOK, WorkspaceRecord
  <2>3. Complete(u) /\ Current(u) /\ (~workspace[u].admitted => Untouched(u))
    BY <1>1 DEF Conversed
  <2>4. PICK h \in Histories : h = workspace[u].history
    BY <1>1 DEF TypeOK, WorkspacesOK, WorkspaceRecord
  <2>5. run[r].history = h
    BY <1>1, <1>6, <2>3, <2>4 DEF Current
  <2>6. workspace[u].admitted
    BY <1>1, <1>6, <2>3 DEF Untouched
  <2>7. r \notin Finished(u) /\ Finished(u)' = Finished(u) \cup {r}
    BY <1>1, <1>2, <1>6 DEF Finished
  <2>8. \A a \in 1..Len(h) : h[a] # r
    <3>1. r # Import
      BY NilAssumption
    <3>2. Turns(u) \ {Import} = Finished(u) /\ DOMAIN h = 1..Len(h)
      BY <2>3, <2>4 DEF Complete, Histories
    <3> QED
      BY <2>4, <2>7, <3>1, <3>2 DEF Turns
  <2>9. /\ Len(h) \in Nat /\ Append(h, r) \in Histories
        /\ DOMAIN h = 1..Len(h) /\ DOMAIN Append(h, r) = 1..Len(h) + 1
        /\ Append(h, r)[Len(h) + 1] = r
        /\ \A a \in 1..Len(h) : Append(h, r)[a] = h[a]
    BY DEF Histories
  <2>10. Complete(u)'
    <3>1. workspace'[u].history = Append(h, r)
      BY <2>2, <2>5
    <3>2. Turns(u)' = Turns(u) \cup {r}
      BY <2>4, <2>9, <3>1 DEF Turns
    <3>3. r # Import
      BY NilAssumption
    <3>4. Turns(u)' \ {Import} = Finished(u)'
      BY <2>3, <2>7, <3>2, <3>3 DEF Complete
    <3>5. \A a, b \in 1..Len(h) : h[a] = h[b] => a = b
      BY <2>3, <2>4, <2>9 DEF Complete
    <3>6. \A a, b \in 1..Len(h) + 1 : Append(h, r)[a] = Append(h, r)[b] => a = b
      BY <2>8, <2>9, <3>5
    <3> QED
      BY <2>9, <3>1, <3>4, <3>6 DEF Complete
  <2>11. Current(u)'
    <3>1. \A x \in ActiveRuns' : run'[x].workspace # u
      BY <1>1, <1>2, <1>3 DEF Apart, ActiveRuns
    <3> QED
      BY <3>1 DEF Current
  <2>12. Conversed(u)'
    BY <2>2, <2>6, <2>10, <2>11 DEF Conversed
  <2> QED
    BY <1>4, <2>2, <2>12
<1> QED
  BY <1>5, <1>6

LEMMA InitConversed == Init => \A w \in Workspaces : Conversed(w)
<1> SUFFICES ASSUME Init, NEW w \in Workspaces PROVE Conversed(w)
  OBVIOUS
<1>1. workspace[w].history = <<>> /\ \A r \in Runs : run[r].state = "none"
  BY DEF Init, NoRun
<1>2. Turns(w) = {} /\ Finished(w) = {} /\ ActiveRuns = {}
  BY <1>1 DEF Turns, Finished, ActiveRuns, Active, Executing
<1> QED
  BY <1>1, <1>2 DEF Conversed, Complete, Current, Untouched

LEMMA AlwaysConversed == Spec => [](\A w \in Workspaces : Conversed(w))
<1> DEFINE Conversation == \A w \in Workspaces : Conversed(w)
<1>1. TypeOK /\ Seated /\ Exclusive /\ Conversation /\ [Next]_vars => Conversation'
  <2> SUFFICES ASSUME TypeOK, Seated, Exclusive, Conversation, [Next]_vars
               PROVE  Conversation'
    OBVIOUS
  <2>1. Shape /\ (TermsKept \/ Admits) /\ RunMoves
    BY NextShape, NextTerms, NextMoves DEF Step
  <2>2. CASE OperatorAdmits
    BY <2>2, AdmissionConversed
  <2>3. ASSUME NEW r \in Runs, FinishSucceeded(r) PROVE Conversation'
    BY <2>3, SuccessConversed DEF Exclusive
  <2>4. ASSUME Calm, ~OperatorAdmits PROVE Conversation'
    BY <2>1, <2>4, CalmConversed
  <2> QED
    BY <2>2, <2>3, <2>4, NextCalm
<1>2. Init => Conversation
  BY InitConversed
<1>3. Spec => []Conversation
  <2> HIDE DEF Conversation
  <2> QED
    BY <1>1, <1>2, TypeCorrect, AlwaysSeated, AlwaysExclusive, PTL DEF Spec
<1> QED
  BY <1>3

\* The committed conversation of a workspace is exactly its succeeded operator
\* runs, each once: no turn is lost to a run that started from an older copy,
\* because no other run of the workspace commits while it is active
\* (create_run, finish).
THEOREM ConversationKept == Spec => []ConversationComplete
<1>1. (\A w \in Workspaces : Conversed(w)) => ConversationComplete
  BY DEF Conversed, Complete, Finished, ConversationComplete, LiveWorkspace
<1> QED
  BY <1>1, AlwaysConversed, PTL

-----------------------------------------------------------------------------
(* What a step does to a schedule                                          *)

\* A schedule keeps its terms and its attempts, and waits for the slot it
\* waited for or for none.  One that did not exist may come to be.
SameSlot(s) ==
    /\ schedule[s].state # "none" =>
          /\ schedule'[s].state # "none"
          /\ schedule'[s].interface = schedule[s].interface
          /\ schedule'[s].maxRuns = schedule[s].maxRuns
          /\ schedule'[s].runsStarted = schedule[s].runsStarted
    /\ schedule[s].state = "none" =>
          \/ schedule'[s] = schedule[s]
          \/ schedule'[s].state # "none" /\ schedule'[s].runsStarted = 0
    /\ \/ schedule'[s].next = Nil
       \/ schedule'[s].next = schedule[s].next /\ schedule'[s].state = schedule[s].state

SlotsKept == UNCHANGED occurrence /\ \A s \in Schedules : SameSlot(s)

LEMMA UnchangedSlots == ASSUME UNCHANGED <<schedule, occurrence>> PROVE SlotsKept
BY DEF SlotsKept, SameSlot

\* What pausing one schedule leaves of it.
LEMMA PausedSlot ==
    ASSUME NEW old \in ScheduleRecord, NEW new,
           new = [old EXCEPT !.state = "paused", !.version = @ + 1, !.next = Nil]
    PROVE  /\ new.state = "paused" /\ new.interface = old.interface
           /\ new.maxRuns = old.maxRuns /\ new.runsStarted = old.runsStarted
           /\ new.next = Nil
BY DEF ScheduleRecord

LEMMA PausedSlots ==
    ASSUME TypeOK, NEW S \in SUBSET LiveSchedules, UNCHANGED occurrence,
           \/ schedule' = PauseSchedules(S)
           \/ \E d \in S : schedule' = [PauseSchedules(S) EXCEPT ![d].state = "deleted"]
    PROVE  SlotsKept
<1>1. S \subseteq Schedules /\ \A s \in S : schedule[s].state # "none"
  BY DEF LiveSchedules
<1>2. PICK P : P = PauseSchedules(S)
  OBVIOUS
<1>3. P \in [Schedules -> ScheduleRecord]
  BY <1>2, PausedType DEF TypeOK
<1>4. ASSUME NEW s \in Schedules
      PROVE  IF s \in S
             THEN /\ P[s].state = "paused" /\ P[s].interface = schedule[s].interface
                  /\ P[s].maxRuns = schedule[s].maxRuns
                  /\ P[s].runsStarted = schedule[s].runsStarted /\ P[s].next = Nil
             ELSE P[s] = schedule[s]
  <2>1. CASE s \in S
    <3>1. P[s] = [schedule[s] EXCEPT !.state = "paused", !.version = @ + 1, !.next = Nil]
      BY <1>1, <1>2, <2>1 DEF PauseSchedules
    <3>2. schedule[s] \in ScheduleRecord
      BY DEF TypeOK, SchedulesOK
    <3> QED
      BY <2>1, <3>1, <3>2, PausedSlot
  <2>2. CASE s \notin S
    BY <1>2, <2>2 DEF PauseSchedules
  <2> QED
    BY <2>1, <2>2
<1>5. CASE schedule' = P
  BY <1>1, <1>4, <1>5 DEF SlotsKept, SameSlot
<1>6. ASSUME NEW d \in S, schedule' = [P EXCEPT ![d].state = "deleted"]
      PROVE  SlotsKept
  <2>1. /\ schedule'[d].state = "deleted" /\ schedule'[d].interface = P[d].interface
        /\ schedule'[d].maxRuns = P[d].maxRuns /\ schedule'[d].runsStarted = P[d].runsStarted
        /\ schedule'[d].next = P[d].next
        /\ \A s \in Schedules \ {d} : schedule'[s] = P[s]
    BY <1>1, <1>3, <1>6 DEF ScheduleRecord
  <2> QED
    BY <1>1, <1>4, <2>1 DEF SlotsKept, SameSlot
<1> QED
  BY <1>2, <1>5, <1>6

LEMMA CreatedSlots ==
    ASSUME TypeOK, NEW s \in Schedules, NEW w, NEW i, NEW m, NEW refs, NEW e, NEW n,
           schedule[s].state = "none", UNCHANGED occurrence,
           schedule' = [schedule EXCEPT ![s] = NewSchedule(w, i, m, refs, e, n)]
    PROVE  SlotsKept
<1>1. /\ schedule'[s].state = "paused" /\ schedule'[s].runsStarted = 0
      /\ schedule'[s].next = Nil
      /\ \A x \in Schedules \ {s} : schedule'[x] = schedule[x]
  BY DEF NewSchedule, NoSchedule, TypeOK, SchedulesOK
<1> QED
  BY <1>1 DEF SlotsKept, SameSlot

LEMMA EndedSlots ==
    ASSUME TypeOK, NEW s \in Schedules, UNCHANGED occurrence, schedule[s].state # "none",
           schedule' = [schedule EXCEPT ![s] = [@ EXCEPT !.state = "ended", !.next = Nil]]
    PROVE  SlotsKept
BY DEF SlotsKept, SameSlot, TypeOK, SchedulesOK, ScheduleRecord

\* The steps that move a schedule to another slot.
Handles(s) ==
    /\ UNCHANGED control
    /\ TickMisses(s) \/ TickRejects(s) \/ \E r \in Runs : TickAdmission(s, r)
MovesSlot == \E s \in Schedules : EnableSchedule(s) \/ (s \in ticking /\ Handles(s))

LEMMA OperatorSlots ==
    ASSUME TypeOK, Operator
    PROVE  SlotsKept \/ MovesSlot
<1>1. ASSUME NEW w, DeleteWorkspace(w) PROVE SlotsKept
  BY <1>1, PausedSlots DEF DeleteWorkspace
<1>2. ASSUME NEW g, RevokeGrant(g) PROVE SlotsKept
  BY <1>2, PausedSlots DEF RevokeGrant
<1>3. ASSUME NEW i, DeleteInterface(i) PROVE SlotsKept
  BY <1>3, PausedSlots DEF DeleteInterface
<1>4. ASSUME NEW s \in Schedules, PauseSchedule(s) \/ DeleteSchedule(s) PROVE SlotsKept
  <2>1. {s} \in SUBSET LiveSchedules /\ s \in {s}
    BY <1>4 DEF PauseSchedule, DeleteSchedule
  <2> QED
    BY <1>4, <2>1, PausedSlots DEF PauseSchedule, DeleteSchedule
<1>5. ASSUME NEW s \in Schedules, NEW w, NEW i, NEW m, NEW refs, NEW e, NEW n,
             CreateSchedule(s, w, i, m, refs, e, n)
      PROVE  SlotsKept
  BY <1>5, CreatedSlots DEF CreateSchedule, Schedulable
<1>6. ASSUME NEW s \in Schedules, EnableSchedule(s) PROVE MovesSlot
  BY <1>6 DEF MovesSlot
<1>7. ASSUME NEW w, NEW r, NEW m, NEW refs, NEW targets, NEW import, NEW p, NEW i,
             NEW g, NEW c, NEW ops, NEW e, NEW n,
             \/ CreateGrant(g, w, c, m, ops, e) \/ CreateRun(r, w, m, refs, targets, import)
             \/ ProposeByOperator(p, w, i) \/ CancelRun(r) \/ Publish(p, i)
             \/ RenameInterface(i) \/ RollbackInterface(i, n)
      PROVE  SlotsKept
  BY <1>7, UnchangedSlots
  DEF CreateGrant, CreateRun, ProposeByOperator, CancelRun, Publish, RenameInterface,
      RollbackInterface
<1> QED
  BY <1>1, <1>2, <1>3, <1>4, <1>5, <1>6, <1>7 DEF Operator

LEMMA SupervisorSlots ==
    ASSUME TypeOK, Supervisor
    PROVE  SlotsKept
<1>1. ASSUME NEW s \in Schedules, NEW r, NEW i, NEW e, NEW n,
             CreateScheduleByRun(s, r, i, e, n)
      PROVE  SlotsKept
  BY <1>1, CreatedSlots DEF CreateScheduleByRun, Schedulable
<1>2. ASSUME NEW r, NEW t, NEW op, NEW p, NEW i,
             \/ StartNext \/ TickStart \/ FinishCancelled(r) \/ FinishFailed(r)
             \/ FinishSucceeded(r) \/ ReserveModelRequest(r) \/ ReadTool(r)
             \/ RequestTool(r, t, op) \/ ProposeByRun(p, r, i)
      PROVE  SlotsKept
  BY <1>2, UnchangedSlots
  DEF StartNext, TickStart, FinishCancelled, FinishFailed, FinishSucceeded,
      ReserveModelRequest, ReadTool, RequestTool, ProposeByRun
<1> QED
  BY <1>1, <1>2 DEF Supervisor

LEMMA HostSlots ==
    ASSUME TypeOK, Host
    PROVE  SlotsKept
<1>1. CASE FenceModelConfiguration
  <2>1. {s \in Schedules : schedule[s].state = "enabled"} \in SUBSET LiveSchedules
    BY DEF LiveSchedules
  <2> QED
    BY <1>1, <2>1, PausedSlots DEF FenceModelConfiguration
<1>2. ASSUME NEW ms, NEW b, Unverify \/ RefreshModels(ms) \/ Recover(ms, b) \/ Clock
      PROVE  SlotsKept
  BY <1>2, UnchangedSlots DEF Unverify, RefreshModels, Recover, Clock
<1> QED
  BY <1>1, <1>2 DEF Host

LEMMA TickSlots ==
    ASSUME TypeOK, NEW s \in Schedules, TickSchedule(s)
    PROVE  SlotsKept \/ MovesSlot
<1>1. schedule[s].state = "enabled" /\ s \in ticking
  BY DEF TickSchedule, TypeOK, TickingOK
<1>2. CASE TickEnds(s)
  BY <1>1, <1>2, EndedSlots DEF TickEnds
<1>3. CASE TickSkips(s)
  BY <1>3, UnchangedSlots DEF TickSkips
<1>4. CASE TickMisses(s) \/ TickRejects(s) \/ \E r \in Runs : TickAdmits(s, r)
  BY <1>1, <1>4 DEF MovesSlot, Handles, TickAdmission, TickSchedule
<1> QED
  BY <1>2, <1>3, <1>4 DEF TickSchedule

LEMMA NextSlots == TypeOK /\ [Next]_vars => SlotsKept \/ MovesSlot
<1> SUFFICES ASSUME TypeOK, [Next]_vars PROVE SlotsKept \/ MovesSlot
  OBVIOUS
<1>1. CASE UNCHANGED vars
  BY <1>1, UnchangedSlots DEF vars
<1>2. CASE Device
  BY <1>2, UnchangedSlots DEF Device, ClaimTool, ToolResult
<1>3. CASE Next
  BY <1>2, <1>3, TickSlots, OperatorSlots, SupervisorSlots, HostSlots DEF Next
<1> QED
  BY <1>1, <1>3

-----------------------------------------------------------------------------
(* The attempts of a schedule and the slot it waits for                    *)

\* Cron.next looks ahead.
LEMMA NextSlotAhead ==
    ASSUME TypeOK, BoundAssumption, NEW s \in Schedules, NEW end,
           NextSlot(s, end) # Nil
    PROVE  NextSlot(s, end) \in Nat /\ NextSlot(s, end) > now
BY DEF NextSlot, BoundAssumption

\* Nothing else moves the clock, and time does not go back.
LEMMA OnlyClock == [Next]_vars => UNCHANGED now \/ Clock
<1>1. ASSUME NEW w, NEW r, NEW m, NEW refs, NEW targets, NEW import, NEW p, NEW i,
             NEW g, NEW c, NEW ops, NEW s, NEW e, NEW n,
             \/ DeleteWorkspace(w) \/ CreateGrant(g, w, c, m, ops, e)
             \/ CreateRun(r, w, m, refs, targets, import)
             \/ ProposeByOperator(p, w, i) \/ CreateSchedule(s, w, i, m, refs, e, n)
             \/ RevokeGrant(g) \/ CancelRun(r) \/ Publish(p, i)
             \/ RenameInterface(i) \/ DeleteInterface(i) \/ RollbackInterface(i, n)
             \/ EnableSchedule(s) \/ PauseSchedule(s) \/ DeleteSchedule(s)
             \/ TickSchedule(s)
      PROVE  UNCHANGED now
  BY <1>1
  DEF DeleteWorkspace, CreateGrant, CreateRun, ProposeByOperator, CreateSchedule,
      RevokeGrant, CancelRun, Publish, RenameInterface, DeleteInterface,
      RollbackInterface, EnableSchedule, PauseSchedule, DeleteSchedule, TickSchedule,
      control
<1>2. ASSUME NEW r, NEW t, NEW op, NEW p, NEW i, NEW s, NEW e, NEW n, NEW token,
             NEW outcome, NEW ms, NEW b,
             \/ StartNext \/ TickStart \/ FinishCancelled(r) \/ FinishFailed(r)
             \/ FinishSucceeded(r) \/ ReserveModelRequest(r) \/ ReadTool(r)
             \/ RequestTool(r, t, op) \/ ProposeByRun(p, r, i)
             \/ CreateScheduleByRun(s, r, i, e, n) \/ ClaimTool(t)
             \/ ToolResult(t, token, outcome) \/ FenceModelConfiguration
             \/ Unverify \/ RefreshModels(ms) \/ Recover(ms, b)
      PROVE  UNCHANGED now
  BY <1>2
  DEF StartNext, TickStart, FinishCancelled, FinishFailed, FinishSucceeded,
      ReserveModelRequest, ReadTool, RequestTool, ProposeByRun, CreateScheduleByRun,
      ClaimTool, ToolResult, FenceModelConfiguration, Unverify, RefreshModels, Recover,
      control
<1> QED
  BY <1>1, <1>2 DEF Next, Operator, Device, Supervisor, Host, vars, control

LEMMA NextTime == TypeOK /\ [Next]_vars => now' \in Nat /\ now' >= now
BY OnlyClock DEF Clock, TypeOK, ControlOK

\* A run is an occurrence of its schedule from its admission on; an absent
\* schedule started none.
RunsScheduled ==
    /\ \A r \in Runs : run[r].state = "none" => run[r].schedule = Nil
    /\ \A s \in Schedules : schedule[s].state = "none" => schedule[s] = NoSchedule

Attempts(s) ==
    /\ IsFiniteSet(Admitted(s)) /\ IsFiniteSet(RunsOf({s}))
    /\ {occurrence[s][m].run : m \in Admitted(s)} = RunsOf({s})
    /\ Cardinality(Admitted(s)) = Cardinality(RunsOf({s}))
    /\ schedule[s].runsStarted = Cardinality(RunsOf({s}))
    /\ schedule[s].runsStarted <= schedule[s].maxRuns

\* What is recorded is past, and the slot waited for is not recorded.
Waits(s) ==
    /\ \A m \in DOMAIN occurrence[s] : m <= now
    /\ schedule[s].next # Nil => /\ schedule[s].state = "enabled"
                                 /\ schedule[s].next \notin DOMAIN occurrence[s]

Slots == RunsScheduled /\ \A s \in Schedules : Attempts(s) /\ Waits(s)

\* The runs of a schedule change only when it admits one.
LEMMA RunsOfKept ==
    ASSUME TypeOK, RunsScheduled, TermsKept \/ OperatorAdmits
    PROVE  /\ \A s \in Schedules : RunsOf({s})' = RunsOf({s})
           /\ \A r \in Runs : run'[r].state = "none" => run'[r].schedule = Nil
<1>1. \A r \in Runs : run'[r].schedule = run[r].schedule
  <2>1. CASE TermsKept
    BY <2>1 DEF TermsKept, SameTerms
  <2>2. CASE OperatorAdmits
    BY <2>2, QueuedTerms DEF OperatorAdmits, CreateRun, Fresh, RunsScheduled, TypeOK
  <2> QED
    BY <2>1, <2>2
<1>2. \A r \in Runs : run'[r].state = "none" => run[r].state = "none"
  <2>1. CASE TermsKept
    BY <2>1 DEF TermsKept, SameTerms
  <2>2. CASE OperatorAdmits
    BY <2>2, QueuedTerms DEF OperatorAdmits, CreateRun, TypeOK
  <2> QED
    BY <2>1, <2>2
<1> QED
  BY <1>1, <1>2 DEF RunsOf, RunsScheduled

\* A schedule left where it was, or without a slot to wait for.
LEMMA SameSlots ==
    ASSUME TypeOK, NEW s \in Schedules, Attempts(s), Waits(s), RunsScheduled,
           SameSlot(s), occurrence'[s] = occurrence[s], RunsOf({s})' = RunsOf({s}),
           now' \in Nat, now' >= now, SchedulesOK'
    PROVE  Attempts(s)' /\ Waits(s)'
<1>1. Admitted(s)' = Admitted(s)
  BY DEF Admitted
<1>2. now \in Nat /\ \A m \in DOMAIN occurrence[s] : m \in Nat
  BY DEF TypeOK, ControlOK, OccurrencesOK
<1>3. Waits(s)'
  <2>1. \A m \in DOMAIN occurrence[s] : m <= now'
    BY <1>2 DEF Waits
  <2>2. schedule'[s].next # Nil => /\ schedule'[s].state = "enabled"
                                   /\ schedule'[s].next \notin DOMAIN occurrence[s]
    BY DEF SameSlot, Waits
  <2> QED
    BY <2>1, <2>2 DEF Waits
<1>4. schedule'[s].runsStarted = schedule[s].runsStarted
      /\ schedule'[s].runsStarted <= schedule'[s].maxRuns
  <2>1. schedule'[s].maxRuns \in Nat
    BY DEF SchedulesOK, ScheduleRecord
  <2>2. CASE schedule[s].state # "none"
    BY <2>2 DEF SameSlot, Attempts
  <2>3. CASE schedule[s].state = "none"
    <3>1. schedule[s].runsStarted = 0
      BY <2>3 DEF RunsScheduled, NoSchedule
    <3>2. schedule'[s].runsStarted = 0
      BY <2>3, <3>1 DEF SameSlot
    <3> QED
      BY <2>1, <3>1, <3>2
  <2> QED
    BY <2>2, <2>3
<1> QED
  BY <1>1, <1>3, <1>4 DEF Attempts

LEMMA EnabledSlots ==
    ASSUME TypeOK, BoundAssumption, NEW s \in Schedules, EnableSchedule(s),
           Attempts(s), Waits(s)
    PROVE  /\ Attempts(s)' /\ Waits(s)'
           /\ UNCHANGED <<run, occurrence, now>> /\ schedule'[s].state # "none"
           /\ \A x \in Schedules \ {s} : schedule'[x] = schedule[x]
<1>1. /\ UNCHANGED <<run, occurrence, now>>
      /\ \E v : schedule' = [schedule EXCEPT ![s].state = "enabled", ![s].version = v,
                                       ![s].next = NextSlot(s, schedule[s].end)]
      /\ NextSlot(s, schedule[s].end) # Nil
  BY DEF EnableSchedule, control
<1>2. /\ schedule'[s].runsStarted = schedule[s].runsStarted
      /\ schedule'[s].maxRuns = schedule[s].maxRuns /\ schedule'[s].state = "enabled"
      /\ schedule'[s].next = NextSlot(s, schedule[s].end)
      /\ \A x \in Schedules \ {s} : schedule'[x] = schedule[x]
  BY <1>1 DEF TypeOK, SchedulesOK, ScheduleRecord
<1>3. schedule'[s].next \in Nat /\ schedule'[s].next > now
  BY <1>1, <1>2, NextSlotAhead
<1>4. schedule'[s].next \notin DOMAIN occurrence[s]
  <2>1. now \in Nat /\ \A m \in DOMAIN occurrence[s] : m \in Nat /\ m <= now
    BY DEF TypeOK, ControlOK, OccurrencesOK, Waits
  <2> QED
    BY <1>3, <2>1
<1>5. Admitted(s)' = Admitted(s) /\ RunsOf({s})' = RunsOf({s})
  BY <1>1 DEF Admitted, RunsOf
<1>6. Attempts(s)'
  <2>1. {occurrence'[s][m].run : m \in Admitted(s)} = {occurrence[s][m].run : m \in Admitted(s)}
    BY <1>1
  <2> QED
    BY <1>2, <1>5, <2>1 DEF Attempts
<1>7. Waits(s)'
  BY <1>1, <1>2, <1>4 DEF Waits
<1> QED
  BY <1>1, <1>2, <1>6, <1>7

\* tick records what happened to the due slot and waits for a later one.
LEMMA HandledSlot ==
    ASSUME TypeOK, BoundAssumption, NEW s \in Schedules, s \in ticking, Handles(s),
           Waits(s)
    PROVE  /\ Waits(s)' /\ UNCHANGED now /\ schedule[s].next \notin DOMAIN occurrence[s]
           /\ \A x \in Schedules \ {s} :
                 schedule'[x] = schedule[x] /\ occurrence'[x] = occurrence[x]
           /\ DOMAIN occurrence'[s] = DOMAIN occurrence[s] \cup {schedule[s].next}
           /\ \A m \in DOMAIN occurrence[s] : occurrence'[s][m] = occurrence[s][m]
           /\ schedule'[s].state # "none" /\ schedule'[s].maxRuns = schedule[s].maxRuns
<1>1. Occurs(s) /\ UNCHANGED now /\ \E what : Record(s, what)
  BY DEF Handles, TickMisses, TickRejects, TickAdmission, TickAdmits, control
<1>2. PICK what : Record(s, what)
  BY <1>1
<1>3. /\ schedule[s].next \notin DOMAIN occurrence[s]
      /\ DOMAIN occurrence'[s] = DOMAIN occurrence[s] \cup {schedule[s].next}
      /\ \A m \in DOMAIN occurrence[s] : occurrence'[s][m] = occurrence[s][m]
      /\ \A x \in Schedules \ {s} : occurrence'[x] = occurrence[x]
  BY <1>1, <1>2 DEF Record, Occurs, Recorded, TypeOK, OccurrencesOK
<1>4. Advanced(s) \in [Schedules -> ScheduleRecord]
  BY NextSlotType DEF Advanced, TypeOK, SchedulesOK, ScheduleRecord
<1>5. /\ schedule'[s].state = schedule[s].state
      /\ schedule'[s].maxRuns = schedule[s].maxRuns
      /\ schedule'[s].next = NextSlot(s, schedule[s].end)
      /\ \A x \in Schedules \ {s} : schedule'[x] = schedule[x]
  <2>1. /\ Advanced(s)[s].state = schedule[s].state
        /\ Advanced(s)[s].maxRuns = schedule[s].maxRuns
        /\ Advanced(s)[s].next = NextSlot(s, schedule[s].end)
        /\ \A x \in Schedules \ {s} : Advanced(s)[x] = schedule[x]
    BY DEF Advanced, TypeOK, SchedulesOK, ScheduleRecord
  <2>2. PICK a : a = Advanced(s)
    OBVIOUS
  <2>3. schedule' = a \/ \E n : schedule' = [a EXCEPT ![s].runsStarted = n]
    BY <2>2 DEF Handles, TickMisses, TickRejects, TickAdmission, TickAdmits
  <2> QED
    BY <1>4, <2>1, <2>2, <2>3 DEF ScheduleRecord
<1>6. schedule[s].state = "enabled"
  BY DEF TypeOK, TickingOK
<1>7. now \in Nat /\ schedule[s].next \in Nat /\ schedule[s].next <= now
  BY <1>1, NilAssumption DEF Occurs, Due, TypeOK, ControlOK, SchedulesOK, ScheduleRecord
<1>8. Waits(s)'
  <2>1. \A m \in DOMAIN occurrence'[s] : m \in Nat /\ m <= now
    BY <1>3, <1>7 DEF Waits, TypeOK, OccurrencesOK
  <2>2. schedule'[s].next # Nil => schedule'[s].next \in Nat /\ schedule'[s].next > now
    BY <1>5, NextSlotAhead
  <2>3. schedule'[s].next # Nil => schedule'[s].next \notin DOMAIN occurrence'[s]
    BY <1>7, <2>1, <2>2
  <2> QED
    BY <1>1, <1>5, <1>6, <2>1, <2>3 DEF Waits
<1> QED
  BY <1>1, <1>3, <1>5, <1>6, <1>8

\* A slot that is missed or rejected starts nothing.
LEMMA MissedAttempts ==
    ASSUME TypeOK, BoundAssumption, NEW s \in Schedules, s \in ticking,
           TickMisses(s) \/ TickRejects(s), UNCHANGED control, Attempts(s), Waits(s)
    PROVE  Attempts(s)' /\ UNCHANGED run
<1>1. Handles(s)
  BY DEF Handles
<1>2. /\ schedule[s].next \notin DOMAIN occurrence[s]
      /\ DOMAIN occurrence'[s] = DOMAIN occurrence[s] \cup {schedule[s].next}
      /\ \A m \in DOMAIN occurrence[s] : occurrence'[s][m] = occurrence[s][m]
      /\ schedule'[s].maxRuns = schedule[s].maxRuns
  BY <1>1, HandledSlot
<1>3. occurrence'[s][schedule[s].next].outcome # "admitted"
  BY DEF TickMisses, TickRejects, Record, TypeOK, OccurrencesOK
<1>4. Admitted(s)' = Admitted(s)
  BY <1>2, <1>3 DEF Admitted
<1>5. schedule'[s].runsStarted = schedule[s].runsStarted /\ UNCHANGED run
  BY DEF TickMisses, TickRejects, Advanced, TypeOK, SchedulesOK, ScheduleRecord
<1>6. RunsOf({s})' = RunsOf({s})
  BY <1>5 DEF RunsOf
<1>7. {occurrence'[s][m].run : m \in Admitted(s)} = {occurrence[s][m].run : m \in Admitted(s)}
  BY <1>2 DEF Admitted
<1> QED
  BY <1>2, <1>4, <1>5, <1>6, <1>7 DEF Attempts

\* An admission adds one occurrence and one run, within the schedule's limit.
LEMMA AdmittedAttempts ==
    ASSUME TypeOK, BoundAssumption, NEW s \in Schedules, s \in ticking, NEW r \in Runs,
           TickAdmission(s, r), Attempts(s), Waits(s), RunsScheduled
    PROVE  /\ Attempts(s)' /\ run'[r].state # "none"
           /\ \A x \in Schedules \ {s} : RunsOf({x})' = RunsOf({x})
           /\ \A x \in Runs \ {r} : run'[x] = run[x]
<1>1. Handles(s)
  BY DEF Handles, TickAdmission
<1>2. /\ schedule[s].next \notin DOMAIN occurrence[s]
      /\ DOMAIN occurrence'[s] = DOMAIN occurrence[s] \cup {schedule[s].next}
      /\ \A m \in DOMAIN occurrence[s] : occurrence'[s][m] = occurrence[s][m]
      /\ schedule'[s].maxRuns = schedule[s].maxRuns
  BY <1>1, HandledSlot
<1>3. occurrence'[s][schedule[s].next] = [outcome |-> "admitted", run |-> r]
  BY DEF TickAdmission, TickAdmits, Record, TypeOK, OccurrencesOK
<1>4. /\ schedule[s].next \notin Admitted(s)
      /\ Admitted(s)' = Admitted(s) \cup {schedule[s].next}
  BY <1>2, <1>3 DEF Admitted
<1>5. /\ run'[r].schedule = s /\ run'[r].state # "none" /\ run[r].schedule = Nil
      /\ \A x \in Runs \ {r} : run'[x] = run[x]
  BY QueuedTerms DEF TickAdmission, TickAdmits, Fresh, RunsScheduled, TypeOK
<1>6. Nil \notin Schedules
  BY NilAssumption
<1>7. /\ r \notin RunsOf({s}) /\ RunsOf({s})' = RunsOf({s}) \cup {r}
      /\ \A x \in Schedules \ {s} : RunsOf({x})' = RunsOf({x})
  BY <1>5, <1>6 DEF RunsOf
<1>8. {occurrence'[s][m].run : m \in Admitted(s)'} = RunsOf({s})'
  <2>1. \A m \in Admitted(s) : occurrence'[s][m] = occurrence[s][m]
    BY <1>2 DEF Admitted
  <2>2. {occurrence'[s][m].run : m \in Admitted(s)} = RunsOf({s})
    BY <2>1 DEF Attempts
  <2>3. occurrence'[s][schedule[s].next].run = r
    BY <1>3
  <2>4. {occurrence'[s][m].run : m \in Admitted(s) \cup {schedule[s].next}}
           = {occurrence'[s][m].run : m \in Admitted(s)} \cup {r}
    BY <2>3
  <2> QED
    BY <1>4, <1>7, <2>2, <2>4
<1>9. /\ IsFiniteSet(Admitted(s)') /\ IsFiniteSet(RunsOf({s})')
      /\ Cardinality(Admitted(s)') = Cardinality(Admitted(s)) + 1
      /\ Cardinality(RunsOf({s})') = Cardinality(RunsOf({s})) + 1
      /\ Cardinality(RunsOf({s})) \in Nat
  <2>1. PICK A, B, m : /\ A = Admitted(s) /\ B = RunsOf({s}) /\ m = schedule[s].next
                       /\ IsFiniteSet(A) /\ IsFiniteSet(B)
    BY DEF Attempts
  <2>2. m \notin A /\ r \notin B
    BY <1>4, <1>7, <2>1
  <2>3. IsFiniteSet(A \cup {m}) /\ Cardinality(A \cup {m}) = Cardinality(A) + 1
    BY <2>1, <2>2, FS_AddElement
  <2>4. IsFiniteSet(B \cup {r}) /\ Cardinality(B \cup {r}) = Cardinality(B) + 1
    BY <2>1, <2>2, FS_AddElement
  <2>5. Cardinality(B) \in Nat
    BY <2>1, FS_CardinalityType
  <2> QED
    BY <1>4, <1>7, <2>1, <2>3, <2>4, <2>5
<1>10. schedule'[s].runsStarted = schedule[s].runsStarted + 1
  <2>1. Advanced(s) \in [Schedules -> ScheduleRecord]
        /\ Advanced(s)[s].runsStarted = schedule[s].runsStarted
    BY NextSlotType DEF Advanced, TypeOK, SchedulesOK, ScheduleRecord
  <2>2. PICK a, n : /\ a = Advanced(s) /\ n = a[s].runsStarted + 1
                    /\ schedule' = [a EXCEPT ![s].runsStarted = n]
    BY DEF TickAdmission, TickAdmits
  <2>3. schedule'[s].runsStarted = n
    BY <2>1, <2>2 DEF ScheduleRecord
  <2> QED
    BY <2>1, <2>2, <2>3
<1>11. schedule[s].runsStarted < schedule[s].maxRuns
       /\ schedule[s].runsStarted \in Nat /\ schedule[s].maxRuns \in Nat
  BY DEF TickAdmission, TickAdmits, Occurs, Exhausted, TypeOK, SchedulesOK, ScheduleRecord
<1>12. schedule'[s].runsStarted <= schedule'[s].maxRuns
  BY <1>2, <1>10, <1>11
<1>13. /\ Cardinality(Admitted(s)') = Cardinality(RunsOf({s})')
       /\ schedule'[s].runsStarted = Cardinality(RunsOf({s})')
  BY <1>9, <1>10 DEF Attempts
<1> QED
  BY <1>5, <1>7, <1>8, <1>9, <1>12, <1>13 DEF Attempts

LEMMA InitSlots == Init => Slots
<1> SUFFICES ASSUME Init PROVE Slots
  OBVIOUS
<1>1. RunsScheduled
  BY DEF Init, RunsScheduled, NoRun
<1>2. ASSUME NEW s \in Schedules PROVE Attempts(s) /\ Waits(s)
  <2>1. DOMAIN occurrence[s] = {} /\ schedule[s] = NoSchedule
    BY <1>2 DEF Init
  <2>2. Nil # s
    BY NilAssumption
  <2>3. PICK A, B : A = Admitted(s) /\ B = RunsOf({s}) /\ A = {} /\ B = {}
    BY <2>1, <2>2 DEF Init, NoRun, Admitted, RunsOf
  <2>4. /\ IsFiniteSet(A) /\ Cardinality(A) = 0
        /\ IsFiniteSet(B) /\ Cardinality(B) = 0
    BY <2>3, FS_EmptySet
  <2>5. Attempts(s)
    BY <2>1, <2>3, <2>4 DEF Attempts, NoSchedule
  <2>6. Waits(s)
    BY <2>1 DEF Waits, NoSchedule
  <2> QED
    BY <2>5, <2>6
<1> QED
  BY <1>1, <1>2 DEF Slots

LEMMA SlotsInductive ==
    TypeOK /\ TypeOK' /\ Slots /\ [Next]_vars => Slots'
<1> SUFFICES ASSUME TypeOK, TypeOK', Slots, [Next]_vars PROVE Slots'
  OBVIOUS
<1>1. /\ now \in Nat /\ now' \in Nat /\ now' >= now
      /\ TermsKept \/ Admits
      /\ SlotsKept \/ MovesSlot
  BY NextTime, NextTerms, NextSlots DEF TypeOK, ControlOK
<1>2. RunsScheduled /\ \A s \in Schedules : Attempts(s) /\ Waits(s)
  BY DEF Slots
<1>3. ASSUME SlotsKept, TermsKept \/ OperatorAdmits PROVE Slots'
  <2>1. /\ \A s \in Schedules : RunsOf({s})' = RunsOf({s})
        /\ \A r \in Runs : run'[r].state = "none" => run'[r].schedule = Nil
    BY <1>2, <1>3, RunsOfKept
  <2>2. \A s \in Schedules : schedule'[s].state = "none" => schedule'[s] = NoSchedule
    BY <1>2, <1>3 DEF SlotsKept, SameSlot, RunsScheduled
  <2>3. \A s \in Schedules : Attempts(s)' /\ Waits(s)'
    BY <1>1, <1>2, <1>3, <2>1, SameSlots DEF SlotsKept, TypeOK
  <2> QED
    BY <2>1, <2>2, <2>3 DEF Slots, RunsScheduled
<1>4. ASSUME NEW s \in Schedules, EnableSchedule(s) PROVE Slots'
  <2>1. /\ Attempts(s)' /\ Waits(s)'
        /\ UNCHANGED <<run, occurrence, now>> /\ schedule'[s].state # "none"
        /\ \A x \in Schedules \ {s} : schedule'[x] = schedule[x]
    BY <1>2, <1>4, EnabledSlots, BoundAssumption
  <2>2. \A x \in Schedules : RunsOf({x})' = RunsOf({x})
    BY <2>1 DEF RunsOf
  <2>3. \A x \in Schedules \ {s} : SameSlot(x)
    BY <2>1 DEF SameSlot
  <2>4. \A x \in Schedules \ {s} : Attempts(x)' /\ Waits(x)'
    BY <1>1, <1>2, <2>1, <2>2, <2>3, SameSlots DEF TypeOK
  <2>5. RunsScheduled'
    BY <1>2, <2>1 DEF RunsScheduled
  <2> QED
    BY <2>1, <2>4, <2>5 DEF Slots
<1>5. ASSUME NEW s \in Schedules, s \in ticking, Handles(s) PROVE Slots'
  <2>1. /\ Waits(s)' /\ schedule'[s].state # "none"
        /\ \A x \in Schedules \ {s} :
              schedule'[x] = schedule[x] /\ occurrence'[x] = occurrence[x]
    BY <1>2, <1>5, HandledSlot, BoundAssumption
  <2>2. \A x \in Schedules \ {s} : SameSlot(x)
    BY <2>1 DEF SameSlot
  <2>3. /\ Attempts(s)'
        /\ \A x \in Schedules \ {s} : RunsOf({x})' = RunsOf({x})
        /\ \A r \in Runs : run'[r].state = "none" => run'[r].schedule = Nil
    <3>1. CASE TickMisses(s) \/ TickRejects(s)
      <4>1. Attempts(s)' /\ UNCHANGED run
        BY <1>2, <1>5, <3>1, MissedAttempts, BoundAssumption DEF Handles
      <4>2. \A x \in Schedules \ {s} : RunsOf({x})' = RunsOf({x})
        BY <4>1 DEF RunsOf
      <4> QED
        BY <1>2, <4>1, <4>2 DEF RunsScheduled
    <3>2. ASSUME NEW r \in Runs, TickAdmission(s, r)
          PROVE  /\ Attempts(s)'
                 /\ \A x \in Schedules \ {s} : RunsOf({x})' = RunsOf({x})
                 /\ \A y \in Runs : run'[y].state = "none" => run'[y].schedule = Nil
      BY <1>2, <1>5, <3>2, AdmittedAttempts, BoundAssumption DEF RunsScheduled
    <3> QED
      BY <1>5, <3>1, <3>2 DEF Handles
  <2>4. \A x \in Schedules \ {s} : Attempts(x)' /\ Waits(x)'
    BY <1>1, <1>2, <2>1, <2>2, <2>3, SameSlots DEF TypeOK
  <2>5. RunsScheduled'
    BY <1>2, <2>1, <2>3 DEF RunsScheduled
  <2> QED
    BY <2>1, <2>3, <2>4, <2>5 DEF Slots
<1>6. ASSUME NEW s \in ticking, NEW r \in Runs, TickAdmission(s, r) PROVE Slots'
  <2>1. s \in Schedules /\ Handles(s)
    BY <1>6 DEF Handles, TickAdmission, TypeOK, TickingOK
  <2> QED
    BY <1>5, <2>1
<1> QED
  BY <1>1, <1>3, <1>4, <1>5, <1>6 DEF Admits, MovesSlot

LEMMA AlwaysSlots == Spec => []Slots
BY InitSlots, SlotsInductive, TypeCorrect, PTL DEF Spec

\* Every scheduled run is the admitted occurrence of one slot, a schedule's
\* count of attempts is exact and within its limit, and it never waits for a
\* slot it already handled, whatever is paused, enabled again or restarted in
\* between (tick, mutate_schedule).
THEOREM SlotsKeepAccount == Spec => []SlotsAccounted
<1>1. Slots => SlotsAccounted
  BY DEF Slots, Attempts, Waits, SlotsAccounted, AttemptsAccounted, NextSlotOpen
<1> QED
  BY <1>1, AlwaysSlots, PTL

-----------------------------------------------------------------------------
(* What a step does to a proposal and to what is published                 *)

\* A run stops being able to publish what it proposed.
Falls(r) ==
    /\ run[r].state \in Unfenced /\ run'[r].state \notin Unfenced
    /\ ~(run'[r].state = "succeeded" /\ run[r].schedule = Nil)

\* A proposal stays or is invalidated, and is invalidated if its run falls.
Follows(p) ==
    /\ \/ proposal'[p] = proposal[p]
       \/ /\ proposal[p].state # "none"
          /\ proposal'[p] = [proposal[p] EXCEPT !.state = "invalidated"]
    /\ proposal[p].run \in Runs /\ Falls(proposal[p].run)
          => proposal'[p].state # "pending"

NoFall == \A r \in Runs : ~Falls(r)
Steady == UNCHANGED revision /\ \A p \in Proposals : Follows(p)

\* The steps that propose or publish, or write a revision by hand.
Proposed ==
    \E p \in Proposals, w \in Workspaces, r \in Runs \cup {Nil}, i \in Interfaces \cup {Nil} :
        /\ Proposes(p, w, r, i) /\ UNCHANGED revision /\ NoFall
        /\ r # Nil => /\ run[r].state = "running"
                      /\ run[r].schedule # Nil =>
                            i = schedule[run[r].schedule].interface
Edited ==
    \E i \in Interfaces, spec \in Proposals, by \in {"rename", "rollback"} :
        WriteInterface(i, spec, by) /\ UNCHANGED <<proposal, run>>
Published ==
    \/ \E p \in Proposals, i \in Interfaces : Publish(p, i)
    \/ \E r \in Runs : FinishSucceeded(r) /\ run[r].schedule # Nil

\* A proposal of a run belongs to one that was dispatched.
Sourced ==
    \A p \in Proposals : proposal[p].run # Nil =>
        run[proposal[p].run].state \notin {"none", "queued"}

LEMMA SameStatesFall ==
    ASSUME \A r \in Runs : \/ run'[r].state = run[r].state
                           \/ run[r].state = "none" /\ run'[r].state = "queued"
                           \/ run'[r].state \in Unfenced
    PROVE  NoFall
BY DEF NoFall, Falls, Unfenced

LEMMA UnchangedProposals ==
    ASSUME NoFall, UNCHANGED <<proposal, revision>>
    PROVE  Steady
BY DEF Steady, Follows, NoFall

\* invalidate: what is cancelled takes its proposals with it.
LEMMA InvalidatedProposals ==
    ASSUME TypeOK, NEW R, NEW G, run' = CancelRuns(R), UNCHANGED revision,
           proposal' = [p \in Proposals |->
              IF p \in G THEN [proposal[p] EXCEPT !.state = "invalidated"]
              ELSE InvalidateProposals(R)[p]],
           \A p \in Proposals \cap G : proposal[p].state # "none"
    PROVE  Steady
<1>1. \A r \in Runs : Falls(r) => r \in R
  BY DEF Falls, CancelRuns, TypeOK, RunsOK, RunRecord, Active
<1>2. ASSUME NEW p \in Proposals PROVE Follows(p)
  <2>1. proposal[p] \in ProposalRecord
    BY DEF TypeOK, ProposalsOK
  <2>2. \/ proposal'[p] = proposal[p]
        \/ /\ proposal[p].state # "none"
           /\ proposal'[p] = [proposal[p] EXCEPT !.state = "invalidated"]
    BY DEF InvalidateProposals
  <2>3. ASSUME proposal[p].run \in R, proposal'[p].state = "pending" PROVE FALSE
    <3>1. \/ proposal'[p] = [proposal[p] EXCEPT !.state = "invalidated"]
          \/ proposal'[p] = proposal[p] /\ proposal[p].state # "pending"
      BY <2>3 DEF InvalidateProposals
    <3> QED
      BY <2>1, <2>3, <3>1 DEF ProposalRecord
  <2> QED
    BY <1>1, <2>2, <2>3 DEF Follows
<1> QED
  BY <1>2 DEF Steady

\* A run that ends takes its pending proposals with it.
LEMMA EndedProposals ==
    ASSUME TypeOK, NEW R, proposal' = InvalidateProposals(R), UNCHANGED revision,
           \A r \in Runs : Falls(r) => r \in R
    PROVE  Steady
<1>1. ASSUME NEW p \in Proposals PROVE Follows(p)
  <2>1. proposal[p] \in ProposalRecord
    BY DEF TypeOK, ProposalsOK
  <2>2. \/ proposal'[p] = proposal[p]
        \/ /\ proposal[p].state # "none"
           /\ proposal'[p] = [proposal[p] EXCEPT !.state = "invalidated"]
    BY DEF InvalidateProposals
  <2>3. ASSUME proposal[p].run \in R, proposal'[p].state = "pending" PROVE FALSE
    <3>1. \/ proposal'[p] = [proposal[p] EXCEPT !.state = "invalidated"]
          \/ proposal'[p] = proposal[p] /\ proposal[p].state # "pending"
      BY <2>3 DEF InvalidateProposals
    <3> QED
      BY <2>1, <2>3, <3>1 DEF ProposalRecord
  <2> QED
    BY <2>2, <2>3 DEF Follows
<1> QED
  BY <1>1 DEF Steady

LEMMA InvalidateSteady ==
    ASSUME TypeOK, NEW R, Invalidate(R), UNCHANGED revision
    PROVE  Steady
<1>1. \A r \in Runs : Falls(r) => r \in R
  BY DEF Invalidate, Falls, CancelRuns, TypeOK, RunsOK, RunRecord, Active
<1> QED
  BY <1>1, EndedProposals DEF Invalidate

LEMMA OperatorProposals ==
    ASSUME TypeOK, Operator
    PROVE  Steady \/ Proposed \/ Edited \/ Published
<1>1. ASSUME NEW w, DeleteWorkspace(w) PROVE Steady
  BY <1>1, InvalidateSteady DEF DeleteWorkspace, library
<1>2. ASSUME NEW g, RevokeGrant(g) PROVE Steady
  BY <1>2, InvalidateSteady DEF RevokeGrant, library
<1>3. ASSUME NEW s, PauseSchedule(s) \/ DeleteSchedule(s) PROVE Steady
  BY <1>3, InvalidateSteady DEF PauseSchedule, DeleteSchedule, library
<1>4. ASSUME NEW r, CancelRun(r) PROVE Steady
  <2>1. CASE UNCHANGED <<run, proposal>>
    BY <1>4, <2>1, SameStatesFall, UnchangedProposals DEF CancelRun, library
  <2> QED
    BY <1>4, <2>1, InvalidateSteady DEF CancelRun, library
<1>5. ASSUME NEW i \in Interfaces, DeleteInterface(i) PROVE Steady
  <2>1. PICK R : /\ run' = CancelRuns(R)
                 /\ proposal' = [p \in Proposals |->
                       IF proposal[p].interface = i
                       THEN [proposal[p] EXCEPT !.state = "invalidated"]
                       ELSE InvalidateProposals(R)[p]]
    BY <1>5 DEF DeleteInterface
  <2>2. PICK G : G = {p \in Proposals : proposal[p].interface = i}
    OBVIOUS
  <2>3. proposal' = [p \in Proposals |->
                       IF p \in G THEN [proposal[p] EXCEPT !.state = "invalidated"]
                       ELSE InvalidateProposals(R)[p]]
    BY <2>1, <2>2
  <2>4. \A p \in Proposals \cap G : proposal[p].state # "none"
    BY <2>2, NilAssumption DEF TypeOK, ProposalsOK
  <2> QED
    BY <1>5, <2>1, <2>3, <2>4, InvalidatedProposals DEF DeleteInterface
<1>6. ASSUME NEW w \in Workspaces, NEW r \in Runs, NEW m \in Models,
             NEW refs \in SUBSET CurrentRefs, NEW targets \in SUBSET Interfaces,
             NEW import \in BOOLEAN, CreateRun(r, w, m, refs, targets, import)
      PROVE  Steady
  <2>1. NoFall
    BY <1>6, QueuedTerms, SameStatesFall DEF CreateRun, Fresh, TypeOK
  <2> QED
    BY <1>6, <2>1, UnchangedProposals DEF CreateRun, library
<1>7. ASSUME NEW p \in Proposals, NEW w \in Workspaces, NEW i \in Interfaces \cup {Nil},
             ProposeByOperator(p, w, i)
      PROVE  Proposed
  BY <1>7, SameStatesFall DEF ProposeByOperator, Proposed, library
<1>8. ASSUME NEW i \in Interfaces, NEW n \in DOMAIN revision[i],
             RenameInterface(i) \/ RollbackInterface(i, n)
      PROVE  Edited
  <2>1. /\ revision[i] \in [1..interface[i].rev -> Revisions]
        /\ interface[i].rev \in Nat /\ interface[i].rev > 0
    BY <1>8 DEF RenameInterface, RollbackInterface, LiveInterface, TypeOK, InterfacesOK,
                InterfaceRecord
  <2>2. /\ interface[i].rev \in DOMAIN revision[i]
        /\ \A k \in DOMAIN revision[i] : revision[i][k].spec \in Proposals
    BY <2>1 DEF Revisions
  <2> QED
    BY <1>8, <2>2 DEF RenameInterface, RollbackInterface, Edited
<1>9. ASSUME NEW w, NEW g, NEW c, NEW m, NEW ops, NEW e, NEW s, NEW i, NEW refs, NEW n,
             \/ CreateGrant(g, w, c, m, ops, e) \/ CreateSchedule(s, w, i, m, refs, e, n)
             \/ EnableSchedule(s)
      PROVE  Steady
  BY <1>9, SameStatesFall, UnchangedProposals
  DEF CreateGrant, CreateSchedule, EnableSchedule, library
<1>10. ASSUME NEW i \in Interfaces, RenameInterface(i) PROVE Edited
  <2>1. interface[i].rev \in DOMAIN revision[i]
    BY <1>10 DEF RenameInterface, LiveInterface, TypeOK, InterfacesOK, InterfaceRecord
  <2> QED
    BY <1>8, <1>10, <2>1
<1> QED
  BY <1>1, <1>2, <1>3, <1>4, <1>5, <1>6, <1>7, <1>8, <1>9, <1>10 DEF Operator, Published

LEMMA SupervisorProposals ==
    ASSUME TypeOK, Sourced, Supervisor
    PROVE  Steady \/ Proposed \/ Published
<1> USE DEF TypeOK
<1>1. CASE StartNext
  <2>1. \A r \in Runs : Falls(r) => run[r].state = "queued"
    BY <1>1 DEF StartNext, Oldest, Queued, RunsOK, RunRecord, Falls, Unfenced
  <2>2. UNCHANGED <<proposal, revision>>
    BY <1>1 DEF StartNext, library
  <2>3. \A p \in Proposals : ~(proposal[p].run \in Runs /\ Falls(proposal[p].run))
    BY <2>1, NilAssumption DEF Sourced
  <2> QED
    BY <2>2, <2>3 DEF Steady, Follows
<1>2. CASE TickStart
  BY <1>2, SameStatesFall, UnchangedProposals DEF TickStart, library
<1>3. ASSUME NEW r \in Runs, FinishCancelled(r) \/ FinishFailed(r) PROVE Steady
  <2>1. PICK st : run' = [run EXCEPT ![r].state = st]
    BY <1>3 DEF FinishCancelled, FinishFailed
  <2>2. \A x \in Runs : Falls(x) => x \in {r}
    BY <2>1 DEF Falls, RunsOK, RunRecord
  <2> QED
    BY <1>3, <2>2, EndedProposals DEF FinishCancelled, FinishFailed, library
<1>4. ASSUME NEW r \in Runs, FinishSucceeded(r) PROVE Steady \/ Published
  <2>1. CASE run[r].schedule # Nil
    BY <1>4, <2>1 DEF Published
  <2>2. CASE run[r].schedule = Nil
    <3>1. NoFall
      BY <1>4, <2>2 DEF FinishSucceeded, RunsOK, RunRecord, NoFall, Falls
    <3> QED
      BY <1>4, <2>2, <3>1, UnchangedProposals DEF FinishSucceeded, library
  <2> QED
    BY <2>1, <2>2
<1>5. ASSUME NEW r \in Runs, ReserveModelRequest(r) PROVE Steady
  <2>1. PICK n : run' = [run EXCEPT ![r].requests = n]
    BY <1>5 DEF ReserveModelRequest
  <2>2. \A x \in Runs : run'[x].state = run[x].state
    BY <2>1 DEF RunsOK, RunRecord
  <2> QED
    BY <1>5, <2>2, SameStatesFall, UnchangedProposals DEF ReserveModelRequest, library
<1>6. ASSUME NEW r \in Runs, NEW s, NEW i, NEW e, NEW n,
             ReadTool(r) \/ CreateScheduleByRun(s, r, i, e, n)
      PROVE  Steady
  <2>1. run' = Counted(r)
    BY <1>6 DEF ReadTool, CreateScheduleByRun
  <2>2. \A x \in Runs : run'[x].state = run[x].state
    BY <2>1, CountedType
  <2> QED
    BY <1>6, <2>2, SameStatesFall, UnchangedProposals DEF ReadTool, CreateScheduleByRun, library
<1>7. ASSUME NEW r \in Runs, NEW t \in Tools, NEW op, RequestTool(r, t, op) PROVE Steady
  <2>1. /\ run'[r].state = "waiting_for_device"
        /\ \A x \in Runs \ {r} : run'[x].state = run[x].state
    BY <1>7, RequestedTool DEF Requests
  <2>2. NoFall
    BY <2>1, SameStatesFall DEF Unfenced
  <2> QED
    BY <1>7, <2>2, UnchangedProposals DEF RequestTool, library
<1>8. ASSUME NEW r \in Runs, NEW p \in Proposals, NEW i \in Interfaces \cup {Nil},
             ProposeByRun(p, r, i)
      PROVE  Proposed
  <2>1. /\ run' = Counted(r) /\ run[r].workspace \in Workspaces /\ run[r].state = "running"
        /\ Proposes(p, run[r].workspace, r, i) /\ UNCHANGED revision
        /\ run[r].schedule # Nil => i = schedule[run[r].schedule].interface
    BY <1>8 DEF ProposeByRun, Calling, RunsOK, library
  <2>2. \A x \in Runs : run'[x].state = run[x].state
    BY <2>1, CountedType
  <2>3. NoFall
    BY <2>2, SameStatesFall
  <2> QED
    BY <2>1, <2>3 DEF Proposed
<1> QED
  BY <1>1, <1>2, <1>3, <1>4, <1>5, <1>6, <1>7, <1>8 DEF Supervisor

LEMMA HostProposals ==
    ASSUME TypeOK, Host
    PROVE  Steady
<1>1. ASSUME NEW ms, NEW b, Recover(ms, b) PROVE Steady
  <2>1. PICK R : /\ R = {r \in Runs : run[r].state \in Executing}
                 /\ proposal' = InvalidateProposals(R)
    BY <1>1 DEF Recover
  <2>2. \A r \in Runs : r \notin R => run'[r] = run[r]
    BY <1>1, <2>1 DEF Recover
  <2>3. \A r \in Runs : Falls(r) => r \in R
    BY <2>2 DEF Falls
  <2> QED
    BY <1>1, <2>1, <2>3, EndedProposals DEF Recover, library
<1>2. CASE FenceModelConfiguration
  <2>1. UNCHANGED revision
    BY <1>2 DEF FenceModelConfiguration, library
  <2>2. ASSUME NEW p \in Proposals PROVE Follows(p)
    <3>1. proposal[p] \in ProposalRecord
      BY DEF TypeOK, ProposalsOK
    <3>2. /\ proposal[p].state = "pending" =>
                proposal'[p] = [proposal[p] EXCEPT !.state = "invalidated"]
          /\ proposal[p].state # "pending" => proposal'[p] = proposal[p]
      BY <1>2 DEF FenceModelConfiguration
    <3> QED
      BY <3>1, <3>2 DEF Follows, ProposalRecord
  <2> QED
    BY <2>1, <2>2 DEF Steady
<1>3. ASSUME NEW ms, Unverify \/ RefreshModels(ms) \/ Clock PROVE Steady
  BY <1>3, SameStatesFall, UnchangedProposals DEF Unverify, RefreshModels, Clock, library
<1> QED
  BY <1>1, <1>2, <1>3 DEF Host

LEMMA DeviceProposals ==
    ASSUME TypeOK, Device
    PROVE  Steady
<1>1. ASSUME NEW t, ClaimTool(t) PROVE Steady
  BY <1>1, SameStatesFall, UnchangedProposals DEF ClaimTool, library
<1>2. ASSUME NEW t \in Tools, NEW token, NEW outcome, ToolResult(t, token, outcome)
      PROVE  Steady
  <2>1. NoFall
    BY <1>2, AnsweredTool, SameStatesFall DEF Unfenced
  <2> QED
    BY <1>2, <2>1, UnchangedProposals DEF ToolResult, library
<1> QED
  BY <1>1, <1>2 DEF Device

LEMMA TickProposals ==
    ASSUME TypeOK, NEW s \in Schedules, TickSchedule(s)
    PROVE  Steady
<1>1. NoFall
  <2>1. ASSUME NEW r \in Runs, TickAdmits(s, r) PROVE NoFall
    BY <2>1, QueuedTerms, SameStatesFall DEF TickAdmits, Fresh, TypeOK
  <2> QED
    BY <2>1, SameStatesFall DEF TickSchedule, TickEnds, TickSkips, TickMisses, TickRejects
<1> QED
  BY <1>1, UnchangedProposals DEF TickSchedule, library

LEMMA NextProposals ==
    TypeOK /\ Sourced /\ [Next]_vars => Steady \/ Proposed \/ Edited \/ Published
<1> SUFFICES ASSUME TypeOK, Sourced, [Next]_vars
             PROVE  Steady \/ Proposed \/ Edited \/ Published
  OBVIOUS
<1>1. CASE UNCHANGED vars
  BY <1>1, SameStatesFall, UnchangedProposals DEF vars, library
<1>2. CASE Next
  BY <1>2, OperatorProposals, SupervisorProposals, HostProposals, DeviceProposals,
     TickProposals DEF Next
<1> QED
  BY <1>1, <1>2

-----------------------------------------------------------------------------
(* Publication                                                             *)

\* What a run proposed is of a run that worked; an occurrence proposes only
\* its target.
ByRun(p) ==
    proposal[p].run # Nil =>
        /\ run[proposal[p].run].state \notin {"none", "queued"}
        /\ run[proposal[p].run].schedule # Nil =>
              proposal[p].interface = schedule[run[proposal[p].run].schedule].interface
        /\ proposal[p].state = "pending" =>
              \/ run[proposal[p].run].state \in Unfenced
              \/ /\ run[proposal[p].run].state = "succeeded"
                 /\ run[proposal[p].run].schedule = Nil
        /\ proposal[p].state = "published" => run[proposal[p].run].state = "succeeded"

\* A revision published from p is the one after the one p was made against.
Placed(p) ==
    /\ proposal[p].state \in {"none", "pending"} => PublishedAt(p) = {}
    /\ proposal[p].state = "published" => PublishedAt(p) # {}
    /\ \A at \in PublishedAt(p) : /\ proposal[p].interface = at[1]
                                  /\ proposal[p].expected = at[2] - 1

Made == {p \in Proposals : proposal[p].state # "none"}
ScheduledExist ==
    \A r \in Runs : run[r].schedule # Nil => schedule[run[r].schedule].state # "none"

Governed ==
    /\ ScheduledExist /\ IsFiniteSet(Made) /\ RefreshPublished
    /\ \A p \in Proposals : ByRun(p) /\ Placed(p)

\* What every step keeps of runs and schedules.
SchedulesSame ==
    \A s \in Schedules : schedule[s].state # "none" =>
        schedule'[s].state # "none" /\ schedule'[s].interface = schedule[s].interface
RunsSame ==
    \A r \in Runs :
        /\ run[r].state # "none" => SameTerms(r)
        /\ run[r].state \notin {"none", "queued"} => run'[r].state \notin {"none", "queued"}
        /\ run[r].state = "succeeded" => run'[r].state = "succeeded"

LEMMA NextSchedules == TypeOK /\ [Next]_vars => SchedulesSame
<1> SUFFICES ASSUME TypeOK, [Next]_vars PROVE SchedulesSame
  OBVIOUS
<1>1. CASE SlotsKept
  BY <1>1 DEF SlotsKept, SameSlot, SchedulesSame
<1>2. ASSUME NEW s \in Schedules, EnableSchedule(s) PROVE SchedulesSame
  <2>1. PICK v : schedule' = [schedule EXCEPT ![s].state = "enabled", ![s].version = v,
                                       ![s].next = NextSlot(s, schedule[s].end)]
    BY <1>2 DEF EnableSchedule
  <2> QED
    BY <2>1 DEF SchedulesSame, TypeOK, SchedulesOK, ScheduleRecord
<1>3. ASSUME NEW s \in Schedules, s \in ticking, Handles(s) PROVE SchedulesSame
  <2>1. PICK a, n : /\ n = NextSlot(s, schedule[s].end) /\ a = Advanced(s)
                    /\ a = [schedule EXCEPT ![s].next = n] /\ n \in Nat \cup {Nil}
    BY NextSlotType, BoundAssumption DEF Advanced
  <2>2. /\ a \in [Schedules -> ScheduleRecord]
        /\ \A x \in Schedules : a[x].state = schedule[x].state
                                /\ a[x].interface = schedule[x].interface
    BY <2>1 DEF TypeOK, SchedulesOK, ScheduleRecord
  <2>3. schedule' = a \/ \E k : schedule' = [a EXCEPT ![s].runsStarted = k]
    BY <1>3, <2>1 DEF Handles, TickMisses, TickRejects, TickAdmission, TickAdmits
  <2>4. \A x \in Schedules : schedule'[x].state = a[x].state
                             /\ schedule'[x].interface = a[x].interface
    BY <2>2, <2>3 DEF ScheduleRecord
  <2> QED
    BY <2>2, <2>4 DEF SchedulesSame
<1> QED
  BY <1>1, <1>2, <1>3, NextSlots DEF MovesSlot

LEMMA NextRuns == TypeOK /\ Seated /\ [Next]_vars => RunsSame
<1> SUFFICES ASSUME TypeOK, Seated, [Next]_vars PROVE RunsSame
  OBVIOUS
<1>1. Shape /\ (TermsKept \/ Admits) /\ RunMoves
  BY NextShape, NextTerms, NextMoves DEF Step
<1> QED
  BY <1>1, ExistingTerms, ShapeKeepsRuns DEF RunsSame, RunMoves, Terminal, TypeOK

\* What one more revision adds to what is published.
LEMMA WrittenPublished ==
    ASSUME TypeOK, NEW i \in Interfaces, NEW spec \in Proposals, NEW by,
           WriteInterface(i, spec, by), NEW p \in Proposals
    PROVE  PublishedAt(p)' = PublishedAt(p) \cup
              (IF by = "publish" /\ p = spec THEN {<<i, interface[i].rev + 1>>} ELSE {})
<1>1. PICK n : n = interface[i].rev + 1
  OBVIOUS
<1>2. n \notin DOMAIN revision[i]
  <2>1. DOMAIN revision[i] = 1..interface[i].rev /\ interface[i].rev \in Nat
    BY DEF TypeOK, InterfacesOK, InterfaceRecord
  <2> QED
    BY <1>1, <2>1
<1>3. /\ DOMAIN revision'[i] = DOMAIN revision[i] \cup {n}
      /\ revision'[i][n] = [spec |-> spec, by |-> by]
      /\ \A k \in DOMAIN revision[i] : revision'[i][k] = revision[i][k]
      /\ \A j \in Interfaces \ {i} : revision'[j] = revision[j]
  BY <1>1, <1>2 DEF WriteInterface, TypeOK, InterfacesOK
<1>4. [spec |-> spec, by |-> by] = [spec |-> p, by |-> "publish"]
         <=> by = "publish" /\ p = spec
  OBVIOUS
<1>5. {m \in DOMAIN revision'[i] : revision'[i][m] = [spec |-> p, by |-> "publish"]}
         = {m \in DOMAIN revision[i] : revision[i][m] = [spec |-> p, by |-> "publish"]}
              \cup (IF by = "publish" /\ p = spec THEN {n} ELSE {})
  BY <1>2, <1>3, <1>4
<1> QED
  BY <1>1, <1>3, <1>5 DEF PublishedAt

\* A step that adds nothing to the revisions but by hand.
LEMMA SteadyPublished ==
    ASSUME TypeOK, Steady \/ Proposed \/ Edited, NEW p \in Proposals
    PROVE  PublishedAt(p)' = PublishedAt(p)
<1>1. CASE UNCHANGED revision
  BY <1>1 DEF PublishedAt
<1>2. ASSUME NEW i \in Interfaces, NEW spec \in Proposals, NEW by \in {"rename", "rollback"},
             WriteInterface(i, spec, by)
      PROVE  PublishedAt(p)' = PublishedAt(p)
  BY <1>2, WrittenPublished
<1> QED
  BY <1>1, <1>2 DEF Steady, Proposed, Edited

LEMMA FollowedRun ==
    ASSUME TypeOK, SchedulesSame, RunsSame, ScheduledExist, NEW p \in Proposals,
           ByRun(p), Follows(p)
    PROVE  ByRun(p)'
<1> SUFFICES ASSUME proposal'[p].run # Nil PROVE ByRun(p)'
  BY DEF ByRun
<1>1. /\ proposal'[p].run = proposal[p].run /\ proposal'[p].interface = proposal[p].interface
      /\ proposal'[p].state = proposal[p].state \/ proposal'[p].state = "invalidated"
  BY DEF Follows, TypeOK, ProposalsOK, ProposalRecord
<1>2. PICK r \in Runs : r = proposal[p].run
  BY <1>1 DEF TypeOK, ProposalsOK, ProposalRecord
<1>3. /\ run[r].state \notin {"none", "queued"} /\ run'[r].state \notin {"none", "queued"}
      /\ run'[r].schedule = run[r].schedule
      /\ run[r].state = "succeeded" => run'[r].state = "succeeded"
  BY <1>1, <1>2 DEF ByRun, RunsSame, SameTerms
<1>4. run[r].schedule # Nil =>
         schedule'[run[r].schedule].interface = schedule[run[r].schedule].interface
  BY DEF ScheduledExist, SchedulesSame, TypeOK, RunsOK, RunRecord
<1>5. run'[r].schedule # Nil => proposal'[p].interface = schedule'[run'[r].schedule].interface
  BY <1>1, <1>2, <1>3, <1>4 DEF ByRun
<1>6. proposal'[p].state = "pending" =>
         \/ run'[r].state \in Unfenced
         \/ run'[r].state = "succeeded" /\ run'[r].schedule = Nil
  BY <1>1, <1>2, <1>3 DEF ByRun, Follows, Falls
<1>7. proposal'[p].state = "published" => run'[r].state = "succeeded"
  BY <1>1, <1>2, <1>3 DEF ByRun
<1> QED
  BY <1>1, <1>2, <1>3, <1>5, <1>6, <1>7 DEF ByRun

LEMMA FollowedPlace ==
    ASSUME TypeOK, NEW p \in Proposals, Placed(p), Follows(p),
           PublishedAt(p)' = PublishedAt(p)
    PROVE  Placed(p)'
<1>1. /\ proposal'[p].interface = proposal[p].interface
      /\ proposal'[p].expected = proposal[p].expected
      /\ proposal'[p].state = proposal[p].state \/ proposal'[p].state = "invalidated"
  BY DEF Follows, TypeOK, ProposalsOK, ProposalRecord
<1> QED
  BY <1>1 DEF Placed

\* A refresh that happened stays: nothing takes a revision back.
LEMMA RefreshKept ==
    ASSUME TypeOK, SchedulesSame, RunsSame, ScheduledExist, RefreshPublished,
           \A r \in Runs : run'[r].state = "succeeded" /\ run'[r].schedule # Nil
                              => run[r].state = "succeeded",
           \A p \in Proposals : Placed(p),
           \A p \in Proposals : proposal[p].state # "none" =>
              proposal'[p].run = proposal[p].run /\ PublishedAt(p)' = PublishedAt(p)
    PROVE  RefreshPublished'
<1> SUFFICES ASSUME NEW r \in Runs, run'[r].state = "succeeded", run'[r].schedule # Nil
             PROVE  \E p \in Proposals :
                       /\ proposal'[p].run = r
                       /\ PublishedAt(p)' = {<<schedule'[run'[r].schedule].interface,
                                               run'[r].target + 1>>}
  BY DEF RefreshPublished
<1>1. /\ run[r].state = "succeeded" /\ run'[r].schedule = run[r].schedule
      /\ run'[r].target = run[r].target
  BY DEF RunsSame, SameTerms
<1>2. schedule'[run[r].schedule].interface = schedule[run[r].schedule].interface
  BY <1>1 DEF ScheduledExist, SchedulesSame, TypeOK, RunsOK, RunRecord
<1>3. PICK p \in Proposals :
         /\ proposal[p].run = r
         /\ PublishedAt(p) = {<<schedule[run[r].schedule].interface, run[r].target + 1>>}
  BY <1>1 DEF RefreshPublished
<1>4. proposal[p].state # "none"
  BY <1>3 DEF Placed
<1> QED
  BY <1>1, <1>2, <1>3, <1>4

\* Occurrences succeed only with a refresh.
LEMMA NextRefreshes ==
    ASSUME TypeOK, [Next]_vars, ~Published, NEW r \in Runs,
           run'[r].state = "succeeded", run'[r].schedule # Nil
    PROVE  run[r].state = "succeeded"
<1>1. CASE Calm
  BY <1>1 DEF Calm, NoSuccess
<1>2. CASE OperatorAdmits
  BY <1>2, QueuedTerms DEF OperatorAdmits, CreateRun, TypeOK
<1>3. ASSUME NEW x \in Runs, FinishSucceeded(x) PROVE run[r].state = "succeeded"
  <2>1. run[x].schedule = Nil
    BY <1>3 DEF Published
  <2> QED
    BY <1>3, <2>1 DEF FinishSucceeded, TypeOK, RunsOK, RunRecord
<1> QED
  BY <1>1, <1>2, <1>3, NextCalm

LEMMA ScheduledExistKept ==
    ASSUME TypeOK, Slots, SchedulesSame, ScheduledExist, TermsKept \/ Admits
    PROVE  ScheduledExist'
<1>1. ASSUME NEW r \in Runs, run'[r].schedule = run[r].schedule, run'[r].schedule # Nil
      PROVE  schedule'[run'[r].schedule].state # "none"
  BY <1>1 DEF ScheduledExist, SchedulesSame, TypeOK, RunsOK, RunRecord
<1>2. CASE TermsKept
  BY <1>1, <1>2 DEF TermsKept, SameTerms, ScheduledExist
<1>3. CASE OperatorAdmits
  <2>1. \A r \in Runs : run'[r].schedule = run[r].schedule
    BY <1>3, QueuedTerms DEF OperatorAdmits, CreateRun, Fresh, Slots, RunsScheduled, TypeOK
  <2> QED
    BY <1>1, <2>1 DEF ScheduledExist
<1>4. ASSUME NEW s \in ticking, NEW x \in Runs, TickAdmission(s, x) PROVE ScheduledExist'
  <2>1. /\ run'[x].schedule = s /\ s \in Schedules /\ schedule[s].state # "none"
        /\ \A r \in Runs \ {x} : run'[r] = run[r]
    BY <1>4, QueuedTerms DEF TickAdmission, TickAdmits, TypeOK, TickingOK
  <2> QED
    BY <1>1, <2>1 DEF ScheduledExist, SchedulesSame
<1> QED
  BY <1>2, <1>3, <1>4 DEF Admits

LEMMA SteadyGoverned ==
    ASSUME TypeOK, SchedulesSame, RunsSame, Governed, Steady
    PROVE  /\ IsFiniteSet(Made') /\ \A p \in Proposals : ByRun(p)' /\ Placed(p)'
           /\ \A p \in Proposals : proposal[p].state # "none" =>
                 proposal'[p].run = proposal[p].run /\ PublishedAt(p)' = PublishedAt(p)
<1>1. \A p \in Proposals : Follows(p)
  BY DEF Steady
<1>2. \A p \in Proposals : PublishedAt(p)' = PublishedAt(p)
  BY SteadyPublished
<1>3. \A p \in Proposals : /\ proposal'[p].run = proposal[p].run
                           /\ proposal'[p].state # "none" => proposal[p].state # "none"
  BY <1>1 DEF Follows, TypeOK, ProposalsOK, ProposalRecord
<1>4. Made' \subseteq Made
  BY <1>3 DEF Made
<1>5. IsFiniteSet(Made')
  BY <1>4, FS_Subset DEF Governed
<1>6. \A p \in Proposals : ByRun(p)' /\ Placed(p)'
  BY <1>1, <1>2, FollowedRun, FollowedPlace DEF Governed
<1> QED
  BY <1>2, <1>3, <1>5, <1>6

LEMMA EditedGoverned ==
    ASSUME TypeOK, SchedulesSame, RunsSame, Governed, Edited
    PROVE  /\ IsFiniteSet(Made') /\ \A p \in Proposals : ByRun(p)' /\ Placed(p)'
           /\ \A p \in Proposals : proposal[p].state # "none" =>
                 proposal'[p].run = proposal[p].run /\ PublishedAt(p)' = PublishedAt(p)
<1>1. UNCHANGED <<proposal, run>>
  BY DEF Edited
<1>2. \A p \in Proposals : Follows(p)
  BY <1>1 DEF Follows, Falls
<1>3. \A p \in Proposals : PublishedAt(p)' = PublishedAt(p)
  BY SteadyPublished
<1>4. \A p \in Proposals : ByRun(p)' /\ Placed(p)'
  BY <1>2, <1>3, FollowedRun, FollowedPlace DEF Governed
<1>5. Made' = Made
  BY <1>1 DEF Made
<1> QED
  BY <1>1, <1>3, <1>4, <1>5 DEF Governed

LEMMA ProposedGoverned ==
    ASSUME TypeOK, SchedulesSame, RunsSame, Governed, Proposed
    PROVE  /\ IsFiniteSet(Made') /\ \A p \in Proposals : ByRun(p)' /\ Placed(p)'
           /\ \A p \in Proposals : proposal[p].state # "none" =>
                 proposal'[p].run = proposal[p].run /\ PublishedAt(p)' = PublishedAt(p)
<1>1. PICK q \in Proposals, w \in Workspaces, r \in Runs \cup {Nil},
           i \in Interfaces \cup {Nil} :
        /\ Proposes(q, w, r, i) /\ UNCHANGED revision /\ NoFall
        /\ r # Nil => /\ run[r].state = "running"
                      /\ run[r].schedule # Nil =>
                            i = schedule[run[r].schedule].interface
  BY DEF Proposed
<1>2. /\ proposal[q].state = "none" /\ proposal'[q].state = "pending"
      /\ proposal'[q].run = r /\ proposal'[q].interface = i
      /\ \A p \in Proposals \ {q} : proposal'[p] = proposal[p]
  BY <1>1 DEF Proposes, TypeOK, ProposalsOK
<1>3. \A p \in Proposals : PublishedAt(p)' = PublishedAt(p)
  BY SteadyPublished
<1>4. Made' = Made \cup {q}
  BY <1>2 DEF Made
<1>5. IsFiniteSet(Made')
  BY <1>4, FS_AddElement DEF Governed
<1>6. \A p \in Proposals \ {q} : Follows(p)
  BY <1>1, <1>2 DEF Follows, NoFall
<1>7. \A p \in Proposals \ {q} : ByRun(p)' /\ Placed(p)'
  BY <1>3, <1>6, FollowedRun, FollowedPlace DEF Governed
<1>8. Placed(q)'
  BY <1>2, <1>3 DEF Governed, Placed
<1>9. ByRun(q)'
  <2> SUFFICES ASSUME r # Nil PROVE ByRun(q)'
    BY <1>2 DEF ByRun
  <2>1. r \in Runs /\ run[r].state = "running"
    BY <1>1
  <2>2. run'[r].state \notin {"none", "queued"} /\ run'[r].schedule = run[r].schedule
    BY <2>1 DEF RunsSame, SameTerms
  <2>3. \/ run'[r].state \in Unfenced
        \/ run'[r].state = "succeeded" /\ run'[r].schedule = Nil
    BY <1>1, <2>1, <2>2 DEF NoFall, Falls, Unfenced
  <2>4. run[r].schedule # Nil => i = schedule'[run[r].schedule].interface
    BY <1>1, <2>1 DEF Governed, ScheduledExist, SchedulesSame, TypeOK, RunsOK, RunRecord
  <2> QED
    BY <1>2, <2>1, <2>2, <2>3, <2>4 DEF ByRun
<1> QED
  BY <1>2, <1>3, <1>5, <1>7, <1>8, <1>9

\* publish: the revision after the one the proposal was made against.
LEMMA PublishGoverned ==
    ASSUME TypeOK, SchedulesSame, RunsSame, Governed, NEW q \in Proposals,
           NEW i \in Interfaces, Publish(q, i)
    PROVE  /\ IsFiniteSet(Made') /\ \A p \in Proposals : ByRun(p)' /\ Placed(p)'
           /\ RefreshPublished'
<1>1. /\ proposal[q].state = "pending" /\ interface[i].rev = proposal[q].expected
      /\ WriteInterface(i, q, "publish") /\ UNCHANGED <<run, schedule>>
      /\ proposal[q].run # Nil => /\ run[proposal[q].run].state = "succeeded"
                                  /\ run[proposal[q].run].schedule = Nil
  BY DEF Publish, AsExpected
<1>2. /\ proposal'[q].state = "published" /\ proposal'[q].interface = i
      /\ proposal'[q].run = proposal[q].run /\ proposal'[q].expected = proposal[q].expected
      /\ \A p \in Proposals \ {q} : proposal'[p] = proposal[p]
  BY DEF Publish, TypeOK, ProposalsOK, ProposalRecord
<1>3. /\ PublishedAt(q)' = PublishedAt(q) \cup {<<i, interface[i].rev + 1>>}
      /\ \A p \in Proposals \ {q} : PublishedAt(p)' = PublishedAt(p)
  BY <1>1, WrittenPublished
<1>4. \A p \in Proposals \ {q} : Follows(p)
  BY <1>1, <1>2 DEF Follows, Falls
<1>5. \A p \in Proposals \ {q} : ByRun(p)' /\ Placed(p)'
  BY <1>3, <1>4, FollowedRun, FollowedPlace DEF Governed
<1>6. Placed(q)'
  <2>1. PublishedAt(q) = {}
    BY <1>1 DEF Governed, Placed
  <2>2. PublishedAt(q)' = {<<i, interface[i].rev + 1>>}
    BY <1>3, <2>1
  <2>3. interface[i].rev \in Nat
    BY DEF TypeOK, InterfacesOK, InterfaceRecord
  <2>4. \A at \in PublishedAt(q)' : at[1] = i /\ at[2] - 1 = interface[i].rev
    BY <2>2, <2>3
  <2> QED
    BY <1>1, <1>2, <2>2, <2>4 DEF Placed
<1>7. ByRun(q)'
  BY <1>1, <1>2 DEF ByRun, Governed
<1>8. Made' = Made
  BY <1>1, <1>2 DEF Made
<1>9. RefreshPublished'
  <2> SUFFICES ASSUME NEW r \in Runs, run'[r].state = "succeeded", run'[r].schedule # Nil
               PROVE  \E p \in Proposals :
                         /\ proposal'[p].run = r
                         /\ PublishedAt(p)' = {<<schedule'[run'[r].schedule].interface,
                                                 run'[r].target + 1>>}
    BY DEF RefreshPublished
  <2>1. PICK p \in Proposals :
           /\ proposal[p].run = r
           /\ PublishedAt(p) = {<<schedule[run[r].schedule].interface, run[r].target + 1>>}
    BY <1>1 DEF Governed, RefreshPublished
  <2>2. p # q
    BY <1>1, <2>1 DEF Governed, Placed
  <2> QED
    BY <1>1, <1>2, <1>3, <2>1, <2>2
<1> QED
  BY <1>5, <1>6, <1>7, <1>8, <1>9 DEF Governed

\* The pending proposals of a run are few enough to count.
LEMMA OnlyProposal ==
    ASSUME IsFiniteSet(Made), NEW r, Cardinality(PendingOf(r)) = 1, NEW p \in PendingOf(r)
    PROVE  \A x \in Proposals : proposal[x].state = "pending" /\ proposal[x].run = r => x = p
<1>1. PICK P : P = PendingOf(r)
  OBVIOUS
<1>2. P \subseteq Made /\ p \in P
  BY <1>1 DEF PendingOf, Made
<1>3. IsFiniteSet(P)
  BY <1>2, FS_Subset
<1>4. \E x : P = {x}
  BY <1>1, <1>3, FS_Singleton
<1>5. P = {p}
  BY <1>2, <1>4
<1> QED
  BY <1>1, <1>5 DEF PendingOf

\* finish of an occurrence: its one proposal becomes the next revision of the
\* schedule's interface.
LEMMA RefreshGoverned ==
    ASSUME TypeOK, SchedulesSame, RunsSame, Governed, NEW r \in Runs,
           FinishSucceeded(r), run[r].schedule # Nil
    PROVE  /\ IsFiniteSet(Made') /\ \A p \in Proposals : ByRun(p)' /\ Placed(p)'
           /\ RefreshPublished'
<1>1. /\ Refreshes(r) /\ run[r].state = "running" /\ UNCHANGED schedule
      /\ run' = [run EXCEPT ![r].state = "succeeded"]
  BY DEF FinishSucceeded, Succeeds
<1>2. PICK q \in PendingOf(r) :
         /\ WriteInterface(proposal[q].interface, q, "publish")
         /\ proposal' = [proposal EXCEPT ![q].state = "published"]
  BY DEF FinishSucceeded
<1>3. PICK i : i = proposal[q].interface
  OBVIOUS
<1>4. q \in Proposals /\ proposal[q].run = r /\ proposal[q].state = "pending"
  BY <1>2 DEF PendingOf
<1>5. r # Nil /\ run[r].schedule \in Schedules
  BY NilAssumption DEF TypeOK, RunsOK, RunRecord
<1>6. i = schedule[run[r].schedule].interface /\ i \in Interfaces
  BY <1>3, <1>4, <1>5 DEF Governed, ByRun, ScheduledExist, TypeOK, SchedulesOK
<1>7. interface[i].rev = run[r].target /\ proposal[q].expected = run[r].target
      /\ run[r].target \in Nat
  BY <1>1, <1>2, <1>3 DEF Refreshes, TypeOK, RunsOK, RunRecord
<1>8. \A x \in Proposals : proposal[x].state = "pending" /\ proposal[x].run = r => x = q
  BY <1>1, <1>2, OnlyProposal DEF Refreshes, Governed
<1>9. /\ run'[r].state = "succeeded" /\ run'[r].schedule = run[r].schedule
      /\ run'[r].target = run[r].target
      /\ \A x \in Runs \ {r} : run'[x] = run[x]
  BY <1>1 DEF TypeOK, RunsOK, RunRecord
<1>10. /\ proposal'[q].state = "published" /\ proposal'[q].interface = i
       /\ proposal'[q].run = r /\ proposal'[q].expected = proposal[q].expected
       /\ \A p \in Proposals \ {q} : proposal'[p] = proposal[p]
  BY <1>2, <1>3, <1>4 DEF TypeOK, ProposalsOK, ProposalRecord
<1>11. /\ PublishedAt(q)' = PublishedAt(q) \cup {<<i, run[r].target + 1>>}
       /\ \A p \in Proposals \ {q} : PublishedAt(p)' = PublishedAt(p)
  <2>1. WriteInterface(i, q, "publish")
    BY <1>2, <1>3
  <2>2. \A p \in Proposals : PublishedAt(p)' = PublishedAt(p) \cup
           (IF p = q THEN {<<i, interface[i].rev + 1>>} ELSE {})
    BY <1>4, <1>6, <2>1, WrittenPublished
  <2> QED
    BY <1>4, <1>7, <2>2
<1>12. PublishedAt(q)' = {<<i, run[r].target + 1>>}
  BY <1>4, <1>11 DEF Governed, Placed
<1>13. \A p \in Proposals \ {q} : Follows(p)
  BY <1>8, <1>9, <1>10 DEF Follows, Falls
<1>14. \A p \in Proposals \ {q} : ByRun(p)' /\ Placed(p)'
  BY <1>11, <1>13, FollowedRun, FollowedPlace DEF Governed
<1>15. Placed(q)'
  <2>1. \A at \in PublishedAt(q)' : at[1] = i /\ at[2] - 1 = run[r].target
    BY <1>7, <1>12
  <2> QED
    BY <1>7, <1>10, <1>12, <2>1 DEF Placed
<1>16. ByRun(q)'
  BY <1>1, <1>6, <1>9, <1>10 DEF ByRun
<1>17. Made' = Made
  BY <1>4, <1>10 DEF Made
<1>18. RefreshPublished'
  <2> SUFFICES ASSUME NEW x \in Runs, run'[x].state = "succeeded", run'[x].schedule # Nil
               PROVE  \E p \in Proposals :
                         /\ proposal'[p].run = x
                         /\ PublishedAt(p)' = {<<schedule'[run'[x].schedule].interface,
                                                 run'[x].target + 1>>}
    BY DEF RefreshPublished
  <2>1. CASE x = r
    BY <1>1, <1>4, <1>6, <1>9, <1>10, <1>12, <2>1
  <2>2. CASE x # r
    <3>1. run'[x] = run[x]
      BY <1>9, <2>2
    <3>2. PICK p \in Proposals :
             /\ proposal[p].run = x
             /\ PublishedAt(p) = {<<schedule[run[x].schedule].interface, run[x].target + 1>>}
      BY <3>1 DEF Governed, RefreshPublished
    <3>3. p # q
      BY <1>4, <2>2, <3>2
    <3> QED
      BY <1>1, <1>10, <1>11, <3>1, <3>2, <3>3
  <2> QED
    BY <2>1, <2>2
<1> QED
  BY <1>14, <1>15, <1>16, <1>17, <1>18 DEF Governed

LEMMA InitGoverned == Init => Governed
<1> SUFFICES ASSUME Init PROVE Governed
  OBVIOUS
<1>1. /\ \A r \in Runs : run[r].state = "none" /\ run[r].schedule = Nil
      /\ \A p \in Proposals : proposal[p] = NoProposal
      /\ \A i \in Interfaces : DOMAIN revision[i] = {}
  BY DEF Init, NoRun
<1>2. \A p \in Proposals : PublishedAt(p) = {}
  BY <1>1 DEF PublishedAt
<1>3. Made = {}
  BY <1>1 DEF Made, NoProposal
<1>4. IsFiniteSet(Made)
  BY <1>3, FS_EmptySet
<1> QED
  BY <1>1, <1>2, <1>4 DEF Governed, ScheduledExist, RefreshPublished, ByRun, Placed, NoProposal

LEMMA GovernedInductive ==
    TypeOK /\ Seated /\ Slots /\ Governed /\ [Next]_vars => Governed'
<1> SUFFICES ASSUME TypeOK, Seated, Slots, Governed, [Next]_vars PROVE Governed'
  OBVIOUS
<1>1. SchedulesSame /\ RunsSame /\ (TermsKept \/ Admits)
  BY NextSchedules, NextRuns, NextTerms
<1>2. ScheduledExist'
  BY <1>1, ScheduledExistKept DEF Governed
<1>3. Steady \/ Proposed \/ Edited \/ Published
  <2>1. Sourced
    BY DEF Governed, ByRun, Sourced
  <2> QED
    BY <2>1, NextProposals
<1>4. CASE Published
  BY <1>1, <1>2, <1>4, PublishGoverned, RefreshGoverned DEF Published, Governed
<1>5. CASE ~Published
  <2>1. /\ IsFiniteSet(Made') /\ \A p \in Proposals : ByRun(p)' /\ Placed(p)'
        /\ \A p \in Proposals : proposal[p].state # "none" =>
              proposal'[p].run = proposal[p].run /\ PublishedAt(p)' = PublishedAt(p)
    BY <1>1, <1>3, <1>5, SteadyGoverned, EditedGoverned, ProposedGoverned
  <2>2. \A r \in Runs : run'[r].state = "succeeded" /\ run'[r].schedule # Nil
                           => run[r].state = "succeeded"
    BY <1>5, NextRefreshes
  <2>3. RefreshPublished'
    BY <1>1, <2>1, <2>2, RefreshKept DEF Governed
  <2> QED
    BY <1>2, <2>1, <2>3 DEF Governed
<1> QED
  BY <1>4, <1>5

LEMMA AlwaysGovernedProposals == Spec => []Governed
BY InitGoverned, GovernedInductive, TypeCorrect, AlwaysSeated, AlwaysSlots, PTL DEF Spec

\* Nothing a run proposed outlives the run's authority, and a proposal is
\* published at most once, directly on the revision it was made against: no
\* manual update is overwritten unseen (publish, finish, invalidate_proposals).
THEOREM ProposalsBound == Spec => []ProposalsGoverned
<1>1. TypeOK /\ Governed => ProposalsGoverned
  <2> SUFFICES ASSUME TypeOK, Governed PROVE ProposalsGoverned
    OBVIOUS
  <2>1. ProposalsFollowRuns
    BY DEF ProposalsFollowRuns, Governed, ByRun
  <2>2. ASSUME NEW p \in Proposals PROVE Cardinality(PublishedAt(p)) <= 1
    <3>1. PICK P : P = PublishedAt(p)
      OBVIOUS
    <3>2. \A at \in P : at = <<proposal[p].interface, proposal[p].expected + 1>>
      <4>1. \A at \in P : /\ proposal[p].interface = at[1]
                          /\ proposal[p].expected = at[2] - 1
        BY <3>1 DEF Governed, Placed
      <4>2. \A at \in P : \E i \in Interfaces : \E n \in DOMAIN revision[i] : at = <<i, n>>
        BY <3>1 DEF PublishedAt
      <4>3. \A i \in Interfaces : \A n \in DOMAIN revision[i] : n \in Nat
        <5>1. \A i \in Interfaces : /\ DOMAIN revision[i] = 1..interface[i].rev
                                    /\ interface[i].rev \in Nat
          BY DEF TypeOK, InterfacesOK, InterfaceRecord
        <5> QED
          BY <5>1
      <4>4. \A at \in P : at = <<at[1], at[2]>> /\ at[2] \in Nat
        BY <4>2, <4>3
      <4>5. \A at \in P : at[2] = proposal[p].expected + 1
        BY <4>1, <4>4
      <4> QED
        BY <4>1, <4>4, <4>5
    <3>3. P = {} \/ \E x : P = {x}
      BY <3>2
    <3>4. Cardinality(P) = 0 \/ Cardinality(P) = 1
      BY <3>3, FS_EmptySet, FS_Singleton
    <3> QED
      BY <3>1, <3>4
  <2>3. PublishedOnceOnExpected
    BY <2>2 DEF PublishedOnceOnExpected, Governed, Placed
  <2> QED
    BY <2>1, <2>3 DEF ProposalsGoverned
<1> QED
  BY <1>1, AlwaysGovernedProposals, TypeCorrect, PTL

\* An occurrence that succeeded refreshed its target: one of its proposals is
\* the revision right after the one captured at its admission (tick, finish).
THEOREM OccurrencesRefresh == Spec => []RefreshPublished
<1>1. Governed => RefreshPublished
  BY DEF Governed
<1> QED
  BY <1>1, AlwaysGovernedProposals, PTL

-----------------------------------------------------------------------------
(* Model requests                                                          *)

\* One more is counted for x.
LEMMA TallyGrows ==
    ASSUME NEW S, NEW x \in S, NEW f \in [S -> Nat], NEW g, DOMAIN g = S,
           g[x] = f[x] + 1, \A y \in S \ {x} : g[y] = f[y],
           IsFiniteSet(Tally(f, S))
    PROVE  /\ IsFiniteSet(Tally(g, S))
           /\ Cardinality(Tally(g, S)) = Cardinality(Tally(f, S)) + 1
<1> DEFINE last == <<x, f[x] + 1>>
<1>1. ASSUME NEW y \in S, y # x PROVE {y} \X (1..g[y]) = {y} \X (1..f[y])
  BY <1>1
<1>2. {x} \X (1..g[x]) = ({x} \X (1..f[x])) \cup {last}
  <2>1. f[x] \in Nat
    OBVIOUS
  <2>2. 1..g[x] = (1..f[x]) \cup {f[x] + 1}
    BY <2>1
  <2> QED
    BY <2>2
<1>3. Tally(g, S) = Tally(f, S) \cup {last}
  <2>1. ASSUME NEW e \in Tally(g, S) PROVE e \in Tally(f, S) \cup {last}
    <3>1. PICK y \in S : e \in {y} \X (1..g[y])
      BY <2>1 DEF Tally
    <3>2. e \in ({y} \X (1..f[y])) \cup {last}
      BY <1>1, <1>2, <3>1
    <3> QED
      BY <3>2 DEF Tally
  <2>2. ASSUME NEW e \in Tally(f, S) PROVE e \in Tally(g, S)
    <3>1. PICK y \in S : e \in {y} \X (1..f[y])
      BY <2>2 DEF Tally
    <3>2. e \in {y} \X (1..g[y])
      BY <1>1, <1>2, <3>1
    <3> QED
      BY <3>2 DEF Tally
  <2>3. last \in Tally(g, S)
    BY <1>2 DEF Tally
  <2> QED
    BY <2>1, <2>2, <2>3
<1>4. last \notin Tally(f, S)
  <2>1. ASSUME NEW y \in S, last \in {y} \X (1..f[y]) PROVE FALSE
    <3>1. x = y /\ f[x] + 1 \in 1..f[x]
      BY <2>1
    <3>2. f[x] \in Nat
      OBVIOUS
    <3> QED
      BY <3>1, <3>2
  <2> QED
    BY <2>1 DEF Tally
<1> HIDE DEF last
<1>5. /\ IsFiniteSet(Tally(f, S) \cup {last})
      /\ Cardinality(Tally(f, S) \cup {last}) = Cardinality(Tally(f, S)) + 1
  BY <1>4, FS_AddElement
<1> QED
  BY <1>3, <1>5

\* What is counted in the same way has the same tally.
LEMMA TallyKept ==
    ASSUME NEW S, NEW f, NEW g, \A y \in S : g[y] = f[y]
    PROVE  Tally(g, S) = Tally(f, S)
BY DEF Tally

LEMMA TallyNothing ==
    ASSUME NEW S, NEW f, \A y \in S : f[y] = 0
    PROVE  Tally(f, S) = {}
<1>1. \A y \in S : {y} \X (1..f[y]) = {}
  OBVIOUS
<1> QED
  BY <1>1 DEF Tally

-----------------------------------------------------------------------------
\* A run that was not admitted asked for nothing, and admission counts nothing.
Unasked == \A r \in Runs : run[r].state = "none" => run[r].requests = 0
CountsKept == usage' = usage /\ \A r \in Runs : run'[r].requests = run[r].requests

LEMMA UnchangedCounts == ASSUME UNCHANGED <<run, usage>> PROVE CountsKept
BY DEF CountsKept

LEMMA CancelledCounts ==
    ASSUME RunsOK, NEW R, run' = CancelRuns(R), usage' = usage
    PROVE  CountsKept
BY DEF RunsOK, RunRecord, CancelRuns, CountsKept

LEMMA CountedCounts ==
    ASSUME RunsOK, NEW r \in Runs, usage' = usage,
           run' = Counted(r) \/ run' = [Counted(r) EXCEPT ![r].state = "waiting_for_device"]
    PROVE  CountsKept
BY DEF Counted, RunsOK, RunRecord, CountsKept

LEMMA MovedCounts ==
    ASSUME RunsOK, NEW r, NEW st, run' = [run EXCEPT ![r].state = st], usage' = usage
    PROVE  CountsKept
BY DEF RunsOK, RunRecord, CountsKept

LEMMA QueuedCounts ==
    ASSUME RunsOK, Unasked, NEW r \in Fresh, NEW w, NEW m, NEW refs, NEW targets, NEW h,
           NEW s, NEW v, NEW rev, Queue(r, w, m, refs, targets, h, s, v, rev), usage' = usage
    PROVE  CountsKept
BY DEF RunsOK, RunRecord, Unasked, Fresh, Queue, NoRun, CountsKept

LEMMA OperatorCounts ==
    ASSUME TypeOK, Unasked, Operator
    PROVE  CountsKept
<1>1. ASSUME NEW w, NEW r, NEW m, NEW refs, NEW targets, NEW import,
             CreateRun(r, w, m, refs, targets, import)
      PROVE  CountsKept
  BY <1>1, QueuedCounts DEF CreateRun, TypeOK
<1>2. ASSUME NEW w, DeleteWorkspace(w) PROVE CountsKept
  BY <1>2, CancelledCounts DEF DeleteWorkspace, Invalidate, ledger, TypeOK
<1>3. ASSUME NEW w, NEW g, NEW c, NEW m, NEW ops, NEW e, NEW p, NEW i, NEW s, NEW refs, NEW n,
             \/ CreateGrant(g, w, c, m, ops, e) \/ ProposeByOperator(p, w, i)
             \/ CreateSchedule(s, w, i, m, refs, e, n) \/ Publish(p, i) \/ RenameInterface(i)
             \/ RollbackInterface(i, n) \/ EnableSchedule(s)
      PROVE  CountsKept
  BY <1>3, UnchangedCounts
  DEF CreateGrant, ProposeByOperator, CreateSchedule, Publish, RenameInterface,
      RollbackInterface, EnableSchedule, ledger
<1>4. ASSUME NEW g, NEW r, NEW i, NEW s,
             \/ RevokeGrant(g) \/ CancelRun(r) \/ DeleteInterface(i)
             \/ PauseSchedule(s) \/ DeleteSchedule(s)
      PROVE  CountsKept
  BY <1>4, UnchangedCounts, CancelledCounts
  DEF RevokeGrant, CancelRun, DeleteInterface, PauseSchedule, DeleteSchedule, Invalidate,
      ledger, TypeOK
<1> QED
  BY <1>1, <1>2, <1>3, <1>4 DEF Operator

LEMMA SupervisorCounts ==
    ASSUME TypeOK, Supervisor
    PROVE  CountsKept \/ \E r \in Runs : ReserveModelRequest(r)
<1> USE DEF TypeOK
<1>1. CASE StartNext
  BY <1>1 DEF StartNext, RunsOK, RunRecord, CountsKept, ledger
<1>2. ASSUME NEW r \in Runs, FinishCancelled(r) \/ FinishFailed(r) \/ FinishSucceeded(r)
      PROVE  CountsKept
  BY <1>2, MovedCounts DEF FinishCancelled, FinishFailed, FinishSucceeded, ledger
<1>3. ASSUME NEW r \in Runs, NEW p, NEW i, NEW s, NEW e, NEW n, NEW t, NEW op,
             \/ ReadTool(r) \/ ProposeByRun(p, r, i) \/ RequestTool(r, t, op)
             \/ CreateScheduleByRun(s, r, i, e, n)
      PROVE  CountsKept
  BY <1>3, CountedCounts DEF ReadTool, ProposeByRun, CreateScheduleByRun, RequestTool, ledger
<1>4. CASE TickStart
  BY <1>4, UnchangedCounts DEF TickStart, ledger
<1> QED
  BY <1>1, <1>2, <1>3, <1>4 DEF Supervisor

LEMMA HostCounts ==
    ASSUME TypeOK, Host
    PROVE  CountsKept
<1>1. ASSUME NEW ms, NEW b, Recover(ms, b) PROVE CountsKept
  BY <1>1 DEF TypeOK, RunsOK, RunRecord, Recover, CountsKept, ledger
<1> QED
  BY <1>1, UnchangedCounts, CancelledCounts
  DEF Host, Unverify, RefreshModels, Clock, FenceModelConfiguration, TypeOK, ledger

LEMMA TickCounts ==
    ASSUME TypeOK, Unasked, NEW s \in Schedules, TickSchedule(s)
    PROVE  CountsKept
<1>1. ASSUME NEW r \in Runs, TickAdmits(s, r) PROVE CountsKept
  BY <1>1, QueuedCounts DEF TickSchedule, TickAdmits, TypeOK
<1> QED
  BY <1>1, UnchangedCounts
  DEF TickSchedule, TickEnds, TickSkips, TickMisses, TickRejects

\* Only the relay's reservation counts, once for its run and once for the day.
LEMMA NextCounts ==
    TypeOK /\ Unasked /\ [Next]_vars =>
        CountsKept \/ \E r \in Runs : ReserveModelRequest(r)
<1> SUFFICES ASSUME TypeOK, Unasked, [Next]_vars
             PROVE  CountsKept \/ \E r \in Runs : ReserveModelRequest(r)
  OBVIOUS
<1>1. CASE UNCHANGED vars
  BY <1>1, UnchangedCounts DEF vars, ledger
<1>2. ASSUME NEW t, NEW token, NEW outcome, ClaimTool(t) \/ ToolResult(t, token, outcome)
      PROVE  CountsKept
  BY <1>2, UnchangedCounts, MovedCounts DEF ClaimTool, ToolResult, ledger, TypeOK
<1>3. CASE Next
  BY <1>2, <1>3, OperatorCounts, SupervisorCounts, HostCounts, TickCounts
  DEF Next, Device
<1> QED
  BY <1>1, <1>3

-----------------------------------------------------------------------------
\* The clock stays in the modelled days, so today's count is one of theirs.
LEMMA TodayIsCounted ==
    ASSUME BudgetAssumption, BoundAssumption, now \in Nat, now <= Horizon
    PROVE  Today \in Days
<1> DEFINE m == MinutesPerDay
           q == now \div m
           h == Horizon \div m
<1>1. m \in Nat /\ m > 0 /\ Horizon \in Nat
  BY DEF BudgetAssumption, BoundAssumption
<1>2. q \in Nat /\ h \in Nat
  BY <1>1
<1>3. m * q <= now /\ Horizon < m * h + m
  BY <1>1
<1>4. q <= h
  <2> SUFFICES ASSUME q >= h + 1 PROVE FALSE
    BY <1>2
  <2>1. m * q >= m * (h + 1)
    BY <1>1, <1>2
  <2> QED
    BY <1>1, <1>2, <1>3, <2>1
<1> QED
  BY <1>2, <1>4 DEF Today, Days

\* What is counted is finite, and the clock is within the horizon.
Accounted ==
    /\ RequestsAccounted /\ Unasked /\ now <= Horizon
    /\ IsFiniteSet(Tally(usage, Days)) /\ IsFiniteSet(Tally(RequestsOf, Runs))

LEMMA ClockBound == TypeOK /\ now <= Horizon /\ [Next]_vars => now' <= Horizon
<1> SUFFICES ASSUME TypeOK, now <= Horizon, [Next]_vars PROVE now' <= Horizon
  OBVIOUS
<1>1. CASE UNCHANGED now
  BY <1>1
<1>2. CASE Clock
  BY <1>2, BoundAssumption DEF Clock, TypeOK, ControlOK, BoundAssumption
<1> QED
  BY <1>1, <1>2, OnlyClock

LEMMA InitAccounted == Init => Accounted
<1> SUFFICES ASSUME Init PROVE Accounted
  OBVIOUS
<1>1. Tally(usage, Days) = {} /\ Tally(RequestsOf, Runs) = {}
  BY TallyNothing DEF Init, NoRun, RequestsOf
<1>2. now <= Horizon /\ DailyLimit >= 0 /\ MaxIterations >= 0
  BY BudgetAssumption, BoundAssumption DEF Init, BudgetAssumption, BoundAssumption
<1> QED
  BY <1>1, <1>2, FS_EmptySet DEF Init, NoRun, Accounted, RequestsAccounted, Unasked

LEMMA ReservedAccounted ==
    ASSUME TypeOK, Accounted, NEW r \in Runs, ReserveModelRequest(r)
    PROVE  RequestsAccounted' /\ IsFiniteSet(Tally(usage, Days)')
           /\ IsFiniteSet(Tally(RequestsOf, Runs)')
<1>1. Today \in Days
  BY TodayIsCounted, BudgetAssumption, BoundAssumption DEF TypeOK, ControlOK, Accounted
<1>2. usage \in [Days -> Nat] /\ RequestsOf \in [Runs -> Nat]
  BY DEF TypeOK, LedgerOK, RunsOK, RunRecord, RequestsOf
<1>3. /\ DOMAIN usage' = Days /\ usage'[Today] = usage[Today] + 1
      /\ \A d \in Days \ {Today} : usage'[d] = usage[d]
  BY <1>1, <1>2 DEF ReserveModelRequest
<1>4. /\ DOMAIN RequestsOf' = Runs /\ RequestsOf'[r] = RequestsOf[r] + 1
      /\ \A x \in Runs \ {r} : RequestsOf'[x] = RequestsOf[x]
  BY DEF ReserveModelRequest, RequestsOf, TypeOK, RunsOK, RunRecord
<1>5. /\ IsFiniteSet(Tally(usage', Days))
      /\ Cardinality(Tally(usage', Days)) = Cardinality(Tally(usage, Days)) + 1
  BY <1>1, <1>2, <1>3, TallyGrows DEF Accounted
<1>6. /\ IsFiniteSet(Tally(RequestsOf', Runs))
      /\ Cardinality(Tally(RequestsOf', Runs)) = Cardinality(Tally(RequestsOf, Runs)) + 1
  BY <1>2, <1>4, TallyGrows DEF Accounted
<1>7. \A d \in Days : usage'[d] <= DailyLimit
  BY <1>1, <1>2, <1>3, BudgetAssumption
  DEF Accounted, RequestsAccounted, ReserveModelRequest, BudgetAssumption
<1>8. \A x \in Runs : run'[x].requests <= MaxIterations
  BY <1>2, <1>4, BudgetAssumption
  DEF Accounted, RequestsAccounted, ReserveModelRequest, BudgetAssumption, RequestsOf
<1> QED
  BY <1>5, <1>6, <1>7, <1>8 DEF RequestsAccounted, Accounted

LEMMA StillUnadmitted ==
    TypeOK /\ [Next]_vars =>
        \A r \in Runs : run'[r].state = "none" => run[r].state = "none"
<1> SUFFICES ASSUME TypeOK, [Next]_vars
             PROVE  \A r \in Runs : run'[r].state = "none" => run[r].state = "none"
  OBVIOUS
<1>1. CASE TermsKept
  BY <1>1 DEF TermsKept, SameTerms
<1>2. CASE Admits
  BY <1>2, AdmittedRun DEF AdmittedTo
<1> QED
  BY <1>1, <1>2, NextTerms

LEMMA AccountedInductive == TypeOK /\ TypeOK' /\ Accounted /\ [Next]_vars => Accounted'
<1> SUFFICES ASSUME TypeOK, TypeOK', Accounted, [Next]_vars PROVE Accounted'
  OBVIOUS
<1>1. now' <= Horizon
  BY BoundAssumption, ClockBound DEF Accounted, BoundAssumption
<1>2. CASE CountsKept
  <2>1. /\ Tally(usage', Days) = Tally(usage, Days)
        /\ Tally(RequestsOf', Runs) = Tally(RequestsOf, Runs)
    BY <1>2, TallyKept DEF CountsKept, RequestsOf
  <2>2. Unasked'
    BY <1>2, StillUnadmitted DEF CountsKept, Unasked, Accounted
  <2> QED
    BY <1>1, <1>2, <2>1, <2>2 DEF Accounted, RequestsAccounted, CountsKept
<1>3. ASSUME NEW r \in Runs, ReserveModelRequest(r) PROVE Accounted'
  <2>1. Unasked'
    BY <1>3 DEF ReserveModelRequest, Unasked, Accounted, TypeOK, RunsOK, RunRecord
  <2> QED
    BY <1>1, <1>3, <2>1, ReservedAccounted DEF Accounted
<1> QED
  BY <1>2, <1>3, NextCounts DEF Accounted

\* No request is missing from the days' counts and none is counted twice, and
\* neither limit is passed (reserve_model_request).
THEOREM RequestsKeepAccount == Spec => []RequestsAccounted
<1>1. Accounted => RequestsAccounted
  BY DEF Accounted
<1>2. Spec => []Accounted
  BY InitAccounted, AccountedInductive, TypeCorrect, PTL DEF Spec
<1> QED
  BY <1>1, <1>2, PTL
=============================================================================
