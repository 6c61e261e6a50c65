-------------------------- MODULE ResourceCommands --------------------------
(***************************************************************************)
(* What the operator does to the runtime's objects (runtime/resources.rs): *)
(* interfaces, proposals and schedules of workspaces that the desk records *)
(* it owns at the runtime (runtime/storage.rs), the deletion of such a     *)
(* workspace (runtime/runs.rs), the changes of the model's authority and   *)
(* the starts of the runtime (runtime/managed.rs), and the closing of the  *)
(* window while schedules may be enabled (lib.rs).                         *)
(*                                                                         *)
(* Calls share one pipe and are served in order; the pipe may break at any *)
(* moment, and the runtime with it.  The runtime's side is RuntimeStore,   *)
(* reduced to what these commands tell apart.                              *)
(***************************************************************************)
EXTENDS Naturals, Sequences, Absent

CONSTANTS Spaces, Orders,
          MaxDeeds   \* bound of the exploration, on the commands, the starts of the
                     \* runtime and the changes of the provider there are in all

VARIABLES desk,      \* the database, the controller and the gate of the host
          order,     \* the commands under way
          pipe,      \* the calls that were written and not answered
          answers,   \* what each caller was answered, or Nil
          service,   \* the runtime's store and its configured authority
          frame,     \* the main window
          told       \* the schedules the operator knows to be enabled

resourceVars == <<desk, order, pipe, answers, service, frame, told>>

ASSUME ResourceAssumption ==
    /\ MaxDeeds \in Nat
    /\ {"gate", "window"} \cap Orders = {}
    /\ Nil \notin {"ok", "refused", "lost"}

Callers == Orders \cup {"gate", "window"}

-----------------------------------------------------------------------------
(* The runtime *)

Fenced(s) == [s EXCEPT !.schedule = [w \in Spaces |-> IF @[w] = "enabled" THEN "paused" ELSE @[w]],
                       !.proposal = [w \in Spaces |-> IF @[w] = "pending" THEN "void" ELSE @[w]]]

\* What an operation does where it is allowed; else it is refused.
Result(allowed, next) == [answer |-> IF allowed THEN "ok" ELSE "refused",
                           next |-> IF allowed THEN next ELSE service]
Allowed(next) == Result(TRUE, next)

RemoveInterface(w) ==
    [service EXCEPT !.interface[w] = "deleted",
                    !.schedule[w] = IF @ = "enabled" THEN "paused" ELSE @,
                    !.proposal[w] = IF @ = "pending" THEN "void" ELSE @]

\* Configuring the same authority again is no change; any other is fenced first.
Reconfigured(authority) ==
    LET same == service.scope = authority /\ service.authority \in {Nil, authority}
    IN  [(IF same THEN service ELSE Fenced(service))
         EXCEPT !.authority = authority, !.scope = authority]
Cleared == [(IF service.authority = Nil /\ service.scope = Nil THEN service ELSE Fenced(service))
            EXCEPT !.authority = Nil, !.scope = Nil]

ServeOf(c) ==
    LET w == c.workspace
        known == w \notin service.gone
        published == service.interface[w] = "live"
        planned == service.schedule[w] \in {"paused", "enabled"}
    IN  CASE c.op = "consult" -> Result(TRUE, service)
          [] c.op = "propose" -> Result(known, [service EXCEPT !.proposal[w] = "pending"])
          [] c.op = "publish" -> Result(known /\ service.proposal[w] = "pending",
                                         [service EXCEPT !.proposal[w] = "published",
                                                         !.interface[w] = "live"])
          [] c.op = "remove" -> Result(published, RemoveInterface(w))
          [] c.op = "create" -> Result(known /\ published /\ service.authority # Nil
                                             /\ service.schedule[w] = "none",
                                        [service EXCEPT !.schedule[w] = "paused"])
          [] c.op = "enable" -> Result(known /\ published /\ service.authority # Nil /\ planned,
                                        [service EXCEPT !.schedule[w] = "enabled",
                                                        !.consent[w] = c.config])
          [] c.op = "pause" -> Result(planned, [service EXCEPT !.schedule[w] = "paused"])
          [] c.op = "drop" -> Result(planned, [service EXCEPT !.schedule[w] = "deleted"])
          [] c.op = "delete" -> Allowed([service EXCEPT !.gone = @ \cup {w},
                                         !.schedule[w] = IF @ = "enabled" THEN "paused" ELSE @])
          [] c.op = "clear" -> Allowed(Cleared)
          [] c.op = "configure" -> Allowed(Reconfigured(c.config))
          [] c.op = "lifecycle" ->
                Result(\E x \in Spaces : service.schedule[x] = "enabled", service)

-----------------------------------------------------------------------------
(* The pipe *)

CallFrom(who, op, w, config) == [from |-> who, op |-> op, workspace |-> w, config |-> config]
Write(c) == pipe' = Append(pipe, c)
Replied(who) == answers[who] # Nil
Taken(who) == answers' = [answers EXCEPT ![who] = Nil]

ServeHead ==
    /\ desk.alive /\ pipe # <<>>
    /\ LET c == Head(pipe)
       IN  /\ answers' = [answers EXCEPT ![c.from] = ServeOf(c).answer]
           /\ service' = ServeOf(c).next
    /\ pipe' = Tail(pipe) /\ UNCHANGED <<desk, order, frame, told>>

\* What is in the pipe is lost, its head served or not.
Broken ==
    /\ desk' = [desk EXCEPT !.alive = FALSE, !.ready = FALSE]
    /\ answers' = [who \in Callers |->
                      IF \E i \in 1..Len(pipe) : pipe[i].from = who THEN "lost" ELSE answers[who]]
    /\ pipe' = <<>>
    /\ \E s \in {service} \cup (IF pipe = <<>> THEN {} ELSE {ServeOf(Head(pipe)).next}) :
          service' = [s EXCEPT !.authority = Nil]

PipeBreaks == desk.alive /\ Broken /\ UNCHANGED <<order, frame, told>>

-----------------------------------------------------------------------------
(* Orders *)

\* "consult" stands for the reads, the renames and the rollbacks, which change
\* nothing the properties tell apart.
Ops == {"consult", "propose", "publish", "remove", "create", "enable", "pause", "drop"}

IsAt(t, at) == order[t].at = at
Goes(t, at) == order' = [order EXCEPT ![t].at = at]
NoOrder == [op |-> "none", at |-> "none", workspace |-> Nil, config |-> 0, sure |-> FALSE]
Over(t) == order' = [order EXCEPT ![t] = NoOrder]

TakesAway == {"pause", "drop", "remove", "delete"}
TakenAway == {order[t].workspace : t \in {u \in Orders : order[u].op \in TakesAway}}

\* What is being paused or taken away is no longer counted on, whatever the
\* commands beside it are answered.
Forgets(op, w) ==
    LET lost == IF op \in TakesAway THEN {w} ELSE {}
    IN  told' = told \ lost /\ frame' = [frame EXCEPT !.counted = @ \ lost]
Unsure(o, op, w) == IF op \in TakesAway /\ o.workspace = w THEN [o EXCEPT !.sure = FALSE] ELSE o

Able == desk.deeds < MaxDeeds

Begins(t, op, w, at) ==
    /\ IsAt(t, "none") /\ frame.at \notin {"shut", "hidden"} /\ w \in desk.live
    /\ Able /\ desk' = [desk EXCEPT !.deeds = @ + 1]
    /\ order' = [u \in Orders |->
                    IF u = t THEN [op |-> op, at |-> at, workspace |-> w, config |-> desk.config,
                                   sure |-> w \notin TakenAway]
                             ELSE Unsure(order[u], op, w)]
    /\ Forgets(op, w) /\ UNCHANGED <<pipe, answers, service>>

\* The runtime is there, and ready when a schedule is to be enabled.
BeginResource(t, op, w) ==
    /\ desk.alive /\ (op = "enable" => desk.ready)
    /\ Begins(t, op, w, CASE op \in {"propose", "create"} -> "owning"
                          [] op = "enable" -> "approving" [] OTHER -> "calling")

\* An intent is ownership even if its answer never arrives.
OwnWorkspace(t) ==
    /\ IsAt(t, "owning")
    /\ IF order[t].workspace \in desk.live /\ desk.config = order[t].config
       THEN desk' = [desk EXCEPT !.owners = @ \cup {order[t].workspace}] /\ Goes(t, "calling")
       ELSE Over(t) /\ UNCHANGED desk
    /\ UNCHANGED <<pipe, answers, service, frame, told>>

\* The approval of background work is stored before the schedule is enabled.
ApproveBackground(t) ==
    /\ IsAt(t, "approving")
    /\ IF desk.config = order[t].config
       THEN desk' = [desk EXCEPT !.approved = TRUE] /\ Goes(t, "calling")
       ELSE Over(t) /\ UNCHANGED desk
    /\ UNCHANGED <<pipe, answers, service, frame, told>>

PostResource(t) ==
    /\ IsAt(t, "calling")
    /\ IF desk.alive
       THEN /\ Write(CallFrom(t, order[t].op, order[t].workspace, order[t].config))
            /\ Goes(t, "called")
       ELSE Over(t) /\ UNCHANGED pipe
    /\ UNCHANGED <<desk, answers, service, frame, told>>

\* An answer of another configuration, or for a workspace that is gone, is kept
\* from the operator.
ReturnResource(t) ==
    /\ IsAt(t, "called") /\ order[t].op # "delete" /\ Replied(t) /\ Taken(t) /\ Over(t)
    /\ told' = IF answers[t] = "ok" /\ desk.config = order[t].config
                  /\ order[t].op = "enable" /\ order[t].sure
               THEN told \cup {order[t].workspace} ELSE told
    /\ UNCHANGED <<desk, pipe, service, frame>>

BeginErase(t, w) == Begins(t, "delete", w, "finding")

\* A workspace the runtime may know is deleted there first.
FindOwner(t) ==
    /\ IsAt(t, "finding")
    /\ IF order[t].workspace \notin desk.owners THEN Goes(t, "erasing")
       ELSE IF desk.alive
       THEN order' = [order EXCEPT ![t].at = "calling", ![t].config = desk.config] ELSE Over(t)
    /\ UNCHANGED <<desk, pipe, answers, service, frame, told>>

AcknowledgeDeletion(t) ==
    /\ IsAt(t, "called") /\ order[t].op = "delete" /\ Replied(t) /\ Taken(t)
    /\ IF /\ answers[t] = "ok" /\ desk.config = order[t].config
          /\ order[t].workspace \in desk.owners
       THEN desk' = [desk EXCEPT !.owners = @ \ {order[t].workspace}] /\ Goes(t, "erasing")
       ELSE Over(t) /\ UNCHANGED desk
    /\ UNCHANGED <<pipe, service, frame, told>>

\* Variant: the owners are not looked at again.
EraseAnyway(t) ==
    /\ IsAt(t, "erasing") /\ Over(t)
    /\ desk' = [desk EXCEPT !.live = @ \ {order[t].workspace}]
    /\ UNCHANGED <<pipe, answers, service, frame, told>>

EraseWorkspace(t) ==
    /\ IsAt(t, "erasing") /\ Over(t)
    /\ desk' = IF order[t].workspace \in desk.owners THEN desk
               ELSE [desk EXCEPT !.live = @ \ {order[t].workspace}]
    /\ UNCHANGED <<pipe, answers, service, frame, told>>

OrderSteps(t) ==
    \/ OwnWorkspace(t) \/ ApproveBackground(t) \/ PostResource(t) \/ ReturnResource(t)
    \/ FindOwner(t) \/ AcknowledgeDeletion(t) \/ EraseWorkspace(t)

-----------------------------------------------------------------------------
(* The model's authority and the starts of the runtime, one at a time *)

Gate(at) == desk.gate = at
GateCalls(d, op, at) ==
    /\ desk' = [d EXCEPT !.gate = at]
    /\ Write(CallFrom("gate", op, Nil, desk.config))

\* The approval does not outlive the provider it was given under.
ChangeProvider ==
    /\ Gate("free") /\ frame.at \notin {"shut", "hidden"} /\ Able
    /\ desk' = [desk EXCEPT !.deeds = @ + 1, !.config = @ + 1, !.approved = FALSE, !.ready = FALSE, !.synced = 0,
                            !.gate = "clearing"]
    /\ told' = {} /\ frame' = [frame EXCEPT !.counted = {}]
    /\ UNCHANGED <<order, pipe, answers, service>>

ClearOld ==
    /\ Gate("clearing")
    /\ IF desk.alive THEN GateCalls(desk, "clear", "cleared")
       ELSE desk' = [desk EXCEPT !.gate = "free"] /\ UNCHANGED pipe
    /\ UNCHANGED <<order, answers, service, frame, told>>

SyncNew ==
    /\ Gate("free") /\ desk.alive /\ service.authority # desk.config
    /\ GateCalls(desk, "configure", "configured")
    /\ UNCHANGED <<order, answers, service, frame, told>>

\* A runtime that was approved to work unseen is asked for enabled schedules.
StartRuntime ==
    /\ Gate("free") /\ ~desk.alive /\ frame.at # "shut" /\ Able
    /\ LET up == [desk EXCEPT !.alive = TRUE, !.ready = FALSE, !.deeds = @ + 1]
       IN  IF desk.approved /\ desk.synced = desk.config
           THEN GateCalls(up, "lifecycle", "counted")
           ELSE desk' = up /\ UNCHANGED pipe
    /\ UNCHANGED <<order, answers, service, frame, told>>

\* A start that fails, or a refused call, leaves no runtime.
GateAnswered ==
    /\ Replied("gate") /\ Taken("gate")
    /\ CASE Gate("counted") /\ answers["gate"] = "ok" /\ desk.alive ->
               GateCalls(desk, "configure", "configured")
         [] Gate("configured") /\ answers["gate"] = "ok" ->
               /\ desk' = [desk EXCEPT !.gate = "free", !.ready = TRUE, !.synced = desk.config]
               /\ UNCHANGED pipe
         [] OTHER -> desk' = [desk EXCEPT !.gate = "free"] /\ UNCHANGED pipe
    /\ UNCHANGED <<order, service, frame, told>>

GateSteps == ClearOld \/ GateAnswered

-----------------------------------------------------------------------------
(* The window *)

Frame(at) == frame.at = at

CloseFrame ==
    /\ Frame("open") /\ frame' = [frame EXCEPT !.at = "closing", !.counted = told]
    /\ UNCHANGED <<desk, order, pipe, answers, service, told>>

\* finish_window_close: the approval is read before the schedules are counted.
CountSchedules ==
    /\ Frame("closing") /\ frame' = [frame EXCEPT !.at = "counting", !.approved = desk.approved]
    /\ IF desk.alive THEN Write(CallFrom("window", "lifecycle", Nil, 0)) /\ UNCHANGED answers
       ELSE answers' = [answers EXCEPT !["window"] = "lost"] /\ UNCHANGED pipe
    /\ UNCHANGED <<desk, order, service, told>>

\* Variant: no answer counts as no schedule.
CountedNone ==
    /\ Frame("counting") /\ Replied("window") /\ Taken("window")
    /\ frame' = [frame EXCEPT !.approved = FALSE,
                              !.at = IF answers["window"] = "ok" THEN "hidden" ELSE "stopping"]
    /\ UNCHANGED <<desk, order, pipe, service, told>>

\* Variant: the count is awaited until it comes.
CountedAlive == answers["window"] # "lost" /\ CountedNone

\* With schedules enabled the window hides, if the tray can show it; if they may
\* be, it stays.
Counted ==
    /\ Frame("counting") /\ Replied("window") /\ Taken("window")
    /\ \/ /\ answers["window"] = "ok"
          /\ \E at \in {"hidden", "open"} : frame' = [frame EXCEPT !.at = at, !.approved = FALSE]
       \/ /\ answers["window"] = "lost" /\ frame.approved
          /\ frame' = [frame EXCEPT !.at = "open", !.approved = FALSE]
       \/ /\ answers["window"] = "refused" \/ (answers["window"] = "lost" /\ ~frame.approved)
          /\ frame' = [frame EXCEPT !.at = "stopping", !.approved = FALSE]
    /\ UNCHANGED <<desk, order, pipe, service, told>>

\* The runtime is stopped before the window goes.
StopRuntime ==
    /\ Frame("stopping") /\ Broken /\ frame' = [frame EXCEPT !.at = "shut"]
    /\ order' = [t \in Orders |-> NoOrder] /\ UNCHANGED told

QuitNow ==
    /\ frame.at \in {"open", "hidden", "closing", "counting"}
    /\ Broken /\ frame' = [frame EXCEPT !.at = "shut", !.counted = {}]
    /\ order' = [t \in Orders |-> NoOrder] /\ UNCHANGED told

ShowFrame ==
    /\ Frame("hidden") /\ frame' = [frame EXCEPT !.at = "open"]
    /\ UNCHANGED <<desk, order, pipe, answers, service, told>>

\* The app is opened again, over the same database.
OpenAgain ==
    /\ Frame("shut") /\ Able
    /\ frame' = [frame EXCEPT !.at = "open", !.counted = {}]
    /\ desk' = [desk EXCEPT !.gate = "free"]
    /\ answers' = [who \in Callers |-> Nil]
    /\ UNCHANGED <<order, pipe, service, told>>

FrameSteps == CountSchedules \/ Counted \/ StopRuntime

-----------------------------------------------------------------------------

\* The store may hold an interface, and a schedule of it, from earlier sessions.
ResourceInit ==
    \E held \in {"nothing", "interface", "schedule"} :
        /\ desk = [live |-> Spaces, owners |-> IF held = "nothing" THEN {} ELSE Spaces,
                   config |-> 1, synced |-> 0, approved |-> FALSE, ready |-> FALSE, alive |-> FALSE,
                   gate |-> "free", deeds |-> 0]
        /\ service = [gone |-> {}, authority |-> Nil, scope |-> Nil,
                      proposal |-> [w \in Spaces |-> IF held = "nothing" THEN "none" ELSE "published"],
                      interface |-> [w \in Spaces |-> IF held = "nothing" THEN "none" ELSE "live"],
                      schedule |-> [w \in Spaces |-> IF held = "schedule" THEN "paused" ELSE "none"],
                      consent |-> [w \in Spaces |-> 0]]
        /\ order = [t \in Orders |-> NoOrder]
        /\ pipe = <<>> /\ answers = [who \in Callers |-> Nil]
        /\ frame = [at |-> "open", approved |-> FALSE, counted |-> {}]
        /\ told = {}

ResourceNext ==
    \/ \E t \in Orders, w \in Spaces :
          BeginErase(t, w) \/ \E op \in Ops : BeginResource(t, op, w)
    \/ \E t \in Orders : OrderSteps(t)
    \/ ServeHead \/ PipeBreaks
    \/ ChangeProvider \/ SyncNew \/ StartRuntime \/ GateSteps
    \/ CloseFrame \/ FrameSteps \/ QuitNow \/ ShowFrame \/ OpenAgain

ResourceSpec == ResourceInit /\ [][ResourceNext]_resourceVars
=============================================================================
