--------------------------- MODULE ResourceProofs ---------------------------
(***************************************************************************)
(* NoOrphans for any workspaces and any number of commands at once: the    *)
(* record of ownership is written before the call that may leave something *)
(* at the runtime and dropped only by a receipt of the deletion.           *)
(*                                                                         *)
(* BackgroundHeld likewise: what the operator is told to be enabled is     *)
(* enabled and nothing under way takes it away; the approval and the       *)
(* authority of the current provider come before the enabling; where the   *)
(* gate stands says what the runtime may be authorized for meanwhile.      *)
(***************************************************************************)
EXTENDS ResourceCommands, ResourceSafety, TLAPS

Places == Spaces \cup {Nil}
OpNames == {"none", "consult", "propose", "publish", "remove", "create", "enable", "pause",
            "drop", "delete", "clear", "configure", "lifecycle"}
OrderStates == {"none", "owning", "approving", "calling", "called", "finding", "erasing"}
GateStates == {"free", "clearing", "cleared", "counted", "configured"}
FrameStates == {"open", "closing", "counting", "stopping", "hidden", "shut"}
Proposals == {"none", "pending", "void", "published"}
Interfaces == {"none", "live", "deleted"}
Schedules == {"none", "paused", "enabled", "deleted"}
AnswerKinds == {"ok", "refused", "lost"}

Desks == [live : SUBSET Spaces, owners : SUBSET Spaces, config : Nat, synced : Nat,
          approved : BOOLEAN, ready : BOOLEAN, alive : BOOLEAN, gate : GateStates, deeds : Nat]
OrderRecords == [op : OpNames, at : OrderStates, workspace : Places, config : Nat, sure : BOOLEAN]
Calls == [from : Callers, op : OpNames \ {"none"}, workspace : Places, config : Nat]
Services == [gone : SUBSET Places, authority : Nat \cup {Nil}, scope : Nat \cup {Nil},
             proposal : [Spaces -> Proposals], interface : [Spaces -> Interfaces],
             schedule : [Spaces -> Schedules], consent : [Spaces -> Nat]]
Frames == [at : FrameStates, approved : BOOLEAN, counted : SUBSET Places]

ResourceTypeOK ==
    /\ desk \in Desks /\ service \in Services /\ frame \in Frames
    /\ order \in [Orders -> OrderRecords]
    /\ \A t \in Orders : order[t].at # "none" => order[t].op # "none"
    /\ pipe \in Seq(Calls)
    /\ answers \in [Callers -> AnswerKinds \cup {Nil}]
    /\ told \subseteq Places

\* The call of a command in the pipe is its only one, and not answered yet.
Paired ==
    \A i \in 1..Len(pipe) : pipe[i].from \in Orders =>
        /\ order[pipe[i].from].at = "called"
        /\ order[pipe[i].from].op = pipe[i].op
        /\ order[pipe[i].from].workspace = pipe[i].workspace
        /\ answers[pipe[i].from] = Nil
        /\ \A j \in 1..Len(pipe) : pipe[j].from = pipe[i].from => j = i

\* Only a command that called holds an answer; none is under way in a closed app.
AnswersAwaited ==
    \A t \in Orders :
        /\ order[t].at # "called" /\ frame.at # "shut" => answers[t] = Nil
        /\ frame.at = "shut" => order[t].at = "none"

\* The operations that leave something where nothing was
Leaves == {"propose", "create"}

\* What is prepared without a record of ownership leaves nothing.
Prepared ==
    \A t \in Orders : order[t].at \in {"approving", "finding", "erasing"} => order[t].op \notin Leaves

\* A deletion that was confirmed is known to the runtime.
ReceiptsTrue ==
    \A t \in Orders :
        order[t].at = "called" /\ order[t].op = "delete" /\ answers[t] = "ok"
        => order[t].workspace \in service.gone

OwnersLive == desk.owners \subseteq desk.live

Untouched(s, w) == s.proposal[w] = "none" /\ s.schedule[w] = "none"
NothingUnderway(w) ==
    /\ \A t \in Orders : ~(order[t].at = "calling" /\ order[t].op \in Leaves
                           /\ order[t].workspace = w)
    /\ \A i \in 1..Len(pipe) : ~(pipe[i].op \in Leaves /\ pipe[i].workspace = w)

\* What a workspace has or may yet get at the runtime is recorded.
Recorded ==
    \A w \in Spaces : \/ w \in desk.owners \/ w \in service.gone
                      \/ Untouched(service, w) /\ NothingUnderway(w)

ResourceInvariant ==
    /\ ResourceTypeOK /\ Paired /\ AnswersAwaited /\ Prepared /\ ReceiptsTrue
    /\ OwnersLive /\ Recorded

LEMMA InvariantSuffices == ResourceInvariant => NoOrphans
BY DEF ResourceInvariant, OwnersLive, Recorded, NoOrphans, Untouched

LEMMA ResourcesStart == ResourceInit => ResourceInvariant
<1> SUFFICES ASSUME ResourceInit PROVE ResourceInvariant
    OBVIOUS
<1>1. PICK held \in {"nothing", "interface", "schedule"} :
        /\ desk = [live |-> Spaces, owners |-> IF held = "nothing" THEN {} ELSE Spaces,
                   config |-> 1, synced |-> 0, approved |-> FALSE, ready |-> FALSE, alive |-> FALSE,
                   gate |-> "free", deeds |-> 0]
        /\ service = [gone |-> {}, authority |-> Nil, scope |-> Nil,
                      proposal |-> [w \in Spaces |-> IF held = "nothing" THEN "none" ELSE "published"],
                      interface |-> [w \in Spaces |-> IF held = "nothing" THEN "none" ELSE "live"],
                      schedule |-> [w \in Spaces |-> IF held = "schedule" THEN "paused" ELSE "none"],
                      consent |-> [w \in Spaces |-> 0]]
    BY DEF ResourceInit
<1>2. desk \in Desks /\ desk.owners \subseteq desk.live
    <2>1. CASE held = "nothing"
        BY <1>1, <2>1 DEF Desks, GateStates
    <2>2. CASE held # "nothing"
        BY <1>1, <2>2 DEF Desks, GateStates
    <2> QED
        BY <2>1, <2>2
<1>3. service \in Services
    <2> DEFINE proposal == [w \in Spaces |-> IF held = "nothing" THEN "none" ELSE "published"]
               interface == [w \in Spaces |-> IF held = "nothing" THEN "none" ELSE "live"]
               schedule == [w \in Spaces |-> IF held = "schedule" THEN "paused" ELSE "none"]
    <2>1. proposal \in [Spaces -> Proposals]
        BY DEF Proposals
    <2>2. interface \in [Spaces -> Interfaces]
        BY DEF Interfaces
    <2>3. schedule \in [Spaces -> Schedules]
        BY DEF Schedules
    <2>4. [w \in Spaces |-> 0] \in [Spaces -> Nat]
        OBVIOUS
    <2> QED
        BY <1>1, <2>1, <2>2, <2>3, <2>4 DEF Services
<1>4. pipe = <<>> /\ pipe \in Seq(Calls) /\ Len(pipe) = 0
    BY DEF ResourceInit
<1>5. /\ order = [t \in Orders |-> NoOrder] /\ answers = [who \in Callers |-> Nil]
      /\ frame = [at |-> "open", approved |-> FALSE, counted |-> {}] /\ told = {}
    BY DEF ResourceInit
<1>6. NoOrder \in OrderRecords /\ NoOrder.at = "none"
    BY DEF NoOrder, OrderRecords, Places, OpNames, OrderStates
<1>7. frame \in Frames
    BY <1>5 DEF Frames, FrameStates
<1>8. ResourceTypeOK
    BY <1>2, <1>3, <1>4, <1>5, <1>6, <1>7 DEF ResourceTypeOK
<1>9. Paired /\ AnswersAwaited /\ Prepared /\ ReceiptsTrue
    <2>1. \A t \in Orders : order[t].at = "none" /\ answers[t] = Nil
        BY <1>5, <1>6 DEF Callers
    <2> QED
        BY <1>4, <2>1 DEF Paired, AnswersAwaited, Prepared, ReceiptsTrue
<1>10. \A w \in Spaces : w \in desk.owners \/ Untouched(service, w)
    BY <1>1 DEF Untouched
<1>11. Recorded
    BY <1>4, <1>5, <1>6, <1>10 DEF Recorded, NothingUnderway
<1> QED
    BY <1>2, <1>8, <1>9, <1>11 DEF ResourceInvariant, OwnersLive

-----------------------------------------------------------------------------
(* The runtime *)

\* Only propose and create, for a workspace that is not gone, leave something
\* where nothing was; what is gone stays gone.
Extends(c, n) ==
    /\ n \in Services /\ service.gone \subseteq n.gone
    /\ \A w \in Spaces : Untouched(service, w) =>
          Untouched(n, w) \/ (c.op \in Leaves /\ c.workspace = w)
    /\ c.op = "delete" => c.workspace \in n.gone

LEMMA FencingExtends ==
    ASSUME service \in Services
    PROVE  /\ Fenced(service) \in Services /\ Fenced(service).gone = service.gone
           /\ \A w \in Spaces : Untouched(service, w) => Untouched(Fenced(service), w)
<1> DEFINE schedule == [w \in Spaces |-> IF service.schedule[w] = "enabled" THEN "paused"
                                           ELSE service.schedule[w]]
           proposal == [w \in Spaces |-> IF service.proposal[w] = "pending" THEN "void"
                                           ELSE service.proposal[w]]
<1>1. schedule \in [Spaces -> Schedules] /\ proposal \in [Spaces -> Proposals]
    BY DEF Services, Schedules, Proposals
<1>2. Fenced(service) = [service EXCEPT !.schedule = schedule, !.proposal = proposal]
    BY DEF Fenced
<1> HIDE DEF schedule, proposal
<1>3. /\ Fenced(service) \in Services /\ Fenced(service).gone = service.gone
      /\ Fenced(service).schedule = schedule /\ Fenced(service).proposal = proposal
    BY <1>1, <1>2 DEF Services
<1> QED
    BY <1>3 DEF Untouched, schedule, proposal

\* An update that keeps what is untouched untouched
LEMMA QuietExtends ==
    ASSUME service \in Services, NEW c \in Calls, c.op # "delete", NEW n \in Services,
           n.gone = service.gone,
           \A w \in Spaces : Untouched(service, w) => Untouched(n, w) \/ (c.op \in Leaves /\ c.workspace = w)
    PROVE  Extends(c, n)
BY DEF Extends

LEMMA ServingExtends ==
    ASSUME service \in Services, NEW c \in Calls
    PROVE  Extends(c, ServeOf(c).next)
<1> DEFINE v == c.workspace
           n == ServeOf(c).next
<1>0. c.op \in OpNames \ {"none"} /\ c.config \in Nat /\ v \in Places
    BY DEF Calls
<1>1. CASE c.op \in {"consult", "lifecycle"}
    <2>1. n = service
        BY <1>1 DEF ServeOf, Result
    <2> QED
        BY <1>1, <2>1, QuietExtends
<1>2. CASE c.op = "propose"
    <2>1. n \in {service, [service EXCEPT !.proposal[v] = "pending"]}
        BY <1>2 DEF ServeOf, Result
    <2>2. /\ n \in Services /\ n.gone = service.gone
          /\ \A w \in Spaces : w # v => n.proposal[w] = service.proposal[w]
          /\ n.schedule = service.schedule
        BY <2>1 DEF Services, Proposals
    <2> QED
        BY <1>2, <2>2, QuietExtends DEF Untouched, Leaves
<1>3. CASE c.op = "publish"
    <2>1. n = service \/ (/\ service.proposal[v] = "pending"
                          /\ n = [service EXCEPT !.proposal[v] = "published", !.interface[v] = "live"])
        BY <1>3 DEF ServeOf, Result
    <2>2. /\ n \in Services /\ n.gone = service.gone
          /\ \A w \in Spaces : n.proposal[w] = service.proposal[w] \/ service.proposal[w] = "pending"
          /\ n.schedule = service.schedule
        <3> DEFINE proposal == [service.proposal EXCEPT ![v] = "published"]
                   interface == [service.interface EXCEPT ![v] = "live"]
        <3>1. proposal \in [Spaces -> Proposals] /\ interface \in [Spaces -> Interfaces]
            BY DEF Services, Proposals, Interfaces
        <3>2. CASE n = service
            BY <3>2
        <3>3. CASE n # service
            <4>1. n = [service EXCEPT !.proposal = proposal, !.interface = interface]
                BY <2>1, <3>3
            <4>2. /\ n \in Services /\ n.gone = service.gone /\ n.proposal = proposal
                  /\ n.schedule = service.schedule
                BY <3>1, <4>1 DEF Services
            <4> QED
                BY <2>1, <3>3, <4>2 DEF Services
        <3> QED
            BY <3>2, <3>3
    <2> QED
        BY <1>3, <2>2, QuietExtends DEF Untouched
<1>4. CASE c.op = "remove"
    <2>1. n \in {service, RemoveInterface(v)}
        BY <1>4 DEF ServeOf, Result
    <2>2. /\ RemoveInterface(v) \in Services /\ RemoveInterface(v).gone = service.gone
          /\ \A w \in Spaces : Untouched(service, w) => Untouched(RemoveInterface(v), w)
        BY DEF RemoveInterface, Services, Proposals, Interfaces, Schedules, Untouched
    <2> QED
        BY <1>4, <2>1, <2>2, QuietExtends
<1>5. CASE c.op = "create"
    <2>1. n \in {service, [service EXCEPT !.schedule[v] = "paused"]}
        BY <1>5 DEF ServeOf, Result
    <2>2. /\ n \in Services /\ n.gone = service.gone
          /\ \A w \in Spaces : w # v => n.schedule[w] = service.schedule[w]
          /\ n.proposal = service.proposal
        BY <2>1 DEF Services, Schedules
    <2> QED
        BY <1>5, <2>2, QuietExtends DEF Untouched, Leaves
<1>6. CASE c.op = "enable"
    <2>1. n = service \/ (/\ service.schedule[v] \in {"paused", "enabled"}
                          /\ n = [service EXCEPT !.schedule[v] = "enabled", !.consent[v] = c.config])
        BY <1>6 DEF ServeOf, Result
    <2>2. /\ n \in Services /\ n.gone = service.gone
          /\ \A w \in Spaces : n.schedule[w] = service.schedule[w] \/ service.schedule[w] # "none"
          /\ n.proposal = service.proposal
        <3> DEFINE schedule == [service.schedule EXCEPT ![v] = "enabled"]
                   consent == [service.consent EXCEPT ![v] = c.config]
        <3>1. schedule \in [Spaces -> Schedules] /\ consent \in [Spaces -> Nat]
            BY <1>0 DEF Services, Schedules
        <3>2. CASE n = service
            BY <3>2
        <3>3. CASE n # service
            <4>1. n = [service EXCEPT !.schedule = schedule, !.consent = consent]
                BY <2>1, <3>3
            <4>2. /\ n \in Services /\ n.gone = service.gone /\ n.schedule = schedule
                  /\ n.proposal = service.proposal
                BY <3>1, <4>1 DEF Services
            <4> QED
                BY <2>1, <3>3, <4>2 DEF Services
        <3> QED
            BY <3>2, <3>3
    <2> QED
        BY <1>6, <2>2, QuietExtends DEF Untouched
<1>7. CASE c.op \in {"pause", "drop"}
    <2>1. n = service \/ \E s \in {"paused", "deleted"} :
                             /\ service.schedule[v] \in {"paused", "enabled"}
                             /\ n = [service EXCEPT !.schedule[v] = s]
        BY <1>7 DEF ServeOf, Result
    <2>2. /\ n \in Services /\ n.gone = service.gone
          /\ \A w \in Spaces : n.schedule[w] = service.schedule[w] \/ service.schedule[w] # "none"
          /\ n.proposal = service.proposal
        BY <2>1 DEF Services, Schedules
    <2> QED
        BY <1>7, <2>2, QuietExtends DEF Untouched
<1>8. CASE c.op = "delete"
    <2>1. n = [service EXCEPT !.gone = @ \cup {v},
                              !.schedule[v] = IF @ = "enabled" THEN "paused" ELSE @]
        BY <1>8 DEF ServeOf, Result, Allowed
    <2>2. /\ n \in Services /\ n.gone = service.gone \cup {v}
          /\ \A w \in Spaces : n.schedule[w] = service.schedule[w] \/ service.schedule[w] = "enabled"
          /\ n.proposal = service.proposal
        <3> DEFINE schedule == [service.schedule EXCEPT
                                   ![v] = IF @ = "enabled" THEN "paused" ELSE @]
        <3>1. schedule \in [Spaces -> Schedules]
            BY DEF Services, Schedules
        <3> DEFINE gone == service.gone \cup {v}
        <3>2. n = [service EXCEPT !.gone = gone, !.schedule = schedule] /\ gone \in SUBSET Places
            BY <1>0, <2>1 DEF Services
        <3> HIDE DEF schedule, gone
        <3>3. /\ n \in Services /\ n.gone = gone /\ n.schedule = schedule
              /\ n.proposal = service.proposal
            BY <3>1, <3>2 DEF Services
        <3> QED
            BY <3>3 DEF Services, schedule, gone
    <2> QED
        BY <1>8, <2>2 DEF Untouched, Extends
<1>9. CASE c.op \in {"clear", "configure"}
    <2>1. \E s \in {service, Fenced(service)}, a \in Nat \cup {Nil} :
             n = [s EXCEPT !.authority = a, !.scope = a]
        BY <1>0, <1>9 DEF ServeOf, Result, Allowed, Cleared, Reconfigured
    <2>2. /\ n \in Services /\ n.gone = service.gone
          /\ \A w \in Spaces : Untouched(service, w) => Untouched(n, w)
        <3>1. PICK s \in {service, Fenced(service)}, a \in Nat \cup {Nil} :
                 n = [s EXCEPT !.authority = a, !.scope = a]
            BY <2>1
        <3>2. /\ s \in Services /\ s.gone = service.gone
              /\ \A w \in Spaces : Untouched(service, w) => Untouched(s, w)
            BY FencingExtends
        <3>3. /\ n \in Services /\ n.gone = s.gone /\ n.proposal = s.proposal
              /\ n.schedule = s.schedule
            BY <3>1, <3>2 DEF Services
        <3> QED
            BY <3>2, <3>3 DEF Untouched
    <2> QED
        BY <1>9, <2>2, QuietExtends
<1> HIDE DEF n, v
<1> QED
    BY <1>0, <1>1, <1>2, <1>3, <1>4, <1>5, <1>6, <1>7, <1>8, <1>9 DEF OpNames, n

LEMMA ServeHeadKeeps ==
    ASSUME ResourceInvariant, ServeHead
    PROVE  ResourceInvariant'
<1> DEFINE c == Head(pipe)
           n == ServeOf(c).next
           a == ServeOf(c).answer
<1>1. pipe \in Seq(Calls) /\ Len(pipe) \in Nat \ {0} /\ c = pipe[1] /\ c \in Calls
    BY DEF ServeHead, ResourceInvariant, ResourceTypeOK
<1>2. /\ pipe' \in Seq(Calls) /\ Len(pipe') = Len(pipe) - 1
      /\ \A i \in 1..Len(pipe') : pipe'[i] = pipe[i + 1]
    BY <1>1 DEF ServeHead
<1>3. Extends(c, n) /\ service' = n
    BY <1>1, ServingExtends DEF ServeHead, ResourceInvariant, ResourceTypeOK
<1>4. a \in AnswerKinds
    BY <1>1 DEF ServeOf, Result, Allowed, AnswerKinds, Calls, OpNames
<1>5. answers' = [answers EXCEPT ![c.from] = a] /\ UNCHANGED <<desk, order, frame, told>>
    BY DEF ServeHead
<1> HIDE DEF c, n, a
<1>6. ResourceTypeOK'
    BY <1>1, <1>2, <1>3, <1>4, <1>5 DEF ResourceInvariant, ResourceTypeOK, Extends, Calls
<1>7. \A t \in Orders : t \in Callers /\ (t # c.from => answers'[t] = answers[t])
    BY <1>5 DEF ResourceInvariant, ResourceTypeOK, Callers
<1>8. Paired'
    <2> SUFFICES ASSUME NEW i \in 1..Len(pipe'), pipe'[i].from \in Orders
                 PROVE  /\ order[pipe'[i].from].at = "called"
                        /\ order[pipe'[i].from].op = pipe'[i].op
                        /\ order[pipe'[i].from].workspace = pipe'[i].workspace
                        /\ answers'[pipe'[i].from] = Nil
                        /\ \A j \in 1..Len(pipe') : pipe'[j].from = pipe'[i].from => j = i
        BY <1>5 DEF Paired
    <2>1. i + 1 \in 1..Len(pipe) /\ pipe'[i] = pipe[i + 1] /\ 1 \in 1..Len(pipe) /\ i + 1 # 1
        BY <1>1, <1>2
    <2>2. pipe'[i].from # c.from
        BY <1>1, <2>1 DEF ResourceInvariant, Paired
    <2>3. \A j \in 1..Len(pipe') : j + 1 \in 1..Len(pipe) /\ pipe'[j] = pipe[j + 1]
        BY <1>1, <1>2
    <2>4. \A j \in 1..Len(pipe') : pipe'[j].from = pipe'[i].from => j + 1 = i + 1
        BY <2>1, <2>3 DEF ResourceInvariant, Paired
    <2> QED
        BY <1>2, <1>7, <2>1, <2>2, <2>4 DEF ResourceInvariant, Paired
<1>9. c.from \in Orders =>
        /\ order[c.from].at = "called" /\ order[c.from].op = c.op
        /\ order[c.from].workspace = c.workspace
    BY <1>1 DEF ResourceInvariant, Paired
<1>10. AnswersAwaited' /\ Prepared'
    BY <1>5, <1>7, <1>9 DEF ResourceInvariant, AnswersAwaited, Prepared
<1>11. ReceiptsTrue'
    BY <1>3, <1>5, <1>7, <1>9 DEF ResourceInvariant, ReceiptsTrue, Extends
<1>12. OwnersLive' /\ Recorded'
    <2>1. \A w \in Spaces : NothingUnderway(w) =>
             NothingUnderway(w)' /\ ~(c.op \in Leaves /\ c.workspace = w)
        BY <1>1, <1>2, <1>5 DEF NothingUnderway
    <2> QED
        BY <1>3, <1>5, <2>1 DEF ResourceInvariant, OwnersLive, Recorded, Extends
<1> QED
    BY <1>6, <1>8, <1>10, <1>11, <1>12 DEF ResourceInvariant

\* What the loss of the pipe does, whoever is there to meet it
LEMMA BreakingLoses ==
    ASSUME ResourceInvariant, Broken
    PROVE  /\ desk' \in Desks /\ desk'.owners = desk.owners /\ desk'.live = desk.live
           /\ pipe' \in Seq(Calls) /\ Len(pipe') = 0
           /\ service' \in Services /\ service.gone \subseteq service'.gone
           /\ \A w \in Spaces : Untouched(service, w) /\ NothingUnderway(w)
                                 => Untouched(service', w)
           /\ answers' \in [Callers -> AnswerKinds \cup {Nil}]
           /\ \A t \in Orders : /\ answers'[t] \in {answers[t], "lost"}
                                /\ order[t].at # "called" => answers'[t] = answers[t]
<1>1. desk' \in Desks /\ desk'.owners = desk.owners /\ desk'.live = desk.live
    BY DEF Broken, Desks, ResourceInvariant, ResourceTypeOK
<1>2. pipe' \in Seq(Calls) /\ Len(pipe') = 0
    BY DEF Broken
<1>3. PICK s : /\ s = service \/ (pipe # <<>> /\ s = ServeOf(Head(pipe)).next)
               /\ service' = [s EXCEPT !.authority = Nil]
    BY DEF Broken
<1>4. /\ s \in Services /\ service.gone \subseteq s.gone
      /\ \A w \in Spaces : Untouched(service, w) /\ NothingUnderway(w) => Untouched(s, w)
    <2>1. CASE s = service
        BY <2>1 DEF ResourceInvariant, ResourceTypeOK
    <2>2. CASE s # service
        <3>1. Len(pipe) \in Nat \ {0} /\ Head(pipe) = pipe[1] /\ Head(pipe) \in Calls
            BY <1>3, <2>2 DEF ResourceInvariant, ResourceTypeOK
        <3>2. Extends(Head(pipe), s)
            BY <1>3, <2>2, <3>1, ServingExtends DEF ResourceInvariant, ResourceTypeOK
        <3> QED
            BY <3>1, <3>2 DEF Extends, NothingUnderway
    <2> QED
        BY <2>1, <2>2
<1>5. /\ service' \in Services /\ service'.gone = s.gone
      /\ service'.proposal = s.proposal /\ service'.schedule = s.schedule
    BY <1>3, <1>4 DEF Services
<1>6. answers' = [who \in Callers |-> IF \E i \in 1..Len(pipe) : pipe[i].from = who
                                      THEN "lost" ELSE answers[who]]
    BY DEF Broken
<1>7. answers' \in [Callers -> AnswerKinds \cup {Nil}]
    BY <1>6 DEF AnswerKinds, ResourceInvariant, ResourceTypeOK
<1>8. \A t \in Orders : /\ answers'[t] \in {answers[t], "lost"}
                        /\ order[t].at # "called" => answers'[t] = answers[t]
    BY <1>6 DEF Callers, ResourceInvariant, Paired
<1> QED
    BY <1>1, <1>2, <1>4, <1>5, <1>7, <1>8 DEF Untouched

LEMMA PipeBreaksKeeps ==
    ASSUME ResourceInvariant, PipeBreaks
    PROVE  ResourceInvariant'
<1>1. Broken /\ UNCHANGED <<order, frame, told>>
    BY DEF PipeBreaks
<1>2. ResourceTypeOK'
    BY <1>1, BreakingLoses DEF ResourceInvariant, ResourceTypeOK
<1>3. /\ Len(pipe') = 0 /\ service.gone \subseteq service'.gone
      /\ \A t \in Orders : /\ answers'[t] \in {answers[t], "lost"}
                           /\ order[t].at # "called" => answers'[t] = answers[t]
    <2>1. Len(pipe') = 0
        BY <1>1, BreakingLoses
    <2>2. service.gone \subseteq service'.gone
        BY <1>1, BreakingLoses
    <2>3. \A t \in Orders : /\ answers'[t] \in {answers[t], "lost"}
                            /\ order[t].at # "called" => answers'[t] = answers[t]
        BY <1>1, BreakingLoses
    <2> QED
        BY <2>1, <2>2, <2>3
<1>4. Paired' /\ AnswersAwaited' /\ Prepared' /\ ReceiptsTrue'
    <2>1. Paired' /\ Prepared'
        BY <1>1, <1>3 DEF ResourceInvariant, Paired, Prepared
    <2> SUFFICES ASSUME NEW t \in Orders
                 PROVE  /\ order[t].at # "called" /\ frame.at # "shut" => answers'[t] = Nil
                        /\ /\ order[t].at = "called" /\ order[t].op = "delete"
                           /\ answers'[t] = "ok"
                           => order[t].workspace \in service'.gone
        BY <1>1, <2>1 DEF ResourceInvariant, AnswersAwaited, ReceiptsTrue
    <2>2. order[t].at # "called" /\ frame.at # "shut" => answers'[t] = Nil
        BY <1>3 DEF ResourceInvariant, AnswersAwaited
    <2>3. answers'[t] = "ok" => answers[t] = "ok"
        BY <1>3
    <2> QED
        BY <1>3, <2>2, <2>3 DEF ResourceInvariant, ReceiptsTrue
<1>5. OwnersLive' /\ Recorded'
    BY <1>1, BreakingLoses DEF ResourceInvariant, OwnersLive, Recorded, NothingUnderway
<1> QED
    BY <1>2, <1>4, <1>5 DEF ResourceInvariant

LEMMA StoppingKeeps ==
    ASSUME ResourceInvariant, StopRuntime \/ QuitNow
    PROVE  ResourceInvariant'
<1>1. Broken /\ order' = [t \in Orders |-> NoOrder] /\ UNCHANGED told
    BY DEF StopRuntime, QuitNow
<1>2. frame' \in Frames /\ frame'.at = "shut"
    BY DEF StopRuntime, QuitNow, Frames, FrameStates, ResourceInvariant, ResourceTypeOK
<1>3. NoOrder \in OrderRecords /\ NoOrder.at = "none"
    BY DEF NoOrder, OrderRecords, Places, OpNames, OrderStates
<1>4. order' \in [Orders -> OrderRecords] /\ \A t \in Orders : order'[t].at = "none"
    BY <1>1, <1>3
<1>5. ResourceTypeOK'
    BY <1>1, <1>2, <1>4, BreakingLoses DEF ResourceInvariant, ResourceTypeOK
<1>6. Paired' /\ AnswersAwaited' /\ Prepared' /\ ReceiptsTrue'
    BY <1>1, <1>2, <1>4, BreakingLoses DEF Paired, AnswersAwaited, Prepared, ReceiptsTrue
<1>7. OwnersLive' /\ Recorded'
    BY <1>1, <1>4, BreakingLoses DEF ResourceInvariant, OwnersLive, Recorded, NothingUnderway
<1> QED
    BY <1>5, <1>6, <1>7 DEF ResourceInvariant

-----------------------------------------------------------------------------
(* The window and the gate *)

\* Steps that move no command and change no record of ownership
Periphery ==
    /\ desk' \in Desks /\ desk'.owners = desk.owners /\ desk'.live = desk.live
    /\ frame' \in Frames /\ (frame'.at = "shut" <=> frame.at = "shut") /\ told' \subseteq Places
    /\ answers' \in [Callers -> AnswerKinds \cup {Nil}]
    /\ \A t \in Orders : answers'[t] = answers[t]
    /\ UNCHANGED <<order, service>>

LEMMA PeripheryKeeps ==
    ASSUME ResourceInvariant, Periphery, UNCHANGED pipe
    PROVE  ResourceInvariant'
<1>1. ResourceTypeOK'
    BY DEF Periphery, ResourceInvariant, ResourceTypeOK
<1>2. Paired' /\ AnswersAwaited' /\ Prepared' /\ ReceiptsTrue'
    BY DEF Periphery, ResourceInvariant, Paired, AnswersAwaited, Prepared, ReceiptsTrue
<1>3. OwnersLive' /\ Recorded'
    BY DEF Periphery, ResourceInvariant, OwnersLive, Recorded, NothingUnderway, Untouched
<1> QED
    BY <1>1, <1>2, <1>3 DEF ResourceInvariant

LEMMA PeripheralCallKeeps ==
    ASSUME ResourceInvariant, Periphery, NEW c \in Calls, Write(c),
           c.from \notin Orders, c.op \notin Leaves
    PROVE  ResourceInvariant'
<1>1. /\ pipe' \in Seq(Calls) /\ Len(pipe') = Len(pipe) + 1 /\ Len(pipe) \in Nat
      /\ \A i \in 1..Len(pipe) : pipe'[i] = pipe[i]
      /\ pipe'[Len(pipe) + 1] = c
    BY DEF Write, ResourceInvariant, ResourceTypeOK
<1>2. \A i \in 1..Len(pipe') : (i \in 1..Len(pipe) /\ pipe'[i] = pipe[i]) \/ pipe'[i] = c
    BY <1>1
<1>3. ResourceTypeOK'
    BY <1>1 DEF Periphery, ResourceInvariant, ResourceTypeOK
<1>4. Paired'
    BY <1>1, <1>2 DEF Periphery, ResourceInvariant, Paired
<1>5. AnswersAwaited' /\ Prepared' /\ ReceiptsTrue'
    BY DEF Periphery, ResourceInvariant, AnswersAwaited, Prepared, ReceiptsTrue
<1>6. OwnersLive' /\ Recorded'
    BY <1>2 DEF Periphery, ResourceInvariant, OwnersLive, Recorded, NothingUnderway, Untouched
<1> QED
    BY <1>3, <1>4, <1>5, <1>6 DEF ResourceInvariant

\* The answer of the gate or of the window is taken by nobody else.
LEMMA TakingOthers ==
    ASSUME ResourceInvariant, NEW who \in {"gate", "window"}, NEW a \in AnswerKinds \cup {Nil},
           answers' = [answers EXCEPT ![who] = a]
    PROVE  /\ answers' \in [Callers -> AnswerKinds \cup {Nil}]
           /\ \A t \in Orders : answers'[t] = answers[t]
BY ResourceAssumption DEF ResourceInvariant, ResourceTypeOK, Callers

LEMMA GateCallKeeps ==
    ASSUME ResourceInvariant, NEW d \in Desks, d.owners = desk.owners, d.live = desk.live,
           NEW op \in {"clear", "configure", "lifecycle"}, NEW at \in GateStates,
           GateCalls(d, op, at), UNCHANGED <<order, service, frame, told>>,
           answers' \in [Callers -> AnswerKinds \cup {Nil}],
           \A t \in Orders : answers'[t] = answers[t]
    PROVE  ResourceInvariant'
<1> DEFINE c == CallFrom("gate", op, Nil, desk.config)
<1>1. c \in Calls /\ c.from \notin Orders /\ c.op \notin Leaves
    BY ResourceAssumption DEF CallFrom, Calls, Callers, OpNames, Places, Leaves, Desks,
       ResourceInvariant, ResourceTypeOK
<1>2. desk' \in Desks /\ desk'.owners = desk.owners /\ desk'.live = desk.live
    BY DEF GateCalls, Desks
<1>3. Periphery
    BY <1>2 DEF Periphery, ResourceInvariant, ResourceTypeOK
<1> QED
    BY <1>1, <1>3, PeripheralCallKeeps DEF GateCalls

LEMMA GateKeeps ==
    ASSUME ResourceInvariant, ChangeProvider \/ SyncNew \/ StartRuntime \/ GateSteps
    PROVE  ResourceInvariant'
<1>1. /\ desk \in Desks /\ answers \in [Callers -> AnswerKinds \cup {Nil}] /\ frame \in Frames
      /\ told \subseteq Places
    BY DEF ResourceInvariant, ResourceTypeOK
<1>2. CASE ChangeProvider
    <2>1. desk' \in Desks /\ desk'.owners = desk.owners /\ desk'.live = desk.live
        <3>1. desk.deeds + 1 \in Nat /\ desk.config + 1 \in Nat /\ "clearing" \in GateStates
            BY <1>1 DEF Desks, GateStates
        <3>2. desk' = [desk EXCEPT !.deeds = desk.deeds + 1, !.config = desk.config + 1,
                                   !.approved = FALSE, !.ready = FALSE, !.synced = 0,
                                   !.gate = "clearing"]
            BY <1>1, <1>2 DEF ChangeProvider, Desks
        <3> QED
            BY <1>1, <3>1, <3>2 DEF Desks
    <2>2. frame' \in Frames /\ frame'.at = frame.at
        BY <1>1, <1>2 DEF ChangeProvider, Frames
    <2>3. Periphery /\ UNCHANGED pipe
        BY <1>1, <1>2, <2>1, <2>2 DEF ChangeProvider, Periphery
    <2> QED
        BY <2>3, PeripheryKeeps
<1>3. CASE SyncNew
    BY <1>1, <1>3, GateCallKeeps DEF SyncNew, GateStates
<1>4. CASE StartRuntime
    <2> DEFINE up == [desk EXCEPT !.alive = TRUE, !.ready = FALSE, !.deeds = @ + 1]
    <2>1. up \in Desks /\ up.owners = desk.owners /\ up.live = desk.live
        <3>1. desk.deeds + 1 \in Nat
            BY <1>1 DEF Desks
        <3>2. up = [desk EXCEPT !.alive = TRUE, !.ready = FALSE, !.deeds = desk.deeds + 1]
            BY <1>1 DEF Desks
        <3> HIDE DEF up
        <3> QED
            BY <1>1, <3>1, <3>2 DEF Desks
    <2>2. CASE GateCalls(up, "lifecycle", "counted")
        BY <1>1, <1>4, <2>1, <2>2, GateCallKeeps DEF StartRuntime, GateStates
    <2>3. CASE desk' = up /\ UNCHANGED pipe
        <3>1. Periphery
            BY <1>1, <1>4, <2>1, <2>3 DEF StartRuntime, Periphery
        <3> QED
            BY <2>3, <3>1, PeripheryKeeps
    <2> QED
        BY <1>4, <2>2, <2>3 DEF StartRuntime
<1>5. CASE ClearOld
    <2>1. CASE desk.alive
        BY <1>1, <1>5, <2>1, GateCallKeeps DEF ClearOld, GateStates
    <2>2. CASE ~desk.alive
        <3>1. desk' \in Desks /\ desk'.owners = desk.owners /\ desk'.live = desk.live
            BY <1>1, <1>5, <2>2 DEF ClearOld, Desks, GateStates
        <3>2. Periphery /\ UNCHANGED pipe
            BY <1>1, <1>5, <2>2, <3>1 DEF ClearOld, Periphery
        <3> QED
            BY <3>2, PeripheryKeeps
    <2> QED
        BY <2>1, <2>2
<1>6. CASE GateAnswered
    <2>1. /\ answers' \in [Callers -> AnswerKinds \cup {Nil}]
          /\ \A t \in Orders : answers'[t] = answers[t]
        BY <1>6, TakingOthers DEF GateAnswered, Taken
    <2>2. CASE GateCalls(desk, "configure", "configured")
        BY <1>1, <1>6, <2>1, <2>2, GateCallKeeps DEF GateAnswered, GateStates
    <2>3. CASE ~GateCalls(desk, "configure", "configured")
        <3>1. \/ desk' = [desk EXCEPT !.gate = "free", !.ready = TRUE, !.synced = desk.config]
              \/ desk' = [desk EXCEPT !.gate = "free"]
            BY <1>6, <2>3 DEF GateAnswered
        <3>2. desk' \in Desks /\ desk'.owners = desk.owners /\ desk'.live = desk.live
            BY <1>1, <3>1 DEF Desks, GateStates
        <3>3. Periphery /\ UNCHANGED pipe
            BY <1>1, <1>6, <2>1, <2>3, <3>2 DEF GateAnswered, Periphery
        <3> QED
            BY <3>3, PeripheryKeeps
    <2> QED
        BY <2>2, <2>3
<1> QED
    BY <1>2, <1>3, <1>4, <1>5, <1>6 DEF GateSteps

LEMMA FrameKeeps ==
    ASSUME ResourceInvariant, CloseFrame \/ CountSchedules \/ Counted \/ ShowFrame
    PROVE  ResourceInvariant'
<1>1. /\ desk \in Desks /\ answers \in [Callers -> AnswerKinds \cup {Nil}] /\ frame \in Frames
      /\ told \subseteq Places
    BY DEF ResourceInvariant, ResourceTypeOK
<1>2. frame' \in Frames /\ frame'.at # "shut" /\ frame.at # "shut"
    BY <1>1 DEF CloseFrame, CountSchedules, Counted, ShowFrame, Frame, Frames, FrameStates, Desks
<1>3. UNCHANGED <<desk, order, service, told>>
    BY DEF CloseFrame, CountSchedules, Counted, ShowFrame
<1>4. CASE CloseFrame \/ ShowFrame
    <2>1. Periphery /\ UNCHANGED pipe
        BY <1>1, <1>2, <1>3, <1>4 DEF CloseFrame, ShowFrame, Periphery
    <2> QED
        BY <2>1, PeripheryKeeps
<1>5. CASE CountSchedules
    <2>1. CASE desk.alive
        <3> DEFINE c == CallFrom("window", "lifecycle", Nil, 0)
        <3>1. c \in Calls /\ c.from \notin Orders /\ c.op \notin Leaves
            BY ResourceAssumption DEF CallFrom, Calls, Callers, OpNames, Places, Leaves
        <3>2. Periphery /\ Write(c)
            BY <1>1, <1>2, <1>3, <1>5, <2>1 DEF CountSchedules, Periphery
        <3> QED
            BY <3>1, <3>2, PeripheralCallKeeps
    <2>2. CASE ~desk.alive
        <3>1. /\ answers' \in [Callers -> AnswerKinds \cup {Nil}]
              /\ \A t \in Orders : answers'[t] = answers[t]
            BY <1>5, <2>2, TakingOthers DEF CountSchedules, AnswerKinds
        <3>2. Periphery /\ UNCHANGED pipe
            BY <1>1, <1>2, <1>3, <1>5, <2>2, <3>1 DEF CountSchedules, Periphery
        <3> QED
            BY <3>2, PeripheryKeeps
    <2> QED
        BY <2>1, <2>2
<1>6. CASE Counted
    <2>1. /\ answers' \in [Callers -> AnswerKinds \cup {Nil}]
          /\ \A t \in Orders : answers'[t] = answers[t]
        BY <1>6, TakingOthers DEF Counted, Taken
    <2>2. Periphery /\ UNCHANGED pipe
        BY <1>1, <1>2, <1>3, <1>6, <2>1 DEF Counted, Periphery
    <2> QED
        BY <2>2, PeripheryKeeps
<1> QED
    BY <1>4, <1>5, <1>6

LEMMA OpenAgainKeeps ==
    ASSUME ResourceInvariant, OpenAgain
    PROVE  ResourceInvariant'
<1>1. desk' \in Desks /\ desk'.owners = desk.owners /\ desk'.live = desk.live
    BY DEF OpenAgain, Desks, GateStates, ResourceInvariant, ResourceTypeOK
<1>2. frame' \in Frames /\ frame.at = "shut"
    BY DEF OpenAgain, Frame, Frames, FrameStates, ResourceInvariant, ResourceTypeOK
<1>3. answers' = [who \in Callers |-> Nil] /\ UNCHANGED <<order, pipe, service, told>>
    BY DEF OpenAgain
<1>4. \A t \in Orders : order[t].at = "none" /\ answers'[t] = Nil
    BY <1>2, <1>3 DEF ResourceInvariant, AnswersAwaited, Callers
<1>5. ResourceTypeOK'
    BY <1>1, <1>2, <1>3 DEF ResourceInvariant, ResourceTypeOK
<1>6. Paired' /\ AnswersAwaited' /\ Prepared' /\ ReceiptsTrue'
    BY <1>3, <1>4, ResourceAssumption
       DEF ResourceInvariant, Paired, AnswersAwaited, Prepared, ReceiptsTrue
<1>7. OwnersLive' /\ Recorded'
    BY <1>1, <1>3 DEF ResourceInvariant, OwnersLive, Recorded, NothingUnderway, Untouched
<1> QED
    BY <1>5, <1>6, <1>7 DEF ResourceInvariant

-----------------------------------------------------------------------------
(* The commands *)

\* A step of one command that neither calls nor is answered
LEMMA CommandKeeps ==
    ASSUME ResourceInvariant, NEW t \in Orders,
           order[t].at # "called", frame.at # "shut",
           desk' \in Desks, OwnersLive', desk.owners \subseteq desk'.owners,
           frame' \in Frames, frame'.at = frame.at, told' \subseteq Places,
           order' \in [Orders -> OrderRecords],
           \A u \in Orders \ {t} : /\ order'[u].at = order[u].at
                                   /\ order'[u].op = order[u].op
                                   /\ order'[u].workspace = order[u].workspace,
           order'[t].at # "called", order'[t].at # "none" => order'[t].op # "none",
           order'[t].at \in {"approving", "finding", "erasing"} => order'[t].op \notin Leaves,
           order'[t].at = "calling" /\ order'[t].op \in Leaves
           => order'[t].workspace \in desk'.owners,
           UNCHANGED <<pipe, answers, service>>
    PROVE  ResourceInvariant'
<1>1. ResourceTypeOK'
    BY DEF ResourceInvariant, ResourceTypeOK
<1>2. Paired'
    BY DEF ResourceInvariant, Paired
<1>3. AnswersAwaited' /\ Prepared' /\ ReceiptsTrue'
    BY DEF ResourceInvariant, AnswersAwaited, Prepared, ReceiptsTrue
<1>4. Recorded'
    BY DEF ResourceInvariant, Recorded, NothingUnderway
<1> QED
    BY <1>1, <1>2, <1>3, <1>4 DEF ResourceInvariant

\* A step of a command that takes its answer; an ownership goes only with a
\* workspace that is gone.
LEMMA AnswerKeeps ==
    ASSUME ResourceInvariant, NEW t \in Orders, order[t].at = "called",
           Replied(t), Taken(t), UNCHANGED <<pipe, service, frame>>,
           desk' \in Desks, OwnersLive', desk.owners \subseteq desk'.owners \cup service.gone,
           told' \subseteq Places, order' \in [Orders -> OrderRecords],
           \A u \in Orders \ {t} : order'[u] = order[u],
           order'[t].at \in {"none", "erasing"},
           order'[t].at = "erasing" => order'[t].op = "delete"
    PROVE  ResourceInvariant'
<1>1. /\ answers' \in [Callers -> AnswerKinds \cup {Nil}] /\ answers'[t] = Nil
      /\ \A u \in Orders \ {t} : answers'[u] = answers[u]
    BY DEF Taken, Callers, ResourceInvariant, ResourceTypeOK
<1>2. \A i \in 1..Len(pipe) : pipe[i].from # t
    BY DEF Replied, ResourceInvariant, Paired
<1>3. frame.at # "shut"
    BY DEF ResourceInvariant, AnswersAwaited
<1>4. ResourceTypeOK'
    BY <1>1 DEF ResourceInvariant, ResourceTypeOK
<1>5. Paired'
    BY <1>1, <1>2 DEF ResourceInvariant, Paired
<1>6. AnswersAwaited' /\ Prepared' /\ ReceiptsTrue'
    BY <1>1, <1>3 DEF ResourceInvariant, AnswersAwaited, Prepared, ReceiptsTrue, Leaves
<1>7. Recorded'
    BY DEF ResourceInvariant, Recorded, NothingUnderway
<1> QED
    BY <1>4, <1>5, <1>6, <1>7 DEF ResourceInvariant

\* A command does not begin with a call that leaves something.
LEMMA BeginsKeeps ==
    ASSUME ResourceInvariant, NEW t \in Orders, NEW w \in Spaces, NEW op \in OpNames \ {"none"},
           NEW at \in {"owning", "approving", "calling", "finding"},
           at # "owning" => op \notin Leaves, Begins(t, op, w, at)
    PROVE  ResourceInvariant'
<1>1. desk' \in Desks /\ desk'.owners = desk.owners /\ desk'.live = desk.live
    <2>1. desk.deeds + 1 \in Nat
        BY DEF Desks, ResourceInvariant, ResourceTypeOK
    <2>2. desk' = [desk EXCEPT !.deeds = desk.deeds + 1]
        BY DEF Begins, Desks, ResourceInvariant, ResourceTypeOK
    <2> QED
        BY <2>1, <2>2 DEF Desks, ResourceInvariant, ResourceTypeOK
<1> DEFINE begun == [op |-> op, at |-> at, workspace |-> w, config |-> desk.config,
                     sure |-> w \notin TakenAway]
<1>2. order' = [u \in Orders |-> IF u = t THEN begun ELSE Unsure(order[u], op, w)]
    BY DEF Begins
<1>3. begun \in OrderRecords
    <2>1. (w \notin TakenAway) \in BOOLEAN /\ at \in OrderStates /\ w \in Places
        BY DEF OrderStates, Places
    <2>2. desk.config \in Nat
        BY DEF ResourceInvariant, ResourceTypeOK, Desks
    <2> QED
        BY <2>1, <2>2 DEF OrderRecords
<1>4. \A u \in Orders : /\ Unsure(order[u], op, w) \in OrderRecords
                        /\ Unsure(order[u], op, w).at = order[u].at
                        /\ Unsure(order[u], op, w).op = order[u].op
                        /\ Unsure(order[u], op, w).workspace = order[u].workspace
    BY DEF Unsure, OrderRecords, ResourceInvariant, ResourceTypeOK
<1>5. frame' \in Frames /\ frame'.at = frame.at /\ told' \subseteq Places
    BY DEF Begins, Forgets, Frames, ResourceInvariant, ResourceTypeOK
<1>6. /\ order[t].at # "called" /\ frame.at # "shut"
      /\ UNCHANGED <<pipe, answers, service>>
    BY DEF Begins, IsAt
<1>7. order'[t] = begun /\ begun.at = at /\ begun.op = op
    BY <1>2
<1> HIDE DEF begun
<1>8. order' \in [Orders -> OrderRecords]
    BY <1>2, <1>3, <1>4
<1>9. \A u \in Orders \ {t} : /\ order'[u].at = order[u].at /\ order'[u].op = order[u].op
                              /\ order'[u].workspace = order[u].workspace
    BY <1>2, <1>4
<1>10. OwnersLive' /\ desk.owners \subseteq desk'.owners
    BY <1>1 DEF OwnersLive, ResourceInvariant
<1> QED
    BY <1>1, <1>5, <1>6, <1>7, <1>8, <1>9, <1>10, CommandKeeps

\* The new state of a command
LEMMA CommandMoves ==
    ASSUME ResourceInvariant, NEW t \in Orders, NEW at \in OrderStates,
           Goes(t, at) \/ (Over(t) /\ at = "none")
    PROVE  /\ order' \in [Orders -> OrderRecords] /\ order'[t].at = at
           /\ \A u \in Orders \ {t} : order'[u] = order[u]
           /\ at # "none" => /\ order'[t].op = order[t].op
                             /\ order'[t].workspace = order[t].workspace
<1>1. NoOrder \in OrderRecords /\ NoOrder.at = "none"
    BY DEF NoOrder, OrderRecords, Places, OpNames, OrderStates
<1>2. order \in [Orders -> OrderRecords]
    BY DEF ResourceInvariant, ResourceTypeOK
<1>3. CASE Goes(t, at)
    BY <1>2, <1>3 DEF Goes, OrderRecords
<1>4. CASE Over(t) /\ at = "none"
    BY <1>1, <1>2, <1>4 DEF Over
<1> QED
    BY <1>3, <1>4

LEMMA BeginningKeeps ==
    ASSUME ResourceInvariant, NEW t \in Orders, NEW w \in Spaces,
           BeginErase(t, w) \/ \E op \in Ops : BeginResource(t, op, w)
    PROVE  ResourceInvariant'
<1>1. CASE BeginErase(t, w)
    <2>1. "delete" \in OpNames \ {"none"} /\ "delete" \notin Leaves
        BY DEF OpNames, Leaves
    <2> QED
        BY <1>1, <2>1, BeginsKeeps DEF BeginErase
<1>2. ASSUME NEW op \in Ops, BeginResource(t, op, w)
      PROVE  ResourceInvariant'
    <2>1. op \in OpNames \ {"none"}
        BY DEF OpNames, Ops
    <2>2. PICK at \in {"owning", "approving", "calling", "finding"} :
              Begins(t, op, w, at) /\ (at # "owning" => op \notin Leaves)
        BY <1>2 DEF BeginResource, Leaves
    <2> QED
        BY <2>1, <2>2, BeginsKeeps
<1> QED
    BY <1>1, <1>2

LEMMA PreparingKeeps ==
    ASSUME ResourceInvariant, NEW t \in Orders, OwnWorkspace(t) \/ ApproveBackground(t)
    PROVE  ResourceInvariant'
<1> DEFINE w == order[t].workspace
<1>1. /\ order[t].at \in {"owning", "approving"} /\ order[t].op # "none"
      /\ UNCHANGED <<pipe, answers, service>> /\ UNCHANGED <<frame, told>>
    BY DEF OwnWorkspace, ApproveBackground, IsAt, ResourceInvariant, ResourceTypeOK
<1>2. /\ frame.at # "shut" /\ desk \in Desks /\ desk.owners \subseteq desk.live
      /\ frame \in Frames /\ told \subseteq Places
    BY <1>1 DEF ResourceInvariant, ResourceTypeOK, AnswersAwaited, OwnersLive
<1>3. PICK at \in {"none", "calling"} : Goes(t, at) \/ (Over(t) /\ at = "none")
    BY DEF OwnWorkspace, ApproveBackground
<1>4. /\ order' \in [Orders -> OrderRecords] /\ order'[t].at = at
      /\ \A u \in Orders \ {t} : order'[u] = order[u]
      /\ at # "none" => order'[t].op = order[t].op /\ order'[t].workspace = w
    BY <1>3, CommandMoves DEF OrderStates
<1>5. CASE OwnWorkspace(t)
    <2>1. desk' = desk \/ (w \in desk.live /\ desk' = [desk EXCEPT !.owners = @ \cup {w}])
        BY <1>5 DEF OwnWorkspace
    <2>2. at = "calling" => w \in desk.live /\ desk' = [desk EXCEPT !.owners = @ \cup {w}]
        BY <1>1, <1>2, <1>3, <1>4, <1>5 DEF OwnWorkspace, Over, NoOrder, ResourceInvariant,
           ResourceTypeOK
    <2>3. /\ desk' \in Desks /\ desk'.live = desk.live
          /\ desk.owners \subseteq desk'.owners /\ desk'.owners \subseteq desk.live
        BY <1>2, <2>1 DEF Desks
    <2>4. at = "calling" => w \in desk'.owners
        BY <1>2, <2>2 DEF Desks
    <2> QED
        BY <1>1, <1>2, <1>4, <2>3, <2>4, CommandKeeps DEF OwnersLive
<1>6. CASE ApproveBackground(t)
    <2>1. /\ desk' \in Desks /\ desk'.live = desk.live /\ desk'.owners = desk.owners
        BY <1>2, <1>6 DEF ApproveBackground, Desks
    <2>2. order[t].op \notin Leaves
        BY <1>6 DEF ApproveBackground, IsAt, ResourceInvariant, Prepared
    <2> QED
        BY <1>1, <1>2, <1>4, <2>1, <2>2, CommandKeeps DEF OwnersLive
<1> QED
    BY <1>5, <1>6

\* A command calls once, so its call in the pipe is its only one.
LEMMA CallingKeeps ==
    ASSUME ResourceInvariant, NEW t \in Orders, PostResource(t)
    PROVE  ResourceInvariant'
<1> DEFINE c == CallFrom(t, order[t].op, order[t].workspace, order[t].config)
<1>1. /\ order[t].at = "calling" /\ order[t].op # "none" /\ order[t] \in OrderRecords
      /\ UNCHANGED <<desk, answers, service>> /\ UNCHANGED <<frame, told>>
    BY DEF PostResource, IsAt, ResourceInvariant, ResourceTypeOK
<1>2. frame.at # "shut" /\ answers[t] = Nil
    BY <1>1 DEF ResourceInvariant, AnswersAwaited
<1>3. CASE ~desk.alive
    <2>1. Over(t) /\ UNCHANGED pipe
        BY <1>3 DEF PostResource
    <2>2. /\ order' \in [Orders -> OrderRecords] /\ order'[t].at = "none"
          /\ \A u \in Orders \ {t} : order'[u] = order[u]
        BY <2>1, CommandMoves DEF OrderStates
    <2> QED
        BY <1>1, <1>2, <2>1, <2>2, CommandKeeps DEF ResourceInvariant, ResourceTypeOK, OwnersLive
<1>4. CASE desk.alive
    <2>1. Write(c) /\ Goes(t, "called")
        BY <1>4 DEF PostResource
    <2>2. /\ order' \in [Orders -> OrderRecords] /\ order'[t].at = "called"
          /\ \A u \in Orders \ {t} : order'[u] = order[u]
          /\ order'[t].op = order[t].op /\ order'[t].workspace = order[t].workspace
        BY <2>1, CommandMoves DEF OrderStates
    <2>3. /\ c \in Calls /\ c.from = t /\ c.op = order[t].op
          /\ c.workspace = order[t].workspace
        BY <1>1 DEF Calls, CallFrom, Callers, OrderRecords
    <2> HIDE DEF c
    <2>4. /\ pipe' \in Seq(Calls) /\ Len(pipe') = Len(pipe) + 1 /\ Len(pipe) \in Nat
          /\ \A i \in 1..Len(pipe) : pipe'[i] = pipe[i]
          /\ pipe'[Len(pipe) + 1] = c
        BY <2>1, <2>3 DEF Write, ResourceInvariant, ResourceTypeOK
    <2>5. \A i \in 1..Len(pipe') : /\ i \in 1..Len(pipe) \/ i = Len(pipe) + 1
                                   /\ i \in 1..Len(pipe) => pipe'[i] = pipe[i]
        BY <2>4
    <2>6. \A i \in 1..Len(pipe) : pipe[i].from # t
        BY <1>1 DEF ResourceInvariant, Paired
    <2>7. ResourceTypeOK'
        BY <1>1, <2>2, <2>4 DEF ResourceInvariant, ResourceTypeOK
    <2>8. Paired'
        <3> SUFFICES ASSUME NEW i \in 1..Len(pipe'), pipe'[i].from \in Orders
                     PROVE  /\ order'[pipe'[i].from].at = "called"
                            /\ order'[pipe'[i].from].op = pipe'[i].op
                            /\ order'[pipe'[i].from].workspace = pipe'[i].workspace
                            /\ answers'[pipe'[i].from] = Nil
                            /\ \A j \in 1..Len(pipe') : pipe'[j].from = pipe'[i].from => j = i
            BY DEF Paired
        <3>1. CASE i \in 1..Len(pipe)
            <4>1. pipe'[i] = pipe[i] /\ pipe[i].from # t
                BY <2>4, <2>6, <3>1
            <4>2. \A j \in 1..Len(pipe') : pipe'[j].from = pipe[i].from => j \in 1..Len(pipe)
                BY <2>3, <2>4, <2>5, <4>1
            <4> QED
                BY <1>1, <2>2, <2>5, <3>1, <4>1, <4>2 DEF ResourceInvariant, Paired
        <3>2. CASE i = Len(pipe) + 1
            BY <1>1, <1>2, <2>2, <2>3, <2>4, <2>5, <2>6, <3>2
        <3> QED
            BY <2>5, <3>1, <3>2
    <2>9. AnswersAwaited' /\ Prepared' /\ ReceiptsTrue'
        BY <1>1, <1>2, <2>2, ResourceAssumption
           DEF ResourceInvariant, AnswersAwaited, Prepared, ReceiptsTrue
    <2>10. Recorded'
        <3> SUFFICES ASSUME NEW w \in Spaces, w \notin desk.owners, w \notin service.gone
                     PROVE  Untouched(service, w) /\ NothingUnderway(w)'
            BY <1>1 DEF Recorded, Untouched
        <3>1. Untouched(service, w) /\ NothingUnderway(w)
            BY DEF ResourceInvariant, Recorded
        <3>2. ~(c.op \in Leaves /\ c.workspace = w)
            BY <1>1, <2>3, <3>1 DEF NothingUnderway
        <3> QED
            BY <2>2, <2>4, <2>5, <3>1, <3>2 DEF NothingUnderway
    <2> QED
        BY <1>1, <2>7, <2>8, <2>9, <2>10 DEF ResourceInvariant, OwnersLive
<1> QED
    BY <1>3, <1>4

LEMMA ReturningKeeps ==
    ASSUME ResourceInvariant, NEW t \in Orders, ReturnResource(t)
    PROVE  ResourceInvariant'
<1>1. /\ order[t].at = "called" /\ Replied(t) /\ Taken(t) /\ Over(t)
      /\ UNCHANGED <<pipe, service, frame>> /\ UNCHANGED desk
    BY DEF ReturnResource, IsAt
<1>2. /\ order' \in [Orders -> OrderRecords] /\ order'[t].at = "none"
      /\ \A u \in Orders \ {t} : order'[u] = order[u]
    BY <1>1, CommandMoves DEF OrderStates
<1>3. told' \subseteq Places
    BY DEF ReturnResource, ResourceInvariant, ResourceTypeOK, OrderRecords
<1>4. desk' \in Desks /\ OwnersLive' /\ desk'.owners = desk.owners
    BY <1>1 DEF ResourceInvariant, ResourceTypeOK, OwnersLive
<1> QED
    BY <1>1, <1>2, <1>3, <1>4, AnswerKeeps

\* The ownership is dropped for a receipt, and so of a workspace that is gone.
LEMMA AcknowledgingKeeps ==
    ASSUME ResourceInvariant, NEW t \in Orders, AcknowledgeDeletion(t)
    PROVE  ResourceInvariant'
<1> DEFINE w == order[t].workspace
<1>1. /\ order[t].at = "called" /\ order[t].op = "delete" /\ Replied(t) /\ Taken(t)
      /\ UNCHANGED <<pipe, service, frame>> /\ UNCHANGED told
    BY DEF AcknowledgeDeletion, IsAt
<1>2. PICK at \in {"none", "erasing"} : Goes(t, at) \/ (Over(t) /\ at = "none")
    BY DEF AcknowledgeDeletion
<1>3. /\ order' \in [Orders -> OrderRecords] /\ order'[t].at = at
      /\ \A u \in Orders \ {t} : order'[u] = order[u]
      /\ at # "none" => order'[t].op = "delete"
    BY <1>1, <1>2, CommandMoves DEF OrderStates
<1>4. /\ desk' \in Desks /\ OwnersLive' /\ desk.owners \subseteq desk'.owners \cup service.gone
    <2>1. /\ desk \in Desks /\ desk.owners \subseteq desk.live
          /\ answers[t] = "ok" => w \in service.gone
        BY <1>1 DEF ResourceInvariant, ResourceTypeOK, OwnersLive, ReceiptsTrue
    <2>2. desk' = desk \/ (answers[t] = "ok" /\ desk' = [desk EXCEPT !.owners = @ \ {w}])
        BY DEF AcknowledgeDeletion
    <2> QED
        BY <2>1, <2>2 DEF Desks, OwnersLive
<1> QED
    BY <1>1, <1>3, <1>4, AnswerKeeps DEF ResourceInvariant, ResourceTypeOK

LEMMA ErasingKeeps ==
    ASSUME ResourceInvariant, NEW t \in Orders, FindOwner(t) \/ EraseWorkspace(t)
    PROVE  ResourceInvariant'
<1> DEFINE w == order[t].workspace
<1>1. /\ order[t].at \in {"finding", "erasing"} /\ order[t].op # "none"
      /\ order[t].op \notin Leaves /\ UNCHANGED <<pipe, answers, service>>
      /\ UNCHANGED <<frame, told>>
    BY DEF FindOwner, EraseWorkspace, IsAt, ResourceInvariant, ResourceTypeOK, Prepared
<1>2. /\ frame.at # "shut" /\ desk \in Desks /\ desk.owners \subseteq desk.live
      /\ frame \in Frames /\ told \subseteq Places
    BY <1>1 DEF ResourceInvariant, ResourceTypeOK, AnswersAwaited, OwnersLive
<1>3. /\ desk' \in Desks /\ desk'.owners = desk.owners /\ desk'.owners \subseteq desk'.live
    <2>1. desk' = desk \/ (w \notin desk.owners /\ desk' = [desk EXCEPT !.live = @ \ {w}])
        BY DEF FindOwner, EraseWorkspace
    <2> QED
        BY <1>2, <2>1 DEF Desks
<1>4. CASE \E at \in {"none", "erasing"} : Goes(t, at) \/ (Over(t) /\ at = "none")
    <2>1. PICK at \in {"none", "erasing"} : Goes(t, at) \/ (Over(t) /\ at = "none")
        BY <1>4
    <2>2. /\ order' \in [Orders -> OrderRecords] /\ order'[t].at = at
          /\ \A u \in Orders \ {t} : order'[u] = order[u]
          /\ at # "none" => order'[t].op = order[t].op
        BY <2>1, CommandMoves DEF OrderStates
    <2> QED
        BY <1>1, <1>2, <1>3, <2>2, CommandKeeps DEF OwnersLive
<1>5. CASE order' = [order EXCEPT ![t].at = "calling", ![t].config = desk.config]
    <2> DEFINE moved == [order[t] EXCEPT !.at = "calling", !.config = desk.config]
    <2>1. moved \in OrderRecords /\ moved.at = "calling" /\ moved.op = order[t].op
        BY <1>2 DEF OrderRecords, OrderStates, Desks, ResourceInvariant, ResourceTypeOK
    <2>2. order' = [order EXCEPT ![t] = moved]
        BY <1>5 DEF ResourceInvariant, ResourceTypeOK
    <2> HIDE DEF moved
    <2>3. /\ order' \in [Orders -> OrderRecords] /\ order'[t] = moved
          /\ \A u \in Orders \ {t} : order'[u] = order[u]
        BY <2>1, <2>2 DEF ResourceInvariant, ResourceTypeOK
    <2> QED
        BY <1>1, <1>2, <1>3, <2>1, <2>3, CommandKeeps DEF OwnersLive
<1> QED
    BY <1>4, <1>5 DEF FindOwner, EraseWorkspace

LEMMA ResourceKeeps ==
    ASSUME ResourceInvariant, [ResourceNext]_resourceVars
    PROVE  ResourceInvariant'
<1>1. CASE UNCHANGED resourceVars
    BY <1>1 DEF resourceVars, ResourceInvariant, ResourceTypeOK, Paired, AnswersAwaited,
       Prepared, ReceiptsTrue, OwnersLive, Recorded, Untouched, NothingUnderway
<1>2. ASSUME NEW t \in Orders, OrderSteps(t)
      PROVE  ResourceInvariant'
    BY <1>2, PreparingKeeps, CallingKeeps, ReturningKeeps, AcknowledgingKeeps, ErasingKeeps
       DEF OrderSteps
<1>3. CASE ResourceNext
    BY <1>2, <1>3, BeginningKeeps, ServeHeadKeeps, PipeBreaksKeeps, GateKeeps, FrameKeeps,
       StoppingKeeps, OpenAgainKeeps
       DEF ResourceNext, FrameSteps
<1> QED
    BY <1>1, <1>3

\* A workspace that is erased from the desk has left no interface, proposal or
\* schedule at the runtime that the runtime does not know to be deleted: commands
\* record the workspace before they may leave something (storage.rs:214), and
\* the record is dropped only by a receipt (storage.rs:251, runs.rs:513), whatever
\* is lost, restarted or under way at once.
THEOREM NothingOrphaned == ResourceSpec => []NoOrphans
<1>1. ResourceSpec => []ResourceInvariant
    BY ResourcesStart, ResourceKeeps, PTL DEF ResourceSpec
<1> QED
    BY <1>1, InvariantSuffices, PTL

-----------------------------------------------------------------------------
(* The schedules that go on unseen                                         *)

Enabled(w) == service.schedule[w] = "enabled"

\* Nothing under way takes the schedule of w away.
Undisturbed(w) == \A u \in Orders : order[u].op \in TakesAway => order[u].workspace # w

\* What a command is, and what an enabling waits for at each place
OrdersOK ==
    \A t \in Orders : LET o == order[t] IN
        /\ o.at = "none" => o.op = "none"
        /\ o.at # "none" =>
              /\ o.workspace \in Spaces /\ o.op \in Ops \cup {"delete"} /\ o.config <= desk.config
              /\ o.at \in {"owning", "finding", "erasing"} => o.op # "enable"
              /\ o.op = "enable" /\ o.config = desk.config =>
                    /\ desk.synced = desk.config
                    /\ o.at \in {"calling", "called"} => desk.approved
              /\ o.op = "enable" /\ o.sure => Undisturbed(o.workspace)

\* The answer that makes a schedule known
Certain(t) ==
    /\ order[t].at = "called" /\ order[t].op = "enable" /\ order[t].sure
    /\ order[t].config = desk.config /\ answers[t] = "ok"

CertainEnabled == \A t \in Orders : Certain(t) => Enabled(order[t].workspace)

\* What the operator knows to be enabled is.
ToldOK ==
    /\ told \subseteq Spaces
    /\ \A w \in told : Enabled(w) /\ Undisturbed(w)
    /\ told # {} => desk.approved /\ desk.synced = desk.config

ConsentOK ==
    \A w \in Spaces : /\ service.consent[w] <= desk.config
                      /\ Enabled(w) /\ service.consent[w] = desk.config => desk.approved

\* The calls are those of their callers, one each.
GateOp == CASE desk.gate = "cleared" -> "clear" [] desk.gate = "configured" -> "configure"
            [] desk.gate = "counted" -> "lifecycle" [] OTHER -> "none"
CallsOK ==
    \A i \in 1..Len(pipe) :
        /\ pipe[i].from \in Orders => pipe[i].config = order[pipe[i].from].config
        /\ pipe[i].from = "gate" => /\ pipe[i].op = GateOp /\ pipe[i].config = desk.config
                                    /\ answers["gate"] = Nil
        /\ pipe[i].from = "window" => /\ pipe[i].op = "lifecycle" /\ frame.at = "counting"
                                      /\ answers["window"] = Nil
        /\ \A j \in 1..Len(pipe) : pipe[j].from = pipe[i].from => j = i

\* What the runtime is authorized for is what the host holds, unless the gate is
\* about to change that or nothing needs it.
AuthorityOK ==
    /\ ~desk.alive => pipe = <<>> /\ service.authority = Nil
    /\ desk.config # 0 /\ (desk.ready => desk.synced = desk.config)
    /\ desk.synced = desk.config => service.scope = desk.config
    /\ desk.gate \in {"clearing", "cleared"} => desk.synced # desk.config
    /\ desk.gate = "counted" => service.authority = Nil
    /\ desk.gate = "configured" => service.authority \in {Nil, desk.config}
    /\ desk.alive /\ desk.gate = "free" /\ service.authority # desk.config =>
          service.authority = Nil /\ told = {} /\ \A t \in Orders : ~Certain(t)

GateAnswers ==
    /\ desk.gate \in {"free", "clearing"} => answers["gate"] = Nil
    /\ answers["gate"] = "lost" => ~desk.alive
    /\ answers["gate"] = "refused" => desk.gate = "counted" /\ \A w \in Spaces : ~Enabled(w)
    /\ answers["gate"] = "ok" =>
          /\ desk.gate = "cleared" => service.authority = Nil
          /\ desk.gate = "configured" => /\ service.scope = desk.config
                                         /\ desk.alive => service.authority = desk.config

\* What the window counts on is known; it stops over nothing that is.
WindowOK ==
    /\ answers["window"] # Nil => frame.at \in {"counting", "shut"}
    /\ frame.at \in {"closing", "counting"} => frame.counted \subseteq told
    /\ frame.at = "counting" /\ (~frame.approved \/ answers["window"] = "refused")
          => frame.counted = {}
    /\ frame.at \in {"stopping", "shut"} => frame.counted = {}
    /\ frame.at = "shut" => ~desk.alive

BackgroundInvariant ==
    /\ OrdersOK /\ CertainEnabled /\ ToldOK /\ ConsentOK /\ CallsOK
    /\ AuthorityOK /\ GateAnswers /\ WindowOK

LEMMA BackgroundSuffices == BackgroundInvariant => BackgroundHeld
<1> SUFFICES ASSUME BackgroundInvariant PROVE BackgroundHeld
    OBVIOUS
<1>1. KeepsItsAuthority
    BY DEF BackgroundInvariant, ToldOK, AuthorityOK, KeepsItsAuthority, Enabled
<1>2. ApprovedFirst
    BY DEF BackgroundInvariant, ConsentOK, ApprovedFirst, Enabled
<1>3. ClosingSpares
    BY DEF BackgroundInvariant, WindowOK, ClosingSpares
<1> QED
    BY <1>1, <1>2, <1>3 DEF BackgroundHeld

LEMMA BackgroundStarts == ResourceInit => BackgroundInvariant
<1> SUFFICES ASSUME ResourceInit PROVE BackgroundInvariant
    OBVIOUS
<1>1. /\ desk.config = 1 /\ desk.synced = 0 /\ ~desk.alive /\ ~desk.ready /\ desk.gate = "free"
      /\ service.authority = Nil
      /\ \A w \in Spaces : ~Enabled(w) /\ service.consent[w] = 0
    BY DEF ResourceInit, Enabled
<1>2. /\ order = [t \in Orders |-> NoOrder] /\ answers = [who \in Callers |-> Nil]
      /\ frame.at = "open" /\ told = {} /\ pipe = <<>> /\ Len(pipe) = 0
    BY DEF ResourceInit
<1>3. /\ \A t \in Orders : order[t].at = "none" /\ order[t].op = "none"
      /\ answers["gate"] = Nil /\ answers["window"] = Nil
    BY <1>2 DEF NoOrder, Callers
<1>4. OrdersOK /\ CertainEnabled
    BY <1>3 DEF OrdersOK, CertainEnabled, Certain
<1>5. ToldOK /\ ConsentOK /\ CallsOK
    BY <1>1, <1>2 DEF ToldOK, ConsentOK, CallsOK
<1>6. AuthorityOK /\ GateAnswers /\ WindowOK
    BY <1>1, <1>2, <1>3, ResourceAssumption DEF AuthorityOK, GateAnswers, WindowOK
<1> QED
    BY <1>4, <1>5, <1>6 DEF BackgroundInvariant

-----------------------------------------------------------------------------
(* What the runtime does to schedules and its authority *)

Stops(c, w) == c.op \in TakesAway /\ c.workspace = w

\* The configuration is another one than the runtime was authorized for.
Replaces(c) == c.op = "configure" /\ ~( service.scope = c.config
                                        /\ service.authority \in {Nil, c.config} )

Serves(c, n, a) ==
    /\ a \in {"ok", "refused"}
    /\ \A w \in Spaces :
          /\ n.schedule[w] = "enabled" =>
                \/ Enabled(w) /\ n.consent[w] = service.consent[w]
                \/ /\ c.op = "enable" /\ c.workspace = w /\ service.authority # Nil
                   /\ n.consent[w] = c.config
          /\ n.consent[w] # service.consent[w] => c.op = "enable" /\ n.consent[w] = c.config
          /\ Enabled(w) /\ n.schedule[w] # "enabled" =>
                Stops(c, w) \/ c.op = "clear" \/ Replaces(c)
    /\ c.op = "enable" /\ a = "ok" => n.schedule[c.workspace] = "enabled"
                                      /\ service.authority # Nil
    /\ c.op = "lifecycle" /\ a = "refused" => \A w \in Spaces : ~Enabled(w)
    /\ c.op \in {"clear", "configure"} => a = "ok"
    /\ c.op = "clear" => n.authority = Nil /\ n.scope = Nil
    /\ c.op = "configure" => n.authority = c.config /\ n.scope = c.config
    /\ c.op \notin {"clear", "configure"} =>
          n.authority = service.authority /\ n.scope = service.scope

LEMMA ServingSchedules ==
    ASSUME service \in Services, NEW c \in Calls, c.op = "enable" => c.workspace \in Spaces
    PROVE  Serves(c, ServeOf(c).next, ServeOf(c).answer)
<1> DEFINE v == c.workspace
           n == ServeOf(c).next
           a == ServeOf(c).answer
<1>0. c.op \in OpNames \ {"none"} /\ c.config \in Nat /\ v \in Places
    BY DEF Calls
<1>1. CASE c.op \in {"consult", "lifecycle"}
    <2>1. n = service /\ a \in {"ok", "refused"}
          /\ (c.op = "lifecycle" /\ a = "refused" => \A w \in Spaces : ~Enabled(w))
        BY <1>1 DEF ServeOf, Result, Enabled
    <2> QED
        BY <1>1, <2>1 DEF Serves, Enabled
<1>2. CASE c.op \in {"propose", "publish"}
    <2>1. \/ n = service
          \/ n = [service EXCEPT !.proposal[v] = "pending"]
          \/ n = [service EXCEPT !.proposal[v] = "published", !.interface[v] = "live"]
        BY <1>2 DEF ServeOf, Result
    <2>2. /\ n.schedule = service.schedule /\ n.consent = service.consent
          /\ n.authority = service.authority /\ n.scope = service.scope
        BY <2>1 DEF Services
    <2>3. a \in {"ok", "refused"}
        BY <1>2 DEF ServeOf, Result
    <2> QED
        BY <1>2, <2>2, <2>3 DEF Serves, Enabled
<1>3. CASE c.op = "create"
    <2>1. n = service \/ (service.schedule[v] = "none"
                          /\ n = [service EXCEPT !.schedule[v] = "paused"])
        BY <1>3 DEF ServeOf, Result
    <2>2. /\ \A w \in Spaces : \/ n.schedule[w] = service.schedule[w]
                               \/ service.schedule[w] = "none" /\ n.schedule[w] = "paused"
          /\ n.consent = service.consent
          /\ n.authority = service.authority /\ n.scope = service.scope
        BY <2>1 DEF Services
    <2>3. a \in {"ok", "refused"}
        BY <1>3 DEF ServeOf, Result
    <2> QED
        BY <1>3, <2>2, <2>3 DEF Serves, Enabled
<1>4. CASE c.op = "enable"
    <2>1. \/ n = service /\ a = "refused"
          \/ /\ n = [service EXCEPT !.schedule[v] = "enabled", !.consent[v] = c.config]
             /\ a = "ok" /\ service.authority # Nil
        BY <1>4 DEF ServeOf, Result
    <2>2. CASE n = service /\ a = "refused"
        BY <1>4, <2>2 DEF Serves, Enabled
    <2>3. CASE /\ n = [service EXCEPT !.schedule[v] = "enabled", !.consent[v] = c.config]
               /\ a = "ok" /\ service.authority # Nil
        <3>1. /\ n.schedule[v] = "enabled" /\ n.consent[v] = c.config
              /\ \A w \in Spaces : w # v => n.schedule[w] = service.schedule[w]
                                            /\ n.consent[w] = service.consent[w]
              /\ n.authority = service.authority /\ n.scope = service.scope
            BY <1>4, <2>3 DEF Services
        <3> QED
            BY <1>4, <2>3, <3>1 DEF Serves, Enabled
    <2> QED
        BY <2>1, <2>2, <2>3
<1>5. CASE c.op \in {"pause", "drop", "remove", "delete"}
    <2>1. /\ \A w \in Spaces : \/ n.schedule[w] = service.schedule[w]
                               \/ w = v /\ n.schedule[w] \in {"paused", "deleted"}
          /\ n.consent = service.consent
          /\ n.authority = service.authority /\ n.scope = service.scope
        <3>1. CASE c.op \in {"pause", "drop"}
            <4>1. n = service \/ \E s \in {"paused", "deleted"} :
                                     n = [service EXCEPT !.schedule[v] = s]
                BY <3>1 DEF ServeOf, Result
            <4> QED
                BY <4>1 DEF Services
        <3>2. CASE c.op = "remove"
            <4>1. n = service \/ n = RemoveInterface(v)
                BY <3>2 DEF ServeOf, Result
            <4>2. \/ n = service
                  \/ /\ n.schedule = [service.schedule EXCEPT
                                         ![v] = IF @ = "enabled" THEN "paused" ELSE @]
                     /\ n.consent = service.consent
                     /\ n.authority = service.authority /\ n.scope = service.scope
                BY <4>1 DEF Services, RemoveInterface
            <4> HIDE DEF n
            <4> QED
                BY <4>2 DEF Services
        <3>3. CASE c.op = "delete"
            <4>1. n = [service EXCEPT !.gone = @ \cup {v},
                                      !.schedule[v] = IF @ = "enabled" THEN "paused" ELSE @]
                BY <3>3 DEF ServeOf, Result, Allowed
            <4> QED
                BY <4>1 DEF Services
        <3> QED
            BY <1>5, <3>1, <3>2, <3>3
    <2>2. a \in {"ok", "refused"}
        BY <1>5 DEF ServeOf, Result, Allowed
    <2> QED
        BY <1>5, <2>1, <2>2 DEF Serves, Enabled, Stops, TakesAway
<1>6. CASE c.op \in {"clear", "configure"}
    <2>1. a = "ok"
        BY <1>6 DEF ServeOf, Result, Allowed
    <2>2. PICK s \in {service, Fenced(service)}, d \in {Nil, c.config} :
             /\ n = [s EXCEPT !.authority = d, !.scope = d]
             /\ c.op = "clear" => d = Nil
             /\ c.op = "configure" => d = c.config /\ (s = service \/ Replaces(c))
        BY <1>6 DEF ServeOf, Result, Allowed, Cleared, Reconfigured, Replaces
    <2>3. /\ s \in Services /\ s.consent = service.consent
          /\ \A w \in Spaces : \/ s.schedule[w] = service.schedule[w]
                               \/ s # service /\ s.schedule[w] = "paused"
        <3>1. CASE s = service
            BY <3>1
        <3>2. CASE s = Fenced(service) /\ s # service
            <4>1. s \in Services
                BY <3>2, FencingExtends
            <4> QED
                BY <3>2, <4>1 DEF Fenced, Services
        <3> QED
            BY <3>1, <3>2
    <2>4. /\ n.schedule = s.schedule /\ n.consent = s.consent
          /\ n.authority = d /\ n.scope = d
        BY <2>2, <2>3 DEF Services
    <2> HIDE DEF n, a
    <2>5. \A w \in Spaces :
             /\ n.schedule[w] = "enabled" =>
                   Enabled(w) /\ n.consent[w] = service.consent[w]
             /\ n.consent[w] = service.consent[w]
             /\ Enabled(w) /\ n.schedule[w] # "enabled" => c.op = "clear" \/ Replaces(c)
        BY <1>6, <2>2, <2>3, <2>4 DEF Enabled
    <2>6. /\ c.op = "clear" => n.authority = Nil /\ n.scope = Nil
          /\ c.op = "configure" => n.authority = c.config /\ n.scope = c.config
        BY <2>2, <2>4
    <2> QED
        BY <1>6, <2>1, <2>5, <2>6 DEF Serves, n, a
<1> HIDE DEF n, a, v
<1> QED
    BY <1>0, <1>1, <1>2, <1>3, <1>4, <1>5, <1>6 DEF OpNames, n, a

\* Serving a call for a caller of the invariant
LEMMA ServingKnown ==
    ASSUME ResourceInvariant, BackgroundInvariant, NEW i \in 1..Len(pipe), pipe[i] \in Calls
    PROVE  /\ pipe[i].op = "enable" => pipe[i].workspace \in Spaces
           /\ pipe[i].op \in TakesAway => pipe[i].from \in Orders
           /\ pipe[i].from \in Orders =>
                 /\ order[pipe[i].from].at = "called"
                 /\ order[pipe[i].from].op = pipe[i].op
                 /\ order[pipe[i].from].workspace = pipe[i].workspace
                 /\ order[pipe[i].from].config = pipe[i].config
                 /\ pipe[i].op \in Ops \cup {"delete"}
           /\ pipe[i].op = "enable" => pipe[i].from \in Orders
           /\ pipe[i].from = "gate" => pipe[i].op \in {"none", "clear", "configure", "lifecycle"}
           /\ pipe[i].from \in Callers /\ pipe[i].config \in Nat
           /\ pipe[i].from # "window" => pipe[i].config <= desk.config
           /\ pipe[i].op \in {"clear", "configure"} => pipe[i].from = "gate"
<1> DEFINE c == pipe[i]
<1>1. c.from \in Callers /\ desk.config \in Nat /\ c.config \in Nat
    BY DEF Calls, ResourceInvariant, ResourceTypeOK, Desks
<1>2. c.from \in Orders => /\ order[c.from].at = "called" /\ order[c.from].op = c.op
                           /\ order[c.from].workspace = c.workspace
    BY DEF ResourceInvariant, Paired
<1>3. c.from \in Orders => /\ order[c.from].config = c.config
    BY DEF BackgroundInvariant, CallsOK
<1>4. c.from \in Orders => /\ c.workspace \in Spaces /\ c.op \in Ops \cup {"delete"}
                           /\ c.config <= desk.config
    BY <1>2, <1>3 DEF BackgroundInvariant, OrdersOK
<1>5. c.from = "gate" => /\ c.op \in {"none", "clear", "configure", "lifecycle"}
                         /\ c.config <= desk.config
    BY <1>1 DEF BackgroundInvariant, CallsOK, GateOp
<1>6. c.from = "window" => c.op = "lifecycle"
    BY DEF BackgroundInvariant, CallsOK
<1> QED
    BY <1>1, <1>2, <1>3, <1>4, <1>5, <1>6 DEF Callers, TakesAway, Ops

\* What may become of the store, whichever call is served or lost
Sound(n) ==
    /\ \A w \in Spaces :
          /\ Enabled(w) /\ Undisturbed(w) /\ desk.synced = desk.config =>
                n.schedule[w] = "enabled"
          /\ n.consent[w] <= desk.config
          /\ n.schedule[w] = "enabled" /\ n.consent[w] = desk.config => desk.approved
          /\ service.authority = Nil /\ n.schedule[w] = "enabled" => Enabled(w)
    /\ desk.synced = desk.config => n.scope = desk.config
    /\ answers["gate"] # Nil => n.scope = service.scope
    /\ desk.gate \in {"free", "clearing", "counted"} => n.authority = service.authority
    /\ desk.gate = "configured" => n.authority \in {Nil, desk.config}

LEMMA StoreSound ==
    ASSUME ResourceInvariant, BackgroundInvariant
    PROVE  Sound(service)
BY DEF BackgroundInvariant, ConsentOK, AuthorityOK, Sound, Enabled

LEMMA ServingSound ==
    ASSUME ResourceInvariant, BackgroundInvariant, NEW i \in 1..Len(pipe), pipe[i] \in Calls
    PROVE  /\ Sound(ServeOf(pipe[i]).next)
           /\ Serves(pipe[i], ServeOf(pipe[i]).next, ServeOf(pipe[i]).answer)
<1> DEFINE c == pipe[i]
           n == ServeOf(pipe[i]).next
           a == ServeOf(pipe[i]).answer
<1>1. Serves(c, n, a)
    BY ServingKnown, ServingSchedules DEF ResourceInvariant, ResourceTypeOK
<1> HIDE DEF n, a
<1>2. /\ c.op = "clear" => desk.gate = "cleared"
      /\ c.op = "configure" => desk.gate = "configured" /\ c.config = desk.config
    BY ServingKnown DEF BackgroundInvariant, CallsOK, GateOp
<1>3. desk.synced = desk.config => c.op # "clear" /\ ~Replaces(c)
    BY <1>2 DEF BackgroundInvariant, AuthorityOK, Replaces
<1>4. ASSUME NEW w \in Spaces, Stops(c, w)
      PROVE  ~Undisturbed(w)
    BY <1>4, ServingKnown DEF Stops, Undisturbed
<1>5. c.op = "enable" => /\ c.config <= desk.config
                         /\ c.config = desk.config => desk.approved
    BY ServingKnown DEF BackgroundInvariant, OrdersOK
<1>6. ASSUME NEW w \in Spaces
      PROVE  /\ Enabled(w) /\ Undisturbed(w) /\ desk.synced = desk.config =>
                   n.schedule[w] = "enabled"
             /\ n.consent[w] <= desk.config
             /\ n.schedule[w] = "enabled" /\ n.consent[w] = desk.config => desk.approved
             /\ service.authority = Nil /\ n.schedule[w] = "enabled" => Enabled(w)
    <2>1. Enabled(w) /\ Undisturbed(w) /\ desk.synced = desk.config => n.schedule[w] = "enabled"
        BY <1>1, <1>3, <1>4 DEF Serves
    <2>2. n.consent[w] <= desk.config
        BY <1>1, <1>5 DEF Serves, BackgroundInvariant, ConsentOK
    <2>3. n.schedule[w] = "enabled" /\ n.consent[w] = desk.config => desk.approved
        BY <1>1, <1>5 DEF Serves, BackgroundInvariant, ConsentOK
    <2>4. service.authority = Nil /\ n.schedule[w] = "enabled" => Enabled(w)
        BY <1>1 DEF Serves
    <2> QED
        BY <2>1, <2>2, <2>3, <2>4
<1>7. desk.synced = desk.config => n.scope = desk.config
    BY <1>1, <1>2, <1>3, ServingKnown DEF Serves, BackgroundInvariant, AuthorityOK
<1>8. /\ desk.gate \in {"free", "clearing", "counted"} => n.authority = service.authority
      /\ desk.gate = "configured" => n.authority \in {Nil, desk.config}
    BY <1>1, <1>2 DEF Serves, BackgroundInvariant, AuthorityOK
<1>9. answers["gate"] # Nil => n.scope = service.scope
    BY <1>1, ServingKnown DEF Serves, BackgroundInvariant, CallsOK
<1> QED
    BY <1>1, <1>6, <1>7, <1>8, <1>9 DEF Sound, n, a

LEMMA ServeHeadHolds ==
    ASSUME ResourceInvariant, BackgroundInvariant, ServeHead
    PROVE  BackgroundInvariant'
<1> USE DEF BackgroundInvariant
<1> DEFINE c == Head(pipe)
           n == ServeOf(c).next
           a == ServeOf(c).answer
<1>1. /\ 1 \in 1..Len(pipe) /\ c = pipe[1] /\ c \in Calls /\ Len(pipe) \in Nat
      /\ Len(pipe') = Len(pipe) - 1 /\ \A i \in 1..Len(pipe') : pipe'[i] = pipe[i + 1]
    BY DEF ServeHead, ResourceInvariant, ResourceTypeOK
<1>2. Sound(n) /\ Serves(c, n, a)
    BY <1>1, ServingSound
<1>3. /\ service' = n /\ answers' = [answers EXCEPT ![c.from] = a]
      /\ UNCHANGED <<desk, order, frame, told>> /\ desk.alive
    BY DEF ServeHead
<1> HIDE DEF c, n, a
<1>4. /\ c.from \in Callers /\ answers'[c.from] = a /\ a \in {"ok", "refused"}
      /\ \A who \in Callers \ {c.from} : answers'[who] = answers[who]
    BY <1>1, <1>2, <1>3 DEF Calls, Serves, ResourceInvariant, ResourceTypeOK
<1>5. OrdersOK'
    BY <1>3 DEF OrdersOK, Undisturbed
<1>6. CertainEnabled'
    <2> SUFFICES ASSUME NEW t \in Orders, Certain(t)' PROVE Enabled(order[t].workspace)'
        BY <1>3 DEF CertainEnabled
    <2>1. /\ order[t].at = "called" /\ order[t].op = "enable" /\ order[t].sure
          /\ order[t].config = desk.config /\ answers'[t] = "ok" /\ t \in Callers
        BY <1>3 DEF Certain, Callers
    <2>2. /\ order[t].workspace \in Spaces /\ Undisturbed(order[t].workspace)
          /\ desk.synced = desk.config
        BY <2>1 DEF OrdersOK
    <2>3. CASE t = c.from
        <3>1. c.op = "enable" /\ c.workspace = order[t].workspace
            BY <1>1, <2>1, <2>3, ServingKnown
        <3> QED
            BY <1>2, <1>3, <1>4, <2>1, <2>3, <3>1 DEF Serves, Enabled
    <2>4. CASE t # c.from
        <3>1. Enabled(order[t].workspace)
            BY <1>4, <2>1, <2>4 DEF Certain, CertainEnabled
        <3> QED
            BY <1>2, <1>3, <2>2, <3>1 DEF Sound, Enabled
    <2> QED
        BY <2>3, <2>4
<1>7. ToldOK'
    BY <1>2, <1>3 DEF ToldOK, Sound, Enabled, Undisturbed
<1>8. ConsentOK'
    BY <1>2, <1>3 DEF ConsentOK, Sound, Enabled
<1>9. CallsOK'
    <2> SUFFICES ASSUME NEW i \in 1..Len(pipe')
                 PROVE  /\ i + 1 \in 1..Len(pipe) /\ pipe'[i] = pipe[i + 1]
                        /\ pipe[i + 1].from # c.from
                        /\ \A j \in 1..Len(pipe') : pipe'[j].from = pipe[i + 1].from => j = i
        <3>1. \A who \in {"gate", "window"} : who \in Callers
            BY DEF Callers
        <3> QED
            BY <1>3, <1>4, <3>1 DEF CallsOK, GateOp
    <2>1. i + 1 \in 1..Len(pipe) /\ pipe'[i] = pipe[i + 1] /\ i + 1 # 1
        BY <1>1
    <2>2. pipe[i + 1].from # c.from
        BY <1>1, <2>1 DEF CallsOK
    <2>3. ASSUME NEW j \in 1..Len(pipe'), pipe'[j].from = pipe[i + 1].from
          PROVE  j = i
        <3>1. j + 1 \in 1..Len(pipe) /\ pipe'[j] = pipe[j + 1]
            BY <1>1
        <3>2. j + 1 = i + 1
            BY <2>1, <2>3, <3>1 DEF CallsOK
        <3> QED
            BY <1>1, <3>2
    <2> QED
        BY <2>1, <2>2, <2>3
<1>10. AuthorityOK'
    <2>1. ASSUME desk.gate = "free", service.authority # desk.config, NEW t \in Orders, Certain(t)'
          PROVE  FALSE
        <3>1. service.authority = Nil /\ ~Certain(t) /\ t \in Callers
            BY <1>3, <2>1 DEF AuthorityOK, Callers
        <3>2. t = c.from /\ a = "ok" /\ order[t].op = "enable"
            BY <1>3, <1>4, <2>1, <3>1 DEF Certain
        <3>3. c.op = "enable"
            BY <1>1, <3>2, ServingKnown
        <3> QED
            BY <1>2, <3>1, <3>2, <3>3 DEF Serves
    <2>2. desk.gate = "counted" => n.authority = Nil
        BY <1>2 DEF Sound, AuthorityOK
    <2>3. desk.gate = "configured" => n.authority \in {Nil, desk.config}
        BY <1>2 DEF Sound
    <2>4. desk.gate = "free" => n.authority = service.authority
        BY <1>2 DEF Sound
    <2>5. desk.synced = desk.config => n.scope = desk.config
        BY <1>2 DEF Sound
    <2> QED
        BY <1>3, <2>1, <2>2, <2>3, <2>4, <2>5 DEF AuthorityOK
<1>11. GateAnswers'
    <2> "gate" \in Callers
        BY DEF Callers
    <2>1. CASE c.from = "gate"
        <3>1. /\ c.op = GateOp /\ c.config = desk.config
              /\ c.op \in {"none", "clear", "configure", "lifecycle"}
            BY <1>1, <2>1, ServingKnown DEF CallsOK
        <3>2. c.op # "none"
            BY <1>1 DEF Calls
        <3>3. \/ desk.gate = "cleared" /\ c.op = "clear"
              \/ desk.gate = "configured" /\ c.op = "configure"
              \/ desk.gate = "counted" /\ c.op = "lifecycle"
            BY <3>1, <3>2 DEF GateOp
        <3>4. answers'["gate"] = a
            BY <1>4, <2>1
        <3>5. a = "refused" => desk.gate = "counted" /\ \A w \in Spaces : n.schedule[w] # "enabled"
            BY <1>2, <3>3 DEF Serves, Sound, AuthorityOK
        <3> QED
            BY <1>2, <1>3, <1>4, <3>1, <3>3, <3>4, <3>5, ResourceAssumption
               DEF Serves, GateAnswers, Enabled
    <2>2. CASE c.from # "gate"
        <3>1. answers'["gate"] = answers["gate"] /\ c.op \notin {"clear", "configure"}
            BY <1>1, <1>4, <2>2, ServingKnown
        <3>2. n.authority = service.authority /\ n.scope = service.scope
            BY <1>2, <3>1 DEF Serves
        <3>3. desk.gate = "counted" /\ (\A w \in Spaces : ~Enabled(w)) =>
                 \A w \in Spaces : n.schedule[w] # "enabled"
            BY <1>2 DEF Sound, AuthorityOK
        <3> QED
            BY <1>3, <3>1, <3>2, <3>3 DEF GateAnswers, Enabled
    <2> QED
        BY <2>1, <2>2
<1>12. WindowOK'
    <2> "window" \in Callers
        BY DEF Callers
    <2>1. CASE c.from = "window"
        <3>1. c.op = "lifecycle" /\ frame.at = "counting"
            BY <1>1, <2>1 DEF CallsOK
        <3>2. a = "refused" => frame.counted = {}
            BY <1>2, <3>1 DEF Serves, WindowOK, ToldOK
        <3> QED
            BY <1>3, <1>4, <2>1, <3>1, <3>2 DEF WindowOK
    <2>2. CASE c.from # "window"
        BY <1>3, <1>4, <2>2 DEF WindowOK
    <2> QED
        BY <2>1, <2>2
<1> QED
    BY <1>5, <1>6, <1>7, <1>8, <1>9, <1>10, <1>11, <1>12

\* The loss of the pipe, with the commands or without them
LEMMA BrokenHolds ==
    ASSUME ResourceInvariant, BackgroundInvariant, Broken, UNCHANGED told,
           \A t \in Orders : order'[t] \in {order[t], NoOrder}
    PROVE  /\ OrdersOK' /\ CertainEnabled' /\ ToldOK' /\ ConsentOK' /\ CallsOK'
           /\ AuthorityOK' /\ GateAnswers' /\ ~desk'.alive
           /\ \A who \in Callers :
                 \/ answers'[who] = answers[who]
                 \/ answers'[who] = "lost" /\ \E i \in 1..Len(pipe) : pipe[i].from = who
<1> USE DEF BackgroundInvariant
<1>1. /\ desk' = [desk EXCEPT !.alive = FALSE, !.ready = FALSE] /\ pipe' = <<>>
      /\ answers' = [who \in Callers |-> IF \E i \in 1..Len(pipe) : pipe[i].from = who
                                         THEN "lost" ELSE answers[who]]
    BY DEF Broken
<1>2. PICK s : /\ s = service \/ (pipe # <<>> /\ s = ServeOf(Head(pipe)).next)
               /\ service' = [s EXCEPT !.authority = Nil]
    BY DEF Broken
<1>3. s \in Services /\ Sound(s)
    <2>1. CASE s = service
        BY <2>1, StoreSound DEF ResourceInvariant, ResourceTypeOK
    <2>2. CASE s # service
        <3>1. 1 \in 1..Len(pipe) /\ Head(pipe) = pipe[1] /\ Head(pipe) \in Calls
            BY <1>2, <2>2 DEF ResourceInvariant, ResourceTypeOK
        <3> QED
            BY <1>2, <2>2, <3>1, ServingSound, ServingExtends
               DEF Extends, ResourceInvariant, ResourceTypeOK
    <2> QED
        BY <2>1, <2>2
<1>4. /\ service'.schedule = s.schedule /\ service'.consent = s.consent
      /\ service'.scope = s.scope /\ service'.authority = Nil
    BY <1>2, <1>3 DEF Services
<1>5. /\ desk'.config = desk.config /\ desk'.synced = desk.synced /\ desk'.gate = desk.gate
      /\ desk'.approved = desk.approved /\ ~desk'.alive /\ ~desk'.ready /\ Len(pipe') = 0
    BY <1>1 DEF Desks, ResourceInvariant, ResourceTypeOK
<1>6. NoOrder.op = "none" /\ NoOrder.at = "none" /\ "none" \notin TakesAway
    BY DEF NoOrder, TakesAway
<1>7. \A w \in Spaces : Undisturbed(w) => Undisturbed(w)'
    BY <1>6 DEF Undisturbed
<1>8. \A who \in Callers :
         \/ answers'[who] = answers[who]
         \/ answers'[who] = "lost" /\ \E i \in 1..Len(pipe) : pipe[i].from = who
    BY <1>1
<1>9. OrdersOK'
    <2> SUFFICES ASSUME NEW t \in Orders, order'[t] = order[t], order[t].at # "none"
                 PROVE  order[t].op = "enable" /\ order[t].sure
                           => Undisturbed(order[t].workspace)'
        BY <1>5, <1>6 DEF OrdersOK
    <2> QED
        BY <1>7 DEF OrdersOK
<1>10. CertainEnabled'
    <2> SUFFICES ASSUME NEW t \in Orders, Certain(t)'
                 PROVE  service'.schedule[order'[t].workspace] = "enabled"
        BY DEF CertainEnabled, Enabled
    <2>1. order'[t] = order[t] /\ t \in Callers /\ answers'[t] = answers[t]
        BY <1>6, <1>8 DEF Certain, Callers
    <2>2. Certain(t)
        BY <1>5, <2>1 DEF Certain
    <2>3. /\ order[t].workspace \in Spaces /\ Undisturbed(order[t].workspace)
          /\ desk.synced = desk.config /\ Enabled(order[t].workspace)
        BY <2>2 DEF Certain, OrdersOK, CertainEnabled
    <2> QED
        BY <1>3, <1>4, <2>1, <2>3 DEF Sound, Enabled
<1>11. ToldOK'
    BY <1>3, <1>4, <1>5, <1>7 DEF ToldOK, Sound, Enabled
<1>12. ConsentOK'
    BY <1>3, <1>4, <1>5 DEF ConsentOK, Sound, Enabled
<1>13. CallsOK'
    BY <1>5 DEF CallsOK
<1>14. AuthorityOK'
    BY <1>1, <1>3, <1>4, <1>5 DEF AuthorityOK, Sound
<1>15. GateAnswers'
    <2>1. "gate" \in Callers
        BY DEF Callers
    <2>2. ASSUME answers'["gate"] # answers["gate"]
          PROVE  answers'["gate"] = "lost" /\ desk.gate \notin {"free", "clearing"}
        <3>1. PICK i \in 1..Len(pipe) : pipe[i].from = "gate" /\ answers'["gate"] = "lost"
            BY <1>8, <2>1, <2>2
        <3>2. pipe[i] \in Calls
            BY DEF ResourceInvariant, ResourceTypeOK
        <3> QED
            BY <3>1, <3>2 DEF CallsOK, GateOp, Calls
    <2>3. answers["gate"] = "refused" => \A w \in Spaces : s.schedule[w] # "enabled"
        BY <1>3 DEF GateAnswers, AuthorityOK, Sound
    <2>4. answers["gate"] = "ok" /\ desk.gate = "configured" => s.scope = desk.config
        BY <1>3, ResourceAssumption DEF GateAnswers, Sound
    <2> QED
        BY <1>4, <1>5, <2>2, <2>3, <2>4 DEF GateAnswers, Enabled
<1> QED
    BY <1>5, <1>8, <1>9, <1>10, <1>11, <1>12, <1>13, <1>14, <1>15

LEMMA BreakingHolds ==
    ASSUME ResourceInvariant, BackgroundInvariant, PipeBreaks \/ StopRuntime \/ QuitNow
    PROVE  BackgroundInvariant'
<1>1. Broken /\ UNCHANGED told /\ \A t \in Orders : order'[t] \in {order[t], NoOrder}
    BY DEF PipeBreaks, StopRuntime, QuitNow
<1>2. frame \in Frames /\ "window" \in Callers
    BY DEF ResourceInvariant, ResourceTypeOK, Callers
<1>3. WindowOK'
    <2>1. CASE UNCHANGED frame
        <3>1. \/ answers'["window"] = answers["window"]
              \/ answers'["window"] = "lost" /\ frame.at = "counting"
            BY <1>1, <1>2, BrokenHolds DEF BackgroundInvariant, CallsOK
        <3>2. ~desk'.alive
            BY <1>1, BrokenHolds
        <3> QED
            BY <1>1, <2>1, <3>1, <3>2 DEF BackgroundInvariant, WindowOK
    <2>2. CASE frame'.at = "shut" /\ frame'.counted = {}
        BY <1>1, <2>2, BrokenHolds DEF WindowOK
    <2>3. UNCHANGED frame \/ (frame'.at = "shut" /\ frame'.counted = {})
        BY <1>2 DEF PipeBreaks, StopRuntime, QuitNow, Frame, Frames, BackgroundInvariant, WindowOK
    <2> QED
        BY <2>1, <2>2, <2>3
<1> QED
    BY <1>1, <1>3, BrokenHolds DEF BackgroundInvariant

-----------------------------------------------------------------------------
(* The commands and the schedules *)

\* A step of one command; what it makes known was certain.
LEMMA CommandHolds ==
    ASSUME ResourceInvariant, BackgroundInvariant, NEW t \in Orders,
           desk'.config = desk.config, desk'.synced = desk.synced, desk'.gate = desk.gate,
           desk'.alive = desk.alive, desk'.ready = desk.ready, desk.approved => desk'.approved,
           \A u \in Orders \ {t} : order'[u] = order[u] /\ answers'[u] = answers[u],
           answers'["gate"] = answers["gate"], answers'["window"] = answers["window"],
           UNCHANGED <<service, frame>>,
           order[t].at # "none",
           \/ order'[t] = NoOrder
           \/ /\ order'[t].at # "none" /\ order'[t].op = order[t].op
              /\ order'[t].workspace = order[t].workspace /\ order'[t].sure = order[t].sure
              /\ order'[t].config \in {order[t].config, desk.config}
              /\ order'[t].at \in {"owning", "finding", "erasing"} => order[t].op # "enable"
              /\ order[t].op = "enable" =>
                    /\ order'[t].config = order[t].config
                    /\ order'[t].at \in {"calling", "called"}
                       /\ order[t].config = desk.config => desk'.approved,
           ~Certain(t)', CallsOK', ~desk.alive => pipe' = pipe,
           told \subseteq told', \A w \in told' \ told : Certain(t) /\ w = order[t].workspace
    PROVE  BackgroundInvariant'
<1> USE DEF BackgroundInvariant
<1>1. NoOrder.op = "none" /\ NoOrder.at = "none" /\ "none" \notin TakesAway
    BY DEF NoOrder, TakesAway
<1>2. \A w \in Spaces : Undisturbed(w) => Undisturbed(w)'
    BY <1>1 DEF Undisturbed
<1>3. desk.config \in Nat
    BY DEF Desks, ResourceInvariant, ResourceTypeOK
<1>4. OrdersOK'
    <2>1. ASSUME NEW u \in Orders, u # t, order[u].at # "none", order[u].op = "enable",
                 order[u].sure
          PROVE  Undisturbed(order[u].workspace)'
        BY <1>2, <2>1 DEF OrdersOK
    <2>2. ASSUME order'[t].at # "none", order[t].op = "enable", order[t].sure
          PROVE  Undisturbed(order[t].workspace)'
        <3>1. order[t].workspace \in Spaces /\ Undisturbed(order[t].workspace)
            BY <2>2 DEF OrdersOK
        <3> QED
            BY <1>1, <1>2, <2>2, <3>1
    <2>3. ASSUME NEW u \in Orders, u # t
          PROVE  /\ order'[u].at = "none" => order'[u].op = "none"
                 /\ order'[u].at # "none" =>
                       /\ order'[u].workspace \in Spaces /\ order'[u].op \in Ops \cup {"delete"}
                       /\ order'[u].config <= desk'.config
                       /\ order'[u].at \in {"owning", "finding", "erasing"}
                             => order'[u].op # "enable"
                       /\ order'[u].op = "enable" /\ order'[u].config = desk'.config =>
                             /\ desk'.synced = desk'.config
                             /\ order'[u].at \in {"calling", "called"} => desk'.approved
        BY <2>3 DEF OrdersOK
    <2>4. /\ order'[t].at = "none" => order'[t].op = "none"
          /\ order'[t].at # "none" =>
                /\ order'[t].workspace \in Spaces /\ order'[t].op \in Ops \cup {"delete"}
                /\ order'[t].config <= desk'.config
                /\ order'[t].at \in {"owning", "finding", "erasing"} => order'[t].op # "enable"
                /\ order'[t].op = "enable" /\ order'[t].config = desk'.config =>
                      /\ desk'.synced = desk'.config
                      /\ order'[t].at \in {"calling", "called"} => desk'.approved
        BY <1>1, <1>3 DEF OrdersOK
    <2>5. ASSUME NEW u \in Orders, order'[u].at # "none", order'[u].op = "enable", order'[u].sure
          PROVE  \A x \in Orders : order'[x].op \in TakesAway
                                      => order'[x].workspace # order'[u].workspace
        BY <1>1, <2>1, <2>2, <2>5 DEF Undisturbed
    <2> QED
        BY <2>3, <2>4, <2>5 DEF OrdersOK, Undisturbed
<1>5. CertainEnabled'
    <2> SUFFICES ASSUME NEW u \in Orders, Certain(u)'
                 PROVE  service'.schedule[order'[u].workspace] = "enabled"
        BY DEF CertainEnabled, Enabled
    <2> QED
        BY DEF Certain, CertainEnabled, Enabled
<1>6. \A w \in told' \ told : /\ w \in Spaces /\ Enabled(w) /\ Undisturbed(w)
                              /\ desk.approved /\ desk.synced = desk.config
    BY DEF Certain, CertainEnabled, OrdersOK
<1>7. ToldOK'
    BY <1>2, <1>6 DEF ToldOK, Enabled
<1>8. ConsentOK'
    BY DEF ConsentOK, Enabled
<1>9. AuthorityOK'
    <2>1. ASSUME desk.alive, desk.gate = "free", service.authority # desk.config
          PROVE  told' = {} /\ \A u \in Orders : ~Certain(u)'
        <3>1. told = {} /\ \A u \in Orders : ~Certain(u)
            BY <2>1 DEF AuthorityOK
        <3> QED
            BY <3>1 DEF Certain
    <2> QED
        BY <2>1 DEF AuthorityOK
<1>10. GateAnswers' /\ WindowOK'
    BY DEF GateAnswers, WindowOK, Enabled
<1> QED
    BY <1>4, <1>5, <1>7, <1>8, <1>9, <1>10

\* The new record of a command
LEMMA RecordMoves ==
    ASSUME ResourceInvariant, NEW t \in Orders, NEW at \in OrderStates \ {"none"}, Goes(t, at)
    PROVE  /\ order'[t].at = at /\ order'[t].op = order[t].op
           /\ order'[t].workspace = order[t].workspace /\ order'[t].config = order[t].config
           /\ order'[t].sure = order[t].sure /\ \A u \in Orders \ {t} : order'[u] = order[u]
BY DEF Goes, OrderRecords, ResourceInvariant, ResourceTypeOK

LEMMA OverMoves ==
    ASSUME ResourceInvariant, NEW t \in Orders, Over(t)
    PROVE  order'[t] = NoOrder /\ \A u \in Orders \ {t} : order'[u] = order[u]
BY DEF Over, ResourceInvariant, ResourceTypeOK

\* No call of a command is in the pipe before it called or after its answer.
LEMMA CallsStay ==
    ASSUME ResourceInvariant, BackgroundInvariant, NEW t \in Orders,
           order[t].at # "called" \/ answers[t] # Nil, UNCHANGED <<pipe, frame>>,
           desk'.config = desk.config, desk'.gate = desk.gate,
           \A u \in Orders \ {t} : order'[u] = order[u],
           answers'["gate"] = answers["gate"], answers'["window"] = answers["window"]
    PROVE  CallsOK'
<1>1. \A i \in 1..Len(pipe) : pipe[i].from # t
    BY DEF ResourceInvariant, Paired
<1> QED
    BY <1>1 DEF BackgroundInvariant, CallsOK, GateOp

LEMMA PreparingHolds ==
    ASSUME ResourceInvariant, BackgroundInvariant, NEW t \in Orders,
           OwnWorkspace(t) \/ ApproveBackground(t)
    PROVE  BackgroundInvariant'
<1>1. /\ order[t].at \in {"owning", "approving"} /\ desk \in Desks
      /\ UNCHANGED <<pipe, answers, service>> /\ UNCHANGED <<frame, told>>
    BY DEF OwnWorkspace, ApproveBackground, IsAt, ResourceInvariant, ResourceTypeOK
<1>2. /\ desk'.config = desk.config /\ desk'.synced = desk.synced /\ desk'.gate = desk.gate
      /\ desk'.alive = desk.alive /\ desk'.ready = desk.ready
      /\ desk.approved => desk'.approved
    BY <1>1 DEF OwnWorkspace, ApproveBackground, Desks
<1>3. CASE Over(t)
    <2>1. order'[t] = NoOrder /\ \A u \in Orders \ {t} : order'[u] = order[u]
        BY <1>3, OverMoves
    <2>2. CallsOK'
        BY <1>1, <1>2, <2>1, CallsStay
    <2>3. ~Certain(t)'
        BY <2>1 DEF Certain, NoOrder
    <2> QED
        BY <1>1, <1>2, <2>1, <2>2, <2>3, CommandHolds
<1>4. CASE Goes(t, "calling") /\ ~Over(t)
    <2>1. /\ order'[t].at = "calling" /\ order'[t].op = order[t].op
          /\ order'[t].workspace = order[t].workspace /\ order'[t].config = order[t].config
          /\ order'[t].sure = order[t].sure /\ \A u \in Orders \ {t} : order'[u] = order[u]
        BY <1>4, RecordMoves DEF OrderStates
    <2>2. CallsOK'
        BY <1>1, <1>2, <2>1, CallsStay
    <2>3. order[t].op = "enable" => desk'.approved
        <3>1. CASE OwnWorkspace(t)
            BY <3>1 DEF OwnWorkspace, IsAt, BackgroundInvariant, OrdersOK
        <3>2. CASE ApproveBackground(t)
            BY <1>1, <1>4, <3>2 DEF ApproveBackground, Desks
        <3> QED
            BY <3>1, <3>2
    <2> QED
        BY <1>1, <1>2, <2>1, <2>2, <2>3, CommandHolds DEF Certain
<1> QED
    BY <1>3, <1>4 DEF OwnWorkspace, ApproveBackground

LEMMA CallingHolds ==
    ASSUME ResourceInvariant, BackgroundInvariant, NEW t \in Orders, PostResource(t)
    PROVE  BackgroundInvariant'
<1> DEFINE c == CallFrom(t, order[t].op, order[t].workspace, order[t].config)
<1>1. /\ order[t].at = "calling" /\ UNCHANGED <<desk, answers, service>>
      /\ UNCHANGED <<frame, told>>
    BY DEF PostResource, IsAt
<1>2. answers[t] = Nil
    BY <1>1 DEF ResourceInvariant, AnswersAwaited
<1>3. CASE ~desk.alive
    <2>1. order'[t] = NoOrder /\ \A u \in Orders \ {t} : order'[u] = order[u]
        BY <1>3, OverMoves DEF PostResource
    <2>2. UNCHANGED pipe /\ ~Certain(t)'
        BY <1>3, <2>1 DEF PostResource, Certain, NoOrder
    <2>3. CallsOK'
        BY <1>1, <2>1, <2>2, CallsStay
    <2> QED
        BY <1>1, <2>1, <2>2, <2>3, CommandHolds
<1>4. CASE desk.alive
    <2>1. /\ order'[t].at = "called" /\ order'[t].op = order[t].op
          /\ order'[t].workspace = order[t].workspace /\ order'[t].config = order[t].config
          /\ order'[t].sure = order[t].sure /\ \A u \in Orders \ {t} : order'[u] = order[u]
        BY <1>4, RecordMoves DEF PostResource, OrderStates
    <2>2. c.from = t /\ c.config = order[t].config /\ c.from \notin {"gate", "window"}
        BY ResourceAssumption DEF CallFrom
    <2>3. pipe' = Append(pipe, c)
        BY <1>4 DEF PostResource, Write
    <2> HIDE DEF c
    <2>4. /\ Len(pipe) \in Nat /\ Len(pipe') = Len(pipe) + 1 /\ pipe'[Len(pipe) + 1] = c
          /\ \A i \in 1..Len(pipe) : pipe'[i] = pipe[i]
        BY <2>3 DEF ResourceInvariant, ResourceTypeOK
    <2>5. \A i \in 1..Len(pipe') : i \in 1..Len(pipe) \/ i = Len(pipe) + 1
        BY <2>4
    <2>6. \A i \in 1..Len(pipe) : pipe[i].from # t
        BY <1>1 DEF ResourceInvariant, Paired
    <2>7. CallsOK'
        <3> SUFFICES ASSUME NEW i \in 1..Len(pipe')
                     PROVE  /\ pipe'[i].from \in Orders
                                  => pipe'[i].config = order'[pipe'[i].from].config
                            /\ pipe'[i].from = "gate" =>
                                  /\ pipe'[i].op = GateOp /\ pipe'[i].config = desk.config
                                  /\ answers["gate"] = Nil
                            /\ pipe'[i].from = "window" =>
                                  /\ pipe'[i].op = "lifecycle" /\ frame.at = "counting"
                                  /\ answers["window"] = Nil
                            /\ \A j \in 1..Len(pipe') : pipe'[j].from = pipe'[i].from => j = i
            BY <1>1 DEF CallsOK, GateOp
        <3>1. CASE i \in 1..Len(pipe)
            BY <2>1, <2>2, <2>4, <2>5, <2>6, <3>1 DEF BackgroundInvariant, CallsOK
        <3>2. CASE i = Len(pipe) + 1
            BY <2>1, <2>2, <2>4, <2>5, <2>6, <3>2
        <3> QED
            BY <2>5, <3>1, <3>2
    <2>8. ~Certain(t)'
        BY <1>1, <1>2, ResourceAssumption DEF Certain
    <2>9. order[t].op = "enable" /\ order[t].config = desk.config => desk.approved
        BY <1>1 DEF BackgroundInvariant, OrdersOK
    <2> QED
        BY <1>1, <1>4, <2>1, <2>7, <2>8, <2>9, CommandHolds
<1> QED
    BY <1>3, <1>4

LEMMA TakingStays ==
    ASSUME ResourceInvariant, NEW t \in Orders, Taken(t)
    PROVE  /\ \A u \in Orders \ {t} : answers'[u] = answers[u]
           /\ answers'["gate"] = answers["gate"] /\ answers'["window"] = answers["window"]
BY ResourceAssumption DEF Taken, Callers, ResourceInvariant, ResourceTypeOK

LEMMA ReturningHolds ==
    ASSUME ResourceInvariant, BackgroundInvariant, NEW t \in Orders,
           ReturnResource(t) \/ AcknowledgeDeletion(t)
    PROVE  BackgroundInvariant'
<1>1. /\ order[t].at = "called" /\ answers[t] # Nil /\ Taken(t) /\ desk \in Desks
      /\ UNCHANGED <<pipe, service, frame>>
    BY DEF ReturnResource, AcknowledgeDeletion, IsAt, Replied, ResourceInvariant, ResourceTypeOK
<1>2. /\ desk'.config = desk.config /\ desk'.synced = desk.synced /\ desk'.gate = desk.gate
      /\ desk'.alive = desk.alive /\ desk'.ready = desk.ready
      /\ desk'.approved = desk.approved
    BY <1>1 DEF ReturnResource, AcknowledgeDeletion, Desks
<1>3. told \subseteq told' /\ \A w \in told' \ told : Certain(t) /\ w = order[t].workspace
    BY <1>1 DEF ReturnResource, AcknowledgeDeletion, Certain
<1>4. /\ \A u \in Orders \ {t} : answers'[u] = answers[u]
      /\ answers'["gate"] = answers["gate"] /\ answers'["window"] = answers["window"]
    BY <1>1, TakingStays
<1>5. CASE Over(t)
    <2>1. order'[t] = NoOrder /\ \A u \in Orders \ {t} : order'[u] = order[u]
        BY <1>5, OverMoves
    <2>2. CallsOK' /\ ~Certain(t)'
        BY <1>1, <1>2, <1>4, <2>1, CallsStay DEF Certain, NoOrder
    <2> QED
        BY <1>1, <1>2, <1>3, <1>4, <2>1, <2>2, CommandHolds
<1>6. CASE Goes(t, "erasing") /\ order[t].op = "delete"
    <2>1. /\ order'[t].at = "erasing" /\ order'[t].op = order[t].op
          /\ order'[t].workspace = order[t].workspace /\ order'[t].config = order[t].config
          /\ order'[t].sure = order[t].sure /\ \A u \in Orders \ {t} : order'[u] = order[u]
        BY <1>6, RecordMoves DEF OrderStates
    <2>2. CallsOK' /\ ~Certain(t)'
        BY <1>1, <1>2, <1>4, <2>1, CallsStay DEF Certain
    <2> QED
        BY <1>1, <1>2, <1>3, <1>4, <1>6, <2>1, <2>2, CommandHolds
<1> QED
    BY <1>5, <1>6 DEF ReturnResource, AcknowledgeDeletion

LEMMA ErasingHolds ==
    ASSUME ResourceInvariant, BackgroundInvariant, NEW t \in Orders,
           FindOwner(t) \/ EraseWorkspace(t)
    PROVE  BackgroundInvariant'
<1>1. /\ order[t].at \in {"finding", "erasing"} /\ desk \in Desks
      /\ UNCHANGED <<pipe, answers, service>> /\ UNCHANGED <<frame, told>>
    BY DEF FindOwner, EraseWorkspace, IsAt, ResourceInvariant, ResourceTypeOK
<1>2. /\ desk'.config = desk.config /\ desk'.synced = desk.synced /\ desk'.gate = desk.gate
      /\ desk'.alive = desk.alive /\ desk'.ready = desk.ready
      /\ desk'.approved = desk.approved
    BY <1>1 DEF FindOwner, EraseWorkspace, Desks
<1>3. order[t].op # "enable"
    BY <1>1 DEF BackgroundInvariant, OrdersOK
<1>4. CASE Over(t)
    <2>1. order'[t] = NoOrder /\ \A u \in Orders \ {t} : order'[u] = order[u]
        BY <1>4, OverMoves
    <2>2. CallsOK' /\ ~Certain(t)'
        BY <1>1, <1>2, <2>1, CallsStay DEF Certain, NoOrder
    <2> QED
        BY <1>1, <1>2, <2>1, <2>2, CommandHolds
<1>5. CASE /\ FindOwner(t)
           /\ \/ Goes(t, "erasing")
              \/ order' = [order EXCEPT ![t].at = "calling", ![t].config = desk.config]
    <2>1. /\ order'[t].at \in {"erasing", "calling"} /\ order'[t].op = order[t].op
          /\ order'[t].workspace = order[t].workspace
          /\ order'[t].config \in {order[t].config, desk.config}
          /\ order'[t].sure = order[t].sure /\ \A u \in Orders \ {t} : order'[u] = order[u]
        <3>1. CASE Goes(t, "erasing")
            BY <3>1, RecordMoves DEF OrderStates
        <3>2. CASE order' = [order EXCEPT ![t].at = "calling", ![t].config = desk.config]
            BY <3>2 DEF OrderRecords, ResourceInvariant, ResourceTypeOK
        <3> QED
            BY <1>5, <3>1, <3>2
    <2>2. CallsOK' /\ ~Certain(t)'
        BY <1>1, <1>2, <1>3, <2>1, CallsStay DEF Certain
    <2> QED
        BY <1>1, <1>2, <1>3, <2>1, <2>2, CommandHolds
<1> QED
    BY <1>4, <1>5 DEF FindOwner, EraseWorkspace

\* A command that begins makes those it may undo unsure, and what it takes away
\* is no longer counted on.
LEMMA BeginsHolds ==
    ASSUME ResourceInvariant, BackgroundInvariant, NEW t \in Orders, NEW w \in Spaces,
           NEW op \in Ops \cup {"delete"}, NEW at \in {"owning", "approving", "calling", "finding"},
           op = "enable" => at = "approving" /\ desk.ready, Begins(t, op, w, at)
    PROVE  BackgroundInvariant'
<1> USE DEF BackgroundInvariant
<1>1. /\ desk'.config = desk.config /\ desk'.synced = desk.synced /\ desk'.gate = desk.gate
      /\ desk'.alive = desk.alive /\ desk'.ready = desk.ready
      /\ desk'.approved = desk.approved /\ desk.config \in Nat
    BY DEF Begins, Desks, ResourceInvariant, ResourceTypeOK
<1>2. /\ order[t].at = "none" /\ UNCHANGED <<pipe, answers, service>>
      /\ order[t].op = "none"
    BY DEF Begins, IsAt, OrdersOK
<1>3. /\ order'[t] = [op |-> op, at |-> at, workspace |-> w, config |-> desk.config,
                      sure |-> w \notin TakenAway]
      /\ \A u \in Orders \ {t} : order'[u] = Unsure(order[u], op, w)
    BY DEF Begins
<1>4. \A u \in Orders \ {t} :
         /\ order'[u].at = order[u].at /\ order'[u].op = order[u].op
         /\ order'[u].workspace = order[u].workspace /\ order'[u].config = order[u].config
         /\ order'[u].sure =>
               order[u].sure /\ ~(op \in TakesAway /\ order[u].workspace = w)
    BY <1>3 DEF Unsure, OrderRecords, ResourceInvariant, ResourceTypeOK
<1>5. /\ order'[t].op = op /\ order'[t].at = at /\ order'[t].workspace = w
      /\ order'[t].config = desk.config
    BY <1>3
<1>6. order'[t].sure => Undisturbed(w)
    <2>1. order'[t].sure => w \notin TakenAway
        <3> DEFINE sure == w \notin TakenAway
        <3>1. order'[t] = [op |-> op, at |-> at, workspace |-> w, config |-> desk.config,
                           sure |-> sure] /\ sure \in BOOLEAN
            BY <1>3
        <3> HIDE DEF sure
        <3>2. order'[t].sure = sure
            BY <3>1
        <3> QED
            BY <3>2 DEF sure
    <2>2. \A u \in Orders : order[u].op \in TakesAway => order[u].workspace \in TakenAway
        BY DEF TakenAway
    <2> QED
        BY <2>1, <2>2 DEF Undisturbed
<1>7. \A x \in Spaces : Undisturbed(x) /\ ~(op \in TakesAway /\ x = w) => Undisturbed(x)'
    BY <1>4, <1>5 DEF Undisturbed
<1>8. OrdersOK'
    <2>1. ASSUME NEW u \in Orders, u # t
          PROVE  /\ order'[u].at = "none" => order'[u].op = "none"
                 /\ order'[u].at # "none" =>
                       /\ order'[u].workspace \in Spaces /\ order'[u].op \in Ops \cup {"delete"}
                       /\ order'[u].config <= desk'.config
                       /\ order'[u].at \in {"owning", "finding", "erasing"}
                             => order'[u].op # "enable"
                       /\ order'[u].op = "enable" /\ order'[u].config = desk'.config =>
                             /\ desk'.synced = desk'.config
                             /\ order'[u].at \in {"calling", "called"} => desk'.approved
        BY <1>1, <1>4, <2>1 DEF OrdersOK
    <2>2. /\ order'[t].at # "none" /\ order'[t].workspace \in Spaces
          /\ order'[t].op \in Ops \cup {"delete"} /\ order'[t].config <= desk'.config
          /\ order'[t].op = "enable" => /\ order'[t].at = "approving"
                                        /\ desk'.synced = desk'.config
        BY <1>1, <1>5 DEF AuthorityOK
    <2>3. ASSUME NEW u \in Orders, u # t, order'[u].at # "none", order'[u].op = "enable",
                 order'[u].sure
          PROVE  Undisturbed(order[u].workspace)'
        <3>1. order[u].workspace \in Spaces /\ Undisturbed(order[u].workspace)
            BY <1>4, <2>3 DEF OrdersOK
        <3> QED
            BY <1>4, <1>7, <2>3, <3>1
    <2>4. ASSUME op = "enable", order'[t].sure
          PROVE  Undisturbed(order[t].workspace)'
        BY <1>5, <1>6, <1>7, <2>4 DEF TakesAway
    <2> QED
        BY <1>5, <2>1, <2>2, <2>3, <2>4 DEF OrdersOK
<1>9. \A u \in Orders : Certain(u)' => Certain(u) /\ order'[u].workspace = order[u].workspace
    BY <1>1, <1>2, <1>4, <1>5 DEF Certain
<1>10. CertainEnabled'
    BY <1>2, <1>9 DEF CertainEnabled, Enabled
<1>11. /\ told' \subseteq told /\ (op \in TakesAway => w \notin told')
       /\ frame'.at = frame.at /\ frame'.approved = frame.approved
       /\ frame'.counted \subseteq frame.counted /\ (frame.counted \subseteq told
                                                     => frame'.counted \subseteq told')
    BY DEF Begins, Forgets, Frames, ResourceInvariant, ResourceTypeOK
<1>12. ToldOK'
    BY <1>1, <1>2, <1>7, <1>11 DEF ToldOK, Enabled
<1>13. ConsentOK' /\ GateAnswers'
    BY <1>1, <1>2 DEF ConsentOK, GateAnswers, Enabled
<1>14. CallsOK'
    <2>1. \A i \in 1..Len(pipe) : pipe[i].from # t
        BY <1>2 DEF ResourceInvariant, Paired
    <2> QED
        BY <1>1, <1>2, <1>4, <1>11, <2>1 DEF CallsOK, GateOp
<1>15. AuthorityOK'
    BY <1>1, <1>2, <1>9, <1>11 DEF AuthorityOK
<1>16. WindowOK'
    BY <1>1, <1>2, <1>11 DEF WindowOK
<1> QED
    BY <1>8, <1>10, <1>12, <1>13, <1>14, <1>15, <1>16

LEMMA BeginningHolds ==
    ASSUME ResourceInvariant, BackgroundInvariant, NEW t \in Orders, NEW w \in Spaces,
           BeginErase(t, w) \/ \E op \in Ops : BeginResource(t, op, w)
    PROVE  BackgroundInvariant'
<1>1. CASE BeginErase(t, w)
    BY <1>1, BeginsHolds DEF BeginErase
<1>2. ASSUME NEW op \in Ops, BeginResource(t, op, w)
      PROVE  BackgroundInvariant'
    <2>1. PICK at \in {"owning", "approving", "calling", "finding"} :
              Begins(t, op, w, at) /\ (op = "enable" => at = "approving" /\ desk.ready)
        BY <1>2 DEF BeginResource
    <2> QED
        BY <2>1, BeginsHolds
<1> QED
    BY <1>1, <1>2

-----------------------------------------------------------------------------
(* The gate, the window and the schedules *)

\* A step beside the commands; at most it completes a synchronization or takes
\* answers away.
LEMMA SteadyHolds ==
    ASSUME BackgroundInvariant, UNCHANGED <<order, service, told>>,
           desk'.config = desk.config, desk'.approved = desk.approved,
           desk'.synced \in {desk.synced, desk.config},
           \A t \in Orders : answers'[t] \in {answers[t], Nil}
    PROVE  /\ OrdersOK' /\ CertainEnabled' /\ ToldOK' /\ ConsentOK'
           /\ \A t \in Orders : Certain(t)' => Certain(t)
<1> USE DEF BackgroundInvariant
<1>1. ASSUME NEW t \in Orders, Certain(t)'
      PROVE  Certain(t)
    BY <1>1, ResourceAssumption DEF Certain
<1>2. \A w \in Spaces : Undisturbed(w) <=> Undisturbed(w)'
    BY DEF Undisturbed
<1>3. OrdersOK'
    BY <1>2 DEF OrdersOK, Undisturbed
<1>4. CertainEnabled'
    BY <1>1 DEF CertainEnabled, Enabled
<1>5. ToldOK'
    BY <1>2 DEF ToldOK, Enabled
<1>6. ConsentOK'
    BY DEF ConsentOK, Enabled
<1> QED
    BY <1>1, <1>3, <1>4, <1>5, <1>6

\* The gate calls where it had no call.
LEMMA GateCallFits ==
    ASSUME ResourceInvariant, BackgroundInvariant, NEW c \in Calls, Write(c), c.from = "gate",
           \A i \in 1..Len(pipe) : pipe[i].from # "gate", UNCHANGED <<order, frame>>,
           desk'.config = desk.config, c.op = GateOp', c.config = desk.config,
           answers'["gate"] = Nil, answers'["window"] = answers["window"]
    PROVE  CallsOK'
<1>1. /\ pipe \in Seq(Calls) /\ pipe' \in Seq(Calls) /\ Len(pipe') = Len(pipe) + 1
      /\ pipe'[Len(pipe) + 1] = c
      /\ \A i \in 1..Len(pipe) : pipe'[i] = pipe[i]
    BY DEF Write, ResourceInvariant, ResourceTypeOK
<1>2. \A i \in 1..Len(pipe') : i = Len(pipe) + 1 \/ i \in 1..Len(pipe)
    BY <1>1
<1>3. "gate" \notin Orders
    BY ResourceAssumption
<1>4. CallsOK
    BY DEF BackgroundInvariant
<1> SUFFICES ASSUME NEW i \in 1..Len(pipe')
             PROVE  /\ pipe'[i].from \in Orders => pipe'[i].config = order'[pipe'[i].from].config
                    /\ pipe'[i].from = "gate" =>
                          /\ pipe'[i].op = GateOp' /\ pipe'[i].config = desk'.config
                          /\ answers'["gate"] = Nil
                    /\ pipe'[i].from = "window" =>
                          /\ pipe'[i].op = "lifecycle" /\ frame'.at = "counting"
                          /\ answers'["window"] = Nil
                    /\ \A j \in 1..Len(pipe') : pipe'[j].from = pipe'[i].from => j = i
    BY DEF CallsOK
<1>5. CASE i = Len(pipe) + 1
    BY <1>1, <1>2, <1>3, <1>5
<1>6. CASE i \in 1..Len(pipe)
    <2>1. pipe'[i] = pipe[i] /\ pipe[i].from # "gate"
        BY <1>1, <1>6
    <2>2. /\ pipe[i].from \in Orders => pipe[i].config = order[pipe[i].from].config
          /\ pipe[i].from = "window" => /\ pipe[i].op = "lifecycle" /\ frame.at = "counting"
                                        /\ answers["window"] = Nil
          /\ \A j \in 1..Len(pipe) : pipe[j].from = pipe[i].from => j = i
        BY <1>4, <1>6 DEF CallsOK
    <2> QED
        BY <1>1, <1>2, <2>1, <2>2
<1> QED
    BY <1>2, <1>5, <1>6

\* A gate that has its answer, or that waits for none, has no call in the pipe.
LEMMA GateIdle ==
    ASSUME ResourceInvariant, BackgroundInvariant,
           answers["gate"] # Nil \/ desk.gate \in {"free", "clearing"}
    PROVE  \A i \in 1..Len(pipe) : pipe[i].from # "gate"
<1> SUFFICES ASSUME NEW i \in 1..Len(pipe), pipe[i].from = "gate" PROVE FALSE
    OBVIOUS
<1>1. pipe[i].op # "none"
    <2>1. pipe[i] \in Calls
        BY DEF ResourceInvariant, ResourceTypeOK
    <2> QED
        BY <2>1 DEF Calls
<1>2. pipe[i].op = GateOp /\ answers["gate"] = Nil
    BY DEF BackgroundInvariant, CallsOK
<1>3. desk.gate \in {"free", "clearing"} => GateOp = "none"
    BY DEF GateOp
<1> QED
    BY <1>1, <1>2, <1>3

\* The calls stay as they are while the gate has none.
LEMMA GateRests ==
    ASSUME BackgroundInvariant, \A i \in 1..Len(pipe) : pipe[i].from # "gate",
           UNCHANGED <<order, pipe>>, answers'["window"] = answers["window"],
           frame'.at = frame.at
    PROVE  CallsOK'
BY DEF BackgroundInvariant, CallsOK

LEMMA ProviderHolds ==
    ASSUME ResourceInvariant, BackgroundInvariant, ChangeProvider
    PROVE  BackgroundInvariant'
<1> USE DEF BackgroundInvariant
<1>1. /\ desk.gate = "free" /\ desk \in Desks /\ frame \in Frames
      /\ told' = {} /\ UNCHANGED <<order, pipe>> /\ UNCHANGED <<answers, service>>
    BY DEF ChangeProvider, Gate, ResourceInvariant, ResourceTypeOK
<1>2. /\ desk.config \in Nat /\ desk'.config = desk.config + 1 /\ desk'.synced = 0
      /\ ~desk'.approved /\ ~desk'.ready /\ desk'.gate = "clearing" /\ desk'.alive = desk.alive
      /\ frame'.at = frame.at /\ frame'.approved = frame.approved /\ frame'.counted = {}
    BY <1>1 DEF ChangeProvider, Desks, Frames
<1>3. \A t \in Orders : order[t] \in OrderRecords /\ (order[t].at # "none"
                                                       => order[t].config <= desk.config)
    BY DEF OrdersOK, ResourceInvariant, ResourceTypeOK
<1>4. \A t \in Orders : order[t].at # "none"
                        => order[t].config <= desk'.config /\ order[t].config # desk'.config
    BY <1>2, <1>3 DEF OrderRecords
<1>5. \A w \in Spaces : Undisturbed(w) => Undisturbed(w)'
    BY <1>1 DEF Undisturbed
<1>6. OrdersOK'
    BY <1>1, <1>4, <1>5 DEF OrdersOK
<1>7. CertainEnabled' /\ ToldOK'
    BY <1>1, <1>4 DEF CertainEnabled, Certain, ToldOK
<1>8. ConsentOK'
    <2>1. \A w \in Spaces : service.consent[w] \in Nat /\ service.consent[w] <= desk.config
        BY DEF ConsentOK, Services, ResourceInvariant, ResourceTypeOK
    <2>2. \A w \in Spaces : /\ service.consent[w] <= desk'.config
                            /\ service.consent[w] # desk'.config
        BY <1>2, <2>1
    <2> QED
        BY <1>1, <2>2 DEF ConsentOK
<1>9. CallsOK'
    <2>1. \A i \in 1..Len(pipe) : pipe[i].from # "gate"
        BY <1>1, GateIdle
    <2> QED
        BY <1>1, <1>2, <2>1, GateRests
<1>10. AuthorityOK' /\ GateAnswers' /\ WindowOK'
    BY <1>1, <1>2, ResourceAssumption DEF AuthorityOK, GateAnswers, WindowOK
<1> QED
    BY <1>6, <1>7, <1>8, <1>9, <1>10

\* The gate asks, or finds no runtime to ask.
LEMMA AskingHolds ==
    ASSUME ResourceInvariant, BackgroundInvariant, SyncNew \/ ClearOld \/ StartRuntime
    PROVE  BackgroundInvariant'
<1> USE DEF BackgroundInvariant
<1>1. /\ desk \in Desks /\ frame \in Frames /\ "gate" \in Callers /\ Nil \in Places
      /\ UNCHANGED <<order, answers, service, frame, told>>
    BY DEF SyncNew, ClearOld, StartRuntime, ResourceInvariant, ResourceTypeOK, Callers, Places
<1>2. /\ desk.gate \in {"free", "clearing"} /\ answers["gate"] = Nil
      /\ \A i \in 1..Len(pipe) : pipe[i].from # "gate"
    BY GateIdle DEF SyncNew, ClearOld, StartRuntime, Gate, GateAnswers
<1>3. /\ desk'.config = desk.config /\ desk'.synced = desk.synced
      /\ desk'.approved = desk.approved
    BY <1>1 DEF SyncNew, ClearOld, StartRuntime, GateCalls, Desks
<1>4. /\ OrdersOK' /\ CertainEnabled' /\ ToldOK' /\ ConsentOK'
      /\ \A t \in Orders : Certain(t)' => Certain(t)
    BY <1>1, <1>3, SteadyHolds
<1>5. ASSUME NEW op \in {"clear", "configure", "lifecycle"}, NEW at, desk'.gate = at,
             Write(CallFrom("gate", op, Nil, desk.config)),
             op = CASE at = "cleared" -> "clear" [] at = "configured" -> "configure"
                    [] at = "counted" -> "lifecycle" [] OTHER -> "none"
      PROVE  CallsOK'
    <2> DEFINE c == CallFrom("gate", op, Nil, desk.config)
    <2>1. /\ c \in Calls /\ c.from = "gate" /\ c.op = op /\ c.config = desk.config
        BY <1>1 DEF CallFrom, Calls, OpNames, Desks
    <2>2. op = GateOp'
        BY <1>5 DEF GateOp
    <2> HIDE DEF c
    <2>3. Write(c)
        BY <1>5 DEF c
    <2> QED
        BY <1>1, <1>2, <1>3, <2>1, <2>2, <2>3, GateCallFits
<1>6. CASE SyncNew
    <2>1. /\ desk'.gate = "configured" /\ desk'.alive = desk.alive /\ desk'.ready = desk.ready
          /\ Write(CallFrom("gate", "configure", Nil, desk.config))
          /\ desk.alive /\ desk.gate = "free" /\ service.authority # desk.config
        BY <1>1, <1>6 DEF SyncNew, GateCalls, Gate, Desks
    <2>2. CallsOK'
        BY <1>5, <2>1
    <2>3. AuthorityOK' /\ GateAnswers' /\ WindowOK'
        BY <1>1, <1>2, <1>3, <2>1, ResourceAssumption DEF AuthorityOK, GateAnswers, WindowOK
    <2> QED
        BY <1>4, <2>2, <2>3
<1>7. CASE ClearOld /\ desk.alive
    <2>1. /\ desk'.gate = "cleared" /\ desk'.alive = desk.alive /\ desk'.ready = desk.ready
          /\ Write(CallFrom("gate", "clear", Nil, desk.config)) /\ desk.gate = "clearing"
        BY <1>1, <1>7 DEF ClearOld, GateCalls, Gate, Desks
    <2>2. CallsOK'
        BY <1>5, <2>1
    <2>3. AuthorityOK' /\ GateAnswers' /\ WindowOK'
        BY <1>1, <1>2, <1>3, <1>7, <2>1, ResourceAssumption
           DEF AuthorityOK, GateAnswers, WindowOK
    <2> QED
        BY <1>4, <2>2, <2>3
<1>8. CASE ClearOld /\ ~desk.alive
    <2>1. /\ desk'.gate = "free" /\ desk'.alive = desk.alive /\ desk'.ready = desk.ready
          /\ UNCHANGED pipe
        BY <1>1, <1>8 DEF ClearOld, Desks
    <2>2. CallsOK'
        BY <1>1, <1>2, <2>1, GateRests
    <2>3. AuthorityOK' /\ GateAnswers' /\ WindowOK'
        BY <1>1, <1>2, <1>3, <1>8, <2>1, ResourceAssumption
           DEF AuthorityOK, GateAnswers, WindowOK
    <2> QED
        BY <1>4, <2>2, <2>3
<1>9. CASE StartRuntime
    <2>1. /\ ~desk.alive /\ desk.gate = "free" /\ frame.at # "shut"
          /\ pipe = <<>> /\ service.authority = Nil
          /\ desk'.alive /\ ~desk'.ready
        BY <1>1, <1>9 DEF StartRuntime, GateCalls, Gate, Desks, AuthorityOK
    <2>2. CASE desk.approved /\ desk.synced = desk.config
        <3>1. /\ desk'.gate = "counted"
              /\ Write(CallFrom("gate", "lifecycle", Nil, desk.config))
            BY <1>1, <1>9, <2>2 DEF StartRuntime, GateCalls, Desks
        <3>2. CallsOK'
            BY <1>5, <3>1
        <3>3. AuthorityOK' /\ GateAnswers' /\ WindowOK'
            BY <1>1, <1>2, <1>3, <2>1, <3>1, ResourceAssumption
               DEF AuthorityOK, GateAnswers, WindowOK
        <3> QED
            BY <1>4, <3>2, <3>3
    <2>3. CASE ~(desk.approved /\ desk.synced = desk.config)
        <3>1. desk'.gate = "free" /\ UNCHANGED pipe
            BY <1>1, <1>9, <2>1, <2>3 DEF StartRuntime, Desks
        <3>2. CallsOK'
            BY <1>1, <1>2, <3>1, GateRests
        <3>3. told = {} /\ \A t \in Orders : ~Certain(t)
            BY <2>3 DEF ToldOK, OrdersOK, Certain
        <3>4. AuthorityOK' /\ GateAnswers' /\ WindowOK'
            BY <1>1, <1>2, <1>3, <1>4, <2>1, <3>1, <3>3, ResourceAssumption
               DEF AuthorityOK, GateAnswers, WindowOK
        <3> QED
            BY <1>4, <3>2, <3>4
    <2> QED
        BY <2>2, <2>3
<1> QED
    BY <1>6, <1>7, <1>8, <1>9

\* The gate has its answer.
LEMMA AnsweredHolds ==
    ASSUME ResourceInvariant, BackgroundInvariant, GateAnswered
    PROVE  BackgroundInvariant'
<1> USE DEF BackgroundInvariant
<1>1. /\ desk \in Desks /\ frame \in Frames /\ "gate" \in Callers /\ Nil \in Places
      /\ answers \in [Callers -> AnswerKinds \cup {Nil}]
      /\ UNCHANGED <<order, service, frame, told>>
    BY DEF GateAnswered, ResourceInvariant, ResourceTypeOK, Callers, Places
<1>2. /\ answers["gate"] \in {"ok", "refused", "lost"} /\ answers'["gate"] = Nil
      /\ \A who \in Callers \ {"gate"} : answers'[who] = answers[who]
    BY <1>1 DEF GateAnswered, Replied, Taken, AnswerKinds
<1>3. /\ \A t \in Orders : answers'[t] = answers[t]
      /\ answers'["window"] = answers["window"]
    BY <1>2, ResourceAssumption DEF Callers
<1>4. desk.gate \notin {"free", "clearing"} /\ \A i \in 1..Len(pipe) : pipe[i].from # "gate"
    BY <1>2, GateIdle, ResourceAssumption DEF GateAnswers
<1>5. /\ desk'.config = desk.config /\ desk'.approved = desk.approved
      /\ desk'.alive = desk.alive /\ desk'.synced \in {desk.synced, desk.config}
    BY <1>1 DEF GateAnswered, GateCalls, Desks
<1>6. /\ OrdersOK' /\ CertainEnabled' /\ ToldOK' /\ ConsentOK'
      /\ \A t \in Orders : Certain(t)' => Certain(t)
    BY <1>1, <1>3, <1>5, SteadyHolds
<1>7. WindowOK'
    BY <1>1, <1>3, <1>5 DEF WindowOK
<1>8. CASE desk.gate = "counted" /\ answers["gate"] = "ok" /\ desk.alive
    <2> DEFINE c == CallFrom("gate", "configure", Nil, desk.config)
    <2>1. /\ desk' = [desk EXCEPT !.gate = "configured"] /\ Write(c)
        BY <1>8 DEF GateAnswered, GateCalls, Gate
    <2>2. /\ desk'.gate = "configured" /\ desk'.synced = desk.synced /\ desk'.ready = desk.ready
        BY <1>1, <2>1 DEF Desks
    <2>3. c \in Calls /\ c.from = "gate" /\ c.op = "configure" /\ c.config = desk.config
        BY <1>1 DEF CallFrom, Calls, OpNames, Desks
    <2>4. GateOp' = "configure"
        BY <2>2 DEF GateOp
    <2> HIDE DEF c
    <2>5. CallsOK'
        BY <1>1, <1>2, <1>3, <1>4, <1>5, <2>1, <2>3, <2>4, GateCallFits
    <2>6. AuthorityOK' /\ GateAnswers'
        BY <1>1, <1>2, <1>5, <1>8, <2>2, ResourceAssumption DEF AuthorityOK, GateAnswers
    <2> QED
        BY <1>6, <1>7, <2>5, <2>6
<1>9. CASE desk.gate = "configured" /\ answers["gate"] = "ok"
    <2>1. /\ desk' = [desk EXCEPT !.gate = "free", !.ready = TRUE, !.synced = desk.config]
          /\ UNCHANGED pipe
        BY <1>9 DEF GateAnswered, Gate
    <2>2. desk'.gate = "free" /\ desk'.synced = desk.config
        BY <1>1, <2>1 DEF Desks
    <2>3. CallsOK'
        BY <1>1, <1>3, <1>4, <2>1, GateRests
    <2>4. AuthorityOK'
        BY <1>1, <1>5, <1>9, <2>1, <2>2 DEF AuthorityOK, GateAnswers
    <2>5. GateAnswers'
        BY <1>2, <2>2, ResourceAssumption DEF GateAnswers
    <2> QED
        BY <1>6, <1>7, <2>3, <2>4, <2>5
<1>10. CASE /\ ~(desk.gate = "counted" /\ answers["gate"] = "ok" /\ desk.alive)
            /\ ~(desk.gate = "configured" /\ answers["gate"] = "ok")
    <2>1. desk' = [desk EXCEPT !.gate = "free"] /\ UNCHANGED pipe
        BY <1>10 DEF GateAnswered, Gate
    <2>2. desk'.gate = "free" /\ desk'.synced = desk.synced /\ desk'.ready = desk.ready
        BY <1>1, <2>1 DEF Desks
    <2>3. CallsOK'
        BY <1>1, <1>3, <1>4, <2>1, GateRests
    <2>4. ASSUME desk.alive, service.authority # desk.config
          PROVE  service.authority = Nil /\ told = {} /\ \A t \in Orders : ~Certain(t)
        <3>1. \/ desk.gate = "cleared" /\ answers["gate"] = "ok"
              \/ desk.gate = "counted" /\ answers["gate"] = "refused"
            BY <1>1, <1>2, <1>4, <1>10, <2>4 DEF GateAnswers, Desks, GateStates
        <3>2. CASE desk.gate = "cleared" /\ answers["gate"] = "ok"
            <4>1. service.authority = Nil /\ desk.synced # desk.config
                BY <3>2 DEF GateAnswers, AuthorityOK
            <4> QED
                BY <4>1 DEF ToldOK, OrdersOK, Certain
        <3>3. CASE desk.gate = "counted" /\ answers["gate"] = "refused"
            <4>1. service.authority = Nil /\ \A w \in Spaces : ~Enabled(w)
                BY <3>3 DEF GateAnswers, AuthorityOK
            <4>2. \A t \in Orders : Certain(t) => order[t].workspace \in Spaces
                BY DEF OrdersOK, Certain
            <4> QED
                BY <4>1, <4>2 DEF ToldOK, CertainEnabled
        <3> QED
            BY <3>1, <3>2, <3>3
    <2>5. AuthorityOK'
        BY <1>1, <1>5, <1>6, <2>1, <2>2, <2>4 DEF AuthorityOK
    <2>6. GateAnswers'
        BY <1>2, <2>2, ResourceAssumption DEF GateAnswers
    <2> QED
        BY <1>6, <1>7, <2>3, <2>5, <2>6
<1> QED
    BY <1>8, <1>9, <1>10

\* The window closes, counts and shows itself again.
LEMMA FrameHolds ==
    ASSUME ResourceInvariant, BackgroundInvariant,
           CloseFrame \/ CountSchedules \/ Counted \/ ShowFrame
    PROVE  BackgroundInvariant'
<1> USE DEF BackgroundInvariant
<1>1. /\ desk \in Desks /\ frame \in Frames /\ "window" \in Callers /\ Nil \in Places
      /\ answers \in [Callers -> AnswerKinds \cup {Nil}]
      /\ UNCHANGED <<desk, order, service, told>>
    BY DEF CloseFrame, CountSchedules, Counted, ShowFrame, ResourceInvariant, ResourceTypeOK,
       Callers, Places
<1>2. \A who \in Callers \ {"window"} : answers'[who] = answers[who]
    BY <1>1 DEF CloseFrame, CountSchedules, Counted, ShowFrame, Taken
<1>3. (\A t \in Orders : answers'[t] = answers[t]) /\ answers'["gate"] = answers["gate"]
    BY <1>2, ResourceAssumption DEF Callers
<1>4. /\ OrdersOK' /\ CertainEnabled' /\ ToldOK' /\ ConsentOK'
      /\ \A t \in Orders : Certain(t)' => Certain(t)
    BY <1>1, <1>3, SteadyHolds
<1>5. ASSUME desk.alive \/ UNCHANGED pipe
      PROVE  AuthorityOK'
    BY <1>1, <1>4, <1>5 DEF AuthorityOK
<1>6. GateAnswers'
    BY <1>1, <1>3 DEF GateAnswers, Enabled
<1>7. ASSUME frame.at # "counting" \/ answers["window"] # Nil
      PROVE  \A i \in 1..Len(pipe) : pipe[i].from # "window"
    BY <1>7 DEF CallsOK
<1>8. ASSUME \A i \in 1..Len(pipe) : pipe[i].from # "window", UNCHANGED pipe
      PROVE  CallsOK'
    BY <1>1, <1>3, <1>8 DEF CallsOK, GateOp
<1>9. CASE CloseFrame
    <2>1. /\ frame.at = "open" /\ frame'.at = "closing" /\ frame'.counted = told
          /\ frame'.approved = frame.approved /\ UNCHANGED <<pipe, answers>>
        BY <1>1, <1>9 DEF CloseFrame, Frame, Frames
    <2>2. CallsOK'
        BY <1>7, <1>8, <2>1
    <2>3. WindowOK'
        BY <1>1, <2>1 DEF WindowOK
    <2> QED
        BY <1>4, <1>5, <1>6, <2>1, <2>2, <2>3
<1>10. CASE CountSchedules
    <2>1. /\ frame.at = "closing" /\ frame'.at = "counting" /\ frame'.approved = desk.approved
          /\ frame'.counted = frame.counted
        BY <1>1, <1>10 DEF CountSchedules, Frame, Frames
    <2>2. answers["window"] = Nil /\ (~desk.approved => frame.counted = {})
        BY <2>1 DEF WindowOK, ToldOK
    <2>3. CASE desk.alive
        <3> DEFINE c == CallFrom("window", "lifecycle", Nil, 0)
        <3>1. Write(c) /\ UNCHANGED answers
            BY <1>10, <2>3 DEF CountSchedules
        <3>2. c \in Calls /\ c.from = "window" /\ c.op = "lifecycle"
            BY <1>1 DEF CallFrom, Calls, OpNames
        <3> HIDE DEF c
        <3>3. /\ pipe \in Seq(Calls) /\ Len(pipe') = Len(pipe) + 1
              /\ pipe'[Len(pipe) + 1] = c /\ \A i \in 1..Len(pipe) : pipe'[i] = pipe[i]
            BY <3>1, <3>2 DEF Write, ResourceInvariant, ResourceTypeOK
        <3>4. \A i \in 1..Len(pipe') : i = Len(pipe) + 1 \/ i \in 1..Len(pipe)
            BY <3>3
        <3>5. \A i \in 1..Len(pipe) :
                 /\ pipe[i].from # "window"
                 /\ pipe[i].from \in Orders => pipe[i].config = order[pipe[i].from].config
                 /\ pipe[i].from = "gate" => /\ pipe[i].op = GateOp /\ pipe[i].config = desk.config
                                             /\ answers["gate"] = Nil
                 /\ \A j \in 1..Len(pipe) : pipe[j].from = pipe[i].from => j = i
            BY <1>7, <2>1 DEF CallsOK
        <3>6. "window" \notin Orders /\ "window" # "gate"
            BY ResourceAssumption
        <3>7. CallsOK'
            <4> SUFFICES ASSUME NEW i \in 1..Len(pipe')
                         PROVE  /\ pipe'[i].from \in Orders
                                      => pipe'[i].config = order'[pipe'[i].from].config
                                /\ pipe'[i].from = "gate" =>
                                      /\ pipe'[i].op = GateOp' /\ pipe'[i].config = desk'.config
                                      /\ answers'["gate"] = Nil
                                /\ pipe'[i].from = "window" =>
                                      /\ pipe'[i].op = "lifecycle" /\ frame'.at = "counting"
                                      /\ answers'["window"] = Nil
                                /\ \A j \in 1..Len(pipe') : pipe'[j].from = pipe'[i].from => j = i
                BY DEF CallsOK
            <4>1. GateOp' = GateOp
                BY <1>1 DEF GateOp
            <4>2. CASE i = Len(pipe) + 1
                BY <2>1, <2>2, <3>1, <3>2, <3>3, <3>4, <3>5, <3>6, <4>2
            <4>3. CASE i \in 1..Len(pipe)
                BY <1>1, <3>1, <3>2, <3>3, <3>4, <3>5, <4>1, <4>3
            <4> QED
                BY <3>4, <4>2, <4>3
        <3>8. WindowOK'
            BY <1>1, <2>1, <2>2, <2>3, <3>1, ResourceAssumption DEF WindowOK
        <3> QED
            BY <1>4, <1>5, <1>6, <2>3, <3>7, <3>8
    <2>4. CASE ~desk.alive
        <3>1. answers'["window"] = "lost" /\ UNCHANGED pipe
            BY <1>1, <1>10, <2>4 DEF CountSchedules
        <3>2. CallsOK'
            BY <1>7, <1>8, <2>1, <3>1
        <3>3. WindowOK'
            BY <1>1, <2>1, <2>2, <2>4, <3>1 DEF WindowOK
        <3> QED
            BY <1>4, <1>5, <1>6, <3>1, <3>2, <3>3
    <2> QED
        BY <2>3, <2>4
<1>11. CASE Counted
    <2>1. /\ frame.at = "counting" /\ answers["window"] # Nil /\ answers'["window"] = Nil
          /\ frame'.at \in {"hidden", "open", "stopping"} /\ frame'.counted = frame.counted
          /\ UNCHANGED pipe
          /\ frame'.at = "stopping" => answers["window"] = "refused" \/ ~frame.approved
        BY <1>1, <1>11 DEF Counted, Frame, Replied, Taken, Frames
    <2>2. CallsOK'
        BY <1>7, <1>8, <2>1
    <2>3. WindowOK'
        BY <1>1, <2>1 DEF WindowOK
    <2> QED
        BY <1>4, <1>5, <1>6, <2>1, <2>2, <2>3
<1>12. CASE ShowFrame
    <2>1. /\ frame.at = "hidden" /\ frame'.at = "open" /\ frame'.counted = frame.counted
          /\ frame'.approved = frame.approved /\ UNCHANGED <<pipe, answers>>
        BY <1>1, <1>12 DEF ShowFrame, Frame, Frames
    <2>2. CallsOK'
        BY <1>7, <1>8, <2>1
    <2>3. WindowOK'
        BY <1>1, <2>1 DEF WindowOK
    <2> QED
        BY <1>4, <1>5, <1>6, <2>1, <2>2, <2>3
<1> QED
    BY <1>9, <1>10, <1>11, <1>12

\* A closed app left neither commands nor calls.
LEMMA OpenAgainHolds ==
    ASSUME ResourceInvariant, BackgroundInvariant, OpenAgain
    PROVE  BackgroundInvariant'
<1> USE DEF BackgroundInvariant
<1>1. /\ desk \in Desks /\ frame \in Frames /\ frame.at = "shut"
      /\ answers' = [who \in Callers |-> Nil]
      /\ UNCHANGED <<order, pipe>> /\ UNCHANGED <<service, told>>
    BY DEF OpenAgain, Frame, ResourceInvariant, ResourceTypeOK
<1>2. /\ desk'.config = desk.config /\ desk'.approved = desk.approved /\ desk'.gate = "free"
      /\ desk'.alive = desk.alive /\ desk'.ready = desk.ready /\ desk'.synced = desk.synced
      /\ frame'.at = "open" /\ frame'.counted = {}
    BY <1>1 DEF OpenAgain, Desks, Frames
<1>3. /\ \A who \in Callers : answers'[who] = Nil
      /\ Orders \subseteq Callers /\ "gate" \in Callers /\ "window" \in Callers
    BY <1>1 DEF Callers
<1>4. ~desk.alive /\ pipe = <<>> /\ Len(pipe) = 0
    BY <1>1 DEF WindowOK, AuthorityOK
<1>5. OrdersOK' /\ CertainEnabled' /\ ToldOK' /\ ConsentOK'
    BY <1>1, <1>2, <1>3, SteadyHolds
<1>6. CallsOK'
    BY <1>1, <1>4 DEF CallsOK
<1>7. AuthorityOK' /\ GateAnswers' /\ WindowOK'
    BY <1>1, <1>2, <1>3, <1>4, ResourceAssumption DEF AuthorityOK, GateAnswers, WindowOK
<1> QED
    BY <1>5, <1>6, <1>7

LEMMA BackgroundKeeps ==
    ASSUME ResourceInvariant, BackgroundInvariant, [ResourceNext]_resourceVars
    PROVE  BackgroundInvariant'
<1>1. CASE UNCHANGED resourceVars
    <2>1. UNCHANGED <<desk, order, pipe, answers>> /\ UNCHANGED <<service, frame, told>>
        BY <1>1 DEF resourceVars
    <2>2. OrdersOK' /\ CertainEnabled' /\ ToldOK' /\ ConsentOK'
          /\ \A t \in Orders : Certain(t)' => Certain(t)
        BY <2>1, SteadyHolds
    <2>3. CallsOK' /\ AuthorityOK'
        BY <2>1, <2>2 DEF BackgroundInvariant, CallsOK, GateOp, AuthorityOK
    <2>4. GateAnswers' /\ WindowOK'
        BY <2>1 DEF BackgroundInvariant, GateAnswers, WindowOK, Enabled
    <2> QED
        BY <2>2, <2>3, <2>4 DEF BackgroundInvariant
<1>2. ASSUME NEW t \in Orders, OrderSteps(t)
      PROVE  BackgroundInvariant'
    BY <1>2, PreparingHolds, CallingHolds, ReturningHolds, ErasingHolds DEF OrderSteps
<1>3. CASE ResourceNext
    BY <1>2, <1>3, BeginningHolds, ServeHeadHolds, BreakingHolds, ProviderHolds, AskingHolds,
       AnsweredHolds, FrameHolds, OpenAgainHolds
       DEF ResourceNext, FrameSteps, GateSteps
<1> QED
    BY <1>1, <1>3

\* A schedule the operator knows to be enabled keeps its approval and the model's
\* authority (managed.rs:181), is approved before it is enabled (resources.rs:448),
\* and is not stopped by the closing of the window (lib.rs:288), whatever commands,
\* losses of the pipe and changes of the provider come between.
THEOREM BackgroundStays == ResourceSpec => []BackgroundHeld
<1>1. ResourceInit => ResourceInvariant /\ BackgroundInvariant
    BY ResourcesStart, BackgroundStarts
<1>2. ResourceInvariant /\ BackgroundInvariant /\ [ResourceNext]_resourceVars
         => ResourceInvariant' /\ BackgroundInvariant'
    BY ResourceKeeps, BackgroundKeeps
<1> QED
    BY <1>1, <1>2, BackgroundSuffices, PTL DEF ResourceSpec
=============================================================================
