------------------------- MODULE RunReconciliation -------------------------
(***************************************************************************)
(* The native client and the runtime it owns: how a reply the operator     *)
(* asked for becomes a run of the runtime, is followed to its end, stopped *)
(* or fenced, while the two keep separate databases and talk over one pipe *)
(* (src/src-tauri/src/runtime/runs.rs, runtime/storage.rs, transport.rs).  *)
(*                                                                         *)
(*   native   what the client's database and process hold;                 *)
(*   request  a reply the operator asked for: its message's status and the *)
(*            stored request behind it;                                    *)
(*   task     a command of the client that awaits the runtime's answers:   *)
(*            complete, cancel or delete;                                  *)
(*   channel  the calls in the pipe, oldest first: the head is in exchange;*)
(*   server   what the runtime's database and process hold.                *)
(*                                                                         *)
(* A client step runs under the core mutex.  The client's process, the     *)
(* runtime's process and the exchange between them may end at any time.    *)
(***************************************************************************)
EXTENDS Naturals, Sequences, FiniteSets, Absent

CONSTANTS Workspaces, Requests, Tasks,
          MaxPending,       \* replies pending at once (runs.rs:62)
          QueueLimit,       \* calls the pipe holds (transport.rs:101)
          PageSize,         \* events of one poll (runs.rs:341)
          MaxShown,         \* events the client keeps (runs.rs:219)
          MaxGeneration, MaxLaunches, MaxEmit    \* bounds of the exploration

Active   == {"queued", "running", "cancelling"}
Terminal == {"succeeded", "failed", "cancelled", "interrupted"}
RunStates == {"none"} \cup Active \cup Terminal

ASSUME ReconciliationAssumption ==
    /\ {MaxPending, QueueLimit, PageSize, MaxShown, MaxGeneration, MaxLaunches} \subseteq Nat \ {0}
    /\ MaxEmit \in Nat
    /\ Nil \notin Tasks \cup Workspaces \cup Requests \cup RunStates

VARIABLES native, request, task, channel, server
vars == <<native, request, task, channel, server>>

NoRequest == [workspace |-> Nil, generation |-> 0, imports |-> FALSE, dispatched |-> FALSE,
              cancelRequested |-> FALSE, cursor |-> 0, shown |-> <<>>, run |-> Nil, status |-> "none"]
IdleTask == [kind |-> "idle", at |-> "idle", request |-> Nil, workspace |-> Nil, launch |-> 0,
             generation |-> 0, dispatched |-> FALSE, run |-> Nil, reply |-> Nil]
(* The answer of a call the pipe did not deliver, and of one that was refused *)
Lost    == [kind |-> "lost"]
Refused == [kind |-> "refused"]
-----------------------------------------------------------------------------
(* The runtime's side of a call *)
Admissible(r) ==
    LET w == request[r].workspace IN
    /\ server.ready
    /\ r \notin server.tombs
    /\ w \notin server.gone
    /\ ~(w \in server.admitted /\ request[r].imports)
    /\ \A x \in Requests : request[x].workspace = w => server.run[x] \notin Active

Halted(state) == IF state = "queued" THEN "cancelled" ELSE "cancelling"
(* The runs of R are fenced: those still queued end, the others are told to *)
Invalidated(s, R) ==
    LET hit == {r \in R : s.run[r] \in Active} IN
    [s EXCEPT !.run = [r \in Requests |-> IF r \in hit THEN Halted(@[r]) ELSE @[r]],
              !.seq = [r \in Requests |-> IF r \in hit THEN @[r] + 1 ELSE @[r]]]

(* Each operation gives the runtime's next state and its answer *)
Admission(r) ==
    IF server.run[r] # "none" THEN [server |-> server, reply |-> [kind |-> "admitted"]]
    ELSE IF Admissible(r)
    THEN [server |-> [server EXCEPT !.run[r] = "queued", !.seq[r] = 1,
                                    !.admitted = @ \cup {request[r].workspace}],
          reply  |-> [kind |-> "admitted"]]
    ELSE [server |-> server, reply |-> Refused]

Page(r, after) ==
    LET next == IF server.seq[r] - after > PageSize THEN after + PageSize ELSE server.seq[r]
    IN  [kind |-> "page", state |-> server.run[r], from |-> after, next |-> next,
         last |-> server.seq[r], more |-> next < server.seq[r]]
Polling(r, after) ==
    [server |-> server,
     reply  |-> IF r \in server.tombs THEN Refused
                ELSE IF server.run[r] = "none" THEN [kind |-> "missing"] ELSE Page(r, after)]

(* A repeated cancellation or deletion is answered from the ledger of the first *)
Cancellation(r) ==
    IF server.receipt[r] # Nil
    THEN [server |-> server, reply |-> [kind |-> "receipt", run |-> server.receipt[r]]]
    ELSE LET next == IF server.run[r] = "none" THEN [server EXCEPT !.tombs = @ \cup {r}]
                     ELSE Invalidated(server, {r})
         IN  [server |-> [next EXCEPT !.receipt[r] = next.run[r]],
              reply  |-> [kind |-> "receipt", run |-> next.run[r]]]

Deletion(w) ==
    [server |-> IF w \in server.gone THEN server
                ELSE Invalidated([server EXCEPT !.gone = @ \cup {w}],
                                 {r \in Requests : request[r].workspace = w}),
     reply  |-> [kind |-> "deleted"]]

Served(c) == CASE c.op = "admit"  -> Admission(c.request)
               [] c.op = "poll"   -> Polling(c.request, c.after)
               [] c.op = "cancel" -> Cancellation(c.request)
               [] c.op = "delete" -> Deletion(c.workspace)
               [] c.op = "closed" -> [server |-> server, reply |-> Refused]
-----------------------------------------------------------------------------
(* What the client's database says *)
Pending(r) == /\ request[r].status = "pending"
              /\ request[r].generation = native.generation
PendingOnly(r) == Pending(r)                                     \* a recorded stop is overlooked
Current(r) == Pending(r) /\ ~request[r].cancelRequested
Own(n, w) == [n EXCEPT !.owners = @ \cup {w}]
(* The runtime is known to have taken the workspace's history *)
Initialized(n, w) == [n EXCEPT !.owners = @ \cup {w}, !.sessions = @ \cup {w}]
Session == native.up

(* The pipe *)
Open(t) == native.up /\ task[t].launch = native.launch /\ Len(channel) < QueueLimit
Call(t, op, after) == [to |-> t, op |-> op, request |-> task[t].request,
                       workspace |-> task[t].workspace, after |-> after]
Go(t, at) == [task EXCEPT ![t].at = at, ![t].reply = Nil]
(* A task sends a call and waits for it; a pipe that takes none ends the command *)
Send(t, op, after, at, refused) ==
    IF Open(t) THEN task' = Go(t, at) /\ channel' = Append(channel, Call(t, op, after))
               ELSE task' = refused /\ UNCHANGED channel
(* The command of t is over; if it read a run, its token goes *)
Ended(t) == [task EXCEPT ![t] = IdleTask]
Released(n, r) == [n EXCEPT !.tokens[r] = Nil]
Fail(t) == /\ task' = Ended(t) /\ native' = Released(native, task[t].request)
           /\ UNCHANGED <<request, channel, server>>

(* Cancelling the tokens of R: a waiting task is told to stop.  Its call keeps  *)
(* its place in the pipe and is skipped there, unless it is already in exchange *)
Readers(R) == {native.tokens[r] : r \in R} \ {Nil}
Told(T)    == [t \in Tasks |-> IF t \in T THEN [task[t] EXCEPT !.at = "told", !.reply = Nil] ELSE task[t]]
SkippedCall == [to |-> Nil, op |-> "closed", request |-> Nil, workspace |-> Nil, after |-> 0]
Orphaned(c, exchanging) == IF exchanging THEN [c EXCEPT !.to = Nil] ELSE SkippedCall
Withdrawn(T, taken) ==
    [i \in DOMAIN channel |->
        IF channel[i].to \in T THEN Orphaned(channel[i], taken /\ i = 1) ELSE channel[i]]
Untokened(n, R) == [n EXCEPT !.tokens = [r \in Requests |-> IF r \in R THEN Nil ELSE @[r]]]
-----------------------------------------------------------------------------
(* The operator sends a message: the request and its body are stored *)
PendingRequests == {r \in Requests : request[r].status = "pending"}
Said(w) == \E r \in Requests : request[r].workspace = w /\ request[r].status \notin {"none", "deleted"}
Start(r, w) ==
    /\ ~native.stopping /\ Session /\ native.ready
    /\ request[r].status = "none" /\ w \in native.live
    /\ Cardinality(PendingRequests) < MaxPending
    /\ \A x \in PendingRequests : request[x].workspace # w
    /\ request' = [request EXCEPT ![r] =
          [NoRequest EXCEPT !.workspace = w, !.generation = native.generation, !.status = "pending",
                            !.imports = w \notin native.sessions /\ Said(w)]]
    /\ UNCHANGED <<native, task, channel, server>>

(* The provider changed: every pending reply is fenced, every reader is told *)
ConfigChange ==
    /\ ~native.stopping /\ native.generation < MaxGeneration
    /\ LET R == Requests IN
       /\ native' = [Untokened(native, R) EXCEPT !.generation = @ + 1, !.ready = FALSE]
       /\ task' = Told(Readers(R)) /\ \E taken \in BOOLEAN : channel' = Withdrawn(Readers(R), taken)
    /\ request' = [r \in Requests |-> IF r \in PendingRequests THEN [request[r] EXCEPT !.status = "fenced"]
                                      ELSE request[r]]
    /\ UNCHANGED server

(* The runtime is given a configuration: another epoch fences its runs *)
Authorized(epoch) == IF server.epoch = epoch THEN server
                     ELSE [Invalidated(server, Requests) EXCEPT !.epoch = epoch]
ClearModel ==
    /\ native.up /\ channel = <<>> /\ server.epoch \notin {0, native.generation}
    /\ server' = [Authorized(0) EXCEPT !.ready = FALSE]
    /\ UNCHANGED <<native, request, task, channel>>
SyncModel ==
    /\ native.up /\ channel = <<>> /\ ~native.stopping /\ ~native.ready
    /\ server' = [Authorized(native.generation) EXCEPT !.ready = TRUE]
    /\ native' = [native EXCEPT !.ready = TRUE]
    /\ UNCHANGED <<request, task, channel>>
-----------------------------------------------------------------------------
(* complete: one task at a time reads a run *)
BeginComplete(t, r) ==
    /\ task[t] = IdleTask /\ Session
    /\ Current(r) /\ native.tokens[r] = Nil
    /\ native' = [native EXCEPT !.tokens[r] = t]
    /\ task' = [task EXCEPT ![t] =
          [IdleTask EXCEPT !.kind = "complete", !.request = r, !.workspace = request[r].workspace,
                           !.launch = native.launch, !.generation = native.generation,
                           !.at = IF request[r].dispatched THEN "polling" ELSE "dispatching"]]
    /\ UNCHANGED <<request, channel, server>>

(* The intent to dispatch is durable before the run can reach the runtime *)
Dispatch(t) ==
    LET r == task[t].request IN
    /\ task[t].at = "dispatching"
    /\ IF Current(r) /\ native.ready /\ task[t].generation = native.generation
       THEN /\ request' = [request EXCEPT ![r].dispatched = TRUE]
            /\ native' = IF Open(t) THEN Own(native, task[t].workspace)
                         ELSE Released(Own(native, task[t].workspace), r)
            /\ Send(t, "admit", 0, "admitting", Ended(t))
            /\ UNCHANGED server
       ELSE Fail(t)

Admitted(t) ==
    /\ task[t].at \in {"admitting", "replaying"} /\ task[t].reply # Nil
    /\ IF task[t].reply.kind # "admitted" \/ (task[t].at = "admitting" /\ ~Current(task[t].request))
       THEN Fail(t)
       ELSE /\ native' = IF task[t].at = "admitting" THEN Initialized(native, task[t].workspace) ELSE native
            /\ task' = Go(t, "polling")
            /\ UNCHANGED <<request, channel, server>>

Poll(t) ==
    /\ task[t].at = "polling"
    /\ IF Open(t)
       THEN /\ Send(t, "poll", request[task[t].request].cursor, "getting", Ended(t))
            /\ UNCHANGED <<native, request, server>>
       ELSE Fail(t)
(* The reader stops following: its time is over, or a tool it dispatched failed *)
GiveUp(t) == task[t].at = "polling" /\ Fail(t)
(* The reader's token was cancelled *)
Stop(t) == task[t].at = "told" /\ Fail(t)

(* The runtime never saw the run: the same admission is sent again *)
Replay(t) ==
    /\ task[t].at = "getting" /\ task[t].reply # Nil /\ task[t].reply.kind = "missing"
    /\ IF Current(task[t].request) /\ native.ready /\ task[t].generation = native.generation /\ Open(t)
       THEN /\ native' = Own(native, task[t].workspace)
            /\ Send(t, "admit", 0, "replaying", Ended(t))
            /\ UNCHANGED <<request, server>>
       ELSE Fail(t)

(* apply_poll: the events of a page, the admission it proves, then the end of the reply *)
AnyTerminal(page) == page.state \in Terminal       \* the last page is not waited for
Whole(page) == page.state \in Terminal /\ ~page.more
LastShown(s) == IF Len(s) > MaxShown THEN SubSeq(s, Len(s) - MaxShown + 1, Len(s)) ELSE s
Outcome(state) == CASE state = "succeeded" -> "complete" [] state = "cancelled" -> "cancelled" [] OTHER -> "error"
LastCursor(page) == page.last                      \* the run's last sequence is taken for the page's
CursorOf(page) == page.next
Advanced(q, page) ==
    [q EXCEPT !.cursor = CursorOf(page), !.run = page.state,
              !.shown = LastShown(@ \o [i \in 1..(page.next - page.from) |-> page.from + i])]
Follows(r, page) == page.from = request[r].cursor /\ page.next <= page.last
Applied(r, page) ==
    LET ended == IF Whole(page) THEN Outcome(page.state) ELSE request[r].status
    IN  [request EXCEPT ![r] = [Advanced(@, page) EXCEPT !.status = ended]]
HasPage(t) == task[t].at = "getting" /\ task[t].reply # Nil /\ task[t].reply.kind = "page"
Accepted(t) == Current(task[t].request) /\ Follows(task[t].request, task[t].reply)
ApplyPoll(t) ==
    LET r == task[t].request  page == task[t].reply IN
    /\ HasPage(t)
    /\ IF Accepted(t)
       THEN LET n == Initialized(native, task[t].workspace) IN
            /\ request' = Applied(r, page)
            /\ native' = IF Whole(page) THEN Released(n, r) ELSE n
            /\ task' = IF Whole(page) THEN Ended(t) ELSE Go(t, "polling")
            /\ UNCHANGED <<channel, server>>
       ELSE Fail(t)
Unanswered(t) == /\ task[t].at = "getting" /\ task[t].reply # Nil /\ task[t].reply \in {Lost, Refused}
                 /\ Fail(t)
-----------------------------------------------------------------------------
(* cancel, and delete, which cancels what is pending first *)
Stopping(t, r, kind) ==
    LET T == Readers({r}) IN
    /\ request' = [request EXCEPT ![r].cancelRequested = TRUE]
    /\ native' = Released(native, r)
    /\ task' = [Told(T) EXCEPT ![t] =
          [IdleTask EXCEPT !.kind = kind, !.at = "fencing", !.request = r, !.launch = native.launch,
                           !.workspace = request[r].workspace, !.generation = native.generation,
                           !.dispatched = request[r].dispatched, !.run = request[r].run]]
    /\ \E taken \in BOOLEAN : channel' = Withdrawn(T, taken)
    /\ UNCHANGED server
BeginCancel(t, r) ==
    /\ ~native.stopping /\ task[t] = IdleTask /\ Session /\ Pending(r)
    /\ Stopping(t, r, "cancel")

Finish(t) == IF task[t].kind = "delete" THEN Go(t, "owning") ELSE Ended(t)
(* The connectors fence the run's reads, unless they hold too many such fences *)
SendCancel(t) ==
    /\ task[t].at = "fencing"
    /\ \/ /\ task' = Ended(t) /\ UNCHANGED channel
       \/ IF task[t].dispatched THEN Send(t, "cancel", 0, "cancelling", Ended(t))
          ELSE task' = Go(t, "concluding") /\ UNCHANGED channel
    /\ UNCHANGED <<native, request, server>>

SettledWhenTold(state) == state \in Terminal \cup {"cancelling"}   \* told to stop is taken for stopped
Settled(state) == state \in Terminal
(* apply_cancel_receipt *)
Receipt(t) ==
    LET r == task[t].request  reply == task[t].reply IN
    /\ task[t].at = "cancelling" /\ reply # Nil
    /\ IF reply.kind # "receipt"
       THEN task' = Ended(t) /\ UNCHANGED <<native, request>>
       ELSE IF request[r].status # "pending"
       THEN task' = Finish(t) /\ UNCHANGED <<native, request>>
       ELSE IF ~Pending(r)
       THEN task' = Ended(t) /\ UNCHANGED <<native, request>>
       ELSE LET known == IF reply.run = "none" THEN task[t].run ELSE reply.run IN
            /\ native' = IF reply.run = "none" THEN native ELSE Initialized(native, task[t].workspace)
            /\ request' = [request EXCEPT ![r].run = known]
            /\ task' = [Go(t, IF reply.run = "none" \/ Settled(reply.run) THEN "concluding" ELSE "reaping")
                           EXCEPT ![t].run = known]
    /\ UNCHANGED <<channel, server>>

Reap(t) ==
    /\ task[t].at = "reaping"
    /\ \/ Send(t, "poll", 0, "reading", Ended(t))
       \/ task' = Ended(t) /\ UNCHANGED channel
    /\ UNCHANGED <<native, request, server>>
Reaped(t) ==
    /\ task[t].at = "reading" /\ task[t].reply # Nil
    /\ task' = IF task[t].reply.kind # "page" THEN Ended(t)
               ELSE [Go(t, IF Settled(task[t].reply.state) THEN "concluding" ELSE "reaping")
                        EXCEPT ![t].run = task[t].reply.state]
    /\ UNCHANGED <<native, request, channel, server>>

Conclude(t) ==
    LET r == task[t].request IN
    /\ task[t].at = "concluding"
    /\ IF \/ native.generation # task[t].generation
          \/ request[r].status = "pending" /\ ~(Pending(r) /\ (task[t].run = Nil \/ Settled(task[t].run)))
       THEN task' = Ended(t) /\ UNCHANGED request
       ELSE /\ request' = IF request[r].status # "pending" THEN request
                          ELSE [request EXCEPT ![r].status = "cancelled", ![r].run = task[t].run]
            /\ task' = Finish(t)
    /\ UNCHANGED <<native, channel, server>>
-----------------------------------------------------------------------------
BeginDelete(t, w) ==
    /\ task[t] = IdleTask /\ w \in native.live
    /\ \/ \E r \in PendingRequests : /\ request[r].workspace = w /\ Session /\ Pending(r)
                                     /\ Stopping(t, r, "delete")
       \/ /\ \A r \in PendingRequests : request[r].workspace # w
          /\ task' = [task EXCEPT ![t] = [IdleTask EXCEPT !.kind = "delete", !.at = "owning", !.workspace = w]]
          /\ UNCHANGED <<native, request, channel, server>>
(* A workspace the runtime may know is deleted there first *)
SendDelete(t) ==
    /\ task[t].at = "owning"
    /\ IF task[t].workspace \notin native.live THEN task' = Ended(t) /\ UNCHANGED channel
       ELSE IF task[t].workspace \notin native.owners THEN task' = Go(t, "erasing") /\ UNCHANGED channel
       ELSE IF Session /\ Len(channel) < QueueLimit
       THEN /\ task' = [Go(t, "deleting") EXCEPT ![t].launch = native.launch, ![t].generation = native.generation]
            /\ channel' = Append(channel, Call(t, "delete", 0))
       ELSE task' = Ended(t) /\ UNCHANGED channel
    /\ UNCHANGED <<native, request, server>>
Acknowledge(t) ==
    /\ task[t].at = "deleting" /\ task[t].reply # Nil
    /\ IF /\ task[t].reply.kind = "deleted" /\ native.generation = task[t].generation
          /\ task[t].workspace \in native.owners
       THEN /\ native' = [native EXCEPT !.owners = @ \ {task[t].workspace}]
            /\ task' = Go(t, "erasing")
       ELSE task' = Ended(t) /\ UNCHANGED native
    /\ UNCHANGED <<request, channel, server>>
Erasable(w) == w \in native.live /\ w \notin native.owners
Erase(t) ==
    LET w == task[t].workspace IN
    /\ task[t].at = "erasing"
    /\ IF Erasable(w)
       THEN /\ native' = [native EXCEPT !.live = @ \ {w}, !.sessions = @ \ {w}]
            /\ request' = [r \in Requests |-> IF request[r].workspace = w
                              THEN [NoRequest EXCEPT !.workspace = w, !.status = "deleted"] ELSE request[r]]
       ELSE UNCHANGED <<native, request>>
    /\ task' = Ended(t)
    /\ UNCHANGED <<channel, server>>
-----------------------------------------------------------------------------
(* The head of the pipe is served and answered *)
Answer ==
    /\ native.up /\ channel # <<>>
    /\ LET c == Head(channel)  s == Served(c) IN
       /\ server' = s.server
       /\ channel' = Tail(channel)
       /\ task' = IF c.to = Nil THEN task ELSE [task EXCEPT ![c.to].reply = s.reply]
    /\ UNCHANGED <<native, request>>

(* What the runtime's end leaves of its state: the call in exchange was served or not *)
LeftBehind(served) == [IF served THEN Served(Head(channel)).server ELSE server EXCEPT !.ready = FALSE]
Waiting == {channel[i].to : i \in DOMAIN channel} \ {Nil}
LeftWaiting(T) == task                             \* the calls left in the pipe are not answered
Answered(T) == [t \in Tasks |-> IF t \in T THEN [task[t] EXCEPT !.reply = Lost] ELSE task[t]]
(* The runtime's process ends, by itself or because an exchange failed *)
Break(served) ==
    /\ native.up /\ (served => channel # <<>>)
    /\ server' = LeftBehind(served)
    /\ native' = [native EXCEPT !.up = FALSE]
    /\ task' = Answered(Waiting) /\ channel' = <<>>
    /\ UNCHANGED request

(* Store.recover, when the runtime starts again *)
Recovered(s) ==
    LET hit == {r \in Requests : s.run[r] \in {"running", "cancelling"}} IN
    [s EXCEPT !.run = [r \in Requests |-> IF r \in hit THEN "interrupted" ELSE @[r]],
              !.seq = [r \in Requests |-> IF r \in hit THEN @[r] + 1 ELSE @[r]]]
Launch ==
    /\ ~native.up /\ ~native.stopping /\ native.launch < MaxLaunches
    /\ native' = [native EXCEPT !.up = TRUE, !.launch = @ + 1, !.ready = FALSE]
    /\ server' = Recovered(server)
    /\ UNCHANGED <<request, task, channel>>

(* The client's process ends: nothing in memory is left, the runtime ends with it *)
Gone(served) ==
    /\ (served => channel # <<>>)
    /\ server' = LeftBehind(served)
    /\ task' = [t \in Tasks |-> IdleTask] /\ channel' = <<>>
Quiet(n) == [n EXCEPT !.up = FALSE, !.stopping = FALSE, !.tokens = [r \in Requests |-> Nil]]
Crash(served) ==
    /\ Gone(served)
    /\ native' = Quiet(native)
    /\ UNCHANGED request
(* ... between the two transactions of apply_poll *)
FinishWrite(t) == /\ native' = Quiet(native)        \* the end of the reply is written first
                  /\ request' = Applied(task[t].request, task[t].reply)
FirstWrite(t) == /\ native' = Quiet(Initialized(native, task[t].workspace))
                 /\ UNCHANGED request
CrashApplying(t) == HasPage(t) /\ Accepted(t) /\ Gone(FALSE) /\ FirstWrite(t)

(* Quit: the runtime is stopped before the replies it leaves are closed *)
Quit ==
    /\ ~native.stopping
    /\ native' = [native EXCEPT !.stopping = TRUE, !.up = FALSE]
    /\ \E served \in BOOLEAN : (served => native.up /\ channel # <<>>) /\ server' = LeftBehind(served)
    /\ task' = Answered(Waiting) /\ channel' = <<>>
    /\ UNCHANGED request
AnyReply(r) == request[r].status \notin {"none", "deleted"}   \* a reply that ended is closed again
Interruptible(r) == request[r].status = "pending"
InterruptForQuit(r) ==
    /\ native.stopping /\ Interruptible(r)
    /\ request' = [request EXCEPT ![r].status = "error", ![r].cancelRequested = TRUE]
    /\ UNCHANGED <<native, task, channel, server>>
-----------------------------------------------------------------------------
(* The runtime works on its runs, one at a time, while its process lives; a run *)
(* whose fence no longer holds fails instead of starting                        *)
Moved(r, state) == /\ server' = [server EXCEPT !.run[r] = state, !.seq[r] = @ + 1]
                   /\ UNCHANGED <<native, request, task, channel>>
StartRun(r) == /\ native.up /\ server.ready /\ server.run[r] = "queued"
               /\ \A x \in Requests : server.run[x] \notin {"running", "cancelling"}
               /\ \E s \in {"running", "failed"} : Moved(r, s)
Emit(r)     == native.up /\ server.run[r] = "running" /\ server.seq[r] < 2 + MaxEmit /\ Moved(r, "running")
FinishRun(r) == /\ native.up
                /\ \/ server.run[r] = "running" /\ \E s \in {"succeeded", "failed"} : Moved(r, s)
                   \/ server.run[r] = "cancelling" /\ Moved(r, "cancelled")

Init ==
    /\ native = [generation |-> 1, ready |-> FALSE, live |-> Workspaces, sessions |-> {}, owners |-> {},
                 tokens |-> [r \in Requests |-> Nil], up |-> FALSE, launch |-> 0, stopping |-> FALSE]
    /\ request = [r \in Requests |-> NoRequest]
    /\ task = [t \in Tasks |-> IdleTask]
    /\ channel = <<>>
    /\ server = [run |-> [r \in Requests |-> "none"], seq |-> [r \in Requests |-> 0], tombs |-> {},
                 admitted |-> {}, gone |-> {}, receipt |-> [r \in Requests |-> Nil],
                 epoch |-> 0, ready |-> FALSE]

Reads(t)   == Dispatch(t) \/ Admitted(t) \/ Poll(t) \/ Stop(t) \/ Replay(t) \/ ApplyPoll(t) \/ Unanswered(t)
Cancels(t) == SendCancel(t) \/ Receipt(t) \/ Reap(t) \/ Reaped(t) \/ Conclude(t)
Deletes(t) == SendDelete(t) \/ Acknowledge(t) \/ Erase(t)
Operator == \/ \E r \in Requests, w \in Workspaces : Start(r, w)
            \/ \E t \in Tasks, r \in Requests : BeginComplete(t, r) \/ BeginCancel(t, r)
            \/ \E t \in Tasks, w \in Workspaces : BeginDelete(t, w)
            \/ ConfigChange \/ Quit
Processes == \/ \E served \in BOOLEAN : Break(served) \/ Crash(served)
             \/ \E t \in Tasks : CrashApplying(t)
             \/ \E r \in Requests : InterruptForQuit(r)
             \/ Launch \/ ClearModel \/ SyncModel
Next == \/ Operator \/ Processes \/ Answer
        \/ \E t \in Tasks : Reads(t) \/ GiveUp(t) \/ Cancels(t) \/ Deletes(t)
        \/ \E r \in Requests : StartRun(r) \/ Emit(r) \/ FinishRun(r)

Spec == Init /\ [][Next]_vars
=============================================================================
