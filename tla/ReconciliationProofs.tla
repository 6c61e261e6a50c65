------------------------ MODULE ReconciliationProofs ------------------------
(***************************************************************************)
(* EventsWhole, StopHolds, RecordedFirst and FinalForGood for any number   *)
(* of replies, workspaces and commands, any pages and any limits; and that *)
(* client and runtime together keep ReplyLifecycle.                        *)
(*                                                                         *)
(* A reply is in two databases, and what connects them is on its way: a    *)
(* command that awaits, its call, the answer.  The invariant says of each  *)
(* of them what it still knows of the runtime, and that is never more than *)
(* the runtime keeps for good: a run that ended, a tombstone, a workspace  *)
(* that is gone.                                                           *)
(*                                                                         *)
(* The lifecycle follows from it: a step moves the runs or the replies,    *)
(* never both (NextParts), so what the invariant says after the step of    *)
(* the part that moved it said of the other part before.                   *)
(***************************************************************************)
EXTENDS RunReconciliationSafety, SequenceTheorems, TLAPS

Statuses == {"none", "pending", "complete", "error", "cancelled", "fenced", "deleted"}
Reading  == {"dispatching", "admitting", "replaying", "polling", "getting"}
Fencing  == {"fencing", "cancelling", "reaping", "reading", "concluding"}
Deleting == {"owning", "deleting", "erasing"}
Points   == {"idle", "told"} \cup Reading \cup Fencing \cup Deleting
Kinds    == {"idle", "complete", "cancel", "delete"}
Ops      == {"admit", "poll", "cancel", "delete", "closed"}

RequestRecord ==
    [workspace : Workspaces \cup {Nil}, generation : Nat, imports : BOOLEAN, dispatched : BOOLEAN,
     cancelRequested : BOOLEAN, cursor : Nat, shown : Seq(Nat), run : RunStates \cup {Nil},
     status : Statuses]
Receipts == [kind : {"receipt"}, run : RunStates]
Pages    == [kind : {"page"}, state : RunStates \ {"none"}, from : Nat, next : Nat, last : Nat,
             more : BOOLEAN]
Verdicts == [kind : {"lost", "refused", "admitted", "missing", "deleted"}]
TaskRecord ==
    [kind : Kinds, at : Points, request : Requests \cup {Nil}, workspace : Workspaces \cup {Nil},
     launch : Nat, generation : Nat, dispatched : BOOLEAN, run : RunStates \cup {Nil},
     reply : Verdicts \cup Receipts \cup Pages \cup {Nil}]
CallRecord ==
    [to : Tasks \cup {Nil}, op : Ops, request : Requests \cup {Nil},
     workspace : Workspaces \cup {Nil}, after : Nat]
NativeRecord ==
    [generation : Nat, ready : BOOLEAN, live : SUBSET Workspaces, sessions : SUBSET Workspaces,
     owners : SUBSET Workspaces, tokens : [Requests -> Tasks \cup {Nil}], up : BOOLEAN,
     launch : Nat, stopping : BOOLEAN]
ServerRecord ==
    [run : [Requests -> RunStates], seq : [Requests -> Nat], tombs : SUBSET Requests,
     admitted : SUBSET Workspaces, gone : SUBSET Workspaces,
     receipt : [Requests -> RunStates \cup {Nil}], epoch : Nat, ready : BOOLEAN]

ReconciliationTypeOK ==
    /\ native \in NativeRecord /\ server \in ServerRecord
    /\ request \in [Requests -> RequestRecord]
    /\ task \in [Tasks -> TaskRecord]
    /\ channel \in Seq(CallRecord)

Known(r)  == request[r].status # "none"
Shown(r)  == request[r].status \notin {"none", "deleted"}
\* The client may have sent an admission of r.
Sent(r)   == request[r].dispatched \/ request[r].status = "deleted"
\* Nothing of r is left to do at the runtime, and nothing can be added.
Finished(r) == \/ server.run[r] \in Terminal
               \/ server.run[r] = "none" /\ (r \in server.tombs \/ ~request[r].dispatched)

\* What the runtime keeps of a run, and of a workspace that is deleted there
Holds(s) ==
    /\ \A r \in Requests :
          /\ s.run[r] # "none" => Known(r) /\ Sent(r) /\ request[r].workspace \in s.admitted
          /\ s.run[r] = "none" => s.seq[r] = 0
          /\ r \in s.tombs => s.run[r] = "none"
          /\ s.receipt[r] = "none" => r \in s.tombs
          /\ s.receipt[r] \in Terminal => s.run[r] \in Terminal
          /\ request[r].workspace \in s.gone => s.run[r] \notin {"queued", "running"}
    /\ s.admitted \subseteq native.owners \cup s.gone
ServerOK == Holds(server) /\ native.owners \subseteq native.live

\* What a reply's row says
RowOK(r) ==
    LET q == request[r] IN
    /\ q.status = "none" => q.workspace = Nil /\ q.run = Nil
    /\ Known(r) => q.workspace \in Workspaces
    /\ Shown(r) => q.workspace \in native.live
    /\ q.status = "deleted" => q.workspace \notin native.live
    /\ Shown(r) /\ q.run # Nil => q.workspace \in native.sessions
    /\ q.cancelRequested => q.status # "complete"
    /\ q.cursor <= server.seq[r]
    /\ Len(q.shown) <= q.cursor
    /\ \A i \in 1..Len(q.shown) : q.shown[i] = q.cursor - (Len(q.shown) - i)
    /\ q.status = "complete" => server.run[r] = "succeeded" /\ q.cursor = server.seq[r]
    /\ q.status = "cancelled" => Finished(r)

\* What an answer says of the runtime stays true.
AnswerOK(s, r, w, y) ==
    /\ y.kind \in {"receipt", "page"} => r \in Requests
    /\ y.kind = "receipt" => /\ y.run = "none" => r \in s.tombs
                             /\ y.run \in Terminal => s.run[r] \in Terminal
    /\ y.kind = "page" =>
          /\ y.from <= y.next /\ y.next <= y.last /\ y.last <= s.seq[r]
          /\ y.more = FALSE => y.next = y.last
          /\ y.state \in Terminal => s.run[r] = y.state /\ s.seq[r] = y.last
    /\ y.kind = "deleted" => w \in s.gone

\* What a command under way may rely on
TaskOK(t) ==
    LET k == task[t]  r == task[t].request IN
    /\ k.at \in Reading \cup Fencing => r \in Requests
    /\ r \in Requests => Known(r) /\ request[r].workspace = k.workspace
    /\ k.at \in Reading \ {"dispatching"} => Sent(r)
    /\ k.reply # Nil => AnswerOK(server, r, k.workspace, k.reply)
    /\ r \in Requests /\ k.run # Nil /\ Shown(r) => k.workspace \in native.sessions
    /\ k.at \in {"reaping", "reading"} => k.run # Nil
    /\ k.at \in Fencing /\ request[r].status = "pending" => request[r].cancelRequested
    /\ k.at = "fencing" /\ ~k.dispatched /\ request[r].status = "pending" => ~request[r].dispatched
    /\ k.at = "concluding" /\ request[r].status = "pending" /\ (k.run = Nil \/ Settled(k.run))
          => Finished(r)

Awaits(op) == CASE op = "admit"  -> {"admitting", "replaying"}
                [] op = "poll"   -> {"getting", "reading"}
                [] op = "cancel" -> {"cancelling"}
                [] op = "delete" -> {"deleting"}
                [] OTHER         -> {}
\* What a call in the pipe asks for, and who awaits it
Asks(c) ==
    /\ c.op \in {"admit", "poll", "cancel"} => c.request \in Requests /\ Known(c.request)
    /\ c.op = "admit" => /\ Sent(c.request) /\ request[c.request].workspace = c.workspace
                         /\ c.workspace \in native.owners \cup server.gone
    /\ c.op = "poll" => c.after <= server.seq[c.request]
    /\ c.op = "delete" => c.workspace \in Workspaces
Awaited(c) ==
    c.to # Nil => /\ task[c.to].at \in Awaits(c.op) /\ task[c.to].reply = Nil
                  /\ task[c.to].request = c.request /\ task[c.to].workspace = c.workspace
CallsOK ==
    /\ \A i \in 1..Len(channel) : Asks(channel[i]) /\ Awaited(channel[i])
    /\ \A i, j \in 1..Len(channel) : channel[i].to # Nil /\ channel[i].to = channel[j].to => i = j

ReconciliationInvariant ==
    /\ ReconciliationTypeOK /\ ServerOK
    /\ \A r \in Requests : RowOK(r)
    /\ \A t \in Tasks : TaskOK(t)
    /\ CallsOK
-----------------------------------------------------------------------------
(* The runtime                                                             *)

\* What is true of the runtime once stays true.
Grows(s, u) ==
    /\ \A r \in Requests :
          /\ s.run[r] \in Terminal => u.run[r] = s.run[r] /\ u.seq[r] = s.seq[r]
          /\ s.seq[r] <= u.seq[r]
          /\ r \in s.tombs => u.run[r] = s.run[r]
          /\ s.run[r] = "none" /\ u.run[r] # "none" => Known(r) /\ Sent(r)
    /\ s.tombs \subseteq u.tombs /\ s.gone \subseteq u.gone

\* Only runs that are active move, and none back to work in a workspace that is gone.
Moves(s, u) ==
    /\ u.tombs = s.tombs /\ u.gone = s.gone /\ u.admitted = s.admitted /\ u.receipt = s.receipt
    /\ \A r \in Requests :
          \/ u.run[r] = s.run[r] /\ u.seq[r] = s.seq[r]
          \/ /\ s.run[r] \in Active /\ u.run[r] # "none" /\ u.seq[r] = s.seq[r] + 1
             /\ u.run[r] \in {"queued", "running"} => s.run[r] \in {"queued", "running"}

LEMMA MovesHold ==
    ASSUME NEW s \in ServerRecord, NEW u \in ServerRecord, Holds(s), Moves(s, u)
    PROVE  Holds(u) /\ Grows(s, u)
<1>1. Holds(u)
  BY DEF Holds, Moves, Active, Terminal, ServerRecord, RunStates
<1>2. Grows(s, u)
  BY DEF Holds, Grows, Moves, Active, Terminal, ServerRecord, RunStates
<1> QED
  BY <1>1, <1>2

LEMMA InvalidatedMoves ==
    ASSUME NEW s \in ServerRecord, NEW R \in SUBSET Requests
    PROVE  /\ Invalidated(s, R) \in ServerRecord /\ Moves(s, Invalidated(s, R))
           /\ \A r \in R : Invalidated(s, R).run[r] \notin {"queued", "running"}
<1>1. PICK u : u = Invalidated(s, R)
  OBVIOUS
<1>2. /\ u.run = [r \in Requests |-> IF r \in R /\ s.run[r] \in Active THEN Halted(s.run[r]) ELSE s.run[r]]
      /\ u.seq = [r \in Requests |-> IF r \in R /\ s.run[r] \in Active THEN s.seq[r] + 1 ELSE s.seq[r]]
      /\ u.tombs = s.tombs /\ u.gone = s.gone /\ u.admitted = s.admitted /\ u.receipt = s.receipt
  BY <1>1 DEF Invalidated, ServerRecord
<1>3. \A r \in Requests : Halted(s.run[r]) \in {"cancelled", "cancelling"}
  BY DEF Halted
<1>4. u \in ServerRecord
  <2>1. /\ u.run \in [Requests -> RunStates] /\ u.seq \in [Requests -> Nat]
    BY <1>2, <1>3 DEF ServerRecord, RunStates, Active, Terminal
  <2> QED
    BY <1>1, <2>1 DEF Invalidated, ServerRecord
<1>5. Moves(s, u)
  BY <1>2, <1>3 DEF Moves, ServerRecord, Active
<1>6. \A r \in R : u.run[r] \notin {"queued", "running"}
  BY <1>2, <1>3 DEF ServerRecord, Active
<1> QED
  BY <1>1, <1>4, <1>5, <1>6

LEMMA RecoveredMoves ==
    ASSUME NEW s \in ServerRecord
    PROVE  Recovered(s) \in ServerRecord /\ Moves(s, Recovered(s))
<1>1. PICK u : u = Recovered(s)
  OBVIOUS
<1>2. /\ u.run = [r \in Requests |-> IF s.run[r] \in {"running", "cancelling"} THEN "interrupted" ELSE s.run[r]]
      /\ u.seq = [r \in Requests |-> IF s.run[r] \in {"running", "cancelling"} THEN s.seq[r] + 1 ELSE s.seq[r]]
      /\ u.tombs = s.tombs /\ u.gone = s.gone /\ u.admitted = s.admitted /\ u.receipt = s.receipt
  BY <1>1 DEF Recovered, ServerRecord
<1>3. u \in ServerRecord
  <2>1. /\ u.run \in [Requests -> RunStates] /\ u.seq \in [Requests -> Nat]
    BY <1>2 DEF ServerRecord, RunStates, Active, Terminal
  <2> QED
    BY <1>1, <2>1 DEF Recovered, ServerRecord
<1>4. Moves(s, u)
  BY <1>2 DEF Moves, ServerRecord, Active
<1> QED
  BY <1>1, <1>3, <1>4

\* What the runtime does with a call of op, and answers
ServesWell(s, c) ==
    /\ s.server \in ServerRecord /\ Holds(s.server) /\ Grows(server, s.server)
    /\ s.reply \in Verdicts \cup Receipts \cup Pages
    /\ AnswerOK(s.server, c.request, c.workspace, s.reply)

LEMMA GrowsReflexive == ASSUME NEW s \in ServerRecord PROVE Grows(s, s)
BY DEF Grows, ServerRecord

LEMMA AdmissionServed ==
    ASSUME ReconciliationTypeOK, ServerOK, NEW c \in CallRecord, Asks(c), c.op = "admit"
    PROVE  ServesWell(Admission(c.request), c)
<1>1. PICK r \in Requests : r = c.request
  BY DEF Asks
<1>2. PICK a : a = Admission(r)
  OBVIOUS
<1>3. CASE server.run[r] # "none" \/ ~Admissible(r)
  <2>1. a.server = server /\ a.reply \in Verdicts /\ a.reply.kind \in {"admitted", "refused"}
    BY <1>2, <1>3 DEF Admission, Refused, Verdicts
  <2> QED
    BY <1>1, <1>2, <2>1, GrowsReflexive DEF ServesWell, AnswerOK, ServerOK, ReconciliationTypeOK
<1>4. CASE server.run[r] = "none" /\ Admissible(r)
  <2>1. PICK w : w = request[r].workspace
    OBVIOUS
  <2>2. /\ w \in Workspaces /\ w \in native.owners \cup server.gone /\ w \notin server.gone
        /\ r \notin server.tombs /\ Known(r) /\ Sent(r)
    BY <1>1, <1>4, <2>1 DEF Asks, Admissible, ReconciliationTypeOK, NativeRecord, ServerRecord
  <2>3. PICK u : u = [server EXCEPT !.run[r] = "queued", !.seq[r] = 1, !.admitted = @ \cup {w}]
    OBVIOUS
  <2>4. a = [server |-> u, reply |-> [kind |-> "admitted"]]
    BY <1>2, <1>4, <2>1, <2>3 DEF Admission
  <2>5. u \in ServerRecord
    BY <2>2, <2>3 DEF ReconciliationTypeOK, ServerRecord, RunStates, Active
  <2>6. /\ u.run = [server.run EXCEPT ![r] = "queued"] /\ u.seq = [server.seq EXCEPT ![r] = 1]
        /\ u.admitted = server.admitted \cup {w} /\ u.tombs = server.tombs /\ u.gone = server.gone
        /\ u.receipt = server.receipt
    BY <2>3 DEF ReconciliationTypeOK, ServerRecord
  <2>7. Holds(u)
    <3>1. \A x \in Requests : u.run[x] = IF x = r THEN "queued" ELSE server.run[x]
      BY <2>6 DEF ReconciliationTypeOK, ServerRecord
    <3>2. server.receipt[r] \notin Terminal
      BY <1>4 DEF ServerOK, Holds, Terminal
    <3> QED
      BY <2>1, <2>2, <2>6, <3>1, <3>2 DEF ServerOK, Holds
  <2>8. server.seq[r] <= 1
    BY <1>4 DEF ServerOK, Holds
  <2>9. Grows(server, u)
    BY <1>4, <2>2, <2>6, <2>8 DEF Grows, ReconciliationTypeOK, ServerRecord, Terminal
  <2> QED
    BY <1>1, <1>2, <2>4, <2>5, <2>7, <2>9 DEF ServesWell, AnswerOK, Verdicts
<1> QED
  BY <1>1, <1>2, <1>3, <1>4

LEMMA PollingServed ==
    ASSUME ReconciliationTypeOK, ServerOK, NEW c \in CallRecord, Asks(c), c.op = "poll"
    PROVE  ServesWell(Polling(c.request, c.after), c)
<1>1. PICK r \in Requests, n \in Nat : r = c.request /\ n = c.after /\ n <= server.seq[r]
  BY DEF Asks, CallRecord
<1>2. PICK a : a = Polling(r, n)
  OBVIOUS
<1>3. a.server = server
  BY <1>2 DEF Polling
<1>4. /\ a.reply \in Verdicts \cup Receipts \cup Pages
      /\ AnswerOK(server, r, c.workspace, a.reply)
  <2>1. CASE r \in server.tombs
    BY <1>2, <2>1 DEF Polling, Refused, Verdicts, AnswerOK
  <2>2. CASE r \notin server.tombs /\ server.run[r] = "none"
    BY <1>2, <2>2 DEF Polling, Verdicts, AnswerOK
  <2>3. CASE r \notin server.tombs /\ server.run[r] # "none"
    <3>1. PICK q \in Nat, z \in RunStates \ {"none"} : q = server.seq[r] /\ z = server.run[r]
      BY <2>3 DEF ReconciliationTypeOK, ServerRecord
    <3>2. PICK m \in Nat : m = (IF q - n > PageSize THEN n + PageSize ELSE q)
      BY ReconciliationAssumption
    <3>3. n <= m /\ m <= q
      BY <1>1, <3>1, <3>2, ReconciliationAssumption
    <3>4. a.reply = [kind |-> "page", state |-> z, from |-> n, next |-> m, last |-> q, more |-> m < q]
      BY <1>2, <2>3, <3>1, <3>2 DEF Polling, Page
    <3>5. a.reply \in Pages
      BY <3>4 DEF Pages
    <3>6. /\ a.reply.kind = "page" /\ a.reply.state = z /\ a.reply.from = n /\ a.reply.next = m
          /\ a.reply.last = q /\ a.reply.more = (m < q)
      BY <3>4
    <3>7. a.reply.more = FALSE => a.reply.next = a.reply.last
      <4>1. CASE m < q
        <5>1. a.reply.more = TRUE
          BY <3>6, <4>1, Zenon
        <5> QED
          BY <5>1
      <4>2. CASE ~(m < q)
        <5>1. m = q
          BY <3>1, <3>2, <3>3, <4>2
        <5> QED
          BY <3>6, <5>1
      <4> QED
        BY <4>1, <4>2
    <3>8. AnswerOK(server, r, c.workspace, a.reply)
      BY <3>1, <3>3, <3>6, <3>7 DEF AnswerOK
    <3> QED
      BY <3>5, <3>8
  <2> QED
    BY <2>1, <2>2, <2>3
<1> QED
  BY <1>1, <1>2, <1>3, <1>4, GrowsReflexive DEF ServesWell, ServerOK, ReconciliationTypeOK

LEMMA CancellationServed ==
    ASSUME ReconciliationTypeOK, ServerOK, NEW c \in CallRecord, Asks(c), c.op = "cancel"
    PROVE  ServesWell(Cancellation(c.request), c)
<1>1. PICK r \in Requests : r = c.request
  BY DEF Asks
<1>2. PICK a : a = Cancellation(r)
  OBVIOUS
<1>3. CASE server.receipt[r] # Nil
  <2>1. a.server = server /\ a.reply = [kind |-> "receipt", run |-> server.receipt[r]]
    BY <1>2, <1>3 DEF Cancellation
  <2>2. server.receipt[r] \in RunStates
    BY <1>3 DEF ReconciliationTypeOK, ServerRecord
  <2>3. a.reply \in Receipts /\ AnswerOK(server, r, c.workspace, a.reply)
    BY <2>1, <2>2 DEF Receipts, AnswerOK, ServerOK, Holds
  <2> QED
    BY <1>1, <1>2, <2>1, <2>3, GrowsReflexive DEF ServesWell, ServerOK, ReconciliationTypeOK
<1>4. CASE server.receipt[r] = Nil
  <2>1. PICK n : n = IF server.run[r] = "none" THEN [server EXCEPT !.tombs = @ \cup {r}]
                     ELSE Invalidated(server, {r})
    OBVIOUS
  <2>2. /\ n \in ServerRecord /\ Holds(n) /\ Grows(server, n) /\ n.receipt = server.receipt
        /\ n.run[r] = "none" => r \in n.tombs
    <3>1. CASE server.run[r] = "none"
      <4>1. n = [server EXCEPT !.tombs = @ \cup {r}]
        BY <2>1, <3>1
      <4>2. /\ n \in ServerRecord /\ n.run = server.run /\ n.seq = server.seq /\ n.gone = server.gone
            /\ n.admitted = server.admitted /\ n.receipt = server.receipt
            /\ n.tombs = server.tombs \cup {r}
        BY <4>1 DEF ReconciliationTypeOK, ServerRecord
      <4>3. Holds(n)
        BY <3>1, <4>2 DEF ServerOK, Holds
      <4>4. Grows(server, n)
        BY <4>2 DEF Grows, ReconciliationTypeOK, ServerRecord
      <4> QED
        BY <4>2, <4>3, <4>4
    <3>2. CASE server.run[r] # "none"
      <4>1. n \in ServerRecord /\ Moves(server, n)
        BY <2>1, <3>2, InvalidatedMoves DEF ReconciliationTypeOK
      <4>2. Holds(n) /\ Grows(server, n)
        BY <4>1, MovesHold DEF ReconciliationTypeOK, ServerOK
      <4>3. n.run[r] # "none" /\ n.receipt = server.receipt
        BY <3>2, <4>1 DEF Moves
      <4> QED
        BY <4>1, <4>2, <4>3
    <3> QED
      BY <3>1, <3>2
  <2>3. PICK z \in RunStates : z = n.run[r]
    BY <2>2 DEF ServerRecord
  <2>4. PICK u : u = [n EXCEPT !.receipt[r] = z]
    OBVIOUS
  <2>5. a = [server |-> u, reply |-> [kind |-> "receipt", run |-> z]]
    BY <1>2, <1>4, <2>1, <2>3, <2>4 DEF Cancellation
  <2>6. /\ u \in ServerRecord /\ u.run = n.run /\ u.seq = n.seq /\ u.gone = n.gone /\ u.tombs = n.tombs
        /\ u.admitted = n.admitted /\ u.receipt = [n.receipt EXCEPT ![r] = z]
    BY <2>2, <2>4 DEF ServerRecord
  <2>7. Holds(u)
    <3>1. \A x \in Requests : u.receipt[x] = IF x = r THEN z ELSE n.receipt[x]
      BY <2>2, <2>6 DEF ServerRecord
    <3> QED
      BY <2>2, <2>3, <2>6, <3>1 DEF Holds
  <2>8. Grows(server, u)
    BY <2>2, <2>6 DEF Grows
  <2>9. a.reply \in Receipts /\ AnswerOK(u, r, c.workspace, a.reply)
    BY <2>2, <2>3, <2>5, <2>6 DEF Receipts, AnswerOK
  <2> QED
    BY <1>1, <1>2, <2>5, <2>6, <2>7, <2>8, <2>9 DEF ServesWell
<1> QED
  BY <1>3, <1>4

LEMMA DeletionServed ==
    ASSUME ReconciliationTypeOK, ServerOK, NEW c \in CallRecord, Asks(c), c.op = "delete"
    PROVE  ServesWell(Deletion(c.workspace), c)
<1>1. PICK w \in Workspaces : w = c.workspace
  BY DEF Asks
<1>2. PICK a : a = Deletion(w)
  OBVIOUS
<1>3. a.reply = [kind |-> "deleted"]
  BY <1>2 DEF Deletion
<1>4. a.server \in ServerRecord /\ Holds(a.server) /\ Grows(server, a.server) /\ w \in a.server.gone
  <2>1. CASE w \in server.gone
    BY <1>2, <2>1, GrowsReflexive DEF Deletion, ServerOK, ReconciliationTypeOK
  <2>2. CASE w \notin server.gone
    <3>1. PICK n : n = [server EXCEPT !.gone = @ \cup {w}]
      OBVIOUS
    <3>2. PICK R \in SUBSET Requests : R = {r \in Requests : request[r].workspace = w}
      OBVIOUS
    <3>3. PICK u : u = Invalidated(n, R) /\ a.server = u
      BY <1>2, <2>2, <3>1, <3>2 DEF Deletion
    <3>4. /\ n \in ServerRecord /\ n.run = server.run /\ n.seq = server.seq /\ n.tombs = server.tombs
          /\ n.admitted = server.admitted /\ n.receipt = server.receipt /\ n.gone = server.gone \cup {w}
      BY <3>1 DEF ReconciliationTypeOK, ServerRecord
    <3>5. u \in ServerRecord /\ Moves(n, u) /\ \A r \in R : u.run[r] \notin {"queued", "running"}
      BY <3>3, <3>4, InvalidatedMoves
    <3>6. Moves(server, [u EXCEPT !.gone = server.gone])
      BY <3>4, <3>5 DEF Moves, ServerRecord
    <3>7. PICK v : v = [u EXCEPT !.gone = server.gone]
      OBVIOUS
    <3>8. /\ v \in ServerRecord /\ v.run = u.run /\ v.seq = u.seq /\ v.tombs = u.tombs
          /\ v.admitted = u.admitted /\ v.receipt = u.receipt
      BY <3>5, <3>7 DEF ServerRecord, ReconciliationTypeOK
    <3>9. Holds(v) /\ Grows(server, v)
      BY <3>6, <3>7, <3>8, MovesHold DEF ServerOK, ReconciliationTypeOK
    <3>10. u.gone = server.gone \cup {w}
      BY <3>4, <3>5 DEF Moves
    <3>11. v.gone = server.gone
      BY <3>5, <3>7 DEF ServerRecord
    <3>12. Holds(u)
      BY <3>2, <3>5, <3>8, <3>9, <3>10, <3>11 DEF Holds
    <3>13. Grows(server, u)
      BY <3>8, <3>9, <3>10, <3>11 DEF Grows
    <3> QED
      BY <3>3, <3>5, <3>10, <3>12, <3>13
  <2> QED
    BY <2>1, <2>2
<1> QED
  BY <1>1, <1>2, <1>3, <1>4 DEF ServesWell, AnswerOK, Verdicts

LEMMA CallServed ==
    ASSUME ReconciliationTypeOK, ServerOK, NEW c \in CallRecord, Asks(c)
    PROVE  ServesWell(Served(c), c)
<1>1. CASE c.op = "admit"
  BY <1>1, AdmissionServed DEF Served
<1>2. CASE c.op = "poll"
  BY <1>2, PollingServed DEF Served
<1>3. CASE c.op = "cancel"
  BY <1>3, CancellationServed DEF Served
<1>4. CASE c.op = "delete"
  BY <1>4, DeletionServed DEF Served
<1>5. CASE c.op = "closed"
  <2>1. Served(c) = [server |-> server, reply |-> [kind |-> "refused"]]
    BY <1>5 DEF Served, Refused
  <2> QED
    BY <2>1, GrowsReflexive DEF ServesWell, ServerOK, ReconciliationTypeOK, AnswerOK, Verdicts
<1> QED
  BY <1>1, <1>2, <1>3, <1>4, <1>5 DEF CallRecord, Ops

\* The runtime's state after any step
ServerNext == server' \in ServerRecord /\ Holds(server') /\ Grows(server, server')

LEMMA ServerSame ==
    ASSUME ReconciliationTypeOK, ServerOK, server' = server PROVE ServerNext
BY GrowsReflexive DEF ServerNext, ServerOK, ReconciliationTypeOK

LEMMA ServerMoves ==
    ASSUME ReconciliationTypeOK, ServerOK, server' \in ServerRecord, Moves(server, server')
    PROVE  ServerNext
BY MovesHold DEF ServerNext, ServerOK, ReconciliationTypeOK

LEMMA HeadAsks ==
    ASSUME ReconciliationTypeOK, CallsOK, channel # <<>>
    PROVE  /\ Head(channel) \in CallRecord /\ Asks(Head(channel)) /\ Awaited(Head(channel))
           /\ Head(channel) = channel[1] /\ 1 \in 1..Len(channel)
           /\ Tail(channel) \in Seq(CallRecord) /\ Len(Tail(channel)) = Len(channel) - 1
           /\ \A i \in 1..Len(Tail(channel)) : Tail(channel)[i] = channel[i + 1] /\ i + 1 \in 1..Len(channel)
<1>1. channel \in Seq(CallRecord) /\ Len(channel) \in Nat \ {0} /\ Head(channel) = channel[1]
  BY DEF ReconciliationTypeOK
<1>2. Head(channel) \in CallRecord /\ 1 \in 1..Len(channel)
  BY <1>1
<1>3. /\ Tail(channel) \in Seq(CallRecord) /\ Len(Tail(channel)) = Len(channel) - 1
      /\ \A i \in 1..Len(Tail(channel)) : Tail(channel)[i] = channel[i + 1] /\ i + 1 \in 1..Len(channel)
  BY <1>1
<1> QED
  BY <1>1, <1>2, <1>3 DEF CallsOK

LEMMA ServerLeft ==
    ASSUME ReconciliationTypeOK, ServerOK, CallsOK, NEW served \in BOOLEAN,
           served => channel # <<>>, server' = LeftBehind(served)
    PROVE  ServerNext
<1>1. PICK s : s = IF served THEN Served(Head(channel)).server ELSE server
  OBVIOUS
<1>2. s \in ServerRecord /\ Holds(s) /\ Grows(server, s)
  BY <1>1, HeadAsks, CallServed, GrowsReflexive DEF ServesWell, ServerOK, ReconciliationTypeOK
<1>3. server' = [s EXCEPT !.ready = FALSE]
  BY <1>1 DEF LeftBehind
<1>4. /\ server' \in ServerRecord /\ server'.run = s.run /\ server'.seq = s.seq /\ server'.tombs = s.tombs
      /\ server'.gone = s.gone /\ server'.admitted = s.admitted /\ server'.receipt = s.receipt
  BY <1>2, <1>3 DEF ServerRecord
<1>5. Holds(server')
  BY <1>2, <1>4 DEF Holds
<1>6. Grows(server, server')
  BY <1>2, <1>4 DEF Grows
<1> QED
  BY <1>4, <1>5, <1>6 DEF ServerNext

LEMMA ServerAuthorized ==
    ASSUME ReconciliationTypeOK, ServerOK, NEW epoch \in Nat, NEW b \in BOOLEAN,
           server' = [Authorized(epoch) EXCEPT !.ready = b]
    PROVE  ServerNext
<1>1. PICK s : s = IF server.epoch = epoch THEN server ELSE Invalidated(server, Requests)
  OBVIOUS
<1>2. s \in ServerRecord /\ Moves(server, s)
  BY <1>1, InvalidatedMoves DEF ReconciliationTypeOK, Moves
<1>3. PICK a : a = Authorized(epoch) /\ a \in ServerRecord /\ a.run = s.run /\ a.seq = s.seq
               /\ a.tombs = s.tombs /\ a.gone = s.gone /\ a.admitted = s.admitted
               /\ a.receipt = s.receipt
  BY <1>1, <1>2 DEF Authorized, ServerRecord
<1>4. server' \in ServerRecord /\ Moves(server, server')
  BY <1>2, <1>3 DEF Moves, ServerRecord
<1> QED
  BY <1>4, ServerMoves

LEMMA ServerWorks ==
    ASSUME ReconciliationTypeOK, ServerOK, NEW r \in Requests,
           StartRun(r) \/ Emit(r) \/ FinishRun(r)
    PROVE  ServerNext
<1>1. PICK z \in RunStates \ {"none"} :
          /\ Moved(r, z) /\ server.run[r] \in Active
          /\ z \in {"queued", "running"} => server.run[r] \in {"queued", "running"}
  BY DEF StartRun, Emit, FinishRun, RunStates, Active, Terminal
<1>2. PICK n \in Nat : n = server.seq[r] + 1
  BY DEF ReconciliationTypeOK, ServerRecord
<1>3. server' = [server EXCEPT !.run[r] = z, !.seq[r] = n]
  BY <1>1, <1>2 DEF Moved
<1>4. /\ server' \in ServerRecord /\ server'.run = [server.run EXCEPT ![r] = z]
      /\ server'.seq = [server.seq EXCEPT ![r] = n] /\ server'.tombs = server.tombs
      /\ server'.gone = server.gone /\ server'.admitted = server.admitted
      /\ server'.receipt = server.receipt
  BY <1>3 DEF ReconciliationTypeOK, ServerRecord
<1>5. Moves(server, server')
  BY <1>1, <1>2, <1>4 DEF Moves, ReconciliationTypeOK, ServerRecord
<1> QED
  BY <1>4, <1>5, ServerMoves

LEMMA NextServer == ReconciliationInvariant /\ [Next]_vars => ServerNext
<1> SUFFICES ASSUME ReconciliationInvariant, [Next]_vars PROVE ServerNext
  OBVIOUS
<1> USE DEF ReconciliationInvariant
<1>1. CASE Operator
  <2>1. CASE Quit
    <3>1. PICK served \in BOOLEAN : (served => channel # <<>>) /\ server' = LeftBehind(served)
      BY <2>1 DEF Quit
    <3> QED
      BY <3>1, ServerLeft
  <2>2. CASE ~Quit
    <3>1. server' = server
      BY <1>1, <2>2 DEF Operator, Start, BeginComplete, BeginCancel, BeginDelete, Stopping, ConfigChange
    <3> QED
      BY <3>1, ServerSame
  <2> QED
    BY <2>1, <2>2
<1>2. CASE Processes
  <2>1. ASSUME NEW served \in BOOLEAN, Break(served) \/ Crash(served) PROVE ServerNext
    BY <2>1, ServerLeft DEF Break, Crash, Gone
  <2>2. ASSUME NEW t \in Tasks, CrashApplying(t) PROVE ServerNext
    BY <2>2, ServerLeft DEF CrashApplying, Gone
  <2>3. ASSUME NEW r \in Requests, InterruptForQuit(r) PROVE ServerNext
    BY <2>3, ServerSame DEF InterruptForQuit
  <2>4. CASE Launch
    BY <2>4, RecoveredMoves, ServerMoves DEF Launch, ReconciliationTypeOK
  <2>5. CASE ClearModel
    BY <2>5, ServerAuthorized DEF ClearModel
  <2>6. CASE SyncModel
    <3>1. native.generation \in Nat
      BY DEF ReconciliationTypeOK, NativeRecord
    <3> QED
      BY <2>6, <3>1, ServerAuthorized DEF SyncModel
  <2> QED
    BY <1>2, <2>1, <2>2, <2>3, <2>4, <2>5, <2>6 DEF Processes
<1>3. CASE Answer
  BY <1>3, HeadAsks, CallServed DEF Answer, ServesWell, ServerNext
<1>4. ASSUME NEW t \in Tasks, Reads(t) \/ GiveUp(t) \/ Cancels(t) \/ Deletes(t) PROVE ServerNext
  <2>1. server' = server
    BY <1>4 DEF Reads, GiveUp, Cancels, Deletes, Dispatch, Admitted, Poll, Stop, Replay, ApplyPoll,
                Unanswered, SendCancel, Receipt, Reap, Reaped, Conclude, SendDelete, Acknowledge, Erase,
                Fail
  <2> QED
    BY <2>1, ServerSame
<1>5. ASSUME NEW r \in Requests, StartRun(r) \/ Emit(r) \/ FinishRun(r) PROVE ServerNext
  BY <1>5, ServerWorks
<1>6. CASE UNCHANGED vars
  BY <1>6, ServerSame DEF vars
<1> QED
  BY <1>1, <1>2, <1>3, <1>4, <1>5, <1>6 DEF Next
-----------------------------------------------------------------------------
(* The client's database                                                   *)

\* What is true of a reply, and who relies on it, stays.
RowKept(r) ==
    Known(r) =>
        /\ request'[r].status # "none" /\ request'[r].workspace = request[r].workspace
        /\ Sent(r) => request'[r].dispatched \/ request'[r].status = "deleted"
        /\ request'[r].status # "deleted" =>
              /\ request[r].status # "deleted"
              /\ request[r].workspace \in native.sessions => request[r].workspace \in native'.sessions
        /\ request'[r].status = "pending" =>
              /\ request[r].status = "pending"
              /\ request[r].cancelRequested =>
                    request'[r].cancelRequested /\ request'[r].dispatched = request[r].dispatched

\* The client's state after any step
ClientNext ==
    /\ native' \in NativeRecord /\ request' \in [Requests -> RequestRecord]
    /\ native'.owners \subseteq native'.live
    /\ native.owners \subseteq native'.owners \cup server'.gone
    /\ \A r \in Requests : RowKept(r) /\ RowOK(r)'

LEMMA RowStays ==
    ASSUME ReconciliationTypeOK, ServerNext, NEW r \in Requests, RowOK(r), request'[r] = request[r],
           native'.live \subseteq native.live,
           Shown(r) => /\ request[r].workspace \in native'.live
                       /\ request[r].workspace \in native.sessions => request[r].workspace \in native'.sessions
    PROVE  RowKept(r) /\ RowOK(r)'
<1>1. RowKept(r)
  BY DEF RowKept, Known, Shown, Sent
<1>2. /\ server'.seq[r] \in Nat /\ server.seq[r] \in Nat /\ request[r].cursor \in Nat
      /\ server.seq[r] <= server'.seq[r]
  BY DEF ServerNext, ServerRecord, ReconciliationTypeOK, RequestRecord, Grows
<1>3. request[r].status = "complete" => server'.run[r] = "succeeded" /\ request[r].cursor = server'.seq[r]
  BY DEF RowOK, ServerNext, Grows, Terminal
<1>4. request[r].status = "cancelled" => Finished(r)'
  BY DEF RowOK, ServerNext, Grows, Finished, Sent
<1>5. request[r].cursor <= server'.seq[r]
  BY <1>2 DEF RowOK
<1>6. RowOK(r)'
  BY <1>3, <1>4, <1>5 DEF RowOK, Known, Shown
<1> QED
  BY <1>1, <1>6

\* A step that changes what the client holds of the workspaces, and no reply
LEMMA RowsSame ==
    ASSUME ReconciliationTypeOK, ServerNext, \A r \in Requests : RowOK(r), request' = request,
           native' \in NativeRecord, native'.live = native.live,
           native.sessions \subseteq native'.sessions, native'.owners \subseteq native'.live,
           native.owners \subseteq native'.owners \cup server'.gone
    PROVE  ClientNext
<1>1. \A r \in Requests : RowKept(r) /\ RowOK(r)'
  <2> SUFFICES ASSUME NEW r \in Requests PROVE RowKept(r) /\ RowOK(r)'
    OBVIOUS
  <2>1. Shown(r) => request[r].workspace \in native'.live
    BY DEF RowOK
  <2> QED
    BY <2>1, RowStays
<1> QED
  BY <1>1 DEF ClientNext, ReconciliationTypeOK

\* A pending reply of which the pages stay as they are
LEMMA RowChanges ==
    ASSUME ReconciliationTypeOK, ServerNext, NEW r \in Requests, RowOK(r),
           request[r].status = "pending", NEW q \in RequestRecord, request'[r] = q,
           q.workspace = request[r].workspace, q.cursor = request[r].cursor, q.shown = request[r].shown,
           q.status \in {"pending", "error", "cancelled", "fenced"},
           request[r].dispatched => q.dispatched,
           request[r].cancelRequested => q.cancelRequested /\ q.dispatched = request[r].dispatched,
           q.status = "cancelled" => Finished(r) /\ q.dispatched = request[r].dispatched,
           q.run # Nil => q.workspace \in native'.sessions,
           native'.live = native.live, native.sessions \subseteq native'.sessions
    PROVE  RowKept(r) /\ RowOK(r)'
<1>1. RowKept(r)
  BY DEF RowKept, Known, Shown, Sent
<1>2. /\ server'.seq[r] \in Nat /\ server.seq[r] \in Nat /\ request[r].cursor \in Nat
      /\ server.seq[r] <= server'.seq[r]
  BY DEF ServerNext, ServerRecord, ReconciliationTypeOK, RequestRecord, Grows
<1>3. q.status = "cancelled" => Finished(r)'
  BY DEF ServerNext, Grows, Finished, Sent
<1>4. q.cursor <= server'.seq[r]
  BY <1>2 DEF RowOK
<1>5. RowOK(r)'
  BY <1>3, <1>4 DEF RowOK, Known, Shown
<1> QED
  BY <1>1, <1>5

\* ... and the other replies
LEMMA RowsChange ==
    ASSUME ReconciliationTypeOK, ServerNext, \A x \in Requests : RowOK(x), NEW r \in Requests,
           request[r].status = "pending",
           NEW q \in RequestRecord, request' = [request EXCEPT ![r] = q],
           q.workspace = request[r].workspace, q.cursor = request[r].cursor, q.shown = request[r].shown,
           q.status \in {"pending", "error", "cancelled", "fenced"},
           request[r].dispatched => q.dispatched,
           request[r].cancelRequested => q.cancelRequested /\ q.dispatched = request[r].dispatched,
           q.status = "cancelled" => Finished(r) /\ q.dispatched = request[r].dispatched,
           q.run # Nil => q.workspace \in native'.sessions,
           native' \in NativeRecord, native'.live = native.live,
           native.sessions \subseteq native'.sessions, native'.owners \subseteq native'.live,
           native.owners \subseteq native'.owners \cup server'.gone
    PROVE  ClientNext
<1>1. request' \in [Requests -> RequestRecord] /\ request'[r] = q
  BY DEF ReconciliationTypeOK
<1>2. RowKept(r) /\ RowOK(r)'
  BY <1>1, RowChanges
<1>3. ASSUME NEW x \in Requests, x # r PROVE RowKept(x) /\ RowOK(x)'
  <2>1. request'[x] = request[x] /\ RowOK(x)
    BY <1>3 DEF ReconciliationTypeOK
  <2>2. Shown(x) => request[x].workspace \in native'.live
    BY <2>1 DEF RowOK
  <2> QED
    BY <2>1, <2>2, RowStays
<1> QED
  BY <1>1, <1>2, <1>3 DEF ClientNext

\* The client knows and owns more of the same workspaces.
Grown(n) ==
    /\ n \in NativeRecord /\ n.live = native.live /\ native.sessions \subseteq n.sessions
    /\ native.owners \subseteq n.owners /\ n.owners \subseteq native.live

LEMMA GrownSame == ReconciliationTypeOK /\ ServerOK => Grown(native)
BY DEF Grown, ReconciliationTypeOK, ServerOK

LEMMA GrownOwn ==
    ASSUME ReconciliationTypeOK, NEW n, Grown(n), NEW w \in native.live
    PROVE  Grown(Own(n, w)) /\ Own(n, w).sessions = n.sessions /\ w \in Own(n, w).owners
BY DEF Grown, Own, NativeRecord, ReconciliationTypeOK

LEMMA GrownInitialized ==
    ASSUME ReconciliationTypeOK, NEW n, Grown(n), NEW w \in native.live
    PROVE  Grown(Initialized(n, w)) /\ w \in Initialized(n, w).sessions
BY DEF Grown, Initialized, NativeRecord, ReconciliationTypeOK

LEMMA GrownReleased ==
    ASSUME NEW n, Grown(n), NEW r
    PROVE  Grown(Released(n, r)) /\ Released(n, r).sessions = n.sessions /\ Released(n, r).owners = n.owners
<1>1. Released(n, r) \in NativeRecord
  BY DEF Grown, Released, NativeRecord
<1> QED
  BY <1>1 DEF Grown, Released, NativeRecord

LEMMA GrownQuiet ==
    ASSUME NEW n, Grown(n)
    PROVE  Grown(Quiet(n)) /\ Quiet(n).sessions = n.sessions
<1>1. Quiet(n) \in NativeRecord
  BY DEF Grown, Quiet, NativeRecord
<1> QED
  BY <1>1 DEF Grown, Quiet, NativeRecord

LEMMA RowsGrown ==
    ASSUME ReconciliationTypeOK, ServerNext, \A r \in Requests : RowOK(r), request' = request,
           Grown(native')
    PROVE  ClientNext
BY RowsSame DEF Grown

\* What a reply that is pending, and the command that serves it, agree on
LEMMA PendingServed ==
    ASSUME ReconciliationTypeOK, \A r \in Requests : RowOK(r), NEW t \in Tasks, TaskOK(t),
           Pending(task[t].request), task[t].at \in Reading \cup Fencing
    PROVE  /\ task[t].request \in Requests /\ request[task[t].request].status = "pending"
           /\ task[t].workspace = request[task[t].request].workspace
           /\ task[t].workspace \in native.live
           /\ task[t].run # Nil => task[t].workspace \in native.sessions
BY DEF TaskOK, RowOK, Pending, Known, Shown

\* The events of a page follow those shown, and the latest of them are kept.
LEMMA ShownAdvances ==
    ASSUME NEW s \in Seq(Nat), NEW c \in Nat, NEW n \in Nat, Len(s) <= c, c <= n,
           \A i \in 1..Len(s) : s[i] = c - (Len(s) - i)
    PROVE  LET u == LastShown(s \o [i \in 1..(n - c) |-> c + i]) IN
           /\ u \in Seq(Nat) /\ Len(u) <= n
           /\ \A i \in 1..Len(u) : u[i] = n - (Len(u) - i)
<1>1. PICK e : e = [i \in 1..(n - c) |-> c + i]
  OBVIOUS
<1>2. n - c \in Nat /\ e \in Seq(Nat) /\ Len(e) = n - c /\ \A i \in 1..(n - c) : e[i] = c + i
  BY <1>1
<1>3. PICK v : v = s \o e
  OBVIOUS
<1>4. /\ v \in Seq(Nat) /\ Len(v) = Len(s) + (n - c) /\ Len(s) \in Nat
      /\ \A i \in 1..Len(v) : v[i] = IF i <= Len(s) THEN s[i] ELSE e[i - Len(s)]
  <2>1. Len(s) \in Nat /\ Len(e) \in Nat
    BY <1>2
  <2>2. v \in Seq(Nat) /\ Len(v) = Len(s) + Len(e)
    BY <1>2, <1>3, ConcatProperties
  <2>3. \A i \in 1..(Len(s) + Len(e)) : v[i] = IF i <= Len(s) THEN s[i] ELSE e[i - Len(s)]
    BY <1>2, <1>3, ConcatProperties
  <2> QED
    BY <1>2, <2>1, <2>2, <2>3
<1>5. \A i \in 1..Len(v) : v[i] = n - (Len(v) - i)
  <2> SUFFICES ASSUME NEW i \in 1..Len(v) PROVE v[i] = n - (Len(v) - i)
    OBVIOUS
  <2>1. CASE i <= Len(s)
    <3>1. i \in 1..Len(s) /\ s[i] = c - (Len(s) - i)
      BY <1>4, <2>1
    <3> QED
      BY <1>4, <2>1, <3>1
  <2>2. CASE ~(i <= Len(s))
    <3>1. i - Len(s) \in 1..(n - c) /\ e[i - Len(s)] = c + (i - Len(s))
      BY <1>2, <1>4, <2>2
    <3> QED
      BY <1>4, <2>2, <3>1
  <2> QED
    BY <2>1, <2>2
<1>6. Len(v) <= n /\ MaxShown \in Nat \ {0}
  BY <1>4, ReconciliationAssumption
<1>7. CASE Len(v) > MaxShown
  <2>1. PICK u : u = SubSeq(v, Len(v) - MaxShown + 1, Len(v)) /\ u = LastShown(v)
    BY <1>7 DEF LastShown
  <2>2. /\ u \in Seq(Nat) /\ Len(u) = MaxShown
        /\ \A i \in 1..MaxShown : u[i] = v[Len(v) - MaxShown + i]
    <3> DEFINE p == Len(v) - MaxShown + 1
    <3>1. /\ p \in Int /\ Len(v) \in Int /\ p <= Len(v)
          /\ Len(v) - p + 1 = MaxShown
          /\ \A i \in 1..MaxShown : p + i - 1 = Len(v) - MaxShown + i
      BY <1>4, <1>6, <1>7
    <3>2. \A i \in p..Len(v) : v[i] \in Nat
      BY <1>4, <1>6, <1>7
    <3> HIDE DEF p
    <3>3. /\ SubSeq(v, p, Len(v)) \in Seq(Nat)
          /\ Len(SubSeq(v, p, Len(v))) = MaxShown
          /\ \A i \in 1..MaxShown : SubSeq(v, p, Len(v))[i] = v[p + i - 1]
      BY <3>1, <3>2, SubSeqProperties
    <3> QED
      BY <2>1, <3>1, <3>3 DEF p
  <2>3. \A i \in 1..Len(u) : u[i] = n - (Len(u) - i)
    <3> SUFFICES ASSUME NEW i \in 1..MaxShown PROVE u[i] = n - (MaxShown - i)
      BY <2>2
    <3>1. Len(v) - MaxShown + i \in 1..Len(v)
      BY <1>4, <1>6, <1>7
    <3>2. v[Len(v) - MaxShown + i] = n - (Len(v) - (Len(v) - MaxShown + i))
      BY <1>5, <3>1
    <3> QED
      BY <1>4, <1>6, <2>2, <3>2
  <2>4. Len(u) <= n
    BY <1>4, <1>6, <1>7, <2>2
  <2>5. u = LastShown(s \o [i \in 1..(n - c) |-> c + i])
    BY <1>1, <1>3, <2>1
  <2> QED
    BY <2>2, <2>3, <2>4, <2>5
<1>8. CASE ~(Len(v) > MaxShown)
  <2>1. LastShown(v) = v
    BY <1>8 DEF LastShown
  <2> QED
    BY <1>1, <1>3, <1>4, <1>5, <1>6, <2>1
<1> QED
  BY <1>7, <1>8

\* A page that a reader accepts, applied
LEMMA PageApplied ==
    ASSUME ReconciliationInvariant, ServerNext, NEW t \in Tasks, HasPage(t), Accepted(t),
           request' = Applied(task[t].request, task[t].reply), Grown(native'),
           task[t].workspace \in native'.sessions
    PROVE  ClientNext
<1> USE DEF ReconciliationInvariant
<1>1. PICK r \in Requests, y \in Pages : /\ r = task[t].request /\ y = task[t].reply
                                         /\ AnswerOK(server, r, task[t].workspace, y)
  <2>1. task[t] \in TaskRecord /\ task[t].reply.kind = "page" /\ task[t].reply # Nil
    BY DEF HasPage, ReconciliationTypeOK
  <2>2. task[t].reply \in Pages
    BY <2>1 DEF TaskRecord, Verdicts, Receipts
  <2>3. task[t].request \in Requests
    BY DEF TaskOK, HasPage, Reading
  <2> QED
    BY <2>1, <2>2, <2>3 DEF TaskOK
<1>2. /\ Current(r) /\ request[r].status = "pending" /\ y.from = request[r].cursor
      /\ request[r].workspace \in native.live /\ request[r].workspace \in native'.sessions
      /\ request[r].cancelRequested = FALSE
  BY <1>1, PendingServed DEF Accepted, Current, Pending, Follows, HasPage, Reading, ReconciliationTypeOK,
                             RequestRecord
<1>3. PICK q : q = request[r] /\ q \in RequestRecord /\ RowOK(r)
  BY <1>1 DEF ReconciliationTypeOK
<1>4. /\ y.state \in RunStates \ {"none"} /\ y.from \in Nat /\ y.next \in Nat /\ y.last \in Nat
      /\ y.from <= y.next /\ y.next <= y.last /\ y.last <= server.seq[r] /\ server.seq[r] \in Nat
      /\ server'.seq[r] \in Nat /\ server.seq[r] <= server'.seq[r]
  BY <1>1 DEF Pages, AnswerOK, ReconciliationTypeOK, ServerRecord, ServerNext, Grows
<1>5. PICK u : u = LastShown(q.shown \o [i \in 1..(y.next - y.from) |-> y.from + i])
  OBVIOUS
<1>6. u \in Seq(Nat) /\ Len(u) <= y.next /\ \A i \in 1..Len(u) : u[i] = y.next - (Len(u) - i)
  <2>1. PICK s \in Seq(Nat), c \in Nat, n \in Nat : s = q.shown /\ c = q.cursor /\ n = y.next
    BY <1>3, <1>4 DEF RequestRecord
  <2>2. c = y.from /\ Len(s) <= c /\ c <= n /\ \A i \in 1..Len(s) : s[i] = c - (Len(s) - i)
    BY <1>2, <1>3, <1>4, <2>1 DEF RowOK
  <2>3. u = LastShown(s \o [i \in 1..(n - c) |-> c + i])
    BY <1>5, <2>1, <2>2
  <2> QED
    BY <2>1, <2>2, <2>3, ShownAdvances
<1>7. PICK z \in {"pending", "complete", "cancelled", "error"} :
          z = IF Whole(y) THEN Outcome(y.state) ELSE q.status
  BY <1>2, <1>3 DEF Outcome
<1>8. PICK p : p = [q EXCEPT !.cursor = y.next, !.run = y.state, !.shown = u, !.status = z]
  OBVIOUS
<1>9. request' = [request EXCEPT ![r] = p]
  <2>1. PICK a : a = Advanced(q, y)
    OBVIOUS
  <2>2. a = [q EXCEPT !.cursor = y.next, !.run = y.state, !.shown = u]
    BY <1>3, <1>5, <2>1 DEF Advanced, CursorOf, RequestRecord
  <2>3. p = [a EXCEPT !.status = z]
    BY <1>3, <1>8, <2>2 DEF RequestRecord
  <2>4. request' = Applied(r, y)
    BY <1>1
  <2> QED
    BY <1>3, <1>7, <2>1, <2>3, <2>4 DEF Applied
<1>10. /\ p \in RequestRecord /\ p.cursor = y.next /\ p.run = y.state /\ p.shown = u /\ p.status = z
       /\ p.workspace = q.workspace /\ p.dispatched = q.dispatched /\ p.cancelRequested = q.cancelRequested
  BY <1>3, <1>4, <1>6, <1>7, <1>8 DEF RequestRecord, Statuses
<1>11. request' \in [Requests -> RequestRecord] /\ request'[r] = p
  BY <1>9, <1>10 DEF ReconciliationTypeOK
<1>12. z # "pending" => /\ y.state \in Terminal /\ y.next = y.last
                        /\ server'.run[r] = y.state /\ server'.seq[r] = y.last
  <2>1. z # "pending" => Whole(y)
    BY <1>2, <1>3, <1>7
  <2>2. Whole(y) => y.state \in Terminal /\ y.more = FALSE
    BY <1>1 DEF Whole, Pages
  <2>3. y.state \in Terminal => server'.run[r] = y.state /\ server'.seq[r] = y.last
    BY <1>1 DEF AnswerOK, Pages, ServerNext, Grows
  <2>4. y.more = FALSE => y.next = y.last
    BY <1>1 DEF AnswerOK, Pages
  <2> QED
    BY <2>1, <2>2, <2>3, <2>4
<1>13. z = "complete" => y.state = "succeeded"
  BY <1>2, <1>3, <1>7 DEF Outcome
<1>14. RowKept(r)
  BY <1>2, <1>3, <1>10, <1>11 DEF RowKept, Known, Sent
<1>15. RowOK(r)'
  <2>1. p.cursor <= server'.seq[r] /\ Len(p.shown) <= p.cursor
    BY <1>4, <1>6, <1>10
  <2>2. z = "cancelled" => Finished(r)'
    BY <1>12 DEF Finished
  <2>3. p.workspace \in Workspaces /\ p.workspace \in native'.live /\ p.workspace \in native'.sessions
    BY <1>2, <1>3, <1>10 DEF Grown, ReconciliationTypeOK, NativeRecord
  <2>4. p.cancelRequested = FALSE
    BY <1>2, <1>3, <1>10
  <2>5. p.status \notin {"none", "deleted"}
    BY <1>7, <1>10
  <2> QED
    BY <1>6, <1>7, <1>10, <1>11, <1>12, <1>13, <2>1, <2>2, <2>3, <2>4, <2>5 DEF RowOK, Known, Shown
<1>16. ASSUME NEW x \in Requests, x # r PROVE RowKept(x) /\ RowOK(x)'
  <2>1. request'[x] = request[x] /\ RowOK(x)
    BY <1>9, <1>16 DEF ReconciliationTypeOK
  <2>2. Shown(x) => request[x].workspace \in native'.live
    BY <2>1 DEF RowOK, Grown
  <2> QED
    BY <2>1, <2>2, RowStays DEF Grown
<1> QED
  BY <1>11, <1>14, <1>15, <1>16 DEF ClientNext, Grown

LEMMA ClientFails ==
    ASSUME ReconciliationInvariant, ServerNext, NEW t \in Tasks, Fail(t) PROVE ClientNext
<1>1. Grown(native') /\ request' = request
  BY GrownSame, GrownReleased DEF Fail, ReconciliationInvariant
<1> QED
  BY <1>1, RowsGrown DEF ReconciliationInvariant

LEMMA ClientStarts ==
    ASSUME ReconciliationInvariant, ServerNext, NEW r \in Requests, NEW w \in Workspaces, Start(r, w)
    PROVE  ClientNext
<1> USE DEF ReconciliationInvariant
<1>1. PICK b \in BOOLEAN : b = (w \notin native.sessions /\ Said(w))
  OBVIOUS
<1>2. PICK g \in Nat : g = native.generation
  BY DEF ReconciliationTypeOK, NativeRecord
<1>3. PICK q : q = [NoRequest EXCEPT !.workspace = w, !.generation = g, !.status = "pending", !.imports = b]
  OBVIOUS
<1>4. /\ request' = [request EXCEPT ![r] = q] /\ native' = native /\ w \in native.live
      /\ request[r].status = "none"
  BY <1>1, <1>2, <1>3 DEF Start
<1>5. /\ q \in RequestRecord /\ q.workspace = w /\ q.status = "pending" /\ q.run = Nil /\ q.cursor = 0
      /\ q.shown = <<>> /\ q.cancelRequested = FALSE
  <2>1. q = [workspace |-> w, generation |-> g, imports |-> b, dispatched |-> FALSE,
             cancelRequested |-> FALSE, cursor |-> 0, shown |-> <<>>, run |-> Nil, status |-> "pending"]
    BY <1>3 DEF NoRequest
  <2>2. <<>> \in Seq(Nat)
    OBVIOUS
  <2> QED
    BY <2>1, <2>2 DEF RequestRecord, Statuses
<1>6. request' \in [Requests -> RequestRecord] /\ request'[r] = q
  BY <1>4, <1>5 DEF ReconciliationTypeOK
<1>7. RowKept(r)
  BY <1>4 DEF RowKept, Known
<1>8. RowOK(r)'
  <2>1. server'.seq[r] \in Nat
    BY DEF ServerNext, ServerRecord
  <2> QED
    BY <1>4, <1>5, <1>6, <2>1 DEF RowOK, Known, Shown
<1>9. ASSUME NEW x \in Requests, x # r PROVE RowKept(x) /\ RowOK(x)'
  <2>1. request'[x] = request[x] /\ RowOK(x)
    BY <1>4, <1>9 DEF ReconciliationTypeOK
  <2>2. Shown(x) => request[x].workspace \in native'.live
    BY <1>4, <2>1 DEF RowOK
  <2> QED
    BY <1>4, <2>1, <2>2, RowStays
<1> QED
  BY <1>4, <1>6, <1>7, <1>8, <1>9 DEF ClientNext, ReconciliationTypeOK, ServerOK

LEMMA ClientConfigures ==
    ASSUME ReconciliationInvariant, ServerNext, ConfigChange PROVE ClientNext
<1> USE DEF ReconciliationInvariant
<1>1. Grown(native')
  <2>1. PICK n : n = Untokened(native, Requests)
    OBVIOUS
  <2>2. n \in NativeRecord /\ n.live = native.live /\ n.sessions = native.sessions /\ n.owners = native.owners
        /\ n.generation \in Nat
    BY <2>1 DEF Untokened, ReconciliationTypeOK, NativeRecord
  <2>3. native' = [n EXCEPT !.generation = @ + 1, !.ready = FALSE]
    BY <2>1 DEF ConfigChange
  <2>4. PICK g \in Nat : g = n.generation + 1
    BY <2>2
  <2>5. native' = [n EXCEPT !.generation = g, !.ready = FALSE]
    BY <2>3, <2>4
  <2> QED
    BY <2>2, <2>5 DEF Grown, NativeRecord, ServerOK, ReconciliationTypeOK
<1>2. request' = [r \in Requests |-> IF r \in PendingRequests THEN [request[r] EXCEPT !.status = "fenced"]
                                     ELSE request[r]]
  BY DEF ConfigChange
<1>3. request' \in [Requests -> RequestRecord]
  <2>1. \A r \in Requests : request[r] \in RequestRecord /\ [request[r] EXCEPT !.status = "fenced"] \in RequestRecord
    BY DEF ReconciliationTypeOK, RequestRecord, Statuses
  <2> QED
    BY <1>2, <2>1
<1>4. ASSUME NEW r \in Requests PROVE RowKept(r) /\ RowOK(r)'
  <2>1. CASE r \in PendingRequests
    <3>1. PICK q : q = [request[r] EXCEPT !.status = "fenced"]
      OBVIOUS
    <3>2. request[r] \in RequestRecord /\ request[r].status = "pending" /\ request'[r] = q
      BY <1>2, <2>1, <3>1 DEF PendingRequests, ReconciliationTypeOK
    <3>3. /\ q \in RequestRecord /\ q.status = "fenced" /\ q.workspace = request[r].workspace
          /\ q.cursor = request[r].cursor /\ q.shown = request[r].shown /\ q.run = request[r].run
          /\ q.dispatched = request[r].dispatched /\ q.cancelRequested = request[r].cancelRequested
      BY <3>1, <3>2 DEF RequestRecord, Statuses
    <3>4. q.run # Nil => q.workspace \in native'.sessions
      BY <1>1, <3>2, <3>3 DEF RowOK, Shown, Grown
    <3> QED
      BY <1>1, <3>2, <3>3, <3>4, RowChanges DEF Grown
  <2>2. CASE r \notin PendingRequests
    <3>1. request'[r] = request[r]
      BY <1>2, <2>2
    <3>2. Shown(r) => request[r].workspace \in native'.live
      BY <1>1 DEF RowOK, Grown
    <3> QED
      BY <1>1, <3>1, <3>2, RowStays DEF Grown
  <2> QED
    BY <2>1, <2>2
<1> QED
  BY <1>1, <1>3, <1>4 DEF ClientNext, Grown

LEMMA ClientDispatches ==
    ASSUME ReconciliationInvariant, ServerNext, NEW t \in Tasks, Dispatch(t) PROVE ClientNext
<1> USE DEF ReconciliationInvariant
<1>1. CASE Fail(t)
  BY <1>1, ClientFails
<1>2. CASE ~Fail(t)
  <2>1. PICK r : r = task[t].request
    OBVIOUS
  <2>2. /\ Current(r) /\ request' = [request EXCEPT ![r].dispatched = TRUE]
        /\ \/ native' = Own(native, task[t].workspace)
           \/ native' = Released(Own(native, task[t].workspace), r)
    BY <1>2, <2>1 DEF Dispatch
  <2>3. r \in Requests /\ request[r].status = "pending" /\ task[t].workspace \in native.live
    BY <2>1, <2>2, PendingServed DEF Dispatch, Reading, Current
  <2>4. Grown(native')
    BY <2>2, <2>3, GrownSame, GrownOwn, GrownReleased
  <2>5. PICK q : q = [request[r] EXCEPT !.dispatched = TRUE]
    OBVIOUS
  <2>6. request[r] \in RequestRecord /\ request' = [request EXCEPT ![r] = q] /\ ~request[r].cancelRequested
    BY <2>2, <2>3, <2>5 DEF ReconciliationTypeOK, Current
  <2>7. /\ q \in RequestRecord /\ q.status = "pending" /\ q.workspace = request[r].workspace
        /\ q.cursor = request[r].cursor /\ q.shown = request[r].shown /\ q.run = request[r].run
        /\ q.dispatched /\ q.cancelRequested = request[r].cancelRequested
    BY <2>3, <2>5, <2>6 DEF RequestRecord
  <2>8. q.run # Nil => q.workspace \in native'.sessions
    BY <2>3, <2>4, <2>7 DEF RowOK, Shown, Grown
  <2> QED
    BY <2>3, <2>4, <2>6, <2>7, <2>8, RowsChange DEF Grown
<1> QED
  BY <1>1, <1>2

LEMMA ClientAdmitted ==
    ASSUME ReconciliationInvariant, ServerNext, NEW t \in Tasks, Admitted(t) \/ Replay(t)
    PROVE  ClientNext
<1> USE DEF ReconciliationInvariant
<1>1. CASE Fail(t)
  BY <1>1, ClientFails
<1>2. CASE ~Fail(t)
  <2>1. /\ request' = request
        /\ \/ native' = native
           \/ /\ native' = Initialized(native, task[t].workspace) \/ native' = Own(native, task[t].workspace)
              /\ Current(task[t].request) /\ task[t].at \in Reading
    BY <1>2 DEF Admitted, Replay, Reading
  <2>2. Grown(native')
    BY <2>1, PendingServed, GrownSame, GrownOwn, GrownInitialized DEF Current
  <2> QED
    BY <2>1, <2>2, RowsGrown
<1> QED
  BY <1>1, <1>2

LEMMA ClientApplies ==
    ASSUME ReconciliationInvariant, ServerNext, NEW t \in Tasks, ApplyPoll(t) \/ CrashApplying(t)
    PROVE  ClientNext
<1> USE DEF ReconciliationInvariant
<1>1. CASE Fail(t)
  BY <1>1, ClientFails
<1>2. CASE ~Fail(t)
  <2>1. PICK n : n = Initialized(native, task[t].workspace)
    OBVIOUS
  <2>2. HasPage(t) /\ Accepted(t)
    BY <1>2 DEF ApplyPoll, CrashApplying
  <2>3. Grown(n) /\ task[t].workspace \in n.sessions
    <3>1. task[t].workspace \in native.live
      BY <2>2, PendingServed DEF HasPage, Accepted, Current, Reading
    <3> QED
      BY <2>1, <3>1, GrownSame, GrownInitialized
  <2>4. CASE ApplyPoll(t)
    <3>1. /\ request' = Applied(task[t].request, task[t].reply)
          /\ native' = n \/ native' = Released(n, task[t].request)
      BY <1>2, <2>1, <2>4 DEF ApplyPoll
    <3>2. Grown(native') /\ task[t].workspace \in native'.sessions
      BY <2>3, <3>1, GrownReleased
    <3> QED
      BY <2>2, <3>1, <3>2, PageApplied
  <2>5. CASE CrashApplying(t)
    <3>1. request' = request /\ native' = Quiet(n)
      BY <2>1, <2>5 DEF CrashApplying, FirstWrite
    <3> QED
      BY <2>3, <3>1, GrownQuiet, RowsGrown
  <2> QED
    BY <2>4, <2>5
<1> QED
  BY <1>1, <1>2

\* A stop is recorded before anything is asked of the runtime.
LEMMA ClientStops ==
    ASSUME ReconciliationInvariant, ServerNext, NEW t \in Tasks, NEW r \in Requests, Pending(r),
           NEW kind, Stopping(t, r, kind)
    PROVE  ClientNext
<1> USE DEF ReconciliationInvariant
<1>1. Grown(native')
  BY GrownSame, GrownReleased DEF Stopping
<1>2. PICK q : q = [request[r] EXCEPT !.cancelRequested = TRUE]
  OBVIOUS
<1>3. /\ request[r] \in RequestRecord /\ request' = [request EXCEPT ![r] = q]
      /\ request[r].status = "pending"
  BY <1>2 DEF Stopping, ReconciliationTypeOK, Pending
<1>4. /\ q \in RequestRecord /\ q.status = "pending" /\ q.workspace = request[r].workspace
      /\ q.cursor = request[r].cursor /\ q.shown = request[r].shown /\ q.run = request[r].run
      /\ q.dispatched = request[r].dispatched /\ q.cancelRequested
  BY <1>2, <1>3 DEF RequestRecord
<1>5. q.run # Nil => q.workspace \in native'.sessions
  BY <1>1, <1>3, <1>4 DEF RowOK, Shown, Grown
<1> QED
  BY <1>1, <1>3, <1>4, <1>5, RowsChange DEF Grown

LEMMA ClientReceives ==
    ASSUME ReconciliationInvariant, ServerNext, NEW t \in Tasks, Receipt(t) PROVE ClientNext
<1> USE DEF ReconciliationInvariant
<1>1. CASE native' = native /\ request' = request
  BY <1>1, GrownSame, RowsGrown
<1>2. CASE ~(native' = native /\ request' = request)
  <2>1. PICK r, k, y : /\ r = task[t].request /\ y = task[t].reply
                       /\ k = IF y.run = "none" THEN task[t].run ELSE y.run
    OBVIOUS
  <2>2. /\ Pending(r) /\ y # Nil /\ y.kind = "receipt" /\ request' = [request EXCEPT ![r].run = k]
        /\ native' = IF y.run = "none" THEN native ELSE Initialized(native, task[t].workspace)
        /\ task[t].at = "cancelling"
    BY <1>2, <2>1 DEF Receipt
  <2>3. /\ r \in Requests /\ request[r].status = "pending" /\ task[t].workspace \in native.live
        /\ task[t].workspace = request[r].workspace
        /\ task[t].run # Nil => task[t].workspace \in native.sessions
    BY <2>1, <2>2, PendingServed DEF Fencing
  <2>4. Grown(native') /\ (k # Nil => task[t].workspace \in native'.sessions)
    BY <2>1, <2>2, <2>3, GrownSame, GrownInitialized DEF Grown
  <2>5. k \in RunStates \cup {Nil}
    <3>1. task[t] \in TaskRecord
      BY DEF ReconciliationTypeOK
    <3>2. y \in Receipts
      BY <2>1, <2>2, <3>1 DEF TaskRecord, Verdicts, Pages
    <3> QED
      BY <2>1, <3>1, <3>2 DEF TaskRecord, Receipts
  <2>6. PICK q : q = [request[r] EXCEPT !.run = k]
    OBVIOUS
  <2>7. request[r] \in RequestRecord /\ request' = [request EXCEPT ![r] = q]
    BY <2>2, <2>3, <2>6 DEF ReconciliationTypeOK
  <2>8. /\ q \in RequestRecord /\ q.status = "pending" /\ q.workspace = request[r].workspace
        /\ q.cursor = request[r].cursor /\ q.shown = request[r].shown /\ q.run = k
        /\ q.dispatched = request[r].dispatched /\ q.cancelRequested = request[r].cancelRequested
    BY <2>3, <2>5, <2>6, <2>7 DEF RequestRecord
  <2> QED
    BY <2>3, <2>4, <2>7, <2>8, RowsChange DEF Grown
<1> QED
  BY <1>1, <1>2

LEMMA ClientConcludes ==
    ASSUME ReconciliationInvariant, ServerNext, NEW t \in Tasks, Conclude(t) PROVE ClientNext
<1> USE DEF ReconciliationInvariant
<1>1. CASE request' = request
  BY <1>1, GrownSame, RowsGrown DEF Conclude
<1>2. CASE request' # request
  <2>1. PICK r, k : r = task[t].request /\ k = task[t].run
    OBVIOUS
  <2>2. /\ task[t].at = "concluding" /\ Pending(r) /\ (k = Nil \/ Settled(k))
        /\ request' = [request EXCEPT ![r].status = "cancelled", ![r].run = k] /\ native' = native
    BY <1>2, <2>1 DEF Conclude
  <2>3. /\ r \in Requests /\ request[r].status = "pending" /\ k \in RunStates \cup {Nil}
        /\ task[t].workspace = request[r].workspace
        /\ k # Nil => task[t].workspace \in native.sessions
    <3>1. Pending(task[t].request) /\ task[t].at \in Reading \cup Fencing
      BY <2>1, <2>2 DEF Fencing, Pending
    <3>2. k \in RunStates \cup {Nil}
      BY <2>1 DEF ReconciliationTypeOK, TaskRecord
    <3> QED
      BY <2>1, <3>1, <3>2, PendingServed
  <2>4. Finished(r)
    BY <2>1, <2>2, <2>3 DEF TaskOK, Settled, Finished
  <2>5. PICK q : q = [request[r] EXCEPT !.status = "cancelled", !.run = k]
    OBVIOUS
  <2>6. request[r] \in RequestRecord /\ request' = [request EXCEPT ![r] = q]
    BY <2>2, <2>3, <2>5 DEF ReconciliationTypeOK
  <2>7. /\ q \in RequestRecord /\ q.status = "cancelled" /\ q.workspace = request[r].workspace
        /\ q.cursor = request[r].cursor /\ q.shown = request[r].shown /\ q.run = k
        /\ q.dispatched = request[r].dispatched /\ q.cancelRequested = request[r].cancelRequested
    BY <2>3, <2>5, <2>6 DEF RequestRecord, Statuses
  <2>8. q.run # Nil => q.workspace \in native'.sessions
    BY <2>2, <2>3, <2>7
  <2>9. Grown(native')
    BY <2>2, GrownSame
  <2> QED
    BY <2>3, <2>4, <2>6, <2>7, <2>8, <2>9, RowsChange DEF Grown
<1> QED
  BY <1>1, <1>2

LEMMA ClientInterrupts ==
    ASSUME ReconciliationInvariant, ServerNext, NEW r \in Requests, InterruptForQuit(r)
    PROVE  ClientNext
<1> USE DEF ReconciliationInvariant
<1>1. PICK q : q = [request[r] EXCEPT !.status = "error", !.cancelRequested = TRUE]
  OBVIOUS
<1>2. /\ request[r] \in RequestRecord /\ request' = [request EXCEPT ![r] = q]
      /\ request[r].status = "pending" /\ native' = native
  BY <1>1 DEF InterruptForQuit, Interruptible, ReconciliationTypeOK
<1>3. /\ q \in RequestRecord /\ q.status = "error" /\ q.workspace = request[r].workspace
      /\ q.cursor = request[r].cursor /\ q.shown = request[r].shown /\ q.run = request[r].run
      /\ q.dispatched = request[r].dispatched /\ q.cancelRequested
  BY <1>1, <1>2 DEF RequestRecord, Statuses
<1>4. q.run # Nil => q.workspace \in native'.sessions
  BY <1>2, <1>3 DEF RowOK, Shown
<1> QED
  BY <1>2, <1>3, <1>4, GrownSame, RowsChange DEF Grown

LEMMA ClientAcknowledges ==
    ASSUME ReconciliationInvariant, ServerNext, NEW t \in Tasks, Acknowledge(t) PROVE ClientNext
<1> USE DEF ReconciliationInvariant
<1>1. CASE native' = native
  BY <1>1, GrownSame, RowsGrown DEF Acknowledge
<1>2. CASE native' # native
  <2>1. PICK w : w = task[t].workspace
    OBVIOUS
  <2>2. /\ native' = [native EXCEPT !.owners = @ \ {w}] /\ request' = request
        /\ task[t].reply # Nil /\ task[t].reply.kind = "deleted"
    BY <1>2, <2>1 DEF Acknowledge
  <2>3. w \in server'.gone
    BY <2>1, <2>2 DEF TaskOK, AnswerOK, ServerNext, Grows
  <2>4. /\ native' \in NativeRecord /\ native'.owners = native.owners \ {w}
        /\ native'.live = native.live /\ native'.sessions = native.sessions
    BY <2>2 DEF ReconciliationTypeOK, NativeRecord
  <2> QED
    BY <2>2, <2>3, <2>4, RowsSame DEF ServerOK
<1> QED
  BY <1>1, <1>2

\* What a workspace leaves behind here when it is erased
LEMMA ClientErases ==
    ASSUME ReconciliationInvariant, ServerNext, NEW t \in Tasks, Erase(t) PROVE ClientNext
<1> USE DEF ReconciliationInvariant
<1>1. CASE native' = native /\ request' = request
  BY <1>1, GrownSame, RowsGrown
<1>2. CASE ~(native' = native /\ request' = request)
  <2>1. PICK w : w = task[t].workspace
    OBVIOUS
  <2>2. PICK q : q = [NoRequest EXCEPT !.workspace = w, !.status = "deleted"]
    OBVIOUS
  <2>3. /\ native' = [native EXCEPT !.live = @ \ {w}, !.sessions = @ \ {w}]
        /\ w \in native.live /\ w \notin native.owners
        /\ request' = [r \in Requests |-> IF request[r].workspace = w THEN q ELSE request[r]]
    BY <1>2, <2>1, <2>2 DEF Erase, Erasable
  <2>4. /\ native' \in NativeRecord /\ native'.owners = native.owners
        /\ native'.live = native.live \ {w} /\ native'.sessions = native.sessions \ {w}
        /\ w \in Workspaces
    BY <2>3 DEF ReconciliationTypeOK, NativeRecord
  <2>5. /\ q \in RequestRecord /\ q.workspace = w /\ q.status = "deleted" /\ q.cursor = 0
        /\ q.shown = <<>> /\ q.cancelRequested = FALSE
    <3>1. q = [workspace |-> w, generation |-> 0, imports |-> FALSE, dispatched |-> FALSE,
               cancelRequested |-> FALSE, cursor |-> 0, shown |-> <<>>, run |-> Nil, status |-> "deleted"]
      BY <2>2 DEF NoRequest
    <3>2. <<>> \in Seq(Nat)
      OBVIOUS
    <3> QED
      BY <2>4, <3>1, <3>2 DEF RequestRecord, Statuses
  <2>6. request' \in [Requests -> RequestRecord]
    BY <2>3, <2>5 DEF ReconciliationTypeOK
  <2>7. ASSUME NEW r \in Requests PROVE RowKept(r) /\ RowOK(r)'
    <3>1. CASE request[r].workspace = w
      <4>1. request'[r] = q
        BY <2>3, <3>1
      <4>2. server'.seq[r] \in Nat
        BY DEF ServerNext, ServerRecord
      <4>3. RowKept(r)
        BY <2>5, <3>1, <4>1 DEF RowKept
      <4>4. RowOK(r)'
        BY <2>4, <2>5, <4>1, <4>2 DEF RowOK, Known, Shown
      <4> QED
        BY <4>3, <4>4
    <3>2. CASE request[r].workspace # w
      <4>1. request'[r] = request[r]
        BY <2>3, <3>2
      <4>2. Shown(r) => /\ request[r].workspace \in native'.live
                        /\ request[r].workspace \in native.sessions => request[r].workspace \in native'.sessions
        BY <2>4, <3>2 DEF RowOK
      <4> QED
        BY <2>4, <4>1, <4>2, RowStays
    <3> QED
      BY <3>1, <3>2
  <2> QED
    BY <2>3, <2>4, <2>6, <2>7 DEF ClientNext, ServerOK
<1> QED
  BY <1>1, <1>2

\* Steps of the client's process, which change no reply
LEMMA ClientProcesses ==
    ASSUME ReconciliationInvariant, ServerNext,
           \/ SyncModel \/ Quit \/ Launch
           \/ \E served \in BOOLEAN : Break(served) \/ Crash(served)
           \/ \E t \in Tasks, r \in Requests : BeginComplete(t, r)
    PROVE  ClientNext
<1> USE DEF ReconciliationInvariant
<1>1. CASE \E served \in BOOLEAN : Crash(served)
  BY <1>1, GrownSame, GrownQuiet, RowsGrown DEF Crash
<1>2. CASE SyncModel \/ Quit \/ \E served \in BOOLEAN : Break(served)
  BY <1>2, GrownSame, RowsGrown DEF SyncModel, Quit, Break, Grown, NativeRecord
<1>3. CASE Launch
  <2>1. PICK n \in Nat : n = native.launch + 1
    BY DEF ReconciliationTypeOK, NativeRecord
  <2>2. native' = [native EXCEPT !.up = TRUE, !.launch = n, !.ready = FALSE] /\ request' = request
    BY <1>3, <2>1 DEF Launch
  <2> QED
    BY <2>2, GrownSame, RowsGrown DEF Grown, NativeRecord
<1>4. ASSUME NEW t \in Tasks, NEW r \in Requests, BeginComplete(t, r) PROVE ClientNext
  BY <1>4, GrownSame, RowsGrown DEF BeginComplete, Grown, NativeRecord
<1> QED
  BY <1>1, <1>2, <1>3, <1>4

LEMMA NextClient == ReconciliationInvariant /\ [Next]_vars => ClientNext
<1> SUFFICES ASSUME ReconciliationInvariant, [Next]_vars PROVE ClientNext
  OBVIOUS
<1>0. ServerNext
  BY NextServer
<1> USE <1>0
<1>same. ASSUME native' = native, request' = request PROVE ClientNext
  BY <1>same, GrownSame, RowsGrown DEF ReconciliationInvariant
<1>1. CASE Operator
  <2>1. ASSUME NEW r \in Requests, NEW w \in Workspaces, Start(r, w) PROVE ClientNext
    BY <2>1, ClientStarts
  <2>2. ASSUME NEW t \in Tasks, NEW r \in Requests, BeginComplete(t, r) PROVE ClientNext
    BY <2>2, ClientProcesses
  <2>3. ASSUME NEW t \in Tasks, NEW r \in Requests, BeginCancel(t, r) PROVE ClientNext
    BY <2>3, ClientStops DEF BeginCancel
  <2>4. ASSUME NEW t \in Tasks, NEW w \in Workspaces, BeginDelete(t, w) PROVE ClientNext
    <3>1. ASSUME NEW r \in PendingRequests, Pending(r), Stopping(t, r, "delete") PROVE ClientNext
      BY <3>1, ClientStops DEF PendingRequests
    <3> QED
      BY <2>4, <3>1, <1>same DEF BeginDelete
  <2>5. CASE ConfigChange
    BY <2>5, ClientConfigures
  <2>6. CASE Quit
    BY <2>6, ClientProcesses
  <2> QED
    BY <1>1, <2>1, <2>2, <2>3, <2>4, <2>5, <2>6 DEF Operator
<1>2. CASE Processes
  <2>1. ASSUME NEW served \in BOOLEAN, Break(served) \/ Crash(served) PROVE ClientNext
    BY <2>1, ClientProcesses
  <2>2. ASSUME NEW t \in Tasks, CrashApplying(t) PROVE ClientNext
    BY <2>2, ClientApplies
  <2>3. ASSUME NEW r \in Requests, InterruptForQuit(r) PROVE ClientNext
    BY <2>3, ClientInterrupts
  <2>4. CASE Launch \/ SyncModel
    BY <2>4, ClientProcesses
  <2>5. CASE ClearModel
    BY <2>5, <1>same DEF ClearModel
  <2> QED
    BY <1>2, <2>1, <2>2, <2>3, <2>4, <2>5 DEF Processes
<1>3. CASE Answer
  BY <1>3, <1>same DEF Answer
<1>4. ASSUME NEW t \in Tasks, Reads(t) \/ GiveUp(t) PROVE ClientNext
  <2>1. CASE Dispatch(t)
    BY <2>1, ClientDispatches
  <2>2. CASE Admitted(t) \/ Replay(t)
    BY <2>2, ClientAdmitted
  <2>3. CASE ApplyPoll(t)
    BY <2>3, ClientApplies
  <2>4. CASE Poll(t) \/ Stop(t) \/ Unanswered(t) \/ GiveUp(t)
    BY <2>4, <1>same, ClientFails DEF Poll, Stop, Unanswered, GiveUp
  <2> QED
    BY <1>4, <2>1, <2>2, <2>3, <2>4 DEF Reads
<1>5. ASSUME NEW t \in Tasks, Cancels(t) \/ Deletes(t) PROVE ClientNext
  <2>1. CASE Receipt(t)
    BY <2>1, ClientReceives
  <2>2. CASE Conclude(t)
    BY <2>2, ClientConcludes
  <2>3. CASE Acknowledge(t)
    BY <2>3, ClientAcknowledges
  <2>4. CASE Erase(t)
    BY <2>4, ClientErases
  <2>5. CASE SendCancel(t) \/ Reap(t) \/ Reaped(t) \/ SendDelete(t)
    BY <2>5, <1>same DEF SendCancel, Reap, Reaped, SendDelete
  <2> QED
    BY <1>5, <2>1, <2>2, <2>3, <2>4, <2>5 DEF Cancels, Deletes
<1>6. ASSUME NEW r \in Requests, StartRun(r) \/ Emit(r) \/ FinishRun(r) PROVE ClientNext
  BY <1>6, <1>same DEF StartRun, Emit, FinishRun, Moved
<1>7. CASE UNCHANGED vars
  BY <1>7, <1>same DEF vars
<1> QED
  BY <1>1, <1>2, <1>3, <1>4, <1>5, <1>6, <1>7 DEF Next
-----------------------------------------------------------------------------
(* The commands under way                                                  *)

LEMMA FinishedStays ==
    ASSUME ServerNext, ClientNext, NEW r \in Requests, Finished(r), Known(r),
           request[r].cancelRequested, request'[r].status = "pending"
    PROVE  Finished(r)'
BY DEF Finished, ServerNext, Grows, ClientNext, RowKept, Sent

LEMMA AnswerStays ==
    ASSUME ReconciliationTypeOK, ServerNext, NEW t \in Tasks, task[t].reply # Nil,
           AnswerOK(server, task[t].request, task[t].workspace, task[t].reply)
    PROVE  AnswerOK(server', task[t].request, task[t].workspace, task[t].reply)
<1>1. PICK r, y : r = task[t].request /\ y = task[t].reply
  OBVIOUS
<1>2. y.kind = "page" => y \in Pages
  <2>1. task[t] \in TaskRecord
    BY DEF ReconciliationTypeOK
  <2> QED
    BY <1>1, <2>1 DEF TaskRecord, Verdicts, Receipts
<1>3. y.kind = "page" => y.last <= server'.seq[r]
  <2>1. y.kind = "page" => /\ server.seq[r] \in Nat /\ server'.seq[r] \in Nat /\ y.last \in Nat
                           /\ server.seq[r] <= server'.seq[r] /\ y.last <= server.seq[r]
    BY <1>1, <1>2 DEF AnswerOK, ServerNext, ServerRecord, Grows, ReconciliationTypeOK, Pages
  <2> QED
    BY <2>1
<1> QED
  BY <1>1, <1>3 DEF AnswerOK, ServerNext, Grows

\* A command that waits, and may have been answered
LEMMA TaskWaits ==
    ASSUME ServerNext, ClientNext, NEW t \in Tasks, TaskOK(t), NEW k, task'[t] = k,
           k.at = task[t].at, k.request = task[t].request, k.workspace = task[t].workspace,
           k.run = task[t].run, k.dispatched = task[t].dispatched,
           k.reply # Nil => AnswerOK(server', k.request, k.workspace, k.reply)
    PROVE  TaskOK(t)'
<1>1. PICK r : r = k.request
  OBVIOUS
<1>2. r \in Requests => RowKept(r)
  BY DEF ClientNext
<1>3. k.at \in Fencing => r \in Requests /\ Known(r)
  BY <1>1 DEF TaskOK
<1>4. k.reply # Nil => AnswerOK(server', r, k.workspace, k.reply)
  BY <1>1
<1>5. k.at = "concluding" /\ request'[r].status = "pending" /\ (k.run = Nil \/ Settled(k.run)) => Finished(r)'
  <2>1. k.at = "concluding" => k.at \in Fencing
    BY DEF Fencing
  <2>2. k.at = "concluding" /\ request'[r].status = "pending" =>
           request[r].status = "pending" /\ request[r].cancelRequested
    BY <1>1, <1>2, <1>3, <2>1 DEF TaskOK, RowKept
  <2> QED
    BY <1>1, <1>3, <2>1, <2>2, FinishedStays DEF TaskOK, Settled
<1>6. k.at \in Fencing /\ request'[r].status = "pending" => request'[r].cancelRequested
  BY <1>1, <1>2, <1>3 DEF TaskOK, RowKept
<1>7. k.at = "fencing" /\ ~k.dispatched /\ request'[r].status = "pending" => ~request'[r].dispatched
  <2>1. k.at = "fencing" => k.at \in Fencing
    BY DEF Fencing
  <2> QED
    BY <1>1, <1>2, <1>3, <2>1 DEF TaskOK, RowKept
<1>8. /\ k.at \in Reading \cup Fencing => r \in Requests
      /\ r \in Requests => request'[r].status # "none" /\ request'[r].workspace = k.workspace
      /\ k.at \in Reading \ {"dispatching"} => Sent(r)'
      /\ r \in Requests /\ k.run # Nil /\ Shown(r)' => k.workspace \in native'.sessions
      /\ k.at \in {"reaping", "reading"} => k.run # Nil
  BY <1>1, <1>2 DEF TaskOK, RowKept, Sent, Shown, Known
<1> QED
  BY <1>1, <1>4, <1>5, <1>6, <1>7, <1>8 DEF TaskOK, Known, Settled

LEMMA TaskStays ==
    ASSUME ReconciliationTypeOK, ServerNext, ClientNext, NEW t \in Tasks, TaskOK(t), task'[t] = task[t]
    PROVE  TaskOK(t)'
<1>1. task[t].reply # Nil => AnswerOK(server', task[t].request, task[t].workspace, task[t].reply)
  BY AnswerStays DEF TaskOK
<1> QED
  BY <1>1, TaskWaits

LEMMA TaskAnswered ==
    ASSUME ReconciliationTypeOK, ServerNext, ClientNext, NEW t \in Tasks, TaskOK(t), NEW y,
           task'[t] = [task[t] EXCEPT !.reply = y],
           AnswerOK(server', task[t].request, task[t].workspace, y)
    PROVE  TaskOK(t)'
<1>1. PICK k : k = [task[t] EXCEPT !.reply = y]
  OBVIOUS
<1>2. /\ k.reply = y /\ k.request = task[t].request /\ k.workspace = task[t].workspace
      /\ k.at = task[t].at /\ k.run = task[t].run /\ k.dispatched = task[t].dispatched
  BY <1>1 DEF ReconciliationTypeOK, TaskRecord
<1> QED
  BY <1>1, <1>2, TaskWaits

\* A command whose call was not answered
LEMMA TaskLost ==
    ASSUME ReconciliationTypeOK, ServerNext, ClientNext, NEW t \in Tasks, TaskOK(t),
           task'[t] = [task[t] EXCEPT !.reply = Lost]
    PROVE  TaskOK(t)'
BY TaskAnswered DEF AnswerOK, Lost

\* A command that goes on, with nothing answered
LEMMA TaskGoes ==
    ASSUME ServerNext, ClientNext, NEW t \in Tasks, TaskOK(t), NEW r, r = task[t].request,
           NEW k, task'[t] = k, k.reply = Nil, k.request = r, k.workspace = task[t].workspace,
           k.at # "fencing",
           k.at \in Reading \cup Fencing => r \in Requests,
           k.at \in Reading \ {"dispatching"} => Sent(r) \/ request'[r].dispatched,
           r \in Requests /\ k.run # Nil /\ request'[r].status \notin {"none", "deleted"} =>
               k.workspace \in native'.sessions,
           k.at \in {"reaping", "reading"} => k.run # Nil,
           k.at \in Fencing => task[t].at \in Fencing,
           k.at = "concluding" /\ request[r].status = "pending" /\ (k.run = Nil \/ Settled(k.run))
               => Finished(r)
    PROVE  TaskOK(t)'
<1>2. r \in Requests => RowKept(r) /\ Known(r) /\ request[r].workspace = k.workspace
  BY DEF ClientNext, TaskOK
<1>3. k.at \in Fencing => r \in Requests /\ Known(r)
  BY <1>2
<1>5. k.at = "concluding" /\ request'[r].status = "pending" /\ (k.run = Nil \/ Settled(k.run)) => Finished(r)'
  <2>1. k.at = "concluding" => k.at \in Fencing
    BY DEF Fencing
  <2>2. k.at = "concluding" /\ request'[r].status = "pending" =>
           request[r].status = "pending" /\ request[r].cancelRequested
    BY <1>2, <1>3, <2>1 DEF TaskOK, RowKept
  <2> QED
    BY <1>3, <2>1, <2>2, FinishedStays
<1>6. k.at \in Fencing /\ request'[r].status = "pending" => request'[r].cancelRequested
  BY <1>2, <1>3 DEF TaskOK, RowKept
<1>8. /\ r \in Requests => request'[r].status # "none" /\ request'[r].workspace = k.workspace
      /\ k.at \in Reading \ {"dispatching"} => Sent(r)'
  BY <1>2 DEF RowKept, Sent
<1> QED
  BY <1>5, <1>6, <1>8 DEF TaskOK, Known, Shown, Settled

LEMMA TaskRests ==
    ASSUME NEW t \in Tasks, task'[t] = IdleTask PROVE TaskOK(t)'
BY ReconciliationAssumption DEF TaskOK, IdleTask, Reading, Fencing

\* A command that is told to stop
LEMMA TaskTold ==
    ASSUME ReconciliationTypeOK, ServerNext, ClientNext, NEW t \in Tasks, TaskOK(t),
           task'[t] = [task[t] EXCEPT !.at = "told", !.reply = Nil]
    PROVE  TaskOK(t)'
<1>1. PICK k, r : k = [task[t] EXCEPT !.at = "told", !.reply = Nil] /\ r = task[t].request
  OBVIOUS
<1>2. /\ k.reply = Nil /\ k.request = r /\ k.workspace = task[t].workspace /\ k.at = "told"
      /\ k.run = task[t].run
  BY <1>1 DEF ReconciliationTypeOK, TaskRecord
<1>3. r \in Requests /\ k.run # Nil /\ request'[r].status \notin {"none", "deleted"} =>
          k.workspace \in native'.sessions
  BY <1>1, <1>2 DEF TaskOK, ClientNext, RowKept, Shown, Known
<1> QED
  BY <1>1, <1>2, <1>3, TaskGoes DEF Reading, Fencing

-----------------------------------------------------------------------------
(* The pipe                                                                *)

\* The pipe after any step
PipeNext == channel' \in Seq(CallRecord) /\ CallsOK'

\* No call of t is in the pipe.
Uncalled(t) == \A i \in 1..Len(channel) : channel[i].to # t
Waits == {"admitting", "replaying", "getting", "reading", "cancelling", "deleting"}

LEMMA NobodyCalls ==
    ASSUME CallsOK, NEW t \in Tasks, task[t].at \notin Waits \/ task[t].reply # Nil
    PROVE  Uncalled(t)
<1>1. \A op : Awaits(op) \subseteq Waits
  BY DEF Awaits, Waits
<1> QED
  BY <1>1, ReconciliationAssumption DEF CallsOK, Awaited, Uncalled

LEMMA AsksStays ==
    ASSUME ReconciliationTypeOK, ServerNext, ClientNext, NEW c \in CallRecord, Asks(c) PROVE Asks(c)'
<1>1. c.op \in {"admit", "poll", "cancel"} => RowKept(c.request) /\ c.request \in Requests
  BY DEF Asks, ClientNext
<1>2. c.op = "poll" => c.after <= server'.seq[c.request]
  <2>1. c.op = "poll" => /\ server.seq[c.request] \in Nat /\ server'.seq[c.request] \in Nat /\ c.after \in Nat
                         /\ server.seq[c.request] <= server'.seq[c.request]
    BY <1>1 DEF ServerNext, ServerRecord, Grows, ReconciliationTypeOK, CallRecord
  <2> QED
    BY <2>1 DEF Asks
<1>3. c.op = "admit" => c.workspace \in native'.owners \cup server'.gone
  BY DEF Asks, ServerNext, Grows, ClientNext
<1> QED
  BY <1>1, <1>2, <1>3 DEF Asks, RowKept, Known, Sent

\* A call that stays, of a command that stays
LEMMA CallStays ==
    ASSUME ReconciliationTypeOK, ServerNext, ClientNext, CallsOK,
           \A t \in Tasks : task'[t] # task[t] => Uncalled(t),
           NEW i \in 1..Len(channel), NEW c, c = channel[i]
    PROVE  Asks(c)' /\ Awaited(c)'
<1>1. c \in CallRecord /\ Asks(c) /\ Awaited(c)
  BY DEF CallsOK, ReconciliationTypeOK
<1>2. c.to # Nil => task'[c.to] = task[c.to]
  BY <1>1 DEF CallRecord, Uncalled
<1> QED
  BY <1>1, <1>2, AsksStays DEF Awaited

LEMMA PipeStays ==
    ASSUME ReconciliationTypeOK, ServerNext, ClientNext, CallsOK, channel' = channel,
           \A t \in Tasks : task'[t] # task[t] => Uncalled(t)
    PROVE  PipeNext
<1>1. \A i \in 1..Len(channel) : Asks(channel[i])' /\ Awaited(channel[i])'
  <2> SUFFICES ASSUME NEW i \in 1..Len(channel) PROVE Asks(channel[i])' /\ Awaited(channel[i])'
    OBVIOUS
  <2>1. PICK c : c = channel[i]
    OBVIOUS
  <2>2. Asks(c)' /\ Awaited(c)' /\ c = channel'[i]
    BY <2>1, CallStays
  <2> QED
    BY <2>2 DEF Asks, Awaited
<1> QED
  BY <1>1 DEF PipeNext, CallsOK, ReconciliationTypeOK

LEMMA PipeEmpties == ASSUME channel' = <<>> PROVE PipeNext
<1>1. <<>> \in Seq(CallRecord) /\ 1..Len(<<>>) = {}
  OBVIOUS
<1> QED
  BY <1>1 DEF PipeNext, CallsOK

LEMMA PipeTakes ==
    ASSUME ReconciliationTypeOK, ServerNext, ClientNext, CallsOK, NEW t \in Tasks, Uncalled(t),
           \A x \in Tasks : task'[x] # task[x] => x = t,
           NEW c \in CallRecord, c.to = t, channel' = Append(channel, c), Asks(c)', Awaited(c)'
    PROVE  PipeNext
<1>1. /\ channel' \in Seq(CallRecord) /\ Len(channel') = Len(channel) + 1 /\ Len(channel) \in Nat
      /\ \A i \in 1..Len(channel) : channel'[i] = channel[i]
      /\ channel'[Len(channel) + 1] = c
  BY DEF ReconciliationTypeOK
<1>2. \A i \in 1..Len(channel') : i \in 1..Len(channel) \/ i = Len(channel) + 1
  BY <1>1
<1>3. ASSUME NEW i \in 1..Len(channel') PROVE Asks(channel[i])' /\ Awaited(channel[i])'
  <2>1. CASE i \in 1..Len(channel)
    <3>1. PICK d : d = channel[i]
      OBVIOUS
    <3>2. \A x \in Tasks : task'[x] # task[x] => Uncalled(x)
      OBVIOUS
    <3>3. Asks(d)' /\ Awaited(d)' /\ d = channel'[i]
      BY <1>1, <2>1, <3>1, <3>2, CallStays
    <3> QED
      BY <3>3 DEF Asks, Awaited
  <2>2. CASE i = Len(channel) + 1
    BY <1>1, <2>2 DEF Asks, Awaited
  <2> QED
    BY <1>2, <2>1, <2>2
<1>4. ASSUME NEW i \in 1..Len(channel'), NEW j \in 1..Len(channel'), channel'[i].to # Nil,
             channel'[i].to = channel'[j].to
      PROVE  i = j
  BY <1>1, <1>2, <1>4 DEF CallsOK, Uncalled
<1> QED
  BY <1>1, <1>3, <1>4 DEF PipeNext, CallsOK

LEMMA PipeGives ==
    ASSUME ReconciliationTypeOK, ServerNext, ClientNext, CallsOK, channel # <<>>, channel' = Tail(channel),
           \A x \in Tasks : task'[x] # task[x] => x = Head(channel).to
    PROVE  PipeNext
<1>1. /\ channel' \in Seq(CallRecord) /\ Len(channel') = Len(channel) - 1 /\ Len(channel) \in Nat
      /\ \A i \in 1..Len(channel') : channel'[i] = channel[i + 1] /\ i + 1 \in 1..Len(channel)
      /\ Head(channel) = channel[1] /\ 1 \in 1..Len(channel)
  BY HeadAsks DEF ReconciliationTypeOK
<1>2. ASSUME NEW i \in 1..Len(channel') PROVE Asks(channel[i])' /\ Awaited(channel[i])'
  <2>1. PICK d, j : j = i + 1 /\ d = channel[j]
    OBVIOUS
  <2>2. d \in CallRecord /\ Asks(d) /\ Awaited(d) /\ d = channel'[i] /\ j \in 1..Len(channel) /\ j # 1
    BY <1>1, <2>1 DEF CallsOK, ReconciliationTypeOK
  <2>3. d.to # Nil => d.to # Head(channel).to
    BY <1>1, <2>1, <2>2 DEF CallsOK
  <2>4. d.to # Nil => task'[d.to] = task[d.to]
    BY <2>2, <2>3 DEF CallRecord
  <2>5. Asks(d)' /\ Awaited(d)'
    BY <2>2, <2>4, AsksStays DEF Awaited
  <2> QED
    BY <2>2, <2>5 DEF Asks, Awaited
<1>3. ASSUME NEW i \in 1..Len(channel'), NEW j \in 1..Len(channel'), channel'[i].to # Nil,
             channel'[i].to = channel'[j].to
      PROVE  i = j
  <2>1. i + 1 = j + 1
    BY <1>1, <1>3 DEF CallsOK
  <2>2. i \in Nat /\ j \in Nat
    OBVIOUS
  <2> QED
    BY <2>1, <2>2
<1> QED
  BY <1>1, <1>2, <1>3 DEF PipeNext, CallsOK

\* The calls of T are withdrawn: they stay in their place and are nobody's.
LEMMA PipeWithdraws ==
    ASSUME ReconciliationTypeOK, ServerNext, ClientNext, CallsOK, NEW T \in SUBSET Tasks,
           NEW taken \in BOOLEAN, channel' = Withdrawn(T, taken),
           \A x \in Tasks \ T : task'[x] # task[x] => Uncalled(x)
    PROVE  PipeNext
<1>1. Len(channel) \in Nat /\ DOMAIN channel = 1..Len(channel) /\ \A i \in 1..Len(channel) : channel[i] \in CallRecord
  BY DEF ReconciliationTypeOK
<1>2. PICK n \in Nat : n = Len(channel)
  BY <1>1
<1>3. channel' = [i \in 1..n |-> IF channel[i].to \in T THEN Orphaned(channel[i], taken /\ i = 1) ELSE channel[i]]
  BY <1>1, <1>2 DEF Withdrawn
<1>4. \A i \in 1..n : \/ channel'[i] = channel[i] /\ channel[i].to \notin T
                      \/ channel'[i] = [channel[i] EXCEPT !.to = Nil]
                      \/ channel'[i] = SkippedCall
  BY <1>3 DEF Orphaned
<1>5. \A i \in 1..n : /\ channel'[i] \in CallRecord
                      /\ channel'[i].to # Nil => channel'[i] = channel[i] /\ channel[i].to \notin T
  <2> SUFFICES ASSUME NEW i \in 1..n
               PROVE  /\ channel'[i] \in CallRecord
                      /\ channel'[i].to # Nil => channel'[i] = channel[i] /\ channel[i].to \notin T
    OBVIOUS
  <2>1. SkippedCall \in CallRecord /\ SkippedCall.to = Nil
    BY DEF SkippedCall, CallRecord, Ops
  <2>2. PICK c \in CallRecord : c = channel[i]
    BY <1>1, <1>2
  <2>3. [c EXCEPT !.to = Nil] \in CallRecord /\ [c EXCEPT !.to = Nil].to = Nil
    BY DEF CallRecord
  <2> QED
    BY <1>4, <2>1, <2>2, <2>3
<1>6. channel' \in Seq(CallRecord) /\ Len(channel') = n
  BY <1>3, <1>5, IsASeq
<1>7. ASSUME NEW i \in 1..n PROVE Asks(channel[i])' /\ Awaited(channel[i])'
  <2>1. PICK c \in CallRecord : c = channel[i] /\ Asks(c) /\ Awaited(c)
    BY <1>1, <1>2 DEF CallsOK
  <2>2. Asks(c)'
    BY <2>1, AsksStays
  <2>3. CASE channel'[i] = c /\ c.to \notin T
    <3>1. c.to # Nil => task'[c.to] = task[c.to]
      BY <1>2, <2>1, <2>3 DEF CallRecord, Uncalled
    <3> QED
      BY <2>1, <2>2, <2>3, <3>1 DEF Asks, Awaited
  <2>4. CASE channel'[i] = [c EXCEPT !.to = Nil]
    <3>1. PICK d : d = [c EXCEPT !.to = Nil]
      OBVIOUS
    <3>2. /\ d.to = Nil /\ d.op = c.op /\ d.request = c.request /\ d.workspace = c.workspace
          /\ d.after = c.after
      BY <3>1 DEF CallRecord
    <3> QED
      BY <2>2, <2>4, <3>1, <3>2 DEF Asks, Awaited
  <2>5. CASE channel'[i] = SkippedCall
    BY <2>5 DEF Asks, Awaited, SkippedCall
  <2> QED
    BY <1>4, <2>1, <2>3, <2>4, <2>5
<1>8. ASSUME NEW i \in 1..n, NEW j \in 1..n, channel'[i].to # Nil, channel'[i].to = channel'[j].to
      PROVE  i = j
  BY <1>2, <1>5, <1>8 DEF CallsOK
<1> QED
  BY <1>6, <1>7, <1>8 DEF PipeNext, CallsOK
-----------------------------------------------------------------------------
(* Every step of a command                                                 *)

\* The commands and the pipe after any step
WorkNext ==
    /\ task' \in [Tasks -> TaskRecord] /\ \A t \in Tasks : TaskOK(t)'
    /\ PipeNext

LEMMA IdleTyped == IdleTask \in TaskRecord
BY DEF IdleTask, TaskRecord, Kinds, Points

\* One command moves, and its call, if it has one, has been answered.
LEMMA OneMoves ==
    ASSUME ReconciliationInvariant, ServerNext, ClientNext, NEW t \in Tasks, NEW k \in TaskRecord,
           task' = [task EXCEPT ![t] = k], TaskOK(t)', channel' = channel, Uncalled(t)
    PROVE  WorkNext
<1> USE DEF ReconciliationInvariant
<1>1. task' \in [Tasks -> TaskRecord] /\ \A x \in Tasks : x # t => task'[x] = task[x]
  BY DEF ReconciliationTypeOK
<1>2. \A x \in Tasks : x # t => TaskOK(x)'
  BY <1>1, TaskStays
<1>3. PipeNext
  BY <1>1, PipeStays
<1> QED
  BY <1>1, <1>2, <1>3 DEF WorkNext

LEMMA OneSends ==
    ASSUME ReconciliationInvariant, ServerNext, ClientNext, NEW t \in Tasks, NEW k \in TaskRecord,
           task' = [task EXCEPT ![t] = k], TaskOK(t)', Uncalled(t),
           NEW c \in CallRecord, channel' = Append(channel, c), c.to = t, Asks(c)',
           k.at \in Awaits(c.op), k.reply = Nil, k.request = c.request, k.workspace = c.workspace
    PROVE  WorkNext
<1> USE DEF ReconciliationInvariant
<1>1. task' \in [Tasks -> TaskRecord] /\ task'[t] = k /\ \A x \in Tasks : x # t => task'[x] = task[x]
  BY DEF ReconciliationTypeOK
<1>2. \A x \in Tasks : x # t => TaskOK(x)'
  BY <1>1, TaskStays
<1>3. Awaited(c)'
  BY <1>1 DEF Awaited
<1>4. PipeNext
  BY <1>1, <1>3, PipeTakes
<1> QED
  BY <1>1, <1>2, <1>4 DEF WorkNext

LEMMA OneEnds ==
    ASSUME ReconciliationInvariant, ServerNext, ClientNext, NEW t \in Tasks, task' = Ended(t),
           channel' = channel, Uncalled(t)
    PROVE  WorkNext
<1>1. task' = [task EXCEPT ![t] = IdleTask] /\ task'[t] = IdleTask
  BY DEF Ended, ReconciliationInvariant, ReconciliationTypeOK
<1> QED
  BY <1>1, IdleTyped, TaskRests, OneMoves

\* What must be true of a command that goes on at a
MayGo(t, a) ==
    LET r == task[t].request IN
    /\ a # "fencing"
    /\ a \in Reading \cup Fencing => r \in Requests
    /\ a \in Reading \ {"dispatching"} => Sent(r) \/ request'[r].dispatched
    /\ a \in {"reaping", "reading"} => task[t].run # Nil
    /\ a \in Fencing => task[t].at \in Fencing
    /\ a = "concluding" /\ request[r].status = "pending" /\ (task[t].run = Nil \/ Settled(task[t].run))
          => Finished(r)

LEMMA SessionStays ==
    ASSUME ClientNext, NEW t \in Tasks, TaskOK(t), NEW r \in Requests, r = task[t].request,
           task[t].run # Nil, request'[r].status \notin {"none", "deleted"}
    PROVE  task[t].workspace \in native'.sessions
BY DEF TaskOK, ClientNext, RowKept, Shown, Known

\* The record of a command that goes on
LEMMA GoRecord ==
    ASSUME ReconciliationInvariant, ServerNext, ClientNext, NEW t \in Tasks, NEW a \in Points, MayGo(t, a),
           NEW k, task'[t] = k, k.at = a, k.reply = Nil, k.request = task[t].request,
           k.workspace = task[t].workspace, k.run = task[t].run
    PROVE  TaskOK(t)'
<1>1. TaskOK(t)
  BY DEF ReconciliationInvariant
<1>2. PICK r : r = task[t].request
  OBVIOUS
<1>3. r \in Requests /\ k.run # Nil /\ request'[r].status \notin {"none", "deleted"} =>
          k.workspace \in native'.sessions
  BY <1>1, <1>2, SessionStays
<1>4. k.at = "concluding" /\ request[r].status = "pending" /\ (k.run = Nil \/ Settled(k.run)) => Finished(r)
  BY <1>2 DEF MayGo, Settled
<1>5. /\ k.at # "fencing" /\ k.request = r
      /\ k.at \in Reading \cup Fencing => r \in Requests
      /\ k.at \in Reading \ {"dispatching"} => Sent(r) \/ request'[r].dispatched
      /\ k.at \in {"reaping", "reading"} => k.run # Nil
      /\ k.at \in Fencing => task[t].at \in Fencing
  BY <1>2 DEF MayGo
<1> QED
  BY <1>1, <1>2, <1>3, <1>4, <1>5, TaskGoes

LEMMA OneGoes ==
    ASSUME ReconciliationInvariant, ServerNext, ClientNext, NEW t \in Tasks, NEW a \in Points, MayGo(t, a),
           task' = Go(t, a), channel' = channel, Uncalled(t)
    PROVE  WorkNext
<1>1. PICK k : k = [task[t] EXCEPT !.at = a, !.reply = Nil]
  OBVIOUS
<1>2. task[t] \in TaskRecord
  BY DEF ReconciliationInvariant, ReconciliationTypeOK
<1>3. /\ k \in TaskRecord /\ k.at = a /\ k.reply = Nil /\ k.request = task[t].request
      /\ k.workspace = task[t].workspace /\ k.run = task[t].run
  BY <1>1, <1>2 DEF TaskRecord
<1>4. task' = [task EXCEPT ![t] = k] /\ task'[t] = k
  BY <1>1 DEF Go, ReconciliationInvariant, ReconciliationTypeOK
<1>5. TaskOK(t)'
  BY <1>3, <1>4, GoRecord
<1> QED
  BY <1>3, <1>4, <1>5, OneMoves

LEMMA CallTyped ==
    ASSUME ReconciliationTypeOK, NEW t \in Tasks, NEW op \in Ops, NEW after \in Nat,
           NEW c, c = Call(t, op, after)
    PROVE  /\ c \in CallRecord /\ c.to = t /\ c.op = op /\ c.request = task[t].request
           /\ c.workspace = task[t].workspace /\ c.after = after
<1>1. task[t] \in TaskRecord
  BY DEF ReconciliationTypeOK
<1> QED
  BY <1>1 DEF Call, CallRecord, TaskRecord

LEMMA OneCalls ==
    ASSUME ReconciliationInvariant, ServerNext, ClientNext, NEW t \in Tasks, NEW a \in Points, MayGo(t, a),
           task' = Go(t, a), Uncalled(t), NEW op \in Ops, NEW after \in Nat, a \in Awaits(op),
           NEW c, c = Call(t, op, after), channel' = Append(channel, c), Asks(c)'
    PROVE  WorkNext
<1>1. PICK k : k = [task[t] EXCEPT !.at = a, !.reply = Nil]
  OBVIOUS
<1>2. task[t] \in TaskRecord
  BY DEF ReconciliationInvariant, ReconciliationTypeOK
<1>3. /\ k \in TaskRecord /\ k.at = a /\ k.reply = Nil /\ k.request = task[t].request
      /\ k.workspace = task[t].workspace /\ k.run = task[t].run
  BY <1>1, <1>2 DEF TaskRecord
<1>4. task' = [task EXCEPT ![t] = k] /\ task'[t] = k
  BY <1>1 DEF Go, ReconciliationInvariant, ReconciliationTypeOK
<1>5. TaskOK(t)'
  BY <1>3, <1>4, GoRecord
<1>6. /\ c \in CallRecord /\ c.to = t /\ c.op = op /\ c.request = task[t].request
      /\ c.workspace = task[t].workspace
  BY CallTyped DEF ReconciliationInvariant
<1> QED
  BY <1>3, <1>4, <1>5, <1>6, OneSends

\* A command that calls ends if the pipe takes no call.
LEMMA OneTries ==
    ASSUME ReconciliationInvariant, ServerNext, ClientNext, NEW t \in Tasks, NEW a \in Points, Uncalled(t),
           NEW op \in Ops, NEW after \in Nat, a \in Awaits(op), Send(t, op, after, a, Ended(t)),
           NEW c, c = Call(t, op, after), Open(t) => MayGo(t, a) /\ Asks(c)'
    PROVE  WorkNext
<1>1. CASE Open(t)
  <2>1. task' = Go(t, a) /\ channel' = Append(channel, c)
    BY <1>1 DEF Send
  <2> QED
    BY <1>1, <2>1, OneCalls
<1>2. CASE ~Open(t)
  BY <1>2, OneEnds DEF Send
<1> QED
  BY <1>1, <1>2

LEMMA WorkFails ==
    ASSUME ReconciliationInvariant, ServerNext, ClientNext, NEW t \in Tasks, Fail(t),
           task[t].at \notin Waits \/ task[t].reply # Nil
    PROVE  WorkNext
<1>1. Uncalled(t)
  BY NobodyCalls DEF ReconciliationInvariant
<1> QED
  BY <1>1, OneEnds DEF Fail

\* What a command under way knows of its reply
LEMMA ReplyKnown ==
    ASSUME ReconciliationInvariant, ClientNext, NEW t \in Tasks, task[t].at \in Reading \cup Fencing
    PROVE  /\ task[t].request \in Requests /\ Known(task[t].request) /\ RowKept(task[t].request)
           /\ request[task[t].request].workspace = task[t].workspace
           /\ request'[task[t].request].status # "none"
           /\ request'[task[t].request].workspace = task[t].workspace
<1>1. task[t].request \in Requests /\ Known(task[t].request) /\ request[task[t].request].workspace = task[t].workspace
  BY DEF ReconciliationInvariant, TaskOK
<1> QED
  BY <1>1 DEF ClientNext, RowKept

\* An admission asks for a reply that is sent, of a workspace that is owned.
LEMMA AdmissionAsks ==
    ASSUME ReconciliationInvariant, ClientNext, NEW t \in Tasks, task[t].at \in Reading,
           Sent(task[t].request) \/ request'[task[t].request].dispatched,
           task[t].workspace \in native'.owners, NEW c, c = Call(t, "admit", 0)
    PROVE  Asks(c)'
<1>1. c.op = "admit" /\ c.request = task[t].request /\ c.workspace = task[t].workspace
  BY CallTyped DEF ReconciliationInvariant, Ops
<1> QED
  BY <1>1, ReplyKnown DEF Asks, Known, Sent, RowKept

LEMMA WorkDispatches ==
    ASSUME ReconciliationInvariant, ServerNext, ClientNext, NEW t \in Tasks, Dispatch(t) PROVE WorkNext
<1>1. Uncalled(t)
  BY NobodyCalls DEF Dispatch, Waits, ReconciliationInvariant
<1>2. CASE Fail(t)
  BY <1>1, <1>2, OneEnds DEF Fail
<1>3. CASE ~Fail(t)
  <2>1. PICK r, c : r = task[t].request /\ c = Call(t, "admit", 0)
    OBVIOUS
  <2>2. /\ request' = [request EXCEPT ![r].dispatched = TRUE] /\ task[t].at = "dispatching"
        /\ Open(t) => native' = Own(native, task[t].workspace)
        /\ Send(t, "admit", 0, "admitting", Ended(t)) /\ Current(r)
    BY <1>3, <2>1 DEF Dispatch
  <2>3. r \in Requests /\ request'[r].dispatched
    BY <2>1, <2>2, ReplyKnown DEF Reading, ReconciliationInvariant, ReconciliationTypeOK, RequestRecord
  <2>4. Open(t) => task[t].workspace \in native'.owners
    BY <2>2 DEF Own, ReconciliationInvariant, ReconciliationTypeOK, NativeRecord
  <2>5. Open(t) => Asks(c)'
    BY <2>1, <2>2, <2>3, <2>4, AdmissionAsks DEF Reading
  <2>6. MayGo(t, "admitting")
    BY <2>1, <2>3 DEF MayGo, Reading, Fencing
  <2>7. "admitting" \in Points /\ "admit" \in Ops /\ "admitting" \in Awaits("admit")
    BY DEF Points, Ops, Awaits, Reading
  <2> QED
    BY <1>1, <2>1, <2>2, <2>5, <2>6, <2>7, OneTries
<1> QED
  BY <1>2, <1>3

\* A reader that was admitted, or has a page to follow, polls.
LEMMA WorkPollsOn ==
    ASSUME ReconciliationInvariant, ServerNext, ClientNext, NEW t \in Tasks, task' = Go(t, "polling"),
           channel' = channel, task[t].at \in {"admitting", "replaying", "getting"}, task[t].reply # Nil
    PROVE  WorkNext
<1>1. Uncalled(t)
  BY NobodyCalls DEF ReconciliationInvariant
<1>2. task[t].request \in Requests /\ Sent(task[t].request)
  BY DEF ReconciliationInvariant, TaskOK, Reading
<1>3. MayGo(t, "polling") /\ "polling" \in Points
  BY <1>2 DEF MayGo, Reading, Fencing, Points
<1> QED
  BY <1>1, <1>3, OneGoes

LEMMA WorkAdmitted ==
    ASSUME ReconciliationInvariant, ServerNext, ClientNext, NEW t \in Tasks, Admitted(t) PROVE WorkNext
<1>1. CASE Fail(t)
  BY <1>1, WorkFails DEF Admitted
<1>2. CASE ~Fail(t)
  BY <1>2, WorkPollsOn DEF Admitted
<1> QED
  BY <1>1, <1>2

LEMMA WorkReplays ==
    ASSUME ReconciliationInvariant, ServerNext, ClientNext, NEW t \in Tasks, Replay(t) PROVE WorkNext
<1>1. CASE Fail(t)
  BY <1>1, WorkFails DEF Replay
<1>2. CASE ~Fail(t)
  <2>1. PICK c : c = Call(t, "admit", 0)
    OBVIOUS
  <2>2. /\ native' = Own(native, task[t].workspace) /\ task[t].at = "getting" /\ task[t].reply # Nil
        /\ Send(t, "admit", 0, "replaying", Ended(t))
    BY <1>2 DEF Replay
  <2>3. task[t].request \in Requests /\ Sent(task[t].request)
    BY <2>2 DEF ReconciliationInvariant, TaskOK, Reading
  <2>4. task[t].workspace \in native'.owners
    BY <2>2 DEF Own, ReconciliationInvariant, ReconciliationTypeOK, NativeRecord
  <2>5. Asks(c)'
    BY <2>1, <2>2, <2>3, <2>4, AdmissionAsks DEF Reading
  <2>6. MayGo(t, "replaying")
    BY <2>3 DEF MayGo, Reading, Fencing
  <2>7. "replaying" \in Points /\ "admit" \in Ops /\ "replaying" \in Awaits("admit")
    BY DEF Points, Ops, Awaits, Reading
  <2>8. Uncalled(t)
    BY <2>2, NobodyCalls DEF ReconciliationInvariant
  <2> QED
    BY <2>1, <2>2, <2>5, <2>6, <2>7, <2>8, OneTries
<1> QED
  BY <1>1, <1>2

LEMMA WorkPolls ==
    ASSUME ReconciliationInvariant, ServerNext, ClientNext, NEW t \in Tasks, Poll(t) PROVE WorkNext
<1>1. CASE Fail(t)
  BY <1>1, WorkFails DEF Poll, Waits
<1>2. CASE ~Fail(t)
  <2>1. PICK r : r = task[t].request
    OBVIOUS
  <2>2. r \in Requests /\ Known(r) /\ RowKept(r) /\ Sent(r)
    BY <1>2, <2>1, ReplyKnown DEF Poll, Reading, ReconciliationInvariant, TaskOK
  <2>3. PICK n \in Nat : n = request[r].cursor
    BY <2>2 DEF ReconciliationInvariant, ReconciliationTypeOK, RequestRecord
  <2>4. PICK c : c = Call(t, "poll", n)
    OBVIOUS
  <2>5. Send(t, "poll", n, "getting", Ended(t)) /\ task[t].at = "polling"
    BY <1>2, <2>1, <2>3 DEF Poll
  <2>6. n <= server'.seq[r]
    <3>1. n <= server.seq[r] /\ server.seq[r] <= server'.seq[r]
      BY <2>2, <2>3 DEF ReconciliationInvariant, RowOK, ServerNext, Grows
    <3>2. server.seq[r] \in Nat /\ server'.seq[r] \in Nat
      BY <2>2 DEF ReconciliationInvariant, ReconciliationTypeOK, ServerNext, ServerRecord
    <3> QED
      BY <3>1, <3>2
  <2>7. "getting" \in Points /\ "poll" \in Ops /\ "getting" \in Awaits("poll")
    BY DEF Points, Ops, Awaits, Reading
  <2>8. Asks(c)'
    <3>1. c.op = "poll" /\ c.request = r /\ c.after = n
      BY <2>1, <2>4, <2>7, CallTyped DEF ReconciliationInvariant
    <3> QED
      BY <2>2, <2>6, <3>1 DEF Asks, Known, RowKept
  <2>9. MayGo(t, "getting")
    BY <2>1, <2>2 DEF MayGo, Reading, Fencing
  <2>10. Uncalled(t)
    BY <2>5, NobodyCalls DEF ReconciliationInvariant, Waits
  <2> QED
    BY <2>3, <2>4, <2>5, <2>7, <2>8, <2>9, <2>10, OneTries
<1> QED
  BY <1>1, <1>2

LEMMA WorkApplies ==
    ASSUME ReconciliationInvariant, ServerNext, ClientNext, NEW t \in Tasks, ApplyPoll(t) PROVE WorkNext
<1>1. task[t].at = "getting" /\ task[t].reply # Nil
  BY DEF ApplyPoll, HasPage
<1>2. CASE Fail(t)
  BY <1>1, <1>2, WorkFails
<1>3. CASE ~Fail(t)
  <2>1. channel' = channel /\ (task' = Ended(t) \/ task' = Go(t, "polling"))
    BY <1>3 DEF ApplyPoll
  <2>2. Uncalled(t)
    BY <1>1, NobodyCalls DEF ReconciliationInvariant
  <2> QED
    BY <1>1, <2>1, <2>2, OneEnds, WorkPollsOn
<1> QED
  BY <1>2, <1>3

LEMMA WorkReads ==
    ASSUME ReconciliationInvariant, ServerNext, ClientNext, NEW t \in Tasks, Reads(t) \/ GiveUp(t)
    PROVE  WorkNext
<1>1. CASE Stop(t) \/ GiveUp(t) \/ Unanswered(t)
  BY <1>1, WorkFails, ReconciliationAssumption DEF Stop, GiveUp, Unanswered, Waits, Lost, Refused
<1> QED
  BY <1>1, WorkDispatches, WorkAdmitted, WorkReplays, WorkPolls, WorkApplies DEF Reads

\* The command that goes on has learnt the state of the run.
LEMMA OneLearns ==
    ASSUME ReconciliationInvariant, ServerNext, ClientNext, NEW t \in Tasks, NEW a \in {"concluding", "reaping"},
           NEW z \in RunStates \cup {Nil}, task' = [Go(t, a) EXCEPT ![t].run = z], channel' = channel,
           Uncalled(t), task[t].at \in Fencing,
           z # Nil /\ request'[task[t].request].status \notin {"none", "deleted"} =>
               task[t].workspace \in native'.sessions,
           a = "reaping" => z # Nil,
           a = "concluding" /\ (z = Nil \/ Settled(z)) => Finished(task[t].request)
    PROVE  WorkNext
<1>1. PICK k, r : r = task[t].request /\ k = [task[t] EXCEPT !.at = a, !.reply = Nil, !.run = z]
  OBVIOUS
<1>2. task[t] \in TaskRecord /\ TaskOK(t)
  BY DEF ReconciliationInvariant, ReconciliationTypeOK
<1>3. /\ k \in TaskRecord /\ k.at = a /\ k.reply = Nil /\ k.request = r
      /\ k.workspace = task[t].workspace /\ k.run = z
  BY <1>1, <1>2 DEF TaskRecord, Points, Fencing
<1>4. task' = [task EXCEPT ![t] = k] /\ task'[t] = k
  BY <1>1, <1>2 DEF Go, ReconciliationInvariant, ReconciliationTypeOK, TaskRecord
<1>5. r \in Requests
  BY <1>1, <1>2 DEF TaskOK
<1>6. /\ k.at # "fencing" /\ k.at \notin Reading
      /\ k.at \in {"reaping", "reading"} => k.run # Nil
      /\ k.at = "concluding" /\ (k.run = Nil \/ Settled(k.run)) => Finished(r)
      /\ k.run # Nil /\ request'[r].status \notin {"none", "deleted"} => k.workspace \in native'.sessions
  BY <1>1, <1>3 DEF Reading, Settled
<1>7. TaskOK(t)'
  BY <1>1, <1>2, <1>3, <1>4, <1>5, <1>6, TaskGoes
<1> QED
  BY <1>3, <1>4, <1>7, OneMoves

\* What is done with a reply whose end is known already
LEMMA WorkFinishes ==
    ASSUME ReconciliationInvariant, ServerNext, ClientNext, NEW t \in Tasks, Uncalled(t), channel' = channel,
           task' = Ended(t) \/ task' = Finish(t)
    PROVE  WorkNext
<1>1. CASE task' = Ended(t)
  BY <1>1, OneEnds
<1>2. CASE task' = Go(t, "owning")
  <2>1. MayGo(t, "owning") /\ "owning" \in Points
    BY DEF MayGo, Reading, Fencing, Points, Deleting
  <2> QED
    BY <1>2, <2>1, OneGoes
<1> QED
  BY <1>1, <1>2 DEF Finish

LEMMA WorkSendsCancel ==
    ASSUME ReconciliationInvariant, ServerNext, ClientNext, NEW t \in Tasks, SendCancel(t) PROVE WorkNext
<1>1. task[t].at = "fencing" /\ task[t].at \in Fencing
  BY DEF SendCancel, Fencing
<1>2. Uncalled(t)
  BY <1>1, NobodyCalls DEF ReconciliationInvariant, Waits
<1>3. PICK r : r = task[t].request /\ r \in Requests /\ Known(r) /\ RowKept(r)
  BY <1>1, ReplyKnown
<1>4. CASE task' = Ended(t) /\ UNCHANGED channel
  BY <1>2, <1>4, OneEnds
<1>5. CASE Send(t, "cancel", 0, "cancelling", Ended(t))
  <2>1. PICK c : c = Call(t, "cancel", 0)
    OBVIOUS
  <2>2. "cancelling" \in Points /\ "cancel" \in Ops /\ "cancelling" \in Awaits("cancel")
    BY DEF Points, Ops, Awaits, Fencing
  <2>3. Asks(c)'
    <3>1. c.op = "cancel" /\ c.request = r
      BY <1>3, <2>1, <2>2, CallTyped DEF ReconciliationInvariant
    <3> QED
      BY <1>3, <3>1 DEF Asks, Known, RowKept
  <2>4. MayGo(t, "cancelling")
    BY <1>1, <1>3 DEF MayGo, Reading, Fencing
  <2> QED
    BY <1>2, <1>5, <2>1, <2>2, <2>3, <2>4, OneTries
<1>6. CASE ~task[t].dispatched /\ task' = Go(t, "concluding") /\ UNCHANGED channel
  <2>1. request[r].status = "pending" => Finished(r)
    <3>1. request[r].status = "pending" => ~request[r].dispatched /\ ~Sent(r)
      BY <1>1, <1>3, <1>6 DEF ReconciliationInvariant, TaskOK, Sent
    <3>2. ~Sent(r) => server.run[r] = "none"
      BY <1>3 DEF ReconciliationInvariant, ServerOK, Holds
    <3> QED
      BY <3>1, <3>2 DEF Finished
  <2>2. MayGo(t, "concluding") /\ "concluding" \in Points
    BY <1>1, <1>3, <2>1 DEF MayGo, Reading, Fencing, Points
  <2> QED
    BY <1>2, <1>6, <2>2, OneGoes
<1> QED
  BY <1>4, <1>5, <1>6 DEF SendCancel

LEMMA WorkReceives ==
    ASSUME ReconciliationInvariant, ServerNext, ClientNext, NEW t \in Tasks, Receipt(t) PROVE WorkNext
<1>1. PICK r, y : r = task[t].request /\ y = task[t].reply
  OBVIOUS
<1>2. task[t].at = "cancelling" /\ task[t].at \in Fencing /\ y # Nil /\ channel' = channel
  BY <1>1 DEF Receipt, Fencing
<1>3. Uncalled(t)
  BY <1>1, <1>2, NobodyCalls DEF ReconciliationInvariant
<1>4. CASE task' = Ended(t) \/ task' = Finish(t)
  BY <1>2, <1>3, <1>4, WorkFinishes
<1>5. CASE ~(task' = Ended(t) \/ task' = Finish(t))
  <2>1. PICK z : z = IF y.run = "none" THEN task[t].run ELSE y.run
    OBVIOUS
  <2>2. PICK a \in {"concluding", "reaping"} :
            a = IF y.run = "none" \/ Settled(y.run) THEN "concluding" ELSE "reaping"
    OBVIOUS
  <2>3. /\ y.kind = "receipt" /\ task' = [Go(t, a) EXCEPT ![t].run = z]
        /\ native' = IF y.run = "none" THEN native ELSE Initialized(native, task[t].workspace)
    BY <1>1, <1>5, <2>1, <2>2 DEF Receipt
  <2>4. task[t] \in TaskRecord /\ TaskOK(t) /\ r \in Requests
    BY <1>1, <1>2 DEF ReconciliationInvariant, ReconciliationTypeOK, TaskOK
  <2>5. y.run \in RunStates
    <3>1. y \in Receipts
      BY <1>1, <1>2, <2>3, <2>4 DEF TaskRecord, Verdicts, Pages
    <3> QED
      BY <3>1 DEF Receipts
  <2>6. z \in RunStates \cup {Nil}
    BY <2>1, <2>4, <2>5 DEF TaskRecord
  <2>7. z # Nil /\ request'[r].status \notin {"none", "deleted"} => task[t].workspace \in native'.sessions
    <3>1. CASE y.run = "none"
      BY <1>1, <2>1, <2>4, <3>1, SessionStays
    <3>2. CASE y.run # "none"
      BY <2>3, <3>2 DEF Initialized, ReconciliationInvariant, ReconciliationTypeOK, NativeRecord
    <3> QED
      BY <3>1, <3>2
  <2>8. a = "reaping" => z # Nil
    BY <2>1, <2>2, <2>5, ReconciliationAssumption
  <2>9. a = "concluding" => Finished(r)
    <3>1. y.run = "none" => r \in server.tombs /\ server.run[r] = "none"
      BY <1>1, <1>2, <2>3, <2>4 DEF TaskOK, AnswerOK, ReconciliationInvariant, ServerOK, Holds
    <3>2. Settled(y.run) => server.run[r] \in Terminal
      BY <1>1, <1>2, <2>3, <2>4 DEF TaskOK, AnswerOK, Settled
    <3> QED
      BY <2>2, <3>1, <3>2 DEF Finished
  <2> QED
    BY <1>1, <1>2, <1>3, <2>3, <2>6, <2>7, <2>8, <2>9, OneLearns
<1> QED
  BY <1>4, <1>5

LEMMA WorkReaps ==
    ASSUME ReconciliationInvariant, ServerNext, ClientNext, NEW t \in Tasks, Reap(t) PROVE WorkNext
<1>1. task[t].at = "reaping" /\ task[t].at \in Fencing
  BY DEF Reap, Fencing
<1>2. Uncalled(t)
  BY <1>1, NobodyCalls DEF ReconciliationInvariant, Waits
<1>3. CASE task' = Ended(t) /\ UNCHANGED channel
  BY <1>2, <1>3, OneEnds
<1>4. CASE Send(t, "poll", 0, "reading", Ended(t))
  <2>1. PICK c, r : c = Call(t, "poll", 0) /\ r = task[t].request
    OBVIOUS
  <2>2. "reading" \in Points /\ "poll" \in Ops /\ "reading" \in Awaits("poll")
    BY DEF Points, Ops, Awaits, Fencing
  <2>3. r \in Requests /\ Known(r) /\ RowKept(r) /\ task[t].run # Nil
    BY <1>1, <2>1, ReplyKnown DEF ReconciliationInvariant, TaskOK
  <2>4. Asks(c)'
    <3>1. c.op = "poll" /\ c.request = r /\ c.after = 0
      BY <2>1, <2>2, CallTyped DEF ReconciliationInvariant
    <3>2. 0 <= server'.seq[r]
      BY <2>3 DEF ServerNext, ServerRecord
    <3> QED
      BY <2>3, <3>1, <3>2 DEF Asks, Known, RowKept
  <2>5. MayGo(t, "reading")
    BY <1>1, <2>1, <2>3 DEF MayGo, Reading, Fencing
  <2> QED
    BY <1>2, <1>4, <2>1, <2>2, <2>4, <2>5, OneTries
<1> QED
  BY <1>3, <1>4 DEF Reap

LEMMA WorkReaped ==
    ASSUME ReconciliationInvariant, ServerNext, ClientNext, NEW t \in Tasks, Reaped(t) PROVE WorkNext
<1>1. PICK r, y : r = task[t].request /\ y = task[t].reply
  OBVIOUS
<1>2. task[t].at = "reading" /\ task[t].at \in Fencing /\ y # Nil /\ channel' = channel
  BY <1>1 DEF Reaped, Fencing
<1>3. Uncalled(t)
  BY <1>1, <1>2, NobodyCalls DEF ReconciliationInvariant
<1>4. CASE task' = Ended(t)
  BY <1>2, <1>3, <1>4, OneEnds
<1>5. CASE task' # Ended(t)
  <2>1. PICK a \in {"concluding", "reaping"} : a = IF Settled(y.state) THEN "concluding" ELSE "reaping"
    OBVIOUS
  <2>2. y.kind = "page" /\ task' = [Go(t, a) EXCEPT ![t].run = y.state]
    BY <1>1, <1>5, <2>1 DEF Reaped
  <2>3. task[t] \in TaskRecord /\ TaskOK(t) /\ r \in Requests /\ task[t].run # Nil
    BY <1>1, <1>2 DEF ReconciliationInvariant, ReconciliationTypeOK, TaskOK
  <2>4. y.state \in RunStates /\ y.state # Nil
    <3>1. y \in Pages
      BY <1>1, <1>2, <2>2, <2>3 DEF TaskRecord, Verdicts, Receipts
    <3> QED
      BY <3>1, ReconciliationAssumption DEF Pages
  <2>5. request'[r].status \notin {"none", "deleted"} => task[t].workspace \in native'.sessions
    BY <1>1, <2>3, SessionStays
  <2>6. a = "concluding" => Finished(r)
    BY <1>1, <1>2, <2>1, <2>2, <2>3 DEF TaskOK, AnswerOK, Settled, Finished
  <2> QED
    BY <1>1, <1>2, <1>3, <2>2, <2>4, <2>5, <2>6, OneLearns
<1> QED
  BY <1>4, <1>5

LEMMA WorkConcludes ==
    ASSUME ReconciliationInvariant, ServerNext, ClientNext, NEW t \in Tasks, Conclude(t) PROVE WorkNext
<1>1. Uncalled(t)
  BY NobodyCalls DEF ReconciliationInvariant, Conclude, Waits
<1> QED
  BY <1>1, WorkFinishes DEF Conclude

LEMMA WorkCancels ==
    ASSUME ReconciliationInvariant, ServerNext, ClientNext, NEW t \in Tasks, Cancels(t) PROVE WorkNext
BY WorkSendsCancel, WorkReceives, WorkReaps, WorkReaped, WorkConcludes DEF Cancels

LEMMA WorkSendsDelete ==
    ASSUME ReconciliationInvariant, ServerNext, ClientNext, NEW t \in Tasks, SendDelete(t) PROVE WorkNext
<1>1. task[t].at = "owning"
  BY DEF SendDelete
<1>2. Uncalled(t)
  BY <1>1, NobodyCalls DEF ReconciliationInvariant, Waits
<1>3. CASE task' = Ended(t) /\ UNCHANGED channel
  BY <1>2, <1>3, OneEnds
<1>4. CASE task' = Go(t, "erasing") /\ UNCHANGED channel
  <2>1. MayGo(t, "erasing") /\ "erasing" \in Points
    BY DEF MayGo, Reading, Fencing, Points, Deleting
  <2> QED
    BY <1>2, <1>4, <2>1, OneGoes
<1>5. CASE /\ task' = [Go(t, "deleting") EXCEPT ![t].launch = native.launch, ![t].generation = native.generation]
           /\ channel' = Append(channel, Call(t, "delete", 0)) /\ task[t].workspace \in native.live
  <2>1. PICK c : c = Call(t, "delete", 0)
    OBVIOUS
  <2>2. "deleting" \in Points /\ "delete" \in Ops /\ "deleting" \in Awaits("delete")
    BY DEF Points, Ops, Awaits, Deleting
  <2>3. /\ c \in CallRecord /\ c.to = t /\ c.op = "delete" /\ c.request = task[t].request
        /\ c.workspace = task[t].workspace
    BY <2>1, <2>2, CallTyped DEF ReconciliationInvariant
  <2>4. Asks(c)'
    BY <1>5, <2>3 DEF Asks, ReconciliationInvariant, ReconciliationTypeOK, NativeRecord
  <2>5. PICK g \in Nat, l \in Nat : l = native.launch /\ g = native.generation
    BY DEF ReconciliationInvariant, ReconciliationTypeOK, NativeRecord
  <2>6. PICK k : k = [task[t] EXCEPT !.at = "deleting", !.reply = Nil, !.launch = l, !.generation = g]
    OBVIOUS
  <2>7. task[t] \in TaskRecord
    BY DEF ReconciliationInvariant, ReconciliationTypeOK
  <2>8. /\ k \in TaskRecord /\ k.at = "deleting" /\ k.reply = Nil /\ k.request = task[t].request
        /\ k.workspace = task[t].workspace /\ k.run = task[t].run
    BY <2>2, <2>6, <2>7 DEF TaskRecord
  <2>9. task' = [task EXCEPT ![t] = k] /\ task'[t] = k
    <3>1. Go(t, "deleting") = [task EXCEPT ![t] = [task[t] EXCEPT !.at = "deleting", !.reply = Nil]]
      BY <2>7 DEF Go, ReconciliationInvariant, ReconciliationTypeOK, TaskRecord
    <3> QED
      BY <1>5, <2>5, <2>6, <2>7, <3>1 DEF ReconciliationInvariant, ReconciliationTypeOK, TaskRecord
  <2>10. MayGo(t, "deleting")
    BY DEF MayGo, Reading, Fencing
  <2>11. TaskOK(t)'
    BY <2>2, <2>8, <2>9, <2>10, GoRecord
  <2> QED
    BY <1>2, <1>5, <2>1, <2>2, <2>3, <2>4, <2>8, <2>9, <2>11, OneSends
<1> QED
  BY <1>3, <1>4, <1>5 DEF SendDelete

LEMMA WorkDeletes ==
    ASSUME ReconciliationInvariant, ServerNext, ClientNext, NEW t \in Tasks, Deletes(t) PROVE WorkNext
<1>1. CASE Acknowledge(t)
  <2>1. Uncalled(t)
    BY <1>1, NobodyCalls DEF ReconciliationInvariant, Acknowledge
  <2>2. MayGo(t, "erasing") /\ "erasing" \in Points
    BY DEF MayGo, Reading, Fencing, Points, Deleting
  <2> QED
    BY <1>1, <2>1, <2>2, OneEnds, OneGoes DEF Acknowledge
<1>2. CASE Erase(t)
  <2>1. Uncalled(t)
    BY <1>2, NobodyCalls DEF ReconciliationInvariant, Erase, Waits
  <2> QED
    BY <1>2, <2>1, OneEnds DEF Erase
<1> QED
  BY <1>1, <1>2, WorkSendsDelete DEF Deletes

\* A command that begins
LEMMA OneBegins ==
    ASSUME ReconciliationInvariant, ServerNext, ClientNext, NEW t \in Tasks, task[t] = IdleTask
    PROVE  Uncalled(t)
BY NobodyCalls DEF ReconciliationInvariant, IdleTask, Waits

LEMMA WorkBeginsComplete ==
    ASSUME ReconciliationInvariant, ServerNext, ClientNext, NEW t \in Tasks, NEW r \in Requests,
           BeginComplete(t, r)
    PROVE  WorkNext
<1>1. PICK q : q = request[r] /\ q \in RequestRecord /\ q.status = "pending" /\ RowKept(r)
  BY DEF BeginComplete, Current, Pending, ReconciliationInvariant, ReconciliationTypeOK, ClientNext
<1>2. PICK g \in Nat, l \in Nat : l = native.launch /\ g = native.generation
  BY DEF ReconciliationInvariant, ReconciliationTypeOK, NativeRecord
<1>3. PICK a \in {"polling", "dispatching"} : a = IF q.dispatched THEN "polling" ELSE "dispatching"
  OBVIOUS
<1>4. PICK k : k = [IdleTask EXCEPT !.kind = "complete", !.request = r, !.workspace = q.workspace,
                                    !.launch = l, !.generation = g, !.at = a]
  OBVIOUS
<1>5. /\ k \in TaskRecord /\ k.at = a /\ k.reply = Nil /\ k.request = r /\ k.workspace = q.workspace
      /\ k.run = Nil
  <2>1. k = [kind |-> "complete", at |-> a, request |-> r, workspace |-> q.workspace, launch |-> l,
             generation |-> g, dispatched |-> FALSE, run |-> Nil, reply |-> Nil]
    BY <1>4 DEF IdleTask
  <2>2. a \in Points
    BY DEF Points, Reading
  <2> QED
    BY <1>1, <2>1, <2>2 DEF TaskRecord, RequestRecord, Kinds
<1>6. task' = [task EXCEPT ![t] = k] /\ channel' = channel /\ task[t] = IdleTask
  BY <1>1, <1>2, <1>3, <1>4 DEF BeginComplete
<1>7. TaskOK(t)'
  <2>1. task'[t] = k
    BY <1>6 DEF ReconciliationInvariant, ReconciliationTypeOK
  <2>2. Known(r)' /\ request'[r].workspace = q.workspace /\ (a = "polling" => Sent(r)')
    BY <1>1, <1>3 DEF RowKept, Known, Sent
  <2> QED
    BY <1>5, <2>1, <2>2 DEF TaskOK, Reading, Fencing
<1> QED
  BY <1>5, <1>6, <1>7, OneBegins, OneMoves

LEMMA ReadersAreTasks ==
    ASSUME ReconciliationTypeOK, NEW R \in SUBSET Requests PROVE Readers(R) \in SUBSET Tasks
BY DEF Readers, ReconciliationTypeOK, NativeRecord

\* A stop: the reply's reader is told, and a command begins.
LEMMA WorkStops ==
    ASSUME ReconciliationInvariant, ServerNext, ClientNext, NEW t \in Tasks, NEW r \in Requests,
           task[t] = IdleTask, Pending(r), NEW kind \in Kinds, Stopping(t, r, kind)
    PROVE  WorkNext
<1>1. PICK T \in SUBSET Tasks : T = Readers({r})
  BY ReadersAreTasks DEF ReconciliationInvariant
<1>2. PICK taken \in BOOLEAN : channel' = Withdrawn(T, taken)
  BY <1>1 DEF Stopping
<1>3. PICK q : /\ q = request[r] /\ q \in RequestRecord /\ q.status = "pending" /\ RowKept(r)
               /\ q.run # Nil => q.workspace \in native.sessions
  BY DEF Pending, ReconciliationInvariant, ReconciliationTypeOK, ClientNext, RowOK, Shown
<1>4. PICK g \in Nat, l \in Nat : l = native.launch /\ g = native.generation
  BY DEF ReconciliationInvariant, ReconciliationTypeOK, NativeRecord
<1>5. PICK k : k = [IdleTask EXCEPT !.kind = kind, !.at = "fencing", !.request = r, !.launch = l,
                                    !.workspace = q.workspace, !.generation = g,
                                    !.dispatched = q.dispatched, !.run = q.run]
  OBVIOUS
<1>6. /\ k \in TaskRecord /\ k.at = "fencing" /\ k.reply = Nil /\ k.request = r
      /\ k.workspace = q.workspace /\ k.run = q.run /\ k.dispatched = q.dispatched
  <2>1. k = [kind |-> kind, at |-> "fencing", request |-> r, workspace |-> q.workspace, launch |-> l,
             generation |-> g, dispatched |-> q.dispatched, run |-> q.run, reply |-> Nil]
    BY <1>5 DEF IdleTask
  <2>2. "fencing" \in Points
    BY DEF Points, Fencing
  <2> QED
    BY <1>3, <2>1, <2>2 DEF TaskRecord, RequestRecord
<1>7. task' = [Told(T) EXCEPT ![t] = k]
  BY <1>1, <1>3, <1>4, <1>5 DEF Stopping
<1>8. /\ DOMAIN task' = Tasks /\ task' = [x \in Tasks |-> task'[x]] /\ task'[t] = k
      /\ \A x \in T \ {t} : task'[x] = [task[x] EXCEPT !.at = "told", !.reply = Nil]
      /\ \A x \in Tasks \ T : x # t => task'[x] = task[x]
  BY <1>7 DEF Told
<1>9. \A x \in Tasks : task[x] \in TaskRecord /\ [task[x] EXCEPT !.at = "told", !.reply = Nil] \in TaskRecord
  <2>1. "told" \in Points
    BY DEF Points
  <2> QED
    BY <2>1 DEF ReconciliationInvariant, ReconciliationTypeOK, TaskRecord
<1>10. task' \in [Tasks -> TaskRecord]
  <2>1. \A x \in Tasks : task'[x] \in TaskRecord
    BY <1>6, <1>8, <1>9
  <2> QED
    BY <1>8, <2>1
<1>11. TaskOK(t)'
  <2>1. /\ request' = [request EXCEPT ![r].cancelRequested = TRUE]
        /\ request'[r].cancelRequested /\ request'[r].dispatched = q.dispatched
    BY <1>3 DEF Stopping, ReconciliationInvariant, ReconciliationTypeOK, RequestRecord
  <2>2. /\ request'[r].status # "none" /\ request'[r].workspace = q.workspace
        /\ q.run # Nil /\ request'[r].status # "deleted" => q.workspace \in native'.sessions
    BY <1>3 DEF RowKept, Known
  <2> QED
    BY <1>6, <1>8, <2>1, <2>2 DEF TaskOK, Reading, Fencing, Known, Shown
<1>12. \A x \in Tasks : TaskOK(x)'
  <2> SUFFICES ASSUME NEW x \in Tasks, x # t PROVE TaskOK(x)'
    BY <1>11
  <2>1. CASE x \in T
    BY <1>8, <2>1, TaskTold DEF ReconciliationInvariant
  <2>2. CASE x \notin T
    BY <1>8, <2>2, TaskStays DEF ReconciliationInvariant
  <2> QED
    BY <2>1, <2>2
<1>13. PipeNext
  <2>1. Uncalled(t)
    BY OneBegins
  <2>2. \A x \in Tasks \ T : task'[x] # task[x] => Uncalled(x)
    BY <1>8, <2>1
  <2> QED
    BY <1>2, <2>2, PipeWithdraws DEF ReconciliationInvariant
<1> QED
  BY <1>10, <1>12, <1>13 DEF WorkNext

LEMMA WorkBeginsDelete ==
    ASSUME ReconciliationInvariant, ServerNext, ClientNext, NEW t \in Tasks, NEW w \in Workspaces,
           BeginDelete(t, w)
    PROVE  WorkNext
<1>1. CASE \E r \in PendingRequests : Pending(r) /\ Stopping(t, r, "delete")
  BY <1>1, WorkStops DEF BeginDelete, PendingRequests, Kinds
<1>2. CASE /\ task' = [task EXCEPT ![t] = [IdleTask EXCEPT !.kind = "delete", !.at = "owning", !.workspace = w]]
           /\ channel' = channel
  <2>1. PICK k : k = [IdleTask EXCEPT !.kind = "delete", !.at = "owning", !.workspace = w]
    OBVIOUS
  <2>2. k = [kind |-> "delete", at |-> "owning", request |-> Nil, workspace |-> w, launch |-> 0,
             generation |-> 0, dispatched |-> FALSE, run |-> Nil, reply |-> Nil]
    BY <2>1 DEF IdleTask
  <2>3. k \in TaskRecord
    <3>1. "owning" \in Points
      BY DEF Points, Deleting
    <3> QED
      BY <2>2, <3>1 DEF TaskRecord, Kinds
  <2>4. task'[t] = k /\ task' = [task EXCEPT ![t] = k]
    BY <1>2, <2>1 DEF ReconciliationInvariant, ReconciliationTypeOK
  <2>5. TaskOK(t)'
    BY <2>2, <2>4, ReconciliationAssumption DEF TaskOK, Reading, Fencing
  <2> QED
    BY <1>2, <2>3, <2>4, <2>5, OneBegins, OneMoves DEF BeginDelete
<1> QED
  BY <1>1, <1>2 DEF BeginDelete

LEMMA WorkConfigures ==
    ASSUME ReconciliationInvariant, ServerNext, ClientNext, ConfigChange PROVE WorkNext
<1>1. PICK T \in SUBSET Tasks, taken \in BOOLEAN : task' = Told(T) /\ channel' = Withdrawn(T, taken)
  <2>1. Readers(Requests) \in SUBSET Tasks
    BY ReadersAreTasks DEF ReconciliationInvariant
  <2> QED
    BY <2>1 DEF ConfigChange
<1>2. \A x \in Tasks : task'[x] = IF x \in T THEN [task[x] EXCEPT !.at = "told", !.reply = Nil] ELSE task[x]
  BY <1>1 DEF Told
<1>3. \A x \in Tasks : task[x] \in TaskRecord /\ [task[x] EXCEPT !.at = "told", !.reply = Nil] \in TaskRecord
  <2>1. "told" \in Points
    BY DEF Points
  <2> QED
    BY <2>1 DEF ReconciliationInvariant, ReconciliationTypeOK, TaskRecord
<1>4. task' \in [Tasks -> TaskRecord]
  BY <1>1, <1>3 DEF Told
<1>5. \A x \in Tasks : TaskOK(x)'
  <2> SUFFICES ASSUME NEW x \in Tasks PROVE TaskOK(x)'
    OBVIOUS
  <2>1. CASE x \in T
    BY <1>2, <2>1, TaskTold DEF ReconciliationInvariant
  <2>2. CASE x \notin T
    BY <1>2, <2>2, TaskStays DEF ReconciliationInvariant
  <2> QED
    BY <2>1, <2>2
<1>6. PipeNext
  BY <1>1, <1>2, PipeWithdraws DEF ReconciliationInvariant
<1> QED
  BY <1>4, <1>5, <1>6 DEF WorkNext

\* The head of the pipe is answered, unless it is nobody's.
LEMMA WorkAnswers ==
    ASSUME ReconciliationInvariant, ServerNext, ClientNext, Answer PROVE WorkNext
<1> USE DEF ReconciliationInvariant
<1>1. PICK c : c = Head(channel) /\ c \in CallRecord /\ Asks(c) /\ Awaited(c) /\ channel # <<>>
  BY HeadAsks DEF Answer
<1>2. PICK s : s = Served(c) /\ ServesWell(s, c)
  BY <1>1, CallServed
<1>3. PICK y \in Verdicts \cup Receipts \cup Pages :
          y = s.reply /\ AnswerOK(server', c.request, c.workspace, y)
  BY <1>1, <1>2 DEF Answer, ServesWell
<1>4. /\ channel' = Tail(channel)
      /\ c.to = Nil => task' = task
      /\ c.to # Nil => task' = [task EXCEPT ![c.to].reply = y]
  BY <1>1, <1>2, <1>3 DEF Answer
<1>5. \A x \in Tasks : task'[x] # task[x] => x = c.to /\ c.to # Nil
  BY <1>4 DEF ReconciliationTypeOK
<1>6. c.to # Nil => /\ c.to \in Tasks /\ task'[c.to] = [task[c.to] EXCEPT !.reply = y]
                    /\ task'[c.to] \in TaskRecord
                    /\ task[c.to].request = c.request /\ task[c.to].workspace = c.workspace
  <2> SUFFICES ASSUME c.to # Nil
               PROVE  /\ c.to \in Tasks /\ task'[c.to] = [task[c.to] EXCEPT !.reply = y]
                      /\ task'[c.to] \in TaskRecord
                      /\ task[c.to].request = c.request /\ task[c.to].workspace = c.workspace
    OBVIOUS
  <2>1. c.to \in Tasks
    BY <1>1 DEF CallRecord
  <2>2. task[c.to] \in TaskRecord /\ task'[c.to] = [task[c.to] EXCEPT !.reply = y]
    BY <1>4, <2>1 DEF ReconciliationTypeOK
  <2>3. task'[c.to] \in TaskRecord
    BY <2>2 DEF TaskRecord
  <2> QED
    BY <1>1, <2>1, <2>2, <2>3 DEF Awaited
<1>7. task' \in [Tasks -> TaskRecord]
  <2>1. CASE c.to = Nil
    BY <1>4, <2>1 DEF ReconciliationTypeOK
  <2>2. CASE c.to # Nil
    <3>1. PICK k \in TaskRecord : k = task'[c.to]
      BY <1>6, <2>2
    <3>2. task' = [task EXCEPT ![c.to] = k]
      BY <1>4, <1>6, <2>2, <3>1 DEF ReconciliationTypeOK
    <3> QED
      BY <3>1, <3>2 DEF ReconciliationTypeOK
  <2> QED
    BY <2>1, <2>2
<1>8. \A x \in Tasks : TaskOK(x)'
  <2> SUFFICES ASSUME NEW x \in Tasks PROVE TaskOK(x)'
    OBVIOUS
  <2>1. CASE task'[x] = task[x]
    BY <2>1, TaskStays
  <2>2. CASE task'[x] # task[x]
    BY <1>3, <1>5, <1>6, <2>2, TaskAnswered
  <2> QED
    BY <2>1, <2>2
<1>9. PipeNext
  BY <1>1, <1>4, <1>5, PipeGives
<1> QED
  BY <1>7, <1>8, <1>9 DEF WorkNext

\* The exchange ends: every command in the pipe is told that its call is lost.
LEMMA WorkBreaks ==
    ASSUME ReconciliationInvariant, ServerNext, ClientNext, NEW T, task' = Answered(T), channel' = <<>>
    PROVE  WorkNext
<1> USE DEF ReconciliationInvariant
<1>1. \A x \in Tasks : task'[x] = IF x \in T THEN [task[x] EXCEPT !.reply = Lost] ELSE task[x]
  BY DEF Answered
<1>2. \A x \in Tasks : task[x] \in TaskRecord /\ [task[x] EXCEPT !.reply = Lost] \in TaskRecord
  BY DEF ReconciliationTypeOK, TaskRecord, Lost, Verdicts
<1>3. task' \in [Tasks -> TaskRecord]
  BY <1>2 DEF Answered
<1>4. \A x \in Tasks : TaskOK(x)'
  BY <1>1, TaskLost, TaskStays
<1> QED
  BY <1>3, <1>4, PipeEmpties DEF WorkNext

LEMMA WorkCrashes ==
    ASSUME task' = [t \in Tasks |-> IdleTask], channel' = <<>> PROVE WorkNext
BY IdleTyped, TaskRests, PipeEmpties DEF WorkNext

LEMMA WorkStays ==
    ASSUME ReconciliationInvariant, ServerNext, ClientNext, task' = task, channel' = channel
    PROVE  WorkNext
BY TaskStays, PipeStays DEF WorkNext, ReconciliationInvariant, ReconciliationTypeOK

LEMMA NextWork == ReconciliationInvariant /\ [Next]_vars => WorkNext
<1> SUFFICES ASSUME ReconciliationInvariant, [Next]_vars PROVE WorkNext
  OBVIOUS
<1>0. ServerNext /\ ClientNext
  BY NextServer, NextClient
<1> USE <1>0
<1>1. CASE Operator
  <2>1. ASSUME NEW r \in Requests, NEW w \in Workspaces, Start(r, w) PROVE WorkNext
    BY <2>1, WorkStays DEF Start
  <2>2. ASSUME NEW t \in Tasks, NEW r \in Requests, BeginComplete(t, r) PROVE WorkNext
    BY <2>2, WorkBeginsComplete
  <2>3. ASSUME NEW t \in Tasks, NEW r \in Requests, BeginCancel(t, r) PROVE WorkNext
    BY <2>3, WorkStops DEF BeginCancel, Kinds
  <2>4. ASSUME NEW t \in Tasks, NEW w \in Workspaces, BeginDelete(t, w) PROVE WorkNext
    BY <2>4, WorkBeginsDelete
  <2>5. CASE ConfigChange
    BY <2>5, WorkConfigures
  <2>6. CASE Quit
    BY <2>6, WorkBreaks DEF Quit
  <2> QED
    BY <1>1, <2>1, <2>2, <2>3, <2>4, <2>5, <2>6 DEF Operator
<1>2. CASE Processes
  <2>1. ASSUME NEW served \in BOOLEAN, Break(served) PROVE WorkNext
    BY <2>1, WorkBreaks DEF Break
  <2>2. ASSUME NEW served \in BOOLEAN, Crash(served) PROVE WorkNext
    BY <2>2, WorkCrashes DEF Crash, Gone
  <2>3. ASSUME NEW t \in Tasks, CrashApplying(t) PROVE WorkNext
    BY <2>3, WorkCrashes DEF CrashApplying, Gone
  <2>4. ASSUME NEW r \in Requests, InterruptForQuit(r) PROVE WorkNext
    BY <2>4, WorkStays DEF InterruptForQuit
  <2>5. CASE Launch \/ ClearModel \/ SyncModel
    BY <2>5, WorkStays DEF Launch, ClearModel, SyncModel
  <2> QED
    BY <1>2, <2>1, <2>2, <2>3, <2>4, <2>5 DEF Processes
<1>3. CASE Answer
  BY <1>3, WorkAnswers
<1>4. ASSUME NEW t \in Tasks, Reads(t) \/ GiveUp(t) \/ Cancels(t) \/ Deletes(t) PROVE WorkNext
  BY <1>4, WorkReads, WorkCancels, WorkDeletes
<1>5. ASSUME NEW r \in Requests, StartRun(r) \/ Emit(r) \/ FinishRun(r) PROVE WorkNext
  BY <1>5, WorkStays DEF StartRun, Emit, FinishRun, Moved
<1>6. CASE UNCHANGED vars
  BY <1>6, WorkStays DEF vars
<1> QED
  BY <1>1, <1>2, <1>3, <1>4, <1>5, <1>6 DEF Next
-----------------------------------------------------------------------------
(* The invariant                                                           *)

LEMMA ServerKept == ReconciliationTypeOK /\ ServerNext /\ ClientNext => ServerOK'
<1> SUFFICES ASSUME ReconciliationTypeOK, ServerNext, ClientNext PROVE ServerOK'
  OBVIOUS
<1>1. PICK u : u = server' /\ Holds(u)
  BY DEF ServerNext
<1>2. ASSUME NEW r \in Requests
      PROVE  /\ u.run[r] # "none" => /\ Known(r)' /\ Sent(r)' /\ request'[r].workspace \in u.admitted
             /\ request'[r].workspace \in u.gone => u.run[r] \notin {"queued", "running"}
  <2>1. RowKept(r) /\ (u.run[r] # "none" => Known(r) /\ Sent(r) /\ request[r].workspace \in u.admitted)
    BY <1>1 DEF ClientNext, Holds
  <2>2. request[r].workspace \in u.gone => u.run[r] \notin {"queued", "running"}
    BY <1>1 DEF Holds
  <2> QED
    BY <2>1, <2>2 DEF RowKept, Known, Sent
<1>3. u.admitted \subseteq native'.owners \cup u.gone
  BY <1>1 DEF Holds, ClientNext
<1>4. \A r \in Requests :
          /\ u.run[r] = "none" => u.seq[r] = 0
          /\ r \in u.tombs => u.run[r] = "none"
          /\ u.receipt[r] = "none" => r \in u.tombs
          /\ u.receipt[r] \in Terminal => u.run[r] \in Terminal
  BY <1>1 DEF Holds
<1>5. Holds(server)'
  BY <1>1, <1>2, <1>3, <1>4 DEF Holds
<1> QED
  BY <1>5 DEF ServerOK, ClientNext

LEMMA InvariantInit == Init => ReconciliationInvariant
<1> SUFFICES ASSUME Init PROVE ReconciliationInvariant
  OBVIOUS
<1> USE DEF Init
<1>1. NoRequest \in RequestRecord
  <2>1. <<>> \in Seq(Nat)
    OBVIOUS
  <2> QED
    BY <2>1 DEF NoRequest, RequestRecord, Statuses
<1>2. native \in NativeRecord /\ server \in ServerRecord
  BY DEF NativeRecord, ServerRecord, RunStates
<1>3. ReconciliationTypeOK
  <2>1. <<>> \in Seq(CallRecord)
    OBVIOUS
  <2> QED
    BY <1>1, <1>2, <2>1, IdleTyped DEF ReconciliationTypeOK
<1>4. ServerOK
  BY ReconciliationAssumption DEF ServerOK, Holds, Terminal, Active, RunStates
<1>5. \A r \in Requests : RowOK(r)
  BY DEF RowOK, NoRequest, Known, Shown
<1>6. \A t \in Tasks : TaskOK(t)
  BY ReconciliationAssumption DEF TaskOK, IdleTask, Reading, Fencing
<1>7. CallsOK
  <2>1. 1..Len(channel) = {}
    OBVIOUS
  <2> QED
    BY <2>1 DEF CallsOK
<1> QED
  BY <1>3, <1>4, <1>5, <1>6, <1>7 DEF ReconciliationInvariant

LEMMA InvariantNext == ReconciliationInvariant /\ [Next]_vars => ReconciliationInvariant'
<1> SUFFICES ASSUME ReconciliationInvariant, [Next]_vars PROVE ReconciliationInvariant'
  OBVIOUS
<1>1. ServerNext /\ ClientNext /\ WorkNext
  BY NextServer, NextClient, NextWork
<1>2. ReconciliationTypeOK'
  BY <1>1 DEF ServerNext, ClientNext, WorkNext, PipeNext, ReconciliationTypeOK
<1>3. ServerOK'
  BY <1>1, ServerKept DEF ReconciliationInvariant
<1> QED
  BY <1>1, <1>2, <1>3 DEF ReconciliationInvariant, ClientNext, WorkNext, PipeNext

LEMMA Reconciled == Spec => []ReconciliationInvariant
BY InvariantInit, InvariantNext, PTL DEF Spec
-----------------------------------------------------------------------------
(* What the reconciliation promises                                        *)

LEMMA HoldsStopped == ReconciliationInvariant => StopHolds
<1> SUFFICES ASSUME ReconciliationInvariant PROVE StopHolds
  OBVIOUS
<1> USE DEF ReconciliationInvariant
<1>1. StopWins
  BY DEF StopWins, RowOK
<1>2. ASSUME NEW r \in Requests, request[r].status = "cancelled" PROVE server.run[r] \notin Active
  BY <1>2 DEF RowOK, Finished, Active, Terminal
<1>3. ASSUME NEW r \in Requests, request[r].status = "deleted" PROVE server.run[r] \notin {"queued", "running"}
  <2>1. request[r].workspace \notin native.owners
    BY <1>3 DEF RowOK, ServerOK
  <2>2. request[r].workspace \in server.admitted => request[r].workspace \in server.gone
    BY <2>1 DEF ServerOK, Holds
  <2> QED
    BY <2>2 DEF ServerOK, Holds
<1> QED
  BY <1>1, <1>2, <1>3 DEF StopHolds, StoppedIsStopped

(* A stop the operator made holds in both databases, of any number of replies:    *)
(* none that was stopped is shown as a success, and behind none that is shown as   *)
(* stopped or deleted is there a run the runtime may still work on (cancel,        *)
(* delete, apply_poll, the runtime's tombstones).                                  *)
THEOREM RepliesStop == Spec => []StopHolds
BY Reconciled, HoldsStopped, PTL

LEMMA HoldsRecorded == ReconciliationInvariant => RecordedFirst
<1> SUFFICES ASSUME ReconciliationInvariant PROVE RecordedFirst
  OBVIOUS
<1> USE DEF ReconciliationInvariant
<1>1. AdmissionRecordedFirst
  BY DEF AdmissionRecordedFirst, Ends, RowOK, Shown
<1>2. KnownIsOwned
  BY DEF KnownIsOwned, ServerOK, Holds
<1> QED
  BY <1>1, <1>2 DEF RecordedFirst

(* The client records what it is about to let the runtime know, and what an end    *)
(* proves, before the end itself, so that no crash between two writes leaves a     *)
(* finished reply whose history is sent again, or a workspace that is deleted here *)
(* alone (runtime_own_workspace, complete, apply_poll).                            *)
THEOREM RepliesRecorded == Spec => []RecordedFirst
BY Reconciled, HoldsRecorded, PTL

LEMMA HoldsWhole == ReconciliationInvariant => EventsWhole
<1> SUFFICES ASSUME ReconciliationInvariant PROVE EventsWhole
  OBVIOUS
<1> USE DEF ReconciliationInvariant
<1>1. SuccessIsWhole
  BY DEF SuccessIsWhole, RowOK
<1>2. NoGaps
  <2> SUFFICES ASSUME NEW r \in Requests, NEW i \in DOMAIN request[r].shown
               PROVE  request[r].shown[i] = request[r].cursor - (Len(request[r].shown) - i)
    BY DEF NoGaps
  <2>1. request[r].shown \in Seq(Nat)
    BY DEF ReconciliationTypeOK, RequestRecord
  <2>2. i \in 1..Len(request[r].shown)
    BY <2>1
  <2> QED
    BY <2>2 DEF RowOK
<1> QED
  BY <1>1, <1>2 DEF EventsWhole

(* Whatever pages were lost, read twice or read after a restart, and whatever the  *)
(* size of a page and the number of events kept, the client shows the latest       *)
(* events of a run without a gap, and as complete only all of a run that succeeded *)
(* (apply_poll, get_route's paging).                                               *)
THEOREM RepliesWhole == Spec => []EventsWhole
BY Reconciled, HoldsWhole, PTL

\* What the client shows of a reply that ended stays, in a step.
EndsStay == \A r \in Requests : request[r].status \in Ends => request'[r].status \in {request[r].status, "deleted"}

LEMMA OthersEndStays ==
    ASSUME ReconciliationTypeOK, NEW x, x \in Requests => request[x].status \notin Ends,
           NEW q, request' = [request EXCEPT ![x] = q]
    PROVE  EndsStay
BY DEF EndsStay, ReconciliationTypeOK

LEMMA NextEnds == ReconciliationInvariant /\ [Next]_vars => EndsStay
<1> SUFFICES ASSUME ReconciliationInvariant, [Next]_vars PROVE EndsStay
  OBVIOUS
<1>same. ASSUME request' = request PROVE EndsStay
  BY <1>same DEF EndsStay
<1>pending. ASSUME NEW x, request[x].status = "pending", NEW q, request' = [request EXCEPT ![x] = q]
            PROVE  EndsStay
  BY <1>pending, OthersEndStays DEF Ends, ReconciliationInvariant
<1>1. CASE Operator
  <2>1. ASSUME NEW r \in Requests, NEW w \in Workspaces, Start(r, w) PROVE EndsStay
    <3>1. request[r].status = "none"
      BY <2>1 DEF Start
    <3>2. PICK q : q = [NoRequest EXCEPT !.workspace = w, !.generation = native.generation,
                                         !.status = "pending", !.imports = w \notin native.sessions /\ Said(w)]
      OBVIOUS
    <3>3. request' = [request EXCEPT ![r] = q]
      BY <2>1, <3>2 DEF Start
    <3> QED
      BY <3>1, <3>3, OthersEndStays DEF Ends, ReconciliationInvariant
  <2>2. ASSUME NEW t \in Tasks, NEW r \in Requests, NEW kind, Pending(r), Stopping(t, r, kind) PROVE EndsStay
    <3>1. PICK q : q = [request[r] EXCEPT !.cancelRequested = TRUE]
      OBVIOUS
    <3>2. request' = [request EXCEPT ![r] = q] /\ request[r].status = "pending"
      BY <2>2, <3>1 DEF Stopping, Pending
    <3> QED
      BY <3>2, <1>pending
  <2>3. ASSUME NEW t \in Tasks, NEW w \in Workspaces, BeginDelete(t, w) PROVE EndsStay
    BY <2>2, <2>3, <1>same DEF BeginDelete, PendingRequests
  <2>4. CASE ConfigChange
    BY <2>4 DEF ConfigChange, PendingRequests, EndsStay, Ends
  <2>5. ASSUME NEW t \in Tasks, NEW r \in Requests, BeginComplete(t, r) \/ BeginCancel(t, r) PROVE EndsStay
    BY <2>2, <2>5, <1>same DEF BeginComplete, BeginCancel
  <2>6. CASE Quit
    BY <2>6, <1>same DEF Quit
  <2> QED
    BY <1>1, <2>1, <2>3, <2>4, <2>5, <2>6 DEF Operator
<1>2. CASE Processes
  <2>1. ASSUME NEW r \in Requests, InterruptForQuit(r) PROVE EndsStay
    <3>1. PICK q : q = [request[r] EXCEPT !.status = "error", !.cancelRequested = TRUE]
      OBVIOUS
    <3>2. request' = [request EXCEPT ![r] = q] /\ request[r].status = "pending"
      BY <2>1, <3>1 DEF InterruptForQuit, Interruptible, ReconciliationInvariant, ReconciliationTypeOK
    <3> QED
      BY <3>2, <1>pending
  <2>2. ASSUME NEW served \in BOOLEAN, Break(served) \/ Crash(served) PROVE EndsStay
    BY <2>2, <1>same DEF Break, Crash
  <2>3. ASSUME NEW t \in Tasks, CrashApplying(t) PROVE EndsStay
    BY <2>3, <1>same DEF CrashApplying, FirstWrite
  <2> QED
    BY <1>2, <2>1, <2>2, <2>3, <1>same DEF Processes, Launch, ClearModel, SyncModel
<1>3. CASE Answer
  BY <1>3, <1>same DEF Answer
<1>4. ASSUME NEW t \in Tasks, Reads(t) \/ GiveUp(t) PROVE EndsStay
  <2>0. PICK x : x = task[t].request
    OBVIOUS
  <2>1. CASE Dispatch(t) /\ request' # request
    <3>1. PICK q : q = [request[x] EXCEPT !.dispatched = TRUE]
      OBVIOUS
    <3>2. request' = [request EXCEPT ![x] = q] /\ request[x].status = "pending"
      BY <2>0, <2>1, <3>1 DEF Dispatch, Fail, Current, Pending
    <3> QED
      BY <3>2, <1>pending
  <2>2. CASE ApplyPoll(t) /\ request' # request
    <3>1. request' = Applied(x, task[t].reply) /\ request[x].status = "pending"
      BY <2>0, <2>2 DEF ApplyPoll, Fail, Accepted, Current, Pending
    <3>2. PICK q : request' = [request EXCEPT ![x] = q]
      BY <3>1 DEF Applied
    <3> QED
      BY <3>1, <3>2, <1>pending
  <2>3. CASE request' = request
    BY <2>3, <1>same
  <2>4. CASE Admitted(t) \/ Poll(t) \/ Stop(t) \/ Replay(t) \/ Unanswered(t) \/ GiveUp(t)
    BY <2>4, <1>same DEF Admitted, Poll, Stop, Replay, Unanswered, GiveUp, Fail
  <2> QED
    BY <1>4, <2>1, <2>2, <2>3, <2>4 DEF Reads
<1>5. ASSUME NEW t \in Tasks, Cancels(t) \/ Deletes(t) PROVE EndsStay
  <2>0. PICK x : x = task[t].request
    OBVIOUS
  <2>1. CASE Receipt(t) /\ request' # request
    <3>1. PICK q : q = [request[x] EXCEPT !.run = IF task[t].reply.run = "none" THEN task[t].run ELSE task[t].reply.run]
      OBVIOUS
    <3>2. request' = [request EXCEPT ![x] = q] /\ request[x].status = "pending"
      BY <2>0, <2>1, <3>1 DEF Receipt, Pending
    <3> QED
      BY <3>2, <1>pending
  <2>2. CASE Conclude(t) /\ request' # request
    <3>1. PICK q : request' = [request EXCEPT ![x] = q]
      BY <2>0, <2>2 DEF Conclude, ReconciliationInvariant, ReconciliationTypeOK
    <3>2. request[x].status = "pending"
      BY <2>0, <2>2 DEF Conclude
    <3> QED
      BY <3>1, <3>2, <1>pending
  <2>3. CASE Erase(t)
    BY <2>3 DEF Erase, EndsStay, NoRequest
  <2>4. CASE request' = request
    BY <2>4, <1>same
  <2>5. CASE SendCancel(t) \/ Reap(t) \/ Reaped(t) \/ SendDelete(t) \/ Acknowledge(t)
    BY <2>5, <1>same DEF SendCancel, Reap, Reaped, SendDelete, Acknowledge
  <2> QED
    BY <1>5, <2>1, <2>2, <2>3, <2>4, <2>5 DEF Cancels, Deletes
<1>6. ASSUME NEW r \in Requests, StartRun(r) \/ Emit(r) \/ FinishRun(r) PROVE EndsStay
  BY <1>6, <1>same DEF StartRun, Emit, FinishRun, Moved
<1>7. CASE UNCHANGED vars
  BY <1>7, <1>same DEF vars
<1> QED
  BY <1>1, <1>2, <1>3, <1>4, <1>5, <1>6, <1>7 DEF Next

(* No step of a command, of the pipe, of a crash or of quit that comes late        *)
(* changes what the client shows of a reply that ended: only deleting its          *)
(* workspace takes it away (runtime_current, apply_cancel_receipt,                 *)
(* interrupt_for_quit).                                                            *)
THEOREM RepliesFinal == Spec => FinalForGood
<1>1. ReconciliationInvariant /\ [Next]_vars =>
          [\A r \in Requests : request[r].status \in Ends => request'[r].status \in {request[r].status, "deleted"}]_vars
  BY NextEnds DEF EndsStay
<1> QED
  BY <1>1, Reconciled, PTL DEF Spec, FinalForGood
-----------------------------------------------------------------------------
(* The reply lifecycle.  A step moves the runtime's runs or the client's    *)
(* replies, never both.                                                     *)

\* What a step of the runtime makes of its runs
RunsMove(s, u) ==
    \/ u.run = s.run
    \/ \E r \in Requests : s.run[r] = "none" /\ u.run = [s.run EXCEPT ![r] = "queued"]
    \/ \E R \in SUBSET Requests :
          /\ \A r \in R : s.run[r] \in Active
          /\ u.run = [r \in Requests |-> IF r \in R THEN Halted(s.run[r]) ELSE s.run[r]]
    \/ \E r \in Requests, z \in {"running", "failed"} :
          /\ s.run[r] = "queued" /\ \A x \in Requests : s.run[x] \notin {"running", "cancelling"}
          /\ u.run = [s.run EXCEPT ![r] = z]
    \/ \E r \in Requests, z \in {"succeeded", "failed", "cancelled"} :
          /\ s.run[r] = IF z = "cancelled" THEN "cancelling" ELSE "running"
          /\ u.run = [s.run EXCEPT ![r] = z]
    \/ u.run = [r \in Requests |-> IF s.run[r] \in {"running", "cancelling"} THEN "interrupted" ELSE s.run[r]]

LEMMA RunsHalt ==
    ASSUME NEW s \in ServerRecord, NEW R \in SUBSET Requests
    PROVE  RunsMove(s, Invalidated(s, R))
<1> DEFINE hit == {r \in R : s.run[r] \in Active}
<1>1. Invalidated(s, R).run = [r \in Requests |-> IF r \in hit THEN Halted(s.run[r]) ELSE s.run[r]]
  BY DEF Invalidated, ServerRecord
<1>2. hit \in SUBSET Requests /\ \A r \in hit : s.run[r] \in Active
  OBVIOUS
<1> HIDE DEF hit
<1> QED
  BY <1>1, <1>2 DEF RunsMove

LEMMA RunsServed ==
    ASSUME ReconciliationTypeOK, NEW c \in CallRecord, Asks(c)
    PROVE  RunsMove(server, Served(c).server)
<1>0. server \in ServerRecord
  BY DEF ReconciliationTypeOK
<1>1. CASE c.op = "admit"
  <2>1. c.request \in Requests
    BY <1>1 DEF Asks
  <2>2. PICK r \in Requests : r = c.request
    BY <2>1
  <2>3. \/ Admission(r).server = server
        \/ /\ server.run[r] = "none"
           /\ Admission(r).server.run = [server.run EXCEPT ![r] = "queued"]
    BY <1>0 DEF Admission, ServerRecord
  <2> QED
    BY <1>1, <2>2, <2>3 DEF Served, RunsMove
<1>2. CASE c.op = "poll"
  BY <1>2 DEF Served, Polling, RunsMove
<1>3. CASE c.op = "cancel"
  <2>1. PICK r \in Requests : r = c.request
    BY <1>3 DEF Asks
  <2>2. PICK n : n = IF server.run[r] = "none" THEN [server EXCEPT !.tombs = @ \cup {r}]
                     ELSE Invalidated(server, {r})
    OBVIOUS
  <2>3. n \in ServerRecord /\ RunsMove(server, n)
    <3>1. CASE server.run[r] = "none"
      BY <1>0, <2>2, <3>1 DEF ServerRecord, RunsMove
    <3>2. CASE server.run[r] # "none"
      BY <1>0, <2>2, <3>2, RunsHalt, InvalidatedMoves
    <3> QED
      BY <3>1, <3>2
  <2>4. Cancellation(r).server = server \/ Cancellation(r).server = [n EXCEPT !.receipt[r] = n.run[r]]
    BY <2>2 DEF Cancellation
  <2>5. Cancellation(r).server = server \/ Cancellation(r).server.run = n.run
    BY <2>3, <2>4 DEF ServerRecord
  <2>6. RunsMove(server, Cancellation(r).server)
    BY <2>3, <2>5 DEF RunsMove
  <2> QED
    BY <1>3, <2>1, <2>6 DEF Served
<1>4. CASE c.op = "delete"
  <2>1. PICK s : s = [server EXCEPT !.gone = @ \cup {c.workspace}]
    OBVIOUS
  <2>2. s \in ServerRecord /\ s.run = server.run
    BY <1>0, <1>4, <2>1 DEF Asks, ServerRecord
  <2>3. PICK R \in SUBSET Requests : R = {r \in Requests : request[r].workspace = c.workspace}
    OBVIOUS
  <2>4. Deletion(c.workspace).server = server \/ Deletion(c.workspace).server = Invalidated(s, R)
    BY <2>1, <2>3 DEF Deletion
  <2>5. RunsMove(s, Invalidated(s, R))
    BY <2>2, RunsHalt
  <2>6. RunsMove(server, Deletion(c.workspace).server)
    BY <2>2, <2>4, <2>5 DEF RunsMove
  <2> QED
    BY <1>4, <2>6 DEF Served
<1>5. CASE c.op = "closed"
  BY <1>5 DEF Served, RunsMove
<1> QED
  BY <1>1, <1>2, <1>3, <1>4, <1>5 DEF CallRecord, Ops

LEMMA RunsLeft ==
    ASSUME ReconciliationTypeOK, ServerOK, CallsOK, NEW served \in BOOLEAN,
           served => channel # <<>>, server' = LeftBehind(served)
    PROVE  RunsMove(server, server')
<1>1. PICK s : s = IF served THEN Served(Head(channel)).server ELSE server
  OBVIOUS
<1>2. s \in ServerRecord /\ RunsMove(server, s)
  <2>1. CASE served
    BY <1>1, <2>1, HeadAsks, CallServed, RunsServed DEF ServesWell
  <2>2. CASE ~served
    BY <1>1, <2>2 DEF RunsMove, ReconciliationTypeOK
  <2> QED
    BY <2>1, <2>2
<1>3. server'.run = s.run
  BY <1>1, <1>2 DEF LeftBehind, ServerRecord
<1> QED
  BY <1>2, <1>3 DEF RunsMove

LEMMA RunsAuthorized ==
    ASSUME ReconciliationTypeOK, NEW epoch, NEW b,
           server' = [Authorized(epoch) EXCEPT !.ready = b]
    PROVE  RunsMove(server, server')
<1>1. PICK s : s = IF server.epoch = epoch THEN server ELSE Invalidated(server, Requests)
  OBVIOUS
<1>2. s \in ServerRecord /\ RunsMove(server, s)
  <2>1. server \in ServerRecord /\ RunsMove(server, server)
    BY DEF ReconciliationTypeOK, RunsMove
  <2>2. Invalidated(server, Requests) \in ServerRecord /\ RunsMove(server, Invalidated(server, Requests))
    BY <2>1, RunsHalt, InvalidatedMoves
  <2> QED
    BY <1>1, <2>1, <2>2
<1>3. server'.run = s.run
  BY <1>1, <1>2 DEF Authorized, ServerRecord
<1> QED
  BY <1>2, <1>3 DEF RunsMove

LEMMA RunsWork ==
    ASSUME ReconciliationTypeOK, NEW r \in Requests, StartRun(r) \/ Emit(r) \/ FinishRun(r)
    PROVE  RunsMove(server, server')
<1>1. ASSUME NEW z, Moved(r, z) PROVE server'.run = [server.run EXCEPT ![r] = z]
  BY <1>1 DEF Moved, ReconciliationTypeOK, ServerRecord
<1>2. CASE StartRun(r)
  BY <1>1, <1>2 DEF StartRun, RunsMove
<1>3. CASE Emit(r)
  <2>1. server'.run = server.run
    BY <1>1, <1>3 DEF Emit, ReconciliationTypeOK, ServerRecord
  <2> QED
    BY <2>1 DEF RunsMove
<1>4. CASE FinishRun(r)
  BY <1>1, <1>4 DEF FinishRun, RunsMove
<1> QED
  BY <1>2, <1>3, <1>4

-----------------------------------------------------------------------------
Became(r, before, after) ==
    /\ request[r].status = before /\ request'[r].status = after
    /\ \A x \in Requests \ {r} : request'[x].status = request[x].status

\* What a step of the client makes of its replies
StatusesKept == \A r \in Requests : request'[r].status = request[r].status
RepliesMove ==
    \/ \E r \in Requests :
          \/ Became(r, "none", "pending")
          \/ \E end \in {"complete", "error", "cancelled"} : Became(r, "pending", end)
    \/ \A r \in Requests :
          request'[r].status = IF request[r].status = "pending" THEN "fenced" ELSE request[r].status
    \/ \E R \in SUBSET Requests :
          /\ \A r \in R : request[r].status # "none"
          /\ \A r \in Requests : request'[r].status = IF r \in R THEN "deleted" ELSE request[r].status

\* The client rests, or the runtime does.
PartMoves ==
    \/ request' = request /\ RunsMove(server, server')
    \/ server' = server /\ (StatusesKept \/ RepliesMove)

LEMMA OneKept ==
    ASSUME ReconciliationTypeOK, NEW x, NEW q, request' = [request EXCEPT ![x] = q],
           x \in Requests => q.status = request[x].status
    PROVE  StatusesKept
BY DEF StatusesKept, ReconciliationTypeOK

LEMMA OneBecomes ==
    ASSUME ReconciliationTypeOK, NEW x \in Requests, NEW q, request' = [request EXCEPT ![x] = q]
    PROVE  Became(x, request[x].status, q.status)
BY DEF Became, ReconciliationTypeOK

LEMMA OperatorParts == ReconciliationInvariant /\ Operator => PartMoves
<1> SUFFICES ASSUME ReconciliationInvariant, Operator PROVE PartMoves
  OBVIOUS
<1> USE DEF ReconciliationInvariant
<1>1. ASSUME NEW r \in Requests, NEW w \in Workspaces, Start(r, w) PROVE PartMoves
  <2>1. PICK q : q = [NoRequest EXCEPT !.workspace = w, !.generation = native.generation,
                                       !.status = "pending", !.imports = w \notin native.sessions /\ Said(w)]
    OBVIOUS
  <2>2. request' = [request EXCEPT ![r] = q] /\ server' = server /\ request[r].status = "none"
    BY <1>1, <2>1 DEF Start
  <2>3. q.status = "pending"
    BY <2>1 DEF NoRequest
  <2>4. Became(r, "none", "pending")
    BY <2>2, <2>3, OneBecomes
  <2> QED
    BY <2>2, <2>4 DEF PartMoves, RepliesMove
<1>2. ASSUME NEW t \in Tasks, NEW r \in Requests, NEW kind, Stopping(t, r, kind) PROVE PartMoves
  <2>1. PICK q : q = [request[r] EXCEPT !.cancelRequested = TRUE]
    OBVIOUS
  <2>2. request' = [request EXCEPT ![r] = q] /\ server' = server
    BY <1>2, <2>1 DEF Stopping
  <2>3. q.status = request[r].status
    BY <2>1 DEF ReconciliationTypeOK, RequestRecord
  <2> QED
    BY <2>2, <2>3, OneKept DEF PartMoves
<1>3. ASSUME NEW t \in Tasks, NEW w \in Workspaces, BeginDelete(t, w) PROVE PartMoves
  <2>1. ASSUME UNCHANGED <<request, server>> PROVE PartMoves
    BY <2>1 DEF PartMoves, RunsMove
  <2> QED
    BY <1>2, <1>3, <2>1 DEF BeginDelete, PendingRequests
<1>4. CASE ConfigChange
  BY <1>4 DEF ConfigChange, PendingRequests, PartMoves, RepliesMove, ReconciliationTypeOK, RequestRecord
<1>5. ASSUME NEW t \in Tasks, NEW r \in Requests, BeginComplete(t, r) \/ BeginCancel(t, r) PROVE PartMoves
  BY <1>2, <1>5 DEF BeginComplete, BeginCancel, PartMoves, RunsMove
<1>6. CASE Quit
  <2>1. PICK served \in BOOLEAN : (served => channel # <<>>) /\ server' = LeftBehind(served)
    BY <1>6 DEF Quit
  <2> QED
    BY <1>6, <2>1, RunsLeft DEF Quit, PartMoves
<1> QED
  BY <1>1, <1>3, <1>4, <1>5, <1>6 DEF Operator

LEMMA ProcessesParts == ReconciliationInvariant /\ Processes => PartMoves
<1> SUFFICES ASSUME ReconciliationInvariant, Processes PROVE PartMoves
  OBVIOUS
<1> USE DEF ReconciliationInvariant
<1>1. ASSUME NEW served \in BOOLEAN, served => channel # <<>>, server' = LeftBehind(served), request' = request
      PROVE  PartMoves
  BY <1>1, RunsLeft DEF PartMoves
<1>2. ASSUME NEW served \in BOOLEAN, Break(served) \/ Crash(served) PROVE PartMoves
  BY <1>1, <1>2 DEF Break, Crash, Gone
<1>3. ASSUME NEW t \in Tasks, CrashApplying(t) PROVE PartMoves
  BY <1>1, <1>3 DEF CrashApplying, FirstWrite, Gone
<1>4. ASSUME NEW r \in Requests, InterruptForQuit(r) PROVE PartMoves
  <2>1. PICK q : q = [request[r] EXCEPT !.status = "error", !.cancelRequested = TRUE]
    OBVIOUS
  <2>2. /\ request' = [request EXCEPT ![r] = q] /\ request[r].status = "pending"
        /\ server' = server
    BY <1>4, <2>1 DEF InterruptForQuit, Interruptible, ReconciliationTypeOK
  <2>3. q.status = "error"
    BY <2>1 DEF ReconciliationTypeOK, RequestRecord
  <2>4. Became(r, "pending", "error")
    BY <2>2, <2>3, OneBecomes
  <2> QED
    BY <2>2, <2>4 DEF PartMoves, RepliesMove
<1>5. CASE Launch
  <2>1. server'.run = [r \in Requests |-> IF server.run[r] \in {"running", "cancelling"} THEN "interrupted"
                                          ELSE server.run[r]]
    BY <1>5 DEF Launch, Recovered, ReconciliationTypeOK, ServerRecord
  <2> QED
    BY <1>5, <2>1 DEF Launch, PartMoves, RunsMove
<1>6. CASE ClearModel \/ SyncModel
  BY <1>6, RunsAuthorized DEF ClearModel, SyncModel, PartMoves
<1> QED
  BY <1>2, <1>3, <1>4, <1>5, <1>6 DEF Processes

LEMMA ReadsParts ==
    ASSUME ReconciliationInvariant, NEW t \in Tasks, Reads(t) \/ GiveUp(t)
    PROVE  PartMoves
<1> USE DEF ReconciliationInvariant
<1>same. ASSUME UNCHANGED <<request, server>> PROVE PartMoves
  BY <1>same DEF PartMoves, RunsMove
<1>0. PICK x : x = task[t].request
  OBVIOUS
<1>1. CASE Dispatch(t)
  <2>1. CASE Fail(t)
    BY <1>same, <2>1 DEF Fail
  <2>2. CASE ~Fail(t)
    <3>1. PICK q : q = [request[x] EXCEPT !.dispatched = TRUE]
      OBVIOUS
    <3>2. request' = [request EXCEPT ![x] = q] /\ server' = server
      BY <1>0, <1>1, <2>2, <3>1 DEF Dispatch
    <3>3. x \in Requests => q.status = request[x].status
      BY <3>1 DEF ReconciliationTypeOK, RequestRecord
    <3> QED
      BY <3>2, <3>3, OneKept DEF PartMoves
  <2> QED
    BY <2>1, <2>2
<1>2. CASE ApplyPoll(t)
  <2>1. CASE Fail(t)
    BY <1>same, <2>1 DEF Fail
  <2>2. CASE ~Fail(t)
    <3>1. /\ request' = Applied(x, task[t].reply) /\ server' = server
          /\ HasPage(t) /\ request[x].status = "pending"
      BY <1>0, <1>2, <2>2 DEF ApplyPoll, Accepted, Current, Pending
    <3>2. x \in Requests
      BY <1>0, <3>1 DEF HasPage, TaskOK, Reading
    <3>3. PICK page : page = task[t].reply
      OBVIOUS
    <3>4. PICK q : q = [Advanced(request[x], page) EXCEPT
                           !.status = IF Whole(page) THEN Outcome(page.state) ELSE request[x].status]
      OBVIOUS
    <3>5. request' = [request EXCEPT ![x] = q]
      BY <3>1, <3>2, <3>3, <3>4 DEF Applied, ReconciliationTypeOK
    <3>6. q.status = IF Whole(page) THEN Outcome(page.state) ELSE "pending"
      BY <3>1, <3>2, <3>4 DEF Advanced, ReconciliationTypeOK, RequestRecord
    <3>7. Outcome(page.state) \in {"complete", "error", "cancelled"}
      BY DEF Outcome
    <3>8. CASE q.status = "pending"
      BY <3>1, <3>2, <3>5, <3>8, OneKept DEF PartMoves
    <3>9. CASE q.status # "pending"
      <4>1. Became(x, "pending", q.status)
        BY <3>1, <3>2, <3>5, OneBecomes
      <4>2. q.status \in {"complete", "error", "cancelled"}
        BY <3>6, <3>7, <3>9
      <4> QED
        BY <3>1, <3>2, <4>1, <4>2 DEF PartMoves, RepliesMove
    <3> QED
      BY <3>8, <3>9
  <2> QED
    BY <2>1, <2>2
<1>3. CASE Admitted(t) \/ Poll(t) \/ Stop(t) \/ Replay(t) \/ Unanswered(t) \/ GiveUp(t)
  BY <1>3, <1>same DEF Admitted, Poll, Stop, Replay, Unanswered, GiveUp, Fail
<1> QED
  BY <1>1, <1>2, <1>3 DEF Reads

LEMMA CommandsParts ==
    ASSUME ReconciliationInvariant, NEW t \in Tasks, Cancels(t) \/ Deletes(t)
    PROVE  PartMoves
<1> USE DEF ReconciliationInvariant
<1>same. ASSUME UNCHANGED <<request, server>> PROVE PartMoves
  BY <1>same DEF PartMoves, RunsMove
<1>0. PICK x : x = task[t].request
  OBVIOUS
<1>1. CASE Receipt(t)
  <2>1. CASE request' = request
    BY <1>1, <1>same, <2>1 DEF Receipt
  <2>2. CASE request' # request
    <3>1. PICK q : q = [request[x] EXCEPT !.run = IF task[t].reply.run = "none" THEN task[t].run ELSE task[t].reply.run]
      OBVIOUS
    <3>2. request' = [request EXCEPT ![x] = q] /\ server' = server
      BY <1>0, <1>1, <2>2, <3>1 DEF Receipt
    <3>3. x \in Requests => q.status = request[x].status
      BY <3>1 DEF ReconciliationTypeOK, RequestRecord
    <3> QED
      BY <3>2, <3>3, OneKept DEF PartMoves
  <2> QED
    BY <2>1, <2>2
<1>2. CASE Conclude(t)
  <2>1. CASE request' = request
    BY <1>2, <1>same, <2>1 DEF Conclude
  <2>2. CASE request' # request
    <3>1. x \in Requests /\ request[x].status = "pending" /\ server' = server
      BY <1>0, <1>2, <2>2 DEF Conclude, TaskOK, Fencing
    <3>2. PICK q : q = [request[x] EXCEPT !.status = "cancelled", !.run = task[t].run]
      OBVIOUS
    <3>3. request' = [request EXCEPT ![x] = q]
      BY <1>0, <1>2, <2>2, <3>1, <3>2 DEF Conclude, ReconciliationTypeOK
    <3>4. q.status = "cancelled"
      BY <3>1, <3>2 DEF ReconciliationTypeOK, RequestRecord
    <3> QED
      BY <3>1, <3>3, <3>4, OneBecomes DEF PartMoves, RepliesMove
  <2> QED
    BY <2>1, <2>2
<1>3. CASE Erase(t)
  <2>1. CASE request' = request
    BY <1>3, <1>same, <2>1 DEF Erase
  <2>2. CASE request' # request
    <3>1. PICK w : w = task[t].workspace
      OBVIOUS
    <3>2. PICK R \in SUBSET Requests : R = {r \in Requests : request[r].workspace = w}
      OBVIOUS
    <3>3. /\ w \in native.live /\ server' = server
          /\ request' = [r \in Requests |-> IF request[r].workspace = w
                            THEN [NoRequest EXCEPT !.workspace = w, !.status = "deleted"] ELSE request[r]]
      BY <1>3, <2>2, <3>1 DEF Erase, Erasable
    <3>4. w # Nil
      BY <3>3, ReconciliationAssumption DEF ReconciliationTypeOK, NativeRecord, ReconciliationAssumption
    <3>5. \A r \in R : request[r].status # "none"
      BY <3>2, <3>4 DEF RowOK
    <3>6. \A r \in Requests : request'[r].status = IF r \in R THEN "deleted" ELSE request[r].status
      BY <3>2, <3>3 DEF NoRequest
    <3> QED
      BY <3>3, <3>5, <3>6 DEF PartMoves, RepliesMove
  <2> QED
    BY <2>1, <2>2
<1>4. CASE SendCancel(t) \/ Reap(t) \/ Reaped(t) \/ SendDelete(t) \/ Acknowledge(t)
  BY <1>4, <1>same DEF SendCancel, Reap, Reaped, SendDelete, Acknowledge
<1> QED
  BY <1>1, <1>2, <1>3, <1>4 DEF Cancels, Deletes

LEMMA NextParts == ReconciliationInvariant /\ [Next]_vars => PartMoves
<1> SUFFICES ASSUME ReconciliationInvariant, [Next]_vars PROVE PartMoves
  OBVIOUS
<1>1. CASE Answer
  <2>1. server' = Served(Head(channel)).server /\ request' = request
    BY <1>1 DEF Answer
  <2>2. Head(channel) \in CallRecord /\ Asks(Head(channel))
    BY <1>1, HeadAsks DEF Answer, ReconciliationInvariant
  <2> QED
    BY <2>1, <2>2, RunsServed DEF PartMoves, ReconciliationInvariant
<1>2. ASSUME NEW r \in Requests, StartRun(r) \/ Emit(r) \/ FinishRun(r) PROVE PartMoves
  <2>1. request' = request
    BY <1>2 DEF StartRun, Emit, FinishRun, Moved
  <2> QED
    BY <1>2, <2>1, RunsWork DEF PartMoves, ReconciliationInvariant
<1>3. CASE UNCHANGED vars
  BY <1>3 DEF vars, PartMoves, RunsMove
<1> QED
  BY <1>1, <1>2, <1>3, OperatorParts, ProcessesParts, ReadsParts, CommandsParts DEF Next

-----------------------------------------------------------------------------
(* Every step of a part is a step of the lifecycle.                        *)

Statused == [r \in Requests |-> request[r].status]
Visible  == [r \in Requests |-> ToldOf(server.run[r])]

LEMMA RunsLive ==
    ASSUME ReconciliationTypeOK, ReconciliationTypeOK', RunsMove(server, server')
    PROVE  UNCHANGED Visible \/ Reply!Next
<1> USE DEF ReconciliationTypeOK, ServerRecord, ToldOf
<1>1. CASE server'.run = server.run
  BY <1>1 DEF Visible
<1>2. ASSUME NEW r \in Requests, server.run[r] = "none", server'.run = [server.run EXCEPT ![r] = "queued"]
      PROVE  Reply!Next
  <2>1. Reply!Admit(r)
    BY <1>2 DEF Reply!Admit
  <2> QED
    BY <2>1 DEF Reply!Next
<1>3. ASSUME NEW R \in SUBSET Requests, \A r \in R : server.run[r] \in Active,
             server'.run = [r \in Requests |-> IF r \in R THEN Halted(server.run[r]) ELSE server.run[r]]
      PROVE  Reply!Next
  <2>1. Reply!Stop(R)
    BY <1>3 DEF Reply!Stop, Reply!In, Reply!Active, Reply!Executing, Active, Halted
  <2> QED
    BY <2>1 DEF Reply!Next
<1>4. ASSUME NEW r \in Requests, NEW z \in {"running", "failed"}, server.run[r] = "queued",
             \A x \in Requests : server.run[x] \notin {"running", "cancelling"},
             server'.run = [server.run EXCEPT ![r] = z]
      PROVE  Reply!Next
  <2>1. PICK B, S : B = (IF z = "failed" THEN {r} ELSE {}) /\ S = (IF z = "failed" THEN {} ELSE {r})
    OBVIOUS
  <2>2. Reply!In(Reply!Executing) = {}
    BY <1>4 DEF Reply!In, Reply!Executing, RunStates, Active, Terminal
  <2>3. B \subseteq Reply!In({"queued"}) /\ S \subseteq Reply!In({"queued"}) \ B /\ \A x, y \in S : x = y
    BY <1>4, <2>1 DEF Reply!In
  <2>4. Visible' = [x \in Requests |-> IF x \in B THEN "blocked" ELSE IF x \in S THEN "running" ELSE Visible[x]]
    BY <1>4, <2>1 DEF Visible
  <2>5. Reply!Dispatch(B, S)
    BY <2>2, <2>3, <2>4 DEF Reply!Dispatch, Visible
  <2>6. B \in SUBSET Requests /\ S \in SUBSET Requests
    BY <2>1
  <2> QED
    BY <2>5, <2>6 DEF Reply!Next
<1>5. ASSUME NEW r \in Requests, NEW z \in {"succeeded", "failed", "cancelled"},
             server.run[r] = IF z = "cancelled" THEN "cancelling" ELSE "running",
             server'.run = [server.run EXCEPT ![r] = z]
      PROVE  Reply!Next
  <2>1. Visible' = [Visible EXCEPT ![r] = ToldOf(z)]
    BY <1>5 DEF Visible
  <2>2. Visible[r] = server.run[r] /\ ToldOf(z) \in {"succeeded", "blocked", "cancelled"}
        /\ (ToldOf(z) = "cancelled" <=> z = "cancelled")
    BY <1>5 DEF Visible
  <2>3. Visible[r] \in {"running", "cancelling"}
        /\ ToldOf(z) \in (IF Visible[r] = "cancelling" THEN {"cancelled"} ELSE {"succeeded", "failed", "blocked"})
    BY <1>5, <2>2
  <2> HIDE DEF ToldOf
  <2>4. Reply!End(r)
    BY <2>1, <2>3 DEF Reply!End, Reply!Executing, Visible
  <2> QED
    BY <2>4 DEF Reply!Next
<1>6. CASE server'.run = [r \in Requests |-> IF server.run[r] \in {"running", "cancelling"} THEN "interrupted"
                                             ELSE server.run[r]]
  <2>1. \A r \in Requests : server.run[r] # "waiting_for_device"
    BY DEF RunStates, Active, Terminal
  <2>2. Reply!Restart
    BY <1>6, <2>1 DEF Reply!Restart, Reply!In, Reply!Executing
  <2> QED
    BY <2>2 DEF Reply!Next
<1> QED
  BY <1>1, <1>2, <1>3, <1>4, <1>5, <1>6 DEF RunsMove

\* Nothing is admitted that nobody asked for or that was stopped.
LEMMA RunsAsked ==
    ASSUME ReconciliationInvariant, ReconciliationInvariant', request' = request,
           RunsMove(server, server'), NEW r \in Requests, Visible[r] = "none", Visible'[r] # "none"
    PROVE  request[r].status \notin {"none", "cancelled", "deleted"}
<1>1. server.run[r] = "none" /\ server'.run[r] # "none"
  BY DEF Visible, ToldOf
<1>2. server'.run[r] = "queued"
  BY <1>1 DEF RunsMove, Active, ReconciliationInvariant, ReconciliationTypeOK, ServerRecord
<1>3. (ReconciliationInvariant => StopHolds)'
  BY HoldsStopped, PTL
<1>4. request[r].status # "none"
  BY <1>1 DEF ReconciliationInvariant, ServerOK, Holds, Known
<1> QED
  BY <1>2, <1>3, <1>4 DEF StopHolds, StoppedIsStopped, Active

LEMMA RuntimeLives ==
    ASSUME ReconciliationInvariant, ReconciliationInvariant', request' = request, RunsMove(server, server')
    PROVE  Reply!ReplyNext \/ UNCHANGED <<Statused, Visible>>
<1>1. UNCHANGED Statused
  BY DEF Statused
<1>2. UNCHANGED Visible \/ Reply!Next
  BY RunsLive DEF ReconciliationInvariant
<1>3. Reply!Next => Reply!Work
  BY <1>1, RunsAsked DEF Reply!Work, Statused, Visible
<1> QED
  BY <1>1, <1>2, <1>3 DEF Reply!ReplyNext

LEMMA ShownBecomes ==
    ASSUME NEW r \in Requests, NEW before, NEW after, Became(r, before, after), server' = server
    PROVE  Reply!Shows(r, {before}, after)
BY DEF Became, Reply!Shows

LEMMA ClientLives ==
    ASSUME ReconciliationInvariant', server' = server, RepliesMove
    PROVE  Reply!ReplyNext
<1>1. (ReconciliationInvariant => StopHolds)' /\ (ReconciliationInvariant => EventsWhole)'
  BY HoldsStopped, HoldsWhole, PTL
<1>2. ASSUME NEW r \in Requests, Became(r, "none", "pending") PROVE Reply!ReplyNext
  BY <1>2, ShownBecomes DEF Reply!ReplyNext, Reply!Ask
<1>3. ASSUME NEW r \in Requests, Became(r, "pending", "complete") PROVE Reply!ReplyNext
  <2>1. server.run[r] = "succeeded"
    BY <1>1, <1>3 DEF EventsWhole, SuccessIsWhole, Became
  <2> QED
    BY <1>3, <2>1, ShownBecomes DEF Reply!ReplyNext, Reply!Complete, ToldOf
<1>4. ASSUME NEW r \in Requests, Became(r, "pending", "error") PROVE Reply!ReplyNext
  BY <1>4, ShownBecomes DEF Reply!ReplyNext, Reply!Fail
<1>5. ASSUME NEW r \in Requests, Became(r, "pending", "cancelled") PROVE Reply!ReplyNext
  <2>1. server.run[r] \notin {"queued", "running", "cancelling"}
    BY <1>1, <1>5 DEF StopHolds, StoppedIsStopped, Became, Active
  <2>2. server.run[r] # "waiting_for_device"
    BY DEF ReconciliationInvariant, ReconciliationTypeOK, ServerRecord, RunStates, Active, Terminal
  <2>3. ToldOf(server.run[r]) \notin Reply!Active
    BY <2>1, <2>2 DEF Reply!Active, Reply!Executing, ToldOf
  <2>4. Reply!Cancel(r)
    BY <1>5, <2>3, ShownBecomes DEF Reply!Cancel
  <2> QED
    BY <2>4 DEF Reply!ReplyNext
<1>6. CASE \A r \in Requests :
              request'[r].status = IF request[r].status = "pending" THEN "fenced" ELSE request[r].status
  BY <1>6 DEF Reply!ReplyNext, Reply!Fence
<1>7. ASSUME NEW R \in SUBSET Requests, \A r \in R : request[r].status # "none",
             \A r \in Requests : request'[r].status = IF r \in R THEN "deleted" ELSE request[r].status
      PROVE  Reply!ReplyNext
  <2>1. \A r \in R : server.run[r] \notin {"queued", "running"}
    BY <1>1, <1>7 DEF StopHolds, StoppedIsStopped
  <2>2. Reply!Erase(R)
    BY <1>7, <2>1 DEF Reply!Erase, ToldOf
  <2> QED
    BY <2>2 DEF Reply!ReplyNext
<1> QED
  BY <1>2, <1>3, <1>4, <1>5, <1>6, <1>7 DEF RepliesMove

LEMMA LivesNext ==
    ReconciliationInvariant /\ ReconciliationInvariant' /\ [Next]_vars =>
        [Reply!ReplyNext]_<<Statused, Visible>>
<1> SUFFICES ASSUME ReconciliationInvariant, ReconciliationInvariant', [Next]_vars
             PROVE  Reply!ReplyNext \/ UNCHANGED <<Statused, Visible>>
  OBVIOUS
<1>1. CASE request' = request /\ RunsMove(server, server')
  BY <1>1, RuntimeLives
<1>2. CASE server' = server /\ StatusesKept
  BY <1>2 DEF StatusesKept, Statused, Visible
<1>3. CASE server' = server /\ RepliesMove
  BY <1>3, ClientLives
<1> QED
  BY <1>1, <1>2, <1>3, NextParts DEF PartMoves

LEMMA LivesInit == Init => Reply!ReplyInit
BY DEF Init, NoRequest, ToldOf, Reply!ReplyInit, Reply!Init

(* For any number of replies, commands and launches, two databases that crash     *)
(* apart and a pipe that loses and delays what it holds look like one life of a    *)
(* reply: it ends once, as a success only with its run, and what is shown as       *)
(* stopped or deleted is worked on no more, and never admitted late.               *)
THEOREM RepliesImplement == Spec => ImplementsReplies
<1>1. ReconciliationInvariant /\ ReconciliationInvariant' /\ [Next]_vars =>
          [Reply!ReplyNext]_<<[r \in Requests |-> request[r].status],
                              [r \in Requests |-> ToldOf(server.run[r])]>>
  BY LivesNext DEF Statused, Visible
<1> QED
  BY <1>1, LivesInit, Reconciled, PTL DEF Spec, ImplementsReplies, Reply!ReplySpec
=============================================================================
