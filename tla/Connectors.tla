----------------------------- MODULE Connectors -----------------------------
(***************************************************************************)
(* The accounts of the native host (connectors.rs, connectors/): sign-in   *)
(* through the system browser, token refresh, disconnection, the read      *)
(* grants and the reads made under them.                                   *)
(*                                                                         *)
(* Every operation runs under the lifecycle lock, which is never held over *)
(* an await.  An operation that writes the database and the credential     *)
(* store is a series of steps under the lock, any of which may fail, and   *)
(* the process may end between two of them; every other critical section   *)
(* is one action.  A check that only repeats, before the next check, what  *)
(* that one tests is folded into it.  A connection is named by the sign-in *)
(* that creates it, a refresh by its turn, and a stored credential by the  *)
(* refresh that wrote it (0: the sign-in).                                 *)
(***************************************************************************)
EXTENDS ConnectorGrants

CONSTANTS
    SignInSpan,     \* CALLBACK_TIMEOUT
    MaxRefreshes,   \* bound on the refreshes begun
    Horizon         \* bound on the clock

ASSUME ConnectorAssumption ==
    /\ SignInSpan \in Nat \ {0} /\ MaxRefreshes \in Nat /\ Horizon \in Nat
    /\ Nil \notin [id : Connections, deadline : Nat]

VARIABLES
    now,        \* the clock
    life,       \* struct Lifecycle, under its lock
    lock,       \* the operation in its critical section, and its next step
    flow,       \* the task of each sign-in
    refresh,    \* the task of each refresh
    read,       \* the task of each read
    row, secret,    \* durable: the connectors table, the credential store
    dropped,    \* history: connections the operator disconnected
    issued,     \* history: grants registered, each under a fresh identifier
    ended       \* history: <<grant, run>> whose authority was withdrawn

tasks == <<flow, refresh, read>>
stored == <<row, secret>>
history == <<dropped, issued, ended>>
vars == <<now, life, lock, tasks, stored, history>>

Free == [op |-> "none", at |-> "free", connection |-> Nil, task |-> 0, scopes |-> {}]
NoRefresh == [pc |-> "none", connection |-> Nil, read |-> Nil]
NoRead == [pc |-> "none", context |-> Nil]
NoRow == [state |-> "none", scopes |-> {}]
NoLife ==
    [pending |-> Nil, phase |-> [c \in Connections |-> "none"],
     refreshes |-> [c \in Connections |-> 0], grants |-> NoGrants]
Turns == 1..MaxRefreshes

Live(c) == row[c].state = "live"
Available == lock = Free
ConnectionGrants(c) ==
    {g \in Registered(life.grants) : life.grants.items[g].connection = c}

-----------------------------------------------------------------------------
(* Lifecycle: at most one sign-in is pending                               *)

Terminal(l, phase) ==
    [l EXCEPT !.phase[l.pending.id] = phase, !.pending = Nil]

Overdue(l) == l.pending # Nil /\ now >= l.pending.deadline
Expire(l) == IF Overdue(l) THEN Terminal(l, "failed") ELSE l
\* Variant: whatever attempt is pending will do.
AnyPending(l, c) == l.pending # Nil
Current(l, c) == l.pending # Nil /\ l.pending.id = c
\* Variant: whatever attempt is pending ends.
FinishAny(l, c, phase) ==
    LET e == Expire(l) IN IF e.pending # Nil THEN Terminal(e, phase) ELSE e
Finish(l, c, phase) ==
    LET e == Expire(l) IN IF Current(e, c) THEN Terminal(e, phase) ELSE e

Snapshot ==
    /\ Available /\ Overdue(life) /\ life' = Expire(life)
    /\ UNCHANGED <<now, lock, tasks, stored, history>>

-----------------------------------------------------------------------------
(* Sign-in                                                                 *)

StartGoogle(c) ==
    /\ Available /\ flow[c] = "none"
    /\ LET l == Expire(life)
       IN  /\ l.pending = Nil
           /\ life' = [l EXCEPT !.phase[c] = "pending",
                  !.pending = [id |-> c, deadline |-> now + SignInSpan]]
    /\ flow' = [flow EXCEPT ![c] = "opening"]
    /\ UNCHANGED <<now, lock, refresh, read, stored, history>>

\* The browser opens only for the attempt that is still pending.
OpensBrowser(c) ==
    /\ Available /\ flow[c] = "opening"
    /\ life' = Expire(life)
    /\ flow' = [flow EXCEPT ![c] = IF Current(life', c) THEN "launched" ELSE "done"]
    /\ UNCHANGED <<now, lock, refresh, read, stored, history>>

Launched(c) ==
    /\ Available /\ flow[c] = "launched"
    /\ life' = Expire(life) /\ Current(life', c)
    /\ flow' = [flow EXCEPT ![c] = "waiting"]
    /\ UNCHANGED <<now, lock, refresh, read, stored, history>>

CallsBack(c) ==
    /\ Available /\ flow[c] = "waiting"
    /\ LET l == Expire(life)
       IN  Current(l, c) /\ life' = [l EXCEPT !.phase[c] = "exchanging"]
    /\ flow' = [flow EXCEPT ![c] = "exchanging"]
    /\ UNCHANGED <<now, lock, refresh, read, stored, history>>

\* Denial, cancellation, timeout, or a failure of the browser, the listener,
\* the provider or the commit.
FlowFails(c) ==
    /\ Available /\ flow[c] \in {"launched", "waiting", "exchanging", "failing"}
    /\ life' = Finish(life, c, "failed")
    /\ flow' = [flow EXCEPT ![c] = "done"]
    /\ UNCHANGED <<now, lock, refresh, read, stored, history>>

Cancel(c) ==
    /\ Available
    /\ LET l == Expire(life) IN Current(l, c) /\ life' = Terminal(l, "cancelled")
    /\ UNCHANGED <<now, lock, tasks, stored, history>>

\* The provider granted some of the requested scopes.
CommitNew(c, scopes) ==
    /\ Available /\ flow[c] = "exchanging" /\ scopes # {}
    /\ life' = Expire(life) /\ Current(life', c)
    /\ lock' = [Free EXCEPT !.op = "signin", !.at = "stage", !.connection = c,
                            !.scopes = scopes]
    /\ UNCHANGED <<now, tasks, stored, history>>

-----------------------------------------------------------------------------
(* Refresh, by the operator (d = Nil) or for a read                        *)

Refreshable(c) == Live(c) /\ secret[c] # Nil /\ life.refreshes[c] = 0

BeginRefresh(n, c, d) ==
    /\ Available /\ refresh[n].pc = "none" /\ \A k \in 1..(n - 1) : refresh[k].pc # "none"
    /\ Refreshable(c)
    /\ refresh' = [refresh EXCEPT ![n] = [pc |-> "sent", connection |-> c, read |-> d]]

RefreshByOperator(n, c) ==
    /\ BeginRefresh(n, c, Nil)
    /\ life' = [life EXCEPT !.refreshes[c] = n]
    /\ UNCHANGED <<now, lock, flow, read, stored, history>>

\* Variant: the lease is kept.
Kept(l, n) == l
\* The lease of the refresh and, if it served a read, that of the read go.
Released(l, n) ==
    LET c == refresh[n].connection
    IN  IF l.refreshes[c] = n THEN [l EXCEPT !.refreshes[c] = 0] ELSE l
ReadReleased(l, d) ==
    [l EXCEPT !.grants = Finished(@, d, read[d].context)]
RefreshEnds(l, n) ==
    LET d == refresh[n].read
    IN  IF d = Nil THEN Released(l, n) ELSE ReadReleased(Released(l, n), d)
ReadEnds(d, pc) ==
    read' = IF d = Nil THEN read ELSE [read EXCEPT ![d].pc = pc]

RefreshFails(n) ==
    /\ Available /\ refresh[n].pc = "sent"
    /\ life' = RefreshEnds(life, n)
    /\ refresh' = [refresh EXCEPT ![n].pc = "done"]
    /\ ReadEnds(refresh[n].read, "failed")
    /\ UNCHANGED <<now, lock, flow, stored, history>>

\* The lease is current, and so is the read it serves.
CurrentRefresh(l, n) == l.refreshes[refresh[n].connection] = n
\* Variant: an answer is committed whoever holds the lease.
CommittableAnyLease(l, n) ==
    /\ Live(refresh[n].connection)
    /\ LET d == refresh[n].read
       IN  d # Nil => AllowsRead(l.grants, d, read[d].context, now)
\* Variant: nothing is checked again after the answer.
CommittableUnchecked(l, n) == TRUE
Committable(l, n) ==
    /\ CurrentRefresh(l, n) /\ Live(refresh[n].connection)
    /\ LET d == refresh[n].read
       IN  d # Nil => AllowsRead(l.grants, d, read[d].context, now)
WithGrantsExpired(l) == [l EXCEPT !.grants = Expired(@, now)]
\* Variant: the grants survive.
WithGrants(l, c) == l
WithoutGrants(l, c) == [l EXCEPT !.grants = RevokedConnection(@, c)]

CommitRefresh(n, scopes) ==
    LET c == refresh[n].connection
        l == IF refresh[n].read = Nil THEN life ELSE WithGrantsExpired(life)
        narrower == scopes # row[c].scopes
    IN  /\ Available /\ refresh[n].pc = "sent" /\ Committable(l, n)
        /\ scopes # {} /\ scopes \subseteq row[c].scopes
        /\ life' = IF narrower THEN WithoutGrants(l, c) ELSE l
        /\ ended' = IF narrower THEN ended \cup (ConnectionGrants(c) \X Runs) ELSE ended
        /\ lock' = [op |-> "refresh", at |-> "stage", connection |-> c, task |-> n,
                    scopes |-> scopes]
        /\ UNCHANGED <<now, tasks, stored, dropped, issued>>

\* The answer names a scope that was not granted before: disable the account.
RefusesScopes(n) ==
    LET c == refresh[n].connection
        l == IF refresh[n].read = Nil THEN life ELSE WithGrantsExpired(life)
    IN  /\ Available /\ refresh[n].pc = "sent" /\ Committable(l, n)
        /\ life' = WithoutGrants(l, c)
        /\ ended' = ended \cup (ConnectionGrants(c) \X Runs)
        /\ lock' = [op |-> "refresh", at |-> "mark", connection |-> c, task |-> n,
                    scopes |-> {}]
        /\ UNCHANGED <<now, tasks, stored, dropped, issued>>

-----------------------------------------------------------------------------
(* Disconnection, also the retry of an incomplete cleanup                  *)

Disconnected(l, c) == [WithoutGrants(l, c) EXCEPT !.refreshes[c] = 0]

\* Any other identifier changes nothing.
Disconnect(c) ==
    /\ Available /\ (row[c] # NoRow \/ secret[c] # Nil)
    /\ life' = Disconnected(life, c)
    /\ ended' = ended \cup (ConnectionGrants(c) \X Runs)
    /\ lock' = [Free EXCEPT !.op = "disconnect", !.at = "mark", !.connection = c]
    /\ UNCHANGED <<now, tasks, stored, dropped, issued>>

-----------------------------------------------------------------------------
(* The steps under the lock                                                *)

At(step) == lock.at = step
GoesTo(step) == lock' = [lock EXCEPT !.at = step]

\* Variant: the credential is written before any row.
StageLater == At("stage") /\ GoesTo("write") /\ UNCHANGED <<now, life, tasks, stored, history>>
Stage ==
    /\ At("stage") /\ GoesTo("write")
    /\ row' = [row EXCEPT ![lock.connection] = [state |-> "staged", scopes |-> lock.scopes]]
    /\ UNCHANGED <<now, life, tasks, secret, history>>

WriteSecret ==
    /\ At("write") /\ GoesTo("publish")
    /\ secret' = [secret EXCEPT ![lock.connection] = lock.task]
    /\ UNCHANGED <<now, life, tasks, row, history>>

\* A sign-in is checked once more; its deadline may have passed meanwhile.
Confirmed == lock.op = "signin" => Current(Expire(life), lock.connection)

Publish ==
    /\ At("publish") /\ Confirmed /\ GoesTo("commit")
    /\ row' = [row EXCEPT ![lock.connection].state = "live"]
    /\ UNCHANGED <<now, life, tasks, secret, history>>

\* A failed write or publication: roll back, without the account's grants.
RollsBack ==
    /\ At("write") \/ At("publish")
    /\ GoesTo("remove")
    /\ LET c == lock.connection
           lost == IF lock.op = "refresh" THEN ConnectionGrants(c) ELSE {}
       IN  /\ life' = IF lock.op = "refresh" THEN WithoutGrants(life, c)
                      ELSE IF At("publish") THEN Expire(life) ELSE life
           /\ ended' = ended \cup (lost \X Runs)
    /\ UNCHANGED <<now, tasks, stored, dropped, issued>>

CommittedSignIn ==
    /\ At("commit") /\ lock.op = "signin" /\ lock' = Free
    /\ life' = IF Current(life, lock.connection) THEN Terminal(life, "connected") ELSE life
    /\ flow' = [flow EXCEPT ![lock.connection] = "done"]
    /\ UNCHANGED <<now, refresh, read, stored, history>>

\* A read goes on with the new credential, if its grant survived.
CommittedRefresh ==
    LET n == lock.task
        d == refresh[n].read
        l == WithGrantsExpired(Released(life, n))
        goesOn == d # Nil /\ AllowsRead(l.grants, d, read[d].context, now)
                    /\ read[d].context.operation \in row[lock.connection].scopes
    IN  /\ At("commit") /\ lock.op = "refresh" /\ lock' = Free
        /\ refresh' = [refresh EXCEPT ![n].pc = "done"]
        /\ \/ goesOn /\ life' = l /\ ReadEnds(d, "ready")
           \/ life' = RefreshEnds(life, n) /\ ReadEnds(d, "failed")
        /\ UNCHANGED <<now, flow, stored, history>>

Mark ==
    /\ At("mark") /\ GoesTo("remove")
    /\ LET c == lock.connection
       IN  /\ row' = IF row[c] = NoRow THEN row ELSE [row EXCEPT ![c].state = "staged"]
           /\ dropped' = IF lock.op = "disconnect" THEN dropped \cup {c} ELSE dropped
    /\ UNCHANGED <<now, life, tasks, secret, issued, ended>>

RemoveSecret ==
    /\ At("remove") /\ GoesTo("delete")
    /\ secret' = [secret EXCEPT ![lock.connection] = Nil]
    /\ UNCHANGED <<now, life, tasks, row, history>>

\* The operation ends; after its last step, or because one failed.
LeavesLock ==
    /\ lock' = Free
    /\ CASE lock.op = "signin" ->
              /\ flow' = [flow EXCEPT ![lock.connection] = "failing"]
              /\ UNCHANGED <<life, refresh, read>>
         [] lock.op = "refresh" ->
              /\ life' = RefreshEnds(life, lock.task)
              /\ refresh' = [refresh EXCEPT ![lock.task].pc = "done"]
              /\ ReadEnds(refresh[lock.task].read, "failed")
              /\ UNCHANGED flow
         [] OTHER -> UNCHANGED <<life, tasks>>

DeleteRow ==
    /\ At("delete") /\ LeavesLock
    /\ row' = [row EXCEPT ![lock.connection] = NoRow]
    /\ UNCHANGED <<now, secret, history>>

StepFails ==
    /\ lock.at \in {"stage", "mark", "remove", "delete"} /\ LeavesLock
    /\ UNCHANGED <<now, stored, history>>

LockStep ==
    \/ Stage \/ WriteSecret \/ Publish \/ RollsBack
    \/ CommittedSignIn \/ CommittedRefresh
    \/ Mark \/ RemoveSecret \/ DeleteRow \/ StepFails

-----------------------------------------------------------------------------
(* Grants                                                                  *)

RegisterGrant(g, grant) ==
    LET s == Expired(life.grants, now)
    IN  /\ Available /\ Live(grant.connection)
        /\ g \notin issued /\ issued' = issued \cup {g}
        /\ Registrable(s, g, grant, row[grant.connection].scopes, now)
        /\ life' = [life EXCEPT !.grants = [s EXCEPT !.items[g] = grant]]
        /\ UNCHANGED <<now, lock, tasks, stored, dropped, ended>>

RevokeGrant(g) ==
    /\ Available /\ g \in Registered(life.grants)
    /\ life' = [life EXCEPT !.grants = Revoked(@, {g})]
    /\ ended' = ended \cup ({g} \X Runs)
    /\ UNCHANGED <<now, lock, tasks, stored, dropped, issued>>

CancelRun(r) ==
    LET s == Expired(life.grants, now)
    IN  /\ Available
        /\ life' = [life EXCEPT !.grants = RunCancelled(s, r, now)]
        /\ ended' = ended \cup (Registered(s) \X {r})
        /\ UNCHANGED <<now, lock, tasks, stored, dropped, issued>>

-----------------------------------------------------------------------------
(* Reads                                                                   *)

\* What every check of a read tests, before and after each await.
Scoped(context) ==
    /\ Live(context.connection)
    /\ context.operation \in row[context.connection].scopes
Checked(d) ==
    /\ Available /\ Scoped(read[d].context)
    /\ AllowsRead(Expired(life.grants, now), d, read[d].context, now)
ReadStep(d, from, to) ==
    /\ read[d].pc = from /\ Checked(d)
    /\ read' = [read EXCEPT ![d].pc = to]
    /\ life' = WithGrantsExpired(life)
    /\ UNCHANGED <<now, lock, flow, refresh, stored, history>>

BeginRead(d, context) ==
    LET s == Expired(life.grants, now)
    IN  /\ Available /\ read[d] = NoRead
        /\ Allows(s, context, now) /\ Scoped(context) /\ s.active[context.connection] = Nil
        /\ read' = [read EXCEPT ![d] = [pc |-> "begun", context |-> context]]
        /\ life' = [life EXCEPT !.grants = Begun(s, d, context)]
        /\ UNCHANGED <<now, lock, flow, refresh, stored, history>>

UsesCredential(d) ==
    ReadStep(d, "begun", "ready") /\ secret[read[d].context.connection] # Nil

RefreshByRead(n, d) ==
    LET c == read[d].context.connection
    IN  /\ read[d].pc = "begun" /\ Checked(d) /\ BeginRefresh(n, c, d)
        /\ read' = [read EXCEPT ![d].pc = "refreshing"]
        /\ life' = [WithGrantsExpired(life) EXCEPT !.refreshes[c] = n]
        /\ UNCHANGED <<now, lock, flow, stored, history>>

Request(d) == ReadStep(d, "ready", "requested")
Response(d) == ReadStep(d, "requested", "ready") \/ ReadStep(d, "requested", "projected")

\* The last check, then the lease is dropped.
Returns(d) ==
    /\ read[d].pc = "projected" /\ Checked(d)
    /\ read' = [read EXCEPT ![d].pc = "returned"]
    /\ life' = ReadReleased(WithGrantsExpired(life), d)
    /\ UNCHANGED <<now, lock, flow, refresh, stored, history>>

\* The run's dispatcher asks once more before it sends the result.
Deliver(d) ==
    LET s == Expired(life.grants, now)
    IN  /\ Available /\ read[d].pc = "returned"
        /\ Allows(s, read[d].context, now) /\ Scoped(read[d].context)
        /\ read' = [read EXCEPT ![d].pc = "delivered"]
        /\ life' = [life EXCEPT !.grants = s]
        /\ UNCHANGED <<now, lock, flow, refresh, stored, history>>

Reading == {"begun", "ready", "requested", "projected", "returned"}
ReadFails(d) ==
    /\ Available /\ read[d].pc \in Reading
    /\ read' = [read EXCEPT ![d].pc = "failed"]
    /\ life' = ReadReleased(life, d)
    /\ UNCHANGED <<now, lock, flow, refresh, stored, history>>

-----------------------------------------------------------------------------
Tick ==
    /\ now < Horizon /\ now' = now + 1
    /\ UNCHANGED <<life, lock, tasks, stored, history>>

\* The process ends and starts again: only the tables and the secrets remain.
Restart ==
    /\ life' = [NoLife EXCEPT !.phase = [c \in Connections |->
                   IF Current(life, c) THEN "lost" ELSE life.phase[c]]]
    /\ lock' = Free
    /\ flow' = [c \in Connections |-> IF flow[c] = "none" THEN "none" ELSE "done"]
    /\ refresh' = [n \in Turns |->
           IF refresh[n].pc = "sent" THEN [refresh[n] EXCEPT !.pc = "done"] ELSE refresh[n]]
    /\ read' = [d \in Reads |->
           IF read[d].pc \in {"none", "delivered"} THEN read[d] ELSE [read[d] EXCEPT !.pc = "failed"]]
    /\ ended' = ended \cup (Registered(life.grants) \X Runs)
    /\ UNCHANGED <<now, stored, dropped, issued>>

Init ==
    /\ now = 0 /\ life = NoLife /\ lock = Free
    /\ flow = [c \in Connections |-> "none"]
    /\ refresh = [n \in Turns |-> NoRefresh]
    /\ read = [d \in Reads |-> NoRead]
    /\ row = [c \in Connections |-> NoRow]
    /\ secret = [c \in Connections |-> Nil]
    /\ dropped = {} /\ issued = {} /\ ended = {}

\* What is granted or read expires within the modelled time.
GrantRecords ==
    [workspace : {WorkspaceOf[r] : r \in Runs}, connection : Connections,
     operations : SUBSET Operations \ {{}}, expires : 1..Horizon]
Contexts ==
    [run : Runs, grant : Grants, connection : Connections, operation : Operations,
     expires : 1..Horizon]

FlowStep(c) ==
    \/ OpensBrowser(c) \/ Launched(c) \/ CallsBack(c) \/ FlowFails(c)
    \/ \E scopes \in SUBSET Operations : CommitNew(c, scopes)
RefreshStep(n) ==
    \/ RefreshFails(n) \/ RefusesScopes(n)
    \/ \E scopes \in SUBSET Operations : CommitRefresh(n, scopes)
ReadProgress(d) ==
    \/ UsesCredential(d) \/ \E n \in Turns : RefreshByRead(n, d)
    \/ Request(d) \/ Response(d) \/ Returns(d) \/ Deliver(d) \/ ReadFails(d)

Next ==
    \/ Tick \/ Restart \/ Snapshot \/ LockStep
    \/ \E c \in Connections :
          \/ StartGoogle(c) \/ Cancel(c) \/ FlowStep(c) \/ Disconnect(c)
          \/ \E n \in Turns : RefreshByOperator(n, c)
    \/ \E n \in Turns : RefreshStep(n)
    \/ \E g \in Grants : RevokeGrant(g) \/ \E grant \in GrantRecords : RegisterGrant(g, grant)
    \/ \E r \in Runs : CancelRun(r)
    \/ \E d \in Reads : ReadProgress(d) \/ \E context \in Contexts : BeginRead(d, context)

Spec == Init /\ [][Next]_vars
=============================================================================
