---------------------------- MODULE ProcessOwner ----------------------------
(***************************************************************************)
(* The controller process of the runtime as the host owns it: launched by  *)
(* starts that take turns (managed.rs), served by a loop of its own        *)
(* (transport.rs dispatch) and ended by a later start or by Quit (lib.rs), *)
(* which never waits for a start under way.  A controller has the name of  *)
(* the start that launched it.                                             *)
(***************************************************************************)
EXTENDS Sequences, Absent

CONSTANTS Starts, Clients

VARIABLES quit,     \* runtime_stopping, where a shutdown is and what it awaits
          slot,     \* the controller of ProcessOwner, and of Core
          start,    \* each start, and the controller whose end it awaits
          child,    \* each controller: its process and its loop
          mail      \* the call of each caller

ownerVars == <<quit, slot, start, child, mail>>

ASSUME OwnerAssumption == Nil \notin Starts

Callers == Starts \cup Clients

-----------------------------------------------------------------------------
(* A controller *)

Alive(c) == child[c].at \in {"serving", "exchanging"} /\ ~child[c].cancelled
Reaped(c) == IF c = Nil THEN TRUE ELSE child[c].at = "reaped"
Cancelled(c) == IF c = Nil THEN child ELSE [child EXCEPT ![c].cancelled = TRUE]
Waits(who) == mail[who] = "waiting"
Queued(c) == {who \in Callers : \E i \in DOMAIN child[c].queue : child[c].queue[i] = who}
Lost(C) == [who \in Callers |-> IF who \in C THEN "lost" ELSE mail[who]]

\* control: a controller that ends refuses, or loses, what it is sent.
Ask(who, c) ==
    IF Alive(c)
    THEN /\ mail' = [mail EXCEPT ![who] = "waiting"]
         /\ child' = [child EXCEPT ![c].queue = Append(@, who)]
    ELSE mail' = [mail EXCEPT ![who] = "lost"] /\ UNCHANGED child

Loop(c) == UNCHANGED <<quit, slot, start>>

\* The loop looks for the cancellation first.
TakeCall(c) ==
    /\ child[c].at = "serving" /\ ~child[c].cancelled /\ child[c].queue # <<>>
    /\ child' = [child EXCEPT ![c].at = "exchanging"] /\ UNCHANGED mail /\ Loop(c)

Answer(c) ==
    /\ child[c].at = "exchanging" /\ ~child[c].cancelled /\ child[c].up
    /\ mail' = [mail EXCEPT ![Head(child[c].queue)] = "ok"]
    /\ child' = [child EXCEPT ![c].at = "serving", ![c].queue = Tail(@)] /\ Loop(c)

\* A cancellation, the end of the process, a timeout or a reply that is not its
\* protocol's breaks the exchange, and with it the loop.
Break(c) ==
    /\ child[c].at = "exchanging"
    /\ mail' = [mail EXCEPT ![Head(child[c].queue)] = "lost"]
    /\ child' = [child EXCEPT ![c].at = "ending", ![c].queue = Tail(@)] /\ Loop(c)

StopServing(c) ==
    /\ child[c].at = "serving" /\ (child[c].cancelled \/ ~child[c].up)
    /\ child' = [child EXCEPT ![c].at = "ending"] /\ UNCHANGED mail /\ Loop(c)

\* By itself, by the end of its input or by a kill
ChildExits(c) ==
    /\ child[c].up /\ child' = [child EXCEPT ![c].up = FALSE] /\ UNCHANGED mail /\ Loop(c)

\* Variant: the calls that were not taken are forgotten.
ReapOnly(c) ==
    /\ child[c].at = "ending" /\ ~child[c].up
    /\ child' = [child EXCEPT ![c].at = "reaped", ![c].queue = <<>>]
    /\ UNCHANGED mail /\ Loop(c)

Reap(c) ==
    /\ child[c].at = "ending" /\ ~child[c].up
    /\ mail' = Lost(Queued(c))
    /\ child' = [child EXCEPT ![c].at = "reaped", ![c].queue = <<>>] /\ Loop(c)

LoopSteps(c) == TakeCall(c) \/ Answer(c) \/ Break(c) \/ StopServing(c) \/ Reap(c)
Exits(c) == child[c].at = "ending" /\ ChildExits(c)

-----------------------------------------------------------------------------
(* A start.  The gate is held from its entry to its end. *)

IsAt(s, at) == start[s].at = at
Moves(s, at) == start' = [start EXCEPT ![s].at = at]
MovesAwaiting(s, at, c) == start' = [start EXCEPT ![s] = [at |-> at, awaits |-> c]]
GateFree == \A s \in Starts : start[s].at \in {"none", "waiting", "done"}

\* At the launch of the app, and when the operator retries
BeginStart(s) == IsAt(s, "none") /\ Moves(s, "waiting") /\ UNCHANGED <<quit, slot, child, mail>>

\* Variant: the old controller is left to end in its own time.
EnterAtOnce(s) ==
    /\ IsAt(s, "waiting") /\ GateFree
    /\ \/ Moves(s, "done") /\ UNCHANGED <<slot, child>>
       \/ /\ ~quit.flag /\ slot' = [slot EXCEPT !.used = Nil] /\ child' = Cancelled(slot.used)
          /\ MovesAwaiting(s, "replacing", Nil)
    /\ UNCHANGED <<quit, mail>>

\* The start's state may not be stored, and nothing is changed then.
Enter(s) ==
    /\ IsAt(s, "waiting") /\ GateFree
    /\ \/ Moves(s, "done") /\ UNCHANGED <<slot, child>>
       \/ /\ ~quit.flag /\ slot' = [slot EXCEPT !.used = Nil] /\ child' = Cancelled(slot.used)
          /\ MovesAwaiting(s, "replacing", slot.used)
    /\ UNCHANGED <<quit, mail>>

Replaced(s) ==
    /\ IsAt(s, "replacing") /\ Reaped(start[s].awaits) /\ Moves(s, "preparing")
    /\ UNCHANGED <<quit, slot, child, mail>>

\* The bundled runtime is verified on another thread.
Prepared(s) ==
    /\ IsAt(s, "preparing")
    /\ Moves(s, "failing") \/ (~quit.flag /\ Moves(s, "launching"))
    /\ UNCHANGED <<quit, slot, child, mail>>

Spawn(s) ==
    /\ Moves(s, "calling") /\ slot' = [slot EXCEPT !.current = s]
    /\ child' = [child EXCEPT ![s] = [@ EXCEPT !.at = "serving", !.up = TRUE]]

\* Variant: only the flag that was read before is relied on.
LaunchAnyhow(s) ==
    /\ IsAt(s, "launching")
    /\ Spawn(s) \/ (Moves(s, "failing") /\ UNCHANGED <<slot, child>>)
    /\ UNCHANGED <<quit, mail>>

\* What a stop has fenced is looked at under the lock that the stop takes.
Launch(s) ==
    /\ IsAt(s, "launching")
    /\ (~slot.stopping /\ Spawn(s)) \/ (Moves(s, "failing") /\ UNCHANGED <<slot, child>>)
    /\ UNCHANGED <<quit, mail>>

CallBootstrap(s) == IsAt(s, "calling") /\ Moves(s, "booting") /\ Ask(s, s) /\ UNCHANGED <<quit, slot>>

Booted(s) ==
    /\ IsAt(s, "booting") /\ ~Waits(s)
    /\ IF mail[s] = "ok" /\ ~quit.flag THEN Moves(s, "booted") /\ UNCHANGED child
       ELSE MovesAwaiting(s, "dropping", s) /\ child' = Cancelled(s)
    /\ UNCHANGED <<quit, slot, mail>>

Dropped(s) ==
    /\ IsAt(s, "dropping") /\ Reaped(start[s].awaits) /\ Moves(s, "failing")
    /\ UNCHANGED <<quit, slot, child, mail>>

\* The controller is the one commands use before its first snapshot is accepted.
Publish(s) ==
    /\ IsAt(s, "booted") /\ slot' = [slot EXCEPT !.used = s] /\ Moves(s, "accepting")
    /\ Ask(s, s) /\ UNCHANGED quit

\* The snapshot, the count of the schedules and the model's configuration
Accepted(s) ==
    /\ IsAt(s, "accepting") /\ ~Waits(s)
    /\ (mail[s] = "ok" /\ Moves(s, "done")) \/ Moves(s, "failing")
    /\ UNCHANGED <<quit, slot, child, mail>>

FailStart(s) ==
    /\ IsAt(s, "failing") /\ MovesAwaiting(s, "closing", slot.used)
    /\ slot' = [slot EXCEPT !.used = Nil] /\ child' = Cancelled(slot.used)
    /\ UNCHANGED <<quit, mail>>

FailedStart(s) ==
    /\ IsAt(s, "closing") /\ Reaped(start[s].awaits) /\ Moves(s, "done")
    /\ UNCHANGED <<quit, slot, child, mail>>

StartSteps(s) ==
    \/ Enter(s) \/ Replaced(s) \/ Prepared(s) \/ Launch(s) \/ CallBootstrap(s) \/ Booted(s)
    \/ Dropped(s) \/ Publish(s) \/ Accepted(s) \/ FailStart(s) \/ FailedStart(s)

-----------------------------------------------------------------------------
(* Commands and the end of the app *)

ClientCalls(who) ==
    /\ ~Waits(who) /\ slot.used # Nil /\ Ask(who, slot.used) /\ UNCHANGED <<quit, slot, start>>

Quitting(at) == quit.at = at
Quits(at) == quit' = [quit EXCEPT !.at = at]

\* request_quit, from the menu, the tray or the system: the flag, then the lock
RequestQuit ==
    /\ Quitting("open") /\ quit' = [quit EXCEPT !.at = "asked", !.flag = TRUE]
    /\ UNCHANGED <<slot, start, child, mail>>
RequestStop ==
    /\ Quitting("asked") /\ (Quits("closing") \/ Quits("stopping"))
    /\ slot' = [slot EXCEPT !.stopping = TRUE] /\ child' = Cancelled(slot.current)
    /\ UNCHANGED <<start, mail>>

\* The main window closes, or stays: its drafts may not be saved, or schedules
\* may be enabled.  It stays over a runtime that a Quit has stopped.
CloseMain == Quitting("open") /\ Quits("closing") /\ UNCHANGED <<slot, start, child, mail>>
MainCloses ==
    /\ Quitting("closing") /\ (Quits("open") \/ Quits("stopping"))
    /\ UNCHANGED <<slot, start, child, mail>>

ShutdownFlags ==
    /\ Quitting("stopping") /\ quit' = [quit EXCEPT !.at = "flagged", !.flag = TRUE]
    /\ UNCHANGED <<slot, start, child, mail>>
ShutdownStops ==
    /\ Quitting("flagged")
    /\ quit' = [quit EXCEPT !.at = "awaiting", !.awaits = slot.current]
    /\ slot' = [slot EXCEPT !.stopping = TRUE] /\ child' = Cancelled(slot.current)
    /\ UNCHANGED <<start, mail>>
Exit ==
    /\ Quitting("awaiting") /\ Reaped(quit.awaits) /\ Quits("exited")
    /\ UNCHANGED <<slot, start, child, mail>>

QuitSteps == RequestStop \/ MainCloses \/ ShutdownFlags \/ ShutdownStops \/ Exit

-----------------------------------------------------------------------------

OwnerInit ==
    /\ quit = [flag |-> FALSE, at |-> "open", awaits |-> Nil]
    /\ slot = [stopping |-> FALSE, current |-> Nil, used |-> Nil]
    /\ start = [s \in Starts |-> [at |-> "none", awaits |-> Nil]]
    /\ child = [c \in Starts |-> [at |-> "unborn", up |-> FALSE, cancelled |-> FALSE,
                                  queue |-> <<>>]]
    /\ mail = [who \in Callers |-> "none"]

OwnerNext ==
    /\ ~Quitting("exited")
    /\ \/ \E s \in Starts : BeginStart(s) \/ StartSteps(s) \/ LoopSteps(s) \/ ChildExits(s)
       \/ \E who \in Clients : ClientCalls(who)
       \/ RequestQuit \/ CloseMain \/ QuitSteps

OwnerSpec == OwnerInit /\ [][OwnerNext]_ownerVars

\* Tasks run; a process that is to end is killed after ten seconds; an exchange
\* has a deadline; the window closes or stays.
OwnerFairness ==
    /\ WF_ownerVars(QuitSteps)
    /\ WF_ownerVars(~Quitting("exited") /\ \E s \in Starts : StartSteps(s))
    /\ WF_ownerVars(~Quitting("exited") /\ \E c \in Starts : LoopSteps(c) \/ Exits(c))

-----------------------------------------------------------------------------

\* However starts, failures and ends of the process overlap, there are never two
\* controllers over the runtime's files (managed.rs:155).
OneController == \A c, d \in Starts : child[c].up /\ child[d].up => c = d

\* No controller outlives the app, although a Quit does not wait for the start
\* that is under way (transport.rs:77, lib.rs:233).
NoneOutlivesQuit == Quitting("exited") => \A c \in Starts : ~child[c].up

\* Whoever called a controller is answered or told that it ended
\* (transport.rs:229); a start ends, and so does what was to end the app, unless
\* the window stays.
CallsAnswered == \A who \in Clients : Waits(who) ~> (~Waits(who) \/ Quitting("exited"))
StartsEnd == \A s \in Starts : ~IsAt(s, "none") ~> (IsAt(s, "done") \/ Quitting("exited"))
QuitEnds == ~Quitting("open") ~> (Quitting("open") \/ Quitting("exited"))
OwnerProgress == CallsAnswered /\ StartsEnd /\ QuitEnds
=============================================================================
