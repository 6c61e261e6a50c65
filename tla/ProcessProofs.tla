--------------------------- MODULE ProcessProofs ---------------------------
(***************************************************************************)
(* The processes, for every instance.                                      *)
(*                                                                         *)
(* The host's part (ProcessOwner): one controller at a time, and none      *)
(* after the app.  Whatever lives is the controller that was launched      *)
(* last, and whoever holds the gate knows it.                              *)
(*                                                                         *)
(* The runtime's part (ManagedRuntime): what leaves is authorized, a       *)
(* replacement is quiet, and the threads implement the run lifecycle.      *)
(* Each place of a thread says what the others may be doing; with that,    *)
(* what was admitted is of the scope that is authorized and what works is  *)
(* of the configuration that is installed, at every place.                 *)
(***************************************************************************)
EXTENDS MCManagedRuntime, TLAPS

Names == Starts \cup {Nil}
StartStates == {"none", "waiting", "replacing", "preparing", "launching", "calling", "booting",
                "booted", "dropping", "accepting", "failing", "closing", "done"}
LoopStates == {"unborn", "serving", "exchanging", "ending", "reaped"}
QuitStates == {"open", "asked", "closing", "stopping", "flagged", "awaiting", "exited"}

QuitRecords == [flag : BOOLEAN, at : QuitStates, awaits : Names]
Slots == [stopping : BOOLEAN, current : Names, used : Names]
StartRecords == [at : StartStates, awaits : Names]
ChildRecords == [at : LoopStates, up : BOOLEAN, cancelled : BOOLEAN, queue : Seq(Callers)]

OwnerTypeOK ==
    /\ quit \in QuitRecords /\ slot \in Slots
    /\ start \in [Starts -> StartRecords] /\ child \in [Starts -> ChildRecords]
    /\ \A c \in Starts : child[c].at = "exchanging" => child[c].queue # <<>>

\* A controller whose process may live
Lives(c) == child[c].at \in {"serving", "exchanging", "ending"}
Living(c) == c \in Starts /\ Lives(c)
UpLives == \A c \in Starts : child[c].up => Lives(c)

Holds(s) == start[s].at \notin {"none", "waiting", "done"}
OneHolder == \A s, t \in Starts : Holds(s) /\ Holds(t) => s = t

\* What may live where the start s is
Expected(s, c) ==
    CASE start[s].at \in {"replacing", "closing"} -> c = start[s].awaits
      [] start[s].at \in {"preparing", "launching"} -> FALSE
      [] start[s].at \in {"calling", "booting", "booted", "accepting"} -> c = s
      [] start[s].at = "dropping" -> c = s /\ start[s].awaits = s
      [] start[s].at = "failing" -> c = slot.used
      [] OTHER -> TRUE

LastLaunched == \A c \in Starts : Lives(c) => c = slot.current
KnownToGate ==
    /\ GateFree => \A c \in Starts : Lives(c) => c = slot.used
    /\ \A s, c \in Starts : Lives(c) => Expected(s, c)
    /\ \A s \in Starts : start[s].at = "accepting" => slot.used = s

QuitFenced ==
    /\ quit.at \in {"awaiting", "exited"} => slot.stopping
    /\ quit.at = "awaiting" => \A c \in Starts : Lives(c) => c = quit.awaits
    /\ quit.at = "exited" => \A c \in Starts : ~Lives(c)

OwnerInvariant == OwnerTypeOK /\ UpLives /\ OneHolder /\ LastLaunched /\ KnownToGate /\ QuitFenced

LEMMA OwnerSuffices == OwnerInvariant => OneController /\ NoneOutlivesQuit
BY DEF OwnerInvariant, UpLives, LastLaunched, QuitFenced, OneController, NoneOutlivesQuit, Quitting

LEMMA OwnerStarts == OwnerInit => OwnerInvariant
<1> SUFFICES ASSUME OwnerInit PROVE OwnerInvariant
    OBVIOUS
<1>1. <<>> \in Seq(Callers)
    OBVIOUS
<1>2. OwnerTypeOK
    BY <1>1 DEF OwnerInit, OwnerTypeOK, QuitRecords, Slots, StartRecords, ChildRecords, Names,
       QuitStates, StartStates, LoopStates
<1>3. \A c \in Starts : ~Lives(c) /\ ~child[c].up /\ start[c].at = "none"
    BY DEF OwnerInit, Lives
<1> QED
    BY <1>2, <1>3 DEF OwnerInit, OwnerInvariant, UpLives, OneHolder, Holds, LastLaunched,
       KnownToGate, QuitFenced

-----------------------------------------------------------------------------
(* Steps after which nothing lives that did not live before *)

NoBirth == /\ OwnerTypeOK' /\ UpLives'
           /\ \A c \in Starts : Lives(c)' => Lives(c)

\* The loops and the calls
LEMMA LoopKeeps ==
    ASSUME OwnerInvariant, NoBirth, UNCHANGED <<quit, slot, start>>
    PROVE  OwnerInvariant'
BY DEF OwnerInvariant, NoBirth, OneHolder, Holds, LastLaunched, KnownToGate, Expected, GateFree,
   QuitFenced

LEMMA CancelledAlike ==
    ASSUME OwnerInvariant, NEW c \in Names, child' = Cancelled(c)
    PROVE  /\ child' \in [Starts -> ChildRecords]
           /\ \A d \in Starts : /\ child'[d].at = child[d].at /\ child'[d].up = child[d].up
                                /\ child'[d].queue = child[d].queue
BY DEF Cancelled, OwnerInvariant, OwnerTypeOK, ChildRecords, Names

LEMMA AskedAlike ==
    ASSUME OwnerInvariant, NEW who \in Callers, NEW c \in Starts, Ask(who, c)
    PROVE  /\ child' \in [Starts -> ChildRecords]
           /\ \A d \in Starts : /\ child'[d].at = child[d].at /\ child'[d].up = child[d].up
                                /\ child[d].queue # <<>> => child'[d].queue # <<>>
<1>1. CASE Alive(c)
    <2>1. child[c].queue \in Seq(Callers)
        BY DEF OwnerInvariant, OwnerTypeOK, ChildRecords
    <2>2. /\ Append(child[c].queue, who) \in Seq(Callers)
          /\ Append(child[c].queue, who) # <<>>
        BY <2>1
    <2>3. child' = [child EXCEPT ![c].queue = Append(child[c].queue, who)]
        BY <1>1 DEF Ask
    <2> QED
        BY <2>2, <2>3 DEF OwnerInvariant, OwnerTypeOK, ChildRecords
<1>2. CASE ~Alive(c)
    BY <1>2 DEF Ask, OwnerInvariant, OwnerTypeOK
<1> QED
    BY <1>1, <1>2

\* The controllers are alike but for what is cancelled and what waits.
Alike == /\ child' \in [Starts -> ChildRecords]
         /\ \A d \in Starts : /\ child'[d].at = child[d].at /\ child'[d].up = child[d].up
                              /\ child[d].queue # <<>> => child'[d].queue # <<>>

LEMMA LoopStepsKeep ==
    ASSUME OwnerInvariant, NEW c \in Starts, LoopSteps(c) \/ ChildExits(c)
    PROVE  OwnerInvariant'
<1>1. child \in [Starts -> ChildRecords] /\ child[c].queue \in Seq(Callers)
    BY DEF OwnerInvariant, OwnerTypeOK, ChildRecords
<1>2. UNCHANGED <<quit, slot, start>>
    BY DEF LoopSteps, TakeCall, Answer, Break, StopServing, Reap, ChildExits, Loop
<1>3. child[c].at = "exchanging" => Tail(child[c].queue) \in Seq(Callers)
    BY <1>1 DEF OwnerInvariant, OwnerTypeOK
<1>4. PICK at \in LoopStates, up \in BOOLEAN, queue \in Seq(Callers) :
        /\ child' = [child EXCEPT ![c] = [child[c] EXCEPT !.at = at, !.up = up, !.queue = queue]]
        /\ at \in {"serving", "exchanging", "ending"} => Lives(c)
        /\ at = "exchanging" => queue # <<>>
        /\ up => at \in {"serving", "exchanging", "ending"}
    <2>1. CASE TakeCall(c) \/ StopServing(c)
        <3>1. PICK at \in {"exchanging", "ending"} :
                  child' = [child EXCEPT ![c].at = at] /\ (at = "exchanging" => child[c].queue # <<>>)
            BY <2>1 DEF TakeCall, StopServing
        <3>2. Lives(c) /\ child[c].up \in BOOLEAN
            BY <1>1, <2>1 DEF TakeCall, StopServing, Lives, ChildRecords
        <3>3. child' = [child EXCEPT ![c] = [child[c] EXCEPT !.at = at, !.up = child[c].up,
                                                             !.queue = child[c].queue]]
            BY <1>1, <3>1 DEF ChildRecords
        <3> QED
            BY <1>1, <3>1, <3>2, <3>3 DEF LoopStates
    <2>2. CASE Answer(c) \/ Break(c)
        <3>1. PICK at \in {"serving", "ending"} :
                  child' = [child EXCEPT ![c].at = at, ![c].queue = Tail(child[c].queue)]
            BY <1>1, <2>2 DEF Answer, Break, ChildRecords
        <3>2. /\ Lives(c) /\ child[c].up \in BOOLEAN /\ Tail(child[c].queue) \in Seq(Callers)
            BY <1>1, <1>3, <2>2 DEF Answer, Break, Lives, ChildRecords
        <3>3. child' = [child EXCEPT ![c] = [child[c] EXCEPT !.at = at, !.up = child[c].up,
                                                             !.queue = Tail(child[c].queue)]]
            BY <1>1, <3>1 DEF ChildRecords
        <3> QED
            BY <3>2, <3>3 DEF LoopStates
    <2>3. CASE Reap(c)
        <3>1. child' = [child EXCEPT ![c] = [child[c] EXCEPT !.at = "reaped", !.up = FALSE,
                                                             !.queue = <<>>]]
            BY <1>1, <2>3 DEF Reap, ChildRecords
        <3>2. <<>> \in Seq(Callers)
            OBVIOUS
        <3> QED
            BY <3>1, <3>2 DEF LoopStates
    <2>4. CASE ChildExits(c)
        <3>1. child' = [child EXCEPT ![c] = [child[c] EXCEPT !.at = child[c].at, !.up = FALSE,
                                                             !.queue = child[c].queue]]
            BY <1>1, <2>4 DEF ChildExits, ChildRecords
        <3>2. /\ child[c].at \in LoopStates
              /\ child[c].at \in {"serving", "exchanging", "ending"} => Lives(c)
              /\ child[c].at = "exchanging" => child[c].queue # <<>>
            BY <1>1 DEF ChildRecords, Lives, OwnerInvariant, OwnerTypeOK
        <3> QED
            BY <1>1, <3>1, <3>2
    <2> QED
        BY <2>1, <2>2, <2>3, <2>4 DEF LoopSteps
<1> DEFINE new == [child[c] EXCEPT !.at = at, !.up = up, !.queue = queue]
<1>5. new \in ChildRecords /\ new.at = at /\ new.up = up /\ new.queue = queue
    BY <1>1 DEF ChildRecords
<1>6. child' = [child EXCEPT ![c] = new]
    BY <1>4
<1> HIDE DEF new
<1>7. child' \in [Starts -> ChildRecords] /\ child'[c] = new
      /\ \A d \in Starts \ {c} : child'[d] = child[d]
    BY <1>1, <1>5, <1>6
<1>8. NoBirth
    BY <1>2, <1>4, <1>5, <1>7 DEF NoBirth, Lives, OwnerInvariant, OwnerTypeOK, UpLives
<1> QED
    BY <1>2, <1>8, LoopKeeps

LEMMA ClientCallsKeep ==
    ASSUME OwnerInvariant, NEW who \in Clients, ClientCalls(who)
    PROVE  OwnerInvariant'
<1>1. slot.used \in Starts /\ who \in Callers /\ Ask(who, slot.used)
    BY DEF ClientCalls, Callers, OwnerInvariant, OwnerTypeOK, Slots, Names
<1>2. NoBirth /\ UNCHANGED <<quit, slot, start>>
    BY <1>1, AskedAlike DEF ClientCalls, NoBirth, Lives, UpLives, OwnerInvariant, OwnerTypeOK
<1> QED
    BY <1>2, LoopKeeps

-----------------------------------------------------------------------------
(* The end of the app *)

LEMMA QuitKeeps ==
    ASSUME OwnerInvariant, RequestQuit \/ CloseMain \/ QuitSteps
    PROVE  OwnerInvariant'
<1>1. /\ quit \in QuitRecords /\ slot \in Slots /\ quit.at # "exited"
      /\ start \in [Starts -> StartRecords] /\ child \in [Starts -> ChildRecords]
    BY DEF OwnerInvariant, OwnerTypeOK, RequestQuit, CloseMain, QuitSteps, RequestStop, MainCloses,
       ShutdownFlags, ShutdownStops, Exit, Quitting
<1>2. quit' \in QuitRecords /\ slot' \in Slots /\ slot'.current = slot.current
      /\ slot'.used = slot.used /\ UNCHANGED start
    <2>1. CASE RequestQuit \/ CloseMain \/ MainCloses \/ ShutdownFlags \/ Exit
        BY <1>1, <2>1 DEF RequestQuit, CloseMain, MainCloses, ShutdownFlags, Exit, Quits,
           QuitRecords, QuitStates
    <2>2. CASE RequestStop \/ ShutdownStops
        BY <1>1, <2>2 DEF RequestStop, ShutdownStops, Quits, QuitRecords, QuitStates, Slots
    <2> QED
        BY <2>1, <2>2 DEF QuitSteps
<1>3. /\ child' \in [Starts -> ChildRecords]
      /\ \A d \in Starts : /\ child'[d].at = child[d].at /\ child'[d].up = child[d].up
                           /\ child'[d].queue = child[d].queue
    <2>1. CASE child' = child
        BY <1>1, <2>1
    <2>2. CASE child' = Cancelled(slot.current)
        BY <1>1, <2>2, CancelledAlike DEF Slots
    <2> QED
        BY <2>1, <2>2 DEF RequestQuit, CloseMain, QuitSteps, RequestStop, MainCloses,
           ShutdownFlags, ShutdownStops, Exit
<1>4. OwnerTypeOK' /\ UpLives'
    BY <1>2, <1>3 DEF OwnerInvariant, OwnerTypeOK, UpLives, Lives
<1>5. OneHolder' /\ LastLaunched' /\ KnownToGate'
    BY <1>2, <1>3 DEF OwnerInvariant, OneHolder, Holds, LastLaunched, KnownToGate, Expected,
       GateFree, Lives
<1>6. QuitFenced'
    <2>1. CASE ShutdownStops
        <3>1. quit'.at = "awaiting" /\ quit'.awaits = slot.current /\ slot'.stopping
            BY <1>1, <2>1 DEF ShutdownStops, QuitRecords, Slots
        <3> QED
            BY <1>3, <3>1 DEF OwnerInvariant, LastLaunched, QuitFenced, Lives
    <2>2. CASE Exit
        <3>1. quit'.at = "exited" /\ slot' = slot /\ slot.stopping
            BY <1>1, <2>2 DEF Exit, Quits, Quitting, QuitRecords, OwnerInvariant, QuitFenced
        <3>2. \A c \in Starts : ~Lives(c)
            BY <2>2, OwnerAssumption DEF Exit, Quitting, Reaped, OwnerInvariant, QuitFenced, Lives
        <3> QED
            BY <1>3, <3>1, <3>2 DEF QuitFenced, Lives
    <2>3. CASE RequestQuit \/ CloseMain \/ RequestStop \/ MainCloses \/ ShutdownFlags
        BY <1>1, <2>3 DEF RequestQuit, CloseMain, RequestStop, MainCloses, ShutdownFlags, Quits,
           QuitRecords, QuitFenced
    <2> QED
        BY <2>1, <2>2, <2>3 DEF QuitSteps
<1> QED
    BY <1>4, <1>5, <1>6 DEF OwnerInvariant

-----------------------------------------------------------------------------
(* The starts *)

\* A step of a start that launches nothing: it holds the gate before, or enters it
\* when it is free, and what it then expects is what lives.
LEMMA StartKeeps ==
    ASSUME OwnerInvariant, NEW s \in Starts, Alike, UNCHANGED quit,
           slot' \in Slots, slot'.current = slot.current, slot'.stopping = slot.stopping,
           start' \in [Starts -> StartRecords],
           \A t \in Starts \ {s} : start'[t] = start[t],
           Holds(s)' => Holds(s) \/ GateFree,
           slot'.used # slot.used => Holds(s)',
           \A c \in Starts : Lives(c) => Expected(s, c)',
           Holds(s) /\ ~Holds(s)' => \A c \in Starts : Lives(c) => c = slot.used,
           start'[s].at = "accepting" => slot'.used = s
    PROVE  OwnerInvariant'
<1>1. \A d \in Starts : Lives(d)' <=> Lives(d)
    BY DEF Alike, Lives
<1>2. OwnerTypeOK' /\ UpLives'
    BY <1>1 DEF Alike, OwnerInvariant, OwnerTypeOK, UpLives
<1>3. \A t \in Starts \ {s} : Holds(s)' => ~Holds(t)
    BY DEF OwnerInvariant, OneHolder, GateFree, Holds
<1>4. OneHolder'
    BY <1>3 DEF OwnerInvariant, OneHolder, Holds
<1>5. LastLaunched' /\ QuitFenced'
    BY <1>1 DEF OwnerInvariant, LastLaunched, QuitFenced
<1>6. KnownToGate'
    <2>1. GateFree' => \A c \in Starts : Lives(c) => c = slot'.used
        <3> SUFFICES ASSUME GateFree' PROVE \A c \in Starts : Lives(c) => c = slot.used
            BY DEF GateFree, Holds
        <3>1. CASE Holds(s)
            BY <3>1 DEF GateFree, Holds
        <3>2. CASE ~Holds(s)
            BY <3>2 DEF GateFree, Holds, OwnerInvariant, KnownToGate
        <3> QED
            BY <3>1, <3>2
    <2>2. ASSUME NEW t \in Starts, NEW c \in Starts, Lives(c)
          PROVE  Expected(t, c)'
        <3>1. CASE t = s
            BY <2>2, <3>1
        <3>2. CASE t # s /\ Holds(t)
            <4>1. slot'.used = slot.used /\ start'[t] = start[t]
                BY <1>3, <3>2
            <4> QED
                BY <2>2, <4>1 DEF OwnerInvariant, KnownToGate, Expected
        <3>3. CASE t # s /\ ~Holds(t)
            <4>1. start'[t].at \in {"none", "waiting", "done"}
                BY <3>3 DEF Holds
            <4> QED
                BY <4>1 DEF Expected
        <3> QED
            BY <3>1, <3>2, <3>3
    <2>3. \A t \in Starts : start'[t].at = "accepting" => slot'.used = t
        <3> SUFFICES ASSUME NEW t \in Starts, t # s, start'[t].at = "accepting"
                     PROVE  slot'.used = t
            OBVIOUS
        <3>1. Holds(t) /\ start[t].at = "accepting"
            BY DEF Holds
        <3> QED
            BY <1>3, <3>1 DEF OwnerInvariant, KnownToGate
    <2> QED
        BY <1>1, <2>1, <2>2, <2>3 DEF KnownToGate
<1> QED
    BY <1>2, <1>4, <1>5, <1>6 DEF OwnerInvariant

\* The record of a start after a move
LEMMA Moved ==
    ASSUME OwnerInvariant, NEW s \in Starts, NEW at \in StartStates, NEW c \in Names,
           \/ (Moves(s, at) /\ c = start[s].awaits)
           \/ MovesAwaiting(s, at, c)
    PROVE  /\ start' \in [Starts -> StartRecords]
           /\ \A t \in Starts \ {s} : start'[t] = start[t]
           /\ start'[s].at = at /\ start'[s].awaits = c
BY DEF Moves, MovesAwaiting, OwnerInvariant, OwnerTypeOK, StartRecords

LEMMA UnchangedAlike == ASSUME OwnerInvariant, UNCHANGED child PROVE Alike
BY DEF Alike, OwnerInvariant, OwnerTypeOK

LEMMA WaitingKeeps ==
    ASSUME OwnerInvariant, NEW s \in Starts, BeginStart(s) \/ Enter(s) \/ Replaced(s) \/ Prepared(s)
    PROVE  OwnerInvariant'
<1>1. start[s].awaits \in Names /\ slot \in Slots /\ slot.used \in Names
    BY DEF OwnerInvariant, OwnerTypeOK, StartRecords, Slots
<1>2. CASE BeginStart(s)
    <2>1. /\ start[s].at = "none" /\ Moves(s, "waiting") /\ UNCHANGED <<quit, slot>>
          /\ UNCHANGED child
        BY <1>2 DEF BeginStart, IsAt
    <2>2. /\ start' \in [Starts -> StartRecords] /\ start'[s].at = "waiting"
          /\ \A t \in Starts \ {s} : start'[t] = start[t]
        BY <1>1, <2>1, Moved DEF StartStates
    <2> QED
        BY <1>1, <2>1, <2>2, UnchangedAlike, StartKeeps DEF Holds, Expected
<1>3. CASE Enter(s) /\ Moves(s, "done") /\ UNCHANGED <<slot, child>>
    <2>1. start[s].at = "waiting" /\ UNCHANGED quit
        BY <1>3 DEF Enter, IsAt
    <2>2. /\ start' \in [Starts -> StartRecords] /\ start'[s].at = "done"
          /\ \A t \in Starts \ {s} : start'[t] = start[t]
        BY <1>1, <1>3, Moved DEF StartStates
    <2> QED
        BY <1>1, <1>3, <2>1, <2>2, UnchangedAlike, StartKeeps DEF Holds, Expected
<1>4. CASE Enter(s) /\ MovesAwaiting(s, "replacing", slot.used) /\ child' = Cancelled(slot.used)
           /\ slot' = [slot EXCEPT !.used = Nil]
    <2>1. start[s].at = "waiting" /\ GateFree /\ UNCHANGED quit
        BY <1>4 DEF Enter, IsAt
    <2>2. /\ start' \in [Starts -> StartRecords] /\ start'[s].at = "replacing"
          /\ start'[s].awaits = slot.used
          /\ \A t \in Starts \ {s} : start'[t] = start[t]
        BY <1>1, <1>4, Moved DEF StartStates
    <2>3. /\ slot' \in Slots /\ slot'.current = slot.current
          /\ slot'.stopping = slot.stopping
        BY <1>1, <1>4 DEF Slots, Names
    <2>4. Alike
        BY <1>1, <1>4, CancelledAlike DEF Alike
    <2>5. \A c \in Starts : Lives(c) => c = slot.used
        BY <2>1 DEF OwnerInvariant, KnownToGate
    <2> QED
        BY <1>1, <1>4, <2>1, <2>2, <2>3, <2>4, <2>5, StartKeeps DEF Holds, Expected
<1>5. CASE Replaced(s)
    <2>1. /\ start[s].at = "replacing" /\ Moves(s, "preparing") /\ UNCHANGED <<quit, slot>>
          /\ UNCHANGED child
        BY <1>5 DEF Replaced, IsAt
    <2>2. /\ start' \in [Starts -> StartRecords] /\ start'[s].at = "preparing"
          /\ \A t \in Starts \ {s} : start'[t] = start[t]
        BY <1>1, <2>1, Moved DEF StartStates
    <2>3. \A c \in Starts : ~Lives(c)
        BY <1>5, <2>1, OwnerAssumption
           DEF Replaced, Reaped, OwnerInvariant, KnownToGate, Expected, Lives
    <2> QED
        BY <1>1, <2>1, <2>2, <2>3, UnchangedAlike, StartKeeps DEF Holds
<1>6. CASE Prepared(s)
    <2>1. PICK at \in {"failing", "launching"} : Moves(s, at)
        BY <1>6 DEF Prepared
    <2>2. /\ start[s].at = "preparing" /\ UNCHANGED <<quit, slot>> /\ UNCHANGED child
        BY <1>6 DEF Prepared, IsAt
    <2>3. /\ start' \in [Starts -> StartRecords] /\ start'[s].at = at
          /\ \A t \in Starts \ {s} : start'[t] = start[t]
        BY <1>1, <2>1, Moved DEF StartStates
    <2>4. \A c \in Starts : ~Lives(c)
        BY <2>2 DEF OwnerInvariant, KnownToGate, Expected
    <2> QED
        BY <1>1, <2>2, <2>3, <2>4, UnchangedAlike, StartKeeps DEF Holds
<1> QED
    BY <1>2, <1>3, <1>4, <1>5, <1>6 DEF Enter

\* Nothing lives when a controller is launched, and no stop was fenced.
LEMMA LaunchKeeps ==
    ASSUME OwnerInvariant, NEW s \in Starts, Launch(s)
    PROVE  OwnerInvariant'
<1>1. /\ start[s].at = "launching" /\ UNCHANGED quit /\ slot \in Slots
      /\ start[s].awaits \in Names /\ \A c \in Starts : ~Lives(c)
    BY DEF Launch, IsAt, OwnerInvariant, OwnerTypeOK, StartRecords, KnownToGate, Expected
<1>2. CASE Moves(s, "failing") /\ UNCHANGED <<slot, child>>
    <2>1. /\ start' \in [Starts -> StartRecords] /\ start'[s].at = "failing"
          /\ \A t \in Starts \ {s} : start'[t] = start[t]
        BY <1>1, <1>2, Moved DEF StartStates
    <2> QED
        BY <1>1, <1>2, <2>1, UnchangedAlike, StartKeeps DEF Holds
<1>3. CASE ~slot.stopping /\ Spawn(s)
    <2>1. /\ start' \in [Starts -> StartRecords] /\ start'[s].at = "calling"
          /\ \A t \in Starts \ {s} : start'[t] = start[t]
        BY <1>1, <1>3, Moved DEF StartStates, Spawn
    <2>2. /\ slot' \in Slots /\ slot'.current = s /\ slot'.used = slot.used
          /\ slot'.stopping = slot.stopping
        BY <1>1, <1>3 DEF Spawn, Slots, Names
    <2> DEFINE born == [child[s] EXCEPT !.at = "serving", !.up = TRUE]
    <2>3. born \in ChildRecords /\ born.at = "serving"
        BY DEF OwnerInvariant, OwnerTypeOK, ChildRecords, LoopStates
    <2>4. child' = [child EXCEPT ![s] = born]
        BY <1>3 DEF Spawn, OwnerInvariant, OwnerTypeOK
    <2> HIDE DEF born
    <2>5. /\ child' \in [Starts -> ChildRecords] /\ child'[s] = born
          /\ \A d \in Starts \ {s} : child'[d] = child[d]
        BY <2>3, <2>4 DEF OwnerInvariant, OwnerTypeOK
    <2>6. \A c \in Starts : Lives(c)' <=> c = s
        BY <1>1, <2>3, <2>5 DEF Lives
    <2>7. OwnerTypeOK' /\ UpLives'
        BY <1>1, <2>1, <2>2, <2>3, <2>5, <2>6 DEF OwnerInvariant, OwnerTypeOK, UpLives, Lives
    <2>8. \A t \in Starts \ {s} : ~Holds(t)
        BY <1>1 DEF OwnerInvariant, OneHolder, Holds
    <2>9. OneHolder' /\ LastLaunched'
        BY <2>1, <2>2, <2>6, <2>8 DEF OneHolder, Holds, LastLaunched
    <2>10. KnownToGate'
        <3>1. ~GateFree'
            BY <2>1 DEF GateFree
        <3>2. Expected(s, s)'
            BY <2>1 DEF Expected
        <3>3. \A t \in Starts \ {s} : start'[t].at \in {"none", "waiting", "done"}
            BY <2>1, <2>8 DEF Holds
        <3>4. \A t \in Starts \ {s}, c \in Starts : Expected(t, c)'
            BY <3>3 DEF Expected
        <3> QED
            BY <2>1, <2>6, <3>1, <3>2, <3>3, <3>4 DEF KnownToGate
    <2>11. QuitFenced'
        BY <1>1, <1>3, <2>2 DEF OwnerInvariant, QuitFenced
    <2> QED
        BY <2>7, <2>9, <2>10, <2>11 DEF OwnerInvariant
<1> QED
    BY <1>2, <1>3 DEF Launch

LEMMA BootingKeeps ==
    ASSUME OwnerInvariant, NEW s \in Starts,
           CallBootstrap(s) \/ Booted(s) \/ Dropped(s) \/ Publish(s)
    PROVE  OwnerInvariant'
<1>1. /\ start[s].awaits \in Names /\ slot \in Slots /\ slot.used \in Names
      /\ s \in Names /\ s \in Callers
    BY DEF OwnerInvariant, OwnerTypeOK, StartRecords, Slots, Names, Callers
<1>2. CASE CallBootstrap(s)
    <2>1. /\ start[s].at = "calling" /\ Moves(s, "booting") /\ Ask(s, s)
          /\ UNCHANGED <<quit, slot>>
        BY <1>2 DEF CallBootstrap, IsAt
    <2>2. /\ start' \in [Starts -> StartRecords] /\ start'[s].at = "booting"
          /\ \A t \in Starts \ {s} : start'[t] = start[t]
        BY <1>1, <2>1, Moved DEF StartStates
    <2>3. Alike
        BY <1>1, <2>1, AskedAlike DEF Alike
    <2>4. \A c \in Starts : Lives(c) => c = s
        BY <2>1 DEF OwnerInvariant, KnownToGate, Expected
    <2> QED
        BY <1>1, <2>1, <2>2, <2>3, <2>4, StartKeeps DEF Holds, Expected
<1>3. CASE Booted(s)
    <2>1. start[s].at = "booting" /\ UNCHANGED <<quit, slot>>
        BY <1>3 DEF Booted, IsAt
    <2>2. \A c \in Starts : Lives(c) => c = s
        BY <2>1 DEF OwnerInvariant, KnownToGate, Expected
    <2>3. CASE Moves(s, "booted") /\ UNCHANGED child
        <3>1. /\ start' \in [Starts -> StartRecords] /\ start'[s].at = "booted"
              /\ \A t \in Starts \ {s} : start'[t] = start[t]
            BY <1>1, <2>3, Moved DEF StartStates
        <3> QED
            BY <1>1, <2>1, <2>2, <2>3, <3>1, UnchangedAlike, StartKeeps DEF Holds, Expected
    <2>4. CASE MovesAwaiting(s, "dropping", s) /\ child' = Cancelled(s)
        <3>1. /\ start' \in [Starts -> StartRecords] /\ start'[s].at = "dropping"
              /\ start'[s].awaits = s
              /\ \A t \in Starts \ {s} : start'[t] = start[t]
            BY <1>1, <2>4, Moved DEF StartStates
        <3>2. Alike
            BY <1>1, <2>4, CancelledAlike DEF Alike
        <3> QED
            BY <1>1, <2>1, <2>2, <3>1, <3>2, StartKeeps DEF Holds, Expected
    <2> QED
        BY <1>3, <2>3, <2>4 DEF Booted
<1>4. CASE Dropped(s)
    <2>1. /\ start[s].at = "dropping" /\ Moves(s, "failing") /\ UNCHANGED <<quit, slot>>
          /\ UNCHANGED child
        BY <1>4 DEF Dropped, IsAt
    <2>2. /\ start' \in [Starts -> StartRecords] /\ start'[s].at = "failing"
          /\ \A t \in Starts \ {s} : start'[t] = start[t]
        BY <1>1, <2>1, Moved DEF StartStates
    <2>3. \A c \in Starts : ~Lives(c)
        BY <1>4, <2>1, OwnerAssumption
           DEF Dropped, Reaped, OwnerInvariant, KnownToGate, Expected, Lives
    <2> QED
        BY <1>1, <2>1, <2>2, <2>3, UnchangedAlike, StartKeeps DEF Holds
<1>5. CASE Publish(s)
    <2>1. /\ start[s].at = "booted" /\ Moves(s, "accepting") /\ Ask(s, s) /\ UNCHANGED quit
          /\ slot' = [slot EXCEPT !.used = s]
        BY <1>5 DEF Publish, IsAt
    <2>2. /\ start' \in [Starts -> StartRecords] /\ start'[s].at = "accepting"
          /\ \A t \in Starts \ {s} : start'[t] = start[t]
        BY <1>1, <2>1, Moved DEF StartStates
    <2>3. Alike
        BY <1>1, <2>1, AskedAlike DEF Alike
    <2>4. \A c \in Starts : Lives(c) => c = s
        BY <2>1 DEF OwnerInvariant, KnownToGate, Expected
    <2>5. /\ slot' \in Slots /\ slot'.current = slot.current /\ slot'.used = s
          /\ slot'.stopping = slot.stopping
        BY <1>1, <2>1 DEF Slots
    <2> QED
        BY <1>1, <2>1, <2>2, <2>3, <2>4, <2>5, StartKeeps DEF Holds, Expected
<1> QED
    BY <1>2, <1>3, <1>4, <1>5

LEMMA EndingKeeps ==
    ASSUME OwnerInvariant, NEW s \in Starts, Accepted(s) \/ FailStart(s) \/ FailedStart(s)
    PROVE  OwnerInvariant'
<1>1. start[s].awaits \in Names /\ slot \in Slots /\ slot.used \in Names
    BY DEF OwnerInvariant, OwnerTypeOK, StartRecords, Slots
<1>2. CASE Accepted(s)
    <2>1. PICK at \in {"failing", "done"} : Moves(s, at)
        BY <1>2 DEF Accepted
    <2>2. /\ start[s].at = "accepting" /\ UNCHANGED <<quit, slot>> /\ UNCHANGED child
        BY <1>2 DEF Accepted, IsAt
    <2>3. /\ start' \in [Starts -> StartRecords] /\ start'[s].at = at
          /\ \A t \in Starts \ {s} : start'[t] = start[t]
        BY <1>1, <2>1, Moved DEF StartStates
    <2>4. \A c \in Starts : Lives(c) => c = slot.used
        BY <2>2 DEF OwnerInvariant, KnownToGate, Expected
    <2> QED
        BY <1>1, <2>2, <2>3, <2>4, UnchangedAlike, StartKeeps DEF Holds, Expected
<1>3. CASE FailStart(s)
    <2>1. /\ start[s].at = "failing" /\ MovesAwaiting(s, "closing", slot.used) /\ UNCHANGED quit
          /\ slot' = [slot EXCEPT !.used = Nil] /\ child' = Cancelled(slot.used)
        BY <1>3 DEF FailStart, IsAt
    <2>2. /\ start' \in [Starts -> StartRecords] /\ start'[s].at = "closing"
          /\ start'[s].awaits = slot.used
          /\ \A t \in Starts \ {s} : start'[t] = start[t]
        BY <1>1, <2>1, Moved DEF StartStates
    <2>3. /\ slot' \in Slots /\ slot'.current = slot.current
          /\ slot'.stopping = slot.stopping
        BY <1>1, <2>1 DEF Slots, Names
    <2>4. Alike
        BY <1>1, <2>1, CancelledAlike DEF Alike
    <2>5. \A c \in Starts : Lives(c) => c = slot.used
        BY <2>1 DEF OwnerInvariant, KnownToGate, Expected
    <2> QED
        BY <1>1, <2>1, <2>2, <2>3, <2>4, <2>5, StartKeeps DEF Holds, Expected
<1>4. CASE FailedStart(s)
    <2>1. /\ start[s].at = "closing" /\ Moves(s, "done") /\ UNCHANGED <<quit, slot>>
          /\ UNCHANGED child
        BY <1>4 DEF FailedStart, IsAt
    <2>2. /\ start' \in [Starts -> StartRecords] /\ start'[s].at = "done"
          /\ \A t \in Starts \ {s} : start'[t] = start[t]
        BY <1>1, <2>1, Moved DEF StartStates
    <2>3. \A c \in Starts : ~Lives(c)
        BY <1>4, <2>1, OwnerAssumption
           DEF FailedStart, Reaped, OwnerInvariant, KnownToGate, Expected, Lives
    <2> QED
        BY <1>1, <2>1, <2>2, <2>3, UnchangedAlike, StartKeeps DEF Holds
<1> QED
    BY <1>2, <1>3, <1>4

LEMMA OwnerKeeps ==
    ASSUME OwnerInvariant, [OwnerNext]_ownerVars
    PROVE  OwnerInvariant'
<1>1. CASE UNCHANGED ownerVars
    BY <1>1 DEF ownerVars, OwnerInvariant, OwnerTypeOK, UpLives, Lives, OneHolder, Holds,
       LastLaunched, KnownToGate, Expected, GateFree, QuitFenced
<1>2. ASSUME NEW s \in Starts, BeginStart(s) \/ StartSteps(s) \/ LoopSteps(s) \/ ChildExits(s)
      PROVE  OwnerInvariant'
    BY <1>2, WaitingKeeps, LaunchKeeps, BootingKeeps, EndingKeeps, LoopStepsKeep DEF StartSteps
<1>3. CASE OwnerNext
    BY <1>2, <1>3, ClientCallsKeep, QuitKeeps DEF OwnerNext
<1> QED
    BY <1>1, <1>3

\* However starts, their failures, ends of the process, commands and Quit overlap,
\* there are never two controllers over the files of the runtime, and none is left
\* when the app exits (transport.rs:80, managed.rs:155, lib.rs:221).
THEOREM OneOwner == OwnerSpec => [](OneController /\ NoneOutlivesQuit)
<1>1. OwnerSpec => []OwnerInvariant
    BY OwnerStarts, OwnerKeeps, PTL DEF OwnerSpec
<1> QED
    BY <1>1, OwnerSuffices, PTL

-----------------------------------------------------------------------------
(* The runtime process                                                     *)

RunStates == {"none", "queued", "running", "waiting_for_device", "cancelling",
              "succeeded", "failed", "blocked", "cancelled", "interrupted"}
\* Where the supervisor thread is between its loop and the end of a run
JobPlaces == {"setup", "launch", "work", "abort", "reap", "close", "finish"}

ControlRecords ==
    [pc : {"down", "stopped", "idle", "fence", "scope", "stop", "join", "install", "start", "quit"},
     to : Configs \cup {Nil}, force : BOOLEAN]
ThreadRecords ==
    [pc : {"none", "poll", "tick", "pick", "exited"} \cup JobPlaces,
     stopping : BOOLEAN, ok : BOOLEAN]
HandlerRecords ==
    [pc : {"idle", "accepted", "reserved", "owned", "sent", "read", "passed", "aborted"},
     run : Runs \cup {Nil}, generation : Nat, config : Configs \cup {Nil}, scanned : BOOLEAN]

RunTypes ==
    /\ run \in [Runs -> RunStates] /\ requests \in [Runs -> Nat]
    /\ owner \in [Runs -> Configs \cup {Nil}] /\ unfit \subseteq Runs
InstalledTypes ==
    /\ control \in ControlRecords
    /\ model \in Configs \cup {Nil} /\ config \in Configs /\ verified \in BOOLEAN
    /\ generation \in Nat /\ cleared \in Nat
ThreadTypes ==
    /\ sup \in ThreadRecords /\ job \in Runs \cup {Nil}
    /\ relay \in {"none", "open", "closing"} /\ worker \in BOOLEAN /\ stray \in BOOLEAN
HandlerTypes == handler \in [Handlers -> HandlerRecords]
RuntimeTypeOK == RunTypes /\ InstalledTypes /\ ThreadTypes /\ HandlerTypes

\* What the places of the two threads say of one another, and of what the
\* supervisor holds
ThreadsOK ==
    /\ control.pc \in {"down", "stopped"} => sup.pc = "none"
    /\ control.pc \in {"idle", "stop", "join", "quit"} => sup.pc # "none"
    /\ control.pc = "install" => sup.pc = "exited"
    /\ control.pc = "start" => sup.pc \in {"none", "exited"}
    /\ sup.pc = "none" => \A h \in Handlers : handler[h].pc = "idle"
    /\ relay = "open" => sup.pc \in {"launch", "work", "abort"}
    /\ worker => sup.pc \in {"work", "abort", "reap"}
    /\ stray => CleanupMayFail

\* A thread works on its job and nothing else works.
WorkOK ==
    /\ sup.pc \in JobPlaces => job \in Runs /\ run[job] \in Executing
    /\ sup.pc # "none" =>
          \A r \in Runs : run[r] \in Executing => sup.pc \in JobPlaces /\ r = job
    /\ control.pc = "stopped" => \A r \in Runs : run[r] \notin Executing
    /\ sup.ok => /\ sup.pc \in {"abort", "reap", "close", "finish"}
                 /\ run[job] # "waiting_for_device"

\* While the new configuration is authorized nothing is admitted; whatever was
\* not told to stop is of the scope that is authorized, and whatever the
\* supervisor may start or works on is of the installed one.
AuthorityOK ==
    /\ control.pc \in {"fence", "scope", "stop", "join", "install"} => control.to \in Configs
    /\ control.pc \in {"fence", "scope"} => /\ verified => sup.pc = "none"
                                            /\ sup.pc = "none" => control.to = config
    /\ control.pc = "scope" => scope = Scope[control.to] \/ \A r \in Runs : Told(r)
    /\ control.pc \in {"stop", "join", "install"} => scope = Scope[control.to] /\ ~verified
    /\ verified /\ control.pc \notin {"fence", "scope"} => scope = Scope[config]
    /\ \A r \in Runs : ~Told(r) => Scope[owner[r]] = scope
    /\ sup.pc \in {"tick", "pick"} =>
          \A r \in Runs : run[r] = "queued" => Scope[owner[r]] = Scope[config]
    /\ sup.pc \in JobPlaces => Scope[owner[job]] = Scope[config]
    /\ model \in {Nil, config}
    /\ cleared <= generation
    /\ Up /\ control.pc # "install" => cleared < generation

\* What a request of the worker was made under, and how far it may go
HandlerOK(h) ==
    LET k == handler[h]  r == handler[h].run
    IN /\ k.pc # "idle" =>
             /\ r \in Runs /\ run[r] \notin {"none", "queued"}
             /\ Scope[k.config] = Scope[owner[r]]
             /\ Fenced(r) => k.generation > cleared
       /\ k.pc \notin {"idle", "accepted"} => requests[r] >= 1
       /\ Live(h) => sup.pc \in {"launch", "work", "abort"} /\ r = job
       /\ k.pc = "read" /\ Fenced(r) => k.scanned
       /\ k.pc = "passed" => k.scanned

RuntimeInvariant ==
    /\ RuntimeTypeOK /\ ThreadsOK /\ WorkOK /\ AuthorityOK
    /\ \A h \in Handlers : HandlerOK(h)

LEMMA NativeKeeps ==
    ASSUME RuntimeInvariant, ScopeAssumption, Native
    PROVE  RuntimeInvariant'
<1> USE DEF RuntimeInvariant, RuntimeTypeOK, RunTypes, InstalledTypes, ThreadTypes, HandlerTypes,
        ControlRecords, ThreadRecords, HandlerRecords
<1>1. ASSUME NEW r \in Runs, Submit(r) PROVE RuntimeInvariant'
  <2>1. RuntimeTypeOK'
    BY <1>1 DEF Submit, Admit, Serving, installed, execution, RunStates, JobPlaces
  <2>2. ThreadsOK'
    BY <1>1 DEF Submit, Admit, Serving, installed, execution, ThreadsOK
  <2>3. WorkOK'
    BY <1>1 DEF Submit, Admit, Serving, installed, execution, WorkOK, JobPlaces, Executing
  <2>4. AuthorityOK'
    BY <1>1 DEF Submit, Admit, Serving, installed, execution, AuthorityOK, Told, Up
  <2>5. \A k \in Handlers : HandlerOK(k)'
    BY <1>1 DEF Submit, Admit, Serving, installed, execution, HandlerOK, Live, Fenced
  <2> QED
    BY <2>1, <2>2, <2>3, <2>4, <2>5
<1>2. ASSUME NEW r \in Runs, Cancel(r) PROVE RuntimeInvariant'
  <2>1. RuntimeTypeOK'
    BY <1>2 DEF Cancel, Serving, Stopped, installed, execution, RunStates, JobPlaces
  <2>2. ThreadsOK'
    BY <1>2 DEF Cancel, Serving, Stopped, installed, execution, ThreadsOK
  <2>3. WorkOK'
    BY <1>2 DEF Cancel, Serving, Stopped, installed, execution, WorkOK, JobPlaces, Executing
  <2>4. AuthorityOK'
    BY <1>2 DEF Cancel, Serving, Stopped, installed, execution, AuthorityOK, Told, Up
  <2>5. \A k \in Handlers : HandlerOK(k)'
    BY <1>2 DEF Cancel, Serving, Stopped, installed, execution, HandlerOK, Live, Fenced
  <2> QED
    BY <2>1, <2>2, <2>3, <2>4, <2>5
<1>3. ASSUME NEW r \in Runs, LoseFence(r) PROVE RuntimeInvariant'
  <2>1. RuntimeTypeOK'
    BY <1>3 DEF LoseFence, installed, execution, RunStates, JobPlaces
  <2>2. ThreadsOK'
    BY <1>3 DEF LoseFence, installed, execution, ThreadsOK
  <2>3. WorkOK'
    BY <1>3 DEF LoseFence, installed, execution, WorkOK
  <2>4. AuthorityOK'
    BY <1>3 DEF LoseFence, installed, execution, AuthorityOK, Told, Up
  <2>5. \A k \in Handlers : HandlerOK(k)'
    BY <1>3, ScopeAssumption DEF LoseFence, installed, execution, HandlerOK, ThreadsOK,
       WorkOK, AuthorityOK, JobPlaces, Live, Fenced, Executing, Up, RunStates
  <2> QED
    BY <2>1, <2>2, <2>3, <2>4, <2>5
<1>4. ASSUME NEW r \in Runs, DeviceAnswers(r) PROVE RuntimeInvariant'
  <2>1. RuntimeTypeOK'
    BY <1>4 DEF DeviceAnswers, Serving, installed, execution, RunStates, JobPlaces
  <2>2. ThreadsOK'
    BY <1>4 DEF DeviceAnswers, Serving, installed, execution, ThreadsOK
  <2>3. WorkOK'
    BY <1>4 DEF DeviceAnswers, Serving, installed, execution, WorkOK, JobPlaces, Executing
  <2>4. AuthorityOK'
    BY <1>4 DEF DeviceAnswers, Serving, installed, execution, AuthorityOK, Told, Up
  <2>5. \A k \in Handlers : HandlerOK(k)'
    BY <1>4 DEF DeviceAnswers, Serving, installed, execution, HandlerOK, Live, Fenced
  <2> QED
    BY <2>1, <2>2, <2>3, <2>4, <2>5
<1>5. ASSUME NEW c \in Configs, Bootstrap(c) PROVE RuntimeInvariant'
  <2>1. RuntimeTypeOK'
    <3>1. verified' \in BOOLEAN /\ stray' \in BOOLEAN
      BY <1>5, Zenon DEF Bootstrap
    <3>2. control' \in ControlRecords
      BY <1>5 DEF Bootstrap
    <3> QED
      BY <3>1, <3>2, <1>5 DEF Bootstrap, durable
  <2>2. ThreadsOK'
    <3>1. control'.pc \in {"fence", "start"} /\ sup.pc = "none" /\ ~stray'
      BY <1>5 DEF Bootstrap, Up, ThreadsOK
    <3> QED
      BY <3>1, <1>5 DEF Bootstrap, ThreadsOK
  <2>3. WorkOK'
    BY <1>5 DEF Bootstrap, durable, WorkOK
  <2>4. AuthorityOK'
    BY <1>5 DEF Bootstrap, durable, AuthorityOK, ThreadsOK, JobPlaces, Told, Up, Executing
  <2>5. \A k \in Handlers : HandlerOK(k)'
    BY <1>5 DEF Bootstrap, durable, HandlerOK, Live, Fenced
  <2> QED
    BY <2>1, <2>2, <2>3, <2>4, <2>5
<1>6. ASSUME NEW c \in Configs, RefreshCatalog(c) PROVE RuntimeInvariant'
  <2>1. RuntimeTypeOK'
    BY <1>6 DEF RefreshCatalog, SameAuthority, Serving, durable, execution, RunStates,
       JobPlaces
  <2>2. ThreadsOK'
    BY <1>6 DEF RefreshCatalog, SameAuthority, Serving, durable, execution, ThreadsOK
  <2>3. WorkOK'
    BY <1>6 DEF RefreshCatalog, SameAuthority, Serving, durable, execution, WorkOK
  <2>4. AuthorityOK'
    BY <1>6 DEF RefreshCatalog, SameAuthority, Serving, durable, execution, AuthorityOK, Told,
       Up
  <2>5. \A k \in Handlers : HandlerOK(k)'
    BY <1>6 DEF RefreshCatalog, SameAuthority, Serving, durable, execution, HandlerOK, Live,
       Fenced
  <2> QED
    BY <2>1, <2>2, <2>3, <2>4, <2>5
<1>7. ASSUME NEW c \in Configs, Configure(c) PROVE RuntimeInvariant'
  <2>1. RuntimeTypeOK'
    <3>1. control' \in ControlRecords
      BY <1>7, Zenon DEF Configure
    <3>2. UNCHANGED <<run, requests, owner, unfit, sup, job, relay, worker, stray, handler>>
      BY <1>7 DEF Configure, durable, execution
    <3> QED
      BY <3>1, <3>2, <1>7 DEF Configure
  <2>2. ThreadsOK'
    BY <1>7 DEF Configure, Serving, durable, execution, ThreadsOK
  <2>3. WorkOK'
    BY <1>7 DEF Configure, Serving, durable, execution, WorkOK
  <2>4. AuthorityOK'
    BY <1>7 DEF Configure, Serving, durable, execution, AuthorityOK, ThreadsOK, Told, Up
  <2>5. \A k \in Handlers : HandlerOK(k)'
    BY <1>7 DEF Configure, Serving, durable, execution, HandlerOK, Live, Fenced
  <2> QED
    BY <2>1, <2>2, <2>3, <2>4, <2>5
<1>8. ASSUME Shutdown PROVE RuntimeInvariant'
  <2>1. RuntimeTypeOK'
    BY <1>8 DEF Shutdown, Serving, durable, execution, RunStates, JobPlaces
  <2>2. ThreadsOK'
    BY <1>8 DEF Shutdown, Serving, durable, execution, ThreadsOK
  <2>3. WorkOK'
    BY <1>8 DEF Shutdown, Serving, durable, execution, WorkOK
  <2>4. AuthorityOK'
    BY <1>8 DEF Shutdown, Serving, durable, execution, AuthorityOK, Told, Up
  <2>5. \A k \in Handlers : HandlerOK(k)'
    BY <1>8 DEF Shutdown, Serving, durable, execution, HandlerOK, Live, Fenced
  <2> QED
    BY <2>1, <2>2, <2>3, <2>4, <2>5
<1>9. ASSUME Crash PROVE RuntimeInvariant'
  <2>1. RuntimeTypeOK'
    BY <1>9 DEF Crash, Ends, NoThread, Idle, durable, RunStates, JobPlaces
  <2>2. ThreadsOK'
    BY <1>9 DEF Crash, Ends, NoThread, Idle, durable, ThreadsOK
  <2>3. WorkOK'
    BY <1>9 DEF Crash, Ends, NoThread, Idle, durable, WorkOK, JobPlaces, Executing
  <2>4. AuthorityOK'
    BY <1>9 DEF Crash, Ends, NoThread, Idle, durable, AuthorityOK, ThreadsOK, JobPlaces, Told,
       Up, Executing
  <2>5. \A k \in Handlers : HandlerOK(k)'
    BY <1>9 DEF Crash, Ends, NoThread, Idle, durable, HandlerOK, Live
  <2> QED
    BY <2>1, <2>2, <2>3, <2>4, <2>5
<1>10. ASSUME StrayDies PROVE RuntimeInvariant'
  <2>1. RuntimeTypeOK'
    <3>1. UNCHANGED <<run, requests, owner, unfit, sup, job, relay, worker, handler>>
      BY <1>10 DEF StrayDies, durable
    <3>2. UNCHANGED <<control, model, config, verified, generation, cleared>>
      BY <1>10 DEF StrayDies, installed
    <3>3. stray' \in BOOLEAN
      BY <1>10, Zenon DEF StrayDies
    <3> QED
      BY <3>1, <3>2, <3>3
  <2>2. ThreadsOK'
    BY <1>10 DEF StrayDies, durable, installed, ThreadsOK
  <2>3. WorkOK'
    BY <1>10 DEF StrayDies, durable, installed, WorkOK
  <2>4. AuthorityOK'
    BY <1>10 DEF StrayDies, durable, installed, AuthorityOK, Told, Up
  <2>5. \A k \in Handlers : HandlerOK(k)'
    BY <1>10 DEF StrayDies, durable, installed, HandlerOK, Live, Fenced
  <2> QED
    BY <2>1, <2>2, <2>3, <2>4, <2>5
<1> QED
  BY <1>1, <1>2, <1>3, <1>4, <1>5, <1>6, <1>7, <1>8, <1>9, <1>10 DEF Native

LEMMA ControlKeeps ==
    ASSUME RuntimeInvariant, ScopeAssumption, Control \/ ControlGivesUp
    PROVE  RuntimeInvariant'
<1> USE DEF RuntimeInvariant, RuntimeTypeOK, RunTypes, InstalledTypes, ThreadTypes, HandlerTypes,
        ControlRecords, ThreadRecords, HandlerRecords
<1>1. ASSUME ControlFences PROVE RuntimeInvariant'
  <2>1. RuntimeTypeOK'
    BY <1>1 DEF ControlFences, NeedsFence, Stopped, installed, execution, RunStates, JobPlaces
  <2>2. ThreadsOK'
    BY <1>1 DEF ControlFences, NeedsFence, Stopped, installed, execution, ThreadsOK
  <2>3. WorkOK'
    BY <1>1 DEF ControlFences, NeedsFence, Stopped, installed, execution, WorkOK, JobPlaces,
       Executing
  <2>4. AuthorityOK'
    BY <1>1 DEF ControlFences, NeedsFence, Stopped, installed, execution, AuthorityOK,
       ThreadsOK, JobPlaces, Told, Up, Executing
  <2>5. \A k \in Handlers : HandlerOK(k)'
    BY <1>1 DEF ControlFences, NeedsFence, Stopped, installed, execution, HandlerOK, Live,
       Fenced
  <2> QED
    BY <2>1, <2>2, <2>3, <2>4, <2>5
<1>2. ASSUME ControlAuthorizes PROVE RuntimeInvariant'
  <2>1. RuntimeTypeOK'
    BY <1>2 DEF ControlAuthorizes, installed, execution, RunStates, JobPlaces
  <2>2. ThreadsOK'
    BY <1>2 DEF ControlAuthorizes, installed, execution, ThreadsOK
  <2>3. WorkOK'
    BY <1>2 DEF ControlAuthorizes, installed, execution, WorkOK
  <2>4. AuthorityOK'
    BY <1>2 DEF ControlAuthorizes, installed, execution, AuthorityOK, Told, Up
  <2>5. \A k \in Handlers : HandlerOK(k)'
    BY <1>2 DEF ControlAuthorizes, installed, execution, HandlerOK, Live, Fenced
  <2> QED
    BY <2>1, <2>2, <2>3, <2>4, <2>5
<1>3. ASSUME ControlStops PROVE RuntimeInvariant'
  <2>1. RuntimeTypeOK'
    BY <1>3 DEF ControlStops, durable, installed, execution, RunStates, JobPlaces
  <2>2. ThreadsOK'
    BY <1>3 DEF ControlStops, durable, installed, execution, ThreadsOK
  <2>3. WorkOK'
    BY <1>3 DEF ControlStops, durable, installed, execution, WorkOK
  <2>4. AuthorityOK'
    BY <1>3 DEF ControlStops, durable, installed, execution, AuthorityOK, Told, Up
  <2>5. \A k \in Handlers : HandlerOK(k)'
    BY <1>3 DEF ControlStops, durable, installed, execution, HandlerOK, Live, Fenced
  <2> QED
    BY <2>1, <2>2, <2>3, <2>4, <2>5
<1>4. ASSUME ControlJoins PROVE RuntimeInvariant'
  <2>1. RuntimeTypeOK'
    BY <1>4 DEF ControlJoins, Joined, durable, execution, RunStates, JobPlaces
  <2>2. ThreadsOK'
    BY <1>4 DEF ControlJoins, Joined, durable, execution, ThreadsOK
  <2>3. WorkOK'
    BY <1>4 DEF ControlJoins, Joined, durable, execution, WorkOK
  <2>4. AuthorityOK'
    BY <1>4 DEF ControlJoins, Joined, durable, execution, AuthorityOK, Told, Up
  <2>5. \A k \in Handlers : HandlerOK(k)'
    BY <1>4 DEF ControlJoins, Joined, durable, execution, HandlerOK, ThreadsOK, WorkOK,
       JobPlaces, Live, Fenced, Executing
  <2> QED
    BY <2>1, <2>2, <2>3, <2>4, <2>5
<1>5. ASSUME ControlGivesUp PROVE RuntimeInvariant'
  <2>1. RuntimeTypeOK'
    BY <1>5 DEF ControlGivesUp, Joined, durable, installed, execution, RunStates, JobPlaces
  <2>2. ThreadsOK'
    BY <1>5 DEF ControlGivesUp, Joined, durable, installed, execution, ThreadsOK
  <2>3. WorkOK'
    BY <1>5 DEF ControlGivesUp, Joined, durable, installed, execution, WorkOK
  <2>4. AuthorityOK'
    BY <1>5 DEF ControlGivesUp, Joined, durable, installed, execution, AuthorityOK, Told, Up
  <2>5. \A k \in Handlers : HandlerOK(k)'
    BY <1>5 DEF ControlGivesUp, Joined, durable, installed, execution, HandlerOK, Live, Fenced
  <2> QED
    BY <2>1, <2>2, <2>3, <2>4, <2>5
<1>6. ASSUME ControlInstalls PROVE RuntimeInvariant'
  <2>1. RuntimeTypeOK'
    <3>1. control.to \in Configs
      BY <1>6 DEF ControlInstalls, AuthorityOK
    <3>2. verified' \in BOOLEAN
      BY <1>6, Zenon DEF ControlInstalls
    <3> QED
      BY <3>1, <3>2, <1>6 DEF ControlInstalls, durable, execution
  <2>2. ThreadsOK'
    BY <1>6 DEF ControlInstalls, durable, execution, ThreadsOK
  <2>3. WorkOK'
    BY <1>6 DEF ControlInstalls, durable, execution, WorkOK
  <2>4. AuthorityOK'
    BY <1>6 DEF ControlInstalls, durable, execution, AuthorityOK, ThreadsOK, JobPlaces, Told,
       Up, Executing
  <2>5. \A k \in Handlers : HandlerOK(k)'
    BY <1>6 DEF ControlInstalls, durable, execution, HandlerOK, Live, Fenced
  <2> QED
    BY <2>1, <2>2, <2>3, <2>4, <2>5
<1>7. ASSUME ControlStarts PROVE RuntimeInvariant'
  <2>1. RuntimeTypeOK'
    BY <1>7 DEF ControlStarts, NoThread, installed, RunStates, JobPlaces
  <2>2. ThreadsOK'
    BY <1>7 DEF ControlStarts, NoThread, installed, ThreadsOK
  <2>3. WorkOK'
    BY <1>7 DEF ControlStarts, NoThread, installed, WorkOK, JobPlaces, Executing
  <2>4. AuthorityOK'
    BY <1>7 DEF ControlStarts, NoThread, installed, AuthorityOK, ThreadsOK, JobPlaces, Told,
       Up, Executing
  <2>5. \A k \in Handlers : HandlerOK(k)'
    BY <1>7 DEF ControlStarts, NoThread, installed, HandlerOK, ThreadsOK, Live, Fenced
  <2> QED
    BY <2>1, <2>2, <2>3, <2>4, <2>5
<1>8. ASSUME Acknowledge PROVE RuntimeInvariant'
  <2>1. RuntimeTypeOK'
    BY <1>8 DEF Acknowledge, Joined, Ends, NoThread, Idle, durable, RunStates, JobPlaces
  <2>2. ThreadsOK'
    BY <1>8 DEF Acknowledge, Joined, Ends, NoThread, Idle, durable, ThreadsOK
  <2>3. WorkOK'
    BY <1>8 DEF Acknowledge, Joined, Ends, NoThread, Idle, durable, WorkOK, JobPlaces,
       Executing
  <2>4. AuthorityOK'
    BY <1>8 DEF Acknowledge, Joined, Ends, NoThread, Idle, durable, AuthorityOK, ThreadsOK,
       JobPlaces, Told, Up, Executing
  <2>5. \A k \in Handlers : HandlerOK(k)'
    BY <1>8 DEF Acknowledge, Joined, Ends, NoThread, Idle, durable, HandlerOK, Live
  <2> QED
    BY <2>1, <2>2, <2>3, <2>4, <2>5
<1> QED
  BY <1>1, <1>2, <1>3, <1>4, <1>5, <1>6, <1>7, <1>8 DEF Control

LEMMA SupervisionKeeps ==
    ASSUME RuntimeInvariant, ScopeAssumption, Supervision
    PROVE  RuntimeInvariant'
<1> USE DEF RuntimeInvariant, RuntimeTypeOK, RunTypes, InstalledTypes, ThreadTypes, HandlerTypes,
        ControlRecords, ThreadRecords, HandlerRecords
<1>1. ASSUME Polls PROVE RuntimeInvariant'
  <2>1. RuntimeTypeOK'
    BY <1>1 DEF Polls, Go, durable, installed, execution, RunStates, JobPlaces
  <2>2. ThreadsOK'
    BY <1>1 DEF Polls, Go, durable, installed, execution, ThreadsOK
  <2>3. WorkOK'
    BY <1>1 DEF Polls, Go, durable, installed, execution, WorkOK, JobPlaces, Executing
  <2>4. AuthorityOK'
    BY <1>1 DEF Polls, Go, durable, installed, execution, AuthorityOK, ThreadsOK, JobPlaces,
       Told, Up, Executing
  <2>5. \A k \in Handlers : HandlerOK(k)'
    BY <1>1 DEF Polls, Go, durable, installed, execution, HandlerOK, Live, Fenced
  <2> QED
    BY <2>1, <2>2, <2>3, <2>4, <2>5
<1>2. ASSUME Ticks PROVE RuntimeInvariant'
  <2>1. RuntimeTypeOK'
    BY <1>2 DEF Ticks, Go, Admit, durable, installed, execution, RunStates, JobPlaces
  <2>2. ThreadsOK'
    BY <1>2 DEF Ticks, Go, Admit, durable, installed, execution, ThreadsOK
  <2>3. WorkOK'
    BY <1>2 DEF Ticks, Go, Admit, durable, installed, execution, WorkOK, JobPlaces, Executing
  <2>4. AuthorityOK'
    BY <1>2 DEF Ticks, Go, Admit, durable, installed, execution, AuthorityOK, ThreadsOK,
       JobPlaces, Told, Up, Executing
  <2>5. \A k \in Handlers : HandlerOK(k)'
    BY <1>2 DEF Ticks, Go, Admit, durable, installed, execution, HandlerOK, Live, Fenced
  <2> QED
    BY <2>1, <2>2, <2>3, <2>4, <2>5
<1>3. ASSUME Picks PROVE RuntimeInvariant'
  <2> DEFINE Pending == {r \in Runs : run[r] = "queued"}
             Blocked(D) == [r \in Runs |-> IF r \in D THEN "blocked" ELSE run[r]]
  <2>1. PICK D \in SUBSET Pending :
           \/ run' = Blocked(D) /\ Go("poll") /\ UNCHANGED job
           \/ \E r \in Pending :
                 run' = [Blocked(D) EXCEPT ![r] = "running"] /\ job' = r /\ Go("setup")
    BY <1>3 DEF Picks
  <2>2. /\ sup.pc = "pick"
        /\ UNCHANGED <<scope, requests, owner, unfit, control, model, config, verified, generation,
                       cleared, relay, worker, stray, handler>>
    BY <1>3 DEF Picks, installed
  <2>3. Blocked(D) \in [Runs -> RunStates] /\ \A r \in Runs : Blocked(D)[r] \in {run[r], "blocked"}
    BY DEF RunStates
  <2>4. \A r \in Runs : run[r] \notin Executing
    BY <2>2 DEF WorkOK, JobPlaces
  <2>5. CASE run' = Blocked(D) /\ Go("poll") /\ UNCHANGED job
    <3>1. sup' = [sup EXCEPT !.pc = "poll"] /\ job' = job
      BY <2>5 DEF Go
    <3>2. RuntimeTypeOK'
      BY <2>2, <2>3, <2>5, <3>1
    <3>3. ThreadsOK'
      BY <2>2, <3>1 DEF ThreadsOK
    <3>4. WorkOK'
      BY <2>2, <2>3, <2>4, <2>5, <3>1 DEF WorkOK, ThreadsOK, JobPlaces, Executing
    <3>5. AuthorityOK'
      BY <2>2, <2>3, <2>5, <3>1 DEF AuthorityOK, Told, Up, JobPlaces
    <3>6. \A k \in Handlers : HandlerOK(k)'
      BY <2>2, <2>3, <2>5, <3>1 DEF HandlerOK, Live, Fenced
    <3> QED
      BY <3>2, <3>3, <3>4, <3>5, <3>6
  <2>6. ASSUME NEW r \in Pending, run' = [Blocked(D) EXCEPT ![r] = "running"], job' = r, Go("setup")
        PROVE  RuntimeInvariant'
    <3>1. /\ sup' = [sup EXCEPT !.pc = "setup"]
          /\ run'[r] = "running" /\ run[r] = "queued"
          /\ \A x \in Runs \ {r} : run'[x] \in {run[x], "blocked"}
      BY <2>3, <2>6 DEF Go
    <3>2. RuntimeTypeOK'
      BY <2>2, <2>3, <2>6, <3>1 DEF RunStates, JobPlaces
    <3>3. ThreadsOK'
      BY <2>2, <3>1 DEF ThreadsOK
    <3>4. WorkOK'
      BY <2>2, <2>4, <2>6, <3>1 DEF WorkOK, ThreadsOK, JobPlaces, Executing
    <3>5. AuthorityOK'
      BY <2>2, <2>6, <3>1 DEF AuthorityOK, Told, Up, JobPlaces
    <3>6. \A k \in Handlers : HandlerOK(k)'
      BY <2>2, <2>4, <3>1 DEF HandlerOK, Live, Fenced, Executing
    <3> QED
      BY <3>2, <3>3, <3>4, <3>5, <3>6
  <2> QED
    BY <2>1, <2>5, <2>6
<1>4. ASSUME CheckFails PROVE RuntimeInvariant'
  <2>1. RuntimeTypeOK'
    <3>1. sup' \in ThreadRecords
      BY <1>4 DEF CheckFails, Fail, JobPlaces
    <3>2. UNCHANGED <<run, requests, owner, unfit, control, job, relay, worker, stray, handler>>
      BY <1>4 DEF CheckFails, durable, execution
    <3> QED
      BY <3>1, <3>2, <1>4 DEF CheckFails, installed
  <2>2. ThreadsOK'
    BY <1>4 DEF CheckFails, Fail, durable, installed, execution, ThreadsOK
  <2>3. WorkOK'
    BY <1>4 DEF CheckFails, Fail, durable, installed, execution, WorkOK, JobPlaces, Executing
  <2>4. AuthorityOK'
    BY <1>4 DEF CheckFails, Fail, durable, installed, execution, AuthorityOK, Told, Up
  <2>5. \A k \in Handlers : HandlerOK(k)'
    BY <1>4 DEF CheckFails, Fail, durable, installed, execution, HandlerOK, Live, Fenced
  <2> QED
    BY <2>1, <2>2, <2>3, <2>4, <2>5
<1>5. ASSUME OpensRelay PROVE RuntimeInvariant'
  <2>1. RuntimeTypeOK'
    BY <1>5 DEF OpensRelay, Go, Checked, durable, installed, RunStates, JobPlaces
  <2>2. ThreadsOK'
    BY <1>5 DEF OpensRelay, Go, Checked, durable, installed, ThreadsOK
  <2>3. WorkOK'
    BY <1>5 DEF OpensRelay, Go, Checked, durable, installed, WorkOK, JobPlaces, Executing
  <2>4. AuthorityOK'
    BY <1>5 DEF OpensRelay, Go, Checked, durable, installed, AuthorityOK, Told, Up
  <2>5. \A k \in Handlers : HandlerOK(k)'
    BY <1>5 DEF OpensRelay, Go, Checked, durable, installed, HandlerOK, Live, Fenced
  <2> QED
    BY <2>1, <2>2, <2>3, <2>4, <2>5
<1>6. ASSUME Launches PROVE RuntimeInvariant'
  <2>1. RuntimeTypeOK'
    BY <1>6 DEF Launches, Go, Checked, durable, installed, RunStates, JobPlaces
  <2>2. ThreadsOK'
    BY <1>6 DEF Launches, Go, Checked, durable, installed, ThreadsOK
  <2>3. WorkOK'
    BY <1>6, ScopeAssumption DEF Launches, Go, Checked, durable, installed, WorkOK, ThreadsOK,
       AuthorityOK, JobPlaces, Executing, RunStates
  <2>4. AuthorityOK'
    BY <1>6 DEF Launches, Go, Checked, durable, installed, AuthorityOK, Told, Up
  <2>5. \A k \in Handlers : HandlerOK(k)'
    BY <1>6 DEF Launches, Go, Checked, durable, installed, HandlerOK, Live, Fenced
  <2> QED
    BY <2>1, <2>2, <2>3, <2>4, <2>5
<1>7. ASSUME ToolWaits PROVE RuntimeInvariant'
  <2>1. RuntimeTypeOK'
    <3>1. RunTypes'
      BY <1>7 DEF ToolWaits, RunStates
    <3> QED
      BY <3>1, <1>7 DEF ToolWaits, installed, execution
  <2>2. ThreadsOK'
    BY <1>7 DEF ToolWaits, Checked, installed, execution, ThreadsOK
  <2>3. WorkOK'
    BY <1>7 DEF ToolWaits, Checked, installed, execution, WorkOK, JobPlaces, Executing
  <2>4. AuthorityOK'
    BY <1>7 DEF ToolWaits, Checked, installed, execution, AuthorityOK, Told, Up
  <2>5. \A k \in Handlers : HandlerOK(k)'
    BY <1>7 DEF ToolWaits, Checked, installed, execution, HandlerOK, Live, Fenced
  <2> QED
    BY <2>1, <2>2, <2>3, <2>4, <2>5
<1>8. ASSUME WorkerReports PROVE RuntimeInvariant'
  <2>1. RuntimeTypeOK'
    <3>1. sup' \in ThreadRecords
      BY <1>8 DEF WorkerReports, JobPlaces
    <3>2. UNCHANGED <<run, requests, owner, unfit, control, job, relay, worker, stray, handler>>
      BY <1>8 DEF WorkerReports, durable, execution
    <3> QED
      BY <3>1, <3>2, <1>8 DEF WorkerReports, installed
  <2>2. ThreadsOK'
    BY <1>8 DEF WorkerReports, Checked, durable, installed, execution, ThreadsOK
  <2>3. WorkOK'
    BY <1>8 DEF WorkerReports, Checked, durable, installed, execution, WorkOK, JobPlaces,
       Executing
  <2>4. AuthorityOK'
    BY <1>8 DEF WorkerReports, Checked, durable, installed, execution, AuthorityOK, Told, Up
  <2>5. \A k \in Handlers : HandlerOK(k)'
    BY <1>8 DEF WorkerReports, Checked, durable, installed, execution, HandlerOK, Live, Fenced
  <2> QED
    BY <2>1, <2>2, <2>3, <2>4, <2>5
<1>9. ASSUME WorkFails PROVE RuntimeInvariant'
  <2>1. RuntimeTypeOK'
    <3>1. worker' \in BOOLEAN
      BY <1>9, Zenon DEF WorkFails
    <3>2. sup' \in ThreadRecords
      BY <1>9 DEF WorkFails, Fail, JobPlaces
    <3> QED
      BY <3>1, <3>2, <1>9 DEF WorkFails, durable, installed
  <2>2. ThreadsOK'
    BY <1>9 DEF WorkFails, Fail, durable, installed, ThreadsOK
  <2>3. WorkOK'
    BY <1>9 DEF WorkFails, Fail, durable, installed, WorkOK, JobPlaces, Executing
  <2>4. AuthorityOK'
    BY <1>9 DEF WorkFails, Fail, durable, installed, AuthorityOK, Told, Up
  <2>5. \A k \in Handlers : HandlerOK(k)'
    BY <1>9 DEF WorkFails, Fail, durable, installed, HandlerOK, Live, Fenced
  <2> QED
    BY <2>1, <2>2, <2>3, <2>4, <2>5
<1>10. ASSUME AbortsEgress PROVE RuntimeInvariant'
  <2>1. RuntimeTypeOK'
    BY <1>10 DEF AbortsEgress, Go, InUse, durable, installed, RunStates, JobPlaces
  <2>2. ThreadsOK'
    BY <1>10 DEF AbortsEgress, Go, InUse, durable, installed, ThreadsOK
  <2>3. WorkOK'
    BY <1>10 DEF AbortsEgress, Go, InUse, durable, installed, WorkOK, JobPlaces, Executing
  <2>4. AuthorityOK'
    BY <1>10 DEF AbortsEgress, Go, InUse, durable, installed, AuthorityOK, Told, Up
  <2>5. \A k \in Handlers : HandlerOK(k)'
    BY <1>10 DEF AbortsEgress, Go, InUse, durable, installed, HandlerOK, Live, Fenced
  <2> QED
    BY <2>1, <2>2, <2>3, <2>4, <2>5
<1>11. ASSUME Reaps PROVE RuntimeInvariant'
  <2>1. RuntimeTypeOK'
    <3>1. sup' \in ThreadRecords
      BY <1>11 DEF Reaps, Go, JobPlaces
    <3>2. stray' \in BOOLEAN /\ worker' \in BOOLEAN
      BY <1>11, Zenon DEF Reaps
    <3> QED
      BY <3>1, <3>2, <1>11 DEF Reaps, durable, installed
  <2>2. ThreadsOK'
    <3>1. (UNCHANGED stray \/ CleanupMayFail) /\ worker' = FALSE
      BY <1>11, Zenon DEF Reaps
    <3>2. sup'.pc = "close" /\ sup.pc = "reap"
      BY <1>11 DEF Reaps, Go
    <3> QED
      BY <3>1, <3>2, <1>11 DEF Reaps, ThreadsOK
  <2>3. WorkOK'
    BY <1>11 DEF Reaps, Go, durable, installed, WorkOK, JobPlaces, Executing
  <2>4. AuthorityOK'
    BY <1>11 DEF Reaps, Go, durable, installed, AuthorityOK, Told, Up
  <2>5. \A k \in Handlers : HandlerOK(k)'
    BY <1>11 DEF Reaps, Go, durable, installed, HandlerOK, Live, Fenced
  <2> QED
    BY <2>1, <2>2, <2>3, <2>4, <2>5
<1>12. ASSUME ClosesRelay PROVE RuntimeInvariant'
  <2>1. RuntimeTypeOK'
    <3>1. sup' \in ThreadRecords
      BY <1>12 DEF ClosesRelay, Go, JobPlaces
    <3>2. UNCHANGED <<run, requests, owner, unfit, control, job, worker, stray, handler>>
      BY <1>12 DEF ClosesRelay, durable
    <3> QED
      BY <3>1, <3>2, <1>12 DEF ClosesRelay, installed
  <2>2. ThreadsOK'
    BY <1>12 DEF ClosesRelay, Go, InUse, durable, installed, ThreadsOK
  <2>3. WorkOK'
    BY <1>12 DEF ClosesRelay, Go, InUse, durable, installed, WorkOK, JobPlaces, Executing
  <2>4. AuthorityOK'
    BY <1>12 DEF ClosesRelay, Go, InUse, durable, installed, AuthorityOK, Told, Up
  <2>5. \A k \in Handlers : HandlerOK(k)'
    BY <1>12 DEF ClosesRelay, Go, InUse, durable, installed, HandlerOK, Live, Fenced
  <2> QED
    BY <2>1, <2>2, <2>3, <2>4, <2>5
<1>13. ASSUME Finishes PROVE RuntimeInvariant'
  <2>1. RuntimeTypeOK'
    <3>1. job \in Runs
      BY <1>13 DEF Finishes, WorkOK, JobPlaces
    <3>2. RunTypes'
      BY <1>13, <3>1 DEF Finishes, Outcomes, RunStates
    <3>3. sup' \in ThreadRecords
      BY <1>13 DEF Finishes
    <3> QED
      BY <3>1, <3>2, <3>3, <1>13 DEF Finishes, installed
  <2>2. ThreadsOK'
    BY <1>13 DEF Finishes, Outcomes, installed, ThreadsOK
  <2>3. WorkOK'
    BY <1>13 DEF Finishes, Outcomes, installed, WorkOK, JobPlaces, Executing
  <2>4. AuthorityOK'
    BY <1>13 DEF Finishes, Outcomes, installed, AuthorityOK, ThreadsOK, JobPlaces, Told, Up,
       Executing
  <2>5. \A k \in Handlers : HandlerOK(k)'
    BY <1>13 DEF Finishes, Outcomes, installed, HandlerOK, Live, Fenced
  <2> QED
    BY <2>1, <2>2, <2>3, <2>4, <2>5
<1> QED
  BY <1>1, <1>2, <1>3, <1>4, <1>5, <1>6, <1>7, <1>8, <1>9, <1>10, <1>11,
     <1>12, <1>13 DEF Supervision, Progress, Cleanup, Working

LEMMA RelayingKeeps ==
    ASSUME RuntimeInvariant, ScopeAssumption, \E h \in Handlers : Relaying(h)
    PROVE  RuntimeInvariant'
<1> USE DEF RuntimeInvariant, RuntimeTypeOK, RunTypes, InstalledTypes, ThreadTypes, HandlerTypes,
        ControlRecords, ThreadRecords, HandlerRecords
<1>1. ASSUME NEW h \in Handlers, Accepts(h) PROVE RuntimeInvariant'
  <2>1. RuntimeTypeOK'
    <3>1. [Idle EXCEPT !.pc = "accepted", !.run = job, !.generation = generation, !.config = config]
            \in HandlerRecords
      BY DEF Idle
    <3>2. handler' \in [Handlers -> HandlerRecords]
      BY <1>1, <3>1 DEF Accepts
    <3> QED
      BY <3>1, <3>2, <1>1 DEF Accepts, Unrelated, durable, installed
  <2>2. ThreadsOK'
    BY <1>1 DEF Accepts, At, Idle, Unrelated, durable, installed, ThreadsOK
  <2>3. WorkOK'
    BY <1>1 DEF Accepts, At, Idle, Unrelated, durable, installed, WorkOK
  <2>4. AuthorityOK'
    BY <1>1 DEF Accepts, At, Idle, Unrelated, durable, installed, AuthorityOK, Told, Up
  <2>5. \A k \in Handlers : HandlerOK(k)'
    BY <1>1, ScopeAssumption DEF Accepts, At, Idle, Unrelated, durable, installed, HandlerOK,
       ThreadsOK, WorkOK, AuthorityOK, JobPlaces, Live, Fenced, Executing, Up, RunStates
  <2> QED
    BY <2>1, <2>2, <2>3, <2>4, <2>5
<1>2. ASSUME NEW h \in Handlers, Reserves(h) PROVE RuntimeInvariant'
  <2>1. RuntimeTypeOK'
    <3>1. handler[h].run \in Runs
      BY <1>2 DEF Reserves, At, HandlerOK
    <3>2. RunTypes'
      BY <1>2, <3>1 DEF Reserves
    <3>3. HandlerTypes'
      BY <1>2 DEF Reserves, Becomes
    <3> QED
      BY <3>1, <3>2, <3>3, <1>2 DEF Reserves, Unrelated, installed
  <2>2. ThreadsOK'
    BY <1>2 DEF Reserves, At, Becomes, Unrelated, installed, ThreadsOK
  <2>3. WorkOK'
    BY <1>2 DEF Reserves, At, Becomes, Unrelated, installed, WorkOK
  <2>4. AuthorityOK'
    BY <1>2 DEF Reserves, At, Becomes, Unrelated, installed, AuthorityOK, Told, Up
  <2>5. \A k \in Handlers : HandlerOK(k)'
    BY <1>2 DEF Reserves, At, Becomes, Unrelated, installed, HandlerOK, Live, Fenced
  <2> QED
    BY <2>1, <2>2, <2>3, <2>4, <2>5
<1>3. ASSUME NEW h \in Handlers, Owns(h) PROVE RuntimeInvariant'
  <2>1. RuntimeTypeOK'
    BY <1>3 DEF Owns, At, Becomes, RelayOpen, Unrelated, durable, installed, RunStates,
       JobPlaces
  <2>2. ThreadsOK'
    BY <1>3 DEF Owns, At, Becomes, RelayOpen, Unrelated, durable, installed, ThreadsOK
  <2>3. WorkOK'
    BY <1>3 DEF Owns, At, Becomes, RelayOpen, Unrelated, durable, installed, WorkOK
  <2>4. AuthorityOK'
    BY <1>3 DEF Owns, At, Becomes, RelayOpen, Unrelated, durable, installed, AuthorityOK,
       Told, Up
  <2>5. \A k \in Handlers : HandlerOK(k)'
    BY <1>3 DEF Owns, At, Becomes, RelayOpen, Unrelated, durable, installed, HandlerOK,
       ThreadsOK, Live, Fenced
  <2> QED
    BY <2>1, <2>2, <2>3, <2>4, <2>5
<1>4. ASSUME NEW h \in Handlers, Sends(h) PROVE RuntimeInvariant'
  <2>1. RuntimeTypeOK'
    BY <1>4 DEF Sends, At, Becomes, Unrelated, durable, installed, RunStates, JobPlaces
  <2>2. ThreadsOK'
    BY <1>4 DEF Sends, At, Becomes, Unrelated, durable, installed, ThreadsOK
  <2>3. WorkOK'
    BY <1>4 DEF Sends, At, Becomes, Unrelated, durable, installed, WorkOK
  <2>4. AuthorityOK'
    BY <1>4 DEF Sends, At, Becomes, Unrelated, durable, installed, AuthorityOK, Told, Up
  <2>5. \A k \in Handlers : HandlerOK(k)'
    BY <1>4 DEF Sends, At, Becomes, Unrelated, durable, installed, HandlerOK, Live, Fenced
  <2> QED
    BY <2>1, <2>2, <2>3, <2>4, <2>5
<1>5. ASSUME NEW h \in Handlers, Reads(h) PROVE RuntimeInvariant'
  <2>1. RuntimeTypeOK'
    <3> DEFINE scanned == handler[h].generation > cleared
    <3>1. scanned \in BOOLEAN
      <4>1. \A a, b \in Nat : (a > b) \in BOOLEAN
        OBVIOUS
      <4>2. handler[h].generation \in Nat /\ cleared \in Nat
        OBVIOUS
      <4> QED
        BY <4>1, <4>2
    <3>2. handler' = [handler EXCEPT ![h].pc = "read", ![h].scanned = scanned]
      BY <1>5 DEF Reads
    <3>3. handler' \in [Handlers -> HandlerRecords]
      <4> HIDE DEF scanned
      <4>1. \A k \in HandlerRecords, b \in BOOLEAN :
               [k EXCEPT !.pc = "read", !.scanned = b] \in HandlerRecords
        OBVIOUS
      <4>2. handler' = [handler EXCEPT ![h] =
                           [handler[h] EXCEPT !.pc = "read", !.scanned = scanned]]
        BY <3>2
      <4>3. handler[h] \in HandlerRecords
        OBVIOUS
      <4>4. [handler[h] EXCEPT !.pc = "read", !.scanned = scanned] \in HandlerRecords
        BY <3>1, <4>1, <4>3
      <4> QED
        BY <4>2, <4>4
    <3> QED
      BY <1>5, <3>3 DEF Reads, Unrelated, durable, installed
  <2>2. ThreadsOK'
    BY <1>5 DEF Reads, At, Unrelated, durable, installed, ThreadsOK
  <2>3. WorkOK'
    BY <1>5 DEF Reads, At, Unrelated, durable, installed, WorkOK
  <2>4. AuthorityOK'
    BY <1>5 DEF Reads, At, Unrelated, durable, installed, AuthorityOK, Told, Up
  <2>5. \A k \in Handlers : HandlerOK(k)'
    BY <1>5 DEF Reads, At, Unrelated, durable, installed, HandlerOK, Live, Fenced
  <2> QED
    BY <2>1, <2>2, <2>3, <2>4, <2>5
<1>6. ASSUME NEW h \in Handlers, Passes(h) PROVE RuntimeInvariant'
  <2>1. RuntimeTypeOK'
    BY <1>6 DEF Passes, At, Becomes, Unrelated, durable, installed, RunStates, JobPlaces
  <2>2. ThreadsOK'
    BY <1>6 DEF Passes, At, Becomes, Unrelated, durable, installed, ThreadsOK
  <2>3. WorkOK'
    BY <1>6 DEF Passes, At, Becomes, Unrelated, durable, installed, WorkOK
  <2>4. AuthorityOK'
    BY <1>6 DEF Passes, At, Becomes, Unrelated, durable, installed, AuthorityOK, Told, Up
  <2>5. \A k \in Handlers : HandlerOK(k)'
    BY <1>6 DEF Passes, At, Becomes, Unrelated, durable, installed, HandlerOK, Live, Fenced
  <2> QED
    BY <2>1, <2>2, <2>3, <2>4, <2>5
<1>7. ASSUME NEW h \in Handlers, Answers(h) PROVE RuntimeInvariant'
  <2>1. RuntimeTypeOK'
    BY <1>7 DEF Answers, Idle, Unrelated, durable, installed, RunStates, JobPlaces
  <2>2. ThreadsOK'
    BY <1>7 DEF Answers, Idle, Unrelated, durable, installed, ThreadsOK
  <2>3. WorkOK'
    BY <1>7 DEF Answers, Idle, Unrelated, durable, installed, WorkOK
  <2>4. AuthorityOK'
    BY <1>7 DEF Answers, Idle, Unrelated, durable, installed, AuthorityOK, Told, Up
  <2>5. \A k \in Handlers : HandlerOK(k)'
    BY <1>7 DEF Answers, Idle, Unrelated, durable, installed, HandlerOK, Live, Fenced
  <2> QED
    BY <2>1, <2>2, <2>3, <2>4, <2>5
<1> QED
  BY <1>1, <1>2, <1>3, <1>4, <1>5, <1>6, <1>7 DEF Relaying

LEMMA RuntimeStarts == ScopeAssumption /\ Init => RuntimeInvariant
<1> SUFFICES ASSUME ScopeAssumption, Init PROVE RuntimeInvariant
  OBVIOUS
<1>1. RuntimeTypeOK
  BY DEF Init, RuntimeTypeOK, RunTypes, InstalledTypes, ThreadTypes, HandlerTypes, RunStates,
     JobPlaces, ControlRecords, ThreadRecords, HandlerRecords, Idle, NoThread, ScopeAssumption
<1>2. ThreadsOK /\ WorkOK /\ AuthorityOK
  BY DEF Init, ThreadsOK, WorkOK, AuthorityOK, NoThread, Idle, JobPlaces, Executing, Told, Up
<1>3. \A h \in Handlers : HandlerOK(h)
  BY DEF Init, HandlerOK, Idle, Live
<1> QED
  BY <1>1, <1>2, <1>3 DEF RuntimeInvariant

LEMMA RuntimeKeeps == ScopeAssumption /\ RuntimeInvariant /\ [Next]_vars => RuntimeInvariant'
<1> SUFFICES ASSUME ScopeAssumption, RuntimeInvariant, [Next]_vars PROVE RuntimeInvariant'
  OBVIOUS
<1>1. CASE Next
  BY <1>1, NativeKeeps, ControlKeeps, SupervisionKeeps, RelayingKeeps DEF Next
<1>2. CASE UNCHANGED vars
  BY <1>2 DEF vars, durable, installed, execution, RuntimeInvariant, RuntimeTypeOK, RunTypes,
     InstalledTypes, ThreadTypes, HandlerTypes, ThreadsOK, WorkOK, AuthorityOK, HandlerOK, Told, Up,
     Live, Fenced
<1> QED
  BY <1>1, <1>2

LEMMA RuntimeAlways == Spec => []RuntimeInvariant
<1>1. Init => RuntimeInvariant
  BY RuntimeStarts, ScopeAssumption
<1>2. RuntimeInvariant /\ [Next]_vars => RuntimeInvariant'
  BY RuntimeKeeps, ScopeAssumption
<1> QED
  BY <1>1, <1>2, PTL DEF Spec

-----------------------------------------------------------------------------
(* What the runtime process guarantees                                     *)

\* Whatever is configured while the relay works, and however many runs, handlers and
\* providers there are, bytes leave only under the authority of the run they are for,
\* only such runs can be started, and what comes back was searched for the key it was
\* asked with (authorize_configuration, reserve_model_request, OwnedUpstream).
THEOREM EgressAuthorized == Spec => []RelayAuthorized
<1>1. RuntimeInvariant => RelayAuthorized
  <2> SUFFICES ASSUME RuntimeInvariant PROVE RelayAuthorized
    OBVIOUS
  <2>1. EgressUnderAuthority
    BY DEF RuntimeInvariant, HandlerOK, WorkOK, JobPlaces, Live, EgressUnderAuthority
  <2>2. AuthorityMatches
    BY DEF RuntimeInvariant, AuthorityOK, AuthorityMatches
  <2>3. ResponsesScanned
    BY DEF RuntimeInvariant, HandlerOK, ResponsesScanned
  <2> QED
    BY <2>1, <2>2, <2>3 DEF RelayAuthorized
<1> QED
  BY <1>1, RuntimeAlways, PTL

\* As long as no worker and no connection outlasts its clean-up, a configuration is
\* replaced only when the supervisor ended and nothing of the old one is left
\* (configureModel: never replace a relay's configuration beside a live worker).
THEOREM ReplacedInQuiet == CleanupMayFail = FALSE => (Spec => QuietBeforeReplacement)
<1> SUFFICES ASSUME CleanupMayFail = FALSE PROVE Spec => QuietBeforeReplacement
  OBVIOUS
<1>1. RuntimeInvariant /\ [Next]_vars => [Replaces => Quiet]_vars
  <2> SUFFICES ASSUME RuntimeInvariant, Next, Replaces PROVE Quiet
    BY DEF Replaces, vars, installed
  <2>1. ControlInstalls
    BY DEF Next, Native, Control, Supervision, Progress, Cleanup, Working, Relaying, Replaces, Up,
       installed, Unrelated, Submit, Cancel, LoseFence, DeviceAnswers, Bootstrap, RefreshCatalog,
       Configure, Shutdown, Crash, Ends, StrayDies, ControlFences, ControlAuthorizes, ControlStops,
       ControlJoins, ControlGivesUp, ControlStarts, Acknowledge, Polls, Ticks, Picks, CheckFails,
       OpensRelay, Launches, ToolWaits, WorkerReports, WorkFails, AbortsEgress, Reaps, ClosesRelay,
       Finishes, Accepts, Reserves, Owns, Sends, Reads, Passes, Answers
  <2>2. sup.pc = "exited"
    BY <2>1 DEF ControlInstalls, RuntimeInvariant, ThreadsOK
  <2> QED
    BY <2>2 DEF Quiet, RuntimeInvariant, ThreadsOK, HandlerOK
<1> QED
  BY <1>1, RuntimeAlways, PTL DEF Spec, QuietBeforeReplacement

\* However many controllers are started and whatever the runtime of each did, none is
\* left behind by Quit or beside another, and no run by an acknowledged shutdown
\* (Controller.close, transport.rs:72, lib.rs:221).
THEOREM NothingLeftBehind == ProcessesSpec => []NothingOutlives
<1>1. ProcessesInit => Init /\ OwnerInit
  BY DEF ProcessesInit
<1>2. [ProcessesNext]_<<subject, vars, ownerVars>> => [Next]_vars /\ [OwnerNext]_ownerVars
  BY DEF ProcessesNext, RuntimeNext, HostNext
<1>3. RuntimeInvariant => NothingLeftRunning
  BY DEF RuntimeInvariant, WorkOK, NothingLeftRunning
<1> QED
  BY <1>1, <1>2, <1>3, RuntimeAlways, OneOwner, PTL DEF ProcessesSpec, Spec, OwnerSpec,
     NothingOutlives

-----------------------------------------------------------------------------
(* The life of a run                                                       *)

LEMMA StopIsStop ==
    ASSUME RunTypes, NEW R \in SUBSET Runs, run' = Stopped(R)
    PROVE  Lifecycle!Next
<1>1. PICK S \in SUBSET Runs : S = {r \in R : run[r] \in Lifecycle!Active}
  OBVIOUS
<1>2. Lifecycle!Stop(S)
  BY <1>1 DEF RunTypes, Stopped, Executing, Lifecycle!Stop, Lifecycle!In, Lifecycle!Active,
     Lifecycle!Executing
<1> QED
  BY <1>2 DEF Lifecycle!Next

LEMMA PickIsDispatch == RuntimeInvariant /\ Picks => Lifecycle!Next
<1> SUFFICES ASSUME RuntimeInvariant, Picks PROVE Lifecycle!Next
  OBVIOUS
<1> DEFINE Pending == {r \in Runs : run[r] = "queued"}
           Blocked(D) == [r \in Runs |-> IF r \in D THEN "blocked" ELSE run[r]]
<1> DEFINE Dispatched(D, S) ==
             /\ D \subseteq Pending /\ S \subseteq Pending \ D /\ \A x, y \in S : x = y
             /\ run' = [r \in Runs |-> IF r \in D THEN "blocked"
                                       ELSE IF r \in S THEN "running" ELSE run[r]]
<1>1. PICK D \in SUBSET Runs, S \in SUBSET Runs : Dispatched(D, S)
  <2>1. PICK X \in SUBSET (Pending \cap unfit) :
           \/ run' = Blocked(X)
           \/ \E r \in Pending \ unfit : run' = [Blocked(X) EXCEPT ![r] = "running"]
    BY DEF Picks
  <2>2. X \in SUBSET Runs
    OBVIOUS
  <2>3. CASE run' = Blocked(X)
    <3>1. Dispatched(X, {})
      BY <2>3
    <3>2. {} \in SUBSET Runs
      OBVIOUS
    <3> HIDE DEF Dispatched
    <3> QED
      BY <2>2, <3>1, <3>2
  <2>4. ASSUME NEW r \in Pending \ unfit, run' = [Blocked(X) EXCEPT ![r] = "running"]
        PROVE  \E D \in SUBSET Runs, S \in SUBSET Runs : Dispatched(D, S)
    <3>1. Dispatched(X, {r})
      BY <2>1, <2>4
    <3>2. {r} \in SUBSET Runs
      OBVIOUS
    <3> HIDE DEF Dispatched
    <3> QED
      BY <2>2, <3>1, <3>2
  <2> QED
    BY <2>1, <2>3, <2>4
<1>2. Lifecycle!In(Lifecycle!Executing) = {}
  BY DEF Picks, RuntimeInvariant, WorkOK, JobPlaces, Executing, Lifecycle!In, Lifecycle!Executing
<1>3. Lifecycle!Dispatch(D, S)
  BY <1>1, <1>2 DEF Lifecycle!Dispatch, Lifecycle!In
<1> QED
  BY <1>1, <1>3 DEF Lifecycle!Next

LEMMA FinishIsEnd == RuntimeInvariant /\ Finishes => Lifecycle!Next
<1> SUFFICES ASSUME RuntimeInvariant, Finishes PROVE Lifecycle!Next
  OBVIOUS
<1>1. job \in Runs /\ run[job] \in Executing /\ (sup.ok => run[job] # "waiting_for_device")
  BY DEF Finishes, RuntimeInvariant, WorkOK, JobPlaces
<1>2. PICK outcome \in Outcomes : run' = [run EXCEPT ![job] = outcome]
  BY DEF Finishes
<1>3. outcome \in CASE run[job] = "cancelling" -> {"cancelled"}
                    [] run[job] = "running" -> {"succeeded", "failed", "blocked"}
                    [] OTHER -> {"failed", "blocked"}
  BY <1>1, <1>2 DEF Outcomes, Executing
<1>4. Lifecycle!End(job)
  BY <1>1, <1>2, <1>3 DEF Lifecycle!End, Executing, Lifecycle!Executing
<1> QED
  BY <1>1, <1>4 DEF Lifecycle!Next

LEMMA RuntimeRefines == RuntimeInvariant /\ [Next]_vars => [Lifecycle!Next]_run
<1> SUFFICES ASSUME RuntimeInvariant, Next PROVE Lifecycle!Next \/ UNCHANGED run
  BY DEF vars, durable
<1>1. ASSUME NEW r \in Runs, Admit(r) PROVE Lifecycle!Next
  BY <1>1 DEF Admit, Lifecycle!Next, Lifecycle!Admit
<1>2. ASSUME NEW r \in Runs, Cancel(r) PROVE Lifecycle!Next
  BY <1>2, StopIsStop DEF Cancel, RuntimeInvariant, RuntimeTypeOK
<1>3. ASSUME NEW r \in Runs, DeviceAnswers(r) PROVE Lifecycle!Next
  BY <1>3 DEF DeviceAnswers, Lifecycle!Next, Lifecycle!Resume
<1>4. CASE ControlFences
  BY <1>4, StopIsStop DEF ControlFences, RuntimeInvariant, RuntimeTypeOK
<1>5. CASE ControlStarts
  BY <1>5 DEF ControlStarts, Executing, Lifecycle!Next, Lifecycle!Restart, Lifecycle!In,
     Lifecycle!Executing
<1>6. CASE Ticks
  BY <1>1, <1>6 DEF Ticks, durable
<1>7. CASE Picks
  BY <1>7, PickIsDispatch
<1>8. CASE ToolWaits
  <2>1. job \in Runs
    BY <1>8 DEF ToolWaits, RuntimeInvariant, WorkOK, JobPlaces
  <2> QED
    BY <1>8, <2>1 DEF ToolWaits, Lifecycle!Next, Lifecycle!Wait
<1>9. CASE Finishes
  BY <1>9, FinishIsEnd
<1> QED
  BY <1>1, <1>2, <1>3, <1>4, <1>5, <1>6, <1>7, <1>8, <1>9
  DEF Next, Native, Control, Supervision, Progress, Cleanup, Working, Relaying, durable, Unrelated,
      Submit, LoseFence, Bootstrap, RefreshCatalog, Configure, Shutdown, Crash, Ends, StrayDies,
      ControlAuthorizes, ControlStops, ControlJoins, ControlGivesUp, ControlInstalls, Acknowledge,
      Polls, CheckFails, OpensRelay, Launches, WorkerReports, WorkFails, AbortsEgress, Reaps,
      ClosesRelay, Accepts, Reserves, Owns, Sends, Reads, Passes, Answers

\* However the three threads interleave, a run is admitted once, dispatched while
\* nothing else executes and ends once, and no restart executes it again: every step
\* is one of the run lifecycle or leaves all runs as they are (create_run, start_next,
\* finish, recover).
THEOREM RuntimeImplementsLifecycle == Spec => ImplementsLifecycle
<1>1. Init => Lifecycle!Init
  BY DEF Init, Lifecycle!Init
<1> QED
  BY <1>1, RuntimeRefines, RuntimeAlways, PTL DEF Spec, ImplementsLifecycle, Lifecycle!Spec
=============================================================================
