--------------------------- MODULE SignInCallback ---------------------------
(***************************************************************************)
(* The wait for Google's answer to a sign-in: the attempt record behind a  *)
(* mutex (connectors/lifecycle.rs), the command and the thread that own a  *)
(* listening socket on the loopback interface (connectors/loopback.rs,     *)
(* connectors.rs), and everything that may connect to it.  What becomes of *)
(* the tokens is in Connectors.                                            *)
(*                                                                         *)
(* A tick of the clock is the second a request may take to be read.        *)
(***************************************************************************)
EXTENDS Naturals, Sequences, Absent

CONSTANTS Ports,         \* the ports the system gives, reused once they are free
          MaxAttempts,   \* bounds of the exploration: sign-ins,
          MaxClock,      \* ticks,
          MaxCalls,      \* and connections made to the sockets
          Timeout        \* CALLBACK_TIMEOUT

VARIABLES attempt,   \* the pending attempt, or Nil: lifecycle.rs:29
          phases,    \* the phase of each attempt; "expired" has failed for time
          wait,      \* the command, thread and task of each attempt
          backlog,   \* what connected at each port and was not accepted yet: a
                     \* whole request, or Nil for a probe that is yet to speak
          clock, calls

signInVars == <<attempt, phases, wait, backlog, clock, calls>>

Attempts == 1..MaxAttempts
PendingAttempts == [id : Attempts, port : Ports, deadline : Nat, active : BOOLEAN]

\* A request is read down to what the parser tells apart: its request line and
\* headers, the hosts it names, the path, the encoding of the query, and the
\* state, code and error parameters in it.  A state is named by the attempt it
\* was made for, 0 is any other text.
HttpRequests == [line : BOOLEAN, headers : BOOLEAN, hosts : Seq({"own", "other"}),
                 path : BOOLEAN, encoded : BOOLEAN, states : Seq(Nat),
                 codes : Seq({"code", "bad"}), errors : Seq({"denied", "empty"})]

ASSUME SignInAssumption ==
    /\ {MaxAttempts, MaxClock, MaxCalls, Timeout} \subseteq Nat /\ Timeout > 0
    /\ Nil \notin PendingAttempts \cup HttpRequests \cup Nat

-----------------------------------------------------------------------------
(* Requests *)

\* What the provider sends for an attempt
AnswerFor(g) ==
    [line |-> TRUE, headers |-> TRUE, hosts |-> <<"own">>, path |-> TRUE, encoded |-> TRUE,
     states |-> <<g>>, codes |-> <<"code">>, errors |-> <<>>]
DenialFor(g) == [AnswerFor(g) EXCEPT !.codes = <<>>, !.errors = <<"denied">>]

\* Variant: the state of the request is not compared.
MatchesAnyState(r, g) == r.path /\ r.encoded /\ Len(r.states) = 1

\* One string that is state and no other, however its name is encoded.
MatchesCallback(r, g) == r.path /\ r.encoded /\ r.states = <<g>>

ParseTarget(r, g) ==
    CASE MatchesCallback(r, g) /\ r.codes = <<>> /\ r.errors = <<"denied">> -> "denied"
      [] MatchesCallback(r, g) /\ r.codes = <<"code">> /\ r.errors = <<>> -> "code"
      [] OTHER -> "ignore"

ParseRequest(r, g) ==
    IF r.line /\ r.headers /\ r.hosts = <<"own">> THEN ParseTarget(r, g) ELSE "ignore"

\* What else reads like an answer to attempt g: one thing wrong at a time.
Probes(g) ==
    LET a == AnswerFor(g)
    IN  {[a EXCEPT !.line = FALSE], [a EXCEPT !.headers = FALSE], [a EXCEPT !.path = FALSE],
         [a EXCEPT !.encoded = FALSE], [a EXCEPT !.hosts = <<>>], [a EXCEPT !.hosts = <<"other">>],
         [a EXCEPT !.hosts = <<"own", "own">>], [a EXCEPT !.states = <<>>],
         [a EXCEPT !.states = <<g, g>>], [a EXCEPT !.states = <<0>>],
         [a EXCEPT !.codes = <<"code", "code">>], [a EXCEPT !.codes = <<"bad">>],
         [a EXCEPT !.errors = <<"denied">>], [DenialFor(g) EXCEPT !.errors = <<"empty">>],
         [DenialFor(g) EXCEPT !.states = <<0>>]}

-----------------------------------------------------------------------------
(* The attempt *)

PastDeadline == attempt # Nil /\ clock >= attempt.deadline
\* Variant: whatever attempt is pending will do.
AnyIsPending(g) == attempt # Nil
IsPending(g) == attempt # Nil /\ attempt.id = g
IsCurrent(g) == IsPending(g) /\ ~PastDeadline

\* An attempt that is no longer pending was cancelled, whatever ended it.
Stopped(g) == phases[g] # "none" /\ ~IsPending(g)

EndAttempt(phase) == attempt' = Nil /\ phases' = [phases EXCEPT ![attempt.id] = phase]

\* finish(): what is overdue fails for that, and another attempt is left alone.
FinishAttempt(g, phase) ==
    CASE PastDeadline -> EndAttempt("expired")
      [] IsCurrent(g) -> EndAttempt(phase)
      [] OTHER -> UNCHANGED <<attempt, phases>>

ExpireAttempt == PastDeadline /\ EndAttempt("expired") /\ UNCHANGED <<wait, backlog, clock, calls>>

CancelAttempt ==
    /\ attempt # Nil /\ ~PastDeadline /\ EndAttempt("cancelled")
    /\ UNCHANGED <<wait, backlog, clock, calls>>

\* The embedded browser may go to the callback address (browser.rs:312).
AllowsCallback(port, state) ==
    /\ attempt # Nil /\ attempt.active /\ clock < attempt.deadline
    /\ attempt.port = port /\ attempt.id = state

-----------------------------------------------------------------------------
(* The command *)

NotBegun == [at |-> "none", port |-> Nil, bound |-> FALSE, deadline |-> 0, since |-> 0,
           reading |-> Nil, taken |-> Nil, due |-> Nil]
StepAt(g, at) == wait[g].at = at
StepTo(g, at) == wait' = [wait EXCEPT ![g].at = at]
Bound(port) == \E g \in Attempts : wait[g].bound /\ wait[g].port = port

\* An attempt that is overdue makes room for the next.
StartSignIn(g, port) ==
    /\ StepAt(g, "none") /\ \A h \in 1..(g - 1) : ~StepAt(h, "none")
    /\ ~Bound(port) /\ (attempt = Nil \/ PastDeadline) /\ clock + Timeout < MaxClock
    /\ attempt' = [id |-> g, port |-> port, deadline |-> clock + Timeout, active |-> TRUE]
    /\ phases' = [h \in Attempts |-> IF h = g THEN "pending"
                                     ELSE IF IsPending(h) THEN "expired" ELSE phases[h]]
    /\ wait' = [wait EXCEPT ![g] = [NotBegun EXCEPT !.at = "launching", !.port = port,
                                                  !.bound = TRUE, !.deadline = clock + Timeout]]
    /\ UNCHANGED <<backlog, clock, calls>>

\* What was begun is finished before its socket is released.
LaunchAdmitted(g) ==
    /\ StepAt(g, "launching")
    /\ \/ IsCurrent(g) /\ StepTo(g, "opening") /\ UNCHANGED <<attempt, phases>>
       \/ StepTo(g, "closing") /\ FinishAttempt(g, "failed")
    /\ UNCHANGED <<backlog, clock, calls>>

LaunchEnds(g) ==
    /\ StepAt(g, "opening")
    /\ \/ IsCurrent(g) /\ StepTo(g, "waiting") /\ UNCHANGED <<attempt, phases>>
       \/ StepTo(g, "closing") /\ FinishAttempt(g, "failed")
       \/ /\ IsCurrent(g)                    \* no thread: its socket went with it
          /\ wait' = [wait EXCEPT ![g].at = "unspawned", ![g].bound = FALSE]
          /\ UNCHANGED <<attempt, phases>>
    /\ backlog' = IF wait'[g].bound THEN backlog ELSE [backlog EXCEPT ![wait[g].port] = <<>>]
    /\ UNCHANGED <<clock, calls>>

NotSpawned(g) ==
    /\ StepAt(g, "unspawned") /\ StepTo(g, "over") /\ FinishAttempt(g, "failed")
    /\ UNCHANGED <<backlog, clock, calls>>

-----------------------------------------------------------------------------
(* The thread *)

TimedOut(g) == clock >= wait[g].deadline

\* The wait ends when it is cancelled or late, or when the socket fails.
EndWait(g) == StepTo(g, "closing") /\ FinishAttempt(g, "failed") /\ UNCHANGED <<backlog, clock, calls>>
StopWaiting(g) == StepAt(g, "waiting") /\ (Stopped(g) \/ TimedOut(g)) /\ EndWait(g)
SocketFails(g) == StepAt(g, "waiting") /\ ~Stopped(g) /\ ~TimedOut(g) /\ EndWait(g)

Accept(g) ==
    /\ StepAt(g, "waiting") /\ ~Stopped(g) /\ ~TimedOut(g) /\ backlog[wait[g].port] # <<>>
    /\ wait' = [wait EXCEPT ![g].at = "reading", ![g].since = clock,
                            ![g].reading = Head(backlog[wait[g].port])]
    /\ backlog' = [backlog EXCEPT ![wait[g].port] = Tail(@)]
    /\ UNCHANGED <<attempt, phases, clock, calls>>

\* A connection that ends, fails, says too much or takes a second says nothing.
\* An answer that was sent whole does not, unless the wait itself is over.
GiveUpReading(g) ==
    /\ StepAt(g, "reading")
    /\ wait[g].reading = Nil \/ Stopped(g) \/ TimedOut(g)
    /\ wait' = [wait EXCEPT ![g].at = "waiting", ![g].reading = Nil]
    /\ UNCHANGED <<attempt, phases, backlog, clock, calls>>

ReadRequest(g) ==
    /\ StepAt(g, "reading") /\ ~Stopped(g) /\ ~TimedOut(g)
    /\ \E r \in IF wait[g].reading = Nil THEN Probes(g) ELSE {wait[g].reading} :
          LET result == ParseRequest(r, g)
          IN  /\ wait' = [wait EXCEPT ![g].reading = Nil,
                             ![g].at = CASE result = "ignore" -> "waiting"
                                         [] result = "denied" -> "closing"
                                         [] result = "code" -> "coded",
                             ![g].taken = IF result = "code" THEN r ELSE @]
              /\ IF result = "denied" THEN FinishAttempt(g, "failed")
                 ELSE UNCHANGED <<attempt, phases>>
    /\ UNCHANGED <<backlog, clock, calls>>

\* The embedded browser is refused before the socket is released.
Exchanging(g) ==
    /\ StepAt(g, "coded")
    /\ IF IsCurrent(g)
       THEN /\ attempt' = [attempt EXCEPT !.active = FALSE]
            /\ phases' = [phases EXCEPT ![g] = "exchanging"]
            /\ StepTo(g, "releasing")
       ELSE StepTo(g, "closing") /\ FinishAttempt(g, "failed")
    /\ UNCHANGED <<backlog, clock, calls>>

\* What had connected and was not accepted is lost.
Release(g) ==
    /\ StepAt(g, "closing") \/ StepAt(g, "releasing")
    /\ wait' = [wait EXCEPT ![g].bound = FALSE,
                            ![g].at = IF @ = "closing" THEN "over" ELSE "exchanging"]
    /\ backlog' = [backlog EXCEPT ![wait[g].port] = <<>>]
    /\ UNCHANGED <<attempt, phases, clock, calls>>

\* The tokens are committed by an attempt that is still current.
ExchangeEnds(g) ==
    /\ StepAt(g, "exchanging") /\ StepTo(g, "over")
    /\ FinishAttempt(g, "failed") \/ FinishAttempt(g, "connected")
    /\ UNCHANGED <<backlog, clock, calls>>

WaitSteps(g) ==
    \/ LaunchAdmitted(g) \/ LaunchEnds(g) \/ NotSpawned(g) \/ StopWaiting(g) \/ Accept(g)
    \/ GiveUpReading(g) \/ ReadRequest(g) \/ Exchanging(g) \/ Release(g) \/ ExchangeEnds(g)

-----------------------------------------------------------------------------
(* What connects, and the clock *)

Connect(port, request) ==
    /\ Bound(port) /\ calls < MaxCalls /\ calls' = calls + 1
    /\ backlog' = [backlog EXCEPT ![port] = Append(@, request)]
    /\ UNCHANGED <<attempt, phases, clock>>

\* Each connection before this one is read for a second at most.
TurnAt(g) ==
    clock + Len(backlog[wait[g].port]) + (IF StepAt(g, "reading") THEN 1 ELSE 0)

\* The provider answers an attempt whose page was opened, however late, at the
\* port that was its own; an answer may be sent again.
ProviderAnswers(g) ==
    /\ wait[g].at \notin {"none", "launching"}
    /\ \E r \in {AnswerFor(g), DenialFor(g)} : Connect(wait[g].port, r)
    /\ wait' = IF wait[g].at \in {"waiting", "reading"} /\ wait[g].due = Nil
               THEN [wait EXCEPT ![g].due = TurnAt(g)] ELSE wait

ProbeConnects(port) == Connect(port, Nil) /\ UNCHANGED wait

\* The thread takes less than a tick for what does not wait for others.
Prompt(g) ==
    /\ StepAt(g, "reading") => wait[g].since = clock /\ wait[g].reading = Nil
    /\ StepAt(g, "waiting") => ~Stopped(g) /\ ~TimedOut(g) /\ backlog[wait[g].port] = <<>>
    /\ wait[g].at \notin {"coded", "closing", "releasing", "unspawned"}

SecondPasses ==
    /\ clock < MaxClock /\ clock' = clock + 1
    /\ \A g \in Attempts : Prompt(g)
    /\ UNCHANGED <<attempt, phases, wait, backlog, calls>>

SignInInit ==
    /\ attempt = Nil /\ phases = [g \in Attempts |-> "none"]
    /\ wait = [g \in Attempts |-> NotBegun]
    /\ backlog = [p \in Ports |-> <<>>] /\ clock = 0 /\ calls = 0

SignInNext ==
    \/ \E g \in Attempts, p \in Ports : StartSignIn(g, p)
    \/ \E g \in Attempts : WaitSteps(g) \/ SocketFails(g) \/ ProviderAnswers(g)
    \/ \E p \in Ports : ProbeConnects(p)
    \/ ExpireAttempt \/ CancelAttempt \/ SecondPasses

SignInSpec == SignInInit /\ [][SignInNext]_signInVars
=============================================================================
