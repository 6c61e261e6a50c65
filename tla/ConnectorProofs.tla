-------------------------- MODULE ConnectorProofs --------------------------
(***************************************************************************)
(* The sign-in, for any number of attempts, ports and connections, and the *)
(* accounts, for any number of connections, refreshes, grants and reads.   *)
(*                                                                         *)
(* SignInSound is about codes, the browser and ends; what makes it hold is *)
(* who has a port and what is queued there.  A port that is bound is one   *)
(* attempt's (PortsOK), the pending attempt is one whose command or thread *)
(* has not ended it (AttemptOK), and an answer that is due is in the queue *)
(* at a place that is read in time, each probe before it costing a second  *)
(* (Coming, DueOK).                                                        *)
(*                                                                         *)
(* What the accounts promise holds because an operation under the lock may *)
(* count, at each of its steps, on what it found when it took the lock     *)
(* (LockOK), a connection that is being signed in was never stored before  *)
(* (AccountOK), a credential is no younger than the refresh that holds the *)
(* lease (SecretOK), and whatever withdrew the authority of a run took the *)
(* grant or fences the run as long as the grant lasts (AuthorityOK).       *)
(*                                                                         *)
(* On both sides the phase of a sign-in is the one its pending record and  *)
(* its task, or its thread, let it have (PhaseOK, SignInOK); then each step *)
(* is a step of SignInLifecycle or none.                                   *)
(***************************************************************************)
EXTENDS SignInRefinement, TLAPS

-----------------------------------------------------------------------------
(* Sign-ins *)

Phases == {"none", "pending", "exchanging", "expired", "cancelled", "failed", "connected"}
Holding == {"launching", "opening", "waiting", "reading", "coded", "closing", "releasing"}
WaitPlaces == Holding \cup {"none", "unspawned", "exchanging", "over"}
Waits == [at : WaitPlaces, port : Ports \cup {Nil}, bound : BOOLEAN, deadline : Nat, since : Nat,
          reading : HttpRequests \cup {Nil}, taken : HttpRequests \cup {Nil}, due : Nat \cup {Nil}]

SignInTypeOK ==
    /\ attempt \in PendingAttempts \cup {Nil} /\ phases \in [Attempts -> Phases]
    /\ wait \in [Attempts -> Waits] /\ backlog \in [Ports -> Seq(HttpRequests \cup {Nil})]
    /\ clock \in Nat

\* A port is held by one attempt, while its thread or its command may use it.
PortsOK ==
    \A g \in Attempts :
        /\ wait[g].bound <=> wait[g].at \in Holding
        /\ wait[g].bound => wait[g].port \in Ports
        /\ \A h \in Attempts :
              wait[g].bound /\ wait[h].bound /\ wait[g].port = wait[h].port => g = h

\* The pending attempt is one whose command or thread has not ended it.
AttemptOK ==
    attempt # Nil =>
        /\ attempt.port = wait[attempt.id].port
        /\ attempt.deadline = wait[attempt.id].deadline
        /\ wait[attempt.id].at \notin {"none", "closing", "over"}
        /\ attempt.active => wait[attempt.id].at \notin {"releasing", "exchanging"}

\* A request is read for a second at most; a code was taken of the attempt's own.
WaitOK(g) ==
    /\ wait[g].at = "reading" => wait[g].since <= clock /\ clock <= wait[g].since + 1
    /\ wait[g].at \in {"none", "launching", "opening", "unspawned"} => wait[g].due = Nil
    /\ wait[g].at \in {"coded", "releasing", "exchanging"} => wait[g].taken # Nil
    /\ wait[g].taken # Nil => wait[g].taken = AnswerFor(g)

OwnAnswers(g) == {AnswerFor(g), DenialFor(g)}
Queue(g) == backlog[wait[g].port]

\* The provider's answer, which is read before it is due
Coming(g) ==
    \/ /\ wait[g].at = "waiting"
       /\ \E i \in 1..Len(Queue(g)) : Queue(g)[i] \in OwnAnswers(g) /\ clock + i <= wait[g].due + 1
    \/ /\ wait[g].at = "reading"
       /\ \E i \in 1..Len(Queue(g)) :
             Queue(g)[i] \in OwnAnswers(g) /\ wait[g].since + i <= wait[g].due
    \/ wait[g].at = "reading" /\ wait[g].reading \in OwnAnswers(g) /\ clock <= wait[g].due

TooLate(g) == wait[g].taken = Nil /\ wait[g].due # Nil => wait[g].due >= wait[g].deadline

DueOK(g) ==
    /\ IsPending(g) => TooLate(g) \/ Coming(g)
    /\ phases[g] = "expired" => clock >= wait[g].deadline /\ TooLate(g)
    /\ wait[g].at = "none" => phases[g] = "none"

SignInInvariant ==
    /\ SignInTypeOK /\ PortsOK /\ AttemptOK
    /\ \A g \in Attempts : WaitOK(g) /\ DueOK(g)

-----------------------------------------------------------------------------
(* What is read *)

LEMMA AttemptsNumbered == Attempts \subseteq Nat \ {0} /\ Nil \notin Nat /\ Nil \notin HttpRequests
BY SignInAssumption DEF Attempts

LEMMA FieldsChange ==
    ASSUME NEW r \in HttpRequests, NEW yes \in BOOLEAN, NEW hosts \in Seq({"own", "other"}),
           NEW states \in Seq(Nat), NEW codes \in Seq({"code", "bad"}),
           NEW errors \in Seq({"denied", "empty"})
    PROVE  /\ [r EXCEPT !.line = yes] \in HttpRequests
           /\ [r EXCEPT !.headers = yes] \in HttpRequests
           /\ [r EXCEPT !.path = yes] \in HttpRequests
           /\ [r EXCEPT !.encoded = yes] \in HttpRequests
           /\ [r EXCEPT !.hosts = hosts] \in HttpRequests
           /\ [r EXCEPT !.states = states] \in HttpRequests
           /\ [r EXCEPT !.codes = codes] \in HttpRequests
           /\ [r EXCEPT !.errors = errors] \in HttpRequests
BY DEF HttpRequests

LEMMA AnswersTyped ==
    ASSUME NEW g \in Attempts
    PROVE  /\ AnswerFor(g) \in HttpRequests /\ DenialFor(g) \in HttpRequests
           /\ Probes(g) \subseteq HttpRequests
           /\ OwnAnswers(g) \subseteq HttpRequests
<1>1. g \in Nat
    BY AttemptsNumbered
<1>2. /\ <<>> \in Seq({"own", "other"}) /\ <<"own">> \in Seq({"own", "other"})
      /\ <<"other">> \in Seq({"own", "other"}) /\ <<"own", "own">> \in Seq({"own", "other"})
      /\ <<>> \in Seq({"code", "bad"}) /\ <<"code">> \in Seq({"code", "bad"})
      /\ <<"bad">> \in Seq({"code", "bad"}) /\ <<"code", "code">> \in Seq({"code", "bad"})
      /\ <<>> \in Seq({"denied", "empty"}) /\ <<"denied">> \in Seq({"denied", "empty"})
      /\ <<"empty">> \in Seq({"denied", "empty"})
    OBVIOUS
<1>3. <<>> \in Seq(Nat) /\ <<g>> \in Seq(Nat) /\ <<g, g>> \in Seq(Nat) /\ <<0>> \in Seq(Nat)
    BY <1>1
<1>4. AnswerFor(g) \in HttpRequests
    BY <1>2, <1>3 DEF AnswerFor, HttpRequests
<1>5. DenialFor(g) \in HttpRequests
    <2>1. [AnswerFor(g) EXCEPT !.codes = <<>>] \in HttpRequests
        BY <1>2, <1>4 DEF HttpRequests
    <2>2. DenialFor(g) = [[AnswerFor(g) EXCEPT !.codes = <<>>] EXCEPT !.errors = <<"denied">>]
        BY DEF DenialFor
    <2> QED
        BY <1>2, <2>1, <2>2 DEF HttpRequests
<1>6. Probes(g) \subseteq HttpRequests
    <2> DEFINE a == AnswerFor(g)
               d == DenialFor(g)
    <2>1. a \in HttpRequests /\ d \in HttpRequests
        BY <1>4, <1>5
    <2>2. Probes(g) = {[a EXCEPT !.line = FALSE], [a EXCEPT !.headers = FALSE],
             [a EXCEPT !.path = FALSE], [a EXCEPT !.encoded = FALSE], [a EXCEPT !.hosts = <<>>],
             [a EXCEPT !.hosts = <<"other">>], [a EXCEPT !.hosts = <<"own", "own">>],
             [a EXCEPT !.states = <<>>], [a EXCEPT !.states = <<g, g>>],
             [a EXCEPT !.states = <<0>>], [a EXCEPT !.codes = <<"code", "code">>],
             [a EXCEPT !.codes = <<"bad">>], [a EXCEPT !.errors = <<"denied">>],
             [d EXCEPT !.errors = <<"empty">>], [d EXCEPT !.states = <<0>>]}
        BY DEF Probes
    <2> HIDE DEF a, d
    <2>3. /\ [a EXCEPT !.line = FALSE] \in HttpRequests
          /\ [a EXCEPT !.headers = FALSE] \in HttpRequests
          /\ [a EXCEPT !.path = FALSE] \in HttpRequests
          /\ [a EXCEPT !.encoded = FALSE] \in HttpRequests
        BY <1>2, <1>3, <2>1, FieldsChange
    <2>4. /\ [a EXCEPT !.hosts = <<>>] \in HttpRequests
          /\ [a EXCEPT !.hosts = <<"other">>] \in HttpRequests
          /\ [a EXCEPT !.hosts = <<"own", "own">>] \in HttpRequests
        BY <1>2, <1>3, <2>1, FieldsChange
    <2>5. /\ [a EXCEPT !.states = <<>>] \in HttpRequests
          /\ [a EXCEPT !.states = <<g, g>>] \in HttpRequests
          /\ [a EXCEPT !.states = <<0>>] \in HttpRequests
          /\ [d EXCEPT !.states = <<0>>] \in HttpRequests
        BY <1>2, <1>3, <2>1, FieldsChange
    <2>6. /\ [a EXCEPT !.codes = <<"code", "code">>] \in HttpRequests
          /\ [a EXCEPT !.codes = <<"bad">>] \in HttpRequests
          /\ [a EXCEPT !.errors = <<"denied">>] \in HttpRequests
          /\ [d EXCEPT !.errors = <<"empty">>] \in HttpRequests
        BY <1>2, <1>3, <2>1, FieldsChange
    <2> QED
        BY <2>2, <2>3, <2>4, <2>5, <2>6
<1> QED
    BY <1>4, <1>5, <1>6 DEF OwnAnswers

\* A code is taken from the answer of the attempt and from nothing else.
LEMMA CodesOwned ==
    ASSUME NEW g \in Attempts, NEW r \in HttpRequests
    PROVE  /\ ParseRequest(r, g) \in {"ignore", "denied", "code"}
           /\ ParseRequest(r, g) = "code" => r = AnswerFor(g)
<1>1. ParseTarget(r, g) \in {"ignore", "denied", "code"}
    BY DEF ParseTarget
<1>2. ASSUME ParseRequest(r, g) = "code"
      PROVE  r = AnswerFor(g)
    <2>1. r.line /\ r.headers /\ r.hosts = <<"own">> /\ ParseTarget(r, g) = "code"
        BY <1>2 DEF ParseRequest
    <2>2. r.path /\ r.encoded /\ r.states = <<g>> /\ r.codes = <<"code">> /\ r.errors = <<>>
        <3> DEFINE denies == MatchesCallback(r, g) /\ r.codes = <<>> /\ r.errors = <<"denied">>
                   tells == MatchesCallback(r, g) /\ r.codes = <<"code">> /\ r.errors = <<>>
        <3>1. ParseTarget(r, g) = CASE denies -> "denied" [] tells -> "code" [] OTHER -> "ignore"
            BY DEF ParseTarget
        <3>2. denies \in BOOLEAN /\ tells \in BOOLEAN
            BY DEF MatchesCallback
        <3> HIDE DEF denies, tells
        <3>3. tells
            BY <2>1, <3>1, <3>2
        <3> QED
            BY <3>3 DEF tells, MatchesCallback
    <2>3. /\ r.line = TRUE /\ r.headers = TRUE /\ r.path = TRUE /\ r.encoded = TRUE
        BY <2>1, <2>2 DEF HttpRequests
    <2>4. r = [line |-> r.line, headers |-> r.headers, hosts |-> r.hosts, path |-> r.path,
               encoded |-> r.encoded, states |-> r.states, codes |-> r.codes, errors |-> r.errors]
        BY DEF HttpRequests
    <2> QED
        BY <2>1, <2>2, <2>3, <2>4 DEF AnswerFor
<1> QED
    BY <1>1, <1>2 DEF ParseRequest

LEMMA OwnAnswersParsed ==
    ASSUME NEW g \in Attempts, NEW r \in OwnAnswers(g)
    PROVE  ParseRequest(r, g) \in {"denied", "code"}
<1>1. CASE r = AnswerFor(g)
    <2>1. /\ r.line /\ r.headers /\ r.hosts = <<"own">> /\ r.path /\ r.encoded /\ r.states = <<g>>
          /\ r.codes = <<"code">> /\ r.errors = <<>>
        BY <1>1 DEF AnswerFor
    <2>2. <<"code">> # <<>>
        OBVIOUS
    <2> QED
        BY <2>1, <2>2 DEF ParseRequest, ParseTarget, MatchesCallback
<1>2. CASE r = DenialFor(g)
    <2>1. /\ r.line /\ r.headers /\ r.hosts = <<"own">> /\ r.path /\ r.encoded /\ r.states = <<g>>
          /\ r.codes = <<>> /\ r.errors = <<"denied">>
        BY <1>2 DEF DenialFor, AnswerFor
    <2> QED
        BY <2>1 DEF ParseRequest, ParseTarget, MatchesCallback
<1> QED
    BY <1>1, <1>2 DEF OwnAnswers

-----------------------------------------------------------------------------
(* What steps leave alone                                                  *)

\* finish() ends the attempt that is named, or one that is overdue.
PhaseMoves(h) ==
    \/ phases'[h] = phases[h]
    \/ IsPending(h) /\ ~IsPending(h)' /\ (phases'[h] = "expired" => PastDeadline)

LEMMA AttemptEnds ==
    ASSUME SignInTypeOK, attempt # Nil, NEW phase \in Phases, EndAttempt(phase),
           phase = "expired" => PastDeadline
    PROVE  /\ attempt' = Nil /\ phases' \in [Attempts -> Phases]
           /\ \A h \in Attempts : PhaseMoves(h) /\ ~IsPending(h)'
<1>1. attempt \in PendingAttempts /\ attempt.id \in Attempts
    BY DEF SignInTypeOK, PendingAttempts
<1>2. attempt' = Nil /\ phases' = [phases EXCEPT ![attempt.id] = phase]
    BY DEF EndAttempt
<1>3. \A h \in Attempts : ~IsPending(h)'
    BY <1>2 DEF IsPending
<1>4. \A h \in Attempts : phases'[h] = phases[h] \/ (IsPending(h) /\ phases'[h] = phase)
    BY <1>1, <1>2 DEF SignInTypeOK, IsPending
<1>5. phases' \in [Attempts -> Phases]
    BY <1>1, <1>2 DEF SignInTypeOK
<1> QED
    BY <1>2, <1>3, <1>4, <1>5 DEF PhaseMoves

LEMMA AttemptFinishes ==
    ASSUME SignInTypeOK, NEW g \in Attempts, NEW phase \in {"failed", "connected"},
           FinishAttempt(g, phase)
    PROVE  /\ attempt' \in {attempt, Nil} /\ phases' \in [Attempts -> Phases] /\ ~IsPending(g)'
           /\ \A h \in Attempts : PhaseMoves(h)
<1>1. CASE PastDeadline
    <2>1. EndAttempt("expired") /\ attempt # Nil /\ "expired" \in Phases
        BY <1>1 DEF FinishAttempt, IsCurrent, PastDeadline, Phases
    <2> QED
        BY <1>1, <2>1, AttemptEnds
<1>2. CASE ~PastDeadline /\ IsPending(g)
    <2>1. EndAttempt(phase) /\ attempt # Nil /\ phase \in Phases /\ phase # "expired"
        BY <1>2 DEF FinishAttempt, IsCurrent, IsPending, Phases
    <2> QED
        BY <2>1, AttemptEnds
<1>3. CASE ~PastDeadline /\ ~IsPending(g)
    <2>1. UNCHANGED <<attempt, phases>>
        BY <1>3 DEF FinishAttempt, IsCurrent
    <2> QED
        BY <1>3, <2>1 DEF SignInTypeOK, PhaseMoves, IsPending
<1> QED
    BY <1>1, <1>2, <1>3

\* An attempt that is overdue was not answered in time.
LEMMA OverdueStays ==
    ASSUME SignInInvariant, PastDeadline, NEW g \in Attempts, IsPending(g)
    PROVE  clock >= wait[g].deadline /\ TooLate(g)
<1>1. /\ attempt # Nil /\ attempt.id = g /\ wait[g] \in Waits /\ clock \in Nat
      /\ clock >= wait[g].deadline
    BY DEF IsPending, PastDeadline, SignInInvariant, SignInTypeOK, AttemptOK
<1>2. wait[g].deadline \in Nat /\ wait[g].since \in Nat
    BY <1>1 DEF Waits
<1>3. ASSUME wait[g].taken = Nil, wait[g].due # Nil
      PROVE  wait[g].due >= wait[g].deadline
    <2>1. wait[g].due \in Nat
        BY <1>1, <1>3 DEF Waits
    <2>2. TooLate(g) \/ Coming(g)
        BY DEF SignInInvariant, DueOK
    <2>3. wait[g].at = "reading" => wait[g].since <= clock /\ clock <= wait[g].since + 1
        BY DEF SignInInvariant, WaitOK
    <2>4. CASE TooLate(g)
        BY <1>3, <2>4 DEF TooLate
    <2>5. CASE Coming(g)
        <3>1. \/ \E i \in 1..Len(Queue(g)) : clock + i <= wait[g].due + 1
              \/ \E i \in 1..Len(Queue(g)) :
                    wait[g].at = "reading" /\ wait[g].since + i <= wait[g].due
              \/ clock <= wait[g].due
            BY <2>5 DEF Coming
        <3>2. clock <= wait[g].due
            <4>1. ASSUME NEW i \in 1..Len(Queue(g)), clock + i <= wait[g].due + 1
                  PROVE  clock <= wait[g].due
                BY <1>1, <2>1, <4>1
            <4>2. ASSUME NEW i \in 1..Len(Queue(g)), wait[g].at = "reading",
                         wait[g].since + i <= wait[g].due
                  PROVE  clock <= wait[g].due
                BY <1>1, <1>2, <2>1, <2>3, <4>2
            <4> QED
                BY <3>1, <4>1, <4>2
        <3> QED
            BY <1>1, <1>2, <2>1, <3>2
    <2> QED
        BY <2>2, <2>4, <2>5
<1> QED
    BY <1>1, <1>3 DEF TooLate

\* What waits in the queue of an attempt stays where it is.
KeepsQueue(h) ==
    \A i \in 1..Len(Queue(h)) : i \in 1..Len(Queue(h)') /\ Queue(h)'[i] = Queue(h)[i]

LEMMA OtherStays ==
    ASSUME SignInInvariant, NEW h \in Attempts, wait'[h] = wait[h], clock' = clock,
           IsPending(h)' => IsPending(h), PhaseMoves(h), wait[h].bound => KeepsQueue(h)
    PROVE  WaitOK(h)' /\ DueOK(h)'
<1>1. WaitOK(h) /\ DueOK(h) /\ PortsOK /\ AttemptOK
    BY DEF SignInInvariant
<1>2. WaitOK(h)'
    BY <1>1 DEF WaitOK
<1>3. TooLate(h)' <=> TooLate(h)
    BY DEF TooLate
<1>4. Coming(h) => Coming(h)'
    <2> SUFFICES ASSUME Coming(h) PROVE Coming(h)'
        OBVIOUS
    <2>1. wait[h].at \in {"waiting", "reading"}
        BY DEF Coming
    <2>2. KeepsQueue(h)
        BY <1>1, <2>1 DEF PortsOK, Holding
    <2> DEFINE q == Queue(h)
               r == Queue(h)'
    <2>3. \A i \in 1..Len(q) : i \in 1..Len(r) /\ r[i] = q[i]
        BY <2>2 DEF KeepsQueue
    <2>4. Coming(h) <=>
            \/ /\ wait[h].at = "waiting"
               /\ \E i \in 1..Len(q) : q[i] \in OwnAnswers(h) /\ clock + i <= wait[h].due + 1
            \/ /\ wait[h].at = "reading"
               /\ \E i \in 1..Len(q) : q[i] \in OwnAnswers(h) /\ wait[h].since + i <= wait[h].due
            \/ wait[h].at = "reading" /\ wait[h].reading \in OwnAnswers(h) /\ clock <= wait[h].due
        BY Zenon DEF Coming
    <2>5. Coming(h)' <=>
            \/ /\ wait'[h].at = "waiting"
               /\ \E i \in 1..Len(r) : r[i] \in OwnAnswers(h) /\ clock' + i <= wait'[h].due + 1
            \/ /\ wait'[h].at = "reading"
               /\ \E i \in 1..Len(r) : r[i] \in OwnAnswers(h) /\ wait'[h].since + i <= wait'[h].due
            \/ /\ wait'[h].at = "reading" /\ wait'[h].reading \in OwnAnswers(h)
               /\ clock' <= wait'[h].due
        BY DEF Coming
    <2> HIDE DEF q, r
    <2> QED
        BY <2>3, <2>4, <2>5
<1>5. IsPending(h)' => TooLate(h)' \/ Coming(h)'
    BY <1>1, <1>3, <1>4 DEF DueOK
<1>6. phases'[h] = "expired" => clock' >= wait'[h].deadline /\ TooLate(h)'
    <2>1. CASE phases'[h] = phases[h]
        BY <1>1, <1>3, <2>1 DEF DueOK
    <2>2. CASE IsPending(h) /\ ~IsPending(h)' /\ (phases'[h] = "expired" => PastDeadline)
        <3>1. phases'[h] = "expired" => clock >= wait[h].deadline /\ TooLate(h)
            BY <2>2, OverdueStays
        <3> QED
            BY <1>3, <3>1
    <2> QED
        BY <2>1, <2>2 DEF PhaseMoves
<1>7. wait'[h].at = "none" => phases'[h] = "none"
    BY <1>1 DEF DueOK, PhaseMoves, IsPending, AttemptOK
<1> QED
    BY <1>2, <1>5, <1>6, <1>7 DEF DueOK

\* A step of one attempt that begins none
LEMMA RecordMoves ==
    ASSUME SignInInvariant, NEW g \in Attempts, wait' \in [Attempts -> Waits],
           \A h \in Attempts \ {g} : wait'[h] = wait[h], clock' = clock,
           backlog' \in [Ports -> Seq(HttpRequests \cup {Nil})],
           \A h \in Attempts \ {g} : wait[h].bound => KeepsQueue(h),
           attempt' \in {attempt, Nil}, phases' \in [Attempts -> Phases],
           \A h \in Attempts : PhaseMoves(h),
           wait'[g].port = wait[g].port, wait'[g].deadline = wait[g].deadline,
           wait'[g].bound <=> wait'[g].at \in Holding, wait'[g].bound => wait[g].bound,
           IsPending(g)' => /\ wait'[g].at \notin {"none", "closing", "over"}
                            /\ attempt.active => wait'[g].at \notin {"releasing", "exchanging"},
           WaitOK(g)', DueOK(g)'
    PROVE  SignInInvariant'
<1>1. SignInTypeOK /\ PortsOK /\ AttemptOK
    BY DEF SignInInvariant
<1>2. SignInTypeOK'
    BY <1>1 DEF SignInTypeOK
<1>3. \A h \in Attempts : /\ wait'[h].port = wait[h].port
                          /\ wait'[h].deadline = wait[h].deadline
                          /\ wait'[h].bound => wait[h].bound
                          /\ wait'[h].bound <=> wait'[h].at \in Holding
    BY <1>1 DEF PortsOK
<1>4. PortsOK'
    BY <1>1, <1>3 DEF PortsOK
<1>5. AttemptOK'
    <2> SUFFICES ASSUME attempt' # Nil
                 PROVE  /\ attempt'.port = wait'[attempt'.id].port
                        /\ attempt'.deadline = wait'[attempt'.id].deadline
                        /\ wait'[attempt'.id].at \notin {"none", "closing", "over"}
                        /\ attempt'.active =>
                              wait'[attempt'.id].at \notin {"releasing", "exchanging"}
        BY DEF AttemptOK
    <2>1. attempt' = attempt /\ attempt.id \in Attempts
        BY <1>1 DEF SignInTypeOK, PendingAttempts
    <2>2. /\ attempt.port = wait[attempt.id].port /\ attempt.deadline = wait[attempt.id].deadline
          /\ wait[attempt.id].at \notin {"none", "closing", "over"}
          /\ attempt.active => wait[attempt.id].at \notin {"releasing", "exchanging"}
        BY <1>1, <2>1 DEF AttemptOK
    <2>3. CASE attempt.id = g
        BY <1>3, <2>1, <2>2, <2>3 DEF IsPending
    <2>4. CASE attempt.id # g
        BY <1>3, <2>1, <2>2, <2>4
    <2> QED
        BY <2>3, <2>4
<1>6. ASSUME NEW h \in Attempts
      PROVE  WaitOK(h)' /\ DueOK(h)'
    <2>1. CASE h # g
        <3>1. IsPending(h)' => IsPending(h)
            BY DEF IsPending
        <3> QED
            BY <2>1, <3>1, OtherStays
    <2> QED
        BY <2>1
<1> QED
    BY <1>2, <1>4, <1>5, <1>6 DEF SignInInvariant

\* The bounds of a record whose place changes
LEMMA PlaceChanges ==
    ASSUME NEW w \in Waits, NEW at \in WaitPlaces
    PROVE  /\ [w EXCEPT !.at = at] \in Waits /\ [w EXCEPT !.at = at].at = at
           /\ [w EXCEPT !.at = at].port = w.port /\ [w EXCEPT !.at = at].bound = w.bound
           /\ [w EXCEPT !.at = at].deadline = w.deadline
           /\ [w EXCEPT !.at = at].since = w.since /\ [w EXCEPT !.at = at].reading = w.reading
           /\ [w EXCEPT !.at = at].taken = w.taken /\ [w EXCEPT !.at = at].due = w.due
BY DEF Waits

\* The attempt a step ends: its command or thread does no more for it.
LEMMA EndingKeepsSignIn ==
    ASSUME SignInInvariant, NEW g \in Attempts, NEW phase \in {"failed", "connected"},
           FinishAttempt(g, phase), NEW w \in Waits, wait' = [wait EXCEPT ![g] = w],
           wait[g].at # "none", w.at \in {"closing", "over"}, w.at = "closing" <=> wait[g].bound,
           w.bound = wait[g].bound, w.port = wait[g].port, w.deadline = wait[g].deadline,
           w.due = wait[g].due, w.taken = wait[g].taken, UNCHANGED <<backlog, clock>>
    PROVE  SignInInvariant'
<1>1. SignInTypeOK /\ WaitOK(g) /\ DueOK(g)
    BY DEF SignInInvariant
<1>2. /\ attempt' \in {attempt, Nil} /\ phases' \in [Attempts -> Phases] /\ ~IsPending(g)'
      /\ \A h \in Attempts : PhaseMoves(h)
    BY <1>1, AttemptFinishes
<1>3. /\ wait' \in [Attempts -> Waits] /\ wait'[g] = w
      /\ \A h \in Attempts \ {g} : wait'[h] = wait[h]
    BY <1>1 DEF SignInTypeOK
<1>4. \A h \in Attempts \ {g} : wait[h].bound => KeepsQueue(h)
    BY <1>3 DEF KeepsQueue, Queue
<1>5. w.bound <=> w.at \in Holding
    BY DEF Holding
<1>6. WaitOK(g)'
    BY <1>1, <1>3 DEF WaitOK
<1>7. TooLate(g)' <=> TooLate(g)
    BY <1>3 DEF TooLate
<1>8. DueOK(g)'
    <2>1. phases'[g] = "expired" => clock >= wait[g].deadline /\ TooLate(g)
        <3>1. CASE phases'[g] = phases[g]
            BY <1>1, <3>1 DEF DueOK
        <3>2. CASE IsPending(g) /\ (phases'[g] = "expired" => PastDeadline)
            BY <3>2, OverdueStays
        <3> QED
            BY <1>2, <3>1, <3>2 DEF PhaseMoves
    <2> QED
        BY <1>2, <1>3, <1>7, <2>1 DEF DueOK
<1>9. backlog' \in [Ports -> Seq(HttpRequests \cup {Nil})]
    BY <1>1 DEF SignInTypeOK
<1> QED
    BY <1>2, <1>3, <1>4, <1>5, <1>6, <1>8, <1>9, RecordMoves

\* A port that changes for the attempt that holds it, or that takes one more
LEMMA OthersKeepQueues ==
    ASSUME SignInInvariant, NEW g \in Attempts, wait[g].bound, NEW left,
           backlog' = [backlog EXCEPT ![wait[g].port] = left],
           \A h \in Attempts \ {g} : wait'[h] = wait[h]
    PROVE  \A h \in Attempts \ {g} : wait[h].bound => KeepsQueue(h)
<1> SUFFICES ASSUME NEW h \in Attempts \ {g}, wait[h].bound
             PROVE  KeepsQueue(h)
    OBVIOUS
<1>1. wait[h].port \in Ports /\ wait[h].port # wait[g].port
    BY DEF SignInInvariant, PortsOK
<1>2. Queue(h)' = Queue(h)
    BY <1>1 DEF Queue, SignInInvariant, SignInTypeOK
<1> QED
    BY <1>2 DEF KeepsQueue

LEMMA QueueGrows ==
    ASSUME SignInTypeOK, NEW p \in Ports, NEW request \in HttpRequests \cup {Nil},
           backlog' = [backlog EXCEPT ![p] = Append(@, request)],
           NEW h \in Attempts, wait[h].port \in Ports, wait'[h].port = wait[h].port
    PROVE  /\ KeepsQueue(h)
           /\ wait[h].port = p => /\ Len(Queue(h)) \in Nat /\ Len(Queue(h)') = Len(Queue(h)) + 1
                                  /\ Queue(h)'[Len(Queue(h)) + 1] = request
<1> DEFINE q == Queue(h)
<1>1. q \in Seq(HttpRequests \cup {Nil})
    BY DEF Queue, SignInTypeOK
<1>2. Queue(h)' = IF wait[h].port = p THEN Append(q, request) ELSE q
    BY DEF Queue, SignInTypeOK
<1> HIDE DEF q
<1>3. /\ \A i \in 1..Len(q) : i \in 1..Len(Append(q, request)) /\ Append(q, request)[i] = q[i]
      /\ Len(q) \in Nat /\ Len(Append(q, request)) = Len(q) + 1
      /\ Append(q, request)[Len(q) + 1] = request
    BY <1>1
<1>4. q = Queue(h)
    BY DEF q
<1> QED
    BY <1>2, <1>3, <1>4 DEF KeepsQueue

LEMMA QueueTyped ==
    ASSUME SignInTypeOK, NEW p, NEW left \in Seq(HttpRequests \cup {Nil}),
           backlog' = [backlog EXCEPT ![p] = left]
    PROVE  backlog' \in [Ports -> Seq(HttpRequests \cup {Nil})]
BY DEF SignInTypeOK

\* A step of the command or thread of an attempt, which goes on
LEMMA WaitMoves ==
    ASSUME SignInInvariant, NEW g \in Attempts, NEW w \in Waits, wait' = [wait EXCEPT ![g] = w],
           UNCHANGED <<attempt, phases, clock>>,
           backlog' \in [Ports -> Seq(HttpRequests \cup {Nil})],
           \A h \in Attempts \ {g} : wait[h].bound => KeepsQueue(h),
           w.port = wait[g].port, w.deadline = wait[g].deadline,
           w.bound <=> w.at \in Holding, w.bound => wait[g].bound, w.at # "none",
           IsPending(g) => /\ w.at \notin {"closing", "over"}
                           /\ attempt.active => w.at \notin {"releasing", "exchanging"},
           WaitOK(g)', IsPending(g) => TooLate(g)' \/ Coming(g)',
           phases[g] = "expired" => TooLate(g)'
    PROVE  SignInInvariant'
<1>1. SignInTypeOK /\ DueOK(g)
    BY DEF SignInInvariant
<1>2. /\ wait' \in [Attempts -> Waits] /\ wait'[g] = w
      /\ \A h \in Attempts \ {g} : wait'[h] = wait[h]
    BY <1>1 DEF SignInTypeOK
<1>3. IsPending(g)' => IsPending(g)
    BY DEF IsPending
<1>4. DueOK(g)'
    BY <1>1, <1>2, <1>3 DEF DueOK
<1>5. /\ attempt' \in {attempt, Nil} /\ phases' \in [Attempts -> Phases]
      /\ \A h \in Attempts : PhaseMoves(h)
    BY <1>1 DEF SignInTypeOK, PhaseMoves
<1> QED
    BY <1>2, <1>3, <1>4, <1>5, RecordMoves

-----------------------------------------------------------------------------
(* Each step                                                               *)

LEMMA FinishingKeeps ==
    ASSUME SignInInvariant, NEW g \in Attempts, NEW phase \in {"failed", "connected"},
           FinishAttempt(g, phase), NEW at \in {"closing", "over"}, StepTo(g, at),
           wait[g].at # "none", at = "closing" <=> wait[g].bound, UNCHANGED <<backlog, clock>>
    PROVE  SignInInvariant'
<1> DEFINE w == [wait[g] EXCEPT !.at = at]
<1>1. wait[g] \in Waits /\ at \in WaitPlaces
    BY DEF SignInInvariant, SignInTypeOK, WaitPlaces, Holding
<1>2. /\ w \in Waits /\ w.at = at /\ w.bound = wait[g].bound /\ w.port = wait[g].port
      /\ w.deadline = wait[g].deadline /\ w.due = wait[g].due /\ w.taken = wait[g].taken
    BY <1>1, PlaceChanges
<1>3. wait' = [wait EXCEPT ![g] = w]
    BY DEF StepTo
<1> HIDE DEF w
<1> QED
    BY <1>2, <1>3, EndingKeepsSignIn

LEMMA GoingOnKeeps ==
    ASSUME SignInInvariant, NEW g \in Attempts, NEW at \in {"opening", "waiting"}, StepTo(g, at),
           wait[g].at \in {"launching", "opening"}, UNCHANGED <<attempt, phases, backlog, clock>>
    PROVE  SignInInvariant'
<1> DEFINE w == [wait[g] EXCEPT !.at = at]
<1>1. /\ wait[g] \in Waits /\ at \in WaitPlaces /\ SignInTypeOK /\ PortsOK /\ WaitOK(g)
    BY DEF SignInInvariant, SignInTypeOK, WaitPlaces, Holding
<1>2. /\ w \in Waits /\ w.at = at /\ w.bound = wait[g].bound /\ w.port = wait[g].port
      /\ w.deadline = wait[g].deadline /\ w.due = wait[g].due /\ w.taken = wait[g].taken
    BY <1>1, PlaceChanges
<1>3. wait' = [wait EXCEPT ![g] = w]
    BY DEF StepTo
<1> HIDE DEF w
<1>4. wait'[g] = w /\ \A h \in Attempts \ {g} : wait'[h] = wait[h]
    BY <1>1, <1>3 DEF SignInTypeOK
<1>5. wait[g].due = Nil /\ wait[g].bound
    BY <1>1 DEF WaitOK, PortsOK, Holding
<1>6. WaitOK(g)' /\ TooLate(g)'
    BY <1>1, <1>2, <1>4, <1>5 DEF WaitOK, TooLate
<1>7. \A h \in Attempts \ {g} : wait[h].bound => KeepsQueue(h)
    BY <1>4 DEF KeepsQueue, Queue
<1>8. backlog' \in [Ports -> Seq(HttpRequests \cup {Nil})]
    BY <1>1 DEF SignInTypeOK
<1>9. w.at \in Holding
    BY <1>2 DEF Holding
<1> QED
    BY <1>2, <1>3, <1>5, <1>6, <1>7, <1>8, <1>9, WaitMoves

LEMMA LaunchingKeeps ==
    ASSUME SignInInvariant, NEW g \in Attempts, LaunchAdmitted(g) \/ LaunchEnds(g) \/ NotSpawned(g)
    PROVE  SignInInvariant'
<1>1. SignInTypeOK /\ PortsOK /\ WaitOK(g) /\ wait[g] \in Waits
    BY DEF SignInInvariant, SignInTypeOK
<1>2. CASE LaunchAdmitted(g)
    <2>1. wait[g].at = "launching" /\ wait[g].bound /\ UNCHANGED <<backlog, clock>>
        BY <1>1, <1>2 DEF LaunchAdmitted, StepAt, PortsOK, Holding
    <2>2. CASE StepTo(g, "opening") /\ UNCHANGED <<attempt, phases>>
        BY <2>1, <2>2, GoingOnKeeps
    <2>3. CASE StepTo(g, "closing") /\ FinishAttempt(g, "failed")
        BY <2>1, <2>3, FinishingKeeps
    <2> QED
        BY <1>2, <2>2, <2>3 DEF LaunchAdmitted
<1>3. CASE NotSpawned(g)
    <2>1. /\ wait[g].at = "unspawned" /\ ~wait[g].bound /\ UNCHANGED <<backlog, clock>>
          /\ StepTo(g, "over") /\ FinishAttempt(g, "failed")
        BY <1>1, <1>3 DEF NotSpawned, StepAt, PortsOK, Holding
    <2> QED
        BY <2>1, FinishingKeeps
<1>4. CASE LaunchEnds(g)
    <2>1. wait[g].at = "opening" /\ wait[g].bound /\ wait[g].due = Nil /\ UNCHANGED clock
        BY <1>1, <1>4 DEF LaunchEnds, StepAt, PortsOK, Holding, WaitOK
    <2>2. backlog' = IF wait'[g].bound THEN backlog ELSE [backlog EXCEPT ![wait[g].port] = <<>>]
        BY <1>4 DEF LaunchEnds
    <2>3. ASSUME NEW at, StepTo(g, at)
          PROVE  UNCHANGED backlog
        <3>1. wait'[g].bound = wait[g].bound
            BY <1>1, <2>3 DEF StepTo, SignInTypeOK, Waits
        <3> QED
            BY <2>1, <2>2, <3>1
    <2>4. CASE StepTo(g, "waiting") /\ UNCHANGED <<attempt, phases>>
        BY <2>1, <2>3, <2>4, GoingOnKeeps
    <2>5. CASE StepTo(g, "closing") /\ FinishAttempt(g, "failed")
        BY <2>1, <2>3, <2>5, FinishingKeeps
    <2>6. CASE /\ wait' = [wait EXCEPT ![g].at = "unspawned", ![g].bound = FALSE]
               /\ UNCHANGED <<attempt, phases>>
        <3> DEFINE w == [wait[g] EXCEPT !.at = "unspawned", !.bound = FALSE]
        <3>1. /\ w \in Waits /\ w.at = "unspawned" /\ ~w.bound /\ w.port = wait[g].port
              /\ w.deadline = wait[g].deadline /\ w.due = wait[g].due /\ w.taken = wait[g].taken
            BY <1>1 DEF Waits, WaitPlaces
        <3>2. wait' = [wait EXCEPT ![g] = w]
            BY <2>6
        <3> HIDE DEF w
        <3>3. wait'[g] = w /\ \A h \in Attempts \ {g} : wait'[h] = wait[h]
            BY <1>1, <3>2 DEF SignInTypeOK
        <3>4. backlog' = [backlog EXCEPT ![wait[g].port] = <<>>]
            BY <2>2, <3>1, <3>3
        <3>5. backlog' \in [Ports -> Seq(HttpRequests \cup {Nil})]
            <4>1. <<>> \in Seq(HttpRequests \cup {Nil})
                OBVIOUS
            <4> QED
                BY <1>1, <3>4, <4>1, QueueTyped
        <3>6. \A h \in Attempts \ {g} : wait[h].bound => KeepsQueue(h)
            BY <2>1, <3>3, <3>4, OthersKeepQueues
        <3>7. WaitOK(g)' /\ TooLate(g)'
            BY <1>1, <2>1, <3>1, <3>3 DEF WaitOK, TooLate
        <3>8. w.at \notin Holding
            BY <3>1 DEF Holding
        <3> QED
            BY <2>1, <2>6, <3>1, <3>2, <3>5, <3>6, <3>7, <3>8, WaitMoves
    <2> QED
        BY <1>4, <2>4, <2>5, <2>6 DEF LaunchEnds
<1> QED
    BY <1>2, <1>3, <1>4

LEMMA WaitEndKeeps ==
    ASSUME SignInInvariant, NEW g \in Attempts,
           StopWaiting(g) \/ SocketFails(g) \/ ExchangeEnds(g)
    PROVE  SignInInvariant'
<1>1. PortsOK
    BY DEF SignInInvariant
<1>2. CASE StopWaiting(g) \/ SocketFails(g)
    <2>1. /\ wait[g].at = "waiting" /\ StepTo(g, "closing") /\ FinishAttempt(g, "failed")
          /\ UNCHANGED <<backlog, clock>>
        BY <1>2 DEF StopWaiting, SocketFails, StepAt, EndWait
    <2>2. wait[g].bound
        BY <1>1, <2>1 DEF PortsOK, Holding
    <2> QED
        BY <2>1, <2>2, FinishingKeeps
<1>3. CASE ExchangeEnds(g)
    <2>1. /\ wait[g].at = "exchanging" /\ StepTo(g, "over") /\ UNCHANGED <<backlog, clock>>
          /\ FinishAttempt(g, "failed") \/ FinishAttempt(g, "connected")
        BY <1>3 DEF ExchangeEnds, StepAt
    <2>2. ~wait[g].bound
        BY <1>1, <2>1 DEF PortsOK, Holding
    <2> QED
        BY <2>1, <2>2, FinishingKeeps
<1> QED
    BY <1>2, <1>3

\* What is next in the queue is read; what comes behind moves up by one.
LEMMA AcceptingKeeps ==
    ASSUME SignInInvariant, NEW g \in Attempts, Accept(g)
    PROVE  SignInInvariant'
<1> DEFINE q == backlog[wait[g].port]
           w == [wait[g] EXCEPT !.at = "reading", !.since = clock, !.reading = Head(q)]
<1>1. /\ SignInTypeOK /\ PortsOK /\ WaitOK(g) /\ DueOK(g) /\ wait[g] \in Waits /\ clock \in Nat
      /\ wait[g].at = "waiting" /\ q # <<>> /\ UNCHANGED <<attempt, phases, clock>>
    BY DEF SignInInvariant, SignInTypeOK, Accept, StepAt
<1>2. wait[g].bound /\ wait[g].port \in Ports
    BY <1>1 DEF PortsOK, Holding
<1>3. q \in Seq(HttpRequests \cup {Nil}) /\ q = Queue(g)
    BY <1>1, <1>2 DEF SignInTypeOK, Queue
<1>4. /\ wait' = [wait EXCEPT ![g] = w]
      /\ backlog' = [backlog EXCEPT ![wait[g].port] = Tail(q)]
    BY DEF Accept
<1> HIDE DEF q
<1>5. /\ Head(q) \in HttpRequests \cup {Nil} /\ Tail(q) \in Seq(HttpRequests \cup {Nil})
      /\ Len(q) \in Nat \ {0} /\ Len(Tail(q)) = Len(q) - 1 /\ Head(q) = q[1]
      /\ \A i \in 1..Len(Tail(q)) : Tail(q)[i] = q[i + 1]
    BY <1>1, <1>3
<1>6. /\ w \in Waits /\ w.at = "reading" /\ w.since = clock /\ w.reading = Head(q)
      /\ w.bound = wait[g].bound /\ w.port = wait[g].port /\ w.deadline = wait[g].deadline
      /\ w.due = wait[g].due /\ w.taken = wait[g].taken
    BY <1>1, <1>5 DEF Waits, WaitPlaces, Holding
<1> HIDE DEF w
<1>7. wait'[g] = w /\ \A h \in Attempts \ {g} : wait'[h] = wait[h]
    BY <1>1, <1>4 DEF SignInTypeOK
<1>8. backlog' \in [Ports -> Seq(HttpRequests \cup {Nil})]
    BY <1>1, <1>4, <1>5, QueueTyped
<1>9. \A h \in Attempts \ {g} : wait[h].bound => KeepsQueue(h)
    BY <1>2, <1>4, <1>7, OthersKeepQueues
<1>10. Queue(g)' = Tail(q)
    BY <1>1, <1>2, <1>4, <1>6, <1>7 DEF Queue, SignInTypeOK
<1>11. WaitOK(g)'
    BY <1>1, <1>6, <1>7 DEF WaitOK
<1>12. TooLate(g)' <=> TooLate(g)
    BY <1>6, <1>7 DEF TooLate
<1>13. ASSUME Coming(g), ~TooLate(g)
       PROVE  Coming(g)'
    <2>1. PICK i \in 1..Len(q) : q[i] \in OwnAnswers(g) /\ clock + i <= wait[g].due + 1
        BY <1>1, <1>3, <1>13 DEF Coming
    <2>2. wait[g].due \in Nat
        BY <1>1, <1>13 DEF Waits, TooLate
    <2>3. CASE i = 1
        BY <1>1, <1>5, <1>6, <1>7, <2>1, <2>2, <2>3 DEF Coming
    <2>4. CASE i # 1
        <3>1. /\ i - 1 \in 1..Len(Tail(q)) /\ Tail(q)[i - 1] = q[i]
              /\ clock + (i - 1) <= wait[g].due
            <4>1. i - 1 \in 1..Len(Tail(q)) /\ (i - 1) + 1 = i
                BY <1>5, <2>1, <2>4
            <4> QED
                BY <1>1, <1>5, <2>1, <2>2, <4>1
        <3>2. \E j \in 1..Len(Tail(q)) : Tail(q)[j] \in OwnAnswers(g) /\ clock + j <= wait[g].due
            BY <2>1, <3>1
        <3> QED
            BY <1>6, <1>7, <1>10, <3>2 DEF Coming
    <2> QED
        BY <2>3, <2>4
<1>14. w.at \in Holding
    BY <1>6 DEF Holding
<1>15. IsPending(g) => TooLate(g)' \/ Coming(g)'
    BY <1>1, <1>12, <1>13 DEF DueOK
<1>16. phases[g] = "expired" => TooLate(g)'
    BY <1>1, <1>12 DEF DueOK
<1> QED
    BY <1>1, <1>2, <1>4, <1>6, <1>8, <1>9, <1>11, <1>14, <1>15, <1>16, WaitMoves

\* What is read says nothing, or is lost because the wait is over.
LEMMA ReadingEndsKeeps ==
    ASSUME SignInInvariant, NEW g \in Attempts, wait[g].at = "reading",
           wait' = [wait EXCEPT ![g].at = "waiting", ![g].reading = Nil],
           UNCHANGED <<attempt, phases, backlog, clock>>,
           \/ wait[g].reading \notin OwnAnswers(g)
           \/ ~IsPending(g)
           \/ TimedOut(g)
    PROVE  SignInInvariant'
<1> DEFINE w == [wait[g] EXCEPT !.at = "waiting", !.reading = Nil]
<1>1. /\ SignInTypeOK /\ PortsOK /\ WaitOK(g) /\ DueOK(g) /\ wait[g] \in Waits /\ clock \in Nat
    BY DEF SignInInvariant, SignInTypeOK
<1>2. wait[g].bound /\ wait[g].since \in Nat /\ wait[g].deadline \in Nat
    BY <1>1 DEF PortsOK, Holding, Waits
<1>3. wait' = [wait EXCEPT ![g] = w]
    OBVIOUS
<1>4. /\ w \in Waits /\ w.at = "waiting" /\ w.bound = wait[g].bound /\ w.port = wait[g].port
      /\ w.deadline = wait[g].deadline /\ w.due = wait[g].due /\ w.taken = wait[g].taken
    BY <1>1 DEF Waits, WaitPlaces, Holding
<1> HIDE DEF w
<1>5. wait'[g] = w /\ \A h \in Attempts \ {g} : wait'[h] = wait[h]
    BY <1>1, <1>3 DEF SignInTypeOK
<1>6. \A h \in Attempts \ {g} : wait[h].bound => KeepsQueue(h)
    BY <1>5 DEF KeepsQueue, Queue
<1>7. backlog' \in [Ports -> Seq(HttpRequests \cup {Nil})] /\ Queue(g)' = Queue(g)
    BY <1>1, <1>4, <1>5 DEF SignInTypeOK, Queue
<1>8. WaitOK(g)' /\ (TooLate(g)' <=> TooLate(g))
    BY <1>1, <1>4, <1>5 DEF WaitOK, TooLate
<1>9. ASSUME IsPending(g), ~TooLate(g)
      PROVE  Coming(g)'
    <2>1. wait[g].due \in Nat /\ ~(wait[g].due >= wait[g].deadline) /\ Coming(g)
        BY <1>1, <1>9 DEF Waits, TooLate, DueOK
    <2>2. ~(wait[g].reading \in OwnAnswers(g) /\ clock <= wait[g].due)
        BY <1>1, <1>2, <1>9, <2>1 DEF TimedOut
    <2>3. PICK i \in 1..Len(Queue(g)) :
             Queue(g)[i] \in OwnAnswers(g) /\ wait[g].since + i <= wait[g].due
        BY <2>1, <2>2 DEF Coming
    <2>4. clock <= wait[g].since + 1
        BY <1>1 DEF WaitOK
    <2>5. clock + i <= wait[g].due + 1
        BY <1>1, <1>2, <2>1, <2>3, <2>4
    <2> QED
        BY <1>4, <1>5, <1>7, <2>3, <2>5 DEF Coming
<1>10. w.at \in Holding
    BY <1>4 DEF Holding
<1>11. phases[g] = "expired" => TooLate(g)'
    BY <1>1, <1>8 DEF DueOK
<1> QED
    BY <1>2, <1>3, <1>4, <1>6, <1>7, <1>8, <1>9, <1>10, <1>11, WaitMoves

LEMMA ReadingKeepsSignIn ==
    ASSUME SignInInvariant, NEW g \in Attempts, GiveUpReading(g) \/ ReadRequest(g)
    PROVE  SignInInvariant'
<1>1. /\ SignInTypeOK /\ PortsOK /\ AttemptOK /\ WaitOK(g) /\ DueOK(g) /\ wait[g] \in Waits
      /\ wait[g].at = "reading" /\ UNCHANGED <<backlog, clock>>
    BY DEF SignInInvariant, SignInTypeOK, GiveUpReading, ReadRequest, StepAt
<1>2. wait[g].bound
    BY <1>1 DEF PortsOK, Holding
<1>3. Nil \notin OwnAnswers(g) /\ Nil \notin HttpRequests
    BY AnswersTyped, AttemptsNumbered
<1>4. CASE GiveUpReading(g)
    <2>1. /\ wait[g].reading = Nil \/ Stopped(g) \/ TimedOut(g)
          /\ wait' = [wait EXCEPT ![g].at = "waiting", ![g].reading = Nil]
          /\ UNCHANGED <<attempt, phases>>
        BY <1>4 DEF GiveUpReading
    <2>2. wait[g].reading \notin OwnAnswers(g) \/ ~IsPending(g) \/ TimedOut(g)
        BY <1>3, <2>1 DEF Stopped
    <2> QED
        BY <1>1, <2>1, <2>2, ReadingEndsKeeps
<1>5. CASE ReadRequest(g)
    <2>1. PICK r \in (IF wait[g].reading = Nil THEN Probes(g) ELSE {wait[g].reading}) :
             LET result == ParseRequest(r, g)
             IN  /\ wait' = [wait EXCEPT ![g].reading = Nil,
                                ![g].at = CASE result = "ignore" -> "waiting"
                                            [] result = "denied" -> "closing"
                                            [] result = "code" -> "coded",
                                ![g].taken = IF result = "code" THEN r ELSE @]
                 /\ IF result = "denied" THEN FinishAttempt(g, "failed")
                    ELSE UNCHANGED <<attempt, phases>>
        BY <1>5 DEF ReadRequest
    <2>2. r \in HttpRequests
        BY <1>1, <2>1, AnswersTyped DEF Waits
    <2> DEFINE result == ParseRequest(r, g)
               taken == IF result = "code" THEN r ELSE wait[g].taken
               at == CASE result = "ignore" -> "waiting"
                       [] result = "denied" -> "closing"
                       [] result = "code" -> "coded"
               w == [wait[g] EXCEPT !.reading = Nil, !.at = at, !.taken = taken]
    <2>3. /\ result \in {"ignore", "denied", "code"} /\ (result = "code" => r = AnswerFor(g))
        BY <2>2, CodesOwned
    <2>4. /\ wait' = [wait EXCEPT ![g] = w]
          /\ IF result = "denied" THEN FinishAttempt(g, "failed") ELSE UNCHANGED <<attempt, phases>>
        <3>1. /\ wait' = [wait EXCEPT ![g].reading = Nil, ![g].at = at,
                                      ![g].taken = IF result = "code" THEN r ELSE @]
              /\ IF result = "denied" THEN FinishAttempt(g, "failed")
                 ELSE UNCHANGED <<attempt, phases>>
            BY <2>1
        <3> HIDE DEF result, at
        <3>2. wait \in [Attempts -> Waits]
            BY <1>1 DEF SignInTypeOK
        <3>3. CASE result = "code"
            <4>1. wait' = [wait EXCEPT ![g].reading = Nil, ![g].at = at, ![g].taken = r]
                BY <3>1, <3>3
            <4> QED
                BY <3>1, <3>2, <3>3, <4>1
        <3>4. CASE result # "code"
            <4>1. wait' = [wait EXCEPT ![g].reading = Nil, ![g].at = at, ![g].taken = @]
                BY <3>1, <3>4
            <4> QED
                BY <3>1, <3>2, <3>4, <4>1
        <3> QED
            BY <3>3, <3>4
    <2>5. r \in OwnAnswers(g) => result # "ignore"
        BY OwnAnswersParsed
    <2> HIDE DEF result
    <2>6. /\ result = "ignore" => at = "waiting" /\ taken = wait[g].taken
          /\ result = "denied" => at = "closing" /\ taken = wait[g].taken
          /\ result = "code" => at = "coded" /\ taken = r
        OBVIOUS
    <2>7. at \in Holding /\ taken \in HttpRequests \cup {Nil}
        BY <1>1, <2>2, <2>3, <2>6 DEF Holding, Waits
    <2> HIDE DEF at, taken
    <2>8. /\ w \in Waits /\ w.at = at /\ w.taken = taken /\ w.bound = wait[g].bound
          /\ w.port = wait[g].port /\ w.deadline = wait[g].deadline /\ w.due = wait[g].due
        BY <1>1, <2>7 DEF Waits, WaitPlaces
    <2>9. CASE result = "ignore"
        <3>1. wait' = [wait EXCEPT ![g].at = "waiting", ![g].reading = Nil]
            <4>1. w = [wait[g] EXCEPT !.at = "waiting", !.reading = Nil]
                BY <1>1, <2>6, <2>9 DEF Waits
            <4> QED
                BY <2>4, <4>1
        <3>2. wait[g].reading \notin OwnAnswers(g)
            BY <1>3, <2>1, <2>5, <2>9
        <3> QED
            BY <1>1, <2>4, <2>9, <3>1, <3>2, ReadingEndsKeeps
    <2> HIDE DEF w
    <2>10. CASE result = "denied"
        <3>1. FinishAttempt(g, "failed") /\ w.at = "closing" /\ w.taken = wait[g].taken
            BY <2>4, <2>6, <2>8, <2>10
        <3> QED
            BY <1>1, <1>2, <2>4, <2>8, <3>1, EndingKeepsSignIn
    <2>11. CASE result = "code"
        <3>1. /\ w.at = "coded" /\ w.taken = AnswerFor(g) /\ w.taken # Nil
              /\ UNCHANGED <<attempt, phases>>
            BY <1>3, <2>2, <2>3, <2>4, <2>6, <2>8, <2>11
        <3>2. wait'[g] = w /\ \A h \in Attempts \ {g} : wait'[h] = wait[h]
            BY <1>1, <2>4 DEF SignInTypeOK
        <3>3. \A h \in Attempts \ {g} : wait[h].bound => KeepsQueue(h)
            BY <1>1, <3>2 DEF KeepsQueue, Queue
        <3>4. backlog' \in [Ports -> Seq(HttpRequests \cup {Nil})]
            BY <1>1 DEF SignInTypeOK
        <3>5. WaitOK(g)' /\ TooLate(g)'
            BY <3>1, <3>2 DEF WaitOK, TooLate
        <3>6. w.at \in Holding
            BY <3>1 DEF Holding
        <3> QED
            BY <1>1, <1>2, <2>4, <2>8, <3>1, <3>3, <3>4, <3>5, <3>6, WaitMoves
    <2> QED
        BY <2>3, <2>9, <2>10, <2>11
<1> QED
    BY <1>4, <1>5

\* The embedded browser is refused, then the socket is released.
LEMMA ExchangingKeeps ==
    ASSUME SignInInvariant, NEW g \in Attempts, Exchanging(g)
    PROVE  SignInInvariant'
<1>1. /\ SignInTypeOK /\ PortsOK /\ AttemptOK /\ WaitOK(g) /\ DueOK(g) /\ wait[g] \in Waits
      /\ wait[g].at = "coded" /\ UNCHANGED <<backlog, clock>>
    BY DEF SignInInvariant, SignInTypeOK, Exchanging, StepAt
<1>2. wait[g].bound /\ wait[g].taken # Nil
    BY <1>1 DEF PortsOK, Holding, WaitOK
<1>3. CASE StepTo(g, "closing") /\ FinishAttempt(g, "failed")
    BY <1>1, <1>2, <1>3, FinishingKeeps
<1>4. CASE /\ IsCurrent(g) /\ attempt' = [attempt EXCEPT !.active = FALSE]
           /\ phases' = [phases EXCEPT ![g] = "exchanging"] /\ StepTo(g, "releasing")
    <2> DEFINE w == [wait[g] EXCEPT !.at = "releasing"]
    <2>1. /\ w \in Waits /\ w.at = "releasing" /\ w.bound = wait[g].bound
          /\ w.port = wait[g].port /\ w.deadline = wait[g].deadline /\ w.due = wait[g].due
          /\ w.taken = wait[g].taken
        BY <1>1, PlaceChanges DEF WaitPlaces, Holding
    <2>2. wait' = [wait EXCEPT ![g] = w]
        BY <1>4 DEF StepTo
    <2> HIDE DEF w
    <2>3. /\ wait' \in [Attempts -> Waits] /\ wait'[g] = w
          /\ \A h \in Attempts \ {g} : wait'[h] = wait[h]
        BY <1>1, <2>1, <2>2 DEF SignInTypeOK
    <2>4. attempt # Nil /\ attempt \in PendingAttempts /\ attempt.id = g
        BY <1>1, <1>4 DEF SignInTypeOK, IsCurrent, IsPending
    <2>5. /\ attempt' \in PendingAttempts /\ ~attempt'.active /\ attempt'.id = g
          /\ attempt'.port = attempt.port /\ attempt'.deadline = attempt.deadline
        BY <1>4, <2>4 DEF PendingAttempts
    <2>6. phases' \in [Attempts -> Phases] /\ phases'[g] = "exchanging"
          /\ \A h \in Attempts \ {g} : phases'[h] = phases[h]
        BY <1>1, <1>4 DEF SignInTypeOK, Phases
    <2>7. SignInTypeOK'
        BY <1>1, <2>3, <2>5, <2>6 DEF SignInTypeOK
    <2>8. PortsOK'
        <3>1. \A h \in Attempts : /\ wait'[h].bound = wait[h].bound /\ wait'[h].port = wait[h].port
                                  /\ wait'[h].at \in Holding <=> wait[h].at \in Holding
            BY <1>1, <2>1, <2>3 DEF Holding
        <3> QED
            BY <1>1, <3>1 DEF PortsOK
    <2>9. AttemptOK'
        BY <1>1, <2>1, <2>3, <2>4, <2>5 DEF AttemptOK
    <2>10. ASSUME NEW h \in Attempts
           PROVE  WaitOK(h)' /\ DueOK(h)'
        <3>1. CASE h = g
            <4>1. WaitOK(g)' /\ TooLate(g)'
                BY <1>1, <1>2, <2>1, <2>3 DEF WaitOK, TooLate
            <4> QED
                BY <2>1, <2>3, <2>6, <3>1, <4>1 DEF DueOK
        <3>2. CASE h # g
            <4>1. /\ (IsPending(h)' => IsPending(h)) /\ PhaseMoves(h)
                BY <2>4, <2>5, <2>6, <3>2 DEF IsPending, PhaseMoves
            <4>2. KeepsQueue(h)
                BY <1>1, <2>3, <3>2 DEF KeepsQueue, Queue
            <4> QED
                BY <1>1, <2>3, <3>2, <4>1, <4>2, OtherStays
        <3> QED
            BY <3>1, <3>2
    <2> QED
        BY <2>7, <2>8, <2>9, <2>10 DEF SignInInvariant
<1> QED
    BY <1>3, <1>4 DEF Exchanging

LEMMA ReleasingKeeps ==
    ASSUME SignInInvariant, NEW g \in Attempts, Release(g)
    PROVE  SignInInvariant'
<1> DEFINE at == IF wait[g].at = "closing" THEN "over" ELSE "exchanging"
           w == [wait[g] EXCEPT !.bound = FALSE, !.at = at]
<1>1. /\ SignInTypeOK /\ PortsOK /\ AttemptOK /\ WaitOK(g) /\ DueOK(g) /\ wait[g] \in Waits
      /\ wait[g].at \in {"closing", "releasing"} /\ UNCHANGED <<attempt, phases, clock>>
      /\ backlog' = [backlog EXCEPT ![wait[g].port] = <<>>]
    BY DEF SignInInvariant, SignInTypeOK, Release, StepAt
<1>2. wait[g].bound
    BY <1>1 DEF PortsOK, Holding
<1>3. wait' = [wait EXCEPT ![g] = w]
    BY <1>1 DEF Release, SignInTypeOK
<1>4. /\ at \in WaitPlaces
      /\ wait[g].at = "closing" => at = "over"
      /\ wait[g].at = "releasing" => at = "exchanging"
    BY DEF WaitPlaces
<1> HIDE DEF at
<1>5. /\ w \in Waits /\ w.at = at /\ ~w.bound /\ w.port = wait[g].port
      /\ w.deadline = wait[g].deadline /\ w.due = wait[g].due /\ w.taken = wait[g].taken
    BY <1>1, <1>4 DEF Waits
<1> HIDE DEF w
<1>6. wait'[g] = w /\ \A h \in Attempts \ {g} : wait'[h] = wait[h]
    BY <1>1, <1>3 DEF SignInTypeOK
<1>7. backlog' \in [Ports -> Seq(HttpRequests \cup {Nil})]
    <2>1. <<>> \in Seq(HttpRequests \cup {Nil})
        OBVIOUS
    <2> QED
        BY <1>1, <2>1, QueueTyped
<1>8. \A h \in Attempts \ {g} : wait[h].bound => KeepsQueue(h)
    BY <1>1, <1>2, <1>6, OthersKeepQueues
<1>9. IsPending(g) => wait[g].at = "releasing" /\ ~attempt.active /\ wait[g].taken # Nil
    BY <1>1 DEF AttemptOK, IsPending, WaitOK
<1>10. WaitOK(g)' /\ (TooLate(g)' <=> TooLate(g))
    BY <1>1, <1>4, <1>5, <1>6 DEF WaitOK, TooLate
<1>11. IsPending(g) => TooLate(g)'
    BY <1>9, <1>10 DEF TooLate
<1>12. w.at \notin Holding
    BY <1>1, <1>4, <1>5 DEF Holding
<1>13. phases[g] = "expired" => TooLate(g)'
    BY <1>1, <1>10 DEF DueOK
<1>14. w.at # "none" /\ (IsPending(g) => w.at \notin {"closing", "over"} /\ ~attempt.active)
    BY <1>1, <1>4, <1>5, <1>9
<1> QED
    BY <1>1, <1>3, <1>5, <1>7, <1>8, <1>10, <1>11, <1>12, <1>13, <1>14, WaitMoves

\* An attempt that is overdue makes room for the next.
LEMMA BeginningKeeps ==
    ASSUME SignInInvariant, NEW g \in Attempts, NEW port \in Ports, StartSignIn(g, port)
    PROVE  SignInInvariant'
<1> DEFINE w == [NotBegun EXCEPT !.at = "launching", !.port = port, !.bound = TRUE,
                                 !.deadline = clock + Timeout]
<1>1. /\ SignInTypeOK /\ PortsOK /\ clock \in Nat /\ ~Bound(port)
      /\ attempt = Nil \/ PastDeadline
      /\ UNCHANGED <<backlog, clock>>
    BY DEF SignInInvariant, SignInTypeOK, StartSignIn
<1>2. /\ clock + Timeout \in Nat /\ Nil \notin PendingAttempts
    BY <1>1, SignInAssumption
<1>3. /\ attempt' = [id |-> g, port |-> port, deadline |-> clock + Timeout, active |-> TRUE]
      /\ phases' = [h \in Attempts |-> IF h = g THEN "pending"
                                       ELSE IF IsPending(h) THEN "expired" ELSE phases[h]]
      /\ wait' = [wait EXCEPT ![g] = w]
    BY DEF StartSignIn
<1>4. /\ w \in Waits /\ w.at = "launching" /\ w.port = port /\ w.bound
      /\ w.deadline = clock + Timeout /\ w.taken = Nil /\ w.due = Nil
    BY <1>2 DEF NotBegun, Waits, WaitPlaces, Holding
<1> HIDE DEF w
<1>5. wait' \in [Attempts -> Waits] /\ wait'[g] = w /\ \A h \in Attempts \ {g} : wait'[h] = wait[h]
    BY <1>1, <1>3, <1>4 DEF SignInTypeOK
<1>6. /\ attempt' \in PendingAttempts /\ attempt'.id = g /\ attempt'.port = port
      /\ attempt'.deadline = clock + Timeout
    BY <1>2, <1>3 DEF PendingAttempts
<1>7. phases' \in [Attempts -> Phases] /\ phases'[g] = "pending"
    BY <1>1, <1>3 DEF SignInTypeOK, Phases
<1>8. SignInTypeOK'
    BY <1>1, <1>5, <1>6, <1>7 DEF SignInTypeOK
<1>9. PortsOK'
    <2>1. \A h \in Attempts : wait[h].bound => wait[h].port # port
        BY <1>1 DEF Bound
    <2>2. "launching" \in Holding
        BY DEF Holding
    <2>3. ASSUME NEW h \in Attempts
          PROVE  /\ wait'[h].bound <=> wait'[h].at \in Holding
                 /\ wait'[h].bound => wait'[h].port \in Ports
        BY <1>1, <1>4, <1>5, <2>2 DEF PortsOK
    <2>4. ASSUME NEW h \in Attempts, NEW k \in Attempts,
                 wait'[h].bound, wait'[k].bound, wait'[h].port = wait'[k].port
          PROVE  h = k
        BY <1>1, <1>4, <1>5, <2>1, <2>4 DEF PortsOK
    <2> QED
        BY <2>3, <2>4 DEF PortsOK
<1>10. AttemptOK'
    BY <1>4, <1>5, <1>6 DEF AttemptOK
<1>11. ASSUME NEW h \in Attempts
       PROVE  WaitOK(h)' /\ DueOK(h)'
    <2>1. CASE h = g
        <3>1. WaitOK(g)' /\ TooLate(g)'
            BY <1>4, <1>5 DEF WaitOK, TooLate
        <3> QED
            BY <1>4, <1>5, <1>7, <2>1, <3>1 DEF DueOK
    <2>2. CASE h # g
        <3>1. ~IsPending(h)'
            BY <1>6, <2>2 DEF IsPending
        <3>2. phases'[h] = IF IsPending(h) THEN "expired" ELSE phases[h]
            BY <1>3, <2>2
        <3>3. PhaseMoves(h)
            BY <1>1, <3>1, <3>2 DEF PhaseMoves, IsPending
        <3>4. KeepsQueue(h)
            BY <1>1, <1>5, <2>2 DEF KeepsQueue, Queue
        <3> QED
            BY <1>1, <1>5, <2>2, <3>1, <3>3, <3>4, OtherStays
    <2> QED
        BY <2>1, <2>2
<1> QED
    BY <1>8, <1>9, <1>10, <1>11 DEF SignInInvariant

\* Nothing moves but what is queued, and whether the attempt is pending.
LEMMA RecordsStay ==
    ASSUME SignInInvariant, NEW g \in Attempts, UNCHANGED <<wait, clock>>,
           backlog' \in [Ports -> Seq(HttpRequests \cup {Nil})],
           \A h \in Attempts : wait[h].bound => KeepsQueue(h),
           attempt' \in {attempt, Nil}, phases' \in [Attempts -> Phases],
           \A h \in Attempts : PhaseMoves(h)
    PROVE  SignInInvariant'
<1>1. SignInTypeOK /\ PortsOK /\ AttemptOK
    BY DEF SignInInvariant
<1>2. IsPending(g)' => IsPending(g)
    BY DEF IsPending
<1>3. WaitOK(g)' /\ DueOK(g)'
    BY <1>2, OtherStays
<1>4. IsPending(g)' => /\ wait'[g].at \notin {"none", "closing", "over"}
                       /\ attempt.active => wait'[g].at \notin {"releasing", "exchanging"}
    BY <1>1, <1>2 DEF AttemptOK, IsPending
<1>5. wait' \in [Attempts -> Waits] /\ (wait'[g].bound <=> wait'[g].at \in Holding)
    BY <1>1 DEF SignInTypeOK, PortsOK
<1> QED
    BY <1>3, <1>4, <1>5, RecordMoves

LEMMA EndingsKeep ==
    ASSUME SignInInvariant, ExpireAttempt \/ CancelAttempt
    PROVE  SignInInvariant'
<1>1. SignInTypeOK /\ attempt # Nil /\ UNCHANGED <<wait, clock, backlog>>
    BY DEF SignInInvariant, ExpireAttempt, CancelAttempt, PastDeadline
<1>2. attempt.id \in Attempts
    BY <1>1 DEF SignInTypeOK, PendingAttempts
<1>3. PICK phase \in Phases : EndAttempt(phase) /\ (phase = "expired" => PastDeadline)
    BY DEF ExpireAttempt, CancelAttempt, Phases
<1>4. /\ attempt' = Nil /\ phases' \in [Attempts -> Phases]
      /\ \A h \in Attempts : PhaseMoves(h)
    BY <1>1, <1>3, AttemptEnds
<1>5. \A h \in Attempts : KeepsQueue(h)
    BY <1>1 DEF KeepsQueue, Queue
<1>6. backlog' \in [Ports -> Seq(HttpRequests \cup {Nil})]
    BY <1>1 DEF SignInTypeOK
<1> QED
    BY <1>1, <1>2, <1>4, <1>5, <1>6, RecordsStay

LEMMA ProbesKeep ==
    ASSUME SignInInvariant, NEW p \in Ports, ProbeConnects(p)
    PROVE  SignInInvariant'
<1>1. /\ SignInTypeOK /\ PortsOK /\ Bound(p) /\ UNCHANGED <<wait, clock, attempt, phases>>
      /\ backlog' = [backlog EXCEPT ![p] = Append(@, Nil)]
    BY DEF SignInInvariant, ProbeConnects, Connect
<1>2. PICK g \in Attempts : wait[g].bound /\ wait[g].port = p
    BY <1>1 DEF Bound
<1>3. \A h \in Attempts : wait[h].bound => KeepsQueue(h)
    BY <1>1, QueueGrows DEF PortsOK
<1>4. backlog' \in [Ports -> Seq(HttpRequests \cup {Nil})]
    <2>1. Append(backlog[p], Nil) \in Seq(HttpRequests \cup {Nil})
        BY <1>1 DEF SignInTypeOK
    <2> QED
        BY <1>1, <2>1, QueueTyped
<1>5. phases' \in [Attempts -> Phases] /\ \A h \in Attempts : PhaseMoves(h)
    BY <1>1 DEF SignInTypeOK, PhaseMoves
<1> QED
    BY <1>1, <1>2, <1>3, <1>4, <1>5, RecordsStay

\* The turn of an answer comes after what is before it.
LEMMA AnsweringKeeps ==
    ASSUME SignInInvariant, NEW g \in Attempts, ProviderAnswers(g)
    PROVE  SignInInvariant'
<1> DEFINE p == wait[g].port
<1>1. /\ SignInTypeOK /\ PortsOK /\ AttemptOK /\ WaitOK(g) /\ DueOK(g) /\ wait[g] \in Waits
      /\ clock \in Nat /\ Bound(p) /\ UNCHANGED <<clock, attempt, phases>>
    BY DEF SignInInvariant, SignInTypeOK, ProviderAnswers, Connect
<1>2. PICK r \in OwnAnswers(g) : backlog' = [backlog EXCEPT ![p] = Append(@, r)]
    BY DEF ProviderAnswers, Connect, OwnAnswers
<1>3. p \in Ports /\ r \in HttpRequests \cup {Nil} /\ Nil \notin Nat
    BY <1>1, AnswersTyped, AttemptsNumbered DEF Bound, PortsOK
<1> HIDE DEF p
<1>4. backlog' \in [Ports -> Seq(HttpRequests \cup {Nil})]
    <2>1. Append(backlog[p], r) \in Seq(HttpRequests \cup {Nil})
        BY <1>1, <1>3 DEF SignInTypeOK
    <2> QED
        BY <1>1, <1>2, <2>1, QueueTyped
<1>5. phases' \in [Attempts -> Phases] /\ \A h \in Attempts : PhaseMoves(h)
    BY <1>1 DEF SignInTypeOK, PhaseMoves
<1>6. CASE UNCHANGED wait
    <2>1. \A h \in Attempts : wait[h].bound => KeepsQueue(h)
        BY <1>1, <1>2, <1>3, <1>6, QueueGrows DEF PortsOK
    <2> QED
        BY <1>1, <1>4, <1>5, <1>6, <2>1, RecordsStay
<1>7. CASE /\ wait[g].at \in {"waiting", "reading"} /\ wait[g].due = Nil
           /\ wait' = [wait EXCEPT ![g].due = TurnAt(g)]
    <2> DEFINE due == TurnAt(g)
               w == [wait[g] EXCEPT !.due = due]
    <2>1. /\ Queue(g) \in Seq(HttpRequests \cup {Nil}) /\ Len(Queue(g)) \in Nat
          /\ wait[g].bound
        BY <1>1, <1>3, <1>7 DEF SignInTypeOK, Queue, p, PortsOK, Holding
    <2>2. /\ due \in Nat /\ clock <= due
          /\ wait[g].at = "waiting" => due = clock + Len(Queue(g))
          /\ wait[g].at = "reading" => due = clock + Len(Queue(g)) + 1
        BY <1>1, <1>7, <2>1 DEF TurnAt, StepAt, Queue
    <2> HIDE DEF due
    <2>3. /\ w \in Waits /\ w.at = wait[g].at /\ w.bound = wait[g].bound /\ w.port = wait[g].port
          /\ w.deadline = wait[g].deadline /\ w.due = due /\ w.taken = wait[g].taken
          /\ w.since = wait[g].since /\ w.reading = wait[g].reading
        BY <1>1, <2>2 DEF Waits
    <2>4. wait' = [wait EXCEPT ![g] = w]
        BY <1>1, <1>7 DEF SignInTypeOK, due
    <2> HIDE DEF w
    <2>5. wait'[g] = w /\ \A h \in Attempts \ {g} : wait'[h] = wait[h]
        BY <1>1, <2>4 DEF SignInTypeOK
    <2>6. \A h \in Attempts \ {g} : wait[h].bound => KeepsQueue(h)
        BY <1>1, <1>2, <1>3, <2>5, QueueGrows DEF PortsOK
    <2>7. Len(Queue(g)') = Len(Queue(g)) + 1 /\ Queue(g)'[Len(Queue(g)) + 1] = r
        BY <1>1, <1>2, <1>3, <2>3, <2>5, QueueGrows DEF p
    <2>8. WaitOK(g)'
        BY <1>1, <1>7, <2>3, <2>5 DEF WaitOK
    <2>9. Coming(g)'
        <3> DEFINE i == Len(Queue(g)) + 1
        <3>1. i \in 1..Len(Queue(g)') /\ Queue(g)'[i] \in OwnAnswers(g)
            BY <2>1, <2>7
        <3>2. /\ wait[g].at = "waiting" => clock + i <= due + 1
              /\ wait[g].at = "reading" => wait[g].since + i <= due
            <4>1. wait[g].at = "reading" => wait[g].since <= clock /\ wait[g].since \in Nat
                BY <1>1 DEF WaitOK, Waits
            <4> QED
                BY <1>1, <2>1, <2>2, <4>1
        <3> HIDE DEF i
        <3> QED
            BY <1>1, <1>7, <2>3, <2>5, <3>1, <3>2 DEF Coming
    <2>10. phases[g] = "expired" => TooLate(g)'
        <3>1. phases[g] = "expired" => clock >= wait[g].deadline
            BY <1>1 DEF DueOK
        <3>2. wait[g].deadline \in Nat
            BY <1>1 DEF Waits
        <3> QED
            BY <1>1, <2>2, <2>3, <2>5, <3>1, <3>2 DEF TooLate
    <2>11. w.at \in Holding /\ w.at \notin {"none", "closing", "over", "releasing", "exchanging"}
        BY <1>7, <2>3 DEF Holding
    <2> QED
        BY <1>1, <1>4, <2>1, <2>3, <2>4, <2>6, <2>8, <2>9, <2>10, <2>11, WaitMoves
<1> QED
    BY <1>6, <1>7 DEF ProviderAnswers

\* The clock waits for every thread that has something to do.
LEMMA SecondsKeep ==
    ASSUME SignInInvariant, SecondPasses
    PROVE  SignInInvariant'
<1>1. /\ SignInTypeOK /\ PortsOK /\ AttemptOK /\ clock \in Nat /\ clock' = clock + 1
      /\ UNCHANGED <<attempt, phases, wait, backlog>> /\ \A g \in Attempts : Prompt(g)
    BY DEF SignInInvariant, SignInTypeOK, SecondPasses
<1>2. SignInTypeOK' /\ PortsOK' /\ AttemptOK'
    BY <1>1 DEF SignInTypeOK, PortsOK, AttemptOK
<1>3. ASSUME NEW g \in Attempts
      PROVE  WaitOK(g)' /\ DueOK(g)'
    <2>1. WaitOK(g) /\ DueOK(g) /\ Prompt(g) /\ wait[g] \in Waits
        BY <1>1 DEF SignInInvariant, SignInTypeOK
    <2>2. /\ wait[g].at = "reading" => wait[g].since = clock /\ wait[g].reading = Nil
          /\ wait[g].at = "waiting" => Len(Queue(g)) = 0
        <3>1. wait[g].at = "waiting" => backlog[wait[g].port] = <<>>
            BY <2>1 DEF Prompt, StepAt
        <3> QED
            BY <2>1, <3>1 DEF Prompt, StepAt, Queue
    <2>3. WaitOK(g)'
        BY <1>1, <2>1, <2>2 DEF WaitOK
    <2>4. (TooLate(g)' <=> TooLate(g)) /\ (IsPending(g)' <=> IsPending(g))
        BY <1>1 DEF TooLate, IsPending
    <2>5. Coming(g) => Coming(g)'
        <3>1. Nil \notin OwnAnswers(g)
            BY AnswersTyped, AttemptsNumbered
        <3>2. wait[g].at = "waiting" => 1..Len(Queue(g)) = {}
            BY <2>2
        <3>3. Coming(g) =>
                 /\ wait[g].at = "reading"
                 /\ \E i \in 1..Len(Queue(g)) :
                       Queue(g)[i] \in OwnAnswers(g) /\ wait[g].since + i <= wait[g].due
            BY <2>2, <3>1, <3>2 DEF Coming
        <3>4. Queue(g)' = Queue(g)
            BY <1>1 DEF Queue
        <3> QED
            BY <1>1, <3>3, <3>4 DEF Coming
    <2>6. phases'[g] = "expired" => clock' >= wait'[g].deadline
        <3>1. wait[g].deadline \in Nat
            BY <2>1 DEF Waits
        <3> QED
            BY <1>1, <2>1, <3>1 DEF DueOK
    <2>7. wait'[g].at = "none" => phases'[g] = "none"
        BY <1>1, <2>1 DEF DueOK
    <2> QED
        BY <1>1, <2>1, <2>3, <2>4, <2>5, <2>6, <2>7 DEF DueOK
<1> QED
    BY <1>2, <1>3 DEF SignInInvariant

-----------------------------------------------------------------------------
(* The theorem *)

LEMMA SignInStarts == SignInInit => SignInInvariant
<1> SUFFICES ASSUME SignInInit
             PROVE  SignInInvariant
    OBVIOUS
<1>1. \A g \in Attempts : wait[g] = NotBegun /\ phases[g] = "none"
    BY DEF SignInInit
<1>2. /\ NotBegun.at = "none" /\ NotBegun.bound = FALSE /\ NotBegun.due = Nil
      /\ NotBegun.taken = Nil
    BY DEF NotBegun
<1>3. NotBegun \in Waits
    BY DEF NotBegun, Waits, WaitPlaces
<1>4. SignInTypeOK
    <2>1. <<>> \in Seq(HttpRequests \cup {Nil})
        OBVIOUS
    <2>2. "none" \in Phases
        BY DEF Phases
    <2>3. phases \in [Attempts -> Phases] /\ wait \in [Attempts -> Waits]
        BY <1>3, <2>2 DEF SignInInit
    <2>4. backlog \in [Ports -> Seq(HttpRequests \cup {Nil})]
        BY <2>1 DEF SignInInit
    <2> QED
        BY <2>3, <2>4 DEF SignInInit, SignInTypeOK
<1>5. PortsOK /\ AttemptOK
    BY <1>1, <1>2 DEF SignInInit, PortsOK, AttemptOK, Holding
<1>6. ASSUME NEW g \in Attempts
      PROVE  WaitOK(g) /\ DueOK(g)
    BY <1>1, <1>2 DEF SignInInit, WaitOK, DueOK, TooLate
<1> QED
    BY <1>4, <1>5, <1>6 DEF SignInInvariant

LEMMA SignInSuffices == SignInInvariant => SignInSound
<1> SUFFICES ASSUME SignInInvariant
             PROVE  SignInSound
    OBVIOUS
<1>1. ExchangesOwnCode
    BY DEF SignInInvariant, WaitOK, ExchangesOwnCode
<1>2. ProbesNeverEnd
    BY DEF SignInInvariant, DueOK, TooLate, ProbesNeverEnd
<1>3. ASSUME NEW g \in Attempts, NEW p \in Ports, AllowsCallback(p, g), ~StepAt(g, "unspawned")
      PROVE  wait[g].bound /\ wait[g].port = p
    <2>1. attempt # Nil /\ attempt.active /\ attempt.port = p /\ attempt.id = g
        BY <1>3 DEF AllowsCallback
    <2>2. /\ p = wait[g].port
          /\ wait[g].at \notin {"none", "closing", "over", "releasing", "exchanging", "unspawned"}
        BY <1>3, <2>1 DEF SignInInvariant, AttemptOK, StepAt
    <2>3. wait[g].at \in WaitPlaces
        BY DEF SignInInvariant, SignInTypeOK, Waits
    <2>4. wait[g].at \in Holding
        BY <2>2, <2>3 DEF WaitPlaces
    <2> QED
        BY <2>2, <2>4 DEF SignInInvariant, PortsOK
<1> QED
    BY <1>1, <1>2, <1>3 DEF SignInSound, AdmissionCovered

LEMMA SignInStepsKeep ==
    ASSUME SignInInvariant, NEW g \in Attempts, WaitSteps(g) \/ SocketFails(g) \/ ProviderAnswers(g)
    PROVE  SignInInvariant'
<1>1. CASE LaunchAdmitted(g) \/ LaunchEnds(g) \/ NotSpawned(g)
    BY <1>1, LaunchingKeeps
<1>2. CASE StopWaiting(g) \/ SocketFails(g) \/ ExchangeEnds(g)
    BY <1>2, WaitEndKeeps
<1>3. CASE Accept(g)
    BY <1>3, AcceptingKeeps
<1>4. CASE GiveUpReading(g) \/ ReadRequest(g)
    BY <1>4, ReadingKeepsSignIn
<1>5. CASE Exchanging(g)
    BY <1>5, ExchangingKeeps
<1>6. CASE Release(g)
    BY <1>6, ReleasingKeeps
<1>7. CASE ProviderAnswers(g)
    BY <1>7, AnsweringKeeps
<1> QED
    BY <1>1, <1>2, <1>3, <1>4, <1>5, <1>6, <1>7 DEF WaitSteps

LEMMA SignInKeeps ==
    ASSUME SignInInvariant, [SignInNext]_signInVars
    PROVE  SignInInvariant'
<1>1. CASE UNCHANGED signInVars
    <2>1. UNCHANGED <<attempt, phases, wait, backlog, clock>>
        BY <1>1 DEF signInVars
    <2>2. SignInTypeOK' /\ PortsOK' /\ AttemptOK'
        BY <2>1 DEF SignInInvariant, SignInTypeOK, PortsOK, AttemptOK
    <2>3. \A g \in Attempts : WaitOK(g)' /\ DueOK(g)'
        BY <2>1 DEF SignInInvariant, WaitOK, DueOK, IsPending, TooLate, Coming, Queue
    <2> QED
        BY <2>2, <2>3 DEF SignInInvariant
<1>2. CASE \E g \in Attempts, p \in Ports : StartSignIn(g, p)
    BY <1>2, BeginningKeeps
<1>3. CASE \E g \in Attempts : WaitSteps(g) \/ SocketFails(g) \/ ProviderAnswers(g)
    BY <1>3, SignInStepsKeep
<1>4. CASE \E p \in Ports : ProbeConnects(p)
    BY <1>4, ProbesKeep
<1>5. CASE ExpireAttempt \/ CancelAttempt
    BY <1>5, EndingsKeep
<1>6. CASE SecondPasses
    BY <1>6, SecondsKeep
<1> QED
    BY <1>1, <1>2, <1>3, <1>4, <1>5, <1>6 DEF SignInNext

\* The code an attempt exchanges is that of its own answer, the callback address
\* is admitted only while its socket is held, and an attempt whose answer has
\* come runs out of time only if its turn to be read came too late: for any
\* number of attempts, ports and connections, in whatever order they come.
THEOREM SignInStaysSound == SignInSpec => []SignInSound
<1>1. SignInInit => SignInInvariant
    BY SignInStarts
<1>2. SignInInvariant /\ [SignInNext]_signInVars => SignInInvariant'
    BY SignInKeeps
<1>3. SignInInvariant => SignInSound
    BY SignInSuffices
<1> QED
    BY <1>1, <1>2, <1>3, PTL DEF SignInSpec

-----------------------------------------------------------------------------
(* The life of a sign-in, on the side of its callback *)

\* The phase of an attempt says whether it is the pending one, and whether its
\* thread has the code.
Called == {"releasing", "exchanging"}
PhaseOK(g) ==
    /\ phases[g] \in Callback!UnderWay <=> IsPending(g)
    /\ IsPending(g) => (phases[g] = "exchanging" <=> wait[g].at \in Called)
PhasesOK == \A g \in Attempts : PhaseOK(g)

Seen == [g \in Attempts |-> PhaseShown(phases[g])]
CallbackStep == PhasesOK' /\ (Callback!Next \/ UNCHANGED Seen)

LEMMA CallbackEnds ==
    ASSUME SignInTypeOK, PhasesOK, attempt # Nil,
           NEW phase \in {"expired", "failed", "cancelled"}, EndAttempt(phase)
    PROVE  CallbackStep
<1> DEFINE g == attempt.id
<1>1. g \in Attempts /\ IsPending(g) /\ \A h \in Attempts : IsPending(h) => h = g
    BY DEF SignInTypeOK, PendingAttempts, IsPending
<1>2. attempt' = Nil /\ phases' = [phases EXCEPT ![g] = phase] /\ phases \in [Attempts -> Phases]
    BY DEF EndAttempt, SignInTypeOK
<1> HIDE DEF g
<1>3. PhasesOK'
    BY <1>1, <1>2 DEF PhasesOK, PhaseOK, IsPending, Callback!UnderWay
<1>4. Seen[g] \in Callback!UnderWay /\ Seen' = [Seen EXCEPT ![g] = PhaseShown(phase)]
    BY <1>1, <1>2 DEF Seen, PhaseShown, PhasesOK, PhaseOK, Callback!UnderWay
<1>5. PhaseShown(phase) \in {"failed", "cancelled"}
    BY DEF PhaseShown
<1>6. Callback!End(g)
    BY <1>4, <1>5 DEF Callback!End, Callback!Moves, Seen
<1> QED
    BY <1>1, <1>3, <1>6 DEF CallbackStep, Callback!Next

LEMMA CallbackRests ==
    ASSUME PhasesOK, UNCHANGED <<attempt, phases>>,
           \A g \in Attempts : IsPending(g) => (wait'[g].at \in Called <=> wait[g].at \in Called)
    PROVE  CallbackStep
BY DEF CallbackStep, PhasesOK, PhaseOK, IsPending, Seen

LEMMA CallbackFinishes ==
    ASSUME SignInTypeOK, PhasesOK, NEW g \in Attempts, NEW phase \in {"failed", "connected"},
           phase = "connected" /\ IsPending(g) => phases[g] = "exchanging",
           FinishAttempt(g, phase), \A h \in Attempts \ {g} : wait'[h] = wait[h]
    PROVE  CallbackStep
<1>1. CASE PastDeadline
    <2>1. attempt # Nil /\ EndAttempt("expired")
        BY <1>1 DEF FinishAttempt, IsCurrent, PastDeadline
    <2> QED
        BY <2>1, CallbackEnds
<1>2. CASE IsCurrent(g) /\ phase = "failed"
    BY <1>2, CallbackEnds DEF FinishAttempt, IsCurrent, IsPending
<1>3. CASE IsCurrent(g) /\ phase = "connected"
    <2>1. /\ attempt' = Nil /\ phases' = [phases EXCEPT ![g] = "connected"]
          /\ phases \in [Attempts -> Phases] /\ phases[g] = "exchanging"
          /\ IsPending(g) /\ \A h \in Attempts : IsPending(h) => h = g
        BY <1>3 DEF FinishAttempt, IsCurrent, IsPending, EndAttempt, SignInTypeOK
    <2>2. PhasesOK'
        BY <2>1 DEF PhasesOK, PhaseOK, IsPending, Callback!UnderWay
    <2>3. Seen[g] = "exchanging" /\ Seen' = [Seen EXCEPT ![g] = "connected"]
        BY <2>1 DEF Seen, PhaseShown
    <2>4. Callback!Connect(g)
        BY <2>3 DEF Callback!Connect, Callback!Moves, Seen
    <2> QED
        BY <2>2, <2>4 DEF CallbackStep, Callback!Next
<1>4. CASE ~PastDeadline /\ ~IsCurrent(g)
    <2>1. UNCHANGED <<attempt, phases>> /\ ~IsPending(g)
        BY <1>4 DEF FinishAttempt, IsCurrent
    <2> QED
        BY <2>1, CallbackRests
<1> QED
    BY <1>1, <1>2, <1>3, <1>4

LEMMA OthersWait ==
    ASSUME SignInTypeOK, NEW g \in Attempts, NEW at, StepTo(g, at)
    PROVE  \A h \in Attempts \ {g} : wait'[h] = wait[h]
BY DEF SignInTypeOK, StepTo

LEMMA CallbackBegins ==
    ASSUME SignInInvariant, PhasesOK, NEW g \in Attempts, NEW port \in Ports, StartSignIn(g, port)
    PROVE  CallbackStep
<1>1. /\ phases \in [Attempts -> Phases] /\ phases[g] = "none" /\ wait \in [Attempts -> Waits]
      /\ attempt' # Nil /\ attempt'.id = g /\ wait'[g].at = "launching"
      /\ phases' = [h \in Attempts |-> IF h = g THEN "pending"
                                       ELSE IF IsPending(h) THEN "expired" ELSE phases[h]]
    <2>1. attempt' \in PendingAttempts /\ attempt'.id = g
        <3>1. clock + Timeout \in Nat
            BY SignInAssumption DEF SignInInvariant, SignInTypeOK
        <3> QED
            BY <3>1 DEF StartSignIn, PendingAttempts
    <2>2. attempt' # Nil
        BY <2>1, SignInAssumption
    <2> QED
        BY <2>1, <2>2 DEF StartSignIn, StepAt, SignInInvariant, SignInTypeOK, DueOK, NotBegun
<1>2. PhasesOK'
    <2>1. \A h \in Attempts : IsPending(h)' <=> h = g
        BY <1>1 DEF IsPending
    <2> QED
        BY <1>1, <2>1 DEF PhasesOK, PhaseOK, Callback!UnderWay, Called
<1>3. Seen[g] = "none" /\ Seen' = [Callback!Left("failed") EXCEPT ![g] = "pending"]
    BY <1>1 DEF Seen, PhaseShown, Callback!Left, Callback!UnderWay, PhasesOK, PhaseOK
<1>4. Callback!Begin(g)
    BY <1>3 DEF Callback!Begin, Seen
<1> QED
    BY <1>2, <1>4 DEF CallbackStep, Callback!Next

LEMMA CallbackComes ==
    ASSUME SignInInvariant, PhasesOK, NEW g \in Attempts, Exchanging(g)
    PROVE  CallbackStep
<1>1. SignInTypeOK /\ StepAt(g, "coded")
    BY DEF SignInInvariant, Exchanging
<1>2. CASE IsCurrent(g)
    <2>1. /\ attempt \in PendingAttempts /\ attempt.id = g
          /\ attempt' = [attempt EXCEPT !.active = FALSE]
          /\ phases' = [phases EXCEPT ![g] = "exchanging"] /\ phases \in [Attempts -> Phases]
          /\ wait' = [wait EXCEPT ![g].at = "releasing"] /\ wait \in [Attempts -> Waits]
        BY <1>1, <1>2 DEF SignInTypeOK, Exchanging, IsCurrent, IsPending, StepTo
    <2>2. attempt' \in PendingAttempts /\ attempt'.id = g /\ attempt' # Nil
        BY <2>1, SignInAssumption DEF PendingAttempts
    <2>3. /\ \A h \in Attempts : (IsPending(h) <=> h = g) /\ (IsPending(h)' <=> h = g)
          /\ wait'[g].at = "releasing"
        BY <1>2, <2>1, <2>2 DEF IsPending, IsCurrent, Waits
    <2>4. phases[g] = "pending"
        BY <1>1, <2>3 DEF PhasesOK, PhaseOK, Callback!UnderWay, StepAt, Called
    <2>5. PhasesOK'
        BY <2>1, <2>3 DEF PhasesOK, PhaseOK, Callback!UnderWay, Called
    <2>6. Seen[g] = "pending" /\ Seen' = [Seen EXCEPT ![g] = "exchanging"]
        BY <2>1, <2>4 DEF Seen, PhaseShown
    <2>7. Callback!CallBack(g)
        BY <2>6 DEF Callback!CallBack, Callback!Moves, Seen
    <2> QED
        BY <2>5, <2>7 DEF CallbackStep, Callback!Next
<1>3. CASE ~IsCurrent(g)
    BY <1>1, <1>3, OthersWait, CallbackFinishes DEF Exchanging
<1> QED
    BY <1>2, <1>3

LEMMA CallbackWaits ==
    ASSUME SignInInvariant, PhasesOK, NEW g \in Attempts, WaitSteps(g) \/ SocketFails(g)
    PROVE  CallbackStep
<1>1. SignInTypeOK /\ wait \in [Attempts -> Waits]
    BY DEF SignInInvariant, SignInTypeOK
<1>2. CASE StopWaiting(g) \/ SocketFails(g) \/ NotSpawned(g)
    BY <1>1, <1>2, OthersWait, CallbackFinishes DEF StopWaiting, SocketFails, NotSpawned, EndWait
<1>3. CASE LaunchAdmitted(g)
    <2>1. CASE StepTo(g, "closing") /\ FinishAttempt(g, "failed")
        BY <1>1, <2>1, OthersWait, CallbackFinishes
    <2>2. CASE StepTo(g, "opening") /\ UNCHANGED <<attempt, phases>>
        BY <1>1, <1>3, <2>2, CallbackRests DEF LaunchAdmitted, StepAt, StepTo, Waits, Called
    <2> QED
        BY <1>3, <2>1, <2>2 DEF LaunchAdmitted
<1>4. CASE LaunchEnds(g)
    <2>1. CASE StepTo(g, "closing") /\ FinishAttempt(g, "failed")
        BY <1>1, <2>1, OthersWait, CallbackFinishes
    <2>2. CASE /\ UNCHANGED <<attempt, phases>>
               /\ \/ StepTo(g, "waiting")
                  \/ wait' = [wait EXCEPT ![g].at = "unspawned", ![g].bound = FALSE]
        BY <1>1, <1>4, <2>2, CallbackRests DEF LaunchEnds, StepAt, StepTo, Waits, Called
    <2> QED
        BY <1>4, <2>1, <2>2 DEF LaunchEnds
<1>5. CASE Accept(g) \/ GiveUpReading(g)
    <2>1. /\ UNCHANGED <<attempt, phases>> /\ wait[g].at \in {"waiting", "reading"}
          /\ \E r, since : \E at \in {"waiting", "reading"} :
                wait' = [wait EXCEPT ![g].at = at, ![g].since = since, ![g].reading = r]
                \/ wait' = [wait EXCEPT ![g].at = at, ![g].reading = r]
        BY <1>5 DEF Accept, GiveUpReading, StepAt
    <2>2. \A h \in Attempts : /\ h # g => wait'[h] = wait[h]
                              /\ h = g => wait'[h].at \in {"waiting", "reading"}
        BY <1>1, <2>1 DEF Waits
    <2> QED
        BY <2>1, <2>2, CallbackRests DEF Called
<1>6. CASE ReadRequest(g)
    <2>1. PICK r : LET result == ParseRequest(r, g)
                   IN  /\ wait' = [wait EXCEPT ![g].reading = Nil,
                                      ![g].at = CASE result = "ignore" -> "waiting"
                                                  [] result = "denied" -> "closing"
                                                  [] result = "code" -> "coded",
                                      ![g].taken = IF result = "code" THEN r ELSE @]
                       /\ IF result = "denied" THEN FinishAttempt(g, "failed")
                          ELSE UNCHANGED <<attempt, phases>>
        BY <1>6 DEF ReadRequest
    <2> DEFINE result == ParseRequest(r, g)
    <2>2. result \in {"ignore", "denied", "code"}
        BY DEF ParseRequest, ParseTarget
    <2>3. /\ wait'[g].at \in {"waiting", "closing", "coded"} /\ wait[g].at = "reading"
          /\ \A h \in Attempts \ {g} : wait'[h] = wait[h]
        BY <1>1, <1>6, <2>1, <2>2 DEF ReadRequest, StepAt, Waits
    <2>4. CASE result = "denied"
        BY <1>1, <2>1, <2>3, <2>4, CallbackFinishes
    <2>5. CASE result # "denied"
        BY <2>1, <2>3, <2>5, CallbackRests DEF Called
    <2> QED
        BY <2>4, <2>5
<1>7. CASE Exchanging(g)
    BY <1>7, CallbackComes
<1>8. CASE Release(g)
    BY <1>1, <1>8, CallbackRests DEF Release, StepAt, Waits, Called
<1>9. CASE ExchangeEnds(g)
    <2>1. IsPending(g) => phases[g] = "exchanging"
        BY <1>9 DEF ExchangeEnds, StepAt, PhasesOK, PhaseOK, Called
    <2> QED
        BY <1>1, <1>9, <2>1, OthersWait, CallbackFinishes DEF ExchangeEnds
<1> QED
    BY <1>2, <1>3, <1>4, <1>5, <1>6, <1>7, <1>8, <1>9 DEF WaitSteps

LEMMA CallbackSteps ==
    ASSUME SignInInvariant, PhasesOK, [SignInNext]_signInVars
    PROVE  CallbackStep
<1>1. SignInTypeOK /\ wait \in [Attempts -> Waits]
    BY DEF SignInInvariant, SignInTypeOK
<1>2. CASE UNCHANGED <<attempt, phases, wait>>
    BY <1>2, CallbackRests
<1>3. CASE \E g \in Attempts : ProviderAnswers(g)
    <2>1. UNCHANGED <<attempt, phases>> /\ \A g \in Attempts : wait'[g].at = wait[g].at
        BY <1>1, <1>3 DEF ProviderAnswers, Connect, Waits
    <2> QED
        BY <2>1, CallbackRests
<1>4. CASE \E g \in Attempts, p \in Ports : StartSignIn(g, p)
    BY <1>4, CallbackBegins
<1>5. CASE \E g \in Attempts : WaitSteps(g) \/ SocketFails(g)
    BY <1>5, CallbackWaits
<1>6. CASE ExpireAttempt \/ CancelAttempt
    BY <1>1, <1>6, CallbackEnds DEF ExpireAttempt, CancelAttempt, PastDeadline
<1> QED
    BY <1>2, <1>3, <1>4, <1>5, <1>6
    DEF SignInNext, signInVars, ProbeConnects, Connect, SecondPasses

\* However late the browser, the thread, a probe, a deadline or a cancellation
\* is, the attempts live the lives the operator is promised: one is pending at
\* a time, and none ends twice or connects before it was called back.
THEOREM CallbacksImplement == SignInSpec => Callback!Spec
<1>1. SignInInit => SignInInvariant /\ PhasesOK /\ Callback!Init
    <2> SUFFICES ASSUME SignInInit
                 PROVE  SignInInvariant /\ PhasesOK /\ Callback!Init
        OBVIOUS
    <2>1. SignInInvariant
        BY SignInStarts
    <2>2. PhasesOK
        BY DEF SignInInit, PhasesOK, PhaseOK, IsPending, Callback!UnderWay
    <2>3. Callback!Init
        BY DEF SignInInit, Callback!Init, PhaseShown
    <2> QED
        BY <2>1, <2>2, <2>3
<1>2. SignInInvariant /\ PhasesOK /\ [SignInNext]_signInVars
      => SignInInvariant' /\ PhasesOK' /\ [Callback!Next]_Seen
    BY SignInKeeps, CallbackSteps DEF CallbackStep
<1> QED
    BY <1>1, <1>2, PTL DEF SignInSpec, Callback!Spec, Seen

-----------------------------------------------------------------------------
(* Accounts and grants *)

GrantStates ==
    [items : [Grants -> GrantRecords \cup {Nil}],
     active : [Connections -> [id : Reads, context : Contexts] \cup {Nil}],
     cancelled : [Runs -> Nat]]
LifePhases == {"none", "pending", "exchanging", "cancelled", "failed", "connected", "lost"}
Lives == [pending : [id : Connections, deadline : Nat] \cup {Nil},
          phase : [Connections -> LifePhases],
          refreshes : [Connections -> 0..MaxRefreshes], grants : GrantStates]
Trying == {"opening", "launched", "waiting", "exchanging"}
Flows == Trying \cup {"none", "failing", "done"}
ReadRecords == [pc : Reading \cup {"none", "refreshing", "failed", "delivered"},
                context : Contexts \cup {Nil}]
RefreshRecords == [pc : {"none", "sent", "done"}, connection : Connections \cup {Nil},
                   read : Reads \cup {Nil}]
RowRecords == [state : {"none", "staged", "live"}, scopes : SUBSET Operations]
Locks == [op : {"none", "signin", "refresh", "disconnect"},
          at : {"free", "stage", "write", "publish", "commit", "mark", "remove", "delete"},
          connection : Connections \cup {Nil}, task : 0..MaxRefreshes, scopes : SUBSET Operations]

ConnectorTypeOK ==
    /\ now \in Nat /\ life \in Lives /\ lock \in Locks
    /\ flow \in [Connections -> Flows] /\ refresh \in [Turns -> RefreshRecords]
    /\ read \in [Reads -> ReadRecords] /\ row \in [Connections -> RowRecords]
    /\ secret \in [Connections -> 0..MaxRefreshes \cup {Nil}]
    /\ dropped \subseteq Connections /\ issued \subseteq Grants /\ ended \subseteq Grants \X Runs

\* A read that was begun has a context, a refresh that was begun a connection,
\* and refreshes take their turns in order.
TasksOK ==
    /\ \A d \in Reads : read[d].pc # "none" => read[d].context \in Contexts
    /\ \A n \in Turns : refresh[n].pc # "none" =>
          /\ refresh[n].connection \in Connections
          /\ refresh[n].read # Nil => read[refresh[n].read].pc # "none"
          /\ \A k \in 1..(n - 1) : refresh[k].pc # "none"

\* A connection that is being signed in was not stored yet; one that is listed
\* was signed in, or its sign-in is at its last step.
SigningLock(c) == lock.op = "signin" /\ lock.connection = c
AccountOK(c) ==
    /\ secret[c] # Nil => row[c].state # "none"
    /\ c \in dropped => row[c].state # "live"
    /\ \/ flow[c] \in {"failing", "done"}
       \/ SigningLock(c)
       \/ row[c] = NoRow /\ secret[c] = Nil /\ c \notin dropped
    /\ Live(c) => flow[c] = "done" \/ (SigningLock(c) /\ lock.at = "commit")
    /\ life.phase[c] \in {"cancelled", "failed"} => ~Live(c)
    /\ Current(life, c) =>
          /\ life.phase[c] \in {"pending", "exchanging"}
          /\ flow[c] \in Trying \cup {"failing"}

\* The credential is of a refresh that was begun, and no later one than the
\* refresh that holds the lease.
SecretOK(c) ==
    /\ secret[c] \in Turns /\ secret[c] # Nil => refresh[secret[c]].pc # "none"
    /\ life.refreshes[c] # 0 => /\ refresh[life.refreshes[c]].pc # "none"
                                /\ secret[c] # Nil => secret[c] <= life.refreshes[c]

Writing == {"stage", "write", "publish", "commit"}
Removing == {"remove", "delete"}
\* What the operation under the lock may count on at its next step
LockOK ==
    \/ lock = Free
    \/ /\ lock.connection \in Connections
       /\ \/ /\ lock.op = "signin" /\ lock.at \in Writing \cup Removing /\ lock.task = 0
             /\ flow[lock.connection] = "exchanging" /\ lock.connection \notin dropped
             /\ lock.at \in {"stage", "write"} => secret[lock.connection] = Nil
             /\ lock.at = "commit" => Current(life, lock.connection)
          \/ /\ lock.op = "refresh" /\ lock.at \in Writing \cup Removing \cup {"mark"}
             /\ lock.task \in Turns /\ refresh[lock.task].pc = "sent"
             /\ refresh[lock.task].connection = lock.connection
             /\ flow[lock.connection] = "done"
             /\ lock.at \in Writing =>
                   /\ lock.connection \notin dropped
                   /\ life.phase[lock.connection] \notin {"cancelled", "failed"}
                   /\ life.refreshes[lock.connection] = lock.task
          \/ /\ lock.op = "disconnect" /\ lock.at \in Removing \cup {"mark"}
             /\ flow[lock.connection] \in {"failing", "done"}
       /\ lock.at \in {"write", "publish"} => row[lock.connection].state = "staged"
       /\ lock.at = "commit" => Live(lock.connection)
       /\ lock.at \in Writing \ {"stage"} => row[lock.connection].scopes = lock.scopes
       /\ lock.at = "remove" => ~Live(lock.connection)
       /\ lock.at = "delete" => ~Live(lock.connection) /\ secret[lock.connection] = Nil

\* A grant reads a listed connection within its scopes; under the lock only the
\* grants of a refresh that keeps the scopes are left.
ScopeOK(g) ==
    LET grant == life.grants.items[g]
        c == grant.connection
    IN  /\ grant.operations \subseteq row[c].scopes
        /\ \/ Live(c)
           \/ lock.connection = c /\ lock.at \in {"write", "publish"}
        /\ lock.connection = c =>
              lock.op = "refresh" /\ lock.at \in Writing /\ grant.operations \subseteq lock.scopes

\* What withdrew the authority of a run took the grant, or it fences the run as
\* long as the grant lasts.
AuthorityOK ==
    /\ \A g \in Registered(life.grants) :
          /\ g \in issued /\ life.grants.items[g].expires <= now + GrantSpan
          /\ \A r \in Runs : <<g, r>> \in ended =>
                \/ life.grants.items[g].workspace # WorkspaceOf[r]
                \/ life.grants.items[g].expires <= life.grants.cancelled[r]
    /\ \A g \in Grants, r \in Runs : <<g, r>> \in ended => g \in issued

AccountsOK ==
    /\ ConnectorTypeOK /\ TasksOK /\ LockOK
    /\ \A c \in Connections : AccountOK(c) /\ SecretOK(c)
ConnectorInvariant ==
    /\ AccountsOK /\ AuthorityOK
    /\ \A g \in Registered(life.grants) : ScopeOK(g)

-----------------------------------------------------------------------------
(* The records of grants *)

\* From s to t grants and fences go, but no fence a remaining grant needs.
Weaker(s, t) ==
    /\ t \in GrantStates
    /\ \A g \in Grants : t.items[g] = s.items[g] \/ t.items[g] = Nil
    /\ \A g \in Registered(t), r \in Runs :
          t.items[g].expires <= s.cancelled[r] => t.items[g].expires <= t.cancelled[r]

LEMMA GrantsTyped ==
    ASSUME NEW s \in GrantStates
    PROVE  /\ \A g \in Registered(s) : /\ g \in Grants /\ s.items[g] \in GrantRecords
                                       /\ s.items[g].expires \in Nat
                                       /\ s.items[g].connection \in Connections
           /\ \A r \in Runs : s.cancelled[r] \in Nat
           /\ \A c \in Connections : s.active[c] # Nil =>
                 s.active[c] \in [id : Reads, context : Contexts]
<1>1. \A g \in Registered(s) : g \in Grants /\ s.items[g] \in GrantRecords
    BY DEF Registered, GrantStates
<1>2. \A grant \in GrantRecords : grant.expires \in Nat /\ grant.connection \in Connections
    BY DEF GrantRecords
<1> QED
    BY <1>1, <1>2 DEF GrantStates

LEMMA ItemsChange ==
    ASSUME NEW s \in GrantStates,
           NEW items \in [Grants -> GrantRecords \cup {Nil}],
           NEW active \in [Connections -> [id : Reads, context : Contexts] \cup {Nil}],
           NEW cancelled \in [Runs -> Nat],
           NEW t, t = [s EXCEPT !.items = items, !.active = active, !.cancelled = cancelled]
    PROVE  t \in GrantStates /\ t.items = items /\ t.active = active /\ t.cancelled = cancelled
BY DEF GrantStates

LEMMA Same ==
    ASSUME NEW s \in GrantStates
    PROVE  Weaker(s, s)
BY DEF Weaker

\* Only the active reads change.
LEMMA ActiveWeaker ==
    ASSUME NEW s \in GrantStates, NEW t,
           NEW active \in [Connections -> [id : Reads, context : Contexts] \cup {Nil}],
           t = [s EXCEPT !.active = active]
    PROVE  Weaker(s, t)
<1>1. t \in GrantStates /\ t.items = s.items /\ t.cancelled = s.cancelled
    BY DEF GrantStates
<1> QED
    BY <1>1 DEF Weaker, Registered

LEMMA RevokedWeaker ==
    ASSUME NEW s \in GrantStates, NEW ids
    PROVE  /\ Weaker(s, Revoked(s, ids))
           /\ Registered(Revoked(s, ids)) = Registered(s) \ ids
           /\ Revoked(s, ids).cancelled = s.cancelled
<1> DEFINE items == [g \in Grants |-> IF g \in ids THEN Nil ELSE s.items[g]]
           active == [c \in Connections |->
                         IF s.active[c] # Nil /\ s.active[c].context.grant \in ids THEN Nil
                         ELSE s.active[c]]
           t == Revoked(s, ids)
<1>1. t = [s EXCEPT !.items = items, !.active = active]
    BY DEF Revoked
<1>2. /\ items \in [Grants -> GrantRecords \cup {Nil}]
      /\ active \in [Connections -> [id : Reads, context : Contexts] \cup {Nil}]
    BY DEF GrantStates
<1>3. \A g \in Grants : items[g] = IF g \in ids THEN Nil ELSE s.items[g]
    OBVIOUS
<1> HIDE DEF items, active
<1>4. t \in GrantStates /\ t.items = items /\ t.cancelled = s.cancelled
    BY <1>1, <1>2 DEF GrantStates
<1> HIDE DEF t
<1>5. Registered(t) = Registered(s) \ ids
    BY <1>3, <1>4 DEF Registered
<1>6. Weaker(s, t)
    BY <1>3, <1>4 DEF Weaker, Registered
<1> QED
    BY <1>4, <1>5, <1>6 DEF t

LEMMA RevokedConnectionWeaker ==
    ASSUME NEW s \in GrantStates, NEW c \in Connections
    PROVE  /\ Weaker(s, RevokedConnection(s, c))
           /\ \A g \in Registered(RevokedConnection(s, c)) : s.items[g].connection # c
<1> DEFINE items == [g \in Grants |->
                        IF s.items[g] # Nil /\ s.items[g].connection = c THEN Nil ELSE s.items[g]]
           active == [s.active EXCEPT ![c] = Nil]
           t == RevokedConnection(s, c)
<1>1. t = [s EXCEPT !.items = items, !.active = active]
    BY DEF RevokedConnection
<1>2. /\ items \in [Grants -> GrantRecords \cup {Nil}]
      /\ active \in [Connections -> [id : Reads, context : Contexts] \cup {Nil}]
    BY DEF GrantStates
<1>3. \A g \in Grants :
         items[g] = IF s.items[g] # Nil /\ s.items[g].connection = c THEN Nil ELSE s.items[g]
    OBVIOUS
<1> HIDE DEF items, active
<1>4. t \in GrantStates /\ t.items = items /\ t.cancelled = s.cancelled
    BY <1>1, <1>2 DEF GrantStates
<1> HIDE DEF t
<1>5. \A g \in Registered(t) : s.items[g].connection # c
    BY <1>3, <1>4 DEF Registered
<1>6. Weaker(s, t)
    BY <1>3, <1>4 DEF Weaker, Registered
<1> QED
    BY <1>5, <1>6 DEF t

\* A fence goes when it is over, and so does every grant it outlives.
LEMMA ExpiredWeaker ==
    ASSUME NEW s \in GrantStates, NEW t \in Nat
    PROVE  /\ Weaker(s, Expired(s, t))
           /\ \A g \in Registered(Expired(s, t)) : s.items[g].expires > t
           /\ \A r \in Runs :
                 Expired(s, t).cancelled[r] = IF s.cancelled[r] > t THEN s.cancelled[r] ELSE 0
<1> DEFINE late == {g \in Registered(s) : s.items[g].expires <= t}
           v == Revoked(s, late)
           cancelled == [r \in Runs |-> IF v.cancelled[r] > t THEN v.cancelled[r] ELSE 0]
           active == [c \in Connections |->
                         IF v.active[c] # Nil /\ v.active[c].context.expires <= t THEN Nil
                         ELSE v.active[c]]
           e == Expired(s, t)
<1>1. /\ Weaker(s, v) /\ v \in GrantStates /\ Registered(v) = Registered(s) \ late
      /\ v.cancelled = s.cancelled
    BY RevokedWeaker DEF Weaker
<1>2. e = [v EXCEPT !.cancelled = cancelled, !.active = active]
    BY DEF Expired
<1> HIDE DEF v
<1>3. /\ cancelled \in [Runs -> Nat]
      /\ active \in [Connections -> [id : Reads, context : Contexts] \cup {Nil}]
    BY <1>1 DEF GrantStates
<1>4. \A r \in Runs : cancelled[r] = IF s.cancelled[r] > t THEN s.cancelled[r] ELSE 0
    BY <1>1
<1> HIDE DEF cancelled, active
<1>5. e \in GrantStates /\ e.items = v.items /\ e.cancelled = cancelled
    BY <1>1, <1>2, <1>3 DEF GrantStates
<1> HIDE DEF e
<1>6. Registered(e) = Registered(s) \ late
    BY <1>1, <1>5 DEF Registered
<1>7. \A g \in Registered(e) : g \in Grants /\ e.items[g] = s.items[g] /\ s.items[g].expires > t
    <2> TAKE g \in Registered(e)
    <2>1. g \in Registered(s) /\ g \notin late /\ e.items[g] # Nil
        BY <1>6 DEF Registered
    <2>2. g \in Grants /\ s.items[g].expires \in Nat
        BY <2>1, GrantsTyped
    <2>3. e.items[g] = s.items[g]
        BY <1>1, <1>5, <2>1, <2>2 DEF Weaker
    <2> QED
        BY <2>1, <2>2, <2>3
<1>8. \A r \in Runs : s.cancelled[r] \in Nat
    BY GrantsTyped
<1>9. \A g \in Registered(e), r \in Runs :
         e.items[g].expires <= s.cancelled[r] => e.items[g].expires <= e.cancelled[r]
    <2> TAKE g \in Registered(e), r \in Runs
    <2>1. e.items[g].expires \in Nat
        BY <1>5, GrantsTyped
    <2> QED
        BY <1>4, <1>5, <1>7, <1>8, <2>1
<1>10. Weaker(s, e)
    BY <1>1, <1>5, <1>9 DEF Weaker
<1> QED
    BY <1>4, <1>5, <1>7, <1>10 DEF e

LEMMA WeakerStill ==
    ASSUME NEW s \in GrantStates, NEW t, NEW v, Weaker(s, t), Weaker(t, v)
    PROVE  Weaker(s, v)
<1>1. \A g \in Registered(v) : g \in Registered(t) /\ v.items[g] = t.items[g]
    BY DEF Weaker, Registered
<1> QED
    BY <1>1 DEF Weaker

\* The read that has ended no longer is active.
LEMMA FinishedWeaker ==
    ASSUME NEW s \in GrantStates, NEW d, NEW context \in Contexts
    PROVE  Weaker(s, Finished(s, d, context)) /\ Finished(s, d, context) \in GrantStates
<1>1. CASE Finished(s, d, context) = s
    BY <1>1, Same
<1>2. CASE Finished(s, d, context) = [s EXCEPT !.active[context.connection] = Nil]
    <2> DEFINE active == [s.active EXCEPT ![context.connection] = Nil]
    <2>1. active \in [Connections -> [id : Reads, context : Contexts] \cup {Nil}]
        BY DEF GrantStates, Contexts
    <2>2. Finished(s, d, context) = [s EXCEPT !.active = active]
        BY <1>2
    <2> HIDE DEF active
    <2>3. Weaker(s, Finished(s, d, context))
        BY <2>1, <2>2, ActiveWeaker
    <2> QED
        BY <2>3 DEF Weaker
<1> QED
    BY <1>1, <1>2 DEF Finished

LEMMA BegunWeaker ==
    ASSUME NEW s \in GrantStates, NEW d \in Reads, NEW context \in Contexts
    PROVE  Weaker(s, Begun(s, d, context)) /\ Begun(s, d, context) \in GrantStates
<1> DEFINE active == [s.active EXCEPT ![context.connection] = [id |-> d, context |-> context]]
<1>1. active \in [Connections -> [id : Reads, context : Contexts] \cup {Nil}]
    BY DEF GrantStates, Contexts
<1>2. Begun(s, d, context) = [s EXCEPT !.active = active]
    BY DEF Begun
<1> HIDE DEF active
<1>3. Weaker(s, Begun(s, d, context))
    BY <1>1, <1>2, ActiveWeaker
<1> QED
    BY <1>3 DEF Weaker

\* The fence of a run that is cancelled outlives every grant, or the grants of
\* its workspace go.
LEMMA CancelledWeaker ==
    ASSUME NEW s \in GrantStates, NEW r \in Runs, NEW t \in Nat,
           \A g \in Registered(s) : s.items[g].expires <= t + GrantSpan
    PROVE  /\ Weaker(s, RunCancelled(s, r, t))
           /\ \A g \in Registered(RunCancelled(s, r, t)) :
                 \/ s.items[g].workspace # WorkspaceOf[r]
                 \/ s.items[g].expires <= RunCancelled(s, r, t).cancelled[r]
<1> DEFINE f == RunFenced(s, r, t)
           ids == GrantsOf(s, WorkspaceOf[r])
<1>1. CASE RunCancelled(s, r, t) = Revoked(s, ids)
    <2>1. \A g \in Registered(Revoked(s, ids)) : g \in Registered(s) /\ g \notin ids
        BY RevokedWeaker
    <2> QED
        BY <1>1, <2>1, RevokedWeaker DEF GrantsOf
<1>2. CASE RunCancelled(s, r, t) = f
    <2> DEFINE cancelled == [s.cancelled EXCEPT ![r] = t + GrantSpan]
               active == [c \in Connections |->
                             IF s.active[c] # Nil /\ s.active[c].context.run = r THEN Nil
                             ELSE s.active[c]]
    <2>1. f = [s EXCEPT !.cancelled = cancelled, !.active = active]
        BY DEF RunFenced
    <2>2. t + GrantSpan \in Nat
        BY GrantAssumption
    <2>3. /\ cancelled \in [Runs -> Nat] /\ cancelled[r] = t + GrantSpan
          /\ \A x \in Runs \ {r} : cancelled[x] = s.cancelled[x]
          /\ active \in [Connections -> [id : Reads, context : Contexts] \cup {Nil}]
        BY <2>2 DEF GrantStates
    <2> HIDE DEF cancelled, active
    <2>4. f \in GrantStates /\ f.items = s.items /\ f.cancelled = cancelled
        BY <2>1, <2>3 DEF GrantStates
    <2> HIDE DEF f
    <2>5. Registered(f) = Registered(s)
        BY <2>4 DEF Registered
    <2>6. \A g \in Registered(f), x \in Runs :
             f.items[g].expires <= s.cancelled[x] => f.items[g].expires <= f.cancelled[x]
        BY <2>3, <2>4, <2>5
    <2>7. Weaker(s, f)
        BY <2>4, <2>6 DEF Weaker
    <2> QED
        BY <1>2, <2>3, <2>4, <2>5, <2>7
<1> QED
    BY <1>1, <1>2 DEF RunCancelled

-----------------------------------------------------------------------------
(* The record of the lifecycle *)

LEMMA LifeChanges ==
    ASSUME NEW l \in Lives
    PROVE  /\ \A t \in GrantStates :
                 LET k == [l EXCEPT !.grants = t]
                 IN  /\ k \in Lives /\ k.grants = t /\ k.pending = l.pending
                     /\ k.phase = l.phase /\ k.refreshes = l.refreshes
           /\ \A c \in Connections, n \in 0..MaxRefreshes :
                 LET k == [l EXCEPT !.refreshes[c] = n]
                 IN  /\ k \in Lives /\ k.grants = l.grants /\ k.pending = l.pending
                     /\ k.phase = l.phase /\ k.refreshes = [l.refreshes EXCEPT ![c] = n]
BY DEF Lives

LEMMA TerminalEnds ==
    ASSUME NEW l \in Lives, l.pending # Nil, NEW phase \in LifePhases
    PROVE  /\ Terminal(l, phase) \in Lives /\ l.pending.id \in Connections
           /\ Terminal(l, phase).pending = Nil
           /\ Terminal(l, phase).phase = [l.phase EXCEPT ![l.pending.id] = phase]
           /\ Terminal(l, phase).refreshes = l.refreshes
           /\ Terminal(l, phase).grants = l.grants
BY DEF Lives, Terminal

\* From l to k at most the pending sign-in ends; but for sign-ins k is as l.
Ends(l, k) ==
    /\ k \in Lives /\ k.refreshes = l.refreshes /\ k.grants = l.grants
    /\ \A c \in Connections : Current(k, c) => Current(l, c)
    /\ \A c \in Connections :
          k.phase[c] = l.phase[c] \/ (Current(l, c) /\ ~Current(k, c))

LEMMA ExpireEnds ==
    ASSUME NEW l \in Lives
    PROVE  /\ Ends(l, Expire(l))
           /\ \A c \in Connections : Current(Expire(l), c) => Expire(l) = l
           /\ Expire(l) = l \/ (Overdue(l) /\ Expire(l) = Terminal(l, "failed"))
<1>1. CASE Overdue(l)
    <2>1. l.pending # Nil /\ Expire(l) = Terminal(l, "failed") /\ "failed" \in LifePhases
        BY <1>1 DEF Expire, Overdue, LifePhases
    <2> DEFINE k == Expire(l)
    <2>2. /\ k \in Lives /\ l.pending.id \in Connections /\ k.pending = Nil
          /\ k.phase = [l.phase EXCEPT ![l.pending.id] = "failed"]
          /\ k.refreshes = l.refreshes /\ k.grants = l.grants
        BY <2>1, TerminalEnds
    <2> HIDE DEF k
    <2>3. \A c \in Connections : ~Current(k, c)
        BY <2>2 DEF Current
    <2>4. l.phase \in [Connections -> LifePhases]
        BY DEF Lives
    <2>5. \A c \in Connections : k.phase[c] = l.phase[c] \/ Current(l, c)
        BY <2>1, <2>2, <2>4 DEF Current
    <2> QED
        BY <1>1, <2>1, <2>2, <2>3, <2>5 DEF Ends, k
<1>2. CASE ~Overdue(l)
    BY <1>2 DEF Expire, Ends
<1> QED
    BY <1>1, <1>2

LEMMA EndsAgain ==
    ASSUME NEW l, NEW k, NEW m, Ends(l, k), Ends(k, m)
    PROVE  Ends(l, m)
BY DEF Ends

LEMMA TerminalIsEnd ==
    ASSUME NEW l \in Lives, l.pending # Nil, NEW phase \in LifePhases
    PROVE  Ends(l, Terminal(l, phase)) /\ \A c \in Connections : ~Current(Terminal(l, phase), c)
<1> DEFINE k == Terminal(l, phase)
<1>1. /\ k \in Lives /\ l.pending.id \in Connections /\ k.pending = Nil
      /\ k.phase = [l.phase EXCEPT ![l.pending.id] = phase]
      /\ k.refreshes = l.refreshes /\ k.grants = l.grants
    BY TerminalEnds
<1> HIDE DEF k
<1>2. l.phase \in [Connections -> LifePhases]
    BY DEF Lives
<1>3. \A c \in Connections : ~Current(k, c)
    BY <1>1 DEF Current
<1>4. \A c \in Connections : k.phase[c] = l.phase[c] \/ Current(l, c)
    BY <1>1, <1>2 DEF Current
<1> QED
    BY <1>1, <1>3, <1>4 DEF Ends, k

LEMMA FinishEnds ==
    ASSUME NEW l \in Lives, NEW c \in Connections, NEW phase \in LifePhases
    PROVE  Ends(l, Finish(l, c, phase)) /\ ~Current(Finish(l, c, phase), c)
<1> DEFINE e == Expire(l)
<1>1. Ends(l, e) /\ e \in Lives
    BY ExpireEnds DEF Ends
<1>2. Finish(l, c, phase) = IF Current(e, c) THEN Terminal(e, phase) ELSE e
    BY DEF Finish
<1> HIDE DEF e
<1>3. CASE Current(e, c)
    <2>1. e.pending # Nil
        BY <1>3 DEF Current
    <2>2. Ends(e, Terminal(e, phase)) /\ ~Current(Terminal(e, phase), c)
        BY <1>1, <2>1, TerminalIsEnd
    <2> QED
        BY <1>1, <1>2, <1>3, <2>2, EndsAgain
<1>4. CASE ~Current(e, c)
    BY <1>1, <1>2, <1>4
<1> QED
    BY <1>3, <1>4

-----------------------------------------------------------------------------
(* What steps leave alone *)

\* A sign-in that ends did not produce the connection.
LifeMoves(c) ==
    /\ Current(life, c)' => Current(life, c)
    /\ life'.phase[c] = life.phase[c] \/ (~Live(c) /\ ~Current(life, c)')

LEMMA OthersMove ==
    ASSUME ConnectorInvariant, Ends(life, life'), NEW c \in Connections, ~SigningLock(c)
    PROVE  LifeMoves(c)
<1>1. Current(life, c) => ~Live(c)
    BY DEF ConnectorInvariant, AccountsOK, AccountOK, Trying
<1> QED
    BY <1>1 DEF LifeMoves, Ends, Current

LEMMA EndsMove ==
    ASSUME ConnectorInvariant, lock = Free, Ends(life, life')
    PROVE  \A c \in Connections : LifeMoves(c)
BY OthersMove DEF SigningLock, Free

LEMMA OtherAccounts ==
    ASSUME NEW c \in Connections, AccountOK(c), LifeMoves(c),
           flow'[c] = flow[c], row'[c] = row[c], secret'[c] = secret[c],
           c \in dropped' => c \in dropped, UNCHANGED lock \/ ~SigningLock(c)
    PROVE  AccountOK(c)'
BY DEF AccountOK, LifeMoves, SigningLock, Current, Live

\* No refresh that was begun is forgotten.
TurnsStay ==
    /\ refresh' \in [Turns -> RefreshRecords]
    /\ \A n \in Turns :
          /\ refresh[n].pc # "none" => refresh'[n].pc # "none"
          /\ refresh'[n].pc # "none" => refresh[n].pc # "none"
          /\ refresh'[n].connection = refresh[n].connection
          /\ refresh'[n].read = refresh[n].read

LEMMA SecretsStay ==
    ASSUME NEW c \in Connections, ConnectorTypeOK, SecretOK(c), TurnsStay, secret'[c] = secret[c],
           life'.refreshes[c] \in {life.refreshes[c], 0}
    PROVE  SecretOK(c)'
<1>1. secret[c] \in Turns /\ secret[c] # Nil => refresh'[secret[c]].pc # "none"
    BY DEF SecretOK, TurnsStay
<1>2. ASSUME life'.refreshes[c] # 0
      PROVE  /\ refresh'[life'.refreshes[c]].pc # "none"
             /\ secret[c] # Nil => secret[c] <= life'.refreshes[c]
    <2>1. life'.refreshes[c] = life.refreshes[c] /\ life.refreshes[c] \in Turns
        BY <1>2 DEF ConnectorTypeOK, Lives, Turns
    <2> QED
        BY <1>2, <2>1 DEF SecretOK, TurnsStay
<1> QED
    BY <1>1, <1>2 DEF SecretOK

\* A read that was begun keeps its context.
ReadsStay ==
    /\ read' \in [Reads -> ReadRecords]
    /\ \A d \in Reads :
          /\ read[d].pc # "none" => read'[d].pc # "none"
          /\ read'[d].pc # "none" => read'[d].context \in Contexts

LEMMA TasksStay ==
    ASSUME ConnectorTypeOK, TasksOK, TurnsStay, ReadsStay
    PROVE  TasksOK'
<1>1. ASSUME NEW n \in Turns, refresh'[n].pc # "none"
      PROVE  /\ refresh'[n].connection \in Connections
             /\ refresh'[n].read # Nil => read'[refresh'[n].read].pc # "none"
             /\ \A k \in 1..(n - 1) : refresh'[k].pc # "none"
    <2>1. /\ refresh[n].pc # "none" /\ refresh'[n].connection = refresh[n].connection
          /\ refresh'[n].read = refresh[n].read
        BY <1>1 DEF TurnsStay
    <2>2. \A k \in 1..(n - 1) : k \in Turns
        BY ConnectorAssumption DEF Turns
    <2>3. refresh[n].read \in Reads \cup {Nil}
        BY DEF ConnectorTypeOK, RefreshRecords
    <2> QED
        BY <2>1, <2>2, <2>3 DEF TasksOK, TurnsStay, ReadsStay
<1> QED
    BY <1>1 DEF TasksOK, ReadsStay

LEMMA Untouched ==
    ASSUME ConnectorTypeOK, TasksOK
    PROVE  UNCHANGED refresh => TurnsStay /\ (UNCHANGED read => ReadsStay)
BY DEF ConnectorTypeOK, TasksOK, TurnsStay, ReadsStay

\* The grants in lost are those whose authority the step withdraws.
LEMMA AuthorityStays ==
    ASSUME ConnectorTypeOK, AuthorityOK, Weaker(life.grants, life'.grants),
           now' \in Nat, now' >= now, UNCHANGED issued, NEW lost,
           ended' = ended \/ ended' = ended \cup (lost \X Runs), lost \subseteq issued,
           \A g \in Registered(life'.grants) : g \notin lost
    PROVE  AuthorityOK'
<1> DEFINE s == life.grants
           t == life'.grants
<1>1. s \in GrantStates /\ t \in GrantStates /\ now \in Nat /\ GrantSpan \in Nat
    BY GrantAssumption DEF ConnectorTypeOK, Lives, Weaker
<1>2. ASSUME NEW g \in Registered(t)
      PROVE  /\ g \in issued' /\ t.items[g].expires <= now' + GrantSpan
             /\ \A r \in Runs : <<g, r>> \in ended' =>
                   \/ t.items[g].workspace # WorkspaceOf[r]
                   \/ t.items[g].expires <= t.cancelled[r]
    <2>1. g \in Grants /\ t.items[g] # Nil /\ t.items[g].expires \in Nat
        BY <1>1, GrantsTyped DEF Registered
    <2>2. g \in Registered(s) /\ t.items[g] = s.items[g]
        BY <2>1 DEF Weaker, Registered
    <2>3. g \in issued /\ t.items[g].expires <= now + GrantSpan
        BY <2>2 DEF AuthorityOK
    <2>4. ASSUME NEW r \in Runs, <<g, r>> \in ended'
          PROVE  \/ t.items[g].workspace # WorkspaceOf[r]
                 \/ t.items[g].expires <= t.cancelled[r]
        <3>1. <<g, r>> \in ended
            BY <2>4
        <3>2. \/ s.items[g].workspace # WorkspaceOf[r]
              \/ s.items[g].expires <= s.cancelled[r]
            BY <2>2, <3>1 DEF AuthorityOK
        <3> QED
            BY <2>2, <3>2 DEF Weaker
    <2>5. t.items[g].expires <= now' + GrantSpan
        BY <1>1, <2>1, <2>3
    <2> QED
        BY <2>3, <2>4, <2>5
<1>3. \A g \in Grants, r \in Runs : <<g, r>> \in ended' => g \in issued'
    BY DEF AuthorityOK
<1> QED
    BY <1>2, <1>3 DEF AuthorityOK

LEMMA ScopesStay ==
    ASSUME ConnectorTypeOK, \A g \in Registered(life.grants) : ScopeOK(g),
           Weaker(life.grants, life'.grants), UNCHANGED <<lock, row>>
    PROVE  \A g \in Registered(life'.grants) : ScopeOK(g)'
<1> TAKE g \in Registered(life'.grants)
<1>1. g \in Registered(life.grants) /\ life'.grants.items[g] = life.grants.items[g]
    BY DEF Weaker, Registered
<1> QED
    BY <1>1 DEF ScopeOK, Live

\* Grants of a connection, and of all
LEMMA GrantsIssued ==
    ASSUME ConnectorTypeOK, AuthorityOK
    PROVE  /\ Registered(life.grants) \subseteq issued
           /\ \A c : ConnectionGrants(c) \subseteq issued
           /\ issued \subseteq Grants
BY DEF AuthorityOK, ConnectionGrants, ConnectorTypeOK

LEMMA GrantsLost ==
    ASSUME ConnectorTypeOK, NEW c \in Connections
    PROVE  /\ Weaker(life.grants, RevokedConnection(life.grants, c))
           /\ \A g \in Registered(RevokedConnection(life.grants, c)) : g \notin ConnectionGrants(c)
<1>1. life.grants \in GrantStates
    BY DEF ConnectorTypeOK, Lives
<1> QED
    BY <1>1, RevokedConnectionWeaker DEF ConnectionGrants

-----------------------------------------------------------------------------
(* Steps that find the lock free *)

LEMMA FreeStep ==
    ASSUME ConnectorInvariant, lock = Free, UNCHANGED <<now, lock, stored, dropped>>,
           life' \in Lives, flow' \in [Connections -> Flows], TurnsStay, ReadsStay,
           \A c \in Connections : (flow'[c] = flow[c] /\ LifeMoves(c)) \/ AccountOK(c)',
           \A c \in Connections : life'.refreshes[c] \in {life.refreshes[c], 0},
           issued' \subseteq Grants, ended' \subseteq Grants \X Runs,
           AuthorityOK', \A g \in Registered(life'.grants) : ScopeOK(g)'
    PROVE  ConnectorInvariant'
<1>1. ConnectorTypeOK /\ TasksOK /\ AccountsOK
    BY DEF ConnectorInvariant, AccountsOK
<1>2. ConnectorTypeOK'
    BY <1>1 DEF ConnectorTypeOK, TurnsStay, ReadsStay, stored
<1>3. TasksOK'
    BY <1>1, TasksStay
<1>4. LockOK'
    BY DEF LockOK
<1>5. ASSUME NEW c \in Connections
      PROVE  AccountOK(c)' /\ SecretOK(c)'
    <2>1. AccountOK(c) /\ SecretOK(c)
        BY <1>1 DEF AccountsOK
    <2>2. AccountOK(c)'
        BY <2>1, OtherAccounts DEF stored
    <2>3. SecretOK(c)'
        BY <1>1, <2>1, SecretsStay DEF stored
    <2> QED
        BY <2>2, <2>3
<1> QED
    BY <1>2, <1>3, <1>4, <1>5 DEF ConnectorInvariant, AccountsOK

\* The sign-ins are as they were.
SignInsStay(l, k) ==
    /\ k \in Lives /\ k.pending = l.pending /\ k.phase = l.phase
    /\ \A c \in Connections : k.refreshes[c] \in {l.refreshes[c], 0}

LEMMA GrantStep ==
    ASSUME ConnectorInvariant, lock = Free, UNCHANGED <<now, lock, flow, stored, dropped>>,
           SignInsStay(life, life'), TurnsStay, ReadsStay,
           issued' \subseteq Grants, ended' \subseteq Grants \X Runs,
           AuthorityOK', \A g \in Registered(life'.grants) : ScopeOK(g)'
    PROVE  ConnectorInvariant'
<1>1. \A c \in Connections : LifeMoves(c)
    BY DEF LifeMoves, Current, SignInsStay
<1>2. flow' \in [Connections -> Flows]
    BY DEF ConnectorInvariant, AccountsOK, ConnectorTypeOK
<1> QED
    BY <1>1, <1>2, FreeStep DEF SignInsStay

\* Grants only go.
LEMMA WeakerStep ==
    ASSUME ConnectorInvariant, lock = Free, UNCHANGED <<now, lock, flow, stored, dropped, issued>>,
           SignInsStay(life, life'), Weaker(life.grants, life'.grants), TurnsStay, ReadsStay,
           NEW lost, lost \subseteq issued, ended' = ended \/ ended' = ended \cup (lost \X Runs),
           \A g \in Registered(life'.grants) : g \notin lost
    PROVE  ConnectorInvariant'
<1>1. ConnectorTypeOK /\ AuthorityOK
    BY DEF ConnectorInvariant, AccountsOK
<1>2. /\ ended' \subseteq Grants \X Runs /\ issued' \subseteq Grants
      /\ now' \in Nat /\ now' >= now
    BY <1>1 DEF ConnectorTypeOK
<1>3. AuthorityOK'
    BY <1>1, <1>2, AuthorityStays
<1>4. \A g \in Registered(life'.grants) : ScopeOK(g)'
    BY <1>1, ScopesStay DEF ConnectorInvariant, stored
<1> QED
    BY <1>2, <1>3, <1>4, GrantStep

LEMMA InvariantTyped ==
    ASSUME ConnectorInvariant
    PROVE  /\ ConnectorTypeOK /\ TasksOK /\ LockOK /\ AuthorityOK
           /\ life \in Lives /\ life.grants \in GrantStates /\ now \in Nat
           /\ \A c \in Connections :
                 AccountOK(c) /\ SecretOK(c) /\ life.refreshes[c] \in 0..MaxRefreshes
BY DEF ConnectorInvariant, AccountsOK, ConnectorTypeOK, Lives

LEMMA RevokingKeeps ==
    ASSUME ConnectorInvariant, NEW g \in Grants, RevokeGrant(g)
    PROVE  ConnectorInvariant'
<1> DEFINE lost == {g}
           t == Revoked(life.grants, lost)
<1>1. /\ lock = Free /\ life' = [life EXCEPT !.grants = t] /\ g \in Registered(life.grants)
      /\ ended' = ended \cup (lost \X Runs)
      /\ UNCHANGED <<now, lock, flow, refresh, read, stored, dropped, issued>>
    BY DEF RevokeGrant, Available, tasks
<1>2. Weaker(life.grants, t) /\ \A x \in Registered(t) : x \notin lost
    BY InvariantTyped, RevokedWeaker
<1>3. lost \subseteq issued
    BY <1>1, InvariantTyped, GrantsIssued
<1>4. TurnsStay /\ ReadsStay
    BY <1>1, InvariantTyped, Untouched
<1> HIDE DEF t, lost
<1>5. SignInsStay(life, life') /\ life'.grants = t
    BY <1>1, <1>2, InvariantTyped, LifeChanges DEF SignInsStay, Weaker
<1> QED
    BY <1>1, <1>2, <1>3, <1>4, <1>5, WeakerStep

LEMMA CancellingKeeps ==
    ASSUME ConnectorInvariant, NEW r \in Runs, CancelRun(r)
    PROVE  ConnectorInvariant'
<1> DEFINE s == Expired(life.grants, now)
           t == RunCancelled(s, r, now)
<1>1. /\ lock = Free /\ life' = [life EXCEPT !.grants = t]
      /\ ended' = ended \cup (Registered(s) \X {r})
      /\ UNCHANGED <<now, lock, flow, refresh, read, stored, dropped, issued>>
    BY DEF CancelRun, Available, tasks
<1>2. Weaker(life.grants, s) /\ s \in GrantStates
    BY InvariantTyped, ExpiredWeaker DEF Weaker
<1>3. \A g \in Registered(s) : g \in Registered(life.grants) /\ s.items[g] = life.grants.items[g]
    BY <1>2 DEF Weaker, Registered
<1>4. \A g \in Registered(s) : s.items[g].expires <= now + GrantSpan
    BY <1>3, InvariantTyped DEF AuthorityOK
<1> HIDE DEF s
<1>5. /\ Weaker(s, t)
      /\ \A g \in Registered(t) : \/ s.items[g].workspace # WorkspaceOf[r]
                                  \/ s.items[g].expires <= t.cancelled[r]
    BY <1>2, <1>4, InvariantTyped, CancelledWeaker
<1> HIDE DEF t
<1>6. Weaker(life.grants, t) /\ t \in GrantStates
    BY <1>2, <1>5, InvariantTyped, WeakerStill DEF Weaker
<1>7. SignInsStay(life, life') /\ life'.grants = t
    BY <1>1, <1>6, InvariantTyped, LifeChanges DEF SignInsStay
<1>8. AuthorityOK'
    <2>1. ASSUME NEW g \in Registered(t)
          PROVE  /\ g \in Registered(life.grants) /\ t.items[g] = life.grants.items[g]
                 /\ t.items[g] = s.items[g]
        BY <1>3, <1>5 DEF Weaker, Registered
    <2>2. ASSUME NEW g \in Registered(t), NEW x \in Runs, <<g, x>> \in ended'
          PROVE  \/ t.items[g].workspace # WorkspaceOf[x]
                 \/ t.items[g].expires <= t.cancelled[x]
        <3>1. CASE x = r
            BY <1>5, <2>1, <3>1
        <3>2. CASE <<g, x>> \in ended
            <4>1. \/ life.grants.items[g].workspace # WorkspaceOf[x]
                  \/ life.grants.items[g].expires <= life.grants.cancelled[x]
                BY <2>1, <3>2, InvariantTyped DEF AuthorityOK
            <4> QED
                BY <1>6, <2>1, <4>1 DEF Weaker
        <3> QED
            BY <1>1, <2>2, <3>1, <3>2
    <2>3. \A g \in Registered(t) : g \in issued' /\ t.items[g].expires <= now' + GrantSpan
        BY <1>1, <2>1, InvariantTyped DEF AuthorityOK
    <2>4. \A g \in Grants, x \in Runs : <<g, x>> \in ended' => g \in issued'
        BY <1>1, <1>3, InvariantTyped DEF AuthorityOK
    <2> QED
        BY <1>7, <2>2, <2>3, <2>4 DEF AuthorityOK
<1>9. \A g \in Registered(life'.grants) : ScopeOK(g)'
    BY <1>1, <1>6, <1>7, InvariantTyped, ScopesStay DEF ConnectorInvariant, stored
<1>10. ended' \subseteq Grants \X Runs /\ issued' \subseteq Grants
    BY <1>1, <1>3, InvariantTyped DEF ConnectorTypeOK, Registered
<1>11. TurnsStay /\ ReadsStay
    BY <1>1, InvariantTyped, Untouched
<1> QED
    BY <1>1, <1>7, <1>8, <1>9, <1>10, <1>11, GrantStep

LEMMA RegisteringKeeps ==
    ASSUME ConnectorInvariant, NEW g \in Grants, NEW grant \in GrantRecords, RegisterGrant(g, grant)
    PROVE  ConnectorInvariant'
<1> DEFINE s == Expired(life.grants, now)
           items == [s.items EXCEPT ![g] = grant]
           t == [s EXCEPT !.items = items]
<1>1. /\ lock = Free /\ Live(grant.connection) /\ g \notin issued /\ issued' = issued \cup {g}
      /\ grant.expires <= now + GrantSpan /\ grant.operations \subseteq row[grant.connection].scopes
      /\ life' = [life EXCEPT !.grants = t]
      /\ UNCHANGED <<now, lock, flow, refresh, read, stored, dropped, ended>>
    BY DEF RegisterGrant, Registrable, Available, tasks
<1>2. Weaker(life.grants, s) /\ s \in GrantStates
    BY InvariantTyped, ExpiredWeaker DEF Weaker
<1> HIDE DEF s
<1>3. /\ items \in [Grants -> GrantRecords \cup {Nil}] /\ items[g] = grant
      /\ \A x \in Grants \ {g} : items[x] = s.items[x]
    BY <1>2 DEF GrantStates
<1> HIDE DEF items
<1>4. t \in GrantStates /\ t.items = items /\ t.cancelled = s.cancelled
    BY <1>2, <1>3 DEF GrantStates
<1> HIDE DEF t
<1>5. SignInsStay(life, life') /\ life'.grants = t
    BY <1>1, <1>4, InvariantTyped, LifeChanges DEF SignInsStay
<1>6. \A x \in Registered(t) \ {g} : /\ x \in Registered(s) /\ t.items[x] = s.items[x]
                                      /\ x \in Registered(life.grants)
                                      /\ t.items[x] = life.grants.items[x]
    BY <1>2, <1>3, <1>4 DEF Weaker, Registered
<1>7. AuthorityOK'
    <2>1. ASSUME NEW x \in Registered(t)
          PROVE  x \in issued' /\ t.items[x].expires <= now' + GrantSpan
        BY <1>1, <1>3, <1>4, <1>6, InvariantTyped DEF AuthorityOK
    <2>2. ASSUME NEW x \in Registered(t), NEW r \in Runs, <<x, r>> \in ended'
          PROVE  \/ t.items[x].workspace # WorkspaceOf[r]
                 \/ t.items[x].expires <= t.cancelled[r]
        <3>1. x \in Grants /\ <<x, r>> \in ended
            BY <1>1, <2>2 DEF Registered
        <3>2. x # g
            BY <1>1, <3>1, InvariantTyped DEF AuthorityOK
        <3>3. \/ life.grants.items[x].workspace # WorkspaceOf[r]
              \/ life.grants.items[x].expires <= life.grants.cancelled[r]
            BY <1>6, <3>1, <3>2, InvariantTyped DEF AuthorityOK
        <3> QED
            BY <1>2, <1>4, <1>6, <3>2, <3>3 DEF Weaker
    <2>3. \A x \in Grants, r \in Runs : <<x, r>> \in ended' => x \in issued'
        BY <1>1, InvariantTyped DEF AuthorityOK
    <2> QED
        BY <1>5, <2>1, <2>2, <2>3 DEF AuthorityOK
<1>8. ASSUME NEW x \in Registered(life'.grants)
      PROVE  ScopeOK(x)'
    <2>1. CASE x = g
        <3>1. grant.connection \in Connections /\ Free.connection = Nil
            BY DEF GrantRecords, Free
        <3>2. lock.connection # grant.connection
            BY <1>1, <3>1, GrantAssumption
        <3>3. life'.grants.items[x] = grant
            BY <1>3, <1>4, <1>5, <2>1
        <3> QED
            BY <1>1, <3>2, <3>3 DEF ScopeOK, Live, stored
    <2>2. CASE x # g
        <3>1. x \in Registered(life.grants) /\ life'.grants.items[x] = life.grants.items[x]
            BY <1>5, <1>6, <1>8, <2>2
        <3>2. ScopeOK(x)
            BY <3>1 DEF ConnectorInvariant
        <3> QED
            BY <1>1, <3>1, <3>2 DEF ScopeOK, Live, stored
    <2> QED
        BY <2>1, <2>2
<1>9. ended' \subseteq Grants \X Runs /\ issued' \subseteq Grants
    BY <1>1, InvariantTyped DEF ConnectorTypeOK
<1>10. TurnsStay /\ ReadsStay
    BY <1>1, InvariantTyped, Untouched
<1> QED
    BY <1>1, <1>5, <1>7, <1>8, <1>9, <1>10, GrantStep

\* A step of a read: its grant may go, and so may its lease.
LEMMA ReadMoves ==
    ASSUME ConnectorInvariant, NEW d \in Reads, read[d].pc # "none",
           NEW pc \in Reading \cup {"refreshing", "failed", "delivered"},
           read' = [read EXCEPT ![d].pc = pc]
    PROVE  ReadsStay
<1> DEFINE w == [read[d] EXCEPT !.pc = pc]
<1>1. ConnectorTypeOK /\ TasksOK /\ read[d] \in ReadRecords
    BY InvariantTyped DEF ConnectorTypeOK
<1>2. w \in ReadRecords /\ w.pc = pc /\ w.context = read[d].context /\ pc # "none"
    BY <1>1 DEF ReadRecords, Reading
<1>3. read' = [read EXCEPT ![d] = w]
    OBVIOUS
<1> HIDE DEF w
<1>4. read' \in [Reads -> ReadRecords] /\ \A x \in Reads : read'[x] = IF x = d THEN w ELSE read[x]
    BY <1>1, <1>2, <1>3 DEF ConnectorTypeOK
<1> QED
    BY <1>1, <1>2, <1>4 DEF ReadsStay, TasksOK

LEMMA ReadingKeeps ==
    ASSUME ConnectorInvariant, NEW d \in Reads, NEW t, Weaker(life.grants, t), lock = Free,
           read[d].pc # "none", NEW pc \in Reading \cup {"refreshing", "failed", "delivered"},
           read' = [read EXCEPT ![d].pc = pc], life' = [life EXCEPT !.grants = t],
           UNCHANGED <<now, lock, flow, refresh, stored, history>>
    PROVE  ConnectorInvariant'
<1> DEFINE lost == {}
<1>1. ReadsStay /\ TurnsStay
    BY ReadMoves, InvariantTyped, Untouched
<1>2. SignInsStay(life, life') /\ life'.grants = t
    BY InvariantTyped, LifeChanges DEF SignInsStay, Weaker
<1>3. /\ UNCHANGED <<now, lock, flow, stored, dropped, issued>> /\ ended' = ended
      /\ lost \subseteq issued /\ \A g \in Registered(life'.grants) : g \notin lost
    BY DEF history
<1> HIDE DEF lost
<1> QED
    BY <1>1, <1>2, <1>3, WeakerStep

LEMMA ExpiringIsWeaker ==
    ASSUME ConnectorInvariant
    PROVE  LET s == Expired(life.grants, now)
           IN  /\ Weaker(life.grants, s) /\ s \in GrantStates
               /\ WithGrantsExpired(life) = [life EXCEPT !.grants = s]
               /\ WithGrantsExpired(life) \in Lives /\ WithGrantsExpired(life).grants = s
               /\ SignInsStay(life, WithGrantsExpired(life))
               /\ WithGrantsExpired(life).refreshes = life.refreshes
<1> DEFINE s == Expired(life.grants, now)
<1>1. Weaker(life.grants, s) /\ s \in GrantStates
    BY InvariantTyped, ExpiredWeaker DEF Weaker
<1>2. WithGrantsExpired(life) = [life EXCEPT !.grants = s]
    BY DEF WithGrantsExpired
<1> HIDE DEF s
<1>3. /\ WithGrantsExpired(life) \in Lives /\ WithGrantsExpired(life).grants = s
      /\ SignInsStay(life, WithGrantsExpired(life))
      /\ WithGrantsExpired(life).refreshes = life.refreshes
    BY <1>1, <1>2, InvariantTyped, LifeChanges DEF SignInsStay
<1> QED
    BY <1>1, <1>2, <1>3 DEF s

LEMMA GrantsTwice ==
    ASSUME NEW l \in Lives, NEW s, NEW t
    PROVE  [[l EXCEPT !.grants = s] EXCEPT !.grants = t] = [l EXCEPT !.grants = t]
BY DEF Lives

LEMMA ReadStepsKeep ==
    ASSUME ConnectorInvariant, NEW d \in Reads,
           \/ UsesCredential(d) \/ Request(d) \/ Response(d)
           \/ Returns(d) \/ Deliver(d) \/ ReadFails(d)
    PROVE  ConnectorInvariant'
<1> DEFINE s == Expired(life.grants, now)
<1>1. /\ Weaker(life.grants, s) /\ s \in GrantStates
      /\ WithGrantsExpired(life) = [life EXCEPT !.grants = s]
    BY ExpiringIsWeaker
<1> HIDE DEF s
<1>2. ASSUME NEW from \in Reading, NEW to \in Reading, ReadStep(d, from, to)
      PROVE  ConnectorInvariant'
    <2>1. /\ read[d].pc = from /\ lock = Free /\ read' = [read EXCEPT ![d].pc = to]
          /\ life' = [life EXCEPT !.grants = s]
          /\ UNCHANGED <<now, lock, flow, refresh, stored, history>>
        BY <1>1, <1>2 DEF ReadStep, Checked, Available
    <2>2. read[d].pc # "none"
        BY <2>1 DEF Reading
    <2> QED
        BY <1>1, <2>1, <2>2, ReadingKeeps
<1>3. CASE UsesCredential(d) \/ Request(d) \/ Response(d)
    BY <1>2, <1>3 DEF UsesCredential, Request, Response, Reading
<1>4. CASE Returns(d)
    <2> DEFINE t == Finished(s, d, read[d].context)
    <2>1. /\ read[d].pc = "projected" /\ lock = Free /\ read' = [read EXCEPT ![d].pc = "returned"]
          /\ life' = ReadReleased(WithGrantsExpired(life), d)
          /\ UNCHANGED <<now, lock, flow, refresh, stored, history>>
        BY <1>4 DEF Returns, Checked, Available
    <2>2. read[d].context \in Contexts
        BY <2>1, InvariantTyped DEF TasksOK
    <2>3. Weaker(life.grants, t)
        BY <1>1, <2>2, InvariantTyped, FinishedWeaker, WeakerStill
    <2>4. life' = [[life EXCEPT !.grants = s] EXCEPT !.grants = t]
        <3>1. [life EXCEPT !.grants = s].grants = s
            BY InvariantTyped DEF Lives
        <3> QED
            BY <1>1, <2>1, <3>1 DEF ReadReleased
    <2> HIDE DEF t
    <2>5. life' = [life EXCEPT !.grants = t]
        BY <2>4, InvariantTyped, GrantsTwice
    <2>6. read[d].pc # "none" /\ "returned" \in Reading
        BY <2>1 DEF Reading
    <2> QED
        BY <2>1, <2>3, <2>5, <2>6, ReadingKeeps
<1>5. CASE Deliver(d)
    <2>1. /\ read[d].pc = "returned" /\ lock = Free /\ read' = [read EXCEPT ![d].pc = "delivered"]
          /\ life' = [life EXCEPT !.grants = s]
          /\ UNCHANGED <<now, lock, flow, refresh, stored, history>>
        BY <1>5 DEF Deliver, Available, s
    <2> QED
        BY <1>1, <2>1, ReadingKeeps
<1>6. CASE ReadFails(d)
    <2> DEFINE t == Finished(life.grants, d, read[d].context)
    <2>1. /\ read[d].pc \in Reading /\ lock = Free /\ read' = [read EXCEPT ![d].pc = "failed"]
          /\ life' = [life EXCEPT !.grants = t]
          /\ UNCHANGED <<now, lock, flow, refresh, stored, history>>
        BY <1>6 DEF ReadFails, Available, ReadReleased
    <2>2. read[d].pc # "none"
        BY <2>1 DEF Reading
    <2>3. Weaker(life.grants, t)
        BY <2>2, InvariantTyped, FinishedWeaker DEF TasksOK
    <2> HIDE DEF t
    <2> QED
        BY <2>1, <2>2, <2>3, ReadingKeeps
<1> QED
    BY <1>3, <1>4, <1>5, <1>6

LEMMA BeginningReadKeeps ==
    ASSUME ConnectorInvariant, NEW d \in Reads, NEW context \in Contexts, BeginRead(d, context)
    PROVE  ConnectorInvariant'
<1> DEFINE s == Expired(life.grants, now)
           t == Begun(s, d, context)
           w == [pc |-> "begun", context |-> context]
           lost == {}
<1>1. /\ lock = Free /\ read' = [read EXCEPT ![d] = w] /\ life' = [life EXCEPT !.grants = t]
      /\ UNCHANGED <<now, lock, flow, refresh, stored, dropped, issued>> /\ ended' = ended
      /\ lost \subseteq issued /\ \A g \in Registered(t) : g \notin lost
    BY DEF BeginRead, Available, history
<1>2. Weaker(life.grants, t)
    BY InvariantTyped, ExpiringIsWeaker, BegunWeaker, WeakerStill
<1>3. w \in ReadRecords /\ w.pc = "begun" /\ w.context = context
    BY DEF ReadRecords, Reading
<1> HIDE DEF w, t, lost
<1>4. SignInsStay(life, life') /\ life'.grants = t
    BY <1>1, <1>2, InvariantTyped, LifeChanges DEF SignInsStay, Weaker
<1>5. ReadsStay
    <2>1. /\ read' \in [Reads -> ReadRecords]
          /\ \A x \in Reads : read'[x] = IF x = d THEN w ELSE read[x]
        BY <1>1, <1>3, InvariantTyped DEF ConnectorTypeOK
    <2> QED
        BY <1>3, <2>1, InvariantTyped DEF ReadsStay, TasksOK
<1>6. TurnsStay
    BY <1>1, InvariantTyped, Untouched
<1> QED
    BY <1>1, <1>2, <1>4, <1>5, <1>6, WeakerStep

\* A turn of refreshing ends.
LEMMA TurnEnds ==
    ASSUME ConnectorTypeOK, NEW n \in Turns, refresh[n].pc # "none",
           refresh' = [refresh EXCEPT ![n].pc = "done"]
    PROVE  TurnsStay
<1> DEFINE w == [refresh[n] EXCEPT !.pc = "done"]
<1>1. /\ w \in RefreshRecords /\ w.pc = "done" /\ w.connection = refresh[n].connection
      /\ w.read = refresh[n].read
    BY DEF ConnectorTypeOK, RefreshRecords
<1>2. refresh' = [refresh EXCEPT ![n] = w]
    OBVIOUS
<1> HIDE DEF w
<1>3. /\ refresh' \in [Turns -> RefreshRecords]
      /\ \A k \in Turns : refresh'[k] = IF k = n THEN w ELSE refresh[k]
    BY <1>1, <1>2 DEF ConnectorTypeOK
<1> QED
    BY <1>1, <1>3 DEF TurnsStay

LEMMA TurnTyped ==
    ASSUME ConnectorTypeOK, TasksOK, NEW n \in Turns, refresh[n].pc # "none"
    PROVE  /\ refresh[n].connection \in Connections /\ refresh[n].read \in Reads \cup {Nil}
           /\ refresh[n].read # Nil => /\ read[refresh[n].read].pc # "none"
                                       /\ read[refresh[n].read].context \in Contexts
BY DEF ConnectorTypeOK, TasksOK, RefreshRecords

LEMMA ReadEndsToo ==
    ASSUME ConnectorInvariant, NEW n \in Turns, refresh[n].pc # "none",
           NEW pc \in {"failed", "ready"}, ReadEnds(refresh[n].read, pc)
    PROVE  ReadsStay
<1>1. CASE refresh[n].read = Nil
    BY <1>1, InvariantTyped, Untouched DEF ReadEnds, TasksOK, ReadsStay, ConnectorTypeOK
<1>2. CASE refresh[n].read # Nil
    <2>1. refresh[n].read \in Reads /\ read[refresh[n].read].pc # "none"
        BY <1>2, InvariantTyped, TurnTyped
    <2>2. read' = [read EXCEPT ![refresh[n].read].pc = pc] /\ pc \in Reading \cup {"failed"}
        BY <1>2 DEF ReadEnds, Reading
    <2> QED
        BY <2>1, <2>2, ReadMoves
<1> QED
    BY <1>1, <1>2

LEMMA ReleasedStays ==
    ASSUME NEW l \in Lives, NEW n, refresh[n].connection \in Connections
    PROVE  /\ SignInsStay(l, Released(l, n)) /\ Released(l, n) \in Lives
           /\ Released(l, n).grants = l.grants
<1> DEFINE c == refresh[n].connection
           k == [l EXCEPT !.refreshes[c] = 0]
<1>1. 0 \in 0..MaxRefreshes
    BY ConnectorAssumption
<1>2. /\ k \in Lives /\ k.grants = l.grants /\ k.pending = l.pending /\ k.phase = l.phase
      /\ k.refreshes = [l.refreshes EXCEPT ![c] = 0]
    BY <1>1, LifeChanges
<1>3. Released(l, n) = k \/ Released(l, n) = l
    BY DEF Released
<1> HIDE DEF k, c
<1>4. l.refreshes \in [Connections -> 0..MaxRefreshes]
    BY DEF Lives
<1>5. SignInsStay(l, k) /\ SignInsStay(l, l)
    BY <1>2, <1>4 DEF SignInsStay
<1> QED
    BY <1>2, <1>3, <1>5

LEMMA RefreshEndsStays ==
    ASSUME ConnectorInvariant, NEW n \in Turns, refresh[n].pc # "none"
    PROVE  /\ SignInsStay(life, RefreshEnds(life, n))
           /\ Weaker(life.grants, RefreshEnds(life, n).grants)
<1> DEFINE l == Released(life, n)
           d == refresh[n].read
           t == Finished(l.grants, d, read[d].context)
<1>1. SignInsStay(life, l) /\ l \in Lives /\ l.grants = life.grants
    BY InvariantTyped, TurnTyped, ReleasedStays
<1>2. Weaker(life.grants, l.grants)
    BY <1>1, InvariantTyped, Same
<1>3. CASE d = Nil
    BY <1>1, <1>2, <1>3 DEF RefreshEnds
<1>4. CASE d # Nil
    <2>1. RefreshEnds(life, n) = [l EXCEPT !.grants = t]
        BY <1>4 DEF RefreshEnds, ReadReleased
    <2>2. Weaker(life.grants, t) /\ t \in GrantStates
        BY <1>1, <1>4, InvariantTyped, TurnTyped, FinishedWeaker
    <2> HIDE DEF l, t
    <2>3. /\ RefreshEnds(life, n) \in Lives /\ RefreshEnds(life, n).grants = t
          /\ RefreshEnds(life, n).pending = l.pending /\ RefreshEnds(life, n).phase = l.phase
          /\ RefreshEnds(life, n).refreshes = l.refreshes
        BY <1>1, <2>1, <2>2, LifeChanges
    <2> QED
        BY <1>1, <2>2, <2>3 DEF SignInsStay
<1> QED
    BY <1>3, <1>4

LEMMA RefreshFailsKeeps ==
    ASSUME ConnectorInvariant, NEW n \in Turns, RefreshFails(n)
    PROVE  ConnectorInvariant'
<1> DEFINE lost == {}
<1>1. /\ lock = Free /\ refresh[n].pc = "sent" /\ life' = RefreshEnds(life, n)
      /\ refresh' = [refresh EXCEPT ![n].pc = "done"] /\ ReadEnds(refresh[n].read, "failed")
      /\ UNCHANGED <<now, lock, flow, stored, dropped, issued>> /\ ended' = ended
      /\ lost \subseteq issued /\ \A g \in Registered(life'.grants) : g \notin lost
    BY DEF RefreshFails, Available, history
<1> HIDE DEF lost
<1>2. TurnsStay /\ ReadsStay
    BY <1>1, InvariantTyped, TurnEnds, ReadEndsToo
<1>3. SignInsStay(life, life') /\ Weaker(life.grants, life'.grants)
    BY <1>1, RefreshEndsStays
<1> QED
    BY <1>1, <1>2, <1>3, WeakerStep

\* The refresh that begins is the last to have begun: it may overwrite what the
\* earlier ones stored.
LEMMA RefreshBegins ==
    ASSUME ConnectorInvariant, NEW n \in Turns, NEW c \in Connections, NEW d \in Reads \cup {Nil},
           BeginRefresh(n, c, d), NEW l, SignInsStay(life, l), Weaker(life.grants, l.grants),
           l.refreshes = life.refreshes, life' = [l EXCEPT !.refreshes[c] = n], ReadsStay,
           d # Nil => read'[d].pc # "none",
           UNCHANGED <<now, lock, flow, stored, history>>
    PROVE  ConnectorInvariant'
<1> DEFINE w == [pc |-> "sent", connection |-> c, read |-> d]
<1>1. /\ lock = Free /\ refresh[n].pc = "none" /\ \A k \in 1..(n - 1) : refresh[k].pc # "none"
      /\ refresh' = [refresh EXCEPT ![n] = w]
    BY DEF BeginRefresh, Available
<1>2. w \in RefreshRecords /\ w.pc = "sent" /\ w.connection = c /\ w.read = d
    BY DEF RefreshRecords
<1> HIDE DEF w
<1>3. ConnectorTypeOK /\ TasksOK /\ n \in 0..MaxRefreshes /\ l \in Lives
    BY InvariantTyped DEF Turns, SignInsStay
<1>4. /\ refresh' \in [Turns -> RefreshRecords]
      /\ \A k \in Turns : refresh'[k] = IF k = n THEN w ELSE refresh[k]
    BY <1>1, <1>2, <1>3 DEF ConnectorTypeOK
<1>5. /\ life' \in Lives /\ life'.grants = l.grants /\ life'.pending = life.pending
      /\ life'.phase = life.phase /\ life'.refreshes = [life.refreshes EXCEPT ![c] = n]
    BY <1>3, LifeChanges DEF SignInsStay
<1>6. ConnectorTypeOK'
    BY <1>3, <1>4, <1>5 DEF ConnectorTypeOK, ReadsStay, stored, history
<1>7. TasksOK'
    <2>1. ASSUME NEW k \in Turns, refresh'[k].pc # "none"
          PROVE  /\ refresh'[k].connection \in Connections
                 /\ refresh'[k].read # Nil => read'[refresh'[k].read].pc # "none"
                 /\ \A j \in 1..(k - 1) : refresh'[j].pc # "none"
        <3>1. \A j \in 1..(k - 1) : j \in Turns
            BY ConnectorAssumption DEF Turns
        <3>2. CASE k = n
            BY <1>1, <1>2, <1>4, <3>1, <3>2
        <3>3. CASE k # n
            <4>1. refresh[k].pc # "none" /\ refresh'[k] = refresh[k]
                BY <1>4, <2>1, <3>3
            <4>2. refresh[k].read \in Reads \cup {Nil}
                BY <1>3 DEF ConnectorTypeOK, RefreshRecords
            <4>3. \A j \in 1..(k - 1) : refresh[j].pc # "none" /\ j # n
                BY <1>1, <1>3, <4>1 DEF TasksOK
            <4> QED
                BY <1>3, <1>4, <3>1, <4>1, <4>2, <4>3 DEF TasksOK, ReadsStay
        <3> QED
            BY <3>2, <3>3
    <2> QED
        BY <2>1 DEF TasksOK, ReadsStay
<1>8. LockOK'
    BY <1>1 DEF LockOK
<1>9. ASSUME NEW k \in Connections
      PROVE  AccountOK(k)' /\ SecretOK(k)'
    <2>1. LifeMoves(k)
        BY <1>5 DEF LifeMoves, Current
    <2>2. AccountOK(k)'
        BY <2>1, InvariantTyped, OtherAccounts DEF stored, history
    <2>3. secret'[k] = secret[k] /\ secret[k] \in 0..MaxRefreshes \cup {Nil}
        BY <1>3 DEF stored, ConnectorTypeOK
    <2>4. secret[k] \in Turns /\ secret[k] # Nil => refresh[secret[k]].pc # "none" /\ secret[k] # n
        BY <1>1, InvariantTyped DEF SecretOK
    <2>5. secret'[k] \in Turns /\ secret'[k] # Nil => refresh'[secret'[k]].pc # "none"
        BY <1>4, <2>3, <2>4
    <2>6. CASE k = c
        <3>1. life'.refreshes[k] = n
            BY <1>5, <2>6, <1>3 DEF ConnectorTypeOK, Lives
        <3>2. ASSUME secret[k] # Nil
              PROVE  secret[k] <= n
            <4>1. secret[k] \in 0..MaxRefreshes
                BY <2>3, <3>2
            <4>2. CASE secret[k] = 0
                BY <1>3, <4>2, ConnectorAssumption
            <4>3. CASE secret[k] \in Turns
                <5>1. ~(n \in 1..(secret[k] - 1))
                    BY <1>1, <1>3, <2>4, <3>2, <4>3 DEF TasksOK
                <5> QED
                    BY <5>1, <4>3, ConnectorAssumption DEF Turns
            <4> QED
                BY <4>1, <4>2, <4>3, ConnectorAssumption DEF Turns
        <3> QED
            BY <1>2, <1>4, <2>2, <2>3, <2>5, <3>1, <3>2 DEF SecretOK
    <2>7. CASE k # c
        <3>1. life'.refreshes[k] = life.refreshes[k] /\ life.refreshes[k] \in 0..MaxRefreshes
            BY <1>5, <2>7, <1>3 DEF ConnectorTypeOK, Lives
        <3>2. life.refreshes[k] # 0 => life.refreshes[k] \in Turns
            BY <3>1, ConnectorAssumption DEF Turns
        <3>3. life.refreshes[k] # 0 => /\ refresh[life.refreshes[k]].pc # "none"
                                       /\ secret[k] # Nil => secret[k] <= life.refreshes[k]
            BY InvariantTyped DEF SecretOK
        <3> QED
            BY <1>2, <1>4, <2>2, <2>3, <2>5, <3>1, <3>2, <3>3 DEF SecretOK
    <2> QED
        BY <2>6, <2>7
<1>10. AuthorityOK'
    <2> DEFINE lost == {}
    <2>1. /\ lost \subseteq issued /\ \A g \in Registered(life'.grants) : g \notin lost
          /\ ended' = ended /\ now' \in Nat /\ now' >= now
        BY InvariantTyped DEF history
    <2> HIDE DEF lost
    <2> QED
        BY <1>5, <2>1, InvariantTyped, AuthorityStays DEF history
<1>11. \A g \in Registered(life'.grants) : ScopeOK(g)'
    BY <1>3, <1>5, ScopesStay DEF ConnectorInvariant, stored
<1> QED
    BY <1>6, <1>7, <1>8, <1>9, <1>10, <1>11 DEF ConnectorInvariant, AccountsOK

LEMMA RefreshesBegin ==
    ASSUME ConnectorInvariant, NEW n \in Turns,
           \/ \E c \in Connections : RefreshByOperator(n, c)
           \/ \E d \in Reads : RefreshByRead(n, d)
    PROVE  ConnectorInvariant'
<1>1. ASSUME NEW c \in Connections, RefreshByOperator(n, c)
      PROVE  ConnectorInvariant'
    <2>1. /\ BeginRefresh(n, c, Nil) /\ life' = [life EXCEPT !.refreshes[c] = n]
          /\ UNCHANGED <<now, lock, flow, read, stored, history>>
        BY <1>1 DEF RefreshByOperator
    <2>2. ReadsStay
        BY <2>1, InvariantTyped DEF ReadsStay, TasksOK, ConnectorTypeOK
    <2>3. SignInsStay(life, life) /\ Weaker(life.grants, life.grants)
        BY InvariantTyped, Same DEF SignInsStay
    <2> QED
        BY <2>1, <2>2, <2>3, RefreshBegins
<1>2. ASSUME NEW d \in Reads, RefreshByRead(n, d)
      PROVE  ConnectorInvariant'
    <2> DEFINE c == read[d].context.connection
               l == WithGrantsExpired(life)
    <2>1. /\ read[d].pc = "begun" /\ BeginRefresh(n, c, d)
          /\ read' = [read EXCEPT ![d].pc = "refreshing"]
          /\ life' = [l EXCEPT !.refreshes[c] = n]
          /\ UNCHANGED <<now, lock, flow, stored, history>>
        BY <1>2 DEF RefreshByRead
    <2>2. c \in Connections
        BY <2>1, InvariantTyped DEF TasksOK, Contexts
    <2>3. ReadsStay
        BY <2>1, ReadMoves
    <2>4. /\ SignInsStay(life, l) /\ Weaker(life.grants, l.grants)
          /\ l.refreshes = life.refreshes
        BY ExpiringIsWeaker
    <2>5. read'[d].pc # "none"
        BY <2>1, <2>3 DEF ReadsStay
    <2> HIDE DEF c, l
    <2> QED
        BY <2>1, <2>2, <2>3, <2>4, <2>5, RefreshBegins
<1> QED
    BY <1>1, <1>2

-----------------------------------------------------------------------------
(* Steps of a sign-in *)

\* The grants and refreshes are as they were.
LEMMA SignInStep ==
    ASSUME ConnectorInvariant, lock = Free,
           UNCHANGED <<now, lock, refresh, read, stored, history>>,
           life' \in Lives, life'.refreshes = life.refreshes, life'.grants = life.grants,
           flow' \in [Connections -> Flows],
           \A c \in Connections : (flow'[c] = flow[c] /\ LifeMoves(c)) \/ AccountOK(c)'
    PROVE  ConnectorInvariant'
<1> DEFINE lost == {}
<1>1. /\ lost \subseteq issued /\ \A g \in Registered(life'.grants) : g \notin lost
      /\ ended' = ended /\ now' \in Nat /\ now' >= now
      /\ ended' \subseteq Grants \X Runs /\ issued' \subseteq Grants
    BY InvariantTyped DEF history, ConnectorTypeOK
<1> HIDE DEF lost
<1>2. Weaker(life.grants, life'.grants)
    BY InvariantTyped, Same
<1>3. AuthorityOK'
    BY <1>1, <1>2, InvariantTyped, AuthorityStays DEF history
<1>4. \A g \in Registered(life'.grants) : ScopeOK(g)'
    BY <1>2, InvariantTyped, ScopesStay DEF ConnectorInvariant, stored
<1>5. TurnsStay /\ ReadsStay
    BY InvariantTyped, Untouched
<1>6. \A c \in Connections : life'.refreshes[c] \in {life.refreshes[c], 0}
    OBVIOUS
<1> QED
    BY <1>1, <1>3, <1>4, <1>5, <1>6, FreeStep DEF history

\* A step of the task of c, by which the pending sign-in may end
LEMMA EndingStep ==
    ASSUME ConnectorInvariant, lock = Free, NEW c \in Connections, NEW to \in Flows,
           UNCHANGED <<now, lock, refresh, read, stored, history>>, Ends(life, life'),
           flow' = [flow EXCEPT ![c] = to], flow[c] \in Trying \cup {"failing"},
           (to \in Trying /\ flow[c] # "failing") \/ (to = "done" /\ ~Current(life, c)')
    PROVE  ConnectorInvariant'
<1>1. /\ ConnectorTypeOK /\ life' \in Lives /\ life'.refreshes = life.refreshes
      /\ life'.grants = life.grants
    BY InvariantTyped DEF Ends
<1>2. /\ flow' \in [Connections -> Flows] /\ flow'[c] = to
      /\ \A k \in Connections \ {c} : flow'[k] = flow[k]
    BY <1>1 DEF ConnectorTypeOK
<1>3. \A k \in Connections : LifeMoves(k)
    BY EndsMove
<1>4. ~Live(c) /\ ~SigningLock(c) /\ AccountOK(c) /\ LifeMoves(c)
    BY <1>3, InvariantTyped DEF AccountOK, SigningLock, Free, Trying
<1>5. CASE to = "done"
    <2>1. AccountOK(c)'
        BY <1>2, <1>4, <1>5
           DEF AccountOK, SigningLock, LifeMoves, Current, Live, stored, history, Trying
    <2> QED
        BY <1>1, <1>2, <1>3, <2>1, SignInStep
<1>6. CASE to \in Trying /\ flow[c] # "failing"
    <2>1. AccountOK(c)'
        BY <1>2, <1>4, <1>6
           DEF AccountOK, SigningLock, LifeMoves, Current, Live, stored, history, Trying
    <2> QED
        BY <1>1, <1>2, <1>3, <2>1, SignInStep
<1> QED
    BY <1>5, <1>6

LEMMA StartingKeeps ==
    ASSUME ConnectorInvariant, NEW c \in Connections, StartGoogle(c)
    PROVE  ConnectorInvariant'
<1> DEFINE l == Expire(life)
           p == [id |-> c, deadline |-> now + SignInSpan]
<1>1. /\ lock = Free /\ flow[c] = "none" /\ l.pending = Nil
      /\ life' = [l EXCEPT !.phase[c] = "pending", !.pending = p]
      /\ flow' = [flow EXCEPT ![c] = "opening"]
      /\ UNCHANGED <<now, lock, refresh, read, stored, history>>
    BY DEF StartGoogle, Available
<1>2. Ends(life, l) /\ l \in Lives
    BY InvariantTyped, ExpireEnds DEF Ends
<1> HIDE DEF l
<1>3. p \in [id : Connections, deadline : Nat] /\ p.id = c
    BY InvariantTyped, ConnectorAssumption
<1> HIDE DEF p
<1>4. /\ life' \in Lives /\ life'.pending = p /\ life'.phase = [l.phase EXCEPT ![c] = "pending"]
      /\ life'.refreshes = life.refreshes /\ life'.grants = life.grants
    BY <1>1, <1>2, <1>3 DEF Lives, LifePhases, Ends
<1>5. l.phase \in [Connections -> LifePhases]
    BY <1>2 DEF Lives
<1>6. /\ flow' \in [Connections -> Flows] /\ flow'[c] = "opening"
      /\ \A k \in Connections \ {c} : flow'[k] = flow[k]
    BY <1>1, InvariantTyped DEF ConnectorTypeOK, Flows, Trying
<1>7. \A k \in Connections : Current(life, k) => ~Live(k)
    BY <1>1, InvariantTyped DEF AccountOK, SigningLock, Free, Trying
<1>8. ASSUME NEW k \in Connections \ {c}
      PROVE  LifeMoves(k)
    <2>1. ~Current(life, k)'
        BY <1>3, <1>4 DEF Current
    <2>2. life'.phase[k] = l.phase[k]
        BY <1>4, <1>5
    <2> QED
        BY <1>2, <1>7, <2>1, <2>2 DEF LifeMoves, Ends
<1>9. AccountOK(c)'
    <2>1. AccountOK(c) /\ ~SigningLock(c)
        BY <1>1, InvariantTyped DEF SigningLock, Free
    <2>2. row[c] = NoRow /\ secret[c] = Nil /\ c \notin dropped /\ ~Live(c)
        BY <1>1, <2>1 DEF AccountOK, Live, NoRow
    <2>3. life'.phase[c] = "pending"
        BY <1>4, <1>5
    <2> QED
        BY <1>1, <1>6, <2>1, <2>2, <2>3 DEF AccountOK, Live, stored, history, Trying, SigningLock
<1> QED
    BY <1>1, <1>4, <1>6, <1>8, <1>9, SignInStep

LEMMA CallsBackKeeps ==
    ASSUME ConnectorInvariant, NEW c \in Connections, CallsBack(c)
    PROVE  ConnectorInvariant'
<1>1. /\ lock = Free /\ flow[c] = "waiting" /\ flow' = [flow EXCEPT ![c] = "exchanging"]
      /\ Current(Expire(life), c) /\ life' = [Expire(life) EXCEPT !.phase[c] = "exchanging"]
      /\ UNCHANGED <<now, lock, refresh, read, stored, history>>
    BY DEF CallsBack, Available
<1>2. Expire(life) = life
    BY <1>1, InvariantTyped, ExpireEnds
<1>3. /\ life' \in Lives /\ life'.phase = [life.phase EXCEPT ![c] = "exchanging"]
      /\ life'.pending = life.pending /\ life'.refreshes = life.refreshes
      /\ life'.grants = life.grants
    BY <1>1, <1>2, InvariantTyped DEF Lives, LifePhases
<1>4. /\ flow' \in [Connections -> Flows] /\ flow'[c] = "exchanging"
      /\ \A k \in Connections \ {c} : flow'[k] = flow[k]
    BY <1>1, InvariantTyped DEF ConnectorTypeOK, Flows, Trying
<1>5. life.phase \in [Connections -> LifePhases]
    BY InvariantTyped DEF Lives
<1>6. \A k \in Connections \ {c} : LifeMoves(k)
    BY <1>3, <1>5 DEF LifeMoves, Current
<1>7. AccountOK(c)'
    <2>1. AccountOK(c) /\ ~SigningLock(c) /\ Current(life, c)
        BY <1>1, <1>2, InvariantTyped DEF SigningLock, Free
    <2>2. life'.phase[c] = "exchanging"
        BY <1>3, <1>5
    <2> QED
        BY <1>1, <1>4, <2>1, <2>2
           DEF AccountOK, Live, stored, history, Trying, SigningLock, Current
<1> QED
    BY <1>1, <1>3, <1>4, <1>6, <1>7, SignInStep

LEMMA SignInsMove ==
    ASSUME ConnectorInvariant, NEW c \in Connections,
           \/ Snapshot \/ Cancel(c) \/ OpensBrowser(c) \/ Launched(c) \/ FlowFails(c)
    PROVE  ConnectorInvariant'
<1>1. Ends(life, Expire(life)) /\ Expire(life) \in Lives
    BY InvariantTyped, ExpireEnds DEF Ends
<1>2. CASE Snapshot \/ Cancel(c)
    <2>1. lock = Free /\ UNCHANGED <<now, lock, flow, refresh, read, stored, history>>
        BY <1>2 DEF Snapshot, Cancel, Available, tasks
    <2>2. Ends(life, life')
        <3>1. CASE Snapshot
            BY <1>1, <3>1 DEF Snapshot
        <3>2. CASE Cancel(c)
            <4>1. Current(Expire(life), c) /\ life' = Terminal(Expire(life), "cancelled")
                BY <3>2 DEF Cancel
            <4>2. Ends(Expire(life), life')
                BY <1>1, <4>1, TerminalIsEnd DEF Current, LifePhases
            <4> QED
                BY <1>1, <4>2, EndsAgain
        <3> QED
            BY <1>2, <3>1, <3>2
    <2>3. \A k \in Connections : LifeMoves(k)
        BY <2>1, <2>2, EndsMove
    <2>4. /\ flow' \in [Connections -> Flows] /\ life' \in Lives
          /\ life'.refreshes = life.refreshes /\ life'.grants = life.grants
        BY <2>1, <2>2, InvariantTyped DEF ConnectorTypeOK, Ends
    <2> QED
        BY <2>1, <2>3, <2>4, SignInStep
<1>3. CASE OpensBrowser(c)
    <2> DEFINE to == IF Current(life', c) THEN "launched" ELSE "done"
    <2>1. /\ lock = Free /\ flow[c] = "opening" /\ life' = Expire(life)
          /\ flow' = [flow EXCEPT ![c] = to]
          /\ UNCHANGED <<now, lock, refresh, read, stored, history>>
        BY <1>3 DEF OpensBrowser, Available
    <2>2. to \in Flows /\ (to \in Trying \/ (to = "done" /\ ~Current(life, c)'))
        BY DEF Flows, Trying, Current
    <2> HIDE DEF to
    <2> QED
        BY <1>1, <2>1, <2>2, EndingStep DEF Trying
<1>4. CASE Launched(c)
    <2>1. /\ lock = Free /\ flow[c] = "launched" /\ life' = Expire(life)
          /\ flow' = [flow EXCEPT ![c] = "waiting"]
          /\ UNCHANGED <<now, lock, refresh, read, stored, history>>
        BY <1>4 DEF Launched, Available
    <2>2. "waiting" \in Flows /\ "waiting" \in Trying
        BY DEF Flows, Trying
    <2> QED
        BY <1>1, <2>1, <2>2, EndingStep DEF Trying
<1>5. CASE FlowFails(c)
    <2>1. /\ lock = Free /\ flow[c] \in {"launched", "waiting", "exchanging", "failing"}
          /\ life' = Finish(life, c, "failed") /\ flow' = [flow EXCEPT ![c] = "done"]
          /\ UNCHANGED <<now, lock, refresh, read, stored, history>>
        BY <1>5 DEF FlowFails, Available
    <2>2. Ends(life, life') /\ ~Current(life', c)
        BY <2>1, InvariantTyped, FinishEnds DEF LifePhases
    <2>3. "done" \in Flows /\ flow[c] \in Trying \cup {"failing"} /\ ~Current(life, c)'
        BY <2>1, <2>2 DEF Flows, Trying, Current
    <2> QED
        BY <2>1, <2>2, <2>3, EndingStep
<1> QED
    BY <1>2, <1>3, <1>4, <1>5

-----------------------------------------------------------------------------
(* The lock is taken *)

\* With the lock free, every grant reads a listed connection.
LEMMA GrantsListed ==
    ASSUME ConnectorInvariant, lock = Free, NEW g \in Registered(life.grants)
    PROVE  LET grant == life.grants.items[g]
           IN  /\ Live(grant.connection) /\ grant.connection \in Connections
               /\ grant.operations \subseteq row[grant.connection].scopes
<1>1. life.grants.items[g].connection \in Connections
    BY InvariantTyped, GrantsTyped
<1>2. lock.connection # life.grants.items[g].connection
    BY <1>1, GrantAssumption DEF Free
<1> QED
    BY <1>1, <1>2 DEF ConnectorInvariant, ScopeOK

LEMMA LockTaken ==
    ASSUME ConnectorInvariant, lock = Free, UNCHANGED <<now, tasks, stored, dropped, issued>>,
           SignInsStay(life, life'), Weaker(life.grants, life'.grants), lock' \in Locks, LockOK',
           NEW lost, lost \subseteq issued, ended' = ended \/ ended' = ended \cup (lost \X Runs),
           \A g \in Registered(life'.grants) : g \notin lost,
           \A g \in Registered(life'.grants) :
              life.grants.items[g].connection = lock'.connection =>
                 /\ lock'.op = "refresh" /\ lock'.at \in Writing
                 /\ life.grants.items[g].operations \subseteq lock'.scopes
    PROVE  ConnectorInvariant'
<1>1. ended' \subseteq Grants \X Runs /\ now' \in Nat /\ now' >= now
    BY InvariantTyped DEF ConnectorTypeOK
<1>2. ConnectorTypeOK'
    BY <1>1, InvariantTyped DEF ConnectorTypeOK, SignInsStay, tasks, stored
<1>3. TurnsStay /\ ReadsStay
    BY InvariantTyped, Untouched DEF tasks
<1>4. TasksOK'
    BY <1>3, InvariantTyped, TasksStay
<1>5. ASSUME NEW c \in Connections
      PROVE  AccountOK(c)' /\ SecretOK(c)'
    <2>1. LifeMoves(c) /\ ~SigningLock(c)
        BY DEF LifeMoves, Current, SignInsStay, SigningLock, Free
    <2>2. AccountOK(c)'
        BY <2>1, InvariantTyped, OtherAccounts DEF tasks, stored
    <2>3. SecretOK(c)'
        BY <1>3, InvariantTyped, SecretsStay DEF SignInsStay, stored
    <2> QED
        BY <2>2, <2>3
<1>6. AuthorityOK'
    BY <1>1, InvariantTyped, AuthorityStays
<1>7. ASSUME NEW g \in Registered(life'.grants)
      PROVE  ScopeOK(g)'
    <2>1. g \in Registered(life.grants) /\ life'.grants.items[g] = life.grants.items[g]
        BY DEF Weaker, Registered
    <2>2. LET grant == life.grants.items[g]
          IN  Live(grant.connection) /\ grant.operations \subseteq row[grant.connection].scopes
        BY <2>1, GrantsListed
    <2> QED
        BY <2>1, <2>2 DEF ScopeOK, Live, stored
<1> QED
    BY <1>2, <1>4, <1>5, <1>6, <1>7 DEF ConnectorInvariant, AccountsOK

\* The accounts of free sign-ins, refreshes and disconnections
LEMMA AccountsFree ==
    ASSUME ConnectorInvariant, lock = Free, NEW c \in Connections
    PROVE  /\ flow[c] = "exchanging" =>
                 row[c] = NoRow /\ secret[c] = Nil /\ c \notin dropped /\ ~Live(c)
           /\ Live(c) => /\ flow[c] = "done" /\ c \notin dropped
                         /\ life.phase[c] \notin {"cancelled", "failed"}
           /\ row[c] # NoRow \/ secret[c] # Nil => flow[c] \in {"failing", "done"}
<1>1. AccountOK(c) /\ ~SigningLock(c)
    BY InvariantTyped DEF SigningLock, Free
<1> QED
    BY <1>1 DEF AccountOK, Live, NoRow

LEMMA SignInTakes ==
    ASSUME ConnectorInvariant, NEW c \in Connections, NEW scopes \in SUBSET Operations,
           CommitNew(c, scopes)
    PROVE  ConnectorInvariant'
<1> DEFINE lost == {}
<1>1. /\ lock = Free /\ flow[c] = "exchanging" /\ life' = Expire(life) /\ Current(life', c)
      /\ lock' = [Free EXCEPT !.op = "signin", !.at = "stage", !.connection = c, !.scopes = scopes]
      /\ UNCHANGED <<now, tasks, stored, dropped, issued>> /\ ended' = ended
      /\ lost \subseteq issued /\ \A g \in Registered(life'.grants) : g \notin lost
    BY DEF CommitNew, Available, history
<1> HIDE DEF lost
<1>2. life' = life
    BY <1>1, InvariantTyped, ExpireEnds
<1>3. SignInsStay(life, life') /\ Weaker(life.grants, life'.grants)
    BY <1>2, InvariantTyped, Same DEF SignInsStay
<1>4. /\ lock' \in Locks /\ lock'.op = "signin" /\ lock'.at = "stage" /\ lock'.connection = c
      /\ lock'.task = 0
    <2>1. lock' = [op |-> "signin", at |-> "stage", connection |-> c, task |-> 0,
                   scopes |-> scopes]
        BY <1>1 DEF Free
    <2>2. 0 \in 0..MaxRefreshes
        BY ConnectorAssumption
    <2> QED
        BY <2>1, <2>2 DEF Locks
<1>5. secret[c] = Nil /\ c \notin dropped /\ ~Live(c)
    BY <1>1, AccountsFree
<1>6. LockOK'
    BY <1>1, <1>4, <1>5 DEF LockOK, Writing, Removing, tasks, stored
<1>7. \A g \in Registered(life'.grants) : life.grants.items[g].connection # lock'.connection
    BY <1>1, <1>2, <1>4, <1>5, GrantsListed
<1> QED
    BY <1>1, <1>3, <1>4, <1>6, <1>7, LockTaken

\* What remains when the grants of an account go, after others have
LEMMA WithoutGrantsStays ==
    ASSUME ConnectorInvariant, NEW c \in Connections, NEW l,
           SignInsStay(life, l), Weaker(life.grants, l.grants), l.refreshes = life.refreshes
    PROVE  LET k == WithoutGrants(l, c)
           IN  /\ SignInsStay(life, k) /\ Weaker(life.grants, k.grants)
               /\ k.refreshes = life.refreshes
               /\ \A g \in Registered(k.grants) : /\ g \notin ConnectionGrants(c)
                                                  /\ life.grants.items[g].connection # c
<1> DEFINE t == RevokedConnection(l.grants, c)
           k == WithoutGrants(l, c)
<1>1. l \in Lives /\ l.grants \in GrantStates /\ life.grants \in GrantStates
    BY InvariantTyped DEF SignInsStay, Lives
<1>2. Weaker(l.grants, t) /\ \A g \in Registered(t) : l.grants.items[g].connection # c
    BY <1>1, RevokedConnectionWeaker
<1>3. k = [l EXCEPT !.grants = t]
    BY DEF WithoutGrants
<1> HIDE DEF t, k
<1>4. Weaker(life.grants, t) /\ t \in GrantStates
    BY <1>1, <1>2, WeakerStill DEF Weaker
<1>5. \A g \in Registered(t) : life.grants.items[g].connection # c
    <2> TAKE g \in Registered(t)
    <2>1. g \in Grants /\ g \in Registered(l.grants) /\ l.grants.items[g] = life.grants.items[g]
        BY <1>2 DEF Weaker, Registered
    <2> QED
        BY <1>2, <2>1
<1>6. k.grants = t /\ SignInsStay(life, k) /\ k.refreshes = life.refreshes
    BY <1>1, <1>3, <1>4, LifeChanges DEF SignInsStay
<1> QED
    BY <1>4, <1>5, <1>6 DEF k, ConnectionGrants

LEMMA RefreshTakes ==
    ASSUME ConnectorInvariant, NEW n \in Turns,
           RefusesScopes(n) \/ \E scopes \in SUBSET Operations : CommitRefresh(n, scopes)
    PROVE  ConnectorInvariant'
<1> DEFINE c == refresh[n].connection
           lost == ConnectionGrants(c)
           l == IF refresh[n].read = Nil THEN life ELSE WithGrantsExpired(life)
<1>1. SignInsStay(life, l) /\ Weaker(life.grants, l.grants) /\ l.refreshes = life.refreshes
    BY InvariantTyped, Same, ExpiringIsWeaker DEF SignInsStay
<1>2. /\ lock = Free /\ refresh[n].pc = "sent" /\ l.refreshes[c] = n /\ Live(c)
      /\ UNCHANGED <<now, tasks, stored, dropped, issued>>
    <2>1. CASE RefusesScopes(n)
        BY <2>1 DEF RefusesScopes, Available, Committable, CurrentRefresh
    <2>2. CASE \E scopes \in SUBSET Operations : CommitRefresh(n, scopes)
        BY <2>2 DEF CommitRefresh, Available, Committable, CurrentRefresh
    <2> QED
        BY <2>1, <2>2
<1>3. c \in Connections /\ lost \subseteq issued
    BY <1>2, InvariantTyped, TurnTyped, GrantsIssued
<1>4. /\ flow[c] = "done" /\ c \notin dropped /\ life.phase[c] \notin {"cancelled", "failed"}
    BY <1>2, <1>3, AccountsFree
<1>5. n \in 0..MaxRefreshes
    BY ConnectorAssumption DEF Turns
<1>6. ASSUME NEW at \in {"stage", "mark"}, NEW scopes \in SUBSET Operations,
             lock' = [op |-> "refresh", at |-> at, connection |-> c, task |-> n,
                      scopes |-> scopes],
             SignInsStay(life, life'), life'.refreshes = life.refreshes
      PROVE  lock' \in Locks /\ LockOK'
    <2>1. lock' \in Locks
        BY <1>3, <1>5, <1>6 DEF Locks
    <2>2. life'.phase = life.phase
        BY <1>6 DEF SignInsStay
    <2>3. /\ lock'.op = "refresh" /\ lock'.at = at /\ lock'.connection = c /\ lock'.task = n
        BY <1>6
    <2> HIDE DEF l
    <2>4. refresh'[n].pc = "sent" /\ refresh'[n].connection = c /\ flow'[c] = "done"
        BY <1>2, <1>4 DEF tasks
    <2>5. /\ c \notin dropped' /\ life'.phase[c] \notin {"cancelled", "failed"}
          /\ life'.refreshes[c] = n
        BY <1>1, <1>2, <1>4, <1>6, <2>2
    <2> HIDE DEF c
    <2>6. LockOK'
        BY <1>3, <1>6, <2>3, <2>4, <2>5 DEF LockOK, Writing, Removing
    <2> QED
        BY <2>1, <2>6
<1>7. ASSUME NEW at \in {"stage", "mark"}, NEW scopes \in SUBSET Operations,
             lock' = [op |-> "refresh", at |-> at, connection |-> c, task |-> n,
                      scopes |-> scopes],
             life' = WithoutGrants(l, c), ended' = ended \cup (lost \X Runs)
      PROVE  ConnectorInvariant'
    <2> HIDE DEF l
    <2>1. /\ SignInsStay(life, life') /\ Weaker(life.grants, life'.grants)
          /\ life'.refreshes = life.refreshes
          /\ \A g \in Registered(life'.grants) : /\ g \notin lost
                                                 /\ life.grants.items[g].connection # c
        BY <1>1, <1>3, <1>7, WithoutGrantsStays
    <2>2. lock' \in Locks /\ LockOK' /\ lock'.connection = c
        BY <1>6, <1>7, <2>1
    <2> HIDE DEF c, lost
    <2> QED
        BY <1>2, <1>3, <1>7, <2>1, <2>2, LockTaken
<1>8. CASE RefusesScopes(n)
    BY <1>7, <1>8 DEF RefusesScopes
<1>9. ASSUME NEW scopes \in SUBSET Operations, CommitRefresh(n, scopes)
      PROVE  ConnectorInvariant'
    <2>1. lock' = [op |-> "refresh", at |-> "stage", connection |-> c, task |-> n,
                   scopes |-> scopes]
        BY <1>9 DEF CommitRefresh
    <2>2. CASE scopes # row[c].scopes
        <3>1. life' = WithoutGrants(l, c) /\ ended' = ended \cup (lost \X Runs)
            BY <1>9, <2>2 DEF CommitRefresh
        <3> HIDE DEF l, lost, c
        <3> QED
            BY <1>7, <2>1, <3>1
    <2>3. CASE scopes = row[c].scopes
        <3>1. life' = l /\ ended' = ended
            BY <1>9, <2>3 DEF CommitRefresh
        <3> HIDE DEF l
        <3>2. /\ SignInsStay(life, life') /\ Weaker(life.grants, life'.grants)
              /\ life'.refreshes = life.refreshes
            BY <1>1, <3>1
        <3>3. /\ lock' \in Locks /\ LockOK' /\ lock'.connection = c /\ lock'.op = "refresh"
              /\ lock'.at \in Writing /\ lock'.scopes = scopes
            BY <1>6, <2>1, <3>2 DEF Writing
        <3>4. ASSUME NEW g \in Registered(life'.grants), life.grants.items[g].connection = c
              PROVE  life.grants.items[g].operations \subseteq scopes
            <4>1. g \in Registered(life.grants)
                BY <3>2 DEF Weaker, Registered
            <4> QED
                BY <1>2, <2>3, <3>4, <4>1, GrantsListed
        <3> DEFINE none == {}
        <3>5. none \subseteq issued /\ \A g \in Registered(life'.grants) : g \notin none
            OBVIOUS
        <3> HIDE DEF c, lost, none
        <3> QED
            BY <1>2, <3>1, <3>2, <3>3, <3>4, <3>5, LockTaken
    <2> QED
        BY <2>2, <2>3
<1> QED
    BY <1>8, <1>9

LEMMA DisconnectTakes ==
    ASSUME ConnectorInvariant, NEW c \in Connections, Disconnect(c)
    PROVE  ConnectorInvariant'
<1> DEFINE k == WithoutGrants(life, c)
           lost == ConnectionGrants(c)
<1>1. /\ lock = Free /\ (row[c] # NoRow \/ secret[c] # Nil)
      /\ life' = [k EXCEPT !.refreshes[c] = 0] /\ ended' = ended \cup (lost \X Runs)
      /\ lock' = [Free EXCEPT !.op = "disconnect", !.at = "mark", !.connection = c]
      /\ UNCHANGED <<now, tasks, stored, dropped, issued>>
    BY DEF Disconnect, Disconnected, Available
<1>2. /\ SignInsStay(life, k) /\ k \in Lives /\ Weaker(life.grants, k.grants)
      /\ k.refreshes = life.refreshes
      /\ \A g \in Registered(k.grants) : g \notin lost /\ life.grants.items[g].connection # c
    <2>1. SignInsStay(life, life) /\ Weaker(life.grants, life.grants)
        BY InvariantTyped, Same DEF SignInsStay
    <2> QED
        BY <2>1, WithoutGrantsStays DEF SignInsStay
<1>3. lost \subseteq issued
    BY InvariantTyped, GrantsIssued
<1> HIDE DEF k, lost
<1>4. 0 \in 0..MaxRefreshes
    BY ConnectorAssumption
<1>5. /\ life' \in Lives /\ life'.grants = k.grants /\ life'.pending = k.pending
      /\ life'.phase = k.phase /\ life'.refreshes = [k.refreshes EXCEPT ![c] = 0]
    BY <1>1, <1>2, <1>4, LifeChanges
<1>6. k.refreshes \in [Connections -> 0..MaxRefreshes]
    BY <1>2 DEF Lives
<1>7. SignInsStay(life, life')
    BY <1>2, <1>5, <1>6 DEF SignInsStay
<1>8. /\ lock' \in Locks /\ lock'.op = "disconnect" /\ lock'.at = "mark" /\ lock'.connection = c
    <2>1. lock' = [op |-> "disconnect", at |-> "mark", connection |-> c, task |-> 0,
                   scopes |-> {}]
        BY <1>1 DEF Free
    <2> QED
        BY <1>4, <2>1 DEF Locks
<1>9. flow[c] \in {"failing", "done"}
    BY <1>1, AccountsFree
<1>10. LockOK'
    BY <1>1, <1>8, <1>9 DEF LockOK, Writing, Removing, tasks
<1> QED
    BY <1>1, <1>2, <1>3, <1>5, <1>7, <1>8, <1>10, LockTaken

-----------------------------------------------------------------------------
(* The steps under the lock *)

LEMMA HeldStep ==
    ASSUME ConnectorInvariant, NEW c \in Connections, lock.connection = c,
           UNCHANGED <<now, issued>>, TurnsStay, ReadsStay,
           flow' \in [Connections -> Flows], row' \in [Connections -> RowRecords],
           secret' \in [Connections -> 0..MaxRefreshes \cup {Nil}], dropped' \subseteq Connections,
           life' \in Lives, \A k \in Connections : life'.refreshes[k] \in {life.refreshes[k], 0},
           \A k \in Connections \ {c} :
              /\ flow'[k] = flow[k] /\ row'[k] = row[k] /\ secret'[k] = secret[k]
              /\ LifeMoves(k) /\ (k \in dropped' => k \in dropped),
           lock' \in Locks, LockOK', lock' = Free \/ lock'.connection = c,
           AccountOK(c)', SecretOK(c)', Weaker(life.grants, life'.grants),
           NEW lost, lost \subseteq issued, ended' = ended \/ ended' = ended \cup (lost \X Runs),
           \A g \in Registered(life'.grants) : g \notin lost,
           \A g \in Registered(life'.grants) :
              life.grants.items[g].connection = c => ScopeOK(g)'
    PROVE  ConnectorInvariant'
<1>1. ended' \subseteq Grants \X Runs /\ now' \in Nat /\ now' >= now
    BY InvariantTyped DEF ConnectorTypeOK
<1>2. ConnectorTypeOK'
    BY <1>1, InvariantTyped DEF ConnectorTypeOK, TurnsStay, ReadsStay
<1>3. TasksOK'
    BY InvariantTyped, TasksStay
<1>4. ASSUME NEW k \in Connections
      PROVE  AccountOK(k)' /\ SecretOK(k)'
    <2>1. CASE k = c
        BY <2>1
    <2>2. CASE k # c
        <3>1. ~SigningLock(k)
            BY <2>2 DEF SigningLock
        <3>2. AccountOK(k)'
            BY <2>2, <3>1, InvariantTyped, OtherAccounts
        <3>3. SecretOK(k)'
            BY <2>2, InvariantTyped, SecretsStay
        <3> QED
            BY <3>2, <3>3
    <2> QED
        BY <2>1, <2>2
<1>5. AuthorityOK'
    BY <1>1, InvariantTyped, AuthorityStays
<1>6. ASSUME NEW g \in Registered(life'.grants), life.grants.items[g].connection # c
      PROVE  ScopeOK(g)'
    <2>1. g \in Registered(life.grants) /\ life'.grants.items[g] = life.grants.items[g]
        BY DEF Weaker, Registered
    <2> DEFINE k == life.grants.items[g].connection
    <2>2. k \in Connections \ {c} /\ k # Nil
        BY <1>6, <2>1, InvariantTyped, GrantsTyped, GrantAssumption
    <2>3. /\ life.grants.items[g].operations \subseteq row[k].scopes /\ row[k].state = "live"
          /\ row'[k] = row[k]
        BY <2>1, <2>2 DEF ConnectorInvariant, ScopeOK, Live
    <2>4. lock'.connection # k
        BY <2>2 DEF Free
    <2> QED
        BY <2>1, <2>3, <2>4 DEF ScopeOK, Live
<1> QED
    BY <1>2, <1>3, <1>4, <1>5, <1>6 DEF ConnectorInvariant, AccountsOK

LEMMA Holder ==
    ASSUME ConnectorInvariant, lock # Free
    PROVE  /\ lock.connection \in Connections /\ lock \in Locks
           /\ lock.op \in {"signin", "refresh", "disconnect"}
           /\ \A at \in {"write", "publish", "commit", "remove", "delete"} :
                 /\ [lock EXCEPT !.at = at] \in Locks
                 /\ [lock EXCEPT !.at = at].op = lock.op
                 /\ [lock EXCEPT !.at = at].at = at
                 /\ [lock EXCEPT !.at = at].connection = lock.connection
                 /\ [lock EXCEPT !.at = at].task = lock.task
                 /\ [lock EXCEPT !.at = at].scopes = lock.scopes
<1>1. lock.connection \in Connections /\ lock \in Locks
    BY InvariantTyped DEF LockOK, ConnectorTypeOK
<1>2. lock.op \in {"signin", "refresh", "disconnect"}
    BY InvariantTyped DEF LockOK
<1> QED
    BY <1>1, <1>2 DEF Locks

\* A step that leaves the tasks and the state of the lifecycle alone
LEMMA StoreStep ==
    ASSUME ConnectorInvariant, NEW c \in Connections, lock.connection = c,
           UNCHANGED <<now, life, tasks, issued, ended>>,
           NEW at \in {"write", "publish", "commit", "remove", "delete"},
           lock' = [lock EXCEPT !.at = at], LockOK',
           row' \in [Connections -> RowRecords],
           secret' \in [Connections -> 0..MaxRefreshes \cup {Nil}], dropped' \subseteq Connections,
           \A k \in Connections \ {c} :
              /\ row'[k] = row[k] /\ secret'[k] = secret[k]
              /\ (k \in dropped' => k \in dropped),
           AccountOK(c)', SecretOK(c)',
           \A g \in Registered(life.grants) :
              life.grants.items[g].connection = c => ScopeOK(g)'
    PROVE  ConnectorInvariant'
<1> DEFINE lost == {}
<1>1. lock # Free
    BY GrantAssumption DEF Free
<1>2. /\ lock' \in Locks /\ lock'.connection = c
      /\ lost \subseteq issued /\ \A g \in Registered(life'.grants) : g \notin lost
    BY <1>1, Holder
<1> HIDE DEF lost
<1>3. TurnsStay /\ ReadsStay
    BY InvariantTyped, Untouched DEF tasks
<1>4. /\ flow' \in [Connections -> Flows] /\ life' \in Lives
      /\ \A k \in Connections : life'.refreshes[k] \in {life.refreshes[k], 0}
    BY InvariantTyped DEF ConnectorTypeOK, tasks
<1>5. Weaker(life.grants, life'.grants)
    BY InvariantTyped, Same
<1>6. \A k \in Connections \ {c} : flow'[k] = flow[k] /\ LifeMoves(k)
    BY DEF LifeMoves, Current, tasks
<1>7. ended' = ended
    OBVIOUS
<1> QED
    BY <1>2, <1>3, <1>4, <1>5, <1>6, <1>7, HeldStep

LEMMA StageKeeps ==
    ASSUME ConnectorInvariant, Stage
    PROVE  ConnectorInvariant'
<1>1. PICK c \in Connections : lock.connection = c
    BY Holder DEF Stage, At, Free
<1> DEFINE r == [state |-> "staged", scopes |-> lock.scopes]
<1>2. /\ lock.at = "stage" /\ lock' = [lock EXCEPT !.at = "write"]
      /\ row' = [row EXCEPT ![c] = r]
      /\ UNCHANGED <<now, life, tasks, secret, dropped, issued, ended>>
    BY <1>1 DEF Stage, At, GoesTo, history
<1>3. lock # Free
    BY <1>2 DEF Free
<1>4. /\ lock'.op = lock.op /\ lock'.at = "write" /\ lock'.connection = c
      /\ lock'.task = lock.task /\ lock'.scopes = lock.scopes
    BY <1>1, <1>2, <1>3, Holder
<1>5. r \in RowRecords /\ r.state = "staged" /\ r.scopes = lock.scopes
    BY InvariantTyped DEF ConnectorTypeOK, Locks, RowRecords
<1> HIDE DEF r
<1>6. /\ row' \in [Connections -> RowRecords]
      /\ \A k \in Connections : row'[k] = IF k = c THEN r ELSE row[k]
    BY <1>2, <1>4, <1>5, InvariantTyped DEF ConnectorTypeOK
<1>7. ~Live(c)' /\ row'[c].state = "staged" /\ row'[c].scopes = lock.scopes
    BY <1>4, <1>5, <1>6 DEF Live
<1>8. LockOK'
    BY <1>1, <1>2, <1>3, <1>4, <1>7, InvariantTyped
       DEF LockOK, tasks, Writing, Removing, Current
<1>9. AccountOK(c)'
    <2>1. AccountOK(c) /\ (SigningLock(c) \/ flow[c] \in {"failing", "done"})
        BY <1>1, <1>2, <1>3, <1>4, InvariantTyped DEF LockOK, SigningLock, Writing, Removing
    <2> QED
        BY <1>2, <1>4, <1>7, <2>1 DEF AccountOK, SigningLock, Current, tasks
<1>10. SecretOK(c)'
    BY <1>2, <1>4, InvariantTyped DEF SecretOK, tasks
<1>11. ASSUME NEW g \in Registered(life.grants), life.grants.items[g].connection = c
       PROVE  ScopeOK(g)'
    <2>1. lock.op = "refresh" /\ life.grants.items[g].operations \subseteq lock.scopes
        BY <1>1, <1>11 DEF ConnectorInvariant, ScopeOK
    <2> QED
        BY <1>2, <1>4, <1>7, <1>11, <2>1 DEF ScopeOK, Writing
<1>12. secret' \in [Connections -> 0..MaxRefreshes \cup {Nil}] /\ dropped' \subseteq Connections
    BY <1>2, InvariantTyped DEF ConnectorTypeOK
<1> QED
    BY <1>1, <1>2, <1>3, <1>6, <1>8, <1>9, <1>10, <1>11, <1>12, StoreStep

LEMMA WriteSecretKeeps ==
    ASSUME ConnectorInvariant, WriteSecret
    PROVE  ConnectorInvariant'
<1>1. PICK c \in Connections : lock.connection = c
    BY Holder DEF WriteSecret, At, Free
<1>2. PICK n \in 0..MaxRefreshes : lock.task = n
    BY InvariantTyped DEF ConnectorTypeOK, Locks
<1>3. /\ lock.at = "write" /\ lock' = [lock EXCEPT !.at = "publish"]
      /\ secret' = [secret EXCEPT ![c] = n]
      /\ UNCHANGED <<now, life, tasks, row, dropped, issued, ended>>
    BY <1>1, <1>2 DEF WriteSecret, At, GoesTo, history
<1>4. lock # Free
    BY <1>3 DEF Free
<1>5. /\ lock'.op = lock.op /\ lock'.at = "publish" /\ lock'.connection = c
      /\ lock'.task = n /\ lock'.scopes = lock.scopes
    BY <1>1, <1>2, <1>3, <1>4, Holder
<1>6. /\ secret' \in [Connections -> 0..MaxRefreshes \cup {Nil}]
      /\ \A k \in Connections : secret'[k] = IF k = c THEN n ELSE secret[k]
    BY <1>2, <1>3, <1>5, InvariantTyped DEF ConnectorTypeOK
<1>7. row[c].state = "staged" /\ ~Live(c)' /\ ~Live(c)
    BY <1>1, <1>2, <1>3, <1>4, InvariantTyped DEF LockOK, Live
<1>8. LockOK'
    BY <1>1, <1>2, <1>3, <1>4, <1>5, <1>7, InvariantTyped
       DEF LockOK, tasks, Writing, Removing, Current
<1>9. AccountOK(c)'
    <2>1. AccountOK(c) /\ (SigningLock(c) \/ flow[c] \in {"failing", "done"})
        BY <1>1, <1>2, <1>3, <1>4, <1>5, InvariantTyped DEF LockOK, SigningLock, Writing, Removing
    <2> QED
        BY <1>3, <1>5, <1>7, <2>1 DEF AccountOK, SigningLock, Current, tasks
<1>10. SecretOK(c)'
    <2>1. SecretOK(c) /\ life.refreshes[c] \in 0..MaxRefreshes
        BY <1>5, InvariantTyped
    <2>2. \/ n = 0
          \/ n \in Turns /\ refresh[n].pc = "sent" /\ life.refreshes[c] = n
        BY <1>1, <1>2, <1>3, <1>4, InvariantTyped DEF LockOK, Writing, Removing
    <2>3. secret'[c] = n /\ refresh' = refresh /\ life' = life
        BY <1>3, <1>5, <1>6 DEF tasks
    <2>4. CASE n = 0
        BY <2>1, <2>3, <2>4, ConnectorAssumption DEF SecretOK, Turns
    <2>5. CASE n \in Turns /\ refresh[n].pc = "sent" /\ life.refreshes[c] = n
        BY <2>1, <2>3, <2>5, ConnectorAssumption DEF SecretOK, Turns
    <2> QED
        BY <2>2, <2>4, <2>5
<1>11. ASSUME NEW g \in Registered(life.grants), life.grants.items[g].connection = c
       PROVE  ScopeOK(g)'
    BY <1>1, <1>3, <1>5, <1>11 DEF ConnectorInvariant, ScopeOK, Live, Writing
<1>12. row' \in [Connections -> RowRecords] /\ dropped' \subseteq Connections
    BY <1>3, InvariantTyped DEF ConnectorTypeOK
<1> QED
    BY <1>1, <1>2, <1>3, <1>4, <1>6, <1>8, <1>9, <1>10, <1>11, <1>12, StoreStep

LEMMA PublishKeeps ==
    ASSUME ConnectorInvariant, Publish
    PROVE  ConnectorInvariant'
<1>1. PICK c \in Connections : lock.connection = c
    BY Holder DEF Publish, At, Free
<1>2. /\ lock.at = "publish" /\ lock' = [lock EXCEPT !.at = "commit"] /\ Confirmed
      /\ row' = [row EXCEPT ![c].state = "live"] /\ lock # Free
      /\ UNCHANGED <<now, life, tasks, secret, dropped, issued, ended>>
    BY <1>1 DEF Publish, At, GoesTo, history, Free
<1>3. /\ lock'.op = lock.op /\ lock'.at = "commit" /\ lock'.connection = c
      /\ lock'.task = lock.task /\ lock'.scopes = lock.scopes
    BY <1>1, <1>2, Holder
<1>4. row \in [Connections -> RowRecords] /\ row[c].scopes = lock.scopes
    BY <1>1, <1>2, InvariantTyped DEF ConnectorTypeOK, LockOK, Writing
<1>5. /\ row' \in [Connections -> RowRecords] /\ row'[c].state = "live"
      /\ row'[c].scopes = lock.scopes /\ \A k \in Connections \ {c} : row'[k] = row[k]
    BY <1>2, <1>4 DEF RowRecords
<1>6. lock.op = "signin" => Current(life, c)
    BY <1>1, <1>2, InvariantTyped, ExpireEnds DEF Confirmed
<1>7. lock.op \in {"signin", "refresh"} /\ c \notin dropped
    BY <1>1, <1>2, InvariantTyped DEF LockOK, Writing, Removing
<1>8. LockOK'
    BY <1>1, <1>2, <1>3, <1>5, <1>6, InvariantTyped
       DEF LockOK, tasks, Writing, Removing, Live, Current
<1>9. AccountOK(c)'
    <2>1. AccountOK(c)
        BY InvariantTyped
    <2>2. CASE lock.op = "signin"
        BY <1>1, <1>2, <1>3, <1>5, <1>6, <1>7, <2>1, <2>2
           DEF AccountOK, SigningLock, Current, tasks, Live
    <2>3. CASE lock.op = "refresh"
        <3>1. flow[c] = "done" /\ life.phase[c] \notin {"cancelled", "failed"}
            BY <1>1, <1>2, <2>3, InvariantTyped DEF LockOK, Writing
        <3> QED
            BY <1>2, <1>5, <1>7, <2>1, <3>1 DEF AccountOK, Current, tasks, Live
    <2> QED
        BY <1>7, <2>2, <2>3
<1>10. SecretOK(c)'
    BY <1>2, InvariantTyped DEF SecretOK, tasks
<1>11. ASSUME NEW g \in Registered(life.grants), life.grants.items[g].connection = c
       PROVE  ScopeOK(g)'
    <2>1. lock.op = "refresh" /\ life.grants.items[g].operations \subseteq lock.scopes
        BY <1>1, <1>11 DEF ConnectorInvariant, ScopeOK
    <2> QED
        BY <1>2, <1>3, <1>5, <1>11, <2>1 DEF ScopeOK, Writing, Live
<1>12. secret' \in [Connections -> 0..MaxRefreshes \cup {Nil}] /\ dropped' \subseteq Connections
    BY <1>2, InvariantTyped DEF ConnectorTypeOK
<1> QED
    BY <1>1, <1>2, <1>5, <1>8, <1>9, <1>10, <1>11, <1>12, StoreStep

\* With the row marked or removed, and with the credential removed, no grant of
\* the account is left.
LEMMA RemovingStep ==
    ASSUME ConnectorInvariant, NEW c \in Connections, lock.connection = c,
           lock.at \in {"mark", "remove"}, UNCHANGED <<now, life, tasks, issued, ended>>,
           NEW at \in {"remove", "delete"}, lock' = [lock EXCEPT !.at = at], LockOK',
           row' \in [Connections -> RowRecords],
           secret' \in [Connections -> 0..MaxRefreshes \cup {Nil}], dropped' \subseteq Connections,
           \A k \in Connections \ {c} :
              row'[k] = row[k] /\ secret'[k] = secret[k] /\ (k \in dropped' => k \in dropped),
           row'[c].state = row[c].state \/ (row'[c].state = "staged" /\ row[c] # NoRow),
           secret'[c] \in {secret[c], Nil}, ~Live(c)', lock.op = "signin" => c \notin dropped'
    PROVE  ConnectorInvariant'
<1>1. /\ lock # Free /\ lock.op \in {"signin", "refresh", "disconnect"}
      /\ lock'.op = lock.op /\ lock'.at = at /\ lock'.connection = c
    BY Holder DEF Free
<1>2. AccountOK(c) /\ SecretOK(c) /\ (SigningLock(c) \/ flow[c] \in {"failing", "done"})
    BY <1>1, InvariantTyped DEF LockOK, SigningLock
<1>3. AccountOK(c)'
    <2>1. secret'[c] # Nil => row'[c].state # "none"
        BY <1>2 DEF AccountOK
    <2>2. SigningLock(c)' \/ flow'[c] \in {"failing", "done"}
        BY <1>1, <1>2 DEF SigningLock, tasks
    <2> QED
        BY <1>2, <2>1, <2>2 DEF AccountOK, Live, Current, tasks
<1>4. SecretOK(c)'
    BY <1>2 DEF SecretOK, tasks
<1>5. ASSUME NEW g \in Registered(life.grants), life.grants.items[g].connection = c
      PROVE  ScopeOK(g)'
    BY <1>5 DEF ConnectorInvariant, ScopeOK, Writing
<1> QED
    BY <1>3, <1>4, <1>5, StoreStep

LEMMA MarkKeeps ==
    ASSUME ConnectorInvariant, Mark
    PROVE  ConnectorInvariant'
<1>1. PICK c \in Connections : lock.connection = c
    BY Holder DEF Mark, At, Free
<1>2. /\ lock.at = "mark" /\ lock' = [lock EXCEPT !.at = "remove"] /\ lock # Free
      /\ row' = IF row[c] = NoRow THEN row ELSE [row EXCEPT ![c].state = "staged"]
      /\ dropped' = IF lock.op = "disconnect" THEN dropped \cup {c} ELSE dropped
      /\ UNCHANGED <<now, life, tasks, secret, issued, ended>>
    BY <1>1 DEF Mark, At, GoesTo, Free
<1>3. /\ lock'.op = lock.op /\ lock'.at = "remove" /\ lock'.connection = c
      /\ lock'.task = lock.task /\ lock'.scopes = lock.scopes
    BY <1>1, <1>2, Holder
<1>4. row \in [Connections -> RowRecords]
    BY InvariantTyped DEF ConnectorTypeOK
<1>5. /\ row' \in [Connections -> RowRecords] /\ \A k \in Connections \ {c} : row'[k] = row[k]
      /\ (row'[c].state = row[c].state \/ (row'[c].state = "staged" /\ row[c] # NoRow))
      /\ ~Live(c)'
    BY <1>2, <1>4 DEF RowRecords, Live, NoRow
<1>6. LockOK'
    BY <1>1, <1>2, <1>3, <1>5, InvariantTyped
       DEF LockOK, tasks, Writing, Removing, Live, Current
<1>7. /\ secret' \in [Connections -> 0..MaxRefreshes \cup {Nil}] /\ dropped' \subseteq Connections
      /\ \A k \in Connections \ {c} : secret'[k] = secret[k] /\ (k \in dropped' => k \in dropped)
      /\ secret'[c] = secret[c]
    BY <1>2, InvariantTyped DEF ConnectorTypeOK
<1>8. lock.op # "signin"
    BY <1>2, InvariantTyped DEF LockOK, Writing, Removing
<1> QED
    BY <1>1, <1>2, <1>5, <1>6, <1>7, <1>8, RemovingStep

LEMMA RemoveSecretKeeps ==
    ASSUME ConnectorInvariant, RemoveSecret
    PROVE  ConnectorInvariant'
<1>1. PICK c \in Connections : lock.connection = c
    BY Holder DEF RemoveSecret, At, Free
<1>2. /\ lock.at = "remove" /\ lock' = [lock EXCEPT !.at = "delete"] /\ lock # Free
      /\ secret' = [secret EXCEPT ![c] = Nil]
      /\ UNCHANGED <<now, life, tasks, row, dropped, issued, ended>>
    BY <1>1 DEF RemoveSecret, At, GoesTo, history, Free
<1>3. /\ lock'.op = lock.op /\ lock'.at = "delete" /\ lock'.connection = c
      /\ lock'.task = lock.task /\ lock'.scopes = lock.scopes
    BY <1>1, <1>2, Holder
<1>4. /\ secret' \in [Connections -> 0..MaxRefreshes \cup {Nil}] /\ secret'[c] = Nil
      /\ \A k \in Connections \ {c} : secret'[k] = secret[k]
    BY <1>2, InvariantTyped DEF ConnectorTypeOK
<1>5. ~Live(c) /\ ~Live(c)'
    BY <1>1, <1>2, InvariantTyped DEF LockOK, Live
<1>6. LockOK'
    BY <1>1, <1>2, <1>3, <1>4, <1>5, InvariantTyped
       DEF LockOK, tasks, Writing, Removing, Current
<1>7. row' \in [Connections -> RowRecords] /\ dropped' \subseteq Connections
    BY <1>2, InvariantTyped DEF ConnectorTypeOK
<1>8. lock.op = "signin" => c \notin dropped
    BY <1>1, <1>2, InvariantTyped DEF LockOK
<1> QED
    BY <1>1, <1>2, <1>4, <1>5, <1>6, <1>7, <1>8, RemovingStep

LEMMA RollsBackKeeps ==
    ASSUME ConnectorInvariant, RollsBack
    PROVE  ConnectorInvariant'
<1>1. PICK c \in Connections : lock.connection = c
    BY Holder DEF RollsBack, At, Free
<1> DEFINE lost == IF lock.op = "refresh" THEN ConnectionGrants(c) ELSE {}
<1>2. /\ lock.at \in {"write", "publish"} /\ lock' = [lock EXCEPT !.at = "remove"] /\ lock # Free
      /\ life' = IF lock.op = "refresh" THEN WithoutGrants(life, c)
                 ELSE IF lock.at = "publish" THEN Expire(life) ELSE life
      /\ ended' = ended \cup (lost \X Runs)
      /\ UNCHANGED <<now, tasks, stored, dropped, issued>>
    BY <1>1 DEF RollsBack, At, GoesTo, Free
<1>3. /\ lock'.op = lock.op /\ lock'.at = "remove" /\ lock'.connection = c /\ lock' \in Locks
      /\ lock'.task = lock.task /\ lock'.scopes = lock.scopes
    BY <1>1, <1>2, Holder
<1>4. lost \subseteq issued
    BY InvariantTyped, GrantsIssued
<1>5. lock.op \in {"signin", "refresh"} /\ ~Live(c)
    BY <1>1, <1>2, InvariantTyped DEF LockOK, Writing, Removing, Live
<1>6. /\ Weaker(life.grants, life'.grants) /\ life' \in Lives
      /\ \A k \in Connections : life'.refreshes[k] \in {life.refreshes[k], 0}
      /\ \A g \in Registered(life'.grants) :
            g \notin lost /\ life.grants.items[g].connection # c
      /\ \A k \in Connections \ {c} : LifeMoves(k)
      /\ Current(life, c)' => Current(life, c)
      /\ life'.phase[c] = life.phase[c] \/ ~Current(life, c)'
    <2>1. CASE lock.op = "refresh"
        <3>1. SignInsStay(life, life) /\ Weaker(life.grants, life.grants)
            BY InvariantTyped, Same DEF SignInsStay
        <3>2. life' = WithoutGrants(life, c) /\ lost = ConnectionGrants(c)
            BY <1>2, <2>1
        <3> HIDE DEF lost
        <3>3. /\ SignInsStay(life, life') /\ Weaker(life.grants, life'.grants)
              /\ \A g \in Registered(life'.grants) :
                    g \notin lost /\ life.grants.items[g].connection # c
            BY <3>1, <3>2, WithoutGrantsStays
        <3> QED
            BY <3>3 DEF SignInsStay, LifeMoves, Current
    <2>2. CASE lock.op = "signin"
        <3>1. life' = Expire(life) \/ life' = life
            BY <1>2, <2>2
        <3>2. Ends(life, life')
            BY <3>1, InvariantTyped, ExpireEnds DEF Ends
        <3>3. \A k \in Connections \ {c} : LifeMoves(k)
            BY <1>1, <3>2, OthersMove DEF SigningLock
        <3>4. \A g \in Registered(life.grants) : life.grants.items[g].connection # c
            BY <1>1, <2>2 DEF ConnectorInvariant, ScopeOK
        <3> QED
            BY <2>2, <3>2, <3>3, <3>4, InvariantTyped, Same DEF Ends, Current
    <2> QED
        BY <1>5, <2>1, <2>2
<1> HIDE DEF lost
<1>7. LockOK'
    BY <1>1, <1>2, <1>3, <1>5, InvariantTyped DEF LockOK, tasks, stored, Writing, Removing, Live
<1>8. AccountOK(c)'
    <2>1. AccountOK(c) /\ (SigningLock(c) \/ flow[c] \in {"failing", "done"})
        BY <1>1, <1>2, InvariantTyped DEF LockOK, SigningLock
    <2>2. Current(life, c)' => Current(life, c) /\ life'.phase[c] = life.phase[c]
        BY <1>6
    <2> QED
        BY <1>1, <1>2, <1>3, <1>5, <2>1, <2>2 DEF AccountOK, SigningLock, tasks, stored, Live
<1>9. TurnsStay /\ ReadsStay
    BY <1>2, InvariantTyped, Untouched DEF tasks
<1>10. SecretOK(c)'
    BY <1>2, <1>6, <1>9, InvariantTyped, SecretsStay DEF stored
<1>11. /\ flow' \in [Connections -> Flows] /\ row' \in [Connections -> RowRecords]
       /\ secret' \in [Connections -> 0..MaxRefreshes \cup {Nil}] /\ dropped' \subseteq Connections
       /\ \A k \in Connections : flow'[k] = flow[k] /\ row'[k] = row[k] /\ secret'[k] = secret[k]
    BY <1>2, InvariantTyped DEF ConnectorTypeOK, tasks, stored
<1>12. UNCHANGED <<now, issued, dropped>> /\ ended' = ended \cup (lost \X Runs)
    BY <1>2
<1> QED
    BY <1>1, <1>3, <1>4, <1>6, <1>7, <1>8, <1>9, <1>10, <1>11, <1>12, HeldStep

\* The sign-in that was committed ends.
LEMMA CommittedSignInKeeps ==
    ASSUME ConnectorInvariant, CommittedSignIn
    PROVE  ConnectorInvariant'
<1>1. PICK c \in Connections : lock.connection = c
    BY Holder DEF CommittedSignIn, At, Free
<1> DEFINE lost == {}
<1>2. Current(life, c) /\ Live(c) /\ c \notin dropped /\ lock # Free
    BY <1>1, InvariantTyped DEF CommittedSignIn, At, LockOK, Free
<1>3. /\ lock.at = "commit" /\ lock.op = "signin" /\ lock' = Free
      /\ life' = Terminal(life, "connected") /\ life.pending # Nil /\ life.pending.id = c
      /\ flow' = [flow EXCEPT ![c] = "done"]
      /\ UNCHANGED <<now, refresh, read, stored, dropped, issued>> /\ ended' = ended
      /\ lost \subseteq issued /\ \A g \in Registered(life'.grants) : g \notin lost
    BY <1>1, <1>2 DEF CommittedSignIn, At, history, Current
<1> HIDE DEF lost
<1>4. /\ life' \in Lives /\ life'.pending = Nil /\ life'.refreshes = life.refreshes
      /\ life'.phase = [life.phase EXCEPT ![c] = "connected"] /\ life'.grants = life.grants
    BY <1>3, InvariantTyped, TerminalEnds DEF LifePhases
<1>5. life.phase \in [Connections -> LifePhases]
    BY InvariantTyped DEF Lives
<1>6. /\ \A k \in Connections : life'.refreshes[k] \in {life.refreshes[k], 0}
      /\ \A k \in Connections \ {c} : LifeMoves(k)
      /\ ~Current(life, c)' /\ life'.phase[c] = "connected"
    BY <1>4, <1>5 DEF LifeMoves, Current
<1>7. /\ flow' \in [Connections -> Flows] /\ flow'[c] = "done"
      /\ \A k \in Connections \ {c} : flow'[k] = flow[k]
    BY <1>3, InvariantTyped DEF ConnectorTypeOK, Flows
<1>8. Weaker(life.grants, life'.grants)
    BY <1>4, InvariantTyped, Same
<1>9. LockOK' /\ lock' \in Locks
    BY <1>3, ConnectorAssumption DEF LockOK, Locks, Free
<1>10. AccountOK(c)'
    BY <1>2, <1>3, <1>6, <1>7, InvariantTyped DEF AccountOK, Live, stored
<1>11. TurnsStay /\ ReadsStay
    BY <1>3, InvariantTyped, Untouched
<1>12. SecretOK(c)'
    BY <1>3, <1>6, <1>11, InvariantTyped, SecretsStay DEF stored
<1>13. \A g \in Registered(life'.grants) : life.grants.items[g].connection # c
    BY <1>1, <1>3, <1>4 DEF ConnectorInvariant, ScopeOK
<1>14. /\ row' \in [Connections -> RowRecords] /\ dropped' \subseteq Connections
       /\ secret' \in [Connections -> 0..MaxRefreshes \cup {Nil}]
       /\ \A k \in Connections : row'[k] = row[k] /\ secret'[k] = secret[k]
    BY <1>3, InvariantTyped DEF ConnectorTypeOK, stored
<1>15. /\ UNCHANGED <<now, issued, dropped>> /\ ended' = ended /\ lock' = Free /\ life' \in Lives
       /\ lost \subseteq issued /\ \A g \in Registered(life'.grants) : g \notin lost
    BY <1>3, <1>4
<1> QED
    BY <1>1, <1>6, <1>7, <1>8, <1>9, <1>10, <1>11, <1>12, <1>13, <1>14, <1>15, HeldStep

\* A step of the refresh n that is under the lock ends it.
LEMMA CommittedLife ==
    ASSUME ConnectorInvariant, CommittedRefresh
    PROVE  SignInsStay(life, life') /\ Weaker(life.grants, life'.grants)
<1>1. PICK n \in Turns : lock.task = n /\ refresh[n].pc = "sent"
    BY InvariantTyped DEF CommittedRefresh, At, LockOK, Free
<1> DEFINE k == Released(life, n)
           l == WithGrantsExpired(k)
           s == Expired(k.grants, now)
<1>2. life' = l \/ life' = RefreshEnds(life, n)
    BY <1>1 DEF CommittedRefresh
<1>3. SignInsStay(life, k) /\ k \in Lives /\ k.grants = life.grants
    BY <1>1, InvariantTyped, TurnTyped, ReleasedStays
<1>4. Weaker(life.grants, s) /\ s \in GrantStates
    BY <1>3, InvariantTyped, ExpiredWeaker DEF Weaker
<1>5. l = [k EXCEPT !.grants = s]
    BY DEF WithGrantsExpired
<1> HIDE DEF k, l, s
<1>6. SignInsStay(life, l) /\ Weaker(life.grants, l.grants)
    BY <1>3, <1>4, <1>5, LifeChanges DEF SignInsStay
<1> QED
    BY <1>1, <1>2, <1>6, RefreshEndsStays

LEMMA CommittedRefreshKeeps ==
    ASSUME ConnectorInvariant, CommittedRefresh
    PROVE  ConnectorInvariant'
<1>1. PICK c \in Connections : lock.connection = c
    BY Holder DEF CommittedRefresh, At, Free
<1>2. lock.at = "commit" /\ lock.op = "refresh" /\ lock # Free /\ lock' = Free
    BY DEF CommittedRefresh, At, Free
<1>3. PICK n \in Turns : lock.task = n
    BY <1>2, InvariantTyped DEF LockOK
<1>4. /\ refresh[n].pc = "sent" /\ refresh[n].connection = c /\ flow[c] = "done"
      /\ c \notin dropped /\ life.phase[c] \notin {"cancelled", "failed"} /\ Live(c)
    BY <1>1, <1>2, <1>3, InvariantTyped DEF LockOK, Writing
<1> DEFINE lost == {}
<1>5. /\ refresh' = [refresh EXCEPT ![n].pc = "done"]
      /\ ReadEnds(refresh[n].read, "ready") \/ ReadEnds(refresh[n].read, "failed")
      /\ UNCHANGED <<now, flow, stored, dropped, issued>> /\ ended' = ended
      /\ lost \subseteq issued /\ \A g \in Registered(life'.grants) : g \notin lost
    BY <1>3 DEF CommittedRefresh, history
<1> HIDE DEF lost
<1>6. SignInsStay(life, life') /\ Weaker(life.grants, life'.grants)
    BY CommittedLife
<1>7. TurnsStay /\ ReadsStay
    BY <1>4, <1>5, InvariantTyped, TurnEnds, ReadEndsToo
<1>8. LockOK' /\ lock' \in Locks
    BY <1>2, ConnectorAssumption DEF LockOK, Locks, Free
<1>9. /\ flow' \in [Connections -> Flows] /\ row' \in [Connections -> RowRecords]
       /\ secret' \in [Connections -> 0..MaxRefreshes \cup {Nil}] /\ dropped' \subseteq Connections
       /\ \A j \in Connections : flow'[j] = flow[j] /\ row'[j] = row[j] /\ secret'[j] = secret[j]
    BY <1>5, InvariantTyped DEF ConnectorTypeOK, stored
<1>10. AccountOK(c)'
    BY <1>4, <1>5, <1>6, InvariantTyped DEF AccountOK, SignInsStay, Current, Live, stored
<1>11. SecretOK(c)'
    BY <1>6, <1>7, <1>9, InvariantTyped, SecretsStay DEF SignInsStay
<1>12. ASSUME NEW g \in Registered(life'.grants), life.grants.items[g].connection = c
       PROVE  ScopeOK(g)'
    <2>1. g \in Registered(life.grants) /\ life'.grants.items[g] = life.grants.items[g]
        BY <1>6 DEF Weaker, Registered
    <2>2. life.grants.items[g].operations \subseteq row[c].scopes /\ c # Nil
        BY <1>12, <2>1, GrantAssumption DEF ConnectorInvariant, ScopeOK
    <2> QED
        BY <1>2, <1>4, <1>5, <1>12, <2>1, <2>2 DEF ScopeOK, Live, stored, Free
<1>13. \A j \in Connections \ {c} : LifeMoves(j)
    BY <1>6 DEF LifeMoves, SignInsStay, Current
<1>14. /\ life' \in Lives /\ \A j \in Connections : life'.refreshes[j] \in {life.refreshes[j], 0}
       /\ UNCHANGED <<now, issued, dropped>> /\ ended' = ended /\ lock' = Free
       /\ Weaker(life.grants, life'.grants)
       /\ lost \subseteq issued /\ \A g \in Registered(life'.grants) : g \notin lost
    BY <1>2, <1>5, <1>6 DEF SignInsStay
<1> QED
    BY <1>1, <1>7, <1>8, <1>9, <1>10, <1>11, <1>12, <1>13, <1>14, HeldStep

\* What the end of an operation does to the tasks and to the lifecycle
LEMMA LockIsLeft ==
    ASSUME ConnectorInvariant, NEW c \in Connections, lock.connection = c, LeavesLock
    PROVE  /\ lock' = Free /\ TurnsStay /\ ReadsStay
           /\ SignInsStay(life, life') /\ Weaker(life.grants, life'.grants)
           /\ flow' \in [Connections -> Flows] /\ \A k \in Connections \ {c} : flow'[k] = flow[k]
           /\ IF lock.op = "signin" THEN flow'[c] = "failing"
              ELSE flow'[c] = flow[c] /\ flow[c] \in {"failing", "done"}
<1>1. lock' = Free /\ lock # Free /\ lock.op \in {"signin", "refresh", "disconnect"}
    BY Holder, GrantAssumption DEF LeavesLock, Free
<1>2. SignInsStay(life, life) /\ Weaker(life.grants, life.grants)
    BY InvariantTyped, Same DEF SignInsStay
<1>3. flow \in [Connections -> Flows]
    BY InvariantTyped DEF ConnectorTypeOK
<1>4. CASE lock.op = "signin"
    <2>1. flow' = [flow EXCEPT ![c] = "failing"] /\ UNCHANGED <<life, refresh, read>>
        BY <1>4 DEF LeavesLock
    <2>2. TurnsStay /\ ReadsStay
        BY <2>1, InvariantTyped, Untouched
    <2>3. flow' \in [Connections -> Flows]
        BY <1>3, <2>1 DEF Flows
    <2> QED
        BY <1>1, <1>2, <1>3, <1>4, <2>1, <2>2, <2>3
<1>5. CASE lock.op = "refresh"
    <2>1. PICK n \in Turns : lock.task = n /\ refresh[n].pc = "sent" /\ flow[c] = "done"
        BY <1>1, <1>5, InvariantTyped DEF LockOK
    <2>2. /\ life' = RefreshEnds(life, n) /\ refresh' = [refresh EXCEPT ![n].pc = "done"]
          /\ ReadEnds(refresh[n].read, "failed") /\ flow' = flow
        BY <1>5, <2>1 DEF LeavesLock
    <2>3. TurnsStay /\ ReadsStay
        BY <2>1, <2>2, InvariantTyped, TurnEnds, ReadEndsToo
    <2>4. SignInsStay(life, life') /\ Weaker(life.grants, life'.grants)
        BY <2>1, <2>2, RefreshEndsStays
    <2> QED
        BY <1>1, <1>3, <1>5, <2>1, <2>2, <2>3, <2>4
<1>6. CASE lock.op = "disconnect"
    <2>1. UNCHANGED <<life, flow, refresh, read>>
        BY <1>6 DEF LeavesLock, tasks
    <2>2. TurnsStay /\ ReadsStay
        BY <2>1, InvariantTyped, Untouched
    <2>3. flow[c] \in {"failing", "done"}
        BY <1>1, <1>6, InvariantTyped DEF LockOK
    <2> QED
        BY <1>1, <1>2, <1>3, <1>6, <2>1, <2>2, <2>3
<1> QED
    BY <1>1, <1>4, <1>5, <1>6

LEMMA OperationsEnd ==
    ASSUME ConnectorInvariant, DeleteRow \/ StepFails
    PROVE  ConnectorInvariant'
<1>1. /\ lock.at \in {"stage", "mark", "remove", "delete"} /\ lock # Free /\ LeavesLock
      /\ UNCHANGED <<now, secret, dropped, issued>> /\ ended' = ended
    BY DEF DeleteRow, StepFails, At, Free, stored, history
<1>2. PICK c \in Connections : lock.connection = c
    BY <1>1, Holder
<1> DEFINE lost == {}
<1>3. lost \subseteq issued /\ \A g \in Registered(life'.grants) : g \notin lost
    OBVIOUS
<1> HIDE DEF lost
<1>4. /\ lock' = Free /\ TurnsStay /\ ReadsStay
      /\ SignInsStay(life, life') /\ Weaker(life.grants, life'.grants)
      /\ flow' \in [Connections -> Flows] /\ \A k \in Connections \ {c} : flow'[k] = flow[k]
      /\ IF lock.op = "signin" THEN flow'[c] = "failing"
         ELSE flow'[c] = flow[c] /\ flow[c] \in {"failing", "done"}
    BY <1>1, <1>2, LockIsLeft
<1>5. /\ row' \in [Connections -> RowRecords] /\ \A k \in Connections \ {c} : row'[k] = row[k]
      /\ \/ row'[c] = row[c]
         \/ row'[c] = NoRow /\ lock.at = "delete" /\ ~Live(c) /\ secret[c] = Nil
    <2>1. CASE DeleteRow
        <3>1. row' = [row EXCEPT ![c] = NoRow] /\ lock.at = "delete"
            BY <1>2, <2>1 DEF DeleteRow, At
        <3>2. ~Live(c) /\ secret[c] = Nil
            BY <1>1, <1>2, <3>1, InvariantTyped DEF LockOK
        <3>3. NoRow \in RowRecords
            BY DEF NoRow, RowRecords
        <3> HIDE DEF NoRow
        <3> QED
            BY <3>1, <3>2, <3>3, InvariantTyped DEF ConnectorTypeOK
    <2>2. CASE StepFails
        BY <2>2, InvariantTyped DEF StepFails, stored, ConnectorTypeOK
    <2> QED
        BY <2>1, <2>2
<1>6. LockOK' /\ lock' \in Locks
    BY <1>4, ConnectorAssumption DEF LockOK, Locks, Free
<1>7. AccountOK(c)'
    <2>1. AccountOK(c) /\ (lock.op = "signin" => ~Live(c) /\ c \notin dropped)
        BY <1>1, <1>2, InvariantTyped DEF AccountOK, SigningLock, LockOK
    <2>2. ~Live(c) => ~Live(c)'
        BY <1>5 DEF Live, NoRow
    <2>3. secret[c] # Nil => row'[c].state # "none"
        BY <1>5, <2>1 DEF AccountOK
    <2>4. Live(c)' => Live(c)
        BY <2>2
    <2> QED
        BY <1>1, <1>2, <1>4, <2>1, <2>3, <2>4 DEF AccountOK, SignInsStay, Current, SigningLock, Live
<1>8. SecretOK(c)'
    BY <1>1, <1>4, InvariantTyped, SecretsStay DEF SignInsStay
<1>9. ASSUME NEW g \in Registered(life'.grants), life.grants.items[g].connection = c
      PROVE  ScopeOK(g)'
    <2>1. g \in Registered(life.grants) /\ life'.grants.items[g] = life.grants.items[g]
        BY <1>4 DEF Weaker, Registered
    <2>2. /\ Live(c) /\ life.grants.items[g].operations \subseteq row[c].scopes
          /\ lock.at # "delete" /\ c # Nil
        BY <1>1, <1>2, <1>9, <2>1, GrantAssumption DEF ConnectorInvariant, ScopeOK, Writing
    <2> QED
        BY <1>4, <1>5, <1>9, <2>1, <2>2 DEF ScopeOK, Live, Free
<1>10. /\ secret' \in [Connections -> 0..MaxRefreshes \cup {Nil}] /\ dropped' \subseteq Connections
       /\ \A k \in Connections \ {c} : secret'[k] = secret[k]
    BY <1>1, InvariantTyped DEF ConnectorTypeOK
<1>11. \A k \in Connections \ {c} : LifeMoves(k)
    BY <1>4 DEF LifeMoves, SignInsStay, Current
<1>12. /\ life' \in Lives /\ \A k \in Connections : life'.refreshes[k] \in {life.refreshes[k], 0}
       /\ Weaker(life.grants, life'.grants) /\ lock' = Free /\ TurnsStay /\ ReadsStay
       /\ flow' \in [Connections -> Flows] /\ \A k \in Connections \ {c} : flow'[k] = flow[k]
    BY <1>4 DEF SignInsStay
<1>13. row' \in [Connections -> RowRecords] /\ \A k \in Connections \ {c} : row'[k] = row[k]
    BY <1>5
<1>14. UNCHANGED <<now, issued, dropped>> /\ ended' = ended
    BY <1>1
<1> QED
    BY <1>2, <1>3, <1>6, <1>7, <1>8, <1>9, <1>10, <1>11, <1>12, <1>13, <1>14, HeldStep

-----------------------------------------------------------------------------
(* Every step *)

LEMMA TickKeeps ==
    ASSUME ConnectorInvariant, Tick
    PROVE  ConnectorInvariant'
<1> DEFINE lost == {}
<1>1. /\ UNCHANGED <<life, lock, flow, refresh, read, row, secret, dropped, issued, ended>>
      /\ now' \in Nat /\ now' >= now
      /\ lost \subseteq issued /\ \A g \in Registered(life'.grants) : g \notin lost
    BY InvariantTyped DEF Tick, tasks, stored, history
<1> HIDE DEF lost
<1>2. ConnectorTypeOK' /\ TasksOK' /\ LockOK'
    BY <1>1, InvariantTyped DEF ConnectorTypeOK, TasksOK, LockOK, Current, Live
<1>3. \A c \in Connections : AccountOK(c)' /\ SecretOK(c)'
    BY <1>1, InvariantTyped DEF AccountOK, SecretOK, SigningLock, Current, Live
<1>4. AuthorityOK'
    BY <1>1, InvariantTyped, Same, AuthorityStays
<1>5. \A g \in Registered(life'.grants) : ScopeOK(g)'
    BY <1>1 DEF ConnectorInvariant, ScopeOK, Live
<1> QED
    BY <1>2, <1>3, <1>4, <1>5 DEF ConnectorInvariant, AccountsOK

LEMMA NoLifeTyped ==
    /\ NoLife \in Lives /\ NoLife.pending = Nil /\ Registered(NoLife.grants) = {}
    /\ NoLife.phase = [c \in Connections |-> "none"]
    /\ \A c \in Connections : NoLife.refreshes[c] = 0
<1>1. NoGrants \in GrantStates /\ Registered(NoGrants) = {}
    BY DEF NoGrants, GrantStates, Registered
<1> HIDE DEF NoGrants
<1> QED
    BY <1>1, ConnectorAssumption DEF NoLife, Lives, LifePhases

LEMMA RestartKeeps ==
    ASSUME ConnectorInvariant, Restart
    PROVE  ConnectorInvariant'
<1> DEFINE phase == [c \in Connections |->
                        IF Current(life, c) THEN "lost" ELSE life.phase[c]]
           lost == Registered(life.grants)
           to(n) == IF refresh[n].pc = "sent" THEN [refresh[n] EXCEPT !.pc = "done"]
                    ELSE refresh[n]
           rd(d) == IF read[d].pc \in {"none", "delivered"} THEN read[d]
                    ELSE [read[d] EXCEPT !.pc = "failed"]
<1>1. /\ life' = [NoLife EXCEPT !.phase = phase] /\ lock' = Free
      /\ flow' = [c \in Connections |-> IF flow[c] = "none" THEN "none" ELSE "done"]
      /\ refresh' = [n \in Turns |-> to(n)] /\ read' = [d \in Reads |-> rd(d)]
      /\ ended' = ended \cup (lost \X Runs)
      /\ UNCHANGED <<now, row, secret, dropped, issued>>
    BY DEF Restart, stored
<1>2. phase \in [Connections -> LifePhases]
    BY InvariantTyped DEF Lives, LifePhases
<1>3. \A c \in Connections : phase[c] \in {life.phase[c], "lost"}
    OBVIOUS
<1>4. lost \subseteq issued /\ lost \subseteq Grants
    BY InvariantTyped, GrantsIssued DEF Registered
<1> HIDE DEF phase, lost
<1>5. /\ life' \in Lives /\ life'.pending = Nil /\ life'.phase = phase
      /\ Registered(life'.grants) = {} /\ \A c \in Connections : life'.refreshes[c] = 0
    BY <1>1, <1>2, NoLifeTyped DEF Lives
<1>6. ASSUME NEW n \in Turns
      PROVE  /\ to(n) \in RefreshRecords /\ to(n).connection = refresh[n].connection
             /\ to(n).read = refresh[n].read /\ (to(n).pc = "none" <=> refresh[n].pc = "none")
    BY InvariantTyped DEF ConnectorTypeOK, RefreshRecords
<1>7. ASSUME NEW d \in Reads
      PROVE  /\ rd(d) \in ReadRecords /\ rd(d).context = read[d].context
             /\ (rd(d).pc = "none" <=> read[d].pc = "none")
    BY InvariantTyped DEF ConnectorTypeOK, ReadRecords
<1> HIDE DEF to, rd
<1>8. TurnsStay
    BY <1>1, <1>6 DEF TurnsStay
<1>9. ReadsStay
    BY <1>1, <1>7, InvariantTyped DEF ReadsStay, TasksOK
<1>10. flow' \in [Connections -> Flows]
    BY <1>1 DEF Flows
<1>11. ended' \subseteq Grants \X Runs /\ lock' \in Locks /\ LockOK'
    BY <1>1, <1>4, InvariantTyped, ConnectorAssumption DEF ConnectorTypeOK, LockOK, Locks, Free
<1>12. ConnectorTypeOK'
    BY <1>1, <1>5, <1>8, <1>9, <1>10, <1>11, InvariantTyped
       DEF ConnectorTypeOK, TurnsStay, ReadsStay
<1>13. TasksOK'
    BY <1>8, <1>9, InvariantTyped, TasksStay
<1>14. ASSUME NEW c \in Connections
       PROVE  AccountOK(c)' /\ SecretOK(c)'
    <2>1. AccountOK(c) /\ (SigningLock(c) => flow[c] = "exchanging" /\ c \notin dropped)
        BY InvariantTyped DEF LockOK, SigningLock, Free
    <2>2. flow'[c] = IF flow[c] = "none" THEN "none" ELSE "done"
        BY <1>1
    <2>3. ~Current(life, c)' /\ life'.phase[c] \in {life.phase[c], "lost"}
        BY <1>3, <1>5 DEF Current
    <2>4. AccountOK(c)'
        BY <1>1, <2>1, <2>2, <2>3 DEF AccountOK, Live
    <2>5. SecretOK(c)'
        BY <1>1, <1>5, <1>8, InvariantTyped, SecretsStay
    <2> QED
        BY <2>4, <2>5
<1>15. AuthorityOK'
    BY <1>1, <1>4, <1>5, InvariantTyped DEF AuthorityOK
<1> QED
    BY <1>5, <1>12, <1>13, <1>14, <1>15, <1>11 DEF ConnectorInvariant, AccountsOK

LEMMA InvariantHoldsFirst == Init => ConnectorInvariant
<1> SUFFICES ASSUME Init PROVE ConnectorInvariant
    OBVIOUS
<1>1. /\ now = 0 /\ life = NoLife /\ lock = Free
      /\ flow = [c \in Connections |-> "none"] /\ refresh = [n \in Turns |-> NoRefresh]
      /\ read = [d \in Reads |-> NoRead] /\ row = [c \in Connections |-> NoRow]
      /\ secret = [c \in Connections |-> Nil] /\ dropped = {} /\ issued = {} /\ ended = {}
    BY DEF Init
<1>2. /\ NoRefresh \in RefreshRecords /\ NoRead \in ReadRecords /\ NoRow \in RowRecords
      /\ Free \in Locks
    BY ConnectorAssumption
       DEF NoRefresh, RefreshRecords, NoRead, ReadRecords, NoRow, RowRecords, Free, Locks
<1>3. ConnectorTypeOK
    BY <1>1, <1>2, NoLifeTyped DEF ConnectorTypeOK, Flows
<1>4. TasksOK /\ LockOK /\ AuthorityOK /\ \A g \in Registered(life.grants) : ScopeOK(g)
    BY <1>1, NoLifeTyped DEF TasksOK, LockOK, AuthorityOK, NoRead, NoRefresh
<1>5. \A c \in Connections : AccountOK(c) /\ SecretOK(c)
    BY <1>1, NoLifeTyped DEF AccountOK, SecretOK, Live, Current, NoRow
<1> QED
    BY <1>3, <1>4, <1>5 DEF ConnectorInvariant, AccountsOK

LEMMA LockStepsKeep ==
    ASSUME ConnectorInvariant, LockStep
    PROVE  ConnectorInvariant'
BY StageKeeps, WriteSecretKeeps, PublishKeeps, RollsBackKeeps, CommittedSignInKeeps,
   CommittedRefreshKeeps, MarkKeeps, RemoveSecretKeeps, OperationsEnd DEF LockStep

LEMMA StuttersKeep ==
    ASSUME ConnectorInvariant, UNCHANGED vars
    PROVE  ConnectorInvariant'
<1>1. UNCHANGED <<now, life, lock, flow, refresh, read, row, secret, dropped, issued, ended>>
    BY DEF vars, tasks, stored, history
<1>2. ConnectorTypeOK' /\ TasksOK' /\ LockOK'
    BY <1>1, InvariantTyped DEF ConnectorTypeOK, TasksOK, LockOK, Current, Live
<1>3. \A c \in Connections : AccountOK(c)' /\ SecretOK(c)'
    BY <1>1, InvariantTyped DEF AccountOK, SecretOK, SigningLock, Current, Live
<1>4. AuthorityOK' /\ \A g \in Registered(life'.grants) : ScopeOK(g)'
    BY <1>1 DEF ConnectorInvariant, AuthorityOK, ScopeOK, Live
<1> QED
    BY <1>2, <1>3, <1>4 DEF ConnectorInvariant, AccountsOK

LEMMA InvariantPreserved == ConnectorInvariant /\ [Next]_vars => ConnectorInvariant'
<1> SUFFICES ASSUME ConnectorInvariant, [Next]_vars
             PROVE  ConnectorInvariant'
    OBVIOUS
<1>1. ASSUME NEW c \in Connections,
             StartGoogle(c) \/ Cancel(c) \/ FlowStep(c) \/ Disconnect(c)
      PROVE  ConnectorInvariant'
    BY <1>1, StartingKeeps, CallsBackKeeps, SignInsMove, SignInTakes, DisconnectTakes DEF FlowStep
<1>2. ASSUME NEW n \in Turns, RefreshStep(n) \/ \E c \in Connections : RefreshByOperator(n, c)
      PROVE  ConnectorInvariant'
    BY <1>2, RefreshFailsKeeps, RefreshTakes, RefreshesBegin DEF RefreshStep
<1>3. ASSUME NEW g \in Grants,
             RevokeGrant(g) \/ \E grant \in GrantRecords : RegisterGrant(g, grant)
      PROVE  ConnectorInvariant'
    BY <1>3, RevokingKeeps, RegisteringKeeps
<1>4. ASSUME NEW d \in Reads,
             ReadProgress(d) \/ \E context \in Contexts : BeginRead(d, context)
      PROVE  ConnectorInvariant'
    BY <1>4, ReadStepsKeep, RefreshesBegin, BeginningReadKeeps DEF ReadProgress
<1>5. CASE Snapshot
    <2>1. CASE life.pending = Nil
        BY <1>5, <2>1 DEF Snapshot, Overdue
    <2>2. CASE life.pending # Nil
        <3>1. life.pending.id \in Connections
            BY <2>2, InvariantTyped DEF Lives
        <3> QED
            BY <1>5, <3>1, SignInsMove
    <2> QED
        BY <2>1, <2>2
<1> QED
    BY <1>1, <1>2, <1>3, <1>4, <1>5, TickKeeps, RestartKeeps, LockStepsKeep, StuttersKeep,
       CancellingKeeps DEF Next

LEMMA InvariantStays == Spec => []ConnectorInvariant
BY InvariantHoldsFirst, InvariantPreserved, PTL DEF Spec

\* The credential store, the listed connections and the phases that are shown
\* agree in every state, whatever step fails and whenever the process ends
\* (connectors.rs: commit_new, disconnect_impl).
THEOREM AccountsStayAgreed == Spec => []AccountsAgree
<1>1. ConnectorInvariant => AccountsAgree
    BY DEF ConnectorInvariant, AccountsOK, AccountOK, AccountsAgree, SecretsTracked,
           EndedNeverListed, DisconnectedForGood, FailedNeverConnects, Live, ConnectorTypeOK
<1> QED
    BY <1>1, InvariantStays, PTL

\* Outside of critical sections every grant reads a listed connection, within
\* the scopes the provider granted last (connectors.rs: commit_refresh_checked).
THEOREM GrantsStayWithinScopes == Spec => []GrantsWithinScopes
<1>1. ConnectorInvariant => GrantsWithinScopes
    BY GrantsListed DEF GrantsWithinScopes, Available
<1> QED
    BY <1>1, InvariantStays, PTL

-----------------------------------------------------------------------------
(* What a step may do *)

\* The sign-ins fail by their own task or by their deadline.
OwnFailure(c) ==
    life.phase[c] # "failed" /\ life'.phase[c] = "failed"
        => \/ flow[c] # "done" /\ flow'[c] = "done"
           \/ life.pending.id = c /\ now >= life.pending.deadline

LEMMA ExpiryFails ==
    ASSUME NEW l \in Lives, NEW c \in Connections, Expire(l).phase[c] = "failed",
           l.phase[c] # "failed"
    PROVE  l.pending.id = c /\ now >= l.pending.deadline
<1>1. Overdue(l) /\ Expire(l) = Terminal(l, "failed")
    BY ExpireEnds
<1>2. l.pending # Nil /\ "failed" \in LifePhases
    BY <1>1 DEF Overdue, LifePhases
<1>3. Terminal(l, "failed").phase = [l.phase EXCEPT ![l.pending.id] = "failed"]
    BY <1>2, TerminalEnds
<1>4. l.phase \in [Connections -> LifePhases]
    BY DEF Lives
<1> QED
    BY <1>1, <1>3, <1>4 DEF Overdue

\* No sign-in is touched.
SignInsRest(l, k) == k.phase = l.phase /\ k.pending = l.pending

LEMMA SignInsKept ==
    ASSUME NEW l \in Lives
    PROVE  /\ \A t : SignInsRest(l, [l EXCEPT !.grants = t])
           /\ \A t, u : SignInsRest(l, [[l EXCEPT !.grants = t] EXCEPT !.grants = u])
           /\ \A c, n : SignInsRest(l, [l EXCEPT !.refreshes[c] = n])
           /\ \A t, c, n : SignInsRest(l, [[l EXCEPT !.grants = t] EXCEPT !.refreshes[c] = n])
           /\ \A t, c, n : SignInsRest(l, [[l EXCEPT !.refreshes[c] = n] EXCEPT !.grants = t])
BY DEF Lives, SignInsRest

LEMMA SignInsAlone ==
    ASSUME ConnectorInvariant,
           \/ Tick \/ Stage \/ WriteSecret \/ Publish \/ Mark \/ RemoveSecret
           \/ CommittedRefresh \/ DeleteRow \/ StepFails
           \/ RollsBack /\ lock.op = "refresh"
           \/ \E c \in Connections : Disconnect(c) \/ \E n \in Turns : RefreshByOperator(n, c)
           \/ \E n \in Turns : RefreshStep(n)
           \/ \E g \in Grants :
                 RevokeGrant(g) \/ \E grant \in GrantRecords : RegisterGrant(g, grant)
           \/ \E r \in Runs : CancelRun(r)
           \/ \E d \in Reads : ReadProgress(d) \/ \E context \in Contexts : BeginRead(d, context)
    PROVE  SignInsRest(life, life')
<1>1. life \in Lives
    BY InvariantTyped
<1>2. /\ \A c : SignInsRest(life, WithoutGrants(life, c))
      /\ \A c : SignInsRest(life, WithoutGrants(WithGrantsExpired(life), c))
      /\ SignInsRest(life, WithGrantsExpired(life)) /\ SignInsRest(life, life)
      /\ \A c : SignInsRest(life, Disconnected(life, c))
      /\ \A d : SignInsRest(life, ReadReleased(life, d))
      /\ \A d : SignInsRest(life, ReadReleased(WithGrantsExpired(life), d))
    BY <1>1, SignInsKept
       DEF WithoutGrants, WithGrantsExpired, Disconnected, ReadReleased, SignInsRest
<1>3. CASE Tick \/ Stage \/ WriteSecret \/ Publish \/ Mark \/ RemoveSecret
    BY <1>3 DEF Tick, Stage, WriteSecret, Publish, Mark, RemoveSecret, SignInsRest
<1>4. CASE CommittedRefresh \/ DeleteRow \/ StepFails
    <2>1. CASE CommittedRefresh
        BY <2>1, CommittedLife DEF SignInsStay, SignInsRest
    <2>2. CASE DeleteRow \/ StepFails
        <3>1. LeavesLock /\ lock # Free
            BY <2>2 DEF DeleteRow, StepFails, At, Free
        <3> QED
            BY <3>1, Holder, LockIsLeft DEF SignInsStay, SignInsRest
    <2> QED
        BY <1>4, <2>1, <2>2
<1>5. CASE RollsBack /\ lock.op = "refresh"
    BY <1>2, <1>5 DEF RollsBack
<1>6. ASSUME NEW c \in Connections, Disconnect(c) \/ \E n \in Turns : RefreshByOperator(n, c)
      PROVE  SignInsRest(life, life')
    <2>1. CASE Disconnect(c)
        BY <1>2, <2>1 DEF Disconnect
    <2>2. CASE \E n \in Turns : RefreshByOperator(n, c)
        <3>1. \E n \in Turns : life' = [life EXCEPT !.refreshes[c] = n]
            BY <2>2 DEF RefreshByOperator
        <3> QED
            BY <1>1, <3>1, SignInsKept DEF SignInsRest
    <2> QED
        BY <1>6, <2>1, <2>2
<1>7. ASSUME NEW n \in Turns, RefreshStep(n)
      PROVE  SignInsRest(life, life')
    <2>1. CASE RefreshFails(n)
        BY <2>1, RefreshEndsStays DEF RefreshFails, SignInsStay, SignInsRest
    <2>2. CASE RefusesScopes(n)
        BY <1>2, <2>2 DEF RefusesScopes
    <2>3. ASSUME NEW scopes \in SUBSET Operations, CommitRefresh(n, scopes)
          PROVE  SignInsRest(life, life')
        BY <1>2, <2>3 DEF CommitRefresh
    <2> QED
        BY <1>7, <2>1, <2>2, <2>3 DEF RefreshStep
<1>8. ASSUME NEW g \in Grants, RevokeGrant(g) \/ \E grant \in GrantRecords : RegisterGrant(g, grant)
      PROVE  SignInsRest(life, life')
    <2>1. \E t : life' = [life EXCEPT !.grants = t]
        <3>1. CASE RevokeGrant(g)
            BY <3>1 DEF RevokeGrant
        <3>2. CASE \E grant \in GrantRecords : RegisterGrant(g, grant)
            BY <3>2 DEF RegisterGrant
        <3> QED
            BY <1>8, <3>1, <3>2
    <2> QED
        BY <1>1, <2>1, SignInsKept
<1>9. ASSUME NEW r \in Runs, CancelRun(r)
      PROVE  SignInsRest(life, life')
    BY <1>1, <1>9, SignInsKept DEF CancelRun
<1>10. ASSUME NEW d \in Reads, ReadProgress(d)
       PROVE  SignInsRest(life, life')
    <2>1. CASE \E n \in Turns : RefreshByRead(n, d)
        BY <1>1, <2>1, SignInsKept DEF RefreshByRead, WithGrantsExpired, SignInsRest
    <2>2. CASE \/ UsesCredential(d) \/ Request(d) \/ Response(d)
               \/ Returns(d) \/ Deliver(d) \/ ReadFails(d)
        <3>1. \/ life' = WithGrantsExpired(life) \/ life' = ReadReleased(life, d)
              \/ life' = ReadReleased(WithGrantsExpired(life), d)
              \/ \E s : life' = [life EXCEPT !.grants = s]
            BY <2>2
               DEF UsesCredential, Request, Response, Returns, Deliver, ReadFails, ReadStep
        <3>2. CASE \E s : life' = [life EXCEPT !.grants = s]
            BY <1>1, <3>2, SignInsKept
        <3> QED
            BY <1>2, <3>1, <3>2
    <2> QED
        BY <1>10, <2>1, <2>2 DEF ReadProgress
<1>11. ASSUME NEW d \in Reads, NEW context \in Contexts, BeginRead(d, context)
       PROVE  SignInsRest(life, life')
    BY <1>1, <1>11, SignInsKept DEF BeginRead
<1> QED
    BY <1>3, <1>4, <1>5, <1>6, <1>7, <1>8, <1>9, <1>10, <1>11

LEMMA FailuresOwn ==
    ASSUME ConnectorInvariant, [Next]_vars, NEW c \in Connections
    PROVE  OwnFailure(c)
<1> DEFINE e == Expire(life)
<1>1. e \in Lives /\ life \in Lives /\ life.phase \in [Connections -> LifePhases]
    BY InvariantTyped, ExpireEnds DEF Ends, Lives
<1>2. ASSUME life'.phase[c] = "failed" => e.phase[c] = "failed" \/ life.phase[c] = "failed"
      PROVE  OwnFailure(c)
    BY <1>1, <1>2, ExpiryFails DEF OwnFailure
<1>3. ASSUME NEW l \in Lives, l.pending # Nil, NEW phase \in {"cancelled", "connected"},
             Terminal(l, phase).phase[c] = "failed"
      PROVE  l.phase[c] = "failed"
    <2>1. phase \in LifePhases /\ l.phase \in [Connections -> LifePhases]
        BY DEF Lives, LifePhases
    <2>2. Terminal(l, phase).phase = [l.phase EXCEPT ![l.pending.id] = phase]
        BY <1>3, <2>1, TerminalEnds
    <2> QED
        BY <1>3, <2>1, <2>2
<1>4. ASSUME UNCHANGED vars PROVE OwnFailure(c)
    BY <1>4 DEF OwnFailure, vars
<1>5. ASSUME Restart PROVE OwnFailure(c)
    <2>1. NoLife \in Lives
        BY NoLifeTyped
    <2>2. life'.phase[c] = IF Current(life, c) THEN "lost" ELSE life.phase[c]
        BY <1>5, <2>1 DEF Restart, Lives
    <2> QED
        BY <2>2 DEF OwnFailure
<1>6. ASSUME Snapshot PROVE OwnFailure(c)
    BY <1>2, <1>6 DEF Snapshot
<1>7. ASSUME RollsBack, lock.op # "refresh" PROVE OwnFailure(c)
    <2>1. life' = e \/ life' = life
        BY <1>7 DEF RollsBack
    <2> HIDE DEF e
    <2> QED
        BY <1>2, <2>1
<1>8. ASSUME CommittedSignIn PROVE OwnFailure(c)
    <2>1. life' = life \/ (life.pending # Nil /\ life' = Terminal(life, "connected"))
        BY <1>8 DEF CommittedSignIn, Current
    <2> QED
        BY <1>1, <1>2, <1>3, <2>1
<1>9. ASSUME NEW k \in Connections, StartGoogle(k) \/ CallsBack(k) PROVE OwnFailure(c)
    <2>1. e.phase \in [Connections -> LifePhases]
        BY <1>1 DEF Lives
    <2>2. \/ life'.phase = [e.phase EXCEPT ![k] = "pending"]
          \/ life'.phase = [e.phase EXCEPT ![k] = "exchanging"]
        <3> HIDE DEF e
        <3>1. CASE StartGoogle(k)
            BY <1>1, <3>1 DEF StartGoogle, e, Lives
        <3>2. CASE CallsBack(k)
            BY <1>1, <3>2 DEF CallsBack, e, Lives
        <3> QED
            BY <1>9, <3>1, <3>2
    <2> HIDE DEF e
    <2>3. life'.phase[c] = "failed" => e.phase[c] = "failed"
        BY <2>1, <2>2
    <2> QED
        BY <1>2, <2>3 DEF e
<1>10. ASSUME NEW k \in Connections, Cancel(k) PROVE OwnFailure(c)
    <2>1. e.pending # Nil /\ life' = Terminal(e, "cancelled")
        BY <1>10 DEF Cancel, Current
    <2> QED
        BY <1>1, <1>2, <1>3, <2>1
<1>11. ASSUME NEW k \in Connections, OpensBrowser(k) \/ Launched(k) PROVE OwnFailure(c)
    BY <1>2, <1>11 DEF OpensBrowser, Launched
<1>12. ASSUME NEW k \in Connections, \E scopes \in SUBSET Operations : CommitNew(k, scopes)
       PROVE  OwnFailure(c)
    BY <1>2, <1>12 DEF CommitNew
<1>13. ASSUME NEW k \in Connections, FlowFails(k) PROVE OwnFailure(c)
    <2>1. flow[k] # "done" /\ flow'[k] = "done" /\ life' = Finish(life, k, "failed")
        BY <1>13, InvariantTyped DEF FlowFails, ConnectorTypeOK
    <2>2. CASE Current(e, k)
        <3>1. life' = Terminal(e, "failed") /\ e.pending # Nil /\ e.pending.id = k
              /\ "failed" \in LifePhases
            BY <2>1, <2>2 DEF Finish, Current, LifePhases
        <3>2. /\ life'.phase = [e.phase EXCEPT ![k] = "failed"]
              /\ e.phase \in [Connections -> LifePhases]
            BY <1>1, <3>1, TerminalEnds DEF Lives
        <3>3. CASE c = k
            BY <2>1, <3>3 DEF OwnFailure
        <3>4. CASE c # k
            <4> HIDE DEF e
            <4>1. life'.phase[c] = "failed" => e.phase[c] = "failed"
                BY <3>2, <3>4
            <4> QED
                BY <1>2, <4>1 DEF e
        <3> QED
            BY <3>3, <3>4
    <2>3. CASE ~Current(e, k)
        <3>1. life' = e
            BY <2>1, <2>3 DEF Finish
        <3> QED
            BY <1>2, <3>1
    <2> QED
        BY <2>2, <2>3
<1>14. ASSUME SignInsRest(life, life') PROVE OwnFailure(c)
    BY <1>14 DEF OwnFailure, SignInsRest
<1> HIDE DEF e
<1> QED
    BY <1>4, <1>5, <1>6, <1>7, <1>8, <1>9, <1>10, <1>11, <1>12, <1>13, <1>14, SignInsAlone
       DEF Next, LockStep, FlowStep

\* Only one step writes a credential, and what it overwrites is older.
LEMMA SecretsMove ==
    ASSUME ConnectorInvariant, [Next]_vars, NEW c \in Connections,
           secret[c] # Nil, secret'[c] # Nil
    PROVE  secret[c] <= secret'[c]
<1>1. secret \in [Connections -> 0..MaxRefreshes \cup {Nil}]
    BY InvariantTyped DEF ConnectorTypeOK
<1>2. ASSUME secret' = secret PROVE secret[c] <= secret'[c]
    BY <1>1, <1>2, ConnectorAssumption
<1>3. CASE WriteSecret
    <2>1. /\ lock.at = "write" /\ lock # Free
          /\ secret' = [secret EXCEPT ![lock.connection] = lock.task]
        BY <1>3 DEF WriteSecret, At, Free
    <2>2. CASE c # lock.connection
        <3>1. secret'[c] = secret[c] /\ secret[c] \in 0..MaxRefreshes
            BY <1>1, <2>1, <2>2
        <3> QED
            BY <3>1, ConnectorAssumption
    <2>3. CASE c = lock.connection
        <3>1. lock.op = "refresh" /\ life.refreshes[c] = lock.task /\ lock.task \in Turns
            BY <2>1, <2>3, InvariantTyped DEF LockOK, Writing, Removing
        <3>2. secret[c] <= life.refreshes[c]
            BY <3>1, InvariantTyped, ConnectorAssumption DEF SecretOK, Turns
        <3> QED
            BY <1>1, <2>1, <2>3, <3>1, <3>2
    <2> QED
        BY <2>2, <2>3
<1>4. CASE RemoveSecret
    <2>1. secret' = [secret EXCEPT ![lock.connection] = Nil]
        BY <1>4 DEF RemoveSecret
    <2>2. secret'[c] = secret[c] /\ secret[c] \in 0..MaxRefreshes
        BY <1>1, <2>1
    <2> QED
        BY <2>2, ConnectorAssumption
<1>5. CASE UNCHANGED vars \/ Tick \/ Restart \/ Snapshot
    BY <1>2, <1>5 DEF vars, Tick, Restart, Snapshot, stored
<1>6. CASE \/ Stage \/ Publish \/ RollsBack \/ CommittedSignIn \/ CommittedRefresh
           \/ Mark \/ DeleteRow \/ StepFails
    BY <1>2, <1>6 DEF Stage, Publish, RollsBack, CommittedSignIn, CommittedRefresh,
       Mark, DeleteRow, StepFails, stored
<1>7. ASSUME NEW k \in Connections,
             \/ StartGoogle(k) \/ Cancel(k) \/ FlowStep(k) \/ Disconnect(k)
             \/ \E n \in Turns : RefreshByOperator(n, k)
      PROVE  secret[c] <= secret'[c]
    BY <1>2, <1>7 DEF StartGoogle, Cancel, FlowStep, OpensBrowser, Launched, CallsBack, FlowFails,
       CommitNew, Disconnect, RefreshByOperator, stored
<1>8. ASSUME NEW n \in Turns, RefreshStep(n)
      PROVE  secret[c] <= secret'[c]
    BY <1>2, <1>8 DEF RefreshStep, RefreshFails, RefusesScopes, CommitRefresh, stored
<1>9. ASSUME \/ \E g \in Grants :
                   RevokeGrant(g) \/ \E grant \in GrantRecords : RegisterGrant(g, grant)
             \/ \E r \in Runs : CancelRun(r)
      PROVE  secret[c] <= secret'[c]
    BY <1>2, <1>9 DEF RevokeGrant, RegisterGrant, CancelRun, stored
<1>10. ASSUME NEW d \in Reads,
              ReadProgress(d) \/ \E context \in Contexts : BeginRead(d, context)
       PROVE  secret[c] <= secret'[c]
    BY <1>2, <1>10 DEF ReadProgress, UsesCredential, RefreshByRead, Request, Response, Returns,
       Deliver, ReadFails, ReadStep, BeginRead, stored
<1> QED
    BY <1>3, <1>4, <1>5, <1>6, <1>7, <1>8, <1>9, <1>10 DEF Next, LockStep

\* A task that comes late leaves alone what replaced it: a sign-in fails by its
\* own task or its own deadline, and no credential is overwritten by an earlier
\* refresh (lifecycle.rs: finish; connectors.rs: commit_refresh_checked).
THEOREM LateTasksStayHarmless == Spec => LateTasksHarmless
<1> DEFINE A == \A c \in Connections :
                   life.phase[c] # "failed" /\ life'.phase[c] = "failed"
                      => \/ flow[c] # "done" /\ flow'[c] = "done"
                         \/ life.pending.id = c /\ now >= life.pending.deadline
           B == \A c \in Connections :
                   secret[c] # Nil /\ secret'[c] # Nil => secret[c] <= secret'[c]
<1>1. ConnectorInvariant /\ [Next]_vars => A
    BY FailuresOwn DEF OwnFailure
<1>2. ConnectorInvariant /\ [Next]_vars => B
    BY SecretsMove
<1>3. ConnectorInvariant /\ [Next]_vars => [A]_vars /\ [B]_vars
    BY <1>1, <1>2
<1>4. Spec => [][A]_vars /\ [][B]_vars
    BY <1>3, InvariantStays, PTL DEF Spec
<1> QED
    BY <1>4 DEF LateTasksHarmless, OwnFailureOnly, NewestSecretKept

\* The dispatcher's check is the only step that delivers.
LEMMA OnlyDeliverDelivers ==
    ASSUME ConnectorInvariant, [Next]_vars, NEW d \in Reads,
           read[d].pc # "delivered", read'[d].pc = "delivered"
    PROVE  Deliver(d)
<1>1. read \in [Reads -> ReadRecords] /\ read' # read
    BY InvariantTyped DEF ConnectorTypeOK
<1>2. ASSUME NEW e, NEW pc, read' = [read EXCEPT ![e].pc = pc]
      PROVE  e = d /\ pc = "delivered"
    BY <1>1, <1>2 DEF ReadRecords
<1>3. ASSUME NEW e, ReadEnds(e, "ready") \/ ReadEnds(e, "failed")
      PROVE  FALSE
    <2>1. \/ read' = [read EXCEPT ![e].pc = "ready"]
          \/ read' = [read EXCEPT ![e].pc = "failed"]
        BY <1>1, <1>3 DEF ReadEnds
    <2>2. \A pc \in {"ready", "failed"} : read' # [read EXCEPT ![e].pc = pc]
        <3> TAKE pc \in {"ready", "failed"}
        <3>1. pc # "delivered"
            OBVIOUS
        <3> QED
            BY <1>2, <3>1
    <2> QED
        BY <2>1, <2>2
<1>4. ~Restart
    <2> DEFINE rd(e) == IF read[e].pc \in {"none", "delivered"} THEN read[e]
                        ELSE [read[e] EXCEPT !.pc = "failed"]
    <2>1. rd(d).pc # "delivered"
        BY <1>1 DEF ReadRecords
    <2> QED
        BY <2>1 DEF Restart
<1>5. ~(Tick \/ Snapshot \/ UNCHANGED vars)
    BY <1>1 DEF Tick, Snapshot, vars, tasks
<1>6. ~LockStep
    <2>1. ~(Stage \/ WriteSecret \/ Publish \/ RollsBack \/ CommittedSignIn \/ Mark \/ RemoveSecret)
        BY <1>1 DEF Stage, WriteSecret, Publish, RollsBack, CommittedSignIn, Mark, RemoveSecret,
           tasks
    <2>2. ~LeavesLock
        <3>1. ASSUME LeavesLock, lock.op = "signin" PROVE FALSE
            BY <1>1, <3>1 DEF LeavesLock
        <3>2. ASSUME LeavesLock, lock.op = "refresh" PROVE FALSE
            BY <1>3, <3>2 DEF LeavesLock
        <3>3. ASSUME LeavesLock, lock.op # "signin", lock.op # "refresh" PROVE FALSE
            BY <1>1, <3>3 DEF LeavesLock, tasks
        <3> QED
            BY <3>1, <3>2, <3>3
    <2>3. ~CommittedRefresh
        BY <1>3 DEF CommittedRefresh
    <2> QED
        BY <2>1, <2>2, <2>3 DEF LockStep, DeleteRow, StepFails
<1>7. ASSUME NEW k \in Connections,
             \/ StartGoogle(k) \/ Cancel(k) \/ FlowStep(k) \/ Disconnect(k)
             \/ \E n \in Turns : RefreshByOperator(n, k)
      PROVE  FALSE
    BY <1>1, <1>7 DEF StartGoogle, Cancel, FlowStep, OpensBrowser, Launched, CallsBack, FlowFails,
       CommitNew, Disconnect, RefreshByOperator, tasks
<1>8. ASSUME NEW n \in Turns, RefreshStep(n)
      PROVE  FALSE
    BY <1>1, <1>3, <1>8 DEF RefreshStep, RefreshFails, RefusesScopes, CommitRefresh, tasks
<1>9. ASSUME \/ \E g \in Grants :
                   RevokeGrant(g) \/ \E grant \in GrantRecords : RegisterGrant(g, grant)
             \/ \E r \in Runs : CancelRun(r)
      PROVE  FALSE
    BY <1>1, <1>9 DEF RevokeGrant, RegisterGrant, CancelRun, tasks
<1>10. ASSUME NEW e \in Reads, NEW context \in Contexts, BeginRead(e, context)
       PROVE  FALSE
    BY <1>1, <1>10 DEF BeginRead
<1>11. ASSUME NEW e \in Reads, ReadProgress(e)
       PROVE  Deliver(d)
    <2>1. CASE \E n \in Turns : RefreshByRead(n, e)
        BY <1>2, <2>1 DEF RefreshByRead
    <2>2. CASE UsesCredential(e) \/ Request(e) \/ Response(e)
        <3>1. PICK pc \in {"ready", "requested", "projected"} : read' = [read EXCEPT ![e].pc = pc]
            BY <2>2 DEF UsesCredential, Request, Response, ReadStep
        <3> QED
            BY <1>2, <3>1
    <2>3. CASE Returns(e) \/ ReadFails(e)
        BY <1>2, <2>3 DEF Returns, ReadFails
    <2>4. CASE Deliver(e)
        <3>1. e = d
            BY <1>2, <2>4 DEF Deliver
        <3> QED
            BY <2>4, <3>1
    <2> QED
        BY <1>11, <2>1, <2>2, <2>3, <2>4 DEF ReadProgress
<1> QED
    BY <1>4, <1>5, <1>6, <1>7, <1>8, <1>9, <1>10, <1>11 DEF Next

\* A run under a grant whose authority was withdrawn gets no result any more:
\* the grant is gone, or the fence of the cancelled run lasts as long as the
\* grant (grants.rs: check, cancel_run).
THEOREM WithdrawnStaysWithdrawn == Spec => WithdrawnNeverDelivered
<1> DEFINE A == \A d \in Reads :
                   read[d].pc # "delivered" /\ read'[d].pc = "delivered"
                      => <<read[d].context.grant, read[d].context.run>> \notin ended
<1>1. ConnectorInvariant /\ [Next]_vars => A
    <2> SUFFICES ASSUME ConnectorInvariant, [Next]_vars, NEW d \in Reads,
                        read[d].pc # "delivered", read'[d].pc = "delivered",
                        <<read[d].context.grant, read[d].context.run>> \in ended
                 PROVE  FALSE
        OBVIOUS
    <2> DEFINE g == read[d].context.grant
               r == read[d].context.run
               s == Expired(life.grants, now)
    <2>1. Deliver(d)
        BY OnlyDeliverDelivers
    <2>2. g \in Grants /\ r \in Runs
        BY <2>1, InvariantTyped DEF Deliver, TasksOK, Contexts
    <2>3. g \in Registered(s) /\ s.items[g].workspace = WorkspaceOf[r] /\ r \notin Fenced(s)
        BY <2>1 DEF Deliver, Allows
    <2>4. /\ Weaker(life.grants, s) /\ life.grants.items[g].expires > now
          /\ s.cancelled[r] = IF life.grants.cancelled[r] > now THEN life.grants.cancelled[r] ELSE 0
        BY <2>2, <2>3, InvariantTyped, ExpiredWeaker
    <2> HIDE DEF s
    <2>5. g \in Registered(life.grants) /\ life.grants.items[g] = s.items[g]
        BY <2>2, <2>3, <2>4 DEF Weaker, Registered
    <2>6. life.grants.items[g].expires <= life.grants.cancelled[r]
        BY <2>2, <2>3, <2>5, InvariantTyped DEF AuthorityOK
    <2>7. /\ life.grants.items[g].expires \in Nat /\ life.grants.cancelled[r] \in Nat
          /\ now \in Nat
        BY <2>2, <2>5, InvariantTyped, GrantsTyped
    <2>8. s.cancelled[r] = 0
        BY <2>2, <2>3 DEF Fenced
    <2> QED
        BY <2>4, <2>6, <2>7, <2>8
<1>2. ConnectorInvariant /\ [Next]_vars => [A]_vars
    BY <1>1
<1>3. Spec => [][A]_vars
    BY <1>2, InvariantStays, PTL DEF Spec
<1> QED
    BY <1>3 DEF WithdrawnNeverDelivered

-----------------------------------------------------------------------------
(* The life of a sign-in, on the side of the account *)

\* The task of a sign-in was called back.
Late == {"exchanging", "failing"}

\* What is under way is the current sign-in, and its task says how far it is.
SignInOK(c) ==
    /\ life.phase[c] \in Account!UnderWay <=> Current(life, c)
    /\ flow[c] = "none" => life.phase[c] = "none"
    /\ Current(life, c) => (life.phase[c] = "exchanging" <=> flow[c] \in Late)
SignInsOK == \A c \in Connections : SignInOK(c)

AccountStep == SignInsOK' /\ (Account!Next \/ UNCHANGED life.phase)

\* No task begins, and that of a sign-in that is still current is as far as it was.
FlowsStay ==
    \A c \in Connections :
        /\ flow'[c] = "none" => flow[c] = "none"
        /\ Current(life, c)' => (flow'[c] \in Late <=> flow[c] \in Late)

LEMMA AccountRests ==
    ASSUME SignInsOK, SignInsRest(life, life'), FlowsStay
    PROVE  AccountStep
BY DEF AccountStep, SignInsOK, SignInOK, SignInsRest, FlowsStay, Current

LEMMA AccountMoves ==
    ASSUME ConnectorInvariant, SignInsOK, FlowsStay,
           NEW phase \in {"failed", "cancelled", "connected"},
           life.pending # Nil, life' = Terminal(life, phase),
           phase = "connected" => life.phase[life.pending.id] = "exchanging"
    PROVE  AccountStep
<1> DEFINE c == life.pending.id
<1>1. /\ life'.pending = Nil /\ life'.phase = [life.phase EXCEPT ![c] = phase] /\ c \in Connections
    <2>1. life \in Lives /\ phase \in LifePhases
        BY InvariantTyped DEF LifePhases
    <2> QED
        BY <2>1, TerminalEnds
<1>2. /\ life.phase \in [Connections -> LifePhases] /\ Current(life, c)
      /\ \A k \in Connections : Current(life, k) => k = c
    BY InvariantTyped DEF Lives, Current
<1> HIDE DEF c
<1>3. life.phase[c] \in Account!UnderWay /\ flow[c] # "none"
    BY <1>1, <1>2 DEF SignInsOK, SignInOK, Account!UnderWay
<1>4. SignInsOK'
    BY <1>1, <1>2, <1>3 DEF SignInsOK, SignInOK, FlowsStay, Current, Account!UnderWay
<1>5. CASE phase = "connected"
    BY <1>1, <1>4, <1>5 DEF c, AccountStep, Account!Next, Account!Connect, Account!Moves
<1>6. CASE phase # "connected"
    <2>1. Account!End(c)
        BY <1>1, <1>3, <1>6 DEF Account!End, Account!Moves
    <2> QED
        BY <1>1, <1>4, <2>1 DEF AccountStep, Account!Next
<1> QED
    BY <1>5, <1>6

LEMMA AccountExpires ==
    ASSUME ConnectorInvariant, SignInsOK, FlowsStay, life' = Expire(life)
    PROVE  AccountStep
<1>1. CASE Expire(life) = life
    BY <1>1, AccountRests DEF SignInsRest
<1>2. CASE Overdue(life) /\ Expire(life) = Terminal(life, "failed")
    BY <1>2, AccountMoves DEF Overdue
<1> QED
    BY <1>1, <1>2, InvariantTyped, ExpireEnds

\* The task of a sign-in ends with it.
LEMMA FlowMoves ==
    ASSUME ConnectorInvariant, NEW c \in Connections,
           NEW at \in {"launched", "waiting", "failing", "done"}, flow' = [flow EXCEPT ![c] = at],
           Current(life, c)' => (at \in Late <=> flow[c] \in Late)
    PROVE  FlowsStay
BY InvariantTyped DEF ConnectorTypeOK, FlowsStay

LEMMA AccountBegins ==
    ASSUME ConnectorInvariant, SignInsOK, NEW c \in Connections, StartGoogle(c)
    PROVE  AccountStep
<1> DEFINE l == Expire(life)
<1>1. life \in Lives /\ l \in Lives /\ life.phase \in [Connections -> LifePhases] /\ l.pending = Nil
    BY InvariantTyped, ExpireEnds DEF Ends, Lives, StartGoogle
<1>2. life.phase[c] = "none"
    BY DEF StartGoogle, SignInsOK, SignInOK
<1>3. l.phase = Account!Left("failed")
    <2>1. CASE l = life
        BY <1>1, <2>1 DEF Account!Left, SignInsOK, SignInOK, Current
    <2>2. CASE Overdue(life) /\ l = Terminal(life, "failed")
        <3>1. life.pending # Nil /\ life.pending.id \in Connections
              /\ l.phase = [life.phase EXCEPT ![life.pending.id] = "failed"]
            <4>1. life.pending # Nil /\ "failed" \in LifePhases
                BY <2>2 DEF Overdue, LifePhases
            <4> QED
                BY <1>1, <2>2, <4>1, TerminalEnds
        <3>2. \A k \in Connections : life.phase[k] \in Account!UnderWay <=> k = life.pending.id
            BY <3>1 DEF SignInsOK, SignInOK, Current
        <3> QED
            BY <1>1, <3>1, <3>2 DEF Account!Left
    <2> QED
        BY <1>1, <2>1, <2>2, ExpireEnds
<1>4. /\ life' = [l EXCEPT !.phase[c] = "pending",
                        !.pending = [id |-> c, deadline |-> now + SignInSpan]]
      /\ flow' = [flow EXCEPT ![c] = "opening"]
    BY DEF StartGoogle
<1> HIDE DEF l
<1>5. life'.phase = [l.phase EXCEPT ![c] = "pending"]
      /\ life'.pending = [id |-> c, deadline |-> now + SignInSpan]
    BY <1>1, <1>4 DEF Lives
<1>6. \A k \in Connections : Current(life, k)' <=> k = c
    <2>1. now + SignInSpan \in Nat
        BY InvariantTyped, ConnectorAssumption
    <2>2. life'.pending # Nil
        BY <1>5, <2>1, ConnectorAssumption
    <2> QED
        BY <1>5, <2>2 DEF Current
<1>7. SignInsOK'
    <2>1. /\ life'.phase[c] = "pending" /\ flow'[c] = "opening"
          /\ \A k \in Connections \ {c} : /\ life'.phase[k] = Account!Left("failed")[k]
                                           /\ flow'[k] = flow[k]
        BY <1>1, <1>3, <1>4, <1>5, InvariantTyped DEF Lives, ConnectorTypeOK
    <2>2. \A k \in Connections \ {c} : /\ life'.phase[k] \notin Account!UnderWay
                                       /\ (flow[k] = "none" => life'.phase[k] = "none")
        BY <2>1 DEF Account!Left, Account!UnderWay, SignInsOK, SignInOK
    <2> QED
        BY <1>6, <2>1, <2>2 DEF SignInsOK, SignInOK, Account!UnderWay, Late
<1>8. Account!Begin(c)
    BY <1>2, <1>3, <1>5 DEF Account!Begin
<1> QED
    BY <1>7, <1>8 DEF AccountStep, Account!Next

LEMMA AccountCalledBack ==
    ASSUME ConnectorInvariant, SignInsOK, NEW c \in Connections, CallsBack(c)
    PROVE  AccountStep
<1>1. life \in Lives /\ life.phase \in [Connections -> LifePhases] /\ Expire(life) = life
      /\ Current(life, c) /\ flow[c] = "waiting" /\ flow \in [Connections -> Flows]
    BY InvariantTyped, ExpireEnds DEF Lives, CallsBack, ConnectorTypeOK
<1>2. /\ life' = [life EXCEPT !.phase[c] = "exchanging"]
      /\ flow' = [flow EXCEPT ![c] = "exchanging"]
    BY <1>1 DEF CallsBack
<1>3. /\ life'.phase = [life.phase EXCEPT ![c] = "exchanging"] /\ life'.pending = life.pending
    BY <1>1, <1>2 DEF Lives
<1>4. life.phase[c] = "pending"
    BY <1>1 DEF SignInsOK, SignInOK, Account!UnderWay, Late
<1>5. SignInsOK'
    BY <1>1, <1>2, <1>3 DEF SignInsOK, SignInOK, Account!UnderWay, Current, Late
<1>6. Account!CallBack(c)
    BY <1>3, <1>4 DEF Account!CallBack, Account!Moves
<1> QED
    BY <1>5, <1>6 DEF AccountStep, Account!Next

LEMMA AccountConnects ==
    ASSUME ConnectorInvariant, SignInsOK, CommittedSignIn
    PROVE  AccountStep
<1>1. PICK c \in Connections : lock.connection = c /\ Current(life, c) /\ flow[c] = "exchanging"
    BY Holder, InvariantTyped DEF CommittedSignIn, At, Free, LockOK
<1>2. /\ life' = Terminal(life, "connected") /\ flow' = [flow EXCEPT ![c] = "done"]
      /\ life.pending # Nil /\ life.pending.id = c /\ life.phase[c] = "exchanging"
    BY <1>1 DEF CommittedSignIn, Current, SignInsOK, SignInOK, Late
<1>3. ~Current(life, c)'
    BY <1>2, InvariantTyped, TerminalIsEnd DEF LifePhases, Current
<1> QED
    BY <1>1, <1>2, <1>3, FlowMoves, AccountMoves

LEMMA AccountFlows ==
    ASSUME ConnectorInvariant, SignInsOK, NEW c \in Connections, FlowStep(c) \/ Cancel(c)
    PROVE  AccountStep
<1>1. life \in Lives /\ "failed" \in LifePhases /\ "cancelled" \in LifePhases
    BY InvariantTyped DEF LifePhases
<1>2. CASE OpensBrowser(c) \/ Launched(c)
    <2>1. life' = Expire(life) /\ FlowsStay
        <3>1. CASE OpensBrowser(c)
            BY <3>1, FlowMoves DEF OpensBrowser, Late
        <3>2. CASE Launched(c)
            BY <3>2, FlowMoves DEF Launched, Late
        <3> QED
            BY <1>2, <3>1, <3>2 DEF OpensBrowser, Launched
    <2> QED
        BY <2>1, AccountExpires
<1>3. CASE CallsBack(c)
    BY <1>3, AccountCalledBack
<1>4. CASE FlowFails(c)
    <2>1. /\ ~Current(life, c)' /\ life' = Finish(life, c, "failed")
          /\ flow' = [flow EXCEPT ![c] = "done"]
        BY <1>1, <1>4, FinishEnds DEF FlowFails, Current
    <2>2. FlowsStay
        BY <2>1, FlowMoves
    <2>3. CASE Current(Expire(life), c)
        <3>1. Expire(life) = life /\ life.pending # Nil
            BY <1>1, <2>3, ExpireEnds DEF Current
        <3>2. life' = Terminal(life, "failed")
            BY <2>1, <2>3, <3>1 DEF Finish
        <3> QED
            BY <2>2, <3>1, <3>2, AccountMoves
    <2>4. CASE ~Current(Expire(life), c)
        BY <2>1, <2>2, <2>4, AccountExpires DEF Finish
    <2> QED
        BY <2>3, <2>4
<1>5. CASE \E scopes \in SUBSET Operations : CommitNew(c, scopes)
    BY <1>5, AccountExpires DEF CommitNew, tasks, FlowsStay
<1>6. CASE Cancel(c)
    <2>1. Expire(life) = life /\ life.pending # Nil
        BY <1>1, <1>6, ExpireEnds DEF Cancel, Current
    <2>2. life' = Terminal(life, "cancelled") /\ FlowsStay
        BY <1>6, <2>1 DEF Cancel, tasks, FlowsStay
    <2> QED
        BY <2>1, <2>2, AccountMoves
<1> QED
    BY <1>2, <1>3, <1>4, <1>5, <1>6 DEF FlowStep

LEMMA AccountRestarts ==
    ASSUME ConnectorInvariant, SignInsOK, Restart
    PROVE  AccountStep
<1>1. /\ life'.pending = Nil
      /\ life'.phase = [c \in Connections |-> IF Current(life, c) THEN "lost" ELSE life.phase[c]]
      /\ flow' = [c \in Connections |-> IF flow[c] = "none" THEN "none" ELSE "done"]
    BY NoLifeTyped DEF Restart, Lives
<1>2. life'.phase = Account!Left("lost")
    BY <1>1 DEF Account!Left, SignInsOK, SignInOK
<1>3. SignInsOK'
    BY <1>1 DEF SignInsOK, SignInOK, Current, Account!UnderWay
<1> QED
    BY <1>2, <1>3 DEF AccountStep, Account!Next, Account!ProcessEnds

\* A commit that fails leaves its sign-in to its task.
LEMMA AccountLeaves ==
    ASSUME ConnectorInvariant, SignInsOK, DeleteRow \/ StepFails
    PROVE  AccountStep
<1>1. LeavesLock /\ lock # Free
    BY DEF DeleteRow, StepFails, At, Free
<1>2. PICK c \in Connections : lock.connection = c
    BY <1>1, Holder
<1>3. FlowsStay
    <2>1. /\ \A k \in Connections \ {c} : flow'[k] = flow[k]
          /\ IF lock.op = "signin" THEN flow'[c] = "failing" ELSE flow'[c] = flow[c]
        BY <1>1, <1>2, LockIsLeft
    <2>2. lock.op = "signin" => flow[c] = "exchanging"
        BY <1>1, <1>2, InvariantTyped DEF LockOK, Free
    <2> QED
        BY <2>1, <2>2 DEF FlowsStay, Late
<1> QED
    BY <1>3, SignInsAlone, AccountRests

LEMMA AccountSteps ==
    ASSUME ConnectorInvariant, SignInsOK, [Next]_vars
    PROVE  AccountStep
<1>1. CASE UNCHANGED vars
    BY <1>1, AccountRests DEF vars, tasks, SignInsRest, FlowsStay
<1>2. CASE Snapshot
    BY <1>2, AccountExpires DEF Snapshot, tasks, FlowsStay
<1>3. CASE RollsBack /\ lock.op # "refresh"
    <2>1. FlowsStay /\ (life' = Expire(life) \/ life' = life)
        BY <1>3 DEF RollsBack, tasks, FlowsStay
    <2> QED
        BY <2>1, AccountExpires, AccountRests DEF SignInsRest
<1>4. CASE \/ Tick \/ Stage \/ WriteSecret \/ Publish \/ Mark \/ RemoveSecret \/ CommittedRefresh
           \/ RollsBack /\ lock.op = "refresh"
           \/ \E c \in Connections : Disconnect(c) \/ \E n \in Turns : RefreshByOperator(n, c)
           \/ \E n \in Turns : RefreshStep(n)
           \/ \E g \in Grants :
                 RevokeGrant(g) \/ \E grant \in GrantRecords : RegisterGrant(g, grant)
           \/ \E r \in Runs : CancelRun(r)
           \/ \E d \in Reads : ReadProgress(d) \/ \E context \in Contexts : BeginRead(d, context)
    <2>1. UNCHANGED flow
        BY <1>4
           DEF Tick, Stage, WriteSecret, Publish, Mark, RemoveSecret, CommittedRefresh, RollsBack,
               Disconnect, RefreshByOperator, RefreshStep, RefreshFails, RefusesScopes,
               CommitRefresh, RevokeGrant, RegisterGrant, CancelRun, ReadProgress, BeginRead,
               UsesCredential, RefreshByRead, Request, Response, Returns, Deliver, ReadFails,
               ReadStep, tasks
    <2>2. SignInsRest(life, life')
        BY <1>4, SignInsAlone
    <2> QED
        BY <2>1, <2>2, AccountRests DEF FlowsStay
<1>5. CASE \E c \in Connections : StartGoogle(c)
    BY <1>5, AccountBegins
<1>6. CASE \E c \in Connections : Cancel(c) \/ FlowStep(c)
    BY <1>6, AccountFlows
<1> QED
    BY <1>1, <1>2, <1>3, <1>4, <1>5, <1>6, AccountConnects, AccountRestarts, AccountLeaves
    DEF Next, LockStep

\* Whatever step of a commit fails, whenever a sign-in is cancelled, overdue or
\* replaced and whenever the process ends, the accounts show the lives the
\* operator is promised; a process that ends loses what was under way.
THEOREM AccountsImplement == Spec => Account!Spec
<1>1. Init => SignInsOK /\ Account!Init
    BY NoLifeTyped DEF Init, SignInsOK, SignInOK, Current, Account!UnderWay, Account!Init
<1>2. ConnectorInvariant /\ SignInsOK /\ [Next]_vars => SignInsOK' /\ [Account!Next]_(life.phase)
    BY AccountSteps DEF AccountStep
<1> QED
    BY <1>1, <1>2, InvariantStays, PTL DEF Spec, Account!Spec

\* Both sides of a sign-in, what becomes of its tokens and what becomes of its
\* socket, keep the one life of SignInLifecycle (lifecycle.rs).
THEOREM SignInsImplement == Spec /\ SignInSpec => SignInsImplemented
BY AccountsImplement, CallbacksImplement DEF SignInsImplemented
=============================================================================
