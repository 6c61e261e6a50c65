------------------------ MODULE WorkspaceDraftProofs ------------------------
(***************************************************************************)
(* What is typed is neither lost nor sent twice: machine-checked proofs    *)
(* about WorkspaceDraft, for any number of edits, messages and moves.      *)
(*                                                                         *)
(* DraftsKept is not inductive.  The strengthening says what every call    *)
(* that is still on its way may tell: a write tells the composer's text at *)
(* its version (SavingOK), any other answer the row's, unless the composer *)
(* wrote since (Tells), and the call that starts a message holds the clean *)
(* composer still until its answer is taken (StartOK, MessageOK).          *)
(***************************************************************************)
EXTENDS WorkspaceDraftSafety, TLAPS

-----------------------------------------------------------------------------
(* The draft of a workspace *)

Composers == [draft : Nat, version : Nat, dirty : BOOLEAN, blocked : BOOLEAN, error : BOOLEAN,
              timer : BOOLEAN, pending : BOOLEAN, typed : Nat]
Rows == [draft : Nat, version : Nat, pending : BOOLEAN, sent : SUBSET Nat]
MessagePlaces == {"none", "flushing", "starting", "completing", "resuming", "cancelling", "over",
                  "failed"}
Messages == [at : MessagePlaces, acked : BOOLEAN, cancelled : BOOLEAN,
             cancel : {"no", "asked", "failed", "done"}]
Waiters == {"timer", "send", "select", "close"}
Shells == [moving : {"no", "select", "delete", "deleting"},
           closing : {"no", "flushing", "flushed", "stopping", "ready", "shut"},
           active : BOOLEAN, deleted : BOOLEAN, kept : BOOLEAN, sent : Nat, moves : Nat]

DraftTypeOK ==
    /\ composer \in Composers /\ row \in Rows /\ sending \in Messages /\ shell \in Shells
    /\ flushes \in Seq(Waiters)
    /\ saving \in HostCalls \cup {Nil} /\ call \in HostCalls \cup {Nil}
    /\ stopping \in HostCalls \cup {Nil}

\* Whatever is written or sent was typed before.
TextsTyped ==
    /\ composer.draft <= composer.typed /\ row.draft <= composer.typed
    /\ \A text \in row.sent : text > 0 /\ text <= composer.typed
    /\ saving # Nil => saving.draft <= composer.typed

\* A message is started from a clean composer, which nothing changes until the
\* answer is taken.
Starting == call # Nil /\ call.op = "start"
Unread == Starting /\ call.at = "answered"

\* A clean composer is what the host stores, or what was sent from it.
CleanOK ==
    ~composer.dirty =>
        /\ composer.version <= row.version
        /\ composer.version = row.version => composer.draft = row.draft
        /\ composer.version < row.version =>
              composer.draft \in row.sent /\ (Unread \/ composer.blocked \/ shell.kept)

NotSent == row.draft \notin row.sent /\ (composer.dirty => composer.draft \notin row.sent)

\* What is being written is what the composer held at that version.
SavingOK ==
    saving # Nil =>
        /\ composer.dirty /\ flushes # <<>> /\ saving.draft \notin row.sent
        /\ saving.version <= composer.version
        /\ saving.version = composer.version => saving.draft = composer.draft
        /\ saving.at = "answered" =>
              saving.saved.draft = row.draft /\ saving.saved.version = row.version

\* What an answer tells is what the host stores, unless the composer wrote since.
Tells(c) ==
    c # Nil /\ c.at = "answered" =>
        /\ c.saved \in Snapshots /\ c.saved.version <= row.version
        /\ c.saved.version = row.version => c.saved.draft = row.draft
        /\ c.saved.version < row.version => row.version <= composer.version

StartOK ==
    Starting =>
        /\ ~composer.dirty /\ call.draft = composer.draft
        /\ Unread => composer.version < row.version /\ call.saved.version = row.version

\* One message at a time, and what its task, its flush and its cancellation await
MessageOK ==
    /\ call # Nil => IF call.op = "start" THEN sending.at = "starting"
                     ELSE sending.at \in {"completing", "resuming"}
    /\ sending.at \in {"flushing", "starting"} => ~sending.acked /\ composer.draft # 0
    /\ sending.at = "none" => ~sending.acked
    /\ stopping # Nil => sending.acked /\ sending.cancel = "asked"
    /\ \A i \in 1..Len(flushes) : flushes[i] = "send" =>
          /\ sending.at = "flushing"
          /\ \A j \in 1..Len(flushes) : flushes[j] = "send" => j = i

\* After its flush a window that closes takes no edit.
ClosingOK ==
    shell.closing \in {"flushed", "stopping", "ready", "shut"} =>
        ~composer.dirty \/ shell.kept \/ composer.blocked

DraftInvariant ==
    /\ DraftTypeOK /\ TextsTyped /\ CleanOK /\ NotSent /\ SavingOK
    /\ Tells(call) /\ Tells(stopping) /\ StartOK /\ MessageOK /\ ClosingOK


LEMMA DraftSuffices == DraftInvariant => DraftsKept
<1> SUFFICES ASSUME DraftInvariant PROVE DraftsKept
    OBVIOUS
<1>1. /\ composer.version \in Nat /\ row.version \in Nat
    BY DEF DraftInvariant, DraftTypeOK, Composers, Rows
<1>2. AnsweredOf(call, "start") /\ call.at = "answered" <=> Unread
    BY DEF AnsweredOf, Unread, Starting
<1>3. CleanIsDurable
    BY <1>1, <1>2 DEF DraftInvariant, CleanOK, ClosingOK, CleanIsDurable, SentUnread
<1>4. SentStaysSent
    BY <1>1, <1>2 DEF DraftInvariant, CleanOK, NotSent, SentStaysSent, SentUnread, AnsweredOf,
       Unread, Starting
<1> QED
    BY <1>3, <1>4 DEF DraftsKept

LEMMA DraftStarts == DraftInit => DraftInvariant
<1> SUFFICES ASSUME DraftInit PROVE DraftInvariant
    OBVIOUS
<1>1. composer \in Composers /\ row \in Rows /\ shell \in Shells
    BY DEF DraftInit, Composers, Rows, Shells
<1>2. sending \in Messages /\ sending.at = "none" /\ ~sending.acked
    BY DEF DraftInit, NoMessage, Messages, MessagePlaces
<1>3. flushes \in Seq(Waiters) /\ Len(flushes) = 0 /\ saving = Nil /\ call = Nil /\ stopping = Nil
    BY DEF DraftInit
<1>4. DraftTypeOK
    BY <1>1, <1>2, <1>3 DEF DraftTypeOK
<1>5. /\ composer.draft = 0 /\ composer.version = 0 /\ ~composer.dirty /\ composer.typed = 0
      /\ row.draft = 0 /\ row.version = 0 /\ row.sent = {} /\ shell.closing = "no"
    BY DEF DraftInit
<1>6. TextsTyped /\ CleanOK /\ NotSent /\ SavingOK /\ ClosingOK
    BY <1>3, <1>5 DEF TextsTyped, CleanOK, NotSent, SavingOK, ClosingOK
<1>7. Tells(call) /\ Tells(stopping) /\ StartOK
    BY <1>3 DEF Tells, StartOK, Starting
<1>8. MessageOK
    BY <1>2, <1>3 DEF MessageOK
<1> QED
    BY <1>4, <1>6, <1>7, <1>8 DEF DraftInvariant

-----------------------------------------------------------------------------
(* Calls, flushes and cancellations                                        *)

LEMMA CallMade ==
    ASSUME NEW op \in CallNames, NEW draft \in Nat, NEW version \in Nat
    PROVE  /\ CallOf(op, draft, version) \in HostCalls /\ CallOf(op, draft, version).op = op
           /\ CallOf(op, draft, version).at = "asked"
           /\ CallOf(op, draft, version).draft = draft
           /\ CallOf(op, draft, version).version = version
BY DEF CallOf, HostCalls

LEMMA CallAsked ==
    ASSUME NEW op \in CallNames
    PROVE  Ask(op) \in HostCalls /\ Ask(op).op = op /\ Ask(op).at = "asked"
BY CallMade DEF Ask

LEMMA CallServed ==
    ASSUME NEW c \in HostCalls, NEW r \in Rows
    PROVE  /\ AnswerTo(c, r) \in HostCalls /\ AnswerTo(c, r).at = "answered"
           /\ AnswerTo(c, r).op = c.op /\ AnswerTo(c, r).draft = c.draft
           /\ AnswerTo(c, r).version = c.version /\ AnswerTo(c, r).saved \in Snapshots
           /\ AnswerTo(c, r).saved.draft = r.draft /\ AnswerTo(c, r).saved.version = r.version
<1>1. /\ Snapshot(r) \in Snapshots /\ Snapshot(r).draft = r.draft
      /\ Snapshot(r).version = r.version
    BY DEF Snapshot, Snapshots, Rows
<1> QED
    BY <1>1 DEF AnswerTo, HostCalls

LEMMA CallRefused ==
    ASSUME NEW c \in HostCalls
    PROVE  /\ Refuse(c) \in HostCalls /\ Refuse(c).at = "refused" /\ Refuse(c).op = c.op
           /\ Refuse(c).draft = c.draft /\ Refuse(c).version = c.version
BY DEF Refuse, HostCalls

LEMMA FlushQueued ==
    ASSUME DraftTypeOK, NEW for \in Waiters, Flush(for)
    PROVE  /\ flushes' \in Seq(Waiters) /\ flushes' # <<>> /\ Len(flushes') = Len(flushes) + 1
           /\ flushes'[Len(flushes) + 1] = for
           /\ \A i \in 1..Len(flushes) : flushes'[i] = flushes[i]
           /\ composer' \in Composers /\ composer'.draft = composer.draft
           /\ composer'.version = composer.version /\ composer'.dirty = composer.dirty
           /\ composer'.typed = composer.typed /\ composer'.blocked = composer.blocked
<1>1. flushes \in Seq(Waiters) /\ composer \in Composers
    BY DEF DraftTypeOK
<1>2. flushes' = Append(flushes, for) /\ composer' = [composer EXCEPT !.timer = FALSE]
    BY DEF Flush
<1>3. /\ flushes' \in Seq(Waiters) /\ flushes' # <<>> /\ Len(flushes') = Len(flushes) + 1
      /\ flushes'[Len(flushes) + 1] = for
      /\ \A i \in 1..Len(flushes) : flushes'[i] = flushes[i]
    BY <1>1, <1>2
<1> QED
    BY <1>1, <1>2, <1>3 DEF Composers

LEMMA FlushTaken ==
    ASSUME DraftTypeOK, flushes # <<>>, flushes' = Tail(flushes)
    PROVE  /\ flushes' \in Seq(Waiters) /\ Len(flushes) \in Nat \ {0}
           /\ Head(flushes) = flushes[1] /\ Head(flushes) \in Waiters
           /\ Len(flushes') = Len(flushes) - 1
           /\ \A i \in 1..Len(flushes') : flushes'[i] = flushes[i + 1]
BY DEF DraftTypeOK

LEMMA CancellingAsks ==
    ASSUME DraftTypeOK, MessageOK, Cancelling
    PROVE  /\ sending' \in Messages /\ stopping' \in HostCalls \cup {Nil}
           /\ sending'.at = sending.at /\ sending'.acked = sending.acked
           /\ stopping' # Nil => sending'.acked /\ sending'.cancel = "asked"
           /\ stopping' = stopping \/ stopping'.at = "asked"
<1>1. sending \in Messages /\ stopping \in HostCalls \cup {Nil}
    BY DEF DraftTypeOK
<1>2. CASE sending.at = "none"
    BY <1>1, <1>2 DEF Cancelling, MessageOK
<1>3. CASE sending.at # "none"
    <2> DEFINE asks == sending.acked /\ sending.cancel \in {"no", "failed"}
               mark == IF asks THEN "asked" ELSE IF sending.cancel = "failed" THEN "no"
                       ELSE sending.cancel
    <2>1. /\ sending' = [sending EXCEPT !.cancelled = TRUE, !.cancel = mark]
          /\ stopping' = IF asks THEN Ask("cancel") ELSE stopping
        BY <1>3 DEF Cancelling
    <2>2. mark \in {"no", "asked", "failed", "done"}
        BY <1>1 DEF Messages
    <2>3. Ask("cancel") \in HostCalls /\ Ask("cancel").at = "asked"
        BY CallAsked DEF CallNames
    <2>4. asks => mark = "asked"
        OBVIOUS
    <2>5. ~asks /\ stopping # Nil => sending.acked /\ mark = "asked"
        BY DEF MessageOK
    <2> HIDE DEF asks, mark
    <2>6. /\ sending' \in Messages /\ sending'.at = sending.at
          /\ sending'.acked = sending.acked /\ sending'.cancel = mark
        BY <1>1, <2>1, <2>2 DEF Messages
    <2>7. asks => sending.acked
        BY DEF asks
    <2> QED
        BY <1>1, <2>1, <2>3, <2>4, <2>5, <2>6, <2>7
<1> QED
    BY <1>2, <1>3

\* What a composer takes over from an answer
LEMMA SavedTaken ==
    ASSUME NEW c \in Composers, NEW s \in Snapshots
    PROVE  /\ WithSaved(c, s) \in Composers
           /\ WithSaved(c, s).dirty = c.dirty /\ WithSaved(c, s).typed = c.typed
           /\ WithSaved(c, s).blocked = c.blocked
           /\ c.version <= WithSaved(c, s).version
           /\ WithSaved(c, s).version \in {c.version, s.version}
           /\ \/ WithSaved(c, s).draft = c.draft
              \/ /\ ~c.dirty /\ c.version <= s.version
                 /\ WithSaved(c, s).draft = s.draft /\ WithSaved(c, s).version = s.version
           /\ ~c.dirty /\ ~c.blocked /\ c.version < s.version =>
                 WithSaved(c, s).version = s.version /\ WithSaved(c, s).draft = s.draft
<1> DEFINE draft == IF ~c.dirty /\ s.version >= c.version THEN s.draft ELSE c.draft
           version == IF c.version > s.version THEN c.version ELSE s.version
<1>1. draft \in Nat /\ version \in Nat /\ c.version <= version /\ version \in {c.version, s.version}
    BY DEF Composers, Snapshots
<1>2. CASE c.blocked
    <2>1. WithSaved(c, s) = c
        BY <1>2 DEF WithSaved
    <2>2. c.version <= c.version
        BY DEF Composers
    <2>3. ~(~c.blocked)
        BY <1>2
    <2> QED
        BY <2>1, <2>2, <2>3, Zenon
<1>3. CASE ~c.blocked
    <2>1. WithSaved(c, s) = [c EXCEPT !.draft = draft, !.version = version, !.pending = s.pending]
        BY <1>3 DEF WithSaved
    <2>2. \/ draft = c.draft
          \/ ~c.dirty /\ c.version <= s.version /\ draft = s.draft /\ version = s.version
        BY DEF Composers, Snapshots
    <2>3. ~c.dirty /\ c.version < s.version => version = s.version /\ draft = s.draft
        BY DEF Composers, Snapshots
    <2> HIDE DEF draft, version
    <2>4. /\ WithSaved(c, s) \in Composers /\ WithSaved(c, s).draft = draft
          /\ WithSaved(c, s).version = version /\ WithSaved(c, s).dirty = c.dirty
          /\ WithSaved(c, s).typed = c.typed /\ WithSaved(c, s).blocked = c.blocked
        BY <1>1, <2>1 DEF Composers, Snapshots
    <2> QED
        BY <1>1, <2>2, <2>3, <2>4
<1> QED
    BY <1>2, <1>3

LEMMA ShellMoves ==
    ASSUME NEW move \in Shells, Moves(move)
    PROVE  /\ shell' \in Shells /\ shell'.kept = move.kept /\ shell'.closing = move.closing
BY DEF Moves, Shells

-----------------------------------------------------------------------------
(* What most steps leave alone                                             *)

SameText == /\ composer'.draft = composer.draft /\ composer'.version = composer.version
            /\ composer'.dirty = composer.dirty /\ composer'.typed = composer.typed
SameRow == /\ row'.draft = row.draft /\ row'.version = row.version /\ row'.sent = row.sent

\* Nothing is typed, written or sent.
LEMMA EntryStays ==
    ASSUME DraftInvariant, SameText, SameRow, saving' \in {saving, Nil},
           saving' # Nil => flushes' # <<>>, Unread => Unread',
           composer.blocked => composer'.blocked \/ shell'.kept, shell.kept => shell'.kept,
           shell'.closing \in {"flushed", "stopping", "ready", "shut"} =>
              \/ shell.closing \in {"flushed", "stopping", "ready", "shut"}
              \/ ~composer.dirty \/ composer.blocked
    PROVE  TextsTyped' /\ CleanOK' /\ NotSent' /\ SavingOK' /\ ClosingOK'
<1> USE DEF DraftInvariant, SameText, SameRow
<1>1. TextsTyped'
    BY DEF TextsTyped
<1>2. CleanOK'
    BY DEF CleanOK
<1>3. NotSent'
    BY DEF NotSent
<1>4. SavingOK'
    BY DEF SavingOK
<1>5. ClosingOK'
    BY DEF ClosingOK
<1> QED
    BY <1>1, <1>2, <1>3, <1>4, <1>5

\* An answer is one there was, or tells what the host stores now.
Fresh(c) == c.saved \in Snapshots /\ c.saved.version = row.version /\ c.saved.draft = row.draft

LEMMA AnswersStay ==
    ASSUME DraftInvariant, row' \in Rows, row'.draft = row.draft, row'.version = row.version,
           composer.version \in Nat, composer'.version \in Nat,
           composer.version <= composer'.version,
           call' \in {call, Nil} \/ call'.at # "answered" \/ Fresh(call)',
           stopping' \in {stopping, Nil} \/ stopping'.at # "answered" \/ Fresh(stopping)'
    PROVE  Tells(call)' /\ Tells(stopping)'
<1>1. row.version \in Nat
    BY DEF DraftInvariant, DraftTypeOK, Rows
<1>2. Tells(call) /\ Tells(stopping)
    BY DEF DraftInvariant
<1>3. Tells(call)'
    BY <1>1, <1>2 DEF Tells, Fresh
<1>4. Tells(stopping)'
    BY <1>1, <1>2 DEF Tells, Fresh
<1> QED
    BY <1>3, <1>4

\* What is read from an answer is newer, or what the composer holds.
LEMMA ReadingKeeps ==
    ASSUME DraftInvariant, NEW c \in {call, stopping}, c # Nil, c.at = "answered", ~Starting,
           composer' = WithSaved(composer, c.saved), UNCHANGED <<row, saving, flushes, shell>>
    PROVE  /\ composer' \in Composers /\ composer.version <= composer'.version
           /\ composer'.dirty = composer.dirty /\ composer'.typed = composer.typed
           /\ TextsTyped' /\ CleanOK' /\ NotSent' /\ SavingOK' /\ ClosingOK'
           /\ composer'.draft # composer.draft => composer.draft \in row.sent
<1> DEFINE s == c.saved
<1>1. composer \in Composers /\ row \in Rows
    BY DEF DraftInvariant, DraftTypeOK
<1>2. /\ s \in Snapshots /\ s.version <= row.version
      /\ s.version = row.version => s.draft = row.draft
      /\ s.version < row.version => row.version <= composer.version
    BY DEF DraftInvariant, Tells
<1>3. composer.version \in Nat /\ row.version \in Nat /\ s.version \in Nat
    BY <1>1, <1>2 DEF Composers, Rows, Snapshots
<1> HIDE DEF s
<1>4. composer' = WithSaved(composer, s)
    BY DEF s
<1>5. /\ composer' \in Composers /\ composer'.dirty = composer.dirty
      /\ composer'.typed = composer.typed /\ composer'.blocked = composer.blocked
      /\ composer.version <= composer'.version
      /\ composer'.version \in {composer.version, s.version}
      /\ \/ composer'.draft = composer.draft
         \/ /\ ~composer.dirty /\ composer.version <= s.version
            /\ composer'.draft = s.draft /\ composer'.version = s.version
      /\ ~composer.dirty /\ ~composer.blocked /\ composer.version < s.version
            => composer'.version = s.version /\ composer'.draft = s.draft
    BY <1>1, <1>2, <1>4, SavedTaken
<1>6. ~composer.dirty => composer.version <= row.version
    BY DEF DraftInvariant, CleanOK
<1>7. \/ composer'.draft = composer.draft
      \/ ~composer.dirty /\ composer'.draft = row.draft /\ composer'.version = row.version
    BY <1>2, <1>3, <1>5, <1>6
<1>8. ~composer.dirty /\ ~composer.blocked /\ composer.version < row.version
         => composer'.draft = row.draft /\ composer'.version = row.version
    BY <1>2, <1>3, <1>5
<1>9. TextsTyped'
    BY <1>5, <1>7 DEF DraftInvariant, TextsTyped
<1>10. CleanOK'
    <2> SUFFICES ASSUME ~composer.dirty
                 PROVE  /\ composer'.version <= row.version
                        /\ composer'.version = row.version => composer'.draft = row.draft
                        /\ composer'.version < row.version =>
                              composer'.draft \in row.sent /\ (composer.blocked \/ shell.kept)
        BY <1>5 DEF CleanOK
    <2>1. composer'.version <= row.version
        BY <1>2, <1>3, <1>5, <1>6
    <2>2. CASE composer.version = row.version
        BY <1>2, <1>3, <1>5, <1>6, <1>7, <2>2 DEF DraftInvariant, CleanOK
    <2>3. CASE composer.version < row.version /\ ~composer.blocked
        BY <1>3, <1>8, <2>3
    <2>4. CASE composer.version < row.version /\ composer.blocked
        <3>1. composer' = composer
            BY <1>4, <2>4 DEF WithSaved
        <3> QED
            BY <1>3, <2>4, <3>1 DEF DraftInvariant, CleanOK
    <2> QED
        BY <1>3, <1>6, <2>1, <2>2, <2>3, <2>4
<1>11. NotSent'
    BY <1>5, <1>7 DEF DraftInvariant, NotSent
<1>12. SavingOK'
    <2> SUFFICES ASSUME saving # Nil
                 PROVE  /\ composer'.dirty /\ flushes # <<>> /\ saving.draft \notin row.sent
                        /\ saving.version <= composer'.version
                        /\ saving.version = composer'.version => saving.draft = composer'.draft
                        /\ saving.at = "answered" =>
                              saving.saved.draft = row.draft /\ saving.saved.version = row.version
        BY DEF SavingOK
    <2>1. /\ composer.dirty /\ flushes # <<>> /\ saving.draft \notin row.sent
          /\ saving.version <= composer.version /\ saving.version \in Nat
          /\ saving.version = composer.version => saving.draft = composer.draft
          /\ saving.at = "answered" =>
                saving.saved.draft = row.draft /\ saving.saved.version = row.version
        BY DEF DraftInvariant, SavingOK, DraftTypeOK, HostCalls
    <2>2. composer'.draft = composer.draft
        BY <1>5, <2>1
    <2> QED
        BY <1>3, <1>5, <2>1, <2>2
<1>13. ClosingOK'
    BY <1>5 DEF DraftInvariant, ClosingOK
<1>14. composer'.draft # composer.draft => composer.draft \in row.sent
    <2>1. composer.version = row.version /\ ~composer.dirty => composer.draft = row.draft
        BY DEF DraftInvariant, CleanOK
    <2>2. composer.version < row.version /\ ~composer.dirty => composer.draft \in row.sent
        BY DEF DraftInvariant, CleanOK
    <2> QED
        BY <1>3, <1>6, <1>7, <2>1, <2>2
<1> QED
    BY <1>5, <1>9, <1>10, <1>11, <1>12, <1>13, <1>14

-----------------------------------------------------------------------------
(* Each step                                                               *)

\* A flush is queued, the one of a message behind all the others.
LEMMA QueueKeeps ==
    ASSUME DraftInvariant, NEW for \in Waiters, Flush(for), UNCHANGED <<row, saving>>,
           UNCHANGED <<call, stopping>>, shell' \in Shells, shell'.kept = shell.kept,
           shell'.closing \in {shell.closing, "flushing"},
           \/ for # "send" /\ UNCHANGED sending
           \/ /\ for = "send" /\ sending.at = "none" /\ sending' \in Messages
              /\ sending'.at = "flushing" /\ ~sending'.acked /\ composer.draft # 0
    PROVE  DraftInvariant'
<1>1. DraftTypeOK /\ MessageOK
    BY DEF DraftInvariant
<1>2. /\ flushes' \in Seq(Waiters) /\ flushes' # <<>> /\ Len(flushes') = Len(flushes) + 1
      /\ flushes'[Len(flushes) + 1] = for
      /\ \A i \in 1..Len(flushes) : flushes'[i] = flushes[i]
      /\ composer' \in Composers /\ SameText /\ composer'.blocked = composer.blocked
    BY <1>1, FlushQueued DEF SameText
<1>3. Len(flushes) \in Nat /\ composer \in Composers /\ row \in Rows
    BY <1>1 DEF DraftTypeOK
<1>4. DraftTypeOK'
    BY <1>1, <1>2 DEF DraftTypeOK
<1>5. TextsTyped' /\ CleanOK' /\ NotSent' /\ SavingOK' /\ ClosingOK'
    BY <1>2, EntryStays DEF SameRow, Unread, Starting
<1>6. Tells(call)' /\ Tells(stopping)'
    BY <1>2, <1>3, AnswersStay DEF SameText, Composers
<1>7. StartOK'
    BY <1>2 DEF DraftInvariant, StartOK, Starting, Unread, SameText
<1>8. MessageOK'
    <2>1. \A i \in 1..Len(flushes') : i \in 1..Len(flushes) \/ i = Len(flushes) + 1
        BY <1>2, <1>3
    <2>2. CASE for # "send"
        <3>1. ASSUME NEW i \in 1..Len(flushes'), flushes'[i] = "send"
              PROVE  /\ sending.at = "flushing"
                     /\ \A j \in 1..Len(flushes') : flushes'[j] = "send" => j = i
            <4>1. \A j \in 1..Len(flushes') : flushes'[j] = "send" =>
                     j \in 1..Len(flushes) /\ flushes[j] = "send"
                BY <1>2, <2>1, <2>2
            <4> QED
                BY <1>1, <3>1, <4>1 DEF MessageOK
        <3> QED
            BY <1>1, <1>2, <2>2, <3>1 DEF MessageOK, SameText
    <2>3. CASE for = "send"
        <3>1. /\ call = Nil /\ stopping = Nil
              /\ \A i \in 1..Len(flushes) : flushes[i] # "send"
            BY <1>1, <2>3 DEF MessageOK
        <3>2. \A i \in 1..Len(flushes') : flushes'[i] = "send" => i = Len(flushes) + 1
            BY <1>2, <2>1, <3>1
        <3> QED
            BY <1>2, <2>3, <3>1, <3>2 DEF MessageOK, SameText
    <2> QED
        BY <2>2, <2>3
<1> QED
    BY <1>4, <1>5, <1>6, <1>7, <1>8 DEF DraftInvariant

LEMMA QueueingKeeps ==
    ASSUME DraftInvariant, TimerFires \/ SendMessage \/ SelectWorkspace \/ PrepareClose
    PROVE  DraftInvariant'
<1>1. shell \in Shells
    BY DEF DraftInvariant, DraftTypeOK
<1>2. CASE TimerFires
    BY <1>1, <1>2, QueueKeeps DEF TimerFires, Waiters
<1>3. CASE SendMessage
    <2>1. shell' \in Shells /\ shell'.kept = shell.kept /\ shell'.closing = shell.closing
        BY <1>1, <1>3 DEF SendMessage, Shells
    <2>2. sending' \in Messages /\ sending'.at = "flushing" /\ ~sending'.acked
        BY <1>3 DEF SendMessage, NoMessage, Messages, MessagePlaces
    <2> QED
        BY <1>3, <2>1, <2>2, QueueKeeps DEF SendMessage, Waiters
<1>4. CASE SelectWorkspace
    <2> DEFINE move == [shell EXCEPT !.moving = "select"]
    <2>0. move \in Shells /\ move.kept = shell.kept /\ move.closing = shell.closing
        BY <1>1 DEF Shells
    <2>1. shell' \in Shells /\ shell'.kept = shell.kept /\ shell'.closing = shell.closing
        BY <1>4, <2>0, ShellMoves DEF SelectWorkspace
    <2> QED
        BY <1>4, <2>1, QueueKeeps DEF SelectWorkspace, Waiters
<1>5. CASE PrepareClose
    <2> DEFINE move == [shell EXCEPT !.closing = "flushing"]
    <2>0. move \in Shells /\ move.kept = shell.kept /\ move.closing = "flushing"
        BY <1>1 DEF Shells
    <2>1. shell' \in Shells /\ shell'.kept = shell.kept /\ shell'.closing = "flushing"
        BY <1>5, <2>0, ShellMoves DEF PrepareClose
    <2> QED
        BY <1>5, <2>1, QueueKeeps DEF PrepareClose, Waiters
<1> QED
    BY <1>2, <1>3, <1>4, <1>5

\* The shell moves; at most the message under way is cancelled.
LEMMA ShellKeeps ==
    ASSUME DraftInvariant, UNCHANGED <<row, flushes, saving, call>>,
           composer' \in Composers, SameText,
           UNCHANGED <<sending, stopping>> \/ Cancelling, shell' \in Shells,
           composer.blocked => composer'.blocked \/ shell'.kept, shell.kept => shell'.kept,
           shell'.closing \in {"flushed", "stopping", "ready", "shut"} =>
              shell.closing \in {"flushed", "stopping", "ready", "shut"}
    PROVE  DraftInvariant'
<1>1. DraftTypeOK /\ MessageOK
    BY DEF DraftInvariant
<1>2. /\ sending' \in Messages /\ stopping' \in HostCalls \cup {Nil}
      /\ sending'.at = sending.at /\ sending'.acked = sending.acked
      /\ stopping' # Nil => sending'.acked /\ sending'.cancel = "asked"
      /\ stopping' = stopping \/ stopping'.at = "asked"
    <2>1. CASE Cancelling
        BY <1>1, <2>1, CancellingAsks
    <2>2. CASE UNCHANGED <<sending, stopping>>
        BY <1>1, <2>2 DEF DraftTypeOK, MessageOK
    <2> QED
        BY <2>1, <2>2
<1>3. composer \in Composers /\ row \in Rows
    BY <1>1 DEF DraftTypeOK
<1>4. DraftTypeOK'
    BY <1>1, <1>2 DEF DraftTypeOK
<1>5. TextsTyped' /\ CleanOK' /\ NotSent' /\ SavingOK' /\ ClosingOK'
    <2>1. saving # Nil => flushes # <<>>
        BY DEF DraftInvariant, SavingOK
    <2> QED
        BY <2>1, EntryStays DEF SameRow, Unread, Starting
<1>6. Tells(call)' /\ Tells(stopping)'
    BY <1>2, <1>3, AnswersStay DEF SameText, Composers
<1>7. StartOK'
    BY DEF DraftInvariant, StartOK, Starting, Unread, SameText
<1>8. MessageOK'
    BY <1>1, <1>2 DEF MessageOK, SameText
<1> QED
    BY <1>4, <1>5, <1>6, <1>7, <1>8 DEF DraftInvariant

LEMMA MovingKeeps ==
    ASSUME DraftInvariant, Cancel \/ BeginDeletion \/ Moving
    PROVE  DraftInvariant'
<1>1. shell \in Shells /\ composer \in Composers
    BY DEF DraftInvariant, DraftTypeOK
<1>2. CASE Cancel
    BY <1>1, <1>2, ShellKeeps DEF Cancel, SameText
<1>3. CASE BeginDeletion
    <2> DEFINE move == [shell EXCEPT !.moving = "delete"]
    <2>0. move \in Shells /\ move.kept = shell.kept /\ move.closing = shell.closing
        BY <1>1 DEF Shells
    <2>1. shell' \in Shells /\ shell'.kept = shell.kept /\ shell'.closing = shell.closing
        BY <1>3, <2>0, ShellMoves DEF BeginDeletion
    <2>2. composer' \in Composers /\ SameText /\ composer'.blocked
        BY <1>1, <1>3 DEF BeginDeletion, SameText, Composers
    <2> QED
        BY <1>3, <2>1, <2>2, ShellKeeps DEF BeginDeletion
<1>4. CASE CallDelete
    <2>1. shell' \in Shells /\ shell'.kept = shell.kept /\ shell'.closing = shell.closing
        BY <1>1, <1>4 DEF CallDelete, Shells
    <2> QED
        BY <1>1, <1>4, <2>1, ShellKeeps DEF CallDelete, SameText
<1>5. CASE DeleteWorkspace
    <2>1. CASE shell' = [shell EXCEPT !.moving = "no", !.deleted = TRUE, !.active = FALSE]
               /\ UNCHANGED composer
        <3>1. shell' \in Shells /\ shell'.kept = shell.kept /\ shell'.closing = shell.closing
            BY <1>1, <2>1 DEF Shells
        <3> QED
            BY <1>1, <1>5, <2>1, <3>1, ShellKeeps DEF DeleteWorkspace, SameText
    <2>2. CASE shell' = [shell EXCEPT !.moving = "no", !.kept = TRUE]
               /\ composer' = [composer EXCEPT !.blocked = FALSE]
        <3>1. shell' \in Shells /\ shell'.kept /\ shell'.closing = shell.closing
            BY <1>1, <2>2 DEF Shells
        <3>2. composer' \in Composers /\ SameText
            BY <1>1, <2>2 DEF SameText, Composers
        <3> QED
            BY <1>5, <3>1, <3>2, ShellKeeps DEF DeleteWorkspace
    <2> QED
        BY <1>5, <2>1, <2>2 DEF DeleteWorkspace
<1>6. CASE CancelAll
    <2>1. /\ shell' \in Shells /\ shell'.kept = shell.kept
          /\ shell.closing = "flushed" /\ shell'.closing = "stopping"
        BY <1>1, <1>6 DEF CancelAll, Shells
    <2> QED
        BY <1>1, <1>6, <2>1, ShellKeeps DEF CancelAll, SameText
<1>7. CASE AllCancelled \/ FinishWindowClose
    <2>1. /\ shell' \in Shells /\ shell'.kept = shell.kept
          /\ shell.closing \in {"stopping", "ready"}
        BY <1>1, <1>7 DEF AllCancelled, FinishWindowClose, Shells
    <2> QED
        BY <1>1, <1>7, <2>1, ShellKeeps DEF AllCancelled, FinishWindowClose, SameText
<1> QED
    BY <1>2, <1>3, <1>4, <1>5, <1>6, <1>7 DEF Moving

\* A new text was never sent.
LEMMA EditKeeps ==
    ASSUME DraftInvariant, EditDraft
    PROVE  DraftInvariant'
<1>1. /\ composer \in Composers /\ DraftTypeOK /\ MessageOK
      /\ UNCHANGED <<row, flushes, saving, sending>> /\ UNCHANGED <<call, stopping, shell>>
    BY DEF DraftInvariant, DraftTypeOK, EditDraft
<1>2. PICK draft \in {0, composer.typed + 1} :
         composer' = [composer EXCEPT !.draft = draft, !.typed = @ + 1, !.version = @ + 1,
                                      !.dirty = TRUE, !.error = FALSE, !.timer = TRUE]
    BY DEF EditDraft
<1>3. /\ composer' \in Composers /\ composer'.draft = draft /\ composer'.dirty
      /\ composer'.version = composer.version + 1 /\ composer'.typed = composer.typed + 1
      /\ composer'.blocked = composer.blocked
      /\ composer.version \in Nat /\ composer.typed \in Nat /\ composer.draft \in Nat
    <2>1. /\ composer.version \in Nat /\ composer.typed \in Nat /\ composer.draft \in Nat
          /\ composer.version + 1 \in Nat /\ composer.typed + 1 \in Nat /\ draft \in Nat
        BY <1>1 DEF Composers
    <2> QED
        BY <1>1, <1>2, <2>1 DEF Composers
<1>4. shell.closing = "no" /\ (sending.at = "none" \/ sending.acked)
    BY DEF EditDraft
<1>5. ~Starting
    BY <1>1, <1>4 DEF MessageOK, Starting
<1>6. DraftTypeOK'
    BY <1>1, <1>3 DEF DraftTypeOK
<1>7. row \in Rows /\ saving \in HostCalls \cup {Nil}
    BY <1>1 DEF DraftTypeOK
<1>8. TextsTyped'
    <2>1. row.draft \in Nat /\ (saving # Nil => saving.draft \in Nat) /\ row.sent \subseteq Nat
        BY <1>7 DEF Rows, HostCalls
    <2> QED
        BY <1>1, <1>3, <2>1 DEF DraftInvariant, TextsTyped
<1>9. NotSent'
    <2>1. row.sent \subseteq Nat
        BY <1>7 DEF Rows
    <2>2. draft \notin row.sent
        BY <1>3, <2>1 DEF DraftInvariant, TextsTyped
    <2> QED
        BY <1>1, <1>3, <2>2 DEF DraftInvariant, NotSent
<1>10. SavingOK'
    <2>1. saving # Nil => saving.version \in Nat
        BY <1>7 DEF HostCalls
    <2> QED
        BY <1>1, <1>3, <2>1 DEF DraftInvariant, SavingOK
<1>11. CleanOK' /\ ClosingOK'
    BY <1>1, <1>3, <1>4 DEF CleanOK, ClosingOK
<1>12. Tells(call)' /\ Tells(stopping)'
    <2>1. composer.version <= composer'.version /\ composer'.version \in Nat
        BY <1>3
    <2> QED
        BY <1>1, <1>3, <1>7, <2>1, AnswersStay
<1>13. StartOK'
    BY <1>1, <1>5 DEF StartOK, Starting
<1>14. MessageOK'
    <2>1. sending.at \notin {"flushing", "starting"}
        BY <1>1, <1>4 DEF MessageOK
    <2> QED
        BY <1>1, <2>1 DEF MessageOK
<1> QED
    BY <1>6, <1>8, <1>9, <1>10, <1>11, <1>12, <1>13, <1>14 DEF DraftInvariant

LEMMA IssuingKeeps ==
    ASSUME DraftInvariant, IssueWrite
    PROVE  DraftInvariant'
<1>1. /\ composer \in Composers /\ row \in Rows /\ DraftTypeOK /\ MessageOK
      /\ composer.dirty /\ flushes # <<>>
      /\ UNCHANGED <<composer, row, flushes, sending>> /\ UNCHANGED <<call, stopping, shell>>
    BY DEF DraftInvariant, DraftTypeOK, IssueWrite, Unwritten
<1>2. composer.draft \in Nat /\ composer.version \in Nat
    BY <1>1 DEF Composers
<1>3. /\ saving' \in HostCalls /\ saving'.at = "asked" /\ saving'.draft = composer.draft
      /\ saving'.version = composer.version
    BY <1>2, CallMade DEF IssueWrite, CallNames
<1>4. DraftTypeOK'
    BY <1>1, <1>3 DEF DraftTypeOK
<1>5. TextsTyped' /\ NotSent'
    BY <1>1, <1>3 DEF DraftInvariant, TextsTyped, NotSent
<1>6. SavingOK'
    BY <1>1, <1>2, <1>3 DEF DraftInvariant, SavingOK, NotSent
<1>7. CleanOK' /\ ClosingOK' /\ StartOK' /\ MessageOK'
    BY <1>1 DEF DraftInvariant, CleanOK, ClosingOK, StartOK, Starting, Unread, MessageOK
<1>8. Tells(call)' /\ Tells(stopping)'
    BY <1>1, <1>2, AnswersStay
<1> QED
    BY <1>4, <1>5, <1>6, <1>7, <1>8 DEF DraftInvariant

\* What is written is newer than the row, and the composer's.
LEMMA WritingKeeps ==
    ASSUME DraftInvariant, UpdateDraft
    PROVE  DraftInvariant'
<1>1. /\ composer \in Composers /\ row \in Rows /\ DraftTypeOK /\ MessageOK
      /\ saving # Nil /\ saving \in HostCalls /\ saving.at = "asked"
      /\ UNCHANGED <<composer, flushes, sending>> /\ UNCHANGED <<call, stopping, shell>>
    BY DEF DraftInvariant, DraftTypeOK, UpdateDraft, AskedOf
<1>2. /\ composer.dirty /\ flushes # <<>> /\ saving.draft \notin row.sent
      /\ saving.version <= composer.version
      /\ saving.version = composer.version => saving.draft = composer.draft
      /\ saving.draft <= composer.typed
    BY <1>1 DEF DraftInvariant, SavingOK, TextsTyped
<1>3. /\ composer.version \in Nat /\ row.version \in Nat /\ saving.version \in Nat
      /\ saving.draft \in Nat
    BY <1>1 DEF Composers, Rows, HostCalls
<1>4. ~Starting
    BY <1>2 DEF DraftInvariant, StartOK
<1>5. CASE UNCHANGED row /\ saving' = Refuse(saving)
    <2>1. /\ saving' \in HostCalls /\ saving'.at = "refused" /\ saving'.draft = saving.draft
          /\ saving'.version = saving.version
        BY <1>1, <1>5, CallRefused
    <2>2. DraftTypeOK' /\ TextsTyped' /\ SavingOK'
        BY <1>1, <1>2, <1>5, <2>1 DEF DraftInvariant, DraftTypeOK, TextsTyped, SavingOK
    <2>3. CleanOK' /\ NotSent' /\ ClosingOK' /\ StartOK' /\ MessageOK'
        BY <1>1, <1>5 DEF DraftInvariant, CleanOK, NotSent, ClosingOK, StartOK, Starting, Unread,
           MessageOK
    <2>4. Tells(call)' /\ Tells(stopping)'
        BY <1>1, <1>3, <1>5, AnswersStay
    <2> QED
        BY <2>2, <2>3, <2>4 DEF DraftInvariant
<1>6. CASE row' = UpdatedDraft(row, saving.draft, saving.version) /\ saving' = AnswerTo(saving, row')
    <2>1. /\ row' \in Rows /\ row'.sent = row.sent
          /\ \/ row' = row /\ saving.version <= row.version
             \/ /\ row.version < saving.version /\ row'.version = saving.version
                /\ row'.draft = saving.draft
        <3>1. CASE row.version < saving.version
            <4>1. row' = [row EXCEPT !.draft = saving.draft, !.version = saving.version]
                BY <1>6, <3>1 DEF UpdatedDraft
            <4> QED
                BY <1>1, <1>3, <3>1, <4>1 DEF Rows
        <3>2. CASE ~(row.version < saving.version)
            <4>1. row' = row
                BY <1>6, <3>2 DEF UpdatedDraft
            <4> QED
                BY <1>1, <1>3, <3>2, <4>1
        <3> QED
            BY <3>1, <3>2
    <2>2. /\ saving' \in HostCalls /\ saving'.at = "answered" /\ saving'.draft = saving.draft
          /\ saving'.version = saving.version
          /\ saving'.saved.draft = row'.draft /\ saving'.saved.version = row'.version
        BY <1>1, <1>6, <2>1, CallServed
    <2>3. DraftTypeOK'
        BY <1>1, <2>1, <2>2 DEF DraftTypeOK
    <2>4. TextsTyped' /\ NotSent'
        BY <1>1, <1>2, <2>1, <2>2 DEF DraftInvariant, TextsTyped, NotSent
    <2>5. SavingOK'
        BY <1>1, <1>2, <2>1, <2>2 DEF SavingOK
    <2>6. CleanOK' /\ ClosingOK'
        BY <1>1, <1>2 DEF DraftInvariant, CleanOK, ClosingOK
    <2>7. StartOK' /\ MessageOK'
        BY <1>1, <1>4 DEF StartOK, Starting, MessageOK
    <2>8. /\ call # Nil /\ call.at = "answered" => call.saved.version \in Nat
          /\ stopping # Nil /\ stopping.at = "answered" => stopping.saved.version \in Nat
        BY DEF DraftInvariant, Tells, Snapshots
    <2>9. Tells(call)' /\ Tells(stopping)'
        BY <1>1, <1>2, <1>3, <2>1, <2>8 DEF DraftInvariant, Tells
    <2> QED
        BY <2>3, <2>4, <2>5, <2>6, <2>7, <2>9 DEF DraftInvariant
<1> QED
    BY <1>5, <1>6 DEF UpdateDraft

\* What waited for a flush goes on.
LEMMA ContinueGoes ==
    ASSUME DraftInvariant, flushes # <<>>, flushes' = Tail(flushes), NEW ok \in BOOLEAN,
           Continue(Head(flushes), ok), composer' \in Composers,
           composer'.draft = composer.draft, UNCHANGED stopping
    PROVE  /\ flushes' \in Seq(Waiters) /\ sending' \in Messages /\ shell' \in Shells
           /\ call' \in HostCalls \cup {Nil} /\ shell'.kept = shell.kept /\ MessageOK'
           /\ shell'.closing \in {"flushed", "stopping", "ready", "shut"} =>
                 ok \/ shell.closing \in {"flushed", "stopping", "ready", "shut"}
           /\ \/ UNCHANGED call
              \/ /\ ok /\ ~composer.blocked /\ call = Nil
                 /\ call'.op = "start" /\ call'.at = "asked" /\ call'.draft = composer.draft
<1> DEFINE for == Head(flushes)
<1>1. DraftTypeOK /\ MessageOK
    BY DEF DraftInvariant
<1>2. /\ flushes' \in Seq(Waiters) /\ Len(flushes) \in Nat \ {0}
      /\ for = flushes[1] /\ for \in Waiters
      /\ Len(flushes') = Len(flushes) - 1
      /\ \A i \in 1..Len(flushes') : flushes'[i] = flushes[i + 1]
    BY <1>1, FlushTaken
<1>3. /\ sending \in Messages /\ shell \in Shells /\ call \in HostCalls \cup {Nil}
      /\ composer.draft \in Nat /\ composer.version \in Nat
    BY <1>1 DEF DraftTypeOK, Composers
<1>4. \A i \in 1..Len(flushes') : i + 1 \in 1..Len(flushes) /\ i + 1 # 1
    BY <1>2
<1>5. 1 \in 1..Len(flushes)
    BY <1>2
<1> HIDE DEF for
<1>6. Continue(for, ok)
    BY DEF for
<1>7. /\ shell' \in Shells /\ shell'.kept = shell.kept
      /\ shell'.closing \in {"flushed", "stopping", "ready", "shut"} =>
            ok \/ shell.closing \in {"flushed", "stopping", "ready", "shut"}
    <2>1. CASE for = "select"
        <3> DEFINE active == IF ok THEN ~shell.active ELSE shell.active
        <3>1. active \in BOOLEAN
            BY <1>3 DEF Shells
        <3>2. shell' = [shell EXCEPT !.moving = "no", !.active = active]
            BY <1>6, <2>1 DEF Continue
        <3> HIDE DEF active
        <3> QED
            BY <1>3, <3>1, <3>2 DEF Shells
    <2>2. CASE for = "close"
        <3>1. shell' = [shell EXCEPT !.closing = IF ok THEN "flushed" ELSE "no"]
            BY <1>6, <2>2 DEF Continue
        <3> QED
            BY <1>3, <3>1 DEF Shells
    <2>3. CASE for \notin {"select", "close"}
        <3>1. shell' = shell
            BY <1>6, <2>3 DEF Continue
        <3> QED
            BY <1>3, <3>1
    <2> QED
        BY <2>1, <2>2, <2>3
<1>8. CASE for # "send"
    <2>1. UNCHANGED <<sending, call>>
        BY <1>6, <1>8 DEF Continue
    <2>2. ASSUME NEW i \in 1..Len(flushes'), flushes'[i] = "send"
          PROVE  /\ sending.at = "flushing"
                 /\ \A j \in 1..Len(flushes') : flushes'[j] = "send" => j = i
        <3>1. flushes[i + 1] = "send" /\ i + 1 \in 1..Len(flushes)
            BY <1>2, <1>4, <2>2
        <3>2. \A j \in 1..Len(flushes') : flushes'[j] = "send" => j + 1 = i + 1
            BY <1>1, <1>2, <1>4, <3>1 DEF MessageOK
        <3> QED
            BY <1>1, <3>1, <3>2 DEF MessageOK
    <2>3. MessageOK'
        BY <1>1, <2>1, <2>2 DEF MessageOK
    <2> QED
        BY <1>2, <1>3, <1>7, <2>1, <2>3
<1>9. CASE for = "send"
    <2>1. /\ sending.at = "flushing" /\ ~sending.acked /\ composer.draft # 0
          /\ call = Nil /\ stopping = Nil
          /\ \A j \in 1..Len(flushes) : flushes[j] = "send" => j = 1
        BY <1>1, <1>2, <1>5, <1>9 DEF MessageOK
    <2>2. \A i \in 1..Len(flushes') : flushes'[i] # "send"
        BY <1>2, <1>4, <2>1
    <2>3. CASE ok /\ ~sending.cancelled /\ ~composer.blocked
        <3>1. /\ sending' = [sending EXCEPT !.at = "starting"]
              /\ call' = CallOf("start", composer.draft, composer.version)
            BY <1>6, <1>9, <2>3 DEF Continue
        <3>2. /\ sending' \in Messages /\ sending'.at = "starting" /\ ~sending'.acked
            BY <1>3, <2>1, <3>1 DEF Messages, MessagePlaces
        <3>3. /\ call' \in HostCalls /\ call'.op = "start" /\ call'.at = "asked"
              /\ call'.draft = composer.draft
            BY <1>3, <3>1, CallMade DEF CallNames
        <3>4. MessageOK'
            BY <2>1, <2>2, <3>2, <3>3 DEF MessageOK
        <3> QED
            BY <1>2, <1>7, <2>1, <2>3, <3>2, <3>3, <3>4
    <2>4. CASE ~(ok /\ ~sending.cancelled /\ ~composer.blocked)
        <3>1. sending' = [sending EXCEPT !.at = "over"] /\ UNCHANGED call
            BY <1>6, <1>9, <2>4 DEF Continue
        <3>2. /\ sending' \in Messages /\ sending'.at = "over" /\ ~sending'.acked
            BY <1>3, <2>1, <3>1 DEF Messages, MessagePlaces
        <3>3. MessageOK'
            BY <2>1, <2>2, <3>1, <3>2 DEF MessageOK
        <3> QED
            BY <1>2, <1>3, <1>7, <3>1, <3>2, <3>3
    <2> QED
        BY <2>3, <2>4
<1> QED
    BY <1>8, <1>9

LEMMA EndingKeeps ==
    ASSUME DraftInvariant, EndFlush
    PROVE  DraftInvariant'
<1>1. /\ composer \in Composers /\ row \in Rows /\ DraftTypeOK /\ composer.version \in Nat
      /\ flushes # <<>> /\ flushes' = Tail(flushes) /\ saving = Nil
      /\ ~composer.dirty \/ composer.blocked
      /\ UNCHANGED <<composer, row, saving, stopping>>
    BY DEF DraftInvariant, DraftTypeOK, EndFlush, Unwritten, Composers
<1>2. Continue(Head(flushes), TRUE)
    BY DEF EndFlush
<1>3. /\ flushes' \in Seq(Waiters) /\ sending' \in Messages /\ shell' \in Shells
      /\ call' \in HostCalls \cup {Nil} /\ shell'.kept = shell.kept /\ MessageOK'
      /\ \/ UNCHANGED call
         \/ /\ ~composer.blocked /\ call = Nil
            /\ call'.op = "start" /\ call'.at = "asked" /\ call'.draft = composer.draft
    BY <1>1, <1>2, ContinueGoes
<1>4. DraftTypeOK'
    BY <1>1, <1>3 DEF DraftTypeOK
<1>5. TextsTyped' /\ CleanOK' /\ NotSent' /\ SavingOK' /\ ClosingOK'
    <2>1. SameText /\ SameRow /\ (Unread => Unread')
        BY <1>1, <1>3 DEF SameText, SameRow, Unread, Starting
    <2> QED
        BY <1>1, <1>3, <2>1, EntryStays
<1>6. Tells(call)' /\ Tells(stopping)'
    BY <1>1, <1>3, AnswersStay
<1>7. StartOK'
    BY <1>1, <1>3 DEF DraftInvariant, StartOK, Starting, Unread
<1> QED
    BY <1>3, <1>4, <1>5, <1>6, <1>7 DEF DraftInvariant

\* A draft is clean when the row is what was written and nothing was typed since.
LEMMA WrittenKeeps ==
    ASSUME DraftInvariant, Written
    PROVE  DraftInvariant'
<1>1. /\ composer \in Composers /\ row \in Rows /\ DraftTypeOK /\ MessageOK
      /\ composer.version \in Nat
      /\ saving # Nil /\ saving' = Nil /\ saving.at # "asked" /\ UNCHANGED <<row, stopping>>
    BY DEF DraftInvariant, DraftTypeOK, Written, AnsweredOf, Composers
<1>2. /\ composer.dirty /\ flushes # <<>>
      /\ saving.version = composer.version => saving.draft = composer.draft
      /\ saving.at = "answered" =>
            saving.saved.draft = row.draft /\ saving.saved.version = row.version
    BY <1>1 DEF DraftInvariant, SavingOK
<1>3. ~Starting
    BY <1>2 DEF DraftInvariant, StartOK
<1>4. CASE /\ saving.at = "answered" /\ ~composer.blocked
           /\ saving.saved.version = saving.version /\ saving.saved.draft = saving.draft
    <2>1. /\ composer' = [composer EXCEPT !.error = FALSE,
                                          !.dirty = @ /\ composer.version # saving.version]
          /\ UNCHANGED <<flushes, sending, call, shell>>
        BY <1>4 DEF Written
    <2>2. /\ composer' \in Composers /\ composer'.draft = composer.draft
          /\ composer'.version = composer.version /\ composer'.typed = composer.typed
          /\ composer'.blocked = composer.blocked
          /\ ~composer'.dirty => composer.version = saving.version
        BY <1>1, <1>2, <2>1 DEF Composers
    <2>3. DraftTypeOK' /\ TextsTyped' /\ NotSent' /\ SavingOK'
        BY <1>1, <1>2, <2>1, <2>2 DEF DraftInvariant, DraftTypeOK, TextsTyped, NotSent, SavingOK
    <2>4. CleanOK'
        BY <1>1, <1>2, <1>4, <2>1, <2>2 DEF CleanOK
    <2>5. ClosingOK' /\ StartOK' /\ MessageOK'
        BY <1>1, <1>2, <1>3, <2>1, <2>2 DEF DraftInvariant, ClosingOK, StartOK, Starting, MessageOK
    <2>6. Tells(call)' /\ Tells(stopping)'
        BY <1>1, <2>1, <2>2, AnswersStay
    <2> QED
        BY <2>3, <2>4, <2>5, <2>6 DEF DraftInvariant
<1>5. CASE ~( /\ saving.at = "answered" /\ ~composer.blocked
              /\ saving.saved.version = saving.version /\ saving.saved.draft = saving.draft )
    <2> DEFINE ok == saving.at = "answered" /\ composer.blocked
    <2>1. /\ composer' = [composer EXCEPT !.error = @ \/ ~composer.blocked]
          /\ flushes' = Tail(flushes) /\ Continue(Head(flushes), ok)
        BY <1>5 DEF Written
    <2>2. /\ composer' \in Composers /\ composer'.draft = composer.draft
          /\ composer'.version = composer.version /\ composer'.typed = composer.typed
          /\ composer'.blocked = composer.blocked /\ composer'.dirty = composer.dirty
        BY <1>1, <2>1 DEF Composers
    <2>3. ok \in BOOLEAN /\ (ok => composer.blocked)
        OBVIOUS
    <2> HIDE DEF ok
    <2>4. /\ flushes' \in Seq(Waiters) /\ sending' \in Messages /\ shell' \in Shells
          /\ call' \in HostCalls \cup {Nil} /\ shell'.kept = shell.kept /\ MessageOK'
          /\ shell'.closing \in {"flushed", "stopping", "ready", "shut"} =>
                ok \/ shell.closing \in {"flushed", "stopping", "ready", "shut"}
          /\ \/ UNCHANGED call
             \/ ok /\ ~composer.blocked
        BY <1>1, <1>2, <2>1, <2>2, <2>3, ContinueGoes
    <2>5. UNCHANGED call
        BY <2>3, <2>4
    <2>6. DraftTypeOK'
        BY <1>1, <2>2, <2>4 DEF DraftTypeOK
    <2>7. TextsTyped' /\ CleanOK' /\ NotSent' /\ SavingOK' /\ ClosingOK'
        <3>1. SameText /\ SameRow /\ (Unread => Unread')
            BY <1>1, <2>2, <2>5 DEF SameText, SameRow, Unread, Starting
        <3>2. shell'.closing \in {"flushed", "stopping", "ready", "shut"} =>
                 \/ shell.closing \in {"flushed", "stopping", "ready", "shut"}
                 \/ composer.blocked
            BY <2>3, <2>4
        <3> QED
            BY <1>1, <2>2, <2>4, <3>1, <3>2, EntryStays
    <2>8. Tells(call)' /\ Tells(stopping)'
        BY <1>1, <2>2, <2>5, AnswersStay
    <2>9. StartOK'
        BY <1>3, <2>5 DEF StartOK, Starting
    <2> QED
        BY <2>4, <2>6, <2>7, <2>8, <2>9 DEF DraftInvariant
<1> QED
    BY <1>4, <1>5

\* The text that starts a message is the clean composer's.
LEMMA StartingKeeps ==
    ASSUME DraftInvariant, StartCaptured
    PROVE  DraftInvariant'
<1>1. /\ composer \in Composers /\ row \in Rows /\ DraftTypeOK /\ MessageOK
      /\ call # Nil /\ call \in HostCalls /\ call.op = "start" /\ call.at = "asked" /\ Starting
      /\ UNCHANGED <<composer, flushes, saving, sending>> /\ UNCHANGED <<stopping, shell>>
    BY DEF DraftInvariant, DraftTypeOK, StartCaptured, AskedOf, Starting
<1>2. /\ ~composer.dirty /\ call.draft = composer.draft /\ composer.draft # 0
      /\ sending.at = "starting" /\ ~sending.acked /\ stopping = Nil /\ saving = Nil
    BY <1>1 DEF DraftInvariant, StartOK, MessageOK, SavingOK
<1>3. /\ composer.version \in Nat /\ composer.draft \in Nat /\ row.version \in Nat
      /\ composer.draft > 0
    BY <1>1, <1>2 DEF Composers, Rows
<1>4. CASE UNCHANGED row /\ call' = Refuse(call)
    <2>1. /\ call' \in HostCalls /\ call'.at = "refused" /\ call'.op = "start"
          /\ call'.draft = call.draft
        BY <1>1, <1>4, CallRefused
    <2>2. DraftTypeOK' /\ StartOK' /\ MessageOK'
        BY <1>1, <1>2, <1>4, <2>1 DEF DraftTypeOK, StartOK, Starting, Unread, MessageOK
    <2>3. TextsTyped' /\ CleanOK' /\ NotSent' /\ SavingOK' /\ ClosingOK'
        <3>1. SameText /\ SameRow /\ ~Unread
            BY <1>1, <1>4 DEF SameText, SameRow, Unread
        <3> QED
            BY <1>1, <1>2, <3>1, EntryStays
    <2>4. Tells(call)' /\ Tells(stopping)'
        BY <1>1, <1>3, <1>4, <2>1, AnswersStay
    <2> QED
        BY <2>2, <2>3, <2>4 DEF DraftInvariant
<1>5. CASE /\ row' = [row EXCEPT !.sent = @ \cup {call.draft}, !.pending = TRUE,
                                 !.draft = 0, !.version = @ + 1]
           /\ call' = AnswerTo(call, row')
    <2> DEFINE sent == row.sent \cup {call.draft}
               version == row.version + 1
    <2>1. sent \in SUBSET Nat /\ version \in Nat /\ version = row.version + 1
        BY <1>1, <1>2, <1>3 DEF Rows
    <2>2. row' = [row EXCEPT !.sent = sent, !.pending = TRUE, !.draft = 0, !.version = version]
        BY <1>5
    <2> HIDE DEF sent, version
    <2>3. /\ row' \in Rows /\ row'.sent = sent /\ row'.draft = 0
          /\ row'.version = row.version + 1
        BY <1>1, <2>1, <2>2 DEF Rows
    <2>4. /\ call' \in HostCalls /\ call'.at = "answered" /\ call'.op = "start"
          /\ call'.draft = call.draft /\ call'.saved \in Snapshots
          /\ call'.saved.version = row'.version /\ call'.saved.draft = row'.draft
        BY <1>1, <1>5, <2>3, CallServed
    <2>5. DraftTypeOK'
        BY <1>1, <2>3, <2>4 DEF DraftTypeOK
    <2>6. composer.version <= row.version
        BY <1>2 DEF DraftInvariant, CleanOK
    <2>7. TextsTyped' /\ NotSent'
        <3>1. \A text \in row'.sent : text > 0 /\ text <= composer.typed
            BY <1>1, <1>2, <1>3, <2>3 DEF DraftInvariant, TextsTyped, sent
        <3>2. composer.typed \in Nat
            BY <1>1 DEF Composers
        <3> QED
            BY <1>1, <1>2, <2>3, <3>1, <3>2 DEF DraftInvariant, TextsTyped, NotSent
    <2>8. CleanOK'
        <3>1. composer.version < row'.version /\ composer.draft \in row'.sent
            BY <1>2, <1>3, <2>3, <2>6 DEF sent
        <3>2. Unread'
            BY <2>4, DraftAssumption DEF Unread, Starting
        <3> QED
            BY <1>1, <1>3, <2>3, <3>1, <3>2 DEF CleanOK
    <2>9. SavingOK' /\ ClosingOK'
        BY <1>1, <1>2 DEF SavingOK, ClosingOK
    <2>10. StartOK'
        BY <1>1, <1>2, <1>3, <2>3, <2>4, <2>6 DEF StartOK, Starting, Unread
    <2>11. MessageOK'
        BY <1>1, <1>2, <2>4 DEF MessageOK
    <2>12. Tells(call)' /\ Tells(stopping)'
        BY <1>1, <1>2, <1>3, <2>3, <2>4 DEF Tells, Rows
    <2> QED
        BY <2>5, <2>7, <2>8, <2>9, <2>10, <2>11, <2>12 DEF DraftInvariant
<1> QED
    BY <1>4, <1>5 DEF StartCaptured

LEMMA StartedKeeps ==
    ASSUME DraftInvariant, Started
    PROVE  DraftInvariant' /\ (composer'.draft # composer.draft => composer.draft \in row.sent)
<1>1. /\ composer \in Composers /\ row \in Rows /\ sending \in Messages /\ DraftTypeOK
      /\ MessageOK /\ call # Nil /\ call \in HostCalls /\ call.op = "start" /\ Starting
      /\ UNCHANGED <<row, flushes, saving, shell>>
    BY DEF DraftInvariant, DraftTypeOK, Started, AnsweredOf, Starting
<1>2. /\ ~composer.dirty /\ sending.at = "starting" /\ ~sending.acked /\ stopping = Nil
      /\ saving = Nil /\ \A i \in 1..Len(flushes) : flushes[i] # "send"
    BY <1>1 DEF DraftInvariant, StartOK, MessageOK, SavingOK
<1>3. composer.version \in Nat /\ row.version \in Nat
    BY <1>1 DEF Composers, Rows
<1>4. CASE call.at = "refused"
    <2>1. /\ sending' = [sending EXCEPT !.at = "over"] /\ call' = Nil
          /\ UNCHANGED <<composer, stopping>>
        BY <1>4 DEF Started
    <2>2. sending' \in Messages /\ sending'.at = "over"
        BY <1>1, <2>1 DEF Messages, MessagePlaces
    <2>3. DraftTypeOK' /\ StartOK' /\ MessageOK'
        BY <1>1, <1>2, <2>1, <2>2 DEF DraftTypeOK, StartOK, Starting, MessageOK
    <2>4. TextsTyped' /\ CleanOK' /\ NotSent' /\ SavingOK' /\ ClosingOK'
        <3>1. SameText /\ SameRow /\ ~Unread
            BY <1>1, <1>4, <2>1 DEF SameText, SameRow, Unread
        <3> QED
            BY <1>1, <1>2, <2>1, <3>1, EntryStays
    <2>5. Tells(call)' /\ Tells(stopping)'
        BY <1>1, <1>3, <2>1, AnswersStay
    <2> QED
        BY <2>1, <2>3, <2>4, <2>5 DEF DraftInvariant
<1>5. CASE call.at # "refused"
    <2> DEFINE s == call.saved
    <2>1. call.at = "answered" /\ Unread
        BY <1>1, <1>5 DEF Started, AnsweredOf, HostCalls, Unread
    <2>2. /\ s \in Snapshots /\ s.version = row.version /\ s.draft = row.draft
          /\ composer.version < row.version
        BY <1>1, <2>1 DEF DraftInvariant, Tells, StartOK
    <2>3. composer.draft \in row.sent
        BY <1>2, <2>2 DEF DraftInvariant, CleanOK
    <2>4. composer' = Acknowledged(composer, s)
        BY <1>5 DEF Started
    <2> HIDE DEF s
    <2>7. /\ composer' \in Composers /\ TextsTyped' /\ CleanOK' /\ NotSent' /\ SavingOK'
          /\ ClosingOK' /\ composer'.version \in Nat /\ composer.version <= composer'.version
        <3>1. CASE composer.blocked
            <4>1. UNCHANGED composer
                BY <2>4, <3>1 DEF Acknowledged
            <4>2. TextsTyped' /\ NotSent' /\ SavingOK' /\ ClosingOK'
                BY <1>1, <1>2, <4>1 DEF DraftInvariant, TextsTyped, NotSent, SavingOK, ClosingOK
            <4>3. CleanOK'
                BY <1>1, <3>1, <4>1 DEF DraftInvariant, CleanOK
            <4> QED
                BY <1>1, <1>3, <4>1, <4>2, <4>3
        <3>2. CASE ~composer.blocked
            <4> DEFINE c == [composer EXCEPT !.draft = s.draft, !.version = s.version,
                                             !.dirty = FALSE]
            <4>1. /\ c \in Composers /\ c.draft = s.draft /\ c.version = s.version /\ ~c.dirty
                  /\ c.typed = composer.typed /\ c.blocked = composer.blocked
                BY <1>1, <2>2 DEF Composers, Snapshots
            <4>2. composer' = WithSaved(c, s)
                BY <2>4, <3>2 DEF Acknowledged
            <4> HIDE DEF c
            <4>3. /\ composer' \in Composers /\ composer'.draft = s.draft
                  /\ composer'.version = s.version /\ ~composer'.dirty
                  /\ composer'.typed = composer.typed
                BY <2>2, <4>1, <4>2, SavedTaken
            <4>4. TextsTyped' /\ CleanOK'
                BY <1>1, <1>2, <1>3, <2>2, <4>3 DEF DraftInvariant, TextsTyped, CleanOK
            <4>5. NotSent' /\ SavingOK' /\ ClosingOK'
                BY <1>1, <1>2, <4>3 DEF DraftInvariant, NotSent, SavingOK, ClosingOK
            <4> QED
                BY <1>3, <2>2, <4>3, <4>4, <4>5
        <3> QED
            BY <3>1, <3>2
    <2>8. /\ DraftTypeOK' /\ MessageOK' /\ ~Starting'
          /\ call' = Nil \/ call'.at = "asked"
          /\ stopping' = Nil \/ stopping'.at = "asked"
        <3>1. CASE sending.cancelled \/ composer.blocked
            <4>1. /\ sending' = [sending EXCEPT !.at = "cancelling", !.acked = TRUE,
                                                !.cancel = "asked"]
                  /\ call' = Nil /\ stopping' = Ask("cancel")
                BY <1>5, <3>1 DEF Started
            <4>2. /\ sending' \in Messages /\ sending'.at = "cancelling" /\ sending'.acked
                  /\ sending'.cancel = "asked"
                BY <1>1, <4>1 DEF Messages, MessagePlaces
            <4>3. stopping' \in HostCalls /\ stopping'.at = "asked"
                BY <4>1, CallAsked DEF CallNames
            <4> QED
                BY <1>1, <1>2, <2>7, <4>1, <4>2, <4>3 DEF DraftTypeOK, MessageOK, Starting
        <3>2. CASE ~(sending.cancelled \/ composer.blocked)
            <4>1. /\ sending' = [sending EXCEPT !.at = "completing", !.acked = TRUE]
                  /\ call' = Ask("complete") /\ UNCHANGED stopping
                BY <1>5, <3>2 DEF Started
            <4>2. /\ sending' \in Messages /\ sending'.at = "completing" /\ sending'.acked
                BY <1>1, <4>1 DEF Messages, MessagePlaces
            <4>3. call' \in HostCalls /\ call'.at = "asked" /\ call'.op = "complete"
                BY <4>1, CallAsked DEF CallNames
            <4> QED
                BY <1>1, <1>2, <2>7, <4>1, <4>2, <4>3 DEF DraftTypeOK, MessageOK, Starting
        <3> QED
            BY <3>1, <3>2
    <2>9. Tells(call)' /\ Tells(stopping)'
        BY <1>1, <1>3, <2>7, <2>8, AnswersStay
    <2>10. StartOK'
        BY <2>8 DEF StartOK
    <2> QED
        BY <2>3, <2>7, <2>8, <2>9, <2>10 DEF DraftInvariant
<1> QED
    BY <1>4, <1>5

\* What the host answers of a workspace it leaves as it is, but for the reply.
LEMMA ServingKeeps ==
    ASSUME DraftInvariant, CompleteMessage \/ GetWorkspace \/ CancelPending
    PROVE  DraftInvariant'
<1>1. /\ composer \in Composers /\ row \in Rows /\ DraftTypeOK /\ MessageOK
      /\ call \in HostCalls \cup {Nil} /\ stopping \in HostCalls \cup {Nil}
      /\ UNCHANGED <<composer, flushes, saving, sending, shell>>
    BY DEF DraftInvariant, DraftTypeOK, CompleteMessage, GetWorkspace, CancelPending
<1>2. row' \in Rows /\ SameRow
    BY <1>1 DEF CompleteMessage, GetWorkspace, CancelPending, Rows, SameRow
<1>3. composer.version \in Nat /\ composer.version <= composer'.version
    BY <1>1 DEF Composers
<1>4. \/ UNCHANGED call
      \/ /\ call # Nil /\ call.op \in {"complete", "get"}
         /\ call' = Refuse(call) \/ call' = AnswerTo(call, row')
    BY DEF CompleteMessage, GetWorkspace, CancelPending, AskedOf
<1>5. \/ UNCHANGED stopping
      \/ /\ stopping # Nil
         /\ stopping' = Refuse(stopping) \/ stopping' = AnswerTo(stopping, row')
    BY DEF CompleteMessage, GetWorkspace, CancelPending, AskedOf
<1>6. /\ call' \in HostCalls \cup {Nil} /\ (call = Nil => call' = Nil)
      /\ call # Nil => call'.op = call.op
      /\ call' \in {call, Nil} \/ call'.at # "answered" \/ Fresh(call)'
    BY <1>1, <1>2, <1>4, CallServed, CallRefused DEF Fresh
<1>7. /\ stopping' \in HostCalls \cup {Nil} /\ (stopping = Nil => stopping' = Nil)
      /\ stopping' \in {stopping, Nil} \/ stopping'.at # "answered" \/ Fresh(stopping)'
    BY <1>1, <1>2, <1>5, CallServed, CallRefused DEF Fresh
<1>8. DraftTypeOK'
    BY <1>1, <1>2, <1>6, <1>7 DEF DraftTypeOK
<1>9. Starting' => Starting /\ UNCHANGED call
    BY <1>4, <1>6 DEF Starting
<1>10. Unread <=> Unread'
    <2>1. Starting => UNCHANGED call
        BY <1>4 DEF Starting
    <2> QED
        BY <1>9, <2>1 DEF Unread, Starting
<1>11. TextsTyped' /\ CleanOK' /\ NotSent' /\ SavingOK' /\ ClosingOK'
    <2>1. saving # Nil => flushes # <<>>
        BY DEF DraftInvariant, SavingOK
    <2>2. SameText
        BY <1>1 DEF SameText
    <2> QED
        BY <1>1, <1>2, <1>10, <2>1, <2>2, EntryStays
<1>12. Tells(call)' /\ Tells(stopping)'
    BY <1>1, <1>2, <1>3, <1>6, <1>7, AnswersStay DEF SameRow
<1>13. StartOK'
    <2>1. Starting' => StartOK /\ Starting
        BY <1>9 DEF DraftInvariant
    <2> QED
        BY <1>1, <1>2, <1>9, <1>10, <2>1 DEF StartOK, SameRow
<1>14. MessageOK'
    BY <1>1, <1>6, <1>7 DEF MessageOK
<1> QED
    BY <1>8, <1>11, <1>12, <1>13, <1>14 DEF DraftInvariant

\* A message's task takes an answer and ends, or reads the workspace again.
LEMMA ReturningKeeps ==
    ASSUME DraftInvariant, Completed \/ ReadBack
    PROVE  DraftInvariant' /\ (composer'.draft # composer.draft => composer.draft \in row.sent)
<1>1. /\ composer \in Composers /\ row \in Rows /\ sending \in Messages /\ DraftTypeOK
      /\ MessageOK /\ call # Nil /\ call \in HostCalls /\ call.op \in {"complete", "get"}
      /\ call.at # "asked"
      /\ UNCHANGED <<row, flushes, saving, stopping, shell>>
    BY DEF DraftInvariant, DraftTypeOK, Completed, ReadBack, AnsweredOf
<1>2. ~Starting
    BY <1>1 DEF Starting
<1>3. sending.at \in {"completing", "resuming"}
    BY <1>1 DEF MessageOK
<1>4. composer.version \in Nat
    BY <1>1 DEF Composers
<1>5. composer' = composer \/ (call.at = "answered" /\ composer' = WithSaved(composer, call.saved))
    BY <1>1 DEF Completed, ReadBack, HostCalls
<1>6. /\ composer' \in Composers /\ composer.version <= composer'.version
      /\ composer'.dirty = composer.dirty
      /\ composer'.draft # composer.draft => composer.draft \in row.sent
      /\ TextsTyped' /\ CleanOK' /\ NotSent' /\ SavingOK' /\ ClosingOK'
    <2>1. CASE composer' = composer
        <3>1. SameText /\ SameRow /\ ~Unread
            BY <1>1, <1>2, <2>1 DEF SameText, SameRow, Unread
        <3>2. saving # Nil => flushes # <<>>
            BY DEF DraftInvariant, SavingOK
        <3>3. TextsTyped' /\ CleanOK' /\ NotSent' /\ SavingOK' /\ ClosingOK'
            BY <1>1, <2>1, <3>1, <3>2, EntryStays
        <3> QED
            BY <1>1, <1>4, <2>1, <3>3
    <2>2. CASE call.at = "answered" /\ composer' = WithSaved(composer, call.saved)
        BY <1>1, <1>2, <2>2, ReadingKeeps
    <2> QED
        BY <1>5, <2>1, <2>2
<1>7. composer'.version \in Nat
    BY <1>6 DEF Composers
<1>8. /\ sending' \in Messages /\ sending'.acked = sending.acked
      /\ sending'.cancel = sending.cancel /\ sending'.at \in {sending.at, "over"}
      /\ call' = Nil \/ (call' = Ask("get") /\ sending' = sending)
    <2>1. CASE sending' = [sending EXCEPT !.at = "over"] /\ call' = Nil
        BY <1>1, <2>1 DEF Messages, MessagePlaces
    <2>2. CASE sending' = sending /\ call' = Ask("get")
        BY <1>1, <2>2
    <2> QED
        BY <2>1, <2>2 DEF Completed, ReadBack
<1>9. call' = Nil \/ (call' \in HostCalls /\ call'.at = "asked" /\ call'.op = "get")
    BY <1>8, CallAsked DEF CallNames
<1>10. DraftTypeOK'
    BY <1>1, <1>6, <1>8, <1>9 DEF DraftTypeOK
<1>11. Tells(call)' /\ Tells(stopping)'
    BY <1>1, <1>4, <1>6, <1>7, <1>9, AnswersStay
<1>12. StartOK'
    BY <1>9 DEF StartOK, Starting
<1>13. MessageOK'
    BY <1>1, <1>3, <1>8, <1>9 DEF MessageOK
<1> QED
    BY <1>6, <1>10, <1>11, <1>12, <1>13 DEF DraftInvariant

LEMMA CancelledKeeps ==
    ASSUME DraftInvariant, CancelReturned
    PROVE  DraftInvariant' /\ (composer'.draft # composer.draft => composer.draft \in row.sent)
<1>1. /\ composer \in Composers /\ row \in Rows /\ sending \in Messages /\ DraftTypeOK
      /\ MessageOK /\ stopping # Nil /\ stopping \in HostCalls /\ stopping.at # "asked"
      /\ stopping' = Nil /\ UNCHANGED <<row, flushes, saving, call, shell>>
    BY DEF DraftInvariant, DraftTypeOK, CancelReturned, AnsweredOf
<1>2. sending.acked /\ ~Starting /\ sending.at \notin {"none", "flushing", "starting"}
    BY <1>1 DEF MessageOK, Starting
<1>3. composer.version \in Nat
    BY <1>1 DEF Composers
<1>4. composer' = composer
      \/ (stopping.at = "answered" /\ composer' = WithSaved(composer, stopping.saved))
    BY <1>1 DEF CancelReturned
<1>5. /\ composer' \in Composers /\ composer.version <= composer'.version
      /\ composer'.dirty = composer.dirty
      /\ composer'.draft # composer.draft => composer.draft \in row.sent
      /\ TextsTyped' /\ CleanOK' /\ NotSent' /\ SavingOK' /\ ClosingOK'
    <2>1. CASE composer' = composer
        <3>1. SameText /\ SameRow /\ ~Unread
            BY <1>1, <1>2, <2>1 DEF SameText, SameRow, Unread
        <3>2. saving # Nil => flushes # <<>>
            BY DEF DraftInvariant, SavingOK
        <3>3. TextsTyped' /\ CleanOK' /\ NotSent' /\ SavingOK' /\ ClosingOK'
            BY <1>1, <2>1, <3>1, <3>2, EntryStays
        <3> QED
            BY <1>1, <1>3, <2>1, <3>3
    <2>2. CASE stopping.at = "answered" /\ composer' = WithSaved(composer, stopping.saved)
        BY <1>1, <1>2, <2>2, ReadingKeeps
    <2> QED
        BY <1>4, <2>1, <2>2
<1>6. composer'.version \in Nat
    BY <1>5 DEF Composers
<1>7. /\ sending' \in Messages
      /\ \/ sending'.at = sending.at /\ sending.at # "failed" /\ sending'.acked = sending.acked
         \/ sending'.at = "failed" /\ sending.at = "failed"
         \/ sending'.at = "over" /\ sending.at = "cancelling"
         \/ sending'.at = "none" /\ sending.at = "failed" /\ ~sending'.acked
    <2>1. CASE sending' = NoMessage /\ sending.at = "failed"
        BY <2>1 DEF NoMessage, Messages, MessagePlaces
    <2>2. CASE /\ sending.at = "cancelling"
               /\ \E cancel \in {"done", "failed"} :
                     sending' = [sending EXCEPT !.at = "over", !.cancel = cancel]
        BY <1>1, <2>2 DEF Messages, MessagePlaces
    <2>3. CASE \E cancel \in {"done", "failed"} : sending' = [sending EXCEPT !.cancel = cancel]
        BY <1>1, <2>3 DEF Messages
    <2>4. CASE stopping.at = "answered"
        <3>1. sending' = CASE sending.at = "failed" -> NoMessage
                           [] sending.at = "cancelling" -> [sending EXCEPT !.at = "over",
                                                                           !.cancel = "done"]
                           [] OTHER -> [sending EXCEPT !.cancel = "done"]
            BY <2>4 DEF CancelReturned
        <3>2. CASE sending.at = "failed"
            BY <2>1, <3>1, <3>2
        <3>3. CASE sending.at = "cancelling"
            BY <2>2, <3>1, <3>3
        <3>4. CASE sending.at \notin {"failed", "cancelling"}
            <4>1. sending' = [sending EXCEPT !.cancel = "done"]
                BY <3>1, <3>4
            <4> QED
                BY <2>3, <4>1
        <3> QED
            BY <3>2, <3>3, <3>4
    <2>5. CASE stopping.at # "answered"
        <3> DEFINE at == IF sending.at = "cancelling" THEN "over" ELSE sending.at
        <3>1. sending' = [sending EXCEPT !.cancel = "failed", !.at = at]
            BY <2>5 DEF CancelReturned
        <3>2. at \in MessagePlaces
            BY <1>1 DEF Messages, MessagePlaces
        <3>3. \/ at = "over" /\ sending.at = "cancelling"
              \/ at = sending.at
            OBVIOUS
        <3> HIDE DEF at
        <3>4. sending' \in Messages /\ sending'.at = at /\ sending'.acked = sending.acked
            BY <1>1, <3>1, <3>2 DEF Messages
        <3> QED
            BY <3>3, <3>4
    <2> QED
        BY <2>4, <2>5
<1>8. DraftTypeOK'
    BY <1>1, <1>5, <1>7 DEF DraftTypeOK
<1>9. Tells(call)' /\ Tells(stopping)'
    BY <1>1, <1>3, <1>5, <1>6, AnswersStay
<1>10. StartOK'
    BY <1>1, <1>2 DEF StartOK, Starting
<1>11. MessageOK'
    <2>1. /\ call = Nil \/ sending.at \in {"completing", "resuming"}
          /\ \A i \in 1..Len(flushes) : flushes[i] # "send"
        BY <1>1, <1>2 DEF MessageOK
    <2>2. sending'.at \notin {"flushing", "starting"} /\ (sending'.at = "none" => ~sending'.acked)
        BY <1>2, <1>7
    <2>3. call # Nil => sending'.at = sending.at /\ call.op # "start"
        BY <1>2, <1>7, <2>1 DEF Starting
    <2> QED
        BY <1>1, <2>1, <2>2, <2>3 DEF MessageOK
<1> QED
    BY <1>5, <1>8, <1>9, <1>10, <1>11 DEF DraftInvariant

\* A message ends, or one whose reply is pending is taken up: none was under way.
LEMMA TurningKeeps ==
    ASSUME DraftInvariant, Resume \/ EndMessage
    PROVE  DraftInvariant'
<1>1. /\ composer \in Composers /\ row \in Rows /\ sending \in Messages /\ shell \in Shells
      /\ DraftTypeOK /\ MessageOK
      /\ UNCHANGED <<composer, row, flushes, saving, stopping>>
    BY DEF DraftInvariant, DraftTypeOK, Resume, EndMessage
<1>2. sending.at \in {"none", "over"}
    BY DEF Resume, EndMessage
<1>3. /\ call = Nil /\ ~Starting
      /\ \A i \in 1..Len(flushes) : flushes[i] # "send"
    BY <1>1, <1>2 DEF MessageOK, Starting
<1>4. composer.version \in Nat /\ composer.version <= composer'.version
    BY <1>1 DEF Composers
<1>5. /\ sending' \in Messages /\ shell' \in Shells
      /\ shell'.kept = shell.kept /\ shell'.closing = shell.closing
      /\ \/ /\ sending'.at = "resuming" /\ stopping = Nil
            /\ call' \in HostCalls /\ call'.op = "complete" /\ call'.at = "asked"
         \/ /\ sending'.at \in {"failed", "none"} /\ stopping = Nil /\ call' = Nil
            /\ sending'.at = "none" => ~sending'.acked
    <2>1. CASE Resume
        <3>1. sending' \in Messages /\ sending'.at = "resuming"
            BY <2>1 DEF Resume, NoMessage, Messages, MessagePlaces
        <3>2. shell' \in Shells /\ shell'.kept = shell.kept /\ shell'.closing = shell.closing
            BY <1>1, <2>1 DEF Resume, Shells
        <3>3. call' \in HostCalls /\ call'.op = "complete" /\ call'.at = "asked"
            BY <2>1, CallAsked DEF Resume, CallNames
        <3>4. stopping = Nil
            BY <1>1, <2>1 DEF Resume, MessageOK
        <3> QED
            BY <3>1, <3>2, <3>3, <3>4
    <2>2. CASE EndMessage
        <3>1. /\ sending' \in Messages /\ sending'.at \in {"failed", "none"}
              /\ sending'.at = "none" => ~sending'.acked
            <4>1. CASE sending.cancel = "failed"
                <5>1. sending' = [sending EXCEPT !.at = "failed"]
                    BY <2>2, <4>1 DEF EndMessage
                <5> QED
                    BY <1>1, <5>1 DEF Messages, MessagePlaces
            <4>2. CASE sending.cancel # "failed"
                <5>1. sending' = NoMessage
                    BY <2>2, <4>2 DEF EndMessage
                <5> QED
                    BY <5>1 DEF NoMessage, Messages, MessagePlaces
            <4> QED
                BY <4>1, <4>2
        <3>2. stopping = Nil /\ UNCHANGED <<call, shell>>
            BY <1>1, <2>2 DEF EndMessage, MessageOK
        <3> QED
            BY <1>1, <1>3, <3>1, <3>2
    <2> QED
        BY <2>1, <2>2
<1>6. DraftTypeOK'
    BY <1>1, <1>5 DEF DraftTypeOK
<1>7. TextsTyped' /\ CleanOK' /\ NotSent' /\ SavingOK' /\ ClosingOK'
    <2>1. SameText /\ SameRow /\ ~Unread
        BY <1>1, <1>3 DEF SameText, SameRow, Unread
    <2>2. saving # Nil => flushes # <<>>
        BY DEF DraftInvariant, SavingOK
    <2> QED
        BY <1>1, <1>5, <2>1, <2>2, EntryStays
<1>8. Tells(call)' /\ Tells(stopping)'
    BY <1>1, <1>4, <1>5, AnswersStay
<1>9. StartOK'
    BY <1>5 DEF StartOK, Starting
<1>10. MessageOK'
    BY <1>1, <1>3, <1>5 DEF MessageOK
<1> QED
    BY <1>6, <1>7, <1>8, <1>9, <1>10 DEF DraftInvariant

-----------------------------------------------------------------------------
(* Every step                                                              *)

DraftStep ==
    /\ DraftInvariant'
    /\ composer'.draft # composer.draft =>
          composer'.typed > composer.typed \/ composer.draft \in row.sent

LEMMA DraftKeeps ==
    ASSUME DraftInvariant, [DraftNext]_draftVars
    PROVE  DraftStep
<1>1. composer \in Composers
    BY DEF DraftInvariant, DraftTypeOK
<1>2. CASE UNCHANGED draftVars
    BY <1>2 DEF draftVars, DraftStep, DraftInvariant, DraftTypeOK, TextsTyped, CleanOK, NotSent,
       SavingOK, Tells, StartOK, Starting, Unread, MessageOK, ClosingOK
<1>3. CASE EditDraft
    <2>1. composer'.typed = composer.typed + 1 /\ composer.typed \in Nat
        BY <1>1, <1>3 DEF EditDraft, Composers
    <2>2. composer'.typed > composer.typed
        BY <2>1
    <2> QED
        BY <1>3, <2>2, EditKeeps DEF DraftStep
<1>4. CASE TimerFires \/ SendMessage \/ SelectWorkspace \/ PrepareClose
    <2>1. composer'.draft = composer.draft
        BY <1>1, <1>4 DEF TimerFires, SendMessage, SelectWorkspace, PrepareClose, Flush, Composers
    <2> QED
        BY <1>4, <2>1, QueueingKeeps DEF DraftStep
<1>5. CASE Cancel \/ BeginDeletion \/ Moving
    <2>1. composer'.draft = composer.draft
        BY <1>1, <1>5 DEF Cancel, BeginDeletion, Moving, CallDelete, DeleteWorkspace, CancelAll,
           AllCancelled, FinishWindowClose, Composers
    <2> QED
        BY <1>5, <2>1, MovingKeeps DEF DraftStep
<1>6. CASE EndFlush \/ IssueWrite \/ UpdateDraft \/ StartCaptured
    <2>1. composer' = composer
        BY <1>6 DEF EndFlush, IssueWrite, UpdateDraft, StartCaptured
    <2> QED
        BY <1>6, <2>1, EndingKeeps, IssuingKeeps, WritingKeeps, StartingKeeps DEF DraftStep
<1>7. CASE Written
    <2>1. composer'.draft = composer.draft
        BY <1>1, <1>7 DEF Written, Composers
    <2> QED
        BY <1>7, <2>1, WrittenKeeps DEF DraftStep
<1>8. CASE Started
    BY <1>8, StartedKeeps DEF DraftStep
<1>9. CASE Completed \/ ReadBack
    BY <1>9, ReturningKeeps DEF DraftStep
<1>10. CASE CancelReturned
    BY <1>10, CancelledKeeps DEF DraftStep
<1>11. CASE CompleteMessage \/ GetWorkspace \/ CancelPending
    <2>1. composer' = composer
        BY <1>11 DEF CompleteMessage, GetWorkspace, CancelPending
    <2> QED
        BY <1>11, <2>1, ServingKeeps DEF DraftStep
<1>12. CASE Resume \/ EndMessage
    <2>1. composer' = composer
        BY <1>12 DEF Resume, EndMessage
    <2> QED
        BY <1>12, <2>1, TurningKeeps DEF DraftStep
<1> QED
    BY <1>2, <1>3, <1>4, <1>5, <1>6, <1>7, <1>8, <1>9, <1>10, <1>11, <1>12
       DEF DraftNext, Typing, Writing, MessageSteps

\* A clean composer shows what the host stores, and a text that was sent is
\* neither stored nor shown as a draft again, however late the writes, the
\* answers and the cancellations that race it.
THEOREM DraftsStay == DraftSpec => []DraftsKept
<1>1. DraftInit => DraftInvariant
    BY DraftStarts
<1>2. DraftInvariant /\ [DraftNext]_draftVars => DraftInvariant'
    BY DraftKeeps DEF DraftStep
<1>3. DraftInvariant => DraftsKept
    BY DraftSuffices
<1> QED
    BY <1>1, <1>2, <1>3, PTL DEF DraftSpec

\* What was typed leaves the composer by an edit or because it was sent, by no
\* answer of the host.
THEOREM TypingStays == DraftSpec => TypedStays
<1>1. DraftInit => DraftInvariant
    BY DraftStarts
<1>2. DraftInvariant /\ [DraftNext]_draftVars => DraftInvariant'
    BY DraftKeeps DEF DraftStep
<1>3. DraftInvariant /\ [DraftNext]_draftVars =>
         [composer'.draft # composer.draft =>
             \/ composer'.typed > composer.typed
             \/ composer.draft \in row.sent]_draftVars
    BY DraftKeeps DEF DraftStep
<1> QED
    BY <1>1, <1>2, <1>3, PTL DEF DraftSpec, TypedStays
=============================================================================
