--------------------------- MODULE WorkspaceDraft ---------------------------
(***************************************************************************)
(* What is typed into one workspace: the entry of the app store            *)
(* (src/app/store.ts), the chain of its writes, the message being sent and *)
(* stopped, navigation, deletion and closing, over the row of the host's   *)
(* database (store.rs).  Every typed text is new, and named by a number; 0 *)
(* is the empty draft.                                                     *)
(*                                                                         *)
(* A call to the host is asked, served in one transaction and answered,    *)
(* and between the three anything else may happen.  What follows an answer *)
(* up to the next await is part of its step.                               *)
(***************************************************************************)
EXTENDS Naturals, Sequences, Absent

CONSTANTS MaxTyped,   \* bounds of the exploration: edits,
          MaxSent,    \* messages sent or resumed,
          MaxMoves    \* navigations, deletions and closings

VARIABLES composer,   \* the entry: store.ts:16
          row,        \* the workspace and its messages: store.rs:88
          flushes,    \* the chain of flush tasks by who waits for them
          saving,     \* the updateDraft call of the first, or Nil
          sending,    \* the active request: store.ts:6
          call,       \* the call its task awaits, or Nil
          stopping,   \* the call that cancels it, or Nil
          shell        \* navigation, deletion and closing

draftVars == <<composer, row, flushes, saving, sending, call, stopping, shell>>

\* The calls to the host, and what it answers of a workspace
CallNames == {"update", "start", "complete", "get", "cancel"}
Snapshots == [draft : Nat, version : Nat, pending : BOOLEAN]
HostCalls == [op : CallNames, at : {"asked", "answered", "refused"}, draft : Nat, version : Nat,
              saved : Snapshots \cup {Nil}]

ASSUME DraftAssumption ==
    MaxTyped \in Nat /\ MaxSent \in Nat /\ MaxMoves \in Nat /\ Nil \notin HostCalls

NoMessage == [at |-> "none", acked |-> FALSE, cancelled |-> FALSE, cancel |-> "no"]

CallOf(op, draft, version) ==
    [op |-> op, at |-> "asked", draft |-> draft, version |-> version, saved |-> Nil]
Ask(op) == CallOf(op, 0, 0)
Snapshot(r) == [draft |-> r.draft, version |-> r.version, pending |-> r.pending]
AnswerTo(c, r) == [c EXCEPT !.at = "answered", !.saved = Snapshot(r)]
Refuse(c) == [c EXCEPT !.at = "refused"]
AskedOf(c, op) == c # Nil /\ c.op = op /\ c.at = "asked"
AnsweredOf(c, op) == c # Nil /\ c.op = op /\ c.at # "asked"

-----------------------------------------------------------------------------
(* The entry *)

\* Variant: what the host answers replaces what is being typed.
WithAnySaved(c, saved) ==
    IF c.blocked THEN c
    ELSE [c EXCEPT !.draft = IF saved.version >= c.version THEN saved.draft ELSE @,
                   !.version = IF @ > saved.version THEN @ ELSE saved.version,
                   !.pending = saved.pending]

\* A clean draft is replaced by one of an equal or newer version.
WithSaved(c, saved) ==
    IF c.blocked THEN c
    ELSE [c EXCEPT !.draft = IF ~c.dirty /\ saved.version >= c.version THEN saved.draft ELSE @,
                   !.version = IF @ > saved.version THEN @ ELSE saved.version,
                   !.pending = saved.pending]

\* The acknowledgement of a message replaces what was typed.
Acknowledged(c, saved) ==
    IF c.blocked THEN c
    ELSE WithSaved([c EXCEPT !.draft = saved.draft, !.version = saved.version, !.dirty = FALSE],
                 saved)

EditDraft ==
    /\ ~composer.blocked /\ shell.moving = "no" /\ shell.closing = "no" /\ shell.active
    /\ sending.at = "none" \/ sending.acked
    /\ composer.typed < MaxTyped
    /\ \E draft \in {0, composer.typed + 1} \ {composer.draft} :
          composer' = [composer EXCEPT !.draft = draft, !.typed = @ + 1, !.version = @ + 1,
                                       !.dirty = TRUE, !.error = FALSE, !.timer = TRUE]
    /\ UNCHANGED <<row, flushes, saving, sending, call, stopping, shell>>

\* Queueing a flush clears the timers.
Flush(for) ==
    /\ flushes' = Append(flushes, for)
    /\ composer' = [composer EXCEPT !.timer = FALSE]

TimerFires ==
    /\ composer.timer /\ Flush("timer")
    /\ UNCHANGED <<row, saving, sending, call, stopping, shell>>

-----------------------------------------------------------------------------
(* The chain of writes *)

Unwritten == composer.dirty /\ ~composer.blocked

\* What waits for a flush that ended goes on.
Continue(for, ok) ==
    /\ IF for # "send" THEN UNCHANGED <<sending, call>>
       ELSE IF ok /\ ~sending.cancelled /\ ~composer.blocked
       THEN /\ sending' = [sending EXCEPT !.at = "starting"]
            /\ call' = CallOf("start", composer.draft, composer.version)
       ELSE sending' = [sending EXCEPT !.at = "over"] /\ UNCHANGED call
    /\ shell' = CASE for = "select" -> [shell EXCEPT !.moving = "no",
                                                   !.active = IF ok THEN ~@ ELSE @]
                 [] for = "close" -> [shell EXCEPT !.closing = IF ok THEN "flushed" ELSE "no"]
                 [] OTHER -> shell

EndFlush ==
    /\ flushes # <<>> /\ saving = Nil /\ ~Unwritten
    /\ flushes' = Tail(flushes) /\ Continue(Head(flushes), TRUE)
    /\ UNCHANGED <<composer, row, saving, stopping>>

IssueWrite ==
    /\ flushes # <<>> /\ saving = Nil /\ Unwritten
    /\ saving' = CallOf("update", composer.draft, composer.version)
    /\ UNCHANGED <<composer, row, flushes, sending, call, stopping, shell>>

\* Variant: a late write is written too.
UpdatedAnyDraft(r, draft, version) == [r EXCEPT !.draft = draft, !.version = version]

\* Only a newer version is written; the workspace is read back in either case.
UpdatedDraft(r, draft, version) ==
    IF r.version < version THEN [r EXCEPT !.draft = draft, !.version = version] ELSE r

UpdateDraft ==
    /\ AskedOf(saving, "update")
    /\ \/ /\ row' = UpdatedDraft(row, saving.draft, saving.version)
          /\ saving' = AnswerTo(saving, row')
       \/ UNCHANGED row /\ saving' = Refuse(saving)
    /\ UNCHANGED <<composer, flushes, sending, call, stopping, shell>>

\* The answer for an entry being deleted is left unread; a refusal, or a draft
\* that is not the one written, ends the flush with an error.
Written ==
    /\ AnsweredOf(saving, "update") /\ saving' = Nil
    /\ IF saving.at = "answered" /\ ~composer.blocked
          /\ saving.saved.version = saving.version /\ saving.saved.draft = saving.draft
       THEN /\ composer' = [composer EXCEPT !.error = FALSE,
                                            !.dirty = @ /\ composer.version # saving.version]
            /\ UNCHANGED <<flushes, sending, call, shell>>
       ELSE /\ composer' = [composer EXCEPT !.error = @ \/ ~composer.blocked]
            /\ flushes' = Tail(flushes)
            /\ Continue(Head(flushes), saving.at = "answered" /\ composer.blocked)
    /\ UNCHANGED <<row, stopping>>

Writing == TimerFires \/ EndFlush \/ IssueWrite \/ UpdateDraft \/ Written

-----------------------------------------------------------------------------
(* MessageSteps, resuming and stopping a message *)

SendMessage ==
    /\ sending.at = "none" /\ ~composer.blocked /\ ~composer.pending /\ composer.draft # 0
    /\ shell.moving = "no" /\ shell.closing = "no" /\ shell.active /\ shell.sent < MaxSent
    /\ sending' = [NoMessage EXCEPT !.at = "flushing"]
    /\ Flush("send")
    /\ shell' = [shell EXCEPT !.sent = @ + 1]
    /\ UNCHANGED <<row, saving, call, stopping>>

Resume ==
    /\ sending.at = "none" /\ ~composer.blocked /\ composer.pending
    /\ shell.closing = "no" /\ shell.active /\ shell.sent < MaxSent
    /\ sending' = [NoMessage EXCEPT !.at = "resuming", !.acked = TRUE]
    /\ call' = Ask("complete")
    /\ shell' = [shell EXCEPT !.sent = @ + 1]
    /\ UNCHANGED <<composer, row, flushes, saving, stopping>>

\* The message and its pending reply, and the empty draft of the next version.
StartCaptured ==
    /\ AskedOf(call, "start")
    /\ \/ /\ ~row.pending
          /\ row' = [row EXCEPT !.sent = @ \cup {call.draft}, !.pending = TRUE,
                                !.draft = 0, !.version = @ + 1]
          /\ call' = AnswerTo(call, row')
       \/ UNCHANGED row /\ call' = Refuse(call)
    /\ UNCHANGED <<composer, flushes, saving, sending, stopping, shell>>

Started ==
    /\ AnsweredOf(call, "start")
    /\ IF call.at = "refused"
       THEN /\ sending' = [sending EXCEPT !.at = "over"] /\ call' = Nil
            /\ UNCHANGED <<composer, stopping>>
       ELSE /\ composer' = Acknowledged(composer, call.saved)
            /\ IF sending.cancelled \/ composer.blocked
               THEN /\ sending' = [sending EXCEPT !.at = "cancelling", !.acked = TRUE,
                                                  !.cancel = "asked"]
                    /\ call' = Nil /\ stopping' = Ask("cancel")
               ELSE /\ sending' = [sending EXCEPT !.at = "completing", !.acked = TRUE]
                    /\ call' = Ask("complete") /\ UNCHANGED stopping
    /\ UNCHANGED <<row, flushes, saving, shell>>

\* The reply ends, here or because it was cancelled, and the workspace is read.
CompleteMessage ==
    /\ AskedOf(call, "complete")
    /\ \/ /\ row' = [row EXCEPT !.pending = FALSE]
          /\ call' = AnswerTo(call, row')
       \/ UNCHANGED row /\ call' = Refuse(call)
    /\ UNCHANGED <<composer, flushes, saving, sending, stopping, shell>>

\* After a failure the workspace is read again.
Completed ==
    /\ AnsweredOf(call, "complete")
    /\ IF call.at = "answered"
       THEN /\ composer' = IF sending.cancelled THEN composer ELSE WithSaved(composer, call.saved)
            /\ sending' = [sending EXCEPT !.at = "over"] /\ call' = Nil
       ELSE /\ UNCHANGED composer
            /\ IF sending.at = "completing" /\ ~composer.blocked /\ ~sending.cancelled
               THEN UNCHANGED sending /\ call' = Ask("get")
               ELSE sending' = [sending EXCEPT !.at = "over"] /\ call' = Nil
    /\ UNCHANGED <<row, flushes, saving, stopping, shell>>

GetWorkspace ==
    /\ AskedOf(call, "get")
    /\ call' = AnswerTo(call, row) \/ call' = Refuse(call)
    /\ UNCHANGED <<composer, row, flushes, saving, sending, stopping, shell>>

ReadBack ==
    /\ AnsweredOf(call, "get")
    /\ composer' = IF sending.cancelled \/ call.at = "refused" THEN composer
                   ELSE WithSaved(composer, call.saved)
    /\ sending' = [sending EXCEPT !.at = "over"] /\ call' = Nil
    /\ UNCHANGED <<row, flushes, saving, stopping, shell>>

\* cancelEntry: the call is made when the message has been acknowledged, unless
\* one was made that did not fail.
Cancelling ==
    IF sending.at = "none" THEN UNCHANGED <<sending, stopping>>
    ELSE LET asks == sending.acked /\ sending.cancel \in {"no", "failed"}
         IN  /\ sending' = [sending EXCEPT !.cancelled = TRUE,
                                           !.cancel = IF asks THEN "asked"
                                                      ELSE IF @ = "failed" THEN "no" ELSE @]
             /\ stopping' = IF asks THEN Ask("cancel") ELSE stopping

Cancel ==
    /\ sending.at # "none" /\ shell.active
    /\ ~sending.cancelled \/ sending.cancel = "failed"
    /\ Cancelling
    /\ UNCHANGED <<composer, row, flushes, saving, call, shell>>

CancelPending ==
    /\ AskedOf(stopping, "cancel")
    /\ \/ /\ row' = [row EXCEPT !.pending = FALSE]
          /\ stopping' = AnswerTo(stopping, row')
       \/ UNCHANGED row /\ stopping' = Refuse(stopping)
    /\ UNCHANGED <<composer, flushes, saving, sending, call, shell>>

CancelReturned ==
    /\ AnsweredOf(stopping, "cancel") /\ stopping' = Nil
    /\ IF stopping.at = "answered"
       THEN /\ composer' = WithSaved(composer, stopping.saved)
            /\ sending' = CASE sending.at = "failed" -> NoMessage
                            [] sending.at = "cancelling" -> [sending EXCEPT !.at = "over",
                                                                            !.cancel = "done"]
                            [] OTHER -> [sending EXCEPT !.cancel = "done"]
       ELSE /\ UNCHANGED composer
            /\ sending' = [sending EXCEPT !.cancel = "failed",
                                          !.at = IF @ = "cancelling" THEN "over" ELSE @]
    /\ UNCHANGED <<row, flushes, saving, call, shell>>

\* The workspace takes no new message while a cancellation may still publish.
EndMessage ==
    /\ sending.at = "over" /\ sending.cancel # "asked"
    /\ sending' = IF sending.cancel = "failed" THEN [sending EXCEPT !.at = "failed"] ELSE NoMessage
    /\ UNCHANGED <<composer, row, flushes, saving, call, stopping, shell>>

MessageSteps ==
    \/ StartCaptured \/ Started \/ CompleteMessage \/ Completed \/ GetWorkspace \/ ReadBack
    \/ CancelPending \/ CancelReturned \/ EndMessage

-----------------------------------------------------------------------------
(* Navigation, deletion and closing *)

Moves(move) ==
    /\ shell.moves < MaxMoves
    /\ shell' = [move EXCEPT !.moves = @ + 1]

SelectWorkspace ==
    /\ shell.moving = "no" /\ shell.closing = "no"
    /\ Moves([shell EXCEPT !.moving = "select"]) /\ Flush("select")
    /\ UNCHANGED <<row, saving, sending, call, stopping>>

BeginDeletion ==
    /\ shell.moving = "no" /\ shell.closing = "no"
    /\ Moves([shell EXCEPT !.moving = "delete"])
    /\ composer' = [composer EXCEPT !.blocked = TRUE, !.timer = FALSE]
    /\ Cancelling
    /\ UNCHANGED <<row, flushes, saving, call>>

\* The writes and the message under way have ended.
CallDelete ==
    /\ shell.moving = "delete" /\ flushes = <<>> /\ sending.at \in {"none", "failed"}
    /\ shell' = [shell EXCEPT !.moving = "deleting"]
    /\ UNCHANGED <<composer, row, flushes, saving, sending, call, stopping>>

DeleteWorkspace ==
    /\ shell.moving = "deleting"
    /\ \/ /\ shell' = [shell EXCEPT !.moving = "no", !.deleted = TRUE, !.active = FALSE]
          /\ UNCHANGED composer
       \/ /\ shell' = [shell EXCEPT !.moving = "no", !.kept = TRUE]
          /\ composer' = [composer EXCEPT !.blocked = FALSE]
    /\ UNCHANGED <<row, flushes, saving, sending, call, stopping>>

PrepareClose ==
    /\ shell.closing = "no"
    /\ Moves([shell EXCEPT !.closing = "flushing"]) /\ Flush("close")
    /\ UNCHANGED <<row, saving, sending, call, stopping>>

\* Settings and provider tasks have ended.
CancelAll ==
    /\ shell.closing = "flushed" /\ Cancelling
    /\ shell' = [shell EXCEPT !.closing = "stopping"]
    /\ UNCHANGED <<composer, row, flushes, saving, call>>

AllCancelled ==
    /\ shell.closing = "stopping" /\ sending.at \in {"none", "failed"} /\ stopping = Nil
    /\ shell' = [shell EXCEPT !.closing = IF sending.at = "none" THEN "ready" ELSE "no"]
    /\ UNCHANGED <<composer, row, flushes, saving, sending, call, stopping>>

\* The window is destroyed, or hidden, or stays.
FinishWindowClose ==
    /\ shell.closing = "ready"
    /\ \E closing \in {"shut", "no"} : shell' = [shell EXCEPT !.closing = closing]
    /\ UNCHANGED <<composer, row, flushes, saving, sending, call, stopping>>

Moving == CallDelete \/ DeleteWorkspace \/ CancelAll \/ AllCancelled \/ FinishWindowClose

DraftInit ==
    /\ composer = [draft |-> 0, version |-> 0, dirty |-> FALSE, blocked |-> FALSE,
                   error |-> FALSE, timer |-> FALSE, pending |-> FALSE, typed |-> 0]
    /\ row = [draft |-> 0, version |-> 0, pending |-> FALSE, sent |-> {}]
    /\ flushes = <<>> /\ saving = Nil /\ sending = NoMessage /\ call = Nil /\ stopping = Nil
    /\ shell = [moving |-> "no", closing |-> "no", active |-> TRUE, deleted |-> FALSE,
               kept |-> FALSE, sent |-> 0, moves |-> 0]

Typing == EditDraft \/ SendMessage \/ Resume \/ Cancel \/ SelectWorkspace \/ BeginDeletion \/ PrepareClose

DraftNext ==
    /\ shell.closing # "shut" /\ ~shell.deleted
    /\ Typing \/ Writing \/ MessageSteps \/ Moving

DraftSpec == DraftInit /\ [][DraftNext]_draftVars
=============================================================================
