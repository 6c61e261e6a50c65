------------------------ MODULE WorkspaceDraftSafety ------------------------
(* Properties of WorkspaceDraft *)
EXTENDS WorkspaceDraft

\* A message that was being started when the workspace was to be deleted, which
\* then failed, leaves its text in the composer: store.ts:346 skips the answer.
SentUnread == (shell.kept \/ composer.blocked) /\ row.version > composer.version

(***************************************************************************)
(* A clean composer shows what the host stores, text and version, while no *)
(* acknowledgement of a message is on its way (store.ts:168, "clean means  *)
(* durable"); and a window that has closed leaves nothing unsaved, unless  *)
(* a deletion that was under way kept the entry from being written.        *)
(***************************************************************************)
CleanIsDurable ==
    /\ ~composer.dirty /\ ~(AnsweredOf(call, "start") /\ call.at = "answered") /\ ~SentUnread
       => composer.draft = row.draft /\ composer.version = row.version
    /\ shell.closing = "shut" => ~composer.dirty \/ shell.kept \/ composer.blocked

\* A text that was sent is never the stored draft again, by no write however
\* late (store.rs:223), nor what the composer shows as saved.
SentStaysSent ==
    /\ row.draft \notin row.sent
    /\ ~composer.dirty /\ ~AnsweredOf(call, "start") /\ ~SentUnread
       => composer.draft \notin row.sent

DraftsKept == CleanIsDurable /\ SentStaysSent

\* What was typed leaves the composer by an edit, or because it was sent: no
\* answer of a write, a completion, a cancellation or a recovery removes it.
TypedStays ==
    [][composer'.draft # composer.draft =>
          \/ composer'.typed > composer.typed
          \/ composer.draft \in row.sent]_draftVars

Resting == shell.closing = "shut" \/ shell.deleted

\* A draft that was not saved, with nothing to say why.  After a deletion that
\* failed it waits for the next edit, message, navigation or closing.
Unsaved == composer.dirty /\ ~composer.error /\ ~shell.kept /\ ~Resting

\* The main window is to close, its drafts come first
DraftsClosing == shell.closing # "no" /\ ~Resting

\* Timers fire, the host serves and answers, and what waits for an answer or
\* for the end of a task goes on, at once when the task ends, however often a
\* cancellation that fails is tried again.
Lively(action) == ~Resting /\ action

DraftFairness ==
    /\ WF_draftVars(Lively(TimerFires)) /\ WF_draftVars(Lively(EndFlush \/ IssueWrite))
    /\ WF_draftVars(Lively(UpdateDraft)) /\ WF_draftVars(Lively(Written))
    /\ WF_draftVars(Lively(StartCaptured \/ CompleteMessage \/ GetWorkspace))
    /\ WF_draftVars(Lively(Started \/ Completed \/ ReadBack))
    /\ WF_draftVars(Lively(CancelPending)) /\ WF_draftVars(Lively(CancelReturned))
    /\ WF_draftVars(Lively(Moving))
    /\ SF_draftVars(Lively(EndMessage)) /\ SF_draftVars(Lively(AllCancelled))
=============================================================================
