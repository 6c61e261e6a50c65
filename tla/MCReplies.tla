------------------------------ MODULE MCReplies ------------------------------
(***************************************************************************)
(* An instance of RunReconciliation and ResourceCommands for TLC: what the *)
(* host asks the runtime for.  They share no state: a behaviour exercises  *)
(* one of them while the other rests.                                      *)
(***************************************************************************)
EXTENDS RunReconciliationSafety, ResourceSafety, TLC

VARIABLE subject

TaskSymmetry == Permutations(Tasks)

RepliesInit ==
    /\ subject \in {"replies", "resources"}
    /\ Init /\ ResourceInit /\ (subject = "replies" => desk.owners = {})

RepliesNext ==
    /\ UNCHANGED subject
    /\ \/ subject = "replies" /\ Next /\ UNCHANGED resourceVars
       \/ subject = "resources" /\ ResourceNext /\ UNCHANGED vars

RepliesSpec == RepliesInit /\ [][RepliesNext]_<<subject, vars, resourceVars>>
=============================================================================
