-------------------------- MODULE SignInLifecycle --------------------------
(***************************************************************************)
(* What the operator is promised of a sign-in: at most one is under way,   *)
(* each ends once and for good, and it connects only after the provider    *)
(* called back.  The phases are those of lifecycle.rs; a sign-in the       *)
(* process left behind when it ended is lost.  Connectors implements it    *)
(* with what becomes of the tokens, SignInCallback with what becomes of    *)
(* the socket and the thread.                                              *)
(***************************************************************************)
CONSTANT SignIns
VARIABLE phase

UnderWay == {"pending", "exchanging"}

\* Whatever is under way comes to this end.
Left(end) == [s \in SignIns |-> IF phase[s] \in UnderWay THEN end ELSE phase[s]]
Moves(s, from, to) ==
    /\ phase[s] \in from
    /\ phase' = [phase EXCEPT ![s] = to]

Init == phase = [s \in SignIns |-> "none"]

\* A sign-in makes room for the next when its time is over.
Begin(s) == phase[s] = "none" /\ phase' = [Left("failed") EXCEPT ![s] = "pending"]
CallBack(s) == Moves(s, {"pending"}, "exchanging")
Connect(s) == Moves(s, {"exchanging"}, "connected")
End(s) == \E end \in {"failed", "cancelled"} : Moves(s, UnderWay, end)
ProcessEnds == phase' = Left("lost")

Next ==
    \/ \E s \in SignIns : Begin(s) \/ CallBack(s) \/ Connect(s) \/ End(s)
    \/ ProcessEnds

Spec == Init /\ [][Next]_phase
=============================================================================
