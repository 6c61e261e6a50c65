----------------------------- MODULE MCAccounts -----------------------------
(***************************************************************************)
(* An instance of Connectors and SignInCallback for TLC.  They share no    *)
(* state: a behaviour exercises one of them while the other rests.         *)
(***************************************************************************)
EXTENDS SignInRefinement, TLC

VARIABLE subject

OneWorkspace == [r \in Runs |-> "w"]
AccountSymmetry == Permutations(Connections)

AccountsInit == subject \in {"accounts", "callback"} /\ Init /\ SignInInit

AccountsNext ==
    /\ UNCHANGED subject
    /\ \/ subject = "accounts" /\ Next /\ UNCHANGED signInVars
       \/ subject = "callback" /\ SignInNext /\ UNCHANGED vars

AccountsSpec == AccountsInit /\ [][AccountsNext]_<<subject, vars, signInVars>>
=============================================================================
