---------------------------- MODULE MCConnectors ----------------------------
(* An instance of Connectors for TLC *)
EXTENDS ConnectorsSafety, TLC

OneWorkspace == [r \in Runs |-> "w"]
=============================================================================
