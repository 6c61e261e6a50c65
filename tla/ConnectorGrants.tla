--------------------------- MODULE ConnectorGrants ---------------------------
(***************************************************************************)
(* The operator's read grants (connectors/grants.rs), as functions of the  *)
(* struct Grants: the registered grants, the active read of each           *)
(* connection and the fences of cancelled runs.  None of it is persisted.  *)
(*                                                                         *)
(* A context is what the native runtime hands over with a read; device,    *)
(* origins and consent are fixed per grant and left out, since a context   *)
(* that disagrees on them is refused like one for another connection.  The *)
(* token that cancels a read is cancelled exactly when another party       *)
(* removes the read from the active ones.                                  *)
(***************************************************************************)
EXTENDS Naturals, FiniteSets, Absent

CONSTANTS
    Grants, Connections, Reads, Runs,
    WorkspaceOf,    \* the workspace of each run
    Operations,     \* read operations, each allowed by one scope
    GrantSpan,      \* MAX_GRANT_SECONDS
    ReadSpan,       \* MAX_READ_SECONDS
    MaxGrants,      \* MAX_GRANTS
    MaxCancelled    \* MAX_CANCELLED_RUNS

ASSUME GrantAssumption ==
    /\ GrantSpan \in Nat \ {0} /\ ReadSpan \in 1..GrantSpan
    /\ MaxGrants \in Nat \ {0} /\ MaxCancelled \in Nat
    /\ Nil \notin Grants \cup Connections \cup Reads \cup Runs

NoGrants ==
    [items |-> [g \in Grants |-> Nil],
     active |-> [c \in Connections |-> Nil],
     cancelled |-> [r \in Runs |-> 0]]

Registered(s) == {g \in Grants : s.items[g] # Nil}
Fenced(s) == {r \in Runs : s.cancelled[r] # 0}
GrantsOf(s, w) == {g \in Registered(s) : s.items[g].workspace = w}

Revoked(s, ids) ==
    [s EXCEPT
        !.items = [g \in Grants |-> IF g \in ids THEN Nil ELSE @[g]],
        !.active = [c \in Connections |->
            IF @[c] # Nil /\ @[c].context.grant \in ids THEN Nil ELSE @[c]]]

\* Variant: the account's grants survive its reads.
RevokedReadsOnly(s, c) == [s EXCEPT !.active[c] = Nil]
RevokedConnection(s, c) ==
    [s EXCEPT
        !.items = [g \in Grants |->
            IF @[g] # Nil /\ @[g].connection = c THEN Nil ELSE @[g]],
        !.active[c] = Nil]

\* Every operation first drops the grants, fences and reads that expired.
Expired(s, now) ==
    LET late == {g \in Registered(s) : s.items[g].expires <= now}
    IN  [Revoked(s, late) EXCEPT
            !.cancelled = [r \in Runs |-> IF @[r] > now THEN @[r] ELSE 0],
            !.active = [c \in Connections |->
                IF @[c] # Nil /\ @[c].context.expires <= now THEN Nil ELSE @[c]]]

Registrable(s, g, grant, scopes, now) ==
    /\ s.items[g] = Nil /\ Cardinality(Registered(s)) < MaxGrants
    /\ grant.expires > now /\ grant.expires <= now + GrantSpan
    /\ grant.operations # {} /\ grant.operations \subseteq scopes

Allows(s, context, now) ==
    /\ context.grant \in Registered(s)
    /\ LET grant == s.items[context.grant]
       IN  /\ grant.workspace = WorkspaceOf[context.run]
           /\ grant.connection = context.connection
           /\ context.operation \in grant.operations
           /\ context.expires <= grant.expires
    /\ now < context.expires /\ context.expires <= now + ReadSpan
    /\ context.run \notin Fenced(s)

\* The read d still is the active one of its connection.
Owns(s, d, context) ==
    /\ s.active[context.connection] # Nil
    /\ s.active[context.connection].id = d

AllowsRead(s, d, context, now) == Allows(s, context, now) /\ Owns(s, d, context)

Begun(s, d, context) ==
    [s EXCEPT !.active[context.connection] = [id |-> d, context |-> context]]

Finished(s, d, context) ==
    IF Owns(s, d, context) THEN [s EXCEPT !.active[context.connection] = Nil] ELSE s

RunFenced(s, r, now) ==
    [s EXCEPT
        !.cancelled[r] = now + GrantSpan,
        !.active = [c \in Connections |->
            IF @[c] # Nil /\ @[c].context.run = r THEN Nil ELSE @[c]]]

\* With every fence in use the workspace loses its grants instead.
RunCancelled(s, r, now) ==
    IF Cardinality(Fenced(s)) >= MaxCancelled
    THEN Revoked(s, GrantsOf(s, WorkspaceOf[r]))
    ELSE RunFenced(s, r, now)
=============================================================================
