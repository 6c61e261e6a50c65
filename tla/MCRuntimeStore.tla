--------------------------- MODULE MCRuntimeStore ---------------------------
(* Instances of RuntimeStore for TLC: cron tables, and symmetric identifiers *)
EXTENDS RuntimeStoreSafety, TLC

CronNone == [s \in Schedules |-> {}]
CronSome == [s \in Schedules |-> {1, 2}]

\* Identifiers that no definition tells apart.
Symmetry ==
    Permutations(Workspaces) \cup Permutations(Grants)
        \cup Permutations(Runs) \cup Permutations(Proposals)
=============================================================================
