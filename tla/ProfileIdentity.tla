--------------------------- MODULE ProfileIdentity ---------------------------
(***************************************************************************)
(* The identity of the browser's website data (browser/profile.rs): a file *)
(* that is read, or made once, by loads that may run at the same time, fail *)
(* at any step, be killed, or meet a power failure, which undoes a rename  *)
(* whose directory was not synced.                                         *)
(***************************************************************************)
EXTENDS Naturals, FiniteSets, Absent

CONSTANTS Loads    \* the loads that are made, each once

\* A load names the identity it draws, which is never what no load draws.
ASSUME LoadsAssumption == 0 \notin Loads \cup {Nil} /\ Nil \notin Loads

VARIABLES load,      \* where each load is
          file,      \* profile-id: Nil, or the identity in it, and if it is durable
          given,     \* the identities that loads returned
          outage     \* the power failed

profileVars == <<load, file, given, outage>>

NoFile == [id |-> Nil, synced |-> FALSE]
Wrong == 0   \* what is not a canonical identity of one's own in a private file

LoadAt(l, step) == load[l] = step
LoadGoes(l, step) == load' = [load EXCEPT ![l] = step]

\* Whatever an error leaves behind, the load removes its temporary file and
\* returns no identity; a kill leaves the temporary file, which no load opens.
LoadFails(l) ==
    /\ load[l] \notin {"none", "over"} /\ LoadGoes(l, "over")
    /\ UNCHANGED <<file, given, outage>>

\* The directory is made or is there, private and one's own.
BeginLoad(l) ==
    /\ LoadAt(l, "none") /\ LoadGoes(l, "looking")
    /\ UNCHANGED <<file, given, outage>>

LookForFile(l) ==
    /\ LoadAt(l, "looking")
    /\ LoadGoes(l, IF file.id = Nil THEN "writing" ELSE "reading")
    /\ UNCHANGED <<file, given, outage>>

\* An existing file is read as it is: it is never repaired, and never synced.
ReadExisting(l) ==
    /\ LoadAt(l, "reading") /\ LoadGoes(l, "over")
    /\ given' = IF file.id \in {Nil, Wrong} THEN given
                ELSE given \cup {[id |-> file.id, durable |-> file.synced]}
    /\ UNCHANGED <<file, outage>>

\* A new identity, named by the load that drew it, in a temporary file of a new
\* name, is written and synced.
WriteTemporary(l) ==
    /\ LoadAt(l, "writing") /\ LoadGoes(l, "renaming")
    /\ UNCHANGED <<file, given, outage>>

\* Variant: the last rename wins.
PutOver(l) ==
    /\ LoadAt(l, "renaming") /\ LoadGoes(l, "syncing")
    /\ file' = [id |-> l, synced |-> FALSE]
    /\ UNCHANGED <<given, outage>>

\* RENAME_EXCL: the first wins, and the others read what it left.
PutInPlace(l) ==
    /\ LoadAt(l, "renaming")
    /\ IF file.id = Nil
       THEN file' = [id |-> l, synced |-> FALSE] /\ LoadGoes(l, "syncing")
       ELSE UNCHANGED file /\ LoadGoes(l, "reading")
    /\ UNCHANGED <<given, outage>>

SyncDirectory(l) ==
    /\ LoadAt(l, "syncing") /\ LoadGoes(l, "over")
    /\ file' = [file EXCEPT !.synced = @ \/ file.id # Nil]
    /\ given' = given \cup {[id |-> l, durable |-> file'.synced]}
    /\ UNCHANGED outage

\* The directory may have reached the disk without a sync.
PowerFails ==
    /\ ~outage /\ outage' = TRUE
    /\ load' = [l \in Loads |-> IF load[l] = "none" THEN "none" ELSE "over"]
    /\ file' \in {file} \cup {IF file.synced THEN file ELSE NoFile}
    /\ UNCHANGED given

\* Someone changes the file, or makes it public.
Spoil ==
    /\ file.id \notin {Nil, Wrong} /\ file' = [file EXCEPT !.id = Wrong]
    /\ UNCHANGED <<load, given, outage>>

ProfileInit ==
    /\ load = [l \in Loads |-> "none"] /\ file = NoFile /\ given = {} /\ outage = FALSE

ProfileNext ==
    \/ \E l \in Loads : \/ BeginLoad(l) \/ LookForFile(l) \/ ReadExisting(l) \/ WriteTemporary(l)
                        \/ PutInPlace(l) \/ SyncDirectory(l) \/ LoadFails(l)
    \/ PowerFails \/ Spoil

ProfileSpec == ProfileInit /\ [][ProfileNext]_profileVars

-----------------------------------------------------------------------------
(* Properties *)

\* Every load that succeeds returns the same identity, for as long as the
\* computer runs; and over a power failure too, of what was returned once it
\* was durable.  An identity that was read before its writer synced the
\* directory, or after that sync failed, may be lost with the power.
SameProfile ==
    \A x, y \in given : (~outage \/ (x.durable /\ y.durable)) => x.id = y.id
=============================================================================
