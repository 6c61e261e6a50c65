----------------------------- MODULE HostProofs -----------------------------
(***************************************************************************)
(* Theorems about parts of the host that stand alone.                      *)
(*                                                                         *)
(* CompleteUnlessTruncated of ReadScan, for accounts of any size, any      *)
(* limits and any paging by the provider: the entries handled are always   *)
(* the first ones listed, and a page without a token is the last.          *)
(*                                                                         *)
(* SameProfile of ProfileIdentity, for any loads, in any number: an        *)
(* identity that was given out pins the file to itself, so no other load   *)
(* can put its own in place.                                               *)
(*                                                                         *)
(* ProviderTrusted and RuntimeFollowsProvider of ProviderConfig, for any   *)
(* number of commands, endpoints, configurations and restarts: the gate is *)
(* held from the first step that counts on it to the last, the provider    *)
(* does not change while it is held, and an epoch names one provider.      *)
(*                                                                         *)
(* BrowserConsistent and LateForgotten of OwnedBrowser, for any addresses  *)
(* and any number of windows: a window is built once per generation, what  *)
(* is queued for it is dropped with it, and what belongs to an earlier     *)
(* browser changes nothing of the one that is open.                        *)
(***************************************************************************)
EXTENDS ProviderConfigSafety, ReadScan, OwnedBrowserSafety, ProfileIdentity, TLAPS

ScanTypeOK ==
    /\ size \in Nat /\ inside \subseteq 1..size
    /\ page \in Nat /\ listed \in 0..size /\ more \in BOOLEAN
    /\ queue \in Seq(Nat) /\ Len(queue) <= listed /\ (page = 0 => listed = 0)
    /\ scanned \in Nat /\ asked \in Nat /\ truncated \in BOOLEAN

\* What waits to be fetched is the end of what was listed, in order.
QueueIsTail ==
    \A i \in 1..Len(queue) : queue[i] = (listed - Len(queue)) + i

\* Everything before it has been looked at; a scan that was cut short dropped
\* what waited.
HandledPrefix ==
    ~(outcome = "done" /\ truncated) => items = (1..(listed - Len(queue))) \cap inside

\* Nothing follows a page without a token.
LastPage == page > 0 /\ ~more => listed = size

DoneIsAll == outcome = "done" /\ ~truncated => listed = size /\ queue = <<>>

ScanInvariant == ScanTypeOK /\ QueueIsTail /\ HandledPrefix /\ LastPage /\ DoneIsAll

\* A page whose entries were handled adds them to the prefix.
LEMMA PrefixGrows ==
    ASSUME NEW m \in Nat, NEW k \in Nat, NEW S
    PROVE  ((1..m) \cap S) \cup (((m + 1)..(m + k)) \cap S) = (1..(m + k)) \cap S
OBVIOUS

LEMMA ScanStarts == ScanInit => ScanInvariant
<1> SUFFICES ASSUME ScanInit PROVE ScanInvariant
    OBVIOUS
<1>1. Len(queue) = 0 /\ queue \in Seq(Nat) /\ size \in Nat
    BY ScanAssumption DEF ScanInit
<1>2. ScanTypeOK
    <2>1. asked \in Nat
        BY ScanAssumption DEF ScanInit
    <2>2. inside \subseteq 1..size /\ 0 \in 0..size
        BY <1>1 DEF ScanInit
    <2>3. page = 0 /\ listed = 0 /\ scanned = 0
        BY DEF ScanInit
    <2>4. more \in BOOLEAN /\ truncated \in BOOLEAN
        BY DEF ScanInit
    <2> QED
        BY <1>1, <2>1, <2>2, <2>3, <2>4 DEF ScanTypeOK
<1>3. HandledPrefix
    BY <1>1 DEF ScanInit, HandledPrefix
<1> QED
    BY <1>1, <1>2, <1>3 DEF ScanInit, ScanInvariant, QueueIsTail, LastPage, DoneIsAll

\* What listing a page does, whoever asked for it
LEMMA ListingPage ==
    ASSUME ScanInvariant, NEW k \in 0..MaxItems, NEW token \in BOOLEAN, Lists(k, token)
    PROVE  /\ k \in Nat /\ page' \in Nat /\ page' > 0
           /\ listed' = listed + k /\ listed' \in 0..size /\ more' = token
           /\ ~token => listed' = size
           /\ Len(queue) = 0 /\ queue = <<>> /\ outcome = "scanning"
<1>1. k \in Nat
    BY ScanAssumption
<1> QED
    BY <1>1 DEF Lists, ScanInvariant, ScanTypeOK

LEMMA CalendarKeeps ==
    ASSUME ScanInvariant, NEW k \in 0..MaxItems, NEW token \in BOOLEAN, CalendarPage(k, token)
    PROVE  ScanInvariant'
<1>1. /\ k \in Nat /\ page' \in Nat /\ page' > 0
      /\ listed' = listed + k /\ listed' \in 0..size /\ more' = token
      /\ ~token => listed' = size
      /\ Len(queue) = 0 /\ queue = <<>> /\ outcome = "scanning"
    BY ListingPage DEF CalendarPage
<1>2. UNCHANGED <<kind, size, inside, asked, queue>> /\ scanned' = scanned + k
    BY DEF CalendarPage, account
<1>3. truncated' \in BOOLEAN /\ (outcome' = "done" /\ ~truncated' => ~token)
    BY <1>1 DEF CalendarPage, EndOfPage, ScanInvariant, ScanTypeOK
<1>4. ScanTypeOK'
    BY <1>1, <1>2, <1>3 DEF ScanInvariant, ScanTypeOK
<1>5. HandledPrefix'
    <2>1. items' = ((1..listed) \cap inside) \cup (((listed + 1)..(listed + k)) \cap inside)
        BY <1>1 DEF CalendarPage, ScanInvariant, ScanTypeOK, HandledPrefix
    <2>2. items' = (1..(listed + k)) \cap inside
        BY <1>1, <2>1, PrefixGrows DEF ScanInvariant, ScanTypeOK
    <2> QED
        BY <1>1, <1>2, <2>2 DEF HandledPrefix, ScanInvariant, ScanTypeOK
<1> QED
    BY <1>1, <1>2, <1>3, <1>4, <1>5 DEF ScanInvariant, QueueIsTail, LastPage, DoneIsAll

LEMMA GmailListingKeeps ==
    ASSUME ScanInvariant, NEW k \in 0..MaxItems, NEW token \in BOOLEAN, GmailPage(k, token)
    PROVE  ScanInvariant'
<1>1. /\ k \in Nat /\ page' \in Nat /\ page' > 0
      /\ listed' = listed + k /\ listed' \in 0..size /\ more' = token
      /\ ~token => listed' = size
      /\ Len(queue) = 0 /\ queue = <<>> /\ outcome = "scanning"
    BY ListingPage DEF GmailPage
<1>2. UNCHANGED <<kind, size, inside, asked, scanned, items>>
    BY DEF GmailPage, account
<1>3. queue' = [i \in 1..k |-> listed + i]
    BY DEF GmailPage
<1>4. queue' \in Seq(Nat) /\ Len(queue') = k
    BY <1>1, <1>3 DEF ScanInvariant, ScanTypeOK
<1>5. truncated' \in BOOLEAN /\ (outcome' = "done" /\ ~truncated' => ~token /\ k = 0)
    BY <1>1 DEF GmailPage, EndOfPage, ScanInvariant, ScanTypeOK
<1>6. k = 0 => queue' = <<>>
    BY <1>4
<1>7. ScanTypeOK'
    BY <1>1, <1>2, <1>4, <1>5 DEF ScanInvariant, ScanTypeOK
<1>8. QueueIsTail' /\ HandledPrefix'
    BY <1>1, <1>2, <1>3, <1>4 DEF ScanInvariant, ScanTypeOK, QueueIsTail, HandledPrefix
<1> QED
    BY <1>1, <1>2, <1>5, <1>6, <1>7, <1>8 DEF ScanInvariant, LastPage, DoneIsAll

LEMMA GmailMessageKeeps ==
    ASSUME ScanInvariant, GmailMessage
    PROVE  ScanInvariant'
<1> DEFINE done == listed - Len(queue)
<1>1. UNCHANGED <<kind, size, inside, asked, page, listed, more>> /\ scanned' = scanned + 1
    BY DEF GmailMessage, account
<1>2. queue # <<>> /\ queue \in Seq(Nat) /\ Len(queue) \in Nat \ {0}
    BY DEF GmailMessage, ScanInvariant, ScanTypeOK
<1>3. /\ Tail(queue) \in Seq(Nat) /\ Len(Tail(queue)) = Len(queue) - 1
      /\ \A i \in 1..(Len(queue) - 1) : Tail(queue)[i] = queue[i + 1]
    BY <1>2
<1>4. done \in Nat /\ Head(queue) = done + 1
    BY <1>2 DEF ScanInvariant, ScanTypeOK, QueueIsTail
<1>5. items' = (1..(done + 1)) \cap inside
    <2>1. items' = ((1..done) \cap inside) \cup (((done + 1)..(done + 1)) \cap inside)
        BY <1>4 DEF GmailMessage, ScanInvariant, HandledPrefix
    <2> QED
        BY <1>4, <2>1, PrefixGrows
<1>6. truncated' \in BOOLEAN
    BY DEF GmailMessage, LeftOut, EndOfPage, ScanInvariant, ScanTypeOK
<1>7. queue' = <<>> \/ queue' = Tail(queue)
    BY DEF GmailMessage
<1>8. page > 0
    BY <1>2 DEF ScanInvariant, ScanTypeOK
<1>9. queue' \in Seq(Nat) /\ (queue' = <<>> => Len(queue') = 0)
    <2>1. <<>> \in Seq(Nat) /\ Len(<<>>) = 0
        OBVIOUS
    <2> QED
        BY <1>3, <1>7, <2>1
<1>10. ScanTypeOK'
    BY <1>1, <1>2, <1>3, <1>6, <1>7, <1>9 DEF ScanInvariant, ScanTypeOK
<1>11. QueueIsTail'
    <2>1. CASE queue' = <<>>
        BY <1>9, <2>1 DEF QueueIsTail
    <2>2. CASE queue' = Tail(queue)
        <3>1. /\ Len(queue') = Len(queue) - 1 /\ listed' = listed /\ listed \in Nat
              /\ \A i \in 1..(Len(queue) - 1) : queue'[i] = queue[i + 1]
              /\ \A i \in 1..Len(queue) : queue[i] = done + i
            BY <1>1, <1>3, <2>2 DEF ScanInvariant, ScanTypeOK, QueueIsTail
        <3>2. \A i \in 1..(Len(queue) - 1) : queue'[i] = done + (i + 1)
            BY <1>2, <3>1
        <3> QED
            BY <1>2, <1>4, <3>1, <3>2 DEF QueueIsTail
    <2> QED
        BY <1>7, <2>1, <2>2
<1>12. HandledPrefix' /\ DoneIsAll'
    <2>1. ~(outcome' = "done" /\ truncated') => queue' = Tail(queue)
        <3>1. CASE Cardinality(items') = asked
            <4>1. ~truncated' => Tail(queue) = <<>> /\ queue' = <<>>
                BY <3>1 DEF GmailMessage, LeftOut
            <4> QED
                BY <3>1, <4>1 DEF GmailMessage
        <3>2. CASE Cardinality(items') # asked
            BY <3>2 DEF GmailMessage
        <3> QED
            BY <3>1, <3>2
    <2>2. outcome' = "done" /\ ~truncated' => queue' = <<>> /\ ~more
        <3>1. CASE Cardinality(items') = asked
            BY <3>1 DEF GmailMessage, LeftOut
        <3>2. CASE Cardinality(items') # asked
            BY <3>2 DEF GmailMessage, EndOfPage
        <3> QED
            BY <3>1, <3>2
    <2>3. HandledPrefix'
        BY <1>1, <1>2, <1>3, <1>4, <1>5, <2>1 DEF HandledPrefix, ScanInvariant, ScanTypeOK
    <2>4. DoneIsAll'
        BY <1>1, <1>8, <2>2 DEF DoneIsAll, LastPage, ScanInvariant
    <2> QED
        BY <2>3, <2>4
<1>13. LastPage'
    BY <1>1 DEF ScanInvariant, LastPage
<1> QED
    BY <1>10, <1>11, <1>12, <1>13 DEF ScanInvariant

LEMMA ScanKeeps ==
    ASSUME ScanInvariant, [ScanNext]_scanVars
    PROVE  ScanInvariant'
<1>1. CASE UNCHANGED scanVars
    BY <1>1 DEF scanVars, account, ScanInvariant, ScanTypeOK, QueueIsTail, HandledPrefix,
       LastPage, DoneIsAll
<1>2. CASE Fails
    BY <1>2 DEF Fails, account, ScanInvariant, ScanTypeOK, QueueIsTail, HandledPrefix,
       LastPage, DoneIsAll
<1> QED
    BY <1>1, <1>2, CalendarKeeps, GmailListingKeeps, GmailMessageKeeps DEF ScanNext

(***************************************************************************)
(* Whatever the account holds, however the provider cuts it into pages and *)
(* wherever a limit or a vanished message stops the scan, a result that    *)
(* does not call itself truncated is the whole (reads.rs:434-534,          *)
(* 585-661).                                                               *)
(***************************************************************************)
THEOREM ScansTellTheirLimits == ScanSpec => []CompleteUnlessTruncated
<1>1. ScanInvariant => CompleteUnlessTruncated
    <2> SUFFICES ASSUME ScanInvariant, outcome = "done", ~truncated PROVE items = inside
        BY DEF CompleteUnlessTruncated
    <2>1. listed = size /\ Len(queue) = 0 /\ size \in Nat /\ inside \subseteq 1..size
        BY DEF ScanInvariant, DoneIsAll, ScanTypeOK
    <2>2. items = (1..size) \cap inside
        BY <2>1 DEF ScanInvariant, HandledPrefix
    <2> QED
        BY <2>1, <2>2
<1> QED
    BY ScanStarts, ScanKeeps, <1>1, PTL DEF ScanSpec
-----------------------------------------------------------------------------
Steps == {"none", "looking", "reading", "writing", "renaming", "syncing", "over"}

ProfileTypeOK ==
    /\ load \in [Loads -> Steps]
    /\ file \in [id : Loads \cup {Nil, Wrong}, synced : BOOLEAN]
    /\ given \subseteq [id : Loads, durable : BOOLEAN]
    /\ outage \in BOOLEAN

\* What the property is about: everything returned, and after a power failure
\* what was durable when it was returned.
Binding(x) == ~outage \/ x.durable

\* The file a binding identity came from is there, unless someone spoiled it.
FilePinned == \A x \in given : Binding(x) => file.id \in {x.id, Wrong}

\* What was durable cannot be undone by the power.
DurableSynced == /\ \A x \in given : x.durable => file.synced
                 /\ file.id = Nil => ~file.synced

\* A load that put its identity in place is the only one, and agrees with what
\* was returned meanwhile.
WriterAlone ==
    \A l \in Loads : load[l] = "syncing" =>
        /\ file.id \in {l, Wrong}
        /\ \A k \in Loads : load[k] = "syncing" => k = l
        /\ \A x \in given : Binding(x) => x.id = l

ProfileInvariant ==
    ProfileTypeOK /\ FilePinned /\ DurableSynced /\ WriterAlone /\ SameProfile

USE DEF Wrong

LEMMA ProfileStarts == ProfileInit => ProfileInvariant
<1> SUFFICES ASSUME ProfileInit PROVE ProfileInvariant
    OBVIOUS
<1>1. ProfileTypeOK
    BY DEF ProfileInit, ProfileTypeOK, NoFile, Steps
<1>2. FilePinned /\ SameProfile
    BY DEF ProfileInit, FilePinned, SameProfile
<1>3. DurableSynced
    BY DEF ProfileInit, DurableSynced, NoFile
<1>4. WriterAlone
    BY DEF ProfileInit, WriterAlone
<1> QED
    BY <1>1, <1>2, <1>3, <1>4 DEF ProfileInvariant

\* A load that neither puts its identity in place nor returns one
LEMMA LoadMoves ==
    ASSUME ProfileInvariant, NEW l \in Loads, NEW step \in Steps \ {"syncing"},
           LoadGoes(l, step), UNCHANGED <<file, given, outage>>
    PROVE  ProfileInvariant'
<1>1. load' \in [Loads -> Steps] /\ \A k \in Loads : load'[k] = "syncing" => load[k] = "syncing"
    BY DEF ProfileInvariant, ProfileTypeOK, LoadGoes
<1>2. ProfileTypeOK'
    BY <1>1 DEF ProfileInvariant, ProfileTypeOK
<1>3. WriterAlone'
    BY <1>1 DEF ProfileInvariant, WriterAlone, Binding
<1> QED
    BY <1>2, <1>3 DEF ProfileInvariant, FilePinned, DurableSynced, SameProfile, Binding

LEMMA ReadingKeeps ==
    ASSUME ProfileInvariant, NEW l \in Loads, ReadExisting(l)
    PROVE  ProfileInvariant'
<1>1. load' \in [Loads -> Steps] /\ \A k \in Loads : load'[k] = "syncing" => load[k] = "syncing"
    BY DEF ProfileInvariant, ProfileTypeOK, ReadExisting, LoadGoes, Steps
<1>2. file' = file /\ outage' = outage
    BY DEF ReadExisting
<1>3. CASE file.id \in {Nil, Wrong}
    <2>1. given' = given
        BY <1>3 DEF ReadExisting
    <2> QED
        BY <1>1, <1>2, <2>1 DEF ProfileInvariant, ProfileTypeOK, FilePinned, DurableSynced,
           WriterAlone, SameProfile, Binding
<1>4. CASE file.id \notin {Nil, Wrong}
    <2> DEFINE read == [id |-> file.id, durable |-> file.synced]
    <2>1. given' = given \cup {read}
        BY <1>4 DEF ReadExisting
    <2>2. /\ read.id = file.id /\ read.durable = file.synced
          /\ read \in [id : Loads, durable : BOOLEAN]
        BY <1>4 DEF ProfileInvariant, ProfileTypeOK
    <2> HIDE DEF read
    <2>3. \A x \in given : Binding(x) => x.id = read.id
        BY <1>4, <2>2 DEF ProfileInvariant, FilePinned
    <2>4. ProfileTypeOK' /\ FilePinned' /\ DurableSynced' /\ SameProfile'
        BY <1>1, <1>2, <2>1, <2>2, <2>3
           DEF ProfileInvariant, ProfileTypeOK, FilePinned, DurableSynced, SameProfile, Binding
    <2>5. WriterAlone'
        BY <1>1, <1>2, <1>4, <2>1, <2>2 DEF ProfileInvariant, WriterAlone, Binding
    <2> QED
        BY <2>4, <2>5 DEF ProfileInvariant
<1> QED
    BY <1>3, <1>4

LEMMA PuttingKeeps ==
    ASSUME ProfileInvariant, NEW l \in Loads, PutInPlace(l)
    PROVE  ProfileInvariant'
<1>1. CASE file.id # Nil
    BY <1>1, LoadMoves DEF PutInPlace, Steps
<1>2. CASE file.id = Nil
    <2>1. file' = [id |-> l, synced |-> FALSE] /\ given' = given /\ outage' = outage
        BY <1>2 DEF PutInPlace
    <2>2. load' = [load EXCEPT ![l] = "syncing"]
        BY <1>2 DEF PutInPlace, LoadGoes
    <2>3. \A x \in given : ~Binding(x)
        BY <1>2, LoadsAssumption DEF ProfileInvariant, ProfileTypeOK, FilePinned, DurableSynced
    <2>4. \A k \in Loads : load'[k] = "syncing" => k = l
        BY <1>2, <2>2, LoadsAssumption DEF ProfileInvariant, ProfileTypeOK, WriterAlone
    <2> QED
        BY <2>1, <2>2, <2>3, <2>4
           DEF ProfileInvariant, ProfileTypeOK, FilePinned, DurableSynced, WriterAlone,
               SameProfile, Binding, Steps
<1> QED
    BY <1>1, <1>2

LEMMA SyncKeeps ==
    ASSUME ProfileInvariant, NEW l \in Loads, SyncDirectory(l)
    PROVE  ProfileInvariant'
<1>1. file.id \in {l, Wrong} /\ file.id # Nil
    BY LoadsAssumption DEF ProfileInvariant, WriterAlone, SyncDirectory, LoadAt
<1>2. file' = [file EXCEPT !.synced = TRUE]
    BY <1>1 DEF SyncDirectory
<1>3. file'.id = file.id /\ file'.synced = TRUE
    BY <1>2 DEF ProfileInvariant, ProfileTypeOK
<1> DEFINE own == [id |-> l, durable |-> TRUE]
<1>4. given' = given \cup {own} /\ outage' = outage
    BY <1>3 DEF SyncDirectory
<1>5. own.id = l /\ own.durable = TRUE /\ own \in [id : Loads, durable : BOOLEAN]
    OBVIOUS
<1> HIDE DEF own
<1>6. \A k \in Loads : load'[k] # "syncing"
    BY DEF ProfileInvariant, ProfileTypeOK, WriterAlone, SyncDirectory, LoadAt, LoadGoes
<1>7. \A x \in given : Binding(x) => x.id = l
    BY DEF ProfileInvariant, WriterAlone, SyncDirectory, LoadAt
<1>8. ProfileTypeOK'
    BY <1>2, <1>4, <1>5 DEF ProfileInvariant, ProfileTypeOK, SyncDirectory, LoadGoes, Steps
<1> QED
    BY <1>1, <1>3, <1>4, <1>5, <1>6, <1>7, <1>8
       DEF ProfileInvariant, FilePinned, DurableSynced, WriterAlone, SameProfile, Binding

LEMMA OutageKeeps ==
    ASSUME ProfileInvariant, PowerFails
    PROVE  ProfileInvariant'
<1>1. outage' = TRUE /\ given' = given /\ (file' = file \/ (~file.synced /\ file' = NoFile))
    BY DEF PowerFails
<1>2. load' \in [Loads -> Steps] /\ \A l \in Loads : load'[l] # "syncing"
    BY DEF PowerFails, Steps
<1>3. file' = file \/ \A x \in given : ~x.durable
    BY <1>1 DEF ProfileInvariant, DurableSynced
<1>4. ProfileTypeOK'
    <2>1. NoFile \in [id : Loads \cup {Nil, Wrong}, synced : BOOLEAN]
        BY DEF NoFile
    <2>2. file' \in [id : Loads \cup {Nil, Wrong}, synced : BOOLEAN]
        BY <1>1, <2>1 DEF ProfileInvariant, ProfileTypeOK
    <2> QED
        BY <1>1, <1>2, <2>2 DEF ProfileInvariant, ProfileTypeOK
<1> QED
    BY <1>1, <1>2, <1>3, <1>4
       DEF ProfileInvariant, FilePinned, DurableSynced, WriterAlone, SameProfile, Binding, NoFile

LEMMA SpoilKeeps ==
    ASSUME ProfileInvariant, Spoil
    PROVE  ProfileInvariant'
<1>1. file' = [file EXCEPT !.id = Wrong] /\ UNCHANGED <<load, given, outage>>
    BY DEF Spoil
<1>2. file'.id = Wrong /\ file'.synced = file.synced /\ ProfileTypeOK'
    BY <1>1 DEF ProfileInvariant, ProfileTypeOK
<1>3. Wrong # Nil
    BY LoadsAssumption
<1> QED
    BY <1>1, <1>2, <1>3
       DEF ProfileInvariant, FilePinned, DurableSynced, WriterAlone, SameProfile, Binding

LEMMA ProfileKeeps ==
    ASSUME ProfileInvariant, [ProfileNext]_profileVars
    PROVE  ProfileInvariant'
<1>1. CASE UNCHANGED profileVars
    BY <1>1 DEF profileVars, ProfileInvariant, ProfileTypeOK, FilePinned, DurableSynced,
       WriterAlone, SameProfile, Binding
<1>2. ASSUME NEW l \in Loads,
             BeginLoad(l) \/ LookForFile(l) \/ WriteTemporary(l) \/ LoadFails(l)
      PROVE  ProfileInvariant'
    BY <1>2, LoadMoves DEF BeginLoad, LookForFile, WriteTemporary, LoadFails, Steps
<1> QED
    BY <1>1, <1>2, ReadingKeeps, PuttingKeeps, SyncKeeps, OutageKeeps, SpoilKeeps
       DEF ProfileNext

(***************************************************************************)
(* However many loads run at once, fail or are killed, and wherever the    *)
(* power fails, the loads that succeed return one identity                 *)
(* (browser/profile.rs:81-102).                                            *)
(***************************************************************************)
THEOREM OneIdentity == ProfileSpec => []SameProfile
<1>1. ProfileInvariant => SameProfile
    BY DEF ProfileInvariant
<1> QED
    BY ProfileStarts, ProfileKeeps, <1>1, PTL DEF ProfileSpec

-----------------------------------------------------------------------------
(* The provider                                                            *)

Places == {"idle", "clearing", "checking", "discovering", "syncing", "sending", "accepting",
           "launching"}
ProviderRecords == [generation : Nat, site : Sites, key : Nat \cup {Nil}, verified : BOOLEAN]
Configurations == [generation : Nat, site : Sites, key : Nat \cup {Nil}, epoch : Nat]
Approvals == [generation : Nat, site : Sites, key : Nat \cup {Nil}]
SavedRecords ==
    [epoch : Nat, modelGeneration : Nat \cup {Nil}, background : BOOLEAN,
     catalog : Nat \cup {Nil}, state : {"starting", "needsModel", "ready", "error"}]
CoreRecords ==
    [check : Tasks \cup {Nil}, discovery : Tasks \cup {Nil}, synced : Nat \cup {Nil},
     controller : Nat]
TaskRecords ==
    [at : Places, kind : {"none", "configure", "check", "discovery", "message", "start"},
     generation : Nat, cancelled : BOOLEAN,
     config : ProviderRecords \cup Configurations \cup {Nil}]
RuntimeRecords ==
    [launch : Nat, launches : Nat, installed : Configurations \cup {Nil},
     scope : (Sites \X Nat) \cup {Nil}, approved : SUBSET Approvals]

ProviderTypeOK ==
    /\ provider \in ProviderRecords /\ keys \subseteq Nat
    /\ saved \in SavedRecords /\ core \in CoreRecords
    /\ task \in [Tasks -> TaskRecords] /\ gate \in Tasks \cup {Nil}
    /\ runtime \in RuntimeRecords
    /\ latest \in Nat /\ proved \in Nat /\ acked \in Nat /\ torn \subseteq Nat

\* What is of generation g and of the provider, if that is g still
Of(x) == /\ x.generation <= provider.generation
         /\ x.generation = provider.generation => x.site = provider.site /\ x.key = provider.key
\* A configuration has the epoch of its provider, unless that was torn.
Epochal(x) == x.generation \notin torn => x.epoch = x.generation

\* The stored provider
StoredOK ==
    /\ ProviderTrusted /\ acked <= provider.generation
    /\ \A g \in torn : g <= provider.generation
    /\ provider.generation \notin torn => saved.epoch = provider.generation

\* The gate is held from the first step that counts on it to the last, and
\* while it is held the provider stays what it is.
HoldsGate(t) == \/ task[t].at \in {"clearing", "sending", "accepting", "launching"}
                \/ task[t].at = "syncing" /\ task[t].kind = "start"
CommandOK(t) ==
    LET k == task[t]
    IN /\ HoldsGate(t) <=> gate = t
       /\ k.at = "clearing" => k.generation = provider.generation
       /\ k.at = "checking" => /\ k.kind = "check"
                               /\ k.config \in ProviderRecords /\ Of(k.config)
                               /\ k.config.generation = k.generation
       /\ k.at = "launching" => k.kind = "start"
       /\ k.at \in {"sending", "accepting"} =>
             /\ k.config \in Configurations /\ Of(k.config) /\ Epochal(k.config)
             /\ k.config.generation = provider.generation
       /\ k.at = "accepting" /\ runtime.installed # Nil =>
             runtime.installed.generation = provider.generation

\* The runtime works under a configuration of the provider that was acknowledged
\* last or of a later one, as long as its process lives.
InstalledOK ==
    /\ runtime.launch # 0 => core.controller = runtime.launch
    /\ runtime.launch = 0 => runtime.installed = Nil
    /\ runtime.installed # Nil =>
          /\ acked <= runtime.installed.generation
          /\ Of(runtime.installed) /\ Epochal(runtime.installed)
          /\ runtime.scope = <<runtime.installed.site, runtime.installed.epoch>>
          /\ saved.state = "ready" /\ ControllerAlive /\ provider.generation \notin torn =>
                runtime.installed.generation = provider.generation

\* What is approved is of the authorized scope, unless its provider was torn.
ApprovedOK ==
    \A a \in runtime.approved :
        /\ Of(a)
        /\ a.generation \notin torn => runtime.scope = <<a.site, a.generation>>
        /\ runtime.installed # Nil /\ runtime.installed.generation = a.generation =>
              a.site = runtime.installed.site /\ a.key = runtime.installed.key

ProviderRules == StoredOK /\ InstalledOK /\ ApprovedOK /\ \A t \in Tasks : CommandOK(t)

ProviderInvariant == ProviderTypeOK /\ ProviderRules

\* What a step makes of the records is a record again.
LEMMA RecordsChange ==
    /\ IdleTask \in TaskRecords
    /\ \A k \in TaskRecords, p \in Places : [k EXCEPT !.at = p] \in TaskRecords
    /\ \A k \in TaskRecords, p \in Places, c \in ProviderRecords \cup Configurations \cup {Nil} :
          [k EXCEPT !.at = p, !.config = c] \in TaskRecords
    /\ \A k \in TaskRecords : [k EXCEPT !.cancelled = TRUE] \in TaskRecords
    /\ \A s \in SavedRecords, x \in {"starting", "needsModel", "ready", "error"} :
          [s EXCEPT !.state = x] \in SavedRecords
    /\ \A s \in SavedRecords, g \in Nat : [s EXCEPT !.catalog = g] \in SavedRecords
    /\ \A s \in SavedRecords, g \in Nat, x \in {"ready", "error"} :
          [s EXCEPT !.state = x, !.modelGeneration = g] \in SavedRecords
    /\ \A s \in SavedRecords : [s EXCEPT !.background = TRUE] \in SavedRecords
    /\ \A r \in RuntimeRecords, c \in Configurations \cup {Nil} :
          [r EXCEPT !.installed = c] \in RuntimeRecords
    /\ \A r \in RuntimeRecords, n \in Nat : [r EXCEPT !.launch = n] \in RuntimeRecords
<1> USE DEF IdleTask, TaskRecords, SavedRecords, RuntimeRecords
<1>1. IdleTask \in TaskRecords
    BY DEF Places
<1>2. \A k \in TaskRecords, p \in Places : [k EXCEPT !.at = p] \in TaskRecords
    OBVIOUS
<1>3. \A k \in TaskRecords, p \in Places, c \in ProviderRecords \cup Configurations \cup {Nil} :
          [k EXCEPT !.at = p, !.config = c] \in TaskRecords
    OBVIOUS
<1>4. \A k \in TaskRecords : [k EXCEPT !.cancelled = TRUE] \in TaskRecords
    OBVIOUS
<1>5. \A s \in SavedRecords, x \in {"starting", "needsModel", "ready", "error"} :
          [s EXCEPT !.state = x] \in SavedRecords
    OBVIOUS
<1>6. \A s \in SavedRecords, g \in Nat : [s EXCEPT !.catalog = g] \in SavedRecords
    OBVIOUS
<1>7. \A s \in SavedRecords, g \in Nat, x \in {"ready", "error"} :
          [s EXCEPT !.state = x, !.modelGeneration = g] \in SavedRecords
    OBVIOUS
<1>8. \A s \in SavedRecords : [s EXCEPT !.background = TRUE] \in SavedRecords
    OBVIOUS
<1>9. \A r \in RuntimeRecords, c \in Configurations \cup {Nil} :
          [r EXCEPT !.installed = c] \in RuntimeRecords
    OBVIOUS
<1>10. \A r \in RuntimeRecords, n \in Nat : [r EXCEPT !.launch = n] \in RuntimeRecords
    OBVIOUS
<1> QED
    BY <1>1, <1>2, <1>3, <1>4, <1>5, <1>6, <1>7, <1>8, <1>9, <1>10

LEMMA TaskChanges ==
    ASSUME ProviderTypeOK, NEW t \in Tasks, NEW k \in TaskRecords
    PROVE  [task EXCEPT ![t] = k] \in [Tasks -> TaskRecords]
BY DEF ProviderTypeOK

\* A configuration of its parts, and the one the native host sends
LEMMA ConfigurationsAre ==
    ASSUME ProviderTypeOK
    PROVE  /\ Sent \in Configurations
           /\ \A c \in Configurations \cup {Nil} : ScopeOf(c) \in (Sites \X Nat) \cup {Nil}
           /\ \A c \in Configurations \cup {Nil} : Installs(c) \in RuntimeRecords
<1>1. Sent \in Configurations
    BY DEF ProviderTypeOK, Sent, Configurations, ProviderRecords, SavedRecords
<1>2. \A c \in Configurations \cup {Nil} : ScopeOf(c) \in (Sites \X Nat) \cup {Nil}
    BY DEF ScopeOf, Configurations
<1>3. ASSUME NEW c \in Configurations \cup {Nil} PROVE Installs(c) \in RuntimeRecords
    <2>1. runtime \in RuntimeRecords /\ ScopeOf(c) \in (Sites \X Nat) \cup {Nil}
        BY <1>2 DEF ProviderTypeOK
    <2>2. PICK s, a : /\ s = IF c = Nil /\ runtime.installed = Nil THEN runtime.scope
                                                                   ELSE ScopeOf(c)
                      /\ a = IF Fences(c) THEN {} ELSE runtime.approved
        OBVIOUS
    <2>3. s \in (Sites \X Nat) \cup {Nil} /\ a \in SUBSET Approvals
        BY <2>1, <2>2 DEF RuntimeRecords
    <2>4. Installs(c) = [runtime EXCEPT !.installed = c, !.scope = s, !.approved = a]
        BY <2>1, <2>2 DEF Installs, RuntimeRecords
    <2> QED
        BY <2>1, <2>3, <2>4 DEF RuntimeRecords
<1> QED
    BY <1>1, <1>2, <1>3

\* A configuration that failed part way or not leaves records behind too.
LEMMA ConfigureTypes ==
    ASSUME ProviderTypeOK, NEW t \in Tasks, NEW site \in Sites, NEW fresh \in BOOLEAN,
           NEW clear \in BOOLEAN, NEW upto \in {"torn", "kept", "done"},
           Configure(t, site, fresh, clear, upto)
    PROVE  ProviderTypeOK'
<1> USE DEF ProviderTypeOK
<1>1. PICK new : new = Configured(site, fresh, clear)
    OBVIOUS
<1>2. new \in ProviderRecords /\ new.generation \in Nat
    BY <1>1 DEF Configured, ProviderRecords
<1>3. provider' \in ProviderRecords /\ latest' \in Nat /\ proved' \in Nat /\ acked' \in Nat
    BY <1>1, <1>2 DEF Configure
<1>4. new.key \in Nat \cup {Nil} /\ (fresh => new.key = new.generation)
    BY <1>1, <1>2 DEF ProviderRecords, Configured
<1>5. keys' = (keys \cup (IF fresh THEN {new.key} ELSE {})) \ Removed(new, upto)
    BY <1>1 DEF Configure
<1>6. keys' \subseteq Nat
    BY <1>2, <1>4, <1>5
<1>7. Rotated(new.generation) \in SavedRecords
    BY <1>2 DEF Rotated, SavedRecords
<1>8. Cancelled({core.check, core.discovery}) \in [Tasks -> TaskRecords]
    BY RecordsChange DEF Cancelled
<1>9. [IdleTask EXCEPT !.at = "clearing", !.kind = "configure",
                       !.generation = new.generation] \in TaskRecords
    BY <1>2 DEF IdleTask, TaskRecords, Places
<1>10. runtime' \in RuntimeRecords
    BY DEF Configure
<1>11. CASE upto = "torn"
    <2>1. saved' = saved /\ task' = task /\ gate' = gate
        BY <1>11 DEF Configure
    <2>2. core' \in CoreRecords
        BY <1>11 DEF Configure, CoreRecords
    <2>3. torn' = torn \cup {new.generation}
        BY <1>1, <1>11 DEF Configure
    <2> QED
        BY <1>2, <1>3, <1>6, <1>10, <2>1, <2>2, <2>3
<1>12. CASE upto # "torn"
    <2>1. torn' = torn /\ saved' \in SavedRecords
        BY <1>1, <1>7, <1>12 DEF Configure
    <2>2. core' \in CoreRecords
        BY <1>12 DEF Configure, CoreRecords
    <2>3. gate' \in Tasks \cup {Nil}
        BY <1>12 DEF Configure
    <2>4. task' \in [Tasks -> TaskRecords]
        BY <1>1, <1>8, <1>9, <1>12 DEF Configure
    <2> QED
        BY <1>3, <1>6, <1>10, <2>1, <2>2, <2>3, <2>4
<1> QED
    BY <1>11, <1>12

LEMMA ProviderTypesKept ==
    ASSUME ProviderTypeOK, ProviderAssumption, NEW t \in Tasks, CommandOK(t), Step(t)
    PROVE  ProviderTypeOK'
<1> USE DEF ProviderTypeOK, providerHistory
<1>1. CASE \E site \in Sites, fresh, clear \in BOOLEAN, upto \in {"torn", "kept", "done"} :
              Configure(t, site, fresh, clear, upto)
    BY <1>1, ConfigureTypes
<1>2. CASE Clear(t)
    <2>1. runtime' \in RuntimeRecords
        BY <1>2, ConfigurationsAre DEF Clear
    <2>2. task' \in [Tasks -> TaskRecords] /\ acked' \in Nat /\ gate' \in Tasks \cup {Nil}
        BY <1>2, RecordsChange, TaskChanges DEF Clear, GateLeft, TaskRecords
    <2> QED
        BY <1>2, <2>1, <2>2 DEF Clear
<1>3. CASE ClearFails(t)
    BY <1>3, RecordsChange, TaskChanges DEF ClearFails, GateLeft
<1>4. CASE BeginCheck(t)
    <2>1. provider' \in ProviderRecords
        BY <1>4 DEF BeginCheck, ProviderRecords
    <2>2. provider.generation \in Nat
        BY DEF ProviderRecords
    <2>3. PICK p : p = provider'
        OBVIOUS
    <2>4. [IdleTask EXCEPT !.at = "checking", !.kind = "check", !.config = p,
                           !.generation = provider.generation] \in TaskRecords
        BY <2>1, <2>2, <2>3 DEF IdleTask, TaskRecords, Places
    <2>5. task' \in [Tasks -> TaskRecords]
        BY <1>4, <2>3, <2>4, TaskChanges DEF BeginCheck
    <2>6. saved' \in SavedRecords
        BY <1>4, RecordsChange DEF BeginCheck
    <2>7. core' \in CoreRecords
        BY <1>4 DEF BeginCheck, CoreRecords
    <2> QED
        BY <1>4, <2>1, <2>5, <2>6, <2>7 DEF BeginCheck
<1>5. CASE CheckStale(t)
    BY <1>5, RecordsChange, TaskChanges DEF CheckStale
<1>6. CASE CheckFails(t)
    <2>1. core' \in CoreRecords
        BY <1>6 DEF CheckFails, CoreRecords
    <2> QED
        BY <1>6, <2>1, RecordsChange, TaskChanges DEF CheckFails
<1>7. CASE CheckSucceeds(t)
    <2>1. core' \in CoreRecords
        BY <1>7 DEF CheckSucceeds, CoreRecords
    <2>2. provider' \in ProviderRecords
        BY <1>7 DEF CheckSucceeds, CommandOK, ProviderRecords
    <2>3. task[t] \in TaskRecords /\ task[t].generation \in Nat
        BY DEF TaskRecords
    <2>4. [task[t] EXCEPT !.at = "syncing", !.config = Nil] \in TaskRecords
        BY <2>3, RecordsChange DEF Places
    <2>5. task' = [task EXCEPT ![t] = [task[t] EXCEPT !.at = "syncing", !.config = Nil]]
        BY <1>7 DEF CheckSucceeds
    <2> QED
        BY <1>7, <2>1, <2>2, <2>3, <2>4, <2>5, TaskChanges DEF CheckSucceeds
<1>8. CASE BeginDiscovery(t)
    <2>1. core' \in CoreRecords
        BY <1>8 DEF BeginDiscovery, CoreRecords
    <2>2. [IdleTask EXCEPT !.at = "discovering", !.kind = "discovery",
                           !.generation = provider.generation] \in TaskRecords
        BY DEF IdleTask, TaskRecords, Places, ProviderRecords
    <2> QED
        BY <1>8, <2>1, <2>2, TaskChanges DEF BeginDiscovery
<1>9. CASE EndDiscovery(t)
    <2>1. core' \in CoreRecords
        BY <1>9 DEF EndDiscovery, CoreRecords
    <2> QED
        BY <1>9, <2>1, RecordsChange, TaskChanges DEF EndDiscovery
<1>10. CASE BeginMessage(t)
    <2>1. [IdleTask EXCEPT !.at = "syncing", !.kind = "message"] \in TaskRecords
        BY DEF IdleTask, TaskRecords, Places
    <2> QED
        BY <1>10, <2>1, TaskChanges DEF BeginMessage
<1>11. CASE Sync(t)
    <2>1. [task[t] EXCEPT !.at = "sending", !.config = Sent] \in TaskRecords
        BY RecordsChange, ConfigurationsAre DEF Places
    <2>2. task' = [task EXCEPT ![t] = [task[t] EXCEPT !.at = "sending", !.config = Sent]]
        BY <1>11 DEF Sync
    <2>3. saved' \in SavedRecords
        BY <1>11, RecordsChange DEF Sync, ProviderRecords
    <2> QED
        BY <1>11, <2>1, <2>2, <2>3, TaskChanges DEF Sync
<1>12. CASE AlreadySynced(t)
    BY <1>12, RecordsChange, TaskChanges DEF AlreadySynced
<1>13. ASSUME SyncFailed(t) PROVE ProviderTypeOK' \/ runtime' \notin RuntimeRecords
    <2>1. core' \in CoreRecords
        BY <1>13 DEF SyncFailed, CoreRecords
    <2>2. saved' \in SavedRecords
        BY <1>13, RecordsChange DEF SyncFailed
    <2>3. gate' \in Tasks \cup {Nil}
        BY <1>13 DEF SyncFailed, GateLeft
    <2> QED
        BY <1>13, <2>1, <2>2, <2>3, RecordsChange, TaskChanges DEF SyncFailed
<1>14. Stopped \in RuntimeRecords
    BY DEF Stopped, RuntimeRecords
<1>15. CASE NotSendable(t)
    BY <1>13, <1>14, <1>15 DEF NotSendable, LeftRunning
<1>16. CASE Install(t)
    <2>1. [task[t] EXCEPT !.at = "accepting"] \in TaskRecords
        BY RecordsChange DEF Places
    <2>2. runtime' \in RuntimeRecords
        BY <1>16, ConfigurationsAre DEF Install, CommandOK
    <2>3. task' = [task EXCEPT ![t] = [task[t] EXCEPT !.at = "accepting"]]
        BY <1>16 DEF Install
    <2> QED
        BY <1>16, <2>1, <2>2, <2>3, TaskChanges DEF Install
<1>17. CASE Refuses(t)
    <2>1. task[t].config \in Configurations
        BY <1>17 DEF Refuses, CommandOK
    <2>2. PICK f : f = [Installs(task[t].config) EXCEPT !.installed = Nil]
        OBVIOUS
    <2>3. f \in RuntimeRecords
        BY <2>1, <2>2, RecordsChange, ConfigurationsAre
    <2>4. [f EXCEPT !.launch = 0] \in RuntimeRecords
        BY <2>3, RecordsChange
    <2>5. runtime' \in RuntimeRecords
        BY <1>17, <2>2, <2>3, <2>4 DEF Refuses
    <2> QED
        BY <1>13, <1>17, <2>5 DEF Refuses
<1>18. CASE ExchangeFails(t)
    BY <1>13, <1>14, <1>18 DEF ExchangeFails, LeftRunning
<1>19. CASE \E state \in {"ready", "error"} : Accept(t, state)
    <2>1. PICK state \in {"ready", "error"} : Accept(t, state)
        BY <1>19
    <2>2. core' \in CoreRecords /\ provider.generation \in Nat
        BY <2>1 DEF Accept, CoreRecords, ProviderRecords
    <2>3. saved' \in SavedRecords
        BY <2>1, <2>2, RecordsChange DEF Accept
    <2>4. gate' \in Tasks \cup {Nil}
        BY <2>1 DEF Accept, GateLeft
    <2> QED
        BY <2>1, <2>2, <2>3, <2>4, RecordsChange, TaskChanges DEF Accept
<1>20. CASE Start(t)
    <2>1. [IdleTask EXCEPT !.at = "launching", !.kind = "start"] \in TaskRecords
        BY DEF IdleTask, TaskRecords, Places
    <2>2. core' \in CoreRecords
        BY <1>20 DEF Start, CoreRecords
    <2>3. saved' \in SavedRecords
        BY <1>20, RecordsChange DEF Start
    <2> QED
        BY <1>14, <1>20, <2>1, <2>2, <2>3, TaskChanges DEF Start
<1>21. CASE ProcessUp(t)
    <2>1. runtime.launches + 1 \in Nat
        BY DEF RuntimeRecords
    <2>2. PICK n \in Nat : n = runtime.launches + 1
        BY <2>1
    <2>3. runtime' \in RuntimeRecords
        BY <1>21, <2>2 DEF ProcessUp, RuntimeRecords
    <2>4. core' \in CoreRecords
        BY <1>21, <2>2 DEF ProcessUp, CoreRecords
    <2>5. saved' \in SavedRecords
        BY <1>21, RecordsChange DEF ProcessUp
    <2>6. [task[t] EXCEPT !.at = "syncing"] \in TaskRecords
        BY RecordsChange DEF Places
    <2>7. \/ task' = [task EXCEPT ![t] = [task[t] EXCEPT !.at = "syncing"]]
          \/ task' = [task EXCEPT ![t] = IdleTask]
        BY <1>21 DEF ProcessUp
    <2>8. gate' \in Tasks \cup {Nil}
        BY <1>21 DEF ProcessUp
    <2>9. task' \in [Tasks -> TaskRecords]
        BY <2>6, <2>7, RecordsChange, TaskChanges
    <2> QED
        BY <1>21, <2>3, <2>4, <2>5, <2>8, <2>9 DEF ProcessUp
<1>22. CASE LaunchFails(t)
    BY <1>22, RecordsChange, TaskChanges DEF LaunchFails
<1> QED
    BY <1>1, <1>2, <1>3, <1>4, <1>5, <1>6, <1>7, <1>8, <1>9, <1>10, <1>11, <1>12, <1>15, <1>16,
       <1>17, <1>18, <1>19, <1>20, <1>21, <1>22 DEF Step

\* Configuring the provider
LEMMA ConfigureKeeps ==
    ASSUME ProviderInvariant, NEW t \in Tasks, NEW site \in Sites, NEW fresh \in BOOLEAN,
           NEW clear \in BOOLEAN, NEW upto \in {"torn", "kept", "done"},
           Configure(t, site, fresh, clear, upto), ProviderAssumption
    PROVE  ProviderRules'
<1> USE DEF ProviderInvariant, ProviderRules
<1>1. gate = Nil /\ \A u \in Tasks : ~HoldsGate(u)
    BY DEF Configure, Serialized, GateFree, CommandOK, HoldsGate, IdleTask, ProviderAssumption
<1>2. PICK new : new = Configured(site, fresh, clear)
    OBVIOUS
<1>3. /\ new.generation = provider.generation + 1 /\ ~new.verified /\ new.site = site
      /\ ~fresh => new.key \in {provider.key, Nil}
    BY <1>2 DEF Configured
<1>4. provider.generation \in Nat
    BY DEF ProviderTypeOK, ProviderRecords
<1>5. provider' = new /\ latest' = new.generation /\ runtime' = runtime /\ acked' = acked
    BY <1>2 DEF Configure
<1>6. IF upto = "torn" THEN torn' = torn \cup {new.generation} /\ saved' = saved
                       ELSE torn' = torn /\ saved' = Rotated(new.generation)
    BY <1>2 DEF Configure
<1>7. upto # "torn" => saved'.epoch = new.generation /\ saved'.state = "needsModel"
    BY <1>6 DEF Rotated, ProviderTypeOK, SavedRecords
<1>8. ASSUME NEW x, x.generation \in Nat, Of(x) PROVE Of(x)'
    BY <1>3, <1>4, <1>5, <1>8 DEF Of
<1>9. ASSUME NEW x, Epochal(x) PROVE Epochal(x)'
    BY <1>6, <1>9 DEF Epochal
<1>10. StoredOK'
    <2>1. new.key # Nil => new.key \in keys'
        <3>1. keys' = (keys \cup (IF fresh THEN {new.key} ELSE {})) \ Removed(new, upto)
            BY <1>2 DEF Configure
        <3>2. new.key \notin Removed(new, upto)
            BY DEF Removed
        <3> QED
            BY <1>3, <3>1, <3>2 DEF StoredOK, ProviderTrusted, KeyHeld
    <2>2. acked <= provider.generation + 1
        BY <1>4 DEF StoredOK, ProviderTypeOK
    <2>3. \A g \in torn' : g <= provider.generation + 1
        <3>1. ASSUME NEW g \in torn PROVE g <= provider.generation + 1
            <4>1. g \in Nat /\ g <= provider.generation
                BY DEF StoredOK, ProviderTypeOK
            <4> QED
                BY <1>4, <4>1
        <3>2. torn' \subseteq torn \cup {provider.generation + 1}
            BY <1>3, <1>6
        <3> QED
            BY <1>4, <3>1, <3>2
    <2> QED
        BY <1>3, <1>5, <1>6, <1>7, <2>1, <2>2, <2>3
        DEF StoredOK, ProviderTrusted, KeyHeld, VerifiedIsCurrent
<1>11. InstalledOK'
    <2>1. core'.controller = core.controller /\ ControllerAlive' = ControllerAlive
        BY <1>5 DEF Configure, ControllerAlive, ProviderTypeOK, CoreRecords
    <2>2. runtime.installed # Nil => runtime.installed.generation \in Nat
        BY DEF ProviderTypeOK, RuntimeRecords, Configurations
    <2>3. ~(saved'.state = "ready" /\ provider'.generation \notin torn')
        BY <1>5, <1>6, <1>7
    <2> QED
        BY <1>5, <1>8, <1>9, <2>1, <2>2, <2>3 DEF InstalledOK
<1>12. ApprovedOK'
    <2>1. \A a \in runtime.approved : a.generation \in Nat
        BY DEF ProviderTypeOK, RuntimeRecords, Approvals
    <2>2. torn \subseteq torn'
        BY <1>6
    <2> QED
        BY <1>5, <1>8, <2>1, <2>2 DEF ApprovedOK
<1>13. ASSUME NEW u \in Tasks PROVE CommandOK(u)'
    <2>1. task[u] \in TaskRecords /\ task \in [Tasks -> TaskRecords]
        BY DEF ProviderTypeOK
    <2>2. task[u].at \in {"idle", "checking", "discovering", "syncing"}
        BY <1>1, <2>1 DEF HoldsGate, TaskRecords, Places
    <2>3. task[u].at = "checking" => task[u].config.generation \in Nat
        BY DEF CommandOK, ProviderRecords
    <2>4. \/ /\ task'[u] \in {task[u], [task[u] EXCEPT !.cancelled = TRUE]}
             /\ gate' \in {Nil, t} /\ (gate' = t => u # t)
          \/ /\ u = t /\ gate' = t /\ task'[u].at = "clearing"
             /\ task'[u].generation = new.generation
        <3>1. \A ts : Cancelled(ts)[u] \in {task[u], [task[u] EXCEPT !.cancelled = TRUE]}
            BY DEF Cancelled
        <3>2. CASE upto = "torn"
            BY <1>1, <3>2 DEF Configure
        <3>3. CASE upto = "kept"
            BY <1>1, <3>1, <3>3, ProviderAssumption DEF Configure
        <3>4. CASE upto = "done" /\ u # t
            BY <3>1, <3>4 DEF Configure, Cancelled
        <3>5. CASE upto = "done" /\ u = t
            BY <1>2, <3>5 DEF Configure, Cancelled, IdleTask
        <3> QED
            BY <3>2, <3>3, <3>4, <3>5
    <2>5. CASE u = t /\ gate' = t /\ task'[u].at = "clearing"
               /\ task'[u].generation = new.generation
        BY <1>5, <2>5 DEF CommandOK, HoldsGate
    <2>6. CASE /\ gate' \in {Nil, t} /\ (gate' = t => u # t)
               /\ \A f \in {"at", "kind", "generation", "config"} : task'[u][f] = task[u][f]
        <3>1. gate' # u
            BY <2>6 DEF ProviderAssumption
        <3> QED
            BY <1>1, <1>8, <2>2, <2>3, <2>6, <3>1 DEF CommandOK, HoldsGate
    <2> QED
        BY <2>1, <2>4, <2>5, <2>6 DEF TaskRecords
<1> QED
    BY <1>10, <1>11, <1>12, <1>13

\* Clearing what the runtime holds
LEMMA ClearingKeeps ==
    ASSUME ProviderInvariant, ProviderAssumption, NEW t \in Tasks,
           Clear(t) \/ ClearFails(t)
    PROVE  ProviderRules'
<1> USE DEF ProviderInvariant, ProviderRules, ProviderTypeOK, ProviderRecords, Configurations,
            Approvals, SavedRecords, CoreRecords, TaskRecords, RuntimeRecords
<1>1. CASE Clear(t)
    <2>2. StoredOK'
        BY <1>1
        DEF Clear, IdleTask, GateLeft, ControllerAlive, Installs, ScopeOf, StoredOK,
            ProviderTrusted, KeyHeld, VerifiedIsCurrent, CommandOK, Of, HoldsGate
    <2>3. InstalledOK'
        BY <1>1
        DEF Clear, IdleTask, GateLeft, ControllerAlive, Installs, ScopeOf, InstalledOK, Of,
            Epochal
    <2>4. ApprovedOK'
        <3>1. CASE ~ControllerAlive
            BY <1>1, <3>1 DEF Clear, ApprovedOK, Of
        <3>2. CASE ControllerAlive /\ runtime.installed = Nil
            <4>1. ~Fences(Nil)
                BY <3>2 DEF Fences
            <4>2. /\ runtime'.approved = runtime.approved /\ runtime'.scope = runtime.scope
                  /\ runtime'.installed = Nil
                BY <1>1, <3>2, <4>1 DEF Clear, Installs
            <4> QED
                BY <1>1, <4>2 DEF Clear, ApprovedOK, Of
        <3>3. CASE ControllerAlive /\ runtime.installed # Nil
            <4>1. Fences(Nil)
                BY <3>3 DEF Fences, SameAuthority
            <4>2. runtime'.approved = {}
                BY <1>1, <3>3, <4>1 DEF Clear, Installs
            <4> QED
                BY <4>2 DEF ApprovedOK
        <3> QED
            BY <3>1, <3>2, <3>3
    <2>5. (\A u \in Tasks : CommandOK(u))'
        BY <1>1
        DEF Clear, IdleTask, GateLeft, ControllerAlive, Installs, ScopeOf, CommandOK, HoldsGate,
            Of, Epochal
    <2> QED
        BY <2>2, <2>3, <2>4, <2>5
<1>2. CASE ClearFails(t)
    <2>2. StoredOK'
        BY <1>2
        DEF ClearFails, providerHistory, IdleTask, GateLeft, ControllerAlive, StoredOK,
            ProviderTrusted, KeyHeld, VerifiedIsCurrent
    <2>3. InstalledOK'
        BY <1>2
        DEF ClearFails, providerHistory, IdleTask, GateLeft, ControllerAlive, InstalledOK, Of,
            Epochal
    <2>4. ApprovedOK'
        BY <1>2
        DEF ClearFails, providerHistory, IdleTask, GateLeft, ControllerAlive, ApprovedOK, Of
    <2>5. (\A u \in Tasks : CommandOK(u))'
        BY <1>2
        DEF ClearFails, providerHistory, IdleTask, GateLeft, ControllerAlive, CommandOK,
            HoldsGate, Of, Epochal
    <2> QED
        BY <2>2, <2>3, <2>4, <2>5
<1> QED
    BY <1>1, <1>2

\* Checks and discoveries
LEMMA CheckingKeeps ==
    ASSUME ProviderInvariant, ProviderAssumption, NEW t \in Tasks,
           \/ BeginCheck(t) \/ CheckStale(t) \/ CheckFails(t) \/ CheckSucceeds(t)
           \/ BeginDiscovery(t) \/ EndDiscovery(t)
    PROVE  ProviderRules'
<1> USE DEF ProviderInvariant, ProviderRules, ProviderTypeOK, ProviderRecords, Configurations,
            Approvals, SavedRecords, CoreRecords, TaskRecords, RuntimeRecords
<1>1. CASE BeginCheck(t)
    <2>2. StoredOK'
        BY <1>1
        DEF BeginCheck, providerHistory, IdleTask, StoredOK, ProviderTrusted, KeyHeld,
            VerifiedIsCurrent
    <2>3. InstalledOK'
        BY <1>1
        DEF BeginCheck, providerHistory, IdleTask, InstalledOK, Of, Epochal, ControllerAlive
    <2>4. ApprovedOK'
        BY <1>1 DEF BeginCheck, providerHistory, IdleTask, ApprovedOK, Of
    <2>5. ASSUME NEW u \in Tasks PROVE CommandOK(u)'
        <3>1. PICK p : p = provider'
            OBVIOUS
        <3>2. p \in ProviderRecords /\ Of(p)' /\ p.generation = provider.generation
            <4>1. p = [provider EXCEPT !.verified = FALSE]
                BY <1>1, <3>1 DEF BeginCheck
            <4>2. p \in ProviderRecords /\ p.generation = provider.generation
                BY <4>1
            <4>3. p.generation \in Nat
                BY <4>2
            <4> QED
                BY <3>1, <4>2, <4>3 DEF Of
        <3>3. \A x : Of(x) => Of(x)'
            BY <1>1 DEF BeginCheck, Of
        <3>4. UNCHANGED <<gate, runtime, torn>> /\ provider'.generation = provider.generation
            BY <1>1 DEF BeginCheck, providerHistory
        <3>5. CASE u # t
            <4>1. task'[u] = task[u]
                BY <1>1, <3>5 DEF BeginCheck
            <4> QED
                BY <3>3, <3>4, <4>1 DEF CommandOK, HoldsGate, Epochal
        <3>6. CASE u = t
            <4>1. task'[u] = [IdleTask EXCEPT !.at = "checking", !.kind = "check", !.config = p,
                                              !.generation = provider.generation]
                BY <1>1, <3>1, <3>6 DEF BeginCheck
            <4>2. gate # u
                BY <1>1, <3>6 DEF BeginCheck, CommandOK, HoldsGate, IdleTask
            <4> QED
                BY <3>2, <3>4, <4>1, <4>2 DEF CommandOK, HoldsGate, IdleTask
        <3> QED
            BY <3>5, <3>6
    <2> QED
        BY <2>2, <2>3, <2>4, <2>5
<1>2. CASE CheckStale(t)
    <2>2. StoredOK'
        BY <1>2
        DEF CheckStale, providerHistory, IdleTask, StoredOK, ProviderTrusted, KeyHeld,
            VerifiedIsCurrent
    <2>3. InstalledOK'
        BY <1>2
        DEF CheckStale, providerHistory, IdleTask, InstalledOK, Of, Epochal, ControllerAlive
    <2>4. ApprovedOK'
        BY <1>2 DEF CheckStale, providerHistory, IdleTask, ApprovedOK, Of
    <2>5. (\A u \in Tasks : CommandOK(u))'
        BY <1>2 DEF CheckStale, providerHistory, IdleTask, CommandOK, HoldsGate, Of, Epochal
    <2> QED
        BY <2>2, <2>3, <2>4, <2>5
<1>3. CASE CheckFails(t)
    <2>2. StoredOK'
        BY <1>3
        DEF CheckFails, Answerable, Stale, providerHistory, IdleTask, StoredOK, ProviderTrusted,
            KeyHeld, VerifiedIsCurrent
    <2>3. InstalledOK'
        BY <1>3
        DEF CheckFails, Answerable, Stale, providerHistory, IdleTask, InstalledOK, Of, Epochal,
            ControllerAlive
    <2>4. ApprovedOK'
        BY <1>3 DEF CheckFails, Answerable, Stale, providerHistory, IdleTask, ApprovedOK, Of
    <2>5. (\A u \in Tasks : CommandOK(u))'
        BY <1>3
        DEF CheckFails, Answerable, Stale, providerHistory, IdleTask, CommandOK, HoldsGate, Of,
            Epochal
    <2> QED
        BY <2>2, <2>3, <2>4, <2>5
<1>4. CASE CheckSucceeds(t)
    <2>2. StoredOK'
        BY <1>4
        DEF CheckSucceeds, Answerable, Stale, StoredOK, ProviderTrusted, KeyHeld,
            VerifiedIsCurrent, CommandOK, Of, HoldsGate
    <2>3. InstalledOK'
        BY <1>4
        DEF CheckSucceeds, Answerable, Stale, InstalledOK, Of, Epochal, ControllerAlive,
            CommandOK, HoldsGate, StoredOK
    <2>4. ApprovedOK'
        BY <1>4
        DEF CheckSucceeds, Answerable, Stale, ApprovedOK, Of, InstalledOK, CommandOK, Epochal,
            ControllerAlive
    <2>5. ASSUME NEW u \in Tasks PROVE CommandOK(u)'
        <3>1. /\ provider'.generation = provider.generation
              /\ provider'.site = provider.site /\ provider'.key = provider.key
            BY <1>4 DEF CheckSucceeds, Answerable, Stale, CommandOK, Of
        <3>2. \A x : Of(x) => Of(x)'
            BY <3>1 DEF Of
        <3>3. UNCHANGED <<gate, runtime, torn>>
            BY <1>4 DEF CheckSucceeds
        <3>4. CASE u # t
            <4>1. task'[u] = task[u]
                BY <1>4, <3>4 DEF CheckSucceeds
            <4> QED
                BY <3>1, <3>2, <3>3, <4>1 DEF CommandOK, HoldsGate, Epochal
        <3>5. CASE u = t
            <4>1. task'[u].at = "syncing" /\ task'[u].kind = "check"
                BY <1>4, <3>5 DEF CheckSucceeds, CommandOK
            <4>2. gate # u
                BY <1>4, <3>5 DEF CheckSucceeds, CommandOK, HoldsGate
            <4> QED
                BY <3>3, <4>1, <4>2 DEF CommandOK, HoldsGate
        <3> QED
            BY <3>4, <3>5
    <2> QED
        BY <2>2, <2>3, <2>4, <2>5
<1>5. CASE BeginDiscovery(t)
    <2>2. StoredOK'
        BY <1>5
        DEF BeginDiscovery, providerHistory, IdleTask, StoredOK, ProviderTrusted, KeyHeld,
            VerifiedIsCurrent
    <2>3. InstalledOK'
        BY <1>5
        DEF BeginDiscovery, providerHistory, IdleTask, InstalledOK, Of, Epochal, ControllerAlive
    <2>4. ApprovedOK'
        BY <1>5 DEF BeginDiscovery, providerHistory, IdleTask, ApprovedOK, Of
    <2>5. (\A u \in Tasks : CommandOK(u))'
        BY <1>5 DEF BeginDiscovery, providerHistory, IdleTask, CommandOK, HoldsGate, Of, Epochal
    <2> QED
        BY <2>2, <2>3, <2>4, <2>5
<1>6. CASE EndDiscovery(t)
    <2>2. StoredOK'
        BY <1>6
        DEF EndDiscovery, providerHistory, IdleTask, StoredOK, ProviderTrusted, KeyHeld,
            VerifiedIsCurrent
    <2>3. InstalledOK'
        BY <1>6
        DEF EndDiscovery, providerHistory, IdleTask, InstalledOK, Of, Epochal, ControllerAlive
    <2>4. ApprovedOK'
        BY <1>6 DEF EndDiscovery, providerHistory, IdleTask, ApprovedOK, Of
    <2>5. (\A u \in Tasks : CommandOK(u))'
        BY <1>6 DEF EndDiscovery, providerHistory, IdleTask, CommandOK, HoldsGate, Of, Epochal
    <2> QED
        BY <2>2, <2>3, <2>4, <2>5
<1> QED
    BY <1>1, <1>2, <1>3, <1>4, <1>5, <1>6

\* Sending the configuration to the runtime
LEMMA SyncingKeeps ==
    ASSUME ProviderInvariant, ProviderAssumption, NEW t \in Tasks,
           \/ BeginMessage(t) \/ Sync(t) \/ AlreadySynced(t) \/ NotSendable(t) \/ Install(t)
           \/ Refuses(t) \/ ExchangeFails(t)
           \/ \E state \in {"ready", "error"} : Accept(t, state)
    PROVE  ProviderRules'
<1> USE DEF ProviderInvariant, ProviderRules, ProviderTypeOK, ProviderRecords, Configurations,
            Approvals, SavedRecords, CoreRecords, TaskRecords, RuntimeRecords
<1>1. CASE BeginMessage(t)
    <2>2. StoredOK'
        BY <1>1
        DEF BeginMessage, providerHistory, IdleTask, StoredOK, ProviderTrusted, KeyHeld,
            VerifiedIsCurrent
    <2>3. InstalledOK'
        BY <1>1
        DEF BeginMessage, providerHistory, IdleTask, InstalledOK, Of, Epochal, ControllerAlive
    <2>4. ApprovedOK'
        BY <1>1 DEF BeginMessage, providerHistory, IdleTask, ApprovedOK, Of
    <2>5. (\A u \in Tasks : CommandOK(u))'
        BY <1>1 DEF BeginMessage, providerHistory, IdleTask, CommandOK, HoldsGate, Of, Epochal
    <2> QED
        BY <2>2, <2>3, <2>4, <2>5
<1>2. CASE Sync(t)
    <2>2. StoredOK'
        BY <1>2
        DEF Sync, Sendable, Sent, providerHistory, ControllerAlive, GateFree, StoredOK,
            ProviderTrusted, KeyHeld, VerifiedIsCurrent
    <2>3. InstalledOK'
        BY <1>2
        DEF Sync, Sendable, Sent, providerHistory, ControllerAlive, GateFree, InstalledOK, Of,
            Epochal
    <2>4. ApprovedOK'
        BY <1>2
        DEF Sync, Sendable, Sent, providerHistory, ControllerAlive, GateFree, ApprovedOK, Of
    <2>5. (\A u \in Tasks : CommandOK(u))'
        BY <1>2
        DEF Sync, Sendable, Sent, providerHistory, ControllerAlive, GateFree, CommandOK,
            HoldsGate, Of, Epochal, StoredOK
    <2> QED
        BY <2>2, <2>3, <2>4, <2>5
<1>3. CASE AlreadySynced(t)
    <2>2. StoredOK'
        BY <1>3
        DEF AlreadySynced, providerHistory, IdleTask, GateFree, StoredOK, ProviderTrusted,
            KeyHeld, VerifiedIsCurrent
    <2>3. InstalledOK'
        BY <1>3
        DEF AlreadySynced, providerHistory, IdleTask, GateFree, InstalledOK, Of, Epochal,
            ControllerAlive
    <2>4. ApprovedOK'
        BY <1>3 DEF AlreadySynced, providerHistory, IdleTask, GateFree, ApprovedOK, Of
    <2>5. ASSUME NEW u \in Tasks PROVE CommandOK(u)'
        <3>1. UNCHANGED <<gate, provider, runtime, torn>>
            BY <1>3 DEF AlreadySynced, providerHistory
        <3>2. task'[u] = IF u = t THEN IdleTask ELSE task[u]
            BY <1>3 DEF AlreadySynced
        <3>3. task[t].kind = "message" /\ gate # t
            BY <1>3 DEF AlreadySynced, InSync, CommandOK, HoldsGate
        <3>4. CASE u # t
            BY <3>1, <3>2, <3>4 DEF CommandOK, HoldsGate, Of, Epochal
        <3>5. CASE u = t
            BY <3>1, <3>2, <3>3, <3>5 DEF CommandOK, HoldsGate, IdleTask
        <3> QED
            BY <3>4, <3>5
    <2> QED
        BY <2>2, <2>3, <2>4, <2>5
<1>4. CASE NotSendable(t)
    <2>2. StoredOK'
        BY <1>4
        DEF NotSendable, SyncFailed, LeftRunning, providerHistory, IdleTask, GateLeft, GateFree,
            Stopped, StoredOK, ProviderTrusted, KeyHeld, VerifiedIsCurrent
    <2>3. InstalledOK'
        BY <1>4
        DEF NotSendable, SyncFailed, LeftRunning, providerHistory, IdleTask, GateLeft, GateFree,
            Stopped, InstalledOK, Of, Epochal, ControllerAlive
    <2>4. ApprovedOK'
        BY <1>4
        DEF NotSendable, SyncFailed, LeftRunning, providerHistory, IdleTask, GateLeft, GateFree,
            Stopped, ApprovedOK, Of
    <2>5. (\A u \in Tasks : CommandOK(u))'
        BY <1>4
        DEF NotSendable, SyncFailed, LeftRunning, providerHistory, IdleTask, GateLeft, GateFree,
            Stopped, CommandOK, HoldsGate, Of, Epochal
    <2> QED
        BY <2>2, <2>3, <2>4, <2>5
<1>5. CASE Install(t)
    <2>2. StoredOK'
        BY <1>5
        DEF Install, SameAuthority, Fences, providerHistory, ControllerAlive, ScopeOf, Installs,
            StoredOK, ProviderTrusted, KeyHeld, VerifiedIsCurrent
    <2>3. InstalledOK'
        BY <1>5
        DEF Install, SameAuthority, Fences, providerHistory, ControllerAlive, ScopeOf, Installs,
            InstalledOK, Of, Epochal, CommandOK, HoldsGate, StoredOK
    <2>4. ApprovedOK'
        BY <1>5
        DEF Install, SameAuthority, Fences, providerHistory, ControllerAlive, ScopeOf, Installs,
            ApprovedOK, Of, InstalledOK, CommandOK, Epochal
    <2>5. (\A u \in Tasks : CommandOK(u))'
        BY <1>5
        DEF Install, SameAuthority, Fences, providerHistory, ControllerAlive, ScopeOf, Installs,
            CommandOK, HoldsGate, Of, Epochal
    <2> QED
        BY <2>2, <2>3, <2>4, <2>5
<1>6. CASE Refuses(t)
    <2>2. StoredOK'
        BY <1>6
        DEF Refuses, SyncFailed, SameAuthority, Fences, providerHistory, IdleTask, GateLeft,
            ControllerAlive, ScopeOf, Installs, StoredOK, ProviderTrusted, KeyHeld,
            VerifiedIsCurrent
    <2>3. InstalledOK'
        BY <1>6
        DEF Refuses, SyncFailed, SameAuthority, Fences, providerHistory, IdleTask, GateLeft,
            ControllerAlive, ScopeOf, Installs, InstalledOK, Of, Epochal
    <2>4. ApprovedOK'
        BY <1>6
        DEF Refuses, SyncFailed, SameAuthority, Fences, providerHistory, IdleTask, GateLeft,
            ControllerAlive, ScopeOf, Installs, ApprovedOK, Of
    <2>5. (\A u \in Tasks : CommandOK(u))'
        BY <1>6
        DEF Refuses, SyncFailed, SameAuthority, Fences, providerHistory, IdleTask, GateLeft,
            ControllerAlive, ScopeOf, Installs, CommandOK, HoldsGate, Of, Epochal
    <2> QED
        BY <2>2, <2>3, <2>4, <2>5
<1>7. CASE ExchangeFails(t)
    <2>2. StoredOK'
        BY <1>7
        DEF ExchangeFails, SyncFailed, LeftRunning, providerHistory, IdleTask, GateLeft, Stopped,
            StoredOK, ProviderTrusted, KeyHeld, VerifiedIsCurrent
    <2>3. InstalledOK'
        BY <1>7
        DEF ExchangeFails, SyncFailed, LeftRunning, providerHistory, IdleTask, GateLeft, Stopped,
            InstalledOK, Of, Epochal, ControllerAlive
    <2>4. ApprovedOK'
        BY <1>7
        DEF ExchangeFails, SyncFailed, LeftRunning, providerHistory, IdleTask, GateLeft, Stopped,
            ApprovedOK, Of
    <2>5. (\A u \in Tasks : CommandOK(u))'
        BY <1>7
        DEF ExchangeFails, SyncFailed, LeftRunning, providerHistory, IdleTask, GateLeft, Stopped,
            CommandOK, HoldsGate, Of, Epochal
    <2> QED
        BY <2>2, <2>3, <2>4, <2>5
<1>8. CASE \E state \in {"ready", "error"} : Accept(t, state)
    <2>1. PICK state \in {"ready", "error"} : Accept(t, state)
        BY <1>8
    <2>2. StoredOK'
        BY <2>1
        DEF Accept, providerHistory, IdleTask, GateLeft, ControllerAlive, StoredOK,
            ProviderTrusted, KeyHeld, VerifiedIsCurrent
    <2>3. InstalledOK'
        BY <2>1
        DEF Accept, providerHistory, IdleTask, GateLeft, ControllerAlive, InstalledOK, Of,
            Epochal, CommandOK, HoldsGate, StoredOK
    <2>4. ApprovedOK'
        BY <2>1 DEF Accept, providerHistory, IdleTask, GateLeft, ControllerAlive, ApprovedOK, Of
    <2>5. (\A u \in Tasks : CommandOK(u))'
        BY <2>1
        DEF Accept, providerHistory, IdleTask, GateLeft, ControllerAlive, CommandOK, HoldsGate,
            Of, Epochal
    <2> QED
        BY <2>2, <2>3, <2>4, <2>5
<1> QED
    BY <1>1, <1>2, <1>3, <1>4, <1>5, <1>6, <1>7, <1>8

\* Starting the runtime
LEMMA StartingKeeps ==
    ASSUME ProviderInvariant, ProviderAssumption, NEW t \in Tasks,
           Start(t) \/ ProcessUp(t) \/ LaunchFails(t)
    PROVE  ProviderRules'
<1> USE DEF ProviderInvariant, ProviderRules, ProviderTypeOK, ProviderRecords, Configurations,
            Approvals, SavedRecords, CoreRecords, TaskRecords, RuntimeRecords
<1>1. CASE Start(t)
    <2>2. StoredOK'
        BY <1>1
        DEF Start, providerHistory, IdleTask, Stopped, StoredOK, ProviderTrusted, KeyHeld,
            VerifiedIsCurrent
    <2>3. InstalledOK'
        BY <1>1
        DEF Start, providerHistory, IdleTask, Stopped, InstalledOK, Of, Epochal, ControllerAlive
    <2>4. ApprovedOK'
        BY <1>1 DEF Start, providerHistory, IdleTask, Stopped, ApprovedOK, Of
    <2>5. (\A u \in Tasks : CommandOK(u))'
        BY <1>1 DEF Start, providerHistory, IdleTask, Stopped, CommandOK, HoldsGate, Of, Epochal
    <2> QED
        BY <2>2, <2>3, <2>4, <2>5
<1>2. CASE ProcessUp(t)
    <2>2. StoredOK'
        BY <1>2
        DEF ProcessUp, Resumes, providerHistory, IdleTask, StoredOK, ProviderTrusted, KeyHeld,
            VerifiedIsCurrent
    <2>3. InstalledOK'
        BY <1>2
        DEF ProcessUp, Resumes, providerHistory, IdleTask, InstalledOK, Of, Epochal,
            ControllerAlive
    <2>4. ApprovedOK'
        BY <1>2 DEF ProcessUp, Resumes, providerHistory, IdleTask, ApprovedOK, Of
    <2>5. ASSUME NEW u \in Tasks PROVE CommandOK(u)'
        <3>1. gate = t /\ task[t].kind = "start"
            BY <1>2 DEF ProcessUp, CommandOK, HoldsGate
        <3>2. UNCHANGED <<provider, torn>>
            BY <1>2 DEF ProcessUp, providerHistory
        <3>3. gate' \in {Nil, t} /\ (gate' = t <=> Resumes)
            BY <1>2, <3>1, ProviderAssumption DEF ProcessUp
        <3>4. CASE u # t
            <4>1. task'[u] = task[u]
                BY <1>2, <3>4 DEF ProcessUp
            <4>2. ~HoldsGate(u) /\ gate' # u
                BY <3>1, <3>3, <3>4, ProviderAssumption DEF CommandOK, ProviderAssumption
            <4> QED
                BY <3>2, <4>1, <4>2 DEF CommandOK, HoldsGate, Of
        <3>5. CASE u = t /\ Resumes
            <4>1. task'[u].at = "syncing" /\ task'[u].kind = "start"
                BY <1>2, <3>1, <3>5 DEF ProcessUp
            <4> QED
                BY <3>3, <3>5, <4>1 DEF CommandOK, HoldsGate
        <3>6. CASE u = t /\ ~Resumes
            <4>1. task'[u].at = "idle"
                BY <1>2, <3>6 DEF ProcessUp, IdleTask
            <4> QED
                BY <3>3, <3>6, <4>1 DEF CommandOK, HoldsGate
        <3> QED
            BY <3>4, <3>5, <3>6
    <2> QED
        BY <2>2, <2>3, <2>4, <2>5
<1>3. CASE LaunchFails(t)
    <2>2. StoredOK'
        BY <1>3
        DEF LaunchFails, providerHistory, IdleTask, StoredOK, ProviderTrusted, KeyHeld,
            VerifiedIsCurrent
    <2>3. InstalledOK'
        BY <1>3
        DEF LaunchFails, providerHistory, IdleTask, InstalledOK, Of, Epochal, ControllerAlive
    <2>4. ApprovedOK'
        BY <1>3 DEF LaunchFails, providerHistory, IdleTask, ApprovedOK, Of
    <2>5. (\A u \in Tasks : CommandOK(u))'
        BY <1>3 DEF LaunchFails, providerHistory, IdleTask, CommandOK, HoldsGate, Of, Epochal
    <2> QED
        BY <2>2, <2>3, <2>4, <2>5
<1> QED
    BY <1>1, <1>2, <1>3

\* Approvals, and the end of the runtime or of the native process
LEMMA OutsideKeeps ==
    ASSUME ProviderInvariant, ProviderAssumption,
           \/ \E reached \in BOOLEAN : Approve(reached)
           \/ RuntimeDies \/ Crash
    PROVE  ProviderRules'
<1> USE DEF ProviderInvariant, ProviderRules, ProviderTypeOK, ProviderRecords, Configurations,
            Approvals, SavedRecords, CoreRecords, TaskRecords, RuntimeRecords
<1>1. CASE \E reached \in BOOLEAN : Approve(reached)
    <2>1. PICK reached \in BOOLEAN : Approve(reached)
        BY <1>1
    <2>2. StoredOK'
        BY <2>1
        DEF Approve, providerHistory, ControllerAlive, StoredOK, ProviderTrusted, KeyHeld,
            VerifiedIsCurrent
    <2>3. InstalledOK'
        BY <2>1 DEF Approve, providerHistory, ControllerAlive, InstalledOK, Of, Epochal
    <2>4. ApprovedOK'
        BY <2>1
        DEF Approve, providerHistory, ControllerAlive, ApprovedOK, Of, InstalledOK, CommandOK,
            Epochal
    <2>5. (\A u \in Tasks : CommandOK(u))'
        BY <2>1 DEF Approve, providerHistory, ControllerAlive, CommandOK, HoldsGate, Of, Epochal
    <2> QED
        BY <2>2, <2>3, <2>4, <2>5
<1>2. CASE RuntimeDies
    <2>2. StoredOK'
        BY <1>2
        DEF RuntimeDies, providerHistory, Stopped, StoredOK, ProviderTrusted, KeyHeld,
            VerifiedIsCurrent
    <2>3. InstalledOK'
        BY <1>2
        DEF RuntimeDies, providerHistory, Stopped, InstalledOK, Of, Epochal, ControllerAlive
    <2>4. ApprovedOK'
        BY <1>2 DEF RuntimeDies, providerHistory, Stopped, ApprovedOK, Of
    <2>5. (\A u \in Tasks : CommandOK(u))'
        BY <1>2 DEF RuntimeDies, providerHistory, Stopped, CommandOK, HoldsGate, Of, Epochal
    <2> QED
        BY <2>2, <2>3, <2>4, <2>5
<1>3. CASE Crash
    <2>2. StoredOK'
        BY <1>3
        DEF Crash, providerHistory, IdleTask, NoCore, Stopped, StoredOK, ProviderTrusted,
            KeyHeld, VerifiedIsCurrent
    <2>3. InstalledOK'
        BY <1>3
        DEF Crash, providerHistory, IdleTask, NoCore, Stopped, InstalledOK, Of, Epochal,
            ControllerAlive
    <2>4. ApprovedOK'
        BY <1>3 DEF Crash, providerHistory, IdleTask, NoCore, Stopped, ApprovedOK, Of
    <2>5. (\A u \in Tasks : CommandOK(u))'
        BY <1>3
        DEF Crash, providerHistory, IdleTask, NoCore, Stopped, CommandOK, HoldsGate, Of, Epochal
    <2> QED
        BY <2>2, <2>3, <2>4, <2>5
<1> QED
    BY <1>1, <1>2, <1>3

LEMMA OutsideTypes ==
    ASSUME ProviderTypeOK, (\E reached \in BOOLEAN : Approve(reached)) \/ RuntimeDies \/ Crash
    PROVE  ProviderTypeOK'
<1> USE DEF ProviderTypeOK, providerHistory
<1>1. CASE \E reached \in BOOLEAN : Approve(reached)
    <2>1. PICK reached \in BOOLEAN : Approve(reached)
        BY <1>1
    <2>2. saved' \in SavedRecords
        BY <2>1, RecordsChange DEF Approve
    <2>3. PICK a : a = [generation |-> provider.generation, site |-> provider.site,
                        key |-> provider.key]
        OBVIOUS
    <2>4. a \in Approvals
        BY <2>3 DEF ProviderRecords, Approvals
    <2>5. runtime' = runtime \/ runtime' = [runtime EXCEPT !.approved = @ \cup {a}]
        BY <2>1, <2>3 DEF Approve
    <2>6. runtime' \in RuntimeRecords
        BY <2>4, <2>5 DEF RuntimeRecords
    <2> QED
        BY <2>1, <2>2, <2>6 DEF Approve
<1>2. Stopped \in RuntimeRecords
    BY DEF Stopped, RuntimeRecords
<1>3. CASE RuntimeDies
    BY <1>2, <1>3 DEF RuntimeDies
<1>4. CASE Crash
    <2>1. core' \in CoreRecords /\ task' \in [Tasks -> TaskRecords]
        BY <1>4, RecordsChange DEF Crash, NoCore, CoreRecords
    <2> QED
        BY <1>2, <1>4, <2>1 DEF Crash
<1> QED
    BY <1>1, <1>3, <1>4

LEMMA ProviderStarts == ProviderInit /\ ProviderAssumption => ProviderInvariant
<1> SUFFICES ASSUME ProviderInit, ProviderAssumption PROVE ProviderInvariant
    OBVIOUS
<1> USE DEF ProviderInit
<1>1. task \in [Tasks -> TaskRecords]
    BY RecordsChange
<1>2. runtime \in RuntimeRecords
    BY DEF RuntimeRecords
<1>3. provider \in ProviderRecords
    BY DEF ProviderRecords, ProviderAssumption
<1>4. saved \in SavedRecords /\ core \in CoreRecords
    BY DEF SavedRecords, NoCore, CoreRecords
<1>5. ProviderTypeOK
    BY <1>1, <1>2, <1>3, <1>4 DEF ProviderTypeOK
<1>6. StoredOK
    BY DEF StoredOK, ProviderTrusted, KeyHeld, VerifiedIsCurrent
<1>7. InstalledOK /\ ApprovedOK
    BY DEF InstalledOK, ApprovedOK
<1>8. \A t \in Tasks : CommandOK(t)
    BY ProviderAssumption DEF CommandOK, HoldsGate, IdleTask
<1> QED
    BY <1>5, <1>6, <1>7, <1>8 DEF ProviderInvariant, ProviderRules

LEMMA ProviderKept ==
    ASSUME ProviderInvariant, ProviderAssumption, [ProviderNext]_providerVars
    PROVE  ProviderInvariant'
<1>1. CASE \E t \in Tasks : Step(t)
    <2>1. PICK t \in Tasks : Step(t)
        BY <1>1
    <2>2. ProviderTypeOK'
        BY <2>1, ProviderTypesKept DEF ProviderInvariant, ProviderRules
    <2>3. ProviderRules'
        BY <2>1, ConfigureKeeps, ClearingKeeps, CheckingKeeps, SyncingKeeps, StartingKeeps
        DEF Step
    <2> QED
        BY <2>2, <2>3 DEF ProviderInvariant
<1>2. CASE (\E reached \in BOOLEAN : Approve(reached)) \/ RuntimeDies \/ Crash
    BY <1>2, OutsideTypes, OutsideKeeps DEF ProviderInvariant
<1>3. CASE UNCHANGED providerVars
    BY <1>3
    DEF ProviderInvariant, ProviderRules, ProviderTypeOK, StoredOK, ProviderTrusted, KeyHeld,
        VerifiedIsCurrent, CommandOK, HoldsGate, Of, Epochal, InstalledOK, ApprovedOK,
        ControllerAlive, providerVars, providerHistory
<1> QED
    BY <1>1, <1>2, <1>3 DEF ProviderNext

LEMMA ProviderInvariantHolds == ProviderSpec => []ProviderInvariant
<1>1. ProviderInit => ProviderInvariant
    BY ProviderStarts, ProviderAssumption
<1>2. ProviderInvariant /\ [ProviderNext]_providerVars => ProviderInvariant'
    BY ProviderKept, ProviderAssumption
<1> QED
    BY <1>1, <1>2, PTL DEF ProviderSpec

\* The stored provider is the one configured last with its key in the key store,
\* and is shown as verified only after a check of exactly it, for every number
\* of commands, configurations and restarts (core.rs: configure, check_model).
THEOREM TrustedProvider == ProviderSpec => []ProviderTrusted
<1>1. ProviderInvariant => ProviderTrusted
    BY DEF ProviderInvariant, ProviderRules, StoredOK
<1> QED
    BY <1>1, ProviderInvariantHolds, PTL

\* Once configure_provider returned the runtime works under nothing older, and
\* unless a configuration was torn what it may execute was approved under the
\* endpoint and key it works under (lib.rs: configure_provider's gate;
\* managed.py: authorize_configuration).
THEOREM FollowedProvider == ProviderSpec => []RuntimeFollowsProvider
<1>1. ASSUME ProviderInvariant PROVE NothingSuperseded
    <2>1. acked \in Nat /\ (runtime.installed # Nil => runtime.installed.generation \in Nat)
        BY <1>1 DEF ProviderInvariant, ProviderTypeOK, RuntimeRecords, Configurations
    <2> QED
        BY <1>1, <2>1 DEF ProviderInvariant, ProviderRules, InstalledOK, NothingSuperseded
<1>2. ASSUME ProviderInvariant PROVE ApprovalsMatch
    <2>1. SUFFICES ASSUME runtime.installed # Nil, NEW a \in runtime.approved,
                          a.generation \notin torn, runtime.installed.generation \notin torn
                   PROVE  a.site = runtime.installed.site /\ a.key = runtime.installed.key
        BY DEF ApprovalsMatch
    <2>2. runtime.scope = <<a.site, a.generation>>
        BY <1>2, <2>1 DEF ProviderInvariant, ProviderRules, ApprovedOK
    <2>3. runtime.scope = <<runtime.installed.site, runtime.installed.generation>>
        BY <1>2, <2>1 DEF ProviderInvariant, ProviderRules, InstalledOK, Epochal
    <2>4. runtime.installed.generation = a.generation
        BY <2>2, <2>3
    <2> QED
        BY <1>2, <2>1, <2>4 DEF ProviderInvariant, ProviderRules, ApprovedOK
<1>3. ProviderInvariant => RuntimeFollowsProvider
    BY <1>1, <1>2 DEF RuntimeFollowsProvider
<1> QED
    BY <1>3, ProviderInvariantHolds, PTL
-----------------------------------------------------------------------------
(* The owned browser                                                       *)

Pages == Urls \cup {Blank}
Addresses == Pages \cup {Nil}
Sessions == [generation : Nat, secured : BOOLEAN, phase : Phases, url : Addresses,
             error : {"gate", "focus", Nil}]
Mains == [at : {"idle", "reopen", "status", "verify"}, generation : Nat, url : Addresses]
Lates == [kind : LateKinds, generation : Nat, url : Addresses]

\* What leads to a page
Leading == {"compiled", "verify", "load", "loaded", "present", "enter"}

BrowserTypes ==
    /\ session \in Sessions /\ window \in Windows \cup {Nil} /\ late \subseteq Lates
    /\ \A e \in late : e.kind \in Leading => e.url \in Pages
    /\ main.at = "verify" => main.url \in Pages
    /\ main \in Mains /\ quit \in BOOLEAN

\* Everything under way is of this browser or of an earlier one.
Generations ==
    /\ \A e \in late : e.generation <= session.generation
    /\ window # Nil => window.generation <= session.generation
    /\ main.generation <= session.generation

\* A window is built once per generation, while there is none, and is reported
\* gone only after the platform forgot it.
BuiltOnce ==
    /\ \A e, f \in late : e.kind = "compiled" /\ f.kind \in {"compiled", "gone"}
                          /\ e.generation = f.generation => e = f
    /\ \A e \in late : e.kind \in {"compiled", "gone"} => ~Owns(e.generation)
    /\ \A e \in late : e.kind = "compiled" /\ e.generation = session.generation => window = Nil

\* What is queued for a window is dropped with it, and a page other than the
\* blank one waits for its bridge to be removed.
QueuedForWindow ==
    /\ \A e \in late : e.kind \in {"load", "loaded", "verify"} => Owns(e.generation)
    /\ \A e \in late : e.kind = "loaded" /\ e.url # Blank => window.stripped
    /\ main.at = "verify" => Owns(main.generation) /\ window.stripped
    /\ main.at = "reopen" => window # Nil

SecuredOK == SecuredWindow /\ (session.secured => session.phase = "open")

\* Nothing but the blank page is in a window that is not open yet.
OpeningOK ==
    session.phase = "opening" /\ Owns(session.generation) =>
        /\ window.page = Blank
        /\ \A e \in late : e.kind = "loaded" /\ e.generation = session.generation => e.url = Blank

\* The address shown or about to be written is that of the page.
AddressOK ==
    /\ session.secured /\ Owns(session.generation) =>
          /\ session.url = Public(window.page)
          /\ main.at = "status" => main.url = Public(window.page)
    /\ session.phase = "opening" \/ (session.phase = "closed" /\ ~quit) => session.url = Nil
    /\ main.at = "status" => session.phase # "opening" /\ (quit \/ session.phase # "closed")
    /\ \A e \in late : e.kind = "shutdown" => quit

RendererOK ==
    \/ seen = Shown(session)
    \/ session.secured /\ PendingOf({"present", "enter", "show"}, session.generation)

BrowserInvariant ==
    /\ BrowserTypes /\ Generations /\ BuiltOnce /\ QueuedForWindow
    /\ SecuredOK /\ OpeningOK /\ AddressOK /\ RendererOK

-----------------------------------------------------------------------------
\* What becomes of the session in most steps: at most its error changes, or it
\* is no longer secured.
SessionStays == \A f \in {"generation", "secured", "phase", "url"} : session'[f] = session[f]
SessionFalls ==
    /\ session'.generation \in {session.generation, session.generation + 1}
    /\ ~session'.secured /\ session'.url = Nil /\ session'.phase \in {"closed", "error"}

\* A window that is asked to end or is shown stays the one it was.
SameWindow ==
    IF window = Nil THEN window' = Nil
    ELSE /\ window' # Nil
         /\ \A f \in {"generation", "stripped", "page"} : window'[f] = window[f]

Neutral == {"timer", "history", "reject", "drop", "present", "enter", "show", "shutdown"}

LEMMA SessionsAre ==
    ASSUME NEW s \in Sessions, NEW g \in Nat
    PROVE  /\ Failed(s, g) \in Sessions /\ Expired(s, g) \in Sessions /\ Opening(s) \in Sessions
           /\ \A k \in BOOLEAN : Closed(s, g, k) \in Sessions
<1> USE DEF Sessions, Phases, Addresses
<1>1. Failed(s, g) \in Sessions
    BY DEF Failed
<1>2. Expired(s, g) \in Sessions
    BY <1>1 DEF Expired
<1>3. Opening(s) \in Sessions
    BY DEF Opening
<1>4. ASSUME NEW k \in BOOLEAN PROVE Closed(s, g, k) \in Sessions
    <2>1. PICK p, x : /\ p = IF k /\ s.phase = "error" THEN "error" ELSE "closed"
                      /\ x = IF k /\ s.phase = "error" THEN s.error ELSE Nil
        OBVIOUS
    <2>2. p \in Phases /\ x \in {"gate", "focus", Nil}
        BY <2>1
    <2>3. PICK n \in Nat : n = g + 1
        OBVIOUS
    <2>4. [s EXCEPT !.generation = n, !.secured = FALSE, !.url = Nil, !.phase = p,
                    !.error = x] \in Sessions
        BY <2>2
    <2> QED
        BY <2>1, <2>3, <2>4 DEF Closed
<1> QED
    BY <1>1, <1>2, <1>3, <1>4

\* A browser that fails, expires or is closed falls, or is another one.
LEMMA SessionChanges ==
    ASSUME session \in Sessions, NEW g \in Nat, NEW k \in BOOLEAN,
           session' \in {session, Failed(session, g), Expired(session, g), Closed(session, g, k)}
    PROVE  /\ session' \in Sessions /\ (SessionStays \/ SessionFalls)
           /\ session' # session => session.generation = g
<1>1. session' \in Sessions
    BY SessionsAre
<1>2. CASE session' = session
    BY <1>2 DEF SessionStays
<1>3. CASE session' # session
    <2>1. session.generation = g
        BY <1>3 DEF Failed, Expired, Closed
    <2>2. CASE session' \in {Failed(session, g), Expired(session, g)}
        <3>1. session' = Failed(session, g)
            BY <1>3, <2>2 DEF Expired
        <3>2. session' = [session EXCEPT !.secured = FALSE, !.phase = "error", !.error = "gate",
                                         !.url = Nil]
            BY <2>1, <3>1 DEF Failed
        <3>3. SessionFalls
            BY <3>2 DEF SessionFalls, Sessions
        <3> QED
            BY <1>1, <2>1, <3>3
    <2>3. CASE session' = Closed(session, g, k)
        <3>1. PICK p, x : /\ p = IF k /\ session.phase = "error" THEN "error" ELSE "closed"
                          /\ x = IF k /\ session.phase = "error" THEN session.error ELSE Nil
            OBVIOUS
        <3>2. session' = [session EXCEPT !.generation = g + 1, !.secured = FALSE, !.url = Nil,
                                         !.phase = p, !.error = x]
            BY <2>1, <2>3, <3>1 DEF Closed
        <3>3. p \in {"error", "closed"}
            BY <3>1
        <3>4. SessionFalls
            BY <2>1, <3>2, <3>3 DEF SessionFalls, Sessions
        <3> QED
            BY <1>1, <2>1, <3>4
    <2> QED
        BY <1>1, <1>3, <2>1, <2>2, <2>3
<1> QED
    BY <1>1, <1>2, <1>3

LEMMA LatesAre ==
    ASSUME late \subseteq Lates
    PROVE  /\ \A k \in LateKinds, g \in Nat, u \in Addresses : Late(k, g, u) \in Lates
           /\ \A g \in Nat, u \in Addresses : Loading(g, u) \subseteq Lates
<1>1. \A k \in LateKinds, g \in Nat, u \in Addresses : Late(k, g, u) \in Lates
    BY DEF Late, Lates
<1> QED
    BY <1>1 DEF Loading, LateKinds

LEMMA WindowsAre ==
    ASSUME NEW w \in Windows, NEW e \in {"no", "asked", "failed"}
    PROVE  /\ [w EXCEPT !.end = e] \in Windows /\ [w EXCEPT !.shown = TRUE] \in Windows
           /\ [w EXCEPT !.stripped = TRUE] \in Windows
           /\ \A u \in Urls \cup {Blank} : [w EXCEPT !.page = u] \in Windows
BY DEF Windows

\* Destroying a window, or showing it, leaves it the same one.
LEMMA WindowChanges ==
    ASSUME BrowserAssumption, window \in Windows \cup {Nil},
           \/ window' = window
           \/ window # Nil /\ window' = [window EXCEPT !.shown = TRUE]
           \/ /\ window # Nil
              /\ \E e \in {"no", "asked", "failed"} : window' = [window EXCEPT !.end = e]
    PROVE  SameWindow /\ window' \in Windows \cup {Nil}
<1>1. window' \in Windows \cup {Nil}
    BY WindowsAre
<1>2. window # Nil => window' # Nil
    BY WindowsAre, BrowserAssumption DEF BrowserAssumption
<1>3. window # Nil => \A f \in {"generation", "stripped", "page"} : window'[f] = window[f]
    BY DEF Windows
<1> QED
    BY <1>1, <1>2, <1>3 DEF SameWindow

LEMMA DestroyChanges ==
    ASSUME window \in Windows \cup {Nil}, NEW g, Destroy(g)
    PROVE  \/ window' = window
           \/ /\ window # Nil
              /\ \E e \in {"no", "asked", "failed"} : window' = [window EXCEPT !.end = e]
BY DEF Destroy, Owns, Windows

-----------------------------------------------------------------------------
\* The steps that leave the windows what they are: what becomes of what is
\* under way and of the main thread
Frame ==
    /\ SameWindow
    /\ SessionStays \/ SessionFalls
    /\ \A e \in late' : \/ e \in late
                        \/ (e.kind \in Neutral /\ e.generation <= session'.generation)
                        \/ e.kind = "load" /\ Owns(e.generation)
    /\ session'.secured => \A e \in late : e.kind = "gone" /\ e.generation = session.generation
                                          => e \in late'
    /\ \/ main' = main \/ main' = NoWork
       \/ main'.at = "reopen" /\ main'.generation = session.generation /\ window # Nil
       \/ /\ main'.at = "status" /\ main'.generation = session.generation
          /\ main'.url = Public(window.page) /\ session'.phase = "open"
    /\ session'.phase \in {session.phase, "error"} \/ main'.at # "status" \/ quit'
    /\ (quit => quit') /\ \A e \in late' : e.kind = "shutdown" => e \in late \/ quit'

BrowserRules ==
    Generations /\ BuiltOnce /\ QueuedForWindow /\ SecuredOK /\ OpeningOK /\ AddressOK

LEMMA FrameKeeps ==
    ASSUME BrowserTypes, BrowserTypes', BrowserRules, Frame
    PROVE  BrowserRules'
<1> USE DEF BrowserRules
<1>1. session.generation \in Nat /\ session'.generation \in Nat
    BY DEF BrowserTypes, Sessions
<1>2. session.generation <= session'.generation
    BY <1>1 DEF Frame, SessionStays, SessionFalls
<1>3. \A e \in late \cup late' : e.generation \in Nat
    BY DEF BrowserTypes, Lates
<1>4. \A g : Owns(g)' <=> Owns(g)
    BY DEF Frame, SameWindow, Owns
<1>5. \A e \in late' : e.kind \in {"compiled", "gone", "loaded", "verify"} => e \in late
    BY DEF Frame, Neutral
<1>6. Generations'
    <2>1. \A e \in late' : e.generation <= session'.generation
        <3>1. ASSUME NEW e \in late' PROVE e.generation <= session.generation
                                           \/ e.generation <= session'.generation
            BY DEF Frame, Generations, Owns
        <3> QED
            BY <1>1, <1>2, <1>3, <3>1
    <2>2. window' # Nil => window'.generation <= session'.generation
        <3>1. window' # Nil => /\ window # Nil /\ window'.generation = window.generation
                               /\ window.generation \in Nat
            BY DEF Frame, SameWindow, BrowserTypes, Windows
        <3> QED
            BY <1>1, <1>2, <3>1 DEF Generations
    <2>3. main'.generation \in {main.generation, 0, session.generation}
        BY DEF Frame, NoWork
    <2>4. main'.generation <= session'.generation
        BY <1>1, <1>2, <2>3 DEF Generations, BrowserTypes, Mains
    <2> QED
        BY <2>1, <2>2, <2>4 DEF Generations
<1>7. BuiltOnce'
    <2>1. \A e \in late' : e.kind = "compiled" /\ e.generation = session'.generation =>
             e.generation = session.generation
        BY <1>1, <1>2, <1>3, <1>5 DEF Generations
    <2>2. window = Nil => window' = Nil
        BY DEF Frame, SameWindow
    <2> QED
        BY <1>4, <1>5, <2>1, <2>2 DEF BuiltOnce
<1>8. QueuedForWindow'
    <2>1. \A e \in late' : e.kind = "load" => Owns(e.generation)
        BY DEF Frame, QueuedForWindow, Neutral
    <2>2. window # Nil => window'.stripped = window.stripped /\ window' # Nil
        BY DEF Frame, SameWindow
    <2>3. \A g : Owns(g) => window # Nil
        BY DEF Owns
    <2>4. main'.at = "verify" => main' = main
        BY DEF Frame, NoWork
    <2>5. main'.at = "reopen" => window # Nil
        BY DEF Frame, NoWork, QueuedForWindow
    <2> QED
        BY <1>4, <1>5, <2>1, <2>2, <2>3, <2>4, <2>5 DEF QueuedForWindow
<1>9. SecuredOK'
    <2>1. session'.secured => SessionStays
        BY DEF Frame, SessionFalls
    <2>2. CASE SessionStays
        BY <2>2 DEF SecuredOK, SecuredWindow, PendingOf, SessionStays, Frame, SameWindow
    <2>3. CASE ~session'.secured
        BY <2>3 DEF SecuredOK, SecuredWindow, Frame, SameWindow
    <2> QED
        BY <2>1, <2>2, <2>3
<1>10. OpeningOK'
    BY <1>4, <1>5 DEF OpeningOK, Frame, SessionStays, SessionFalls, SameWindow, Owns
<1>11. AddressOK'
    <2>1. \A e \in late' : e.kind = "shutdown" => quit'
        BY DEF AddressOK, Frame
    <2>2. CASE SessionStays
        <3>1. session'.secured /\ Owns(session.generation)' =>
                 /\ session'.url = Public(window'.page)
                 /\ main'.at = "status" => main'.url = Public(window'.page)
            BY <1>4, <2>2 DEF AddressOK, Frame, SessionStays, SameWindow, NoWork, Owns
        <3>2. main'.at = "status" =>
                 session'.phase # "opening" /\ (quit' \/ session'.phase # "closed")
            BY <2>2 DEF AddressOK, Frame, SessionStays, NoWork
        <3>3. /\ session'.phase = session.phase /\ session'.url = session.url
              /\ session'.secured = session.secured
            BY <2>2 DEF SessionStays
        <3>4. ~quit' => ~quit
            BY DEF Frame
        <3> QED
            BY <2>1, <3>1, <3>2, <3>3, <3>4 DEF AddressOK
    <2>3. CASE SessionFalls
        <3>1. main'.at = "status" =>
                 session'.phase # "opening" /\ (quit' \/ session'.phase # "closed")
            BY <2>3 DEF AddressOK, Frame, SessionFalls, NoWork
        <3> QED
            BY <2>1, <2>3, <3>1 DEF AddressOK, SessionFalls
    <2> QED
        BY <2>2, <2>3 DEF Frame
<1> QED
    BY <1>6, <1>7, <1>8, <1>9, <1>10, <1>11

-----------------------------------------------------------------------------
\* Addresses that are accepted are of pages.
LEMMA PagesAre ==
    ASSUME BrowserTypes, BrowserAssumption
    PROVE  /\ \A service \in {"home", "google", "custom"} : ServiceUrls(service) \subseteq Pages
           /\ Targets \subseteq Pages /\ Blank \in Pages /\ Pages \subseteq Addresses
           /\ window # Nil => Public(window.page) \in Addresses
           /\ \A u \in Pages : Public(u) \in Addresses
           /\ \A e \in late : e.kind \in LateKinds /\ e.generation \in Nat /\ e.url \in Addresses
BY DEF ServiceUrls, BrowserAssumption, Public, Addresses, Pages, BrowserTypes, Windows, Lates

\* Records of what comes next are records, and a navigation is of a page.
LEMMA LatesKept ==
    ASSUME BrowserTypes,
           \A e \in late' : \/ e \in late
                            \/ \E k \in LateKinds, g \in Nat, u \in Addresses :
                                  e = Late(k, g, u) /\ (k \in Leading => u \in Pages)
    PROVE  late' \subseteq Lates /\ \A e \in late' : e.kind \in Leading => e.url \in Pages
BY DEF BrowserTypes, Lates, Late

LEMMA LoadingIs ==
    ASSUME NEW g, NEW u
    PROVE  \A e \in Loading(g, u) : e \in late \/ e = Late("load", g, u)
BY DEF Loading

\* A navigation asked for replaces only the one under way.
LEMMA LoadingKeeps ==
    ASSUME BrowserInvariant, BrowserAssumption, window # Nil, NEW u \in Pages,
           late' \subseteq Loading(window.generation, u),
           \A e \in late : e.kind \notin {"load", "loaded", "history"} => e \in late'
    PROVE  /\ late' \subseteq Lates /\ \A e \in late' : e.kind \in Leading => e.url \in Pages
           /\ \A e \in late' : e \in late \/ (e.kind = "load" /\ Owns(e.generation))
           /\ \A e \in late : e.kind \in {"gone", "present", "enter", "show"} => e \in late'
<1>1. BrowserTypes /\ window.generation \in Nat
    BY DEF BrowserInvariant, BrowserTypes, Windows
<1>2. \A e \in late' : e \in late \/ e = Late("load", window.generation, u)
    BY LoadingIs
<1>3. "load" \in LateKinds /\ u \in Addresses
    BY <1>1, PagesAre DEF LateKinds
<1>4. late' \subseteq Lates /\ \A e \in late' : e.kind \in Leading => e.url \in Pages
    BY <1>1, <1>2, <1>3, LatesKept
<1> QED
    BY <1>2, <1>4 DEF Late, Owns

LEMMA Framed ==
    ASSUME BrowserInvariant, BrowserTypes', Frame, RendererOK'
    PROVE  BrowserInvariant'
BY FrameKeeps DEF BrowserInvariant, BrowserRules

\* What the renderer was told is what there is, or something is on its way that
\* tells it.
LEMMA RendererKept ==
    ASSUME RendererOK,
           \/ EmitState
           \/ /\ session' = session /\ seen' = seen
              /\ \A e \in late : e.kind \in {"present", "enter", "show"} => e \in late'
    PROVE  RendererOK'
BY DEF RendererOK, EmitState, Shown, PendingOf

\* The commands that find a window, and those that close it
LEMMA CommandsKeep ==
    ASSUME BrowserInvariant, BrowserAssumption,
           \/ \E service \in {"home", "google", "custom"} : Reopen(service)
           \/ Navigate \/ StatusRead \/ StatusWithoutWindow \/ CloseWindow \/ History
    PROVE  BrowserInvariant'
<1>1. BrowserTypes /\ RendererOK /\ session.generation \in Nat
    BY DEF BrowserInvariant, BrowserTypes, Sessions
<1>2. session.secured => session.phase = "open"
    BY DEF BrowserInvariant, SecuredOK
<1>3. CASE \E service \in {"home", "google", "custom"} : Reopen(service)
    <2>1. PICK service \in {"home", "google", "custom"} : Reopen(service)
        BY <1>3
    <2>2. UNCHANGED <<session, window, seen, quit>> /\ window # Nil
        BY <2>1 DEF Reopen
    <2>3. PICK u \in Pages : late' = late \/ late' = Loading(window.generation, u)
        BY <1>1, <2>1, PagesAre DEF Reopen
    <2>4. /\ late' \subseteq Lates /\ \A e \in late' : e.kind \in Leading => e.url \in Pages
          /\ \A e \in late' : e \in late \/ (e.kind = "load" /\ Owns(e.generation))
          /\ \A e \in late : e.kind \in {"gone", "present", "enter", "show"} => e \in late'
        <3>1. CASE late' = late
            BY <1>1, <3>1 DEF BrowserTypes
        <3>2. CASE late' = Loading(window.generation, u)
            BY <2>2, <3>2, LoadingKeeps DEF Loading
        <3> QED
            BY <2>3, <3>1, <3>2
    <2>5. main' = [at |-> "reopen", generation |-> session.generation, url |-> Nil]
        BY <2>1 DEF Reopen, Work
    <2>6. BrowserTypes'
        BY <1>1, <2>2, <2>4, <2>5 DEF BrowserTypes, Mains, Addresses
    <2>7. Frame
        BY <2>2, <2>4, <2>5 DEF Frame, SessionStays, SameWindow
    <2> QED
        BY <1>1, <2>2, <2>4, <2>6, <2>7, RendererKept, Framed
<1>4. CASE Navigate
    <2>1. UNCHANGED <<session, window, main, quit>> /\ window # Nil /\ EmitState
        BY <1>4 DEF Navigate
    <2>2. PICK u \in Pages : late' = Loading(window.generation, u)
        BY <1>1, <1>4, PagesAre DEF Navigate
    <2>3. /\ late' \subseteq Lates /\ \A e \in late' : e.kind \in Leading => e.url \in Pages
          /\ \A e \in late' : e \in late \/ (e.kind = "load" /\ Owns(e.generation))
          /\ \A e \in late : e.kind \in {"gone", "present", "enter", "show"} => e \in late'
        BY <2>1, <2>2, LoadingKeeps DEF Loading
    <2>4. BrowserTypes'
        BY <1>1, <2>1, <2>3 DEF BrowserTypes
    <2>5. Frame
        BY <2>1, <2>3 DEF Frame, SessionStays, SameWindow
    <2> QED
        BY <1>1, <2>1, <2>4, <2>5, RendererKept, Framed
<1>5. CASE StatusRead
    <2>1. UNCHANGED <<session, window, late, seen, quit>> /\ window # Nil /\ session.secured
        BY <1>5 DEF StatusRead
    <2>2. main' = [at |-> "status", generation |-> session.generation,
                   url |-> Public(window.page)]
        BY <1>5 DEF StatusRead, Work
    <2>3. BrowserTypes'
        BY <1>1, <2>1, <2>2, PagesAre DEF BrowserTypes, Mains
    <2>4. Frame
        BY <1>2, <2>1, <2>2 DEF Frame, SessionStays, SameWindow
    <2> QED
        BY <1>1, <2>1, <2>3, <2>4, RendererKept, Framed
<1>6. ASSUME main.at = "idle", UNCHANGED <<late, main, quit>>, EmitState,
             session' = Closed(session, session.generation, FALSE),
             SameWindow, window' \in Windows \cup {Nil}
      PROVE  BrowserInvariant'
    <2>1. session' \in Sessions /\ (SessionStays \/ SessionFalls)
        BY <1>1, <1>6, SessionChanges DEF BrowserTypes
    <2>2. BrowserTypes'
        BY <1>1, <1>6, <2>1 DEF BrowserTypes
    <2>3. Frame
        BY <1>6, <2>1 DEF Frame
    <2> QED
        BY <1>1, <1>6, <2>2, <2>3, RendererKept, Framed
<1>7. CASE StatusWithoutWindow
    BY <1>1, <1>6, <1>7, WindowChanges DEF StatusWithoutWindow, Idle, BrowserTypes
<1>8. CASE CloseWindow
    <2>1. SameWindow /\ window' \in Windows \cup {Nil}
        BY <1>1, <1>8, WindowChanges DEF CloseWindow, BrowserTypes
    <2> QED
        BY <1>6, <1>8, <2>1 DEF CloseWindow, Idle
<1>9. CASE History
    <2>1. UNCHANGED <<session, window, main, seen, quit>>
        BY <1>9 DEF History
    <2>2. late' = late \cup {Late("history", session.generation, Nil)}
        BY <1>9 DEF History
    <2>3. late' \subseteq Lates /\ \A e \in late' : e.kind \in Leading => e.url \in Pages
        BY <1>1, <2>2, LatesKept DEF LateKinds, Addresses, Leading
    <2>4. BrowserTypes'
        BY <1>1, <2>1, <2>3 DEF BrowserTypes
    <2>5. Frame
        BY <1>1, <2>1, <2>2 DEF Frame, SessionStays, SameWindow, Late, Neutral
    <2> QED
        BY <1>1, <2>1, <2>2, <2>4, <2>5, RendererKept, Framed
<1> QED
    BY <1>3, <1>4, <1>5, <1>7, <1>8, <1>9

\* Taking something that is under way, and what may follow from it
LEMMA TakenKeeps ==
    ASSUME BrowserTypes, NEW e \in late, NEW k \in LateKinds, NEW u \in Addresses,
           k \in Leading => u \in Pages,
           late' \in {late \ {e}, (late \ {e}) \cup {Late(k, e.generation, u)}}
    PROVE  /\ late' \subseteq Lates /\ \A f \in late' : f.kind \in Leading => f.url \in Pages
           /\ \A f \in late' : f \in late \/ (f.kind = k /\ f.generation = e.generation)
           /\ \A f \in late : f # e => f \in late'
<1>1. e.generation \in Nat
    BY DEF BrowserTypes, Lates
<1>2. \A f \in late' : f \in late \/ f = Late(k, e.generation, u)
    OBVIOUS
<1>3. late' \subseteq Lates /\ \A f \in late' : f.kind \in Leading => f.url \in Pages
    BY <1>1, <1>2, LatesKept
<1> QED
    BY <1>2, <1>3 DEF Late

\* Timers and the tasks that were spawned
LEMMA SpawnedKeep ==
    ASSUME BrowserInvariant, BrowserAssumption, NEW e \in late,
           \/ Expire(e) \/ Reject(e) \/ Drop(e) \/ Present(e) \/ Enter(e) \/ Show(e)
           \/ Shutdown(e)
    PROVE  BrowserInvariant'
<1>1. /\ BrowserTypes /\ RendererOK /\ session.generation \in Nat /\ e.generation \in Nat
      /\ session \in Sessions /\ window \in Windows \cup {Nil} /\ Generations
    BY DEF BrowserInvariant, BrowserTypes, Sessions, Lates
<1>2. e.generation <= session.generation
    BY <1>1 DEF Generations
<1>3. Nil \in Addresses /\ Blank \in Pages /\ Leading \subseteq LateKinds
    BY DEF Addresses, Pages, Leading, LateKinds
<1>4. ASSUME e.kind \notin {"gone", "shutdown"}, UNCHANGED <<main, quit>>,
             late' = late \ {e}, NEW g \in Nat,
             session' \in {session, Failed(session, g), Expired(session, g)},
             SameWindow, window' \in Windows \cup {Nil}, RendererOK'
      PROVE  BrowserInvariant'
    <2>1. session' \in Sessions /\ (SessionStays \/ SessionFalls)
        BY <1>1, <1>4, SessionChanges
    <2>2. BrowserTypes'
        BY <1>1, <1>4, <2>1 DEF BrowserTypes
    <2>3. session'.phase \in {session.phase, "error"}
        BY <1>1, <1>4 DEF Failed, Expired, Sessions
    <2>4. Frame
        BY <1>4, <2>1, <2>3 DEF Frame
    <2> QED
        BY <1>4, <2>2, <2>4, Framed
<1>5. CASE Expire(e)
    <2>1. SameWindow /\ window' \in Windows \cup {Nil} /\ RendererOK'
        BY <1>1, <1>5, WindowChanges, RendererKept DEF Expire
    <2> QED
        BY <1>1, <1>4, <1>5, <2>1 DEF Expire, Takes, Becomes
<1>6. CASE Reject(e)
    <2>1. SameWindow /\ window' \in Windows \cup {Nil} /\ RendererOK'
        BY <1>1, <1>6, WindowChanges, DestroyChanges, RendererKept DEF Reject
    <2> QED
        BY <1>1, <1>4, <1>6, <2>1 DEF Reject, Takes, Becomes
<1>7. CASE Drop(e)
    <2>1. SameWindow /\ window' \in Windows \cup {Nil}
        BY <1>1, <1>7, WindowChanges, DestroyChanges DEF Drop
    <2>2. RendererOK'
        BY <1>1, <1>7, RendererKept DEF Drop, Takes, Becomes
    <2> QED
        BY <1>1, <1>4, <1>7, <2>1, <2>2 DEF Drop, Takes, Becomes
<1>8. CASE Present(e)
    <2>1. UNCHANGED <<session, main, seen, quit>> /\ e.kind = "present"
        BY <1>8 DEF Present, Takes
    <2>2. CASE session.generation = e.generation /\ session.secured
        <3>1. late' = (late \ {e}) \cup {Late("enter", e.generation, e.url)} /\ window' = window
            BY <1>8, <2>2 DEF Present, Becomes
        <3>2. e.url \in Pages /\ e.url \in Addresses
            BY <1>1, <2>1 DEF BrowserTypes, Leading, Addresses
        <3>3. "enter" \in LateKinds
            BY DEF LateKinds
        <3>4. /\ late' \subseteq Lates /\ \A f \in late' : f.kind \in Leading => f.url \in Pages
              /\ \A f \in late' : f \in late \/ (f.kind = "enter" /\ f.generation = e.generation)
              /\ \A f \in late : f # e => f \in late'
            BY <1>1, <3>1, <3>2, <3>3, TakenKeeps
        <3>5. BrowserTypes'
            BY <1>1, <2>1, <3>1, <3>4 DEF BrowserTypes
        <3>6. Frame
            BY <1>1, <1>2, <2>1, <3>1, <3>4 DEF Frame, SessionStays, SameWindow, Neutral
        <3>7. RendererOK'
            <4>1. PICK f \in late' : f = Late("enter", e.generation, e.url)
                BY <3>1
            <4>2. f.kind = "enter" /\ f.generation = session'.generation
                BY <2>1, <2>2, <4>1 DEF Late
            <4> QED
                BY <2>1, <2>2, <4>2 DEF RendererOK, PendingOf
        <3> QED
            BY <3>5, <3>6, <3>7, Framed
    <2>3. CASE ~(session.generation = e.generation /\ session.secured)
        <3>1. late' = late \ {e} /\ SameWindow /\ window' \in Windows \cup {Nil}
            BY <1>1, <1>8, <2>3, WindowChanges, DestroyChanges DEF Present, Becomes
        <3>2. RendererOK'
            BY <1>1, <2>1, <2>3, <3>1 DEF RendererOK, PendingOf, Shown
        <3> QED
            BY <1>1, <1>4, <2>1, <3>1, <3>2
    <2> QED
        BY <2>2, <2>3
<1>9. CASE Enter(e)
    <2>1. UNCHANGED <<main, quit>> /\ e.kind = "enter"
        BY <1>9 DEF Enter, Takes
    <2>2. CASE /\ Owns(e.generation) /\ UNCHANGED <<session, window, seen>>
               /\ late' = (Loading(e.generation, e.url) \ {e})
                          \cup {Late("show", e.generation, Nil)}
        <3>1. e.url \in Pages /\ e.url \in Addresses
            BY <1>1, <2>1 DEF BrowserTypes, Leading, Addresses
        <3>2. \A f \in late' : \/ f \in late \/ f = Late("load", e.generation, e.url)
                               \/ f = Late("show", e.generation, Nil)
            BY <2>2, LoadingIs
        <3>3. "load" \in LateKinds /\ "show" \in LateKinds /\ "show" \notin Leading
            BY DEF LateKinds, Leading
        <3>4. late' \subseteq Lates /\ \A f \in late' : f.kind \in Leading => f.url \in Pages
            BY <1>1, <1>3, <3>1, <3>2, <3>3, LatesKept
        <3>5. BrowserTypes'
            BY <1>1, <2>1, <2>2, <3>4 DEF BrowserTypes
        <3>6. \A f \in late : f.kind \notin {"load", "loaded"} /\ f # e => f \in late'
            BY <2>2 DEF Loading
        <3>7. \A f \in late' : \/ f \in late \/ (f.kind = "load" /\ Owns(f.generation))
                               \/ (f.kind = "show" /\ f.generation = e.generation)
            BY <2>2, <3>2 DEF Late
        <3>8. Frame
            BY <1>1, <1>2, <2>1, <2>2, <3>6, <3>7 DEF Frame, SessionStays, SameWindow, Neutral
        <3>9. RendererOK'
            <4>1. PICK f \in late' : f = Late("show", e.generation, Nil)
                BY <2>2
            <4>2. f.kind = "show" /\ f.generation = e.generation
                BY <4>1 DEF Late
            <4>3. seen' = seen /\ Shown(session)' = Shown(session) /\ session' = session
                BY <2>2 DEF Shown
            <4> QED
                BY <1>1, <3>6, <4>2, <4>3 DEF RendererOK, PendingOf
        <3> QED
            BY <3>5, <3>8, <3>9, Framed
    <2>3. CASE /\ late' = late \ {e} /\ session' = Failed(session, e.generation)
               /\ Destroy(e.generation) /\ EmitState
        <3>1. SameWindow /\ window' \in Windows \cup {Nil} /\ RendererOK'
            BY <1>1, <2>3, WindowChanges, DestroyChanges, RendererKept
        <3> QED
            BY <1>1, <1>4, <2>1, <2>3, <3>1
    <2> QED
        BY <1>9, <2>2, <2>3 DEF Enter, Becomes
<1>10. CASE Show(e)
    <2>1. UNCHANGED <<main, quit>> /\ e.kind = "show" /\ late' = late \ {e} /\ EmitState
        BY <1>10 DEF Show, Takes, Becomes
    <2>2. window' = window \/ (window # Nil /\ window' = [window EXCEPT !.shown = TRUE])
        BY <1>10 DEF Show, Owns
    <2>3. session' = session \/ session' = [session EXCEPT !.error = "focus"]
        BY <1>10 DEF Show
    <2>4. SameWindow /\ window' \in Windows \cup {Nil}
        BY <1>1, <2>2, WindowChanges
    <2>5. session' \in Sessions /\ SessionStays
        BY <1>1, <2>3 DEF Sessions, SessionStays
    <2>6. BrowserTypes'
        BY <1>1, <2>1, <2>4, <2>5 DEF BrowserTypes
    <2>7. Frame
        BY <2>1, <2>4, <2>5 DEF Frame, SessionStays
    <2> QED
        BY <1>1, <2>1, <2>6, <2>7, RendererKept, Framed
<1>11. CASE Shutdown(e)
    <2>1. /\ UNCHANGED <<window, main, quit>> /\ e.kind = "shutdown" /\ late' = late \ {e}
          /\ EmitState /\ session' = Closed(session, e.generation, FALSE)
        BY <1>11 DEF Shutdown, Takes, Becomes
    <2>2. quit
        BY <2>1 DEF BrowserInvariant, AddressOK
    <2>3. session' \in Sessions /\ (SessionStays \/ SessionFalls)
        BY <1>1, <2>1, SessionChanges
    <2>4. BrowserTypes'
        BY <1>1, <2>1, <2>3 DEF BrowserTypes
    <2>5. Frame
        BY <2>1, <2>2, <2>3 DEF Frame, SameWindow
    <2> QED
        BY <1>1, <2>1, <2>4, <2>5, RendererKept, Framed
<1> QED
    BY <1>5, <1>6, <1>7, <1>8, <1>9, <1>10, <1>11

\* What the main thread does that leaves the window what it is
LEMMA MainKeeps ==
    ASSUME BrowserInvariant, BrowserAssumption,
           \/ Reopened \/ FollowLink \/ QuitApp
           \/ \E e \in late : Destroyed(e) \/ HistoryRuns(e)
    PROVE  BrowserInvariant'
<1>1. /\ BrowserTypes /\ RendererOK /\ session.generation \in Nat
      /\ session \in Sessions /\ window \in Windows \cup {Nil}
      /\ \A e \in late : e.generation \in Nat
    BY DEF BrowserInvariant, BrowserTypes, Sessions, Lates
<1>2. Nil \in Addresses /\ NoWork \in Mains /\ Targets \cup {Blank} \subseteq Pages
    BY <1>1, PagesAre DEF Addresses, NoWork, Mains
<1>3. CASE Reopened
    <2>1. main' = NoWork /\ UNCHANGED <<late, quit>> /\ window # Nil
        BY <1>3 DEF Reopened, BrowserInvariant, QueuedForWindow
    <2>2. window' = window \/ window' = [window EXCEPT !.shown = TRUE]
        BY <1>3 DEF Reopened
    <2>3. SameWindow /\ window' \in Windows \cup {Nil}
        BY <1>1, <2>1, <2>2, WindowChanges
    <2>4. \/ session' = session /\ seen' = seen
          \/ session' = [session EXCEPT !.error = Nil] /\ EmitState
        BY <1>3 DEF Reopened
    <2>5. session' \in Sessions /\ SessionStays
        BY <1>1, <2>4 DEF Sessions, SessionStays
    <2>6. BrowserTypes'
        BY <1>1, <1>2, <2>1, <2>3, <2>5 DEF BrowserTypes, NoWork
    <2>7. Frame
        BY <2>1, <2>3, <2>5 DEF Frame, SessionStays
    <2> QED
        BY <1>1, <2>1, <2>4, <2>6, <2>7, RendererKept, Framed
<1>4. CASE FollowLink
    <2>1. UNCHANGED <<session, window, main, seen, quit>> /\ window # Nil
        BY <1>4 DEF FollowLink
    <2>2. PICK u \in Pages : late' = Loading(window.generation, u)
        BY <1>2, <1>4 DEF FollowLink
    <2>3. /\ late' \subseteq Lates /\ \A e \in late' : e.kind \in Leading => e.url \in Pages
          /\ \A e \in late' : e \in late \/ (e.kind = "load" /\ Owns(e.generation))
          /\ \A e \in late : e.kind \in {"gone", "present", "enter", "show"} => e \in late'
        BY <2>1, <2>2, LoadingKeeps DEF Loading
    <2>4. BrowserTypes'
        BY <1>1, <2>1, <2>3 DEF BrowserTypes
    <2>5. Frame
        BY <2>1, <2>3 DEF Frame, SessionStays, SameWindow
    <2> QED
        BY <1>1, <2>1, <2>3, <2>4, <2>5, RendererKept, Framed
<1>5. CASE QuitApp
    <2>1. quit' = TRUE /\ UNCHANGED main
        BY <1>5 DEF QuitApp
    <2>2. CASE /\ session' = Closed(session, session.generation, FALSE)
               /\ IF window = Nil THEN UNCHANGED window ELSE Destroy(window.generation)
               /\ UNCHANGED late /\ EmitState
        <3>1. session' \in Sessions /\ (SessionStays \/ SessionFalls)
            BY <1>1, <2>2, SessionChanges
        <3>2. SameWindow /\ window' \in Windows \cup {Nil}
            BY <1>1, <2>2, WindowChanges, DestroyChanges
        <3>3. BrowserTypes'
            BY <1>1, <2>1, <2>2, <3>1, <3>2 DEF BrowserTypes
        <3>4. Frame
            BY <2>1, <2>2, <3>1, <3>2 DEF Frame
        <3> QED
            BY <1>1, <2>2, <3>3, <3>4, RendererKept, Framed
    <2>3. CASE /\ late' = late \cup {Late("shutdown", session.generation, Nil)}
               /\ UNCHANGED <<session, window, seen>>
        <3>1. "shutdown" \in LateKinds /\ "shutdown" \notin Leading
            BY DEF LateKinds, Leading
        <3>2. late' \subseteq Lates /\ \A e \in late' : e.kind \in Leading => e.url \in Pages
            BY <1>1, <1>2, <2>3, <3>1, LatesKept
        <3>3. BrowserTypes'
            BY <1>1, <2>1, <2>3, <3>2 DEF BrowserTypes
        <3>4. Frame
            BY <1>1, <2>1, <2>3 DEF Frame, SessionStays, SameWindow, Late, Neutral
        <3> QED
            BY <1>1, <2>3, <3>3, <3>4, RendererKept, Framed
    <2> QED
        BY <1>5, <2>2, <2>3 DEF QuitApp
<1>6. ASSUME NEW e \in late, Destroyed(e) PROVE BrowserInvariant'
    <2>1. /\ UNCHANGED <<window, main, quit>> /\ e.kind = "gone" /\ late' = late \ {e}
          /\ EmitState /\ session' = Closed(session, e.generation, TRUE) /\ main.at = "idle"
        BY <1>6 DEF Destroyed, Takes, Becomes, Idle
    <2>2. session' \in Sessions /\ (SessionStays \/ SessionFalls)
        BY <1>1, <2>1, SessionChanges
    <2>3. session'.secured => session.generation # e.generation
        BY <1>1, <2>1 DEF Closed, Sessions
    <2>4. BrowserTypes'
        BY <1>1, <2>1, <2>2 DEF BrowserTypes
    <2>5. Frame
        BY <2>1, <2>2, <2>3 DEF Frame, SameWindow
    <2> QED
        BY <1>1, <2>1, <2>4, <2>5, RendererKept, Framed
<1>7. ASSUME NEW e \in late, HistoryRuns(e) PROVE BrowserInvariant'
    <2>1. UNCHANGED <<session, window, main, quit>> /\ e.kind = "history"
        BY <1>7 DEF HistoryRuns, Takes
    <2>2. CASE late' = late \ {e} /\ seen' = seen
        <3>1. BrowserTypes'
            BY <1>1, <2>1, <2>2 DEF BrowserTypes
        <3>2. Frame
            BY <2>1, <2>2 DEF Frame, SessionStays, SameWindow
        <3> QED
            BY <1>1, <2>1, <2>2, <3>1, <3>2, RendererKept, Framed
    <2>3. CASE /\ window # Nil /\ EmitState
               /\ \E u \in Pages : late' = Loading(window.generation, u) \ {e}
        <3>1. PICK u \in Pages : late' = Loading(window.generation, u) \ {e}
            BY <2>3
        <3>2. /\ late' \subseteq Lates /\ \A f \in late' : f.kind \in Leading => f.url \in Pages
              /\ \A f \in late' : f \in late \/ (f.kind = "load" /\ Owns(f.generation))
              /\ \A f \in late : f.kind \in {"gone", "present", "enter", "show"} => f \in late'
            BY <2>1, <2>3, <3>1, LoadingKeeps DEF Loading
        <3>3. BrowserTypes'
            BY <1>1, <2>1, <3>2 DEF BrowserTypes
        <3>4. Frame
            BY <2>1, <3>2 DEF Frame, SessionStays, SameWindow
        <3> QED
            BY <1>1, <2>3, <3>3, <3>4, RendererKept, Framed
    <2> QED
        BY <1>2, <1>7, <2>2, <2>3 DEF HistoryRuns, Becomes
<1> QED
    BY <1>3, <1>4, <1>5, <1>6, <1>7

\* A window is asked for.
LEMMA OpenKeeps ==
    ASSUME BrowserInvariant, BrowserAssumption,
           \E service \in {"home", "google", "custom"} : OpenWindow(service)
    PROVE  BrowserInvariant'
<1> DEFINE g == session.generation + 1
<1>1. /\ BrowserTypes /\ BrowserRules /\ session \in Sessions /\ g \in Nat
      /\ session.generation \in Nat /\ \A e \in late : e.generation \in Nat
    BY DEF BrowserInvariant, BrowserRules, BrowserTypes, Sessions, Lates
<1>2. /\ window = Nil /\ window' = Nil /\ main.at = "idle" /\ UNCHANGED <<main, quit>>
      /\ EmitState
    BY DEF OpenWindow, Idle
<1>3. /\ session' \in {Opening(session), Failed(Opening(session), g)}
      /\ \/ \E u \in Pages : late' = late \cup {Late("compiled", g, u), Late("timer", g, Nil)}
         \/ late' = late \cup {Late("timer", g, Nil)}
    BY <1>1, PagesAre DEF OpenWindow
<1>4. /\ session'.generation = g /\ ~session'.secured /\ session'.url = Nil
      /\ session' \in Sessions
    <2>1. PICK o : o = Opening(session)
        OBVIOUS
    <2>2. o \in Sessions /\ o.generation = g /\ ~o.secured /\ o.url = Nil
        BY <1>1, <2>1, SessionsAre DEF Opening
    <2>3. Failed(o, g) = [o EXCEPT !.secured = FALSE, !.phase = "error", !.error = "gate",
                                   !.url = Nil]
        BY <2>2 DEF Failed
    <2>4. Failed(o, g) \in Sessions /\ session' \in {o, Failed(o, g)}
        BY <1>1, <1>3, <2>1, <2>2, SessionsAre
    <2> HIDE DEF g
    <2> QED
        BY <2>2, <2>3, <2>4 DEF Sessions
<1>5. PICK u \in Pages : \A e \in late' : \/ e \in late \/ e = Late("compiled", g, u)
                                          \/ e = Late("timer", g, Nil)
    BY <1>1, <1>3, PagesAre
<1>6. {"compiled", "timer"} \subseteq LateKinds /\ "timer" \notin Leading
    BY DEF LateKinds, Leading
<1> HIDE DEF g
<1>7. late' \subseteq Lates /\ \A e \in late' : e.kind \in Leading => e.url \in Pages
    BY <1>1, <1>5, <1>6, PagesAre, LatesKept DEF Addresses
<1>8. BrowserTypes'
    BY <1>1, <1>2, <1>4, <1>7 DEF BrowserTypes
<1>9. \A e \in late' \ late : /\ e.kind \in {"compiled", "timer"} /\ e.generation = g
                              /\ (e.kind = "compiled" => e = Late("compiled", g, u))
    BY <1>5 DEF Late
<1>10. \A e \in late : e.generation <= session.generation /\ e.generation < g
    BY <1>1 DEF BrowserRules, Generations, g
<1>11. \A x : ~Owns(x) /\ ~Owns(x)'
    BY <1>2 DEF Owns
<1>12. Generations'
    <2>1. \A e \in late' : e.generation <= g
        BY <1>1, <1>9, <1>10
    <2>2. main.generation <= g
        BY <1>1 DEF BrowserRules, Generations, BrowserTypes, Mains, g
    <2> QED
        BY <1>2, <1>4, <2>1, <2>2 DEF Generations
<1>13. BuiltOnce'
    <2>1. ASSUME NEW e \in late', NEW f \in late', e.kind = "compiled",
                 f.kind \in {"compiled", "gone"}, e.generation = f.generation
          PROVE  e = f
        <3>1. CASE e \in late /\ f \in late
            BY <1>1, <2>1, <3>1 DEF BrowserRules, BuiltOnce
        <3>2. CASE e \notin late /\ f \notin late
            BY <1>9, <2>1, <3>2
        <3>3. CASE (e \in late) # (f \in late)
            BY <1>1, <1>9, <1>10, <2>1, <3>3
        <3> QED
            BY <3>1, <3>2, <3>3
    <2> QED
        BY <1>2, <1>11, <2>1 DEF BuiltOnce
<1>14. QueuedForWindow'
    BY <1>1, <1>2, <1>9, <1>11 DEF BrowserRules, QueuedForWindow
<1>15. SecuredOK' /\ OpeningOK'
    BY <1>2, <1>4, <1>11 DEF SecuredOK, SecuredWindow, OpeningOK
<1>16. AddressOK'
    BY <1>1, <1>2, <1>4, <1>9 DEF BrowserRules, AddressOK
<1>17. RendererOK'
    BY <1>2 DEF RendererOK, EmitState, Shown
<1> QED
    BY <1>8, <1>12, <1>13, <1>14, <1>15, <1>16, <1>17 DEF BrowserInvariant

\* The window is looked at, and then the session written.
LEMMA StatusKeeps ==
    ASSUME BrowserInvariant, BrowserAssumption, StatusWritten
    PROVE  BrowserInvariant'
<1>1. /\ BrowserTypes /\ BrowserRules /\ session \in Sessions /\ main \in Mains
      /\ session.generation \in Nat
    BY DEF BrowserInvariant, BrowserRules, BrowserTypes, Sessions
<1>2. /\ main.at = "status" /\ main' = NoWork /\ UNCHANGED <<window, late, quit>> /\ EmitState
      /\ session' = [session EXCEPT !.url = main.url]
    BY DEF StatusWritten
<1>3. /\ session' \in Sessions /\ session'.url = main.url
      /\ \A f \in {"generation", "secured", "phase"} : session'[f] = session[f]
    BY <1>1, <1>2 DEF Sessions, Mains
<1>4. NoWork \in Mains /\ NoWork.at = "idle" /\ NoWork.generation = 0
    BY DEF NoWork, Mains, Addresses
<1>5. BrowserTypes'
    BY <1>1, <1>2, <1>3, <1>4 DEF BrowserTypes
<1>6. Generations' /\ BuiltOnce' /\ QueuedForWindow' /\ SecuredOK' /\ OpeningOK'
    BY <1>1, <1>2, <1>3, <1>4
    DEF BrowserRules, Generations, BuiltOnce, QueuedForWindow, SecuredOK, SecuredWindow,
        OpeningOK, PendingOf, Owns
<1>7. AddressOK'
    BY <1>1, <1>2, <1>3, <1>4 DEF BrowserRules, AddressOK, Owns
<1>8. RendererOK'
    BY <1>2 DEF RendererOK, EmitState, Shown
<1> QED
    BY <1>5, <1>6, <1>7, <1>8 DEF BrowserInvariant, BrowserRules

\* The blocker is compiled: the window is built, with or without what follows.
LEMMA BuiltKeeps ==
    ASSUME BrowserInvariant, BrowserAssumption, NEW e \in late, e.kind = "compiled",
           main.at = "idle", UNCHANGED <<main, quit>>, Awaited(e.generation),
           window' \in Windows, window'.generation = e.generation, window'.page = Blank,
           late' \subseteq Lates, \A f \in late' : f.kind \in Leading => f.url \in Pages,
           \A f \in late' : \/ f \in late /\ f # e
                            \/ /\ f.kind \in {"verify", "load"}
                               /\ f.generation = e.generation,
           session' \in {session, Failed(session, e.generation)},
           EmitState \/ UNCHANGED <<session, seen>>
    PROVE  BrowserInvariant'
<1>1. /\ BrowserTypes /\ BrowserRules /\ session \in Sessions /\ session.generation \in Nat
      /\ session.generation = e.generation /\ session.phase = "opening"
      /\ session.url = Nil /\ ~session.secured
    BY DEF BrowserInvariant, BrowserRules, BrowserTypes, Sessions, Awaited, SecuredOK, AddressOK
<1>2. window = Nil /\ window' # Nil
    BY <1>1, BrowserAssumption DEF BrowserAssumption, BrowserRules, BuiltOnce
<1>3. /\ session' \in Sessions /\ session'.generation = session.generation
      /\ session'.phase \in {"opening", "error"} /\ session'.url = Nil /\ ~session'.secured
    <2>1. session' = session \/ session' = [session EXCEPT !.secured = FALSE, !.phase = "error",
                                                           !.error = "gate", !.url = Nil]
        BY <1>1 DEF Failed
    <2> QED
        BY <1>1, <2>1, SessionsAre DEF Sessions
<1>4. BrowserTypes'
    BY <1>1, <1>3 DEF BrowserTypes
<1>5. \A g : ~Owns(g) /\ (Owns(g)' <=> g = e.generation)
    BY <1>2 DEF Owns
<1>6. \A f \in late' : f.kind \in {"compiled", "gone"} => f \in late /\ f.generation # e.generation
    BY <1>1 DEF BrowserRules, BuiltOnce
<1>7. Generations'
    BY <1>1, <1>2, <1>3 DEF BrowserRules, Generations
<1>8. BuiltOnce'
    BY <1>1, <1>3, <1>5, <1>6 DEF BrowserRules, BuiltOnce
<1>9. QueuedForWindow'
    BY <1>1, <1>5 DEF BrowserRules, QueuedForWindow
<1>10. SecuredOK'
    BY <1>3 DEF SecuredOK, SecuredWindow
<1>11. OpeningOK'
    BY <1>1, <1>5 DEF BrowserRules, OpeningOK, QueuedForWindow
<1>12. AddressOK'
    BY <1>1, <1>3 DEF BrowserRules, AddressOK
<1>13. RendererOK'
    <2>1. seen' = Shown(session)'
        BY <1>1 DEF BrowserInvariant, RendererOK, EmitState, Shown
    <2> QED
        BY <2>1 DEF RendererOK
<1> QED
    BY <1>4, <1>7, <1>8, <1>9, <1>10, <1>11, <1>12, <1>13 DEF BrowserInvariant

LEMMA CompiledKeeps ==
    ASSUME BrowserInvariant, BrowserAssumption, NEW e \in late, Compiled(e)
    PROVE  BrowserInvariant'
<1>1. /\ BrowserTypes /\ RendererOK /\ session \in Sessions /\ window \in Windows \cup {Nil}
      /\ e.generation \in Nat
    BY DEF BrowserInvariant, BrowserTypes, Lates
<1>2. e.kind = "compiled" /\ main.at = "idle" /\ UNCHANGED <<main, quit>> /\ e.url \in Pages
    BY <1>1 DEF Compiled, Takes, Idle, BrowserTypes, Leading
<1>3. ASSUME late' = late \ {e}, window' = window, NEW g \in Nat,
             session' \in {session, Failed(session, g)}, RendererOK'
      PROVE  BrowserInvariant'
    <2>1. session' \in Sessions /\ (SessionStays \/ SessionFalls)
        BY <1>1, <1>3, SessionChanges
    <2>2. BrowserTypes'
        BY <1>1, <1>2, <1>3, <2>1 DEF BrowserTypes
    <2>3. Frame
        BY <1>2, <1>3, <2>1 DEF Frame, SameWindow
    <2> QED
        BY <1>3, <2>2, <2>3, Framed
<1>4. \A x \in {"no", "asked", "failed"} :
          LET w == [NewWindow(e.generation) EXCEPT !.end = x]
          IN w \in Windows /\ w.generation = e.generation /\ w.page = Blank
    BY <1>1 DEF NewWindow, Windows
<1>5. CASE late' = late \ {e} /\ UNCHANGED <<session, window, seen>>
    BY <1>1, <1>2, <1>3, <1>5, RendererKept
<1>6. CASE /\ Awaited(e.generation) /\ UNCHANGED <<session, seen>>
           /\ late' = (late \ {e}) \cup {Late("verify", e.generation, e.url),
                                         Late("load", e.generation, Blank)}
           /\ window' = NewWindow(e.generation)
    <2>1. {"verify", "load"} \subseteq LateKinds /\ Blank \in Pages /\ Pages \subseteq Addresses
        BY DEF LateKinds, Pages, Addresses
    <2>2. late' \subseteq Lates /\ \A f \in late' : f.kind \in Leading => f.url \in Pages
        BY <1>1, <1>2, <1>6, <2>1, LatesKept
    <2>3. /\ window' \in Windows /\ window'.generation = e.generation /\ window'.page = Blank
        BY <1>1, <1>6 DEF NewWindow, Windows
    <2>4. \A f \in late' : \/ f \in late /\ f # e
                           \/ f.kind \in {"verify", "load"} /\ f.generation = e.generation
        BY <1>6 DEF Late
    <2> QED
        BY <1>2, <1>6, <2>2, <2>3, <2>4, BuiltKeeps
<1>7. CASE /\ Awaited(e.generation) /\ late' = late \ {e} /\ EmitState
           /\ session' = Failed(session, e.generation)
           /\ \/ window' = window
              \/ \E x \in {"asked", "failed"} :
                    window' = [NewWindow(e.generation) EXCEPT !.end = x]
    <2>1. CASE window' = window
        BY <1>1, <1>3, <1>7, <2>1, RendererKept
    <2>2. CASE \E x \in {"asked", "failed"} :
                  window' = [NewWindow(e.generation) EXCEPT !.end = x]
        <3>1. window' \in Windows /\ window'.generation = e.generation /\ window'.page = Blank
            BY <1>4, <2>2
        <3> QED
            BY <1>1, <1>2, <1>7, <3>1, BuiltKeeps DEF BrowserTypes
    <2> QED
        BY <1>7, <2>1, <2>2
<1> QED
    BY <1>5, <1>6, <1>7 DEF Compiled, Becomes

\* The window is inspected, its bridge removed, and the session looked at again.
LEMMA VerifyKeeps ==
    ASSUME BrowserInvariant, BrowserAssumption, NEW e \in late, Verify(e)
    PROVE  BrowserInvariant'
<1>1. /\ BrowserTypes /\ BrowserRules /\ RendererOK /\ session \in Sessions
      /\ window \in Windows \cup {Nil} /\ e.generation \in Nat
      /\ Nil \in Addresses /\ session.generation \in Nat
    BY DEF BrowserInvariant, BrowserRules, BrowserTypes, Lates, Addresses, Sessions
<1>2. /\ e.kind = "verify" /\ main.at = "idle" /\ UNCHANGED <<session, seen, quit>>
      /\ Owns(e.generation) /\ e.url \in Pages /\ window \in Windows
    BY <1>1
    DEF Verify, Takes, Idle, BrowserRules, QueuedForWindow, BrowserTypes, Leading, Owns
<1>3. CASE late' = (late \ {e}) \cup {Late("reject", e.generation, Nil)}
           /\ UNCHANGED <<window, main>>
    <2>1. "reject" \in LateKinds /\ "reject" \notin Leading
        BY DEF LateKinds, Leading
    <2>2. /\ late' \subseteq Lates /\ \A f \in late' : f.kind \in Leading => f.url \in Pages
          /\ \A f \in late' : f \in late \/ (f.kind = "reject" /\ f.generation = e.generation)
          /\ \A f \in late : f # e => f \in late'
        BY <1>1, <1>3, <2>1, TakenKeeps
    <2>3. BrowserTypes'
        BY <1>1, <1>2, <1>3, <2>2 DEF BrowserTypes
    <2>4. e.generation <= session.generation
        BY <1>1 DEF BrowserRules, Generations
    <2>5. Frame
        BY <1>2, <1>3, <2>2, <2>4 DEF Frame, SessionStays, SameWindow, Neutral
    <2> QED
        BY <1>1, <1>2, <2>2, <2>3, <2>5, RendererKept, Framed
<1>4. CASE /\ Awaited(e.generation) /\ late' = late \ {e}
           /\ window' = [window EXCEPT !.stripped = TRUE]
           /\ main' = [at |-> "verify", generation |-> session.generation, url |-> e.url]
    <2>1. /\ window' \in Windows /\ window' # Nil /\ window'.stripped
          /\ window'.generation = window.generation /\ window'.page = window.page
        <3>1. window' \in Windows
            BY <1>2, <1>4, WindowsAre
        <3>2. window' # Nil
            BY <3>1, BrowserAssumption DEF BrowserAssumption
        <3>3. /\ window'.stripped /\ window'.generation = window.generation
              /\ window'.page = window.page
            BY <1>2, <1>4 DEF Windows
        <3> QED
            BY <3>1, <3>2, <3>3
    <2>2. /\ session.generation = e.generation /\ ~session.secured /\ session.phase = "opening"
        BY <1>1, <1>4 DEF Awaited, BrowserRules, SecuredOK
    <2>3. \A g : Owns(g)' <=> Owns(g)
        BY <1>2, <2>1 DEF Owns
    <2>4. main' \in Mains
        BY <1>1, <1>2, <1>4 DEF Mains, Addresses
    <2>5. BrowserTypes'
        BY <1>1, <1>2, <1>4, <2>1, <2>4 DEF BrowserTypes
    <2>6. Generations' /\ BuiltOnce'
        BY <1>1, <1>2, <1>4, <2>1, <2>3 DEF BrowserRules, Generations, BuiltOnce, Owns
    <2>7. QueuedForWindow'
        BY <1>1, <1>2, <1>4, <2>1, <2>2, <2>3 DEF BrowserRules, QueuedForWindow
    <2>8. SecuredOK' /\ OpeningOK'
        BY <1>1, <1>2, <1>4, <2>1, <2>2, <2>3
        DEF BrowserRules, SecuredOK, SecuredWindow, OpeningOK, Owns
    <2>9. AddressOK'
        BY <1>1, <1>2, <1>4, <2>2 DEF BrowserRules, AddressOK
    <2>10. RendererOK'
        BY <1>1, <1>2, <1>4, RendererKept
    <2> QED
        BY <2>5, <2>6, <2>7, <2>8, <2>9, <2>10 DEF BrowserInvariant
<1> QED
    BY <1>3, <1>4 DEF Verify, Becomes, Work

LEMMA VerifiedKeeps ==
    ASSUME BrowserInvariant, BrowserAssumption, Verified
    PROVE  BrowserInvariant'
<1>1. /\ BrowserTypes /\ BrowserRules /\ RendererOK /\ session \in Sessions
      /\ main \in Mains /\ main.generation \in Nat /\ Nil \in Addresses
      /\ session.generation \in Nat
    BY DEF BrowserInvariant, BrowserRules, BrowserTypes, Mains, Addresses, Sessions
<1>2. /\ main.at = "verify" /\ main' = NoWork /\ UNCHANGED <<window, seen, quit>>
      /\ Owns(main.generation) /\ window.stripped /\ main.url \in Pages
    BY <1>1 DEF Verified, BrowserRules, QueuedForWindow, BrowserTypes
<1>3. NoWork \in Mains /\ NoWork.at = "idle" /\ NoWork.generation = 0
    BY DEF NoWork, Mains, Addresses
<1>4. {"present", "drop"} \subseteq LateKinds /\ "drop" \notin Leading /\ main.url \in Addresses
    BY <1>2 DEF LateKinds, Leading, Addresses
<1>5. main.generation <= session.generation
    BY <1>1 DEF BrowserRules, Generations
<1>6. CASE ~Awaited(main.generation)
    <2>1. late' = late \cup {Late("drop", main.generation, Nil)} /\ session' = session
        BY <1>6 DEF Verified
    <2>2. late' \subseteq Lates /\ \A f \in late' : f.kind \in Leading => f.url \in Pages
        BY <1>1, <1>4, <2>1, LatesKept
    <2>3. BrowserTypes'
        BY <1>1, <1>2, <1>3, <2>1, <2>2 DEF BrowserTypes
    <2>4. Frame
        BY <1>2, <1>3, <1>5, <2>1 DEF Frame, SessionStays, SameWindow, Late, Neutral
    <2> QED
        BY <1>1, <1>2, <2>1, <2>3, <2>4, RendererKept, Framed
<1>7. CASE Awaited(main.generation)
    <2>1. late' = late \cup {Late("present", main.generation, main.url)}
        BY <1>7 DEF Verified
    <2>2. session' = [session EXCEPT !.secured = TRUE, !.phase = "open", !.url = Blank,
                                     !.error = Nil]
        BY <1>7 DEF Verified
    <2>3. /\ session' \in Sessions /\ session'.secured /\ session'.phase = "open"
          /\ session'.url = Blank /\ session'.generation = session.generation
        BY <1>1, <2>2 DEF Sessions, Phases, Addresses, Pages
    <2>4. /\ session.generation = main.generation /\ session.phase = "opening"
        BY <1>7 DEF Awaited
    <2>5. late' \subseteq Lates /\ \A f \in late' : f.kind \in Leading => f.url \in Pages
        BY <1>1, <1>2, <1>4, <2>1, LatesKept
    <2>6. BrowserTypes'
        BY <1>1, <1>2, <1>3, <2>3, <2>5 DEF BrowserTypes
    <2>7. \A f \in late' : f \in late \/ (f.kind = "present" /\ f.generation = main.generation)
        BY <2>1 DEF Late
    <2>8. Generations' /\ BuiltOnce' /\ QueuedForWindow'
        <3>1. Generations'
            BY <1>1, <1>2, <1>3, <1>5, <2>3, <2>7 DEF BrowserRules, Generations
        <3>2. BuiltOnce'
            BY <1>1, <1>2, <2>3, <2>7 DEF BrowserRules, BuiltOnce, Owns
        <3>3. QueuedForWindow'
            BY <1>1, <1>2, <1>3, <2>7 DEF BrowserRules, QueuedForWindow, Owns
        <3> QED
            BY <3>1, <3>2, <3>3
    <2>9. window # Nil /\ window.generation = session.generation /\ window.page = Blank
        BY <1>1, <1>2, <2>4 DEF Owns, BrowserRules, OpeningOK
    <2>10. SecuredOK' /\ OpeningOK'
        BY <1>2, <2>3, <2>9 DEF SecuredOK, SecuredWindow, OpeningOK
    <2>11. AddressOK'
        <3>1. session'.url = Public(window'.page)
            BY <1>2, <2>3, <2>9 DEF Public
        <3>2. \A f \in late' : f.kind = "shutdown" => quit'
            BY <1>1, <1>2, <2>7 DEF BrowserRules, AddressOK
        <3> QED
            BY <1>2, <1>3, <2>3, <3>1, <3>2 DEF AddressOK
    <2>12. RendererOK'
        <3>1. PICK f \in late' : f = Late("present", main.generation, main.url)
            BY <2>1
        <3>2. f.kind = "present" /\ f.generation = session'.generation
            BY <2>3, <2>4, <3>1 DEF Late
        <3> QED
            BY <2>3, <3>2 DEF RendererOK, PendingOf
    <2> QED
        BY <2>6, <2>8, <2>10, <2>11, <2>12 DEF BrowserInvariant
<1> QED
    BY <1>6, <1>7

\* A navigation begins, if it is permitted then.
LEMMA LoadKeeps ==
    ASSUME BrowserInvariant, BrowserAssumption, NEW e \in late, Load(e)
    PROVE  BrowserInvariant'
<1>1. /\ BrowserTypes /\ BrowserRules /\ RendererOK /\ e.generation \in Nat
      /\ e.kind = "load" /\ e.url \in Pages /\ e.url \in Addresses /\ Owns(e.generation)
      /\ UNCHANGED <<session, window, main, seen, quit>>
    BY DEF BrowserInvariant, BrowserRules, BrowserTypes, Lates, Leading, Addresses, Load, Takes,
           QueuedForWindow
<1>2. CASE late' = late \ {e}
    <2>1. BrowserTypes'
        BY <1>1, <1>2 DEF BrowserTypes
    <2>2. Frame
        BY <1>1, <1>2 DEF Frame, SessionStays, SameWindow
    <2> QED
        BY <1>1, <1>2, <2>1, <2>2, RendererKept, Framed
<1>3. CASE /\ Permits(e.generation, e.url)
           /\ late' = (late \ {e}) \cup {Late("loaded", e.generation, e.url)}
    <2>1. /\ late' \subseteq Lates /\ \A f \in late' : f.kind \in Leading => f.url \in Pages
          /\ \A f \in late : f # e => f \in late'
        BY <1>1, <1>3, TakenKeeps DEF LateKinds
    <2>2. \A f \in late' : f \in late \/ (/\ f.kind = "loaded" /\ f.generation = e.generation
                                          /\ f.url = e.url)
        BY <1>3 DEF Late
    <2>3. session.generation = e.generation /\ (e.url # Blank => session.secured)
        BY <1>3 DEF Permits
    <2>4. session.secured => window.stripped
        BY <1>1, <2>3 DEF BrowserRules, SecuredOK, SecuredWindow, PendingOf, BuiltOnce
    <2>5. BrowserTypes'
        BY <1>1, <2>1 DEF BrowserTypes
    <2>6. Generations' /\ BuiltOnce'
        BY <1>1, <2>2 DEF BrowserRules, Generations, BuiltOnce, Owns
    <2>7. QueuedForWindow'
        BY <1>1, <2>2, <2>3, <2>4 DEF BrowserRules, QueuedForWindow, Owns
    <2>8. SecuredOK'
        BY <1>1, <2>1 DEF BrowserRules, SecuredOK, SecuredWindow, PendingOf
    <2>9. OpeningOK'
        BY <1>1, <2>2, <2>3 DEF BrowserRules, OpeningOK, SecuredOK, Owns
    <2>10. AddressOK'
        BY <1>1, <2>2 DEF BrowserRules, AddressOK, Owns
    <2>11. RendererOK'
        BY <1>1, <2>1, RendererKept
    <2> QED
        BY <2>5, <2>6, <2>7, <2>8, <2>9, <2>10, <2>11 DEF BrowserInvariant
<1> QED
    BY <1>2, <1>3 DEF Load, Becomes

\* The page is there.
LEMMA LoadedKeeps ==
    ASSUME BrowserInvariant, BrowserAssumption, NEW e \in late, Loaded(e)
    PROVE  BrowserInvariant'
<1>1. /\ BrowserTypes /\ BrowserRules /\ RendererOK /\ e.generation \in Nat
      /\ e.kind = "loaded" /\ e.url \in Pages /\ Owns(e.generation)
      /\ (e.url # Blank => window.stripped)
      /\ session \in Sessions /\ window \in Windows
    BY DEF BrowserInvariant, BrowserRules, BrowserTypes, Lates, Leading, Loaded, Takes,
           QueuedForWindow, Owns
<1>2. /\ UNCHANGED <<main, quit>> /\ late' = late \ {e} /\ main.at = "idle" /\ EmitState
      /\ window' = [window EXCEPT !.page = e.url]
      /\ session' = IF session.generation = e.generation /\ session.secured
                    THEN [session EXCEPT !.url = Public(e.url)] ELSE session
    BY DEF Loaded, Becomes, Idle
<1>3. /\ window' \in Windows /\ window' # Nil /\ window'.page = e.url
      /\ window'.generation = window.generation /\ window'.stripped = window.stripped
    <2>1. window' \in Windows
        BY <1>1, <1>2 DEF Windows, Pages
    <2>2. window' # Nil
        BY <2>1, BrowserAssumption DEF BrowserAssumption
    <2> QED
        BY <1>1, <1>2, <2>1, <2>2 DEF Windows
<1>4. Public(e.url) \in Addresses
    BY <1>1, PagesAre
<1>5. /\ session' \in Sessions
      /\ \A f \in {"generation", "secured", "phase"} : session'[f] = session[f]
      /\ session'.url = IF session.generation = e.generation /\ session.secured
                        THEN Public(e.url) ELSE session.url
    BY <1>1, <1>2, <1>4 DEF Sessions
<1>6. \A g : Owns(g)' <=> Owns(g)
    BY <1>1, <1>3 DEF Owns
<1>7. BrowserTypes'
    BY <1>1, <1>2, <1>3, <1>5 DEF BrowserTypes
<1>8. Generations' /\ BuiltOnce' /\ QueuedForWindow'
    <2>1. Generations'
        BY <1>1, <1>2, <1>3, <1>5 DEF BrowserRules, Generations, Owns
    <2>2. BuiltOnce'
        BY <1>1, <1>2, <1>5, <1>6 DEF BrowserRules, BuiltOnce, Owns
    <2>3. QueuedForWindow'
        BY <1>1, <1>2, <1>3, <1>6 DEF BrowserRules, QueuedForWindow
    <2> QED
        BY <2>1, <2>2, <2>3
<1>9. SecuredOK'
    BY <1>1, <1>2, <1>3, <1>5 DEF BrowserRules, SecuredOK, SecuredWindow, PendingOf, Owns
<1>10. OpeningOK'
    BY <1>1, <1>2, <1>3, <1>5 DEF BrowserRules, OpeningOK, Owns
<1>11. AddressOK'
    <2>1. session'.secured /\ Owns(session.generation)' => session'.url = Public(window'.page)
        BY <1>1, <1>3, <1>5 DEF Owns
    <2>2. session'.phase \in {"opening", "closed"} => session'.url = session.url
        BY <1>1, <1>5 DEF BrowserRules, SecuredOK
    <2> QED
        BY <1>1, <1>2, <1>5, <2>1, <2>2 DEF BrowserRules, AddressOK
<1>12. RendererOK'
    BY <1>1, <1>2, RendererKept
<1> QED
    BY <1>7, <1>8, <1>9, <1>10, <1>11, <1>12 DEF BrowserInvariant

\* The platform forgets the window.
LEMMA ForgetKeeps ==
    ASSUME BrowserInvariant, BrowserAssumption, Forget
    PROVE  BrowserInvariant'
<1>1. /\ BrowserTypes /\ BrowserRules /\ RendererOK /\ window # Nil /\ window' = Nil
      /\ main.at = "idle" /\ UNCHANGED <<session, main, seen, quit>>
      /\ window.generation \in Nat /\ Nil \in Addresses
    BY DEF BrowserInvariant, BrowserRules, Forget, Idle, BrowserTypes, Windows, Addresses
<1>2. /\ \A f \in late' : \/ f \in late \/ f = Late("gone", window.generation, Nil)
      /\ \A f \in late' : f.kind \in {"load", "loaded", "verify"} =>
            f \in late /\ f.generation # window.generation
      /\ \A f \in late : f.kind \in {"gone", "present", "enter", "show"} => f \in late'
      /\ Late("gone", window.generation, Nil) \in late'
    BY DEF Forget, Late
<1>3. "gone" \in LateKinds /\ "gone" \notin Leading
    BY DEF LateKinds, Leading
<1>4. late' \subseteq Lates /\ \A f \in late' : f.kind \in Leading => f.url \in Pages
    BY <1>1, <1>2, <1>3, LatesKept
<1>5. \A f \in late' : f \in late \/ (f.kind = "gone" /\ f.generation = window.generation)
    BY <1>2 DEF Late
<1>6. \A g : ~Owns(g)'
    BY <1>1 DEF Owns
<1>7. BrowserTypes'
    BY <1>1, <1>4 DEF BrowserTypes
<1>8. Generations'
    BY <1>1, <1>5 DEF BrowserRules, Generations
<1>9. BuiltOnce'
    BY <1>1, <1>5, <1>6 DEF BrowserRules, BuiltOnce, Owns
<1>10. QueuedForWindow'
    BY <1>1, <1>2, <1>6 DEF BrowserRules, QueuedForWindow, Owns
<1>11. SecuredOK'
    <2>1. ASSUME session.secured PROVE PendingOf({"gone"}, session.generation)'
        <3>1. CASE window.generation = session.generation
            <4>1. PICK f \in late' : f = Late("gone", window.generation, Nil)
                BY <1>2
            <4>2. f.kind = "gone" /\ f.generation = session'.generation
                BY <1>1, <3>1, <4>1 DEF Late
            <4> QED
                BY <4>2 DEF PendingOf
        <3>2. CASE window.generation # session.generation
            BY <1>1, <1>2, <2>1, <3>2 DEF BrowserRules, SecuredOK, SecuredWindow, PendingOf
        <3> QED
            BY <3>1, <3>2
    <2> QED
        BY <1>1, <2>1 DEF BrowserRules, SecuredOK, SecuredWindow
<1>12. OpeningOK'
    BY <1>6 DEF OpeningOK
<1>13. AddressOK'
    BY <1>1, <1>5, <1>6 DEF BrowserRules, AddressOK
<1>14. RendererOK'
    BY <1>1, <1>2, RendererKept
<1> QED
    BY <1>7, <1>8, <1>9, <1>10, <1>11, <1>12, <1>13, <1>14 DEF BrowserInvariant

-----------------------------------------------------------------------------
LEMMA BrowserStarts == BrowserInit /\ BrowserAssumption => BrowserInvariant
<1> SUFFICES ASSUME BrowserInit, BrowserAssumption PROVE BrowserInvariant
    OBVIOUS
<1> USE DEF BrowserInit
<1>1. BrowserTypes
    BY DEF BrowserTypes, Sessions, Phases, Addresses, NoWork, Mains
<1>2. Generations /\ BuiltOnce /\ QueuedForWindow
    BY DEF Generations, BuiltOnce, QueuedForWindow, NoWork
<1>3. SecuredOK /\ OpeningOK /\ AddressOK /\ RendererOK
    BY DEF SecuredOK, SecuredWindow, OpeningOK, AddressOK, RendererOK, NoWork
<1> QED
    BY <1>1, <1>2, <1>3 DEF BrowserInvariant

LEMMA BrowserKept ==
    ASSUME BrowserInvariant, BrowserAssumption, [BrowserNext]_browserVars
    PROVE  BrowserInvariant'
<1>1. CASE Commands
    BY <1>1, OpenKeeps, CommandsKeep DEF Commands
<1>2. CASE MainThread
    BY <1>2, MainKeeps, StatusKeeps, CompiledKeeps, VerifyKeeps, VerifiedKeeps, LoadKeeps,
       LoadedKeeps, ForgetKeeps
    DEF MainThread
<1>3. CASE Spawned \/ \E e \in late : Shutdown(e)
    BY <1>3, SpawnedKeep DEF Spawned
<1>4. CASE FollowLink \/ QuitApp
    BY <1>4, MainKeeps
<1>5. CASE UNCHANGED browserVars
    BY <1>5
    DEF BrowserInvariant, BrowserTypes, Generations, BuiltOnce, QueuedForWindow, SecuredOK,
        SecuredWindow, OpeningOK, AddressOK, RendererOK, PendingOf, Owns, Shown, browserVars
<1> QED
    BY <1>1, <1>2, <1>3, <1>4, <1>5 DEF BrowserNext

\* A secured browser is the window of its generation without its bridge, the
\* address shown is that of the page, and the renderer is told of every change,
\* for any addresses and any number of windows (browser.rs; browser/macos.rs).
THEOREM ConsistentBrowser == BrowserSpec => []BrowserConsistent
<1>1. BrowserInit => BrowserInvariant
    BY BrowserStarts, BrowserAssumption
<1>2. BrowserInvariant /\ [BrowserNext]_browserVars => BrowserInvariant'
    BY BrowserKept, BrowserAssumption
<1>3. BrowserInvariant => BrowserConsistent
    BY DEF BrowserInvariant, SecuredOK, AddressOK, RendererOK, BrowserConsistent, AddressShown,
           RendererFollows, PendingOf
<1> QED
    BY <1>1, <1>2, <1>3, PTL DEF BrowserSpec

\* A completion, timer, task or window event of another generation changes
\* nothing of the session (browser.rs: fail, close_session, loaded).
THEOREM EarlierBrowserForgotten == BrowserSpec => LateForgotten
<1>1. ASSUME [BrowserNext]_browserVars PROVE LateLeavesAlone
    <2>1. SUFFICES ASSUME NEW e \in late, e \notin late', e.generation # session.generation,
                          e.kind # "load", session' # session
                   PROVE  FALSE
        BY DEF LateLeavesAlone
    <2>2. CASE Commands
        <3>1. \A x \in {"home", "google", "custom"} : ~Reopen(x)
            BY <2>1 DEF Reopen
        <3> QED
            BY <2>1, <2>2, <3>1
            DEF Commands, OpenWindow, Navigate, StatusRead, StatusWithoutWindow, CloseWindow,
                History
    <2>3. CASE Reopened \/ StatusWritten \/ Verified \/ Forget \/ FollowLink
        BY <2>1, <2>3 DEF Reopened, StatusWritten, Verified, Forget, FollowLink
    <2>4. CASE QuitApp
        BY <2>1, <2>4 DEF QuitApp
    <2>5. ASSUME NEW f \in late, Compiled(f) \/ Verify(f) \/ Load(f) \/ Loaded(f)
                                 \/ Destroyed(f) \/ HistoryRuns(f)
          PROVE  FALSE
        BY <2>1, <2>5
        DEF Compiled, Verify, Load, Loaded, Destroyed, HistoryRuns, Becomes, Awaited, Closed
    <2>6. ASSUME NEW f \in late, Expire(f) \/ Reject(f) \/ Drop(f) \/ Present(f) \/ Enter(f)
                                 \/ Show(f) \/ Shutdown(f)
          PROVE  FALSE
        BY <2>1, <2>6
        DEF Expire, Reject, Drop, Present, Enter, Show, Shutdown, Becomes, Failed, Expired,
            Closed
    <2> QED
        BY <1>1, <2>1, <2>2, <2>3, <2>4, <2>5, <2>6
        DEF BrowserNext, MainThread, Spawned, browserVars
<1> QED
    BY <1>1, PTL DEF BrowserSpec, LateForgotten

=============================================================================
