------------------------------ MODULE ReadScan ------------------------------
(***************************************************************************)
(* The bounded scans behind a read (connectors/reads.rs): gmail lists the  *)
(* inbox and fetches each message, calendar lists the events of a window.  *)
(* Both stop at a number of pages and of items and say whether they left   *)
(* something out.  The provider lists entries 1..Size in order, in pages   *)
(* of its choice; Inside are the entries the result should hold.  A page   *)
(* token with nothing behind it is the provider's right.  An answer that   *)
(* breaks the protocol (too many entries, an entry or token repeated) ends *)
(* the read, as does a failed request.                                     *)
(***************************************************************************)
EXTENDS Naturals, Sequences, FiniteSets

CONSTANTS
    Kinds,      \* {"gmail", "calendar"}, or one of them
    Sizes,      \* numbers of entries of the accounts considered
    MaxItems,   \* MAX_ITEMS
    MaxPages    \* MAX_PAGES

ASSUME ScanAssumption ==
    MaxItems \in Nat \ {0} /\ MaxPages \in Nat \ {0} /\ Sizes \subseteq Nat

VARIABLES
    kind, size, inside,     \* the account, and what is read of it
    asked,      \* args.max_items
    page,       \* pages listed
    listed,     \* entries the provider has listed
    more,       \* next.is_some()
    queue,      \* entries of this page still to be fetched
    scanned, items,
    truncated,
    outcome

account == <<kind, size, inside, asked>>
scanVars == <<account, page, listed, more, queue, scanned, items, truncated, outcome>>

Remaining == IF kind = "gmail" THEN MaxItems - scanned ELSE asked - scanned

\* The provider's next page: k entries, and whether a token comes with them.
Lists(k, token) ==
    /\ outcome = "scanning" /\ queue = <<>> /\ (page = 0 \/ more)
    /\ k \in 0..Remaining /\ listed + k <= size
    /\ listed + k < size => token
    /\ page' = page + 1 /\ listed' = listed + k /\ more' = token

\* The page that was just handled was not the last, but the scan ends.
AtLimit(scans, pages) ==
    \/ scans = IF kind = "gmail" THEN MaxItems ELSE asked
    \/ pages = MaxPages

EndOfPage(token, scans, pages) ==
    IF ~token THEN outcome' = "done" /\ UNCHANGED truncated
    ELSE IF AtLimit(scans, pages) THEN outcome' = "done" /\ truncated' = TRUE
    ELSE UNCHANGED <<outcome, truncated>>

CalendarPage(k, token) ==
    /\ kind = "calendar" /\ Lists(k, token)
    /\ scanned' = scanned + k
    /\ items' = items \cup ((listed + 1)..(listed + k) \cap inside)
    /\ EndOfPage(token, scanned', page')
    /\ UNCHANGED <<account, queue>>

GmailPage(k, token) ==
    /\ kind = "gmail" /\ Lists(k, token)
    /\ queue' = [i \in 1..k |-> listed + i]
    /\ IF k = 0 THEN EndOfPage(token, scanned, page') ELSE UNCHANGED <<outcome, truncated>>
    /\ UNCHANGED <<account, scanned, items>>

\* Variant: only the token tells whether something was left out.
LeftToken(rest) == more
LeftOut(rest) == rest # <<>> \/ more

GmailMessage ==
    /\ kind = "gmail" /\ outcome = "scanning" /\ queue # <<>>
    /\ scanned' = scanned + 1
    /\ items' = items \cup ({Head(queue)} \cap inside)
    /\ IF Cardinality(items') = asked
       THEN /\ outcome' = "done" /\ truncated' = LeftOut(Tail(queue)) /\ queue' = <<>>
       ELSE /\ queue' = Tail(queue)
            /\ IF queue' = <<>> THEN EndOfPage(more, scanned', page)
                                ELSE UNCHANGED <<outcome, truncated>>
    /\ UNCHANGED <<account, page, listed, more>>

Fails ==
    /\ outcome = "scanning" /\ outcome' = "failed"
    /\ UNCHANGED <<account, page, listed, more, queue, scanned, items, truncated>>

ScanInit ==
    /\ kind \in Kinds /\ size \in Sizes /\ inside \in SUBSET (1..size)
    /\ asked \in 1..MaxItems
    /\ page = 0 /\ listed = 0 /\ more = FALSE /\ queue = <<>>
    /\ scanned = 0 /\ items = {} /\ truncated = FALSE /\ outcome = "scanning"

ScanNext ==
    \/ \E k \in 0..MaxItems, token \in BOOLEAN : CalendarPage(k, token) \/ GmailPage(k, token)
    \/ GmailMessage \/ Fails

ScanSpec == ScanInit /\ [][ScanNext]_scanVars

-----------------------------------------------------------------------------
\* A result that does not call itself truncated holds every entry of the
\* account that belongs to it (reads.rs: gmail, calendar).
CompleteUnlessTruncated == outcome = "done" /\ ~truncated => items = inside

=============================================================================
