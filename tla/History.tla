------------------------------ MODULE History -------------------------------
(***************************************************************************)
(* The list of conversations, newest first, read page by page while the    *)
(* conversations change (CatalogueView of slices/conversations/page.rs).   *)
(* The position of a page is the time and identifier of its last entry, so *)
(* no offset shifts when a conversation moves to the front.  The wall      *)
(* clock may step back; a conversation never gets an earlier time.         *)
(***************************************************************************)
EXTENDS Naturals, FiniteSets, FiniteSetsExt

CONSTANTS
    Listed,    \* conversations, numbers for their identifiers
    ListPage,  \* CATALOGUE_PAGE_SIZE
    MaxTime    \* bound of the wall clock

VARIABLES
    now,       \* now_ms
    stamps,    \* updated_at_ms of each conversation, 0 for a deleted one
    matching,  \* those that the filter and the search let through
    position,  \* <<time, conversation>> the next page continues from, or
               \* <<0, 0>> when there is none
    pages,     \* how often the walk listed each conversation
    steady     \* those nothing happened to since the walk began

historyVars == <<now, stamps, matching, position, pages, steady>>

Existing == {c \in DOMAIN stamps : stamps[c] > 0}
With(c, time) == [d \in DOMAIN stamps \union {c} |-> IF d = c THEN time ELSE stamps[d]]

(* catalogue_after *)
ComesAfter(c, place) ==
    \/ stamps[c] < place[1]
    \/ stamps[c] = place[1] /\ c > place[2]

HistoryInit ==
    /\ now = 1 /\ stamps = <<>> /\ matching = {}
    /\ position = <<0, 0>> /\ pages = [c \in Listed |-> 0] /\ steady = {}

ClockChanges ==
    /\ now' \in 1..MaxTime /\ now' # now
    /\ UNCHANGED <<stamps, matching, position, pages, steady>>

Changed(c) == steady' = steady \ {c}

Create(c) ==
    /\ c \notin DOMAIN stamps
    /\ stamps' = With(c, now)
    /\ matching' \in {matching, matching \union {c}}
    /\ Changed(c)
    /\ UNCHANGED <<now, position, pages>>

(* Any other write: the clock does not take a conversation back. *)
Stamp(c) == IF now > stamps[c] THEN now ELSE stamps[c]

Touch(c) ==
    /\ c \in Existing
    /\ stamps' = With(c, Stamp(c))
    /\ Changed(c)
    /\ UNCHANGED <<now, matching, position, pages>>

(* save_automatic_title leaves the time as it is. *)
Retitle(c) ==
    /\ c \in Existing
    /\ matching' = IF c \in matching THEN matching \ {c} ELSE matching \union {c}
    /\ Changed(c)
    /\ UNCHANGED <<now, stamps, position, pages>>

Delete(c) ==
    /\ c \in Existing
    /\ stamps' = With(c, 0)
    /\ matching' = matching \ {c}
    /\ Changed(c)
    /\ UNCHANGED <<now, position, pages>>

(* CatalogueView::from_records *)
First(candidates, k) ==
    {c \in candidates :
        Cardinality({d \in candidates : ComesAfter(c, <<stamps[d], d>>)}) < k}
LastOf(page) == CHOOSE c \in page : \A d \in page \ {c} : ComesAfter(c, <<stamps[d], d>>)

ReadPage(candidates, before) ==
    LET page == First(candidates, ListPage) IN
    /\ pages' = [c \in Listed |-> IF c \in page THEN before[c] + 1 ELSE before[c]]
    /\ position' = IF page = candidates THEN <<0, 0>>
                   ELSE <<stamps[LastOf(page)], LastOf(page)>>
    /\ UNCHANGED <<now, stamps, matching>>

OpenHistory ==
    /\ ReadPage(matching, [c \in Listed |-> 0])
    /\ steady' = matching

NextPage ==
    /\ position # <<0, 0>>
    /\ ReadPage({c \in matching : ComesAfter(c, position)}, pages)
    /\ UNCHANGED steady

HistoryNext ==
    \/ ClockChanges \/ OpenHistory \/ NextPage
    \/ \E c \in Listed : Create(c) \/ Touch(c) \/ Retitle(c) \/ Delete(c)

HistorySpec == HistoryInit /\ [][HistoryNext]_historyVars

(* A walk through the list shows no conversation twice, and at its end     *)
(* every one that nothing happened to meanwhile, however many others moved *)
(* to the front or were deleted, the one at the position included, and     *)
(* although the wall clock stepped back.                                   *)
HistoryIsListed ==
    /\ \A c \in Existing : pages[c] <= 1
    /\ position = <<0, 0>> => \A c \in steady : pages[c] = 1
=============================================================================
