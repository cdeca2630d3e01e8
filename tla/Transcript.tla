----------------------------- MODULE Transcript -----------------------------
(***************************************************************************)
(* Reading a conversation page by page while it grows, loses its pending   *)
(* entry and changes its branch: the windows of the transcript and the     *)
(* pages of the tree (transcript_window and tree_window of                 *)
(* conversations/store/sqlite.rs, with the pages that link them).          *)
(*                                                                         *)
(* An entry is its sequence number: next_message_sequence only grows, so   *)
(* an entry is numbered higher than its parent and no number comes twice.  *)
(* A page and what it shows are read under one lock.                       *)
(***************************************************************************)
EXTENDS Naturals, FiniteSets, FiniteSetsExt

CONSTANTS
    WindowSize,  \* TRANSCRIPT_WINDOW
    TreePage,    \* TREE_PAGE
    TreeScan,    \* TREE_SCAN
    ShownSize,   \* entries of a window that the byte budget lets through
    MaxEntries   \* bound: entries ever written

VARIABLES
    reader,   \* "pages" or "tree": what the user walks through
    parents,  \* the parent of each entry ever written, 0 for none
    roles,    \* its role
    entries,  \* the entries of the table
    tip,      \* active_leaf, 0 for none
    working,  \* a request is active
    view,     \* the window on the screen
    walked,   \* the entries the user met since the walk began
    listing   \* the page of the tree, and what its predecessors listed

rows == <<parents, roles, entries, tip, working>>
transcriptVars == <<reader, rows, view, walked, listing>>

-----------------------------------------------------------------------------
(* Paths and windows *)

PathTo(leaf) ==
    LET ancestors[n \in 0..MaxEntries] ==
            IF n = 0 THEN {} ELSE {n} \union ancestors[parents[n]]
    IN  ancestors[leaf]

(* The k highest (nearest the leaf) and the k lowest of a set *)
Newest(set, k) == {n \in set : Cardinality({m \in set : m > n}) < k}
Oldest(set, k) == {n \in set : Cardinality({m \in set : m < n}) < k}

NoWindow == [at |-> 0, pinned |-> 0, shown |-> {}, omitted |-> {}, before |-> FALSE,
             after |-> FALSE, earliest |-> 0, latest |-> 0]

(* message_views: the newest entries that fit, at least one; omitted_entries *)
(* links the others.                                                       *)
Fitted(read) == Newest(read, ShownSize)

Window(leaf, pinned, read, before, after, cursor) ==
    [at |-> leaf, pinned |-> pinned, shown |-> Fitted(read),
     omitted |-> read \ Fitted(read), before |-> before, after |-> after,
     earliest |-> IF read = {} THEN cursor ELSE Min(read),
     latest |-> IF read = {} THEN cursor ELSE Max(read)]

Tail(pinned) ==
    LET leaf == IF pinned = 0 THEN tip ELSE pinned IN
    Window(leaf, pinned, Newest(PathTo(leaf), WindowSize),
           Cardinality(PathTo(leaf)) > WindowSize, FALSE, 0)

Before(leaf, pinned, cursor) ==
    LET older == {n \in PathTo(leaf) : n < cursor} IN
    Window(leaf, pinned, Newest(older, WindowSize),
           Cardinality(older) > WindowSize, TRUE, cursor)

AfterFromLeaf(leaf, pinned, cursor) ==
    LET newer == {n \in PathTo(leaf) : n > cursor} IN
    Window(leaf, pinned, Newest(newer, WindowSize), TRUE, FALSE, cursor)
After(leaf, pinned, cursor) ==
    LET newer == {n \in PathTo(leaf) : n > cursor} IN
    Window(leaf, pinned, Oldest(newer, WindowSize), TRUE,
           Cardinality(newer) > WindowSize, cursor)

Around(leaf, pinned, cursor) ==
    Window(leaf, pinned, {cursor}, parents[cursor] # 0, cursor # leaf, cursor)

(* A cursor or a leaf that is gone, or a cursor off the path, is an error. *)
Found(leaf, cursor) == leaf \in entries /\ cursor \in PathTo(leaf)

(* render_transcript: after an error the latest window. *)
Shown(window, found) == IF found THEN window ELSE Tail(0)

(* What the screen leads to without another window: its own entries, and   *)
(* those it lists.                                                         *)
Met(window) == window.shown \union window.omitted

-----------------------------------------------------------------------------
(* The tree *)

NoListing == [cursor |-> 0, filter |-> "none", parent |-> 0, found |-> {},
              more |-> FALSE, at |-> 0]

Matches(n, filter) == filter = "search" => roles[n] = "User"

(* tree_window *)
NextCursor(scanned, matched) ==
    IF Cardinality(matched) > TreePage THEN Max(Oldest(matched, TreePage))
    ELSE Max(scanned)

TreeWindow(filter, parent, cursor, met) ==
    LET candidates == {n \in entries : n > cursor /\ (parent # 0 => parents[n] = parent)}
        scanned == Oldest(candidates, IF filter = "search" THEN TreeScan ELSE TreePage)
        matched == {n \in scanned : Matches(n, filter)}
        more == candidates # scanned \/ Cardinality(matched) > TreePage
    IN  [cursor |-> IF more THEN NextCursor(scanned, matched) ELSE MaxEntries,
         filter |-> filter, parent |-> parent,
         found |-> met \union Oldest(matched, TreePage), more |-> more,
         at |-> Cardinality(DOMAIN parents)]

-----------------------------------------------------------------------------
(* The conversation *)

TranscriptInit ==
    /\ reader \in {"pages", "tree"}
    /\ parents = <<>> /\ roles = <<>>
    /\ entries = {} /\ tip = 0 /\ working = FALSE
    /\ view = NoWindow /\ walked = {} /\ listing = NoListing

Written == Cardinality(DOMAIN parents)
Extend(function, n, value) == [m \in DOMAIN function \union {n} |->
                                  IF m = n THEN value ELSE function[m]]

(* A user entry and its reply below a parent *)
AppendExchange(parent) ==
    LET user == Written + 1
        reply == Written + 2
    IN  /\ reply <= MaxEntries
        /\ parents' = Extend(Extend(parents, user, parent), reply, user)
        /\ roles' = Extend(Extend(roles, user, "User"), reply, "Assistant")
        /\ entries' = entries \union {user, reply}
        /\ tip' = reply /\ working' = TRUE

SendMessage ==
    /\ ~working
    /\ AppendExchange(tip)
    /\ UNCHANGED <<reader, view, walked, listing>>

(* revise_message_with_model: the exchange becomes a sibling of the source. *)
Revise(source) ==
    /\ ~working /\ source \in entries /\ roles[source] = "User"
    /\ AppendExchange(parents[source])
    /\ UNCHANGED <<reader, view, walked, listing>>

(* settle_tool_batch: a further phase of the reply *)
NextPhase ==
    /\ working /\ Written < MaxEntries
    /\ parents' = Extend(parents, Written + 1, tip)
    /\ roles' = Extend(roles, Written + 1, "Assistant")
    /\ entries' = entries \union {Written + 1}
    /\ tip' = Written + 1
    /\ UNCHANGED <<reader, working, view, walked, listing>>

(* settle_message, pause_for_budget: a further phase that said nothing is  *)
(* taken back.                                                             *)
SettleMessage ==
    /\ working /\ working' = FALSE
    /\ \/ UNCHANGED <<entries, tip>>
       \/ /\ roles[parents[tip]] = "Assistant"
          /\ entries' = entries \ {tip}
          /\ tip' = parents[tip]
    /\ UNCHANGED <<reader, parents, roles, view, walked, listing>>

(* continue_from: a complete response that ends its phases *)
ContinueFrom(destination) ==
    /\ ~working /\ destination \in entries /\ destination # tip
    /\ roles[destination] = "Assistant"
    /\ \A n \in entries : parents[n] = destination => roles[n] = "User"
    /\ tip' = destination
    /\ UNCHANGED <<reader, parents, roles, entries, working, view, walked, listing>>

-----------------------------------------------------------------------------
(* The user *)

Open(window) ==
    /\ view' = window
    /\ walked' = Met(window)
    /\ UNCHANGED <<reader, rows, listing>>

Follow(window, found) ==
    /\ view' = Shown(window, found)
    /\ walked' = IF found THEN walked \union Met(window) ELSE Met(Tail(0))
    /\ UNCHANGED <<reader, rows, listing>>

OpenLatest == reader = "pages" /\ Open(Tail(0))

(* A tip in the tree: its whole path is inspected, the leaf stays. *)
OpenTip(leaf) ==
    /\ reader = "pages" /\ leaf \in entries
    /\ ~\E n \in entries : parents[n] = leaf
    /\ Open(Tail(leaf))

(* An entry in the tree *)
OpenEntry(entry) ==
    LET leaf == IF entry \in PathTo(tip) THEN tip ELSE entry IN
    /\ reader = "pages" /\ entry \in entries
    /\ Open(Around(leaf, leaf, entry))

LeafOf(window) == IF window.pinned = 0 THEN tip ELSE window.pinned

Earlier ==
    /\ reader = "pages" /\ view.before
    /\ Follow(Before(LeafOf(view), view.pinned, view.earliest),
              Found(LeafOf(view), view.earliest))

Later ==
    /\ reader = "pages" /\ view.after
    /\ Follow(After(LeafOf(view), view.pinned, view.latest),
              Found(LeafOf(view), view.latest))

(* An entry that the window could not show *)
OpenOmitted ==
    /\ reader = "pages"
    /\ \E n \in view.omitted :
        Follow(Around(LeafOf(view), view.pinned, n), Found(LeafOf(view), n))

(* The tree, from its beginning ... *)
OpenTree(filter, parent) ==
    /\ reader = "tree" /\ parent \in entries \union {0}
    /\ listing' = TreeWindow(filter, parent, 0, {})
    /\ UNCHANGED <<reader, rows, view, walked>>

(* ... and on; the parent is checked again. *)
MoreOfTree ==
    /\ reader = "tree" /\ listing.more
    /\ listing.parent \in entries \union {0}
    /\ listing' = TreeWindow(listing.filter, listing.parent, listing.cursor, listing.found)
    /\ UNCHANGED <<reader, rows, view, walked>>

TranscriptNext ==
    \/ SendMessage \/ NextPhase \/ SettleMessage
    \/ \E n \in entries : Revise(n) \/ ContinueFrom(n)
    \/ OpenLatest \/ OpenOmitted \/ Earlier \/ Later
    \/ \E n \in entries : OpenTip(n) \/ OpenEntry(n)
    \/ \E filter \in {"none", "search"}, parent \in entries \union {0} :
            OpenTree(filter, parent)
    \/ MoreOfTree

TranscriptSpec == TranscriptInit /\ [][TranscriptNext]_transcriptVars

-----------------------------------------------------------------------------
(* Properties *)

(* Whoever follows Earlier and Later meets every entry between those met,  *)
(* although entries were added, taken back and left for another branch     *)
(* between two clicks; a window without Earlier began with the first entry *)
(* of the conversation and one without Later ended with the leaf it was    *)
(* read for.                                                               *)
WalkHasNoGap ==
    /\ Cardinality({n \in walked : parents[n] \notin walked}) <= 1
    /\ view.at # 0 =>
        /\ view.before \/ (\E n \in walked : parents[n] = 0)
        /\ view.after \/ view.at \in walked

(* Whoever follows the pages of the tree to some point has met every entry *)
(* up to there that matches, partial results of a search included: at the  *)
(* end every matching entry that was written before the last page.         *)
TreeIsListed ==
    \A n \in entries :
        ( /\ listing.at > 0 /\ n <= listing.cursor /\ n <= listing.at
          /\ listing.parent # 0 => parents[n] = listing.parent
          /\ Matches(n, listing.filter) )
        => n \in listing.found
=============================================================================
