----------------------------- MODULE Attachments -----------------------------
(***************************************************************************)
(* Files that are attached to messages                                     *)
(* (app/src/conversations/attachments.rs, the attachment parts of          *)
(* conversations/store.rs and store/sqlite.rs) and the fork drafts that    *)
(* share them (conversations/forks.rs, slices/conversations/forks).        *)
(*                                                                         *)
(* A row names an object, the bytes under their digest.  It is staged for  *)
(* a session and a composer, or owned by a conversation.  Many rows share  *)
(* one object: the same file uploaded twice, a revised message, a fork.    *)
(* An object is removed after the transaction that deletes its last row.   *)
(***************************************************************************)
EXTENDS Integers, FiniteSets, FiniteSetsExt

CONSTANTS
    Browser,                  \* sessions
    Conversation,
    Digest,
    MAXIMUM_ATTACHMENTS,      \* ... PER_MESSAGE
    MAXIMUM_FORK_DRAFTS,
    MaxRows,                  \* bound on the ids of rows
    MaxSent,                  \* bound on the messages and queue items
    RowFaults,                \* bound on transactions that fail
    RowRestarts               \* bound on restarts

VARIABLES
    rows, objects,            \* the table and the directory
    exists,                   \* conversations that are stored
    messages,                 \* conversation -> its messages, on any branch
    queue,                    \* conversation -> its queue items
    removed,                  \* queue items that are gone, with rows to delete
    forks,                    \* ForkDrafts
    claim,                    \* the draft that a request is sending
    alive,                    \* sessions that are live
    nextRow, numbered,        \* counters
    rowFaults, rowRestarts

attachmentVars == <<rows, objects, exists, messages, queue, removed, forks, claim,
                    alive, nextRow, numbered, rowFaults, rowRestarts>>

Draft == "draft"              \* the composer of a new conversation
ForkScope == "fork"

ASSUME AttachmentsAssumed ==
    Browser \intersect Conversation = {} /\ ForkScope \notin Conversation

(* A reference keeps the id of its row and the digest.                     *)
Ref(row) == [id |-> row.id, digest |-> row.digest]

Row(id, digest, owner, scope, old) ==
    [id |-> id, digest |-> digest, owner |-> owner, scope |-> scope, old |-> old,
     message |-> 0]

IsStaged(row) == row.owner \in Browser
StagedFor(s, scope) == {row \in rows : row.owner = s /\ row.scope = scope}

(* unreferenced_digest: no row of any kind names the object.               *)
Unreferenced(digests, left) ==
    {d \in digests : \A row \in left : row.digest # d}

Digests(set) == {row.digest : row \in set}

(* Rows go in one transaction, then their objects.  A crash between the    *)
(* two keeps objects that nothing names.                                   *)
DeleteRows(gone, keep) ==
    /\ rows' = rows \ gone
    /\ objects' \in {objects \ Unreferenced(Digests(gone), rows \ gone)}
                        \union IF keep THEN {objects} ELSE {}

AttachmentsInit ==
    /\ rows = {} /\ objects = {}
    /\ exists = {}
    /\ messages = [c \in Conversation |-> {}]
    /\ queue = [c \in Conversation |-> {}]
    /\ removed = {}
    /\ forks = {}
    /\ claim = {}
    /\ alive = Browser
    /\ nextRow = 1
    /\ numbered = 1
    /\ rowFaults = 0
    /\ rowRestarts = 0

-----------------------------------------------------------------------------
(* A row that was staged an hour ago.                                      *)
Age(row) ==
    /\ IsStaged(row) /\ ~row.old
    /\ rows' = (rows \ {row}) \union {[row EXCEPT !.old = TRUE]}
    /\ UNCHANGED <<objects, exists, messages, queue, removed, forks, claim, alive,
                   nextRow, numbered, rowFaults, rowRestarts>>

ExpiredAlways == {row \in rows : IsStaged(row) /\ row.old}
Expired == {row \in rows : IsStaged(row) /\ row.old /\ row.scope # ForkScope}

(* stage_attachment, all of it under the lock of the store: old rows go,   *)
(* the object is written, the row is inserted, unless a step fails.        *)
StageInto(left, kept, s, scope, digest) ==
    IF Cardinality({row \in left : row.owner = s /\ row.scope = scope})
           >= MAXIMUM_ATTACHMENTS
    THEN /\ rows' = left
         /\ objects' = kept
         /\ UNCHANGED <<nextRow, rowFaults>>
    ELSE /\ nextRow' = nextRow + 1
         /\ \/ /\ rows' = left \union {Row(nextRow, digest, s, scope, FALSE)}
               /\ objects' = kept \union {digest}
               /\ UNCHANGED rowFaults
            \/ /\ rowFaults < RowFaults
               /\ rowFaults' = rowFaults + 1
               /\ rows' = left
               /\ objects' \in {kept, kept \union {digest}}

Upload(s, scope, digest) ==
    /\ s \in alive
    /\ nextRow <= MaxRows
    /\ StageInto(rows \ Expired,
                 objects \ Unreferenced(Digests(Expired), rows \ Expired),
                 s, scope, digest)
    /\ UNCHANGED <<exists, messages, queue, removed, forks, claim, alive, numbered,
                   rowRestarts>>

Release(s, row) ==
    /\ s \in alive
    /\ row.owner = s /\ row.scope # ForkScope
    /\ DeleteRows({row}, FALSE)
    /\ UNCHANGED <<exists, messages, queue, removed, forks, claim, alive, nextRow,
                   numbered, rowFaults, rowRestarts>>

-----------------------------------------------------------------------------
(* A claim moves staged rows to a conversation in the transaction that     *)
(* stores the message or the queue item; rows that are old are refused.    *)
Claimable(s, scope) == {row \in StagedFor(s, scope) : ~row.old}

Claimed(picked, c, message) ==
    {[row EXCEPT !.owner = c, !.message = message] : row \in picked}

Composer(c) == IF c \in exists THEN c ELSE Draft

(* The first message comes from the composer of a new conversation, which  *)
(* is stored with it (a conversation whose first message fails goes again).*)
SendMessage(s, c, picked) ==
    /\ s \in alive
    /\ c \in exists \/ messages[c] = {}
    /\ numbered <= MaxSent
    /\ picked \subseteq Claimable(s, Composer(c))
    /\ exists' = exists \union {c}
    /\ rows' = (rows \ picked) \union Claimed(picked, c, numbered)
    /\ messages' = [messages EXCEPT ![c] =
                       @ \union {[id |-> numbered,
                                  refs |-> {Ref(row) : row \in picked}]}]
    /\ numbered' = numbered + 1
    /\ UNCHANGED <<objects, queue, removed, forks, claim, alive, nextRow, rowFaults,
                   rowRestarts>>

(* A revision takes over the files of the message it replaces.             *)
Revise(s, c, source, picked) ==
    /\ s \in alive /\ c \in exists
    /\ numbered <= MaxSent
    /\ queue[c] = {}
    /\ picked \subseteq Claimable(s, c)
    /\ Cardinality(source.refs) + Cardinality(picked) <= MAXIMUM_ATTACHMENTS
    /\ rows' = (rows \ picked) \union Claimed(picked, c, numbered)
    /\ messages' = [messages EXCEPT ![c] =
                       @ \union {[id |-> numbered,
                                  refs |-> source.refs
                                              \union {Ref(row) : row \in picked}]}]
    /\ numbered' = numbered + 1
    /\ UNCHANGED <<objects, exists, queue, removed, forks, claim, alive, nextRow,
                   rowFaults, rowRestarts>>

Enqueue(s, c, picked) ==
    /\ s \in alive /\ c \in exists
    /\ numbered <= MaxSent
    /\ picked # {} /\ picked \subseteq Claimable(s, c)
    /\ rows' = (rows \ picked) \union Claimed(picked, c, 0)
    /\ queue' = [queue EXCEPT ![c] =
                    @ \union {[id |-> numbered, refs |-> {Ref(row) : row \in picked}]}]
    /\ numbered' = numbered + 1
    /\ UNCHANGED <<objects, exists, messages, removed, forks, claim, alive, nextRow,
                   rowFaults, rowRestarts>>

(* A delivered item is a message whose rows name no message.               *)
Deliver(c, item) ==
    /\ queue' = [queue EXCEPT ![c] = @ \ {item}]
    /\ messages' = [messages EXCEPT ![c] = @ \union {item}]
    /\ UNCHANGED <<rows, objects, exists, removed, forks, claim, alive, nextRow,
                   numbered, rowFaults, rowRestarts>>

(* Back into the composer of the session that asked.                       *)
ReturnItem(s, c, item) ==
    LET back == {row \in rows : Ref(row) \in item.refs} IN
    /\ s \in alive
    /\ Cardinality(StagedFor(s, c)) + Cardinality(item.refs) <= MAXIMUM_ATTACHMENTS
    /\ \A row \in back : row.owner = c /\ row.message = 0
    /\ rows' = (rows \ back) \union
                  {[row EXCEPT !.owner = s, !.scope = c, !.old = FALSE] : row \in back}
    /\ queue' = [queue EXCEPT ![c] = @ \ {item}]
    /\ UNCHANGED <<objects, exists, messages, removed, forks, claim, alive, nextRow,
                   numbered, rowFaults, rowRestarts>>

(* The item goes first, its rows in transactions of their own; a failure   *)
(* leaves the rest of them owned by the conversation.                      *)
RemoveItem(c, item) ==
    /\ queue' = [queue EXCEPT ![c] = @ \ {item}]
    /\ removed' = removed \union {[conversation |-> c, refs |-> item.refs]}
    /\ UNCHANGED <<rows, objects, exists, messages, forks, claim, alive, nextRow,
                   numbered, rowFaults, rowRestarts>>

DeleteOwned(item, ref) ==
    /\ removed' = (removed \ {item}) \union
                     ({[item EXCEPT !.refs = @ \ {ref}]} \ {[item EXCEPT !.refs = {}]})
    /\ DeleteRows({row \in rows : Ref(row) = ref /\ row.owner = item.conversation
                                      /\ row.message = 0}, FALSE)
    /\ UNCHANGED <<exists, messages, queue, forks, claim, alive, nextRow, numbered,
                   rowFaults, rowRestarts>>

DeleteOwnedFails(item) ==
    /\ rowFaults < RowFaults
    /\ rowFaults' = rowFaults + 1
    /\ removed' = removed \ {item}
    /\ UNCHANGED <<rows, objects, exists, messages, queue, forks, claim, alive,
                   nextRow, numbered, rowRestarts>>

DeleteConversation(c) ==
    /\ c \in exists
    /\ exists' = exists \ {c}
    /\ messages' = [messages EXCEPT ![c] = {[id |-> 0, refs |-> {}]}]
    /\ queue' = [queue EXCEPT ![c] = {}]
    /\ DeleteRows({row \in rows : row.owner = c}, FALSE)
    /\ UNCHANGED <<removed, forks, claim, alive, nextRow, numbered, rowFaults,
                   rowRestarts>>

-----------------------------------------------------------------------------
(* A fork copies a message and stages rows of its own for the files, so    *)
(* that they outlive the source.  The session's older draft goes, and the  *)
(* drafts of sessions that ended, with the rows they hold.                 *)
Held(drafts) == UNION {draft.refs : draft \in drafts}

Dropped(s) == {draft \in forks : draft.session = s \/ draft.session \notin alive}

Fork(s, c, message) ==
    LET refs == message.refs
        ids == nextRow .. nextRow + Cardinality(refs) - 1
        copies == CHOOSE f \in [refs -> ids] : \A a, b \in refs : a # b => f[a] # f[b]
        staged == {Row(copies[ref], ref.digest, s, ForkScope, FALSE) : ref \in refs}
        left == forks \ Dropped(s)
        fresh == IF refs = {} THEN rows ELSE rows \ Expired
        kept == {row \in fresh : IsStaged(row) => Ref(row) \notin Held(Dropped(s))}
    IN
    /\ s \in alive /\ c \in exists
    /\ nextRow + Cardinality(refs) - 1 <= MaxRows
    /\ nextRow' = nextRow + Cardinality(refs)
    /\ IF Cardinality(left) >= MAXIMUM_FORK_DRAFTS
       THEN /\ forks' = left
            /\ rows' = kept
       ELSE /\ forks' = left \union
                   {[session |-> s, refs |-> {Ref(row) : row \in staged}]}
            /\ rows' = kept \union staged
    /\ objects' = objects \ Unreferenced(Digests(rows \ kept), rows')
    /\ UNCHANGED <<exists, messages, queue, removed, claim, alive, numbered,
                   rowFaults, rowRestarts>>

(* The draft leaves the table while its request runs.                      *)
ClaimDraft(draft) ==
    /\ draft \in forks /\ draft.session \in alive
    /\ claim = {}
    /\ forks' = forks \ {draft}
    /\ claim' = {draft}
    /\ UNCHANGED <<rows, objects, exists, messages, queue, removed, alive, nextRow,
                   numbered, rowFaults, rowRestarts>>

Released(draft) == {row \in rows : IsStaged(row) /\ Ref(row) \in draft.refs}

(* The conversation gets rows of its own with the same objects, and the    *)
(* draft's rows go when the request is over.                               *)
CreateFork(c, draft) ==
    LET refs == draft.refs
        ids == nextRow .. nextRow + Cardinality(refs) - 1
        copies == CHOOSE f \in [refs -> ids] : \A a, b \in refs : a # b => f[a] # f[b]
        owned == {Row(copies[ref], ref.digest, c, Draft, FALSE) : ref \in refs}
    IN
    /\ draft \in claim
    /\ c \notin exists /\ messages[c] = {}
    /\ numbered <= MaxSent /\ nextRow + Cardinality(refs) - 1 <= MaxRows
    /\ \A ref \in refs : ref.digest \in objects
    /\ exists' = exists \union {c}
    /\ messages' = [messages EXCEPT ![c] =
                       {[id |-> numbered, refs |-> {Ref(row) : row \in owned}]}]
    /\ numbered' = numbered + 1
    /\ nextRow' = nextRow + Cardinality(refs)
    /\ claim' = {}
    /\ rows' = (rows \union owned) \ Released(draft)
    /\ objects' = objects \ Unreferenced(Digests(Released(draft)), rows')
    /\ UNCHANGED <<queue, removed, forks, alive, rowFaults, rowRestarts>>

(* A draft whose request failed comes back, unless its session made a      *)
(* newer one or there is no room.                                          *)
CreateForkFails(draft) ==
    LET returns == /\ Cardinality(forks) < MAXIMUM_FORK_DRAFTS
                   /\ \A other \in forks : other.session # draft.session
    IN
    /\ draft \in claim
    /\ rowFaults < RowFaults
    /\ rowFaults' = rowFaults + 1
    /\ claim' = {}
    /\ IF returns
       THEN /\ forks' = forks \union {draft}
            /\ UNCHANGED <<rows, objects>>
       ELSE /\ DeleteRows(Released(draft), FALSE)
            /\ UNCHANGED forks
    /\ UNCHANGED <<exists, messages, queue, removed, alive, nextRow, numbered,
                   rowRestarts>>

SessionEnds(s) ==
    /\ s \in alive
    /\ alive' = alive \ {s}
    /\ UNCHANGED <<rows, objects, exists, messages, queue, removed, forks, claim,
                   nextRow, numbered, rowFaults, rowRestarts>>

(* Sessions and fork drafts do not survive, so nothing stays staged.       *)
Restart ==
    /\ rowRestarts < RowRestarts
    /\ rowRestarts' = rowRestarts + 1
    /\ removed' = {} /\ forks' = {} /\ claim' = {}
    /\ alive' = Browser
    /\ DeleteRows({row \in rows : IsStaged(row)}, TRUE)
    /\ UNCHANGED <<exists, messages, queue, nextRow, numbered, rowFaults>>

AttachmentsNext ==
    \/ \E row \in rows : Age(row)
    \/ \E s \in Browser :
           \/ \E scope \in exists \union {Draft}, d \in Digest : Upload(s, scope, d)
           \/ \E row \in rows : Release(s, row)
           \/ SessionEnds(s)
    \/ \E s \in Browser, c \in exists :
           \/ \E picked \in SUBSET StagedFor(s, c) :
                  \/ Enqueue(s, c, picked)
                  \/ \E source \in messages[c] : Revise(s, c, source, picked)
           \/ \E message \in messages[c] : Fork(s, c, message)
           \/ \E item \in queue[c] : ReturnItem(s, c, item)
    \/ \E c \in exists :
           \/ DeleteConversation(c)
           \/ \E item \in queue[c] : Deliver(c, item) \/ RemoveItem(c, item)
    \/ \E item \in removed :
           DeleteOwnedFails(item) \/ \E ref \in item.refs : DeleteOwned(item, ref)
    \/ \E c \in Conversation :
           \/ \E s \in Browser : \E picked \in SUBSET StagedFor(s, Composer(c)) :
                  SendMessage(s, c, picked)
           \/ \E draft \in claim : CreateFork(c, draft)
    \/ \E draft \in claim : CreateForkFails(draft)
    \/ \E draft \in forks : ClaimDraft(draft)
    \/ Restart

AttachmentsSpec == AttachmentsInit /\ [][AttachmentsNext]_attachmentVars

-----------------------------------------------------------------------------
(* Every file that a message, a queue item or a fork draft names can be    *)
(* read: its row is there and belongs to that conversation or that draft,  *)
(* and so is its object; a queue item shares its rows with nothing, so     *)
(* that a file is attached once (claims, expiry, unreferenced_digest).     *)
Resolves(ref, owner) ==
    /\ \E row \in rows : Ref(row) = ref /\ row.owner = owner
    /\ ref.digest \in objects

FilesResolve ==
    /\ \A c \in exists : \A holder \in messages[c] \union queue[c] :
           \A ref \in holder.refs : Resolves(ref, c)
    /\ \A draft \in forks \union claim :
           \A ref \in draft.refs : Resolves(ref, draft.session)
    /\ \A c \in exists : \A item \in queue[c] :
           \A other \in (messages[c] \union queue[c]) \ {item} :
               item.refs \intersect other.refs = {}
=============================================================================
