-------------------------- MODULE ConversationStore --------------------------
(***************************************************************************)
(* One saved conversation and the operations of ConversationStore on it    *)
(* (app/src/conversations/store.rs over SQLite in store/sqlite.rs).        *)
(*                                                                         *)
(* Every operation holds the `database` mutex from load to commit, so it   *)
(* is one step.  It loads the active path, checks the revision its caller  *)
(* expects, edits a copy and commits it.  A commit either succeeds, fails  *)
(* and leaves the row alone (a stutter here), or ends in an I/O error that *)
(* leaves the outcome unknown: then the row is the old or the new one, and *)
(* the conversation is `uncertain` until the process restarts.             *)
(*                                                                         *)
(* Callers are left free: any job, any revision, any item, in any order.   *)
(* Conversations.tla gives them the order of the handlers and workers.     *)
(***************************************************************************)
EXTENDS Integers, FiniteSets, SequencesExt

CONSTANTS
    JobId,       \* jobs that may own a request
    QueueItem,   \* identifiers of queued messages
    Settings,    \* execution settings, as far as consent tells them apart
    NoId,        \* no job, item, approval or checkpoint
    MaxEntries,  \* bound: messages ever appended
    MaxRevision  \* bound: revision of the record

ASSUME StoreAssumption ==
    /\ NoId \notin JobId \union QueueItem \union Settings
    /\ MaxEntries \in Nat
    /\ MaxRevision \in Nat

VARIABLES
    record,     \* the conversation row and its message rows
    uncertain,  \* ConversationStore.uncertain contains the conversation
    drawn       \* queue item identifiers drawn so far: random, never repeated

storedVars == <<record, uncertain, drawn>>

Settled == {"Complete", "Failed", "Interrupted"}
MessageStatus == Settled \union {"Pending"}
Delivery == {"FollowUp", "Steering"}

(***************************************************************************)
(* A retained message.  Its `path` is the parent chain that ends in it     *)
(* (load_messages walks the parents), so a message belongs to every branch *)
(* that extends its path.  A row that was deleted keeps its number.        *)
(***************************************************************************)
Message(role, status, job, item) ==
    [role |-> role, status |-> status, request |-> job, item |-> item,
     final_phase |-> FALSE, text |-> FALSE, path |-> <<>>]

UserMessage(item) ==
    [Message("User", "Complete", NoId, item) EXCEPT !.text = TRUE]
PendingPhase(job) == Message("Assistant", "Pending", job, NoId)
CommandMessage(job) == Message("Command", "Pending", job, NoId)
Deleted == Message("Deleted", "Failed", NoId, NoId)

Missing == [exists |-> FALSE]
Gone == [exists |-> FALSE, deleted |-> TRUE]

(* ConversationRecord.messages: the path selected by the active leaf.      *)
Path(r) == IF r.leaf = 0 THEN <<>> ELSE r.entries[r.leaf].path
Before(path) == SubSeq(path, 1, Len(path) - 1)

PushMessage(r, message) ==
    LET id == Len(r.entries) + 1
    IN [r EXCEPT !.leaf = id,
                 !.entries = Append(@, [message EXCEPT
                                           !.path = Append(Path(r), id)])]

PopMessage(r) ==
    LET rest == Before(Path(r))
    IN [r EXCEPT !.leaf = IF rest = <<>> THEN 0 ELSE Last(rest)]

(* `began` is a history field: what the active or last job was begun for.  *)
BeginWork(r, message, kind) ==
    [PushMessage(r, message) EXCEPT !.active_job = message.request,
                                    !.began = kind]
BeginRequest(r, job, item) ==
    BeginWork(PushMessage(r, UserMessage(item)), PendingPhase(job), "message")

(* The pending message of a request, as active_assistant finds it.         *)
PendingOf(r, job) ==
    {i \in Range(Path(r)) : /\ r.entries[i].request = job
                            /\ r.entries[i].status = "Pending"}
ActiveAssistant(r, job) == r.active_job = job /\ PendingOf(r, job) # {}

SettleEntry(r, job, status, final, text) ==
    LET id == Max(PendingOf(r, job))
    IN [r EXCEPT !.entries[id].status = status,
                 !.entries[id].final_phase = final,
                 !.entries[id].text = @ \/ text]

(* A reply boundary can be branched from: a settled final response.        *)
Branchable(r, path) ==
    /\ path # <<>>
    /\ LET last == r.entries[Last(path)]
       IN last.role = "Assistant" /\ last.status = "Complete" /\ last.final_phase

Queued(r) == {r.queue[k].id : k \in DOMAIN r.queue}
PlaceOf(r, item) == CHOOSE k \in DOMAIN r.queue : r.queue[k].id = item
ItemOf(r, item) == r.queue[PlaceOf(r, item)]
Dequeue(r, item) ==
    [r EXCEPT !.queue = RemoveAt(@, PlaceOf(r, item)),
              !.queue_revision = @ + 1]

Selected(r, settings) ==
    [r EXCEPT !.settings = settings,
              !.approved = IF r.settings = settings THEN @ ELSE NoId]

Advance(r) == [r EXCEPT !.revision = @ + 1]

-----------------------------------------------------------------------------
(***************************************************************************)
(* Commit: write_messages deletes the rows of the previous path that the   *)
(* new one no longer names, and keeps every other branch.                  *)
(***************************************************************************)
Written(previous, new) ==
    [new EXCEPT !.entries =
        [i \in DOMAIN new.entries |->
            IF i \in Range(previous) \ Range(Path(new))
            THEN Deleted ELSE new.entries[i]]]

CommitOnly(written, result) ==
    \/ /\ result = "ok"
       /\ record' = written
       /\ UNCHANGED uncertain
    \/ /\ result = "unsettled"
       /\ record' \in {record, written}
       /\ uncertain' = TRUE

CommitResult(written, result) == CommitOnly(written, result) /\ UNCHANGED drawn

RequireDurable == ~uncertain

Persist(new, result) == CommitResult(Written(Path(record), new), result)

Update(new, result) == RequireDurable /\ Persist(new, result)
Replace(revision, new, result) ==
    /\ revision = record.revision
    /\ Update(Advance(new), result)

Idle == record.exists /\ record.active_job = NoId
Quiet == Idle /\ record.continuation = NoId /\ record.queue = <<>>

-----------------------------------------------------------------------------
(* create_saved and create_fork.  The identifier is drawn just before, so  *)
(* a conversation is created once.  A fork starts with copied messages     *)
(* that end in a settled response.                                         *)
Empty(settings, approved) ==
    [exists |-> TRUE, revision |-> 1, active_job |-> NoId, leaf |-> 0,
     entries |-> <<>>, continuation |-> NoId, queue |-> <<>>,
     queue_revision |-> 1, began |-> "nothing", settings |-> settings, approved |-> approved,
     title_pending |-> TRUE]

Copied(r) ==
    PushMessage(PushMessage(r, UserMessage(NoId)),
        [Message("Assistant", "Complete", NoId, NoId)
            EXCEPT !.final_phase = TRUE, !.text = TRUE])

CreateSaved(settings, approved, result) ==
    /\ record = Missing
    /\ ~uncertain
    /\ CommitResult(Empty(settings, approved), result)

CreateFork(settings, result) ==
    /\ record = Missing
    /\ ~uncertain
    /\ CommitResult(Copied(Empty(settings, NoId)), result)

(* delete_many, for one conversation.  The row is gone for good.           *)
Delete(revision, result) ==
    /\ RequireDurable
    /\ Idle
    /\ revision = record.revision
    /\ CommitResult(Gone, result)

-----------------------------------------------------------------------------
(* Mutated operations, each a slip the code guards against.  Nothing below *)
(* uses them: they stand in for the operation of the same shape to show    *)
(* that the properties at the end can fail.                                *)

ContinueFromWhilePaused(revision, destination, result) ==
    /\ Idle
    /\ RequireDurable
    /\ revision = record.revision
    /\ Branchable(record, record.entries[destination].path)
    /\ CommitResult(Advance([record EXCEPT !.leaf = destination]), result)

DeliverWithoutDequeue(job, item, result) ==
    /\ record.exists
    /\ ActiveAssistant(record, job)
    /\ item \in Queued(record)
    /\ ItemOf(record, item).delivery = "Steering"
    /\ ItemOf(record, item).job = job
    /\ Update(BeginRequest(SettleEntry(record, job, "Complete", TRUE, TRUE),
                           job, item), result)

DeliverToAnyJob(job, item, result) ==
    /\ record.exists
    /\ ActiveAssistant(record, job)
    /\ item \in Queued(record)
    /\ ItemOf(record, item).delivery = "Steering"
    /\ Update(BeginRequest(
                  Dequeue(SettleEntry(record, job, "Complete", TRUE, TRUE), item),
                  job, item), result)

BeginMessageUnversioned(revision, job, settings, result) ==
    /\ Idle
    /\ Update(Advance(BeginRequest(Selected(record, settings), job, NoId)),
              result)

(* The pending phase is dropped even when something was streamed to it.    *)
PauseDroppingPhase(job, reply) ==
    IF ~reply THEN PopMessage(record)
    ELSE SettleEntry(record, job, "Complete", FALSE, TRUE)

-----------------------------------------------------------------------------
(* Starting a request.  begin_message does not look at the continuation:   *)
(* its callers do, in the record whose revision they pass.                 *)
BeginMessage(revision, job, settings, result) ==
    /\ Idle
    /\ Replace(revision, BeginRequest(Selected(record, settings), job, NoId),
               result)

(* revise_message: a new branch from the parent of a user message.  The    *)
(* previous projection is the parent path, so nothing is deleted.          *)
Revise(revision, source, job, settings, result) ==
    /\ Quiet
    /\ RequireDurable
    /\ revision = record.revision
    /\ record.entries[source].role = "User"
    /\ LET parents == Before(record.entries[source].path)
           branch == [Selected(record, settings) EXCEPT
                         !.leaf = IF parents = <<>> THEN 0 ELSE Last(parents)]
       IN /\ parents = <<>> \/ Branchable(record, parents)
          /\ CommitResult(Written(parents,
                 Advance(BeginRequest(branch, job, NoId))), result)

(* continue_from: an earlier response becomes the active leaf.             *)
ContinueFrom(revision, destination, result) ==
    /\ Quiet
    /\ RequireDurable
    /\ revision = record.revision
    /\ Branchable(record, record.entries[destination].path)
    /\ CommitResult(Advance([record EXCEPT !.leaf = destination]), result)

BeginCommand(revision, job, settings, result) ==
    /\ Quiet
    /\ Replace(revision,
               BeginWork(Selected(record, settings), CommandMessage(job),
                         "command"), result)

BeginCompaction(revision, job, result) ==
    /\ Idle
    /\ record.continuation = NoId
    /\ Replace(revision,
               BeginWork(record, PendingPhase(job), "compaction"), result)

(* claim_continuation keeps the checkpoint until the request settles.      *)
ClaimContinuation(revision, checkpoint, job, result) ==
    /\ Idle
    /\ record.continuation # NoId
    /\ record.continuation.id = checkpoint
    /\ Replace(revision,
               BeginWork(record, PendingPhase(job), "message"), result)

BeginFollowUp(revision, queue_revision, item, job, settings, result) ==
    /\ Idle
    /\ queue_revision = record.queue_revision
    /\ item \in Queued(record)
    /\ ItemOf(record, item).delivery = "FollowUp"
    /\ settings = record.settings
    /\ ItemOf(record, item).settings = settings
    /\ Replace(revision, BeginRequest(Dequeue(record, item), job, item), result)

-----------------------------------------------------------------------------
(* While a request runs: none of these advances the revision.              *)
UpdateOutput(job, result) ==
    /\ record.exists
    /\ record.active_job = job
    /\ record.leaf \in PendingOf(record, job)
    /\ record.entries[record.leaf].role = "Assistant"
    /\ RequireDurable
    /\ CommitResult([record EXCEPT !.entries[record.leaf].text = TRUE], result)

SettleToolBatch(job, result) ==
    /\ record.exists
    /\ ActiveAssistant(record, job)
    /\ Update(PushMessage(SettleEntry(record, job, "Complete", FALSE, TRUE),
                          PendingPhase(job)), result)

DeliverSteering(job, item, result) ==
    /\ record.exists
    /\ ActiveAssistant(record, job)
    /\ item \in Queued(record)
    /\ ItemOf(record, item).delivery = "Steering"
    /\ ItemOf(record, item).job = job
    /\ Update(BeginRequest(
                  Dequeue(SettleEntry(record, job, "Complete", TRUE, TRUE), item),
                  job, item), result)

-----------------------------------------------------------------------------
(* Ending a request.                                                       *)
SettleMessage(job, status, reply, result) ==
    /\ record.exists
    /\ ActiveAssistant(record, job)
    /\ status \in Settled
    /\ Update(Advance([SettleEntry(record, job, status, TRUE, reply) EXCEPT
                          !.active_job = NoId, !.continuation = NoId]), result)

SettleCommand(job, status, result) ==
    /\ record.exists
    /\ record.active_job = job
    /\ \E i \in Range(Path(record)) :
          record.entries[i].request = job /\ record.entries[i].role = "Command"
    /\ status \in Settled
    /\ Update([SettleEntry(record, job, status, FALSE, TRUE) EXCEPT
                  !.active_job = NoId, !.continuation = NoId], result)

(* pause_for_budget drops a pending phase that never said anything, and    *)
(* otherwise completes it.  The boundary is the last complete response.    *)
Paused(job, reply) ==
    IF ~reply /\ ~record.entries[Max(PendingOf(record, job))].text
    THEN PopMessage(record)
    ELSE SettleEntry(record, job, "Complete", FALSE, TRUE)

CompleteResponses(r) ==
    {i \in Range(Path(r)) : /\ r.entries[i].role = "Assistant"
                            /\ r.entries[i].status = "Complete"}

PauseForBudget(job, reply, result) ==
    /\ record.exists
    /\ ActiveAssistant(record, job)
    /\ CompleteResponses(Paused(job, reply)) # {}
    /\ LET checkpoint == [id |-> record.revision + 1,
                          boundary |-> Max(CompleteResponses(Paused(job, reply)))]
       IN Update(Advance([Paused(job, reply) EXCEPT
                             !.active_job = NoId,
                             !.continuation = checkpoint]), result)

(* finish_compaction: an error stays in the transcript, a success leaves   *)
(* no message behind.                                                      *)
FinishCompaction(job, failed, result) ==
    /\ record.exists
    /\ record.active_job = job
    /\ Path(record) # <<>>
    /\ LET ended == IF failed
                    THEN [record EXCEPT !.entries[record.leaf].status = "Failed"]
                    ELSE PopMessage(record)
       IN Update([ended EXCEPT !.active_job = NoId], result)

ClearContinuation(revision, checkpoint, result) ==
    /\ Idle
    /\ record.continuation # NoId
    /\ record.continuation.id = checkpoint
    /\ Replace(revision, [record EXCEPT !.continuation = NoId], result)

-----------------------------------------------------------------------------
(* The queue has a revision of its own.                                    *)
Enqueue(queue_revision, item, delivery, job, result) ==
    /\ record.exists
    /\ queue_revision = record.queue_revision
    /\ delivery = "Steering" => job # NoId /\ job = record.active_job
    /\ item \notin drawn
    /\ drawn' = drawn \union {item}
    /\ RequireDurable
    /\ CommitOnly([record EXCEPT
                     !.queue = Append(@, [id |-> item, delivery |-> delivery,
                                          job |-> job,
                                          settings |-> record.settings]),
                     !.queue_revision = @ + 1], result)

(* remove_queue_item and return_queue_item take the item out the same way; *)
(* they differ in its attachments.                                         *)
RemoveQueueItem(queue_revision, item, result) ==
    /\ record.exists
    /\ queue_revision = record.queue_revision
    /\ item \in Queued(record)
    /\ Update(Dequeue(record, item), result)

(* select_model, apply_preset, update_execution_settings and the directory *)
(* edits: the settings change while nothing runs.                          *)
SelectSettings(revision, settings, result) ==
    /\ Idle
    /\ Replace(revision, Selected(record, settings), result)

(* record_directory_approval, for the settings the caller read.            *)
ApproveDirectory(revision, result) ==
    /\ record.exists
    /\ Replace(revision, [record EXCEPT !.approved = record.settings], result)

Rename(revision, result) ==
    /\ record.exists
    /\ Replace(revision, [record EXCEPT !.title_pending = FALSE], result)

(* claim_title needs an answered prompt and no particular revision.        *)
Answered(r, path) ==
    \E k \in 1..Len(path) - 1 :
        LET reply == r.entries[path[k + 1]]
        IN /\ r.entries[path[k]].role = "User"
           /\ reply.role = "Assistant"
           /\ reply.status # "Pending"
           /\ reply.text

ClaimTitle(result) ==
    /\ record.exists
    /\ record.title_pending
    /\ Answered(record, Path(record))
    /\ Update(Advance([record EXCEPT !.title_pending = FALSE]), result)

-----------------------------------------------------------------------------
(* A crash and the next start: interrupt_requests settles what was active, *)
(* and the new process knows of no uncertain commit.                       *)
InterruptedRequest(r) ==
    IF ~r.exists \/ r.active_job = NoId THEN r
    ELSE LET asked == {i \in Range(Path(r)) : r.entries[i].request = r.active_job}
             last == Max(asked)
             settled == Advance([r EXCEPT !.active_job = NoId])
         IN IF asked = {} THEN settled
            ELSE [settled EXCEPT
                    !.entries[last].status = "Interrupted",
                    !.entries[last].final_phase = r.entries[last].role = "Assistant"]

Restart ==
    /\ record' = InterruptedRequest(record)
    /\ uncertain' = FALSE
    /\ UNCHANGED drawn

-----------------------------------------------------------------------------
StoreInit ==
    /\ record = Missing
    /\ uncertain = FALSE
    /\ drawn = {}

Within ==
    record'.exists => /\ Len(record'.entries) <= MaxEntries
                      /\ record'.revision <= MaxRevision

(* Every argument a caller may pass: what it expects may be stale.         *)
Stale == 1..MaxRevision

CreateStep(result) ==
    \/ \E s \in Settings : \/ \E a \in {NoId, s} : CreateSaved(s, a, result)
                           \/ CreateFork(s, result)
    \/ \E v \in Stale : Delete(v, result)

Fresh(j) ==
    record.exists => \A i \in DOMAIN record.entries : record.entries[i].request # j

BeginStep(v, j, result) ==
    \/ \E s \in Settings :
          \/ BeginMessage(v, j, s, result)
          \/ BeginCommand(v, j, s, result)
          \/ record.exists /\ \E i \in DOMAIN record.entries :
                Revise(v, i, j, s, result)
          \/ \E w \in Stale, q \in QueueItem :
                BeginFollowUp(v, w, q, j, s, result)
    \/ BeginCompaction(v, j, result)
    \/ \E c \in Stale : ClaimContinuation(v, c, j, result)

(* A job is settled by the kind of task that began it.                     *)
MessageStep(j, result) ==
    \/ UpdateOutput(j, result)
    \/ SettleToolBatch(j, result)
    \/ \E q \in QueueItem : DeliverSteering(j, q, result)
    \/ \E status \in Settled, reply \in BOOLEAN :
          SettleMessage(j, status, reply, result)
    \/ \E reply \in BOOLEAN : PauseForBudget(j, reply, result)

WorkStep(j, result) ==
    \/ record.exists /\ record.began = "message" /\ MessageStep(j, result)
    \/ \E status \in Settled : SettleCommand(j, status, result)
    \/ /\ record.exists /\ record.began = "compaction"
       /\ \E failed \in BOOLEAN : FinishCompaction(j, failed, result)

EditStep(v, result) ==
    \/ record.exists /\ \E i \in DOMAIN record.entries :
          ContinueFrom(v, i, result)
    \/ \E c \in Stale : ClearContinuation(v, c, result)
    \/ \E s \in Settings : SelectSettings(v, s, result)
    \/ ApproveDirectory(v, result)
    \/ Rename(v, result)
    \/ ClaimTitle(result)

QueueStep(w, q, result) ==
    \/ \E d \in Delivery, j \in JobId \union {NoId} :
          Enqueue(w, q, d, j, result)
    \/ RemoveQueueItem(w, q, result)

StoreStep(result) ==
    \/ CreateStep(result)
    \/ \E v \in Stale, j \in JobId : Fresh(j) /\ BeginStep(v, j, result)
    \/ \E j \in JobId : WorkStep(j, result)
    \/ \E v \in Stale : EditStep(v, result)
    \/ \E w \in Stale, q \in QueueItem : QueueStep(w, q, result)

StoreNext ==
    \/ \E result \in {"ok", "unsettled"} : StoreStep(result) /\ Within
    \/ Restart

StoreSpec == StoreInit /\ [][StoreNext]_storedVars

-----------------------------------------------------------------------------
Checkpoint == [id : Nat, boundary : Nat]
Entries ==
    [role : {"User", "Assistant", "Command", "Deleted"},
     status : MessageStatus, request : JobId \union {NoId},
     item : QueueItem \union {NoId}, final_phase : BOOLEAN, text : BOOLEAN,
     path : Seq(Nat)]
Item == [id : QueueItem, delivery : Delivery, job : JobId \union {NoId},
         settings : Settings]

Record ==
    [exists : {TRUE}, revision : Nat \ {0}, active_job : JobId \union {NoId},
     leaf : Nat, entries : Seq(Entries),
     continuation : Checkpoint \union {NoId}, queue : Seq(Item),
     queue_revision : Nat \ {0},
     began : {"nothing", "message", "command", "compaction"}, settings : Settings,
     approved : Settings \union {NoId}, title_pending : BOOLEAN]

TypeOK ==
    /\ record \in Record \union {Missing, Gone}
    /\ uncertain \in BOOLEAN
    /\ drawn \subseteq QueueItem

(* What record_from_parts accepts.  Every operation begins with a load, so *)
(* a row that breaks this could never be changed or deleted again:         *)
(* a request is active exactly when the last message of the active path,   *)
(* and no other, is pending for it, and a checkpoint names a complete      *)
(* response of that path.                                                  *)
RequestMatchesLeaf(r) ==
    LET pending == {i \in Range(Path(r)) : r.entries[i].status = "Pending"}
    IN IF r.active_job = NoId THEN pending = {}
       ELSE pending = {r.leaf} /\ r.entries[r.leaf].request = r.active_job

CheckpointIsOnPath(r) ==
    r.continuation # NoId => r.continuation.boundary \in CompleteResponses(r)

RecordLoads ==
    record.exists => RequestMatchesLeaf(record) /\ CheckpointIsOnPath(record)

(* Every retained message can be reached by its parents, over every branch *)
(* and not only the active one.                                            *)
BranchesAreWhole ==
    record.exists =>
        \A i \in DOMAIN record.entries :
            LET e == record.entries[i]
            IN e.role # "Deleted" =>
                  /\ Last(e.path) = i
                  /\ \A k \in DOMAIN e.path :
                        /\ record.entries[e.path[k]].role # "Deleted"
                        /\ record.entries[e.path[k]].path = SubSeq(e.path, 1, k)

(* Directory consent is for the settings in force since it was given:      *)
(* store.rs "Reverting settings must not resurrect consent".               *)
ConsentMatchesSettings ==
    record.exists => record.approved \in {NoId, record.settings}

(* The stored row stays sound under every sequence of calls: typed, loaded *)
(* by the next operation, with all its branches, and without a consent for *)
(* other settings.                                                         *)
RecordIsSound ==
    TypeOK /\ RecordLoads /\ BranchesAreWhole /\ ConsentMatchesSettings

(* A queued message is in one place: still queued, delivered as one user   *)
(* message, or taken back.  Neither a stale form nor an uncertain commit   *)
(* delivers it twice or keeps a delivered one queued.                      *)
ItemInOnePlace ==
    record.exists =>
        \A q \in QueueItem :
            Cardinality({i \in DOMAIN record.entries :
                            record.entries[i].item = q})
            + Cardinality({k \in DOMAIN record.queue :
                            record.queue[k].id = q}) <= 1

(* Until the conversation is deleted, a settled message never changes and  *)
(* what was streamed never disappears: branching, compaction, pause and    *)
(* restart drop at most a pending phase that said nothing.                 *)
HistoryIsKept ==
    [][record.exists /\ record'.exists =>
        \A i \in DOMAIN record.entries :
            LET old == record.entries[i]
                new == record'.entries[i]
            IN /\ i \in DOMAIN record'.entries
               /\ old.status \in Settled => new = old
               /\ old.text => new.text /\ new.role = old.role]_storedVars

(* Steering reaches the request it was written for while that request is   *)
(* active and never a later one: it waits in the queue until the user takes*)
(* it back (deliver_steering).                                             *)
SteeringStaysWithItsRequest ==
    [][record.exists /\ record'.exists =>
        \A k \in DOMAIN record.queue :
            LET q == record.queue[k]
            IN /\ q.delivery = "Steering"
               /\ \E i \in DOMAIN record'.entries : record'.entries[i].item = q.id
               => record.active_job = q.job]_storedVars

=============================================================================
