---------------------------- MODULE Conversations ----------------------------
(***************************************************************************)
(* The handlers and tasks that work on one saved conversation              *)
(* (app/src/slices/conversations, app/src/execution/conversation.rs).      *)
(*                                                                         *)
(* A handler loads the record once, checks it, awaits its preflight, then  *)
(* registers a job with the session store, then commits the start of the   *)
(* request, and then spawns a task.  The task streams into the pending     *)
(* message, settles it and releases the registration.  Between any two of  *)
(* these steps other handlers, other tasks and a crash may act: what holds *)
(* the order together is the revision read at the beginning, the           *)
(* registration, and the durable active job.                               *)
(*                                                                         *)
(* `registered` is the conversation's entry of conversation_jobs;          *)
(* SessionStore.tla models that registry with its sessions and tokens.     *)
(***************************************************************************)
EXTENDS ConversationStore

CONSTANT Handler    \* request handlers and follow-up tasks at work

VARIABLES
    registered, \* the job in conversation_jobs, or NoId
    worker,     \* what each job was begun for and how far it came
    handler     \* what each handler has read and registered

workVars == <<registered, worker, handler>>
allVars == <<storedVars, workVars>>

Begins == {"message", "revise", "followUp", "command", "compaction", "continue"}
Operation == Begins \union {"end", "delete", "branch", "settings"}

Free == [pc |-> "idle"]
NoWork == [pc |-> "unused", op |-> "none"]

(* ConversationQueue.next_follow_up. *)
NextFollowUp ==
    LET k == CHOOSE k \in DOMAIN record.queue :
                /\ record.queue[k].delivery = "FollowUp"
                /\ \A i \in 1..k - 1 : record.queue[i].delivery # "FollowUp"
    IN record.queue[k].id
HasFollowUp == \E k \in DOMAIN record.queue : record.queue[k].delivery = "FollowUp"

(* A handler acts on the record it read at the beginning; it keeps what    *)
(* its operation will pass to the store, and (history) the active leaf.    *)
Seen(op) ==
    [pc |-> "read", op |-> op, job |-> NoId,
     revision |-> record.revision,
     leaf |-> IF op \in Begins THEN record.leaf ELSE 0,
     queue_revision |-> IF op = "followUp" THEN record.queue_revision ELSE 0,
     item |-> IF op = "followUp" THEN NextFollowUp ELSE NoId,
     checkpoint |-> IF op \in {"continue", "end"} THEN record.continuation.id
                    ELSE NoId]

At(h, pc) == handler[h].pc = pc
Goes(h, pc) == handler' = [handler EXCEPT ![h].pc = pc]
Leaves(h) == handler' = [handler EXCEPT ![h] = Free]
Works(j, pc) == worker' = [worker EXCEPT ![j].pc = pc]
Working(j) == worker[j].pc \in {"starting", "running"}
CommandReserved == \E h \in Handler : At(h, "reserved")

WorkInit ==
    /\ StoreInit
    /\ registered = NoId
    /\ worker = [j \in JobId |-> NoWork]
    /\ handler = [h \in Handler |-> Free]

-----------------------------------------------------------------------------
(* The checks of each handler on the record it loaded.                     *)
(* continue_follow_ups also wants a free registration and a complete last  *)
(* response.                                                               *)
LastIsComplete ==
    LET replies == {i \in Range(Path(record)) :
                        record.entries[i].role = "Assistant"}
    IN replies # {} /\ record.entries[Max(replies)].status = "Complete"

Admits(op) ==
    CASE op \in {"message", "revise"} -> record.continuation = NoId
      [] op = "followUp" ->
            /\ registered = NoId /\ ~CommandReserved
            /\ record.continuation = NoId
            /\ LastIsComplete
            /\ HasFollowUp
      [] op = "command" -> record.continuation = NoId /\ record.queue = <<>>
      [] op = "compaction" -> registered = NoId /\ record.continuation = NoId
      [] op \in {"continue", "end"} -> record.continuation # NoId
      [] op = "delete" -> registered = NoId /\ ~CommandReserved
      [] OTHER -> TRUE

Read(h, op) ==
    /\ At(h, "idle")
    /\ Idle
    /\ Admits(op)
    /\ handler' = [handler EXCEPT ![h] = Seen(op)]
    /\ UNCHANGED <<storedVars, registered, worker>>

RegisterOverRunningJob(h, j) ==        \* a mutated RegisterJob
    /\ At(h, "read")
    /\ handler[h].op \in Begins \union {"end"}
    /\ worker[j] = NoWork
    /\ registered' = j
    /\ worker' = [worker EXCEPT ![j] = [pc |-> "begun", op |-> handler[h].op]]
    /\ handler' = [handler EXCEPT ![h].pc = "registered", ![h].job = j]
    /\ UNCHANGED storedVars

(* begin_conversation_job; a handler that finds the conversation taken     *)
(* gives up, and so does one whose preflight fails.                        *)
RegisterJob(h, j) ==
    /\ At(h, "read")
    /\ handler[h].op \in Begins \union {"end"}
    /\ registered = NoId
    /\ ~CommandReserved
    /\ worker[j] = NoWork
    /\ registered' = j
    /\ worker' = [worker EXCEPT ![j] = [pc |-> "begun", op |-> handler[h].op]]
    /\ handler' = [handler EXCEPT ![h].pc = "registered", ![h].job = j]
    /\ UNCHANGED storedVars

ReserveCommand(h) ==
    /\ At(h, "read")
    /\ handler[h].op = "delete"
    /\ registered = NoId
    /\ ~CommandReserved
    /\ Goes(h, "reserved")
    /\ UNCHANGED <<storedVars, registered, worker>>

GiveUp(h) ==
    /\ At(h, "read")
    /\ Leaves(h)
    /\ UNCHANGED <<storedVars, registered, worker>>

-----------------------------------------------------------------------------
(* The durable start, with the revision the handler read.                  *)
StartRequest(h, j, result) ==
    LET seen == handler[h]
    IN CASE seen.op = "message" ->
              \E s \in Settings : BeginMessage(seen.revision, j, s, result)
         [] seen.op = "revise" ->
              record.exists /\ \E i \in DOMAIN record.entries, s \in Settings :
                 Revise(seen.revision, i, j, s, result)
         [] seen.op = "followUp" ->
              \E s \in Settings :
                 BeginFollowUp(seen.revision, seen.queue_revision, seen.item,
                               j, s, result)
         [] seen.op = "command" ->
              \E s \in Settings : BeginCommand(seen.revision, j, s, result)
         [] seen.op = "compaction" -> BeginCompaction(seen.revision, j, result)
         [] OTHER -> ClaimContinuation(seen.revision, seen.checkpoint, j,
                                       result)

(* Only a message or a continuation can still fail to build its history.   *)
StartDurably(h, result) ==
    /\ At(h, "registered")
    /\ handler[h].op \in Begins
    /\ StartRequest(h, handler[h].job, result)
    /\ Leaves(h)
    /\ IF result = "ok"
       THEN /\ Works(handler[h].job,
                     IF handler[h].op \in {"command", "compaction"}
                     THEN "running" ELSE "starting")
            /\ UNCHANGED registered
       ELSE IF handler[h].op = "compaction"
       THEN Works(handler[h].job, "retained") /\ UNCHANGED registered
       ELSE Works(handler[h].job, "done") /\ registered' = NoId

(* Refused by the store, or a disk error that left the row alone.          *)
FailStartKeepingJob(h) ==      \* a mutated FailStart
    /\ At(h, "registered")
    /\ Works(handler[h].job, "done")
    /\ Leaves(h)
    /\ UNCHANGED <<storedVars, registered>>

FailStart(h) ==
    /\ At(h, "registered")
    /\ registered' = NoId
    /\ Works(handler[h].job, "done")
    /\ Leaves(h)
    /\ UNCHANGED storedVars

EndPause(h, result) ==
    /\ At(h, "registered")
    /\ handler[h].op = "end"
    /\ ClearContinuation(handler[h].revision, handler[h].checkpoint, result)
    /\ registered' = NoId
    /\ Works(handler[h].job, "done")
    /\ Leaves(h)

DeleteReserved(h, result) ==
    /\ At(h, "reserved")
    /\ Delete(handler[h].revision, result)
    /\ Leaves(h)
    /\ UNCHANGED <<registered, worker>>

FailDelete(h) ==
    /\ At(h, "reserved")
    /\ Leaves(h)
    /\ UNCHANGED <<storedVars, registered, worker>>

(* One store call each, with the revision of the form.                     *)
EditRecord(h, result) ==
    /\ At(h, "read")
    /\ \/ /\ handler[h].op = "branch"
          /\ record.exists
          /\ \E i \in DOMAIN record.entries :
                ContinueFrom(handler[h].revision, i, result)
       \/ /\ handler[h].op = "settings"
          /\ \E s \in Settings : SelectSettings(handler[h].revision, s, result)
    /\ Leaves(h)
    /\ UNCHANGED <<registered, worker>>

-----------------------------------------------------------------------------
(* The handler builds the model history from the started record.  When it  *)
(* cannot, it settles the message, whatever comes of that, and releases.   *)
Spawn(j) ==
    /\ worker[j].pc = "starting"
    /\ Works(j, "running")
    /\ UNCHANGED <<storedVars, registered, handler>>

HistoryError(j) ==
    /\ worker[j].pc = "starting"
    /\ \/ /\ \E result \in {"ok", "unsettled"} :
                SettleMessage(j, "Failed", FALSE, result)
          /\ Works(j, "done")
       \/ /\ UNCHANGED storedVars
          /\ Works(j, "abandoned")
    /\ registered' = NoId
    /\ UNCHANGED handler

(* The running task writes through the store.  An error ends its loop; it  *)
(* then settles, so an error needs no state of its own.                    *)
Replies(j) == worker[j].op \in Begins \ {"command", "compaction"}

Stream(j, result) ==
    /\ worker[j].pc = "running"
    /\ Replies(j)
    /\ \/ UpdateOutput(j, result)
       \/ SettleToolBatch(j, result) /\ Len(record'.entries) <= MaxEntries
       \/ /\ registered = j
          /\ \E q \in QueueItem : DeliverSteering(j, q, result)
    /\ UNCHANGED workVars

(* A complete reply says something here and an incomplete one adds         *)
(* nothing; the runs of the store itself take all combinations.            *)
Settlement(j, result) ==
    \/ /\ Replies(j)
       /\ \/ \E status \in Settled :
                SettleMessage(j, status, status = "Complete", result)
          \/ \E reply \in BOOLEAN : PauseForBudget(j, reply, result)
    \/ /\ worker[j].op = "command"
       /\ \E status \in Settled : SettleCommand(j, status, result)
    \/ /\ worker[j].op = "compaction"
       /\ \E failed \in BOOLEAN : FinishCompaction(j, failed, result)

SettleAndAlwaysRelease(j) ==           \* a mutated Settle
    /\ worker[j].pc = "running"
    /\ \/ \E result \in {"ok", "unsettled"} : Settlement(j, result)
       \/ UNCHANGED storedVars
    /\ Works(j, "settled")
    /\ UNCHANGED <<registered, handler>>

(* A settlement that is not known to be durable keeps the registration     *)
(* until the process ends (require_recovery, no release).                  *)
Settle(j) ==
    /\ worker[j].pc = "running"
    /\ \/ /\ Settlement(j, "ok")
          /\ Works(j, IF Replies(j) /\ record'.continuation = NoId
                      THEN "replied" ELSE "settled")
       \/ Settlement(j, "unsettled") /\ Works(j, "retained")
       \/ UNCHANGED storedVars /\ Works(j, "retained")
    /\ UNCHANGED <<registered, handler>>

(* titles::start runs between settle_message and the release.  It finds    *)
(* nothing to claim, or its commit fails, or it claims the title.          *)
TakeTitle(j) ==
    /\ worker[j].pc = "replied"
    /\ \/ \E result \in {"ok", "unsettled"} : ClaimTitle(result)
       \/ UNCHANGED storedVars
    /\ Works(j, "settled")
    /\ UNCHANGED <<registered, handler>>

(* A message whose guest or workspace could not be cleaned up keeps its    *)
(* registration, although it is settled.                                   *)
Release(j) ==
    /\ worker[j].pc = "settled"
    /\ \/ registered' = NoId /\ Works(j, "done")
       \/ Replies(j) /\ UNCHANGED registered /\ Works(j, "retained")
    /\ UNCHANGED <<storedVars, handler>>

-----------------------------------------------------------------------------
(* Queue forms carry a revision of the queue; a stale one is a no-op, so   *)
(* it is enough to let the current one through at any time.                *)
ChangeQueue(q, result) ==
    /\ record.exists
    /\ \/ \E d \in Delivery, j \in JobId \union {NoId} :
             /\ d = "FollowUp" => j = NoId
             /\ Enqueue(record.queue_revision, q, d, j, result)
       \/ RemoveQueueItem(record.queue_revision, q, result)
    /\ UNCHANGED workVars

Create(result) ==
    /\ \E s \in Settings : CreateSaved(s, NoId, result)
    /\ UNCHANGED workVars

(* The process dies and the next one opens the store.                      *)
Crash ==
    /\ Restart
    /\ registered' = NoId
    /\ worker' = [j \in JobId |->
                    IF worker[j] = NoWork THEN NoWork
                    ELSE [worker[j] EXCEPT !.pc = "done"]]
    /\ handler' = [h \in Handler |-> Free]

HandlerStep(h) ==
    \/ \E op \in Operation :
          Read(h, op) /\ (op \in {"branch", "settings"} =>
                              record.revision < MaxRevision)
    \/ \E j \in JobId : RegisterJob(h, j)
    \/ ReserveCommand(h) \/ GiveUp(h) \/ FailStart(h) \/ FailDelete(h)
    \/ \E result \in {"ok", "unsettled"} :
          \/ StartDurably(h, result) \/ EndPause(h, result)
          \/ DeleteReserved(h, result) \/ EditRecord(h, result)

WorkerStep(j) ==
    \/ Spawn(j) \/ HistoryError(j) \/ Settle(j) \/ TakeTitle(j) \/ Release(j)
    \/ \E result \in {"ok", "unsettled"} : Stream(j, result)

WorkNext ==
    \/ \E result \in {"ok", "unsettled"} :
          Create(result) \/ \E q \in QueueItem : ChangeQueue(q, result)
    \/ \E h \in Handler : HandlerStep(h)
    \/ \E j \in JobId : WorkerStep(j)
    \/ Crash

WorkSpec == WorkInit /\ [][WorkNext]_allVars

(* Handlers and spawned tasks are scheduled by the runtime.  A handler     *)
(* awaits nothing between its registration and the durable start, so a     *)
(* client that disconnects cannot drop it there.  A task is ended by its   *)
(* model, its budget, Stop, or the purge of its session, and then settles. *)
Fairness ==
    /\ \A h \in Handler :
           WF_allVars(\/ StartDurably(h, "ok") \/ FailStart(h) \/ EndPause(h, "ok")
                      \/ DeleteReserved(h, "ok") \/ FailDelete(h))
    /\ \A j \in JobId :
           WF_allVars(Spawn(j) \/ HistoryError(j) \/ Settle(j) \/ TakeTitle(j)
                      \/ Release(j))

FairWorkSpec == WorkSpec /\ Fairness

-----------------------------------------------------------------------------
WorkTypeOK ==
    /\ TypeOK
    /\ registered \in JobId \union {NoId}
    /\ worker \in [JobId -> [pc : {"unused", "begun", "starting", "running",
                                   "replied", "settled", "retained", "abandoned", "done"},
                             op : Operation \union {"none"}]]
    /\ \A h \in Handler :
          handler[h].pc \in {"idle", "read", "registered", "reserved"}

(* A task that works on the conversation owns it twice over: its job is    *)
(* the registered one and the durable active one.  So no branch, deletion, *)
(* settings change or second request slips under a running task.           *)
WorkerOwnsConversation ==
    \A j \in JobId :
        Working(j) => /\ registered = j
                      /\ record.exists
                      /\ record.active_job = j

WorkIsOwned == WorkTypeOK /\ WorkerOwnsConversation

(* A durable active job has somebody who will settle it or keeps its       *)
(* registration; the one exception is a history error whose settlement     *)
(* failed too (slices/conversations/mod.rs:1316), which waits for restart. *)
ActiveJobIsAttended ==
    record.exists /\ record.active_job # NoId /\ ~uncertain =>
        LET j == record.active_job
        IN \/ worker[j].pc \in {"starting", "running", "retained"} /\ registered = j
           \/ worker[j].pc = "abandoned"

(* A request extends the history its handler read: nothing moved the       *)
(* active leaf in between, although several operations that append or drop *)
(* messages keep the revision.                                             *)
RequestExtendsWhatWasRead ==
    [][\A h \in Handler :
          At(h, "registered") /\ handler'[h].pc = "idle"
             /\ record.exists /\ record' # record /\ record'.exists
             /\ record'.active_job # NoId
          => record.leaf = handler[h].leaf]_allVars

(* A registration does not outlive its work: it is released, or kept on    *)
(* purpose because the outcome could not be stored.                        *)
RegistrationIsReleased ==
    []<>(registered = NoId \/ worker[registered].pc = "retained")
=============================================================================
