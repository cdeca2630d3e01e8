------------------------------ MODULE Approvals -----------------------------
(***************************************************************************)
(* Tasks that wait for their user, and the handlers that decide, answer,   *)
(* stop or invalidate: approve_command (app/src/execution/approval.rs),    *)
(* ask_user (app/src/tools.rs), the handlers of slices/conversations       *)
(* (tool_approval.rs, questions/mod.rs, cancel_message, the execution      *)
(* switch of settings.rs), and the two callers that drop the requests of   *)
(* dead sessions (app/src/sessions.rs).                                    *)
(*                                                                         *)
(* A task calls one tool at a time.  Each step is one critical section of  *)
(* a store, or one call on the shared Job.                                 *)
(***************************************************************************)
EXTENDS Waiters, Sequences

CONSTANTS
    Handler,    \* requests to the server, and the purge, under way at once
    Expiring    \* a bound: sessions that may expire while there is work

VARIABLES
    task,       \* per job: where its task stands in a tool call
    handler     \* what each handler is doing

approvalVars == <<storeVars, waiterVars, task, handler>>

Rest == [at |-> "none", kind |-> "approval", request |-> NoRequest,
         outcome |-> "none"]
Busy == {"invoked", "submitted", "awaiting", "checking", "reading", "parked",
         "revokePending", "revokeInflight", "resuming"}
TaskState == [at : Busy \union {"none", "idle", "ended", "done"},
              kind : Kind, request : RequestId \union {NoRequest},
              outcome : Decision \union
                           {"none", "Cancelled", "Missing", "Failed"}]

Idle == [at |-> "idle", kind |-> "none", session |-> NoId, job |-> NoId,
         request |-> NoRequest, seen |-> NoRequest, todo |-> <<>>]
HandlerState ==
    [at : {"idle", "decide", "resume", "answer", "storing", "removing",
           "cancel", "sweep", "remove", "insert"},
     kind : {"none", "decide", "answer", "stop", "switch", "purge", "restore"},
     session : SessionId \union {NoId}, job : JobId \union {NoId},
     request : RequestId \union {NoRequest},
     seen : RequestId \union {NoRequest}, todo : Seq(Kind \X Map)]

ApprovalPasses == <<<<"approval", "pending">>, <<"approval", "inflight">>>>
QuestionPasses == <<<<"question", "pending">>, <<"question", "inflight">>>>

HandlerAt(h, place) == handler[h].at = place

(* QuestionWaiters::decide holds the lock of `pending` to its end.         *)
AnswerHoldsLock ==
    \E h \in Handler : HandlerAt(h, "storing") \/ HandlerAt(h, "removing")

Registered(j) ==
    /\ j \in Begun
    /\ conversation_jobs[owner[j].conversation].job = j

ApprovalsInit ==
    /\ Init
    /\ WaitersInit
    /\ task = [j \in JobId |-> Rest]
    /\ handler = [h \in Handler |-> Idle]

-----------------------------------------------------------------------------
(* The task of a job.                                                      *)
At(j, place) == task[j].at = place
Goto(j, place) == task' = [task EXCEPT ![j].at = place]
GotoWith(j, place, outcome) ==
    task' = [task EXCEPT ![j].at = place, ![j].outcome = outcome]

(* `let _ = job.resume()`: nothing happens unless the job awaits.          *)
ResumeIfAwaiting(j) ==
    \/ Resume(j)
    \/ status[j] \notin Awaiting /\ UNCHANGED storeVars

Begin(s, c, j) ==
    /\ BeginConversationJob(s, c, j)
    /\ Goto(j, "idle")
    /\ UNCHANGED <<waiterVars, handler>>

(* tools::invoke refuses a stopped job.  ask_user wants the job of a live  *)
(* session, validate_host_dispatch a live session.                         *)
Invoke(j, kind) ==
    /\ At(j, "idle")
    /\ ~cancel[j]
    /\ Live(owner[j].session)
    /\ kind = "question" =>
          OwnsConversationJob(owner[j].session, owner[j].conversation, j)
    /\ task' = [task EXCEPT ![j] = [Rest EXCEPT !.at = "invoked",
                                               !.kind = kind]]
    /\ UNCHANGED <<storeVars, waiterVars, handler>>

Ask(j, r) ==
    /\ At(j, "invoked")
    /\ task[j].kind = "question" => ~AnswerHoldsLock
    /\ Submit(r, task[j].kind, j, owner[j].session)
    /\ task' = [task EXCEPT ![j].at = "submitted", ![j].request = r]
    /\ UNCHANGED <<storeVars, handler>>

(* The store refuses: the tool call fails and the task goes on.            *)
AskRefused(j) ==
    /\ At(j, "invoked")
    /\ task[j].kind = "question" => ~AnswerHoldsLock
    /\ ~Accepts(task[j].kind, j)
    /\ task' = [task EXCEPT ![j] = [Rest EXCEPT !.at = "idle"]]
    /\ UNCHANGED <<storeVars, waiterVars, handler>>

(* An approval whose evidence cannot be stored is revoked by its own task. *)
EvidenceFails(j) ==
    /\ At(j, "submitted")
    /\ task[j].kind = "approval"
    /\ GotoWith(j, "revokePending", "Failed")
    /\ UNCHANGED <<storeVars, waiterVars, handler>>

(* The job is Running here, so the status always changes and the branch    *)
(* for a stopped job that cannot await is never taken.                     *)
Await(j) ==
    /\ At(j, "submitted")
    /\ SetAwaiting(j, IF task[j].kind = "approval" THEN "AwaitingDecision"
                      ELSE "AwaitingQuestion")
    /\ Goto(j, "awaiting")
    /\ UNCHANGED <<waiterVars, handler>>

(* wait: the request may have been invalidated before it is looked up.     *)
StartWait(j) ==
    /\ At(j, "awaiting")
    /\ IF task[j].request \in store[task[j].kind].inflight
       THEN Goto(j, "checking")
       ELSE GotoWith(j, "resuming", "Missing")
    /\ UNCHANGED <<storeVars, waiterVars, handler>>

(* The loop of wait: a stop or an invalidation ends it,                    *)
CheckStop(j) ==
    /\ At(j, "checking")
    /\ IF cancel[j] \/ task[j].request \in invalidated
       THEN GotoWith(j, "revokePending", "Cancelled")
       ELSE Goto(j, "reading")
    /\ UNCHANGED <<storeVars, waiterVars, handler>>

(* a decision ends it,                                                     *)
TakeAnswer(j) ==
    LET r == task[j].request
    IN /\ At(j, "reading")
       /\ decision[r] # "none"
       /\ TakeDecision(r)
       /\ GotoWith(j, "resuming", decision[r])
       /\ UNCHANGED <<storeVars, handler>>

(* decide holds the lock of the answer from its resume until it stores.    *)
Park(j) ==
    /\ At(j, "reading")
    /\ decision[task[j].request] = "none"
    /\ \A h \in Handler :
          ~(HandlerAt(h, "storing") /\ handler[h].request = task[j].request)
    /\ Goto(j, "parked")
    /\ UNCHANGED <<storeVars, waiterVars, handler>>

(* and otherwise it sleeps until the job is stopped or the request         *)
(* notified.  The select is biased towards the stop.                       *)
WakeStopped(j) ==
    /\ At(j, "parked")
    /\ cancel[j]
    /\ GotoWith(j, "revokePending", "Cancelled")
    /\ UNCHANGED <<storeVars, waiterVars, handler>>

WakeAsIfStopped(j) ==     \* a mutated WakeNotified: does not look again
    /\ At(j, "parked")
    /\ ~cancel[j]
    /\ task[j].request \in permit
    /\ permit' = permit \ {task[j].request}
    /\ GotoWith(j, "revokePending", "Cancelled")
    /\ UNCHANGED <<request, store, decision, invalidated, consumed>>
    /\ UNCHANGED <<storeVars, handler>>

WakeNotified(j) ==
    /\ At(j, "parked")
    /\ ~cancel[j]
    /\ task[j].request \in permit
    /\ permit' = permit \ {task[j].request}
    /\ Goto(j, "checking")
    /\ UNCHANGED <<request, store, decision, invalidated, consumed>>
    /\ UNCHANGED <<storeVars, handler>>

(* invalidate_job, called by the task itself.                              *)
RevokePending(j) ==
    /\ At(j, "revokePending")
    /\ task[j].kind = "question" => ~AnswerHoldsLock
    /\ InvalidatePass(task[j].kind, "pending", OfJob(j))
    /\ Goto(j, "revokeInflight")
    /\ UNCHANGED <<storeVars, handler>>

RevokeInflight(j) ==
    /\ At(j, "revokeInflight")
    /\ InvalidatePass(task[j].kind, "inflight", OfJob(j))
    /\ Goto(j, "resuming")
    /\ UNCHANGED <<storeVars, handler>>

(* The tool call returns.                                                  *)
Return(j) ==
    /\ At(j, "resuming")
    /\ ResumeIfAwaiting(j)
    /\ Forget(task[j].request)
    /\ task' = [task EXCEPT ![j] = [Rest EXCEPT !.at = "idle"]]
    /\ UNCHANGED handler

(* An ordinary task settles: finish, then release.  It invalidates         *)
(* nothing.  How it ends plays no part here.                               *)
EndTask(j) ==
    /\ At(j, "idle")
    /\ Finish(j, IF cancel[j] THEN "Cancelled" ELSE "Completed")
    /\ Goto(j, "ended")
    /\ UNCHANGED <<waiterVars, handler>>

ReleaseTask(j) ==
    /\ At(j, "ended")
    /\ FinishConversationJob(j)
    /\ Goto(j, "done")
    /\ UNCHANGED <<waiterVars, handler>>

ToolStep(j) ==
    \/ \E r \in RequestId : Ask(j, r)
    \/ AskRefused(j) \/ Await(j) \/ StartWait(j) \/ CheckStop(j)
    \/ TakeAnswer(j) \/ Park(j) \/ WakeStopped(j) \/ WakeNotified(j)
    \/ RevokePending(j) \/ RevokeInflight(j) \/ Return(j)

TaskStep(j) ==
    \/ \E s \in SessionId, c \in ConversationId : Begin(s, c, j)
    \/ \E kind \in Kind : Invoke(j, kind)
    \/ EvidenceFails(j) \/ ToolStep(j) \/ EndTask(j) \/ ReleaseTask(j)

-----------------------------------------------------------------------------
(* Handlers.                                                               *)
Move(h, place) == handler' = [handler EXCEPT ![h].at = place]
Leave(h) == handler' = [handler EXCEPT ![h] = Idle]
ElseUnchanged == UNCHANGED <<storeVars, waiterVars, task>>

(* Approve or reject: the form names a job and a token.  pending_for fills *)
(* in the fields the form does not carry.  The requests of a stopped job   *)
(* are revoked before the decision.                                        *)
OpenDecision(h, s, r) ==
    LET j == request[r].job
        shown == store.approval.pending \intersect OfJob(j)
    IN /\ HandlerAt(h, "idle")
       /\ Live(s)
       /\ r \in Drawn
       /\ request[r].kind = "approval"
       /\ Registered(j)
       /\ \E seen \in shown \union {NoRequest} :
             /\ seen = NoRequest => shown = {}
             /\ handler' = [handler EXCEPT ![h] =
                   [at |-> IF cancel[j] THEN "sweep" ELSE "decide",
                    kind |-> "decide", session |-> s, job |-> j,
                    request |-> r, seen |-> seen,
                    todo |-> IF cancel[j] THEN ApprovalPasses ELSE <<>>]]
       /\ ElseUnchanged

(* decide compares the whole request.  Fields taken from another pending   *)
(* request may or may not agree.                                           *)
DecideApproval(h, d) ==
    LET form == handler[h]
    IN /\ HandlerAt(h, "decide")
       /\ form.seen # NoRequest
       /\ request[form.request].session = form.session
       /\ Decide(form.request, d)
       /\ Move(h, "resume")
       /\ UNCHANGED <<storeVars, task>>

DecisionRefused(h) ==
    LET form == handler[h]
    IN /\ HandlerAt(h, "decide")
       /\ \/ form.request \in consumed
          \/ form.request \notin store.approval.pending
          \/ form.request # form.seen
          \/ request[form.request].session # form.session
       /\ Leave(h)
       /\ ElseUnchanged

(* job.resume() after a decision, or after a stop.                         *)
ResumeByHandler(h) ==
    LET j == handler[h].job
    IN /\ HandlerAt(h, "resume")
       /\ IF \/ handler[h].kind = "stop" => handler[h].seen # NoRequest
             \/ status[j] = "AwaitingQuestion"
          THEN ResumeIfAwaiting(j)
          ELSE UNCHANGED storeVars
       /\ Leave(h)
       /\ UNCHANGED <<waiterVars, task>>

-----------------------------------------------------------------------------
(* Answer or cancel a question: only the session that owns the job, and    *)
(* only the question that is pending.                                      *)
OpenAnswer(h, s, r) ==
    LET j == request[r].job
    IN /\ HandlerAt(h, "idle")
       /\ ~AnswerHoldsLock
       /\ r \in store.question.pending
       /\ OwnsConversationJob(s, owner[j].conversation, j)
       /\ handler' = [handler EXCEPT ![h] =
             [at |-> "answer", kind |-> "answer", session |-> s, job |-> j,
              request |-> r, seen |-> r, todo |-> <<>>]]
       /\ ElseUnchanged

Answerable(h) ==
    LET form == handler[h]
    IN /\ Registered(form.job)
       /\ form.request \in store.question.pending
       /\ form.request \notin invalidated
       /\ ~cancel[form.job]
       /\ decision[form.request] = "none"

(* The job resumes before the answer is stored.                            *)
AnswerResumes(h) ==
    /\ HandlerAt(h, "answer")
    /\ ~AnswerHoldsLock
    /\ Answerable(h)
    /\ ResumeIfAwaiting(handler[h].job)
    /\ Move(h, "storing")
    /\ UNCHANGED <<waiterVars, task>>

AnswerRefused(h) ==
    /\ HandlerAt(h, "answer")
    /\ ~AnswerHoldsLock
    /\ ~Answerable(h)
    /\ Leave(h)
    /\ ElseUnchanged

AnswerStored(h) ==
    /\ HandlerAt(h, "storing")
    /\ StoreAnswer(handler[h].request, "Answered")
    /\ Move(h, "removing")
    /\ UNCHANGED <<storeVars, task>>

RemoveThenResume(h) ==     \* a mutated AnswerRemoved: resumes at the end
    /\ HandlerAt(h, "removing")
    /\ RemoveAnswered(handler[h].request)
    /\ Move(h, "resume")
    /\ UNCHANGED <<storeVars, task>>

AnswerRemoved(h) ==
    /\ HandlerAt(h, "removing")
    /\ RemoveAnswered(handler[h].request)
    /\ Leave(h)
    /\ UNCHANGED <<storeVars, task>>

-----------------------------------------------------------------------------
(* Stop (cancel_message) asks the job to stop and then invalidates; the    *)
(* switch of execution settings invalidates first.  A sweep drops the      *)
(* requests of dead sessions: the purge then removes a session that        *)
(* expired, the middleware one it replaces by a new one.                   *)
OpenStop(h, s, j) ==
    LET shown == store.approval.pending \intersect OfJob(j)
    IN /\ HandlerAt(h, "idle")
       /\ Live(s)
       /\ Registered(j)
       /\ \E seen \in shown \union {NoRequest} :
             /\ seen = NoRequest => shown = {}
             /\ handler' = [handler EXCEPT ![h] =
                   [Idle EXCEPT !.at = "cancel", !.kind = "stop",
                                !.session = s, !.job = j, !.seen = seen]]
       /\ ElseUnchanged

OpenSwitch(h, s, j) ==
    /\ HandlerAt(h, "idle")
    /\ Live(s)
    /\ Registered(j)
    /\ handler' = [handler EXCEPT ![h] =
          [Idle EXCEPT !.at = "sweep", !.kind = "switch", !.session = s,
                       !.job = j, !.todo = ApprovalPasses \o QuestionPasses]]
    /\ ElseUnchanged

OpenSweep(h, kind, s) ==
    /\ HandlerAt(h, "idle")
    /\ kind = "purge" => /\ sessions[s] = "expired"
                         /\ \A o \in Handler : handler[o].kind # "purge"
    /\ kind = "restore" => ~Live(s)
    /\ handler' = [handler EXCEPT ![h] =
          [Idle EXCEPT !.at = "sweep", !.kind = kind, !.session = s,
                       !.todo = ApprovalPasses \o QuestionPasses]]
    /\ ElseUnchanged

CancelJob(h) ==
    /\ HandlerAt(h, "cancel")
    /\ RequestCancel(handler[h].job)
    /\ IF handler[h].kind = "stop"
       THEN handler' = [handler EXCEPT ![h].at = "sweep",
                           ![h].todo = ApprovalPasses \o QuestionPasses]
       ELSE Leave(h)
    /\ UNCHANGED <<waiterVars, task>>

AfterSweep == [decide |-> "decide", stop |-> "resume", switch |-> "cancel",
               purge |-> "remove", restore |-> "remove"]

SweepPass(h) ==
    LET form == handler[h]
        kind == Head(form.todo)[1]
        map == Head(form.todo)[2]
        scope == IF form.kind \in {"purge", "restore"} THEN OfDeadSession
                 ELSE OfJob(form.job)
    IN /\ HandlerAt(h, "sweep")
       /\ <<kind, map>> = <<"question", "pending">> => ~AnswerHoldsLock
       /\ InvalidatePass(kind, map, scope)
       /\ handler' = [handler EXCEPT
             ![h].todo = Tail(@),
             ![h].at = IF Len(form.todo) = 1 THEN AfterSweep[form.kind]
                       ELSE "sweep"]
       /\ UNCHANGED <<storeVars, task>>

RemoveDead(h) ==
    LET s == handler[h].session
    IN /\ HandlerAt(h, "remove")
       /\ IF sessions[s] = "expired" THEN Remove(s) ELSE UNCHANGED storeVars
       /\ IF handler[h].kind = "restore" THEN Move(h, "insert") ELSE Leave(h)
       /\ UNCHANGED <<waiterVars, task>>

InsertRestored(h) ==
    /\ HandlerAt(h, "insert")
    /\ Insert(handler[h].session)
    /\ Leave(h)
    /\ UNCHANGED <<waiterVars, task>>

HandlerStep(h) ==
    \/ DecisionRefused(h) \/ ResumeByHandler(h)
    \/ \E d \in {"Approved", "Rejected"} : DecideApproval(h, d)
    \/ AnswerResumes(h) \/ AnswerRefused(h) \/ AnswerStored(h)
    \/ AnswerRemoved(h)
    \/ CancelJob(h) \/ SweepPass(h) \/ RemoveDead(h) \/ InsertRestored(h)

Opens(h) ==
    \E s \in SessionId :
        \/ \E r \in Drawn : OpenDecision(h, s, r) \/ OpenAnswer(h, s, r)
        \/ \E j \in JobId : OpenStop(h, s, j) \/ OpenSwitch(h, s, j)
        \/ \E kind \in {"purge", "restore"} : OpenSweep(h, kind, s)

SessionExpires(s) ==
    /\ s \in Expiring \/ \A j \in JobId : At(j, "done")
    /\ Expire(s)
    /\ UNCHANGED <<waiterVars, task, handler>>

ApprovalsNext ==
    \/ \E j \in JobId : TaskStep(j)
    \/ \E h \in Handler : HandlerStep(h) \/ Opens(h)
    \/ \E s \in SessionId : SessionExpires(s)

ApprovalsSpec == ApprovalsInit /\ [][ApprovalsNext]_approvalVars

(* The runtime polls a task that can go on, and a handler that holds a     *)
(* lock awaits nothing before it gives it back.                            *)
FairApprovalsSpec ==
    /\ ApprovalsSpec
    /\ \A j \in JobId : WF_approvalVars(ToolStep(j))
    /\ \A h \in Handler : WF_approvalVars(HandlerStep(h))

-----------------------------------------------------------------------------
ApprovalsTypeOK ==
    /\ TypeOK
    /\ WaitersTypeOK
    /\ task \in [JobId -> TaskState]
    /\ handler \in [Handler -> HandlerState]

(* Nobody waits for what cannot come: a sleeping task is about to be       *)
(* woken, or its request is still open to a decision and will be noticed.  *)
WaiterIsReachable ==
    \A j \in JobId :
        At(j, "parked") =>
            LET r == task[j].request
                maps == store[task[j].kind]
            IN \/ cancel[j]
               \/ r \in permit
               \/ r \in maps.pending /\ r \in maps.inflight

(* An accepted decision is what the tool call gets.  It is lost only to a  *)
(* stop or to an invalidation, and nothing is returned that nobody         *)
(* decided.                                                                *)
DecisionReachesTask ==
    \A j \in JobId :
        LET r == task[j].request
            got == task[j].outcome
        IN /\ got \in Decision => decision[r] = got
           /\ got = "Missing" => r \in invalidated
           /\ got = "Cancelled" /\ At(j, "revokePending") =>
                 cancel[j] \/ r \in invalidated

(* "A claimed answer stays unresolved until execution consumes it"         *)
(* (conversations/questions.rs:234): has_pending, which keeps branches     *)
(* from being selected, holds as long as a task waits for a question that  *)
(* nobody invalidated.                                                     *)
HasPending(c) ==
    \E r \in store.question.pending \union store.question.inflight :
        owner[request[r].job].conversation = c

QuestionStaysUnresolved ==
    \A j \in JobId :
        /\ task[j].kind = "question"
        /\ task[j].at \in {"submitted", "awaiting", "checking", "reading",
                           "parked"}
        /\ task[j].request \notin invalidated
        => HasPending(owner[j].conversation)

(* A task that waits can be reached, and its question is seen to be open.  *)
WaitIsOpen == WaiterIsReachable /\ QuestionStaysUnresolved

(* An answer resumes the job out of the wait it answers, never out of a    *)
(* later one: "Resume before notification so a fast next question keeps    *)
(* its own wait status" (conversations/questions.rs:276).                  *)
AnswerResumesItsOwnWait ==
    [][\A h \in Handler :
          /\ handler[h].kind = "answer"
          /\ handler'[h] # handler[h]
          /\ status' # status
          => task[handler[h].job].request = handler[h].request]_approvalVars

(* A wait whose request was decided, invalidated or stopped returns.       *)
Settled(j) ==
    \/ cancel[j]
    \/ task[j].request \in invalidated
    \/ decision[task[j].request] # "none"

WaitEnds ==
    \A j \in JobId :
        At(j, "parked") /\ Settled(j) ~> At(j, "idle")
=============================================================================
