--------------------------- MODULE ApprovalsProofs --------------------------
(***************************************************************************)
(* Approvals and questions for every number of jobs, requests and          *)
(* handlers.  Tasks and handlers use the session store by its operations   *)
(* only, so all that SessionStoreProofs shows holds here as well.          *)
(*                                                                         *)
(* That a decision is final rests on who may still decide: an approval     *)
(* that is pending has no decision (Undecided), and of the handlers that   *)
(* answer at most one is between its check and its end, for it holds the   *)
(* lock (OneAnswers): the answer it is about to store is the first         *)
(* (AnswerIsDue).                                                          *)
(***************************************************************************)
EXTENDS Approvals, SessionStoreProofs, SequenceTheorems

(* A task that has begun works for a session and a conversation, and from  *)
(* its submission on it names its request.                                 *)
WorkIsOwned ==
    \A j \in JobId :
        /\ ~At(j, "none") => owner[j] \in Owner
        /\ task[j].at \in Busy \ {"invoked"} => task[j].request \in RequestId

(* A handler names what its next step is about.                            *)
NamesItsSubject(form) ==
    /\ form.at \in {"remove", "insert"} => form.session \in SessionId
    /\ form.at \in {"decide", "answer", "storing", "removing", "resume",
                    "cancel"} => form.job \in JobId
    /\ form.at = "sweep" =>
          /\ form.todo # <<>>
          /\ form.kind \in DOMAIN AfterSweep
          /\ IF form.kind \in {"purge", "restore"}
             THEN form.session \in SessionId ELSE form.job \in JobId

HandlersNameTheirSubject == \A h \in Handler : NamesItsSubject(handler[h])

(* The maps of a store hold requests of its kind.                          *)
RequestsAreFiled ==
    \A kind \in Kind, map \in Map :
        \A r \in store[kind][map] : r \in Drawn /\ request[r].kind = kind

(* What may still be decided has no decision.                              *)
Undecided ==
    /\ \A r \in RequestId \ Drawn : decision[r] = "none"
    /\ \A r \in store.approval.pending : decision[r] = "none"

(* A handler that is about to store an answer is the first to do so.       *)
AnswerIsDue ==
    \A h \in Handler :
        HandlerAt(h, "storing") =>
            /\ handler[h].request \in Drawn
            /\ request[handler[h].request].kind = "question"
            /\ decision[handler[h].request] = "none"

OneAnswers ==
    \A h1, h2 \in Handler :
        /\ handler[h1].at \in {"storing", "removing"}
        /\ handler[h2].at \in {"storing", "removing"}
        => h1 = h2

WaitersInv == WaitersTypeOK /\ RequestsAreFiled /\ Undecided

TasksInv == task \in [JobId -> TaskState] /\ WorkIsOwned

HandlersInv ==
    /\ handler \in [Handler -> HandlerState]
    /\ HandlersNameTheirSubject
    /\ AnswerIsDue
    /\ OneAnswers

ApprovalsInv == TypeOK /\ WaitersInv /\ TasksInv /\ HandlersInv

-----------------------------------------------------------------------------
USE NoIdAssumption

(* Each operation of the two stores keeps their invariant.                 *)
LEMMA SubmitKeeps ==
    ASSUME WaitersInv, NEW r \in RequestId, NEW kind \in Kind,
           NEW j \in JobId, NEW s \in SessionId, Submit(r, kind, j, s)
    PROVE  WaitersInv'
<1> USE DEF WaitersInv
<1> DEFINE asked == [kind |-> kind, job |-> j, session |-> s]
<1>1. asked \in Asked /\ asked # NoRequest
  BY NoRequestAssumption DEF Asked
<1>2. request' = [request EXCEPT ![r] = asked]
  BY DEF Submit
<1>3. WaitersTypeOK'
  BY <1>1, <1>2 DEF Submit, WaitersTypeOK, Map
<1>4. Drawn' = Drawn \union {r}
  BY <1>1, <1>2, <1>3 DEF Drawn, WaitersTypeOK
<1>5. RequestsAreFiled'
  BY <1>1, <1>2, <1>3, <1>4 DEF Submit, WaitersTypeOK, RequestsAreFiled
<1>6. Undecided'
  BY <1>4 DEF Submit, Undecided, WaitersTypeOK, Kind, Map
<1> QED
  BY <1>3, <1>5, <1>6

LEMMA DecideKeeps ==
    ASSUME WaitersInv, NEW r, NEW d \in Decision, Decide(r, d)
    PROVE  /\ WaitersInv'
           /\ r \in Drawn /\ request[r].kind = "approval"
           /\ decision[r] = "none"
  BY DEF WaitersInv, WaitersTypeOK, RequestsAreFiled, Undecided, Decide, Drawn,
     Kind, Map

LEMMA StoreAnswerKeeps ==
    ASSUME WaitersInv, NEW r \in Drawn, request[r].kind = "question",
           NEW d \in Decision, StoreAnswer(r, d)
    PROVE  WaitersInv'
  BY DEF WaitersInv, WaitersTypeOK, RequestsAreFiled, Undecided, StoreAnswer,
     Drawn, Kind, Map

(* What only takes requests out of the maps.                               *)
LEMMA RemovalKeeps ==
    ASSUME WaitersInv, UNCHANGED <<request, decision, consumed>>,
           store' \in [Kind -> [Map -> SUBSET RequestId]],
           \A kind \in Kind, map \in Map :
               store'[kind][map] \subseteq store[kind][map],
           invalidated' \subseteq RequestId, permit' \subseteq RequestId
    PROVE  WaitersInv'
  BY DEF WaitersInv, WaitersTypeOK, RequestsAreFiled, Undecided, Drawn, Kind,
     Map

LEMMA RemoveAnsweredKeeps ==
    ASSUME WaitersInv, NEW r, RemoveAnswered(r) PROVE WaitersInv'
  BY RemovalKeeps DEF WaitersInv, WaitersTypeOK, RemoveAnswered, Kind, Map

LEMMA ForgetKeeps ==
    ASSUME WaitersInv, NEW r, Forget(r) PROVE WaitersInv'
  BY RemovalKeeps DEF WaitersInv, WaitersTypeOK, Forget

LEMMA TakeDecisionKeeps ==
    ASSUME WaitersInv, NEW r, TakeDecision(r) PROVE WaitersInv'
<1> DEFINE k == request[r].kind
<1>1. store \in [Kind -> [Map -> SUBSET RequestId]]
  BY DEF WaitersInv, WaitersTypeOK
<1>2. store' = [store EXCEPT ![k].inflight = store[k].inflight \ {r}]
  BY DEF TakeDecision
<1> HIDE DEF k
<1>3. store' \in [Kind -> [Map -> SUBSET RequestId]]
  BY <1>1, <1>2 DEF Map
<1>4. ASSUME NEW kind \in Kind, NEW map \in Map
      PROVE  store'[kind][map] \subseteq store[kind][map]
  <2>1. CASE kind # k
    BY <1>1, <1>2, <2>1
  <2>2. CASE kind = k
    BY <1>1, <1>2, <2>2 DEF Map
  <2> QED
    BY <2>1, <2>2
<1> QED
  BY <1>3, <1>4, RemovalKeeps DEF WaitersInv, WaitersTypeOK, TakeDecision

LEMMA InvalidatePassKeeps ==
    ASSUME WaitersInv, NEW kind \in Kind, NEW map \in Map, NEW scope,
           InvalidatePass(kind, map, scope)
    PROVE  WaitersInv'
  BY RemovalKeeps DEF WaitersInv, WaitersTypeOK, InvalidatePass

-----------------------------------------------------------------------------

(* A step of a task is a step of the session store, or leaves it alone.    *)
LEMMA TaskUsesTheStore ==
    ASSUME ApprovalsInv, NEW j \in JobId, TaskStep(j)
    PROVE  [Next]_storeVars
<1> USE DEF Next, JobStep
<1>1. ASSUME NEW s \in SessionId, NEW c \in ConversationId, Begin(s, c, j)
      PROVE  [Next]_storeVars
  BY <1>1 DEF Begin
<1>2. CASE Await(j)
  BY <1>2 DEF Await, Awaiting
<1>3. CASE Return(j)
  BY <1>3 DEF Return, ResumeIfAwaiting
<1>4. CASE EndTask(j)
  BY <1>4 DEF EndTask, Terminal
<1>5. CASE ReleaseTask(j)
  BY <1>5 DEF ReleaseTask
<1>6. ASSUME NEW kind \in Kind, Invoke(j, kind) PROVE [Next]_storeVars
  BY <1>6 DEF Invoke
<1>7. ASSUME NEW r \in RequestId, Ask(j, r) PROVE [Next]_storeVars
  BY <1>7 DEF Ask
<1>8. CASE AskRefused(j) \/ EvidenceFails(j) \/ StartWait(j) \/ CheckStop(j)
  BY <1>8 DEF AskRefused, EvidenceFails, StartWait, CheckStop
<1>9. CASE TakeAnswer(j) \/ Park(j) \/ WakeStopped(j) \/ WakeNotified(j)
  BY <1>9 DEF TakeAnswer, Park, WakeStopped, WakeNotified
<1>10. CASE RevokePending(j) \/ RevokeInflight(j)
  BY <1>10 DEF RevokePending, RevokeInflight
<1> QED
  BY <1>1, <1>2, <1>3, <1>4, <1>5, <1>6, <1>7, <1>8, <1>9, <1>10
     DEF TaskStep, ToolStep

(* So is a step of a handler, which names an existing job or session.      *)
LEMMA HandlerUsesTheStore ==
    ASSUME ApprovalsInv, NEW h \in Handler, HandlerStep(h) \/ Opens(h)
    PROVE  [Next]_storeVars
<1> USE DEF Next, JobStep, SessionStep, ApprovalsInv, HandlersInv,
        HandlersNameTheirSubject, NamesItsSubject, HandlerAt
<1>1. CASE ResumeByHandler(h)
  BY <1>1 DEF ResumeByHandler, ResumeIfAwaiting
<1>2. CASE AnswerResumes(h)
  BY <1>2 DEF AnswerResumes, ResumeIfAwaiting
<1>3. CASE CancelJob(h)
  BY <1>3 DEF CancelJob
<1>4. CASE RemoveDead(h)
  BY <1>4 DEF RemoveDead
<1>5. CASE InsertRestored(h)
  BY <1>5 DEF InsertRestored
<1>6. ASSUME NEW d \in {"Approved", "Rejected"}, DecideApproval(h, d)
      PROVE  [Next]_storeVars
  BY <1>6 DEF DecideApproval
<1>7. CASE DecisionRefused(h) \/ AnswerRefused(h)
  BY <1>7 DEF DecisionRefused, AnswerRefused, ElseUnchanged
<1>8. CASE AnswerStored(h) \/ AnswerRemoved(h) \/ SweepPass(h)
  BY <1>8 DEF AnswerStored, AnswerRemoved, SweepPass
<1>9. CASE Opens(h)
  BY <1>9 DEF Opens, OpenDecision, OpenAnswer, OpenStop, OpenSwitch, OpenSweep,
     ElseUnchanged
<1> QED
  BY <1>1, <1>2, <1>3, <1>4, <1>5, <1>6, <1>7, <1>8, <1>9 DEF HandlerStep

LEMMA UsesTheStore ==
    ASSUME ApprovalsInv, [ApprovalsNext]_approvalVars
    PROVE  [Next]_storeVars
<1>1. ASSUME NEW s \in SessionId, SessionExpires(s) PROVE [Next]_storeVars
  BY <1>1 DEF SessionExpires, Next, SessionStep
<1>2. CASE UNCHANGED approvalVars
  BY <1>2 DEF approvalVars
<1> QED
  BY <1>1, <1>2, TaskUsesTheStore, HandlerUsesTheStore DEF ApprovalsNext

-----------------------------------------------------------------------------
(* A step of a task keeps what the stores hold.                            *)
LEMMA TaskKeepsWaiters ==
    ASSUME ApprovalsInv, NEW j \in JobId, TaskStep(j)
    PROVE  WaitersInv'
<1> USE DEF ApprovalsInv, TasksInv
<1>0. /\ task[j].kind \in Kind
      /\ UNCHANGED waiterVars => WaitersInv'
  BY DEF TaskState, waiterVars, WaitersInv, WaitersTypeOK, RequestsAreFiled,
     Undecided, Drawn
<1>1. ASSUME NEW r \in RequestId, Ask(j, r) PROVE WaitersInv'
  <2>1. owner[j].session \in SessionId
    BY <1>1 DEF Ask, At, WorkIsOwned, Owner
  <2> QED
    BY <1>0, <1>1, <2>1, SubmitKeeps DEF Ask
<1>2. CASE TakeAnswer(j)
  BY <1>2, TakeDecisionKeeps DEF TakeAnswer
<1>3. CASE WakeNotified(j)
  BY <1>3, RemovalKeeps DEF WakeNotified, WaitersInv, WaitersTypeOK
<1>4. CASE RevokePending(j) \/ RevokeInflight(j)
  BY <1>0, <1>4, InvalidatePassKeeps DEF RevokePending, RevokeInflight, Map
<1>5. CASE Return(j)
  BY <1>5, ForgetKeeps DEF Return
<1>6. CASE \/ \E s \in SessionId, c \in ConversationId : Begin(s, c, j)
           \/ \E kind \in Kind : Invoke(j, kind)
           \/ EndTask(j) \/ ReleaseTask(j)
  BY <1>0, <1>6 DEF Begin, Invoke, EndTask, ReleaseTask
<1>7. CASE \/ EvidenceFails(j) \/ AskRefused(j) \/ Await(j) \/ StartWait(j)
           \/ CheckStop(j) \/ Park(j) \/ WakeStopped(j)
  BY <1>0, <1>7 DEF EvidenceFails, AskRefused, Await, StartWait, CheckStop,
     Park, WakeStopped
<1> QED
  BY <1>1, <1>2, <1>3, <1>4, <1>5, <1>6, <1>7 DEF TaskStep, ToolStep

(* A task that moves on keeps its owner and its request.                   *)
LEMMA TaskKeepsTasks ==
    ASSUME ApprovalsInv, NEW j \in JobId, TaskStep(j)
    PROVE  TasksInv'
<1> USE DEF ApprovalsInv, TasksInv, WorkIsOwned, At, Goto, GotoWith, TaskState,
        Busy
<1>1. ASSUME NEW s \in SessionId, NEW c \in ConversationId, Begin(s, c, j)
      PROVE  TasksInv'
  <2>1. /\ owner \in [JobId -> Owner \union {NoId}]
        /\ owner' = [owner EXCEPT ![j] = [session |-> s, conversation |-> c]]
        /\ [session |-> s, conversation |-> c] \in Owner
        /\ task' = [task EXCEPT ![j].at = "idle"]
    BY <1>1 DEF Begin, BeginConversationJob, TypeOK, Owner
  <2>2. \A i \in JobId : task'[i].at # "none" => owner'[i] \in Owner
    BY <2>1
  <2> QED
    BY <2>1, <2>2
<1>2. ASSUME ~\E s \in SessionId, c \in ConversationId : Begin(s, c, j)
      PROVE  UNCHANGED owner
  BY <1>2 DEF TaskStep, ToolStep, Invoke, Ask, AskRefused, EvidenceFails, Await,
     StartWait, CheckStop, TakeAnswer, Park, WakeStopped, WakeNotified,
     RevokePending, RevokeInflight, Return, ResumeIfAwaiting, EndTask,
     ReleaseTask, SetAwaiting, Resume, Finish, FinishConversationJob,
     statusOnly, storeVars
<1>3. ASSUME UNCHANGED owner,
             NEW kind \in Kind, Invoke(j, kind) PROVE TasksInv'
  BY <1>3 DEF Invoke, Rest
<1>4. ASSUME UNCHANGED owner, NEW r \in RequestId, Ask(j, r) PROVE TasksInv'
  BY <1>4 DEF Ask
<1>5. ASSUME UNCHANGED owner, AskRefused(j) \/ Return(j) PROVE TasksInv'
  BY <1>5 DEF AskRefused, Return, Rest, Kind
<1>6. ASSUME UNCHANGED owner, TakeAnswer(j) PROVE TasksInv'
  <2>1. decision[task[j].request] \in Decision
    BY <1>6 DEF TakeAnswer, WaitersInv, WaitersTypeOK
  <2> QED
    BY <1>6, <2>1 DEF TakeAnswer
<1>7. ASSUME UNCHANGED owner,
             EvidenceFails(j) \/ Await(j) \/ StartWait(j) \/ CheckStop(j)
      PROVE  TasksInv'
  BY <1>7 DEF EvidenceFails, Await, StartWait, CheckStop
<1>8. ASSUME UNCHANGED owner,
             \/ Park(j) \/ WakeStopped(j) \/ WakeNotified(j)
             \/ RevokePending(j) \/ RevokeInflight(j)
      PROVE  TasksInv'
  BY <1>8 DEF Park, WakeStopped, WakeNotified, RevokePending, RevokeInflight
<1>9. ASSUME UNCHANGED owner, EndTask(j) \/ ReleaseTask(j) PROVE TasksInv'
  BY <1>9 DEF EndTask, ReleaseTask
<1> QED
  BY <1>1, <1>2, <1>3, <1>4, <1>5, <1>6, <1>7, <1>8, <1>9
     DEF TaskStep, ToolStep

(* Requests stay drawn, and a task decides nothing.                        *)
LEMMA TaskKeepsDecisions ==
    ASSUME ApprovalsInv, NEW j \in JobId, TaskStep(j)
    PROVE  /\ UNCHANGED <<decision, handler>>
           /\ \A r \in Drawn : r \in Drawn' /\ request'[r] = request[r]
<1>1. ASSUME NEW r \in RequestId, Ask(j, r)
      PROVE  \A q \in Drawn : q \in Drawn' /\ request'[q] = request[q]
  BY <1>1 DEF Ask, Submit, Drawn, ApprovalsInv, WaitersInv, WaitersTypeOK
<1>2. UNCHANGED <<decision, handler>>
  BY DEF TaskStep, ToolStep, Begin, Invoke, Ask, AskRefused, EvidenceFails,
     Await, StartWait, CheckStop, TakeAnswer, Park, WakeStopped, WakeNotified,
     RevokePending, RevokeInflight, Return, EndTask, ReleaseTask, Submit,
     TakeDecision, InvalidatePass, Forget, waiterVars
<1>3. ASSUME ~\E r \in RequestId : Ask(j, r) PROVE UNCHANGED request
  BY <1>3 DEF TaskStep, ToolStep, Begin, Invoke, AskRefused, EvidenceFails,
     Await, StartWait, CheckStop, TakeAnswer, Park, WakeStopped, WakeNotified,
     RevokePending, RevokeInflight, Return, EndTask, ReleaseTask,
     TakeDecision, InvalidatePass, Forget, waiterVars
<1> QED
  BY <1>1, <1>2, <1>3 DEF Drawn

LEMMA TaskKeepsHandlers ==
    ASSUME ApprovalsInv, NEW j \in JobId, TaskStep(j)
    PROVE  HandlersInv'
  BY TaskKeepsDecisions DEF ApprovalsInv, HandlersInv, HandlersNameTheirSubject,
     AnswerIsDue, OneAnswers, HandlerAt

-----------------------------------------------------------------------------
(* A step of a handler keeps what the stores hold.                         *)
LEMMA HandlerKeepsWaiters ==
    ASSUME ApprovalsInv, NEW h \in Handler, HandlerStep(h) \/ Opens(h)
    PROVE  WaitersInv'
<1> USE DEF ApprovalsInv, HandlersInv
<1>0. UNCHANGED waiterVars => WaitersInv'
  BY DEF waiterVars, WaitersInv, WaitersTypeOK, RequestsAreFiled, Undecided,
     Drawn
<1>1. ASSUME NEW d \in {"Approved", "Rejected"}, DecideApproval(h, d)
      PROVE  WaitersInv'
  BY <1>1, DecideKeeps DEF DecideApproval, Decision
<1>2. CASE AnswerStored(h)
  BY <1>2, StoreAnswerKeeps DEF AnswerStored, AnswerIsDue, Decision
<1>3. CASE AnswerRemoved(h)
  BY <1>3, RemoveAnsweredKeeps DEF AnswerRemoved
<1>4. CASE SweepPass(h)
  <2>1. Head(handler[h].todo) \in Kind \X Map
    BY <1>4 DEF SweepPass, HandlersNameTheirSubject,
       NamesItsSubject, HandlerState, HandlerAt
  <2> QED
    BY <1>4, <2>1, InvalidatePassKeeps DEF SweepPass
<1>5. CASE \/ ResumeByHandler(h) \/ AnswerResumes(h) \/ CancelJob(h)
           \/ RemoveDead(h) \/ InsertRestored(h)
  BY <1>0, <1>5 DEF ResumeByHandler, AnswerResumes, CancelJob, RemoveDead,
     InsertRestored
<1>6. CASE DecisionRefused(h) \/ AnswerRefused(h) \/ Opens(h)
  BY <1>0, <1>6 DEF DecisionRefused, AnswerRefused, Opens, OpenDecision,
     OpenAnswer, OpenStop, OpenSwitch, OpenSweep, ElseUnchanged
<1> QED
  BY <1>1, <1>2, <1>3, <1>4, <1>5, <1>6 DEF HandlerStep

LEMMA HandlerKeepsTasks ==
    ASSUME ApprovalsInv, NEW h \in Handler, HandlerStep(h) \/ Opens(h)
    PROVE  TasksInv'
<1>1. UNCHANGED <<task, owner>>
  BY DEF HandlerStep, Opens, DecideApproval, DecisionRefused, ResumeByHandler,
     AnswerResumes, AnswerRefused, AnswerStored, AnswerRemoved, CancelJob,
     SweepPass, RemoveDead, InsertRestored, OpenDecision, OpenAnswer, OpenStop,
     OpenSwitch, OpenSweep, ElseUnchanged, ResumeIfAwaiting, Resume,
     RequestCancel, Remove, Insert, statusOnly, storeVars
<1> QED
  BY <1>1 DEF ApprovalsInv, TasksInv, WorkIsOwned, At

(* A handler that moves on, other than to the point where it is about to   *)
(* store an answer.                                                        *)
LEMMA MoveKeeps ==
    ASSUME HandlersInv, NEW h \in Handler, NEW form \in HandlerState,
           handler' = [handler EXCEPT ![h] = form],
           NamesItsSubject(form),
           form.at # "storing",
           form.at = "removing" => HandlerAt(h, "storing"),
           UNCHANGED request,
           \A o \in Handler \ {h} :
               HandlerAt(o, "storing") =>
                   decision'[handler[o].request] = decision[handler[o].request]
    PROVE  HandlersInv'
<1>1. \A o \in Handler :
          handler'[o] = IF o = h THEN form ELSE handler[o]
  BY DEF HandlersInv
<1>2. handler' \in [Handler -> HandlerState]
  BY DEF HandlersInv
<1>3. \A o \in Handler : NamesItsSubject(handler'[o])
  BY <1>1 DEF HandlersInv, HandlersNameTheirSubject
<1>4. HandlersNameTheirSubject'
  BY <1>3 DEF HandlersNameTheirSubject, NamesItsSubject
<1>5. AnswerIsDue'
  BY <1>1 DEF HandlersInv, AnswerIsDue, HandlerAt, Drawn
<1>6. OneAnswers'
  BY <1>1 DEF HandlersInv, OneAnswers, HandlerAt
<1> QED
  BY <1>2, <1>4, <1>5, <1>6 DEF HandlersInv

(* The handler that stores an answer holds the lock of the questions, so   *)
(* that no other handler is between its check and its end.                 *)
LEMMA HandlerKeepsHandlers ==
    ASSUME ApprovalsInv, NEW h \in Handler, HandlerStep(h) \/ Opens(h)
    PROVE  HandlersInv'
<1> USE DEF ApprovalsInv
<1> DEFINE at(place) == [handler[h] EXCEPT !.at = place]
<1>0. /\ handler[h] \in HandlerState
      /\ HandlersInv
      /\ NamesItsSubject(handler[h])
      /\ Idle \in HandlerState
      /\ NamesItsSubject(Idle)
      /\ Idle.at = "idle"
  BY DEF HandlersInv, HandlersNameTheirSubject, HandlerState, Idle,
     NamesItsSubject
<1>1. ASSUME NEW d \in {"Approved", "Rejected"}, DecideApproval(h, d)
      PROVE  HandlersInv'
  <2>1. at("resume") \in HandlerState /\ NamesItsSubject(at("resume"))
    BY <1>0, <1>1 DEF HandlerState, NamesItsSubject, DecideApproval, HandlerAt
  <2>2. handler' = [handler EXCEPT ![h] = at("resume")]
    BY <1>1 DEF DecideApproval, Move
  <2>3. /\ request[handler[h].request].kind = "approval"
        /\ decision' = [decision EXCEPT ![handler[h].request] = d]
        /\ UNCHANGED request
    BY <1>1, DecideKeeps DEF DecideApproval, Decide, Decision
  <2>4. \A o \in Handler \ {h} :
            HandlerAt(o, "storing") =>
               decision'[handler[o].request] = decision[handler[o].request]
    BY <2>3 DEF HandlersInv, AnswerIsDue, WaitersInv, WaitersTypeOK, Drawn
  <2>5. at("resume").at = "resume"
    BY <1>0 DEF HandlerState
  <2> HIDE DEF at
  <2> QED
    BY <1>0, <2>1, <2>2, <2>3, <2>4, <2>5, MoveKeeps
<1>2. CASE DecisionRefused(h) \/ AnswerRefused(h)
  BY <1>0, <1>2, MoveKeeps DEF DecisionRefused, AnswerRefused, Leave,
     ElseUnchanged, waiterVars
<1>3. CASE ResumeByHandler(h) \/ InsertRestored(h)
  BY <1>0, <1>3, MoveKeeps DEF ResumeByHandler, InsertRestored, Leave, waiterVars
<1>4. CASE AnswerResumes(h)
  <2>1. /\ handler' = [handler EXCEPT ![h].at = "storing"]
        /\ UNCHANGED <<request, decision>>
        /\ HandlerAt(h, "answer")
        /\ handler[h].request \in store.question.pending
        /\ decision[handler[h].request] = "none"
        /\ \A o \in Handler : handler[o].at \notin {"storing", "removing"}
    BY <1>4 DEF AnswerResumes, Answerable, AnswerHoldsLock, Move, HandlerAt,
       waiterVars
  <2>2. handler' \in [Handler -> HandlerState]
    <3>1. at("storing") \in HandlerState
      BY <1>0 DEF HandlerState
    <3>2. handler' = [handler EXCEPT ![h] = at("storing")]
      BY <2>1
    <3> HIDE DEF at
    <3> QED
      BY <3>1, <3>2 DEF HandlersInv
  <2>3. HandlersNameTheirSubject'
    BY <2>1 DEF HandlersInv, HandlersNameTheirSubject, NamesItsSubject,
       HandlerState, HandlerAt
  <2>4. /\ handler[h].request \in Drawn
        /\ request[handler[h].request].kind = "question"
    BY <2>1 DEF WaitersInv, RequestsAreFiled, Kind, Map
  <2>5. AnswerIsDue'
    BY <2>1, <2>4 DEF HandlersInv, HandlerState, AnswerIsDue, HandlerAt, Drawn
  <2>6. OneAnswers'
    BY <2>1 DEF HandlersInv, HandlerState, OneAnswers
  <2> QED
    BY <2>2, <2>3, <2>5, <2>6 DEF HandlersInv
<1>5. CASE AnswerStored(h)
  <2>1. at("removing") \in HandlerState /\ NamesItsSubject(at("removing"))
    BY <1>0, <1>5 DEF HandlerState, NamesItsSubject, AnswerStored, HandlerAt
  <2>2. handler' = [handler EXCEPT ![h] = at("removing")]
    BY <1>5 DEF AnswerStored, Move
  <2>3. ASSUME NEW o \in Handler \ {h} PROVE ~HandlerAt(o, "storing")
    BY <1>5 DEF AnswerStored, HandlersInv, OneAnswers, HandlerAt
  <2>4. at("removing").at = "removing"
    BY <1>0 DEF HandlerState
  <2>5. HandlerAt(h, "storing") /\ UNCHANGED request
    BY <1>5 DEF AnswerStored, StoreAnswer
  <2> HIDE DEF at
  <2> QED
    BY <1>0, <2>1, <2>2, <2>3, <2>4, <2>5, MoveKeeps
<1>6. CASE AnswerRemoved(h)
  BY <1>0, <1>6, MoveKeeps DEF AnswerRemoved, RemoveAnswered, Leave
<1>7. CASE CancelJob(h)
  <2> DEFINE swept == [handler[h] EXCEPT !.at = "sweep",
                          !.todo = ApprovalPasses \o QuestionPasses]
  <2>1. CASE handler[h].kind = "stop"
    <3>1. /\ ApprovalPasses \o QuestionPasses \in Seq(Kind \X Map)
          /\ ApprovalPasses \o QuestionPasses # <<>>
      BY DEF ApprovalPasses, QuestionPasses, Kind, Map
    <3>2. swept \in HandlerState /\ swept.at = "sweep"
      BY <1>0, <3>1 DEF HandlerState
    <3>3. NamesItsSubject(swept)
      BY <1>0, <1>7, <2>1, <3>1 DEF NamesItsSubject, CancelJob, HandlerAt,
         AfterSweep, HandlerState
    <3>4. /\ handler' = [handler EXCEPT ![h] = swept]
          /\ UNCHANGED <<request, decision>>
      BY <1>7, <2>1 DEF CancelJob, waiterVars
    <3> HIDE DEF swept
    <3> QED
      BY <1>0, <3>2, <3>3, <3>4, MoveKeeps
  <2>2. CASE handler[h].kind # "stop"
    BY <1>0, <1>7, <2>2, MoveKeeps DEF CancelJob, Leave, waiterVars
  <2> QED
    BY <2>1, <2>2
<1>8. CASE RemoveDead(h)
  <2>1. at("insert") \in HandlerState /\ at("insert").at = "insert"
    BY <1>0 DEF HandlerState
  <2>2. NamesItsSubject(at("insert"))
    BY <1>0, <1>8 DEF NamesItsSubject, RemoveDead, HandlerAt, HandlerState
  <2>3. handler' = [handler EXCEPT ![h] = at("insert")] \/ Leave(h)
    BY <1>8 DEF RemoveDead, Move
  <2>4. UNCHANGED <<request, decision>>
    BY <1>8 DEF RemoveDead, waiterVars
  <2> HIDE DEF at
  <2> QED
    BY <1>0, <2>1, <2>2, <2>3, <2>4, MoveKeeps DEF Leave
<1>9. CASE SweepPass(h)
  <2> DEFINE next == IF Len(handler[h].todo) = 1
                     THEN AfterSweep[handler[h].kind] ELSE "sweep"
             form == [handler[h] EXCEPT !.at = next, !.todo = Tail(@)]
  <2>1. /\ handler[h].todo \in Seq(Kind \X Map) \ {<<>>}
        /\ handler[h].kind \in DOMAIN AfterSweep
        /\ HandlerAt(h, "sweep")
    BY <1>0, <1>9 DEF SweepPass, NamesItsSubject, HandlerAt, HandlerState
  <2>2. /\ Tail(handler[h].todo) \in Seq(Kind \X Map)
        /\ next = "sweep" => Tail(handler[h].todo) # <<>>
    <3>1. next = "sweep" => Len(handler[h].todo) # 1
      BY <2>1 DEF AfterSweep
    <3> HIDE DEF next
    <3> DEFINE todo == handler[h].todo
    <3>2. todo \in Seq(Kind \X Map) /\ todo # <<>>
      BY <2>1
    <3> HIDE DEF todo
    <3>3. Tail(todo) \in Seq(Kind \X Map) /\ Len(Tail(todo)) = Len(todo) - 1
      BY <3>2, HeadTailProperties
    <3>4. ASSUME Tail(todo) = <<>> PROVE Len(todo) = 1
      <4>1. Len(<<>>) = Len(todo) - 1
        BY <3>3, <3>4, Zenon
      <4> QED
        BY <3>2, <4>1
    <3> QED
      BY <3>1, <3>3, <3>4 DEF todo
  <2>3. /\ next \in {"decide", "resume", "cancel", "remove", "sweep"}
        /\ next = "remove" => handler[h].kind \in {"purge", "restore"}
        /\ next \in {"decide", "resume", "cancel"} =>
              handler[h].kind \notin {"purge", "restore"}
    BY <2>1 DEF AfterSweep
  <2> HIDE DEF next
  <2>4. form \in HandlerState /\ form.at = next
    BY <1>0, <2>2, <2>3 DEF HandlerState
  <2>5. NamesItsSubject(form)
    BY <1>0, <2>1, <2>2, <2>3 DEF NamesItsSubject, HandlerAt, HandlerState
  <2>6. /\ handler' = [handler EXCEPT ![h] = form]
        /\ UNCHANGED <<request, decision>>
    BY <1>9 DEF SweepPass, InvalidatePass, next
  <2> HIDE DEF form
  <2> QED
    BY <1>0, <2>3, <2>4, <2>5, <2>6, MoveKeeps
<1>10. CASE Opens(h)
  <2>1. PICK form \in HandlerState :
            /\ handler' = [handler EXCEPT ![h] = form]
            /\ form.at \in {"decide", "answer", "cancel", "sweep"}
            /\ NamesItsSubject(form)
    <3>1. /\ ApprovalPasses \in Seq(Kind \X Map) \ {<<>>}
          /\ ApprovalPasses \o QuestionPasses \in Seq(Kind \X Map) \ {<<>>}
      BY DEF ApprovalPasses, QuestionPasses, Kind, Map
    <3> DEFINE Opened(form) ==
                 /\ handler' = [handler EXCEPT ![h] = form]
                 /\ form.at \in {"decide", "answer", "cancel", "sweep"}
                 /\ NamesItsSubject(form)
    <3>2. ASSUME NEW s \in SessionId, NEW r \in Drawn, OpenDecision(h, s, r)
          PROVE  \E form \in HandlerState : Opened(form)
      <4>1. PICK seen \in store.approval.pending \union {NoRequest} :
                handler' = [handler EXCEPT ![h] =
                   [at |-> IF cancel[request[r].job] THEN "sweep" ELSE "decide",
                    kind |-> "decide", session |-> s, job |-> request[r].job,
                    request |-> r, seen |-> seen,
                    todo |-> IF cancel[request[r].job] THEN ApprovalPasses
                             ELSE <<>>]]
        BY <3>2 DEF OpenDecision
      <4>2. /\ r \in RequestId /\ request[r].job \in JobId
            /\ seen \in RequestId \union {NoRequest}
        BY DEF Drawn, WaitersInv, WaitersTypeOK, Asked, Kind, Map
      <4> DEFINE stopped == cancel[request[r].job]
                 form == [at |-> IF stopped THEN "sweep" ELSE "decide",
                          kind |-> "decide", session |-> s,
                          job |-> request[r].job, request |-> r, seen |-> seen,
                          todo |-> IF stopped THEN ApprovalPasses ELSE <<>>]
      <4>3. handler' = [handler EXCEPT ![h] = form]
        BY <4>1
      <4> HIDE DEF stopped
      <4>4. form \in HandlerState
        BY <3>1, <4>2 DEF HandlerState
      <4>5. NamesItsSubject(form) /\ form.at \in {"decide", "sweep"}
        BY <3>1, <4>2 DEF NamesItsSubject, AfterSweep
      <4> HIDE DEF form
      <4> QED
        BY <4>3, <4>4, <4>5
    <3>3. ASSUME NEW s \in SessionId, NEW r \in Drawn, OpenAnswer(h, s, r)
          PROVE  \E form \in HandlerState : Opened(form)
      <4> DEFINE form == [at |-> "answer", kind |-> "answer", session |-> s,
                          job |-> request[r].job, request |-> r, seen |-> r,
                          todo |-> <<>>]
      <4>1. r \in RequestId /\ request[r].job \in JobId
        BY DEF Drawn, WaitersInv, WaitersTypeOK, Asked
      <4>2. form \in HandlerState /\ NamesItsSubject(form)
        BY <4>1 DEF HandlerState, NamesItsSubject
      <4> QED
        BY <3>3, <4>2 DEF OpenAnswer
    <3>4. ASSUME NEW s \in SessionId, NEW j \in JobId, OpenStop(h, s, j)
          PROVE  \E form \in HandlerState : Opened(form)
      <4>1. PICK q \in store.approval.pending \union {NoRequest} :
                handler' = [handler EXCEPT ![h] =
                   [Idle EXCEPT !.at = "cancel", !.kind = "stop",
                                !.session = s, !.job = j, !.seen = q]]
        BY <3>4 DEF OpenStop
      <4>2. q \in RequestId \union {NoRequest}
        BY DEF WaitersInv, WaitersTypeOK, Kind, Map
      <4> DEFINE form == [Idle EXCEPT !.at = "cancel", !.kind = "stop",
                                !.session = s, !.job = j, !.seen = q]
      <4>3. form \in HandlerState /\ form.at = "cancel"
        BY <1>0, <4>2 DEF HandlerState
      <4>4. NamesItsSubject(form)
        BY DEF Idle, NamesItsSubject
      <4> QED
        BY <4>1, <4>3, <4>4
    <3>5. ASSUME NEW s \in SessionId, NEW j \in JobId, OpenSwitch(h, s, j)
          PROVE  \E form \in HandlerState : Opened(form)
      <4> DEFINE form == [Idle EXCEPT !.at = "sweep", !.kind = "switch",
                              !.session = s, !.job = j,
                              !.todo = ApprovalPasses \o QuestionPasses]
      <4>1. /\ form \in HandlerState /\ NamesItsSubject(form)
            /\ form.at = "sweep"
        BY <3>1 DEF Idle, HandlerState, NamesItsSubject, AfterSweep
      <4> QED
        BY <3>5, <4>1 DEF OpenSwitch
    <3>6. ASSUME NEW s \in SessionId, NEW kind \in {"purge", "restore"},
                 OpenSweep(h, kind, s)
          PROVE  \E form \in HandlerState : Opened(form)
      <4> DEFINE form == [Idle EXCEPT !.at = "sweep", !.kind = kind,
                              !.session = s,
                              !.todo = ApprovalPasses \o QuestionPasses]
      <4>1. /\ form \in HandlerState /\ NamesItsSubject(form)
            /\ form.at = "sweep"
        BY <3>1 DEF Idle, HandlerState, NamesItsSubject, AfterSweep
      <4> QED
        BY <3>6, <4>1 DEF OpenSweep
    <3> QED
      BY <1>10, <3>2, <3>3, <3>4, <3>5, <3>6 DEF Opens
  <2>2. UNCHANGED <<request, decision>>
    BY <1>10 DEF Opens, OpenDecision, OpenAnswer, OpenStop, OpenSwitch,
       OpenSweep, ElseUnchanged, waiterVars
  <2> QED
    BY <1>0, <2>1, <2>2, MoveKeeps
<1> QED
  BY <1>1, <1>2, <1>3, <1>4, <1>5, <1>6, <1>7, <1>8, <1>9, <1>10
     DEF HandlerStep

-----------------------------------------------------------------------------
LEMMA ApprovalsInvInit == ApprovalsInit => ApprovalsInv
<1> SUFFICES ASSUME ApprovalsInit PROVE ApprovalsInv
  OBVIOUS
<1>1. TypeOK
  BY IInvInit DEF ApprovalsInit, IInv
<1>2. WaitersInv
  <2>1. Drawn = {}
    BY DEF ApprovalsInit, WaitersInit, Drawn
  <2> QED
    BY <2>1 DEF ApprovalsInit, WaitersInit, WaitersInv, WaitersTypeOK,
       RequestsAreFiled, Undecided, Kind, Map
<1>3. TasksInv
  BY DEF ApprovalsInit, TasksInv, TaskState, Rest, Kind, WorkIsOwned, At, Busy
<1>4. HandlersInv
  BY DEF ApprovalsInit, HandlersInv, HandlersNameTheirSubject, NamesItsSubject,
     AnswerIsDue, OneAnswers, HandlerState, Idle, HandlerAt
<1> QED
  BY <1>1, <1>2, <1>3, <1>4 DEF ApprovalsInv

LEMMA ApprovalsInvStep ==
    ApprovalsInv /\ [ApprovalsNext]_approvalVars => ApprovalsInv'
<1> SUFFICES ASSUME ApprovalsInv, [ApprovalsNext]_approvalVars
             PROVE  ApprovalsInv'
  OBVIOUS
<1>1. TypeOK'
  BY UsesTheStore, TypeStep DEF ApprovalsInv
<1>2. ASSUME NEW j \in JobId, TaskStep(j) PROVE ApprovalsInv'
  BY <1>1, <1>2, TaskKeepsWaiters, TaskKeepsTasks, TaskKeepsHandlers
     DEF ApprovalsInv
<1>3. ASSUME NEW h \in Handler, HandlerStep(h) \/ Opens(h)
      PROVE  ApprovalsInv'
  BY <1>1, <1>3, HandlerKeepsWaiters, HandlerKeepsTasks, HandlerKeepsHandlers
     DEF ApprovalsInv
<1>4. ASSUME UNCHANGED <<waiterVars, task, handler, owner>>
      PROVE  ApprovalsInv'
  <2>1. WaitersInv'
    BY <1>4 DEF ApprovalsInv, WaitersInv, WaitersTypeOK, RequestsAreFiled,
       Undecided, Drawn, waiterVars
  <2>2. TasksInv'
    BY <1>4 DEF ApprovalsInv, TasksInv, WorkIsOwned, At
  <2>3. HandlersInv'
    BY <1>4 DEF ApprovalsInv, HandlersInv, HandlersNameTheirSubject,
       NamesItsSubject, AnswerIsDue, OneAnswers, HandlerAt, Drawn, waiterVars
  <2> QED
    BY <1>1, <2>1, <2>2, <2>3 DEF ApprovalsInv
<1>5. ASSUME NEW s \in SessionId, SessionExpires(s) PROVE ApprovalsInv'
  BY <1>4, <1>5 DEF SessionExpires, Expire
<1>6. CASE UNCHANGED approvalVars
  BY <1>4, <1>6 DEF approvalVars, storeVars
<1> QED
  BY <1>2, <1>3, <1>5, <1>6 DEF ApprovalsNext

THEOREM ApprovalsInvariance == ApprovalsSpec => []ApprovalsInv
  BY ApprovalsInvInit, ApprovalsInvStep, PTL DEF ApprovalsSpec

(* Every variable keeps its type (approval.rs, questions.rs, job.rs).      *)
THEOREM ApprovalsTypeCorrect == ApprovalsSpec => []ApprovalsTypeOK
<1>1. ApprovalsInv => ApprovalsTypeOK
  BY DEF ApprovalsInv, ApprovalsTypeOK, WaitersInv, TasksInv, HandlersInv
<1> QED
  BY <1>1, ApprovalsInvariance, PTL

(* Waiting, deciding, answering and stopping use the session store by its  *)
(* operations only, so what is proved of it holds for them.                *)
THEOREM ApprovalsImplementStore == ApprovalsSpec => Spec
<1>1. ApprovalsInit => Init
  BY DEF ApprovalsInit
<1>2. ApprovalsInv /\ [ApprovalsNext]_approvalVars => [Next]_storeVars
  BY UsesTheStore
<1> QED
  BY <1>1, <1>2, ApprovalsInvariance, PTL DEF ApprovalsSpec, Spec

(* No decision is ever replaced, whatever handlers race (approval.rs:      *)
(* decide; questions.rs: decide).                                          *)
THEOREM DecisionsAreFinal == ApprovalsSpec => DecisionIsFinal
<1> DEFINE Kept == \A r \in RequestId :
                      decision[r] # "none" => decision'[r] = decision[r]
<1>1. ASSUME ApprovalsInv, [ApprovalsNext]_approvalVars PROVE Kept
  <2>1. ASSUME NEW j \in JobId, TaskStep(j) PROVE Kept
    BY <1>1, <2>1, TaskKeepsDecisions
  <2>2. ASSUME NEW h \in Handler, NEW d \in {"Approved", "Rejected"},
               DecideApproval(h, d)
        PROVE  Kept
    <3>1. decision[handler[h].request] = "none"
      BY <1>1, <2>2, DecideKeeps DEF DecideApproval, Decision, ApprovalsInv
    <3> QED
      BY <1>1, <2>2, <3>1 DEF DecideApproval, Decide, ApprovalsInv, WaitersInv,
         WaitersTypeOK
  <2>3. ASSUME NEW h \in Handler, AnswerStored(h) PROVE Kept
    BY <1>1, <2>3 DEF AnswerStored, StoreAnswer, ApprovalsInv, WaitersInv,
       WaitersTypeOK, HandlersInv, AnswerIsDue
  <2>4. ASSUME NEW h \in Handler, HandlerStep(h) \/ Opens(h),
               ~\E d \in {"Approved", "Rejected"} : DecideApproval(h, d),
               ~AnswerStored(h)
        PROVE  UNCHANGED decision
    BY <2>4 DEF HandlerStep, Opens, DecisionRefused, ResumeByHandler,
       AnswerResumes, AnswerRefused, AnswerRemoved, CancelJob, SweepPass,
       RemoveDead, InsertRestored, OpenDecision, OpenAnswer, OpenStop,
       OpenSwitch, OpenSweep, ElseUnchanged, RemoveAnswered, InvalidatePass,
       waiterVars
  <2>5. ASSUME NEW s \in SessionId, SessionExpires(s) PROVE Kept
    BY <2>5 DEF SessionExpires, waiterVars
  <2>6. CASE UNCHANGED approvalVars
    BY <2>6 DEF approvalVars, waiterVars
  <2> QED
    BY <1>1, <2>1, <2>2, <2>3, <2>4, <2>5, <2>6 DEF ApprovalsNext
<1>2. ApprovalsInv /\ [ApprovalsNext]_approvalVars => [Kept]_waiterVars
  BY <1>1
<1> QED
  BY <1>2, ApprovalsInvariance, PTL DEF ApprovalsSpec, DecisionIsFinal

-----------------------------------------------------------------------------
(***************************************************************************)
(* What a waiting task may rely on: it can be reached, its question counts *)
(* as open, an accepted decision is what it gets, and an answer resumes    *)
(* its own wait.                                                           *)
(*                                                                         *)
(* The invariant follows a request from its submission on.  The flags, the *)
(* permit and the maps of a request belong to the one task that submitted  *)
(* it (HoldsItsRequest): only that task consumes the permit and forgets    *)
(* the flags.  So while the task waits its request leaves a map only with  *)
(* a decision or a flag (StaysOnRecord), and what was put between its      *)
(* check and its sleep is still there to wake it (IsNoticed).  The other   *)
(* way round, a pending request without decision or flag is the one its    *)
(* task waits for (PendingIsAwaited): an answer meets no other wait.       *)
(***************************************************************************)

Asking == {"submitted", "awaiting", "checking", "reading", "parked"}
Using == Asking \union {"revokePending", "revokeInflight", "resuming"}

(* A task names a request of its own, drawn for the call it is in.         *)
HoldsItsRequest(j) ==
    /\ ~At(j, "none") => j \in Begun
    /\ task[j].at \in Using =>
          /\ task[j].request \in Drawn
          /\ request[task[j].request].kind = task[j].kind
          /\ request[task[j].request].job = j
    /\ task[j].at \notin Using \ Asking => task[j].outcome = "none"

(* Neither map lets go of the request without a trace the task will see.   *)
StaysOnRecord(j) ==
    LET r == task[j].request
        maps == store[task[j].kind]
    IN task[j].at \in Asking /\ r \notin invalidated =>
          /\ r \in maps.inflight
          /\ decision[r] = "none" => r \in maps.pending

(* What comes after the task looked leaves a permit.                       *)
IsNoticed(j) ==
    LET r == task[j].request
    IN /\ At(j, "reading") \/ At(j, "parked") =>
             (r \in invalidated => r \in permit)
       /\ At(j, "parked") => (decision[r] # "none" => r \in permit)

(* The outcome a task carries is what was decided.                         *)
OutcomeIsDue(j) ==
    LET r == task[j].request
        got == task[j].outcome
    IN /\ got \in Decision => decision[r] = got
       /\ got = "Missing" => r \in invalidated
       /\ got = "Cancelled" /\ At(j, "revokePending") =>
             cancel[j] \/ r \in invalidated

TaskIsServed(j) ==
    HoldsItsRequest(j) /\ StaysOnRecord(j) /\ IsNoticed(j) /\ OutcomeIsDue(j)

(* An open request is the one its task waits for.                          *)
Open(r) ==
    /\ r \in store[request[r].kind].pending
    /\ r \notin invalidated
    /\ decision[r] = "none"

Awaited(r) ==
    LET j == request[r].job
    IN task[j].request = r /\ task[j].at \in Asking \union {"revokePending"}

PendingIsAwaited == \A r \in Drawn : Open(r) => Awaited(r)

(* A handler that answers knows the job of its question, and takes it off  *)
(* only after the answer was stored.                                       *)
AnswersForTheJob(form) ==
    /\ form.at \in {"answer", "storing", "removing"} <=> form.kind = "answer"
    /\ form.kind = "answer" =>
          /\ form.request \in Drawn
          /\ request[form.request].job = form.job
    /\ form.at = "removing" => decision[form.request] # "none"

AnsweringInv ==
    /\ ApprovalsInv
    /\ \A j \in JobId : TaskIsServed(j)
    /\ PendingIsAwaited
    /\ \A h \in Handler : AnswersForTheJob(handler[h])

-----------------------------------------------------------------------------

(* What anybody but its own task may do to a request.                      *)
RequestIsKept(r) ==
    LET k == request[r].kind
    IN /\ r \in invalidated => r \in invalidated'
       /\ r \in permit => r \in permit'
       /\ r \in invalidated' => r \in invalidated \/ r \in permit'
       /\ decision'[r] # decision[r] => decision[r] = "none" /\ r \in permit'
       /\ r \in store[k].pending =>
             \/ r \in store'[k].pending
             \/ r \in invalidated' \/ decision'[r] # "none"
       /\ r \in store[k].inflight =>
             r \in store'[k].inflight \/ r \in invalidated'

(* No request is opened again, and none loses its kind and its job.        *)
StaysClosed(r) == Open(r)' => Open(r)

DrawnIsKept == \A r \in Drawn : r \in Drawn' /\ request'[r] = request[r]

LEMMA SubmitMoves ==
    ASSUME WaitersInv, NEW q \in RequestId, NEW kind \in Kind,
           NEW j \in JobId, NEW s \in SessionId, Submit(q, kind, j, s)
    PROVE  /\ DrawnIsKept
           /\ \A r \in Drawn : RequestIsKept(r) /\ StaysClosed(r)
           /\ Drawn' = Drawn \union {q}
           /\ request'[q] = [kind |-> kind, job |-> j, session |-> s]
           /\ q \in store'[kind].pending /\ q \in store'[kind].inflight
           /\ decision'[q] = "none"
<1> USE DEF WaitersInv, WaitersTypeOK
<1> DEFINE asked == [kind |-> kind, job |-> j, session |-> s]
<1>1. asked \in Asked /\ asked # NoRequest
  BY NoRequestAssumption DEF Asked
<1>2. request' = [request EXCEPT ![q] = asked]
  BY DEF Submit
<1>3. Drawn' = Drawn \union {q} /\ DrawnIsKept /\ request'[q] = asked
  BY <1>1, <1>2 DEF Drawn, DrawnIsKept, Submit
<1>4. /\ store' = [store EXCEPT ![kind] =
                     [m \in Map |-> store[kind][m] \union {q}]]
      /\ UNCHANGED <<decision, invalidated, permit>>
      /\ q \notin Drawn
  BY DEF Submit
<1>5. ASSUME NEW k \in Kind, NEW m \in Map
      PROVE  store'[k][m] = IF k = kind THEN store[k][m] \union {q}
                            ELSE store[k][m]
  BY <1>4
<1>6. "pending" \in Map /\ "inflight" \in Map
  BY DEF Map
<1>7. \A r \in Drawn : request[r].kind \in Kind
  BY DEF Drawn, Asked
<1>8. \A r \in Drawn : RequestIsKept(r)
  BY <1>4, <1>5, <1>6, <1>7 DEF RequestIsKept
<1>9. \A r \in Drawn : StaysClosed(r)
  BY <1>3, <1>4, <1>5, <1>6, <1>7 DEF StaysClosed, Open, DrawnIsKept
<1>10. decision'[q] = "none"
  BY <1>4 DEF Undecided
<1> QED
  BY <1>3, <1>5, <1>6, <1>8, <1>9, <1>10

LEMMA DecideMoves ==
    ASSUME WaitersInv, NEW q, NEW d \in Decision, Decide(q, d)
    PROVE  /\ DrawnIsKept
           /\ \A r \in Drawn : RequestIsKept(r) /\ StaysClosed(r)
<1>1. q \in Drawn /\ request[q].kind = "approval" /\ decision[q] = "none"
  BY DecideKeeps
<1>2. /\ store' = [store EXCEPT !.approval.pending =
                     store.approval.pending \ {q}]
      /\ decision' = [decision EXCEPT ![q] = d]
      /\ permit' = permit \union {q}
      /\ UNCHANGED <<request, invalidated>>
  BY DEF Decide
<1>3. d # "none"
  BY DEF Decision
<1> USE DEF WaitersInv, WaitersTypeOK, Kind, Map, Drawn
<1>4. /\ store'.approval.inflight = store.approval.inflight
      /\ store'.approval.pending = store.approval.pending \ {q}
      /\ store'.question = store.question
  BY <1>2
<1>5. \A r \in Drawn : request[r].kind \in {"approval", "question"}
  BY DEF Asked
<1>6. DrawnIsKept
  BY <1>2 DEF DrawnIsKept
<1>7. \A r \in Drawn : RequestIsKept(r)
  BY <1>1, <1>2, <1>3, <1>4, <1>5 DEF RequestIsKept
<1>8. \A r \in Drawn : StaysClosed(r)
  BY <1>1, <1>2, <1>3, <1>4, <1>5 DEF StaysClosed, Open
<1> QED
  BY <1>6, <1>7, <1>8

LEMMA StoreAnswerMoves ==
    ASSUME WaitersInv, NEW q \in Drawn, decision[q] = "none",
           NEW d \in Decision, StoreAnswer(q, d)
    PROVE  /\ DrawnIsKept
           /\ \A r \in Drawn : RequestIsKept(r) /\ StaysClosed(r)
           /\ decision'[q] # "none"
<1>1. d # "none"
  BY DEF Decision
<1> QED
  BY <1>1 DEF WaitersInv, WaitersTypeOK, Drawn, DrawnIsKept, RequestIsKept,
     StaysClosed, Open, StoreAnswer

LEMMA RemoveAnsweredMoves ==
    ASSUME WaitersInv, NEW q \in Drawn, decision[q] # "none",
           RemoveAnswered(q)
    PROVE  /\ DrawnIsKept
           /\ \A r \in Drawn : RequestIsKept(r) /\ StaysClosed(r)
<1> USE DEF WaitersInv, WaitersTypeOK, Kind, Map, Drawn
<1>1. /\ store' = [store EXCEPT !.question.pending =
                     store.question.pending \ {q}]
      /\ UNCHANGED <<request, decision, invalidated, permit>>
  BY DEF RemoveAnswered
<1>2. /\ store'.question.inflight = store.question.inflight
      /\ store'.question.pending = store.question.pending \ {q}
      /\ store'.approval = store.approval
  BY <1>1
<1>3. \A r \in Drawn : request[r].kind \in {"approval", "question"}
  BY DEF Asked
<1>4. DrawnIsKept
  BY <1>1 DEF DrawnIsKept
<1>5. \A r \in Drawn : RequestIsKept(r)
  BY <1>1, <1>2, <1>3 DEF RequestIsKept
<1>6. \A r \in Drawn : StaysClosed(r)
  BY <1>1, <1>2, <1>3 DEF StaysClosed, Open
<1> QED
  BY <1>4, <1>5, <1>6

LEMMA TakeDecisionMoves ==
    ASSUME WaitersInv, NEW q \in Drawn, TakeDecision(q)
    PROVE  /\ DrawnIsKept
           /\ \A r \in Drawn : StaysClosed(r)
           /\ \A r \in Drawn \ {q} : RequestIsKept(r)
<1> DEFINE k == request[q].kind
<1>1. /\ store \in [Kind -> [Map -> SUBSET RequestId]]
      /\ \A r \in Drawn : request[r].kind \in Kind
  BY DEF WaitersInv, WaitersTypeOK, Drawn, Asked
<1>2. /\ store' = [store EXCEPT ![k].inflight = store[k].inflight \ {q}]
      /\ UNCHANGED <<request, decision, invalidated, permit>>
  BY DEF TakeDecision
<1>3. k \in Kind
  BY <1>1
<1> HIDE DEF k
<1>4. ASSUME NEW i \in Kind
      PROVE  /\ store'[i].pending = store[i].pending
             /\ \A r \in store[i].inflight : r # q => r \in store'[i].inflight
  BY <1>1, <1>2, <1>3 DEF Map
<1> QED
  BY <1>1, <1>2, <1>4 DEF Drawn, DrawnIsKept, RequestIsKept, StaysClosed, Open

LEMMA InvalidatePassMoves ==
    ASSUME WaitersInv, NEW kind \in Kind, NEW map \in Map, NEW scope,
           InvalidatePass(kind, map, scope)
    PROVE  /\ DrawnIsKept
           /\ \A r \in Drawn : RequestIsKept(r) /\ StaysClosed(r)
           /\ \A r \in store[kind][map] : r \in scope => r \in invalidated'
<1> DEFINE dropped == store[kind][map] \intersect scope
<1>1. /\ store' = [store EXCEPT ![kind][map] = store[kind][map] \ dropped]
      /\ invalidated' = invalidated \union dropped
      /\ permit' = permit \union dropped
      /\ UNCHANGED <<request, decision>>
  BY DEF InvalidatePass
<1>2. /\ store \in [Kind -> [Map -> SUBSET RequestId]]
      /\ \A r \in Drawn : request[r].kind \in Kind
  BY DEF WaitersInv, WaitersTypeOK, Drawn, Asked
<1>3. \A r : r \in dropped <=> r \in store[kind][map] /\ r \in scope
  OBVIOUS
<1> HIDE DEF dropped
<1>4. ASSUME NEW k \in Kind, NEW m \in Map
      PROVE  store'[k][m] = IF k = kind /\ m = map THEN store[k][m] \ dropped
                            ELSE store[k][m]
  BY <1>1, <1>2
<1>5. "pending" \in Map /\ "inflight" \in Map
  BY DEF Map
<1>6. \A r \in Drawn : RequestIsKept(r)
  BY <1>1, <1>2, <1>4, <1>5 DEF RequestIsKept
<1>7. \A r \in Drawn : StaysClosed(r)
  BY <1>1, <1>2, <1>4, <1>5 DEF StaysClosed, Open
<1>8. DrawnIsKept
  BY <1>1 DEF DrawnIsKept, Drawn
<1> QED
  BY <1>1, <1>3, <1>6, <1>7, <1>8

LEMMA ForgetMoves ==
    ASSUME WaitersInv, NEW q \in Drawn, Forget(q)
    PROVE  /\ DrawnIsKept
           /\ \A r \in Drawn : StaysClosed(r)
           /\ \A r \in Drawn \ {q} : RequestIsKept(r)
           /\ q \in invalidated => q \in invalidated' \/ ~Open(q)'
  BY DEF Forget, Drawn, DrawnIsKept, RequestIsKept, StaysClosed, Open

LEMMA NothingMoves ==
    ASSUME UNCHANGED waiterVars
    PROVE  /\ DrawnIsKept
           /\ \A r \in Drawn : RequestIsKept(r) /\ StaysClosed(r)
  BY DEF waiterVars, Drawn, DrawnIsKept, RequestIsKept, StaysClosed, Open

-----------------------------------------------------------------------------
(* Jobs stay begun and stops are not taken back.                           *)
StopsAreKept ==
    /\ Begun \subseteq Begun'
    /\ \A j \in JobId : cancel[j] => cancel'[j]

LEMMA StoreKeepsStops ==
    ASSUME TypeOK, [Next]_storeVars PROVE StopsAreKept
<1> USE DEF TypeOK, StopsAreKept, Begun, JobStatus, Awaiting, Terminal
<1>1. ASSUME NEW s \in SessionId, SessionStep(s) PROVE StopsAreKept
  BY <1>1 DEF SessionStep, Insert, Expire, Remove
<1>2. ASSUME NEW s \in SessionId, NEW c \in ConversationId, NEW t \in JobId,
             ReserveCommand(s, c, t) \/ BeginConversationJob(s, c, t)
      PROVE  StopsAreKept
  BY <1>2 DEF ReserveCommand, BeginConversationJob, Fresh
<1>3. ASSUME NEW r \in reservations, DropReservation(r) PROVE StopsAreKept
  BY <1>3 DEF DropReservation
<1>4. ASSUME NEW j \in JobId, JobStep(j) PROVE StopsAreKept
  BY <1>4 DEF JobStep, FinishConversationJob, SetAwaiting, Resume, Finish,
     RequestCancel, statusOnly
<1>5. CASE UNCHANGED storeVars
  BY <1>5 DEF storeVars
<1> QED
  BY <1>1, <1>2, <1>3, <1>4, <1>5 DEF Next

(* A task that does not move is served as before, whatever becomes of its  *)
(* request meanwhile.                                                      *)
LEMMA ServedMeanwhile ==
    ASSUME task \in [JobId -> TaskState], NEW j \in JobId,
           TaskIsServed(j), DrawnIsKept, StopsAreKept,
           task'[j] = task[j],
           task[j].at \in Using => RequestIsKept(task[j].request)
    PROVE  TaskIsServed(j)'
<1> DEFINE r == task[j].request
<1>1. CASE task[j].at \notin Using
  <2>1. task[j].at \notin Asking /\ task[j].outcome = "none"
    BY <1>1 DEF Using, TaskIsServed, HoldsItsRequest
  <2> QED
    BY <1>1, <2>1 DEF TaskIsServed, HoldsItsRequest, StaysOnRecord, IsNoticed,
       OutcomeIsDue, StopsAreKept, At, Decision, Asking
<1>2. CASE task[j].at \in Using
  <2>1. /\ r \in Drawn /\ request[r].kind = task[j].kind /\ request[r].job = j
        /\ r \in Drawn' /\ request'[r] = request[r]
    BY <1>2 DEF TaskIsServed, HoldsItsRequest, DrawnIsKept
  <2>2. RequestIsKept(r)
    BY <1>2
  <2>3. HoldsItsRequest(j)'
    BY <1>2, <2>1 DEF TaskIsServed, HoldsItsRequest, StopsAreKept, At
  <2>4. StaysOnRecord(j)'
    BY <2>1, <2>2 DEF TaskIsServed, StaysOnRecord, RequestIsKept
  <2>5. IsNoticed(j)'
    BY <2>1, <2>2 DEF TaskIsServed, IsNoticed, RequestIsKept, At
  <2>6. OutcomeIsDue(j)'
    BY <2>1, <2>2 DEF TaskIsServed, OutcomeIsDue, RequestIsKept, At,
       StopsAreKept, Decision
  <2> QED
    BY <2>3, <2>4, <2>5, <2>6 DEF TaskIsServed
<1> QED
  BY <1>1, <1>2

(* Together: one task, j, moves or none, and only its own request may      *)
(* change in any way.                                                      *)
Served == /\ \A j \in JobId : TaskIsServed(j)
          /\ PendingIsAwaited

LEMMA OneTaskMoves ==
    ASSUME Served, WaitersTypeOK, task \in [JobId -> TaskState], DrawnIsKept,
           StopsAreKept,
           NEW j \in JobId, \A i \in JobId \ {j} : task'[i] = task[i],
           \A r \in Drawn : request[r].job # j => RequestIsKept(r),
           \A r \in Drawn : request[r].job # j => StaysClosed(r),
           \A r \in Drawn' \ Drawn : request'[r].job = j,
           TaskIsServed(j)',
           \A r \in Drawn' : request'[r].job = j /\ Open(r)' => Awaited(r)'
    PROVE  Served'
<1>1. ASSUME NEW i \in JobId \ {j} PROVE TaskIsServed(i)'
  <2>1. TaskIsServed(i)
    BY DEF Served
  <2>2. task[i].at \in Using => RequestIsKept(task[i].request)
    BY <2>1 DEF TaskIsServed, HoldsItsRequest
  <2> QED
    BY <2>1, <2>2, ServedMeanwhile
<1>2. ASSUME NEW r \in Drawn', Open(r)', request'[r].job # j
      PROVE  Awaited(r)'
  <2>1. r \in Drawn /\ request'[r] = request[r] /\ Open(r)
    BY <1>2 DEF DrawnIsKept, StaysClosed
  <2>2. Awaited(r)
    BY <2>1 DEF Served, PendingIsAwaited
  <2>3. task[request[r].job].at # "none" /\ request[r].job # j
    BY <1>2, <2>1, <2>2 DEF Awaited, Asking
  <2>4. request[r].job \in JobId =>
           task'[request[r].job] = task[request[r].job]
    BY <2>3
  <2>5. request[r].job \in JobId
    BY <2>1 DEF WaitersTypeOK, Drawn, Asked
  <2> QED
    BY <2>1, <2>2, <2>4, <2>5 DEF Awaited
<1> QED
  BY <1>1, <1>2 DEF Served, PendingIsAwaited

-----------------------------------------------------------------------------
(* What the proofs about one step start from.                              *)
LEMMA TaskFacts ==
    ASSUME AnsweringInv, NEW j \in JobId, TaskStep(j)
    PROVE  /\ Served /\ WaitersInv /\ WaitersTypeOK /\ StopsAreKept
           /\ task \in [JobId -> TaskState] /\ task[j].kind \in Kind
           /\ \A i \in JobId \ {j} : task'[i] = task[i]
<1>1. StopsAreKept
  BY TaskUsesTheStore, StoreKeepsStops DEF AnsweringInv, ApprovalsInv
<1>2. task \in [JobId -> TaskState]
  BY DEF AnsweringInv, ApprovalsInv, TasksInv
<1>3. \A i \in JobId \ {j} : task'[i] = task[i]
  BY <1>2 DEF TaskStep, ToolStep, Begin, Invoke, Ask, AskRefused,
     EvidenceFails, Await, StartWait, CheckStop, TakeAnswer, Park, WakeStopped,
     WakeNotified, RevokePending, RevokeInflight, Return, EndTask, ReleaseTask,
     Goto, GotoWith
<1> QED
  BY <1>1, <1>2, <1>3 DEF AnsweringInv, ApprovalsInv, WaitersInv, Served,
     TaskState

(* A task outside of a call, or before its question, has nothing open.     *)
LEMMA NotInACall ==
    ASSUME AnsweringInv, NEW j \in JobId, TaskStep(j),
           UNCHANGED waiterVars, task[j].at \notin Using,
           task'[j].at \notin Using, task'[j].outcome = "none",
           task'[j].at # "none" => j \in Begun'
    PROVE  Served'
<1>1. TaskIsServed(j)'
  BY DEF TaskIsServed, HoldsItsRequest, StaysOnRecord, IsNoticed, OutcomeIsDue,
     Using, Asking, At, Decision
<1>2. ASSUME NEW r \in Drawn', request'[r].job = j, Open(r)'
      PROVE  Awaited(r)'
  <2>1. r \in Drawn /\ Open(r) /\ request[r].job = j
    BY <1>2 DEF Open, Drawn, waiterVars
  <2>2. Awaited(r)
    BY <2>1, TaskFacts DEF Served, PendingIsAwaited
  <2> QED
    BY <2>1, <2>2 DEF Awaited, Using
<1>3. Drawn' = Drawn
  BY DEF waiterVars, Drawn
<1> QED
  BY <1>1, <1>2, <1>3, TaskFacts, NothingMoves, OneTaskMoves

(* The steps of a call that leave the stores as they are.  The task keeps  *)
(* its request; what it has to know to move on is left to each step.       *)
LEMMA WithinACall ==
    ASSUME AnsweringInv, NEW j \in JobId, TaskStep(j), UNCHANGED waiterVars,
           NEW place \in Using, NEW outcome,
           task[j].at \in Asking,
           task'[j].at = place, task'[j].outcome = outcome,
           task'[j].kind = task[j].kind, task'[j].request = task[j].request,
           place \in Asking => outcome = "none",
           StaysOnRecord(j)', IsNoticed(j)', OutcomeIsDue(j)',
           Open(task[j].request) => place \in Asking \union {"revokePending"}
    PROVE  Served'
<1> USE TaskFacts
<1>1. HoldsItsRequest(j)
  BY DEF Served, TaskIsServed
<1>2. HoldsItsRequest(j)'
  BY <1>1 DEF HoldsItsRequest, At, Using, Asking, StopsAreKept,
     waiterVars, Drawn
<1>3. ASSUME NEW r \in Drawn', request'[r].job = j, Open(r)'
      PROVE  Awaited(r)'
  <2>1. r \in Drawn /\ Open(r) /\ request[r].job = j
    BY <1>3 DEF Open, Drawn, waiterVars
  <2>2. task[j].request = r
    BY <2>1 DEF Served, PendingIsAwaited, Awaited
  <2> QED
    BY <1>3, <2>1, <2>2 DEF Awaited
<1>4. Drawn' = Drawn
  BY DEF waiterVars, Drawn
<1> QED
  BY <1>2, <1>3, <1>4, NothingMoves, OneTaskMoves DEF TaskIsServed

LEMMA CallMovesServe ==
    ASSUME AnsweringInv, NEW j \in JobId,
           \/ EvidenceFails(j) \/ Await(j) \/ StartWait(j) \/ CheckStop(j)
           \/ Park(j) \/ WakeStopped(j)
    PROVE  Served'
<1>1. TaskStep(j)
  BY DEF TaskStep, ToolStep
<1> USE TaskFacts, <1>1
<1>2. TaskIsServed(j)
  BY DEF Served
<1>3. UNCHANGED waiterVars
  BY DEF EvidenceFails, Await, StartWait, CheckStop, Park, WakeStopped
<1>4. UNCHANGED <<request, store, decision, invalidated, permit>>
  BY <1>3 DEF waiterVars
<1>5. ASSUME NEW place, NEW outcome,
             \/ Goto(j, place) /\ outcome = task[j].outcome
             \/ GotoWith(j, place, outcome)
      PROVE  /\ task'[j].at = place /\ task'[j].outcome = outcome
             /\ task'[j].kind = task[j].kind
             /\ task'[j].request = task[j].request
  BY <1>5 DEF Goto, GotoWith, TaskState
<1> DEFINE q == task[j].request
<1>6. /\ StaysOnRecord(j) /\ IsNoticed(j) /\ OutcomeIsDue(j)
      /\ cancel[j] => cancel'[j]
  BY <1>2 DEF TaskIsServed, StopsAreKept
<1> USE DEF At, StaysOnRecord, IsNoticed, OutcomeIsDue, Decision
<1>7. ASSUME NEW place \in {"awaiting", "checking", "reading", "parked"},
             Goto(j, place), task[j].at \in Asking, task[j].outcome = "none",
             place = "reading" \/ place = "parked" =>
                 (q \in invalidated => q \in permit),
             place = "parked" => (decision[q] # "none" => q \in permit)
      PROVE  Served'
  <2>1. StaysOnRecord(j)'
    BY <1>4, <1>5, <1>6, <1>7
  <2>2. IsNoticed(j)'
    BY <1>4, <1>5, <1>7
  <2>3. OutcomeIsDue(j)'
    BY <1>4, <1>5, <1>7
  <2>4. place \in Asking /\ place \in Using
    BY DEF Asking, Using
  <2> QED
    BY <1>3, <1>5, <1>7, <2>1, <2>2, <2>3, <2>4, WithinACall
<1>8. ASSUME NEW place \in {"revokePending", "resuming"},
             NEW outcome \in {"Failed", "Cancelled", "Missing"},
             GotoWith(j, place, outcome), task[j].at \in Asking,
             outcome = "Missing" => q \in invalidated,
             outcome = "Cancelled" => cancel[j] \/ q \in invalidated,
             place = "resuming" => outcome = "Missing"
      PROVE  Served'
  <2>1. StaysOnRecord(j)' /\ IsNoticed(j)'
    BY <1>5, <1>8 DEF Asking
  <2>2. OutcomeIsDue(j)'
    BY <1>4, <1>5, <1>6, <1>8
  <2>3. /\ place \in Using \ Asking
        /\ Open(q) => place \in Asking \union {"revokePending"}
    BY <1>8 DEF Using, Asking, Open
  <2> QED
    BY <1>3, <1>5, <1>8, <2>1, <2>2, <2>3, WithinACall
<1>9. task[j].at \in Asking
  BY DEF Asking, EvidenceFails, Await, StartWait, CheckStop, Park, WakeStopped
<1>10. task[j].outcome = "none"
  BY <1>2, <1>9 DEF TaskIsServed, HoldsItsRequest
<1>11. CASE EvidenceFails(j)
  BY <1>8, <1>9, <1>11 DEF EvidenceFails
<1>12. CASE Await(j)
  BY <1>7, <1>9, <1>10, <1>12 DEF Await
<1>13. CASE StartWait(j)
  <2>1. CASE q \in store[task[j].kind].inflight
    BY <1>7, <1>9, <1>10, <1>13, <2>1 DEF StartWait
  <2>2. CASE q \notin store[task[j].kind].inflight
    BY <1>6, <1>8, <1>9, <1>13, <2>2 DEF StartWait
  <2> QED
    BY <2>1, <2>2
<1>14. CASE CheckStop(j)
  <2>1. CASE cancel[j] \/ q \in invalidated
    BY <1>8, <1>9, <1>14, <2>1 DEF CheckStop
  <2>2. CASE ~(cancel[j] \/ q \in invalidated)
    BY <1>7, <1>9, <1>10, <1>14, <2>2 DEF CheckStop
  <2> QED
    BY <2>1, <2>2
<1>15. CASE Park(j)
  BY <1>6, <1>7, <1>9, <1>10, <1>15 DEF Park
<1>16. CASE WakeStopped(j)
  BY <1>8, <1>9, <1>16 DEF WakeStopped
<1> QED
  BY <1>11, <1>12, <1>13, <1>14, <1>15, <1>16

(* Between two calls.                                                      *)
LEMMA BetweenCallsServe ==
    ASSUME AnsweringInv, NEW j \in JobId,
           \/ \E s \in SessionId, c \in ConversationId : Begin(s, c, j)
           \/ \E kind \in Kind : Invoke(j, kind)
           \/ AskRefused(j) \/ EndTask(j) \/ ReleaseTask(j)
    PROVE  Served'
<1>1. TaskStep(j)
  BY DEF TaskStep, ToolStep
<1> USE TaskFacts, <1>1
<1>2. HoldsItsRequest(j)
  BY DEF Served, TaskIsServed
<1>3. UNCHANGED waiterVars
  BY DEF Begin, Invoke, AskRefused, EndTask, ReleaseTask
<1>4. ASSUME NEW s \in SessionId, NEW c \in ConversationId, Begin(s, c, j)
      PROVE  Served'
  <2>1. j \in Begun'
    BY <1>4 DEF Begin, BeginConversationJob, Begun, JobStatus, AnsweringInv,
       ApprovalsInv, TypeOK
  <2>2. task[j].at = "none"
    BY <1>2, <1>4 DEF Begin, BeginConversationJob, HoldsItsRequest, At, Fresh,
       Begun, JobStatus, Awaiting, Terminal
  <2>3. task'[j] = [task[j] EXCEPT !.at = "idle"]
    BY <1>4 DEF Begin, Goto
  <2>4. task'[j].at = "idle" /\ task'[j].outcome = task[j].outcome
    BY <2>3 DEF TaskState
  <2> QED
    BY <1>2, <1>3, <2>1, <2>2, <2>4, NotInACall DEF HoldsItsRequest, Using,
       Asking
<1>5. CASE AskRefused(j) \/ \E kind \in Kind : Invoke(j, kind)
  <2>1. /\ task[j].at \in {"idle", "invoked"}
        /\ task'[j].at \in {"idle", "invoked"}
        /\ task'[j].outcome = "none"
    BY <1>5 DEF AskRefused, Invoke, At, Rest
  <2> QED
    BY <1>2, <1>3, <2>1, NotInACall DEF HoldsItsRequest, Using, Asking, At,
       StopsAreKept
<1>6. CASE EndTask(j) \/ ReleaseTask(j)
  <2>1. /\ task[j].at \in {"idle", "ended"}
        /\ task'[j].at \in {"ended", "done"}
        /\ task'[j].outcome = task[j].outcome
    BY <1>6 DEF EndTask, ReleaseTask, At, Goto, TaskState
  <2> QED
    BY <1>2, <1>3, <2>1, NotInACall DEF HoldsItsRequest, Using, Asking, At,
       StopsAreKept
<1> QED
  BY <1>4, <1>5, <1>6

(* A submission: the request is new, so nothing has befallen it yet that   *)
(* the maps do not show.                                                   *)
LEMMA AskServes ==
    ASSUME AnsweringInv, NEW j \in JobId, NEW q \in RequestId, Ask(j, q)
    PROVE  Served'
<1>1. TaskStep(j)
  BY DEF TaskStep, ToolStep
<1> USE TaskFacts, <1>1
<1> DEFINE kind == task[j].kind
           s == owner[j].session
<1>2. HoldsItsRequest(j) /\ task[j].at = "invoked" /\ task[j].outcome = "none"
  BY DEF Served, TaskIsServed, HoldsItsRequest, Ask, At, Using, Asking
<1>3. s \in SessionId
  BY DEF Ask, At, WorkIsOwned, Owner, AnsweringInv, ApprovalsInv, TasksInv
<1>4. Submit(q, kind, j, s)
  BY DEF Ask
<1>5. /\ DrawnIsKept
      /\ \A r \in Drawn : RequestIsKept(r) /\ StaysClosed(r)
      /\ Drawn' = Drawn \union {q}
      /\ request'[q] = [kind |-> kind, job |-> j, session |-> s]
      /\ q \in store'[kind].pending /\ q \in store'[kind].inflight
      /\ decision'[q] = "none"
  BY <1>3, <1>4, SubmitMoves
<1>6. /\ task'[j].at = "submitted" /\ task'[j].request = q
      /\ task'[j].kind = kind /\ task'[j].outcome = "none"
  BY <1>2 DEF Ask, TaskState
<1>7. TaskIsServed(j)'
  BY <1>2, <1>5, <1>6 DEF TaskIsServed, HoldsItsRequest, StaysOnRecord,
     IsNoticed, OutcomeIsDue, At, Decision, StopsAreKept, Using, Asking
<1>8. ASSUME NEW r \in Drawn', request'[r].job = j, Open(r)'
      PROVE  Awaited(r)'
  <2>1. CASE r = q
    BY <1>5, <1>6, <2>1 DEF Awaited, Asking
  <2>2. CASE r # q
    <3>1. r \in Drawn /\ Open(r) /\ request[r].job = j
      BY <1>5, <1>8, <2>2 DEF DrawnIsKept, StaysClosed
    <3>2. Awaited(r)
      BY <3>1 DEF Served, PendingIsAwaited
    <3> QED
      BY <1>2, <3>1, <3>2 DEF Awaited, Asking
  <2> QED
    BY <2>1, <2>2
<1> QED
  BY <1>5, <1>7, <1>8, OneTaskMoves

(* A wait that ends with the decision, or wakes to look again.             *)
LEMMA TakingServes ==
    ASSUME AnsweringInv, NEW j \in JobId, TakeAnswer(j) \/ WakeNotified(j)
    PROVE  Served'
<1>1. TaskStep(j)
  BY DEF TaskStep, ToolStep
<1> USE TaskFacts, <1>1
<1> DEFINE q == task[j].request
<1>2. /\ TaskIsServed(j) /\ task[j].at \in {"reading", "parked"}
      /\ q \in Drawn /\ request[q].kind = task[j].kind /\ request[q].job = j
  BY DEF Served, TaskIsServed, HoldsItsRequest, TakeAnswer, WakeNotified, At,
     Using, Asking
<1>3. /\ DrawnIsKept
      /\ \A r \in Drawn : StaysClosed(r)
      /\ \A r \in Drawn \ {q} : RequestIsKept(r)
      /\ UNCHANGED <<request, decision, invalidated>>
  <2>1. CASE TakeAnswer(j)
    BY <1>2, <2>1, TakeDecisionMoves DEF TakeAnswer, TakeDecision
  <2>2. CASE WakeNotified(j)
    BY <2>2 DEF WakeNotified, Drawn, DrawnIsKept, StaysClosed, Open,
       RequestIsKept
  <2> QED
    BY <2>1, <2>2
<1>4. /\ task'[j].request = q /\ task'[j].kind = task[j].kind
      /\ TakeAnswer(j) => /\ task'[j].at = "resuming" /\ decision[q] # "none"
                          /\ task'[j].outcome = decision[q]
      /\ WakeNotified(j) => /\ task'[j].at = "checking" /\ UNCHANGED store
                            /\ task'[j].outcome = task[j].outcome
  BY DEF TakeAnswer, WakeNotified, Goto, GotoWith, TaskState
<1>5. HoldsItsRequest(j)'
  BY <1>2, <1>3, <1>4 DEF TaskIsServed, HoldsItsRequest, At, Using, Asking,
     DrawnIsKept, StopsAreKept
<1>6. decision[q] \in Decision \union {"none"}
  BY <1>2 DEF WaitersTypeOK, Drawn
<1>7. TaskIsServed(j)'
  BY <1>2, <1>3, <1>4, <1>5, <1>6 DEF TaskIsServed, StaysOnRecord, IsNoticed,
     OutcomeIsDue, At, Asking, Decision
<1>8. ASSUME NEW r \in Drawn', request'[r].job = j, Open(r)'
      PROVE  Awaited(r)'
  <2>1. r \in Drawn /\ Open(r) /\ request[r].job = j /\ decision[r] = "none"
    BY <1>3, <1>8 DEF Drawn, StaysClosed, Open
  <2>2. r = q
    BY <2>1 DEF Served, PendingIsAwaited, Awaited
  <2> QED
    BY <1>3, <1>4, <2>1, <2>2 DEF Awaited, Asking
<1>9. Drawn' = Drawn
  BY <1>3 DEF Drawn
<1> QED
  BY <1>2, <1>3, <1>7, <1>8, <1>9, OneTaskMoves

(* The task takes its own request off the record and returns.              *)
LEMMA RevokingServes ==
    ASSUME AnsweringInv, NEW j \in JobId, RevokePending(j) \/ RevokeInflight(j)
    PROVE  Served'
<1>1. TaskStep(j)
  BY DEF TaskStep, ToolStep
<1> USE TaskFacts, <1>1
<1> DEFINE q == task[j].request
           kind == task[j].kind
<1>2. /\ TaskIsServed(j) /\ task[j].at \in {"revokePending", "revokeInflight"}
      /\ q \in Drawn /\ request[q].kind = kind /\ request[q].job = j
  BY DEF Served, TaskIsServed, HoldsItsRequest, RevokePending, RevokeInflight,
     At, Using
<1>3. PICK map \in Map :
          /\ InvalidatePass(kind, map, OfJob(j))
          /\ RevokePending(j) => map = "pending"
  BY DEF RevokePending, RevokeInflight, Map
<1>4. /\ DrawnIsKept
      /\ \A r \in Drawn : RequestIsKept(r) /\ StaysClosed(r)
      /\ \A r \in store[kind][map] : r \in OfJob(j) => r \in invalidated'
      /\ UNCHANGED <<request, decision>>
  BY <1>3, InvalidatePassMoves DEF InvalidatePass
<1>5. /\ task'[j].request = q /\ task'[j].kind = kind
      /\ task'[j].outcome = task[j].outcome
      /\ task'[j].at \in {"revokeInflight", "resuming"}
      /\ RevokeInflight(j) => task[j].at = "revokeInflight"
  BY DEF RevokePending, RevokeInflight, Goto, At, TaskState
<1>6. TaskIsServed(j)'
  BY <1>2, <1>4, <1>5 DEF TaskIsServed, HoldsItsRequest, StaysOnRecord,
     IsNoticed, OutcomeIsDue, At, Using, Asking, DrawnIsKept, StopsAreKept,
     RequestIsKept, Decision
<1>7. ASSUME NEW r \in Drawn', request'[r].job = j, Open(r)' PROVE FALSE
  <2>1. r \in Drawn /\ Open(r) /\ request[r].job = j /\ r \notin invalidated'
    BY <1>4, <1>7 DEF Drawn, StaysClosed, Open
  <2>2. Awaited(r)
    BY <2>1 DEF Served, PendingIsAwaited
  <2>3. r = q /\ task[j].at = "revokePending"
    BY <1>2, <2>1, <2>2 DEF Awaited, Asking
  <2>4. r \in store[kind].pending /\ r \in OfJob(j) /\ map = "pending"
    BY <1>2, <1>3, <1>5, <2>1, <2>3 DEF Open, OfJob
  <2> QED
    BY <1>4, <2>1, <2>4
<1>8. Drawn' = Drawn
  BY <1>4 DEF Drawn
<1> QED
  BY <1>4, <1>6, <1>7, <1>8, OneTaskMoves

LEMMA ReturnServes ==
    ASSUME AnsweringInv, NEW j \in JobId, Return(j)
    PROVE  Served'
<1>1. TaskStep(j)
  BY DEF TaskStep, ToolStep
<1> USE TaskFacts, <1>1
<1> DEFINE q == task[j].request
<1>2. /\ TaskIsServed(j) /\ task[j].at = "resuming"
      /\ q \in Drawn /\ request[q].kind = task[j].kind /\ request[q].job = j
  BY DEF Served, TaskIsServed, HoldsItsRequest, Return, At, Using
<1>3. /\ DrawnIsKept
      /\ \A r \in Drawn : StaysClosed(r)
      /\ \A r \in Drawn \ {q} : RequestIsKept(r)
      /\ UNCHANGED request
  BY <1>2, ForgetMoves DEF Return, Forget
<1>4. task'[j].at = "idle" /\ task'[j].outcome = "none"
  BY DEF Return, Rest
<1>5. TaskIsServed(j)'
  BY <1>2, <1>4 DEF TaskIsServed, HoldsItsRequest, StaysOnRecord, IsNoticed,
     OutcomeIsDue, At, Using, Asking, StopsAreKept, Decision
<1>6. ASSUME NEW r \in Drawn', request'[r].job = j, Open(r)' PROVE FALSE
  <2>1. r \in Drawn /\ Open(r) /\ request[r].job = j
    BY <1>3, <1>6 DEF Drawn, StaysClosed
  <2>2. Awaited(r)
    BY <2>1 DEF Served, PendingIsAwaited
  <2> QED
    BY <1>2, <2>1, <2>2 DEF Awaited, Asking
<1>7. Drawn' = Drawn
  BY <1>3 DEF Drawn
<1> QED
  BY <1>2, <1>3, <1>5, <1>6, <1>7, OneTaskMoves

LEMMA TaskServes ==
    ASSUME AnsweringInv, NEW j \in JobId, TaskStep(j)
    PROVE  Served'
  BY CallMovesServe, BetweenCallsServe, AskServes, TakingServes,
     RevokingServes, ReturnServes DEF TaskStep, ToolStep

-----------------------------------------------------------------------------
(* What no task does to a request.                                         *)
LEMMA HandlerMoves ==
    ASSUME AnsweringInv, NEW h \in Handler, HandlerStep(h) \/ Opens(h)
    PROVE  /\ DrawnIsKept
           /\ \A r \in Drawn : RequestIsKept(r) /\ StaysClosed(r)
           /\ UNCHANGED <<request, task>>
<1>0. /\ WaitersInv /\ AnswerIsDue /\ handler[h] \in HandlerState
      /\ NamesItsSubject(handler[h]) /\ AnswersForTheJob(handler[h])
  BY DEF AnsweringInv, ApprovalsInv, HandlersInv, HandlersNameTheirSubject
<1>1. UNCHANGED <<request, task>>
  BY DEF HandlerStep, Opens, DecideApproval, DecisionRefused, ResumeByHandler,
     AnswerResumes, AnswerRefused, AnswerStored, AnswerRemoved, CancelJob,
     SweepPass, RemoveDead, InsertRestored, OpenDecision, OpenAnswer, OpenStop,
     OpenSwitch, OpenSweep, ElseUnchanged, Decide, StoreAnswer, RemoveAnswered,
     InvalidatePass, waiterVars
<1> DEFINE Moves == /\ DrawnIsKept
                    /\ \A r \in Drawn : RequestIsKept(r) /\ StaysClosed(r)
<1>2. UNCHANGED waiterVars => Moves
  BY NothingMoves
<1> HIDE DEF Moves
<1> SUFFICES Moves
  BY <1>1 DEF Moves
<1>3. ASSUME NEW d \in {"Approved", "Rejected"}, DecideApproval(h, d)
      PROVE  Moves
  <2>1. d \in Decision /\ Decide(handler[h].request, d)
    BY <1>3 DEF DecideApproval, Decision
  <2> QED
    BY <1>0, <2>1, DecideMoves DEF Moves
<1>4. CASE AnswerStored(h)
  <2>1. /\ handler[h].request \in Drawn
        /\ decision[handler[h].request] = "none"
        /\ StoreAnswer(handler[h].request, "Answered")
        /\ "Answered" \in Decision
    BY <1>0, <1>4 DEF AnswerStored, AnswerIsDue, Decision
  <2> QED
    BY <1>0, <2>1, StoreAnswerMoves DEF Moves
<1>5. CASE AnswerRemoved(h)
  <2>1. /\ handler[h].request \in Drawn
        /\ decision[handler[h].request] # "none"
        /\ RemoveAnswered(handler[h].request)
    BY <1>0, <1>5 DEF AnswerRemoved, AnswersForTheJob, HandlerAt
  <2> QED
    BY <1>0, <2>1, RemoveAnsweredMoves DEF Moves
<1>6. CASE SweepPass(h)
  <2>1. Head(handler[h].todo) \in Kind \X Map
    BY <1>0, <1>6 DEF SweepPass, NamesItsSubject, HandlerState, HandlerAt
  <2>2. Head(handler[h].todo)[1] \in Kind /\ Head(handler[h].todo)[2] \in Map
    BY <2>1
  <2>3. PICK scope : InvalidatePass(Head(handler[h].todo)[1],
                                   Head(handler[h].todo)[2], scope)
    BY <1>6 DEF SweepPass
  <2> QED
    BY <1>0, <2>2, <2>3, InvalidatePassMoves DEF Moves
<1>7. CASE \/ ResumeByHandler(h) \/ AnswerResumes(h) \/ CancelJob(h)
           \/ RemoveDead(h) \/ InsertRestored(h)
  BY <1>2, <1>7 DEF ResumeByHandler, AnswerResumes, CancelJob, RemoveDead,
     InsertRestored
<1>8. CASE DecisionRefused(h) \/ AnswerRefused(h) \/ Opens(h)
  BY <1>2, <1>8 DEF DecisionRefused, AnswerRefused, Opens, OpenDecision,
     OpenAnswer, OpenStop, OpenSwitch, OpenSweep, ElseUnchanged
<1> QED
  BY <1>3, <1>4, <1>5, <1>6, <1>7, <1>8 DEF HandlerStep

LEMMA NoTaskMoves ==
    ASSUME Served, WaitersTypeOK, task \in [JobId -> TaskState],
           DrawnIsKept, StopsAreKept, UNCHANGED <<request, task>>,
           \A r \in Drawn : RequestIsKept(r) /\ StaysClosed(r)
    PROVE  Served'
<1>1. ASSUME NEW i \in JobId PROVE TaskIsServed(i)'
  <2>1. TaskIsServed(i)
    BY DEF Served
  <2>2. task[i].at \in Using => RequestIsKept(task[i].request)
    BY <2>1 DEF TaskIsServed, HoldsItsRequest
  <2> QED
    BY <2>1, <2>2, ServedMeanwhile
<1>2. ASSUME NEW r \in Drawn', Open(r)' PROVE Awaited(r)'
  <2>1. r \in Drawn /\ Open(r)
    BY <1>2 DEF Drawn, StaysClosed
  <2>2. Awaited(r)
    BY <2>1 DEF Served, PendingIsAwaited
  <2> QED
    BY <2>2 DEF Awaited
<1> QED
  BY <1>1, <1>2 DEF Served, PendingIsAwaited

LEMMA HandlerAnswers ==
    ASSUME AnsweringInv, NEW h \in Handler, HandlerStep(h) \/ Opens(h)
    PROVE  \A o \in Handler : AnswersForTheJob(handler[o])'
<1>0. /\ WaitersInv /\ AnswerIsDue /\ handler \in [Handler -> HandlerState]
      /\ NamesItsSubject(handler[h])
      /\ \A o \in Handler : AnswersForTheJob(handler[o])
  BY DEF AnsweringInv, ApprovalsInv, HandlersInv, HandlersNameTheirSubject
<1>1. /\ DrawnIsKept /\ UNCHANGED request
      /\ \A r \in Drawn : decision[r] # "none" => decision'[r] # "none"
  BY HandlerMoves DEF RequestIsKept
<1>2. \A o \in Handler \ {h} : handler'[o] = handler[o]
  BY <1>0 DEF HandlerStep, Opens, DecideApproval, DecisionRefused,
     ResumeByHandler,
     AnswerResumes, AnswerRefused, AnswerStored, AnswerRemoved, CancelJob,
     SweepPass, RemoveDead, InsertRestored, OpenDecision, OpenAnswer, OpenStop,
     OpenSwitch, OpenSweep, Move, Leave
<1>3. ASSUME NEW o \in Handler \ {h} PROVE AnswersForTheJob(handler[o])'
  <2>1. handler[o] \in HandlerState /\ AnswersForTheJob(handler[o])
    BY <1>0
  <2>2. DrawnIsKept
    BY <1>1
  <2> QED
    BY <1>1, <1>2, <2>1 DEF AnswersForTheJob, DrawnIsKept
<1>4. handler[h] \in HandlerState /\ AnswersForTheJob(handler[h])
  BY <1>0
<1> SUFFICES AnswersForTheJob(handler[h])'
  BY <1>3
<1> USE DEF HandlerAt, AnswersForTheJob
<1>5. CASE handler'[h] = Idle
  BY <1>5 DEF Idle
<1>6. ASSUME NEW d \in {"Approved", "Rejected"}, DecideApproval(h, d)
      PROVE  AnswersForTheJob(handler[h])'
  BY <1>0, <1>4, <1>6 DEF DecideApproval, Move, HandlerState
<1>7. CASE AnswerResumes(h)
  BY <1>0, <1>1, <1>4, <1>7 DEF AnswerResumes, Move, HandlerState, DrawnIsKept
<1>8. CASE AnswerStored(h)
  <2>1. handler[h].request \in Drawn /\ decision[handler[h].request] = "none"
    BY <1>0, <1>8 DEF AnswerStored, AnswerIsDue
  <2>2. decision'[handler[h].request] # "none"
    BY <1>0, <1>8, <2>1, StoreAnswerMoves DEF AnswerStored, Decision
  <2> QED
    BY <1>0, <1>1, <1>4, <1>8, <2>2
       DEF AnswerStored, Move, HandlerState, DrawnIsKept
<1>9. CASE CancelJob(h) /\ handler[h].kind = "stop"
  BY <1>0, <1>4, <1>9 DEF CancelJob, HandlerState
<1>10. CASE RemoveDead(h) /\ handler[h].kind = "restore"
  BY <1>0, <1>4, <1>10 DEF RemoveDead, Move, HandlerState
<1>11. CASE SweepPass(h)
  <2> DEFINE next == IF Len(handler[h].todo) = 1
                     THEN AfterSweep[handler[h].kind] ELSE "sweep"
  <2>1. handler[h].kind \in DOMAIN AfterSweep
    BY <1>0, <1>11 DEF SweepPass, NamesItsSubject
  <2>2. next \in {"decide", "resume", "cancel", "remove", "sweep"}
    BY <2>1 DEF AfterSweep
  <2>3. handler'[h].at = next /\ handler'[h].kind = handler[h].kind
    BY <1>0, <1>4, <1>11 DEF SweepPass, HandlerState
  <2>4. handler[h].kind # "answer"
    BY <2>1 DEF AfterSweep
  <2> QED
    BY <2>2, <2>3, <2>4
<1>12. CASE Opens(h)
  <2>1. ASSUME NEW s \in SessionId, NEW r \in Drawn, OpenAnswer(h, s, r)
        PROVE  AnswersForTheJob(handler[h])'
    BY <1>0, <1>1, <2>1 DEF OpenAnswer, DrawnIsKept
  <2>2. ASSUME NEW s \in SessionId, NEW r \in Drawn, OpenDecision(h, s, r)
        PROVE  /\ handler'[h].kind = "decide"
               /\ handler'[h].at \in {"sweep", "decide"}
    BY <1>0, <2>2 DEF OpenDecision
  <2>3. ASSUME NEW s \in SessionId, NEW j \in JobId,
               OpenStop(h, s, j) \/ OpenSwitch(h, s, j)
        PROVE  /\ handler'[h].kind \in {"stop", "switch"}
               /\ handler'[h].at \in {"sweep", "cancel"}
    <3>1. CASE OpenStop(h, s, j)
      <4>1. PICK seen : handler' = [handler EXCEPT ![h] =
                   [Idle EXCEPT !.at = "cancel", !.kind = "stop",
                                !.session = s, !.job = j, !.seen = seen]]
        BY <3>1 DEF OpenStop
      <4> QED
        BY <1>0, <4>1 DEF Idle
    <3>2. CASE OpenSwitch(h, s, j)
      BY <1>0, <3>2 DEF OpenSwitch, Idle
    <3> QED
      BY <2>3, <3>1, <3>2
  <2>4. ASSUME NEW s \in SessionId, NEW kind \in {"purge", "restore"},
               OpenSweep(h, kind, s)
        PROVE  /\ handler'[h].kind \in {"purge", "restore"}
               /\ handler'[h].at = "sweep"
    BY <1>0, <2>4 DEF OpenSweep, Idle
  <2> QED
    BY <1>12, <2>1, <2>2, <2>3, <2>4 DEF Opens
<1>13. CASE \/ DecisionRefused(h) \/ ResumeByHandler(h) \/ AnswerRefused(h)
            \/ AnswerRemoved(h) \/ InsertRestored(h)
            \/ CancelJob(h) /\ handler[h].kind # "stop"
            \/ RemoveDead(h) /\ handler[h].kind # "restore"
  BY <1>0, <1>5, <1>13 DEF DecisionRefused, ResumeByHandler, AnswerRefused,
     AnswerRemoved, InsertRestored, CancelJob, RemoveDead, Leave
<1> QED
  BY <1>6, <1>7, <1>8, <1>9, <1>10, <1>11, <1>12, <1>13 DEF HandlerStep

-----------------------------------------------------------------------------
LEMMA AnsweringInvInit == ApprovalsInit => AnsweringInv
<1> SUFFICES ASSUME ApprovalsInit PROVE AnsweringInv
  OBVIOUS
<1>1. ApprovalsInv
  BY ApprovalsInvInit
<1>2. Drawn = {}
  BY DEF ApprovalsInit, WaitersInit, Drawn
<1>3. \A j \in JobId : TaskIsServed(j)
  BY DEF ApprovalsInit, Rest, TaskIsServed, HoldsItsRequest, StaysOnRecord,
     IsNoticed, OutcomeIsDue, At, Using, Asking, Decision
<1>4. \A h \in Handler : AnswersForTheJob(handler[h])
  BY DEF ApprovalsInit, Idle, AnswersForTheJob
<1> QED
  BY <1>1, <1>2, <1>3, <1>4 DEF AnsweringInv, PendingIsAwaited

LEMMA AnsweringInvStep ==
    AnsweringInv /\ [ApprovalsNext]_approvalVars => AnsweringInv'
<1> SUFFICES ASSUME AnsweringInv, [ApprovalsNext]_approvalVars
             PROVE  AnsweringInv'
  OBVIOUS
<1>1. ApprovalsInv'
  BY ApprovalsInvStep DEF AnsweringInv
<1>2. StopsAreKept
  BY UsesTheStore, StoreKeepsStops DEF AnsweringInv, ApprovalsInv
<1>3. /\ Served /\ WaitersTypeOK /\ task \in [JobId -> TaskState]
      /\ handler \in [Handler -> HandlerState]
      /\ \A h \in Handler : AnswersForTheJob(handler[h])
  BY DEF AnsweringInv, ApprovalsInv, Served, WaitersInv, TasksInv, HandlersInv
<1>4. ASSUME NEW j \in JobId, TaskStep(j) PROVE AnsweringInv'
  <2>1. Served'
    BY <1>4, TaskServes
  <2>2. DrawnIsKept /\ UNCHANGED <<decision, handler>>
    BY <1>4, TaskKeepsDecisions DEF AnsweringInv, DrawnIsKept
  <2>3. \A h \in Handler : AnswersForTheJob(handler[h])'
    BY <1>3, <2>2 DEF AnswersForTheJob, DrawnIsKept
  <2> QED
    BY <1>1, <2>1, <2>3 DEF AnsweringInv, Served
<1>5. ASSUME NEW h \in Handler, HandlerStep(h) \/ Opens(h)
      PROVE  AnsweringInv'
  <2>1. Served'
    BY <1>2, <1>3, <1>5, HandlerMoves, NoTaskMoves
  <2> QED
    BY <1>1, <1>5, <2>1, HandlerAnswers DEF AnsweringInv, Served
<1>6. ASSUME UNCHANGED <<waiterVars, task, handler>> PROVE AnsweringInv'
  <2>1. Served'
    BY <1>2, <1>3, <1>6, NothingMoves, NoTaskMoves DEF waiterVars
  <2>2. \A h \in Handler : AnswersForTheJob(handler[h])'
    BY <1>3, <1>6 DEF AnswersForTheJob, waiterVars, Drawn
  <2> QED
    BY <1>1, <2>1, <2>2 DEF AnsweringInv, Served
<1>7. ASSUME NEW s \in SessionId, SessionExpires(s) PROVE AnsweringInv'
  BY <1>6, <1>7 DEF SessionExpires
<1>8. CASE UNCHANGED approvalVars
  BY <1>6, <1>8 DEF approvalVars
<1> QED
  BY <1>4, <1>5, <1>7, <1>8 DEF ApprovalsNext

(* The tasks that wait and the handlers that answer them, together.        *)
THEOREM AnsweringInvariance == ApprovalsSpec => []AnsweringInv
  BY AnsweringInvInit, AnsweringInvStep, PTL DEF ApprovalsSpec

(* Nobody waits for what cannot come, and a question counts as unresolved  *)
(* as long as its task waits (approval.rs: wait; questions.rs: wait,       *)
(* has_pending).                                                           *)
THEOREM WaitsStayOpen == ApprovalsSpec => []WaitIsOpen
<1>1. ASSUME AnsweringInv, NEW j \in JobId, At(j, "parked")
      PROVE  LET r == task[j].request
                 maps == store[task[j].kind]
             IN \/ cancel[j]
                \/ r \in permit
                \/ r \in maps.pending /\ r \in maps.inflight
  BY <1>1 DEF AnsweringInv, TaskIsServed, IsNoticed, StaysOnRecord, At, Asking
<1>2. ASSUME AnsweringInv, NEW j \in JobId, task[j].kind = "question",
             task[j].at \in Asking, task[j].request \notin invalidated
      PROVE  HasPending(owner[j].conversation)
  BY <1>2 DEF AnsweringInv, TaskIsServed, HoldsItsRequest, StaysOnRecord,
     Using, HasPending
<1>3. AnsweringInv => WaitIsOpen
  BY <1>1, <1>2 DEF WaitIsOpen, WaiterIsReachable, QuestionStaysUnresolved,
     Asking
<1> QED
  BY <1>3, AnsweringInvariance, PTL

(* An accepted decision is what the tool call returns (approval.rs: wait;  *)
(* questions.rs: wait).                                                    *)
THEOREM DecisionsReachTheirTask == ApprovalsSpec => []DecisionReachesTask
<1>1. AnsweringInv => DecisionReachesTask
  BY DEF AnsweringInv, TaskIsServed, OutcomeIsDue, DecisionReachesTask
<1> QED
  BY <1>1, AnsweringInvariance, PTL

(* An answer resumes the wait it answers and no later one (questions.rs:   *)
(* decide).                                                                *)
THEOREM AnswersResumeTheirWait == ApprovalsSpec => AnswerResumesItsOwnWait
<1> DEFINE Own == \A h \in Handler :
                     /\ handler[h].kind = "answer"
                     /\ handler'[h] # handler[h]
                     /\ status' # status
                     => task[handler[h].job].request = handler[h].request
<1>1. ASSUME AnsweringInv, ApprovalsNext PROVE Own
  <2>1. SUFFICES ASSUME NEW h \in Handler, handler[h].kind = "answer",
                        handler'[h] # handler[h], status' # status
                 PROVE  task[handler[h].job].request = handler[h].request
    OBVIOUS
  <2>2. AnswersForTheJob(handler[h])
    BY <1>1 DEF AnsweringInv
  <2>3. HandlerStep(h) \/ Opens(h)
    <3>1. ASSUME NEW j \in JobId, TaskStep(j) PROVE FALSE
      BY <1>1, <2>1, <3>1, TaskKeepsDecisions DEF AnsweringInv
    <3>2. ASSUME NEW o \in Handler \ {h}, HandlerStep(o) \/ Opens(o)
          PROVE  FALSE
      BY <1>1, <2>1, <3>2 DEF AnsweringInv, ApprovalsInv, HandlersInv,
         HandlerStep, Opens, DecideApproval, DecisionRefused,
         ResumeByHandler, AnswerResumes, AnswerRefused, AnswerStored,
         AnswerRemoved, CancelJob, SweepPass, RemoveDead, InsertRestored,
         OpenDecision, OpenAnswer, OpenStop, OpenSwitch, OpenSweep, Move, Leave
    <3>3. ASSUME NEW s \in SessionId, SessionExpires(s) PROVE FALSE
      BY <2>1, <3>3 DEF SessionExpires
    <3> QED
      BY <1>1, <3>1, <3>2, <3>3 DEF ApprovalsNext
  <2>4. AnswerResumes(h)
    <3>1. ~Opens(h)
      BY <2>1 DEF Opens, OpenDecision, OpenAnswer, OpenStop, OpenSwitch,
         OpenSweep, ElseUnchanged, storeVars
    <3>2. /\ ~DecisionRefused(h) /\ ~AnswerRefused(h) /\ ~AnswerStored(h)
          /\ ~AnswerRemoved(h) /\ ~SweepPass(h)
          /\ \A d \in {"Approved", "Rejected"} : ~DecideApproval(h, d)
      BY <2>1 DEF DecisionRefused, AnswerRefused, AnswerStored, AnswerRemoved,
         SweepPass, DecideApproval, ElseUnchanged, storeVars
    <3>3. /\ ~ResumeByHandler(h) /\ ~CancelJob(h) /\ ~RemoveDead(h)
          /\ ~InsertRestored(h)
      BY <2>1, <2>2 DEF ResumeByHandler, CancelJob, RemoveDead, InsertRestored,
         HandlerAt, AnswersForTheJob
    <3> QED
      BY <2>3, <3>1, <3>2, <3>3 DEF HandlerStep
  <2>5. /\ handler[h].request \in Drawn
        /\ request[handler[h].request].job = handler[h].job
        /\ handler[h].request \in store.question.pending
        /\ handler[h].request \notin invalidated
        /\ decision[handler[h].request] = "none"
    BY <2>1, <2>2, <2>4 DEF AnswersForTheJob, AnswerResumes, Answerable
  <2>6. request[handler[h].request].kind = "question"
    BY <1>1, <2>5 DEF AnsweringInv, ApprovalsInv, WaitersInv, RequestsAreFiled,
       Kind, Map
  <2> QED
    BY <1>1, <2>5, <2>6 DEF AnsweringInv, PendingIsAwaited, Open, Awaited
<1>2. AnsweringInv /\ [ApprovalsNext]_approvalVars => [Own]_approvalVars
  BY <1>1
<1> QED
  BY <1>2, AnsweringInvariance, PTL DEF ApprovalsSpec, AnswerResumesItsOwnWait
=============================================================================
