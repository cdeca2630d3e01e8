--------------------------- MODULE SessionsProofs ---------------------------
(***************************************************************************)
(* The middleware, the purge and the gate registry keep every promise of   *)
(* the session store, and a gate in one pair of hands, for every set of    *)
(* sessions, conversations, jobs and requests.                             *)
(*                                                                         *)
(* The steps of Sessions are those of the store but for one: settling the  *)
(* parked jobs of a session ends and releases several of them at once.     *)
(* SettleInv shows that this keeps the invariant IInv of the store too;    *)
(* what it needs to know of the jobs is that they were begun, which is a   *)
(* consequence of GateHasOneHolder.                                        *)
(*                                                                         *)
(* The second part is about the consent store: work is consented and a     *)
(* draft serves once, for any number of sessions, drafts, conversations    *)
(* and requests, and however the maps fill up.  A request carries what it  *)
(* read of a row across its awaits.  What makes that sound is the revision:*)
(* as long as the row still has the revision a request read, it has the    *)
(* settings it read.                                                       *)
(***************************************************************************)
EXTENDS Sessions, AccessConsent, SessionStoreProofs

(* Where a request or the purge stands, it knows the session it acts on.   *)
SessionsTypeOK ==
    /\ providers \in BOOLEAN
    /\ request \in [Request -> Place \union {Idle}]
    /\ purge.todo \subseteq SessionId
    /\ purge.pc = "remove" => purge.session \in SessionId
    /\ continuations \subseteq JobId
    /\ handling \subseteq JobId
    /\ checked \subseteq handling

SessionsInv == IInv /\ SessionsTypeOK /\ GateHasOneHolder

-----------------------------------------------------------------------------
USE NoIdAssumption

LEMMA SessionsInvInit == SessionsInit => SessionsInv
<1> SUFFICES ASSUME SessionsInit PROVE SessionsInv
  OBVIOUS
<1>1. IInv
  BY IInvInit DEF SessionsInit
<1>2. SessionsTypeOK
  BY DEF SessionsInit, SessionsTypeOK, NoPurge
<1>3. GateHasOneHolder
  BY DEF SessionsInit, GateHasOneHolder
<1> QED
  BY <1>1, <1>2, <1>3 DEF SessionsInv

(* A job at a gate was begun and is not released.                          *)
LEMMA AtGate ==
  ASSUME SessionsInv
  PROVE  continuations \union handling \subseteq Begun \ released
  BY DEF SessionsInv, SessionsTypeOK, GateHasOneHolder, Begun, JobStatus,
     Awaiting

(* Ending and releasing any set of begun jobs keeps the store's invariant. *)
LEMMA SettleInv ==
  ASSUME IInv, NEW done \in SUBSET Begun, NEW outcome \in Terminal,
         SettleJobs(done, outcome)
  PROVE  IInv'
<1> USE DEF SettleJobs
<1>1. done \subseteq JobId
  BY DEF Begun
<1>2. TypeOK'
  BY <1>1 DEF IInv, TypeOK, JobStatus, Entry, NoEntry
<1>3. Begun' = Begun /\ \A j \in JobId : status[j] = "Token" => status'[j] = "Token"
  BY <1>1 DEF IInv, TypeOK, Begun, JobStatus, Awaiting, Terminal
<1>4. JobsAreOwned' /\ OneLiveToken' /\ TokenIsHeld'
  BY <1>3 DEF IInv, JobsAreOwned, OneLiveToken, TokenIsHeld, Live
<1>5. TokensDrawn'
  BY <1>3 DEF IInv, TokensDrawn, TypeOK, Reservation
<1>6. UnreleasedJobIsRegistered'
  <2> SUFFICES ASSUME NEW j \in Begun \ released, j \notin done
               PROVE  conversation_jobs'[owner[j].conversation] =
                          [job |-> j, session |-> owner[j].session]
    BY <1>3 DEF UnreleasedJobIsRegistered
  <2>1. owner[j].conversation \in ConversationId
    BY DEF IInv, JobsAreOwned, Owner
  <2>2. conversation_jobs[owner[j].conversation] =
            [job |-> j, session |-> owner[j].session]
    BY DEF IInv, UnreleasedJobIsRegistered
  <2>3. ASSUME NEW i \in done
        PROVE  conversation_jobs[owner[j].conversation] #
                   [job |-> i, session |-> owner[i].session]
    <3>1. conversation_jobs[owner[j].conversation].job = j
      BY <2>2
    <3>2. [job |-> i, session |-> owner[i].session].job # j
      OBVIOUS
    <3> QED
      BY <3>1, <3>2
  <2> QED
    BY <2>1, <2>2, <2>3
<1>7. EntryAwaitsRelease'
  BY <1>3 DEF IInv, EntryAwaitsRelease, TypeOK, Entry, NoEntry
<1>8. NoJobStartsUnderReservation' /\ OrphanJobIsCancelled'
  BY DEF IInv, NoJobStartsUnderReservation, OrphanJobIsCancelled, Effective,
     Live, TypeOK, Reservation
<1> QED
  BY <1>2, <1>3, <1>4, <1>5, <1>6, <1>7, <1>8 DEF IInv

(* What the settlement leaves of the registry.                             *)
LEMMA SettleGates ==
  ASSUME SessionsInv, NEW done \in SUBSET (continuations \union handling),
         NEW outcome \in Terminal, SettleJobs(done, outcome),
         handling' = handling \ done \/ (handling' = handling /\ done \subseteq continuations)
  PROVE  /\ IInv'
         /\ GateHasOneHolder'
         /\ continuations' \subseteq JobId
<1>1. done \subseteq Begun
  BY AtGate
<1>2. IInv'
  BY <1>1, SettleInv DEF SessionsInv
<1>3. GateHasOneHolder'
  BY DEF SessionsInv, SessionsTypeOK, GateHasOneHolder, SettleJobs
<1> QED
  BY <1>2, <1>3 DEF SettleJobs, SessionsInv, SessionsTypeOK

(* Interrupting the gates of a session, wholly or in part.                 *)
LEMMA InterruptGatesInv ==
  ASSUME SessionsInv, NEW id, InterruptOk(id) \/ InterruptFails(id),
         UNCHANGED handling
  PROVE  /\ IInv'
         /\ GateHasOneHolder'
         /\ continuations' \subseteq JobId
<1>1. PICK done \in SUBSET Parked(id) : SettleJobs(done, "Cancelled")
  BY DEF InterruptOk, InterruptFails
<1>2. done \in SUBSET (continuations \union handling) /\ done \subseteq continuations
  BY DEF Parked
<1>3. "Cancelled" \in Terminal
  BY DEF Terminal
<1> QED
  BY <1>1, <1>2, <1>3, SettleGates

-----------------------------------------------------------------------------
(* A step of the store that leaves the jobs at a gate as they are.         *)
LEMMA StoreStepInv ==
  ASSUME SessionsInv, Next,
         \A j \in continuations \union handling :
             status'[j] = status[j] /\ (j \in released' => j \in released),
         UNCHANGED <<continuations, handling>>
  PROVE  IInv' /\ GateHasOneHolder'
<1>1. IInv'
  BY IInvStep DEF SessionsInv
<1> QED
  BY <1>1 DEF SessionsInv, GateHasOneHolder

LEMMA SessionChangeInv ==
  ASSUME SessionsInv, NEW id \in SessionId, SessionStep(id),
         UNCHANGED <<continuations, handling>>
  PROVE  IInv' /\ GateHasOneHolder'
<1>1. Next
  BY DEF Next
<1> QED
  BY <1>1, StoreStepInv DEF SessionStep, Insert, Expire, Remove

LEMMA HandlerStepInv ==
  ASSUME SessionsInv, HandlerStep
  PROVE  SessionsInv'
<1>1. UNCHANGED procVars /\ Next
  BY DEF HandlerStep, Next, SessionStep
<1>2. \A j \in continuations \union handling :
          status'[j] = status[j] /\ (j \in released' => j \in released)
  <2>1. ASSUME NEW j \in continuations \union handling PROVE j \notin Fresh
    BY <2>1 DEF SessionsInv, GateHasOneHolder, Fresh
  <2>2. status \in [JobId -> JobStatus \union {"Unused", "Token"}]
    BY DEF SessionsInv, IInv, TypeOK
  <2>3. continuations \union handling \subseteq JobId
    BY DEF SessionsInv, SessionsTypeOK
  <2>4. ASSUME NEW id \in SessionId, NEW c \in ConversationId, NEW t \in JobId,
               ReserveCommand(id, c, t) \/ BeginConversationJob(id, c, t)
        PROVE  \A j \in continuations \union handling :
                   status'[j] = status[j] /\ (j \in released' => j \in released)
    BY <2>1, <2>2, <2>3, <2>4 DEF ReserveCommand, BeginConversationJob
  <2> QED
    BY <2>4 DEF HandlerStep, DropReservation, Expire
<1> QED
  BY <1>1, <1>2, StoreStepInv DEF SessionsInv, SessionsTypeOK, procVars

LEMMA RequestStepInv ==
  ASSUME SessionsInv, NEW r \in Request, RequestStep(r)
  PROVE  SessionsInv'
<1> DEFINE id == request[r].session
<1>1. At(r, "idle") \/ request[r] \in Place
  BY DEF SessionsInv, SessionsTypeOK, At, Idle
<1>2. ~At(r, "idle") => id \in SessionId
  BY <1>1 DEF Place
<1>0. ASSUME ~At(r, "idle"),
             NEW pc \in {"insert", "interrupt", "remove", "removeAny"},
             Goto(r, pc) \/ Leave(r)
      PROVE  request' \in [Request -> Place \union {Idle}]
  <2>1. request[r] \in Place
    BY <1>0, <1>1
  <2>2. [request[r] EXCEPT !.pc = pc] \in Place
    BY <2>1 DEF Place
  <2> QED
    BY <1>0, <2>2 DEF Goto, Leave, SessionsInv, SessionsTypeOK
<1>3. ASSUME NEW new \in SessionId, ResolveCookie(r, new) PROVE SessionsInv'
  <2>1. UNCHANGED <<storeVars, procVars>> \/ request' \in [Request -> Place \union {Idle}]
    BY <1>3 DEF ResolveCookie, SessionsInv, SessionsTypeOK, Place
  <2>2. IInv'
    BY <1>3, IInvStep DEF ResolveCookie, SessionsInv
  <2> QED
    BY <1>3, <2>1, <2>2 DEF ResolveCookie, SessionsInv, SessionsTypeOK,
       GateHasOneHolder, storeVars, procVars
<1>4. CASE CheckExpired(r)
  <2>1. id \in SessionId
    BY <1>2, <1>4 DEF CheckExpired, At
  <2>2. request' \in [Request -> Place \union {Idle}]
    BY <1>4, <1>0 DEF CheckExpired, At
  <2>3. IInv'
    BY <1>4, IInvStep DEF CheckExpired, SessionsInv
  <2> QED
    BY <1>4, <2>2, <2>3 DEF CheckExpired, SessionsInv, SessionsTypeOK,
       GateHasOneHolder, storeVars
<1>5. CASE InterruptGates(r)
  <2>1. id \in SessionId
    BY <1>2, <1>5 DEF InterruptGates, At
  <2>2. request' \in [Request -> Place \union {Idle}]
    BY <1>5, <1>0 DEF InterruptGates, At
  <2>3. IInv' /\ GateHasOneHolder' /\ continuations' \subseteq JobId
    BY <1>5, InterruptGatesInv DEF InterruptGates
  <2> QED
    BY <1>5, <2>2, <2>3 DEF InterruptGates, SessionsInv, SessionsTypeOK
<1>6. CASE RemoveSession(r)
  <2>1. id \in SessionId /\ SessionStep(id)
    BY <1>2, <1>6 DEF RemoveSession, At, SessionStep
  <2>2. request' \in [Request -> Place \union {Idle}]
    BY <1>6, <1>0 DEF RemoveSession, At
  <2>3. IInv' /\ GateHasOneHolder'
    BY <1>6, <2>1, SessionChangeInv DEF RemoveSession
  <2> QED
    BY <1>6, <2>2, <2>3 DEF RemoveSession, SessionsInv, SessionsTypeOK
<1>7. CASE RestoreSession(r)
  <2>1. id \in SessionId /\ SessionStep(id)
    BY <1>2, <1>7 DEF RestoreSession, At, SessionStep
  <2>2. request' \in [Request -> Place \union {Idle}]
    BY <1>7, <1>0 DEF RestoreSession, At
  <2>3. IInv' /\ GateHasOneHolder'
    BY <1>7, <2>1, SessionChangeInv DEF RestoreSession
  <2> QED
    BY <1>7, <2>2, <2>3 DEF RestoreSession, SessionsInv, SessionsTypeOK
<1> QED
  BY <1>3, <1>4, <1>5, <1>6, <1>7 DEF RequestStep

LEMMA PurgeStepInv ==
  ASSUME SessionsInv, PurgeStep
  PROVE  SessionsInv'
<1>1. CASE PurgeTick
  <2>1. IInv'
    BY <1>1, IInvStep DEF PurgeTick, SessionsInv
  <2> QED
    BY <1>1, <2>1 DEF PurgeTick, SessionsInv, SessionsTypeOK, GateHasOneHolder,
       storeVars, NoPurge
<1>2. CASE PurgeRemove
  <2>1. purge.session \in SessionId /\ SessionStep(purge.session)
    BY <1>2 DEF PurgeRemove, SessionsInv, SessionsTypeOK, SessionStep
  <2>2. IInv' /\ GateHasOneHolder'
    BY <1>2, <2>1, SessionChangeInv DEF PurgeRemove
  <2> QED
    BY <1>2, <2>2 DEF PurgeRemove, SessionsInv, SessionsTypeOK, NoPurge
<1>3. ASSUME NEW id \in SessionId, PurgeInterrupt(id) PROVE SessionsInv'
  <2>1. IInv' /\ GateHasOneHolder' /\ continuations' \subseteq JobId
    BY <1>3, InterruptGatesInv DEF PurgeInterrupt
  <2>2. /\ purge'.todo \subseteq SessionId
        /\ purge'.pc = "remove" => purge'.session \in SessionId
    <3>1. CASE InterruptOk(id) /\ purge' = [todo |-> purge.todo \ {id},
                                           pc |-> "remove", session |-> id]
      BY <3>1 DEF SessionsInv, SessionsTypeOK
    <3>2. CASE purge' = NoPurge
      BY <3>2 DEF NoPurge
    <3>3. CASE purge' = [purge EXCEPT !.todo = purge.todo \ {id}]
      BY <1>3, <3>3 DEF PurgeInterrupt, SessionsInv, SessionsTypeOK
    <3> QED
      BY <1>3, <3>1, <3>2, <3>3 DEF PurgeInterrupt
  <2> QED
    BY <1>3, <2>1, <2>2 DEF PurgeInterrupt, SessionsInv, SessionsTypeOK
<1> QED
  BY <1>1, <1>2, <1>3 DEF PurgeStep

-----------------------------------------------------------------------------
(* The gate: a job enters somebody's hands when its status changes, and    *)
(* leaves them before it runs or ends.                                     *)
LEMMA GateStepInv ==
  ASSUME SessionsInv, NEW j \in JobId, GateStep(j)
  PROVE  SessionsInv'
<1> USE DEF SessionsTypeOK, GateHasOneHolder
<1>1. CASE OpenGate(j)
  <2>1. Next
    BY <1>1 DEF OpenGate, Next, JobStep, Awaiting
  <2>2. IInv'
    BY <2>1, IInvStep DEF SessionsInv
  <2>3. status \in [JobId -> JobStatus \union {"Unused", "Token"}]
    BY DEF SessionsInv, IInv, TypeOK
  <2> QED
    BY <1>1, <2>2, <2>3 DEF OpenGate, SetAwaiting, statusOnly, SessionsInv
<1>2. CASE ParkGate(j)
  <2>1. IInv'
    BY <1>2, IInvStep DEF ParkGate, SessionsInv
  <2> QED
    BY <1>2, <2>1 DEF ParkGate, SessionsInv, storeVars
<1>3. CASE TakeGate(j)
  <2>1. IInv'
    BY <1>3, IInvStep DEF TakeGate, SessionsInv
  <2> QED
    BY <1>3, <2>1 DEF TakeGate, SessionsInv, storeVars
<1>4. CASE CheckGate(j)
  <2>1. IInv'
    BY <1>4, IInvStep DEF CheckGate, SessionsInv
  <2> QED
    BY <1>4, <2>1 DEF CheckGate, SessionsInv, storeVars
<1>5. CASE ApproveGate(j)
  <2>1. Next
    BY <1>5 DEF ApproveGate, Next, JobStep
  <2>2. IInv'
    BY <2>1, IInvStep DEF SessionsInv
  <2>3. status \in [JobId -> JobStatus \union {"Unused", "Token"}]
    BY DEF SessionsInv, IInv, TypeOK
  <2> QED
    BY <1>5, <2>2, <2>3 DEF ApproveGate, Decided, Resume, statusOnly, SessionsInv
<1>6. CASE SettleGate(j)
  <2>1. PICK outcome \in Terminal : SettleJobs({j}, outcome)
    BY <1>6 DEF SettleGate
  <2>2. {j} \in SUBSET (continuations \union handling) /\ handling' = handling \ {j}
    BY <1>6 DEF SettleGate, Decided, SessionsInv
  <2>3. IInv' /\ GateHasOneHolder' /\ continuations' \subseteq JobId
    BY <2>1, <2>2, SettleGates DEF SessionsInv
  <2> QED
    BY <1>6, <2>3 DEF SettleGate, Decided, SessionsInv
<1> QED
  BY <1>1, <1>2, <1>3, <1>4, <1>5, <1>6 DEF GateStep

LEMMA TaskStepInv ==
  ASSUME SessionsInv, NEW j \in JobId, TaskStep(j) \/ StopJob(j)
  PROVE  SessionsInv'
<1>1. UNCHANGED procVars /\ Next
  BY DEF TaskStep, StopJob, Next, JobStep
<1>2. \A i \in continuations \union handling :
          status'[i] = status[i] /\ (i \in released' => i \in released)
  <2>1. CASE TaskStep(j)
    BY <2>1 DEF TaskStep, FinishConversationJob, SetAwaiting, Resume, Finish,
       statusOnly, SessionsInv, SessionsTypeOK, IInv, TypeOK
  <2>2. CASE StopJob(j)
    BY <2>2 DEF StopJob, RequestCancel, statusOnly
  <2> QED
    BY <2>1, <2>2
<1> QED
  BY <1>1, <1>2, StoreStepInv DEF SessionsInv, SessionsTypeOK, procVars

LEMMA SessionsInvStep == SessionsInv /\ [SessionsNext]_allVars => SessionsInv'
<1> SUFFICES ASSUME SessionsInv, [SessionsNext]_allVars PROVE SessionsInv'
  OBVIOUS
<1>1. ASSUME NEW id \in SessionId, IssueSession(id) PROVE SessionsInv'
  <2>1. IInv' /\ GateHasOneHolder'
    BY <1>1, SessionChangeInv DEF IssueSession, SessionStep, procVars
  <2> QED
    BY <1>1, <2>1 DEF IssueSession, SessionsInv, SessionsTypeOK, procVars
<1>2. CASE ChangeProviders
  <2>1. IInv'
    BY <1>2, IInvStep DEF ChangeProviders, SessionsInv
  <2> QED
    BY <1>2, <2>1 DEF ChangeProviders, SessionsInv, SessionsTypeOK,
       GateHasOneHolder, storeVars
<1>3. CASE UNCHANGED allVars
  <2>1. IInv'
    BY <1>3, IInvStep DEF allVars, SessionsInv
  <2> QED
    BY <1>3, <2>1 DEF allVars, procVars, storeVars, SessionsInv,
       SessionsTypeOK, GateHasOneHolder
<1> QED
  BY <1>1, <1>2, <1>3, HandlerStepInv, PurgeStepInv, RequestStepInv,
     GateStepInv, TaskStepInv DEF SessionsNext

THEOREM SessionsInvariance == SessionsSpec => []SessionsInv
  BY SessionsInvInit, SessionsInvStep, PTL DEF SessionsSpec

-----------------------------------------------------------------------------
(* A job waiting at a gate is in the registry or in one pair of hands,     *)
(* still waits and is not released, whatever decisions, purges, restored   *)
(* sessions and failing settlements do to each other (executor.rs:         *)
(* WorkflowContinuationRegistry).                                          *)
THEOREM GateIsHeldOnce == SessionsSpec => []GateHasOneHolder
<1>1. SessionsInv => GateHasOneHolder
  BY DEF SessionsInv
<1> QED
  BY <1>1, SessionsInvariance, PTL

(* The promises of the session store hold under the middleware, the purge  *)
(* and the gates, which settle several jobs at once (sessions.rs,          *)
(* executor.rs: interrupt_continuations).                                  *)
THEOREM StorePromisesHold ==
  SessionsSpec => [](/\ OneOperationPerConversation
                     /\ ReservationExcludesWork
                     /\ TokenIsHeld
                     /\ OrphanJobIsCancelled)
<1>1. SessionsInv => /\ OneOperationPerConversation
                     /\ ReservationExcludesWork
                     /\ TokenIsHeld
                     /\ OrphanJobIsCancelled
  BY ExclusionFollows DEF SessionsInv, IInv, OneOperationPerConversation
<1> QED
  BY <1>1, SessionsInvariance, PTL
-----------------------------------------------------------------------------
(* The consent store.                                                      *)
RowState == [state : {"new", "stored", "gone"}, settings : Settings,
             revision : Nat, work : Session \union {NoOne},
             run : RunId \union {NoOne}]
ConsentPlace ==
    {"away", "consume", "create", "read", "others", "requests", "commit",
     "stopping", "begin", "launch", "approved", "previews", "launches", "pending"}
RequestState == [pc : ConsentPlace, session : Session \union {NoOne},
                 subject : Draft \union Conversation \union {NoOne},
                 settings : Settings, revision : Nat,
                 target : Grant \union {Host, NoOne},
                 run : RunId \union Conversation \union {NoOne}]

(* A request that works on a stored row; one that only removes consent     *)
(* from the maps needs no more of it than its name.                        *)
OnRow(r) == r.pc \notin {"away", "consume", "create"}
FromDraft(r) == r.pc \in {"consume", "create"}
Relies(r) == r.pc \in {"read", "begin", "launch"}

(* What a request holds at its place.                                      *)
Holds(r) ==
    /\ OnRow(r) => /\ r.subject \in Conversation
                   /\ saved[r.subject].state # "new"
                   /\ r.revision <= saved[r.subject].revision
    /\ FromDraft(r) => /\ r.subject \in Draft
                       /\ r.run \in Conversation
                       /\ saved[r.run].state = "new" /\ r.revision = 0
    /\ r.pc \notin {"away"} => r.session \in Session
    /\ r.pc = "launch" => r.run \in RunId

ConsentTypeOK ==
    /\ saved \in [Conversation -> RowState]
    /\ \A c \in Conversation : saved[c].state = "new" => saved[c].revision = 0
    /\ at \in [Handler -> RequestState]
    /\ live \subseteq Session
    /\ \A h \in Handler : Holds(at[h])
    /\ \A l \in launches : l.run \in RunId

(* Two drafts never become the same conversation.                          *)
FreshRuns ==
    \A g, h \in Handler :
        FromDraft(at[g]) /\ FromDraft(at[h]) /\ at[g].run = at[h].run => g = h

(* A row that did not move is what the request read.                       *)
Current(r) ==
    LET row == saved[r.subject] IN
    Relies(r) /\ row.state = "stored" /\ row.revision = r.revision
        => row.settings = r.settings
ReadIsCurrent == \A h \in Handler : Current(at[h])

(* Only a stored row has work, and only work has a run.                    *)
WorkIsStored ==
    \A c \in Conversation :
        /\ saved[c].work # NoOne => saved[c].state = "stored"
        /\ saved[c].run # NoOne => saved[c].work # NoOne

(* Consent comes from a user, wherever it is kept or carried.              *)
Given(r) ==
    /\ r.pc = "begin" =>
          \A target \in Needs(r.settings) :
              Binding(r.session, r.subject, r.settings, target) \in agreed
    /\ r.pc = "launch" => Launch(r.session, r.subject, r.settings) \in agreed
ConsentIsGiven ==
    /\ approved \subseteq agreed
    /\ \A h \in Handler : Given(at[h])

(* A draft that served has no consent left.                                *)
DraftIsSpent ==
    \A x \in served :
        /\ x[2] \in Draft
        /\ \A b \in approved : b.session # x[1] \/ b.subject # x[2]
DraftNeeds ==
    \A h \in Handler : at[h].pc = "consume" => Needs(at[h].settings) # {}

ConsentInv ==
    /\ ConsentTypeOK
    /\ FreshRuns
    /\ ReadIsCurrent
    /\ WorkIsStored
    /\ ConsentIsGiven
    /\ DraftIsSpent /\ DraftNeeds
    /\ WorkIsConsented
    /\ DraftServesOnce

-----------------------------------------------------------------------------
USE ConsentAssumption

LEMMA AwayHolds ==
    /\ Away \in RequestState /\ Away.pc = "away"
    /\ Holds(Away) /\ Current(Away) /\ Given(Away)
    /\ ~FromDraft(Away) /\ ~OnRow(Away)
<1>1. /\ Away.pc = "away" /\ Away \in RequestState
  BY DEF Away, Untouched, RequestState, Settings, ConsentPlace
<1> QED
  BY <1>1 DEF Holds, Current, Given, FromDraft, OnRow, Relies

(* A row goes on: it never becomes new again, and its settings change only *)
(* with its revision.                                                      *)
RowGoes(c) ==
    /\ saved'[c].state # "new"
    /\ saved'[c].revision >= saved[c].revision
    /\ /\ saved[c].state # "new" /\ saved'[c].state = "stored"
       /\ saved'[c].revision = saved[c].revision
       => saved[c].state = "stored" /\ saved'[c].settings = saved[c].settings
RowsGo == \A c \in Conversation : saved'[c] = saved[c] \/ RowGoes(c)

LEMMA OthersHold ==
  ASSUME ConsentInv, RowsGo, saved' \in [Conversation -> RowState],
         agreed \subseteq agreed', NEW g \in Handler, at'[g] = at[g],
         FromDraft(at[g]) => saved'[at[g].run] = saved[at[g].run]
  PROVE  (Holds(at[g]) /\ Current(at[g]) /\ Given(at[g]))'
<1> DEFINE r == at[g]
<1>1. /\ Holds(r) /\ Current(r) /\ Given(r) /\ r \in RequestState
  BY DEF ConsentInv, ConsentTypeOK, ReadIsCurrent, ConsentIsGiven
<1>2. ASSUME OnRow(r)
      PROVE  /\ r.subject \in Conversation
             /\ saved[r.subject] \in RowState /\ saved'[r.subject] \in RowState
             /\ saved[r.subject].state # "new" /\ saved'[r.subject].state # "new"
             /\ r.revision <= saved[r.subject].revision
             /\ saved[r.subject].revision <= saved'[r.subject].revision
             /\ r.revision <= saved'[r.subject].revision
  <2>1. /\ r.subject \in Conversation /\ saved[r.subject].state # "new"
        /\ r.revision <= saved[r.subject].revision /\ r.revision \in Nat
    BY <1>1, <1>2 DEF Holds, RequestState
  <2>2. saved[r.subject] \in RowState /\ saved'[r.subject] \in RowState
    BY <2>1 DEF ConsentInv, ConsentTypeOK
  <2>3. saved[r.subject].revision \in Nat /\ saved'[r.subject].revision \in Nat
    BY <2>2 DEF RowState
  <2>4. /\ saved'[r.subject].state # "new"
        /\ saved[r.subject].revision <= saved'[r.subject].revision
    BY <2>1, <2>3 DEF RowsGo, RowGoes
  <2> QED
    BY <2>1, <2>2, <2>3, <2>4
<1>3. Holds(at[g])'
  BY <1>1, <1>2 DEF Holds, FromDraft
<1>4. Current(at[g])'
  <2>1. ASSUME Relies(r), saved'[r.subject].state = "stored",
               saved'[r.subject].revision = r.revision
        PROVE  saved'[r.subject].settings = r.settings
    <3>1. OnRow(r)
      BY <2>1 DEF Relies, OnRow
    <3>2. /\ saved[r.subject].revision \in Nat /\ r.revision \in Nat
          /\ saved'[r.subject].revision \in Nat
      BY <1>1, <1>2, <3>1 DEF RowState, RequestState
    <3>3. saved[r.subject].revision = r.revision
      BY <1>2, <2>1, <3>1, <3>2
    <3> QED
      BY <1>1, <1>2, <2>1, <3>1, <3>3 DEF RowsGo, RowGoes, Current
  <2> QED
    BY <2>1 DEF Current
<1>5. Given(at[g])'
  BY <1>1 DEF Given
<1> QED
  BY <1>3, <1>4, <1>5

(* Work where there was work; elsewhere none.                              *)
LEMMA WorkStays ==
  ASSUME ConsentInv, agreed \subseteq agreed',
         \A c \in Conversation :
             \/ saved'[c] = saved[c]
             \/ saved'[c].work = NoOne /\ saved'[c].run = NoOne
  PROVE  WorkIsStored' /\ WorkIsConsented'
BY DEF ConsentInv, WorkIsStored, WorkIsConsented

(* A step, put together.                                                   *)
LEMMA Assembled ==
  ASSUME ConsentInv, RowsGo, saved' \in [Conversation -> RowState],
         agreed \subseteq agreed', approved' \subseteq agreed', live' \subseteq Session,
         \A l \in launches' : l.run \in RunId,
         at' \in [Handler -> RequestState],
         \A g \in Handler :
             \/ /\ at'[g] = at[g]
                /\ FromDraft(at[g]) => saved'[at[g].run] = saved[at[g].run]
             \/ (Holds(at[g]) /\ Current(at[g]) /\ Given(at[g]))',
         FreshRuns', DraftIsSpent', DraftNeeds',
         WorkIsStored' /\ WorkIsConsented', DraftServesOnce'
  PROVE  ConsentInv'
<1>1. \A g \in Handler : (Holds(at[g]) /\ Current(at[g]) /\ Given(at[g]))'
  BY OthersHold
<1>2. \A c \in Conversation : saved'[c].state = "new" => saved'[c].revision = 0
  BY DEF RowsGo, RowGoes, ConsentInv, ConsentTypeOK
<1> QED
  BY <1>1, <1>2 DEF ConsentInv, ConsentTypeOK, ReadIsCurrent, ConsentIsGiven

(* A step of no request.                                                   *)
LEMMA RestStep ==
  ASSUME ConsentInv, UNCHANGED <<saved, at>>, live' \subseteq Session,
         agreed \subseteq agreed', approved' \subseteq agreed', served' \subseteq served,
         launches' \subseteq launches, DraftIsSpent'
  PROVE  ConsentInv'
<1>1. RowsGo /\ FreshRuns' /\ DraftNeeds' /\ DraftServesOnce'
  BY DEF RowsGo, ConsentInv, FreshRuns, DraftNeeds, DraftServesOnce
<1>2. \A l \in launches' : l.run \in RunId
  BY DEF ConsentInv, ConsentTypeOK
<1>3. WorkIsStored' /\ WorkIsConsented'
  BY WorkStays
<1> QED
  BY <1>1, <1>2, <1>3, Assembled DEF ConsentInv, ConsentTypeOK

(* A step of one request that gives no consent and changes no row.         *)
LEMMA ConsentStep ==
  ASSUME ConsentInv, UNCHANGED <<saved, live, agreed, served>>,
         approved' \subseteq approved, launches' \subseteq launches,
         NEW h \in Handler, NEW r \in RequestState, at' = [at EXCEPT ![h] = r],
         Holds(r), Current(r), Given(r), ~FromDraft(r)
  PROVE  ConsentInv'
<1>1. /\ at'[h] = r
      /\ \A g \in Handler : g # h => at'[g] = at[g]
      /\ at' \in [Handler -> RequestState]
  BY DEF ConsentInv, ConsentTypeOK
<1>2. (Holds(at[h]) /\ Current(at[h]) /\ Given(at[h]))'
  BY <1>1 DEF Holds, Current, Given
<1>3. FreshRuns' /\ DraftNeeds'
  BY <1>1 DEF ConsentInv, FreshRuns, DraftNeeds, FromDraft
<1>4. RowsGo /\ DraftServesOnce' /\ DraftIsSpent'
  BY DEF RowsGo, ConsentInv, DraftServesOnce, DraftIsSpent
<1>5. WorkIsStored' /\ WorkIsConsented'
  BY WorkStays
<1> QED
  BY <1>1, <1>2, <1>3, <1>4, <1>5, Assembled DEF ConsentInv, ConsentTypeOK, ConsentIsGiven

LEMMA Returns ==
  ASSUME ConsentInv, UNCHANGED <<saved, live, agreed, served>>,
         approved' \subseteq approved, launches' \subseteq launches,
         NEW h \in Handler, Return(h)
  PROVE  ConsentInv'
BY AwayHolds, ConsentStep DEF Return

(* A request that only removes consent, or waits, relies on nothing.       *)
Tidying ==
    {"requests", "commit", "stopping", "approved", "previews", "launches", "pending"}

LEMMA MovedHolds ==
  ASSUME ConsentInv, NEW h \in Handler, OnRow(at[h]),
         NEW label \in Tidying
  PROVE  LET r == [at[h] EXCEPT !.pc = label] IN
         /\ r \in RequestState /\ Holds(r) /\ Current(r) /\ Given(r) /\ ~FromDraft(r)
         /\ r.pc = label /\ r.subject = at[h].subject /\ r.revision = at[h].revision
<1> DEFINE r == [at[h] EXCEPT !.pc = label]
<1>1. at[h] \in RequestState /\ Holds(at[h])
  BY DEF ConsentInv, ConsentTypeOK
<1>2. /\ r \in RequestState /\ r.pc = label /\ r.subject = at[h].subject
      /\ r.revision = at[h].revision /\ r.session = at[h].session
  BY <1>1 DEF RequestState, Tidying, ConsentPlace
<1> HIDE DEF r
<1>3. Holds(r) /\ Current(r) /\ Given(r) /\ ~FromDraft(r)
  BY <1>1, <1>2 DEF Holds, Current, Given, FromDraft, Relies, OnRow, Tidying
<1> QED
  BY <1>2, <1>3 DEF r

LEMMA Moves ==
  ASSUME ConsentInv, UNCHANGED <<saved, live, agreed, served>>,
         approved' \subseteq approved, launches' \subseteq launches,
         NEW h \in Handler, OnRow(at[h]), NEW label \in Tidying, Move(h, label)
  PROVE  ConsentInv'
BY MovedHolds, ConsentStep DEF Move

-----------------------------------------------------------------------------
(* Steps of the maps, of the sessions and of the forms of drafts.          *)
LEMMA MapStep ==
  ASSUME ConsentInv, UNCHANGED <<saved, at, agreed, served>>, live' \subseteq Session,
         approved' \subseteq approved, launches' \subseteq launches
  PROVE  ConsentInv'
BY RestStep DEF ConsentInv, ConsentIsGiven, DraftIsSpent

LEMMA SessionSteps ==
  ASSUME ConsentInv,
         \/ Purge
         \/ \E s \in Session :
                CancelRequest(s) \/ ExpireSession(s) \/ RestoreLifetime(s)
  PROVE  ConsentInv'
<1>1. live \subseteq Session
  BY DEF ConsentInv, ConsentTypeOK
<1>2. ASSUME NEW s \in Session, CancelRequest(s) \/ ExpireSession(s)
      PROVE  ConsentInv'
  BY <1>1, <1>2, MapStep DEF CancelRequest, ExpireSession, maps, history
<1>3. ASSUME Retain, live' \subseteq Session PROVE ConsentInv'
  <2>1. approved' \subseteq approved /\ launches' \subseteq launches
    BY <1>3 DEF Retain
  <2> QED
    BY <1>3, <2>1, MapStep DEF Retain, history
<1> QED
  BY <1>1, <1>2, <1>3 DEF Purge, RestoreLifetime

LEMMA DraftSteps ==
  ASSUME ConsentInv, NEW s \in Session, NEW d \in Draft,
         AskForDraft(s, d) \/ ApproveForDraft(s, d)
  PROVE  ConsentInv'
<1>1. /\ approved \subseteq agreed /\ live \subseteq Session /\ DraftIsSpent
  BY DEF ConsentInv, ConsentTypeOK, ConsentIsGiven
<1>2. CASE AskForDraft(s, d)
  BY <1>1, <1>2, MapStep DEF AskForDraft, history
<1>3. CASE ApproveForDraft(s, d)
  <2>1. PICK b \in pending : b.session = s /\ b.subject = d /\ Approve(b)
    BY <1>3 DEF ApproveForDraft
  <2>2. /\ agreed' = agreed \union {b} /\ approved' \subseteq approved \union {b}
        /\ served' = {x \in served : x[1] # s \/ x[2] # d}
        /\ UNCHANGED <<saved, at, live, launches>>
    BY <1>3, <2>1 DEF Approve, ApproveForDraft
  <2>3. DraftIsSpent'
    BY <1>1, <2>1, <2>2 DEF DraftIsSpent
  <2> QED
    BY <1>1, <2>2, <2>3, RestStep
<1> QED
  BY <1>2, <1>3

(* A draft on its way to a conversation.                                   *)
LEMMA OpenDraftStep ==
  ASSUME ConsentInv, NEW h \in Handler, NEW s \in Session, NEW d \in Draft,
         OpenDraft(h, s, d)
  PROVE  ConsentInv'
<1>1. PICK settings \in Forms, c \in Conversation :
        /\ Needs(settings) # {} /\ saved[c].state = "new"
        /\ \A other \in Handler : at[other].run # c
        /\ at' = [at EXCEPT ![h] =
                     [pc |-> "consume", session |-> s, subject |-> d,
                      settings |-> settings, revision |-> 0,
                      target |-> NoOne, run |-> c]]
  BY DEF OpenDraft
<1> DEFINE r == [pc |-> "consume", session |-> s, subject |-> d,
                 settings |-> settings, revision |-> 0,
                 target |-> NoOne, run |-> c]
<1>2. r \in RequestState
  BY DEF RequestState, ConsentPlace, Forms
<1>3. /\ r.pc = "consume" /\ r.session = s /\ r.subject = d /\ r.run = c
      /\ r.settings = settings /\ r.revision = 0
  OBVIOUS
<1> HIDE DEF r
<1>4. /\ at'[h] = r
      /\ \A g \in Handler : g # h => at'[g] = at[g]
      /\ at' \in [Handler -> RequestState]
  BY <1>1, <1>2 DEF ConsentInv, ConsentTypeOK, r
<1>5. UNCHANGED <<saved, live, agreed, served, approved, launches>>
  BY DEF OpenDraft, maps, history
<1>6. (Holds(at[h]) /\ Current(at[h]) /\ Given(at[h]))'
  BY <1>1, <1>3, <1>4, <1>5 DEF Holds, Current, Given, FromDraft, OnRow, Relies
<1>7. FreshRuns' /\ DraftNeeds'
  BY <1>1, <1>3, <1>4 DEF ConsentInv, FreshRuns, DraftNeeds
<1>8. RowsGo /\ DraftServesOnce' /\ DraftIsSpent'
  BY <1>5 DEF RowsGo, ConsentInv, DraftServesOnce, DraftIsSpent
<1>9. WorkIsStored' /\ WorkIsConsented'
  BY <1>5, WorkStays
<1> QED
  BY <1>4, <1>5, <1>6, <1>7, <1>8, <1>9, Assembled
     DEF ConsentInv, ConsentTypeOK, ConsentIsGiven

LEMMA ConsumeDraftStep ==
  ASSUME ConsentInv, NEW h \in Handler, ConsumeDraft(h)
  PROVE  ConsentInv'
<1> DEFINE s == at[h].session
           d == at[h].subject
           c == at[h].run
           settings == at[h].settings
           moved == {Binding(s, c, settings, target) : target \in Needs(settings)}
           ofDraft(b) == b.session = s /\ b.subject = d
<1>1. /\ at[h] \in RequestState /\ at[h].pc = "consume" /\ d \in Draft
      /\ c \in Conversation /\ s \in Session /\ saved[c].state = "new"
      /\ Needs(settings) # {} /\ at[h].revision = 0
      /\ UNCHANGED <<saved, live, launches>>
  BY DEF ConsumeDraft, ConsentInv, ConsentTypeOK, Holds, FromDraft, DraftNeeds
<1>2. CASE Return(h) /\ UNCHANGED <<pending, approved, consumed, history>>
  BY <1>1, <1>2, Returns DEF history
<1>3. CASE /\ AuthorisedDraft(s, d, settings)
           /\ approved' = {b \in approved : ~ofDraft(b)} \union moved
           /\ served' = served \union {<<s, d, c>>}
           /\ agreed' = agreed \union AgreedAs(s, d, c, settings)
           /\ Move(h, "create")
  <2>1. moved \subseteq agreed'
    BY <1>3 DEF AuthorisedDraft, AgreedAs, ConsentInv, ConsentIsGiven
  <2>2. approved' \subseteq agreed' /\ agreed \subseteq agreed'
    BY <1>3, <2>1 DEF ConsentInv, ConsentIsGiven
  <2>3. PICK r \in RequestState :
          /\ r.pc = "create" /\ r.session = s /\ r.subject = d /\ r.run = c
          /\ r.revision = 0
          /\ at' = [at EXCEPT ![h] = r]
    <3> DEFINE q == [at[h] EXCEPT !.pc = "create"]
    <3>1. /\ q \in RequestState /\ q.pc = "create" /\ q.session = s
          /\ q.subject = d /\ q.run = c /\ q.revision = 0
      BY <1>1 DEF RequestState, ConsentPlace
    <3>2. at' = [at EXCEPT ![h] = q]
      BY <1>3 DEF Move
    <3> HIDE DEF q
    <3> QED
      BY <3>1, <3>2
  <2>4. /\ at'[h] = r
        /\ \A g \in Handler : g # h => at'[g] = at[g]
        /\ at' \in [Handler -> RequestState]
    BY <2>3 DEF ConsentInv, ConsentTypeOK
  <2>5. (Holds(at[h]) /\ Current(at[h]) /\ Given(at[h]))'
    BY <1>1, <2>3, <2>4 DEF Holds, Current, Given, FromDraft, OnRow, Relies
  <2>6. FreshRuns' /\ DraftNeeds'
    BY <1>1, <2>3, <2>4 DEF ConsentInv, FreshRuns, DraftNeeds, FromDraft
  <2>7. \E b \in approved : ofDraft(b)
    <3>1. PICK target \in Needs(settings) : TRUE
      BY <1>1
    <3>2. Binding(s, d, settings, target) \in approved
      BY <1>3 DEF AuthorisedDraft
    <3>3. ofDraft(Binding(s, d, settings, target))
      BY DEF Binding
    <3> QED
      BY <3>2, <3>3
  <2>8. \A x \in served : x[1] # s \/ x[2] # d
    BY <2>7 DEF ConsentInv, DraftIsSpent
  <2>9. DraftServesOnce'
    BY <1>3, <2>8 DEF DraftServesOnce, ConsentInv
  <2>10. DraftIsSpent'
    <3>1. \A b \in moved : b.subject = c
      BY DEF Binding
    <3>2. c \notin Draft
      BY <1>1 DEF ConsentAssumption
    <3> HIDE DEF moved
    <3> QED
      BY <1>1, <1>3, <3>1, <3>2 DEF ConsentInv, DraftIsSpent
  <2>11. RowsGo
    BY <1>1 DEF RowsGo
  <2>12. WorkIsStored' /\ WorkIsConsented'
    BY <1>1, <2>2, WorkStays
  <2> QED
    BY <1>1, <2>2, <2>4, <2>5, <2>6, <2>9, <2>10, <2>11, <2>12, Assembled
       DEF ConsentInv, ConsentTypeOK
<1> QED
  BY <1>2, <1>3 DEF ConsumeDraft

(* A row changes under a request that goes on.                             *)
LEMMA RowStep ==
  ASSUME ConsentInv, UNCHANGED <<live, approved, launches, agreed, served>>,
         NEW h \in Handler, NEW r \in RequestState, at' = [at EXCEPT ![h] = r],
         NEW c \in Conversation, NEW row \in RowState,
         saved' = [saved EXCEPT ![c] = row], RowGoes(c),
         saved[c].state = "new" => FromDraft(at[h]) /\ at[h].run = c,
         (Holds(at[h]) /\ Current(at[h]) /\ Given(at[h]))', ~FromDraft(r),
         WorkIsStored' /\ WorkIsConsented'
  PROVE  ConsentInv'
<1>1. /\ at'[h] = r
      /\ \A g \in Handler : g # h => at'[g] = at[g]
      /\ at' \in [Handler -> RequestState]
      /\ saved' \in [Conversation -> RowState]
      /\ \A d \in Conversation : d # c => saved'[d] = saved[d]
  BY DEF ConsentInv, ConsentTypeOK
<1>2. RowsGo
  BY <1>1 DEF RowsGo
<1>3. ASSUME NEW g \in Handler, g # h, FromDraft(at[g])
      PROVE  saved'[at[g].run] = saved[at[g].run]
  BY <1>1, <1>3 DEF ConsentInv, ConsentTypeOK, Holds, FreshRuns
<1>4. FreshRuns' /\ DraftNeeds'
  BY <1>1 DEF ConsentInv, FreshRuns, DraftNeeds, FromDraft
<1>5. DraftServesOnce' /\ DraftIsSpent'
  BY DEF ConsentInv, DraftServesOnce, DraftIsSpent
<1> QED
  BY <1>1, <1>2, <1>3, <1>4, <1>5, Assembled DEF ConsentInv, ConsentTypeOK, ConsentIsGiven

LEMMA StoreDraftStep ==
  ASSUME ConsentInv, NEW h \in Handler, StoreDraft(h)
  PROVE  ConsentInv'
<1> DEFINE c == at[h].run
           settings == at[h].settings
<1>1. /\ at[h] \in RequestState /\ at[h].pc = "create" /\ c \in Conversation
      /\ at[h].session \in Session /\ saved[c].state = "new" /\ FromDraft(at[h])
      /\ saved[c] \in RowState /\ saved[c].work = NoOne /\ saved[c].run = NoOne
      /\ settings \in Settings /\ at[h].revision = 0 /\ saved[c].revision = 0
      /\ UNCHANGED <<live, approved, launches, agreed, served>>
  BY DEF StoreDraft, ConsentInv, ConsentTypeOK, Holds, FromDraft, WorkIsStored, maps,
         history, RequestState
<1>2. PICK row \in RowState, r \in RequestState :
        /\ saved' = [saved EXCEPT ![c] = row] /\ at' = [at EXCEPT ![h] = r]
        /\ r.session \in Session /\ r.subject = c
        /\ row.work = NoOne /\ row.run = NoOne
        /\ \/ /\ row.state = "stored" /\ row.revision = 1 /\ row.settings = settings
              /\ r.pc = "read" /\ r.revision = 1 /\ r.settings = settings
           \/ /\ row.state = "gone" /\ row.revision = saved[c].revision
              /\ r.pc = "approved" /\ r.revision = at[h].revision
  <2>1. CASE /\ saved' = [saved EXCEPT ![c].state = "stored", ![c].settings = settings,
                                       ![c].revision = 1]
             /\ at' = [at EXCEPT ![h].pc = "read", ![h].subject = c,
                                 ![h].revision = 1, ![h].run = NoOne]
    <3> DEFINE row == [saved[c] EXCEPT !.state = "stored", !.settings = settings,
                                       !.revision = 1]
               r == [at[h] EXCEPT !.pc = "read", !.subject = c, !.revision = 1,
                                  !.run = NoOne]
    <3>1. /\ row \in RowState /\ row.work = NoOne /\ row.run = NoOne
          /\ row.state = "stored" /\ row.revision = 1 /\ row.settings = settings
      BY <1>1 DEF RowState
    <3>2. /\ r \in RequestState /\ r.session = at[h].session /\ r.subject = c
          /\ r.pc = "read" /\ r.revision = 1 /\ r.settings = settings
      BY <1>1 DEF RequestState, ConsentPlace
    <3>3. saved' = [saved EXCEPT ![c] = row] /\ at' = [at EXCEPT ![h] = r]
      BY <1>1, <2>1 DEF ConsentInv, ConsentTypeOK
    <3> HIDE DEF row, r
    <3> QED
      BY <1>1, <3>1, <3>2, <3>3
  <2>2. CASE /\ saved' = [saved EXCEPT ![c].state = "gone"]
             /\ at' = [at EXCEPT ![h].pc = "approved", ![h].subject = c,
                                 ![h].run = NoOne]
    <3> DEFINE row == [saved[c] EXCEPT !.state = "gone"]
               r == [at[h] EXCEPT !.pc = "approved", !.subject = c, !.run = NoOne]
    <3>1. /\ row \in RowState /\ row.work = NoOne /\ row.run = NoOne
          /\ row.state = "gone" /\ row.revision = saved[c].revision
      BY <1>1 DEF RowState
    <3>2. /\ r \in RequestState /\ r.session = at[h].session /\ r.subject = c
          /\ r.pc = "approved" /\ r.revision = at[h].revision
      BY <1>1 DEF RequestState, ConsentPlace
    <3>3. saved' = [saved EXCEPT ![c] = row] /\ at' = [at EXCEPT ![h] = r]
      BY <1>1, <2>2 DEF ConsentInv, ConsentTypeOK
    <3> HIDE DEF row, r
    <3> QED
      BY <1>1, <3>1, <3>2, <3>3
  <2> QED
    BY <2>1, <2>2 DEF StoreDraft
<1>3. saved'[c] = row /\ at'[h] = r /\ saved[c].revision \in Nat
  BY <1>1, <1>2 DEF ConsentInv, ConsentTypeOK, RowState
<1>4. RowGoes(c)
  BY <1>1, <1>2, <1>3 DEF RowGoes
<1>5. (Holds(at[h]) /\ Current(at[h]) /\ Given(at[h]))' /\ ~FromDraft(r)
  BY <1>1, <1>2, <1>3 DEF Holds, Current, Given, FromDraft, OnRow, Relies
<1>6. \A d \in Conversation :
         \/ saved'[d] = saved[d]
         \/ saved'[d].work = NoOne /\ saved'[d].run = NoOne
  BY <1>2, <1>3 DEF ConsentInv, ConsentTypeOK
<1>7. WorkIsStored' /\ WorkIsConsented'
  BY <1>1, <1>6, WorkStays
<1> QED
  BY <1>1, <1>2, <1>4, <1>5, <1>7, RowStep

(* A row changes under its request, which leaves or goes on to tidy up.    *)
LEMMA RowMoves ==
  ASSUME ConsentInv, UNCHANGED <<live, approved, launches, agreed, served>>,
         NEW h \in Handler, OnRow(at[h]),
         Return(h) \/ \E label \in Tidying : Move(h, label),
         NEW row \in RowState, saved' = [saved EXCEPT ![at[h].subject] = row],
         RowGoes(at[h].subject), WorkIsStored' /\ WorkIsConsented'
  PROVE  ConsentInv'
<1>1. PICK c \in Conversation : c = at[h].subject
  BY DEF ConsentInv, ConsentTypeOK, Holds
<1>2. /\ Holds(at[h]) /\ saved[c].state # "new" /\ at[h].revision <= saved[c].revision
      /\ saved[c] \in RowState /\ at[h] \in RequestState /\ saved'[c] = row
  BY <1>1 DEF ConsentInv, ConsentTypeOK, Holds
<1>3. /\ saved[c].revision \in Nat /\ at[h].revision \in Nat /\ row.revision \in Nat
      /\ row.state # "new" /\ saved[c].revision <= row.revision
  BY <1>1, <1>2 DEF RowState, RequestState, RowGoes
<1>4. PICK r \in RequestState :
        /\ at' = [at EXCEPT ![h] = r] /\ ~FromDraft(r) /\ ~Relies(r)
        /\ OnRow(r) => r.subject = c /\ r.revision = at[h].revision
        /\ r.pc # "away" => r.session \in Session
        /\ r.pc \notin {"begin", "launch"}
  <2>1. CASE Return(h)
    BY <2>1, AwayHolds DEF Return, Relies
  <2>2. ASSUME NEW label \in Tidying, Move(h, label)
        PROVE  \E r \in RequestState :
                 /\ at' = [at EXCEPT ![h] = r] /\ ~FromDraft(r) /\ ~Relies(r)
                 /\ OnRow(r) => r.subject = c /\ r.revision = at[h].revision
                 /\ r.pc # "away" => r.session \in Session
                 /\ r.pc \notin {"begin", "launch"}
    <3> DEFINE q == [at[h] EXCEPT !.pc = label]
    <3>1. /\ q \in RequestState /\ Holds(q) /\ ~FromDraft(q)
          /\ q.pc = label /\ q.subject = c /\ q.revision = at[h].revision
      BY <1>1, MovedHolds
    <3>2. at' = [at EXCEPT ![h] = q]
      BY <2>2 DEF Move
    <3> HIDE DEF q
    <3>3. q.pc # "away" => q.session \in Session
      BY <3>1 DEF Holds
    <3>4. q.pc \notin {"begin", "launch"} /\ ~Relies(q)
      BY <3>1 DEF Tidying, Relies
    <3> QED
      BY <3>1, <3>2, <3>3, <3>4
  <2> QED
    BY <2>1, <2>2
<1>5. at'[h] = r
  BY <1>4 DEF ConsentInv, ConsentTypeOK
<1>6. (Holds(at[h]) /\ Current(at[h]) /\ Given(at[h]))'
  <2>1. at[h].revision <= row.revision
    BY <1>2, <1>3
  <2>2. r.pc # "launch"
    BY <1>4
  <2>3. Holds(at[h])'
    BY <1>2, <1>3, <1>4, <1>5, <2>1, <2>2 DEF Holds
  <2> QED
    BY <1>4, <1>5, <2>3 DEF Current, Given
<1>7. saved' = [saved EXCEPT ![c] = row] /\ RowGoes(c)
  BY <1>1
<1> QED
  BY <1>2, <1>4, <1>6, <1>7, RowStep

LEMMA FailFirstMessageStep ==
  ASSUME ConsentInv, NEW h \in Handler, FailFirstMessage(h)
  PROVE  ConsentInv'
<1> DEFINE c == at[h].subject
           row == [saved[c] EXCEPT !.state = "gone"]
<1>1. /\ OnRow(at[h]) /\ c \in Conversation /\ saved[c] \in RowState
      /\ saved[c].work = NoOne /\ saved[c].run = NoOne
      /\ UNCHANGED <<live, approved, launches, agreed, served>>
      /\ saved' = [saved EXCEPT ![c] = row] /\ Move(h, "approved")
  BY DEF FailFirstMessage, OnRow, ConsentInv, ConsentTypeOK, Holds, WorkIsStored, maps,
         history
<1>2. /\ row \in RowState /\ row.state = "gone" /\ row.revision = saved[c].revision
      /\ row.work = NoOne /\ row.run = NoOne
  BY <1>1 DEF RowState
<1> HIDE DEF row
<1>3. /\ saved'[c] = row /\ saved[c].revision \in Nat
      /\ \A d \in Conversation : d # c => saved'[d] = saved[d]
  BY <1>1 DEF ConsentInv, ConsentTypeOK, RowState
<1>4. RowGoes(c)
  BY <1>2, <1>3 DEF RowGoes
<1>5. WorkIsStored' /\ WorkIsConsented'
  BY <1>1, <1>2, <1>3, WorkStays
<1>6. "approved" \in Tidying
  BY DEF Tidying
<1> QED
  BY <1>1, <1>2, <1>4, <1>5, <1>6, RowMoves

(* The settings change, under a row that has no work.                      *)
LEMMA CommitsStep ==
  ASSUME ConsentInv, NEW h \in Handler, OnRow(at[h]), NEW settings \in Settings,
         Commits(h, settings), UNCHANGED <<live, approved, launches, agreed, served>>,
         Return(h) \/ Move(h, "approved")
  PROVE  ConsentInv'
<1> DEFINE c == at[h].subject
           one == [saved[c] EXCEPT !.settings = settings]
           row == [one EXCEPT !.revision = @ + 1]
<1>1. /\ c \in Conversation /\ saved[c] \in RowState /\ saved[c].state = "stored"
      /\ saved[c].work = NoOne /\ saved[c].run = NoOne
      /\ saved' = [saved EXCEPT ![c].settings = settings, ![c].revision = @ + 1]
  BY DEF Commits, Unmoved, ConsentInv, ConsentTypeOK, Holds, WorkIsStored
<1>2. /\ one \in RowState /\ one.state = "stored" /\ one.settings = settings
      /\ one.revision = saved[c].revision /\ one.work = NoOne /\ one.run = NoOne
  BY <1>1 DEF RowState
<1>3. saved' = [saved EXCEPT ![c] = row]
  BY <1>1 DEF ConsentInv, ConsentTypeOK, RowState
<1> HIDE DEF one
<1>4. /\ row \in RowState /\ row.state = "stored"
      /\ row.revision = saved[c].revision + 1 /\ saved[c].revision \in Nat
      /\ row.work = NoOne /\ row.run = NoOne
  BY <1>1, <1>2 DEF RowState
<1> HIDE DEF row
<1>5. /\ saved'[c] = row
      /\ \A d \in Conversation : d # c => saved'[d] = saved[d]
  BY <1>1, <1>3 DEF ConsentInv, ConsentTypeOK
<1>6. RowGoes(c)
  BY <1>4, <1>5 DEF RowGoes
<1>7. WorkIsStored' /\ WorkIsConsented'
  BY <1>4, <1>5, WorkStays
<1>8. "approved" \in Tidying
  BY DEF Tidying
<1> QED
  BY <1>3, <1>4, <1>6, <1>7, <1>8, RowMoves

LEMMA CommitDirectoryStep ==
  ASSUME ConsentInv, NEW h \in Handler, CommitDirectory(h)
  PROVE  ConsentInv'
<1>1. /\ OnRow(at[h]) /\ at[h].settings \in Settings
      /\ UNCHANGED <<live, approved, launches, agreed, served>>
  BY DEF CommitDirectory, OnRow, ConsentInv, ConsentTypeOK, RequestState, maps, history
<1>2. CASE UNCHANGED saved /\ Move(h, "approved")
  BY <1>1, <1>2, Moves DEF Tidying
<1>3. CASE Commits(h, at[h].settings) /\ Return(h)
  BY <1>1, <1>3, CommitsStep
<1> QED
  BY <1>2, <1>3 DEF CommitDirectory

LEMMA WithdrawsStep ==
  ASSUME ConsentInv, NEW h \in Handler,
         SwitchMode(h) \/ ChangeDirectories(h) \/ ApplyPreset(h)
  PROVE  ConsentInv'
<1>1. at[h].settings \in Settings
  BY DEF ConsentInv, ConsentTypeOK, RequestState
<1>2. PICK settings \in Settings : Withdraws(h, settings)
  <2>1. [at[h].settings EXCEPT !.host = ~@] \in Settings
    BY <1>1 DEF Settings
  <2>2. \A dirs \in SUBSET at[h].settings.dirs :
            [at[h].settings EXCEPT !.dirs = dirs] \in Settings
    BY <1>1 DEF Settings
  <2>3. Forms \subseteq Settings
    BY DEF Forms
  <2> QED
    BY <2>1, <2>2, <2>3 DEF SwitchMode, ChangeDirectories, ApplyPreset
<1> QED
  BY <1>2, CommitsStep DEF Withdraws, OnRow, maps, history

LEMMA ReadRowStep ==
  ASSUME ConsentInv, NEW h \in Handler, NEW s \in Session, NEW c \in Conversation,
         ReadRow(h, s, c)
  PROVE  ConsentInv'
<1> DEFINE r == [pc |-> "read", session |-> s, subject |-> c,
                 settings |-> saved[c].settings, revision |-> saved[c].revision,
                 target |-> NoOne, run |-> saved[c].run]
<1>1. saved[c] \in RowState /\ saved[c].state = "stored"
  BY DEF ReadRow, ConsentInv, ConsentTypeOK
<1>2. r \in RequestState /\ saved[c].revision \in Nat
  BY <1>1 DEF RequestState, RowState, ConsentPlace
<1>3. /\ r.pc = "read" /\ r.session = s /\ r.subject = c
      /\ r.settings = saved[c].settings /\ r.revision = saved[c].revision
      /\ at' = [at EXCEPT ![h] = r]
  BY DEF ReadRow
<1> HIDE DEF r
<1>4. Holds(r) /\ Current(r) /\ Given(r) /\ ~FromDraft(r)
  BY <1>1, <1>2, <1>3 DEF Holds, Current, Given, FromDraft, OnRow
<1>5. UNCHANGED <<saved, live, agreed, served, approved, launches>>
  BY DEF ReadRow, maps, history
<1> QED
  BY <1>2, <1>3, <1>4, <1>5, ConsentStep

LEMMA ApproveForRowStep ==
  ASSUME ConsentInv, NEW h \in Handler, ApproveForRow(h)
  PROVE  ConsentInv'
<1>1. PICK target \in Grant \union {Host}, b \in pending :
        /\ b = Binding(at[h].session, at[h].subject, Projected(h, target), target)
        /\ Approve(b)
        /\ \/ Return(h)
           \/ at' = [at EXCEPT ![h].pc = "others", ![h].target = target,
                               ![h].settings = Projected(h, target)]
  BY DEF ApproveForRow, Approve
<1>2. /\ at[h].pc = "read" /\ at[h] \in RequestState /\ Holds(at[h])
      /\ at[h].subject \in Conversation /\ b.subject = at[h].subject
      /\ UNCHANGED <<saved, live, launches, served>>
  BY <1>1 DEF ApproveForRow, ConsentInv, ConsentTypeOK, Holds, OnRow, Binding
<1>3. /\ approved' \subseteq approved \union {b} /\ agreed' = agreed \union {b}
      /\ approved' \subseteq agreed'
  BY <1>1 DEF Approve, ConsentInv, ConsentIsGiven
<1>4. PICK r \in RequestState :
        /\ at' = [at EXCEPT ![h] = r] /\ ~FromDraft(r) /\ ~Relies(r)
        /\ r.pc \in {"away", "others"} /\ r.subject \in {at[h].subject, NoOne}
        /\ OnRow(r) => r.subject = at[h].subject /\ r.revision = at[h].revision
                       /\ r.session = at[h].session
  <2>1. CASE Return(h)
    BY <2>1, AwayHolds DEF Return, Relies, Away
  <2>2. CASE at' = [at EXCEPT ![h].pc = "others", ![h].target = target,
                              ![h].settings = Projected(h, target)]
    <3> DEFINE q == [at[h] EXCEPT !.pc = "others", !.target = target,
                                  !.settings = Projected(h, target)]
    <3>1. Projected(h, target) \in Settings
      BY <1>2 DEF Projected, RequestState, Settings
    <3>2. /\ q \in RequestState /\ q.pc = "others" /\ q.subject = at[h].subject
          /\ q.revision = at[h].revision /\ q.session = at[h].session
      BY <1>2, <3>1 DEF RequestState, ConsentPlace
    <3>3. at' = [at EXCEPT ![h] = q]
      BY <1>2, <2>2, <3>1 DEF ConsentInv, ConsentTypeOK, RequestState
    <3> HIDE DEF q
    <3> QED
      BY <3>2, <3>3 DEF FromDraft, Relies
  <2> QED
    BY <1>1, <2>1, <2>2
<1>5. /\ at'[h] = r
      /\ \A g \in Handler : g # h => at'[g] = at[g]
      /\ at' \in [Handler -> RequestState]
  BY <1>4 DEF ConsentInv, ConsentTypeOK
<1>6. (Holds(at[h]) /\ Current(at[h]) /\ Given(at[h]))'
  BY <1>2, <1>4, <1>5 DEF Holds, Current, Given, OnRow
<1>7. FreshRuns' /\ DraftNeeds'
  BY <1>4, <1>5 DEF ConsentInv, FreshRuns, DraftNeeds, FromDraft
<1>8. RowsGo /\ DraftServesOnce'
  BY <1>2 DEF RowsGo, ConsentInv, DraftServesOnce
<1>9. DraftIsSpent'
  BY <1>2, <1>3 DEF ConsentInv, DraftIsSpent, ConsentAssumption
<1>10. WorkIsStored' /\ WorkIsConsented'
  BY <1>2, <1>3, WorkStays
<1> QED
  BY <1>2, <1>3, <1>5, <1>6, <1>7, <1>8, <1>9, <1>10, Assembled
     DEF ConsentInv, ConsentTypeOK

(* Consent that is forgotten map by map, and requests that wait or end.    *)
LEMMA ForgetSteps ==
  ASSUME ConsentInv, NEW h \in Handler,
         \/ ForgetOthers(h) \/ ForgetRequests(h) \/ ForgetApproved(h)
         \/ ForgetPreviews(h) \/ ForgetLaunches(h) \/ ForgetPending(h)
         \/ StopForSwitch(h) \/ AskForRow(h) \/ Abandon(h) \/ PreviewLaunch(h)
  PROVE  ConsentInv'
<1>1. /\ UNCHANGED <<saved, live, agreed, served>>
      /\ approved' \subseteq approved /\ launches' \subseteq launches
  BY DEF ForgetOthers, ForgetRequests, ForgetApproved, ForgetPreviews, ForgetLaunches,
         ForgetPending, StopForSwitch, AskForRow, Abandon, PreviewLaunch, maps, history
<1>2. OnRow(at[h])
  BY DEF ForgetOthers, ForgetRequests, ForgetApproved, ForgetPreviews, ForgetLaunches,
         ForgetPending, StopForSwitch, AskForRow, Abandon, PreviewLaunch, OnRow
<1>3. Return(h) \/ \E label \in Tidying : Move(h, label)
  BY DEF ForgetOthers, ForgetRequests, ForgetApproved, ForgetPreviews, ForgetLaunches,
         ForgetPending, StopForSwitch, AskForRow, Abandon, PreviewLaunch, Tidying
<1> QED
  BY <1>1, <1>2, <1>3, Returns, Moves

LEMMA StoppedStep ==
  ASSUME ConsentInv, NEW h \in Handler, Stopped(h)
  PROVE  ConsentInv'
<1> DEFINE row == saved[at[h].subject]
           r == [at[h] EXCEPT !.pc = "read", !.revision = row.revision, !.run = NoOne]
<1>1. /\ at[h] \in RequestState /\ at[h].subject \in Conversation
      /\ at[h].session \in Session /\ row \in RowState
      /\ UNCHANGED <<saved, live, agreed, served, approved, launches>>
  BY DEF Stopped, ConsentInv, ConsentTypeOK, Holds, OnRow, maps, history
<1>2. CASE Return(h)
  BY <1>1, <1>2, Returns
<1>3. CASE /\ row.state = "stored" /\ row.settings = at[h].settings
           /\ at' = [at EXCEPT ![h].pc = "read", ![h].revision = row.revision,
                               ![h].run = NoOne]
  <2>1. /\ r \in RequestState /\ r.pc = "read" /\ r.subject = at[h].subject
        /\ r.revision = row.revision /\ r.settings = at[h].settings
        /\ r.session = at[h].session /\ row.revision \in Nat
    BY <1>1 DEF RequestState, RowState, ConsentPlace
  <2>2. at' = [at EXCEPT ![h] = r]
    BY <1>1, <1>3 DEF ConsentInv, ConsentTypeOK, RequestState
  <2> HIDE DEF r
  <2>3. Holds(r) /\ Current(r) /\ Given(r) /\ ~FromDraft(r)
    BY <1>1, <1>3, <2>1 DEF Holds, Current, Given, FromDraft, OnRow
  <2> QED
    BY <1>1, <2>1, <2>2, <2>3, ConsentStep
<1> QED
  BY <1>2, <1>3 DEF Stopped

(* The look at the consent, and the durable start after it.                *)
LEMMA PreflightStep ==
  ASSUME ConsentInv, NEW h \in Handler, Preflight(h)
  PROVE  ConsentInv'
<1> DEFINE r == [at[h] EXCEPT !.pc = "begin"]
<1>1. /\ at[h] \in RequestState /\ at[h].pc = "read" /\ Holds(at[h]) /\ Current(at[h])
      /\ UNCHANGED <<saved, live, agreed, served, approved, launches>>
      /\ at' = [at EXCEPT ![h] = r]
  BY DEF Preflight, Move, ConsentInv, ConsentTypeOK, ReadIsCurrent, maps, history
<1>2. /\ r \in RequestState /\ r.pc = "begin" /\ r.subject = at[h].subject
      /\ r.revision = at[h].revision /\ r.settings = at[h].settings
      /\ r.session = at[h].session
  BY <1>1 DEF RequestState, ConsentPlace
<1> HIDE DEF r
<1>3. Holds(r) /\ Current(r) /\ ~FromDraft(r)
  BY <1>1, <1>2 DEF Holds, Current, FromDraft, OnRow, Relies
<1>4. Given(r)
  BY <1>2 DEF Preflight, Authorised, Given, ConsentInv, ConsentIsGiven
<1> QED
  BY <1>1, <1>2, <1>3, <1>4, ConsentStep

LEMMA BeginWorkStep ==
  ASSUME ConsentInv, NEW h \in Handler, BeginWork(h)
  PROVE  ConsentInv'
<1> DEFINE c == at[h].subject
           s == at[h].session
           row == [saved[c] EXCEPT !.work = s]
<1>1. /\ OnRow(at[h]) /\ c \in Conversation /\ s \in Session /\ saved[c] \in RowState
      /\ Given(at[h]) /\ Current(at[h]) /\ at[h].pc = "begin" /\ Return(h)
      /\ UNCHANGED <<live, approved, launches, agreed, served>>
  BY DEF BeginWork, OnRow, ConsentInv, ConsentTypeOK, Holds, ConsentIsGiven,
         ReadIsCurrent, maps, history
<1>2. CASE UNCHANGED saved
  BY <1>1, <1>2, Returns
<1>3. CASE Unmoved(h) /\ saved' = [saved EXCEPT ![c].work = s]
  <2>1. /\ saved[c].state = "stored" /\ saved[c].run = NoOne
        /\ saved[c].settings = at[h].settings
    BY <1>1, <1>3 DEF Unmoved, Current, Relies, ConsentInv, WorkIsStored
  <2>2. /\ row \in RowState /\ row.state = "stored" /\ row.work = s
        /\ row.run = NoOne /\ row.revision = saved[c].revision
        /\ row.settings = at[h].settings
    BY <1>1, <2>1 DEF RowState
  <2>3. /\ saved' = [saved EXCEPT ![c] = row]
    BY <1>1, <1>3
  <2> HIDE DEF row
  <2>4. /\ saved'[c] = row /\ saved[c].revision \in Nat
        /\ \A d \in Conversation : d # c => saved'[d] = saved[d]
    BY <1>1, <2>3 DEF ConsentInv, ConsentTypeOK, RowState
  <2>5. RowGoes(c)
    BY <2>1, <2>2, <2>4 DEF RowGoes
  <2>6. WorkIsStored'
    BY <2>2, <2>4 DEF ConsentInv, WorkIsStored
  <2>7. WorkIsConsented'
    BY <1>1, <2>2, <2>4 DEF ConsentInv, WorkIsConsented, Given
  <2> QED
    BY <1>1, <2>2, <2>3, <2>5, <2>6, <2>7, RowMoves
<1> QED
  BY <1>2, <1>3 DEF BeginWork

LEMMA ApproveLaunchStep ==
  ASSUME ConsentInv, NEW h \in Handler, ApproveLaunch(h)
  PROVE  ConsentInv'
<1> DEFINE p == Launch(at[h].session, at[h].subject, at[h].settings)
<1>1. PICK run \in RunId :
        /\ launches' = launches \union {[run |-> run, binding |-> p]}
        /\ agreed' = agreed \union {p}
        /\ at' = [at EXCEPT ![h].pc = "launch", ![h].run = run]
  BY DEF ApproveLaunch
<1>2. /\ at[h].pc = "read" /\ at[h] \in RequestState /\ Holds(at[h]) /\ Current(at[h])
      /\ UNCHANGED <<saved, live, approved, served>>
  BY DEF ApproveLaunch, ConsentInv, ConsentTypeOK, ReadIsCurrent
<1> DEFINE r == [at[h] EXCEPT !.pc = "launch", !.run = run]
<1>3. /\ r \in RequestState /\ r.pc = "launch" /\ r.subject = at[h].subject
      /\ r.revision = at[h].revision /\ r.settings = at[h].settings
      /\ r.session = at[h].session /\ r.run = run
  BY <1>2 DEF RequestState, ConsentPlace
<1>4. at' = [at EXCEPT ![h] = r]
  BY <1>1, <1>2 DEF ConsentInv, ConsentTypeOK, RequestState
<1> HIDE DEF r
<1>5. /\ at'[h] = r
      /\ \A g \in Handler : g # h => at'[g] = at[g]
      /\ at' \in [Handler -> RequestState]
  BY <1>3, <1>4 DEF ConsentInv, ConsentTypeOK
<1>6. (Holds(at[h]) /\ Current(at[h]) /\ Given(at[h]))'
  BY <1>1, <1>2, <1>3, <1>5 DEF Holds, Current, Given, OnRow, Relies, FromDraft
<1>7. FreshRuns' /\ DraftNeeds'
  BY <1>3, <1>5 DEF ConsentInv, FreshRuns, DraftNeeds, FromDraft
<1>8. RowsGo /\ DraftServesOnce' /\ DraftIsSpent'
  BY <1>2 DEF RowsGo, ConsentInv, DraftServesOnce, DraftIsSpent
<1>9. WorkIsStored' /\ WorkIsConsented'
  BY <1>1, <1>2, WorkStays
<1>10. \A l \in launches' : l.run \in RunId
  BY <1>1 DEF ConsentInv, ConsentTypeOK
<1> QED
  BY <1>1, <1>2, <1>5, <1>6, <1>7, <1>8, <1>9, <1>10, Assembled
     DEF ConsentInv, ConsentTypeOK, ConsentIsGiven

LEMMA StartRunStep ==
  ASSUME ConsentInv, NEW h \in Handler, StartRun(h)
  PROVE  ConsentInv'
<1> DEFINE c == at[h].subject
           s == at[h].session
           row == [saved[c] EXCEPT !.work = s, !.run = at[h].run]
<1>1. /\ OnRow(at[h]) /\ c \in Conversation /\ s \in Session /\ saved[c] \in RowState
      /\ at[h].run \in RunId
      /\ Given(at[h]) /\ Current(at[h]) /\ at[h].pc = "launch" /\ Return(h)
      /\ UNCHANGED <<live, approved, launches, agreed, served>>
  BY DEF StartRun, OnRow, ConsentInv, ConsentTypeOK, Holds, ConsentIsGiven,
         ReadIsCurrent, maps, history
<1>2. CASE UNCHANGED saved
  BY <1>1, <1>2, Returns
<1>3. CASE Unmoved(h) /\ saved' = [saved EXCEPT ![c].work = s, ![c].run = at[h].run]
  <2>1. /\ saved[c].state = "stored" /\ saved[c].settings = at[h].settings
    BY <1>1, <1>3 DEF Unmoved, Current, Relies
  <2>2. /\ row \in RowState /\ row.state = "stored" /\ row.work = s
        /\ row.run = at[h].run /\ row.revision = saved[c].revision
        /\ row.settings = at[h].settings
    BY <1>1, <2>1 DEF RowState
  <2>3. saved' = [saved EXCEPT ![c] = row]
    BY <1>1, <1>3 DEF ConsentInv, ConsentTypeOK, RowState
  <2> HIDE DEF row
  <2>4. /\ saved'[c] = row /\ saved[c].revision \in Nat
        /\ \A d \in Conversation : d # c => saved'[d] = saved[d]
    BY <1>1, <2>3 DEF ConsentInv, ConsentTypeOK, RowState
  <2>5. RowGoes(c)
    BY <2>1, <2>2, <2>4 DEF RowGoes
  <2>6. s # NoOne /\ at[h].run # NoOne
    BY <1>1 DEF ConsentAssumption
  <2>7. WorkIsStored'
    BY <2>2, <2>4, <2>6 DEF ConsentInv, WorkIsStored
  <2>8. WorkIsConsented'
    BY <1>1, <2>2, <2>4, <2>6 DEF ConsentInv, WorkIsConsented, Given
  <2> QED
    BY <1>1, <2>2, <2>3, <2>5, <2>7, <2>8, RowMoves
<1> QED
  BY <1>2, <1>3 DEF StartRun

LEMMA EndRowWorkStep ==
  ASSUME ConsentInv, NEW c \in Conversation, EndRowWork(c)
  PROVE  ConsentInv'
<1> DEFINE row == [saved[c] EXCEPT !.work = NoOne, !.run = NoOne]
<1>1. /\ saved[c] \in RowState /\ saved[c].state = "stored"
      /\ UNCHANGED <<at, live, approved, launches, agreed, served>>
      /\ saved' = [saved EXCEPT ![c] = row]
  BY DEF EndRowWork, ConsentInv, ConsentTypeOK, WorkIsStored, maps, history, RowState
<1>2. /\ row \in RowState /\ row.state = "stored" /\ row.work = NoOne
      /\ row.run = NoOne /\ row.revision = saved[c].revision
      /\ row.settings = saved[c].settings
  BY <1>1 DEF RowState
<1> HIDE DEF row
<1>3. /\ saved'[c] = row /\ saved[c].revision \in Nat
      /\ \A d \in Conversation : d # c => saved'[d] = saved[d]
      /\ saved' \in [Conversation -> RowState]
  BY <1>1, <1>2 DEF ConsentInv, ConsentTypeOK, RowState
<1>4. RowsGo
  BY <1>1, <1>2, <1>3 DEF RowsGo, RowGoes
<1>5. \A g \in Handler : FromDraft(at[g]) => saved'[at[g].run] = saved[at[g].run]
  BY <1>1, <1>3 DEF ConsentInv, ConsentTypeOK, Holds
<1>6. WorkIsStored' /\ WorkIsConsented'
  BY <1>1, <1>2, <1>3, WorkStays
<1>7. FreshRuns' /\ DraftNeeds' /\ DraftServesOnce' /\ DraftIsSpent'
  BY <1>1 DEF ConsentInv, FreshRuns, DraftNeeds, DraftServesOnce, DraftIsSpent
<1> QED
  BY <1>1, <1>3, <1>4, <1>5, <1>6, <1>7, Assembled
     DEF ConsentInv, ConsentTypeOK, ConsentIsGiven

-----------------------------------------------------------------------------
LEMMA ConsentInitial == ConsentInit => ConsentInv
<1> SUFFICES ASSUME ConsentInit PROVE ConsentInv
  OBVIOUS
<1>1. /\ NewRow \in RowState /\ NewRow.revision = 0 /\ NewRow.work = NoOne
      /\ NewRow.run = NoOne
  BY DEF NewRow, RowState, Untouched, Settings
<1>2. /\ \A c \in Conversation : saved[c] = NewRow
      /\ \A h \in Handler : at[h] = Away
  BY DEF ConsentInit
<1>3. ConsentTypeOK
  BY <1>1, <1>2, AwayHolds DEF ConsentInit, ConsentTypeOK
<1>4. FreshRuns /\ ReadIsCurrent /\ DraftNeeds /\ ConsentIsGiven
  BY <1>2, AwayHolds DEF ConsentInit, FreshRuns, ReadIsCurrent, DraftNeeds, ConsentIsGiven
<1>5. WorkIsStored /\ WorkIsConsented
  BY <1>1, <1>2 DEF WorkIsStored, WorkIsConsented
<1>6. DraftIsSpent /\ DraftServesOnce
  BY DEF ConsentInit, DraftIsSpent, DraftServesOnce
<1> QED
  BY <1>3, <1>4, <1>5, <1>6 DEF ConsentInv

LEMMA EveryConsentStep ==
  ASSUME ConsentInv, [ConsentNext]_consentVars
  PROVE  ConsentInv'
<1>1. CASE UNCHANGED consentVars
  BY <1>1, MapStep DEF consentVars, ConsentInv, ConsentTypeOK
<1>2. ASSUME \/ Purge
             \/ \E s \in Session :
                    CancelRequest(s) \/ ExpireSession(s) \/ RestoreLifetime(s)
      PROVE  ConsentInv'
  BY <1>2, SessionSteps
<1>3. ASSUME NEW s \in Session, NEW d \in Draft, AskForDraft(s, d) \/ ApproveForDraft(s, d)
      PROVE  ConsentInv'
  BY <1>3, DraftSteps
<1>4. ASSUME NEW h \in Handler, NEW s \in Session,
             \/ \E d \in Draft : OpenDraft(h, s, d)
             \/ \E c \in Conversation : ReadRow(h, s, c)
      PROVE  ConsentInv'
  BY <1>4, OpenDraftStep, ReadRowStep
<1>5. ASSUME NEW h \in Handler,
             \/ ConsumeDraft(h) \/ StoreDraft(h) \/ FailFirstMessage(h)
             \/ ApproveForRow(h) \/ CommitDirectory(h)
             \/ SwitchMode(h) \/ ChangeDirectories(h) \/ ApplyPreset(h)
      PROVE  ConsentInv'
  BY <1>5, ConsumeDraftStep, StoreDraftStep, FailFirstMessageStep, ApproveForRowStep,
     CommitDirectoryStep, WithdrawsStep
<1>6. ASSUME NEW h \in Handler,
             \/ ForgetOthers(h) \/ ForgetRequests(h) \/ ForgetApproved(h)
             \/ ForgetPreviews(h) \/ ForgetLaunches(h) \/ ForgetPending(h)
             \/ StopForSwitch(h) \/ AskForRow(h) \/ Abandon(h) \/ PreviewLaunch(h)
      PROVE  ConsentInv'
  BY <1>6, ForgetSteps
<1>7. ASSUME NEW h \in Handler,
             \/ Stopped(h) \/ Preflight(h) \/ BeginWork(h)
             \/ ApproveLaunch(h) \/ StartRun(h)
      PROVE  ConsentInv'
  BY <1>7, StoppedStep, PreflightStep, BeginWorkStep, ApproveLaunchStep, StartRunStep
<1>8. ASSUME NEW c \in Conversation, EndRowWork(c) PROVE ConsentInv'
  BY <1>8, EndRowWorkStep
<1> QED
  BY <1>1, <1>2, <1>3, <1>4, <1>5, <1>6, <1>7, <1>8 DEF ConsentNext

(* Work runs only on what its session agreed to and a draft's consent      *)
(* serves one conversation, however many tabs, sessions and conversations  *)
(* there are (execution/consent.rs; preflight_execution; create).          *)
THEOREM ConsentIsKept == ConsentSpec => []ConsentIsHonoured
<1>1. ConsentInv /\ [ConsentNext]_consentVars => ConsentInv'
  BY EveryConsentStep
<1>2. ConsentInv => ConsentIsHonoured
  BY DEF ConsentInv, ConsentIsHonoured
<1> QED
  BY ConsentInitial, <1>1, <1>2, PTL DEF ConsentSpec
=============================================================================
