------------------------------ MODULE Sessions ------------------------------
(***************************************************************************)
(* Browser sessions as the server runs them: the middleware that resolves  *)
(* a cookie (app/src/sessions.rs: existing_or_restore), the task that      *)
(* purges expired sessions every minute (purge_expired_sessions), and the  *)
(* registry that holds workflow jobs while a human gate is open            *)
(* (app/src/workflows/executor.rs: WorkflowContinuationRegistry).          *)
(*                                                                         *)
(* The middleware and the purge make several calls to the store and to the *)
(* registry, each atomic under its own lock and none of them atomic        *)
(* together: a request, the purge and a gate handler interleave between    *)
(* any two calls.                                                          *)
(***************************************************************************)
EXTENDS SessionStore

CONSTANT Request    \* requests that resolve a cookie at the same time

VARIABLES
    providers,      \* vault.has_providers()
    request,        \* where each request stands in existing_or_restore
    purge,          \* the purge loop: sessions still to drop, and its place
    continuations,  \* WorkflowContinuationRegistry: parked workflow jobs
    handling,       \* workflow jobs waiting at a gate in somebody's hands:
                    \* the worker that parks them or a handler that took them
    checked         \* of these, the ones whose handler passed its checks

procVars == <<providers, request, purge, continuations, handling, checked>>
allVars == <<storeVars, procVars>>

Idle == [pc |-> "idle", session |-> NoId]
Place == [pc : {"retain", "interrupt", "remove", "insert", "interruptAll",
                "removeAny"}, session : SessionId]
NoPurge == [todo |-> {}, pc |-> "sleep", session |-> NoId]

SessionsInit ==
    /\ Init
    /\ providers = TRUE
    /\ request = [r \in Request |-> Idle]
    /\ purge = NoPurge
    /\ continuations = {}
    /\ handling = {}
    /\ checked = {}

-----------------------------------------------------------------------------
(* interrupt_session_continuations: the session's parked jobs leave the    *)
(* registry together; each is settled in turn (released, then finished)    *)
(* after its run is persisted as interrupted.  A run that cannot be        *)
(* persisted goes back with the rest, and the call fails.                  *)
Parked(id) == {j \in continuations : owner[j].session = id}

SettleWithoutTaking(done, outcome) ==     \* a mutated SettleJobs
    /\ UNCHANGED continuations
    /\ status' = [j \in JobId |-> IF j \in done /\ status[j] \notin Terminal
                                  THEN outcome ELSE status[j]]
    /\ released' = released \union done
    /\ UNCHANGED <<sessions, commands, conversation_jobs, cancel, owner,
                   reservations>>

SettleJobs(done, outcome) ==
    /\ continuations' = continuations \ done
    /\ status' = [j \in JobId |-> IF j \in done /\ status[j] \notin Terminal
                                  THEN outcome ELSE status[j]]
    /\ conversation_jobs' =
          [c \in ConversationId |->
              IF \E j \in done : conversation_jobs[c] =
                                    [job |-> j, session |-> owner[j].session]
              THEN NoEntry ELSE conversation_jobs[c]]
    /\ released' = released \union done
    /\ UNCHANGED <<sessions, commands, cancel, owner, reservations>>

InterruptOk(id) == SettleJobs(Parked(id), "Cancelled")

InterruptFails(id) ==
    /\ Parked(id) # {}
    /\ \E done \in SUBSET Parked(id) :
          done # Parked(id) /\ SettleJobs(done, "Cancelled")

-----------------------------------------------------------------------------
At(r, pc) == request[r].pc = pc
Goto(r, pc) == request' = [request EXCEPT ![r].pc = pc]
Leave(r) == request' = [request EXCEPT ![r] = Idle]

(* issue_session: a fresh cookie, so a session nobody ever used.           *)
IssueSession(id) ==
    /\ providers
    /\ sessions[id] = "absent"
    /\ \A r \in Request : request[r].session # id
    /\ \A j \in Begun : owner[j].session # id
    /\ Insert(id)
    /\ UNCHANGED procVars

(* contains_live fails for the presented cookie.  The consents, approvals  *)
(* and questions of dead sessions are dropped next (Approvals.tla).        *)
ResolveCookie(r, id) ==
    /\ At(r, "idle")
    /\ providers => ~Live(id)
    /\ request' = [request EXCEPT ![r] =
          [pc |-> IF providers THEN "retain" ELSE "interruptAll",
           session |-> id]]
    /\ UNCHANGED <<storeVars, providers, purge, continuations, handling, checked>>

CheckExpired(r) ==
    /\ At(r, "retain")
    /\ Goto(r, IF sessions[request[r].session] = "expired"
               THEN "interrupt" ELSE "insert")
    /\ UNCHANGED <<storeVars, providers, purge, continuations, handling, checked>>

(* The cookie resolves as invalid when a gate cannot be persisted.         *)
InterruptGates(r) ==
    /\ request[r].pc \in {"interrupt", "interruptAll"}
    /\ \/ /\ InterruptOk(request[r].session)
          /\ Goto(r, IF At(r, "interrupt") THEN "remove" ELSE "removeAny")
       \/ /\ InterruptFails(request[r].session)
          /\ Leave(r)
    /\ UNCHANGED <<providers, purge, handling, checked>>

(* Without a stored provider the session goes and the cookie is invalid.   *)
RemoveSession(r) ==
    /\ request[r].pc \in {"remove", "removeAny"}
    /\ Remove(request[r].session)
    /\ IF At(r, "remove") THEN Goto(r, "insert") ELSE Leave(r)
    /\ UNCHANGED <<providers, purge, continuations, handling, checked>>

RestoreSession(r) ==
    /\ At(r, "insert")
    /\ Insert(request[r].session)
    /\ Leave(r)
    /\ UNCHANGED <<providers, purge, continuations, handling, checked>>

(* connect.rs: a provider is stored, or the last one is forgotten.         *)
ChangeProviders ==
    /\ providers' = ~providers
    /\ UNCHANGED <<storeVars, request, purge, continuations, handling, checked>>

-----------------------------------------------------------------------------
(* One tick of the purge loop lists the expired sessions, then drops them  *)
(* one by one; a gate that cannot be persisted keeps its session.          *)
PurgeTick ==
    /\ purge = NoPurge
    /\ \E id \in SessionId : sessions[id] = "expired"
    /\ purge' = [NoPurge EXCEPT
                    !.todo = {id \in SessionId : sessions[id] = "expired"},
                    !.pc = "next"]
    /\ UNCHANGED <<storeVars, providers, request, continuations, handling, checked>>

PurgeInterrupt(id) ==
    /\ purge.pc = "next"
    /\ id \in purge.todo
    /\ LET rest == purge.todo \ {id}
       IN \/ /\ InterruptOk(id)
             /\ purge' = [todo |-> rest, pc |-> "remove", session |-> id]
          \/ /\ InterruptFails(id)
             /\ purge' = IF rest = {} THEN NoPurge
                         ELSE [purge EXCEPT !.todo = rest]
    /\ UNCHANGED <<providers, request, handling, checked>>

PurgeRemove ==
    /\ purge.pc = "remove"
    /\ Remove(purge.session)
    /\ purge' = IF purge.todo = {} THEN NoPurge
                ELSE [purge EXCEPT !.pc = "next", !.session = NoId]
    /\ UNCHANGED <<providers, request, continuations, handling, checked>>

-----------------------------------------------------------------------------
(* A workflow job opens a gate: its status changes first, and only then is *)
(* it put in the registry (executor.rs: drive_attempts).                   *)
OpenGate(j) ==
    /\ status[j] = "Running"
    /\ j \notin released \union handling
    /\ SetAwaiting(j, "AwaitingDecision")
    /\ handling' = handling \union {j}
    /\ UNCHANGED <<providers, request, purge, continuations, checked>>

(* Park by the worker, put_back by a handler, before or after its checks.  *)
ParkGate(j) ==
    /\ j \in handling
    /\ handling' = handling \ {j}
    /\ checked' = checked \ {j}
    /\ continuations' = continuations \union {j}
    /\ UNCHANGED <<storeVars, providers, request, purge>>

(* A decision takes the job out.                                           *)
TakeGate(j) ==
    /\ j \in continuations
    /\ continuations' = continuations \ {j}
    /\ handling' = handling \union {j}
    /\ UNCHANGED <<storeVars, providers, request, purge, checked>>

(* The handler goes on only for the live session that owns the job.  The   *)
(* session may go between this check and the decision.                     *)
CheckGate(j) ==
    /\ j \in handling \ checked
    /\ OwnsConversationJob(owner[j].session, owner[j].conversation, j)
    /\ checked' = checked \union {j}
    /\ UNCHANGED <<storeVars, providers, request, purge, continuations, handling>>

Decided(j) ==
    /\ j \in checked
    /\ checked' = checked \ {j}
    /\ handling' = handling \ {j}

ApproveGate(j) ==
    /\ Decided(j)
    /\ Resume(j)
    /\ UNCHANGED <<providers, request, purge, continuations>>

(* The gate is cancelled, its run is interrupted because it lost its       *)
(* authority, or the decision was the last thing the run waited for.       *)
SettleGate(j) ==
    /\ Decided(j)
    /\ \E outcome \in Terminal : SettleJobs({j}, outcome)
    /\ UNCHANGED <<providers, request, purge>>

(* The task of a running job waits for an approval or an answer and goes   *)
(* on, and ends: an ordinary task finishes the job and then releases it, a *)
(* workflow settles in the other order, and a task whose settlement fails  *)
(* finishes without a release.  Callers ignore what a release returns, so  *)
(* it may be repeated.                                                     *)
TaskStep(j) ==
    /\ j \in Begun
    /\ j \notin handling \union continuations
    /\ \/ FinishConversationJob(j)
       \/ \E waiting \in Awaiting : SetAwaiting(j, waiting)
       \/ Resume(j)
       \/ \E outcome \in Terminal : Finish(j, outcome)
    /\ UNCHANGED procVars

StopJob(j) == RequestCancel(j) /\ UNCHANGED procVars

HandlerStep ==
    /\ \/ \E id \in SessionId, c \in ConversationId, t \in JobId :
             ReserveCommand(id, c, t) \/ BeginConversationJob(id, c, t)
       \/ \E r \in reservations : DropReservation(r)
       \/ \E id \in SessionId : Expire(id)
    /\ UNCHANGED procVars

PurgeStep == PurgeTick \/ PurgeRemove \/ \E id \in SessionId : PurgeInterrupt(id)

RequestStep(r) ==
    \/ \E id \in SessionId : ResolveCookie(r, id)
    \/ CheckExpired(r) \/ InterruptGates(r) \/ RemoveSession(r)
    \/ RestoreSession(r)

GateStep(j) ==
    \/ OpenGate(j) \/ ParkGate(j) \/ TakeGate(j) \/ CheckGate(j)
    \/ ApproveGate(j) \/ SettleGate(j)

SessionsNext ==
    \/ \E id \in SessionId : IssueSession(id)
    \/ HandlerStep
    \/ ChangeProviders
    \/ PurgeStep
    \/ \E r \in Request : RequestStep(r)
    \/ \E j \in JobId : GateStep(j) \/ TaskStep(j) \/ StopJob(j)

SessionsSpec == SessionsInit /\ [][SessionsNext]_allVars

-----------------------------------------------------------------------------
(* A job waiting at a gate is in one place, and a settled one is in none:  *)
(* two decisions, or a decision and an expiry, never act on one gate       *)
(* (executor.rs: take and take_session both remove).                       *)
GateHasOneHolder ==
    /\ continuations \intersect handling = {}
    /\ \A j \in continuations \union handling :
          /\ status[j] = "AwaitingDecision"
          /\ j \notin released

(* sessions.rs:206 "Drop expired sessions so API keys leave memory without *)
(* a later request", and the test live_sessions_survive_purge: the purge   *)
(* removes only sessions that are expired when it removes them.            *)
PurgeDropsOnlyExpired ==
    [][purge.pc = "remove" /\ purge'.pc # "remove"
          => sessions[purge.session] # "live"]_allVars
=============================================================================
