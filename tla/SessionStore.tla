---------------------------- MODULE SessionStore ----------------------------
(***************************************************************************)
(* The in-memory session store (app/src/sessions/store.rs) with the status *)
(* half of a job (app/src/sessions/job.rs).                                *)
(*                                                                         *)
(* A browser session can reserve a conversation in two ways.  A request    *)
(* handler takes a CommandReservation (a handoff or a deletion), which     *)
(* lives in the session's `commands` map until the Rust value is dropped.  *)
(* An operation registers a Job in `conversation_jobs` until its task      *)
(* calls finish_conversation_job.  Every operation below runs under the    *)
(* `sessions` mutex (and `conversation_jobs` inside it), so it is one      *)
(* step; what interleaves are the calls of different handlers and tasks.   *)
(*                                                                         *)
(* Callers are left free here: any handler may insert, remove or expire a  *)
(* session at any time.  Sessions.tla gives them the middleware's order.   *)
(***************************************************************************)
EXTENDS FiniteSets

CONSTANTS
    SessionId,      \* digests of browser cookies
    ConversationId, \* saved conversations
    JobId,          \* 128-bit random identifiers: never drawn twice
    NoId            \* absence of a job or a token

ASSUME NoIdAssumption == NoId \notin JobId

VARIABLES
    sessions,          \* StoredSession.expires_at seen from the clock
    commands,          \* StoredSession.commands of every session
    conversation_jobs, \* the job registered for each conversation
    status,            \* Job.inner.status, of the identifiers drawn as jobs
    cancel,            \* Job.cancel
    owner,             \* session and conversation a job was begun for
    released,          \* jobs for which finish_conversation_job was called
    reservations       \* CommandReservation values alive in handlers

storeVars == <<sessions, commands, conversation_jobs, status, cancel, owner,
               released, reservations>>

NoEntry == [job |-> NoId, session |-> NoId]
Awaiting == {"AwaitingDecision", "AwaitingQuestion"}
Terminal == {"Completed", "Failed", "Cancelled"}
JobStatus == {"Running"} \union Awaiting \union Terminal

Entry == [job : JobId, session : SessionId]
Owner == [session : SessionId, conversation : ConversationId]

(* `over` is a history field: the entry the reservation was granted over.  *)
Reservation == [session : SessionId, conversation : ConversationId,
                token : JobId, over : Entry \union {NoEntry}]

(***************************************************************************)
(* Helpers of store.rs.                                                    *)
(***************************************************************************)
Live(id) == sessions[id] = "live"

(* A reservation blocks a conversation only while its session is live.     *)
CommandHeld(c) == \E s \in SessionId : Live(s) /\ commands[s][c] # NoId

OwnsConversationJob(id, c, j) ==
    /\ Live(id)
    /\ conversation_jobs[c] = [job |-> j, session |-> id]

Begun == {j \in JobId : status[j] \in JobStatus}
Fresh == {j \in JobId : status[j] = "Unused"}

-----------------------------------------------------------------------------
Init ==
    /\ sessions = [s \in SessionId |-> "absent"]
    /\ commands = [s \in SessionId |-> [c \in ConversationId |-> NoId]]
    /\ conversation_jobs = [c \in ConversationId |-> NoEntry]
    /\ status = [j \in JobId |-> "Unused"]
    /\ cancel = [j \in JobId |-> FALSE]
    /\ owner = [j \in JobId |-> NoId]
    /\ released = {}
    /\ reservations = {}

-----------------------------------------------------------------------------
(* Mutated operations, each a slip the code guards against.  Nothing below *)
(* uses them: they stand in for the operation of the same shape to show    *)
(* that the properties at the end can fail.                                *)
RemoveWithoutCancel(id) ==
    /\ sessions' = [sessions EXCEPT ![id] = "absent"]
    /\ commands' = [commands EXCEPT ![id] = [c \in ConversationId |-> NoId]]
    /\ UNCHANGED <<conversation_jobs, status, cancel, owner, released,
                   reservations>>

DropWithoutTokenCheck(r) ==
    /\ r \in reservations
    /\ reservations' = reservations \ {r}
    /\ commands' = [commands EXCEPT ![r.session][r.conversation] = NoId]
    /\ UNCHANGED <<sessions, conversation_jobs, status, cancel, owner,
                   released>>

DropOnlyWhileLive(r) ==
    /\ r \in reservations
    /\ reservations' = reservations \ {r}
    /\ commands' =
          IF Live(r.session) /\ commands[r.session][r.conversation] = r.token
          THEN [commands EXCEPT ![r.session][r.conversation] = NoId]
          ELSE commands
    /\ UNCHANGED <<sessions, conversation_jobs, status, cancel, owner,
                   released>>

BeginIgnoringCommands(id, c, j) ==
    /\ j \in Fresh
    /\ Live(id)
    /\ conversation_jobs[c] = NoEntry
    /\ conversation_jobs' =
          [conversation_jobs EXCEPT ![c] = [job |-> j, session |-> id]]
    /\ status' = [status EXCEPT ![j] = "Running"]
    /\ owner' = [owner EXCEPT ![j] = [session |-> id, conversation |-> c]]
    /\ UNCHANGED <<sessions, commands, cancel, released, reservations>>

ReleaseWhateverIsRegistered(j) ==
    /\ j \in Begun
    /\ conversation_jobs' =
          [conversation_jobs EXCEPT ![owner[j].conversation] = NoEntry]
    /\ released' = released \union {j}
    /\ UNCHANGED <<sessions, commands, status, cancel, owner, reservations>>

-----------------------------------------------------------------------------
(* A new StoredSession replaces the old one: its commands are empty.       *)
Insert(id) ==
    /\ sessions' = [sessions EXCEPT ![id] = "live"]
    /\ commands' = [commands EXCEPT ![id] = [c \in ConversationId |-> NoId]]
    /\ UNCHANGED <<conversation_jobs, status, cancel, owner, released,
                   reservations>>

(* The clock passes expires_at.                                            *)
Expire(id) ==
    /\ sessions[id] = "live"
    /\ sessions' = [sessions EXCEPT ![id] = "expired"]
    /\ UNCHANGED <<commands, conversation_jobs, status, cancel, owner,
                   released, reservations>>

(* Removal drops the session and asks its registered jobs to stop.  Their  *)
(* entries stay until the tasks release them.                              *)
Remove(id) ==
    /\ sessions' = [sessions EXCEPT ![id] = "absent"]
    /\ commands' = [commands EXCEPT ![id] = [c \in ConversationId |-> NoId]]
    /\ cancel' = [j \in JobId |->
                    \/ cancel[j]
                    \/ \E c \in ConversationId :
                          conversation_jobs[c] = [job |-> j, session |-> id]]
    /\ UNCHANGED <<conversation_jobs, status, owner, released, reservations>>

(* A handoff may use a conversation whose job waits for a decision.        *)
ReserveCommand(id, c, token) ==
    /\ token \in Fresh
    /\ Live(id)
    /\ ~CommandHeld(c)
    /\ conversation_jobs[c] # NoEntry =>
          status[conversation_jobs[c].job] = "AwaitingDecision"
    /\ commands' = [commands EXCEPT ![id][c] = token]
    /\ status' = [status EXCEPT ![token] = "Token"]
    /\ reservations' = reservations \union
            {[session |-> id, conversation |-> c, token |-> token,
              over |-> conversation_jobs[c]]}
    /\ UNCHANGED <<sessions, conversation_jobs, cancel, owner, released>>

(* Drop frees the conversation only while the session still holds the      *)
(* token of this reservation.                                              *)
DropReservation(r) ==
    /\ r \in reservations
    /\ reservations' = reservations \ {r}
    /\ commands' =
          IF commands[r.session][r.conversation] = r.token
          THEN [commands EXCEPT ![r.session][r.conversation] = NoId]
          ELSE commands
    /\ UNCHANGED <<sessions, conversation_jobs, status, cancel, owner,
                   released>>

BeginConversationJob(id, c, j) ==
    /\ j \in Fresh
    /\ Live(id)
    /\ conversation_jobs[c] = NoEntry
    /\ ~CommandHeld(c)
    /\ conversation_jobs' =
          [conversation_jobs EXCEPT ![c] = [job |-> j, session |-> id]]
    /\ status' = [status EXCEPT ![j] = "Running"]
    /\ owner' = [owner EXCEPT ![j] = [session |-> id, conversation |-> c]]
    /\ UNCHANGED <<sessions, commands, cancel, released, reservations>>

(* A task may release more than once: after a settlement another path may  *)
(* settle the same job.  Only a matching entry is removed.                 *)
FinishConversationJob(j) ==
    /\ j \in Begun
    /\ LET c == owner[j].conversation
           entry == [job |-> j, session |-> owner[j].session]
       IN conversation_jobs' =
             IF conversation_jobs[c] = entry
             THEN [conversation_jobs EXCEPT ![c] = NoEntry]
             ELSE conversation_jobs
    /\ released' = released \union {j}
    /\ UNCHANGED <<sessions, commands, status, cancel, owner, reservations>>

(***************************************************************************)
(* The status of a job.  A job is shared by its task, the handlers that    *)
(* stop it or answer it, and the observers, and outlives its registration. *)
(***************************************************************************)
statusOnly == <<sessions, commands, conversation_jobs, owner, released,
                reservations>>

SetAwaiting(j, waiting) ==
    /\ status[j] = "Running"
    /\ status' = [status EXCEPT ![j] = waiting]
    /\ UNCHANGED cancel
    /\ UNCHANGED statusOnly

Resume(j) ==
    /\ status[j] \in Awaiting
    /\ status' = [status EXCEPT ![j] = "Running"]
    /\ UNCHANGED cancel
    /\ UNCHANGED statusOnly

Finish(j, outcome) ==
    /\ status[j] \in {"Running"} \union Awaiting
    /\ status' = [status EXCEPT ![j] = outcome]
    /\ UNCHANGED cancel
    /\ UNCHANGED statusOnly

RequestCancel(j) ==
    /\ j \in Begun
    /\ cancel' = [cancel EXCEPT ![j] = TRUE]
    /\ UNCHANGED status
    /\ UNCHANGED statusOnly

SessionStep(id) == Insert(id) \/ Expire(id) \/ Remove(id)

JobStep(j) ==
    \/ FinishConversationJob(j)
    \/ \E waiting \in Awaiting : SetAwaiting(j, waiting)
    \/ Resume(j)
    \/ \E outcome \in Terminal : Finish(j, outcome)
    \/ RequestCancel(j)

Next ==
    \/ \E id \in SessionId : SessionStep(id)
    \/ \E id \in SessionId, c \in ConversationId, t \in JobId :
          ReserveCommand(id, c, t) \/ BeginConversationJob(id, c, t)
    \/ \E r \in reservations : DropReservation(r)
    \/ \E j \in JobId : JobStep(j)

Spec == Init /\ [][Next]_storeVars

-----------------------------------------------------------------------------
TypeOK ==
    /\ sessions \in [SessionId -> {"absent", "live", "expired"}]
    /\ commands \in [SessionId -> [ConversationId -> JobId \union {NoId}]]
    /\ conversation_jobs \in [ConversationId -> Entry \union {NoEntry}]
    /\ status \in [JobId -> JobStatus \union {"Unused", "Token"}]
    /\ cancel \in [JobId -> BOOLEAN]
    /\ owner \in [JobId -> Owner \union {NoId}]
    /\ released \subseteq JobId
    /\ reservations \subseteq Reservation

(* The reservation still holds its conversation: its session is live and   *)
(* was not replaced since.                                                 *)
Effective(r) ==
    /\ Live(r.session)
    /\ commands[r.session][r.conversation] = r.token

(* A job that was begun and not yet released is the one registered for its *)
(* conversation, so a conversation never has two of them: a repeated or    *)
(* late finish_conversation_job of an earlier job frees nothing.           *)
UnreleasedJobIsRegistered ==
    \A j \in Begun \ released :
        conversation_jobs[owner[j].conversation] =
            [job |-> j, session |-> owner[j].session]

(* The converse: an entry stands for a job that still owes its release.    *)
(* Nothing keeps a conversation busy for a job that is gone.               *)
EntryAwaitsRelease ==
    \A c \in ConversationId :
        conversation_jobs[c] # NoEntry =>
            LET j == conversation_jobs[c].job
            IN /\ j \in Begun \ released
               /\ owner[j] = [session |-> conversation_jobs[c].session,
                              conversation |-> c]

(* At most one effective reservation per conversation, over all sessions.  *)
ReservationIsExclusive ==
    \A r1, r2 \in reservations :
        /\ Effective(r1)
        /\ Effective(r2)
        /\ r1.conversation = r2.conversation
        => r1 = r2

(* While a reservation is effective no operation starts on its             *)
(* conversation: the registered job is the one it was granted over, or     *)
(* that one has ended (store.rs: begin_conversation_job, command_held).    *)
NoJobStartsUnderReservation ==
    \A r \in reservations :
        Effective(r) => conversation_jobs[r.conversation] \in {r.over, NoEntry}

(* A token in a session's commands belongs to a reservation some handler   *)
(* still holds: a dropped reservation never blocks its conversation, and   *)
(* a drop after the session was replaced never frees somebody else's.      *)
TokenIsHeld ==
    \A s \in SessionId, c \in ConversationId :
        commands[s][c] # NoId =>
            \E r \in reservations :
                /\ r.session = s
                /\ r.conversation = c
                /\ r.token = commands[s][c]

(* One operation per conversation: what is registered is exactly what is   *)
(* under way.                                                              *)
OneOperationPerConversation == UnreleasedJobIsRegistered /\ EntryAwaitsRelease

(* A reservation keeps others and new work out of its conversation.        *)
ReservationExcludesWork == ReservationIsExclusive /\ NoJobStartsUnderReservation

(* A registered job whose session is gone was asked to stop.  A begin that *)
(* raced the removal would leave a job nobody can reach.                   *)
OrphanJobIsCancelled ==
    \A c \in ConversationId :
        /\ conversation_jobs[c] # NoEntry
        /\ sessions[conversation_jobs[c].session] = "absent"
        => cancel[conversation_jobs[c].job]

(* Dropping one reservation never takes the hold of another, even when its *)
(* own session record was replaced and the conversation reserved again.    *)
DropFreesOnlyItsOwnHold ==
    [][\A r \in reservations \intersect reservations' :
          reservations' # reservations /\ Effective(r) => Effective(r)']_storeVars
=============================================================================
