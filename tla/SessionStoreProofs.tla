------------------------- MODULE SessionStoreProofs -------------------------
(***************************************************************************)
(* The promises of the session store, for every set of sessions,           *)
(* conversations and identifiers and for callers in any order.             *)
(*                                                                         *)
(* None of the invariants is inductive alone.  A reservation excludes work *)
(* because at most one live session holds a token for a conversation       *)
(* (OneLiveToken) and because tokens are never drawn twice (TokensDrawn).  *)
(***************************************************************************)
EXTENDS SessionStore, TLAPS

(* A reservation's token was drawn for it alone.                           *)
TokensDrawn ==
    /\ \A r \in reservations : status[r.token] = "Token"
    /\ \A r1, r2 \in reservations : r1.token = r2.token => r1 = r2

(* Two live sessions never hold tokens for one conversation.               *)
OneLiveToken ==
    \A s1, s2 \in SessionId, c \in ConversationId :
        /\ Live(s1) /\ Live(s2)
        /\ commands[s1][c] # NoId
        /\ commands[s2][c] # NoId
        => s1 = s2

(* Jobs have an owner, and only jobs were released.                        *)
JobsAreOwned ==
    /\ \A j \in Begun : owner[j] \in Owner
    /\ released \subseteq Begun

IInv ==
    /\ TypeOK
    /\ JobsAreOwned
    /\ TokensDrawn
    /\ OneLiveToken
    /\ UnreleasedJobIsRegistered
    /\ EntryAwaitsRelease
    /\ NoJobStartsUnderReservation
    /\ TokenIsHeld
    /\ OrphanJobIsCancelled

-----------------------------------------------------------------------------
USE NoIdAssumption

(* Every step of the store keeps the types.                                *)
LEMMA TypeStep == TypeOK /\ [Next]_storeVars => TypeOK'
<1> SUFFICES ASSUME TypeOK, [Next]_storeVars PROVE TypeOK'
  OBVIOUS
<1> USE DEF TypeOK
<1>1. ASSUME NEW id \in SessionId, Insert(id) PROVE TypeOK'
  BY <1>1 DEF Insert
<1>2. ASSUME NEW id \in SessionId, Expire(id) PROVE TypeOK'
  BY <1>2 DEF Expire
<1>3. ASSUME NEW id \in SessionId, Remove(id) PROVE TypeOK'
  BY <1>3 DEF Remove
<1>4. ASSUME NEW id \in SessionId, NEW c \in ConversationId, NEW t \in JobId,
             ReserveCommand(id, c, t)
      PROVE  TypeOK'
  BY <1>4 DEF ReserveCommand, Reservation, JobStatus
<1>5. ASSUME NEW id \in SessionId, NEW c \in ConversationId, NEW j \in JobId,
             BeginConversationJob(id, c, j)
      PROVE  TypeOK'
  BY <1>5 DEF BeginConversationJob, Entry, Owner, JobStatus
<1>6. ASSUME NEW r \in reservations, DropReservation(r) PROVE TypeOK'
  BY <1>6 DEF DropReservation, Reservation
<1>7. ASSUME NEW j \in JobId, JobStep(j) PROVE TypeOK'
  <2>1. CASE FinishConversationJob(j)
    <3>1. conversation_jobs' \in [ConversationId -> Entry \union {NoEntry}]
      BY <2>1 DEF FinishConversationJob
    <3> QED
      BY <2>1, <3>1 DEF FinishConversationJob, Begun
  <2>2. ASSUME NEW waiting \in Awaiting, SetAwaiting(j, waiting) PROVE TypeOK'
    BY <2>2 DEF SetAwaiting, statusOnly, JobStatus
  <2>3. CASE Resume(j)
    BY <2>3 DEF Resume, statusOnly, JobStatus
  <2>4. ASSUME NEW outcome \in Terminal, Finish(j, outcome) PROVE TypeOK'
    BY <2>4 DEF Finish, statusOnly, JobStatus
  <2>5. CASE RequestCancel(j)
    BY <2>5 DEF RequestCancel, statusOnly
  <2> QED
    BY <1>7, <2>1, <2>2, <2>3, <2>4, <2>5 DEF JobStep
<1>8. CASE UNCHANGED storeVars
  BY <1>8 DEF storeVars
<1> QED
  BY <1>1, <1>2, <1>3, <1>4, <1>5, <1>6, <1>7, <1>8 DEF Next, SessionStep

(* Every variable holds a value of its type in every reachable state of    *)
(* the store (store.rs: the operations of SessionStore).                   *)
THEOREM TypeCorrect == Spec => []TypeOK
<1>1. Init => TypeOK
  BY DEF Init, TypeOK, Entry, NoEntry, JobStatus, Owner
<1> QED
  BY <1>1, TypeStep, PTL DEF Spec

-----------------------------------------------------------------------------
LEMMA IInvInit == Init => IInv
<1> SUFFICES ASSUME Init PROVE IInv
  OBVIOUS
<1>1. TypeOK
  BY DEF Init, TypeOK, Entry, NoEntry, JobStatus, Owner
<1>2. Begun = {}
  BY DEF Init, Begun, JobStatus, Awaiting, Terminal
<1> QED
  BY <1>1, <1>2 DEF Init, IInv, JobsAreOwned, TokensDrawn, OneLiveToken,
     UnreleasedJobIsRegistered, EntryAwaitsRelease,
     NoJobStartsUnderReservation, TokenIsHeld, OrphanJobIsCancelled, Live

(* Replacing, expiring or removing a session only takes holds away.        *)
LEMMA SessionStepInv ==
  ASSUME IInv, NEW id \in SessionId, SessionStep(id), TypeOK'
  PROVE  IInv'
<1>1. CASE Insert(id)
  BY <1>1 DEF IInv, Insert, TypeOK, JobsAreOwned, TokensDrawn, OneLiveToken,
     UnreleasedJobIsRegistered, EntryAwaitsRelease, Effective, Begun,
     NoJobStartsUnderReservation, TokenIsHeld, OrphanJobIsCancelled, Live,
     Reservation
<1>2. CASE Expire(id)
  BY <1>2 DEF IInv, Expire, TypeOK, JobsAreOwned, TokensDrawn, OneLiveToken,
     UnreleasedJobIsRegistered, EntryAwaitsRelease, Effective, Begun,
     NoJobStartsUnderReservation, TokenIsHeld, OrphanJobIsCancelled, Live,
     Reservation
<1>3. CASE Remove(id)
  BY <1>3 DEF IInv, Remove, TypeOK, JobsAreOwned, TokensDrawn, OneLiveToken,
     UnreleasedJobIsRegistered, EntryAwaitsRelease, Effective, Begun,
     NoJobStartsUnderReservation, TokenIsHeld, OrphanJobIsCancelled, Live,
     Reservation, Entry, NoEntry
<1> QED
  BY <1>1, <1>2, <1>3 DEF SessionStep

LEMMA ReserveInv ==
  ASSUME IInv, NEW id \in SessionId, NEW c \in ConversationId,
         NEW t \in JobId, ReserveCommand(id, c, t), TypeOK'
  PROVE  IInv'
<1> USE DEF IInv, ReserveCommand, Fresh
<1>1. Begun' = Begun /\ t \notin Begun
  BY DEF TypeOK, Begun, JobStatus, Awaiting, Terminal
<1>2. JobsAreOwned' /\ UnreleasedJobIsRegistered' /\ EntryAwaitsRelease'
  BY <1>1 DEF JobsAreOwned, UnreleasedJobIsRegistered, EntryAwaitsRelease
<1>3. TokensDrawn'
  BY DEF TokensDrawn, TypeOK, Reservation
<1>4. OneLiveToken'
  BY DEF OneLiveToken, CommandHeld, Live, TypeOK
<1>5. NoJobStartsUnderReservation'
  BY DEF NoJobStartsUnderReservation, TokensDrawn, Effective, Live, TypeOK,
     Reservation
<1>6. TokenIsHeld'
  <2> SUFFICES ASSUME NEW s \in SessionId, NEW d \in ConversationId,
                      commands'[s][d] # NoId
               PROVE  \E r \in reservations' : /\ r.session = s
                                               /\ r.conversation = d
                                               /\ r.token = commands'[s][d]
    BY DEF TokenIsHeld
  <2>1. CASE s = id /\ d = c
    <3> DEFINE new == [session |-> id, conversation |-> c, token |-> t,
                       over |-> conversation_jobs[c]]
    <3>1. new \in reservations' /\ commands'[s][d] = t
      BY <2>1 DEF TypeOK
    <3> QED
      BY <2>1, <3>1
  <2>2. CASE ~(s = id /\ d = c)
    BY <2>2 DEF TokenIsHeld, TypeOK
  <2> QED
    BY <2>1, <2>2
<1>7. OrphanJobIsCancelled'
  BY DEF OrphanJobIsCancelled
<1> QED
  BY <1>2, <1>3, <1>4, <1>5, <1>6, <1>7

LEMMA BeginInv ==
  ASSUME IInv, NEW id \in SessionId, NEW c \in ConversationId,
         NEW j \in JobId, BeginConversationJob(id, c, j), TypeOK'
  PROVE  IInv'
<1> USE DEF IInv, BeginConversationJob, Fresh
<1>1. Begun' = Begun \union {j} /\ j \notin Begun /\ j \notin released
  BY DEF TypeOK, Begun, JobStatus, Awaiting, Terminal, JobsAreOwned
<1>2. JobsAreOwned'
  BY <1>1 DEF JobsAreOwned, TypeOK, Owner
<1>3. UnreleasedJobIsRegistered'
  <2> SUFFICES ASSUME NEW i \in Begun' \ released'
               PROVE  (conversation_jobs[owner[i].conversation] =
                         [job |-> i, session |-> owner[i].session])'
    BY DEF UnreleasedJobIsRegistered
  <2>1. CASE i = j
    BY <2>1 DEF TypeOK
  <2>2. CASE i # j
    <3>1. i \in Begun \ released /\ owner'[i] = owner[i] /\ owner[i] \in Owner
      BY <1>1, <2>2 DEF JobsAreOwned, TypeOK
    <3>2. conversation_jobs[owner[i].conversation] =
             [job |-> i, session |-> owner[i].session]
      BY <3>1 DEF UnreleasedJobIsRegistered
    <3>3. i # NoId
      BY <3>1, NoIdAssumption DEF TypeOK, Begun
    <3>4. owner[i].conversation # c
      BY <3>2, <3>3 DEF NoEntry
    <3> QED
      BY <3>1, <3>2, <3>4 DEF TypeOK, Owner
  <2> QED
    BY <2>1, <2>2
<1>4. EntryAwaitsRelease'
  BY <1>1 DEF EntryAwaitsRelease, TypeOK, Entry, NoEntry
<1>5. TokensDrawn' /\ OneLiveToken' /\ TokenIsHeld'
  BY DEF TokensDrawn, OneLiveToken, TokenIsHeld, Live, TypeOK, Reservation
<1>6. NoJobStartsUnderReservation'
  BY DEF NoJobStartsUnderReservation, Effective, CommandHeld, Live, TypeOK,
     Reservation
<1>7. OrphanJobIsCancelled'
  BY DEF OrphanJobIsCancelled, TypeOK, Live
<1> QED
  BY <1>2, <1>3, <1>4, <1>5, <1>6, <1>7

LEMMA DropInv ==
  ASSUME IInv, NEW r \in reservations, DropReservation(r), TypeOK'
  PROVE  IInv'
<1> USE DEF IInv, DropReservation
<1>1. Begun' = Begun
  BY DEF Begun
<1>2. JobsAreOwned' /\ UnreleasedJobIsRegistered' /\ EntryAwaitsRelease'
        /\ OrphanJobIsCancelled'
  BY <1>1 DEF JobsAreOwned, UnreleasedJobIsRegistered, EntryAwaitsRelease,
     OrphanJobIsCancelled
<1>3. TokensDrawn' /\ OneLiveToken'
  BY DEF TokensDrawn, OneLiveToken, Live, TypeOK, Reservation
<1>4. NoJobStartsUnderReservation'
  BY DEF NoJobStartsUnderReservation, Effective, Live, TypeOK, Reservation
<1>5. TokenIsHeld'
  BY DEF TokenIsHeld, TypeOK, Reservation
<1> QED
  BY <1>2, <1>3, <1>4, <1>5

LEMMA JobStepInv ==
  ASSUME IInv, NEW j \in JobId, JobStep(j), TypeOK'
  PROVE  IInv'
<1> USE DEF IInv
<1>1. CASE FinishConversationJob(j)
  <2> USE <1>1 DEF FinishConversationJob
  <2>1. Begun' = Begun
    BY DEF Begun
  <2>2. JobsAreOwned' /\ TokensDrawn' /\ OneLiveToken' /\ TokenIsHeld'
    BY <2>1 DEF JobsAreOwned, TokensDrawn, OneLiveToken, TokenIsHeld, Live
  <2>3. UnreleasedJobIsRegistered'
    BY <2>1 DEF UnreleasedJobIsRegistered, JobsAreOwned, TypeOK, Owner
  <2>4. EntryAwaitsRelease'
    BY <2>1 DEF EntryAwaitsRelease, JobsAreOwned, TypeOK, Owner, Entry, NoEntry
  <2>5. NoJobStartsUnderReservation' /\ OrphanJobIsCancelled'
    BY DEF NoJobStartsUnderReservation, OrphanJobIsCancelled, Effective, Live,
       TypeOK, Reservation
  <2> QED
    BY <2>2, <2>3, <2>4, <2>5
<1>2. CASE \E waiting \in Awaiting : SetAwaiting(j, waiting)
  <2>1. Begun' = Begun /\ status[j] # "Token" /\ UNCHANGED <<statusOnly, cancel>>
        /\ \A i \in JobId : i # j => status'[i] = status[i]
    BY <1>2 DEF SetAwaiting, Begun, JobStatus, TypeOK
  <2> QED
    BY <2>1 DEF statusOnly, JobsAreOwned, TokensDrawn, OneLiveToken,
       UnreleasedJobIsRegistered, EntryAwaitsRelease, Effective,
       NoJobStartsUnderReservation, TokenIsHeld, OrphanJobIsCancelled, Live,
       TypeOK, Reservation
<1>3. CASE Resume(j)
  <2>1. Begun' = Begun /\ status[j] # "Token" /\ UNCHANGED <<statusOnly, cancel>>
        /\ \A i \in JobId : i # j => status'[i] = status[i]
    BY <1>3 DEF Resume, Begun, JobStatus, TypeOK, Awaiting
  <2> QED
    BY <2>1 DEF statusOnly, JobsAreOwned, TokensDrawn, OneLiveToken,
       UnreleasedJobIsRegistered, EntryAwaitsRelease, Effective,
       NoJobStartsUnderReservation, TokenIsHeld, OrphanJobIsCancelled, Live,
       TypeOK, Reservation
<1>4. CASE \E outcome \in Terminal : Finish(j, outcome)
  <2>1. Begun' = Begun /\ status[j] # "Token" /\ UNCHANGED <<statusOnly, cancel>>
        /\ \A i \in JobId : i # j => status'[i] = status[i]
    BY <1>4 DEF Finish, Begun, JobStatus, TypeOK, Awaiting
  <2> QED
    BY <2>1 DEF statusOnly, JobsAreOwned, TokensDrawn, OneLiveToken,
       UnreleasedJobIsRegistered, EntryAwaitsRelease, Effective,
       NoJobStartsUnderReservation, TokenIsHeld, OrphanJobIsCancelled, Live,
       TypeOK, Reservation
<1>5. CASE RequestCancel(j)
  BY <1>5 DEF RequestCancel, statusOnly, JobsAreOwned, TokensDrawn, OneLiveToken,
     UnreleasedJobIsRegistered, EntryAwaitsRelease, Effective, Begun,
     NoJobStartsUnderReservation, TokenIsHeld, OrphanJobIsCancelled, Live,
     TypeOK, Entry, NoEntry
<1> QED
  BY <1>1, <1>2, <1>3, <1>4, <1>5 DEF JobStep

LEMMA IInvStep == IInv /\ [Next]_storeVars => IInv'
<1> SUFFICES ASSUME IInv, [Next]_storeVars PROVE IInv'
  OBVIOUS
<1>1. TypeOK'
  BY TypeStep DEF IInv
<1>2. CASE UNCHANGED storeVars
  BY <1>2 DEF IInv, storeVars, TypeOK, JobsAreOwned, TokensDrawn, OneLiveToken,
     UnreleasedJobIsRegistered, EntryAwaitsRelease, Effective, Begun,
     NoJobStartsUnderReservation, TokenIsHeld, OrphanJobIsCancelled, Live
<1>3. CASE Next
  BY <1>1, <1>3, SessionStepInv, ReserveInv, BeginInv, DropInv, JobStepInv
     DEF Next
<1> QED
  BY <1>2, <1>3

THEOREM Invariance == Spec => []IInv
  BY IInvInit, IInvStep, PTL DEF Spec

(* For every number of sessions and jobs: a conversation has exactly the   *)
(* one unreleased job that is registered for it, however late, repeated or *)
(* interleaved the releases are (store.rs: begin_conversation_job,         *)
(* finish_conversation_job).                                               *)
THEOREM OneOperation == Spec => []OneOperationPerConversation
<1>1. IInv => OneOperationPerConversation
  BY DEF IInv, OneOperationPerConversation
<1> QED
  BY <1>1, Invariance, PTL

(* The tokens of two live sessions never meet on one conversation.         *)
LEMMA ExclusionFollows == IInv => ReservationExcludesWork
<1> SUFFICES ASSUME IInv,
                    NEW r1 \in reservations, NEW r2 \in reservations,
                    Effective(r1), Effective(r2),
                    r1.conversation = r2.conversation
             PROVE  r1 = r2
  BY DEF IInv, ReservationExcludesWork, ReservationIsExclusive
<1>1. /\ r1.session \in SessionId
      /\ r2.session \in SessionId
      /\ r1.conversation \in ConversationId
      /\ r1.token # NoId
      /\ r2.token # NoId
  BY DEF IInv, TypeOK, Reservation
<1>2. r1.session = r2.session
  BY <1>1 DEF IInv, OneLiveToken, Effective
<1>3. r1.token = r2.token
  BY <1>2 DEF Effective
<1> QED
  BY <1>3 DEF IInv, TokensDrawn

(* An effective command reservation is the only one of its conversation    *)
(* and no operation begins under it (store.rs: reserve_command,            *)
(* command_held).                                                          *)
THEOREM ReservationHolds == Spec => []ReservationExcludesWork
  BY ExclusionFollows, Invariance, PTL

(* A conversation is never blocked by a token nobody holds (store.rs:      *)
(* CommandReservation::drop).                                              *)
THEOREM NoTokenLeaks == Spec => []TokenIsHeld
<1>1. IInv => TokenIsHeld
  BY DEF IInv
<1> QED
  BY <1>1, Invariance, PTL

(* The removal of a session and the start of a job exclude each other, so  *)
(* no job of a removed session runs on unasked (store.rs: remove).         *)
THEOREM OrphansAreCancelled == Spec => []OrphanJobIsCancelled
<1>1. IInv => OrphanJobIsCancelled
  BY DEF IInv
<1> QED
  BY <1>1, Invariance, PTL

(* A late drop never frees a later reservation (store.rs: the token check  *)
(* of CommandReservation::drop).                                           *)
THEOREM DropIsPrecise == Spec => DropFreesOnlyItsOwnHold
<1> DEFINE Kept == \A r \in reservations \intersect reservations' :
                      reservations' # reservations /\ Effective(r) => Effective(r)'
<1>1. ASSUME IInv, [Next]_storeVars,
             NEW r \in reservations \intersect reservations',
             reservations' # reservations, Effective(r)
      PROVE  Effective(r)'
  <2>1. CASE \E id \in SessionId : SessionStep(id)
    BY <1>1, <2>1 DEF SessionStep, Insert, Expire, Remove
  <2>2. ASSUME NEW id \in SessionId, NEW c \in ConversationId, NEW t \in JobId,
               ReserveCommand(id, c, t)
        PROVE  Effective(r)'
    <3>1. id # r.session \/ c # r.conversation
      BY <1>1, <2>2 DEF ReserveCommand, CommandHeld, Effective, IInv, TypeOK,
         Reservation
    <3> QED
      BY <1>1, <2>2, <3>1 DEF ReserveCommand, Effective, Live, IInv, TypeOK,
         Reservation
  <2>3. ASSUME NEW id \in SessionId, NEW c \in ConversationId, NEW t \in JobId,
               BeginConversationJob(id, c, t)
        PROVE  Effective(r)'
    BY <1>1, <2>3 DEF BeginConversationJob
  <2>4. ASSUME NEW q \in reservations, DropReservation(q)
        PROVE  Effective(r)'
    <3>1. q # r /\ q.token # r.token
      BY <1>1, <2>4 DEF DropReservation, IInv, TokensDrawn
    <3> QED
      BY <1>1, <2>4, <3>1 DEF DropReservation, Effective, Live, IInv, TypeOK,
         Reservation
  <2>5. ASSUME NEW j \in JobId, JobStep(j) PROVE Effective(r)'
    BY <1>1, <2>5 DEF JobStep, FinishConversationJob, SetAwaiting, Resume,
       Finish, RequestCancel, statusOnly
  <2>6. CASE UNCHANGED storeVars
    BY <1>1, <2>6 DEF storeVars
  <2> QED
    BY <1>1, <2>1, <2>2, <2>3, <2>4, <2>5, <2>6 DEF Next
<1>2. IInv /\ [Next]_storeVars => [Kept]_storeVars
  BY <1>1
<1> QED
  BY <1>2, Invariance, PTL DEF Spec, DropFreesOnlyItsOwnHold
=============================================================================
