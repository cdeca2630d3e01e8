--------------------------- MODULE HandoffTransfer --------------------------
(***************************************************************************)
(* The handoff of a workflow run that waits at a human gate from its       *)
(* conversation to a new one (app/src/slices/conversations/handoff,        *)
(* app/src/conversations/store/handoff.rs, app/src/workflows/handoff.rs).  *)
(*                                                                         *)
(* A transfer makes three commits: the run file with the new owner and a   *)
(* journal, both conversations in one transaction, and the run file with   *)
(* the journal cleared.  Each can fail and the process can end between any *)
(* two.  What remains is replayed at the next start, or when the user      *)
(* restores the gate in its new conversation.                              *)
(*                                                                         *)
(* The lock of the conversation store is held from the first commit to the *)
(* last; the lock of the run store is not, so a decision may come between. *)
(* A conversation is reduced to its revision, its active job and its last  *)
(* response; the run to its owner, its journal and whether its gate was    *)
(* decided.                                                                *)
(***************************************************************************)
EXTENDS Integers, FiniteSets

CONSTANTS
    Conversation,   \* conversations
    JobId,          \* jobs
    Handler,        \* concurrent requests
    Startup,        \* the thread that runs main
    NoId,           \* absence of a job, a conversation, a journal, a gate
    First,          \* the conversation the run starts in
    MaxFaults,      \* bound on failing commits
    MaxCrashes      \* bound on restarts

(* What the run file keeps while both conversations are not told yet.      *)
Journal == [source : Conversation, sourceJob : JobId \union {NoId},
            revision : Nat, job : JobId]
Gate == [conversation : Conversation, job : JobId]

ASSUME HandoffAssumption ==
    /\ First \in Conversation
    /\ Startup \notin Handler
    /\ NoId \notin JobId \union Conversation \union Journal \union Gate

VARIABLES
    row,         \* the conversations as stored
    uncertain,   \* ConversationStore.uncertain
    run,         \* the run in memory
    disk,        \* the run file
    loose,       \* contents that replaced the file without being flushed
    registered,  \* per conversation the job in conversation_jobs
    parked,      \* the run's entry of the continuation registry
    used,        \* jobs drawn so far
    binding,     \* the session's handoff draft: the run and the source's
                 \* revision it was made from
    thread,      \* per handler, and for Startup, what it does
    faults, crashes

handoffVars == <<row, uncertain, run, disk, loose, registered, parked, used,
                 binding, thread, faults, crashes>>
runFile == <<run, disk, loose>>
memory == <<registered, parked, used, binding>>

Thread == Handler \union {Startup}
Idle == [pc |-> "idle", kind |-> "none", run |-> NoId, revision |-> 0,
         dest |-> NoId, job |-> NoId, gate |-> NoId]
Absent == [stored |-> FALSE, revision |-> 0, job |-> NoId, request |-> NoId,
           status |-> "none"]
Fresh == [Absent EXCEPT !.stored = TRUE, !.revision = 1]
Gone == [Absent EXCEPT !.revision = 1]     \* identifiers are not used again

HandoffInit ==
    \E j \in JobId :
      /\ row = [c \in Conversation |->
                   IF c = First
                   THEN [stored |-> TRUE, revision |-> 1, job |-> j,
                         request |-> j, status |-> "Pending"]
                   ELSE Absent]
      /\ uncertain = {}
      /\ run = [owner |-> First, past |-> {}, journal |-> NoId,
                decided |-> FALSE]
      /\ disk = run
      /\ loose = {}
      /\ registered = [c \in Conversation |-> IF c = First THEN j ELSE NoId]
      /\ parked = [conversation |-> First, job |-> j]
      /\ used = {j}
      /\ binding = NoId
      /\ thread = [t \in Thread |-> Idle]
      /\ faults = 0
      /\ crashes = 0

Running == thread[Startup] = Idle
Goto(t, label) == thread' = [thread EXCEPT ![t].pc = label]
Leave(t) == thread' = [thread EXCEPT ![t] = Idle]

(* The conversation store's lock is held between two steps only by a       *)
(* transfer or a replay.                                                   *)
Unlocked == \A t \in Thread : thread[t].pc \notin {"flush", "project", "clear"}

(* The permit of LocalDataStore::begin_host_path_mutation, which a         *)
(* transfer holds from the creation of its destination and a restoration   *)
(* from its recovery.                                                      *)
PermitFree ==
    \A t \in Handler :
        thread[t].pc \in {"idle", "create", "undo", "recover", "decide", "end",
                         "delete", "generate"}

Reserved(c) ==
    \/ registered[c] # NoId
    \/ \E t \in Handler : thread[t].kind = "generate" /\ thread[t].dest = c
PendingReview(c) == run.owner = c /\ ~run.decided
Recoverable == ~run.decided

-----------------------------------------------------------------------------
(* A write of the run file: done; failed before the file was replaced; or  *)
(* failed after it was replaced and before that was durable.               *)
FileStored(next) == disk' = next /\ loose' = {} /\ UNCHANGED faults
FileUnchanged == faults < MaxFaults /\ faults' = faults + 1 /\ UNCHANGED <<disk, loose>>
FileReplaced(next) ==
    /\ faults < MaxFaults
    /\ faults' = faults + 1
    /\ loose' = loose \union {next}
    /\ UNCHANGED disk

(* WorkflowRunStore::mutate while a journal is pending allows only its     *)
(* clearance.                                                              *)
MayMutate(next) ==
    run.journal = NoId \/ next = [run EXCEPT !.journal = NoId]

(* A transfer accepts a file that was replaced and may not be durable:     *)
(* what follows flushes it first.                                          *)
Mutated(next) == MayMutate(next) /\ FileStored(next) /\ run' = next
MutatedLoosely(next) == MayMutate(next) /\ FileReplaced(next) /\ run' = next
MutateRefused(next) ==
    /\ UNCHANGED run
    /\ \/ ~MayMutate(next) /\ UNCHANGED <<disk, loose, faults>>
       \/ MayMutate(next) /\ (FileUnchanged \/ FileReplaced(next))

-----------------------------------------------------------------------------
(* apply_handoff, which may run again on what it already changed.          *)
Delivered(rows, owner, p) ==
    rows[owner].request = p.job

Applies(rows, owner, p) ==
    /\ rows[p.source].stored
    /\ rows[owner].stored
    /\ \/ Delivered(rows, owner, p)
       \/ /\ rows[owner].revision = p.revision
          /\ rows[owner].job = NoId
          /\ rows[owner].request = NoId

(* A conversation whose last response begins to wait, and one whose        *)
(* response was passed on.                                                 *)
Waiting(m, job) == [m EXCEPT !.job = job, !.request = job,
                             !.status = "Pending", !.revision = @ + 1]
HandedOn(m, job) == [m EXCEPT !.status = "Complete", !.revision = @ + 1,
                              !.job = IF @ = job THEN NoId ELSE @]

ReceivesIgnoringSource(rows, owner, p) ==     \* a mutated Projected
    [rows EXCEPT ![owner] = IF Delivered(rows, owner, p) THEN @
                            ELSE Waiting(@, p.job)]

PassesOn(message, p) ==
    /\ p.sourceJob # NoId
    /\ message.request = p.sourceJob
    /\ message.status \in {"Pending", "Interrupted"}

Projected(rows, owner, p) ==
    LET received == [rows EXCEPT ![owner] =
                        IF Delivered(rows, owner, p) THEN @ ELSE Waiting(@, p.job)]
    IN  [received EXCEPT ![p.source] =
            IF PassesOn(@, p) THEN HandedOn(@, p.sourceJob) ELSE @]

-----------------------------------------------------------------------------
(* commit_handoff: flush_handoff, persist_pair, and the clearance of the   *)
(* journal.  A transfer whose commits fail goes on with the journal        *)
(* pending; a restoration is refused and a start fails.                    *)
GiveUp(t) ==
    CASE thread[t].kind = "transfer" -> Goto(t, "settle")
      [] thread[t].kind = "restore" -> Leave(t)
      [] thread[t].kind = "start" -> Goto(t, "down")

Flush(t) ==
    /\ thread[t].pc = "flush"
    /\ \/ FileStored(run) /\ Goto(t, "project")
       \/ (FileUnchanged \/ FileReplaced(run)) /\ GiveUp(t)
    /\ UNCHANGED <<row, uncertain, run, crashes>> /\ UNCHANGED memory

Project(t) ==
    /\ thread[t].pc = "project"
    /\ LET next == Projected(row, run.owner, run.journal) IN
         \/ /\ row' = next
            /\ Goto(t, "clear")
            /\ UNCHANGED <<uncertain, faults>>
         \/ /\ faults < MaxFaults          \* the transaction failed
            /\ faults' = faults + 1
            /\ GiveUp(t)
            /\ UNCHANGED <<row, uncertain>>
         \/ /\ faults < MaxFaults          \* its outcome is not known
            /\ faults' = faults + 1
            /\ row' \in {row, next}
            /\ uncertain' = uncertain \union {run.owner, run.journal.source}
            /\ GiveUp(t)
    /\ UNCHANGED <<run, disk, loose, crashes>> /\ UNCHANGED memory

Clear(t) ==
    /\ thread[t].pc = "clear"
    /\ LET next == [run EXCEPT !.journal = NoId] IN
         \/ /\ Mutated(next)
            /\ Goto(t, CASE thread[t].kind = "transfer" -> "settle"
                         [] thread[t].kind = "restore" -> "begin"
                         [] thread[t].kind = "start" -> "interrupt")
         \/ MutateRefused(next) /\ GiveUp(t)
    /\ UNCHANGED <<row, uncertain, crashes>> /\ UNCHANGED memory

-----------------------------------------------------------------------------
(* The handoff prompt: generate reserves the source while a model writes   *)
(* it; prepare, or a later one, binds a draft to what it sees.             *)
Ready(c) == row[c].stored /\ (row[c].job # NoId => PendingReview(c))

Generate(t, c) ==
    /\ Running /\ Unlocked
    /\ thread[t] = Idle
    /\ Ready(c) /\ ~Reserved(c)
    /\ thread' = [thread EXCEPT ![t] =
          [Idle EXCEPT !.pc = "generate", !.kind = "generate", !.dest = c]]
    /\ UNCHANGED <<row, uncertain, crashes, faults>>
    /\ UNCHANGED runFile /\ UNCHANGED memory

EndGenerate(t) ==
    /\ thread[t].pc = "generate"
    /\ Leave(t)
    /\ UNCHANGED <<row, uncertain, crashes, faults>>
    /\ UNCHANGED runFile /\ UNCHANGED memory

Transferable == Recoverable /\ run.journal = NoId

Prepare ==
    /\ Running /\ Unlocked
    /\ Transferable /\ Ready(run.owner)
    /\ binding' = [run |-> run, revision |-> row[run.owner].revision]
    /\ UNCHANGED <<row, uncertain, crashes, faults, thread>>
    /\ UNCHANGED runFile /\ UNCHANGED <<registered, parked, used>>

(* The first message of the draft creates the destination and transfers    *)
(* the run to it, if the source and the run are still the draft's.         *)
BindingHolds ==
    /\ binding # NoId
    /\ Transferable /\ binding.run = run
    /\ row[run.owner].stored /\ row[run.owner].revision = binding.revision
    /\ Reserved(run.owner) => parked # NoId

Send(t, dest) ==
    /\ Running /\ Unlocked
    /\ thread[t] = Idle
    /\ BindingHolds
    /\ row[dest] = Absent
    /\ \A u \in Handler : thread[u].dest # dest
    /\ thread' = [thread EXCEPT ![t] =
          [Idle EXCEPT !.pc = "create", !.kind = "transfer", !.run = run,
                       !.revision = binding.revision, !.dest = dest]]
    /\ UNCHANGED <<row, uncertain, crashes, faults>>
    /\ UNCHANGED runFile /\ UNCHANGED memory

CreateDestination(t) ==
    /\ thread[t].pc = "create"
    /\ Unlocked /\ PermitFree
    /\ row' = [row EXCEPT ![thread[t].dest] = Fresh]
    /\ Goto(t, "take")
    /\ UNCHANGED <<uncertain, crashes, faults>>
    /\ UNCHANGED runFile /\ UNCHANGED memory

(* finish: the source may not have changed since the draft; its parked job *)
(* is taken out, unless another operation controls it.                     *)
TakeSource(t) ==
    LET source == thread[t].run.owner IN
    /\ thread[t].pc = "take"
    /\ Unlocked
    /\ IF binding # NoId /\ binding.run = thread[t].run
          /\ row[source].stored /\ row[source].revision = binding.revision
          /\ IF parked = NoId THEN ~Reserved(source)
             ELSE parked.conversation = source
       THEN /\ thread' = [thread EXCEPT ![t].pc = "start", ![t].gate = parked,
                                       ![t].revision = binding.revision]
            /\ parked' = NoId
       ELSE Goto(t, "undo") /\ UNCHANGED parked
    /\ UNCHANGED <<row, uncertain, registered, used, binding, crashes, faults>>
    /\ UNCHANGED runFile

PutBack(gate) == parked' = IF gate = NoId THEN parked ELSE gate

StartDestination(t) ==
    /\ thread[t].pc = "start"
    /\ ~Reserved(thread[t].dest)
    /\ \E j \in JobId \ used :
         /\ used' = used \union {j}
         /\ registered' = [registered EXCEPT ![thread[t].dest] = j]
         /\ thread' = [thread EXCEPT ![t].pc = "journal", ![t].job = j]
    /\ UNCHANGED <<row, uncertain, parked, binding, crashes, faults>>
    /\ UNCHANGED runFile

TransferRefused(t) ==
    /\ PutBack(thread[t].gate)
    /\ registered' = [registered EXCEPT ![thread[t].dest] = NoId]
    /\ Goto(t, "undo")
    /\ UNCHANGED <<used, binding>>

(* The run file with its new owner, and the journal of what both           *)
(* conversations have to be told.                                          *)
OwnedWithoutJournal(source, dest, job) ==     \* a mutated Journaled
    [run EXCEPT !.owner = dest, !.past = @ \union {source}]

Journaled(source, dest, job) ==
    [OwnedWithoutJournal(source, dest, job) EXCEPT
        !.journal = [source |-> source,
                     sourceJob |-> row[source].job,
                     revision |-> row[dest].revision,
                     job |-> job]]

(* transfer_prepared up to the ownership commit.                           *)
CommitOwner(t) ==
    LET source == thread[t].run.owner
        dest == thread[t].dest
        current ==
            /\ {source, dest} \intersect uncertain = {}
            /\ row[source].stored /\ row[source].revision = thread[t].revision
            /\ row[dest] = Fresh
            /\ run = thread[t].run
        next == Journaled(source, dest, thread[t].job)
    IN
    /\ thread[t].pc = "journal"
    /\ Unlocked
    /\ \/ /\ current
          /\ Mutated(next) \/ MutatedLoosely(next)
          /\ Goto(t, "flush")
          /\ UNCHANGED memory
       \/ /\ current
          /\ FileUnchanged
          /\ TransferRefused(t)
          /\ UNCHANGED run
       \/ /\ ~current
          /\ TransferRefused(t)
          /\ UNCHANGED <<run, disk, loose, faults>>
    /\ UNCHANGED <<row, uncertain, crashes>>

(* The source's job ends; the gate waits again in the destination, unless  *)
(* the journal is still pending or the fresh consent fails.                *)
Settle(t) ==
    LET gate == thread[t].gate
        job == thread[t].job
        dest == thread[t].dest
        released ==
            IF gate = NoId THEN registered
            ELSE [registered EXCEPT ![gate.conversation] =
                     IF @ = gate.job THEN NoId ELSE @]
    IN
    /\ thread[t].pc = "settle"
    /\ \/ /\ run.journal = NoId
          /\ parked = NoId
          /\ parked' = [conversation |-> dest, job |-> job]
          /\ registered' = released
       \/ /\ registered' = [released EXCEPT ![dest] = NoId]
          /\ UNCHANGED parked
    /\ binding' = NoId
    /\ Leave(t)
    /\ UNCHANGED <<row, uncertain, used, crashes, faults>>
    /\ UNCHANGED runFile

(* A refused transfer removes the conversation it was to begin.            *)
UndoDestination(t) ==
    /\ thread[t].pc = "undo"
    /\ Unlocked
    /\ row' = IF row[thread[t].dest].revision = 1
              THEN [row EXCEPT ![thread[t].dest] = Gone]
              ELSE row
    /\ Leave(t)
    /\ UNCHANGED <<uncertain, crashes, faults>>
    /\ UNCHANGED runFile /\ UNCHANGED memory

-----------------------------------------------------------------------------
(* The gate is restored in its owner after a restart or a failed transfer. *)
Restore(t) ==
    /\ Running /\ Unlocked
    /\ thread[t] = Idle
    /\ Recoverable
    /\ row[run.owner].stored
    /\ ~Reserved(run.owner)
    /\ parked = NoId
    /\ thread' = [thread EXCEPT ![t] =
          [Idle EXCEPT !.pc = "recover", !.kind = "restore",
                       !.dest = run.owner]]
    /\ UNCHANGED <<row, uncertain, crashes, faults>>
    /\ UNCHANGED runFile /\ UNCHANGED memory

(* recover_handoffs, for whatever run is journaled now.                    *)
Recover(t) ==
    /\ thread[t].pc = "recover"
    /\ Unlocked /\ PermitFree
    /\ IF run.journal = NoId THEN Goto(t, "begin")
       ELSE IF Applies(row, run.owner, run.journal) THEN Goto(t, "flush")
       ELSE Leave(t)
    /\ UNCHANGED <<row, uncertain, crashes, faults>>
    /\ UNCHANGED runFile /\ UNCHANGED memory

BeginRestored(t) ==
    /\ thread[t].pc = "begin"
    /\ \/ /\ ~Reserved(thread[t].dest)
          /\ \E j \in JobId \ used :
               /\ used' = used \union {j}
               /\ registered' = [registered EXCEPT ![thread[t].dest] = j]
               /\ thread' = [thread EXCEPT ![t].pc = "reopen", ![t].job = j]
       \/ Reserved(thread[t].dest) /\ Leave(t) /\ UNCHANGED <<used, registered>>
    /\ UNCHANGED <<row, uncertain, parked, binding, crashes, faults>>
    /\ UNCHANGED runFile

(* restore_prepared: the last response waits again, for the new job.       *)
Reopen(t) ==
    LET dest == thread[t].dest
        job == thread[t].job
        allowed == /\ dest \notin uncertain
                   /\ row[dest].stored /\ row[dest].request # NoId
                   /\ run.owner = dest /\ Recoverable /\ run.journal = NoId
        stored == row' = [row EXCEPT ![dest] = Waiting(@, job)]
        failed == faults < MaxFaults /\ faults' = faults + 1
        released == registered' = [registered EXCEPT ![dest] = NoId]
    IN
    /\ thread[t].pc = "reopen"
    /\ Unlocked
    /\ \/ /\ allowed /\ stored /\ Goto(t, "attach")
          /\ UNCHANGED <<uncertain, registered, faults>>
       \/ /\ allowed /\ failed /\ Leave(t) /\ released
          /\ UNCHANGED <<row, uncertain>>
       \/ /\ allowed /\ failed /\ (stored \/ UNCHANGED row)
          /\ uncertain' = uncertain \union {dest}
          /\ Leave(t) /\ released
       \/ /\ ~allowed /\ Leave(t) /\ released
          /\ UNCHANGED <<row, uncertain, faults>>
    /\ UNCHANGED <<parked, used, binding, crashes>> /\ UNCHANGED runFile

Attach(t) ==
    /\ thread[t].pc = "attach"
    /\ \/ /\ parked = NoId
          /\ parked' = [conversation |-> thread[t].dest, job |-> thread[t].job]
          /\ UNCHANGED registered
       \/ /\ registered' = [registered EXCEPT ![thread[t].dest] = NoId]
          /\ UNCHANGED parked
    /\ Leave(t)
    /\ UNCHANGED <<row, uncertain, used, binding, crashes, faults>>
    /\ UNCHANGED runFile

-----------------------------------------------------------------------------
(* A decision: the handler takes the parked job, then changes the run.  It *)
(* keeps the job from others, but not the run.                             *)
TakeGate(t) ==
    /\ Running
    /\ thread[t] = Idle
    /\ ~run.decided
    /\ parked # NoId
    /\ thread' = [thread EXCEPT ![t] =
          [Idle EXCEPT !.pc = "decide", !.kind = "decide", !.gate = parked,
                       !.dest = parked.conversation]]
    /\ parked' = NoId
    /\ UNCHANGED <<row, uncertain, registered, used, binding, crashes, faults>>
    /\ UNCHANGED runFile

DecideGate(t) ==
    LET gate == thread[t].gate
        next == [run EXCEPT !.decided = TRUE] IN
    /\ thread[t].pc = "decide"
    /\ \/ /\ ~run.decided
          /\ Mutated(next)
          /\ Goto(t, "end")
          /\ UNCHANGED parked
       \/ /\ IF run.decided THEN UNCHANGED <<run, disk, loose, faults>>
             ELSE MutateRefused(next)
          /\ PutBack(gate)
          /\ Leave(t)
    /\ UNCHANGED <<row, uncertain, registered, used, binding, crashes>>

(* The workflow goes on and ends; its job settles the response.            *)
EndWork(t) ==
    LET c == thread[t].dest IN
    /\ thread[t].pc = "end"
    /\ Unlocked
    /\ row' = IF row[c].job = thread[t].gate.job
              THEN [row EXCEPT ![c].job = NoId, ![c].status = "Complete",
                               ![c].revision = @ + 1]
              ELSE row
    /\ registered' = [registered EXCEPT ![c] =
                         IF @ = thread[t].gate.job THEN NoId ELSE @]
    /\ Leave(t)
    /\ UNCHANGED <<uncertain, parked, used, binding, crashes, faults>>
    /\ UNCHANGED runFile

(* What else may change these conversations: a title, and a deletion,      *)
(* which looks at the registrations and the run before it locks the store. *)
Rename(c) ==
    /\ Running /\ Unlocked
    /\ row[c].stored /\ c \notin uncertain
    /\ row[c].revision = 1 /\ row[c].job = NoId
    /\ row' = [row EXCEPT ![c].revision = @ + 1]
    /\ UNCHANGED <<uncertain, thread, crashes, faults>>
    /\ UNCHANGED runFile /\ UNCHANGED memory

CheckDelete(t, c) ==
    /\ Running /\ Unlocked
    /\ thread[t] = Idle
    /\ row[c].stored
    /\ ~Reserved(c) /\ ~PendingReview(c)
    /\ thread' = [thread EXCEPT ![t] =
          [Idle EXCEPT !.pc = "delete", !.kind = "delete", !.dest = c,
                       !.revision = row[c].revision]]
    /\ UNCHANGED <<row, uncertain, crashes, faults>>
    /\ UNCHANGED runFile /\ UNCHANGED memory

Delete(t) ==
    LET c == thread[t].dest IN
    /\ thread[t].pc = "delete"
    /\ Unlocked
    /\ row' = IF /\ row[c].stored /\ c \notin uncertain
                 /\ row[c].revision = thread[t].revision /\ row[c].job = NoId
              THEN [row EXCEPT ![c] = Gone]
              ELSE row
    /\ Leave(t)
    /\ UNCHANGED <<uncertain, crashes, faults>>
    /\ UNCHANGED runFile /\ UNCHANGED memory

-----------------------------------------------------------------------------
(* The process ends and starts again: the run file is what was durable or  *)
(* what had replaced it; a pending journal is replayed before requests     *)
(* that were at work are marked interrupted.                               *)
Crash ==
    /\ crashes < MaxCrashes
    /\ crashes' = crashes + 1
    /\ disk' \in {disk} \union loose
    /\ loose' = {}
    /\ run' = disk'
    /\ uncertain' = {}
    /\ registered' = [c \in Conversation |-> NoId]
    /\ parked' = NoId
    /\ binding' = NoId
    /\ thread' = [t \in Thread |->
          IF t # Startup THEN Idle
          ELSE [Idle EXCEPT !.kind = "start", !.pc =
                   IF run'.journal = NoId THEN "interrupt"
                   ELSE IF Applies(row, run'.owner, run'.journal)
                   THEN "flush" ELSE "refused"]]
    /\ UNCHANGED <<row, used, faults>>

InterruptRequests ==
    /\ thread[Startup].pc = "interrupt"
    /\ row' = [c \in Conversation |->
                  IF row[c].job = NoId THEN row[c]
                  ELSE [row[c] EXCEPT !.job = NoId, !.revision = @ + 1,
                                      !.status = "Interrupted"]]
    /\ Leave(Startup)
    /\ UNCHANGED <<uncertain, crashes, faults>>
    /\ UNCHANGED runFile /\ UNCHANGED memory

HandoffNext ==
    \/ \E t \in Thread : Flush(t) \/ Project(t) \/ Clear(t)
    \/ \E t \in Handler :
         \/ \E c \in Conversation :
              Generate(t, c) \/ Send(t, c) \/ CheckDelete(t, c)
         \/ EndGenerate(t)
         \/ CreateDestination(t) \/ TakeSource(t) \/ StartDestination(t)
         \/ CommitOwner(t) \/ Settle(t) \/ UndoDestination(t)
         \/ Restore(t) \/ Recover(t) \/ BeginRestored(t) \/ Reopen(t) \/ Attach(t)
         \/ TakeGate(t) \/ DecideGate(t) \/ EndWork(t) \/ Delete(t)
    \/ \E c \in Conversation : Rename(c)
    \/ Prepare
    \/ Crash
    \/ InterruptRequests

HandoffSpec == HandoffInit /\ [][HandoffNext]_handoffVars

-----------------------------------------------------------------------------
(* Ownership through failed writes, crashes and replays is that of the     *)
(* abstract specification, read off the durable run file.                  *)
Promise == INSTANCE Ownership WITH
    owner <- disk.owner,
    past <- disk.past,
    told <- disk.journal = NoId,
    decided <- disk.decided
HandoffKeepsOwnership == Promise!OwnershipSpec

(* Once the journal is cleared, both conversations say what the run file   *)
(* says: no earlier owner has work of the run left, its owner has the      *)
(* response that waits, and the job at the gate, if any, is the owner's    *)
(* registered one.                                                         *)
BothSidesAreTold ==
    /\ disk.journal = NoId /\ loose = {} =>
          /\ \A c \in disk.past : row[c].job = NoId /\ row[c].status # "Pending"
          /\ row[disk.owner].stored => row[disk.owner].request # NoId
    /\ parked # NoId =>
          /\ parked.conversation = run.owner
          /\ registered[run.owner] = parked.job
          /\ row[run.owner].job = parked.job

(* "Startup completes both projections idempotently"                       *)
(* (docs/conversation-system.md:318).                                      *)
StartupCompletesHandoff == thread[Startup].pc # "refused"
=============================================================================
