--------------------------- MODULE WorkflowExecutor -------------------------
(***************************************************************************)
(* One configured workflow run, from launch to its end                     *)
(* (app/src/workflows/executor.rs), with the record it keeps in the run    *)
(* store (workflows/store.rs), the gate that parks it                      *)
(* (slices/human_gates.rs), the checkpoint that pauses it                  *)
(* (slices/conversations/continuation), the restoration of a gate after a  *)
(* restart (slices/conversations/handoff/recovery.rs) and the server's     *)
(* start (state.rs).                                                       *)
(*                                                                         *)
(* The worker is one task: each action ends where it stores the run or     *)
(* waits, so a crash, a stop or a purge falls between any two of them.     *)
(* Every write of the run may fail in the two ways of                      *)
(* storage::PrivateWriteError: nothing was written, or the new record is   *)
(* on disk and the caller is told that it is not.                          *)
(***************************************************************************)
EXTENDS WorkflowRecord

CONSTANTS
    Definitions,    \* the definitions a run may pin, as they are launched
    MaxFaults,      \* bound: writes that fail, and clocks set back
    MaxCrashes      \* bound: crashes of the server

(* A launch pins a definition of the catalogue, and those are validated.   *)
ASSUME DefinitionsAreValid ==
    Definitions \subseteq Seq(StepType) /\ \A d \in Definitions : Valid(d)

ASSUME BoundsAreNumbers == MaxFaults \in Nat /\ MaxCrashes \in Nat

VARIABLES
    definition,     \* the pinned definition
    memory, disk,   \* the run in the store's map, and in its file
    server,         \* "up", "down", "opened", "starting", or "refused" for good
    worker,         \* the task that drives the run
    job,            \* the job of that task: status, stop request, why it ended
    parked,         \* the registry holds the continuation of the gate
    session,        \* the session of the job: "live" or "gone"
    checkpoint,     \* the paused attempt the conversation offers to continue
    recovery,       \* an operation kept its leases: WorkflowExecution Recovery
    behind,         \* the wall clock is behind the latest fact of the run
    faults, crashes \* left of the bounds

vars == <<definition, memory, disk, server, worker, job, parked, session,
          checkpoint, recovery, behind, faults, crashes>>
held == <<definition, session, checkpoint, recovery, behind, crashes>>

Pc == {"idle", "loop", "step", "clean", "finish", "opened", "paused", "resume"}

NoOutcome == [end |-> "None", verdict |-> "None", cleanup |-> "None"]
Worker(pc, attempt, outcome) == [pc |-> pc, attempt |-> attempt, outcome |-> outcome]
Idle == Worker("idle", 0, NoOutcome)
Loop == Worker("loop", 0, NoOutcome)

JobActive == {"Running", "AwaitingDecision"}
JobEnded == {"Completed", "Failed", "Cancelled"}
NoJob == [status |-> "None", cancel |-> FALSE, why |-> ""]
NewJob(status) == [NoJob EXCEPT !.status = status]

OnTime == ~behind
Up == server = "up"
At_(pc) == Up /\ worker.pc = pc
Goto(pc) == worker' = [worker EXCEPT !.pc = pc]

Init ==
    /\ definition \in Definitions
    /\ memory = Create /\ disk = Create
    /\ server = "up" /\ worker = Loop
    /\ job = NewJob("Running")
    /\ parked = FALSE /\ session = "live"
    /\ checkpoint = 0 /\ recovery = FALSE /\ behind = FALSE
    /\ faults = MaxFaults /\ crashes = MaxCrashes

(***************************************************************************)
(* WorkflowRunStore::mutate: the record is replaced on disk, then in the   *)
(* map.  A refused transition writes nothing.                              *)
(***************************************************************************)
Mutate(results, Then, Otherwise) ==
    \/ \E next \in results :
           /\ memory' = next /\ disk' = next
           /\ UNCHANGED faults
           /\ Then
    \/ /\ results = {}
       /\ UNCHANGED <<memory, disk, faults>>
       /\ Otherwise
    \/ /\ results # {} /\ faults > 0
       /\ faults' = faults - 1
       /\ disk' \in results \union {disk}
       /\ UNCHANGED memory
       /\ Otherwise

NoMutation == UNCHANGED <<memory, disk, faults>>

(* settle_job: the task is over.                                           *)
Settle(status, why) ==
    /\ job' = [job EXCEPT !.status = status, !.why = why]
    /\ worker' = Idle

FailOperational == Settle("Failed", "store")

JobStatusOf(phase) ==
    CASE phase = "Completed" -> "Completed"
      [] phase = "Cancelled" -> "Cancelled"
      [] OTHER -> "Failed"

SettleTerminal(run) == Settle(JobStatusOf(run.state.phase), "")

-----------------------------------------------------------------------------
(***************************************************************************)
(* The top of the loop of drive_attempts.                                  *)
(***************************************************************************)
SettleEndedRun ==
    /\ At_("loop") /\ IsTerminal(memory)
    /\ SettleTerminal(memory)
    /\ NoMutation
    /\ UNCHANGED <<held, server, parked>>

StopIgnoringRefusal ==     \* a mutated StopAtTop
    /\ At_("loop") /\ ~IsTerminal(memory) /\ job.cancel
    /\ Mutate(Cancel(memory, OnTime), Settle("Cancelled", ""), Settle("Cancelled", ""))
    /\ UNCHANGED <<held, server, parked>>

StopAtTop ==
    /\ At_("loop") /\ ~IsTerminal(memory) /\ job.cancel
    /\ Mutate(Cancel(memory, OnTime), Settle("Cancelled", ""), FailOperational)
    /\ UNCHANGED <<held, server, parked>>

Proceeds == At_("loop") /\ ~IsTerminal(memory) /\ ~job.cancel

(* Authority or connection withdrawn, or an input that does not verify.    *)
(* The record is left as it is.                                            *)
RefuseAtTop ==
    /\ Proceeds
    /\ Settle("Failed", "refused")
    /\ NoMutation
    /\ UNCHANGED <<held, server, parked>>

Resumed == memory.state.phase = "Active" /\ memory.facts[memory.state.at].continuation
Step == memory.state.step

(* resolve_inputs of the executor: a reservation's rejected plan first.    *)
ExecutorInputs(d, run) ==
    LET inputs == ResolveWith(d, run.facts, run.state.step, LAMBDA i :
                      IF i.source = RunCurrentPlan THEN CurrentPlan(run)
                      ELSE LatestOutput(run.facts, i.source, i.kind))
    IN IF inputs # Unresolved /\ ~DecisionMatchesPlan(run.facts, inputs)
       THEN Unresolved ELSE inputs

StepInputs == ExecutorInputs(definition, memory)

FailToResolve ==
    /\ Proceeds /\ StepInputs = Unresolved
    /\ Settle("Failed", "unresolved")
    /\ NoMutation
    /\ UNCHANGED <<held, server, parked>>

OpenGate ==
    /\ Proceeds /\ StepInputs # Unresolved /\ IsGate(definition, Step)
    /\ Mutate(OpenPlanGate(definition, memory, PlanGiven(StepInputs), OnTime),
              Goto("opened") /\ UNCHANGED job, FailOperational)
    /\ UNCHANGED <<held, server, parked>>

(* The registry can hold nothing else: a gate is only restored for a       *)
(* conversation that no job has reserved.                                  *)
Park ==
    /\ At_("opened")
    /\ job' = [job EXCEPT !.status = "AwaitingDecision"]
    /\ parked' = TRUE
    /\ worker' = Idle
    /\ NoMutation
    /\ UNCHANGED <<held, server>>

Dispatches == Proceeds /\ StepInputs # Unresolved /\ ~IsGate(definition, Step)

(* The capabilities of the attempt cannot be derived: persist_fail.        *)
RefuseCapabilities ==
    /\ Dispatches
    /\ Mutate(IF Resumed THEN FailAttempt(memory, memory.state.at, OnTime)
              ELSE FailBeforeAttempt(memory),
              Settle("Failed", ""), FailOperational)
    /\ UNCHANGED <<held, server, parked>>

Start ==
    /\ Dispatches
    /\ IF Resumed
       THEN /\ worker' = Worker("step", memory.state.at, NoOutcome)
            /\ NoMutation /\ UNCHANGED job
       ELSE Mutate(StartAttempt(definition, memory, StepInputs, OnTime),
                   /\ worker' = Worker("step", Len(memory'.facts), NoOutcome)
                   /\ UNCHANGED job,
                   FailOperational)
    /\ UNCHANGED <<held, server, parked>>

-----------------------------------------------------------------------------
(***************************************************************************)
(* The step itself (isolate_and_run) and what follows it.                  *)
(***************************************************************************)
Outcome(end, verdict) == [end |-> end, verdict |-> verdict, cleanup |-> "Complete"]
FailedStep == Outcome("Failed", "None")
Verdicts ==
    IF "ReviewReport" \in definition[Step].outputs THEN ReviewVerdict ELSE {"None"}

(* How run_agent_action ends.  It is told to stop through the job alone.   *)
AgentOutcome ==
    {"Completed", "ProviderFailure", "ToolFailure", "AuthorityFailure",
     "PersistenceFailure", "UncertainEffect", "BudgetExhausted", "ContextBlocked"}
    \union IF job.cancel THEN {"Cancelled"} ELSE {}

(* run_agent_step: before the model runs, authority and connection, the    *)
(* instructions and the packet, and the settings, skills and history of a  *)
(* paused phase may each be refused.                                       *)
RefusedInstructions == {FailedStep}
RefusedContext == {FailedStep}

RunAgentStep ==
    LET refusals == {FailedStep} \union RefusedInstructions \union RefusedContext
        StepOutcome(ended, verdict) ==
            CASE ended = "Completed" -> Outcome("Completed", verdict)
              [] ended = "Cancelled" -> Outcome("Cancelled", "None")
              [] ended = "BudgetExhausted" -> Outcome("Paused", "None")
              [] OTHER -> FailedStep
    IN refusals \union {StepOutcome(e, v) : e \in AgentOutcome, v \in Verdicts}

(* run_system_exec: an approval that is refused, evidence that cannot be   *)
(* stored and a failed command are one error, and a stop if one was asked. *)
RunSystemExec ==
    {Outcome("Completed", "None"),
     IF job.cancel THEN Outcome("Cancelled", "None") ELSE FailedStep}

DispatchStep == IF IsAgent(definition, Step) THEN RunAgentStep ELSE RunSystemExec

(* The guest is stopped and removed, and only then the workspace is.       *)
Cleanups ==
    LET CleanupOf(guestGone, destroyed) ==
            IF guestGone /\ destroyed THEN "Complete" ELSE Orphaned
    IN {CleanupOf(guestGone, destroyed) : guestGone, destroyed \in BOOLEAN}

FailForOrphan(outcome, cleanup) ==
    [IF cleanup = "Complete" THEN outcome ELSE FailedStep EXCEPT !.cleanup = cleanup]

(* start_attempt_sandbox fails, also for a stop request.                   *)
FailedStarts == {FailForOrphan(FailedStep, c) : c \in Cleanups}
FailedWorkspaces == {[FailedStep EXCEPT !.cleanup = c] : c \in {"Complete", Orphaned}}

(* A host step has no guest and no workspace of its own.                   *)
IsolateAndRun ==
    FailedWorkspaces \union FailedStarts
    \union {FailForOrphan(o, c) : o \in DispatchStep, c \in Cleanups}
    \union IF IsAgent(definition, Step) THEN RunAgentStep ELSE {}

(* A pause that a stop request overtakes is a stop.                        *)
OvertakenByStop(outcome) ==
    IF outcome.end = "Paused" /\ job.cancel THEN [outcome EXCEPT !.end = "Cancelled"]
    ELSE outcome

RunStep ==
    /\ At_("step")
    /\ \E outcome \in IsolateAndRun :
           worker' = Worker("clean", worker.attempt, OvertakenByStop(outcome))
    /\ NoMutation
    /\ UNCHANGED <<held, server, parked, job>>

(* protect_cleanup_failure: the leases stay held until a restart.          *)
Protect ==
    /\ Settle("Failed", "protected")
    /\ recovery' = TRUE

PersistCleanup ==
    /\ At_("clean")
    /\ Mutate(RecordCleanup(memory, worker.attempt, worker.outcome.cleanup),
              IF worker.outcome.cleanup = "Complete"
              THEN Goto("finish") /\ UNCHANGED <<job, recovery>>
              ELSE Protect,
              Protect)
    /\ UNCHANGED <<definition, session, checkpoint, behind, crashes, server, parked>>

Ends(end) == At_("finish") /\ worker.outcome.end = end

PublishUntilStored ==     \* a mutated PublishSuccess
    /\ Ends("Completed")
    /\ Mutate(CompleteAttempt(definition, memory, worker.attempt,
                  Durable(definition[Step].outputs), worker.outcome.verdict, OnTime),
              worker' = Loop, UNCHANGED worker)
    /\ UNCHANGED <<held, server, parked, job>>

(* publish_success: a missing or unstorable output, or a refused record,   *)
(* makes it a failure.                                                     *)
PublishDraft(failed) == NoMutation /\ failed     \* it cannot be encoded or stored

PublishSuccess ==
    LET failed == worker' = [worker EXCEPT !.outcome.end = "Failed"] IN
    /\ Ends("Completed")
    /\ \/ Mutate(CompleteAttempt(definition, memory, worker.attempt,
                     Durable(definition[Step].outputs), worker.outcome.verdict, OnTime),
                 worker' = Loop, failed)
       \/ PublishDraft(failed)
    /\ UNCHANGED <<held, server, parked, job>>

PersistFail ==
    /\ Ends("Failed")
    /\ Mutate(FailAttempt(memory, worker.attempt, OnTime),
              Settle("Failed", ""), FailOperational)
    /\ UNCHANGED <<held, server, parked>>

PersistCancel ==
    /\ Ends("Cancelled")
    /\ Mutate(Cancel(memory, OnTime), Settle("Cancelled", ""), FailOperational)
    /\ UNCHANGED <<held, server, parked>>

(* pause_driven_job: first the run, then the conversation's checkpoint.    *)
PauseRun ==
    /\ Ends("Paused")
    /\ Mutate(PauseAttempt(definition, memory, worker.attempt, OnTime),
              Goto("paused") /\ UNCHANGED job, FailOperational)
    /\ UNCHANGED <<held, server, parked>>

(* pause_for_budget is refused when no reply is complete to resume after.  *)
PauseConversation ==
    /\ At_("paused")
    /\ \/ checkpoint' = worker.attempt /\ Settle("Completed", "")
       \/ UNCHANGED checkpoint /\ FailOperational
    /\ NoMutation
    /\ UNCHANGED <<definition, session, recovery, behind, crashes, server, parked>>

-----------------------------------------------------------------------------
(***************************************************************************)
(* The requests that act on the job, the gate and the checkpoint.          *)
(***************************************************************************)
(* cancel_message.  The continuation of a parked gate only sees it when it *)
(* is decided.                                                             *)
StopRequest ==
    /\ Up /\ job.status \in JobActive /\ ~job.cancel
    /\ job' = [job EXCEPT !.cancel = TRUE]
    /\ UNCHANGED <<held, server, parked, worker, memory, disk, faults>>

CanDecide == Up /\ parked /\ session = "live"

(* settle_terminal_job, or the task goes on with a job that runs again.    *)
GoOn ==
    /\ parked' = FALSE
    /\ IF IsTerminal(memory') THEN SettleTerminal(memory')
       ELSE /\ job' = [job EXCEPT !.status = "Running"]
            /\ worker' = Loop

PutBack == UNCHANGED <<parked, job, worker>>

Approve ==
    /\ CanDecide /\ ~recovery
    /\ Mutate(AcceptPlan(definition, memory, memory.state.at, OnTime), GoOn, PutBack)
    /\ UNCHANGED <<held, server>>

Revise ==
    /\ CanDecide /\ ~recovery
    /\ Mutate(RevisePlan(definition, memory, memory.state.at, OnTime), GoOn, PutBack)
    /\ UNCHANGED <<held, server>>

(* Cancel, and the discard that a switch of environment makes.             *)
DiscardGate ==
    /\ CanDecide
    /\ Mutate(CancelGate(memory, memory.state.at, OnTime),
              Settle("Cancelled", "") /\ parked' = FALSE, PutBack)
    /\ UNCHANGED <<held, server>>

(* ContinuationAuthority::Stale: the settings or consent have changed.     *)
InterruptStaleGate ==
    /\ CanDecide /\ ~recovery
    /\ Mutate(Interrupt(memory, OnTime),
              Settle("Cancelled", "") /\ parked' = FALSE, PutBack)
    /\ UNCHANGED <<held, server>>

(* interrupt_continuations, for a provider that is forgotten or a session  *)
(* that is purged.  A recoverable gate stays open for a later restoration. *)
EndContinuation ==
    Mutate(IF RecoverableGate(memory) THEN {memory} ELSE Interrupt(memory, OnTime),
           Settle("Cancelled", "") /\ parked' = FALSE, PutBack)

ForgetProvider ==
    /\ Up /\ parked
    /\ EndContinuation
    /\ UNCHANGED <<held, server>>

PurgeWithoutCancel ==     \* a mutated PurgeSession
    /\ Up /\ session = "live" /\ job.status \in JobActive
    /\ IF parked
       THEN /\ EndContinuation
            /\ session' = IF parked' THEN session ELSE "gone"
       ELSE /\ session' = "gone"
            /\ NoMutation /\ UNCHANGED <<parked, worker, job>>
    /\ UNCHANGED <<definition, checkpoint, recovery, behind, crashes, server>>

(* A session whose gate could not be interrupted is kept; one that goes    *)
(* asks the job it still has registered to stop.                           *)
PurgeSession ==
    /\ Up /\ session = "live" /\ job.status \in JobActive
    /\ IF parked
       THEN /\ EndContinuation
            /\ session' = IF parked' THEN session ELSE "gone"
       ELSE /\ session' = "gone"
            /\ job' = [job EXCEPT !.cancel = TRUE]
            /\ NoMutation /\ UNCHANGED <<parked, worker>>
    /\ UNCHANGED <<definition, checkpoint, recovery, behind, crashes, server>>

(* No job holds the conversation; a protected one keeps its reservation.   *)
ConversationFree == Up /\ job.status \notin JobActive /\ job.why # "protected"

(* restore: a new job takes the open gate over.                            *)
RestoreGate ==
    /\ ConversationFree /\ RecoverableGate(memory) /\ ~parked
    /\ job' = NewJob("AwaitingDecision")
    /\ parked' = TRUE /\ session' = "live"
    /\ NoMutation
    /\ UNCHANGED <<definition, checkpoint, recovery, behind, crashes, server, worker>>

(* continue_workflow: the checkpoint is claimed before the run is resumed. *)
ContinuePaused ==
    /\ ConversationFree /\ checkpoint # 0 /\ ~recovery
    /\ memory.state.phase = "Paused" /\ memory.state.at = checkpoint
    /\ checkpoint' = 0
    /\ session' = "live"
    /\ Mutate(ResumePaused(memory, checkpoint, OnTime),
              job' = NewJob("Running") /\ worker' = Worker("resume", 0, NoOutcome),
              job' = [NewJob("Failed") EXCEPT !.why = "store"] /\ worker' = Idle)
    /\ UNCHANGED <<definition, recovery, behind, crashes, server, parked>>

(* resume_workflow_job: without a connection the run is left as it is, and *)
(* a history that cannot be built cancels it, if the record allows that.   *)
ResumeWork ==
    /\ At_("resume")
    /\ \/ Goto("loop") /\ NoMutation /\ UNCHANGED job
       \/ Settle("Failed", "refused") /\ NoMutation
       \/ Mutate(Cancel(memory, OnTime), Settle("Failed", ""),
                 Settle("Failed", "refused"))
    /\ UNCHANGED <<held, server, parked>>

(* clear_continuation: the run is cancelled under the conversation's lock, *)
(* and the checkpoint stays if the conversation cannot be stored.          *)
EndPause ==
    /\ ConversationFree /\ checkpoint # 0
    /\ Mutate(IF IsTerminal(memory) THEN {memory}
              ELSE IF memory.state.phase = "Paused" THEN Cancel(memory, OnTime) ELSE {},
              checkpoint' \in {0, checkpoint}, UNCHANGED checkpoint)
    /\ UNCHANGED <<definition, session, recovery, behind, crashes, server, parked,
                   worker, job>>

-----------------------------------------------------------------------------
(***************************************************************************)
(* Crash and start.                                                        *)
(***************************************************************************)
(* What the map held is lost: the file counts.                             *)
Crash ==
    /\ crashes > 0 /\ server \in {"up", "opened", "starting"}
    /\ crashes' = crashes - 1
    /\ server' = "down"
    /\ memory' = disk
    /\ worker' = Idle /\ job' = NoJob /\ parked' = FALSE /\ session' = "gone"
    /\ recovery' = FALSE
    /\ UNCHANGED <<definition, disk, checkpoint, behind, faults>>

(* WorkflowRunStore::open reads every file: one that does not load stops   *)
(* every start.                                                            *)
OpenStore ==
    /\ server = "down"
    /\ server' = IF Loads(definition, disk) THEN "opened" ELSE "refused"
    /\ memory' = disk
    /\ UNCHANGED <<held, worker, job, parked, disk, faults>>

(* interrupt_active: a run the clock does not let interrupt, or that cannot*)
(* be stored, stops this start.                                            *)
InterruptActive ==
    /\ server = "opened"
    /\ IF IsActive(memory) /\ ~RecoverableGate(memory)
       THEN Mutate(Interrupt(memory, OnTime), server' = "starting", server' = "down")
       ELSE server' = "starting" /\ NoMutation
    /\ UNCHANGED <<held, worker, job, parked>>

PendingCleanup(run) == {a \in Attempts(run) : run.facts[a].cleanup = "Pending"}

(* pending_cleanup_attempts: what the recovery of guests and workspaces    *)
(* found is recorded before the server serves.                             *)
RecordRecovery ==
    /\ server = "starting"
    /\ IF PendingCleanup(memory) = {} THEN server' = "up" /\ NoMutation
       ELSE \E a \in PendingCleanup(memory), cleanup \in {"Complete", Orphaned} :
                Mutate(RecordCleanup(memory, a, cleanup), UNCHANGED server,
                       server' = "down")
    /\ UNCHANGED <<held, worker, job, parked>>

(* The wall clock is set back behind the latest fact, once, or catches up. *)
SetClock ==
    /\ behind' = ~behind
    /\ ~behind => faults > 0
    /\ faults' = IF behind THEN faults ELSE faults - 1
    /\ UNCHANGED <<definition, memory, disk, server, worker, job, parked, session,
                   checkpoint, recovery, crashes>>

-----------------------------------------------------------------------------
WorkerStep ==
    \/ SettleEndedRun \/ StopAtTop \/ RefuseAtTop \/ FailToResolve
    \/ OpenGate \/ Park \/ RefuseCapabilities \/ Start
    \/ RunStep \/ PersistCleanup \/ PublishSuccess \/ PersistFail
    \/ PersistCancel \/ PauseRun \/ PauseConversation \/ ResumeWork

Request ==
    \/ StopRequest \/ Approve \/ Revise \/ DiscardGate \/ InterruptStaleGate
    \/ ForgetProvider \/ PurgeSession \/ RestoreGate \/ ContinuePaused \/ EndPause

Next ==
    \/ WorkerStep \/ Request
    \/ Crash \/ OpenStore \/ InterruptActive \/ RecordRecovery \/ SetClock

(* The task is scheduled, and a step ends: its model calls and commands    *)
(* have budgets and timeouts.  Nothing is assumed of requests, nor that    *)
(* the server is started again.                                            *)
Spec == Init /\ [][Next]_vars /\ WF_vars(WorkerStep)

-----------------------------------------------------------------------------
WorkflowTypeOK ==
    /\ definition \in Definitions
    /\ server \in {"up", "down", "opened", "starting", "refused"}
    /\ worker.pc \in Pc
    /\ worker.attempt \in {0} \union Attempts(memory)
    /\ job.status \in JobActive \union JobEnded \union {"None"}
    /\ checkpoint \in {0} \union Attempts(memory)
    /\ faults \in 0 .. MaxFaults /\ crashes \in 0 .. MaxCrashes

(* The one record known not to load: a revision that was paused keeps its  *)
(* reservation (pause_attempt), which is only valid for an active attempt. *)
PausedRevision == disk.state.phase = "Paused" /\ IsReserved(disk)

(* Whatever was written, whole or with a failure reported, can be loaded   *)
(* by the next start: each transition of run.rs leaves a record that       *)
(* validate_loaded accepts, in any order the executor and the requests     *)
(* make them.                                                              *)
RunRecordLoads ==
    WorkflowTypeOK /\ (PausedRevision \/ Loads(definition, disk))

(* docs/conversation-system.md: revision decisions hold across restart,    *)
(* also when the revision was paused for its budget.                       *)
PausedRunLoads == disk.state.phase = "Paused" => Loads(definition, disk)

(* A job that ends tells what became of its run, unless it ended because   *)
(* the run could not be stored or was not allowed to go on.                *)
EndMatches(status, run) ==
    CASE status = "Completed" -> run.state.phase \in {"Completed", "Paused"}
      [] status = "Cancelled" -> \/ run.state.phase \in {"Cancelled", "Interrupted"}
                                 \/ RecoverableGate(run)
      [] status = "Failed" -> /\ IsTerminal(run)
                              /\ run.state.phase \notin {"Completed", "Cancelled"}

JobEndsAsItsRun ==
    [][/\ job.status \in JobActive
       /\ job'.status \in JobEnded
       /\ job'.why = ""
       => EndMatches(job'.status, memory')]_vars

(* While the server is up, what is open is attended: an attempt by its     *)
(* worker, a gate by its continuation or by the restoration the owner is   *)
(* offered.  The exceptions are the jobs that settle_job ends without the  *)
(* run: a write that failed or was refused, an authority or a connection   *)
(* that is gone, and a sandbox that could not be cleaned up.  A parked     *)
(* gate is out of reach only if its session was purged before it parked.   *)
AttemptIsDriven ==
    memory.state.phase = "Active" =>
        worker.pc # "idle" \/ job.why \in {"store", "refused", "protected"}

GateIsReachable ==
    memory.state.phase = "AwaitingHuman" =>
        \/ worker.pc = "opened"
        \/ parked /\ (session = "live" \/ job.cancel)
        \/ ConversationFree /\ RecoverableGate(memory)

OpenFactIsAttended == Up => AttemptIsDriven /\ GateIsReachable

(* The run goes through its steps in order, goes back only where a policy  *)
(* sends it and less often than the policy's limit, and never moves once   *)
(* it stopped: through failed writes, crashes, restarts and restorations.  *)
SentBack(run, s) ==
    {i \in DOMAIN run.facts :
        LET f == run.facts[i] IN
        /\ f.step = s
        /\ IF f.fact = "attempt" THEN f.route = "RevisionRequested"
           ELSE /\ f.state = "RevisionRequested"
                /\ ~(run.state = Escalated(s, "EscalatedAttemptLimit")
                        /\ i = Len(run.facts))}

Place(d, run) ==
    IF run.state.phase = "Completed" THEN Len(d) + 1
    ELSE IF IsTerminal(run) THEN 0 ELSE run.state.step

Busy(run) == run.state.phase \in {"Active", "Paused", "AwaitingHuman"}

Plan(d) ==
    [s \in Steps(d) |-> IF d[s].review # NoPolicy THEN d[s].review ELSE d[s].revision]

Progress == INSTANCE WorkflowProgress WITH
    plan <- Plan(definition),
    place <- Place(definition, memory),
    busy <- Busy(memory),
    returns <- [s \in Steps(definition) |-> Cardinality(SentBack(memory, s))]

ProgressIsKept == Progress!Spec

(* Every task that drives a run comes to rest: at a gate, at a pause, or   *)
(* with its job settled.  Revisions cannot keep it going for ever.         *)
WorkerRests == Up /\ worker.pc # "idle" ~> worker.pc = "idle"
=============================================================================
