------------------------------ MODULE AgentLoop -----------------------------
(***************************************************************************)
(* One agent action of a conversation: run_agent_action of                 *)
(* app/src/execution/agent.rs with its budget (execution/budget.rs), the   *)
(* store operations it writes its reply with (conversations/store.rs) and  *)
(* the settlement of what it returns (execution/conversation.rs).          *)
(*                                                                         *)
(* A round asks the model once, after as many failed attempts as it may    *)
(* retry, and runs the tools of its reply one after the other.  The reply  *)
(* is written to the pending phase of the conversation before the model is *)
(* asked, with every event of its stream, before the first tool runs and   *)
(* after each.  A stop, a deadline, a failing write and the end of the     *)
(* process may come between any two steps.                                 *)
(*                                                                         *)
(* The size of the context, the policy for compaction and the clock are    *)
(* the environment's: a choice wherever the code looks at them.  The       *)
(* attempts of a workflow run through the same loop but write evidence     *)
(* instead of a conversation; they are not modelled here.                  *)
(***************************************************************************)
EXTENDS Naturals, FiniteSets, SequencesExt

CONSTANTS
    Call,                     \* identifiers a model gives its tool calls
    MaximumModelRequests,     \* BudgetPolicy.model_requests
    MaximumToolDispatches,    \* BudgetPolicy.tool_dispatches
    MaximumRetries,           \* MAXIMUM_PROVIDER_RETRY_ATTEMPTS
    MaximumOverflowRecovery,  \* MAXIMUM_OVERFLOW_RECOVERY
    MaximumStalled,           \* MAXIMUM_STALLED_COMPACTIONS
    MaximumRequests,          \* bound: requests sent, those of summaries included
    AgentFaults               \* bound: store operations that fail

VARIABLES
    pc,         \* where the loop is
    reply,      \* AssistantReply: what the current request has produced
    budget,     \* Budget, retries, overflow recovery and the compaction guard
    phases,     \* the assistant messages the action has written, in order
    summaries,  \* summary_requests of the conversation
    covered,    \* phases covered by the conversation's compaction record
    steering,   \* a steering message waits for this job
    ended,      \* AgentActionEnd, once there is one
    stop,       \* job.cancel_requested()
    agentFaults,
    drawn,      \* request identifiers drawn
    sent,       \* requests that reached a provider
    ran         \* how often the tool of a call ran

written == <<phases, summaries, covered, steering>>
history == <<drawn, sent, ran>>
agentVars == <<pc, reply, budget, written, ended, stop, agentFaults, history>>

NoReply == [text |-> FALSE, requests |-> {}, open |-> {}, done |-> {},
            skipped |-> {}]
Phase(status, answer) ==
    [text |-> answer.text, requests |-> answer.requests, open |-> answer.open,
     done |-> answer.done, skipped |-> answer.skipped, status |-> status]
Pending == Phase("Pending", NoReply)
End(outcome, answer) == [outcome |-> outcome, answer |-> answer]

Calls(answer) == answer.open \union answer.done \union answer.skipped
IsEmpty(answer) == ~answer.text /\ Calls(answer) = {}

AgentInit ==
    /\ pc = "round"
    /\ reply = NoReply
    /\ budget = [requests |-> 0, dispatches |-> 0, elapsed |-> FALSE,
                 retries |-> 0, overflow |-> 0, compacted |-> FALSE,
                 stalled |-> 0]
    /\ phases = <<Pending>>
    /\ summaries = {} /\ covered = 0
    /\ steering \in BOOLEAN
    /\ ended = End("None", NoReply)
    /\ stop = FALSE
    /\ agentFaults = 0
    /\ drawn = 0 /\ sent = {} /\ ran = [k \in Call |-> 0]

-----------------------------------------------------------------------------
(* The budget.  Elapsed time is over at some point and stays over.         *)
ToolBlocked == budget.dispatches >= MaximumToolDispatches \/ budget.elapsed
RequestBlocked == budget.requests >= MaximumModelRequests \/ ToolBlocked

TimeIsUp ==
    /\ pc \notin {"ended", "settled", "stuck", "down"}
    /\ ~budget.elapsed
    /\ budget' = [budget EXCEPT !.elapsed = TRUE]
    /\ UNCHANGED <<pc, reply, written, ended, stop, agentFaults, history>>

Stop ==
    /\ pc \notin {"ended", "settled", "stuck", "down"}
    /\ ~stop
    /\ stop' = TRUE
    /\ UNCHANGED <<pc, reply, budget, written, ended, agentFaults, history>>

(* The ends.  A pause that finds the job stopped is a cancellation.        *)
EndWith(outcome, answer) ==
    /\ pc' = "ended"
    /\ ended' = End(outcome, answer)
    /\ UNCHANGED <<reply, budget>>

Paused(answer) ==
    EndWith(IF stop THEN "Cancelled" ELSE "BudgetExhausted", answer)

Goto(label) == pc' = label /\ UNCHANGED <<reply, budget, ended>>
Untouched == UNCHANGED <<written, agentFaults, stop, history>>

-----------------------------------------------------------------------------
(* The store.  A write is refused when a request or a call of its message  *)
(* is already that of another one, and may fail or leave its outcome open; *)
(* the action then ends with the reply it holds.                           *)
Requests(messages) == UNION {messages[i].requests : i \in DOMAIN messages}
CallsOf(messages) == UNION {Calls(messages[i]) : i \in DOMAIN messages}

UniqueIdentities(messages) ==
    \A i, j \in DOMAIN messages :
        i # j => /\ messages[i].requests \intersect messages[j].requests = {}
                 /\ Calls(messages[i]) \intersect Calls(messages[j]) = {}

CheckpointAccepted(messages) == UniqueIdentities(messages)

Store(messages) == phases' = messages /\ UNCHANGED agentFaults

StoreFailed(messages, answer) ==
    /\ agentFaults < AgentFaults
    /\ agentFaults' = agentFaults + 1
    /\ phases' \in {phases, messages}
    /\ EndWith("PersistenceFailure", answer)

StoreRefused(answer) ==
    /\ EndWith("PersistenceFailure", answer)
    /\ UNCHANGED <<phases, agentFaults>>

WithLast(message) == [phases EXCEPT ![Len(phases)] = message]

(* persist_output, which skips a reply that holds nothing at all.          *)
Checkpoint(answer, label) ==
    LET messages == WithLast(Phase("Pending", answer)) IN
    IF answer = NoReply
    THEN pc' = label /\ reply' = answer /\ UNCHANGED <<phases, agentFaults, ended>>
    ELSE \/ /\ CheckpointAccepted(messages)
            /\ Store(messages)
            /\ pc' = label /\ reply' = answer /\ UNCHANGED ended
         \/ CheckpointAccepted(messages) /\ StoreFailed(messages, answer)
         \/ ~CheckpointAccepted(messages) /\ StoreRefused(answer)

-----------------------------------------------------------------------------
(* A round: attachments are prepared, the budget allows a request.         *)
Round ==
    /\ pc = "round"
    /\ \/ EndWith("ContextBlocked", reply)
       \/ RequestBlocked /\ Paused(reply)
       \/ /\ ~RequestBlocked
          /\ pc' = "provider"
          /\ budget' = [budget EXCEPT !.retries = 0]
          /\ UNCHANGED <<reply, ended>>
    /\ Untouched

(* Before each attempt an overflow is answered by a compaction, once, and  *)
(* then a context that has grown to the threshold is compacted.            *)
Compactable == Len(phases) - 1 - covered >= 1
GuardBlocked == budget.stalled >= MaximumStalled

Attempt ==
    /\ pc = "provider"
    /\ \/ stop /\ EndWith("Cancelled", reply)
       \/ ~stop /\ RequestBlocked /\ Paused(reply)
       \/ /\ ~stop /\ ~RequestBlocked
          /\ budget.overflow > 0 /\ ~budget.compacted /\ ~GuardBlocked
          /\ budget' = [budget EXCEPT !.compacted = TRUE]
          /\ pc' = "compact"
          /\ UNCHANGED <<reply, ended>>
       \/ ~stop /\ ~RequestBlocked /\ Goto("fit")
    /\ Untouched

FitContext ==
    /\ pc = "fit"
    /\ \/ Compactable /\ ~GuardBlocked /\ Goto("compactThenFit")
       \/ Goto("admit")
       \/ EndWith("ContextBlocked", reply)
    /\ Untouched

(* compact_history: it writes each summary request before and after it is  *)
(* sent, and the record once they all succeeded.  Its ends carry no reply, *)
(* and with_reply puts the reply back unless the end is a cancellation.    *)
Compacting == {"compact", "compactThenFit", "compactThenSteer"}
Resume == [compact |-> "fit", compactThenFit |-> "admit",
           compactThenSteer |-> "steer"]

(* generate_summary: a failing store, a stop and a refusal of the provider *)
(* are told apart; otherwise the chunk is answered and the next one asked. *)
GenerateSummary ==
    /\ Cardinality(sent) < MaximumRequests
    /\ drawn' = drawn + 1
    /\ \/ /\ agentFaults < AgentFaults
          /\ agentFaults' = agentFaults + 1
          /\ summaries' \in {summaries, summaries \union {drawn + 1}}
          /\ EndWith("PersistenceFailure", reply)
          /\ UNCHANGED sent
       \/ /\ summaries' = summaries \union {drawn + 1}
          /\ sent' = sent \union {drawn + 1}
          /\ UNCHANGED agentFaults
          /\ \/ UNCHANGED pc /\ UNCHANGED <<reply, budget, ended>>
             \/ EndWith("ContextBlocked", reply)
             \/ /\ pc' = [compact |-> "commit", compactThenFit |-> "commitThenFit",
                          compactThenSteer |-> "commitThenSteer"][pc]
                /\ UNCHANGED <<reply, budget, ended>>

Summarise ==
    /\ pc \in Compacting
    /\ \/ /\ stop
          /\ EndWith("Cancelled", NoReply)
          /\ UNCHANGED <<summaries, agentFaults, drawn, sent>>
       \/ /\ ~stop
          /\ EndWith("ContextBlocked", reply)       \* no boundary, no capacity
          /\ UNCHANGED <<summaries, agentFaults, drawn, sent>>
       \/ ~stop /\ GenerateSummary
    /\ UNCHANGED <<phases, covered, steering, stop, ran>>

Committing == [commit |-> "fit", commitThenFit |-> "admit",
               commitThenSteer |-> "steer"]

CommitCompaction ==
    /\ pc \in DOMAIN Committing
    /\ \/ stop /\ EndWith("Cancelled", NoReply) /\ UNCHANGED <<covered, agentFaults>>
       \/ /\ ~stop
          /\ EndWith("ContextBlocked", reply)       \* the replacement does not fit
          /\ UNCHANGED <<covered, agentFaults>>
       \/ /\ ~stop
          /\ agentFaults < AgentFaults
          /\ agentFaults' = agentFaults + 1
          /\ EndWith("PersistenceFailure", reply)
          /\ UNCHANGED covered
       \/ /\ ~stop
          /\ covered' = IF Compactable THEN covered + 1 ELSE covered
          /\ \E reduced \in BOOLEAN :
                budget' = [budget EXCEPT !.stalled =
                              IF reduced THEN 0 ELSE @ + 1]
          /\ pc' = Committing[pc]
          /\ UNCHANGED <<reply, ended, agentFaults>>
    /\ UNCHANGED <<phases, summaries, steering, stop, history>>

-----------------------------------------------------------------------------
(* The request is counted and written, and then sent.                      *)
StartModelRequest(answer) ==
    LET messages == WithLast(Phase("Pending", answer)) IN
    /\ drawn' = drawn + 1
    /\ \/ StoreFailed(messages, answer)
       \/ /\ Store(messages)
          /\ budget' = [budget EXCEPT !.requests = @ + 1]
          /\ reply' = answer
          /\ pc' = "send"
          /\ UNCHANGED ended

Admit ==
    /\ pc = "admit"
    /\ \/ /\ stop
          /\ EndWith("Cancelled", reply)
          /\ UNCHANGED <<phases, agentFaults, drawn>>
       \/ /\ ~stop /\ RequestBlocked
          /\ Paused(reply)
          /\ UNCHANGED <<phases, agentFaults, drawn>>
       \/ /\ ~stop /\ ~RequestBlocked
          /\ Cardinality(sent) < MaximumRequests
          /\ StartModelRequest([reply EXCEPT !.requests = @ \union {drawn + 1}])
    /\ UNCHANGED <<summaries, covered, steering, stop, sent, ran>>

Send ==
    /\ pc = "send"
    /\ IF stop THEN EndWith("Cancelled", reply) /\ UNCHANGED sent
       ELSE Goto("stream") /\ sent' = sent \union {drawn}
    /\ UNCHANGED <<written, stop, agentFaults, drawn, ran>>

(* The stream: text, tool calls and the end of it; each event is written   *)
(* before the next is taken.                                               *)
Receive ==
    /\ pc = "stream" /\ ~stop
    /\ \/ ~reply.text /\ Checkpoint([reply EXCEPT !.text = TRUE], "stream")
       \/ \E k \in Call \ Calls(reply) :
             Checkpoint([reply EXCEPT !.open = @ \union {k}], "stream")
    /\ UNCHANGED <<budget, summaries, covered, steering, stop, history>>

(* Usage that does not add up, or a continuation that is malformed or      *)
(* holds the credential, ends the action as a failing deadline does.       *)
EventRefused == EndWith("ProviderFailure", reply)

StreamEnds ==
    /\ pc = "stream"
    /\ \/ stop /\ EndWith("Cancelled", reply)
       \/ ~stop /\ EventRefused
       \/ ~stop /\ Goto("replied")
    /\ Untouched

(* An attempt that failed: what it produced becomes a failed message of    *)
(* its own, and the request starts again from the reply it started with.   *)
RetryForgetting(wait) ==     \* a mutated RetryAfter: the failed attempt is dropped
    /\ Store(WithLast(Pending))
    /\ reply' = NoReply
    /\ budget' = wait
    /\ pc' = "provider"
    /\ UNCHANGED ended

RetryAfter(wait) ==
    LET failed == Phase("Failed", [NoReply EXCEPT !.text = reply.text,
                                                  !.requests = reply.requests])
        messages == WithLast(failed) \o <<Pending>>
    IN \/ /\ Store(messages)
          /\ reply' = NoReply
          /\ budget' = wait
          /\ pc' = "provider"
          /\ UNCHANGED ended
       \/ StoreFailed(messages, reply)

TakeRetry == budget.retries < MaximumRetries
Retried == [budget EXCEPT !.retries = @ + 1]

(* The same answers to an error wherever it shows: when the stream is      *)
(* opened, or as an event of it.                                           *)
RecoverFromOverflow ==
    /\ budget.overflow < MaximumOverflowRecovery
    /\ RetryAfter([budget EXCEPT !.overflow = @ + 1, !.compacted = FALSE])

RetryRequest == TakeRetry /\ RetryAfter(Retried)

Overflow ==
    /\ pc = "stream" /\ ~stop
    /\ \/ RecoverFromOverflow
       \/ EndWith("ContextBlocked", reply) /\ UNCHANGED <<phases, agentFaults>>
    /\ UNCHANGED <<summaries, covered, steering, stop, history>>

(* A failure that may be retried; one that may not ends the stream.        *)
ProviderFails ==
    /\ pc = "stream" /\ ~stop
    /\ RetryRequest
    /\ UNCHANGED <<summaries, covered, steering, stop, history>>

-----------------------------------------------------------------------------
(* The tools get the phase's authority, and the reply is written, before   *)
(* the first call is dispatched.                                           *)
BeginTools == reply.open # {} /\ Checkpoint(reply, "tools")

(* A reply without calls ends the action, unless it may be retried or      *)
(* steering arrived; one with calls must allow their dispatch.             *)
Replied ==
    /\ pc = "replied"
    /\ \/ stop /\ EndWith("Cancelled", reply) /\ UNCHANGED <<phases, agentFaults>>
       \/ /\ ~stop /\ reply.open = {} /\ ~reply.text
          /\ RetryRequest
       \/ /\ ~stop                              \* incomplete, refused, invalid
          /\ EndWith("ProviderFailure", reply)
          /\ UNCHANGED <<phases, agentFaults>>
       \/ /\ ~stop /\ reply.open = {} /\ reply.text
          /\ \/ Compactable /\ ~GuardBlocked /\ Goto("compactThenSteer")
             \/ Goto("steer")
          /\ UNCHANGED <<phases, agentFaults>>
       \/ ~stop /\ BeginTools /\ UNCHANGED budget
    /\ UNCHANGED <<summaries, covered, steering, stop, history>>

(* The tools, one after the other: a call that may not run any more is     *)
(* answered as not dispatched, with those that follow it.                  *)
NotDispatched(answer) ==
    [answer EXCEPT !.open = {}, !.skipped = @ \union answer.open]

Dispatch ==
    /\ pc = "tools" /\ ~ToolBlocked
    /\ \E k \in reply.open :
         /\ ran' = [ran EXCEPT ![k] = @ + 1]
         /\ pc' = "running"
         /\ reply' = [reply EXCEPT !.open = @ \ {k}, !.done = @ \union {k}]
         /\ budget' = [budget EXCEPT !.dispatches = @ + 1]
    /\ UNCHANGED <<written, ended, stop, agentFaults, drawn, sent>>

DispatchBlocked ==
    /\ pc = "tools" /\ reply.open # {} /\ ToolBlocked
    /\ Checkpoint(NotDispatched(reply), "batch")
    /\ UNCHANGED <<budget, summaries, covered, steering, stop, history>>

(* A tool returned; some failures end the action.                          *)
ToolReturns ==
    /\ pc = "running"
    /\ \/ Checkpoint(reply, IF stop THEN "stopped" ELSE "tools")
       \/ ~stop /\ Checkpoint(reply, "failed")
    /\ UNCHANGED <<budget, summaries, covered, steering, stop, history>>

SkipRest ==
    /\ pc \in {"stopped", "failed"}
    /\ LET answer == NotDispatched(reply)
           messages == WithLast(Phase("Pending", answer))
       IN \/ StoreFailed(messages, answer)
          \/ /\ Store(messages)
             /\ EndWith(IF pc = "stopped" THEN "Cancelled" ELSE "ToolFailure", answer)
    /\ UNCHANGED <<summaries, covered, steering, stop, history>>

BatchDone ==
    /\ pc = "tools" /\ reply.open = {}
    /\ Goto("batch")
    /\ Untouched

(* After the batch: the budget, then steering, then a phase of its own.    *)
(* Both writes start a new pending phase; the turns are loaded again, and  *)
(* an error there still ends the action with the reply just written.       *)
NewPhase(messages) ==
    \/ /\ Store(messages)
       /\ \/ /\ pc' = "round"
             /\ reply' = NoReply
             /\ budget' = [budget EXCEPT !.stalled = 0]
             /\ UNCHANGED ended
          \/ EndWith("ContextBlocked", reply)
    \/ StoreFailed(messages, reply)

DeliverSteering ==
    /\ steering
    /\ NewPhase(WithLast(Phase("Complete", reply)) \o <<Pending>>)
    /\ steering' \in {steering, FALSE}
    /\ (phases' = phases) = steering'

SettleBatch ==
    /\ NewPhase(WithLast(Phase("Complete", reply)) \o <<Pending>>)
    /\ UNCHANGED steering

Batch ==
    /\ pc = "batch"
    /\ \/ RequestBlocked /\ Paused(reply) /\ UNCHANGED <<phases, agentFaults, steering>>
       \/ ~RequestBlocked /\ ~stop /\ DeliverSteering
       \/ ~RequestBlocked /\ SettleBatch
    /\ UNCHANGED <<summaries, covered, stop, history>>

Steer ==
    /\ pc = "steer"
    /\ \/ ~stop /\ DeliverSteering
       \/ /\ EndWith("Completed", reply)
          /\ UNCHANGED <<phases, agentFaults, steering>>
    /\ UNCHANGED <<summaries, covered, stop, history>>

-----------------------------------------------------------------------------
(* settle and settle_pause write what the action returned over the pending *)
(* phase.  A pause drops a phase that holds nothing and needs a complete   *)
(* one to resume from.  What cannot be written stays active until restart. *)
Status == CASE ended.outcome \in {"Completed", "BudgetExhausted"} -> "Complete"
            [] ended.outcome = "Cancelled" -> "Interrupted"
            [] OTHER -> "Failed"

Settled ==
    IF ended.outcome = "BudgetExhausted" /\ IsEmpty(ended.answer) /\ IsEmpty(Last(phases))
    THEN Front(phases)
    ELSE WithLast(Phase(Status, ended.answer))

Resumable == \E i \in DOMAIN Settled : Settled[i].status = "Complete"

Settle ==
    /\ pc = "ended"
    /\ \/ /\ ended.outcome = "BudgetExhausted" => Resumable
          /\ phases' = Settled /\ pc' = "settled" /\ UNCHANGED agentFaults
       \/ /\ ended.outcome = "BudgetExhausted" /\ ~Resumable
          /\ pc' = "stuck" /\ UNCHANGED <<phases, agentFaults>>
       \/ /\ agentFaults < AgentFaults
          /\ agentFaults' = agentFaults + 1
          /\ phases' \in {phases, Settled}
          /\ pc' = "stuck"
    /\ UNCHANGED <<reply, budget, summaries, covered, steering, ended, stop, history>>

(* The process dies; the next start interrupts what is still pending.      *)
CrashAndRestart ==
    /\ pc \notin {"settled", "down"}
    /\ pc' = "down"
    /\ phases' = [i \in DOMAIN phases |->
                    IF phases[i].status = "Pending"
                    THEN [phases[i] EXCEPT !.status = "Interrupted"]
                    ELSE phases[i]]
    /\ UNCHANGED <<reply, budget, summaries, covered, steering, ended, stop,
                   agentFaults, history>>

AgentNext ==
    \/ TimeIsUp \/ Stop
    \/ Round \/ Attempt \/ FitContext \/ Summarise \/ CommitCompaction
    \/ Admit \/ Send \/ Receive \/ StreamEnds \/ Overflow \/ ProviderFails
    \/ Replied \/ Dispatch \/ DispatchBlocked \/ ToolReturns \/ SkipRest
    \/ BatchDone \/ Batch \/ Steer \/ Settle \/ CrashAndRestart

AgentSpec == AgentInit /\ [][AgentNext]_agentVars

-----------------------------------------------------------------------------
(* A tool ran at most once for a call, whatever was retried, repeated by   *)
(* the model or interrupted; a call that ran is in the conversation, and   *)
(* what the conversation says of it is true: "done" ran, "not dispatched"  *)
(* did not, and no complete phase leaves a call without a result.          *)
CallsIn(field) == UNION {phases[i][field] : i \in DOMAIN phases}

EffectsAreRecorded ==
    /\ \A k \in Call : ran[k] <= 1 /\ (ran[k] = 1 => k \in CallsOf(phases))
    /\ \A i \in DOMAIN phases :
          /\ \A k \in phases[i].done : ran[k] = 1
          /\ phases[i].status = "Complete" => phases[i].open = {}
    /\ pc # "stuck" => \A k \in CallsIn("skipped") :
          ran[k] = 0 \/ k \in CallsIn("done")

(* Every request that reached a provider is in the conversation, so its    *)
(* totals count it, whatever failed, was retried, stopped or compacted.    *)
(* A stop during the compaction that follows a finished reply is the       *)
(* exception: its end carries no reply, and the settlement writes that     *)
(* over the reply and its request.                                         *)
LostReply ==
    /\ pc \in {"settled", "stuck", "down"}
    /\ ended = End("Cancelled", NoReply) /\ reply.text

RequestsAreKept == ~LostReply => sent \subseteq Requests(phases) \union summaries

(* Nothing that was done or asked for is lost from the conversation.       *)
WorkIsRecorded == EffectsAreRecorded /\ RequestsAreKept
=============================================================================
