------------------------------- MODULE Waiters ------------------------------
(***************************************************************************)
(* The two stores of one-shot answers: HostApprovalStore                   *)
(* (app/src/execution/approval.rs), where a shell command waits for the    *)
(* user's approval, and QuestionWaiters (app/src/conversations/            *)
(* questions.rs), where the tool ask_user waits for an answer.             *)
(*                                                                         *)
(* Both keep a request in two maps, each under a mutex of its own:         *)
(* `pending` holds what a handler may still decide, `inflight` what the    *)
(* task that asked has yet to take.  A submission changes both maps under  *)
(* both locks.  An invalidation visits them one after the other, holding   *)
(* one lock at a time, so it is two steps and others come in between.      *)
(*                                                                         *)
(* A request is told apart by its token (an approval) or its tool call (a  *)
(* question), both drawn once.  The flag `claimed` is left out: the task   *)
(* that submits a request is the only one that waits for it.               *)
(***************************************************************************)
EXTENDS SessionStore, Naturals

CONSTANTS
    RequestId,         \* tokens of approvals and tool calls of questions
    NoRequest,         \* absence of a request
    MAXIMUM_PENDING    \* bound of the approval store's maps

VARIABLES
    request,      \* kind, job and session of each request drawn so far
    store,        \* per kind: `pending`, the requests that accept a decision,
                  \* and `inflight`, those whose task has not taken the outcome
    decision,     \* PendingHostCommand.decision, PendingWait.answer
    invalidated,  \* requests with the flag `invalidated`
    permit,       \* requests whose Notify holds the permit of notify_one
    consumed      \* HostApprovalStore.consumed

waiterVars == <<request, store, decision, invalidated, permit, consumed>>

Kind == {"approval", "question"}
Map == {"pending", "inflight"}
Decision == {"Approved", "Rejected", "Answered"}
Asked == [kind : Kind, job : JobId, session : SessionId]

ASSUME NoRequestAssumption == NoRequest \notin RequestId \union Asked

Drawn == {r \in RequestId : request[r] # NoRequest}
OfJob(j) == {r \in Drawn : request[r].job = j}
OfDeadSession == {r \in Drawn : ~Live(request[r].session)}

WaitersInit ==
    /\ request = [r \in RequestId |-> NoRequest]
    /\ store = [k \in Kind |-> [m \in Map |-> {}]]
    /\ decision = [r \in RequestId |-> "none"]
    /\ invalidated = {}
    /\ permit = {}
    /\ consumed = {}

-----------------------------------------------------------------------------
(* An approval is refused while its job has one in flight or a map is      *)
(* full, a question while its job has one in either map.                   *)
Accepts(kind, j) ==
    /\ store[kind].inflight \intersect OfJob(j) = {}
    /\ kind = "question" => store[kind].pending \intersect OfJob(j) = {}
    /\ kind = "approval" =>
          /\ Cardinality(store[kind].pending) < MAXIMUM_PENDING
          /\ Cardinality(store[kind].inflight) < MAXIMUM_PENDING

Submit(r, kind, j, s) ==
    /\ r \notin Drawn
    /\ Accepts(kind, j)
    /\ request' = [request EXCEPT ![r] =
                      [kind |-> kind, job |-> j, session |-> s]]
    /\ store' = [store EXCEPT ![kind] =
                    [m \in Map |-> store[kind][m] \union {r}]]
    /\ UNCHANGED <<decision, invalidated, permit, consumed>>

DecideTwice(r, d) ==     \* a mutated Decide: the request stays decidable
    /\ r \in store.approval.pending
    /\ consumed' = {r}
    /\ decision' = [decision EXCEPT ![r] = d]
    /\ permit' = permit \union {r}
    /\ UNCHANGED <<request, store, invalidated>>

(* HostApprovalStore::decide, after its comparison of the whole request.   *)
(* Tokens are forgotten at the bound: a request that was decided is no     *)
(* longer pending, which refuses it as well.                               *)
Decide(r, d) ==
    /\ r \notin consumed
    /\ r \in store.approval.pending
    /\ store' = [store EXCEPT !.approval.pending = @ \ {r}]
    /\ consumed' = IF Cardinality(consumed) >= MAXIMUM_PENDING
                   THEN {r} ELSE consumed \union {r}
    /\ decision' = [decision EXCEPT ![r] = d]
    /\ permit' = permit \union {r}
    /\ UNCHANGED <<request, invalidated>>

StoreWithoutNotify(r, d) ==     \* a mutated StoreAnswer
    /\ decision' = [decision EXCEPT ![r] = d]
    /\ UNCHANGED <<request, store, invalidated, permit, consumed>>

(* QuestionWaiters::decide stores the answer and notifies, and removes the *)
(* question from `pending` at the end, all under that map's lock.          *)
StoreAnswer(r, d) ==
    /\ decision' = [decision EXCEPT ![r] = d]
    /\ permit' = permit \union {r}
    /\ UNCHANGED <<request, store, invalidated, consumed>>

RemoveAnswered(r) ==
    /\ store' = [store EXCEPT !.question.pending = @ \ {r}]
    /\ UNCHANGED <<request, decision, invalidated, permit, consumed>>

(* The task that asked lets go of the request: its Notify and its flags    *)
(* are freed unless a map still refers to them.                            *)
Forget(r) ==
    LET freed == {r} \ store[request[r].kind].pending
    IN /\ invalidated' = invalidated \ freed
       /\ permit' = permit \ freed
       /\ UNCHANGED <<request, store, decision, consumed>>

(* The waiting task takes the decision.                                    *)
TakeDecision(r) ==
    /\ store' = [store EXCEPT ![request[r].kind].inflight = @ \ {r}]
    /\ UNCHANGED <<request, decision, invalidated, permit, consumed>>

InvalidateSilently(kind, map, scope) ==     \* a mutated InvalidatePass
    /\ invalidated' = invalidated \union (store[kind][map] \intersect scope)
    /\ store' = [store EXCEPT ![kind][map] = @ \ scope]
    /\ UNCHANGED <<request, decision, permit, consumed>>

(* One `retain` of invalidate_job, invalidate_conversation or              *)
(* retain_sessions: the requests of `scope` leave the map, flagged and     *)
(* notified.                                                               *)
InvalidatePass(kind, map, scope) ==
    LET dropped == store[kind][map] \intersect scope
    IN /\ invalidated' = invalidated \union dropped
       /\ permit' = permit \union dropped
       /\ store' = [store EXCEPT ![kind][map] = @ \ dropped]
       /\ UNCHANGED <<request, decision, consumed>>

-----------------------------------------------------------------------------
WaitersTypeOK ==
    /\ request \in [RequestId -> Asked \union {NoRequest}]
    /\ store \in [Kind -> [Map -> SUBSET RequestId]]
    /\ decision \in [RequestId -> Decision \union {"none"}]
    /\ invalidated \subseteq RequestId
    /\ permit \subseteq RequestId
    /\ consumed \subseteq RequestId

(* "permit one decision" (docs/conversation-system.md:128): a decision     *)
(* that was accepted is never replaced by a later one, also after its      *)
(* token was forgotten.                                                    *)
DecisionIsFinal ==
    [][\A r \in RequestId :
          decision[r] # "none" => decision'[r] = decision[r]]_waiterVars
=============================================================================
