----------------------------- MODULE WorkflowRun ----------------------------
(***************************************************************************)
(* The record of one workflow run (app/src/workflows/run.rs, gates.rs):    *)
(* its transitions and the validation a stored record passes when it is    *)
(* loaded.  Both are constant operators over a definition and a record.    *)
(*                                                                         *)
(* The source keeps attempts and gates in two lists that it merges by the  *)
(* time each was opened; here they are one sequence of facts in that       *)
(* order, and a fact is named by its place in it (attempt and gate ids are *)
(* random and never drawn twice).  An artefact is named by the fact that   *)
(* produced it and its kind.  A transition is the set of records it may    *)
(* return: the empty set is TransitionError::Invalid.                      *)
(***************************************************************************)
EXTENDS WorkflowDefinition

Reference(fact, kind) == [by |-> fact, kind |-> kind]
NoReference == Reference(0, "None")

AttemptOpen == {"Active", "Paused"}
Orphaned == "Orphaned"
ReviewVerdict == {"Approved", "RevisionRequired", "Blocked"}

Attempt(step, inputs) ==
    [fact |-> "attempt", step |-> step, inputs |-> inputs, outputs |-> {},
     verdict |-> "None", route |-> "None", state |-> "Active",
     cleanup |-> "Pending", continuation |-> FALSE]

Gate(step, plan) ==
    [fact |-> "gate", step |-> step, candidate |-> plan,
     state |-> "AwaitingDecision"]

(* RunState.  `at` is the attempt or the gate the state names.             *)
At(phase, step, fact) == [phase |-> phase, step |-> step, at |-> fact]
Ready(step) == At("Ready", step, 0)
Ended(phase) == At(phase, 0, 0)
Escalated(step, phase) == At(phase, step, 0)

TerminalPhase == {"Completed", "EscalatedBlocked", "EscalatedAttemptLimit",
                  "Failed", "Cancelled", "Interrupted"}
IsTerminal(run) == run.state.phase \in TerminalPhase
IsReady(run) == run.state.phase = "Ready"

(* The reserved attempt of a revision: `attempt` is 0 until it started.    *)
NoReservation == [gate |-> 0, target |-> 0, attempt |-> 0]
IsReserved(run) == run.reservation # NoReservation

IsActive(run) ==
    \/ run.state.phase \in {"Active", "AwaitingHuman"}
    \/ IsReady(run) /\ IsReserved(run)

ActiveAttempt(run) ==
    IF run.state.phase \in {"Active", "Paused"} THEN run.state.at ELSE 0

Create == [state |-> Ready(1), facts |-> <<>>, reservation |-> NoReservation]

Attempts(run) == {i \in DOMAIN run.facts : run.facts[i].fact = "attempt"}
Gates(run) == {i \in DOMAIN run.facts : run.facts[i].fact = "gate"}

-----------------------------------------------------------------------------
(***************************************************************************)
(* Resolution of inputs.                                                   *)
(***************************************************************************)
CompletedAttempt(f) == f.fact = "attempt" /\ f.state = "Completed"

LatestPlan(facts) ==
    LET i == SelectLastInSeq(facts, LAMBDA f : CompletedAttempt(f) /\ "Plan" \in f.outputs)
    IN IF i = 0 THEN NoReference ELSE Reference(i, "Plan")

LatestOutput(facts, step, kind) ==
    LET a == SelectLastInSeq(facts, LAMBDA f : CompletedAttempt(f) /\ f.step = step)
        g == SelectLastInSeq(facts, LAMBDA f :
                 f.fact = "gate" /\ f.step = step /\ f.state # "AwaitingDecision")
    IN CASE a # 0 /\ kind \in facts[a].outputs -> Reference(a, kind)
         [] a = 0 /\ g # 0 /\ facts[g].state \in {"Approved", "RevisionRequested"}
                  -> Reference(g, "PlanDecision")
         [] OTHER -> NoReference

(* A step that review feedback flows to may run without it until it or the *)
(* reviewer has completed once.                                            *)
AcceptsMissingInitialReview(d, facts, s, input) ==
    /\ IsReviewFeedback(d, s, input)
    /\ \A i \in DOMAIN facts :
           CompletedAttempt(facts[i]) => facts[i].step \notin {s, input.source}

(* What the record validates an attempt's inputs against: the facts before *)
(* it.  Unresolved means an input that is missing or of another kind.      *)
ResolvedBefore(facts, input) ==
    IF input.source = RunCurrentPlan THEN LatestPlan(facts)
    ELSE LatestOutput(facts, input.source, input.kind)

MayMiss(d, facts, s, input) ==
    \/ AcceptsMissingInitialPlan(d, s, input)
    \/ AcceptsMissingInitialReview(d, facts, s, input)

(* Inputs of an attempt: each declared input that was found, with the      *)
(* artefact found for it.                                                  *)
Unresolved == [i \in {Input("None", RunCurrentPlan)} |-> NoReference]

ResolveWith(d, facts, s, Source(_)) ==
    LET missing == {i \in d[s].inputs : Source(i) = NoReference}
    IN IF \E i \in missing : ~MayMiss(d, facts, s, i) THEN Unresolved
       ELSE [i \in d[s].inputs \ missing |-> Source(i)]

(* An accepted decision counts only for the plan it was made about.        *)
DecisionMatchesPlan(facts, inputs) ==
    \A ref \in Range(inputs) : ref.kind = "PlanDecision" =>
        /\ facts[ref.by].state = "Approved"
        /\ facts[ref.by].candidate \in Range(inputs)

ResolveInputsBefore(d, facts, s) ==
    LET inputs == ResolveWith(d, facts, s, LAMBDA i : ResolvedBefore(facts, i))
    IN IF inputs # Unresolved /\ ~DecisionMatchesPlan(facts, inputs)
       THEN Unresolved ELSE inputs

(* The plan an input gives, the first declared one if there are several.   *)
PlanGiven(inputs) ==
    LET plans == {i \in DOMAIN inputs : i.kind = "Plan"} IN
    IF plans = {} THEN NoReference
    ELSE inputs[CHOOSE i \in plans : \A j \in plans : i.source <= j.source]

(* current_plan: the rejected plan of a reservation comes first.           *)
CurrentPlan(run) ==
    IF IsReserved(run) THEN run.facts[run.reservation.gate].candidate
    ELSE LatestPlan(run.facts)

-----------------------------------------------------------------------------
(***************************************************************************)
(* Transitions.  `onTime` is accepts_time: false when the wall clock is     *)
(* behind the latest fact of the record, and most transitions are refused.*)
(***************************************************************************)
When(guard, next) == IF guard THEN {next} ELSE {}

AdvancedState(d, s) == IF s < Len(d) THEN Ready(s + 1) ELSE Ended("Completed")

OpenPlanGate(d, run, plan, onTime) ==
    LET s == run.state.step
        inputs == ResolveInputsBefore(d, run.facts, s) IN
    When(/\ onTime /\ IsReady(run) /\ IsGate(d, s)
         /\ plan.kind = "Plan"
         /\ inputs # Unresolved /\ plan \in Range(inputs),
         [run EXCEPT !.facts = Append(@, Gate(s, plan)),
                     !.state = At("AwaitingHuman", s, Len(run.facts) + 1)])

HumanRevisionCount(run, s) ==
    Cardinality({g \in Gates(run) : /\ run.facts[g].step = s
                                    /\ run.facts[g].state = "RevisionRequested"})

Awaits(run, g) ==
    /\ run.state.phase = "AwaitingHuman" /\ run.state.at = g
    /\ run.facts[g].state = "AwaitingDecision"

CloseGate(run, g, state, next) ==
    [run EXCEPT !.facts[g].state = state, !.state = next]

AcceptPlan(d, run, g, onTime) ==
    When(onTime /\ Awaits(run, g),
         CloseGate(run, g, "Approved", AdvancedState(d, run.state.step)))

RevisePlanOnceMore(d, run, g, onTime) ==     \* a mutated RevisePlan
    LET policy == d[run.state.step].revision IN
    IF ~(onTime /\ Awaits(run, g) /\ policy # NoPolicy /\ ~IsReserved(run)) THEN {}
    ELSE IF HumanRevisionCount(run, run.state.step) >= policy.limit
    THEN {CloseGate(run, g, "RevisionRequested", Escalated(run.state.step, "EscalatedAttemptLimit"))}
    ELSE {[CloseGate(run, g, "RevisionRequested", Ready(policy.target)) EXCEPT
              !.reservation = [gate |-> g, target |-> policy.target, attempt |-> 0]]}

(* A revision reserves the attempt that will answer it, unless the gate    *)
(* has already sent the plan back limit - 1 times.                         *)
RevisePlan(d, run, g, onTime) ==
    LET s == run.state.step
        policy == d[s].revision IN
    IF ~(onTime /\ Awaits(run, g) /\ policy # NoPolicy /\ ~IsReserved(run)) THEN {}
    ELSE IF HumanRevisionCount(run, s) >= policy.limit - 1
    THEN {CloseGate(run, g, "RevisionRequested", Escalated(s, "EscalatedAttemptLimit"))}
    ELSE {[CloseGate(run, g, "RevisionRequested", Ready(policy.target)) EXCEPT
              !.reservation = [gate |-> g, target |-> policy.target, attempt |-> 0]]}

CancelGate(run, g, onTime) ==
    When(onTime /\ Awaits(run, g),
         CloseGate(run, g, "Cancelled", Ended("Cancelled")))

(* The reservation binds the attempt to the rejected plan.                 *)
ReservationAllows(run, inputs) ==
    IsReserved(run) =>
        /\ run.reservation.attempt = 0
        /\ run.reservation.target = run.state.step
        /\ PlanGiven(inputs) = run.facts[run.reservation.gate].candidate

StartAttempt(d, run, inputs, onTime) ==
    LET s == run.state.step
        a == Len(run.facts) + 1 IN
    When(/\ onTime /\ IsReady(run)
         /\ \A i \in Attempts(run) : run.facts[i].state # "Active"
         /\ inputs # Unresolved /\ ReservationAllows(run, inputs)
         /\ inputs = ResolveInputsBefore(d, run.facts, s),
         [run EXCEPT !.facts = Append(@, Attempt(s, inputs)),
                     !.state = At("Active", s, a),
                     !.reservation = IF IsReserved(run) THEN [@ EXCEPT !.attempt = a]
                                     ELSE @])

RecordCleanup(run, a, cleanup) ==
    IF run.facts[a].cleanup = cleanup /\ cleanup # "Pending" THEN {run}
    ELSE When(run.facts[a].cleanup = "Pending" /\ cleanup # "Pending",
              [run EXCEPT !.facts[a].cleanup = cleanup])

(* next_ordinal of the attempts at one step.                               *)
Ordinal(run, a) ==
    Cardinality({i \in Attempts(run) : i <= a /\ run.facts[i].step = run.facts[a].step})

ReviewRouteOnceMore(d, run, a, verdict) ==     \* a mutated ReviewRoute
    IF verdict = "Approved" THEN "Approved"
    ELSE IF verdict = "Blocked" THEN "BlockedEscalation"
    ELSE IF Ordinal(run, a) <= d[run.facts[a].step].review.limit THEN "RevisionRequested"
    ELSE "AttemptLimitEscalation"

(* review_consumption: where a report sends the run.                       *)
ReviewRoute(d, run, a, verdict) ==
    LET s == run.facts[a].step
        policy == d[s].review IN
    IF verdict = "Approved" THEN "Approved"
    ELSE IF verdict = "Blocked" THEN "BlockedEscalation"
    ELSE IF Ordinal(run, a) < policy.limit THEN "RevisionRequested"
    ELSE "AttemptLimitEscalation"

RoutedState(d, s, route) ==
    CASE route \in {"None", "Approved"} -> AdvancedState(d, s)
      [] route = "RevisionRequested" -> Ready(d[s].review.target)
      [] route = "BlockedEscalation" -> Escalated(s, "EscalatedBlocked")
      [] route = "AttemptLimitEscalation" -> Escalated(s, "EscalatedAttemptLimit")

RouteOf(d, run, a, verdict) ==
    IF d[run.facts[a].step].review = NoPolicy THEN "None"
    ELSE ReviewRoute(d, run, a, verdict)

FinishAttempt(run, a, state, next) ==
    IF run.facts[a].state \notin AttemptOpen THEN {}
    ELSE {[run EXCEPT !.facts[a].state = state, !.state = next,
                      !.reservation = NoReservation]}

(* record_attempt_outputs and complete_attempt, one mutation of the store. *)
(* Only the reservation of this very attempt is released.                  *)
CompleteAttempt(d, run, a, outputs, verdict, onTime) ==
    LET s == run.facts[a].step
        route == RouteOf(d, run, a, verdict) IN
    When(/\ onTime /\ run.state.phase = "Active" /\ run.state.at = a
         /\ run.facts[a].state = "Active"
         /\ run.facts[a].cleanup = "Complete"
         /\ outputs = Durable(d[s].outputs),
         [run EXCEPT
             !.facts[a].state = "Completed", !.facts[a].outputs = outputs,
             !.facts[a].verdict = verdict, !.facts[a].route = route,
             !.state = RoutedState(d, s, route),
             !.reservation = IF @.attempt = a THEN NoReservation ELSE @])

PauseAttempt(d, run, a, onTime) ==
    LET s == run.facts[a].step IN
    When(/\ onTime /\ run.state.phase = "Active" /\ run.state.at = a
         /\ run.facts[a].state = "Active" /\ run.facts[a].cleanup = "Complete"
         /\ IsAgent(d, s),
         [run EXCEPT !.facts[a].state = "Paused", !.facts[a].continuation = TRUE,
                     !.state = At("Paused", s, a)])

ResumePaused(run, a, onTime) ==
    When(/\ onTime /\ run.state.phase = "Paused" /\ run.state.at = a
         /\ run.facts[a].state = "Paused" /\ run.facts[a].cleanup = "Complete",
         [run EXCEPT !.facts[a].state = "Active", !.facts[a].cleanup = "Pending",
                     !.state = At("Active", run.state.step, a)])

FailBeforeAttempt(run) ==
    When(IsReady(run), [run EXCEPT !.state = Ended("Failed"),
                                   !.reservation = NoReservation])

FailAttempt(run, a, onTime) ==
    IF /\ onTime /\ run.state.phase = "Active" /\ run.state.at = a
       /\ run.facts[a].cleanup # "Pending"
    THEN FinishAttempt(run, a, "Failed", Ended("Failed")) ELSE {}

Cancel(run, onTime) ==
    LET a == ActiveAttempt(run) IN
    CASE onTime /\ IsReady(run) ->
           {[run EXCEPT !.state = Ended("Cancelled"), !.reservation = NoReservation]}
      [] onTime /\ a # 0 /\ run.facts[a].cleanup # "Pending" ->
           FinishAttempt(run, a, "Cancelled", Ended("Cancelled"))
      [] onTime /\ run.state.phase = "AwaitingHuman" ->
           CancelGate(run, run.state.at, onTime)
      [] OTHER -> {}

Interrupt(run, onTime) ==
    CASE onTime /\ IsReady(run) ->
           {[run EXCEPT !.state = Ended("Interrupted"), !.reservation = NoReservation]}
      [] onTime /\ run.state.phase = "AwaitingHuman" ->
           When(Awaits(run, run.state.at),
                CloseGate(run, run.state.at, "Interrupted", Ended("Interrupted")))
      [] onTime /\ run.state.phase = "Active" ->
           FinishAttempt(run, run.state.at, "Interrupted", Ended("Interrupted"))
      [] OTHER -> {}

RecoverableGate(run) ==
    /\ run.state.phase = "AwaitingHuman"
    /\ \A a \in Attempts(run) : run.facts[a].cleanup = "Complete"
=============================================================================
