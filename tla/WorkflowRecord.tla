---------------------------- MODULE WorkflowRecord --------------------------
(***************************************************************************)
(* What a stored run must satisfy to be loaded again (validate_loaded and  *)
(* its parts in app/src/workflows/run.rs).  The transitions of WorkflowRun *)
(* never call these checks: a record that one of them leaves and that does *)
(* not pass makes the run store refuse to open, and the server with it.    *)
(***************************************************************************)
EXTENDS WorkflowRun

Before(run, i) == SubSeq(run.facts, 1, i - 1)

(***************************************************************************)
(* validate_artefacts, with validate_attempt_references: every artefact a  *)
(* fact refers to was left by an earlier fact of that kind.                *)
(***************************************************************************)
Stored(run, i, ref) ==
    /\ ref.by \in 1 .. i - 1
    /\ LET f == run.facts[ref.by] IN
         \/ f.fact = "attempt" /\ ref.kind \in f.outputs
         \/ /\ f.fact = "gate" /\ ref.kind = "PlanDecision"
            /\ f.state \in {"Approved", "RevisionRequested"}

ReferencesLoad(run, i) ==
    /\ \A ref \in Range(run.facts[i].inputs) : Stored(run, i, ref)
    /\ \A input \in DOMAIN run.facts[i].inputs :
           run.facts[i].inputs[input].kind = input.kind

ArtefactsLoad(run) ==
    /\ \A i \in Attempts(run) : ReferencesLoad(run, i)
    /\ \A i \in Gates(run) : Stored(run, i, run.facts[i].candidate)

ArtefactCount(run) ==
    Cardinality({i \in Gates(run) :
                    run.facts[i].state \in {"Approved", "RevisionRequested"}})
    + MapThenSumSet(LAMBDA i : Cardinality(run.facts[i].outputs), Attempts(run))

(***************************************************************************)
(* validate_attempts, validate_attempt_result, validate_attempt_isolation. *)
(***************************************************************************)
AttemptResultLoads(d, f) ==
    \/ f.state = "Active"
    \/ f.state = "Paused" /\ f.continuation /\ IsAgent(d, f.step)
    \/ f.state = "Completed" /\ f.outputs = Durable(d[f.step].outputs)
    \/ f.state \in {"Failed", "Cancelled", "Interrupted"}

AttemptIsolationLoads(f) ==
    CASE f.state \in {"Completed", "Paused"} -> f.cleanup = "Complete"
      [] f.state \in {"Active", "Interrupted"} -> TRUE
      [] f.state \in {"Failed", "Cancelled"} -> f.cleanup # "Pending"

AttemptsLoad(d, run) ==
    \A i \in Attempts(run) :
        LET f == run.facts[i] IN
        /\ f.state \in AttemptOpen => \A j \in Attempts(run) : j <= i
        /\ ~IsGate(d, f.step)
        /\ f.inputs = ResolveInputsBefore(d, Before(run, i), f.step)
        /\ AttemptResultLoads(d, f)
        /\ AttemptIsolationLoads(f)

(***************************************************************************)
(* validate_gates: only the last gate may be open.                         *)
(***************************************************************************)
GatesLoad(d, run) ==
    \A i \in Gates(run) :
        LET f == run.facts[i] IN
        /\ IsGate(d, f.step)
        /\ f.candidate.kind = "Plan"
        /\ f.state = "AwaitingDecision" => \A j \in Gates(run) : j <= i

(***************************************************************************)
(* validate_review_routes: the route of a completed review follows from    *)
(* its report and its ordinal.                                             *)
(***************************************************************************)
ReviewRoutesLoad(d, run) ==
    \A i \in Attempts(run) :
        LET f == run.facts[i] IN
        f.route = IF f.state = "Completed" THEN RouteOf(d, run, i, f.verdict)
                  ELSE "None"

(***************************************************************************)
(* validate_revision_reservation.                                          *)
(***************************************************************************)
ReservationLoads(d, run) ==
    IsReserved(run) =>
        LET r == run.reservation
            gate == run.facts[r.gate] IN
        /\ gate.fact = "gate" /\ gate.state = "RevisionRequested"
        /\ d[gate.step].revision.target = r.target
        /\ IF r.attempt = 0 THEN run.state = Ready(r.target)
           ELSE run.state = At("Active", r.target, r.attempt)

(***************************************************************************)
(* validate_state_facts: the state the facts lead to.                      *)
(***************************************************************************)
PredictedFromAttempt(d, run, i) ==
    LET f == run.facts[i] IN
    CASE f.state \in AttemptOpen -> At(f.state, f.step, i)
      [] f.state = "Completed" -> RoutedState(d, f.step, f.route)
      [] OTHER -> Ended(f.state)

RevisionsUpTo(run, i) ==
    Cardinality({g \in Gates(run) : /\ g <= i
                                    /\ run.facts[g].step = run.facts[i].step
                                    /\ run.facts[g].state = "RevisionRequested"})

PredictedFromGate(d, run, i) ==
    LET f == run.facts[i]
        policy == d[f.step].revision IN
    CASE f.state = "AwaitingDecision" -> At("AwaitingHuman", f.step, i)
      [] f.state = "Approved" -> AdvancedState(d, f.step)
      [] f.state = "RevisionRequested" ->
             IF RevisionsUpTo(run, i) >= policy.limit
             THEN Escalated(f.step, "EscalatedAttemptLimit") ELSE Ready(policy.target)
      [] OTHER -> Ended(f.state)

Predicted(d, run, i) ==
    IF i = 0 THEN Ready(1)
    ELSE IF run.facts[i].fact = "attempt" THEN PredictedFromAttempt(d, run, i)
    ELSE PredictedFromGate(d, run, i)

(* The candidate of a gate was among the inputs its step resolved to.      *)
CandidateResolves(d, run, i) ==
    LET inputs == ResolveInputsBefore(d, Before(run, i), run.facts[i].step)
    IN inputs # Unresolved /\ run.facts[i].candidate \in Range(inputs)

StateFactsLoad(d, run) ==
    /\ \A i \in DOMAIN run.facts :
           /\ Predicted(d, run, i - 1) = Ready(run.facts[i].step)
           /\ i \in Gates(run) => CandidateResolves(d, run, i)
    /\ LET expected == Predicted(d, run, Len(run.facts)) IN
         \/ run.state = expected
         \/ /\ expected.phase = "Ready"
            /\ run.state \in {Ended(p) : p \in {"Failed", "Cancelled", "Interrupted"}}

Loads(d, run) ==
    /\ Len(run.facts) <= AttemptBound(d)
    /\ ArtefactCount(run) <= MAXIMUM_ARTEFACTS
    /\ ArtefactsLoad(run)
    /\ AttemptsLoad(d, run)
    /\ GatesLoad(d, run)
    /\ ReviewRoutesLoad(d, run)
    /\ ReservationLoads(d, run)
    /\ StateFactsLoad(d, run)
=============================================================================
