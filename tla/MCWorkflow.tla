----------------------------- MODULE MCWorkflow -----------------------------
EXTENDS WorkflowExecutor

PlanNow == Input("Plan", RunCurrentPlan)
Decision(s) == Input("PlanDecision", s)
Report(s) == Input("ReviewReport", s)

(* A planner, a human gate that may send the plan back once, and the agent *)
(* that carries the accepted plan out.                                     *)
PlanGateBuild == <<
    Agent("Read", {PlanNow}, {"Plan"}, NoPolicy),
    HumanGate({PlanNow}, Policy(1, 2)),
    Agent("Write", {PlanNow, Decision(2)}, {"AssistantReply"}, NoPolicy)>>

(* A writer whose reviewer may send it back once, after a command.         *)
BuildReview == <<
    SystemCommand,
    Agent("Write", {Report(3)}, {"TestReport"}, NoPolicy),
    Agent("Read", {Input("TestReport", 2)}, {"ReviewReport"}, Policy(2, 2))>>

(* The gate reads the first of two plans and sends it back: the revision   *)
(* is bound to that plan, and the record expects the latest one.           *)
TwoPlans == <<
    Agent("Read", {PlanNow}, {"Plan"}, NoPolicy),
    Agent("Read", {PlanNow}, {"Plan"}, NoPolicy),
    HumanGate({Input("Plan", 1)}, Policy(1, 2))>>

(* Two policies over the same steps: the reviewer's loop inside the gate's.*)
ReviewedPlan == <<
    Agent("Read", {PlanNow, Report(2)}, {"Plan"}, NoPolicy),
    Agent("Read", {Input("Plan", 1)}, {"ReviewReport"}, Policy(1, 2)),
    HumanGate({PlanNow}, Policy(1, 2))>>

(* The gate sends the planner back before the reviewer it hears from has   *)
(* run: its feedback is missing, and no longer allowed to be.              *)
LateReviewer == <<
    Agent("Read", {PlanNow, Report(3)}, {"Plan"}, NoPolicy),
    HumanGate({PlanNow}, Policy(1, 2)),
    Agent("Read", {PlanNow}, {"ReviewReport"}, Policy(1, 2))>>

Workflows == {PlanGateBuild, BuildReview, TwoPlans, ReviewedPlan, LateReviewer}

(* The definitions with two loops have the longest runs: each of these     *)
(* runs meets one failing write, clock that is set back or crash, and one  *)
(* of the other definitions as many as the bounds allow.                   *)
TwoLoops == {ReviewedPlan, LateReviewer}

Met == MaxFaults - faults + MaxCrashes - crashes
OneDisturbance == definition \in TwoLoops => Met' <= 1

MCSpec == Init /\ [][Next /\ OneDisturbance]_vars /\ WF_vars(WorkerStep)
=============================================================================
