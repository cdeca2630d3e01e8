------------------------- MODULE WorkflowDefinition -------------------------
(***************************************************************************)
(* Workflow definitions (app/src/workflows/definition.rs): an ordered list *)
(* of steps, what each step reads and produces, and the policies that send *)
(* a run back to an earlier step.  Everything here is a constant operator: *)
(* a run pins its definition when it is launched and never changes it.     *)
(*                                                                         *)
(* A step is named by its position (keys are unique: that is what          *)
(* reject_duplicate_steps establishes) and produces at most one output of  *)
(* a kind, so an output is named by its kind.  Names, roles, prompts and   *)
(* key syntax carry no control and are left out.                           *)
(***************************************************************************)
EXTENDS Integers, Sequences, FiniteSets, SequencesExt, FiniteSetsExt

CONSTANTS
    MAXIMUM_REVIEW_ATTEMPTS, \* the largest attempt_limit of a policy
    MAXIMUM_RUN_ATTEMPTS,    \* the largest attempt bound of a definition
    MAXIMUM_ARTEFACTS        \* the largest artefact bound of a definition

ASSUME MaximaAreNumbers ==
    /\ MAXIMUM_REVIEW_ATTEMPTS \in Nat
    /\ MAXIMUM_RUN_ATTEMPTS \in Nat
    /\ MAXIMUM_ARTEFACTS \in Nat

ArtefactKind == {"Plan", "ReviewReport", "TestReport", "PlanDecision"}

(* AssistantReply is an output that leaves no artefact.                    *)
OutputKind == ArtefactKind \union {"AssistantReply"}
Durable(kinds) == kinds \intersect ArtefactKind

(* ArtefactSource: RunCurrentPlan, or the output of the step at a position.*)
RunCurrentPlan == 0
Input(kind, source) == [kind |-> kind, source |-> source]

NoPolicy == [target |-> 0, limit |-> 0]
Policy(target, limit) == [target |-> target, limit |-> limit]

(***************************************************************************)
(* The three actions of a step.  A review policy sits on the step, a       *)
(* revision policy on the human gate.                                      *)
(***************************************************************************)
Agent(access, inputs, outputs, review) ==
    [action |-> "Agent", access |-> access, inputs |-> inputs,
     outputs |-> outputs, review |-> review, revision |-> NoPolicy]

SystemCommand ==
    [action |-> "SystemCommand", access |-> "Read", inputs |-> {},
     outputs |-> {}, review |-> NoPolicy, revision |-> NoPolicy]

HumanGate(inputs, revision) ==
    [action |-> "HumanGate", access |-> "Read", inputs |-> inputs,
     outputs |-> {"PlanDecision"}, review |-> NoPolicy, revision |-> revision]

PolicyType == [target : Nat, limit : Nat]
StepType ==
    [action : {"Agent", "SystemCommand", "HumanGate"}, access : {"Read", "Write"},
     inputs : SUBSET [kind : ArtefactKind, source : Nat],
     outputs : SUBSET OutputKind, review : PolicyType, revision : PolicyType]

Steps(d) == DOMAIN d
IsAgent(d, s) == d[s].action = "Agent"
IsGate(d, s) == d[s].action = "HumanGate"
Inputs(d, s, kind) == {i \in d[s].inputs : i.kind = kind}

(* Input that a reviewer's report feeds back to the step it sends work to. *)
IsReviewFeedback(d, s, input) ==
    /\ input.kind = "ReviewReport"
    /\ input.source \in Steps(d)
    /\ d[input.source].review.target = s
    /\ "ReviewReport" \in d[input.source].outputs

(* A read-only agent that writes a plan may run before there is one.       *)
AcceptsMissingInitialPlan(d, s, input) ==
    /\ input = Input("Plan", RunCurrentPlan)
    /\ IsAgent(d, s) /\ d[s].access = "Read"
    /\ "Plan" \in d[s].outputs

(***************************************************************************)
(* Bounds.  Each policy may repeat the steps from its target to itself     *)
(* limit - 1 times.                                                        *)
(***************************************************************************)
Policies(d) ==
    LET Of(s, p) == [from |-> s, target |-> p.target, limit |-> p.limit] IN
    {Of(s, d[s].review) : s \in {s \in Steps(d) : d[s].review # NoPolicy}} \union
    {Of(s, d[s].revision) : s \in {s \in Steps(d) : d[s].revision # NoPolicy}}

Interval(p) == p.target .. p.from
Repeats(p) == p.limit - 1

AttemptBound(d) ==
    Len(d) + MapThenSumSet(LAMBDA p : Cardinality(Interval(p)) * Repeats(p),
                           Policies(d))

ArtefactsOf(d, steps) ==
    MapThenSumSet(LAMBDA s : Cardinality(Durable(d[s].outputs)), steps)

ArtefactBound(d) ==
    1 + ArtefactsOf(d, Steps(d))
      + MapThenSumSet(LAMBDA p : ArtefactsOf(d, Interval(p)) * Repeats(p),
                      Policies(d))

WithinBounds(d) ==
    /\ AttemptBound(d) <= MAXIMUM_RUN_ATTEMPTS
    /\ ArtefactBound(d) <= MAXIMUM_ARTEFACTS

-----------------------------------------------------------------------------
(***************************************************************************)
(* Validation: what `assemble` rejects.                                    *)
(***************************************************************************)
SupportedOutputs(d) ==
    \A s \in Steps(d) :
        /\ IsAgent(d, s) => "PlanDecision" \notin d[s].outputs
        /\ d[s].action = "SystemCommand" => d[s].outputs = {}
        /\ IsGate(d, s) => /\ d[s].outputs = {"PlanDecision"}
                           /\ Cardinality(Inputs(d, s, "Plan")) = 1

(* An input that is not review feedback names what an earlier step leaves. *)
HandoffIsKnown(d) ==
    \A s \in Steps(d) : \A input \in d[s].inputs :
        \/ IsReviewFeedback(d, s, input)
        \/ input = Input("Plan", RunCurrentPlan)
        \/ /\ input.source \in 1 .. s - 1
           /\ input.kind \in Durable(d[input.source].outputs)

PlanDecisionInputs(d) ==
    \A s \in Steps(d) :
        Inputs(d, s, "PlanDecision") # {} =>
            /\ Cardinality(Inputs(d, s, "PlanDecision")) = 1
            /\ Cardinality(Inputs(d, s, "Plan")) = 1

LimitAllowed(p) == p.limit \in 1 .. MAXIMUM_REVIEW_ATTEMPTS

ReviewPolicies(d) ==
    \A s \in Steps(d) : d[s].review # NoPolicy =>
        LET p == d[s].review IN
            /\ LimitAllowed(p)
            /\ p.target \in 1 .. s - 1 /\ IsAgent(d, p.target)
            /\ IsAgent(d, s) /\ "ReviewReport" \in d[s].outputs

(* A human revision returns to a planner that reads the current plan.      *)
HumanRevisions(d) ==
    \A s \in Steps(d) : d[s].revision # NoPolicy =>
        LET p == d[s].revision IN
            /\ LimitAllowed(p)
            /\ p.target \in 1 .. s - 1
            /\ IsAgent(d, p.target) /\ d[p.target].access = "Read"
            /\ "Plan" \in d[p.target].outputs
            /\ Input("Plan", RunCurrentPlan) \in d[p.target].inputs

Valid(d) ==
    /\ Len(d) > 0
    /\ SupportedOutputs(d)
    /\ ReviewPolicies(d)
    /\ HumanRevisions(d)
    /\ WithinBounds(d)
    /\ HandoffIsKnown(d)
    /\ PlanDecisionInputs(d)
=============================================================================
