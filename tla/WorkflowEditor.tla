--------------------------- MODULE WorkflowEditor ---------------------------
(***************************************************************************)
(* The workflow form (app/src/slices/workflows/forms.rs).  The browser     *)
(* sends the whole form with one intent; the server parses it, brings      *)
(* every phase to the contract of its purpose, applies the intent and      *)
(* sends the form back.  Only the intent to save stores anything, and what *)
(* is stored forgets the purposes: they are inferred when the workflow is  *)
(* opened again.                                                           *)
(*                                                                         *)
(* Texts, roles, settings, directories and row keys are left out, and a    *)
(* phase has at most one output of a kind and one input from a source, so  *)
(* that both are sets.  A phase is named by its key, which it keeps when   *)
(* it moves.                                                               *)
(***************************************************************************)
EXTENDS Integers, Sequences, SequencesExt, FiniteSets, TLC

CONSTANTS
    MAXIMUM_STEPS, MAXIMUM_REVIEW_ATTEMPTS, MAXIMUM_RUN_ATTEMPTS,
    MAXIMUM_ARTEFACTS,
    MaxEdits        \* bound on the changes and intents between two saves

VARIABLES
    form,           \* WorkflowFormState.steps as the browser holds it
    stored,         \* the steps of the stored definition
    custom,         \* whether it was saved from a form with a custom phase
    edits,          \* changes since the form was opened
    before,         \* the form the last intent was applied to
    structural      \* whether that intent moved or removed a phase

vars == <<form, stored, custom, edits, before, structural>>

D == INSTANCE WorkflowDefinition

Purpose == {"Planning", "PlanReview", "PlanCheckpoint", "Implementation",
            "ReadOnlyReview", "ReviewAndFix", "Custom"}

(* The source of an input: the current plan of the run, or the output of a *)
(* kind of the phase with a key.                                           *)
RunPlan == <<0, "Plan">>
NoTarget == 0

(* Where a phase runs: where the workflow does, or elsewhere.              *)
WorkflowDefault == ""
Unsent == "unsent"   \* a field the page has no input for
Environments == {WorkflowDefault, "elsewhere"}

Has(step, outputKind) == outputKind \in step.outputs
Reads(step, inputKind) == \E input \in step.inputs : input.kind = inputKind
Positions(steps, key) == {i \in DOMAIN steps : steps[i].key = key}

-----------------------------------------------------------------------------
(***************************************************************************)
(* The contract of a purpose.                                              *)
(***************************************************************************)
Writes(purpose) == purpose \in {"Implementation", "ReviewAndFix"}
ReadsPlan(purpose) ==
    Writes(purpose) \/ purpose \in {"PlanReview", "PlanCheckpoint"}

Required(purpose) ==
    CASE purpose \in {"Planning", "PlanReview"} -> {"AssistantReply", "Plan"}
      [] purpose \in {"ReadOnlyReview", "ReviewAndFix"} -> {"AssistantReply", "ReviewReport"}
      [] purpose = "Implementation" -> {"AssistantReply"}
      [] purpose = "PlanCheckpoint" -> {"PlanDecision"}
      [] OTHER -> {}

(* The last earlier phase that leaves an output of a kind.                 *)
Latest(earlier, outputKind) ==
    {<<earlier[i].key, outputKind>> :
        i \in {i \in DOMAIN earlier :
                 /\ Has(earlier[i], outputKind)
                 /\ \A j \in DOMAIN earlier : Has(earlier[j], outputKind) => j <= i}}

ContractInputs(purpose, earlier) ==
    {[kind |-> "Plan", source |-> RunPlan] :
        plan \in IF ReadsPlan(purpose) THEN Latest(earlier, "Plan") ELSE {}}
    \union
    {[kind |-> "PlanDecision", source |-> decision] :
        decision \in IF Writes(purpose) THEN Latest(earlier, "PlanDecision") ELSE {}}

PreserveInputs(existing, specs) ==
    existing \union
        {spec \in specs : \A input \in existing : input.kind # spec.kind}

PreserveOutputs(step, purpose) ==
    Required(purpose) \union
        IF purpose = "PlanCheckpoint" THEN step.outputs \intersect {"PlanDecision"}
        ELSE step.outputs \ {"PlanDecision"}

ApplyPhaseContract(step, earlier) ==
    [step EXCEPT
        !.action = IF step.purpose = "PlanCheckpoint" THEN "HumanGate" ELSE "Agent",
        !.access = IF step.purpose = "PlanCheckpoint" THEN @
                   ELSE IF Writes(step.purpose) THEN "Write" ELSE "Read",
        !.environment = IF step.purpose = "PlanCheckpoint" THEN WorkflowDefault ELSE @,
        !.outputs = PreserveOutputs(step, step.purpose),
        !.inputs = PreserveInputs(@, ContractInputs(step.purpose, earlier))]

(* Phase after phase, so that a contract sees what the earlier ones left.  *)
NormalisePhaseContracts(steps) ==
    FoldLeft(LAMBDA done, step :
                 Append(done, IF step.purpose = "Custom" THEN step
                              ELSE ApplyPhaseContract(step, done)),
             <<>>, steps)

-----------------------------------------------------------------------------
(***************************************************************************)
(* From a form to a definition and back.                                   *)
(***************************************************************************)
(* The settings of an agent are the defaults of the run, its own, or its   *)
(* own except for the environment, which it inherits ("Inherits").  Its    *)
(* own need an environment.                                                *)
SettingsAreComplete(step) ==
    step.action = "Agent" /\ step.settings = "Own" => step.environment # WorkflowDefault

BuildAgentAction(step) ==
    [access |-> step.access, outputs |-> step.outputs, revision |-> NoTarget,
     settings |-> step.settings, environment |-> step.environment]

BuildGateAction(step) ==
    [access |-> "Read", outputs |-> step.outputs, revision |-> step.revision,
     settings |-> "Defaults", environment |-> WorkflowDefault]

BuildCommandAction(step) ==
    [access |-> "Read", outputs |-> step.outputs, revision |-> NoTarget,
     settings |-> "Defaults", environment |-> step.environment]

BuildStep(step) ==
    [key |-> step.key, action |-> step.action, inputs |-> step.inputs,
     review |-> step.review]
        @@ CASE step.action = "Agent" -> BuildAgentAction(step)
             [] step.action = "HumanGate" -> BuildGateAction(step)
             [] OTHER -> BuildCommandAction(step)

Build(steps) == [i \in DOMAIN steps |-> BuildStep(steps[i])]

(* WorkflowDefinition names a phase by its position.                       *)
Position(steps, key) ==
    IF Positions(steps, key) = {} THEN Len(steps) + 1
    ELSE CHOOSE i \in Positions(steps, key) : TRUE

PositionPolicy(steps, target) ==
    IF target = NoTarget THEN D!NoPolicy ELSE D!Policy(Position(steps, target), 2)

Positioned(steps) ==
    [i \in DOMAIN steps |->
        [steps[i] EXCEPT
            !.inputs = {D!Input(input.kind,
                                IF input.source = RunPlan THEN D!RunCurrentPlan
                                ELSE Position(steps, input.source[1])) :
                            input \in @},
            !.review = PositionPolicy(steps, @),
            !.revision = PositionPolicy(steps, @)]]

(* An input names an output of its own kind and every output kind is one   *)
(* that there is, or the form is refused.                                  *)
WellFormed(steps) ==
    \A i \in DOMAIN steps :
        /\ steps[i].outputs \subseteq D!OutputKind
        /\ \A input \in steps[i].inputs : input.source[2] = input.kind
        /\ SettingsAreComplete(steps[i])

Accepted(steps) == WellFormed(steps) /\ D!Valid(Positioned(steps))

(* A field that is not sent takes the default of an empty step.            *)
CollectSteps(steps) ==
    [i \in DOMAIN steps |->
        [steps[i] EXCEPT !.access = IF @ = Unsent THEN "Write" ELSE @]]

EnsureActionDefaults(steps) ==
    [i \in DOMAIN steps |->
        IF steps[i].action = "Agent" /\ steps[i].outputs = {}
        THEN [steps[i] EXCEPT !.outputs = {"AssistantReply"}] ELSE steps[i]]

Parse(steps) == NormalisePhaseContracts(EnsureActionDefaults(CollectSteps(steps)))

(* Save parses the form like every intent, and so applies the contracts.   *)
Submitted(steps) == Build(Parse(steps))
Saveable(steps) == Accepted(Submitted(steps))

Inferred(step) ==
    CASE step.action = "HumanGate" -> "PlanCheckpoint"
      [] step.action = "SystemCommand" -> "Custom"
      [] step.access = "Write" /\ Has(step, "ReviewReport") -> "ReviewAndFix"
      [] step.access = "Write" -> "Implementation"
      [] Has(step, "Plan") /\ Reads(step, "Plan") -> "PlanReview"
      [] Has(step, "Plan") -> "Planning"
      [] OTHER -> "ReadOnlyReview"

ReadEnvironment(step) ==
    IF step.settings = "Inherits" THEN WorkflowDefault ELSE step.environment

StepFromDefinition(step) ==
    [key |-> step.key, purpose |-> Inferred(step), action |-> step.action,
     access |-> IF step.action = "Agent" THEN step.access ELSE Unsent,
     inputs |-> step.inputs, outputs |-> step.outputs,
     review |-> step.review, revision |-> step.revision,
     settings |-> step.settings, environment |-> ReadEnvironment(step)]

FromRecord(steps) == [i \in DOMAIN steps |-> StepFromDefinition(steps[i])]

-----------------------------------------------------------------------------
(***************************************************************************)
(* What the editor checks of a form itself.                                *)
(***************************************************************************)
SourceIsValid(input, earlier) ==
    /\ input.source[2] = input.kind
    /\ \E i \in DOMAIN earlier :
           /\ Has(earlier[i], input.kind)
           /\ input.source = RunPlan \/ input.source[1] = earlier[i].key

(* A reviewer's report may be read by the earlier phase it sends back.     *)
IsFeedback(input, step, steps) ==
    /\ input.kind = "ReviewReport" /\ input.source[2] = "ReviewReport"
    /\ \E i \in DOMAIN steps :
           /\ steps[i].review = step.key
           /\ input.source[1] = steps[i].key
           /\ Has(steps[i], "ReviewReport")

PhaseConnectionsAreValid(steps) ==
    \A i \in DOMAIN steps : \A input \in steps[i].inputs :
        \/ SourceIsValid(input, SubSeq(steps, 1, i - 1))
        \/ IsFeedback(input, steps[i], steps)

ReviewTargetsAreEarlier(steps) ==
    /\ \A i \in DOMAIN steps :
           \A target \in {steps[i].review, steps[i].revision} \ {NoTarget} :
               \E j \in 1 .. i - 1 : steps[j].key = target
    /\ PhaseConnectionsAreValid(steps)

-----------------------------------------------------------------------------
(***************************************************************************)
(* Intents.  `Apply` receives the parsed form; a refused intent leaves it. *)
(***************************************************************************)
Starters ==
    LET Step(key, action, access, inputs, outputs, review, revision) ==
            [key |-> key, action |-> action, access |-> access,
             inputs |-> inputs, outputs |-> outputs, review |-> review,
             revision |-> revision, settings |-> "Defaults",
             environment |-> WorkflowDefault]
        Reply == "AssistantReply"
        Plan == [kind |-> "Plan", source |-> RunPlan]
    IN
    {<<Step(1, "Agent", "Read", {}, {Reply, "Plan"}, NoTarget, NoTarget)>>,
     <<Step(1, "Agent", "Write",
            {[kind |-> "ReviewReport", source |-> <<2, "ReviewReport">>]},
            {Reply}, NoTarget, NoTarget),
       Step(2, "Agent", "Read", {}, {Reply, "ReviewReport"}, 1, NoTarget)>>,
     <<Step(1, "Agent", "Read", {Plan}, {Reply, "Plan"}, NoTarget, NoTarget),
       Step(2, "HumanGate", "Read", {Plan}, {"PlanDecision"}, NoTarget, 1),
       Step(3, "Agent", "Write",
            {Plan, [kind |-> "PlanDecision", source |-> <<2, "PlanDecision">>]},
            {Reply}, NoTarget, NoTarget)>>}

EditorInit ==
    /\ stored \in Starters
    /\ form = FromRecord(stored)
    /\ custom = FALSE
    /\ edits = 0
    /\ before = form
    /\ structural = FALSE

Parsed == Parse(form)

(* The page has no field for what does not belong to the action of a phase *)
(* and names the output of a gate itself, after its purpose.               *)
Shown(steps) ==
    [i \in DOMAIN steps |->
        [steps[i] EXCEPT
            !.revision = IF steps[i].action = "HumanGate" THEN @ ELSE NoTarget,
            !.access = IF steps[i].action = "Agent" THEN @ ELSE Unsent,
            !.settings = IF steps[i].action = "Agent" THEN @ ELSE "Defaults",
            !.environment = IF steps[i].action = "HumanGate" THEN WorkflowDefault ELSE @,
            !.outputs = CASE steps[i].action = "Agent" -> @
                          [] steps[i].action = "SystemCommand" -> {}
                          [] steps[i].purpose = "PlanCheckpoint" -> {"PlanDecision"}
                          [] OTHER -> {"HumanDecision"}]]

Change(steps) ==
    /\ form' = steps
    /\ before' = form
    /\ structural' = FALSE
    /\ edits' = edits + 1
    /\ UNCHANGED <<stored, custom>>

Answer(steps, moved) ==
    /\ form' = Shown(steps)
    /\ before' = form
    /\ structural' = moved
    /\ edits' = edits + 1
    /\ UNCHANGED <<stored, custom>>

NextKey(steps) ==
    CHOOSE k \in 1 .. Len(steps) + 1 :
        /\ Positions(steps, k) = {}
        /\ \A j \in 1 .. k - 1 : Positions(steps, j) # {}

PhaseDraft(key, purpose) ==
    [key |-> key, purpose |-> purpose, action |-> "Agent", access |-> "Write",
     inputs |-> {}, outputs |-> {"AssistantReply"}, review |-> NoTarget,
     revision |-> NoTarget, settings |-> "Defaults", environment |-> WorkflowDefault]

AddPhase ==
    \E purpose \in Purpose :
        /\ Len(Parsed) < MAXIMUM_STEPS
        /\ Answer(NormalisePhaseContracts(
                      Append(Parsed, PhaseDraft(NextKey(Parsed), purpose))), FALSE)

SetPhasePurpose ==
    \E i \in DOMAIN form, purpose \in Purpose :
        Answer(NormalisePhaseContracts([Parsed EXCEPT ![i].purpose = purpose]), FALSE)

RemoveStep ==
    \E i \in DOMAIN form :
        /\ Len(form) > 1
        /\ ReviewTargetsAreEarlier(RemoveAt(Parsed, i))
        /\ Answer(RemoveAt(Parsed, i), TRUE)

MoveStep ==
    \E i \in 1 .. Len(form) - 1 :
        LET swapped == [Parsed EXCEPT ![i] = Parsed[i + 1], ![i + 1] = Parsed[i]] IN
        /\ ReviewTargetsAreEarlier(swapped)
        /\ Answer(swapped, TRUE)

(* The row starts with the latest plan; without one the user must choose.  *)
AddInput ==
    \E i \in DOMAIN form :
        \E source \in Latest(SubSeq(Parsed, 1, i - 1), "Plan") :
            Answer([Parsed EXCEPT
                       ![i].inputs = @ \union {[kind |-> "Plan", source |-> source]}],
                   FALSE)

RemoveInput ==
    \E i \in DOMAIN form : \E input \in Parsed[i].inputs :
        /\ ~(Parsed[i].action = "HumanGate" /\ input.kind = "Plan")
        /\ Answer([Parsed EXCEPT ![i].inputs = @ \ {input}], FALSE)

OutputIsReferenced(steps, i, outputKind) ==
    \/ \E j \in DOMAIN steps \ {i} : \E input \in steps[j].inputs :
           input.source = <<steps[i].key, outputKind>>
    \/ steps[i].review # NoTarget /\ outputKind = "ReviewReport"

RemoveOutput ==
    \E i \in DOMAIN form : \E outputKind \in Parsed[i].outputs :
        /\ Cardinality(Parsed[i].outputs) > 1
        /\ outputKind \notin Required(Parsed[i].purpose)
        /\ ~OutputIsReferenced(Parsed, i, outputKind)
        /\ Answer([Parsed EXCEPT ![i].outputs = @ \ {outputKind}], FALSE)

(* An added row is an assistant reply until the user picks its kind.       *)
AddOutput ==
    \E i \in DOMAIN form : \E outputKind \in D!OutputKind \ {"PlanDecision"} :
        /\ Parsed[i].action = "Agent"
        /\ outputKind \notin Parsed[i].outputs
        /\ Answer([Parsed EXCEPT ![i].outputs = @ \union {outputKind}], FALSE)

-----------------------------------------------------------------------------
(***************************************************************************)
(* What the user changes in the page before sending it.                    *)
(***************************************************************************)
ChooseSource ==
    \E i \in DOMAIN form : \E input \in form[i].inputs :
        \E j \in 1 .. i - 1 : \E outputKind \in D!Durable(form[j].outputs) :
            Change([form EXCEPT
                       ![i].inputs = (@ \ {input}) \union
                           {[kind |-> outputKind, source |-> <<form[j].key, outputKind>>]}])

ChooseReview ==
    \E i \in DOMAIN form :
        \E target \in {NoTarget} \union {form[j].key : j \in 1 .. i - 1} :
            /\ form[i].action = "Agent"
            /\ Change([form EXCEPT ![i].review = target])

ChooseRevision ==
    \E i \in DOMAIN form :
        \E target \in {NoTarget} \union {form[j].key : j \in 1 .. i - 1} :
            /\ form[i].action = "HumanGate"
            /\ Change([form EXCEPT ![i].revision = target])

(* The contract of any other purpose sets these two.                       *)
ChooseAction ==
    \E i \in DOMAIN form, access \in {"Read", "Write"},
       action \in {"Agent", "HumanGate", "SystemCommand"} :
        /\ form[i].purpose = "Custom"
        /\ Change([form EXCEPT ![i].action = action, ![i].access = access])

ChooseSettings ==
    \E i \in DOMAIN form, settings \in {"Defaults", "Own", "Inherits"},
       environment \in Environments :
        /\ form[i].action = "Agent"
        /\ Change([form EXCEPT ![i].settings = settings, ![i].environment = environment])

(* A preset has all settings, an environment included.                     *)
ApplyPreset ==
    \E i \in DOMAIN form :
        /\ Parsed[i].action = "Agent"
        /\ Answer([Parsed EXCEPT ![i].settings = "Own", ![i].environment = "elsewhere"],
                  FALSE)

Edit ==
    /\ edits < MaxEdits
    /\ \/ AddPhase \/ SetPhasePurpose \/ RemoveStep \/ MoveStep
       \/ AddInput \/ RemoveInput \/ AddOutput \/ RemoveOutput
       \/ ChooseSource \/ ChooseReview \/ ChooseRevision \/ ChooseAction
       \/ ChooseSettings \/ ApplyPreset

Save ==
    /\ Saveable(form)
    /\ stored' = Submitted(form)
    /\ form' = FromRecord(stored')
    /\ custom' = \E i \in DOMAIN form : form[i].purpose = "Custom"
    /\ edits' = edits
    /\ before' = form'
    /\ structural' = FALSE

EditorNext == Edit \/ Save
EditorSpec == EditorInit /\ [][EditorNext]_vars

-----------------------------------------------------------------------------
(* A stored workflow that is opened and saved as it is does not change,    *)
(* although its purposes were inferred and the contracts applied again     *)
(* (from_record and parse).  There are two exceptions.  A custom phase     *)
(* comes back with the purpose its outputs suggest and is made to fit it.  *)
(* A phase that inherits the environment of its settings and overrides the *)
(* one of the workflow comes back without the override.                    *)
LosesItsEnvironment(step) ==
    step.settings = "Inherits" /\ step.environment # WorkflowDefault

ReopenKeeps ==
    ~custom /\ (\A i \in DOMAIN stored : ~LosesItsEnvironment(stored[i])) =>
        Submitted(FromRecord(stored)) = stored

(* The editor's own check and the definition's agree on moving and         *)
(* removing phases (review_targets_are_earlier): what it lets happen to a  *)
(* form that could be saved leaves one that can be, and it refuses to      *)
(* remove only what could not be saved without it.  One kind of workflow   *)
(* is the exception, whose planner reads the plan it revises: the check    *)
(* does not know that a first plan may be missing and refuses everything.  *)
RevisesItsPlan(steps) ==
    \E i \in DOMAIN steps :
        /\ [kind |-> "Plan", source |-> RunPlan] \in steps[i].inputs
        /\ \A j \in 1 .. i - 1 : ~Has(steps[j], "Plan")

EditorAgrees ==
    /\ structural /\ Saveable(before) => Saveable(form)
    /\ \A i \in DOMAIN form :
           LET rest == RemoveAt(Parsed, i) IN
           Saveable(form) /\ Saveable(rest) /\ ~RevisesItsPlan(rest) =>
               ReviewTargetsAreEarlier(rest)
=============================================================================
