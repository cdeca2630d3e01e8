---------------------------- MODULE Environments ----------------------------
(***************************************************************************)
(* The sandbox environments of environments/: a catalogue file of recipes  *)
(* and their preparations, one background worker that builds a snapshot in *)
(* a guest, phase by phase, while users edit, retry and delete, and the    *)
(* workflow launches that pin what is ready.                               *)
(*                                                                         *)
(* Every catalogue operation holds one mutex, writes the file and then     *)
(* replaces the memory, so it is one step; a failed write leaves the       *)
(* memory and may or may not have replaced the file.  The worker's steps   *)
(* are what it does between two awaits.  Names, logs and timestamps are    *)
(* left out, apart from which timestamps are set.  Guests are external:    *)
(* one belongs to the preparation that runs, and the start of the server   *)
(* removes what a crash left.                                              *)
(***************************************************************************)
EXTENDS Naturals, Sequences, FiniteSets

CONSTANTS
    Environment,
    Seed,               \* the environment a first start creates
    Recipe,
    NoEnvironment,
    MaxEnvironments,    \* MAXIMUM_ENVIRONMENTS
    MaxPreparations,    \* MAXIMUM_PREPARATIONS
    MaxRevision,        \* bound: edits of one environment
    RenameBound,        \* bound: preparations there are when one is renamed
    MaxStarted,         \* bound: preparations the worker begins
    EnvFaults,          \* bound: writes and guest operations that fail
    EnvCrashes          \* bound: crashes

EnvironmentsAssumption ==
    /\ Seed \in Environment /\ NoEnvironment \notin Environment
    /\ Recipe # {}
    /\ MaxEnvironments \in Nat \ {0} /\ MaxPreparations \in Nat \ {0}
    /\ EnvFaults \in Nat /\ EnvCrashes \in Nat

VARIABLES
    memory,         \* the catalogue in memory
    disk,           \* the catalogue file
    up,             \* whether the server runs
    woken,          \* the worker has been notified since it last slept
    worker,         \* the background worker
    snapshots,      \* <<preparation, recipe it was really built from>>
    launch,         \* the workflow launch that resolves an environment
    pins,           \* what launches have pinned
    envFaults, envCrashes

environmentVars == <<memory, disk, up, woken, worker, snapshots, launch, pins,
                     envFaults, envCrashes>>
launches == <<launch, pins>>
envBudget == <<envFaults, envCrashes>>

(* PreparationPhase, in its order.                                         *)
Waiting == 0
CreatingGuest == 1
RunningSetup == 2
CreatingSnapshot == 4
VerifyingSnapshot == 5
RemovingGuest == 6
Finished == 7

NoRecord == [revision |-> 0, recipe |-> NoEnvironment, ready |-> 0, latest |-> 0]
Empty == [environments |-> [e \in Environment |-> NoRecord], retired |-> {},
          preparations |-> <<>>, seeded |-> FALSE]
Asleep == [pc |-> "asleep", id |-> 0, phase |-> Waiting, recipe |-> NoEnvironment,
           verdict |-> "failed"]
NoLaunch == [environment |-> NoEnvironment, id |-> 0]

EnvironmentsInit ==
    /\ memory = Empty /\ disk = Empty
    /\ up = FALSE /\ woken = FALSE
    /\ worker = Asleep
    /\ snapshots = {}
    /\ launch = NoLaunch /\ pins = {}
    /\ envFaults = EnvFaults /\ envCrashes = EnvCrashes

-----------------------------------------------------------------------------
(* The catalogue as data.                                                  *)
Queued(e, revision, recipe) ==
    [environment |-> e, revision |-> revision, recipe |-> recipe,
     state |-> "queued", phase |-> Waiting, started |-> FALSE,
     finished |-> FALSE, failure |-> FALSE, snapshot |-> FALSE]

Exists(c, e) == c.environments[e].revision > 0
Active(p) == p.state \in {"queued", "preparing"}

SupersedeQueued(c, e) ==
    [i \in DOMAIN c.preparations |->
        LET p == c.preparations[i] IN
        IF p.environment = e /\ p.state = "queued"
        THEN [p EXCEPT !.state = "superseded", !.finished = TRUE] ELSE p]

AddEnvironment(c, e, recipe) ==
    [c EXCEPT !.environments[e] =
                 [revision |-> 1, recipe |-> recipe, ready |-> 0,
                  latest |-> Len(c.preparations) + 1],
              !.preparations = Append(@, Queued(e, 1, recipe))]

(* A new preparation replaces the queued ones and becomes the latest.      *)
Requeue(c, e, recipe) ==
    LET revision == c.environments[e].revision + 1 IN
    [c EXCEPT !.environments[e].revision = revision,
              !.environments[e].recipe = recipe,
              !.environments[e].latest = Len(c.preparations) + 1,
              !.preparations =
                 Append(SupersedeQueued(c, e), Queued(e, revision, recipe))]

Interrupt(p) ==
    IF p.state = "preparing"
    THEN [p EXCEPT !.state = "interrupted", !.finished = TRUE, !.failure = TRUE,
                   !.snapshot = FALSE]
    ELSE p

Cancel(p) ==
    [p EXCEPT !.state = "cancelled", !.phase = Finished, !.finished = TRUE,
              !.failure = FALSE, !.snapshot = FALSE]

ActivationWithoutLatest(c, id) ==         \* a mutated ActivationAllowed
    LET p == c.preparations[id]  e == c.environments[p.environment]
    IN  e.revision > 0 /\ e.recipe = p.recipe /\ e.revision >= p.revision

(* Whether what is being prepared is still what the environment wants: the *)
(* latest request, for the recipe it has now.                              *)
ActivationAllowed(c, id) ==
    LET p == c.preparations[id]  e == c.environments[p.environment]
    IN  /\ e.revision > 0
        /\ e.latest = id
        /\ e.recipe = p.recipe
        /\ e.revision >= p.revision

(* What a start accepts of a stored preparation, by its state ...          *)
Combination(p) ==
    /\ p.finished /\ p.state # "superseded" /\ p.state # "cancelled" => p.started
    /\ CASE p.state = "queued" ->
              p.phase = Waiting /\ ~p.started /\ ~p.finished /\ ~p.failure
                /\ ~p.snapshot
         [] p.state = "preparing" ->
              p.phase \in CreatingGuest..RemovingGuest /\ p.started
                /\ ~p.finished /\ ~p.failure /\ ~p.snapshot
         [] p.state = "ready" ->
              p.phase = Finished /\ p.started /\ p.finished /\ ~p.failure
                /\ p.snapshot
         [] p.state \in {"failed", "interrupted"} ->
              p.phase # Waiting /\ p.started /\ p.finished /\ p.failure
                /\ ~p.snapshot
         [] p.state \in {"cancelled", "superseded"} ->
              p.finished /\ ~p.failure /\ ~p.snapshot

PreparationLoads(c, i) ==
    LET p == c.preparations[i] IN
    /\ p.environment \in Environment /\ p.recipe \in Recipe
    /\ p.phase \in Waiting..Finished
    /\ Combination(p)

(* ... of an environment ...                                               *)
EnvironmentLoads(c, e) ==
    LET r == c.environments[e] IN
    /\ e \notin c.retired
    /\ r.latest \in DOMAIN c.preparations
    /\ c.preparations[r.latest].environment = e
    /\ r.ready # 0 => /\ r.ready \in DOMAIN c.preparations
                      /\ c.preparations[r.ready].environment = e
                      /\ c.preparations[r.ready].state = "ready"

(* ... and of the file.                                                    *)
Loads(c) ==
    /\ Cardinality({e \in Environment : Exists(c, e)}) <= MaxEnvironments
    /\ Len(c.preparations) <= MaxPreparations
    /\ \A i \in DOMAIN c.preparations : PreparationLoads(c, i)
    /\ \A e \in Environment : Exists(c, e) => EnvironmentLoads(c, e)
    /\ c.seeded => Exists(c, Seed) \/ Seed \in c.retired

-----------------------------------------------------------------------------
(* The file is replaced as a whole and then synchronised: an error may come*)
(* before or after the replacement.                                        *)
Stored(c) == memory' = c /\ disk' = c /\ UNCHANGED envBudget
Unstored(c) ==
    /\ envFaults > 0 /\ envFaults' = envFaults - 1
    /\ disk' \in {disk, c}
    /\ UNCHANGED <<memory, envCrashes>>

(* A handler: what it changes, and the wake it sends when it succeeds.     *)
Edit(c) ==
    /\ \/ Stored(c) /\ woken' = TRUE
       \/ Unstored(c) /\ UNCHANGED woken
    /\ UNCHANGED <<up, worker, snapshots, launches>>

(* A form that shows another revision is refused, so the forms of the      *)
(* current revision are all that need to be told.                          *)
Editable(e) ==
    /\ up
    /\ Exists(memory, e)
    /\ memory.environments[e].revision < MaxRevision

PreparationFits == Len(memory.preparations) < MaxPreparations

Create(e) ==
    /\ up /\ PreparationFits
    /\ Cardinality({d \in Environment : Exists(memory, d)}) < MaxEnvironments
    /\ e # Seed /\ ~Exists(memory, e) /\ e \notin memory.retired
    /\ \E recipe \in Recipe : Edit(AddEnvironment(memory, e, recipe))

(* update: a new recipe is prepared, a new name only advances the revision.*)
Update(e) ==
    /\ Editable(e)
    /\ \/ /\ PreparationFits
          /\ \E recipe \in Recipe \ {memory.environments[e].recipe} :
                Edit(Requeue(memory, e, recipe))
       \/ LET c == [memory EXCEPT !.environments[e].revision = @ + 1]
          IN  /\ Len(memory.preparations) <= RenameBound
              /\ Stored(c) \/ Unstored(c)
              /\ UNCHANGED <<up, woken, worker, snapshots, launches>>

RetryPreparation(e) ==
    LET r == memory.environments[e] IN
    /\ Editable(e) /\ PreparationFits
    /\ ~(/\ Active(memory.preparations[r.latest])
         /\ memory.preparations[r.latest].recipe = r.recipe)
    /\ Edit(Requeue(memory, e, r.recipe))

DeleteWithoutRetiring(e) ==               \* a mutated Delete
    /\ up
    /\ Exists(memory, e)
    /\ Edit([memory EXCEPT
                !.environments[e] = NoRecord,
                !.preparations = [i \in DOMAIN @ |->
                    IF @[i].environment = e /\ Active(@[i]) THEN Cancel(@[i])
                    ELSE @[i]]])

Delete(e) ==
    /\ up
    /\ Exists(memory, e)
    /\ Edit([memory EXCEPT
                !.environments[e] = NoRecord,
                !.retired = @ \union {e},
                !.preparations = [i \in DOMAIN @ |->
                    IF @[i].environment = e /\ Active(@[i]) THEN Cancel(@[i])
                    ELSE @[i]]])

-----------------------------------------------------------------------------
(* The worker.                                                             *)
Turn(pc) == up /\ worker.pc = pc
Go(pc) == worker' = [worker EXCEPT !.pc = pc]
Verdict(pc, verdict) == worker' = [worker EXCEPT !.pc = pc, !.verdict = verdict]
Current == ActivationAllowed(memory, worker.id)
Quiet == UNCHANGED <<memory, disk, envBudget>>
Outside == UNCHANGED <<up, launches>>
Fault == envFaults > 0 /\ envFaults' = envFaults - 1
             /\ UNCHANGED <<memory, disk, envCrashes>>

Wake ==
    /\ Turn("asleep")
    /\ woken /\ woken' = FALSE
    /\ Go("claim")
    /\ Quiet /\ Outside /\ UNCHANGED snapshots

Begun == {i \in DOMAIN memory.preparations : memory.preparations[i].started}

(* The oldest queued preparation; a claim that cannot be stored sends the  *)
(* worker back to sleep.                                                   *)
ClaimOldestQueued ==
    LET queued == {i \in DOMAIN memory.preparations :
                      memory.preparations[i].state = "queued"}
    IN  /\ Turn("claim")
        /\ \/ queued = {} /\ worker' = Asleep /\ Quiet
           \/ \E i \in queued :
                LET c == [memory EXCEPT !.preparations[i].state = "preparing",
                                        !.preparations[i].phase = CreatingGuest,
                                        !.preparations[i].started = TRUE]
                IN  /\ \A j \in queued : i <= j
                    /\ Cardinality(Begun) < MaxStarted
                    /\ \/ /\ Stored(c)
                          /\ worker' = [worker EXCEPT !.pc = "load", !.id = i]
                       \/ Unstored(c) /\ worker' = Asleep
        /\ Outside /\ UNCHANGED <<woken, snapshots>>

(* The log is opened, and the environment read again for its script: the   *)
(* recipe may be another than the one that was claimed.                    *)
LoadEnvironment ==
    LET e == memory.preparations[worker.id].environment IN
    /\ Turn("load")
    /\ \/ /\ Exists(memory, e)
          /\ worker' = [worker EXCEPT !.pc = "enter", !.phase = CreatingGuest,
                                      !.recipe = memory.environments[e].recipe]
          /\ Quiet
       \/ ~Exists(memory, e) /\ Verdict("close", "failed") /\ Quiet
       \/ Fault /\ Verdict("close", "failed")
    /\ Outside /\ UNCHANGED <<woken, snapshots>>

(* set_phase: of a preparation that is still going on, and never back.     *)
Advance ==
    LET p == memory.preparations[worker.id]
        c == [memory EXCEPT !.preparations[worker.id].phase = worker.phase]
    IN  /\ Turn("enter")
        /\ IF p.state = "preparing" /\ p.phase <= worker.phase
           THEN \/ Stored(c) /\ Go(IF worker.phase = CreatingSnapshot THEN "before"
                                   ELSE "work")
                \/ Unstored(c) /\ Verdict("discard", "failed")
           ELSE Verdict("discard", "failed") /\ Quiet
        /\ Outside /\ UNCHANGED <<woken, snapshots>>

(* is_current, at every point where the worker comes back from an await.   *)
Rechecked(next) ==
    worker' = IF Current THEN next
              ELSE [worker EXCEPT !.pc = "discard", !.verdict = "superseded"]

(* Creating, setting up, stopping and removing the guest.  The setup ends  *)
(* early when the environment is deleted; its preparation is cancelled     *)
(* already.                                                                *)
UseGuest ==
    LET p == memory.preparations[worker.id] IN
    /\ Turn("work")
    /\ worker.phase \notin {CreatingSnapshot, VerifyingSnapshot}
    /\ \/ /\ Rechecked(IF worker.phase = RemovingGuest
                        THEN [worker EXCEPT !.pc = "finish"]
                        ELSE [worker EXCEPT !.pc = "enter", !.phase = @ + 1])
          /\ Quiet /\ UNCHANGED woken
       \/ Fault /\ Verdict("discard", "failed") /\ UNCHANGED woken
       \/ /\ worker.phase = RunningSetup /\ ~Exists(memory, p.environment)
          /\ Go("claim") /\ Quiet /\ woken' = FALSE
    /\ Outside /\ UNCHANGED snapshots

CheckBeforeSnapshot ==
    /\ Turn("before")
    /\ Rechecked([worker EXCEPT !.pc = "work"])
    /\ Quiet /\ Outside /\ UNCHANGED <<woken, snapshots>>

CreateSnapshot ==
    /\ Turn("work") /\ worker.phase = CreatingSnapshot
    /\ \/ /\ snapshots' = snapshots \union {<<worker.id, worker.recipe>>}
          /\ Rechecked([worker EXCEPT !.pc = "enter", !.phase = VerifyingSnapshot])
          /\ Quiet
       \/ Fault /\ Verdict("close", "failed") /\ UNCHANGED snapshots
    /\ Outside /\ UNCHANGED woken

VerifySnapshot ==
    /\ Turn("work") /\ worker.phase = VerifyingSnapshot
    /\ \/ worker' = [worker EXCEPT !.pc = "enter", !.phase = RemovingGuest] /\ Quiet
       \/ Fault /\ Verdict("discard", "failed")
    /\ Outside /\ UNCHANGED <<woken, snapshots>>

FinishReady ==
    LET id == worker.id
        p == memory.preparations[id]
        c == [memory EXCEPT !.preparations[id].state = "ready",
                            !.preparations[id].phase = Finished,
                            !.preparations[id].finished = TRUE,
                            !.preparations[id].snapshot = TRUE,
                            !.environments[p.environment].ready = id]
    IN  /\ Turn("finish")
        /\ IF p.state = "preparing" /\ Current
           THEN \/ Stored(c) /\ Go("claim")
                \/ Unstored(c) /\ Verdict("discard", "failed")
           ELSE /\ Verdict("discard", IF Current THEN "failed" ELSE "superseded")
                /\ Quiet
        /\ Outside /\ UNCHANGED <<woken, snapshots>>

RemoveUnpublished == snapshots' = {s \in snapshots : s[1] # worker.id}

(* discard_snapshot and cleanup_guest.  A snapshot that cannot be removed  *)
(* stays, and the preparation has failed.                                  *)
Discard ==
    /\ Turn("discard")
    /\ \/ RemoveUnpublished /\ Go("close") /\ Quiet
       \/ Fault /\ Verdict("close", "failed") /\ UNCHANGED snapshots
    /\ Outside /\ UNCHANGED woken

(* finish_failed and finish_superseded; their errors are ignored.          *)
Close ==
    LET p == memory.preparations[worker.id]
        failed == worker.verdict = "failed"
        c == [memory EXCEPT !.preparations[worker.id] =
                 [p EXCEPT !.state = worker.verdict, !.finished = TRUE,
                           !.phase = IF failed THEN @ ELSE Finished,
                           !.failure = failed, !.snapshot = FALSE]]
    IN  /\ Turn("close")
        /\ IF p.state = "preparing" \/ (~failed /\ Active(p))
           THEN Stored(c) \/ Unstored(c)
           ELSE Quiet
        /\ Go("claim")
        /\ Outside /\ UNCHANGED <<woken, snapshots>>

-----------------------------------------------------------------------------
(* resolve_environments: copy the pointer, verify its snapshot (an await), *)
(* and pin it if the pointer is still the same.                            *)
Ready(e) == IF Exists(memory, e) THEN memory.environments[e].ready ELSE 0

CopyReadyPointer(e) ==
    /\ up /\ launch = NoLaunch
    /\ pins = {}                                        \* bound: one launch
    /\ Ready(e) # 0
    /\ launch' = [environment |-> e, id |-> Ready(e)]
    /\ UNCHANGED <<memory, disk, up, woken, worker, snapshots, pins, envBudget>>

MatchPointer ==
    /\ up /\ launch # NoLaunch
    /\ pins' = IF /\ \E s \in snapshots : s[1] = launch.id
                  /\ Ready(launch.environment) = launch.id
               THEN {[id |-> launch.id,
                      recipe |-> memory.preparations[launch.id].recipe]}
               ELSE pins
    /\ launch' = NoLaunch
    /\ UNCHANGED <<memory, disk, up, woken, worker, snapshots, envBudget>>

-----------------------------------------------------------------------------
Crash ==
    /\ up /\ up' = FALSE
    /\ envCrashes > 0 /\ envCrashes' = envCrashes - 1
    /\ memory' = Empty /\ worker' = Asleep /\ woken' = FALSE /\ launch' = NoLaunch
    /\ UNCHANGED <<disk, snapshots, pins, envFaults>>

(* open_with_seeds: load, add the seeds that were never applied, interrupt *)
(* what was being prepared, and store what that changed.  A server that    *)
(* cannot load or store its catalogue does not start.                      *)
Opened ==
    LET seeded == IF disk.seeded THEN disk
                  ELSE [AddEnvironment(disk, Seed, CHOOSE r \in Recipe : TRUE)
                           EXCEPT !.seeded = TRUE]
    IN  [seeded EXCEPT !.preparations =
            [i \in DOMAIN @ |-> Interrupt(@[i])]]

Start ==
    /\ ~up /\ Loads(disk)
    /\ \/ /\ Stored(Opened)
          /\ up' = TRUE /\ woken' = TRUE
       \/ /\ Opened # disk
          /\ Unstored(Opened) /\ UNCHANGED <<up, woken>>
    /\ UNCHANGED <<worker, snapshots, launches>>

EnvironmentsNext ==
    \/ \E e \in Environment : \/ Create(e) \/ Update(e) \/ RetryPreparation(e)
                              \/ Delete(e) \/ CopyReadyPointer(e)
    \/ Wake \/ ClaimOldestQueued \/ LoadEnvironment \/ Advance \/ UseGuest
    \/ CheckBeforeSnapshot \/ CreateSnapshot \/ VerifySnapshot \/ FinishReady
    \/ Discard \/ Close \/ MatchPointer
    \/ Crash \/ Start

EnvironmentsSpec == EnvironmentsInit /\ [][EnvironmentsNext]_environmentVars

-----------------------------------------------------------------------------
(* What a launch pinned is there and was built from the recipe it is       *)
(* recorded with, although the worker reads the recipe after its claim,    *)
(* recipes change and change back while it builds, and writes fail after   *)
(* the file was replaced (scheduler.rs execute, resolve.rs).               *)
PinIsWhatItSays ==
    \A pin \in pins : \E s \in snapshots : s[1] = pin.id /\ s[2] = pin.recipe

(* Whatever the handlers, the worker, failing writes and crashes left in   *)
(* the file, the next start accepts it (catalogue.rs state_from_file).     *)
CatalogueLoads == Loads(disk)
=============================================================================
