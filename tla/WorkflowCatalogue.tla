------------------------- MODULE WorkflowCatalogue -------------------------
(***************************************************************************)
(* The catalogue of workflows (app/src/workflows/catalogue.rs) and its     *)
(* pages (app/src/slices/workflows.rs): one file that is rewritten whole,  *)
(* a copy in memory that follows a successful write, records that carry a  *)
(* revision, and starters that every start adds once.                      *)
(*                                                                         *)
(* A definition is its name and a content; its version is a hash of it,    *)
(* and so the definition itself.  Identifiers are random: a new one is one *)
(* that was never drawn.                                                   *)
(***************************************************************************)
EXTENDS Integers, Sequences, FiniteSets

CONSTANTS
    Tab,
    Starter,              \* the starters of this release, in order
    Name, Content,        \* the names and contents of definitions
    MAXIMUM_WORKFLOWS, MAXIMUM_RETIRED_IDS, MAXIMUM_APPLIED_SEEDS,
    MaxIds,               \* bound on the workflows ever created
    MaxEdition,           \* bound on the revisions of a workflow
    MaxNow,               \* bound on the clock
    SaveFaults,           \* bound on writes that fail
    Restarts,             \* bound on restarts
    NoForm                \* a tab without a form

ASSUME CatalogueAssumed ==
    /\ Starter \in Seq(STRING)
    /\ MAXIMUM_WORKFLOWS \in Nat /\ MAXIMUM_RETIRED_IDS \in Nat
    /\ MAXIMUM_APPLIED_SEEDS \in Nat
    /\ MaxIds \in Nat /\ MaxNow \in Nat

VARIABLES
    catalogue,            \* CatalogueState in memory
    file,                 \* the catalogue file
    serving,              \* whether the server is up
    forms,                \* the form each tab holds
    issued,               \* identifiers drawn so far
    clock, forward,       \* now_ms, and whether it never went back
    writes, starts,       \* faults and restarts so far
    starterOf,            \* what starter an identifier was drawn for, if any
    deleted,              \* starters a user deleted
    overwritten           \* whether an edit was overwritten unseen

catalogueVars == <<catalogue, file, serving, forms, issued, clock, forward, writes,
                   starts, starterOf, deleted, overwritten>>

(* A starter is named after one of the names and has the first content.    *)
Definition(name, content) == [name |-> name, content |-> content]
NoWorkflows == [workflows |-> {}, retired |-> {}, seeds |-> {}]
NoStarter == "none"

Ids(state) == {record.id : record \in state.workflows}
RecordOf(state, id) == CHOOSE record \in state.workflows : record.id = id

NameTaken(state, current, name) ==
    \E record \in state.workflows :
        record.id # current /\ record.definition.name = name

Stamped(id, definition) ==
    [id |-> id, revision |-> 1, definition |-> definition,
     created |-> clock, updated |-> clock]

-----------------------------------------------------------------------------
(***************************************************************************)
(* What a start accepts (load_path).                                       *)
(***************************************************************************)
RecordLoads(record) == record.revision > 0 /\ record.updated >= record.created

StateLoads(state) ==
    /\ Cardinality(state.workflows) <= MAXIMUM_WORKFLOWS
    /\ Cardinality(state.retired) <= MAXIMUM_RETIRED_IDS
    /\ Cardinality(state.seeds) <= MAXIMUM_APPLIED_SEEDS
    /\ \A record \in state.workflows : RecordLoads(record)
    /\ Cardinality(Ids(state)) = Cardinality(state.workflows)
    /\ Ids(state) \intersect state.retired = {}
    /\ \A seed \in state.seeds : seed.id \in Ids(state) \union state.retired
    /\ \A s, t \in state.seeds : (s.key = t.key \/ s.id = t.id) => s = t

(***************************************************************************)
(* A write that fails may have replaced the file already; memory changes   *)
(* only after one that succeeds (persist).                                 *)
(***************************************************************************)
Persist(next) ==
    /\ catalogue' = next
    /\ file' = next
    /\ UNCHANGED writes

PersistFails(next) ==
    /\ writes < SaveFaults
    /\ writes' = writes + 1
    /\ file' \in {file, next}
    /\ UNCHANGED catalogue

-----------------------------------------------------------------------------
(***************************************************************************)
(* Starting.  Starters that were never applied are added under a name that *)
(* is free; one that does not fit is left for the next start.              *)
(***************************************************************************)
FreeName(state, name) ==
    IF NameTaken(state, 0, name) THEN name \o " 2" ELSE name

Applied(state, starter) == \E seed \in state.seeds : seed.key = starter

ApplyStarter(state, starter, id) ==
    IF \/ Applied(state, starter)
       \/ Cardinality(state.seeds) >= MAXIMUM_APPLIED_SEEDS
       \/ Cardinality(state.workflows) >= MAXIMUM_WORKFLOWS
    THEN state
    ELSE [workflows |-> state.workflows \union
                           {Stamped(id, Definition(FreeName(state, starter), 1))},
          retired |-> state.retired,
          seeds |-> state.seeds \union {[key |-> starter, id |-> id]}]

ApplyAbsentSeeds(state) ==
    LET applied[n \in 0 .. Len(Starter)] ==
            IF n = 0 THEN state
            ELSE ApplyStarter(applied[n - 1], Starter[n], issued + n)
    IN applied[Len(Starter)]

CatalogueInit ==
    /\ catalogue = NoWorkflows /\ file = NoWorkflows
    /\ serving = FALSE
    /\ forms = [tab \in Tab |-> NoForm]
    /\ issued = 0
    /\ clock \in 1 .. MaxNow /\ forward = TRUE
    /\ writes = 0 /\ starts = 0
    /\ starterOf = [id \in 1 .. MaxIds |-> NoStarter]
    /\ deleted = {}
    /\ overwritten = FALSE

StartWorkflows ==
    /\ ~serving
    /\ starts <= Restarts
    /\ StateLoads(file)
    /\ LET seeded == ApplyAbsentSeeds(file) IN
           /\ issued + Len(Starter) <= MaxIds
           /\ issued' = issued + Len(Starter)
           /\ starterOf' = [id \in 1 .. MaxIds |->
                              IF id \in issued + 1 .. issued' THEN Starter[id - issued]
                              ELSE starterOf[id]]
           /\ \/ Persist(seeded) /\ serving' = TRUE
              \/ PersistFails(seeded) /\ serving' = FALSE
    /\ starts' = starts + 1
    /\ UNCHANGED <<forms, clock, forward, deleted, overwritten>>

StopWorkflows ==
    /\ serving
    /\ starts <= Restarts
    /\ serving' = FALSE
    /\ catalogue' = NoWorkflows
    /\ UNCHANGED <<file, forms, issued, clock, forward, writes, starts, starterOf,
                   deleted, overwritten>>

-----------------------------------------------------------------------------
(***************************************************************************)
(* The pages.  A form keeps the revision it was opened with, also when the *)
(* answer to a refused save shows it again.                                *)
(***************************************************************************)
StaysUp == UNCHANGED <<serving, clock, forward, starts>>

OpenConfiguration(tab) ==
    /\ serving
    /\ \E record \in catalogue.workflows :
           forms' = [forms EXCEPT ![tab] =
                        [id |-> record.id, revision |-> record.revision,
                         seen |-> record.definition]]
    /\ UNCHANGED <<catalogue, file, issued, writes, starterOf, deleted, overwritten>>
    /\ StaysUp

CreateWorkflow(tab) ==
    /\ serving
    /\ issued < MaxIds
    /\ Cardinality(catalogue.workflows) < MAXIMUM_WORKFLOWS
    /\ \E name \in Name, content \in Content :
           /\ ~NameTaken(catalogue, 0, name)
           /\ LET record == Stamped(issued + 1, Definition(name, content))
                  next == [workflows |-> catalogue.workflows \union {record},
                           retired |-> catalogue.retired, seeds |-> catalogue.seeds]
              IN \/ /\ Persist(next)
                    /\ forms' = [forms EXCEPT ![tab] =
                                   [id |-> record.id, revision |-> 1,
                                    seen |-> record.definition]]
                 \/ PersistFails(next) /\ UNCHANGED forms
    /\ issued' = issued + 1
    /\ StaysUp /\ UNCHANGED <<starterOf, deleted, overwritten>>

AnyRevision(tab, current) == forms[tab].revision <= current.revision

MayReplace(tab, current) == forms[tab].revision = current.revision

HoldsForm(tab) == serving /\ forms[tab] # NoForm /\ forms[tab].id \in Ids(catalogue)

UpdateConfiguration(tab) ==
    /\ HoldsForm(tab)
    /\ LET current == RecordOf(catalogue, forms[tab].id) IN
       \E name \in Name \union {current.definition.name}, content \in Content :
           LET definition == Definition(name, content)
               record == [id |-> current.id, revision |-> current.revision + 1,
                          definition |-> definition, created |-> current.created,
                          updated |-> clock]
               next == [workflows |-> (catalogue.workflows \ {current}) \union {record},
                        retired |-> catalogue.retired, seeds |-> catalogue.seeds]
           IN /\ MayReplace(tab, current)
              /\ current.definition # definition
              /\ ~NameTaken(catalogue, current.id, name)
              /\ current.revision < MaxEdition
              /\ \/ /\ Persist(next)
                    /\ forms' = [forms EXCEPT ![tab] =
                                   [id |-> record.id, revision |-> record.revision,
                                    seen |-> definition]]
                    /\ overwritten' = (overwritten \/ forms[tab].seen # current.definition)
                 \/ PersistFails(next) /\ UNCHANGED <<forms, overwritten>>
    /\ StaysUp /\ UNCHANGED <<issued, starterOf, deleted>>

DeleteWorkflow(tab) ==
    /\ HoldsForm(tab)
    /\ LET current == RecordOf(catalogue, forms[tab].id)
           next == [workflows |-> catalogue.workflows \ {current},
                    retired |-> catalogue.retired \union {current.id},
                    seeds |-> catalogue.seeds]
       IN /\ MayReplace(tab, current)
          /\ Cardinality(catalogue.retired) < MAXIMUM_RETIRED_IDS
          /\ \/ /\ Persist(next)
                /\ forms' = [forms EXCEPT ![tab] = NoForm]
                /\ deleted' = deleted \union {starterOf[current.id]}
                /\ overwritten' = (overwritten \/ forms[tab].seen # current.definition)
             \/ PersistFails(next) /\ UNCHANGED <<forms, deleted, overwritten>>
    /\ StaysUp /\ UNCHANGED <<issued, starterOf>>

ClockMoves ==
    /\ clock' \in 1 .. MaxNow
    /\ clock' # clock
    /\ forward' = (forward /\ clock' > clock)
    /\ UNCHANGED <<catalogue, file, serving, forms, issued, writes, starts, starterOf,
                   deleted, overwritten>>

CatalogueNext ==
    \/ StartWorkflows \/ StopWorkflows \/ ClockMoves
    \/ \E tab \in Tab :
           \/ OpenConfiguration(tab) \/ CreateWorkflow(tab)
           \/ UpdateConfiguration(tab) \/ DeleteWorkflow(tab)

CatalogueSpec == CatalogueInit /\ [][CatalogueNext]_catalogueVars

-----------------------------------------------------------------------------
(* Whatever happened to the file, the next start accepts it, as long as    *)
(* the clock never went back: an edit is stamped with the time it has and  *)
(* a record updated before it was created is refused (record_from_file).   *)
WorkflowsLoad == forward => StateLoads(file)

(* A starter that was deleted does not come back (apply_absent_seeds).     *)
StartersStayDeleted ==
    \A record \in catalogue.workflows : starterOf[record.id] \notin deleted \ {NoStarter}

(* No edit and no deletion replaces something its user had not seen, also  *)
(* across restarts and writes that failed (WorkflowCatalogue::update), and *)
(* no starter undoes a deletion.                                           *)
EditsAreNotLost == ~overwritten /\ StartersStayDeleted
=============================================================================
