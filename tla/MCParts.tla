------------------------------ MODULE MCParts -------------------------------
(***************************************************************************)
(* The smaller components side by side, checked in one run: the first      *)
(* state picks a part, and only the actions of that part are taken.  The   *)
(* parts share no state, so what holds here holds of each specification on *)
(* its own.  Environments, WorkflowCatalogue, AgentLoop, ProviderVault and *)
(* Attachments are here under their own names, as their theorems are; the  *)
(* others are instances.                                                   *)
(***************************************************************************)
EXTENDS Environments, WorkflowCatalogue, AgentLoop, ProviderVault, Attachments

CONSTANTS
    \* Compaction
    MaxMessages, MaxBudget, ChunkCapacity, SummaryRequests, NoSummary,
    \* JobEvents
    MaxPieces, MaxModel, LongModel, MaxProgress, MaxSeq, MaxSteered,
    \* WorkClock
    Job, MaxTicks, NoJob, ClockFaults,
    \* Transcript and History
    WindowSize, TreePage, TreeScan, ShownSize, MaxEntries,
    Listed, ListPage, MaxTime,
    \* WorkflowEditor
    MAXIMUM_STEPS, MAXIMUM_REVIEW_ATTEMPTS, MAXIMUM_RUN_ATTEMPTS,
    MAXIMUM_ARTEFACTS, MaxEdits,
    \* CommandCapture and RetainedOutput
    Limit, Preview, MaxBytes, StoreFaults,
    None, MAXIMUM_OUTPUT_REFERENCES, Room, CommandEntries, MaxRefs,
    OutputFaults, OutputRestarts

VARIABLES
    part,
    kind, parent, leaf, current, table, work, summary,
    status, seq, base, events, output, progress, loop, requests, kept,
    committed, anchor, page, segment,
    running, waits, elapsed, started, due, saves, workTimes, lost,
    reader, parents, roles, entries, tip, working, view, walked, listing,
    now, stamps, matching, position, pages, steady,
    form, stored, custom, edits, before, structural,
    location, stage, open, exit, capture, reported, published, retained, result,
    wrote, storeFaults,
    opened, known, commands, command, records, recordFiles, draft, references,
    outputFaults, restarts

Summaries == INSTANCE Compaction
Live == INSTANCE JobEvents WITH MaxModel <- LongModel, MaxSteered <- 0
Steered == INSTANCE JobEvents
Time == INSTANCE WorkClock WITH SaveFaults <- ClockFaults
Tree == INSTANCE Transcript
Shelf == INSTANCE History
Editor == INSTANCE WorkflowEditor
Captured == INSTANCE CommandCapture WITH
    Secret <- <<"k", "e">>,
    Piece <- {<<"k">>, <<"e">>, <<"u">>, <<"v", "x">>},
    at <- stage, progress <- reported, faults <- storeFaults
Outputs == INSTANCE RetainedOutput WITH
    MaxEntries <- CommandEntries, up <- opened, entries <- commands,
    memory <- records, disk <- recordFiles, drawn <- references,
    faults <- outputFaults

ASSUME EnvironmentsAreGiven == EnvironmentsAssumption

OneStarter == <<"A">>

compacted == <<kind, parent, leaf, current, table, work, summary>>
jobEvents == <<status, seq, base, events, output, progress, loop, requests, kept,
               committed, anchor, page, segment>>
workClock == <<running, waits, elapsed, started, due, saves, workTimes, lost>>
transcript == <<reader, parents, roles, entries, tip, working, view, walked,
                listing>>
shelf == <<now, stamps, matching, position, pages, steady>>
editor == <<form, stored, custom, edits, before, structural>>
captured == <<location, stage, open, exit, capture, reported, published, retained,
              result, wrote, storeFaults>>
outputs == <<opened, known, commands, command, records, recordFiles, draft,
             references, outputFaults, restarts>>
pagesAndForms == <<transcript, shelf, editor, catalogueVars>>
filesAndCommands == <<captured, outputs, attachmentVars, vaultVars>>
partsVars == <<part, environmentVars, agentVars, compacted, jobEvents, workClock,
               pagesAndForms, filesAndCommands>>

(* The choices a specification begins with are made only for its own part. *)
PartsInit ==
    /\ part \in {"environments", "agent", "compaction", "job", "steered job",
                 "clock", "transcript", "history", "editor", "workflows",
                 "capture", "outputs", "attachments", "vault"}
    /\ EnvironmentsInit
    /\ AgentInit
    /\ Summaries!CompactionInit
    /\ Live!JobEventsInit
    /\ Time!ClockInit
    /\ Tree!TranscriptInit
    /\ Shelf!HistoryInit
    /\ Editor!EditorInit
    /\ CatalogueInit
    /\ Captured!CaptureInit
    /\ Outputs!OutputInit
    /\ AttachmentsInit
    /\ VaultInit
    /\ steering => part = "agent"
    /\ reader = "tree" => part = "transcript"
    /\ clock > 1 => part = "workflows"
    /\ location = "Host" => part = "capture"
    /\ stored # (CHOOSE steps \in Editor!Starters : TRUE) => part = "editor"

PartsNext ==
    /\ UNCHANGED part
    /\ \/ /\ part = "environments"
          /\ EnvironmentsNext
          /\ UNCHANGED <<agentVars, compacted, jobEvents, workClock,
                         pagesAndForms, filesAndCommands>>
       \/ /\ part = "agent"
          /\ AgentNext
          /\ UNCHANGED <<environmentVars, compacted, jobEvents, workClock,
                         pagesAndForms, filesAndCommands>>
       \/ /\ part = "compaction"
          /\ Summaries!CompactionNext
          /\ UNCHANGED <<environmentVars, agentVars, jobEvents, workClock,
                         pagesAndForms, filesAndCommands>>
       \/ /\ \/ part = "job" /\ Live!JobEventsNext
             \/ part = "steered job" /\ Steered!JobEventsNext
          /\ UNCHANGED <<environmentVars, agentVars, compacted, workClock,
                         pagesAndForms, filesAndCommands>>
       \/ /\ part = "clock"
          /\ Time!ClockNext
          /\ UNCHANGED <<environmentVars, agentVars, compacted, jobEvents,
                         pagesAndForms, filesAndCommands>>
       \/ /\ part \in {"transcript", "history", "editor", "workflows"}
          /\ UNCHANGED <<environmentVars, agentVars, compacted, jobEvents, workClock,
                         filesAndCommands>>
          /\ \/ /\ part = "transcript"
                /\ Tree!TranscriptNext
                /\ UNCHANGED <<shelf, editor, catalogueVars>>
             \/ /\ part = "history"
                /\ Shelf!HistoryNext
                /\ UNCHANGED <<transcript, editor, catalogueVars>>
             \/ /\ part = "editor"
                /\ Editor!EditorNext
                /\ UNCHANGED <<transcript, shelf, catalogueVars>>
             \/ /\ part = "workflows"
                /\ CatalogueNext
                /\ UNCHANGED <<transcript, shelf, editor>>
       \/ /\ part \in {"capture", "outputs", "attachments", "vault"}
          /\ UNCHANGED <<environmentVars, agentVars, compacted, jobEvents, workClock,
                         pagesAndForms>>
          /\ \/ /\ part = "capture"
                /\ Captured!CaptureNext
                /\ UNCHANGED <<outputs, attachmentVars, vaultVars>>
             \/ /\ part = "outputs"
                /\ Outputs!OutputNext
                /\ UNCHANGED <<captured, attachmentVars, vaultVars>>
             \/ /\ part = "attachments"
                /\ AttachmentsNext
                /\ UNCHANGED <<captured, outputs, vaultVars>>
             \/ /\ part = "vault"
                /\ VaultNext
                /\ UNCHANGED <<captured, outputs, attachmentVars>>

PartsSpec == PartsInit /\ [][PartsNext]_partsVars

-----------------------------------------------------------------------------
(* The next start accepts the files of the environments, of the workflows  *)
(* and of the command outputs, whatever happened to them before            *)
(* (environments/catalogue.rs, workflows/catalogue.rs and                  *)
(* execution/output.rs; stated in Environments, WorkflowCatalogue and      *)
(* RetainedOutput).                                                        *)
StoresLoad ==
    /\ part = "environments" => CatalogueLoads
    /\ part = "workflows" => WorkflowsLoad
    /\ part = "outputs" => Outputs!OutputLoads

(* A summary stands for exactly the messages it replaces, on every branch, *)
(* and what is chosen to be summarised can be, commands excepted           *)
(* (conversations/compaction.rs; stated in Compaction).                    *)
SummariesAreSound ==
    part = "compaction" =>
        Summaries!ContextIsWhole /\ Summaries!BoundaryCanBeSummarised

(* A page shows every piece of the reply once, and when it is up to date   *)
(* all of them, whatever it read in which order (sessions/job.rs and       *)
(* slices/conversations/page.rs; stated in JobEvents).                     *)
PageShowsTheReply ==
    part \in {"job", "steered job"} => Live!PageShowsTheReply

(* The time a conversation says it worked is the time its jobs did, though *)
(* their checkpoints arrive in any order (sessions/job/clock.rs; stated in *)
(* WorkClock).                                                             *)
WorkTimeIsWhole == part = "clock" => Time!WorkTimeIsWhole

(* Whoever pages through a conversation, its tree or the list of all       *)
(* conversations misses nothing, although they change between two clicks   *)
(* (conversations/store/sqlite.rs and slices/conversations/page.rs; stated *)
(* in Transcript and History).                                             *)
EveryEntryIsReached ==
    /\ part = "transcript" => Tree!WalkHasNoGap /\ Tree!TreeIsListed
    /\ part = "history" => Shelf!HistoryIsListed

(* A workflow that is opened and saved stays what it was, and what the     *)
(* editor lets the user do keeps it one that can be saved, each with       *)
(* exceptions (slices/workflows/forms.rs; stated in WorkflowEditor).       *)
EditorKeepsWorkflows ==
    part = "editor" => Editor!ReopenKeeps /\ Editor!EditorAgrees

(* Nothing that is shown or stored of a command has the credential in it,  *)
(* and all other output is kept in the order it was read, with its end cut *)
(* off at most (execution/command.rs; stated in CommandCapture).           *)
OutputIsFaithful ==
    part = "capture" => Captured!CredentialIsHidden /\ Captured!OutputIsKept

(* The output that a conversation or its fork refers to is its own, and    *)
(* what the user excluded from the context no model may read               *)
(* (execution/output.rs; stated in RetainedOutput).                        *)
OutputIsOwned ==
    part = "outputs" => Outputs!OutputIsOwned /\ Outputs!ExcludedStaysHidden
=============================================================================
