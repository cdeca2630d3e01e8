------------------------------ MODULE Compaction ----------------------------
(***************************************************************************)
(* Summaries of one conversation: which exchanges a summary covers         *)
(* (conversations/compaction.rs), how it is generated in chunks            *)
(* (compaction/generation.rs, execution/context.rs) by a manual job        *)
(* (slices/conversations/compaction/mod.rs) or in the middle of a request  *)
(* (execution/agent.rs), and which summary belongs to which branch         *)
(* (conversations/store.rs and store/sqlite.rs).                           *)
(*                                                                         *)
(* The messages form a tree that only grows; the active path ends at the   *)
(* active leaf.  The text of a summary is abstracted to the set of the     *)
(* messages it was written from.  A message costs one unit of context when *)
(* it is projected at all; the budgets are a choice of the environment,    *)
(* which stands for the model, its limits and the fixed instructions.      *)
(***************************************************************************)
EXTENDS Naturals, FiniteSets, SequencesExt

CONSTANTS
    MaxMessages,        \* bound: messages of the conversation
    MaxBudget,          \* the largest retention budget offered
    ChunkCapacity,      \* what one summary request can carry
    SummaryRequests,    \* MAXIMUM_SUMMARY_REQUESTS
    NoSummary

VARIABLES
    kind,       \* the messages, in order of their sequence
    parent,     \* the predecessor of each, 0 for a root
    leaf,       \* active_leaf
    current,    \* the compaction of the conversation's metadata
    table,      \* the compactions table: every checkpoint that was committed
    work,       \* the work on the conversation
    summary     \* the summary being generated

compactionVars == <<kind, parent, leaf, current, table, work, summary>>

Messages == DOMAIN kind

(* A reply is complete: the last of its response, one that the selected    *)
(* model needs back unchanged, or a phase that ran tools.  A message that  *)
(* was stopped is projected only for the results of its tools.  Commands   *)
(* may be hidden from the model, and may have lost their outcome.          *)
CompleteReply == {"reply", "sealed", "phase"}
Stopped == {"cut", "tooled"}
Commands == {"command", "hidden", "unknown"}

CompactionInit ==
    /\ kind = <<>> /\ parent = <<>>
    /\ leaf = 0
    /\ current = NoSummary
    /\ table = {}
    /\ work = "idle"
    /\ summary = NoSummary

(* The root-first path that ends at a message.                             *)
UpTo(message) == [i \in 1..message |-> i]

Ancestors(message) ==
    FoldRight(LAMBDA m, found : IF m \in found THEN found \union {parent[m]} ELSE found,
              UpTo(message), {message})

Path(message) == SelectSeq(UpTo(message), LAMBDA m : m \in Ancestors(message))

Active == Path(leaf)

-----------------------------------------------------------------------------
(* history::project: what a request shows of some messages, and whether it *)
(* can show them at all.                                                   *)
Shown(message) == kind[message] \notin {"cut", "hidden", "pending"}
Turns(messages) == SelectSeq(messages, Shown)
Cost(messages) == Len(Turns(messages))
Projectable(messages) == \A m \in ToSet(messages) : kind[m] # "unknown"

(* A pending message is the last of its path, if there is one.             *)
Settled(path) == SelectSeq(path, LAMBDA m : kind[m] # "pending")

(* The positions at which a message ends an exchange.                      *)
CompleteEnds(path) ==
    {i \in DOMAIN path : kind[path[i]] \in CompleteReply \union {"command"}}

(* A summary is valid on a path on which its last entry ends an exchange.  *)
Split(record, path) == SelectInSeq(path, LAMBDA m : m = record.covered)
Covered(record, path) == SubSeq(path, 1, Split(record, path))

Valid(record, path) ==
    /\ record.covered \in ToSet(path)
    /\ Split(record, path) \in CompleteEnds(path)
    /\ Projectable(Covered(record, path))

(* select_boundary.  The walk goes back over whole exchanges for as long   *)
(* as they fit the budget, and leaves at least the earliest one to be      *)
(* covered; nothing that a provider needs back unchanged may be covered.   *)
Budgets == 0..MaxBudget

StartOf(path) == IF current = NoSummary THEN 1 ELSE Split(current, path) + 1
Candidates(path) == {i \in CompleteEnds(Settled(path)) : i >= StartOf(path)}
HasBoundary(path) ==
    Projectable(Settled(path)) /\ Cardinality(Candidates(path)) >= 2

Fitting(path, budget) ==
    {i \in Candidates(path) :
        LET last == Max(Candidates(path))
        IN i # last /\ Cost(SubSeq(path, i + 1, last)) <= budget}

Source(path, boundary) == SubSeq(path, StartOf(path), boundary)

Boundaries(path, budget) ==     \* none, or the one that is selected
    {i \in Fitting(path, budget) :
        /\ HasBoundary(path)
        /\ i = Min(Fitting(path, budget))
        /\ "sealed" \notin {kind[m] : m \in ToSet(Source(path, i))}}

(* covered_turns: the summary so far and then what the new one adds to it. *)
Generation(path, boundary) ==
    [covered |-> path[boundary],
     contents |-> IF current = NoSummary THEN {} ELSE current.contents,
     left |-> Turns(Source(path, boundary)), requests |-> 0]

-----------------------------------------------------------------------------
(* generate: the turns are cut into exchanges, and each request takes as   *)
(* many of them as it can carry next to the summary so far.                *)
ExchangeEnds(turns) == {i \in DOMAIN turns : kind[turns[i]] \in CompleteReply \union {"tooled"}}
WholeExchanges(turns) == Len(turns) \in ExchangeEnds(turns)

RequestSize(end) == (IF summary.contents = {} THEN 0 ELSE 1) + end
ChunkFits(end) == RequestSize(end) <= ChunkCapacity

Chunks == {i \in ExchangeEnds(summary.left) : ChunkFits(i)}

GenerateChunk ==
    /\ summary # NoSummary /\ summary.left # <<>>
    /\ WholeExchanges(summary.left) /\ Chunks # {}
    /\ summary.requests < SummaryRequests
    /\ summary' = [summary EXCEPT
            !.contents = @ \union ToSet(SubSeq(summary.left, 1, Max(Chunks))),
            !.left = SubSeq(@, Max(Chunks) + 1, Len(@)),
            !.requests = @ + 1]
    /\ UNCHANGED <<kind, parent, leaf, current, table, work>>

(* The job appends a message of its own, which goes away when it succeeds. *)
Grown(more, from) ==
    /\ Len(kind) + Len(more) <= MaxMessages
    /\ kind' = kind \o more
    /\ parent' = parent \o [i \in DOMAIN more |-> IF i = 1 THEN from ELSE Len(kind) + i - 1]
    /\ leaf' = Len(kind) + Len(more)

Ended(status) == kind' = [kind EXCEPT ![leaf] = status] /\ UNCHANGED <<parent, leaf>>

BeginCompaction ==
    /\ work = "idle"
    /\ \E budget \in Budgets : \E i \in Boundaries(Active, budget) :
          summary' = Generation(Active, i)
    /\ work' = "compaction"
    /\ Grown(<<"pending">>, leaf)
    /\ UNCHANGED <<current, table>>

CompactHistory ==
    /\ work = "request" /\ summary = NoSummary
    /\ \E budget \in Budgets : \E i \in Boundaries(Active, budget) :
          summary' = Generation(Active, i)
    /\ UNCHANGED <<kind, parent, leaf, current, table, work>>

(* The record is committed when every request succeeded.                   *)
Committed == [covered |-> summary.covered, contents |-> summary.contents]

FinishCompaction ==
    IF work = "compaction"
    THEN /\ kind' = Front(kind) /\ parent' = Front(parent) /\ leaf' = parent[leaf]
         /\ work' = "idle"
    ELSE UNCHANGED <<kind, parent, leaf, work>>

CommitCompaction ==
    /\ summary # NoSummary /\ summary.left = <<>>
    /\ Valid(Committed, Active)
    /\ current' = Committed
    /\ table' = {c \in table : c.covered # summary.covered} \union {Committed}
    /\ summary' = NoSummary
    /\ FinishCompaction

(* A request that failed, did not fit or was cancelled; for a request of   *)
(* the user it ends the request as well.                                   *)
FailCompaction ==
    /\ summary # NoSummary
    /\ Ended("cut")
    /\ work' = "idle"
    /\ summary' = NoSummary
    /\ UNCHANGED <<current, table>>

-----------------------------------------------------------------------------
(* The rest of the conversation, as far as summaries see it.               *)
Send ==
    /\ work = "idle"
    /\ Grown(<<"user", "pending">>, leaf)
    /\ work' = "request"
    /\ UNCHANGED <<current, table, summary>>

SettleToolBatch ==
    /\ work = "request" /\ summary = NoSummary /\ Projectable(Active)
    /\ Len(kind) < MaxMessages
    /\ kind' = Append([kind EXCEPT ![leaf] = "phase"], "pending")
    /\ parent' = Append(parent, leaf)
    /\ leaf' = Len(kind) + 1
    /\ UNCHANGED <<current, table, work, summary>>

Settle ==
    /\ work = "request" /\ summary = NoSummary
    /\ \E status \in {"reply", "sealed"} \union Stopped :
          /\ status \in {"reply", "sealed", "tooled"} => Projectable(Active)
          /\ Ended(status)
    /\ work' = "idle"
    /\ UNCHANGED <<current, table, summary>>

RunCommand ==
    /\ work = "idle"
    /\ \E status \in Commands : Grown(<<status>>, leaf)
    /\ UNCHANGED <<current, table, work, summary>>

(* A branch takes up the summary that covers most of its path.             *)
OnPath(path) == {c \in table : c.covered \in ToSet(path)}

CurrentAnyway(path) == current      \* a mutated PathCompaction

PathCompaction(path) ==
    IF OnPath(path) = {} THEN NoSummary
    ELSE CHOOSE c \in OnPath(path) : \A d \in OnPath(path) : d.covered <= c.covered

Branchable(path) ==
    kind[Last(path)] \in {"reply", "sealed"} /\ Projectable(path)

ContinueFrom(destination) ==
    /\ work = "idle"
    /\ Branchable(Path(destination))
    /\ leaf' = destination
    /\ current' = PathCompaction(Path(destination))
    /\ UNCHANGED <<kind, parent, table, work, summary>>

Revise(source) ==
    LET path == Path(parent[source]) IN
    /\ work = "idle"
    /\ kind[source] = "user"
    /\ path # <<>> => Branchable(path)
    /\ Grown(<<"user", "pending">>, parent[source])
    /\ current' = PathCompaction(path)
    /\ work' = "request"
    /\ UNCHANGED <<table, summary>>

(* The process dies: the summary is gone, the pending message is settled.  *)
Restart ==
    /\ work # "idle"
    /\ Ended("cut")
    /\ work' = "idle"
    /\ summary' = NoSummary
    /\ UNCHANGED <<current, table>>

CompactionNext ==
    \/ BeginCompaction \/ CompactHistory \/ GenerateChunk
    \/ CommitCompaction \/ FailCompaction
    \/ Send \/ SettleToolBatch \/ Settle \/ RunCommand \/ Restart
    \/ \E m \in Messages : ContinueFrom(m) \/ Revise(m)

CompactionSpec == CompactionInit /\ [][CompactionNext]_compactionVars

-----------------------------------------------------------------------------
(* What a request shows is the whole of the active path and nothing else:  *)
(* the summary was written, over however many compactions and branches,    *)
(* from exactly the messages it stands for, and the rest is still shown as *)
(* it is.  A record that does not fit its path would be refused on load.   *)
ContextIsWhole ==
    current # NoSummary =>
        /\ Valid(current, Active)
        /\ current.contents = ToSet(Turns(Covered(current, Active)))

(* A boundary that was selected can be summarised: its turns divide into   *)
(* whole exchanges.  A command is the exception: it ends an exchange for   *)
(* select_boundary but not for the generation, which then refuses.         *)
BoundaryCanBeSummarised ==
    summary # NoSummary /\ summary.left # <<>> =>
        WholeExchanges(summary.left) \/ kind[summary.covered] = "command"
=============================================================================
