----------------------------- MODULE JobEvents ------------------------------
(***************************************************************************)
(* What a browser sees of a running job (sessions/job.rs and               *)
(* slices/conversations/job.rs).  The agent loop streams pieces of a reply *)
(* into the job, moves finished phases of the reply into the conversation  *)
(* store, and withdraws failed attempts.  An observer reads the job and    *)
(* the store under different locks, one after the other, and patches a     *)
(* page with what it read.  The work clock of the job is in WorkClock.     *)
(*                                                                         *)
(* A piece is an entry [kind, request, n], numbered; its text is left out. *)
(* Modelled is the reply to a message.  Left out are the steps of a        *)
(* workflow, whose rounds are one phase.  The final frame is taken to fit  *)
(* its envelope: its contents are bounded by message_budget.               *)
(***************************************************************************)
EXTENDS Naturals, Sequences, FiniteSets, SequencesExt

CONSTANTS
    MaxPieces,    \* pieces of reply text, all attempts together
    MaxModel,     \* model requests
    MaxProgress,  \* MAXIMUM_TOOL_PROGRESS_EVENTS
    MaxSeq,       \* bound of the sequence number for notes and waits
    MaxSteered    \* steering messages that are delivered

VARIABLES
    status,       \* "Running", "Awaiting" (decision or question) or "Ended"
    seq,          \* latest_seq
    base,         \* output_base, what the events continue
    events,       \* pieces with the sequence number of each
    output,       \* the reply so far
    progress,     \* progress_events
    loop,         \* the agent loop: "between" requests, "streaming", "stored"
                  \* (in the store and not yet taken out of the job), "settled"
    requests,     \* model requests so far
    kept,         \* the pending phase in the store, as last checkpointed
    committed,    \* the settled phases of the logical response, joined
    anchor,       \* number of the logical response (a steering begins one)
    page,         \* what the browser shows
    segment       \* the observation it has open

job == <<status, seq, base, events, output, progress>>
store == <<kept, committed, anchor>>
drive == <<loop, requests>>
jobVars == <<job, drive, store, page, segment>>

-----------------------------------------------------------------------------
(* Pieces and what they make *)

Piece(kind, request, n) == [kind |-> kind, request |-> request, n |-> n]

(* apply_output_event: a finished tool replaces its live progress. *)
Applied(reply, piece) ==
    IF piece.kind = "result"
    THEN Append(SelectSeq(reply, LAMBDA old : old.kind # "progress"), piece)
    ELSE Append(reply, piece)

Text(reply) == SelectSeq(reply, LAMBDA piece : piece.kind # "usage")
Requests(reply) == {piece.request : piece \in ToSet(reply)}
LastRequest(reply) == reply[Len(reply)].request

(* output_up_to: the output at an earlier sequence number, as far as the   *)
(* events still tell; a withdrawn attempt is never told again.             *)
OutputUpTo(cursor) ==
    IF cursor >= seq THEN output
    ELSE FoldLeft(Applied, base,
                  [i \in 1..Cardinality({k \in DOMAIN events : events[k].seq <= cursor}) |->
                      events[i].piece])

(* response_view: settled phases, then the live reply unless the newest of *)
(* its requests is already among the settled ones.                         *)
ResponseTwice(phases, live) == Text(phases) \o Text(live)
ResponseView(phases, live) ==
    Text(phases) \o
        (IF live # <<>> /\ LastRequest(live) \in Requests(phases)
         THEN <<>> ELSE Text(live))

UsedPieces == Cardinality({e \in ToSet(output) \union ToSet(committed) : e.kind # "usage"})

-----------------------------------------------------------------------------
(* The job, as the agent loop drives it *)

NoSegment == [at |-> "none", cursor |-> 0, snapshot |-> 0, status |-> "Running",
              live |-> <<>>, phases |-> <<>>, kept |-> <<>>, anchor |-> 0]
ClosedPage == [at |-> "closed", cursor |-> 0, anchor |-> 0, shown |-> <<>>,
               patched |-> FALSE]

JobEventsInit ==
    /\ status = "Running" /\ seq = 0
    /\ base = <<>> /\ events = <<>> /\ output = <<>> /\ progress = 0
    /\ loop = "between" /\ requests = 0
    /\ kept = <<>> /\ committed = <<>> /\ anchor = 1
    /\ page = ClosedPage /\ segment = NoSegment

(* push_output_event: only while the job runs. *)
Push(piece) ==
    /\ status = "Running"
    /\ seq' = seq + 1
    /\ output' = Applied(output, piece)
    /\ events' = Append(events, [seq |-> seq + 1, piece |-> piece])
    /\ UNCHANGED <<status, base>>

(* restore_output: the events before it tell nothing any more. *)
RestoreOutput(reply) ==
    /\ status = "Running"
    /\ seq' = seq + 1
    /\ base' = reply
    /\ output' = reply
    /\ events' = <<>>
    /\ UNCHANGED <<status, progress>>

(* start_model_request: the request is recorded before it is sent, in the  *)
(* store and then in the job.                                              *)
StartModelRequest ==
    /\ loop = "between" /\ requests < MaxModel
    /\ requests' = requests + 1
    /\ Push(Piece("usage", requests', 0))
    /\ kept' = output'
    /\ loop' = "streaming"
    /\ UNCHANGED <<progress, committed, anchor, page, segment>>

(* push_response, push_thinking and start_tool, and finish_tool *)
PushPiece(kind) ==
    /\ loop = "streaming" /\ UsedPieces < MaxPieces
    /\ Push(Piece(kind, LastRequest(output), seq + 1))
    /\ UNCHANGED <<progress, drive, store, page, segment>>

(* push_tool_progress: what exceeds the bound is dropped. *)
PushProgress ==
    /\ loop = "streaming" /\ progress < MaxProgress /\ UsedPieces < MaxPieces
    /\ Push(Piece("progress", LastRequest(output), seq + 1))
    /\ progress' = progress + 1
    /\ UNCHANGED <<drive, store, page, segment>>

(* set_retry, clear_retry, set_compacting, clear_compacting, set_context:  *)
(* observers wake, the reply is as it was.                                 *)
Note ==
    /\ status = "Running" /\ loop \in {"between", "streaming"}
    /\ seq < MaxSeq
    /\ seq' = seq + 1
    /\ UNCHANGED <<status, base, events, output, progress, drive, store,
                   page, segment>>

(* persist_output *)
PersistOutput ==
    /\ loop = "streaming" /\ kept # output
    /\ kept' = output
    /\ UNCHANGED <<job, drive, committed, anchor, page, segment>>

(* settle_tool_batch: the phase is in the store, and still in the job. *)
SettleToolBatch ==
    /\ loop = "streaming" /\ status = "Running"
    /\ committed' = committed \o output
    /\ kept' = <<>>
    /\ loop' = "stored"
    /\ UNCHANGED <<job, requests, anchor, page, segment>>

(* deliver_steering: the response ends, a user entry and a new response    *)
(* follow it.                                                              *)
DeliverSteering ==
    /\ loop = "streaming" /\ status = "Running" /\ anchor <= MaxSteered
    /\ anchor' = anchor + 1
    /\ committed' = <<>>
    /\ kept' = <<>>
    /\ loop' = "stored"
    /\ UNCHANGED <<job, requests, page, segment>>

(* record_provider_failure: the failed part is a phase of its own. *)
RecordProviderFailure ==
    /\ loop = "streaming" /\ status = "Running"
    /\ committed' = committed \o output
    /\ kept' = <<>>
    /\ loop' = "stored"
    /\ UNCHANGED <<job, requests, anchor, page, segment>>

(* The output of the job follows the store. *)
TakeOut ==
    /\ loop = "stored"
    /\ RestoreOutput(<<>>)
    /\ loop' = "between"
    /\ UNCHANGED <<requests, store, page, segment>>

(* set_awaiting_decision and set_awaiting_question *)
SetAwaiting ==
    /\ loop = "streaming" /\ status = "Running" /\ seq < MaxSeq
    /\ status' = "Awaiting"
    /\ seq' = seq + 1
    /\ UNCHANGED <<base, events, output, progress, drive, store, page,
                   segment>>

(* resume: the sequence number stays. *)
Resume ==
    /\ status = "Awaiting"
    /\ status' = "Running"
    /\ UNCHANGED <<seq, base, events, output, progress, drive, store, page,
                   segment>>

(* settle_message: with whatever was said, also when the job awaits and is *)
(* stopped.                                                                *)
SettleMessage ==
    /\ loop \in {"between", "streaming"}
    /\ committed' = committed \o output
    /\ kept' = <<>>
    /\ loop' = "settled"
    /\ UNCHANGED <<job, requests, anchor, page, segment>>

(* finish: after the settlement; the output stays in the job. *)
Finish ==
    /\ loop = "settled" /\ status # "Ended"
    /\ status' = "Ended"
    /\ seq' = seq + 1
    /\ UNCHANGED <<base, events, output, progress, drive, store, page,
                   segment>>

-----------------------------------------------------------------------------
(* The browser and its observations *)

(* detail, final_frame: the record first, then the job. *)
ReadRecord ==
    /\ page.at = "closed" /\ segment.at = "none"
    /\ segment' = [NoSegment EXCEPT !.at = "rendering", !.phases = committed,
                                    !.kept = kept, !.anchor = anchor,
                                    !.status = IF loop = "settled" THEN "Ended" ELSE "Running"]
    /\ UNCHANGED <<job, drive, store, page>>

(* from_record_with_gate: the live reply replaces the pending entry of the *)
(* record; without output the record is shown as it was read.              *)
Render ==
    /\ segment.at = "rendering"
    /\ page' =
        [at |-> IF status = "Running" THEN "live"
                ELSE IF segment.status = "Ended" THEN "over" ELSE "waiting",
         cursor |-> seq, anchor |-> segment.anchor,
         shown |-> IF output # <<>> /\ segment.status = "Running"
                   THEN ResponseView(segment.phases, output)
                   ELSE Text(segment.phases \o segment.kept),
         patched |-> FALSE]
    /\ segment' = NoSegment
    /\ UNCHANGED <<job, drive, store>>

(* observe_message *)
Observe ==
    /\ page.at = "live" /\ segment.at = "none"
    /\ segment' = [NoSegment EXCEPT !.at = "following",
                                    !.cursor = IF page.cursor < seq THEN page.cursor ELSE seq]
    /\ UNCHANGED <<job, drive, store, page>>

(* observe_segment: job.snapshot() once there is something newer *)
Snapshot ==
    /\ segment.at = "following" /\ seq > segment.cursor
    /\ segment' = [segment EXCEPT !.at = "seen", !.snapshot = seq, !.status = status]
    /\ UNCHANGED <<job, drive, store, page>>

(* output_up_to, under a lock of its own *)
CopyOutput ==
    /\ segment.at = "seen"
    /\ segment' = [segment EXCEPT !.at = "copied", !.live = OutputUpTo(segment.snapshot)]
    /\ UNCHANGED <<job, drive, store, page>>

(* active_response and progress_frame.  A frame for an entry that the page *)
(* does not have changes nothing on it; one over the budget is not sent.   *)
SendFrame ==
    /\ segment.at = "copied"
    /\ \/ page' = [page EXCEPT
                       !.cursor = IF page.anchor = anchor THEN segment.snapshot ELSE @,
                       !.shown = IF page.anchor = anchor
                                 THEN ResponseView(committed, segment.live) ELSE @,
                       !.patched = TRUE]
       \/ UNCHANGED page
    /\ segment' = [segment EXCEPT
                       !.cursor = segment.snapshot,
                       !.at = IF status = "Running" THEN "following" ELSE "ending"]
    /\ UNCHANGED <<job, drive, store>>

(* The wait ends without news, or the segment has lasted long enough. *)
StopFollowing ==
    /\ segment.at = "following"
    /\ segment' = [segment EXCEPT !.at = "ending"]
    /\ UNCHANGED <<job, drive, store, page>>

(* final_frame: the job first ... *)
FinalSnapshot ==
    /\ segment.at = "ending"
    /\ segment' = [segment EXCEPT !.at = "final", !.status = status, !.live = output]
    /\ UNCHANGED <<job, drive, store, page>>

(* ... then the record: the whole detail view when the job does not run, *)
FinalDetail ==
    /\ segment.at = "final" /\ segment.status # "Running"
    /\ segment' = [NoSegment EXCEPT !.at = "rendering", !.phases = committed,
                                    !.kept = kept, !.anchor = anchor,
                                    !.status = IF loop = "settled" THEN "Ended" ELSE "Running"]
    /\ UNCHANGED <<job, drive, store, page>>

(* or the response and the cursor to go on from. *)
FinalFrame ==
    /\ segment.at = "final" /\ segment.status = "Running"
    /\ page' = [page EXCEPT
                    !.cursor = IF page.anchor = anchor THEN segment.cursor ELSE @,
                    !.shown = IF page.anchor = anchor
                              THEN ResponseView(committed, segment.live) ELSE @,
                    !.patched = TRUE]
    /\ segment' = NoSegment
    /\ UNCHANGED <<job, drive, store>>

(* The connection breaks; the observer island asks again. *)
Disconnect ==
    /\ segment.at \in {"following", "seen", "copied", "ending", "final"}
    /\ segment' = NoSegment
    /\ UNCHANGED <<job, drive, store, page>>

JobEventsNext ==
    \/ StartModelRequest \/ PushPiece("text") \/ PushPiece("result")
    \/ PushProgress \/ Note \/ PersistOutput
    \/ SettleToolBatch \/ DeliverSteering \/ RecordProviderFailure \/ TakeOut
    \/ SetAwaiting \/ Resume \/ SettleMessage \/ Finish
    \/ ReadRecord \/ Render \/ Observe \/ Snapshot \/ CopyOutput \/ SendFrame
    \/ StopFollowing \/ FinalSnapshot \/ FinalDetail \/ FinalFrame \/ Disconnect

JobEventsSpec == JobEventsInit /\ [][JobEventsNext]_jobVars

-----------------------------------------------------------------------------
(* Properties *)

(* A page never shows a piece of the reply twice, although the job and the *)
(* store hold it both for a while (page.rs response_view: "the job         *)
(* snapshot can precede the phase commit").  A patched page that has the   *)
(* newest sequence number shows exactly the settled phases and the live    *)
(* reply, whatever was read in which order; a page whose observation saw   *)
(* the end shows what the conversation keeps.  Excepted is a page that was *)
(* rendered before a steering message began a new response: the frames of  *)
(* that response have no entry to go to.                                   *)
PageShowsTheReply ==
    /\ \A i, k \in DOMAIN page.shown : page.shown[i] = page.shown[k] => i = k
    /\ ( /\ page.at = "live" /\ page.patched /\ page.cursor = seq
         /\ page.anchor = anchor /\ loop \in {"between", "streaming"} )
       => page.shown = ResponseView(committed, output)
    /\ (page.at = "over" /\ page.anchor = anchor) => page.shown = Text(committed)
=============================================================================
