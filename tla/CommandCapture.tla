--------------------------- MODULE CommandCapture ---------------------------
(***************************************************************************)
(* The output of one command, from the bytes a process writes to what the  *)
(* page, the model and the output store get to see                         *)
(* (app/src/execution/command.rs and the loop of execution/host.rs).       *)
(*                                                                         *)
(* The bytes of two streams arrive interleaved and cut anywhere: inside a  *)
(* character, or inside the provider credential that must not be shown.    *)
(* What is not safe to show yet waits in `pending`.                        *)
(*                                                                         *)
(* Text is a sequence of letters with their stream: <<stream, letter>>.    *)
(* "u" is the first byte of a character of two bytes, "v" the second one,  *)
(* "U" the character; "?" stands for bytes that are no character and "*"   *)
(* for the mark that replaces a credential.  Chunks are the longest runs   *)
(* of one stream; the bound on their number is one more limit of the size. *)
(***************************************************************************)
EXTENDS Integers, Sequences, SequencesExt, FiniteSets

CONSTANTS
    Secret,                   \* the credential
    Piece,                    \* what a process writes at a time
    Limit,                    \* MAXIMUM_RETAINED_BYTES
    Preview,                  \* OUTPUT_PREVIEW_BYTES
    MaxBytes,                 \* bound on the bytes that are read
    StoreFaults               \* bound on the writes of the store that fail

VARIABLES
    location,                 \* where the command runs
    at,                       \* "ready", "running" or "ended"
    open, exit,               \* pipes that are open, the status of the child
    capture,                  \* CommandCapture
    progress,                 \* CommandProgress
    published,                \* what the page was sent
    retained,                 \* what the output store holds
    result,                   \* CommandResult
    wrote, faults             \* everything that was read; failed writes

vars == <<location, at, open, exit, capture, progress, published, retained, result,
          wrote, faults>>

Stream == {"stdout", "stderr"}
Views == {Stream, {"stdout"}, {"stderr"}}
Running == "running"

On(text, view) == SelectSeq(text, LAMBDA letter : letter[1] \in view)
Letters(text) == [i \in DOMAIN text |-> text[i][2]]

(* The places of a text that belong to some streams, in their order.       *)
Places(text, view) ==
    SelectSeq([i \in DOMAIN text |-> i], LAMBDA i : text[i][1] \in view)

-----------------------------------------------------------------------------
(***************************************************************************)
(* decode_ordered: a character stands where its first byte arrived, though *)
(* bytes of the other stream came before its second one.                   *)
(***************************************************************************)
Neighbour(bytes, i, step) ==
    LET places == Places(bytes, {bytes[i][1]})
        k == (CHOOSE n \in DOMAIN places : places[n] = i) + step
    IN IF k \in DOMAIN places THEN bytes[places[k]][2] ELSE "none"

Completes(bytes, i) == bytes[i][2] = "v" /\ Neighbour(bytes, i, -1) = "u"

Decoded(bytes, i) ==
    CASE bytes[i][2] = "u" /\ Neighbour(bytes, i, 1) = "v" -> <<bytes[i][1], "U">>
      [] bytes[i][2] \in {"u", "v"} -> <<bytes[i][1], "?">>
      [] OTHER -> bytes[i]

DecodeOrdered(bytes) ==
    LET firsts == SelectSeq([i \in DOMAIN bytes |-> i], LAMBDA i : ~Completes(bytes, i))
    IN [k \in DOMAIN firsts |-> Decoded(bytes, firsts[k])]

IsWhole(bytes) ==
    \A i \in DOMAIN bytes : bytes[i][2] = "u" => Neighbour(bytes, i, 1) # "none"

-----------------------------------------------------------------------------
(***************************************************************************)
(* Redaction: in the order of arrival and on each stream alone.            *)
(***************************************************************************)
OccursAt(letters, i) ==
    /\ i + Len(Secret) - 1 <= Len(letters)
    /\ SubSeq(letters, i, i + Len(Secret) - 1) = Secret

(* How much of the end of a text may be the beginning of the credential.   *)
DanglingPrefix(letters) ==
    Max({0} \union {n \in 1 .. Min({Len(Secret) - 1, Len(letters)}) :
                       SubSeq(letters, Len(letters) - n + 1, Len(letters))
                           = SubSeq(Secret, 1, n)})

(* What is left of a text after its last match.                            *)
AfterMatches(letters) ==
    SubSeq(letters,
           1 + Max({0} \union {i + Len(Secret) - 1 :
                                  i \in {i \in DOMAIN letters : OccursAt(letters, i)}}),
           Len(letters))

HoldsBack(text) ==
    \E view \in Views : DanglingPrefix(AfterMatches(Letters(On(text, view)))) > 0

HiddenIn(text, view) ==
    LET letters == Letters(On(text, view))
        places == Places(text, view)
    IN {places[k] : k \in
           {k \in DOMAIN letters :
               \/ k > Len(letters) - DanglingPrefix(letters)
               \/ \E i \in 1 .. k : OccursAt(letters, i) /\ k < i + Len(Secret)}}

Hidden(text) == UNION {HiddenIn(text, view) : view \in Views}

(* One mark stands for a run of hidden letters.                            *)
Redacted(text) ==
    LET hidden == Hidden(text)
        shown == SelectSeq([i \in DOMAIN text |-> i],
                           LAMBDA i : ~({i - 1, i} \subseteq hidden
                                            /\ text[i - 1][1] = text[i][1]))
    IN [k \in DOMAIN shown |->
           IF shown[k] \in hidden THEN <<text[shown[k]][1], "*">> ELSE text[shown[k]]]

(* A copy that is cut after so many bytes.                                 *)
Bounded(text, maximum) == SubSeq(text, 1, Min({maximum, Len(text)}))

-----------------------------------------------------------------------------
(***************************************************************************)
(* The capture.                                                            *)
(***************************************************************************)
EmptyCapture == [text |-> <<>>, pending |-> <<>>, overflowed |-> FALSE, failed |-> FALSE]

Record(into, text) ==
    IF into.overflowed THEN into
    ELSE [into EXCEPT !.text = Bounded(@ \o text, Limit),
                      !.overflowed = Len(into.text) + Len(text) > Limit]

ReleasesAtOnce(bytes, final) == final \/ ~HoldsBack(DecodeOrdered(bytes))

Releases(bytes, final) == final \/ (IsWhole(bytes) /\ ~HoldsBack(DecodeOrdered(bytes)))

FlushPending(into, final) ==
    IF Releases(into.pending, final)
    THEN Record([into EXCEPT !.pending = <<>>], Redacted(DecodeOrdered(into.pending)))
    ELSE into

Push(into, bytes) ==
    LET room == Limit - Len(into.text) - Len(into.pending)
        overflow == Len(bytes) > room
        flushed == FlushPending([into EXCEPT !.pending = @ \o Bounded(bytes, room)], overflow)
    IN [flushed EXCEPT !.overflowed = @ \/ overflow]

(* What became safe to show with a read.                                   *)
Safe(from, to) == SubSeq(to.text, Len(from.text) + 1, Len(to.text))

(* Progress is sent in ticks, so what is read between two waits here.      *)
EmptyProgress == [text |-> <<>>, bytes |-> 0]

PushProgress(into, text) ==
    LET taken == Bounded(text, Preview - into.bytes)
    IN [text |-> into.text \o taken, bytes |-> into.bytes + Len(taken)]

-----------------------------------------------------------------------------
(***************************************************************************)
(* The store gets the whole capture again with every checkpoint.  Once it  *)
(* fails, the command is stopped and its output says so.                   *)
(***************************************************************************)
NotRetained == [text |-> <<>>, truncated |-> FALSE]

Checkpoint(next) ==
    IF next.failed
    THEN capture' = next /\ UNCHANGED <<retained, faults>>
    ELSE \/ /\ capture' = next
            /\ retained' = [text |-> next.text, truncated |-> next.overflowed]
            /\ UNCHANGED faults
         \/ /\ faults < StoreFaults
            /\ faults' = faults + 1
            /\ capture' = [next EXCEPT !.failed = TRUE]
            /\ UNCHANGED retained

Finished(termination) ==
    [termination |-> IF capture'.failed THEN "StorageFailure"
                     ELSE IF capture'.overflowed THEN "ResourceLimit" ELSE termination,
     text |-> Bounded(capture'.text, Preview)]

EndWith(last, termination) ==
    /\ Checkpoint(FlushPending(last, TRUE))
    /\ at' = "ended"
    /\ result' = Finished(termination)

NotDispatched ==
    /\ at' = "ended"
    /\ result' = [termination |-> "NotDispatched", text |-> <<>>]
    /\ UNCHANGED <<open, exit, capture, progress, published, wrote>>

CaptureInit ==
    /\ location \in {"Host", "Sandbox"}
    /\ at = "ready"
    /\ open = Stream
    /\ exit = Running
    /\ capture = EmptyCapture
    /\ progress = EmptyProgress
    /\ published = <<>>
    /\ retained = NotRetained
    /\ result = [termination |-> Running, text |-> <<>>]
    /\ wrote = <<>>
    /\ faults = 0

-----------------------------------------------------------------------------
(* The reference in the store is made before the process is.               *)
Start ==
    /\ at = "ready"
    /\ at' = Running
    /\ UNCHANGED <<location, open, exit, capture, progress, published, retained, result,
                   wrote, faults>>

DoesNotStart ==
    /\ at = "ready"
    /\ NotDispatched
    /\ UNCHANGED <<location, retained, faults>>

Read(stream, bytes) ==
    LET text == [i \in DOMAIN bytes |-> <<stream, bytes[i]>>]
        next == Push(capture, text)
    IN
    /\ at = Running
    /\ stream \in open
    /\ Len(wrote) < MaxBytes
    /\ wrote' = wrote \o text
    /\ progress' = PushProgress(progress, Safe(capture, next))
    /\ \/ /\ ~next.overflowed
          /\ IF Safe(capture, next) # <<>> THEN Checkpoint(next)
             ELSE capture' = next /\ UNCHANGED <<retained, faults>>
          /\ UNCHANGED <<at, result>>
       \/ next.overflowed /\ EndWith(next, "ResourceLimit")
    /\ UNCHANGED <<location, open, exit, published>>

(* A checkpoint that failed stops the command.                             *)
StopOnFailure ==
    /\ at = Running
    /\ capture.failed
    /\ EndWith(capture, "ResourceLimit")
    /\ UNCHANGED <<location, open, exit, progress, published, wrote>>

Publish ==
    /\ at = Running
    /\ progress.text # <<>>
    /\ published' = published \o progress.text
    /\ progress' = [progress EXCEPT !.text = <<>>]
    /\ UNCHANGED <<location, at, open, exit, capture, retained, result, wrote, faults>>

(* On the host the child and its two pipes end one by one: a descendant of *)
(* the shell may hold a pipe after the shell has exited.                   *)
ClosePipe(stream) ==
    /\ at = Running /\ location = "Host"
    /\ stream \in open
    /\ open' = open \ {stream}
    /\ UNCHANGED <<location, at, exit, capture, progress, published, retained, result,
                   wrote, faults>>

Exit(status) ==
    /\ at = Running /\ location = "Host"
    /\ exit = Running
    /\ exit' = status
    /\ UNCHANGED <<location, at, open, capture, progress, published, retained, result,
                   wrote, faults>>

(* A child that a signal ended has no code.                                *)
EndOnHost ==
    /\ at = Running /\ location = "Host"
    /\ exit # Running /\ open = {}
    /\ EndWith(capture, IF exit = "Exited" THEN "Exited" ELSE "Unknown")
    /\ UNCHANGED <<location, open, exit, progress, published, wrote>>

(* A guest reports its exit after its output, or nothing at all.           *)
EndInSandbox ==
    /\ at = Running /\ location = "Sandbox"
    /\ \E termination \in {"Exited", "Unknown"} : EndWith(capture, termination)
    /\ UNCHANGED <<location, open, exit, progress, published, wrote>>

CutShort ==
    /\ at = Running
    /\ \E termination \in {"Cancelled", "TimedOut", "Unknown"} :
           EndWith(capture, termination)
    /\ UNCHANGED <<location, open, exit, progress, published, wrote>>

CaptureNext ==
    IF at = Running /\ capture.failed THEN StopOnFailure
    ELSE \/ Start \/ DoesNotStart \/ Publish
         \/ EndOnHost \/ EndInSandbox \/ CutShort
         \/ \E stream \in Stream :
                ClosePipe(stream) \/ \E bytes \in Piece : Read(stream, bytes)
         \/ \E status \in {"Exited", "Signalled"} : Exit(status)

CaptureSpec == CaptureInit /\ [][CaptureNext]_vars

-----------------------------------------------------------------------------
(* Nothing that is shown or stored has the credential in it, wherever the  *)
(* reads and the streams cut it (CommandResult::redacted, flush_pending).  *)
Shows(text) ==
    \E view \in Views : \E i \in DOMAIN text : OccursAt(Letters(On(text, view)), i)

CredentialIsHidden ==
    ~Shows(published) /\ ~Shows(retained.text) /\ ~Shows(result.text)

(* Output without a trace of the credential is kept as it was written, in  *)
(* the order it was read: the page has a beginning of what the store has,  *)
(* the store a beginning of what was read, and all of it when the command  *)
(* is said to have exited (decode_ordered, finish_result).                 *)
OutputIsKept ==
    (\A i \in DOMAIN wrote : wrote[i][2] # Secret[1]) =>
        /\ IsPrefix(retained.text, DecodeOrdered(wrote))
        /\ capture.failed \/ IsPrefix(published, retained.text)
        /\ result.termination = "Exited" =>
               /\ retained = [text |-> DecodeOrdered(wrote), truncated |-> FALSE]
               /\ IsPrefix(result.text, retained.text)
=============================================================================
