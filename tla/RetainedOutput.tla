--------------------------- MODULE RetainedOutput ---------------------------
(***************************************************************************)
(* The output that commands leave behind: the records of the output store  *)
(* (app/src/execution/output.rs), the references to them in conversations  *)
(* (app/src/execution/conversation/command.rs, tools.rs), and what forks,  *)
(* deletion and a restart do to both.                                      *)
(*                                                                         *)
(* A record is a file of its own and a value in memory.  A write may fail  *)
(* after the file was replaced.  A command of the user that is excluded    *)
(* leaves output that no model may read, in forks neither.                 *)
(***************************************************************************)
EXTENDS Integers, Sequences, SequencesExt, FiniteSets, FiniteSetsExt

CONSTANTS
    Conversation,
    None,                     \* no command, no draft
    MAXIMUM_OUTPUT_REFERENCES,
    Room,                     \* MAXIMUM_OUTPUT_STORE_BYTES
    MaxEntries,               \* bound on the entries of a conversation
    MaxRefs,                  \* bound on the references that are drawn
    OutputFaults,             \* bound on the writes and removals that fail
    OutputRestarts            \* bound on restarts

VARIABLES
    up,                       \* the server runs
    known,                    \* conversation -> "unused", "live" or "gone"
    entries,                  \* conversation -> its command entries
    command,                  \* conversation -> the output of its command, or None
    memory, disk,             \* the records of the store and its files
    draft,                    \* the entries of a fork that is not sent yet
    drawn,                    \* references given out
    faults, restarts

vars == <<up, known, entries, command, memory, disk, draft, drawn, faults, restarts>>

NoRef == 0
Excluded == "excluded"

Live == {c \in Conversation : known[c] = "live"}
Owned(c) == {r \in memory : r.owner = c}
Bytes(records) == MapThenSumSet(LAMBDA r : r.bytes, records)

(* store and rebind: at the limits, an empty store takes a record anyway.  *)
Full(records, bytes) ==
    /\ records # {}
    /\ \/ Cardinality(records) >= MAXIMUM_OUTPUT_REFERENCES
       \/ Bytes(records) + bytes > Room

(* A record as one command or one copied entry makes it.  `of` is the      *)
(* entry whose output it holds, whichever conversation owns the copy.      *)
Record(ref, c, of, hidden, bytes) ==
    [ref |-> ref, owner |-> c, of |-> of, hidden |-> hidden, bytes |-> bytes]

(* read_output: whatever reference a model names, its conversation and the *)
(* record decide.                                                          *)
ModelMayRead(c, record) == record.owner = c /\ ~record.hidden

Without(records, ref) == {r \in records : r.ref # ref}
Find(ref) == CHOOSE r \in memory : r.ref = ref
Known(ref) == \E r \in memory : r.ref = ref

OutputInit ==
    /\ up = TRUE
    /\ known = [c \in Conversation |-> "unused"]
    /\ entries = [c \in Conversation |-> <<>>]
    /\ command = [c \in Conversation |-> None]
    /\ memory = {} /\ disk = {}
    /\ draft = None
    /\ drawn = 0
    /\ faults = 0
    /\ restarts = 0

-----------------------------------------------------------------------------
Create(c) ==
    /\ up
    /\ known[c] = "unused"
    /\ known' = [known EXCEPT ![c] = "live"]
    /\ UNCHANGED <<up, entries, command, memory, disk, draft, drawn, faults, restarts>>

(* The entry is stored before the command starts.  A model runs commands   *)
(* that are included, a user either kind.                                  *)
Begin(c, policy) ==
    /\ up
    /\ c \in Live /\ command[c] = None
    /\ Len(entries[c]) < MaxEntries
    /\ entries' = [entries EXCEPT ![c] =
                      Append(@, [id |-> <<c, Len(@) + 1>>, policy |-> policy,
                                 status |-> "pending", ref |-> NoRef])]
    /\ command' = [command EXCEPT ![c] = [ref |-> NoRef, ended |-> FALSE]]
    /\ UNCHANGED <<up, known, memory, disk, draft, drawn, faults, restarts>>

(* OutputStore::store and OutputStore::rebind write one new record.  The   *)
(* reference is lost when the write fails, the file may stay.              *)
Keep(record) ==
    /\ drawn' = drawn + 1
    /\ \/ /\ memory' = memory \union {record}
          /\ disk' = disk \union {record}
          /\ UNCHANGED faults
       \/ /\ faults < OutputFaults
          /\ faults' = faults + 1
          /\ disk' \in {disk, disk \union {record}}
          /\ UNCHANGED memory

Dispatch(c) ==
    LET last == Last(entries[c])
        record == Record(drawn + 1, c, <<last.id, last.policy>>, last.policy = Excluded, 0)
    IN
    /\ up
    /\ command[c] # None /\ ~command[c].ended /\ command[c].ref = NoRef
    /\ IF Full(memory, 0)
       THEN /\ command' = [command EXCEPT ![c].ended = TRUE]
            /\ UNCHANGED <<memory, disk, drawn, faults>>
       ELSE /\ drawn < MaxRefs
            /\ Keep(record)
            /\ command' = [command EXCEPT ![c] =
                              [ref |-> IF memory' = memory THEN NoRef ELSE record.ref,
                               ended |-> memory' = memory]]
    /\ UNCHANGED <<up, known, entries, draft, restarts>>

(* Output is written with every checkpoint; one that fails ends the        *)
(* command, which keeps the reference to what was stored before.           *)
Checkpoint(c) ==
    LET old == Find(command[c].ref)
        new == [old EXCEPT !.bytes = @ + 1]
        store == Without(memory, old.ref) \union {new}
        file == Without(disk, old.ref) \union {new}
    IN
    /\ up
    /\ command[c] # None /\ ~command[c].ended /\ command[c].ref # NoRef
    /\ \/ /\ Bytes(store) <= Room
          /\ memory' = store
          /\ disk' = file
          /\ UNCHANGED <<command, faults>>
       \/ /\ Bytes(store) > Room
          /\ command' = [command EXCEPT ![c].ended = TRUE]
          /\ UNCHANGED <<memory, disk, faults>>
       \/ /\ Bytes(store) <= Room
          /\ faults < OutputFaults
          /\ faults' = faults + 1
          /\ disk' \in {disk, file}
          /\ command' = [command EXCEPT ![c].ended = TRUE]
          /\ UNCHANGED memory
    /\ UNCHANGED <<up, known, entries, draft, drawn, restarts>>

(* The entry gets its reference when the command ends, unless the store of *)
(* conversations refuses: then it stays pending until a restart.           *)
Settle(c) ==
    /\ up
    /\ command[c] # None
    /\ command[c].ended \/ command[c].ref # NoRef
    /\ command' = [command EXCEPT ![c] = None]
    /\ \/ /\ entries' = [entries EXCEPT ![c][Len(entries[c])] =
                            [@ EXCEPT !.status = "settled", !.ref = command[c].ref]]
          /\ UNCHANGED faults
       \/ /\ faults < OutputFaults
          /\ faults' = faults + 1
          /\ UNCHANGED entries
    /\ UNCHANGED <<up, known, memory, disk, draft, drawn, restarts>>

-----------------------------------------------------------------------------
(* A fork takes settled entries alone and is sent some time later.         *)
Fork(c, n) ==
    /\ up
    /\ c \in Live /\ command[c] = None
    /\ \A i \in 1 .. n : entries[c][i].status = "settled"
    /\ draft' = [source |-> c, entries |-> SubSeq(entries[c], 1, n)]
    /\ UNCHANGED <<up, known, entries, command, memory, disk, drawn, faults,
                   restarts>>

HiddenInCopy(record) == record.hidden

KeptReference(done, entry) == [done EXCEPT !.entries = Append(@, entry)]

(* What materialise has done so far: the copied entries, the records, the  *)
(* next reference, and the copies that could not be written.  An entry     *)
(* that is not copied loses its reference.                                 *)
Rebound(done, entry) ==
    LET found == {r \in done.store : r.ref = entry.ref /\ r.owner = draft.source}
        source == CHOOSE r \in found : TRUE
        copy == Record(done.next, done.c, source.of, HiddenInCopy(source), source.bytes)
        refused == found = {} \/ Full(done.store, source.bytes)
        fails == Len(done.entries) + 1 \in done.failing
    IN CASE refused -> [done EXCEPT !.entries = Append(@, [entry EXCEPT !.ref = NoRef])]
         [] ~refused /\ fails ->
                [done EXCEPT !.entries = Append(@, [entry EXCEPT !.ref = NoRef]),
                             !.lost = @ \union {copy},
                             !.next = @ + 1]
         [] OTHER ->
                [done EXCEPT !.entries = Append(@, [entry EXCEPT !.ref = done.next]),
                             !.store = @ \union {copy},
                             !.next = @ + 1]

Materialise(c, failing) ==
    FoldLeft(Rebound,
             [entries |-> <<>>, store |-> memory, lost |-> {}, next |-> drawn + 1,
              c |-> c, failing |-> failing],
             draft.entries)

(* The records are copied before the conversation is stored.  When it is   *)
(* not, or its first message fails, the copies stay behind.                *)
SendFork(c, failing, stored) ==
    LET made == Materialise(c, failing)
        failed == Cardinality(failing) + IF stored THEN 0 ELSE 1
    IN
    /\ up
    /\ known[c] = "unused"
    /\ made.next - 1 <= MaxRefs
    /\ memory' = made.store
    /\ disk' \in {disk \union (made.store \ memory),
                  disk \union (made.store \ memory) \union made.lost}
    /\ drawn' = made.next - 1
    /\ faults + failed <= OutputFaults
    /\ faults' = faults + failed
    /\ known' = [known EXCEPT ![c] = IF stored THEN "live" ELSE "gone"]
    /\ entries' = [entries EXCEPT ![c] = IF stored THEN made.entries ELSE <<>>]
    /\ draft' \in (IF stored THEN {None} ELSE {draft, None})
    /\ UNCHANGED <<up, command, restarts>>

-----------------------------------------------------------------------------
(* The rows go first, then the files one by one; one that cannot be        *)
(* removed stays, in memory too.                                           *)
Delete(c) ==
    /\ up
    /\ c \in Live /\ command[c] = None
    /\ \A i \in DOMAIN entries[c] : entries[c][i].status = "settled"
    /\ known' = [known EXCEPT ![c] = "gone"]
    /\ \E kept \in SUBSET Owned(c) :
           /\ faults + Cardinality(kept) <= OutputFaults
           /\ faults' = faults + Cardinality(kept)
           /\ memory' = (memory \ Owned(c)) \union kept
           /\ disk' = {r \in disk : r.owner # c \/ \E k \in kept : k.ref = r.ref
                                        \/ ~Known(r.ref)}
    /\ UNCHANGED <<up, entries, command, draft, drawn, restarts>>

Stop ==
    /\ up
    /\ restarts < OutputRestarts
    /\ restarts' = restarts + 1
    /\ up' = FALSE
    /\ command' = [c \in Conversation |-> None]
    /\ memory' = {}
    /\ draft' = None
    /\ UNCHANGED <<known, entries, disk, drawn, faults>>

(* load_dir                                                                *)
Loads ==
    /\ Cardinality(disk) <= MAXIMUM_OUTPUT_REFERENCES
    /\ Bytes(disk) <= Room

(* Records of conversations that are gone are removed before anything else *)
(* runs, and entries that were pending are settled without their output.   *)
Start ==
    /\ ~up
    /\ Loads
    /\ up' = TRUE
    /\ disk' = {r \in disk : r.owner \in Live}
    /\ memory' = disk'
    /\ entries' = [c \in Conversation |->
                      [i \in DOMAIN entries[c] |->
                               [entries[c][i] EXCEPT !.status = "settled"]]]
    /\ UNCHANGED <<known, command, draft, drawn, faults, restarts>>

OutputNext ==
    \/ \E c \in Conversation :
           \/ Create(c) \/ Dispatch(c) \/ Checkpoint(c) \/ Settle(c)
           \/ Delete(c)
           \/ draft # None /\ \E failing \in SUBSET DOMAIN draft.entries :
                  \E stored \in BOOLEAN : SendFork(c, failing, stored)
           \/ \E policy \in {"included", Excluded} : Begin(c, policy)
           \/ c \in Live /\ \E n \in 1 .. Len(entries[c]) : Fork(c, n)
    \/ Stop \/ Start

OutputSpec == OutputInit /\ [][OutputNext]_vars

-----------------------------------------------------------------------------
(* Every reference that a conversation shows leads to a record of its own  *)
(* with the output of that entry, hidden from models if the entry is, and  *)
(* right after a start no record is left of a conversation that is gone    *)
(* (store, rebind, remove_scope, remove_abandoned).                        *)
OutputIsOwned ==
    up => \A c \in Live : \A i \in DOMAIN entries[c] :
              entries[c][i].ref # NoRef =>
                  \E r \in Owned(c) :
                      /\ r.ref = entries[c][i].ref
                      /\ r.of = <<entries[c][i].id, entries[c][i].policy>>
                      /\ r.hidden = (entries[c][i].policy = Excluded)

(* No model may read the output of a command that the user excluded from   *)
(* its context, in no conversation and in no fork (model_page, rebind).    *)
ExcludedStaysHidden ==
    \A c \in Conversation : \A record \in memory :
        ModelMayRead(c, record) => record.of[2] # Excluded

(* A server that stopped starts again: the files it left are within the    *)
(* limits, as long as no write of a file failed (load_dir).                *)
OutputLoads == ~up /\ faults = 0 => Loads
=============================================================================
