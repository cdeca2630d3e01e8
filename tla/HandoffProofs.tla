---------------------------- MODULE HandoffProofs ---------------------------
(***************************************************************************)
(* The handoff implements Ownership, for any number of conversations,      *)
(* handlers, failing commits and restarts.                                 *)
(*                                                                         *)
(* What a crash may find on disk is not what the memory says: the file may *)
(* be one change behind, and a file that was replaced but not flushed may  *)
(* come back.  The invariant therefore speaks of every content the next    *)
(* start can see (disk and loose), and says that each of them is one step  *)
(* of Ownership from the durable one.                                      *)
(***************************************************************************)
EXTENDS HandoffTransfer, TLAPS

RunState == [owner : Conversation, past : SUBSET Conversation,
             journal : Journal \union {NoId}, decided : BOOLEAN]
RowState == [stored : BOOLEAN, revision : Nat, job : JobId \union {NoId},
             request : JobId \union {NoId},
             status : {"none", "Pending", "Complete", "Interrupted"}]
Draft == [run : RunState, revision : Nat]
Place ==
    {"idle", "flush", "project", "clear", "generate", "create", "take", "start",
     "journal", "settle", "undo", "recover", "begin", "reopen", "attach",
     "decide", "end", "delete", "interrupt", "refused", "down"}
Kind == {"none", "generate", "transfer", "restore", "decide", "delete", "start"}
ThreadState == [pc : Place, kind : Kind, run : RunState \union {NoId},
                revision : Nat, dest : Conversation \union {NoId},
                job : JobId \union {NoId}, gate : Gate \union {NoId}]

(* A transfer that has not committed its new owner yet, and a thread that  *)
(* holds the lock of the conversation store between two steps.             *)
Transfers(s) == s.pc \in {"create", "take", "start", "journal"}
Locks(s) == s.pc \in {"flush", "project", "clear"}

(* What a thread holds at its place.                                       *)
Fits(s) ==
    /\ \/ Transfers(s)
       \/ s.pc \in {"undo", "settle", "recover", "begin", "reopen", "attach",
                    "delete", "decide", "end"}
       \/ Locks(s) /\ s.kind \in {"transfer", "restore"}
       => s.dest \in Conversation
    /\ \/ s.pc \in {"journal", "settle", "reopen", "attach"}
       \/ Locks(s) /\ s.kind = "transfer"
       => s.job \in JobId
    /\ Transfers(s) => /\ s.kind = "transfer"
                       /\ s.run \in RunState
                       /\ s.run.journal = NoId /\ ~s.run.decided
    /\ Locks(s) => s.kind \in {"transfer", "restore", "start"}
    /\ s.pc = "recover" => s.kind = "restore"
    /\ s.pc \in {"decide", "end"} => s.gate \in Gate

MemoryFits ==
    /\ uncertain \subseteq Conversation
    /\ registered \in [Conversation -> JobId \union {NoId}]
    /\ parked \in Gate \union {NoId}
    /\ used \subseteq JobId
    /\ binding \in Draft \union {NoId}

HandoffTypeOK ==
    /\ row \in [Conversation -> RowState]
    /\ run \in RunState /\ disk \in RunState /\ loose \subseteq RunState
    /\ MemoryFits
    /\ thread \in [Thread -> ThreadState]
    /\ \A t \in Thread : Fits(thread[t])

(* The steps of Ownership between two contents of the run file.            *)
Owners(r) == r.past \union {r.owner}
Moved(r, s) ==
    /\ r.journal = NoId /\ ~r.decided
    /\ s.owner \notin Owners(r) /\ s.past = Owners(r)
    /\ s.journal # NoId /\ ~s.decided
Told(r, s) == r.journal # NoId /\ s = [r EXCEPT !.journal = NoId]
Decided(r, s) ==
    r.journal = NoId /\ ~r.decided /\ s = [r EXCEPT !.decided = TRUE]
Follows(r, s) == s = r \/ Moved(r, s) \/ Told(r, s) \/ Decided(r, s)

(* The memory is the file, or one change of owner ahead of it; whatever a  *)
(* crash may bring back follows from the file.                             *)
FileFollows ==
    /\ run = disk \/ Moved(disk, run)
    /\ \A l \in loose : Follows(disk, l)

(* One thread works on the journal, there is one to work on, and from the  *)
(* transaction on the file is what the memory says.                        *)
LockIsHeldOnce ==
    \A t, u \in Thread : Locks(thread[t]) /\ Locks(thread[u]) => t = u
LockedFile ==
    \A t \in Thread :
        /\ Locks(thread[t]) => run.journal # NoId
        /\ thread[t].pc \in {"project", "clear"} => run = disk

(* A transfer's destination never owned the run and is its own.  (A        *)
(* conversation that was stored once does not begin again.)                *)
NewOwner ==
    \A t \in Thread : Transfers(thread[t]) =>
        /\ thread[t].dest \notin Owners(run)
        /\ \A u \in Thread :
              Transfers(thread[u]) /\ thread[u].dest = thread[t].dest => t = u
OwnersAreUsed ==
    \A r \in loose \union {run, disk} :
        \A c \in Owners(r) : row[c].revision # 0

OwnInv ==
    /\ HandoffTypeOK
    /\ FileFollows
    /\ LockIsHeldOnce /\ LockedFile
    /\ NewOwner
    /\ OwnersAreUsed

-----------------------------------------------------------------------------
USE HandoffAssumption

LEMMA IdleFits == Idle \in ThreadState /\ Fits(Idle)
<1>1. Idle \in ThreadState
  BY DEF Idle, ThreadState, Place, Kind
<1>2. Idle.pc = "idle"
  BY DEF Idle
<1> QED
  BY <1>1, <1>2 DEF Fits, Transfers, Locks

(* A thread goes on, or leaves.                                            *)
LEMMA GotoFits ==
  ASSUME HandoffTypeOK, NEW t \in Thread, NEW label \in Place, Goto(t, label),
         Fits([thread[t] EXCEPT !.pc = label])
  PROVE  thread' \in [Thread -> ThreadState] /\ \A u \in Thread : Fits(thread'[u])
<1>1. thread'[t] = [thread[t] EXCEPT !.pc = label]
  BY DEF Goto, HandoffTypeOK
<1>2. thread'[t] \in ThreadState
  BY <1>1 DEF HandoffTypeOK, ThreadState
<1> QED
  BY <1>1, <1>2 DEF Goto, HandoffTypeOK

LEMMA BecomesFits ==
  ASSUME HandoffTypeOK, NEW t \in Thread, NEW s \in ThreadState, Fits(s),
         thread' = [thread EXCEPT ![t] = s]
  PROVE  thread' \in [Thread -> ThreadState] /\ \A u \in Thread : Fits(thread'[u])
  BY DEF HandoffTypeOK

LEMMA LeaveFits ==
  ASSUME HandoffTypeOK, NEW t \in Thread, Leave(t)
  PROVE  thread' \in [Thread -> ThreadState] /\ \A u \in Thread : Fits(thread'[u])
  BY IdleFits, BecomesFits DEF Leave

(* What a response becomes.                                                *)
LEMMA WaitingFits ==
  ASSUME NEW m \in RowState, NEW job \in JobId
  PROVE  /\ Waiting(m, job) \in RowState
         /\ Waiting(m, job).revision = m.revision + 1
<1> DEFINE n == [m EXCEPT !.job = job, !.request = job, !.status = "Pending"]
<1>1. n \in RowState /\ n.revision = m.revision
  BY DEF RowState
<1> HIDE DEF n
<1>2. [n EXCEPT !.revision = @ + 1] \in RowState
  BY <1>1 DEF RowState
<1>3. [n EXCEPT !.revision = @ + 1].revision = m.revision + 1
  BY <1>1 DEF RowState
<1>4. Waiting(m, job) = [n EXCEPT !.revision = @ + 1]
  BY DEF n, Waiting
<1> QED
  BY <1>2, <1>3, <1>4

LEMMA HandedOnFits ==
  ASSUME NEW m \in RowState, NEW job
  PROVE  /\ HandedOn(m, job) \in RowState
         /\ HandedOn(m, job).revision = m.revision + 1
<1> DEFINE n == [m EXCEPT !.status = "Complete"]
           k == IF m.job = job THEN NoId ELSE m.job
           l == [n EXCEPT !.job = k]
<1>1. n \in RowState /\ n.revision = m.revision /\ n.job = m.job
  BY DEF RowState
<1>2. k \in JobId \union {NoId}
  BY DEF RowState
<1>3. HandedOn(m, job) = [l EXCEPT !.revision = @ + 1]
  BY DEF HandedOn
<1> HIDE DEF n, k
<1>4. l \in RowState /\ l.revision = m.revision
  BY <1>1, <1>2 DEF RowState
<1> HIDE DEF l
<1>5. [l EXCEPT !.revision = @ + 1] \in RowState
  BY <1>4 DEF RowState
<1>6. [l EXCEPT !.revision = @ + 1].revision = m.revision + 1
  BY <1>4 DEF RowState
<1> QED
  BY <1>3, <1>5, <1>6

LEMMA RowsFit ==
  ASSUME HandoffTypeOK, NEW owner \in Conversation, NEW p \in Journal
  PROVE  /\ Projected(row, owner, p) \in [Conversation -> RowState]
         /\ \A c \in Conversation :
               Projected(row, owner, p)[c].revision >= row[c].revision
<1>1. p.source \in Conversation /\ p.job \in JobId
  BY DEF Journal
<1> DEFINE one == [row EXCEPT ![owner] = IF Delivered(row, owner, p) THEN @
                                         ELSE Waiting(@, p.job)]
           both == [one EXCEPT ![p.source] =
                       IF PassesOn(@, p) THEN HandedOn(@, p.sourceJob) ELSE @]
<1>2. Projected(row, owner, p) = both
  BY DEF Projected
<1>3. /\ one \in [Conversation -> RowState]
      /\ \A c \in Conversation : one[c].revision >= row[c].revision
  <2>1. row \in [Conversation -> RowState] /\ row[owner] \in RowState
        /\ \A c \in Conversation : row[c].revision \in Nat
    BY DEF HandoffTypeOK, RowState
  <2>2. Waiting(row[owner], p.job) \in RowState
        /\ Waiting(row[owner], p.job).revision = row[owner].revision + 1
    BY <1>1, <2>1, WaitingFits
  <2> QED
    BY <2>1, <2>2
<1> HIDE DEF one
<1>4. one[p.source] \in RowState
      /\ \A c \in Conversation : one[c].revision \in Nat /\ row[c].revision \in Nat
  BY <1>1, <1>3 DEF RowState, HandoffTypeOK
<1>5. HandedOn(one[p.source], p.sourceJob) \in RowState
      /\ HandedOn(one[p.source], p.sourceJob).revision = one[p.source].revision + 1
  BY <1>4, HandedOnFits
<1>6. /\ both \in [Conversation -> RowState]
      /\ \A c \in Conversation : both[c].revision >= one[c].revision
  BY <1>1, <1>3, <1>4, <1>5
<1> HIDE DEF both
<1>7. \A c \in Conversation : both[c].revision \in Nat
  BY <1>6 DEF RowState
<1> QED
  BY <1>2, <1>3, <1>4, <1>6, <1>7

-----------------------------------------------------------------------------
(* A step that leaves the run file alone: one thread goes on, and stored   *)
(* conversations stay used.                                                *)
RowsGrow ==
    /\ row' \in [Conversation -> RowState]
    /\ \A c \in Conversation : row[c].revision # 0 => row'[c].revision # 0

(* What a thread may become without disturbing the others.                 *)
MayBecome(t, s) ==
    /\ Fits(s)
    /\ Locks(s) => Locks(thread[t]) \/ (Unlocked /\ run.journal # NoId)
    /\ s.pc \in {"project", "clear"} => run = disk
    /\ Transfers(s) =>
          /\ s.dest \notin Owners(run)
          /\ \A u \in Thread :
                Transfers(thread[u]) /\ thread[u].dest = s.dest => t = u

LEMMA QuietStep ==
  ASSUME OwnInv, UNCHANGED runFile, MemoryFits', RowsGrow,
         NEW t \in Thread, NEW s \in ThreadState, MayBecome(t, s),
         thread' = [thread EXCEPT ![t] = s]
  PROVE  OwnInv'
<1>1. /\ UNCHANGED <<run, disk, loose>>
      /\ thread'[t] = s
      /\ \A u \in Thread : u # t => thread'[u] = thread[u]
  BY DEF runFile, OwnInv, HandoffTypeOK
<1>2. HandoffTypeOK'
  BY <1>1, BecomesFits DEF OwnInv, HandoffTypeOK, RowsGrow, MayBecome
<1>3. FileFollows'
  BY <1>1 DEF OwnInv, FileFollows
<1>4. LockIsHeldOnce' /\ LockedFile'
  BY <1>1 DEF OwnInv, LockIsHeldOnce, LockedFile, MayBecome, Unlocked, Locks
<1>5. NewOwner'
  <2>1. \A u \in Thread : Transfers(thread'[u]) => thread'[u].dest \notin Owners(run)
    BY <1>1 DEF OwnInv, NewOwner, MayBecome
  <2>2. ASSUME NEW u \in Thread, NEW v \in Thread, Transfers(thread'[u]),
               Transfers(thread'[v]), thread'[v].dest = thread'[u].dest
        PROVE  u = v
    BY <1>1, <2>2 DEF OwnInv, NewOwner, MayBecome
  <2> QED
    BY <1>1, <2>1, <2>2 DEF NewOwner
<1>6. OwnersAreUsed'
  BY <1>1 DEF OwnInv, OwnersAreUsed, RowsGrow, Owners, HandoffTypeOK, RunState
<1> QED
  BY <1>2, <1>3, <1>4, <1>5, <1>6 DEF OwnInv

LEMMA QuietLeave ==
  ASSUME OwnInv, UNCHANGED runFile, MemoryFits', RowsGrow,
         NEW t \in Thread, Leave(t)
  PROVE  OwnInv'
<1>1. Idle.pc = "idle"
  BY DEF Idle
<1>2. MayBecome(t, Idle)
  BY <1>1, IdleFits DEF MayBecome, Locks, Transfers
<1> QED
  BY <1>2, IdleFits, QuietStep DEF Leave

LEMMA QuietGoto ==
  ASSUME OwnInv, UNCHANGED runFile, MemoryFits', RowsGrow,
         NEW t \in Thread, NEW label \in Place, Goto(t, label),
         MayBecome(t, [thread[t] EXCEPT !.pc = label])
  PROVE  OwnInv'
<1>1. [thread[t] EXCEPT !.pc = label] \in ThreadState
  BY DEF OwnInv, HandoffTypeOK, ThreadState
<1>2. thread' = [thread EXCEPT ![t] = [thread[t] EXCEPT !.pc = label]]
  BY DEF Goto
<1> QED
  BY <1>1, <1>2, QuietStep

LEMMA QuietRest ==
  ASSUME OwnInv, UNCHANGED runFile, MemoryFits', RowsGrow, UNCHANGED thread
  PROVE  OwnInv'
<1>1. Startup \in Thread /\ thread[Startup] \in ThreadState
  BY DEF Thread, OwnInv, HandoffTypeOK
<1>2. MayBecome(Startup, thread[Startup])
  BY <1>1 DEF MayBecome, OwnInv, HandoffTypeOK, LockedFile, NewOwner
<1>3. thread' = [thread EXCEPT ![Startup] = thread[Startup]]
  BY <1>1 DEF OwnInv, HandoffTypeOK
<1> QED
  BY <1>1, <1>2, <1>3, QuietStep

(* Rows and memory that a step leaves alone.                               *)
LEMMA RowsStay == ASSUME HandoffTypeOK, UNCHANGED row PROVE RowsGrow
  BY DEF HandoffTypeOK, RowsGrow
LEMMA RowBecomes ==
  ASSUME HandoffTypeOK, NEW c \in Conversation, NEW m \in RowState,
         m.revision # 0, row' = [row EXCEPT ![c] = m]
  PROVE  RowsGrow
  BY DEF HandoffTypeOK, RowsGrow
LEMMA MemoryStays ==
  ASSUME HandoffTypeOK, UNCHANGED <<uncertain, memory>> PROVE MemoryFits'
  BY DEF HandoffTypeOK, MemoryFits, memory
LEMMA AbsentFits ==
  /\ Absent \in RowState /\ Gone \in RowState /\ Fresh \in RowState
  /\ Absent.revision = 0 /\ Gone.revision = 1 /\ Fresh.revision = 1
  BY DEF Absent, Gone, Fresh, RowState

-----------------------------------------------------------------------------
(* The steps that leave the run file alone.                                *)
LEMMA GenerateStep ==
  ASSUME OwnInv, NEW t \in Handler, NEW c \in Conversation, Generate(t, c)
  PROVE  OwnInv'
<1> DEFINE s == [Idle EXCEPT !.pc = "generate", !.kind = "generate", !.dest = c]
<1>1. s \in ThreadState /\ s.pc = "generate"
  BY DEF Idle, ThreadState, Place, Kind
<1> HIDE DEF s
<1>2. MayBecome(t, s)
  BY <1>1 DEF MayBecome, Fits, Locks, Transfers
<1>3. t \in Thread /\ thread' = [thread EXCEPT ![t] = s]
  BY DEF Generate, Thread, s
<1>4. RowsGrow /\ MemoryFits' /\ UNCHANGED runFile
  BY RowsStay, MemoryStays DEF Generate, OwnInv
<1> QED
  BY <1>1, <1>2, <1>3, <1>4, QuietStep

LEMMA CheckDeleteStep ==
  ASSUME OwnInv, NEW t \in Handler, NEW c \in Conversation, CheckDelete(t, c)
  PROVE  OwnInv'
<1> DEFINE s == [Idle EXCEPT !.pc = "delete", !.kind = "delete", !.dest = c,
                             !.revision = row[c].revision]
<1>1. s \in ThreadState /\ s.pc = "delete" /\ s.dest = c
  BY DEF Idle, ThreadState, Place, Kind, OwnInv, HandoffTypeOK, RowState
<1> HIDE DEF s
<1>2. MayBecome(t, s)
  BY <1>1 DEF MayBecome, Fits, Locks, Transfers
<1>3. t \in Thread /\ thread' = [thread EXCEPT ![t] = s]
  BY DEF CheckDelete, Thread, s
<1>4. RowsGrow /\ MemoryFits' /\ UNCHANGED runFile
  BY RowsStay, MemoryStays DEF CheckDelete, OwnInv
<1> QED
  BY <1>1, <1>2, <1>3, <1>4, QuietStep

LEMMA SendStep ==
  ASSUME OwnInv, NEW t \in Handler, NEW c \in Conversation, Send(t, c)
  PROVE  OwnInv'
<1> DEFINE s == [Idle EXCEPT !.pc = "create", !.kind = "transfer", !.run = run,
                             !.revision = binding.revision, !.dest = c]
<1>1. binding.revision \in Nat /\ run \in RunState
  BY DEF Send, BindingHolds, OwnInv, HandoffTypeOK, MemoryFits, Draft
<1>2. /\ s \in ThreadState
      /\ s.pc = "create" /\ s.dest = c /\ s.run = run /\ s.kind = "transfer"
  BY <1>1 DEF Idle, ThreadState, Place, Kind
<1> HIDE DEF s
<1>3. Fits(s)
  BY <1>1, <1>2
     DEF Fits, Locks, Transfers, Send, BindingHolds, Transferable, Recoverable
<1>4. c \notin Owners(run)
  BY AbsentFits DEF Send, OwnInv, OwnersAreUsed
<1>5. \A u \in Thread : ~(Transfers(thread[u]) /\ thread[u].dest = c)
  <2>1. ~Transfers(thread[Startup])
    BY DEF Send, Running, Idle, Transfers
  <2> QED
    BY <2>1 DEF Send, Thread
<1>6. MayBecome(t, s)
  BY <1>2, <1>3, <1>4, <1>5 DEF MayBecome, Locks
<1>7. t \in Thread /\ thread' = [thread EXCEPT ![t] = s]
  BY DEF Send, Thread, s
<1>8. RowsGrow /\ MemoryFits' /\ UNCHANGED runFile
  BY RowsStay, MemoryStays DEF Send, OwnInv
<1> QED
  BY <1>2, <1>6, <1>7, <1>8, QuietStep

LEMMA CreateDestinationStep ==
  ASSUME OwnInv, NEW t \in Handler, CreateDestination(t)
  PROVE  OwnInv'
<1>1. t \in Thread /\ thread[t] \in ThreadState /\ Fits(thread[t])
  BY DEF Thread, OwnInv, HandoffTypeOK
<1>2. thread[t].pc = "create" /\ thread[t].dest \in Conversation
  BY <1>1 DEF CreateDestination, Fits, Transfers
<1> DEFINE s == [thread[t] EXCEPT !.pc = "take"]
<1>3. /\ s.pc = "take" /\ s.dest = thread[t].dest
      /\ s.kind = thread[t].kind /\ s.run = thread[t].run
  BY <1>1 DEF ThreadState
<1> HIDE DEF s
<1>4. MayBecome(t, s)
  <2>1. Fits(s) /\ ~Locks(s) /\ Transfers(s) /\ Transfers(thread[t])
    BY <1>1, <1>2, <1>3 DEF Fits, Locks, Transfers
  <2> QED
    BY <1>1, <1>3, <2>1 DEF MayBecome, OwnInv, NewOwner
<1>5. RowsGrow
  <2>1. row' = [row EXCEPT ![thread[t].dest] = Fresh]
    BY DEF CreateDestination
  <2> QED
    BY <1>2, <2>1, AbsentFits DEF OwnInv, HandoffTypeOK, RowsGrow
<1>6. MemoryFits' /\ UNCHANGED runFile
  BY MemoryStays DEF CreateDestination, OwnInv
<1>7. Goto(t, "take") /\ "take" \in Place
  BY DEF CreateDestination, Place
<1> QED
  BY <1>1, <1>4, <1>5, <1>6, <1>7, QuietGoto DEF s

LEMMA UndoDestinationStep ==
  ASSUME OwnInv, NEW t \in Handler, UndoDestination(t)
  PROVE  OwnInv'
<1>1. t \in Thread /\ thread[t].dest \in Conversation
  BY DEF Thread, OwnInv, HandoffTypeOK, Fits, UndoDestination
<1>2. RowsGrow
  BY <1>1, AbsentFits, RowBecomes, RowsStay DEF UndoDestination, OwnInv
<1>3. MemoryFits' /\ UNCHANGED runFile /\ Leave(t)
  BY MemoryStays DEF UndoDestination, OwnInv
<1> QED
  BY <1>1, <1>2, <1>3, QuietLeave

(* A gate is never taken by two: what a transfer or a decision keeps is    *)
(* the parked job, which it can put back.                                  *)
LEMMA PutBackFits ==
  ASSUME HandoffTypeOK, NEW gate \in Gate \union {NoId}, PutBack(gate)
  PROVE  parked' \in Gate \union {NoId}
  BY DEF HandoffTypeOK, MemoryFits, PutBack

LEMMA TakeSourceStep ==
  ASSUME OwnInv, NEW t \in Handler, TakeSource(t)
  PROVE  OwnInv'
<1>1. t \in Thread /\ thread[t] \in ThreadState /\ Fits(thread[t])
  BY DEF Thread, OwnInv, HandoffTypeOK
<1>2. /\ thread[t].pc = "take" /\ Transfers(thread[t])
      /\ UNCHANGED runFile /\ RowsGrow
  BY RowsStay DEF TakeSource, Transfers, OwnInv
<1>3. CASE Goto(t, "undo") /\ UNCHANGED parked
  <2> DEFINE s == [thread[t] EXCEPT !.pc = "undo"]
  <2>1. s.pc = "undo" /\ s.dest = thread[t].dest
    BY <1>1 DEF ThreadState
  <2> HIDE DEF s
  <2>2. MayBecome(t, s)
    BY <1>1, <1>2, <2>1 DEF MayBecome, Fits, Locks, Transfers
  <2>3. MemoryFits' /\ "undo" \in Place
    BY <1>3 DEF TakeSource, OwnInv, HandoffTypeOK, MemoryFits, Place
  <2> QED
    BY <1>1, <1>2, <1>3, <2>2, <2>3, QuietGoto DEF s
<1>4. CASE /\ binding # NoId
           /\ thread' = [thread EXCEPT ![t].pc = "start", ![t].gate = parked,
                                       ![t].revision = binding.revision]
           /\ parked' = NoId
  <2> DEFINE s == [thread[t] EXCEPT !.pc = "start", !.gate = parked,
                                    !.revision = binding.revision]
  <2>1. binding.revision \in Nat /\ parked \in Gate \union {NoId}
    BY <1>4 DEF OwnInv, HandoffTypeOK, MemoryFits, Draft
  <2>2. /\ s \in ThreadState
        /\ s.pc = "start" /\ s.dest = thread[t].dest
        /\ s.kind = thread[t].kind /\ s.run = thread[t].run
    BY <1>1, <2>1 DEF ThreadState, Place
  <2>3. thread' = [thread EXCEPT ![t] = s]
    BY <1>1, <1>4 DEF OwnInv, HandoffTypeOK, ThreadState
  <2> HIDE DEF s
  <2>4. MayBecome(t, s)
    <3>1. Fits(s) /\ ~Locks(s) /\ Transfers(s)
      BY <1>1, <1>2, <2>2 DEF Fits, Locks, Transfers
    <3> QED
      BY <1>1, <1>2, <2>2, <3>1 DEF MayBecome, OwnInv, NewOwner
  <2>5. MemoryFits'
    BY <1>4 DEF TakeSource, OwnInv, HandoffTypeOK, MemoryFits
  <2> QED
    BY <1>1, <1>2, <2>2, <2>3, <2>4, <2>5, QuietStep
<1> QED
  BY <1>3, <1>4 DEF TakeSource

LEMMA StartDestinationStep ==
  ASSUME OwnInv, NEW t \in Handler, StartDestination(t)
  PROVE  OwnInv'
<1>1. t \in Thread /\ thread[t] \in ThreadState /\ Fits(thread[t])
  BY DEF Thread, OwnInv, HandoffTypeOK
<1>2. /\ thread[t].pc = "start" /\ Transfers(thread[t])
      /\ UNCHANGED runFile /\ RowsGrow
  BY RowsStay DEF StartDestination, Transfers, OwnInv
<1>3. PICK j \in JobId :
        /\ used' = used \union {j}
        /\ registered' = [registered EXCEPT ![thread[t].dest] = j]
        /\ thread' = [thread EXCEPT ![t].pc = "journal", ![t].job = j]
  BY DEF StartDestination
<1> DEFINE s == [thread[t] EXCEPT !.pc = "journal", !.job = j]
<1>4. /\ s \in ThreadState
      /\ s.pc = "journal" /\ s.dest = thread[t].dest /\ s.job = j
      /\ s.kind = thread[t].kind /\ s.run = thread[t].run
  BY <1>1 DEF ThreadState, Place
<1>5. thread' = [thread EXCEPT ![t] = s]
  BY <1>1, <1>3 DEF OwnInv, HandoffTypeOK, ThreadState
<1> HIDE DEF s
<1>6. MayBecome(t, s)
  <2>1. Fits(s) /\ ~Locks(s) /\ Transfers(s)
    BY <1>1, <1>2, <1>4 DEF Fits, Locks, Transfers
  <2> QED
    BY <1>1, <1>2, <1>4, <2>1 DEF MayBecome, OwnInv, NewOwner
<1>7. MemoryFits'
  BY <1>3 DEF StartDestination, OwnInv, HandoffTypeOK, MemoryFits
<1> QED
  BY <1>1, <1>2, <1>4, <1>5, <1>6, <1>7, QuietStep

LEMMA SettleStep ==
  ASSUME OwnInv, NEW t \in Handler, Settle(t)
  PROVE  OwnInv'
<1>1. /\ t \in Thread /\ thread[t] \in ThreadState
      /\ thread[t].dest \in Conversation /\ thread[t].job \in JobId
  BY DEF Thread, OwnInv, HandoffTypeOK, Fits, Settle
<1>2. UNCHANGED runFile /\ Leave(t) /\ RowsGrow
  BY RowsStay DEF Settle, OwnInv
<1>3. registered' \in [Conversation -> JobId \union {NoId}]
  BY <1>1 DEF Settle, OwnInv, HandoffTypeOK, MemoryFits
<1>4. parked' \in Gate \union {NoId}
  BY <1>1 DEF Settle, OwnInv, HandoffTypeOK, MemoryFits, Gate
<1>5. MemoryFits'
  BY <1>3, <1>4 DEF Settle, OwnInv, HandoffTypeOK, MemoryFits
<1> QED
  BY <1>1, <1>2, <1>5, QuietLeave

LEMMA RestoreStep ==
  ASSUME OwnInv, NEW t \in Handler, Restore(t)
  PROVE  OwnInv'
<1> DEFINE s == [Idle EXCEPT !.pc = "recover", !.kind = "restore",
                             !.dest = run.owner]
<1>1. run.owner \in Conversation
  BY DEF OwnInv, HandoffTypeOK, RunState
<1>2. /\ s \in ThreadState
      /\ s.pc = "recover" /\ s.dest = run.owner /\ s.kind = "restore"
  BY <1>1 DEF Idle, ThreadState, Place, Kind
<1> HIDE DEF s
<1>3. MayBecome(t, s)
  BY <1>1, <1>2 DEF MayBecome, Fits, Locks, Transfers
<1>4. t \in Thread /\ thread' = [thread EXCEPT ![t] = s]
  BY DEF Restore, Thread, s
<1>5. RowsGrow /\ MemoryFits' /\ UNCHANGED runFile
  BY RowsStay, MemoryStays DEF Restore, OwnInv
<1> QED
  BY <1>2, <1>3, <1>4, <1>5, QuietStep

LEMMA RecoverStep ==
  ASSUME OwnInv, NEW t \in Handler, Recover(t)
  PROVE  OwnInv'
<1>1. /\ t \in Thread /\ thread[t] \in ThreadState /\ Fits(thread[t])
      /\ thread[t].pc = "recover" /\ Unlocked
  BY DEF Thread, OwnInv, HandoffTypeOK, Recover
<1>2. RowsGrow /\ MemoryFits' /\ UNCHANGED runFile
  BY RowsStay, MemoryStays DEF Recover, OwnInv
<1>3. CASE run.journal = NoId /\ Goto(t, "begin")
  <2> DEFINE s == [thread[t] EXCEPT !.pc = "begin"]
  <2>1. s.pc = "begin" /\ s.dest = thread[t].dest /\ "begin" \in Place
    BY <1>1 DEF ThreadState, Place
  <2> HIDE DEF s
  <2>2. MayBecome(t, s)
    BY <1>1, <2>1 DEF MayBecome, Fits, Locks, Transfers
  <2> QED
    BY <1>1, <1>2, <1>3, <2>1, <2>2, QuietGoto DEF s
<1>4. CASE run.journal # NoId /\ Goto(t, "flush")
  <2> DEFINE s == [thread[t] EXCEPT !.pc = "flush"]
  <2>1. /\ s.pc = "flush" /\ s.dest = thread[t].dest /\ s.kind = thread[t].kind
        /\ "flush" \in Place
    BY <1>1 DEF ThreadState, Place
  <2> HIDE DEF s
  <2>2. MayBecome(t, s)
    BY <1>1, <1>4, <2>1 DEF MayBecome, Fits, Locks, Transfers
  <2> QED
    BY <1>1, <1>2, <1>4, <2>1, <2>2, QuietGoto DEF s
<1>5. CASE Leave(t)
  BY <1>1, <1>2, <1>5, QuietLeave
<1> QED
  BY <1>3, <1>4, <1>5 DEF Recover

LEMMA BeginRestoredStep ==
  ASSUME OwnInv, NEW t \in Handler, BeginRestored(t)
  PROVE  OwnInv'
<1>1. /\ t \in Thread /\ thread[t] \in ThreadState /\ Fits(thread[t])
      /\ thread[t].pc = "begin"
  BY DEF Thread, OwnInv, HandoffTypeOK, BeginRestored
<1>2. UNCHANGED runFile /\ RowsGrow
  BY RowsStay DEF BeginRestored, OwnInv
<1>3. CASE Leave(t) /\ UNCHANGED <<used, registered>>
  <2>1. MemoryFits'
    BY <1>3 DEF BeginRestored, OwnInv, HandoffTypeOK, MemoryFits
  <2> QED
    BY <1>1, <1>2, <1>3, <2>1, QuietLeave
<1>4. ASSUME NEW j \in JobId,
             used' = used \union {j},
             registered' = [registered EXCEPT ![thread[t].dest] = j],
             thread' = [thread EXCEPT ![t].pc = "reopen", ![t].job = j]
      PROVE  OwnInv'
  <2> DEFINE s == [thread[t] EXCEPT !.pc = "reopen", !.job = j]
  <2>1. /\ s \in ThreadState
        /\ s.pc = "reopen" /\ s.dest = thread[t].dest /\ s.job = j
    BY <1>1 DEF ThreadState, Place
  <2>2. thread' = [thread EXCEPT ![t] = s]
    BY <1>1, <1>4 DEF OwnInv, HandoffTypeOK, ThreadState
  <2> HIDE DEF s
  <2>3. MayBecome(t, s)
    BY <1>1, <2>1 DEF MayBecome, Fits, Locks, Transfers
  <2>4. MemoryFits'
    BY <1>4 DEF BeginRestored, OwnInv, HandoffTypeOK, MemoryFits
  <2> QED
    BY <1>1, <1>2, <2>1, <2>2, <2>3, <2>4, QuietStep
<1> QED
  BY <1>3, <1>4 DEF BeginRestored

LEMMA ReopenStep ==
  ASSUME OwnInv, NEW t \in Handler, Reopen(t)
  PROVE  OwnInv'
<1> DEFINE dest == thread[t].dest
           stored == row' = [row EXCEPT ![dest] = Waiting(@, thread[t].job)]
           released == registered' = [registered EXCEPT ![dest] = NoId]
<1>1. /\ t \in Thread /\ thread[t] \in ThreadState /\ Fits(thread[t])
      /\ thread[t].pc = "reopen"
      /\ dest \in Conversation /\ thread[t].job \in JobId
  BY DEF Thread, OwnInv, HandoffTypeOK, Reopen, Fits
<1>2. /\ Waiting(row[dest], thread[t].job) \in RowState
      /\ Waiting(row[dest], thread[t].job).revision # 0
  <2>1. row[dest] \in RowState /\ row[dest].revision \in Nat
    BY <1>1 DEF OwnInv, HandoffTypeOK, RowState
  <2> QED
    BY <1>1, <2>1, WaitingFits
<1>3. stored => RowsGrow
  BY <1>1, <1>2, RowBecomes DEF OwnInv
<1>4. UNCHANGED row => RowsGrow
  BY RowsStay DEF OwnInv
<1>5. UNCHANGED runFile
  BY DEF Reopen
<1>6. CASE stored /\ Goto(t, "attach") /\ UNCHANGED <<uncertain, registered>>
  <2> DEFINE s == [thread[t] EXCEPT !.pc = "attach"]
  <2>1. /\ s.pc = "attach" /\ s.dest = thread[t].dest /\ s.job = thread[t].job
        /\ "attach" \in Place
    BY <1>1 DEF ThreadState, Place
  <2> HIDE DEF s
  <2>2. MayBecome(t, s)
    BY <1>1, <2>1 DEF MayBecome, Fits, Locks, Transfers
  <2>3. MemoryFits'
    BY <1>6 DEF Reopen, OwnInv, HandoffTypeOK, MemoryFits
  <2>4. RowsGrow
    BY <1>3, <1>6
  <2>5. Goto(t, "attach")
    BY <1>6
  <2> HIDE DEF stored, released, dest
  <2> QED
    BY <1>1, <1>5, <2>1, <2>2, <2>3, <2>4, <2>5, QuietGoto DEF s
<1>7. CASE /\ Leave(t) /\ released
           /\ stored \/ UNCHANGED row
           /\ uncertain' \in {uncertain, uncertain \union {dest}}
  <2>1. MemoryFits'
    BY <1>1, <1>7 DEF Reopen, OwnInv, HandoffTypeOK, MemoryFits
  <2>2. RowsGrow
    BY <1>3, <1>4, <1>7
  <2>3. Leave(t)
    BY <1>7
  <2> HIDE DEF stored, released, dest
  <2> QED
    BY <1>1, <1>5, <2>1, <2>2, <2>3, QuietLeave
<1> QED
  BY <1>6, <1>7 DEF Reopen

LEMMA AttachStep ==
  ASSUME OwnInv, NEW t \in Handler, Attach(t)
  PROVE  OwnInv'
<1>1. /\ t \in Thread /\ thread[t] \in ThreadState
      /\ thread[t].dest \in Conversation /\ thread[t].job \in JobId
  BY DEF Thread, OwnInv, HandoffTypeOK, Fits, Attach
<1>2. UNCHANGED runFile /\ Leave(t) /\ RowsGrow
  BY RowsStay DEF Attach, OwnInv
<1>3. MemoryFits'
  BY <1>1 DEF Attach, OwnInv, HandoffTypeOK, MemoryFits, Gate
<1> QED
  BY <1>1, <1>2, <1>3, QuietLeave

LEMMA TakeGateStep ==
  ASSUME OwnInv, NEW t \in Handler, TakeGate(t)
  PROVE  OwnInv'
<1> DEFINE s == [Idle EXCEPT !.pc = "decide", !.kind = "decide", !.gate = parked,
                             !.dest = parked.conversation]
<1>1. parked \in Gate /\ parked.conversation \in Conversation
  BY DEF TakeGate, OwnInv, HandoffTypeOK, MemoryFits, Gate
<1>2. /\ s \in ThreadState
      /\ s.pc = "decide" /\ s.dest = parked.conversation /\ s.gate = parked
  BY <1>1 DEF Idle, ThreadState, Place, Kind
<1> HIDE DEF s
<1>3. MayBecome(t, s)
  BY <1>1, <1>2 DEF MayBecome, Fits, Locks, Transfers
<1>4. t \in Thread /\ thread' = [thread EXCEPT ![t] = s]
  BY DEF TakeGate, Thread, s
<1>5. RowsGrow /\ UNCHANGED runFile
  BY RowsStay DEF TakeGate, OwnInv
<1>6. MemoryFits'
  BY DEF TakeGate, OwnInv, HandoffTypeOK, MemoryFits
<1> QED
  BY <1>2, <1>3, <1>4, <1>5, <1>6, QuietStep

(* A response that ends, and one whose revision alone advances.            *)
LEMMA EndedFits ==
  ASSUME NEW m \in RowState, NEW status \in {"Complete", "Interrupted"}
  PROVE  LET n == [m EXCEPT !.job = NoId, !.status = status, !.revision = @ + 1]
         IN  n \in RowState /\ n.revision # 0
<1> DEFINE l == [m EXCEPT !.job = NoId, !.status = status]
<1>1. l \in RowState
  BY DEF RowState
<1> HIDE DEF l
<1>2. [l EXCEPT !.revision = @ + 1] \in RowState
  BY <1>1 DEF RowState
<1>3. [l EXCEPT !.revision = @ + 1].revision # 0
  BY <1>1 DEF RowState
<1>4. [l EXCEPT !.revision = @ + 1]
        = [m EXCEPT !.job = NoId, !.status = status, !.revision = @ + 1]
  BY DEF l
<1> QED
  BY <1>2, <1>3, <1>4

LEMMA EndWorkStep ==
  ASSUME OwnInv, NEW t \in Handler, EndWork(t)
  PROVE  OwnInv'
<1> DEFINE c == thread[t].dest
           n == [row[c] EXCEPT !.job = NoId, !.status = "Complete",
                               !.revision = @ + 1]
<1>1. t \in Thread /\ c \in Conversation /\ row[c] \in RowState
  BY DEF Thread, OwnInv, HandoffTypeOK, Fits, EndWork
<1>2. n \in RowState /\ n.revision # 0
  BY <1>1, EndedFits
<1>3. row' = row \/ row' = [row EXCEPT ![c] = n]
  <2>1. row' = row \/ row' = [row EXCEPT ![c].job = NoId, ![c].status = "Complete",
                                         ![c].revision = @ + 1]
    BY DEF EndWork
  <2> QED
    BY <1>1, <2>1 DEF OwnInv, HandoffTypeOK, RowState
<1>4. RowsGrow
  <2> HIDE DEF n, c
  <2> QED
    BY <1>1, <1>2, <1>3 DEF RowsGrow, OwnInv, HandoffTypeOK
<1>5. UNCHANGED runFile /\ Leave(t)
  BY DEF EndWork
<1>6. MemoryFits'
  BY <1>1 DEF EndWork, OwnInv, HandoffTypeOK, MemoryFits
<1> QED
  BY <1>1, <1>4, <1>5, <1>6, QuietLeave

LEMMA EndGenerateStep ==
  ASSUME OwnInv, NEW t \in Handler, EndGenerate(t)
  PROVE  OwnInv'
<1>1. t \in Thread /\ Leave(t) /\ UNCHANGED runFile
  BY DEF Thread, EndGenerate
<1>2. RowsGrow /\ MemoryFits'
  BY RowsStay, MemoryStays DEF EndGenerate, OwnInv
<1> QED
  BY <1>1, <1>2, QuietLeave

LEMMA DeleteStep ==
  ASSUME OwnInv, NEW t \in Handler, Delete(t)
  PROVE  OwnInv'
<1>1. t \in Thread /\ thread[t].dest \in Conversation
  BY DEF Thread, OwnInv, HandoffTypeOK, Fits, Delete
<1>2. row' = row \/ row' = [row EXCEPT ![thread[t].dest] = Gone]
  BY DEF Delete
<1>3. RowsGrow
  BY <1>1, <1>2, AbsentFits DEF OwnInv, HandoffTypeOK, RowsGrow
<1>4. MemoryFits' /\ UNCHANGED runFile /\ Leave(t)
  BY MemoryStays DEF Delete, OwnInv
<1> QED
  BY <1>1, <1>3, <1>4, QuietLeave

LEMMA RenameStep ==
  ASSUME OwnInv, NEW c \in Conversation, Rename(c)
  PROVE  OwnInv'
<1> DEFINE n == [row[c] EXCEPT !.revision = @ + 1]
<1>1. row[c] \in RowState
  BY DEF OwnInv, HandoffTypeOK
<1>2. n \in RowState /\ n.revision # 0
  BY <1>1 DEF RowState
<1>3. row' = [row EXCEPT ![c] = n]
  BY DEF Rename
<1>4. RowsGrow
  <2> HIDE DEF n
  <2> QED
    BY <1>2, <1>3 DEF RowsGrow, OwnInv, HandoffTypeOK
<1>5. UNCHANGED runFile /\ UNCHANGED thread /\ MemoryFits'
  BY MemoryStays DEF Rename, OwnInv
<1> QED
  BY <1>4, <1>5, QuietRest

LEMMA PrepareStep ==
  ASSUME OwnInv, Prepare
  PROVE  OwnInv'
<1>1. run \in RunState /\ row[run.owner].revision \in Nat
  BY DEF OwnInv, HandoffTypeOK, RunState, RowState
<1>2. MemoryFits'
  BY <1>1 DEF Prepare, OwnInv, HandoffTypeOK, MemoryFits, Draft
<1>3. RowsGrow /\ UNCHANGED runFile /\ UNCHANGED thread
  BY RowsStay DEF Prepare, OwnInv
<1> QED
  BY <1>2, <1>3, QuietRest

LEMMA InterruptRequestsStep ==
  ASSUME OwnInv, InterruptRequests
  PROVE  OwnInv'
<1> DEFINE n(c) == [row[c] EXCEPT !.job = NoId, !.revision = @ + 1,
                                  !.status = "Interrupted"]
<1>1. ASSUME NEW c \in Conversation
      PROVE  n(c) \in RowState /\ n(c).revision # 0
  <2>1. row[c] \in RowState
    BY DEF OwnInv, HandoffTypeOK
  <2>2. n(c) = [row[c] EXCEPT !.job = NoId, !.status = "Interrupted",
                              !.revision = @ + 1]
    BY <2>1 DEF RowState
  <2> QED
    BY <2>1, <2>2, EndedFits
<1>2. row' = [c \in Conversation |-> IF row[c].job = NoId THEN row[c] ELSE n(c)]
  BY DEF InterruptRequests
<1>3. RowsGrow
  <2> HIDE DEF n
  <2> QED
    BY <1>1, <1>2 DEF RowsGrow, OwnInv, HandoffTypeOK
<1>4. Startup \in Thread /\ Leave(Startup) /\ UNCHANGED runFile /\ MemoryFits'
  BY MemoryStays DEF Thread, InterruptRequests, OwnInv
<1> QED
  BY <1>3, <1>4, QuietLeave

-----------------------------------------------------------------------------
(* The steps that write the run file.  Nobody else works on the journal.   *)
LEMMA FileStep ==
  ASSUME OwnInv, MemoryFits', RowsGrow,
         NEW t \in Thread, NEW s \in ThreadState, Fits(s), ~Transfers(s),
         thread' = [thread EXCEPT ![t] = s],
         \A u \in Thread : u # t => ~Locks(thread[u]),
         Locks(s) => run'.journal # NoId,
         s.pc \in {"project", "clear"} => run' = disk',
         run' \in RunState, disk' \in RunState, loose' \subseteq RunState,
         FileFollows', Owners(run') = Owners(run),
         \A r \in loose' \union {disk'} :
             r \in loose \union {disk} \/ Owners(r) = Owners(run)
  PROVE  OwnInv'
<1>1. /\ thread'[t] = s
      /\ \A u \in Thread : u # t => thread'[u] = thread[u]
  BY DEF OwnInv, HandoffTypeOK
<1>2. HandoffTypeOK'
  BY BecomesFits DEF OwnInv, HandoffTypeOK, RowsGrow
<1>3. LockIsHeldOnce'
  BY <1>1 DEF LockIsHeldOnce
<1>4. LockedFile'
  BY <1>1 DEF LockedFile, Locks
<1>5. NewOwner'
  BY <1>1 DEF OwnInv, NewOwner
<1>6. OwnersAreUsed'
  <2>1. \A r \in loose' \union {disk', run'} : Owners(r) \subseteq Conversation
    BY DEF Owners, RunState
  <2>2. \A r \in loose' \union {disk', run'} :
            \A c \in Owners(r) : row[c].revision # 0
    BY DEF OwnInv, OwnersAreUsed
  <2> QED
    BY <2>1, <2>2 DEF RowsGrow, OwnersAreUsed
<1> QED
  BY <1>2, <1>3, <1>4, <1>5, <1>6 DEF OwnInv

LEMMA GivesUp ==
  ASSUME OwnInv, NEW t \in Thread, Locks(thread[t]), GiveUp(t)
  PROVE  \E s \in ThreadState :
            /\ Fits(s) /\ ~Locks(s) /\ ~Transfers(s)
            /\ thread' = [thread EXCEPT ![t] = s]
<1>1. /\ thread[t] \in ThreadState /\ Fits(thread[t])
      /\ thread[t].kind \in {"transfer", "restore", "start"}
  BY DEF OwnInv, HandoffTypeOK, Fits
<1>2. CASE thread[t].kind = "transfer"
  <2> DEFINE s == [thread[t] EXCEPT !.pc = "settle"]
  <2>1. /\ s \in ThreadState
        /\ s.pc = "settle" /\ s.dest = thread[t].dest /\ s.job = thread[t].job
    BY <1>1 DEF ThreadState, Place
  <2>2. thread' = [thread EXCEPT ![t] = s]
    BY <1>2 DEF GiveUp, Goto
  <2> HIDE DEF s
  <2>3. Fits(s) /\ ~Locks(s) /\ ~Transfers(s)
    BY <1>1, <1>2, <2>1 DEF Fits, Locks, Transfers
  <2> QED
    BY <2>1, <2>2, <2>3
<1>3. CASE thread[t].kind = "restore"
  <2>1. Idle.pc = "idle"
    BY DEF Idle
  <2> QED
    BY <1>3, <2>1, IdleFits DEF GiveUp, Leave, Locks, Transfers
<1>4. CASE thread[t].kind = "start"
  <2> DEFINE s == [thread[t] EXCEPT !.pc = "down"]
  <2>1. s \in ThreadState /\ s.pc = "down"
    BY <1>1 DEF ThreadState, Place
  <2>2. thread' = [thread EXCEPT ![t] = s]
    BY <1>4 DEF GiveUp, Goto
  <2> HIDE DEF s
  <2>3. Fits(s) /\ ~Locks(s) /\ ~Transfers(s)
    BY <2>1 DEF Fits, Locks, Transfers
  <2> QED
    BY <2>1, <2>2, <2>3
<1> QED
  BY <1>1, <1>2, <1>3, <1>4

LEMMA QuietGiveUp ==
  ASSUME OwnInv, UNCHANGED runFile, MemoryFits', RowsGrow,
         NEW t \in Thread, Locks(thread[t]), GiveUp(t)
  PROVE  OwnInv'
<1>1. PICK s \in ThreadState :
            /\ Fits(s) /\ ~Locks(s) /\ ~Transfers(s)
            /\ thread' = [thread EXCEPT ![t] = s]
  BY GivesUp
<1>2. MayBecome(t, s)
  BY <1>1 DEF MayBecome, Locks
<1> QED
  BY <1>1, <1>2, QuietStep

LEMMA FlushStep ==
  ASSUME OwnInv, NEW t \in Thread, Flush(t)
  PROVE  OwnInv' /\ Follows(disk, disk')
<1>1. /\ thread[t] \in ThreadState /\ Fits(thread[t])
      /\ thread[t].pc = "flush" /\ Locks(thread[t])
      /\ \A u \in Thread : u # t => ~Locks(thread[u])
      /\ run.journal # NoId /\ run \in RunState
  BY DEF Flush, Locks, OwnInv, HandoffTypeOK, LockIsHeldOnce, LockedFile
<1>2. RowsGrow /\ MemoryFits' /\ UNCHANGED run
  BY RowsStay, MemoryStays DEF Flush, OwnInv
<1>3. Follows(disk, run)
  BY DEF OwnInv, FileFollows, Follows
<1>4. CASE FileStored(run) /\ Goto(t, "project")
  <2> DEFINE s == [thread[t] EXCEPT !.pc = "project"]
  <2>1. /\ s \in ThreadState /\ s.pc = "project" /\ s.dest = thread[t].dest
        /\ s.job = thread[t].job /\ s.kind = thread[t].kind
    BY <1>1 DEF ThreadState, Place
  <2>2. thread' = [thread EXCEPT ![t] = s]
    BY <1>4 DEF Goto
  <2> HIDE DEF s
  <2>3. Fits(s) /\ ~Transfers(s)
    BY <1>1, <2>1 DEF Fits, Locks, Transfers
  <2>4. disk' = run /\ loose' = {} /\ run' = run
    BY <1>2, <1>4 DEF FileStored
  <2>5. FileFollows'
    BY <2>4 DEF FileFollows
  <2>6. OwnInv'
    BY <1>1, <1>2, <2>1, <2>2, <2>3, <2>4, <2>5, FileStep
  <2> QED
    BY <1>3, <2>4, <2>6
<1>5. CASE FileUnchanged /\ GiveUp(t)
  <2>1. UNCHANGED runFile
    BY <1>2, <1>5 DEF FileUnchanged, runFile
  <2> QED
    BY <1>1, <1>2, <1>5, <2>1, QuietGiveUp DEF runFile, Follows
<1>6. CASE FileReplaced(run) /\ GiveUp(t)
  <2>1. PICK s \in ThreadState :
            /\ Fits(s) /\ ~Locks(s) /\ ~Transfers(s)
            /\ thread' = [thread EXCEPT ![t] = s]
    BY <1>1, <1>6, GivesUp
  <2>2. disk' = disk /\ loose' = loose \union {run} /\ run' = run
    BY <1>2, <1>6 DEF FileReplaced
  <2>3. FileFollows'
    BY <1>3, <2>2 DEF FileFollows, OwnInv
  <2>4. disk' \in RunState /\ loose' \subseteq RunState
    BY <1>1, <2>2 DEF OwnInv, HandoffTypeOK
  <2>5. OwnInv'
    BY <1>1, <1>2, <2>1, <2>2, <2>3, <2>4, FileStep DEF Locks
  <2> QED
    BY <2>2, <2>5 DEF Follows
<1> QED
  BY <1>4, <1>5, <1>6 DEF Flush

LEMMA ProjectStep ==
  ASSUME OwnInv, NEW t \in Thread, Project(t)
  PROVE  OwnInv' /\ Follows(disk, disk')
<1> DEFINE next == Projected(row, run.owner, run.journal)
<1>1. /\ thread[t] \in ThreadState /\ Fits(thread[t])
      /\ thread[t].pc = "project" /\ Locks(thread[t])
      /\ run = disk /\ run.journal # NoId /\ UNCHANGED runFile
  BY DEF Project, Locks, OwnInv, HandoffTypeOK, LockedFile, runFile
<1>2. run.journal \in Journal /\ run.owner \in Conversation
      /\ run.journal.source \in Conversation
  BY <1>1 DEF OwnInv, HandoffTypeOK, RunState, Journal
<1>3. row' = next \/ row' = row
  BY DEF Project
<1>4. RowsGrow
  <2>1. /\ next \in [Conversation -> RowState]
        /\ \A c \in Conversation : next[c].revision >= row[c].revision
    BY <1>2, RowsFit DEF OwnInv
  <2>2. \A c \in Conversation : row[c].revision \in Nat /\ next[c].revision \in Nat
    BY <2>1 DEF OwnInv, HandoffTypeOK, RowState
  <2> HIDE DEF next
  <2>3. CASE row' = next
    BY <2>1, <2>2, <2>3 DEF RowsGrow
  <2> QED
    BY <1>3, <2>3, RowsStay DEF OwnInv
<1>5. MemoryFits'
  BY <1>2 DEF Project, memory, OwnInv, HandoffTypeOK, MemoryFits
<1>6. CASE Goto(t, "clear")
  <2> DEFINE s == [thread[t] EXCEPT !.pc = "clear"]
  <2>1. /\ s.pc = "clear" /\ s.dest = thread[t].dest
        /\ s.job = thread[t].job /\ s.kind = thread[t].kind /\ "clear" \in Place
    BY <1>1 DEF ThreadState, Place
  <2> HIDE DEF s
  <2>2. MayBecome(t, s)
    BY <1>1, <2>1 DEF MayBecome, Fits, Locks, Transfers
  <2>3. OwnInv'
    BY <1>1, <1>4, <1>5, <1>6, <2>1, <2>2, QuietGoto DEF s
  <2> QED
    BY <1>1, <2>3 DEF runFile, Follows
<1>7. CASE GiveUp(t)
  <2>1. OwnInv'
    BY <1>1, <1>4, <1>5, <1>7, QuietGiveUp
  <2> QED
    BY <1>1, <2>1 DEF runFile, Follows
<1> QED
  BY <1>6, <1>7 DEF Project

LEMMA ClearStep ==
  ASSUME OwnInv, NEW t \in Thread, Clear(t)
  PROVE  OwnInv' /\ Follows(disk, disk')
<1> DEFINE next == [run EXCEPT !.journal = NoId]
<1>1. /\ thread[t] \in ThreadState /\ Fits(thread[t])
      /\ thread[t].pc = "clear" /\ Locks(thread[t])
      /\ \A u \in Thread : u # t => ~Locks(thread[u])
      /\ run = disk /\ run.journal # NoId /\ run \in RunState
  BY DEF Clear, Locks, OwnInv, HandoffTypeOK, LockIsHeldOnce, LockedFile
<1>2. RowsGrow /\ MemoryFits'
  BY RowsStay, MemoryStays DEF Clear, OwnInv
<1>3. /\ next \in RunState /\ next.journal = NoId /\ Owners(next) = Owners(run)
      /\ Told(disk, next)
  BY <1>1 DEF RunState, Owners, Told
<1> HIDE DEF next
<1>4. CASE Mutated(next)
  <2> DEFINE label == CASE thread[t].kind = "transfer" -> "settle"
                        [] thread[t].kind = "restore" -> "begin"
                        [] thread[t].kind = "start" -> "interrupt"
             s == [thread[t] EXCEPT !.pc = label]
  <2>1. thread' = [thread EXCEPT ![t] = s]
    <3>1. next # run
      BY <1>1, <1>3
    <3>2. Goto(t, label) \/ run' = run
      BY DEF Clear, MutateRefused, next
    <3> QED
      BY <1>4, <3>1, <3>2 DEF Mutated, Goto
  <2>2. \/ thread[t].kind = "transfer" /\ label = "settle"
        \/ thread[t].kind = "restore" /\ label = "begin"
        \/ thread[t].kind = "start" /\ label = "interrupt"
    BY <1>1 DEF Fits
  <2> HIDE DEF label
  <2>3. /\ s \in ThreadState /\ s.pc = label /\ s.dest = thread[t].dest
        /\ s.job = thread[t].job /\ s.kind = thread[t].kind
    BY <1>1, <2>2 DEF ThreadState, Place
  <2> HIDE DEF s
  <2>4. Fits(s) /\ ~Locks(s) /\ ~Transfers(s)
    BY <1>1, <2>2, <2>3 DEF Fits, Locks, Transfers
  <2>5. disk' = next /\ loose' = {} /\ run' = next
    BY <1>4 DEF Mutated, FileStored
  <2>6. FileFollows'
    BY <2>5 DEF FileFollows
  <2>7. OwnInv'
    BY <1>1, <1>2, <1>3, <2>1, <2>3, <2>4, <2>5, <2>6, FileStep DEF Locks
  <2> QED
    BY <1>3, <2>5, <2>7 DEF Follows
<1>5. CASE MutateRefused(next) /\ GiveUp(t)
  <2>1. PICK s \in ThreadState :
            /\ Fits(s) /\ ~Locks(s) /\ ~Transfers(s)
            /\ thread' = [thread EXCEPT ![t] = s]
    BY <1>1, <1>5, GivesUp
  <2>2. disk' = disk /\ loose' \subseteq loose \union {next} /\ run' = run
    BY <1>5 DEF MutateRefused, FileUnchanged, FileReplaced
  <2>3. FileFollows'
    BY <1>1, <1>3, <2>2 DEF FileFollows, Follows, OwnInv
  <2>4. disk' \in RunState /\ loose' \subseteq RunState
    BY <1>1, <1>3, <2>2 DEF OwnInv, HandoffTypeOK
  <2>5. OwnInv'
    BY <1>1, <1>2, <1>3, <2>1, <2>2, <2>3, <2>4, FileStep DEF Locks
  <2> QED
    BY <2>2, <2>5 DEF Follows
<1> QED
  BY <1>4, <1>5 DEF Clear, next

LEMMA DecideGateStep ==
  ASSUME OwnInv, NEW t \in Handler, DecideGate(t)
  PROVE  OwnInv' /\ Follows(disk, disk')
<1> DEFINE next == [run EXCEPT !.decided = TRUE]
<1>1. /\ t \in Thread /\ thread[t] \in ThreadState /\ Fits(thread[t])
      /\ thread[t].pc = "decide"
      /\ thread[t].dest \in Conversation /\ thread[t].gate \in Gate
      /\ run \in RunState
  BY DEF Thread, DecideGate, Fits, OwnInv, HandoffTypeOK
<1>2. /\ next \in RunState /\ Owners(next) = Owners(run)
      /\ next.journal = run.journal /\ next.decided
  BY <1>1 DEF RunState, Owners
<1>3. RowsGrow
  BY RowsStay DEF DecideGate, OwnInv
<1>4. ASSUME MayMutate(next), ~run.decided
      PROVE  /\ run = disk /\ Decided(disk, next)
             /\ \A u \in Thread : ~Locks(thread[u])
  <2>1. run.journal = NoId
    <3>1. [run EXCEPT !.journal = NoId].decided = run.decided
      BY <1>1 DEF RunState
    <3> QED
      BY <1>2, <1>4, <3>1 DEF MayMutate
  <2>2. run = disk
    BY <2>1 DEF OwnInv, FileFollows, Moved
  <2> QED
    BY <1>4, <2>1, <2>2 DEF Decided, OwnInv, LockedFile
<1>5. CASE ~run.decided /\ Mutated(next) /\ Goto(t, "end") /\ UNCHANGED parked
  <2> DEFINE s == [thread[t] EXCEPT !.pc = "end"]
  <2>1. /\ s \in ThreadState /\ s.pc = "end" /\ s.dest = thread[t].dest
        /\ s.gate = thread[t].gate
    BY <1>1 DEF ThreadState, Place
  <2>2. thread' = [thread EXCEPT ![t] = s]
    BY <1>5 DEF Goto
  <2> HIDE DEF s, next
  <2>3. Fits(s) /\ ~Locks(s) /\ ~Transfers(s)
    BY <1>1, <2>1 DEF Fits, Locks, Transfers
  <2>4. disk' = next /\ loose' = {} /\ run' = next /\ MayMutate(next)
    BY <1>5 DEF Mutated, FileStored
  <2>5. FileFollows'
    BY <2>4 DEF FileFollows
  <2>6. MemoryFits'
    BY <1>5 DEF DecideGate, OwnInv, HandoffTypeOK, MemoryFits
  <2>7. Decided(disk, next) /\ \A u \in Thread : ~Locks(thread[u])
    BY <1>4, <1>5, <2>4
  <2>8. ~Locks(s) /\ s.pc \notin {"project", "clear"}
    BY <2>1 DEF Locks
  <2>9. OwnInv'
    BY <1>1, <1>2, <1>3, <2>1, <2>2, <2>3, <2>4, <2>5, <2>6, <2>7, <2>8, FileStep
  <2> QED
    BY <2>4, <2>7, <2>9 DEF Follows
<1>6. CASE /\ IF run.decided THEN UNCHANGED <<run, disk, loose, faults>>
              ELSE MutateRefused(next)
           /\ PutBack(thread[t].gate) /\ Leave(t)
  <2>1. MemoryFits'
    <3>1. parked' \in Gate \union {NoId}
      BY <1>1, <1>6, PutBackFits DEF OwnInv
    <3> QED
      BY <3>1 DEF DecideGate, OwnInv, HandoffTypeOK, MemoryFits
  <2>2. CASE UNCHANGED <<run, disk, loose>>
    <3>1. OwnInv'
      BY <1>1, <1>3, <1>6, <2>1, <2>2, QuietLeave DEF runFile
    <3> QED
      BY <2>2, <3>1 DEF Follows
  <2>3. CASE /\ ~run.decided /\ MayMutate(next) /\ run' = run /\ disk' = disk
             /\ loose' = loose \union {next}
    <3>1. Idle.pc = "idle"
      BY DEF Idle
    <3> HIDE DEF next
    <3>2. FileFollows'
      BY <1>4, <2>3 DEF FileFollows, Follows, OwnInv
    <3>3. disk' \in RunState /\ loose' \subseteq RunState
      BY <1>2, <2>3 DEF OwnInv, HandoffTypeOK
    <3>4. thread' = [thread EXCEPT ![t] = Idle] /\ ~Transfers(Idle) /\ ~Locks(Idle)
      BY <1>6, <3>1 DEF Leave, Transfers, Locks
    <3>5. \A u \in Thread : ~Locks(thread[u])
      BY <1>4, <2>3
    <3>6. OwnInv'
      BY <1>1, <1>2, <1>3, <2>1, <2>3, <3>1, <3>2, <3>3, <3>4, <3>5, IdleFits, FileStep
    <3> QED
      BY <2>3, <3>6 DEF Follows
  <2> QED
    BY <1>6, <2>2, <2>3 DEF MutateRefused, FileUnchanged, FileReplaced
<1> QED
  BY <1>5, <1>6 DEF DecideGate

LEMMA CommitOwnerStep ==
  ASSUME OwnInv, NEW t \in Handler, CommitOwner(t)
  PROVE  OwnInv' /\ Follows(disk, disk')
<1> DEFINE source == thread[t].run.owner
           dest == thread[t].dest
           next == Journaled(source, dest, thread[t].job)
<1>1. /\ t \in Thread /\ thread[t] \in ThreadState /\ Fits(thread[t])
      /\ thread[t].pc = "journal" /\ Transfers(thread[t])
      /\ dest \in Conversation /\ thread[t].job \in JobId
      /\ thread[t].kind = "transfer" /\ thread[t].run \in RunState
      /\ thread[t].run.journal = NoId /\ ~thread[t].run.decided
  BY DEF Thread, CommitOwner, Fits, Transfers, OwnInv, HandoffTypeOK
<1>2. /\ \A u \in Thread : ~Locks(thread[u])
      /\ RowsGrow
  BY RowsStay DEF CommitOwner, Unlocked, Locks, OwnInv
<1>3. CASE /\ Mutated(next) \/ MutatedLoosely(next)
           /\ run = thread[t].run /\ row[dest] = Fresh
           /\ Goto(t, "flush") /\ UNCHANGED memory
  <2>1. /\ run \in RunState /\ run.journal = NoId /\ ~run.decided
        /\ source = run.owner /\ run = disk /\ source \in Conversation
    BY <1>1, <1>3 DEF OwnInv, FileFollows, Moved, RunState
  <2>2. [source |-> source, sourceJob |-> row[source].job,
         revision |-> row[dest].revision, job |-> thread[t].job] \in Journal
    BY <1>1, <2>1 DEF OwnInv, HandoffTypeOK, RowState, Journal
  <2>3. /\ next \in RunState /\ next.journal # NoId /\ ~next.decided
        /\ next.owner = dest /\ next.past = Owners(run)
    BY <1>1, <2>1, <2>2 DEF Journaled, OwnedWithoutJournal, RunState, Owners
  <2>4. dest \notin Owners(run)
    BY <1>1 DEF OwnInv, NewOwner
  <2>5. Moved(disk, next)
    BY <2>1, <2>3, <2>4 DEF Moved
  <2> DEFINE s == [thread[t] EXCEPT !.pc = "flush"]
  <2>6. /\ s \in ThreadState /\ s.pc = "flush" /\ s.dest = dest
        /\ s.job = thread[t].job /\ s.kind = thread[t].kind
    BY <1>1 DEF ThreadState, Place
  <2>7. thread' = [thread EXCEPT ![t] = s]
    BY <1>3 DEF Goto
  <2> HIDE DEF s, next
  <2>8. Fits(s) /\ Locks(s) /\ ~Transfers(s)
    BY <1>1, <2>6 DEF Fits, Locks, Transfers
  <2>9. /\ run' = next
        /\ \/ disk' = next /\ loose' = {}
           \/ disk' = disk /\ loose' = loose \union {next}
    BY <1>3 DEF Mutated, MutatedLoosely, FileStored, FileReplaced
  <2>10. FileFollows' /\ Follows(disk, disk')
    BY <2>5, <2>9 DEF FileFollows, Follows, OwnInv
  <2>11. /\ thread'[t] = s
         /\ \A u \in Thread : u # t => thread'[u] = thread[u]
    BY <1>1, <2>7 DEF OwnInv, HandoffTypeOK
  <2>12. MemoryFits'
    BY <1>3, MemoryStays DEF CommitOwner, OwnInv
  <2>13. HandoffTypeOK'
    <3>1. disk' \in RunState /\ loose' \subseteq RunState /\ run' \in RunState
      BY <2>3, <2>9 DEF OwnInv, HandoffTypeOK
    <3> QED
      BY <1>1, <1>2, <2>6, <2>7, <2>8, <2>12, <3>1, BecomesFits
         DEF OwnInv, HandoffTypeOK, RowsGrow
  <2>14. LockIsHeldOnce' /\ LockedFile'
    BY <1>2, <2>3, <2>6, <2>9, <2>11 DEF LockIsHeldOnce, LockedFile, Locks
  <2>15. NewOwner'
    <3>1. ASSUME NEW u \in Thread, Transfers(thread'[u])
          PROVE  thread'[u].dest \notin Owners(next)
      <4>1. /\ u # t /\ Transfers(thread[u]) /\ thread'[u] = thread[u]
        BY <2>8, <2>11, <3>1
      <4>2. thread[u].dest \notin Owners(run) /\ thread[u].dest # dest
        BY <1>1, <4>1 DEF OwnInv, NewOwner
      <4> QED
        BY <2>3, <4>1, <4>2 DEF Owners
    <3>2. ASSUME NEW u \in Thread, NEW v \in Thread, Transfers(thread'[u]),
                 Transfers(thread'[v]), thread'[v].dest = thread'[u].dest
          PROVE  u = v
      BY <2>8, <2>11, <3>2 DEF OwnInv, NewOwner
    <3> QED
      BY <2>9, <3>1, <3>2 DEF NewOwner
  <2>16. OwnersAreUsed'
    <3>1. row[dest].revision # 0
      BY <1>3, AbsentFits
    <3>2. \A c \in Owners(next) : row[c].revision # 0
      BY <2>3, <3>1 DEF Owners, OwnInv, OwnersAreUsed
    <3>3. \A r \in loose' \union {disk', run'} : r \in loose \union {run, disk, next}
      BY <2>9
    <3> QED
      BY <3>2, <3>3 DEF OwnInv, OwnersAreUsed, CommitOwner
  <2> QED
    BY <2>10, <2>13, <2>14, <2>15, <2>16 DEF OwnInv
<1>4. CASE TransferRefused(t) /\ UNCHANGED <<run, disk, loose>>
  <2> DEFINE s == [thread[t] EXCEPT !.pc = "undo"]
  <2>1. s.pc = "undo" /\ s.dest = dest /\ "undo" \in Place
    BY <1>1 DEF ThreadState, Place
  <2> HIDE DEF s
  <2>2. MayBecome(t, s)
    BY <1>1, <2>1 DEF MayBecome, Fits, Locks, Transfers
  <2>3. Goto(t, "undo") /\ UNCHANGED runFile
    BY <1>4 DEF TransferRefused, runFile
  <2>4. MemoryFits'
    <3>1. thread[t].gate \in Gate \union {NoId}
      BY <1>1 DEF ThreadState
    <3>2. parked' \in Gate \union {NoId}
      BY <1>4, <3>1, PutBackFits DEF TransferRefused, OwnInv
    <3> QED
      BY <1>1, <1>4, <3>2 DEF TransferRefused, CommitOwner, OwnInv, HandoffTypeOK,
                              MemoryFits
  <2>5. OwnInv'
    BY <1>1, <1>2, <2>1, <2>2, <2>3, <2>4, QuietGoto DEF s
  <2> QED
    BY <1>4, <2>5 DEF Follows
<1> QED
  BY <1>3, <1>4 DEF CommitOwner, FileUnchanged

(* After a crash the file is one of those the invariant speaks of.         *)
LEMMA CrashStep ==
  ASSUME OwnInv, Crash
  PROVE  OwnInv' /\ Follows(disk, disk')
<1>1. /\ disk' \in {disk} \union loose /\ loose' = {} /\ run' = disk'
      /\ disk' \in RunState
  BY DEF Crash, OwnInv, HandoffTypeOK
<1>2. Follows(disk, disk')
  BY <1>1 DEF OwnInv, FileFollows, Follows
<1>3. MemoryFits'
  BY DEF Crash, OwnInv, HandoffTypeOK, MemoryFits
<1> DEFINE s == thread'[Startup]
<1>4. /\ s \in ThreadState /\ ~Transfers(s) /\ s.kind = "start"
      /\ s.pc \in {"interrupt", "flush", "refused"}
      /\ s.pc = "flush" => run'.journal # NoId
  BY DEF Crash, Thread, Idle, ThreadState, Place, Kind, Transfers
<1>5. \A t \in Thread : t # Startup => thread'[t] = Idle
  BY DEF Crash
<1>6. thread' \in [Thread -> ThreadState]
  BY <1>4, <1>5, IdleFits DEF Crash
<1> HIDE DEF s
<1>7. Fits(s)
  BY <1>4 DEF Fits, Locks, Transfers
<1>8. ~Locks(Idle) /\ ~Transfers(Idle) /\ Idle.pc = "idle"
  BY DEF Locks, Transfers, Idle
<1>9. \A t \in Thread : Fits(thread'[t]) /\ ~Transfers(thread'[t])
  BY <1>4, <1>5, <1>7, <1>8, IdleFits DEF s
<1>10. HandoffTypeOK'
  BY <1>1, <1>3, <1>6, <1>9 DEF Crash, OwnInv, HandoffTypeOK
<1>11. FileFollows'
  BY <1>1 DEF FileFollows
<1>12. LockIsHeldOnce' /\ LockedFile'
  BY <1>4, <1>5, <1>8 DEF LockIsHeldOnce, LockedFile, Locks, s
<1>13. NewOwner'
  BY <1>9 DEF NewOwner
<1>14. OwnersAreUsed'
  BY <1>1 DEF OwnInv, OwnersAreUsed, Crash
<1> QED
  BY <1>2, <1>10, <1>11, <1>12, <1>13, <1>14 DEF OwnInv

-----------------------------------------------------------------------------
LEMMA Initial == HandoffInit => OwnInv
<1> SUFFICES ASSUME HandoffInit PROVE OwnInv
  OBVIOUS
<1>1. PICK j \in JobId :
        /\ row = [c \in Conversation |->
                     IF c = First
                     THEN [stored |-> TRUE, revision |-> 1, job |-> j,
                           request |-> j, status |-> "Pending"]
                     ELSE Absent]
        /\ registered = [c \in Conversation |-> IF c = First THEN j ELSE NoId]
        /\ parked = [conversation |-> First, job |-> j]
        /\ used = {j}
  BY DEF HandoffInit
<1>2. /\ uncertain = {} /\ disk = run /\ loose = {} /\ binding = NoId
      /\ run = [owner |-> First, past |-> {}, journal |-> NoId, decided |-> FALSE]
      /\ thread = [t \in Thread |-> Idle]
  BY DEF HandoffInit
<1>3. run \in RunState /\ Owners(run) = {First}
  BY <1>2 DEF RunState, Owners
<1>4. row \in [Conversation -> RowState] /\ row[First].revision = 1
  <2>1. [stored |-> TRUE, revision |-> 1, job |-> j, request |-> j,
         status |-> "Pending"] \in RowState
    BY DEF RowState
  <2> QED
    BY <1>1, <2>1, AbsentFits
<1>5. MemoryFits
  BY <1>1, <1>2 DEF MemoryFits, Gate
<1>6. Idle.pc = "idle" /\ ~Locks(Idle) /\ ~Transfers(Idle)
  BY DEF Idle, Locks, Transfers
<1>7. \A t \in Thread : thread[t] = Idle
  BY <1>2
<1>8. HandoffTypeOK
  BY <1>2, <1>3, <1>4, <1>5, IdleFits DEF HandoffTypeOK
<1>9. FileFollows /\ OwnersAreUsed
  <2>1. disk = run /\ loose = {}
    BY <1>2
  <2>2. \A c \in Owners(run) : row[c].revision # 0
    BY <1>3, <1>4
  <2> QED
    BY <2>1, <2>2 DEF FileFollows, OwnersAreUsed
<1>10. LockIsHeldOnce /\ LockedFile /\ NewOwner
  BY <1>6, <1>7 DEF LockIsHeldOnce, LockedFile, NewOwner
<1> QED
  BY <1>8, <1>9, <1>10 DEF OwnInv

LEMMA EveryStep ==
  ASSUME OwnInv, [HandoffNext]_handoffVars
  PROVE  OwnInv' /\ Follows(disk, disk')
<1>1. ASSUME UNCHANGED disk PROVE Follows(disk, disk')
  BY <1>1 DEF Follows
<1>2. CASE UNCHANGED handoffVars
  <2>1. UNCHANGED <<row, run, disk, loose, thread>> /\ UNCHANGED runFile /\ MemoryFits'
    BY <1>2, MemoryStays DEF handoffVars, runFile, memory, OwnInv
  <2> QED
    BY <1>1, <2>1, RowsStay, QuietRest DEF OwnInv
<1>3. ASSUME NEW t \in Thread, Flush(t) \/ Project(t) \/ Clear(t)
      PROVE  OwnInv' /\ Follows(disk, disk')
  BY <1>3, FlushStep, ProjectStep, ClearStep
<1>4. ASSUME NEW t \in Handler, NEW c \in Conversation,
             Generate(t, c) \/ Send(t, c) \/ CheckDelete(t, c)
      PROVE  OwnInv' /\ UNCHANGED disk
  <2>1. UNCHANGED runFile
    BY <1>4 DEF Generate, Send, CheckDelete
  <2> QED
    BY <1>4, <2>1, GenerateStep, SendStep, CheckDeleteStep DEF runFile
<1>5. ASSUME NEW t \in Handler,
             \/ EndGenerate(t) \/ CreateDestination(t) \/ TakeSource(t)
             \/ StartDestination(t) \/ Settle(t) \/ UndoDestination(t)
      PROVE  OwnInv' /\ UNCHANGED disk
  <2>1. UNCHANGED runFile
    BY <1>5 DEF EndGenerate, CreateDestination, TakeSource, StartDestination, Settle,
                UndoDestination
  <2> QED
    BY <1>5, <2>1, EndGenerateStep, CreateDestinationStep, TakeSourceStep,
       StartDestinationStep, SettleStep, UndoDestinationStep DEF runFile
<1>6. ASSUME NEW t \in Handler,
             \/ Restore(t) \/ Recover(t) \/ BeginRestored(t) \/ Reopen(t) \/ Attach(t)
             \/ TakeGate(t) \/ EndWork(t) \/ Delete(t)
      PROVE  OwnInv' /\ UNCHANGED disk
  <2>1. UNCHANGED runFile
    BY <1>6 DEF Restore, Recover, BeginRestored, Reopen, Attach, TakeGate, EndWork,
                Delete
  <2> QED
    BY <1>6, <2>1, RestoreStep, RecoverStep, BeginRestoredStep, ReopenStep, AttachStep,
       TakeGateStep, EndWorkStep, DeleteStep DEF runFile
<1>7. ASSUME NEW t \in Handler, CommitOwner(t) \/ DecideGate(t)
      PROVE  OwnInv' /\ Follows(disk, disk')
  BY <1>7, CommitOwnerStep, DecideGateStep
<1>8. ASSUME (\E c \in Conversation : Rename(c)) \/ Prepare \/ InterruptRequests
      PROVE  OwnInv' /\ UNCHANGED disk
  <2>1. UNCHANGED runFile
    BY <1>8 DEF Rename, Prepare, InterruptRequests
  <2> QED
    BY <1>8, <2>1, RenameStep, PrepareStep, InterruptRequestsStep DEF runFile
<1>9. CASE Crash
  BY <1>9, CrashStep
<1> QED
  BY <1>1, <1>2, <1>3, <1>4, <1>5, <1>6, <1>7, <1>8, <1>9 DEF HandoffNext

(* The inductive invariant holds: types, one worker on the journal, and    *)
(* every content of the run file a restart can see one step of Ownership   *)
(* from the durable one (commit_handoff, WorkflowRunStore::mutate).        *)
THEOREM HandoffInvariance == HandoffSpec => []OwnInv
<1>1. OwnInv /\ [HandoffNext]_handoffVars => OwnInv'
  BY EveryStep
<1> QED
  BY Initial, <1>1, PTL DEF HandoffSpec

(* The run file, through failing writes, restarts and replays, changes     *)
(* owner only as Ownership allows: never back to an earlier owner, never   *)
(* while the last change is not told to both sides, never after the        *)
(* decision (transfer_prepared, commit_handoff, recover_handoffs).         *)
THEOREM HandoffImplementsOwnership == HandoffSpec => HandoffKeepsOwnership
<1>1. HandoffInit => Promise!OwnershipInit
  BY DEF HandoffInit, Promise!OwnershipInit
<1>2. ASSUME OwnInv, OwnInv', [HandoffNext]_handoffVars
      PROVE  [Promise!Move \/ Promise!Tell \/ Promise!Decide]_(Promise!ownershipVars)
  <2>1. /\ Follows(disk, disk') /\ disk \in RunState /\ disk' \in RunState
    BY <1>2, EveryStep DEF OwnInv, HandoffTypeOK
  <2>2. CASE disk' = disk
    BY <2>2 DEF Promise!ownershipVars
  <2>3. CASE Moved(disk, disk')
    BY <2>1, <2>3 DEF Moved, Promise!Move, Owners, RunState
  <2>4. CASE Told(disk, disk')
    BY <2>1, <2>4 DEF Told, Promise!Tell, RunState
  <2>5. CASE Decided(disk, disk')
    BY <2>1, <2>5 DEF Decided, Promise!Decide, RunState
  <2> QED
    BY <2>1, <2>2, <2>3, <2>4, <2>5 DEF Follows
<1> QED
  BY <1>1, <1>2, HandoffInvariance, PTL
     DEF HandoffSpec, HandoffKeepsOwnership, Promise!OwnershipSpec

-----------------------------------------------------------------------------
(* Both sides are told.  Who has the gate: the registry, a transfer that   *)
(* took it and has not committed, or a decision that has not been made.    *)
HasGate(s) == s.pc \in {"start", "journal", "decide"} /\ s.gate # NoId
Nobody == parked = NoId /\ \A t \in Thread : ~HasGate(thread[t])
GateWaits(gate) ==
    /\ gate.conversation = run.owner
    /\ registered[run.owner] = gate.job /\ row[run.owner].job = gate.job
    /\ run.journal = NoId /\ ~run.decided
OneHolder ==
    /\ parked # NoId => /\ GateWaits(parked)
                        /\ \A t \in Thread : ~HasGate(thread[t])
    /\ \A t \in Thread : HasGate(thread[t]) =>
          /\ GateWaits(thread[t].gate)
          /\ \A u \in Thread : HasGate(thread[u]) => t = u

(* The permit has one holder, and main works alone.                        *)
HasPermit(s) ==
    s.pc \in {"take", "start", "journal", "flush", "project", "clear", "settle",
              "begin", "reopen", "attach"}
OnePermit ==
    \A t, u \in Handler : HasPermit(thread[t]) /\ HasPermit(thread[u]) => t = u
StartsAlone ==
    ~Running => parked = NoId /\ \A t \in Handler : thread[t] = Idle

(* A conversation that is to be the destination, or is no longer, is one   *)
(* thread's.                                                               *)
Begins(s) == Transfers(s) \/ s.pc = "undo"
OwnDestination ==
    \A t, u \in Thread :
        Begins(thread[t]) /\ Begins(thread[u]) /\ thread[u].dest = thread[t].dest
          => t = u

(* What a thread knows at its place: that a transfer's source has no job   *)
(* unless the transfer keeps it; that from the commit to the settlement    *)
(* the destination owns the run and has the transfer's job; that a         *)
(* restored conversation still owns the run.                               *)
Committed(s) ==
    /\ Nobody /\ ~run.decided
    /\ run.owner = s.dest /\ registered[s.dest] = s.job
    /\ run.journal # NoId => run.journal.job = s.job
    /\ s.pc \in {"flush", "project"} => row[s.dest].request = NoId
    /\ s.pc = "clear" \/ run.journal = NoId => row[s.dest].job = s.job
    /\ s.gate # NoId => s.gate.conversation # s.dest

Knows(s) ==
    /\ Transfers(s) => s.run.owner \in Owners(run)
    /\ s.pc \in {"start", "journal"} /\ s.gate = NoId
         => registered[s.run.owner] = NoId
    /\ s.pc \in {"journal", "reopen"} /\ ~run.decided
         => registered[s.dest] = s.job
    /\ s.pc = "settle" => s.kind = "transfer"
    /\ s.pc \in {"flush", "project", "clear", "settle"} /\ s.kind = "transfer"
         => Committed(s)
    /\ s.pc = "reopen" /\ run.owner = s.dest => Nobody
    /\ s.pc = "attach" =>
          /\ Nobody /\ ~run.decided /\ run.journal = NoId
          /\ run.owner = s.dest /\ registered[s.dest] = s.job
          /\ row[s.dest].job = s.job
    /\ s.pc = "end" => run.decided
    /\ s.pc = "undo" => s.dest \notin Owners(run)

(* The conversations: a job waits exactly while its response is pending;   *)
(* earlier owners are settled, but for the source of a pending journal.    *)
Settled(m) == m.job = NoId /\ m.status # "Pending"
RowSound(m) ==
    /\ m.job = NoId <=> m.status # "Pending"
    /\ m.job # NoId => m.request = m.job
RowsTold(r) ==
    /\ r.owner \notin r.past
    /\ r.journal = NoId =>
          /\ \A c \in r.past : Settled(row[c])
          /\ row[r.owner].stored => row[r.owner].request # NoId
    /\ r.journal # NoId =>
          /\ r.journal.source \in r.past
          /\ \A c \in r.past \ {r.journal.source} : Settled(row[c])
          /\ row[r.journal.source].job \in {NoId, r.journal.sourceJob}
JournalIsDone ==
    /\ Settled(row[run.journal.source])
    /\ row[run.owner].request = run.journal.job
BothAreTold ==
    /\ \A c \in Conversation : RowSound(row[c])
    /\ \A r \in loose \union {run, disk} : RowsTold(r)
    /\ \A t \in Thread : thread[t].pc = "clear" => JournalIsDone
    /\ \A l \in loose : Moved(disk, l) => l = run
    /\ run # disk => run \in loose

GateInv ==
    /\ OneHolder
    /\ OnePermit
    /\ StartsAlone
    /\ \A t \in Thread : Knows(thread[t])
    /\ OwnDestination
    /\ BothAreTold

(* Every content of the file that may come back has owners of the run in   *)
(* memory.                                                                 *)
LEMMA OwnersAreKnown ==
  ASSUME OwnInv, BothAreTold, NEW r \in loose \union {run, disk}
  PROVE  Owners(r) \subseteq Owners(run) /\ r \in RunState
<1>1. Owners(disk) \subseteq Owners(run)
  BY DEF OwnInv, FileFollows, Moved, Owners
<1>2. CASE r \in loose
  <2>1. r \in RunState /\ disk \in RunState /\ Follows(disk, r)
    BY <1>2 DEF OwnInv, HandoffTypeOK, FileFollows
  <2>2. CASE r = disk \/ Told(disk, r) \/ Decided(disk, r)
    <3>1. Owners(r) = Owners(disk)
      BY <2>1, <2>2 DEF Told, Decided, Owners, RunState
    <3> QED
      BY <1>1, <2>1, <3>1
  <2>3. CASE Moved(disk, r)
    BY <1>2, <2>1, <2>3 DEF BothAreTold
  <2> QED
    BY <2>1, <2>2, <2>3 DEF Follows
<1> QED
  BY <1>1, <1>2 DEF OwnInv, HandoffTypeOK

(* A step of one thread.  Jobs of others stay registered, and their        *)
(* responses wait as long as they are needed.                              *)
Spared(u) ==
    LET s == thread[u] IN
    /\ s.pc \in {"start", "journal"} /\ registered[s.run.owner] = NoId
         => registered'[s.run.owner] = NoId
    /\ s.pc \in {"journal", "reopen"} /\ ~run.decided
         => registered'[s.dest] = registered[s.dest]
    /\ s.pc \in {"flush", "project", "clear", "settle", "attach"}
         /\ Nobody /\ ~run.decided /\ run.owner = s.dest
         => /\ registered'[s.dest] = registered[s.dest]
            /\ row'[s.dest].job = row[s.dest].job
    /\ s.pc \in {"flush", "project"} => row'[s.dest].request = row[s.dest].request

LEMMA OthersKnow ==
  ASSUME UNCHANGED run, NEW u \in Thread, thread'[u] = thread[u],
         Knows(thread[u]), Nobody => Nobody', Spared(u)
  PROVE  Knows(thread[u])'
  BY DEF Knows, Spared, Committed, Owners

(* Rows that end a response, begin or remove a conversation, or change     *)
(* nothing the other side needs.                                           *)
Eases(c) ==
    \/ row'[c] = row[c]
    \/ /\ RowSound(row'[c])
       /\ row'[c].job \in {NoId, row[c].job}
       /\ Settled(row[c]) => Settled(row'[c])
       /\ c \in Owners(run) /\ row'[c].stored
            => row[c].stored /\ row'[c].request = row[c].request

LEMMA ToldStays ==
  ASSUME OwnInv, BothAreTold, UNCHANGED runFile,
         \A c \in Conversation : Eases(c),
         UNCHANGED row \/ \A t \in Thread : thread[t].pc # "clear",
         \A t \in Thread : thread'[t].pc = "clear" => thread[t].pc = "clear"
  PROVE  BothAreTold'
<1>1. /\ UNCHANGED <<run, disk, loose>>
      /\ run \in RunState
  BY DEF runFile, OwnInv, HandoffTypeOK
<1>2. (\A c \in Conversation : RowSound(row[c]))'
  BY DEF Eases, BothAreTold
<1>3. ASSUME NEW r \in loose \union {run, disk}
      PROVE  RowsTold(r)'
  <2>1. r \in RunState /\ Owners(r) \subseteq Owners(run) /\ RowsTold(r)
    BY OwnersAreKnown DEF BothAreTold
  <2>2. /\ r.owner \in Conversation /\ r.past \subseteq Conversation
        /\ r.owner \in Owners(run)
        /\ r.journal # NoId => r.journal.source \in Conversation
    BY <2>1 DEF RunState, Owners, Journal
  <2>3. \A c \in r.past : Settled(row[c]) => Settled(row'[c])
    BY <2>2 DEF Eases
  <2>4. r.journal = NoId /\ row'[r.owner].stored => row'[r.owner].request # NoId
    BY <2>1, <2>2 DEF Eases, RowsTold
  <2>5. r.journal # NoId => row'[r.journal.source].job \in {NoId, r.journal.sourceJob}
    BY <2>1, <2>2 DEF Eases, RowsTold
  <2> QED
    BY <2>1, <2>3, <2>4, <2>5 DEF RowsTold
<1>4. (\A t \in Thread : thread[t].pc = "clear" => JournalIsDone)'
  BY <1>1 DEF BothAreTold, JournalIsDone
<1>5. /\ (\A l \in loose : Moved(disk, l) => l = run)'
      /\ (run # disk => run \in loose)'
  BY <1>1 DEF BothAreTold
<1> QED
  BY <1>1, <1>2, <1>3, <1>4, <1>5 DEF BothAreTold

(* One thread goes on; the gate stays where it is.                         *)
Calm(t, s) ==
    /\ thread' = [thread EXCEPT ![t] = s]
    /\ \/ t = Startup /\ ~Running
       \/ t \in Handler /\ Running
    /\ t \in Handler /\ HasPermit(s) => HasPermit(thread[t]) \/ PermitFree
    /\ Begins(s) =>
          \A u \in Thread : u # t /\ Begins(thread[u]) => thread[u].dest # s.dest
    /\ HasGate(s) => HasGate(thread[t]) /\ s.gate = thread[t].gate

LEMMA PermitIsFree ==
  ASSUME OwnInv, PermitFree, NEW t \in Handler
  PROVE  ~HasPermit(thread[t])
  BY DEF PermitFree, HasPermit

LEMMA GateStays ==
  ASSUME OwnInv, GateInv, UNCHANGED <<run, parked>>,
         NEW t \in Thread, NEW s \in ThreadState, Calm(t, s),
         \A u \in Thread : u # t => Spared(u),
         Nobody \/ /\ registered'[run.owner] = registered[run.owner]
                   /\ row'[run.owner].job = row[run.owner].job,
         Knows(s)', BothAreTold'
  PROVE  GateInv'
<1>1. /\ thread'[t] = s
      /\ \A u \in Thread : u # t => thread'[u] = thread[u]
      /\ Handler \subseteq Thread /\ Startup \in Thread
  BY DEF Calm, OwnInv, HandoffTypeOK, Thread
<1>2. \A u \in Thread :
         HasGate(thread'[u]) => HasGate(thread[u]) /\ thread'[u].gate = thread[u].gate
  BY <1>1 DEF Calm
<1>3. Nobody => Nobody'
  BY <1>2 DEF Nobody
<1>4. OneHolder'
  <2>1. ASSUME NEW gate, GateWaits(gate), ~Nobody PROVE GateWaits(gate)'
    BY <2>1 DEF GateWaits
  <2>2. CASE parked # NoId
    BY <1>2, <2>1, <2>2 DEF GateInv, OneHolder, Nobody
  <2>3. ASSUME NEW u \in Thread, HasGate(thread'[u])
        PROVE  GateWaits(thread[u].gate)'
    BY <1>2, <2>1, <2>3 DEF GateInv, OneHolder, Nobody
  <2> QED
    BY <1>2, <2>2, <2>3 DEF GateInv, OneHolder
<1>5. OnePermit'
  <2>1. ASSUME NEW u \in Handler, NEW v \in Handler, HasPermit(thread'[u]),
               HasPermit(thread'[v])
        PROVE  u = v
    BY <1>1, <2>1, PermitIsFree DEF Calm, GateInv, OnePermit
  <2> QED
    BY <2>1 DEF OnePermit
<1>6. StartsAlone'
  <2>1. CASE t = Startup
    <3>1. \A h \in Handler : thread'[h] = thread[h]
      BY <1>1, <2>1
    <3> QED
      BY <2>1, <3>1 DEF StartsAlone, GateInv, Calm
  <2>2. CASE t # Startup
    BY <1>1, <2>2 DEF StartsAlone, Running, Calm
  <2> QED
    BY <2>1, <2>2
<1>7. (\A u \in Thread : Knows(thread[u]))'
  <2>1. ASSUME NEW u \in Thread, u # t PROVE Knows(thread[u])'
    BY <1>1, <1>3, <2>1, OthersKnow DEF GateInv
  <2>2. Knows(thread[t])'
    BY <1>1
  <2> QED
    BY <2>1, <2>2
<1>8. OwnDestination'
  BY <1>1 DEF OwnDestination, GateInv, Calm
<1> QED
  BY <1>4, <1>5, <1>6, <1>7, <1>8 DEF GateInv

LEMMA WorksWhileRunning ==
  ASSUME GateInv, NEW t \in Handler, thread[t].pc # "idle"
  PROVE  Running /\ t \in Thread /\ t # Startup
  BY HandoffAssumption DEF GateInv, StartsAlone, Idle, Thread, HandoffAssumption

LEMMA IdleKnows ==
  Idle.pc = "idle" /\ Knows(Idle) /\ ~HasPermit(Idle) /\ ~Begins(Idle) /\ ~HasGate(Idle)
<1>1. Idle.pc = "idle"
  BY DEF Idle
<1> QED
  BY <1>1 DEF Knows, HasPermit, Begins, HasGate, Transfers

(* Nobody is disturbed by a step that changes neither registrations nor    *)
(* rows, by the holder of the permit, or by main.                          *)
LEMMA StillnessSpares ==
  ASSUME UNCHANGED <<registered, row>>
  PROVE  \A u \in Thread : Spared(u)
  BY DEF Spared

LEMMA OutsideSpared ==
  ASSUME NEW u \in Thread, ~HasPermit(thread[u]) PROVE Spared(u)
  BY DEF Spared, HasPermit

LEMMA PermitSpares ==
  ASSUME GateInv, NEW t \in Handler, HasPermit(thread[t])
  PROVE  \A u \in Thread : u # t => Spared(u)
<1>1. thread[Startup] = Idle
  BY WorksWhileRunning DEF HasPermit, Running
<1>2. ASSUME NEW u \in Thread, u # t PROVE ~HasPermit(thread[u])
  BY <1>1, <1>2, IdleKnows DEF GateInv, OnePermit, Thread
<1> QED
  BY <1>2, OutsideSpared

LEMMA MainSpares ==
  ASSUME GateInv, ~Running
  PROVE  \A u \in Thread : u # Startup => Spared(u)
<1>1. ASSUME NEW u \in Thread, u # Startup PROVE ~HasPermit(thread[u])
  BY <1>1, IdleKnows DEF GateInv, StartsAlone, Thread
<1> QED
  BY <1>1, OutsideSpared

LEMMA CalmLeave ==
  ASSUME OwnInv, GateInv, UNCHANGED <<run, parked>>,
         NEW t \in Thread, t \in Handler, thread[t].pc # "idle", Leave(t),
         \A u \in Thread : u # t => Spared(u),
         Nobody \/ /\ registered'[run.owner] = registered[run.owner]
                   /\ row'[run.owner].job = row[run.owner].job,
         BothAreTold'
  PROVE  GateInv'
<1>1. Calm(t, Idle)
  BY WorksWhileRunning, IdleKnows DEF Calm, Leave
<1>2. Knows(Idle)'
  BY IdleKnows DEF Knows, Transfers
<1> QED
  BY <1>1, <1>2, IdleFits, GateStays

(* A step that changes no row, registration or file.                       *)
LEMMA StillStep ==
  ASSUME OwnInv, GateInv, UNCHANGED <<run, disk, loose, parked, registered, row>>,
         NEW t \in Thread, NEW s \in ThreadState, Calm(t, s), Knows(s)',
         s.pc # "clear"
  PROVE  GateInv'
<1>1. \A c \in Conversation : Eases(c)
  BY DEF Eases
<1>2. \A u \in Thread : thread'[u].pc = "clear" => thread[u].pc = "clear"
  BY DEF Calm, OwnInv, HandoffTypeOK
<1>3. BothAreTold'
  BY <1>1, <1>2, ToldStays DEF runFile, GateInv
<1> QED
  BY <1>3, StillnessSpares, GateStays

LEMMA StillLeave ==
  ASSUME OwnInv, GateInv, UNCHANGED <<run, disk, loose, parked, registered, row>>,
         NEW t \in Thread, t \in Handler, thread[t].pc # "idle", Leave(t)
  PROVE  GateInv'
<1>1. Calm(t, Idle)
  BY WorksWhileRunning, IdleKnows DEF Calm, Leave
<1>2. Knows(Idle)' /\ Idle.pc # "clear"
  BY IdleKnows DEF Knows, Transfers
<1> QED
  BY <1>1, <1>2, IdleFits, StillStep

-----------------------------------------------------------------------------
(* The steps, once more, for what both sides are told.                     *)
LEMMA GenerateGate ==
  ASSUME OwnInv, GateInv, NEW t \in Handler, NEW c \in Conversation,
         Generate(t, c) \/ CheckDelete(t, c)
  PROVE  GateInv'
<1>1. PICK s \in ThreadState :
        /\ s.pc \in {"generate", "delete"}
        /\ thread' = [thread EXCEPT ![t] = s]
  <2> DEFINE g == [Idle EXCEPT !.pc = "generate", !.kind = "generate", !.dest = c]
             d == [Idle EXCEPT !.pc = "delete", !.kind = "delete", !.dest = c,
                               !.revision = row[c].revision]
  <2>1. g \in ThreadState /\ g.pc = "generate"
    BY DEF Idle, ThreadState, Place, Kind
  <2>2. d \in ThreadState /\ d.pc = "delete"
    BY DEF Idle, ThreadState, Place, Kind, OwnInv, HandoffTypeOK, RowState
  <2>3. thread' = [thread EXCEPT ![t] = g] \/ thread' = [thread EXCEPT ![t] = d]
    BY DEF Generate, CheckDelete
  <2> HIDE DEF g, d
  <2> QED
    BY <2>1, <2>2, <2>3
<1>2. t \in Thread /\ Calm(t, s) /\ Knows(s)' /\ s.pc # "clear"
  BY <1>1 DEF Calm, Generate, CheckDelete, Thread, HasPermit, Begins, Transfers,
              HasGate, Knows
<1>3. UNCHANGED <<run, disk, loose, parked, registered, row>>
  BY DEF Generate, CheckDelete, runFile, memory
<1> QED
  BY <1>1, <1>2, <1>3, StillStep

LEMMA EndGenerateGate ==
  ASSUME OwnInv, GateInv, NEW t \in Handler, EndGenerate(t)
  PROVE  GateInv'
<1>1. UNCHANGED <<run, disk, loose, parked, registered, row>>
  BY DEF EndGenerate, runFile, memory
<1>2. thread[t].pc # "idle" /\ Leave(t) /\ t \in Thread
  BY DEF EndGenerate, Thread
<1> QED
  BY <1>1, <1>2, StillLeave

LEMMA SendGate ==
  ASSUME OwnInv, GateInv, NEW t \in Handler, NEW c \in Conversation, Send(t, c)
  PROVE  GateInv'
<1>1. PICK s \in ThreadState :
        /\ s.pc = "create" /\ s.dest = c /\ s.run = run
        /\ thread' = [thread EXCEPT ![t] = s]
  <2> DEFINE d == [Idle EXCEPT !.pc = "create", !.kind = "transfer", !.run = run,
                               !.revision = binding.revision, !.dest = c]
  <2>1. binding.revision \in Nat /\ run \in RunState
    BY DEF Send, BindingHolds, OwnInv, HandoffTypeOK, MemoryFits, Draft
  <2>2. d \in ThreadState /\ d.pc = "create" /\ d.dest = c /\ d.run = run
    BY <2>1 DEF Idle, ThreadState, Place, Kind
  <2>3. thread' = [thread EXCEPT ![t] = d]
    BY DEF Send
  <2> HIDE DEF d
  <2> QED
    BY <2>2, <2>3
<1>2. UNCHANGED <<run, disk, loose, parked, registered, row>>
  BY DEF Send, runFile, memory
<1>3. Running /\ t \in Thread
  BY DEF Send, Thread
<1>4. \A u \in Thread : u # t /\ Begins(thread[u]) => thread[u].dest # c
  <2>1. ~Begins(thread[Startup])
    BY <1>3, IdleKnows DEF Running
  <2> QED
    BY <2>1 DEF Send, Thread
<1>5. Calm(t, s)
  BY <1>1, <1>3, <1>4 DEF Calm, HasPermit, HasGate
<1>6. Knows(s)'
  BY <1>1, <1>2 DEF Knows, Owners
<1> QED
  BY <1>1, <1>2, <1>3, <1>5, <1>6, StillStep

LEMMA RestoreGate ==
  ASSUME OwnInv, GateInv, NEW t \in Handler, Restore(t)
  PROVE  GateInv'
<1>1. PICK s \in ThreadState :
        s.pc = "recover" /\ thread' = [thread EXCEPT ![t] = s]
  <2> DEFINE d == [Idle EXCEPT !.pc = "recover", !.kind = "restore",
                               !.dest = run.owner]
  <2>1. d \in ThreadState /\ d.pc = "recover"
    BY DEF Idle, ThreadState, Place, Kind, OwnInv, HandoffTypeOK, RunState
  <2>2. thread' = [thread EXCEPT ![t] = d]
    BY DEF Restore
  <2> HIDE DEF d
  <2> QED
    BY <2>1, <2>2
<1>2. UNCHANGED <<run, disk, loose, parked, registered, row>>
  BY DEF Restore, runFile, memory
<1>3. Running /\ t \in Thread
  BY DEF Restore, Thread
<1>4. Calm(t, s)
  BY <1>1, <1>3 DEF Calm, HasPermit, HasGate, Begins, Transfers
<1>5. Knows(s)'
  BY <1>1 DEF Transfers, Knows
<1> QED
  BY <1>1, <1>2, <1>3, <1>4, <1>5, StillStep

(* A thread that goes on takes what it knows along.                        *)
LEMMA Goes ==
  ASSUME OwnInv, NEW t \in Thread, NEW label \in Place, Goto(t, label)
  PROVE  \E s \in ThreadState :
           /\ s.pc = label /\ s.kind = thread[t].kind /\ s.run = thread[t].run
           /\ s.dest = thread[t].dest /\ s.job = thread[t].job
           /\ s.gate = thread[t].gate
           /\ thread' = [thread EXCEPT ![t] = s]
<1> DEFINE s == [thread[t] EXCEPT !.pc = label]
<1>1. thread[t] \in ThreadState
  BY DEF OwnInv, HandoffTypeOK
<1>2. /\ s \in ThreadState
      /\ s.pc = label /\ s.kind = thread[t].kind /\ s.run = thread[t].run
      /\ s.dest = thread[t].dest /\ s.job = thread[t].job
      /\ s.gate = thread[t].gate
  BY <1>1 DEF ThreadState
<1>3. thread' = [thread EXCEPT ![t] = s]
  BY DEF Goto
<1> QED
  BY <1>2, <1>3

LEMMA RecoverGate ==
  ASSUME OwnInv, GateInv, NEW t \in Handler, Recover(t)
  PROVE  GateInv'
<1>1. /\ t \in Thread /\ thread[t].pc = "recover" /\ Fits(thread[t])
      /\ thread[t].kind = "restore" /\ PermitFree
  BY DEF Recover, Thread, OwnInv, HandoffTypeOK, Fits
<1>2. UNCHANGED <<run, disk, loose, parked, registered, row>>
  BY DEF Recover, runFile, memory
<1>3. CASE Leave(t)
  BY <1>1, <1>2, <1>3, StillLeave
<1>4. CASE Goto(t, "begin") \/ Goto(t, "flush")
  <2>1. PICK s \in ThreadState :
          /\ s.pc \in {"begin", "flush"} /\ s.kind = thread[t].kind
          /\ thread' = [thread EXCEPT ![t] = s]
    <3>1. "begin" \in Place /\ "flush" \in Place
      BY DEF Place
    <3>2. CASE Goto(t, "begin")
      BY <1>1, <3>1, <3>2, Goes
    <3>3. CASE Goto(t, "flush")
      BY <1>1, <3>1, <3>3, Goes
    <3> QED
      BY <1>4, <3>2, <3>3
  <2>2. Calm(t, s)
    BY <1>1, <2>1, WorksWhileRunning DEF Calm, Begins, Transfers, HasGate
  <2>3. Knows(s)'
    BY <1>1, <2>1 DEF Knows, Transfers
  <2> QED
    BY <1>1, <1>2, <2>1, <2>2, <2>3, StillStep
<1> QED
  BY <1>3, <1>4 DEF Recover

(* A conversation that begins, and one that is removed.                    *)
LEMMA RemovedEases ==
  ASSUME NEW c \in Conversation, row' = [row EXCEPT ![c] = Gone],
         row \in [Conversation -> RowState]
  PROVE  \A d \in Conversation : Eases(d)
<1>1. /\ Gone.job = NoId /\ Gone.status = "none" /\ Gone.stored = FALSE
  BY DEF Gone, Absent
<1> QED
  BY <1>1 DEF Eases, RowSound, Settled

LEMMA CreateDestinationGate ==
  ASSUME OwnInv, GateInv, NEW t \in Handler, CreateDestination(t)
  PROVE  GateInv'
<1> DEFINE c == thread[t].dest
<1>1. /\ t \in Thread /\ thread[t].pc = "create" /\ c \in Conversation
      /\ Transfers(thread[t]) /\ Running /\ PermitFree
      /\ c \notin Owners(run) /\ Knows(thread[t])
  <2>1. t \in Thread /\ thread[t].pc = "create" /\ Transfers(thread[t]) /\ PermitFree
    BY DEF CreateDestination, Thread, Transfers
  <2> QED
    BY <2>1, WorksWhileRunning DEF OwnInv, HandoffTypeOK, Fits, NewOwner, GateInv
<1>2. UNCHANGED <<run, disk, loose, parked, registered>> /\ row' = [row EXCEPT ![c] = Fresh]
  BY DEF CreateDestination, runFile, memory
<1>3. Fresh.job = NoId /\ Fresh.status = "none"
  BY DEF Fresh, Absent
<1>4. \A d \in Conversation : Eases(d)
  BY <1>1, <1>2, <1>3 DEF Eases, RowSound, Settled, OwnInv, HandoffTypeOK
<1>5. PICK s \in ThreadState :
        /\ s.pc = "take" /\ s.kind = thread[t].kind /\ s.run = thread[t].run
        /\ s.dest = thread[t].dest /\ s.gate = thread[t].gate
        /\ thread' = [thread EXCEPT ![t] = s]
  <2>1. Goto(t, "take") /\ "take" \in Place
    BY DEF CreateDestination, Place
  <2> QED
    BY <1>1, <2>1, Goes
<1>6. Calm(t, s)
  <2>1. Begins(thread[t])
    BY <1>1 DEF Begins
  <2>2. \A u \in Thread : u # t /\ Begins(thread[u]) => thread[u].dest # s.dest
    BY <1>1, <1>5, <2>1 DEF GateInv, OwnDestination
  <2> QED
    BY <1>1, <1>5, <2>2 DEF Calm, HasGate
<1>7. Knows(s)'
  BY <1>1, <1>2, <1>5 DEF Knows, Transfers, Owners
<1>8. \A u \in Thread : Spared(u)
  <2>1. ASSUME NEW u \in Thread PROVE ~HasPermit(thread[u])
    BY <1>1, IdleKnows, PermitIsFree DEF Running, Thread
  <2> QED
    BY <2>1, OutsideSpared
<1>9. BothAreTold'
  <2>1. \A u \in Thread : thread[u].pc # "clear"
    BY DEF CreateDestination, Unlocked
  <2>2. \A u \in Thread : thread'[u].pc # "clear"
    BY <1>1, <1>5, <2>1 DEF OwnInv, HandoffTypeOK
  <2> QED
    BY <1>2, <1>4, <2>1, <2>2, ToldStays DEF GateInv, runFile
<1>10. row'[run.owner].job = row[run.owner].job /\ registered' = registered
  BY <1>1, <1>2 DEF Owners, OwnInv, HandoffTypeOK
<1> QED
  BY <1>1, <1>2, <1>5, <1>6, <1>7, <1>8, <1>9, <1>10, GateStays

LEMMA UndoDestinationGate ==
  ASSUME OwnInv, GateInv, NEW t \in Handler, UndoDestination(t)
  PROVE  GateInv'
<1> DEFINE c == thread[t].dest
<1>1. /\ t \in Thread /\ thread[t].pc = "undo" /\ c \in Conversation
      /\ c \notin Owners(run) /\ Leave(t)
      /\ UNCHANGED <<run, disk, loose, parked, registered>>
      /\ row' = row \/ row' = [row EXCEPT ![c] = Gone]
  BY DEF UndoDestination, Thread, OwnInv, HandoffTypeOK, Fits, GateInv, Knows,
         runFile, memory
<1>2. \A d \in Conversation : Eases(d)
  BY <1>1, RemovedEases DEF Eases, OwnInv, HandoffTypeOK
<1>3. \A u \in Thread : thread[u].pc \notin {"flush", "project", "clear"}
  BY DEF UndoDestination, Unlocked
<1>4. BothAreTold'
  <2>1. \A u \in Thread : thread'[u].pc # "clear"
    BY <1>1, <1>3, IdleKnows DEF Leave, OwnInv, HandoffTypeOK
  <2> QED
    BY <1>1, <1>2, <1>3, <2>1, ToldStays DEF GateInv, runFile
<1>5. row'[run.owner] = row[run.owner]
  <2>1. run.owner # c
    BY <1>1 DEF Owners
  <2> QED
    BY <1>1, <2>1 DEF OwnInv, HandoffTypeOK, RunState
<1>6. \A u \in Thread : Spared(u)
  BY <1>1, <1>3, <1>5 DEF Spared
<1> QED
  BY <1>1, <1>4, <1>5, <1>6, CalmLeave

LEMMA DeleteGate ==
  ASSUME OwnInv, GateInv, NEW t \in Handler, Delete(t)
  PROVE  GateInv'
<1> DEFINE c == thread[t].dest
<1>1. /\ t \in Thread /\ thread[t].pc = "delete" /\ c \in Conversation
      /\ Leave(t) /\ UNCHANGED <<run, disk, loose, parked, registered>>
      /\ \/ row' = row
         \/ row' = [row EXCEPT ![c] = Gone] /\ row[c].job = NoId
  BY DEF Delete, Thread, OwnInv, HandoffTypeOK, Fits, runFile, memory
<1>2. \A d \in Conversation : Eases(d)
  BY <1>1, RemovedEases DEF Eases, OwnInv, HandoffTypeOK
<1>3. \A u \in Thread : thread[u].pc \notin {"flush", "project", "clear"}
  BY DEF Delete, Unlocked
<1>4. BothAreTold'
  <2>1. \A u \in Thread : thread'[u].pc # "clear"
    BY <1>1, <1>3, IdleKnows DEF Leave, OwnInv, HandoffTypeOK
  <2> QED
    BY <1>1, <1>2, <1>3, <2>1, ToldStays DEF GateInv, runFile
<1>5. \A d \in Conversation : row'[d].job = row[d].job
  <2>1. Gone.job = NoId
    BY DEF Gone, Absent
  <2> QED
    BY <1>1, <2>1 DEF OwnInv, HandoffTypeOK
<1>6. run.owner \in Conversation
  BY DEF OwnInv, HandoffTypeOK, RunState
<1>7. \A u \in Thread : Spared(u)
  BY <1>1, <1>3, <1>5, <1>6 DEF Spared
<1> QED
  BY <1>1, <1>4, <1>5, <1>6, <1>7, CalmLeave

LEMMA TakeSourceGate ==
  ASSUME OwnInv, GateInv, NEW t \in Handler, TakeSource(t)
  PROVE  GateInv'
<1>1. /\ t \in Thread /\ thread[t] \in ThreadState
      /\ thread[t].pc = "take" /\ Transfers(thread[t])
      /\ Running /\ Knows(thread[t]) /\ HasPermit(thread[t])
      /\ UNCHANGED <<run, disk, loose, registered, row>>
  BY WorksWhileRunning DEF TakeSource, Thread, Transfers, HasPermit, runFile,
                           GateInv, OwnInv, HandoffTypeOK
<1>2. \A u \in Thread : u # t /\ Begins(thread[u]) => thread[u].dest # thread[t].dest
  BY <1>1 DEF GateInv, OwnDestination, Begins
<1>3. CASE Goto(t, "undo") /\ UNCHANGED parked
  <2>1. PICK s \in ThreadState :
          /\ s.pc = "undo" /\ s.dest = thread[t].dest
          /\ thread' = [thread EXCEPT ![t] = s]
    <3>1. "undo" \in Place
      BY DEF Place
    <3> QED
      BY <1>1, <1>3, <3>1, Goes
  <2>2. Calm(t, s)
    BY <1>1, <1>2, <2>1 DEF Calm, HasPermit, HasGate
  <2>3. Knows(s)'
    <3>1. s.dest \notin Owners(run)
      BY <1>1, <2>1 DEF OwnInv, NewOwner
    <3> QED
      BY <1>1, <2>1, <3>1 DEF Knows, Transfers, Owners
  <2> QED
    BY <1>1, <1>3, <2>1, <2>2, <2>3, StillStep
<1>4. CASE /\ IF parked = NoId THEN ~Reserved(thread[t].run.owner)
              ELSE parked.conversation = thread[t].run.owner
           /\ thread' = [thread EXCEPT ![t].pc = "start", ![t].gate = parked,
                                       ![t].revision = binding.revision]
           /\ parked' = NoId /\ binding # NoId
  <2>1. PICK s \in ThreadState :
          /\ s.pc = "start" /\ s.dest = thread[t].dest /\ s.run = thread[t].run
          /\ s.gate = parked
          /\ thread' = [thread EXCEPT ![t] = s]
    <3> DEFINE d == [thread[t] EXCEPT !.pc = "start", !.gate = parked,
                                      !.revision = binding.revision]
    <3>1. binding.revision \in Nat /\ parked \in Gate \union {NoId}
      BY <1>4 DEF OwnInv, HandoffTypeOK, MemoryFits, Draft
    <3>2. /\ d \in ThreadState
          /\ d.pc = "start" /\ d.dest = thread[t].dest
          /\ d.gate = parked /\ d.run = thread[t].run
      BY <1>1, <3>1 DEF ThreadState, Place
    <3>3. thread' = [thread EXCEPT ![t] = d]
      BY <1>1, <1>4 DEF OwnInv, HandoffTypeOK, ThreadState
    <3> HIDE DEF d
    <3> QED
      BY <3>2, <3>3
  <2>2. /\ thread'[t] = s
        /\ \A u \in Thread : u # t => thread'[u] = thread[u]
    BY <1>1, <2>1 DEF OwnInv, HandoffTypeOK
  <2>3. CASE parked = NoId
    <3>1. Calm(t, s) /\ UNCHANGED parked
      BY <1>1, <1>2, <1>4, <2>1, <2>3 DEF Calm, HasPermit, HasGate
    <3>2. registered[thread[t].run.owner] = NoId
      BY <1>4, <2>3 DEF Reserved
    <3>3. Knows(s)'
      BY <1>1, <2>1, <3>2 DEF Knows, Transfers, Owners
    <3> QED
      BY <1>1, <2>1, <3>1, <3>3, StillStep
  <2>4. CASE parked # NoId
    <3>1. /\ \A u \in Thread : ~HasGate(thread[u])
          /\ GateWaits(parked)
      BY <2>4 DEF GateInv, OneHolder
    <3>2. OneHolder'
      <4>1. GateWaits(s.gate)' /\ parked' = NoId
        BY <1>1, <1>4, <2>1, <3>1 DEF GateWaits
      <4>2. \A u \in Thread : HasGate(thread'[u]) => u = t
        BY <2>2, <3>1
      <4> QED
        BY <2>2, <4>1, <4>2 DEF OneHolder
    <3>3. OnePermit'
      BY <1>1, <2>2 DEF GateInv, OnePermit, Thread
    <3>4. StartsAlone'
      <4>1. t # Startup /\ Startup \in Thread
        BY <1>1, WorksWhileRunning DEF Thread
      <4> QED
        BY <1>1, <2>2, <4>1 DEF StartsAlone, Running
    <3>5. OwnDestination'
      BY <1>2, <2>1, <2>2 DEF GateInv, OwnDestination
    <3>6. (\A u \in Thread : Knows(thread[u]))'
      <4>1. ASSUME NEW u \in Thread, u # t PROVE Knows(thread[u])'
        BY <1>1, <2>2, <2>4, <4>1 DEF GateInv, Knows, Nobody, Committed, Owners
      <4>2. Knows(thread[t])'
        BY <1>1, <2>1, <2>2, <2>4 DEF Knows, Transfers, Owners
      <4> QED
        BY <4>1, <4>2
    <3>7. BothAreTold'
      <4>1. \A c \in Conversation : Eases(c)
        BY <1>1 DEF Eases
      <4>2. \A u \in Thread : thread'[u].pc = "clear" => thread[u].pc = "clear"
        BY <2>1, <2>2
      <4> QED
        BY <1>1, <4>1, <4>2, ToldStays DEF GateInv, runFile
    <3> QED
      BY <3>2, <3>3, <3>4, <3>5, <3>6, <3>7 DEF GateInv
  <2> QED
    BY <2>3, <2>4
<1> QED
  BY <1>3, <1>4 DEF TakeSource

LEMMA StartDestinationGate ==
  ASSUME OwnInv, GateInv, NEW t \in Handler, StartDestination(t)
  PROVE  GateInv'
<1>1. /\ t \in Thread /\ thread[t] \in ThreadState
      /\ thread[t].pc = "start" /\ Transfers(thread[t])
      /\ Running /\ Knows(thread[t]) /\ HasPermit(thread[t])
      /\ UNCHANGED <<run, disk, loose, parked, row>>
  BY WorksWhileRunning DEF StartDestination, Thread, Transfers, HasPermit, runFile,
                           GateInv, OwnInv, HandoffTypeOK
<1>2. \A u \in Thread : u # t /\ Begins(thread[u]) => thread[u].dest # thread[t].dest
  BY <1>1 DEF GateInv, OwnDestination, Begins
<1>3. PICK j \in JobId :
        /\ registered' = [registered EXCEPT ![thread[t].dest] = j]
        /\ thread' = [thread EXCEPT ![t].pc = "journal", ![t].job = j]
  BY DEF StartDestination
<1>4. PICK s \in ThreadState :
        /\ s.pc = "journal" /\ s.dest = thread[t].dest /\ s.run = thread[t].run
        /\ s.gate = thread[t].gate /\ s.job = j
        /\ thread' = [thread EXCEPT ![t] = s]
  <2> DEFINE d == [thread[t] EXCEPT !.pc = "journal", !.job = j]
  <2>1. /\ d \in ThreadState
        /\ d.pc = "journal" /\ d.dest = thread[t].dest /\ d.job = j
        /\ d.gate = thread[t].gate /\ d.run = thread[t].run
    BY <1>1 DEF ThreadState, Place
  <2>2. thread' = [thread EXCEPT ![t] = d]
    BY <1>1, <1>3 DEF OwnInv, HandoffTypeOK, ThreadState
  <2> HIDE DEF d
  <2> QED
    BY <2>1, <2>2
<1>5. Calm(t, s)
  BY <1>1, <1>2, <1>4 DEF Calm, HasGate
<1>6. thread[t].dest \in Conversation /\ thread[t].dest \notin Owners(run)
  BY <1>1 DEF OwnInv, NewOwner, HandoffTypeOK, Fits
<1>7. Knows(s)'
  <2>1. registered'[s.dest] = s.job
    BY <1>3, <1>4, <1>6 DEF OwnInv, HandoffTypeOK, MemoryFits
  <2>2. s.run.owner \in Owners(run) /\ s.run.owner # thread[t].dest
    BY <1>1, <1>4, <1>6 DEF Knows
  <2>3. s.gate = NoId => registered'[s.run.owner] = NoId
    BY <1>1, <1>3, <1>4, <1>6, <2>2 DEF Knows
  <2> QED
    BY <1>1, <1>4, <2>1, <2>2, <2>3 DEF Knows, Transfers, Owners
<1>8. registered'[run.owner] = registered[run.owner]
  BY <1>3, <1>6 DEF Owners, OwnInv, HandoffTypeOK, MemoryFits, RunState
<1>9. BothAreTold'
  <2>1. \A c \in Conversation : Eases(c)
    BY <1>1 DEF Eases
  <2>2. \A u \in Thread : thread'[u].pc = "clear" => thread[u].pc = "clear"
    BY <1>1, <1>4 DEF OwnInv, HandoffTypeOK
  <2> QED
    BY <1>1, <2>1, <2>2, ToldStays DEF GateInv, runFile
<1> QED
  BY <1>1, <1>4, <1>5, <1>7, <1>8, <1>9, PermitSpares, GateStays

(* A gate that comes back waits as it did; a commit finds it with nobody   *)
(* else.                                                                   *)
LEMMA TransferRefusedGate ==
  ASSUME OwnInv, GateInv, NEW t \in Handler, thread[t].pc = "journal",
         TransferRefused(t), UNCHANGED <<run, disk, loose, row>>
  PROVE  GateInv'
<1>1. /\ t \in Thread /\ thread[t] \in ThreadState /\ Transfers(thread[t])
      /\ Running /\ Knows(thread[t]) /\ HasPermit(thread[t]) /\ t # Startup
  BY WorksWhileRunning DEF Thread, Transfers, HasPermit, GateInv, OwnInv,
                           HandoffTypeOK
<1>2. /\ thread[t].dest \in Conversation /\ thread[t].dest \notin Owners(run)
  BY <1>1 DEF OwnInv, NewOwner, HandoffTypeOK, Fits
<1>3. \A u \in Thread : u # t /\ Begins(thread[u]) => thread[u].dest # thread[t].dest
  BY <1>1 DEF GateInv, OwnDestination, Begins
<1>4. PICK s \in ThreadState :
        /\ s.pc = "undo" /\ s.dest = thread[t].dest
        /\ thread' = [thread EXCEPT ![t] = s]
  <2>1. Goto(t, "undo") /\ "undo" \in Place
    BY DEF TransferRefused, Place
  <2> QED
    BY <1>1, <2>1, Goes
<1>5. /\ thread'[t] = s /\ ~HasGate(s) /\ ~HasPermit(s)
      /\ \A u \in Thread : u # t => thread'[u] = thread[u]
  BY <1>1, <1>4 DEF OwnInv, HandoffTypeOK, HasGate, HasPermit
<1>6. /\ registered' = [registered EXCEPT ![thread[t].dest] = NoId]
      /\ registered'[run.owner] = registered[run.owner]
  <2>1. run.owner # thread[t].dest
    BY <1>2 DEF Owners
  <2> QED
    BY <2>1 DEF TransferRefused, OwnInv, HandoffTypeOK, MemoryFits, RunState
<1>7. \A gate : GateWaits(gate) => GateWaits(gate)'
  BY <1>6 DEF GateWaits
<1>8. \A u \in Thread : u # t => Spared(u)
  BY <1>1, PermitSpares
<1>9. Nobody => Nobody'
  <2> SUFFICES ASSUME Nobody PROVE Nobody'
    OBVIOUS
  <2>1. thread[t].gate = NoId
    BY <1>1 DEF Nobody, HasGate
  <2>2. parked' = NoId
    BY <2>1 DEF Nobody, TransferRefused, PutBack
  <2>3. \A u \in Thread : ~HasGate(thread'[u])
    BY <1>5 DEF Nobody
  <2> QED
    BY <2>2, <2>3 DEF Nobody
<1>10. (\A u \in Thread : Knows(thread[u]))'
  <2>1. ASSUME NEW u \in Thread, u # t PROVE Knows(thread[u])'
    <3>1. CASE HasGate(thread[t])
      <4>1. ~HasPermit(thread[u])
        BY <1>1, <2>1, IdleKnows DEF GateInv, OnePermit, Thread, Running
      <4> QED
        BY <1>5, <2>1, <4>1 DEF GateInv, Knows, HasPermit, Owners
    <3>2. CASE ~HasGate(thread[t])
      BY <1>5, <1>8, <1>9, <2>1, OthersKnow DEF GateInv
    <3> QED
      BY <3>1, <3>2
  <2>2. Knows(thread[t])'
    <3>1. thread'[t].pc = "undo" /\ thread'[t].dest \notin Owners(run)'
      BY <1>2, <1>4, <1>5 DEF Owners
    <3> QED
      BY <3>1 DEF Knows, Transfers
  <2> QED
    BY <2>1, <2>2
<1>11. OneHolder'
  <2>1. CASE HasGate(thread[t])
    <3>1. /\ GateWaits(thread[t].gate)
          /\ \A u \in Thread : HasGate(thread[u]) => u = t
      BY <1>1, <2>1 DEF GateInv, OneHolder
    <3>2. \A u \in Thread : ~HasGate(thread'[u])
      BY <1>5, <3>1
    <3>3. parked' = thread[t].gate
      BY <2>1 DEF HasGate, TransferRefused, PutBack
    <3>4. GateWaits(parked)'
      BY <1>7, <3>1, <3>3 DEF GateWaits
    <3> QED
      BY <3>2, <3>4 DEF OneHolder
  <2>2. CASE ~HasGate(thread[t])
    <3>1. UNCHANGED parked
      BY <2>2 DEF HasGate, TransferRefused, PutBack
    <3>2. \A u \in Thread : HasGate(thread'[u]) => HasGate(thread[u]) /\ thread'[u] = thread[u]
      BY <1>5
    <3>3. parked # NoId => GateWaits(parked)'
      BY <1>7, <3>1 DEF GateInv, OneHolder, GateWaits
    <3>4. \A u \in Thread : HasGate(thread'[u]) => GateWaits(thread[u].gate)'
      <4>1. ASSUME NEW u \in Thread, HasGate(thread'[u])
            PROVE  GateWaits(thread[u].gate)'
        BY <1>7, <3>2, <4>1 DEF GateInv, OneHolder, GateWaits
      <4> QED
        BY <4>1
    <3> QED
      BY <3>1, <3>2, <3>3, <3>4 DEF GateInv, OneHolder
  <2> QED
    BY <2>1, <2>2
<1>12. OnePermit'
  BY <1>1, <1>5 DEF GateInv, OnePermit, Thread
<1>13. StartsAlone'
  <2>1. Startup \in Thread
    BY DEF Thread
  <2> QED
    BY <1>1, <1>5, <2>1 DEF StartsAlone, Running
<1>14. OwnDestination'
  BY <1>3, <1>4, <1>5 DEF GateInv, OwnDestination
<1>15. BothAreTold'
  <2>1. \A c \in Conversation : Eases(c)
    BY DEF Eases
  <2>2. \A u \in Thread : thread'[u].pc = "clear" => thread[u].pc = "clear"
    BY <1>4, <1>5
  <2> QED
    BY <2>1, <2>2, ToldStays DEF GateInv, runFile
<1> QED
  BY <1>10, <1>11, <1>12, <1>13, <1>14, <1>15 DEF GateInv

LEMMA CommitOwnerGate ==
  ASSUME OwnInv, GateInv, OwnInv', NEW t \in Handler, CommitOwner(t)
  PROVE  GateInv'
<1> DEFINE source == thread[t].run.owner
           dest == thread[t].dest
           next == Journaled(source, dest, thread[t].job)
<1>1. /\ t \in Thread /\ thread[t] \in ThreadState /\ Fits(thread[t])
      /\ thread[t].pc = "journal" /\ Transfers(thread[t])
      /\ dest \in Conversation /\ thread[t].job \in JobId
      /\ thread[t].kind = "transfer" /\ thread[t].run \in RunState
      /\ thread[t].run.journal = NoId /\ ~thread[t].run.decided
      /\ Running /\ Knows(thread[t]) /\ HasPermit(thread[t]) /\ t # Startup
      /\ dest \notin Owners(run) /\ UNCHANGED row
  <2>1. t \in Thread /\ thread[t].pc = "journal" /\ Transfers(thread[t])
    BY DEF CommitOwner, Transfers, Thread
  <2> QED
    BY <2>1, WorksWhileRunning DEF CommitOwner, Fits, HasPermit, GateInv, OwnInv,
                                   HandoffTypeOK, NewOwner
<1>2. CASE TransferRefused(t) /\ UNCHANGED <<run, disk, loose>>
  BY <1>1, <1>2, TransferRefusedGate
<1>3. CASE /\ Mutated(next) \/ MutatedLoosely(next)
           /\ run = thread[t].run /\ row[dest] = Fresh
           /\ Goto(t, "flush") /\ UNCHANGED memory
  <2>1. /\ run \in RunState /\ run.journal = NoId /\ ~run.decided
        /\ source = run.owner /\ run = disk /\ source \in Conversation
        /\ run.past \subseteq Conversation
    BY <1>1, <1>3 DEF OwnInv, FileFollows, Moved, RunState
  <2> DEFINE journal == [source |-> source, sourceJob |-> row[source].job,
                         revision |-> row[dest].revision, job |-> thread[t].job]
  <2>2. journal \in Journal
    BY <1>1, <2>1 DEF OwnInv, HandoffTypeOK, RowState, Journal
  <2>3. /\ next \in RunState /\ next.journal = journal /\ ~next.decided
        /\ next.owner = dest /\ next.past = Owners(run)
    BY <1>1, <2>1, <2>2 DEF Journaled, OwnedWithoutJournal, RunState, Owners
  <2>4. /\ journal.source = source /\ journal.sourceJob = row[source].job
        /\ journal.job = thread[t].job /\ journal # NoId
    BY <2>2 DEF HandoffAssumption
  <2>5. /\ run' = next
        /\ \/ disk' = next /\ loose' = {}
           \/ disk' = disk /\ loose' = loose \union {next}
    BY <1>3 DEF Mutated, MutatedLoosely, FileStored, FileReplaced
  <2> HIDE DEF next, journal
  <2>6. PICK s \in ThreadState :
          /\ s.pc = "flush" /\ s.kind = "transfer" /\ s.dest = dest
          /\ s.job = thread[t].job /\ s.gate = thread[t].gate
          /\ thread' = [thread EXCEPT ![t] = s]
    <3>1. "flush" \in Place
      BY DEF Place
    <3> QED
      BY <1>1, <1>3, <3>1, Goes
  <2>7. /\ thread'[t] = s /\ ~HasGate(s) /\ HasPermit(s) /\ ~Begins(s)
        /\ \A u \in Thread : u # t => thread'[u] = thread[u]
    BY <1>1, <2>6 DEF OwnInv, HandoffTypeOK, HasGate, HasPermit, Begins, Transfers
  <2>8. UNCHANGED <<registered, parked>>
    BY <1>3 DEF memory
  <2>9. parked = NoId /\ \A u \in Thread : HasGate(thread[u]) => u = t
    <3>1. CASE HasGate(thread[t])
      BY <1>1, <3>1 DEF GateInv, OneHolder
    <3>2. CASE ~HasGate(thread[t])
      <4>1. registered[run.owner] = NoId
        BY <1>1, <2>1, <3>2 DEF HasGate, Knows
      <4>2. \A gate \in Gate : ~GateWaits(gate)
        BY <4>1 DEF GateWaits, Gate, HandoffAssumption
      <4>3. \A u \in Thread : HasGate(thread[u]) => thread[u].gate \in Gate
        BY DEF HasGate, OwnInv, HandoffTypeOK, ThreadState
      <4> QED
        BY <4>2, <4>3 DEF GateInv, OneHolder, OwnInv, HandoffTypeOK, MemoryFits
    <3> QED
      BY <3>1, <3>2
  <2>10. Nobody' /\ OneHolder'
    BY <2>7, <2>8, <2>9 DEF Nobody, OneHolder
  <2>11. OnePermit'
    BY <1>1, <2>7 DEF GateInv, OnePermit, Thread
  <2>12. StartsAlone'
    <3>1. Startup \in Thread
      BY DEF Thread
    <3> QED
      BY <1>1, <2>7, <3>1 DEF StartsAlone, Running
  <2>13. OwnDestination'
    BY <2>7 DEF GateInv, OwnDestination
  <2>14. (\A u \in Thread : Knows(thread[u]))'
    <3>1. ASSUME NEW u \in Thread, u # t PROVE Knows(thread[u])'
      <4>1. ~HasPermit(thread[u]) /\ Knows(thread[u]) /\ thread'[u] = thread[u]
        BY <1>1, <2>7, <3>1, IdleKnows DEF GateInv, OnePermit, Thread, Running
      <4>2. thread[u].pc # "end"
        BY <2>1, <4>1 DEF Knows
      <4>3. Owners(next) = Owners(run) \union {dest}
        BY <2>3 DEF Owners
      <4>4. thread[u].pc = "undo" => thread[u].dest \notin Owners(next)
        <5>1. CASE thread[u].pc = "undo"
          <6>1. thread[u].dest # dest
            BY <1>1, <3>1, <5>1 DEF GateInv, OwnDestination, Begins
          <6> QED
            BY <4>1, <4>3, <5>1, <6>1 DEF Knows
        <5> QED
          BY <5>1
      <4>5. Transfers(thread[u]) => thread[u].run.owner \in Owners(next)
        BY <4>1, <4>3 DEF Knows
      <4>6. /\ thread'[u].pc = "undo" => thread'[u].dest \notin Owners(run')
            /\ Transfers(thread'[u]) => thread'[u].run.owner \in Owners(run')
            /\ ~HasPermit(thread'[u]) /\ thread'[u].pc # "end"
        BY <2>5, <4>1, <4>2, <4>4, <4>5
      <4> QED
        BY <4>6 DEF Knows, HasPermit, Transfers, Owners
    <3>2. Knows(thread[t])'
      <4>1. Committed(s)'
        <5>1. registered[dest] = thread[t].job
          BY <1>1, <2>1 DEF Knows
        <5>2. row'[dest].request = NoId
          BY <1>1, <1>3 DEF Fresh, Absent
        <5>3. /\ Nobody' /\ ~run'.decided /\ run'.owner = s.dest
              /\ run'.journal # NoId /\ run'.journal.job = s.job
          BY <2>3, <2>4, <2>5, <2>6, <2>10
        <5>4. s.gate # NoId => s.gate.conversation # s.dest
          <6>1. s.gate # NoId => s.gate.conversation = source
            BY <1>1, <2>1, <2>6 DEF GateInv, OneHolder, GateWaits, HasGate
          <6> QED
            BY <1>1, <2>1, <2>6, <6>1 DEF Owners
        <5> QED
          BY <2>6, <2>8, <5>1, <5>2, <5>3, <5>4 DEF Committed
      <4> QED
        BY <2>6, <2>7, <4>1 DEF Knows, Transfers
    <3> QED
      BY <3>1, <3>2
  <2>15. BothAreTold'
    <3>1. (\A c \in Conversation : RowSound(row[c]))'
      BY <1>1 DEF GateInv, BothAreTold
    <3>2. RowsTold(run) /\ \A r \in loose \union {disk} : RowsTold(r)
      BY DEF GateInv, BothAreTold
    <3>3. RowsTold(next)
      BY <1>1, <2>1, <2>3, <2>4, <3>2 DEF RowsTold, Owners
    <3>4. \A r : RowsTold(r) => RowsTold(r)'
      BY <1>1 DEF RowsTold
    <3>5. (\A r \in loose \union {run, disk} : RowsTold(r))'
      BY <2>5, <3>2, <3>3, <3>4
    <3>6. \A u \in Thread : thread'[u].pc # "clear"
      BY <2>6, <2>7 DEF CommitOwner, Unlocked
    <3>7. \A l \in loose : ~Moved(disk, l)
      BY <2>1 DEF GateInv, BothAreTold, Moved
    <3>8. (\A l \in loose : Moved(disk, l) => l = run)'
      BY <2>5, <3>7 DEF Moved
    <3> QED
      BY <2>5, <3>1, <3>5, <3>6, <3>8 DEF BothAreTold
  <2> QED
    BY <2>10, <2>11, <2>12, <2>13, <2>14, <2>15 DEF GateInv
<1> QED
  BY <1>2, <1>3 DEF CommitOwner, FileUnchanged

(* The holder of the permit leaves; the gate waits in the registry or is   *)
(* with nobody.                                                            *)
LEMMA ParkStep ==
  ASSUME OwnInv, GateInv, UNCHANGED <<run, disk, loose, row>>,
         NEW t \in Handler, HasPermit(thread[t]), Leave(t),
         \A u \in Thread : ~HasGate(thread[u]),
         parked' = NoId \/ GateWaits(parked)'
  PROVE  GateInv'
<1>1. /\ t \in Thread /\ t # Startup /\ Running /\ Startup \in Thread
      /\ thread'[t] = Idle
      /\ \A u \in Thread : u # t => thread'[u] = thread[u]
  BY WorksWhileRunning DEF HasPermit, Leave, OwnInv, HandoffTypeOK, Thread
<1>2. \A u \in Thread : ~HasPermit(thread'[u])
  BY <1>1, IdleKnows DEF GateInv, OnePermit, Thread, Running
<1>3. OneHolder'
  BY <1>1, IdleKnows DEF OneHolder
<1>4. OnePermit'
  BY <1>2 DEF OnePermit, Thread
<1>5. StartsAlone'
  BY <1>1 DEF StartsAlone, Running
<1>6. OwnDestination'
  BY <1>1, IdleKnows DEF GateInv, OwnDestination
<1>7. (\A u \in Thread : Knows(thread[u]))'
  <2>1. ASSUME NEW u \in Thread, u # t PROVE Knows(thread[u])'
    BY <1>1, <1>2, <2>1 DEF GateInv, Knows, HasPermit, Owners
  <2>2. Knows(thread[t])'
    BY <1>1, IdleKnows DEF Knows, Transfers
  <2> QED
    BY <2>1, <2>2
<1>8. BothAreTold'
  <2>1. \A c \in Conversation : Eases(c)
    BY DEF Eases
  <2>2. \A u \in Thread : thread'[u].pc # "clear"
    BY <1>2 DEF HasPermit
  <2> QED
    BY <2>1, <2>2, ToldStays DEF GateInv, runFile
<1> QED
  BY <1>3, <1>4, <1>5, <1>6, <1>7, <1>8 DEF GateInv

LEMMA SettleGate ==
  ASSUME OwnInv, GateInv, NEW t \in Handler, Settle(t)
  PROVE  GateInv'
<1> DEFINE gate == thread[t].gate
           dest == thread[t].dest
           released == IF gate = NoId THEN registered
                       ELSE [registered EXCEPT ![gate.conversation] =
                                IF @ = gate.job THEN NoId ELSE @]
<1>1. /\ t \in Thread /\ thread[t].pc = "settle" /\ HasPermit(thread[t])
      /\ UNCHANGED <<run, disk, loose, row>> /\ Leave(t)
  BY DEF Settle, Thread, HasPermit, runFile
<1>2. Committed(thread[t]) /\ dest \in Conversation
  BY <1>1 DEF GateInv, Knows, OwnInv, HandoffTypeOK, Fits
<1>3. CASE run.journal = NoId /\ parked' = [conversation |-> dest, job |-> thread[t].job]
           /\ registered' = released
  <2>1. released[dest] = registered[dest]
    BY <1>2 DEF Committed, OwnInv, HandoffTypeOK, MemoryFits
  <2>2. /\ parked'.conversation = dest /\ parked'.job = thread[t].job
    BY <1>3
  <2>3. GateWaits(parked)'
    BY <1>1, <1>2, <1>3, <2>1, <2>2 DEF Committed, GateWaits
  <2> QED
    BY <1>1, <1>2, <2>3, ParkStep DEF Committed, Nobody
<1>4. CASE UNCHANGED parked
  BY <1>1, <1>2, <1>4, ParkStep DEF Committed, Nobody
<1> QED
  BY <1>3, <1>4 DEF Settle

LEMMA AttachGate ==
  ASSUME OwnInv, GateInv, NEW t \in Handler, Attach(t)
  PROVE  GateInv'
<1>1. /\ t \in Thread /\ thread[t].pc = "attach" /\ HasPermit(thread[t])
      /\ UNCHANGED <<run, disk, loose, row>> /\ Leave(t)
  BY DEF Attach, Thread, HasPermit, runFile
<1>2. /\ Nobody /\ ~run.decided /\ run.journal = NoId
      /\ run.owner = thread[t].dest /\ registered[thread[t].dest] = thread[t].job
      /\ row[thread[t].dest].job = thread[t].job
  BY <1>1 DEF GateInv, Knows
<1>3. CASE parked' = [conversation |-> thread[t].dest, job |-> thread[t].job]
           /\ UNCHANGED registered
  <2>1. GateWaits(parked)'
    BY <1>1, <1>2, <1>3 DEF GateWaits
  <2> QED
    BY <1>1, <1>2, <2>1, ParkStep DEF Nobody
<1>4. CASE UNCHANGED parked
  BY <1>1, <1>2, <1>4, ParkStep DEF Nobody
<1> QED
  BY <1>3, <1>4 DEF Attach

LEMMA BeginRestoredGate ==
  ASSUME OwnInv, GateInv, NEW t \in Handler, BeginRestored(t)
  PROVE  GateInv'
<1>1. /\ t \in Thread /\ thread[t] \in ThreadState /\ thread[t].pc = "begin"
      /\ HasPermit(thread[t]) /\ Running /\ thread[t].dest \in Conversation
      /\ UNCHANGED <<run, disk, loose, row, parked>>
  BY WorksWhileRunning DEF BeginRestored, Thread, HasPermit, runFile, OwnInv,
                           HandoffTypeOK, Fits
<1>2. CASE Leave(t) /\ UNCHANGED <<used, registered>>
  BY <1>1, <1>2, StillLeave
<1>3. ASSUME NEW j \in JobId, ~Reserved(thread[t].dest),
             registered' = [registered EXCEPT ![thread[t].dest] = j],
             thread' = [thread EXCEPT ![t].pc = "reopen", ![t].job = j]
      PROVE  GateInv'
  <2>1. PICK s \in ThreadState :
          /\ s.pc = "reopen" /\ s.dest = thread[t].dest /\ s.job = j
          /\ thread' = [thread EXCEPT ![t] = s]
    <3> DEFINE d == [thread[t] EXCEPT !.pc = "reopen", !.job = j]
    <3>1. d \in ThreadState /\ d.pc = "reopen" /\ d.dest = thread[t].dest /\ d.job = j
      BY <1>1 DEF ThreadState, Place
    <3>2. thread' = [thread EXCEPT ![t] = d]
      BY <1>1, <1>3 DEF OwnInv, HandoffTypeOK, ThreadState
    <3> HIDE DEF d
    <3> QED
      BY <3>1, <3>2
  <2>2. Calm(t, s)
    BY <1>1, <2>1 DEF Calm, Begins, Transfers, HasGate
  <2>3. registered[thread[t].dest] = NoId
    BY <1>3 DEF Reserved
  <2>4. run.owner = thread[t].dest => Nobody
    <3>1. ASSUME run.owner = thread[t].dest, NEW gate \in Gate PROVE ~GateWaits(gate)
      BY <2>3, <3>1 DEF GateWaits, Gate, HandoffAssumption
    <3>2. \A u \in Thread : HasGate(thread[u]) => thread[u].gate \in Gate
      BY DEF HasGate, OwnInv, HandoffTypeOK, ThreadState
    <3> QED
      BY <3>1, <3>2 DEF GateInv, OneHolder, OwnInv, HandoffTypeOK, MemoryFits, Nobody
  <2>5. Nobody => Nobody'
    BY <1>1, <2>1 DEF Nobody, HasGate, OwnInv, HandoffTypeOK
  <2>6. Knows(s)'
    <3>1. registered'[s.dest] = s.job
      BY <1>1, <1>3, <2>1 DEF OwnInv, HandoffTypeOK, MemoryFits
    <3> QED
      BY <1>1, <2>1, <2>4, <2>5, <3>1 DEF Knows, Transfers
  <2>7. Nobody \/ registered'[run.owner] = registered[run.owner]
    BY <1>3, <2>4 DEF OwnInv, HandoffTypeOK, MemoryFits, RunState
  <2>8. BothAreTold'
    <3>1. \A c \in Conversation : Eases(c)
      BY <1>1 DEF Eases
    <3>2. \A u \in Thread : thread'[u].pc = "clear" => thread[u].pc = "clear"
      BY <1>1, <2>1 DEF OwnInv, HandoffTypeOK
    <3> QED
      BY <1>1, <3>1, <3>2, ToldStays DEF GateInv, runFile
  <2> QED
    BY <1>1, <2>1, <2>2, <2>6, <2>7, <2>8, PermitSpares, GateStays
<1> QED
  BY <1>2, <1>3 DEF BeginRestored

(* A response that waits again, in the conversation that owns the run.     *)
LEMMA WaitingFacts ==
  ASSUME NEW m \in RowState, NEW job \in JobId
  PROVE  LET n == Waiting(m, job) IN
         /\ n.job = job /\ n.request = job /\ n.status = "Pending"
         /\ n.stored = m.stored /\ RowSound(n)
<1> DEFINE n == Waiting(m, job)
<1>1. /\ n.job = job /\ n.request = job /\ n.status = "Pending"
      /\ n.stored = m.stored
  BY DEF Waiting, RowState
<1>2. job # NoId
  BY DEF HandoffAssumption
<1> HIDE DEF n
<1>3. RowSound(n)
  BY <1>1, <1>2 DEF RowSound
<1> QED
  BY <1>1, <1>3 DEF n

LEMMA ReopenTold ==
  ASSUME OwnInv, BothAreTold, UNCHANGED runFile, run.journal = NoId,
         NEW job \in JobId, row' = [row EXCEPT ![run.owner] = Waiting(@, job)],
         \A t \in Thread : thread'[t].pc # "clear"
  PROVE  BothAreTold'
<1> DEFINE n == Waiting(row[run.owner], job)
<1>1. /\ UNCHANGED <<run, disk, loose>> /\ run \in RunState
      /\ run.owner \in Conversation /\ run.past \subseteq Conversation
      /\ row \in [Conversation -> RowState]
      /\ run = disk
  BY DEF runFile, OwnInv, HandoffTypeOK, RunState, FileFollows, Moved
<1>2. /\ n.job = job /\ n.request = job /\ n.stored = row[run.owner].stored
      /\ RowSound(n) /\ job # NoId
  BY <1>1, WaitingFacts DEF HandoffAssumption
<1>3. row' = [row EXCEPT ![run.owner] = n]
  OBVIOUS
<1> HIDE DEF n
<1>4. (\A c \in Conversation : RowSound(row[c]))'
  BY <1>1, <1>2, <1>3 DEF BothAreTold
<1>5. ASSUME NEW r \in loose \union {run, disk}
      PROVE  RowsTold(r)'
  <2>1. r.owner = run.owner /\ r.past = run.past /\ r.journal = NoId
    <3>1. CASE r \in loose
      <4>1. Follows(disk, r) /\ (Moved(disk, r) => r = run)
        BY <3>1 DEF OwnInv, FileFollows, BothAreTold
      <4> QED
        BY <1>1, <4>1 DEF Follows, Moved, Told, Decided, RunState
    <3> QED
      BY <1>1, <3>1
  <2>2. RowsTold(run)
    BY DEF BothAreTold
  <2>3. \A c \in r.past : row'[c] = row[c]
    BY <1>1, <1>3, <2>1, <2>2 DEF RowsTold
  <2>4. row'[r.owner].request # NoId
    BY <1>1, <1>2, <1>3, <2>1
  <2> QED
    BY <2>1, <2>2, <2>3, <2>4 DEF RowsTold
<1> QED
  BY <1>1, <1>4, <1>5 DEF BothAreTold

LEMMA ReopenGate ==
  ASSUME OwnInv, GateInv, NEW t \in Handler, Reopen(t)
  PROVE  GateInv'
<1> DEFINE dest == thread[t].dest
           job == thread[t].job
           stored == row' = [row EXCEPT ![dest] = Waiting(@, job)]
           allowed == run.owner = dest /\ ~run.decided /\ run.journal = NoId
           released == registered' = [registered EXCEPT ![dest] = NoId]
<1>1. /\ t \in Thread /\ thread[t] \in ThreadState /\ thread[t].pc = "reopen"
      /\ HasPermit(thread[t]) /\ Running /\ dest \in Conversation /\ job \in JobId
      /\ UNCHANGED <<run, disk, loose, parked>> /\ Knows(thread[t])
      /\ \A u \in Thread : thread[u].pc # "clear"
  BY WorksWhileRunning DEF Reopen, Thread, HasPermit, runFile, OwnInv,
                           HandoffTypeOK, Fits, GateInv, Unlocked
<1>2. run.owner = dest => Nobody
  BY <1>1 DEF Knows
<1>3. \A u \in Thread : u # t => Spared(u)
  BY <1>1, PermitSpares
<1>4. CASE allowed /\ stored /\ Goto(t, "attach") /\ UNCHANGED registered
  <2>1. PICK s \in ThreadState :
          /\ s.pc = "attach" /\ s.dest = dest /\ s.job = job
          /\ thread' = [thread EXCEPT ![t] = s]
    <3>1. "attach" \in Place
      BY DEF Place
    <3> QED
      BY <1>1, <1>4, <3>1, Goes
  <2>2. Calm(t, s)
    BY <1>1, <2>1 DEF Calm, Begins, Transfers, HasGate
  <2>3. BothAreTold'
    <3>1. \A u \in Thread : thread'[u].pc # "clear"
      BY <1>1, <2>1 DEF OwnInv, HandoffTypeOK
    <3> QED
      BY <1>1, <1>4, <3>1, ReopenTold DEF GateInv, runFile
  <2>4. Nobody /\ Nobody'
    BY <1>1, <1>2, <1>4, <2>1 DEF Nobody, HasGate, OwnInv, HandoffTypeOK
  <2>5. Knows(s)'
    <3>1. row'[dest].job = job
      BY <1>1, <1>4, WaitingFacts DEF OwnInv, HandoffTypeOK
    <3>2. registered'[dest] = job
      BY <1>1, <1>4 DEF Knows
    <3> QED
      BY <1>1, <1>4, <2>1, <2>4, <3>1, <3>2 DEF Knows, Transfers
  <2> QED
    BY <1>1, <1>3, <2>1, <2>2, <2>3, <2>4, <2>5, GateStays
<1>5. CASE Leave(t) /\ released /\ (UNCHANGED row \/ (allowed /\ stored))
  <2>1. \A u \in Thread : thread'[u].pc # "clear"
    BY <1>1, <1>5, IdleKnows DEF Leave, OwnInv, HandoffTypeOK
  <2>2. BothAreTold'
    <3>1. CASE UNCHANGED row
      <4>1. \A c \in Conversation : Eases(c)
        BY <3>1 DEF Eases
      <4> QED
        BY <1>1, <2>1, <3>1, <4>1, ToldStays DEF GateInv, runFile
    <3>2. CASE allowed /\ stored
      BY <1>1, <2>1, <3>2, ReopenTold DEF GateInv, runFile
    <3> QED
      BY <1>5, <3>1, <3>2
  <2>3. Nobody \/ /\ registered'[run.owner] = registered[run.owner]
                  /\ row'[run.owner].job = row[run.owner].job
    BY <1>1, <1>2, <1>5 DEF OwnInv, HandoffTypeOK, MemoryFits, RunState
  <2>4. Leave(t) /\ thread[t].pc # "idle"
    BY <1>1, <1>5
  <2> QED
    BY <1>1, <1>3, <2>2, <2>3, <2>4, CalmLeave
<1> QED
  BY <1>4, <1>5 DEF Reopen, Recoverable

LEMMA TakeGateGate ==
  ASSUME OwnInv, GateInv, NEW t \in Handler, TakeGate(t)
  PROVE  GateInv'
<1>1. /\ t \in Thread /\ t # Startup /\ Startup \in Thread /\ Running
      /\ thread[t] = Idle /\ parked # NoId /\ parked' = NoId
      /\ UNCHANGED <<run, disk, loose, registered, row>>
  BY DEF TakeGate, Thread, runFile, HandoffAssumption
<1>2. PICK s \in ThreadState :
        /\ s.pc = "decide" /\ s.gate = parked
        /\ thread' = [thread EXCEPT ![t] = s]
  <2> DEFINE d == [Idle EXCEPT !.pc = "decide", !.kind = "decide", !.gate = parked,
                               !.dest = parked.conversation]
  <2>1. parked \in Gate /\ parked.conversation \in Conversation
    BY <1>1 DEF OwnInv, HandoffTypeOK, MemoryFits, Gate
  <2>2. d \in ThreadState /\ d.pc = "decide" /\ d.gate = parked
    BY <2>1 DEF Idle, ThreadState, Place, Kind
  <2>3. thread' = [thread EXCEPT ![t] = d]
    BY DEF TakeGate
  <2> HIDE DEF d
  <2> QED
    BY <2>2, <2>3
<1>3. /\ thread'[t] = s
      /\ \A u \in Thread : u # t => thread'[u] = thread[u]
  BY <1>1, <1>2 DEF OwnInv, HandoffTypeOK
<1>4. /\ \A u \in Thread : ~HasGate(thread[u])
      /\ GateWaits(parked)
  BY <1>1 DEF GateInv, OneHolder
<1>5. OneHolder'
  <2>1. GateWaits(s.gate)' /\ parked' = NoId
    BY <1>1, <1>2, <1>4 DEF GateWaits
  <2>2. \A u \in Thread : HasGate(thread'[u]) => u = t
    BY <1>3, <1>4
  <2> QED
    BY <1>3, <2>1, <2>2 DEF OneHolder
<1>6. OnePermit'
  BY <1>2, <1>3 DEF GateInv, OnePermit, Thread, HasPermit
<1>7. StartsAlone'
  BY <1>1, <1>3 DEF StartsAlone, Running
<1>8. OwnDestination'
  BY <1>2, <1>3 DEF GateInv, OwnDestination, Begins, Transfers
<1>9. (\A u \in Thread : Knows(thread[u]))'
  <2>1. ASSUME NEW u \in Thread, u # t PROVE Knows(thread[u])'
    BY <1>1, <1>3, <2>1 DEF GateInv, Knows, Nobody, Committed, Owners
  <2>2. Knows(thread[t])'
    BY <1>2, <1>3 DEF Knows, Transfers
  <2> QED
    BY <2>1, <2>2
<1>10. BothAreTold'
  <2>1. \A c \in Conversation : Eases(c)
    BY <1>1 DEF Eases
  <2>2. \A u \in Thread : thread'[u].pc = "clear" => thread[u].pc = "clear"
    BY <1>2, <1>3
  <2> QED
    BY <1>1, <2>1, <2>2, ToldStays DEF GateInv, runFile
<1> QED
  BY <1>5, <1>6, <1>7, <1>8, <1>9, <1>10 DEF GateInv

(* The decision changes what the file says of the run, and nothing that    *)
(* either side has to be told.                                             *)
LEMMA DecidedIsTold ==
  ASSUME OwnInv, BothAreTold, UNCHANGED row, run.journal = NoId,
         NEW next \in RunState, next.journal = NoId,
         next.owner = run.owner, next.past = run.past,
         \/ disk' = next /\ loose' = {} /\ run' = next
         \/ disk' = disk /\ loose' \subseteq loose \union {next} /\ run' = run,
         \A t \in Thread : thread'[t].pc # "clear"
  PROVE  BothAreTold'
<1>1. run = disk
  BY DEF OwnInv, FileFollows, Moved
<1>2. RowsTold(run) /\ \A r \in loose \union {disk} : RowsTold(r)
  BY DEF BothAreTold
<1>3. RowsTold(next)
  BY <1>2 DEF RowsTold
<1>4. \A r : RowsTold(r) => RowsTold(r)'
  BY DEF RowsTold
<1>5. (\A r \in loose \union {run, disk} : RowsTold(r))'
  BY <1>2, <1>3, <1>4
<1>6. (\A c \in Conversation : RowSound(row[c]))'
  BY DEF BothAreTold
<1>7. (\A l \in loose : Moved(disk, l) => l = run)'
  BY DEF BothAreTold, Moved
<1> QED
  BY <1>1, <1>5, <1>6, <1>7 DEF BothAreTold

LEMMA DecideGateGate ==
  ASSUME OwnInv, GateInv, NEW t \in Handler, DecideGate(t)
  PROVE  GateInv'
<1> DEFINE next == [run EXCEPT !.decided = TRUE]
<1>1. /\ t \in Thread /\ thread[t] \in ThreadState /\ t # Startup
      /\ Startup \in Thread /\ Running
      /\ thread[t].pc = "decide" /\ thread[t].gate \in Gate /\ thread[t].gate # NoId
      /\ UNCHANGED <<row, registered>> /\ run \in RunState
  BY WorksWhileRunning DEF DecideGate, Thread, OwnInv, HandoffTypeOK, Fits,
                           HandoffAssumption
<1>2. /\ HasGate(thread[t]) /\ GateWaits(thread[t].gate) /\ parked = NoId
      /\ \A u \in Thread : HasGate(thread[u]) => u = t
  BY <1>1 DEF HasGate, GateInv, OneHolder
<1>3. run.journal = NoId /\ ~run.decided /\ ~Nobody
  BY <1>1, <1>2 DEF GateWaits, Nobody
<1>4. /\ next \in RunState /\ next.owner = run.owner /\ next.past = run.past
      /\ next.journal = NoId /\ next.decided
  BY <1>1, <1>3 DEF RunState
<1>5. \A u \in Thread : thread[u].pc # "clear"
  BY <1>3 DEF OwnInv, LockedFile, Locks
<1>6. ASSUME NEW s \in {"end", "idle"}, thread'[t].pc = s,
             \A u \in Thread : u # t => thread'[u] = thread[u],
             Owners(run') = Owners(run), run'.owner = run.owner,
             run.decided => run'.decided,
             s = "end" => run'.decided,
             OneHolder', BothAreTold'
      PROVE  GateInv'
  <2>1. OnePermit'
    BY <1>1, <1>6 DEF GateInv, OnePermit, Thread, HasPermit
  <2>2. StartsAlone'
    BY <1>1, <1>6 DEF StartsAlone, Running
  <2>3. OwnDestination'
    BY <1>6 DEF GateInv, OwnDestination, Begins, Transfers
  <2>4. (\A u \in Thread : Knows(thread[u]))'
    <3>1. ASSUME NEW u \in Thread, u # t PROVE Knows(thread[u])'
      <4>1. /\ Knows(thread[u]) /\ thread'[u] = thread[u]
        BY <1>6, <3>1 DEF GateInv
      <4>2. /\ thread[u].pc # "attach"
            /\ thread[u].pc = "reopen" => run.owner # thread[u].dest
            /\ thread[u].pc = "settle" => thread[u].kind = "transfer"
            /\ ~(thread[u].pc \in {"flush", "project", "clear", "settle"}
                   /\ thread[u].kind = "transfer")
        BY <1>3, <4>1 DEF Knows, Committed
      <4> QED
        BY <1>1, <1>6, <4>1, <4>2 DEF Knows, Owners
    <3>2. Knows(thread[t])'
      BY <1>6 DEF Knows, Transfers
    <3> QED
      BY <3>1, <3>2
  <2> QED
    BY <1>6, <2>1, <2>2, <2>3, <2>4 DEF GateInv
<1>7. CASE Mutated(next) /\ Goto(t, "end") /\ UNCHANGED parked
  <2>1. /\ thread'[t].pc = "end"
        /\ \A u \in Thread : u # t => thread'[u] = thread[u]
    BY <1>1, <1>7 DEF Goto, OwnInv, HandoffTypeOK, ThreadState
  <2>2. disk' = next /\ loose' = {} /\ run' = next
    BY <1>7 DEF Mutated, FileStored
  <2> HIDE DEF next
  <2>3. OneHolder'
    BY <1>2, <1>7, <2>1 DEF OneHolder, HasGate
  <2>4. BothAreTold'
    <3>1. \A u \in Thread : thread'[u].pc # "clear"
      BY <1>5, <2>1
    <3> QED
      BY <1>1, <1>3, <1>4, <2>2, <3>1, DecidedIsTold DEF GateInv
  <2>5. Owners(run') = Owners(run) /\ run'.owner = run.owner /\ run'.decided
    BY <1>4, <2>2 DEF Owners
  <2> QED
    BY <1>6, <2>1, <2>3, <2>4, <2>5
<1>8. CASE MutateRefused(next) /\ PutBack(thread[t].gate) /\ Leave(t)
  <2>1. /\ thread'[t] = Idle
        /\ \A u \in Thread : u # t => thread'[u] = thread[u]
    BY <1>1, <1>8 DEF Leave, OwnInv, HandoffTypeOK
  <2>2. disk' = disk /\ loose' \subseteq loose \union {next} /\ run' = run
    BY <1>8 DEF MutateRefused, FileUnchanged, FileReplaced
  <2> HIDE DEF next
  <2>3. parked' = thread[t].gate
    BY <1>1, <1>8 DEF PutBack
  <2>4. OneHolder'
    <3>1. GateWaits(parked)'
      BY <1>1, <1>2, <2>2, <2>3 DEF GateWaits
    <3>2. \A u \in Thread : ~HasGate(thread'[u])
      BY <1>2, <2>1, IdleKnows
    <3> QED
      BY <3>1, <3>2 DEF OneHolder
  <2>5. BothAreTold'
    <3>1. \A u \in Thread : thread'[u].pc # "clear"
      BY <1>5, <2>1, IdleKnows
    <3> QED
      BY <1>1, <1>3, <1>4, <2>2, <3>1, DecidedIsTold DEF GateInv
  <2> QED
    BY <1>6, <2>1, <2>2, <2>4, <2>5, IdleKnows
<1> QED
  BY <1>3, <1>7, <1>8 DEF DecideGate

LEMMA EndWorkGate ==
  ASSUME OwnInv, GateInv, NEW t \in Handler, EndWork(t)
  PROVE  GateInv'
<1> DEFINE c == thread[t].dest
           job == thread[t].gate.job
           n == [row[c] EXCEPT !.job = NoId, !.status = "Complete",
                               !.revision = @ + 1]
<1>1. /\ t \in Thread /\ thread[t].pc = "end" /\ c \in Conversation
      /\ Leave(t) /\ UNCHANGED <<run, disk, loose, parked>>
      /\ registered' = [registered EXCEPT ![c] = IF @ = job THEN NoId ELSE @]
      /\ row[c] \in RowState
  BY DEF EndWork, Thread, OwnInv, HandoffTypeOK, Fits, runFile
<1>2. row' = row \/ row' = [row EXCEPT ![c] = n]
  <2>1. row' = row \/ row' = [row EXCEPT ![c].job = NoId, ![c].status = "Complete",
                                         ![c].revision = @ + 1]
    BY DEF EndWork
  <2> QED
    BY <1>1, <2>1 DEF OwnInv, HandoffTypeOK, RowState
<1>3. /\ n.job = NoId /\ n.status = "Complete" /\ n.stored = row[c].stored
      /\ n.request = row[c].request
  BY <1>1 DEF RowState
<1> HIDE DEF n
<1>4. run.decided /\ Nobody
  BY <1>1 DEF GateInv, Knows, OneHolder, GateWaits, Nobody
<1>5. \A d \in Conversation : Eases(d)
  BY <1>1, <1>2, <1>3 DEF Eases, RowSound, Settled, OwnInv, HandoffTypeOK
<1>6. \A u \in Thread : thread[u].pc \notin {"flush", "project", "clear"}
  BY DEF EndWork, Unlocked
<1>7. BothAreTold'
  <2>1. \A u \in Thread : thread'[u].pc # "clear"
    BY <1>1, <1>6, IdleKnows DEF Leave, OwnInv, HandoffTypeOK
  <2> QED
    BY <1>1, <1>5, <1>6, <2>1, ToldStays DEF GateInv, runFile
<1>8. \A u \in Thread : Spared(u)
  <2>1. \A d \in Conversation : registered[d] = NoId => registered'[d] = NoId
    BY <1>1 DEF OwnInv, HandoffTypeOK, MemoryFits
  <2>2. \A u \in Thread : Transfers(thread[u]) => thread[u].run.owner \in Conversation
    BY DEF OwnInv, HandoffTypeOK, Fits, RunState
  <2> QED
    BY <1>4, <1>6, <2>1, <2>2 DEF Spared, Transfers
<1> QED
  BY <1>1, <1>4, <1>7, <1>8, CalmLeave

(* A step of no thread, on rows that keep their jobs.                      *)
LEMMA RestGate ==
  ASSUME OwnInv, GateInv, UNCHANGED <<run, disk, loose, thread, parked, registered>>,
         \A c \in Conversation : Eases(c),
         UNCHANGED row \/ \A t \in Thread : thread[t].pc \notin {"flush", "project", "clear"},
         \A c \in Conversation : row'[c].job = row[c].job
  PROVE  GateInv'
<1>1. \A t \in Thread : thread[t].dest \in Conversation \union {NoId}
  BY DEF OwnInv, HandoffTypeOK, ThreadState
<1>2. run.owner \in Conversation
  BY DEF OwnInv, HandoffTypeOK, RunState
<1>3. Nobody' <=> Nobody
  BY DEF Nobody
<1>4. \A gate : GateWaits(gate) => GateWaits(gate)'
  BY <1>2 DEF GateWaits
<1>5. OneHolder'
  BY <1>4 DEF GateInv, OneHolder, GateWaits
<1>6. OnePermit' /\ StartsAlone' /\ OwnDestination'
  BY DEF GateInv, OnePermit, StartsAlone, OwnDestination, Running
<1>7. (\A t \in Thread : Knows(thread[t]))'
  <2>1. ASSUME NEW u \in Thread PROVE Knows(thread[u])'
    <3>1. Spared(u)
      BY <1>2 DEF Spared
    <3> QED
      BY <1>3, <3>1, OthersKnow DEF GateInv
  <2> QED
    BY <2>1
<1>8. BothAreTold'
  BY ToldStays DEF GateInv, runFile
<1> QED
  BY <1>5, <1>6, <1>7, <1>8 DEF GateInv

LEMMA RenameGate ==
  ASSUME OwnInv, GateInv, NEW c \in Conversation, Rename(c)
  PROVE  GateInv'
<1> DEFINE n == [row[c] EXCEPT !.revision = @ + 1]
<1>1. /\ n.job = row[c].job /\ n.status = row[c].status
      /\ n.request = row[c].request /\ n.stored = row[c].stored
  BY DEF OwnInv, HandoffTypeOK, RowState
<1>2. row' = [row EXCEPT ![c] = n]
  BY DEF Rename
<1> HIDE DEF n
<1>3. \A d \in Conversation : Eases(d) /\ row'[d].job = row[d].job
  BY <1>1, <1>2 DEF Eases, RowSound, Settled, OwnInv, HandoffTypeOK, GateInv, BothAreTold
<1>4. UNCHANGED <<run, disk, loose, thread, parked, registered>>
  BY DEF Rename, runFile, memory
<1>5. \A t \in Thread : thread[t].pc \notin {"flush", "project", "clear"}
  BY DEF Rename, Unlocked
<1> QED
  BY <1>3, <1>4, <1>5, RestGate

LEMMA StillGate ==
  ASSUME OwnInv, GateInv,
         UNCHANGED <<row, run, disk, loose, thread, parked, registered>>
  PROVE  GateInv'
<1>1. \A c \in Conversation : Eases(c)
  BY DEF Eases
<1> QED
  BY <1>1, RestGate

LEMMA InterruptRequestsGate ==
  ASSUME OwnInv, GateInv, InterruptRequests
  PROVE  GateInv'
<1> DEFINE n(c) == [row[c] EXCEPT !.job = NoId, !.revision = @ + 1,
                                  !.status = "Interrupted"]
<1>1. ASSUME NEW c \in Conversation
      PROVE  /\ n(c).job = NoId /\ n(c).status = "Interrupted"
             /\ n(c).request = row[c].request /\ n(c).stored = row[c].stored
  BY DEF OwnInv, HandoffTypeOK, RowState
<1>2. row' = [c \in Conversation |-> IF row[c].job = NoId THEN row[c] ELSE n(c)]
  BY DEF InterruptRequests
<1> HIDE DEF n
<1>3. \A c \in Conversation : Eases(c)
  BY <1>1, <1>2 DEF Eases, RowSound, Settled
<1>4. /\ Startup \in Thread /\ ~Running /\ Leave(Startup) /\ thread[Startup].pc = "interrupt"
      /\ UNCHANGED <<run, disk, loose, parked, registered>>
  BY IdleKnows DEF InterruptRequests, Thread, Running, runFile, memory
<1>5. Nobody /\ \A h \in Handler : thread[h] = Idle
  BY <1>4, IdleKnows DEF GateInv, StartsAlone, Nobody, Thread, HasGate
<1>6. Calm(Startup, Idle) /\ Knows(Idle)'
  BY <1>4, IdleKnows DEF Calm, Leave, Knows, Transfers, HandoffAssumption
<1>7. BothAreTold'
  <2>1. \A t \in Thread : thread[t].pc # "clear"
    BY <1>4, <1>5, IdleKnows DEF Thread
  <2>2. \A t \in Thread : thread'[t].pc # "clear"
    BY <1>4, <2>1, IdleKnows DEF Leave, OwnInv, HandoffTypeOK
  <2> QED
    BY <1>3, <1>4, <2>1, <2>2, ToldStays DEF GateInv, runFile
<1> QED
  BY <1>4, <1>5, <1>6, <1>7, IdleFits, MainSpares, GateStays

(* The worker on the journal.                                              *)
LEMMA WorkerFacts ==
  ASSUME OwnInv, GateInv, NEW t \in Thread, Locks(thread[t])
  PROVE  /\ thread[t] \in ThreadState /\ Fits(thread[t]) /\ Knows(thread[t])
         /\ run.journal \in Journal /\ run.journal # NoId /\ Nobody
         /\ run.journal.job # NoId
         /\ (t = Startup /\ ~Running) \/ (t \in Handler /\ Running)
         /\ t \in Handler => HasPermit(thread[t])
         /\ \A u \in Thread : u # t => Spared(u) /\ ~HasPermit(thread[u])
<1>1. /\ thread[t] \in ThreadState /\ Fits(thread[t]) /\ Knows(thread[t])
      /\ run.journal # NoId /\ run.journal \in Journal
  BY DEF OwnInv, HandoffTypeOK, LockedFile, GateInv, RunState
<1>2. Nobody
  BY <1>1 DEF GateInv, OneHolder, GateWaits, Nobody
<1>3. HasPermit(thread[t]) /\ thread[t].pc # "idle"
  BY DEF Locks, HasPermit
<1>4. (t = Startup /\ ~Running) \/ (t \in Handler /\ Running)
  BY <1>3, WorksWhileRunning, IdleKnows DEF Thread, Running
<1>5. \A u \in Thread : u # t => ~HasPermit(thread[u])
  BY <1>3, <1>4, IdleKnows DEF GateInv, OnePermit, StartsAlone, Thread, Running
<1>6. run.journal.job # NoId
  BY <1>1 DEF Journal, HandoffAssumption
<1> QED
  BY <1>1, <1>2, <1>3, <1>4, <1>5, <1>6, OutsideSpared

LEMMA GiveUpGate ==
  ASSUME OwnInv, GateInv, UNCHANGED <<run, parked, registered>>,
         NEW t \in Thread, Locks(thread[t]), GiveUp(t), BothAreTold'
  PROVE  GateInv'
<1>1. /\ thread[t] \in ThreadState /\ Fits(thread[t]) /\ Knows(thread[t])
      /\ run.journal # NoId /\ Nobody
      /\ (t = Startup /\ ~Running) \/ (t \in Handler /\ Running)
      /\ t \in Handler => HasPermit(thread[t])
      /\ \A u \in Thread : u # t => Spared(u)
  BY WorkerFacts
<1>2. CASE thread[t].kind = "restore"
  <2>1. Calm(t, Idle) /\ Knows(Idle)'
    BY <1>1, <1>2, IdleKnows DEF GiveUp, Leave, Calm, Knows, Transfers
  <2> QED
    BY <1>1, <2>1, IdleFits, GateStays
<1>3. CASE thread[t].kind \in {"transfer", "start"}
  <2>1. PICK s \in ThreadState :
          /\ \/ thread[t].kind = "transfer" /\ s.pc = "settle"
             \/ thread[t].kind = "start" /\ s.pc = "down"
          /\ s.kind = thread[t].kind /\ s.dest = thread[t].dest
          /\ s.job = thread[t].job /\ s.gate = thread[t].gate
          /\ thread' = [thread EXCEPT ![t] = s]
    <3>1. "settle" \in Place /\ "down" \in Place
      BY DEF Place
    <3>2. CASE thread[t].kind = "transfer"
      <4>1. Goto(t, "settle")
        BY <3>2 DEF GiveUp
      <4> QED
        BY <3>1, <3>2, <4>1, Goes
    <3>3. CASE thread[t].kind = "start"
      <4>1. Goto(t, "down")
        BY <3>3 DEF GiveUp
      <4> QED
        BY <3>1, <3>3, <4>1, Goes
    <3> QED
      BY <1>3, <3>2, <3>3
  <2>2. Calm(t, s)
    BY <1>1, <2>1 DEF Calm, Begins, Transfers, HasGate
  <2>3. Nobody'
    BY <1>1, <2>1 DEF Nobody, HasGate, OwnInv, HandoffTypeOK
  <2>4. s.pc = "settle" => Committed(s)'
    BY <1>1, <2>1, <2>3 DEF Knows, Committed, Locks
  <2>5. Knows(s)'
    BY <2>1, <2>4 DEF Knows, Transfers
  <2> QED
    BY <1>1, <2>1, <2>2, <2>5, GateStays
<1> QED
  BY <1>1, <1>2, <1>3 DEF Fits

LEMMA FlushGate ==
  ASSUME OwnInv, GateInv, NEW t \in Thread, Flush(t)
  PROVE  GateInv'
<1>1. /\ thread[t].pc = "flush" /\ Locks(thread[t])
      /\ UNCHANGED <<run, parked, registered, row>>
  BY DEF Flush, Locks, memory
<1>2. /\ thread[t] \in ThreadState /\ Fits(thread[t]) /\ Knows(thread[t])
      /\ run.journal # NoId /\ Nobody
      /\ (t = Startup /\ ~Running) \/ (t \in Handler /\ Running)
      /\ t \in Handler => HasPermit(thread[t])
      /\ \A u \in Thread : u # t => Spared(u) /\ ~HasPermit(thread[u])
  BY <1>1, WorkerFacts
<1>3. ASSUME \/ disk' = run /\ loose' = {}
             \/ disk' = disk /\ loose' \subseteq loose \union {run},
                loose \subseteq loose' \/ disk' = run,
             \A u \in Thread : thread'[u].pc # "clear"
      PROVE  BothAreTold'
  <2>1. \A r : RowsTold(r) => RowsTold(r)'
    BY <1>1 DEF RowsTold
  <2>2. (\A r \in loose \union {run, disk} : RowsTold(r))'
    BY <1>1, <1>3, <2>1 DEF GateInv, BothAreTold
  <2>3. (\A c \in Conversation : RowSound(row[c]))'
    BY <1>1 DEF GateInv, BothAreTold
  <2>4. (\A l \in loose : Moved(disk, l) => l = run)' /\ (run # disk => run \in loose)'
    BY <1>1, <1>3 DEF GateInv, BothAreTold, Moved
  <2> QED
    BY <1>3, <2>2, <2>3, <2>4 DEF BothAreTold
<1>4. \A u \in Thread : u # t => thread[u].pc # "clear"
  BY <1>2 DEF HasPermit
<1>5. CASE FileStored(run) /\ Goto(t, "project")
  <2>1. PICK s \in ThreadState :
          /\ s.pc = "project" /\ s.kind = thread[t].kind
          /\ s.dest = thread[t].dest /\ s.job = thread[t].job
          /\ s.gate = thread[t].gate
          /\ thread' = [thread EXCEPT ![t] = s]
    <3>1. "project" \in Place
      BY DEF Place
    <3> QED
      BY <1>5, <3>1, Goes
  <2>2. Calm(t, s)
    BY <1>2, <2>1 DEF Calm, Begins, Transfers, HasGate
  <2>3. Nobody'
    BY <1>1, <1>2, <2>1 DEF Nobody, HasGate, OwnInv, HandoffTypeOK
  <2>4. s.kind = "transfer" => Committed(s)'
    BY <1>1, <1>2, <2>1, <2>3 DEF Knows, Committed
  <2>5. Knows(s)'
    BY <2>1, <2>4 DEF Knows, Transfers
  <2>6. BothAreTold'
    <3>1. \A u \in Thread : thread'[u].pc # "clear"
      BY <1>4, <2>1 DEF OwnInv, HandoffTypeOK
    <3> QED
      BY <1>3, <1>5, <3>1 DEF FileStored
  <2> QED
    BY <1>1, <1>2, <2>1, <2>2, <2>5, <2>6, GateStays
<1>6. CASE (FileUnchanged \/ FileReplaced(run)) /\ GiveUp(t)
  <2>1. PICK s \in ThreadState : ~Locks(s) /\ thread' = [thread EXCEPT ![t] = s]
    BY <1>1, <1>6, GivesUp
  <2>2. BothAreTold'
    <3>1. \A u \in Thread : thread'[u].pc # "clear"
      BY <1>4, <2>1 DEF OwnInv, HandoffTypeOK, Locks
    <3> QED
      BY <1>3, <1>6, <3>1 DEF FileUnchanged, FileReplaced
  <2> QED
    BY <1>1, <1>6, <2>2, GiveUpGate
<1> QED
  BY <1>5, <1>6 DEF Flush

(* What the transaction makes of both conversations.                       *)
LEMMA HandedOnFacts ==
  ASSUME NEW m \in RowState, NEW job
  PROVE  LET n == HandedOn(m, job) IN
         /\ n.status = "Complete" /\ n.request = m.request
         /\ n.stored = m.stored
         /\ n.job = IF m.job = job THEN NoId ELSE m.job
<1> DEFINE a == [m EXCEPT !.status = "Complete"]
           k == IF m.job = job THEN NoId ELSE m.job
           b == [a EXCEPT !.job = k]
           c == [b EXCEPT !.revision = @ + 1]
<1>1. /\ a.status = "Complete" /\ a.request = m.request /\ a.stored = m.stored
      /\ a.job = m.job /\ a \in RowState
  BY DEF RowState
<1>2. HandedOn(m, job) = c
  BY DEF HandedOn
<1>3. k \in JobId \union {NoId}
  BY DEF RowState
<1> HIDE DEF a, k
<1>4. /\ b.status = "Complete" /\ b.request = m.request /\ b.stored = m.stored
      /\ b.job = k /\ b \in RowState
  BY <1>1, <1>3 DEF RowState
<1> HIDE DEF b
<1>5. /\ c.status = "Complete" /\ c.request = m.request /\ c.stored = m.stored
      /\ c.job = k
  BY <1>4 DEF RowState
<1> QED
  BY <1>2, <1>5 DEF k

LEMMA ProjectedFacts ==
  ASSUME OwnInv, BothAreTold, run.journal # NoId
  PROVE  LET next == Projected(row, run.owner, run.journal) IN
         /\ run.owner \in Conversation /\ run.journal.source \in run.past
         /\ run.owner \notin run.past /\ run.past \subseteq Conversation
         /\ RowSound(next[run.owner])
         /\ next[run.owner].request = run.journal.job
         /\ row[run.owner].request # run.journal.job
              => next[run.owner].job = run.journal.job
         /\ Settled(next[run.journal.source])
         /\ \A c \in Conversation :
               c \notin {run.owner, run.journal.source} => next[c] = row[c]
<1> DEFINE p == run.journal
           src == p.source
           one == [row EXCEPT ![run.owner] =
                      IF Delivered(row, run.owner, p) THEN @ ELSE Waiting(@, p.job)]
           next == [one EXCEPT ![src] =
                       IF PassesOn(@, p) THEN HandedOn(@, p.sourceJob) ELSE @]
<1>1. /\ run \in RunState /\ p \in Journal /\ row \in [Conversation -> RowState]
      /\ RowsTold(run)
  BY DEF OwnInv, HandoffTypeOK, RunState, BothAreTold
<1>2. /\ run.owner \in Conversation /\ src \in Conversation /\ p.job \in JobId
      /\ run.past \subseteq Conversation
      /\ src \in run.past /\ run.owner \notin run.past /\ src # run.owner
  BY <1>1 DEF RunState, Journal, RowsTold
<1>3. /\ row[run.owner] \in RowState /\ row[src] \in RowState
      /\ RowSound(row[run.owner]) /\ RowSound(row[src])
      /\ row[src].job \in {NoId, p.sourceJob}
  BY <1>1, <1>2 DEF BothAreTold, RowsTold
<1>4. Projected(row, run.owner, p) = next
  BY DEF Projected
<1>5. /\ one[run.owner] = IF Delivered(row, run.owner, p) THEN row[run.owner]
                          ELSE Waiting(row[run.owner], p.job)
      /\ \A c \in Conversation : c # run.owner => one[c] = row[c]
      /\ one \in [Conversation -> {one[c] : c \in Conversation}]
  BY <1>1, <1>2
<1>6. /\ next[run.owner] = one[run.owner]
      /\ next[src] = IF PassesOn(row[src], p) THEN HandedOn(row[src], p.sourceJob)
                     ELSE row[src]
      /\ \A c \in Conversation : c \notin {run.owner, src} => next[c] = row[c]
  BY <1>2, <1>5
<1> HIDE DEF one, next
<1>7. /\ RowSound(next[run.owner])
      /\ next[run.owner].request = p.job
      /\ row[run.owner].request # p.job => next[run.owner].job = p.job
  BY <1>2, <1>3, <1>5, <1>6, WaitingFacts DEF Delivered
<1>8. Settled(next[src])
  <2>1. CASE PassesOn(row[src], p)
    BY <1>3, <1>6, <2>1, HandedOnFacts DEF Settled
  <2>2. CASE ~PassesOn(row[src], p)
    <3>1. row[src].status \in {"none", "Pending", "Complete", "Interrupted"}
      BY <1>3 DEF RowState
    <3>2. row[src].job = NoId
      BY <1>3, <2>2, <3>1 DEF PassesOn, RowSound
    <3> QED
      BY <1>3, <1>6, <2>2, <3>2 DEF RowSound, Settled
  <2> QED
    BY <2>1, <2>2
<1> QED
  BY <1>2, <1>4, <1>6, <1>7, <1>8

LEMMA ProjectTold ==
  ASSUME OwnInv, BothAreTold, UNCHANGED runFile, run = disk, run.journal # NoId,
         row' \in {row, Projected(row, run.owner, run.journal)},
         \A t \in Thread : thread'[t].pc = "clear"
                 => row' = Projected(row, run.owner, run.journal)
  PROVE  BothAreTold'
<1> DEFINE next == Projected(row, run.owner, run.journal)
           src == run.journal.source
<1>1. /\ UNCHANGED <<run, disk, loose>>
      /\ run \in RunState /\ run.journal \in Journal
  BY DEF runFile, OwnInv, HandoffTypeOK, RunState
<1>2. /\ run.owner \in Conversation /\ src \in run.past
      /\ run.owner \notin run.past /\ run.past \subseteq Conversation
      /\ RowSound(next[run.owner])
      /\ next[run.owner].request = run.journal.job
      /\ Settled(next[src])
      /\ \A c \in Conversation : c \notin {run.owner, src} => next[c] = row[c]
  BY ProjectedFacts
<1> HIDE DEF next
<1>3. run.journal.job # NoId
  BY <1>1 DEF Journal, HandoffAssumption
<1>4. (\A c \in Conversation : RowSound(row[c]))'
  BY <1>2 DEF BothAreTold, RowSound, Settled, next
<1>5. ASSUME NEW r \in loose \union {run, disk}
      PROVE  RowsTold(r)'
  <2>1. r = run \/ Told(run, r)
    BY DEF OwnInv, FileFollows, Follows, Moved, Decided
  <2>2. r.owner = run.owner /\ r.past = run.past /\ r.journal \in {NoId, run.journal}
    BY <1>1, <2>1 DEF Told, RunState
  <2>3. RowsTold(r)
    BY DEF BothAreTold
  <2>4. CASE row' = row
    BY <2>3, <2>4 DEF RowsTold
  <2>5. CASE row' = next
    <3>1. \A c \in r.past \ {src} : row'[c] = row[c]
      BY <1>2, <2>2, <2>5
    <3>2. Settled(row'[src]) /\ row'[r.owner].request # NoId
      BY <1>2, <1>3, <2>2, <2>5
    <3>3. RowsTold(run)
      BY DEF BothAreTold
    <3>4. \A c \in r.past : Settled(row'[c])
      BY <2>2, <3>1, <3>2, <3>3 DEF RowsTold
    <3> QED
      BY <1>2, <2>2, <3>2, <3>4 DEF RowsTold, Settled
  <2> QED
    BY <2>4, <2>5 DEF next
<1>6. (\A t \in Thread : thread[t].pc = "clear" => JournalIsDone)'
  BY <1>1, <1>2 DEF JournalIsDone, next
<1> QED
  BY <1>1, <1>4, <1>5, <1>6 DEF BothAreTold

LEMMA ProjectGate ==
  ASSUME OwnInv, GateInv, NEW t \in Thread, Project(t)
  PROVE  GateInv'
<1> DEFINE next == Projected(row, run.owner, run.journal)
<1>1. /\ thread[t].pc = "project" /\ Locks(thread[t])
      /\ UNCHANGED <<run, disk, loose, parked, registered>>
      /\ run = disk
  BY DEF Project, Locks, memory, runFile, OwnInv, LockedFile
<1>2. /\ thread[t] \in ThreadState /\ Fits(thread[t]) /\ Knows(thread[t])
      /\ run.journal # NoId /\ Nobody
      /\ (t = Startup /\ ~Running) \/ (t \in Handler /\ Running)
      /\ t \in Handler => HasPermit(thread[t])
      /\ \A u \in Thread : u # t => Spared(u) /\ ~HasPermit(thread[u])
  BY <1>1, WorkerFacts
<1>3. \A u \in Thread : thread[u].pc # "clear"
  BY <1>1, <1>2 DEF HasPermit
<1>4. CASE row' = next /\ Goto(t, "clear")
  <2>1. PICK s \in ThreadState :
          /\ s.pc = "clear" /\ s.kind = thread[t].kind
          /\ s.dest = thread[t].dest /\ s.job = thread[t].job
          /\ s.gate = thread[t].gate
          /\ thread' = [thread EXCEPT ![t] = s]
    <3>1. "clear" \in Place
      BY DEF Place
    <3> QED
      BY <1>4, <3>1, Goes
  <2>2. Calm(t, s)
    BY <1>2, <2>1 DEF Calm, Begins, Transfers, HasGate
  <2>3. Nobody'
    BY <1>1, <1>2, <2>1 DEF Nobody, HasGate, OwnInv, HandoffTypeOK
  <2>4. s.kind = "transfer" => Committed(s)'
    <3>1. ASSUME s.kind = "transfer" PROVE row'[s.dest].job = s.job
      <4>1. Committed(thread[t])
        BY <1>1, <1>2, <2>1, <3>1 DEF Knows
      <4>2. /\ run.owner = s.dest /\ run.journal.job = s.job
            /\ row[run.owner].request = NoId
        BY <1>1, <1>2, <2>1, <4>1 DEF Committed
      <4>3. run.journal.job # NoId
        BY <1>1, WorkerFacts
      <4> QED
        BY <1>2, <1>4, <4>2, <4>3, ProjectedFacts DEF GateInv
    <3> QED
      BY <1>1, <1>2, <2>1, <2>3, <3>1 DEF Knows, Committed
  <2>5. Knows(s)'
    BY <2>1, <2>4 DEF Knows, Transfers
  <2>6. BothAreTold'
    BY <1>1, <1>2, <1>4, ProjectTold DEF GateInv, runFile
  <2> QED
    BY <1>1, <1>2, <2>1, <2>2, <2>5, <2>6, GateStays
<1>5. CASE row' \in {row, next} /\ GiveUp(t)
  <2>1. PICK s \in ThreadState : ~Locks(s) /\ thread' = [thread EXCEPT ![t] = s]
    BY <1>1, <1>5, GivesUp
  <2>2. BothAreTold'
    <3>1. \A u \in Thread : thread'[u].pc # "clear"
      BY <1>3, <2>1 DEF OwnInv, HandoffTypeOK, Locks
    <3> QED
      BY <1>1, <1>2, <1>5, <3>1, ProjectTold DEF GateInv, runFile
  <2> QED
    BY <1>1, <1>5, <2>2, GiveUpGate
<1> QED
  BY <1>4, <1>5 DEF Project

LEMMA ClearTold ==
  ASSUME OwnInv, BothAreTold, UNCHANGED row, JournalIsDone,
         run = disk, run.journal # NoId,
         NEW next \in RunState, next.journal = NoId,
         next.owner = run.owner, next.past = run.past,
         \/ disk' = next /\ loose' = {} /\ run' = next
         \/ disk' = disk /\ loose' \subseteq loose \union {next} /\ run' = run,
         \A t \in Thread : thread'[t].pc # "clear"
  PROVE  BothAreTold'
<1>1. RowsTold(run) /\ \A r \in loose \union {disk} : RowsTold(r)
  BY DEF BothAreTold
<1>2. run.journal.job # NoId
  BY DEF OwnInv, HandoffTypeOK, RunState, Journal, HandoffAssumption
<1>3. RowsTold(next)
  BY <1>1, <1>2 DEF RowsTold, JournalIsDone
<1>4. \A r : RowsTold(r) => RowsTold(r)'
  BY DEF RowsTold
<1>5. (\A r \in loose \union {run, disk} : RowsTold(r))'
  BY <1>1, <1>3, <1>4
<1>6. (\A c \in Conversation : RowSound(row[c]))'
  BY DEF BothAreTold
<1>7. (\A l \in loose : Moved(disk, l) => l = run)'
  BY DEF Moved
<1> QED
  BY <1>5, <1>6, <1>7 DEF BothAreTold

LEMMA ClearGate ==
  ASSUME OwnInv, GateInv, NEW t \in Thread, Clear(t)
  PROVE  GateInv'
<1> DEFINE next == [run EXCEPT !.journal = NoId]
           label == CASE thread[t].kind = "transfer" -> "settle"
                      [] thread[t].kind = "restore" -> "begin"
                      [] thread[t].kind = "start" -> "interrupt"
<1>1. /\ thread[t].pc = "clear" /\ Locks(thread[t])
      /\ UNCHANGED <<row, parked, registered>>
      /\ run = disk /\ run \in RunState
  BY DEF Clear, Locks, memory, OwnInv, LockedFile, HandoffTypeOK
<1>2. /\ thread[t] \in ThreadState /\ Fits(thread[t]) /\ Knows(thread[t])
      /\ run.journal # NoId /\ Nobody
      /\ (t = Startup /\ ~Running) \/ (t \in Handler /\ Running)
      /\ t \in Handler => HasPermit(thread[t])
      /\ \A u \in Thread : u # t => Spared(u) /\ ~HasPermit(thread[u])
  BY <1>1, WorkerFacts
<1>3. /\ next \in RunState /\ next.journal = NoId /\ next.decided = run.decided
      /\ next.owner = run.owner /\ next.past = run.past
  BY <1>1 DEF RunState
<1>4. JournalIsDone
  BY <1>1 DEF GateInv, BothAreTold
<1>5. \A u \in Thread : u # t => thread[u].pc # "clear"
  BY <1>2 DEF HasPermit
<1>6. CASE Mutated(next) /\ Goto(t, label)
  <2>1. PICK s \in ThreadState :
          /\ \/ thread[t].kind = "transfer" /\ s.pc = "settle"
             \/ thread[t].kind = "restore" /\ s.pc = "begin"
             \/ thread[t].kind = "start" /\ s.pc = "interrupt"
          /\ s.kind = thread[t].kind
          /\ s.dest = thread[t].dest /\ s.job = thread[t].job
          /\ s.gate = thread[t].gate
          /\ thread' = [thread EXCEPT ![t] = s]
    <3>1. \/ thread[t].kind = "transfer" /\ label = "settle"
          \/ thread[t].kind = "restore" /\ label = "begin"
          \/ thread[t].kind = "start" /\ label = "interrupt"
      BY <1>1, <1>2 DEF Fits
    <3> HIDE DEF label
    <3>2. label \in Place
      BY <3>1 DEF Place
    <3> QED
      BY <1>6, <3>1, <3>2, Goes
  <2>2. disk' = next /\ loose' = {} /\ run' = next
    BY <1>6 DEF Mutated, FileStored
  <2> HIDE DEF next
  <2>3. /\ thread'[t] = s
        /\ \A u \in Thread : u # t => thread'[u] = thread[u]
    BY <2>1 DEF OwnInv, HandoffTypeOK
  <2>4. ~HasGate(s) /\ ~Begins(s) /\ ~Locks(s)
    BY <2>1 DEF HasGate, Begins, Locks, Transfers
  <2>5. Nobody' /\ OneHolder'
    BY <1>1, <1>2, <2>3, <2>4 DEF Nobody, OneHolder
  <2>6. OnePermit'
    BY <1>2, <2>3 DEF OnePermit, Thread
  <2>7. StartsAlone'
    <3>1. CASE t \in Handler
      BY <1>2, <2>3, <3>1 DEF StartsAlone, Running, Thread, HandoffAssumption
    <3>2. CASE t = Startup
      BY <1>1, <1>2, <2>3, <3>2 DEF GateInv, StartsAlone, Thread, HandoffAssumption
    <3> QED
      BY <1>2, <3>1, <3>2
  <2>8. OwnDestination'
    BY <2>3, <2>4 DEF GateInv, OwnDestination
  <2>9. Owners(run') = Owners(run)
    BY <1>3, <2>2 DEF Owners
  <2>10. (\A u \in Thread : Knows(thread[u]))'
    <3>1. ASSUME NEW u \in Thread, u # t PROVE Knows(thread[u])'
      <4>1. ~HasPermit(thread[u]) /\ Knows(thread[u]) /\ thread'[u] = thread[u]
        BY <1>2, <2>3, <3>1 DEF GateInv
      <4> QED
        BY <1>3, <2>2, <2>9, <4>1 DEF Knows, HasPermit
    <3>2. Knows(s)'
      <4>1. s.pc = "settle" => Committed(s)'
        BY <1>1, <1>2, <1>3, <2>1, <2>2, <2>5 DEF Knows, Committed
      <4> QED
        BY <2>1, <4>1 DEF Knows, Transfers
    <3> QED
      BY <2>3, <3>1, <3>2
  <2>11. BothAreTold'
    <3>1. \A u \in Thread : thread'[u].pc # "clear"
      BY <1>5, <2>3, <2>4 DEF Locks
    <3> QED
      BY <1>1, <1>2, <1>3, <1>4, <2>2, <3>1, ClearTold DEF GateInv
  <2> QED
    BY <2>5, <2>6, <2>7, <2>8, <2>10, <2>11 DEF GateInv
<1>7. CASE MutateRefused(next) /\ GiveUp(t)
  <2>1. PICK s \in ThreadState : ~Locks(s) /\ thread' = [thread EXCEPT ![t] = s]
    BY <1>1, <1>7, GivesUp
  <2>2. disk' = disk /\ loose' \subseteq loose \union {next} /\ run' = run
    BY <1>7 DEF MutateRefused, FileUnchanged, FileReplaced
  <2> HIDE DEF next
  <2>3. BothAreTold'
    <3>1. \A u \in Thread : thread'[u].pc # "clear"
      BY <1>5, <2>1 DEF OwnInv, HandoffTypeOK, Locks
    <3> QED
      BY <1>1, <1>2, <1>3, <1>4, <2>2, <3>1, ClearTold DEF GateInv
  <2> QED
    BY <1>1, <1>7, <2>2, <2>3, GiveUpGate
<1> QED
  BY <1>6, <1>7 DEF Clear

LEMMA PrepareGate ==
  ASSUME OwnInv, GateInv, Prepare
  PROVE  GateInv'
BY StillGate DEF Prepare, runFile

(* After a crash nobody holds anything, and the file is one of those that  *)
(* the rows were told of.                                                  *)
LEMMA CrashGate ==
  ASSUME OwnInv, GateInv, Crash
  PROVE  GateInv'
<1>1. /\ run' \in loose \union {disk} /\ disk' = run' /\ loose' = {}
      /\ parked' = NoId /\ UNCHANGED row
  BY DEF Crash
<1>2. /\ \A t \in Handler : thread'[t] = Idle
      /\ thread'[Startup].pc \in {"interrupt", "flush", "refused"}
      /\ thread'[Startup].kind = "start"
      /\ Startup \in Thread /\ Thread = Handler \union {Startup}
  <2>1. Startup \in Thread /\ Thread = Handler \union {Startup}
    BY DEF Thread
  <2> DEFINE label == IF run'.journal = NoId THEN "interrupt"
                      ELSE IF Applies(row, run'.owner, run'.journal)
                      THEN "flush" ELSE "refused"
  <2>2. label \in {"interrupt", "flush", "refused"}
    OBVIOUS
  <2>3. thread' = [t \in Thread |-> IF t # Startup THEN Idle
                       ELSE [Idle EXCEPT !.kind = "start", !.pc = label]]
    BY DEF Crash
  <2> HIDE DEF label
  <2>4. /\ [Idle EXCEPT !.kind = "start", !.pc = label].pc = label
        /\ [Idle EXCEPT !.kind = "start", !.pc = label].kind = "start"
    BY DEF Idle
  <2> QED
    BY <2>1, <2>2, <2>3, <2>4 DEF HandoffAssumption
<1>3. \A t \in Thread : ~HasGate(thread'[t]) /\ ~Begins(thread'[t])
  BY <1>2, IdleKnows DEF HasGate, Begins, Transfers
<1>4. OneHolder' /\ Nobody'
  BY <1>1, <1>3 DEF OneHolder, Nobody
<1>5. OnePermit'
  BY <1>2, IdleKnows DEF OnePermit
<1>6. StartsAlone'
  BY <1>1, <1>2 DEF StartsAlone
<1>7. OwnDestination'
  BY <1>3 DEF OwnDestination
<1>8. (\A t \in Thread : Knows(thread[t]))'
  <2>1. Knows(Idle)'
    BY IdleKnows DEF Knows, Transfers
  <2>2. Knows(thread[Startup])'
    BY <1>2 DEF Knows, Transfers
  <2> QED
    BY <1>2, <2>1, <2>2
<1>9. BothAreTold'
  <2>1. RowsTold(run)'
    BY <1>1 DEF GateInv, BothAreTold, RowsTold
  <2>2. \A t \in Thread : thread'[t].pc # "clear"
    BY <1>2, IdleKnows
  <2> QED
    BY <1>1, <2>1, <2>2 DEF GateInv, BothAreTold
<1> QED
  BY <1>4, <1>5, <1>6, <1>7, <1>8, <1>9 DEF GateInv

LEMMA GateInitial == HandoffInit => GateInv
<1> SUFFICES ASSUME HandoffInit PROVE GateInv
  OBVIOUS
<1>1. PICK j \in JobId :
        /\ row = [c \in Conversation |->
                     IF c = First
                     THEN [stored |-> TRUE, revision |-> 1, job |-> j,
                           request |-> j, status |-> "Pending"]
                     ELSE Absent]
        /\ run = [owner |-> First, past |-> {}, journal |-> NoId,
                  decided |-> FALSE]
        /\ disk = run /\ loose = {}
        /\ registered = [c \in Conversation |-> IF c = First THEN j ELSE NoId]
        /\ parked = [conversation |-> First, job |-> j]
        /\ thread = [t \in Thread |-> Idle]
  BY DEF HandoffInit
<1>2. /\ First \in Conversation /\ j # NoId /\ Startup \in Thread
      /\ Handler \subseteq Thread
  BY DEF HandoffAssumption, Thread
<1>3. /\ run.owner = First /\ run.past = {} /\ run.journal = NoId /\ ~run.decided
      /\ parked.conversation = First /\ parked.job = j
  BY <1>1
<1>4. /\ row[First].job = j /\ row[First].request = j /\ row[First].status = "Pending"
      /\ registered[First] = j
  BY <1>1, <1>2
<1>5. /\ \A c \in Conversation : c # First =>
             row[c].job = NoId /\ row[c].status = "none"
  BY <1>1 DEF Absent
<1>6. \A t \in Thread : thread[t] = Idle
  BY <1>1
<1>7. OneHolder
  BY <1>3, <1>4, <1>6, IdleKnows DEF OneHolder, GateWaits
<1>8. OnePermit /\ OwnDestination
  BY <1>2, <1>6, IdleKnows DEF OnePermit, OwnDestination
<1>9. StartsAlone
  BY <1>2, <1>6 DEF StartsAlone, Running
<1>10. \A t \in Thread : Knows(thread[t])
  BY <1>6, IdleKnows
<1>11. BothAreTold
  <2>1. \A c \in Conversation : RowSound(row[c])
    BY <1>2, <1>4, <1>5 DEF RowSound
  <2>2. RowsTold(run)
    BY <1>2, <1>3, <1>4 DEF RowsTold
  <2>3. \A t \in Thread : thread[t].pc # "clear"
    BY <1>6, IdleKnows
  <2> QED
    BY <1>1, <2>1, <2>2, <2>3 DEF BothAreTold
<1> QED
  BY <1>7, <1>8, <1>9, <1>10, <1>11 DEF GateInv

LEMMA EveryGateStep ==
  ASSUME OwnInv, GateInv, OwnInv', [HandoffNext]_handoffVars
  PROVE  GateInv'
<1>1. CASE UNCHANGED handoffVars
  BY <1>1, StillGate DEF handoffVars
<1>2. ASSUME NEW t \in Thread, Flush(t) \/ Project(t) \/ Clear(t)
      PROVE  GateInv'
  BY <1>2, FlushGate, ProjectGate, ClearGate
<1>3. ASSUME NEW t \in Handler, NEW c \in Conversation,
             Generate(t, c) \/ Send(t, c) \/ CheckDelete(t, c)
      PROVE  GateInv'
  BY <1>3, GenerateGate, SendGate
<1>4. ASSUME NEW t \in Handler,
             \/ EndGenerate(t) \/ CreateDestination(t) \/ TakeSource(t)
             \/ StartDestination(t) \/ CommitOwner(t) \/ Settle(t)
             \/ UndoDestination(t)
      PROVE  GateInv'
  BY <1>4, EndGenerateGate, CreateDestinationGate, TakeSourceGate,
     StartDestinationGate, CommitOwnerGate, SettleGate, UndoDestinationGate
<1>5. ASSUME NEW t \in Handler,
             \/ Restore(t) \/ Recover(t) \/ BeginRestored(t) \/ Reopen(t) \/ Attach(t)
      PROVE  GateInv'
  BY <1>5, RestoreGate, RecoverGate, BeginRestoredGate, ReopenGate, AttachGate
<1>6. ASSUME NEW t \in Handler,
             TakeGate(t) \/ DecideGate(t) \/ EndWork(t) \/ Delete(t)
      PROVE  GateInv'
  BY <1>6, TakeGateGate, DecideGateGate, EndWorkGate, DeleteGate
<1>7. ASSUME NEW c \in Conversation, Rename(c) PROVE GateInv'
  BY <1>7, RenameGate
<1>8. CASE Prepare \/ Crash \/ InterruptRequests
  BY <1>8, PrepareGate, CrashGate, InterruptRequestsGate
<1> QED
  BY <1>1, <1>2, <1>3, <1>4, <1>5, <1>6, <1>7, <1>8 DEF HandoffNext

(* The second layer of the invariant holds: where the gate's job is, who   *)
(* holds the permit, what each thread relies on, and what the stored       *)
(* conversations say of every content of the run file.                     *)
THEOREM GateInvariance == HandoffSpec => [](OwnInv /\ GateInv)
<1>1. HandoffInit => OwnInv /\ GateInv
  BY Initial, GateInitial
<1>2. OwnInv /\ GateInv /\ [HandoffNext]_handoffVars => (OwnInv /\ GateInv)'
  BY EveryStep, EveryGateStep
<1> QED
  BY <1>1, <1>2, PTL DEF HandoffSpec

(* Once a journal is cleared, in whatever order commits failed, the        *)
(* process ended and replays ran, no earlier owner has work of the run     *)
(* left, and the job that waits at the gate is its owner's                 *)
(* (commit_handoff, apply_handoff, restore_prepared, finish).              *)
THEOREM BothSidesAgree == HandoffSpec => []BothSidesAreTold
<1>1. OwnInv /\ GateInv => BothSidesAreTold
  BY DEF GateInv, BothAreTold, RowsTold, Settled, OneHolder, GateWaits,
         BothSidesAreTold
<1> QED
  BY <1>1, GateInvariance, PTL
=============================================================================
