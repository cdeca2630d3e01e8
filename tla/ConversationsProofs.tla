-------------------------- MODULE ConversationsProofs --------------------------
(***************************************************************************)
(* A saved conversation for every number of messages, jobs and queued      *)
(* items, and its handlers and tasks, for every number of them: a          *)
(* task at work owns its conversation, an active job is attended, and a    *)
(* request extends the history its handler read.                           *)
(*                                                                         *)
(* First the store alone (ConversationStore): the stored row stays sound,  *)
(* its history is kept, a queued item is in one place and steering stays   *)
(* with its request, under every sequence of store operations, uncertain   *)
(* commits and restarts.  The operations edit a copy of the record by the  *)
(* same few helpers, so that proof is about records and not about states.  *)
(* A record is a tree of messages (Tree): each path ends in its own        *)
(* message, is made of paths, and no pending message has a child.  The     *)
(* tree rests when nothing is pending (Resting).  Every operation settles  *)
(* what is pending, edits a record at rest, and pushes at most one pending *)
(* message, at the leaf, for the active job (Sound).                       *)
(*                                                                         *)
(* Then the handlers.  The stored row stays sound by the same lemmas, once *)
(* a task is known to settle work of its own kind.  The rest of the proof  *)
(* needs four fields of the row only (IsRow, and the operations by what    *)
(* they do to them) and is about three holders: the registration, the      *)
(* task, and the revision a handler read.                                  *)
(***************************************************************************)
EXTENDS Conversations, SequenceTheorems, FiniteSetTheorems,
        NaturalsInduction, WellFoundedInduction, TLAPS

PathFits(r, i) ==
    LET path == r.entries[i].path
    IN /\ Len(path) >= 1
       /\ path[Len(path)] = i
       /\ \A k \in 1..Len(path) :
             /\ path[k] \in 1..i
             /\ r.entries[path[k]].role # "Deleted"
             /\ r.entries[path[k]].path = SubSeq(path, 1, k)
             /\ k < Len(path) => /\ path[k] < i
                                 /\ r.entries[path[k]].status # "Pending"

Tree(r) ==
    /\ r.leaf \in 0..Len(r.entries)
    /\ r.leaf # 0 => r.entries[r.leaf].role # "Deleted"
    /\ \A i \in 1..Len(r.entries) :
          IF r.entries[i].role = "Deleted" THEN r.entries[i].path = <<>>
          ELSE PathFits(r, i)

NonePending(r) == \A i \in 1..Len(r.entries) : r.entries[i].status # "Pending"

(* The one pending message is the active leaf.                             *)
PendingIsActive(r) ==
    /\ \A i \in 1..Len(r.entries) :
          r.entries[i].status = "Pending" <=>
              r.active_job # NoId /\ i = r.leaf
    /\ r.active_job # NoId =>
          r.leaf # 0 /\ r.entries[r.leaf].request = r.active_job

(* No queued item was ever delivered, and none is there twice.             *)
ItemsOnce(r) ==
    /\ \A i, j \in 1..Len(r.entries) :
          r.entries[i].item = r.entries[j].item /\ r.entries[i].item # NoId
              => i = j
    /\ \A k, l \in 1..Len(r.queue) : r.queue[k].id = r.queue[l].id => k = l
    /\ \A i \in 1..Len(r.entries), k \in 1..Len(r.queue) :
          r.entries[i].item # r.queue[k].id

Resting(r) ==
    /\ r \in Record
    /\ Tree(r)
    /\ NonePending(r)
    /\ CheckpointIsOnPath(r)
    /\ r.approved \in {NoId, r.settings}
    /\ ItemsOnce(r)

(* A compaction streams nothing into its message.                          *)
Sound(r) ==
    /\ r \in Record
    /\ Tree(r)
    /\ PendingIsActive(r)
    /\ CheckpointIsOnPath(r)
    /\ r.approved \in {NoId, r.settings}
    /\ ItemsOnce(r)
    /\ r.active_job # NoId /\ r.began = "compaction" =>
          ~r.entries[r.leaf].text

(* What an edit keeps of the messages, and the items it may bring.         *)
Kept(r, n) ==
    \A i \in 1..Len(r.entries) :
        /\ i \in 1..Len(n.entries)
        /\ r.entries[i].status \in Settled => n.entries[i] = r.entries[i]
        /\ r.entries[i].text =>
              n.entries[i].text /\ n.entries[i].role = r.entries[i].role

Brings(r, n, item) ==
    \A i \in 1..Len(n.entries) :
        \/ n.entries[i].item \in {NoId, item}
        \/ \E j \in 1..Len(r.entries) : r.entries[j].item = n.entries[i].item

Follows(r, n, item) ==
    /\ Kept(r, n)
    /\ Brings(r, n, item)
    /\ \A k \in 1..Len(n.queue) :
          \E l \in 1..Len(r.queue) : r.queue[l].id = n.queue[k].id

-----------------------------------------------------------------------------
USE StoreAssumption

LEMMA RecordFacts ==
    ASSUME NEW r \in Record
    PROVE  /\ r.exists = TRUE
           /\ r.entries \in Seq(Entries) /\ Len(r.entries) \in Nat
           /\ DOMAIN r.entries = 1..Len(r.entries)
           /\ r.leaf \in Nat
           /\ r.queue \in Seq(Item) /\ Len(r.queue) \in Nat
           /\ DOMAIN r.queue = 1..Len(r.queue)
           /\ \A i \in 1..Len(r.entries) : r.entries[i] \in Entries
           /\ \A k \in 1..Len(r.queue) : r.queue[k] \in Item
<1>1. /\ r.exists = TRUE /\ r.entries \in Seq(Entries) /\ r.queue \in Seq(Item)
      /\ r.leaf \in Nat
  BY DEF Record
<1> QED
  BY <1>1

LEMMA EntryFacts ==
    ASSUME NEW e \in Entries
    PROVE  /\ e.path \in Seq(Nat) /\ Len(e.path) \in Nat
           /\ \A x : x \in Range(e.path) <=>
                       \E k \in 1..Len(e.path) : x = e.path[k]
           /\ e.text \in BOOLEAN /\ e.final_phase \in BOOLEAN
           /\ e.status \in MessageStatus
           /\ e.item \in QueueItem \union {NoId}
           /\ e.request \in JobId \union {NoId}
<1>1. e.path \in Seq(Nat)
  BY DEF Entries
<1>2. Range(e.path) = {e.path[k] : k \in 1..Len(e.path)}
  BY <1>1, RangeEquality
<1> QED
  BY <1>1, <1>2 DEF Entries

(* The active path, as far as it is used.                                  *)
LEMMA PathFacts ==
    ASSUME NEW r \in Record, Tree(r)
    PROVE  /\ Path(r) \in Seq(Nat) /\ Len(Path(r)) \in Nat
           /\ r.leaf = 0 => Path(r) = <<>> /\ Range(Path(r)) = {}
           /\ r.leaf # 0 => /\ Path(r) = r.entries[r.leaf].path
                            /\ Len(Path(r)) >= 1
                            /\ Path(r)[Len(Path(r))] = r.leaf
                            /\ r.leaf \in Range(Path(r))
                            /\ PathFits(r, r.leaf)
           /\ \A i \in Range(Path(r)) :
                 /\ i \in 1..r.leaf /\ r.entries[i].role # "Deleted"
                 /\ i # r.leaf => r.entries[i].status # "Pending"
           /\ Range(Path(r)) \subseteq 1..Len(r.entries)
<1> DEFINE path == Path(r)
<1>0. r.leaf \in 0..Len(r.entries) /\ Len(r.entries) \in Nat /\ r.leaf \in Nat
  BY RecordFacts DEF Tree
<1>1. CASE r.leaf = 0
  BY <1>1 DEF Path, Range
<1>2. CASE r.leaf # 0
  <2>1. r.leaf \in 1..Len(r.entries)
    BY <1>0, <1>2
  <2>2. r.entries[r.leaf] \in Entries
    BY <2>1, RecordFacts
  <2>3. path = r.entries[r.leaf].path
    BY <1>2 DEF Path
  <2>4. PathFits(r, r.leaf)
    BY <1>2, <2>1 DEF Tree
  <2> HIDE DEF path
  <2>5. /\ path \in Seq(Nat) /\ Len(path) \in Nat
        /\ \A x : x \in Range(path) <=> \E k \in 1..Len(path) : x = path[k]
    BY <2>2, <2>3, EntryFacts
  <2>6. Len(path) >= 1 /\ path[Len(path)] = r.leaf
    BY <2>3, <2>4 DEF PathFits
  <2>7. r.leaf \in Range(path)
    BY <2>5, <2>6
  <2>8. ASSUME NEW k \in 1..Len(path)
        PROVE  /\ path[k] \in 1..r.leaf
               /\ r.entries[path[k]].role # "Deleted"
               /\ path[k] # r.leaf => r.entries[path[k]].status # "Pending"
    <3>1. k < Len(path) \/ k = Len(path)
      BY <2>5
    <3> QED
      BY <2>3, <2>4, <2>6, <3>1 DEF PathFits
  <2>9. \A i \in Range(path) :
            /\ i \in 1..r.leaf /\ r.entries[i].role # "Deleted"
            /\ i # r.leaf => r.entries[i].status # "Pending"
    BY <2>5, <2>8
  <2>10. Range(path) \subseteq 1..Len(r.entries)
    BY <1>0, <2>9
  <2> QED
    BY <1>2, <2>3, <2>4, <2>5, <2>6, <2>7, <2>9, <2>10 DEF path
<1> QED
  BY <1>0, <1>1, <1>2

(* Editing messages in place keeps the tree.                               *)
LEMMA InPlaceKeepsTree ==
    ASSUME NEW r \in Record, Tree(r), NEW n \in Record,
           Len(n.entries) = Len(r.entries), n.leaf = r.leaf,
           \A i \in 1..Len(r.entries) :
              /\ n.entries[i].path = r.entries[i].path
              /\ n.entries[i].role = r.entries[i].role
              /\ n.entries[i].status = "Pending" =>
                    r.entries[i].status = "Pending"
    PROVE  Tree(n) /\ Path(n) = Path(r)
<1>1. ASSUME NEW i \in 1..Len(r.entries), PathFits(r, i) PROVE PathFits(n, i)
  <2> DEFINE path == r.entries[i].path
  <2>1. n.entries[i].path = path
    OBVIOUS
  <2>2. \A k \in 1..Len(path) : path[k] \in 1..Len(r.entries)
    BY <1>1 DEF PathFits, Record
  <2> QED
    BY <1>1, <2>1, <2>2 DEF PathFits
<1>2. Len(r.entries) \in Nat
  BY DEF Record
<1>3. Tree(n)
  BY <1>1, <1>2 DEF Tree
<1> QED
  BY <1>2, <1>3 DEF Path, Tree

(* A path and one more message.                                            *)
LEMMA AppendedPath ==
    ASSUME NEW path \in Seq(Nat), NEW id \in Nat
    PROVE  LET longer == Append(path, id)
           IN /\ longer \in Seq(Nat) /\ Len(longer) = Len(path) + 1
              /\ longer[Len(longer)] = id
              /\ SubSeq(longer, 1, Len(longer)) = longer
              /\ \A k \in 1..Len(path) :
                    /\ longer[k] = path[k]
                    /\ SubSeq(longer, 1, k) = SubSeq(path, 1, k)
              /\ \A x : x \in Range(longer) <=> x \in Range(path) \/ x = id
<1> DEFINE longer == Append(path, id)
<1>1. /\ longer \in Seq(Nat) /\ Len(longer) = Len(path) + 1
      /\ \A k \in 1..Len(path) : longer[k] = path[k]
      /\ longer[Len(path) + 1] = id
  BY AppendProperties
<1>2. Len(path) \in Nat
  OBVIOUS
<1>3. longer = path \o <<id>> /\ <<id>> \in Seq(Nat)
  BY AppendIsConcat
<1>4. ASSUME NEW k \in 1..Len(path)
      PROVE  SubSeq(longer, 1, k) = SubSeq(path, 1, k)
  <2>1. 1 \in 1..Len(path)
    BY <1>2
  <2> QED
    BY <1>3, <2>1, SubSeqOfConcat1
<1>5. SubSeq(longer, 1, Len(longer)) = longer
  BY <1>1, SubSeqFull
<1>6. \A x : x \in Range(longer) <=> \E k \in 1..Len(path) + 1 : x = longer[k]
  BY <1>1 DEF Range
<1>7. \A x : x \in Range(path) <=> \E k \in 1..Len(path) : x = path[k]
  BY DEF Range
<1> HIDE DEF longer
<1>8. ASSUME NEW x
      PROVE  x \in Range(longer) <=> x \in Range(path) \/ x = id
  <2>1. ASSUME x \in Range(longer) PROVE x \in Range(path) \/ x = id
    <3>1. PICK k \in 1..Len(path) + 1 : x = longer[k]
      BY <1>6, <2>1
    <3>2. k \in 1..Len(path) \/ k = Len(path) + 1
      BY <1>2
    <3> QED
      BY <1>1, <1>7, <3>1, <3>2
  <2>2. ASSUME x \in Range(path) PROVE x \in Range(longer)
    <3>1. PICK k \in 1..Len(path) : x = path[k]
      BY <1>7, <2>2
    <3>2. k \in 1..Len(path) + 1
      BY <1>2
    <3> QED
      BY <1>1, <1>6, <3>1, <3>2
  <2>3. Len(path) + 1 \in 1..Len(path) + 1
    BY <1>2
  <2>4. id \in Range(longer)
    BY <1>1, <1>6, <2>3
  <2> QED
    BY <2>1, <2>2, <2>4
<1> QED
  BY <1>1, <1>4, <1>5, <1>8 DEF longer

(* What pushing a message onto a record at rest gives.                     *)
Pushed(r, m, n) ==
    LET id == Len(r.entries) + 1
    IN /\ n \in Record /\ Tree(n)
       /\ n.leaf = id /\ Len(n.entries) = id
       /\ \A i \in 1..Len(r.entries) : n.entries[i] = r.entries[i]
       /\ n.entries[id].role = m.role /\ n.entries[id].status = m.status
       /\ n.entries[id].request = m.request /\ n.entries[id].item = m.item
       /\ n.entries[id].text = m.text
       /\ Path(n) = Append(Path(r), id)
       /\ \A x : x \in Range(Path(n)) <=> x \in Range(Path(r)) \/ x = id
       /\ n.active_job = r.active_job /\ n.continuation = r.continuation
       /\ n.queue = r.queue /\ n.began = r.began
       /\ n.settings = r.settings /\ n.approved = r.approved

LEMMA PushGrows ==
    ASSUME NEW r \in Record, Tree(r), NonePending(r),
           NEW m \in Entries, m.role # "Deleted"
    PROVE  Pushed(r, m, PushMessage(r, m))
<1> DEFINE id == Len(r.entries) + 1
           path == Append(Path(r), id)
           placed == [m EXCEPT !.path = path]
           n == PushMessage(r, m)
<1>1. /\ Len(r.entries) \in Nat /\ r.entries \in Seq(Entries)
      /\ Path(r) \in Seq(Nat) /\ Len(Path(r)) \in Nat
      /\ r.leaf \in 0..Len(r.entries)
  BY RecordFacts, PathFacts DEF Tree
<1>2. /\ path \in Seq(Nat) /\ Len(path) = Len(Path(r)) + 1
      /\ path[Len(path)] = id
      /\ SubSeq(path, 1, Len(path)) = path
      /\ \A k \in 1..Len(Path(r)) :
            path[k] = Path(r)[k] /\ SubSeq(path, 1, k) = SubSeq(Path(r), 1, k)
      /\ \A x : x \in Range(path) <=> x \in Range(Path(r)) \/ x = id
  BY <1>1, AppendedPath
<1>3. n = [r EXCEPT !.leaf = id, !.entries = Append(r.entries, placed)]
  BY DEF PushMessage
<1> HIDE DEF path, n
<1>4. /\ placed \in Entries /\ placed.path = path
      /\ placed.role = m.role /\ placed.status = m.status
      /\ placed.request = m.request /\ placed.item = m.item
      /\ placed.text = m.text
  BY <1>2 DEF Entries
<1> HIDE DEF placed
<1>5. /\ Append(r.entries, placed) \in Seq(Entries)
      /\ Len(Append(r.entries, placed)) = id
      /\ \A i \in 1..Len(r.entries) :
            Append(r.entries, placed)[i] = r.entries[i]
      /\ Append(r.entries, placed)[id] = placed
  BY <1>1, <1>4, AppendProperties
<1>6. /\ n.leaf = id /\ n.entries = Append(r.entries, placed)
      /\ n.active_job = r.active_job /\ n.continuation = r.continuation
      /\ n.queue = r.queue /\ n.began = r.began
      /\ n.settings = r.settings /\ n.approved = r.approved
  BY <1>3 DEF Record
<1>7. n \in Record
  <2> DEFINE es == Append(r.entries, placed)
  <2>1. n = [r EXCEPT !.leaf = id, !.entries = es] /\ es \in Seq(Entries)
    BY <1>3, <1>5
  <2>2. id \in Nat
    BY <1>1
  <2> HIDE DEF es, id
  <2> QED
    BY <2>1, <2>2 DEF Record
<1>8. Path(n) = path
  BY <1>1, <1>4, <1>5, <1>6 DEF Path
<1>9. ASSUME NEW i \in 1..Len(r.entries), PathFits(r, i) PROVE PathFits(n, i)
  <2> DEFINE p == r.entries[i].path
  <2>1. n.entries[i].path = p
    BY <1>5, <1>6
  <2>2. \A k \in 1..Len(p) : p[k] \in 1..Len(r.entries)
    BY <1>1, <1>9 DEF PathFits
  <2>3. \A k \in 1..Len(p) : n.entries[p[k]] = r.entries[p[k]]
    BY <1>5, <1>6, <2>2
  <2> QED
    BY <1>9, <2>1, <2>3 DEF PathFits
<1>10. PathFits(n, id)
  <2>1. n.entries[id].path = path /\ n.entries[id].role # "Deleted"
    BY <1>4, <1>5, <1>6
  <2>2. ASSUME NEW k \in 1..Len(Path(r))
        PROVE  /\ path[k] \in 1..Len(r.entries)
               /\ n.entries[path[k]] = r.entries[path[k]]
               /\ r.entries[path[k]].role # "Deleted"
               /\ r.entries[path[k]].path = SubSeq(path, 1, k)
               /\ r.entries[path[k]].status # "Pending"
    <3>1. r.leaf # 0
      BY <2>2, PathFacts
    <3>2. PathFits(r, r.leaf) /\ Path(r) = r.entries[r.leaf].path
      BY <3>1, PathFacts
    <3>3. /\ path[k] \in 1..r.leaf /\ r.entries[path[k]].role # "Deleted"
          /\ r.entries[path[k]].path = SubSeq(path, 1, k)
      BY <1>2, <3>2 DEF PathFits
    <3>4. path[k] \in 1..Len(r.entries)
      BY <1>1, <3>3
    <3> QED
      BY <1>5, <1>6, <3>3, <3>4 DEF NonePending
  <2>3. \A k \in 1..Len(path) : k \in 1..Len(Path(r)) \/ k = Len(path)
    BY <1>1, <1>2
  <2>4. Len(path) >= 1
    BY <1>1, <1>2
  <2>5. \A k \in 1..Len(Path(r)) : path[k] \in 1..id /\ path[k] < id
    BY <1>1, <2>2
  <2>6. id \in 1..id
    BY <1>1
  <2>7. \A k \in 1..Len(path) : k < Len(path) => k \in 1..Len(Path(r))
    BY <1>1, <1>2
  <2> HIDE DEF id
  <2>8. ASSUME NEW k \in 1..Len(path)
        PROVE  /\ path[k] \in 1..id
               /\ n.entries[path[k]].role # "Deleted"
               /\ n.entries[path[k]].path = SubSeq(path, 1, k)
               /\ k < Len(path) => /\ path[k] < id
                                   /\ n.entries[path[k]].status # "Pending"
    <3>1. CASE k \in 1..Len(Path(r))
      BY <2>2, <2>5, <3>1
    <3>2. CASE k = Len(path)
      BY <1>2, <2>1, <2>6, <3>2
    <3> QED
      BY <2>3, <3>1, <3>2
  <2> QED
    BY <1>2, <2>1, <2>4, <2>8 DEF PathFits
<1>11. Tree(n)
  <2>1. \A i \in 1..id : i \in 1..Len(r.entries) \/ i = id
    BY <1>1
  <2>2. id \in 0..id /\ id # 0
    BY <1>1
  <2>3. Len(n.entries) = id /\ n.entries[id].role # "Deleted"
    BY <1>4, <1>5, <1>6
  <2>4. \A i \in 1..Len(r.entries) : n.entries[i] = r.entries[i]
    BY <1>5, <1>6
  <2> HIDE DEF id
  <2> QED
    BY <1>6, <1>9, <1>10, <2>1, <2>2, <2>3, <2>4 DEF Tree
<1> QED
  BY <1>2, <1>4, <1>5, <1>6, <1>7, <1>8, <1>11 DEF Pushed, n, path

(* The least element, from the order of the naturals being well-founded.   *)
LEMMA LeastOf ==
    ASSUME NEW S \in SUBSET Nat, S # {}
    PROVE  \E x \in S : \A y \in S : x <= y
<1> DEFINE less == {ss \in Nat \X Nat : ss[1] < ss[2]}
<1>1. IsWellFoundedOn(less, Nat)
  BY NatLessThanWellFounded DEF OpToRel
<1>2. \A x, y \in Nat : y < x => <<y, x>> \in less
  OBVIOUS
<1> HIDE DEF less
<1>3. PICK x \in S : \A y \in S : ~ (<<y, x>> \in less)
  BY <1>1, WFMin
<1>4. \A y \in S : y \in Nat /\ x \in Nat /\ ~ (y < x)
  BY <1>2, <1>3
<1> QED
  BY <1>4

(* Max of a nonempty bounded set is its greatest element.                  *)
LEMMA GreatestOf ==
    ASSUME NEW n \in Nat, NEW S \in SUBSET (0..n), S # {}
    PROVE  Max(S) \in S /\ \A y \in S : Max(S) >= y
<1> DEFINE T == {n - x : x \in S}
<1>1. \A x \in S : n - x \in Nat
  OBVIOUS
<1>2. T \in SUBSET Nat /\ T # {}
  BY <1>1
<1>3. \A y \in S : n - y \in T
  OBVIOUS
<1>4. \A t \in T : \E x \in S : t = n - x
  OBVIOUS
<1> HIDE DEF T
<1>5. PICK t \in T : \A y \in T : t <= y
  BY <1>2, LeastOf
<1>6. PICK x \in S : t = n - x
  BY <1>4
<1>7. \A y \in S : x >= y
  BY <1>3, <1>5, <1>6
<1> QED
  BY <1>7 DEF Max

-----------------------------------------------------------------------------
(* Edits that follow one another.                                          *)
LEMMA FollowsOn ==
    ASSUME NEW r \in Record, NEW n \in Record, NEW w \in Record, NEW item,
           NEW a \in {NoId, item}, NEW b \in {NoId, item},
           Follows(r, n, a), Follows(n, w, b)
    PROVE  Follows(r, w, item)
<1>1. Kept(r, w)
  BY DEF Follows, Kept
<1>2. Brings(r, w, item)
  BY DEF Follows, Brings
<1>3. \A k \in 1..Len(w.queue) :
          \E l \in 1..Len(r.queue) : r.queue[l].id = w.queue[k].id
  BY DEF Follows
<1> QED
  BY <1>1, <1>2, <1>3 DEF Follows

(* Edits of the record that leave the messages and the queue alone.        *)
LEMMA SameMessages ==
    ASSUME NEW r \in Record, Tree(r), NEW n \in Record,
           n.entries = r.entries, n.leaf = r.leaf, n.queue = r.queue
    PROVE  /\ Tree(n) /\ Path(n) = Path(r)
           /\ Follows(r, n, NoId)
           /\ NonePending(r) => NonePending(n)
           /\ ItemsOnce(r) => ItemsOnce(n)
           /\ PendingIsActive(r) /\ n.active_job = r.active_job
                 => PendingIsActive(n)
           /\ CompleteResponses(n) = CompleteResponses(r)
<1>1. Tree(n) /\ Path(n) = Path(r)
  BY InPlaceKeepsTree
<1>2. Follows(r, n, NoId)
  BY RecordFacts DEF Follows, Kept, Brings
<1>3. CompleteResponses(n) = CompleteResponses(r)
  BY <1>1 DEF CompleteResponses
<1>4. /\ NonePending(r) => NonePending(n)
      /\ ItemsOnce(r) => ItemsOnce(n)
      /\ PendingIsActive(r) /\ n.active_job = r.active_job
            => PendingIsActive(n)
  BY DEF NonePending, ItemsOnce, PendingIsActive
<1> QED
  BY <1>1, <1>2, <1>3, <1>4

LEMMA EditRests ==
    ASSUME NEW r \in Record, Resting(r), NEW n \in Record,
           n.entries = r.entries, n.leaf = r.leaf, n.queue = r.queue,
           n.continuation \in {r.continuation, NoId},
           n.approved \in {NoId, n.settings}
    PROVE  Resting(n) /\ Follows(r, n, NoId) /\ Path(n) = Path(r)
<1>1. Tree(r) /\ NonePending(r) /\ ItemsOnce(r) /\ CheckpointIsOnPath(r)
  BY DEF Resting
<1>2. /\ Tree(n) /\ NonePending(n) /\ ItemsOnce(n) /\ Path(n) = Path(r)
      /\ Follows(r, n, NoId) /\ CompleteResponses(n) = CompleteResponses(r)
  BY <1>1, SameMessages
<1>3. CheckpointIsOnPath(n)
  BY <1>1, <1>2 DEF CheckpointIsOnPath
<1> QED
  BY <1>2, <1>3 DEF Resting

LEMMA EditIsSound ==
    ASSUME NEW r \in Record, Sound(r), NEW n \in Record,
           n.entries = r.entries, n.leaf = r.leaf, n.queue = r.queue,
           n.active_job = r.active_job, n.began = r.began,
           n.continuation \in {r.continuation, NoId},
           n.approved \in {NoId, n.settings}
    PROVE  Sound(n) /\ Follows(r, n, NoId) /\ Path(n) = Path(r)
<1>1. Tree(r) /\ PendingIsActive(r) /\ ItemsOnce(r) /\ CheckpointIsOnPath(r)
  BY DEF Sound
<1>2. /\ Tree(n) /\ PendingIsActive(n) /\ ItemsOnce(n) /\ Path(n) = Path(r)
      /\ Follows(r, n, NoId) /\ CompleteResponses(n) = CompleteResponses(r)
  BY <1>1, SameMessages
<1>3. CheckpointIsOnPath(n)
  BY <1>1, <1>2 DEF CheckpointIsOnPath
<1> QED
  BY <1>2, <1>3 DEF Sound

(* With no active request, a sound record and one at rest are the same.    *)
LEMMA IdleRests ==
    ASSUME NEW r \in Record, r.active_job = NoId
    PROVE  Sound(r) <=> Resting(r)
BY RecordFacts DEF Sound, Resting, PendingIsActive, NonePending

-----------------------------------------------------------------------------
(* No message and no queued item bears this identifier.                    *)
Unused(r, item) ==
    /\ \A i \in 1..Len(r.entries) : r.entries[i].item # item
    /\ \A k \in 1..Len(r.queue) : r.queue[k].id # item

(* A pushed message leaves what was there, and the checkpoint on the path. *)
LEMMA PushFollows ==
    ASSUME NEW r \in Record, Resting(r), NEW m \in Entries,
           m.role # "Deleted", m.item = NoId \/ Unused(r, m.item),
           NEW n \in Record, Pushed(r, m, n)
    PROVE  /\ Follows(r, n, m.item) /\ ItemsOnce(n)
           /\ CheckpointIsOnPath(n)
           /\ Range(Path(r)) \subseteq Range(Path(n))
<1> DEFINE id == Len(r.entries) + 1
<1>1. /\ Len(r.entries) \in Nat
      /\ Len(n.entries) = id /\ n.leaf = id
      /\ \A i \in 1..Len(r.entries) : n.entries[i] = r.entries[i]
      /\ n.entries[id].item = m.item
      /\ n.queue = r.queue
      /\ \A i \in 1..id : i \in 1..Len(r.entries) \/ i = id
      /\ \A i \in 1..Len(r.entries) : i \in 1..id
  BY RecordFacts DEF Pushed
<1>2. /\ \A i \in 1..Len(r.entries) :
            r.entries[i].item \in QueueItem \union {NoId}
      /\ \A k \in 1..Len(r.queue) : r.queue[k].id \in QueueItem
  BY RecordFacts DEF Entries, Item
<1>3. ItemsOnce(r)
  BY DEF Resting
<1> HIDE DEF id
<1>4. Kept(r, n)
  BY <1>1 DEF Kept
<1>5. Brings(r, n, m.item)
  BY <1>1 DEF Brings
<1>6. ItemsOnce(n)
  <2>1. m.item # NoId =>
           /\ \A i \in 1..Len(r.entries) : r.entries[i].item # m.item
           /\ \A k \in 1..Len(r.queue) : r.queue[k].id # m.item
    BY DEF Unused
  <2>2. ASSUME NEW i \in 1..id, NEW j \in 1..id, n.entries[i].item # NoId,
               n.entries[i].item = n.entries[j].item
        PROVE  i = j
    BY <1>1, <1>3, <2>1, <2>2 DEF ItemsOnce
  <2>3. ASSUME NEW i \in 1..id, NEW k \in 1..Len(n.queue)
        PROVE  n.entries[i].item # n.queue[k].id
    <3>1. CASE i \in 1..Len(r.entries)
      BY <1>1, <1>3, <3>1 DEF ItemsOnce
    <3>2. CASE i = id
      BY <1>1, <1>2, <2>1, <3>2
    <3> QED
      BY <1>1, <3>1, <3>2
  <2>4. \A k, l \in 1..Len(n.queue) : n.queue[k].id = n.queue[l].id => k = l
    BY <1>1, <1>3 DEF ItemsOnce
  <2> QED
    BY <1>1, <2>2, <2>3, <2>4 DEF ItemsOnce
<1>7. Range(Path(r)) \subseteq Range(Path(n))
  BY DEF Pushed
<1>8. CheckpointIsOnPath(n)
  <2>1. CASE r.continuation = NoId
    BY <2>1 DEF Pushed, CheckpointIsOnPath
  <2>2. CASE r.continuation # NoId
    <3> DEFINE b == r.continuation.boundary
    <3>1. /\ b \in Range(Path(r)) /\ r.entries[b].role = "Assistant"
          /\ r.entries[b].status = "Complete"
      BY <2>2 DEF Resting, CheckpointIsOnPath, CompleteResponses
    <3>2. b \in 1..Len(r.entries)
      BY <3>1, PathFacts DEF Resting
    <3>3. n.entries[b] = r.entries[b] /\ n.continuation = r.continuation
      BY <1>1, <3>2 DEF Pushed
    <3> QED
      BY <1>7, <3>1, <3>3 DEF CheckpointIsOnPath, CompleteResponses
  <2> QED
    BY <2>1, <2>2
<1> QED
  BY <1>1, <1>4, <1>5, <1>6, <1>7, <1>8 DEF Follows

(* A settled message leaves the record at rest.                            *)
LEMMA PushRests ==
    ASSUME NEW r \in Record, Resting(r), NEW m \in Entries,
           m.role # "Deleted", m.item = NoId \/ Unused(r, m.item),
           m.status # "Pending"
    PROVE  LET n == PushMessage(r, m)
           IN Resting(n) /\ Follows(r, n, m.item) /\ Pushed(r, m, n)
<1> DEFINE n == PushMessage(r, m)
<1>1. Pushed(r, m, n)
  BY PushGrows DEF Resting
<1> HIDE DEF n
<1>2. n \in Record
  BY <1>1 DEF Pushed
<1>3. Follows(r, n, m.item) /\ ItemsOnce(n) /\ CheckpointIsOnPath(n)
  BY <1>1, <1>2, PushFollows
<1>4. NonePending(n)
  <2> DEFINE id == Len(r.entries) + 1
  <2>1. /\ Len(n.entries) = id
        /\ \A i \in 1..Len(r.entries) : n.entries[i] = r.entries[i]
        /\ n.entries[id].status = m.status
        /\ \A i \in 1..id : i \in 1..Len(r.entries) \/ i = id
    BY <1>1, RecordFacts DEF Pushed
  <2> HIDE DEF id
  <2> QED
    BY <2>1 DEF NonePending, Resting
<1>5. Tree(n) /\ n.approved \in {NoId, n.settings}
  BY <1>1 DEF Pushed, Resting
<1> QED
  BY <1>1, <1>2, <1>3, <1>4, <1>5 DEF Resting, n

(* A pending message of the active job makes the record sound.             *)
LEMMA WorkBegins ==
    ASSUME NEW r \in Record, Resting(r), NEW m \in Entries,
           m.role # "Deleted", m.item = NoId,
           m.status = "Pending", m.request # NoId, ~m.text,
           NEW kind \in {"message", "command", "compaction"}
    PROVE  LET n == [PushMessage(r, m) EXCEPT !.active_job = m.request,
                                              !.began = kind]
           IN /\ n \in Record /\ Sound(n)
              /\ Follows(r, n, NoId)
              /\ Range(Path(r)) \subseteq Range(Path(n))
<1> DEFINE p == PushMessage(r, m)
           n == [p EXCEPT !.active_job = m.request, !.began = kind]
<1>1. Pushed(r, m, p)
  BY PushGrows DEF Resting
<1> HIDE DEF p
<1>2. p \in Record
  BY <1>1 DEF Pushed
<1>3. /\ Follows(r, p, NoId) /\ ItemsOnce(p) /\ CheckpointIsOnPath(p)
      /\ Range(Path(r)) \subseteq Range(Path(p)) /\ Tree(p)
  BY <1>1, <1>2, PushFollows DEF Pushed
<1>4. /\ n \in Record
      /\ n.entries = p.entries /\ n.leaf = p.leaf /\ n.queue = p.queue
      /\ n.active_job = m.request /\ n.began = kind
      /\ n.continuation = p.continuation
      /\ n.settings = p.settings /\ n.approved = p.approved
  <2>1. m.request \in JobId \union {NoId}
    BY EntryFacts
  <2> QED
    BY <1>2, <2>1 DEF Record
<1> HIDE DEF n
<1>5. /\ Tree(n) /\ Path(n) = Path(p) /\ Follows(p, n, NoId) /\ ItemsOnce(n)
      /\ CompleteResponses(n) = CompleteResponses(p)
  BY <1>2, <1>3, <1>4, SameMessages
<1>6. Follows(r, n, NoId)
  BY <1>2, <1>3, <1>4, <1>5, FollowsOn
<1>7. PendingIsActive(n) /\ ~n.entries[n.leaf].text
  <2> DEFINE id == Len(r.entries) + 1
  <2>1. /\ Len(p.entries) = id /\ p.leaf = id /\ id # 0
        /\ \A i \in 1..Len(r.entries) : p.entries[i] = r.entries[i] /\ i # id
        /\ p.entries[id].status = m.status
        /\ p.entries[id].request = m.request
        /\ p.entries[id].text = m.text
        /\ \A i \in 1..id : i \in 1..Len(r.entries) \/ i = id
    BY <1>1, RecordFacts DEF Pushed
  <2> HIDE DEF id
  <2> QED
    BY <1>4, <2>1 DEF PendingIsActive, NonePending, Resting
<1>8. CheckpointIsOnPath(n) /\ n.approved \in {NoId, n.settings}
  BY <1>1, <1>3, <1>4, <1>5 DEF CheckpointIsOnPath, Resting, Pushed
<1> QED
  BY <1>3, <1>4, <1>5, <1>6, <1>7, <1>8 DEF Sound, n, p

LEMMA UserMessageFacts ==
    ASSUME NEW item \in QueueItem \union {NoId}
    PROVE  /\ UserMessage(item) \in Entries
           /\ UserMessage(item).role = "User"
           /\ UserMessage(item).item = item
           /\ UserMessage(item).status = "Complete"
<1>1. <<>> \in Seq(Nat)
  OBVIOUS
<1> DEFINE m == Message("User", "Complete", NoId, item)
<1>2. /\ m \in Entries /\ m.role = "User" /\ m.item = item
      /\ m.status = "Complete"
  BY <1>1 DEF Message, Entries, MessageStatus, Settled
<1>3. UserMessage(item) = [m EXCEPT !.text = TRUE]
  BY DEF UserMessage
<1> HIDE DEF m
<1> QED
  BY <1>2, <1>3 DEF Entries

LEMMA WorkMessageFacts ==
    ASSUME NEW job \in JobId,
           NEW m \in {PendingPhase(job), CommandMessage(job)}
    PROVE  /\ m \in Entries /\ m.role \in {"Assistant", "Command"}
           /\ m.role # "Deleted" /\ m.item = NoId /\ m.status = "Pending"
           /\ m.request = job /\ m.request # NoId /\ m.text = FALSE
<1>1. <<>> \in Seq(Nat)
  OBVIOUS
<1>2. PICK role \in {"Assistant", "Command"} :
        m = [role |-> role, status |-> "Pending", request |-> job,
             item |-> NoId, final_phase |-> FALSE, text |-> FALSE,
             path |-> <<>>]
  BY DEF PendingPhase, CommandMessage, Message
<1> QED
  BY <1>1, <1>2 DEF Entries, MessageStatus, Settled

(* A request begins with the user's message and a pending response.        *)
LEMMA RequestBegins ==
    ASSUME NEW r \in Record, Resting(r), NEW job \in JobId,
           NEW item \in QueueItem \union {NoId},
           item = NoId \/ Unused(r, item)
    PROVE  LET n == BeginRequest(r, job, item)
           IN /\ n \in Record /\ Sound(n)
              /\ Follows(r, n, item)
              /\ Range(Path(r)) \subseteq Range(Path(n))
<1> DEFINE m == UserMessage(item)
           p == PushMessage(r, m)
           n == BeginRequest(r, job, item)
<1>1. /\ m \in Entries /\ m.role = "User" /\ m.item = item
      /\ m.status = "Complete"
  BY UserMessageFacts
<1> HIDE DEF m
<1>2. Resting(p) /\ Follows(r, p, item) /\ Pushed(r, m, p)
  BY <1>1, PushRests
<1>3. Range(Path(r)) \subseteq Range(Path(p)) /\ p \in Record
  BY <1>2 DEF Pushed
<1>4. n = [PushMessage(p, PendingPhase(job)) EXCEPT
              !.active_job = PendingPhase(job).request, !.began = "message"]
  BY DEF BeginRequest, BeginWork, m
<1> HIDE DEF p, n
<1>5. /\ n \in Record /\ Sound(n) /\ Follows(p, n, NoId)
      /\ Range(Path(p)) \subseteq Range(Path(n))
  BY <1>2, <1>3, <1>4, WorkMessageFacts, WorkBegins
<1>6. Follows(r, n, item)
  BY <1>2, <1>3, <1>5, FollowsOn
<1> QED
  BY <1>3, <1>5, <1>6 DEF n

(* write_messages deletes nothing when the new path extends the old one.   *)
LEMMA NothingIsDeleted ==
    ASSUME NEW previous, NEW n \in Record,
           Range(previous) \subseteq Range(Path(n))
    PROVE  Written(previous, n) = n
<1>1. \A i \in DOMAIN n.entries : i \notin Range(previous) \ Range(Path(n))
  OBVIOUS
<1>2. n.entries = [i \in DOMAIN n.entries |-> n.entries[i]]
  <2>1. n.entries \in [1..Len(n.entries) -> Entries]
    BY RecordFacts, LenProperties
  <2> QED
    BY <2>1
<1> DEFINE es == [i \in DOMAIN n.entries |->
                     IF i \in Range(previous) \ Range(Path(n))
                     THEN Deleted ELSE n.entries[i]]
<1>3. es = n.entries
  BY <1>1, <1>2
<1>4. Written(previous, n) = [n EXCEPT !.entries = es]
  BY DEF Written
<1> HIDE DEF es
<1> QED
  BY <1>3, <1>4 DEF Record

-----------------------------------------------------------------------------
(* The pending message of the active request is the active leaf.           *)
LEMMA PendingIsLeaf ==
    ASSUME NEW r \in Record, Sound(r), r.active_job # NoId
    PROVE  /\ r.leaf \in 1..Len(r.entries) /\ r.leaf \in Range(Path(r))
           /\ r.entries[r.leaf].status = "Pending"
           /\ r.entries[r.leaf].role # "Deleted"
           /\ PendingOf(r, r.active_job) = {r.leaf}
           /\ Max(PendingOf(r, r.active_job)) = r.leaf
<1>1. /\ r.leaf \in 1..Len(r.entries)
      /\ r.entries[r.leaf].status = "Pending"
      /\ r.entries[r.leaf].request = r.active_job
      /\ r.entries[r.leaf].role # "Deleted"
      /\ \A i \in 1..Len(r.entries) :
            r.entries[i].status = "Pending" => i = r.leaf
  BY RecordFacts DEF Sound, Tree, PendingIsActive
<1>2. r.leaf \in Range(Path(r)) /\ Range(Path(r)) \subseteq 1..Len(r.entries)
  BY <1>1, PathFacts DEF Sound
<1>3. PendingOf(r, r.active_job) = {r.leaf}
  BY <1>1, <1>2 DEF PendingOf
<1>4. Max({r.leaf}) = r.leaf
  BY RecordFacts DEF Max
<1> QED
  BY <1>1, <1>2, <1>3, <1>4

LEMMA LeafSettles ==
    ASSUME NEW r \in Record, Sound(r), r.active_job # NoId,
           NEW n \in Record,
           Len(n.entries) = Len(r.entries), n.leaf = r.leaf,
           n.queue = r.queue, n.continuation \in {r.continuation, NoId},
           n.approved \in {NoId, n.settings},
           \A i \in 1..Len(r.entries) :
              i # r.leaf => n.entries[i] = r.entries[i],
           n.entries[r.leaf].path = r.entries[r.leaf].path,
           n.entries[r.leaf].role = r.entries[r.leaf].role,
           n.entries[r.leaf].item = r.entries[r.leaf].item,
           n.entries[r.leaf].status # "Pending",
           r.entries[r.leaf].text => n.entries[r.leaf].text
    PROVE  Resting(n) /\ Follows(r, n, NoId) /\ Path(n) = Path(r)
<1>1. /\ r.leaf \in 1..Len(r.entries)
      /\ r.entries[r.leaf].status = "Pending"
      /\ \A i \in 1..Len(r.entries) :
            r.entries[i].status = "Pending" => i = r.leaf
      /\ Tree(r) /\ ItemsOnce(r) /\ CheckpointIsOnPath(r)
  BY PendingIsLeaf DEF Sound, PendingIsActive
<1>2. \A i \in 1..Len(r.entries) :
         /\ n.entries[i].path = r.entries[i].path
         /\ n.entries[i].role = r.entries[i].role
         /\ n.entries[i].item = r.entries[i].item
         /\ n.entries[i].status # "Pending"
         /\ r.entries[i].text => n.entries[i].text
  BY <1>1
<1>3. Tree(n) /\ Path(n) = Path(r)
  BY <1>1, <1>2, InPlaceKeepsTree
<1>4. NonePending(n) /\ ItemsOnce(n)
  BY <1>1, <1>2 DEF NonePending, ItemsOnce
<1>5. Kept(r, n)
  BY <1>1, <1>2 DEF Kept, Settled
<1>6. Brings(r, n, NoId)
  BY <1>2 DEF Brings
<1>7. CheckpointIsOnPath(n)
  <2>1. \A i \in CompleteResponses(r) : i \in CompleteResponses(n)
    BY <1>1, <1>3, PathFacts DEF CompleteResponses
  <2> QED
    BY <1>1, <2>1 DEF CheckpointIsOnPath
<1> QED
  BY <1>3, <1>4, <1>5, <1>6, <1>7 DEF Resting, Follows

LEMMA SettledEntry ==
    ASSUME NEW r \in Record, Sound(r), r.active_job # NoId,
           NEW status \in Settled, NEW final \in BOOLEAN, NEW text \in BOOLEAN
    PROVE  LET n == SettleEntry(r, r.active_job, status, final, text)
           IN /\ n \in Record /\ Resting(n) /\ Follows(r, n, NoId)
              /\ Path(n) = Path(r)
              /\ n.active_job = r.active_job /\ n.began = r.began
              /\ n.queue = r.queue /\ n.leaf = r.leaf
              /\ n.continuation = r.continuation
              /\ n.approved = r.approved /\ n.settings = r.settings
              /\ n.revision = r.revision
<1> DEFINE leaf == r.leaf
           e == r.entries[leaf]
           settled == [e EXCEPT !.status = status, !.final_phase = final,
                                !.text = e.text \/ text]
           es == [r.entries EXCEPT ![leaf] = settled]
           n == SettleEntry(r, r.active_job, status, final, text)
<1>1. /\ leaf \in 1..Len(r.entries) /\ Max(PendingOf(r, r.active_job)) = leaf
      /\ e \in Entries /\ r.entries \in Seq(Entries)
      /\ e.text \in BOOLEAN
  BY PendingIsLeaf, RecordFacts, EntryFacts
<1>2. n = [r EXCEPT !.entries = es]
  BY <1>1 DEF SettleEntry
<1>3. /\ settled \in Entries /\ settled.path = e.path /\ settled.role = e.role
      /\ settled.item = e.item /\ settled.status # "Pending"
      /\ e.text => settled.text
  BY <1>1 DEF Entries, MessageStatus, Settled
<1> HIDE DEF settled
<1>4. /\ es \in Seq(Entries) /\ Len(es) = Len(r.entries)
      /\ es[leaf] = settled
      /\ \A i \in 1..Len(r.entries) : i # leaf => es[i] = r.entries[i]
  BY <1>1, <1>3, ExceptSeq
<1> HIDE DEF es
<1>5. /\ n \in Record
      /\ n.entries = es /\ n.leaf = r.leaf /\ n.queue = r.queue
      /\ n.active_job = r.active_job /\ n.began = r.began
      /\ n.continuation = r.continuation /\ n.revision = r.revision
      /\ n.approved = r.approved /\ n.settings = r.settings
  BY <1>2, <1>4 DEF Record
<1> HIDE DEF n
<1>6. n.approved \in {NoId, n.settings}
  BY <1>5 DEF Sound
<1>7. Resting(n) /\ Follows(r, n, NoId) /\ Path(n) = Path(r)
  BY <1>3, <1>4, <1>5, <1>6, LeafSettles
<1> QED
  BY <1>5, <1>7 DEF n

-----------------------------------------------------------------------------
(* Choosing another retained message as the leaf.                          *)
LEMMA LeafMoves ==
    ASSUME NEW r \in Record, Resting(r), NEW n \in Record,
           n.entries = r.entries, n.queue = r.queue,
           n.leaf \in 0..Len(r.entries),
           n.leaf # 0 => r.entries[n.leaf].role # "Deleted",
           n.continuation = NoId, n.approved \in {NoId, n.settings}
    PROVE  Resting(n) /\ Follows(r, n, NoId)
<1>1. Tree(r) /\ NonePending(r) /\ ItemsOnce(r)
  BY DEF Resting
<1>2. \A i \in 1..Len(r.entries) : PathFits(r, i) => PathFits(n, i)
  BY DEF PathFits
<1>3. Tree(n)
  BY <1>1, <1>2 DEF Tree
<1>4. NonePending(n) /\ ItemsOnce(n) /\ CheckpointIsOnPath(n)
  BY <1>1 DEF NonePending, ItemsOnce, CheckpointIsOnPath
<1>5. Follows(r, n, NoId)
  BY RecordFacts DEF Follows, Kept, Brings
<1> QED
  BY <1>3, <1>4, <1>5 DEF Resting

-----------------------------------------------------------------------------
(* The path before its last message.                                       *)
LEMMA BeforeFacts ==
    ASSUME NEW path \in Seq(Nat), Len(path) >= 1
    PROVE  LET rest == Before(path)
           IN /\ rest \in Seq(Nat) /\ Len(rest) = Len(path) - 1
              /\ rest = <<>> <=> Len(path) = 1
              /\ rest # <<>> => Last(rest) = path[Len(path) - 1]
              /\ \A x : x \in Range(path) <=>
                           x \in Range(rest) \/ x = path[Len(path)]
<1> DEFINE rest == Before(path)
           m == Len(path) - 1
<1>1. Len(path) \in Nat /\ m \in Nat /\ \A k \in 1..m : path[k] \in Nat
  OBVIOUS
<1>2. /\ rest \in Seq(Nat) /\ Len(rest) = m
      /\ \A k \in 1..m : rest[k] = path[k]
  <2>1. rest = SubSeq(path, 1, m)
    BY DEF Before
  <2> HIDE DEF rest, m
  <2>2. /\ SubSeq(path, 1, m) \in Seq(Nat)
        /\ Len(SubSeq(path, 1, m)) = IF 1 <= m THEN m - 1 + 1 ELSE 0
        /\ \A i \in 1..m - 1 + 1 : SubSeq(path, 1, m)[i] = path[1 + i - 1]
    BY <1>1, SubSeqProperties
  <2> QED
    BY <1>1, <2>1, <2>2
<1> HIDE DEF rest
<1>3. rest = <<>> <=> Len(path) = 1
  BY <1>1, <1>2, EmptySeq
<1>4. rest # <<>> => Last(rest) = path[Len(path) - 1]
  BY <1>1, <1>2, <1>3 DEF Last
<1>5. /\ \A x : x \in Range(rest) <=> \E k \in 1..m : x = rest[k]
      /\ \A x : x \in Range(path) <=> \E k \in 1..Len(path) : x = path[k]
  <2>1. /\ Range(rest) = {rest[k] : k \in 1..Len(rest)}
        /\ Range(path) = {path[k] : k \in 1..Len(path)}
    BY <1>2, RangeEquality
  <2> QED
    BY <1>2, <2>1
<1>6. ASSUME NEW x
      PROVE  x \in Range(path) <=> x \in Range(rest) \/ x = path[Len(path)]
  <2>1. ASSUME x \in Range(path)
        PROVE  x \in Range(rest) \/ x = path[Len(path)]
    <3>1. PICK k \in 1..Len(path) : x = path[k]
      BY <1>5, <2>1
    <3>2. k \in 1..m \/ k = Len(path)
      BY <1>1
    <3> QED
      BY <1>2, <1>5, <3>1, <3>2
  <2>2. ASSUME x \in Range(rest) PROVE x \in Range(path)
    <3>1. PICK k \in 1..m : x = rest[k]
      BY <1>5, <2>2
    <3>2. k \in 1..Len(path)
      BY <1>1
    <3> QED
      BY <1>2, <1>5, <3>1, <3>2
  <2>3. Len(path) \in 1..Len(path)
    BY <1>1
  <2> QED
    BY <1>5, <2>1, <2>2, <2>3
<1> QED
  BY <1>2, <1>3, <1>4, <1>6 DEF rest

(* The parent of a message is the leaf of the path before it.              *)
LEMMA ParentFacts ==
    ASSUME NEW r \in Record, Tree(r), NEW i \in 1..Len(r.entries),
           r.entries[i].role # "Deleted"
    PROVE  LET rest == Before(r.entries[i].path)
               parent == IF rest = <<>> THEN 0 ELSE Last(rest)
           IN /\ parent \in 0..Len(r.entries) /\ parent < i
              /\ parent # 0 => /\ r.entries[parent].role # "Deleted"
                               /\ r.entries[parent].status # "Pending"
                               /\ r.entries[parent].path = rest
              /\ parent = 0 => rest = <<>>
<1> DEFINE path == r.entries[i].path
           rest == Before(path)
           parent == IF rest = <<>> THEN 0 ELSE Last(rest)
<1>1. PathFits(r, i) /\ path \in Seq(Nat) /\ Len(path) \in Nat
      /\ Len(path) >= 1 /\ Len(r.entries) \in Nat
  BY RecordFacts, EntryFacts DEF Tree, PathFits
<1>2. /\ rest = <<>> <=> Len(path) = 1
      /\ rest # <<>> => Last(rest) = path[Len(path) - 1]
  BY <1>1, BeforeFacts
<1>3. rest = SubSeq(path, 1, Len(path) - 1)
  BY DEF Before
<1>4. CASE rest = <<>>
  <2>1. parent = 0
    BY <1>4
  <2> QED
    BY <1>1, <1>4, <2>1
<1>5. CASE rest # <<>>
  <2> DEFINE k == Len(path) - 1
  <2>1. k \in 1..Len(path) /\ k < Len(path)
    <3>1. Len(path) \in Nat /\ Len(path) >= 1 /\ Len(path) # 1
      BY <1>1, <1>2, <1>5
    <3>2. \A m \in Nat : m >= 1 /\ m # 1 => m - 1 \in 1..m /\ m - 1 < m
      OBVIOUS
    <3> HIDE DEF path
    <3> QED
      BY <3>1, <3>2
  <2>2. parent = path[k]
    BY <1>2, <1>5
  <2>3. /\ path[k] \in 1..i /\ r.entries[path[k]].role # "Deleted"
        /\ r.entries[path[k]].path = SubSeq(path, 1, k)
        /\ path[k] < i /\ r.entries[path[k]].status # "Pending"
    BY <1>1, <2>1 DEF PathFits
  <2>4. path[k] \in 0..Len(r.entries) /\ path[k] # 0
    <3>1. \A x \in 1..i : x \in 0..Len(r.entries) /\ x # 0
      BY <1>1
    <3> QED
      BY <2>3, <3>1
  <2>5. r.entries[path[k]].path = rest
    BY <1>3, <2>3
  <2> HIDE DEF rest, path, parent
  <2> QED
    BY <2>2, <2>3, <2>4, <2>5 DEF rest, path, parent
<1> QED
  BY <1>4, <1>5

(* Dropping a pending message that said nothing.                           *)
LEMMA LeafPops ==
    ASSUME NEW r \in Record, Sound(r), r.active_job # NoId,
           ~r.entries[r.leaf].text,
           NEW n \in Record,
           n.entries = r.entries, n.leaf = PopMessage(r).leaf,
           n.queue = r.queue,
           n.approved \in {NoId, n.settings}
    PROVE  LET w == Written(Path(r), n)
           IN /\ w \in Record /\ Tree(w) /\ NonePending(w) /\ ItemsOnce(w)
              /\ Follows(r, w, NoId)
              /\ w = [n EXCEPT !.entries = w.entries]
              /\ CompleteResponses(r) \subseteq CompleteResponses(w)
              /\ CompleteResponses(n) = CompleteResponses(w)
<1> DEFINE leaf == r.leaf
           path == Path(r)
           rest == Before(path)
           w == Written(path, n)
<1>1. /\ leaf \in 1..Len(r.entries) /\ leaf \in Range(path)
      /\ r.entries[leaf].status = "Pending" /\ r.entries[leaf].role # "Deleted"
      /\ leaf # 0
      /\ \A i \in 1..Len(r.entries) :
            r.entries[i].status = "Pending" => i = leaf
      /\ Tree(r) /\ ItemsOnce(r) /\ Len(r.entries) \in Nat
  BY PendingIsLeaf, RecordFacts DEF Sound, PendingIsActive
<1>2. /\ path = r.entries[leaf].path /\ path \in Seq(Nat) /\ Len(path) \in Nat
      /\ Len(path) >= 1 /\ path[Len(path)] = leaf
      /\ Range(path) \subseteq 1..Len(r.entries)
      /\ \A i \in Range(path) : i \in 1..leaf
  BY <1>1, PathFacts
<1>3. /\ n.leaf \in 0..Len(r.entries) /\ n.leaf < leaf
      /\ n.leaf # 0 => /\ r.entries[n.leaf].role # "Deleted"
                       /\ r.entries[n.leaf].path = rest
      /\ n.leaf = 0 => rest = <<>>
  <2>1. n.leaf = IF rest = <<>> THEN 0 ELSE Last(rest)
    BY DEF PopMessage, Record
  <2> QED
    BY <1>1, <1>2, <2>1, ParentFacts
<1>4. Path(n) = rest
  BY <1>3 DEF Path
<1>5. /\ rest \in Seq(Nat)
      /\ \A x : x \in Range(path) <=> x \in Range(rest) \/ x = leaf
  BY <1>2, BeforeFacts
<1>6. leaf \notin Range(rest)
  <2>1. CASE n.leaf = 0
    BY <1>3, <2>1 DEF Range
  <2>2. CASE n.leaf # 0
    <3>1. n.leaf \in 1..Len(r.entries) /\ PathFits(r, n.leaf)
      BY <1>1, <1>3, <2>2 DEF Tree
    <3>2. \A k \in 1..Len(rest) : rest[k] \in 1..n.leaf
      BY <1>3, <2>2, <3>1 DEF PathFits
    <3>3. \A k \in 1..Len(rest) : rest[k] # leaf
      BY <1>1, <1>3, <3>2
    <3> QED
      BY <1>5, <3>3 DEF Range
  <2> QED
    BY <2>1, <2>2
<1> DEFINE es == [i \in DOMAIN n.entries |->
                     IF i \in Range(path) \ Range(Path(n))
                     THEN Deleted ELSE n.entries[i]]
<1>7. w = [n EXCEPT !.entries = es]
  BY DEF Written
<1>8. /\ es \in Seq(Entries) /\ Len(es) = Len(r.entries)
      /\ es[leaf] = Deleted
      /\ \A i \in 1..Len(r.entries) : i # leaf => es[i] = r.entries[i]
  <2>1. DOMAIN n.entries = 1..Len(r.entries)
    BY RecordFacts
  <2>2. Deleted \in Entries
    <3>1. <<>> \in Seq(Nat)
      OBVIOUS
    <3> QED
      BY <3>1 DEF Deleted, Message, Entries, MessageStatus, Settled
  <2>3. \A i \in 1..Len(r.entries) :
           i \in Range(path) \ Range(Path(n)) <=> i = leaf
    BY <1>1, <1>4, <1>5, <1>6
  <2>4. \A i \in 1..Len(r.entries) :
           es[i] = IF i = leaf THEN Deleted ELSE r.entries[i]
    BY <2>1, <2>3
  <2>5. \A i \in 1..Len(r.entries) : es[i] \in Entries
    BY <2>2, <2>4, RecordFacts
  <2>6. es \in [1..Len(r.entries) -> Entries]
    BY <2>1, <2>5
  <2>7. es \in Seq(Entries) /\ Len(es) = Len(r.entries)
    <3> HIDE DEF es
    <3> QED
      BY <1>1, <2>6, IsASeq
  <2> QED
    BY <1>1, <2>4, <2>7
<1> HIDE DEF es
<1>9. /\ w \in Record /\ w.entries = es /\ w.leaf = n.leaf
      /\ w.queue = r.queue /\ w.continuation = n.continuation
      /\ w.approved = n.approved /\ w.settings = n.settings
  BY <1>7, <1>8 DEF Record
<1> HIDE DEF w
<1>10. /\ Deleted.role = "Deleted" /\ Deleted.status = "Failed"
       /\ Deleted.item = NoId /\ Deleted.path = <<>>
  BY DEF Deleted, Message
<1>11. ASSUME NEW i \in 1..Len(r.entries), i # leaf, PathFits(r, i)
       PROVE  PathFits(w, i)
  <2> DEFINE p == r.entries[i].path
  <2>1. w.entries[i].path = p
    BY <1>8, <1>9, <1>11
  <2>2. \A k \in 1..Len(p) : p[k] \in 1..Len(r.entries)
    BY <1>1, <1>11 DEF PathFits
  <2>3. \A k \in 1..Len(p) : p[k] # leaf
    <3> SUFFICES ASSUME NEW k \in 1..Len(p), p[k] = leaf PROVE FALSE
      OBVIOUS
    <3>1. k < Len(p) \/ k = Len(p)
      BY RecordFacts, EntryFacts
    <3> QED
      BY <1>1, <1>11, <3>1 DEF PathFits
  <2>4. \A k \in 1..Len(p) : w.entries[p[k]] = r.entries[p[k]]
    BY <1>8, <1>9, <2>2, <2>3
  <2> HIDE DEF p
  <2>5. /\ Len(p) >= 1 /\ p[Len(p)] = i
        /\ \A k \in 1..Len(p) :
              /\ p[k] \in 1..i
              /\ r.entries[p[k]].role # "Deleted"
              /\ r.entries[p[k]].path = SubSeq(p, 1, k)
              /\ k < Len(p) => /\ p[k] < i
                               /\ r.entries[p[k]].status # "Pending"
    BY <1>11 DEF PathFits, p
  <2> QED
    BY <2>1, <2>4, <2>5 DEF PathFits
<1>12. Tree(w)
  <2>1. n.leaf # 0 => /\ n.leaf \in 1..Len(r.entries) /\ n.leaf # leaf
                      /\ r.entries[n.leaf].role # "Deleted"
    BY <1>1, <1>3
  <2>2. w.leaf # 0 => w.entries[w.leaf].role # "Deleted"
    BY <1>8, <1>9, <2>1
  <2>3. ASSUME NEW i \in 1..Len(r.entries)
        PROVE  IF w.entries[i].role = "Deleted" THEN w.entries[i].path = <<>>
               ELSE PathFits(w, i)
    <3>1. CASE i = leaf
      BY <1>1, <1>8, <1>9, <1>10, <3>1
    <3>2. CASE i # leaf
      BY <1>1, <1>8, <1>9, <1>11, <3>2 DEF Tree
    <3> QED
      BY <3>1, <3>2
  <2>4. Len(w.entries) = Len(r.entries) /\ w.leaf \in 0..Len(r.entries)
    BY <1>3, <1>8, <1>9
  <2> QED
    BY <2>2, <2>3, <2>4 DEF Tree
<1>13. NonePending(w) /\ ItemsOnce(w)
  <2>1. \A i \in 1..Len(r.entries) :
           /\ w.entries[i].item \in {r.entries[i].item, NoId}
           /\ w.entries[i].status # "Pending"
    BY <1>1, <1>8, <1>9, <1>10
  <2>2. \A k \in 1..Len(r.queue) : r.queue[k].id # NoId
    BY RecordFacts DEF Item
  <2>3. Len(w.entries) = Len(r.entries) /\ w.queue = r.queue
    BY <1>8, <1>9
  <2>4. /\ \A i, j \in 1..Len(r.entries) :
              r.entries[i].item = r.entries[j].item
              /\ r.entries[i].item # NoId => i = j
        /\ \A i \in 1..Len(r.entries), k \in 1..Len(r.queue) :
              r.entries[i].item # r.queue[k].id
        /\ \A k, l \in 1..Len(r.queue) : r.queue[k].id = r.queue[l].id => k = l
    BY <1>1 DEF ItemsOnce
  <2>5. ASSUME NEW i \in 1..Len(r.entries), NEW j \in 1..Len(r.entries),
               w.entries[i].item = w.entries[j].item, w.entries[i].item # NoId
        PROVE  i = j
    BY <2>1, <2>4, <2>5
  <2>6. ASSUME NEW i \in 1..Len(r.entries), NEW k \in 1..Len(r.queue)
        PROVE  w.entries[i].item # r.queue[k].id
    BY <2>1, <2>2, <2>4
  <2>7. ItemsOnce(w)
    BY <2>3, <2>4, <2>5, <2>6 DEF ItemsOnce
  <2> QED
    BY <2>1, <2>3, <2>7 DEF NonePending
<1>14. Follows(r, w, NoId)
  BY <1>1, <1>8, <1>9, <1>10 DEF Follows, Kept, Brings, Settled
<1>15. Path(w) = rest
  BY <1>1, <1>3, <1>8, <1>9 DEF Path
<1>16. \A i \in Range(rest) : w.entries[i] = r.entries[i]
  BY <1>2, <1>5, <1>6, <1>8, <1>9
<1>17. CompleteResponses(n) = CompleteResponses(w)
  BY <1>4, <1>15, <1>16 DEF CompleteResponses
<1>18. CompleteResponses(r) \subseteq CompleteResponses(w)
  BY <1>1, <1>5, <1>15, <1>16 DEF CompleteResponses
<1> QED
  BY <1>7, <1>9, <1>12, <1>13, <1>14, <1>17, <1>18 DEF w

-----------------------------------------------------------------------------
(* Taking an item out of the queue.                                        *)
LEMMA RemovedFacts ==
    ASSUME NEW S, NEW q \in Seq(S), NEW at \in 1..Len(q)
    PROVE  LET rest == RemoveAt(q, at)
           IN /\ rest \in Seq(S) /\ Len(rest) = Len(q) - 1
              /\ \A k \in 1..Len(q) - 1 :
                    rest[k] = IF k < at THEN q[k] ELSE q[k + 1]
<1> DEFINE a == SubSeq(q, 1, at - 1)
           b == SubSeq(q, at + 1, Len(q))
           rest == RemoveAt(q, at)
<1>1. /\ Len(q) \in Nat /\ at \in Nat /\ at >= 1 /\ at <= Len(q)
      /\ \A i \in 1..Len(q) : q[i] \in S
      /\ \A i \in 1..at - 1 : q[i] \in S
      /\ \A i \in at + 1..Len(q) : q[i] \in S
  OBVIOUS
<1>2. /\ a \in Seq(S) /\ Len(a) = at - 1
      /\ \A i \in 1..at - 1 : a[i] = q[i]
  <2>1. /\ a \in Seq(S)
        /\ Len(a) = IF 1 <= at - 1 THEN at - 1 - 1 + 1 ELSE 0
        /\ \A i \in 1..at - 1 - 1 + 1 : a[i] = q[1 + i - 1]
    BY <1>1, SubSeqProperties
  <2> QED
    BY <1>1, <2>1
<1>3. /\ b \in Seq(S) /\ Len(b) = Len(q) - at
      /\ \A i \in 1..Len(q) - at : b[i] = q[at + i]
  <2>1. /\ b \in Seq(S)
        /\ Len(b) = IF at + 1 <= Len(q) THEN Len(q) - (at + 1) + 1 ELSE 0
        /\ \A i \in 1..Len(q) - (at + 1) + 1 : b[i] = q[at + 1 + i - 1]
    BY <1>1, SubSeqProperties
  <2> QED
    BY <1>1, <2>1
<1>4. rest = a \o b
  BY DEF RemoveAt
<1> HIDE DEF a, b, rest
<1>5. /\ rest \in Seq(S) /\ Len(rest) = Len(a) + Len(b)
      /\ \A i \in 1..Len(a) + Len(b) :
            rest[i] = IF i <= Len(a) THEN a[i] ELSE b[i - Len(a)]
  <2>1. /\ a \o b \in Seq(S) /\ Len(a \o b) = Len(a) + Len(b)
        /\ \A i \in 1..Len(a) + Len(b) :
              (a \o b)[i] = IF i <= Len(a) THEN a[i] ELSE b[i - Len(a)]
    <3>1. a \in Seq(S) /\ b \in Seq(S)
      BY <1>2, <1>3
    <3> QED
      BY <3>1, ConcatProperties
  <2> QED
    BY <1>4, <2>1
<1>6. ASSUME NEW k \in 1..Len(q) - 1
      PROVE  rest[k] = IF k < at THEN q[k] ELSE q[k + 1]
  <2>1. CASE k < at
    <3>1. k \in 1..Len(a) + Len(b) /\ k <= Len(a) /\ k \in 1..at - 1
      BY <1>1, <1>2, <1>3, <2>1
    <3>2. rest[k] = a[k]
      BY <1>5, <3>1
    <3> QED
      BY <1>2, <2>1, <3>1, <3>2
  <2>2. CASE ~ (k < at)
    <3>1. rest[k] = b[k - (at - 1)]
      <4>1. k \in 1..Len(a) + Len(b) /\ ~ (k <= Len(a))
        BY <1>1, <1>2, <1>3, <2>2
      <4> QED
        BY <1>2, <1>5, <4>1
    <3>2. k - (at - 1) \in 1..Len(q) - at /\ at + (k - (at - 1)) = k + 1
      BY <1>1, <2>2
    <3> QED
      BY <1>3, <2>2, <3>1, <3>2
  <2> QED
    BY <2>1, <2>2
<1> QED
  BY <1>1, <1>2, <1>3, <1>5, <1>6 DEF rest

LEMMA DequeueFacts ==
    ASSUME NEW r \in Record, ItemsOnce(r), NEW item \in Queued(r)
    PROVE  LET n == Dequeue(r, item)
           IN /\ n \in Record /\ ItemsOnce(n) /\ Unused(n, item)
              /\ n.entries = r.entries /\ n.leaf = r.leaf
              /\ n.active_job = r.active_job /\ n.began = r.began
              /\ n.continuation = r.continuation /\ n.revision = r.revision
              /\ n.approved = r.approved /\ n.settings = r.settings
              /\ \A k \in 1..Len(n.queue) :
                    \E l \in 1..Len(r.queue) : n.queue[k] = r.queue[l]
              /\ item \in QueueItem
              /\ ItemOf(r, item).id = item
              /\ \E l \in 1..Len(r.queue) : ItemOf(r, item) = r.queue[l]
<1> DEFINE q == r.queue
           at == PlaceOf(r, item)
           rest == RemoveAt(q, at)
           n == Dequeue(r, item)
<1>1. /\ q \in Seq(Item) /\ Len(q) \in Nat /\ DOMAIN q = 1..Len(q)
      /\ \A k \in 1..Len(q) : q[k] \in Item
  BY RecordFacts
<1>2. at \in 1..Len(q) /\ q[at].id = item
  <2>1. \E k \in DOMAIN r.queue : r.queue[k].id = item
    BY DEF Queued
  <2> QED
    BY <1>1, <2>1 DEF PlaceOf
<1> HIDE DEF at
<1>3. /\ rest \in Seq(Item) /\ Len(rest) = Len(q) - 1
      /\ \A k \in 1..Len(q) - 1 :
            rest[k] = IF k < at THEN q[k] ELSE q[k + 1]
  BY <1>1, <1>2, RemovedFacts
<1>4. n = [r EXCEPT !.queue = rest, !.queue_revision = r.queue_revision + 1]
  BY DEF Dequeue, at
<1> HIDE DEF rest
<1>5. /\ n \in Record /\ n.queue = rest
      /\ n.entries = r.entries /\ n.leaf = r.leaf
      /\ n.active_job = r.active_job /\ n.began = r.began
      /\ n.continuation = r.continuation /\ n.revision = r.revision
      /\ n.approved = r.approved /\ n.settings = r.settings
  <2>1. r.queue_revision + 1 \in Nat \ {0}
    BY DEF Record
  <2> QED
    BY <1>3, <1>4, <2>1 DEF Record
<1> HIDE DEF n
(* The index an item of the shorter queue had.                             *)
<1> DEFINE was(k) == IF k < at THEN k ELSE k + 1
<1>6. /\ \A k \in 1..Len(q) - 1 :
            was(k) \in 1..Len(q) /\ was(k) # at /\ rest[k] = q[was(k)]
      /\ \A k, l \in 1..Len(q) - 1 : was(k) = was(l) => k = l
  BY <1>1, <1>2, <1>3
<1> HIDE DEF was
<1>7. /\ \A k, l \in 1..Len(q) : q[k].id = q[l].id => k = l
      /\ \A i \in 1..Len(r.entries), k \in 1..Len(q) :
            r.entries[i].item # q[k].id
      /\ \A i, j \in 1..Len(r.entries) :
            r.entries[i].item = r.entries[j].item /\ r.entries[i].item # NoId
               => i = j
  BY DEF ItemsOnce
<1>8. ItemsOnce(n)
  <2>1. \A k, l \in 1..Len(rest) : rest[k].id = rest[l].id => k = l
    BY <1>3, <1>6, <1>7
  <2>2. \A i \in 1..Len(r.entries), k \in 1..Len(rest) :
           r.entries[i].item # rest[k].id
    BY <1>3, <1>6, <1>7
  <2> QED
    BY <1>5, <1>7, <2>1, <2>2 DEF ItemsOnce
<1>9. Unused(n, item)
  <2>1. \A i \in 1..Len(r.entries) : r.entries[i].item # item
    BY <1>2, <1>7
  <2>2. \A k \in 1..Len(rest) : rest[k].id # item
    BY <1>2, <1>3, <1>6, <1>7
  <2> QED
    BY <1>5, <2>1, <2>2 DEF Unused
<1>10. item \in QueueItem
  BY <1>1, <1>2 DEF Item
<1>11. ItemOf(r, item) = q[at]
  BY DEF ItemOf, at
<1> QED
  BY <1>2, <1>3, <1>5, <1>6, <1>8, <1>9, <1>10, <1>11 DEF n

-----------------------------------------------------------------------------
(* A record that follows from another with its active path still there:    *)
(* writing it deletes nothing.                                             *)
Leads(r, n, item) ==
    /\ n \in Record
    /\ Follows(r, n, item)
    /\ Range(Path(r)) \subseteq Range(Path(n))

LEMMA LeadsOn ==
    ASSUME NEW r \in Record, NEW n, NEW w, NEW item,
           NEW a \in {NoId, item}, NEW b \in {NoId, item},
           Leads(r, n, a), Leads(n, w, b)
    PROVE  Leads(r, w, item)
<1>1. n \in Record /\ w \in Record /\ Follows(r, n, a) /\ Follows(n, w, b)
  BY DEF Leads
<1>2. Follows(r, w, item)
  BY <1>1, FollowsOn
<1> QED
  BY <1>1, <1>2 DEF Leads

LEMMA SelectedRests ==
    ASSUME NEW r \in Record, Resting(r), NEW settings \in Settings
    PROVE  LET n == Selected(r, settings)
           IN /\ Resting(n) /\ Leads(r, n, NoId) /\ Path(n) = Path(r)
              /\ n.entries = r.entries /\ n.active_job = r.active_job
              /\ n.continuation = r.continuation /\ n.queue = r.queue
<1> DEFINE n == Selected(r, settings)
<1>1. r.approved \in {NoId, r.settings}
  BY DEF Resting
<1>2. /\ n \in Record /\ n.entries = r.entries /\ n.leaf = r.leaf
      /\ n.queue = r.queue /\ n.continuation = r.continuation
      /\ n.active_job = r.active_job /\ n.approved \in {NoId, n.settings}
  BY <1>1 DEF Selected, Record
<1> HIDE DEF n
<1>3. Resting(n) /\ Follows(r, n, NoId) /\ Path(n) = Path(r)
  BY <1>2, EditRests
<1> QED
  BY <1>2, <1>3 DEF n, Leads

LEMMA AdvanceFacts ==
    ASSUME NEW r \in Record
    PROVE  LET n == Advance(r)
           IN /\ n \in Record /\ n.entries = r.entries /\ n.leaf = r.leaf
              /\ n.queue = r.queue /\ n.continuation = r.continuation
              /\ n.active_job = r.active_job /\ n.began = r.began
              /\ n.settings = r.settings /\ n.approved = r.approved
<1>1. r.revision + 1 \in Nat \ {0}
  BY DEF Record
<1> QED
  BY <1>1 DEF Advance, Record

LEMMA AdvanceIsSound ==
    ASSUME NEW r \in Record, Sound(r)
    PROVE  Sound(Advance(r)) /\ Leads(r, Advance(r), NoId)
<1> DEFINE n == Advance(r)
<1>1. /\ n \in Record /\ n.entries = r.entries /\ n.leaf = r.leaf
      /\ n.queue = r.queue /\ n.continuation = r.continuation
      /\ n.active_job = r.active_job /\ n.began = r.began
      /\ n.settings = r.settings /\ n.approved = r.approved
  BY AdvanceFacts
<1> HIDE DEF n
<1>2. Sound(n) /\ Follows(r, n, NoId) /\ Path(n) = Path(r)
  BY <1>1, EditIsSound DEF Sound
<1> QED
  BY <1>1, <1>2 DEF n, Leads

LEMMA QueueEdits ==
    ASSUME NEW r \in Record, NEW n \in Record,
           n.entries = r.entries, n.leaf = r.leaf,
           n.active_job = r.active_job, n.began = r.began,
           n.continuation = r.continuation,
           n.settings = r.settings, n.approved = r.approved, ItemsOnce(n)
    PROVE  /\ Resting(r) => Resting(n)
           /\ Sound(r) => Sound(n)
           /\ Path(n) = Path(r) /\ Kept(r, n) /\ Brings(r, n, NoId)
<1>1. Path(n) = Path(r) /\ CompleteResponses(n) = CompleteResponses(r)
  BY DEF Path, CompleteResponses
<1>2. Kept(r, n) /\ Brings(r, n, NoId)
  BY RecordFacts DEF Kept, Brings
<1>3. Tree(r) => Tree(n)
  BY InPlaceKeepsTree
<1>4. /\ CheckpointIsOnPath(r) => CheckpointIsOnPath(n)
      /\ NonePending(r) => NonePending(n)
      /\ PendingIsActive(r) => PendingIsActive(n)
  BY <1>1 DEF CheckpointIsOnPath, NonePending, PendingIsActive
<1> QED
  BY <1>1, <1>2, <1>3, <1>4 DEF Resting, Sound

LEMMA DequeueRests ==
    ASSUME NEW r \in Record, Resting(r) \/ Sound(r), NEW item \in Queued(r)
    PROVE  LET n == Dequeue(r, item)
           IN /\ Leads(r, n, NoId) /\ Unused(n, item)
              /\ Resting(r) => Resting(n)
              /\ Sound(r) => Sound(n)
<1> DEFINE n == Dequeue(r, item)
<1>1. ItemsOnce(r)
  BY DEF Resting, Sound
<1>2. /\ n \in Record /\ ItemsOnce(n) /\ Unused(n, item)
      /\ n.entries = r.entries /\ n.leaf = r.leaf
      /\ n.active_job = r.active_job /\ n.began = r.began
      /\ n.continuation = r.continuation
      /\ n.approved = r.approved /\ n.settings = r.settings
      /\ \A k \in 1..Len(n.queue) :
            \E l \in 1..Len(r.queue) : n.queue[k] = r.queue[l]
  BY <1>1, DequeueFacts
<1> HIDE DEF n
<1>3. /\ Resting(r) => Resting(n)
      /\ Sound(r) => Sound(n)
      /\ Path(n) = Path(r) /\ Kept(r, n) /\ Brings(r, n, NoId)
  BY <1>2, QueueEdits
<1>4. \A k \in 1..Len(n.queue) :
         \E l \in 1..Len(r.queue) : r.queue[l].id = n.queue[k].id
  BY <1>2
<1> QED
  BY <1>2, <1>3, <1>4 DEF n, Leads, Follows

(* Beginning any work, in the terms of the operations.                     *)
LEMMA BeginLeads ==
    ASSUME NEW r \in Record, Resting(r), NEW job \in JobId
    PROVE  /\ \A item \in QueueItem \union {NoId} :
                 item = NoId \/ Unused(r, item) =>
                    /\ Sound(BeginRequest(r, job, item))
                    /\ Leads(r, BeginRequest(r, job, item), item)
           /\ \A kind \in {"message", "command", "compaction"},
                 m \in {PendingPhase(job), CommandMessage(job)} :
                    /\ Sound(BeginWork(r, m, kind))
                    /\ Leads(r, BeginWork(r, m, kind), NoId)
<1>1. ASSUME NEW item \in QueueItem \union {NoId},
             item = NoId \/ Unused(r, item)
      PROVE  /\ Sound(BeginRequest(r, job, item))
             /\ Leads(r, BeginRequest(r, job, item), item)
  BY <1>1, RequestBegins DEF Leads
<1>2. ASSUME NEW kind \in {"message", "command", "compaction"},
             NEW m \in {PendingPhase(job), CommandMessage(job)}
      PROVE  /\ Sound(BeginWork(r, m, kind))
             /\ Leads(r, BeginWork(r, m, kind), NoId)
  <2>1. /\ m \in Entries /\ m.role # "Deleted" /\ m.item = NoId
        /\ m.status = "Pending" /\ m.request # NoId /\ ~m.text
    <3>1. /\ m \in Entries /\ m.role # "Deleted" /\ m.item = NoId
          /\ m.status = "Pending" /\ m.request # NoId /\ m.text = FALSE
      <4>1. CASE m = PendingPhase(job)
        BY <4>1, WorkMessageFacts
      <4>2. CASE m = CommandMessage(job)
        BY <4>2, WorkMessageFacts
      <4> QED
        BY <4>1, <4>2
    <3> QED
      BY <3>1
  <2> DEFINE n == [PushMessage(r, m) EXCEPT !.active_job = m.request,
                                            !.began = kind]
  <2>2. /\ n \in Record /\ Sound(n) /\ Follows(r, n, NoId)
        /\ Range(Path(r)) \subseteq Range(Path(n))
    BY <2>1, WorkBegins
  <2>3. BeginWork(r, m, kind) = n
    BY DEF BeginWork
  <2> HIDE DEF n
  <2> QED
    BY <2>2, <2>3 DEF Leads
<1> QED
  BY <1>1, <1>2

-----------------------------------------------------------------------------
(* The stored row, over every step.  A queued item was drawn, and so was   *)
(* the item of a delivered message.                                        *)
AllDrawn(r) ==
    /\ \A i \in 1..Len(r.entries) : r.entries[i].item \in drawn \union {NoId}
    /\ \A k \in 1..Len(r.queue) : r.queue[k].id \in drawn

StoreInv ==
    /\ record \in Record \union {Missing, Gone}
    /\ uncertain \in BOOLEAN
    /\ drawn \subseteq QueueItem
    /\ record.exists => Sound(record) /\ AllDrawn(record)

(* What the operations on a saved conversation do to it.  Only a delivery  *)
(* brings an item, which was queued for the request that is active.        *)
Moves(item) ==
    /\ record' \in Record /\ Sound(record')
    /\ Follows(record, record', item)
    /\ uncertain' \in BOOLEAN /\ UNCHANGED drawn

Deliverable(item) ==
    \E k \in 1..Len(record.queue) :
        /\ record.queue[k].id = item
        /\ record.queue[k].delivery = "Steering" =>
              record.active_job = record.queue[k].job

Moved ==
    \/ Moves(NoId)
    \/ \E item \in QueueItem : Moves(item) /\ Deliverable(item)

Here ==
    /\ record \in Record /\ Sound(record) /\ AllDrawn(record)
    /\ uncertain \in BOOLEAN /\ drawn \subseteq QueueItem

LEMMA CommitMoves ==
    ASSUME Here, NEW item, NEW n \in Record, Sound(n),
           Follows(record, n, item), NEW result, CommitResult(n, result)
    PROVE  Moves(item)
<1>1. Follows(record, record, NoId)
  BY SameMessages DEF Here, Sound
<1>2. Follows(record, record, item)
  BY <1>1 DEF Follows, Brings
<1>3. /\ record' = n \/ record' = record
      /\ uncertain' \in BOOLEAN /\ UNCHANGED drawn
  BY DEF CommitResult, CommitOnly, Here
<1> QED
  BY <1>2, <1>3 DEF Moves, Here

LEMMA UpdateMoves ==
    ASSUME Here, NEW item, NEW n, Sound(n), Leads(record, n, item),
           NEW result, Update(n, result)
    PROVE  Moves(item)
<1>1. n \in Record /\ Written(Path(record), n) = n
  BY NothingIsDeleted DEF Leads
<1>2. CommitResult(n, result)
  BY <1>1 DEF Update, Persist
<1> QED
  BY <1>1, <1>2, CommitMoves DEF Leads

LEMMA ReplaceMoves ==
    ASSUME Here, NEW item, NEW n, Sound(n), Leads(record, n, item),
           NEW revision, NEW result, Replace(revision, n, result)
    PROVE  Moves(item)
<1>1. Sound(Advance(n)) /\ Leads(n, Advance(n), NoId)
  BY AdvanceIsSound DEF Leads
<1>2. Leads(record, Advance(n), item)
  BY <1>1, LeadsOn DEF Here
<1>3. Update(Advance(n), result)
  BY DEF Replace
<1> QED
  BY <1>1, <1>2, <1>3, UpdateMoves

LEMMA IdleHere ==
    ASSUME Here, Idle
    PROVE  Resting(record) /\ record.active_job = NoId
BY IdleRests DEF Here, Idle

LEMMA BeginMessageMoves ==
    ASSUME Here, NEW v, NEW job \in JobId, NEW settings \in Settings,
           NEW result, BeginMessage(v, job, settings, result)
    PROVE  Moves(NoId)
<1> DEFINE s == Selected(record, settings)
           n == BeginRequest(s, job, NoId)
<1>1. Resting(record) /\ Replace(v, n, result)
  BY IdleHere DEF BeginMessage
<1>2. Resting(s) /\ Leads(record, s, NoId)
  BY <1>1, SelectedRests DEF Here
<1> HIDE DEF s
<1>3. Sound(n) /\ Leads(s, n, NoId)
  BY <1>2, BeginLeads DEF Leads
<1> HIDE DEF n
<1>4. Leads(record, n, NoId)
  BY <1>2, <1>3, LeadsOn DEF Here
<1> QED
  BY <1>1, <1>3, <1>4, ReplaceMoves

LEMMA BeginCommandMoves ==
    ASSUME Here, NEW v, NEW job \in JobId, NEW settings \in Settings,
           NEW result, BeginCommand(v, job, settings, result)
    PROVE  Moves(NoId)
<1> DEFINE s == Selected(record, settings)
           n == BeginWork(s, CommandMessage(job), "command")
<1>1. Resting(record) /\ Replace(v, n, result)
  BY IdleHere DEF BeginCommand, Quiet
<1>2. Resting(s) /\ Leads(record, s, NoId)
  BY <1>1, SelectedRests DEF Here
<1> HIDE DEF s
<1>3. Sound(n) /\ Leads(s, n, NoId)
  BY <1>2, BeginLeads DEF Leads
<1> HIDE DEF n
<1>4. Leads(record, n, NoId)
  BY <1>2, <1>3, LeadsOn DEF Here
<1> QED
  BY <1>1, <1>3, <1>4, ReplaceMoves

LEMMA BeginCompactionMoves ==
    ASSUME Here, NEW v, NEW job \in JobId,
           NEW result, BeginCompaction(v, job, result)
    PROVE  Moves(NoId)
<1> DEFINE n == BeginWork(record, PendingPhase(job), "compaction")
<1>1. Resting(record) /\ Replace(v, n, result)
  BY IdleHere DEF BeginCompaction
<1>2. Sound(n) /\ Leads(record, n, NoId)
  BY <1>1, BeginLeads DEF Here
<1> HIDE DEF n
<1> QED
  BY <1>1, <1>2, ReplaceMoves

LEMMA ClaimContinuationMoves ==
    ASSUME Here, NEW v, NEW checkpoint, NEW job \in JobId,
           NEW result, ClaimContinuation(v, checkpoint, job, result)
    PROVE  Moves(NoId)
<1> DEFINE n == BeginWork(record, PendingPhase(job), "message")
<1>1. Resting(record) /\ Replace(v, n, result)
  BY IdleHere DEF ClaimContinuation
<1>2. Sound(n) /\ Leads(record, n, NoId)
  BY <1>1, BeginLeads DEF Here
<1> HIDE DEF n
<1> QED
  BY <1>1, <1>2, ReplaceMoves

LEMMA BeginFollowUpMoves ==
    ASSUME Here, NEW v, NEW w, NEW item \in QueueItem, NEW job \in JobId,
           NEW settings \in Settings, NEW result,
           BeginFollowUp(v, w, item, job, settings, result)
    PROVE  Moves(item) /\ Deliverable(item)
<1> DEFINE d == Dequeue(record, item)
           n == BeginRequest(d, job, item)
<1>1. /\ Resting(record) /\ Replace(v, n, result) /\ item \in Queued(record)
      /\ ItemOf(record, item).delivery = "FollowUp"
  BY IdleHere DEF BeginFollowUp
<1>2. Resting(d) /\ Leads(record, d, NoId) /\ Unused(d, item)
  BY <1>1, DequeueRests DEF Here
<1>3. Deliverable(item)
  <2>1. ItemsOnce(record)
    BY DEF Here, Sound
  <2>2. PICK l \in 1..Len(record.queue) :
           ItemOf(record, item) = record.queue[l]
    BY <1>1, <2>1, DequeueFacts DEF Here
  <2>3. ItemOf(record, item).id = item
    BY <1>1, <2>1, DequeueFacts DEF Here
  <2> QED
    BY <1>1, <2>2, <2>3 DEF Deliverable
<1> HIDE DEF d
<1>4. Sound(n) /\ Leads(d, n, item)
  BY <1>2, BeginLeads DEF Leads
<1> HIDE DEF n
<1>5. Leads(record, n, item)
  BY <1>2, <1>4, LeadsOn DEF Here
<1> QED
  BY <1>1, <1>3, <1>4, <1>5, ReplaceMoves

LEMMA ReviseMoves ==
    ASSUME Here, NEW v, NEW source \in DOMAIN record.entries,
           NEW job \in JobId, NEW settings \in Settings, NEW result,
           Revise(v, source, job, settings, result)
    PROVE  Moves(NoId)
<1> DEFINE s == Selected(record, settings)
           parents == Before(record.entries[source].path)
           parent == IF parents = <<>> THEN 0 ELSE Last(parents)
           b == [s EXCEPT !.leaf = parent]
           n == BeginRequest(b, job, NoId)
<1>1. /\ Resting(record) /\ record.continuation = NoId
      /\ record.entries[source].role = "User"
      /\ CommitResult(Written(parents, Advance(n)), result)
  BY IdleHere DEF Revise, Quiet
<1>2. /\ Resting(s) /\ Leads(record, s, NoId)
      /\ s.entries = record.entries /\ s.continuation = NoId
  BY <1>1, SelectedRests DEF Here
<1>3. /\ parent \in 0..Len(record.entries)
      /\ parent # 0 => /\ record.entries[parent].role # "Deleted"
                       /\ record.entries[parent].path = parents
      /\ parent = 0 => parents = <<>>
  <2>1. record \in Record /\ Tree(record)
    BY DEF Here, Sound
  <2>2. source \in 1..Len(record.entries)
    BY <2>1, RecordFacts
  <2>3. record.entries[source].role # "Deleted"
    BY <1>1
  <2> QED
    BY <2>1, <2>2, <2>3, ParentFacts
<1> HIDE DEF s, parents, parent
<1>4. /\ b \in Record /\ b.entries = s.entries /\ b.queue = s.queue
      /\ b.leaf = parent /\ b.continuation = NoId
      /\ b.approved = s.approved /\ b.settings = s.settings
  <2>1. parent \in Nat
    BY <1>3, RecordFacts DEF Here
  <2> QED
    BY <1>2, <2>1 DEF Record, Resting
<1>5. Path(b) = parents
  BY <1>2, <1>3, <1>4 DEF Path
<1> HIDE DEF b
<1>6. Resting(b) /\ Follows(s, b, NoId)
  BY <1>2, <1>3, <1>4, LeafMoves DEF Resting
<1>7. Sound(n) /\ Leads(b, n, NoId)
  BY <1>4, <1>6, BeginLeads
<1> HIDE DEF n
<1>8. Sound(Advance(n)) /\ Leads(n, Advance(n), NoId)
  BY <1>7, AdvanceIsSound DEF Leads
<1>9. Leads(b, Advance(n), NoId)
  BY <1>4, <1>7, <1>8, LeadsOn
<1>10. Follows(record, Advance(n), NoId)
  <2>1. Follows(record, b, NoId)
    BY <1>2, <1>4, <1>6, FollowsOn DEF Here, Leads
  <2> QED
    BY <1>4, <1>9, <2>1, FollowsOn DEF Here, Leads
<1>11. Written(parents, Advance(n)) = Advance(n)
  BY <1>5, <1>9, NothingIsDeleted DEF Leads
<1> QED
  BY <1>1, <1>8, <1>9, <1>10, <1>11, CommitMoves DEF Leads

LEMMA ContinueFromMoves ==
    ASSUME Here, NEW v, NEW destination \in DOMAIN record.entries,
           NEW result, ContinueFrom(v, destination, result)
    PROVE  Moves(NoId)
<1> DEFINE b == [record EXCEPT !.leaf = destination]
<1>1. /\ Resting(record) /\ record.continuation = NoId
      /\ record.entries[destination].path # <<>>
      /\ record.active_job = NoId
      /\ CommitResult(Advance(b), result)
  BY IdleHere DEF ContinueFrom, Quiet, Branchable
<1>2. /\ destination \in 1..Len(record.entries)
      /\ destination \in Nat
      /\ record.entries[destination].role # "Deleted"
  BY <1>1, RecordFacts DEF Here, Sound, Tree
<1>3. /\ b \in Record /\ b.entries = record.entries /\ b.queue = record.queue
      /\ b.leaf = destination /\ b.continuation = NoId
      /\ b.active_job = NoId
      /\ b.approved = record.approved /\ b.settings = record.settings
  BY <1>1, <1>2 DEF Record, Here
<1> HIDE DEF b
<1>4. Resting(b) /\ Follows(record, b, NoId)
  BY <1>1, <1>2, <1>3, LeafMoves DEF Here, Resting
<1>5. Sound(b)
  BY <1>3, <1>4, IdleRests
<1>6. Sound(Advance(b)) /\ Leads(b, Advance(b), NoId)
  BY <1>3, <1>5, AdvanceIsSound
<1>7. Follows(record, Advance(b), NoId) /\ Advance(b) \in Record
  BY <1>3, <1>4, <1>6, FollowsOn DEF Here, Leads
<1> QED
  BY <1>1, <1>6, <1>7, CommitMoves

-----------------------------------------------------------------------------
(* While a request runs.                                                   *)
LEMMA ActiveHere ==
    ASSUME Here, NEW job \in JobId, record.active_job = job
    PROVE  /\ record \in Record /\ Sound(record) /\ record.active_job # NoId
           /\ record.leaf \in 1..Len(record.entries)
           /\ record.entries[record.leaf].status = "Pending"
           /\ record.entries[record.leaf] \in Entries
BY PendingIsLeaf, RecordFacts DEF Here

LEMMA UpdateOutputMoves ==
    ASSUME Here, NEW job \in JobId, record.began = "message",
           NEW result, UpdateOutput(job, result)
    PROVE  Moves(NoId)
<1> DEFINE leaf == record.leaf
           e == record.entries[leaf]
           said == [e EXCEPT !.text = TRUE]
           es == [record.entries EXCEPT ![leaf] = said]
           n == [record EXCEPT !.entries[leaf].text = TRUE]
<1>1. record.active_job = job /\ CommitResult(n, result)
  BY DEF UpdateOutput
<1>2. /\ leaf \in 1..Len(record.entries) /\ e.status = "Pending"
      /\ e \in Entries /\ record.entries \in Seq(Entries)
      /\ record \in Record /\ Sound(record) /\ record.active_job # NoId
  BY <1>1, ActiveHere, RecordFacts
<1>3. /\ said \in Entries /\ said.path = e.path /\ said.role = e.role
      /\ said.item = e.item /\ said.status = e.status
      /\ said.request = e.request /\ said.text
  BY <1>2 DEF Entries
<1>4. n = [record EXCEPT !.entries = es]
  OBVIOUS
<1> HIDE DEF said
<1>5. /\ es \in Seq(Entries) /\ Len(es) = Len(record.entries)
      /\ es[leaf] = said
      /\ \A i \in 1..Len(record.entries) :
            i # leaf => es[i] = record.entries[i]
  BY <1>2, <1>3, ExceptSeq
<1> HIDE DEF es
<1>6. /\ n \in Record /\ n.entries = es /\ n.leaf = leaf
      /\ n.queue = record.queue /\ n.active_job = record.active_job
      /\ n.began = record.began /\ n.continuation = record.continuation
      /\ n.approved = record.approved /\ n.settings = record.settings
  BY <1>2, <1>4, <1>5 DEF Record
<1> HIDE DEF n
<1>7. \A i \in 1..Len(record.entries) :
         /\ n.entries[i].path = record.entries[i].path
         /\ n.entries[i].role = record.entries[i].role
         /\ n.entries[i].item = record.entries[i].item
         /\ n.entries[i].status = record.entries[i].status
         /\ n.entries[i].request = record.entries[i].request
         /\ record.entries[i].text => n.entries[i].text
  BY <1>3, <1>5, <1>6
<1>8. Tree(n) /\ Path(n) = Path(record)
  BY <1>2, <1>5, <1>6, <1>7, InPlaceKeepsTree DEF Sound
<1>9. PendingIsActive(n)
  BY <1>2, <1>5, <1>6, <1>7 DEF Sound, PendingIsActive
<1>10. ItemsOnce(n)
  BY <1>2, <1>5, <1>6, <1>7 DEF Sound, ItemsOnce
<1>11. CheckpointIsOnPath(n)
  <2>1. \A i \in CompleteResponses(record) : i \in CompleteResponses(n)
    BY <1>2, <1>7, <1>8, PathFacts DEF CompleteResponses, Sound
  <2> QED
    BY <1>2, <1>6, <2>1 DEF CheckpointIsOnPath, Sound
<1>12. Sound(n)
  BY <1>2, <1>6, <1>8, <1>9, <1>10, <1>11 DEF Sound
<1>13. Kept(record, n)
  BY <1>2, <1>5, <1>6, <1>7 DEF Kept, Settled
<1>14. Brings(record, n, NoId)
  BY <1>5, <1>6, <1>7 DEF Brings
<1>15. Follows(record, n, NoId)
  BY <1>6, <1>13, <1>14 DEF Follows
<1> QED
  BY <1>1, <1>6, <1>12, <1>15, CommitMoves

LEMMA ActiveSettles ==
    ASSUME Here, NEW job \in JobId, record.active_job = job,
           NEW status \in Settled, NEW final \in BOOLEAN, NEW text \in BOOLEAN
    PROVE  LET n == SettleEntry(record, job, status, final, text)
           IN /\ n \in Record /\ Resting(n) /\ Leads(record, n, NoId)
              /\ n.active_job = job /\ n.began = record.began
              /\ n.queue = record.queue /\ n.revision = record.revision
<1> DEFINE n == SettleEntry(record, job, status, final, text)
<1>1. /\ n \in Record /\ Resting(n) /\ Follows(record, n, NoId)
      /\ Path(n) = Path(record)
      /\ n.active_job = record.active_job /\ n.began = record.began
      /\ n.queue = record.queue /\ n.revision = record.revision
  BY ActiveHere, SettledEntry
<1> HIDE DEF n
<1> QED
  BY <1>1 DEF Leads, n

LEMMA SettleToolBatchMoves ==
    ASSUME Here, NEW job \in JobId, record.began = "message",
           NEW result, SettleToolBatch(job, result)
    PROVE  Moves(NoId)
<1> DEFINE s == SettleEntry(record, job, "Complete", FALSE, TRUE)
           m == PendingPhase(job)
           p == PushMessage(s, m)
           n == BeginWork(s, m, "message")
<1>1. record.active_job = job /\ Update(p, result)
  BY DEF SettleToolBatch, ActiveAssistant
<1>2. /\ s \in Record /\ Resting(s) /\ Leads(record, s, NoId)
      /\ s.active_job = job /\ s.began = "message"
  BY <1>1, ActiveSettles DEF Settled
<1> HIDE DEF s
<1>3. m \in Entries /\ m.role # "Deleted" /\ m.request = job
  BY WorkMessageFacts
<1>4. n = [p EXCEPT !.active_job = m.request, !.began = "message"]
  BY DEF BeginWork
<1> HIDE DEF m
<1>5. Pushed(s, m, p)
  BY <1>2, <1>3, PushGrows DEF Resting
<1> HIDE DEF p
<1>6. p \in Record /\ p.active_job = m.request /\ p.began = "message"
  BY <1>2, <1>3, <1>5 DEF Pushed
<1>7. p = n
  <2>1. [p EXCEPT !.active_job = m.request] = p
    BY <1>6 DEF Record
  <2>2. [p EXCEPT !.began = "message"] = p
    BY <1>6 DEF Record
  <2> QED
    BY <1>4, <2>1, <2>2
<1> HIDE DEF n
<1>8. Sound(n) /\ Leads(s, n, NoId)
  BY <1>2, BeginLeads DEF n, m
<1>9. Leads(record, n, NoId)
  BY <1>2, <1>8, LeadsOn DEF Here
<1> QED
  BY <1>1, <1>7, <1>8, <1>9, UpdateMoves

LEMMA DeliverSteeringMoves ==
    ASSUME Here, NEW job \in JobId, NEW item \in QueueItem,
           NEW result, DeliverSteering(job, item, result)
    PROVE  Moves(item) /\ Deliverable(item)
<1> DEFINE s == SettleEntry(record, job, "Complete", TRUE, TRUE)
           d == Dequeue(s, item)
           n == BeginRequest(d, job, item)
<1>1. /\ record.active_job = job /\ Update(n, result)
      /\ item \in Queued(record)
      /\ ItemOf(record, item).job = job
  BY DEF DeliverSteering, ActiveAssistant
<1>2. /\ s \in Record /\ Resting(s) /\ Leads(record, s, NoId)
      /\ s.queue = record.queue
  BY <1>1, ActiveSettles DEF Settled
<1> HIDE DEF s
<1>3. item \in Queued(s)
  BY <1>1, <1>2 DEF Queued
<1>4. Resting(d) /\ Leads(s, d, NoId) /\ Unused(d, item)
  BY <1>2, <1>3, DequeueRests
<1> HIDE DEF d
<1>5. Sound(n) /\ Leads(d, n, item)
  BY <1>4, BeginLeads DEF Leads
<1> HIDE DEF n
<1>6. Leads(record, d, NoId)
  BY <1>2, <1>4, LeadsOn DEF Here
<1>7. Leads(record, n, item)
  BY <1>5, <1>6, LeadsOn DEF Here
<1>8. Deliverable(item)
  <2>1. ItemsOnce(record)
    BY DEF Here, Sound
  <2>2. PICK l \in 1..Len(record.queue) :
           ItemOf(record, item) = record.queue[l]
    BY <1>1, <2>1, DequeueFacts DEF Here
  <2>3. ItemOf(record, item).id = item
    BY <1>1, <2>1, DequeueFacts DEF Here
  <2> QED
    BY <1>1, <2>2, <2>3 DEF Deliverable
<1> QED
  BY <1>1, <1>5, <1>7, <1>8, UpdateMoves

-----------------------------------------------------------------------------
(* Ending a request leaves the record at rest with no active request.      *)
LEMMA EndedLeads ==
    ASSUME NEW r \in Record, NEW s, Resting(s), Leads(r, s, NoId),
           NEW c \in {s.continuation, NoId}
    PROVE  LET n == [s EXCEPT !.active_job = NoId, !.continuation = c]
           IN Sound(n) /\ Leads(r, n, NoId)
<1> DEFINE n == [s EXCEPT !.active_job = NoId, !.continuation = c]
<1>1. s \in Record
  BY DEF Leads
<1>2. /\ n \in Record /\ n.entries = s.entries /\ n.leaf = s.leaf
      /\ n.queue = s.queue /\ n.continuation = c /\ n.active_job = NoId
      /\ n.approved = s.approved /\ n.settings = s.settings
  <2>1. c \in Checkpoint \union {NoId}
    BY <1>1 DEF Record
  <2> QED
    BY <1>1, <2>1 DEF Record
<1> HIDE DEF n
<1>3. Resting(n) /\ Follows(s, n, NoId) /\ Path(n) = Path(s)
  BY <1>1, <1>2, EditRests DEF Resting
<1>4. Sound(n)
  BY <1>2, <1>3, IdleRests
<1>5. Leads(s, n, NoId)
  BY <1>2, <1>3 DEF Leads
<1>6. Leads(r, n, NoId)
  BY <1>5, LeadsOn
<1> QED
  BY <1>4, <1>6 DEF n

LEMMA SettleMessageMoves ==
    ASSUME Here, NEW job \in JobId, NEW status \in Settled,
           NEW reply \in BOOLEAN, NEW result,
           SettleMessage(job, status, reply, result)
    PROVE  Moves(NoId)
<1> DEFINE s == SettleEntry(record, job, status, TRUE, reply)
           n == [s EXCEPT !.active_job = NoId, !.continuation = NoId]
<1>1. record.active_job = job /\ Update(Advance(n), result)
  BY DEF SettleMessage, ActiveAssistant
<1>2. Resting(s) /\ Leads(record, s, NoId)
  BY <1>1, ActiveSettles
<1> HIDE DEF s
<1>3. Sound(n) /\ Leads(record, n, NoId)
  BY <1>2, EndedLeads DEF Here
<1> HIDE DEF n
<1>4. Sound(Advance(n)) /\ Leads(n, Advance(n), NoId)
  BY <1>3, AdvanceIsSound DEF Leads
<1>5. Leads(record, Advance(n), NoId)
  BY <1>3, <1>4, LeadsOn DEF Here
<1> QED
  BY <1>1, <1>4, <1>5, UpdateMoves

LEMMA SettleCommandMoves ==
    ASSUME Here, NEW job \in JobId, NEW status \in Settled, NEW result,
           SettleCommand(job, status, result)
    PROVE  Moves(NoId)
<1> DEFINE s == SettleEntry(record, job, status, FALSE, TRUE)
           n == [s EXCEPT !.active_job = NoId, !.continuation = NoId]
<1>1. record.active_job = job /\ Update(n, result)
  BY DEF SettleCommand
<1>2. Resting(s) /\ Leads(record, s, NoId)
  BY <1>1, ActiveSettles
<1> HIDE DEF s
<1>3. Sound(n) /\ Leads(record, n, NoId)
  BY <1>2, EndedLeads DEF Here
<1> HIDE DEF n
<1> QED
  BY <1>1, <1>3, UpdateMoves

(* The record without its pending message.                                 *)
LEMMA PopFacts ==
    ASSUME Here, NEW job \in JobId, record.active_job = job
    PROVE  LET p == PopMessage(record)
           IN /\ p \in Record /\ p.entries = record.entries
              /\ p.queue = record.queue /\ p.settings = record.settings
              /\ p.approved = record.approved
              /\ p.continuation = record.continuation
              /\ p.revision = record.revision
<1> DEFINE rest == Before(Path(record))
           leaf == IF rest = <<>> THEN 0 ELSE Last(rest)
<1>1. /\ record \in Record /\ Tree(record)
      /\ record.leaf \in 1..Len(record.entries)
      /\ record.entries[record.leaf].role # "Deleted"
  BY ActiveHere, PendingIsLeaf DEF Sound
<1>2. Path(record) = record.entries[record.leaf].path
  BY <1>1, RecordFacts DEF Path
<1>3. leaf \in 0..Len(record.entries)
  BY <1>1, <1>2, ParentFacts
<1>4. leaf \in Nat
  BY <1>1, <1>3, RecordFacts
<1>5. PopMessage(record) = [record EXCEPT !.leaf = leaf]
  BY DEF PopMessage
<1> HIDE DEF leaf
<1> QED
  BY <1>1, <1>4, <1>5 DEF Record

(* A record whose pending message is dropped, as it is written.            *)
LEMMA PoppedMoves ==
    ASSUME Here, NEW job \in JobId, record.active_job = job,
           ~record.entries[record.leaf].text,
           NEW n \in Record, n.entries = record.entries,
           n.leaf = PopMessage(record).leaf, n.queue = record.queue,
           n.active_job = NoId, n.approved \in {NoId, n.settings},
           \/ n.continuation \in {record.continuation, NoId}
           \/ n.continuation.boundary \in CompleteResponses(n),
           NEW result, Update(n, result)
    PROVE  Moves(NoId)
<1> DEFINE w == Written(Path(record), n)
<1>1. /\ record \in Record /\ Sound(record) /\ record.active_job # NoId
      /\ CheckpointIsOnPath(record)
  BY ActiveHere DEF Sound
<1>2. /\ w \in Record /\ Tree(w) /\ NonePending(w) /\ ItemsOnce(w)
      /\ Follows(record, w, NoId)
      /\ w = [n EXCEPT !.entries = w.entries]
      /\ CompleteResponses(record) \subseteq CompleteResponses(w)
      /\ CompleteResponses(n) = CompleteResponses(w)
  BY <1>1, LeafPops
<1>3. CommitResult(w, result)
  BY DEF Update, Persist
<1> HIDE DEF w
<1>4. /\ w.active_job = NoId /\ w.continuation = n.continuation
      /\ w.approved = n.approved /\ w.settings = n.settings
  BY <1>2 DEF Record
<1>5. CheckpointIsOnPath(w)
  BY <1>1, <1>2, <1>4 DEF CheckpointIsOnPath
<1>6. Sound(w)
  BY <1>2, <1>4, <1>5, IdleRests DEF Resting
<1> QED
  BY <1>2, <1>3, <1>6, CommitMoves

LEMMA PauseForBudgetMoves ==
    ASSUME Here, NEW job \in JobId, NEW reply \in BOOLEAN, NEW result,
           PauseForBudget(job, reply, result)
    PROVE  Moves(NoId)
<1> DEFINE paused == Paused(job, reply)
           boundary == Max(CompleteResponses(paused))
           checkpoint == [id |-> record.revision + 1, boundary |-> boundary]
           e == [paused EXCEPT !.active_job = NoId,
                               !.continuation = checkpoint]
           n == Advance(e)
<1>1. /\ record.active_job = job /\ CompleteResponses(paused) # {}
      /\ Update(n, result)
  BY DEF PauseForBudget, ActiveAssistant
<1>2. /\ record \in Record /\ Sound(record) /\ record.active_job # NoId
      /\ Max(PendingOf(record, job)) = record.leaf
      /\ record.approved \in {NoId, record.settings}
  BY <1>1, ActiveHere, PendingIsLeaf DEF Sound
<1>3. ASSUME NEW p \in Record, Tree(p), CompleteResponses(p) # {}
      PROVE  /\ Max(CompleteResponses(p)) \in CompleteResponses(p)
             /\ Max(CompleteResponses(p)) \in Nat
  <2>1. /\ CompleteResponses(p) \subseteq 0..Len(p.entries)
        /\ Len(p.entries) \in Nat
    BY <1>3, PathFacts, RecordFacts DEF CompleteResponses
  <2>2. Max(CompleteResponses(p)) \in CompleteResponses(p)
    BY <1>3, <2>1, GreatestOf
  <2> QED
    BY <2>1, <2>2
<1>4. CASE ~reply /\ ~record.entries[record.leaf].text
  <2> DEFINE w == Written(Path(record), paused)
  <2>1. paused = PopMessage(record)
    BY <1>2, <1>4 DEF Paused
  <2>2. /\ paused \in Record /\ paused.entries = record.entries
        /\ paused.queue = record.queue /\ paused.settings = record.settings
        /\ paused.approved = record.approved
        /\ paused.leaf = PopMessage(record).leaf
        /\ paused.revision = record.revision
    BY <1>1, <2>1, PopFacts
  <2> HIDE DEF paused
  <2>3. /\ w \in Record /\ Tree(w)
        /\ CompleteResponses(paused) = CompleteResponses(w)
    BY <1>2, <1>4, <2>2, LeafPops
  <2>4. boundary \in CompleteResponses(paused) /\ boundary \in Nat
    BY <1>1, <1>3, <2>3
  <2>5. checkpoint \in Checkpoint /\ checkpoint.boundary = boundary
    BY <1>2, <2>4 DEF Checkpoint, Record
  <2> HIDE DEF checkpoint, boundary
  <2>6. /\ e \in Record /\ e.entries = paused.entries /\ e.leaf = paused.leaf
        /\ e.queue = paused.queue /\ e.active_job = NoId
        /\ e.settings = paused.settings /\ e.approved = paused.approved
        /\ e.continuation = checkpoint
    BY <2>2, <2>5 DEF Record
  <2> HIDE DEF e
  <2>7. /\ n \in Record /\ n.entries = e.entries /\ n.leaf = e.leaf
        /\ n.queue = e.queue /\ n.active_job = e.active_job
        /\ n.settings = e.settings /\ n.approved = e.approved
        /\ n.continuation = e.continuation
    BY <2>6, AdvanceFacts
  <2> HIDE DEF n
  <2>8. CompleteResponses(n) = CompleteResponses(paused)
    BY <2>6, <2>7 DEF CompleteResponses, Path
  <2>9. /\ n.entries = record.entries /\ n.leaf = PopMessage(record).leaf
        /\ n.queue = record.queue /\ n.active_job = NoId
        /\ n.approved \in {NoId, n.settings}
        /\ n.continuation.boundary \in CompleteResponses(n)
    BY <1>2, <2>2, <2>4, <2>5, <2>6, <2>7, <2>8
  <2> QED
    BY <1>1, <1>4, <2>7, <2>9, PoppedMoves
<1>5. CASE ~ (~reply /\ ~record.entries[record.leaf].text)
  <2>1. paused = SettleEntry(record, job, "Complete", FALSE, TRUE)
    BY <1>2, <1>5 DEF Paused
  <2>2. /\ paused \in Record /\ Resting(paused) /\ Leads(record, paused, NoId)
        /\ paused.revision = record.revision
    <3> DEFINE s == SettleEntry(record, job, "Complete", FALSE, TRUE)
    <3>1. /\ s \in Record /\ Resting(s) /\ Leads(record, s, NoId)
          /\ s.revision = record.revision
      BY <1>1, ActiveSettles DEF Settled
    <3> HIDE DEF s, paused
    <3>2. paused = s
      BY <2>1 DEF s
    <3> QED
      BY <3>1, <3>2
  <2> HIDE DEF paused
  <2>3. boundary \in CompleteResponses(paused) /\ boundary \in Nat
    BY <1>1, <1>3, <2>2 DEF Resting
  <2>4. checkpoint \in Checkpoint /\ checkpoint.boundary = boundary
    BY <1>2, <2>3 DEF Checkpoint, Record
  <2> HIDE DEF checkpoint, boundary
  <2>5. /\ e \in Record /\ e.entries = paused.entries /\ e.leaf = paused.leaf
        /\ e.queue = paused.queue /\ e.active_job = NoId
        /\ e.settings = paused.settings /\ e.approved = paused.approved
        /\ e.continuation = checkpoint
    BY <2>2, <2>4 DEF Record
  <2> HIDE DEF e
  <2>6. /\ Tree(e) /\ Path(e) = Path(paused) /\ Follows(paused, e, NoId)
        /\ NonePending(e) /\ ItemsOnce(e)
        /\ CompleteResponses(e) = CompleteResponses(paused)
    BY <2>2, <2>5, SameMessages DEF Resting
  <2>7. CheckpointIsOnPath(e) /\ e.approved \in {NoId, e.settings}
    BY <2>2, <2>3, <2>4, <2>5, <2>6 DEF CheckpointIsOnPath, Resting
  <2>8. Sound(e)
    BY <2>5, <2>6, <2>7, IdleRests DEF Resting
  <2>9. Sound(n) /\ Leads(e, n, NoId)
    BY <2>5, <2>8, AdvanceIsSound
  <2> HIDE DEF n
  <2>10. Leads(paused, e, NoId)
    BY <2>5, <2>6 DEF Leads
  <2>11. Leads(record, e, NoId)
    BY <1>2, <2>2, <2>10, LeadsOn
  <2>12. Leads(record, n, NoId)
    BY <1>2, <2>9, <2>11, LeadsOn
  <2> QED
    BY <1>1, <2>9, <2>12, UpdateMoves
<1> QED
  BY <1>4, <1>5

(* The message of a finished compaction stays only if it failed.           *)
LEMMA FinishCompactionMoves ==
    ASSUME Here, NEW job \in JobId, record.began = "compaction",
           NEW failed \in BOOLEAN, NEW result,
           FinishCompaction(job, failed, result)
    PROVE  Moves(NoId)
<1>1. record.active_job = job
  BY DEF FinishCompaction
<1>2. /\ record \in Record /\ Sound(record) /\ record.active_job # NoId
      /\ record.leaf \in 1..Len(record.entries)
      /\ record.entries[record.leaf] \in Entries
      /\ ~record.entries[record.leaf].text
      /\ record.approved \in {NoId, record.settings}
  BY <1>1, ActiveHere DEF Sound
<1>3. CASE failed
  <2> DEFINE leaf == record.leaf
             e == record.entries[leaf]
             settled == [e EXCEPT !.status = "Failed"]
             es == [record.entries EXCEPT ![leaf] = settled]
             ended == [record EXCEPT !.entries[record.leaf].status = "Failed"]
             n == [ended EXCEPT !.active_job = NoId]
  <2>1. Update(n, result)
    BY <1>3 DEF FinishCompaction
  <2>2. /\ settled \in Entries /\ settled.path = e.path
        /\ settled.role = e.role /\ settled.item = e.item
        /\ settled.status = "Failed"
        /\ settled.text = e.text
    BY <1>2 DEF Entries, MessageStatus, Settled
  <2>3. ended = [record EXCEPT !.entries = es]
    OBVIOUS
  <2> HIDE DEF settled
  <2>4. /\ es \in Seq(Entries) /\ Len(es) = Len(record.entries)
        /\ es[leaf] = settled
        /\ \A i \in 1..Len(record.entries) :
              i # leaf => es[i] = record.entries[i]
    <3>1. record.entries \in Seq(Entries)
      BY <1>2, RecordFacts
    <3> QED
      BY <1>2, <2>2, <3>1, ExceptSeq
  <2> HIDE DEF es, ended
  <2>5. /\ n \in Record /\ n.entries = es /\ n.leaf = leaf
        /\ n.queue = record.queue /\ n.active_job = NoId
        /\ n.continuation = record.continuation
        /\ n.approved = record.approved /\ n.settings = record.settings
    BY <1>2, <2>3, <2>4 DEF Record
  <2> HIDE DEF n
  <2>6. Resting(n) /\ Follows(record, n, NoId) /\ Path(n) = Path(record)
    <3>1. /\ n.entries[record.leaf].status # "Pending"
          /\ n.approved \in {NoId, n.settings}
      BY <1>2, <2>2, <2>4, <2>5
    <3> QED
      BY <1>2, <2>2, <2>4, <2>5, <3>1, LeafSettles
  <2>7. Sound(n) /\ Leads(record, n, NoId)
    BY <2>5, <2>6, IdleRests DEF Leads
  <2> QED
    BY <2>1, <2>7, UpdateMoves
<1>4. CASE ~failed
  <2> DEFINE p == PopMessage(record)
             n == [p EXCEPT !.active_job = NoId]
  <2>1. Update(n, result)
    BY <1>4 DEF FinishCompaction
  <2>2. /\ p \in Record /\ p.entries = record.entries
        /\ p.queue = record.queue /\ p.settings = record.settings
        /\ p.approved = record.approved
        /\ p.continuation = record.continuation
    BY <1>1, PopFacts
  <2> DEFINE leaf == PopMessage(record).leaf
  <2>3. p.leaf = leaf
    OBVIOUS
  <2> HIDE DEF p, leaf
  <2>4. /\ n \in Record /\ n.entries = record.entries /\ n.leaf = leaf
        /\ n.queue = record.queue /\ n.active_job = NoId
        /\ n.settings = record.settings /\ n.approved = record.approved
        /\ n.continuation = record.continuation
    BY <2>2, <2>3 DEF Record
  <2> HIDE DEF n
  <2>5. n.leaf = PopMessage(record).leaf
    BY <2>4 DEF leaf
  <2>6. n.approved \in {NoId, n.settings}
    BY <1>2, <2>4
  <2> QED
    BY <1>1, <1>2, <2>1, <2>4, <2>5, <2>6, PoppedMoves
<1> QED
  BY <1>3, <1>4

-----------------------------------------------------------------------------
(* Edits of the record, its title and its settings.                        *)
LEMMA EditMoves ==
    ASSUME Here, NEW n \in Record,
           n.entries = record.entries, n.leaf = record.leaf,
           n.queue = record.queue, n.active_job = record.active_job,
           n.began = record.began,
           n.continuation \in {record.continuation, NoId},
           n.approved \in {NoId, n.settings},
           NEW v, NEW result,
           Replace(v, n, result) \/ Update(Advance(n), result)
    PROVE  Moves(NoId)
<1>1. Sound(n) /\ Follows(record, n, NoId) /\ Path(n) = Path(record)
  BY EditIsSound DEF Here
<1>2. Leads(record, n, NoId)
  BY <1>1 DEF Leads
<1>3. Sound(Advance(n)) /\ Leads(n, Advance(n), NoId)
  BY <1>1, AdvanceIsSound
<1>4. Leads(record, Advance(n), NoId)
  BY <1>2, <1>3, LeadsOn DEF Here
<1>5. Update(Advance(n), result)
  BY DEF Replace
<1> QED
  BY <1>3, <1>4, <1>5, UpdateMoves

LEMMA EditStepMoves ==
    ASSUME Here, NEW v, NEW result, EditStep(v, result)
    PROVE  Moves(NoId)
<1>1. record \in Record /\ record.approved \in {NoId, record.settings}
  BY DEF Here, Sound
<1>2. ASSUME NEW i \in DOMAIN record.entries, ContinueFrom(v, i, result)
      PROVE  Moves(NoId)
  BY <1>2, ContinueFromMoves
<1>3. ASSUME NEW c, ClearContinuation(v, c, result) PROVE Moves(NoId)
  <2> DEFINE n == [record EXCEPT !.continuation = NoId]
  <2>1. Replace(v, n, result)
    BY <1>3 DEF ClearContinuation
  <2>2. /\ n \in Record /\ n.entries = record.entries /\ n.leaf = record.leaf
        /\ n.queue = record.queue /\ n.active_job = record.active_job
        /\ n.began = record.began /\ n.continuation = NoId
        /\ n.approved \in {NoId, n.settings}
    BY <1>1 DEF Record
  <2> HIDE DEF n
  <2> QED
    BY <2>1, <2>2, EditMoves
<1>4. ASSUME NEW settings \in Settings, SelectSettings(v, settings, result)
      PROVE  Moves(NoId)
  <2> DEFINE s == Selected(record, settings)
  <2>1. Resting(record) /\ Replace(v, s, result) /\ record.active_job = NoId
    BY <1>4, IdleHere DEF SelectSettings
  <2>2. Resting(s) /\ Leads(record, s, NoId) /\ s.active_job = NoId
    BY <1>1, <2>1, SelectedRests
  <2> HIDE DEF s
  <2>3. Sound(s)
    BY <2>2, IdleRests DEF Resting
  <2> QED
    BY <2>1, <2>2, <2>3, ReplaceMoves
<1>5. CASE ApproveDirectory(v, result)
  <2> DEFINE n == [record EXCEPT !.approved = record.settings]
  <2>1. Replace(v, n, result)
    BY <1>5 DEF ApproveDirectory
  <2>2. /\ n \in Record /\ n.entries = record.entries /\ n.leaf = record.leaf
        /\ n.queue = record.queue /\ n.active_job = record.active_job
        /\ n.began = record.began /\ n.continuation = record.continuation
        /\ n.approved \in {NoId, n.settings}
    BY <1>1 DEF Record
  <2> HIDE DEF n
  <2> QED
    BY <2>1, <2>2, EditMoves
<1>6. CASE Rename(v, result) \/ ClaimTitle(result)
  <2> DEFINE n == [record EXCEPT !.title_pending = FALSE]
  <2>1. Replace(v, n, result) \/ Update(Advance(n), result)
    BY <1>6 DEF Rename, ClaimTitle
  <2>2. /\ n \in Record /\ n.entries = record.entries /\ n.leaf = record.leaf
        /\ n.queue = record.queue /\ n.active_job = record.active_job
        /\ n.began = record.began /\ n.continuation = record.continuation
        /\ n.approved \in {NoId, n.settings}
    BY <1>1 DEF Record
  <2> HIDE DEF n
  <2> QED
    BY <2>1, <2>2, EditMoves
<1> QED
  BY <1>2, <1>3, <1>4, <1>5, <1>6 DEF EditStep

-----------------------------------------------------------------------------
(* The queue, creation and deletion, and the next start.                   *)
LEMMA RemoveQueueItemMoves ==
    ASSUME Here, NEW w, NEW item, NEW result,
           RemoveQueueItem(w, item, result)
    PROVE  Moves(NoId)
<1> DEFINE n == Dequeue(record, item)
<1>1. /\ record \in Record /\ Sound(record) /\ item \in Queued(record)
      /\ Update(n, result)
  BY DEF Here, RemoveQueueItem
<1>2. Leads(record, n, NoId) /\ Sound(n)
  BY <1>1, DequeueRests
<1> HIDE DEF n
<1> QED
  BY <1>1, <1>2, UpdateMoves

(* A new item joins the queue, or an unknown outcome loses it.             *)
Enqueued(item) ==
    /\ item \in QueueItem \ drawn /\ drawn' = drawn \union {item}
    /\ uncertain' \in BOOLEAN
    /\ record' \in Record /\ Sound(record')
    /\ record'.entries = record.entries
    /\ \A k \in 1..Len(record'.queue) :
          \/ record'.queue[k].id = item
          \/ \E l \in 1..Len(record.queue) :
                record.queue[l].id = record'.queue[k].id

LEMMA EnqueueJoins ==
    ASSUME Here, NEW w, NEW item \in QueueItem, NEW delivery \in Delivery,
           NEW job \in JobId \union {NoId}, NEW result,
           Enqueue(w, item, delivery, job, result)
    PROVE  Enqueued(item)
<1> DEFINE new == [id |-> item, delivery |-> delivery, job |-> job,
                   settings |-> record.settings]
           q == Append(record.queue, new)
           n == [record EXCEPT !.queue = q,
                               !.queue_revision = record.queue_revision + 1]
<1>1. /\ item \notin drawn /\ drawn' = drawn \union {item}
      /\ CommitOnly(n, result)
  BY DEF Enqueue
<1>2. /\ record \in Record /\ Sound(record) /\ ItemsOnce(record)
      /\ record.queue \in Seq(Item) /\ Len(record.queue) \in Nat
  BY RecordFacts DEF Here, Sound
<1>3. new \in Item /\ new.id = item
  BY <1>2 DEF Item, Record
<1> HIDE DEF new
<1>4. /\ q \in Seq(Item) /\ Len(q) = Len(record.queue) + 1
      /\ \A k \in 1..Len(record.queue) : q[k] = record.queue[k]
      /\ q[Len(record.queue) + 1] = new
  BY <1>2, <1>3, AppendProperties
<1> HIDE DEF q
<1>5. /\ n \in Record /\ n.queue = q
      /\ n.entries = record.entries /\ n.leaf = record.leaf
      /\ n.active_job = record.active_job /\ n.began = record.began
      /\ n.continuation = record.continuation
      /\ n.settings = record.settings /\ n.approved = record.approved
  <2>1. record.queue_revision + 1 \in Nat \ {0}
    BY <1>2 DEF Record
  <2> QED
    BY <1>2, <1>4, <2>1 DEF Record
<1> HIDE DEF n
<1>6. /\ \A i \in 1..Len(record.entries) : record.entries[i].item # item
      /\ \A k \in 1..Len(record.queue) : record.queue[k].id # item
  BY <1>1 DEF Here, AllDrawn
<1>7. \A k \in 1..Len(q) :
         \/ k = Len(q) /\ q[k].id = item
         \/ k \in 1..Len(record.queue) /\ q[k] = record.queue[k]
  BY <1>2, <1>3, <1>4
<1>8. ItemsOnce(n)
  <2>1. \A k, l \in 1..Len(q) : q[k].id = q[l].id => k = l
    BY <1>2, <1>6, <1>7 DEF ItemsOnce
  <2>2. \A i \in 1..Len(record.entries), k \in 1..Len(q) :
           record.entries[i].item # q[k].id
    BY <1>2, <1>6, <1>7 DEF ItemsOnce
  <2> QED
    BY <1>2, <1>5, <2>1, <2>2 DEF ItemsOnce
<1>9. Sound(n)
  BY <1>2, <1>5, <1>8, QueueEdits
<1>10. /\ record' = n \/ record' = record
       /\ uncertain' \in BOOLEAN
  BY <1>1 DEF CommitOnly, Here
<1> QED
  BY <1>1, <1>2, <1>5, <1>7, <1>9, <1>10 DEF Enqueued

LEMMA RestartMoves ==
    ASSUME Here, Restart
    PROVE  Moves(NoId)
<1>1. /\ record' = InterruptedRequest(record) /\ uncertain' = FALSE
      /\ UNCHANGED drawn
      /\ record \in Record /\ Sound(record) /\ record.exists = TRUE
  BY RecordFacts DEF Restart, Here
<1>2. CASE record.active_job = NoId
  <2>1. record' = record
    BY <1>1, <1>2 DEF InterruptedRequest
  <2>2. Follows(record, record, NoId)
    BY <1>1, SameMessages DEF Sound
  <2> QED
    BY <1>1, <2>1, <2>2 DEF Moves
<1>3. CASE record.active_job # NoId
  <2> DEFINE asked == {i \in Range(Path(record)) :
                          record.entries[i].request = record.active_job}
             leaf == record.leaf
             e == record.entries[leaf]
             final == e.role = "Assistant"
             settled == [e EXCEPT !.status = "Interrupted",
                                  !.final_phase = final]
             es == [record.entries EXCEPT ![leaf] = settled]
             a == Advance([record EXCEPT !.active_job = NoId])
             n == [a EXCEPT !.entries = es]
  <2>1. /\ leaf \in 1..Len(record.entries) /\ leaf \in Range(Path(record))
        /\ e \in Entries /\ record.entries \in Seq(Entries)
        /\ e.request = record.active_job /\ leaf \in Nat
        /\ record.approved \in {NoId, record.settings}
    BY <1>1, <1>3, PendingIsLeaf, RecordFacts DEF Sound, PendingIsActive
  <2>2. \A i \in asked : i \in 1..leaf
    BY <1>1, PathFacts DEF Sound
  <2>3. leaf \in asked
    BY <2>1
  <2> HIDE DEF asked
  <2>4. \A i \in asked : leaf >= i /\ (i >= leaf => i = leaf)
    BY <2>1, <2>2
  <2>5. Max(asked) = leaf
    BY <2>3, <2>4 DEF Max
  <2>6. InterruptedRequest(record) =
          [a EXCEPT !.entries[leaf].status = "Interrupted",
                    !.entries[leaf].final_phase = final]
    BY <1>1, <1>3, <2>3, <2>5 DEF InterruptedRequest, asked
  <2>7. /\ a \in Record /\ a.entries = record.entries /\ a.leaf = leaf
        /\ a.queue = record.queue /\ a.active_job = NoId
        /\ a.continuation = record.continuation
        /\ a.approved = record.approved /\ a.settings = record.settings
    <3> DEFINE b == [record EXCEPT !.active_job = NoId]
    <3>1. /\ b \in Record /\ b.entries = record.entries /\ b.leaf = leaf
          /\ b.queue = record.queue /\ b.active_job = NoId
          /\ b.continuation = record.continuation
          /\ b.approved = record.approved /\ b.settings = record.settings
      BY <1>1 DEF Record
    <3> HIDE DEF b
    <3> QED
      BY <3>1, AdvanceFacts DEF b
  <2> HIDE DEF a
  <2>8. InterruptedRequest(record) = n
    <3>1. ASSUME NEW x
          PROVE  [a EXCEPT !.entries[leaf].status = "Interrupted",
                           !.entries[leaf].final_phase = x]
                 = [a EXCEPT !.entries =
                      [a.entries EXCEPT ![leaf] =
                          [a.entries[leaf] EXCEPT !.status = "Interrupted",
                                                  !.final_phase = x]]]
      OBVIOUS
    <3> QED
      BY <2>6, <2>7, <3>1
  <2>9. /\ settled \in Entries /\ settled.path = e.path
        /\ settled.role = e.role /\ settled.item = e.item
        /\ settled.status = "Interrupted" /\ settled.text = e.text
    <3>1. final \in BOOLEAN
      OBVIOUS
    <3> HIDE DEF final
    <3> QED
      BY <2>1, <3>1 DEF Entries, MessageStatus, Settled
  <2> HIDE DEF settled
  <2>10. /\ es \in Seq(Entries) /\ Len(es) = Len(record.entries)
         /\ es[leaf] = settled
         /\ \A i \in 1..Len(record.entries) :
               i # leaf => es[i] = record.entries[i]
    BY <2>1, <2>9, ExceptSeq
  <2> HIDE DEF es
  <2>11. /\ n \in Record /\ n.entries = es /\ n.leaf = leaf
         /\ n.queue = record.queue /\ n.active_job = NoId
         /\ n.continuation = record.continuation
         /\ n.approved = record.approved /\ n.settings = record.settings
    BY <2>7, <2>10 DEF Record
  <2> HIDE DEF n
  <2>12. /\ n.entries[record.leaf].status # "Pending"
         /\ n.approved \in {NoId, n.settings}
    BY <2>1, <2>9, <2>10, <2>11
  <2>13. Resting(n) /\ Follows(record, n, NoId)
    BY <1>1, <1>3, <2>9, <2>10, <2>11, <2>12, LeafSettles
  <2>14. Sound(n)
    BY <2>11, <2>13, IdleRests
  <2> QED
    BY <1>1, <2>8, <2>11, <2>13, <2>14 DEF Moves
<1> QED
  BY <1>2, <1>3

(* A new conversation has no item and nothing queued.                      *)
NewRecord(n) ==
    /\ n \in Record /\ Sound(n) /\ n.queue = <<>>
    /\ \A i \in 1..Len(n.entries) : n.entries[i].item = NoId

LEMMA EmptyIsNew ==
    ASSUME NEW settings \in Settings, NEW approved \in {NoId, settings}
    PROVE  LET n == Empty(settings, approved)
           IN NewRecord(n) /\ Resting(n) /\ n.active_job = NoId
<1> DEFINE n == Empty(settings, approved)
<1>1. <<>> \in Seq(Entries) /\ <<>> \in Seq(Item) /\ Len(<<>>) = 0
  OBVIOUS
<1>2. /\ n \in Record /\ n.entries = <<>> /\ n.queue = <<>> /\ n.leaf = 0
      /\ n.active_job = NoId /\ n.continuation = NoId
      /\ n.approved = approved /\ n.settings = settings
  BY <1>1 DEF Empty, Record
<1> HIDE DEF n
<1>3. Resting(n)
  BY <1>1, <1>2 DEF Resting, Tree, NonePending, CheckpointIsOnPath, ItemsOnce
<1>4. Sound(n)
  BY <1>2, <1>3, IdleRests
<1> QED
  BY <1>1, <1>2, <1>3, <1>4 DEF n, NewRecord

LEMMA CopiedIsNew ==
    ASSUME NEW r, NewRecord(r), Resting(r), r.active_job = NoId
    PROVE  NewRecord(Copied(r))
<1> DEFINE u == UserMessage(NoId)
           p == PushMessage(r, u)
           e == Message("Assistant", "Complete", NoId, NoId)
           m == [e EXCEPT !.final_phase = TRUE, !.text = TRUE]
           n == PushMessage(p, m)
<1>1. r \in Record /\ Len(r.entries) \in Nat
  BY RecordFacts DEF NewRecord
<1>2. /\ u \in Entries /\ u.role = "User"
      /\ u.status = "Complete" /\ u.item = NoId
  BY UserMessageFacts
<1> HIDE DEF u
<1>3. Resting(p) /\ Pushed(r, u, p)
  BY <1>1, <1>2, PushRests
<1>4. p \in Record /\ Len(p.entries) \in Nat
  BY <1>3, RecordFacts DEF Pushed
<1>5. /\ m \in Entries /\ m.role = "Assistant" /\ m.status = "Complete"
      /\ m.item = NoId
  <2>1. <<>> \in Seq(Nat)
    OBVIOUS
  <2>2. /\ e \in Entries /\ e.role = "Assistant" /\ e.status = "Complete"
        /\ e.item = NoId
    BY <2>1 DEF Message, Entries, MessageStatus, Settled
  <2> HIDE DEF e
  <2> QED
    BY <2>2 DEF Entries
<1>6. Copied(r) = n
  BY DEF Copied, u
<1> HIDE DEF m, p
<1>7. Resting(n) /\ Pushed(p, m, n)
  BY <1>3, <1>4, <1>5, PushRests
<1> HIDE DEF n
<1>8. n \in Record /\ n.queue = <<>> /\ n.active_job = NoId
  BY <1>3, <1>7 DEF Pushed, NewRecord
<1>9. \A i \in 1..Len(p.entries) : p.entries[i].item = NoId
  <2>1. /\ Len(p.entries) = Len(r.entries) + 1
        /\ \A i \in 1..Len(r.entries) : p.entries[i].item = NoId
        /\ p.entries[Len(r.entries) + 1].item = NoId
    BY <1>2, <1>3 DEF Pushed, NewRecord
  <2> QED
    BY <1>1, <2>1
<1>10. \A i \in 1..Len(n.entries) : n.entries[i].item = NoId
  <2>1. /\ Len(n.entries) = Len(p.entries) + 1
        /\ \A i \in 1..Len(p.entries) : n.entries[i].item = NoId
        /\ n.entries[Len(p.entries) + 1].item = NoId
    BY <1>5, <1>7, <1>9 DEF Pushed
  <2> QED
    BY <1>4, <2>1
<1>11. Sound(n)
  BY <1>7, <1>8, IdleRests
<1> QED
  BY <1>6, <1>8, <1>10, <1>11 DEF NewRecord

-----------------------------------------------------------------------------
(* Every step, by what it does to the conversation.                        *)
Deletes ==
    record' \in {record, Gone} /\ uncertain' \in BOOLEAN /\ UNCHANGED drawn

Creates ==
    /\ record' = record \/ NewRecord(record')
    /\ uncertain' \in BOOLEAN /\ UNCHANGED drawn

LEMMA BeginStepMoves ==
    ASSUME Here, NEW v, NEW job \in JobId, NEW result,
           BeginStep(v, job, result)
    PROVE  Moved
<1>1. ASSUME NEW s \in Settings,
             BeginMessage(v, job, s, result) \/ BeginCommand(v, job, s, result)
      PROVE  Moved
  BY <1>1, BeginMessageMoves, BeginCommandMoves DEF Moved
<1>2. ASSUME NEW s \in Settings, NEW i \in DOMAIN record.entries,
             Revise(v, i, job, s, result)
      PROVE  Moved
  BY <1>2, ReviseMoves DEF Moved
<1>3. ASSUME NEW s \in Settings, NEW w, NEW item \in QueueItem,
             BeginFollowUp(v, w, item, job, s, result)
      PROVE  Moved
  BY <1>3, BeginFollowUpMoves DEF Moved
<1>4. CASE BeginCompaction(v, job, result)
  BY <1>4, BeginCompactionMoves DEF Moved
<1>5. ASSUME NEW c, ClaimContinuation(v, c, job, result)
      PROVE  Moved
  BY <1>5, ClaimContinuationMoves DEF Moved
<1> QED
  BY <1>1, <1>2, <1>3, <1>4, <1>5 DEF BeginStep

LEMMA WorkStepMoves ==
    ASSUME Here, NEW job \in JobId, NEW result, WorkStep(job, result)
    PROVE  Moved
<1>1. CASE record.began = "message" /\ MessageStep(job, result)
  <2>1. CASE UpdateOutput(job, result)
    BY <1>1, <2>1, UpdateOutputMoves DEF Moved
  <2>2. CASE SettleToolBatch(job, result)
    BY <1>1, <2>2, SettleToolBatchMoves DEF Moved
  <2>3. ASSUME NEW item \in QueueItem, DeliverSteering(job, item, result)
        PROVE  Moved
    BY <2>3, DeliverSteeringMoves DEF Moved
  <2>4. ASSUME NEW status \in Settled, NEW reply \in BOOLEAN,
               SettleMessage(job, status, reply, result)
        PROVE  Moved
    BY <2>4, SettleMessageMoves DEF Moved
  <2>5. ASSUME NEW reply \in BOOLEAN, PauseForBudget(job, reply, result)
        PROVE  Moved
    BY <2>5, PauseForBudgetMoves DEF Moved
  <2> QED
    BY <1>1, <2>1, <2>2, <2>3, <2>4, <2>5 DEF MessageStep
<1>2. ASSUME NEW status \in Settled, SettleCommand(job, status, result)
      PROVE  Moved
  BY <1>2, SettleCommandMoves DEF Moved
<1>3. ASSUME record.began = "compaction", NEW failed \in BOOLEAN,
             FinishCompaction(job, failed, result)
      PROVE  Moved
  BY <1>3, FinishCompactionMoves DEF Moved
<1> QED
  BY <1>1, <1>2, <1>3 DEF WorkStep

LEMMA StepHere ==
    ASSUME Here, StoreNext
    PROVE  Moved \/ Deletes \/ \E item \in QueueItem : Enqueued(item)
<1>1. CASE Restart
  BY <1>1, RestartMoves DEF Moved
<1>2. ASSUME NEW result, StoreStep(result)
      PROVE  Moved \/ Deletes \/ \E item \in QueueItem : Enqueued(item)
  <2>1. record.exists = TRUE
    BY RecordFacts DEF Here
  <2>2. CASE CreateStep(result)
    <3>1. record # Missing
      BY <2>1 DEF Missing
    <3>2. PICK v : Delete(v, result)
      BY <2>2, <3>1 DEF CreateStep, CreateSaved, CreateFork
    <3> QED
      BY <3>2 DEF Delete, CommitResult, CommitOnly, Deletes, Here
  <2>3. ASSUME NEW v, NEW job \in JobId, BeginStep(v, job, result)
        PROVE  Moved
    BY <2>3, BeginStepMoves
  <2>4. ASSUME NEW job \in JobId, WorkStep(job, result)
        PROVE  Moved
    BY <2>4, WorkStepMoves
  <2>5. ASSUME NEW v, EditStep(v, result)
        PROVE  Moved
    BY <2>5, EditStepMoves DEF Moved
  <2>6. ASSUME NEW w, NEW q \in QueueItem, QueueStep(w, q, result)
        PROVE  Moved \/ \E item \in QueueItem : Enqueued(item)
    <3>1. ASSUME NEW d \in Delivery, NEW job \in JobId \union {NoId},
                 Enqueue(w, q, d, job, result)
          PROVE  Enqueued(q)
      BY <3>1, EnqueueJoins
    <3>2. ASSUME RemoveQueueItem(w, q, result) PROVE Moved
      BY <3>2, RemoveQueueItemMoves DEF Moved
    <3> QED
      BY <2>6, <3>1, <3>2 DEF QueueStep
  <2> QED
    BY <1>2, <2>2, <2>3, <2>4, <2>5, <2>6 DEF StoreStep
<1> QED
  BY <1>1, <1>2 DEF StoreNext

LEMMA StepAbsent ==
    ASSUME record \in {Missing, Gone}, uncertain \in BOOLEAN, StoreNext
    PROVE  Creates
<1>1. record.exists = FALSE
  BY DEF Missing, Gone
<1>2. CASE Restart
  BY <1>1, <1>2 DEF Restart, InterruptedRequest, Creates
<1>3. ASSUME NEW result, StoreStep(result)
      PROVE  Creates
  <2>1. CreateStep(result)
    BY <1>1, <1>3 DEF StoreStep, BeginStep, WorkStep, EditStep, QueueStep,
       BeginMessage, BeginCommand, BeginFollowUp, BeginCompaction,
       ClaimContinuation, SettleCommand, ClearContinuation, SelectSettings,
       ApproveDirectory, Rename, ClaimTitle, Enqueue, RemoveQueueItem,
       Quiet, Idle
  <2>2. ASSUME NEW n, NewRecord(n), CommitResult(n, result)
        PROVE  Creates
    BY <2>2 DEF CommitResult, CommitOnly, Creates
  <2>3. ASSUME NEW s \in Settings, NEW a \in {NoId, s},
               CreateSaved(s, a, result)
        PROVE  Creates
    <3>1. NewRecord(Empty(s, a))
      BY EmptyIsNew
    <3> QED
      BY <2>2, <2>3, <3>1 DEF CreateSaved
  <2>4. ASSUME NEW s \in Settings, CreateFork(s, result)
        PROVE  Creates
    <3>1. NewRecord(Copied(Empty(s, NoId)))
      BY EmptyIsNew, CopiedIsNew
    <3> QED
      BY <2>2, <2>4, <3>1 DEF CreateFork
  <2>5. \A v : ~Delete(v, result)
    BY <1>1 DEF Delete, Idle
  <2> QED
    BY <2>1, <2>3, <2>4, <2>5 DEF CreateStep
<1> QED
  BY <1>2, <1>3 DEF StoreNext

LEMMA InvIsHere ==
    ASSUME StoreInv
    PROVE  /\ record.exists => Here
           /\ ~record.exists => record \in {Missing, Gone}
           /\ uncertain \in BOOLEAN
<1>1. record \in Record => record.exists = TRUE
  BY RecordFacts
<1>2. record \in {Missing, Gone} => record.exists = FALSE
  BY DEF Missing, Gone
<1>3. record \in Record \union {Missing, Gone}
  BY DEF StoreInv
<1>4. record \in Record => Here
  <2> SUFFICES ASSUME record \in Record PROVE Here
    OBVIOUS
  <2>1. record.exists
    BY <1>1
  <2> QED
    BY <2>1 DEF StoreInv, Here
<1> QED
  BY <1>1, <1>2, <1>3, <1>4 DEF StoreInv

(* Each kind of step keeps the invariant, whoever takes it.                *)
LEMMA MovedKeeps ==
    ASSUME Here, Moved
    PROVE  StoreInv'
<1>1. ASSUME NEW item \in drawn \union {NoId}, Moves(item)
      PROVE  StoreInv'
  <2>1. AllDrawn(record)'
    BY <1>1 DEF Moves, Follows, Brings, AllDrawn, Here
  <2> QED
    BY <1>1, <2>1 DEF Moves, StoreInv, Here
<1>2. \A item : Deliverable(item) => item \in drawn
  BY DEF Deliverable, Here, AllDrawn
<1> QED
  BY <1>1, <1>2 DEF Moved

LEMMA EnqueuedKeeps ==
    ASSUME Here, NEW item \in QueueItem, Enqueued(item)
    PROVE  StoreInv'
<1>1. AllDrawn(record)'
  BY DEF Enqueued, AllDrawn, Here
<1> QED
  BY <1>1 DEF Enqueued, StoreInv, Here

LEMMA DeletesKeeps ==
    ASSUME StoreInv, Deletes
    PROVE  StoreInv'
BY DEF Deletes, StoreInv, AllDrawn, Gone

LEMMA CreatesKeeps ==
    ASSUME StoreInv, Creates
    PROVE  StoreInv'
<1>1. CASE record' = record
  BY <1>1 DEF Creates, StoreInv, AllDrawn
<1>2. CASE NewRecord(record')
  BY <1>2 DEF Creates, StoreInv, NewRecord, AllDrawn
<1> QED
  BY <1>1, <1>2 DEF Creates

LEMMA StepKeepsStoreInv ==
    ASSUME StoreInv, [StoreNext]_storedVars
    PROVE  StoreInv'
<1>1. CASE UNCHANGED storedVars
  BY <1>1 DEF storedVars, StoreInv, AllDrawn
<1>2. CASE StoreNext /\ ~record.exists
  BY <1>2, InvIsHere, StepAbsent, CreatesKeeps
<1>3. CASE StoreNext /\ record.exists
  BY <1>3, InvIsHere, StepHere, MovedKeeps, DeletesKeeps, EnqueuedKeeps
<1> QED
  BY <1>1, <1>2, <1>3

(* The stored row is a tree of whole paths with the active request's       *)
(* message, and no other, pending at its leaf, and every queued item in    *)
(* one place, however the operations of the store follow one another.      *)
THEOREM StoreInvariance == StoreSpec => []StoreInv
<1>1. StoreInit => StoreInv
  <2> SUFFICES ASSUME StoreInit PROVE StoreInv
    OBVIOUS
  <2>1. record.exists = FALSE
    BY DEF StoreInit, Missing
  <2> QED
    BY <2>1 DEF StoreInit, StoreInv
<1>2. StoreInv /\ [StoreNext]_storedVars => StoreInv'
  BY StepKeepsStoreInv
<1> QED
  BY <1>1, <1>2, PTL DEF StoreSpec

-----------------------------------------------------------------------------
(* What load accepts, from the invariant.                                  *)
LEMMA SoundLoads ==
    ASSUME NEW r \in Record, Sound(r)
    PROVE  RequestMatchesLeaf(r) /\ CheckpointIsOnPath(r)
<1> DEFINE pending == {i \in Range(Path(r)) : r.entries[i].status = "Pending"}
<1>1. CASE r.active_job = NoId
  <2>1. pending = {}
    BY <1>1, PathFacts DEF Sound, PendingIsActive
  <2> QED
    BY <1>1, <2>1 DEF RequestMatchesLeaf, Sound
<1>2. CASE r.active_job # NoId
  <2>1. pending = {r.leaf}
    BY <1>2, PathFacts, PendingIsLeaf DEF Sound, PendingIsActive
  <2>2. r.entries[r.leaf].request = r.active_job
    BY <1>2 DEF Sound, PendingIsActive
  <2> QED
    BY <1>2, <2>1, <2>2 DEF RequestMatchesLeaf, Sound
<1> QED
  BY <1>1, <1>2

LEMMA InvSound ==
    ASSUME StoreInv
    PROVE  RecordIsSound
<1>1. TypeOK
  BY DEF StoreInv, TypeOK
<1>2. ASSUME record.exists
      PROVE  record \in Record /\ Sound(record)
  BY <1>2, InvIsHere DEF Here
<1>3. RecordLoads
  BY <1>2, SoundLoads DEF RecordLoads
<1>4. ConsentMatchesSettings
  BY <1>2 DEF ConsentMatchesSettings, Sound
<1>5. BranchesAreWhole
  <2> SUFFICES ASSUME record.exists, NEW i \in DOMAIN record.entries,
                      record.entries[i].role # "Deleted"
               PROVE  LET e == record.entries[i]
                      IN /\ Last(e.path) = i
                         /\ \A k \in DOMAIN e.path :
                               /\ record.entries[e.path[k]].role # "Deleted"
                               /\ record.entries[e.path[k]].path
                                     = SubSeq(e.path, 1, k)
    BY DEF BranchesAreWhole
  <2>1. i \in 1..Len(record.entries) /\ record.entries[i] \in Entries
    BY <1>2, RecordFacts
  <2>2. PathFits(record, i)
    BY <1>2, <2>1 DEF Sound, Tree
  <2>3. DOMAIN record.entries[i].path = 1..Len(record.entries[i].path)
    BY <2>1, EntryFacts
  <2> QED
    BY <2>2, <2>3 DEF PathFits, Last
<1> QED
  BY <1>1, <1>3, <1>4, <1>5 DEF RecordIsSound

(* The stored row can be loaded by the next operation, all its branches    *)
(* are whole and no consent outlives its settings (conversations/store.rs  *)
(* record_from_parts, load_messages, record_directory_approval).           *)
THEOREM RecordStaysSound == StoreSpec => []RecordIsSound
<1>1. StoreInv => RecordIsSound
  BY InvSound
<1> QED
  BY <1>1, StoreInvariance, PTL

LEMMA InvItemInOnePlace ==
    ASSUME StoreInv
    PROVE  ItemInOnePlace
<1>0. ASSUME NEW S, \A x, y \in S : x = y
      PROVE  Cardinality(S) \in {0, 1} /\ (Cardinality(S) = 1 => S # {})
  <2>1. CASE S = {}
    BY <2>1, FS_EmptySet
  <2>2. CASE S # {}
    <3>1. PICK x : S = {x}
      BY <1>0, <2>2
    <3> QED
      BY <3>1, FS_Singleton
  <2> QED
    BY <2>1, <2>2
<1> SUFFICES ASSUME record.exists, NEW q \in QueueItem
             PROVE  Cardinality({i \in DOMAIN record.entries :
                                   record.entries[i].item = q})
                    + Cardinality({k \in DOMAIN record.queue :
                                   record.queue[k].id = q}) <= 1
  BY DEF ItemInOnePlace
<1> DEFINE delivered == {i \in DOMAIN record.entries :
                           record.entries[i].item = q}
           queued == {k \in DOMAIN record.queue : record.queue[k].id = q}
<1>1. /\ ItemsOnce(record)
      /\ DOMAIN record.entries = 1..Len(record.entries)
      /\ DOMAIN record.queue = 1..Len(record.queue)
  BY InvIsHere, RecordFacts DEF Here, Sound
<1>2. \A x, y \in delivered : x = y
  BY <1>1 DEF ItemsOnce
<1>3. \A x, y \in queued : x = y
  BY <1>1 DEF ItemsOnce
<1>4. delivered = {} \/ queued = {}
  BY <1>1 DEF ItemsOnce
<1> HIDE DEF delivered, queued
<1>5. /\ Cardinality(delivered) \in {0, 1}
      /\ Cardinality(delivered) = 1 => delivered # {}
      /\ Cardinality(queued) \in {0, 1}
      /\ Cardinality(queued) = 1 => queued # {}
  BY <1>0, <1>2, <1>3
<1>6. Cardinality(delivered) + Cardinality(queued) <= 1
  BY <1>4, <1>5
<1> QED
  BY <1>6 DEF delivered, queued

(* A queued message is still queued, was delivered as one message, or was  *)
(* taken back, and never two of these (deliver_steering, begin_followup,   *)
(* remove_queue_item and their uncertain commits).                         *)
THEOREM ItemStaysInOnePlace == StoreSpec => []ItemInOnePlace
<1>1. StoreInv => ItemInOnePlace
  BY InvItemInOnePlace
<1> QED
  BY <1>1, StoreInvariance, PTL

(* A settled message never changes and streamed text never disappears,     *)
(* until the conversation is deleted (write_messages, pause_for_budget,    *)
(* finish_compaction, interrupt_requests).                                 *)
THEOREM HistoryStays == StoreSpec => HistoryIsKept
<1>1. ASSUME StoreInv, [StoreNext]_storedVars, record.exists, record'.exists
      PROVE  Kept(record, record') /\ record \in Record /\ record' \in Record
  <2>1. Here
    BY <1>1, InvIsHere
  <2>2. Kept(record, record)
    BY <2>1, SameMessages DEF Here, Sound, Follows
  <2>3. CASE UNCHANGED storedVars
    BY <2>1, <2>2, <2>3 DEF storedVars, Here
  <2>4. CASE StoreNext
    <3>1. Moved \/ Deletes \/ \E item \in QueueItem : Enqueued(item)
      BY <2>1, <2>4, StepHere
    <3>2. CASE Moved
      BY <2>1, <3>2 DEF Moved, Moves, Follows, Here
    <3>3. CASE Deletes
      <4>1. record' = record
        <5>1. Gone.exists = FALSE
          BY DEF Gone
        <5> QED
          BY <1>1, <3>3, <5>1 DEF Deletes
      <4> QED
        BY <2>1, <2>2, <4>1 DEF Here
    <3>4. ASSUME NEW item, Enqueued(item)
          PROVE  Kept(record, record') /\ record' \in Record
      BY <2>1, <2>2, <3>4 DEF Enqueued, Kept
    <3> QED
      BY <2>1, <3>1, <3>2, <3>3, <3>4 DEF Here
  <2> QED
    BY <1>1, <2>3, <2>4
<1>2. StoreInv /\ [StoreNext]_storedVars =>
         [record.exists /\ record'.exists =>
            \A i \in DOMAIN record.entries :
               LET old == record.entries[i]
                   new == record'.entries[i]
               IN /\ i \in DOMAIN record'.entries
                  /\ old.status \in Settled => new = old
                  /\ old.text => new.text /\ new.role = old.role]_storedVars
  <2> SUFFICES ASSUME StoreInv, [StoreNext]_storedVars,
                      record.exists, record'.exists,
                      NEW i \in DOMAIN record.entries
               PROVE  LET old == record.entries[i]
                          new == record'.entries[i]
                      IN /\ i \in DOMAIN record'.entries
                         /\ old.status \in Settled => new = old
                         /\ old.text => new.text /\ new.role = old.role
    OBVIOUS
  <2>1. Kept(record, record') /\ record \in Record /\ record' \in Record
    BY <1>1
  <2>2. /\ DOMAIN record.entries = 1..Len(record.entries)
        /\ DOMAIN record'.entries = 1..Len(record'.entries)
    BY <2>1, RecordFacts
  <2> QED
    BY <2>1, <2>2 DEF Kept
<1> QED
  BY <1>2, StoreInvariance, PTL DEF StoreSpec, HistoryIsKept

(* Steering becomes a message only while the request it was written for is *)
(* active (deliver_steering; begin_followup takes follow-ups only).        *)
THEOREM SteeringStays == StoreSpec => SteeringStaysWithItsRequest
<1>1. ASSUME StoreInv, [StoreNext]_storedVars, record.exists, record'.exists,
             NEW k \in DOMAIN record.queue,
             record.queue[k].delivery = "Steering",
             NEW i \in DOMAIN record'.entries,
             record'.entries[i].item = record.queue[k].id
      PROVE  record.active_job = record.queue[k].job
  <2> DEFINE id == record.queue[k].id
  <2>1. /\ Here /\ ItemsOnce(record) /\ record \in Record
        /\ k \in 1..Len(record.queue) /\ id \in QueueItem
        /\ DOMAIN record.entries = 1..Len(record.entries)
    BY <1>1, InvIsHere, RecordFacts DEF Here, Sound, Item
  <2>2. \A j \in 1..Len(record.entries) : record.entries[j].item # id
    BY <2>1 DEF ItemsOnce
  <2>3. record'.entries # record.entries
    BY <1>1, <2>1, <2>2
  <2>4. StoreNext
    BY <1>1, <2>3 DEF storedVars
  <2>5. ~Deletes
    <3>1. Gone.exists = FALSE
      BY DEF Gone
    <3> QED
      BY <1>1, <2>3, <3>1 DEF Deletes
  <2>6. Moved
    BY <2>1, <2>3, <2>4, <2>5, StepHere DEF Enqueued
  <2>7. PICK item \in QueueItem \union {NoId} :
           Moves(item) /\ (item = NoId \/ Deliverable(item))
    BY <2>6 DEF Moved
  <2>8. i \in 1..Len(record'.entries)
    BY <1>1, <2>7, RecordFacts DEF Moves
  <2>9. item = id
    BY <1>1, <2>1, <2>2, <2>7, <2>8 DEF Moves, Follows, Brings
  <2>10. PICK l \in 1..Len(record.queue) :
            /\ record.queue[l].id = id
            /\ record.queue[l].delivery = "Steering" =>
                  record.active_job = record.queue[l].job
    BY <2>1, <2>7, <2>9 DEF Deliverable
  <2>11. l = k
    BY <2>1, <2>10 DEF ItemsOnce
  <2> QED
    BY <1>1, <2>10, <2>11
<1>2. StoreInv /\ [StoreNext]_storedVars =>
         [record.exists /\ record'.exists =>
            \A k \in DOMAIN record.queue :
               LET q == record.queue[k]
               IN /\ q.delivery = "Steering"
                  /\ \E i \in DOMAIN record'.entries :
                        record'.entries[i].item = q.id
                  => record.active_job = q.job]_storedVars
  BY <1>1
<1> QED
  BY <1>2, StoreInvariance, PTL DEF StoreSpec, SteeringStaysWithItsRequest

-----------------------------------------------------------------------------

(* The fields of a stored row.                                             *)
RowFields == {"exists", "revision", "active_job", "leaf", "entries",
              "continuation", "queue", "queue_revision", "began",
              "settings", "approved", "title_pending"}
IsRow(r) == DOMAIN r = RowFields /\ r.exists = TRUE

KindOf(op) == IF op \in {"command", "compaction"} THEN op ELSE "message"

(* A job that still owns its registration.                                 *)
Holding == {"begun", "starting", "running", "replied", "settled", "retained"}

SeenFields == {"pc", "op", "job", "revision", "leaf", "queue_revision",
               "item", "checkpoint"}

(* A handler that has read a record knows its operation.                   *)
HandlersAreTyped ==
    \A h \in Handler :
        \/ handler[h] = Free
        \/ /\ DOMAIN handler[h] = SeenFields
           /\ handler[h].pc \in {"read", "registered", "reserved"}
           /\ handler[h].op \in Operation
           /\ handler[h].revision \in Nat

(* One handler is between its registration and the durable start, and the  *)
(* job it registered is its own.                                           *)
OneRegisters ==
    \A h \in Handler :
        At(h, "registered") =>
            /\ handler[h].op \in Begins \union {"end"}
            /\ handler[h].job \in JobId
            /\ worker[handler[h].job].pc = "begun"
            /\ worker[handler[h].job].op = handler[h].op
            /\ \A g \in Handler : At(g, "registered") => g = h

(* A job holds its registration from the beginning to its release, and the *)
(* durable request while it works.                                         *)
WorkersHold ==
    \A j \in JobId :
        /\ worker[j].pc \in Holding => registered = j
        /\ Working(j) => /\ worker[j].op \in Begins
                         /\ record.exists
                         /\ record.active_job = j
                         /\ record.began = KindOf(worker[j].op)

(* What a handler read is never ahead of the row, and as long as it is the *)
(* current revision nothing runs and the leaf has not moved.               *)
HandlersLag ==
    \A h \in Handler :
        handler[h] # Free =>
            /\ record # Missing
            /\ record.exists =>
                  /\ handler[h].revision <= record.revision
                  /\ handler[h].revision = record.revision =>
                        /\ record.active_job = NoId
                        /\ handler[h].op \in Begins =>
                              handler[h].leaf = record.leaf

WorkerState ==
    [pc : {"unused", "begun", "starting", "running", "replied", "settled",
           "retained", "abandoned", "done"},
     op : Operation \union {"none"}]

WorkTyped ==
    /\ registered \in JobId \union {NoId}
    /\ worker \in [JobId -> WorkerState]
    /\ DOMAIN handler = Handler
    /\ HandlersAreTyped

WorkInv ==
    /\ StoreInv
    /\ WorkTyped
    /\ OneRegisters
    /\ WorkersHold
    /\ HandlersLag
    /\ ActiveJobIsAttended

-----------------------------------------------------------------------------
USE StoreAssumption

(* What the helpers of the store do to the fields that say who works.      *)
SameWork(r, n) ==
    /\ IsRow(n)
    /\ n.active_job = r.active_job /\ n.began = r.began
    /\ n.revision = r.revision

LEMMA RecordIsRow ==
    ASSUME NEW r \in Record
    PROVE  /\ IsRow(r) /\ r.revision \in Nat
           /\ r.active_job \in JobId \union {NoId}
BY DEF Record, IsRow, RowFields

LEMMA PushSame ==
    ASSUME NEW r, IsRow(r), NEW m
    PROVE  SameWork(r, PushMessage(r, m))
BY DEF IsRow, RowFields, SameWork, PushMessage

LEMMA PopSame ==
    ASSUME NEW r, IsRow(r)
    PROVE  SameWork(r, PopMessage(r))
BY DEF IsRow, RowFields, SameWork, PopMessage

LEMMA SettleSame ==
    ASSUME NEW r, IsRow(r), NEW j, NEW s, NEW f, NEW t
    PROVE  SameWork(r, SettleEntry(r, j, s, f, t))
BY DEF IsRow, RowFields, SameWork, SettleEntry

LEMMA SelectedSame ==
    ASSUME NEW r, IsRow(r), NEW s
    PROVE  SameWork(r, Selected(r, s)) /\ Selected(r, s).leaf = r.leaf
BY DEF IsRow, RowFields, SameWork, Selected

LEMMA DequeueSame ==
    ASSUME NEW r, IsRow(r), NEW item
    PROVE  SameWork(r, Dequeue(r, item)) /\ Dequeue(r, item).leaf = r.leaf
BY DEF IsRow, RowFields, SameWork, Dequeue

LEMMA WrittenSame ==
    ASSUME NEW previous, NEW n, IsRow(n)
    PROVE  /\ SameWork(n, Written(previous, n))
           /\ Written(previous, n).leaf = n.leaf
BY DEF IsRow, RowFields, SameWork, Written

LEMMA AdvanceHead ==
    ASSUME NEW r, IsRow(r)
    PROVE  LET n == Advance(r)
           IN /\ IsRow(n) /\ n.revision = r.revision + 1
              /\ n.active_job = r.active_job /\ n.began = r.began
              /\ n.leaf = r.leaf
BY DEF IsRow, RowFields, Advance

LEMMA BeginWorkHead ==
    ASSUME NEW r, IsRow(r), NEW m, NEW kind
    PROVE  LET n == BeginWork(r, m, kind)
           IN /\ IsRow(n) /\ n.revision = r.revision
              /\ n.active_job = m.request /\ n.began = kind
<1>1. SameWork(r, PushMessage(r, m))
  BY PushSame
<1> QED
  BY <1>1 DEF IsRow, RowFields, SameWork, BeginWork

LEMMA BeginRequestHead ==
    ASSUME NEW r, IsRow(r), NEW job, NEW item
    PROVE  LET n == BeginRequest(r, job, item)
           IN /\ IsRow(n) /\ n.revision = r.revision
              /\ n.active_job = job /\ n.began = "message"
<1> DEFINE p == PushMessage(r, UserMessage(item))
<1>1. SameWork(r, p)
  BY PushSame
<1>2. PendingPhase(job).request = job
  BY DEF PendingPhase, Message
<1> HIDE DEF p
<1>3. /\ IsRow(BeginWork(p, PendingPhase(job), "message"))
      /\ BeginWork(p, PendingPhase(job), "message").revision = r.revision
      /\ BeginWork(p, PendingPhase(job), "message").active_job = job
      /\ BeginWork(p, PendingPhase(job), "message").began = "message"
  BY <1>1, <1>2, BeginWorkHead DEF SameWork
<1> QED
  BY <1>3 DEF BeginRequest, p


-----------------------------------------------------------------------------
(* The operations by what they do to those fields: they start work of a    *)
(* job, stream for it, end it, or edit the row without touching it.        *)
Starts(j, kind, v, result) ==
    /\ Idle /\ ~uncertain /\ v = record.revision
    /\ \E n : /\ IsRow(n) /\ n.revision = record.revision + 1
              /\ n.active_job = j /\ n.began = kind
              /\ CommitResult(n, result)

Streams(j, result) ==
    /\ record.active_job = j /\ ~uncertain
    /\ \E n : SameWork(record, n) /\ CommitResult(n, result)

Ends(j, result) ==
    /\ record.active_job = j /\ ~uncertain
    /\ \E n : /\ IsRow(n)
              /\ n.revision \in {record.revision, record.revision + 1}
              /\ n.active_job = NoId
              /\ CommitResult(n, result)

Edits(result) ==
    /\ ~uncertain
    /\ \E n : /\ IsRow(n)
              /\ n.active_job = record.active_job /\ n.began = record.began
              /\ \/ n.revision = record.revision + 1
                 \/ n.revision = record.revision /\ n.leaf = record.leaf
              /\ CommitOnly(n, result)

LEMMA UpdateHead ==
    ASSUME NEW n, IsRow(n), NEW result, Update(n, result)
    PROVE  /\ ~uncertain
           /\ \E w : /\ SameWork(n, w) /\ w.leaf = n.leaf
                     /\ CommitResult(w, result)
<1> DEFINE w == Written(Path(record), n)
<1>1. SameWork(n, w) /\ w.leaf = n.leaf
  BY WrittenSame
<1>2. ~uncertain /\ CommitResult(w, result)
  BY DEF Update, RequireDurable, Persist
<1> QED
  BY <1>1, <1>2

LEMMA ReplaceHead ==
    ASSUME NEW n, IsRow(n), NEW v, NEW result, Replace(v, n, result)
    PROVE  /\ ~uncertain /\ v = record.revision
           /\ \E w : /\ IsRow(w) /\ w.revision = n.revision + 1
                     /\ w.active_job = n.active_job /\ w.began = n.began
                     /\ w.leaf = n.leaf
                     /\ CommitResult(w, result)
<1> DEFINE a == Advance(n)
<1>1. /\ IsRow(a) /\ a.revision = n.revision + 1
      /\ a.active_job = n.active_job /\ a.began = n.began /\ a.leaf = n.leaf
  BY AdvanceHead
<1>2. Update(a, result) /\ v = record.revision
  BY DEF Replace
<1> HIDE DEF a
<1>3. ~uncertain /\ \E w : SameWork(a, w) /\ w.leaf = a.leaf
                           /\ CommitResult(w, result)
  BY <1>1, <1>2, UpdateHead
<1> QED
  BY <1>1, <1>2, <1>3 DEF SameWork

LEMMA BeginMessageStarts ==
    ASSUME IsRow(record), NEW v, NEW j, NEW s, NEW result,
           BeginMessage(v, j, s, result)
    PROVE  Starts(j, "message", v, result)
<1> DEFINE a == Selected(record, s)
           n == BeginRequest(a, j, NoId)
<1>1. SameWork(record, a)
  BY SelectedSame
<1> HIDE DEF a
<1>2. /\ IsRow(n) /\ n.revision = record.revision
      /\ n.active_job = j /\ n.began = "message"
  BY <1>1, BeginRequestHead DEF SameWork
<1>3. Idle /\ Replace(v, n, result)
  BY DEF BeginMessage, a
<1> HIDE DEF n
<1> QED
  BY <1>2, <1>3, ReplaceHead DEF Starts

LEMMA ReviseStarts ==
    ASSUME IsRow(record), NEW v, NEW i, NEW j, NEW s, NEW result,
           Revise(v, i, j, s, result)
    PROVE  Starts(j, "message", v, result)
<1> DEFINE a == Selected(record, s)
           parents == Before(record.entries[i].path)
           parent == IF parents = <<>> THEN 0 ELSE Last(parents)
           b == [a EXCEPT !.leaf = parent]
           r == BeginRequest(b, j, NoId)
           n == Advance(r)
           w == Written(parents, n)
<1>1. SameWork(record, a)
  BY SelectedSame
<1>2. /\ Idle /\ ~uncertain /\ v = record.revision
      /\ CommitResult(w, result)
  BY DEF Revise, Quiet, RequireDurable
<1> HIDE DEF a, parents, parent
<1>3. IsRow(b) /\ b.revision = record.revision
  BY <1>1 DEF SameWork, IsRow, RowFields
<1> HIDE DEF b
<1>4. /\ IsRow(r) /\ r.revision = record.revision
      /\ r.active_job = j /\ r.began = "message"
  BY <1>3, BeginRequestHead
<1> HIDE DEF r
<1>5. /\ IsRow(n) /\ n.revision = record.revision + 1
      /\ n.active_job = j /\ n.began = "message"
  BY <1>4, AdvanceHead
<1> HIDE DEF n
<1>6. SameWork(n, w)
  BY <1>5, WrittenSame
<1> HIDE DEF w
<1> QED
  BY <1>2, <1>5, <1>6 DEF Starts, SameWork

LEMMA BeginFollowUpStarts ==
    ASSUME IsRow(record), NEW v, NEW w, NEW item, NEW j, NEW s, NEW result,
           BeginFollowUp(v, w, item, j, s, result)
    PROVE  Starts(j, "message", v, result)
<1> DEFINE a == Dequeue(record, item)
           n == BeginRequest(a, j, item)
<1>1. SameWork(record, a)
  BY DequeueSame
<1> HIDE DEF a
<1>2. /\ IsRow(n) /\ n.revision = record.revision
      /\ n.active_job = j /\ n.began = "message"
  BY <1>1, BeginRequestHead DEF SameWork
<1>3. Idle /\ Replace(v, n, result)
  BY DEF BeginFollowUp, a
<1> HIDE DEF n
<1> QED
  BY <1>2, <1>3, ReplaceHead DEF Starts

LEMMA BeginCommandStarts ==
    ASSUME IsRow(record), NEW v, NEW j, NEW s, NEW result,
           BeginCommand(v, j, s, result)
    PROVE  Starts(j, "command", v, result)
<1> DEFINE a == Selected(record, s)
           n == BeginWork(a, CommandMessage(j), "command")
<1>1. SameWork(record, a) /\ CommandMessage(j).request = j
  BY SelectedSame DEF CommandMessage, Message
<1> HIDE DEF a
<1>2. /\ IsRow(n) /\ n.revision = record.revision
      /\ n.active_job = j /\ n.began = "command"
  BY <1>1, BeginWorkHead DEF SameWork
<1>3. Idle /\ Replace(v, n, result)
  BY DEF BeginCommand, Quiet, a
<1> HIDE DEF n
<1> QED
  BY <1>2, <1>3, ReplaceHead DEF Starts

LEMMA BeginPhaseStarts ==
    ASSUME IsRow(record), NEW v, NEW j, NEW c, NEW result
    PROVE  /\ BeginCompaction(v, j, result) =>
                 Starts(j, "compaction", v, result)
           /\ ClaimContinuation(v, c, j, result) =>
                 Starts(j, "message", v, result)
<1>1. PendingPhase(j).request = j
  BY DEF PendingPhase, Message
<1>2. ASSUME NEW kind, Idle,
             Replace(v, BeginWork(record, PendingPhase(j), kind), result)
      PROVE  Starts(j, kind, v, result)
  <2> DEFINE n == BeginWork(record, PendingPhase(j), kind)
  <2>1. /\ IsRow(n) /\ n.revision = record.revision
        /\ n.active_job = j /\ n.began = kind
    BY <1>1, BeginWorkHead
  <2> HIDE DEF n
  <2> QED
    BY <1>2, <2>1, ReplaceHead DEF Starts, n
<1> QED
  BY <1>2 DEF BeginCompaction, ClaimContinuation

LEMMA OutputStreams ==
    ASSUME IsRow(record), record.began = "message", NEW j, NEW result,
           \/ UpdateOutput(j, result) \/ SettleToolBatch(j, result)
           \/ \E q \in QueueItem : DeliverSteering(j, q, result)
    PROVE  Streams(j, result)
<1> DEFINE s(final) == SettleEntry(record, j, "Complete", final, TRUE)
<1>1. CASE UpdateOutput(j, result)
  <2> DEFINE n == [record EXCEPT !.entries[record.leaf].text = TRUE]
  <2>1. SameWork(record, n)
    BY DEF SameWork, IsRow, RowFields
  <2>2. record.active_job = j /\ ~uncertain /\ CommitResult(n, result)
    BY <1>1 DEF UpdateOutput, RequireDurable
  <2> HIDE DEF n
  <2> QED
    BY <2>1, <2>2 DEF Streams
<1>2. CASE SettleToolBatch(j, result)
  <2> DEFINE a == s(FALSE)
             n == PushMessage(a, PendingPhase(j))
  <2>1. record.active_job = j /\ Update(n, result)
    BY <1>2 DEF SettleToolBatch, ActiveAssistant
  <2>2. SameWork(record, a)
    BY SettleSame
  <2> HIDE DEF a
  <2>3. SameWork(a, n)
    BY <2>2, PushSame DEF SameWork
  <2> HIDE DEF n
  <2> QED
    BY <2>1, <2>2, <2>3, UpdateHead DEF Streams, SameWork
<1>3. ASSUME NEW q \in QueueItem, DeliverSteering(j, q, result)
      PROVE  Streams(j, result)
  <2> DEFINE a == s(TRUE)
             d == Dequeue(a, q)
             n == BeginRequest(d, j, q)
  <2>1. record.active_job = j /\ Update(n, result)
    BY <1>3 DEF DeliverSteering, ActiveAssistant
  <2>2. SameWork(record, a)
    BY SettleSame
  <2> HIDE DEF a
  <2>3. SameWork(a, d)
    BY <2>2, DequeueSame DEF SameWork
  <2> HIDE DEF d
  <2>4. /\ IsRow(n) /\ n.revision = record.revision
        /\ n.active_job = j /\ n.began = "message"
    BY <2>2, <2>3, BeginRequestHead DEF SameWork
  <2> HIDE DEF n
  <2> QED
    BY <2>1, <2>4, UpdateHead DEF Streams, SameWork
<1> QED
  BY <1>1, <1>2, <1>3

(* Whatever ends a request writes a copy without its active job, with the  *)
(* next revision or the same.                                              *)
LEMMA EndedHead ==
    ASSUME IsRow(record), NEW r, SameWork(record, r), NEW j,
           record.active_job = j, NEW c, NEW result,
           LET n == [r EXCEPT !.active_job = NoId, !.continuation = c]
           IN Update(n, result) \/ Update(Advance(n), result)
    PROVE  Ends(j, result)
<1> DEFINE n == [r EXCEPT !.active_job = NoId, !.continuation = c]
<1>1. IsRow(n) /\ n.active_job = NoId /\ n.revision = record.revision
  BY DEF SameWork, IsRow, RowFields
<1>2. Update(n, result) \/ Update(Advance(n), result)
  OBVIOUS
<1> HIDE DEF n
<1>3. CASE Update(n, result)
  BY <1>1, <1>3, UpdateHead DEF Ends, SameWork
<1>4. CASE Update(Advance(n), result)
  <2> DEFINE a == Advance(n)
  <2>1. IsRow(a) /\ a.active_job = NoId /\ a.revision = record.revision + 1
    BY <1>1, AdvanceHead
  <2> HIDE DEF a
  <2> QED
    BY <1>4, <2>1, UpdateHead DEF Ends, SameWork, a
<1> QED
  BY <1>2, <1>3, <1>4

LEMMA ReplyEnds ==
    ASSUME IsRow(record), NEW j, NEW result,
           \/ \E status, reply : SettleMessage(j, status, reply, result)
           \/ \E status : SettleCommand(j, status, result)
           \/ \E reply : PauseForBudget(j, reply, result)
    PROVE  Ends(j, result)
<1>1. ASSUME NEW status, NEW reply, SettleMessage(j, status, reply, result)
      PROVE  Ends(j, result)
  <2> DEFINE s == SettleEntry(record, j, status, TRUE, reply)
  <2>1. SameWork(record, s)
    BY SettleSame
  <2>2. /\ record.active_job = j
        /\ Update(Advance([s EXCEPT !.active_job = NoId,
                                    !.continuation = NoId]), result)
    BY <1>1 DEF SettleMessage, ActiveAssistant
  <2> HIDE DEF s
  <2> QED
    BY <2>1, <2>2, EndedHead
<1>2. ASSUME NEW status, SettleCommand(j, status, result)
      PROVE  Ends(j, result)
  <2> DEFINE s == SettleEntry(record, j, status, FALSE, TRUE)
  <2>1. SameWork(record, s)
    BY SettleSame
  <2>2. /\ record.active_job = j
        /\ Update([s EXCEPT !.active_job = NoId,
                            !.continuation = NoId], result)
    BY <1>2 DEF SettleCommand
  <2> HIDE DEF s
  <2> QED
    BY <2>1, <2>2, EndedHead
<1>3. ASSUME NEW reply, PauseForBudget(j, reply, result)
      PROVE  Ends(j, result)
  <2> DEFINE s == Paused(j, reply)
  <2>1. SameWork(record, s)
    BY SettleSame, PopSame DEF Paused
  <2>2. PICK c : /\ record.active_job = j
                 /\ Update(Advance([s EXCEPT !.active_job = NoId,
                                             !.continuation = c]), result)
    BY <1>3 DEF PauseForBudget, ActiveAssistant
  <2> HIDE DEF s
  <2> QED
    BY <2>1, <2>2, EndedHead
<1> QED
  BY <1>1, <1>2, <1>3

LEMMA CompactionEnds ==
    ASSUME IsRow(record), NEW j, NEW failed, NEW result,
           FinishCompaction(j, failed, result)
    PROVE  Ends(j, result)
<1> DEFINE s == IF failed
                THEN [record EXCEPT !.entries[record.leaf].status = "Failed"]
                ELSE PopMessage(record)
           n == [s EXCEPT !.active_job = NoId]
<1>1. SameWork(record, s)
  <2>1. SameWork(record, PopMessage(record))
    BY PopSame
  <2>2. SameWork(record,
                 [record EXCEPT !.entries[record.leaf].status = "Failed"])
    BY DEF SameWork, IsRow, RowFields
  <2> QED
    BY <2>1, <2>2
<1>2. record.active_job = j /\ Update(n, result)
  BY DEF FinishCompaction
<1> HIDE DEF s
<1>3. IsRow(n) /\ n.active_job = NoId /\ n.revision = record.revision
  BY <1>1 DEF SameWork, IsRow, RowFields
<1> HIDE DEF n
<1> QED
  BY <1>2, <1>3, UpdateHead DEF Ends, SameWork

LEMMA RowEdits ==
    ASSUME IsRow(record), NEW v, NEW i, NEW s, NEW c, NEW q, NEW d, NEW j,
           NEW result,
           \/ ContinueFrom(v, i, result) \/ SelectSettings(v, s, result)
           \/ ClearContinuation(v, c, result) \/ ClaimTitle(result)
           \/ Enqueue(v, q, d, j, result) \/ RemoveQueueItem(v, q, result)
    PROVE  Edits(result)
<1>1. CASE ContinueFrom(v, i, result)
  <2> DEFINE a == [record EXCEPT !.leaf = i]
             n == Advance(a)
  <2>1. SameWork(record, a)
    BY DEF SameWork, IsRow, RowFields
  <2>2. ~uncertain /\ CommitResult(n, result)
    BY <1>1 DEF ContinueFrom, RequireDurable
  <2> HIDE DEF a
  <2>3. /\ IsRow(n) /\ n.active_job = record.active_job
        /\ n.began = record.began /\ n.revision = record.revision + 1
    BY <2>1, AdvanceHead DEF SameWork
  <2> HIDE DEF n
  <2> QED
    BY <2>2, <2>3 DEF Edits, CommitResult
<1>2. CASE SelectSettings(v, s, result)
  <2> DEFINE n == Selected(record, s)
  <2>1. SameWork(record, n) /\ Replace(v, n, result)
    BY <1>2, SelectedSame DEF SelectSettings
  <2> HIDE DEF n
  <2> QED
    BY <2>1, ReplaceHead DEF Edits, CommitResult, SameWork
<1>3. CASE ClearContinuation(v, c, result)
  <2> DEFINE n == [record EXCEPT !.continuation = NoId]
  <2>1. SameWork(record, n)
    BY DEF SameWork, IsRow, RowFields
  <2>2. Replace(v, n, result)
    BY <1>3 DEF ClearContinuation
  <2> HIDE DEF n
  <2> QED
    BY <2>1, <2>2, ReplaceHead DEF Edits, CommitResult, SameWork
<1>4. CASE ClaimTitle(result)
  <2> DEFINE a == [record EXCEPT !.title_pending = FALSE]
             n == Advance(a)
  <2>1. SameWork(record, a)
    BY DEF SameWork, IsRow, RowFields
  <2>2. Update(n, result)
    BY <1>4 DEF ClaimTitle
  <2> HIDE DEF a
  <2>3. /\ IsRow(n) /\ n.active_job = record.active_job
        /\ n.began = record.began /\ n.revision = record.revision + 1
    BY <2>1, AdvanceHead DEF SameWork
  <2> HIDE DEF n
  <2> QED
    BY <2>2, <2>3, UpdateHead DEF Edits, CommitResult, SameWork
<1>5. CASE Enqueue(v, q, d, j, result)
  <2>1. PICK queue :
           LET n == [record EXCEPT !.queue = queue, !.queue_revision = @ + 1]
           IN CommitOnly(n, result)
    BY <1>5 DEF Enqueue
  <2> DEFINE n == [record EXCEPT !.queue = queue, !.queue_revision = @ + 1]
  <2>2. SameWork(record, n) /\ n.leaf = record.leaf
    BY DEF SameWork, IsRow, RowFields
  <2>3. ~uncertain /\ CommitOnly(n, result)
    BY <1>5, <2>1 DEF Enqueue, RequireDurable
  <2> HIDE DEF n
  <2> QED
    BY <2>2, <2>3 DEF Edits, SameWork
<1>6. CASE RemoveQueueItem(v, q, result)
  <2> DEFINE n == Dequeue(record, q)
  <2>1. SameWork(record, n) /\ n.leaf = record.leaf /\ Update(n, result)
    BY <1>6, DequeueSame DEF RemoveQueueItem
  <2> HIDE DEF n
  <2> QED
    BY <2>1, UpdateHead DEF Edits, CommitResult, SameWork
<1> QED
  BY <1>1, <1>2, <1>3, <1>4, <1>5, <1>6

-----------------------------------------------------------------------------
(* What a handler read stays behind the row.                               *)
Later ==
    /\ record' = Missing => record = Missing
    /\ record'.exists =>
          \/ record = Missing
          \/ /\ record.exists
             /\ record'.revision \in Nat
             /\ record.revision <= record'.revision
             /\ record.revision = record'.revision /\ record.active_job = NoId =>
                   record'.active_job = NoId /\ record'.leaf = record.leaf

LEMMA RowHere ==
    ASSUME StoreInv, record.exists
    PROVE  /\ Here /\ record # Missing
           /\ IsRow(record) /\ record.revision \in Nat
           /\ record.active_job \in JobId \union {NoId}
<1>1. Here
  BY InvIsHere
<1> QED
  BY <1>1, RecordIsRow DEF Here, Missing

LEMMA AbsentHere ==
    ASSUME StoreInv, ~record.exists
    PROVE  record \in {Missing, Gone} /\ Gone # Missing
<1>1. DOMAIN Missing # DOMAIN Gone
  BY DEF Missing, Gone
<1> QED
  BY <1>1, InvIsHere

LEMMA GoneFacts == Gone # Missing /\ Gone.exists = FALSE /\ Missing.exists = FALSE
<1>1. DOMAIN Missing # DOMAIN Gone
  BY DEF Missing, Gone
<1> QED
  BY <1>1 DEF Missing, Gone

LEMMA SameIsLater ==
    ASSUME StoreInv, UNCHANGED record
    PROVE  Later
BY RowHere DEF Later

LEMMA WritesAreLater ==
    ASSUME StoreInv, record.exists, NEW result,
           \/ \E j \in JobId :
                 \/ \E kind, v : Starts(j, kind, v, result)
                 \/ Streams(j, result) \/ Ends(j, result)
           \/ Edits(result)
    PROVE  Later
<1>1. /\ IsRow(record) /\ record # Missing /\ record.revision \in Nat
      /\ NoId \notin JobId
  BY RowHere
<1>2. PICK n : /\ IsRow(n) /\ CommitOnly(n, result)
               /\ \/ n.revision = record.revision + 1
                  \/ /\ n.revision = record.revision
                     /\ \/ record.active_job \in JobId
                        \/ /\ n.leaf = record.leaf
                           /\ n.active_job = record.active_job
  <2>1. CASE \E j \in JobId : \E kind, v : Starts(j, kind, v, result)
    BY <2>1 DEF Starts, CommitResult
  <2>2. CASE \E j \in JobId : Streams(j, result)
    BY <2>2 DEF Streams, CommitResult, SameWork
  <2>3. CASE \E j \in JobId : Ends(j, result)
    BY <2>3 DEF Ends, CommitResult
  <2>4. CASE Edits(result)
    BY <2>4 DEF Edits
  <2> QED
    BY <2>1, <2>2, <2>3, <2>4
<1>3. record' = record \/ record' = n
  BY <1>2 DEF CommitOnly
<1>4. n # Missing
  BY <1>2, GoneFacts DEF IsRow
<1> QED
  BY <1>1, <1>2, <1>3, <1>4 DEF Later, IsRow

LEMMA LagKept ==
    ASSUME StoreInv, HandlersLag, HandlersAreTyped, Later,
           \A h \in Handler :
              \/ handler'[h] = Free
              \/ /\ handler[h] # Free
                 /\ handler'[h].revision = handler[h].revision
                 /\ handler'[h].op = handler[h].op
                 /\ handler'[h].leaf = handler[h].leaf
    PROVE  HandlersLag'
<1> SUFFICES ASSUME NEW h \in Handler, handler'[h] # Free
             PROVE  /\ record' # Missing
                    /\ record'.exists =>
                          /\ handler'[h].revision <= record'.revision
                          /\ handler'[h].revision = record'.revision =>
                                /\ record'.active_job = NoId
                                /\ handler'[h].op \in Begins =>
                                      handler'[h].leaf = record'.leaf
  BY DEF HandlersLag
<1>1. /\ handler[h] # Free /\ record # Missing
      /\ handler'[h].revision = handler[h].revision
      /\ handler'[h].op = handler[h].op
      /\ handler'[h].leaf = handler[h].leaf
      /\ handler[h].revision \in Nat
  BY DEF HandlersLag, HandlersAreTyped
<1>2. record' # Missing
  BY <1>1 DEF Later
<1>3. ASSUME record'.exists
      PROVE  /\ handler[h].revision <= record'.revision
             /\ handler[h].revision = record'.revision =>
                   /\ record'.active_job = NoId
                   /\ handler[h].op \in Begins => handler[h].leaf = record'.leaf
  <2>1. /\ record.exists /\ record'.revision \in Nat
        /\ record.revision <= record'.revision
        /\ record.revision = record'.revision /\ record.active_job = NoId =>
              record'.active_job = NoId /\ record'.leaf = record.leaf
    BY <1>1, <1>3 DEF Later
  <2>2. record.revision \in Nat
    BY <2>1, RowHere
  <2>3. /\ handler[h].revision <= record.revision
        /\ handler[h].revision = record.revision =>
              /\ record.active_job = NoId
              /\ handler[h].op \in Begins => handler[h].leaf = record.leaf
    BY <1>1, <2>1 DEF HandlersLag
  <2> QED
    BY <1>1, <2>1, <2>2, <2>3
<1> QED
  BY <1>1, <1>2, <1>3

(* The work of a task in the middle of its request.                        *)
LEMMA OnlyHolder ==
    ASSUME WorkInv, NEW j \in JobId, worker[j].pc \in Holding
    PROVE  /\ registered = j
           /\ \A k \in JobId : worker[k].pc \in Holding => k = j
           /\ worker[j].pc # "begun" =>
                 \A h \in Handler : ~At(h, "registered")
           /\ \A h \in Handler : At(h, "registered") => handler[h].job = j
<1>1. \A k \in JobId : worker[k].pc \in Holding => registered = k
  BY DEF WorkInv, WorkersHold
<1>2. \A h \in Handler :
         At(h, "registered") => /\ handler[h].job \in JobId
                                /\ worker[handler[h].job].pc = "begun"
  BY DEF WorkInv, OneRegisters
<1>3. "begun" \in Holding
  BY DEF Holding
<1> QED
  BY <1>1, <1>2, <1>3

(* The store's invariant, for each operation that the handlers call.       *)
LEMMA StartKeepsStore ==
    ASSUME Here, NEW h \in Handler, NEW j \in JobId, NEW result,
           StartRequest(h, j, result)
    PROVE  Moved
<1>1. ASSUME NEW v, NEW w, NEW item, NEW s \in Settings,
             BeginFollowUp(v, w, item, j, s, result)
      PROVE  Moved
  <2>1. \A k \in DOMAIN record.queue : record.queue[k].id \in QueueItem
    BY RecordFacts DEF Here, Item
  <2>2. item \in QueueItem
    BY <1>1, <2>1 DEF BeginFollowUp, Queued
  <2> QED
    BY <1>1, <2>2, BeginFollowUpMoves DEF Moved
<1>2. ASSUME NEW v, NEW s \in Settings, BeginMessage(v, j, s, result)
      PROVE  Moved
  BY <1>2, BeginMessageMoves DEF Moved
<1>3. ASSUME NEW v, NEW i \in DOMAIN record.entries, NEW s \in Settings,
             Revise(v, i, j, s, result)
      PROVE  Moved
  BY <1>3, ReviseMoves DEF Moved
<1>4. ASSUME NEW v, NEW s \in Settings, BeginCommand(v, j, s, result)
      PROVE  Moved
  BY <1>4, BeginCommandMoves DEF Moved
<1>5. ASSUME NEW v, BeginCompaction(v, j, result)
      PROVE  Moved
  BY <1>5, BeginCompactionMoves DEF Moved
<1>6. ASSUME NEW v, NEW c, ClaimContinuation(v, c, j, result)
      PROVE  Moved
  BY <1>6, ClaimContinuationMoves DEF Moved
<1> QED
  BY <1>1, <1>2, <1>3, <1>4, <1>5, <1>6 DEF StartRequest

-----------------------------------------------------------------------------
(* Handlers, before they touch the store.                                  *)
LEMMA ReadKeeps ==
    ASSUME WorkInv, NEW h \in Handler, NEW op \in Operation, Read(h, op)
    PROVE  WorkInv'
<1>1. /\ UNCHANGED <<storedVars, registered, worker>>
      /\ handler' = [handler EXCEPT ![h] = Seen(op)]
      /\ record.exists /\ record.active_job = NoId
  BY DEF Read, Idle
<1>2. record # Missing /\ record.revision \in Nat
  BY <1>1, RowHere DEF WorkInv
<1>3. /\ Seen(op).pc = "read" /\ Seen(op).op = op
      /\ DOMAIN Seen(op) = SeenFields
      /\ Seen(op).revision = record.revision
      /\ op \in Begins => Seen(op).leaf = record.leaf
  BY DEF Seen, SeenFields
<1>4. /\ DOMAIN handler' = Handler
      /\ handler'[h] = Seen(op)
      /\ \A g \in Handler \ {h} : handler'[g] = handler[g]
  BY <1>1 DEF WorkInv, WorkTyped
<1>5. StoreInv' /\ WorkersHold' /\ ActiveJobIsAttended'
  BY <1>1 DEF WorkInv, storedVars, StoreInv, AllDrawn, WorkersHold, Working,
     ActiveJobIsAttended
<1>6. WorkTyped'
  BY <1>1, <1>2, <1>3, <1>4 DEF WorkInv, WorkTyped, HandlersAreTyped
<1>7. OneRegisters'
  BY <1>1, <1>3, <1>4 DEF WorkInv, OneRegisters, At
<1>8. HandlersLag'
  <2> SUFFICES ASSUME NEW g \in Handler, handler'[g] # Free
               PROVE  /\ record # Missing
                      /\ handler'[g].revision <= record.revision
                      /\ handler'[g].revision = record.revision =>
                            /\ record.active_job = NoId
                            /\ handler'[g].op \in Begins =>
                                  handler'[g].leaf = record.leaf
    BY <1>1 DEF HandlersLag, storedVars
  <2>1. CASE g = h
    BY <1>1, <1>2, <1>3, <1>4, <2>1
  <2>2. CASE g # h
    BY <1>1, <1>4, <2>2 DEF WorkInv, HandlersLag
  <2> QED
    BY <2>1, <2>2
<1> QED
  BY <1>5, <1>6, <1>7, <1>8 DEF WorkInv

LEMMA RegisterKeeps ==
    ASSUME WorkInv, NEW h \in Handler, NEW j \in JobId, RegisterJob(h, j)
    PROVE  WorkInv'
<1>1. /\ UNCHANGED storedVars /\ registered = NoId /\ registered' = j
      /\ At(h, "read") /\ handler[h].op \in Begins \union {"end"}
      /\ worker[j] = NoWork
      /\ worker' = [worker EXCEPT
                      ![j] = [pc |-> "begun", op |-> handler[h].op]]
      /\ handler' = [handler EXCEPT ![h].pc = "registered", ![h].job = j]
  BY DEF RegisterJob
<1>2. /\ worker[j].pc = "unused" /\ worker \in [JobId -> WorkerState]
      /\ DOMAIN handler = Handler
  BY <1>1 DEF NoWork, WorkInv, WorkTyped
<1>3. /\ DOMAIN handler[h] = SeenFields /\ handler[h] # Free
      /\ handler[h].op \in Operation /\ handler[h].revision \in Nat
  BY <1>1 DEF WorkInv, WorkTyped, HandlersAreTyped, At, Free
<1>4. /\ DOMAIN handler' = Handler
      /\ \A g \in Handler \ {h} : handler'[g] = handler[g]
      /\ DOMAIN handler'[h] = SeenFields
      /\ handler'[h].pc = "registered" /\ handler'[h].job = j
      /\ handler'[h].op = handler[h].op
      /\ handler'[h].revision = handler[h].revision
      /\ handler'[h].leaf = handler[h].leaf
  BY <1>1, <1>2, <1>3 DEF SeenFields
<1>5. /\ worker' \in [JobId -> WorkerState]
      /\ worker'[j].pc = "begun" /\ worker'[j].op = handler[h].op
      /\ \A k \in JobId \ {j} : worker'[k] = worker[k]
  BY <1>1, <1>2, <1>3 DEF WorkerState
<1>6. \A k \in JobId : worker[k].pc \notin Holding
  BY <1>1 DEF WorkInv, WorkersHold
<1>7. StoreInv'
  BY <1>1 DEF WorkInv, storedVars, StoreInv, AllDrawn
<1>8. WorkTyped'
  BY <1>1, <1>3, <1>4, <1>5 DEF WorkInv, WorkTyped, HandlersAreTyped
<1>9. OneRegisters'
  <2>1. \A g \in Handler : ~At(g, "registered")
    BY <1>6 DEF WorkInv, OneRegisters, Holding
  <2> QED
    BY <1>1, <1>4, <1>5, <2>1 DEF OneRegisters, At
<1>10. WorkersHold'
  BY <1>1, <1>5, <1>6 DEF WorkersHold, Working, Holding
<1>11. HandlersLag'
  <2>1. handler'[h] # Free
    BY <1>4 DEF Free
  <2>2. \A g \in Handler :
           \/ handler'[g] = Free
           \/ /\ handler[g] # Free
              /\ handler'[g].revision = handler[g].revision
              /\ handler'[g].op = handler[g].op
              /\ handler'[g].leaf = handler[g].leaf
    BY <1>3, <1>4
  <2>3. Later
    BY <1>1, SameIsLater DEF WorkInv, storedVars
  <2> QED
    BY <2>2, <2>3, LagKept DEF WorkInv, WorkTyped
<1>12. ActiveJobIsAttended'
  <2> SUFFICES ASSUME record.exists, record.active_job # NoId, ~uncertain
               PROVE  worker'[record.active_job].pc = "abandoned"
    BY <1>1 DEF ActiveJobIsAttended, storedVars
  <2>1. record.active_job \in JobId
    BY RowHere DEF WorkInv
  <2>2. worker[record.active_job].pc = "abandoned"
    BY <1>6, <2>1 DEF WorkInv, ActiveJobIsAttended, Holding
  <2> QED
    BY <1>2, <1>5, <2>1, <2>2
<1> QED
  BY <1>7, <1>8, <1>9, <1>10, <1>11, <1>12 DEF WorkInv

(* A handler that leaves without a registration, or moves on with what it  *)
(* has, after a step of the store that touches no active request.          *)
LEMMA HandlerKeeps ==
    ASSUME WorkInv, NEW h \in Handler,
           handler[h].pc \in {"read", "reserved"},
           \/ handler' = [handler EXCEPT ![h] = Free]
           \/ handler' = [handler EXCEPT ![h].pc = "reserved"],
           UNCHANGED <<registered, worker>>, StoreInv', Later,
           \/ UNCHANGED <<record, uncertain>>
           \/ /\ record.active_job = NoId
              /\ record'.exists => record'.active_job = NoId
    PROVE  WorkInv'
<1>1. /\ DOMAIN handler[h] = SeenFields /\ handler[h] # Free
      /\ handler[h].op \in Operation /\ handler[h].revision \in Nat
      /\ DOMAIN handler = Handler
  BY DEF WorkInv, WorkTyped, HandlersAreTyped, Free
<1>2. /\ DOMAIN handler' = Handler
      /\ \A g \in Handler \ {h} : handler'[g] = handler[g]
      /\ \/ handler'[h] = Free
         \/ /\ DOMAIN handler'[h] = SeenFields
            /\ handler'[h].pc = "reserved"
            /\ handler'[h].op = handler[h].op
            /\ handler'[h].revision = handler[h].revision
            /\ handler'[h].leaf = handler[h].leaf
  BY <1>1 DEF SeenFields
<1>3. WorkTyped'
  BY <1>1, <1>2 DEF WorkInv, WorkTyped, HandlersAreTyped
<1>4. OneRegisters'
  BY <1>2 DEF WorkInv, OneRegisters, At, Free
<1>5. WorkersHold'
  <2>1. CASE UNCHANGED <<record, uncertain>>
    BY <2>1 DEF WorkInv, WorkersHold, Working
  <2>2. CASE record.active_job = NoId
    BY <2>2 DEF WorkInv, WorkersHold, Working
  <2> QED
    BY <2>1, <2>2
<1>6. HandlersLag'
  <2>1. \A g \in Handler :
           \/ handler'[g] = Free
           \/ /\ handler[g] # Free
              /\ handler'[g].revision = handler[g].revision
              /\ handler'[g].op = handler[g].op
              /\ handler'[g].leaf = handler[g].leaf
    BY <1>1, <1>2
  <2> QED
    BY <2>1, LagKept DEF WorkInv, WorkTyped
<1>7. ActiveJobIsAttended'
  BY DEF WorkInv, ActiveJobIsAttended
<1> QED
  BY <1>3, <1>4, <1>5, <1>6, <1>7 DEF WorkInv

LEMMA QuietHandlerKeeps ==
    ASSUME WorkInv, NEW h \in Handler,
           ReserveCommand(h) \/ GiveUp(h) \/ FailDelete(h)
    PROVE  WorkInv'
<1>1. /\ handler[h].pc \in {"read", "reserved"}
      /\ \/ handler' = [handler EXCEPT ![h] = Free]
         \/ handler' = [handler EXCEPT ![h].pc = "reserved"]
      /\ UNCHANGED <<storedVars, registered, worker>>
  BY DEF ReserveCommand, GiveUp, FailDelete, At, Leaves, Goes
<1>2. StoreInv'
  BY <1>1 DEF WorkInv, storedVars, StoreInv, AllDrawn
<1>3. Later
  BY <1>1, SameIsLater DEF WorkInv, storedVars
<1> QED
  BY <1>1, <1>2, <1>3, HandlerKeeps DEF storedVars

(* A deletion or an edit finds nothing at work.                            *)
LEMMA EditorKeeps ==
    ASSUME WorkInv, NEW h \in Handler, NEW result,
           DeleteReserved(h, result) \/ EditRecord(h, result)
    PROVE  WorkInv'
<1>1. /\ handler[h].pc \in {"read", "reserved"}
      /\ handler' = [handler EXCEPT ![h] = Free]
      /\ UNCHANGED <<registered, worker>>
  BY DEF DeleteReserved, EditRecord, At, Leaves
<1>2. record.exists /\ record.active_job = NoId
  BY DEF DeleteReserved, EditRecord, Delete, ContinueFrom, SelectSettings,
     Quiet, Idle
<1>3. Here /\ IsRow(record) /\ record # Missing
  BY <1>2, RowHere DEF WorkInv
<1>4. CASE DeleteReserved(h, result)
  <2>1. Deletes
    BY <1>3, <1>4 DEF DeleteReserved, Delete, CommitResult, CommitOnly,
       Deletes, Here
  <2>2. StoreInv'
    BY <2>1, DeletesKeeps DEF WorkInv
  <2>3. Later
    <3>1. CASE record' = record
      BY <3>1, SameIsLater DEF WorkInv
    <3>2. CASE record' = Gone
      BY <3>2, GoneFacts DEF Later
    <3> QED
      BY <2>1, <3>1, <3>2 DEF Deletes
  <2>4. record'.exists => record'.active_job = NoId
    BY <1>2, <2>1, GoneFacts DEF Deletes
  <2> QED
    BY <1>1, <1>2, <2>2, <2>3, <2>4, HandlerKeeps
<1>5. CASE EditRecord(h, result)
  <2>1. PICK v, i, s : \/ /\ i \in DOMAIN record.entries
                          /\ ContinueFrom(v, i, result)
                       \/ s \in Settings /\ SelectSettings(v, s, result)
    BY <1>5 DEF EditRecord
  <2>2. StoreInv'
    <3>1. Moves(NoId)
      BY <1>3, <2>1, ContinueFromMoves, EditStepMoves DEF EditStep
    <3> QED
      BY <1>3, <3>1, MovedKeeps DEF Moved
  <2>3. Edits(result)
    BY <1>3, <2>1, RowEdits
  <2>4. Later
    BY <1>2, <2>3, WritesAreLater DEF WorkInv
  <2>5. record'.exists => record'.active_job = NoId
    BY <1>2, <2>3 DEF Edits, CommitOnly
  <2> QED
    BY <1>1, <1>2, <2>2, <2>4, <2>5, HandlerKeeps
<1> QED
  BY <1>4, <1>5

-----------------------------------------------------------------------------
(* The durable start, and what a handler does instead.                     *)
LEMMA RegisteredLeaves ==
    ASSUME WorkInv, NEW h \in Handler, At(h, "registered"), Leaves(h),
           NEW pc \in {"starting", "running", "retained", "done"},
           Works(handler[h].job, pc)
    PROVE  LET j == handler[h].job
           IN /\ j \in JobId /\ registered = j
              /\ handler[h].op \in Begins \union {"end"}
              /\ DOMAIN handler' = Handler /\ handler'[h] = Free
              /\ HandlersAreTyped' /\ OneRegisters'
              /\ worker' \in [JobId -> WorkerState]
              /\ worker'[j].pc = pc /\ worker'[j].op = handler[h].op
              /\ \A k \in JobId \ {j} : /\ worker'[k] = worker[k]
                                        /\ worker[k].pc \notin Holding
              /\ worker[j].pc = "begun"
              /\ Later => HandlersLag'
<1> DEFINE j == handler[h].job
<1>1. /\ j \in JobId /\ handler[h].op \in Begins \union {"end"}
      /\ worker[j].pc = "begun" /\ worker[j].op = handler[h].op
      /\ \A g \in Handler : At(g, "registered") => g = h
  BY DEF WorkInv, OneRegisters
<1>2. /\ registered = j
      /\ \A k \in JobId \ {j} : worker[k].pc \notin Holding
  BY <1>1, OnlyHolder DEF Holding
<1>3. /\ worker \in [JobId -> WorkerState] /\ DOMAIN handler = Handler
      /\ HandlersAreTyped
  BY DEF WorkInv, WorkTyped
<1>4. /\ DOMAIN handler' = Handler /\ handler'[h] = Free
      /\ \A g \in Handler \ {h} : handler'[g] = handler[g]
  BY <1>3 DEF Leaves
<1>5. /\ worker' \in [JobId -> WorkerState]
      /\ worker'[j].pc = pc /\ worker'[j].op = handler[h].op
      /\ \A k \in JobId \ {j} : worker'[k] = worker[k]
  BY <1>1, <1>3 DEF Works, WorkerState
<1>6. HandlersAreTyped'
  BY <1>3, <1>4 DEF HandlersAreTyped
<1>7. OneRegisters'
  BY <1>1, <1>4 DEF OneRegisters, At, Free
<1>8. \A g \in Handler :
         \/ handler'[g] = Free
         \/ /\ handler[g] # Free
            /\ handler'[g].revision = handler[g].revision
            /\ handler'[g].op = handler[g].op
            /\ handler'[g].leaf = handler[g].leaf
  BY <1>4
<1>9. Later => HandlersLag'
  BY <1>8, LagKept DEF WorkInv, WorkTyped
<1> QED
  BY <1>1, <1>2, <1>4, <1>5, <1>6, <1>7, <1>9

LEMMA FailStartKeeps ==
    ASSUME WorkInv, NEW h \in Handler, FailStart(h)
    PROVE  WorkInv'
<1> DEFINE j == handler[h].job
<1>1. /\ At(h, "registered") /\ Leaves(h) /\ Works(j, "done")
      /\ registered' = NoId /\ UNCHANGED storedVars
  BY DEF FailStart
<1>2. /\ j \in JobId /\ registered = j
      /\ DOMAIN handler' = Handler
      /\ HandlersAreTyped' /\ OneRegisters'
      /\ worker' \in [JobId -> WorkerState]
      /\ worker'[j].pc = "done"
      /\ \A k \in JobId \ {j} : /\ worker'[k] = worker[k]
                                /\ worker[k].pc \notin Holding
      /\ worker[j].pc = "begun"
      /\ Later => HandlersLag'
  BY <1>1, RegisteredLeaves
<1> HIDE DEF j
<1>3. StoreInv' /\ Later
  BY <1>1, SameIsLater DEF WorkInv, storedVars, StoreInv, AllDrawn
<1>4. WorkersHold'
  BY <1>2 DEF WorkersHold, Working, Holding
<1>5. ActiveJobIsAttended'
  <2> SUFFICES ASSUME record.exists, record.active_job # NoId, ~uncertain
               PROVE  worker'[record.active_job].pc = "abandoned"
    BY <1>1 DEF ActiveJobIsAttended, storedVars
  <2>1. record.active_job \in JobId
    BY RowHere DEF WorkInv
  <2>2. worker[record.active_job].pc = "abandoned"
    BY <1>2, <2>1 DEF WorkInv, ActiveJobIsAttended, Holding
  <2> QED
    BY <1>2, <2>1, <2>2
<1> QED
  BY <1>1, <1>2, <1>3, <1>4, <1>5 DEF WorkInv, WorkTyped

LEMMA EndPauseKeeps ==
    ASSUME WorkInv, NEW h \in Handler, NEW result, EndPause(h, result)
    PROVE  WorkInv'
<1> DEFINE j == handler[h].job
<1>1. /\ At(h, "registered") /\ Leaves(h) /\ Works(j, "done")
      /\ registered' = NoId
      /\ ClearContinuation(handler[h].revision, handler[h].checkpoint,
                           result)
  BY DEF EndPause
<1>2. /\ DOMAIN handler' = Handler
      /\ HandlersAreTyped' /\ OneRegisters'
      /\ worker' \in [JobId -> WorkerState]
      /\ worker'[j].pc = "done"
      /\ \A k \in JobId \ {j} : /\ worker'[k] = worker[k]
                                /\ worker[k].pc \notin Holding
      /\ Later => HandlersLag'
  BY <1>1, RegisteredLeaves
<1> HIDE DEF j
<1>3. /\ record.exists /\ record.active_job = NoId
  BY <1>1 DEF ClearContinuation, Idle
<1>4. Here /\ IsRow(record)
  BY <1>3, RowHere DEF WorkInv
<1>5. Edits(result)
  BY <1>1, <1>4, RowEdits
<1>6. Later /\ record'.exists /\ record'.active_job = NoId
  BY <1>3, <1>5, WritesAreLater DEF WorkInv, Edits, CommitOnly, IsRow
<1>7. StoreInv'
  <2>1. Moves(NoId)
    <3> DEFINE n == [record EXCEPT !.continuation = NoId]
    <3>1. Replace(handler[h].revision, n, result)
      BY <1>1 DEF ClearContinuation
    <3>2. /\ n \in Record
          /\ n.entries = record.entries /\ n.leaf = record.leaf
          /\ n.queue = record.queue /\ n.active_job = record.active_job
          /\ n.began = record.began /\ n.continuation = NoId
          /\ n.approved = record.approved /\ n.settings = record.settings
      BY <1>4 DEF Here, Record
    <3>3. n.approved \in {NoId, n.settings}
      BY <1>4, <3>2 DEF Here, Sound
    <3> HIDE DEF n
    <3> QED
      BY <1>4, <3>1, <3>2, <3>3, EditMoves
  <2> QED
    BY <1>4, <2>1, MovedKeeps DEF Moved
<1>8. WorkersHold'
  BY <1>2 DEF WorkersHold, Working, Holding
<1>9. ActiveJobIsAttended'
  BY <1>6 DEF ActiveJobIsAttended
<1> QED
  BY <1>1, <1>2, <1>6, <1>7, <1>8, <1>9 DEF WorkInv, WorkTyped

LEMMA StartIsOfKind ==
    ASSUME StoreInv, NEW h \in Handler, NEW j \in JobId,
           handler[h].op \in Begins, NEW result, StartRequest(h, j, result)
    PROVE  /\ record.exists /\ Here
           /\ Starts(j, KindOf(handler[h].op), handler[h].revision, result)
<1> DEFINE op == handler[h].op
           v == handler[h].revision
<1>1. \/ /\ op = "message"
         /\ \E s \in Settings : BeginMessage(v, j, s, result)
      \/ /\ op = "revise"
         /\ \E i \in DOMAIN record.entries, s \in Settings :
               Revise(v, i, j, s, result)
      \/ /\ op = "followUp"
         /\ \E s \in Settings :
               BeginFollowUp(v, handler[h].queue_revision, handler[h].item, j,
                             s, result)
      \/ /\ op = "command"
         /\ \E s \in Settings : BeginCommand(v, j, s, result)
      \/ op = "compaction" /\ BeginCompaction(v, j, result)
      \/ /\ op = "continue"
         /\ ClaimContinuation(v, handler[h].checkpoint, j, result)
  BY DEF StartRequest, Begins
<1> HIDE DEF op, v
<1>2. record.exists
  BY <1>1 DEF BeginMessage, Revise, BeginFollowUp, BeginCommand,
     BeginCompaction, ClaimContinuation, Quiet, Idle
<1>3. Here /\ IsRow(record)
  BY <1>2, RowHere
<1>4. Starts(j, KindOf(op), v, result)
  BY <1>1, <1>3, BeginMessageStarts, ReviseStarts, BeginFollowUpStarts,
     BeginCommandStarts, BeginPhaseStarts DEF KindOf
<1> QED
  BY <1>2, <1>3, <1>4 DEF op, v

LEMMA StartKeeps ==
    ASSUME WorkInv, NEW h \in Handler, NEW result \in {"ok", "unsettled"},
           StartDurably(h, result)
    PROVE  WorkInv'
<1> DEFINE j == handler[h].job
           kind == KindOf(handler[h].op)
<1>1. /\ At(h, "registered") /\ Leaves(h) /\ handler[h].op \in Begins
      /\ StartRequest(h, j, result)
  BY DEF StartDurably
<1>2. PICK pc \in {"starting", "running", "retained", "done"} :
         /\ Works(j, pc)
         /\ registered' = IF pc = "done" THEN NoId ELSE registered
         /\ pc \in {"starting", "running"} => result = "ok"
         /\ pc \in {"retained", "done"} => result = "unsettled"
  BY DEF StartDurably
<1>3. /\ j \in JobId /\ registered = j
      /\ DOMAIN handler' = Handler
      /\ HandlersAreTyped' /\ OneRegisters'
      /\ worker' \in [JobId -> WorkerState]
      /\ worker'[j].pc = pc /\ worker'[j].op = handler[h].op
      /\ \A k \in JobId \ {j} : /\ worker'[k] = worker[k]
                                /\ worker[k].pc \notin Holding
      /\ Later => HandlersLag'
  BY <1>1, <1>2, RegisteredLeaves
<1>4. record.exists /\ Here /\ Starts(j, kind, handler[h].revision, result)
  BY <1>1, <1>3, StartIsOfKind DEF WorkInv
<1>5. StoreInv'
  BY <1>1, <1>3, <1>4, StartKeepsStore, MovedKeeps
<1>6. Later
  BY <1>3, <1>4, WritesAreLater DEF WorkInv
<1>7. /\ result = "ok" => /\ record'.exists /\ record'.active_job = j
                          /\ record'.began = kind
      /\ result = "unsettled" => uncertain'
  BY <1>4 DEF Starts, CommitResult, CommitOnly, IsRow
<1>8. WorkersHold'
  <2> SUFFICES ASSUME NEW k \in JobId
               PROVE  /\ worker'[k].pc \in Holding => registered' = k
                      /\ Working(k)' => /\ worker'[k].op \in Begins
                                        /\ record'.exists
                                        /\ record'.active_job = k
                                        /\ record'.began
                                              = KindOf(worker'[k].op)
    BY DEF WorkersHold
  <2>1. CASE k = j
    BY <1>1, <1>2, <1>3, <1>7, <2>1 DEF Working, Holding
  <2>2. CASE k # j
    BY <1>3, <2>2 DEF Working, Holding
  <2> QED
    BY <2>1, <2>2
<1>9. ActiveJobIsAttended'
  BY <1>2, <1>3, <1>7 DEF ActiveJobIsAttended
<1>10. WorkTyped'
  BY <1>2, <1>3 DEF WorkTyped
<1> QED
  BY <1>3, <1>5, <1>6, <1>8, <1>9, <1>10 DEF WorkInv

-----------------------------------------------------------------------------
(* Tasks.                                                                  *)
LEMMA WorkerMoves ==
    ASSUME WorkInv, NEW j \in JobId,
           worker[j].pc \in Holding, worker[j].pc # "begun",
           UNCHANGED handler, NEW pc,
           pc \in {"running", "replied", "settled", "retained", "abandoned",
                   "done"},
           Works(j, pc)
    PROVE  /\ registered = j
           /\ DOMAIN handler' = Handler
           /\ HandlersAreTyped' /\ OneRegisters'
           /\ worker' \in [JobId -> WorkerState]
           /\ worker'[j].pc = pc /\ worker'[j].op = worker[j].op
           /\ \A k \in JobId \ {j} : /\ worker'[k] = worker[k]
                                     /\ worker[k].pc \notin Holding
           /\ Later => HandlersLag'
<1>1. /\ registered = j
      /\ \A k \in JobId \ {j} : worker[k].pc \notin Holding
      /\ \A h \in Handler : ~At(h, "registered")
  BY OnlyHolder
<1>2. /\ worker \in [JobId -> WorkerState] /\ DOMAIN handler = Handler
      /\ HandlersAreTyped
  BY DEF WorkInv, WorkTyped
<1>3. /\ worker' \in [JobId -> WorkerState]
      /\ worker'[j].pc = pc /\ worker'[j].op = worker[j].op
      /\ \A k \in JobId \ {j} : worker'[k] = worker[k]
  BY <1>2 DEF Works, WorkerState
<1>4. HandlersAreTyped' /\ OneRegisters'
  BY <1>1, <1>2 DEF HandlersAreTyped, OneRegisters, At
<1>5. \A g \in Handler :
         \/ handler'[g] = Free
         \/ /\ handler[g] # Free
            /\ handler'[g].revision = handler[g].revision
            /\ handler'[g].op = handler[g].op
            /\ handler'[g].leaf = handler[g].leaf
  OBVIOUS
<1>6. Later => HandlersLag'
  BY <1>5, LagKept DEF WorkInv, WorkTyped
<1> QED
  BY <1>1, <1>2, <1>3, <1>4, <1>6

LEMMA SpawnKeeps ==
    ASSUME WorkInv, NEW j \in JobId, Spawn(j)
    PROVE  WorkInv'
<1>1. /\ worker[j].pc = "starting" /\ Works(j, "running")
      /\ UNCHANGED <<storedVars, registered, handler>>
  BY DEF Spawn
<1>2. /\ registered = j
      /\ DOMAIN handler' = Handler
      /\ HandlersAreTyped' /\ OneRegisters'
      /\ worker' \in [JobId -> WorkerState]
      /\ worker'[j].pc = "running" /\ worker'[j].op = worker[j].op
      /\ \A k \in JobId \ {j} : /\ worker'[k] = worker[k]
                                /\ worker[k].pc \notin Holding
      /\ Later => HandlersLag'
  BY <1>1, WorkerMoves DEF Holding
<1>3. StoreInv' /\ Later
  BY <1>1, SameIsLater DEF WorkInv, storedVars, StoreInv, AllDrawn
<1>4. WorkersHold'
  BY <1>1, <1>2 DEF WorkInv, WorkersHold, Working, Holding, storedVars
<1>5. ActiveJobIsAttended'
  <2> SUFFICES ASSUME record.exists, record.active_job # NoId, ~uncertain
               PROVE  LET k == record.active_job
                      IN \/ /\ worker'[k].pc \in {"starting", "running",
                                                  "retained"}
                            /\ registered = k
                         \/ worker'[k].pc = "abandoned"
    BY <1>1 DEF ActiveJobIsAttended, storedVars
  <2>1. record.active_job = j
    BY <1>1 DEF WorkInv, WorkersHold, Working
  <2> QED
    BY <1>2, <2>1
<1> QED
  BY <1>1, <1>2, <1>3, <1>4, <1>5 DEF WorkInv, WorkTyped

(* The end of a request, written or not known to be.                       *)
LEMMA EndsFacts ==
    ASSUME Here, NEW j, NEW result, Ends(j, result)
    PROVE  /\ ~uncertain
           /\ result = "ok" => /\ record'.exists /\ record'.active_job = NoId
                               /\ ~uncertain'
           /\ result = "unsettled" => uncertain'
BY DEF Ends, CommitResult, CommitOnly, IsRow, Here

LEMMA HistoryErrorKeeps ==
    ASSUME WorkInv, NEW j \in JobId, HistoryError(j)
    PROVE  WorkInv'
<1>1. /\ worker[j].pc = "starting" /\ registered' = NoId
      /\ UNCHANGED handler
  BY DEF HistoryError
<1>2. PICK pc \in {"done", "abandoned"} :
         /\ Works(j, pc)
         /\ \/ /\ pc = "done"
               /\ \E result \in {"ok", "unsettled"} :
                     SettleMessage(j, "Failed", FALSE, result)
            \/ pc = "abandoned" /\ UNCHANGED storedVars
  BY DEF HistoryError
<1>3. /\ DOMAIN handler' = Handler
      /\ HandlersAreTyped' /\ OneRegisters'
      /\ worker' \in [JobId -> WorkerState]
      /\ worker'[j].pc = pc
      /\ \A k \in JobId \ {j} : /\ worker'[k] = worker[k]
                                /\ worker[k].pc \notin Holding
      /\ Later => HandlersLag'
  BY <1>1, <1>2, WorkerMoves DEF Holding
<1>4. record.exists /\ record.active_job = j
  BY <1>1 DEF WorkInv, WorkersHold, Working
<1>5. Here /\ IsRow(record)
  BY <1>4, RowHere DEF WorkInv
<1>6. WorkersHold'
  BY <1>2, <1>3 DEF WorkersHold, Working, Holding
<1>7. CASE pc = "abandoned"
  <2>1. UNCHANGED storedVars
    BY <1>2, <1>7
  <2>2. StoreInv' /\ Later
    BY <2>1, SameIsLater DEF WorkInv, storedVars, StoreInv, AllDrawn
  <2>3. ActiveJobIsAttended'
    BY <1>3, <1>4, <1>7, <2>1 DEF ActiveJobIsAttended, storedVars
  <2> QED
    BY <1>1, <1>3, <1>6, <2>2, <2>3 DEF WorkInv, WorkTyped
<1>8. CASE pc = "done"
  <2>1. PICK result \in {"ok", "unsettled"} :
           SettleMessage(j, "Failed", FALSE, result)
    BY <1>2, <1>8
  <2>2. Ends(j, result)
    BY <1>5, <2>1, ReplyEnds
  <2>3. StoreInv'
    <3>1. Moves(NoId)
      BY <1>5, <2>1, SettleMessageMoves DEF Settled
    <3> QED
      BY <1>5, <3>1, MovedKeeps DEF Moved
  <2>4. Later
    BY <1>4, <2>2, WritesAreLater DEF WorkInv
  <2>5. ActiveJobIsAttended'
    BY <1>5, <2>2, EndsFacts DEF ActiveJobIsAttended
  <2> QED
    BY <1>1, <1>3, <1>6, <2>3, <2>4, <2>5 DEF WorkInv, WorkTyped
<1> QED
  BY <1>7, <1>8

LEMMA StreamKeeps ==
    ASSUME WorkInv, NEW j \in JobId, NEW result, Stream(j, result)
    PROVE  WorkInv'
<1>1. /\ worker[j].pc = "running" /\ Replies(j) /\ UNCHANGED workVars
      /\ \/ UpdateOutput(j, result) \/ SettleToolBatch(j, result)
         \/ \E q \in QueueItem : DeliverSteering(j, q, result)
  BY DEF Stream
<1>2. /\ record.exists /\ record.active_job = j
      /\ record.began = "message"
  BY <1>1 DEF WorkInv, WorkersHold, Working, Replies, KindOf
<1>3. /\ registered = j
      /\ \A k \in JobId : worker[k].pc \in Holding => k = j
      /\ \A h \in Handler : ~At(h, "registered")
  BY <1>1, OnlyHolder DEF Holding
<1>4. Here /\ IsRow(record)
  BY <1>2, RowHere DEF WorkInv
<1>5. StoreInv'
  <2>1. Moved
    BY <1>1, <1>2, <1>4, UpdateOutputMoves, SettleToolBatchMoves,
       DeliverSteeringMoves DEF Moved
  <2> QED
    BY <1>4, <2>1, MovedKeeps
<1>6. Streams(j, result)
  BY <1>1, <1>2, <1>4, OutputStreams
<1>7. /\ record'.exists /\ record'.active_job = j
      /\ record'.began = "message"
  BY <1>2, <1>6 DEF Streams, SameWork, IsRow, CommitResult, CommitOnly
<1>8. Later
  BY <1>2, <1>6, WritesAreLater DEF WorkInv
<1>9. HandlersLag'
  <2>1. \A g \in Handler :
           \/ handler'[g] = Free
           \/ /\ handler[g] # Free
              /\ handler'[g].revision = handler[g].revision
              /\ handler'[g].op = handler[g].op
              /\ handler'[g].leaf = handler[g].leaf
    BY <1>1 DEF workVars
  <2> QED
    BY <1>8, <2>1, LagKept DEF WorkInv, WorkTyped
<1>10. WorkTyped' /\ OneRegisters'
  BY <1>1 DEF WorkInv, WorkTyped, HandlersAreTyped, OneRegisters, At,
     workVars
<1>11. WorkersHold'
  BY <1>1, <1>2, <1>3, <1>7 DEF WorkInv, WorkersHold, Working, Holding,
     KindOf, workVars
<1>12. ActiveJobIsAttended'
  BY <1>1, <1>3, <1>7 DEF ActiveJobIsAttended, workVars
<1> QED
  BY <1>5, <1>9, <1>10, <1>11, <1>12 DEF WorkInv

LEMMA SettlementEnds ==
    ASSUME WorkInv, NEW j \in JobId, worker[j].pc = "running",
           NEW result, Settlement(j, result)
    PROVE  StoreInv' /\ Ends(j, result)
<1>1. /\ record.exists /\ record.active_job = j
      /\ worker[j].op \in Begins
      /\ record.began = KindOf(worker[j].op)
  BY DEF WorkInv, WorkersHold, Working
<1>2. Here /\ IsRow(record)
  BY <1>1, RowHere DEF WorkInv
<1>3. ASSUME NEW status \in Settled, NEW reply \in BOOLEAN,
             SettleMessage(j, status, reply, result)
      PROVE  Moves(NoId) /\ Ends(j, result)
  BY <1>2, <1>3, SettleMessageMoves, ReplyEnds
<1>4. ASSUME NEW reply \in BOOLEAN, PauseForBudget(j, reply, result)
      PROVE  Moves(NoId) /\ Ends(j, result)
  BY <1>2, <1>4, PauseForBudgetMoves, ReplyEnds
<1>5. ASSUME NEW status \in Settled, SettleCommand(j, status, result)
      PROVE  Moves(NoId) /\ Ends(j, result)
  BY <1>2, <1>5, SettleCommandMoves, ReplyEnds
<1>6. ASSUME NEW failed \in BOOLEAN, FinishCompaction(j, failed, result),
             worker[j].op = "compaction"
      PROVE  Moves(NoId) /\ Ends(j, result)
  <2>1. record.began = "compaction"
    BY <1>1, <1>6 DEF KindOf
  <2> QED
    BY <1>2, <1>6, <2>1, FinishCompactionMoves, CompactionEnds
<1>7. Moves(NoId) /\ Ends(j, result)
  <2>1. \A status \in Settled : (status = "Complete") \in BOOLEAN
    OBVIOUS
  <2>2. \/ \E status \in Settled, reply \in BOOLEAN :
              SettleMessage(j, status, reply, result)
        \/ \E reply \in BOOLEAN : PauseForBudget(j, reply, result)
        \/ \E status \in Settled : SettleCommand(j, status, result)
        \/ /\ worker[j].op = "compaction"
           /\ \E failed \in BOOLEAN : FinishCompaction(j, failed, result)
    BY <2>1 DEF Settlement
  <2> QED
    BY <1>3, <1>4, <1>5, <1>6, <2>2
<1> QED
  BY <1>2, <1>7, MovedKeeps DEF Moved

LEMMA SettleKeeps ==
    ASSUME WorkInv, NEW j \in JobId, Settle(j)
    PROVE  WorkInv'
<1>1. /\ worker[j].pc = "running" /\ UNCHANGED <<registered, handler>>
  BY DEF Settle
<1>2. PICK pc \in {"replied", "settled", "retained"} :
         /\ Works(j, pc)
         /\ \/ Settlement(j, "ok")
            \/ Settlement(j, "unsettled")
            \/ UNCHANGED storedVars /\ pc = "retained"
  BY DEF Settle
<1>3. /\ registered = j
      /\ DOMAIN handler' = Handler
      /\ HandlersAreTyped' /\ OneRegisters'
      /\ worker' \in [JobId -> WorkerState]
      /\ worker'[j].pc = pc
      /\ \A k \in JobId \ {j} : /\ worker'[k] = worker[k]
                                /\ worker[k].pc \notin Holding
      /\ Later => HandlersLag'
  BY <1>1, <1>2, WorkerMoves DEF Holding
<1>4. record.exists /\ record.active_job = j
  BY <1>1 DEF WorkInv, WorkersHold, Working
<1>5. Here
  BY <1>4, RowHere DEF WorkInv
<1>6. WorkersHold'
  BY <1>1, <1>3 DEF WorkersHold, Working, Holding
<1>7. CASE UNCHANGED storedVars /\ pc = "retained"
  <2>1. StoreInv' /\ Later
    BY <1>7, SameIsLater DEF WorkInv, storedVars, StoreInv, AllDrawn
  <2>2. ActiveJobIsAttended'
    BY <1>1, <1>3, <1>4, <1>7 DEF ActiveJobIsAttended, storedVars
  <2> QED
    BY <1>1, <1>3, <1>6, <2>1, <2>2 DEF WorkInv, WorkTyped
<1>8. ASSUME NEW result \in {"ok", "unsettled"}, Settlement(j, result)
      PROVE  WorkInv'
  <2>1. StoreInv' /\ Ends(j, result)
    BY <1>1, <1>8, SettlementEnds
  <2>2. Later
    BY <1>4, <2>1, WritesAreLater DEF WorkInv
  <2>3. ActiveJobIsAttended'
    BY <1>5, <2>1, EndsFacts DEF ActiveJobIsAttended
  <2> QED
    BY <1>1, <1>3, <1>6, <2>1, <2>2, <2>3 DEF WorkInv, WorkTyped
<1> QED
  BY <1>2, <1>7, <1>8

LEMMA TakeTitleKeeps ==
    ASSUME WorkInv, NEW j \in JobId, TakeTitle(j)
    PROVE  WorkInv'
<1>1. /\ worker[j].pc = "replied" /\ Works(j, "settled")
      /\ UNCHANGED <<registered, handler>>
      /\ \/ \E result \in {"ok", "unsettled"} : ClaimTitle(result)
         \/ UNCHANGED storedVars
  BY DEF TakeTitle
<1>2. /\ registered = j
      /\ DOMAIN handler' = Handler
      /\ HandlersAreTyped' /\ OneRegisters'
      /\ worker' \in [JobId -> WorkerState]
      /\ worker'[j].pc = "settled"
      /\ \A k \in JobId \ {j} : /\ worker'[k] = worker[k]
                                /\ worker[k].pc \notin Holding
      /\ Later => HandlersLag'
  BY <1>1, WorkerMoves DEF Holding
<1>3. WorkersHold'
  BY <1>1, <1>2 DEF WorkersHold, Working, Holding
<1>4. /\ StoreInv' /\ Later
      /\ record'.exists /\ ~uncertain' =>
            /\ record.exists /\ ~uncertain
            /\ record'.active_job = record.active_job
  <2>1. CASE UNCHANGED storedVars
    BY <2>1, SameIsLater DEF WorkInv, storedVars, StoreInv, AllDrawn
  <2>2. ASSUME NEW result \in {"ok", "unsettled"}, ClaimTitle(result)
        PROVE  /\ StoreInv' /\ Later
               /\ record'.exists /\ ~uncertain' =>
                     /\ record.exists /\ ~uncertain
                     /\ record'.active_job = record.active_job
    <3>1. record.exists
      BY <2>2 DEF ClaimTitle
    <3>2. Here /\ IsRow(record)
      BY <3>1, RowHere DEF WorkInv
    <3>3. Moves(NoId) /\ Edits(result)
      <4>1. EditStep(0, result)
        BY <2>2 DEF EditStep
      <4> QED
        BY <2>2, <3>2, <4>1, EditStepMoves, RowEdits
    <3>4. StoreInv' /\ Later
      BY <3>1, <3>2, <3>3, MovedKeeps, WritesAreLater DEF Moved, WorkInv
    <3> QED
      BY <3>1, <3>3, <3>4 DEF Edits, CommitOnly
  <2> QED
    BY <1>1, <2>1, <2>2
<1>5. ActiveJobIsAttended'
  <2> SUFFICES ASSUME record'.exists, record'.active_job # NoId, ~uncertain'
               PROVE  worker'[record'.active_job].pc = "abandoned"
    BY DEF ActiveJobIsAttended
  <2>1. /\ record.exists /\ ~uncertain /\ record.active_job # NoId
        /\ record'.active_job = record.active_job
    BY <1>4
  <2>2. record.active_job \in JobId
    BY <2>1, RowHere DEF WorkInv
  <2>3. worker[record.active_job].pc = "abandoned"
    BY <1>1, <1>2, <2>1, <2>2 DEF WorkInv, ActiveJobIsAttended, Holding
  <2> QED
    BY <1>1, <1>2, <2>1, <2>2, <2>3
<1> QED
  BY <1>1, <1>2, <1>3, <1>4, <1>5 DEF WorkInv, WorkTyped

LEMMA ReleaseKeeps ==
    ASSUME WorkInv, NEW j \in JobId, Release(j)
    PROVE  WorkInv'
<1>1. /\ worker[j].pc = "settled" /\ UNCHANGED <<storedVars, handler>>
  BY DEF Release
<1>2. PICK pc \in {"done", "retained"} :
         /\ Works(j, pc)
         /\ registered' = IF pc = "done" THEN NoId ELSE registered
  BY DEF Release
<1>3. /\ registered = j
      /\ DOMAIN handler' = Handler
      /\ HandlersAreTyped' /\ OneRegisters'
      /\ worker' \in [JobId -> WorkerState]
      /\ worker'[j].pc = pc
      /\ \A k \in JobId \ {j} : /\ worker'[k] = worker[k]
                                /\ worker[k].pc \notin Holding
      /\ Later => HandlersLag'
  BY <1>1, <1>2, WorkerMoves DEF Holding
<1>4. StoreInv' /\ Later
  BY <1>1, SameIsLater DEF WorkInv, storedVars, StoreInv, AllDrawn
<1>5. WorkersHold'
  BY <1>2, <1>3 DEF WorkersHold, Working, Holding
<1>6. ActiveJobIsAttended'
  <2> SUFFICES ASSUME record.exists, record.active_job # NoId, ~uncertain
               PROVE  worker'[record.active_job].pc = "abandoned"
    BY <1>1 DEF ActiveJobIsAttended, storedVars
  <2>1. record.active_job \in JobId
    BY RowHere DEF WorkInv
  <2>2. worker[record.active_job].pc = "abandoned"
    BY <1>1, <1>3, <2>1 DEF WorkInv, ActiveJobIsAttended, Holding
  <2> QED
    BY <1>1, <1>3, <2>1, <2>2
<1> QED
  BY <1>2, <1>3, <1>4, <1>5, <1>6 DEF WorkInv, WorkTyped

-----------------------------------------------------------------------------
(* The rest of the world: queue forms, a new conversation, the next        *)
(* process.                                                                *)
LEMMA QueueKeeps ==
    ASSUME WorkInv, NEW q \in QueueItem, NEW result, ChangeQueue(q, result)
    PROVE  WorkInv'
<1>1. record.exists /\ UNCHANGED workVars
  BY DEF ChangeQueue
<1>2. PICK w, d, j : \/ /\ d \in Delivery /\ j \in JobId \union {NoId}
                        /\ Enqueue(w, q, d, j, result)
                     \/ RemoveQueueItem(w, q, result)
  BY DEF ChangeQueue
<1>3. Here /\ IsRow(record)
  BY <1>1, RowHere DEF WorkInv
<1>4. StoreInv'
  <2>1. Enqueued(q) \/ Moves(NoId)
    BY <1>2, <1>3, EnqueueJoins, RemoveQueueItemMoves
  <2> QED
    BY <1>3, <2>1, EnqueuedKeeps, MovedKeeps DEF Moved
<1>5. Edits(result)
  BY <1>2, <1>3, RowEdits
<1>6. Later
  BY <1>1, <1>5, WritesAreLater DEF WorkInv
<1>7. /\ record'.exists
      /\ record'.active_job = record.active_job
      /\ record'.began = record.began
      /\ ~uncertain
  BY <1>1, <1>5 DEF Edits, CommitOnly, IsRow
<1>8. HandlersLag'
  <2>1. \A g \in Handler :
           \/ handler'[g] = Free
           \/ /\ handler[g] # Free
              /\ handler'[g].revision = handler[g].revision
              /\ handler'[g].op = handler[g].op
              /\ handler'[g].leaf = handler[g].leaf
    BY <1>1 DEF workVars
  <2> QED
    BY <1>6, <2>1, LagKept DEF WorkInv, WorkTyped
<1>9. WorkTyped' /\ OneRegisters'
  BY <1>1 DEF WorkInv, WorkTyped, HandlersAreTyped, OneRegisters, At,
     workVars
<1>10. WorkersHold' /\ ActiveJobIsAttended'
  BY <1>1, <1>7 DEF WorkInv, WorkersHold, ActiveJobIsAttended, Working,
     workVars
<1> QED
  BY <1>4, <1>8, <1>9, <1>10 DEF WorkInv

LEMMA CreateKeeps ==
    ASSUME WorkInv, NEW result, Create(result)
    PROVE  WorkInv'
<1>1. PICK s \in Settings : CreateSaved(s, NoId, result)
  BY DEF Create
<1>2. /\ record = Missing /\ record.exists = FALSE
      /\ UNCHANGED workVars
      /\ CommitResult(Empty(s, NoId), result)
  BY <1>1, GoneFacts DEF Create, CreateSaved
<1>3. NewRecord(Empty(s, NoId)) /\ Empty(s, NoId).active_job = NoId
  BY EmptyIsNew
<1>4. StoreInv'
  <2>1. uncertain \in BOOLEAN
    BY DEF WorkInv, StoreInv
  <2>2. Creates
    BY <1>2, <1>3, <2>1 DEF CommitResult, CommitOnly, Creates
  <2> QED
    BY <2>2, CreatesKeeps DEF WorkInv
<1>5. \A h \in Handler : handler[h] = Free
  BY <1>2 DEF WorkInv, HandlersLag
<1>6. HandlersLag' /\ WorkTyped' /\ OneRegisters'
  BY <1>2, <1>5 DEF WorkInv, WorkTyped, HandlersLag, HandlersAreTyped,
     OneRegisters, At, Free, workVars
<1>7. record'.exists => record'.active_job = NoId
  BY <1>2, <1>3 DEF CommitResult, CommitOnly
<1>8. WorkersHold' /\ ActiveJobIsAttended'
  BY <1>2, <1>7 DEF WorkInv, WorkersHold, ActiveJobIsAttended, Working,
     workVars
<1> QED
  BY <1>4, <1>6, <1>8 DEF WorkInv

LEMMA RestartIdles ==
    ASSUME StoreInv, Restart
    PROVE  StoreInv' /\ (record'.exists => record'.active_job = NoId)
<1>1. CASE ~record.exists
  <2>1. record' = record /\ uncertain' = FALSE /\ UNCHANGED drawn
    BY <1>1 DEF Restart, InterruptedRequest
  <2> QED
    BY <1>1, <2>1 DEF StoreInv, AllDrawn
<1>2. CASE record.exists
  <2>1. Here /\ IsRow(record)
    BY <1>2, RowHere
  <2>2. StoreInv'
    BY <2>1, RestartMoves, MovedKeeps DEF Moved
  <2>3. record'.active_job = NoId
    <3>1. CASE record.active_job = NoId
      BY <3>1 DEF Restart, InterruptedRequest
    <3>2. CASE record.active_job # NoId
      <4> DEFINE a == [record EXCEPT !.active_job = NoId]
                 n == Advance(a)
      <4>1. IsRow(a) /\ a.active_job = NoId
        BY <2>1 DEF IsRow, RowFields
      <4>2. PICK last, final :
               \/ record' = n
               \/ record' = [n EXCEPT !.entries[last].status = "Interrupted",
                                      !.entries[last].final_phase = final]
        BY <1>2, <3>2 DEF Restart, InterruptedRequest
      <4> HIDE DEF a
      <4>3. IsRow(n) /\ n.active_job = NoId
        BY <4>1, AdvanceHead
      <4> HIDE DEF n
      <4> QED
        BY <4>2, <4>3 DEF IsRow, RowFields
    <3> QED
      BY <3>1, <3>2
  <2> QED
    BY <2>2, <2>3
<1> QED
  BY <1>1, <1>2

LEMMA CrashKeeps ==
    ASSUME WorkInv, Crash
    PROVE  WorkInv'
<1>1. /\ Restart /\ registered' = NoId
      /\ handler' = [h \in Handler |-> Free]
      /\ worker' = [j \in JobId |->
                      IF worker[j] = NoWork THEN NoWork
                      ELSE [worker[j] EXCEPT !.pc = "done"]]
  BY DEF Crash
<1>2. StoreInv' /\ (record'.exists => record'.active_job = NoId)
  BY <1>1, RestartIdles DEF WorkInv
<1>3. /\ worker' \in [JobId -> WorkerState]
      /\ \A j \in JobId : worker'[j].pc \in {"unused", "done"}
  <2> SUFFICES ASSUME NEW j \in JobId
               PROVE  /\ worker'[j] \in WorkerState
                      /\ worker'[j].pc \in {"unused", "done"}
    BY <1>1
  <2>1. worker[j] \in WorkerState
    BY DEF WorkInv, WorkTyped
  <2>2. CASE worker[j] = NoWork
    BY <1>1, <2>2 DEF NoWork, WorkerState
  <2>3. CASE worker[j] # NoWork
    BY <1>1, <2>1, <2>3 DEF WorkerState
  <2> QED
    BY <2>2, <2>3
<1>4. WorkTyped' /\ OneRegisters' /\ HandlersLag'
  BY <1>1, <1>3 DEF WorkTyped, HandlersAreTyped, OneRegisters, HandlersLag,
     At, Free
<1>5. WorkersHold' /\ ActiveJobIsAttended'
  BY <1>2, <1>3 DEF WorkersHold, ActiveJobIsAttended, Working, Holding
<1> QED
  BY <1>2, <1>4, <1>5 DEF WorkInv

LEMMA StutterKeeps ==
    ASSUME WorkInv, UNCHANGED allVars
    PROVE  WorkInv'
<1>1. StoreInv'
  BY DEF WorkInv, allVars, storedVars, StoreInv, AllDrawn
<1>2. WorkTyped' /\ OneRegisters' /\ WorkersHold'
  BY DEF WorkInv, WorkTyped, HandlersAreTyped, OneRegisters, WorkersHold,
     At, Working, allVars, storedVars, workVars
<1>3. HandlersLag' /\ ActiveJobIsAttended'
  BY DEF WorkInv, HandlersLag, ActiveJobIsAttended, allVars, storedVars,
     workVars
<1> QED
  BY <1>1, <1>2, <1>3 DEF WorkInv

(* Handlers, tasks and whatever else moves a conversation keep to WorkInv. *)
THEOREM WorkInvariance == WorkSpec => []WorkInv
<1>1. WorkInit => WorkInv
  <2> SUFFICES ASSUME WorkInit PROVE WorkInv
    OBVIOUS
  <2>1. record = Missing /\ record.exists = FALSE
    BY DEF WorkInit, StoreInit, Missing
  <2>2. StoreInv
    BY <2>1 DEF WorkInit, StoreInit, StoreInv
  <2>3. /\ \A j \in JobId : worker[j] = NoWork
        /\ worker \in [JobId -> WorkerState]
    BY DEF WorkInit, NoWork, WorkerState
  <2>4. /\ DOMAIN handler = Handler
        /\ \A h \in Handler : handler[h] = Free
    BY DEF WorkInit
  <2>5. WorkTyped /\ OneRegisters /\ HandlersLag
    BY <2>3, <2>4 DEF WorkInit, WorkTyped, HandlersAreTyped, OneRegisters,
       HandlersLag, At, Free
  <2>6. WorkersHold /\ ActiveJobIsAttended
    BY <2>1, <2>3 DEF WorkersHold, ActiveJobIsAttended, Working, Holding,
       NoWork
  <2> QED
    BY <2>2, <2>5, <2>6 DEF WorkInv
<1>2. ASSUME WorkInv, [WorkNext]_allVars
      PROVE  WorkInv'
  <2>1. ASSUME NEW h \in Handler, HandlerStep(h)
        PROVE  WorkInv'
    BY <1>2, <2>1, ReadKeeps, RegisterKeeps, QuietHandlerKeeps,
       FailStartKeeps, StartKeeps, EndPauseKeeps, EditorKeeps
       DEF HandlerStep
  <2>2. ASSUME NEW j \in JobId, WorkerStep(j)
        PROVE  WorkInv'
    BY <1>2, <2>2, SpawnKeeps, HistoryErrorKeeps, SettleKeeps,
       TakeTitleKeeps, ReleaseKeeps, StreamKeeps DEF WorkerStep
  <2> QED
    BY <1>2, <2>1, <2>2, CreateKeeps, QueueKeeps, CrashKeeps, StutterKeeps
       DEF WorkNext
<1> QED
  BY <1>1, <1>2, PTL DEF WorkSpec

(* A task that works on a conversation owns it by the registration and by  *)
(* the durable active job (slices/conversations/mod.rs,                    *)
(* execution/conversation.rs), so no other request, branch, deletion or    *)
(* change of settings comes in between.                                    *)
THEOREM TasksOwnTheirWork == WorkSpec => []WorkIsOwned
<1>1. WorkInv => WorkIsOwned
  <2> SUFFICES ASSUME WorkInv PROVE WorkIsOwned
    OBVIOUS
  <2>1. WorkTypeOK
    BY DEF WorkInv, StoreInv, TypeOK, WorkTypeOK, WorkTyped,
       HandlersAreTyped, WorkerState, Free
  <2>2. WorkerOwnsConversation
    BY DEF WorkInv, WorkersHold, WorkerOwnsConversation, Working, Holding
  <2> QED
    BY <2>1, <2>2 DEF WorkIsOwned
<1> QED
  BY <1>1, WorkInvariance, PTL

(* A durable active job has a task that will settle it, or one that kept   *)
(* its registration because it could not (require_recovery); the exception *)
(* is a history error whose settlement failed too.                         *)
THEOREM ActiveJobsAreAttended == WorkSpec => []ActiveJobIsAttended
<1>1. WorkInv => ActiveJobIsAttended
  BY DEF WorkInv
<1> QED
  BY <1>1, WorkInvariance, PTL

(* The promises of the store hold under the handlers and tasks, whose      *)
(* order and arguments are those of the code and which know no bound.      *)
THEOREM RecordStaysSoundAtWork ==
  WorkSpec => [](RecordIsSound /\ ItemInOnePlace)
<1>1. WorkInv => RecordIsSound /\ ItemInOnePlace
  BY InvSound, InvItemInOnePlace DEF WorkInv
<1> QED
  BY <1>1, WorkInvariance, PTL

(* A request extends the history its handler read, although streaming,     *)
(* steering and compaction move the active leaf and keep the revision      *)
(* (store.rs: replace).                                                    *)
THEOREM RequestsExtendWhatWasRead == WorkSpec => RequestExtendsWhatWasRead
<1> DEFINE Extends == \A h \in Handler :
              At(h, "registered") /\ handler'[h].pc = "idle"
                 /\ record.exists /\ record' # record /\ record'.exists
                 /\ record'.active_job # NoId
              => record.leaf = handler[h].leaf
<1>1. ASSUME WorkInv, [WorkNext]_allVars
      PROVE  [Extends]_allVars
  <2> SUFFICES ASSUME NEW h \in Handler, WorkNext,
                      At(h, "registered"), handler'[h].pc = "idle",
                      record.exists, record' # record, record'.exists,
                      record'.active_job # NoId
               PROVE  record.leaf = handler[h].leaf
    BY <1>1
  <2>1. ASSUME NEW result, StartDurably(h, result)
        PROVE  record.leaf = handler[h].leaf
    <3>1. /\ handler[h].op \in Begins
          /\ StartRequest(h, handler[h].job, result)
          /\ handler[h].job \in JobId
      BY <1>1, <2>1 DEF StartDurably, WorkInv, OneRegisters
    <3>2. handler[h].revision = record.revision
      BY <1>1, <3>1, StartIsOfKind DEF WorkInv, Starts
    <3> QED
      BY <1>1, <3>1, <3>2 DEF WorkInv, HandlersLag, At, Free
  <2>2. ASSUME NEW result, EndPause(h, result)
        PROVE  FALSE
    <3>1. /\ ClearContinuation(handler[h].revision, handler[h].checkpoint,
                               result)
          /\ record.active_job = NoId
      BY <2>2 DEF EndPause, ClearContinuation, Idle
    <3>2. Edits(result)
      BY <1>1, <3>1, RowHere, RowEdits DEF WorkInv
    <3> QED
      BY <3>1, <3>2 DEF Edits, CommitOnly
  <2>3. CASE Crash
    BY <1>1, <2>3, RestartIdles DEF Crash, WorkInv
  <2>4. UNCHANGED handler => FALSE
    BY DEF At
  <2>5. \A g \in Handler \ {h} : ~HandlerStep(g)
    <3> SUFFICES ASSUME NEW g \in Handler \ {h}, HandlerStep(g)
                 PROVE  FALSE
      OBVIOUS
    <3>1. \/ \E f : handler' = [handler EXCEPT ![g] = f]
          \/ \E pc : handler' = [handler EXCEPT ![g].pc = pc]
          \/ \E pc, j : handler' = [handler EXCEPT ![g].pc = pc,
                                                  ![g].job = j]
      BY DEF HandlerStep, Read, RegisterJob, ReserveCommand, GiveUp,
         FailStart, FailDelete, StartDurably, EndPause, DeleteReserved,
         EditRecord, Leaves, Goes
    <3>2. DOMAIN handler = Handler
      BY <1>1 DEF WorkInv, WorkTyped
    <3> QED
      BY <2>4, <3>1, <3>2 DEF At
  <2>6. CASE HandlerStep(h)
    <3>1. \/ FailStart(h)
          \/ \E result \in {"ok", "unsettled"} :
                StartDurably(h, result) \/ EndPause(h, result)
      BY <2>6 DEF HandlerStep, Read, RegisterJob, ReserveCommand, GiveUp,
         FailDelete, DeleteReserved, EditRecord, At
    <3>2. ~FailStart(h)
      BY DEF FailStart, storedVars
    <3> QED
      BY <2>1, <2>2, <3>1, <3>2
  <2>7. ASSUME NEW j \in JobId, WorkerStep(j)
        PROVE  FALSE
    BY <2>4, <2>7 DEF WorkerStep, Spawn, HistoryError, Settle, TakeTitle,
       Release, Stream, workVars
  <2>8. ASSUME NEW result, \/ Create(result)
                           \/ \E q \in QueueItem : ChangeQueue(q, result)
        PROVE  FALSE
    BY <2>4, <2>8 DEF Create, ChangeQueue, workVars
  <2> QED
    BY <2>3, <2>5, <2>6, <2>7, <2>8 DEF WorkNext
<1> QED
  BY <1>1, WorkInvariance, PTL DEF WorkSpec, RequestExtendsWhatWasRead
=============================================================================
