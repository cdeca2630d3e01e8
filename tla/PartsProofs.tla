------------------------------ MODULE PartsProofs ------------------------------
(***************************************************************************)
(* An agent action, the stored connection of a provider and the attached   *)
(* files, each for every value of its constants.                           *)
(*                                                                         *)
(* The agent action (AgentLoop): a tool runs at most once for a call and   *)
(* the conversation tells the truth about it, and no request is lost from  *)
(* it.  While the loop runs, the pending message mirrors the reply that is *)
(* held (Mirrors), no call and no request is that of two messages, and a   *)
(* call that ran is settled as done in the reply or in an earlier message  *)
(* (LiveRecord): so a call that is open has not run.  An action that ended *)
(* holds an answer that may replace the pending message without losing     *)
(* anything (EndRecord), whichever of its writes failed.                   *)
(*                                                                         *)
(* The connection (ProviderVault): while at most one write fails or the    *)
(* server crashes once, a change happens in whole or not at all.           *)
(* At every label of a change Whole says what the two files, the marker    *)
(* and the backup hold, and of which of them the connection that was said  *)
(* to be stored can still be put together; while the server is down, that  *)
(* a start puts it together (Down).  The labels of a repair are reached    *)
(* only after something failed (Troubled), so nothing fails in them any    *)
(* more; and the sign-in that is installed is the last one, so no other    *)
(* discards the tokens that are moved (InstallInv).                        *)
(*                                                                         *)
(* The files (Attachments): what a conversation names anywhere is a row of *)
(* its own whose object is there (GoodRows, HoldersOwn), and a draft of a  *)
(* fork names staged rows (DraftsHold).  That this survives a deletion     *)
(* rests on what is apart: no item of a queue shares a file with a message *)
(* or with another item (ItemsApart), nor does a removed item that can be  *)
(* taken back (RemovedApart), nor one draft with another (DraftsApart); so *)
(* the rows that go with one of them are named by nothing else.            *)
(***************************************************************************)
EXTENDS AgentLoop, ProviderVault, Attachments, SequenceTheorems, FunctionTheorems,
        FiniteSetTheorems, TLAPS

Statuses == {"Pending", "Complete", "Failed", "Interrupted"}

ReplySet(n) ==
    [text : BOOLEAN, requests : SUBSET (1 .. n), open : SUBSET Call,
     done : SUBSET Call, skipped : SUBSET Call]
MessageSet(n) ==
    [text : BOOLEAN, requests : SUBSET (1 .. n), open : SUBSET Call,
     done : SUBSET Call, skipped : SUBSET Call, status : Statuses]

Fresh == {"round", "provider", "fit", "compact", "compactThenFit", "commit",
          "commitThenFit", "admit"}
Finishing == {"steer", "compactThenSteer", "commitThenSteer"}
Streaming == {"send", "stream", "replied"} \union Finishing
Tooling == {"tools", "running", "stopped", "failed", "batch"}
Live == Fresh \union Streaming \union Tooling
Over == {"settled", "stuck", "down"}

-----------------------------------------------------------------------------
(* What a message says of its calls is true of what ran.                   *)
Tells(m, rn) ==
    (\A k \in m.done : rn[k] = 1) /\ (\A k \in m.skipped : rn[k] = 0)

AllTell(ms, rn) ==
    \A i \in DOMAIN ms :
        Tells(ms[i], rn) /\ (ms[i].status = "Complete" => ms[i].open = {})

(* The pending message is the reply, but for the call that is running.     *)
Mirrors(m, a) ==
    /\ m.text = a.text /\ m.requests = a.requests /\ Calls(m) = Calls(a)
    /\ m.done \subseteq a.done /\ m.skipped \subseteq a.skipped

Disjoint(a) == a.open \intersect (a.done \union a.skipped) = {}

RanIsDone(ms, a, rn) ==
    \A k \in Call : rn[k] = 1 =>
        \/ k \in a.done
        \/ \E i \in 1 .. Len(ms) - 1 : k \in ms[i].done

SentIsIn(ms, out, sums) ==
    \A q \in out : q \in sums \/ \E i \in DOMAIN ms : q \in ms[i].requests

LiveRecord(ms, a, rn, out, sums) ==
    /\ ms # <<>>
    /\ Mirrors(ms[Len(ms)], a)
    /\ Disjoint(a)
    /\ UniqueIdentities(ms)
    /\ Tells(a, rn)
    /\ RanIsDone(ms, a, rn)
    /\ SentIsIn(ms, out, sums)

(* What the answer of an action that ended may replace.                    *)
RanIsRecorded(ms, rn) ==
    \A k \in Call : rn[k] = 1 => \E i \in DOMAIN ms : k \in Calls(ms[i])

RanIsAnswered(ms, a, rn) ==
    \A k \in Call : rn[k] = 1 =>
        \/ k \in Calls(a)
        \/ \E i \in 1 .. Len(ms) - 1 : k \in Calls(ms[i])

SentIsAnswered(ms, a, out, sums) ==
    \A q \in out :
        \/ q \in sums \/ q \in a.requests
        \/ \E i \in 1 .. Len(ms) - 1 : q \in ms[i].requests

EndRecord(ms, a, rn, out, sums) ==
    /\ ms # <<>>
    /\ Tells(a, rn)
    /\ RanIsRecorded(ms, rn)
    /\ RanIsAnswered(ms, a, rn)
    /\ SentIsIn(ms, out, sums)

-----------------------------------------------------------------------------
(* A message is written over the last one, or a new pending one follows.   *)
Replaced(ms, m, next) ==
    /\ Len(next) = Len(ms)
    /\ next[Len(ms)] = m
    /\ \A i \in 1 .. Len(ms) - 1 : next[i] = ms[i]

Followed(ms, m, next) ==
    /\ Len(next) = Len(ms) + 1
    /\ next[Len(ms)] = m /\ next[Len(ms) + 1] = Pending
    /\ \A i \in 1 .. Len(ms) - 1 : next[i] = ms[i]

LEMMA PhaseFields ==
    ASSUME NEW n \in Nat, NEW a \in ReplySet(n), NEW status \in Statuses
    PROVE  /\ Phase(status, a) \in MessageSet(n)
           /\ Phase(status, a).text = a.text /\ Phase(status, a).requests = a.requests
           /\ Phase(status, a).open = a.open /\ Phase(status, a).done = a.done
           /\ Phase(status, a).skipped = a.skipped
           /\ Phase(status, a).status = status
           /\ Calls(Phase(status, a)) = Calls(a)
  BY DEF Phase, ReplySet, MessageSet, Calls

LEMMA NoReplyFields ==
    ASSUME NEW n \in Nat
    PROVE  /\ NoReply \in ReplySet(n) /\ Pending \in MessageSet(n)
           /\ Pending.requests = {} /\ Calls(Pending) = {} /\ Pending.status = "Pending"
           /\ Pending.done = {} /\ Pending.skipped = {}
           /\ Pending.text = NoReply.text
           /\ Calls(NoReply) = {} /\ NoReply.requests = {} /\ ~NoReply.text
           /\ NoReply.open = {} /\ NoReply.done = {} /\ NoReply.skipped = {}
  BY DEF NoReply, Pending, Phase, ReplySet, MessageSet, Calls, Statuses

LEMMA LastIsReplaced ==
    ASSUME NEW S, NEW ms \in Seq(S), ms # <<>>, NEW m \in S
    PROVE  /\ [ms EXCEPT ![Len(ms)] = m] \in Seq(S)
           /\ Replaced(ms, m, [ms EXCEPT ![Len(ms)] = m])
<1>1. Len(ms) \in Nat /\ Len(ms) >= 1 /\ DOMAIN ms = 1 .. Len(ms)
  OBVIOUS
<1>2. [ms EXCEPT ![Len(ms)] = m] \in Seq(S) /\ Len([ms EXCEPT ![Len(ms)] = m]) = Len(ms)
  BY <1>1
<1>3. /\ [ms EXCEPT ![Len(ms)] = m][Len(ms)] = m
      /\ \A i \in 1 .. Len(ms) - 1 : [ms EXCEPT ![Len(ms)] = m][i] = ms[i]
  <2>1. PICK n : n = Len(ms)
    OBVIOUS
  <2>2. n \in DOMAIN ms /\ [ms EXCEPT ![n] = m][n] = m
    BY <1>1, <2>1
  <2>3. \A i \in DOMAIN ms : i # n => [ms EXCEPT ![n] = m][i] = ms[i]
    OBVIOUS
  <2>4. \A i \in 1 .. n - 1 : i \in DOMAIN ms /\ i # n
    <3>1. n \in Nat /\ n >= 1 /\ DOMAIN ms = 1 .. n
      BY <1>1, <2>1
    <3>2. ASSUME NEW i \in 1 .. n - 1
          PROVE  i \in Nat /\ 1 <= i /\ i <= n /\ i # n
      BY <3>1
    <3>3. ASSUME NEW i \in 1 .. n - 1
          PROVE  i \in 1 .. n
      BY <3>1, <3>2
    <3> QED
      BY <3>1, <3>2, <3>3
  <2> QED
    BY <2>1, <2>2, <2>3, <2>4
<1>4. PICK next : next = [ms EXCEPT ![Len(ms)] = m]
  OBVIOUS
<1>5. Replaced(ms, m, next)
  BY <1>2, <1>3, <1>4 DEF Replaced
<1> QED
  BY <1>2, <1>4, <1>5

LEMMA LastIsFollowed ==
    ASSUME NEW S, NEW ms \in Seq(S), ms # <<>>, NEW m \in S, Pending \in S
    PROVE  /\ [ms EXCEPT ![Len(ms)] = m] \o <<Pending>> \in Seq(S)
           /\ Followed(ms, m, [ms EXCEPT ![Len(ms)] = m] \o <<Pending>>)
<1>1. PICK next : next = [ms EXCEPT ![Len(ms)] = m]
  OBVIOUS
<1>2. next \in Seq(S) /\ Replaced(ms, m, next)
  BY <1>1, LastIsReplaced
<1>3. Len(ms) \in Nat /\ Len(ms) >= 1
  OBVIOUS
<1>4. PICK last : last = Pending
  OBVIOUS
<1>5. /\ next \o <<last>> \in Seq(S)
      /\ Len(next \o <<last>>) = Len(ms) + 1
      /\ (next \o <<last>>)[Len(ms) + 1] = last
      /\ \A i \in 1 .. Len(ms) : (next \o <<last>>)[i] = next[i]
  BY <1>2, <1>3, <1>4 DEF Replaced
<1>6. PICK longer : longer = next \o <<last>>
  OBVIOUS
<1>7. \A i \in 1 .. Len(ms) - 1 : longer[i] = ms[i]
  BY <1>2, <1>3, <1>5, <1>6 DEF Replaced
<1>8. longer[Len(ms)] = m
  BY <1>2, <1>3, <1>5, <1>6 DEF Replaced
<1>9. Followed(ms, m, longer)
  BY <1>4, <1>5, <1>6, <1>7, <1>8 DEF Followed
<1> QED
  BY <1>1, <1>4, <1>5, <1>6, <1>9

-----------------------------------------------------------------------------
LEMMA BelowLast ==
    ASSUME NEW n \in Nat, NEW i \in 1 .. n, i # n
    PROVE  i \in 1 .. n - 1
  OBVIOUS

LEMMA EarlierIsAnother ==
    ASSUME NEW n \in Nat, NEW i \in 1 .. n - 1
    PROVE  i \in 1 .. n /\ n \in 1 .. n /\ i # n
  OBVIOUS

LEMMA OpenHasNotRun ==
    ASSUME NEW n, NEW ms \in Seq(MessageSet(n)), NEW a, NEW rn \in [Call -> {0, 1}],
           NEW out, NEW sums, LiveRecord(ms, a, rn, out, sums),
           NEW k \in Call, k \in a.open
    PROVE  rn[k] = 0
<1>1. Len(ms) \in Nat /\ Len(ms) >= 1 /\ DOMAIN ms = 1 .. Len(ms)
  BY DEF LiveRecord
<1>2. k \notin a.done
  BY DEF LiveRecord, Disjoint
<1>3. k \in Calls(ms[Len(ms)])
  BY DEF LiveRecord, Mirrors, Calls
<1>4. ASSUME NEW i \in 1 .. Len(ms) - 1, k \in ms[i].done
      PROVE  FALSE
  <2>1. k \in Calls(ms[i])
    BY <1>4 DEF Calls
  <2>2. i \in DOMAIN ms /\ Len(ms) \in DOMAIN ms /\ i # Len(ms)
    BY <1>1, EarlierIsAnother
  <2> QED
    BY <1>3, <2>1, <2>2 DEF LiveRecord, UniqueIdentities
<1> QED
  BY <1>2, <1>4 DEF LiveRecord, RanIsDone

LEMMA LiveIsRecorded ==
    ASSUME NEW n, NEW ms \in Seq(MessageSet(n)), NEW a, NEW rn,
           NEW out, NEW sums, LiveRecord(ms, a, rn, out, sums)
    PROVE  RanIsRecorded(ms, rn)
<1>1. Len(ms) \in Nat /\ Len(ms) >= 1 /\ DOMAIN ms = 1 .. Len(ms)
  BY DEF LiveRecord
<1>2. ASSUME NEW k \in Call, rn[k] = 1
      PROVE  \E i \in DOMAIN ms : k \in Calls(ms[i])
  <2>1. CASE k \in a.done
    <3>1. k \in Calls(ms[Len(ms)])
      BY <2>1 DEF LiveRecord, Mirrors, Calls
    <3> QED
      BY <1>1, <3>1
  <2>2. CASE \E i \in 1 .. Len(ms) - 1 : k \in ms[i].done
    <3>1. PICK i \in 1 .. Len(ms) - 1 : k \in ms[i].done
      BY <2>2
    <3>2. k \in Calls(ms[i]) /\ i \in DOMAIN ms
      BY <1>1, <3>1 DEF Calls
    <3> QED
      BY <3>2
  <2> QED
    BY <1>2, <2>1, <2>2 DEF LiveRecord, RanIsDone
<1> QED
  BY <1>2 DEF RanIsRecorded

(* The reply is written again with what was added to it.                   *)
LEMMA CheckpointLives ==
    ASSUME NEW n, NEW ms \in Seq(MessageSet(n)), NEW next \in Seq(MessageSet(n)),
           NEW a, NEW b, NEW m, NEW rn, NEW out, NEW sums,
           LiveRecord(ms, a, rn, out, sums),
           Replaced(ms, m, next), Mirrors(m, b), Disjoint(b), UniqueIdentities(next),
           Tells(b, rn), a.done \subseteq b.done, a.requests \subseteq b.requests
    PROVE  LiveRecord(next, b, rn, out, sums)
<1>1. /\ Len(ms) \in Nat /\ Len(ms) >= 1 /\ DOMAIN ms = 1 .. Len(ms)
      /\ Len(next) = Len(ms) /\ DOMAIN next = 1 .. Len(ms)
  BY DEF LiveRecord, Replaced
<1>2. next # <<>> /\ Mirrors(next[Len(next)], b)
  BY <1>1 DEF Replaced
<1>3. RanIsDone(next, b, rn)
  BY <1>1 DEF LiveRecord, RanIsDone, Replaced
<1>4. SentIsIn(next, out, sums)
  <2>1. ASSUME NEW q, NEW i \in DOMAIN ms, q \in ms[i].requests
        PROVE  \E j \in DOMAIN next : q \in next[j].requests
    <3>1. CASE i = Len(ms)
      <4>1. q \in next[Len(ms)].requests
        BY <2>1, <3>1 DEF LiveRecord, Mirrors, Replaced
      <4> QED
        BY <1>1, <4>1
    <3>2. CASE i # Len(ms)
      <4>1. i \in 1 .. Len(ms) - 1
        BY <1>1, <3>2
      <4> QED
        BY <1>1, <2>1, <4>1 DEF Replaced
    <3> QED
      BY <3>1, <3>2
  <2> QED
    BY <2>1 DEF LiveRecord, SentIsIn
<1> QED
  BY <1>2, <1>3, <1>4 DEF LiveRecord

(* A message is settled and a pending one follows.                         *)
LEMMA NewPhaseLives ==
    ASSUME NEW n \in Nat, NEW ms \in Seq(MessageSet(n)), NEW next \in Seq(MessageSet(n)),
           NEW a, NEW m, NEW rn, NEW out, NEW sums,
           LiveRecord(ms, a, rn, out, sums),
           Followed(ms, m, next), m.requests = a.requests, Calls(m) \subseteq Calls(a),
           a.done \subseteq m.done
    PROVE  LiveRecord(next, NoReply, rn, out, sums)
<1>1. /\ Len(ms) \in Nat /\ Len(ms) >= 1 /\ DOMAIN ms = 1 .. Len(ms)
      /\ Len(next) = Len(ms) + 1 /\ DOMAIN next = 1 .. Len(ms) + 1
  BY DEF LiveRecord, Followed
<1>2. next # <<>> /\ next[Len(next)] = Pending
  BY <1>1 DEF Followed
<1>3. Mirrors(Pending, NoReply) /\ Disjoint(NoReply) /\ Tells(NoReply, rn)
  BY NoReplyFields DEF Mirrors, Disjoint, Tells
<1>4. RanIsDone(next, NoReply, rn)
  <2>1. ASSUME NEW k \in Call, rn[k] = 1
        PROVE  \E i \in 1 .. Len(next) - 1 : k \in next[i].done
    <3>1. CASE k \in a.done
      <4>1. k \in next[Len(ms)].done /\ Len(ms) \in 1 .. Len(next) - 1
        BY <1>1, <3>1 DEF Followed
      <4> QED
        BY <4>1
    <3>2. CASE \E i \in 1 .. Len(ms) - 1 : k \in ms[i].done
      <4>1. PICK i \in 1 .. Len(ms) - 1 : k \in ms[i].done
        BY <3>2
      <4>2. k \in next[i].done /\ i \in 1 .. Len(next) - 1
        BY <1>1, <4>1 DEF Followed
      <4> QED
        BY <4>2
    <3> QED
      BY <2>1, <3>1, <3>2 DEF LiveRecord, RanIsDone
  <2> QED
    BY <2>1 DEF RanIsDone
<1>5. SentIsIn(next, out, sums)
  <2>1. ASSUME NEW q, NEW i \in DOMAIN ms, q \in ms[i].requests
        PROVE  i \in DOMAIN next /\ q \in next[i].requests
    <3>1. CASE i = Len(ms)
      BY <1>1, <2>1, <3>1 DEF LiveRecord, Mirrors, Followed
    <3>2. CASE i # Len(ms)
      <4>1. i \in 1 .. Len(ms) - 1
        BY <1>1, <3>2
      <4> QED
        BY <1>1, <2>1, <4>1 DEF Followed
    <3> QED
      BY <3>1, <3>2
  <2> QED
    BY <2>1 DEF LiveRecord, SentIsIn
<1>6. UniqueIdentities(next)
  <2>1. ASSUME NEW i \in 1 .. Len(ms)
        PROVE  /\ i \in DOMAIN ms
               /\ next[i].requests \subseteq ms[i].requests
               /\ Calls(next[i]) \subseteq Calls(ms[i])
    <3>1. CASE i = Len(ms)
      <4>1. next[i] = m /\ i \in DOMAIN ms
        BY <1>1, <3>1 DEF Followed
      <4>2. m.requests \subseteq ms[i].requests /\ Calls(m) \subseteq Calls(ms[i])
        BY <3>1 DEF LiveRecord, Mirrors
      <4>3. next[i].requests \subseteq ms[i].requests
        BY <4>1, <4>2
      <4>4. Calls(next[i]) \subseteq Calls(ms[i])
        BY <4>1, <4>2 DEF Calls
      <4> QED
        BY <4>1, <4>3, <4>4
    <3>2. CASE i # Len(ms)
      <4>1. i \in 1 .. Len(ms) - 1
        BY <1>1, <3>2, BelowLast
      <4> QED
        BY <1>1, <4>1 DEF Followed
    <3> QED
      BY <3>1, <3>2
  <2>2. next[Len(ms) + 1].requests = {} /\ Calls(next[Len(ms) + 1]) = {}
    BY NoReplyFields DEF Followed
  <2>3. ASSUME NEW i \in DOMAIN next, NEW j \in DOMAIN next, i # j
        PROVE  /\ next[i].requests \intersect next[j].requests = {}
               /\ Calls(next[i]) \intersect Calls(next[j]) = {}
    <3>1. CASE i = Len(ms) + 1 \/ j = Len(ms) + 1
      BY <2>2, <3>1
    <3>2. CASE i # Len(ms) + 1 /\ j # Len(ms) + 1
      <4>1. i \in 1 .. Len(ms) /\ j \in 1 .. Len(ms)
        BY <1>1, <3>2
      <4>2. /\ ms[i].requests \intersect ms[j].requests = {}
            /\ Calls(ms[i]) \intersect Calls(ms[j]) = {}
        BY <2>1, <2>3, <4>1 DEF LiveRecord, UniqueIdentities
      <4> QED
        BY <2>1, <4>1, <4>2
    <3> QED
      BY <3>1, <3>2
  <2> QED
    BY <2>3 DEF UniqueIdentities
<1> QED
  BY <1>2, <1>3, <1>4, <1>5, <1>6 DEF LiveRecord

(* A tool begins: its call is done, in the reply first.                    *)
Begun(a, k, b) ==
    /\ b.text = a.text /\ b.requests = a.requests /\ b.skipped = a.skipped
    /\ b.open = a.open \ {k} /\ b.done = a.done \union {k}

Ran(rn, k) == [rn EXCEPT ![k] = rn[k] + 1]

LEMMA DispatchLives ==
    ASSUME NEW n, NEW ms \in Seq(MessageSet(n)), NEW a, NEW rn \in [Call -> {0, 1}],
           NEW out, NEW sums, LiveRecord(ms, a, rn, out, sums), AllTell(ms, rn),
           NEW k \in Call, k \in a.open, NEW b, Begun(a, k, b)
    PROVE  /\ LiveRecord(ms, b, Ran(rn, k), out, sums)
           /\ AllTell(ms, Ran(rn, k))
           /\ Ran(rn, k) \in [Call -> {0, 1}]
<1>1. Len(ms) \in Nat /\ Len(ms) >= 1 /\ DOMAIN ms = 1 .. Len(ms)
  BY DEF LiveRecord
<1>2. rn[k] = 0
  BY OpenHasNotRun
<1>3. /\ Ran(rn, k) \in [Call -> {0, 1}] /\ Ran(rn, k)[k] = 1
      /\ \A l \in Call : l # k => Ran(rn, k)[l] = rn[l]
  BY <1>2 DEF Ran
<1>4. PICK rm : rm = Ran(rn, k)
  OBVIOUS
<1>5. k \notin a.done /\ k \notin a.skipped
  BY DEF LiveRecord, Disjoint
<1>6. ASSUME NEW i \in DOMAIN ms
      PROVE  k \notin ms[i].skipped
  <2>1. CASE i = Len(ms)
    BY <1>5, <2>1 DEF LiveRecord, Mirrors
  <2>2. CASE i # Len(ms)
    <3>1. k \in Calls(ms[Len(ms)])
      BY DEF LiveRecord, Mirrors, Calls
    <3>2. Calls(ms[i]) \intersect Calls(ms[Len(ms)]) = {}
      BY <1>1, <2>2 DEF LiveRecord, UniqueIdentities
    <3>3. k \notin Calls(ms[i])
      BY <3>1, <3>2
    <3> QED
      BY <3>3 DEF Calls
  <2> QED
    BY <2>1, <2>2
<1>7. ASSUME NEW i \in DOMAIN ms
      PROVE  Tells(ms[i], rm)
  <2>1. ms[i].done \subseteq Call /\ ms[i].skipped \subseteq Call
    <3>1. ms[i] \in MessageSet(n)
      OBVIOUS
    <3> QED
      BY <3>1 DEF MessageSet
  <2>2. Tells(ms[i], rn)
    BY DEF AllTell
  <2> QED
    BY <1>3, <1>4, <1>6, <2>1, <2>2 DEF Tells
<1>8. AllTell(ms, rm)
  BY <1>7 DEF AllTell
<1>9. Calls(b) = Calls(a)
  BY DEF Begun, Calls
<1>10. Mirrors(ms[Len(ms)], b)
  BY <1>9 DEF LiveRecord, Mirrors, Begun
<1>11. Disjoint(b)
  BY <1>5 DEF LiveRecord, Disjoint, Begun
<1>12. RanIsDone(ms, b, rm)
  <2>1. ASSUME NEW l \in Call, rm[l] = 1
        PROVE  l \in b.done \/ \E i \in 1 .. Len(ms) - 1 : l \in ms[i].done
    <3>1. CASE l = k
      BY <3>1 DEF Begun
    <3>2. CASE l # k
      <4>1. rn[l] = 1
        BY <1>3, <1>4, <2>1, <3>2
      <4> QED
        BY <4>1 DEF LiveRecord, RanIsDone, Begun
    <3> QED
      BY <3>1, <3>2
  <2> QED
    BY <2>1 DEF RanIsDone
<1>13. Tells(b, rm)
  <2>1. ASSUME NEW l \in b.done
        PROVE  rm[l] = 1
    <3>1. CASE l = k
      BY <1>3, <1>4, <3>1
    <3>2. CASE l # k
      <4>1. l \in a.done /\ rn[l] = 1
        BY <2>1, <3>2 DEF Begun, LiveRecord, Tells
      <4>2. rm[l] = rn[l]
        BY <3>2, <1>4 DEF Ran
      <4> QED
        BY <4>1, <4>2
    <3> QED
      BY <3>1, <3>2
  <2>2. ASSUME NEW l \in b.skipped
        PROVE  rm[l] = 0
    <3>1. l \in a.skipped /\ rn[l] = 0 /\ l # k
      BY <1>5, <2>2 DEF Begun, LiveRecord, Tells
    <3>2. rm[l] = rn[l]
      BY <3>1, <1>4 DEF Ran
    <3> QED
      BY <3>1, <3>2
  <2> QED
    BY <2>1, <2>2 DEF Tells
<1>14. LiveRecord(ms, b, rm, out, sums)
  BY <1>10, <1>11, <1>12, <1>13 DEF LiveRecord
<1> QED
  BY <1>3, <1>4, <1>8, <1>14

(* The action ends with an answer that holds what the reply held.  The     *)
(* write of it may have happened or not.                                   *)
LEMMA EndHolds ==
    ASSUME NEW n, NEW ms \in Seq(MessageSet(n)), NEW next \in Seq(MessageSet(n)),
           NEW a, NEW b, NEW m, NEW rn, NEW out, NEW sums,
           LiveRecord(ms, a, rn, out, sums),
           next = ms \/ Replaced(ms, m, next),
           Calls(m) = Calls(b), m.requests = b.requests, Tells(b, rn),
           a.done \subseteq b.done, a.requests \subseteq b.requests
    PROVE  EndRecord(next, b, rn, out, sums) /\ SentIsAnswered(next, b, out, sums)
<1>1. /\ Len(ms) \in Nat /\ Len(ms) >= 1 /\ DOMAIN ms = 1 .. Len(ms)
      /\ Len(next) = Len(ms) /\ DOMAIN next = 1 .. Len(ms)
      /\ \A i \in 1 .. Len(ms) - 1 : next[i] = ms[i]
  BY DEF LiveRecord, Replaced
<1>2. Calls(next[Len(ms)]) \in {Calls(a), Calls(b)}
      /\ next[Len(ms)].requests \in {a.requests, b.requests}
  BY DEF LiveRecord, Mirrors, Replaced
<1>3. \A k \in Call : rn[k] = 1 =>
          k \in a.done \/ \E i \in 1 .. Len(ms) - 1 : k \in next[i].done
  BY <1>1 DEF LiveRecord, RanIsDone
<1>4. RanIsAnswered(next, b, rn)
  BY <1>1, <1>3 DEF RanIsAnswered, Calls
<1>5. RanIsRecorded(next, rn)
  <2>1. ASSUME NEW k \in Call, rn[k] = 1
        PROVE  \E i \in DOMAIN next : k \in Calls(next[i])
    <3>1. CASE k \in a.done
      <4>1. k \in Calls(a) /\ k \in Calls(b)
        BY <3>1 DEF Calls
      <4>2. k \in Calls(next[Len(ms)]) /\ Len(ms) \in DOMAIN next
        BY <1>1, <1>2, <4>1
      <4> QED
        BY <4>2
    <3>2. CASE \E i \in 1 .. Len(ms) - 1 : k \in next[i].done
      <4>1. PICK i \in 1 .. Len(ms) - 1 : k \in next[i].done
        BY <3>2
      <4>2. k \in Calls(next[i]) /\ i \in DOMAIN next
        BY <1>1, <4>1 DEF Calls
      <4> QED
        BY <4>2
    <3> QED
      BY <1>3, <2>1, <3>1, <3>2
  <2> QED
    BY <2>1 DEF RanIsRecorded
<1>6. ASSUME NEW q \in out, q \notin sums
      PROVE  q \in a.requests \/ \E i \in 1 .. Len(ms) - 1 : q \in next[i].requests
  <2>1. PICK i \in DOMAIN ms : q \in ms[i].requests
    BY <1>6 DEF LiveRecord, SentIsIn
  <2>2. CASE i = Len(ms)
    BY <2>1, <2>2 DEF LiveRecord, Mirrors
  <2>3. CASE i # Len(ms)
    <3>1. i \in 1 .. Len(ms) - 1
      BY <1>1, <2>3
    <3> QED
      BY <1>1, <2>1, <3>1
  <2> QED
    BY <2>2, <2>3
<1>7. SentIsAnswered(next, b, out, sums)
  BY <1>1, <1>6 DEF SentIsAnswered
<1>8. SentIsIn(next, out, sums)
  <2>1. ASSUME NEW q \in out, q \notin sums
        PROVE  \E i \in DOMAIN next : q \in next[i].requests
    <3>1. CASE q \in a.requests
      <4>1. q \in next[Len(ms)].requests /\ Len(ms) \in DOMAIN next
        BY <1>1, <1>2, <3>1
      <4> QED
        BY <4>1
    <3>2. CASE \E i \in 1 .. Len(ms) - 1 : q \in next[i].requests
      BY <1>1, <3>2
    <3> QED
      BY <1>6, <2>1, <3>1, <3>2
  <2> QED
    BY <2>1 DEF SentIsIn
<1> QED
  BY <1>1, <1>4, <1>5, <1>7, <1>8 DEF EndRecord

(* It ends where its message is settled and a pending one follows.         *)
LEMMA EndHoldsAfterNewPhase ==
    ASSUME NEW n \in Nat, NEW ms \in Seq(MessageSet(n)), NEW next \in Seq(MessageSet(n)),
           NEW a, NEW m, NEW rn, NEW out, NEW sums,
           LiveRecord(ms, a, rn, out, sums),
           Followed(ms, m, next), m.requests = a.requests, Calls(m) \subseteq Calls(a),
           a.done \subseteq m.done
    PROVE  EndRecord(next, a, rn, out, sums) /\ SentIsAnswered(next, a, out, sums)
<1>1. LiveRecord(next, NoReply, rn, out, sums)
  BY NewPhaseLives
<1>2. /\ Len(ms) \in Nat /\ Len(ms) >= 1 /\ DOMAIN ms = 1 .. Len(ms)
      /\ Len(next) = Len(ms) + 1 /\ DOMAIN next = 1 .. Len(ms) + 1
      /\ next[Len(ms) + 1] = Pending
  BY DEF LiveRecord, Followed
<1>3. RanIsRecorded(next, rn)
  BY <1>1, LiveIsRecorded
<1>4. RanIsAnswered(next, a, rn)
  <2>1. ASSUME NEW k \in Call, rn[k] = 1
        PROVE  \E i \in 1 .. Len(next) - 1 : k \in Calls(next[i])
    <3>1. \E i \in 1 .. Len(next) - 1 : k \in next[i].done
      BY <1>1, <2>1, NoReplyFields DEF LiveRecord, RanIsDone
    <3> QED
      BY <3>1 DEF Calls
  <2> QED
    BY <2>1 DEF RanIsAnswered
<1>5. SentIsAnswered(next, a, out, sums)
  <2>1. ASSUME NEW q \in out, q \notin sums
        PROVE  \E i \in 1 .. Len(next) - 1 : q \in next[i].requests
    <3>1. PICK i \in DOMAIN next : q \in next[i].requests
      BY <1>1, <2>1 DEF LiveRecord, SentIsIn
    <3>2. i # Len(ms) + 1
      BY <1>2, <3>1, NoReplyFields
    <3>3. i \in 1 .. Len(next) - 1
      BY <1>2, <3>2
    <3> QED
      BY <3>1, <3>3
  <2> QED
    BY <2>1 DEF SentIsAnswered
<1>6. Tells(a, rn) /\ SentIsIn(next, out, sums) /\ next # <<>>
  BY <1>1 DEF LiveRecord
<1> QED
  BY <1>3, <1>4, <1>5, <1>6 DEF EndRecord

(* A stop during a compaction answers with nothing at all, when no call of *)
(* the reply has run.                                                      *)
LEMMA EndHoldsWithNothing ==
    ASSUME NEW n, NEW ms \in Seq(MessageSet(n)), NEW a, NEW rn,
           NEW out, NEW sums, LiveRecord(ms, a, rn, out, sums), a.done = {}
    PROVE  EndRecord(ms, NoReply, rn, out, sums)
<1>1. RanIsRecorded(ms, rn)
  BY LiveIsRecorded
<1>2. RanIsAnswered(ms, NoReply, rn)
  BY DEF LiveRecord, RanIsDone, RanIsAnswered, Calls
<1>3. Tells(NoReply, rn)
  BY NoReplyFields DEF Tells
<1> QED
  BY <1>1, <1>2, <1>3 DEF LiveRecord, EndRecord

-----------------------------------------------------------------------------
(* Each message of the conversation tells the truth when its last one is   *)
(* written over, or followed by another.                                   *)
LEMMA ReplacedTells ==
    ASSUME NEW n, NEW ms \in Seq(MessageSet(n)), NEW next \in Seq(MessageSet(n)), NEW m,
           NEW rn, AllTell(ms, rn), ms # <<>>, Replaced(ms, m, next), Tells(m, rn),
           m.status = "Complete" => m.open = {}
    PROVE  AllTell(next, rn)
<1>1. /\ Len(ms) \in Nat /\ DOMAIN ms = 1 .. Len(ms) /\ DOMAIN next = 1 .. Len(ms)
  BY DEF Replaced
<1>2. ASSUME NEW i \in DOMAIN next
      PROVE  Tells(next[i], rn) /\ (next[i].status = "Complete" => next[i].open = {})
  <2>1. CASE i = Len(ms)
    BY <2>1 DEF Replaced
  <2>2. CASE i # Len(ms)
    <3>1. i \in 1 .. Len(ms) - 1 /\ i \in DOMAIN ms
      BY <1>1, <2>2
    <3> QED
      BY <3>1 DEF Replaced, AllTell
  <2> QED
    BY <2>1, <2>2
<1> QED
  BY <1>2 DEF AllTell

LEMMA FollowedTells ==
    ASSUME NEW n \in Nat, NEW ms \in Seq(MessageSet(n)), NEW next \in Seq(MessageSet(n)),
           NEW m, NEW rn, AllTell(ms, rn), ms # <<>>, Followed(ms, m, next), Tells(m, rn),
           m.status = "Complete" => m.open = {}
    PROVE  AllTell(next, rn)
<1>1. /\ Len(ms) \in Nat /\ DOMAIN ms = 1 .. Len(ms) /\ DOMAIN next = 1 .. Len(ms) + 1
  BY DEF Followed
<1>2. ASSUME NEW i \in DOMAIN next
      PROVE  Tells(next[i], rn) /\ (next[i].status = "Complete" => next[i].open = {})
  <2>1. CASE i = Len(ms)
    BY <2>1 DEF Followed
  <2>2. CASE i = Len(ms) + 1
    <3>1. next[i] = Pending
      BY <2>2 DEF Followed
    <3> QED
      BY <3>1, NoReplyFields DEF Tells
  <2>3. CASE i # Len(ms) /\ i # Len(ms) + 1
    <3>1. i \in 1 .. Len(ms) - 1 /\ i \in DOMAIN ms
      BY <1>1, <2>3
    <3> QED
      BY <3>1 DEF Followed, AllTell
  <2> QED
    BY <2>1, <2>2, <2>3
<1> QED
  BY <1>2 DEF AllTell

(* The answer is written over the pending message.                         *)
LEMMA SettlementKeeps ==
    ASSUME NEW n, NEW ms \in Seq(MessageSet(n)), NEW next \in Seq(MessageSet(n)),
           NEW a, NEW m, NEW rn, NEW out, NEW sums,
           EndRecord(ms, a, rn, out, sums), Replaced(ms, m, next),
           Calls(m) = Calls(a), m.requests = a.requests
    PROVE  /\ RanIsRecorded(next, rn)
           /\ SentIsAnswered(ms, a, out, sums) => SentIsIn(next, out, sums)
<1>1. /\ Len(ms) \in Nat /\ Len(ms) >= 1 /\ DOMAIN ms = 1 .. Len(ms)
      /\ DOMAIN next = 1 .. Len(ms) /\ next[Len(ms)] = m
      /\ \A i \in 1 .. Len(ms) - 1 : next[i] = ms[i]
  BY DEF EndRecord, Replaced
<1>2. RanIsRecorded(next, rn)
  <2>1. ASSUME NEW k \in Call, rn[k] = 1
        PROVE  \E i \in DOMAIN next : k \in Calls(next[i])
    <3>1. CASE k \in Calls(a)
      <4>1. k \in Calls(next[Len(ms)]) /\ Len(ms) \in DOMAIN next
        BY <1>1, <3>1
      <4> QED
        BY <4>1
    <3>2. CASE \E i \in 1 .. Len(ms) - 1 : k \in Calls(ms[i])
      <4>1. PICK i \in 1 .. Len(ms) - 1 : k \in Calls(ms[i])
        BY <3>2
      <4>2. k \in Calls(next[i]) /\ i \in DOMAIN next
        BY <1>1, <4>1
      <4> QED
        BY <4>2
    <3> QED
      BY <2>1, <3>1, <3>2 DEF EndRecord, RanIsAnswered
  <2> QED
    BY <2>1 DEF RanIsRecorded
<1>3. ASSUME SentIsAnswered(ms, a, out, sums), NEW q \in out, q \notin sums
      PROVE  \E i \in DOMAIN next : q \in next[i].requests
  <2>1. CASE q \in a.requests
    <3>1. q \in next[Len(ms)].requests /\ Len(ms) \in DOMAIN next
      BY <1>1, <2>1
    <3> QED
      BY <3>1
  <2>2. CASE \E i \in 1 .. Len(ms) - 1 : q \in ms[i].requests
    BY <1>1, <2>2
  <2> QED
    BY <1>3, <2>1, <2>2 DEF SentIsAnswered
<1> QED
  BY <1>2, <1>3 DEF SentIsIn

(* A pending message that holds nothing is dropped.                        *)
LEMMA DropKeeps ==
    ASSUME NEW n, NEW ms \in Seq(MessageSet(n)), NEW next \in Seq(MessageSet(n)),
           NEW a, NEW rn, NEW out, NEW sums,
           EndRecord(ms, a, rn, out, sums), Len(next) = Len(ms) - 1,
           \A i \in 1 .. Len(ms) - 1 : next[i] = ms[i],
           Calls(ms[Len(ms)]) = {}, ms[Len(ms)].requests = {}
    PROVE  RanIsRecorded(next, rn) /\ SentIsIn(next, out, sums)
<1>1. /\ Len(ms) \in Nat /\ Len(ms) >= 1 /\ DOMAIN ms = 1 .. Len(ms)
      /\ DOMAIN next = 1 .. Len(ms) - 1
  BY DEF EndRecord
<1>2. ASSUME NEW i \in DOMAIN ms, i # Len(ms)
      PROVE  i \in DOMAIN next /\ next[i] = ms[i]
  BY <1>1, <1>2
<1>3. RanIsRecorded(next, rn)
  <2>1. ASSUME NEW k \in Call, rn[k] = 1
        PROVE  \E i \in DOMAIN next : k \in Calls(next[i])
    <3>1. PICK i \in DOMAIN ms : k \in Calls(ms[i])
      BY <2>1 DEF EndRecord, RanIsRecorded
    <3>2. i # Len(ms)
      BY <3>1
    <3> QED
      BY <1>2, <3>1, <3>2
  <2> QED
    BY <2>1 DEF RanIsRecorded
<1>4. SentIsIn(next, out, sums)
  <2>1. ASSUME NEW q \in out, q \notin sums
        PROVE  \E i \in DOMAIN next : q \in next[i].requests
    <3>1. PICK i \in DOMAIN ms : q \in ms[i].requests
      BY <2>1 DEF EndRecord, SentIsIn
    <3>2. i # Len(ms)
      BY <3>1
    <3> QED
      BY <1>2, <3>1, <3>2
  <2> QED
    BY <2>1 DEF SentIsIn
<1> QED
  BY <1>3, <1>4

-----------------------------------------------------------------------------
(* The inductive invariant.                                                *)
AgentTyped ==
    /\ drawn \in Nat
    /\ reply \in ReplySet(drawn)
    /\ phases \in Seq(MessageSet(drawn))
    /\ ended.answer \in ReplySet(drawn)
    /\ ran \in [Call -> {0, 1}]
    /\ AllTell(phases, ran)

(* What the reply holds at each point of the loop.                         *)
StageKnows ==
    /\ pc \in Live \union {"ended"} \union Over
    /\ pc \in Fresh => reply = NoReply
    /\ pc \in Streaming => reply.done = {} /\ reply.skipped = {}
    /\ pc \in Finishing => reply.open = {} /\ reply.text = TRUE
    /\ pc \in Tooling => Calls(reply) # {}
    /\ pc = "batch" => reply.open = {}
    /\ pc = "send" => drawn \in reply.requests

LiveKeeps == pc \in Live => LiveRecord(phases, reply, ran, sent, summaries)

(* A stop during the compaction after a finished reply loses that reply.   *)
AnswersNothing == ended = End("Cancelled", NoReply) /\ reply.text = TRUE

(* How an action ended: as the outcome says.                               *)
EndFits(outcome, answer, ms) ==
    /\ outcome \in {"Completed", "BudgetExhausted"} => answer.open = {}
    /\ outcome = "BudgetExhausted" /\ IsEmpty(answer) =>
          Calls(ms[Len(ms)]) = {} /\ ms[Len(ms)].requests = {}

EndKeeps ==
    pc = "ended" =>
        /\ EndRecord(phases, ended.answer, ran, sent, summaries)
        /\ AnswersNothing \/ SentIsAnswered(phases, ended.answer, sent, summaries)
        /\ EndFits(ended.outcome, ended.answer, phases)

OverKeeps ==
    pc \in Over =>
        /\ RanIsRecorded(phases, ran)
        /\ AnswersNothing \/ SentIsIn(phases, sent, summaries)

AgentInv == AgentTyped /\ StageKnows /\ LiveKeeps /\ EndKeeps /\ OverKeeps

LEMMA Stages ==
    /\ Fresh \subseteq Live /\ Streaming \subseteq Live /\ Tooling \subseteq Live
    /\ "ended" \notin Live /\ Live \intersect Over = {} /\ "ended" \notin Over
    /\ \A p \in Live : p \notin {"ended", "settled", "stuck", "down"}
  BY DEF Live, Fresh, Streaming, Finishing, Tooling, Over

LEMMA AgentInvStarts ==
    ASSUME AgentInit
    PROVE  AgentInv
<1>1. /\ pc = "round" /\ reply = NoReply /\ phases = <<Pending>>
      /\ summaries = {} /\ ended = End("None", NoReply)
      /\ drawn = 0 /\ sent = {} /\ ran = [k \in Call |-> 0]
  BY DEF AgentInit
<1>2. /\ NoReply \in ReplySet(0) /\ Pending \in MessageSet(0)
      /\ Pending.requests = {} /\ Calls(Pending) = {} /\ Pending.status = "Pending"
      /\ Pending.done = {} /\ Pending.skipped = {} /\ Pending.text = NoReply.text
      /\ Calls(NoReply) = {} /\ NoReply.requests = {}
      /\ NoReply.open = {} /\ NoReply.done = {} /\ NoReply.skipped = {}
  BY NoReplyFields
<1>3. PICK m : m = Pending
  OBVIOUS
<1>4. phases = <<m>> /\ Len(phases) = 1 /\ DOMAIN phases = {1} /\ phases[1] = m
  BY <1>1, <1>3
<1>5. ended.answer = NoReply
  BY <1>1 DEF End
<1>6. AllTell(phases, ran)
  BY <1>2, <1>3, <1>4 DEF AllTell, Tells
<1>7. AgentTyped
  BY <1>1, <1>2, <1>3, <1>4, <1>5, <1>6 DEF AgentTyped
<1>8. pc \in Fresh /\ pc \notin Streaming /\ pc \notin Tooling /\ pc \notin Finishing
      /\ pc # "ended" /\ pc \notin Over /\ pc \in Live /\ pc # "send" /\ pc # "batch"
  BY <1>1 DEF Fresh, Streaming, Tooling, Finishing, Over, Live
<1>9. StageKnows
  BY <1>1, <1>8 DEF StageKnows
<1>10. Mirrors(m, reply)
  BY <1>1, <1>2, <1>3 DEF Mirrors
<1>11. UniqueIdentities(phases)
  BY <1>4 DEF UniqueIdentities
<1>12. RanIsDone(phases, reply, ran) /\ SentIsIn(phases, sent, summaries)
  BY <1>1 DEF RanIsDone, SentIsIn
<1>13. Disjoint(reply) /\ Tells(reply, ran)
  BY <1>1, <1>2 DEF Disjoint, Tells
<1>14. LiveKeeps
  BY <1>4, <1>10, <1>11, <1>12, <1>13 DEF LiveKeeps, LiveRecord
<1> QED
  BY <1>7, <1>8, <1>9, <1>14 DEF AgentInv, EndKeeps, OverKeeps

-----------------------------------------------------------------------------
(* Requests are drawn, and what is sent is in a summary.                   *)
Counts ==
    /\ drawn' \in {drawn, drawn + 1}
    /\ summaries \subseteq summaries'
    /\ \A q \in sent' : q \in sent \/ q \in summaries'

LEMMA TypesGrow ==
    ASSUME NEW n \in Nat
    PROVE  /\ ReplySet(n) \subseteq ReplySet(n + 1)
           /\ Seq(MessageSet(n)) \subseteq Seq(MessageSet(n + 1))
<1>1. SUBSET (1 .. n) \subseteq SUBSET (1 .. n + 1)
  OBVIOUS
<1>2. ReplySet(n) \subseteq ReplySet(n + 1)
  BY <1>1 DEF ReplySet
<1>3. MessageSet(n) \subseteq MessageSet(n + 1)
  BY <1>1 DEF MessageSet
<1> QED
  BY <1>2, <1>3

LEMMA StillTyped ==
    ASSUME AgentInv, Counts
    PROVE  /\ drawn' \in Nat
           /\ reply \in ReplySet(drawn') /\ ended.answer \in ReplySet(drawn')
           /\ phases \in Seq(MessageSet(drawn'))
<1>1. drawn \in Nat /\ reply \in ReplySet(drawn) /\ ended.answer \in ReplySet(drawn)
      /\ phases \in Seq(MessageSet(drawn))
  BY DEF AgentInv, AgentTyped
<1>2. CASE drawn' = drawn
  BY <1>1, <1>2
<1>3. CASE drawn' = drawn + 1
  <2>1. PICK n \in Nat : n = drawn
    BY <1>1
  <2>2. drawn' = n + 1
    BY <1>3, <2>1
  <2> QED
    BY <1>1, <2>1, <2>2, TypesGrow
<1> QED
  BY <1>2, <1>3 DEF Counts

LEMMA CountedLives ==
    ASSUME NEW ms, NEW a, NEW rn, NEW out, NEW sums, NEW more, NEW larger,
           LiveRecord(ms, a, rn, out, sums), sums \subseteq larger,
           \A q \in more : \/ q \in out \/ q \in larger
                           \/ \E i \in DOMAIN ms : q \in ms[i].requests
    PROVE  LiveRecord(ms, a, rn, more, larger)
<1>1. SentIsIn(ms, more, larger)
  BY DEF LiveRecord, SentIsIn
<1> QED
  BY <1>1 DEF LiveRecord

(* A step inside the loop that writes nothing to the conversation's        *)
(* messages.                                                               *)
LEMMA LoopGoesOn ==
    ASSUME AgentInv, pc \in Live, pc' \in Live, UNCHANGED <<phases, reply, ran, ended>>,
           Counts, StageKnows'
    PROVE  AgentInv'
<1>1. AgentTyped'
  BY StillTyped DEF AgentInv, AgentTyped
<1>2. LiveRecord(phases, reply, ran, sent', summaries')
  BY CountedLives DEF AgentInv, LiveKeeps, Counts
<1>3. LiveKeeps'
  BY <1>2 DEF LiveKeeps
<1>4. EndKeeps' /\ OverKeeps'
  BY Stages DEF EndKeeps, OverKeeps
<1> QED
  BY <1>1, <1>3, <1>4 DEF AgentInv

(* The action ends.                                                        *)
EndsWith(outcome, answer) ==
    pc' = "ended" /\ ended' = End(outcome, answer) /\ reply' = reply /\ ran' = ran

LEMMA ActionEnds ==
    ASSUME AgentInv, NEW outcome, NEW answer, EndsWith(outcome, answer), Counts,
           answer \in ReplySet(drawn'), phases' \in Seq(MessageSet(drawn')),
           AllTell(phases', ran),
           EndRecord(phases', answer, ran, sent', summaries'),
           \/ outcome = "Cancelled" /\ answer = NoReply /\ reply.text = TRUE
           \/ SentIsAnswered(phases', answer, sent', summaries'),
           EndFits(outcome, answer, phases')
    PROVE  AgentInv'
<1>1. /\ ended'.answer = answer /\ ended'.outcome = outcome /\ pc' = "ended"
      /\ reply' = reply /\ ran' = ran /\ ended' = End(outcome, answer)
  BY DEF EndsWith, End
<1>2. AgentTyped'
  BY <1>1, StillTyped DEF AgentInv, AgentTyped
<1>3. StageKnows'
  BY <1>1 DEF StageKnows, Fresh, Streaming, Finishing, Tooling
<1>4. AnswersNothing' \/ SentIsAnswered(phases', answer, sent', summaries')
  BY <1>1 DEF AnswersNothing
<1>5. EndKeeps'
  BY <1>1, <1>4 DEF EndKeeps
<1>6. LiveKeeps' /\ OverKeeps'
  BY <1>1, Stages DEF LiveKeeps, OverKeeps
<1> QED
  BY <1>2, <1>3, <1>5, <1>6 DEF AgentInv

(* It ends with the reply it holds, and writes nothing.                    *)
LEMMA EndsAsHeld ==
    ASSUME AgentInv, pc \in Live, phases' = phases, Counts,
           NEW outcome, EndsWith(outcome, reply),
           outcome \in {"Completed", "BudgetExhausted"} => reply.open = {},
           outcome = "BudgetExhausted" => pc \in Fresh \/ pc = "batch"
    PROVE  AgentInv'
<1>1. /\ drawn' \in Nat /\ reply \in ReplySet(drawn')
      /\ phases \in Seq(MessageSet(drawn'))
  BY StillTyped
<1>2. LiveRecord(phases, reply, ran, sent', summaries')
  BY CountedLives DEF AgentInv, LiveKeeps, Counts
<1>3. PICK n \in Nat : n = drawn'
  BY <1>1
<1>4. PICK m : m = phases[Len(phases)]
  OBVIOUS
<1>5. Mirrors(m, reply) /\ Tells(reply, ran)
  BY <1>2, <1>4 DEF LiveRecord
<1>6. Calls(m) = Calls(reply) /\ m.requests = reply.requests
  BY <1>5 DEF Mirrors
<1>7. phases \in Seq(MessageSet(n))
  BY <1>1, <1>3
<1>8. EndRecord(phases, reply, ran, sent', summaries')
      /\ SentIsAnswered(phases, reply, sent', summaries')
  BY <1>2, <1>5, <1>6, <1>7, EndHolds
<1>9. AllTell(phases', ran) /\ phases' \in Seq(MessageSet(drawn'))
  BY <1>1 DEF AgentInv, AgentTyped
<1>10. EndFits(outcome, reply, phases')
  <2>1. ASSUME outcome = "BudgetExhausted", IsEmpty(reply)
        PROVE  Calls(m) = {} /\ m.requests = {}
    <3>1. Calls(reply) = {}
      BY <2>1 DEF IsEmpty
    <3>2. pc \in Fresh
      BY <2>1, <3>1 DEF AgentInv, StageKnows, Tooling
    <3>3. reply.requests = {}
      BY <3>2, NoReplyFields DEF AgentInv, StageKnows
    <3> QED
      BY <1>6, <3>1, <3>3
  <2> QED
    BY <1>4, <2>1 DEF EndFits
<1> QED
  BY <1>1, <1>8, <1>9, <1>10, ActionEnds

(* It ends with nothing, stopped while it compacted.                       *)
LEMMA EndsWithNothing ==
    ASSUME AgentInv, pc \in Fresh \/ pc \in Finishing, phases' = phases, Counts,
           EndsWith("Cancelled", NoReply)
    PROVE  AgentInv'
<1>1. pc \in Live
  BY DEF Live, Streaming
<1>2. CASE pc \in Fresh
  <2>1. reply = NoReply
    BY <1>2 DEF AgentInv, StageKnows
  <2>2. EndsWith("Cancelled", reply)
    BY <2>1
  <2> QED
    BY <1>1, <2>2, EndsAsHeld
<1>3. CASE pc \in Finishing
  <2>1. /\ drawn' \in Nat /\ phases \in Seq(MessageSet(drawn'))
    BY StillTyped
  <2>2. LiveRecord(phases, reply, ran, sent', summaries')
    BY <1>1, CountedLives DEF AgentInv, LiveKeeps, Counts
  <2>3. reply.done = {} /\ reply.text = TRUE
    BY <1>3 DEF AgentInv, StageKnows, Streaming
  <2>4. EndRecord(phases, NoReply, ran, sent', summaries')
    <3>1. PICK n : n = drawn'
      OBVIOUS
    <3>2. phases \in Seq(MessageSet(n))
      BY <2>1, <3>1
    <3> QED
      BY <2>2, <2>3, <3>2, EndHoldsWithNothing
  <2>5. AllTell(phases', ran) /\ phases' \in Seq(MessageSet(drawn'))
    BY <2>1 DEF AgentInv, AgentTyped
  <2>6. NoReply \in ReplySet(drawn')
    BY <2>1, NoReplyFields
  <2>7. EndFits("Cancelled", NoReply, phases')
    BY DEF EndFits
  <2> QED
    BY <2>3, <2>4, <2>5, <2>6, <2>7, ActionEnds
<1> QED
  BY <1>2, <1>3

(* It ends with a reply that holds what it held, written or not.           *)
Holds(a, b) == a.done \subseteq b.done /\ a.requests \subseteq b.requests

LEMMA EndsAsWritten ==
    ASSUME AgentInv, pc \in Live, Counts, NEW b \in ReplySet(drawn'),
           phases' \in {phases, WithLast(Phase("Pending", b))},
           NEW outcome, outcome \notin {"Completed", "BudgetExhausted"},
           EndsWith(outcome, b), Tells(b, ran), Holds(reply, b)
    PROVE  AgentInv'
<1>1. drawn' \in Nat /\ phases \in Seq(MessageSet(drawn'))
  BY StillTyped
<1>2. LiveRecord(phases, reply, ran, sent', summaries')
  BY CountedLives DEF AgentInv, LiveKeeps, Counts
<1>3. PICK n \in Nat : n = drawn'
  BY <1>1
<1>4. PICK m : m = Phase("Pending", b)
  OBVIOUS
<1>5. b \in ReplySet(n) /\ phases \in Seq(MessageSet(n)) /\ phases # <<>>
  BY <1>1, <1>2, <1>3 DEF LiveRecord
<1>6. /\ m \in MessageSet(n) /\ Calls(m) = Calls(b) /\ m.requests = b.requests
      /\ m.done = b.done /\ m.skipped = b.skipped /\ m.status = "Pending"
  BY <1>4, <1>5, PhaseFields DEF Statuses
<1>7. PICK next : next = phases'
  OBVIOUS
<1>8. next \in Seq(MessageSet(n)) /\ (next = phases \/ Replaced(phases, m, next))
  BY <1>4, <1>5, <1>6, <1>7, LastIsReplaced DEF WithLast
<1>9. EndRecord(next, b, ran, sent', summaries') /\ SentIsAnswered(next, b, sent', summaries')
  BY <1>2, <1>5, <1>6, <1>8, EndHolds DEF Holds
<1>10. AllTell(phases, ran)
  BY DEF AgentInv, AgentTyped
<1>11. AllTell(next, ran)
  <2>1. Tells(m, ran)
    BY <1>6 DEF Tells
  <2> QED
    BY <1>5, <1>6, <1>8, <1>10, <2>1, ReplacedTells
<1>12. EndFits(outcome, b, phases')
  BY DEF EndFits
<1> QED
  BY <1>3, <1>7, <1>8, <1>9, <1>11, <1>12, ActionEnds

(* The reply is written, and the loop goes on.                             *)
LEMMA Writes ==
    ASSUME AgentInv, pc \in Live, pc' \in Live, Counts, NEW b \in ReplySet(drawn'),
           phases' = WithLast(Phase("Pending", b)), reply' = b, UNCHANGED <<ran, ended>>,
           UniqueIdentities(phases'), Tells(b, ran), Disjoint(b), Holds(reply, b),
           StageKnows'
    PROVE  AgentInv'
<1>1. /\ drawn' \in Nat /\ phases \in Seq(MessageSet(drawn'))
      /\ ended.answer \in ReplySet(drawn')
  BY StillTyped
<1>2. LiveRecord(phases, reply, ran, sent', summaries')
  BY CountedLives DEF AgentInv, LiveKeeps, Counts
<1>3. PICK n \in Nat : n = drawn'
  BY <1>1
<1>4. PICK m : m = Phase("Pending", b)
  OBVIOUS
<1>5. b \in ReplySet(n) /\ phases \in Seq(MessageSet(n)) /\ phases # <<>>
  BY <1>1, <1>2, <1>3 DEF LiveRecord
<1>6. /\ m \in MessageSet(n) /\ Calls(m) = Calls(b) /\ m.requests = b.requests
      /\ m.done = b.done /\ m.skipped = b.skipped /\ m.status = "Pending"
      /\ m.text = b.text
  BY <1>4, <1>5, PhaseFields DEF Statuses
<1>7. PICK next : next = phases'
  OBVIOUS
<1>8. next \in Seq(MessageSet(n)) /\ Replaced(phases, m, next)
  BY <1>4, <1>5, <1>6, <1>7, LastIsReplaced DEF WithLast
<1>9. Mirrors(m, b) /\ Tells(m, ran)
  BY <1>6 DEF Mirrors, Tells
<1>10. LiveRecord(next, b, ran, sent', summaries')
  BY <1>2, <1>5, <1>7, <1>8, <1>9, CheckpointLives DEF Holds
<1>11. AllTell(phases, ran) /\ ran \in [Call -> {0, 1}]
  BY DEF AgentInv, AgentTyped
<1>12. AllTell(next, ran)
  BY <1>5, <1>6, <1>8, <1>9, <1>11, ReplacedTells
<1>13. AgentTyped'
  BY <1>1, <1>3, <1>7, <1>8, <1>11, <1>12 DEF AgentTyped
<1>14. LiveKeeps'
  BY <1>7, <1>10 DEF LiveKeeps
<1>15. EndKeeps' /\ OverKeeps'
  BY Stages DEF EndKeeps, OverKeeps
<1> QED
  BY <1>13, <1>14, <1>15 DEF AgentInv

Quiet == UNCHANGED <<summaries, drawn, sent, ran>>

LEMMA CheckpointKeeps ==
    ASSUME AgentInv, pc \in Live, Quiet, NEW b \in ReplySet(drawn), NEW label \in Live,
           b.text = TRUE \/ Calls(b) # {}, Checkpoint(b, label),
           Tells(b, ran), Disjoint(b), Holds(reply, b),
           pc' = label /\ reply' = b => StageKnows'
    PROVE  AgentInv'
<1>1. Counts /\ drawn' = drawn /\ ran' = ran
  <2>1. drawn' = drawn /\ summaries' = summaries /\ sent' = sent /\ ran' = ran
    BY DEF Quiet
  <2> QED
    BY <2>1 DEF Counts
<1>2. b # NoReply
  <2>1. ~NoReply.text /\ Calls(NoReply) = {}
    BY DEF NoReply, Calls
  <2> QED
    BY <2>1
<1>3. b \in ReplySet(drawn')
  BY <1>1
<1>4. CASE /\ CheckpointAccepted(WithLast(Phase("Pending", b)))
           /\ Store(WithLast(Phase("Pending", b)))
           /\ pc' = label /\ reply' = b /\ UNCHANGED ended
  <2>1. phases' = WithLast(Phase("Pending", b)) /\ UniqueIdentities(phases')
    BY <1>4 DEF Store, CheckpointAccepted
  <2> QED
    BY <1>1, <1>3, <1>4, <2>1, Writes
<1>5. CASE StoreFailed(WithLast(Phase("Pending", b)), b)
  <2>1. /\ phases' \in {phases, WithLast(Phase("Pending", b))}
        /\ EndsWith("PersistenceFailure", b)
    BY <1>1, <1>5 DEF StoreFailed, EndsWith, EndWith
  <2> QED
    BY <1>1, <1>3, <2>1, EndsAsWritten
<1>6. CASE StoreRefused(b)
  <2>1. /\ phases' = phases /\ EndsWith("PersistenceFailure", b)
    BY <1>1, <1>6 DEF StoreRefused, EndsWith, EndWith
  <2> QED
    BY <1>1, <1>3, <2>1, EndsAsWritten
<1> QED
  BY <1>2, <1>4, <1>5, <1>6 DEF Checkpoint

(* The pending message is settled, and a new one follows.                  *)
Settling(m) ==
    /\ m.requests = reply.requests /\ Calls(m) \subseteq Calls(reply)
    /\ reply.done \subseteq m.done
    /\ Tells(m, ran) /\ (m.status = "Complete" => m.open = {})

LEMMA PhaseFollows ==
    ASSUME AgentInv, pc \in Live, Quiet, NEW m \in MessageSet(drawn), Settling(m),
           phases' = WithLast(m) \o <<Pending>>
    PROVE  /\ Counts /\ ran' = ran /\ drawn' = drawn /\ drawn \in Nat
           /\ phases' \in Seq(MessageSet(drawn))
           /\ AllTell(phases', ran)
           /\ LiveRecord(phases', NoReply, ran, sent', summaries')
           /\ EndRecord(phases', reply, ran, sent', summaries')
           /\ SentIsAnswered(phases', reply, sent', summaries')
<1>1. drawn' = drawn /\ summaries' = summaries /\ sent' = sent /\ ran' = ran
  BY DEF Quiet
<1>2. Counts
  BY <1>1 DEF Counts
<1>3. drawn \in Nat /\ phases \in Seq(MessageSet(drawn)) /\ AllTell(phases, ran)
  BY DEF AgentInv, AgentTyped
<1>4. LiveRecord(phases, reply, ran, sent', summaries')
  BY <1>1 DEF AgentInv, LiveKeeps
<1>5. PICK n \in Nat : n = drawn
  BY <1>3
<1>6. PICK next : next = phases'
  OBVIOUS
<1>7. phases \in Seq(MessageSet(n)) /\ phases # <<>> /\ m \in MessageSet(n)
      /\ Pending \in MessageSet(n)
  BY <1>3, <1>4, <1>5, NoReplyFields DEF LiveRecord
<1>8. next \in Seq(MessageSet(n)) /\ Followed(phases, m, next)
  BY <1>6, <1>7, LastIsFollowed DEF WithLast
<1>9. /\ m.requests = reply.requests /\ Calls(m) \subseteq Calls(reply)
      /\ reply.done \subseteq m.done
      /\ Tells(m, ran) /\ (m.status = "Complete" => m.open = {})
  BY DEF Settling
<1>10. AllTell(next, ran)
  BY <1>3, <1>7, <1>8, <1>9, FollowedTells
<1>11. LiveRecord(next, NoReply, ran, sent', summaries')
  BY <1>4, <1>7, <1>8, <1>9, NewPhaseLives
<1>12. EndRecord(next, reply, ran, sent', summaries')
       /\ SentIsAnswered(next, reply, sent', summaries')
  BY <1>4, <1>7, <1>8, <1>9, EndHoldsAfterNewPhase
<1>13. phases' \in Seq(MessageSet(drawn))
  BY <1>5, <1>6, <1>8
<1> QED
  BY <1>1, <1>2, <1>3, <1>6, <1>10, <1>11, <1>12, <1>13

(* The next request starts from nothing.                                   *)
LEMMA NextPhaseKeeps ==
    ASSUME AgentInv, pc \in Live, Quiet, NEW m \in MessageSet(drawn), Settling(m),
           phases' = WithLast(m) \o <<Pending>>,
           reply' = NoReply, pc' \in {"round", "provider"}, ended' = ended
    PROVE  AgentInv'
<1>1. /\ Counts /\ ran' = ran /\ drawn' = drawn /\ drawn \in Nat
      /\ phases' \in Seq(MessageSet(drawn))
      /\ AllTell(phases', ran)
      /\ LiveRecord(phases', NoReply, ran, sent', summaries')
  BY PhaseFollows
<1>2. AgentTyped'
  BY <1>1, NoReplyFields DEF AgentInv, AgentTyped
<1>3. /\ pc' \in Fresh /\ pc' \in Live /\ pc' \notin Streaming /\ pc' \notin Finishing
      /\ pc' \notin Tooling /\ pc' # "batch" /\ pc' # "send"
  BY DEF Fresh, Live, Streaming, Finishing, Tooling
<1>4. StageKnows'
  BY <1>3 DEF StageKnows
<1>5. LiveKeeps'
  BY <1>1 DEF LiveKeeps
<1>6. EndKeeps' /\ OverKeeps'
  BY <1>3, Stages DEF EndKeeps, OverKeeps
<1> QED
  BY <1>2, <1>4, <1>5, <1>6 DEF AgentInv

(* The write fails, or what follows it.                                    *)
LEMMA EndsWithNextPhase ==
    ASSUME AgentInv, pc \in Live, Quiet, NEW m \in MessageSet(drawn), Settling(m),
           phases' \in {phases, WithLast(m) \o <<Pending>>},
           NEW outcome, outcome \notin {"Completed", "BudgetExhausted"},
           EndsWith(outcome, reply)
    PROVE  AgentInv'
<1>1. CASE phases' = phases
  <2>1. Counts
    <3>1. drawn' = drawn /\ summaries' = summaries /\ sent' = sent
      BY DEF Quiet
    <3> QED
      BY <3>1 DEF Counts
  <2> QED
    BY <1>1, <2>1, EndsAsHeld
<1>2. CASE phases' = WithLast(m) \o <<Pending>>
  <2>1. /\ Counts /\ ran' = ran /\ drawn' = drawn /\ drawn \in Nat
        /\ phases' \in Seq(MessageSet(drawn))
        /\ AllTell(phases', ran)
        /\ EndRecord(phases', reply, ran, sent', summaries')
        /\ SentIsAnswered(phases', reply, sent', summaries')
    BY <1>2, PhaseFollows
  <2>2. reply \in ReplySet(drawn')
    BY <2>1 DEF AgentInv, AgentTyped
  <2>3. EndFits(outcome, reply, phases')
    BY DEF EndFits
  <2> QED
    BY <2>1, <2>2, <2>3, ActionEnds
<1> QED
  BY <1>1, <1>2

-----------------------------------------------------------------------------
(* Each step of the loop.                                                  *)
LEMMA Undisturbed ==
    ASSUME UNCHANGED <<drawn, sent, summaries>>
    PROVE  Counts
  BY DEF Counts

LEMMA TimeIsUpKeeps == ASSUME AgentInv, TimeIsUp PROVE AgentInv'
<1>1. /\ UNCHANGED <<pc, reply, phases, summaries, ended, drawn, sent, ran>>
      /\ pc \notin Over /\ pc # "ended"
  BY DEF TimeIsUp, written, history, Over
<1>2. StageKnows'
  BY <1>1 DEF AgentInv, StageKnows
<1>3. pc \in Live /\ pc' \in Live
  BY <1>1 DEF AgentInv, StageKnows
<1> QED
  BY <1>1, <1>2, <1>3, Undisturbed, LoopGoesOn

LEMMA StopKeeps == ASSUME AgentInv, Stop PROVE AgentInv'
<1>1. /\ UNCHANGED <<pc, reply, phases, summaries, ended, drawn, sent, ran>>
      /\ pc \notin Over /\ pc # "ended"
  BY DEF Stop, written, history, Over
<1>2. StageKnows'
  BY <1>1 DEF AgentInv, StageKnows
<1>3. pc \in Live /\ pc' \in Live
  BY <1>1 DEF AgentInv, StageKnows
<1> QED
  BY <1>1, <1>2, <1>3, Undisturbed, LoopGoesOn

(* A step that ends the action with its reply or moves on inside a part of *)
(* the loop where the reply is as known as it was.                         *)
LEMMA Moves ==
    ASSUME AgentInv, pc \in Live, pc' \in Live, UNCHANGED <<phases, reply, ran, ended>>,
           Counts,
           pc' \in Fresh => pc \in Fresh,
           pc' \in Streaming => pc \in Streaming,
           pc' \in Finishing => reply.open = {} /\ reply.text = TRUE,
           pc' \in Tooling => pc \in Tooling,
           pc' = "batch" => reply.open = {},
           pc' # "send"
    PROVE  AgentInv'
<1>1. StageKnows'
  BY DEF AgentInv, StageKnows
<1> QED
  BY <1>1, LoopGoesOn

LEMMA RoundKeeps == ASSUME AgentInv, Round PROVE AgentInv'
<1>1. /\ pc = "round" /\ UNCHANGED <<phases, summaries, drawn, sent, ran>>
  BY DEF Round, Untouched, written, history
<1>2. pc \in Live /\ pc \in Fresh
  BY <1>1 DEF Live, Fresh
<1>3. Counts
  BY <1>1, Undisturbed
<1>4. reply.open = {}
  BY <1>2, NoReplyFields DEF AgentInv, StageKnows, NoReply
<1>5. CASE EndWith("ContextBlocked", reply)
  <2>1. EndsWith("ContextBlocked", reply)
    BY <1>1, <1>5 DEF EndWith, EndsWith
  <2> QED
    BY <1>1, <1>2, <1>3, <2>1, EndsAsHeld
<1>6. CASE Paused(reply)
  <2>1. PICK outcome \in {"Cancelled", "BudgetExhausted"} : EndsWith(outcome, reply)
    BY <1>1, <1>6 DEF Paused, EndWith, EndsWith
  <2> QED
    BY <1>1, <1>2, <1>3, <1>4, <2>1, EndsAsHeld
<1>7. CASE pc' = "provider" /\ UNCHANGED <<reply, ended>>
  <2>1. pc' \in Live /\ pc' \in Fresh /\ pc' \notin Streaming /\ pc' \notin Finishing
        /\ pc' \notin Tooling /\ pc' # "batch" /\ pc' # "send"
    BY <1>7 DEF Live, Fresh, Streaming, Finishing, Tooling
  <2> QED
    BY <1>1, <1>2, <1>3, <1>7, <2>1, Moves
<1> QED
  BY <1>5, <1>6, <1>7 DEF Round

LEMMA AttemptKeeps == ASSUME AgentInv, Attempt PROVE AgentInv'
<1>1. /\ pc = "provider" /\ UNCHANGED <<phases, summaries, drawn, sent, ran>>
  BY DEF Attempt, Untouched, written, history
<1>2. pc \in Live /\ pc \in Fresh
  BY <1>1 DEF Live, Fresh
<1>3. Counts
  BY <1>1, Undisturbed
<1>4. reply.open = {}
  BY <1>2, NoReplyFields DEF AgentInv, StageKnows, NoReply
<1>5. CASE EndWith("Cancelled", reply)
  <2>1. EndsWith("Cancelled", reply)
    BY <1>1, <1>5 DEF EndWith, EndsWith
  <2> QED
    BY <1>1, <1>2, <1>3, <2>1, EndsAsHeld
<1>6. CASE Paused(reply)
  <2>1. PICK outcome \in {"Cancelled", "BudgetExhausted"} : EndsWith(outcome, reply)
    BY <1>1, <1>6 DEF Paused, EndWith, EndsWith
  <2> QED
    BY <1>1, <1>2, <1>3, <1>4, <2>1, EndsAsHeld
<1>7. CASE pc' \in {"compact", "fit"} /\ UNCHANGED <<reply, ended>>
  <2>1. pc' \in Live /\ pc' \in Fresh /\ pc' \notin Streaming /\ pc' \notin Finishing
        /\ pc' \notin Tooling /\ pc' # "batch" /\ pc' # "send"
    BY <1>7 DEF Live, Fresh, Streaming, Finishing, Tooling
  <2> QED
    BY <1>1, <1>2, <1>3, <1>7, <2>1, Moves
<1> QED
  BY <1>5, <1>6, <1>7 DEF Attempt, Goto

LEMMA FitContextKeeps == ASSUME AgentInv, FitContext PROVE AgentInv'
<1>1. /\ pc = "fit" /\ UNCHANGED <<phases, summaries, drawn, sent, ran>>
  BY DEF FitContext, Untouched, written, history
<1>2. pc \in Live /\ pc \in Fresh
  BY <1>1 DEF Live, Fresh
<1>3. Counts
  BY <1>1, Undisturbed
<1>4. CASE EndWith("ContextBlocked", reply)
  <2>1. EndsWith("ContextBlocked", reply)
    BY <1>1, <1>4 DEF EndWith, EndsWith
  <2> QED
    BY <1>1, <1>2, <1>3, <2>1, EndsAsHeld
<1>5. CASE pc' \in {"compactThenFit", "admit"} /\ UNCHANGED <<reply, ended>>
  <2>1. pc' \in Live /\ pc' \in Fresh /\ pc' \notin Streaming /\ pc' \notin Finishing
        /\ pc' \notin Tooling /\ pc' # "batch" /\ pc' # "send"
    BY <1>5 DEF Live, Fresh, Streaming, Finishing, Tooling
  <2> QED
    BY <1>1, <1>2, <1>3, <1>5, <2>1, Moves
<1> QED
  BY <1>4, <1>5 DEF FitContext, Goto

LEMMA SummariseKeeps == ASSUME AgentInv, Summarise PROVE AgentInv'
<1>1. /\ pc \in Compacting /\ UNCHANGED <<phases, ran>>
  BY DEF Summarise
<1>2. pc \in Live /\ (pc \in Fresh \/ pc \in Finishing)
  BY <1>1 DEF Compacting, Live, Fresh, Finishing, Streaming
<1>3. CASE EndWith("Cancelled", NoReply) /\ UNCHANGED <<summaries, drawn, sent>>
  <2>1. EndsWith("Cancelled", NoReply)
    BY <1>1, <1>3 DEF EndWith, EndsWith
  <2> QED
    BY <1>1, <1>2, <1>3, <2>1, Undisturbed, EndsWithNothing
<1>4. CASE EndWith("ContextBlocked", reply) /\ UNCHANGED <<summaries, drawn, sent>>
  <2>1. EndsWith("ContextBlocked", reply)
    BY <1>1, <1>4 DEF EndWith, EndsWith
  <2> QED
    BY <1>1, <1>2, <1>4, <2>1, Undisturbed, EndsAsHeld
<1>5. CASE GenerateSummary
  <2>1. Counts
    BY <1>5 DEF GenerateSummary, Counts
  <2>2. ASSUME NEW outcome \in {"PersistenceFailure", "ContextBlocked"},
               EndWith(outcome, reply)
        PROVE  AgentInv'
    <3>1. EndsWith(outcome, reply)
      BY <1>1, <2>2 DEF EndWith, EndsWith
    <3> QED
      BY <1>1, <1>2, <2>1, <3>1, EndsAsHeld
  <2>3. ASSUME UNCHANGED <<reply, ended>>,
               \/ pc' = pc
               \/ pc' = [compact |-> "commit", compactThenFit |-> "commitThenFit",
                         compactThenSteer |-> "commitThenSteer"][pc]
        PROVE  AgentInv'
    <3>1. CASE pc \in {"compact", "compactThenFit"}
      <4>1. pc' \in {"compact", "compactThenFit", "commit", "commitThenFit"}
        BY <2>3, <3>1
      <4>2. /\ pc' \in Live /\ pc \in Fresh /\ pc' \notin Streaming
            /\ pc' \notin Finishing /\ pc' \notin Tooling /\ pc' # "batch" /\ pc' # "send"
        BY <3>1, <4>1 DEF Live, Fresh, Streaming, Finishing, Tooling
      <4> QED
        BY <1>1, <1>2, <2>1, <2>3, <4>2, Moves
    <3>2. CASE pc = "compactThenSteer"
      <4>1. pc' \in {"compactThenSteer", "commitThenSteer"}
        BY <2>3, <3>2
      <4>2. /\ pc' \in Live /\ pc \in Finishing /\ pc \in Streaming
            /\ pc' \notin Fresh /\ pc' \notin Tooling /\ pc' # "batch" /\ pc' # "send"
        BY <3>2, <4>1 DEF Live, Fresh, Streaming, Finishing, Tooling
      <4>3. reply.open = {} /\ reply.text = TRUE
        BY <4>2 DEF AgentInv, StageKnows
      <4> QED
        BY <1>1, <1>2, <2>1, <2>3, <4>2, <4>3, Moves
    <3> QED
      BY <1>1, <3>1, <3>2 DEF Compacting
  <2> QED
    BY <1>5, <2>2, <2>3 DEF GenerateSummary
<1> QED
  BY <1>3, <1>4, <1>5 DEF Summarise

LEMMA CommitCompactionKeeps == ASSUME AgentInv, CommitCompaction PROVE AgentInv'
<1>1. /\ pc \in {"commit", "commitThenFit", "commitThenSteer"}
      /\ UNCHANGED <<phases, summaries, drawn, sent, ran>>
  BY DEF CommitCompaction, Committing, history
<1>2. pc \in Live /\ (pc \in Fresh \/ pc \in Finishing)
  BY <1>1 DEF Live, Fresh, Finishing, Streaming
<1>3. Counts
  BY <1>1, Undisturbed
<1>4. CASE EndWith("Cancelled", NoReply)
  <2>1. EndsWith("Cancelled", NoReply)
    BY <1>1, <1>4 DEF EndWith, EndsWith
  <2> QED
    BY <1>1, <1>2, <1>3, <2>1, EndsWithNothing
<1>5. ASSUME NEW outcome \in {"PersistenceFailure", "ContextBlocked"},
             EndWith(outcome, reply)
      PROVE  AgentInv'
  <2>1. EndsWith(outcome, reply)
    BY <1>1, <1>5 DEF EndWith, EndsWith
  <2> QED
    BY <1>1, <1>2, <1>3, <2>1, EndsAsHeld
<1>6. CASE pc' = Committing[pc] /\ UNCHANGED <<reply, ended>>
  <2>1. CASE pc \in {"commit", "commitThenFit"}
    <3>1. pc' \in {"fit", "admit"}
      BY <1>6, <2>1 DEF Committing
    <3>2. /\ pc' \in Live /\ pc \in Fresh /\ pc' \notin Streaming
          /\ pc' \notin Finishing /\ pc' \notin Tooling /\ pc' # "batch" /\ pc' # "send"
      BY <2>1, <3>1 DEF Live, Fresh, Streaming, Finishing, Tooling
    <3> QED
      BY <1>1, <1>2, <1>3, <1>6, <3>2, Moves
  <2>2. CASE pc = "commitThenSteer"
    <3>1. pc' = "steer"
      BY <1>6, <2>2 DEF Committing
    <3>2. /\ pc' \in Live /\ pc \in Finishing /\ pc \in Streaming
          /\ pc' \notin Fresh /\ pc' \notin Tooling /\ pc' # "batch" /\ pc' # "send"
      BY <2>2, <3>1 DEF Live, Fresh, Streaming, Finishing, Tooling
    <3>3. reply.open = {} /\ reply.text = TRUE
      BY <3>2 DEF AgentInv, StageKnows
    <3> QED
      BY <1>1, <1>2, <1>3, <1>6, <3>2, <3>3, Moves
  <2> QED
    BY <1>1, <2>1, <2>2
<1> QED
  BY <1>4, <1>5, <1>6 DEF CommitCompaction

(* A request that was just drawn is no other message's.                    *)
LEMMA DrawnIsUnique ==
    ASSUME NEW n \in Nat, NEW ms \in Seq(MessageSet(n)), NEW next, NEW a, NEW m, NEW rn,
           NEW out, NEW sums, LiveRecord(ms, a, rn, out, sums), Replaced(ms, m, next),
           DOMAIN next = 1 .. Len(next),
           Calls(m) = Calls(a), m.requests = a.requests \union {n + 1}
    PROVE  UniqueIdentities(next)
<1>1. /\ Len(ms) \in Nat /\ Len(ms) >= 1 /\ DOMAIN ms = 1 .. Len(ms)
      /\ DOMAIN next = 1 .. Len(ms)
  BY DEF LiveRecord, Replaced
<1>2. ASSUME NEW i \in 1 .. Len(ms) - 1
      PROVE  /\ i \in DOMAIN ms /\ i # Len(ms) /\ next[i] = ms[i]
             /\ ms[i].requests \intersect m.requests = {}
             /\ Calls(ms[i]) \intersect Calls(m) = {}
  <2>1. i \in DOMAIN ms /\ i # Len(ms) /\ Len(ms) \in DOMAIN ms
    <3>1. PICK l \in Nat : l = Len(ms) /\ l >= 1
      BY <1>1
    <3>2. i \in 1 .. l - 1
      BY <3>1
    <3>3. i \in 1 .. l /\ i # l /\ l \in 1 .. l
      BY <3>1, <3>2
    <3> QED
      BY <1>1, <3>1, <3>3
  <2>2. /\ ms[i].requests \intersect ms[Len(ms)].requests = {}
        /\ Calls(ms[i]) \intersect Calls(ms[Len(ms)]) = {}
    BY <2>1 DEF LiveRecord, UniqueIdentities
  <2>3. ms[Len(ms)].requests = a.requests /\ Calls(ms[Len(ms)]) = Calls(a)
    BY DEF LiveRecord, Mirrors
  <2>4. ms[i].requests \subseteq 1 .. n
    <3>1. ms[i] \in MessageSet(n)
      BY <2>1
    <3> QED
      BY <3>1 DEF MessageSet
  <2>5. n + 1 \notin 1 .. n
    OBVIOUS
  <2>6. ms[i].requests \intersect m.requests = {}
    BY <2>2, <2>3, <2>4, <2>5
  <2>7. Calls(ms[i]) \intersect Calls(m) = {}
    BY <2>2, <2>3
  <2> QED
    BY <2>1, <2>6, <2>7 DEF Replaced
<1>3. ASSUME NEW i \in DOMAIN next, NEW j \in DOMAIN next, i # j
      PROVE  /\ next[i].requests \intersect next[j].requests = {}
             /\ Calls(next[i]) \intersect Calls(next[j]) = {}
  <2>1. CASE i = Len(ms)
    <3>1. j \in 1 .. Len(ms) - 1
      BY <1>1, <1>3, <2>1
    <3> QED
      BY <1>2, <2>1, <3>1 DEF Replaced
  <2>2. CASE j = Len(ms)
    <3>1. i \in 1 .. Len(ms) - 1
      BY <1>1, <1>3, <2>2
    <3> QED
      BY <1>2, <2>2, <3>1 DEF Replaced
  <2>3. CASE i # Len(ms) /\ j # Len(ms)
    <3>1. i \in 1 .. Len(ms) - 1 /\ j \in 1 .. Len(ms) - 1
      BY <1>1, <2>3, BelowLast
    <3> QED
      BY <1>2, <1>3, <3>1 DEF LiveRecord, UniqueIdentities
  <2> QED
    BY <2>1, <2>2, <2>3
<1> QED
  BY <1>3 DEF UniqueIdentities

LEMMA AdmitKeeps == ASSUME AgentInv, Admit PROVE AgentInv'
<1>1. /\ pc = "admit" /\ UNCHANGED <<summaries, sent, ran>>
  BY DEF Admit
<1>2. pc \in Live /\ pc \in Fresh
  BY <1>1 DEF Live, Fresh
<1>3. /\ drawn \in Nat /\ reply \in ReplySet(drawn) /\ phases \in Seq(MessageSet(drawn))
      /\ reply = NoReply /\ reply.open = {} /\ reply.done = {} /\ reply.skipped = {}
  <2>1. reply = NoReply
    BY <1>2 DEF AgentInv, StageKnows
  <2> QED
    BY <2>1 DEF AgentInv, AgentTyped, NoReply
<1>4. CASE UNCHANGED <<phases, drawn>> /\ EndWith("Cancelled", reply)
  <2>1. EndsWith("Cancelled", reply)
    BY <1>1, <1>4 DEF EndWith, EndsWith
  <2> QED
    BY <1>1, <1>2, <1>4, <2>1, Undisturbed, EndsAsHeld
<1>5. CASE UNCHANGED <<phases, drawn>> /\ Paused(reply)
  <2>1. PICK outcome \in {"Cancelled", "BudgetExhausted"} : EndsWith(outcome, reply)
    BY <1>1, <1>5 DEF Paused, EndWith, EndsWith
  <2> QED
    BY <1>1, <1>2, <1>3, <1>5, <2>1, Undisturbed, EndsAsHeld
<1>6. CASE StartModelRequest([reply EXCEPT !.requests = @ \union {drawn + 1}])
  <2>1. PICK b : b = [reply EXCEPT !.requests = @ \union {drawn + 1}]
    OBVIOUS
  <2>2. PICK m : m = Phase("Pending", b)
    OBVIOUS
  <2>3. drawn' = drawn + 1
    BY <1>6 DEF StartModelRequest
  <2>4. Counts
    BY <1>1, <2>3 DEF Counts
  <2>5. /\ b \in ReplySet(drawn + 1) /\ b.requests = reply.requests \union {drawn + 1}
        /\ b.text = reply.text /\ b.open = reply.open /\ b.done = reply.done
        /\ b.skipped = reply.skipped
    <3>1. reply.requests \union {drawn + 1} \in SUBSET (1 .. drawn + 1)
      BY <1>3 DEF ReplySet
    <3> QED
      BY <1>3, <2>1, <3>1 DEF ReplySet
  <2>6. Calls(b) = Calls(reply) /\ b \in ReplySet(drawn')
    BY <2>3, <2>5 DEF Calls
  <2>7. LiveRecord(phases, reply, ran, sent, summaries)
    BY <1>2 DEF AgentInv, LiveKeeps
  <2>8. Tells(b, ran) /\ Disjoint(b) /\ Holds(reply, b)
    BY <2>5, <2>7 DEF LiveRecord, Tells, Disjoint, Holds
  <2>9. CASE StoreFailed(WithLast(m), b)
    <3>1. phases' \in {phases, WithLast(Phase("Pending", b))}
          /\ EndsWith("PersistenceFailure", b)
      BY <1>1, <2>2, <2>9 DEF StoreFailed, EndsWith, EndWith
    <3> QED
      BY <1>2, <2>4, <2>6, <2>8, <3>1, EndsAsWritten
  <2>10. CASE /\ phases' = WithLast(m) /\ reply' = b /\ pc' = "send" /\ UNCHANGED ended
    <3>1. PICK n \in Nat : n = drawn'
      BY <1>3, <2>3
    <3>2. phases \in Seq(MessageSet(n)) /\ phases # <<>> /\ b \in ReplySet(n)
      BY <2>4, <2>6, <2>7, <3>1, StillTyped DEF LiveRecord
    <3>3. m \in MessageSet(n) /\ Calls(m) = Calls(b) /\ m.requests = b.requests
      BY <2>2, <3>2, PhaseFields DEF Statuses
    <3>4. PICK next : next = phases'
      OBVIOUS
    <3>5. next \in Seq(MessageSet(n)) /\ Replaced(phases, m, next)
      BY <2>10, <3>2, <3>3, <3>4, LastIsReplaced DEF WithLast
    <3>6. PICK d \in Nat : d = drawn
      BY <1>3
    <3>7. /\ phases \in Seq(MessageSet(d)) /\ Calls(m) = Calls(reply)
          /\ m.requests = reply.requests \union {d + 1}
          /\ DOMAIN next = 1 .. Len(next)
      BY <1>3, <2>5, <2>6, <3>3, <3>5, <3>6
    <3>8. UniqueIdentities(next)
      BY <2>7, <3>5, <3>7, DrawnIsUnique
    <3>9. pc' \in Live /\ pc' \notin Fresh /\ pc' \notin Finishing /\ pc' \notin Tooling
          /\ pc' # "batch"
      BY <2>10 DEF Live, Fresh, Finishing, Streaming, Tooling
    <3>10. reply'.done = {} /\ reply'.skipped = {} /\ drawn' \in reply'.requests
      BY <1>3, <2>3, <2>5, <2>10
    <3>11. StageKnows'
      BY <3>9, <3>10 DEF StageKnows
    <3> QED
      BY <1>1, <1>2, <2>2, <2>4, <2>6, <2>8, <2>10, <3>4, <3>8, <3>9, <3>11, Writes
  <2> QED
    BY <1>6, <2>1, <2>2, <2>9, <2>10 DEF StartModelRequest, Store
<1> QED
  BY <1>4, <1>5, <1>6 DEF Admit

LEMMA SendKeeps == ASSUME AgentInv, Send PROVE AgentInv'
<1>1. /\ pc = "send" /\ UNCHANGED <<phases, summaries, drawn, ran>>
  BY DEF Send, written
<1>2. pc \in Live
  BY <1>1 DEF Live, Streaming
<1>3. CASE EndWith("Cancelled", reply) /\ UNCHANGED sent
  <2>1. EndsWith("Cancelled", reply)
    BY <1>1, <1>3 DEF EndWith, EndsWith
  <2> QED
    BY <1>1, <1>2, <1>3, <2>1, Undisturbed, EndsAsHeld
<1>4. CASE Goto("stream") /\ sent' = sent \union {drawn}
  <2>1. pc' = "stream" /\ UNCHANGED <<reply, ended>>
    BY <1>4 DEF Goto
  <2>2. AgentTyped'
    BY <1>1, <2>1 DEF AgentInv, AgentTyped
  <2>3. LiveRecord(phases, reply, ran, sent, summaries) /\ drawn \in reply.requests
    BY <1>1, <1>2 DEF AgentInv, LiveKeeps, StageKnows
  <2>4. \E i \in DOMAIN phases : drawn \in phases[i].requests
    <3>1. drawn \in phases[Len(phases)].requests
      BY <2>3 DEF LiveRecord, Mirrors
    <3>2. Len(phases) \in DOMAIN phases
      BY <2>3 DEF LiveRecord, AgentInv, AgentTyped
    <3> QED
      BY <3>1, <3>2
  <2>5. LiveRecord(phases, reply, ran, sent', summaries)
    BY <1>4, <2>3, <2>4, CountedLives
  <2>6. LiveKeeps'
    BY <1>1, <2>1, <2>5 DEF LiveKeeps
  <2>7. /\ pc' \in Live /\ pc' \in Streaming /\ pc \in Streaming /\ pc' \notin Fresh
        /\ pc' \notin Finishing /\ pc' \notin Tooling /\ pc' # "batch" /\ pc' # "send"
    BY <1>1, <2>1 DEF Live, Fresh, Streaming, Finishing, Tooling
  <2>8. StageKnows'
    BY <2>1, <2>7 DEF AgentInv, StageKnows
  <2>9. EndKeeps' /\ OverKeeps'
    BY <2>7, Stages DEF EndKeeps, OverKeeps
  <2> QED
    BY <2>2, <2>6, <2>8, <2>9 DEF AgentInv
<1> QED
  BY <1>3, <1>4 DEF Send

LEMMA ReceiveKeeps == ASSUME AgentInv, Receive PROVE AgentInv'
<1>1. /\ pc = "stream" /\ Quiet
  BY DEF Receive, Quiet, history
<1>2. /\ pc \in Live /\ pc \in Streaming /\ "stream" \in Live /\ "stream" \in Streaming
      /\ "stream" \notin Fresh /\ "stream" \notin Finishing /\ "stream" \notin Tooling
  BY <1>1 DEF Live, Fresh, Streaming, Finishing, Tooling
<1>3. reply \in ReplySet(drawn) /\ reply.done = {} /\ reply.skipped = {}
  BY <1>2 DEF AgentInv, AgentTyped, StageKnows
<1>4. ASSUME NEW b \in ReplySet(drawn), b.text = TRUE \/ Calls(b) # {},
             b.done = {}, b.skipped = {}, b.requests = reply.requests,
             Checkpoint(b, "stream")
      PROVE  AgentInv'
  <2>1. Tells(b, ran) /\ Disjoint(b) /\ Holds(reply, b)
    BY <1>3, <1>4 DEF Tells, Disjoint, Holds
  <2>2. pc' = "stream" /\ reply' = b => StageKnows'
    BY <1>2, <1>4 DEF StageKnows
  <2> QED
    BY <1>1, <1>2, <1>4, <2>1, <2>2, CheckpointKeeps
<1>5. CASE Checkpoint([reply EXCEPT !.text = TRUE], "stream")
  <2>1. PICK b : b = [reply EXCEPT !.text = TRUE]
    OBVIOUS
  <2>2. /\ b \in ReplySet(drawn) /\ b.text = TRUE /\ b.done = {} /\ b.skipped = {}
        /\ b.requests = reply.requests
    BY <1>3, <2>1 DEF ReplySet
  <2> QED
    BY <1>4, <1>5, <2>1, <2>2
<1>6. ASSUME NEW k \in Call, Checkpoint([reply EXCEPT !.open = @ \union {k}], "stream")
      PROVE  AgentInv'
  <2>1. PICK b : b = [reply EXCEPT !.open = @ \union {k}]
    OBVIOUS
  <2>2. /\ b \in ReplySet(drawn) /\ k \in b.open /\ b.done = {} /\ b.skipped = {}
        /\ b.requests = reply.requests
    BY <1>3, <2>1 DEF ReplySet
  <2>3. Calls(b) # {}
    BY <2>2 DEF Calls
  <2> QED
    BY <1>4, <1>6, <2>1, <2>2, <2>3
<1> QED
  BY <1>5, <1>6 DEF Receive

LEMMA StreamEndsKeeps == ASSUME AgentInv, StreamEnds PROVE AgentInv'
<1>1. /\ pc = "stream" /\ UNCHANGED <<phases, summaries, drawn, sent, ran>>
  BY DEF StreamEnds, Untouched, written, history
<1>2. pc \in Live /\ Counts
  BY <1>1, Undisturbed DEF Live, Streaming
<1>3. ASSUME NEW outcome \in {"Cancelled", "ProviderFailure"}, EndWith(outcome, reply)
      PROVE  AgentInv'
  <2>1. EndsWith(outcome, reply)
    BY <1>1, <1>3 DEF EndWith, EndsWith
  <2> QED
    BY <1>1, <1>2, <2>1, EndsAsHeld
<1>4. CASE pc' = "replied" /\ UNCHANGED <<reply, ended>>
  <2>1. /\ pc' \in Live /\ pc \in Streaming /\ pc' \notin Fresh /\ pc' \notin Finishing
        /\ pc' \notin Tooling /\ pc' # "batch" /\ pc' # "send"
    BY <1>1, <1>4 DEF Live, Fresh, Streaming, Finishing, Tooling
  <2> QED
    BY <1>1, <1>2, <1>4, <2>1, Moves
<1> QED
  BY <1>3, <1>4 DEF StreamEnds, EventRefused, Goto

LEMMA RetryKeeps ==
    ASSUME AgentInv, pc \in Streaming, Quiet, NEW wait, RetryAfter(wait)
    PROVE  AgentInv'
<1>1. pc \in Live
  BY DEF Live
<1>2. /\ drawn \in Nat /\ reply \in ReplySet(drawn)
      /\ reply.done = {} /\ reply.skipped = {}
  BY DEF AgentInv, AgentTyped, StageKnows
<1>3. PICK c : c = [NoReply EXCEPT !.text = reply.text, !.requests = reply.requests]
  OBVIOUS
<1>4. /\ c \in ReplySet(drawn) /\ c.requests = reply.requests
      /\ c.open = {} /\ c.done = {} /\ c.skipped = {}
  BY <1>2, <1>3 DEF ReplySet, NoReply
<1>5. PICK m : m = Phase("Failed", c)
  OBVIOUS
<1>6. /\ m \in MessageSet(drawn) /\ m.requests = reply.requests
      /\ m.open = {} /\ m.done = {} /\ m.skipped = {} /\ m.status = "Failed"
  BY <1>2, <1>4, <1>5, PhaseFields DEF Statuses
<1>7. Settling(m)
  BY <1>2, <1>6 DEF Settling, Tells, Calls
<1>8. CASE phases' = WithLast(m) \o <<Pending>> /\ reply' = NoReply
           /\ pc' = "provider" /\ UNCHANGED ended
  BY <1>1, <1>6, <1>7, <1>8, NextPhaseKeeps
<1>9. CASE StoreFailed(WithLast(m) \o <<Pending>>, reply)
  <2>1. /\ phases' \in {phases, WithLast(m) \o <<Pending>>}
        /\ EndsWith("PersistenceFailure", reply)
    BY <1>9 DEF StoreFailed, EndsWith, EndWith, Quiet
  <2> QED
    BY <1>1, <1>6, <1>7, <2>1, EndsWithNextPhase
<1> QED
  BY <1>3, <1>5, <1>8, <1>9 DEF RetryAfter, Store

LEMMA OverflowKeeps == ASSUME AgentInv, Overflow PROVE AgentInv'
<1>1. pc = "stream" /\ Quiet
  BY DEF Overflow, Quiet, history
<1>2. pc \in Live /\ pc \in Streaming
  BY <1>1 DEF Live, Streaming
<1>3. CASE RecoverFromOverflow
  BY <1>1, <1>2, <1>3, RetryKeeps DEF RecoverFromOverflow
<1>4. CASE EndWith("ContextBlocked", reply) /\ UNCHANGED phases
  <2>1. Counts /\ EndsWith("ContextBlocked", reply)
    BY <1>1, <1>4 DEF EndWith, EndsWith, Quiet, Counts
  <2> QED
    BY <1>2, <1>4, <2>1, EndsAsHeld
<1> QED
  BY <1>3, <1>4 DEF Overflow

LEMMA ProviderFailsKeeps == ASSUME AgentInv, ProviderFails PROVE AgentInv'
<1>1. pc = "stream" /\ Quiet /\ RetryRequest
  BY DEF ProviderFails, Quiet, history
<1>2. pc \in Live /\ pc \in Streaming
  BY <1>1 DEF Live, Streaming
<1> QED
  BY <1>1, <1>2, RetryKeeps DEF RetryRequest

LEMMA RepliedKeeps == ASSUME AgentInv, Replied PROVE AgentInv'
<1>1. pc = "replied" /\ Quiet
  BY DEF Replied, Quiet, history
<1>2. pc \in Live /\ pc \in Streaming
  BY <1>1 DEF Live, Streaming
<1>3. reply \in ReplySet(drawn) /\ reply.done = {} /\ reply.skipped = {}
  BY <1>2 DEF AgentInv, AgentTyped, StageKnows
<1>4. Counts
  BY <1>1 DEF Quiet, Counts
<1>5. ASSUME NEW outcome \in {"Cancelled", "ProviderFailure"},
             EndWith(outcome, reply), UNCHANGED phases
      PROVE  AgentInv'
  <2>1. EndsWith(outcome, reply)
    BY <1>1, <1>5 DEF EndWith, EndsWith, Quiet
  <2> QED
    BY <1>2, <1>4, <1>5, <2>1, EndsAsHeld
<1>6. CASE RetryRequest
  BY <1>1, <1>2, <1>6, RetryKeeps DEF RetryRequest
<1>7. CASE /\ reply.open = {} /\ reply.text /\ UNCHANGED <<phases, reply, ended>>
           /\ pc' \in {"compactThenSteer", "steer"}
  <2>1. /\ pc' \in Live /\ pc' \notin Fresh /\ pc' \notin Tooling /\ pc' # "batch"
        /\ pc' # "send"
    BY <1>7 DEF Live, Fresh, Streaming, Finishing, Tooling
  <2>2. ran' = ran
    BY <1>1 DEF Quiet
  <2>3. reply.text = TRUE
    BY <1>3, <1>7 DEF ReplySet
  <2> QED
    BY <1>2, <1>4, <1>7, <2>1, <2>2, <2>3, Moves
<1>8. CASE BeginTools
  <2>1. reply.open # {} /\ Checkpoint(reply, "tools")
    BY <1>8 DEF BeginTools
  <2>2. Calls(reply) # {}
    BY <2>1 DEF Calls
  <2>3. Tells(reply, ran) /\ Disjoint(reply) /\ Holds(reply, reply)
    BY <1>3 DEF Tells, Disjoint, Holds
  <2>4. /\ "tools" \in Live /\ "tools" \notin Fresh /\ "tools" \notin Streaming
        /\ "tools" \notin Finishing
    BY DEF Live, Fresh, Streaming, Finishing, Tooling
  <2>5. pc' = "tools" /\ reply' = reply => StageKnows'
    BY <2>2, <2>4 DEF StageKnows, Calls
  <2> QED
    BY <1>1, <1>2, <1>3, <2>1, <2>2, <2>3, <2>4, <2>5, CheckpointKeeps
<1> QED
  BY <1>5, <1>6, <1>7, <1>8 DEF Replied, Goto

-----------------------------------------------------------------------------
(* The steps that run tools.                                               *)
LEMMA NoneLeft ==
    ASSUME AgentInv, pc \in Live, NEW b, b = NotDispatched(reply)
    PROVE  /\ b \in ReplySet(drawn) /\ Calls(b) = Calls(reply) /\ b.open = {}
           /\ Tells(b, ran) /\ Disjoint(b) /\ Holds(reply, b)
<1>1. /\ reply \in ReplySet(drawn) /\ phases \in Seq(MessageSet(drawn))
      /\ ran \in [Call -> {0, 1}] /\ LiveRecord(phases, reply, ran, sent, summaries)
  BY DEF AgentInv, AgentTyped, LiveKeeps
<1>2. /\ b \in ReplySet(drawn) /\ b.open = {} /\ b.done = reply.done
      /\ b.requests = reply.requests /\ b.skipped = reply.skipped \union reply.open
  BY <1>1 DEF NotDispatched, ReplySet
<1>3. Calls(b) = Calls(reply)
  BY <1>2 DEF Calls
<1>4. Disjoint(b) /\ Holds(reply, b)
  BY <1>2 DEF Disjoint, Holds
<1>5. ASSUME NEW k \in reply.open
      PROVE  ran[k] = 0
  <2>1. k \in Call
    BY <1>1 DEF ReplySet
  <2> QED
    BY <1>1, <2>1, OpenHasNotRun
<1>6. Tells(reply, ran)
  BY <1>1 DEF LiveRecord
<1>7. Tells(b, ran)
  BY <1>2, <1>5, <1>6 DEF Tells
<1> QED
  BY <1>2, <1>3, <1>4, <1>7

LEMMA DispatchKeeps == ASSUME AgentInv, Dispatch PROVE AgentInv'
<1>1. /\ pc = "tools" /\ pc' = "running"
      /\ UNCHANGED <<phases, summaries, ended, drawn, sent>>
  BY DEF Dispatch, written
<1>2. /\ pc \in Live /\ pc' \in Live /\ pc' \in Tooling /\ pc \in Tooling
      /\ pc' \notin Fresh /\ pc' \notin Streaming /\ pc' \notin Finishing
  BY <1>1 DEF Live, Fresh, Streaming, Finishing, Tooling
<1>3. /\ drawn \in Nat /\ reply \in ReplySet(drawn) /\ phases \in Seq(MessageSet(drawn))
      /\ ran \in [Call -> {0, 1}] /\ LiveRecord(phases, reply, ran, sent, summaries)
      /\ AllTell(phases, ran) /\ ended.answer \in ReplySet(drawn)
  BY <1>2 DEF AgentInv, AgentTyped, LiveKeeps
<1>4. PICK k \in reply.open :
         /\ ran' = [ran EXCEPT ![k] = @ + 1]
         /\ reply' = [reply EXCEPT !.open = @ \ {k}, !.done = @ \union {k}]
  BY DEF Dispatch
<1>5. k \in Call
  BY <1>3 DEF ReplySet
<1>6. ran' = Ran(ran, k)
  BY <1>4 DEF Ran
<1>7. reply' \in ReplySet(drawn) /\ Begun(reply, k, reply')
  BY <1>3, <1>4, <1>5 DEF ReplySet, Begun
<1>8. PICK b : b = reply'
  OBVIOUS
<1>9. /\ LiveRecord(phases, b, Ran(ran, k), sent, summaries)
      /\ AllTell(phases, Ran(ran, k)) /\ Ran(ran, k) \in [Call -> {0, 1}]
  <2>1. Begun(reply, k, b)
    BY <1>7, <1>8
  <2> QED
    BY <1>3, <1>5, <2>1, DispatchLives
<1>10. AgentTyped'
  BY <1>1, <1>3, <1>6, <1>7, <1>9 DEF AgentTyped
<1>11. LiveKeeps'
  BY <1>1, <1>6, <1>8, <1>9 DEF LiveKeeps
<1>12. k \in reply'.done
  BY <1>7 DEF Begun
<1>13. StageKnows'
  BY <1>1, <1>2, <1>12 DEF StageKnows, Calls
<1>14. EndKeeps' /\ OverKeeps'
  BY <1>2, Stages DEF EndKeeps, OverKeeps
<1> QED
  BY <1>10, <1>11, <1>13, <1>14 DEF AgentInv

LEMMA DispatchBlockedKeeps == ASSUME AgentInv, DispatchBlocked PROVE AgentInv'
<1>1. pc = "tools" /\ Quiet /\ Checkpoint(NotDispatched(reply), "batch")
  BY DEF DispatchBlocked, Quiet, history
<1>2. /\ pc \in Live /\ pc \in Tooling /\ "batch" \in Live /\ "batch" \notin Fresh
      /\ "batch" \notin Streaming /\ "batch" \notin Finishing
  BY <1>1 DEF Live, Fresh, Streaming, Finishing, Tooling
<1>3. PICK b : b = NotDispatched(reply)
  OBVIOUS
<1>4. /\ b \in ReplySet(drawn) /\ Calls(b) = Calls(reply) /\ b.open = {}
      /\ Tells(b, ran) /\ Disjoint(b) /\ Holds(reply, b)
  BY <1>2, <1>3, NoneLeft
<1>5. Calls(b) # {}
  BY <1>2, <1>4 DEF AgentInv, StageKnows
<1>6. pc' = "batch" /\ reply' = b => StageKnows'
  BY <1>2, <1>4, <1>5 DEF StageKnows, Calls
<1> QED
  BY <1>1, <1>2, <1>3, <1>4, <1>5, <1>6, CheckpointKeeps

LEMMA ToolReturnsKeeps == ASSUME AgentInv, ToolReturns PROVE AgentInv'
<1>1. pc = "running" /\ Quiet
  BY DEF ToolReturns, Quiet, history
<1>2. pc \in Live /\ pc \in Tooling
  BY <1>1 DEF Live, Tooling
<1>3. /\ reply \in ReplySet(drawn) /\ Calls(reply) # {}
      /\ LiveRecord(phases, reply, ran, sent, summaries)
  BY <1>2 DEF AgentInv, AgentTyped, LiveKeeps, StageKnows
<1>4. Tells(reply, ran) /\ Disjoint(reply) /\ Holds(reply, reply)
  BY <1>3 DEF LiveRecord, Holds
<1>5. ASSUME NEW label \in {"stopped", "tools", "failed"}, Checkpoint(reply, label)
      PROVE  AgentInv'
  <2>1. /\ label \in Live /\ label \in Tooling /\ label \notin Fresh
        /\ label \notin Streaming /\ label \notin Finishing /\ label # "batch"
        /\ label # "send"
    BY <1>5 DEF Live, Fresh, Streaming, Finishing, Tooling
  <2>2. pc' = label /\ reply' = reply => StageKnows'
    BY <1>3, <2>1 DEF StageKnows, Calls
  <2> QED
    BY <1>1, <1>2, <1>3, <1>4, <1>5, <2>1, <2>2, CheckpointKeeps
<1> QED
  BY <1>5 DEF ToolReturns

LEMMA SkipRestKeeps == ASSUME AgentInv, SkipRest PROVE AgentInv'
<1>1. pc \in {"stopped", "failed"} /\ Quiet
  BY DEF SkipRest, Quiet, history
<1>2. pc \in Live /\ Counts /\ drawn' = drawn /\ ran' = ran
  BY <1>1 DEF Live, Tooling, Quiet, Counts
<1>3. PICK b : b = NotDispatched(reply)
  OBVIOUS
<1>4. b \in ReplySet(drawn') /\ Tells(b, ran) /\ Holds(reply, b)
  BY <1>2, <1>3, NoneLeft
<1>5. ASSUME NEW outcome \in {"PersistenceFailure", "Cancelled", "ToolFailure"},
             EndWith(outcome, b), phases' \in {phases, WithLast(Phase("Pending", b))}
      PROVE  AgentInv'
  <2>1. EndsWith(outcome, b)
    BY <1>2, <1>5 DEF EndWith, EndsWith
  <2> QED
    BY <1>2, <1>4, <1>5, <2>1, EndsAsWritten
<1> QED
  BY <1>3, <1>5 DEF SkipRest, StoreFailed, Store

LEMMA BatchDoneKeeps == ASSUME AgentInv, BatchDone PROVE AgentInv'
<1>1. /\ pc = "tools" /\ pc' = "batch" /\ reply.open = {}
      /\ UNCHANGED <<phases, reply, summaries, ended, drawn, sent, ran>>
  BY DEF BatchDone, Goto, Untouched, written, history
<1>2. /\ pc \in Live /\ pc' \in Live /\ pc \in Tooling /\ pc' \notin Fresh
      /\ pc' \notin Streaming /\ pc' \notin Finishing /\ pc' # "send"
  BY <1>1 DEF Live, Fresh, Streaming, Finishing, Tooling
<1> QED
  BY <1>1, <1>2, Undisturbed, Moves

LEMMA NewPhaseKeeps ==
    ASSUME AgentInv, pc \in {"batch", "steer"}, Quiet,
           NewPhase(WithLast(Phase("Complete", reply)) \o <<Pending>>)
    PROVE  AgentInv'
<1>1. pc \in Live
  BY DEF Live, Streaming, Finishing, Tooling
<1>2. /\ drawn \in Nat /\ reply \in ReplySet(drawn) /\ reply.open = {}
      /\ LiveRecord(phases, reply, ran, sent, summaries)
  <2>1. reply.open = {}
    BY DEF AgentInv, StageKnows, Finishing
  <2> QED
    BY <1>1, <2>1 DEF AgentInv, AgentTyped, LiveKeeps
<1>3. PICK m : m = Phase("Complete", reply)
  OBVIOUS
<1>4. /\ m \in MessageSet(drawn) /\ m.requests = reply.requests /\ m.open = {}
      /\ m.done = reply.done /\ m.skipped = reply.skipped /\ Calls(m) = Calls(reply)
  BY <1>2, <1>3, PhaseFields DEF Statuses
<1>5. Tells(reply, ran)
  BY <1>2 DEF LiveRecord
<1>6. Settling(m)
  BY <1>4, <1>5 DEF Settling, Tells
<1>7. CASE phases' = WithLast(m) \o <<Pending>> /\ pc' = "round" /\ reply' = NoReply
           /\ UNCHANGED ended
  BY <1>1, <1>4, <1>6, <1>7, NextPhaseKeeps
<1>8. ASSUME NEW outcome \in {"ContextBlocked", "PersistenceFailure"},
             phases' \in {phases, WithLast(m) \o <<Pending>>}, EndWith(outcome, reply)
      PROVE  AgentInv'
  <2>1. EndsWith(outcome, reply)
    BY <1>8 DEF EndsWith, EndWith, Quiet
  <2> QED
    BY <1>1, <1>4, <1>6, <1>8, <2>1, EndsWithNextPhase
<1> QED
  BY <1>3, <1>7, <1>8 DEF NewPhase, Store, StoreFailed

LEMMA BatchKeeps == ASSUME AgentInv, Batch PROVE AgentInv'
<1>1. pc = "batch" /\ Quiet
  BY DEF Batch, Quiet, history
<1>2. pc \in Live /\ reply.open = {}
  BY <1>1 DEF AgentInv, StageKnows, Live, Tooling
<1>3. CASE Paused(reply) /\ UNCHANGED phases
  <2>1. PICK outcome \in {"Cancelled", "BudgetExhausted"} : EndsWith(outcome, reply)
    BY <1>1, <1>3 DEF Paused, EndWith, EndsWith, Quiet
  <2>2. Counts
    BY <1>1 DEF Quiet, Counts
  <2> QED
    BY <1>1, <1>2, <1>3, <2>1, <2>2, EndsAsHeld
<1>4. CASE NewPhase(WithLast(Phase("Complete", reply)) \o <<Pending>>)
  BY <1>1, <1>4, NewPhaseKeeps
<1> QED
  BY <1>3, <1>4 DEF Batch, DeliverSteering, SettleBatch

LEMMA SteerKeeps == ASSUME AgentInv, Steer PROVE AgentInv'
<1>1. pc = "steer" /\ Quiet
  BY DEF Steer, Quiet, history
<1>2. pc \in Live /\ reply.open = {}
  BY <1>1 DEF AgentInv, StageKnows, Live, Streaming, Finishing
<1>3. CASE EndWith("Completed", reply) /\ UNCHANGED phases
  <2>1. EndsWith("Completed", reply) /\ Counts
    BY <1>1, <1>3 DEF EndWith, EndsWith, Quiet, Counts
  <2> QED
    BY <1>2, <1>3, <2>1, EndsAsHeld
<1>4. CASE NewPhase(WithLast(Phase("Complete", reply)) \o <<Pending>>)
  BY <1>1, <1>4, NewPhaseKeeps
<1> QED
  BY <1>3, <1>4 DEF Steer, DeliverSteering

-----------------------------------------------------------------------------
(* The settlement, and the end of the process.                             *)
LEMMA SettledKeeps ==
    ASSUME AgentInv, pc = "ended", NEW next, next = Settled
    PROVE  /\ next \in Seq(MessageSet(drawn)) /\ AllTell(next, ran)
           /\ RanIsRecorded(next, ran)
           /\ AnswersNothing \/ SentIsIn(next, sent, summaries)
<1>1. /\ drawn \in Nat /\ phases \in Seq(MessageSet(drawn)) /\ AllTell(phases, ran)
      /\ ended.answer \in ReplySet(drawn)
  BY DEF AgentInv, AgentTyped
<1>2. /\ EndRecord(phases, ended.answer, ran, sent, summaries)
      /\ AnswersNothing \/ SentIsAnswered(phases, ended.answer, sent, summaries)
      /\ EndFits(ended.outcome, ended.answer, phases)
  BY DEF AgentInv, EndKeeps
<1>3. PICK a : a = ended.answer
  OBVIOUS
<1>4. PICK n \in Nat : n = drawn
  BY <1>1
<1>5. /\ phases \in Seq(MessageSet(n)) /\ phases # <<>> /\ a \in ReplySet(n)
      /\ EndRecord(phases, a, ran, sent, summaries) /\ Tells(a, ran)
  BY <1>1, <1>2, <1>3, <1>4 DEF EndRecord
<1>6. CASE /\ ended.outcome = "BudgetExhausted" /\ IsEmpty(ended.answer)
           /\ next = Front(phases)
  <2>1. Calls(phases[Len(phases)]) = {} /\ phases[Len(phases)].requests = {}
    BY <1>2, <1>6 DEF EndFits
  <2>2. /\ next \in Seq(MessageSet(n)) /\ Len(next) = Len(phases) - 1
        /\ \A i \in 1 .. Len(phases) - 1 : next[i] = phases[i]
    <3>1. PICK l \in Nat : l = Len(phases) /\ l >= 1
      BY <1>5
    <3>2. next = SubSeq(phases, 1, l - 1)
      BY <1>6, <3>1 DEF Front
    <3> QED
      BY <1>5, <3>1, <3>2
  <2>3. RanIsRecorded(next, ran) /\ SentIsIn(next, sent, summaries)
    BY <1>5, <2>1, <2>2, DropKeeps
  <2>4. /\ Len(phases) \in Nat /\ DOMAIN phases = 1 .. Len(phases)
        /\ DOMAIN next = 1 .. Len(phases) - 1
    BY <1>5, <2>2
  <2>5. AllTell(next, ran)
    <3>1. ASSUME NEW i \in DOMAIN next
          PROVE  i \in DOMAIN phases /\ next[i] = phases[i]
      BY <2>2, <2>4
    <3> QED
      BY <1>1, <3>1 DEF AllTell
  <2> QED
    BY <1>4, <2>2, <2>3, <2>5
<1>7. CASE next = WithLast(Phase(Status, ended.answer))
  <2>1. PICK status : status = Status
    OBVIOUS
  <2>2. status \in Statuses /\ (status = "Complete" => a.open = {})
    BY <1>2, <1>3, <2>1 DEF Status, Statuses, EndFits
  <2>3. PICK m : m = Phase(status, a)
    OBVIOUS
  <2>4. /\ m \in MessageSet(n) /\ m.requests = a.requests /\ m.open = a.open
        /\ m.done = a.done /\ m.skipped = a.skipped /\ Calls(m) = Calls(a)
        /\ m.status = status
    BY <1>5, <2>2, <2>3, PhaseFields
  <2>5. next = WithLast(m)
    BY <1>3, <1>7, <2>1, <2>3
  <2>6. next \in Seq(MessageSet(n)) /\ Replaced(phases, m, next)
    <3>1. m \in MessageSet(n) /\ phases \in Seq(MessageSet(n)) /\ phases # <<>>
      BY <1>5, <2>4
    <3>2. PICK w : w = [phases EXCEPT ![Len(phases)] = m]
      OBVIOUS
    <3>3. w \in Seq(MessageSet(n)) /\ Replaced(phases, m, w)
      BY <3>1, <3>2, LastIsReplaced
    <3>4. next = w
      BY <2>5, <3>2 DEF WithLast
    <3> QED
      BY <3>3, <3>4
  <2>7. Tells(m, ran)
    BY <1>5, <2>4 DEF Tells
  <2>8. AllTell(next, ran)
    BY <1>1, <1>5, <2>2, <2>4, <2>6, <2>7, ReplacedTells
  <2>9. /\ RanIsRecorded(next, ran)
        /\ SentIsAnswered(phases, a, sent, summaries) => SentIsIn(next, sent, summaries)
    BY <1>5, <2>4, <2>6, SettlementKeeps
  <2> QED
    BY <1>2, <1>3, <1>4, <2>6, <2>8, <2>9
<1> QED
  BY <1>6, <1>7 DEF Settled

LEMMA IsOver ==
    ASSUME AgentInv, pc' \in Over, UNCHANGED <<reply, summaries, ended, drawn, sent, ran>>,
           phases' \in Seq(MessageSet(drawn)), AllTell(phases', ran),
           RanIsRecorded(phases', ran),
           AnswersNothing \/ SentIsIn(phases', sent, summaries)
    PROVE  AgentInv'
<1>1. AgentTyped'
  BY DEF AgentInv, AgentTyped
<1>2. /\ pc' \notin Live /\ pc' # "ended" /\ pc' \notin Fresh /\ pc' \notin Streaming
      /\ pc' \notin Finishing /\ pc' \notin Tooling /\ pc' # "batch" /\ pc' # "send"
  BY DEF Live, Fresh, Streaming, Finishing, Tooling, Over
<1>3. StageKnows'
  BY <1>2 DEF StageKnows
<1>4. LiveKeeps' /\ EndKeeps'
  BY <1>2 DEF LiveKeeps, EndKeeps
<1>5. OverKeeps'
  BY DEF OverKeeps, AnswersNothing
<1> QED
  BY <1>1, <1>3, <1>4, <1>5 DEF AgentInv

LEMMA SettleKeeps == ASSUME AgentInv, Settle PROVE AgentInv'
<1>1. /\ pc = "ended" /\ pc' \in Over
      /\ UNCHANGED <<reply, summaries, ended, drawn, sent, ran>>
      /\ phases' = phases \/ phases' = Settled
  BY DEF Settle, Over, history
<1>2. CASE phases' = phases
  <2>1. phases \in Seq(MessageSet(drawn)) /\ AllTell(phases, ran)
    BY DEF AgentInv, AgentTyped
  <2>2. RanIsRecorded(phases, ran) /\ SentIsIn(phases, sent, summaries)
    BY <1>1 DEF AgentInv, EndKeeps, EndRecord
  <2> QED
    BY <1>1, <1>2, <2>1, <2>2, IsOver
<1>3. CASE phases' = Settled
  <2>1. PICK next : next = Settled
    OBVIOUS
  <2>2. /\ next \in Seq(MessageSet(drawn)) /\ AllTell(next, ran)
        /\ RanIsRecorded(next, ran)
        /\ AnswersNothing \/ SentIsIn(next, sent, summaries)
    BY <1>1, <2>1, SettledKeeps
  <2> QED
    BY <1>1, <1>3, <2>1, <2>2, IsOver
<1> QED
  BY <1>1, <1>2, <1>3

(* What no message loses: the record that every point of the loop keeps.   *)
LEMMA Recorded ==
    ASSUME AgentInv
    PROVE  /\ RanIsRecorded(phases, ran)
           /\ \/ pc \in Over /\ AnswersNothing
              \/ SentIsIn(phases, sent, summaries)
<1>1. CASE pc \in Live
  <2>1. LiveRecord(phases, reply, ran, sent, summaries)
        /\ phases \in Seq(MessageSet(drawn))
    BY <1>1 DEF AgentInv, LiveKeeps, AgentTyped
  <2>2. RanIsRecorded(phases, ran)
    BY <2>1, LiveIsRecorded
  <2>3. SentIsIn(phases, sent, summaries)
    BY <2>1 DEF LiveRecord
  <2> QED
    BY <2>2, <2>3
<1>2. CASE pc = "ended"
  BY <1>2 DEF AgentInv, EndKeeps, EndRecord
<1>3. CASE pc \in Over
  BY <1>3 DEF AgentInv, OverKeeps
<1> QED
  BY <1>1, <1>2, <1>3 DEF AgentInv, StageKnows

LEMMA CrashKeeps == ASSUME AgentInv, CrashAndRestart PROVE AgentInv'
<1>1. /\ pc' = "down" /\ pc' \in Over
      /\ UNCHANGED <<reply, summaries, ended, drawn, sent, ran>>
  BY DEF CrashAndRestart, Over, history
<1>2. phases \in Seq(MessageSet(drawn)) /\ AllTell(phases, ran)
  BY DEF AgentInv, AgentTyped
<1>3. PICK next : next = [i \in DOMAIN phases |->
                            IF phases[i].status = "Pending"
                            THEN [phases[i] EXCEPT !.status = "Interrupted"]
                            ELSE phases[i]]
  OBVIOUS
<1>4. PICK l \in Nat : l = Len(phases) /\ DOMAIN phases = 1 .. l
  BY <1>2
<1>5. DOMAIN next = 1 .. l
  BY <1>3, <1>4
<1>6. ASSUME NEW i \in 1 .. l
      PROVE  /\ next[i] \in MessageSet(drawn)
             /\ next[i].requests = phases[i].requests /\ next[i].open = phases[i].open
             /\ next[i].done = phases[i].done /\ next[i].skipped = phases[i].skipped
             /\ next[i].status \in {phases[i].status, "Interrupted"}
  <2>1. PICK m : m = phases[i]
    OBVIOUS
  <2>2. m \in MessageSet(drawn)
    BY <1>2, <1>4, <2>1
  <2>3. next[i] = IF m.status = "Pending" THEN [m EXCEPT !.status = "Interrupted"]
                                           ELSE m
    BY <1>3, <1>4, <2>1
  <2>4. PICK w : w = [m EXCEPT !.status = "Interrupted"]
    OBVIOUS
  <2>5. /\ w \in MessageSet(drawn) /\ w.requests = m.requests /\ w.open = m.open
        /\ w.done = m.done /\ w.skipped = m.skipped /\ w.status = "Interrupted"
    BY <2>2, <2>4 DEF MessageSet, Statuses
  <2>6. next[i] = w \/ next[i] = m
    BY <2>3, <2>4
  <2> QED
    BY <2>1, <2>2, <2>5, <2>6
<1>7. next \in [1 .. l -> MessageSet(drawn)]
  BY <1>3, <1>4, <1>5, <1>6
<1>8. next \in Seq(MessageSet(drawn))
  BY <1>7, SeqDef
<1>9. AllTell(next, ran)
  <2>1. ASSUME NEW i \in 1 .. l
        PROVE  Tells(next[i], ran) /\ (next[i].status = "Complete" => next[i].open = {})
    <3>1. Tells(phases[i], ran) /\ (phases[i].status = "Complete" => phases[i].open = {})
      BY <1>2, <1>4 DEF AllTell
    <3> QED
      BY <1>6, <3>1 DEF Tells
  <2> QED
    BY <1>5, <2>1 DEF AllTell
<1>10. \A i \in 1 .. l : Calls(next[i]) = Calls(phases[i])
  BY <1>6 DEF Calls
<1>11. RanIsRecorded(next, ran)
  BY <1>4, <1>5, <1>10, Recorded DEF RanIsRecorded
<1>12. AnswersNothing \/ SentIsIn(next, sent, summaries)
  BY <1>4, <1>5, <1>6, Recorded DEF SentIsIn
<1>13. phases' = next
  BY <1>3 DEF CrashAndRestart
<1> QED
  BY <1>1, <1>8, <1>9, <1>11, <1>12, <1>13, IsOver

LEMMA AgentInvSteps ==
    ASSUME AgentInv, [AgentNext]_agentVars
    PROVE  AgentInv'
<1>1. CASE UNCHANGED agentVars
  <2>1. UNCHANGED <<pc, reply, phases, summaries, ended, drawn, sent, ran>>
    BY <1>1 DEF agentVars, written, history
  <2> QED
    BY <2>1 DEF AgentInv, AgentTyped, StageKnows, LiveKeeps, EndKeeps, OverKeeps,
                AnswersNothing
<1>2. CASE TimeIsUp \/ Stop \/ Round \/ Attempt \/ FitContext \/ Summarise
  BY <1>2, TimeIsUpKeeps, StopKeeps, RoundKeeps, AttemptKeeps, FitContextKeeps,
     SummariseKeeps
<1>3. CASE CommitCompaction \/ Admit \/ Send \/ Receive \/ StreamEnds \/ Overflow
  BY <1>3, CommitCompactionKeeps, AdmitKeeps, SendKeeps, ReceiveKeeps, StreamEndsKeeps,
     OverflowKeeps
<1>4. CASE ProviderFails \/ Replied \/ Dispatch \/ DispatchBlocked \/ ToolReturns
  BY <1>4, ProviderFailsKeeps, RepliedKeeps, DispatchKeeps, DispatchBlockedKeeps,
     ToolReturnsKeeps
<1>5. CASE SkipRest \/ BatchDone \/ Batch \/ Steer \/ Settle \/ CrashAndRestart
  BY <1>5, SkipRestKeeps, BatchDoneKeeps, BatchKeeps, SteerKeeps, SettleKeeps,
     CrashKeeps
<1> QED
  BY <1>1, <1>2, <1>3, <1>4, <1>5 DEF AgentNext

(* The invariant is kept by every step of the loop, of its settlement and  *)
(* of a restart.                                                           *)
THEOREM AgentInvHolds == AgentSpec => []AgentInv
<1>1. AgentInit => AgentInv
  BY AgentInvStarts
<1>2. AgentInv /\ [AgentNext]_agentVars => AgentInv'
  BY AgentInvSteps
<1> QED
  BY <1>1, <1>2, PTL DEF AgentSpec

-----------------------------------------------------------------------------
LEMMA EffectsFollow == ASSUME AgentInv PROVE EffectsAreRecorded
<1>1. ran \in [Call -> {0, 1}] /\ phases \in Seq(MessageSet(drawn)) /\ AllTell(phases, ran)
  BY DEF AgentInv, AgentTyped
<1>2. RanIsRecorded(phases, ran)
  BY Recorded
<1>3. ASSUME NEW k \in Call
      PROVE  ran[k] <= 1 /\ (ran[k] = 1 => k \in CallsOf(phases))
  <2>1. ran[k] \in {0, 1}
    BY <1>1
  <2>2. ran[k] = 1 => k \in CallsOf(phases)
    BY <1>2 DEF RanIsRecorded, CallsOf
  <2> QED
    BY <2>1, <2>2
<1>4. \A i \in DOMAIN phases :
         /\ \A k \in phases[i].done : ran[k] = 1
         /\ phases[i].status = "Complete" => phases[i].open = {}
  BY <1>1 DEF AllTell, Tells
<1>5. \A k \in CallsIn("skipped") : ran[k] = 0
  BY <1>1 DEF CallsIn, AllTell, Tells
<1> QED
  BY <1>3, <1>4, <1>5 DEF EffectsAreRecorded

LEMMA RequestsFollow == ASSUME AgentInv PROVE RequestsAreKept
<1>1. CASE SentIsIn(phases, sent, summaries)
  BY <1>1 DEF SentIsIn, RequestsAreKept, Requests
<1>2. CASE pc \in Over /\ AnswersNothing
  BY <1>2 DEF Over, AnswersNothing, LostReply, RequestsAreKept
<1> QED
  BY <1>1, <1>2, Recorded

(* A tool runs at most once for a call, a call that ran is in the          *)
(* conversation as done, one reported as not dispatched did not run, and   *)
(* every request that reached a provider is in a message or a summary of   *)
(* it, but for the reply a stopped compaction drops, at every state of     *)
(* run_agent_action, its settlement and a restart, whichever writes fail.  *)
THEOREM WorkIsAlwaysRecorded == AgentSpec => []WorkIsRecorded
<1>1. AgentInv => WorkIsRecorded
  BY EffectsFollow, RequestsFollow DEF WorkIsRecorded
<1> QED
  BY <1>1, AgentInvHolds, PTL

-----------------------------------------------------------------------------
(* Provider vault: types, and what a label says about the change.          *)
Entry == [auth : {"none", "key", "plan"}, of : Int]
VaultFiles == [vault : Entry, final : Int, marker : Int, backup : Int,
               staged : [SignIn -> Int]]
VaultChange == [name : {"none", "insert", "install", "forget"}, previous : Entry,
                bytes : Int, of : Int, rollback : BOOLEAN]
AttemptState == {"none", "polling", "writing", "written", "orphan", "gone"}

InsertSteps == {"insert: remove", "insert: restore"}
InstallSteps == {"install: rename", "install: commit", "install: clean",
                 "install: rollback", "install: return", "install: backup"}
ForgetSteps == {"forget: return", "forget: commit", "forget: marker",
                "forget: final", "forget: rollback"}
EndSteps == {"undo", "stored", "refused"}

LabelsMatch ==
    /\ step \in {"idle"} \union InsertSteps \union InstallSteps \union ForgetSteps
                  \union EndSteps
    /\ step \in InsertSteps => change.name = "insert"
    /\ step \in InstallSteps => change.name = "install"
    /\ step \in ForgetSteps => change.name = "forget"
    /\ step \in EndSteps => change.name \in {"insert", "install", "forget"}
    /\ step = "idle" => change = NoWork

VaultTypes ==
    /\ unlocked \in BOOLEAN /\ quiet \in BOOLEAN
    /\ vault \in Entry
    /\ files \in VaultFiles
    /\ change \in VaultChange
    /\ generation \in 0 .. MaxSignIns
    /\ attempts \in [SignIn -> AttemptState]
    /\ refresh \in Int
    /\ keys \in Nat /\ vaultFaults \in Nat /\ crashes \in Nat

(* Nothing that was said to be stored is a plan without tokens.            *)
SaidHasTokens ==
    \A x \in said : x \in Entry /\ (x.auth = "plan" => x.of # NoFile)

(* The sign-in that is installed is the last one, so nobody discards it.   *)
InstallInv ==
    /\ change.name = "install" =>
          /\ unlocked
          /\ change.of \in SignIn /\ change.of = generation
          /\ attempts[change.of] = "written"
    /\ \A g \in SignIn :
          attempts[g] = "written" =>
              files.staged[g] = g \/ (change.name = "install" /\ change.of = g)
    /\ ~unlocked => /\ step = "idle"
                    /\ \A g \in SignIn : attempts[g] = "none"

-----------------------------------------------------------------------------
(* What the files are at each label, as long as at most one write failed   *)
(* or the server crashed once.  Before(p, t): the connection that was      *)
(* found has the entry p and the tokens t.                                 *)
Spared == vaultFaults + crashes <= 1 /\ quiet
Troubled == vaultFaults + crashes >= 1

Before(p, t) == Connection(p, t) \in said /\ (p # Plan => t = NoFile)
Found == change.previous
Stands(entry) == vault = entry /\ files.vault = entry
Unmoved == files.marker = NoFile /\ files.backup = NoFile

Down ==
    /\ Opens
    /\ Connection(files.vault,
                  IF files.final = NoFile THEN files.marker ELSE files.final) \in said

AtRest == Stands(files.vault) /\ Unmoved /\ Before(files.vault, files.final)

AtStored ==
    /\ Stands(files.vault) /\ Unmoved
    /\ Connection(files.vault, files.final) = Target
    /\ files.vault # Plan => files.final = NoFile

AtUndo == Troubled /\ Unmoved /\ Before(Found, files.final)

AtInsertRemove ==
    Stands(Key(change.of)) /\ Unmoved /\ Before(Found, files.final)
    /\ change.bytes = files.final

AtInsertRestore ==
    /\ Troubled /\ Stands(Key(change.of)) /\ Unmoved
    /\ Before(Found, change.bytes) /\ files.final \in {NoFile, change.bytes}

Installing == files.marker = NoFile /\ Before(Found, files.backup)

AtInstallRename ==
    /\ Installing /\ Stands(Found)
    /\ files.final = files.backup /\ files.staged[change.of] = change.of

AtInstallCommit == Installing /\ Stands(Found) /\ files.final = change.of

AtInstallClean == Installing /\ Stands(Plan) /\ files.final = change.of

AtInstallRollback == Troubled /\ Installing /\ files.final = change.of

AtInstallReturn ==
    /\ Troubled /\ Installing /\ Stands(Found)
    /\ \/ files.staged[change.of] = change.of /\ files.final = files.backup
       \/ files.staged[change.of] = NoFile /\ files.final = change.of

AtInstallBackup ==
    /\ Troubled /\ Installing
    /\ files.backup = NoFile => files.final = NoFile
    /\ change.rollback \/ Stands(Found)

AtForgetReturn ==
    /\ Troubled /\ Stands(Plan) /\ Found = Plan /\ files.backup = NoFile
    /\ \/ files.marker = NoFile /\ Before(Plan, files.final)
       \/ files.final = NoFile /\ Before(Plan, files.marker)

Forgetting == files.backup = NoFile /\ files.final = NoFile

AtForgetCommit == Forgetting /\ Stands(Found) /\ Before(Found, files.marker)

AtForgetMarker ==
    /\ Forgetting /\ Stands(Unconnected)
    /\ Found = Plan /\ files.marker = change.bytes /\ Before(Plan, change.bytes)

AtForgetFinal ==
    /\ Forgetting /\ Stands(Unconnected)
    /\ files.marker = NoFile /\ Before(Found, change.bytes)

AtForgetRollback ==
    /\ Troubled /\ Forgetting
    /\ files.marker \in {NoFile, change.bytes} /\ Before(Found, change.bytes)

AtEachStep ==
    /\ step \in {"idle", "refused"} => AtRest
    /\ step = "stored" => AtStored
    /\ step = "undo" => AtUndo
    /\ step = "insert: remove" => AtInsertRemove
    /\ step = "insert: restore" => AtInsertRestore
    /\ step = "install: rename" => AtInstallRename
    /\ step = "install: commit" => AtInstallCommit
    /\ step = "install: clean" => AtInstallClean
    /\ step = "install: rollback" => AtInstallRollback
    /\ step = "install: return" => AtInstallReturn
    /\ step = "install: backup" => AtInstallBackup
    /\ step = "forget: return" => AtForgetReturn
    /\ step = "forget: commit" => AtForgetCommit
    /\ step = "forget: marker" => AtForgetMarker
    /\ step = "forget: final" => AtForgetFinal
    /\ step = "forget: rollback" => AtForgetRollback

Whole == (unlocked => AtEachStep) /\ (~unlocked => Down)

VaultInv ==
    /\ VaultTypes /\ LabelsMatch /\ SaidHasTokens /\ InstallInv
    /\ Spared => Whole

-----------------------------------------------------------------------------
(* What the constructors are, so that the steps need not expand them.      *)
LEMMA VaultEntries ==
    /\ Unconnected \in Entry /\ Plan \in Entry /\ Unconnected # Plan
    /\ \A n \in Int : /\ Key(n) \in Entry /\ Key(n) # Plan
                      /\ PlanOf(n) \in Entry
                      /\ PlanOf(n).auth = "plan" /\ PlanOf(n).of = n
  BY DEF Unconnected, Plan, Key, PlanOf, Entry

LEMMA TokensWereSaid ==
    ASSUME SaidHasTokens, NEW t \in Int, Connection(Plan, t) \in said
    PROVE  t # NoFile
<1>1. PICK x : x = PlanOf(t)
  OBVIOUS
<1>2. x \in said /\ x.auth = "plan" /\ x.of = t
  BY <1>1, VaultEntries DEF Connection
<1> QED
  BY <1>2 DEF SaidHasTokens

LEMMA NoFileIsANumber == NoFile \in Int
  BY DEF NoFile

LEMMA FileFields ==
    ASSUME NEW f \in VaultFiles
    PROVE  /\ f.vault \in Entry /\ f.final \in Int /\ f.marker \in Int
           /\ f.backup \in Int /\ f.staged \in [SignIn -> Int]
  BY DEF VaultFiles

LEMMA FinalChanges ==
    ASSUME NEW f \in VaultFiles, NEW t \in Int
    PROVE  LET g == [f EXCEPT !.final = t] IN
           /\ g \in VaultFiles
           /\ g.vault = f.vault /\ g.final = t /\ g.marker = f.marker
           /\ g.backup = f.backup /\ g.staged = f.staged
  BY DEF VaultFiles

LEMMA VaultChanges ==
    ASSUME NEW f \in VaultFiles, NEW e \in Entry
    PROVE  LET g == [f EXCEPT !.vault = e] IN
           /\ g \in VaultFiles
           /\ g.vault = e /\ g.final = f.final /\ g.marker = f.marker
           /\ g.backup = f.backup /\ g.staged = f.staged
  BY DEF VaultFiles

LEMMA BackupChanges ==
    ASSUME NEW f \in VaultFiles, NEW t \in Int
    PROVE  LET g == [f EXCEPT !.backup = t] IN
           /\ g \in VaultFiles
           /\ g.vault = f.vault /\ g.final = f.final /\ g.marker = f.marker
           /\ g.backup = t /\ g.staged = f.staged
  BY DEF VaultFiles

LEMMA MarkerChanges ==
    ASSUME NEW f \in VaultFiles, NEW t \in Int
    PROVE  LET g == [f EXCEPT !.marker = t] IN
           /\ g \in VaultFiles
           /\ g.vault = f.vault /\ g.final = f.final /\ g.marker = t
           /\ g.backup = f.backup /\ g.staged = f.staged
  BY DEF VaultFiles

LEMMA StagedChanges ==
    ASSUME NEW f \in VaultFiles, NEW n \in SignIn, NEW t \in Int
    PROVE  LET g == [f EXCEPT !.staged[n] = t] IN
           /\ g \in VaultFiles
           /\ g.vault = f.vault /\ g.final = f.final /\ g.marker = f.marker
           /\ g.backup = f.backup /\ g.staged[n] = t
           /\ \A k \in SignIn : k # n => g.staged[k] = f.staged[k]
  BY DEF VaultFiles

LEMMA ChangeFields ==
    ASSUME NEW w \in VaultChange
    PROVE  /\ w.name \in {"none", "insert", "install", "forget"}
           /\ w.previous \in Entry /\ w.bytes \in Int /\ w.of \in Int
           /\ w.rollback \in BOOLEAN
  BY DEF VaultChange

LEMMA NoWorkIsAChange ==
    NoWork \in VaultChange /\ NoWork.name = "none"
  BY VaultEntries DEF NoWork, VaultChange, NoFile

-----------------------------------------------------------------------------
(* One write: what was wanted, or a failure that is counted.               *)
Outcome(changed, then, otherwise) ==
    /\ files' \in VaultFiles /\ vaultFaults' \in Nat /\ vaultFaults' >= vaultFaults
    /\ \/ step' = then /\ files' = changed
       \/ /\ step' = otherwise /\ files' \in {files, changed}
          /\ vaultFaults' >= 1 /\ vaultFaults' > vaultFaults

LEMMA DoHasOutcome ==
    ASSUME VaultTypes, NEW changed \in VaultFiles, NEW then, NEW otherwise,
           Do(changed, then, otherwise)
    PROVE  Outcome(changed, then, otherwise)
  BY DEF Do, Outcome, VaultTypes

Proceeded(then) ==
    /\ step' = then /\ files' = files /\ files' \in VaultFiles
    /\ vaultFaults' = vaultFaults /\ vaultFaults' \in Nat
    /\ vaultFaults' >= vaultFaults

LEMMA ProceedKeeps ==
    ASSUME VaultTypes, NEW then, Proceed(then)
    PROVE  Proceeded(then)
  BY DEF Proceed, VaultTypes, Proceeded

LEMMA BeginChanges ==
    ASSUME VaultTypes, NEW name \in {"insert", "install", "forget"}, NEW of \in Int,
           Begin(name, of)
    PROVE  /\ unlocked /\ step = "idle"
           /\ change' \in VaultChange
           /\ change'.name = name /\ change'.previous = vault
           /\ change'.of = of /\ change'.bytes = files.final
<1>1. unlocked /\ step = "idle"
  BY Zenon DEF Begin
<1>2. vault \in Entry /\ files.final \in Int
  BY FileFields DEF VaultTypes
<1>3. change' = [NoWork EXCEPT !.name = name, !.previous = vault, !.of = of,
                               !.bytes = files.final]
  BY Zenon DEF Begin
<1> QED
  BY <1>1, <1>2, <1>3, VaultEntries DEF NoWork, VaultChange, NoFile

(* The labels of a change.                                                 *)
LabelOf(name, label) ==
    \/ name \in {"insert", "install", "forget"} /\ label \in EndSteps
    \/ name = "insert" /\ label \in InsertSteps
    \/ name = "install" /\ label \in InstallSteps
    \/ name = "forget" /\ label \in ForgetSteps

LEMMA LabelsKeepMatching ==
    ASSUME LabelOf(change'.name, step')
    PROVE  LabelsMatch'
  BY DEF LabelOf, LabelsMatch, EndSteps, InsertSteps, InstallSteps, ForgetSteps

StagedKeeps ==
    \A g \in SignIn : \/ files'.staged[g] = files.staged[g]
                      \/ change.name = "install" /\ change.of = g

LEMMA SumsGrow ==
    ASSUME NEW a \in Nat, NEW b \in Nat, NEW c \in Nat, a >= b, a + c <= 1
    PROVE  b + c <= 1
  OBVIOUS

LEMMA SparedBefore ==
    ASSUME VaultTypes, vaultFaults' \in Nat, vaultFaults' >= vaultFaults,
           crashes' = crashes, quiet' = quiet, Spared'
    PROVE  Spared
<1>1. vaultFaults + crashes <= 1
  <2>1. vaultFaults' + crashes' <= 1
    BY Zenon DEF Spared
  <2>2. vaultFaults \in Nat /\ crashes \in Nat
    BY DEF VaultTypes
  <2> QED
    BY <2>1, <2>2, SumsGrow
<1>2. quiet
  BY Zenon DEF Spared
<1> QED
  BY <1>1, <1>2 DEF Spared

LEMMA ChangeContinues ==
    ASSUME VaultInv, unlocked, Same,
           change' \in VaultChange, change'.name = change.name,
           change'.of = change.of,
           LabelOf(change.name, step'),
           vault' \in Entry, files' \in VaultFiles,
           vaultFaults' \in Nat, vaultFaults' >= vaultFaults,
           StagedKeeps,
           Spared /\ Spared' /\ AtEachStep => AtEachStep'
    PROVE  VaultInv'
<1> USE DEF Same, signIns, counts
<1>1. VaultTypes'
  BY DEF VaultInv, VaultTypes
<1>2. LabelsMatch'
  BY LabelsKeepMatching
<1>3. SaidHasTokens'
  BY DEF VaultInv, SaidHasTokens
<1>4. InstallInv'
  BY DEF VaultInv, InstallInv, StagedKeeps
<1>5. Spared' => Whole'
  <2> SUFFICES ASSUME Spared'
               PROVE  Whole'
    OBVIOUS
  <2>1. Spared
    BY SparedBefore DEF VaultInv
  <2>2. AtEachStep
    BY <2>1 DEF VaultInv, Whole
  <2> QED
    BY <2>1, <2>2 DEF Whole
<1> QED
  BY <1>1, <1>2, <1>3, <1>4, <1>5 DEF VaultInv

(* A change begins at rest.                                                *)
LEMMA ChangeStarts ==
    ASSUME VaultInv, unlocked, step = "idle", unlocked' = unlocked,
           signIns' = signIns, refresh' = refresh, said' = said,
           crashes' = crashes, quiet' = quiet, keys' \in Nat,
           change' \in VaultChange,
           change'.name = "install" => /\ change'.of \in SignIn
                                       /\ change'.of = generation
                                       /\ attempts[change'.of] = "written",
           LabelOf(change'.name, step'),
           vault' \in Entry, files' \in VaultFiles, files'.staged = files.staged,
           vaultFaults' \in Nat, vaultFaults' >= vaultFaults,
           Spared /\ Spared' /\ AtRest => AtEachStep'
    PROVE  VaultInv'
<1> USE DEF signIns
<1>1. VaultTypes'
  BY DEF VaultInv, VaultTypes
<1>2. LabelsMatch'
  BY LabelsKeepMatching
<1>3. SaidHasTokens'
  BY DEF VaultInv, SaidHasTokens
<1>4. InstallInv'
  <2>1. change = NoWork
    BY DEF VaultInv, LabelsMatch
  <2>2. change.name # "install"
    BY <2>1, NoWorkIsAChange
  <2> QED
    BY <2>2 DEF VaultInv, InstallInv
<1>5. Spared' => Whole'
  <2> SUFFICES ASSUME Spared'
               PROVE  Whole'
    OBVIOUS
  <2>1. Spared
    BY SparedBefore DEF VaultInv
  <2>2. AtRest
    BY <2>1 DEF VaultInv, Whole, AtEachStep
  <2> QED
    BY <2>1, <2>2 DEF Whole
<1> QED
  BY <1>1, <1>2, <1>3, <1>4, <1>5 DEF VaultInv

LEMMA Fails ==
    ASSUME VaultTypes, NEW changed, NEW then, NEW otherwise,
           Outcome(changed, then, otherwise), crashes' = crashes
    PROVE  \/ step' = then /\ files' = changed
           \/ step' = otherwise /\ files' \in {files, changed} /\ Troubled'
<1>1. PICK a : a = vaultFaults'
  OBVIOUS
<1>2. PICK c : c = crashes
  OBVIOUS
<1>3. a \in Nat /\ c \in Nat
  BY <1>1, <1>2 DEF Outcome, VaultTypes
<1>4. a >= 1 => a + c >= 1
  BY <1>3
<1>5. a >= 1 => Troubled'
  BY <1>1, <1>2, <1>4 DEF Troubled
<1> QED
  BY <1>1, <1>5 DEF Outcome

(* There is no second failure in what Spared covers.                       *)
LEMMA Succeeds ==
    ASSUME VaultTypes, NEW changed, NEW then, NEW otherwise,
           Outcome(changed, then, otherwise), crashes' = crashes,
           Troubled, Spared'
    PROVE  step' = then /\ files' = changed /\ Troubled'
<1>1. PICK a : a = vaultFaults'
  OBVIOUS
<1>2. PICK b : b = vaultFaults
  OBVIOUS
<1>3. PICK c : c = crashes
  OBVIOUS
<1>4. a \in Nat /\ b \in Nat /\ c \in Nat /\ a >= b
  BY <1>1, <1>2, <1>3 DEF Outcome, VaultTypes
<1>5. b + c >= 1 /\ a + c <= 1
  BY <1>1, <1>2, <1>3 DEF Troubled, Spared
<1>6. ~(a > b) /\ a + c >= 1
  BY <1>4, <1>5
<1>7. Troubled'
  BY <1>1, <1>3, <1>6 DEF Troubled
<1>8. \/ step' = then /\ files' = changed
      \/ vaultFaults' > vaultFaults
  BY DEF Outcome
<1> QED
  BY <1>1, <1>2, <1>6, <1>7, <1>8

LEMMA StaysTroubled ==
    ASSUME vaultFaults' = vaultFaults, crashes' = crashes, Troubled
    PROVE  Troubled'
  BY DEF Troubled

-----------------------------------------------------------------------------
(* The steps of insert_api_key.                                            *)
LEMMA UndoStep ==
    ASSUME VaultInv, Undo
    PROVE  VaultInv'
<1> DEFINE changed == [files EXCEPT !.vault = change.previous]
<1>1. /\ unlocked /\ step = "undo" /\ Same /\ change' = change
      /\ vault' = change.previous /\ Do(changed, "refused", "refused")
      /\ crashes' = crashes
  BY DEF Undo, Step, Commit, Same, counts
<1>2. /\ VaultTypes /\ files \in VaultFiles /\ change \in VaultChange
      /\ change.name \in {"insert", "install", "forget"}
  BY <1>1 DEF VaultInv, VaultTypes, LabelsMatch, EndSteps
<1>3. change.previous \in Entry
  BY <1>2, ChangeFields
<1>4. /\ changed \in VaultFiles
      /\ changed.vault = change.previous /\ changed.final = files.final
      /\ changed.marker = files.marker /\ changed.backup = files.backup
      /\ changed.staged = files.staged
  BY <1>2, <1>3, VaultChanges
<1>5. Outcome(changed, "refused", "refused")
  BY <1>1, <1>2, <1>4, DoHasOutcome
<1> HIDE DEF changed
<1>6. LabelOf(change.name, step')
  BY <1>2, <1>5 DEF Outcome, LabelOf, EndSteps
<1>7. ASSUME Spared, Spared', AtEachStep
      PROVE  AtEachStep'
  <2>1. AtUndo
    BY <1>1, <1>7 DEF AtEachStep
  <2>2. step' = "refused" /\ files' = changed
    BY <1>1, <1>2, <1>5, <1>7, <2>1, Succeeds DEF AtUndo
  <2>3. AtRest'
    BY <1>1, <1>4, <2>1, <2>2 DEF AtUndo, AtRest, Stands, Unmoved, Before, Found, Same
  <2> QED
    BY <2>2, <2>3 DEF AtEachStep
<1>8. /\ StagedKeeps /\ files' \in VaultFiles /\ vaultFaults' \in Nat
      /\ vaultFaults' >= vaultFaults
  BY <1>4, <1>5 DEF Outcome, StagedKeeps
<1> QED
  BY <1>1, <1>2, <1>3, <1>6, <1>7, <1>8, ChangeContinues

LEMMA InsertKeyStep ==
    ASSUME VaultInv, InsertKey
    PROVE  VaultInv'
<1>1. PICK n : n = 100 + keys
  OBVIOUS
<1> DEFINE changed == [files EXCEPT !.vault = Key(n)]
<1>2. Begin("insert", n) /\ Commit(Key(n), "insert: remove", "undo")
  BY <1>1, Zenon DEF InsertKey
<1>3. /\ signIns' = signIns /\ refresh' = refresh /\ said' = said
      /\ crashes' = crashes /\ keys' = keys + 1
      /\ unlocked' = unlocked /\ quiet' = quiet
  BY Zenon DEF InsertKey
<1>4. /\ VaultTypes /\ files \in VaultFiles /\ vault \in Entry
      /\ keys' \in Nat /\ n \in Int
  <2>1. VaultTypes
    BY DEF VaultInv
  <2>2. keys \in Nat
    BY <2>1 DEF VaultTypes
  <2>3. keys' \in Nat /\ n \in Int
    BY <1>1, <1>3, <2>2
  <2> QED
    BY <2>1, <2>3 DEF VaultTypes
<1>5. /\ unlocked /\ step = "idle" /\ change' \in VaultChange /\ change'.name = "insert"
      /\ change'.previous = vault /\ change'.of = n /\ change'.bytes = files.final
  BY <1>2, <1>4, BeginChanges
<1>a. vault' = Key(n) /\ Do(changed, "insert: remove", "undo") /\ Key(n) \in Entry
  BY <1>2, <1>4, VaultEntries DEF Commit
<1>6. /\ changed \in VaultFiles
      /\ changed.vault = Key(n) /\ changed.final = files.final
      /\ changed.marker = files.marker /\ changed.backup = files.backup
      /\ changed.staged = files.staged
  BY <1>4, <1>a, VaultChanges
<1>7. Outcome(changed, "insert: remove", "undo")
  BY <1>4, <1>6, <1>a, DoHasOutcome
<1> HIDE DEF changed
<1>8. LabelOf(change'.name, step')
  BY <1>5, <1>7 DEF Outcome, LabelOf, EndSteps, InsertSteps
<1>9. ASSUME Spared, Spared', AtRest
      PROVE  AtEachStep'
  <2>1. CASE step' = "insert: remove" /\ files' = changed
    <3>1. Stands(Key(change.of))' /\ Unmoved' /\ change'.bytes = files'.final
      BY <1>3, <1>5, <1>6, <1>9, <1>a, <2>1 DEF AtRest, Stands, Unmoved
    <3>2. Before(Found, files.final)'
      BY <1>3, <1>5, <1>6, <1>9, <1>a, <2>1 DEF AtRest, Stands, Before, Found
    <3>3. AtInsertRemove'
      BY <3>1, <3>2 DEF AtInsertRemove
    <3> QED
      BY <2>1, <3>3 DEF AtEachStep
  <2>2. CASE step' = "undo" /\ files' \in {files, changed} /\ Troubled'
    <3>1. AtUndo'
      BY <1>3, <1>5, <1>6, <1>9, <1>a, <2>2
      DEF AtUndo, AtRest, Stands, Unmoved, Before, Found
    <3> QED
      BY <2>2, <3>1 DEF AtEachStep
  <2> QED
    BY <1>3, <1>4, <1>7, <2>1, <2>2, Fails
<1>10. /\ files' \in VaultFiles /\ files'.staged = files.staged
       /\ vaultFaults' \in Nat /\ vaultFaults' >= vaultFaults
  BY <1>6, <1>7 DEF Outcome
<1> QED
  BY <1>3, <1>4, <1>5, <1>8, <1>9, <1>10, <1>a, ChangeStarts

LEMMA RemovePlanFileStep ==
    ASSUME VaultInv, RemovePlanFile
    PROVE  VaultInv'
<1> DEFINE changed == [files EXCEPT !.final = NoFile]
<1>1. /\ unlocked /\ step = "insert: remove" /\ Same /\ change' = change
      /\ vault' = vault /\ crashes' = crashes /\ said' = said
  BY DEF RemovePlanFile, Step, Same, counts
<1>2. /\ VaultTypes /\ files \in VaultFiles /\ change \in VaultChange
      /\ change.name = "insert" /\ vault \in Entry /\ change.of \in Int
  BY <1>1 DEF VaultInv, VaultTypes, LabelsMatch, InsertSteps, VaultChange
<1>3. /\ changed \in VaultFiles
      /\ changed.vault = files.vault /\ changed.final = NoFile
      /\ changed.marker = files.marker /\ changed.backup = files.backup
      /\ changed.staged = files.staged
  BY <1>2, FinalChanges DEF NoFile
<1>4. \/ /\ files.final = NoFile /\ Proceeded("stored")
      \/ Outcome(changed, "stored", "insert: restore")
  BY <1>2, <1>3, ProceedKeeps, DoHasOutcome DEF RemovePlanFile
<1> HIDE DEF changed
<1>5. LabelOf(change.name, step')
  BY <1>2, <1>4 DEF Outcome, Proceeded, LabelOf, EndSteps, InsertSteps
<1>6. ASSUME Spared, Spared', AtEachStep
      PROVE  AtEachStep'
  <2> USE DEF Stands, Unmoved, Before, Found
  <2>1. AtInsertRemove
    BY <1>1, <1>6 DEF AtEachStep
  <2>2. Key(change.of) # Plan
    BY <1>2, VaultEntries
  <2>3. CASE step' = "stored" /\ files' \in {files, changed} /\ files'.final = NoFile
    <3>1. Target' = Key(change.of)
      BY <1>1, <1>2 DEF Target
    <3>2. AtStored'
      BY <1>1, <1>3, <2>1, <2>2, <2>3, <3>1 DEF AtStored, AtInsertRemove, Connection
    <3> QED
      BY <2>3, <3>2 DEF AtEachStep
  <2>4. CASE step' = "insert: restore" /\ files' \in {files, changed} /\ Troubled'
    <3>1. AtInsertRestore'
      BY <1>1, <1>3, <2>1, <2>4 DEF AtInsertRestore, AtInsertRemove
    <3> QED
      BY <2>4, <3>1 DEF AtEachStep
  <2>5. \/ step' = "stored" /\ files' \in {files, changed} /\ files'.final = NoFile
        \/ step' = "insert: restore" /\ files' \in {files, changed} /\ Troubled'
    <3>1. CASE Outcome(changed, "stored", "insert: restore")
      BY <1>1, <1>2, <1>3, <3>1, Fails
    <3> QED
      BY <1>4, <3>1 DEF Proceeded
  <2> QED
    BY <2>3, <2>4, <2>5
<1>7. /\ StagedKeeps /\ files' \in VaultFiles /\ vaultFaults' \in Nat
      /\ vaultFaults' >= vaultFaults
  BY <1>2, <1>3, <1>4 DEF Outcome, Proceeded, StagedKeeps
<1> QED
  BY <1>1, <1>2, <1>5, <1>6, <1>7, ChangeContinues

LEMMA RestorePlanFileStep ==
    ASSUME VaultInv, RestorePlanFile
    PROVE  VaultInv'
<1> DEFINE changed == [files EXCEPT !.final = change.bytes]
<1>1. /\ unlocked /\ step = "insert: restore" /\ Same /\ change' = change
      /\ vault' = vault /\ crashes' = crashes /\ said' = said
  BY DEF RestorePlanFile, Step, Same, counts
<1>2. /\ VaultTypes /\ files \in VaultFiles /\ change \in VaultChange
      /\ change.name = "insert" /\ vault \in Entry /\ change.bytes \in Int
  BY <1>1 DEF VaultInv, VaultTypes, LabelsMatch, InsertSteps, VaultChange
<1>3. /\ changed \in VaultFiles
      /\ changed.vault = files.vault /\ changed.final = change.bytes
      /\ changed.marker = files.marker /\ changed.backup = files.backup
      /\ changed.staged = files.staged
  BY <1>2, FinalChanges
<1>4. \/ /\ change.bytes = NoFile /\ Proceeded("undo")
      \/ Outcome(changed, "undo", "refused")
  BY <1>2, <1>3, ProceedKeeps, DoHasOutcome DEF RestorePlanFile
<1> HIDE DEF changed
<1>5. LabelOf(change.name, step')
  BY <1>2, <1>4 DEF Outcome, Proceeded, LabelOf, EndSteps
<1>6. ASSUME Spared, Spared', AtEachStep
      PROVE  AtEachStep'
  <2>1. AtInsertRestore
    BY <1>1, <1>6 DEF AtEachStep
  <2>2. Troubled
    BY <2>1 DEF AtInsertRestore
  <2>3. /\ step' = "undo" /\ Troubled'
        /\ \/ files' = changed
           \/ files' = files /\ change.bytes = NoFile
    <3>1. CASE Outcome(changed, "undo", "refused")
      BY <1>1, <1>2, <1>6, <2>2, <3>1, Succeeds
    <3> QED
      BY <1>1, <1>4, <2>2, <3>1, StaysTroubled DEF Proceeded
  <2>4. AtUndo'
    BY <1>1, <1>3, <2>1, <2>3
    DEF AtUndo, AtInsertRestore, Stands, Unmoved, Before, Found
  <2> QED
    BY <2>3, <2>4 DEF AtEachStep
<1>7. /\ StagedKeeps /\ files' \in VaultFiles /\ vaultFaults' \in Nat
      /\ vaultFaults' >= vaultFaults
  BY <1>2, <1>3, <1>4 DEF Outcome, Proceeded, StagedKeeps
<1> QED
  BY <1>1, <1>2, <1>5, <1>6, <1>7, ChangeContinues

-----------------------------------------------------------------------------
(* The steps of install_plan.                                              *)
(* In an installation the sign-in is a known one, and its file was written.  *)
LEMMA InstalledSignIn ==
    ASSUME VaultInv, change.name = "install"
    PROVE  /\ change.of \in SignIn /\ change.of \in Int /\ change.of # NoFile
           /\ change.of = generation /\ attempts[change.of] = "written"
<1>1. /\ change.of \in SignIn /\ change.of = generation
      /\ attempts[change.of] = "written"
  BY DEF VaultInv, InstallInv
<1>2. change.of \in Int /\ change.of # 0
  BY <1>1, VaultAssumed DEF SignIn
<1> QED
  BY <1>1, <1>2 DEF NoFile

LEMMA InstallPlanStep ==
    ASSUME VaultInv, NEW g \in SignIn, InstallPlan(g)
    PROVE  VaultInv'
<1> DEFINE changed == [files EXCEPT !.backup = files.final]
<1>1. g = generation /\ attempts[g] = "written" /\ Begin("install", g)
  BY DEF InstallPlan
<1>2. /\ unlocked' = unlocked /\ signIns' = signIns /\ refresh' = refresh
      /\ said' = said /\ crashes' = crashes /\ quiet' = quiet /\ keys' = keys
      /\ vault' = vault
  BY Zenon DEF InstallPlan, Same, counts
<1>3. /\ VaultTypes /\ files \in VaultFiles /\ vault \in Entry /\ keys \in Nat
      /\ g \in Int /\ files.final \in Int /\ vaultFaults \in Nat /\ g # NoFile
  BY VaultAssumed, FileFields DEF VaultInv, VaultTypes, SignIn, NoFile
<1>4. /\ unlocked /\ step = "idle"
      /\ change' \in VaultChange /\ change'.name = "install"
      /\ change'.previous = vault /\ change'.of = g /\ change'.bytes = files.final
  BY <1>1, <1>3, BeginChanges
<1>5. /\ changed \in VaultFiles
      /\ changed.vault = files.vault /\ changed.final = files.final
      /\ changed.marker = files.marker /\ changed.backup = files.final
      /\ changed.staged = files.staged
  BY <1>3, BackupChanges
<1>6. \/ /\ step' = "install: rename" /\ vaultFaults' = vaultFaults
         /\ \/ files.final = NoFile /\ files' = files
            \/ files' = changed
      \/ /\ step' = "refused" /\ vaultFaults' = vaultFaults + 1
         /\ files' = files
  BY DEF InstallPlan
<1> HIDE DEF changed
<1>7. change = NoWork /\ change.name = "none"
  BY <1>4, NoWorkIsAChange DEF VaultInv, LabelsMatch
<1>8. files.staged[g] = g
  BY <1>1, <1>7 DEF VaultInv, InstallInv
<1>9. LabelOf(change'.name, step')
  BY <1>4, <1>6 DEF LabelOf, EndSteps, InstallSteps
<1>10. /\ files' \in VaultFiles /\ files'.staged = files.staged
       /\ vaultFaults' \in Nat /\ vaultFaults' >= vaultFaults
  <2>1. files' \in {files, changed} /\ vaultFaults' \in {vaultFaults, vaultFaults + 1}
    BY <1>6
  <2> QED
    BY <1>3, <1>5, <2>1
<1>11. ASSUME Spared, Spared', AtRest
       PROVE  AtEachStep'
  <2>1. CASE step' = "install: rename"
    <3>1. /\ files'.marker = NoFile /\ files'.final = files.final
          /\ files'.backup = files.final /\ files'.vault = files.vault
      BY <1>5, <1>6, <1>11, <2>1 DEF AtRest, Unmoved
    <3>2. AtInstallRename'
      BY <1>2, <1>4, <1>8, <1>10, <1>11, <3>1
      DEF AtInstallRename, Installing, AtRest, Stands, Before, Found
    <3> QED
      BY <2>1, <3>2 DEF AtEachStep
  <2>2. CASE step' = "refused"
    <3>1. AtRest'
      BY <1>2, <1>6, <1>11, <2>2 DEF AtRest, Stands, Unmoved, Before
    <3> QED
      BY <2>2, <3>1 DEF AtEachStep
  <2> QED
    BY <1>6, <2>1, <2>2
<1> QED
  BY <1>1, <1>2, <1>3, <1>4, <1>9, <1>10, <1>11, ChangeStarts

LEMMA RenameStagedStep ==
    ASSUME VaultInv, RenameStaged
    PROVE  VaultInv'
<1> DEFINE changed == [files EXCEPT !.final = files.staged[change.of],
                                !.staged[change.of] = NoFile]
<1>1. /\ unlocked /\ step = "install: rename" /\ Same /\ change' = change
      /\ vault' = vault /\ crashes' = crashes /\ said' = said
  BY DEF RenameStaged, Step, Same, counts, Commit, Found
<1>2. /\ VaultTypes /\ files \in VaultFiles /\ change \in VaultChange
      /\ change.name = "install" /\ vault \in Entry
      /\ Found \in Entry /\ change.bytes \in Int /\ change.of \in Int
      /\ change.of \in SignIn /\ change.of # NoFile /\ files.staged[change.of] \in Int
      /\ files.final \in Int /\ files.backup \in Int
  BY <1>1, FileFields, InstalledSignIn
  DEF VaultInv, VaultTypes, LabelsMatch, InstallSteps, VaultChange, Found
<1>3. /\ changed \in VaultFiles
      /\ changed.vault = files.vault
      /\ changed.final = files.staged[change.of]
      /\ changed.marker = files.marker
      /\ changed.backup = files.backup
      /\ \A k \in SignIn : k # change.of => changed.staged[k] = files.staged[k]
      /\ changed.staged[change.of] = NoFile
  BY <1>2, NoFileIsANumber DEF VaultFiles
<1>4. Outcome(changed, "install: commit", "install: return")
  BY <1>1, <1>2, <1>3, ProceedKeeps, DoHasOutcome DEF RenameStaged, Commit
<1> HIDE DEF changed
<1>5. LabelOf(change.name, step')
  BY <1>2, <1>4 DEF Outcome, Proceeded, LabelOf, EndSteps, InstallSteps
<1>6. ASSUME Spared, Spared', AtEachStep
      PROVE  AtEachStep'
  <2>1. AtInstallRename
    BY <1>1, <1>6 DEF AtEachStep
  <2>3. CASE step' = "install: commit" /\ files' = changed
    <3>1. AtInstallCommit'
      BY <1>1, <1>3, <2>1, <2>3
      DEF AtInstallCommit, AtInstallRename, Installing, Stands, Before, Found
    <3> QED
      BY <2>3, <3>1 DEF AtEachStep
  <2>4. CASE step' = "install: return" /\ files' \in {files, changed} /\ Troubled'
    <3>1. AtInstallReturn'
      BY <1>1, <1>3, <2>1, <2>4
      DEF AtInstallReturn, AtInstallRename, Installing, Stands, Before, Found
    <3> QED
      BY <2>4, <3>1 DEF AtEachStep
  <2>9. \/ step' = "install: commit" /\ files' = changed
        \/ step' = "install: return" /\ files' \in {files, changed} /\ Troubled'
    BY <1>1, <1>2, <1>4, Fails
  <2> QED
    BY <2>3, <2>4, <2>9
<1>7. /\ StagedKeeps /\ files' \in VaultFiles /\ vaultFaults' \in Nat
      /\ vaultFaults' >= vaultFaults
  BY <1>2, <1>3, <1>4 DEF Outcome, Proceeded, StagedKeeps
<1> QED
  BY <1>1, <1>2, <1>5, <1>6, <1>7, VaultEntries, ChangeContinues

LEMMA CommitPlanStep ==
    ASSUME VaultInv, CommitPlan
    PROVE  VaultInv'
<1> DEFINE changed == [files EXCEPT !.vault = Plan]
<1>1. /\ unlocked /\ step = "install: commit" /\ Same /\ change' = change
      /\ vault' = Plan /\ crashes' = crashes /\ said' = said
  BY DEF CommitPlan, Step, Same, counts, Commit, Found
<1>2. /\ VaultTypes /\ files \in VaultFiles /\ change \in VaultChange
      /\ change.name = "install" /\ vault \in Entry
      /\ Found \in Entry /\ change.bytes \in Int /\ change.of \in Int
      /\ change.of \in SignIn /\ change.of # NoFile /\ files.staged[change.of] \in Int
      /\ files.final \in Int /\ files.backup \in Int
  BY <1>1, FileFields, InstalledSignIn
  DEF VaultInv, VaultTypes, LabelsMatch, InstallSteps, VaultChange, Found
<1>3. /\ changed \in VaultFiles
      /\ changed.vault = Plan
      /\ changed.final = files.final
      /\ changed.marker = files.marker
      /\ changed.backup = files.backup
      /\ changed.staged = files.staged
  BY <1>2, VaultChanges, VaultEntries
<1>4. Outcome(changed, "install: clean", "install: rollback")
  BY <1>1, <1>2, <1>3, ProceedKeeps, DoHasOutcome DEF CommitPlan, Commit
<1> HIDE DEF changed
<1>5. LabelOf(change.name, step')
  BY <1>2, <1>4 DEF Outcome, Proceeded, LabelOf, EndSteps, InstallSteps
<1>6. ASSUME Spared, Spared', AtEachStep
      PROVE  AtEachStep'
  <2>1. AtInstallCommit
    BY <1>1, <1>6 DEF AtEachStep
  <2>3. CASE step' = "install: clean" /\ files' = changed
    <3>1. AtInstallClean'
      BY <1>1, <1>3, <2>1, <2>3
      DEF AtInstallClean, AtInstallCommit, Installing, Stands, Before, Found
    <3> QED
      BY <2>3, <3>1 DEF AtEachStep
  <2>4. CASE step' = "install: rollback" /\ files' \in {files, changed} /\ Troubled'
    <3>1. AtInstallRollback'
      BY <1>1, <1>3, <2>1, <2>4
      DEF AtInstallRollback, AtInstallCommit, Installing, Stands, Before, Found
    <3> QED
      BY <2>4, <3>1 DEF AtEachStep
  <2>9. \/ step' = "install: clean" /\ files' = changed
        \/ step' = "install: rollback" /\ files' \in {files, changed} /\ Troubled'
    BY <1>1, <1>2, <1>4, Fails
  <2> QED
    BY <2>3, <2>4, <2>9
<1>7. /\ StagedKeeps /\ files' \in VaultFiles /\ vaultFaults' \in Nat
      /\ vaultFaults' >= vaultFaults
  BY <1>2, <1>3, <1>4 DEF Outcome, Proceeded, StagedKeeps
<1> QED
  BY <1>1, <1>2, <1>5, <1>6, <1>7, VaultEntries, ChangeContinues

LEMMA RemoveBackupStep ==
    ASSUME VaultInv, RemoveBackup
    PROVE  VaultInv'
<1> DEFINE changed == [files EXCEPT !.backup = NoFile]
<1>1. /\ unlocked /\ step = "install: clean" /\ Same /\ change' = change
      /\ vault' = vault /\ crashes' = crashes /\ said' = said
  BY DEF RemoveBackup, Step, Same, counts
<1>2. /\ VaultTypes /\ files \in VaultFiles /\ change \in VaultChange
      /\ change.name = "install" /\ vault \in Entry
      /\ vaultFaults \in Nat /\ crashes \in Nat
  BY <1>1 DEF VaultInv, VaultTypes, LabelsMatch, InstallSteps
<1>3. /\ changed \in VaultFiles
      /\ changed.vault = files.vault /\ changed.final = files.final
      /\ changed.marker = files.marker /\ changed.backup = NoFile
      /\ changed.staged = files.staged
  BY <1>2, BackupChanges, NoFileIsANumber
<1>4. \/ /\ step' = "stored" /\ files' = changed
         /\ vaultFaults' \in {vaultFaults, vaultFaults + 1}
      \/ /\ step' = "install: rollback" /\ files' = files
         /\ vaultFaults' = vaultFaults + 1
  BY DEF RemoveBackup
<1> HIDE DEF changed
<1>5. LabelOf(change.name, step')
  BY <1>2, <1>4 DEF LabelOf, EndSteps, InstallSteps
<1>6. ASSUME Spared, Spared', AtEachStep
      PROVE  AtEachStep'
  <2>1. AtInstallClean
    BY <1>1, <1>6 DEF AtEachStep
  <2>2. CASE step' = "stored" /\ files' = changed
    <3>1. Target' = PlanOf(change.of)
      BY <1>1, <1>2 DEF Target
    <3>2. AtStored'
      BY <1>1, <1>3, <2>1, <2>2, <3>1
      DEF AtStored, AtInstallClean, Installing, Stands, Unmoved, Connection
    <3> QED
      BY <2>2, <3>2 DEF AtEachStep
  <2>3. CASE /\ step' = "install: rollback" /\ files' = files
             /\ vaultFaults' = vaultFaults + 1
    <3>1. PICK a : a = vaultFaults
      OBVIOUS
    <3>2. PICK b : b = crashes
      OBVIOUS
    <3>3. a + 1 + b >= 1
      BY <1>2, <3>1, <3>2
    <3>4. Troubled'
      BY <1>1, <2>3, <3>1, <3>2, <3>3 DEF Troubled
    <3>5. AtInstallRollback'
      BY <1>1, <2>1, <2>3, <3>4
      DEF AtInstallRollback, AtInstallClean, Installing, Stands, Before, Found
    <3> QED
      BY <2>3, <3>5 DEF AtEachStep
  <2> QED
    BY <1>4, <2>2, <2>3
<1>7. /\ StagedKeeps /\ files' \in VaultFiles
  BY <1>2, <1>3, <1>4 DEF StagedKeeps
<1>8. vaultFaults' \in Nat /\ vaultFaults' >= vaultFaults
  <2>1. vaultFaults' \in {vaultFaults, vaultFaults + 1}
    BY <1>4
  <2> QED
    BY <1>2, <2>1
<1> QED
  BY <1>1, <1>2, <1>5, <1>6, <1>7, <1>8, ChangeContinues

LEMMA RollbackInstallStep ==
    ASSUME VaultInv, RollbackInstall
    PROVE  VaultInv'
<1> DEFINE changed == Unstaged
<1>1. /\ unlocked /\ step = "install: rollback" /\ Same /\ change' = [change EXCEPT !.rollback = TRUE]
      /\ vault' = Found /\ crashes' = crashes /\ said' = said
  BY DEF RollbackInstall, Step, Same, counts, Commit, Found
<1>2. /\ VaultTypes /\ files \in VaultFiles /\ change \in VaultChange
      /\ change.name = "install" /\ vault \in Entry
      /\ Found \in Entry /\ change.bytes \in Int /\ change.of \in Int
      /\ change.of \in SignIn /\ change.of # NoFile /\ files.staged[change.of] \in Int
      /\ files.final \in Int /\ files.backup \in Int
  BY <1>1, FileFields, InstalledSignIn
  DEF VaultInv, VaultTypes, LabelsMatch, InstallSteps, VaultChange, Found
<1>3. /\ changed \in VaultFiles
      /\ changed.vault = files.vault
      /\ changed.final = NoFile
      /\ changed.marker = files.marker
      /\ changed.backup = files.backup
      /\ \A k \in SignIn : k # change.of => changed.staged[k] = files.staged[k]
      /\ changed.staged[change.of] = files.final
  BY <1>2, NoFileIsANumber DEF VaultFiles, Unstaged
<1>4. Outcome(changed, "install: backup", "install: return")
  BY <1>1, <1>2, <1>3, ProceedKeeps, DoHasOutcome DEF RollbackInstall, Commit
<1> HIDE DEF changed
<1>8. /\ change' \in VaultChange /\ change'.name = change.name
      /\ change'.of = change.of /\ change'.previous = change.previous
      /\ change'.rollback /\ said' = said
  BY <1>1, <1>2 DEF VaultChange
<1>5. LabelOf(change.name, step')
  BY <1>2, <1>4 DEF Outcome, Proceeded, LabelOf, EndSteps, InstallSteps
<1>6. ASSUME Spared, Spared', AtEachStep
      PROVE  AtEachStep'
  <2>1. AtInstallRollback
    BY <1>1, <1>6 DEF AtEachStep
  <2>2. Troubled
    BY <2>1 DEF AtInstallRollback
  <2>9. step' = "install: backup" /\ files' = changed /\ Troubled'
    BY <1>1, <1>2, <1>4, <1>6, <2>2, Succeeds, StaysTroubled DEF Proceeded
  <2>3. AtInstallBackup'
    <3>1. files'.final = NoFile
      BY <1>3, <2>9
    <3>2. Installing'
      BY <1>3, <1>8, <2>1, <2>9 DEF AtInstallRollback, Installing, Before, Found
    <3> QED
      BY <1>8, <2>9, <3>1, <3>2 DEF AtInstallBackup
  <2> QED
    BY <2>3, <2>9 DEF AtEachStep
<1>7. /\ StagedKeeps /\ files' \in VaultFiles /\ vaultFaults' \in Nat
      /\ vaultFaults' >= vaultFaults
  BY <1>2, <1>3, <1>4 DEF Outcome, Proceeded, StagedKeeps
<1> QED
  BY <1>1, <1>2, <1>5, <1>6, <1>7, <1>8, VaultEntries, ChangeContinues

LEMMA ReturnToStageStep ==
    ASSUME VaultInv, ReturnToStage
    PROVE  VaultInv'
<1> DEFINE changed == Unstaged
<1>1. /\ unlocked /\ step = "install: return" /\ Same /\ change' = change
      /\ vault' = vault /\ crashes' = crashes /\ said' = said
  BY DEF ReturnToStage, Step, Same, counts, Commit, Found
<1>2. /\ VaultTypes /\ files \in VaultFiles /\ change \in VaultChange
      /\ change.name = "install" /\ vault \in Entry
      /\ Found \in Entry /\ change.bytes \in Int /\ change.of \in Int
      /\ change.of \in SignIn /\ change.of # NoFile /\ files.staged[change.of] \in Int
      /\ files.final \in Int /\ files.backup \in Int
  BY <1>1, FileFields, InstalledSignIn
  DEF VaultInv, VaultTypes, LabelsMatch, InstallSteps, VaultChange, Found
<1>3. /\ changed \in VaultFiles
      /\ changed.vault = files.vault
      /\ changed.final = NoFile
      /\ changed.marker = files.marker
      /\ changed.backup = files.backup
      /\ \A k \in SignIn : k # change.of => changed.staged[k] = files.staged[k]
      /\ changed.staged[change.of] = files.final
  BY <1>2, NoFileIsANumber DEF VaultFiles, Unstaged
<1>4. \/ /\ files.staged[change.of] # NoFile \/ files.final = NoFile
         /\ Proceeded("install: backup")
      \/ /\ files.staged[change.of] = NoFile /\ files.final # NoFile
         /\ Outcome(changed, "install: backup", "refused")
  BY <1>1, <1>2, <1>3, ProceedKeeps, DoHasOutcome DEF ReturnToStage, Commit
<1> HIDE DEF changed
<1>5. LabelOf(change.name, step')
  BY <1>2, <1>4 DEF Outcome, Proceeded, LabelOf, EndSteps, InstallSteps
<1>6. ASSUME Spared, Spared', AtEachStep
      PROVE  AtEachStep'
  <2>1. AtInstallReturn
    BY <1>1, <1>6 DEF AtEachStep
  <2>2. Troubled
    BY <2>1 DEF AtInstallReturn
  <2>3. CASE Proceeded("install: backup") /\ files.staged[change.of] # NoFile
    <3>1. Troubled'
      BY <1>1, <2>2, <2>3, StaysTroubled DEF Proceeded
    <3>2. AtInstallBackup'
      BY <1>1, <1>2, <2>1, <2>3, <3>1
      DEF AtInstallBackup, AtInstallReturn, Installing, Stands, Before, Found, Proceeded
    <3> QED
      BY <2>3, <3>2 DEF AtEachStep, Proceeded
  <2>4. CASE files.staged[change.of] = NoFile /\ files.final = NoFile
    BY <1>2, <2>1, <2>4 DEF AtInstallReturn
  <2>5. CASE /\ files.staged[change.of] = NoFile /\ files.final # NoFile
             /\ Outcome(changed, "install: backup", "refused")
    <3>1. step' = "install: backup" /\ files' = changed /\ Troubled'
      BY <1>1, <1>2, <1>6, <2>2, <2>5, Succeeds
    <3>2. AtInstallBackup'
      BY <1>1, <1>2, <1>3, <2>1, <2>5, <3>1
      DEF AtInstallBackup, AtInstallReturn, Installing, Stands, Before, Found
    <3> QED
      BY <3>1, <3>2 DEF AtEachStep
  <2> QED
    BY <1>4, <2>3, <2>4, <2>5
<1>7. /\ StagedKeeps /\ files' \in VaultFiles /\ vaultFaults' \in Nat
      /\ vaultFaults' >= vaultFaults
  BY <1>2, <1>3, <1>4 DEF Outcome, Proceeded, StagedKeeps
<1> QED
  BY <1>1, <1>2, <1>5, <1>6, <1>7, VaultEntries, ChangeContinues

LEMMA RestoreBackupStep ==
    ASSUME VaultInv, RestoreBackup
    PROVE  VaultInv'
<1> DEFINE changed == [files EXCEPT !.final = files.backup, !.backup = NoFile]
<1>1. /\ unlocked /\ step = "install: backup" /\ Same /\ change' = change
      /\ vault' = vault /\ crashes' = crashes /\ said' = said
  BY DEF RestoreBackup, Step, Same, counts, Commit, Found
<1>2. /\ VaultTypes /\ files \in VaultFiles /\ change \in VaultChange
      /\ change.name = "install" /\ vault \in Entry
      /\ Found \in Entry /\ change.bytes \in Int /\ change.of \in Int
      /\ change.of \in SignIn /\ change.of # NoFile /\ files.staged[change.of] \in Int
      /\ files.final \in Int /\ files.backup \in Int
  BY <1>1, FileFields, InstalledSignIn
  DEF VaultInv, VaultTypes, LabelsMatch, InstallSteps, VaultChange, Found
<1>3. /\ changed \in VaultFiles
      /\ changed.vault = files.vault
      /\ changed.final = files.backup
      /\ changed.marker = files.marker
      /\ changed.backup = NoFile
      /\ changed.staged = files.staged
  BY <1>2, NoFileIsANumber DEF VaultFiles
<1>4. \/ /\ files.backup = NoFile
         /\ \/ change.rollback /\ Proceeded("undo")
            \/ ~change.rollback /\ Proceeded("refused")
      \/ change.rollback /\ Outcome(changed, "undo", "refused")
      \/ ~change.rollback /\ Outcome(changed, "refused", "refused")
  BY <1>1, <1>2, <1>3, ProceedKeeps, DoHasOutcome DEF RestoreBackup, Commit
<1> HIDE DEF changed
<1>5. LabelOf(change.name, step')
  BY <1>2, <1>4 DEF Outcome, Proceeded, LabelOf, EndSteps, InstallSteps
<1>6. ASSUME Spared, Spared', AtEachStep
      PROVE  AtEachStep'
  <2>1. AtInstallBackup
    BY <1>1, <1>6 DEF AtEachStep
  <2>2. Troubled
    BY <2>1 DEF AtInstallBackup
  <2>3. CASE change.rollback
    <3>1. CASE files.backup = NoFile /\ Proceeded("undo")
      <4>1. Troubled'
        BY <1>1, <2>2, <3>1, StaysTroubled DEF Proceeded
      <4>2. AtUndo'
        BY <1>1, <2>1, <3>1, <4>1
        DEF AtUndo, AtInstallBackup, Installing, Unmoved, Before, Found, Proceeded
      <4> QED
        BY <3>1, <4>2 DEF AtEachStep, Proceeded
    <3>2. CASE Outcome(changed, "undo", "refused")
      <4>1. step' = "undo" /\ files' = changed /\ Troubled'
        BY <1>1, <1>2, <1>6, <2>2, <3>2, Succeeds
      <4>2. AtUndo'
        BY <1>1, <1>3, <2>1, <4>1
        DEF AtUndo, AtInstallBackup, Installing, Unmoved, Before, Found
      <4> QED
        BY <4>1, <4>2 DEF AtEachStep
    <3> QED
      BY <1>4, <2>3, <3>1, <3>2
  <2>4. CASE ~change.rollback
    <3>1. CASE files.backup = NoFile /\ Proceeded("refused")
      <4>1. AtRest'
        BY <1>1, <2>1, <2>4, <3>1
        DEF AtRest, AtInstallBackup, Installing, Stands, Unmoved, Before, Found, Proceeded
      <4> QED
        BY <3>1, <4>1 DEF AtEachStep, Proceeded
    <3>2. CASE Outcome(changed, "refused", "refused")
      <4>1. step' = "refused" /\ files' = changed
        BY <1>1, <1>2, <1>6, <2>2, <3>2, Succeeds
      <4>2. AtRest'
        BY <1>1, <1>3, <2>1, <2>4, <4>1
        DEF AtRest, AtInstallBackup, Installing, Stands, Unmoved, Before, Found
      <4> QED
        BY <4>1, <4>2 DEF AtEachStep
    <3> QED
      BY <1>4, <2>4, <3>1, <3>2
  <2> QED
    BY <2>3, <2>4
<1>7. /\ StagedKeeps /\ files' \in VaultFiles /\ vaultFaults' \in Nat
      /\ vaultFaults' >= vaultFaults
  BY <1>2, <1>3, <1>4 DEF Outcome, Proceeded, StagedKeeps
<1> QED
  BY <1>1, <1>2, <1>5, <1>6, <1>7, VaultEntries, ChangeContinues

-----------------------------------------------------------------------------
(* The steps of forget.                                                    *)
LEMMA ForgetStep ==
    ASSUME VaultInv, Forget
    PROVE  VaultInv'
<1>1. Begin("forget", 0) /\ vault' = vault
  BY DEF Forget
<1>2. /\ unlocked' = unlocked /\ signIns' = signIns /\ refresh' = refresh
      /\ said' = said /\ crashes' = crashes /\ quiet' = quiet /\ keys' = keys
  BY Zenon DEF Forget, Same, counts
<1>3. /\ VaultTypes /\ files \in VaultFiles /\ vault \in Entry /\ keys \in Nat
      /\ files.final \in Int /\ files.marker \in Int
  BY FileFields DEF VaultInv, VaultTypes
<1>4. /\ unlocked /\ step = "idle"
      /\ change' \in VaultChange /\ change'.name = "forget"
      /\ change'.previous = vault
  BY <1>1, <1>3, BeginChanges
<1>5. /\ Marked \in VaultFiles
      /\ Marked.vault = files.vault /\ Marked.final = NoFile
      /\ Marked.marker = files.final /\ Marked.backup = files.backup
      /\ Marked.staged = files.staged
  BY <1>3, NoFileIsANumber DEF VaultFiles, Marked
<1>6. \/ vault # Plan /\ Proceeded("forget: commit")
      \/ /\ vault = Plan /\ files.final # NoFile /\ files.marker = NoFile
         /\ Outcome(Marked, "forget: commit", "forget: return")
      \/ /\ vault = Plan /\ files.final = NoFile /\ files.marker # NoFile
         /\ Proceeded("forget: commit")
      \/ /\ vault = Plan /\ (files.final = NoFile) = (files.marker = NoFile)
         /\ Proceeded("refused")
  <2>1. CASE vault # Plan
    BY <1>3, <2>1, ProceedKeeps DEF Forget
  <2>2. CASE vault = Plan /\ files.final # NoFile /\ files.marker = NoFile
    <3>1. Do(Marked, "forget: commit", "forget: return")
      BY <2>2 DEF Forget
    <3> QED
      BY <1>3, <1>5, <2>2, <3>1, DoHasOutcome
  <2>3. CASE vault = Plan /\ files.final = NoFile /\ files.marker # NoFile
    BY <1>3, <2>3, ProceedKeeps DEF Forget
  <2>4. CASE vault = Plan /\ (files.final = NoFile) = (files.marker = NoFile)
    BY <1>3, <2>4, ProceedKeeps DEF Forget
  <2> QED
    BY <2>1, <2>2, <2>3, <2>4
<1>7. LabelOf(change'.name, step')
  BY <1>4, <1>6 DEF Outcome, Proceeded, LabelOf, EndSteps, ForgetSteps
<1>8. /\ files' \in VaultFiles /\ files'.staged = files.staged
      /\ vaultFaults' \in Nat /\ vaultFaults' >= vaultFaults
  BY <1>5, <1>6 DEF Outcome, Proceeded
<1>9. ASSUME Spared, Spared', AtRest
      PROVE  AtEachStep'
  <2>1. /\ vault = files.vault /\ files.marker = NoFile /\ files.backup = NoFile
        /\ Connection(files.vault, files.final) \in said
        /\ vault # Plan => files.final = NoFile
    BY <1>9 DEF AtRest, Stands, Unmoved, Before
  <2>2. vault = Plan => files.final # NoFile
    BY <1>3, <2>1, TokensWereSaid DEF VaultInv
  <2>3. CASE vault # Plan /\ Proceeded("forget: commit")
    <3>1. AtForgetCommit'
      BY <1>1, <1>2, <1>4, <2>1, <2>3
      DEF AtForgetCommit, Forgetting, Stands, Before, Found, Proceeded, Connection
    <3> QED
      BY <2>3, <3>1 DEF AtEachStep, Proceeded
  <2>4. CASE vault = Plan /\ Outcome(Marked, "forget: commit", "forget: return")
    <3>1. CASE step' = "forget: commit" /\ files' = Marked
      <4>1. AtForgetCommit'
        BY <1>1, <1>2, <1>4, <1>5, <2>1, <2>4, <3>1
        DEF AtForgetCommit, Forgetting, Stands, Before, Found
      <4> QED
        BY <3>1, <4>1 DEF AtEachStep
    <3>2. CASE step' = "forget: return" /\ files' \in {files, Marked} /\ Troubled'
      <4>1. AtForgetReturn'
        BY <1>1, <1>2, <1>4, <1>5, <2>1, <2>4, <3>2
        DEF AtForgetReturn, Stands, Before, Found
      <4> QED
        BY <3>2, <4>1 DEF AtEachStep
    <3> QED
      BY <1>2, <1>3, <2>4, <3>1, <3>2, Fails
  <2> QED
    BY <1>6, <2>1, <2>2, <2>3, <2>4
<1> QED
  BY <1>1, <1>2, <1>3, <1>4, <1>7, <1>8, <1>9, ChangeStarts

LEMMA ReturnFromMarkerStep ==
    ASSUME VaultInv, ReturnFromMarker
    PROVE  VaultInv'
<1>1. /\ unlocked /\ step = "forget: return" /\ Same /\ change' = change
      /\ vault' = vault /\ crashes' = crashes /\ said' = said
  BY DEF ReturnFromMarker, Step, Same, counts, Commit, Found
<1>2. /\ VaultTypes /\ files \in VaultFiles /\ change \in VaultChange
      /\ change.name = "forget" /\ vault \in Entry
      /\ Found \in Entry /\ change.bytes \in Int /\ change.of \in Int
      /\ files.final \in Int /\ files.marker \in Int
  BY <1>1, FileFields
  DEF VaultInv, VaultTypes, LabelsMatch, ForgetSteps, VaultChange, Found
<1>3. /\ Unmarked \in VaultFiles
      /\ Unmarked.vault = files.vault /\ Unmarked.final = files.marker
      /\ Unmarked.marker = NoFile /\ Unmarked.backup = files.backup
      /\ Unmarked.staged = files.staged
  BY <1>2, NoFileIsANumber DEF VaultFiles, Unmarked
<1>4. \/ /\ files.final = NoFile /\ files.marker # NoFile
         /\ Outcome(Unmarked, "refused", "refused")
      \/ /\ ~(files.final = NoFile /\ files.marker # NoFile)
         /\ Proceeded("refused")
  BY <1>1, <1>2, <1>3, ProceedKeeps, DoHasOutcome DEF ReturnFromMarker, Commit
<1>5. LabelOf(change.name, step')
  BY <1>2, <1>4 DEF Outcome, Proceeded, LabelOf, EndSteps, ForgetSteps
<1>6. ASSUME Spared, Spared', AtEachStep
      PROVE  AtEachStep'
  <2>1. AtForgetReturn
    BY <1>1, <1>6 DEF AtEachStep
  <2>2. Troubled
    BY <2>1 DEF AtForgetReturn
  <2>3. CASE /\ files.final = NoFile /\ files.marker # NoFile
             /\ Outcome(Unmarked, "refused", "refused")
    <3>1. step' = "refused" /\ files' = Unmarked
      BY <1>1, <1>2, <1>6, <2>2, <2>3, Succeeds
    <3>2. AtRest'
      BY <1>1, <1>3, <2>1, <2>3, <3>1
      DEF AtRest, AtForgetReturn, Stands, Unmoved, Before
    <3> QED
      BY <3>1, <3>2 DEF AtEachStep
  <2>4. CASE /\ ~(files.final = NoFile /\ files.marker # NoFile)
             /\ Proceeded("refused")
    <3>1. AtRest'
      BY <1>1, <2>1, <2>4
      DEF AtRest, AtForgetReturn, Stands, Unmoved, Before, Proceeded
    <3> QED
      BY <2>4, <3>1 DEF AtEachStep, Proceeded
  <2> QED
    BY <1>4, <2>3, <2>4
<1>7. /\ StagedKeeps /\ files' \in VaultFiles /\ vaultFaults' \in Nat
      /\ vaultFaults' >= vaultFaults
  BY <1>2, <1>3, <1>4 DEF Outcome, Proceeded, StagedKeeps
<1> QED
  BY <1>1, <1>2, <1>5, <1>6, <1>7, VaultEntries, ChangeContinues

LEMMA CommitForgetStep ==
    ASSUME VaultInv, CommitForget
    PROVE  VaultInv'
<1> DEFINE changed == [files EXCEPT !.vault = Unconnected]
<1>1. /\ unlocked /\ step = "forget: commit" /\ Same /\ change' = [change EXCEPT !.bytes = files.marker]
      /\ vault' = Unconnected /\ crashes' = crashes /\ said' = said
  BY DEF CommitForget, Step, Same, counts, Commit, Found
<1>2. /\ VaultTypes /\ files \in VaultFiles /\ change \in VaultChange
      /\ change.name = "forget" /\ vault \in Entry
      /\ Found \in Entry /\ change.bytes \in Int /\ change.of \in Int
      /\ files.final \in Int /\ files.marker \in Int
  BY <1>1, FileFields
  DEF VaultInv, VaultTypes, LabelsMatch, ForgetSteps, VaultChange, Found
<1>3. /\ changed \in VaultFiles
      /\ changed.vault = Unconnected
      /\ changed.final = files.final
      /\ changed.marker = files.marker
      /\ changed.backup = files.backup
      /\ changed.staged = files.staged
  BY <1>2, VaultEntries, VaultChanges
<1>4. \/ /\ Found = Plan
         /\ Outcome(changed, "forget: marker", "forget: rollback")
      \/ /\ Found # Plan
         /\ Outcome(changed, "stored", "forget: rollback")
  BY <1>1, <1>2, <1>3, ProceedKeeps, DoHasOutcome DEF CommitForget, Commit, Found
<1> HIDE DEF changed
<1>8. /\ change' \in VaultChange /\ change'.name = change.name
      /\ change'.of = change.of /\ change'.previous = change.previous
      /\ change'.bytes = files.marker /\ said' = said /\ vault' = Unconnected
      /\ crashes' = crashes
  BY <1>1, <1>2 DEF VaultChange
<1>5. LabelOf(change.name, step')
  BY <1>2, <1>4 DEF Outcome, Proceeded, LabelOf, EndSteps, ForgetSteps
<1>6. ASSUME Spared, Spared', AtEachStep
      PROVE  AtEachStep'
  <2>1. AtForgetCommit
    BY <1>1, <1>6 DEF AtEachStep
  <2>2. CASE step' = "forget: marker" /\ files' = changed /\ Found = Plan
    <3>1. AtForgetMarker'
      BY <1>3, <1>8, <2>1, <2>2
      DEF AtForgetMarker, AtForgetCommit, Forgetting, Stands, Before, Found
    <3> QED
      BY <2>2, <3>1 DEF AtEachStep
  <2>3. CASE step' = "stored" /\ files' = changed /\ Found # Plan
    <3>1. Target' = Unconnected
      BY <1>2, <1>8 DEF Target
    <3>2. AtStored'
      BY <1>3, <1>8, <2>1, <2>3, <3>1, VaultEntries
      DEF AtStored, AtForgetCommit, Forgetting, Stands, Unmoved, Before, Found, Connection
    <3> QED
      BY <2>3, <3>2 DEF AtEachStep
  <2>4. CASE step' = "forget: rollback" /\ files' \in {files, changed} /\ Troubled'
    <3>1. AtForgetRollback'
      BY <1>3, <1>8, <2>1, <2>4
      DEF AtForgetRollback, AtForgetCommit, Forgetting, Stands, Before, Found
    <3> QED
      BY <2>4, <3>1 DEF AtEachStep
  <2>5. crashes' = crashes /\ VaultTypes
    BY <1>2, <1>8
  <2>6. CASE Outcome(changed, "forget: marker", "forget: rollback") /\ Found = Plan
    BY <2>2, <2>4, <2>5, <2>6, Fails
  <2>7. CASE Outcome(changed, "stored", "forget: rollback") /\ Found # Plan
    BY <2>3, <2>4, <2>5, <2>7, Fails
  <2> QED
    BY <1>4, <2>6, <2>7
<1>7. /\ StagedKeeps /\ files' \in VaultFiles /\ vaultFaults' \in Nat
      /\ vaultFaults' >= vaultFaults
  BY <1>2, <1>3, <1>4 DEF Outcome, Proceeded, StagedKeeps
<1> QED
  BY <1>1, <1>2, <1>5, <1>6, <1>7, <1>8, VaultEntries, ChangeContinues

LEMMA RemoveMarkerStep ==
    ASSUME VaultInv, RemoveMarker
    PROVE  VaultInv'
<1> DEFINE changed == [files EXCEPT !.marker = NoFile]
<1>1. /\ unlocked /\ step = "forget: marker" /\ Same /\ change' = change
      /\ vault' = vault /\ crashes' = crashes /\ said' = said
  BY DEF RemoveMarker, Step, Same, counts, Commit, Found
<1>2. /\ VaultTypes /\ files \in VaultFiles /\ change \in VaultChange
      /\ change.name = "forget" /\ vault \in Entry
      /\ Found \in Entry /\ change.bytes \in Int /\ change.of \in Int
  BY <1>1, FileFields
  DEF VaultInv, VaultTypes, LabelsMatch, ForgetSteps, VaultChange, Found
<1>3. /\ changed \in VaultFiles
      /\ changed.vault = files.vault
      /\ changed.final = files.final
      /\ changed.marker = NoFile
      /\ changed.backup = files.backup
      /\ changed.staged = files.staged
  BY <1>2, NoFileIsANumber, MarkerChanges
<1>4. Outcome(changed, "forget: final", "forget: rollback")
  BY <1>1, <1>2, <1>3, ProceedKeeps, DoHasOutcome DEF RemoveMarker, Commit
<1> HIDE DEF changed
<1>5. LabelOf(change.name, step')
  BY <1>2, <1>4 DEF Outcome, Proceeded, LabelOf, EndSteps, ForgetSteps
<1>6. ASSUME Spared, Spared', AtEachStep
      PROVE  AtEachStep'
  <2>1. AtForgetMarker
    BY <1>1, <1>6 DEF AtEachStep
  <2>2. CASE step' = "forget: final" /\ files' = changed
    <3>1. AtForgetFinal'
      BY <1>1, <1>3, <2>1, <2>2
      DEF AtForgetFinal, AtForgetMarker, Forgetting, Stands, Before, Found
    <3> QED
      BY <2>2, <3>1 DEF AtEachStep
  <2>3. CASE step' = "forget: rollback" /\ files' \in {files, changed} /\ Troubled'
    <3>1. AtForgetRollback'
      BY <1>1, <1>3, <2>1, <2>3
      DEF AtForgetRollback, AtForgetMarker, Forgetting, Stands, Before, Found
    <3> QED
      BY <2>3, <3>1 DEF AtEachStep
  <2>9. \/ step' = "forget: final" /\ files' = changed
        \/ step' = "forget: rollback" /\ files' \in {files, changed} /\ Troubled'
    BY <1>1, <1>2, <1>4, Fails
  <2> QED
    BY <2>2, <2>3, <2>9
<1>7. /\ StagedKeeps /\ files' \in VaultFiles /\ vaultFaults' \in Nat
      /\ vaultFaults' >= vaultFaults
  BY <1>2, <1>3, <1>4 DEF Outcome, Proceeded, StagedKeeps
<1> QED
  BY <1>1, <1>2, <1>5, <1>6, <1>7, VaultEntries, ChangeContinues

LEMMA RemoveFinalStep ==
    ASSUME VaultInv, RemoveFinal
    PROVE  VaultInv'
<1> DEFINE changed == [files EXCEPT !.final = NoFile]
<1>1. /\ unlocked /\ step = "forget: final" /\ Same /\ change' = change
      /\ vault' = vault /\ crashes' = crashes /\ said' = said
  BY DEF RemoveFinal, Step, Same, counts, Commit, Found
<1>2. /\ VaultTypes /\ files \in VaultFiles /\ change \in VaultChange
      /\ change.name = "forget" /\ vault \in Entry
      /\ Found \in Entry /\ change.bytes \in Int /\ change.of \in Int
  BY <1>1, FileFields
  DEF VaultInv, VaultTypes, LabelsMatch, ForgetSteps, VaultChange, Found
<1>3. /\ changed \in VaultFiles
      /\ changed.vault = files.vault
      /\ changed.final = NoFile
      /\ changed.marker = files.marker
      /\ changed.backup = files.backup
      /\ changed.staged = files.staged
  BY <1>2, NoFileIsANumber, FinalChanges
<1>4. \/ files.final = NoFile /\ Proceeded("stored")
      \/ files.final # NoFile /\ Outcome(changed, "stored", "forget: rollback")
  BY <1>1, <1>2, <1>3, ProceedKeeps, DoHasOutcome DEF RemoveFinal, Commit
<1> HIDE DEF changed
<1>5. LabelOf(change.name, step')
  BY <1>2, <1>4 DEF Outcome, Proceeded, LabelOf, EndSteps, ForgetSteps
<1>6. ASSUME Spared, Spared', AtEachStep
      PROVE  AtEachStep'
  <2>1. AtForgetFinal
    BY <1>1, <1>6 DEF AtEachStep
  <2>2. files.final = NoFile /\ Proceeded("stored")
    BY <1>4, <2>1 DEF AtForgetFinal, Forgetting
  <2>3. Target' = Unconnected
    BY <1>1, <1>2 DEF Target
  <2>4. AtStored'
    BY <1>1, <2>1, <2>2, <2>3, VaultEntries
    DEF AtStored, AtForgetFinal, Forgetting, Stands, Unmoved, Connection, Proceeded
  <2> QED
    BY <2>2, <2>4 DEF AtEachStep, Proceeded
<1>7. /\ StagedKeeps /\ files' \in VaultFiles /\ vaultFaults' \in Nat
      /\ vaultFaults' >= vaultFaults
  BY <1>2, <1>3, <1>4 DEF Outcome, Proceeded, StagedKeeps
<1> QED
  BY <1>1, <1>2, <1>5, <1>6, <1>7, VaultEntries, ChangeContinues

LEMMA RollbackForgetStep ==
    ASSUME VaultInv, RollbackForget
    PROVE  VaultInv'
<1> DEFINE changed == [files EXCEPT !.final = change.bytes]
<1>1. /\ unlocked /\ step = "forget: rollback" /\ Same /\ change' = change
      /\ vault' = Found /\ crashes' = crashes /\ said' = said
  BY DEF RollbackForget, Step, Same, counts, Commit, Found
<1>2. /\ VaultTypes /\ files \in VaultFiles /\ change \in VaultChange
      /\ change.name = "forget" /\ vault \in Entry
      /\ Found \in Entry /\ change.bytes \in Int /\ change.of \in Int
      /\ files.final \in Int /\ files.marker \in Int
  BY <1>1, FileFields
  DEF VaultInv, VaultTypes, LabelsMatch, ForgetSteps, VaultChange, Found
<1>3. /\ changed \in VaultFiles
      /\ changed.vault = files.vault
      /\ changed.final = change.bytes
      /\ changed.marker = files.marker
      /\ changed.backup = files.backup
      /\ changed.staged = files.staged
  BY <1>2, FinalChanges
<1>8. /\ Unmarked \in VaultFiles
      /\ Unmarked.vault = files.vault /\ Unmarked.final = files.marker
      /\ Unmarked.marker = NoFile /\ Unmarked.backup = files.backup
      /\ Unmarked.staged = files.staged
  BY <1>2, NoFileIsANumber DEF VaultFiles, Unmarked
<1>4. \/ Found # Plan /\ Proceeded("undo")
      \/ /\ Found = Plan /\ files.final = NoFile /\ files.marker # NoFile
         /\ Outcome(Unmarked, "undo", "refused")
      \/ /\ Found = Plan /\ files.final = NoFile /\ files.marker = NoFile
         /\ Outcome(changed, "undo", "refused")
      \/ /\ Found = Plan /\ files.final # NoFile
         /\ Proceeded("undo") \/ Proceeded("refused")
  BY <1>1, <1>2, <1>3, <1>8, ProceedKeeps, DoHasOutcome DEF RollbackForget, Commit, Found
<1> HIDE DEF changed
<1>5. LabelOf(change.name, step')
  BY <1>2, <1>4 DEF Outcome, Proceeded, LabelOf, EndSteps, ForgetSteps
<1>6. ASSUME Spared, Spared', AtEachStep
      PROVE  AtEachStep'
  <2>1. AtForgetRollback
    BY <1>1, <1>6 DEF AtEachStep
  <2>2. Troubled
    BY <2>1 DEF AtForgetRollback
  <2>3. files.final = NoFile
    BY <2>1 DEF AtForgetRollback, Forgetting
  <2>4. CASE Found # Plan /\ Proceeded("undo")
    <3>1. Troubled'
      BY <1>1, <2>2, <2>4, StaysTroubled DEF Proceeded
    <3>2. AtUndo'
      BY <1>1, <2>1, <2>4, <3>1
      DEF AtUndo, AtForgetRollback, Forgetting, Unmoved, Before, Found, Proceeded
    <3> QED
      BY <2>4, <3>2 DEF AtEachStep, Proceeded
  <2>5. CASE files.marker # NoFile /\ Outcome(Unmarked, "undo", "refused")
    <3>1. step' = "undo" /\ files' = Unmarked /\ Troubled'
      BY <1>1, <1>2, <1>6, <2>2, <2>5, Succeeds
    <3>2. AtUndo'
      BY <1>1, <1>8, <2>1, <2>5, <3>1
      DEF AtUndo, AtForgetRollback, Forgetting, Unmoved, Before, Found
    <3> QED
      BY <3>1, <3>2 DEF AtEachStep
  <2>6. CASE files.marker = NoFile /\ Outcome(changed, "undo", "refused")
    <3>1. step' = "undo" /\ files' = changed /\ Troubled'
      BY <1>1, <1>2, <1>6, <2>2, <2>6, Succeeds
    <3>2. AtUndo'
      BY <1>1, <1>3, <2>1, <2>6, <3>1
      DEF AtUndo, AtForgetRollback, Forgetting, Unmoved, Before, Found
    <3> QED
      BY <3>1, <3>2 DEF AtEachStep
  <2> QED
    BY <1>4, <2>3, <2>4, <2>5, <2>6
<1>7. /\ StagedKeeps /\ files' \in VaultFiles /\ vaultFaults' \in Nat
      /\ vaultFaults' >= vaultFaults
  BY <1>2, <1>3, <1>4, <1>8 DEF Outcome, Proceeded, StagedKeeps
<1> QED
  BY <1>1, <1>2, <1>5, <1>6, <1>7, VaultEntries, ChangeContinues

-----------------------------------------------------------------------------
(* Between the steps of a change.                                          *)
LEMMA TargetHasTokens ==
    ASSUME VaultInv, change.name \in {"insert", "install", "forget"}
    PROVE  Target \in Entry /\ (Target.auth = "plan" => Target.of # NoFile)
<1>0. change \in VaultChange
  BY DEF VaultInv, VaultTypes
<1>1. CASE change.name = "insert"
  <2>1. Target = Key(change.of)
    BY <1>1 DEF Target
  <2> QED
    BY <1>0, <2>1, ChangeFields DEF Key, Entry
<1>2. CASE change.name = "install"
  <2>1. Target = PlanOf(change.of) /\ change.of # NoFile /\ change.of \in Int
    BY <1>2, InstalledSignIn DEF Target
  <2> QED
    BY <2>1, VaultEntries
<1>3. CASE change.name = "forget"
  <2>1. Target = Unconnected
    BY <1>3 DEF Target
  <2> QED
    BY <2>1 DEF Unconnected, Entry
<1> QED
  BY <1>1, <1>2, <1>3

LEMMA AnswerStep ==
    ASSUME VaultInv, Answer
    PROVE  VaultInv'
<1>1. /\ unlocked /\ step \in {"stored", "refused"}
      /\ step' = "idle" /\ change' = NoWork
      /\ said' = IF step = "stored" THEN {Target} ELSE said
      /\ vault' = vault /\ generation' = generation /\ refresh' = refresh
      /\ vaultFaults' = vaultFaults /\ keys' = keys /\ crashes' = crashes
  BY DEF Answer, counts
<1>2. unlocked' = unlocked /\ quiet' = quiet
  BY Zenon DEF Answer, counts
<1>3. /\ VaultTypes /\ files \in VaultFiles /\ change \in VaultChange /\ vault \in Entry
      /\ vaultFaults \in Nat /\ attempts \in [SignIn -> AttemptState]
      /\ change.name \in {"insert", "install", "forget"}
  BY <1>1 DEF VaultInv, VaultTypes, LabelsMatch, EndSteps
<1>4. /\ files' \in VaultFiles
      /\ files'.vault = files.vault /\ files'.final = files.final
      /\ files'.marker = files.marker /\ files'.backup = files.backup
      /\ attempts' \in [SignIn -> AttemptState]
      /\ \A g \in SignIn : attempts'[g] = "written" =>
             attempts[g] = "written" /\ files'.staged[g] = files.staged[g]
                 /\ (change.name = "install" => g # change.of)
  <2>1. CASE change.name = "install"
    <3>1. /\ attempts' = [attempts EXCEPT ![change.of] = "gone"]
          /\ files' = [files EXCEPT !.staged[change.of] = NoFile]
      BY <2>1 DEF Answer
    <3>2. change.of \in SignIn
      BY <2>1, InstalledSignIn
    <3>3. /\ files' \in VaultFiles
          /\ files'.vault = files.vault /\ files'.final = files.final
          /\ files'.marker = files.marker /\ files'.backup = files.backup
          /\ \A k \in SignIn : k # change.of => files'.staged[k] = files.staged[k]
      BY <1>3, <3>1, <3>2, NoFileIsANumber, StagedChanges
    <3>4. /\ attempts' \in [SignIn -> AttemptState]
          /\ attempts'[change.of] = "gone"
          /\ \A k \in SignIn : k # change.of => attempts'[k] = attempts[k]
      BY <1>3, <3>1, <3>2 DEF AttemptState
    <3> QED
      BY <3>3, <3>4
  <2>2. CASE change.name # "install"
    <3>1. attempts' = attempts /\ files' = files
      BY <2>2 DEF Answer
    <3> QED
      BY <1>3, <2>2, <3>1
  <2> QED
    BY <2>1, <2>2
<1>5. VaultTypes'
  BY <1>1, <1>2, <1>3, <1>4, NoWorkIsAChange DEF VaultTypes
<1>6. LabelsMatch'
  BY <1>1 DEF LabelsMatch, InsertSteps, InstallSteps, ForgetSteps, EndSteps
<1>7. Target \in Entry /\ (Target.auth = "plan" => Target.of # NoFile)
  BY <1>3, TargetHasTokens
<1>8. SaidHasTokens'
  BY <1>1, <1>7 DEF VaultInv, SaidHasTokens
<1>9. InstallInv'
  <2>1. change'.name = "none"
    BY <1>1, NoWorkIsAChange
  <2> QED
    BY <1>1, <1>2, <1>4, <2>1 DEF VaultInv, InstallInv
<1>10. ASSUME Spared'
       PROVE  Whole'
  <2>1. Spared
    BY <1>1, <1>2, <1>3, <1>10 DEF Spared
  <2>2. AtEachStep
    BY <1>1, <2>1 DEF VaultInv, Whole
  <2>3. CASE step = "stored"
    <3>1. AtStored /\ said' = {Target}
      BY <1>1, <2>2, <2>3 DEF AtEachStep
    <3>2. AtRest'
      BY <1>1, <1>4, <3>1 DEF AtStored, AtRest, Stands, Unmoved, Before
    <3> QED
      BY <1>1, <1>2, <3>2 DEF Whole, AtEachStep
  <2>4. CASE step = "refused"
    <3>1. AtRest /\ said' = said
      BY <1>1, <2>2, <2>4 DEF AtEachStep
    <3>2. AtRest'
      BY <1>1, <1>4, <3>1 DEF AtRest, Stands, Unmoved, Before
    <3> QED
      BY <1>1, <1>2, <3>2 DEF Whole, AtEachStep
  <2> QED
    BY <1>1, <2>3, <2>4
<1> QED
  BY <1>5, <1>6, <1>8, <1>9, <1>10 DEF VaultInv

(* The staged files of other sign-ins than the one that is installed are   *)
(* of no concern to a change.                                              *)
StagedOfOthers ==
    /\ files' \in VaultFiles
    /\ files'.vault = files.vault /\ files'.final = files.final
    /\ files'.marker = files.marker /\ files'.backup = files.backup
    /\ change.name = "install" =>
           files'.staged[change.of] = files.staged[change.of]

LEMMA WholeStays ==
    ASSUME VaultInv, unlocked, unlocked' = unlocked, operation' = operation,
           vault' = vault, said' = said, vaultFaults' = vaultFaults, counts' = counts,
           StagedOfOthers, Spared'
    PROVE  Whole'
<1>1. /\ step' = step /\ change' = change /\ crashes' = crashes
      /\ VaultTypes /\ vaultFaults' \in Nat
  BY DEF operation, counts, VaultInv, VaultTypes
<1>2. Spared
  <2>1. crashes' = crashes /\ quiet' = quiet
    BY Zenon DEF counts
  <2> QED
    BY <2>1, Zenon DEF Spared
<1>3. AtEachStep /\ LabelsMatch
  BY <1>2 DEF VaultInv, Whole
<1>4. step \in InstallSteps => change.name = "install"
  BY <1>3 DEF LabelsMatch
<1>5. Troubled' = Troubled
  BY <1>1 DEF Troubled
<1>6. /\ files'.vault = files.vault /\ files'.final = files.final
      /\ files'.marker = files.marker /\ files'.backup = files.backup
      /\ step \in InstallSteps => files'.staged[change.of] = files.staged[change.of]
  BY <1>4 DEF StagedOfOthers
<1> USE DEF Stands, Unmoved, Before, Found
<1>7. step \in {"idle", "refused"} => AtRest'
  BY <1>1, <1>3, <1>6 DEF AtEachStep, AtRest
<1>8. step = "stored" => AtStored'
  <2>1. Target' = Target
    BY <1>1 DEF Target
  <2> QED
    BY <1>1, <1>3, <1>6, <2>1 DEF AtEachStep, AtStored
<1>9. step = "undo" => AtUndo'
  BY <1>1, <1>3, <1>5, <1>6 DEF AtEachStep, AtUndo
<1>10. step = "insert: remove" => AtInsertRemove'
  BY <1>1, <1>3, <1>6 DEF AtEachStep, AtInsertRemove
<1>11. step = "insert: restore" => AtInsertRestore'
  BY <1>1, <1>3, <1>5, <1>6 DEF AtEachStep, AtInsertRestore
<1>12. step = "install: rename" => AtInstallRename'
  BY <1>1, <1>3, <1>6 DEF AtEachStep, AtInstallRename, Installing, InstallSteps
<1>13. step = "install: commit" => AtInstallCommit'
  BY <1>1, <1>3, <1>6 DEF AtEachStep, AtInstallCommit, Installing, InstallSteps
<1>14. step = "install: clean" => AtInstallClean'
  BY <1>1, <1>3, <1>6 DEF AtEachStep, AtInstallClean, Installing, InstallSteps
<1>15. step = "install: rollback" => AtInstallRollback'
  BY <1>1, <1>3, <1>5, <1>6 DEF AtEachStep, AtInstallRollback, Installing, InstallSteps
<1>16. step = "install: return" => AtInstallReturn'
  BY <1>1, <1>3, <1>5, <1>6 DEF AtEachStep, AtInstallReturn, Installing, InstallSteps
<1>17. step = "install: backup" => AtInstallBackup'
  BY <1>1, <1>3, <1>5, <1>6 DEF AtEachStep, AtInstallBackup, Installing, InstallSteps
<1>18. step = "forget: return" => AtForgetReturn'
  BY <1>1, <1>3, <1>5, <1>6 DEF AtEachStep, AtForgetReturn
<1>19. step = "forget: commit" => AtForgetCommit'
  BY <1>1, <1>3, <1>6 DEF AtEachStep, AtForgetCommit, Forgetting
<1>20. step = "forget: marker" => AtForgetMarker'
  BY <1>1, <1>3, <1>6 DEF AtEachStep, AtForgetMarker, Forgetting
<1>21. step = "forget: final" => AtForgetFinal'
  BY <1>1, <1>3, <1>6 DEF AtEachStep, AtForgetFinal, Forgetting
<1>22. step = "forget: rollback" => AtForgetRollback'
  BY <1>1, <1>3, <1>5, <1>6 DEF AtEachStep, AtForgetRollback, Forgetting
<1> HIDE DEF Stands, Unmoved, Before, Found
<1>23. step' = step
  BY <1>1
<1>24. AtEachStep'
  <2>1. CASE step = "idle"
    BY <1>7, <1>23, <2>1 DEF AtEachStep
  <2>2. CASE step = "refused"
    BY <1>7, <1>23, <2>2 DEF AtEachStep
  <2>3. CASE step = "stored"
    BY <1>8, <1>23, <2>3 DEF AtEachStep
  <2>4. CASE step = "undo"
    BY <1>9, <1>23, <2>4 DEF AtEachStep
  <2>5. CASE step = "insert: remove"
    BY <1>10, <1>23, <2>5 DEF AtEachStep
  <2>6. CASE step = "insert: restore"
    BY <1>11, <1>23, <2>6 DEF AtEachStep
  <2>7. CASE step = "install: rename"
    BY <1>12, <1>23, <2>7 DEF AtEachStep
  <2>8. CASE step = "install: commit"
    BY <1>13, <1>23, <2>8 DEF AtEachStep
  <2>9. CASE step = "install: clean"
    BY <1>14, <1>23, <2>9 DEF AtEachStep
  <2>10. CASE step = "install: rollback"
    BY <1>15, <1>23, <2>10 DEF AtEachStep
  <2>11. CASE step = "install: return"
    BY <1>16, <1>23, <2>11 DEF AtEachStep
  <2>12. CASE step = "install: backup"
    BY <1>17, <1>23, <2>12 DEF AtEachStep
  <2>13. CASE step = "forget: return"
    BY <1>18, <1>23, <2>13 DEF AtEachStep
  <2>14. CASE step = "forget: commit"
    BY <1>19, <1>23, <2>14 DEF AtEachStep
  <2>15. CASE step = "forget: marker"
    BY <1>20, <1>23, <2>15 DEF AtEachStep
  <2>16. CASE step = "forget: final"
    BY <1>21, <1>23, <2>16 DEF AtEachStep
  <2>17. CASE step = "forget: rollback"
    BY <1>22, <1>23, <2>17 DEF AtEachStep
  <2> QED
    BY <1>3, <2>1, <2>2, <2>3, <2>4, <2>5, <2>6, <2>7, <2>8, <2>9, <2>10,
       <2>11, <2>12, <2>13, <2>14, <2>15, <2>16, <2>17
    DEF LabelsMatch, InsertSteps, InstallSteps, ForgetSteps, EndSteps
<1> QED
  BY <1>24, Zenon DEF Whole

LEMMA StartSignInStep ==
    ASSUME VaultInv, StartSignIn
    PROVE  VaultInv'
<1>1. PICK n : n = generation + 1
  OBVIOUS
<1>2. /\ unlocked /\ unlocked' = unlocked /\ operation' = operation
      /\ counts' = counts /\ quiet' = quiet
  BY Zenon DEF StartSignIn, counts
<1>3. /\ change.name # "install" /\ generation < MaxSignIns
      /\ vault' = vault /\ refresh' = refresh /\ said' = said
      /\ vaultFaults' = vaultFaults
      /\ generation' = n
      /\ attempts' = [attempts EXCEPT ![n] = "polling"]
      /\ files' = [files EXCEPT !.staged[n] = Blank]
  BY <1>1 DEF StartSignIn
<1>4. /\ VaultTypes /\ files \in VaultFiles /\ generation \in 0 .. MaxSignIns
      /\ attempts \in [SignIn -> AttemptState]
  BY DEF VaultInv, VaultTypes
<1>5. n \in SignIn /\ n \in 0 .. MaxSignIns
  BY <1>1, <1>3, <1>4, VaultAssumed DEF SignIn
<1>6. Blank \in Int
  BY DEF Blank
<1>7. /\ files' \in VaultFiles
      /\ files'.vault = files.vault /\ files'.final = files.final
      /\ files'.marker = files.marker /\ files'.backup = files.backup
      /\ \A k \in SignIn : k # n => files'.staged[k] = files.staged[k]
  BY <1>3, <1>4, <1>5, <1>6, StagedChanges
<1>8. /\ attempts' \in [SignIn -> AttemptState]
      /\ attempts'[n] = "polling"
      /\ \A k \in SignIn : k # n => attempts'[k] = attempts[k]
  BY <1>3, <1>4, <1>5 DEF AttemptState
<1>9. /\ step' = step /\ change' = change
      /\ keys' = keys /\ crashes' = crashes
  BY <1>2 DEF operation, counts
<1>10. VaultTypes'
  BY <1>2, <1>3, <1>4, <1>5, <1>7, <1>8, <1>9 DEF VaultTypes
<1>11. LabelsMatch'
  BY <1>9 DEF VaultInv, LabelsMatch
<1>12. SaidHasTokens'
  BY <1>3 DEF VaultInv, SaidHasTokens
<1>13. InstallInv'
  BY <1>2, <1>3, <1>7, <1>8, <1>9 DEF VaultInv, InstallInv
<1>14. StagedOfOthers
  BY <1>3, <1>7 DEF StagedOfOthers
<1>15. Spared' => Whole'
  BY <1>2, <1>3, <1>14, WholeStays
<1> QED
  BY <1>10, <1>11, <1>12, <1>13, <1>15 DEF VaultInv

LEMMA SignInMovesStep ==
    ASSUME VaultInv, NEW g \in SignIn, NEW from, NEW to \in AttemptState,
           NEW content \in Int,
           SignInMoves(g, from, to, content),
           from = "written" => g # generation,
           to = "written" => content = g
    PROVE  VaultInv'
<1>1. /\ unlocked /\ unlocked' = unlocked /\ operation' = operation
      /\ counts' = counts /\ quiet' = quiet
  BY Zenon DEF SignInMoves, counts
<1>2. /\ attempts[g] = from /\ vault' = vault /\ refresh' = refresh /\ said' = said
      /\ vaultFaults' = vaultFaults /\ generation' = generation
      /\ attempts' = [attempts EXCEPT ![g] = to]
      /\ files' = [files EXCEPT !.staged[g] = content]
  BY DEF SignInMoves
<1>3. /\ VaultTypes /\ files \in VaultFiles
      /\ attempts \in [SignIn -> AttemptState]
  BY DEF VaultInv, VaultTypes
<1>4. /\ files' \in VaultFiles
      /\ files'.vault = files.vault /\ files'.final = files.final
      /\ files'.marker = files.marker /\ files'.backup = files.backup
      /\ files'.staged[g] = content
      /\ \A k \in SignIn : k # g => files'.staged[k] = files.staged[k]
  BY <1>2, <1>3, StagedChanges
<1>5. /\ attempts' \in [SignIn -> AttemptState]
      /\ attempts'[g] = to
      /\ \A k \in SignIn : k # g => attempts'[k] = attempts[k]
  BY <1>2, <1>3
<1>6. /\ step' = step /\ change' = change
      /\ keys' = keys /\ crashes' = crashes
  BY <1>1 DEF operation, counts
<1>7. change.name = "install" => change.of # g /\ change.of \in SignIn
  BY <1>2 DEF VaultInv, InstallInv
<1>8. VaultTypes'
  BY <1>1, <1>2, <1>3, <1>4, <1>5, <1>6 DEF VaultTypes
<1>9. LabelsMatch'
  BY <1>6 DEF VaultInv, LabelsMatch
<1>10. SaidHasTokens'
  BY <1>2 DEF VaultInv, SaidHasTokens
<1>11. InstallInv'
  BY <1>1, <1>2, <1>4, <1>5, <1>6, <1>7 DEF VaultInv, InstallInv
<1>12. StagedOfOthers
  BY <1>4, <1>7 DEF StagedOfOthers
<1>13. Spared' => Whole'
  BY <1>1, <1>2, <1>12, WholeStays
<1> QED
  BY <1>8, <1>9, <1>10, <1>11, <1>13 DEF VaultInv

LEMMA SignInStep ==
    ASSUME VaultInv, NEW g \in SignIn,
           \/ TokensArrive(g) \/ TokensWritten(g) \/ SignInFails(g)
           \/ DiscardSignIn(g) \/ OrphanWrites(g)
    PROVE  VaultInv'
<1>1. g \in Int /\ files.staged[g] \in Int /\ NoFile \in Int
  BY VaultAssumed, NoFileIsANumber DEF SignIn, VaultInv, VaultTypes, VaultFiles
<1>2. /\ "written" \in AttemptState /\ "writing" \in AttemptState
      /\ "gone" \in AttemptState /\ "orphan" \in AttemptState
  BY DEF AttemptState
<1>3. CASE TokensArrive(g)
  <2>1. SignInMoves(g, "polling", "writing", files.staged[g])
    BY <1>3 DEF TokensArrive
  <2> QED
    BY <1>1, <1>2, <2>1, SignInMovesStep
<1>4. CASE TokensWritten(g)
  <2>1. SignInMoves(g, "writing", "written", g)
    BY <1>4 DEF TokensWritten
  <2> QED
    BY <1>1, <1>2, <2>1, SignInMovesStep
<1>5. CASE SignInFails(g)
  <2>1. SignInMoves(g, "polling", "gone", NoFile)
    BY <1>5 DEF SignInFails
  <2> QED
    BY <1>1, <1>2, <2>1, SignInMovesStep
<1>6. CASE DiscardSignIn(g)
  <2>1. g # generation
    BY <1>6 DEF DiscardSignIn
  <2>2. CASE SignInMoves(g, "polling", "gone", NoFile)
    BY <1>1, <1>2, <2>2, SignInMovesStep
  <2>3. CASE SignInMoves(g, "writing", "orphan", NoFile)
    BY <1>1, <1>2, <2>3, SignInMovesStep
  <2>4. CASE SignInMoves(g, "written", "gone", NoFile)
    BY <1>1, <1>2, <2>1, <2>4, SignInMovesStep
  <2> QED
    BY <1>6, <2>2, <2>3, <2>4 DEF DiscardSignIn
<1>7. CASE OrphanWrites(g)
  <2>1. SignInMoves(g, "orphan", "gone", g)
    BY <1>7 DEF OrphanWrites
  <2> QED
    BY <1>1, <1>2, <2>1, SignInMovesStep
<1> QED
  BY <1>3, <1>4, <1>5, <1>6, <1>7

-----------------------------------------------------------------------------
LEMMA RefreshBeginsStep ==
    ASSUME VaultInv, RefreshBegins
    PROVE  VaultInv'
<1>1. /\ unlocked /\ unlocked' = unlocked /\ operation' = operation
      /\ counts' = counts /\ quiet' = quiet /\ signIns' = signIns
  BY Zenon DEF RefreshBegins, counts
<1>2. /\ vault' = vault /\ files' = files /\ refresh' = files.final /\ said' = said
      /\ vaultFaults' = vaultFaults
  BY DEF RefreshBegins
<1>3. VaultTypes /\ files \in VaultFiles /\ files.final \in Int
  BY FileFields DEF VaultInv, VaultTypes
<1>4. /\ step' = step /\ change' = change /\ keys' = keys /\ crashes' = crashes
      /\ generation' = generation /\ attempts' = attempts
  BY <1>1 DEF operation, counts, signIns
<1>5. VaultTypes'
  BY <1>1, <1>2, <1>3, <1>4 DEF VaultTypes
<1>6. LabelsMatch'
  BY <1>4 DEF VaultInv, LabelsMatch
<1>7. SaidHasTokens'
  BY <1>2 DEF VaultInv, SaidHasTokens
<1>8. InstallInv'
  BY <1>1, <1>2, <1>4 DEF VaultInv, InstallInv
<1>9. StagedOfOthers
  BY <1>2, <1>3 DEF StagedOfOthers
<1>10. Spared' => Whole'
  BY <1>1, <1>2, <1>9, WholeStays
<1> QED
  BY <1>5, <1>6, <1>7, <1>8, <1>10 DEF VaultInv

LEMMA RefreshEndsStep ==
    ASSUME VaultInv, RefreshEnds
    PROVE  VaultInv'
<1>1. /\ unlocked /\ unlocked' = unlocked /\ operation' = operation
      /\ signIns' = signIns
  BY Zenon DEF RefreshEnds
<1>2. /\ vault' = vault /\ refresh' = NoFile /\ said' = said
      /\ vaultFaults' = vaultFaults
      /\ keys' = keys /\ crashes' = crashes /\ stops' = stops
  BY DEF RefreshEnds
<1>3. /\ VaultTypes /\ files \in VaultFiles /\ files.final \in Int /\ refresh \in Int
      /\ quiet \in BOOLEAN
  BY FileFields DEF VaultInv, VaultTypes
<1>4. /\ step' = step /\ change' = change
      /\ generation' = generation /\ attempts' = attempts
  BY <1>1 DEF operation, signIns
<1>5. /\ files' \in VaultFiles
      /\ files'.vault = files.vault /\ files'.marker = files.marker
      /\ files'.backup = files.backup /\ files'.staged = files.staged
  <2>1. \/ files' = [files EXCEPT !.final = refresh]
        \/ files' = files
    BY DEF RefreshEnds
  <2>2. CASE files' = [files EXCEPT !.final = refresh]
    BY <1>3, <2>2, FinalChanges
  <2>3. CASE files' = files
    BY <1>3, <2>3
  <2> QED
    BY <2>1, <2>2, <2>3
<1>6. quiet' \in BOOLEAN
  BY <1>3, Zenon DEF RefreshEnds
<1>7. quiet' => quiet /\ files'.final = files.final
  <2>1. CASE /\ files' = [files EXCEPT !.final = refresh]
             /\ quiet' = (quiet /\ step = "idle" /\ files.final = refresh)
    <3>1. files'.final = refresh
      BY <1>3, <2>1, FinalChanges
    <3> QED
      BY <2>1, <3>1, Zenon
  <2>2. CASE files' = files /\ quiet' = quiet
    BY <2>2
  <2> QED
    BY <2>1, <2>2, Zenon DEF RefreshEnds
<1>8. VaultTypes'
  BY <1>1, <1>2, <1>3, <1>4, <1>5, <1>6, NoFileIsANumber DEF VaultTypes
<1>9. LabelsMatch'
  BY <1>4 DEF VaultInv, LabelsMatch
<1>10. SaidHasTokens'
  BY <1>2 DEF VaultInv, SaidHasTokens
<1>11. InstallInv'
  BY <1>1, <1>4, <1>5 DEF VaultInv, InstallInv
<1>12. ASSUME Spared' PROVE Whole'
  <2>1. quiet'
    BY <1>12, Zenon DEF Spared
  <2>2. counts' = counts
    <3>1. quiet' = quiet
      BY <1>7, <2>1, <1>3, Zenon
    <3> QED
      BY <1>2, <3>1 DEF counts
  <2>3. StagedOfOthers
    BY <1>5, <1>7, <2>1 DEF StagedOfOthers
  <2> QED
    BY <1>1, <1>2, <1>12, <2>2, <2>3, WholeStays
<1> QED
  BY <1>8, <1>9, <1>10, <1>11, <1>12 DEF VaultInv

-----------------------------------------------------------------------------
(* A crash, and what the next start finds.                                 *)
LEMMA StepsEnd ==
    ASSUME VaultInv, unlocked, VaultCrash, Spared'
    PROVE  Down'
<1>1. /\ files' = files /\ vaultFaults' = vaultFaults
      /\ crashes' = crashes + IF step = "idle" THEN 0 ELSE 1
      /\ said' = IF step = "idle" THEN said ELSE said \union {Target}
  BY DEF VaultCrash
<1>2. /\ VaultTypes /\ files \in VaultFiles /\ vaultFaults \in Nat /\ crashes \in Nat
      /\ vault \in Entry /\ LabelsMatch /\ SaidHasTokens /\ change \in VaultChange
  BY DEF VaultInv, VaultTypes
<1>3. /\ files.final \in Int /\ files.marker \in Int /\ files.backup \in Int
      /\ files.vault \in Entry /\ change.bytes \in Int
  BY <1>2, FileFields, ChangeFields
<1>4. Spared
  <2>1. quiet' = quiet
    BY Zenon DEF VaultCrash
  <2>2. vaultFaults' + crashes' <= 1 /\ quiet'
    BY Zenon DEF Spared
  <2>3. vaultFaults + crashes <= 1
    BY <1>1, <1>2, <2>2
  <2> QED
    BY <2>1, <2>2, <2>3, Zenon DEF Spared
<1>5. step # "idle" => ~Troubled
  <2>1. vaultFaults' + crashes' <= 1
    BY Zenon DEF Spared
  <2>2. step # "idle" => ~(vaultFaults + crashes >= 1)
    BY <1>1, <1>2, <2>1
  <2> QED
    BY <2>2 DEF Troubled
<1>6. AtEachStep
  BY <1>4 DEF VaultInv, Whole
<1> DEFINE kept == IF files.final = NoFile THEN files.marker ELSE files.final
<1>7. SUFFICES Opens /\ Connection(files.vault, kept) \in said'
  <2>1. Opens' = Opens
    BY <1>1 DEF Opens
  <2> QED
    BY <1>1, <2>1 DEF Down
<1> USE DEF Stands, Unmoved, Before, Found
<1>8. CASE step \in {"idle", "refused"}
  <2>1. AtRest
    BY <1>6, <1>8 DEF AtEachStep
  <2>2. files.vault = Plan => files.final # NoFile
    BY <1>2, <1>3, <2>1, TokensWereSaid DEF AtRest
  <2>3. Connection(files.vault, kept) \in said
    BY <2>1, <2>2 DEF AtRest, Connection
  <2> QED
    BY <1>1, <2>1, <2>2, <2>3 DEF AtRest, Opens
<1>9. CASE step = "stored"
  <2>1. AtStored
    BY <1>6, <1>9 DEF AtEachStep
  <2>2. Target \in Entry /\ (Target.auth = "plan" => Target.of # NoFile)
    BY <1>2, <1>9, TargetHasTokens DEF LabelsMatch, EndSteps
  <2>3. files.vault = Plan => files.final # NoFile
    BY <1>3, <2>1, <2>2, VaultEntries DEF AtStored, Connection
  <2>4. Connection(files.vault, kept) = Target
    BY <2>1, <2>3 DEF AtStored, Connection
  <2> QED
    BY <1>1, <1>9, <2>1, <2>3, <2>4 DEF AtStored, Opens
<1>10. CASE step = "insert: remove"
  <2>1. AtInsertRemove /\ change.name = "insert"
    BY <1>2, <1>6, <1>10 DEF AtEachStep, LabelsMatch, InsertSteps
  <2>2. files.vault = Target /\ files.vault # Plan /\ files.marker = NoFile
    BY <1>2, <2>1, VaultEntries, ChangeFields DEF AtInsertRemove, Target
  <2> QED
    BY <1>1, <1>10, <2>2 DEF Opens, Connection
<1>11. CASE step = "install: rename"
  <2>1. AtInstallRename
    BY <1>6, <1>11 DEF AtEachStep
  <2>2. files.vault = Plan => files.final # NoFile
    BY <1>2, <1>3, <2>1, TokensWereSaid DEF AtInstallRename, Installing
  <2>3. Connection(files.vault, kept) \in said
    BY <2>1, <2>2 DEF AtInstallRename, Installing, Connection
  <2> QED
    BY <1>1, <2>1, <2>2, <2>3 DEF AtInstallRename, Installing, Opens
<1>12. CASE step \in {"install: commit", "install: clean"}
  <2>1. change.name = "install"
    BY <1>2, <1>12 DEF LabelsMatch, InstallSteps
  <2>2. change.of # NoFile
    BY <2>1, InstalledSignIn
  <2>3. Target = PlanOf(change.of)
    BY <2>1 DEF Target
  <2>4. CASE files.vault = Plan
    <3>1. files.final = change.of /\ files.marker = NoFile
      BY <1>6, <1>12 DEF AtEachStep, AtInstallCommit, AtInstallClean, Installing
    <3> QED
      BY <1>1, <1>12, <2>2, <2>3, <2>4, <3>1 DEF Opens, Connection
  <2>5. CASE files.vault # Plan
    <3>1. AtInstallCommit
      BY <1>6, <1>12, <2>5 DEF AtEachStep, AtInstallClean
    <3>2. files.vault \in said /\ files.marker = NoFile
      BY <2>5, <3>1 DEF AtInstallCommit, Installing, Connection
    <3> QED
      BY <1>1, <2>5, <3>2 DEF Opens, Connection
  <2> QED
    BY <2>4, <2>5
<1>13. CASE step = "forget: commit"
  <2>1. AtForgetCommit
    BY <1>6, <1>13 DEF AtEachStep
  <2>2. files.vault = Plan => files.marker # NoFile
    BY <1>2, <1>3, <2>1, TokensWereSaid DEF AtForgetCommit
  <2> QED
    BY <1>1, <2>1, <2>2 DEF AtForgetCommit, Forgetting, Opens, Connection
<1>14. CASE step \in {"forget: marker", "forget: final"}
  <2>1. change.name = "forget"
    BY <1>2, <1>14 DEF LabelsMatch, ForgetSteps
  <2>2. Target = Unconnected
    BY <2>1 DEF Target
  <2>3. files.vault = Unconnected /\ files.final = NoFile
    BY <1>6, <1>14 DEF AtEachStep, AtForgetMarker, AtForgetFinal, Forgetting
  <2> QED
    BY <1>1, <1>14, <2>2, <2>3, VaultEntries DEF Opens, Connection
<1>15. CASE step \in {"undo", "insert: restore", "install: rollback", "install: return",
                      "install: backup", "forget: return", "forget: rollback"}
  <2>1. Troubled
    BY <1>6, <1>15
    DEF AtEachStep, AtUndo, AtInsertRestore, AtInstallRollback, AtInstallReturn,
        AtInstallBackup, AtForgetReturn, AtForgetRollback
  <2> QED
    BY <1>5, <1>15, <2>1
<1> QED
  BY <1>2, <1>8, <1>9, <1>10, <1>11, <1>12, <1>13, <1>14, <1>15
  DEF LabelsMatch, InsertSteps, InstallSteps, ForgetSteps, EndSteps

LEMMA VaultCrashStep ==
    ASSUME VaultInv, VaultCrash
    PROVE  VaultInv'
<1>1. unlocked /\ ~unlocked' /\ unlocked' \in BOOLEAN
  BY Zenon DEF VaultCrash
<1>2. quiet' = quiet
  BY Zenon DEF VaultCrash
<1>3. /\ step' = "idle" /\ change' = NoWork /\ vault' = Unconnected
      /\ attempts' = [g \in SignIn |-> "none"] /\ refresh' = NoFile
      /\ files' = files /\ generation' = generation /\ keys' = keys
      /\ vaultFaults' = vaultFaults
      /\ crashes' = crashes + IF step = "idle" THEN 0 ELSE 1
      /\ said' = IF step = "idle" THEN said ELSE said \union {Target}
  BY DEF VaultCrash
<1>4. /\ VaultTypes /\ LabelsMatch /\ SaidHasTokens /\ crashes \in Nat
  BY DEF VaultInv, VaultTypes
<1>5. VaultTypes'
  <2>1. crashes' \in Nat
    BY <1>3, <1>4
  <2>2. attempts' \in [SignIn -> AttemptState]
    BY <1>3 DEF AttemptState
  <2> QED
    BY <1>1, <1>2, <1>3, <1>4, <2>1, <2>2, NoWorkIsAChange, NoFileIsANumber, VaultEntries
    DEF VaultTypes
<1>6. LabelsMatch'
  BY <1>3 DEF LabelsMatch, InsertSteps, InstallSteps, ForgetSteps, EndSteps
<1>7. SaidHasTokens'
  <2>1. CASE step = "idle"
    BY <1>3, <1>4, <2>1 DEF SaidHasTokens
  <2>2. CASE step # "idle"
    <3>1. change.name \in {"insert", "install", "forget"}
      BY <1>4, <2>2 DEF LabelsMatch, EndSteps
    <3>2. Target \in Entry /\ (Target.auth = "plan" => Target.of # NoFile)
      BY <3>1, TargetHasTokens
    <3> QED
      BY <1>3, <1>4, <2>2, <3>2 DEF SaidHasTokens
  <2> QED
    BY <2>1, <2>2
<1>8. InstallInv'
  <2>1. change'.name = "none"
    BY <1>3, NoWorkIsAChange
  <2> QED
    BY <1>1, <1>3, <2>1 DEF InstallInv
<1>9. Spared' => Whole'
  BY <1>1, StepsEnd DEF Whole
<1> QED
  BY <1>5, <1>6, <1>7, <1>8, <1>9 DEF VaultInv

LEMMA DownStays ==
    ASSUME VaultInv, ~unlocked, said' = said, vaultFaults' = vaultFaults,
           counts' = counts, Spared'
    PROVE  Down
<1>1. crashes' = crashes /\ quiet' = quiet
  BY Zenon DEF counts
<1>2. Spared
  BY <1>1, Zenon DEF Spared
<1> QED
  BY <1>2 DEF VaultInv, Whole

(* A start moves a marker back and removes what was left.                  *)
LEMMA RestoredFiles ==
    ASSUME VaultTypes
    PROVE  /\ Restored \in VaultFiles /\ Restored.vault = files.vault
           /\ Restored.staged = files.staged
           /\ Reconciled \in VaultFiles /\ Reconciled.vault = files.vault
           /\ Reconciled.marker = NoFile /\ Reconciled.backup = NoFile
           /\ Reconciled.final = IF files.vault = Plan THEN Restored.final ELSE NoFile
           /\ files.vault = Plan /\ files.final = NoFile =>
                  Restored.final = files.marker /\ Restored.marker = NoFile
           /\ ~(files.vault = Plan /\ files.final = NoFile) => Restored = files
<1>1. files \in VaultFiles
  BY DEF VaultTypes
<1>2. /\ Unmarked \in VaultFiles
      /\ Unmarked.vault = files.vault /\ Unmarked.final = files.marker
      /\ Unmarked.marker = NoFile /\ Unmarked.staged = files.staged
  BY <1>1, NoFileIsANumber DEF VaultFiles, Unmarked
<1>3. /\ Restored \in VaultFiles /\ Restored.vault = files.vault
      /\ Restored.staged = files.staged
      /\ files.vault = Plan /\ files.final = NoFile =>
             Restored.final = files.marker /\ Restored.marker = NoFile
      /\ ~(files.vault = Plan /\ files.final = NoFile) => Restored = files
  BY <1>1, <1>2 DEF Restored
<1>4. /\ Reconciled \in VaultFiles /\ Reconciled.vault = files.vault
      /\ Reconciled.marker = NoFile /\ Reconciled.backup = NoFile
      /\ Reconciled.final = IF files.vault = Plan THEN Restored.final ELSE NoFile
  BY <1>1, <1>3, NoFileIsANumber DEF Reconciled, VaultFiles
<1> QED
  BY <1>3, <1>4

LEMMA VaultStartStep ==
    ASSUME VaultInv, VaultStart
    PROVE  VaultInv'
<1>1. ~unlocked /\ unlocked' /\ counts' = counts /\ quiet' = quiet
  BY Zenon DEF VaultStart, counts
<1>2. /\ files' = Reconciled /\ vault' = files.vault /\ operation' = operation
      /\ signIns' = signIns /\ refresh' = refresh /\ said' = said
      /\ vaultFaults' = vaultFaults
  BY DEF VaultStart
<1>3. /\ VaultTypes /\ files \in VaultFiles /\ files.vault \in Entry
      /\ step = "idle" /\ change = NoWork
      /\ \A g \in SignIn : attempts[g] = "none"
  BY <1>1, FileFields DEF VaultInv, VaultTypes, InstallInv, LabelsMatch
<1>4. /\ step' = step /\ change' = change /\ keys' = keys /\ crashes' = crashes
      /\ generation' = generation /\ attempts' = attempts
  BY <1>1, <1>2 DEF operation, counts, signIns
<1>5. /\ files' \in VaultFiles /\ files'.vault = files.vault
      /\ files'.marker = NoFile /\ files'.backup = NoFile
      /\ files'.final = IF files.vault = Plan THEN Restored.final ELSE NoFile
  BY <1>2, <1>3, RestoredFiles
<1>6. VaultTypes'
  BY <1>1, <1>2, <1>3, <1>4, <1>5 DEF VaultTypes
<1>7. LabelsMatch'
  BY <1>4 DEF VaultInv, LabelsMatch
<1>8. SaidHasTokens'
  BY <1>2 DEF VaultInv, SaidHasTokens
<1>9. InstallInv'
  <2>1. change'.name = "none"
    BY <1>3, <1>4, NoWorkIsAChange
  <2> QED
    BY <1>1, <1>3, <1>4, <2>1 DEF InstallInv
<1>10. ASSUME Spared' PROVE Whole'
  <2>1. Down
    BY <1>1, <1>2, <1>10, DownStays
  <2>2. Before(files.vault, files.final)'
    <3>1. CASE files.vault = Plan
      <4>1. files'.final = IF files.final = NoFile THEN files.marker ELSE files.final
        BY <1>3, <1>5, <3>1, RestoredFiles
      <4> QED
        BY <1>2, <1>5, <2>1, <3>1, <4>1 DEF Down, Before
    <3>2. CASE files.vault # Plan
      BY <1>2, <1>5, <2>1, <3>2 DEF Down, Before, Connection
    <3> QED
      BY <3>1, <3>2
  <2>3. AtRest'
    BY <1>2, <1>5, <2>2 DEF AtRest, Stands, Unmoved
  <2>4. step' = "idle"
    BY <1>3, <1>4
  <2>5. AtEachStep'
    BY <2>3, <2>4 DEF AtEachStep
  <2> QED
    BY <1>1, <2>5 DEF Whole
<1> QED
  BY <1>6, <1>7, <1>8, <1>9, <1>10 DEF VaultInv

LEMMA StartStopsStep ==
    ASSUME VaultInv, StartStops
    PROVE  VaultInv'
<1>1. /\ ~unlocked /\ ~unlocked' /\ unlocked' = unlocked
      /\ counts' = counts /\ quiet' = quiet
  BY Zenon DEF StartStops, counts
<1>2. /\ files' \in {Restored, [Reconciled EXCEPT !.staged = files.staged]}
      /\ vault' = vault /\ operation' = operation
      /\ signIns' = signIns /\ refresh' = refresh /\ said' = said
      /\ vaultFaults' = vaultFaults /\ Opens
  BY DEF StartStops
<1>3. /\ VaultTypes /\ files \in VaultFiles /\ files.vault \in Entry
      /\ step = "idle" /\ change = NoWork
      /\ \A g \in SignIn : attempts[g] = "none"
  BY <1>1, FileFields DEF VaultInv, VaultTypes, InstallInv, LabelsMatch
<1>4. /\ step' = step /\ change' = change /\ keys' = keys /\ crashes' = crashes
      /\ generation' = generation /\ attempts' = attempts
  BY <1>1, <1>2 DEF operation, counts, signIns
<1>5. /\ files' \in VaultFiles /\ files'.vault = files.vault
      /\ \/ files' = Restored
         \/ /\ files'.marker = NoFile
            /\ files'.final = IF files.vault = Plan THEN Restored.final ELSE NoFile
  <2>1. CASE files' = Restored
    BY <1>3, <2>1, RestoredFiles
  <2>2. CASE files' = [Reconciled EXCEPT !.staged = files.staged]
    <3>1. Reconciled \in VaultFiles
      BY <1>3, RestoredFiles
    <3>2. /\ files' \in VaultFiles /\ files'.vault = Reconciled.vault
          /\ files'.marker = Reconciled.marker /\ files'.final = Reconciled.final
      BY <1>3, <2>2, <3>1 DEF VaultFiles
    <3> QED
      BY <1>3, <3>2, RestoredFiles
  <2> QED
    BY <1>2, <2>1, <2>2
<1>6. VaultTypes'
  BY <1>1, <1>2, <1>3, <1>4, <1>5 DEF VaultTypes
<1>7. LabelsMatch'
  BY <1>4 DEF VaultInv, LabelsMatch
<1>8. SaidHasTokens'
  BY <1>2 DEF VaultInv, SaidHasTokens
<1>9. InstallInv'
  <2>1. change'.name = "none"
    BY <1>3, <1>4, NoWorkIsAChange
  <2> QED
    BY <1>1, <1>3, <1>4, <2>1 DEF InstallInv
<1>10. ASSUME Spared' PROVE Whole'
  <2>1. Down
    BY <1>1, <1>2, <1>10, DownStays
  <2>2. CASE files.vault = Plan
    <3>1. files.marker # NoFile \/ files.final # NoFile
      BY <1>2, <2>2 DEF Opens
    <3>2. files.marker = NoFile \/ files.final = NoFile
      BY <1>2, <2>2 DEF Opens
    <3>3. /\ files'.final = IF files.final = NoFile THEN files.marker ELSE files.final
          /\ files'.marker = NoFile
      BY <1>3, <1>5, <2>2, <3>2, RestoredFiles
    <3> QED
      BY <1>1, <1>2, <1>5, <2>1, <2>2, <3>1, <3>3 DEF Down, Whole, Opens
  <2>3. CASE files.vault # Plan
    <3>1. Opens'
      BY <1>2, <1>3, <1>5, <2>3, RestoredFiles DEF Opens
    <3> QED
      BY <1>1, <1>2, <1>5, <2>1, <2>3, <3>1 DEF Down, Whole, Connection
  <2> QED
    BY <2>2, <2>3
<1> QED
  BY <1>6, <1>7, <1>8, <1>9, <1>10 DEF VaultInv

-----------------------------------------------------------------------------
LEMMA VaultInitHolds ==
    VaultInit => VaultInv
<1> SUFFICES ASSUME VaultInit PROVE VaultInv
  OBVIOUS
<1>1. /\ unlocked = TRUE /\ quiet = TRUE
  BY Zenon DEF VaultInit
<1>2. /\ vault = Unconnected /\ step = "idle" /\ change = NoWork
      /\ generation = 0 /\ attempts = [g \in SignIn |-> "none"] /\ refresh = NoFile
      /\ said = {Unconnected} /\ keys = 0 /\ vaultFaults = 0 /\ crashes = 0
      /\ files = [vault |-> Unconnected, final |-> NoFile, marker |-> NoFile,
                  backup |-> NoFile, staged |-> [g \in SignIn |-> NoFile]]
  BY DEF VaultInit
<1>3. /\ files \in VaultFiles /\ files.vault = Unconnected /\ files.final = NoFile
      /\ files.marker = NoFile /\ files.backup = NoFile
  BY <1>2, VaultEntries, NoFileIsANumber DEF VaultFiles
<1>4. generation \in 0 .. MaxSignIns
  BY <1>2, VaultAssumed
<1>5. VaultTypes
  BY <1>1, <1>2, <1>3, <1>4, VaultEntries, NoWorkIsAChange, NoFileIsANumber
  DEF VaultTypes, AttemptState
<1>6. LabelsMatch
  BY <1>2 DEF LabelsMatch, InsertSteps, InstallSteps, ForgetSteps, EndSteps
<1>7. SaidHasTokens
  BY <1>2 DEF SaidHasTokens, Unconnected, Entry
<1>8. InstallInv
  <2>1. change.name = "none"
    BY <1>2, NoWorkIsAChange
  <2> QED
    BY <1>1, <1>2, <2>1 DEF InstallInv
<1>9. AtRest
  BY <1>2, <1>3, VaultEntries DEF AtRest, Stands, Unmoved, Before, Connection
<1>10. AtEachStep
  BY <1>2, <1>9 DEF AtEachStep
<1>11. Whole
  BY <1>1, <1>10 DEF Whole
<1> QED
  BY <1>5, <1>6, <1>7, <1>8, <1>11 DEF VaultInv

LEMMA VaultStutters ==
    ASSUME VaultInv, UNCHANGED vaultVars
    PROVE  VaultInv'
<1>1. /\ unlocked' = unlocked /\ operation' = operation /\ counts' = counts
      /\ signIns' = signIns /\ quiet' = quiet
  BY Zenon DEF vaultVars, counts
<1>2. /\ vault' = vault /\ files' = files /\ refresh' = refresh /\ said' = said
      /\ vaultFaults' = vaultFaults
  BY DEF vaultVars
<1>3. /\ step' = step /\ change' = change /\ keys' = keys /\ crashes' = crashes
      /\ generation' = generation /\ attempts' = attempts
  BY <1>1 DEF operation, counts, signIns
<1>4. VaultTypes'
  BY <1>1, <1>2, <1>3 DEF VaultInv, VaultTypes
<1>5. LabelsMatch'
  BY <1>3 DEF VaultInv, LabelsMatch
<1>6. SaidHasTokens'
  BY <1>2 DEF VaultInv, SaidHasTokens
<1>7. InstallInv'
  BY <1>1, <1>2, <1>3 DEF VaultInv, InstallInv
<1>8. ASSUME Spared' PROVE Whole'
  <2>1. CASE unlocked
    <3>1. StagedOfOthers
      BY <1>2 DEF VaultInv, VaultTypes, StagedOfOthers
    <3> QED
      BY <1>1, <1>2, <1>8, <2>1, <3>1, WholeStays
  <2>2. CASE ~unlocked
    <3>1. Down
      BY <1>1, <1>2, <1>8, <2>2, DownStays
    <3>2. Down'
      BY <1>2, <3>1 DEF Down, Opens
    <3> QED
      BY <1>1, <2>2, <3>2 DEF Whole
  <2> QED
    BY <2>1, <2>2
<1> QED
  BY <1>4, <1>5, <1>6, <1>7, <1>8 DEF VaultInv

LEMMA VaultStepHolds ==
    VaultInv /\ [VaultNext]_vaultVars => VaultInv'
<1> SUFFICES ASSUME VaultInv, [VaultNext]_vaultVars
             PROVE  VaultInv'
  OBVIOUS
<1>1. CASE InsertKey \/ RemovePlanFile \/ RestorePlanFile
  BY <1>1, InsertKeyStep, RemovePlanFileStep, RestorePlanFileStep
<1>2. CASE \/ RenameStaged \/ CommitPlan \/ RemoveBackup \/ RollbackInstall
           \/ ReturnToStage \/ RestoreBackup
  BY <1>2, RenameStagedStep, CommitPlanStep, RemoveBackupStep, RollbackInstallStep,
     ReturnToStageStep, RestoreBackupStep
<1>3. CASE \/ Forget \/ ReturnFromMarker \/ CommitForget \/ RemoveMarker \/ RemoveFinal
           \/ RollbackForget
  BY <1>3, ForgetStep, ReturnFromMarkerStep, CommitForgetStep, RemoveMarkerStep,
     RemoveFinalStep, RollbackForgetStep
<1>4. CASE Undo \/ Answer \/ StartSignIn
  BY <1>4, UndoStep, AnswerStep, StartSignInStep
<1>5. CASE \E g \in SignIn : InstallPlan(g)
  BY <1>5, InstallPlanStep
<1>6. CASE \E g \in SignIn : \/ TokensArrive(g) \/ TokensWritten(g) \/ SignInFails(g)
                             \/ DiscardSignIn(g) \/ OrphanWrites(g)
  BY <1>6, SignInStep
<1>7. CASE RefreshBegins \/ RefreshEnds
  BY <1>7, RefreshBeginsStep, RefreshEndsStep
<1>8. CASE VaultCrash \/ VaultStart \/ StartStops
  BY <1>8, VaultCrashStep, VaultStartStep, StartStopsStep
<1>9. CASE UNCHANGED vaultVars
  BY <1>9, VaultStutters
<1> QED
  BY <1>1, <1>2, <1>3, <1>4, <1>5, <1>6, <1>7, <1>8, <1>9, Zenon DEF VaultNext

LEMMA WholeFollows ==
    VaultInv => ConnectionIsWhole
<1> SUFFICES ASSUME VaultInv, vaultFaults + crashes <= 1 /\ quiet
             PROVE  /\ ~unlocked => Opens
                    /\ unlocked /\ step = "idle" =>
                           /\ Connection(files.vault, files.final) \in said
                           /\ vault = files.vault
                           /\ files.vault # Plan => files.final = NoFile
                           /\ files.marker = NoFile /\ files.backup = NoFile
  BY DEF ConnectionIsWhole
<1>1. Whole
  BY DEF VaultInv, Spared
<1>2. ~unlocked => Opens
  BY <1>1 DEF Whole, Down
<1>3. unlocked /\ step = "idle" => AtRest
  BY <1>1 DEF Whole, AtEachStep
<1> QED
  BY <1>2, <1>3 DEF AtRest, Stands, Unmoved, Before

(* Whatever the provider answers and whenever a write fails or the server  *)
(* stops, the labels of a change match its kind, a sign-in is installed    *)
(* only while it is the last one, and under one failure or crash the files *)
(* are at every step what the next one, or the next start, counts on       *)
(* (vault.rs, plan_login.rs).                                              *)
THEOREM VaultInvHolds == VaultSpec => []VaultInv
<1>1. VaultInit => VaultInv
  BY VaultInitHolds
<1>2. VaultInv /\ [VaultNext]_vaultVars => VaultInv'
  BY VaultStepHolds
<1> QED
  BY <1>1, <1>2, PTL DEF VaultSpec

(* A change of the connection happens in whole or not at all, for every    *)
(* number of sign-ins and keys, with one failed write or one crash inside  *)
(* it at most (insert_api_key, install_plan, forget, reconcile).           *)
THEOREM ConnectionIsAlwaysWhole == VaultSpec => []ConnectionIsWhole
<1>1. VaultInv => ConnectionIsWhole
  BY WholeFollows
<1> QED
  BY <1>1, VaultInvHolds, PTL

-----------------------------------------------------------------------------
(* Attached files.  Every id is that of one row, and every row has its     *)
(* object.                                                                 *)
RefSet == [id : Nat, digest : Digest]
RowSet == [id : Nat, digest : Digest, owner : Browser \union Conversation,
           scope : Conversation \union {Draft, ForkScope}, old : BOOLEAN,
           message : Nat]
RemovedSet == [conversation : Conversation, refs : SUBSET RefSet]

GoodRows(rs, os, n) ==
    /\ rs \subseteq RowSet
    /\ \A row \in rs : row.digest \in os /\ row.id < n
    /\ \A a, b \in rs : a.id = b.id => a = b

(* What a conversation names is owned by it, and no item of its queue      *)
(* shares a file with anything else of it.                                 *)
Owned(rs, ref, c) == \E row \in rs : Ref(row) = ref /\ row.owner = c

HoldersOwn(rs, ms, qs) ==
    \A c \in Conversation : \A holder \in ms[c] \union qs[c] :
        \A ref \in holder.refs : Owned(rs, ref, c)

ItemsApart(ms, qs) ==
    \A c \in Conversation : \A item \in qs[c] :
       /\ \A other \in ms[c] : item.refs \intersect other.refs = {}
       /\ \A other \in qs[c] : other # item => item.refs \intersect other.refs = {}

(* The rows of an item that was removed are nobody else's any more.        *)
RemovedRows(rs, n, gone) ==
    /\ gone \subseteq RemovedSet
    /\ \A item \in gone : \A ref \in item.refs :
          /\ ref.id < n
          /\ \A row \in rs : Ref(row) = ref => row.owner = item.conversation

RemovedApart(gone, ms, qs) ==
    \A item \in gone :
        \A holder \in ms[item.conversation] \union qs[item.conversation] :
            item.refs \intersect holder.refs = {}

(* A draft has rows of its own, out of the reach of composers and expiry.  *)
Drafted(rs, ref, s) ==
    \E row \in rs : Ref(row) = ref /\ row.owner = s /\ row.scope = ForkScope

DraftsHold(rs, drafts) ==
    \A draft \in drafts :
        draft.session \in Browser /\ \A ref \in draft.refs : Drafted(rs, ref, draft.session)

DraftsApart(fs, cl) ==
    /\ \A a, b \in fs : a # b => a.refs \intersect b.refs = {}
    /\ \A a \in fs, b \in cl : a.refs \intersect b.refs = {}
    /\ \A a, b \in cl : a = b

(* A conversation that is not stored names nothing.                        *)
GoneIsEmpty(ex, ms, qs) ==
    \A c \in Conversation \ ex :
       qs[c] = {} /\ \A holder \in ms[c] : holder.refs = {}

AttachmentTypes ==
    /\ nextRow \in Nat /\ numbered \in Nat
    /\ exists \subseteq Conversation /\ alive \subseteq Browser
    /\ messages \in [Conversation -> SUBSET [id : Nat, refs : SUBSET RefSet]]
    /\ queue \in [Conversation -> SUBSET [id : Nat, refs : SUBSET RefSet]]

AttachmentsInv ==
    /\ AttachmentTypes
    /\ GoodRows(rows, objects, nextRow)
    /\ HoldersOwn(rows, messages, queue)
    /\ ItemsApart(messages, queue)
    /\ RemovedRows(rows, nextRow, removed)
    /\ RemovedApart(removed, messages, queue)
    /\ DraftsHold(rows, forks \union claim)
    /\ DraftsApart(forks, claim)
    /\ GoneIsEmpty(exists, messages, queue)

-----------------------------------------------------------------------------
(* What a change of the rows keeps.  Keeps: what is owned stays owned by   *)
(* the same conversation.  KeepsForked: so do the rows of drafts.          *)
(* Follows: a row that was owned has no new owner, and a new row a new id. *)
Keeps(rs, new) ==
    \A row \in rs : row.owner \in Conversation => Owned(new, Ref(row), row.owner)

KeepsForked(rs, new, drafts) ==
    \A draft \in drafts : \A ref \in draft.refs : \A row \in rs :
        row.owner = draft.session /\ row.scope = ForkScope /\ Ref(row) = ref =>
            Drafted(new, ref, draft.session)

Follows(rs, new, n) ==
    \A row \in new :
        \/ row.id >= n
        \/ \E was \in rs : Ref(was) = Ref(row)
                           /\ (was.owner = row.owner \/ was.owner \notin Conversation)

LEMMA RefFields ==
    ASSUME NEW row
    PROVE  Ref(row).id = row.id /\ Ref(row).digest = row.digest
  BY DEF Ref

LEMMA SameRefSameRow ==
    ASSUME NEW rs, NEW os, NEW n, GoodRows(rs, os, n),
           NEW a \in rs, NEW b \in rs, Ref(a) = Ref(b)
    PROVE  a = b
  <1>1. a.id = b.id
    BY RefFields
  <1> QED
    BY <1>1 DEF GoodRows

LEMMA OwnerIsOne ==
    ASSUME NEW rs, NEW os, NEW n, GoodRows(rs, os, n),
           NEW a \in rs, NEW c, Owned(rs, Ref(a), c)
    PROVE  a.owner = c
  <1>1. PICK b \in rs : Ref(b) = Ref(a) /\ b.owner = c
    BY DEF Owned
  <1> QED
    BY <1>1, SameRefSameRow

LEMMA HoldersKeep ==
    ASSUME NEW rs, NEW new, NEW ms, NEW qs,
           HoldersOwn(rs, ms, qs), Keeps(rs, new)
    PROVE  HoldersOwn(new, ms, qs)
  BY DEF HoldersOwn, Keeps, Owned

LEMMA RemovedKeep ==
    ASSUME NEW rs, NEW new, NEW n \in Int, NEW more \in Int, n <= more, NEW gone,
           RemovedRows(rs, n, gone), Follows(rs, new, n)
    PROVE  RemovedRows(new, more, gone)
  <1> SUFFICES ASSUME NEW item \in gone, NEW ref \in item.refs
               PROVE  /\ ref.id < more
                      /\ \A row \in new : Ref(row) = ref => row.owner = item.conversation
    BY DEF RemovedRows
  <1>1. /\ item \in RemovedSet /\ ref.id < n
        /\ \A row \in rs : Ref(row) = ref => row.owner = item.conversation
    BY DEF RemovedRows
  <1>2. item.conversation \in Conversation /\ ref.id \in Nat
    BY <1>1 DEF RemovedSet, RefSet
  <1>3. ASSUME NEW row \in new, Ref(row) = ref
        PROVE  row.owner = item.conversation
    <2>1. row.id = ref.id
      BY <1>3, RefFields
    <2>2. PICK was \in rs : Ref(was) = Ref(row)
                            /\ (was.owner = row.owner \/ was.owner \notin Conversation)
      BY <1>1, <1>2, <2>1 DEF Follows
    <2> QED
      BY <1>1, <1>2, <1>3, <2>2
  <1> QED
    BY <1>1, <1>2, <1>3

LEMMA DraftsKeep ==
    ASSUME NEW rs, NEW new, NEW drafts, DraftsHold(rs, drafts),
           KeepsForked(rs, new, drafts)
    PROVE  DraftsHold(new, drafts)
  <1> SUFFICES ASSUME NEW draft \in drafts, NEW ref \in draft.refs
               PROVE  Drafted(new, ref, draft.session)
    BY DEF DraftsHold
  <1>1. PICK row \in rs : Ref(row) = ref /\ row.owner = draft.session
                          /\ row.scope = ForkScope
    BY DEF DraftsHold, Drafted
  <1> QED
    BY <1>1 DEF KeepsForked

-----------------------------------------------------------------------------
(* Rows that go, and their objects.                                        *)
LEMMA LessRows ==
    ASSUME NEW rs, NEW os, NEW n, GoodRows(rs, os, n), NEW new, new \subseteq rs,
           NEW kept, os \ Unreferenced(Digests(rs \ new), new) \subseteq kept
    PROVE  GoodRows(new, kept, n)
  <1>1. ASSUME NEW row \in new PROVE row.digest \in kept /\ row.id < n
    <2>1. row.digest \in os /\ row.id < n
      BY DEF GoodRows
    <2>2. row.digest \notin Unreferenced(Digests(rs \ new), new)
      BY DEF Unreferenced
    <2> QED
      BY <2>1, <2>2
  <1> QED
    BY <1>1 DEF GoodRows

LEMMA MoreRows ==
    ASSUME NEW rs, NEW os, NEW n \in Int, NEW more \in Int, n <= more,
           GoodRows(rs, os, n), NEW fresh, fresh \subseteq RowSet,
           \A row \in fresh : row.digest \in os /\ n <= row.id /\ row.id < more,
           \A a, b \in fresh : a.id = b.id => a = b
    PROVE  GoodRows(rs \union fresh, os, more)
  <1>1. rs \union fresh \subseteq RowSet
    BY DEF GoodRows
  <1>2. \A row \in RowSet : row.id \in Int
    BY DEF RowSet
  <1>3. ASSUME NEW row \in rs \union fresh PROVE row.digest \in os /\ row.id < more
    BY <1>1, <1>2 DEF GoodRows
  <1>4. ASSUME NEW a \in rs \union fresh, NEW b \in rs \union fresh, a.id = b.id
        PROVE  a = b
    BY <1>1, <1>2, <1>4 DEF GoodRows
  <1> QED
    BY <1>1, <1>3, <1>4 DEF GoodRows

(* A row that changes its place keeps its id and its object.               *)
Relocates(rs, picked, moved) ==
    /\ moved \subseteq RowSet
    /\ \A row \in moved : \E was \in picked : Ref(was) = Ref(row)
    /\ \A a, b \in moved : Ref(a) = Ref(b) => a = b

LEMMA MovedRows ==
    ASSUME NEW rs, NEW os, NEW n, GoodRows(rs, os, n), NEW picked, picked \subseteq rs,
           NEW moved, Relocates(rs, picked, moved)
    PROVE  GoodRows((rs \ picked) \union moved, os, n)
  <1>1. (rs \ picked) \union moved \subseteq RowSet
    BY DEF GoodRows, Relocates
  <1>2. ASSUME NEW row \in moved
        PROVE  \E was \in picked : was.id = row.id /\ was.digest = row.digest
    <2>1. PICK was \in picked : Ref(was) = Ref(row)
      BY DEF Relocates
    <2> QED
      BY <2>1, RefFields
  <1>3. ASSUME NEW row \in (rs \ picked) \union moved
        PROVE  row.digest \in os /\ row.id < n
    BY <1>2 DEF GoodRows
  <1>4. ASSUME NEW a \in (rs \ picked) \union moved,
               NEW b \in (rs \ picked) \union moved, a.id = b.id
        PROVE  a = b
    <2>1. CASE a \in moved /\ b \in moved
      <3>1. PICK p \in picked : Ref(p) = Ref(a)
        BY <2>1 DEF Relocates
      <3>2. PICK q \in picked : Ref(q) = Ref(b)
        BY <2>1 DEF Relocates
      <3>3. p.id = q.id
        BY <1>4, <3>1, <3>2, RefFields
      <3>4. p = q
        BY <3>3 DEF GoodRows
      <3>5. Ref(a) = Ref(b)
        BY <3>1, <3>2, <3>4
      <3> QED
        BY <2>1, <3>5 DEF Relocates
    <2>2. CASE a \in moved /\ b \notin moved
      <3>1. PICK p \in picked : p.id = a.id
        BY <1>2, <2>2
      <3> QED
        BY <1>4, <2>2, <3>1 DEF GoodRows
    <2>3. CASE a \notin moved /\ b \in moved
      <3>1. PICK p \in picked : p.id = b.id
        BY <1>2, <2>3
      <3> QED
        BY <1>4, <2>3, <3>1 DEF GoodRows
    <2>4. CASE a \notin moved /\ b \notin moved
      BY <1>4, <2>4 DEF GoodRows
    <2> QED
      BY <2>1, <2>2, <2>3, <2>4
  <1> QED
    BY <1>1, <1>3, <1>4 DEF GoodRows

LEMMA ChangedRow ==
    ASSUME NEW row \in RowSet, NEW p \in Browser \union Conversation,
           NEW scope \in Conversation \union {Draft, ForkScope}, NEW m \in Nat,
           NEW old \in BOOLEAN
    PROVE  /\ [row EXCEPT !.owner = p, !.message = m] \in RowSet
           /\ Ref([row EXCEPT !.owner = p, !.message = m]) = Ref(row)
           /\ [row EXCEPT !.owner = p, !.message = m].owner = p
           /\ [row EXCEPT !.owner = p, !.scope = scope, !.old = old] \in RowSet
           /\ Ref([row EXCEPT !.owner = p, !.scope = scope, !.old = old]) = Ref(row)
           /\ [row EXCEPT !.owner = p, !.scope = scope, !.old = old].owner = p
           /\ [row EXCEPT !.old = old] \in RowSet
           /\ Ref([row EXCEPT !.old = old]) = Ref(row)
           /\ [row EXCEPT !.old = old].owner = row.owner
           /\ [row EXCEPT !.old = old].scope = row.scope
  BY DEF RowSet, Ref

LEMMA ClaimedRows ==
    ASSUME NEW rs, NEW os, NEW n, GoodRows(rs, os, n), NEW picked, picked \subseteq rs,
           NEW c \in Conversation, NEW m \in Nat
    PROVE  /\ Relocates(rs, picked, Claimed(picked, c, m))
           /\ \A row \in Claimed(picked, c, m) : row.owner = c
           /\ \A row \in picked : Owned(Claimed(picked, c, m), Ref(row), c)
  <1>1. ASSUME NEW row \in picked
        PROVE  /\ [row EXCEPT !.owner = c, !.message = m] \in RowSet
               /\ Ref([row EXCEPT !.owner = c, !.message = m]) = Ref(row)
               /\ [row EXCEPT !.owner = c, !.message = m].owner = c
    <2>1. row \in RowSet /\ c \in Browser \union Conversation
      BY DEF GoodRows
    <2> QED
      BY <2>1 DEF RowSet, Ref
  <1>2. Claimed(picked, c, m) \subseteq RowSet
    BY <1>1 DEF Claimed
  <1>3. \A row \in Claimed(picked, c, m) : \E was \in picked : Ref(was) = Ref(row)
    BY <1>1 DEF Claimed
  <1>4. ASSUME NEW a \in Claimed(picked, c, m), NEW b \in Claimed(picked, c, m),
               Ref(a) = Ref(b)
        PROVE  a = b
    <2>1. PICK p \in picked : a = [p EXCEPT !.owner = c, !.message = m]
      BY DEF Claimed
    <2>2. PICK q \in picked : b = [q EXCEPT !.owner = c, !.message = m]
      BY DEF Claimed
    <2>3. Ref(p) = Ref(q)
      BY <1>1, <1>4, <2>1, <2>2
    <2>4. p = q
      BY <2>3, SameRefSameRow
    <2> QED
      BY <2>1, <2>2, <2>4
  <1>5. \A row \in Claimed(picked, c, m) : row.owner = c
    BY <1>1 DEF Claimed
  <1>6. \A row \in picked : Owned(Claimed(picked, c, m), Ref(row), c)
    BY <1>1 DEF Claimed, Owned
  <1> QED
    BY <1>2, <1>3, <1>4, <1>5, <1>6 DEF Relocates

(* What names rows is finite, and there are new ids enough for its copies. *)
Copies(refs, ids) == {f \in [refs -> ids] : \A a, b \in refs : a # b => f[a] # f[b]}

LEMMA CopiesExist ==
    ASSUME NEW rs, NEW os, NEW n \in Nat, GoodRows(rs, os, n),
           NEW refs, \A ref \in refs : \E row \in rs : Ref(row) = ref
    PROVE  /\ Cardinality(refs) \in Nat
           /\ Copies(refs, n .. n + Cardinality(refs) - 1) # {}
  <1> DEFINE id == [ref \in refs |-> ref.id]
             k == Cardinality(refs)
  <1>1. \A ref \in refs : ref.id \in 0 .. n - 1
    <2> SUFFICES ASSUME NEW ref \in refs PROVE ref.id \in 0 .. n - 1
      OBVIOUS
    <2>1. PICK row \in rs : Ref(row) = ref
      OBVIOUS
    <2>2. row.id \in Nat /\ row.id < n
      BY DEF GoodRows, RowSet
    <2> QED
      BY <2>1, <2>2, RefFields
  <1>2. ASSUME NEW a \in refs, NEW b \in refs, a.id = b.id PROVE a = b
    <2>1. PICK p \in rs : Ref(p) = a
      OBVIOUS
    <2>2. PICK q \in rs : Ref(q) = b
      OBVIOUS
    <2>3. p.id = q.id
      BY <1>2, <2>1, <2>2, RefFields
    <2> QED
      BY <2>1, <2>2, <2>3 DEF GoodRows
  <1>3. id \in Injection(refs, 0 .. n - 1)
    <2>1. id \in [refs -> 0 .. n - 1]
      BY <1>1
    <2>2. \A a, b \in refs : id[a] = id[b] => a = b
      BY <1>2
    <2> HIDE DEF id
    <2> QED
      BY <2>1, <2>2, Fun_IsInj
  <1>4. IsFiniteSet(refs)
    <2>1. IsFiniteSet(0 .. n - 1)
      BY FS_Interval
    <2> QED
      BY <1>3, <2>1, FS_Injection
  <1>5. k \in Nat /\ ExistsBijection(1 .. k, refs)
    BY <1>4, FS_CardinalityType
  <1>6. PICK h : h \in Bijection(refs, 1 .. k)
    BY <1>5, Fun_ExistsBijSymmetric, Fun_ExistsBij
  <1>7. h \in [refs -> 1 .. k] /\ \A a, b \in refs : h[a] = h[b] => a = b
    BY <1>6, Fun_BijectionProperties
  <1>8. [ref \in refs |-> n - 1 + h[ref]] \in Copies(refs, n .. n + k - 1)
    <2> HIDE DEF k
    <2>1. \A ref \in refs : h[ref] \in 1 .. k
      BY <1>7
    <2>2. [ref \in refs |-> n - 1 + h[ref]] \in [refs -> n .. n + k - 1]
      BY <1>5, <2>1
    <2>3. ASSUME NEW a \in refs, NEW b \in refs, a # b
          PROVE  n - 1 + h[a] # n - 1 + h[b]
      BY <1>7, <2>1, <2>3
    <2> QED
      BY <2>2, <2>3 DEF Copies
  <1> QED
    BY <1>5, <1>8

AreCopies(fresh, f, refs, p, scope) ==
    fresh = {Row(f[ref], ref.digest, p, scope, FALSE) : ref \in refs}

LEMMA CopiedRows ==
    ASSUME NEW rs, NEW os, NEW n \in Nat, GoodRows(rs, os, n),
           NEW refs, \A ref \in refs : \E row \in rs : Ref(row) = ref,
           NEW f \in Copies(refs, n .. n + Cardinality(refs) - 1),
           Cardinality(refs) \in Nat,
           NEW p \in Browser \union Conversation,
           NEW scope \in Conversation \union {Draft, ForkScope},
           NEW fresh, AreCopies(fresh, f, refs, p, scope)
    PROVE  /\ fresh \subseteq RowSet
           /\ \A row \in fresh :
                 /\ row.digest \in os /\ n <= row.id
                 /\ row.id < n + Cardinality(refs)
                 /\ row.owner = p /\ row.scope = scope
           /\ \A a, b \in fresh : a.id = b.id => a = b
  <1> DEFINE k == Cardinality(refs)
  <1>1. f \in [refs -> n .. n + k - 1] /\ \A a, b \in refs : a # b => f[a] # f[b]
    BY DEF Copies
  <1>2. ASSUME NEW ref \in refs
        PROVE  /\ ref.digest \in os /\ ref.digest \in Digest
               /\ f[ref] \in Nat /\ n <= f[ref] /\ f[ref] < n + k
    <2>1. PICK row \in rs : Ref(row) = ref
      OBVIOUS
    <2>2. row.digest \in os /\ row.digest \in Digest
      BY DEF GoodRows, RowSet
    <2>3. f[ref] \in n .. n + k - 1
      BY <1>1
    <2> QED
      BY <2>1, <2>2, <2>3, RefFields
  <1> HIDE DEF k
  <1>3. ASSUME NEW ref \in refs, NEW row, row = Row(f[ref], ref.digest, p, scope, FALSE)
        PROVE  /\ row \in RowSet /\ row.id = f[ref] /\ row.digest = ref.digest
               /\ row.owner = p /\ row.scope = scope
    BY <1>2, <1>3 DEF Row, RowSet
  <1>4. fresh \subseteq RowSet
    BY <1>3 DEF AreCopies
  <1>5. ASSUME NEW row \in fresh
        PROVE  /\ row.digest \in os /\ n <= row.id /\ row.id < n + k
               /\ row.owner = p /\ row.scope = scope
    <2>1. PICK ref \in refs : row = Row(f[ref], ref.digest, p, scope, FALSE)
      BY DEF AreCopies
    <2> QED
      BY <1>2, <1>3, <2>1
  <1>6. ASSUME NEW a \in fresh, NEW b \in fresh, a.id = b.id
        PROVE  a = b
    <2>1. PICK x \in refs : a = Row(f[x], x.digest, p, scope, FALSE)
      BY DEF AreCopies
    <2>2. PICK y \in refs : b = Row(f[y], y.digest, p, scope, FALSE)
      BY DEF AreCopies
    <2>3. f[x] = f[y]
      BY <1>3, <1>6, <2>1, <2>2
    <2>4. x = y
      BY <1>1, <2>3
    <2> QED
      BY <2>1, <2>2, <2>4
  <1> QED
    BY <1>4, <1>5, <1>6 DEF k

-----------------------------------------------------------------------------
(* Steps that leave what conversations name as it is.                      *)
LEMMA StagedStep ==
    ASSUME AttachmentsInv,
           nextRow' \in Nat, nextRow <= nextRow', alive' \subseteq Browser,
           UNCHANGED <<exists, messages, queue, numbered>>,
           GoodRows(rows', objects', nextRow'),
           Keeps(rows, rows'), Follows(rows, rows', nextRow),
           removed' \subseteq removed,
           DraftsHold(rows', forks' \union claim'), DraftsApart(forks', claim')
    PROVE  AttachmentsInv'
  <1>1. AttachmentTypes'
    BY DEF AttachmentsInv, AttachmentTypes
  <1>2. HoldersOwn(rows', messages', queue')
    BY HoldersKeep DEF AttachmentsInv
  <1>3. ItemsApart(messages', queue') /\ GoneIsEmpty(exists', messages', queue')
    BY DEF AttachmentsInv
  <1>4. RemovedRows(rows', nextRow', removed)
    <2>1. nextRow \in Int /\ nextRow' \in Int
      BY DEF AttachmentsInv, AttachmentTypes
    <2>2. RemovedRows(rows, nextRow, removed)
      BY DEF AttachmentsInv
    <2> QED
      BY <2>1, <2>2, RemovedKeep
  <1>5. RemovedRows(rows', nextRow', removed')
    BY <1>4 DEF RemovedRows
  <1>6. RemovedApart(removed', messages', queue')
    BY DEF AttachmentsInv, RemovedApart
  <1> QED
    BY <1>1, <1>2, <1>3, <1>5, <1>6 DEF AttachmentsInv

LEMMA DraftOwnersAreBrowsers ==
    ASSUME NEW row, NEW c \in Conversation, row.owner = c
    PROVE  ~IsStaged(row)
  BY AttachmentsAssumed DEF IsStaged

LEMMA AgeStep ==
    ASSUME AttachmentsInv, NEW row \in rows, Age(row)
    PROVE  AttachmentsInv'
  <1> DEFINE moved == [row EXCEPT !.old = TRUE]
  <1>1. row \in RowSet /\ GoodRows(rows, objects, nextRow) /\ nextRow \in Nat
    BY DEF AttachmentsInv, AttachmentTypes, GoodRows
  <1>2. PICK old \in BOOLEAN : old = TRUE
    OBVIOUS
  <1>3. /\ [row EXCEPT !.old = old] \in RowSet
        /\ Ref([row EXCEPT !.old = old]) = Ref(row)
        /\ [row EXCEPT !.old = old].owner = row.owner
        /\ [row EXCEPT !.old = old].scope = row.scope
    BY <1>1 DEF RowSet, Ref
  <1>4. moved = [row EXCEPT !.old = old]
    BY <1>2, Zenon
  <1>5. moved \in RowSet /\ Ref(moved) = Ref(row) /\ moved.owner = row.owner
        /\ moved.scope = row.scope
    BY <1>3, <1>4, Zenon
  <1>6. rows' = (rows \ {row}) \union {moved}
    BY DEF Age
  <1>7. /\ UNCHANGED <<exists, messages, queue, numbered>>
        /\ UNCHANGED <<objects, nextRow, alive, removed, forks, claim>>
    BY Zenon DEF Age
  <1> HIDE DEF moved
  <1>8. Relocates(rows, {row}, {moved})
    BY <1>5 DEF Relocates
  <1>9. GoodRows(rows', objects', nextRow')
    <2>1. {row} \subseteq rows
      OBVIOUS
    <2> QED
      BY <1>1, <1>6, <1>7, <1>8, <2>1, MovedRows
  <1>10. Keeps(rows, rows')
    BY <1>5, <1>6 DEF Keeps, Owned
  <1>11. Follows(rows, rows', nextRow)
    BY <1>5, <1>6 DEF Follows
  <1>12. DraftsHold(rows', forks' \union claim')
    <2>1. KeepsForked(rows, rows', forks \union claim)
      BY <1>5, <1>6 DEF KeepsForked, Drafted
    <2> QED
      BY <1>7, <2>1, DraftsKeep DEF AttachmentsInv
  <1> QED
    BY <1>1, <1>7, <1>9, <1>10, <1>11, <1>12, StagedStep
    DEF AttachmentsInv, AttachmentTypes

LEMMA MoreObjects ==
    ASSUME NEW rs, NEW os, NEW n \in Int, NEW more \in Int, n <= more,
           GoodRows(rs, os, n), NEW kept, os \subseteq kept
    PROVE  GoodRows(rs, kept, more)
  <1>1. \A row \in RowSet : row.id \in Int
    BY DEF RowSet
  <1>2. \A row \in rs : row.digest \in kept /\ row.id < more
    BY <1>1 DEF GoodRows
  <1> QED
    BY <1>2 DEF GoodRows

LEMMA SparedKeep ==
    ASSUME NEW new, new \subseteq rows,
           \A row \in rows \ new : IsStaged(row)
    PROVE  Keeps(rows, new) /\ Follows(rows, new, nextRow)
  <1>1. Keeps(rows, new)
    <2> SUFFICES ASSUME NEW row \in rows, row.owner \in Conversation
                 PROVE  Owned(new, Ref(row), row.owner)
      BY DEF Keeps
    <2>1. row \in new
      BY AttachmentsAssumed DEF IsStaged
    <2> QED
      BY <2>1 DEF Owned
  <1> QED
    BY <1>1 DEF Follows

LEMMA UploadStep ==
    ASSUME AttachmentsInv, NEW s \in Browser, NEW scope \in exists \union {Draft},
           NEW digest \in Digest, Upload(s, scope, digest)
    PROVE  AttachmentsInv'
  <1> DEFINE left == rows \ Expired
             kept == objects \ Unreferenced(Digests(Expired), left)
             row == Row(nextRow, digest, s, scope, FALSE)
  <1>1. /\ GoodRows(rows, objects, nextRow) /\ nextRow \in Nat /\ nextRow + 1 \in Nat
        /\ exists \subseteq Conversation
    BY DEF AttachmentsInv, AttachmentTypes
  <1>2. /\ row \in RowSet /\ row.id = nextRow /\ row.digest = digest
        /\ row.owner = s /\ row.scope = scope
    <2>1. /\ s \in Browser \union Conversation
          /\ scope \in Conversation \union {Draft, ForkScope}
      BY <1>1
    <2> QED
      BY <1>1, <2>1 DEF Row, RowSet
  <1>3. /\ UNCHANGED <<exists, messages, queue, numbered>>
        /\ UNCHANGED <<alive, removed, forks, claim>>
    BY DEF Upload
  <1>4. GoodRows(left, kept, nextRow)
    <2>1. rows \ left = Expired
      BY DEF Expired
    <2>2. left \subseteq rows
      OBVIOUS
    <2> QED
      BY <1>1, <2>1, <2>2, LessRows
  <1>5. /\ rows' \in {left, left \union {row}}
        /\ kept \subseteq objects'
        /\ nextRow' \in {nextRow, nextRow + 1}
        /\ rows' # left => digest \in objects' /\ nextRow' = nextRow + 1
    BY DEF Upload, StageInto
  <1> HIDE DEF row
  <1>6. GoodRows(rows', objects', nextRow')
    <2>0. nextRow' \in Int /\ nextRow <= nextRow'
      BY <1>1, <1>5
    <2>1. GoodRows(left, objects', nextRow)
      <3>1. nextRow \in Int /\ nextRow <= nextRow
        BY <1>1
      <3> HIDE DEF left, kept
      <3> QED
        BY <1>4, <1>5, <3>1, MoreObjects
    <2>2. CASE rows' = left
      BY <1>1, <2>0, <2>1, <2>2, MoreObjects
    <2>3. CASE rows' # left
      <3>1. /\ rows' = left \union {row} /\ digest \in objects'
            /\ nextRow' = nextRow + 1
        BY <1>5, <2>3
      <3>2. \A a \in {row} : a.digest \in objects' /\ nextRow <= a.id /\ a.id < nextRow + 1
        BY <1>1, <1>2, <3>1
      <3>3. \A a, b \in {row} : a.id = b.id => a = b
        OBVIOUS
      <3>4. {row} \subseteq RowSet
        BY <1>2
      <3>5. nextRow + 1 \in Int /\ nextRow \in Int /\ nextRow <= nextRow + 1
        BY <1>1
      <3>6. GoodRows(left \union {row}, objects', nextRow + 1)
        BY <2>1, <3>2, <3>3, <3>4, <3>5, MoreRows
      <3> QED
        BY <3>1, <3>6
    <2> QED
      BY <2>2, <2>3
  <1>7. Keeps(rows, left) /\ Follows(rows, left, nextRow)
    BY SparedKeep DEF Expired
  <1>8. KeepsForked(rows, left, forks \union claim)
    BY DEF KeepsForked, Drafted, Expired
  <1> HIDE DEF left
  <1>9. Keeps(rows, rows')
    BY <1>5, <1>7 DEF Keeps, Owned
  <1>10. Follows(rows, rows', nextRow)
    BY <1>1, <1>2, <1>5, <1>7 DEF Follows
  <1>11. KeepsForked(rows, rows', forks \union claim)
    BY <1>5, <1>8 DEF KeepsForked, Drafted
  <1>12. DraftsHold(rows', forks' \union claim')
    BY <1>3, <1>11, DraftsKeep DEF AttachmentsInv
  <1>13. nextRow' \in Nat /\ nextRow <= nextRow'
    BY <1>1, <1>5
  <1> QED
    BY <1>3, <1>6, <1>9, <1>10, <1>12, <1>13, StagedStep
    DEF AttachmentsInv, AttachmentTypes

LEMMA DeletedRows ==
    ASSUME AttachmentsInv, NEW gone, NEW keep \in BOOLEAN, gone \subseteq rows,
           DeleteRows(gone, keep), nextRow' = nextRow
    PROVE  rows' = rows \ gone /\ GoodRows(rows', objects', nextRow')
  <1>1. rows' = rows \ gone
    BY DEF DeleteRows
  <1>2. objects \ Unreferenced(Digests(rows \ rows'), rows') \subseteq objects'
    <2>1. rows \ rows' = gone
      BY <1>1
    <2>2. objects' \in {objects \ Unreferenced(Digests(gone), rows \ gone), objects}
      BY DEF DeleteRows
    <2> QED
      BY <1>1, <2>1, <2>2
  <1>3. GoodRows(rows, objects, nextRow) /\ rows' \subseteq rows
    BY <1>1 DEF AttachmentsInv
  <1>4. GoodRows(rows', objects', nextRow)
    BY <1>2, <1>3, LessRows
  <1> QED
    BY <1>1, <1>4

LEMMA ReleaseStep ==
    ASSUME AttachmentsInv, NEW s \in Browser, NEW row \in rows, Release(s, row)
    PROVE  AttachmentsInv'
  <1>1. /\ UNCHANGED <<exists, messages, queue, numbered>>
        /\ UNCHANGED <<alive, removed, forks, claim>> /\ nextRow' = nextRow
        /\ row.owner = s /\ row.scope # ForkScope
    BY DEF Release
  <1>2. rows' = rows \ {row} /\ GoodRows(rows', objects', nextRow')
    BY <1>1, DeletedRows DEF Release
  <1>3. Keeps(rows, rows') /\ Follows(rows, rows', nextRow)
    BY <1>1, <1>2, SparedKeep DEF IsStaged
  <1>4. KeepsForked(rows, rows', forks \union claim)
    BY <1>1, <1>2 DEF KeepsForked, Drafted
  <1>5. DraftsHold(rows', forks' \union claim')
    BY <1>1, <1>4, DraftsKeep DEF AttachmentsInv
  <1>6. nextRow \in Nat
    BY DEF AttachmentsInv, AttachmentTypes
  <1> QED
    BY <1>1, <1>2, <1>3, <1>5, <1>6, StagedStep DEF AttachmentsInv, AttachmentTypes

-----------------------------------------------------------------------------
(* A claim: staged rows go to a conversation, and nothing named them.      *)
Picks(picked, s, scope, refs) ==
    /\ picked \subseteq Claimable(s, scope)
    /\ refs = {Ref(row) : row \in picked}

LEMMA ClaimKeeps ==
    ASSUME AttachmentsInv, NEW s \in Browser, NEW c \in Conversation,
           NEW scope \in Conversation \union {Draft}, NEW m \in Nat,
           NEW picked, NEW refs, Picks(picked, s, scope, refs),
           NEW new, new = (rows \ picked) \union Claimed(picked, c, m)
    PROVE  /\ GoodRows(new, objects, nextRow)
           /\ HoldersOwn(new, messages, queue)
           /\ RemovedRows(new, nextRow, removed)
           /\ DraftsHold(new, forks \union claim)
           /\ \A ref \in refs : Owned(new, ref, c)
  <1>1. GoodRows(rows, objects, nextRow) /\ nextRow \in Nat
    BY DEF AttachmentsInv, AttachmentTypes
  <1>2. \A row \in picked : row \in rows /\ row.owner = s /\ row.scope # ForkScope
    BY AttachmentsAssumed DEF Picks, Claimable, StagedFor, Draft, ForkScope
  <1>3. /\ Relocates(rows, picked, Claimed(picked, c, m))
        /\ \A row \in Claimed(picked, c, m) : row.owner = c
        /\ \A row \in picked : Owned(Claimed(picked, c, m), Ref(row), c)
    <2>1. picked \subseteq rows
      BY <1>2
    <2> QED
      BY <1>1, <2>1, ClaimedRows
  <1>4. GoodRows(new, objects, nextRow)
    <2>1. picked \subseteq rows
      BY <1>2
    <2> QED
      BY <1>1, <1>3, <2>1, MovedRows
  <1>5. Keeps(rows, new)
    <2> SUFFICES ASSUME NEW row \in rows, row.owner \in Conversation
                 PROVE  Owned(new, Ref(row), row.owner)
      BY DEF Keeps
    <2>1. row \notin picked
      BY <1>2, AttachmentsAssumed
    <2> QED
      BY <2>1 DEF Owned
  <1>6. Follows(rows, new, nextRow)
    <2> SUFFICES ASSUME NEW row \in new
                 PROVE  \E was \in rows : Ref(was) = Ref(row)
                           /\ (was.owner = row.owner \/ was.owner \notin Conversation)
      BY DEF Follows
    <2>1. CASE row \in rows
      BY <2>1
    <2>2. CASE row \in Claimed(picked, c, m)
      <3>1. PICK was \in picked : Ref(was) = Ref(row)
        BY <1>3, <2>2 DEF Relocates
      <3>2. was.owner \notin Conversation
        BY <1>2, AttachmentsAssumed
      <3> QED
        BY <1>2, <3>1, <3>2
    <2> QED
      BY <2>1, <2>2
  <1>7. KeepsForked(rows, new, forks \union claim)
    <2> SUFFICES ASSUME NEW row \in rows, row.scope = ForkScope
                 PROVE  row \in new
      BY DEF KeepsForked, Drafted
    <2> QED
      BY <1>2
  <1>8. HoldersOwn(new, messages, queue)
    BY <1>5, HoldersKeep DEF AttachmentsInv
  <1>9. RemovedRows(new, nextRow, removed)
    <2>1. nextRow \in Int /\ nextRow <= nextRow /\ RemovedRows(rows, nextRow, removed)
      BY <1>1 DEF AttachmentsInv
    <2> QED
      BY <1>6, <2>1, RemovedKeep
  <1>10. DraftsHold(new, forks \union claim)
    BY <1>7, DraftsKeep DEF AttachmentsInv
  <1>11. \A ref \in refs : Owned(new, ref, c)
    <2> SUFFICES ASSUME NEW row \in picked PROVE Owned(new, Ref(row), c)
      BY DEF Picks
    <2>1. Owned(Claimed(picked, c, m), Ref(row), c)
      BY <1>3
    <2> QED
      BY <2>1 DEF Owned
  <1> QED
    BY <1>4, <1>8, <1>9, <1>10, <1>11

LEMMA PickedIsUnnamed ==
    ASSUME AttachmentsInv, NEW s \in Browser, NEW scope,
           NEW picked, NEW refs, Picks(picked, s, scope, refs)
    PROVE  /\ refs \subseteq RefSet
           /\ \A d \in Conversation : \A holder \in messages[d] \union queue[d] :
                 refs \intersect holder.refs = {}
           /\ \A item \in removed : item.refs \intersect refs = {}
  <1>1. GoodRows(rows, objects, nextRow)
    BY DEF AttachmentsInv
  <1>2. \A row \in picked : row \in rows /\ row.owner = s
    BY DEF Picks, Claimable, StagedFor
  <1>3. refs \subseteq RefSet
    <2> SUFFICES ASSUME NEW row \in picked PROVE Ref(row) \in RefSet
      BY DEF Picks
    <2>1. row \in RowSet
      BY <1>1, <1>2 DEF GoodRows
    <2> QED
      BY <2>1 DEF RowSet, RefSet, Ref
  <1>4. ASSUME NEW d \in Conversation, NEW holder \in messages[d] \union queue[d],
               NEW ref \in refs, ref \in holder.refs
        PROVE  FALSE
    <2>1. PICK row \in picked : ref = Ref(row)
      BY DEF Picks
    <2>2. Owned(rows, Ref(row), d)
      BY <1>4, <2>1 DEF AttachmentsInv, HoldersOwn
    <2>3. row.owner = d
      BY <1>1, <1>2, <2>2, OwnerIsOne
    <2> QED
      BY <1>2, <2>3, AttachmentsAssumed
  <1>5. ASSUME NEW item \in removed, NEW ref \in refs, ref \in item.refs
        PROVE  FALSE
    <2>1. PICK row \in picked : ref = Ref(row)
      BY DEF Picks
    <2>2. row.owner = item.conversation /\ item \in RemovedSet
      BY <1>2, <1>5, <2>1 DEF AttachmentsInv, RemovedRows
    <2> QED
      BY <1>2, <2>2, AttachmentsAssumed DEF RemovedSet
  <1> QED
    BY <1>3, <1>4, <1>5

(* A holder that joins a conversation.                                     *)
Joins(held, c, ms, qs, ms2, qs2) ==
    \A d \in Conversation : \A holder \in ms2[d] \union qs2[d] :
        holder \in ms[d] \union qs[d] \/ (d = c /\ holder = held)

LEMMA HolderJoins ==
    ASSUME NEW rs, NEW ms, NEW qs, HoldersOwn(rs, ms, qs), NEW c \in Conversation,
           NEW ms2, NEW qs2, NEW held,
           \A ref \in held.refs : Owned(rs, ref, c),
           Joins(held, c, ms, qs, ms2, qs2)
    PROVE  HoldersOwn(rs, ms2, qs2)
  <1> SUFFICES ASSUME NEW d \in Conversation, NEW holder \in ms2[d] \union qs2[d],
                      NEW ref \in holder.refs
               PROVE  Owned(rs, ref, d)
    BY DEF HoldersOwn
  <1>1. holder \in ms[d] \union qs[d] \/ (d = c /\ holder = held)
    BY DEF Joins
  <1> QED
    BY <1>1 DEF HoldersOwn

LEMMA HolderIsApart ==
    ASSUME NEW gone, NEW ms, NEW qs, RemovedApart(gone, ms, qs), gone \subseteq RemovedSet,
           NEW c \in Conversation, NEW ms2, NEW qs2, NEW held,
           \A item \in gone : item.conversation = c => item.refs \intersect held.refs = {},
           Joins(held, c, ms, qs, ms2, qs2)
    PROVE  RemovedApart(gone, ms2, qs2)
  <1> SUFFICES ASSUME NEW item \in gone,
                      NEW holder \in ms2[item.conversation] \union qs2[item.conversation]
               PROVE  item.refs \intersect holder.refs = {}
    BY DEF RemovedApart
  <1>1. item.conversation \in Conversation
    BY DEF RemovedSet
  <1>2. \/ holder \in ms[item.conversation] \union qs[item.conversation]
        \/ item.conversation = c /\ holder = held
    BY <1>1 DEF Joins
  <1> QED
    BY <1>2 DEF RemovedApart

HolderSet == [id : Nat, refs : SUBSET RefSet]

LEMMA MessageStep ==
    ASSUME AttachmentsInv, NEW s \in Browser, NEW c \in Conversation,
           NEW scope \in Conversation \union {Draft}, NEW m \in Nat,
           NEW picked, NEW refs, Picks(picked, s, scope, refs),
           NEW base, NEW held \in HolderSet, held.refs = base \union refs,
           \/ base = {}
           \/ queue[c] = {} /\ \E source \in messages[c] : base = source.refs,
           rows' = (rows \ picked) \union Claimed(picked, c, m),
           messages' = [messages EXCEPT ![c] = @ \union {held}],
           exists' = exists \union {c}, numbered' = numbered + 1,
           UNCHANGED <<objects, queue, removed, forks, claim, alive, nextRow>>
    PROVE  AttachmentsInv'
  <1>1. AttachmentTypes
    BY DEF AttachmentsInv
  <1>2. /\ messages' \in [Conversation -> SUBSET HolderSet]
        /\ messages'[c] = messages[c] \union {held}
        /\ \A d \in Conversation : d # c => messages'[d] = messages[d]
    BY <1>1 DEF AttachmentTypes, HolderSet
  <1>3. AttachmentTypes'
    BY <1>1, <1>2 DEF AttachmentTypes, HolderSet
  <1>4. /\ GoodRows(rows', objects, nextRow)
        /\ HoldersOwn(rows', messages, queue)
        /\ RemovedRows(rows', nextRow, removed)
        /\ DraftsHold(rows', forks \union claim)
        /\ \A ref \in refs : Owned(rows', ref, c)
    BY ClaimKeeps
  <1>5. /\ \A d \in Conversation : \A holder \in messages[d] \union queue[d] :
              refs \intersect holder.refs = {}
        /\ \A item \in removed : item.refs \intersect refs = {}
    BY PickedIsUnnamed
  <1>6. Joins(held, c, messages, queue, messages', queue')
    BY <1>2 DEF Joins
  <1>7. HoldersOwn(rows', messages', queue')
    <2>1. \A ref \in held.refs : Owned(rows', ref, c)
      BY <1>4 DEF HoldersOwn
    <2> QED
      BY <1>4, <1>6, <2>1, HolderJoins
  <1>8. RemovedApart(removed', messages', queue')
    <2>1. removed \subseteq RemovedSet /\ RemovedApart(removed, messages, queue)
      BY DEF AttachmentsInv, RemovedRows
    <2>2. ASSUME NEW item \in removed, item.conversation = c
          PROVE  item.refs \intersect held.refs = {}
      <3>1. item.refs \intersect base = {}
        BY <2>1, <2>2 DEF RemovedApart
      <3> QED
        BY <1>5, <3>1
    <2>3. RemovedApart(removed, messages', queue')
      BY <1>6, <2>1, <2>2, HolderIsApart
    <2> QED
      BY <2>3
  <1>9. ItemsApart(messages', queue')
    <2> SUFFICES ASSUME NEW d \in Conversation, NEW item \in queue[d]
                 PROVE  \A other \in messages'[d] : item.refs \intersect other.refs = {}
      BY DEF ItemsApart, AttachmentsInv
    <2>1. \A other \in messages[d] : item.refs \intersect other.refs = {}
      BY DEF ItemsApart, AttachmentsInv
    <2>2. d = c => item.refs \intersect held.refs = {}
      BY <1>5
    <2> QED
      BY <1>2, <2>1, <2>2
  <1>10. GoneIsEmpty(exists', messages', queue')
    BY <1>2 DEF GoneIsEmpty, AttachmentsInv
  <1>11. /\ RemovedRows(rows', nextRow', removed') /\ GoodRows(rows', objects', nextRow')
         /\ DraftsHold(rows', forks' \union claim') /\ DraftsApart(forks', claim')
    BY <1>4 DEF AttachmentsInv
  <1> QED
    BY <1>3, <1>7, <1>8, <1>9, <1>10, <1>11 DEF AttachmentsInv

LEMMA SendStep ==
    ASSUME AttachmentsInv, NEW s \in Browser, NEW c \in Conversation, NEW picked,
           SendMessage(s, c, picked)
    PROVE  AttachmentsInv'
  <1> DEFINE refs == {Ref(row) : row \in picked}
             held == [id |-> numbered, refs |-> refs]
  <1>1. Picks(picked, s, Composer(c), refs)
    BY DEF SendMessage, Picks
  <1>2. Composer(c) \in Conversation \union {Draft} /\ numbered \in Nat
    BY DEF Composer, AttachmentsInv, AttachmentTypes
  <1>3. held \in HolderSet /\ held.refs = {} \union refs
    BY <1>1, <1>2, PickedIsUnnamed DEF HolderSet
  <1>4. /\ rows' = (rows \ picked) \union Claimed(picked, c, numbered)
        /\ messages' = [messages EXCEPT ![c] = @ \union {held}]
        /\ exists' = exists \union {c} /\ numbered' = numbered + 1
        /\ UNCHANGED <<objects, queue, removed, forks, claim, alive, nextRow>>
    BY DEF SendMessage
  <1> HIDE DEF held, refs
  <1> QED
    BY <1>1, <1>2, <1>3, <1>4, MessageStep

LEMMA ReviseStep ==
    ASSUME AttachmentsInv, NEW s \in Browser, NEW c \in exists,
           NEW source \in messages[c], NEW picked, Revise(s, c, source, picked)
    PROVE  AttachmentsInv'
  <1> DEFINE refs == {Ref(row) : row \in picked}
             held == [id |-> numbered, refs |-> source.refs \union refs]
  <1>1. Picks(picked, s, c, refs)
    BY DEF Revise, Picks
  <1>2. /\ c \in Conversation /\ numbered \in Nat /\ source.refs \subseteq RefSet
        /\ exists \union {c} = exists
    BY DEF AttachmentsInv, AttachmentTypes
  <1>3. held \in HolderSet /\ held.refs = source.refs \union refs
    BY <1>1, <1>2, PickedIsUnnamed DEF HolderSet
  <1>4. /\ rows' = (rows \ picked) \union Claimed(picked, c, numbered)
        /\ messages' = [messages EXCEPT ![c] = @ \union {held}]
        /\ exists' = exists \union {c} /\ numbered' = numbered + 1
        /\ UNCHANGED <<objects, queue, removed, forks, claim, alive, nextRow>>
        /\ queue[c] = {}
    BY <1>2 DEF Revise
  <1> HIDE DEF held, refs
  <1>5. queue[c] = {} /\ \E x \in messages[c] : source.refs = x.refs
    BY <1>4
  <1> QED
    BY <1>1, <1>2, <1>3, <1>4, <1>5, MessageStep

LEMMA EnqueueStep ==
    ASSUME AttachmentsInv, NEW s \in Browser, NEW c \in exists, NEW picked,
           Enqueue(s, c, picked)
    PROVE  AttachmentsInv'
  <1> DEFINE refs == {Ref(row) : row \in picked}
             held == [id |-> numbered, refs |-> refs]
  <1>1. AttachmentTypes /\ c \in Conversation /\ numbered \in Nat
    BY DEF AttachmentsInv, AttachmentTypes
  <1>2. Picks(picked, s, c, refs)
    BY DEF Enqueue, Picks
  <1>3. held \in HolderSet /\ held.refs = refs
    BY <1>1, <1>2, PickedIsUnnamed DEF HolderSet
  <1>4. /\ rows' = (rows \ picked) \union Claimed(picked, c, 0)
        /\ queue' = [queue EXCEPT ![c] = @ \union {held}]
        /\ numbered' = numbered + 1
        /\ UNCHANGED <<objects, exists, messages, removed, forks, claim, alive, nextRow>>
    BY DEF Enqueue
  <1>5. /\ queue' \in [Conversation -> SUBSET HolderSet]
        /\ queue'[c] = queue[c] \union {held}
        /\ \A d \in Conversation : d # c => queue'[d] = queue[d]
    BY <1>1, <1>3, <1>4 DEF AttachmentTypes, HolderSet
  <1> HIDE DEF held, refs
  <1>6. AttachmentTypes'
    BY <1>1, <1>4, <1>5 DEF AttachmentTypes, HolderSet
  <1>7. /\ GoodRows(rows', objects, nextRow)
        /\ HoldersOwn(rows', messages, queue)
        /\ RemovedRows(rows', nextRow, removed)
        /\ DraftsHold(rows', forks \union claim)
        /\ \A ref \in refs : Owned(rows', ref, c)
    <2>1. c \in Conversation \union {Draft} /\ 0 \in Nat
      BY <1>1
    <2> QED
      BY <1>1, <1>2, <1>4, <2>1, ClaimKeeps
  <1>8. /\ \A d \in Conversation : \A holder \in messages[d] \union queue[d] :
              refs \intersect holder.refs = {}
        /\ \A item \in removed : item.refs \intersect refs = {}
    BY <1>2, PickedIsUnnamed
  <1>9. Joins(held, c, messages, queue, messages', queue')
    BY <1>4, <1>5 DEF Joins
  <1>10. HoldersOwn(rows', messages', queue')
    <2>1. \A ref \in held.refs : Owned(rows', ref, c)
      BY <1>3, <1>7
    <2> QED
      BY <1>1, <1>7, <1>9, <2>1, HolderJoins
  <1>11. RemovedApart(removed', messages', queue')
    <2>1. removed \subseteq RemovedSet /\ RemovedApart(removed, messages, queue)
      BY DEF AttachmentsInv, RemovedRows
    <2>2. \A item \in removed : item.conversation = c => item.refs \intersect held.refs = {}
      BY <1>3, <1>8
    <2>3. RemovedApart(removed, messages', queue')
      BY <1>1, <1>9, <2>1, <2>2, HolderIsApart
    <2> QED
      BY <1>4, <2>3
  <1>12. ItemsApart(messages', queue')
    <2> SUFFICES ASSUME NEW d \in Conversation, NEW item \in queue'[d]
                 PROVE  /\ \A other \in messages[d] : item.refs \intersect other.refs = {}
                        /\ \A other \in queue'[d] :
                              other # item => item.refs \intersect other.refs = {}
      BY <1>4 DEF ItemsApart
    <2>1. CASE item \in queue[d]
      <3>1. /\ \A other \in messages[d] : item.refs \intersect other.refs = {}
            /\ \A other \in queue[d] : other # item => item.refs \intersect other.refs = {}
        BY <2>1 DEF ItemsApart, AttachmentsInv
      <3>2. item.refs \intersect held.refs = {}
        BY <1>3, <1>8, <2>1
      <3> QED
        BY <1>5, <3>1, <3>2
    <2>2. CASE item \notin queue[d]
      <3>1. item = held /\ d = c
        BY <1>5, <2>2
      <3>2. \A other \in messages[d] \union queue[d] : item.refs \intersect other.refs = {}
        BY <1>1, <1>3, <1>8, <3>1
      <3> QED
        BY <1>5, <3>1, <3>2
    <2> QED
      BY <2>1, <2>2
  <1>13. GoneIsEmpty(exists', messages', queue')
    BY <1>4, <1>5 DEF GoneIsEmpty, AttachmentsInv
  <1>14. /\ RemovedRows(rows', nextRow', removed') /\ GoodRows(rows', objects', nextRow')
         /\ DraftsHold(rows', forks' \union claim') /\ DraftsApart(forks', claim')
    BY <1>4, <1>7 DEF AttachmentsInv
  <1> QED
    BY <1>6, <1>10, <1>11, <1>12, <1>13, <1>14 DEF AttachmentsInv

LEMMA DeliverStep ==
    ASSUME AttachmentsInv, NEW c \in exists, NEW item \in queue[c], Deliver(c, item)
    PROVE  AttachmentsInv'
  <1>1. AttachmentTypes /\ c \in Conversation
    BY DEF AttachmentsInv, AttachmentTypes
  <1>2. /\ UNCHANGED <<rows, objects, exists, removed, forks, claim, alive, nextRow, numbered>>
        /\ queue' = [queue EXCEPT ![c] = @ \ {item}]
        /\ messages' = [messages EXCEPT ![c] = @ \union {item}]
    BY DEF Deliver
  <1>3. /\ queue' \in [Conversation -> SUBSET HolderSet]
        /\ messages' \in [Conversation -> SUBSET HolderSet]
        /\ queue'[c] = queue[c] \ {item} /\ messages'[c] = messages[c] \union {item}
        /\ \A d \in Conversation : d # c => queue'[d] = queue[d] /\ messages'[d] = messages[d]
    BY <1>1, <1>2 DEF AttachmentTypes, HolderSet
  <1>4. AttachmentTypes'
    BY <1>1, <1>2, <1>3 DEF AttachmentTypes, HolderSet
  <1>5. \A d \in Conversation :
            messages'[d] \union queue'[d] = messages[d] \union queue[d]
    BY <1>3
  <1>6. HoldersOwn(rows', messages', queue')
    BY <1>2, <1>5 DEF HoldersOwn, AttachmentsInv
  <1>7. RemovedApart(removed', messages', queue')
    <2>1. \A gone \in removed : gone.conversation \in Conversation
      BY DEF AttachmentsInv, RemovedRows, RemovedSet
    <2> QED
      BY <1>2, <1>5, <2>1 DEF RemovedApart, AttachmentsInv
  <1>8. ItemsApart(messages', queue')
    <2> SUFFICES ASSUME NEW d \in Conversation, NEW i \in queue'[d]
                 PROVE  /\ \A other \in messages'[d] : i.refs \intersect other.refs = {}
                        /\ \A other \in queue'[d] :
                              other # i => i.refs \intersect other.refs = {}
      BY DEF ItemsApart
    <2>1. i \in queue[d] /\ (d = c => i # item)
      BY <1>3
    <2>2. /\ \A other \in messages[d] : i.refs \intersect other.refs = {}
          /\ \A other \in queue[d] : other # i => i.refs \intersect other.refs = {}
      BY <2>1 DEF ItemsApart, AttachmentsInv
    <2> QED
      BY <1>3, <2>1, <2>2
  <1>9. GoneIsEmpty(exists', messages', queue')
    BY <1>2, <1>3 DEF GoneIsEmpty, AttachmentsInv
  <1>10. /\ RemovedRows(rows', nextRow', removed') /\ GoodRows(rows', objects', nextRow')
         /\ DraftsHold(rows', forks' \union claim') /\ DraftsApart(forks', claim')
    BY <1>2 DEF AttachmentsInv
  <1> QED
    BY <1>4, <1>6, <1>7, <1>8, <1>9, <1>10 DEF AttachmentsInv

-----------------------------------------------------------------------------
(* Steps that take names from a conversation.                              *)
LEMMA ReturnStep ==
    ASSUME AttachmentsInv, NEW s \in Browser, NEW c \in exists, NEW item \in queue[c],
           ReturnItem(s, c, item)
    PROVE  AttachmentsInv'
  <1> DEFINE back == {row \in rows : Ref(row) \in item.refs}
             moved == {[row EXCEPT !.owner = s, !.scope = c, !.old = FALSE] : row \in back}
  <1>1. AttachmentTypes /\ GoodRows(rows, objects, nextRow) /\ c \in Conversation
    BY DEF AttachmentsInv, AttachmentTypes
  <1>2. PICK old \in BOOLEAN : old = FALSE
    OBVIOUS
  <1>3. ASSUME NEW row \in back
        PROVE  /\ [row EXCEPT !.owner = s, !.scope = c, !.old = FALSE] \in RowSet
               /\ Ref([row EXCEPT !.owner = s, !.scope = c, !.old = FALSE]) = Ref(row)
    <2>1. row \in RowSet
      BY <1>1 DEF GoodRows
    <2>2. /\ [row EXCEPT !.owner = s, !.scope = c, !.old = old] \in RowSet
          /\ Ref([row EXCEPT !.owner = s, !.scope = c, !.old = old]) = Ref(row)
      BY <1>1, <2>1 DEF RowSet, Ref
    <2> QED
      BY <1>2, <2>2, Zenon
  <1>4. rows' = (rows \ back) \union moved /\ \A row \in back : row.owner = c
    BY Zenon DEF ReturnItem
  <1>5. /\ UNCHANGED <<objects, exists, messages, removed, forks, claim>>
        /\ UNCHANGED <<alive, nextRow, numbered>>
        /\ queue' = [queue EXCEPT ![c] = @ \ {item}]
    BY Zenon DEF ReturnItem
  <1>6. Relocates(rows, back, moved)
    <2>1. moved \subseteq RowSet
      BY <1>3, Zenon
    <2>2. \A row \in moved : \E was \in back : Ref(was) = Ref(row)
      BY <1>3, Zenon
    <2>3. ASSUME NEW a \in moved, NEW b \in moved, Ref(a) = Ref(b)
          PROVE  a = b
      <3>1. PICK p \in back : a = [p EXCEPT !.owner = s, !.scope = c, !.old = FALSE]
        BY Zenon
      <3>2. PICK q \in back : b = [q EXCEPT !.owner = s, !.scope = c, !.old = FALSE]
        BY Zenon
      <3>3. Ref(a) = Ref(p) /\ Ref(b) = Ref(q)
        BY <1>3, <3>1, <3>2, Zenon
      <3>4. p = q
        <4>1. p \in rows /\ q \in rows /\ Ref(p) = Ref(q)
          BY <2>3, <3>3
        <4> QED
          BY <1>1, <4>1, SameRefSameRow
      <3> QED
        BY <3>1, <3>2, <3>4, Zenon
    <2> QED
      BY <2>1, <2>2, <2>3, Zenon DEF Relocates
  <1> HIDE DEF moved
  <1>7. GoodRows(rows', objects', nextRow')
    <2>1. back \subseteq rows
      OBVIOUS
    <2> QED
      BY <1>1, <1>4, <1>5, <1>6, <2>1, MovedRows
  <1>8. /\ queue' \in [Conversation -> SUBSET HolderSet]
        /\ queue'[c] = queue[c] \ {item}
        /\ \A d \in Conversation : d # c => queue'[d] = queue[d]
    BY <1>1, <1>5 DEF AttachmentTypes, HolderSet
  <1>9. AttachmentTypes'
    BY <1>1, <1>5, <1>8 DEF AttachmentTypes, HolderSet
  <1>10. /\ \A other \in messages[c] : item.refs \intersect other.refs = {}
         /\ \A other \in queue[c] : other # item => item.refs \intersect other.refs = {}
    BY <1>1 DEF ItemsApart, AttachmentsInv
  <1>11. HoldersOwn(rows', messages', queue')
    <2> SUFFICES ASSUME NEW d \in Conversation, NEW holder \in messages[d] \union queue'[d],
                        NEW ref \in holder.refs
                 PROVE  Owned(rows', ref, d)
      BY <1>5 DEF HoldersOwn
    <2>1. holder \in messages[d] \union queue[d] /\ (d = c => holder # item \/ holder \in messages[c])
      BY <1>8
    <2>2. PICK row \in rows : Ref(row) = ref /\ row.owner = d
      BY <2>1 DEF HoldersOwn, Owned, AttachmentsInv
    <2>3. row \notin back
      BY <1>4, <1>10, <2>1, <2>2
    <2> QED
      BY <1>4, <2>2, <2>3 DEF Owned
  <1>12. RemovedRows(rows', nextRow', removed')
    <2>1. RemovedRows(rows, nextRow, removed) /\ RemovedApart(removed, messages, queue)
      BY DEF AttachmentsInv
    <2> SUFFICES ASSUME NEW gone \in removed, NEW ref \in gone.refs, NEW row \in rows',
                        Ref(row) = ref
                 PROVE  row.owner = gone.conversation
      BY <1>5, <2>1 DEF RemovedRows
    <2>2. CASE row \in rows
      BY <2>1, <2>2 DEF RemovedRows
    <2>3. CASE row \in moved
      <3>1. PICK was \in back : Ref(was) = Ref(row)
        BY <1>6, <2>3 DEF Relocates
      <3>2. gone.conversation = c
        BY <1>4, <2>1, <3>1 DEF RemovedRows
      <3>3. gone.refs \intersect item.refs = {}
        BY <2>1, <3>2 DEF RemovedApart
      <3> QED
        BY <3>1, <3>3
    <2> QED
      BY <1>4, <2>2, <2>3
  <1>13. DraftsHold(rows', forks' \union claim')
    <2>1. KeepsForked(rows, rows', forks \union claim)
      <3> SUFFICES ASSUME NEW draft \in forks \union claim, NEW row \in rows,
                          row.owner = draft.session
                   PROVE  row \in rows'
        BY DEF KeepsForked, Drafted
      <3>1. row.owner # c
        BY <1>1, AttachmentsAssumed DEF DraftsHold, AttachmentsInv
      <3> QED
        BY <1>4, <3>1
    <2> QED
      BY <1>5, <2>1, DraftsKeep DEF AttachmentsInv
  <1>14. ItemsApart(messages', queue')
    BY <1>5, <1>8 DEF ItemsApart, AttachmentsInv
  <1>15. RemovedApart(removed', messages', queue')
    <2>1. \A gone \in removed : gone.conversation \in Conversation
      BY DEF AttachmentsInv, RemovedRows, RemovedSet
    <2> QED
      BY <1>5, <1>8, <2>1 DEF RemovedApart, AttachmentsInv
  <1>16. GoneIsEmpty(exists', messages', queue')
    BY <1>5, <1>8 DEF GoneIsEmpty, AttachmentsInv
  <1>17. DraftsApart(forks', claim')
    BY <1>5 DEF AttachmentsInv
  <1> QED
    BY <1>7, <1>9, <1>11, <1>12, <1>13, <1>14, <1>15, <1>16, <1>17 DEF AttachmentsInv

LEMMA RemoveStep ==
    ASSUME AttachmentsInv, NEW c \in exists, NEW item \in queue[c], RemoveItem(c, item)
    PROVE  AttachmentsInv'
  <1> DEFINE gone == [conversation |-> c, refs |-> item.refs]
  <1>1. /\ AttachmentTypes /\ GoodRows(rows, objects, nextRow) /\ c \in Conversation
        /\ item.refs \subseteq RefSet /\ nextRow \in Nat
    BY DEF AttachmentsInv, AttachmentTypes
  <1>2. /\ UNCHANGED <<rows, objects, exists, messages, forks, claim, alive, nextRow, numbered>>
        /\ queue' = [queue EXCEPT ![c] = @ \ {item}]
        /\ removed' = removed \union {gone}
    BY DEF RemoveItem
  <1>3. /\ queue' \in [Conversation -> SUBSET HolderSet]
        /\ queue'[c] = queue[c] \ {item}
        /\ \A d \in Conversation : d # c => queue'[d] = queue[d]
    BY <1>1, <1>2 DEF AttachmentTypes, HolderSet
  <1>4. gone \in RemovedSet /\ gone.conversation = c /\ gone.refs = item.refs
    BY <1>1 DEF RemovedSet
  <1> HIDE DEF gone
  <1>5. AttachmentTypes'
    BY <1>1, <1>2, <1>3 DEF AttachmentTypes, HolderSet
  <1>6. RemovedRows(rows', nextRow', removed')
    <2>1. RemovedRows(rows, nextRow, removed)
      BY DEF AttachmentsInv
    <2>2. ASSUME NEW ref \in item.refs
          PROVE  /\ ref.id < nextRow
                 /\ \A row \in rows : Ref(row) = ref => row.owner = c
      <3>1. Owned(rows, ref, c)
        BY <1>1 DEF HoldersOwn, AttachmentsInv
      <3>2. PICK was \in rows : Ref(was) = ref
        BY <3>1 DEF Owned
      <3>3. ref.id < nextRow
        BY <1>1, <3>2, RefFields DEF GoodRows
      <3>4. ASSUME NEW row \in rows, Ref(row) = ref
            PROVE  row.owner = c
        BY <1>1, <3>1, <3>4, OwnerIsOne
      <3> QED
        BY <3>3, <3>4
    <2> QED
      BY <1>2, <1>4, <2>1, <2>2 DEF RemovedRows
  <1>7. RemovedApart(removed', messages', queue')
    <2>1. \A i \in removed : i.conversation \in Conversation
      BY DEF AttachmentsInv, RemovedRows, RemovedSet
    <2>2. ASSUME NEW i \in removed,
                 NEW holder \in messages'[i.conversation] \union queue'[i.conversation]
          PROVE  i.refs \intersect holder.refs = {}
      <3>1. holder \in messages[i.conversation] \union queue[i.conversation]
        BY <1>2, <1>3, <2>1
      <3> QED
        BY <3>1 DEF RemovedApart, AttachmentsInv
    <2>3. ASSUME NEW holder \in messages'[c] \union queue'[c]
          PROVE  item.refs \intersect holder.refs = {}
      <3>1. /\ \A other \in messages[c] : item.refs \intersect other.refs = {}
            /\ \A other \in queue[c] : other # item => item.refs \intersect other.refs = {}
        BY <1>1 DEF ItemsApart, AttachmentsInv
      <3> QED
        BY <1>2, <1>3, <3>1
    <2> QED
      BY <1>2, <1>4, <2>2, <2>3 DEF RemovedApart
  <1>8. HoldersOwn(rows', messages', queue')
    <2>1. \A d \in Conversation : queue'[d] \subseteq queue[d]
      BY <1>3
    <2> QED
      BY <1>2, <2>1 DEF HoldersOwn, AttachmentsInv
  <1>9. ItemsApart(messages', queue')
    BY <1>2, <1>3 DEF ItemsApart, AttachmentsInv
  <1>10. GoneIsEmpty(exists', messages', queue')
    BY <1>2, <1>3 DEF GoneIsEmpty, AttachmentsInv
  <1>11. /\ GoodRows(rows', objects', nextRow')
         /\ DraftsHold(rows', forks' \union claim') /\ DraftsApart(forks', claim')
    BY <1>2 DEF AttachmentsInv
  <1> QED
    BY <1>5, <1>6, <1>7, <1>8, <1>9, <1>10, <1>11 DEF AttachmentsInv

LEMMA DeleteOwnedStep ==
    ASSUME AttachmentsInv, NEW item \in removed, NEW ref \in item.refs,
           DeleteOwned(item, ref)
    PROVE  AttachmentsInv'
  <1> DEFINE gone == {row \in rows : Ref(row) = ref /\ row.owner = item.conversation
                                        /\ row.message = 0}
  <1>1. /\ GoodRows(rows, objects, nextRow) /\ RemovedRows(rows, nextRow, removed)
        /\ RemovedApart(removed, messages, queue) /\ nextRow \in Nat
        /\ item \in RemovedSet /\ item.conversation \in Conversation
    BY DEF AttachmentsInv, AttachmentTypes, RemovedRows, RemovedSet
  <1>2. /\ UNCHANGED <<exists, messages, queue, forks, claim, alive, nextRow, numbered>>
        /\ DeleteRows(gone, FALSE)
    BY DEF DeleteOwned
  <1>3. rows' = rows \ gone /\ GoodRows(rows', objects', nextRow')
    <2>1. gone \subseteq rows /\ nextRow' = nextRow
      BY <1>2
    <2>2. DeleteRows(gone, FALSE)
      BY <1>2
    <2> HIDE DEF gone
    <2> QED
      BY <2>1, <2>2, DeletedRows
  <1>4. \A i \in removed' : \E j \in removed :
            i \in RemovedSet /\ i.conversation = j.conversation /\ i.refs \subseteq j.refs
    <2>1. /\ [item EXCEPT !.refs = @ \ {ref}] \in RemovedSet
          /\ [item EXCEPT !.refs = @ \ {ref}].conversation = item.conversation
          /\ [item EXCEPT !.refs = @ \ {ref}].refs \subseteq item.refs
      BY <1>1 DEF RemovedSet
    <2>2. removed' \subseteq removed \union {[item EXCEPT !.refs = @ \ {ref}]}
      BY DEF DeleteOwned
    <2>3. removed \subseteq RemovedSet
      BY <1>1 DEF RemovedRows
    <2> QED
      BY <2>1, <2>2, <2>3
  <1>5. AttachmentTypes'
    BY <1>2 DEF AttachmentsInv, AttachmentTypes
  <1>6. RemovedRows(rows', nextRow', removed')
    <2>1. rows' \subseteq rows
      BY <1>3
    <2> QED
      BY <1>1, <1>2, <1>4, <2>1 DEF RemovedRows
  <1>7. RemovedApart(removed', messages', queue')
    BY <1>1, <1>2, <1>4 DEF RemovedApart
  <1>8. HoldersOwn(rows', messages', queue')
    <2> SUFFICES ASSUME NEW d \in Conversation, NEW holder \in messages[d] \union queue[d],
                        NEW r \in holder.refs
                 PROVE  Owned(rows', r, d)
      BY <1>2 DEF HoldersOwn
    <2>1. PICK row \in rows : Ref(row) = r /\ row.owner = d
      BY DEF HoldersOwn, Owned, AttachmentsInv
    <2>2. row \notin gone
      BY <1>1, <2>1 DEF RemovedApart
    <2> QED
      BY <1>3, <2>1, <2>2 DEF Owned
  <1>9. DraftsHold(rows', forks' \union claim')
    <2>1. KeepsForked(rows, rows', forks \union claim)
      <3> SUFFICES ASSUME NEW draft \in forks \union claim, NEW row \in rows,
                          row.owner = draft.session
                   PROVE  row \in rows'
        BY DEF KeepsForked, Drafted
      <3>1. row.owner # item.conversation
        BY <1>1, AttachmentsAssumed DEF DraftsHold, AttachmentsInv
      <3> QED
        BY <1>3, <3>1
    <2> QED
      BY <1>2, <2>1, DraftsKeep DEF AttachmentsInv
  <1>10. /\ ItemsApart(messages', queue') /\ GoneIsEmpty(exists', messages', queue')
         /\ DraftsApart(forks', claim')
    BY <1>2 DEF AttachmentsInv
  <1> QED
    BY <1>3, <1>5, <1>6, <1>7, <1>8, <1>9, <1>10 DEF AttachmentsInv

LEMMA DeleteStep ==
    ASSUME AttachmentsInv, NEW c \in exists, DeleteConversation(c)
    PROVE  AttachmentsInv'
  <1> DEFINE gone == {row \in rows : row.owner = c}
  <1>1. AttachmentTypes /\ c \in Conversation /\ nextRow \in Nat
    BY DEF AttachmentsInv, AttachmentTypes
  <1>2. /\ UNCHANGED <<removed, forks, claim, alive, nextRow, numbered>>
        /\ exists' = exists \ {c} /\ DeleteRows(gone, FALSE)
        /\ messages' = [messages EXCEPT ![c] = {[id |-> 0, refs |-> {}]}]
        /\ queue' = [queue EXCEPT ![c] = {}]
    BY DEF DeleteConversation
  <1>3. rows' = rows \ gone /\ GoodRows(rows', objects', nextRow')
    <2>1. gone \subseteq rows /\ nextRow' = nextRow /\ DeleteRows(gone, FALSE)
      BY <1>2
    <2> HIDE DEF gone
    <2> QED
      BY <2>1, DeletedRows
  <1>4. [id |-> 0, refs |-> {}] \in HolderSet
    BY DEF HolderSet
  <1>5. /\ queue' \in [Conversation -> SUBSET HolderSet]
        /\ messages' \in [Conversation -> SUBSET HolderSet]
        /\ queue'[c] = {} /\ messages'[c] = {[id |-> 0, refs |-> {}]}
        /\ \A d \in Conversation : d # c => queue'[d] = queue[d] /\ messages'[d] = messages[d]
    BY <1>1, <1>2, <1>4 DEF AttachmentTypes, HolderSet
  <1>6. \A holder \in messages'[c] \union queue'[c] : holder.refs = {}
    BY <1>5
  <1>7. AttachmentTypes'
    BY <1>1, <1>2, <1>5 DEF AttachmentTypes, HolderSet
  <1>8. HoldersOwn(rows', messages', queue')
    <2> SUFFICES ASSUME NEW d \in Conversation, NEW holder \in messages'[d] \union queue'[d],
                        NEW r \in holder.refs
                 PROVE  Owned(rows', r, d)
      BY DEF HoldersOwn
    <2>1. d # c /\ holder \in messages[d] \union queue[d]
      BY <1>5, <1>6
    <2>2. PICK row \in rows : Ref(row) = r /\ row.owner = d
      BY <2>1 DEF HoldersOwn, Owned, AttachmentsInv
    <2> QED
      BY <1>3, <2>1, <2>2 DEF Owned
  <1>9. ItemsApart(messages', queue')
    <2>1. \A d \in Conversation : d = c \/ (queue'[d] = queue[d] /\ messages'[d] = messages[d])
      BY <1>5
    <2> QED
      BY <1>5, <2>1 DEF ItemsApart, AttachmentsInv
  <1>10. RemovedRows(rows', nextRow', removed')
    <2>1. rows' \subseteq rows
      BY <1>3
    <2> QED
      BY <1>2, <2>1 DEF RemovedRows, AttachmentsInv
  <1>11. RemovedApart(removed', messages', queue')
    <2> SUFFICES ASSUME NEW i \in removed,
                        NEW holder \in messages'[i.conversation] \union queue'[i.conversation]
                 PROVE  i.refs \intersect holder.refs = {}
      BY <1>2 DEF RemovedApart
    <2>1. i.conversation \in Conversation
      BY DEF AttachmentsInv, RemovedRows, RemovedSet
    <2>2. CASE i.conversation = c
      BY <1>6, <2>2
    <2>3. CASE i.conversation # c
      BY <1>5, <2>1, <2>3 DEF RemovedApart, AttachmentsInv
    <2> QED
      BY <2>2, <2>3
  <1>12. DraftsHold(rows', forks' \union claim')
    <2>1. KeepsForked(rows, rows', forks \union claim)
      <3> SUFFICES ASSUME NEW draft \in forks \union claim, NEW row \in rows,
                          row.owner = draft.session
                   PROVE  row \in rows'
        BY DEF KeepsForked, Drafted
      <3>1. row.owner # c
        BY <1>1, AttachmentsAssumed DEF DraftsHold, AttachmentsInv
      <3> QED
        BY <1>3, <3>1
    <2> QED
      BY <1>2, <2>1, DraftsKeep DEF AttachmentsInv
  <1>13. GoneIsEmpty(exists', messages', queue')
    <2> SUFFICES ASSUME NEW d \in Conversation, d \notin exists'
                 PROVE  queue'[d] = {} /\ \A holder \in messages'[d] : holder.refs = {}
      BY DEF GoneIsEmpty
    <2>1. CASE d = c
      BY <1>5, <1>6, <2>1
    <2>2. CASE d # c
      BY <1>2, <1>5, <2>2 DEF GoneIsEmpty, AttachmentsInv
    <2> QED
      BY <2>1, <2>2
  <1>14. DraftsApart(forks', claim')
    BY <1>2 DEF AttachmentsInv
  <1> QED
    BY <1>3, <1>7, <1>8, <1>9, <1>10, <1>11, <1>12, <1>13, <1>14 DEF AttachmentsInv

-----------------------------------------------------------------------------
(* Drafts.                                                                 *)
LEMMA NamedObjectsStay ==
    ASSUME NEW rs, NEW os, NEW n, GoodRows(rs, os, n), NEW digests, NEW kept,
           kept = os \ Unreferenced(digests, rs)
    PROVE  GoodRows(rs, kept, n)
  <1>1. ASSUME NEW row \in rs PROVE row.digest \in kept
    BY DEF GoodRows, Unreferenced
  <1> QED
    BY <1>1 DEF GoodRows

LEMMA FewerRows ==
    ASSUME NEW rs, NEW os, NEW n, GoodRows(rs, os, n), NEW new, new \subseteq rs
    PROVE  GoodRows(new, os, n)
  BY DEF GoodRows

LEMMA HeldIdsAreOld ==
    ASSUME AttachmentsInv, NEW draft \in forks \union claim, NEW ref \in draft.refs
    PROVE  ref.id < nextRow /\ ref.id \in Nat /\ \E row \in rows : Ref(row) = ref
  <1>1. PICK row \in rows : Ref(row) = ref
    BY DEF AttachmentsInv, DraftsHold, Drafted
  <1>2. row.id < nextRow /\ row.id \in Nat
    BY DEF AttachmentsInv, GoodRows, RowSet
  <1> QED
    BY <1>1, <1>2, RefFields

LEMMA RemovedIdsAreOld ==
    ASSUME AttachmentsInv, NEW item \in removed, NEW ref \in item.refs
    PROVE  ref.id < nextRow /\ ref.id \in Nat
  BY DEF AttachmentsInv, RemovedRows, RemovedSet, RefSet

LEMMA ForkStep ==
    ASSUME AttachmentsInv, NEW s \in Browser, NEW c \in exists, NEW message \in messages[c],
           Fork(s, c, message)
    PROVE  AttachmentsInv'
  <1> DEFINE refs == message.refs
             ids == nextRow .. nextRow + Cardinality(refs) - 1
             copies == CHOOSE f \in [refs -> ids] : \A a, b \in refs : a # b => f[a] # f[b]
             staged == {Row(copies[ref], ref.digest, s, ForkScope, FALSE) : ref \in refs}
             left == forks \ Dropped(s)
             fresh == IF refs = {} THEN rows ELSE rows \ Expired
             kept == {row \in fresh : IsStaged(row) => Ref(row) \notin Held(Dropped(s))}
             draft == [session |-> s, refs |-> {Ref(row) : row \in staged}]
             more == nextRow + Cardinality(refs)
  <1>1. /\ GoodRows(rows, objects, nextRow) /\ nextRow \in Nat
        /\ c \in Conversation
    BY DEF AttachmentsInv, AttachmentTypes
  <1>2. \A ref \in refs : \E row \in rows : Ref(row) = ref
    BY <1>1 DEF HoldersOwn, Owned, AttachmentsInv
  <1>3. Cardinality(refs) \in Nat /\ copies \in Copies(refs, ids)
    <2>1. Cardinality(refs) \in Nat /\ Copies(refs, ids) # {}
      <3> HIDE DEF refs
      <3> QED
        BY <1>1, <1>2, CopiesExist
    <2>2. \E f \in [refs -> ids] : \A a, b \in refs : a # b => f[a] # f[b]
      <3> HIDE DEF refs, ids
      <3> QED
        BY <2>1 DEF Copies
    <2>3. copies \in [refs -> ids] /\ \A a, b \in refs : a # b => copies[a] # copies[b]
      <3> HIDE DEF refs, ids
      <3> QED
        BY <2>2
    <2> HIDE DEF refs, ids, copies
    <2> QED
      BY <2>1, <2>3 DEF Copies
  <1>4. /\ staged \subseteq RowSet
        /\ \A row \in staged :
              /\ row.digest \in objects /\ nextRow <= row.id /\ row.id < more
              /\ row.owner = s /\ row.scope = ForkScope
        /\ \A a, b \in staged : a.id = b.id => a = b
    <2>1. /\ s \in Browser \union Conversation
          /\ ForkScope \in Conversation \union {Draft, ForkScope}
      OBVIOUS
    <2>2. AreCopies(staged, copies, refs, s, ForkScope)
      BY Zenon DEF AreCopies
    <2> HIDE DEF refs, copies, staged
    <2> QED
      BY <1>1, <1>2, <1>3, <2>1, <2>2, CopiedRows
  <1>5. /\ UNCHANGED <<exists, messages, queue, numbered>>
        /\ UNCHANGED <<removed, claim, alive>> /\ nextRow' = more
    BY DEF Fork
  <1>6. /\ \/ forks' = left /\ rows' = kept
           \/ forks' = left \union {draft} /\ rows' = kept \union staged
        /\ objects' = objects \ Unreferenced(Digests(rows \ kept), rows')
    BY DEF Fork
  <1>7. /\ kept \subseteq rows
        /\ \A row \in rows \ kept : IsStaged(row)
        /\ \A row \in rows : row.scope = ForkScope /\ Ref(row) \notin Held(Dropped(s))
                                => row \in kept
    BY DEF Expired
  <1>8. draft.session = s /\ draft.refs = {Ref(row) : row \in staged}
    OBVIOUS
  <1>9. more \in Nat /\ nextRow <= more
    BY <1>1, <1>3
  <1>10. left \subseteq forks /\ Dropped(s) \subseteq forks /\ left \intersect Dropped(s) = {}
    BY DEF Dropped
  <1> HIDE DEF refs, ids, copies, staged, left, fresh, kept, draft, more
  <1>11. GoodRows(rows', objects', nextRow')
    <2>1. GoodRows(kept, objects, nextRow)
      BY <1>1, <1>7, FewerRows
    <2>2. nextRow \in Int /\ more \in Int
      BY <1>1, <1>9
    <2>3. GoodRows(kept, objects, more)
      BY <1>9, <2>1, <2>2, MoreObjects
    <2>4. GoodRows(kept \union staged, objects, more)
      BY <1>4, <1>9, <2>1, <2>2, MoreRows
    <2>5. GoodRows(rows', objects, more)
      BY <1>6, <2>3, <2>4
    <2>6. GoodRows(rows', objects', more)
      BY <1>6, <2>5, NamedObjectsStay
    <2> QED
      BY <1>5, <2>6
  <1>12. Keeps(rows, kept) /\ Follows(rows, kept, nextRow)
    BY <1>7, SparedKeep
  <1>13. Keeps(rows, rows')
    BY <1>6, <1>12 DEF Keeps, Owned
  <1>14. Follows(rows, rows', nextRow)
    <2>1. \A row \in staged : row.id >= nextRow
      <3>1. \A row \in staged : row.id \in Nat
        BY <1>4 DEF RowSet
      <3> QED
        BY <1>1, <1>4, <3>1
    <2> QED
      BY <1>6, <1>12, <2>1 DEF Follows
  <1>15. KeepsForked(rows, rows', left \union claim)
    <2> SUFFICES ASSUME NEW d \in left \union claim, NEW row \in rows,
                        row.scope = ForkScope, Ref(row) \in d.refs
                 PROVE  row \in rows'
      BY DEF KeepsForked, Drafted
    <2>1. \A other \in Dropped(s) : d.refs \intersect other.refs = {}
      BY <1>10 DEF AttachmentsInv, DraftsApart
    <2>2. Ref(row) \notin Held(Dropped(s))
      BY <2>1 DEF Held
    <2> QED
      BY <1>6, <1>7, <2>2
  <1>16. DraftsHold(rows', left \union claim)
    <2>1. DraftsHold(rows, left \union claim)
      BY <1>10 DEF AttachmentsInv, DraftsHold
    <2> QED
      BY <1>15, <2>1, DraftsKeep
  <1>17. DraftsHold(rows', forks' \union claim')
    <2>1. CASE forks' = left
      BY <1>5, <1>16, <2>1
    <2>2. CASE forks' = left \union {draft} /\ rows' = kept \union staged
      <3>1. \A ref \in draft.refs : Drafted(rows', ref, draft.session)
        BY <1>4, <1>8, <2>2 DEF Drafted
      <3> QED
        BY <1>5, <1>8, <1>16, <2>2, <3>1 DEF DraftsHold
    <2> QED
      BY <1>6, <2>1, <2>2
  <1>18. DraftsApart(forks', claim')
    <2>1. DraftsApart(forks, claim)
      BY DEF AttachmentsInv
    <2>2. \A d \in left \union claim : d.refs \intersect draft.refs = {}
      <3> SUFFICES ASSUME NEW d \in left \union claim, NEW row \in staged,
                          Ref(row) \in d.refs
                   PROVE  FALSE
        BY <1>8
      <3>1. d \in forks \union claim
        BY <1>10
      <3>2. Ref(row).id < nextRow /\ Ref(row).id \in Nat
        BY <3>1, HeldIdsAreOld
      <3>3. Ref(row).id = row.id /\ nextRow <= row.id
        BY <1>4, RefFields
      <3> QED
        BY <1>1, <3>2, <3>3
    <2>3. forks' = left \/ forks' = left \union {draft}
      BY <1>6
    <2> QED
      BY <1>5, <1>10, <2>1, <2>2, <2>3 DEF DraftsApart
  <1>19. removed' \subseteq removed /\ alive' \subseteq Browser
    BY <1>5 DEF AttachmentsInv, AttachmentTypes
  <1> QED
    BY <1>5, <1>9, <1>11, <1>13, <1>14, <1>17, <1>18, <1>19, StagedStep

LEMMA ClaimDraftStep ==
    ASSUME AttachmentsInv, NEW draft \in forks, ClaimDraft(draft)
    PROVE  AttachmentsInv'
  <1>1. /\ UNCHANGED <<rows, objects, exists, messages, queue, removed, alive, nextRow, numbered>>
        /\ forks' = forks \ {draft} /\ claim' = {draft} /\ claim = {}
    BY DEF ClaimDraft
  <1>2. DraftsHold(rows', forks' \union claim')
    <2>1. forks' \union claim' \subseteq forks \union claim
      BY <1>1
    <2> QED
      BY <1>1, <2>1 DEF DraftsHold, AttachmentsInv
  <1>3. DraftsApart(forks', claim')
    BY <1>1 DEF DraftsApart, AttachmentsInv
  <1> QED
    BY <1>1, <1>2, <1>3 DEF AttachmentsInv, AttachmentTypes

LEMMA CreateForkStep ==
    ASSUME AttachmentsInv, NEW c \in Conversation, NEW draft \in claim, CreateFork(c, draft)
    PROVE  AttachmentsInv'
  <1> DEFINE refs == draft.refs
             ids == nextRow .. nextRow + Cardinality(refs) - 1
             copies == CHOOSE f \in [refs -> ids] : \A a, b \in refs : a # b => f[a] # f[b]
             owned == {Row(copies[ref], ref.digest, c, Draft, FALSE) : ref \in refs}
             held == [id |-> numbered, refs |-> {Ref(row) : row \in owned}]
             more == nextRow + Cardinality(refs)
  <1>1. /\ GoodRows(rows, objects, nextRow) /\ nextRow \in Nat /\ numbered \in Nat
        /\ AttachmentTypes
    BY DEF AttachmentsInv, AttachmentTypes
  <1>2. \A ref \in refs : \E row \in rows : Ref(row) = ref
    BY HeldIdsAreOld
  <1>3. Cardinality(refs) \in Nat /\ copies \in Copies(refs, ids)
    <2>1. Cardinality(refs) \in Nat /\ Copies(refs, ids) # {}
      <3> HIDE DEF refs
      <3> QED
        BY <1>1, <1>2, CopiesExist
    <2>2. \E f \in [refs -> ids] : \A a, b \in refs : a # b => f[a] # f[b]
      <3> HIDE DEF refs, ids
      <3> QED
        BY <2>1 DEF Copies
    <2>3. copies \in [refs -> ids] /\ \A a, b \in refs : a # b => copies[a] # copies[b]
      <3> HIDE DEF refs, ids
      <3> QED
        BY <2>2
    <2> HIDE DEF refs, ids, copies
    <2> QED
      BY <2>1, <2>3 DEF Copies
  <1>4. /\ owned \subseteq RowSet
        /\ \A row \in owned :
              /\ row.digest \in objects /\ nextRow <= row.id /\ row.id < more
              /\ row.owner = c /\ row.scope = Draft
        /\ \A a, b \in owned : a.id = b.id => a = b
    <2>1. /\ c \in Browser \union Conversation
          /\ Draft \in Conversation \union {Draft, ForkScope}
      OBVIOUS
    <2>2. AreCopies(owned, copies, refs, c, Draft)
      BY Zenon DEF AreCopies
    <2>3. GoodRows(rows, objects, nextRow) /\ nextRow \in Nat
      BY <1>1
    <2>4. PICK scope \in Conversation \union {Draft, ForkScope} : scope = Draft
      BY <2>1
    <2>5. AreCopies(owned, copies, refs, c, scope)
      BY <2>2, <2>4, Zenon
    <2> HIDE DEF refs, copies, owned
    <2>6. /\ owned \subseteq RowSet
          /\ \A row \in owned :
                /\ row.digest \in objects /\ nextRow <= row.id
                /\ row.id < nextRow + Cardinality(refs)
                /\ row.owner = c /\ row.scope = scope
          /\ \A a, b \in owned : a.id = b.id => a = b
      BY <1>2, <1>3, <2>1, <2>3, <2>5, CopiedRows
    <2> QED
      BY <2>4, <2>6
  <1>5. /\ UNCHANGED <<queue, removed, forks, alive>>
        /\ claim' = {} /\ nextRow' = more /\ numbered' = numbered + 1
        /\ exists' = exists \union {c} /\ c \notin exists /\ messages[c] = {}
        /\ messages' = [messages EXCEPT ![c] = {held}]
        /\ rows' = (rows \union owned) \ Released(draft)
        /\ objects' = objects \ Unreferenced(Digests(Released(draft)), rows')
    BY DEF CreateFork
  <1>6. held \in HolderSet /\ held.refs = {Ref(row) : row \in owned}
    <2>1. \A row \in RowSet : Ref(row) \in RefSet
      BY DEF RowSet, RefSet, Ref
    <2> HIDE DEF owned
    <2> QED
      BY <1>1, <1>4, <2>1 DEF HolderSet
  <1>7. more \in Nat /\ nextRow <= more
    BY <1>1, <1>3
  <1> HIDE DEF refs, ids, copies, owned, held, more
  <1>8. \A row \in owned : ~IsStaged(row)
    BY <1>4, AttachmentsAssumed DEF IsStaged
  <1>9. owned \subseteq rows' /\ rows \ Released(draft) \subseteq rows'
        /\ rows' \subseteq rows \union owned
    BY <1>5, <1>8 DEF Released
  <1>10. GoodRows(rows', objects', nextRow')
    <2>1. nextRow \in Int /\ more \in Int
      BY <1>1, <1>7
    <2>2. GoodRows(rows \union owned, objects, more)
      BY <1>1, <1>4, <1>7, <2>1, MoreRows
    <2>3. GoodRows(rows', objects, more)
      BY <1>9, <2>2, FewerRows
    <2>4. GoodRows(rows', objects', more)
      BY <1>5, <2>3, NamedObjectsStay
    <2> QED
      BY <1>5, <2>4
  <1>11. Keeps(rows, rows')
    <2> SUFFICES ASSUME NEW row \in rows, row.owner \in Conversation
                 PROVE  row \in rows'
      BY DEF Keeps, Owned
    <2>1. row \notin Released(draft)
      BY AttachmentsAssumed DEF Released, IsStaged
    <2> QED
      BY <1>9, <2>1
  <1>12. Follows(rows, rows', nextRow)
    <2>1. \A row \in owned : row.id >= nextRow
      <3>1. \A row \in owned : row.id \in Nat
        BY <1>4 DEF RowSet
      <3> QED
        BY <1>1, <1>4, <3>1
    <2> QED
      BY <1>9, <2>1 DEF Follows
  <1>13. /\ messages' \in [Conversation -> SUBSET HolderSet]
         /\ messages'[c] = {held}
         /\ \A d \in Conversation : d # c => messages'[d] = messages[d]
    BY <1>1, <1>5, <1>6 DEF AttachmentTypes, HolderSet
  <1>14. AttachmentTypes'
    BY <1>1, <1>5, <1>7, <1>13 DEF AttachmentTypes, HolderSet
  <1>15. Joins(held, c, messages, queue, messages', queue')
    BY <1>5, <1>13 DEF Joins
  <1>16. HoldersOwn(rows', messages', queue')
    <2>1. \A ref \in held.refs : Owned(rows', ref, c)
      BY <1>4, <1>6, <1>9 DEF Owned
    <2>2. HoldersOwn(rows', messages, queue)
      BY <1>11, HoldersKeep DEF AttachmentsInv
    <2> QED
      BY <1>15, <2>1, <2>2, HolderJoins
  <1>17. queue[c] = {}
    BY <1>5 DEF AttachmentsInv, GoneIsEmpty
  <1>18. ItemsApart(messages', queue')
    BY <1>5, <1>13, <1>17 DEF ItemsApart, AttachmentsInv
  <1>19. RemovedRows(rows', nextRow', removed')
    <2>1. RemovedRows(rows, nextRow, removed) /\ nextRow \in Int /\ more \in Int
      BY <1>1, <1>7 DEF AttachmentsInv
    <2>2. RemovedRows(rows', more, removed)
      BY <1>7, <1>12, <2>1, RemovedKeep
    <2> QED
      BY <1>5, <2>2
  <1>20. RemovedApart(removed', messages', queue')
    <2>1. removed \subseteq RemovedSet /\ RemovedApart(removed, messages, queue)
      BY DEF AttachmentsInv, RemovedRows
    <2>2. ASSUME NEW item \in removed
          PROVE  item.refs \intersect held.refs = {}
      <3> SUFFICES ASSUME NEW row \in owned, Ref(row) \in item.refs
                   PROVE  FALSE
        BY <1>6
      <3>1. Ref(row).id < nextRow /\ Ref(row).id \in Nat
        BY RemovedIdsAreOld
      <3>2. Ref(row).id = row.id /\ nextRow <= row.id
        BY <1>4, RefFields
      <3> QED
        BY <1>1, <3>1, <3>2
    <2>3. RemovedApart(removed, messages', queue')
      BY <1>15, <2>1, <2>2, HolderIsApart
    <2> QED
      BY <1>5, <2>3
  <1>21. DraftsHold(rows', forks' \union claim')
    <2>1. KeepsForked(rows, rows', forks)
      <3> SUFFICES ASSUME NEW d \in forks, NEW row \in rows, Ref(row) \in d.refs
                   PROVE  row \in rows'
        BY DEF KeepsForked, Drafted
      <3>1. d.refs \intersect draft.refs = {}
        BY DEF AttachmentsInv, DraftsApart
      <3>2. row \notin Released(draft)
        BY <3>1 DEF Released
      <3> QED
        BY <1>9, <3>2
    <2>2. DraftsHold(rows, forks)
      BY DEF AttachmentsInv, DraftsHold
    <2>3. DraftsHold(rows', forks)
      BY <2>1, <2>2, DraftsKeep
    <2> QED
      BY <1>5, <2>3 DEF DraftsHold
  <1>22. DraftsApart(forks', claim')
    BY <1>5 DEF DraftsApart, AttachmentsInv
  <1>23. GoneIsEmpty(exists', messages', queue')
    BY <1>5, <1>13 DEF GoneIsEmpty, AttachmentsInv
  <1> QED
    BY <1>10, <1>14, <1>16, <1>18, <1>19, <1>20, <1>21, <1>22, <1>23 DEF AttachmentsInv

LEMMA CreateForkFailsStep ==
    ASSUME AttachmentsInv, NEW draft \in claim, CreateForkFails(draft)
    PROVE  AttachmentsInv'
  <1>1. /\ UNCHANGED <<exists, messages, queue, numbered>>
        /\ UNCHANGED <<removed, alive, nextRow>> /\ claim' = {}
    BY DEF CreateForkFails
  <1>2. \/ forks' = forks \union {draft} /\ rows' = rows /\ objects' = objects
        \/ forks' = forks /\ DeleteRows(Released(draft), FALSE)
    BY DEF CreateForkFails
  <1>3. /\ GoodRows(rows, objects, nextRow) /\ nextRow \in Nat
        /\ DraftsApart(forks, claim) /\ DraftsHold(rows, forks \union claim)
    BY DEF AttachmentsInv, AttachmentTypes
  <1>4. DraftsApart(forks', claim')
    BY <1>1, <1>2, <1>3 DEF DraftsApart
  <1>5. removed' \subseteq removed /\ alive' \subseteq Browser
    BY <1>1 DEF AttachmentsInv, AttachmentTypes
  <1>6. CASE forks' = forks \union {draft} /\ rows' = rows /\ objects' = objects
    <2>1. Keeps(rows, rows') /\ Follows(rows, rows', nextRow)
      BY <1>6 DEF Keeps, Owned, Follows
    <2>2. DraftsHold(rows', forks' \union claim')
      BY <1>1, <1>3, <1>6 DEF DraftsHold
    <2> QED
      BY <1>1, <1>3, <1>4, <1>5, <1>6, <2>1, <2>2, StagedStep
  <1>7. CASE forks' = forks /\ DeleteRows(Released(draft), FALSE)
    <2>1. rows' = rows \ Released(draft) /\ GoodRows(rows', objects', nextRow')
      <3>1. Released(draft) \subseteq rows
        BY DEF Released
      <3> QED
        BY <1>1, <1>7, <3>1, DeletedRows
    <2>2. Keeps(rows, rows') /\ Follows(rows, rows', nextRow)
      BY <2>1, SparedKeep DEF Released
    <2>3. DraftsHold(rows', forks' \union claim')
      <3>1. KeepsForked(rows, rows', forks)
        <4> SUFFICES ASSUME NEW d \in forks, NEW row \in rows, Ref(row) \in d.refs
                     PROVE  row \in rows'
          BY DEF KeepsForked, Drafted
        <4>1. d.refs \intersect draft.refs = {}
          BY <1>3 DEF DraftsApart
        <4> QED
          BY <2>1, <4>1 DEF Released
      <3>2. DraftsHold(rows, forks)
        BY <1>3 DEF DraftsHold
      <3>3. DraftsHold(rows', forks)
        BY <3>1, <3>2, DraftsKeep
      <3> QED
        BY <1>1, <1>7, <3>3
    <2> QED
      BY <1>1, <1>3, <1>4, <1>5, <2>1, <2>2, <2>3, StagedStep
  <1> QED
    BY <1>2, <1>6, <1>7

LEMMA RestartStep ==
    ASSUME AttachmentsInv, Restart
    PROVE  AttachmentsInv'
  <1> DEFINE gone == {row \in rows : IsStaged(row)}
  <1>1. /\ UNCHANGED <<exists, messages, queue, numbered>> /\ nextRow' = nextRow
        /\ removed' = {} /\ forks' = {} /\ claim' = {} /\ alive' = Browser
        /\ DeleteRows(gone, TRUE)
    BY DEF Restart
  <1>2. rows' = rows \ gone /\ GoodRows(rows', objects', nextRow')
    <2>1. gone \subseteq rows
      OBVIOUS
    <2> HIDE DEF gone
    <2> QED
      BY <1>1, <2>1, DeletedRows
  <1>3. Keeps(rows, rows') /\ Follows(rows, rows', nextRow)
    BY <1>2, SparedKeep
  <1>4. DraftsHold(rows', forks' \union claim') /\ DraftsApart(forks', claim')
    BY <1>1 DEF DraftsHold, DraftsApart
  <1>5. nextRow \in Nat
    BY DEF AttachmentsInv, AttachmentTypes
  <1> QED
    BY <1>1, <1>2, <1>3, <1>4, <1>5, StagedStep

LEMMA OtherSteps ==
    ASSUME AttachmentsInv,
           \/ \E s \in Browser : SessionEnds(s)
           \/ \E item \in removed : DeleteOwnedFails(item)
           \/ UNCHANGED attachmentVars
    PROVE  AttachmentsInv'
  <1>1. /\ UNCHANGED <<rows, objects, exists, messages, queue, forks, claim, nextRow, numbered>>
        /\ removed' \subseteq removed /\ alive' \subseteq alive
    BY DEF SessionEnds, DeleteOwnedFails, attachmentVars
  <1>2. AttachmentTypes'
    BY <1>1 DEF AttachmentsInv, AttachmentTypes
  <1>3. RemovedRows(rows', nextRow', removed') /\ RemovedApart(removed', messages', queue')
    BY <1>1 DEF AttachmentsInv, RemovedRows, RemovedApart
  <1> QED
    BY <1>1, <1>2, <1>3 DEF AttachmentsInv

-----------------------------------------------------------------------------
(* The files of messages, of the queue and of drafts, whatever is sent,    *)
(* revised, queued, removed, deleted, forked or lost.                      *)
LEMMA AttachmentsStep ==
    ASSUME AttachmentsInv, [AttachmentsNext]_attachmentVars
    PROVE  AttachmentsInv'
  <1>1. exists \subseteq Conversation
    BY DEF AttachmentsInv, AttachmentTypes
  <1>2. CASE \E row \in rows : Age(row)
    BY <1>2, AgeStep
  <1>3. CASE \E s \in Browser : \E scope \in exists \union {Draft}, d \in Digest :
                 Upload(s, scope, d)
    BY <1>3, UploadStep
  <1>4. CASE \E s \in Browser : \E row \in rows : Release(s, row)
    BY <1>4, ReleaseStep
  <1>5. CASE \E s \in Browser, c \in exists : \E picked \in SUBSET StagedFor(s, c) :
                 Enqueue(s, c, picked)
    BY <1>5, EnqueueStep
  <1>6. CASE \E s \in Browser, c \in exists : \E picked \in SUBSET StagedFor(s, c) :
                 \E source \in messages[c] : Revise(s, c, source, picked)
    BY <1>6, ReviseStep
  <1>7. CASE \E s \in Browser, c \in exists : \E message \in messages[c] :
                 Fork(s, c, message)
    BY <1>7, ForkStep
  <1>8. CASE \E s \in Browser, c \in exists : \E item \in queue[c] : ReturnItem(s, c, item)
    BY <1>8, ReturnStep
  <1>9. CASE \E c \in exists : DeleteConversation(c)
    BY <1>9, DeleteStep
  <1>10. CASE \E c \in exists : \E item \in queue[c] : Deliver(c, item)
    BY <1>10, DeliverStep
  <1>11. CASE \E c \in exists : \E item \in queue[c] : RemoveItem(c, item)
    BY <1>11, RemoveStep
  <1>12. CASE \E item \in removed : \E ref \in item.refs : DeleteOwned(item, ref)
    BY <1>12, DeleteOwnedStep
  <1>13. CASE \E c \in Conversation, s \in Browser :
                  \E picked \in SUBSET StagedFor(s, Composer(c)) : SendMessage(s, c, picked)
    BY <1>13, SendStep
  <1>14. CASE \E c \in Conversation : \E draft \in claim : CreateFork(c, draft)
    BY <1>14, CreateForkStep
  <1>15. CASE \E draft \in claim : CreateForkFails(draft)
    BY <1>15, CreateForkFailsStep
  <1>16. CASE \E draft \in forks : ClaimDraft(draft)
    BY <1>16, ClaimDraftStep
  <1>17. CASE Restart
    BY <1>17, RestartStep
  <1>18. CASE \/ \E s \in Browser : SessionEnds(s)
              \/ \E item \in removed : DeleteOwnedFails(item)
              \/ UNCHANGED attachmentVars
    BY <1>18, OtherSteps
  <1> QED
    BY <1>2, <1>3, <1>4, <1>5, <1>6, <1>7, <1>8, <1>9, <1>10, <1>11, <1>12, <1>13,
       <1>14, <1>15, <1>16, <1>17, <1>18 DEF AttachmentsNext

LEMMA AttachmentsStart ==
    ASSUME AttachmentsInit
    PROVE  AttachmentsInv
  <1>1. AttachmentTypes
    BY DEF AttachmentsInit, AttachmentTypes
  <1> QED
    BY <1>1 DEF AttachmentsInit, AttachmentsInv, GoodRows, HoldersOwn, ItemsApart, RemovedRows,
       RemovedApart, DraftsHold, DraftsApart, GoneIsEmpty

LEMMA InvResolves ==
    ASSUME AttachmentsInv
    PROVE  FilesResolve
  <1>1. GoodRows(rows, objects, nextRow) /\ exists \subseteq Conversation
    BY DEF AttachmentsInv, AttachmentTypes
  <1>2. ASSUME NEW ref, NEW p, Owned(rows, ref, p)
        PROVE  Resolves(ref, p)
    <2>1. PICK row \in rows : Ref(row) = ref /\ row.owner = p
      BY <1>2 DEF Owned
    <2>2. ref.digest = row.digest /\ row.digest \in objects
      BY <1>1, <2>1, RefFields DEF GoodRows
    <2> QED
      BY <2>1, <2>2 DEF Resolves
  <1>3. \A c \in exists : \A holder \in messages[c] \union queue[c] :
            \A ref \in holder.refs : Resolves(ref, c)
    BY <1>1, <1>2 DEF AttachmentsInv, HoldersOwn
  <1>4. \A draft \in forks \union claim : \A ref \in draft.refs :
            Resolves(ref, draft.session)
    <2> SUFFICES ASSUME NEW draft \in forks \union claim, NEW ref \in draft.refs
                 PROVE  Owned(rows, ref, draft.session)
      BY <1>2
    <2> QED
      BY DEF AttachmentsInv, DraftsHold, Drafted, Owned
  <1>5. \A c \in exists : \A item \in queue[c] :
            \A other \in (messages[c] \union queue[c]) \ {item} :
                item.refs \intersect other.refs = {}
    BY <1>1 DEF AttachmentsInv, ItemsApart
  <1> QED
    BY <1>3, <1>4, <1>5 DEF FilesResolve

(* The inductive invariant of the attachments (AttachmentsInv, above).     *)
THEOREM AttachmentsInvHolds == AttachmentsSpec => []AttachmentsInv
  BY AttachmentsStart, AttachmentsStep, PTL DEF AttachmentsSpec

(* Every file that a message, a queue item or a fork draft names can be    *)
(* read (FilesResolve): conversations/attachments.rs, store/sqlite.rs.     *)
THEOREM FilesAlwaysResolve == AttachmentsSpec => []FilesResolve
  BY AttachmentsInvHolds, InvResolves, PTL
================================================================================
