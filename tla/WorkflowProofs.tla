--------------------------- MODULE WorkflowProofs ---------------------------
(***************************************************************************)
(* A workflow run keeps to its plan, and what is open is attended, for     *)
(* every valid definition and any number of faults and crashes.            *)
(*                                                                         *)
(* The invariant has four parts.  Every record that memory or the file     *)
(* may hold is coherent (RecordIsCoherent): its state names its last fact. *)
(* The file is at most one step of the plan ahead of memory (FileIsNear),  *)
(* so that a crash, which makes memory what the file is, is a step of the  *)
(* plan too.  The worker, the job and the continuation stand where the     *)
(* state of the run wants them (WorkerKnows to StartKnows).  And an open   *)
(* attempt finds its inputs (RecordResolves): what comes after it in the   *)
(* record is nobody's input yet.                                           *)
(*                                                                         *)
(* That the file can be loaded needs an invariant of the record alone      *)
(* (RecordLoads): every fact is one that loads, the state is what the last *)
(* fact leads to, a reservation stands on the gate it names, and what may  *)
(* still be run fits two budgets: the facts that are closed, or what they  *)
(* produced, and the steps not done yet weigh at most the plan and what    *)
(* the returns so far repeat of it.  Sums over finite sets are a function  *)
(* on sets (Total).                                                        *)
(***************************************************************************)
EXTENDS WorkflowExecutor, TLAPS, SequenceTheorems, FiniteSetTheorems,
        WellFoundedInduction

RunFields == {"state", "facts", "reservation"}
AttemptFields ==
    {"fact", "step", "inputs", "outputs", "verdict", "route", "state",
     "cleanup", "continuation"}
GateFields == {"fact", "step", "candidate", "state"}
OpenPhase == {"Ready", "Active", "Paused", "AwaitingHuman"}

IsSequence(s) == s \in Seq({s[i] : i \in DOMAIN s})

(* A step has attempts or gates, never both, and what is not completed has *)
(* no route yet.                                                           *)
FactIsCoherent(d, f) ==
    /\ f.step \in Steps(d)
    /\ \/ /\ f.fact = "attempt" /\ DOMAIN f = AttemptFields
          /\ ~IsGate(d, f.step)
          /\ f.state \in AttemptOpen => f.route = "None"
       \/ /\ f.fact = "gate" /\ DOMAIN f = GateFields
          /\ IsGate(d, f.step)
          /\ f.candidate.kind = "Plan"

(* The state names the last fact, as long as that one is open.             *)
StateIsCoherent(d, run) ==
    LET n == Len(run.facts)
        last == run.facts[n]
    IN /\ run.state.phase \in OpenPhase \union TerminalPhase
       /\ run.state.phase \in OpenPhase => run.state.step \in Steps(d)
       /\ Busy(run) =>
             /\ n > 0
             /\ run.state.at = n
             /\ last.step = run.state.step
       /\ run.state.phase \in AttemptOpen =>
             last.fact = "attempt" /\ last.state = run.state.phase
       /\ run.state.phase = "AwaitingHuman" =>
             last.fact = "gate" /\ last.state = "AwaitingDecision"

RecordIsCoherent(d, run) ==
    /\ DOMAIN run = RunFields
    /\ IsSequence(run.facts)
    /\ \A i \in DOMAIN run.facts : FactIsCoherent(d, run.facts[i])
    /\ StateIsCoherent(d, run)

(* The steps of WorkflowProgress from one record to another.               *)
Returns(run, s) == Cardinality(SentBack(run, s))

Stays(d, run, next) ==
    /\ Place(d, next) = Place(d, run)
    /\ \A s \in Steps(d) : Returns(next, s) = Returns(run, s)

Moves(d, run, next) ==
    \/ Stays(d, run, next) /\ Busy(next) = Busy(run)
    \/ /\ Place(d, run) \in Steps(d)
       /\ \/ Stays(d, run, next) /\ ~Busy(run) /\ Busy(next)
          \/ /\ Busy(run) /\ ~Busy(next)
             /\ Place(d, next) = Place(d, run) + 1
             /\ \A s \in Steps(d) : Returns(next, s) = Returns(run, s)
          \/ LET p == Place(d, run) IN
             /\ Busy(run) /\ ~Busy(next)
             /\ Returns(run, p) + 1 < Plan(d)[p].limit
             /\ Place(d, next) = Plan(d)[p].target
             /\ \A s \in Steps(d) :
                    Returns(next, s) = Returns(run, s) + (IF s = p THEN 1 ELSE 0)
          \/ /\ ~Busy(next) /\ Place(d, next) = 0
             /\ \A s \in Steps(d) : Returns(next, s) = Returns(run, s)

(* Facts are added, and stay what they are.                                *)
FactsStand(run, next) ==
    \A i \in DOMAIN run.facts :
        i \in DOMAIN next.facts /\ next.facts[i].fact = run.facts[i].fact

Progresses(d, run, next) == Moves(d, run, next) /\ FactsStand(run, next)

FileIsNear == Progresses(definition, memory, disk)

-----------------------------------------------------------------------------
JobFields == {"status", "cancel", "why"}
WorkerFields == {"pc", "attempt", "outcome"}

ControlTyped ==
    /\ definition \in Definitions
    /\ DOMAIN job = JobFields /\ job.cancel \in BOOLEAN
    /\ DOMAIN worker = WorkerFields /\ worker.pc \in Pc
    /\ parked \in BOOLEAN
    /\ session \in {"live", "gone"}

(* Where the worker stands, it knows the state of the run.                 *)
WorkerKnows ==
    LET phase == memory.state.phase IN
    /\ worker.pc # "idle" => Up /\ job.status = "Running" /\ ~parked
    /\ worker.pc = "loop" => phase \notin {"AwaitingHuman", "Paused"}
    /\ worker.pc \in {"step", "clean", "finish"} =>
          phase = "Active" /\ memory.state.at = worker.attempt
    /\ worker.pc = "opened" => phase = "AwaitingHuman"
    /\ worker.pc = "paused" => phase = "Paused"
    /\ worker.pc = "resume" =>
          phase = "Active" /\ memory.facts[memory.state.at].cleanup = "Pending"

(* A continuation is parked for an open gate, whose task waits.            *)
GateIsParked ==
    parked => /\ Up /\ memory.state.phase = "AwaitingHuman"
              /\ job.status = "AwaitingDecision" /\ worker.pc = "idle"

(* A purge asked the job of its session to stop.                           *)
PurgedJobIsTold ==
    session = "gone" /\ job.status \in JobActive => job.cancel

(* Before the server serves nothing runs, and nothing is left active.      *)
StartKnows ==
    /\ ~Up => job = NoJob /\ ~parked /\ worker.pc = "idle"
    /\ server = "starting" =>
          /\ memory.state.phase # "Active"
          /\ memory.state.phase = "AwaitingHuman" => RecoverableGate(memory)

RecordsAreCoherent ==
    /\ RecordIsCoherent(definition, memory)
    /\ RecordIsCoherent(definition, disk)
    /\ FileIsNear

WorkflowInv ==
    /\ ControlTyped
    /\ RecordsAreCoherent
    /\ WorkerKnows
    /\ GateIsParked
    /\ PurgedJobIsTold
    /\ StartKnows

(* What a step of the program leaves: the invariant, a step of the plan or *)
(* none, and a job that tells the truth if it ended.                       *)
JobEnds ==
    job.status \in JobActive /\ job'.status \in JobEnded /\ job'.why = ""
        => EndMatches(job'.status, memory')

Kept == WorkflowInv' /\ Progresses(definition, memory, memory') /\ JobEnds

-----------------------------------------------------------------------------
LEMMA SequenceOfOwn ==
    ASSUME NEW S, NEW s \in Seq(S)
    PROVE  IsSequence(s)
<1>1. PICK T : T = {s[i] : i \in DOMAIN s}
  OBVIOUS
<1>2. Len(s) \in Nat /\ DOMAIN s = 1 .. Len(s) /\ s \in [1 .. Len(s) -> S]
  BY LenProperties
<1>3. s = [i \in 1 .. Len(s) |-> s[i]] /\ \A i \in 1 .. Len(s) : s[i] \in T
  BY <1>1, <1>2
<1>4. s \in [1 .. Len(s) -> T]
  BY <1>3
<1>5. s \in Seq(T)
  BY <1>2, <1>4, SeqDef
<1> QED
  BY <1>1, <1>5 DEF IsSequence

(* Facts of a record are appended, or one of them is replaced.             *)
LEMMA SequenceLength ==
    ASSUME NEW s, IsSequence(s)
    PROVE  Len(s) \in Nat /\ DOMAIN s = 1 .. Len(s)
  BY LenProperties DEF IsSequence

LEMMA AppendedFact ==
    ASSUME NEW s, IsSequence(s), NEW f
    PROVE  /\ IsSequence(Append(s, f))
           /\ Len(Append(s, f)) = Len(s) + 1
           /\ DOMAIN Append(s, f) = 1 .. Len(s) + 1
           /\ \A i \in 1 .. Len(s) : Append(s, f)[i] = s[i]
           /\ Append(s, f)[Len(s) + 1] = f
<1> DEFINE t == Append(s, f)
<1>1. PICK S : S = {s[i] : i \in DOMAIN s} \union {f}
  OBVIOUS
<1>2. s \in Seq({s[i] : i \in DOMAIN s}) /\ {s[i] : i \in DOMAIN s} \subseteq S
  BY <1>1 DEF IsSequence
<1>3. s \in Seq(S)
  BY <1>2, SeqMonotonic
<1>4. f \in S
  BY <1>1
<1>5. /\ t \in Seq(S) /\ Len(t) = Len(s) + 1
      /\ \A i \in 1 .. Len(s) : t[i] = s[i]
      /\ t[Len(s) + 1] = f
  BY <1>3, <1>4, AppendProperties
<1>6. DOMAIN t = 1 .. Len(t)
  BY <1>5, LenProperties
<1>7. IsSequence(t)
  BY <1>5, SequenceOfOwn
<1> QED
  BY <1>5, <1>6, <1>7

LEMMA ReplacedFact ==
    ASSUME NEW s, IsSequence(s), NEW a \in DOMAIN s, NEW f,
           NEW t, t = [s EXCEPT ![a] = f]
    PROVE  /\ IsSequence(t)
           /\ Len(t) = Len(s)
           /\ DOMAIN t = DOMAIN s
           /\ \A i \in DOMAIN s : t[i] = IF i = a THEN f ELSE s[i]
<1>1. PICK S : S = {s[i] : i \in DOMAIN s} \union {f}
  OBVIOUS
<1>2. s \in Seq({s[i] : i \in DOMAIN s}) /\ {s[i] : i \in DOMAIN s} \subseteq S
  BY <1>1 DEF IsSequence
<1>3. s \in Seq(S)
  BY <1>2, SeqMonotonic
<1>4. f \in S /\ a \in 1 .. Len(s)
  BY <1>1, SequenceLength
<1>5. t \in Seq(S) /\ Len(t) = Len(s)
  BY <1>3, <1>4, ExceptSeq
<1>6. IsSequence(t)
  BY <1>5, SequenceOfOwn
<1>7. /\ DOMAIN t = DOMAIN s
      /\ \A i \in DOMAIN s : t[i] = IF i = a THEN f ELSE s[i]
  OBVIOUS
<1> QED
  BY <1>5, <1>6, <1>7

-----------------------------------------------------------------------------
(* What validation says of a definition.                                   *)
LEMMA DefinitionIsValid ==
    ASSUME NEW d \in Definitions
    PROVE  /\ Len(d) \in Nat /\ Len(d) > 0
           /\ Steps(d) = 1 .. Len(d)
           /\ \A s \in Steps(d) :
                 /\ d[s].review # NoPolicy =>
                       /\ IsAgent(d, s)
                       /\ d[s].review.target \in 1 .. s - 1
                       /\ d[s].review.limit \in Nat
                 /\ d[s].revision # NoPolicy =>
                       /\ d[s].revision.target \in 1 .. s - 1
                       /\ d[s].revision.limit \in Nat
<1>1. d \in Seq(StepType) /\ Valid(d)
  BY DefinitionsAreValid
<1>2. Len(d) \in Nat /\ DOMAIN d = 1 .. Len(d) /\ d \in [1 .. Len(d) -> StepType]
  BY <1>1, LenProperties
<1>3. Len(d) > 0 /\ ReviewPolicies(d) /\ HumanRevisions(d)
  BY <1>1 DEF Valid
<1>4. \A s \in Steps(d) : d[s].review \in PolicyType /\ d[s].revision \in PolicyType
  BY <1>2 DEF Steps, StepType
<1>5. ASSUME NEW s \in Steps(d), d[s].review # NoPolicy
      PROVE  /\ IsAgent(d, s)
             /\ d[s].review.target \in 1 .. s - 1
             /\ d[s].review.limit \in Nat
  BY <1>3, <1>4, <1>5 DEF ReviewPolicies, PolicyType
<1>6. ASSUME NEW s \in Steps(d), d[s].revision # NoPolicy
      PROVE  /\ d[s].revision.target \in 1 .. s - 1
             /\ d[s].revision.limit \in Nat
  BY <1>3, <1>4, <1>6 DEF HumanRevisions, PolicyType
<1> QED
  BY <1>2, <1>3, <1>5, <1>6 DEF Steps

LEMMA ReturnsAreFinite ==
    ASSUME NEW run, IsSequence(run.facts), NEW s
    PROVE  IsFiniteSet(SentBack(run, s)) /\ Returns(run, s) \in Nat
<1>1. Len(run.facts) \in Nat /\ DOMAIN run.facts = 1 .. Len(run.facts)
  BY SequenceLength
<1>2. IsFiniteSet(1 .. Len(run.facts))
  BY <1>1, FS_Interval
<1>3. SentBack(run, s) \subseteq 1 .. Len(run.facts)
  BY <1>1 DEF SentBack
<1>4. IsFiniteSet(SentBack(run, s))
  BY <1>2, <1>3, FS_Subset
<1> QED
  BY <1>4, FS_CardinalityType DEF Returns

(* An escalation at the attempt limit is a state of its own.               *)
LEMMA NotEscalated ==
    ASSUME NEW x, x.phase # "EscalatedAttemptLimit", NEW s
    PROVE  x # Escalated(s, "EscalatedAttemptLimit")
  BY DEF Escalated, At

(* The state names an open fact: the last one.                             *)
LEMMA OpenFactIsLast ==
    ASSUME NEW d, NEW run, RecordIsCoherent(d, run), Busy(run)
    PROVE  /\ Len(run.facts) \in DOMAIN run.facts /\ Len(run.facts) \in Nat
           /\ run.state.at = Len(run.facts)
           /\ DOMAIN run.facts = 1 .. Len(run.facts)
           /\ run.facts[Len(run.facts)].step = run.state.step
           /\ run.state.step \in Steps(d)
           /\ Place(d, run) = run.state.step
           /\ FactIsCoherent(d, run.facts[Len(run.facts)])
           /\ run.state.phase # "AwaitingHuman" =>
                 /\ run.facts[Len(run.facts)].fact = "attempt"
                 /\ run.facts[Len(run.facts)].state = run.state.phase
                 /\ run.facts[Len(run.facts)].route = "None"
                 /\ DOMAIN run.facts[Len(run.facts)] = AttemptFields
                 /\ ~IsGate(d, run.state.step)
           /\ run.state.phase = "AwaitingHuman" =>
                 /\ run.facts[Len(run.facts)].fact = "gate"
                 /\ run.facts[Len(run.facts)].state = "AwaitingDecision"
                 /\ DOMAIN run.facts[Len(run.facts)] = GateFields
                 /\ IsGate(d, run.state.step)
<1> DEFINE n == Len(run.facts)
<1>1. n \in Nat /\ DOMAIN run.facts = 1 .. n
  BY SequenceLength DEF RecordIsCoherent
<1>2. /\ n > 0 /\ run.state.at = n
      /\ run.facts[n].step = run.state.step
      /\ run.state.step \in Steps(d)
      /\ run.state.phase \in AttemptOpen =>
             run.facts[n].fact = "attempt" /\ run.facts[n].state = run.state.phase
      /\ run.state.phase = "AwaitingHuman" =>
             run.facts[n].fact = "gate" /\ run.facts[n].state = "AwaitingDecision"
  BY DEF RecordIsCoherent, StateIsCoherent, Busy, OpenPhase
<1>3. n \in DOMAIN run.facts
  BY <1>1, <1>2
<1>4. FactIsCoherent(d, run.facts[n])
  BY <1>3 DEF RecordIsCoherent
<1>5. run.state.phase \in {"Active", "Paused", "AwaitingHuman"}
  BY DEF Busy
<1>6. Place(d, run) = run.state.step
  BY <1>5 DEF Place, IsTerminal, TerminalPhase
<1>7. CASE run.state.phase # "AwaitingHuman"
  <2>1. run.state.phase \in AttemptOpen
    BY <1>5, <1>7 DEF AttemptOpen
  <2> QED
    BY <1>1, <1>2, <1>3, <1>4, <1>6, <1>7, <2>1 DEF FactIsCoherent
<1>8. CASE run.state.phase = "AwaitingHuman"
  BY <1>1, <1>2, <1>3, <1>4, <1>6, <1>8 DEF FactIsCoherent
<1> QED
  BY <1>7, <1>8

-----------------------------------------------------------------------------
LEMMA ProgressIsReflexive ==
    ASSUME NEW d, NEW run
    PROVE  Progresses(d, run, run)
  BY DEF Progresses, Moves, Stays, FactsStand

(* What the transitions share: one opens a fact, another one changes the   *)
(* last fact, a third one only moves a run that nothing is open in.        *)
LEMMA ReadyStands ==
    ASSUME NEW d, NEW run, RecordIsCoherent(d, run), IsReady(run)
    PROVE  /\ run.state.step \in Steps(d)
           /\ Place(d, run) = run.state.step
           /\ ~Busy(run)
  BY DEF RecordIsCoherent, StateIsCoherent, IsReady, OpenPhase, Place, Busy,
         IsTerminal, TerminalPhase

LEMMA FactOpens ==
    ASSUME NEW d \in Definitions, NEW run, RecordIsCoherent(d, run), IsReady(run),
           NEW f, FactIsCoherent(d, f), f.step = run.state.step,
           NEW phase,
           \/ phase = "Active" /\ f.fact = "attempt" /\ f.state = "Active"
           \/ phase = "AwaitingHuman" /\ f.fact = "gate" /\ f.state = "AwaitingDecision",
           NEW next, DOMAIN next = RunFields,
           next.facts = Append(run.facts, f),
           next.state = At(phase, run.state.step, Len(run.facts) + 1)
    PROVE  RecordIsCoherent(d, next) /\ Progresses(d, run, next)
<1> DEFINE n == Len(run.facts)
<1>1. /\ IsSequence(next.facts) /\ Len(next.facts) = n + 1
      /\ DOMAIN next.facts = 1 .. n + 1
      /\ \A i \in 1 .. n : next.facts[i] = run.facts[i]
      /\ next.facts[n + 1] = f
  <2>1. IsSequence(run.facts) /\ next.facts = Append(run.facts, f)
    BY DEF RecordIsCoherent
  <2> QED
    BY <2>1, AppendedFact
<1>2. n \in Nat /\ DOMAIN run.facts = 1 .. n
  BY SequenceLength DEF RecordIsCoherent
<1>3. /\ next.state.phase = phase /\ next.state.step = run.state.step
      /\ next.state.at = n + 1
  BY DEF At
<1>4. run.state.step \in Steps(d) /\ Place(d, run) = run.state.step /\ ~Busy(run)
  BY ReadyStands
<1> HIDE DEF n
<1>5. \A i \in DOMAIN next.facts : FactIsCoherent(d, next.facts[i])
  <2> SUFFICES ASSUME NEW i \in DOMAIN next.facts
               PROVE  FactIsCoherent(d, next.facts[i])
    OBVIOUS
  <2>1. CASE i = n + 1
    BY <1>1, <2>1
  <2>2. CASE i # n + 1
    <3>1. i \in 1 .. n
      BY <1>1, <1>2, <2>2
    <3> QED
      BY <1>1, <1>2, <3>1 DEF RecordIsCoherent
  <2> QED
    BY <2>1, <2>2
<1>6. n + 1 > 0 /\ next.facts[Len(next.facts)] = f
  BY <1>1, <1>2
<1>7. StateIsCoherent(d, next)
  BY <1>1, <1>3, <1>4, <1>6 DEF StateIsCoherent, OpenPhase, AttemptOpen
<1>8. RecordIsCoherent(d, next)
  BY <1>1, <1>5, <1>7 DEF RecordIsCoherent
<1>9. Busy(next) /\ Place(d, next) = run.state.step
  BY <1>3 DEF Busy, Place, IsTerminal, TerminalPhase
<1>10. ASSUME NEW s \in Steps(d)
       PROVE  Returns(next, s) = Returns(run, s)
  <2>1. \A t : run.state # Escalated(t, "EscalatedAttemptLimit")
    BY NotEscalated DEF IsReady
  <2>2. \A t : next.state # Escalated(t, "EscalatedAttemptLimit")
    BY <1>3, NotEscalated
  <2>3. /\ f.fact = "attempt" => f.route = "None"
        /\ f.fact = "gate" => f.state # "RevisionRequested"
    BY DEF FactIsCoherent, AttemptOpen
  <2>4. n + 1 \notin SentBack(next, s)
    BY <1>1, <2>3 DEF SentBack
  <2>5. \A i \in 1 .. n : i \in SentBack(next, s) <=> i \in SentBack(run, s)
    BY <1>1, <1>2, <2>1, <2>2 DEF SentBack
  <2>6. SentBack(next, s) \subseteq 1 .. n + 1 /\ SentBack(run, s) \subseteq 1 .. n
    BY <1>1, <1>2 DEF SentBack
  <2>7. SentBack(next, s) = SentBack(run, s)
    <3>1. \A i : i \in 1 .. n + 1 /\ i # n + 1 => i \in 1 .. n
      BY <1>2
    <3>2. \A i : i \in 1 .. n => i # n + 1
      BY <1>2
    <3>3. \A i : i \in SentBack(next, s) <=> i \in SentBack(run, s)
      BY <2>4, <2>5, <2>6, <3>1, <3>2
    <3> QED
      BY <3>3
  <2> QED
    BY <2>7 DEF Returns
<1>11. FactsStand(run, next)
  BY <1>1, <1>2 DEF FactsStand
<1> QED
  BY <1>4, <1>8, <1>9, <1>10, <1>11 DEF Progresses, Moves, Stays

(* Whether a fact counts as a return of its step.                          *)
Counts(f, state) ==
    IF f.fact = "attempt" THEN f.route = "RevisionRequested"
    ELSE /\ f.state = "RevisionRequested"
         /\ state # Escalated(f.step, "EscalatedAttemptLimit")

LEMMA LastFactChanges ==
    ASSUME NEW d \in Definitions, NEW run, RecordIsCoherent(d, run), Busy(run),
           NEW n, n = Len(run.facts),
           NEW f, FactIsCoherent(d, f),
           f.fact = run.facts[n].fact, f.step = run.facts[n].step,
           NEW next, next.facts = [run.facts EXCEPT ![n] = f]
    PROVE  /\ IsSequence(next.facts) /\ Len(next.facts) = n
           /\ next.facts[n] = f
           /\ \A i \in DOMAIN next.facts : FactIsCoherent(d, next.facts[i])
           /\ FactsStand(run, next)
           /\ \A s : Returns(next, s) =
                  Returns(run, s)
                  + (IF s = run.state.step /\ Counts(f, next.state) THEN 1 ELSE 0)
<1>1. /\ n \in DOMAIN run.facts /\ n \in Nat
      /\ DOMAIN run.facts = 1 .. n
      /\ run.facts[n].step = run.state.step
      /\ run.facts[n].fact = "attempt" => run.facts[n].route = "None"
      /\ run.facts[n].fact # "attempt" => run.facts[n].state = "AwaitingDecision"
  BY OpenFactIsLast
<1>2. /\ IsSequence(next.facts) /\ Len(next.facts) = n
      /\ DOMAIN next.facts = 1 .. n
      /\ \A i \in 1 .. n : next.facts[i] = IF i = n THEN f ELSE run.facts[i]
  BY <1>1, ReplacedFact DEF RecordIsCoherent
<1>3. \A i \in DOMAIN next.facts : FactIsCoherent(d, next.facts[i])
  BY <1>1, <1>2 DEF RecordIsCoherent
<1>5. FactsStand(run, next)
  BY <1>1, <1>2 DEF FactsStand
<1>4. ASSUME NEW s
      PROVE  Returns(next, s) =
                  Returns(run, s)
                  + (IF s = run.state.step /\ Counts(f, next.state) THEN 1 ELSE 0)
  <2>1. n \notin SentBack(run, s)
    BY <1>1 DEF SentBack
  <2>2. \A i \in 1 .. n : i # n => (i \in SentBack(next, s) <=> i \in SentBack(run, s))
    <3> SUFFICES ASSUME NEW i \in 1 .. n, i # n
                 PROVE  i \in SentBack(next, s) <=> i \in SentBack(run, s)
      OBVIOUS
    <3>1. next.facts[i] = run.facts[i] /\ i # Len(next.facts) /\ i # Len(run.facts)
      BY <1>2
    <3>2. i \in DOMAIN next.facts /\ i \in DOMAIN run.facts
      BY <1>1, <1>2
    <3> QED
      BY <3>1, <3>2 DEF SentBack
  <2>3. n \in SentBack(next, s) <=> s = run.state.step /\ Counts(f, next.state)
    <3>1. n \in DOMAIN next.facts /\ next.facts[n] = f /\ n = Len(next.facts)
          /\ f.step = run.state.step
      BY <1>1, <1>2
    <3> QED
      BY <3>1 DEF SentBack, Counts
  <2>4. SentBack(next, s) \subseteq 1 .. n /\ SentBack(run, s) \subseteq 1 .. n
    BY <1>1, <1>2 DEF SentBack
  <2>5. IsFiniteSet(SentBack(run, s)) /\ Returns(run, s) \in Nat
    BY ReturnsAreFinite DEF RecordIsCoherent
  <2>6. CASE s = run.state.step /\ Counts(f, next.state)
    <3>1. SentBack(next, s) = SentBack(run, s) \union {n}
      BY <1>1, <2>1, <2>2, <2>3, <2>4, <2>6
    <3>2. Cardinality(SentBack(run, s) \union {n}) = Cardinality(SentBack(run, s)) + 1
      BY <2>1, <2>5, FS_AddElement
    <3> QED
      BY <2>6, <3>1, <3>2 DEF Returns
  <2>7. CASE ~(s = run.state.step /\ Counts(f, next.state))
    <3>1. \A i : i \in SentBack(next, s) <=> i \in SentBack(run, s)
      BY <2>1, <2>2, <2>3, <2>4, <2>7
    <3>2. SentBack(next, s) = SentBack(run, s)
      BY <3>1
    <3> QED
      BY <2>5, <2>7, <3>2 DEF Returns
  <2> QED
    BY <2>6, <2>7
<1> QED
  BY <1>1, <1>2, <1>3, <1>4, <1>5

Stopping == TerminalPhase \ {"Completed"}
Advances(d, s, state) == state = AdvancedState(d, s)

LEMMA FactCloses ==
    ASSUME NEW d \in Definitions, NEW run, RecordIsCoherent(d, run), Busy(run),
           NEW n, n = Len(run.facts),
           NEW f, FactIsCoherent(d, f),
           f.fact = run.facts[n].fact, f.step = run.facts[n].step,
           NEW next, DOMAIN next = RunFields,
           next.facts = [run.facts EXCEPT ![n] = f],
           NEW s, s = run.state.step,
           \/ ~Counts(f, next.state) /\ next.state.phase \in Stopping
           \/ ~Counts(f, next.state) /\ Advances(d, s, next.state)
           \/ /\ Counts(f, next.state)
              /\ next.state = Ready(Plan(d)[s].target)
              /\ Plan(d)[s].target \in 1 .. s - 1
              /\ Returns(run, s) + 1 < Plan(d)[s].limit
    PROVE  RecordIsCoherent(d, next) /\ Progresses(d, run, next)
<1>1. /\ IsSequence(next.facts) /\ Len(next.facts) = n
      /\ \A i \in DOMAIN next.facts : FactIsCoherent(d, next.facts[i])
      /\ FactsStand(run, next)
      /\ \A t : Returns(next, t) =
             Returns(run, t)
             + (IF t = run.state.step /\ Counts(f, next.state) THEN 1 ELSE 0)
  BY LastFactChanges
<1>2. /\ s \in Steps(d) /\ Place(d, run) = s
      /\ Steps(d) = 1 .. Len(d) /\ Len(d) \in Nat
  BY OpenFactIsLast, DefinitionIsValid
<1>3. \A t : Returns(run, t) \in Nat
  BY ReturnsAreFinite DEF RecordIsCoherent
<1>4. SUFFICES /\ ~Busy(next) /\ StateIsCoherent(d, next)
               /\ Moves(d, run, next)
  BY <1>1 DEF RecordIsCoherent, Progresses
<1>5. CASE ~Counts(f, next.state) /\ next.state.phase \in Stopping
  <2>1. ~Busy(next) /\ StateIsCoherent(d, next) /\ Place(d, next) = 0
    BY <1>5 DEF Stopping, TerminalPhase, OpenPhase, AttemptOpen, Busy, Place,
                StateIsCoherent, IsTerminal
  <2>2. \A t \in Steps(d) : Returns(next, t) = Returns(run, t)
    BY <1>1, <1>3, <1>5
  <2> QED
    BY <1>2, <2>1, <2>2 DEF Moves
<1>6. CASE ~Counts(f, next.state) /\ Advances(d, s, next.state)
  <2>1. \A t \in Steps(d) : Returns(next, t) = Returns(run, t)
    BY <1>1, <1>3, <1>6
  <2>2. CASE s < Len(d)
    <3>1. next.state.phase = "Ready" /\ next.state.step = s + 1
      BY <1>6, <2>2 DEF Advances, AdvancedState, Ready, At
    <3>2. s + 1 \in Steps(d)
      BY <1>2, <2>2
    <3>3. ~Busy(next) /\ StateIsCoherent(d, next) /\ Place(d, next) = s + 1
      BY <3>1, <3>2 DEF TerminalPhase, OpenPhase, AttemptOpen, Busy, Place,
                        StateIsCoherent, IsTerminal
    <3> QED
      BY <1>2, <2>1, <3>3 DEF Moves
  <2>3. CASE ~(s < Len(d))
    <3>1. next.state.phase = "Completed" /\ s = Len(d)
      BY <1>2, <1>6, <2>3 DEF Advances, AdvancedState, Ended, At
    <3>2. ~Busy(next) /\ StateIsCoherent(d, next) /\ Place(d, next) = s + 1
      BY <3>1 DEF TerminalPhase, OpenPhase, AttemptOpen, Busy, Place,
                  StateIsCoherent, IsTerminal
    <3> QED
      BY <1>2, <2>1, <3>2 DEF Moves
  <2> QED
    BY <2>2, <2>3
<1>7. CASE /\ Counts(f, next.state)
           /\ next.state = Ready(Plan(d)[s].target)
           /\ Plan(d)[s].target \in 1 .. s - 1
           /\ Returns(run, s) + 1 < Plan(d)[s].limit
  <2>1. \A t \in Steps(d) :
            Returns(next, t) = Returns(run, t) + (IF t = s THEN 1 ELSE 0)
    BY <1>1, <1>7
  <2>2. PICK target : target = Plan(d)[s].target
    OBVIOUS
  <2>3. next.state.phase = "Ready" /\ next.state.step = target
    BY <1>7, <2>2 DEF Ready, At
  <2>4. target \in Steps(d)
    BY <1>2, <1>7, <2>2
  <2>5. ~Busy(next) /\ StateIsCoherent(d, next) /\ Place(d, next) = target
    BY <2>3, <2>4 DEF TerminalPhase, OpenPhase, AttemptOpen, Busy, Place,
                      StateIsCoherent, IsTerminal
  <2> QED
    BY <1>2, <1>7, <2>1, <2>2, <2>5 DEF Moves
<1> QED
  BY <1>5, <1>6, <1>7

LEMMA FactStaysOpen ==
    ASSUME NEW d \in Definitions, NEW run, RecordIsCoherent(d, run), Busy(run),
           NEW n, n = Len(run.facts),
           NEW f, FactIsCoherent(d, f),
           f.fact = run.facts[n].fact, f.step = run.facts[n].step,
           run.state.phase \in AttemptOpen,
           f.state \in AttemptOpen,
           NEW next, DOMAIN next = RunFields,
           next.facts = [run.facts EXCEPT ![n] = f],
           next.state.phase = f.state, next.state.step = run.state.step,
           next.state.at = n
    PROVE  RecordIsCoherent(d, next) /\ Progresses(d, run, next)
<1>1. f.fact = "attempt"
  BY OpenFactIsLast DEF AttemptOpen
<1>2. ~Counts(f, next.state)
  BY <1>1 DEF Counts, FactIsCoherent
<1>3. /\ IsSequence(next.facts) /\ Len(next.facts) = n
      /\ \A i \in DOMAIN next.facts : FactIsCoherent(d, next.facts[i])
      /\ FactsStand(run, next)
      /\ \A t : Returns(next, t) =
             Returns(run, t)
             + (IF t = run.state.step /\ Counts(f, next.state) THEN 1 ELSE 0)
  BY LastFactChanges
<1>4. /\ n > 0 /\ next.facts[n] = f /\ run.state.step \in Steps(d)
      /\ f.step = run.state.step /\ Place(d, run) = run.state.step
  <2>1. n \in Nat /\ n \in 1 .. n /\ n \in DOMAIN run.facts
    BY OpenFactIsLast
  <2> QED
    BY <2>1, OpenFactIsLast
<1>5. \A t : Returns(run, t) \in Nat
  BY ReturnsAreFinite DEF RecordIsCoherent
<1>6. \A t \in Steps(d) : Returns(next, t) = Returns(run, t)
  BY <1>2, <1>3, <1>5
<1>8. /\ Busy(next) /\ StateIsCoherent(d, next)
      /\ Place(d, next) = run.state.step
  BY <1>1, <1>3, <1>4 DEF TerminalPhase, OpenPhase, AttemptOpen, Busy, Place,
                         StateIsCoherent, IsTerminal
<1>9. RecordIsCoherent(d, next)
  BY <1>3, <1>8 DEF RecordIsCoherent
<1> QED
  BY <1>3, <1>4, <1>6, <1>8, <1>9 DEF Progresses, Moves, Stays

LEMMA ReadyRunEnds ==
    ASSUME NEW d \in Definitions, NEW run, RecordIsCoherent(d, run), IsReady(run),
           NEW next, DOMAIN next = RunFields, next.facts = run.facts,
           next.state.phase \in {"Failed", "Cancelled", "Interrupted"}
    PROVE  RecordIsCoherent(d, next) /\ Progresses(d, run, next)
<1>1. Place(d, run) \in Steps(d) /\ ~Busy(run)
  BY ReadyStands
<1>2. /\ ~Busy(next) /\ StateIsCoherent(d, next) /\ Place(d, next) = 0
  BY DEF TerminalPhase, OpenPhase, AttemptOpen, Busy, Place, StateIsCoherent,
         IsTerminal
<1>3. RecordIsCoherent(d, next)
  BY <1>2 DEF RecordIsCoherent
<1>4. \A t : /\ run.state # Escalated(t, "EscalatedAttemptLimit")
             /\ next.state # Escalated(t, "EscalatedAttemptLimit")
  BY NotEscalated DEF IsReady
<1>5. \A t : SentBack(next, t) = SentBack(run, t)
  BY <1>4 DEF SentBack
<1>6. \A t : Returns(next, t) = Returns(run, t)
  BY <1>5 DEF Returns
<1> QED
  BY <1>1, <1>2, <1>3, <1>6 DEF Progresses, Moves, FactsStand

-----------------------------------------------------------------------------
(* The transitions, one by one.                                            *)
LEMMA GateOpens ==
    ASSUME NEW d \in Definitions, NEW run, RecordIsCoherent(d, run),
           NEW plan, NEW onTime, NEW next \in OpenPlanGate(d, run, plan, onTime)
    PROVE  /\ RecordIsCoherent(d, next) /\ Progresses(d, run, next)
           /\ IsReady(run) /\ next.state.phase = "AwaitingHuman"
<1> DEFINE s == run.state.step
           f == Gate(s, plan)
<1>1. /\ IsReady(run) /\ IsGate(d, s) /\ plan.kind = "Plan"
      /\ next = [run EXCEPT !.facts = Append(@, f),
                            !.state = At("AwaitingHuman", s, Len(run.facts) + 1)]
  BY DEF OpenPlanGate, When
<1>2. DOMAIN run = RunFields
  BY DEF RecordIsCoherent
<1>3. s \in Steps(d)
  BY <1>1, ReadyStands
<1>4. /\ f.fact = "gate" /\ f.step = s /\ f.state = "AwaitingDecision"
      /\ DOMAIN f = GateFields /\ f.candidate = plan
  BY DEF Gate, GateFields
<1> HIDE DEF f, s
<1>5. /\ DOMAIN next = RunFields
      /\ next.facts = Append(run.facts, f)
      /\ next.state = At("AwaitingHuman", s, Len(run.facts) + 1)
  BY <1>1, <1>2 DEF RunFields
<1>6. FactIsCoherent(d, f)
  BY <1>1, <1>3, <1>4 DEF FactIsCoherent
<1>7. RecordIsCoherent(d, next) /\ Progresses(d, run, next)
  BY <1>1, <1>4, <1>5, <1>6, FactOpens DEF s
<1> QED
  BY <1>1, <1>5, <1>7 DEF At

LEMMA AttemptStarts ==
    ASSUME NEW d \in Definitions, NEW run, RecordIsCoherent(d, run),
           ~IsGate(d, run.state.step),
           NEW inputs, NEW onTime, NEW next \in StartAttempt(d, run, inputs, onTime)
    PROVE  /\ RecordIsCoherent(d, next) /\ Progresses(d, run, next)
           /\ IsReady(run) /\ next.state.phase = "Active"
           /\ next.state.at = Len(next.facts)
<1> DEFINE s == run.state.step
           a == Len(run.facts) + 1
           f == Attempt(s, inputs)
           r == IF IsReserved(run) THEN [run.reservation EXCEPT !.attempt = a]
                ELSE run.reservation
<1>1. /\ IsReady(run)
      /\ next = [run EXCEPT !.facts = Append(@, f), !.state = At("Active", s, a),
                            !.reservation = r]
  BY DEF StartAttempt, When
<1>2. DOMAIN run = RunFields
  BY DEF RecordIsCoherent
<1>3. s \in Steps(d)
  BY <1>1, ReadyStands
<1>4. /\ f.fact = "attempt" /\ f.step = s /\ f.state = "Active"
      /\ f.route = "None" /\ DOMAIN f = AttemptFields
  BY DEF Attempt, AttemptFields
<1> HIDE DEF f, s, r
<1>5. /\ DOMAIN next = RunFields
      /\ next.facts = Append(run.facts, f)
      /\ next.state = At("Active", s, a)
  BY <1>1, <1>2 DEF RunFields
<1>6. FactIsCoherent(d, f)
  BY <1>3, <1>4 DEF FactIsCoherent, s
<1>7. RecordIsCoherent(d, next) /\ Progresses(d, run, next)
  BY <1>1, <1>4, <1>5, <1>6, FactOpens DEF s
<1>8. next.state.phase = "Active" /\ next.state.at = a
  BY <1>5 DEF At
<1>9. next.state.at = Len(next.facts)
  BY <1>7, <1>8 DEF RecordIsCoherent, StateIsCoherent, Busy
<1> QED
  BY <1>1, <1>7, <1>8, <1>9

(* What closing a gate does to the record.                                 *)
LEMMA CloseGateIsRecord ==
    ASSUME NEW run, DOMAIN run = RunFields, NEW g, NEW state, NEW to
    PROVE  LET next == CloseGate(run, g, state, to) IN
           /\ DOMAIN next = RunFields
           /\ next.facts = [run.facts EXCEPT ![g].state = state]
           /\ next.state = to
  BY DEF CloseGate, RunFields

LEMMA GateCloses ==
    ASSUME NEW d \in Definitions, NEW run, RecordIsCoherent(d, run),
           NEW g, Awaits(run, g), NEW state
    PROVE  LET f == [run.facts[g] EXCEPT !.state = state] IN
           /\ Busy(run) /\ g = Len(run.facts) /\ run.state.phase = "AwaitingHuman"
           /\ IsGate(d, run.state.step)
           /\ FactIsCoherent(d, f)
           /\ f.fact = run.facts[g].fact /\ f.step = run.facts[g].step
           /\ f.fact = "gate" /\ f.state = state /\ f.step = run.state.step
<1> DEFINE f == [run.facts[g] EXCEPT !.state = state]
<1>1. Busy(run) /\ run.state.phase = "AwaitingHuman" /\ run.state.at = g
  BY DEF Awaits, Busy
<1>2. g = Len(run.facts)
  BY <1>1, OpenFactIsLast
<1>3. /\ g \in DOMAIN run.facts
      /\ run.facts[g].fact = "gate" /\ DOMAIN run.facts[g] = GateFields
      /\ run.facts[g].step = run.state.step /\ run.state.step \in Steps(d)
      /\ IsGate(d, run.state.step)
      /\ run.facts[g].candidate.kind = "Plan"
  BY <1>1, <1>2, OpenFactIsLast DEF FactIsCoherent
<1>4. /\ DOMAIN f = GateFields /\ f.state = state
      /\ f.candidate = run.facts[g].candidate
      /\ f.step = run.facts[g].step /\ f.fact = run.facts[g].fact
  BY <1>3 DEF GateFields
<1> HIDE DEF f
<1>5. FactIsCoherent(d, f)
  BY <1>3, <1>4 DEF FactIsCoherent
<1> QED
  BY <1>1, <1>2, <1>3, <1>4, <1>5 DEF f

LEMMA GateEnds ==
    ASSUME NEW d \in Definitions, NEW run, RecordIsCoherent(d, run),
           NEW g, Awaits(run, g),
           NEW state \in {"Approved", "Cancelled", "Interrupted"},
           NEW next, DOMAIN next = RunFields,
           next.facts = [run.facts EXCEPT ![g].state = state],
           \/ next.state.phase \in {"Cancelled", "Interrupted"}
           \/ Advances(d, run.state.step, next.state)
    PROVE  RecordIsCoherent(d, next) /\ Progresses(d, run, next)
<1>1. PICK f : f = [run.facts[g] EXCEPT !.state = state]
  OBVIOUS
<1>2. /\ Busy(run) /\ g = Len(run.facts) /\ FactIsCoherent(d, f)
      /\ f.fact = run.facts[g].fact /\ f.step = run.facts[g].step
      /\ f.fact = "gate" /\ f.state = state
  BY <1>1, GateCloses
<1>3. next.facts = [run.facts EXCEPT ![g] = f]
  BY <1>1
<1>4. ~Counts(f, next.state)
  BY <1>2 DEF Counts
<1>5. \/ next.state.phase \in Stopping
      \/ Advances(d, run.state.step, next.state)
  BY DEF Stopping, TerminalPhase
<1>6. CASE next.state.phase \in Stopping
  BY <1>2, <1>3, <1>4, <1>6, FactCloses
<1>7. CASE Advances(d, run.state.step, next.state)
  BY <1>2, <1>3, <1>4, <1>7, FactCloses
<1> QED
  BY <1>5, <1>6, <1>7

LEMMA PlanIsAccepted ==
    ASSUME NEW d \in Definitions, NEW run, RecordIsCoherent(d, run),
           NEW g, NEW onTime, NEW next \in AcceptPlan(d, run, g, onTime)
    PROVE  /\ RecordIsCoherent(d, next) /\ Progresses(d, run, next)
           /\ next.state.phase \in {"Ready", "Completed"}
<1>1. /\ Awaits(run, g)
      /\ next = CloseGate(run, g, "Approved", AdvancedState(d, run.state.step))
  BY DEF AcceptPlan, When
<1>2. DOMAIN run = RunFields
  BY DEF RecordIsCoherent
<1>3. /\ DOMAIN next = RunFields
      /\ next.facts = [run.facts EXCEPT ![g].state = "Approved"]
      /\ next.state = AdvancedState(d, run.state.step)
  BY <1>1, <1>2, CloseGateIsRecord
<1>4. Advances(d, run.state.step, next.state)
  BY <1>3 DEF Advances
<1>5. RecordIsCoherent(d, next) /\ Progresses(d, run, next)
  BY <1>1, <1>3, <1>4, GateEnds
<1>6. next.state.phase \in {"Ready", "Completed"}
  BY <1>3 DEF AdvancedState, Ready, Ended, At
<1> QED
  BY <1>5, <1>6

LEMMA GateIsCancelled ==
    ASSUME NEW d \in Definitions, NEW run, RecordIsCoherent(d, run),
           NEW g, NEW onTime, NEW next \in CancelGate(run, g, onTime)
    PROVE  /\ RecordIsCoherent(d, next) /\ Progresses(d, run, next)
           /\ next.state.phase = "Cancelled"
<1>1. Awaits(run, g) /\ next = CloseGate(run, g, "Cancelled", Ended("Cancelled"))
  BY DEF CancelGate, When
<1>2. DOMAIN run = RunFields
  BY DEF RecordIsCoherent
<1>3. /\ DOMAIN next = RunFields
      /\ next.facts = [run.facts EXCEPT ![g].state = "Cancelled"]
      /\ next.state.phase = "Cancelled"
  BY <1>1, <1>2, CloseGateIsRecord DEF Ended, At
<1> QED
  BY <1>1, <1>3, GateEnds

(* All that a gate ever sent back is counted against its limit.            *)
LEMMA RevisionsAreReturns ==
    ASSUME NEW d, NEW run, RecordIsCoherent(d, run),
           NEW s, IsGate(d, s), run.state.phase = "AwaitingHuman"
    PROVE  HumanRevisionCount(run, s) = Returns(run, s)
<1>1. run.state # Escalated(s, "EscalatedAttemptLimit")
  BY NotEscalated
<1>2. \A i \in DOMAIN run.facts : run.facts[i].step = s => run.facts[i].fact = "gate"
  BY DEF RecordIsCoherent, FactIsCoherent
<1>3. SentBack(run, s) =
          {g \in Gates(run) : /\ run.facts[g].step = s
                              /\ run.facts[g].state = "RevisionRequested"}
  BY <1>1, <1>2 DEF SentBack, Gates
<1> QED
  BY <1>3 DEF HumanRevisionCount, Returns

LEMMA PlanIsRevised ==
    ASSUME NEW d \in Definitions, NEW run, RecordIsCoherent(d, run),
           NEW g, NEW onTime, NEW next \in RevisePlan(d, run, g, onTime)
    PROVE  /\ RecordIsCoherent(d, next) /\ Progresses(d, run, next)
           /\ next.state.phase \in {"Ready", "EscalatedAttemptLimit"}
<1> DEFINE s == run.state.step
           policy == d[s].revision
<1>1. Awaits(run, g) /\ policy # NoPolicy
  BY DEF RevisePlan
<1>2. DOMAIN run = RunFields
  BY DEF RecordIsCoherent
<1>3. PICK f : f = [run.facts[g] EXCEPT !.state = "RevisionRequested"]
  OBVIOUS
<1>4. /\ Busy(run) /\ g = Len(run.facts) /\ FactIsCoherent(d, f)
      /\ run.state.phase = "AwaitingHuman" /\ IsGate(d, s)
      /\ f.fact = run.facts[g].fact /\ f.step = run.facts[g].step
      /\ f.fact = "gate" /\ f.state = "RevisionRequested" /\ f.step = s
  BY <1>1, <1>3, GateCloses
<1>5. s \in Steps(d)
  BY <1>4, OpenFactIsLast
<1>6. /\ policy.target \in 1 .. s - 1 /\ policy.limit \in Nat
      /\ d[s].review = NoPolicy
  <2>1. ~IsAgent(d, s)
    BY <1>4 DEF IsAgent, IsGate
  <2> QED
    BY <1>1, <1>5, <2>1, DefinitionIsValid
<1>7. Plan(d)[s] = policy
  BY <1>5, <1>6 DEF Plan
<1>8. HumanRevisionCount(run, s) = Returns(run, s) /\ Returns(run, s) \in Nat
  BY <1>4, RevisionsAreReturns, ReturnsAreFinite DEF RecordIsCoherent
<1>9. CASE HumanRevisionCount(run, s) >= policy.limit - 1
  <2>1. next = CloseGate(run, g, "RevisionRequested",
                         Escalated(s, "EscalatedAttemptLimit"))
    BY <1>1, <1>9 DEF RevisePlan
  <2>2. /\ DOMAIN next = RunFields
        /\ next.facts = [run.facts EXCEPT ![g].state = "RevisionRequested"]
        /\ next.state = Escalated(s, "EscalatedAttemptLimit")
    BY <1>2, <2>1, CloseGateIsRecord
  <2>3. next.facts = [run.facts EXCEPT ![g] = f]
    BY <1>3, <2>2
  <2>4. ~Counts(f, next.state)
    BY <1>4, <2>2 DEF Counts
  <2>5. next.state.phase = "EscalatedAttemptLimit"
    BY <2>2 DEF Escalated, At
  <2>6. next.state.phase \in Stopping
    BY <2>5 DEF Stopping, TerminalPhase
  <2> QED
    BY <1>4, <2>2, <2>3, <2>4, <2>5, <2>6, FactCloses
<1>10. CASE ~(HumanRevisionCount(run, s) >= policy.limit - 1)
  <2>1. PICK closed : closed = CloseGate(run, g, "RevisionRequested",
                                         Ready(policy.target))
    OBVIOUS
  <2>2. next = [closed EXCEPT !.reservation =
                   [gate |-> g, target |-> policy.target, attempt |-> 0]]
    BY <1>1, <1>10, <2>1 DEF RevisePlan
  <2>3. /\ DOMAIN closed = RunFields
        /\ closed.facts = [run.facts EXCEPT ![g].state = "RevisionRequested"]
        /\ closed.state = Ready(policy.target)
    BY <1>2, <2>1, CloseGateIsRecord
  <2>4. /\ DOMAIN next = RunFields /\ next.facts = closed.facts
        /\ next.state = closed.state
    BY <2>2, <2>3 DEF RunFields
  <2>5. next.facts = [run.facts EXCEPT ![g] = f]
    BY <1>3, <2>3, <2>4
  <2>6. next.state = Ready(policy.target) /\ next.state.phase = "Ready"
    BY <2>3, <2>4 DEF Ready, At
  <2>7. Counts(f, next.state)
    <3>1. next.state # Escalated(f.step, "EscalatedAttemptLimit")
      BY <2>6, NotEscalated
    <3> QED
      BY <1>4, <3>1 DEF Counts
  <2>8. Returns(run, s) + 1 < policy.limit
    BY <1>6, <1>8, <1>10
  <2>9. /\ next.state = Ready(Plan(d)[s].target)
        /\ Plan(d)[s].target \in 1 .. s - 1
        /\ Returns(run, s) + 1 < Plan(d)[s].limit
    BY <1>6, <1>7, <2>6, <2>8
  <2>10. RecordIsCoherent(d, next) /\ Progresses(d, run, next)
    BY <1>4, <2>4, <2>5, <2>7, <2>9, FactCloses
  <2> QED
    BY <2>6, <2>10
<1> QED
  BY <1>9, <1>10

-----------------------------------------------------------------------------
(* What ending an attempt does to the record.                              *)
LEMMA AttemptEnds ==
    ASSUME NEW d \in Definitions, NEW run, RecordIsCoherent(d, run),
           run.state.phase \in {"Active", "Paused"},
           NEW state \in {"Failed", "Cancelled", "Interrupted"},
           NEW next \in FinishAttempt(run, run.state.at, state, Ended(state))
    PROVE  /\ RecordIsCoherent(d, next) /\ Progresses(d, run, next)
           /\ next.state.phase = state
<1> DEFINE a == run.state.at
<1>1. /\ Busy(run) /\ run.state.phase # "AwaitingHuman"
  BY DEF Busy
<1>2. /\ a = Len(run.facts) /\ a \in DOMAIN run.facts
      /\ run.facts[a].fact = "attempt" /\ run.facts[a].route = "None"
      /\ DOMAIN run.facts[a] = AttemptFields
      /\ FactIsCoherent(d, run.facts[a])
  BY <1>1, OpenFactIsLast
<1> HIDE DEF a
<1>3. DOMAIN run = RunFields
  BY DEF RecordIsCoherent
<1>4. next = [run EXCEPT !.facts[a].state = state, !.state = Ended(state),
                         !.reservation = NoReservation]
  BY DEF FinishAttempt, a
<1>5. PICK f : f = [run.facts[a] EXCEPT !.state = state]
  OBVIOUS
<1>6. /\ DOMAIN next = RunFields
      /\ next.facts = [run.facts EXCEPT ![a] = f]
      /\ next.state = Ended(state)
  BY <1>3, <1>4, <1>5 DEF RunFields
<1>7. /\ DOMAIN f = AttemptFields /\ f.fact = "attempt" /\ f.route = "None"
      /\ f.step = run.facts[a].step /\ f.state = state
  BY <1>2, <1>5 DEF AttemptFields
<1>8. FactIsCoherent(d, f) /\ f.fact = run.facts[a].fact
  BY <1>2, <1>7 DEF FactIsCoherent
<1>9. ~Counts(f, next.state)
  BY <1>7 DEF Counts
<1>10. next.state.phase = state
  BY <1>6 DEF Ended, At
<1>11. next.state.phase \in Stopping
  BY <1>10 DEF Stopping, TerminalPhase
<1> QED
  BY <1>1, <1>2, <1>6, <1>7, <1>8, <1>9, <1>10, <1>11, FactCloses

(* A report is counted against its limit by the attempts at its step, and  *)
(* each earlier return of the step is such an attempt.                     *)
LEMMA OrdinalExceedsReturns ==
    ASSUME NEW d \in Definitions, NEW run, RecordIsCoherent(d, run),
           run.state.phase = "Active", NEW a, a = run.state.at
    PROVE  Ordinal(run, a) \in Nat /\ Returns(run, run.state.step) < Ordinal(run, a)
<1> DEFINE s == run.state.step
           S == {i \in Attempts(run) : i <= a /\ run.facts[i].step = run.facts[a].step}
           n == Len(run.facts)
<1>1. Busy(run) /\ run.state.phase # "AwaitingHuman"
  BY DEF Busy
<1>2. /\ a = n /\ n \in Nat /\ DOMAIN run.facts = 1 .. n
      /\ a \in DOMAIN run.facts
      /\ run.facts[a].step = s /\ run.facts[a].fact = "attempt"
      /\ run.facts[a].route = "None" /\ ~IsGate(d, s)
  BY <1>1, OpenFactIsLast
<1>3. \A i \in DOMAIN run.facts : run.facts[i].step = s => run.facts[i].fact = "attempt"
  BY <1>2 DEF RecordIsCoherent, FactIsCoherent
<1>4. a \notin SentBack(run, s) /\ SentBack(run, s) \union {a} \subseteq S
  BY <1>2, <1>3 DEF SentBack, Attempts
<1>5. IsFiniteSet(SentBack(run, s)) /\ Returns(run, s) \in Nat
  BY ReturnsAreFinite DEF RecordIsCoherent
<1>6. IsFiniteSet(S)
  <2>1. IsFiniteSet(1 .. n) /\ S \subseteq 1 .. n
    BY <1>2, FS_Interval DEF Attempts
  <2> QED
    BY <2>1, FS_Subset
<1>7. /\ Cardinality(SentBack(run, s) \union {a}) = Returns(run, s) + 1
      /\ Cardinality(S) \in Nat
  BY <1>4, <1>5, <1>6, FS_AddElement, FS_CardinalityType DEF Returns
<1>8. Cardinality(SentBack(run, s) \union {a}) <= Cardinality(S)
  BY <1>4, <1>6, FS_Subset
<1>9. Ordinal(run, a) = Cardinality(S)
  BY DEF Ordinal
<1> QED
  BY <1>5, <1>7, <1>8, <1>9

LEMMA AttemptCompletes ==
    ASSUME NEW d \in Definitions, NEW run, RecordIsCoherent(d, run),
           NEW a, NEW outputs, NEW verdict, NEW onTime,
           NEW next \in CompleteAttempt(d, run, a, outputs, verdict, onTime)
    PROVE  /\ RecordIsCoherent(d, next) /\ Progresses(d, run, next)
           /\ next.state.phase \in {"Ready", "Completed", "EscalatedBlocked",
                                    "EscalatedAttemptLimit"}
<1> DEFINE s == run.facts[a].step
           route == RouteOf(d, run, a, verdict)
<1>1. /\ run.state.phase = "Active" /\ run.state.at = a
      /\ next = [run EXCEPT
             !.facts[a].state = "Completed", !.facts[a].outputs = outputs,
             !.facts[a].verdict = verdict, !.facts[a].route = route,
             !.state = RoutedState(d, s, route),
             !.reservation = IF @.attempt = a THEN NoReservation ELSE @]
  BY DEF CompleteAttempt, When
<1>2. /\ Busy(run) /\ a = Len(run.facts) /\ a \in DOMAIN run.facts
      /\ run.facts[a].fact = "attempt" /\ DOMAIN run.facts[a] = AttemptFields
      /\ FactIsCoherent(d, run.facts[a]) /\ ~IsGate(d, s)
      /\ s = run.state.step /\ s \in Steps(d)
  <2>1. Busy(run) /\ run.state.phase # "AwaitingHuman"
    BY <1>1 DEF Busy
  <2> QED
    BY <1>1, <2>1, OpenFactIsLast
<1> HIDE DEF route
<1>3. PICK f : f = [run.facts[a] EXCEPT !.state = "Completed", !.outputs = outputs,
                                        !.verdict = verdict, !.route = route]
  OBVIOUS
<1>4. /\ DOMAIN f = AttemptFields /\ f.fact = "attempt" /\ f.route = route
      /\ f.step = s /\ f.state = "Completed"
  BY <1>2, <1>3 DEF AttemptFields
<1>5. FactIsCoherent(d, f) /\ f.fact = run.facts[a].fact
  BY <1>2, <1>4 DEF FactIsCoherent, AttemptOpen
<1>6. /\ DOMAIN next = RunFields
      /\ next.facts = [run.facts EXCEPT ![a] = f]
      /\ next.state = RoutedState(d, s, route)
  <2>1. DOMAIN run = RunFields
    BY DEF RecordIsCoherent
  <2> HIDE DEF s
  <2>2. DOMAIN next = RunFields /\ next.state = RoutedState(d, s, route)
    BY <1>1, <1>2, <2>1 DEF RunFields
  <2>3. next.facts = [run.facts EXCEPT ![a].state = "Completed", ![a].outputs = outputs,
                                       ![a].verdict = verdict, ![a].route = route]
    BY <1>1, <2>1 DEF RunFields
  <2>4. next.facts = [run.facts EXCEPT ![a] = f]
    BY <1>2, <1>3, <2>3
  <2> QED
    BY <2>2, <2>4
<1>7. Counts(f, next.state) <=> route = "RevisionRequested"
  BY <1>4 DEF Counts
<1>8. route \in {"None", "Approved", "RevisionRequested", "BlockedEscalation",
                 "AttemptLimitEscalation"}
  BY DEF route, RouteOf, ReviewRoute
<1>9. CASE route \in {"None", "Approved"}
  <2>1. next.state = AdvancedState(d, s)
    BY <1>6, <1>9 DEF RoutedState
  <2>2. Advances(d, s, next.state)
    BY <2>1 DEF Advances
  <2>3. ~Counts(f, next.state)
    BY <1>7, <1>9
  <2>4. RecordIsCoherent(d, next) /\ Progresses(d, run, next)
    BY <1>2, <1>4, <1>5, <1>6, <2>2, <2>3, FactCloses
  <2>5. next.state.phase \in {"Ready", "Completed"}
    BY <2>1 DEF AdvancedState, Ready, Ended, At
  <2> QED
    BY <2>4, <2>5
<1>10. CASE route \in {"BlockedEscalation", "AttemptLimitEscalation"}
  <2>1. next.state.phase \in {"EscalatedBlocked", "EscalatedAttemptLimit"}
    BY <1>6, <1>10 DEF RoutedState, Escalated, At
  <2>2. next.state.phase \in Stopping
    BY <2>1 DEF Stopping, TerminalPhase
  <2>3. ~Counts(f, next.state)
    BY <1>7, <1>10
  <2>4. RecordIsCoherent(d, next) /\ Progresses(d, run, next)
    BY <1>2, <1>4, <1>5, <1>6, <2>2, <2>3, FactCloses
  <2> QED
    BY <2>1, <2>4
<1>11. CASE route = "RevisionRequested"
  <2> DEFINE policy == d[s].review
  <2>1. policy # NoPolicy /\ Ordinal(run, a) < policy.limit
    BY <1>11 DEF route, RouteOf, ReviewRoute
  <2>2. policy.target \in 1 .. s - 1 /\ policy.limit \in Nat
    BY <1>2, <2>1, DefinitionIsValid
  <2>3. Plan(d)[s] = policy
    BY <1>2, <2>1 DEF Plan
  <2>4. Returns(run, s) + 1 < policy.limit
    <3>1. Ordinal(run, a) \in Nat /\ Returns(run, s) < Ordinal(run, a)
      BY <1>1, <1>2, OrdinalExceedsReturns
    <3>2. Returns(run, s) \in Nat
      BY ReturnsAreFinite DEF RecordIsCoherent
    <3> QED
      BY <2>1, <2>2, <3>1, <3>2
  <2>5. next.state = Ready(policy.target)
    BY <1>6, <1>11 DEF RoutedState
  <2>6. /\ next.state = Ready(Plan(d)[s].target)
        /\ Plan(d)[s].target \in 1 .. s - 1
        /\ Returns(run, s) + 1 < Plan(d)[s].limit
    BY <2>2, <2>3, <2>4, <2>5
  <2>7. Counts(f, next.state)
    BY <1>7, <1>11
  <2>8. RecordIsCoherent(d, next) /\ Progresses(d, run, next)
    BY <1>2, <1>4, <1>5, <1>6, <2>6, <2>7, FactCloses
  <2>9. next.state.phase = "Ready"
    BY <2>5 DEF Ready, At
  <2> QED
    BY <2>8, <2>9
<1> QED
  BY <1>8, <1>9, <1>10, <1>11

LEMMA AttemptPauses ==
    ASSUME NEW d \in Definitions, NEW run, RecordIsCoherent(d, run),
           NEW a, NEW onTime, NEW next \in PauseAttempt(d, run, a, onTime)
    PROVE  /\ RecordIsCoherent(d, next) /\ Progresses(d, run, next)
           /\ next.state.phase = "Paused"
<1> DEFINE s == run.facts[a].step
<1>1. /\ run.state.phase = "Active" /\ run.state.at = a
      /\ next = [run EXCEPT !.facts[a].state = "Paused", !.facts[a].continuation = TRUE,
                            !.state = At("Paused", s, a)]
  BY DEF PauseAttempt, When
<1>2. /\ Busy(run) /\ a = Len(run.facts) /\ a \in DOMAIN run.facts
      /\ run.facts[a].fact = "attempt" /\ DOMAIN run.facts[a] = AttemptFields
      /\ run.facts[a].route = "None"
      /\ FactIsCoherent(d, run.facts[a]) /\ s = run.state.step
  <2>1. Busy(run) /\ run.state.phase # "AwaitingHuman"
    BY <1>1 DEF Busy
  <2> QED
    BY <1>1, <2>1, OpenFactIsLast
<1>3. PICK f : f = [run.facts[a] EXCEPT !.state = "Paused", !.continuation = TRUE]
  OBVIOUS
<1>4. /\ DOMAIN f = AttemptFields /\ f.fact = "attempt" /\ f.route = "None"
      /\ f.step = s /\ f.state = "Paused"
  BY <1>2, <1>3 DEF AttemptFields
<1>5. FactIsCoherent(d, f) /\ f.fact = run.facts[a].fact
  BY <1>2, <1>4 DEF FactIsCoherent, AttemptOpen
<1>6. /\ DOMAIN next = RunFields
      /\ next.facts = [run.facts EXCEPT ![a] = f]
      /\ next.state = At("Paused", s, a)
  <2>1. DOMAIN run = RunFields
    BY DEF RecordIsCoherent
  <2> HIDE DEF s
  <2>2. DOMAIN next = RunFields /\ next.state = At("Paused", s, a)
    BY <1>1, <2>1 DEF RunFields
  <2>3. next.facts = [run.facts EXCEPT ![a].state = "Paused", ![a].continuation = TRUE]
    BY <1>1, <2>1 DEF RunFields
  <2>4. next.facts = [run.facts EXCEPT ![a] = f]
    BY <1>2, <1>3, <2>3
  <2> QED
    BY <2>2, <2>4
<1>7. /\ next.state.phase = f.state /\ next.state.step = run.state.step
      /\ next.state.at = a
  BY <1>2, <1>4, <1>6 DEF At
<1>8. f.state \in AttemptOpen /\ run.state.phase \in AttemptOpen
  BY <1>1, <1>4 DEF AttemptOpen
<1>9. RecordIsCoherent(d, next) /\ Progresses(d, run, next)
  BY <1>2, <1>4, <1>5, <1>6, <1>7, <1>8, FactStaysOpen
<1> QED
  BY <1>4, <1>7, <1>9

LEMMA AttemptResumes ==
    ASSUME NEW d \in Definitions, NEW run, RecordIsCoherent(d, run),
           NEW a, NEW onTime, NEW next \in ResumePaused(run, a, onTime)
    PROVE  /\ RecordIsCoherent(d, next) /\ Progresses(d, run, next)
           /\ next.state.phase = "Active" /\ next.state.at = a
           /\ next.facts[a].cleanup = "Pending"
<1> DEFINE s == run.state.step
<1>1. /\ run.state.phase = "Paused" /\ run.state.at = a
      /\ next = [run EXCEPT !.facts[a].state = "Active", !.facts[a].cleanup = "Pending",
                            !.state = At("Active", s, a)]
  BY DEF ResumePaused, When
<1>2. /\ Busy(run) /\ a = Len(run.facts) /\ a \in DOMAIN run.facts
      /\ run.facts[a].fact = "attempt" /\ DOMAIN run.facts[a] = AttemptFields
      /\ run.facts[a].route = "None"
      /\ FactIsCoherent(d, run.facts[a]) /\ run.facts[a].step = s
  <2>1. Busy(run) /\ run.state.phase # "AwaitingHuman"
    BY <1>1 DEF Busy
  <2> QED
    BY <1>1, <2>1, OpenFactIsLast
<1>3. PICK f : f = [run.facts[a] EXCEPT !.state = "Active", !.cleanup = "Pending"]
  OBVIOUS
<1>4. /\ DOMAIN f = AttemptFields /\ f.fact = "attempt" /\ f.route = "None"
      /\ f.step = run.facts[a].step /\ f.state = "Active" /\ f.cleanup = "Pending"
  BY <1>2, <1>3 DEF AttemptFields
<1>5. FactIsCoherent(d, f) /\ f.fact = run.facts[a].fact
  BY <1>2, <1>4 DEF FactIsCoherent, AttemptOpen
<1>6. /\ DOMAIN next = RunFields
      /\ next.facts = [run.facts EXCEPT ![a] = f]
      /\ next.state = At("Active", s, a)
  <2>1. DOMAIN run = RunFields
    BY DEF RecordIsCoherent
  <2> HIDE DEF s
  <2>2. DOMAIN next = RunFields /\ next.state = At("Active", s, a)
    BY <1>1, <2>1 DEF RunFields
  <2>3. next.facts = [run.facts EXCEPT ![a].state = "Active", ![a].cleanup = "Pending"]
    BY <1>1, <2>1 DEF RunFields
  <2>4. next.facts = [run.facts EXCEPT ![a] = f]
    BY <1>2, <1>3, <2>3
  <2> QED
    BY <2>2, <2>4
<1>7. /\ next.state.phase = f.state /\ next.state.step = run.state.step
      /\ next.state.at = a /\ next.facts[a] = f
  BY <1>2, <1>4, <1>6 DEF At
<1>8. f.state \in AttemptOpen /\ run.state.phase \in AttemptOpen
  BY <1>1, <1>4 DEF AttemptOpen
<1>9. RecordIsCoherent(d, next) /\ Progresses(d, run, next)
  BY <1>2, <1>4, <1>5, <1>6, <1>7, <1>8, FactStaysOpen
<1> QED
  BY <1>4, <1>7, <1>9

LEMMA CleanupIsRecorded ==
    ASSUME NEW d \in Definitions, NEW run, RecordIsCoherent(d, run),
           NEW a \in Attempts(run), NEW cleanup,
           NEW next \in RecordCleanup(run, a, cleanup)
    PROVE  /\ RecordIsCoherent(d, next) /\ Progresses(d, run, next)
           /\ next.state = run.state
<1>1. CASE next = run
  BY <1>1, ProgressIsReflexive
<1>2. CASE next # run
  <2>1. next = [run EXCEPT !.facts[a].cleanup = cleanup]
    BY <1>2 DEF RecordCleanup, When
  <2>2. PICK f : f = [run.facts[a] EXCEPT !.cleanup = cleanup]
    OBVIOUS
  <2>3. DOMAIN run = RunFields /\ IsSequence(run.facts)
    BY DEF RecordIsCoherent
  <2>4. /\ DOMAIN next = RunFields /\ next.state = run.state
        /\ next.facts = [run.facts EXCEPT ![a] = f]
    BY <2>1, <2>2, <2>3 DEF RunFields
  <2>5. /\ a \in DOMAIN run.facts /\ run.facts[a].fact = "attempt"
        /\ FactIsCoherent(d, run.facts[a])
    BY DEF Attempts, RecordIsCoherent
  <2>6. DOMAIN run.facts[a] = AttemptFields
    BY <2>5 DEF FactIsCoherent
  <2>7. /\ DOMAIN f = AttemptFields
        /\ f.fact = "attempt" /\ f.step = run.facts[a].step
        /\ f.state = run.facts[a].state /\ f.route = run.facts[a].route
    BY <2>2, <2>5, <2>6 DEF AttemptFields
  <2>8. FactIsCoherent(d, f)
    BY <2>5, <2>7 DEF FactIsCoherent
  <2>9. /\ IsSequence(next.facts) /\ Len(next.facts) = Len(run.facts)
        /\ DOMAIN next.facts = DOMAIN run.facts
        /\ \A i \in DOMAIN run.facts :
               next.facts[i] = IF i = a THEN f ELSE run.facts[i]
    BY <2>3, <2>4, <2>5, ReplacedFact
  <2>10. \A i \in DOMAIN run.facts :
             /\ next.facts[i].fact = run.facts[i].fact
             /\ next.facts[i].step = run.facts[i].step
             /\ next.facts[i].state = run.facts[i].state
             /\ run.facts[i].fact = "attempt" =>
                    next.facts[i].route = run.facts[i].route
    BY <2>5, <2>7, <2>9
  <2>11. \A i \in DOMAIN next.facts : FactIsCoherent(d, next.facts[i])
    BY <2>8, <2>9 DEF RecordIsCoherent
  <2>12. StateIsCoherent(d, next)
    <3>1. Len(run.facts) \in Nat /\ DOMAIN run.facts = 1 .. Len(run.facts)
      BY <2>3, SequenceLength
    <3>2. Len(run.facts) > 0 => Len(run.facts) \in DOMAIN run.facts
      BY <3>1
    <3>3. Busy(next) <=> Busy(run)
      BY <2>4 DEF Busy
    <3>4. StateIsCoherent(d, run)
      BY DEF RecordIsCoherent
    <3>5. run.state.phase \in AttemptOpen \union {"AwaitingHuman"} => Busy(run)
      BY DEF AttemptOpen, Busy
    <3>6. Busy(run) => /\ Len(run.facts) > 0
                       /\ next.facts[Len(run.facts)].fact = run.facts[Len(run.facts)].fact
                       /\ next.facts[Len(run.facts)].step = run.facts[Len(run.facts)].step
                       /\ next.facts[Len(run.facts)].state = run.facts[Len(run.facts)].state
      BY <2>10, <3>2, <3>4 DEF StateIsCoherent
    <3> QED
      BY <2>4, <2>9, <3>3, <3>4, <3>5, <3>6 DEF StateIsCoherent
  <2>13. RecordIsCoherent(d, next)
    BY <2>4, <2>9, <2>11, <2>12 DEF RecordIsCoherent
  <2>14. \A s : SentBack(next, s) = SentBack(run, s)
    BY <2>4, <2>9, <2>10 DEF SentBack
  <2>15. /\ Place(d, next) = Place(d, run) /\ Busy(next) = Busy(run)
         /\ \A s : Returns(next, s) = Returns(run, s)
    BY <2>4, <2>14 DEF Place, Busy, IsTerminal, Returns
  <2> QED
    BY <2>4, <2>9, <2>10, <2>13, <2>15 DEF Progresses, Moves, Stays, FactsStand
<1> QED
  BY <1>1, <1>2

LEMMA RunFailsBeforeAttempt ==
    ASSUME NEW d \in Definitions, NEW run, RecordIsCoherent(d, run),
           NEW next \in FailBeforeAttempt(run)
    PROVE  /\ RecordIsCoherent(d, next) /\ Progresses(d, run, next)
           /\ next.state.phase = "Failed"
<1>1. /\ IsReady(run)
      /\ next = [run EXCEPT !.state = Ended("Failed"), !.reservation = NoReservation]
  BY DEF FailBeforeAttempt, When
<1>2. DOMAIN run = RunFields
  BY DEF RecordIsCoherent
<1>3. /\ DOMAIN next = RunFields /\ next.facts = run.facts
      /\ next.state.phase = "Failed"
  BY <1>1, <1>2 DEF RunFields, Ended, At
<1> QED
  BY <1>1, <1>3, ReadyRunEnds

LEMMA AttemptFails ==
    ASSUME NEW d \in Definitions, NEW run, RecordIsCoherent(d, run),
           NEW a, NEW onTime, NEW next \in FailAttempt(run, a, onTime)
    PROVE  /\ RecordIsCoherent(d, next) /\ Progresses(d, run, next)
           /\ next.state.phase = "Failed"
<1>1. /\ run.state.phase = "Active" /\ run.state.at = a
      /\ next \in FinishAttempt(run, a, "Failed", Ended("Failed"))
  BY DEF FailAttempt
<1>2. next \in FinishAttempt(run, run.state.at, "Failed", Ended("Failed"))
  BY <1>1
<1> QED
  BY <1>1, <1>2, AttemptEnds

LEMMA RunIsCancelled ==
    ASSUME NEW d \in Definitions, NEW run, RecordIsCoherent(d, run),
           NEW onTime \in BOOLEAN, NEW next \in Cancel(run, onTime)
    PROVE  /\ RecordIsCoherent(d, next) /\ Progresses(d, run, next)
           /\ next.state.phase = "Cancelled"
           /\ \/ IsReady(run) \/ run.state.phase = "AwaitingHuman"
              \/ run.facts[run.state.at].cleanup # "Pending"
<1> DEFINE a == ActiveAttempt(run)
<1>1. CASE onTime /\ IsReady(run)
  <2>1. next = [run EXCEPT !.state = Ended("Cancelled"), !.reservation = NoReservation]
    <3>1. a = 0
      BY <1>1 DEF ActiveAttempt, IsReady
    <3>2. run.state.phase # "AwaitingHuman"
      BY <1>1 DEF IsReady
    <3> QED
      BY <1>1, <3>1, <3>2 DEF Cancel
  <2>2. DOMAIN run = RunFields
    BY DEF RecordIsCoherent
  <2>3. /\ DOMAIN next = RunFields /\ next.facts = run.facts
        /\ next.state.phase = "Cancelled"
    BY <2>1, <2>2 DEF RunFields, Ended, At
  <2> QED
    BY <1>1, <2>3, ReadyRunEnds
<1>2. CASE ~(onTime /\ IsReady(run)) /\ a # 0
  <2>1. run.state.phase \in {"Active", "Paused"} /\ a = run.state.at
    BY <1>2 DEF ActiveAttempt
  <2>2. /\ run.facts[a].cleanup # "Pending"
        /\ next \in FinishAttempt(run, a, "Cancelled", Ended("Cancelled"))
    BY <1>2, <2>1 DEF Cancel
  <2>3. next \in FinishAttempt(run, run.state.at, "Cancelled", Ended("Cancelled"))
    BY <2>1, <2>2
  <2> QED
    BY <2>1, <2>2, <2>3, AttemptEnds
<1>3. CASE ~(onTime /\ IsReady(run)) /\ a = 0
  <2>1. /\ run.state.phase = "AwaitingHuman"
        /\ next \in CancelGate(run, run.state.at, onTime)
    BY <1>3 DEF Cancel
  <2> QED
    BY <2>1, GateIsCancelled
<1> QED
  BY <1>1, <1>2, <1>3

LEMMA RunIsInterrupted ==
    ASSUME NEW d \in Definitions, NEW run, RecordIsCoherent(d, run),
           NEW onTime \in BOOLEAN, NEW next \in Interrupt(run, onTime)
    PROVE  /\ RecordIsCoherent(d, next) /\ Progresses(d, run, next)
           /\ next.state.phase = "Interrupted"
<1>1. CASE IsReady(run)
  <2>1. next = [run EXCEPT !.state = Ended("Interrupted"), !.reservation = NoReservation]
    BY <1>1 DEF Interrupt, IsReady
  <2>2. DOMAIN run = RunFields
    BY DEF RecordIsCoherent
  <2>3. /\ DOMAIN next = RunFields /\ next.facts = run.facts
        /\ next.state.phase = "Interrupted"
    BY <2>1, <2>2 DEF RunFields, Ended, At
  <2> QED
    BY <1>1, <2>3, ReadyRunEnds
<1>2. CASE run.state.phase = "AwaitingHuman"
  <2>1. /\ Awaits(run, run.state.at)
        /\ next = CloseGate(run, run.state.at, "Interrupted", Ended("Interrupted"))
    BY <1>2 DEF Interrupt, IsReady, When
  <2>2. DOMAIN run = RunFields
    BY DEF RecordIsCoherent
  <2>3. PICK g : g = run.state.at
    OBVIOUS
  <2>4. Awaits(run, g) /\ next = CloseGate(run, g, "Interrupted", Ended("Interrupted"))
    BY <2>1, <2>3
  <2>5. /\ DOMAIN next = RunFields
        /\ next.facts = [run.facts EXCEPT ![g].state = "Interrupted"]
        /\ next.state = Ended("Interrupted")
    BY <2>2, <2>4, CloseGateIsRecord
  <2>6. next.state.phase = "Interrupted"
    BY <2>5 DEF Ended, At
  <2> QED
    BY <2>4, <2>5, <2>6, GateEnds
<1>3. CASE run.state.phase = "Active"
  <2>1. next \in FinishAttempt(run, run.state.at, "Interrupted", Ended("Interrupted"))
    BY <1>3 DEF Interrupt, IsReady
  <2> QED
    BY <1>3, <2>1, AttemptEnds
<1>4. CASE ~IsReady(run) /\ run.state.phase \notin {"AwaitingHuman", "Active"}
  BY <1>4 DEF Interrupt
<1> QED
  BY <1>1, <1>2, <1>3, <1>4

-----------------------------------------------------------------------------
(* A mutation of the store, as far as memory and the file see it.          *)
Written(results) ==
    \/ memory' \in results /\ disk' = memory'
    \/ memory' = memory /\ disk' \in results \union {disk}

LEMMA RecordsWritten ==
    ASSUME RecordsAreCoherent, definition' = definition, NEW results,
           \A next \in results :
               RecordIsCoherent(definition, next) /\ Progresses(definition, memory, next),
           Written(results)
    PROVE  RecordsAreCoherent' /\ Progresses(definition, memory, memory')
<1>1. CASE memory' \in results /\ disk' = memory'
  <2>1. RecordIsCoherent(definition, memory') /\ Progresses(definition, memory, memory')
    BY <1>1
  <2>2. Progresses(definition, memory', memory')
    BY ProgressIsReflexive
  <2> QED
    BY <1>1, <2>1, <2>2 DEF RecordsAreCoherent, FileIsNear
<1>2. CASE memory' = memory /\ disk' \in results \union {disk}
  <2>1. RecordIsCoherent(definition, disk') /\ Progresses(definition, memory, disk')
    BY <1>2 DEF RecordsAreCoherent, FileIsNear
  <2>2. Progresses(definition, memory, memory)
    BY ProgressIsReflexive
  <2> QED
    BY <1>2, <2>1, <2>2 DEF RecordsAreCoherent, FileIsNear
<1> QED
  BY <1>1, <1>2 DEF Written

LEMMA RecordsUntouched ==
    ASSUME RecordsAreCoherent, definition' = definition, memory' = memory, disk' = disk
    PROVE  RecordsAreCoherent' /\ Progresses(definition, memory, memory')
<1>1. Written({})
  BY DEF Written
<1> QED
  BY <1>1, RecordsWritten

-----------------------------------------------------------------------------
(* How a step of the worker leaves the job and the worker.                 *)
LEMMA WorkerSettles ==
    ASSUME WorkflowInv, RecordsAreCoherent', Up, ~parked,
           NEW status \in JobEnded, NEW why, Settle(status, why),
           UNCHANGED <<definition, server, parked, session>>
    PROVE  WorkflowInv' /\ job'.status = status /\ job'.why = why
<1>1. /\ DOMAIN job' = JobFields /\ job'.cancel = job.cancel
      /\ job'.status = status /\ job'.why = why
  BY DEF Settle, WorkflowInv, ControlTyped, JobFields
<1>2. DOMAIN worker' = WorkerFields /\ worker'.pc = "idle"
  BY DEF Settle, Idle, Worker, WorkerFields
<1>3. ControlTyped'
  BY <1>1, <1>2 DEF WorkflowInv, ControlTyped, Pc
<1>4. WorkerKnows' /\ GateIsParked'
  BY <1>2 DEF WorkerKnows, GateIsParked
<1>5. PurgedJobIsTold' /\ StartKnows'
  BY <1>1 DEF PurgedJobIsTold, StartKnows, JobActive, JobEnded, Up
<1> QED
  BY <1>1, <1>3, <1>4, <1>5 DEF WorkflowInv

LEMMA WorkerGoes ==
    ASSUME WorkflowInv, RecordsAreCoherent', Up, worker.pc # "idle",
           DOMAIN worker' = WorkerFields, worker'.pc \in Pc,
           UNCHANGED <<definition, server, parked, session, job>>,
           WorkerKnows'
    PROVE  WorkflowInv'
<1>1. job.status = "Running" /\ ~parked
  BY DEF WorkflowInv, WorkerKnows
<1>2. ControlTyped'
  BY DEF WorkflowInv, ControlTyped
<1>3. GateIsParked' /\ PurgedJobIsTold' /\ StartKnows'
  BY <1>1 DEF WorkflowInv, GateIsParked, PurgedJobIsTold, StartKnows, Up
<1> QED
  BY <1>2, <1>3 DEF WorkflowInv

(* The job goes on as it is: nothing ended.                                *)
LEMMA JobGoesOn ==
    ASSUME \/ job' = job
           \/ job'.status \notin JobEnded
           \/ job'.why # ""
    PROVE  JobEnds
  BY DEF JobEnds, JobActive, JobEnded

LEMMA WorkerStands ==
    ASSUME WorkflowInv, worker.pc # "idle"
    PROVE  /\ Up /\ job.status = "Running" /\ ~parked
           /\ definition \in Definitions
           /\ RecordsAreCoherent /\ RecordIsCoherent(definition, memory)
           /\ DOMAIN worker = WorkerFields
  BY DEF WorkflowInv, WorkerKnows, ControlTyped, RecordsAreCoherent

(* The worker stores how the run ended and settles its job, or fails to.   *)
LEMMA RunEnds ==
    ASSUME WorkflowInv, worker.pc # "idle",
           UNCHANGED <<definition, server, parked, session>>,
           NEW results, NEW status \in JobEnded, NEW why, why # "",
           \A next \in results :
               /\ RecordIsCoherent(definition, next)
               /\ Progresses(definition, memory, next)
               /\ EndMatches(status, next),
           Written(results),
           \/ memory' \in results /\ Settle(status, "")
           \/ Settle("Failed", why)
    PROVE  Kept
<1>1. Up /\ ~parked /\ RecordsAreCoherent
  BY WorkerStands
<1>2. RecordsAreCoherent' /\ Progresses(definition, memory, memory')
  BY <1>1, RecordsWritten
<1>3. CASE memory' \in results /\ Settle(status, "")
  <2>1. WorkflowInv' /\ job'.status = status
    BY <1>1, <1>2, <1>3, WorkerSettles
  <2>2. JobEnds
    BY <1>3, <2>1 DEF JobEnds
  <2> QED
    BY <1>2, <2>1, <2>2 DEF Kept
<1>4. CASE Settle("Failed", why)
  <2>1. WorkflowInv' /\ job'.why = why
    BY <1>1, <1>2, <1>4, WorkerSettles DEF JobEnded
  <2> QED
    BY <1>2, <2>1, JobGoesOn DEF Kept
<1> QED
  BY <1>3, <1>4

LEMMA RunIsLeft ==
    ASSUME WorkflowInv, worker.pc # "idle",
           UNCHANGED <<definition, server, parked, session, memory, disk>>,
           NEW why, why # "", Settle("Failed", why)
    PROVE  Kept
<1>1. Written({})
  BY DEF Written
<1> QED
  BY <1>1, RunEnds DEF JobEnded

(* The worker stores a run that goes on, or fails to.                      *)
LEMMA RunGoesOn ==
    ASSUME WorkflowInv, worker.pc # "idle",
           UNCHANGED <<definition, server, parked, session>>,
           NEW results, NEW why, why # "",
           \A next \in results :
               RecordIsCoherent(definition, next) /\ Progresses(definition, memory, next),
           Written(results),
           \/ /\ memory' \in results \/ memory' = memory
              /\ job' = job
              /\ DOMAIN worker' = WorkerFields /\ worker'.pc \in Pc
              /\ WorkerKnows'
           \/ Settle("Failed", why)
    PROVE  Kept
<1>1. Up /\ ~parked /\ RecordsAreCoherent
  BY WorkerStands
<1>2. RecordsAreCoherent' /\ Progresses(definition, memory, memory')
  BY <1>1, RecordsWritten
<1>3. CASE job' = job /\ DOMAIN worker' = WorkerFields /\ worker'.pc \in Pc /\ WorkerKnows'
  <2>1. WorkflowInv'
    BY <1>1, <1>2, <1>3, WorkerGoes
  <2> QED
    BY <1>2, <1>3, <2>1, JobGoesOn DEF Kept
<1>4. CASE Settle("Failed", why)
  <2>1. WorkflowInv' /\ job'.why = why
    BY <1>1, <1>2, <1>4, WorkerSettles DEF JobEnded
  <2> QED
    BY <1>2, <2>1, JobGoesOn DEF Kept
<1> QED
  BY <1>3, <1>4

-----------------------------------------------------------------------------
(* The top of the loop.                                                    *)
LEMMA SettleEndedRunKeeps ==
    ASSUME WorkflowInv, SettleEndedRun
    PROVE  Kept
<1>1. /\ At_("loop") /\ IsTerminal(memory) /\ SettleTerminal(memory)
      /\ memory' = memory /\ disk' = disk
      /\ UNCHANGED <<definition, server, parked, session>>
  BY DEF SettleEndedRun, NoMutation, held
<1>2. Up /\ ~parked /\ RecordsAreCoherent
  BY <1>1, WorkerStands DEF At_
<1>3. RecordsAreCoherent' /\ Progresses(definition, memory, memory')
  BY <1>1, <1>2, RecordsUntouched
<1>4. PICK status : status = JobStatusOf(memory.state.phase)
  OBVIOUS
<1>5. status \in JobEnded
  BY <1>4 DEF JobStatusOf, JobEnded
<1>6. Settle(status, "")
  BY <1>1, <1>4 DEF SettleTerminal
<1>7. WorkflowInv' /\ job'.status = status
  BY <1>1, <1>2, <1>3, <1>5, <1>6, WorkerSettles
<1>8. EndMatches(status, memory)
  BY <1>1, <1>4 DEF EndMatches, JobStatusOf, IsTerminal, TerminalPhase
<1>9. JobEnds
  BY <1>1, <1>7, <1>8 DEF JobEnds
<1> QED
  BY <1>3, <1>7, <1>9 DEF Kept

LEMMA StopAtTopKeeps ==
    ASSUME WorkflowInv, StopAtTop
    PROVE  Kept
<1>1. /\ At_("loop") /\ UNCHANGED <<definition, server, parked, session>>
      /\ Mutate(Cancel(memory, OnTime), Settle("Cancelled", ""), FailOperational)
  BY DEF StopAtTop, held
<1>2. /\ definition \in Definitions /\ RecordIsCoherent(definition, memory)
      /\ worker.pc # "idle"
  BY <1>1, WorkerStands DEF At_
<1>3. PICK results : results = Cancel(memory, OnTime)
  OBVIOUS
<1>4. OnTime \in BOOLEAN
  BY DEF OnTime
<1>5. \A next \in results :
          /\ RecordIsCoherent(definition, next) /\ Progresses(definition, memory, next)
          /\ next.state.phase = "Cancelled"
  BY <1>2, <1>3, <1>4, RunIsCancelled
<1>6. \A next \in results : EndMatches("Cancelled", next)
  BY <1>5 DEF EndMatches
<1>7. /\ Written(results)
      /\ \/ memory' \in results /\ Settle("Cancelled", "")
         \/ Settle("Failed", "store")
  BY <1>1, <1>3 DEF Mutate, Written, FailOperational
<1> QED
  BY <1>1, <1>2, <1>5, <1>6, <1>7, RunEnds DEF JobEnded

LEMMA RefuseAtTopKeeps ==
    ASSUME WorkflowInv, RefuseAtTop \/ FailToResolve
    PROVE  Kept
<1>1. /\ At_("loop")
      /\ Settle("Failed", "refused") \/ Settle("Failed", "unresolved")
      /\ UNCHANGED <<definition, server, parked, session, memory, disk>>
  BY DEF RefuseAtTop, FailToResolve, Proceeds, NoMutation, held
<1>2. worker.pc # "idle"
  BY <1>1 DEF At_
<1> QED
  BY <1>1, <1>2, RunIsLeft

LEMMA OpenGateKeeps ==
    ASSUME WorkflowInv, OpenGate
    PROVE  Kept
<1>1. /\ At_("loop") /\ UNCHANGED <<definition, server, parked, session>>
      /\ Mutate(OpenPlanGate(definition, memory, PlanGiven(StepInputs), OnTime),
                Goto("opened") /\ UNCHANGED job, FailOperational)
  BY DEF OpenGate, Proceeds, held
<1>2. /\ definition \in Definitions /\ RecordIsCoherent(definition, memory)
      /\ worker.pc # "idle" /\ Up /\ job.status = "Running" /\ ~parked
      /\ DOMAIN worker = WorkerFields
  BY <1>1, WorkerStands DEF At_
<1>3. PICK results, plan, onTime : /\ results = OpenPlanGate(definition, memory, plan, onTime)
                                  /\ plan = PlanGiven(StepInputs) /\ onTime = OnTime
  OBVIOUS
<1>4. \A next \in results :
          /\ RecordIsCoherent(definition, next) /\ Progresses(definition, memory, next)
          /\ next.state.phase = "AwaitingHuman"
  BY <1>2, <1>3, GateOpens
<1>5. /\ Written(results)
      /\ \/ memory' \in results /\ Goto("opened") /\ job' = job
         \/ Settle("Failed", "store")
  BY <1>1, <1>3 DEF Mutate, Written, FailOperational
<1>6. CASE memory' \in results /\ Goto("opened") /\ job' = job
  <2>1. DOMAIN worker' = WorkerFields /\ worker'.pc = "opened"
    BY <1>2, <1>6 DEF Goto, WorkerFields
  <2>2. memory'.state.phase = "AwaitingHuman"
    BY <1>4, <1>6
  <2>3. WorkerKnows'
    BY <1>1, <1>2, <1>6, <2>1, <2>2 DEF WorkerKnows, Up
  <2> QED
    BY <1>1, <1>2, <1>4, <1>5, <1>6, <2>1, <2>3, RunGoesOn DEF Pc
<1>7. CASE Settle("Failed", "store")
  BY <1>1, <1>2, <1>4, <1>5, <1>7, RunGoesOn
<1> QED
  BY <1>5, <1>6, <1>7

LEMMA ParkKeeps ==
    ASSUME WorkflowInv, Park
    PROVE  Kept
<1>1. /\ At_("opened") /\ parked' = TRUE /\ worker' = Idle
      /\ job' = [job EXCEPT !.status = "AwaitingDecision"]
      /\ UNCHANGED <<definition, server, session, memory, disk>>
  BY DEF Park, NoMutation, held
<1>2. /\ Up /\ RecordsAreCoherent /\ job.status = "Running"
      /\ memory.state.phase = "AwaitingHuman"
  BY <1>1, WorkerStands DEF At_, WorkflowInv, WorkerKnows
<1>3. RecordsAreCoherent' /\ Progresses(definition, memory, memory')
  BY <1>1, <1>2, RecordsUntouched
<1>4. /\ DOMAIN job' = JobFields /\ job'.cancel = job.cancel
      /\ job'.status = "AwaitingDecision"
  BY <1>1 DEF WorkflowInv, ControlTyped, JobFields
<1>5. DOMAIN worker' = WorkerFields /\ worker'.pc = "idle"
  BY <1>1 DEF Idle, Worker, WorkerFields
<1>6. ControlTyped'
  BY <1>1, <1>4, <1>5 DEF WorkflowInv, ControlTyped, Pc
<1>7. WorkerKnows' /\ GateIsParked' /\ StartKnows'
  BY <1>1, <1>2, <1>4, <1>5 DEF WorkerKnows, GateIsParked, StartKnows, Up
<1>8. PurgedJobIsTold'
  BY <1>1, <1>2, <1>4 DEF WorkflowInv, PurgedJobIsTold, JobActive
<1>9. JobEnds
  BY <1>4, JobGoesOn DEF JobEnded
<1> QED
  BY <1>3, <1>6, <1>7, <1>8, <1>9 DEF WorkflowInv, Kept

LEMMA RefuseCapabilitiesKeeps ==
    ASSUME WorkflowInv, RefuseCapabilities
    PROVE  Kept
<1>1. /\ At_("loop") /\ UNCHANGED <<definition, server, parked, session>>
      /\ Mutate(IF Resumed THEN FailAttempt(memory, memory.state.at, OnTime)
                ELSE FailBeforeAttempt(memory),
                Settle("Failed", ""), FailOperational)
  BY DEF RefuseCapabilities, Dispatches, Proceeds, held
<1>2. /\ definition \in Definitions /\ RecordIsCoherent(definition, memory)
      /\ worker.pc # "idle"
  BY <1>1, WorkerStands DEF At_
<1>3. PICK results : results = IF Resumed THEN FailAttempt(memory, memory.state.at, OnTime)
                               ELSE FailBeforeAttempt(memory)
  OBVIOUS
<1>4. \A next \in results :
          /\ RecordIsCoherent(definition, next) /\ Progresses(definition, memory, next)
          /\ next.state.phase = "Failed"
  <2>1. CASE Resumed
    BY <1>2, <1>3, <2>1, AttemptFails
  <2>2. CASE ~Resumed
    BY <1>2, <1>3, <2>2, RunFailsBeforeAttempt
  <2> QED
    BY <2>1, <2>2
<1>5. \A next \in results : EndMatches("Failed", next)
  BY <1>4 DEF EndMatches, IsTerminal, TerminalPhase
<1>6. /\ Written(results)
      /\ \/ memory' \in results /\ Settle("Failed", "")
         \/ Settle("Failed", "store")
  BY <1>1, <1>3 DEF Mutate, Written, FailOperational
<1> QED
  BY <1>1, <1>2, <1>4, <1>5, <1>6, RunEnds DEF JobEnded

LEMMA StartKeeps ==
    ASSUME WorkflowInv, Start
    PROVE  Kept
<1>1. /\ At_("loop") /\ UNCHANGED <<definition, server, parked, session>>
      /\ ~IsGate(definition, memory.state.step)
  BY DEF Start, Dispatches, Proceeds, Step, held
<1>2. /\ definition \in Definitions /\ RecordIsCoherent(definition, memory)
      /\ worker.pc # "idle" /\ Up /\ job.status = "Running" /\ ~parked
  BY <1>1, WorkerStands DEF At_
<1>3. ASSUME NEW a, worker' = Worker("step", a, NoOutcome), job' = job,
             memory'.state.phase = "Active", memory'.state.at = a
      PROVE  DOMAIN worker' = WorkerFields /\ worker'.pc = "step" /\ WorkerKnows'
  <2>1. DOMAIN worker' = WorkerFields /\ worker'.pc = "step" /\ worker'.attempt = a
    BY <1>3 DEF Worker, WorkerFields
  <2> QED
    BY <1>1, <1>2, <1>3, <2>1 DEF WorkerKnows, Up
<1>4. CASE Resumed
  <2>1. PICK a : a = memory.state.at
    OBVIOUS
  <2>2. /\ worker' = Worker("step", a, NoOutcome) /\ job' = job
        /\ memory' = memory /\ disk' = disk
    BY <1>4, <2>1 DEF Start, NoMutation
  <2>3. memory'.state.phase = "Active" /\ memory'.state.at = a
    BY <1>4, <2>1, <2>2 DEF Resumed
  <2>4. DOMAIN worker' = WorkerFields /\ worker'.pc = "step" /\ WorkerKnows'
    BY <1>3, <2>2, <2>3
  <2>5. Written({}) /\ "store" # ""
    BY <2>2 DEF Written
  <2> QED
    BY <1>1, <1>2, <2>2, <2>4, <2>5, RunGoesOn DEF Pc
<1>5. CASE ~Resumed
  <2>1. PICK results, inputs, onTime :
            /\ results = StartAttempt(definition, memory, inputs, onTime)
            /\ inputs = StepInputs /\ onTime = OnTime
    OBVIOUS
  <2>2. Mutate(StartAttempt(definition, memory, StepInputs, OnTime),
               /\ worker' = Worker("step", Len(memory'.facts), NoOutcome)
               /\ job' = job,
               FailOperational)
    BY <1>5 DEF Start
  <2>3. \A next \in results :
            /\ RecordIsCoherent(definition, next) /\ Progresses(definition, memory, next)
            /\ next.state.phase = "Active" /\ next.state.at = Len(next.facts)
    BY <1>1, <1>2, <2>1, AttemptStarts
  <2>4. /\ Written(results)
        /\ \/ /\ memory' \in results /\ job' = job
              /\ worker' = Worker("step", Len(memory'.facts), NoOutcome)
           \/ Settle("Failed", "store")
    BY <2>1, <2>2 DEF Mutate, Written, FailOperational
  <2>5. CASE /\ memory' \in results /\ job' = job
             /\ worker' = Worker("step", Len(memory'.facts), NoOutcome)
    <3>1. memory'.state.phase = "Active" /\ memory'.state.at = Len(memory'.facts)
      BY <2>3, <2>5
    <3>2. DOMAIN worker' = WorkerFields /\ worker'.pc = "step" /\ WorkerKnows'
      BY <1>3, <2>5, <3>1
    <3> QED
      BY <1>1, <1>2, <2>3, <2>4, <2>5, <3>2, RunGoesOn DEF Pc
  <2>6. CASE Settle("Failed", "store")
    BY <1>1, <1>2, <2>3, <2>4, <2>6, RunGoesOn
  <2> QED
    BY <2>4, <2>5, <2>6
<1> QED
  BY <1>4, <1>5

-----------------------------------------------------------------------------
(* The step and what follows it.                                           *)
LEMMA RunStepKeeps ==
    ASSUME WorkflowInv, RunStep
    PROVE  Kept
<1>1. /\ At_("step") /\ UNCHANGED <<definition, server, parked, session, job, memory, disk>>
      /\ \E outcome : worker' = Worker("clean", worker.attempt, outcome)
  BY DEF RunStep, NoMutation, held
<1>2. /\ worker.pc # "idle" /\ Up /\ job.status = "Running" /\ ~parked
  BY <1>1, WorkerStands DEF At_
<1>3. DOMAIN worker' = WorkerFields /\ worker'.pc = "clean" /\ worker'.attempt = worker.attempt
  BY <1>1 DEF Worker, WorkerFields
<1>4. memory.state.phase = "Active" /\ memory.state.at = worker.attempt
  BY <1>1 DEF At_, WorkflowInv, WorkerKnows
<1>5. WorkerKnows'
  BY <1>1, <1>2, <1>3, <1>4 DEF WorkerKnows, Up
<1>6. Written({}) /\ "store" # ""
  BY <1>1 DEF Written
<1> QED
  BY <1>1, <1>2, <1>3, <1>5, <1>6, RunGoesOn DEF Pc

LEMMA WorkedAttempt ==
    ASSUME WorkflowInv, worker.pc \in {"step", "clean", "finish"}
    PROVE  /\ memory.state.phase = "Active" /\ memory.state.at = worker.attempt
           /\ worker.attempt \in Attempts(memory)
<1>1. memory.state.phase = "Active" /\ memory.state.at = worker.attempt
  BY DEF WorkflowInv, WorkerKnows
<1>2. Busy(memory) /\ RecordIsCoherent(definition, memory)
  BY <1>1 DEF Busy, WorkflowInv, RecordsAreCoherent
<1>3. /\ Len(memory.facts) \in DOMAIN memory.facts
      /\ memory.facts[Len(memory.facts)].fact = "attempt"
      /\ memory.state.at = Len(memory.facts)
  BY <1>1, <1>2, OpenFactIsLast
<1> QED
  BY <1>1, <1>3 DEF Attempts

LEMMA PersistCleanupKeeps ==
    ASSUME WorkflowInv, PersistCleanup
    PROVE  Kept
<1>1. /\ At_("clean") /\ UNCHANGED <<definition, server, parked, session>>
      /\ Mutate(RecordCleanup(memory, worker.attempt, worker.outcome.cleanup),
                IF worker.outcome.cleanup = "Complete"
                THEN Goto("finish") /\ UNCHANGED <<job, recovery>>
                ELSE Protect,
                Protect)
  BY DEF PersistCleanup
<1>2. /\ definition \in Definitions /\ RecordIsCoherent(definition, memory)
      /\ worker.pc # "idle" /\ Up /\ job.status = "Running" /\ ~parked
      /\ DOMAIN worker = WorkerFields
  BY <1>1, WorkerStands DEF At_
<1>3. PICK results, a, cleanup : /\ results = RecordCleanup(memory, a, cleanup)
                                 /\ a = worker.attempt /\ cleanup = worker.outcome.cleanup
  OBVIOUS
<1>4. /\ a \in Attempts(memory)
      /\ memory.state.phase = "Active" /\ memory.state.at = worker.attempt
  BY <1>1, <1>3, WorkedAttempt DEF At_
<1>5. \A next \in results :
          /\ RecordIsCoherent(definition, next) /\ Progresses(definition, memory, next)
          /\ next.state = memory.state
  BY <1>2, <1>3, <1>4, CleanupIsRecorded
<1>6. /\ Written(results)
      /\ \/ memory' \in results /\ Goto("finish") /\ job' = job
         \/ Settle("Failed", "protected")
  BY <1>1, <1>3 DEF Mutate, Written, Protect
<1>7. CASE memory' \in results /\ Goto("finish") /\ job' = job
  <2>1. /\ DOMAIN worker' = WorkerFields /\ worker'.pc = "finish"
        /\ worker'.attempt = worker.attempt
    BY <1>2, <1>7 DEF Goto, WorkerFields
  <2>2. memory'.state.phase = "Active" /\ memory'.state.at = worker.attempt
    BY <1>4, <1>5, <1>7
  <2>3. WorkerKnows'
    BY <1>1, <1>2, <1>7, <2>1, <2>2 DEF WorkerKnows, Up
  <2> QED
    BY <1>1, <1>2, <1>5, <1>6, <1>7, <2>1, <2>3, RunGoesOn DEF Pc
<1>8. CASE Settle("Failed", "protected")
  BY <1>1, <1>2, <1>5, <1>6, <1>8, RunGoesOn
<1> QED
  BY <1>6, <1>7, <1>8

LEMMA PublishSuccessKeeps ==
    ASSUME WorkflowInv, PublishSuccess
    PROVE  Kept
<1> DEFINE failed == worker' = [worker EXCEPT !.outcome.end = "Failed"]
<1>1. /\ At_("finish") /\ UNCHANGED <<definition, server, parked, session, job>>
      /\ \/ Mutate(CompleteAttempt(definition, memory, worker.attempt,
                       Durable(definition[Step].outputs), worker.outcome.verdict, OnTime),
                   worker' = Loop, failed)
         \/ NoMutation /\ failed
  BY DEF PublishSuccess, PublishDraft, Ends, held
<1>2. /\ definition \in Definitions /\ RecordIsCoherent(definition, memory)
      /\ worker.pc # "idle" /\ Up /\ job.status = "Running" /\ ~parked
      /\ DOMAIN worker = WorkerFields
  BY <1>1, WorkerStands DEF At_
<1>3. PICK results, a, outputs, verdict, onTime :
          /\ results = CompleteAttempt(definition, memory, a, outputs, verdict, onTime)
          /\ a = worker.attempt /\ outputs = Durable(definition[Step].outputs)
          /\ verdict = worker.outcome.verdict /\ onTime = OnTime
  OBVIOUS
<1>4. \A next \in results :
          /\ RecordIsCoherent(definition, next) /\ Progresses(definition, memory, next)
          /\ next.state.phase \in {"Ready", "Completed", "EscalatedBlocked",
                                   "EscalatedAttemptLimit"}
  BY <1>2, <1>3, AttemptCompletes
<1>5. /\ Written(results)
      /\ \/ memory' \in results /\ worker' = Loop
         \/ memory' = memory /\ failed
  BY <1>1, <1>3 DEF Mutate, NoMutation, Written
<1>6. CASE memory' \in results /\ worker' = Loop
  <2>1. DOMAIN worker' = WorkerFields /\ worker'.pc = "loop"
    BY <1>6 DEF Loop, Worker, WorkerFields
  <2>2. memory'.state.phase \notin {"AwaitingHuman", "Paused"}
    BY <1>4, <1>6
  <2>3. WorkerKnows'
    BY <1>1, <1>2, <2>1, <2>2 DEF WorkerKnows, Up
  <2> QED
    BY <1>1, <1>2, <1>4, <1>5, <1>6, <2>1, <2>3, RunGoesOn DEF Pc
<1>7. CASE memory' = memory /\ failed
  <2>1. /\ DOMAIN worker' = WorkerFields /\ worker'.pc = worker.pc
        /\ worker'.attempt = worker.attempt
    BY <1>2, <1>7 DEF WorkerFields
  <2>2. memory.state.phase = "Active" /\ memory.state.at = worker.attempt
    BY <1>1, WorkedAttempt DEF At_
  <2>3. WorkerKnows'
    BY <1>1, <1>2, <1>7, <2>1, <2>2 DEF WorkerKnows, Up, At_
  <2>4. "store" # ""
    OBVIOUS
  <2> QED
    BY <1>1, <1>2, <1>4, <1>5, <1>7, <2>1, <2>3, <2>4, RunGoesOn DEF Pc, At_
<1> QED
  BY <1>5, <1>6, <1>7

LEMMA PersistFailKeeps ==
    ASSUME WorkflowInv, PersistFail
    PROVE  Kept
<1>1. /\ At_("finish") /\ UNCHANGED <<definition, server, parked, session>>
      /\ Mutate(FailAttempt(memory, worker.attempt, OnTime),
                Settle("Failed", ""), FailOperational)
  BY DEF PersistFail, Ends, held
<1>2. /\ definition \in Definitions /\ RecordIsCoherent(definition, memory)
      /\ worker.pc # "idle"
  BY <1>1, WorkerStands DEF At_
<1>3. PICK results, a, onTime : /\ results = FailAttempt(memory, a, onTime)
                                /\ a = worker.attempt /\ onTime = OnTime
  OBVIOUS
<1>4. \A next \in results :
          /\ RecordIsCoherent(definition, next) /\ Progresses(definition, memory, next)
          /\ next.state.phase = "Failed"
  BY <1>2, <1>3, AttemptFails
<1>5. \A next \in results : EndMatches("Failed", next)
  BY <1>4 DEF EndMatches, IsTerminal, TerminalPhase
<1>6. /\ Written(results)
      /\ \/ memory' \in results /\ Settle("Failed", "")
         \/ Settle("Failed", "store")
  BY <1>1, <1>3 DEF Mutate, Written, FailOperational
<1> QED
  BY <1>1, <1>2, <1>4, <1>5, <1>6, RunEnds DEF JobEnded

LEMMA PersistCancelKeeps ==
    ASSUME WorkflowInv, PersistCancel
    PROVE  Kept
<1>1. /\ At_("finish") /\ UNCHANGED <<definition, server, parked, session>>
      /\ Mutate(Cancel(memory, OnTime), Settle("Cancelled", ""), FailOperational)
  BY DEF PersistCancel, Ends, held
<1>2. /\ definition \in Definitions /\ RecordIsCoherent(definition, memory)
      /\ worker.pc # "idle"
  BY <1>1, WorkerStands DEF At_
<1>3. PICK results : results = Cancel(memory, OnTime)
  OBVIOUS
<1>4. OnTime \in BOOLEAN
  BY DEF OnTime
<1>5. \A next \in results :
          /\ RecordIsCoherent(definition, next) /\ Progresses(definition, memory, next)
          /\ next.state.phase = "Cancelled"
  BY <1>2, <1>3, <1>4, RunIsCancelled
<1>6. \A next \in results : EndMatches("Cancelled", next)
  BY <1>5 DEF EndMatches
<1>7. /\ Written(results)
      /\ \/ memory' \in results /\ Settle("Cancelled", "")
         \/ Settle("Failed", "store")
  BY <1>1, <1>3 DEF Mutate, Written, FailOperational
<1> QED
  BY <1>1, <1>2, <1>5, <1>6, <1>7, RunEnds DEF JobEnded

LEMMA PauseRunKeeps ==
    ASSUME WorkflowInv, PauseRun
    PROVE  Kept
<1>1. /\ At_("finish") /\ UNCHANGED <<definition, server, parked, session>>
      /\ Mutate(PauseAttempt(definition, memory, worker.attempt, OnTime),
                Goto("paused") /\ UNCHANGED job, FailOperational)
  BY DEF PauseRun, Ends, held
<1>2. /\ definition \in Definitions /\ RecordIsCoherent(definition, memory)
      /\ worker.pc # "idle" /\ Up /\ job.status = "Running" /\ ~parked
      /\ DOMAIN worker = WorkerFields
  BY <1>1, WorkerStands DEF At_
<1>3. PICK results, a, onTime : /\ results = PauseAttempt(definition, memory, a, onTime)
                                /\ a = worker.attempt /\ onTime = OnTime
  OBVIOUS
<1>4. \A next \in results :
          /\ RecordIsCoherent(definition, next) /\ Progresses(definition, memory, next)
          /\ next.state.phase = "Paused"
  BY <1>2, <1>3, AttemptPauses
<1>5. /\ Written(results)
      /\ \/ memory' \in results /\ Goto("paused") /\ job' = job
         \/ Settle("Failed", "store")
  BY <1>1, <1>3 DEF Mutate, Written, FailOperational
<1>6. CASE memory' \in results /\ Goto("paused") /\ job' = job
  <2>1. DOMAIN worker' = WorkerFields /\ worker'.pc = "paused"
    BY <1>2, <1>6 DEF Goto, WorkerFields
  <2>2. memory'.state.phase = "Paused"
    BY <1>4, <1>6
  <2>3. WorkerKnows'
    BY <1>1, <1>2, <1>6, <2>1, <2>2 DEF WorkerKnows, Up
  <2> QED
    BY <1>1, <1>2, <1>4, <1>5, <1>6, <2>1, <2>3, RunGoesOn DEF Pc
<1>7. CASE Settle("Failed", "store")
  BY <1>1, <1>2, <1>4, <1>5, <1>7, RunGoesOn
<1> QED
  BY <1>5, <1>6, <1>7

LEMMA PauseConversationKeeps ==
    ASSUME WorkflowInv, PauseConversation
    PROVE  Kept
<1>1. /\ At_("paused")
      /\ Settle("Completed", "") \/ Settle("Failed", "store")
      /\ UNCHANGED <<definition, server, parked, session, memory, disk>>
  BY DEF PauseConversation, NoMutation, FailOperational
<1>2. /\ worker.pc # "idle" /\ RecordIsCoherent(definition, memory)
      /\ memory.state.phase = "Paused"
  BY <1>1, WorkerStands DEF At_, WorkflowInv, WorkerKnows
<1>3. PICK results : results = {memory}
  OBVIOUS
<1>4. Written(results) /\ memory' \in results /\ "store" # "" /\ "Completed" \in JobEnded
  BY <1>1, <1>3 DEF Written, JobEnded
<1>5. \A next \in results :
          /\ RecordIsCoherent(definition, next) /\ Progresses(definition, memory, next)
          /\ EndMatches("Completed", next)
  BY <1>2, <1>3, ProgressIsReflexive DEF EndMatches
<1> QED
  BY <1>1, <1>2, <1>4, <1>5, RunEnds

LEMMA ResumeWorkKeeps ==
    ASSUME WorkflowInv, ResumeWork
    PROVE  Kept
<1>1. /\ At_("resume") /\ UNCHANGED <<definition, server, parked, session>>
      /\ \/ Goto("loop") /\ memory' = memory /\ disk' = disk /\ job' = job
         \/ Settle("Failed", "refused") /\ memory' = memory /\ disk' = disk
         \/ Mutate(Cancel(memory, OnTime), Settle("Failed", ""),
                   Settle("Failed", "refused"))
  BY DEF ResumeWork, NoMutation, held
<1>2. /\ definition \in Definitions /\ RecordIsCoherent(definition, memory)
      /\ worker.pc # "idle" /\ Up /\ job.status = "Running" /\ ~parked
      /\ DOMAIN worker = WorkerFields
  BY <1>1, WorkerStands DEF At_
<1>3. memory.state.phase = "Active" /\ memory.facts[memory.state.at].cleanup = "Pending"
  BY <1>1 DEF At_, WorkflowInv, WorkerKnows
<1>4. OnTime \in BOOLEAN
  BY DEF OnTime
<1>5. Cancel(memory, OnTime) = {}
  <2>1. \A next \in Cancel(memory, OnTime) : FALSE
    BY <1>2, <1>3, <1>4, RunIsCancelled DEF IsReady
  <2> QED
    BY <2>1
<1>6. CASE Goto("loop") /\ memory' = memory /\ disk' = disk /\ job' = job
  <2>1. DOMAIN worker' = WorkerFields /\ worker'.pc = "loop"
    BY <1>2, <1>6 DEF Goto, WorkerFields
  <2>2. WorkerKnows'
    BY <1>1, <1>2, <1>3, <1>6, <2>1 DEF WorkerKnows, Up
  <2>3. Written({}) /\ "store" # ""
    BY <1>6 DEF Written
  <2> QED
    BY <1>1, <1>2, <1>6, <2>1, <2>2, <2>3, RunGoesOn DEF Pc
<1>7. CASE Settle("Failed", "refused") /\ memory' = memory /\ disk' = disk
  BY <1>1, <1>2, <1>7, RunIsLeft
<1>8. CASE Mutate(Cancel(memory, OnTime), Settle("Failed", ""),
                  Settle("Failed", "refused"))
  <2>1. Settle("Failed", "refused") /\ memory' = memory /\ disk' = disk
    BY <1>5, <1>8 DEF Mutate
  <2> QED
    BY <1>1, <1>2, <2>1, RunIsLeft
<1> QED
  BY <1>1, <1>6, <1>7, <1>8

-----------------------------------------------------------------------------
(* The requests.  The record is the only thing they share with the worker. *)
LEMMA Stands ==
    ASSUME WorkflowInv
    PROVE  /\ definition \in Definitions
           /\ RecordsAreCoherent /\ RecordIsCoherent(definition, memory)
           /\ DOMAIN job = JobFields /\ job.cancel \in BOOLEAN
           /\ DOMAIN worker = WorkerFields
           /\ parked \in BOOLEAN /\ session \in {"live", "gone"}
  BY DEF WorkflowInv, ControlTyped, RecordsAreCoherent

LEMMA StopRequestKeeps ==
    ASSUME WorkflowInv, StopRequest
    PROVE  Kept
<1>1. /\ Up /\ job' = [job EXCEPT !.cancel = TRUE]
      /\ UNCHANGED <<definition, server, parked, session, worker, memory, disk>>
  BY DEF StopRequest, held
<1>2. /\ job'.status = job.status /\ job'.cancel = TRUE /\ DOMAIN job' = JobFields
  BY <1>1, Stands DEF JobFields
<1>3. RecordsAreCoherent' /\ Progresses(definition, memory, memory')
  BY <1>1, Stands, RecordsUntouched
<1>4. ControlTyped'
  BY <1>1, <1>2 DEF WorkflowInv, ControlTyped
<1>5. WorkerKnows'
  BY <1>1, <1>2 DEF WorkflowInv, WorkerKnows, Up
<1>6. GateIsParked' /\ PurgedJobIsTold' /\ StartKnows'
  BY <1>1, <1>2 DEF WorkflowInv, GateIsParked, PurgedJobIsTold, StartKnows, Up
<1>7. JobEnds
  BY <1>2 DEF JobEnds, JobActive, JobEnded
<1> QED
  BY <1>3, <1>4, <1>5, <1>6, <1>7 DEF WorkflowInv, Kept

(* A decision ends the job of a parked gate, or its task goes on.          *)
LEMMA GateJobEnds ==
    ASSUME WorkflowInv, RecordsAreCoherent', parked, parked' = FALSE,
           UNCHANGED <<definition, server>>, session' \in {"live", "gone"},
           NEW status \in JobEnded, NEW why, Settle(status, why)
    PROVE  WorkflowInv' /\ job'.status = status
<1>1. Up
  BY DEF WorkflowInv, GateIsParked
<1>2. /\ DOMAIN job' = JobFields /\ job'.cancel = job.cancel
      /\ job'.status = status /\ job'.why = why
  BY Stands DEF Settle, JobFields
<1>3. DOMAIN worker' = WorkerFields /\ worker'.pc = "idle"
  BY DEF Settle, Idle, Worker, WorkerFields
<1>4. ControlTyped'
  BY <1>2, <1>3 DEF WorkflowInv, ControlTyped, Pc
<1>5. WorkerKnows' /\ GateIsParked'
  BY <1>3 DEF WorkerKnows, GateIsParked
<1>6. PurgedJobIsTold' /\ StartKnows'
  BY <1>1, <1>2 DEF PurgedJobIsTold, StartKnows, JobActive, JobEnded, Up
<1> QED
  BY <1>2, <1>4, <1>5, <1>6 DEF WorkflowInv

LEMMA GateIsPutBack ==
    ASSUME WorkflowInv, RecordsAreCoherent', Progresses(definition, memory, memory'),
           parked, memory' = memory,
           UNCHANGED <<definition, server, session, parked, job, worker>>
    PROVE  Kept
<1>1. ControlTyped' /\ WorkerKnows'
  BY DEF WorkflowInv, ControlTyped, WorkerKnows, Up
<1>2. Up
  BY DEF WorkflowInv, GateIsParked
<1>3. GateIsParked' /\ PurgedJobIsTold' /\ StartKnows'
  BY <1>2 DEF WorkflowInv, GateIsParked, PurgedJobIsTold, StartKnows, Up
<1> QED
  BY <1>1, <1>3, JobGoesOn DEF WorkflowInv, Kept

(* The task of a decided gate takes the run where the decision left it.    *)
LEMMA GateGoesOn ==
    ASSUME WorkflowInv, RecordsAreCoherent', Progresses(definition, memory, memory'),
           parked, session = "live", UNCHANGED <<definition, server, session>>,
           memory'.state.phase \in {"Ready", "Completed", "EscalatedAttemptLimit"},
           GoOn
    PROVE  Kept
<1>1. parked' = FALSE /\ Up
  BY DEF GoOn, WorkflowInv, GateIsParked
<1>2. CASE IsTerminal(memory')
  <2>1. PICK status : status = JobStatusOf(memory'.state.phase)
    OBVIOUS
  <2>2. status \in JobEnded
    BY <2>1 DEF JobStatusOf, JobEnded
  <2>3. Settle(status, "")
    BY <1>2, <2>1 DEF GoOn, SettleTerminal
  <2>4. session' \in {"live", "gone"}
    OBVIOUS
  <2>5. WorkflowInv' /\ job'.status = status
    BY <1>1, <2>2, <2>3, <2>4, GateJobEnds
  <2>6. EndMatches(status, memory')
    BY <1>2, <2>1 DEF EndMatches, JobStatusOf, IsTerminal, TerminalPhase
  <2>7. JobEnds
    BY <2>5, <2>6 DEF JobEnds
  <2> QED
    BY <2>5, <2>7 DEF Kept
<1>3. CASE ~IsTerminal(memory')
  <2>1. job' = [job EXCEPT !.status = "Running"] /\ worker' = Loop
    BY <1>3 DEF GoOn
  <2>2. /\ DOMAIN job' = JobFields /\ job'.cancel = job.cancel
        /\ job'.status = "Running"
    BY <2>1, Stands DEF JobFields
  <2>3. DOMAIN worker' = WorkerFields /\ worker'.pc = "loop"
    BY <2>1 DEF Loop, Worker, WorkerFields
  <2>4. ControlTyped'
    BY <1>1, <2>2, <2>3 DEF WorkflowInv, ControlTyped, Pc
  <2>5. WorkerKnows' /\ GateIsParked'
    BY <1>1, <2>2, <2>3 DEF WorkerKnows, GateIsParked, Up
  <2>6. PurgedJobIsTold' /\ StartKnows'
    BY <1>1 DEF PurgedJobIsTold, StartKnows, Up
  <2>7. JobEnds
    BY <2>2, JobGoesOn DEF JobEnded
  <2> QED
    BY <2>4, <2>5, <2>6, <2>7 DEF WorkflowInv, Kept
<1> QED
  BY <1>2, <1>3

LEMMA DecisionKeeps ==
    ASSUME WorkflowInv, Approve \/ Revise
    PROVE  Kept
<1>1. PICK g, onTime : g = memory.state.at /\ onTime = OnTime
  OBVIOUS
<1>2. /\ parked /\ session = "live" /\ UNCHANGED <<definition, server, session>>
      /\ \/ Mutate(AcceptPlan(definition, memory, memory.state.at, OnTime), GoOn, PutBack)
         \/ Mutate(RevisePlan(definition, memory, memory.state.at, OnTime), GoOn, PutBack)
  BY DEF Approve, Revise, CanDecide, held
<1>3. PICK results :
          /\ \/ results = AcceptPlan(definition, memory, g, onTime)
             \/ results = RevisePlan(definition, memory, g, onTime)
          /\ Mutate(results, GoOn, PutBack)
  BY <1>1, <1>2
<1>4. \A next \in results :
          /\ RecordIsCoherent(definition, next) /\ Progresses(definition, memory, next)
          /\ next.state.phase \in {"Ready", "Completed", "EscalatedAttemptLimit"}
  <2>1. CASE results = AcceptPlan(definition, memory, g, onTime)
    BY <2>1, Stands, PlanIsAccepted
  <2>2. CASE results = RevisePlan(definition, memory, g, onTime)
    BY <2>2, Stands, PlanIsRevised
  <2> QED
    BY <1>3, <2>1, <2>2
<1>5. /\ Written(results)
      /\ \/ memory' \in results /\ GoOn
         \/ memory' = memory /\ PutBack
  BY <1>3 DEF Mutate, Written
<1>6. RecordsAreCoherent' /\ Progresses(definition, memory, memory')
  BY <1>2, <1>4, <1>5, Stands, RecordsWritten
<1>7. CASE memory' \in results /\ GoOn
  BY <1>2, <1>4, <1>6, <1>7, GateGoesOn
<1>8. CASE memory' = memory /\ PutBack
  BY <1>2, <1>6, <1>8, GateIsPutBack DEF PutBack
<1> QED
  BY <1>5, <1>7, <1>8

(* The gate is dropped with its job.                                       *)
LEMMA GateIsDropped ==
    ASSUME WorkflowInv, parked, UNCHANGED <<definition, server>>,
           NEW results,
           \A next \in results :
               /\ RecordIsCoherent(definition, next)
               /\ Progresses(definition, memory, next)
               /\ EndMatches("Cancelled", next),
           Mutate(results, Settle("Cancelled", "") /\ parked' = FALSE, PutBack),
           session' = IF parked' THEN session ELSE session',
           session' \in {"live", "gone"}
    PROVE  Kept
<1>1. /\ Written(results)
      /\ \/ memory' \in results /\ Settle("Cancelled", "") /\ parked' = FALSE
         \/ memory' = memory /\ PutBack
  BY DEF Mutate, Written
<1>2. RecordsAreCoherent' /\ Progresses(definition, memory, memory')
  BY <1>1, Stands, RecordsWritten
<1>3. CASE memory' \in results /\ Settle("Cancelled", "") /\ parked' = FALSE
  <2>1. WorkflowInv' /\ job'.status = "Cancelled"
    BY <1>2, <1>3, GateJobEnds DEF JobEnded
  <2>2. JobEnds
    BY <1>3, <2>1 DEF JobEnds
  <2> QED
    BY <1>2, <2>1, <2>2 DEF Kept
<1>4. CASE memory' = memory /\ PutBack
  BY <1>2, <1>4, GateIsPutBack DEF PutBack
<1> QED
  BY <1>1, <1>3, <1>4

LEMMA DiscardGateKeeps ==
    ASSUME WorkflowInv, DiscardGate
    PROVE  Kept
<1>1. PICK g, onTime : g = memory.state.at /\ onTime = OnTime
  OBVIOUS
<1>2. /\ parked /\ UNCHANGED <<definition, server, session>>
      /\ Mutate(CancelGate(memory, memory.state.at, OnTime),
                Settle("Cancelled", "") /\ parked' = FALSE, PutBack)
  BY DEF DiscardGate, CanDecide, held
<1>3. PICK results :
          /\ results = CancelGate(memory, g, onTime)
          /\ Mutate(results, Settle("Cancelled", "") /\ parked' = FALSE, PutBack)
  BY <1>1, <1>2
<1>4. \A next \in results :
          /\ RecordIsCoherent(definition, next) /\ Progresses(definition, memory, next)
          /\ next.state.phase = "Cancelled"
  BY <1>3, Stands, GateIsCancelled
<1>5. \A next \in results : EndMatches("Cancelled", next)
  BY <1>4 DEF EndMatches
<1>6. session' \in {"live", "gone"}
  BY <1>2, Stands
<1> QED
  BY <1>2, <1>3, <1>4, <1>5, <1>6, GateIsDropped

LEMMA Interrupted ==
    ASSUME WorkflowInv, NEW next \in Interrupt(memory, OnTime)
    PROVE  /\ RecordIsCoherent(definition, next) /\ Progresses(definition, memory, next)
           /\ next.state.phase = "Interrupted"
           /\ EndMatches("Cancelled", next)
<1>1. PICK onTime : onTime = OnTime
  OBVIOUS
<1>2. onTime \in BOOLEAN /\ next \in Interrupt(memory, onTime)
  BY <1>1 DEF OnTime
<1>3. /\ RecordIsCoherent(definition, next) /\ Progresses(definition, memory, next)
      /\ next.state.phase = "Interrupted"
  BY <1>2, Stands, RunIsInterrupted
<1> QED
  BY <1>3 DEF EndMatches

LEMMA InterruptStaleGateKeeps ==
    ASSUME WorkflowInv, InterruptStaleGate
    PROVE  Kept
<1>1. /\ parked /\ UNCHANGED <<definition, server, session>>
      /\ Mutate(Interrupt(memory, OnTime),
                Settle("Cancelled", "") /\ parked' = FALSE, PutBack)
  BY DEF InterruptStaleGate, CanDecide, held
<1>2. PICK results :
          /\ results = Interrupt(memory, OnTime)
          /\ Mutate(results, Settle("Cancelled", "") /\ parked' = FALSE, PutBack)
  BY <1>1
<1>3. \A next \in results :
          /\ RecordIsCoherent(definition, next) /\ Progresses(definition, memory, next)
          /\ EndMatches("Cancelled", next)
  BY <1>2, Interrupted
<1>4. session' \in {"live", "gone"}
  BY <1>1, Stands
<1> QED
  BY <1>1, <1>2, <1>3, <1>4, GateIsDropped

LEMMA ContinuationEnds ==
    ASSUME WorkflowInv, parked, UNCHANGED <<definition, server>>, EndContinuation,
           session' = IF parked' THEN session ELSE session',
           session' \in {"live", "gone"}
    PROVE  Kept
<1>1. PICK results :
          /\ results = IF RecoverableGate(memory) THEN {memory}
                       ELSE Interrupt(memory, OnTime)
          /\ Mutate(results, Settle("Cancelled", "") /\ parked' = FALSE, PutBack)
  BY DEF EndContinuation
<1>2. \A next \in results :
          /\ RecordIsCoherent(definition, next) /\ Progresses(definition, memory, next)
          /\ EndMatches("Cancelled", next)
  <2>1. CASE RecoverableGate(memory)
    BY <1>1, <2>1, Stands, ProgressIsReflexive DEF EndMatches
  <2>2. CASE ~RecoverableGate(memory)
    BY <1>1, <2>2, Interrupted
  <2> QED
    BY <2>1, <2>2
<1> QED
  BY <1>1, <1>2, GateIsDropped

LEMMA ForgetProviderKeeps ==
    ASSUME WorkflowInv, ForgetProvider
    PROVE  Kept
<1>1. parked /\ UNCHANGED <<definition, server, session>> /\ EndContinuation
  BY DEF ForgetProvider, held
<1>2. session' \in {"live", "gone"}
  BY <1>1, Stands
<1> QED
  BY <1>1, <1>2, ContinuationEnds

LEMMA PurgeSessionKeeps ==
    ASSUME WorkflowInv, PurgeSession
    PROVE  Kept
<1>1. Up /\ UNCHANGED <<definition, server>>
  BY DEF PurgeSession
<1>2. CASE parked
  <2>1. EndContinuation /\ session' = IF parked' THEN session ELSE "gone"
    BY <1>2 DEF PurgeSession
  <2>2. session' \in {"live", "gone"}
    BY <2>1, Stands
  <2> QED
    BY <1>1, <1>2, <2>1, <2>2, ContinuationEnds
<1>3. CASE ~parked
  <2>1. /\ session' = "gone" /\ job' = [job EXCEPT !.cancel = TRUE]
        /\ UNCHANGED <<memory, disk, parked, worker>>
    BY <1>3 DEF PurgeSession, NoMutation
  <2>2. /\ job'.status = job.status /\ job'.cancel = TRUE /\ DOMAIN job' = JobFields
    BY <2>1, Stands DEF JobFields
  <2>3. RecordsAreCoherent' /\ Progresses(definition, memory, memory')
    BY <1>1, <2>1, Stands, RecordsUntouched
  <2>4. ControlTyped'
    BY <1>1, <2>1, <2>2 DEF WorkflowInv, ControlTyped
  <2>5. WorkerKnows'
    BY <1>1, <2>1, <2>2 DEF WorkflowInv, WorkerKnows, Up
  <2>6. GateIsParked' /\ PurgedJobIsTold' /\ StartKnows'
    BY <1>1, <1>3, <2>1, <2>2 DEF GateIsParked, PurgedJobIsTold, StartKnows, Up
  <2>7. JobEnds
    BY <2>2 DEF JobEnds, JobActive, JobEnded
  <2> QED
    BY <2>3, <2>4, <2>5, <2>6, <2>7 DEF WorkflowInv, Kept
<1> QED
  BY <1>2, <1>3

(* No job holds the conversation: no task, and nothing parked.             *)
LEMMA FreeConversation ==
    ASSUME WorkflowInv, ConversationFree
    PROVE  Up /\ worker.pc = "idle" /\ ~parked
  BY DEF WorkflowInv, ConversationFree, WorkerKnows, GateIsParked, JobActive

LEMMA RestoreGateKeeps ==
    ASSUME WorkflowInv, RestoreGate
    PROVE  Kept
<1>1. /\ ConversationFree /\ RecoverableGate(memory)
      /\ job' = NewJob("AwaitingDecision") /\ parked' = TRUE /\ session' = "live"
      /\ UNCHANGED <<definition, server, worker, memory, disk>>
  BY DEF RestoreGate, NoMutation
<1>2. Up /\ worker.pc = "idle" /\ memory.state.phase = "AwaitingHuman"
  BY <1>1, FreeConversation DEF RecoverableGate
<1>3. /\ DOMAIN job' = JobFields /\ job'.cancel = FALSE
      /\ job'.status = "AwaitingDecision"
  BY <1>1 DEF NewJob, NoJob, JobFields
<1>4. RecordsAreCoherent' /\ Progresses(definition, memory, memory')
  BY <1>1, Stands, RecordsUntouched
<1>5. ControlTyped'
  BY <1>1, <1>3 DEF WorkflowInv, ControlTyped
<1>6. WorkerKnows' /\ GateIsParked' /\ PurgedJobIsTold' /\ StartKnows'
  BY <1>1, <1>2, <1>3 DEF WorkerKnows, GateIsParked, PurgedJobIsTold, StartKnows, Up
<1>7. JobEnds
  BY <1>3, JobGoesOn DEF JobEnded
<1> QED
  BY <1>4, <1>5, <1>6, <1>7 DEF WorkflowInv, Kept

LEMMA ContinuePausedKeeps ==
    ASSUME WorkflowInv, ContinuePaused
    PROVE  Kept
<1> DEFINE going == job' = NewJob("Running") /\ worker' = Worker("resume", 0, NoOutcome)
           failed == job' = [NewJob("Failed") EXCEPT !.why = "store"] /\ worker' = Idle
<1>1. PICK a, onTime : a = checkpoint /\ onTime = OnTime
  OBVIOUS
<1>2. /\ ConversationFree /\ session' = "live"
      /\ UNCHANGED <<definition, server, parked>>
      /\ Mutate(ResumePaused(memory, checkpoint, OnTime), going, failed)
  BY DEF ContinuePaused
<1>3. Up /\ worker.pc = "idle" /\ ~parked
  BY <1>2, FreeConversation
<1>4. PICK results : results = ResumePaused(memory, a, onTime)
  OBVIOUS
<1>5. \A next \in results :
          /\ RecordIsCoherent(definition, next) /\ Progresses(definition, memory, next)
          /\ next.state.phase = "Active" /\ next.state.at = a
          /\ next.facts[a].cleanup = "Pending"
  BY <1>4, Stands, AttemptResumes
<1>6. /\ Written(results)
      /\ \/ memory' \in results /\ going
         \/ failed
  <2>1. results = ResumePaused(memory, checkpoint, OnTime)
    BY <1>1, <1>4
  <2> HIDE DEF going, failed
  <2> QED
    BY <1>2, <2>1 DEF Mutate, Written
<1>7. RecordsAreCoherent' /\ Progresses(definition, memory, memory')
  BY <1>2, <1>5, <1>6, Stands, RecordsWritten
<1>8. GateIsParked' /\ StartKnows'
  BY <1>2, <1>3 DEF GateIsParked, StartKnows, Up
<1>9. CASE memory' \in results /\ going
  <2>1. /\ DOMAIN job' = JobFields /\ job'.cancel = FALSE /\ job'.status = "Running"
        /\ DOMAIN worker' = WorkerFields /\ worker'.pc = "resume"
    BY <1>9 DEF NewJob, NoJob, JobFields, Worker, WorkerFields
  <2>2. ControlTyped'
    BY <1>2, <1>3, <2>1 DEF WorkflowInv, ControlTyped, Pc
  <2>3. /\ memory'.state.phase = "Active"
        /\ memory'.facts[memory'.state.at].cleanup = "Pending"
    BY <1>5, <1>9
  <2>4. WorkerKnows' /\ PurgedJobIsTold'
    BY <1>2, <1>3, <2>1, <2>3 DEF WorkerKnows, PurgedJobIsTold, Up
  <2>5. JobEnds
    BY <2>1, JobGoesOn DEF JobEnded
  <2> QED
    BY <1>7, <1>8, <2>2, <2>4, <2>5 DEF WorkflowInv, Kept
<1>10. CASE failed
  <2>1. /\ DOMAIN job' = JobFields /\ job'.cancel = FALSE /\ job'.status = "Failed"
        /\ job'.why = "store"
        /\ DOMAIN worker' = WorkerFields /\ worker'.pc = "idle"
    BY <1>10 DEF NewJob, NoJob, JobFields, Idle, Worker, WorkerFields
  <2>2. ControlTyped'
    BY <1>2, <1>3, <2>1 DEF WorkflowInv, ControlTyped, Pc
  <2>3. WorkerKnows' /\ PurgedJobIsTold'
    BY <1>2, <2>1 DEF WorkerKnows, PurgedJobIsTold, JobActive
  <2>4. JobEnds
    BY <2>1, JobGoesOn
  <2> QED
    BY <1>7, <1>8, <2>2, <2>3, <2>4 DEF WorkflowInv, Kept
<1> QED
  BY <1>6, <1>9, <1>10

LEMMA EndPauseKeeps ==
    ASSUME WorkflowInv, EndPause
    PROVE  Kept
<1>1. /\ ConversationFree
      /\ UNCHANGED <<definition, session, server, parked, worker, job>>
      /\ Mutate(IF IsTerminal(memory) THEN {memory}
                ELSE IF memory.state.phase = "Paused" THEN Cancel(memory, OnTime) ELSE {},
                checkpoint' \in {0, checkpoint}, UNCHANGED checkpoint)
  BY DEF EndPause
<1>2. Up /\ worker.pc = "idle" /\ ~parked
  BY <1>1, FreeConversation
<1>3. PICK results :
          results = IF IsTerminal(memory) THEN {memory}
                    ELSE IF memory.state.phase = "Paused" THEN Cancel(memory, OnTime)
                    ELSE {}
  OBVIOUS
<1>4. OnTime \in BOOLEAN
  BY DEF OnTime
<1>5. \A next \in results :
          RecordIsCoherent(definition, next) /\ Progresses(definition, memory, next)
  BY <1>3, <1>4, Stands, ProgressIsReflexive, RunIsCancelled
<1>6. Written(results)
  BY <1>1, <1>3 DEF Mutate, Written
<1>7. RecordsAreCoherent' /\ Progresses(definition, memory, memory')
  BY <1>1, <1>5, <1>6, Stands, RecordsWritten
<1>8. ControlTyped'
  BY <1>1 DEF WorkflowInv, ControlTyped
<1>9. WorkerKnows' /\ GateIsParked' /\ StartKnows'
  BY <1>1, <1>2 DEF WorkerKnows, GateIsParked, StartKnows, Up
<1>10. PurgedJobIsTold'
  BY <1>1 DEF WorkflowInv, PurgedJobIsTold
<1> QED
  BY <1>1, <1>7, <1>8, <1>9, <1>10, JobGoesOn DEF WorkflowInv, Kept

-----------------------------------------------------------------------------
(* Crash and start.                                                        *)
LEMMA CrashKeeps ==
    ASSUME WorkflowInv, Crash
    PROVE  Kept
<1>1. /\ server' = "down" /\ memory' = disk /\ disk' = disk /\ definition' = definition
      /\ worker' = Idle /\ job' = NoJob /\ parked' = FALSE /\ session' = "gone"
  BY DEF Crash
<1>2. /\ RecordIsCoherent(definition, disk) /\ Progresses(definition, memory, disk)
      /\ Progresses(definition, disk, disk)
  BY Stands, ProgressIsReflexive DEF RecordsAreCoherent, FileIsNear
<1>3. RecordsAreCoherent'
  BY <1>1, <1>2 DEF RecordsAreCoherent, FileIsNear
<1>4. /\ DOMAIN job' = JobFields /\ job'.cancel = FALSE /\ job'.status = "None"
      /\ DOMAIN worker' = WorkerFields /\ worker'.pc = "idle"
  BY <1>1 DEF NoJob, JobFields, Idle, Worker, WorkerFields
<1>5. ControlTyped'
  BY <1>1, <1>4 DEF WorkflowInv, ControlTyped, Pc
<1>6. WorkerKnows' /\ GateIsParked' /\ PurgedJobIsTold' /\ StartKnows'
  BY <1>1, <1>4 DEF WorkerKnows, GateIsParked, PurgedJobIsTold, StartKnows, JobActive
<1>7. JobEnds
  BY <1>4, JobGoesOn DEF JobEnded
<1> QED
  BY <1>1, <1>2, <1>3, <1>5, <1>6, <1>7 DEF WorkflowInv, Kept

(* While the server starts nothing but the record moves.                   *)
LEMMA StartMoves ==
    ASSUME WorkflowInv, ~Up, UNCHANGED <<definition, worker, job, parked, session>>,
           RecordsAreCoherent', Progresses(definition, memory, memory'),
           server' = "starting" =>
               /\ memory'.state.phase # "Active"
               /\ memory'.state.phase = "AwaitingHuman" => RecoverableGate(memory')
    PROVE  Kept
<1>1. job = NoJob /\ ~parked /\ worker.pc = "idle"
  BY DEF WorkflowInv, StartKnows
<1>2. ControlTyped'
  BY DEF WorkflowInv, ControlTyped
<1>3. WorkerKnows' /\ GateIsParked'
  BY <1>1 DEF WorkerKnows, GateIsParked
<1>4. PurgedJobIsTold' /\ StartKnows'
  BY <1>1 DEF WorkflowInv, PurgedJobIsTold, StartKnows
<1> QED
  BY <1>2, <1>3, <1>4, JobGoesOn DEF WorkflowInv, Kept

LEMMA OpenStoreKeeps ==
    ASSUME WorkflowInv, OpenStore
    PROVE  Kept
<1>1. /\ ~Up /\ server' # "starting" /\ memory' = disk
      /\ UNCHANGED <<definition, worker, job, parked, session, disk>>
  BY DEF OpenStore, Up, held
<1>2. /\ RecordIsCoherent(definition, disk) /\ Progresses(definition, memory, disk)
      /\ Progresses(definition, disk, disk)
  BY Stands, ProgressIsReflexive DEF RecordsAreCoherent, FileIsNear
<1>3. RecordsAreCoherent' /\ Progresses(definition, memory, memory')
  BY <1>1, <1>2 DEF RecordsAreCoherent, FileIsNear
<1> QED
  BY <1>1, <1>3, StartMoves

LEMMA InterruptActiveKeeps ==
    ASSUME WorkflowInv, InterruptActive
    PROVE  Kept
<1>1. ~Up /\ UNCHANGED <<definition, worker, job, parked, session>>
  BY DEF InterruptActive, Up, held
<1>2. CASE IsActive(memory) /\ ~RecoverableGate(memory)
  <2>1. PICK results : results = Interrupt(memory, OnTime)
    OBVIOUS
  <2>2. /\ Written(results)
        /\ \/ memory' \in results
           \/ server' = "down"
    BY <1>2, <2>1 DEF InterruptActive, Mutate, Written
  <2>3. \A next \in results :
            /\ RecordIsCoherent(definition, next) /\ Progresses(definition, memory, next)
            /\ next.state.phase = "Interrupted"
    BY <2>1, Interrupted
  <2>4. RecordsAreCoherent' /\ Progresses(definition, memory, memory')
    BY <1>1, <2>2, <2>3, Stands, RecordsWritten
  <2>5. server' = "starting" => memory'.state.phase = "Interrupted"
    BY <2>2, <2>3
  <2> QED
    BY <1>1, <2>4, <2>5, StartMoves
<1>3. CASE ~(IsActive(memory) /\ ~RecoverableGate(memory))
  <2>1. memory' = memory /\ disk' = disk
    BY <1>3 DEF InterruptActive, NoMutation
  <2>2. RecordsAreCoherent' /\ Progresses(definition, memory, memory')
    BY <1>1, <2>1, Stands, RecordsUntouched
  <2>3. /\ memory.state.phase # "Active"
        /\ memory.state.phase = "AwaitingHuman" => RecoverableGate(memory)
    BY <1>3 DEF IsActive, RecoverableGate
  <2> QED
    BY <1>1, <2>1, <2>2, <2>3, StartMoves
<1> QED
  BY <1>2, <1>3

(* A gate whose attempts are all cleaned up stays one.                     *)
LEMMA RecoveryKeepsGates ==
    ASSUME NEW run, NEW a \in PendingCleanup(run)
    PROVE  ~RecoverableGate(run)
  BY DEF PendingCleanup, RecoverableGate

LEMMA RecordRecoveryKeeps ==
    ASSUME WorkflowInv, RecordRecovery
    PROVE  Kept
<1>1. /\ server = "starting"
      /\ UNCHANGED <<definition, worker, job, parked, session>>
  BY DEF RecordRecovery, held
<1>2. /\ memory.state.phase # "Active"
      /\ memory.state.phase = "AwaitingHuman" => RecoverableGate(memory)
      /\ job = NoJob /\ ~parked /\ worker.pc = "idle" /\ ~Up
  BY <1>1 DEF WorkflowInv, StartKnows, Up
<1>3. CASE PendingCleanup(memory) = {}
  <2>1. server' = "up" /\ memory' = memory /\ disk' = disk
    BY <1>3 DEF RecordRecovery, NoMutation
  <2>2. RecordsAreCoherent' /\ Progresses(definition, memory, memory')
    BY <1>1, <2>1, Stands, RecordsUntouched
  <2>3. server' # "starting"
    BY <2>1
  <2> QED
    BY <1>1, <1>2, <2>2, <2>3, StartMoves
<1>4. CASE PendingCleanup(memory) # {}
  <2>1. PICK a \in PendingCleanup(memory) : \E cleanup \in {"Complete", Orphaned} :
            Mutate(RecordCleanup(memory, a, cleanup), UNCHANGED server, server' = "down")
    BY <1>4 DEF RecordRecovery
  <2>2. PICK cleanup \in {"Complete", Orphaned} :
            Mutate(RecordCleanup(memory, a, cleanup), UNCHANGED server, server' = "down")
    BY <2>1
  <2>3. PICK results : results = RecordCleanup(memory, a, cleanup)
    OBVIOUS
  <2>4. Written(results) /\ (memory' \in results \/ server' = "down")
    BY <2>2, <2>3 DEF Mutate, Written
  <2>5. a \in Attempts(memory)
    BY DEF PendingCleanup
  <2>6. \A next \in results :
            /\ RecordIsCoherent(definition, next) /\ Progresses(definition, memory, next)
            /\ next.state = memory.state
    BY <2>3, <2>5, Stands, CleanupIsRecorded
  <2>7. RecordsAreCoherent' /\ Progresses(definition, memory, memory')
    BY <1>1, <2>4, <2>6, Stands, RecordsWritten
  <2>8. memory.state.phase # "AwaitingHuman"
    BY <1>2, <2>5, RecoveryKeepsGates
  <2>9. server' = "starting" => memory'.state.phase \notin {"Active", "AwaitingHuman"}
    BY <1>2, <2>4, <2>6, <2>8
  <2> QED
    BY <1>1, <1>2, <2>7, <2>9, StartMoves
<1> QED
  BY <1>3, <1>4

LEMMA StutterKeeps ==
    ASSUME WorkflowInv, SetClock \/ UNCHANGED vars
    PROVE  Kept
<1>1. UNCHANGED <<definition, memory, disk, server, worker, job, parked, session>>
  BY DEF SetClock, vars
<1>2. RecordsAreCoherent' /\ Progresses(definition, memory, memory')
  BY <1>1, Stands, RecordsUntouched
<1>3. ControlTyped' /\ WorkerKnows' /\ GateIsParked'
  BY <1>1 DEF WorkflowInv, ControlTyped, WorkerKnows, GateIsParked, Up
<1>4. PurgedJobIsTold' /\ StartKnows'
  BY <1>1 DEF WorkflowInv, PurgedJobIsTold, StartKnows, Up
<1> QED
  BY <1>1, <1>2, <1>3, <1>4, JobGoesOn DEF WorkflowInv, Kept

-----------------------------------------------------------------------------
LEMMA WorkflowInvStarts ==
    ASSUME Init
    PROVE  WorkflowInv
<1>1. /\ definition \in Definitions /\ memory = Create /\ disk = Create
      /\ server = "up" /\ worker = Loop /\ job = NewJob("Running")
      /\ parked = FALSE /\ session = "live"
  BY DEF Init
<1>2. /\ DOMAIN job = JobFields /\ job.cancel = FALSE /\ job.status = "Running"
      /\ DOMAIN worker = WorkerFields /\ worker.pc = "loop"
  BY <1>1 DEF NewJob, NoJob, JobFields, Loop, Worker, WorkerFields
<1>3. /\ DOMAIN memory = RunFields /\ memory.facts = <<>>
      /\ memory.state.phase = "Ready" /\ memory.state.step = 1
  BY <1>1 DEF Create, RunFields, Ready, At
<1>4. /\ IsSequence(memory.facts) /\ Len(memory.facts) = 0
      /\ DOMAIN memory.facts = {}
  <2>1. <<>> \in Seq({}) /\ Len(<<>>) = 0
    OBVIOUS
  <2>2. IsSequence(<<>>)
    BY <2>1, SequenceOfOwn
  <2> QED
    BY <1>3, <2>1, <2>2, SequenceLength
<1>5. 1 \in Steps(definition)
  BY <1>1, DefinitionIsValid
<1>6. StateIsCoherent(definition, memory)
  BY <1>3, <1>5 DEF StateIsCoherent, OpenPhase, TerminalPhase, Busy, AttemptOpen
<1>7. RecordIsCoherent(definition, memory)
  BY <1>3, <1>4, <1>6 DEF RecordIsCoherent
<1>8. RecordsAreCoherent
  BY <1>1, <1>7, ProgressIsReflexive DEF RecordsAreCoherent, FileIsNear
<1>9. ControlTyped
  BY <1>1, <1>2 DEF ControlTyped, Pc
<1>10. WorkerKnows /\ GateIsParked
  BY <1>1, <1>2, <1>3 DEF WorkerKnows, GateIsParked, Up
<1>11. PurgedJobIsTold /\ StartKnows
  BY <1>1 DEF PurgedJobIsTold, StartKnows, Up
<1> QED
  BY <1>8, <1>9, <1>10, <1>11 DEF WorkflowInv

LEMMA StepKeeps ==
    ASSUME WorkflowInv, [Next]_vars
    PROVE  Kept
<1>1. CASE WorkerStep
  BY <1>1, SettleEndedRunKeeps, StopAtTopKeeps, RefuseAtTopKeeps, OpenGateKeeps,
     ParkKeeps, RefuseCapabilitiesKeeps, StartKeeps, RunStepKeeps, PersistCleanupKeeps,
     PublishSuccessKeeps, PersistFailKeeps, PersistCancelKeeps, PauseRunKeeps,
     PauseConversationKeeps, ResumeWorkKeeps DEF WorkerStep
<1>2. CASE Request
  BY <1>2, StopRequestKeeps, DecisionKeeps, DiscardGateKeeps, InterruptStaleGateKeeps,
     ForgetProviderKeeps, PurgeSessionKeeps, RestoreGateKeeps, ContinuePausedKeeps,
     EndPauseKeeps DEF Request
<1>3. CASE Crash \/ OpenStore \/ InterruptActive \/ RecordRecovery
  BY <1>3, CrashKeeps, OpenStoreKeeps, InterruptActiveKeeps, RecordRecoveryKeeps
<1>4. CASE SetClock \/ UNCHANGED vars
  BY <1>4, StutterKeeps
<1> QED
  BY <1>1, <1>2, <1>3, <1>4 DEF Next

(* The invariant the theorems below rest on.                               *)
THEOREM WorkflowInvariance == Spec => []WorkflowInv
<1>1. Init => WorkflowInv
  BY WorkflowInvStarts
<1>2. WorkflowInv /\ [Next]_vars => WorkflowInv'
  BY StepKeeps DEF Kept
<1> QED
  BY <1>1, <1>2, PTL DEF Spec

(* A job that ends tells what became of its run (settle_terminal_job,      *)
(* persist_fail, persist_cancel, discard): Completed only for a run that   *)
(* is completed or paused, Cancelled only for one that was cancelled,      *)
(* interrupted or left at a gate that can be restored, Failed only for one *)
(* that failed, was interrupted or escalated.                              *)
THEOREM JobsEndAsTheirRun == Spec => JobEndsAsItsRun
<1>1. WorkflowInv /\ [Next]_vars =>
          [/\ job.status \in JobActive
           /\ job'.status \in JobEnded
           /\ job'.why = ""
           => EndMatches(job'.status, memory')]_vars
  BY StepKeeps DEF Kept, JobEnds
<1> QED
  BY <1>1, WorkflowInvariance, PTL DEF Spec, JobEndsAsItsRun

-----------------------------------------------------------------------------
(* The step of WorkflowProgress that a step of the program makes.          *)
ReturnsOf(d, run) == [s \in Steps(d) |-> Returns(run, s)]

LEMMA ProgressStarts ==
    ASSUME Init
    PROVE  Progress!Init
<1>1. /\ definition \in Definitions /\ memory = Create
  BY DEF Init
<1>2. /\ memory.state.phase = "Ready" /\ memory.state.step = 1 /\ memory.facts = <<>>
  BY <1>1 DEF Create, Ready, At
<1>3. Place(definition, memory) = 1 /\ ~Busy(memory)
  BY <1>2 DEF Place, Busy, IsTerminal, TerminalPhase
<1>4. \A s : SentBack(memory, s) = {}
  BY <1>2 DEF SentBack
<1>5. \A s : Cardinality(SentBack(memory, s)) = 0
  BY <1>4, FS_EmptySet
<1>6. DOMAIN Plan(definition) = Steps(definition)
  BY DEF Plan
<1> QED
  BY <1>3, <1>5, <1>6 DEF Progress!Init, Busy

LEMMA ProgressSteps ==
    ASSUME WorkflowInv, definition' = definition,
           Progresses(definition, memory, memory')
    PROVE  [Progress!Next]_(Progress!vars)
<1> DEFINE p == Place(definition, memory)
           r == ReturnsOf(definition, memory)
           q == ReturnsOf(definition, memory')
<1>1. DOMAIN Plan(definition) = Steps(definition) /\ Plan(definition)' = Plan(definition)
  BY DEF Plan, Steps
<1>2. (\A s \in Steps(definition) : Returns(memory', s) = Returns(memory, s)) => q = r
  BY DEF ReturnsOf
<1>3. CASE Stays(definition, memory, memory') /\ Busy(memory') = Busy(memory)
  <2>1. Place(definition, memory') = p /\ q = r
    BY <1>2, <1>3 DEF Stays
  <2> QED
    BY <1>1, <1>3, <2>1 DEF Progress!vars, ReturnsOf, Returns
<1>4. ASSUME p \in Steps(definition), Stays(definition, memory, memory'),
             ~Busy(memory), Busy(memory')
      PROVE  Progress!Begin
  <2>1. Place(definition, memory') = p /\ q = r
    BY <1>2, <1>4 DEF Stays
  <2> QED
    BY <1>1, <1>4, <2>1 DEF Progress!Begin, Progress!Running, ReturnsOf, Returns
<1>5. ASSUME p \in Steps(definition), Busy(memory), ~Busy(memory'),
             Place(definition, memory') = p + 1,
             \A s \in Steps(definition) : Returns(memory', s) = Returns(memory, s)
      PROVE  Progress!Advance
  <2>1. q = r
    BY <1>2, <1>5
  <2> QED
    BY <1>1, <1>5, <2>1 DEF Progress!Advance, Progress!Running, ReturnsOf, Returns
<1>6. ASSUME p \in Steps(definition), Busy(memory), ~Busy(memory'),
             Returns(memory, p) + 1 < Plan(definition)[p].limit,
             Place(definition, memory') = Plan(definition)[p].target,
             \A s \in Steps(definition) :
                 Returns(memory', s) = Returns(memory, s) + (IF s = p THEN 1 ELSE 0)
      PROVE  Progress!SendBack
  <2>1. \A s : Returns(memory, s) \in Nat
    <3>1. IsSequence(memory.facts)
      BY DEF WorkflowInv, RecordsAreCoherent, RecordIsCoherent
    <3> QED
      BY <3>1, ReturnsAreFinite
  <2>2. q = [r EXCEPT ![p] = @ + 1]
    <3>1. \A s \in Steps(definition) : q[s] = IF s = p THEN r[p] + 1 ELSE r[s]
      BY <1>6, <2>1 DEF ReturnsOf
    <3> QED
      BY <3>1 DEF ReturnsOf
  <2>3. r[p] = Returns(memory, p)
    BY <1>6 DEF ReturnsOf
  <2> QED
    BY <1>1, <1>6, <2>2, <2>3
       DEF Progress!SendBack, Progress!Running, ReturnsOf, Returns
<1>7. ASSUME p \in Steps(definition), ~Busy(memory'), Place(definition, memory') = 0,
             \A s \in Steps(definition) : Returns(memory', s) = Returns(memory, s)
      PROVE  Progress!Stop
  <2>1. q = r
    BY <1>2, <1>7
  <2> QED
    BY <1>1, <1>7, <2>1
       DEF Progress!Stop, Progress!Running, Progress!Stopped, ReturnsOf, Returns
<1> QED
  BY <1>3, <1>4, <1>5, <1>6, <1>7 DEF Progresses, Moves, Stays, Progress!Next

LEMMA DefinitionIsPinned ==
    ASSUME [Next]_vars
    PROVE  definition' = definition
  BY DEF Next, WorkerStep, Request, vars, held, SettleEndedRun, StopAtTop, RefuseAtTop,
         FailToResolve, OpenGate, Park, RefuseCapabilities, Start, RunStep,
         PersistCleanup, PublishSuccess, PersistFail, PersistCancel, PauseRun,
         PauseConversation, ResumeWork, StopRequest, Approve, Revise, DiscardGate,
         InterruptStaleGate, ForgetProvider, PurgeSession, RestoreGate, ContinuePaused,
         EndPause, Crash, OpenStore, InterruptActive, RecordRecovery, SetClock

(* The executor implements WorkflowProgress: through failed writes,        *)
(* crashes, restarts and restorations the run goes through its steps in    *)
(* order, goes back only where a policy sends it and less often than its   *)
(* limit, and never moves once it stopped.                                 *)
THEOREM ExecutorImplementsProgress == Spec => ProgressIsKept
<1>1. Init => Progress!Init
  BY ProgressStarts
<1>2. WorkflowInv /\ [Next]_vars => [Progress!Next]_(Progress!vars)
  BY StepKeeps, DefinitionIsPinned, ProgressSteps DEF Kept
<1> QED
  BY <1>1, <1>2, WorkflowInvariance, PTL DEF Spec, ProgressIsKept, Progress!Spec

-----------------------------------------------------------------------------
(* The inputs of an open attempt stay resolved: while it is open no other  *)
(* fact changes, and an open attempt is nobody's input.                    *)
LEMMA MaxIsLast ==
    ASSUME NEW n \in Nat, NEW I \in SUBSET (1 .. n), I # {}
    PROVE  Max(I) \in I
<1> DEFINE less == {ss \in Nat \X Nat : ss[1] < ss[2]}
           gaps == {n - i : i \in I}
<1>1. IsWellFoundedOn(less, Nat)
  BY NatLessThanWellFounded DEF OpToRel
<1>2. \A x, y \in Nat : y < x => <<y, x>> \in less
  OBVIOUS
<1>3. gaps \subseteq Nat /\ gaps # {}
  <2>1. \A i \in I : n - i \in Nat
    OBVIOUS
  <2> QED
    BY <2>1
<1>4. \A i \in I : n - i \in gaps
  OBVIOUS
<1>5. \A k \in gaps : \E i \in I : k = n - i
  OBVIOUS
<1> HIDE DEF less, gaps
<1>6. PICK k \in gaps : \A y \in gaps : ~(<<y, k>> \in less)
  BY <1>1, <1>3, WFMin
<1>7. PICK i \in I : k = n - i
  BY <1>5
<1>8. \A j \in I : ~(n - j < n - i)
  BY <1>2, <1>3, <1>4, <1>6, <1>7
<1>9. \A j \in I : i >= j
  BY <1>8
<1> QED
  BY <1>9 DEF Max

(* Two facts that no input tells apart.                                    *)
SameFact(f, g) ==
    /\ f.fact = g.fact /\ f.step = g.step
    /\ f.fact = "attempt" =>
           /\ f.outputs = g.outputs
           /\ \/ f.state = g.state
              \/ f.state \in AttemptOpen /\ g.state \in AttemptOpen
    /\ f.fact = "gate" => f.state = g.state /\ f.candidate = g.candidate

SameView(t, u) ==
    /\ IsSequence(t) /\ IsSequence(u)
    /\ Len(t) <= Len(u)
    /\ \A i \in 1 .. Len(t) : SameFact(t[i], u[i])
    /\ \A i \in 1 .. Len(u) :
           i \notin 1 .. Len(t) => u[i].fact = "attempt" /\ u[i].state \in AttemptOpen

PlansOf(t) == {i \in 1 .. Len(t) : CompletedAttempt(t[i]) /\ "Plan" \in t[i].outputs}
CompletedAt(t, s) == {i \in 1 .. Len(t) : CompletedAttempt(t[i]) /\ t[i].step = s}
DecidedAt(t, s) ==
    {i \in 1 .. Len(t) : /\ t[i].fact = "gate" /\ t[i].step = s
                         /\ t[i].state # "AwaitingDecision"}
LastOf(I) == IF I # {} THEN Max(I) ELSE 0

LEMMA LatestPlanIsLast ==
    ASSUME NEW t
    PROVE  LatestPlan(t) = LET i == LastOf(PlansOf(t)) IN
                           IF i = 0 THEN NoReference ELSE Reference(i, "Plan")
  BY DEF LatestPlan, SelectLastInSeq, LastOf, PlansOf

LEMMA LatestOutputIsLast ==
    ASSUME NEW t, NEW s, NEW kind
    PROVE  LatestOutput(t, s, kind) =
           LET a == LastOf(CompletedAt(t, s))
               g == LastOf(DecidedAt(t, s))
           IN CASE a # 0 /\ kind \in t[a].outputs -> Reference(a, kind)
                [] a = 0 /\ g # 0 /\ t[g].state \in {"Approved", "RevisionRequested"}
                         -> Reference(g, "PlanDecision")
                [] OTHER -> NoReference
  BY DEF LatestOutput, SelectLastInSeq, LastOf, CompletedAt, DecidedAt
LEMMA SameFacts ==
    ASSUME NEW t, NEW u, SameView(t, u)
    PROVE  /\ Len(t) \in Nat /\ Len(u) \in Nat
           /\ \A i \in 1 .. Len(u) :
                  i \notin 1 .. Len(t) => /\ ~CompletedAttempt(u[i])
                                          /\ u[i].fact # "gate"
           /\ \A i \in 1 .. Len(t) :
                  /\ i \in 1 .. Len(u)
                  /\ CompletedAttempt(u[i]) <=> CompletedAttempt(t[i])
                  /\ u[i].fact = t[i].fact /\ u[i].step = t[i].step
                  /\ CompletedAttempt(t[i]) => u[i].outputs = t[i].outputs
                  /\ t[i].fact = "gate" =>
                         u[i].state = t[i].state /\ u[i].candidate = t[i].candidate
<1>1. Len(t) \in Nat /\ Len(u) \in Nat /\ Len(t) <= Len(u)
  BY SequenceLength DEF SameView
<1>2. \A i \in 1 .. Len(u) :
          i \notin 1 .. Len(t) => ~CompletedAttempt(u[i]) /\ u[i].fact # "gate"
  BY DEF SameView, CompletedAttempt, AttemptOpen
<1>3. ASSUME NEW i \in 1 .. Len(t)
      PROVE  /\ i \in 1 .. Len(u)
             /\ CompletedAttempt(u[i]) <=> CompletedAttempt(t[i])
             /\ u[i].fact = t[i].fact /\ u[i].step = t[i].step
             /\ CompletedAttempt(t[i]) => u[i].outputs = t[i].outputs
             /\ t[i].fact = "gate" =>
                    u[i].state = t[i].state /\ u[i].candidate = t[i].candidate
  <2>1. SameFact(t[i], u[i]) /\ i \in 1 .. Len(u)
    BY <1>1 DEF SameView
  <2> QED
    BY <2>1 DEF SameFact, CompletedAttempt, AttemptOpen
<1> QED
  BY <1>1, <1>2, <1>3

LEMMA SameSelections ==
    ASSUME NEW t, NEW u, SameView(t, u), NEW s
    PROVE  /\ PlansOf(u) = PlansOf(t)
           /\ CompletedAt(u, s) = CompletedAt(t, s)
           /\ DecidedAt(u, s) = DecidedAt(t, s)
<1>1. \A i : i \in PlansOf(u) <=> i \in PlansOf(t)
  BY SameFacts DEF PlansOf
<1>2. \A i : i \in CompletedAt(u, s) <=> i \in CompletedAt(t, s)
  BY SameFacts DEF CompletedAt
<1>3. \A i : i \in DecidedAt(u, s) <=> i \in DecidedAt(t, s)
  BY SameFacts DEF DecidedAt
<1> QED
  BY <1>1, <1>2, <1>3

LEMMA LastIsSelected ==
    ASSUME NEW t, IsSequence(t), NEW I, I \subseteq 1 .. Len(t), LastOf(I) # 0
    PROVE  LastOf(I) \in I
<1>1. Len(t) \in Nat
  BY SequenceLength
<1> QED
  BY <1>1, MaxIsLast DEF LastOf

LEMMA SameLatestOutput ==
    ASSUME NEW t, NEW u, SameView(t, u), NEW s, NEW kind
    PROVE  LatestOutput(u, s, kind) = LatestOutput(t, s, kind)
<1> DEFINE a == LastOf(CompletedAt(t, s))
           g == LastOf(DecidedAt(t, s))
<1>1. LastOf(CompletedAt(u, s)) = a /\ LastOf(DecidedAt(u, s)) = g
  BY SameSelections
<1>2. IsSequence(t)
  BY DEF SameView
<1>3. a # 0 => a \in CompletedAt(t, s)
  BY <1>2, LastIsSelected DEF CompletedAt
<1>4. g # 0 => g \in DecidedAt(t, s)
  BY <1>2, LastIsSelected DEF DecidedAt
<1>5. a # 0 => u[a].outputs = t[a].outputs
  BY <1>3, SameFacts DEF CompletedAt
<1>6. g # 0 => u[g].state = t[g].state
  BY <1>4, SameFacts DEF DecidedAt
<1>7. /\ LatestOutput(u, s, kind) =
             CASE a # 0 /\ kind \in u[a].outputs -> Reference(a, kind)
               [] a = 0 /\ g # 0 /\ u[g].state \in {"Approved", "RevisionRequested"}
                        -> Reference(g, "PlanDecision")
               [] OTHER -> NoReference
      /\ LatestOutput(t, s, kind) =
             CASE a # 0 /\ kind \in t[a].outputs -> Reference(a, kind)
               [] a = 0 /\ g # 0 /\ t[g].state \in {"Approved", "RevisionRequested"}
                        -> Reference(g, "PlanDecision")
               [] OTHER -> NoReference
  BY <1>1, LatestOutputIsLast
<1> HIDE DEF a, g
<1> QED
  BY <1>5, <1>6, <1>7

(* A decision that is an input was made at a gate, and is still there.     *)
LEMMA DecisionIsOfGate ==
    ASSUME NEW t, NEW u, SameView(t, u), NEW s, NEW kind,
           NEW ref, ref = LatestOutput(t, s, kind), ref.kind = "PlanDecision"
    PROVE  /\ ref.by \in 1 .. Len(t)
           /\ u[ref.by].state = "Approved" <=> t[ref.by].state = "Approved"
           /\ t[ref.by].state = "Approved" => u[ref.by].candidate = t[ref.by].candidate
<1> DEFINE a == LastOf(CompletedAt(t, s))
           g == LastOf(DecidedAt(t, s))
<1>1. IsSequence(t)
  BY DEF SameView
<1>2. a # 0 => a \in CompletedAt(t, s)
  BY <1>1, LastIsSelected DEF CompletedAt
<1>3. g # 0 => g \in DecidedAt(t, s)
  BY <1>1, LastIsSelected DEF DecidedAt
<1>4. LatestOutput(t, s, kind) =
          CASE a # 0 /\ kind \in t[a].outputs -> Reference(a, kind)
            [] a = 0 /\ g # 0 /\ t[g].state \in {"Approved", "RevisionRequested"}
                     -> Reference(g, "PlanDecision")
            [] OTHER -> NoReference
  BY LatestOutputIsLast
<1> HIDE DEF a, g
<1>5. NoReference.kind = "None"
  BY DEF NoReference, Reference
<1>6. CASE a # 0 /\ ref = Reference(a, kind)
  <2>1. ref.by = a /\ a \in 1 .. Len(t) /\ CompletedAttempt(t[a])
    BY <1>2, <1>6 DEF CompletedAt, Reference
  <2>2. CompletedAttempt(u[a])
    BY <2>1, SameFacts
  <2> QED
    BY <2>1, <2>2 DEF CompletedAttempt
<1>7. CASE g # 0 /\ ref = Reference(g, "PlanDecision")
  <2>1. ref.by = g /\ g \in 1 .. Len(t) /\ t[g].fact = "gate"
    BY <1>3, <1>7 DEF DecidedAt, Reference
  <2> QED
    BY <2>1, SameFacts
<1> QED
  BY <1>4, <1>5, <1>6, <1>7

-----------------------------------------------------------------------------
(* The inputs as the executor finds them.                                  *)
Source(run, i) ==
    IF i.source = RunCurrentPlan THEN CurrentPlan(run)
    ELSE LatestOutput(run.facts, i.source, i.kind)

Missing(d, run) == {i \in d[run.state.step].inputs : Source(run, i) = NoReference}

Found(d, run) ==
    IF \E i \in Missing(d, run) : ~MayMiss(d, run.facts, run.state.step, i)
    THEN Unresolved
    ELSE [i \in d[run.state.step].inputs \ Missing(d, run) |-> Source(run, i)]

LEMMA InputsAreFound ==
    ASSUME NEW d, NEW run
    PROVE  ExecutorInputs(d, run) =
           IF Found(d, run) # Unresolved /\ ~DecisionMatchesPlan(run.facts, Found(d, run))
           THEN Unresolved ELSE Found(d, run)
  BY DEF ExecutorInputs, ResolveWith, Found, Missing, Source

(* Two records of the same step whose inputs are the same.                 *)
SameInputs(run, next) ==
    /\ SameView(run.facts, next.facts)
    /\ next.state.step = run.state.step
    /\ CurrentPlan(next) = CurrentPlan(run)
    /\ CurrentPlan(run).kind # "PlanDecision"

LEMMA SameInputsAreFound ==
    ASSUME NEW d, NEW run, NEW next, SameInputs(run, next)
    PROVE  Found(d, next) = Found(d, run)
<1> DEFINE s == run.state.step
<1>1. \A i : Source(next, i) = Source(run, i)
  BY SameLatestOutput DEF Source, SameInputs
<1>2. next.state.step = s
  BY DEF SameInputs
<1>3. Missing(d, next) = Missing(d, run)
  BY <1>1, <1>2 DEF Missing
<1>4. ASSUME NEW i
      PROVE  MayMiss(d, next.facts, s, i) <=> MayMiss(d, run.facts, s, i)
  <2>1. /\ DOMAIN run.facts = 1 .. Len(run.facts)
        /\ DOMAIN next.facts = 1 .. Len(next.facts)
    BY SequenceLength DEF SameInputs, SameView
  <2>2. \A j \in DOMAIN next.facts :
            CompletedAttempt(next.facts[j]) =>
                /\ j \in DOMAIN run.facts /\ CompletedAttempt(run.facts[j])
                /\ next.facts[j].step = run.facts[j].step
    BY <2>1, SameFacts DEF SameInputs
  <2>3. \A j \in DOMAIN run.facts :
            CompletedAttempt(run.facts[j]) =>
                /\ j \in DOMAIN next.facts /\ CompletedAttempt(next.facts[j])
                /\ next.facts[j].step = run.facts[j].step
    BY <2>1, SameFacts DEF SameInputs
  <2>4. AcceptsMissingInitialReview(d, next.facts, s, i)
            <=> AcceptsMissingInitialReview(d, run.facts, s, i)
    BY <2>2, <2>3 DEF AcceptsMissingInitialReview
  <2> QED
    BY <2>4 DEF MayMiss
<1> QED
  BY <1>1, <1>2, <1>3, <1>4 DEF Found

LEMMA SameInputsResolve ==
    ASSUME NEW d, NEW run, NEW next, SameInputs(run, next)
    PROVE  ExecutorInputs(d, next) = ExecutorInputs(d, run)
<1> DEFINE inputs == Found(d, run)
<1>1. Found(d, next) = inputs
  BY SameInputsAreFound
<1>2. ASSUME inputs # Unresolved
      PROVE  DecisionMatchesPlan(next.facts, inputs)
                 <=> DecisionMatchesPlan(run.facts, inputs)
  <2>1. \A ref \in Range(inputs) : \E i : ref = Source(run, i)
    BY <1>2 DEF Found, Range
  <2>2. ASSUME NEW ref \in Range(inputs), ref.kind = "PlanDecision"
        PROVE  /\ next.facts[ref.by].state = "Approved"
                      <=> run.facts[ref.by].state = "Approved"
               /\ run.facts[ref.by].state = "Approved" =>
                      next.facts[ref.by].candidate = run.facts[ref.by].candidate
    <3>1. PICK i : ref = Source(run, i)
      BY <2>1
    <3>2. ref = LatestOutput(run.facts, i.source, i.kind)
      BY <2>2, <3>1 DEF Source, SameInputs
    <3> QED
      BY <2>2, <3>2, DecisionIsOfGate DEF SameInputs
  <2> HIDE DEF inputs
  <2> QED
    BY <2>2 DEF DecisionMatchesPlan
<1> HIDE DEF inputs
<1> QED
  BY <1>1, <1>2, InputsAreFound DEF inputs

-----------------------------------------------------------------------------
(* A record whose open attempt still finds its inputs.                     *)
ReservationFields == {"gate", "target", "attempt"}

RecordResolves(d, run) ==
    /\ DOMAIN run.reservation = ReservationFields
    /\ IsReserved(run) =>
          /\ run.reservation.gate \in DOMAIN run.facts
          /\ run.facts[run.reservation.gate].fact = "gate"
    /\ run.state.phase \in AttemptOpen => ExecutorInputs(d, run) # Unresolved

(* What the store may be asked to write.                                   *)
Transition(d, run, next) ==
    \/ next = run
    \/ next \in FailBeforeAttempt(run)
    \/ \E onTime \in BOOLEAN : next \in Cancel(run, onTime) \union Interrupt(run, onTime)
    \/ \E plan, onTime : next \in OpenPlanGate(d, run, plan, onTime)
    \/ \E g, onTime : \/ next \in AcceptPlan(d, run, g, onTime)
                      \/ next \in RevisePlan(d, run, g, onTime)
                      \/ next \in CancelGate(run, g, onTime)
    \/ \E a, outputs, verdict, onTime :
           next \in CompleteAttempt(d, run, a, outputs, verdict, onTime)
    \/ \E a, onTime : \/ next \in FailAttempt(run, a, onTime)
                      \/ next \in PauseAttempt(d, run, a, onTime)
                      \/ next \in ResumePaused(run, a, onTime)
    \/ \E a \in Attempts(run) : \E cleanup : next \in RecordCleanup(run, a, cleanup)
    \/ \E onTime : /\ ~IsGate(d, run.state.step) /\ ExecutorInputs(d, run) # Unresolved
                   /\ next \in StartAttempt(d, run, ExecutorInputs(d, run), onTime)

LEMMA ResolvesWhenClosed ==
    ASSUME NEW d, NEW run, RecordResolves(d, run), NEW next, FactsStand(run, next),
           next.reservation \in {run.reservation, NoReservation},
           next.state.phase \notin AttemptOpen
    PROVE  RecordResolves(d, next)
<1>1. DOMAIN NoReservation = ReservationFields
  BY DEF NoReservation, ReservationFields
<1>2. IsReserved(next) => next.reservation = run.reservation /\ IsReserved(run)
  BY DEF IsReserved
<1> QED
  BY <1>1, <1>2 DEF RecordResolves, FactsStand

LEMMA PlanIsAnInput ==
    ASSUME NEW d, NEW run, RecordIsCoherent(d, run), RecordResolves(d, run),
           NEW next, SameView(run.facts, next.facts),
           next.state.step = run.state.step,
           IsReserved(next) <=> IsReserved(run),
           IsReserved(run) => next.reservation.gate = run.reservation.gate
    PROVE  SameInputs(run, next)
<1>1. DOMAIN run.facts = 1 .. Len(run.facts)
  BY SequenceLength DEF RecordIsCoherent
<1>2. CASE IsReserved(run)
  <2>1. PICK g : g = run.reservation.gate
    OBVIOUS
  <2>2. g \in DOMAIN run.facts /\ run.facts[g].fact = "gate"
    BY <1>2, <2>1 DEF RecordResolves
  <2>3. run.facts[g].candidate.kind = "Plan"
    BY <2>2 DEF RecordIsCoherent, FactIsCoherent
  <2>4. next.facts[g].candidate = run.facts[g].candidate
    BY <1>1, <2>2, SameFacts
  <2> QED
    BY <1>2, <2>1, <2>3, <2>4 DEF SameInputs, CurrentPlan
<1>3. CASE ~IsReserved(run)
  <2>1. CurrentPlan(next) = LatestPlan(next.facts) /\ CurrentPlan(run) = LatestPlan(run.facts)
    BY <1>3 DEF CurrentPlan
  <2>2. PlansOf(next.facts) = PlansOf(run.facts)
    BY SameSelections
  <2>3. LatestPlan(next.facts) = LatestPlan(run.facts)
    BY <2>2, LatestPlanIsLast
  <2>4. LatestPlan(run.facts).kind \in {"Plan", "None"}
    BY LatestPlanIsLast DEF NoReference, Reference
  <2> QED
    BY <2>1, <2>3, <2>4 DEF SameInputs
<1> QED
  BY <1>2, <1>3

LEMMA ResolvesWhenSeenAlike ==
    ASSUME NEW d, NEW run, RecordIsCoherent(d, run), RecordResolves(d, run),
           ExecutorInputs(d, run) # Unresolved,
           NEW next, FactsStand(run, next), SameView(run.facts, next.facts),
           next.state.step = run.state.step,
           DOMAIN next.reservation = ReservationFields,
           IsReserved(next) <=> IsReserved(run),
           IsReserved(run) => next.reservation.gate = run.reservation.gate
    PROVE  RecordResolves(d, next)
<1>1. ExecutorInputs(d, next) # Unresolved
  BY PlanIsAnInput, SameInputsResolve
<1> QED
  BY <1>1 DEF RecordResolves, FactsStand

LEMMA SameViewAppended ==
    ASSUME NEW t, IsSequence(t), NEW f, f.fact = "attempt", f.state \in AttemptOpen
    PROVE  SameView(t, Append(t, f))
<1>1. PICK u : u = Append(t, f)
  OBVIOUS
<1>2. Len(t) \in Nat
  BY SequenceLength
<1>3. /\ IsSequence(u) /\ Len(u) = Len(t) + 1
      /\ \A i \in 1 .. Len(t) : u[i] = t[i]
      /\ u[Len(t) + 1] = f
  BY <1>1, AppendedFact
<1>4. \A i \in 1 .. Len(u) : i \notin 1 .. Len(t) => i = Len(t) + 1
  BY <1>2, <1>3
<1>5. SameView(t, u)
  BY <1>2, <1>3, <1>4 DEF SameView, SameFact
<1> QED
  BY <1>1, <1>5

LEMMA SameViewReplaced ==
    ASSUME NEW t, IsSequence(t), NEW a \in DOMAIN t, NEW f, SameFact(t[a], f),
           NEW next, next.facts = [t EXCEPT ![a] = f]
    PROVE  SameView(t, next.facts)
<1>1. Len(t) \in Nat /\ DOMAIN t = 1 .. Len(t)
  BY SequenceLength
<1>2. /\ IsSequence(next.facts) /\ Len(next.facts) = Len(t)
      /\ \A i \in DOMAIN t : next.facts[i] = IF i = a THEN f ELSE t[i]
  BY ReplacedFact
<1>3. \A i \in DOMAIN t : SameFact(t[i], t[i])
  BY DEF SameFact
<1> QED
  BY <1>1, <1>2, <1>3 DEF SameView

-----------------------------------------------------------------------------
(* What a transition does to the reservation.                              *)
LEMMA CloseGateKeepsReservation ==
    ASSUME NEW run, DOMAIN run = RunFields, NEW g, NEW state, NEW to
    PROVE  CloseGate(run, g, state, to).reservation = run.reservation
  BY DEF CloseGate, RunFields

LEMMA FinishReleases ==
    ASSUME NEW run, DOMAIN run = RunFields, NEW a, NEW state, NEW to,
           NEW next \in FinishAttempt(run, a, state, to)
    PROVE  next.reservation = NoReservation
  BY DEF FinishAttempt, RunFields

LEMMA GateKeepsReservation ==
    ASSUME NEW d, NEW run, DOMAIN run = RunFields, NEW g, NEW plan, NEW onTime, NEW next,
           \/ next \in OpenPlanGate(d, run, plan, onTime)
           \/ next \in AcceptPlan(d, run, g, onTime)
           \/ next \in CancelGate(run, g, onTime)
    PROVE  next.reservation = run.reservation
<1>1. CASE next \in OpenPlanGate(d, run, plan, onTime)
  BY <1>1 DEF OpenPlanGate, When, RunFields
<1>2. CASE next \in AcceptPlan(d, run, g, onTime)
  BY <1>2, CloseGateKeepsReservation DEF AcceptPlan, When
<1>3. CASE next \in CancelGate(run, g, onTime)
  BY <1>3, CloseGateKeepsReservation DEF CancelGate, When
<1> QED
  BY <1>1, <1>2, <1>3

LEMMA EndKeepsReservation ==
    ASSUME NEW d, NEW run, DOMAIN run = RunFields, NEW onTime, NEW next,
           \/ next \in FailBeforeAttempt(run)
           \/ next \in Cancel(run, onTime)
           \/ next \in Interrupt(run, onTime)
    PROVE  next.reservation \in {run.reservation, NoReservation}
<1>1. CASE next \in FailBeforeAttempt(run)
  BY <1>1 DEF FailBeforeAttempt, When, RunFields
<1>2. CASE next \in Cancel(run, onTime)
  <2>1. \/ next = [run EXCEPT !.state = Ended("Cancelled"), !.reservation = NoReservation]
        \/ next \in FinishAttempt(run, ActiveAttempt(run), "Cancelled", Ended("Cancelled"))
        \/ next \in CancelGate(run, run.state.at, onTime)
    BY <1>2 DEF Cancel
  <2>2. CASE next = [run EXCEPT !.state = Ended("Cancelled"), !.reservation = NoReservation]
    BY <2>2 DEF RunFields
  <2>3. CASE next \in FinishAttempt(run, ActiveAttempt(run), "Cancelled", Ended("Cancelled"))
    BY <2>3, FinishReleases
  <2>4. CASE next \in CancelGate(run, run.state.at, onTime)
    BY <2>4, GateKeepsReservation
  <2> QED
    BY <2>1, <2>2, <2>3, <2>4
<1>3. CASE next \in Interrupt(run, onTime)
  <2>1. \/ next = [run EXCEPT !.state = Ended("Interrupted"), !.reservation = NoReservation]
        \/ next = CloseGate(run, run.state.at, "Interrupted", Ended("Interrupted"))
        \/ next \in FinishAttempt(run, run.state.at, "Interrupted", Ended("Interrupted"))
    BY <1>3 DEF Interrupt, When
  <2>2. CASE next = [run EXCEPT !.state = Ended("Interrupted"), !.reservation = NoReservation]
    BY <2>2 DEF RunFields
  <2>3. CASE next = CloseGate(run, run.state.at, "Interrupted", Ended("Interrupted"))
    BY <2>3, CloseGateKeepsReservation
  <2>4. CASE next \in FinishAttempt(run, run.state.at, "Interrupted", Ended("Interrupted"))
    BY <2>4, FinishReleases
  <2> QED
    BY <2>1, <2>2, <2>3, <2>4
<1> QED
  BY <1>1, <1>2, <1>3

LEMMA CompletionKeepsReservation ==
    ASSUME NEW d, NEW run, DOMAIN run = RunFields, NEW a, NEW outputs, NEW verdict,
           NEW onTime, NEW next \in CompleteAttempt(d, run, a, outputs, verdict, onTime)
    PROVE  next.reservation \in {run.reservation, NoReservation}
  BY DEF CompleteAttempt, When, RunFields

LEMMA FailureReleases ==
    ASSUME NEW run, DOMAIN run = RunFields, NEW a, NEW onTime,
           NEW next \in FailAttempt(run, a, onTime)
    PROVE  next.reservation = NoReservation
  BY FinishReleases DEF FailAttempt

-----------------------------------------------------------------------------
(* Every transition leaves a record whose open attempt finds its inputs.   *)
LEMMA RevisionResolves ==
    ASSUME NEW d \in Definitions, NEW run, RecordIsCoherent(d, run), RecordResolves(d, run),
           NEW g, NEW onTime, NEW next \in RevisePlan(d, run, g, onTime)
    PROVE  RecordResolves(d, next)
<1> DEFINE s == run.state.step
           r == [gate |-> g, target |-> d[s].revision.target, attempt |-> 0]
<1>1. /\ DOMAIN run = RunFields
      /\ Progresses(d, run, next) /\ next.state.phase \notin AttemptOpen
  BY PlanIsRevised DEF RecordIsCoherent, AttemptOpen
<1>2. FactsStand(run, next)
  BY <1>1 DEF Progresses
<1>3. /\ Awaits(run, g)
      /\ \/ next = CloseGate(run, g, "RevisionRequested", Escalated(s, "EscalatedAttemptLimit"))
         \/ next = [CloseGate(run, g, "RevisionRequested", Ready(d[s].revision.target))
                       EXCEPT !.reservation = r]
  BY DEF RevisePlan
<1> HIDE DEF r
<1>4. PICK to : \/ next = CloseGate(run, g, "RevisionRequested", to)
                \/ next = [CloseGate(run, g, "RevisionRequested", to) EXCEPT
                              !.reservation = r]
  BY <1>3
<1>5. CASE next = CloseGate(run, g, "RevisionRequested", to)
  BY <1>1, <1>2, <1>5, CloseGateKeepsReservation, ResolvesWhenClosed
<1>6. CASE next = [CloseGate(run, g, "RevisionRequested", to) EXCEPT !.reservation = r]
  <2>1. DOMAIN CloseGate(run, g, "RevisionRequested", to) = RunFields
    BY <1>1, CloseGateIsRecord
  <2>2. next.reservation = r
    <3> DEFINE c == CloseGate(run, g, "RevisionRequested", to)
    <3>1. DOMAIN c = RunFields /\ next = [c EXCEPT !.reservation = r]
      BY <1>6, <2>1
    <3> HIDE DEF c
    <3> QED
      BY <3>1 DEF RunFields
  <2>3. run.state.phase = "AwaitingHuman" /\ run.state.at = g
    BY <1>3 DEF Awaits
  <2>4. g \in DOMAIN run.facts /\ run.facts[g].fact = "gate"
    BY <2>3, OpenFactIsLast DEF Busy
  <2>5. g \in DOMAIN next.facts /\ next.facts[g].fact = "gate"
    BY <1>2, <2>4 DEF FactsStand
  <2>6. DOMAIN r = ReservationFields /\ r.gate = g
    BY DEF r, ReservationFields
  <2> QED
    BY <1>1, <2>2, <2>5, <2>6 DEF RecordResolves
<1> QED
  BY <1>4, <1>5, <1>6

LEMMA StartResolves ==
    ASSUME NEW d \in Definitions, NEW run, RecordIsCoherent(d, run), RecordResolves(d, run),
           ~IsGate(d, run.state.step), ExecutorInputs(d, run) # Unresolved,
           NEW inputs, NEW onTime, NEW next \in StartAttempt(d, run, inputs, onTime)
    PROVE  RecordResolves(d, next)
<1> DEFINE s == run.state.step
           a == Len(run.facts) + 1
           f == Attempt(s, inputs)
           r == IF IsReserved(run) THEN [run.reservation EXCEPT !.attempt = a]
                ELSE run.reservation
<1>1. next = [run EXCEPT !.facts = Append(@, f), !.state = At("Active", s, a),
                         !.reservation = r]
  BY DEF StartAttempt, When
<1>2. /\ DOMAIN run = RunFields /\ IsSequence(run.facts)
      /\ DOMAIN run.reservation = ReservationFields
  BY DEF RecordIsCoherent, RecordResolves
<1>3. f.fact = "attempt" /\ f.state \in AttemptOpen
  BY DEF Attempt, AttemptOpen
<1>4. a # 0
  BY <1>2, SequenceLength
<1>5. /\ DOMAIN r = ReservationFields
      /\ IsReserved(run) => r.gate = run.reservation.gate /\ r.attempt = a
      /\ ~IsReserved(run) => r = run.reservation
  BY <1>2 DEF ReservationFields
<1>6. NoReservation.attempt = 0
  BY DEF NoReservation
<1> HIDE DEF f, r, a
<1>7. /\ next.facts = Append(run.facts, f)
      /\ next.state = At("Active", s, a)
      /\ next.reservation = r
  BY <1>1, <1>2 DEF RunFields
<1>8. SameView(run.facts, next.facts) /\ next.state.step = s
  BY <1>2, <1>3, <1>7, SameViewAppended DEF At
<1>9. IsReserved(next) <=> IsReserved(run)
  BY <1>4, <1>5, <1>6, <1>7 DEF IsReserved
<1>10. FactsStand(run, next)
  BY AttemptStarts DEF Progresses
<1> QED
  BY <1>5, <1>7, <1>8, <1>9, <1>10, ResolvesWhenSeenAlike

(* An attempt that is paused, resumed or cleaned up stays what it is.      *)
LEMMA OpenAttemptResolves ==
    ASSUME NEW d \in Definitions, NEW run, RecordIsCoherent(d, run), RecordResolves(d, run),
           NEW a \in Attempts(run), NEW f, DOMAIN f = AttemptFields,
           f.fact = "attempt", f.step = run.facts[a].step,
           f.outputs = run.facts[a].outputs,
           \/ f.state = run.facts[a].state
           \/ f.state \in AttemptOpen /\ run.facts[a].state \in AttemptOpen,
           NEW next, Progresses(d, run, next),
           next.facts = [run.facts EXCEPT ![a] = f],
           next.reservation = run.reservation,
           next.state.step = run.state.step,
           next.state.phase \in AttemptOpen => run.state.phase \in AttemptOpen
    PROVE  RecordResolves(d, next)
<1>1. FactsStand(run, next)
  BY DEF Progresses
<1>2. CASE next.state.phase \notin AttemptOpen
  BY <1>1, <1>2, ResolvesWhenClosed
<1>3. CASE next.state.phase \in AttemptOpen
  <2>1. ExecutorInputs(d, run) # Unresolved /\ DOMAIN run.reservation = ReservationFields
    BY <1>3 DEF RecordResolves
  <2>2. a \in DOMAIN run.facts /\ run.facts[a].fact = "attempt" /\ IsSequence(run.facts)
    BY DEF Attempts, RecordIsCoherent
  <2>3. SameFact(run.facts[a], f)
    BY <2>2 DEF SameFact
  <2>4. SameView(run.facts, next.facts)
    BY <2>2, <2>3, SameViewReplaced
  <2>5. IsReserved(next) <=> IsReserved(run)
    BY DEF IsReserved
  <2> QED
    BY <1>1, <2>1, <2>4, <2>5, ResolvesWhenSeenAlike
<1> QED
  BY <1>2, <1>3

LEMMA OpenAttempt ==
    ASSUME NEW d, NEW run, RecordIsCoherent(d, run), run.state.phase \in AttemptOpen
    PROVE  /\ run.state.at \in Attempts(run)
           /\ DOMAIN run.facts[run.state.at] = AttemptFields
           /\ run.facts[run.state.at].state = run.state.phase
           /\ run.facts[run.state.at].step = run.state.step
  BY OpenFactIsLast DEF Busy, AttemptOpen, Attempts

LEMMA PauseResolves ==
    ASSUME NEW d \in Definitions, NEW run, RecordIsCoherent(d, run), RecordResolves(d, run),
           NEW a, NEW onTime, NEW next \in PauseAttempt(d, run, a, onTime)
    PROVE  RecordResolves(d, next)
<1> DEFINE f == [run.facts[a] EXCEPT !.state = "Paused", !.continuation = TRUE]
<1>1. /\ run.state.phase = "Active" /\ run.state.at = a
      /\ next = [run EXCEPT !.facts[a].state = "Paused", !.facts[a].continuation = TRUE,
                            !.state = At("Paused", run.facts[a].step, a)]
  BY DEF PauseAttempt, When
<1>2. /\ a \in Attempts(run) /\ DOMAIN run.facts[a] = AttemptFields
      /\ run.facts[a].state = "Active" /\ run.facts[a].step = run.state.step
      /\ run.facts[a].fact = "attempt" /\ DOMAIN run = RunFields
  BY <1>1, OpenAttempt DEF AttemptOpen, Attempts, RecordIsCoherent
<1>3. /\ DOMAIN f = AttemptFields /\ f.fact = "attempt" /\ f.step = run.facts[a].step
      /\ f.outputs = run.facts[a].outputs /\ f.state = "Paused"
  BY <1>2 DEF AttemptFields
<1>4. /\ next.facts = [run.facts EXCEPT ![a] = f]
      /\ next.state = At("Paused", run.facts[a].step, a)
      /\ next.reservation = run.reservation
  BY <1>1, <1>2 DEF RunFields
<1> HIDE DEF f
<1>5. next.state.step = run.state.step
  BY <1>2, <1>4 DEF At
<1>6. Progresses(d, run, next)
  BY AttemptPauses
<1> QED
  BY <1>1, <1>2, <1>3, <1>4, <1>5, <1>6, OpenAttemptResolves DEF AttemptOpen

LEMMA ResumptionResolves ==
    ASSUME NEW d \in Definitions, NEW run, RecordIsCoherent(d, run), RecordResolves(d, run),
           NEW a, NEW onTime, NEW next \in ResumePaused(run, a, onTime)
    PROVE  RecordResolves(d, next)
<1> DEFINE f == [run.facts[a] EXCEPT !.state = "Active", !.cleanup = "Pending"]
<1>1. /\ run.state.phase = "Paused" /\ run.state.at = a
      /\ next = [run EXCEPT !.facts[a].state = "Active", !.facts[a].cleanup = "Pending",
                            !.state = At("Active", run.state.step, a)]
  BY DEF ResumePaused, When
<1>2. /\ a \in Attempts(run) /\ DOMAIN run.facts[a] = AttemptFields
      /\ run.facts[a].state = "Paused" /\ run.facts[a].step = run.state.step
      /\ run.facts[a].fact = "attempt" /\ DOMAIN run = RunFields
  BY <1>1, OpenAttempt DEF AttemptOpen, Attempts, RecordIsCoherent
<1>3. /\ DOMAIN f = AttemptFields /\ f.fact = "attempt" /\ f.step = run.facts[a].step
      /\ f.outputs = run.facts[a].outputs /\ f.state = "Active"
  BY <1>2 DEF AttemptFields
<1>4. /\ next.facts = [run.facts EXCEPT ![a] = f]
      /\ next.state = At("Active", run.state.step, a)
      /\ next.reservation = run.reservation
  BY <1>1, <1>2 DEF RunFields
<1> HIDE DEF f
<1>5. next.state.step = run.state.step
  BY <1>4 DEF At
<1>6. Progresses(d, run, next)
  BY AttemptResumes
<1> QED
  BY <1>1, <1>2, <1>3, <1>4, <1>5, <1>6, OpenAttemptResolves DEF AttemptOpen

LEMMA CleanupResolves ==
    ASSUME NEW d \in Definitions, NEW run, RecordIsCoherent(d, run), RecordResolves(d, run),
           NEW a \in Attempts(run), NEW cleanup,
           NEW next \in RecordCleanup(run, a, cleanup)
    PROVE  RecordResolves(d, next)
<1> DEFINE f == [run.facts[a] EXCEPT !.cleanup = cleanup]
<1>1. CASE next = run
  BY <1>1
<1>2. CASE next # run
  <2>1. next = [run EXCEPT !.facts[a].cleanup = cleanup]
    BY <1>2 DEF RecordCleanup, When
  <2>2. /\ DOMAIN run.facts[a] = AttemptFields
        /\ run.facts[a].fact = "attempt" /\ DOMAIN run = RunFields
    BY DEF Attempts, RecordIsCoherent, FactIsCoherent
  <2>3. /\ DOMAIN f = AttemptFields /\ f.fact = "attempt" /\ f.step = run.facts[a].step
        /\ f.outputs = run.facts[a].outputs /\ f.state = run.facts[a].state
    BY <2>2 DEF AttemptFields
  <2>4. /\ next.facts = [run.facts EXCEPT ![a] = f]
        /\ next.state = run.state
        /\ next.reservation = run.reservation
    BY <2>1, <2>2 DEF RunFields
  <2> HIDE DEF f
  <2>5. Progresses(d, run, next)
    BY CleanupIsRecorded
  <2> QED
    BY <2>3, <2>4, <2>5, OpenAttemptResolves
<1> QED
  BY <1>1, <1>2

LEMMA TransitionResolves ==
    ASSUME NEW d \in Definitions, NEW run, RecordIsCoherent(d, run), RecordResolves(d, run),
           NEW next, Transition(d, run, next)
    PROVE  RecordResolves(d, next)
<1>1. DOMAIN run = RunFields
  BY DEF RecordIsCoherent
<1>2. ASSUME Progresses(d, run, next), next.state.phase \notin AttemptOpen,
             next.reservation \in {run.reservation, NoReservation}
      PROVE  RecordResolves(d, next)
  BY <1>2, ResolvesWhenClosed DEF Progresses
<1>3. CASE next = run
  BY <1>3
<1>4. CASE next \in FailBeforeAttempt(run)
  BY <1>1, <1>2, <1>4, EndKeepsReservation, RunFailsBeforeAttempt DEF AttemptOpen
<1>5. ASSUME NEW onTime \in BOOLEAN, next \in Cancel(run, onTime)
      PROVE  RecordResolves(d, next)
  BY <1>1, <1>2, <1>5, EndKeepsReservation, RunIsCancelled DEF AttemptOpen
<1>6. ASSUME NEW onTime \in BOOLEAN, next \in Interrupt(run, onTime)
      PROVE  RecordResolves(d, next)
  BY <1>1, <1>2, <1>6, EndKeepsReservation, RunIsInterrupted DEF AttemptOpen
<1>7. ASSUME NEW plan, NEW onTime, next \in OpenPlanGate(d, run, plan, onTime)
      PROVE  RecordResolves(d, next)
  BY <1>1, <1>2, <1>7, GateKeepsReservation, GateOpens DEF AttemptOpen
<1>8. ASSUME NEW g, NEW onTime, next \in AcceptPlan(d, run, g, onTime)
      PROVE  RecordResolves(d, next)
  BY <1>1, <1>2, <1>8, GateKeepsReservation, PlanIsAccepted DEF AttemptOpen
<1>9. ASSUME NEW g, NEW onTime, next \in CancelGate(run, g, onTime)
      PROVE  RecordResolves(d, next)
  BY <1>1, <1>2, <1>9, GateKeepsReservation, GateIsCancelled DEF AttemptOpen
<1>10. ASSUME NEW g, NEW onTime, next \in RevisePlan(d, run, g, onTime)
       PROVE  RecordResolves(d, next)
  BY <1>10, RevisionResolves
<1>11. ASSUME NEW a, NEW outputs, NEW verdict, NEW onTime,
              next \in CompleteAttempt(d, run, a, outputs, verdict, onTime)
       PROVE  RecordResolves(d, next)
  BY <1>1, <1>2, <1>11, CompletionKeepsReservation, AttemptCompletes DEF AttemptOpen
<1>12. ASSUME NEW a, NEW onTime, next \in FailAttempt(run, a, onTime)
       PROVE  RecordResolves(d, next)
  BY <1>1, <1>2, <1>12, FailureReleases, AttemptFails DEF AttemptOpen
<1>13. ASSUME NEW a, NEW onTime, next \in PauseAttempt(d, run, a, onTime)
       PROVE  RecordResolves(d, next)
  BY <1>13, PauseResolves
<1>14. ASSUME NEW a, NEW onTime, next \in ResumePaused(run, a, onTime)
       PROVE  RecordResolves(d, next)
  BY <1>14, ResumptionResolves
<1>15. ASSUME NEW a \in Attempts(run), NEW cleanup, next \in RecordCleanup(run, a, cleanup)
       PROVE  RecordResolves(d, next)
  BY <1>15, CleanupResolves
<1>16. ASSUME NEW onTime, ~IsGate(d, run.state.step), ExecutorInputs(d, run) # Unresolved,
              next \in StartAttempt(d, run, ExecutorInputs(d, run), onTime)
       PROVE  RecordResolves(d, next)
  BY <1>16, StartResolves
<1> QED
  BY <1>3, <1>4, <1>5, <1>6, <1>7, <1>8, <1>9, <1>10, <1>11, <1>12, <1>13, <1>14,
     <1>15, <1>16 DEF Transition

-----------------------------------------------------------------------------
(* What memory and the file become is a transition of what memory was, or  *)
(* what the file was.                                                      *)
InputsInv == RecordResolves(definition, memory) /\ RecordResolves(definition, disk)

StoreMoves ==
    /\ definition' = definition
    /\ memory' \in {memory, disk} \/ Transition(definition, memory, memory')
    /\ disk' = disk \/ Transition(definition, memory, disk')

LEMMA InputsStayResolved ==
    ASSUME WorkflowInv, InputsInv, StoreMoves
    PROVE  InputsInv'
<1>1. definition \in Definitions /\ RecordIsCoherent(definition, memory)
  BY DEF WorkflowInv, ControlTyped, RecordsAreCoherent
<1>2. ASSUME NEW next, Transition(definition, memory, next)
      PROVE  RecordResolves(definition, next)
  BY <1>1, <1>2, TransitionResolves DEF InputsInv
<1> QED
  BY <1>2 DEF InputsInv, StoreMoves

LEMMA WrittenMoves ==
    ASSUME NEW results, Written(results), definition' = definition,
           \A next \in results : Transition(definition, memory, next)
    PROVE  StoreMoves
  BY DEF Written, StoreMoves

LEMMA NothingMoves ==
    ASSUME UNCHANGED <<definition, memory, disk>>
    PROVE  StoreMoves
  BY DEF StoreMoves

(* The worker's writes.                                                    *)
LEMMA WorkerMoves ==
    ASSUME WorkflowInv, WorkerStep
    PROVE  StoreMoves
<1>1. definition' = definition /\ OnTime \in BOOLEAN
  BY DEF WorkerStep, SettleEndedRun, StopAtTop, RefuseAtTop, FailToResolve, OpenGate,
         Park, RefuseCapabilities, Start, RunStep, PersistCleanup, PublishSuccess,
         PersistFail, PersistCancel, PauseRun, PauseConversation, ResumeWork, held,
         OnTime
<1>2. CASE SettleEndedRun \/ RefuseAtTop \/ FailToResolve \/ Park \/ RunStep
           \/ PauseConversation
  BY <1>1, <1>2, NothingMoves DEF SettleEndedRun, RefuseAtTop, FailToResolve, Park,
     RunStep, PauseConversation, NoMutation
<1>3. CASE StopAtTop \/ PersistCancel \/ ResumeWork
  <2>1. Written(Cancel(memory, OnTime)) \/ (memory' = memory /\ disk' = disk)
    BY <1>3 DEF StopAtTop, PersistCancel, ResumeWork, Mutate, NoMutation, Written
  <2>2. \A next \in Cancel(memory, OnTime) : Transition(definition, memory, next)
    BY <1>1 DEF Transition
  <2> QED
    BY <1>1, <2>1, <2>2, WrittenMoves, NothingMoves
<1>4. CASE OpenGate
  <2>1. PICK results, plan, onTime : /\ results = OpenPlanGate(definition, memory, plan, onTime)
                                     /\ plan = PlanGiven(StepInputs) /\ onTime = OnTime
    OBVIOUS
  <2>2. Written(results)
    BY <1>4, <2>1 DEF OpenGate, Mutate, Written
  <2>3. \A next \in results : Transition(definition, memory, next)
    BY <2>1 DEF Transition
  <2> QED
    BY <1>1, <2>2, <2>3, WrittenMoves
<1>5. CASE RefuseCapabilities
  <2>1. PICK a, onTime : a = memory.state.at /\ onTime = OnTime
    OBVIOUS
  <2>2. \/ Written(FailAttempt(memory, a, onTime))
        \/ Written(FailBeforeAttempt(memory))
    BY <1>5, <2>1 DEF RefuseCapabilities, Mutate, Written
  <2>3. /\ \A next \in FailAttempt(memory, a, onTime) : Transition(definition, memory, next)
        /\ \A next \in FailBeforeAttempt(memory) : Transition(definition, memory, next)
    BY DEF Transition
  <2> QED
    BY <1>1, <2>2, <2>3, WrittenMoves
<1>6. CASE Start
  <2>1. ~IsGate(definition, memory.state.step)
        /\ ExecutorInputs(definition, memory) # Unresolved
    BY <1>6 DEF Start, Dispatches, StepInputs, Step
  <2>2. PICK results, onTime :
            /\ results = StartAttempt(definition, memory, ExecutorInputs(definition, memory), onTime)
            /\ onTime = OnTime
    OBVIOUS
  <2>3. Written(results) \/ (memory' = memory /\ disk' = disk)
    BY <1>6, <2>2 DEF Start, StepInputs, Mutate, NoMutation, Written
  <2>4. \A next \in results : Transition(definition, memory, next)
    BY <2>1, <2>2 DEF Transition
  <2> QED
    BY <1>1, <2>3, <2>4, WrittenMoves, NothingMoves
<1>7. CASE PersistCleanup
  <2>1. PICK results, a, cleanup : /\ results = RecordCleanup(memory, a, cleanup)
                                   /\ a = worker.attempt /\ cleanup = worker.outcome.cleanup
    OBVIOUS
  <2>2. a \in Attempts(memory)
    BY <1>7, <2>1, WorkedAttempt DEF PersistCleanup, At_
  <2>3. Written(results)
    BY <1>7, <2>1 DEF PersistCleanup, Mutate, Written
  <2>4. \A next \in results : Transition(definition, memory, next)
    BY <2>1, <2>2 DEF Transition
  <2> QED
    BY <1>1, <2>3, <2>4, WrittenMoves
<1>8. CASE PublishSuccess
  <2>1. PICK results, a, outputs, verdict, onTime :
            /\ results = CompleteAttempt(definition, memory, a, outputs, verdict, onTime)
            /\ a = worker.attempt /\ outputs = Durable(definition[Step].outputs)
            /\ verdict = worker.outcome.verdict /\ onTime = OnTime
    OBVIOUS
  <2>2. Written(results) \/ (memory' = memory /\ disk' = disk)
    BY <1>8, <2>1 DEF PublishSuccess, PublishDraft, NoMutation, Mutate, Written
  <2>3. \A next \in results : Transition(definition, memory, next)
    BY <2>1 DEF Transition
  <2> QED
    BY <1>1, <2>2, <2>3, WrittenMoves, NothingMoves
<1>9. CASE PersistFail \/ PauseRun
  <2>1. PICK a, onTime : a = worker.attempt /\ onTime = OnTime
    OBVIOUS
  <2>2. \/ Written(FailAttempt(memory, a, onTime))
        \/ Written(PauseAttempt(definition, memory, a, onTime))
    BY <1>9, <2>1 DEF PersistFail, PauseRun, Mutate, Written
  <2>3. /\ \A next \in FailAttempt(memory, a, onTime) : Transition(definition, memory, next)
        /\ \A next \in PauseAttempt(definition, memory, a, onTime) :
               Transition(definition, memory, next)
    BY DEF Transition
  <2> QED
    BY <1>1, <2>2, <2>3, WrittenMoves
<1> QED
  BY <1>2, <1>3, <1>4, <1>5, <1>6, <1>7, <1>8, <1>9 DEF WorkerStep

(* The writes of requests.                                                 *)
LEMMA RequestMoves ==
    ASSUME WorkflowInv, Request
    PROVE  StoreMoves
<1>1. definition' = definition /\ OnTime \in BOOLEAN
  BY DEF Request, StopRequest, Approve, Revise, DiscardGate, InterruptStaleGate,
         ForgetProvider, PurgeSession, RestoreGate, ContinuePaused, EndPause, held, OnTime
<1>2. PICK g, onTime : g = memory.state.at /\ onTime = OnTime
  OBVIOUS
<1>3. CASE StopRequest \/ RestoreGate
  BY <1>1, <1>3, NothingMoves DEF StopRequest, RestoreGate, NoMutation
<1>4. CASE Approve \/ Revise \/ DiscardGate
  <2>1. \/ Written(AcceptPlan(definition, memory, g, onTime))
        \/ Written(RevisePlan(definition, memory, g, onTime))
        \/ Written(CancelGate(memory, g, onTime))
    BY <1>2, <1>4 DEF Approve, Revise, DiscardGate, Mutate, Written
  <2>2. /\ \A next \in AcceptPlan(definition, memory, g, onTime) :
               Transition(definition, memory, next)
        /\ \A next \in RevisePlan(definition, memory, g, onTime) :
               Transition(definition, memory, next)
        /\ \A next \in CancelGate(memory, g, onTime) :
               Transition(definition, memory, next)
    BY DEF Transition
  <2> QED
    BY <1>1, <2>1, <2>2, WrittenMoves
<1>5. CASE InterruptStaleGate
  <2>1. Written(Interrupt(memory, OnTime))
    BY <1>5 DEF InterruptStaleGate, Mutate, Written
  <2>2. \A next \in Interrupt(memory, OnTime) : Transition(definition, memory, next)
    BY <1>1 DEF Transition
  <2> QED
    BY <1>1, <2>1, <2>2, WrittenMoves
<1>6. CASE ForgetProvider \/ PurgeSession
  <2>1. PICK results :
            results = IF RecoverableGate(memory) THEN {memory} ELSE Interrupt(memory, OnTime)
    OBVIOUS
  <2>2. Written(results) \/ (memory' = memory /\ disk' = disk)
    BY <1>6, <2>1 DEF ForgetProvider, PurgeSession, EndContinuation, Mutate, NoMutation,
       Written
  <2>3. \A next \in results : Transition(definition, memory, next)
    BY <1>1, <2>1 DEF Transition
  <2> QED
    BY <1>1, <2>2, <2>3, WrittenMoves, NothingMoves
<1>7. CASE ContinuePaused
  <2>1. PICK a : a = checkpoint
    OBVIOUS
  <2>2. Written(ResumePaused(memory, a, onTime))
    BY <1>2, <1>7, <2>1 DEF ContinuePaused, Mutate, Written
  <2>3. \A next \in ResumePaused(memory, a, onTime) : Transition(definition, memory, next)
    BY DEF Transition
  <2> QED
    BY <1>1, <2>2, <2>3, WrittenMoves
<1>8. CASE EndPause
  <2>1. PICK results :
            results = IF IsTerminal(memory) THEN {memory}
                      ELSE IF memory.state.phase = "Paused" THEN Cancel(memory, OnTime) ELSE {}
    OBVIOUS
  <2>2. Written(results)
    BY <1>8, <2>1 DEF EndPause, Mutate, Written
  <2>3. \A next \in results : Transition(definition, memory, next)
    BY <1>1, <2>1 DEF Transition
  <2> QED
    BY <1>1, <2>2, <2>3, WrittenMoves
<1> QED
  BY <1>3, <1>4, <1>5, <1>6, <1>7, <1>8 DEF Request

(* What a crash and a start do to the record.                              *)
LEMMA ServerMoves ==
    ASSUME WorkflowInv, Crash \/ OpenStore \/ InterruptActive \/ RecordRecovery
    PROVE  StoreMoves
<1>1. definition' = definition /\ OnTime \in BOOLEAN
  BY DEF Crash, OpenStore, InterruptActive, RecordRecovery, held, OnTime
<1>2. CASE Crash \/ OpenStore
  BY <1>1, <1>2 DEF Crash, OpenStore, StoreMoves
<1>3. CASE InterruptActive
  <2>1. Written(Interrupt(memory, OnTime)) \/ (memory' = memory /\ disk' = disk)
    BY <1>3 DEF InterruptActive, Mutate, NoMutation, Written
  <2>2. \A next \in Interrupt(memory, OnTime) : Transition(definition, memory, next)
    BY <1>1 DEF Transition
  <2> QED
    BY <1>1, <2>1, <2>2, WrittenMoves, NothingMoves
<1>4. CASE RecordRecovery
  <2>1. CASE PendingCleanup(memory) = {}
    BY <1>1, <1>4, <2>1, NothingMoves DEF RecordRecovery, NoMutation
  <2>2. CASE PendingCleanup(memory) # {}
    <3>1. PICK a \in PendingCleanup(memory) : \E cleanup \in {"Complete", Orphaned} :
              Mutate(RecordCleanup(memory, a, cleanup), UNCHANGED server, server' = "down")
      BY <1>4, <2>2 DEF RecordRecovery
    <3>2. PICK cleanup \in {"Complete", Orphaned} :
              Mutate(RecordCleanup(memory, a, cleanup), UNCHANGED server, server' = "down")
      BY <3>1
    <3>3. Written(RecordCleanup(memory, a, cleanup))
      BY <3>2 DEF Mutate, Written
    <3>4. a \in Attempts(memory)
      BY DEF PendingCleanup
    <3>5. \A next \in RecordCleanup(memory, a, cleanup) :
              Transition(definition, memory, next)
      BY <3>4 DEF Transition
    <3> QED
      BY <1>1, <3>3, <3>5, WrittenMoves
  <2> QED
    BY <2>1, <2>2
<1> QED
  BY <1>2, <1>3, <1>4

LEMMA StepMoves ==
    ASSUME WorkflowInv, [Next]_vars
    PROVE  StoreMoves
<1>1. CASE SetClock \/ UNCHANGED vars
  BY <1>1, NothingMoves DEF SetClock, vars
<1> QED
  BY <1>1, WorkerMoves, RequestMoves, ServerMoves DEF Next

LEMMA InputsInvStarts ==
    ASSUME Init
    PROVE  InputsInv
<1>1. Create.reservation = NoReservation /\ Create.state.phase = "Ready"
  BY DEF Create, Ready, At
<1>2. ~IsReserved(Create) /\ DOMAIN NoReservation = ReservationFields
  BY <1>1 DEF IsReserved, NoReservation, ReservationFields
<1>3. RecordResolves(definition, Create)
  BY <1>1, <1>2 DEF RecordResolves, AttemptOpen
<1> QED
  BY <1>3 DEF InputsInv, Init

-----------------------------------------------------------------------------
(* What is open is attended.                                               *)
LEMMA AttendedAsBefore ==
    ASSUME OpenFactIsAttended, WorkflowInv, UNCHANGED <<memory, server, worker, parked>>,
           \/ job' = job /\ session' = session
           \/ /\ job.status \in JobActive
              /\ job' = [job EXCEPT !.cancel = TRUE]
    PROVE  OpenFactIsAttended'
<1>1. CASE job' = job /\ session' = session
  BY <1>1 DEF OpenFactIsAttended, AttemptIsDriven, GateIsReachable, ConversationFree, Up
<1>2. CASE job.status \in JobActive /\ job' = [job EXCEPT !.cancel = TRUE]
  <2>1. job'.cancel /\ job'.why = job.why
    BY <1>2 DEF WorkflowInv, ControlTyped, JobFields
  <2> QED
    BY <1>2, <2>1 DEF OpenFactIsAttended, AttemptIsDriven, GateIsReachable,
       ConversationFree, Up
<1> QED
  BY <1>1, <1>2

LEMMA NothingIsOpen ==
    ASSUME memory'.state.phase \notin {"Active", "AwaitingHuman"}
    PROVE  OpenFactIsAttended'
  BY DEF OpenFactIsAttended, AttemptIsDriven, GateIsReachable

LEMMA WorkerKeepsAttempt ==
    ASSUME WorkflowInv, worker.pc \notin {"idle", "opened"},
           memory' = memory \/ memory'.state.phase # "AwaitingHuman",
           worker'.pc # "idle" \/ job'.why \in {"store", "refused", "protected"}
    PROVE  OpenFactIsAttended'
<1>1. memory.state.phase # "AwaitingHuman"
  BY DEF WorkflowInv, ControlTyped, WorkerKnows, Pc
<1> QED
  BY <1>1 DEF OpenFactIsAttended, AttemptIsDriven, GateIsReachable

LEMMA SettledFor ==
    ASSUME WorkflowInv, NEW status, NEW why, Settle(status, why)
    PROVE  /\ worker'.pc = "idle" /\ job'.why = why /\ job'.status = status
           /\ job'.cancel = job.cancel
  BY DEF Settle, Idle, Worker, WorkflowInv, ControlTyped, JobFields

LEMMA LoopAttends ==
    ASSUME WorkflowInv, InputsInv,
           SettleEndedRun \/ StopAtTop \/ RefuseAtTop \/ FailToResolve \/ OpenGate
               \/ RefuseCapabilities \/ Start
    PROVE  OpenFactIsAttended'
<1>1. /\ worker.pc = "loop" /\ OnTime \in BOOLEAN
      /\ DOMAIN worker = WorkerFields
  BY DEF SettleEndedRun, StopAtTop, RefuseAtTop, FailToResolve, OpenGate,
         RefuseCapabilities, Start, Dispatches, Proceeds, At_, OnTime, WorkflowInv,
         ControlTyped
<1>2. /\ definition \in Definitions /\ RecordIsCoherent(definition, memory)
      /\ memory.state.phase \notin {"AwaitingHuman", "Paused"}
  BY <1>1, WorkerStands DEF WorkflowInv, WorkerKnows
<1>3. ASSUME memory' = memory, FailOperational
      PROVE  OpenFactIsAttended'
  BY <1>1, <1>3, SettledFor, WorkerKeepsAttempt DEF FailOperational
<1>4. CASE SettleEndedRun
  BY <1>4, NothingIsOpen DEF SettleEndedRun, NoMutation, IsTerminal, TerminalPhase
<1>5. CASE StopAtTop
  <2>1. memory' \in Cancel(memory, OnTime) \/ (memory' = memory /\ FailOperational)
    BY <1>5 DEF StopAtTop, Mutate
  <2>2. ASSUME memory' \in Cancel(memory, OnTime)
        PROVE  memory'.state.phase = "Cancelled"
    BY <1>1, <1>2, <2>2, RunIsCancelled
  <2> QED
    BY <1>3, <2>1, <2>2, NothingIsOpen
<1>6. CASE RefuseAtTop
  <2>1. Settle("Failed", "refused") /\ memory' = memory
    BY <1>6 DEF RefuseAtTop, NoMutation
  <2> QED
    BY <1>1, <2>1, SettledFor, WorkerKeepsAttempt
<1>7. CASE FailToResolve
  <2>1. ExecutorInputs(definition, memory) = Unresolved /\ memory' = memory
    BY <1>7 DEF FailToResolve, StepInputs, NoMutation
  <2>2. memory.state.phase # "Active"
    BY <2>1 DEF InputsInv, RecordResolves, AttemptOpen
  <2> QED
    BY <1>2, <2>1, <2>2, NothingIsOpen
<1>8. CASE OpenGate
  <2>1. \/ memory' = memory /\ FailOperational
        \/ /\ memory' \in OpenPlanGate(definition, memory, PlanGiven(StepInputs), OnTime)
           /\ Goto("opened")
    BY <1>8 DEF OpenGate, Mutate
  <2>2. ASSUME NEW plan, NEW onTime, memory' \in OpenPlanGate(definition, memory, plan, onTime)
        PROVE  memory'.state.phase = "AwaitingHuman"
    BY <1>2, <2>2, GateOpens
  <2>3. Goto("opened") => worker'.pc = "opened"
    BY <1>1 DEF Goto, WorkerFields
  <2> QED
    BY <1>3, <2>1, <2>2, <2>3 DEF OpenFactIsAttended, AttemptIsDriven, GateIsReachable
<1>9. CASE RefuseCapabilities
  <2>1. PICK a, onTime : a = memory.state.at /\ onTime = OnTime
    OBVIOUS
  <2>2. \/ memory' = memory /\ FailOperational
        \/ memory' \in FailAttempt(memory, a, onTime)
        \/ memory' \in FailBeforeAttempt(memory)
    BY <1>9, <2>1 DEF RefuseCapabilities, Mutate
  <2>3. ASSUME memory' \in FailAttempt(memory, a, onTime)
        PROVE  memory'.state.phase = "Failed"
    BY <1>2, <2>3, AttemptFails
  <2>4. ASSUME memory' \in FailBeforeAttempt(memory)
        PROVE  memory'.state.phase = "Failed"
    BY <1>2, <2>4, RunFailsBeforeAttempt
  <2> QED
    BY <1>3, <2>2, <2>3, <2>4, NothingIsOpen
<1>10. CASE Start
  <2>1. PICK inputs, onTime : inputs = StepInputs /\ onTime = OnTime
    OBVIOUS
  <2>2. \/ memory' = memory /\ FailOperational
        \/ memory' = memory /\ worker'.pc = "step"
        \/ /\ memory' \in StartAttempt(definition, memory, inputs, onTime)
           /\ worker'.pc = "step"
    BY <1>10, <2>1 DEF Start, NoMutation, Mutate, Worker
  <2>3. ~IsGate(definition, memory.state.step)
    BY <1>10 DEF Start, Dispatches, Step
  <2>4. ASSUME memory' \in StartAttempt(definition, memory, inputs, onTime)
        PROVE  memory'.state.phase = "Active"
    BY <1>2, <2>3, <2>4, AttemptStarts
  <2> QED
    BY <1>1, <1>3, <2>2, <2>4, WorkerKeepsAttempt
<1> QED
  BY <1>4, <1>5, <1>6, <1>7, <1>8, <1>9, <1>10

(* A task that waits at its gate can still be reached: a purge that took   *)
(* its session away before has asked it to stop.                           *)
LEMMA ParkAttends ==
    ASSUME WorkflowInv, Park
    PROVE  OpenFactIsAttended'
<1>1. /\ worker.pc = "opened" /\ parked' = TRUE /\ job'.cancel = job.cancel
      /\ memory' = memory /\ session' = session
  BY DEF Park, At_, NoMutation, held, WorkflowInv, ControlTyped, JobFields
<1>2. memory.state.phase = "AwaitingHuman" /\ job.status = "Running"
  BY <1>1 DEF WorkflowInv, WorkerKnows
<1>3. session = "live" \/ job.cancel
  BY <1>2 DEF WorkflowInv, ControlTyped, PurgedJobIsTold, JobActive
<1> QED
  BY <1>1, <1>2, <1>3 DEF OpenFactIsAttended, AttemptIsDriven, GateIsReachable

LEMMA StepAttends ==
    ASSUME WorkflowInv,
           RunStep \/ PersistCleanup \/ PublishSuccess \/ PersistFail \/ PersistCancel
               \/ PauseRun \/ PauseConversation \/ ResumeWork
    PROVE  OpenFactIsAttended'
<1>1. /\ worker.pc \in {"step", "clean", "finish", "paused", "resume"}
      /\ OnTime \in BOOLEAN /\ DOMAIN worker = WorkerFields
  BY DEF RunStep, PersistCleanup, PublishSuccess, PersistFail, PersistCancel, PauseRun,
         PauseConversation, ResumeWork, Ends, At_, OnTime, WorkflowInv, ControlTyped
<1>2. definition \in Definitions /\ RecordIsCoherent(definition, memory)
  BY <1>1, WorkerStands
<1>3. ASSUME memory' = memory,
             FailOperational \/ Settle("Failed", "protected") \/ Settle("Failed", "refused")
      PROVE  OpenFactIsAttended'
  BY <1>1, <1>3, SettledFor, WorkerKeepsAttempt DEF FailOperational
<1>4. ASSUME memory' = memory, worker'.pc # "idle"
      PROVE  OpenFactIsAttended'
  BY <1>1, <1>4, WorkerKeepsAttempt
<1>5. ASSUME memory' \in Cancel(memory, OnTime)
      PROVE  OpenFactIsAttended'
  <2>1. memory'.state.phase = "Cancelled"
    BY <1>1, <1>2, <1>5, RunIsCancelled
  <2> QED
    BY <2>1, NothingIsOpen
<1>6. CASE RunStep
  <2>1. memory' = memory /\ worker'.pc = "clean"
    BY <1>6 DEF RunStep, NoMutation, Worker
  <2> QED
    BY <1>4, <2>1
<1>7. CASE PersistCleanup
  <2>1. PICK a, cleanup : a = worker.attempt /\ cleanup = worker.outcome.cleanup
    OBVIOUS
  <2>2. /\ a \in Attempts(memory) /\ memory.state.phase = "Active"
    BY <1>7, <2>1, WorkedAttempt DEF PersistCleanup, At_
  <2>3. \/ memory' = memory /\ Settle("Failed", "protected")
        \/ /\ memory' \in RecordCleanup(memory, a, cleanup)
           /\ Goto("finish") \/ Settle("Failed", "protected")
    BY <1>7, <2>1 DEF PersistCleanup, Mutate, Protect
  <2>4. ASSUME memory' \in RecordCleanup(memory, a, cleanup)
        PROVE  memory'.state = memory.state
    BY <1>2, <2>2, <2>4, CleanupIsRecorded
  <2>5. Goto("finish") => worker'.pc = "finish"
    BY <1>1 DEF Goto, WorkerFields
  <2>6. Settle("Failed", "protected") => job'.why = "protected"
    BY SettledFor
  <2> QED
    BY <1>1, <1>3, <2>2, <2>3, <2>4, <2>5, <2>6, WorkerKeepsAttempt
<1>8. CASE PublishSuccess
  <2>1. PICK a, outputs, verdict, onTime :
            /\ a = worker.attempt /\ outputs = Durable(definition[Step].outputs)
            /\ verdict = worker.outcome.verdict /\ onTime = OnTime
    OBVIOUS
  <2>2. \/ memory' = memory /\ worker' = [worker EXCEPT !.outcome.end = "Failed"]
        \/ memory' \in CompleteAttempt(definition, memory, a, outputs, verdict, onTime)
    BY <1>8, <2>1 DEF PublishSuccess, PublishDraft, NoMutation, Mutate
  <2>3. ASSUME memory' \in CompleteAttempt(definition, memory, a, outputs, verdict, onTime)
        PROVE  memory'.state.phase \notin {"Active", "AwaitingHuman"}
    BY <1>2, <2>3, AttemptCompletes
  <2>4. worker' = [worker EXCEPT !.outcome.end = "Failed"] => worker'.pc = worker.pc
    BY <1>1 DEF WorkerFields
  <2> QED
    BY <1>1, <1>4, <2>2, <2>3, <2>4, NothingIsOpen
<1>9. CASE PersistFail
  <2>1. PICK a, onTime : a = worker.attempt /\ onTime = OnTime
    OBVIOUS
  <2>2. \/ memory' = memory /\ FailOperational
        \/ memory' \in FailAttempt(memory, a, onTime)
    BY <1>9, <2>1 DEF PersistFail, Mutate
  <2>3. ASSUME memory' \in FailAttempt(memory, a, onTime)
        PROVE  memory'.state.phase = "Failed"
    BY <1>2, <2>3, AttemptFails
  <2> QED
    BY <1>3, <2>2, <2>3, NothingIsOpen
<1>10. CASE PersistCancel
  <2>1. \/ memory' = memory /\ FailOperational
        \/ memory' \in Cancel(memory, OnTime)
    BY <1>10 DEF PersistCancel, Mutate
  <2> QED
    BY <1>3, <1>5, <2>1
<1>11. CASE PauseRun
  <2>1. PICK a, onTime : a = worker.attempt /\ onTime = OnTime
    OBVIOUS
  <2>2. \/ memory' = memory /\ FailOperational
        \/ memory' \in PauseAttempt(definition, memory, a, onTime)
    BY <1>11, <2>1 DEF PauseRun, Mutate
  <2>3. ASSUME memory' \in PauseAttempt(definition, memory, a, onTime)
        PROVE  memory'.state.phase = "Paused"
    BY <1>2, <2>3, AttemptPauses
  <2> QED
    BY <1>3, <2>2, <2>3, NothingIsOpen
<1>12. CASE PauseConversation
  <2>1. memory' = memory /\ worker.pc = "paused"
    BY <1>12 DEF PauseConversation, NoMutation, At_
  <2>2. memory.state.phase = "Paused"
    BY <2>1 DEF WorkflowInv, WorkerKnows
  <2> QED
    BY <2>1, <2>2, NothingIsOpen
<1>13. CASE ResumeWork
  <2>1. \/ memory' = memory /\ Goto("loop")
        \/ memory' = memory /\ Settle("Failed", "refused")
        \/ memory' \in Cancel(memory, OnTime)
    BY <1>13 DEF ResumeWork, NoMutation, Mutate
  <2>2. Goto("loop") => worker'.pc = "loop"
    BY <1>1 DEF Goto, WorkerFields
  <2> QED
    BY <1>3, <1>4, <1>5, <2>1, <2>2
<1> QED
  BY <1>6, <1>7, <1>8, <1>9, <1>10, <1>11, <1>12, <1>13

(* A continuation that is ended leaves a gate that can be restored.        *)
LEMMA EndedGateIsRestorable ==
    ASSUME WorkflowInv, OpenFactIsAttended, Up, server' = server, parked,
           EndContinuation,
           \/ session' = session
           \/ session' = IF parked' THEN session ELSE "gone"
    PROVE  OpenFactIsAttended'
<1>1. /\ definition \in Definitions /\ RecordIsCoherent(definition, memory)
      /\ OnTime \in BOOLEAN /\ memory.state.phase = "AwaitingHuman"
  BY DEF WorkflowInv, ControlTyped, RecordsAreCoherent, OnTime, GateIsParked
<1>2. PICK results :
          results = IF RecoverableGate(memory) THEN {memory} ELSE Interrupt(memory, OnTime)
  OBVIOUS
<1>3. \/ memory' \in results /\ Settle("Cancelled", "") /\ parked' = FALSE
      \/ memory' = memory /\ PutBack
  BY <1>2 DEF EndContinuation, Mutate
<1>4. CASE memory' = memory /\ PutBack
  <2>1. session' = session
    BY <1>4 DEF PutBack
  <2> QED
    BY <1>4, <2>1, AttendedAsBefore DEF PutBack
<1>5. CASE memory' \in results /\ Settle("Cancelled", "")
  <2>1. /\ job'.status = "Cancelled" /\ job'.why = ""
    BY <1>5, SettledFor
  <2>2. ConversationFree'
    BY <2>1 DEF ConversationFree, Up, JobActive
  <2>3. CASE RecoverableGate(memory)
    <3>1. memory' = memory
      BY <1>2, <1>5, <2>3
    <3> QED
      BY <1>1, <2>2, <2>3, <3>1 DEF OpenFactIsAttended, AttemptIsDriven, GateIsReachable
  <2>4. CASE ~RecoverableGate(memory)
    <3>1. memory' \in Interrupt(memory, OnTime)
      BY <1>2, <1>5, <2>4
    <3>2. memory'.state.phase = "Interrupted"
      BY <1>1, <3>1, RunIsInterrupted
    <3> QED
      BY <3>2, NothingIsOpen
  <2> QED
    BY <2>3, <2>4
<1> QED
  BY <1>3, <1>4, <1>5

LEMMA RequestAttends ==
    ASSUME WorkflowInv, OpenFactIsAttended, Request
    PROVE  OpenFactIsAttended'
<1>1. /\ definition \in Definitions /\ RecordIsCoherent(definition, memory)
      /\ OnTime \in BOOLEAN
  BY DEF WorkflowInv, ControlTyped, RecordsAreCoherent, OnTime
<1>2. PICK g, onTime : g = memory.state.at /\ onTime = OnTime
  OBVIOUS
<1>3. ASSUME memory' = memory, PutBack, UNCHANGED <<server, session>>
      PROVE  OpenFactIsAttended'
  BY <1>3, AttendedAsBefore DEF PutBack
<1>4. CASE StopRequest
  BY <1>4, AttendedAsBefore DEF StopRequest
<1>5. CASE Approve
  <2>1. \/ memory' \in AcceptPlan(definition, memory, g, onTime)
        \/ memory' = memory /\ PutBack /\ UNCHANGED <<server, session>>
    BY <1>2, <1>5 DEF Approve, Mutate, held
  <2>2. ASSUME memory' \in AcceptPlan(definition, memory, g, onTime)
        PROVE  memory'.state.phase \in {"Ready", "Completed"}
    BY <1>1, <2>2, PlanIsAccepted
  <2> QED
    BY <1>3, <2>1, <2>2, NothingIsOpen
<1>6. CASE Revise
  <2>1. \/ memory' \in RevisePlan(definition, memory, g, onTime)
        \/ memory' = memory /\ PutBack /\ UNCHANGED <<server, session>>
    BY <1>2, <1>6 DEF Revise, Mutate, held
  <2>2. ASSUME memory' \in RevisePlan(definition, memory, g, onTime)
        PROVE  memory'.state.phase \in {"Ready", "EscalatedAttemptLimit"}
    BY <1>1, <2>2, PlanIsRevised
  <2> QED
    BY <1>3, <2>1, <2>2, NothingIsOpen
<1>7. CASE DiscardGate
  <2>1. \/ memory' \in CancelGate(memory, g, onTime)
        \/ memory' = memory /\ PutBack /\ UNCHANGED <<server, session>>
    BY <1>2, <1>7 DEF DiscardGate, Mutate, held
  <2>2. ASSUME memory' \in CancelGate(memory, g, onTime)
        PROVE  memory'.state.phase = "Cancelled"
    BY <1>1, <2>2, GateIsCancelled
  <2> QED
    BY <1>3, <2>1, <2>2, NothingIsOpen
<1>8. CASE InterruptStaleGate
  <2>1. \/ memory' \in Interrupt(memory, OnTime)
        \/ memory' = memory /\ PutBack /\ UNCHANGED <<server, session>>
    BY <1>8 DEF InterruptStaleGate, Mutate, held
  <2>2. ASSUME memory' \in Interrupt(memory, OnTime)
        PROVE  memory'.state.phase = "Interrupted"
    BY <1>1, <2>2, RunIsInterrupted
  <2> QED
    BY <1>3, <2>1, <2>2, NothingIsOpen
<1>9. CASE ForgetProvider
  BY <1>9, EndedGateIsRestorable DEF ForgetProvider, held
<1>10. CASE PurgeSession
  <2>1. CASE parked
    BY <1>10, <2>1, EndedGateIsRestorable DEF PurgeSession
  <2>2. CASE ~parked
    BY <1>10, <2>2, AttendedAsBefore DEF PurgeSession, NoMutation
  <2> QED
    BY <2>1, <2>2
<1>11. CASE RestoreGate
  <2>1. parked' = TRUE /\ session' = "live" /\ memory' = memory
    BY <1>11 DEF RestoreGate, NoMutation
  <2>2. memory.state.phase = "AwaitingHuman"
    BY <1>11 DEF RestoreGate, RecoverableGate
  <2> QED
    BY <2>1, <2>2 DEF OpenFactIsAttended, AttemptIsDriven, GateIsReachable
<1>12. CASE ContinuePaused
  <2>1. PICK a : a = checkpoint
    OBVIOUS
  <2>2. /\ memory.state.phase = "Paused"
        /\ \/ memory' \in ResumePaused(memory, a, onTime) /\ worker'.pc = "resume"
           \/ memory' = memory
    BY <1>2, <1>12, <2>1 DEF ContinuePaused, Mutate, Worker
  <2>3. ASSUME memory' \in ResumePaused(memory, a, onTime)
        PROVE  memory'.state.phase = "Active"
    BY <1>1, <2>3, AttemptResumes
  <2> QED
    BY <2>2, <2>3, NothingIsOpen DEF OpenFactIsAttended, AttemptIsDriven, GateIsReachable
<1>13. CASE EndPause
  <2>1. \/ memory' = memory
        \/ memory' \in Cancel(memory, OnTime)
    BY <1>13 DEF EndPause, Mutate
  <2>2. UNCHANGED <<server, worker, parked, job, session>>
    BY <1>13 DEF EndPause
  <2>3. ASSUME memory' \in Cancel(memory, OnTime)
        PROVE  memory'.state.phase = "Cancelled"
    BY <1>1, <2>3, RunIsCancelled
  <2> QED
    BY <2>1, <2>2, <2>3, NothingIsOpen, AttendedAsBefore
<1> QED
  BY <1>4, <1>5, <1>6, <1>7, <1>8, <1>9, <1>10, <1>11, <1>12, <1>13 DEF Request

(* A server that comes up finds no attempt open, and gates it may restore. *)
LEMMA ServerAttends ==
    ASSUME WorkflowInv, Crash \/ OpenStore \/ InterruptActive \/ RecordRecovery
    PROVE  OpenFactIsAttended'
<1>1. CASE Crash \/ OpenStore \/ InterruptActive
  <2>1. ~Up'
    BY <1>1 DEF Crash, OpenStore, InterruptActive, Mutate, Up
  <2> QED
    BY <2>1 DEF OpenFactIsAttended
<1>2. CASE RecordRecovery
  <2>1. /\ memory.state.phase # "Active"
        /\ memory.state.phase = "AwaitingHuman" => RecoverableGate(memory)
        /\ job = NoJob
    BY <1>2 DEF RecordRecovery, WorkflowInv, StartKnows, Up
  <2>2. CASE PendingCleanup(memory) = {}
    <3>1. Up' /\ memory' = memory /\ job' = job
      BY <1>2, <2>2 DEF RecordRecovery, NoMutation, held, Up
    <3>2. ConversationFree'
      BY <2>1, <3>1 DEF ConversationFree, NoJob, JobActive
    <3> QED
      BY <2>1, <3>1, <3>2 DEF OpenFactIsAttended, AttemptIsDriven, GateIsReachable
  <2>3. CASE PendingCleanup(memory) # {}
    <3>1. ~Up'
      BY <1>2, <2>3 DEF RecordRecovery, Mutate, Up
    <3> QED
      BY <3>1 DEF OpenFactIsAttended
  <2> QED
    BY <2>2, <2>3
<1> QED
  BY <1>1, <1>2

LEMMA OpenFactsStayAttended ==
    ASSUME WorkflowInv, InputsInv, OpenFactIsAttended, [Next]_vars
    PROVE  OpenFactIsAttended'
<1>1. CASE WorkerStep
  BY <1>1, LoopAttends, ParkAttends, StepAttends DEF WorkerStep
<1>2. CASE Request
  BY <1>2, RequestAttends
<1>3. CASE Crash \/ OpenStore \/ InterruptActive \/ RecordRecovery
  BY <1>3, ServerAttends
<1>4. CASE SetClock \/ UNCHANGED vars
  BY <1>4, AttendedAsBefore DEF SetClock, vars
<1> QED
  BY <1>1, <1>2, <1>3, <1>4 DEF Next

(* An attempt that was started, paused or resumed finds its inputs again   *)
(* in the record, in memory and in the file (resolve_inputs).              *)
THEOREM OpenAttemptsResolve == Spec => []InputsInv
<1>1. Init => InputsInv
  BY InputsInvStarts
<1>2. WorkflowInv /\ InputsInv /\ [Next]_vars => InputsInv'
  BY StepMoves, InputsStayResolved
<1> QED
  BY <1>1, <1>2, WorkflowInvariance, PTL DEF Spec

(* While the server is up, what is open is attended (OpenFactIsAttended):  *)
(* the loop never ends a run whose attempt is open, because its inputs     *)
(* resolve when it is taken up again (resolve_inputs, pause_attempt,       *)
(* resume_paused); a gate has its continuation, or may be restored.        *)
THEOREM OpenFactsAreAttended == Spec => []OpenFactIsAttended
<1>1. Init => OpenFactIsAttended
  BY DEF Init, Create, Ready, At, OpenFactIsAttended, AttemptIsDriven, GateIsReachable
<1>2. WorkflowInv /\ InputsInv /\ OpenFactIsAttended /\ [Next]_vars
      => OpenFactIsAttended'
  BY OpenFactsStayAttended
<1> QED
  BY <1>1, <1>2, WorkflowInvariance, OpenAttemptsResolve, PTL DEF Spec
-----------------------------------------------------------------------------
(* Sums over finite sets.  MapThenSumSet takes the elements in the order   *)
(* CHOOSE gives; Summing is the function on sets that its recursion makes. *)
Chosen(s) == CHOOSE x \in s : TRUE

Sums(h, g, D) ==
    h = [s \in D |-> IF s = {} THEN 0 ELSE g[Chosen(s)] + h[s \ {Chosen(s)}]]

Summing(g, T) == CHOOSE h : Sums(h, g, SUBSET T)
Total(g, T) == Summing(g, T)[T]

(* A set of numbers that is not empty has a least one.                     *)
LEMMA LeastNumber ==
    ASSUME NEW N \in SUBSET Nat, N # {}
    PROVE  \E n \in N : \A m \in N : n <= m
<1> DEFINE less == {ss \in Nat \X Nat : ss[1] < ss[2]}
<1>1. IsWellFoundedOn(less, Nat)
  BY NatLessThanWellFounded DEF OpToRel
<1>2. \A x, y \in Nat : y < x => <<y, x>> \in less
  OBVIOUS
<1> HIDE DEF less
<1>3. N \subseteq Nat /\ N # {}
  OBVIOUS
<1>4. PICK n \in N : \A m \in N : ~(<<m, n>> \in less)
  BY <1>1, <1>3, WFMin
<1>5. ASSUME NEW m \in N
      PROVE  n <= m
  <2>1. m \in Nat /\ n \in Nat
    BY <1>3
  <2>2. ~(m < n)
    BY <1>2, <1>4, <2>1
  <2> QED
    BY <2>1, <2>2
<1> QED
  BY <1>5

(* A set of sets that has the empty set, and every finite set of which it  *)
(* has all the smaller ones by one element, has every finite set.          *)
LEMMA SetsOneByOne ==
    ASSUME NEW T, IsFiniteSet(T), NEW G,
           {} \in G,
           \A s \in SUBSET T : s # {} => ((\A x \in s : s \ {x} \in G) => s \in G)
    PROVE  SUBSET T \subseteq G
<1> DEFINE sizes == {Cardinality(s) : s \in {s \in SUBSET T : s \notin G}}
<1>1. \A s \in SUBSET T : IsFiniteSet(s) /\ Cardinality(s) \in Nat
  BY FS_Subset, FS_CardinalityType
<1>2. SUFFICES ASSUME sizes # {} PROVE FALSE
  BY <1>1
<1>3. sizes \in SUBSET Nat
  BY <1>1
<1>4. \A s \in SUBSET T : s \notin G => Cardinality(s) \in sizes
  OBVIOUS
<1>5. \A n \in sizes : \E s \in SUBSET T : s \notin G /\ n = Cardinality(s)
  OBVIOUS
<1> HIDE DEF sizes
<1>6. PICK n \in sizes : \A m \in sizes : n <= m
  BY <1>2, <1>3, LeastNumber
<1>7. PICK s \in SUBSET T : s \notin G /\ n = Cardinality(s)
  BY <1>5
<1>8. s # {}
  BY <1>7
<1>9. PICK x \in s : s \ {x} \notin G
  BY <1>7, <1>8
<1>10. s \ {x} \in SUBSET T
  OBVIOUS
<1>11. Cardinality(s \ {x}) = Cardinality(s) - 1
  BY <1>1, FS_RemoveElement
<1>12. n <= Cardinality(s \ {x}) /\ n \in Nat
  BY <1>3, <1>4, <1>6, <1>9, <1>10
<1> QED
  BY <1>7, <1>11, <1>12

LEMMA ChosenIsIn ==
    ASSUME NEW s, s # {}
    PROVE  Chosen(s) \in s
<1>1. \E x \in s : TRUE
  OBVIOUS
<1> QED
  BY <1>1 DEF Chosen

LEMMA SummingExists ==
    ASSUME NEW T, IsFiniteSet(T), NEW g
    PROVE  \E h : Sums(h, g, SUBSET T)
<1> DEFINE D(n) == {s \in SUBSET T : Cardinality(s) <= n}
           ns == {n \in Nat : ~ \E h : Sums(h, g, D(n))}
<1>1. \A s \in SUBSET T : IsFiniteSet(s) /\ Cardinality(s) \in Nat
  BY FS_Subset, FS_CardinalityType
<1>2. ASSUME NEW s \in SUBSET T, s # {}
      PROVE  /\ s \ {Chosen(s)} \in SUBSET T
             /\ Cardinality(s \ {Chosen(s)}) = Cardinality(s) - 1
  BY <1>1, <1>2, ChosenIsIn, FS_RemoveElement
<1>3. ASSUME NEW n \in Nat, NEW h, Sums(h, g, D(n))
      PROVE  \E k : Sums(k, g, D(n + 1))
  <2> DEFINE k == [s \in D(n + 1) |->
                     IF s = {} THEN 0 ELSE g[Chosen(s)] + h[s \ {Chosen(s)}]]
  <2>1. \A s \in D(n) : s \in D(n + 1)
    BY <1>1
  <2>2. \A s \in D(n + 1) : s # {} => s \ {Chosen(s)} \in D(n)
    BY <1>1, <1>2
  <2>3. \A s \in D(n) : k[s] = h[s]
    BY <1>3, <2>1 DEF Sums
  <2>4. \A s \in D(n + 1) :
           k[s] = IF s = {} THEN 0 ELSE g[Chosen(s)] + k[s \ {Chosen(s)}]
    <3> HIDE DEF D
    <3> QED
      BY <2>2, <2>3
  <2>5. k = [s \in D(n + 1) |-> k[s]]
    OBVIOUS
  <2> HIDE DEF k, D
  <2>6. k = [s \in D(n + 1) |->
               IF s = {} THEN 0 ELSE g[Chosen(s)] + k[s \ {Chosen(s)}]]
    BY <2>4, <2>5
  <2> QED
    BY <2>6 DEF Sums
<1>4. \E h : Sums(h, g, D(0))
  <2> DEFINE h == [s \in D(0) |-> 0]
  <2>1. \A s \in D(0) : s = {}
    BY <1>1, FS_EmptySet
  <2> HIDE DEF D
  <2>2. h = [s \in D(0) |-> IF s = {} THEN 0 ELSE g[Chosen(s)] + h[s \ {Chosen(s)}]]
    BY <2>1
  <2> QED
    BY <2>2 DEF Sums
<1>5. SUFFICES ASSUME ns # {} PROVE FALSE
  <2>1. Cardinality(T) \in Nat
    BY FS_CardinalityType
  <2>2. \A s \in SUBSET T : Cardinality(s) <= Cardinality(T)
    BY FS_Subset
  <2>3. D(Cardinality(T)) = SUBSET T
    BY <2>2
  <2>4. Cardinality(T) \notin ns
    BY <1>5
  <2> HIDE DEF D
  <2> QED
    BY <2>1, <2>3, <2>4
<1>6. ns \in SUBSET Nat
  OBVIOUS
<1>7. PICK n \in ns : \A m \in ns : n <= m
  <2> HIDE DEF ns
  <2> QED
    BY <1>5, <1>6, LeastNumber
<1>8. n # 0
  BY <1>4
<1>9. n - 1 \in Nat /\ ~(n <= n - 1)
  BY <1>6, <1>7, <1>8
<1>10. n - 1 \notin ns
  <2> HIDE DEF ns
  <2> QED
    BY <1>7, <1>9
<1> HIDE DEF D
<1>11. PICK h : Sums(h, g, D(n - 1))
  BY <1>9, <1>10
<1>12. \E k : Sums(k, g, D(n - 1 + 1))
  BY <1>3, <1>9, <1>11
<1>13. n - 1 + 1 = n
  BY <1>6, <1>7
<1> QED
  BY <1>7, <1>12, <1>13

LEMMA SummingSums ==
    ASSUME NEW T, IsFiniteSet(T), NEW g
    PROVE  Sums(Summing(g, T), g, SUBSET T)
  BY SummingExists DEF Summing

Alike(f, g, S) == \A x \in S : f[x] = g[x]

LEMMA SumsAgree ==
    ASSUME NEW T, IsFiniteSet(T), NEW S \in SUBSET T,
           NEW g, NEW h, Sums(h, g, SUBSET T),
           NEW f, NEW k, Sums(k, f, SUBSET S), Alike(f, g, S)
    PROVE  \A s \in SUBSET S : h[s] = k[s]
<1> DEFINE G == {s \in SUBSET S : h[s] = k[s]}
<1>1. IsFiniteSet(S)
  BY FS_Subset
<1>2. {} \in G
  BY DEF Sums
<1>3. ASSUME NEW s \in SUBSET S, s # {}, \A x \in s : s \ {x} \in G
      PROVE  s \in G
  <2>1. Chosen(s) \in s
    BY <1>3, ChosenIsIn
  <2>2. h[s \ {Chosen(s)}] = k[s \ {Chosen(s)}] /\ f[Chosen(s)] = g[Chosen(s)]
    BY <1>3, <2>1 DEF Alike
  <2>3. /\ h[s] = g[Chosen(s)] + h[s \ {Chosen(s)}]
        /\ k[s] = f[Chosen(s)] + k[s \ {Chosen(s)}]
    BY <1>3 DEF Sums
  <2> QED
    BY <2>2, <2>3
<1>4. \A s \in SUBSET S : s # {} => ((\A x \in s : s \ {x} \in G) => s \in G)
  BY <1>3
<1> HIDE DEF G
<1>5. SUBSET S \subseteq G
  BY <1>1, <1>2, <1>4, SetsOneByOne
<1> QED
  BY <1>5 DEF G

(* What the proofs below use of a sum.                                     *)
LEMMA SumOfNone ==
    ASSUME NEW g
    PROVE  Total(g, {}) = 0
<1>1. IsFiniteSet({})
  BY FS_EmptySet
<1>2. Sums(Summing(g, {}), g, SUBSET {})
  BY <1>1, SummingSums
<1> QED
  BY <1>2 DEF Sums, Total

LEMMA SumIsOf ==
    ASSUME NEW T, IsFiniteSet(T), NEW S \in SUBSET T, NEW g
    PROVE  Total(g, S) = Summing(g, T)[S]
<1>1. IsFiniteSet(S)
  BY FS_Subset
<1>2. Sums(Summing(g, T), g, SUBSET T) /\ Sums(Summing(g, S), g, SUBSET S)
  BY <1>1, SummingSums
<1>3. Alike(g, g, S)
  BY DEF Alike
<1>4. \A s \in SUBSET S : Summing(g, T)[s] = Summing(g, S)[s]
  BY <1>2, <1>3, SumsAgree
<1> QED
  BY <1>4 DEF Total

LEMMA SumOfSame ==
    ASSUME NEW T, IsFiniteSet(T), NEW g, NEW f, Alike(f, g, T)
    PROVE  Total(f, T) = Total(g, T)
<1>1. Sums(Summing(g, T), g, SUBSET T) /\ Sums(Summing(f, T), f, SUBSET T)
  BY SummingSums
<1>2. T \in SUBSET T
  OBVIOUS
<1> QED
  BY <1>1, <1>2, SumsAgree DEF Total

LEMMA SumByChosen ==
    ASSUME NEW T, IsFiniteSet(T), T # {}, NEW g
    PROVE  Total(g, T) = g[Chosen(T)] + Total(g, T \ {Chosen(T)})
<1>1. Sums(Summing(g, T), g, SUBSET T)
  BY SummingSums
<1>2. T \in SUBSET T /\ T \ {Chosen(T)} \in SUBSET T
  OBVIOUS
<1>3. Total(g, T \ {Chosen(T)}) = Summing(g, T)[T \ {Chosen(T)}]
  BY <1>2, SumIsOf
<1> QED
  BY <1>1, <1>2, <1>3 DEF Sums, Total

LEMMA SumType ==
    ASSUME NEW T, IsFiniteSet(T), NEW g, \A x \in T : g[x] \in Nat
    PROVE  Total(g, T) \in Nat
<1> DEFINE G == {s \in SUBSET T : Total(g, s) \in Nat}
<1>1. {} \in G
  BY SumOfNone
<1>2. ASSUME NEW s \in SUBSET T, s # {}, \A x \in s : s \ {x} \in G
      PROVE  s \in G
  <2>1. Chosen(s) \in s /\ IsFiniteSet(s)
    BY <1>2, ChosenIsIn, FS_Subset
  <2>2. Total(g, s \ {Chosen(s)}) \in Nat /\ g[Chosen(s)] \in Nat
    BY <1>2, <2>1
  <2>3. Total(g, s) = g[Chosen(s)] + Total(g, s \ {Chosen(s)})
    BY <1>2, <2>1, SumByChosen
  <2> QED
    BY <2>2, <2>3
<1>3. \A s \in SUBSET T : s # {} => ((\A x \in s : s \ {x} \in G) => s \in G)
  BY <1>2
<1> HIDE DEF G
<1>4. SUBSET T \subseteq G
  BY <1>1, <1>3, SetsOneByOne
<1> QED
  BY <1>4 DEF G

LEMMA SumWithout ==
    ASSUME NEW T, IsFiniteSet(T), NEW g, \A x \in T : g[x] \in Nat, NEW y \in T
    PROVE  Total(g, T) = g[y] + Total(g, T \ {y})
<1> DEFINE G == {s \in SUBSET T : \A x \in s : Total(g, s) = g[x] + Total(g, s \ {x})}
<1>1. {} \in G
  OBVIOUS
<1>2. ASSUME NEW s \in SUBSET T, s # {}, \A x \in s : s \ {x} \in G
      PROVE  s \in G
  <2> SUFFICES ASSUME NEW x \in s
               PROVE  Total(g, s) = g[x] + Total(g, s \ {x})
    OBVIOUS
  <2>1. PICK c : c = Chosen(s)
    OBVIOUS
  <2>2. c \in s /\ IsFiniteSet(s)
    BY <1>2, <2>1, ChosenIsIn, FS_Subset
  <2>3. Total(g, s) = g[c] + Total(g, s \ {c})
    BY <1>2, <2>1, <2>2, SumByChosen
  <2>4. CASE x = c
    BY <2>3, <2>4
  <2>5. CASE x # c
    <3>1. s \ {c} \in G /\ s \ {x} \in G
      BY <1>2, <2>2
    <3>2. Total(g, s \ {c}) = g[x] + Total(g, (s \ {c}) \ {x})
      BY <2>5, <3>1
    <3>3. Total(g, s \ {x}) = g[c] + Total(g, (s \ {x}) \ {c})
      BY <2>2, <2>5, <3>1
    <3>4. (s \ {c}) \ {x} = (s \ {x}) \ {c}
      OBVIOUS
    <3>5. g[x] \in Nat /\ g[c] \in Nat
      BY <2>2
    <3>6. Total(g, (s \ {x}) \ {c}) \in Nat
      <4>1. IsFiniteSet((s \ {x}) \ {c})
        BY <2>2, FS_Subset
      <4>2. \A z \in (s \ {x}) \ {c} : g[z] \in Nat
        OBVIOUS
      <4> QED
        BY <4>1, <4>2, SumType
    <3>7. PICK v \in Nat : v = Total(g, (s \ {x}) \ {c})
      BY <3>6
    <3>8. Total(g, s \ {c}) = g[x] + v /\ Total(g, s \ {x}) = g[c] + v
      BY <3>2, <3>3, <3>4, <3>7
    <3> QED
      BY <2>3, <3>5, <3>8
  <2> QED
    BY <2>4, <2>5
<1>3. \A s \in SUBSET T : s # {} => ((\A x \in s : s \ {x} \in G) => s \in G)
  BY <1>2
<1> HIDE DEF G
<1>4. SUBSET T \subseteq G
  BY <1>1, <1>3, SetsOneByOne
<1> QED
  BY <1>4 DEF G

(* A sum of the community modules is a Total.                              *)
LEMMA SummingIsTotal ==
    ASSUME NEW T, IsFiniteSet(T), NEW g, NEW h, Sums(h, g, SUBSET T)
    PROVE  h[T] = Total(g, T)
<1>1. Sums(Summing(g, T), g, SUBSET T)
  BY SummingSums
<1>2. Alike(g, g, T) /\ T \in SUBSET T
  BY DEF Alike
<1> QED
  BY <1>1, <1>2, SumsAgree DEF Total

LEMMA SumOverPolicies ==
    ASSUME NEW T, IsFiniteSet(T)
    PROVE  MapThenSumSet(LAMBDA p : Cardinality(Interval(p)) * Repeats(p), T)
           = Total([p \in T |-> Cardinality(Interval(p)) * Repeats(p)], T)
<1> DEFINE g == [p \in T |-> Cardinality(Interval(p)) * Repeats(p)]
           P(h) == h = [s \in SUBSET T |->
                     IF s = {} THEN 0
                     ELSE Cardinality(Interval(CHOOSE x \in s : TRUE))
                            * Repeats(CHOOSE x \in s : TRUE)
                          + h[s \ {CHOOSE x \in s : TRUE}]]
<1>1. MapThenSumSet(LAMBDA p : Cardinality(Interval(p)) * Repeats(p), T)
      = (CHOOSE h : P(h))[T]
  BY DEF MapThenSumSet, MapThenFoldSet
<1>2. ASSUME NEW h
      PROVE  P(h) <=> Sums(h, g, SUBSET T)
  <2>1. \A s \in SUBSET T : s # {} =>
            g[Chosen(s)] = Cardinality(Interval(Chosen(s))) * Repeats(Chosen(s))
    BY ChosenIsIn
  <2> HIDE DEF g
  <2>2. P(h) <=> h = [s \in SUBSET T |->
                     IF s = {} THEN 0
                     ELSE Cardinality(Interval(Chosen(s))) * Repeats(Chosen(s))
                          + h[s \ {Chosen(s)}]]
    BY DEF Chosen
  <2>3. [s \in SUBSET T |->
            IF s = {} THEN 0
            ELSE Cardinality(Interval(Chosen(s))) * Repeats(Chosen(s)) + h[s \ {Chosen(s)}]]
        = [s \in SUBSET T |->
            IF s = {} THEN 0 ELSE g[Chosen(s)] + h[s \ {Chosen(s)}]]
    BY <2>1
  <2> QED
    BY <2>2, <2>3 DEF Sums
<1> HIDE DEF P, g
<1>3. \E h : P(h)
  BY <1>2, SummingExists
<1>4. P(CHOOSE h : P(h))
  BY <1>3
<1>5. (CHOOSE h : P(h))[T] = Total(g, T)
  BY <1>2, <1>4, SummingIsTotal
<1> QED
  BY <1>1, <1>5 DEF g

LEMMA SumOverSteps ==
    ASSUME NEW T, IsFiniteSet(T), NEW d
    PROVE  MapThenSumSet(LAMBDA t : Cardinality(Durable(d[t].outputs)), T)
           = Total([t \in T |-> Cardinality(Durable(d[t].outputs))], T)
<1> DEFINE g == [t \in T |-> Cardinality(Durable(d[t].outputs))]
           P(h) == h = [s \in SUBSET T |->
                     IF s = {} THEN 0
                     ELSE Cardinality(Durable(d[CHOOSE x \in s : TRUE].outputs))
                          + h[s \ {CHOOSE x \in s : TRUE}]]
<1>1. MapThenSumSet(LAMBDA t : Cardinality(Durable(d[t].outputs)), T)
      = (CHOOSE h : P(h))[T]
  BY DEF MapThenSumSet, MapThenFoldSet
<1>2. ASSUME NEW h
      PROVE  P(h) <=> Sums(h, g, SUBSET T)
  <2>1. \A s \in SUBSET T : s # {} =>
            g[Chosen(s)] = Cardinality(Durable(d[Chosen(s)].outputs))
    BY ChosenIsIn
  <2> HIDE DEF g
  <2>2. P(h) <=> h = [s \in SUBSET T |->
                     IF s = {} THEN 0
                     ELSE Cardinality(Durable(d[Chosen(s)].outputs))
                          + h[s \ {Chosen(s)}]]
    BY DEF Chosen
  <2>3. [s \in SUBSET T |->
            IF s = {} THEN 0
            ELSE Cardinality(Durable(d[Chosen(s)].outputs)) + h[s \ {Chosen(s)}]]
        = [s \in SUBSET T |->
            IF s = {} THEN 0 ELSE g[Chosen(s)] + h[s \ {Chosen(s)}]]
    BY <2>1
  <2> QED
    BY <2>2, <2>3 DEF Sums
<1> HIDE DEF P, g
<1>3. \E h : P(h)
  BY <1>2, SummingExists
<1>4. P(CHOOSE h : P(h))
  BY <1>3
<1>5. (CHOOSE h : P(h))[T] = Total(g, T)
  BY <1>2, <1>4, SummingIsTotal
<1> QED
  BY <1>1, <1>5 DEF g

LEMMA SumOverIntervals ==
    ASSUME NEW T, IsFiniteSet(T), NEW d
    PROVE  MapThenSumSet(LAMBDA p : ArtefactsOf(d, Interval(p)) * Repeats(p), T)
           = Total([p \in T |-> ArtefactsOf(d, Interval(p)) * Repeats(p)], T)
<1> DEFINE g == [p \in T |-> ArtefactsOf(d, Interval(p)) * Repeats(p)]
           P(h) == h = [s \in SUBSET T |->
                     IF s = {} THEN 0
                     ELSE ArtefactsOf(d, Interval(CHOOSE x \in s : TRUE)) * Repeats(CHOOSE x \in s : TRUE)
                          + h[s \ {CHOOSE x \in s : TRUE}]]
<1>1. MapThenSumSet(LAMBDA p : ArtefactsOf(d, Interval(p)) * Repeats(p), T)
      = (CHOOSE h : P(h))[T]
  BY DEF MapThenSumSet, MapThenFoldSet
<1>2. ASSUME NEW h
      PROVE  P(h) <=> Sums(h, g, SUBSET T)
  <2>1. \A s \in SUBSET T : s # {} =>
            g[Chosen(s)] = ArtefactsOf(d, Interval(Chosen(s))) * Repeats(Chosen(s))
    BY ChosenIsIn
  <2> HIDE DEF g
  <2>2. P(h) <=> h = [s \in SUBSET T |->
                     IF s = {} THEN 0
                     ELSE ArtefactsOf(d, Interval(Chosen(s))) * Repeats(Chosen(s))
                          + h[s \ {Chosen(s)}]]
    BY DEF Chosen
  <2>3. [s \in SUBSET T |->
            IF s = {} THEN 0
            ELSE ArtefactsOf(d, Interval(Chosen(s))) * Repeats(Chosen(s)) + h[s \ {Chosen(s)}]]
        = [s \in SUBSET T |->
            IF s = {} THEN 0 ELSE g[Chosen(s)] + h[s \ {Chosen(s)}]]
    BY <2>1
  <2> QED
    BY <2>2, <2>3 DEF Sums
<1> HIDE DEF P, g
<1>3. \E h : P(h)
  BY <1>2, SummingExists
<1>4. P(CHOOSE h : P(h))
  BY <1>3
<1>5. (CHOOSE h : P(h))[T] = Total(g, T)
  BY <1>2, <1>4, SummingIsTotal
<1> QED
  BY <1>1, <1>5 DEF g

LEMMA SumOverAttempts ==
    ASSUME NEW T, IsFiniteSet(T), NEW run
    PROVE  MapThenSumSet(LAMBDA i : Cardinality(run.facts[i].outputs), T)
           = Total([i \in T |-> Cardinality(run.facts[i].outputs)], T)
<1> DEFINE g == [i \in T |-> Cardinality(run.facts[i].outputs)]
           P(h) == h = [s \in SUBSET T |->
                     IF s = {} THEN 0
                     ELSE Cardinality(run.facts[CHOOSE x \in s : TRUE].outputs)
                          + h[s \ {CHOOSE x \in s : TRUE}]]
<1>1. MapThenSumSet(LAMBDA i : Cardinality(run.facts[i].outputs), T)
      = (CHOOSE h : P(h))[T]
  BY DEF MapThenSumSet, MapThenFoldSet
<1>2. ASSUME NEW h
      PROVE  P(h) <=> Sums(h, g, SUBSET T)
  <2>1. \A s \in SUBSET T : s # {} =>
            g[Chosen(s)] = Cardinality(run.facts[Chosen(s)].outputs)
    BY ChosenIsIn
  <2> HIDE DEF g
  <2>2. P(h) <=> h = [s \in SUBSET T |->
                     IF s = {} THEN 0
                     ELSE Cardinality(run.facts[Chosen(s)].outputs)
                          + h[s \ {Chosen(s)}]]
    BY DEF Chosen
  <2>3. [s \in SUBSET T |->
            IF s = {} THEN 0
            ELSE Cardinality(run.facts[Chosen(s)].outputs) + h[s \ {Chosen(s)}]]
        = [s \in SUBSET T |->
            IF s = {} THEN 0 ELSE g[Chosen(s)] + h[s \ {Chosen(s)}]]
    BY <2>1
  <2> QED
    BY <2>2, <2>3 DEF Sums
<1> HIDE DEF P, g
<1>3. \E h : P(h)
  BY <1>2, SummingExists
<1>4. P(CHOOSE h : P(h))
  BY <1>3
<1>5. (CHOOSE h : P(h))[T] = Total(g, T)
  BY <1>2, <1>4, SummingIsTotal
<1> QED
  BY <1>1, <1>5 DEF g

LEMMA SumOfSingle ==
    ASSUME NEW g, NEW x, g[x] \in Nat
    PROVE  Total(g, {x}) = g[x]
<1>1. IsFiniteSet({x}) /\ \A y \in {x} : g[y] \in Nat
  BY FS_Singleton
<1>2. {x} \ {x} = {} /\ x \in {x}
  OBVIOUS
<1>3. Total(g, {x}) = g[x] + Total(g, {x} \ {x})
  BY <1>1, <1>2, SumWithout
<1> QED
  BY <1>2, <1>3, SumOfNone

LEMMA SumOfParts ==
    ASSUME NEW S, NEW R, IsFiniteSet(S), IsFiniteSet(R), S \intersect R = {},
           NEW g, \A x \in S \union R : g[x] \in Nat
    PROVE  Total(g, S \union R) = Total(g, S) + Total(g, R)
<1> DEFINE G == {r \in SUBSET R : Total(g, S \union r) = Total(g, S) + Total(g, r)}
<1>1. {} \in G
  <2>1. S \union {} = S /\ Total(g, S) \in Nat
    BY SumType
  <2> QED
    BY <2>1, SumOfNone
<1>2. ASSUME NEW r \in SUBSET R, r # {}, \A x \in r : r \ {x} \in G
      PROVE  r \in G
  <2>1. PICK x \in r : TRUE
    BY <1>2
  <2>2. IsFiniteSet(r) /\ IsFiniteSet(r \ {x}) /\ IsFiniteSet(S \union r)
    BY FS_Subset, FS_Union
  <2>3. Total(g, S \union (r \ {x})) = Total(g, S) + Total(g, r \ {x})
    BY <1>2, <2>1
  <2>4. Total(g, r) = g[x] + Total(g, r \ {x})
    BY <2>1, <2>2, SumWithout
  <2>5. (S \union r) \ {x} = S \union (r \ {x}) /\ x \in S \union r
    BY <2>1
  <2>6. Total(g, S \union r) = g[x] + Total(g, S \union (r \ {x}))
    <3>1. \A y \in S \union r : g[y] \in Nat
      OBVIOUS
    <3>2. PICK Q : Q = S \union r
      OBVIOUS
    <3>3. Total(g, Q) = g[x] + Total(g, Q \ {x})
      BY <2>2, <2>5, <3>1, <3>2, SumWithout
    <3> QED
      BY <2>5, <3>2, <3>3
  <2>7. Total(g, S) \in Nat /\ Total(g, r \ {x}) \in Nat /\ g[x] \in Nat
    <3>1. \A y \in r \ {x} : g[y] \in Nat
      OBVIOUS
    <3> QED
      BY <2>1, <2>2, <3>1, SumType
  <2> QED
    BY <2>3, <2>4, <2>6, <2>7
<1>3. \A r \in SUBSET R : r # {} => ((\A x \in r : r \ {x} \in G) => r \in G)
  BY <1>2
<1> HIDE DEF G
<1>4. SUBSET R \subseteq G
  BY <1>1, <1>3, SetsOneByOne
<1> QED
  BY <1>4 DEF G

LEMMA SumIsAtMost ==
    ASSUME NEW T, IsFiniteSet(T), NEW f, NEW g,
           \A x \in T : f[x] \in Nat /\ g[x] \in Nat /\ f[x] <= g[x]
    PROVE  Total(f, T) <= Total(g, T)
<1> DEFINE G == {s \in SUBSET T : Total(f, s) <= Total(g, s)}
<1>1. {} \in G
  BY SumOfNone
<1>2. ASSUME NEW s \in SUBSET T, s # {}, \A x \in s : s \ {x} \in G
      PROVE  s \in G
  <2>1. PICK x \in s : TRUE
    BY <1>2
  <2>2. IsFiniteSet(s) /\ IsFiniteSet(s \ {x})
    BY FS_Subset
  <2>3. Total(f, s \ {x}) <= Total(g, s \ {x})
    BY <1>2, <2>1
  <2>4. Total(f, s) = f[x] + Total(f, s \ {x}) /\ Total(g, s) = g[x] + Total(g, s \ {x})
    BY <2>1, <2>2, SumWithout
  <2>5. Total(f, s \ {x}) \in Nat /\ Total(g, s \ {x}) \in Nat
    <3>1. \A y \in s \ {x} : f[y] \in Nat /\ g[y] \in Nat
      OBVIOUS
    <3> QED
      BY <2>2, <3>1, SumType
  <2> QED
    BY <2>3, <2>4, <2>5
<1>3. \A s \in SUBSET T : s # {} => ((\A x \in s : s \ {x} \in G) => s \in G)
  BY <1>2
<1> HIDE DEF G
<1>4. SUBSET T \subseteq G
  BY <1>1, <1>3, SetsOneByOne
<1> QED
  BY <1>4 DEF G

AreNumbers(g, T) == \A x \in T : g[x] \in Nat

LEMMA SumWithMore ==
    ASSUME NEW T, IsFiniteSet(T), NEW f, NEW g, AreNumbers(f, T), AreNumbers(g, T),
           NEW y \in T, Alike(f, g, T \ {y})
    PROVE  Total(f, T) = Total(g, T) + (f[y] - g[y])
<1>1. Total(f, T) = f[y] + Total(f, T \ {y}) /\ Total(g, T) = g[y] + Total(g, T \ {y})
  BY SumWithout DEF AreNumbers
<1>2. IsFiniteSet(T \ {y}) /\ \A x \in T \ {y} : g[x] \in Nat
  BY FS_Subset DEF AreNumbers
<1>3. Total(f, T \ {y}) = Total(g, T \ {y})
  BY <1>2, SumOfSame
<1>4. Total(g, T \ {y}) \in Nat
  BY <1>2, SumType
<1> QED
  BY <1>1, <1>3, <1>4 DEF AreNumbers

LEMMA SumOfOnes ==
    ASSUME NEW T, IsFiniteSet(T), NEW g, \A x \in T : g[x] = 1
    PROVE  Total(g, T) = Cardinality(T)
<1> DEFINE G == {s \in SUBSET T : Total(g, s) = Cardinality(s)}
<1>1. {} \in G
  BY SumOfNone, FS_EmptySet
<1>2. ASSUME NEW s \in SUBSET T, s # {}, \A x \in s : s \ {x} \in G
      PROVE  s \in G
  <2>1. PICK x \in s : TRUE
    BY <1>2
  <2>2. IsFiniteSet(s) /\ \A y \in s : g[y] \in Nat
    BY FS_Subset
  <2>3. Total(g, s \ {x}) = Cardinality(s \ {x})
    BY <1>2, <2>1
  <2>4. Total(g, s) = g[x] + Total(g, s \ {x})
    BY <2>1, <2>2, SumWithout
  <2>5. Cardinality(s \ {x}) = Cardinality(s) - 1 /\ Cardinality(s) \in Nat
    BY <2>1, <2>2, FS_RemoveElement, FS_CardinalityType
  <2> QED
    BY <2>1, <2>3, <2>4, <2>5
<1>3. \A s \in SUBSET T : s # {} => ((\A x \in s : s \ {x} \in G) => s \in G)
  BY <1>2
<1> HIDE DEF G
<1>4. SUBSET T \subseteq G
  BY <1>1, <1>3, SetsOneByOne
<1> QED
  BY <1>4 DEF G

-----------------------------------------------------------------------------
(* Policies and what they let a run repeat.                                *)
LEMMA PolicyIsValid ==
    ASSUME NEW d \in Definitions, NEW p \in Policies(d)
    PROVE  /\ p.from \in Steps(d) /\ p.target \in 1 .. p.from - 1
           /\ p.limit \in Nat /\ p.limit >= 1
           /\ Interval(p) \subseteq Steps(d)
           /\ IsFiniteSet(Interval(p))
           /\ Cardinality(Interval(p)) \in Nat
<1>1. d \in Seq(StepType) /\ ReviewPolicies(d) /\ HumanRevisions(d)
  BY DefinitionsAreValid DEF Valid
<1>2. Len(d) \in Nat /\ Steps(d) = 1 .. Len(d) /\ d \in [1 .. Len(d) -> StepType]
  BY <1>1, LenProperties DEF Steps
<1>3. PICK s \in Steps(d) : \E q \in {d[s].review, d[s].revision} :
          /\ p = [from |-> s, target |-> q.target, limit |-> q.limit]
          /\ q # NoPolicy
  BY DEF Policies
<1>4. PICK q \in {d[s].review, d[s].revision} :
          /\ p = [from |-> s, target |-> q.target, limit |-> q.limit]
          /\ q # NoPolicy
  BY <1>3
<1>5. q \in PolicyType
  BY <1>2, <1>4 DEF StepType
<1>6. q.target \in 1 .. s - 1 /\ q.limit \in 1 .. MAXIMUM_REVIEW_ATTEMPTS
  <2>1. CASE q = d[s].review
    BY <1>1, <1>4, <2>1 DEF ReviewPolicies, LimitAllowed
  <2>2. CASE q = d[s].revision
    BY <1>1, <1>4, <2>2 DEF HumanRevisions, LimitAllowed
  <2> QED
    BY <1>4, <2>1, <2>2
<1>7. q.limit \in Nat /\ q.limit >= 1
  BY <1>5, <1>6, MaximaAreNumbers DEF PolicyType
<1>8. p.from = s /\ p.target = q.target /\ p.limit = q.limit
  BY <1>4
<1>9. Interval(p) \subseteq Steps(d)
  BY <1>2, <1>4, <1>6, <1>8 DEF Interval
<1>10. IsFiniteSet(Interval(p))
  <2>1. IsFiniteSet(1 .. Len(d))
    BY <1>2, FS_Interval
  <2> QED
    BY <1>2, <1>9, <2>1, FS_Subset
<1> QED
  BY <1>4, <1>6, <1>7, <1>8, <1>9, <1>10, FS_CardinalityType

LEMMA PoliciesAreFinite ==
    ASSUME NEW d \in Definitions
    PROVE  IsFiniteSet(Policies(d)) /\ IsFiniteSet(Steps(d))
<1> DEFINE Of(s, p) == [from |-> s, target |-> p.target, limit |-> p.limit]
           f == [s \in Steps(d) |-> Of(s, d[s].review)]
           g == [s \in Steps(d) |-> Of(s, d[s].revision)]
           F == {f[s] : s \in Steps(d)}
           G == {g[s] : s \in Steps(d)}
<1>1. IsFiniteSet(Steps(d))
  BY DefinitionIsValid, FS_Interval
<1>2. IsFiniteSet(F)
  <2>1. f \in Surjection(Steps(d), F)
    BY DEF Surjection
  <2> QED
    BY <1>1, <2>1, FS_Surjection
<1>3. IsFiniteSet(G)
  <2>1. g \in Surjection(Steps(d), G)
    BY DEF Surjection
  <2> QED
    BY <1>1, <2>1, FS_Surjection
<1>4. Policies(d) \subseteq F \union G
  BY DEF Policies
<1> HIDE DEF F, G
<1>5. IsFiniteSet(F \union G)
  BY <1>2, <1>3, FS_Union
<1> QED
  BY <1>1, <1>4, <1>5, FS_Subset

LEMMA PlanIsPolicy ==
    ASSUME NEW d \in Definitions, NEW s \in Steps(d), Plan(d)[s] # NoPolicy
    PROVE  [from |-> s, target |-> Plan(d)[s].target, limit |-> Plan(d)[s].limit]
               \in Policies(d)
<1>1. CASE d[s].review # NoPolicy
  BY <1>1 DEF Plan, Policies
<1>2. CASE d[s].review = NoPolicy
  BY <1>2 DEF Plan, Policies
<1> QED
  BY <1>1, <1>2

(* The budget of a run.  Every step has a weight.  What a run has used,    *)
(* and what the steps that are left to do weigh, is at most the weight of  *)
(* the plan and of what was repeated after a return.                       *)
Undone(d, place) == IF place = 0 THEN {} ELSE place .. Len(d)

InPlan(d, p) ==
    p = [from |-> p.from, target |-> Plan(d)[p.from].target,
         limit |-> Plan(d)[p.from].limit]

Repeated(d, run, w) ==
    [p \in Policies(d) |->
        IF InPlan(d, p) THEN Total(w, Interval(p)) * Returns(run, p.from) ELSE 0]

Budget(d, run, w, used) ==
    used + Total(w, Undone(d, Place(d, run)))
        <= Total(w, Steps(d)) + Total(Repeated(d, run, w), Policies(d))

(* A policy sends a run back less often than its limit.                    *)
ReturnsAreLimited(d, run) ==
    \A s \in Steps(d) : Plan(d)[s] # NoPolicy => Returns(run, s) < Plan(d)[s].limit

IsWeight(d, w) == \A s \in Steps(d) : w[s] \in Nat

LEMMA ReturnsStayLimited ==
    ASSUME NEW d \in Definitions, NEW run, NEW next,
           ReturnsAreLimited(d, run), Moves(d, run, next),
           \A s \in Steps(d) : Returns(run, s) \in Nat
    PROVE  ReturnsAreLimited(d, next)
<1> SUFFICES ASSUME NEW s \in Steps(d), Plan(d)[s] # NoPolicy
             PROVE  Returns(next, s) < Plan(d)[s].limit
  BY DEF ReturnsAreLimited
<1>1. Returns(run, s) < Plan(d)[s].limit
  BY DEF ReturnsAreLimited
<1>2. \/ Returns(next, s) = Returns(run, s)
      \/ Returns(next, s) = Returns(run, s) + 1 /\ Returns(run, s) + 1 < Plan(d)[s].limit
  BY DEF Moves, Stays
<1> QED
  BY <1>1, <1>2

LEMMA WeighsANumber ==
    ASSUME NEW d \in Definitions, NEW w, IsWeight(d, w), NEW S \in SUBSET Steps(d)
    PROVE  IsFiniteSet(S) /\ Total(w, S) \in Nat
<1>1. IsFiniteSet(S)
  BY PoliciesAreFinite, FS_Subset
<1>2. \A s \in S : w[s] \in Nat
  BY DEF IsWeight
<1> QED
  BY <1>1, <1>2, SumType

LEMMA ProductIsNumber ==
    ASSUME NEW a \in Nat, NEW b \in Nat
    PROVE  a * b \in Nat
  OBVIOUS

ReturnsAreNumbers(d, run) == \A s \in Steps(d) : Returns(run, s) \in Nat

LEMMA RepeatedIsNumber ==
    ASSUME NEW d \in Definitions, NEW w, IsWeight(d, w), NEW run,
           ReturnsAreNumbers(d, run)
    PROVE  /\ AreNumbers(Repeated(d, run, w), Policies(d))
           /\ Total(Repeated(d, run, w), Policies(d)) \in Nat
<1>1. ASSUME NEW p \in Policies(d)
      PROVE  Repeated(d, run, w)[p] \in Nat
  <2>1. Returns(run, p.from) \in Nat /\ Total(w, Interval(p)) \in Nat
    BY PolicyIsValid, WeighsANumber DEF ReturnsAreNumbers
  <2>2. Total(w, Interval(p)) * Returns(run, p.from) \in Nat
    BY <2>1, ProductIsNumber
  <2> QED
    BY <2>2 DEF Repeated
<1> HIDE DEF Repeated
<1>2. IsFiniteSet(Policies(d))
  BY PoliciesAreFinite
<1>3. PICK g : g = Repeated(d, run, w)
  OBVIOUS
<1>4. Total(g, Policies(d)) \in Nat
  BY <1>1, <1>2, <1>3, SumType
<1> QED
  BY <1>1, <1>3, <1>4 DEF AreNumbers

LEMMA UndoneOf ==
    ASSUME NEW d \in Definitions, NEW place \in Steps(d), NEW w, IsWeight(d, w)
    PROVE  /\ Total(w, Undone(d, place)) = w[place] + Total(w, Undone(d, place + 1))
           /\ Total(w, Undone(d, place)) \in Nat
           /\ Total(w, Undone(d, place + 1)) \in Nat
           /\ w[place] \in Nat
<1>1. Len(d) \in Nat /\ Steps(d) = 1 .. Len(d)
  BY DefinitionIsValid
<1>2. PICK S : S = place .. Len(d)
  OBVIOUS
<1>3. /\ S \in SUBSET Steps(d) /\ place \in S
      /\ S \ {place} = (place + 1) .. Len(d) /\ S \ {place} \in SUBSET Steps(d)
  BY <1>1, <1>2
<1>4. Undone(d, place) = S /\ Undone(d, place + 1) = S \ {place}
  BY <1>1, <1>2, <1>3 DEF Undone
<1>5. /\ IsFiniteSet(S) /\ Total(w, S) \in Nat /\ Total(w, S \ {place}) \in Nat
      /\ \A s \in S : w[s] \in Nat
  BY <1>3, WeighsANumber DEF IsWeight
<1>6. Total(w, S) = w[place] + Total(w, S \ {place})
  BY <1>3, <1>5, SumWithout
<1> QED
  BY <1>3, <1>4, <1>5, <1>6

LEMMA UndoneAgain ==
    ASSUME NEW d \in Definitions, NEW p \in Policies(d), NEW w, IsWeight(d, w)
    PROVE  /\ Total(w, Undone(d, p.target))
                  = Total(w, Interval(p)) + Total(w, Undone(d, p.from + 1))
           /\ Total(w, Interval(p)) \in Nat
<1>1. Len(d) \in Nat /\ Steps(d) = 1 .. Len(d)
  BY DefinitionIsValid
<1>2. p.from \in 1 .. Len(d) /\ p.target \in 1 .. p.from - 1
  BY <1>1, PolicyIsValid
<1>3. PICK S, R : S = p.target .. p.from /\ R = (p.from + 1) .. Len(d)
  OBVIOUS
<1>4. /\ S \in SUBSET Steps(d) /\ R \in SUBSET Steps(d) /\ S \intersect R = {}
      /\ S \union R = p.target .. Len(d)
  BY <1>1, <1>2, <1>3
<1>5. IsFiniteSet(S) /\ IsFiniteSet(R) /\ Total(w, S) \in Nat
  BY <1>4, WeighsANumber
<1>6. \A s \in S \union R : w[s] \in Nat
  BY <1>4 DEF IsWeight
<1>7. Total(w, S \union R) = Total(w, S) + Total(w, R)
  BY <1>4, <1>5, <1>6, SumOfParts
<1>8. Undone(d, p.target) = S \union R /\ Undone(d, p.from + 1) = R /\ Interval(p) = S
  BY <1>2, <1>3, <1>4 DEF Undone, Interval
<1> QED
  BY <1>5, <1>7, <1>8

LEMMA SameRepeated ==
    ASSUME NEW d \in Definitions, NEW w, NEW run, NEW next,
           \A s \in Steps(d) : Returns(next, s) = Returns(run, s)
    PROVE  Total(Repeated(d, next, w), Policies(d)) = Total(Repeated(d, run, w), Policies(d))
<1>1. \A p \in Policies(d) : Returns(next, p.from) = Returns(run, p.from)
  BY PolicyIsValid
<1>2. Repeated(d, next, w) = Repeated(d, run, w)
  BY <1>1 DEF Repeated
<1> QED
  BY <1>2

PolicyOf(d, s) ==
    [from |-> s, target |-> Plan(d)[s].target, limit |-> Plan(d)[s].limit]

IsSentBack(d, run, next, s) ==
    \A t \in Steps(d) : Returns(next, t) = Returns(run, t) + (IF t = s THEN 1 ELSE 0)

LEMMA RepeatedOnceMore ==
    ASSUME NEW d \in Definitions, NEW w, IsWeight(d, w), NEW run, NEW next,
           ReturnsAreNumbers(d, run),
           NEW s \in Steps(d), Plan(d)[s] # NoPolicy,
           IsSentBack(d, run, next, s)
    PROVE  /\ PolicyOf(d, s) \in Policies(d)
           /\ Total(Repeated(d, next, w), Policies(d))
                  = Total(Repeated(d, run, w), Policies(d))
                    + Total(w, Interval(PolicyOf(d, s)))
<1>. PICK p : p = PolicyOf(d, s)
  OBVIOUS
<1>1. p \in Policies(d) /\ p.from = s /\ InPlan(d, p)
  BY PlanIsPolicy DEF InPlan, PolicyOf
<1>2. \A t \in Steps(d) :
          /\ Returns(next, t) = Returns(run, t) + (IF t = s THEN 1 ELSE 0)
          /\ Returns(next, t) \in Nat /\ Returns(run, t) \in Nat
  BY DEF IsSentBack, ReturnsAreNumbers
<1>3. \A q \in Policies(d) : InPlan(d, q) /\ q.from = s => q = p
  BY DEF InPlan, PolicyOf
<1>4. PICK f, g : f = Repeated(d, next, w) /\ g = Repeated(d, run, w)
  OBVIOUS
<1>5. AreNumbers(f, Policies(d)) /\ AreNumbers(g, Policies(d))
  <2>1. ReturnsAreNumbers(d, next)
    BY <1>2 DEF ReturnsAreNumbers
  <2> QED
    BY <1>4, <2>1, RepeatedIsNumber
<1>6. f[p] - g[p] = Total(w, Interval(p))
  <2>1. PICK a \in Nat, r \in Nat : a = Total(w, Interval(p)) /\ r = Returns(run, s)
    BY <1>1, UndoneAgain DEF ReturnsAreNumbers
  <2>2. f[p] = a * (r + 1) /\ g[p] = a * r
    BY <1>1, <1>2, <1>4, <2>1 DEF Repeated
  <2>3. a * (r + 1) = a * r + a
    OBVIOUS
  <2>4. a * r \in Nat
    BY ProductIsNumber
  <2> QED
    BY <2>1, <2>2, <2>3, <2>4
<1>7. Alike(f, g, Policies(d) \ {p})
  <2> SUFFICES ASSUME NEW q \in Policies(d), q # p
               PROVE  f[q] = g[q]
    BY DEF Alike
  <2>1. InPlan(d, q) => Returns(next, q.from) = Returns(run, q.from)
    <3>1. q.from \in Steps(d) /\ Returns(run, q.from) \in Nat
      BY <1>2, PolicyIsValid
    <3> QED
      BY <1>2, <1>3, <3>1
  <2> QED
    BY <1>4, <2>1 DEF Repeated
<1>8. IsFiniteSet(Policies(d))
  BY PoliciesAreFinite
<1>9. Total(f, Policies(d)) = Total(g, Policies(d)) + (f[p] - g[p])
  BY <1>1, <1>5, <1>7, <1>8, SumWithMore
<1> QED
  BY <1>1, <1>4, <1>6, <1>9

LEMMA BudgetIsKept ==
    ASSUME NEW d \in Definitions, NEW w, IsWeight(d, w), NEW run, NEW next,
           ReturnsAreNumbers(d, run), Moves(d, run, next),
           Place(d, run) \in Steps(d) \union {0, Len(d) + 1},
           NEW used \in Nat, NEW spent \in Nat, Budget(d, run, w, used),
           spent <= used + (IF Busy(run) /\ ~Busy(next) THEN w[Place(d, run)] ELSE 0)
    PROVE  Budget(d, next, w, spent)
<1> DEFINE Left(r) == Total(w, Undone(d, Place(d, r)))
           Again(r) == Total(Repeated(d, r, w), Policies(d))
<1>1. Total(w, Steps(d)) \in Nat /\ Again(run) \in Nat
  BY WeighsANumber, RepeatedIsNumber
<1>2. used + Left(run) <= Total(w, Steps(d)) + Again(run)
  BY DEF Budget
<1>3. SUFFICES spent + Left(next) <= Total(w, Steps(d)) + Again(next)
  BY DEF Budget
<1>4. CASE Stays(d, run, next) /\ (Busy(next) = Busy(run) \/ ~Busy(run))
  <2>1. Left(next) = Left(run) /\ Again(next) = Again(run) /\ spent <= used
    BY <1>4, SameRepeated DEF Stays
  <2>2. Left(run) \in Int
    <3>1. CASE Place(d, run) \in Steps(d)
      BY <3>1, UndoneOf
    <3>2. CASE Place(d, run) \notin Steps(d)
      <4>1. Undone(d, Place(d, run)) = {}
        BY <3>2, DefinitionIsValid DEF Undone
      <4> QED
        BY <4>1, SumOfNone
    <3> QED
      BY <3>1, <3>2
  <2> HIDE DEF Left, Again
  <2> QED
    BY <1>1, <1>2, <2>1, <2>2
<1>5. ASSUME NEW s \in Steps(d), s = Place(d, run), Busy(run), ~Busy(next)
      PROVE  /\ Left(run) = w[s] + Total(w, Undone(d, s + 1))
             /\ Total(w, Undone(d, s + 1)) \in Nat
             /\ w[s] \in Nat /\ spent <= used + w[s]
  BY <1>5, UndoneOf
<1>6. ASSUME NEW s \in Steps(d), s = Place(d, run), Busy(run), ~Busy(next),
             Place(d, next) = s + 1,
             \A t \in Steps(d) : Returns(next, t) = Returns(run, t)
      PROVE  spent + Left(next) <= Total(w, Steps(d)) + Again(next)
  <2>1. Again(next) = Again(run) /\ Left(next) = Total(w, Undone(d, s + 1))
    BY <1>6, SameRepeated
  <2> HIDE DEF Left, Again
  <2> QED
    BY <1>1, <1>2, <1>5, <1>6, <2>1
<1>7. ASSUME NEW s \in Steps(d), s = Place(d, run), Busy(run), ~Busy(next),
             Returns(run, s) + 1 < Plan(d)[s].limit,
             Place(d, next) = Plan(d)[s].target,
             \A t \in Steps(d) :
                 Returns(next, t) = Returns(run, t) + (IF t = s THEN 1 ELSE 0)
      PROVE  spent + Left(next) <= Total(w, Steps(d)) + Again(next)
  <2>1. Plan(d)[s] # NoPolicy
    <3>1. Returns(run, s) \in Nat
      BY DEF ReturnsAreNumbers
    <3>2. NoPolicy.limit = 0
      BY DEF NoPolicy
    <3> QED
      BY <1>7, <3>1, <3>2
  <2>2. PICK p : p = PolicyOf(d, s)
    OBVIOUS
  <2>3. p \in Policies(d) /\ Again(next) = Again(run) + Total(w, Interval(p))
    <3>1. IsSentBack(d, run, next, s) /\ ReturnsAreNumbers(d, run)
      BY <1>7 DEF IsSentBack
    <3> HIDE DEF Left, Again
    <3>2. /\ p \in Policies(d)
          /\ Total(Repeated(d, next, w), Policies(d))
                 = Total(Repeated(d, run, w), Policies(d)) + Total(w, Interval(p))
      BY <2>1, <2>2, <3>1, RepeatedOnceMore
    <3> QED
      BY <3>2 DEF Again
  <2>4. /\ Left(next) = Total(w, Interval(p)) + Total(w, Undone(d, s + 1))
        /\ Total(w, Interval(p)) \in Nat
    BY <1>7, <2>2, <2>3, UndoneAgain DEF PolicyOf
  <2> HIDE DEF Left, Again
  <2> QED
    BY <1>1, <1>2, <1>5, <1>7, <2>3, <2>4
<1>8. ASSUME NEW s \in Steps(d), s = Place(d, run), ~Busy(next), Place(d, next) = 0,
             \A t \in Steps(d) : Returns(next, t) = Returns(run, t)
      PROVE  spent + Left(next) <= Total(w, Steps(d)) + Again(next)
  <2>1. Again(next) = Again(run) /\ Left(next) = 0
    BY <1>8, SameRepeated, SumOfNone DEF Undone
  <2>2. /\ Left(run) = w[s] + Total(w, Undone(d, s + 1))
        /\ Total(w, Undone(d, s + 1)) \in Nat
        /\ w[s] \in Nat
    BY <1>8, UndoneOf
  <2>3. spent <= used + w[s]
    BY <1>8, <2>2
  <2> HIDE DEF Left, Again
  <2> QED
    BY <1>1, <1>2, <2>1, <2>2, <2>3
<1> HIDE DEF Left, Again
<1> QED
  BY <1>4, <1>6, <1>7, <1>8 DEF Moves

Repeatable(d, w) ==
    Total([p \in Policies(d) |-> Total(w, Interval(p)) * Repeats(p)], Policies(d))

LEMMA BudgetHolds ==
    ASSUME NEW d \in Definitions, NEW w, IsWeight(d, w), NEW run,
           ReturnsAreLimited(d, run), ReturnsAreNumbers(d, run),
           NEW used \in Nat, Budget(d, run, w, used),
           Place(d, run) \in Steps(d) \union {0, Len(d) + 1}
    PROVE  used + Total(w, Undone(d, Place(d, run)))
               <= Total(w, Steps(d)) + Repeatable(d, w)
<1> DEFINE g == [p \in Policies(d) |-> Total(w, Interval(p)) * Repeats(p)]
<1>1. ASSUME NEW p \in Policies(d)
      PROVE  Repeated(d, run, w)[p] \in Nat /\ g[p] \in Nat /\ Repeated(d, run, w)[p] <= g[p]
  <2>1. /\ p.from \in Steps(d) /\ p.limit \in Nat /\ p.limit >= 1
        /\ Interval(p) \subseteq Steps(d) /\ p.target \in 1 .. p.from - 1
    BY PolicyIsValid
  <2>2. PICK a \in Nat, r \in Nat, l \in Nat :
            a = Total(w, Interval(p)) /\ r = Returns(run, p.from) /\ l = Repeats(p)
    BY <2>1, WeighsANumber DEF Repeats, ReturnsAreNumbers
  <2>3. a * r \in Nat /\ a * l \in Nat
    BY ProductIsNumber
  <2>4. Repeated(d, run, w)[p] = IF InPlan(d, p) THEN a * r ELSE 0
    BY <2>2 DEF Repeated
  <2>5. g[p] = a * l
    BY <2>2
  <2>6. ASSUME InPlan(d, p)
        PROVE  a * r <= a * l
    <3>1. Plan(d)[p.from].limit = p.limit
      BY <2>6 DEF InPlan
    <3>2. Plan(d)[p.from] # NoPolicy
      BY <2>1, <3>1 DEF NoPolicy
    <3>3. r < p.limit
      BY <2>1, <2>2, <3>1, <3>2 DEF ReturnsAreLimited
    <3>4. r <= l
      BY <2>1, <2>2, <3>3 DEF Repeats
    <3>5. PICK k \in Nat : l = r + k
      <4>1. l - r \in Nat /\ l = r + (l - r)
        BY <3>4
      <4> QED
        BY <4>1
    <3>6. a * (r + k) = a * r + a * k /\ a * k \in Nat
      BY ProductIsNumber
    <3> QED
      BY <2>3, <3>5, <3>6
  <2> QED
    BY <2>3, <2>4, <2>5, <2>6
<1>2. IsFiniteSet(Policies(d))
  BY PoliciesAreFinite
<1>3. PICK f, h : f = Repeated(d, run, w) /\ h = g
  OBVIOUS
<1> HIDE DEF g
<1>4. Total(f, Policies(d)) <= Total(h, Policies(d))
  BY <1>1, <1>2, <1>3, SumIsAtMost
<1>5. Total(f, Policies(d)) \in Nat /\ Total(h, Policies(d)) \in Nat
  BY <1>1, <1>2, <1>3, SumType
<1>6. Total(w, Steps(d)) \in Nat
  BY WeighsANumber
<1>7. Total(w, Undone(d, Place(d, run))) \in Nat
  <2>1. Undone(d, Place(d, run)) \in SUBSET Steps(d)
    <3>1. Len(d) \in Nat /\ Steps(d) = 1 .. Len(d)
      BY DefinitionIsValid
    <3> QED
      BY <3>1 DEF Undone
  <2> QED
    BY <2>1, WeighsANumber
<1>8. used + Total(w, Undone(d, Place(d, run))) <= Total(w, Steps(d)) + Total(f, Policies(d))
  BY <1>3 DEF Budget
<1> QED
  BY <1>3, <1>4, <1>5, <1>6, <1>7, <1>8 DEF g, Repeatable

-----------------------------------------------------------------------------
(* The two budgets of a record.  A fact weighs one, and a fact that is     *)
(* over leaves at most the artefacts its step declares.                    *)
Ones(d) == [s \in Steps(d) |-> 1]
Weights(d) == [s \in Steps(d) |-> Cardinality(Durable(d[s].outputs))]

Closed(run) == Len(run.facts) - (IF Busy(run) THEN 1 ELSE 0)

LEMMA DurableIsFinite ==
    ASSUME NEW kinds
    PROVE  IsFiniteSet(Durable(kinds)) /\ Cardinality(Durable(kinds)) \in Nat
<1>1. IsFiniteSet({"Plan"} \union {"ReviewReport"} \union {"TestReport"} \union {"PlanDecision"})
  BY FS_Singleton, FS_Union
<1>2. Durable(kinds) \subseteq
          ({"Plan"} \union {"ReviewReport"} \union {"TestReport"} \union {"PlanDecision"})
  BY DEF Durable, ArtefactKind
<1>3. IsFiniteSet(Durable(kinds))
  BY <1>1, <1>2, FS_Subset
<1> QED
  BY <1>3, FS_CardinalityType

LEMMA WeightsAreWeights ==
    ASSUME NEW d \in Definitions
    PROVE  IsWeight(d, Ones(d)) /\ IsWeight(d, Weights(d))
  BY DurableIsFinite DEF IsWeight, Ones, Weights

LEMMA RepeatableIsNumber ==
    ASSUME NEW d \in Definitions, NEW w, IsWeight(d, w)
    PROVE  Repeatable(d, w) \in Nat
<1>1. PICK g : g = [p \in Policies(d) |-> Total(w, Interval(p)) * Repeats(p)]
  OBVIOUS
<1>2. ASSUME NEW p \in Policies(d)
      PROVE  g[p] \in Nat
  <2>1. Total(w, Interval(p)) \in Nat /\ Repeats(p) \in Nat
    BY PolicyIsValid, WeighsANumber DEF Repeats
  <2> QED
    BY <1>1, <2>1, ProductIsNumber
<1> QED
  BY <1>1, <1>2, PoliciesAreFinite, SumType DEF Repeatable

LEMMA ArtefactsAreWeights ==
    ASSUME NEW d \in Definitions, NEW S \in SUBSET Steps(d)
    PROVE  ArtefactsOf(d, S) = Total(Weights(d), S)
<1> DEFINE g == [t \in S |-> Cardinality(Durable(d[t].outputs))]
<1>1. IsFiniteSet(S)
  BY PoliciesAreFinite, FS_Subset
<1>2. ArtefactsOf(d, S) = Total(g, S)
  BY <1>1, SumOverSteps DEF ArtefactsOf
<1>3. Alike(g, Weights(d), S)
  BY DEF Alike, Weights
<1> HIDE DEF g
<1>4. PICK f : f = g
  OBVIOUS
<1>5. Total(f, S) = Total(Weights(d), S)
  BY <1>1, <1>3, <1>4, SumOfSame
<1> QED
  BY <1>2, <1>4, <1>5

LEMMA BoundsAreTotals ==
    ASSUME NEW d \in Definitions
    PROVE  /\ AttemptBound(d) =
                  Total(Ones(d), Steps(d)) + Repeatable(d, Ones(d))
           /\ ArtefactBound(d) =
                  1 + Total(Weights(d), Steps(d)) + Repeatable(d, Weights(d))
<1>1. IsFiniteSet(Policies(d)) /\ IsFiniteSet(Steps(d))
  BY PoliciesAreFinite
<1>2. ASSUME NEW S \in SUBSET Steps(d)
      PROVE  Total(Ones(d), S) = Cardinality(S)
  <2>1. IsFiniteSet(S) /\ \A s \in S : Ones(d)[s] = 1
    BY <1>1, FS_Subset DEF Ones
  <2> QED
    BY <2>1, SumOfOnes
<1>3. Cardinality(Steps(d)) = Len(d)
  <2>1. Len(d) \in Nat /\ Len(d) > 0 /\ Steps(d) = 1 .. Len(d)
    BY DefinitionIsValid
  <2>2. PICK n \in Nat : n = Len(d) /\ n > 0
    BY <2>1
  <2>3. Cardinality(1 .. n) = IF 1 > n THEN 0 ELSE n - 1 + 1
    BY FS_Interval
  <2> QED
    BY <2>1, <2>2, <2>3
<1>4. \A p \in Policies(d) : Interval(p) \in SUBSET Steps(d)
  BY PolicyIsValid
<1>5. [p \in Policies(d) |-> Cardinality(Interval(p)) * Repeats(p)]
      = [p \in Policies(d) |-> Total(Ones(d), Interval(p)) * Repeats(p)]
  BY <1>2, <1>4
<1>6. [p \in Policies(d) |-> ArtefactsOf(d, Interval(p)) * Repeats(p)]
      = [p \in Policies(d) |-> Total(Weights(d), Interval(p)) * Repeats(p)]
  BY <1>4, ArtefactsAreWeights
<1>7. Total(Ones(d), Steps(d)) = Len(d)
  BY <1>2, <1>3
<1>8. ArtefactsOf(d, Steps(d)) = Total(Weights(d), Steps(d))
  BY ArtefactsAreWeights
<1>9. AttemptBound(d) =
          Len(d) + Total([p \in Policies(d) |-> Cardinality(Interval(p)) * Repeats(p)],
                         Policies(d))
  BY <1>1, SumOverPolicies DEF AttemptBound
<1>10. ArtefactBound(d) =
          1 + ArtefactsOf(d, Steps(d))
            + Total([p \in Policies(d) |-> ArtefactsOf(d, Interval(p)) * Repeats(p)],
                    Policies(d))
  BY <1>1, SumOverIntervals DEF ArtefactBound
<1> QED
  BY <1>5, <1>6, <1>7, <1>8, <1>9, <1>10 DEF Repeatable

LEMMA PlaceIsKnown ==
    ASSUME NEW d \in Definitions, NEW run, RecordIsCoherent(d, run)
    PROVE  /\ Place(d, run) \in Steps(d) \union {0, Len(d) + 1}
           /\ Busy(run) => Place(d, run) \in Steps(d)
<1>1. run.state.phase \in OpenPhase => run.state.step \in Steps(d)
  BY DEF RecordIsCoherent, StateIsCoherent
<1>2. run.state.phase \in OpenPhase \union TerminalPhase
  BY DEF RecordIsCoherent, StateIsCoherent
<1> QED
  BY <1>1, <1>2 DEF Place, Busy, IsTerminal, OpenPhase, TerminalPhase

LEMMA UndoneWeighs ==
    ASSUME NEW d \in Definitions, NEW w, IsWeight(d, w),
           NEW place \in Steps(d) \union {0, Len(d) + 1}
    PROVE  /\ Total(w, Undone(d, place)) \in Nat
           /\ place \in Steps(d) => Total(w, Undone(d, place)) >= w[place]
<1>1. CASE place \in Steps(d)
  BY <1>1, UndoneOf
<1>2. CASE place \notin Steps(d)
  <2>1. Undone(d, place) = {}
    BY <1>2, DefinitionIsValid DEF Undone
  <2> QED
    BY <1>2, <2>1, SumOfNone
<1> QED
  BY <1>1, <1>2

LEMMA RecordIsWithinBounds ==
    ASSUME NEW d \in Definitions, NEW run, RecordIsCoherent(d, run),
           ReturnsAreLimited(d, run),
           Budget(d, run, Ones(d), Closed(run)),
           NEW count \in Nat, Budget(d, run, Weights(d), count)
    PROVE  Len(run.facts) <= AttemptBound(d) /\ count <= MAXIMUM_ARTEFACTS
<1>1. IsWeight(d, Ones(d)) /\ IsWeight(d, Weights(d))
  BY WeightsAreWeights
<1>2. ReturnsAreNumbers(d, run)
  BY ReturnsAreFinite DEF ReturnsAreNumbers, RecordIsCoherent
<1>3. PICK place \in Steps(d) \union {0, Len(d) + 1} : place = Place(d, run)
  BY PlaceIsKnown
<1>4. Len(run.facts) \in Nat /\ Closed(run) \in Nat
  <2>1. Len(run.facts) \in Nat /\ (Busy(run) => Len(run.facts) > 0)
    BY SequenceLength DEF RecordIsCoherent, StateIsCoherent
  <2> QED
    BY <2>1 DEF Closed
<1>5. Closed(run) + Total(Ones(d), Undone(d, place)) <= AttemptBound(d)
  BY <1>1, <1>2, <1>3, <1>4, BudgetHolds, BoundsAreTotals
<1>6. /\ Total(Ones(d), Undone(d, place)) \in Nat
      /\ Busy(run) => Total(Ones(d), Undone(d, place)) >= 1
  <2>1. Busy(run) => place \in Steps(d)
    BY <1>3, PlaceIsKnown
  <2>2. place \in Steps(d) => Ones(d)[place] = 1
    BY DEF Ones
  <2> QED
    BY <1>1, <2>1, <2>2, UndoneWeighs
<1>7. WithinBounds(d)
  BY DefinitionsAreValid DEF Valid
<1>8. /\ Total(Ones(d), Steps(d)) \in Nat /\ Total(Weights(d), Steps(d)) \in Nat
      /\ Repeatable(d, Ones(d)) \in Nat /\ Repeatable(d, Weights(d)) \in Nat
  <2>1. Total(Ones(d), Steps(d)) \in Nat /\ Total(Weights(d), Steps(d)) \in Nat
    BY <1>1, WeighsANumber
  <2>2. Repeatable(d, Ones(d)) \in Nat /\ Repeatable(d, Weights(d)) \in Nat
    BY <1>1, RepeatableIsNumber
  <2> QED
    BY <2>1, <2>2
<1>9. Len(run.facts) <= AttemptBound(d)
  <2>1. AttemptBound(d) = Total(Ones(d), Steps(d)) + Repeatable(d, Ones(d))
    BY BoundsAreTotals
  <2>2. AttemptBound(d) \in Nat
    BY <1>8, <2>1
  <2>3. Closed(run) = IF Busy(run) THEN Len(run.facts) - 1 ELSE Len(run.facts)
    BY <1>4 DEF Closed
  <2> QED
    BY <1>4, <1>5, <1>6, <2>2, <2>3
<1>10. /\ count + Total(Weights(d), Undone(d, place)) <= ArtefactBound(d) - 1
       /\ Total(Weights(d), Undone(d, place)) \in Nat
  <2>1. Total(Weights(d), Undone(d, place)) \in Nat
    BY <1>1, UndoneWeighs
  <2>2. count + Total(Weights(d), Undone(d, place))
            <= Total(Weights(d), Steps(d)) + Repeatable(d, Weights(d))
    BY <1>1, <1>2, <1>3, BudgetHolds
  <2>3. ArtefactBound(d) = 1 + Total(Weights(d), Steps(d)) + Repeatable(d, Weights(d))
    BY BoundsAreTotals
  <2> QED
    BY <1>8, <2>1, <2>2, <2>3
<1>11. MAXIMUM_ARTEFACTS \in Nat /\ ArtefactBound(d) <= MAXIMUM_ARTEFACTS
  BY <1>7, MaximaAreNumbers DEF WithinBounds
<1>12. ArtefactBound(d) \in Nat
  BY <1>8, BoundsAreTotals
<1> QED
  BY <1>9, <1>10, <1>11, <1>12

-----------------------------------------------------------------------------
(* A record that can be loaded, with what makes it stay so.  Each fact     *)
(* continues from the state the facts before it lead to.                   *)
GateStates == {"AwaitingDecision", "Approved", "RevisionRequested", "Cancelled",
               "Interrupted"}
LastFactStates == {"Active", "Paused", "AwaitingDecision"}

AttemptLoads(d, run, i, f) ==
    /\ ReferencesLoad(run, i)
    /\ f.inputs = ResolveInputsBefore(d, Before(run, i), f.step)
    /\ AttemptResultLoads(d, f)
    /\ AttemptIsolationLoads(f)
    /\ f.route = IF f.state = "Completed" THEN RouteOf(d, run, i, f.verdict) ELSE "None"
    /\ f.outputs = IF f.state = "Completed" THEN Durable(d[f.step].outputs) ELSE {}

GateLoads(d, run, i, f) ==
    /\ Stored(run, i, f.candidate)
    /\ CandidateResolves(d, run, i)
    /\ f.state \in GateStates

FactLoads(d, run, i) ==
    /\ Predicted(d, run, i - 1) = Ready(run.facts[i].step)
    /\ run.facts[i].fact = "attempt" => AttemptLoads(d, run, i, run.facts[i])
    /\ run.facts[i].fact = "gate" => GateLoads(d, run, i, run.facts[i])

FactsLoad(d, run) == \A i \in DOMAIN run.facts : FactLoads(d, run, i)

OpenIsNamed(run) ==
    \A i \in DOMAIN run.facts :
        run.facts[i].state \in LastFactStates => Busy(run) /\ i = Len(run.facts)

StateLoads(d, run) ==
    \/ run.state = Predicted(d, run, Len(run.facts))
    \/ /\ Predicted(d, run, Len(run.facts)).phase = "Ready"
       /\ run.state \in {Ended(p) : p \in {"Failed", "Cancelled", "Interrupted"}}

ReservationStands(d, run) ==
    IsReserved(run) =>
        LET r == run.reservation
            gate == run.facts[r.gate] IN
        /\ r.gate \in DOMAIN run.facts
        /\ gate.fact = "gate" /\ gate.state = "RevisionRequested"
        /\ d[gate.step].revision # NoPolicy
        /\ d[gate.step].revision.target = r.target
        /\ \/ r.attempt = 0 /\ run.state = Ready(r.target)
           \/ r.attempt # 0 /\ \E p \in AttemptOpen : run.state = At(p, r.target, r.attempt)

BudgetsHold(d, run) ==
    /\ ReturnsAreLimited(d, run)
    /\ Budget(d, run, Ones(d), Closed(run))
    /\ Budget(d, run, Weights(d), ArtefactCount(run))

RecordLoads(d, run) ==
    /\ FactsLoad(d, run)
    /\ OpenIsNamed(run)
    /\ StateLoads(d, run)
    /\ ReservationStands(d, run)
    /\ BudgetsHold(d, run)

(* What a fact leaves in the store of artefacts.                           *)
Artefacts(f) ==
    IF f.fact = "attempt" THEN Cardinality(f.outputs)
    ELSE IF f.state \in {"Approved", "RevisionRequested"} THEN 1 ELSE 0

ArtefactsLeft(facts) == [i \in DOMAIN facts |-> Artefacts(facts[i])]

LEMMA SumOfZeros ==
    ASSUME NEW T, IsFiniteSet(T), NEW g, \A x \in T : g[x] = 0
    PROVE  Total(g, T) = 0
<1> DEFINE G == {s \in SUBSET T : Total(g, s) = 0}
<1>1. {} \in G
  BY SumOfNone
<1>2. ASSUME NEW s \in SUBSET T, s # {}, \A x \in s : s \ {x} \in G
      PROVE  s \in G
  <2>1. PICK x \in s : TRUE
    BY <1>2
  <2>2. IsFiniteSet(s) /\ \A y \in s : g[y] \in Nat
    BY FS_Subset
  <2>3. Total(g, s \ {x}) = 0
    BY <1>2, <2>1
  <2>4. Total(g, s) = g[x] + Total(g, s \ {x})
    BY <2>1, <2>2, SumWithout
  <2> QED
    BY <2>1, <2>3, <2>4
<1>3. \A s \in SUBSET T : s # {} => ((\A x \in s : s \ {x} \in G) => s \in G)
  BY <1>2
<1> HIDE DEF G
<1>4. SUBSET T \subseteq G
  BY <1>1, <1>3, SetsOneByOne
<1> QED
  BY <1>4 DEF G

LEMMA FactsAreFinite ==
    ASSUME NEW d, NEW run, RecordIsCoherent(d, run)
    PROVE  /\ IsFiniteSet(DOMAIN run.facts)
           /\ IsFiniteSet(Attempts(run)) /\ IsFiniteSet(Gates(run))
           /\ DOMAIN run.facts = Attempts(run) \union Gates(run)
           /\ Attempts(run) \intersect Gates(run) = {}
<1>1. Len(run.facts) \in Nat /\ DOMAIN run.facts = 1 .. Len(run.facts)
  BY SequenceLength DEF RecordIsCoherent
<1>2. IsFiniteSet(DOMAIN run.facts)
  BY <1>1, FS_Interval
<1>3. \A i \in DOMAIN run.facts : run.facts[i].fact \in {"attempt", "gate"}
  BY DEF RecordIsCoherent, FactIsCoherent
<1>4. Attempts(run) \subseteq DOMAIN run.facts /\ Gates(run) \subseteq DOMAIN run.facts
  BY DEF Attempts, Gates
<1> QED
  BY <1>2, <1>3, <1>4, FS_Subset DEF Attempts, Gates

LEMMA ArtefactsAreNumbers ==
    ASSUME NEW d, NEW run, RecordIsCoherent(d, run), FactsLoad(d, run)
    PROVE  AreNumbers(ArtefactsLeft(run.facts), DOMAIN run.facts)
<1> SUFFICES ASSUME NEW i \in DOMAIN run.facts
             PROVE  Artefacts(run.facts[i]) \in Nat
  BY DEF AreNumbers, ArtefactsLeft
<1>1. CASE run.facts[i].fact = "attempt"
  <2>1. run.facts[i].outputs = {} \/ \E kinds : run.facts[i].outputs = Durable(kinds)
    BY <1>1 DEF FactsLoad, FactLoads, AttemptLoads
  <2>2. Cardinality(run.facts[i].outputs) \in Nat
    BY <2>1, DurableIsFinite, FS_EmptySet
  <2> QED
    BY <1>1, <2>2 DEF Artefacts
<1>2. CASE run.facts[i].fact # "attempt"
  BY <1>2 DEF Artefacts
<1> QED
  BY <1>1, <1>2

LEMMA ArtefactsAreCounted ==
    ASSUME NEW d, NEW run, RecordIsCoherent(d, run), FactsLoad(d, run)
    PROVE  /\ ArtefactCount(run) = Total(ArtefactsLeft(run.facts), DOMAIN run.facts)
           /\ ArtefactCount(run) \in Nat
<1> DEFINE Decided == {i \in Gates(run) :
                          run.facts[i].state \in {"Approved", "RevisionRequested"}}
           Undecided == Gates(run) \ Decided
           h == ArtefactsLeft(run.facts)
           k == [i \in Attempts(run) |-> Cardinality(run.facts[i].outputs)]
<1>1. /\ IsFiniteSet(DOMAIN run.facts)
      /\ IsFiniteSet(Attempts(run)) /\ IsFiniteSet(Gates(run))
      /\ DOMAIN run.facts = Attempts(run) \union Gates(run)
      /\ Attempts(run) \intersect Gates(run) = {}
  BY FactsAreFinite
<1>2. IsFiniteSet(Decided) /\ IsFiniteSet(Undecided)
  BY <1>1, FS_Subset
<1>3. \A i \in DOMAIN run.facts : h[i] \in Nat
  BY ArtefactsAreNumbers DEF AreNumbers
<1>4. Gates(run) = Decided \union Undecided /\ Decided \intersect Undecided = {}
  OBVIOUS
<1>5. \A i \in Decided : h[i] = 1
  BY <1>1 DEF ArtefactsLeft, Artefacts, Gates
<1>6. \A i \in Undecided : h[i] = 0
  BY <1>1 DEF ArtefactsLeft, Artefacts, Gates
<1>7. Alike(k, h, Attempts(run))
  BY <1>1 DEF Alike, ArtefactsLeft, Artefacts, Attempts
<1>8. ArtefactCount(run) = Cardinality(Decided) + Total(k, Attempts(run))
  BY <1>1, SumOverAttempts DEF ArtefactCount
<1> HIDE DEF Decided, Undecided, h, k
<1>9. PICK e, f, A, D, U : /\ e = h /\ f = k /\ A = Attempts(run)
                           /\ D = Decided /\ U = Undecided
  OBVIOUS
<1>10. Total(e, A \union (D \union U)) = Total(e, A) + Total(e, D \union U)
  BY <1>1, <1>3, <1>4, <1>9, SumOfParts
<1>11. Total(e, D \union U) = Total(e, D) + Total(e, U)
  BY <1>1, <1>2, <1>3, <1>4, <1>9, SumOfParts
<1>12. Total(e, D) = Cardinality(D)
  BY <1>2, <1>5, <1>9, SumOfOnes
<1>13. Total(e, U) = 0
  BY <1>2, <1>6, <1>9, SumOfZeros
<1>14. Total(f, A) = Total(e, A)
  BY <1>1, <1>7, <1>9, SumOfSame
<1>15. Total(e, A) \in Nat /\ Cardinality(D) \in Nat
  <2>1. \A i \in A : e[i] \in Nat
    BY <1>1, <1>3, <1>9
  <2> QED
    BY <1>1, <1>2, <1>9, <2>1, SumType, FS_CardinalityType
<1>16. ArtefactCount(run) = Cardinality(D) + Total(e, A)
  BY <1>8, <1>9, <1>14
<1>17. Total(e, A \union (D \union U)) = Total(e, A) + Cardinality(D)
  BY <1>10, <1>11, <1>12, <1>13, <1>15
<1>18. A \union (D \union U) = DOMAIN run.facts
  BY <1>1, <1>4, <1>9
<1> QED
  BY <1>9, <1>15, <1>16, <1>17, <1>18 DEF h

-----------------------------------------------------------------------------
(* Such a record passes validate_loaded, unless it is a revision that was  *)
(* paused.                                                                 *)
LEMMA ArtefactsOfRecordLoad ==
    ASSUME NEW d, NEW run, FactsLoad(d, run)
    PROVE  ArtefactsLoad(run)
<1>1. \A i \in Attempts(run) : ReferencesLoad(run, i)
  BY DEF FactsLoad, FactLoads, AttemptLoads, Attempts
<1>2. \A i \in Gates(run) : Stored(run, i, run.facts[i].candidate)
  BY DEF FactsLoad, FactLoads, GateLoads, Gates
<1> QED
  BY <1>1, <1>2 DEF ArtefactsLoad

LEMMA AttemptsOfRecordLoad ==
    ASSUME NEW d, NEW run, RecordIsCoherent(d, run), FactsLoad(d, run), OpenIsNamed(run)
    PROVE  AttemptsLoad(d, run) /\ ReviewRoutesLoad(d, run)
<1>1. Len(run.facts) \in Nat /\ DOMAIN run.facts = 1 .. Len(run.facts)
  BY SequenceLength DEF RecordIsCoherent
<1>2. ASSUME NEW i \in Attempts(run)
      PROVE  /\ i \in DOMAIN run.facts /\ run.facts[i].fact = "attempt"
             /\ AttemptLoads(d, run, i, run.facts[i])
             /\ FactIsCoherent(d, run.facts[i])
  BY DEF FactsLoad, FactLoads, Attempts, RecordIsCoherent
<1>3. ASSUME NEW i \in Attempts(run), run.facts[i].state \in AttemptOpen
      PROVE  \A j \in Attempts(run) : j <= i
  <2>1. i = Len(run.facts)
    BY <1>2, <1>3 DEF OpenIsNamed, LastFactStates, AttemptOpen
  <2> QED
    BY <1>1, <2>1 DEF Attempts
<1>4. \A i \in Attempts(run) : ~IsGate(d, run.facts[i].step)
  BY <1>2 DEF FactIsCoherent
<1>5. AttemptsLoad(d, run)
  BY <1>2, <1>3, <1>4 DEF AttemptsLoad, AttemptLoads
<1>6. ReviewRoutesLoad(d, run)
  BY <1>2 DEF ReviewRoutesLoad, AttemptLoads
<1> QED
  BY <1>5, <1>6

LEMMA GatesOfRecordLoad ==
    ASSUME NEW d, NEW run, RecordIsCoherent(d, run), OpenIsNamed(run)
    PROVE  GatesLoad(d, run)
<1>1. Len(run.facts) \in Nat /\ DOMAIN run.facts = 1 .. Len(run.facts)
  BY SequenceLength DEF RecordIsCoherent
<1>2. ASSUME NEW i \in Gates(run)
      PROVE  IsGate(d, run.facts[i].step) /\ run.facts[i].candidate.kind = "Plan"
  BY DEF Gates, RecordIsCoherent, FactIsCoherent
<1>3. ASSUME NEW i \in Gates(run), run.facts[i].state = "AwaitingDecision"
      PROVE  \A j \in Gates(run) : j <= i
  <2>1. i = Len(run.facts)
    BY <1>3 DEF OpenIsNamed, LastFactStates, Gates
  <2> QED
    BY <1>1, <2>1 DEF Gates
<1> QED
  BY <1>2, <1>3 DEF GatesLoad

LEMMA StateOfRecordLoads ==
    ASSUME NEW d, NEW run, FactsLoad(d, run), StateLoads(d, run)
    PROVE  StateFactsLoad(d, run)
<1>1. ASSUME NEW i \in DOMAIN run.facts
      PROVE  /\ Predicted(d, run, i - 1) = Ready(run.facts[i].step)
             /\ i \in Gates(run) => CandidateResolves(d, run, i)
  BY DEF FactsLoad, FactLoads, GateLoads, Gates
<1> QED
  BY <1>1 DEF StateFactsLoad, StateLoads

LEMMA ReservationOfRecordLoads ==
    ASSUME NEW d, NEW run, ReservationStands(d, run),
           ~(run.state.phase = "Paused" /\ IsReserved(run))
    PROVE  ReservationLoads(d, run)
<1> SUFFICES ASSUME IsReserved(run)
             PROVE  LET r == run.reservation
                        gate == run.facts[r.gate] IN
                    /\ gate.fact = "gate" /\ gate.state = "RevisionRequested"
                    /\ d[gate.step].revision.target = r.target
                    /\ IF r.attempt = 0 THEN run.state = Ready(r.target)
                       ELSE run.state = At("Active", r.target, r.attempt)
  BY DEF ReservationLoads
<1> DEFINE r == run.reservation
           gate == run.facts[r.gate]
<1>1. /\ gate.fact = "gate" /\ gate.state = "RevisionRequested"
      /\ d[gate.step].revision.target = r.target
      /\ \/ r.attempt = 0 /\ run.state = Ready(r.target)
         \/ r.attempt # 0 /\ \E p \in AttemptOpen : run.state = At(p, r.target, r.attempt)
  BY DEF ReservationStands
<1>2. ASSUME r.attempt # 0
      PROVE  run.state = At("Active", r.target, r.attempt)
  <2>1. PICK p \in AttemptOpen : run.state = At(p, r.target, r.attempt)
    BY <1>1, <1>2
  <2>2. run.state.phase = p
    BY <2>1 DEF At
  <2>3. p = "Active"
    BY <2>2 DEF AttemptOpen
  <2> QED
    BY <2>1, <2>3
<1> QED
  BY <1>1, <1>2

LEMMA LoadedRecordLoads ==
    ASSUME NEW d \in Definitions, NEW run, RecordIsCoherent(d, run), RecordLoads(d, run),
           ~(run.state.phase = "Paused" /\ IsReserved(run))
    PROVE  Loads(d, run)
<1>1. /\ FactsLoad(d, run) /\ OpenIsNamed(run) /\ StateLoads(d, run)
      /\ ReservationStands(d, run) /\ ReturnsAreLimited(d, run)
      /\ Budget(d, run, Ones(d), Closed(run))
      /\ Budget(d, run, Weights(d), ArtefactCount(run))
  BY DEF RecordLoads, BudgetsHold
<1>2. Len(run.facts) <= AttemptBound(d) /\ ArtefactCount(run) <= MAXIMUM_ARTEFACTS
  <2>1. ArtefactCount(run) \in Nat
    BY <1>1, ArtefactsAreCounted
  <2> QED
    BY <1>1, <2>1, RecordIsWithinBounds
<1>3. ArtefactsLoad(run) /\ AttemptsLoad(d, run) /\ ReviewRoutesLoad(d, run)
  BY <1>1, ArtefactsOfRecordLoad, AttemptsOfRecordLoad
<1>4. GatesLoad(d, run) /\ StateFactsLoad(d, run) /\ ReservationLoads(d, run)
  BY <1>1, GatesOfRecordLoad, StateOfRecordLoads, ReservationOfRecordLoads
<1> QED
  BY <1>2, <1>3, <1>4 DEF Loads

-----------------------------------------------------------------------------
(* What a record says of a fact depends on the facts before it, and not on *)
(* how their sandboxes were cleaned up.                                    *)
SameRecordFact(f, g) ==
    /\ f.fact = g.fact /\ f.step = g.step /\ f.state = g.state
    /\ f.fact = "attempt" =>
           /\ f.outputs = g.outputs /\ f.route = g.route /\ f.inputs = g.inputs
           /\ f.verdict = g.verdict /\ f.continuation = g.continuation
    /\ f.fact = "gate" => f.candidate = g.candidate

SameUpTo(run, next, n) ==
    /\ IsSequence(run.facts) /\ IsSequence(next.facts)
    /\ n \in Nat /\ n <= Len(run.facts) /\ n <= Len(next.facts)
    /\ \A j \in 1 .. n : SameRecordFact(run.facts[j], next.facts[j])

LEMMA BeginningOf ==
    ASSUME NEW s, IsSequence(s), NEW n \in Nat, n <= Len(s)
    PROVE  /\ IsSequence(SubSeq(s, 1, n))
           /\ Len(SubSeq(s, 1, n)) = n
           /\ \A j \in 1 .. n : SubSeq(s, 1, n)[j] = s[j]
<1>1. PICK S : S = {s[i] : i \in DOMAIN s}
  OBVIOUS
<1>2. s \in Seq(S) /\ Len(s) \in Nat
  BY <1>1, SequenceLength DEF IsSequence
<1>3. \A i \in 1 .. n : s[i] \in S
  <2>1. DOMAIN s = 1 .. Len(s)
    BY SequenceLength
  <2> QED
    BY <1>1, <1>2, <2>1
<1>4. /\ SubSeq(s, 1, n) \in Seq(S)
      /\ Len(SubSeq(s, 1, n)) = n
      /\ \A j \in 1 .. n : SubSeq(s, 1, n)[j] = s[j]
  BY <1>2, <1>3, SubSeqProperties
<1> QED
  BY <1>4, SequenceOfOwn

LEMMA SameViewResolves ==
    ASSUME NEW d, NEW t, NEW u, SameView(t, u), NEW s
    PROVE  ResolveInputsBefore(d, u, s) = ResolveInputsBefore(d, t, s)
<1> DEFINE Of(facts) == [state |-> Ready(s), facts |-> facts, reservation |-> NoReservation]
<1>1. ASSUME NEW facts
      PROVE  /\ ExecutorInputs(d, Of(facts)) = ResolveInputsBefore(d, facts, s)
             /\ CurrentPlan(Of(facts)) = LatestPlan(facts)
             /\ Of(facts).state.step = s /\ Of(facts).facts = facts
  <2>1. /\ Of(facts).state.step = s /\ Of(facts).facts = facts
        /\ Of(facts).reservation = NoReservation
    BY DEF Ready, At
  <2>2. CurrentPlan(Of(facts)) = LatestPlan(facts)
    <3> HIDE DEF Of
    <3> QED
      BY <2>1 DEF CurrentPlan, IsReserved
  <2> HIDE DEF Of
  <2> QED
    BY <2>1, <2>2 DEF ExecutorInputs, ResolveInputsBefore, ResolveWith, ResolvedBefore
<1>2. PICK run, next : run = Of(t) /\ next = Of(u)
  OBVIOUS
<1> HIDE DEF Of
<1>3. PlansOf(u) = PlansOf(t)
  BY SameSelections
<1>4. LatestPlan(u) = LatestPlan(t)
  BY <1>3, LatestPlanIsLast
<1>5. LatestPlan(t).kind # "PlanDecision"
  BY LatestPlanIsLast DEF NoReference, Reference
<1>6. SameInputs(run, next)
  BY <1>1, <1>2, <1>4, <1>5 DEF SameInputs
<1>7. ExecutorInputs(d, next) = ExecutorInputs(d, run)
  BY <1>6, SameInputsResolve
<1> QED
  BY <1>1, <1>2, <1>7

LEMMA SameFactsAreAlike ==
    ASSUME NEW run, NEW next, NEW n, SameUpTo(run, next, n)
    PROVE  /\ SameView(SubSeq(run.facts, 1, n), SubSeq(next.facts, 1, n))
           /\ DOMAIN run.facts = 1 .. Len(run.facts) /\ Len(run.facts) \in Nat
           /\ DOMAIN next.facts = 1 .. Len(next.facts) /\ Len(next.facts) \in Nat
           /\ \A j \in 1 .. n :
                 /\ j \in DOMAIN run.facts /\ j \in DOMAIN next.facts
                 /\ SameRecordFact(run.facts[j], next.facts[j])
<1>1. /\ IsSequence(run.facts) /\ IsSequence(next.facts)
      /\ n \in Nat /\ n <= Len(run.facts) /\ n <= Len(next.facts)
  BY DEF SameUpTo
<1>2. /\ IsSequence(SubSeq(run.facts, 1, n)) /\ IsSequence(SubSeq(next.facts, 1, n))
      /\ Len(SubSeq(run.facts, 1, n)) = n /\ Len(SubSeq(next.facts, 1, n)) = n
      /\ \A j \in 1 .. n : SubSeq(run.facts, 1, n)[j] = run.facts[j]
      /\ \A j \in 1 .. n : SubSeq(next.facts, 1, n)[j] = next.facts[j]
  BY <1>1, BeginningOf
<1>3. \A j \in 1 .. n : SameFact(run.facts[j], next.facts[j])
  BY DEF SameUpTo, SameRecordFact, SameFact
<1>4. SameView(SubSeq(run.facts, 1, n), SubSeq(next.facts, 1, n))
  BY <1>1, <1>2, <1>3 DEF SameView
<1>5. /\ DOMAIN run.facts = 1 .. Len(run.facts) /\ Len(run.facts) \in Nat
      /\ DOMAIN next.facts = 1 .. Len(next.facts) /\ Len(next.facts) \in Nat
  BY <1>1, SequenceLength
<1> QED
  BY <1>1, <1>4, <1>5 DEF SameUpTo

LEMMA ResolvesAlike ==
    ASSUME NEW d, NEW run, NEW next, NEW i \in Int, SameUpTo(run, next, i - 1), NEW s
    PROVE  ResolveInputsBefore(d, Before(next, i), s) = ResolveInputsBefore(d, Before(run, i), s)
  BY SameFactsAreAlike, SameViewResolves DEF Before

LEMMA StoredAlike ==
    ASSUME NEW run, NEW next, NEW i \in Int, SameUpTo(run, next, i - 1),
           NEW ref, Stored(run, i, ref)
    PROVE  Stored(next, i, ref)
<1>1. ref.by \in 1 .. i - 1
  BY DEF Stored
<1>2. SameRecordFact(run.facts[ref.by], next.facts[ref.by])
  BY <1>1, SameFactsAreAlike
<1> QED
  BY <1>1, <1>2 DEF Stored, SameRecordFact

LEMMA PredictedAlike ==
    ASSUME NEW d, NEW run, NEW next, NEW n, SameUpTo(run, next, n)
    PROVE  Predicted(d, next, n) = Predicted(d, run, n)
<1>1. CASE n = 0
  BY <1>1 DEF Predicted
<1>2. CASE n # 0
  <2>1. n \in 1 .. n
    BY <1>2 DEF SameUpTo
  <2>2. SameRecordFact(run.facts[n], next.facts[n])
    BY <2>1, SameFactsAreAlike
  <2>3. PredictedFromAttempt(d, next, n) = PredictedFromAttempt(d, run, n)
            \/ run.facts[n].fact # "attempt"
    BY <2>2 DEF PredictedFromAttempt, SameRecordFact
  <2>4. ASSUME NEW g, g \in Nat, g <= n
        PROVE  /\ g \in Gates(run) <=> g \in Gates(next)
               /\ g \in Gates(run) => /\ run.facts[g].step = next.facts[g].step
                                      /\ run.facts[g].state = next.facts[g].state
    <3>1. CASE g \in 1 .. n
      BY <3>1, SameFactsAreAlike DEF SameRecordFact, Gates
    <3>2. CASE g \notin 1 .. n
      <4>1. g \notin DOMAIN run.facts /\ g \notin DOMAIN next.facts
        BY <2>4, <3>2, SameFactsAreAlike
      <4> QED
        BY <4>1 DEF Gates
    <3> QED
      BY <3>1, <3>2
  <2>5. Gates(run) \subseteq Nat /\ Gates(next) \subseteq Nat
    BY SameFactsAreAlike DEF Gates
  <2>6. RevisionsUpTo(next, n) = RevisionsUpTo(run, n)
    <3>1. {g \in Gates(next) : /\ g <= n
                               /\ next.facts[g].step = next.facts[n].step
                               /\ next.facts[g].state = "RevisionRequested"}
          = {g \in Gates(run) : /\ g <= n
                                /\ run.facts[g].step = run.facts[n].step
                                /\ run.facts[g].state = "RevisionRequested"}
      BY <2>2, <2>4, <2>5 DEF SameRecordFact
    <3> QED
      BY <3>1 DEF RevisionsUpTo
  <2>7. PredictedFromGate(d, next, n) = PredictedFromGate(d, run, n)
    BY <2>2, <2>6 DEF PredictedFromGate, SameRecordFact
  <2> QED
    BY <1>2, <2>2, <2>3, <2>7 DEF Predicted, SameRecordFact
<1> QED
  BY <1>1, <1>2

LEMMA RouteAlike ==
    ASSUME NEW d, NEW run, NEW next, NEW i \in Int, SameUpTo(run, next, i - 1),
           i \in DOMAIN run.facts, i \in DOMAIN next.facts,
           next.facts[i].fact = run.facts[i].fact, next.facts[i].step = run.facts[i].step,
           NEW verdict
    PROVE  RouteOf(d, next, i, verdict) = RouteOf(d, run, i, verdict)
<1>1. ASSUME NEW j, j \in Int, j <= i
      PROVE  /\ j \in Attempts(next) <=> j \in Attempts(run)
             /\ j \in Attempts(run) => next.facts[j].step = run.facts[j].step
  <2>1. CASE j = i
    BY <2>1 DEF Attempts
  <2>2. CASE j \in 1 .. i - 1
    BY <2>2, SameFactsAreAlike DEF Attempts, SameRecordFact
  <2>3. CASE j < 1
    <3>1. j \notin DOMAIN run.facts /\ j \notin DOMAIN next.facts
      BY <1>1, <2>3, SameFactsAreAlike
    <3> QED
      BY <3>1 DEF Attempts
  <2> QED
    BY <1>1, <2>1, <2>2, <2>3
<1>2. Attempts(run) \subseteq Int /\ Attempts(next) \subseteq Int
  BY SameFactsAreAlike DEF Attempts
<1>3. {j \in Attempts(next) : j <= i /\ next.facts[j].step = next.facts[i].step}
      = {j \in Attempts(run) : j <= i /\ run.facts[j].step = run.facts[i].step}
  BY <1>1, <1>2
<1>4. Ordinal(next, i) = Ordinal(run, i)
  BY <1>3 DEF Ordinal
<1> QED
  BY <1>4 DEF RouteOf, ReviewRoute

(* What a fact must be for the record to load again, once it changed.      *)
FactIsNow(d, run, next, i) ==
    LET f == run.facts[i]
        g == next.facts[i] IN
    /\ g.fact = f.fact /\ g.step = f.step
    /\ f.fact = "attempt" =>
          /\ g.inputs = f.inputs
          /\ AttemptResultLoads(d, g)
          /\ AttemptIsolationLoads(g)
          /\ g.route = IF g.state = "Completed" THEN RouteOf(d, run, i, g.verdict) ELSE "None"
          /\ g.outputs = IF g.state = "Completed" THEN Durable(d[g.step].outputs) ELSE {}
    /\ f.fact = "gate" => g.candidate = f.candidate /\ g.state \in GateStates

LEMMA ChangedFactLoads ==
    ASSUME NEW d, NEW run, NEW next, NEW i \in Int, SameUpTo(run, next, i - 1),
           i \in DOMAIN run.facts, i \in DOMAIN next.facts,
           FactLoads(d, run, i), FactIsNow(d, run, next, i)
    PROVE  FactLoads(d, next, i)
<1> DEFINE f == run.facts[i]
           g == next.facts[i]
<1>1. g.fact = f.fact /\ g.step = f.step
  BY DEF FactIsNow
<1>2. Predicted(d, next, i - 1) = Ready(g.step)
  BY <1>1, PredictedAlike DEF FactLoads
<1>3. ASSUME f.fact = "attempt"
      PROVE  AttemptLoads(d, next, i, g)
  <2>1. /\ g.inputs = f.inputs /\ AttemptResultLoads(d, g) /\ AttemptIsolationLoads(g)
        /\ g.route = IF g.state = "Completed" THEN RouteOf(d, run, i, g.verdict) ELSE "None"
        /\ g.outputs = IF g.state = "Completed" THEN Durable(d[g.step].outputs) ELSE {}
    BY <1>3 DEF FactIsNow
  <2>2. ReferencesLoad(run, i) /\ f.inputs = ResolveInputsBefore(d, Before(run, i), f.step)
    BY <1>3 DEF FactLoads, AttemptLoads
  <2>3. \A ref : Stored(run, i, ref) => Stored(next, i, ref)
    BY StoredAlike
  <2>4. ReferencesLoad(next, i)
    <3> HIDE DEF f, g
    <3>1. f = run.facts[i] /\ g = next.facts[i]
      BY DEF f, g
    <3> QED
      BY <2>1, <2>2, <2>3, <3>1 DEF ReferencesLoad
  <2>5. g.inputs = ResolveInputsBefore(d, Before(next, i), g.step)
    BY <1>1, <2>1, <2>2, ResolvesAlike
  <2>6. RouteOf(d, next, i, g.verdict) = RouteOf(d, run, i, g.verdict)
    BY <1>1, RouteAlike
  <2> HIDE DEF f, g
  <2> QED
    BY <2>1, <2>4, <2>5, <2>6 DEF AttemptLoads
<1>4. ASSUME f.fact = "gate"
      PROVE  GateLoads(d, next, i, g)
  <2>1. g.candidate = f.candidate /\ g.state \in GateStates
    BY <1>4 DEF FactIsNow
  <2>2. Stored(run, i, f.candidate) /\ CandidateResolves(d, run, i)
    BY <1>4 DEF FactLoads, GateLoads
  <2>3. Stored(next, i, g.candidate)
    BY <2>1, <2>2, StoredAlike
  <2>4. CandidateResolves(d, next, i)
    <3>1. ResolveInputsBefore(d, Before(next, i), g.step)
              = ResolveInputsBefore(d, Before(run, i), f.step)
      BY <1>1, ResolvesAlike
    <3> QED
      BY <2>1, <2>2, <3>1 DEF CandidateResolves
  <2> QED
    BY <2>1, <2>3, <2>4 DEF GateLoads
<1> QED
  BY <1>1, <1>2, <1>3, <1>4 DEF FactLoads

LEMMA SameFactLoads ==
    ASSUME NEW d, NEW run, NEW next, NEW i \in Int, SameUpTo(run, next, i),
           i \in DOMAIN run.facts, FactLoads(d, run, i),
           run.facts[i].fact \in {"attempt", "gate"},
           run.facts[i].fact = "attempt" => AttemptIsolationLoads(next.facts[i])
    PROVE  FactLoads(d, next, i)
<1>1. DOMAIN run.facts = 1 .. Len(run.facts) /\ Len(run.facts) \in Nat
  BY SameFactsAreAlike
<1>2. i \in 1 .. i /\ i - 1 \in Nat /\ i - 1 <= Len(run.facts)
  BY <1>1
<1>3. i \in DOMAIN next.facts /\ SameRecordFact(run.facts[i], next.facts[i])
  BY <1>2, SameFactsAreAlike
<1>4. SameUpTo(run, next, i - 1)
  <2>1. Len(next.facts) \in Nat
    BY SameFactsAreAlike
  <2> QED
    BY <1>2, <2>1 DEF SameUpTo
<1>5. FactIsNow(d, run, next, i)
  <2> DEFINE f == run.facts[i]
             g == next.facts[i]
  <2>1. g.fact = f.fact /\ g.step = f.step /\ g.state = f.state
    BY <1>3 DEF SameRecordFact
  <2>2. CASE f.fact = "attempt"
    <3>1. /\ f.outputs = g.outputs /\ f.route = g.route /\ f.inputs = g.inputs
          /\ f.verdict = g.verdict /\ f.continuation = g.continuation
      BY <1>3, <2>2 DEF SameRecordFact
    <3>2. /\ AttemptResultLoads(d, f)
          /\ f.route = IF f.state = "Completed" THEN RouteOf(d, run, i, f.verdict) ELSE "None"
          /\ f.outputs = IF f.state = "Completed" THEN Durable(d[f.step].outputs) ELSE {}
      BY <2>2 DEF FactLoads, AttemptLoads
    <3>3. AttemptResultLoads(d, g)
      BY <2>1, <3>1, <3>2 DEF AttemptResultLoads
    <3> QED
      BY <2>1, <2>2, <3>1, <3>2, <3>3 DEF FactIsNow
  <2>3. CASE f.fact = "gate"
    <3>1. f.candidate = g.candidate
      BY <1>3, <2>3 DEF SameRecordFact
    <3>2. f.state \in GateStates
      BY <2>3 DEF FactLoads, GateLoads
    <3> QED
      BY <2>1, <2>3, <3>1, <3>2 DEF FactIsNow
  <2> QED
    BY <2>2, <2>3
<1> QED
  BY <1>3, <1>4, <1>5, ChangedFactLoads

-----------------------------------------------------------------------------
(* The inputs of a step are artefacts that are stored, of their kinds.     *)
LEMMA InputIsDeclared ==
    ASSUME NEW d \in Definitions, NEW s \in Steps(d), NEW input \in d[s].inputs
    PROVE  /\ input.source = RunCurrentPlan => input.kind = "Plan"
           /\ input.source \in Steps(d) /\ IsGate(d, input.source) =>
                  input.kind = "PlanDecision"
<1>1. Len(d) \in Nat /\ Steps(d) = 1 .. Len(d)
  BY DefinitionIsValid
<1>2. HandoffIsKnown(d) /\ SupportedOutputs(d)
  BY DefinitionsAreValid DEF Valid
<1>3. \/ IsReviewFeedback(d, s, input)
      \/ input = Input("Plan", RunCurrentPlan)
      \/ /\ input.source \in 1 .. s - 1
         /\ input.kind \in Durable(d[input.source].outputs)
  BY <1>2 DEF HandoffIsKnown
<1>4. ASSUME input.source = RunCurrentPlan
      PROVE  input.kind = "Plan"
  <2>1. 0 \notin Steps(d) /\ 0 \notin 1 .. s - 1
    BY <1>1
  <2>2. input = Input("Plan", RunCurrentPlan)
    BY <1>3, <1>4, <2>1 DEF IsReviewFeedback, RunCurrentPlan
  <2> QED
    BY <2>2 DEF Input
<1>5. ASSUME input.source \in Steps(d), IsGate(d, input.source)
      PROVE  input.kind = "PlanDecision"
  <2>1. d[input.source].outputs = {"PlanDecision"}
    BY <1>2, <1>5 DEF SupportedOutputs
  <2>2. "ReviewReport" \notin d[input.source].outputs
    BY <2>1
  <2>3. input # Input("Plan", RunCurrentPlan)
    BY <1>1, <1>5 DEF Input, RunCurrentPlan
  <2>4. input.kind \in Durable(d[input.source].outputs)
    BY <1>3, <2>2, <2>3 DEF IsReviewFeedback
  <2> QED
    BY <2>1, <2>4 DEF Durable
<1> QED
  BY <1>4, <1>5

StoredIn(t, ref) ==
    /\ ref.by \in 1 .. Len(t)
    /\ \/ t[ref.by].fact = "attempt" /\ ref.kind \in t[ref.by].outputs
       \/ /\ t[ref.by].fact = "gate" /\ ref.kind = "PlanDecision"
          /\ t[ref.by].state \in {"Approved", "RevisionRequested"}

LEMMA PlanIsStored ==
    ASSUME NEW t, IsSequence(t), LatestPlan(t) # NoReference
    PROVE  StoredIn(t, LatestPlan(t)) /\ LatestPlan(t).kind = "Plan"
<1>1. PICK i : i = LastOf(PlansOf(t))
  OBVIOUS
<1>2. i # 0 /\ LatestPlan(t) = Reference(i, "Plan")
  BY <1>1, LatestPlanIsLast
<1>3. PlansOf(t) \subseteq 1 .. Len(t)
  BY DEF PlansOf
<1>4. i \in PlansOf(t)
  BY <1>1, <1>2, <1>3, LastIsSelected
<1> QED
  BY <1>2, <1>4 DEF PlansOf, CompletedAttempt, StoredIn, Reference

LEMMA OutputIsStored ==
    ASSUME NEW t, IsSequence(t), NEW s, NEW kind,
           LatestOutput(t, s, kind) # NoReference
    PROVE  /\ StoredIn(t, LatestOutput(t, s, kind))
           /\ \/ LatestOutput(t, s, kind).kind = kind
              \/ /\ LatestOutput(t, s, kind).kind = "PlanDecision"
                 /\ t[LatestOutput(t, s, kind).by].fact = "gate"
                 /\ t[LatestOutput(t, s, kind).by].step = s
<1>1. PICK a, g : a = LastOf(CompletedAt(t, s)) /\ g = LastOf(DecidedAt(t, s))
  OBVIOUS
<1>2. LatestOutput(t, s, kind) =
          CASE a # 0 /\ kind \in t[a].outputs -> Reference(a, kind)
            [] a = 0 /\ g # 0 /\ t[g].state \in {"Approved", "RevisionRequested"}
                     -> Reference(g, "PlanDecision")
            [] OTHER -> NoReference
  BY <1>1, LatestOutputIsLast
<1>3. CompletedAt(t, s) \subseteq 1 .. Len(t) /\ DecidedAt(t, s) \subseteq 1 .. Len(t)
  BY DEF CompletedAt, DecidedAt
<1>4. /\ a # 0 => a \in CompletedAt(t, s)
      /\ g # 0 => g \in DecidedAt(t, s)
  BY <1>1, <1>3, LastIsSelected
<1>5. CASE a # 0 /\ kind \in t[a].outputs
  <2>1. LatestOutput(t, s, kind) = Reference(a, kind)
    BY <1>2, <1>5
  <2> QED
    BY <1>4, <1>5, <2>1 DEF CompletedAt, CompletedAttempt, StoredIn, Reference
<1>6. CASE ~(a # 0 /\ kind \in t[a].outputs)
  <2>1. /\ g # 0 /\ t[g].state \in {"Approved", "RevisionRequested"}
        /\ LatestOutput(t, s, kind) = Reference(g, "PlanDecision")
    BY <1>2, <1>6
  <2> QED
    BY <1>4, <2>1 DEF DecidedAt, StoredIn, Reference
<1> QED
  BY <1>5, <1>6

LEMMA ResolvedInput ==
    ASSUME NEW d, NEW t, NEW s,
           NEW inputs, inputs = ResolveInputsBefore(d, t, s), inputs # Unresolved,
           NEW input \in DOMAIN inputs
    PROVE  /\ input \in d[s].inputs
           /\ inputs[input] = ResolvedBefore(t, input)
           /\ ResolvedBefore(t, input) # NoReference
<1> DEFINE missing == {i \in d[s].inputs : ResolvedBefore(t, i) = NoReference}
<1>1. inputs = [i \in d[s].inputs \ missing |-> ResolvedBefore(t, i)]
  BY DEF ResolveInputsBefore, ResolveWith
<1>2. input \in d[s].inputs \ missing
  BY <1>1
<1> QED
  BY <1>1, <1>2

LEMMA ResolvedIsStored ==
    ASSUME NEW d \in Definitions, NEW t, IsSequence(t),
           \A i \in DOMAIN t : FactIsCoherent(d, t[i]),
           NEW s \in Steps(d),
           NEW inputs, inputs = ResolveInputsBefore(d, t, s), inputs # Unresolved,
           NEW input \in DOMAIN inputs
    PROVE  StoredIn(t, inputs[input]) /\ inputs[input].kind = input.kind
<1>1. /\ input \in d[s].inputs
      /\ inputs[input] = ResolvedBefore(t, input)
      /\ ResolvedBefore(t, input) # NoReference
  BY ResolvedInput
<1>2. CASE input.source = RunCurrentPlan
  <2>1. inputs[input] = LatestPlan(t) /\ LatestPlan(t) # NoReference
    BY <1>1, <1>2 DEF ResolvedBefore
  <2>2. input.kind = "Plan"
    BY <1>1, <1>2, InputIsDeclared
  <2> QED
    BY <2>1, <2>2, PlanIsStored
<1>3. CASE input.source # RunCurrentPlan
  <2>1. PICK ref : ref = LatestOutput(t, input.source, input.kind)
    OBVIOUS
  <2>2. inputs[input] = ref /\ ref # NoReference
    BY <1>1, <1>3, <2>1 DEF ResolvedBefore
  <2>3. /\ StoredIn(t, ref)
        /\ \/ ref.kind = input.kind
           \/ /\ ref.kind = "PlanDecision"
              /\ t[ref.by].fact = "gate" /\ t[ref.by].step = input.source
    BY <2>1, <2>2, OutputIsStored
  <2>4. ASSUME t[ref.by].fact = "gate", t[ref.by].step = input.source
        PROVE  input.kind = "PlanDecision"
    <3>1. ref.by \in DOMAIN t
      BY <2>3, SequenceLength DEF StoredIn
    <3>2. input.source \in Steps(d) /\ IsGate(d, input.source)
      BY <2>4, <3>1 DEF FactIsCoherent
    <3> QED
      BY <1>1, <3>2, InputIsDeclared
  <2> QED
    BY <2>2, <2>3, <2>4
<1> QED
  BY <1>2, <1>3

-----------------------------------------------------------------------------
(* What every transition owes: the facts it leaves load, and it uses no    *)
(* more of the budgets than the step it closes weighs.                     *)
LEMMA BudgetsStay ==
    ASSUME NEW d \in Definitions, NEW run, NEW next,
           RecordIsCoherent(d, run), RecordIsCoherent(d, next),
           FactsLoad(d, run), BudgetsHold(d, run), FactsLoad(d, next),
           Moves(d, run, next),
           Closed(next) <= Closed(run) + (IF Busy(run) /\ ~Busy(next) THEN 1 ELSE 0),
           ArtefactCount(next) <= ArtefactCount(run)
               + (IF Busy(run) /\ ~Busy(next) THEN Weights(d)[Place(d, run)] ELSE 0)
    PROVE  BudgetsHold(d, next)
<1>1. IsWeight(d, Ones(d)) /\ IsWeight(d, Weights(d))
  BY WeightsAreWeights
<1>2. ReturnsAreNumbers(d, run)
  BY ReturnsAreFinite DEF ReturnsAreNumbers, RecordIsCoherent
<1>3. ReturnsAreLimited(d, next)
  BY <1>2, ReturnsStayLimited DEF BudgetsHold, ReturnsAreNumbers
<1>4. ArtefactCount(run) \in Nat /\ ArtefactCount(next) \in Nat
  BY ArtefactsAreCounted
<1>5. Closed(run) \in Nat /\ Closed(next) \in Nat
  <2>1. ASSUME NEW r, RecordIsCoherent(d, r)
        PROVE  Closed(r) \in Nat
    <3>1. Len(r.facts) \in Nat /\ (Busy(r) => Len(r.facts) > 0)
      BY <2>1, SequenceLength DEF RecordIsCoherent, StateIsCoherent
    <3> QED
      BY <3>1 DEF Closed
  <2> QED
    BY <2>1
<1>6. /\ Place(d, run) \in Steps(d) \union {0, Len(d) + 1}
      /\ Busy(run) => Ones(d)[Place(d, run)] = 1
  BY PlaceIsKnown DEF Ones
<1>7. Budget(d, next, Ones(d), Closed(next))
  <2>1. Closed(next) <= Closed(run)
            + (IF Busy(run) /\ ~Busy(next) THEN Ones(d)[Place(d, run)] ELSE 0)
    BY <1>6
  <2>2. Budget(d, run, Ones(d), Closed(run))
    BY DEF BudgetsHold
  <2>3. PICK used \in Nat, spent \in Nat : used = Closed(run) /\ spent = Closed(next)
    BY <1>5
  <2> QED
    BY <1>1, <1>2, <1>6, <2>1, <2>2, <2>3, BudgetIsKept
<1>8. Budget(d, next, Weights(d), ArtefactCount(next))
  <2>1. Budget(d, run, Weights(d), ArtefactCount(run))
    BY DEF BudgetsHold
  <2>2. PICK used \in Nat, spent \in Nat :
            used = ArtefactCount(run) /\ spent = ArtefactCount(next)
    BY <1>4
  <2> QED
    BY <1>1, <1>2, <1>6, <2>1, <2>2, BudgetIsKept
<1> QED
  BY <1>3, <1>7, <1>8 DEF BudgetsHold

LEMMA PredictedIsReady ==
    ASSUME NEW d, NEW run, RecordIsCoherent(d, run), FactsLoad(d, run),
           NEW n, n \in DOMAIN run.facts \/ n = 0,
           Predicted(d, run, n).phase = "Ready"
    PROVE  Predicted(d, run, n) = Ready(Predicted(d, run, n).step)
<1>1. ASSUME NEW x
      PROVE  Ready(x).step = x
  BY DEF Ready, At
<1>2. SUFFICES \E x : Predicted(d, run, n) = Ready(x)
  BY <1>1
<1>3. CASE n = 0
  BY <1>3 DEF Predicted
<1>4. ASSUME n # 0, run.facts[n].fact = "attempt"
      PROVE  \E x : Predicted(d, run, n) = Ready(x)
  <2> DEFINE f == run.facts[n]
  <2>1. /\ AttemptResultLoads(d, f)
        /\ f.route = IF f.state = "Completed" THEN RouteOf(d, run, n, f.verdict) ELSE "None"
    BY <1>4 DEF FactsLoad, FactLoads, AttemptLoads
  <2>2. f.state \in {"Active", "Paused", "Completed", "Failed", "Cancelled", "Interrupted"}
    BY <2>1 DEF AttemptResultLoads
  <2>3. Predicted(d, run, n) = PredictedFromAttempt(d, run, n)
    BY <1>4 DEF Predicted
  <2>4. CASE f.state \in AttemptOpen
    <3>1. Predicted(d, run, n) = At(f.state, f.step, n)
      BY <2>3, <2>4 DEF PredictedFromAttempt, AttemptOpen
    <3> QED
      BY <2>4, <3>1 DEF At, AttemptOpen
  <2>5. CASE f.state = "Completed"
    <3>1. Predicted(d, run, n) = RoutedState(d, f.step, f.route)
      BY <2>3, <2>5 DEF PredictedFromAttempt, AttemptOpen
    <3>2. f.route \in {"None", "Approved", "RevisionRequested", "BlockedEscalation",
                       "AttemptLimitEscalation"}
      BY <2>1, <2>5 DEF RouteOf, ReviewRoute
    <3>3. CASE f.route \in {"None", "Approved"}
      <4>1. Predicted(d, run, n) = AdvancedState(d, f.step)
        BY <3>1, <3>3 DEF RoutedState
      <4>2. Ended("Completed").phase = "Completed"
        BY DEF Ended, At
      <4> QED
        BY <4>1, <4>2 DEF AdvancedState
    <3>4. CASE f.route = "RevisionRequested"
      BY <3>1, <3>4 DEF RoutedState
    <3>5. CASE f.route = "BlockedEscalation"
      <4>1. Predicted(d, run, n) = Escalated(f.step, "EscalatedBlocked")
        BY <3>1, <3>5 DEF RoutedState
      <4> QED
        BY <4>1 DEF Escalated, At
    <3>6. CASE f.route = "AttemptLimitEscalation"
      <4>1. Predicted(d, run, n) = Escalated(f.step, "EscalatedAttemptLimit")
        BY <3>1, <3>6 DEF RoutedState
      <4> QED
        BY <4>1 DEF Escalated, At
    <3> QED
      BY <3>2, <3>3, <3>4, <3>5, <3>6
  <2>6. CASE f.state \in {"Failed", "Cancelled", "Interrupted"}
    <3>1. Predicted(d, run, n) = Ended(f.state)
      BY <2>3, <2>6 DEF PredictedFromAttempt, AttemptOpen
    <3> QED
      BY <2>6, <3>1 DEF Ended, At
  <2> QED
    BY <2>2, <2>4, <2>5, <2>6 DEF AttemptOpen
<1>5. ASSUME n # 0, run.facts[n].fact = "gate"
      PROVE  \E x : Predicted(d, run, n) = Ready(x)
  <2> DEFINE f == run.facts[n]
  <2>1. f.state \in GateStates
    BY <1>5 DEF FactsLoad, FactLoads, GateLoads
  <2>2. Predicted(d, run, n) = PredictedFromGate(d, run, n)
    BY <1>5 DEF Predicted
  <2>3. CASE f.state = "AwaitingDecision"
    <3>1. Predicted(d, run, n) = At("AwaitingHuman", f.step, n)
      BY <2>2, <2>3 DEF PredictedFromGate
    <3> QED
      BY <3>1 DEF At
  <2>4. CASE f.state = "Approved"
    <3>1. Predicted(d, run, n) = AdvancedState(d, f.step)
      BY <2>2, <2>4 DEF PredictedFromGate
    <3>2. Ended("Completed").phase = "Completed"
      BY DEF Ended, At
    <3> QED
      BY <3>1, <3>2 DEF AdvancedState
  <2>5. CASE f.state = "RevisionRequested"
    <3>1. \/ Predicted(d, run, n) = Escalated(f.step, "EscalatedAttemptLimit")
          \/ Predicted(d, run, n) = Ready(d[f.step].revision.target)
      BY <2>2, <2>5 DEF PredictedFromGate
    <3>2. Escalated(f.step, "EscalatedAttemptLimit").phase # "Ready"
      BY DEF Escalated, At
    <3> QED
      BY <3>1, <3>2
  <2>6. CASE f.state \in {"Cancelled", "Interrupted"}
    <3>1. Predicted(d, run, n) = Ended(f.state)
      BY <2>2, <2>6 DEF PredictedFromGate
    <3> QED
      BY <2>6, <3>1 DEF Ended, At
  <2> QED
    BY <2>1, <2>3, <2>4, <2>5, <2>6 DEF GateStates
<1>6. n # 0 => run.facts[n].fact \in {"attempt", "gate"}
  BY DEF RecordIsCoherent, FactIsCoherent
<1> QED
  BY <1>3, <1>4, <1>5, <1>6

-----------------------------------------------------------------------------
(* The four kinds of transitions.  One opens a fact of the step the run is *)
(* ready for.                                                              *)
LEMMA SameUpToAppended ==
    ASSUME NEW run, IsSequence(run.facts), NEW next, NEW f,
           next.facts = Append(run.facts, f)
    PROVE  /\ SameUpTo(run, next, Len(run.facts))
           /\ Len(run.facts) \in Nat
           /\ DOMAIN run.facts = 1 .. Len(run.facts)
           /\ Len(next.facts) = Len(run.facts) + 1
           /\ DOMAIN next.facts = 1 .. Len(run.facts) + 1
           /\ \A i \in DOMAIN run.facts : next.facts[i] = run.facts[i]
           /\ next.facts[Len(run.facts) + 1] = f
<1>1. /\ IsSequence(next.facts) /\ Len(next.facts) = Len(run.facts) + 1
      /\ DOMAIN next.facts = 1 .. Len(run.facts) + 1
      /\ \A i \in 1 .. Len(run.facts) : next.facts[i] = run.facts[i]
      /\ next.facts[Len(run.facts) + 1] = f
  BY AppendedFact
<1>2. Len(run.facts) \in Nat /\ DOMAIN run.facts = 1 .. Len(run.facts)
  BY SequenceLength
<1>3. \A i \in 1 .. Len(run.facts) : SameRecordFact(run.facts[i], next.facts[i])
  BY <1>1 DEF SameRecordFact
<1> QED
  BY <1>1, <1>2, <1>3 DEF SameUpTo

LEMMA EarlierFactLoads ==
    ASSUME NEW d, NEW run, RecordIsCoherent(d, run), FactsLoad(d, run),
           NEW next, NEW n, SameUpTo(run, next, n),
           NEW i \in 1 .. n, next.facts[i] = run.facts[i]
    PROVE  FactLoads(d, next, i)
<1>1. i \in Int /\ i <= n /\ i \in DOMAIN run.facts /\ n \in Nat
  BY SameFactsAreAlike DEF SameUpTo
<1>2. SameUpTo(run, next, i)
  <2>1. Len(run.facts) \in Nat /\ Len(next.facts) \in Nat
    BY SameFactsAreAlike
  <2> QED
    BY <1>1, <2>1 DEF SameUpTo
<1>3. FactLoads(d, run, i) /\ run.facts[i].fact \in {"attempt", "gate"}
  BY <1>1 DEF FactsLoad, RecordIsCoherent, FactIsCoherent
<1>4. run.facts[i].fact = "attempt" => AttemptIsolationLoads(next.facts[i])
  BY <1>3 DEF FactLoads, AttemptLoads
<1> QED
  BY <1>1, <1>2, <1>3, <1>4, SameFactLoads

(* The new fact, with inputs the facts before it give.                     *)
Opens(d, run, f) ==
    LET inputs == ResolveInputsBefore(d, run.facts, run.state.step) IN
    /\ f.step = run.state.step
    /\ inputs # Unresolved
    /\ \/ /\ f.fact = "attempt" /\ f.state = "Active" /\ f.inputs = inputs
          /\ f.outputs = {} /\ f.route = "None"
       \/ /\ f.fact = "gate" /\ f.state = "AwaitingDecision"
          /\ f.candidate \in Range(inputs)

PhaseOf(f) == IF f.fact = "attempt" THEN "Active" ELSE "AwaitingHuman"

LEMMA OpenedFactLoads ==
    ASSUME NEW d \in Definitions, NEW run, RecordIsCoherent(d, run), RecordLoads(d, run),
           IsReady(run), NEW f, Opens(d, run, f),
           NEW next, next.facts = Append(run.facts, f)
    PROVE  FactLoads(d, next, Len(run.facts) + 1)
<1> DEFINE n == Len(run.facts) + 1
           s == run.state.step
           inputs == ResolveInputsBefore(d, run.facts, s)
<1>1. IsSequence(run.facts) /\ \A i \in DOMAIN run.facts : FactIsCoherent(d, run.facts[i])
  BY DEF RecordIsCoherent
<1>2. /\ SameUpTo(run, next, n - 1) /\ n \in Int /\ n - 1 = Len(run.facts)
      /\ Len(run.facts) \in Nat /\ DOMAIN run.facts = 1 .. Len(run.facts)
      /\ next.facts[n] = f
      /\ \A i \in DOMAIN run.facts : next.facts[i] = run.facts[i]
  BY <1>1, SameUpToAppended
<1>3. Predicted(d, next, n - 1) = Ready(f.step)
  <2>1. run.state = Predicted(d, run, Len(run.facts))
    BY DEF RecordLoads, StateLoads, IsReady, Ended, At
  <2>2. Predicted(d, run, Len(run.facts)) = Ready(s)
    <3>1. Len(run.facts) \in DOMAIN run.facts \/ Len(run.facts) = 0
      BY <1>2
    <3> QED
      BY <2>1, <3>1, PredictedIsReady DEF RecordLoads, IsReady
  <2> QED
    BY <1>2, <2>2, PredictedAlike DEF Opens
<1>4. SameView(run.facts, SubSeq(next.facts, 1, n - 1))
  <2>1. IsSequence(next.facts) /\ n - 1 \in Nat /\ n - 1 <= Len(next.facts)
    BY <1>2 DEF SameUpTo
  <2>2. /\ IsSequence(SubSeq(next.facts, 1, n - 1))
        /\ Len(SubSeq(next.facts, 1, n - 1)) = n - 1
        /\ \A j \in 1 .. n - 1 : SubSeq(next.facts, 1, n - 1)[j] = next.facts[j]
    BY <2>1, BeginningOf
  <2>3. PICK u : u = SubSeq(next.facts, 1, n - 1)
    OBVIOUS
  <2>4. \A i \in 1 .. Len(run.facts) : u[i] = run.facts[i]
    BY <1>2, <2>2, <2>3
  <2>5. Len(u) = Len(run.facts) /\ IsSequence(u)
    BY <1>2, <2>2, <2>3
  <2>6. SameView(run.facts, u)
    BY <1>1, <1>2, <2>4, <2>5 DEF SameView, SameFact
  <2> QED
    BY <2>3, <2>6
<1>5. ResolveInputsBefore(d, Before(next, n), s) = inputs
  BY <1>4, SameViewResolves DEF Before
<1>6. f.step = s /\ inputs # Unresolved /\ s \in Steps(d)
  BY ReadyStands DEF Opens
<1>7. ASSUME NEW input \in DOMAIN inputs
      PROVE  Stored(next, n, inputs[input]) /\ inputs[input].kind = input.kind
  <2>1. StoredIn(run.facts, inputs[input]) /\ inputs[input].kind = input.kind
    BY <1>1, <1>6, ResolvedIsStored
  <2>2. PICK ref : ref = inputs[input]
    OBVIOUS
  <2>3. ref.by \in 1 .. Len(run.facts) /\ next.facts[ref.by] = run.facts[ref.by]
    BY <1>2, <2>1, <2>2 DEF StoredIn
  <2>4. Stored(next, n, ref)
    BY <1>2, <2>1, <2>2, <2>3 DEF StoredIn, Stored
  <2> QED
    BY <2>1, <2>2, <2>4
<1>8. \A ref \in Range(inputs) : Stored(next, n, ref)
  BY <1>7 DEF Range
<1> HIDE DEF n, inputs
<1>9. ASSUME f.fact = "attempt"
      PROVE  AttemptLoads(d, next, n, f)
  <2>1. f.state = "Active" /\ f.inputs = inputs /\ f.outputs = {} /\ f.route = "None"
    BY <1>9 DEF Opens, inputs
  <2>2. ReferencesLoad(next, n)
    BY <1>2, <1>7, <1>8, <2>1 DEF ReferencesLoad
  <2>3. AttemptResultLoads(d, f) /\ AttemptIsolationLoads(f)
    BY <2>1 DEF AttemptResultLoads, AttemptIsolationLoads
  <2> QED
    BY <1>5, <1>6, <2>1, <2>2, <2>3 DEF AttemptLoads
<1>10. ASSUME f.fact = "gate"
       PROVE  GateLoads(d, next, n, f)
  <2>1. f.state = "AwaitingDecision" /\ f.candidate \in Range(inputs)
    BY <1>10 DEF Opens, inputs
  <2>2. CandidateResolves(d, next, n)
    BY <1>2, <1>5, <1>6, <2>1 DEF CandidateResolves
  <2> QED
    BY <1>8, <2>1, <2>2 DEF GateLoads, GateStates
<1>11. FactLoads(d, next, n)
  BY <1>2, <1>3, <1>9, <1>10 DEF FactLoads
<1> QED
  BY <1>11 DEF n

LEMMA OpeningLeavesNothing ==
    ASSUME NEW d, NEW run, RecordIsCoherent(d, run), FactsLoad(d, run),
           NEW f, Artefacts(f) = 0,
           NEW next, RecordIsCoherent(d, next), FactsLoad(d, next),
           next.facts = Append(run.facts, f)
    PROVE  ArtefactCount(next) = ArtefactCount(run)
<1>1. /\ Len(run.facts) \in Nat
      /\ DOMAIN run.facts = 1 .. Len(run.facts)
      /\ DOMAIN next.facts = 1 .. Len(run.facts) + 1
      /\ \A i \in DOMAIN run.facts : next.facts[i] = run.facts[i]
      /\ next.facts[Len(run.facts) + 1] = f
  BY SameUpToAppended DEF RecordIsCoherent
<1>2. PICK T, n, g, h : /\ T = DOMAIN next.facts /\ n = Len(run.facts) + 1
                        /\ g = ArtefactsLeft(next.facts) /\ h = ArtefactsLeft(run.facts)
  OBVIOUS
<1>3. n \in T /\ T \ {n} = DOMAIN run.facts
  BY <1>1, <1>2
<1>4. IsFiniteSet(T) /\ IsFiniteSet(T \ {n})
  BY <1>2, <1>3, FactsAreFinite
<1>5. \A i \in T : g[i] \in Nat
  BY <1>2, ArtefactsAreNumbers DEF AreNumbers
<1>6. g[n] = 0
  BY <1>1, <1>2, <1>3 DEF ArtefactsLeft
<1>7. Alike(g, h, T \ {n})
  BY <1>1, <1>2, <1>3 DEF Alike, ArtefactsLeft
<1>8. Total(g, T) = g[n] + Total(g, T \ {n})
  BY <1>3, <1>4, <1>5, SumWithout
<1>9. Total(g, T \ {n}) = Total(h, T \ {n})
  BY <1>4, <1>7, SumOfSame
<1>10. /\ ArtefactCount(next) = Total(g, T)
       /\ ArtefactCount(run) = Total(h, T \ {n}) /\ ArtefactCount(run) \in Nat
  BY <1>2, <1>3, ArtefactsAreCounted
<1> QED
  BY <1>6, <1>8, <1>9, <1>10

LEMMA OpenedRecordLoads ==
    ASSUME NEW d \in Definitions, NEW run, RecordIsCoherent(d, run), RecordLoads(d, run),
           IsReady(run), NEW f, Opens(d, run, f),
           NEW next, RecordIsCoherent(d, next), Moves(d, run, next),
           next.facts = Append(run.facts, f),
           next.state = At(PhaseOf(f), f.step, Len(run.facts) + 1),
           ReservationStands(d, next)
    PROVE  RecordLoads(d, next)
<1>0. IsSequence(run.facts)
  BY DEF RecordIsCoherent
<1>a. SameUpTo(run, next, Len(run.facts))
  BY <1>0, SameUpToAppended
<1>b. /\ Len(run.facts) \in Nat
      /\ DOMAIN run.facts = 1 .. Len(run.facts)
      /\ Len(next.facts) = Len(run.facts) + 1
      /\ DOMAIN next.facts = 1 .. Len(run.facts) + 1
  BY <1>0, SameUpToAppended
<1>c. \A i \in DOMAIN run.facts : next.facts[i] = run.facts[i]
  BY <1>0, SameUpToAppended
<1>d. next.facts[Len(run.facts) + 1] = f
  BY <1>0, SameUpToAppended
<1>1. IsSequence(run.facts) /\ ~Busy(run)
  BY <1>0, ReadyStands
<1>2. /\ SameUpTo(run, next, Len(run.facts)) /\ Len(run.facts) \in Nat
      /\ DOMAIN run.facts = 1 .. Len(run.facts)
      /\ Len(next.facts) = Len(run.facts) + 1
      /\ DOMAIN next.facts = 1 .. Len(run.facts) + 1
      /\ \A i \in DOMAIN run.facts : next.facts[i] = run.facts[i]
      /\ next.facts[Len(run.facts) + 1] = f
  BY <1>a, <1>b, <1>c, <1>d
<1>3. FactsLoad(d, run) /\ OpenIsNamed(run) /\ BudgetsHold(d, run)
  BY DEF RecordLoads
<1>4. FactsLoad(d, next)
  <2> SUFFICES ASSUME NEW i \in DOMAIN next.facts
               PROVE  FactLoads(d, next, i)
    BY DEF FactsLoad
  <2>1. CASE i \in 1 .. Len(run.facts)
    BY <1>2, <1>3, <2>1, EarlierFactLoads
  <2>2. CASE i = Len(run.facts) + 1
    BY <2>2, OpenedFactLoads
  <2> QED
    BY <1>2, <2>1, <2>2
<1>5. /\ next.state.phase = PhaseOf(f) /\ Busy(next)
      /\ f.fact \in {"attempt", "gate"}
      /\ f.state = IF f.fact = "attempt" THEN "Active" ELSE "AwaitingDecision"
  BY DEF At, PhaseOf, Busy, Opens
<1>6. OpenIsNamed(next)
  <2> SUFFICES ASSUME NEW i \in DOMAIN next.facts, next.facts[i].state \in LastFactStates
               PROVE  i = Len(next.facts)
    BY <1>5 DEF OpenIsNamed
  <2>1. i \notin DOMAIN run.facts
    BY <1>1, <1>2, <1>3 DEF OpenIsNamed
  <2> QED
    BY <1>2, <2>1
<1>7. StateLoads(d, next)
  <2>1. PICK n : n = Len(run.facts) + 1 /\ n # 0
    BY <1>2
  <2>2. CASE f.fact = "attempt"
    <3>1. PredictedFromAttempt(d, next, n) = At("Active", f.step, n)
      BY <1>2, <1>5, <2>1, <2>2 DEF PredictedFromAttempt, AttemptOpen
    <3> QED
      BY <1>2, <2>1, <2>2, <3>1 DEF StateLoads, Predicted, PhaseOf
  <2>3. CASE f.fact = "gate"
    <3>1. PredictedFromGate(d, next, n) = At("AwaitingHuman", f.step, n)
      BY <1>2, <1>5, <2>1, <2>3 DEF PredictedFromGate
    <3> QED
      BY <1>2, <2>1, <2>3, <3>1 DEF StateLoads, Predicted, PhaseOf
  <2> QED
    BY <1>5, <2>2, <2>3
<1>8. BudgetsHold(d, next)
  <2>1. Closed(next) = Closed(run)
    BY <1>1, <1>2, <1>5 DEF Closed
  <2>2. Artefacts(f) = 0
    BY FS_EmptySet DEF Opens, Artefacts
  <2>3. ArtefactCount(next) = ArtefactCount(run)
    BY <1>3, <1>4, <2>2, OpeningLeavesNothing
  <2>4. ArtefactCount(run) \in Nat /\ Closed(run) \in Int
    BY <1>1, <1>2, <1>3, ArtefactsAreCounted DEF Closed
  <2> QED
    BY <1>1, <1>3, <1>4, <2>1, <2>3, <2>4, BudgetsStay
<1> QED
  BY <1>4, <1>6, <1>7, <1>8 DEF RecordLoads

LEMMA OpeningKeepsReservation ==
    ASSUME NEW d \in Definitions, NEW run, RecordIsCoherent(d, run),
           ReservationStands(d, run), IsReady(run), IsReserved(run)
    PROVE  /\ run.reservation.attempt = 0
           /\ run.state.step = run.reservation.target
           /\ ~IsGate(d, run.state.step)
<1> DEFINE r == run.reservation
           gate == run.facts[r.gate]
<1>1. /\ r.gate \in DOMAIN run.facts
      /\ d[gate.step].revision # NoPolicy
      /\ d[gate.step].revision.target = r.target
      /\ \/ r.attempt = 0 /\ run.state = Ready(r.target)
         \/ r.attempt # 0 /\ \E p \in AttemptOpen : run.state = At(p, r.target, r.attempt)
  BY DEF ReservationStands
<1>2. r.attempt = 0 /\ run.state = Ready(r.target)
  BY <1>1 DEF IsReady, At, AttemptOpen
<1>3. run.state.step = r.target
  BY <1>2 DEF Ready, At
<1>4. gate.step \in Steps(d)
  BY <1>1 DEF RecordIsCoherent, FactIsCoherent
<1>5. IsAgent(d, r.target)
  BY <1>1, <1>4, DefinitionsAreValid DEF Valid, HumanRevisions
<1> QED
  BY <1>2, <1>3, <1>5 DEF IsAgent, IsGate

LEMMA OpenedGateLoads ==
    ASSUME NEW d \in Definitions, NEW run, RecordIsCoherent(d, run), RecordLoads(d, run),
           NEW plan, NEW onTime, NEW next \in OpenPlanGate(d, run, plan, onTime)
    PROVE  RecordLoads(d, next)
<1> DEFINE s == run.state.step
           f == Gate(s, plan)
           inputs == ResolveInputsBefore(d, run.facts, s)
<1>1. /\ IsReady(run) /\ IsGate(d, s)
      /\ inputs # Unresolved /\ plan \in Range(inputs)
      /\ next = [run EXCEPT !.facts = Append(@, f),
                            !.state = At("AwaitingHuman", s, Len(run.facts) + 1)]
  BY DEF OpenPlanGate, When
<1>2. /\ f.fact = "gate" /\ f.step = s /\ f.state = "AwaitingDecision"
      /\ f.candidate = plan
  BY DEF Gate
<1>3. Opens(d, run, f)
  BY <1>1, <1>2 DEF Opens
<1>4. DOMAIN run = RunFields
  BY DEF RecordIsCoherent
<1> HIDE DEF f, s
<1>5. /\ next.facts = Append(run.facts, f)
      /\ next.state = At("AwaitingHuman", s, Len(run.facts) + 1)
      /\ next.reservation = run.reservation
  BY <1>1, <1>4 DEF RunFields
<1>6. ~IsReserved(run)
  BY <1>1, OpeningKeepsReservation DEF RecordLoads, s
<1>7. ReservationStands(d, next)
  BY <1>5, <1>6 DEF ReservationStands, IsReserved
<1>8. RecordIsCoherent(d, next) /\ Moves(d, run, next)
  BY GateOpens DEF Progresses
<1>9. next.state = At(PhaseOf(f), f.step, Len(run.facts) + 1)
  BY <1>2, <1>5 DEF PhaseOf
<1> QED
  BY <1>1, <1>3, <1>5, <1>7, <1>8, <1>9, OpenedRecordLoads

LEMMA StartedAttemptLoads ==
    ASSUME NEW d \in Definitions, NEW run, RecordIsCoherent(d, run), RecordLoads(d, run),
           RecordResolves(d, run), ~IsGate(d, run.state.step),
           NEW inputs, NEW onTime, NEW next \in StartAttempt(d, run, inputs, onTime)
    PROVE  RecordLoads(d, next)
<1> DEFINE s == run.state.step
           a == Len(run.facts) + 1
           f == Attempt(s, inputs)
           r == IF IsReserved(run) THEN [run.reservation EXCEPT !.attempt = a]
                ELSE run.reservation
<1>1. /\ IsReady(run)
      /\ inputs # Unresolved /\ inputs = ResolveInputsBefore(d, run.facts, s)
      /\ next = [run EXCEPT !.facts = Append(@, f), !.state = At("Active", s, a),
                            !.reservation = r]
  BY DEF StartAttempt, When
<1>2. /\ f.fact = "attempt" /\ f.step = s /\ f.state = "Active" /\ f.inputs = inputs
      /\ f.route = "None" /\ f.outputs = {}
  BY DEF Attempt
<1>3. Opens(d, run, f)
  BY <1>1, <1>2 DEF Opens
<1>4. DOMAIN run = RunFields /\ DOMAIN run.reservation = ReservationFields
  BY DEF RecordIsCoherent, RecordResolves
<1>5. /\ IsReserved(run) => /\ r.gate = run.reservation.gate
                            /\ r.target = run.reservation.target
                            /\ r.attempt = a
      /\ ~IsReserved(run) => r = run.reservation
  BY <1>4 DEF ReservationFields
<1> HIDE DEF f, s, r
<1>6. /\ next.facts = Append(run.facts, f)
      /\ next.state = At("Active", s, a)
      /\ next.reservation = r
  BY <1>1, <1>4 DEF RunFields
<1>7. RecordIsCoherent(d, next) /\ Moves(d, run, next)
  BY AttemptStarts DEF Progresses
<1>8. /\ a # 0 /\ \A i \in DOMAIN run.facts : next.facts[i] = run.facts[i]
      /\ \A i \in DOMAIN run.facts : i \in DOMAIN next.facts
  BY <1>6, SameUpToAppended DEF RecordIsCoherent
<1>9. ReservationStands(d, next)
  <2>1. CASE ~IsReserved(run)
    BY <1>5, <1>6, <2>1 DEF ReservationStands, IsReserved
  <2>2. CASE IsReserved(run)
    <3>1. s = run.reservation.target
      BY <1>1, <2>2, OpeningKeepsReservation DEF RecordLoads, s
    <3>2. PICK g : g = run.reservation.gate
      OBVIOUS
    <3>3. /\ g \in DOMAIN run.facts
          /\ run.facts[g].fact = "gate" /\ run.facts[g].state = "RevisionRequested"
          /\ d[run.facts[g].step].revision # NoPolicy
          /\ d[run.facts[g].step].revision.target = run.reservation.target
      BY <2>2, <3>2 DEF RecordLoads, ReservationStands
    <3>4. g \in DOMAIN next.facts /\ next.facts[g] = run.facts[g]
      BY <1>8, <3>3
    <3>5. r.gate = g /\ r.target = s /\ r.attempt = a
      BY <1>5, <2>2, <3>1, <3>2
    <3>6. /\ next.reservation.gate = g /\ next.reservation.target = s
          /\ next.reservation.attempt = a
      BY <1>6, <3>5
    <3>7. next.state = At("Active", s, a) /\ "Active" \in AttemptOpen
      BY <1>6 DEF AttemptOpen
    <3> HIDE DEF a
    <3> QED
      BY <1>8, <3>1, <3>3, <3>4, <3>6, <3>7 DEF ReservationStands
  <2> QED
    BY <2>1, <2>2
<1>10. next.state = At(PhaseOf(f), f.step, Len(run.facts) + 1)
  BY <1>2, <1>6 DEF PhaseOf
<1> QED
  BY <1>1, <1>3, <1>6, <1>7, <1>9, <1>10, OpenedRecordLoads

-----------------------------------------------------------------------------
(* A busy run is at its last fact, which has left nothing yet, and its     *)
(* reservation is the one that fact answers.                               *)
LEMMA LastFactIsOpen ==
    ASSUME NEW d \in Definitions, NEW run, RecordIsCoherent(d, run), RecordLoads(d, run),
           Busy(run)
    PROVE  /\ IsSequence(run.facts)
           /\ Len(run.facts) \in Nat /\ Len(run.facts) # 0
           /\ DOMAIN run.facts = 1 .. Len(run.facts)
           /\ Len(run.facts) \in DOMAIN run.facts
           /\ run.state.at = Len(run.facts)
           /\ run.facts[Len(run.facts)].step = run.state.step
           /\ run.state.step \in Steps(d)
           /\ Place(d, run) = run.state.step
           /\ Artefacts(run.facts[Len(run.facts)]) = 0
<1> DEFINE n == Len(run.facts)
           f == run.facts[n]
<1>1. IsSequence(run.facts) /\ StateIsCoherent(d, run)
  BY DEF RecordIsCoherent
<1>2. n \in Nat /\ DOMAIN run.facts = 1 .. n
  BY <1>1, SequenceLength
<1>3. n > 0 /\ run.state.at = n /\ f.step = run.state.step
  BY <1>1 DEF StateIsCoherent
<1>4. n # 0 /\ n \in DOMAIN run.facts
  BY <1>2, <1>3
<1>5. run.state.step \in Steps(d) /\ Place(d, run) = run.state.step
  BY <1>1 DEF StateIsCoherent, Busy, OpenPhase, Place, IsTerminal, TerminalPhase
<1>6. FactLoads(d, run, n)
  BY <1>4 DEF RecordLoads, FactsLoad
<1>7. Artefacts(f) = 0
  <2>1. CASE run.state.phase \in AttemptOpen
    <3>1. f.fact = "attempt" /\ f.state = run.state.phase
      BY <1>1, <2>1 DEF StateIsCoherent
    <3>2. f.outputs = {}
      BY <1>6, <2>1, <3>1 DEF FactLoads, AttemptLoads, AttemptOpen
    <3> QED
      BY <3>1, <3>2, FS_EmptySet DEF Artefacts
  <2>2. CASE run.state.phase = "AwaitingHuman"
    <3>1. f.fact = "gate" /\ f.state = "AwaitingDecision"
      BY <1>1, <2>2 DEF StateIsCoherent
    <3> QED
      BY <3>1 DEF Artefacts
  <2> QED
    BY <2>1, <2>2 DEF Busy, AttemptOpen
<1> QED
  BY <1>1, <1>2, <1>3, <1>4, <1>5, <1>7

LEMMA OpenReservation ==
    ASSUME NEW d \in Definitions, NEW run, RecordIsCoherent(d, run), RecordLoads(d, run),
           Busy(run), IsReserved(run)
    PROVE  /\ run.state.phase \in AttemptOpen
           /\ run.reservation.attempt = Len(run.facts)
           /\ run.reservation.target = run.state.step
<1> DEFINE r == run.reservation
<1>1. \/ r.attempt = 0 /\ run.state = Ready(r.target)
      \/ r.attempt # 0 /\ \E p \in AttemptOpen : run.state = At(p, r.target, r.attempt)
  BY DEF RecordLoads, ReservationStands
<1>2. run.state # Ready(r.target)
  BY DEF Busy, Ready, At
<1>3. \E p \in AttemptOpen : run.state = At(p, r.target, r.attempt)
  BY <1>1, <1>2
<1>4. run.state.phase \in AttemptOpen /\ run.state.step = r.target
      /\ run.state.at = r.attempt
  BY <1>3 DEF At
<1>5. run.state.at = Len(run.facts)
  BY LastFactIsOpen
<1> QED
  BY <1>4, <1>5

LEMMA LastFactLeaves ==
    ASSUME NEW d \in Definitions, NEW run, RecordIsCoherent(d, run), FactsLoad(d, run),
           NEW next, RecordIsCoherent(d, next), FactsLoad(d, next),
           NEW n \in DOMAIN run.facts, NEW g, next.facts = [run.facts EXCEPT ![n] = g],
           Artefacts(run.facts[n]) = 0
    PROVE  ArtefactCount(next) = ArtefactCount(run) + Artefacts(g)
<1>1. /\ DOMAIN next.facts = DOMAIN run.facts
      /\ \A i \in DOMAIN run.facts : next.facts[i] = IF i = n THEN g ELSE run.facts[i]
  BY ReplacedFact DEF RecordIsCoherent
<1>2. PICK T, h, k : /\ T = DOMAIN run.facts
                     /\ h = ArtefactsLeft(next.facts) /\ k = ArtefactsLeft(run.facts)
  OBVIOUS
<1>3. IsFiniteSet(T) /\ IsFiniteSet(T \ {n})
  BY <1>2, FactsAreFinite, FS_RemoveElement
<1>4. \A i \in T : h[i] \in Nat
  BY <1>1, <1>2, ArtefactsAreNumbers DEF AreNumbers
<1>5. \A i \in T : k[i] \in Nat
  BY <1>2, ArtefactsAreNumbers DEF AreNumbers
<1>6. n \in T /\ h[n] = Artefacts(g) /\ k[n] = 0
  BY <1>1, <1>2 DEF ArtefactsLeft
<1>7. Alike(h, k, T \ {n})
  BY <1>1, <1>2 DEF Alike, ArtefactsLeft
<1>8. Total(h, T) = h[n] + Total(h, T \ {n})
  BY <1>3, <1>4, <1>6, SumWithout
<1>9. Total(k, T) = k[n] + Total(k, T \ {n})
  BY <1>3, <1>5, <1>6, SumWithout
<1>10. Total(h, T \ {n}) = Total(k, T \ {n})
  BY <1>3, <1>7, SumOfSame
<1>11. ArtefactCount(next) = Total(h, T) /\ ArtefactCount(next) \in Nat
  BY <1>1, <1>2, ArtefactsAreCounted
<1>12. ArtefactCount(run) = Total(k, T) /\ ArtefactCount(run) \in Nat
  BY <1>2, ArtefactsAreCounted
<1>13. Artefacts(g) \in Nat
  BY <1>4, <1>6
<1>14. PICK x : x = Total(k, T \ {n})
  OBVIOUS
<1>15. x \in Nat
  BY <1>3, <1>5, <1>14, SumType
<1>16. Total(h, T) = Artefacts(g) + x
  BY <1>6, <1>8, <1>10, <1>14
<1>17. Total(k, T) = x
  BY <1>6, <1>9, <1>14, <1>15
<1> QED
  BY <1>11, <1>12, <1>13, <1>15, <1>16, <1>17

LEMMA SameUpToReplaced ==
    ASSUME NEW run, IsSequence(run.facts), NEW n, n \in DOMAIN run.facts, NEW g,
           NEW next, next.facts = [run.facts EXCEPT ![n] = g]
    PROVE  /\ SameUpTo(run, next, n - 1)
           /\ IsSequence(next.facts) /\ Len(next.facts) = Len(run.facts)
           /\ DOMAIN next.facts = DOMAIN run.facts
           /\ \A i \in DOMAIN run.facts : next.facts[i] = IF i = n THEN g ELSE run.facts[i]
<1>1. /\ IsSequence(next.facts) /\ Len(next.facts) = Len(run.facts)
      /\ DOMAIN next.facts = DOMAIN run.facts
      /\ \A i \in DOMAIN run.facts : next.facts[i] = IF i = n THEN g ELSE run.facts[i]
  BY ReplacedFact
<1>2. Len(run.facts) \in Nat /\ DOMAIN run.facts = 1 .. Len(run.facts)
  BY SequenceLength
<1>3. \A j \in 1 .. n - 1 : next.facts[j] = run.facts[j]
  BY <1>1, <1>2
<1>4. \A j \in 1 .. n - 1 : SameRecordFact(run.facts[j], next.facts[j])
  BY <1>3 DEF SameRecordFact
<1>5. n - 1 \in Nat /\ n - 1 <= Len(run.facts)
  BY <1>2
<1> QED
  BY <1>1, <1>4, <1>5 DEF SameUpTo

(* One changes the fact a busy run is at.                                  *)
LEMMA LastChangedLoads ==
    ASSUME NEW d \in Definitions, NEW run, RecordIsCoherent(d, run), RecordLoads(d, run),
           Busy(run), NEW n, n = Len(run.facts), NEW g,
           NEW next, RecordIsCoherent(d, next), Moves(d, run, next),
           next.facts = [run.facts EXCEPT ![n] = g],
           FactIsNow(d, run, next, n),
           g.state \in LastFactStates => Busy(next),
           next.state = Predicted(d, next, n),
           ReservationStands(d, next),
           Artefacts(g) <= IF Busy(next) THEN 0 ELSE Weights(d)[Place(d, run)]
    PROVE  RecordLoads(d, next)
<1>0. FactsLoad(d, run) /\ OpenIsNamed(run) /\ BudgetsHold(d, run)
  BY DEF RecordLoads
<1>1. /\ IsSequence(run.facts) /\ n \in Nat /\ n # 0
      /\ DOMAIN run.facts = 1 .. n /\ n \in DOMAIN run.facts
      /\ Artefacts(run.facts[n]) = 0
  BY LastFactIsOpen
<1>c. IsSequence(next.facts)
  BY DEF RecordIsCoherent
<1>d. Len(next.facts) = Len(run.facts)
  BY <1>1, SameUpToReplaced
<1>e. DOMAIN next.facts = DOMAIN run.facts
  BY <1>1, SameUpToReplaced
<1>2. IsSequence(next.facts) /\ Len(next.facts) = n /\ DOMAIN next.facts = 1 .. n
  BY <1>1, <1>c, <1>d, <1>e
<1>a. \A i \in 1 .. n : next.facts[i] = IF i = n THEN g ELSE run.facts[i]
  BY <1>1, SameUpToReplaced
<1>3. SameUpTo(run, next, n - 1)
  BY <1>1, SameUpToReplaced
<1>4. FactsLoad(d, next)
  <2> SUFFICES ASSUME NEW i \in 1 .. n
               PROVE  FactLoads(d, next, i)
    BY <1>2 DEF FactsLoad
  <2>1. CASE i = n
    <3>1. n \in Int /\ n \in DOMAIN next.facts /\ FactLoads(d, run, n)
      BY <1>0, <1>1, <1>2 DEF FactsLoad
    <3>2. FactLoads(d, next, n)
      BY <1>1, <1>3, <3>1, ChangedFactLoads
    <3> QED
      BY <2>1, <3>2
  <2>2. CASE i # n
    <3>1. i \in 1 .. n - 1 /\ next.facts[i] = run.facts[i]
      BY <1>1, <1>a, <2>2
    <3> QED
      BY <1>0, <1>3, <3>1, EarlierFactLoads
  <2> QED
    BY <2>1, <2>2
<1>5. OpenIsNamed(next)
  <2> SUFFICES ASSUME NEW i \in 1 .. n, next.facts[i].state \in LastFactStates
               PROVE  Busy(next) /\ i = n
    BY <1>2 DEF OpenIsNamed
  <2>1. i = n
    BY <1>0, <1>1, <1>a DEF OpenIsNamed
  <2> QED
    BY <1>1, <1>a, <2>1
<1>6. StateLoads(d, next)
  BY <1>2 DEF StateLoads
<1>7. BudgetsHold(d, next)
  <2>1. ArtefactCount(next) = ArtefactCount(run) + Artefacts(g)
    BY <1>0, <1>1, <1>4, LastFactLeaves
  <2>2. ArtefactCount(run) \in Nat /\ ArtefactCount(next) \in Nat
    BY <1>0, <1>4, ArtefactsAreCounted
  <2>3. Closed(run) = n - 1 /\ Closed(next) = n - (IF Busy(next) THEN 1 ELSE 0)
    BY <1>2 DEF Closed
  <2>4. Closed(next) <= Closed(run) + (IF Busy(run) /\ ~Busy(next) THEN 1 ELSE 0)
    <3>1. n - 1 <= n - 1 + 0 /\ n <= n - 1 + 1 /\ n - 1 <= n - 1 + 1 /\ n - 0 <= n - 1 + 1
      BY <1>1
    <3>2. CASE Busy(next)
      BY <1>1, <2>3, <3>2
    <3>3. CASE ~Busy(next)
      BY <1>1, <2>3, <3>3
    <3> QED
      BY <3>2, <3>3
  <2>5. PICK a, w : a = Artefacts(g) /\ w = Weights(d)[Place(d, run)]
    OBVIOUS
  <2>6. ArtefactCount(next) <= ArtefactCount(run)
            + (IF Busy(run) /\ ~Busy(next) THEN w ELSE 0)
    <3>1. PICK c, e : c = ArtefactCount(next) /\ e = ArtefactCount(run)
      OBVIOUS
    <3>2. c \in Nat /\ e \in Nat /\ c = e + a
      BY <2>1, <2>2, <2>5, <3>1
    <3>3. w \in Nat
      <4>1. Place(d, run) \in Steps(d)
        BY LastFactIsOpen
      <4> QED
        BY <2>5, <4>1, WeightsAreWeights DEF IsWeight
    <3>4. a \in Nat
      <4>1. next.facts[n] = g /\ n \in DOMAIN next.facts
        BY <1>1, <1>2, <1>a
      <4> QED
        BY <1>4, <2>5, <4>1, ArtefactsAreNumbers DEF AreNumbers, ArtefactsLeft
    <3>5. a <= IF Busy(next) THEN 0 ELSE w
      BY <2>5
    <3>6. c <= e + (IF Busy(next) THEN 0 ELSE w)
      BY <3>2, <3>3, <3>4, <3>5
    <3> QED
      BY <3>1, <3>6
  <2> QED
    BY <1>0, <1>4, <2>4, <2>5, <2>6, BudgetsStay
<1> QED
  BY <1>4, <1>5, <1>6, <1>7 DEF RecordLoads

-----------------------------------------------------------------------------
(* The decision of a gate changes its fact.                                *)
LEMMA ClosedGateLoads ==
    ASSUME NEW d \in Definitions, NEW run, RecordIsCoherent(d, run), RecordLoads(d, run),
           NEW g, Awaits(run, g),
           NEW state \in {"Approved", "RevisionRequested", "Cancelled", "Interrupted"},
           NEW f, f = [run.facts[g] EXCEPT !.state = state],
           NEW next, RecordIsCoherent(d, next), Moves(d, run, next),
           next.facts = [run.facts EXCEPT ![g] = f],
           next.state.phase \in {"Ready"} \union TerminalPhase,
           next.state = PredictedFromGate(d, next, g),
           ReservationStands(d, next)
    PROVE  RecordLoads(d, next)
<1>1. /\ Busy(run) /\ g = Len(run.facts)
      /\ f.fact = "gate" /\ f.state = state /\ f.step = run.state.step
      /\ run.facts[g].fact = "gate" /\ f.step = run.facts[g].step
      /\ IsGate(d, run.state.step)
  <2>1. Busy(run) /\ g = Len(run.facts) /\ IsGate(d, run.state.step)
    BY GateCloses
  <2>2. f.fact = "gate" /\ f.state = state /\ f.step = run.state.step
    BY GateCloses
  <2>3. f.fact = run.facts[g].fact /\ f.step = run.facts[g].step
    BY GateCloses
  <2> QED
    BY <2>1, <2>2, <2>3
<1>2. /\ IsSequence(run.facts) /\ g \in DOMAIN run.facts /\ g # 0
      /\ run.state.step \in Steps(d) /\ Place(d, run) = run.state.step
  BY <1>1, LastFactIsOpen
<1>3. next.facts[g] = f
  BY <1>2, SameUpToReplaced
<1>4. f.candidate = run.facts[g].candidate
  <2>1. DOMAIN run.facts[g] = GateFields
    BY <1>1, <1>2 DEF RecordIsCoherent, FactIsCoherent
  <2> QED
    BY <2>1 DEF GateFields
<1>5. FactIsNow(d, run, next, g)
  BY <1>1, <1>3, <1>4 DEF FactIsNow, GateStates
<1>6. f.state \notin LastFactStates /\ ~Busy(next)
  BY <1>1 DEF LastFactStates, Busy, TerminalPhase
<1>7. next.state = Predicted(d, next, g)
  BY <1>1, <1>2, <1>3 DEF Predicted
<1>8. Artefacts(f) <= Weights(d)[Place(d, run)]
  <2>1. d[run.state.step].outputs = {"PlanDecision"}
    BY <1>1, <1>2, DefinitionsAreValid DEF Valid, SupportedOutputs
  <2>2. Durable({"PlanDecision"}) = {"PlanDecision"}
    BY DEF Durable, ArtefactKind
  <2>3. Weights(d)[run.state.step] = 1
    BY <1>2, <2>1, <2>2, FS_Singleton DEF Weights
  <2>4. Artefacts(f) \in {0, 1}
    BY <1>1 DEF Artefacts
  <2> QED
    BY <1>2, <2>3, <2>4
<1> QED
  BY <1>1, <1>5, <1>6, <1>7, <1>8, LastChangedLoads

LEMMA AwaitedGateIsUnreserved ==
    ASSUME NEW d \in Definitions, NEW run, RecordIsCoherent(d, run), RecordLoads(d, run),
           run.state.phase = "AwaitingHuman"
    PROVE  ~IsReserved(run)
  BY OpenReservation DEF Busy, AttemptOpen

LEMMA EndedGateLoads ==
    ASSUME NEW d \in Definitions, NEW run, RecordIsCoherent(d, run), RecordLoads(d, run),
           NEW g, Awaits(run, g),
           NEW state, NEW to,
           \/ state = "Approved" /\ to = AdvancedState(d, run.state.step)
           \/ state \in {"Cancelled", "Interrupted"} /\ to = Ended(state),
           NEW next, next = CloseGate(run, g, state, to),
           RecordIsCoherent(d, next), Moves(d, run, next),
           next.state.phase \in {"Ready"} \union TerminalPhase
    PROVE  RecordLoads(d, next)
<1>1. PICK f : f = [run.facts[g] EXCEPT !.state = state]
  OBVIOUS
<1>2. DOMAIN run = RunFields /\ IsSequence(run.facts)
  BY DEF RecordIsCoherent
<1>3. /\ next.facts = [run.facts EXCEPT ![g].state = state]
      /\ next.state = to /\ next.reservation = run.reservation
  BY <1>2, CloseGateIsRecord, CloseGateKeepsReservation
<1>4. next.facts = [run.facts EXCEPT ![g] = f]
  BY <1>1, <1>3
<1>5. Busy(run) /\ g = Len(run.facts) /\ f.state = state /\ f.step = run.state.step
  BY <1>1, GateCloses
<1>6. next.facts[g] = f
  <2>1. g \in DOMAIN run.facts
    BY <1>5, LastFactIsOpen
  <2> QED
    BY <1>2, <1>4, <2>1, SameUpToReplaced
<1>7. next.state = PredictedFromGate(d, next, g)
  BY <1>3, <1>5, <1>6 DEF PredictedFromGate
<1>8. ~IsReserved(next)
  BY <1>3, AwaitedGateIsUnreserved DEF IsReserved, Awaits
<1>9. ReservationStands(d, next)
  BY <1>8 DEF ReservationStands
<1> QED
  BY <1>1, <1>4, <1>7, <1>9, ClosedGateLoads

LEMMA AcceptedPlanLoads ==
    ASSUME NEW d \in Definitions, NEW run, RecordIsCoherent(d, run), RecordLoads(d, run),
           NEW g, NEW onTime, NEW next \in AcceptPlan(d, run, g, onTime)
    PROVE  RecordLoads(d, next)
<1>1. /\ Awaits(run, g)
      /\ next = CloseGate(run, g, "Approved", AdvancedState(d, run.state.step))
  BY DEF AcceptPlan, When
<1>2. /\ RecordIsCoherent(d, next) /\ Moves(d, run, next)
      /\ next.state.phase \in {"Ready", "Completed"}
  BY PlanIsAccepted DEF Progresses
<1>3. next.state.phase \in {"Ready"} \union TerminalPhase
  BY <1>2 DEF TerminalPhase
<1> QED
  BY <1>1, <1>2, <1>3, EndedGateLoads

LEMMA CancelledGateLoads ==
    ASSUME NEW d \in Definitions, NEW run, RecordIsCoherent(d, run), RecordLoads(d, run),
           NEW g, NEW onTime, NEW next \in CancelGate(run, g, onTime)
    PROVE  RecordLoads(d, next)
<1>1. Awaits(run, g) /\ next = CloseGate(run, g, "Cancelled", Ended("Cancelled"))
  BY DEF CancelGate, When
<1>2. /\ RecordIsCoherent(d, next) /\ Moves(d, run, next)
      /\ next.state.phase = "Cancelled"
  BY GateIsCancelled DEF Progresses
<1>3. next.state.phase \in {"Ready"} \union TerminalPhase
  BY <1>2 DEF TerminalPhase
<1> QED
  BY <1>1, <1>2, <1>3, EndedGateLoads

(* The count that sends a revision on is the count the record repeats.     *)
LEMMA RevisionIsCounted ==
    ASSUME NEW d \in Definitions, NEW run, RecordIsCoherent(d, run),
           NEW g, Awaits(run, g), NEW f, f = [run.facts[g] EXCEPT !.state = "RevisionRequested"],
           NEW next, next.facts = [run.facts EXCEPT ![g] = f]
    PROVE  /\ HumanRevisionCount(run, run.state.step) \in Nat
           /\ RevisionsUpTo(next, g) = HumanRevisionCount(run, run.state.step) + 1
<1> DEFINE s == run.state.step
           S == {i \in Gates(run) : /\ run.facts[i].step = s
                                    /\ run.facts[i].state = "RevisionRequested"}
           T == {i \in Gates(next) : /\ i <= g
                                     /\ next.facts[i].step = next.facts[g].step
                                     /\ next.facts[i].state = "RevisionRequested"}
<1>1. /\ f.fact = "gate" /\ f.state = "RevisionRequested" /\ f.step = s
      /\ Busy(run) /\ run.facts[g].state = "AwaitingDecision" /\ g = Len(run.facts)
  <2>1. f.fact = "gate" /\ f.state = "RevisionRequested" /\ f.step = s
    BY GateCloses
  <2>2. Busy(run) /\ g = Len(run.facts)
    BY GateCloses
  <2>3. run.facts[g].state = "AwaitingDecision"
    BY DEF Awaits
  <2> QED
    BY <2>1, <2>2, <2>3
<1>2. /\ IsSequence(run.facts) /\ g \in DOMAIN run.facts
      /\ DOMAIN run.facts = 1 .. g /\ g \in Nat
  <2>1. IsSequence(run.facts) /\ g > 0
    BY <1>1 DEF RecordIsCoherent, StateIsCoherent
  <2>2. g \in Nat /\ DOMAIN run.facts = 1 .. g
    BY <1>1, <2>1, SequenceLength
  <2> QED
    BY <2>1, <2>2
<1>3. DOMAIN next.facts = DOMAIN run.facts
  BY <1>2, SameUpToReplaced
<1>4. \A i \in DOMAIN run.facts : next.facts[i] = IF i = g THEN f ELSE run.facts[i]
  BY <1>2, SameUpToReplaced
<1>5. T = S \union {g} /\ g \notin S
  <2>1. g \notin S
    BY <1>1
  <2>2. ASSUME NEW i
        PROVE  i \in T <=> i \in S \/ i = g
    <3>1. i \in DOMAIN run.facts => i <= g
      BY <1>2
    <3>2. CASE i = g
      BY <1>1, <1>2, <1>3, <1>4, <3>1, <3>2 DEF Gates
    <3>3. CASE i # g
      BY <1>1, <1>2, <1>3, <1>4, <3>1, <3>3 DEF Gates
    <3> QED
      BY <3>2, <3>3
  <2> QED
    BY <2>1, <2>2
<1>6. IsFiniteSet(S)
  <2>1. S \subseteq DOMAIN run.facts
    BY DEF Gates
  <2>2. IsFiniteSet(1 .. g)
    BY <1>2, FactsAreFinite
  <2> QED
    BY <1>2, <2>1, <2>2, FS_Subset
<1>7. Cardinality(S) \in Nat /\ Cardinality(T) = Cardinality(S) + 1
  BY <1>5, <1>6, FS_AddElement, FS_CardinalityType
<1>8. HumanRevisionCount(run, s) = Cardinality(S) /\ RevisionsUpTo(next, g) = Cardinality(T)
  BY DEF HumanRevisionCount, RevisionsUpTo
<1> QED
  BY <1>7, <1>8

LEMMA RevisedPlanLoads ==
    ASSUME NEW d \in Definitions, NEW run, RecordIsCoherent(d, run), RecordLoads(d, run),
           NEW g, NEW onTime, NEW next \in RevisePlan(d, run, g, onTime)
    PROVE  RecordLoads(d, next)
<1> DEFINE s == run.state.step
           policy == d[s].revision
<1>1. Awaits(run, g) /\ policy # NoPolicy
  BY DEF RevisePlan
<1>2. DOMAIN run = RunFields /\ IsSequence(run.facts)
  BY DEF RecordIsCoherent
<1>3. PICK f : f = [run.facts[g] EXCEPT !.state = "RevisionRequested"]
  OBVIOUS
<1>4. f.fact = "gate" /\ f.state = "RevisionRequested" /\ f.step = s
  BY <1>1, <1>3, GateCloses
<1>5. Busy(run) /\ run.state.at = g
  BY <1>1 DEF Awaits, Busy
<1>6. g \in DOMAIN run.facts /\ s \in Steps(d)
  BY <1>5, LastFactIsOpen
<1>7. policy.limit \in Nat
  BY <1>1, <1>6, DefinitionIsValid
<1>8. /\ RecordIsCoherent(d, next) /\ Moves(d, run, next)
      /\ next.state.phase \in {"Ready", "EscalatedAttemptLimit"}
  BY PlanIsRevised DEF Progresses
<1>9. next.state.phase \in {"Ready"} \union TerminalPhase
  BY <1>8 DEF TerminalPhase
<1>10. CASE HumanRevisionCount(run, s) >= policy.limit - 1
  <2>1. next = CloseGate(run, g, "RevisionRequested",
                         Escalated(s, "EscalatedAttemptLimit"))
    BY <1>1, <1>10 DEF RevisePlan
  <2>2. /\ next.facts = [run.facts EXCEPT ![g].state = "RevisionRequested"]
        /\ next.state = Escalated(s, "EscalatedAttemptLimit")
        /\ next.reservation = run.reservation
    BY <1>2, <2>1, CloseGateIsRecord, CloseGateKeepsReservation
  <2>3. next.facts = [run.facts EXCEPT ![g] = f]
    BY <1>3, <2>2
  <2>4. next.facts[g] = f
    BY <1>2, <1>6, <2>3, SameUpToReplaced
  <2>5. PICK c, e : c = HumanRevisionCount(run, s) /\ e = RevisionsUpTo(next, g)
    OBVIOUS
  <2>6. c \in Nat /\ e = c + 1
    BY <1>1, <1>3, <2>3, <2>5, RevisionIsCounted
  <2>7. e >= policy.limit
    BY <1>7, <1>10, <2>5, <2>6
  <2>8. next.state = PredictedFromGate(d, next, g)
    BY <1>4, <2>2, <2>4, <2>5, <2>7 DEF PredictedFromGate
  <2>9. ReservationStands(d, next)
    <3>1. run.state.phase = "AwaitingHuman"
      BY <1>1 DEF Awaits
    <3> QED
      BY <2>2, <3>1, AwaitedGateIsUnreserved DEF ReservationStands, IsReserved
  <2> QED
    BY <1>1, <1>3, <1>8, <1>9, <2>3, <2>8, <2>9, ClosedGateLoads
<1>11. CASE ~(HumanRevisionCount(run, s) >= policy.limit - 1)
  <2>1. PICK closed : closed = CloseGate(run, g, "RevisionRequested",
                                         Ready(policy.target))
    OBVIOUS
  <2>2. next = [closed EXCEPT !.reservation =
                   [gate |-> g, target |-> policy.target, attempt |-> 0]]
    BY <1>1, <1>11, <2>1 DEF RevisePlan
  <2>3. /\ DOMAIN closed = RunFields
        /\ closed.facts = [run.facts EXCEPT ![g].state = "RevisionRequested"]
        /\ closed.state = Ready(policy.target)
    BY <1>2, <2>1, CloseGateIsRecord
  <2>4. /\ next.facts = closed.facts /\ next.state = closed.state
        /\ next.reservation = [gate |-> g, target |-> policy.target, attempt |-> 0]
    BY <2>2, <2>3 DEF RunFields
  <2>5. next.facts = [run.facts EXCEPT ![g] = f]
    BY <1>3, <2>3, <2>4
  <2>6. next.facts[g] = f
    BY <1>2, <1>6, <2>5, SameUpToReplaced
  <2>7. DOMAIN next.facts = DOMAIN run.facts
    BY <1>2, <1>6, <2>5, SameUpToReplaced
  <2>8. next.state = PredictedFromGate(d, next, g)
    <3>1. PICK c, e : c = HumanRevisionCount(run, s) /\ e = RevisionsUpTo(next, g)
      OBVIOUS
    <3>2. c \in Nat /\ e = c + 1
      BY <1>1, <1>3, <2>5, <3>1, RevisionIsCounted
    <3>3. ~(e >= policy.limit)
      BY <1>7, <1>11, <3>1, <3>2
    <3>4. next.state = Ready(policy.target)
      BY <2>3, <2>4
    <3> QED
      BY <1>4, <2>6, <3>1, <3>3, <3>4 DEF PredictedFromGate
  <2>9. ReservationStands(d, next)
    <3>1. /\ next.reservation.gate = g /\ next.reservation.attempt = 0
          /\ next.reservation.target = policy.target
      BY <2>4
    <3>2. next.state = Ready(next.reservation.target)
      BY <2>3, <2>4, <3>1
    <3> QED
      BY <1>1, <1>4, <1>6, <2>6, <2>7, <3>1, <3>2 DEF ReservationStands
  <2> QED
    BY <1>1, <1>3, <1>8, <1>9, <2>5, <2>8, <2>9, ClosedGateLoads
<1> QED
  BY <1>10, <1>11

-----------------------------------------------------------------------------
(* What happens to the open attempt.                                       *)
LEMMA OpenAttemptOfRecord ==
    ASSUME NEW d \in Definitions, NEW run, RecordIsCoherent(d, run), RecordLoads(d, run),
           run.state.phase \in AttemptOpen, NEW a, a = run.state.at
    PROVE  /\ Busy(run) /\ a = Len(run.facts) /\ a \in DOMAIN run.facts /\ a # 0
           /\ IsSequence(run.facts)
           /\ run.state.step \in Steps(d) /\ Place(d, run) = run.state.step
           /\ run.facts[a].fact = "attempt" /\ DOMAIN run.facts[a] = AttemptFields
           /\ run.facts[a].step = run.state.step
           /\ run.facts[a].state = run.state.phase
           /\ run.facts[a].route = "None" /\ run.facts[a].outputs = {}
<1>1. Busy(run)
  BY DEF Busy, AttemptOpen
<1>2. /\ a = Len(run.facts) /\ a \in DOMAIN run.facts /\ a # 0
      /\ IsSequence(run.facts) /\ Place(d, run) = run.state.step
      /\ run.state.step \in Steps(d)
  BY <1>1, LastFactIsOpen
<1>3. a \in Attempts(run)
  BY OpenAttempt
<1>4. /\ DOMAIN run.facts[a] = AttemptFields
      /\ run.facts[a].state = run.state.phase
      /\ run.facts[a].step = run.state.step
  BY OpenAttempt
<1>5. run.facts[a].fact = "attempt"
  BY <1>3 DEF Attempts
<1>6. FactLoads(d, run, a)
  BY <1>2 DEF RecordLoads, FactsLoad
<1>7. AttemptLoads(d, run, a, run.facts[a])
  BY <1>5, <1>6 DEF FactLoads
<1>8. run.facts[a].state # "Completed"
  BY <1>4 DEF AttemptOpen
<1>9. run.facts[a].route = "None" /\ run.facts[a].outputs = {}
  BY <1>7, <1>8 DEF AttemptLoads
<1> QED
  BY <1>1, <1>2, <1>4, <1>5, <1>9

AttemptBecomes(d, run, a, f) ==
    /\ f.fact = "attempt" /\ f.step = run.facts[a].step /\ f.inputs = run.facts[a].inputs
    /\ AttemptResultLoads(d, f) /\ AttemptIsolationLoads(f)
    /\ f.route = IF f.state = "Completed" THEN RouteOf(d, run, a, f.verdict) ELSE "None"
    /\ f.outputs = IF f.state = "Completed" THEN Durable(d[f.step].outputs) ELSE {}

LEMMA ChangedAttemptLoads ==
    ASSUME NEW d \in Definitions, NEW run, RecordIsCoherent(d, run), RecordLoads(d, run),
           run.state.phase \in AttemptOpen, NEW a, a = run.state.at,
           NEW f, AttemptBecomes(d, run, a, f),
           NEW next, RecordIsCoherent(d, next), Moves(d, run, next),
           next.facts = [run.facts EXCEPT ![a] = f],
           next.state = PredictedFromAttempt(d, next, a),
           Busy(next) <=> f.state \in AttemptOpen,
           ReservationStands(d, next)
    PROVE  RecordLoads(d, next)
<1>0. /\ f.fact = "attempt" /\ f.step = run.facts[a].step /\ f.inputs = run.facts[a].inputs
      /\ AttemptResultLoads(d, f) /\ AttemptIsolationLoads(f)
      /\ f.route = IF f.state = "Completed" THEN RouteOf(d, run, a, f.verdict) ELSE "None"
      /\ f.outputs = IF f.state = "Completed" THEN Durable(d[f.step].outputs) ELSE {}
  BY DEF AttemptBecomes
<1>1. /\ Busy(run) /\ a = Len(run.facts) /\ a \in DOMAIN run.facts /\ a # 0
      /\ IsSequence(run.facts)
      /\ run.state.step \in Steps(d) /\ Place(d, run) = run.state.step
      /\ run.facts[a].fact = "attempt" /\ run.facts[a].step = run.state.step
  BY OpenAttemptOfRecord
<1>2. next.facts[a] = f
  BY <1>1, SameUpToReplaced
<1>3. FactIsNow(d, run, next, a)
  BY <1>0, <1>1, <1>2 DEF FactIsNow
<1>4. next.state = Predicted(d, next, a)
  BY <1>0, <1>1, <1>2 DEF Predicted
<1>5. f.state \in {"Active", "Paused", "Completed", "Failed", "Cancelled", "Interrupted"}
  BY <1>0 DEF AttemptResultLoads
<1>6. f.state \in LastFactStates => Busy(next)
  BY <1>5 DEF LastFactStates, AttemptOpen
<1>7. Weights(d)[Place(d, run)] = Cardinality(Durable(d[f.step].outputs))
  BY <1>0, <1>1 DEF Weights
<1>8. Artefacts(f) <= IF Busy(next) THEN 0 ELSE Weights(d)[Place(d, run)]
  <2>1. Weights(d)[Place(d, run)] \in Nat
    BY <1>1, WeightsAreWeights DEF IsWeight
  <2>2. PICK w : w = Weights(d)[Place(d, run)]
    OBVIOUS
  <2>3. Artefacts(f) = IF f.state = "Completed" THEN w ELSE 0
    BY <1>0, <1>7, <2>2, FS_EmptySet DEF Artefacts
  <2>4. f.state = "Completed" => ~Busy(next)
    BY DEF AttemptOpen
  <2> QED
    BY <2>1, <2>2, <2>3, <2>4
<1> QED
  BY <1>1, <1>3, <1>4, <1>6, <1>8, LastChangedLoads

LEMMA CompletedAttemptLoads ==
    ASSUME NEW d \in Definitions, NEW run, RecordIsCoherent(d, run), RecordLoads(d, run),
           NEW a, NEW outputs, NEW verdict, NEW onTime,
           NEW next \in CompleteAttempt(d, run, a, outputs, verdict, onTime)
    PROVE  RecordLoads(d, next)
<1> DEFINE s == run.facts[a].step
           route == RouteOf(d, run, a, verdict)
<1>1. /\ run.state.phase = "Active" /\ run.state.at = a
      /\ run.facts[a].cleanup = "Complete" /\ outputs = Durable(d[s].outputs)
      /\ next = [run EXCEPT
             !.facts[a].state = "Completed", !.facts[a].outputs = outputs,
             !.facts[a].verdict = verdict, !.facts[a].route = route,
             !.state = RoutedState(d, s, route),
             !.reservation = IF @.attempt = a THEN NoReservation ELSE @]
  BY DEF CompleteAttempt, When
<1>2. run.state.phase \in AttemptOpen
  BY <1>1 DEF AttemptOpen
<1>3. /\ Busy(run) /\ a = Len(run.facts) /\ a \in DOMAIN run.facts /\ a # 0
      /\ IsSequence(run.facts)
      /\ run.facts[a].fact = "attempt" /\ DOMAIN run.facts[a] = AttemptFields
  BY <1>1, <1>2, OpenAttemptOfRecord
<1> HIDE DEF route
<1>4. PICK f : f = [run.facts[a] EXCEPT !.state = "Completed", !.outputs = outputs,
                                        !.verdict = verdict, !.route = route]
  OBVIOUS
<1>5. /\ f.fact = "attempt" /\ f.route = route /\ f.verdict = verdict
      /\ f.step = s /\ f.state = "Completed" /\ f.outputs = outputs
      /\ f.inputs = run.facts[a].inputs /\ f.cleanup = "Complete"
  BY <1>1, <1>3, <1>4 DEF AttemptFields
<1> HIDE DEF s
<1>6. DOMAIN run = RunFields
  BY DEF RecordIsCoherent
<1>7. next.state = RoutedState(d, s, route)
  BY <1>1, <1>6 DEF RunFields
<1>8. next.reservation = IF run.reservation.attempt = a THEN NoReservation
                         ELSE run.reservation
  BY <1>1, <1>6 DEF RunFields
<1>9. next.facts = [run.facts EXCEPT ![a] = f]
  <2>1. next.facts = [run.facts EXCEPT ![a].state = "Completed", ![a].outputs = outputs,
                                       ![a].verdict = verdict, ![a].route = route]
    BY <1>1, <1>6 DEF RunFields
  <2> QED
    BY <1>3, <1>4, <2>1
<1>10. next.facts[a] = f
  BY <1>3, <1>9, SameUpToReplaced
<1>11. next.state = PredictedFromAttempt(d, next, a)
  BY <1>5, <1>7, <1>10 DEF PredictedFromAttempt, AttemptOpen
<1>12. /\ RecordIsCoherent(d, next) /\ Moves(d, run, next)
       /\ next.state.phase \in {"Ready", "Completed", "EscalatedBlocked",
                                "EscalatedAttemptLimit"}
  BY AttemptCompletes DEF Progresses
<1>13. ~Busy(next)
  BY <1>12 DEF Busy
<1>14. ~IsReserved(next)
  <2>1. CASE IsReserved(run)
    <3>1. run.reservation.attempt = a
      BY <1>3, <2>1, OpenReservation
    <3> QED
      BY <1>8, <3>1 DEF IsReserved
  <2>2. CASE ~IsReserved(run)
    BY <1>8, <2>2 DEF IsReserved
  <2> QED
    BY <2>1, <2>2
<1>15. ReservationStands(d, next)
  BY <1>14 DEF ReservationStands
<1>16. AttemptResultLoads(d, f) /\ AttemptIsolationLoads(f)
  BY <1>1, <1>5 DEF AttemptResultLoads, AttemptIsolationLoads, s
<1>17. /\ f.route = RouteOf(d, run, a, f.verdict)
       /\ f.outputs = Durable(d[f.step].outputs)
  BY <1>1, <1>5 DEF route, s
<1>18. f.state \notin AttemptOpen
  BY <1>5 DEF AttemptOpen
<1>19. f.step = run.facts[a].step
  BY <1>5 DEF s
<1>20. AttemptBecomes(d, run, a, f)
  BY <1>5, <1>16, <1>17, <1>19 DEF AttemptBecomes
<1>21. Busy(next) <=> f.state \in AttemptOpen
  BY <1>13, <1>18
<1>22. a = run.state.at
  BY <1>1
<1> QED
  BY <1>2, <1>9, <1>11, <1>12, <1>15, <1>20, <1>21, <1>22, ChangedAttemptLoads

LEMMA EndedAttemptLoads ==
    ASSUME NEW d \in Definitions, NEW run, RecordIsCoherent(d, run), RecordLoads(d, run),
           run.state.phase \in AttemptOpen, NEW a, a = run.state.at,
           NEW state \in {"Failed", "Cancelled", "Interrupted"},
           state # "Interrupted" => run.facts[a].cleanup # "Pending",
           NEW next \in FinishAttempt(run, a, state, Ended(state))
    PROVE  RecordLoads(d, next)
<1>1. /\ Busy(run) /\ a = Len(run.facts) /\ a \in DOMAIN run.facts /\ a # 0
      /\ IsSequence(run.facts)
      /\ run.facts[a].fact = "attempt" /\ DOMAIN run.facts[a] = AttemptFields
      /\ run.facts[a].route = "None" /\ run.facts[a].outputs = {}
  <2>1. Busy(run) /\ a = Len(run.facts) /\ a \in DOMAIN run.facts /\ a # 0
    BY OpenAttemptOfRecord
  <2>2. IsSequence(run.facts)
    BY OpenAttemptOfRecord
  <2>3. run.facts[a].fact = "attempt" /\ DOMAIN run.facts[a] = AttemptFields
    BY OpenAttemptOfRecord
  <2>4. run.facts[a].route = "None" /\ run.facts[a].outputs = {}
    BY OpenAttemptOfRecord
  <2> QED
    BY <2>1, <2>2, <2>3, <2>4
<1>2. PICK f : f = [run.facts[a] EXCEPT !.state = state]
  OBVIOUS
<1>3. /\ f.fact = "attempt" /\ f.route = "None" /\ f.outputs = {}
      /\ f.step = run.facts[a].step /\ f.state = state
      /\ f.inputs = run.facts[a].inputs /\ f.cleanup = run.facts[a].cleanup
  BY <1>1, <1>2 DEF AttemptFields
<1>4. DOMAIN run = RunFields
  BY DEF RecordIsCoherent
<1>5. next = [run EXCEPT !.facts[a].state = state, !.state = Ended(state),
                         !.reservation = NoReservation]
  BY DEF FinishAttempt
<1>6. /\ next.facts = [run.facts EXCEPT ![a] = f]
      /\ next.state = Ended(state)
      /\ next.reservation = NoReservation
  BY <1>2, <1>4, <1>5 DEF RunFields
<1>7. next.facts[a] = f
  BY <1>1, <1>6, SameUpToReplaced
<1>8. next.state = PredictedFromAttempt(d, next, a)
  BY <1>3, <1>6, <1>7 DEF PredictedFromAttempt, AttemptOpen
<1>9. /\ RecordIsCoherent(d, next) /\ Moves(d, run, next)
      /\ next.state.phase = state
  <2>1. run.state.phase \in {"Active", "Paused"}
    BY DEF AttemptOpen
  <2> QED
    BY <2>1, AttemptEnds DEF Progresses
<1>10. ~Busy(next) /\ f.state \notin AttemptOpen /\ f.state # "Completed"
  BY <1>3, <1>9 DEF Busy, AttemptOpen
<1>11. ReservationStands(d, next)
  BY <1>6 DEF ReservationStands, IsReserved
<1>12. AttemptResultLoads(d, f)
  BY <1>3 DEF AttemptResultLoads
<1>13. AttemptIsolationLoads(f)
  BY <1>3 DEF AttemptIsolationLoads
<1>14. AttemptBecomes(d, run, a, f)
  BY <1>3, <1>10, <1>12, <1>13 DEF AttemptBecomes
<1>15. Busy(next) <=> f.state \in AttemptOpen
  BY <1>10
<1> QED
  BY <1>6, <1>8, <1>9, <1>11, <1>14, <1>15, ChangedAttemptLoads

(* A pause and the work after it answer the same reservation.              *)
LEMMA OpenReservationStands ==
    ASSUME NEW d \in Definitions, NEW run, RecordIsCoherent(d, run), RecordLoads(d, run),
           run.state.phase \in AttemptOpen, NEW a, a = run.state.at,
           NEW f, NEW next, next.facts = [run.facts EXCEPT ![a] = f],
           NEW p \in AttemptOpen, next.state = At(p, run.state.step, a),
           next.reservation = run.reservation
    PROVE  ReservationStands(d, next)
<1> SUFFICES ASSUME IsReserved(run)
             PROVE  ReservationStands(d, next)
  BY DEF ReservationStands, IsReserved
<1>1. /\ Busy(run) /\ a = Len(run.facts) /\ a \in DOMAIN run.facts /\ a # 0
      /\ IsSequence(run.facts) /\ run.facts[a].fact = "attempt"
  BY OpenAttemptOfRecord
<1>2. /\ run.reservation.attempt = a
      /\ run.reservation.target = run.state.step
  BY <1>1, OpenReservation
<1>3. PICK g : g = run.reservation.gate
  OBVIOUS
<1>4. /\ g \in DOMAIN run.facts
      /\ run.facts[g].fact = "gate" /\ run.facts[g].state = "RevisionRequested"
      /\ d[run.facts[g].step].revision # NoPolicy
      /\ d[run.facts[g].step].revision.target = run.reservation.target
  BY <1>3 DEF RecordLoads, ReservationStands
<1>5. g # a
  BY <1>1, <1>4
<1>6. DOMAIN next.facts = DOMAIN run.facts
  BY <1>1, SameUpToReplaced
<1>7. next.facts[g] = run.facts[g]
  BY <1>1, <1>4, <1>5, SameUpToReplaced
<1>8. next.state = At(p, next.reservation.target, next.reservation.attempt)
  BY <1>2
<1> QED
  BY <1>1, <1>2, <1>3, <1>4, <1>6, <1>7, <1>8 DEF ReservationStands

LEMMA PausedAttemptLoads ==
    ASSUME NEW d \in Definitions, NEW run, RecordIsCoherent(d, run), RecordLoads(d, run),
           NEW a, NEW onTime, NEW next \in PauseAttempt(d, run, a, onTime)
    PROVE  RecordLoads(d, next)
<1> DEFINE s == run.facts[a].step
<1>1. /\ run.state.phase = "Active" /\ run.state.at = a
      /\ run.facts[a].cleanup = "Complete" /\ IsAgent(d, s)
      /\ next = [run EXCEPT !.facts[a].state = "Paused", !.facts[a].continuation = TRUE,
                            !.state = At("Paused", s, a)]
  BY DEF PauseAttempt, When
<1>2. run.state.phase \in AttemptOpen
  BY <1>1 DEF AttemptOpen
<1>3. /\ a \in DOMAIN run.facts /\ IsSequence(run.facts)
      /\ run.facts[a].fact = "attempt" /\ DOMAIN run.facts[a] = AttemptFields
      /\ run.facts[a].route = "None" /\ run.facts[a].outputs = {}
      /\ s = run.state.step
  BY <1>1, <1>2, OpenAttemptOfRecord
<1>4. PICK f : f = [run.facts[a] EXCEPT !.state = "Paused", !.continuation = TRUE]
  OBVIOUS
<1>5. /\ f.fact = "attempt" /\ f.route = "None" /\ f.outputs = {}
      /\ f.step = s /\ f.state = "Paused"
      /\ f.inputs = run.facts[a].inputs /\ f.cleanup = "Complete"
      /\ f.continuation = TRUE
  BY <1>1, <1>3, <1>4 DEF AttemptFields
<1> HIDE DEF s
<1>6. DOMAIN run = RunFields
  BY DEF RecordIsCoherent
<1>7. next.state = At("Paused", s, a) /\ next.reservation = run.reservation
  BY <1>1, <1>6 DEF RunFields
<1>8. next.facts = [run.facts EXCEPT ![a] = f]
  <2>1. next.facts = [run.facts EXCEPT ![a].state = "Paused", ![a].continuation = TRUE]
    BY <1>1, <1>6 DEF RunFields
  <2> QED
    BY <1>3, <1>4, <2>1
<1>9. next.facts[a] = f
  BY <1>3, <1>8, SameUpToReplaced
<1>10. f.state \in AttemptOpen /\ f.state # "Completed"
  BY <1>5 DEF AttemptOpen
<1>11. next.state = PredictedFromAttempt(d, next, a)
  BY <1>5, <1>7, <1>9, <1>10 DEF PredictedFromAttempt
<1>12. /\ RecordIsCoherent(d, next) /\ Moves(d, run, next)
       /\ next.state.phase = "Paused"
  BY AttemptPauses DEF Progresses
<1>13. Busy(next)
  BY <1>12 DEF Busy
<1>14. AttemptResultLoads(d, f) /\ AttemptIsolationLoads(f)
  BY <1>1, <1>5 DEF AttemptResultLoads, AttemptIsolationLoads
<1>15. a = run.state.at
  BY <1>1
<1>16. ReservationStands(d, next)
  <2>1. next.state = At("Paused", run.state.step, a) /\ "Paused" \in AttemptOpen
    BY <1>3, <1>7 DEF AttemptOpen
  <2> QED
    BY <1>2, <1>7, <1>8, <1>15, <2>1, OpenReservationStands
<1>17. f.step = run.facts[a].step
  BY <1>5 DEF s
<1>18. AttemptBecomes(d, run, a, f)
  BY <1>5, <1>10, <1>14, <1>17 DEF AttemptBecomes
<1>19. Busy(next) <=> f.state \in AttemptOpen
  BY <1>10, <1>13
<1> QED
  BY <1>2, <1>8, <1>11, <1>12, <1>15, <1>16, <1>18, <1>19, ChangedAttemptLoads

LEMMA ResumedAttemptLoads ==
    ASSUME NEW d \in Definitions, NEW run, RecordIsCoherent(d, run), RecordLoads(d, run),
           NEW a, NEW onTime, NEW next \in ResumePaused(run, a, onTime)
    PROVE  RecordLoads(d, next)
<1> DEFINE s == run.state.step
<1>1. /\ run.state.phase = "Paused" /\ run.state.at = a
      /\ next = [run EXCEPT !.facts[a].state = "Active", !.facts[a].cleanup = "Pending",
                            !.state = At("Active", s, a)]
  BY DEF ResumePaused, When
<1>2. run.state.phase \in AttemptOpen
  BY <1>1 DEF AttemptOpen
<1>3. /\ a \in DOMAIN run.facts /\ IsSequence(run.facts)
      /\ run.facts[a].fact = "attempt" /\ DOMAIN run.facts[a] = AttemptFields
      /\ run.facts[a].route = "None" /\ run.facts[a].outputs = {}
      /\ run.facts[a].step = s
  BY <1>1, <1>2, OpenAttemptOfRecord
<1>4. PICK f : f = [run.facts[a] EXCEPT !.state = "Active", !.cleanup = "Pending"]
  OBVIOUS
<1>5. /\ f.fact = "attempt" /\ f.route = "None" /\ f.outputs = {}
      /\ f.step = run.facts[a].step /\ f.state = "Active"
      /\ f.inputs = run.facts[a].inputs
  BY <1>3, <1>4 DEF AttemptFields
<1> HIDE DEF s
<1>6. DOMAIN run = RunFields
  BY DEF RecordIsCoherent
<1>7. next.state = At("Active", s, a) /\ next.reservation = run.reservation
  BY <1>1, <1>6 DEF RunFields
<1>8. next.facts = [run.facts EXCEPT ![a] = f]
  <2>1. next.facts = [run.facts EXCEPT ![a].state = "Active", ![a].cleanup = "Pending"]
    BY <1>1, <1>6 DEF RunFields
  <2> QED
    BY <1>3, <1>4, <2>1
<1>9. next.facts[a] = f
  BY <1>3, <1>8, SameUpToReplaced
<1>10. f.state \in AttemptOpen /\ f.state # "Completed"
  BY <1>5 DEF AttemptOpen
<1>11. next.state = PredictedFromAttempt(d, next, a)
  BY <1>3, <1>5, <1>7, <1>9, <1>10 DEF PredictedFromAttempt
<1>12. RecordIsCoherent(d, next) /\ Moves(d, run, next) /\ next.state.phase = "Active"
  BY AttemptResumes DEF Progresses
<1>13. Busy(next)
  BY <1>12 DEF Busy
<1>14. AttemptResultLoads(d, f) /\ AttemptIsolationLoads(f)
  BY <1>5 DEF AttemptResultLoads, AttemptIsolationLoads
<1>15. ReservationStands(d, next)
  <2>1. next.state = At("Active", run.state.step, a) /\ "Active" \in AttemptOpen
    BY <1>7 DEF s, AttemptOpen
  <2>2. a = run.state.at
    BY <1>1
  <2> QED
    BY <1>2, <1>7, <1>8, <2>1, <2>2, OpenReservationStands
<1>16. a = run.state.at
  BY <1>1
<1>17. AttemptBecomes(d, run, a, f)
  BY <1>5, <1>10, <1>14 DEF AttemptBecomes
<1>18. Busy(next) <=> f.state \in AttemptOpen
  BY <1>10, <1>13
<1> QED
  BY <1>2, <1>8, <1>11, <1>12, <1>15, <1>16, <1>17, <1>18, ChangedAttemptLoads

-----------------------------------------------------------------------------
(* The others leave the facts as they were: a run that ends before its     *)
(* next attempt, and the outcome of a cleanup.                             *)
LEMMA SameFactsLoad ==
    ASSUME NEW d \in Definitions, NEW run, RecordIsCoherent(d, run), RecordLoads(d, run),
           NEW next, RecordIsCoherent(d, next), Moves(d, run, next),
           SameUpTo(run, next, Len(run.facts)), Len(next.facts) = Len(run.facts),
           \A i \in DOMAIN run.facts : run.facts[i].fact = "attempt" =>
               AttemptIsolationLoads(next.facts[i]),
           Busy(next) <=> Busy(run),
           \/ next.state = run.state
           \/ IsReady(run) /\ \E p \in {"Failed", "Cancelled", "Interrupted"} :
                                 next.state = Ended(p),
           ReservationStands(d, next)
    PROVE  RecordLoads(d, next)
<1> DEFINE n == Len(run.facts)
<1>1. FactsLoad(d, run) /\ OpenIsNamed(run) /\ StateLoads(d, run) /\ BudgetsHold(d, run)
  BY DEF RecordLoads
<1>2. /\ n \in Nat /\ DOMAIN run.facts = 1 .. n /\ DOMAIN next.facts = 1 .. n
      /\ \A i \in 1 .. n : SameRecordFact(run.facts[i], next.facts[i])
  <2>1. n \in Nat /\ DOMAIN run.facts = 1 .. n
    BY SequenceLength DEF RecordIsCoherent
  <2>2. DOMAIN next.facts = 1 .. n
    BY SequenceLength DEF RecordIsCoherent
  <2> QED
    BY <2>1, <2>2 DEF SameUpTo
<1>3. FactsLoad(d, next)
  <2> SUFFICES ASSUME NEW i \in 1 .. n
               PROVE  FactLoads(d, next, i)
    BY <1>2 DEF FactsLoad
  <2>1. i \in Int /\ i \in DOMAIN run.facts /\ i \in Nat /\ i <= n
    BY <1>2
  <2>2. SameUpTo(run, next, i)
    <3>1. \A j \in 1 .. i : j \in 1 .. n
      BY <1>2, <2>1
    <3>2. \A j \in 1 .. i : SameRecordFact(run.facts[j], next.facts[j])
      BY <1>2, <3>1
    <3> QED
      BY <2>1, <3>2 DEF SameUpTo
  <2>3. FactLoads(d, run, i) /\ run.facts[i].fact \in {"attempt", "gate"}
    BY <1>1, <2>1 DEF FactsLoad, RecordIsCoherent, FactIsCoherent
  <2> QED
    BY <2>1, <2>2, <2>3, SameFactLoads
<1>4. OpenIsNamed(next)
  BY <1>1, <1>2 DEF OpenIsNamed, SameRecordFact
<1>5. StateLoads(d, next)
  <2>1. Predicted(d, next, n) = Predicted(d, run, n)
    BY PredictedAlike
  <2>2. CASE next.state = run.state
    BY <1>1, <2>1, <2>2 DEF StateLoads
  <2>3. CASE IsReady(run) /\ \E p \in {"Failed", "Cancelled", "Interrupted"} :
                                next.state = Ended(p)
    <3>1. run.state = Predicted(d, run, n)
      BY <1>1, <2>3 DEF StateLoads, IsReady, Ended, At
    <3> QED
      BY <2>1, <2>3, <3>1 DEF StateLoads, IsReady
  <2> QED
    BY <2>2, <2>3
<1>6. BudgetsHold(d, next)
  <2>1. ArtefactCount(next) = ArtefactCount(run)
    <3>1. PICK T, h, k : /\ T = DOMAIN run.facts
                         /\ h = ArtefactsLeft(next.facts) /\ k = ArtefactsLeft(run.facts)
      OBVIOUS
    <3>2. T = DOMAIN next.facts /\ IsFiniteSet(T)
      BY <1>2, <3>1, FactsAreFinite
    <3>3. ASSUME NEW i \in T
          PROVE  h[i] = k[i]
      <4>1. SameRecordFact(run.facts[i], next.facts[i])
        BY <1>2, <3>1
      <4>2. Artefacts(next.facts[i]) = Artefacts(run.facts[i])
        BY <4>1 DEF SameRecordFact, Artefacts
      <4> QED
        BY <3>1, <3>2, <4>2 DEF ArtefactsLeft
    <3>4. Total(h, T) = Total(k, T)
      BY <3>2, <3>3, SumOfSame DEF Alike
    <3>5. ArtefactCount(next) = Total(h, T)
      BY <1>3, <3>1, <3>2, ArtefactsAreCounted
    <3>6. ArtefactCount(run) = Total(k, T)
      BY <1>1, <3>1, ArtefactsAreCounted
    <3> QED
      BY <3>4, <3>5, <3>6
  <2>2. ArtefactCount(run) \in Nat /\ Closed(run) \in Int
    BY <1>1, <1>2, ArtefactsAreCounted DEF Closed
  <2>3. Closed(next) = Closed(run)
    BY DEF Closed
  <2> QED
    BY <1>1, <1>3, <2>1, <2>2, <2>3, BudgetsStay
<1> QED
  BY <1>3, <1>4, <1>5, <1>6 DEF RecordLoads

LEMMA EndedReadyLoads ==
    ASSUME NEW d \in Definitions, NEW run, RecordIsCoherent(d, run), RecordLoads(d, run),
           IsReady(run), NEW p \in {"Failed", "Cancelled", "Interrupted"},
           NEW next, next = [run EXCEPT !.state = Ended(p), !.reservation = NoReservation],
           RecordIsCoherent(d, next), Moves(d, run, next)
    PROVE  RecordLoads(d, next)
<1>1. DOMAIN run = RunFields /\ IsSequence(run.facts)
  BY DEF RecordIsCoherent
<1>2. /\ next.facts = run.facts /\ next.state = Ended(p)
      /\ next.reservation = NoReservation
  BY <1>1 DEF RunFields
<1>3. Len(run.facts) \in Nat
  BY <1>1, SequenceLength
<1>4. SameUpTo(run, next, Len(run.facts))
  BY <1>1, <1>2, <1>3 DEF SameUpTo, SameRecordFact
<1>5. \A i \in DOMAIN run.facts : run.facts[i].fact = "attempt" =>
          AttemptIsolationLoads(next.facts[i])
  BY <1>2 DEF RecordLoads, FactsLoad, FactLoads, AttemptLoads
<1>6. ~Busy(run) /\ ~Busy(next)
  BY <1>2 DEF Busy, IsReady, Ended, At
<1>7. ReservationStands(d, next)
  BY <1>2 DEF ReservationStands, IsReserved
<1> QED
  BY <1>2, <1>4, <1>5, <1>6, <1>7, SameFactsLoad

LEMMA CleanedLoads ==
    ASSUME NEW d \in Definitions, NEW run, RecordIsCoherent(d, run), RecordLoads(d, run),
           NEW a \in Attempts(run), NEW cleanup,
           NEW next \in RecordCleanup(run, a, cleanup)
    PROVE  RecordLoads(d, next)
<1> SUFFICES ASSUME next # run
             PROVE  RecordLoads(d, next)
  OBVIOUS
<1>1. /\ next = [run EXCEPT !.facts[a].cleanup = cleanup]
      /\ run.facts[a].cleanup = "Pending"
  BY DEF RecordCleanup, When
<1>2. PICK f : f = [run.facts[a] EXCEPT !.cleanup = cleanup]
  OBVIOUS
<1>3. DOMAIN run = RunFields /\ IsSequence(run.facts)
  BY DEF RecordIsCoherent
<1>4. /\ next.state = run.state /\ next.reservation = run.reservation
      /\ next.facts = [run.facts EXCEPT ![a] = f]
  BY <1>1, <1>2, <1>3 DEF RunFields
<1>5. a \in DOMAIN run.facts /\ run.facts[a].fact = "attempt"
  BY DEF Attempts
<1>6. DOMAIN run.facts[a] = AttemptFields
  BY <1>5 DEF RecordIsCoherent, FactIsCoherent
<1>7. SameRecordFact(run.facts[a], f)
  BY <1>2, <1>5, <1>6 DEF AttemptFields, SameRecordFact
<1>8. Len(next.facts) = Len(run.facts)
  BY <1>3, <1>4, <1>5, SameUpToReplaced
<1>9. DOMAIN next.facts = DOMAIN run.facts
  BY <1>3, <1>4, <1>5, SameUpToReplaced
<1>10. \A i \in DOMAIN run.facts : next.facts[i] = IF i = a THEN f ELSE run.facts[i]
  BY <1>3, <1>4, <1>5, SameUpToReplaced
<1>11. RecordIsCoherent(d, next) /\ Moves(d, run, next)
  BY CleanupIsRecorded DEF Progresses
<1>12. SameUpTo(run, next, Len(run.facts))
  <2>1. Len(run.facts) \in Nat /\ DOMAIN run.facts = 1 .. Len(run.facts)
    BY <1>3, SequenceLength
  <2>2. \A i \in DOMAIN run.facts : SameRecordFact(run.facts[i], next.facts[i])
    <3> SUFFICES ASSUME NEW i \in DOMAIN run.facts
                 PROVE  SameRecordFact(run.facts[i], next.facts[i])
      OBVIOUS
    <3>1. CASE i = a
      BY <1>5, <1>7, <1>10, <3>1
    <3>2. CASE i # a
      BY <1>10, <3>2 DEF SameRecordFact
    <3> QED
      BY <3>1, <3>2
  <2>3. IsSequence(next.facts)
    BY <1>11 DEF RecordIsCoherent
  <2> QED
    BY <1>3, <1>8, <2>1, <2>2, <2>3 DEF SameUpTo
<1>13. \A i \in DOMAIN run.facts : run.facts[i].fact = "attempt" =>
           AttemptIsolationLoads(next.facts[i])
  <2> SUFFICES ASSUME NEW i \in DOMAIN run.facts, run.facts[i].fact = "attempt"
               PROVE  AttemptIsolationLoads(next.facts[i])
    OBVIOUS
  <2>1. AttemptLoads(d, run, i, run.facts[i])
    BY DEF RecordLoads, FactsLoad, FactLoads
  <2>2. CASE i = a
    <3>1. AttemptIsolationLoads(run.facts[a]) /\ AttemptResultLoads(d, run.facts[a])
      BY <2>1, <2>2 DEF AttemptLoads
    <3>2. run.facts[a].state \in {"Active", "Paused", "Completed", "Failed", "Cancelled",
                                  "Interrupted"}
      BY <3>1 DEF AttemptResultLoads
    <3>3. run.facts[a].state \in {"Active", "Interrupted"}
      BY <1>1, <3>1, <3>2 DEF AttemptIsolationLoads
    <3>4. f.state \in {"Active", "Interrupted"}
      BY <1>7, <3>3 DEF SameRecordFact
    <3>5. AttemptIsolationLoads(f)
      BY <3>4 DEF AttemptIsolationLoads
    <3> QED
      BY <1>5, <1>10, <2>2, <3>5
  <2>3. CASE i # a
    BY <1>10, <2>1, <2>3 DEF AttemptLoads
  <2> QED
    BY <2>2, <2>3
<1>14. ReservationStands(d, next)
  <2> SUFFICES ASSUME IsReserved(run)
               PROVE  ReservationStands(d, next)
    BY <1>4 DEF ReservationStands, IsReserved
  <2>1. PICK g : g = run.reservation.gate
    OBVIOUS
  <2>2. /\ g \in DOMAIN run.facts
        /\ run.facts[g].fact = "gate" /\ run.facts[g].state = "RevisionRequested"
        /\ d[run.facts[g].step].revision # NoPolicy
        /\ d[run.facts[g].step].revision.target = run.reservation.target
        /\ \/ run.reservation.attempt = 0 /\ run.state = Ready(run.reservation.target)
           \/ /\ run.reservation.attempt # 0
              /\ \E p \in AttemptOpen :
                     run.state = At(p, run.reservation.target, run.reservation.attempt)
    BY <2>1 DEF RecordLoads, ReservationStands
  <2>3. next.facts[g] = run.facts[g]
    BY <1>5, <1>10, <2>2
  <2> QED
    BY <1>4, <1>9, <2>1, <2>2, <2>3 DEF ReservationStands
<1>15. Busy(next) <=> Busy(run)
  BY <1>4 DEF Busy
<1> QED
  BY <1>4, <1>8, <1>11, <1>12, <1>13, <1>14, <1>15, SameFactsLoad

-----------------------------------------------------------------------------
(* How a run fails, is cancelled, and is interrupted.                      *)
LEMMA FailedRunLoads ==
    ASSUME NEW d \in Definitions, NEW run, RecordIsCoherent(d, run), RecordLoads(d, run),
           NEW a, NEW onTime, NEW next,
           next \in FailBeforeAttempt(run) \/ next \in FailAttempt(run, a, onTime)
    PROVE  RecordLoads(d, next)
<1>1. CASE next \in FailBeforeAttempt(run)
  <2>1. /\ IsReady(run)
        /\ next = [run EXCEPT !.state = Ended("Failed"), !.reservation = NoReservation]
    BY <1>1 DEF FailBeforeAttempt, When
  <2>2. RecordIsCoherent(d, next) /\ Moves(d, run, next)
    BY <1>1, RunFailsBeforeAttempt DEF Progresses
  <2> QED
    BY <2>1, <2>2, EndedReadyLoads
<1>2. CASE next \in FailAttempt(run, a, onTime)
  <2>1. /\ run.state.phase \in AttemptOpen /\ a = run.state.at
        /\ run.facts[a].cleanup # "Pending"
        /\ next \in FinishAttempt(run, a, "Failed", Ended("Failed"))
    BY <1>2 DEF FailAttempt, AttemptOpen
  <2> QED
    BY <2>1, EndedAttemptLoads
<1> QED
  BY <1>1, <1>2

LEMMA CancelledRunLoads ==
    ASSUME NEW d \in Definitions, NEW run, RecordIsCoherent(d, run), RecordLoads(d, run),
           NEW onTime \in BOOLEAN, NEW next \in Cancel(run, onTime)
    PROVE  RecordLoads(d, next)
<1>1. RecordIsCoherent(d, next) /\ Moves(d, run, next)
  BY RunIsCancelled DEF Progresses
<1>2. CASE IsReady(run)
  <2>1. run.state.phase # "AwaitingHuman" /\ ActiveAttempt(run) = 0
    BY <1>2 DEF IsReady, ActiveAttempt
  <2>2. next = [run EXCEPT !.state = Ended("Cancelled"), !.reservation = NoReservation]
    BY <1>2, <2>1 DEF Cancel
  <2> QED
    BY <1>1, <1>2, <2>2, EndedReadyLoads
<1>3. CASE ~IsReady(run) /\ ActiveAttempt(run) # 0
  <2>1. PICK a : a = ActiveAttempt(run)
    OBVIOUS
  <2>2. run.state.phase \in AttemptOpen /\ a = run.state.at
    BY <1>3, <2>1 DEF ActiveAttempt, AttemptOpen
  <2>3. /\ run.facts[a].cleanup # "Pending"
        /\ next \in FinishAttempt(run, a, "Cancelled", Ended("Cancelled"))
    BY <1>3, <2>1, <2>2 DEF Cancel, AttemptOpen
  <2> QED
    BY <2>2, <2>3, EndedAttemptLoads
<1>4. CASE ~IsReady(run) /\ ActiveAttempt(run) = 0
  <2>1. PICK g : g = run.state.at
    OBVIOUS
  <2>2. next \in CancelGate(run, g, onTime)
    BY <1>4, <2>1 DEF Cancel
  <2> QED
    BY <2>2, CancelledGateLoads
<1> QED
  BY <1>2, <1>3, <1>4

LEMMA InterruptedRunLoads ==
    ASSUME NEW d \in Definitions, NEW run, RecordIsCoherent(d, run), RecordLoads(d, run),
           NEW onTime \in BOOLEAN, NEW next \in Interrupt(run, onTime)
    PROVE  RecordLoads(d, next)
<1>1. /\ RecordIsCoherent(d, next) /\ Moves(d, run, next)
      /\ next.state.phase = "Interrupted"
  BY RunIsInterrupted DEF Progresses
<1>2. CASE IsReady(run)
  <2>1. next = [run EXCEPT !.state = Ended("Interrupted"), !.reservation = NoReservation]
    BY <1>2 DEF Interrupt, IsReady
  <2> QED
    BY <1>1, <1>2, <2>1, EndedReadyLoads
<1>3. CASE run.state.phase = "AwaitingHuman"
  <2>1. PICK g : g = run.state.at
    OBVIOUS
  <2>2. Awaits(run, g) /\ next = CloseGate(run, g, "Interrupted", Ended("Interrupted"))
    BY <1>3, <2>1 DEF Interrupt, IsReady, When
  <2>3. next.state.phase \in {"Ready"} \union TerminalPhase
    BY <1>1 DEF TerminalPhase
  <2> QED
    BY <1>1, <2>2, <2>3, EndedGateLoads
<1>4. CASE run.state.phase = "Active"
  <2>1. PICK a : a = run.state.at
    OBVIOUS
  <2>2. next \in FinishAttempt(run, a, "Interrupted", Ended("Interrupted"))
    BY <1>4, <2>1 DEF Interrupt, IsReady
  <2>3. run.state.phase \in AttemptOpen
    BY <1>4 DEF AttemptOpen
  <2> QED
    BY <2>1, <2>2, <2>3, EndedAttemptLoads
<1>5. CASE ~IsReady(run) /\ run.state.phase \notin {"AwaitingHuman", "Active"}
  BY <1>5 DEF Interrupt
<1> QED
  BY <1>2, <1>3, <1>4, <1>5

(* Every transition of run.rs, in any order, leaves a record that loads.   *)
LEMMA TransitionLoads ==
    ASSUME NEW d \in Definitions, NEW run, RecordIsCoherent(d, run), RecordResolves(d, run),
           RecordLoads(d, run), NEW next, Transition(d, run, next)
    PROVE  RecordLoads(d, next)
<1>1. CASE next = run
  BY <1>1
<1>2. CASE next \in FailBeforeAttempt(run)
  BY <1>2, FailedRunLoads
<1>3. ASSUME NEW onTime \in BOOLEAN, next \in Cancel(run, onTime)
      PROVE  RecordLoads(d, next)
  BY <1>3, CancelledRunLoads
<1>4. ASSUME NEW onTime \in BOOLEAN, next \in Interrupt(run, onTime)
      PROVE  RecordLoads(d, next)
  BY <1>4, InterruptedRunLoads
<1>5. ASSUME NEW plan, NEW onTime, next \in OpenPlanGate(d, run, plan, onTime)
      PROVE  RecordLoads(d, next)
  BY <1>5, OpenedGateLoads
<1>6. ASSUME NEW g, NEW onTime, next \in AcceptPlan(d, run, g, onTime)
      PROVE  RecordLoads(d, next)
  BY <1>6, AcceptedPlanLoads
<1>7. ASSUME NEW g, NEW onTime, next \in CancelGate(run, g, onTime)
      PROVE  RecordLoads(d, next)
  BY <1>7, CancelledGateLoads
<1>8. ASSUME NEW g, NEW onTime, next \in RevisePlan(d, run, g, onTime)
      PROVE  RecordLoads(d, next)
  BY <1>8, RevisedPlanLoads
<1>9. ASSUME NEW a, NEW outputs, NEW verdict, NEW onTime,
             next \in CompleteAttempt(d, run, a, outputs, verdict, onTime)
      PROVE  RecordLoads(d, next)
  BY <1>9, CompletedAttemptLoads
<1>10. ASSUME NEW a, NEW onTime, next \in FailAttempt(run, a, onTime)
       PROVE  RecordLoads(d, next)
  BY <1>10, FailedRunLoads
<1>11. ASSUME NEW a, NEW onTime, next \in PauseAttempt(d, run, a, onTime)
       PROVE  RecordLoads(d, next)
  BY <1>11, PausedAttemptLoads
<1>12. ASSUME NEW a, NEW onTime, next \in ResumePaused(run, a, onTime)
       PROVE  RecordLoads(d, next)
  BY <1>12, ResumedAttemptLoads
<1>13. ASSUME NEW a \in Attempts(run), NEW cleanup, next \in RecordCleanup(run, a, cleanup)
       PROVE  RecordLoads(d, next)
  BY <1>13, CleanedLoads
<1>14. ASSUME NEW onTime, ~IsGate(d, run.state.step), ExecutorInputs(d, run) # Unresolved,
              next \in StartAttempt(d, run, ExecutorInputs(d, run), onTime)
       PROVE  RecordLoads(d, next)
  BY <1>14, StartedAttemptLoads
<1> QED
  BY <1>1, <1>2, <1>3, <1>4, <1>5, <1>6, <1>7, <1>8, <1>9, <1>10, <1>11, <1>12, <1>13,
     <1>14 DEF Transition

LEMMA NewRecordLoads ==
    ASSUME NEW d \in Definitions, RecordIsCoherent(d, Create)
    PROVE  RecordLoads(d, Create)
<1>1. /\ Create.state = Ready(1) /\ Create.facts = <<>>
      /\ Create.reservation = NoReservation
  BY DEF Create
<1>2. Len(Create.facts) = 0 /\ DOMAIN Create.facts = {}
  BY <1>1
<1>3. ~Busy(Create)
  BY <1>1 DEF Busy, Ready, At
<1>4. FactsLoad(d, Create)
  BY <1>2 DEF FactsLoad
<1>5. StateLoads(d, Create)
  BY <1>1, <1>2 DEF StateLoads, Predicted
<1>6. ReservationStands(d, Create) /\ OpenIsNamed(Create)
  BY <1>1, <1>2 DEF ReservationStands, IsReserved, OpenIsNamed
<1>7. /\ Len(d) \in Nat /\ Steps(d) = 1 .. Len(d)
  BY DefinitionIsValid
<1>8. Undone(d, Place(d, Create)) = Steps(d)
  <2>1. Place(d, Create) = 1
    BY <1>1 DEF Place, Ready, At, IsTerminal, TerminalPhase
  <2> QED
    BY <1>7, <2>1 DEF Undone
<1>9. \A s \in Steps(d) : Returns(Create, s) = 0
  <2>1. \A s : SentBack(Create, s) = {}
    BY <1>2 DEF SentBack
  <2> QED
    BY <2>1, FS_EmptySet DEF Returns
<1>10. ReturnsAreLimited(d, Create)
  <2> SUFFICES ASSUME NEW s \in Steps(d), Plan(d)[s] # NoPolicy
               PROVE  Returns(Create, s) < Plan(d)[s].limit
    BY DEF ReturnsAreLimited
  <2>1. PICK p : p = [from |-> s, target |-> Plan(d)[s].target, limit |-> Plan(d)[s].limit]
    OBVIOUS
  <2>2. p \in Policies(d)
    BY <2>1, PlanIsPolicy
  <2>3. p.limit \in Nat /\ p.limit >= 1
    BY <2>2, PolicyIsValid
  <2>4. p.limit = Plan(d)[s].limit
    BY <2>1
  <2> QED
    BY <1>9, <2>3, <2>4
<1>11. ASSUME NEW w, IsWeight(d, w)
       PROVE  Budget(d, Create, w, 0)
  <2>1. Total(w, Steps(d)) \in Nat
    BY <1>11, WeighsANumber
  <2>2. Total(Repeated(d, Create, w), Policies(d)) \in Nat
    BY <1>9, <1>11, RepeatedIsNumber DEF ReturnsAreNumbers
  <2>3. PICK x, y : /\ x = Total(w, Steps(d))
                    /\ y = Total(Repeated(d, Create, w), Policies(d))
    OBVIOUS
  <2>4. 0 + x <= x + y
    BY <2>1, <2>2, <2>3
  <2>5. PICK run : run = Create
    OBVIOUS
  <2>6. Undone(d, Place(d, run)) = Steps(d)
    BY <1>8, <2>5
  <2>7. y = Total(Repeated(d, run, w), Policies(d))
    BY <2>3, <2>5
  <2>8. 0 + Total(w, Undone(d, Place(d, run)))
           <= Total(w, Steps(d)) + Total(Repeated(d, run, w), Policies(d))
    BY <2>3, <2>4, <2>6, <2>7
  <2>9. Budget(d, run, w, 0)
    BY <2>8 DEF Budget
  <2> QED
    BY <2>5, <2>9
<1>12. Closed(Create) = 0
  <2>1. PICK n : n = Len(Create.facts)
    OBVIOUS
  <2>2. Closed(Create) = n - 0
    BY <1>3, <2>1 DEF Closed
  <2> QED
    BY <1>2, <2>1, <2>2
<1>13. ArtefactCount(Create) = 0
  <2>1. ArtefactCount(Create) = Total(ArtefactsLeft(Create.facts), DOMAIN Create.facts)
    BY <1>4, ArtefactsAreCounted
  <2> QED
    BY <1>2, <2>1, SumOfNone
<1>14. BudgetsHold(d, Create)
  BY <1>10, <1>11, <1>12, <1>13, WeightsAreWeights DEF BudgetsHold
<1> QED
  BY <1>4, <1>5, <1>6, <1>14 DEF RecordLoads

(* What memory and the file hold loads.                                    *)
RecordsLoad == RecordLoads(definition, memory) /\ RecordLoads(definition, disk)

LEMMA RecordsLoadAtFirst ==
    ASSUME Init
    PROVE  RecordsLoad
<1>1. definition \in Definitions /\ RecordIsCoherent(definition, memory)
  BY WorkflowInvStarts DEF WorkflowInv, ControlTyped, RecordsAreCoherent
<1>2. memory = Create /\ disk = Create
  BY DEF Init
<1> QED
  BY <1>1, <1>2, NewRecordLoads DEF RecordsLoad

LEMMA RecordsGoOnLoading ==
    ASSUME WorkflowInv, InputsInv, RecordsLoad, StoreMoves
    PROVE  RecordsLoad'
<1>1. definition \in Definitions /\ RecordIsCoherent(definition, memory)
  BY DEF WorkflowInv, ControlTyped, RecordsAreCoherent
<1>2. ASSUME NEW next, Transition(definition, memory, next)
      PROVE  RecordLoads(definition, next)
  BY <1>1, <1>2, TransitionLoads DEF InputsInv, RecordsLoad
<1> QED
  BY <1>2 DEF RecordsLoad, StoreMoves

-----------------------------------------------------------------------------
(* The type invariant.  What a step makes of the control variables: a      *)
(* worker keeps its attempt, drops it or starts one, and the checkpoint    *)
(* names the worker's attempt.                                             *)
Servers == {"up", "down", "opened", "starting", "refused"}
Statuses == JobActive \union JobEnded \union {"None"}

Steers ==
    /\ server' \in Servers
    /\ worker'.attempt \in {0, worker.attempt} \/ worker'.pc = "step"
    /\ job'.status \in Statuses
    /\ checkpoint' \in {0, checkpoint, worker.attempt}

Spends ==
    /\ faults' = faults \/ (faults > 0 /\ faults' = faults - 1)
    /\ crashes' = crashes \/ (crashes > 0 /\ crashes' = crashes - 1)

LEMMA WorkerSpends ==
    ASSUME WorkerStep
    PROVE  Spends
<1>1. crashes' = crashes
  BY DEF WorkerStep, SettleEndedRun, StopAtTop, RefuseAtTop, FailToResolve, OpenGate,
         Park, RefuseCapabilities, Start, RunStep, PersistCleanup, PublishSuccess,
         PersistFail, PersistCancel, PauseRun, PauseConversation, ResumeWork, held
<1>2. CASE SettleEndedRun \/ RefuseAtTop \/ FailToResolve \/ Park \/ RunStep
           \/ PauseConversation
  BY <1>1, <1>2 DEF SettleEndedRun, RefuseAtTop, FailToResolve, Park, RunStep,
     PauseConversation, NoMutation, Spends
<1>3. CASE StopAtTop \/ PersistCancel \/ ResumeWork \/ PersistFail \/ PauseRun
  BY <1>1, <1>3 DEF StopAtTop, PersistCancel, ResumeWork, PersistFail, PauseRun,
     Mutate, NoMutation, Spends
<1>4. CASE OpenGate \/ Start
  BY <1>1, <1>4 DEF OpenGate, Start, Mutate, NoMutation, Spends
<1>5. CASE RefuseCapabilities
  BY <1>1, <1>5 DEF RefuseCapabilities, Mutate, Spends
<1>6. CASE PersistCleanup \/ PublishSuccess
  BY <1>1, <1>6 DEF PersistCleanup, PublishSuccess, PublishDraft, Mutate, NoMutation,
     Spends
<1> QED
  BY <1>2, <1>3, <1>4, <1>5, <1>6 DEF WorkerStep

LEMMA RequestSpends ==
    ASSUME Request
    PROVE  Spends
<1>1. crashes' = crashes
  BY DEF Request, StopRequest, Approve, Revise, DiscardGate, InterruptStaleGate,
         ForgetProvider, PurgeSession, RestoreGate, ContinuePaused, EndPause, held
<1>2. CASE StopRequest \/ RestoreGate
  BY <1>1, <1>2 DEF StopRequest, RestoreGate, NoMutation, Spends
<1>3. CASE Approve \/ Revise \/ DiscardGate
  BY <1>1, <1>3 DEF Approve, Revise, DiscardGate, Mutate, Spends
<1>4. CASE InterruptStaleGate \/ ContinuePaused \/ EndPause
  BY <1>1, <1>4 DEF InterruptStaleGate, ContinuePaused, EndPause, Mutate, Spends
<1>5. CASE ForgetProvider \/ PurgeSession
  BY <1>1, <1>5 DEF ForgetProvider, PurgeSession, EndContinuation, Mutate, NoMutation,
     Spends
<1> QED
  BY <1>2, <1>3, <1>4, <1>5 DEF Request

LEMMA ServerSpends ==
    ASSUME Crash \/ OpenStore \/ InterruptActive \/ RecordRecovery \/ SetClock
           \/ UNCHANGED vars
    PROVE  Spends
<1>1. CASE Crash \/ OpenStore \/ SetClock \/ UNCHANGED vars
  BY <1>1 DEF Crash, OpenStore, SetClock, vars, held, Spends
<1>2. CASE InterruptActive
  BY <1>2 DEF InterruptActive, Mutate, NoMutation, held, Spends
<1>3. CASE RecordRecovery
  BY <1>3 DEF RecordRecovery, Mutate, NoMutation, held, Spends
<1> QED
  BY <1>1, <1>2, <1>3

LEMMA StepSpends ==
    ASSUME [Next]_vars
    PROVE  Spends
  BY WorkerSpends, RequestSpends, ServerSpends DEF Next

LEMMA SettledSteers ==
    ASSUME WorkflowInv, NEW status \in Statuses, NEW why, Settle(status, why)
    PROVE  worker'.attempt = 0 /\ job'.status \in Statuses
<1>1. worker'.attempt = 0
  BY DEF Settle, Idle, Worker
<1> QED
  BY <1>1, SettledFor

LEMMA JobStatusIsStatus ==
    ASSUME NEW phase
    PROVE  JobStatusOf(phase) \in Statuses
  BY DEF JobStatusOf, Statuses, JobEnded

(* The task has ended.                                                     *)
TaskEnds == worker'.attempt = 0 /\ job'.status \in Statuses

LEMMA OperationalFailureEnds ==
    ASSUME WorkflowInv, FailOperational
    PROVE  TaskEnds
<1>1. "Failed" \in Statuses
  BY DEF Statuses, JobEnded
<1> QED
  BY <1>1, SettledSteers DEF FailOperational, TaskEnds

LEMMA CancelledTaskEnds ==
    ASSUME WorkflowInv, NEW why, Settle("Cancelled", why)
    PROVE  TaskEnds
<1>1. "Cancelled" \in Statuses
  BY DEF Statuses, JobEnded
<1> QED
  BY <1>1, SettledSteers DEF TaskEnds

LEMMA FailedTaskEnds ==
    ASSUME WorkflowInv, NEW why, Settle("Failed", why)
    PROVE  TaskEnds
<1>1. "Failed" \in Statuses
  BY DEF Statuses, JobEnded
<1> QED
  BY <1>1, SettledSteers DEF TaskEnds

LEMMA CompletedTaskEnds ==
    ASSUME WorkflowInv, NEW why, Settle("Completed", why)
    PROVE  TaskEnds
<1>1. "Completed" \in Statuses
  BY DEF Statuses, JobEnded
<1> QED
  BY <1>1, SettledSteers DEF TaskEnds

LEMMA TerminalTaskEnds ==
    ASSUME WorkflowInv, NEW run, SettleTerminal(run)
    PROVE  TaskEnds
<1>1. PICK status \in Statuses : Settle(status, "")
  BY JobStatusIsStatus DEF SettleTerminal
<1> QED
  BY <1>1, SettledSteers DEF TaskEnds

LEMMA GotoKeepsAttempt ==
    ASSUME WorkflowInv, NEW pc, Goto(pc)
    PROVE  worker'.attempt = worker.attempt
  BY DEF WorkflowInv, ControlTyped, WorkerFields, Goto

LEMMA OutcomeKeepsAttempt ==
    ASSUME WorkflowInv, worker' = [worker EXCEPT !.outcome.end = "Failed"]
    PROVE  worker'.attempt = worker.attempt
  BY DEF WorkflowInv, ControlTyped, WorkerFields

LEMMA WorkerSteers ==
    ASSUME WorkflowInv, WorkflowTypeOK, WorkerStep
    PROVE  Steers
<1>1. server' = server /\ server \in Servers /\ job.status \in Statuses
  BY DEF WorkflowTypeOK, Servers, Statuses, WorkerStep, SettleEndedRun, StopAtTop,
         RefuseAtTop, FailToResolve, OpenGate, Park, RefuseCapabilities, Start, RunStep,
         PersistCleanup, PublishSuccess, PersistFail, PersistCancel, PauseRun,
         PauseConversation, ResumeWork
<1>2. checkpoint' \in {0, checkpoint, worker.attempt}
  BY DEF WorkerStep, SettleEndedRun, StopAtTop, RefuseAtTop, FailToResolve, OpenGate,
         Park, RefuseCapabilities, Start, RunStep, PersistCleanup, PublishSuccess,
         PersistFail, PersistCancel, PauseRun, PauseConversation, ResumeWork, held
<1>3. CASE SettleEndedRun
  <2>1. TaskEnds
    BY <1>3, TerminalTaskEnds DEF SettleEndedRun
  <2> QED
    BY <1>1, <1>2, <2>1 DEF TaskEnds, Steers
<1>4. CASE StopAtTop \/ PersistCancel
  <2>1. TaskEnds
    BY <1>4, CancelledTaskEnds, OperationalFailureEnds DEF StopAtTop, PersistCancel, Mutate
  <2> QED
    BY <1>1, <1>2, <2>1 DEF TaskEnds, Steers
<1>5. CASE RefuseAtTop \/ FailToResolve
  <2>1. TaskEnds
    BY <1>5, FailedTaskEnds DEF RefuseAtTop, FailToResolve
  <2> QED
    BY <1>1, <1>2, <2>1 DEF TaskEnds, Steers
<1>6. CASE OpenGate
  <2>1. TaskEnds \/ (Goto("opened") /\ job' = job)
    BY <1>6, OperationalFailureEnds DEF OpenGate, Mutate
  <2> QED
    BY <1>1, <1>2, <2>1, GotoKeepsAttempt DEF TaskEnds, Steers
<1>7. CASE Park
  <2>1. job'.status = "AwaitingDecision"
    BY <1>7 DEF Park, WorkflowInv, ControlTyped, JobFields
  <2>2. worker'.attempt = 0
    BY <1>7 DEF Park, Idle, Worker
  <2>3. job'.status \in Statuses
    BY <2>1 DEF Statuses, JobActive
  <2> QED
    BY <1>1, <1>2, <2>2, <2>3 DEF Steers
<1>8. CASE RefuseCapabilities \/ PersistFail
  <2>1. TaskEnds
    BY <1>8, FailedTaskEnds, OperationalFailureEnds DEF RefuseCapabilities, PersistFail,
       Mutate
  <2> QED
    BY <1>1, <1>2, <2>1 DEF TaskEnds, Steers
<1>9. CASE Start
  <2>1. \/ TaskEnds
        \/ job' = job /\ \E a, o : worker' = Worker("step", a, o)
    BY <1>9, OperationalFailureEnds DEF Start, Mutate
  <2> QED
    BY <1>1, <1>2, <2>1 DEF TaskEnds, Steers, Worker
<1>10. CASE RunStep
  <2>1. job' = job /\ \E o : worker' = Worker("clean", worker.attempt, o)
    BY <1>10 DEF RunStep
  <2> QED
    BY <1>1, <1>2, <2>1 DEF Steers, Worker
<1>11. CASE PersistCleanup
  <2>1. TaskEnds \/ (Goto("finish") /\ job' = job)
    BY <1>11, FailedTaskEnds DEF PersistCleanup, Mutate, Protect
  <2> QED
    BY <1>1, <1>2, <2>1, GotoKeepsAttempt DEF TaskEnds, Steers
<1>12. CASE PublishSuccess
  <2>1. /\ job' = job
        /\ worker' = Loop \/ worker' = [worker EXCEPT !.outcome.end = "Failed"]
    BY <1>12 DEF PublishSuccess, PublishDraft, Mutate
  <2>2. worker'.attempt \in {0, worker.attempt}
    BY <2>1, OutcomeKeepsAttempt DEF Loop, Worker
  <2> QED
    BY <1>1, <1>2, <2>1, <2>2 DEF Steers
<1>13. CASE PauseRun
  <2>1. TaskEnds \/ (Goto("paused") /\ job' = job)
    BY <1>13, OperationalFailureEnds DEF PauseRun, Mutate
  <2> QED
    BY <1>1, <1>2, <2>1, GotoKeepsAttempt DEF TaskEnds, Steers
<1>14. CASE PauseConversation
  <2>1. TaskEnds
    BY <1>14, CompletedTaskEnds, OperationalFailureEnds DEF PauseConversation
  <2> QED
    BY <1>1, <1>2, <2>1 DEF TaskEnds, Steers
<1>15. CASE ResumeWork
  <2>1. TaskEnds \/ (Goto("loop") /\ job' = job)
    BY <1>15, FailedTaskEnds DEF ResumeWork, Mutate
  <2> QED
    BY <1>1, <1>2, <2>1, GotoKeepsAttempt DEF TaskEnds, Steers
<1> QED
  BY <1>3, <1>4, <1>5, <1>6, <1>7, <1>8, <1>9, <1>10, <1>11, <1>12, <1>13, <1>14,
     <1>15 DEF WorkerStep

LEMMA NewJobIsTyped ==
    ASSUME NEW status \in Statuses
    PROVE  /\ NewJob(status).status \in Statuses
           /\ DOMAIN NewJob(status) = JobFields
  BY DEF NewJob, NoJob, JobFields

LEMMA DecisionGoesOn ==
    ASSUME WorkflowInv, GoOn
    PROVE  TaskEnds
<1>1. CASE IsTerminal(memory')
  <2>1. PICK run : run = memory'
    OBVIOUS
  <2>2. SettleTerminal(run)
    BY <1>1, <2>1 DEF GoOn
  <2> QED
    BY <2>2, TerminalTaskEnds
<1>2. CASE ~IsTerminal(memory')
  <2>1. worker' = Loop /\ job' = [job EXCEPT !.status = "Running"]
    BY <1>2 DEF GoOn
  <2>2. job'.status = "Running"
    BY <2>1 DEF WorkflowInv, ControlTyped, JobFields
  <2> QED
    BY <2>1, <2>2 DEF TaskEnds, Loop, Worker, Statuses, JobActive
<1> QED
  BY <1>1, <1>2

LEMMA StoppedJobIsTyped ==
    ASSUME WorkflowInv, job' = [job EXCEPT !.cancel = TRUE]
    PROVE  job'.status = job.status
  BY DEF WorkflowInv, ControlTyped, JobFields

LEMMA RequestSteers ==
    ASSUME WorkflowInv, WorkflowTypeOK, Request
    PROVE  Steers
<1>1. server' = server /\ server \in Servers /\ job.status \in Statuses
  BY DEF WorkflowTypeOK, Servers, Statuses, Request, StopRequest, Approve, Revise,
         DiscardGate, InterruptStaleGate, ForgetProvider, PurgeSession, RestoreGate,
         ContinuePaused, EndPause
<1>2. checkpoint' \in {0, checkpoint, worker.attempt}
  <2>1. CASE EndPause
    BY <2>1 DEF EndPause, Mutate
  <2>2. CASE ~EndPause
    BY <2>2 DEF Request, StopRequest, Approve, Revise, DiscardGate, InterruptStaleGate,
         ForgetProvider, PurgeSession, RestoreGate, ContinuePaused, held
  <2> QED
    BY <2>1, <2>2
<1>3. CASE StopRequest
  <2>1. worker' = worker /\ job'.status = job.status
    BY <1>3, StoppedJobIsTyped DEF StopRequest
  <2> QED
    BY <1>1, <1>2, <2>1 DEF Steers
<1>4. CASE Approve \/ Revise
  <2>1. TaskEnds \/ PutBack
    BY <1>4, DecisionGoesOn DEF Approve, Revise, Mutate
  <2> QED
    BY <1>1, <1>2, <2>1 DEF TaskEnds, PutBack, Steers
<1>5. CASE DiscardGate \/ InterruptStaleGate
  <2>1. TaskEnds \/ PutBack
    BY <1>5, CancelledTaskEnds DEF DiscardGate, InterruptStaleGate, Mutate
  <2> QED
    BY <1>1, <1>2, <2>1 DEF TaskEnds, PutBack, Steers
<1>6. CASE ForgetProvider
  <2>1. TaskEnds \/ PutBack
    BY <1>6, CancelledTaskEnds DEF ForgetProvider, EndContinuation, Mutate
  <2> QED
    BY <1>1, <1>2, <2>1 DEF TaskEnds, PutBack, Steers
<1>7. CASE PurgeSession
  <2>1. \/ TaskEnds \/ PutBack
        \/ worker' = worker /\ job'.status = job.status
    BY <1>7, CancelledTaskEnds, StoppedJobIsTyped DEF PurgeSession, EndContinuation, Mutate
  <2> QED
    BY <1>1, <1>2, <2>1 DEF TaskEnds, PutBack, Steers
<1>8. CASE RestoreGate
  <2>1. "AwaitingDecision" \in Statuses
    BY DEF Statuses, JobActive
  <2>2. worker' = worker /\ job'.status \in Statuses
    BY <1>8, <2>1, NewJobIsTyped DEF RestoreGate
  <2> QED
    BY <1>1, <1>2, <2>2 DEF Steers
<1>9. CASE ContinuePaused
  <2>1. \/ /\ job' = NewJob("Running")
           /\ worker' = Worker("resume", 0, NoOutcome)
        \/ job' = [NewJob("Failed") EXCEPT !.why = "store"] /\ worker' = Idle
    BY <1>9 DEF ContinuePaused, Mutate
  <2>2. worker'.attempt = 0
    BY <2>1 DEF Idle, Worker
  <2>3. job'.status \in {"Running", "Failed"}
    BY <2>1 DEF NewJob, NoJob
  <2> QED
    BY <1>1, <1>2, <2>2, <2>3 DEF Steers, Statuses, JobActive, JobEnded
<1>10. CASE EndPause
  BY <1>1, <1>2, <1>10 DEF EndPause, Steers
<1> QED
  BY <1>3, <1>4, <1>5, <1>6, <1>7, <1>8, <1>9, <1>10 DEF Request

LEMMA ServerSteers ==
    ASSUME WorkflowInv, WorkflowTypeOK,
           Crash \/ OpenStore \/ InterruptActive \/ RecordRecovery \/ SetClock
           \/ UNCHANGED vars
    PROVE  Steers
<1>1. server \in Servers /\ job.status \in Statuses
  BY DEF WorkflowTypeOK, Servers, Statuses
<1>2. checkpoint' = checkpoint
  BY DEF Crash, OpenStore, InterruptActive, RecordRecovery, SetClock, vars, held
<1>3. CASE Crash
  <2>1. server' = "down" /\ worker' = Idle /\ job' = NoJob
    BY <1>3 DEF Crash
  <2>2. worker'.attempt = 0 /\ job'.status = "None"
    BY <2>1 DEF Idle, Worker, NoJob
  <2> QED
    BY <1>2, <2>1, <2>2 DEF Steers, Servers, Statuses
<1>4. CASE OpenStore \/ InterruptActive \/ RecordRecovery
  <2>1. worker' = worker /\ job' = job
    BY <1>4 DEF OpenStore, InterruptActive, RecordRecovery
  <2>2. OpenStore => server' \in Servers
    BY DEF OpenStore, Servers
  <2>3. InterruptActive => server' \in Servers
    BY DEF InterruptActive, Mutate, Servers
  <2>4. RecordRecovery => server' \in Servers
    BY <1>1 DEF RecordRecovery, Mutate, Servers
  <2>5. server' \in Servers
    BY <1>4, <2>2, <2>3, <2>4
  <2> QED
    BY <1>1, <1>2, <2>1, <2>5 DEF Steers
<1>5. CASE SetClock \/ UNCHANGED vars
  BY <1>1, <1>2, <1>5 DEF SetClock, vars, Steers
<1> QED
  BY <1>3, <1>4, <1>5

LEMMA StepSteers ==
    ASSUME WorkflowInv, WorkflowTypeOK, [Next]_vars
    PROVE  Steers
  BY WorkerSteers, RequestSteers, ServerSteers DEF Next

LEMMA AttemptsStay ==
    ASSUME NEW run, NEW next, FactsStand(run, next)
    PROVE  Attempts(run) \subseteq Attempts(next)
  BY DEF FactsStand, Attempts

LEMMA TypeIsKept ==
    ASSUME WorkflowInv, WorkflowTypeOK, [Next]_vars
    PROVE  WorkflowTypeOK'
<1>1. /\ WorkflowInv' /\ Progresses(definition, memory, memory')
      /\ Steers /\ Spends
  BY StepKeeps, StepSteers, StepSpends DEF Kept
<1>2. Attempts(memory) \subseteq Attempts(memory')
  BY <1>1, AttemptsStay DEF Progresses
<1>3. /\ worker.attempt \in {0} \union Attempts(memory)
      /\ checkpoint \in {0} \union Attempts(memory)
  BY DEF WorkflowTypeOK
<1>4. checkpoint' \in {0} \union Attempts(memory')
  BY <1>1, <1>2, <1>3 DEF Steers
<1>5. worker'.attempt \in {0} \union Attempts(memory')
  <2>1. CASE worker'.pc = "step"
    <3>1. memory'.state.phase = "Active" /\ memory'.state.at = worker'.attempt
      BY <1>1, <2>1 DEF WorkflowInv, WorkerKnows
    <3>2. RecordIsCoherent(definition', memory')
      BY <1>1 DEF WorkflowInv, RecordsAreCoherent
    <3>3. memory'.state.at \in Attempts(memory')
      BY <3>1, <3>2, OpenAttempt DEF AttemptOpen
    <3> QED
      BY <3>1, <3>3
  <2>2. CASE worker'.attempt \in {0, worker.attempt}
    BY <1>2, <1>3, <2>2
  <2> QED
    BY <1>1, <2>1, <2>2 DEF Steers
<1>6. definition' \in Definitions /\ worker'.pc \in Pc
  BY <1>1 DEF WorkflowInv, ControlTyped
<1>7. server' \in {"up", "down", "opened", "starting", "refused"}
      /\ job'.status \in JobActive \union JobEnded \union {"None"}
  BY <1>1 DEF Steers, Servers, Statuses
<1>8. faults' \in 0 .. MaxFaults /\ crashes' \in 0 .. MaxCrashes
  <2>1. faults \in 0 .. MaxFaults /\ crashes \in 0 .. MaxCrashes
    BY DEF WorkflowTypeOK
  <2>2. MaxFaults \in Nat /\ MaxCrashes \in Nat
    BY BoundsAreNumbers
  <2> QED
    BY <1>1, <2>1, <2>2 DEF Spends
<1> QED
  BY <1>4, <1>5, <1>6, <1>7, <1>8 DEF WorkflowTypeOK

LEMMA TypeAtFirst ==
    ASSUME Init
    PROVE  WorkflowTypeOK
<1>1. /\ definition \in Definitions /\ server = "up" /\ worker = Loop
      /\ job = NewJob("Running") /\ checkpoint = 0
      /\ faults = MaxFaults /\ crashes = MaxCrashes
  BY DEF Init
<1>2. worker.pc = "loop" /\ worker.attempt = 0
  BY <1>1 DEF Loop, Worker
<1>3. job.status = "Running"
  BY <1>1 DEF NewJob, NoJob
<1>4. faults \in 0 .. MaxFaults /\ crashes \in 0 .. MaxCrashes
  BY <1>1, BoundsAreNumbers
<1> QED
  BY <1>1, <1>2, <1>3, <1>4 DEF WorkflowTypeOK, Pc, JobActive

-----------------------------------------------------------------------------
LEMMA FileLoads ==
    ASSUME WorkflowInv, WorkflowTypeOK, RecordsLoad
    PROVE  RunRecordLoads
<1>1. definition \in Definitions /\ RecordIsCoherent(definition, disk)
  BY DEF WorkflowInv, ControlTyped, RecordsAreCoherent
<1>2. RecordLoads(definition, disk)
  BY DEF RecordsLoad
<1>3. ~PausedRevision => Loads(definition, disk)
  BY <1>1, <1>2, LoadedRecordLoads DEF PausedRevision
<1> QED
  BY <1>3 DEF RunRecordLoads

(* What a crash may leave in the file is what validate_loaded accepts:     *)
(* each transition of run.rs, in any order the executor, the requests, the *)
(* failed writes and the starts make them, leaves a record whose facts,    *)
(* state, reservation, attempts and artefacts pass every check of loading, *)
(* but for the paused revision (pause_attempt) that keeps its reservation. *)
THEOREM RunRecordsLoad == Spec => []RunRecordLoads
<1>1. Init => WorkflowTypeOK /\ RecordsLoad
  BY TypeAtFirst, RecordsLoadAtFirst
<1>2. WorkflowInv /\ WorkflowTypeOK /\ [Next]_vars => WorkflowTypeOK'
  BY TypeIsKept
<1>3. WorkflowInv /\ InputsInv /\ RecordsLoad /\ [Next]_vars => RecordsLoad'
  BY StepMoves, RecordsGoOnLoading
<1>4. WorkflowInv /\ WorkflowTypeOK /\ RecordsLoad => RunRecordLoads
  BY FileLoads
<1> QED
  BY <1>1, <1>2, <1>3, <1>4, WorkflowInvariance, OpenAttemptsResolve, PTL DEF Spec
=============================================================================
