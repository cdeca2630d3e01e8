----------------------------- MODULE StoresProofs -----------------------------
(***************************************************************************)
(* The catalogue of environments and that of workflows, each for every     *)
(* value of its constants: what a launch pinned is what it says, no edit   *)
(* of a workflow is lost, and both files load at every start.              *)
(*                                                                         *)
(* The pins do not show by themselves that they stay true. The inductive   *)
(* invariant EnvironmentsInv has two parts. CatalogueInv is about the two  *)
(* copies of the catalogue, in memory and in the file: both load, the file *)
(* keeps every preparation memory knows of (a write that failed after the  *)
(* file was replaced leaves the file ahead), a snapshot belongs to a       *)
(* preparation that was claimed, and what a launch pinned is published.    *)
(* WorkerInv is about the background worker between its steps: it builds   *)
(* from the recipe that was asked for as long as its preparation is the    *)
(* latest of its environment, which is when it may publish.                *)
(*                                                                         *)
(* Nor does the revision a form carries show by itself that its user saw   *)
(* what the edit replaces: WorkflowsInv says of memory and of the file     *)
(* that a form is behind the record of its workflow or shows it, also when *)
(* a write that failed left the file ahead of memory and a restart reads   *)
(* it; and that a starter the user deleted has a seed and no record.       *)
(*                                                                         *)
(* The lemmas follow the modules: first what an edit does to a catalogue   *)
(* (CatalogueIsSound, Follows; CatalogueSound), then one lemma per action. *)
(***************************************************************************)
EXTENDS Environments, WorkflowCatalogue, Integers, FunctionTheorems,
        FiniteSetTheorems, NaturalsInduction, TLAPS

-----------------------------------------------------------------------------
(* The types of the catalogue, which Environments leaves to its Init.      *)

PreparationState ==
    {"queued", "preparing", "ready", "failed", "interrupted", "cancelled",
     "superseded"}
PreparationType ==
    [environment : Environment, revision : Nat, recipe : Recipe,
     state : PreparationState, phase : 0..7, started : BOOLEAN,
     finished : BOOLEAN, failure : BOOLEAN, snapshot : BOOLEAN]
EnvironmentType ==
    [revision : Nat, recipe : Recipe \union {NoEnvironment}, ready : Nat,
     latest : Nat]
CatalogueType ==
    [environments : [Environment -> EnvironmentType],
     retired : SUBSET Environment, preparations : Seq(PreparationType),
     seeded : BOOLEAN]

(* What is stored is accepted again, an environment has the recipe of its  *)
(* latest preparation, and what was never seeded is empty.                 *)
CatalogueIsSound(c) ==
    /\ c \in CatalogueType
    /\ IsFiniteSet({e \in Environment : Exists(c, e)})
    /\ Loads(c)
    /\ \A e \in Environment :
          Exists(c, e) =>
              c.environments[e].recipe = c.preparations[c.environments[e].latest].recipe
    /\ ~c.seeded => c = Empty

(* What c keeps of m: every preparation, with its recipe, and one that was *)
(* claimed or published stays so.                                          *)
Keeps(c, m) ==
    /\ Len(c.preparations) >= Len(m.preparations)
    /\ \A i \in 1..Len(m.preparations) :
          LET p == c.preparations[i]  q == m.preparations[i] IN
          /\ p.environment = q.environment /\ p.recipe = q.recipe
          /\ q.state # "queued" => p.state # "queued"
          /\ q.state = "ready" => p.state = "ready"

(* An edit publishes nothing, and what it makes the latest is new.         *)
Follows(c, m) ==
    /\ Keeps(c, m)
    /\ m.seeded => c.seeded
    /\ \A i \in 1..Len(m.preparations) :
          /\ c.preparations[i].state = "ready" => m.preparations[i].state = "ready"
          /\ \A e \in Environment :
                c.environments[e].latest = i => m.environments[e].latest = i

(* A snapshot belongs to a preparation that was claimed, and that of a     *)
(* published one was built from its recipe.                                *)
SnapshotsAreTrue(c) ==
    \A s \in snapshots :
        /\ s[1] \in 1..Len(c.preparations)
        /\ c.preparations[s[1]].state # "queued"
        /\ c.preparations[s[1]].state = "ready" => s[2] = c.preparations[s[1]].recipe

PinsArePublished(c) ==
    \A pin \in pins :
        pin.id \in 1..Len(c.preparations) /\ c.preparations[pin.id].state = "ready"

CatalogueInv ==
    /\ up \in BOOLEAN
    /\ CatalogueIsSound(memory) /\ CatalogueIsSound(disk)
    /\ SnapshotsAreTrue(disk) /\ PinsArePublished(disk)
    /\ up => /\ memory.seeded
             /\ Keeps(disk, memory)
             /\ SnapshotsAreTrue(memory) /\ PinsArePublished(memory)
    /\ ~up => memory = Empty
    /\ launch # NoLaunch =>
          up /\ launch.environment \in Environment /\ launch.id # 0
    /\ PinIsWhatItSays

(* What the worker builds is claimed and not published, and as long as it  *)
(* is the latest request of its environment it is built from the recipe    *)
(* that was asked for, although the recipe was read after the claim.       *)
Building == {"enter", "work", "before", "finish"}
Busy == Building \union {"load", "discard", "close"}

WorkerInv ==
    /\ worker.pc \in Busy \union {"asleep", "claim"}
    /\ DOMAIN worker = {"pc", "id", "phase", "recipe", "verdict"}
    /\ worker.verdict \in {"failed", "superseded"}
    /\ worker.pc # "asleep" => up
    /\ worker.pc \in Busy =>
          LET p == memory.preparations[worker.id] IN
          /\ worker.id \in 1..Len(memory.preparations)
          /\ p.state \notin {"queued", "ready"}
          /\ worker.pc \in Building =>
                /\ worker.phase \in 1..6
                /\ memory.environments[p.environment].latest = worker.id =>
                      worker.recipe = p.recipe
                /\ \A s \in snapshots : s[1] = worker.id => s[2] = worker.recipe
          /\ worker.pc \in Building \union {"load"} =>
                disk.preparations[worker.id].state # "ready"
          /\ worker.pc = "load" => \A s \in snapshots : s[1] # worker.id

EnvironmentsInv == CatalogueInv /\ WorkerInv

-----------------------------------------------------------------------------
(* Edits of a catalogue.                                                   *)
LEMMA EmptyIsSound ==
    ASSUME EnvironmentsAssumption PROVE CatalogueIsSound(Empty)
<1> DEFINE c == Empty
<1>1. c \in CatalogueType
  BY DEF EnvironmentsAssumption, CatalogueType, Empty, NoRecord, EnvironmentType, PreparationType
<1>2. \A e \in Environment : ~Exists(c, e)
  BY DEF Empty, NoRecord, Exists
<1>3. {e \in Environment : Exists(c, e)} = {}
  BY <1>2
<1>4. Len(c.preparations) = 0 /\ DOMAIN c.preparations = {} /\ ~c.seeded
  BY DEF Empty
<1>5. Cardinality({e \in Environment : Exists(c, e)}) = 0
  BY <1>3, FS_EmptySet
<1> HIDE DEF c
<1>6. Loads(c)
  BY <1>2, <1>4, <1>5 DEF EnvironmentsAssumption, Loads
<1> QED
  BY <1>1, <1>2, <1>3, <1>6, FS_EmptySet DEF CatalogueIsSound, c

(* Preparations that are changed one by one, each to one that loads.       *)
Reworked(P, Q) ==
    /\ P \in Seq(PreparationType) /\ Len(P) = Len(Q)
    /\ \A i \in 1..Len(Q) :
          /\ P[i].environment = Q[i].environment /\ P[i].recipe = Q[i].recipe
          /\ Combination(P[i])
          /\ Q[i].state # "queued" => P[i].state # "queued"
          /\ P[i].state = "ready" <=> Q[i].state = "ready"

LEMMA SoundParts ==
    ASSUME EnvironmentsAssumption, NEW c, CatalogueIsSound(c)
    PROVE  /\ c \in CatalogueType
           /\ c.environments \in [Environment -> EnvironmentType]
           /\ c.preparations \in Seq(PreparationType)
           /\ Len(c.preparations) \in 0..MaxPreparations
           /\ DOMAIN c.preparations = 1..Len(c.preparations)
           /\ \A i \in 1..Len(c.preparations) :
                 /\ c.preparations[i] \in PreparationType
                 /\ Combination(c.preparations[i])
           /\ \A e \in Environment :
                 /\ c.environments[e] \in EnvironmentType
                 /\ Exists(c, e) =>
                       /\ EnvironmentLoads(c, e)
                       /\ c.environments[e].latest \in 1..Len(c.preparations)
                       /\ c.environments[e].recipe =
                             c.preparations[c.environments[e].latest].recipe
                       /\ c.environments[e].recipe \in Recipe
           /\ c.retired \in SUBSET Environment
           /\ c.seeded \in BOOLEAN
<1>1. /\ c \in CatalogueType /\ c.retired \in SUBSET Environment
      /\ c.environments \in [Environment -> EnvironmentType]
      /\ c.preparations \in Seq(PreparationType)
      /\ c.seeded \in BOOLEAN
  BY DEF CatalogueIsSound, CatalogueType
<1>2. DOMAIN c.preparations = 1..Len(c.preparations) /\ Len(c.preparations) \in Nat
  BY <1>1
<1>3. /\ Len(c.preparations) <= MaxPreparations
      /\ \A i \in 1..Len(c.preparations) : PreparationLoads(c, i)
      /\ \A e \in Environment : Exists(c, e) => EnvironmentLoads(c, e)
  BY <1>2 DEF CatalogueIsSound, Loads
<1>4. \A i \in 1..Len(c.preparations) :
          /\ c.preparations[i] \in PreparationType
          /\ Combination(c.preparations[i])
  BY <1>1, <1>2, <1>3 DEF PreparationLoads
<1>5. ASSUME NEW e \in Environment
      PROVE  /\ c.environments[e] \in EnvironmentType
             /\ Exists(c, e) =>
                   /\ EnvironmentLoads(c, e)
                   /\ c.environments[e].latest \in 1..Len(c.preparations)
                   /\ c.environments[e].recipe =
                         c.preparations[c.environments[e].latest].recipe
                   /\ c.environments[e].recipe \in Recipe
  <2>1. c.environments[e] \in EnvironmentType
    BY <1>1
  <2>2. ASSUME Exists(c, e)
        PROVE  /\ EnvironmentLoads(c, e)
               /\ c.environments[e].latest \in 1..Len(c.preparations)
               /\ c.environments[e].recipe =
                     c.preparations[c.environments[e].latest].recipe
    BY <1>2, <1>3, <2>2 DEF EnvironmentLoads, CatalogueIsSound
  <2>3. Exists(c, e) =>
            c.preparations[c.environments[e].latest].recipe \in Recipe
    BY <1>4, <2>2 DEF PreparationType
  <2> QED
    BY <2>1, <2>2, <2>3
<1> QED
  BY <1>1, <1>2, <1>3, <1>4, <1>5 DEF EnvironmentsAssumption

LEMMA ReworkIsSound ==
    ASSUME EnvironmentsAssumption, NEW m, NEW P, CatalogueIsSound(m), m.seeded, Reworked(P, m.preparations)
    PROVE  /\ CatalogueIsSound([m EXCEPT !.preparations = P])
           /\ Follows([m EXCEPT !.preparations = P], m)
<1> DEFINE c == [m EXCEPT !.preparations = P]
<1>a. P \in Seq(PreparationType) /\ Len(P) = Len(m.preparations)
  BY DEF Reworked
<1>b. m \in CatalogueType
  BY DEF CatalogueIsSound
<1>c. /\ c \in CatalogueType
      /\ c.preparations = P /\ c.environments = m.environments
      /\ c.retired = m.retired /\ c.seeded = m.seeded
  BY <1>a, <1>b DEF CatalogueType
<1> HIDE DEF c
<1>1. /\ c \in CatalogueType
      /\ c.preparations = P /\ c.environments = m.environments
      /\ c.retired = m.retired /\ c.seeded = m.seeded
      /\ P \in Seq(PreparationType) /\ DOMAIN P = 1..Len(P) /\ Len(P) = Len(m.preparations)
      /\ Len(P) \in Nat /\ DOMAIN m.preparations = 1..Len(P)
  BY <1>a, <1>b, <1>c DEF CatalogueType
<1>2. \A e \in Environment : Exists(c, e) <=> Exists(m, e)
  BY <1>1 DEF Exists
<1>3. {e \in Environment : Exists(c, e)} = {e \in Environment : Exists(m, e)}
  BY <1>2
<1>4. \A i \in 1..Len(P) : P[i].environment = m.preparations[i].environment
                          /\ P[i].recipe = m.preparations[i].recipe
  BY <1>1 DEF Reworked
<1>5. ASSUME NEW i \in DOMAIN c.preparations PROVE PreparationLoads(c, i)
  <2>1. c.preparations[i] \in PreparationType /\ Combination(c.preparations[i])
    BY <1>1 DEF Reworked
  <2>2. /\ c.preparations[i].environment \in Environment
        /\ c.preparations[i].recipe \in Recipe
        /\ c.preparations[i].phase \in 0..7
    BY <2>1 DEF PreparationType
  <2> QED
    BY <2>1, <2>2 DEF PreparationLoads, Waiting, Finished
<1>6. ASSUME NEW e \in Environment, Exists(c, e)
      PROVE  EnvironmentLoads(c, e)
             /\ c.environments[e].recipe = c.preparations[c.environments[e].latest].recipe
  <2>1. EnvironmentLoads(m, e)
        /\ m.environments[e].recipe = m.preparations[m.environments[e].latest].recipe
        /\ m.environments[e].latest \in 1..Len(P)
    BY <1>1, <1>2, <1>6, SoundParts
  <2> QED
    BY <1>1, <1>4, <2>1 DEF EnvironmentLoads, Reworked
<1>7. Loads(c)
  BY <1>1, <1>2, <1>3, <1>5, <1>6 DEF EnvironmentsAssumption, Loads, CatalogueIsSound
<1>8. CatalogueIsSound(c)
  BY <1>1, <1>3, <1>6, <1>7 DEF CatalogueIsSound
<1>9. Follows(c, m)
  BY <1>1, <1>4 DEF Follows, Keeps, Reworked
<1> QED
  BY <1>8, <1>9 DEF c

(* A new preparation, the latest of its environment from now on.           *)
LEMMA RequestIsSound ==
    ASSUME EnvironmentsAssumption, NEW m, NEW c, NEW e \in Environment, NEW R \in EnvironmentType,
           CatalogueIsSound(m), m.seeded \/ e = Seed, c.seeded = TRUE,
           DOMAIN c = DOMAIN m,
           e \notin m.retired,
           Exists(m, e) \/ Cardinality({d \in Environment : Exists(m, d)})
                                        < MaxEnvironments,
           Len(m.preparations) < MaxPreparations,
           c.environments = [m.environments EXCEPT ![e] = R],
           c.preparations = Append(m.preparations, Queued(e, R.revision, R.recipe)),
           c.retired = m.retired, c \in CatalogueType,
           R.revision > 0, R.recipe \in Recipe, R.latest = Len(m.preparations) + 1,
           R.ready = 0 \/ (Exists(m, e) /\ R.ready = m.environments[e].ready)
    PROVE  CatalogueIsSound(c) /\ Follows(c, m)
<1> DEFINE n == Len(m.preparations)
           q == Queued(e, R.revision, R.recipe)
<1>1. /\ m.preparations \in Seq(PreparationType) /\ n \in Nat
      /\ m.environments \in [Environment -> EnvironmentType]
  BY SoundParts
<1>2. /\ q \in PreparationType /\ q.environment = e /\ q.recipe = R.recipe
      /\ q.state = "queued" /\ Combination(q)
  BY DEF Queued, PreparationType, EnvironmentType, PreparationState,
         Combination, Waiting
<1> HIDE DEF q
<1>3. /\ Len(c.preparations) = n + 1
      /\ DOMAIN c.preparations = 1..(n + 1)
      /\ c.preparations[n + 1] = q
      /\ \A i \in 1..n : c.preparations[i] = m.preparations[i]
  BY <1>1, <1>2 DEF q
<1>4. /\ c.environments[e] = R
      /\ \A d \in Environment : d # e => c.environments[d] = m.environments[d]
  BY <1>1
<1>5. /\ Exists(c, e)
      /\ \A d \in Environment : d # e => (Exists(c, d) <=> Exists(m, d))
  BY <1>4 DEF Exists
<1>6. /\ IsFiniteSet({d \in Environment : Exists(c, d)})
      /\ Cardinality({d \in Environment : Exists(c, d)}) <= MaxEnvironments
  <2> DEFINE old == {d \in Environment : Exists(m, d)}
             new == {d \in Environment : Exists(c, d)}
  <2>1. new = old \union {e} /\ (e \in old <=> Exists(m, e))
    BY <1>5
  <2>2. IsFiniteSet(old) /\ Cardinality(old) <= MaxEnvironments
    BY  DEF CatalogueIsSound, Loads
  <2> HIDE DEF old, new
  <2>3. IsFiniteSet(new) /\ Cardinality(new) <= MaxEnvironments
    <3>1. CASE Exists(m, e)
      <4>1. new = old
        BY <2>1, <3>1
      <4> QED
        BY <2>2, <4>1
    <3>2. CASE ~Exists(m, e)
      <4>1. /\ IsFiniteSet(old \union {e})
            /\ Cardinality(old \union {e}) = Cardinality(old) + 1
        BY <2>1, <2>2, <3>2, FS_AddElement
      <4>2. Cardinality(old) \in Nat /\ Cardinality(old) < MaxEnvironments
        BY <2>2, <3>2, FS_CardinalityType DEF old
      <4> QED
        BY <2>1, <4>1, <4>2 DEF EnvironmentsAssumption
    <3> QED
      BY <3>1, <3>2
  <2> QED
    BY <2>3 DEF new
<1>7. \A i \in DOMAIN c.preparations : PreparationLoads(c, i)
  <2>1. ASSUME NEW i \in 1..n PROVE PreparationLoads(m, i)
    BY <1>1, <2>1 DEF CatalogueIsSound, Loads
  <2>2. ASSUME NEW i \in 1..n PROVE PreparationLoads(c, i)
    BY <1>3, <2>1, <2>2 DEF PreparationLoads
  <2>3. PreparationLoads(c, n + 1)
    BY <1>2, <1>3 DEF PreparationLoads, PreparationType, Waiting,
       Finished
  <2> QED
    BY <1>1, <1>3, <2>2, <2>3
<1>8. ASSUME NEW d \in Environment, Exists(c, d)
      PROVE  EnvironmentLoads(c, d)
             /\ c.environments[d].recipe = c.preparations[c.environments[d].latest].recipe
  <2>1. CASE d = e
    <3>1. R.ready # 0 => /\ R.ready \in 1..n
                         /\ m.preparations[R.ready].environment = e
                         /\ m.preparations[R.ready].state = "ready"
      BY <1>1, SoundParts DEF EnvironmentLoads
    <3> QED
      BY <1>1, <1>2, <1>3, <1>4, <2>1, <3>1 DEF EnvironmentLoads
  <2>2. CASE d # e
    <3>1. /\ EnvironmentLoads(m, d)
          /\ m.environments[d].recipe = m.preparations[m.environments[d].latest].recipe
          /\ m.environments[d].latest \in 1..n
      BY <1>5, <1>8, <2>2, SoundParts
    <3> QED
      BY <1>1, <1>3, <1>4, <2>2, <3>1 DEF EnvironmentLoads
  <2> QED
    BY <2>1, <2>2
<1>9. Exists(c, Seed) \/ Seed \in c.retired
  BY <1>5 DEF EnvironmentsAssumption, CatalogueIsSound, Loads
<1>10. Loads(c)
  BY <1>1, <1>3, <1>6, <1>7, <1>8, <1>9 DEF EnvironmentsAssumption, Loads
<1>11. CatalogueIsSound(c)
  BY <1>6, <1>8, <1>10 DEF CatalogueIsSound
<1>12. Follows(c, m)
  <2>1. Keeps(c, m)
    BY <1>1, <1>3 DEF Keeps
  <2>2. ASSUME NEW i \in 1..n, NEW d \in Environment, c.environments[d].latest = i
        PROVE  m.environments[d].latest = i
    BY <1>1, <1>4, <2>2
  <2> QED
    BY <1>3, <2>1, <2>2 DEF Follows
<1> QED
  BY <1>11, <1>12

LEMMA FollowsIsTransitive ==
    ASSUME NEW c, NEW d, NEW m, Follows(c, d), Follows(d, m),
           Len(c.preparations) \in Nat, Len(d.preparations) \in Nat,
           Len(m.preparations) \in Nat
    PROVE  Follows(c, m)
<1>1. Len(c.preparations) >= Len(m.preparations)
      /\ \A i \in 1..Len(m.preparations) : i \in 1..Len(d.preparations)
  BY DEF Follows, Keeps
<1>2. ASSUME NEW i \in 1..Len(m.preparations)
      PROVE  /\ c.preparations[i].environment = m.preparations[i].environment
             /\ c.preparations[i].recipe = m.preparations[i].recipe
             /\ m.preparations[i].state # "queued" => c.preparations[i].state # "queued"
             /\ c.preparations[i].state = "ready" <=> m.preparations[i].state = "ready"
             /\ \A e \in Environment :
                   c.environments[e].latest = i => m.environments[e].latest = i
  BY <1>1 DEF Follows, Keeps
<1>3. Keeps(c, m)
  BY <1>1, <1>2 DEF Keeps
<1> QED
  BY <1>2, <1>3 DEF Follows

LEMMA FollowsIsReflexive ==
    ASSUME EnvironmentsAssumption, NEW c, CatalogueIsSound(c) PROVE Follows(c, c)
BY SoundParts DEF Follows, Keeps

(* The queued preparations of an environment make way for another.         *)
LEMMA RequeueIsSound ==
    ASSUME EnvironmentsAssumption, NEW m, NEW e \in Environment, NEW recipe \in Recipe,
           CatalogueIsSound(m), m.seeded, Exists(m, e),
           Len(m.preparations) < MaxPreparations
    PROVE  /\ CatalogueIsSound(Requeue(m, e, recipe))
           /\ Follows(Requeue(m, e, recipe), m)
<1> DEFINE P == SupersedeQueued(m, e)
           d == [m EXCEPT !.preparations = P]
           R == [revision |-> m.environments[e].revision + 1, recipe |-> recipe,
                 ready |-> m.environments[e].ready, latest |-> Len(m.preparations) + 1]
           c == Requeue(m, e, recipe)
<1>1. /\ m \in CatalogueType
      /\ m.preparations \in Seq(PreparationType) /\ Len(m.preparations) \in Nat
      /\ DOMAIN m.preparations = 1..Len(m.preparations)
      /\ m.environments \in [Environment -> EnvironmentType]
      /\ m.environments[e] \in EnvironmentType
  BY SoundParts
<1>2. /\ P \in Seq(PreparationType) /\ Len(P) = Len(m.preparations)
      /\ DOMAIN P = 1..Len(m.preparations)
      /\ \A i \in 1..Len(m.preparations) :
            P[i] = LET p == m.preparations[i] IN
                   IF p.environment = e /\ p.state = "queued"
                   THEN [p EXCEPT !.state = "superseded", !.finished = TRUE] ELSE p
  <2>1. DOMAIN P = 1..Len(m.preparations)
    BY <1>1 DEF SupersedeQueued
  <2>2. \A i \in 1..Len(m.preparations) :
            P[i] = LET p == m.preparations[i] IN
                   IF p.environment = e /\ p.state = "queued"
                   THEN [p EXCEPT !.state = "superseded", !.finished = TRUE] ELSE p
    BY <1>1 DEF SupersedeQueued
  <2>3. \A p \in PreparationType :
            [p EXCEPT !.state = "superseded", !.finished = TRUE] \in PreparationType
    BY DEF PreparationType, PreparationState
  <2>4. ASSUME NEW i \in 1..Len(m.preparations) PROVE P[i] \in PreparationType
    <3>1. m.preparations[i] \in PreparationType
      BY <1>1
    <3> QED
      BY <2>2, <2>3, <3>1
  <2>5. P \in [1..Len(m.preparations) -> PreparationType]
    <3>1. P = [i \in 1..Len(m.preparations) |-> P[i]]
      BY <1>1 DEF SupersedeQueued
    <3> QED
      BY <2>4, <3>1
  <2> HIDE DEF P
  <2>6. P \in Seq(PreparationType) /\ Len(P) = Len(m.preparations)
    BY <1>1, <2>5
  <2> QED
    BY <2>1, <2>2, <2>6
<1> HIDE DEF P
<1>3. Reworked(P, m.preparations)
  <2>1. ASSUME NEW i \in 1..Len(m.preparations)
        PROVE  /\ P[i].environment = m.preparations[i].environment
               /\ P[i].recipe = m.preparations[i].recipe
               /\ Combination(P[i])
               /\ m.preparations[i].state # "queued" => P[i].state # "queued"
               /\ P[i].state = "ready" <=> m.preparations[i].state = "ready"
    <3>1. m.preparations[i] \in PreparationType /\ Combination(m.preparations[i])
      BY SoundParts
    <3>2. CASE m.preparations[i].environment = e /\ m.preparations[i].state = "queued"
      <4> DEFINE p == m.preparations[i]
      <4>1. P[i] = [p EXCEPT !.state = "superseded", !.finished = TRUE]
        BY <1>2, <3>2
      <4>2. /\ P[i].environment = p.environment /\ P[i].recipe = p.recipe
            /\ P[i].state = "superseded" /\ P[i].finished = TRUE
            /\ P[i].failure = p.failure /\ P[i].snapshot = p.snapshot
        BY <3>1, <4>1 DEF PreparationType
      <4>3. p.state = "queued" /\ ~p.failure /\ ~p.snapshot
        BY <3>1, <3>2 DEF Combination
      <4> QED
        BY <4>2, <4>3 DEF Combination
    <3>3. CASE ~(m.preparations[i].environment = e /\ m.preparations[i].state = "queued")
      BY <1>2, <3>1, <3>3
    <3> QED
      BY <3>2, <3>3
  <2> QED
    BY <1>2, <2>1 DEF Reworked
<1>4. CatalogueIsSound(d) /\ Follows(d, m)
  BY <1>3, ReworkIsSound
<1>5. /\ d \in CatalogueType /\ DOMAIN d = DOMAIN m
      /\ d.environments = m.environments /\ d.retired = m.retired
      /\ d.seeded = m.seeded /\ d.preparations = P
  BY <1>1, <1>2 DEF CatalogueType
<1>6. R \in EnvironmentType /\ R.revision > 0 /\ R.recipe \in Recipe
  BY <1>1 DEF EnvironmentType
<1>7. /\ c.environments = [m.environments EXCEPT ![e] = R]
      /\ c.preparations = Append(P, Queued(e, R.revision, recipe))
      /\ c.retired = m.retired /\ c.seeded = m.seeded /\ DOMAIN c = DOMAIN m
  <2>1. c.preparations = Append(P, Queued(e, R.revision, recipe))
        /\ c.retired = m.retired /\ c.seeded = m.seeded /\ DOMAIN c = DOMAIN m
    BY <1>1 DEF Requeue, CatalogueType, P
  <2>2. c.environments = [m.environments EXCEPT
                             ![e].revision = m.environments[e].revision + 1,
                             ![e].recipe = recipe,
                             ![e].latest = Len(m.preparations) + 1]
    BY <1>1 DEF Requeue, CatalogueType
  <2>3. c.environments = [m.environments EXCEPT ![e] = R]
    BY <1>1, <2>2 DEF EnvironmentType
  <2> QED
    BY <2>1, <2>3
<1>8. /\ Queued(e, R.revision, recipe) \in PreparationType
      /\ Exists(d, e) /\ e \notin d.retired
      /\ d.environments[e].ready = R.ready
  BY <1>1, <1>5, <1>6, SoundParts
  DEF Queued, PreparationType, EnvironmentType, PreparationState,
      Waiting, Exists, EnvironmentLoads
<1>9. c \in CatalogueType
  <2>1. [m.environments EXCEPT ![e] = R] \in [Environment -> EnvironmentType]
    <3> HIDE DEF R, c, d
    <3> QED
      BY <1>1, <1>6
  <2>2. Append(P, Queued(e, R.revision, recipe)) \in Seq(PreparationType)
    <3> DEFINE q == Queued(e, R.revision, recipe)
    <3>1. q \in PreparationType /\ P \in Seq(PreparationType)
      BY <1>2, <1>8
    <3> HIDE DEF q, R, c, d
    <3> QED
      BY <3>1 DEF q
  <2>3. c = [x \in DOMAIN c |-> c[x]]
    BY DEF Requeue
  <2>4. DOMAIN c = {"environments", "retired", "preparations", "seeded"}
    BY <1>1, <1>7 DEF CatalogueType
  <2>5. m.retired \in SUBSET Environment /\ m.seeded \in BOOLEAN
    BY <1>1 DEF CatalogueType
  <2> HIDE DEF c, R
  <2> QED
    BY <1>7, <2>1, <2>2, <2>3, <2>4, <2>5 DEF CatalogueType
<1> HIDE DEF c, d
<1>10. Len(d.preparations) = Len(m.preparations) /\ Len(d.preparations) \in Nat
  BY <1>1, <1>2, <1>5
<1>11. CatalogueIsSound(c) /\ Follows(c, d)
  <2>1. /\ R.latest = Len(d.preparations) + 1
        /\ c.environments = [d.environments EXCEPT ![e] = R]
        /\ c.preparations = Append(d.preparations, Queued(e, R.revision, R.recipe))
        /\ c.retired = d.retired /\ d.seeded /\ c.seeded = TRUE /\ DOMAIN c = DOMAIN d
        /\ Len(d.preparations) < MaxPreparations
    BY <1>5, <1>7, <1>10
  <2>2. \E S \in EnvironmentType : S = R
    BY <1>6
  <2>3. PICK S \in EnvironmentType : S = R
    BY <2>2
  <2> HIDE DEF R
  <2> QED
    BY <1>4, <1>6, <1>8, <1>9, <2>1, <2>3, RequestIsSound
<1>12. Len(c.preparations) \in Nat
  BY <1>11, SoundParts
<1> QED
  BY <1>1, <1>4, <1>10, <1>11, <1>12, FollowsIsTransitive DEF c

(* Environments that change their names or go, without a new request.      *)
LEMMA RecordsAreSound ==
    ASSUME EnvironmentsAssumption, NEW m, NEW c, CatalogueIsSound(m), m.seeded,
           c \in CatalogueType, c.preparations = m.preparations, c.seeded = m.seeded,
           m.retired \subseteq c.retired,
           Exists(m, Seed) => Exists(c, Seed) \/ Seed \in c.retired,
           \A d \in Environment :
              /\ Exists(c, d) =>
                    /\ Exists(m, d) /\ d \notin c.retired
                    /\ c.environments[d].recipe = m.environments[d].recipe
                    /\ c.environments[d].ready = m.environments[d].ready
              /\ c.environments[d].latest \in {0, m.environments[d].latest}
              /\ Exists(c, d) => c.environments[d].latest # 0
    PROVE  CatalogueIsSound(c) /\ Follows(c, m)
<1>1. /\ m.preparations \in Seq(PreparationType) /\ Len(m.preparations) \in Nat
      /\ DOMAIN m.preparations = 1..Len(m.preparations)
  BY SoundParts
<1>2. /\ IsFiniteSet({d \in Environment : Exists(c, d)})
      /\ Cardinality({d \in Environment : Exists(c, d)}) <= MaxEnvironments
  <2> DEFINE old == {d \in Environment : Exists(m, d)}
             new == {d \in Environment : Exists(c, d)}
  <2>1. new \subseteq old /\ IsFiniteSet(old) /\ Cardinality(old) <= MaxEnvironments
    BY DEF CatalogueIsSound, Loads
  <2> HIDE DEF old, new
  <2>2. IsFiniteSet(new) /\ Cardinality(new) <= Cardinality(old)
    BY <2>1, FS_Subset
  <2>3. Cardinality(new) \in Nat /\ Cardinality(old) \in Nat /\ MaxEnvironments \in Nat
    BY <2>1, <2>2, FS_CardinalityType DEF EnvironmentsAssumption
  <2> QED
    BY <2>1, <2>2, <2>3 DEF new
<1>3. \A i \in DOMAIN c.preparations : PreparationLoads(c, i)
  BY DEF CatalogueIsSound, Loads, PreparationLoads
<1>4. ASSUME NEW d \in Environment, Exists(c, d)
      PROVE  EnvironmentLoads(c, d)
             /\ c.environments[d].recipe = c.preparations[c.environments[d].latest].recipe
  <2>1. EnvironmentLoads(m, d)
        /\ m.environments[d].recipe = m.preparations[m.environments[d].latest].recipe
    BY <1>4, SoundParts
  <2>2. c.environments[d].latest = m.environments[d].latest
    BY <1>4
  <2> QED
    BY <1>4, <2>1, <2>2 DEF EnvironmentLoads
<1>5. Loads(c)
  BY <1>1, <1>2, <1>3, <1>4 DEF CatalogueIsSound, Loads
<1>6. CatalogueIsSound(c)
  BY <1>2, <1>4, <1>5 DEF CatalogueIsSound
<1>7. Follows(c, m)
  BY <1>1 DEF Follows, Keeps
<1> QED
  BY <1>6, <1>7

Renamed(m, e) == [m EXCEPT !.environments[e].revision = @ + 1]

LEMMA RenameIsSound ==
    ASSUME EnvironmentsAssumption, NEW m, NEW e \in Environment, CatalogueIsSound(m),
           m.seeded, Exists(m, e)
    PROVE  CatalogueIsSound(Renamed(m, e)) /\ Follows(Renamed(m, e), m)
<1> DEFINE c == Renamed(m, e)
           R == [m.environments[e] EXCEPT !.revision = @ + 1]
<1>1. /\ m \in CatalogueType
      /\ m.environments \in [Environment -> EnvironmentType]
      /\ m.environments[e] \in EnvironmentType
  BY SoundParts
<1>2. /\ R \in EnvironmentType /\ R.revision = m.environments[e].revision + 1
      /\ R.recipe = m.environments[e].recipe /\ R.ready = m.environments[e].ready
      /\ R.latest = m.environments[e].latest
  BY <1>1 DEF EnvironmentType
<1>3. c = [m EXCEPT !.environments = [m.environments EXCEPT ![e] = R]]
  BY <1>1 DEF Renamed, CatalogueType
<1> HIDE DEF R
<1>4. [m.environments EXCEPT ![e] = R] \in [Environment -> EnvironmentType]
  BY <1>1, <1>2
<1>5. /\ c \in CatalogueType
      /\ c.environments = [m.environments EXCEPT ![e] = R]
      /\ c.preparations = m.preparations /\ c.seeded = m.seeded
      /\ c.retired = m.retired
  BY <1>1, <1>3, <1>4 DEF CatalogueType
<1>6. ASSUME NEW d \in Environment
      PROVE  /\ Exists(c, d) <=> Exists(m, d)
             /\ c.environments[d].recipe = m.environments[d].recipe
             /\ c.environments[d].ready = m.environments[d].ready
             /\ c.environments[d].latest = m.environments[d].latest
  <2>1. d # e => c.environments[d] = m.environments[d]
    BY <1>1, <1>5
  <2>2. c.environments[e] = R
    BY <1>1, <1>5
  <2>3. m.environments[e].revision > 0 /\ m.environments[e].revision \in Nat
    BY <1>1 DEF Exists, EnvironmentType
  <2> QED
    BY <1>2, <2>1, <2>2, <2>3 DEF Exists
<1>7. \A d \in Environment :
          Exists(m, d) => d \notin m.retired /\ m.environments[d].latest # 0
  BY SoundParts DEF EnvironmentLoads
<1> HIDE DEF c
<1> QED
  BY <1>5, <1>6, <1>7, RecordsAreSound, EnvironmentsAssumption DEF c, EnvironmentsAssumption

Deleted(m, e) ==
    [m EXCEPT !.environments[e] = NoRecord,
              !.retired = @ \union {e},
              !.preparations = [i \in DOMAIN @ |->
                  IF @[i].environment = e /\ Active(@[i]) THEN Cancel(@[i])
                  ELSE @[i]]]

LEMMA DeleteIsSound ==
    ASSUME EnvironmentsAssumption, NEW m, NEW e \in Environment, CatalogueIsSound(m),
           m.seeded, Exists(m, e)
    PROVE  CatalogueIsSound(Deleted(m, e)) /\ Follows(Deleted(m, e), m)
<1> DEFINE n == Len(m.preparations)
           P == [i \in 1..n |->
                    IF m.preparations[i].environment = e /\ Active(m.preparations[i])
                    THEN Cancel(m.preparations[i]) ELSE m.preparations[i]]
           d == [m EXCEPT !.preparations = P]
           c == Deleted(m, e)
<1>1. /\ m \in CatalogueType
      /\ m.preparations \in Seq(PreparationType) /\ n \in Nat
      /\ DOMAIN m.preparations = 1..n
      /\ m.environments \in [Environment -> EnvironmentType]
      /\ m.retired \in SUBSET Environment /\ m.seeded \in BOOLEAN
  BY SoundParts
<1>2. ASSUME NEW i \in 1..n
      PROVE  /\ P[i] \in PreparationType
             /\ P[i].environment = m.preparations[i].environment
             /\ P[i].recipe = m.preparations[i].recipe
             /\ Combination(P[i])
             /\ m.preparations[i].state # "queued" => P[i].state # "queued"
             /\ P[i].state = "ready" <=> m.preparations[i].state = "ready"
  <2> DEFINE p == m.preparations[i]
  <2>1. p \in PreparationType /\ Combination(p)
    BY SoundParts
  <2>2. CASE p.environment = e /\ Active(p)
    <3>1. P[i] = Cancel(p) /\ p.state \in {"queued", "preparing"}
      BY <2>2 DEF Active
    <3> HIDE DEF p, P
    <3>2. /\ Cancel(p) \in PreparationType
          /\ Cancel(p).environment = p.environment /\ Cancel(p).recipe = p.recipe
          /\ Cancel(p).state = "cancelled" /\ Cancel(p).finished = TRUE
          /\ Cancel(p).failure = FALSE /\ Cancel(p).snapshot = FALSE
      <4>1. Cancel(p) \in PreparationType
        <5>1. \A r \in PreparationType :
                  [r EXCEPT !.state = "cancelled", !.phase = Finished] \in PreparationType
          <6>1. \A k \in 0..7 : \A r \in PreparationType :
                    [r EXCEPT !.phase = k] \in PreparationType
            BY DEF PreparationType
          <6>2. \A r \in PreparationType :
                    [r EXCEPT !.state = "cancelled"] \in PreparationType
            BY DEF PreparationType, PreparationState
          <6>3. Finished \in 0..7
            BY DEF Finished
          <6>4. \A r : [r EXCEPT !.state = "cancelled", !.phase = Finished]
                            = [[r EXCEPT !.state = "cancelled"] EXCEPT !.phase = Finished]
            OBVIOUS
          <6> QED
            BY <6>1, <6>2, <6>3, <6>4
        <5>2. \A r \in PreparationType :
                  [r EXCEPT !.finished = TRUE, !.failure = FALSE] \in PreparationType
          BY DEF PreparationType
        <5>3. \A r \in PreparationType :
                  [r EXCEPT !.snapshot = FALSE] \in PreparationType
          BY DEF PreparationType
        <5>4. Cancel(p) =
                [[[p EXCEPT !.state = "cancelled", !.phase = Finished]
                     EXCEPT !.finished = TRUE, !.failure = FALSE]
                     EXCEPT !.snapshot = FALSE]
          BY DEF Cancel
        <5> QED
          BY <2>1, <5>1, <5>2, <5>3, <5>4
      <4>2. /\ Cancel(p).environment = p.environment /\ Cancel(p).recipe = p.recipe
            /\ Cancel(p).state = "cancelled" /\ Cancel(p).finished = TRUE
            /\ Cancel(p).failure = FALSE /\ Cancel(p).snapshot = FALSE
        BY <2>1 DEF Cancel, PreparationType
      <4> QED
        BY <2>1, <4>1, <4>2
    <3>3. Combination(Cancel(p))
      BY <3>2 DEF Combination
    <3> QED
      BY <3>1, <3>2, <3>3 DEF p
  <2>3. CASE ~(p.environment = e /\ Active(p))
    <3>1. P[i] = p
      BY <2>3
    <3> QED
      BY <2>1, <3>1
  <2> QED
    BY <2>2, <2>3
<1>3. P \in Seq(PreparationType) /\ Len(P) = n
  <2>1. P \in [1..n -> PreparationType]
    BY <1>2
  <2> HIDE DEF P
  <2> QED
    BY <1>1, <2>1
<1>4. c = [m EXCEPT !.environments = [m.environments EXCEPT ![e] = NoRecord],
                    !.retired = m.retired \union {e}, !.preparations = P]
  BY <1>1 DEF Deleted, CatalogueType
<1> HIDE DEF P
<1>5. CatalogueIsSound(d) /\ Follows(d, m)
  BY <1>2, <1>3, ReworkIsSound DEF Reworked
<1>6. /\ d.environments = m.environments /\ d.retired = m.retired
      /\ d.seeded = m.seeded /\ d.preparations = P
  BY <1>1 DEF CatalogueType
<1>7. NoRecord \in EnvironmentType /\ NoRecord.revision = 0 /\ NoRecord.latest = 0
  BY DEF NoRecord, EnvironmentType
<1>8. [m.environments EXCEPT ![e] = NoRecord] \in [Environment -> EnvironmentType]
  BY <1>1, <1>7
<1>9. /\ c \in CatalogueType
      /\ c.environments = [m.environments EXCEPT ![e] = NoRecord]
      /\ c.preparations = P /\ c.seeded = m.seeded
      /\ c.retired = m.retired \union {e}
  <2>1. /\ c.environments = [m.environments EXCEPT ![e] = NoRecord]
        /\ c.preparations = P /\ c.seeded = m.seeded
        /\ c.retired = m.retired \union {e}
        /\ DOMAIN c = {"environments", "retired", "preparations", "seeded"}
        /\ c = [x \in DOMAIN c |-> c[x]]
    <3> HIDE DEF c
    <3> QED
      BY <1>1, <1>4 DEF CatalogueType
  <2> HIDE DEF c
  <2> QED
    BY <1>1, <1>3, <1>8, <2>1 DEF CatalogueType
<1> HIDE DEF c, d
<1>10. ASSUME NEW x \in Environment
       PROVE  /\ x = e => ~Exists(c, x) /\ c.environments[x].latest = 0
              /\ x # e => c.environments[x] = d.environments[x]
  BY <1>1, <1>6, <1>7, <1>9 DEF Exists
<1>11. \A x \in Environment :
          Exists(d, x) => x \notin d.retired /\ d.environments[x].latest # 0
  BY <1>5, SoundParts DEF EnvironmentLoads
<1>12. \A x \in Environment : x # e => (Exists(c, x) <=> Exists(d, x))
  BY <1>10 DEF Exists
<1>13. CatalogueIsSound(c) /\ Follows(c, d)
  <2>1. \A x \in Environment :
              /\ Exists(c, x) =>
                    /\ Exists(d, x) /\ x \notin c.retired
                    /\ c.environments[x].recipe = d.environments[x].recipe
                    /\ c.environments[x].ready = d.environments[x].ready
              /\ c.environments[x].latest \in {0, d.environments[x].latest}
              /\ Exists(c, x) => c.environments[x].latest # 0
    BY <1>6, <1>9, <1>10, <1>11, <1>12
  <2>2. Exists(d, Seed) => Exists(c, Seed) \/ Seed \in c.retired
    BY <1>9, <1>12 DEF EnvironmentsAssumption
  <2> QED
    BY <1>5, <1>6, <1>9, <2>1, <2>2, RecordsAreSound
<1>14. Len(c.preparations) \in Nat /\ Len(d.preparations) \in Nat
  BY <1>5, <1>13, SoundParts
<1> QED
  BY <1>1, <1>5, <1>13, <1>14, FollowsIsTransitive DEF c

(* One preparation goes on, without being published.                       *)
WithOne(m, i, q) == [m EXCEPT !.preparations = [m.preparations EXCEPT ![i] = q]]

LEMMA OneIsSound ==
    ASSUME EnvironmentsAssumption, NEW m, NEW i \in 1..Len(m.preparations),
           NEW q \in PreparationType,
           CatalogueIsSound(m), m.seeded,
           q.environment = m.preparations[i].environment,
           q.recipe = m.preparations[i].recipe,
           Combination(q), q.state \notin {"queued", "ready"},
           m.preparations[i].state # "ready"
    PROVE  /\ CatalogueIsSound(WithOne(m, i, q)) /\ Follows(WithOne(m, i, q), m)
           /\ WithOne(m, i, q).environments = m.environments
           /\ WithOne(m, i, q).preparations = [m.preparations EXCEPT ![i] = q]
<1> DEFINE c == WithOne(m, i, q)
           P == [m.preparations EXCEPT ![i] = q]
<1>1. /\ m \in CatalogueType
      /\ m.preparations \in Seq(PreparationType)
      /\ \A j \in 1..Len(m.preparations) :
            m.preparations[j] \in PreparationType /\ Combination(m.preparations[j])
  BY SoundParts
<1>2. /\ P \in Seq(PreparationType) /\ Len(P) = Len(m.preparations)
      /\ P[i] = q /\ \A j \in 1..Len(P) : j # i => P[j] = m.preparations[j]
  BY <1>1
<1> HIDE DEF P
<1>3. Reworked(P, m.preparations)
  BY <1>1, <1>2 DEF Reworked
<1>4. c = [m EXCEPT !.preparations = P]
  BY DEF P, WithOne
<1>5. c.environments = m.environments /\ c.preparations = P
  BY <1>1, <1>4 DEF CatalogueType
<1>6. /\ CatalogueIsSound([m EXCEPT !.preparations = P])
      /\ Follows([m EXCEPT !.preparations = P], m)
  BY <1>3, ReworkIsSound
<1> HIDE DEF c
<1>7. CatalogueIsSound(c) /\ Follows(c, m)
  BY <1>4, <1>6
<1> QED
  BY <1>5, <1>7 DEF c, P

-----------------------------------------------------------------------------
(* What an edit leaves true, whether the file was replaced, the write      *)
(* failed before or after it, or nothing was written.                      *)
LEMMA TruthFollows ==
    ASSUME EnvironmentsAssumption, NEW c, NEW m, CatalogueIsSound(c),
           CatalogueIsSound(m), Follows(c, m), SnapshotsAreTrue(m), PinsArePublished(m)
    PROVE  SnapshotsAreTrue(c) /\ PinsArePublished(c)
<1>1. Len(c.preparations) \in Nat /\ Len(m.preparations) \in Nat
  BY SoundParts
<1>2. \A i \in 1..Len(m.preparations) :
          /\ i \in 1..Len(c.preparations)
          /\ c.preparations[i].recipe = m.preparations[i].recipe
          /\ m.preparations[i].state # "queued" => c.preparations[i].state # "queued"
          /\ m.preparations[i].state = "ready" <=> c.preparations[i].state = "ready"
  BY <1>1 DEF Follows, Keeps
<1>3. SnapshotsAreTrue(c)
  BY <1>2 DEF SnapshotsAreTrue
<1>4. PinsArePublished(c)
  BY <1>2 DEF PinsArePublished
<1> QED
  BY <1>3, <1>4

LEMMA StoreKeeps ==
    ASSUME EnvironmentsAssumption, NEW c, CatalogueInv, up, CatalogueIsSound(c),
           Follows(c, memory), Stored(c) \/ Unstored(c),
           UNCHANGED <<up, snapshots, launches>>
    PROVE  CatalogueInv'
<1>1. /\ memory' \in {memory, c} /\ disk' \in {disk, c}
      /\ memory' = memory \/ (memory' = c /\ disk' = c)
      /\ up' = up /\ snapshots' = snapshots /\ launch' = launch /\ pins' = pins
  BY DEF Stored, Unstored, launches
<1>2. /\ CatalogueIsSound(memory) /\ CatalogueIsSound(disk) /\ memory.seeded
      /\ Keeps(disk, memory) /\ SnapshotsAreTrue(memory) /\ SnapshotsAreTrue(disk)
      /\ PinsArePublished(memory) /\ PinsArePublished(disk)
  BY DEF CatalogueInv
<1>3. SnapshotsAreTrue(c) /\ PinsArePublished(c)
  BY <1>2, TruthFollows
<1>4. Keeps(c, memory) /\ Keeps(c, c) /\ c.seeded
  <2>1. Follows(c, c)
    BY FollowsIsReflexive
  <2> QED
    BY <1>2, <2>1 DEF Follows
<1>5. CatalogueIsSound(memory)' /\ CatalogueIsSound(disk)'
  <2>1. CatalogueIsSound(memory') /\ CatalogueIsSound(disk')
    BY <1>1, <1>2
  <2> QED
    BY <2>1 DEF CatalogueIsSound, Exists, Loads, PreparationLoads, EnvironmentLoads
<1>6. /\ SnapshotsAreTrue(memory)' /\ SnapshotsAreTrue(disk)'
      /\ PinsArePublished(memory)' /\ PinsArePublished(disk)'
  BY <1>1, <1>2, <1>3 DEF SnapshotsAreTrue, PinsArePublished
<1>7. Keeps(disk, memory)' /\ memory'.seeded
  BY <1>1, <1>2, <1>4 DEF Keeps
<1>8. PinIsWhatItSays' /\ (launch' # NoLaunch =>
          up' /\ launch'.environment \in Environment /\ launch'.id # 0)
  BY <1>1 DEF CatalogueInv, PinIsWhatItSays
<1> QED
  BY <1>1, <1>5, <1>6, <1>7, <1>8 DEF CatalogueInv

LEMMA QuietKeeps ==
    ASSUME EnvironmentsAssumption, CatalogueInv, up,
           UNCHANGED <<memory, disk, up, snapshots, launches>>
    PROVE  CatalogueInv'
<1>1. CatalogueIsSound(memory) /\ CatalogueIsSound(disk)
  BY DEF CatalogueInv
<1>2. CatalogueIsSound(memory)' /\ CatalogueIsSound(disk)'
  BY <1>1 DEF CatalogueIsSound, Exists, Loads, PreparationLoads,
     EnvironmentLoads
<1> QED
  BY <1>2 DEF CatalogueInv, SnapshotsAreTrue, PinsArePublished, Keeps, PinIsWhatItSays,
     launches

(* What is being built, in whatever the worker comes back to.              *)
Taken(w, m) ==
    /\ w.id \in 1..Len(m.preparations)
    /\ m.preparations[w.id].state \notin {"queued", "ready"}

Wanted(w, m) ==
    m.environments[m.preparations[w.id].environment].latest = w.id =>
        w.recipe = m.preparations[w.id].recipe

LEMMA WorkFollows ==
    ASSUME EnvironmentsAssumption, EnvironmentsInv, NEW c, CatalogueIsSound(c),
           Follows(c, memory), Stored(c) \/ Unstored(c), worker.pc \in Busy
    PROVE  /\ Taken(worker, memory')
           /\ worker.pc \in Building => Wanted(worker, memory')
           /\ worker.pc \in Building \union {"load"} =>
                 disk'.preparations[worker.id].state # "ready"
<1>1. memory' \in {memory, c} /\ disk' \in {disk, c}
  BY DEF Stored, Unstored
<1>2. /\ CatalogueIsSound(memory) /\ Len(memory.preparations) \in Nat
      /\ Len(c.preparations) \in Nat
      /\ \A i \in 1..Len(memory.preparations) :
            memory.preparations[i].environment \in Environment
  <2>1. CatalogueIsSound(memory)
    BY DEF EnvironmentsInv, CatalogueInv
  <2>2. \A i \in 1..Len(memory.preparations) : memory.preparations[i] \in PreparationType
    BY <2>1, SoundParts
  <2>3. Len(memory.preparations) \in Nat /\ Len(c.preparations) \in Nat
    BY <2>1, SoundParts
  <2> QED
    BY <2>1, <2>2, <2>3 DEF PreparationType
<1>3. /\ Taken(worker, memory)
      /\ worker.pc \in Building => Wanted(worker, memory)
      /\ worker.pc \in Building \union {"load"} =>
            disk.preparations[worker.id].state # "ready"
  BY DEF EnvironmentsInv, WorkerInv, Taken, Wanted
<1>4. /\ Taken(worker, c)
      /\ worker.pc \in Building => Wanted(worker, c)
      /\ c.preparations[worker.id].state # "ready"
  <2> DEFINE i == worker.id
             e == memory.preparations[i].environment
  <2>1. i \in 1..Len(memory.preparations) /\ e \in Environment
        /\ memory.preparations[i].state \notin {"queued", "ready"}
    BY <1>2, <1>3 DEF Taken
  <2> HIDE DEF i, e
  <2>2. /\ i \in 1..Len(c.preparations)
        /\ c.preparations[i].environment = e
        /\ c.preparations[i].recipe = memory.preparations[i].recipe
        /\ c.preparations[i].state \notin {"queued", "ready"}
    <3>1. i \in 1..Len(c.preparations)
      BY <1>2, <2>1 DEF Follows, Keeps
    <3>2. /\ c.preparations[i].environment = memory.preparations[i].environment
          /\ c.preparations[i].recipe = memory.preparations[i].recipe
          /\ c.preparations[i].state # "queued"
          /\ c.preparations[i].state = "ready" => memory.preparations[i].state = "ready"
      BY <1>2, <2>1 DEF Follows, Keeps
    <3> QED
      BY <2>1, <3>1, <3>2 DEF e
  <2>3. c.environments[e].latest = i => memory.environments[e].latest = i
    BY <1>2, <2>1 DEF Follows
  <2> QED
    BY <1>3, <2>1, <2>2, <2>3 DEF Taken, Wanted, i, e
<1> QED
  BY <1>1, <1>3, <1>4 DEF Taken, Wanted

(* An edit by someone else does not disturb the worker.                    *)
LEMMA WorkerKept ==
    ASSUME EnvironmentsAssumption, EnvironmentsInv, up, NEW c, CatalogueIsSound(c),
           Follows(c, memory), Stored(c) \/ Unstored(c),
           UNCHANGED <<up, worker, snapshots, launches>>
    PROVE  EnvironmentsInv'
<1>1. CatalogueInv'
  BY StoreKeeps DEF EnvironmentsInv
<1>2. WorkerInv'
  <2>1. CASE worker.pc \in Busy
    <3>1. /\ Taken(worker, memory')
          /\ worker.pc \in Building => Wanted(worker, memory')
          /\ worker.pc \in Building \union {"load"} =>
                disk'.preparations[worker.id].state # "ready"
      BY <2>1, WorkFollows
    <3> QED
      BY <3>1 DEF EnvironmentsInv, WorkerInv, Taken, Wanted
  <2>2. CASE worker.pc \notin Busy
    BY <2>2 DEF EnvironmentsInv, WorkerInv, Busy, Building
  <2> QED
    BY <2>1, <2>2
<1> QED
  BY <1>1, <1>2 DEF EnvironmentsInv

-----------------------------------------------------------------------------
(* The handlers.                                                           *)
LEMMA AddIsSound ==
    ASSUME EnvironmentsAssumption, NEW m, NEW c, NEW e \in Environment,
           NEW recipe \in Recipe, CatalogueIsSound(m), m.seeded \/ e = Seed,
           e \notin m.retired, ~Exists(m, e),
           Cardinality({d \in Environment : Exists(m, d)}) < MaxEnvironments,
           Len(m.preparations) < MaxPreparations,
           c = [AddEnvironment(m, e, recipe) EXCEPT !.seeded = TRUE]
    PROVE  CatalogueIsSound(c) /\ Follows(c, m)
<1> DEFINE R == [revision |-> 1, recipe |-> recipe, ready |-> 0,
                 latest |-> Len(m.preparations) + 1]
           q == Queued(e, 1, recipe)
<1>1. /\ m \in CatalogueType
      /\ m.preparations \in Seq(PreparationType) /\ Len(m.preparations) \in Nat
      /\ m.environments \in [Environment -> EnvironmentType]
      /\ m.retired \in SUBSET Environment /\ m.seeded \in BOOLEAN
  BY SoundParts
<1>2. /\ R \in EnvironmentType /\ R.revision = 1 /\ R.recipe = recipe /\ R.ready = 0
      /\ R.latest = Len(m.preparations) + 1
  BY <1>1 DEF EnvironmentType
<1>3. q \in PreparationType
  BY DEF Queued, PreparationType, PreparationState, Waiting
<1>4. /\ c.environments = [m.environments EXCEPT ![e] = R]
      /\ c.preparations = Append(m.preparations, q)
      /\ c.retired = m.retired /\ c.seeded = TRUE
      /\ DOMAIN c = DOMAIN m
      /\ DOMAIN c = {"environments", "retired", "preparations", "seeded"}
      /\ c = [x \in DOMAIN c |-> c[x]]
  BY <1>1 DEF AddEnvironment, CatalogueType
<1>5. \E S \in EnvironmentType : S = R
  BY <1>2
<1>6. PICK S \in EnvironmentType : S = R
  BY <1>5
<1> HIDE DEF R, q
<1>7. c \in CatalogueType
  <2>1. [m.environments EXCEPT ![e] = R] \in [Environment -> EnvironmentType]
    BY <1>1, <1>2
  <2>2. Append(m.preparations, q) \in Seq(PreparationType)
    BY <1>1, <1>3
  <2> QED
    BY <1>1, <1>4, <2>1, <2>2 DEF CatalogueType
<1>8. /\ c.environments = [m.environments EXCEPT ![e] = S]
      /\ c.preparations = Append(m.preparations, Queued(e, S.revision, S.recipe))
      /\ S.revision > 0 /\ S.recipe \in Recipe /\ S.latest = Len(m.preparations) + 1
      /\ S.ready = 0
  BY <1>2, <1>4, <1>6 DEF q
<1>9. DOMAIN c = DOMAIN m /\ c.seeded = TRUE /\ c.retired = m.retired
  BY <1>4
<1>10. S.ready = 0 \/ (Exists(m, e) /\ S.ready = m.environments[e].ready)
  BY <1>8
<1>11. Exists(m, e) \/ Cardinality({d \in Environment : Exists(m, d)}) < MaxEnvironments
  OBVIOUS
<1> QED
  BY <1>7, <1>8, <1>9, <1>10, <1>11, RequestIsSound

LEMMA CreateKeeps ==
    ASSUME EnvironmentsAssumption, EnvironmentsInv, NEW e \in Environment, Create(e)
    PROVE  EnvironmentsInv'
<1>1. PICK recipe \in Recipe : Edit(AddEnvironment(memory, e, recipe))
  BY DEF Create
<1> DEFINE c == AddEnvironment(memory, e, recipe)
           d == [c EXCEPT !.seeded = TRUE]
<1>2. /\ up /\ Len(memory.preparations) < MaxPreparations
      /\ Cardinality({x \in Environment : Exists(memory, x)}) < MaxEnvironments
      /\ e # Seed /\ ~Exists(memory, e) /\ e \notin memory.retired
  BY DEF Create, PreparationFits
<1>3. CatalogueIsSound(memory) /\ memory.seeded
  BY <1>2 DEF EnvironmentsInv, CatalogueInv
<1>4. CatalogueIsSound(d) /\ Follows(d, memory)
  BY <1>2, <1>3, AddIsSound
<1>5. c = d
  <2>1. memory \in CatalogueType
    BY <1>3 DEF CatalogueIsSound
  <2>2. memory.seeded = TRUE
    BY <1>3, <2>1 DEF CatalogueType
  <2>3. c.seeded = TRUE /\ DOMAIN c = {"environments", "retired", "preparations", "seeded"}
        /\ c = [x \in DOMAIN c |-> c[x]]
    BY <2>1, <2>2 DEF AddEnvironment, CatalogueType
  <2> HIDE DEF c
  <2> QED
    BY <2>3
<1> HIDE DEF c, d
<1>6. /\ Stored(c) \/ Unstored(c)
      /\ UNCHANGED <<up, worker, snapshots, launches>>
  BY <1>1 DEF Edit, c
<1> QED
  BY <1>2, <1>4, <1>5, <1>6, WorkerKept

LEMMA RequeueKeeps ==
    ASSUME EnvironmentsAssumption, EnvironmentsInv, NEW e \in Environment,
           NEW recipe \in Recipe, Editable(e), PreparationFits,
           Edit(Requeue(memory, e, recipe))
    PROVE  EnvironmentsInv'
<1> DEFINE c == Requeue(memory, e, recipe)
<1>1. /\ up /\ Len(memory.preparations) < MaxPreparations /\ Exists(memory, e)
      /\ CatalogueIsSound(memory) /\ memory.seeded
  BY DEF Editable, PreparationFits, EnvironmentsInv, CatalogueInv
<1>2. CatalogueIsSound(c) /\ Follows(c, memory)
  BY <1>1, RequeueIsSound
<1>3. /\ Stored(c) \/ Unstored(c)
      /\ UNCHANGED <<up, worker, snapshots, launches>>
  BY DEF Edit
<1> HIDE DEF c
<1> QED
  BY <1>1, <1>2, <1>3, WorkerKept

LEMMA UpdateKeeps ==
    ASSUME EnvironmentsAssumption, EnvironmentsInv, NEW e \in Environment, Update(e)
    PROVE  EnvironmentsInv'
<1>1. CASE PreparationFits /\ \E recipe \in Recipe \ {memory.environments[e].recipe} :
                                  Edit(Requeue(memory, e, recipe))
  BY <1>1, RequeueKeeps DEF Update
<1>2. CASE LET c == [memory EXCEPT !.environments[e].revision = @ + 1]
           IN  /\ Len(memory.preparations) <= RenameBound
               /\ Stored(c) \/ Unstored(c)
               /\ UNCHANGED <<up, woken, worker, snapshots, launches>>
  <2> DEFINE c == Renamed(memory, e)
  <2>1. /\ Stored(c) \/ Unstored(c)
        /\ UNCHANGED <<up, worker, snapshots, launches>>
    BY <1>2 DEF Renamed
  <2>2. up /\ Exists(memory, e) /\ CatalogueIsSound(memory) /\ memory.seeded
    BY DEF Update, Editable, EnvironmentsInv, CatalogueInv
  <2>3. CatalogueIsSound(c) /\ Follows(c, memory)
    BY <2>2, RenameIsSound
  <2> HIDE DEF c
  <2> QED
    BY <2>1, <2>2, <2>3, WorkerKept
<1> QED
  BY <1>1, <1>2 DEF Update

LEMMA RetryKeeps ==
    ASSUME EnvironmentsAssumption, EnvironmentsInv, NEW e \in Environment,
           RetryPreparation(e)
    PROVE  EnvironmentsInv'
<1>1. /\ Editable(e) /\ PreparationFits
      /\ Edit(Requeue(memory, e, memory.environments[e].recipe))
  BY DEF RetryPreparation
<1>2. memory.environments[e].recipe \in Recipe
  <2>1. up /\ Exists(memory, e)
    BY <1>1 DEF Editable
  <2>2. CatalogueIsSound(memory)
    BY DEF EnvironmentsInv, CatalogueInv
  <2> QED
    BY <2>1, <2>2, SoundParts
<1> QED
  BY <1>1, <1>2, RequeueKeeps

LEMMA DeleteKeeps ==
    ASSUME EnvironmentsAssumption, EnvironmentsInv, NEW e \in Environment, Delete(e)
    PROVE  EnvironmentsInv'
<1> DEFINE c == Deleted(memory, e)
<1>1. up /\ Exists(memory, e) /\ Edit(c)
  BY DEF Delete, Deleted
<1>2. CatalogueIsSound(memory) /\ memory.seeded
  BY <1>1 DEF EnvironmentsInv, CatalogueInv
<1>3. CatalogueIsSound(c) /\ Follows(c, memory)
  BY <1>1, <1>2, DeleteIsSound
<1> HIDE DEF c
<1>4. /\ Stored(c) \/ Unstored(c)
      /\ UNCHANGED <<up, worker, snapshots, launches>>
  BY <1>1 DEF Edit
<1> QED
  BY <1>1, <1>3, <1>4, WorkerKept

-----------------------------------------------------------------------------
(* The worker's steps.                                                     *)
LEMMA WakeKeeps ==
    ASSUME EnvironmentsAssumption, EnvironmentsInv, Wake PROVE EnvironmentsInv'
<1>1. /\ up /\ UNCHANGED <<memory, disk, up, snapshots, launches>>
      /\ worker' = [worker EXCEPT !.pc = "claim"]
  BY DEF Wake, Turn, Go, Quiet, Outside
<1>2. CatalogueInv'
  BY <1>1, QuietKeeps DEF EnvironmentsInv
<1>3. WorkerInv'
  BY <1>1 DEF EnvironmentsInv, WorkerInv, Busy, Building
<1> QED
  BY <1>2, <1>3 DEF EnvironmentsInv

(* Between two steps of its own, what the worker knows stays true of what  *)
(* it goes on to.                                                          *)
LEMMA WorkerGoesOn ==
    ASSUME EnvironmentsAssumption, EnvironmentsInv, up, worker.pc \in Busy,
           UNCHANGED <<memory, disk, up, snapshots, launches>>,
           worker'.pc \in Busy \union {"asleep", "claim"},
           DOMAIN worker' = DOMAIN worker,
           worker'.verdict \in {"failed", "superseded"},
           worker'.pc \in Busy => worker'.id = worker.id,
           worker'.pc \in Building =>
              /\ worker.pc \in Building /\ worker'.recipe = worker.recipe
              /\ worker'.phase \in 1..6,
           worker'.pc # "load"
    PROVE  EnvironmentsInv'
<1>1. CatalogueInv'
  BY QuietKeeps DEF EnvironmentsInv
<1>2. WorkerInv'
  BY DEF EnvironmentsInv, WorkerInv, Busy, Building
<1> QED
  BY <1>1, <1>2 DEF EnvironmentsInv

LEMMA ClaimKeeps ==
    ASSUME EnvironmentsAssumption, EnvironmentsInv, ClaimOldestQueued
    PROVE  EnvironmentsInv'
<1> DEFINE queued == {i \in DOMAIN memory.preparations :
                         memory.preparations[i].state = "queued"}
<1>1. /\ up /\ worker.pc = "claim"
      /\ UNCHANGED <<up, snapshots, launches>>
  BY DEF ClaimOldestQueued, Turn, Outside
<1>2. CatalogueIsSound(memory) /\ memory.seeded
  BY <1>1 DEF EnvironmentsInv, CatalogueInv
<1>3. CASE worker' = Asleep /\ Quiet
  <2>1. CatalogueInv'
    BY <1>1, <1>3, QuietKeeps DEF EnvironmentsInv, Quiet
  <2>2. WorkerInv'
    BY <1>3 DEF WorkerInv, Asleep, Busy, Building
  <2> QED
    BY <2>1, <2>2 DEF EnvironmentsInv
<1>4. ASSUME NEW i \in queued,
             LET c == [memory EXCEPT !.preparations[i].state = "preparing",
                                     !.preparations[i].phase = CreatingGuest,
                                     !.preparations[i].started = TRUE]
             IN  \/ Stored(c) /\ worker' = [worker EXCEPT !.pc = "load", !.id = i]
                 \/ Unstored(c) /\ worker' = Asleep
      PROVE  EnvironmentsInv'
  <2> DEFINE p == memory.preparations[i]
             q == [p EXCEPT !.state = "preparing", !.phase = CreatingGuest,
                            !.started = TRUE]
             c == WithOne(memory, i, q)
  <2>1. /\ i \in 1..Len(memory.preparations) /\ p.state = "queued"
        /\ p \in PreparationType /\ Combination(p)
        /\ memory \in CatalogueType
    BY <1>2, <1>4, SoundParts
  <2>2. q \in PreparationType
    <3>1. \A r \in PreparationType : [r EXCEPT !.state = "preparing"] \in PreparationType
      BY DEF PreparationType, PreparationState
    <3>2. \A r \in PreparationType : \A k \in 0..7 : [r EXCEPT !.phase = k] \in PreparationType
      BY DEF PreparationType
    <3>3. \A r \in PreparationType : [r EXCEPT !.started = TRUE] \in PreparationType
      BY DEF PreparationType
    <3>4. /\ q = [[[p EXCEPT !.state = "preparing"] EXCEPT !.phase = CreatingGuest]
                     EXCEPT !.started = TRUE]
          /\ CreatingGuest \in 0..7
      BY DEF CreatingGuest
    <3> QED
      BY <2>1, <3>1, <3>2, <3>3, <3>4
  <2>3. /\ q.environment = p.environment /\ q.recipe = p.recipe /\ q.state = "preparing"
        /\ q.phase = 1 /\ q.started = TRUE /\ q.finished = p.finished
        /\ q.failure = p.failure /\ q.snapshot = p.snapshot
    BY <2>1 DEF PreparationType, CreatingGuest
  <2>4. /\ ~p.finished /\ ~p.failure /\ ~p.snapshot
    BY <2>1 DEF Combination
  <2> HIDE DEF q
  <2>5. Combination(q)
    BY <2>3, <2>4 DEF Combination, CreatingGuest, RemovingGuest
  <2>6. /\ CatalogueIsSound(c) /\ Follows(c, memory)
        /\ c.environments = memory.environments
        /\ c.preparations = [memory.preparations EXCEPT ![i] = q]
    <3>1. /\ q.environment = p.environment /\ q.recipe = p.recipe
          /\ q.state \notin {"queued", "ready"} /\ p.state # "ready"
      BY <2>1, <2>3
    <3> QED
      BY <1>2, <2>1, <2>2, <2>5, <3>1, OneIsSound
  <2>7. \/ Stored(c) /\ worker' = [worker EXCEPT !.pc = "load", !.id = i]
        \/ Unstored(c) /\ worker' = Asleep
    <3>1. c = [memory EXCEPT !.preparations[i].state = "preparing",
                             !.preparations[i].phase = CreatingGuest,
                             !.preparations[i].started = TRUE]
      BY <2>1 DEF q, CatalogueType, WithOne
    <3> QED
      BY <1>4, <3>1
  <2> HIDE DEF c
  <2>8. CatalogueInv'
    BY <1>1, <2>6, <2>7, StoreKeeps DEF EnvironmentsInv
  <2>9. CASE worker' = Asleep
    <3>1. WorkerInv'
      BY <2>9 DEF WorkerInv, Asleep, Busy, Building
    <3> QED
      BY <2>8, <3>1 DEF EnvironmentsInv
  <2>10. CASE Stored(c) /\ worker' = [worker EXCEPT !.pc = "load", !.id = i]
    <3>1. /\ worker'.pc = "load" /\ worker'.id = i /\ DOMAIN worker' = DOMAIN worker
          /\ worker'.verdict = worker.verdict
          /\ memory' = c /\ disk' = c /\ up' /\ snapshots' = snapshots
      BY <1>1, <2>10 DEF Stored, EnvironmentsInv, WorkerInv
    <3>2. c.preparations[i] = q /\ i \in 1..Len(c.preparations)
      BY <1>2, <2>1, <2>6, SoundParts
    <3>3. \A s \in snapshots : s[1] # i
      BY <1>1, <2>1 DEF EnvironmentsInv, CatalogueInv, SnapshotsAreTrue
    <3>4. WorkerInv'
      BY <2>3, <3>1, <3>2, <3>3 DEF EnvironmentsInv, WorkerInv, Busy, Building
    <3> QED
      BY <2>8, <3>4 DEF EnvironmentsInv
  <2> QED
    BY <2>7, <2>9, <2>10
<1> QED
  BY <1>3, <1>4 DEF ClaimOldestQueued

LEMMA LoadKeeps ==
    ASSUME EnvironmentsAssumption, EnvironmentsInv, LoadEnvironment
    PROVE  EnvironmentsInv'
<1> DEFINE e == memory.preparations[worker.id].environment
<1>1. /\ up /\ worker.pc = "load"
      /\ UNCHANGED <<memory, disk, up, snapshots, launches>>
  BY DEF LoadEnvironment, Turn, Outside, Quiet, Fault
<1>2. CASE worker' = [worker EXCEPT !.pc = "close", !.verdict = "failed"]
  BY <1>1, <1>2, WorkerGoesOn DEF EnvironmentsInv, WorkerInv, Busy, Building
<1>3. CASE /\ Exists(memory, e)
           /\ worker' = [worker EXCEPT !.pc = "enter", !.phase = CreatingGuest,
                                       !.recipe = memory.environments[e].recipe]
  <2>1. /\ worker'.pc = "enter" /\ worker'.id = worker.id /\ worker'.phase = 1
        /\ worker'.recipe = memory.environments[e].recipe
        /\ worker'.verdict = worker.verdict /\ DOMAIN worker' = DOMAIN worker
    BY <1>3 DEF EnvironmentsInv, WorkerInv, CreatingGuest
  <2>2. /\ Taken(worker, memory) /\ CatalogueIsSound(memory)
        /\ disk.preparations[worker.id].state # "ready"
        /\ \A s \in snapshots : s[1] # worker.id
    BY <1>1 DEF EnvironmentsInv, CatalogueInv, WorkerInv, Taken, Busy, Building
  <2>3. e \in Environment
    <3>1. memory.preparations[worker.id] \in PreparationType
      BY <2>2, SoundParts DEF Taken
    <3> QED
      BY <3>1 DEF PreparationType
  <2>4. memory.environments[e].recipe =
            memory.preparations[memory.environments[e].latest].recipe
    BY <1>3, <2>2, <2>3, SoundParts
  <2>5. WorkerInv'
    <3>1. /\ memory' = memory /\ disk' = disk /\ snapshots' = snapshots /\ up'
          /\ worker'.pc = "enter" /\ worker'.id = worker.id /\ worker'.phase \in 1..6
          /\ worker'.verdict \in {"failed", "superseded"}
          /\ DOMAIN worker' = {"pc", "id", "phase", "recipe", "verdict"}
      BY <1>1, <2>1 DEF EnvironmentsInv, WorkerInv
    <3>2. memory.environments[memory.preparations[worker.id].environment].latest
              = worker.id =>
                  worker'.recipe = memory.preparations[worker.id].recipe
      BY <2>1, <2>4
    <3> QED
      BY <2>2, <3>1, <3>2 DEF WorkerInv, Taken, Busy, Building
  <2>6. CatalogueInv'
    BY <1>1, QuietKeeps DEF EnvironmentsInv
  <2> QED
    BY <2>5, <2>6 DEF EnvironmentsInv
<1> QED
  BY <1>2, <1>3 DEF LoadEnvironment, Verdict

(* A step of the worker that changes what is stored of its preparation.    *)
LEMMA WorkerStores ==
    ASSUME EnvironmentsAssumption, EnvironmentsInv, up, worker.pc \in Busy,
           NEW c, CatalogueIsSound(c), Follows(c, memory), Stored(c) \/ Unstored(c),
           UNCHANGED <<up, snapshots, launches>>,
           worker'.pc \in Busy \union {"claim"},
           DOMAIN worker' = DOMAIN worker,
           worker'.verdict \in {"failed", "superseded"},
           worker'.id = worker.id,
           worker'.pc \in Building =>
              /\ worker.pc \in Building /\ worker'.recipe = worker.recipe
              /\ worker'.phase \in 1..6,
           worker'.pc # "load"
    PROVE  EnvironmentsInv'
<1>1. CatalogueInv'
  BY StoreKeeps DEF EnvironmentsInv
<1>2. /\ Taken(worker, memory')
      /\ worker.pc \in Building => Wanted(worker, memory')
      /\ worker.pc \in Building \union {"load"} =>
            disk'.preparations[worker.id].state # "ready"
  BY WorkFollows
<1>3. WorkerInv'
  BY <1>2 DEF EnvironmentsInv, WorkerInv, Busy, Building, Taken, Wanted
<1> QED
  BY <1>1, <1>3 DEF EnvironmentsInv

LEMMA AdvanceKeeps ==
    ASSUME EnvironmentsAssumption, EnvironmentsInv, Advance
    PROVE  EnvironmentsInv'
<1> DEFINE id == worker.id
           p == memory.preparations[id]
           q == [p EXCEPT !.phase = worker.phase]
           c == WithOne(memory, id, q)
<1>1. /\ up /\ worker.pc = "enter" /\ worker.pc \in Building /\ worker.pc \in Busy
      /\ UNCHANGED <<up, snapshots, launches>>
      /\ worker.phase \in 1..6 /\ worker.verdict \in {"failed", "superseded"}
      /\ DOMAIN worker = {"pc", "id", "phase", "recipe", "verdict"}
      /\ id \in 1..Len(memory.preparations)
      /\ CatalogueIsSound(memory) /\ memory.seeded
  BY DEF Advance, Turn, Outside, EnvironmentsInv, WorkerInv, CatalogueInv, Busy, Building
<1>2. memory \in CatalogueType /\ p \in PreparationType /\ Combination(p)
  BY <1>1, SoundParts
<1>3. CASE Verdict("discard", "failed") /\ Quiet
  <2>1. /\ UNCHANGED <<memory, disk>>
        /\ worker' = [worker EXCEPT !.pc = "discard", !.verdict = "failed"]
    BY <1>3 DEF Verdict, Quiet
  <2>2. /\ worker'.pc = "discard" /\ worker'.id = worker.id
        /\ worker'.verdict = "failed" /\ DOMAIN worker' = DOMAIN worker
    BY <1>1, <2>1
  <2> QED
    BY <1>1, <2>1, <2>2, WorkerGoesOn DEF Busy, Building
<1>4. CASE /\ p.state = "preparing"
           /\ \/ Stored(c) /\ Go(IF worker.phase = CreatingSnapshot THEN "before" ELSE "work")
              \/ Unstored(c) /\ Verdict("discard", "failed")
  <2>1. /\ q \in PreparationType /\ q.environment = p.environment
        /\ q.recipe = p.recipe /\ q.state = "preparing" /\ q.phase = worker.phase
        /\ q.started = p.started /\ q.finished = p.finished
        /\ q.failure = p.failure /\ q.snapshot = p.snapshot
    BY <1>1, <1>2, <1>4 DEF PreparationType
  <2> HIDE DEF q
  <2>2. Combination(q)
    BY <1>1, <1>2, <1>4, <2>1 DEF Combination, CreatingGuest, RemovingGuest
  <2>3. CatalogueIsSound(c) /\ Follows(c, memory)
    BY <1>1, <1>2, <1>4, <2>1, <2>2, OneIsSound
  <2>4. /\ worker'.pc \in {"before", "work", "discard"} /\ worker'.id = worker.id
        /\ worker'.phase = worker.phase /\ worker'.recipe = worker.recipe
        /\ worker'.verdict \in {"failed", "superseded"} /\ DOMAIN worker' = DOMAIN worker
    BY <1>1, <1>4 DEF Go, Verdict
  <2> HIDE DEF c
  <2> QED
    BY <1>1, <1>4, <2>3, <2>4, WorkerStores DEF Busy, Building
<1>5. c = [memory EXCEPT !.preparations[id].phase = worker.phase]
  BY <1>1, <1>2 DEF WithOne, CatalogueType
<1> QED
  BY <1>3, <1>4, <1>5 DEF Advance

LEMMA UseGuestKeeps ==
    ASSUME EnvironmentsAssumption, EnvironmentsInv,
           UseGuest \/ CheckBeforeSnapshot \/ VerifySnapshot
    PROVE  EnvironmentsInv'
<1>1. /\ up /\ worker.pc \in {"work", "before"} /\ worker.pc \in Building /\ worker.pc \in Busy
      /\ UNCHANGED <<memory, disk, up, snapshots, launches>>
      /\ worker.phase \in 1..6 /\ worker.verdict \in {"failed", "superseded"}
      /\ DOMAIN worker = {"pc", "id", "phase", "recipe", "verdict"}
  BY DEF UseGuest, CheckBeforeSnapshot, VerifySnapshot, Turn, Outside, Quiet, Fault,
         EnvironmentsInv, WorkerInv, Busy, Building
<1>2. \/ \E v \in {"failed", "superseded"} :
            worker' = [worker EXCEPT !.pc = "discard", !.verdict = v]
      \/ worker' = [worker EXCEPT !.pc = "claim"]
      \/ worker' = [worker EXCEPT !.pc = "finish"]
      \/ worker' = [worker EXCEPT !.pc = "work"]
      \/ \E k \in 1..6 : worker' = [worker EXCEPT !.pc = "enter", !.phase = k]
  <2>1. worker.phase # RemovingGuest => worker.phase + 1 \in 1..6
    BY <1>1 DEF RemovingGuest
  <2>2. RemovingGuest \in 1..6
    BY DEF RemovingGuest
  <2> QED
    BY <2>1, <2>2 DEF UseGuest, CheckBeforeSnapshot, VerifySnapshot, Rechecked, Verdict, Go
<1>3. /\ worker'.pc \in {"discard", "claim", "finish", "work", "enter"}
      /\ worker'.id = worker.id /\ worker'.recipe = worker.recipe
      /\ worker'.phase \in 1..6 /\ worker'.verdict \in {"failed", "superseded"}
      /\ DOMAIN worker' = DOMAIN worker
  BY <1>1, <1>2
<1> QED
  BY <1>1, <1>3, WorkerGoesOn DEF Busy, Building

(* A snapshot that is taken is of the recipe the worker read.              *)
LEMMA CreateSnapshotKeeps ==
    ASSUME EnvironmentsAssumption, EnvironmentsInv, CreateSnapshot
    PROVE  EnvironmentsInv'
<1>1. /\ up /\ worker.pc = "work"
      /\ UNCHANGED <<memory, disk, up, launches>>
      /\ worker.phase \in 1..6 /\ worker.verdict \in {"failed", "superseded"}
      /\ DOMAIN worker = {"pc", "id", "phase", "recipe", "verdict"}
  BY DEF CreateSnapshot, Turn, Outside, Quiet, Fault, EnvironmentsInv, WorkerInv,
         Busy, Building
<1>2. /\ Taken(worker, memory) /\ Wanted(worker, memory)
      /\ disk.preparations[worker.id].state # "ready"
      /\ \A s \in snapshots : s[1] = worker.id => s[2] = worker.recipe
  BY <1>1 DEF EnvironmentsInv, WorkerInv, Taken, Wanted, Busy, Building
<1>3. CASE snapshots' = snapshots /\ Verdict("close", "failed")
  <2>1. /\ worker'.pc = "close" /\ worker'.id = worker.id
        /\ worker'.verdict = "failed" /\ DOMAIN worker' = DOMAIN worker
    BY <1>1, <1>3 DEF Verdict
  <2> QED
    BY <1>1, <1>3, <2>1, WorkerGoesOn DEF Busy, Building
<1>4. CASE /\ snapshots' = snapshots \union {<<worker.id, worker.recipe>>}
           /\ Rechecked([worker EXCEPT !.pc = "enter", !.phase = VerifyingSnapshot])
  <2>1. /\ worker'.pc \in {"enter", "discard"} /\ worker'.id = worker.id
        /\ worker'.recipe = worker.recipe
        /\ worker'.phase \in 1..6 /\ worker'.verdict \in {"failed", "superseded"}
        /\ DOMAIN worker' = DOMAIN worker
    BY <1>1, <1>4 DEF Rechecked, VerifyingSnapshot
  <2>2. WorkerInv'
    BY <1>1, <1>2, <1>4, <2>1 DEF WorkerInv, Taken, Wanted, Busy, Building
  <2>3. /\ CatalogueIsSound(memory) /\ CatalogueIsSound(disk) /\ Keeps(disk, memory)
        /\ SnapshotsAreTrue(memory) /\ SnapshotsAreTrue(disk)
        /\ PinIsWhatItSays
    BY <1>1 DEF EnvironmentsInv, CatalogueInv
  <2>4. SnapshotsAreTrue(memory)'
    BY <1>1, <1>2, <1>4, <2>3 DEF SnapshotsAreTrue, Taken
  <2>5. SnapshotsAreTrue(disk)'
    <3>1. /\ worker.id \in 1..Len(disk.preparations)
          /\ disk.preparations[worker.id].state # "queued"
      <4>1. Len(memory.preparations) \in Nat /\ Len(disk.preparations) \in Nat
        BY <2>3, SoundParts
      <4> QED
        BY <1>2, <2>3, <4>1 DEF Keeps, Taken
    <3> QED
      BY <1>1, <1>2, <1>4, <2>3, <3>1 DEF SnapshotsAreTrue
  <2>6. PinIsWhatItSays'
    BY <1>1, <1>4, <2>3 DEF PinIsWhatItSays, launches
  <2>7. CatalogueIsSound(memory)' /\ CatalogueIsSound(disk)'
    BY <1>1, <2>3 DEF CatalogueIsSound, Exists, Loads, PreparationLoads,
       EnvironmentLoads
  <2>8. CatalogueInv'
    BY <1>1, <2>4, <2>5, <2>6, <2>7 DEF EnvironmentsInv, CatalogueInv, PinsArePublished,
       Keeps, launches
  <2> QED
    BY <2>2, <2>8 DEF EnvironmentsInv
<1> QED
  BY <1>3, <1>4 DEF CreateSnapshot

LEMMA DiscardKeeps ==
    ASSUME EnvironmentsAssumption, EnvironmentsInv, Discard
    PROVE  EnvironmentsInv'
<1>1. /\ up /\ worker.pc = "discard"
      /\ UNCHANGED <<memory, disk, up, launches>>
      /\ worker.verdict \in {"failed", "superseded"}
      /\ DOMAIN worker = {"pc", "id", "phase", "recipe", "verdict"}
  BY DEF Discard, Turn, Outside, Quiet, Fault, EnvironmentsInv, WorkerInv
<1>2. /\ worker'.pc = "close" /\ worker'.id = worker.id
      /\ worker'.verdict \in {"failed", "superseded"} /\ DOMAIN worker' = DOMAIN worker
  BY <1>1 DEF Discard, Go, Verdict
<1>3. CASE snapshots' = snapshots
  BY <1>1, <1>2, <1>3, WorkerGoesOn DEF Busy, Building
<1>4. CASE RemoveUnpublished
  <2>1. snapshots' = {s \in snapshots : s[1] # worker.id}
    BY <1>4 DEF RemoveUnpublished
  <2>2. Taken(worker, memory)
    BY <1>1 DEF EnvironmentsInv, WorkerInv, Taken, Busy
  <2>3. WorkerInv'
    BY <1>1, <1>2, <2>1, <2>2 DEF WorkerInv, Taken, Busy, Building
  <2>4. /\ CatalogueIsSound(memory) /\ CatalogueIsSound(disk)
        /\ PinsArePublished(memory) /\ PinIsWhatItSays
    BY <1>1 DEF EnvironmentsInv, CatalogueInv
  <2>5. PinIsWhatItSays'
    <3>1. \A pin \in pins : pin.id # worker.id
      BY <2>2, <2>4 DEF PinsArePublished, Taken
    <3> QED
      BY <1>1, <2>1, <2>4, <3>1 DEF PinIsWhatItSays, launches
  <2>6. CatalogueIsSound(memory)' /\ CatalogueIsSound(disk)'
    BY <1>1, <2>4 DEF CatalogueIsSound, Exists, Loads, PreparationLoads,
       EnvironmentLoads
  <2>7. CatalogueInv'
    BY <1>1, <2>1, <2>5, <2>6 DEF EnvironmentsInv, CatalogueInv, PinsArePublished,
       SnapshotsAreTrue, Keeps, launches
  <2> QED
    BY <2>3, <2>7 DEF EnvironmentsInv
<1> QED
  BY <1>3, <1>4 DEF Discard

LEMMA CloseKeeps ==
    ASSUME EnvironmentsAssumption, EnvironmentsInv, Close
    PROVE  EnvironmentsInv'
<1> DEFINE id == worker.id
           p == memory.preparations[id]
           failed == worker.verdict = "failed"
           q == [p EXCEPT !.state = worker.verdict, !.finished = TRUE,
                          !.phase = IF failed THEN @ ELSE Finished,
                          !.failure = failed, !.snapshot = FALSE]
           c == WithOne(memory, id, q)
<1>1. /\ up /\ worker.pc = "close" /\ worker.pc \in Busy
      /\ UNCHANGED <<up, snapshots, launches>>
      /\ worker.verdict \in {"failed", "superseded"}
      /\ DOMAIN worker = {"pc", "id", "phase", "recipe", "verdict"}
      /\ id \in 1..Len(memory.preparations)
      /\ p.state \notin {"queued", "ready"}
      /\ CatalogueIsSound(memory) /\ memory.seeded
      /\ worker' = [worker EXCEPT !.pc = "claim"]
  BY DEF Close, Turn, Go, Outside, EnvironmentsInv, WorkerInv, CatalogueInv, Busy
<1>2. memory \in CatalogueType /\ p \in PreparationType /\ Combination(p)
  BY <1>1, SoundParts
<1>3. /\ worker'.pc = "claim" /\ worker'.id = worker.id
      /\ worker'.verdict \in {"failed", "superseded"} /\ DOMAIN worker' = DOMAIN worker
  BY <1>1
<1>4. CASE Quiet
  BY <1>1, <1>3, <1>4, WorkerGoesOn DEF Quiet, Busy, Building
<1>5. CASE p.state = "preparing" /\ (Stored(c) \/ Unstored(c))
  <2>1. q \in PreparationType
    <3>1. \A r \in PreparationType : [r EXCEPT !.state = worker.verdict] \in PreparationType
      <4>1. \A r \in PreparationType : \A v \in PreparationState :
                [r EXCEPT !.state = v] \in PreparationType
        BY DEF PreparationType
      <4> QED
        BY <1>1, <4>1 DEF PreparationState
    <3>2. \A r \in PreparationType : \A k \in 0..7 : [r EXCEPT !.phase = k] \in PreparationType
      BY DEF PreparationType
    <3>3. \A r \in PreparationType : [r EXCEPT !.finished = TRUE] \in PreparationType
      BY DEF PreparationType
    <3>4. \A r \in PreparationType : \A b \in BOOLEAN :
              [r EXCEPT !.failure = b] \in PreparationType
      BY DEF PreparationType
    <3>5. \A r \in PreparationType : [r EXCEPT !.snapshot = FALSE] \in PreparationType
      BY DEF PreparationType
    <3>6. q = [[[[[p EXCEPT !.state = worker.verdict] EXCEPT !.finished = TRUE]
                    EXCEPT !.phase = IF failed THEN p.phase ELSE Finished]
                    EXCEPT !.failure = failed] EXCEPT !.snapshot = FALSE]
      OBVIOUS
    <3>7. (IF failed THEN p.phase ELSE Finished) \in 0..7 /\ failed \in BOOLEAN
      BY <1>2 DEF PreparationType, Finished
    <3> QED
      BY <1>2, <3>1, <3>2, <3>3, <3>4, <3>5, <3>6, <3>7
  <2>2. /\ q.environment = p.environment /\ q.recipe = p.recipe
        /\ q.state = worker.verdict /\ q.started = p.started
        /\ q.finished = TRUE /\ q.snapshot = FALSE
        /\ failed => q.phase = p.phase
        /\ failed => q.failure = TRUE
        /\ ~failed => q.failure = FALSE
    BY <1>2 DEF PreparationType
  <2>3. p.started /\ p.phase \in 1..6
    BY <1>2, <1>5 DEF Combination, CreatingGuest, RemovingGuest
  <2> HIDE DEF q
  <2>4. Combination(q)
    <3>1. CASE worker.verdict = "failed"
      <4>1. /\ q.state = "failed" /\ q.phase \in 1..6 /\ q.started = p.started
            /\ q.finished = TRUE /\ q.snapshot = FALSE /\ q.failure = TRUE
        BY <2>2, <2>3, <3>1
      <4> QED
        BY <2>3, <4>1 DEF Combination, Waiting
    <3>2. CASE worker.verdict = "superseded"
      <4>1. /\ q.state = "superseded"
            /\ q.finished = TRUE /\ q.snapshot = FALSE /\ q.failure = FALSE
        BY <2>2, <3>2
      <4> QED
        BY <4>1 DEF Combination
    <3> QED
      BY <1>1, <3>1, <3>2
  <2>5. q.state \notin {"queued", "ready"}
    BY <1>1, <2>2
  <2>6. CatalogueIsSound(c) /\ Follows(c, memory)
    BY <1>1, <1>2, <2>1, <2>2, <2>4, <2>5, OneIsSound
  <2> HIDE DEF c
  <2> QED
    BY <1>1, <1>3, <1>5, <2>6, WorkerStores DEF Busy, Building
<1>6. c = [memory EXCEPT !.preparations[id] = q]
  BY <1>1, <1>2 DEF WithOne, CatalogueType
<1>7. (p.state = "preparing" \/ (~failed /\ Active(p))) => p.state = "preparing"
  BY <1>1 DEF Active
<1> QED
  BY <1>4, <1>5, <1>6, <1>7 DEF Close

(* What is published is what the worker built: it is still the latest      *)
(* request, and so the recipe that was read is the one that was asked for. *)
LEMMA FinishReadyKeeps ==
    ASSUME EnvironmentsAssumption, EnvironmentsInv, FinishReady
    PROVE  EnvironmentsInv'
<1> DEFINE id == worker.id
           m == memory
           p == m.preparations[id]
           q == [p EXCEPT !.state = "ready", !.phase = Finished, !.finished = TRUE,
                          !.snapshot = TRUE]
           e == p.environment
           R == [m.environments[e] EXCEPT !.ready = id]
           P == [m.preparations EXCEPT ![id] = q]
           E == [m.environments EXCEPT ![e] = R]
           c == [m EXCEPT !.preparations = P, !.environments = E]
<1>1. /\ up /\ worker.pc = "finish" /\ worker.pc \in Busy /\ worker.pc \in Building
      /\ UNCHANGED <<up, snapshots, launches>>
      /\ worker.verdict \in {"failed", "superseded"}
      /\ DOMAIN worker = {"pc", "id", "phase", "recipe", "verdict"}
  BY DEF FinishReady, Turn, Outside, EnvironmentsInv, WorkerInv, Busy, Building
<1>2. /\ CatalogueIsSound(m) /\ m.seeded /\ SnapshotsAreTrue(m) /\ PinsArePublished(m)
      /\ Taken(worker, m) /\ Wanted(worker, m)
      /\ \A s \in snapshots : s[1] = id => s[2] = worker.recipe
  BY <1>1 DEF EnvironmentsInv, CatalogueInv, WorkerInv, Taken, Wanted
<1>3. /\ id \in 1..Len(m.preparations) /\ Len(m.preparations) \in Nat
      /\ m \in CatalogueType /\ p \in PreparationType /\ Combination(p)
      /\ m.environments \in [Environment -> EnvironmentType]
      /\ m.preparations \in Seq(PreparationType)
      /\ DOMAIN m.preparations = 1..Len(m.preparations)
  BY <1>2, SoundParts DEF Taken
<1>4. e \in Environment /\ m.environments[e] \in EnvironmentType
  BY <1>3 DEF PreparationType
<1>5. CASE Verdict("discard", IF Current THEN "failed" ELSE "superseded") /\ Quiet
  <2>1. /\ UNCHANGED <<memory, disk>>
        /\ worker'.pc = "discard" /\ worker'.id = worker.id
        /\ worker'.verdict \in {"failed", "superseded"} /\ DOMAIN worker' = DOMAIN worker
    BY <1>1, <1>5 DEF Verdict, Quiet
  <2> QED
    BY <1>1, <2>1, WorkerGoesOn DEF Busy, Building
<1>6. CASE /\ p.state = "preparing" /\ Current
           /\ \/ Stored(c) /\ Go("claim")
              \/ Unstored(c) /\ Verdict("discard", "failed")
  <2>1. q \in PreparationType
    <3>1. \A r \in PreparationType : [r EXCEPT !.state = "ready"] \in PreparationType
      BY DEF PreparationType, PreparationState
    <3>2. \A r \in PreparationType : \A k \in 0..7 : [r EXCEPT !.phase = k] \in PreparationType
      BY DEF PreparationType
    <3>3. \A r \in PreparationType : [r EXCEPT !.finished = TRUE] \in PreparationType
      BY DEF PreparationType
    <3>4. \A r \in PreparationType : [r EXCEPT !.snapshot = TRUE] \in PreparationType
      BY DEF PreparationType
    <3>5. q = [[[[p EXCEPT !.state = "ready"] EXCEPT !.phase = Finished]
                    EXCEPT !.finished = TRUE] EXCEPT !.snapshot = TRUE]
      OBVIOUS
    <3>6. Finished \in 0..7
      BY DEF Finished
    <3> QED
      BY <1>3, <3>1, <3>2, <3>3, <3>4, <3>5, <3>6
  <2>2. /\ q.environment = e /\ q.recipe = p.recipe /\ q.state = "ready"
        /\ q.phase = 7 /\ q.started = p.started /\ q.finished = TRUE
        /\ q.failure = p.failure /\ q.snapshot = TRUE
    BY <1>3 DEF PreparationType, Finished
  <2>3. /\ R \in EnvironmentType /\ R.revision = m.environments[e].revision
        /\ R.recipe = m.environments[e].recipe /\ R.latest = m.environments[e].latest
        /\ R.ready = id
    <3>1. \A r \in EnvironmentType : \A k \in Nat :
              /\ [r EXCEPT !.ready = k] \in EnvironmentType
              /\ [r EXCEPT !.ready = k].revision = r.revision
              /\ [r EXCEPT !.ready = k].recipe = r.recipe
              /\ [r EXCEPT !.ready = k].latest = r.latest
              /\ [r EXCEPT !.ready = k].ready = k
      BY DEF EnvironmentType
    <3> QED
      BY <1>3, <1>4, <3>1
  <2>4. /\ m.environments[e].revision > 0 /\ m.environments[e].latest = id
        /\ m.environments[e].recipe = p.recipe /\ worker.recipe = p.recipe
    BY <1>2, <1>6 DEF Current, ActivationAllowed, Wanted
  <2> HIDE DEF q, R
  <2>5. Combination(q)
    <3>1. p.started /\ ~p.failure
      BY <1>3, <1>6 DEF Combination
    <3> QED
      BY <2>2, <3>1 DEF Combination, Finished
  <2>6. /\ P \in Seq(PreparationType) /\ Len(P) = Len(m.preparations)
        /\ P[id] = q /\ \A i \in 1..Len(m.preparations) : i # id => P[i] = m.preparations[i]
    BY <1>3, <2>1
  <2>7. /\ E \in [Environment -> EnvironmentType] /\ E[e] = R
        /\ \A x \in Environment : x # e => E[x] = m.environments[x]
    BY <1>3, <1>4, <2>3
  <2>8. /\ c \in CatalogueType /\ c.preparations = P /\ c.environments = E
        /\ c.retired = m.retired /\ c.seeded = m.seeded
    <3> HIDE DEF P, E
    <3> QED
      BY <1>3, <2>6, <2>7 DEF CatalogueType
  <2> HIDE DEF P, E, c
  <2>9. \A x \in Environment : Exists(c, x) <=> Exists(m, x)
    BY <1>4, <2>3, <2>7, <2>8 DEF Exists
  <2>10. {x \in Environment : Exists(c, x)} = {x \in Environment : Exists(m, x)}
    BY <2>9
  <2>11. /\ Len(c.preparations) = Len(m.preparations)
         /\ DOMAIN c.preparations = 1..Len(m.preparations)
    BY <1>3, <2>6, <2>8
  <2>12. ASSUME NEW i \in 1..Len(m.preparations)
         PROVE  PreparationLoads(c, i)
    <3>1. /\ c.preparations[i] \in PreparationType
          /\ Combination(c.preparations[i])
      BY <1>2, <2>1, <2>5, <2>6, <2>8, SoundParts
    <3> QED
      BY <3>1 DEF PreparationLoads, PreparationType, Waiting, Finished
  <2>13. ASSUME NEW x \in Environment, Exists(c, x)
         PROVE  EnvironmentLoads(c, x)
                /\ c.environments[x].recipe = c.preparations[c.environments[x].latest].recipe
    <3>1. Exists(m, x)
      BY <2>9, <2>13
    <3>2. /\ x \notin m.retired
          /\ m.environments[x].latest \in 1..Len(m.preparations)
          /\ m.preparations[m.environments[x].latest].environment = x
          /\ m.environments[x].recipe = m.preparations[m.environments[x].latest].recipe
          /\ m.environments[x].ready # 0 =>
                /\ m.environments[x].ready \in 1..Len(m.preparations)
                /\ m.preparations[m.environments[x].ready].environment = x
                /\ m.preparations[m.environments[x].ready].state = "ready"
      BY <1>2, <1>3, <3>1, SoundParts DEF EnvironmentLoads
    <3>3. \A i \in 1..Len(m.preparations) :
              /\ c.preparations[i].environment = m.preparations[i].environment
              /\ c.preparations[i].recipe = m.preparations[i].recipe
              /\ m.preparations[i].state = "ready" => c.preparations[i].state = "ready"
      BY <2>2, <2>6, <2>8
    <3>4. /\ c.environments[x].latest = m.environments[x].latest
          /\ c.environments[x].recipe = m.environments[x].recipe
          /\ \/ c.environments[x].ready = m.environments[x].ready
             \/ x = e /\ c.environments[x].ready = id
      BY <2>3, <2>7, <2>8
    <3>5. c.preparations[id].environment = e /\ c.preparations[id].state = "ready"
      BY <1>3, <2>2, <2>6, <2>8
    <3> QED
      BY <1>3, <2>8, <2>11, <3>2, <3>3, <3>4, <3>5 DEF EnvironmentLoads
  <2>14. Loads(c)
    <3>1. /\ Cardinality({x \in Environment : Exists(m, x)}) <= MaxEnvironments
          /\ Len(m.preparations) <= MaxPreparations
          /\ m.seeded => Exists(m, Seed) \/ Seed \in m.retired
      BY <1>2 DEF CatalogueIsSound, Loads
    <3>2. Cardinality({x \in Environment : Exists(c, x)}) <= MaxEnvironments
      BY <2>10, <3>1
    <3>3. \A i \in DOMAIN c.preparations : PreparationLoads(c, i)
      BY <2>11, <2>12
    <3>4. \A x \in Environment : Exists(c, x) => EnvironmentLoads(c, x)
      BY <2>13
    <3>5. c.seeded => Exists(c, Seed) \/ Seed \in c.retired
      BY <1>2, <2>8, <2>9, <3>1 DEF EnvironmentsAssumption
    <3> QED
      BY <2>11, <3>1, <3>2, <3>3, <3>4, <3>5 DEF Loads
  <2>15. CatalogueIsSound(c)
    BY <1>2, <2>8, <2>10, <2>13, <2>14 DEF CatalogueIsSound
  <2>16. Keeps(c, m) /\ Keeps(c, c) /\ c.seeded
    <3>1. Keeps(c, m)
      BY <1>3, <2>2, <2>6, <2>8, <2>11 DEF Keeps
    <3>2. Keeps(c, c)
      BY <1>3, <2>11 DEF Keeps
    <3>3. c.seeded
      BY <1>2, <2>8
    <3> QED
      BY <3>1, <3>2, <3>3
  <2>17. SnapshotsAreTrue(c)
    BY <1>2, <1>3, <2>2, <2>4, <2>6, <2>8, <2>11 DEF SnapshotsAreTrue
  <2>18. PinsArePublished(c)
    BY <1>2, <1>3, <2>2, <2>6, <2>8, <2>11 DEF PinsArePublished
  <2>19. /\ memory' = memory \/ (memory' = c /\ disk' = c)
         /\ memory' \in {memory, c} /\ disk' \in {disk, c}
         /\ snapshots' = snapshots /\ pins' = pins /\ launch' = launch /\ up' = up
    BY <1>1, <1>6 DEF Stored, Unstored, launches
  <2>20. CatalogueInv'
    <3>1. CatalogueIsSound(memory') /\ CatalogueIsSound(disk')
      BY <1>1, <2>15, <2>19 DEF EnvironmentsInv, CatalogueInv
    <3>2. CatalogueIsSound(memory)' /\ CatalogueIsSound(disk)'
      BY <3>1 DEF CatalogueIsSound, Exists, Loads, PreparationLoads, EnvironmentLoads
    <3>3. /\ SnapshotsAreTrue(memory)' /\ SnapshotsAreTrue(disk)'
          /\ PinsArePublished(memory)' /\ PinsArePublished(disk)'
      BY <1>1, <2>17, <2>18, <2>19 DEF EnvironmentsInv, CatalogueInv, SnapshotsAreTrue,
         PinsArePublished
    <3>4. Keeps(disk, memory)' /\ memory'.seeded
      BY <1>1, <2>16, <2>19 DEF EnvironmentsInv, CatalogueInv, Keeps
    <3>5. PinIsWhatItSays' /\ (launch' # NoLaunch =>
              up' /\ launch'.environment \in Environment /\ launch'.id # 0)
      BY <1>1, <2>19 DEF EnvironmentsInv, CatalogueInv, PinIsWhatItSays
    <3> QED
      BY <1>1, <2>19, <3>2, <3>3, <3>4, <3>5 DEF CatalogueInv
  <2>21. WorkerInv'
    <3>1. /\ worker'.pc \in {"claim", "discard"} /\ worker'.id = id
          /\ worker'.verdict \in {"failed", "superseded"}
          /\ DOMAIN worker' = {"pc", "id", "phase", "recipe", "verdict"}
      BY <1>1, <1>6 DEF Go, Verdict
    <3>2. worker'.pc = "discard" => memory' = memory
      BY <1>1, <1>6 DEF Go, Verdict, Unstored
    <3> QED
      BY <1>1, <1>2, <2>19, <3>1, <3>2 DEF WorkerInv, Taken, Busy, Building
  <2> QED
    BY <2>20, <2>21 DEF EnvironmentsInv
<1>7. c = [memory EXCEPT !.preparations[id].state = "ready",
                         !.preparations[id].phase = Finished,
                         !.preparations[id].finished = TRUE,
                         !.preparations[id].snapshot = TRUE,
                         !.environments[e].ready = id]
  BY <1>3 DEF CatalogueType
<1> QED
  BY <1>5, <1>6, <1>7 DEF FinishReady

-----------------------------------------------------------------------------
(* A launch, a crash and a start.                                          *)
LEMMA PointerKeeps ==
    ASSUME EnvironmentsAssumption, EnvironmentsInv, NEW e \in Environment,
           CopyReadyPointer(e)
    PROVE  EnvironmentsInv'
<1>1. /\ up /\ Ready(e) # 0
      /\ launch' = [environment |-> e, id |-> Ready(e)]
      /\ UNCHANGED <<memory, disk, up, worker, snapshots, pins>>
  BY DEF CopyReadyPointer
<1>2. CatalogueIsSound(memory) /\ CatalogueIsSound(disk)
  BY DEF EnvironmentsInv, CatalogueInv
<1>3. CatalogueIsSound(memory)' /\ CatalogueIsSound(disk)'
  BY <1>1, <1>2 DEF CatalogueIsSound, Exists, Loads, PreparationLoads, EnvironmentLoads
<1>4. launch'.environment \in Environment /\ launch'.id # 0
  BY <1>1
<1>5. CatalogueInv'
  BY <1>1, <1>3, <1>4 DEF EnvironmentsInv, CatalogueInv, PinsArePublished,
     SnapshotsAreTrue, Keeps, PinIsWhatItSays
<1>6. WorkerInv'
  BY <1>1 DEF EnvironmentsInv, WorkerInv, Busy, Building
<1> QED
  BY <1>5, <1>6 DEF EnvironmentsInv

(* The pointer still names what was copied, so it is published, and its    *)
(* snapshot was built from the recipe that is pinned.                      *)
LEMMA MatchKeeps ==
    ASSUME EnvironmentsAssumption, EnvironmentsInv, MatchPointer
    PROVE  EnvironmentsInv'
<1> DEFINE id == launch.id
           pin == [id |-> id, recipe |-> memory.preparations[id].recipe]
<1>1. /\ up /\ launch # NoLaunch /\ launch' = NoLaunch
      /\ UNCHANGED <<memory, disk, up, worker, snapshots>>
  BY DEF MatchPointer
<1>2. /\ CatalogueIsSound(memory) /\ CatalogueIsSound(disk) /\ Keeps(disk, memory)
      /\ SnapshotsAreTrue(memory) /\ PinIsWhatItSays
      /\ PinsArePublished(memory) /\ PinsArePublished(disk)
      /\ launch.environment \in Environment /\ id # 0
  BY <1>1 DEF EnvironmentsInv, CatalogueInv
<1>3. CatalogueIsSound(memory)' /\ CatalogueIsSound(disk)'
  BY <1>1, <1>2 DEF CatalogueIsSound, Exists, Loads, PreparationLoads, EnvironmentLoads
<1>4. /\ PinsArePublished(memory)' /\ PinsArePublished(disk)' /\ PinIsWhatItSays'
  <2>1. CASE pins' = pins
    BY <1>1, <1>2, <2>1 DEF PinsArePublished, PinIsWhatItSays
  <2>2. CASE /\ \E s \in snapshots : s[1] = id
             /\ Ready(launch.environment) = id
             /\ pins' = {pin}
    <3>1. /\ Exists(memory, launch.environment)
          /\ memory.environments[launch.environment].ready = id
      BY <1>2, <2>2 DEF Ready
    <3>2. id \in 1..Len(memory.preparations) /\ memory.preparations[id].state = "ready"
      BY <1>2, <3>1, SoundParts DEF EnvironmentLoads
    <3>3. id \in 1..Len(disk.preparations) /\ disk.preparations[id].state = "ready"
      <4>1. Len(memory.preparations) \in Nat /\ Len(disk.preparations) \in Nat
        BY <1>2, SoundParts
      <4> QED
        BY <1>2, <3>2, <4>1 DEF Keeps
    <3>4. \E s \in snapshots : s[1] = pin.id /\ s[2] = pin.recipe
      BY <1>2, <2>2, <3>2 DEF SnapshotsAreTrue
    <3> QED
      BY <1>1, <2>2, <3>2, <3>3, <3>4 DEF PinsArePublished, PinIsWhatItSays
  <2> QED
    BY <2>1, <2>2 DEF MatchPointer
<1>5. CatalogueInv'
  BY <1>1, <1>3, <1>4 DEF EnvironmentsInv, CatalogueInv, SnapshotsAreTrue, Keeps
<1>6. WorkerInv'
  BY <1>1 DEF EnvironmentsInv, WorkerInv, Busy, Building
<1> QED
  BY <1>5, <1>6 DEF EnvironmentsInv

LEMMA CrashKeeps ==
    ASSUME EnvironmentsAssumption, EnvironmentsInv, Crash
    PROVE  EnvironmentsInv'
<1>1. /\ up' = FALSE /\ memory' = Empty /\ worker' = Asleep /\ launch' = NoLaunch
      /\ UNCHANGED <<disk, snapshots, pins>>
  BY DEF Crash
<1>2. CatalogueIsSound(memory') /\ CatalogueIsSound(disk')
  BY <1>1, EmptyIsSound DEF EnvironmentsInv, CatalogueInv
<1>3. CatalogueIsSound(memory)' /\ CatalogueIsSound(disk)'
  BY <1>2 DEF CatalogueIsSound, Exists, Loads, PreparationLoads, EnvironmentLoads
<1>4. CatalogueInv'
  BY <1>1, <1>3 DEF EnvironmentsInv, CatalogueInv, SnapshotsAreTrue, PinsArePublished,
     PinIsWhatItSays
<1>5. WorkerInv'
  BY <1>1 DEF WorkerInv, Asleep, Busy, Building
<1> QED
  BY <1>4, <1>5 DEF EnvironmentsInv

LEMMA InterruptIsSound ==
    ASSUME EnvironmentsAssumption, NEW m, CatalogueIsSound(m), m.seeded
    PROVE  LET c == [m EXCEPT !.preparations =
                        [i \in DOMAIN m.preparations |-> Interrupt(m.preparations[i])]]
           IN  CatalogueIsSound(c) /\ Follows(c, m)
<1> DEFINE n == Len(m.preparations)
           P == [i \in 1..n |-> Interrupt(m.preparations[i])]
<1>1. /\ m.preparations \in Seq(PreparationType) /\ n \in Nat
      /\ DOMAIN m.preparations = 1..n
  BY SoundParts
<1>2. ASSUME NEW i \in 1..n
      PROVE  /\ P[i] \in PreparationType
             /\ P[i].environment = m.preparations[i].environment
             /\ P[i].recipe = m.preparations[i].recipe
             /\ Combination(P[i])
             /\ m.preparations[i].state # "queued" => P[i].state # "queued"
             /\ P[i].state = "ready" <=> m.preparations[i].state = "ready"
  <2> DEFINE p == m.preparations[i]
  <2>1. p \in PreparationType /\ Combination(p)
    BY SoundParts
  <2>2. CASE p.state = "preparing"
    <3> DEFINE q == [p EXCEPT !.state = "interrupted", !.finished = TRUE,
                              !.failure = TRUE, !.snapshot = FALSE]
    <3>1. P[i] = q
      BY <2>2 DEF Interrupt
    <3>2. q \in PreparationType
      <4>1. \A r \in PreparationType :
                [r EXCEPT !.state = "interrupted"] \in PreparationType
        BY DEF PreparationType, PreparationState
      <4>2. \A r \in PreparationType :
                [r EXCEPT !.finished = TRUE, !.failure = TRUE] \in PreparationType
        BY DEF PreparationType
      <4>3. \A r \in PreparationType :
                [r EXCEPT !.snapshot = FALSE] \in PreparationType
        BY DEF PreparationType
      <4>4. q = [[[p EXCEPT !.state = "interrupted"]
                     EXCEPT !.finished = TRUE, !.failure = TRUE] EXCEPT !.snapshot = FALSE]
        OBVIOUS
      <4> QED
        BY <2>1, <4>1, <4>2, <4>3, <4>4
    <3>3. /\ q.environment = p.environment /\ q.recipe = p.recipe
          /\ q.state = "interrupted" /\ q.started = p.started /\ q.phase = p.phase
          /\ q.finished = TRUE /\ q.failure = TRUE /\ q.snapshot = FALSE
      BY <2>1 DEF PreparationType
    <3>4. p.started /\ p.phase \in 1..6
      BY <2>1, <2>2 DEF Combination, CreatingGuest, RemovingGuest
    <3> HIDE DEF q, P, p
    <3>5. Combination(q)
      BY <3>3, <3>4 DEF Combination, Waiting
    <3> QED
      BY <2>2, <3>1, <3>2, <3>3, <3>5 DEF p
  <2>3. CASE p.state # "preparing"
    <3>1. P[i] = p
      BY <2>3 DEF Interrupt
    <3> QED
      BY <2>1, <3>1
  <2> QED
    BY <2>2, <2>3
<1>3. P \in Seq(PreparationType) /\ Len(P) = n
  <2>1. P \in [1..n -> PreparationType]
    BY <1>2
  <2> HIDE DEF P
  <2> QED
    BY <1>1, <2>1
<1>4. P = [i \in DOMAIN m.preparations |-> Interrupt(m.preparations[i])]
  BY <1>1
<1> HIDE DEF P
<1>5. Reworked(P, m.preparations)
  BY <1>2, <1>3 DEF Reworked
<1>6. /\ CatalogueIsSound([m EXCEPT !.preparations = P])
      /\ Follows([m EXCEPT !.preparations = P], m)
  BY <1>5, ReworkIsSound
<1> QED
  BY <1>4, <1>6

LEMMA OpenedIsSound ==
    ASSUME EnvironmentsAssumption, CatalogueIsSound(disk)
    PROVE  CatalogueIsSound(Opened) /\ Follows(Opened, disk) /\ Opened.seeded
<1> DEFINE r == CHOOSE x \in Recipe : TRUE
           seeded == IF disk.seeded THEN disk
                     ELSE [AddEnvironment(disk, Seed, r) EXCEPT !.seeded = TRUE]
           o == [seeded EXCEPT !.preparations =
                    [i \in DOMAIN seeded.preparations |-> Interrupt(seeded.preparations[i])]]
<1>1. CatalogueIsSound(seeded) /\ Follows(seeded, disk) /\ seeded.seeded
  <2>1. CASE disk.seeded
    <3>1. seeded = disk
      BY <2>1
    <3> QED
      BY <2>1, <3>1, FollowsIsReflexive
  <2>2. CASE ~disk.seeded
    <3> DEFINE d == [AddEnvironment(disk, Seed, r) EXCEPT !.seeded = TRUE]
    <3>1. seeded = d
      BY <2>2
    <3>2. disk = Empty /\ r \in Recipe /\ Seed \in Environment
      BY <2>2 DEF CatalogueIsSound, EnvironmentsAssumption
    <3>3. /\ ~Exists(disk, Seed) /\ Seed \notin disk.retired
          /\ Len(disk.preparations) < MaxPreparations
      BY <3>2 DEF Empty, NoRecord, Exists, EnvironmentsAssumption
    <3>4. Cardinality({x \in Environment : Exists(disk, x)}) < MaxEnvironments
      <4>1. {x \in Environment : Exists(disk, x)} = {}
        BY <3>2 DEF Empty, NoRecord, Exists
      <4>2. Cardinality({x \in Environment : Exists(disk, x)}) = 0
        BY <4>1, FS_EmptySet
      <4> QED
        BY <4>2 DEF EnvironmentsAssumption
    <3> HIDE DEF r
    <3>5. PICK x \in Recipe : x = r
      BY <3>2
    <3>6. PICK y : y = [AddEnvironment(disk, Seed, x) EXCEPT !.seeded = TRUE]
      OBVIOUS
    <3>7. CatalogueIsSound(y) /\ Follows(y, disk)
      BY <3>2, <3>3, <3>4, <3>6, AddIsSound
    <3>8. y.seeded
      <4>1. disk \in CatalogueType
        BY DEF CatalogueIsSound
      <4>2. y.seeded = TRUE
        BY <3>6, <4>1 DEF AddEnvironment, CatalogueType
      <4> QED
        BY <4>2
    <3>9. y = seeded
      BY <3>1, <3>5, <3>6
    <3> HIDE DEF seeded
    <3> QED
      BY <3>7, <3>8, <3>9
  <2> QED
    BY <2>1, <2>2
<1>2. Opened = o
  BY DEF Opened
<1> HIDE DEF seeded
<1>3. CatalogueIsSound(o) /\ Follows(o, seeded)
  BY <1>1, InterruptIsSound
<1>4. o.seeded
  <2>1. seeded \in CatalogueType
    BY <1>1 DEF CatalogueIsSound
  <2>2. o.seeded = seeded.seeded
    BY <2>1 DEF CatalogueType
  <2> QED
    BY <1>1, <2>2
<1> HIDE DEF o
<1>5. Len(o.preparations) \in Nat /\ Len(seeded.preparations) \in Nat
      /\ Len(disk.preparations) \in Nat
  BY <1>1, <1>3, SoundParts
<1>6. Follows(o, disk)
  BY <1>1, <1>3, <1>5, FollowsIsTransitive
<1> QED
  BY <1>2, <1>3, <1>4, <1>6

LEMMA StartKeeps ==
    ASSUME EnvironmentsAssumption, EnvironmentsInv, Start
    PROVE  EnvironmentsInv'
<1>1. ~up /\ UNCHANGED <<worker, snapshots, launches>>
  BY DEF Start
<1>2. /\ CatalogueIsSound(disk) /\ SnapshotsAreTrue(disk) /\ PinsArePublished(disk)
      /\ CatalogueIsSound(memory) /\ memory = Empty /\ launch = NoLaunch
      /\ PinIsWhatItSays /\ ~up
  BY DEF Start, EnvironmentsInv, CatalogueInv
<1> DEFINE c == Opened
<1>3. CatalogueIsSound(c) /\ Follows(c, disk) /\ c.seeded
  BY <1>2, OpenedIsSound
<1>4. SnapshotsAreTrue(c) /\ PinsArePublished(c) /\ Keeps(c, c)
  <2>1. Follows(c, c)
    BY <1>3, FollowsIsReflexive
  <2> QED
    BY <1>2, <1>3, <2>1, TruthFollows DEF Follows
<1>5. \/ memory' = c /\ disk' = c /\ up' = TRUE
      \/ memory' = memory /\ disk' \in {disk, c} /\ up' = up
  BY DEF Start, Stored, Unstored
<1> HIDE DEF c
<1>6. CatalogueIsSound(memory') /\ CatalogueIsSound(disk')
  BY <1>2, <1>3, <1>5
<1>7. CatalogueIsSound(memory)' /\ CatalogueIsSound(disk)'
  BY <1>6 DEF CatalogueIsSound, Exists, Loads, PreparationLoads, EnvironmentLoads
<1>8. SnapshotsAreTrue(disk)' /\ PinsArePublished(disk)' /\ PinIsWhatItSays'
  BY <1>1, <1>2, <1>4, <1>5 DEF SnapshotsAreTrue, PinsArePublished, PinIsWhatItSays,
     launches
<1>9. up' => /\ memory'.seeded /\ Keeps(disk, memory)'
             /\ SnapshotsAreTrue(memory)' /\ PinsArePublished(memory)'
  <2>1. ASSUME up'
        PROVE  memory' = c /\ disk' = c
    BY <1>2, <1>5, <2>1
  <2> QED
    BY <1>1, <1>3, <1>4, <2>1 DEF SnapshotsAreTrue, PinsArePublished, Keeps, launches
<1>10. CatalogueInv'
  <2>1. launch' = NoLaunch
    BY <1>1, <1>2 DEF launches
  <2>2. up' \in BOOLEAN /\ (~up' => memory' = Empty)
    BY <1>2, <1>5 DEF EnvironmentsInv, CatalogueInv
  <2> QED
    BY <1>7, <1>8, <1>9, <2>1, <2>2 DEF CatalogueInv
<1>11. WorkerInv'
  <2>1. worker.pc = "asleep"
    BY <1>2 DEF EnvironmentsInv, WorkerInv
  <2> QED
    BY <1>1, <2>1 DEF EnvironmentsInv, WorkerInv, Busy, Building
<1> QED
  BY <1>10, <1>11 DEF EnvironmentsInv

-----------------------------------------------------------------------------
LEMMA EnvironmentsInitial ==
    ASSUME EnvironmentsAssumption, EnvironmentsInit PROVE EnvironmentsInv
<1>1. CatalogueIsSound(memory) /\ CatalogueIsSound(disk)
  BY EmptyIsSound DEF EnvironmentsInit
<1>2. CatalogueInv
  BY <1>1 DEF EnvironmentsInit, CatalogueInv, SnapshotsAreTrue, PinsArePublished,
     PinIsWhatItSays
<1>3. WorkerInv
  BY DEF EnvironmentsInit, WorkerInv, Asleep, Busy, Building
<1> QED
  BY <1>2, <1>3 DEF EnvironmentsInv

LEMMA EnvironmentsStep ==
    ASSUME EnvironmentsAssumption, EnvironmentsInv, [EnvironmentsNext]_environmentVars
    PROVE  EnvironmentsInv'
<1>1. CASE UNCHANGED environmentVars
  <2>1. /\ CatalogueIsSound(memory) /\ CatalogueIsSound(disk)
        /\ UNCHANGED <<memory, disk, up, worker, snapshots, launch, pins>>
    BY <1>1 DEF environmentVars, EnvironmentsInv, CatalogueInv
  <2>2. CatalogueIsSound(memory)' /\ CatalogueIsSound(disk)'
    BY <2>1 DEF CatalogueIsSound, Exists, Loads, PreparationLoads, EnvironmentLoads
  <2>3. CatalogueInv'
    BY <2>1, <2>2 DEF EnvironmentsInv, CatalogueInv, SnapshotsAreTrue, PinsArePublished,
       Keeps, PinIsWhatItSays
  <2>4. WorkerInv'
    BY <2>1 DEF EnvironmentsInv, WorkerInv, Busy, Building
  <2> QED
    BY <2>3, <2>4 DEF EnvironmentsInv
<1>2. CASE EnvironmentsNext
  BY <1>2, CreateKeeps, UpdateKeeps, RetryKeeps, DeleteKeeps, PointerKeeps, WakeKeeps,
     ClaimKeeps, LoadKeeps, AdvanceKeeps, UseGuestKeeps, CreateSnapshotKeeps,
     FinishReadyKeeps, DiscardKeeps, CloseKeeps, MatchKeeps, CrashKeeps, StartKeeps
  DEF EnvironmentsNext
<1> QED
  BY <1>1, <1>2

(* Environments (environments/catalogue.rs, scheduler.rs and resolve.rs):  *)
(* what a launch pinned is there and was built from the recipe it is       *)
(* recorded with, for every number of environments, recipes, preparations, *)
(* failing writes and crashes.                                             *)
THEOREM EnvironmentsArePinned ==
    ASSUME EnvironmentsAssumption
    PROVE  EnvironmentsSpec => []PinIsWhatItSays
<1>1. EnvironmentsInit => EnvironmentsInv
  BY EnvironmentsInitial
<1>2. EnvironmentsInv /\ [EnvironmentsNext]_environmentVars => EnvironmentsInv'
  BY EnvironmentsStep
<1>3. EnvironmentsInv => PinIsWhatItSays
  BY DEF EnvironmentsInv, CatalogueInv
<1> QED
  BY <1>1, <1>2, <1>3, PTL DEF EnvironmentsSpec

(* The next start accepts the catalogue, whatever was stored, was not, or  *)
(* was cut off by a crash (environments/catalogue.rs state_from_file).     *)
THEOREM EnvironmentsLoad ==
    ASSUME EnvironmentsAssumption
    PROVE  EnvironmentsSpec => []CatalogueLoads
<1>1. EnvironmentsInit => EnvironmentsInv
  BY EnvironmentsInitial
<1>2. EnvironmentsInv /\ [EnvironmentsNext]_environmentVars => EnvironmentsInv'
  BY EnvironmentsStep
<1>3. EnvironmentsInv => CatalogueLoads
  BY DEF EnvironmentsInv, CatalogueInv, CatalogueIsSound, CatalogueLoads
<1> QED
  BY <1>1, <1>2, <1>3, PTL DEF EnvironmentsSpec


-----------------------------------------------------------------------------
(* Workflows.  The state of a catalogue that loads but for its times, with *)
(* identifiers among the first n.                                          *)
IsRecord(r) ==
    /\ r = [id |-> r.id, revision |-> r.revision, definition |-> r.definition,
            created |-> r.created, updated |-> r.updated]
    /\ r.id \in Nat /\ r.revision \in Nat \ {0}
    /\ r.created \in Int /\ r.updated \in Int

IsCatalogue(st) ==
    /\ st = [workflows |-> st.workflows, retired |-> st.retired, seeds |-> st.seeds]
    /\ IsFiniteSet(st.workflows) /\ IsFiniteSet(st.retired) /\ IsFiniteSet(st.seeds)

Fits(st) ==
    /\ Cardinality(st.workflows) <= MAXIMUM_WORKFLOWS
    /\ Cardinality(st.retired) <= MAXIMUM_RETIRED_IDS
    /\ Cardinality(st.seeds) <= MAXIMUM_APPLIED_SEEDS

RecordsApart(st, n) ==
    /\ \A r \in st.workflows : IsRecord(r) /\ r.id \in 1 .. n
    /\ \A r, s \in st.workflows : r.id = s.id => r = s
    /\ \A r \in st.workflows : r.id \notin st.retired
    /\ \A i \in st.retired : i \in 1 .. n

SeedsApart(st) ==
    /\ \A seed \in st.seeds :
          \/ seed.id \in st.retired
          \/ \E r \in st.workflows : r.id = seed.id
    /\ \A s, t \in st.seeds : (s.key = t.key \/ s.id = t.id) => s = t

(* The time of an edit is not before the creation, if no clock went back.  *)
Timely(st, now) == \A r \in st.workflows : r.created <= now /\ r.created <= r.updated

(* A record that a starter made is told by its seed, and a starter that a  *)
(* user deleted has a seed and no record.                                  *)
SeedOf(st, key, id) == \E seed \in st.seeds : seed.key = key /\ seed.id = id

StartersAreSeeds(st, so) ==
    \A r \in st.workflows : so[r.id] # NoStarter => SeedOf(st, so[r.id], r.id)

DeletedStay(st, so, gone) ==
    \A key \in gone \ {NoStarter} :
        /\ \E seed \in st.seeds : seed.key = key
        /\ \A r \in st.workflows : so[r.id] # key

(* A form is behind the record of its workflow, or shows it.               *)
Shows(form, r) ==
    form.revision <= r.revision /\ (form.revision = r.revision => form.seen = r.definition)

FormsLag(st, fs) ==
    \A tab \in Tab : \A r \in st.workflows :
        fs[tab] # NoForm /\ fs[tab].id = r.id => Shows(fs[tab], r)

(* The file is ahead of memory by writes that failed, if at all.           *)
FileLeads(onFile, st) ==
    \A m \in st.workflows : \A r \in onFile.workflows :
        m.id = r.id =>
            /\ m.revision <= r.revision
            /\ m.revision = r.revision => m.definition = r.definition

CatalogueSound(st, n, so, gone, fs) ==
    /\ IsCatalogue(st) /\ Fits(st)
    /\ RecordsApart(st, n) /\ SeedsApart(st)
    /\ StartersAreSeeds(st, so)
    /\ DeletedStay(st, so, gone)
    /\ FormsLag(st, fs)

FormsAreOurs(fs, n) ==
    \A tab \in Tab : fs[tab] # NoForm =>
        fs[tab].id \in 1 .. n /\ fs[tab].revision \in Nat

(* Identifiers that are not drawn yet are no starter's.                    *)
Unclaimed(so, n) == \A id \in 1 .. MaxIds : id > n => so[id] = NoStarter

WorkflowsInv ==
    /\ serving \in BOOLEAN /\ forward \in BOOLEAN
    /\ issued \in Nat /\ issued <= MaxIds
    /\ clock \in Int
    /\ forms = [tab \in Tab |-> forms[tab]]
    /\ FormsAreOurs(forms, issued)
    /\ Unclaimed(starterOf, issued)
    /\ CatalogueSound(file, issued, starterOf, deleted, forms)
    /\ serving => /\ CatalogueSound(catalogue, issued, starterOf, deleted, forms)
                  /\ FileLeads(file, catalogue)
    /\ ~serving => catalogue = NoWorkflows
    /\ forward => Timely(file, clock) /\ Timely(catalogue, clock)
    /\ ~overwritten

-----------------------------------------------------------------------------
(* What a catalogue that is sound means to the start and to the user.      *)
LEMMA IdsAreCounted ==
    ASSUME NEW st, IsCatalogue(st), NEW n, RecordsApart(st, n)
    PROVE  Cardinality(Ids(st)) = Cardinality(st.workflows)
<1> DEFINE g == [r \in st.workflows |-> r.id]
<1>1. g \in [st.workflows -> Ids(st)]
  BY DEF Ids
<1>2. \A a, b \in st.workflows : g[a] = g[b] => a = b
  BY DEF RecordsApart
<1>3. \A i \in Ids(st) : \E r \in st.workflows : g[r] = i
  BY DEF Ids
<1> HIDE DEF g
<1>4. g \in Bijection(st.workflows, Ids(st))
  BY <1>1, <1>2, <1>3 DEF Bijection, Injection, Surjection, IsInjective
<1>5. ExistsBijection(st.workflows, Ids(st))
  BY <1>4 DEF ExistsBijection
<1> QED
  BY <1>5, FS_Bijection DEF IsCatalogue

LEMMA SoundLoads ==
    ASSUME NEW st, NEW n, NEW so, NEW gone, NEW fs,
           CatalogueSound(st, n, so, gone, fs), NEW now, Timely(st, now)
    PROVE  StateLoads(st)
<1>1. /\ IsCatalogue(st) /\ Fits(st)
      /\ RecordsApart(st, n) /\ SeedsApart(st)
  BY DEF CatalogueSound
<1>2. \A record \in st.workflows : RecordLoads(record)
  <2> SUFFICES ASSUME NEW record \in st.workflows
               PROVE  RecordLoads(record)
    OBVIOUS
  <2>1. record.revision \in Nat \ {0}
    BY <1>1 DEF RecordsApart, IsRecord
  <2>2. record.created <= record.updated /\ record.created \in Int /\ record.updated \in Int
    BY <1>1 DEF RecordsApart, IsRecord, Timely
  <2> QED
    BY <2>1, <2>2 DEF RecordLoads
<1>3. Cardinality(Ids(st)) = Cardinality(st.workflows)
  BY <1>1, IdsAreCounted
<1>4. Ids(st) \intersect st.retired = {}
  BY <1>1 DEF RecordsApart, Ids
<1>5. \A seed \in st.seeds : seed.id \in Ids(st) \union st.retired
  BY <1>1 DEF SeedsApart, Ids
<1> QED
  BY <1>1, <1>2, <1>3, <1>4, <1>5 DEF StateLoads, Fits, SeedsApart

-----------------------------------------------------------------------------
(* What keeps a catalogue sound.                                           *)
LEMMA NothingIsSound ==
    ASSUME CatalogueAssumed, NEW n, NEW so, NEW fs
    PROVE  CatalogueSound(NoWorkflows, n, so, {}, fs)
<1> DEFINE st == NoWorkflows
<1>1. st.workflows = {} /\ st.retired = {} /\ st.seeds = {}
  BY DEF NoWorkflows
<1>2. st = [workflows |-> st.workflows, retired |-> st.retired, seeds |-> st.seeds]
  BY DEF NoWorkflows
<1>3. IsFiniteSet({}) /\ Cardinality({}) = 0
  BY FS_EmptySet
<1> HIDE DEF st
<1>4. IsCatalogue(st) /\ Fits(st)
  BY <1>1, <1>2, <1>3 DEF IsCatalogue, Fits, CatalogueAssumed
<1>5. RecordsApart(st, n) /\ SeedsApart(st) /\ StartersAreSeeds(st, so)
  BY <1>1 DEF RecordsApart, SeedsApart, StartersAreSeeds
<1>6. DeletedStay(st, so, {}) /\ FormsLag(st, fs)
  BY <1>1 DEF DeletedStay, FormsLag
<1> QED
  BY <1>4, <1>5, <1>6 DEF CatalogueSound, st

LEMMA MoreIdentifiers ==
    ASSUME NEW st, NEW n \in Nat, NEW so, NEW gone, NEW fs,
           CatalogueSound(st, n, so, gone, fs), NEW m \in Nat, n <= m
    PROVE  CatalogueSound(st, m, so, gone, fs)
<1>1. \A i \in 1 .. n : i \in 1 .. m
  OBVIOUS
<1>2. RecordsApart(st, m)
  BY <1>1 DEF CatalogueSound, RecordsApart
<1> QED
  BY <1>2 DEF CatalogueSound

(* Other forms, other starters: only what is named has to agree.           *)
LEMMA OtherForms ==
    ASSUME NEW st, NEW n, NEW so, NEW gone, NEW fs, NEW other,
           CatalogueSound(st, n, so, gone, fs), FormsLag(st, other)
    PROVE  CatalogueSound(st, n, so, gone, other)
  BY DEF CatalogueSound

LEMMA OtherStarters ==
    ASSUME NEW st, NEW n, NEW so, NEW gone, NEW fs, NEW other,
           CatalogueSound(st, n, so, gone, fs),
           \A i \in 1 .. n : other[i] = so[i]
    PROVE  CatalogueSound(st, n, other, gone, fs)
<1>1. \A r \in st.workflows : other[r.id] = so[r.id]
  BY DEF CatalogueSound, RecordsApart
<1>2. StartersAreSeeds(st, other)
  BY <1>1 DEF CatalogueSound, StartersAreSeeds
<1>3. DeletedStay(st, other, gone)
  BY <1>1 DEF CatalogueSound, DeletedStay
<1> QED
  BY <1>2, <1>3 DEF CatalogueSound

(* A record with a fresh identifier is added, by the user or by a starter. *)
LEMMA AddSound ==
    ASSUME NEW st, NEW n \in Nat, NEW so, NEW gone, NEW fs,
           CatalogueSound(st, n, so, gone, fs), FormsAreOurs(fs, n),
           NEW r, IsRecord(r), r.id = n + 1,
           NEW next, IsCatalogue(next), Fits(next),
           next.workflows = st.workflows \union {r}, next.retired = st.retired,
           st.seeds \subseteq next.seeds, SeedsApart(next),
           so[r.id] # NoStarter => SeedOf(next, so[r.id], r.id),
           so[r.id] \notin gone \ {NoStarter}
    PROVE  CatalogueSound(next, n + 1, so, gone, fs)
<1>1. \A i \in 1 .. n : i \in 1 .. n + 1 /\ i # n + 1
  OBVIOUS
<1>2. n + 1 \in 1 .. n + 1 /\ n + 1 \notin 1 .. n
  OBVIOUS
<1>3. RecordsApart(st, n)
  BY DEF CatalogueSound
<1>4. RecordsApart(next, n + 1)
  <2>1. \A s \in next.workflows : IsRecord(s) /\ s.id \in 1 .. n + 1
    BY <1>1, <1>2, <1>3 DEF RecordsApart
  <2>2. \A s \in st.workflows : s.id # r.id
    BY <1>1, <1>3 DEF RecordsApart
  <2>3. \A s, t \in next.workflows : s.id = t.id => s = t
    BY <1>3, <2>2 DEF RecordsApart
  <2>4. \A s \in next.workflows : s.id \notin next.retired
    BY <1>2, <1>3 DEF RecordsApart
  <2>5. \A i \in next.retired : i \in 1 .. n + 1
    BY <1>1, <1>3 DEF RecordsApart
  <2> QED
    BY <2>1, <2>3, <2>4, <2>5 DEF RecordsApart
<1>5. StartersAreSeeds(next, so)
  BY DEF CatalogueSound, StartersAreSeeds, SeedOf
<1>6. DeletedStay(next, so, gone)
  BY DEF CatalogueSound, DeletedStay
<1>7. FormsLag(next, fs)
  <2> SUFFICES ASSUME NEW tab \in Tab, NEW s \in next.workflows,
                      fs[tab] # NoForm, fs[tab].id = s.id
               PROVE  Shows(fs[tab], s)
    BY DEF FormsLag
  <2>1. s.id \in 1 .. n
    BY DEF FormsAreOurs
  <2>2. s # r
    BY <1>2, <2>1
  <2> QED
    BY <2>2 DEF CatalogueSound, FormsLag
<1> QED
  BY <1>4, <1>5, <1>6, <1>7 DEF CatalogueSound

(* A record is replaced by its next revision.                              *)
Replaces(next, st, old, r) ==
    /\ next.workflows = (st.workflows \ {old}) \union {r}
    /\ next.retired = st.retired /\ next.seeds = st.seeds
    /\ r.id = old.id /\ r.revision = old.revision + 1

LEMMA EditSound ==
    ASSUME NEW st, NEW n, NEW so, NEW gone, NEW fs,
           CatalogueSound(st, n, so, gone, fs), FormsAreOurs(fs, n),
           NEW old \in st.workflows, NEW r, IsRecord(r),
           NEW next, IsCatalogue(next), Replaces(next, st, old, r)
    PROVE  CatalogueSound(next, n, so, gone, fs)
<1>1. RecordsApart(st, n) /\ IsCatalogue(st) /\ Fits(st) /\ SeedsApart(st)
  BY DEF CatalogueSound
<1>2. \A s \in next.workflows : s = r \/ s \in st.workflows
  BY DEF Replaces
<1>3. RecordsApart(next, n)
  <2>1. \A s \in next.workflows : IsRecord(s) /\ s.id \in 1 .. n
    BY <1>1 DEF RecordsApart, Replaces
  <2>2. \A s, t \in next.workflows : s.id = t.id => s = t
    BY <1>1 DEF RecordsApart, Replaces
  <2>3. \A s \in next.workflows : s.id \notin next.retired
    BY <1>1 DEF RecordsApart, Replaces
  <2>4. \A i \in next.retired : i \in 1 .. n
    BY <1>1 DEF RecordsApart, Replaces
  <2> QED
    BY <2>1, <2>2, <2>3, <2>4 DEF RecordsApart
<1>4. Fits(next)
  <2>1. IsFiniteSet(st.workflows \ {old})
    BY <1>1, FS_RemoveElement DEF IsCatalogue
  <2>2. Cardinality(st.workflows \ {old}) = Cardinality(st.workflows) - 1
    BY <1>1, FS_RemoveElement DEF IsCatalogue
  <2>3. r \notin st.workflows \ {old}
    BY <1>1 DEF RecordsApart, Replaces
  <2>4. Cardinality((st.workflows \ {old}) \union {r}) = Cardinality(st.workflows \ {old}) + 1
    BY <2>1, <2>3, FS_AddElement
  <2>5. Cardinality(st.workflows) \in Nat
    BY <1>1, FS_CardinalityType DEF IsCatalogue
  <2>6. Cardinality(next.workflows) = Cardinality(st.workflows)
    BY <2>2, <2>4, <2>5 DEF Replaces
  <2> QED
    BY <1>1, <2>6 DEF Fits, Replaces
<1>5. SeedsApart(next)
  <2>1. \A s \in st.workflows : \E t \in next.workflows : t.id = s.id
    BY DEF Replaces
  <2> QED
    BY <1>1, <2>1 DEF SeedsApart, Replaces
<1>6. StartersAreSeeds(next, so)
  <2>1. \A s \in next.workflows : \E t \in st.workflows : t.id = s.id
    BY <1>2 DEF Replaces
  <2> QED
    BY <2>1 DEF CatalogueSound, StartersAreSeeds, SeedOf, Replaces
<1>7. DeletedStay(next, so, gone)
  <2>1. \A s \in next.workflows : \E t \in st.workflows : t.id = s.id
    BY <1>2 DEF Replaces
  <2> QED
    BY <2>1 DEF CatalogueSound, DeletedStay, Replaces
<1>8. FormsLag(next, fs)
  <2> SUFFICES ASSUME NEW tab \in Tab, NEW s \in next.workflows,
                      fs[tab] # NoForm, fs[tab].id = s.id
               PROVE  Shows(fs[tab], s)
    BY DEF FormsLag
  <2>1. CASE s \in st.workflows
    BY <2>1 DEF CatalogueSound, FormsLag
  <2>2. CASE s = r
    <3>1. Shows(fs[tab], old)
      BY <2>2 DEF CatalogueSound, FormsLag, Replaces
    <3>2. fs[tab].revision <= old.revision /\ s.revision = old.revision + 1
      BY <2>2, <3>1 DEF Shows, Replaces
    <3>3. fs[tab].revision \in Nat /\ old.revision \in Nat
      BY <1>1 DEF FormsAreOurs, RecordsApart, IsRecord
    <3>4. fs[tab].revision <= s.revision /\ fs[tab].revision # s.revision
      BY <3>2, <3>3
    <3> QED
      BY <3>4 DEF Shows
  <2> QED
    BY <1>2, <2>1, <2>2
<1> QED
  BY <1>3, <1>4, <1>5, <1>6, <1>7, <1>8 DEF CatalogueSound

(* A record is deleted, and its identifier never used again.               *)
Drops(next, st, old) ==
    /\ next.workflows = st.workflows \ {old}
    /\ next.retired = st.retired \union {old.id}
    /\ next.seeds = st.seeds

LEMMA DropSound ==
    ASSUME CatalogueAssumed,
           NEW st, NEW n, NEW so, NEW gone, NEW fs,
           CatalogueSound(st, n, so, gone, fs),
           NEW old \in st.workflows,
           Cardinality(st.retired) < MAXIMUM_RETIRED_IDS,
           NEW next, IsCatalogue(next), Drops(next, st, old)
    PROVE  /\ CatalogueSound(next, n, so, gone, fs)
           /\ CatalogueSound(next, n, so, gone \union {so[old.id]}, fs)
<1>1. RecordsApart(st, n) /\ IsCatalogue(st) /\ Fits(st) /\ SeedsApart(st)
  BY DEF CatalogueSound
<1>2. \A s \in next.workflows : s \in st.workflows /\ s # old /\ s.id # old.id
  BY <1>1 DEF RecordsApart, Drops
<1>3. RecordsApart(next, n)
  <2>1. \A s \in next.workflows : IsRecord(s) /\ s.id \in 1 .. n
    BY <1>1, <1>2 DEF RecordsApart
  <2>2. \A s, t \in next.workflows : s.id = t.id => s = t
    BY <1>1, <1>2 DEF RecordsApart
  <2>3. \A s \in next.workflows : s.id \notin next.retired
    BY <1>1, <1>2 DEF RecordsApart, Drops
  <2>4. \A i \in next.retired : i \in 1 .. n
    BY <1>1 DEF RecordsApart, Drops
  <2> QED
    BY <2>1, <2>2, <2>3, <2>4 DEF RecordsApart
<1>4. Fits(next)
  <2>1. Cardinality(st.workflows \ {old}) = Cardinality(st.workflows) - 1
    BY <1>1, FS_RemoveElement DEF IsCatalogue
  <2>2. old.id \notin st.retired
    BY <1>1 DEF RecordsApart
  <2>3. Cardinality(st.retired \union {old.id}) = Cardinality(st.retired) + 1
    BY <1>1, <2>2, FS_AddElement DEF IsCatalogue
  <2>4. Cardinality(st.workflows) \in Nat /\ Cardinality(st.retired) \in Nat
    BY <1>1, FS_CardinalityType DEF IsCatalogue
  <2>5. Cardinality(next.workflows) <= MAXIMUM_WORKFLOWS
    BY <1>1, <2>1, <2>4 DEF Fits, Drops, CatalogueAssumed
  <2>6. Cardinality(next.retired) <= MAXIMUM_RETIRED_IDS
    BY <2>3, <2>4 DEF Drops, CatalogueAssumed
  <2> QED
    BY <1>1, <2>5, <2>6 DEF Fits, Drops
<1>5. SeedsApart(next)
  <2> SUFFICES ASSUME NEW seed \in next.seeds
               PROVE  \/ seed.id \in next.retired
                      \/ \E r \in next.workflows : r.id = seed.id
    BY <1>1 DEF SeedsApart, Drops
  <2>1. CASE seed.id \in st.retired
    BY <2>1 DEF Drops
  <2>2. CASE \E r \in st.workflows : r.id = seed.id
    BY <2>2 DEF Drops
  <2> QED
    BY <1>1, <2>1, <2>2 DEF SeedsApart, Drops
<1>6. StartersAreSeeds(next, so)
  BY <1>2 DEF CatalogueSound, StartersAreSeeds, SeedOf, Drops
<1>7. DeletedStay(next, so, gone)
  BY <1>2 DEF CatalogueSound, DeletedStay, Drops
<1>8. FormsLag(next, fs)
  BY <1>2 DEF CatalogueSound, FormsLag
<1>9. DeletedStay(next, so, gone \union {so[old.id]})
  <2> SUFFICES ASSUME so[old.id] # NoStarter
               PROVE  /\ \E seed \in next.seeds : seed.key = so[old.id]
                      /\ \A r \in next.workflows : so[r.id] # so[old.id]
    BY <1>7 DEF DeletedStay
  <2>1. SeedOf(st, so[old.id], old.id)
    BY DEF CatalogueSound, StartersAreSeeds
  <2>2. ASSUME NEW r \in next.workflows, so[r.id] = so[old.id]
        PROVE  FALSE
    <3>1. SeedOf(st, so[r.id], r.id)
      BY <1>2, <2>2 DEF CatalogueSound, StartersAreSeeds
    <3>2. PICK s \in st.seeds : s.key = so[old.id] /\ s.id = old.id
      BY <2>1 DEF SeedOf
    <3>3. PICK t \in st.seeds : t.key = so[r.id] /\ t.id = r.id
      BY <3>1 DEF SeedOf
    <3>4. s = t
      BY <1>1, <2>2, <3>2, <3>3 DEF SeedsApart
    <3> QED
      BY <1>2, <2>2, <3>2, <3>3, <3>4
  <2> QED
    BY <2>1, <2>2 DEF SeedOf, Drops
<1> QED
  BY <1>3, <1>4, <1>5, <1>6, <1>7, <1>8, <1>9 DEF CatalogueSound

-----------------------------------------------------------------------------
(* The starters that a start adds, one after the other.                    *)
LEMMA SeedSound ==
    ASSUME CatalogueAssumed, clock \in Int,
           NEW st, NEW n \in Nat, NEW so, NEW gone, NEW fs,
           CatalogueSound(st, n, so, gone, fs), FormsAreOurs(fs, n),
           NEW key, so[n + 1] = key
    PROVE  CatalogueSound(ApplyStarter(st, key, n + 1), n + 1, so, gone, fs)
<1> DEFINE id == n + 1
           r == Stamped(id, Definition(FreeName(st, key), 1))
           seed == [key |-> key, id |-> id]
           next == [workflows |-> st.workflows \union {r}, retired |-> st.retired,
                    seeds |-> st.seeds \union {seed}]
           Left == \/ Applied(st, key)
                   \/ Cardinality(st.seeds) >= MAXIMUM_APPLIED_SEEDS
                   \/ Cardinality(st.workflows) >= MAXIMUM_WORKFLOWS
<1>1. RecordsApart(st, n) /\ IsCatalogue(st) /\ Fits(st) /\ SeedsApart(st)
  BY DEF CatalogueSound
<1>2. ApplyStarter(st, key, n + 1) = IF Left THEN st ELSE next
  BY DEF ApplyStarter
<1>3. n + 1 \in Nat /\ n <= n + 1
  OBVIOUS
<1>4. CASE Left
  BY <1>2, <1>3, <1>4, MoreIdentifiers
<1>5. CASE ~Left
  <2>1. IsRecord(r) /\ r.id = n + 1
    BY <1>3 DEF IsRecord, Stamped
  <2>3. seed.key = key /\ seed.id = n + 1
    OBVIOUS
  <2> HIDE DEF r, seed
  <2>2. /\ next.workflows = st.workflows \union {r} /\ next.retired = st.retired
        /\ next.seeds = st.seeds \union {seed}
        /\ next = [workflows |-> next.workflows, retired |-> next.retired,
                   seeds |-> next.seeds]
    OBVIOUS
  <2> HIDE DEF next
  <2>4. IsFiniteSet(next.workflows) /\ IsFiniteSet(next.retired) /\ IsFiniteSet(next.seeds)
    <3>1. /\ IsFiniteSet(st.workflows \union {r}) /\ IsFiniteSet(st.seeds \union {seed})
          /\ IsFiniteSet(st.retired)
      BY <1>1, FS_AddElement DEF IsCatalogue
    <3> QED
      BY <2>2, <3>1
  <2>5. IsCatalogue(next)
    BY <2>2, <2>4 DEF IsCatalogue
  <2>6. \A s \in st.workflows : s.id # n + 1
    BY <1>1 DEF RecordsApart
  <2>7. r \notin st.workflows
    BY <2>1, <2>6
  <2>8. \A s \in st.seeds : s.id \in 1 .. n /\ s.key # key
    BY <1>1, <1>5 DEF SeedsApart, RecordsApart, Applied
  <2>9. \A s \in st.seeds : s.id # n + 1
    BY <2>8
  <2>10. seed \notin st.seeds
    BY <2>3, <2>9
  <2>11. Fits(next)
    <3>1. /\ Cardinality(st.workflows) \in Nat /\ Cardinality(st.seeds) \in Nat
          /\ Cardinality(st.workflows \union {r}) = Cardinality(st.workflows) + 1
          /\ Cardinality(st.seeds \union {seed}) = Cardinality(st.seeds) + 1
      BY <1>1, <2>7, <2>10, FS_CardinalityType, FS_AddElement DEF IsCatalogue
    <3>2. Cardinality(next.workflows) <= MAXIMUM_WORKFLOWS
      BY <1>5, <2>2, <3>1 DEF CatalogueAssumed
    <3>3. Cardinality(next.seeds) <= MAXIMUM_APPLIED_SEEDS
      BY <1>5, <2>2, <3>1 DEF CatalogueAssumed
    <3> QED
      BY <1>1, <2>2, <3>2, <3>3 DEF Fits
  <2>12. SeedsApart(next)
    <3>1. \A s \in next.seeds : \/ s.id \in next.retired
                                \/ \E t \in next.workflows : t.id = s.id
      BY <1>1, <2>1, <2>2, <2>3 DEF SeedsApart
    <3>2. \A s, t \in next.seeds : (s.key = t.key \/ s.id = t.id) => s = t
      BY <1>1, <2>2, <2>3, <2>8, <2>9 DEF SeedsApart
    <3> QED
      BY <3>1, <3>2 DEF SeedsApart
  <2>13. SeedOf(next, so[r.id], r.id)
    BY <2>1, <2>2, <2>3 DEF SeedOf
  <2>14. so[r.id] \notin gone \ {NoStarter}
    BY <2>1, <2>8 DEF CatalogueSound, DeletedStay
  <2>15. CatalogueSound(next, n + 1, so, gone, fs)
    BY <2>1, <2>2, <2>5, <2>11, <2>12, <2>13, <2>14, AddSound
  <2> QED
    BY <1>2, <1>5, <2>15
<1> QED
  BY <1>4, <1>5

LEMMA SeedTimely ==
    ASSUME clock \in Int, NEW st, IsCatalogue(st), Timely(st, clock), NEW key, NEW id
    PROVE  Timely(ApplyStarter(st, key, id), clock)
<1> DEFINE r == Stamped(id, Definition(FreeName(st, key), 1))
           next == [workflows |-> st.workflows \union {r}, retired |-> st.retired,
                    seeds |-> st.seeds \union {[key |-> key, id |-> id]}]
<1>1. r.created = clock /\ r.updated = clock
  BY DEF Stamped
<1>2. ApplyStarter(st, key, id) \in {st, next}
  BY DEF ApplyStarter
<1>3. next.workflows = st.workflows \union {r}
  OBVIOUS
<1> HIDE DEF r, next
<1>4. Timely(next, clock)
  BY <1>1, <1>3 DEF Timely
<1> QED
  BY <1>2, <1>4

(* A set of numbers that is not empty has a least one.                     *)
LEMMA LeastNumber ==
    ASSUME NEW N \in SUBSET Nat, N # {}
    PROVE  \E n \in N : \A m \in N : n <= m
<1> DEFINE less == {ss \in Nat \X Nat : ss[1] < ss[2]}
<1>1. IsWellFoundedOn(less, Nat)
  BY NatLessThanWellFounded DEF OpToRel
<1>2. \A x, y \in Nat : y < x => <<y, x>> \in less
  OBVIOUS
<1> HIDE DEF less
<1>3. N \subseteq Nat /\ N # {}
  OBVIOUS
<1>4. PICK n \in N : \A m \in N : ~(<<m, n>> \in less)
  BY <1>1, <1>3, WFMin
<1>5. ASSUME NEW m \in N
      PROVE  n <= m
  <2>1. m \in Nat /\ n \in Nat
    BY <1>3
  <2>2. ~(m < n)
    BY <1>2, <1>4, <2>1
  <2> QED
    BY <2>1, <2>2
<1> QED
  BY <1>5

SeededBy(ap, st, m) ==
    ap = [n \in 0 .. m |-> IF n = 0 THEN st
                           ELSE ApplyStarter(ap[n - 1], Starter[n], issued + n)]

LEMMA SeedingExists ==
    ASSUME NEW st, NEW m \in Nat
    PROVE  \E ap : SeededBy(ap, st, m)
<1> DEFINE B == {k \in Nat : ~\E ap : SeededBy(ap, st, k)}
<1>1. CASE B = {}
  BY <1>1
<1>2. CASE B # {}
  <2>1. PICK k \in B : \A j \in B : k <= j
    BY <1>2, LeastNumber
  <2>2. k \in Nat /\ ~\E ap : SeededBy(ap, st, k)
    BY <2>1
  <2>3. k # 0
    <3>1. SeededBy([n \in 0 .. 0 |-> st], st, 0)
      BY DEF SeededBy
    <3> QED
      BY <2>2, <3>1
  <2>4. k - 1 \in Nat /\ k - 1 \notin B
    BY <2>1, <2>2, <2>3
  <2>5. PICK h : SeededBy(h, st, k - 1)
    BY <2>4
  <2> DEFINE g == [n \in 0 .. k |-> IF n = k THEN ApplyStarter(h[k - 1], Starter[k], issued + k)
                                    ELSE h[n]]
  <2>6. \A n \in 0 .. k : n # k => n \in 0 .. k - 1
    BY <2>2
  <2>7. \A n \in 0 .. k : n # 0 => n - 1 \in 0 .. k /\ n - 1 # k
    BY <2>2
  <2>8. \A n \in 0 .. k : g[n] = IF n = 0 THEN st
                                 ELSE ApplyStarter(g[n - 1], Starter[n], issued + n)
    <3> SUFFICES ASSUME NEW n \in 0 .. k
                 PROVE  g[n] = IF n = 0 THEN st
                               ELSE ApplyStarter(g[n - 1], Starter[n], issued + n)
      OBVIOUS
    <3>1. n # 0 => g[n - 1] = h[n - 1]
      BY <2>7
    <3>2. CASE n = k
      BY <2>3, <3>1, <3>2
    <3>3. CASE n # k
      <4>1. n \in 0 .. k - 1
        BY <2>6, <3>3
      <4>2. h[n] = IF n = 0 THEN st ELSE ApplyStarter(h[n - 1], Starter[n], issued + n)
        BY <2>5, <4>1 DEF SeededBy
      <4> QED
        BY <3>1, <3>3, <4>2
    <3> QED
      BY <3>2, <3>3
  <2>9. SeededBy(g, st, k)
    BY <2>8 DEF SeededBy
  <2> QED
    BY <2>2, <2>9
<1> QED
  BY <1>1, <1>2

LEMMA SeedingIsDone ==
    ASSUME CatalogueAssumed, NEW st
    PROVE  \E ap : SeededBy(ap, st, Len(Starter)) /\ ApplyAbsentSeeds(st) = ap[Len(Starter)]
<1>1. Len(Starter) \in Nat
  BY DEF CatalogueAssumed
<1> DEFINE ap == CHOOSE f : SeededBy(f, st, Len(Starter))
<1>2. ApplyAbsentSeeds(st) = ap[Len(Starter)]
  BY DEF ApplyAbsentSeeds, SeededBy
<1>3. SeededBy(ap, st, Len(Starter))
  BY <1>1, SeedingExists
<1> QED
  BY <1>2, <1>3

LEMMA OursWithMore ==
    ASSUME NEW fs, NEW n \in Nat, NEW m \in Nat, n <= m, FormsAreOurs(fs, n)
    PROVE  FormsAreOurs(fs, m)
<1>1. \A i \in 1 .. n : i \in 1 .. m
  OBVIOUS
<1> QED
  BY <1>1 DEF FormsAreOurs

LEMMA SeedingSound ==
    ASSUME CatalogueAssumed, clock \in Int, issued \in Nat,
           NEW st, NEW so, NEW gone, NEW fs,
           CatalogueSound(st, issued, so, gone, fs), FormsAreOurs(fs, issued),
           \A i \in 1 .. Len(Starter) : so[issued + i] = Starter[i]
    PROVE  /\ CatalogueSound(ApplyAbsentSeeds(st), issued + Len(Starter), so, gone, fs)
           /\ Timely(st, clock) => Timely(ApplyAbsentSeeds(st), clock)
<1>1. Len(Starter) \in Nat
  BY DEF CatalogueAssumed
<1>2. PICK ap : SeededBy(ap, st, Len(Starter)) /\ ApplyAbsentSeeds(st) = ap[Len(Starter)]
  BY SeedingIsDone
<1>3. /\ ap[0] = st
      /\ \A n \in 1 .. Len(Starter) : ap[n] = ApplyStarter(ap[n - 1], Starter[n], issued + n)
  <2>1. \A n \in 0 .. Len(Starter) :
           ap[n] = IF n = 0 THEN st ELSE ApplyStarter(ap[n - 1], Starter[n], issued + n)
    BY <1>2, Zenon DEF SeededBy
  <2>2. 0 \in 0 .. Len(Starter) /\ \A n \in 1 .. Len(Starter) : n \in 0 .. Len(Starter) /\ n # 0
    BY <1>1
  <2> QED
    BY <2>1, <2>2, Zenon
<1> DEFINE Good(n) == /\ CatalogueSound(ap[n], issued + n, so, gone, fs)
                      /\ Timely(st, clock) => Timely(ap[n], clock)
           B == {n \in 0 .. Len(Starter) : ~Good(n)}
<1>4. CASE B = {}
  <2>1. Len(Starter) \in 0 .. Len(Starter)
    BY <1>1
  <2> QED
    BY <1>2, <1>4, <2>1
<1>5. CASE B # {}
  <2>1. B \in SUBSET Nat
    OBVIOUS
  <2>2. PICK k \in B : \A j \in B : k <= j
    BY <1>5, <2>1, LeastNumber
  <2>3. k \in 0 .. Len(Starter) /\ ~Good(k)
    BY <2>2
  <2>4. Good(0)
    BY <1>3
  <2>5. k # 0
    BY <2>3, <2>4
  <2> HIDE DEF Good
  <2>6. k - 1 \in 0 .. Len(Starter) /\ k - 1 \notin B
    <3> HIDE DEF B
    <3>1. k \in Nat /\ ~(k <= k - 1)
      BY <2>3
    <3> QED
      BY <1>1, <2>2, <2>3, <2>5, <3>1
  <2>7. Good(k - 1)
    BY <2>6
  <2>8. k \in 1 .. Len(Starter) /\ k \in Nat /\ issued + k = (issued + (k - 1)) + 1
    BY <1>1, <2>3, <2>5
  <2> DEFINE n == issued + (k - 1)
  <2>9. n \in Nat /\ issued <= n
    BY <2>5, <2>8
  <2>10. so[n + 1] = Starter[k] /\ ap[k] = ApplyStarter(ap[k - 1], Starter[k], n + 1)
    BY <1>3, <2>8
  <2>11. CatalogueSound(ap[k - 1], n, so, gone, fs)
    BY <2>7 DEF Good
  <2> HIDE DEF n
  <2>12. FormsAreOurs(fs, n)
    BY <2>9, OursWithMore
  <2>13. CatalogueSound(ApplyStarter(ap[k - 1], Starter[k], n + 1), n + 1, so, gone, fs)
    BY <2>9, <2>10, <2>11, <2>12, SeedSound
  <2>14. IsCatalogue(ap[k - 1])
    BY <2>11 DEF CatalogueSound
  <2>15. Timely(st, clock) => Timely(ap[k], clock)
    BY <2>7, <2>10, <2>14, SeedTimely DEF Good
  <2>16. CatalogueSound(ap[k], issued + k, so, gone, fs)
    BY <2>8, <2>10, <2>13 DEF n
  <2> QED
    BY <2>3, <2>15, <2>16 DEF Good
<1> QED
  BY <1>4, <1>5

-----------------------------------------------------------------------------
(* The actions.                                                            *)
LEMMA LeadsItself ==
    ASSUME NEW st, NEW n, RecordsApart(st, n)
    PROVE  FileLeads(st, st)
<1> SUFFICES ASSUME NEW m \in st.workflows, NEW r \in st.workflows, m.id = r.id
             PROVE  m.revision <= r.revision /\ m.definition = r.definition
  BY DEF FileLeads
<1>1. m = r /\ r.revision \in Nat
  BY DEF RecordsApart, IsRecord
<1> QED
  BY <1>1

LEMMA WorkflowsStart ==
    ASSUME CatalogueAssumed, CatalogueInit
    PROVE  WorkflowsInv
<1>1. \A tab \in Tab : forms[tab] = NoForm
  BY DEF CatalogueInit
<1>2. forms = [tab \in Tab |-> forms[tab]]
  BY DEF CatalogueInit
<1>3. CatalogueSound(file, issued, starterOf, deleted, forms)
  BY NothingIsSound DEF CatalogueInit
<1>4. Timely(file, clock) /\ Timely(catalogue, clock)
  BY DEF CatalogueInit, NoWorkflows, Timely
<1>5. /\ serving = FALSE /\ forward = TRUE /\ overwritten = FALSE
      /\ catalogue = NoWorkflows /\ issued = 0
      /\ clock \in Int /\ MaxIds \in Nat
  BY DEF CatalogueInit, CatalogueAssumed
<1>6. FormsAreOurs(forms, issued)
  BY <1>1 DEF FormsAreOurs
<1>7. Unclaimed(starterOf, issued)
  <2>1. starterOf = [id \in 1 .. MaxIds |-> NoStarter]
    BY DEF CatalogueInit
  <2> QED
    BY <2>1 DEF Unclaimed
<1>8. issued <= MaxIds
  BY <1>5
<1>9. serving \in BOOLEAN /\ forward \in BOOLEAN
  BY <1>5, Zenon
<1> QED
  BY <1>2, <1>3, <1>4, <1>5, <1>6, <1>7, <1>8, <1>9 DEF WorkflowsInv

LEMMA StartWorkflowsStep ==
    ASSUME CatalogueAssumed, WorkflowsInv, StartWorkflows
    PROVE  WorkflowsInv'
<1> DEFINE seeded == ApplyAbsentSeeds(file)
<1>1. /\ Len(Starter) \in Nat /\ issued \in Nat /\ MaxIds \in Nat
      /\ issued + Len(Starter) <= MaxIds /\ issued' = issued + Len(Starter)
  BY DEF CatalogueAssumed, WorkflowsInv, StartWorkflows
<1>2. starterOf' = [id \in 1 .. MaxIds |->
                       IF id \in issued + 1 .. issued' THEN Starter[id - issued]
                       ELSE starterOf[id]]
  BY DEF StartWorkflows
<1>3. /\ issued' \in Nat /\ issued' <= MaxIds /\ issued <= issued'
  BY <1>1
<1>4. \A i \in 1 .. issued : i \in 1 .. MaxIds /\ i \notin issued + 1 .. issued'
  BY <1>1
<1>5. \A i \in 1 .. Len(Starter) :
          /\ issued + i \in 1 .. MaxIds /\ issued + i \in issued + 1 .. issued'
          /\ issued + i - issued = i
  BY <1>1
<1>6. \A i \in 1 .. issued : starterOf'[i] = starterOf[i]
  BY <1>2, <1>4
<1>7. \A i \in 1 .. Len(Starter) : starterOf'[issued + i] = Starter[i]
  <2> SUFFICES ASSUME NEW i \in 1 .. Len(Starter)
               PROVE  starterOf'[issued + i] = Starter[i]
    OBVIOUS
  <2>1. PICK id \in 1 .. MaxIds : id = issued + i
    BY <1>5
  <2>2. id \in issued + 1 .. issued'
    BY <1>5, <2>1
  <2>3. id - issued = i
    BY <1>1, <2>1
  <2>4. starterOf'[id] = Starter[id - issued]
    BY <1>2, <2>2
  <2> QED
    BY <2>1, <2>3, <2>4
<1> DEFINE Later == \A id \in 1 .. MaxIds :
                        id > issued' => id > issued /\ id \notin issued + 1 .. issued'
<1>17. Later
  BY <1>1
<1>18. Unclaimed(starterOf', issued')
  BY <1>2, <1>17 DEF WorkflowsInv, Unclaimed
<1> HIDE DEF Later
<1>8. CatalogueSound(file, issued, starterOf', deleted, forms)
  BY <1>6, OtherStarters DEF WorkflowsInv
<1>9. /\ CatalogueSound(seeded, issued', starterOf', deleted, forms)
      /\ Timely(file, clock) => Timely(seeded, clock)
  BY <1>1, <1>7, <1>8, SeedingSound DEF WorkflowsInv
<1>10. CatalogueSound(file, issued', starterOf', deleted, forms)
  BY <1>1, <1>3, <1>8, MoreIdentifiers
<1>11. FormsAreOurs(forms, issued')
  BY <1>1, <1>3, OursWithMore DEF WorkflowsInv
<1>12. UNCHANGED <<forms, clock, forward, deleted, overwritten>>
  BY DEF StartWorkflows
<1>13. /\ forward' \in BOOLEAN /\ clock' \in Int /\ ~overwritten'
       /\ forms' = [tab \in Tab |-> forms'[tab]]
       /\ FormsAreOurs(forms', issued')
  BY <1>11, <1>12 DEF WorkflowsInv
<1> HIDE DEF seeded
<1>14. CASE Persist(seeded) /\ serving' = TRUE
  <2>1. file' = seeded /\ catalogue' = seeded
    BY <1>14 DEF Persist
  <2>2. CatalogueSound(file', issued', starterOf', deleted', forms')
    BY <1>9, <1>12, <2>1
  <2>3. RecordsApart(seeded, issued')
    BY <1>9 DEF CatalogueSound
  <2>4. FileLeads(file', catalogue')
    BY <2>1, <2>3, LeadsItself
  <2>5. forward' => Timely(file', clock') /\ Timely(catalogue', clock')
    BY <1>9, <1>12, <2>1 DEF WorkflowsInv
  <2> QED
    BY <1>3, <1>13, <1>18, <1>14, <2>1, <2>2, <2>4, <2>5 DEF WorkflowsInv
<1>15. CASE PersistFails(seeded) /\ serving' = FALSE
  <2>1. file' \in {file, seeded} /\ catalogue' = catalogue
    BY <1>15 DEF PersistFails
  <2>2. CatalogueSound(file', issued', starterOf', deleted', forms')
    BY <1>9, <1>10, <1>12, <2>1
  <2>3. catalogue' = NoWorkflows
    BY <2>1 DEF WorkflowsInv, StartWorkflows
  <2>4. forward' => Timely(file', clock') /\ Timely(catalogue', clock')
    BY <1>9, <1>12, <2>1 DEF WorkflowsInv
  <2> QED
    BY <1>3, <1>13, <1>18, <1>15, <2>2, <2>3, <2>4 DEF WorkflowsInv
<1>16. \/ Persist(seeded) /\ serving' = TRUE
       \/ PersistFails(seeded) /\ serving' = FALSE
  BY DEF StartWorkflows, seeded
<1> QED
  BY <1>14, <1>15, <1>16

LEMMA StopWorkflowsStep ==
    ASSUME WorkflowsInv, StopWorkflows
    PROVE  WorkflowsInv'
<1>1. /\ serving' = FALSE /\ catalogue' = NoWorkflows
      /\ UNCHANGED <<file, forms, issued, clock, forward, starterOf, deleted, overwritten>>
  BY DEF StopWorkflows
<1>2. Timely(NoWorkflows, clock)
  BY DEF NoWorkflows, Timely
<1> QED
  BY <1>1, <1>2 DEF WorkflowsInv

LEMMA ClockMovesStep ==
    ASSUME CatalogueAssumed, WorkflowsInv, ClockMoves
    PROVE  WorkflowsInv'
<1>1. clock \in Int /\ clock' \in Int /\ forward \in BOOLEAN
  BY DEF CatalogueAssumed, WorkflowsInv, ClockMoves
<1>2. ASSUME NEW st, NEW n, RecordsApart(st, n), Timely(st, clock), clock' > clock
      PROVE  Timely(st, clock')
  <2> SUFFICES ASSUME NEW r \in st.workflows
               PROVE  r.created <= clock' /\ r.created <= r.updated
    BY DEF Timely
  <2>1. r.created \in Int /\ r.created <= clock /\ r.created <= r.updated
    BY <1>2 DEF RecordsApart, IsRecord, Timely
  <2> QED
    BY <1>1, <1>2, <2>1
<1>3. UNCHANGED <<catalogue, file, serving, forms, issued, starterOf, deleted, overwritten>>
  BY DEF ClockMoves
<1>4. forward' = (forward /\ clock' > clock)
  BY DEF ClockMoves
<1>5. forward' \in BOOLEAN
  BY <1>4
<1>6. ASSUME forward'
      PROVE  Timely(file', clock') /\ Timely(catalogue', clock')
  <2>1. forward /\ clock' > clock
    BY <1>4, <1>6
  <2>2. RecordsApart(file, issued) /\ Timely(file, clock)
    BY <2>1 DEF WorkflowsInv, CatalogueSound
  <2>3. Timely(file, clock')
    BY <1>2, <2>1, <2>2
  <2>4. CASE serving
    <3>1. RecordsApart(catalogue, issued) /\ Timely(catalogue, clock)
      BY <2>1, <2>4 DEF WorkflowsInv, CatalogueSound
    <3>2. Timely(catalogue, clock')
      BY <1>2, <2>1, <3>1
    <3> QED
      BY <1>3, <2>3, <3>2
  <2>5. CASE ~serving
    <3>1. catalogue = NoWorkflows
      BY <2>5 DEF WorkflowsInv
    <3>2. Timely(catalogue, clock')
      BY <3>1 DEF NoWorkflows, Timely
    <3> QED
      BY <1>3, <2>3, <3>2
  <2> QED
    BY <2>4, <2>5 DEF WorkflowsInv
<1> QED
  BY <1>1, <1>3, <1>5, <1>6 DEF WorkflowsInv

(* A form that is set: to what a page showed or stored, or to none.        *)
SetsForm(new, fs, tab, form) ==
    /\ new = [t \in Tab |-> new[t]]
    /\ new[tab] = form
    /\ \A t \in Tab : t # tab => new[t] = fs[t]

LEMMA FormIsSet ==
    ASSUME NEW fs, fs = [t \in Tab |-> fs[t]], NEW tab \in Tab, NEW form, NEW new,
           new = [fs EXCEPT ![tab] = form]
    PROVE  SetsForm(new, fs, tab, form)
  BY DEF SetsForm

LEMMA SetFormLags ==
    ASSUME NEW st, NEW fs, FormsLag(st, fs), NEW new, NEW tab \in Tab, NEW form,
           SetsForm(new, fs, tab, form),
           \A r \in st.workflows : form # NoForm /\ form.id = r.id => Shows(form, r)
    PROVE  FormsLag(st, new)
<1> SUFFICES ASSUME NEW t \in Tab, NEW r \in st.workflows,
                    new[t] # NoForm, new[t].id = r.id
             PROVE  Shows(new[t], r)
  BY DEF FormsLag
<1>1. CASE t = tab
  BY <1>1 DEF SetsForm
<1>2. CASE t # tab
  BY <1>2 DEF SetsForm, FormsLag
<1> QED
  BY <1>1, <1>2

LEMMA SetFormIsOurs ==
    ASSUME NEW fs, NEW n, FormsAreOurs(fs, n), NEW new, NEW tab \in Tab, NEW form,
           SetsForm(new, fs, tab, form),
           form # NoForm => form.id \in 1 .. n /\ form.revision \in Nat
    PROVE  FormsAreOurs(new, n)
<1> SUFFICES ASSUME NEW t \in Tab, new[t] # NoForm
             PROVE  new[t].id \in 1 .. n /\ new[t].revision \in Nat
  BY DEF FormsAreOurs
<1>1. CASE t = tab
  BY <1>1 DEF SetsForm
<1>2. CASE t # tab
  BY <1>2 DEF SetsForm, FormsAreOurs
<1> QED
  BY <1>1, <1>2

LEMMA OpenStep ==
    ASSUME WorkflowsInv, NEW tab \in Tab, OpenConfiguration(tab)
    PROVE  WorkflowsInv'
<1>1. /\ serving
      /\ UNCHANGED <<catalogue, file, issued, writes, starterOf, deleted, overwritten>>
      /\ UNCHANGED <<serving, clock, forward, starts>>
  BY DEF OpenConfiguration, StaysUp
<1>2. PICK record \in catalogue.workflows :
          forms' = [forms EXCEPT ![tab] =
                       [id |-> record.id, revision |-> record.revision,
                        seen |-> record.definition]]
  BY DEF OpenConfiguration
<1> DEFINE form == [id |-> record.id, revision |-> record.revision,
                    seen |-> record.definition]
<1>3. /\ form.id = record.id /\ form.revision = record.revision
      /\ form.seen = record.definition /\ forms' = [forms EXCEPT ![tab] = form]
  BY <1>2
<1> HIDE DEF form
<1>4. /\ CatalogueSound(catalogue, issued, starterOf, deleted, forms)
      /\ CatalogueSound(file, issued, starterOf, deleted, forms)
      /\ FileLeads(file, catalogue) /\ FormsAreOurs(forms, issued)
      /\ forms = [t \in Tab |-> forms[t]]
  BY <1>1 DEF WorkflowsInv
<1>5. SetsForm(forms', forms, tab, form)
  BY <1>3, <1>4, FormIsSet
<1>6. IsRecord(record) /\ record.id \in 1 .. issued
  BY <1>4 DEF CatalogueSound, RecordsApart
<1>7. FormsAreOurs(forms', issued)
  BY <1>3, <1>4, <1>5, <1>6, SetFormIsOurs DEF IsRecord
<1>8. \A r \in catalogue.workflows : form.id = r.id => Shows(form, r)
  <2> SUFFICES ASSUME NEW r \in catalogue.workflows, form.id = r.id
               PROVE  Shows(form, r)
    OBVIOUS
  <2>1. r = record
    BY <1>3, <1>4 DEF CatalogueSound, RecordsApart
  <2>2. record.revision \in Nat
    BY <1>6 DEF IsRecord
  <2> QED
    BY <1>3, <2>1, <2>2 DEF Shows
<1>9. \A r \in file.workflows : form.id = r.id => Shows(form, r)
  BY <1>3, <1>4 DEF FileLeads, Shows
<1>10. FormsLag(catalogue, forms') /\ FormsLag(file, forms')
  <2>1. FormsLag(catalogue, forms) /\ FormsLag(file, forms)
    BY <1>4 DEF CatalogueSound
  <2> QED
    BY <1>5, <1>8, <1>9, <2>1, SetFormLags
<1>11. /\ CatalogueSound(catalogue, issued, starterOf, deleted, forms')
       /\ CatalogueSound(file, issued, starterOf, deleted, forms')
  BY <1>4, <1>10, OtherForms
<1>12. forms' = [t \in Tab |-> forms'[t]]
  BY <1>5 DEF SetsForm
<1> QED
  BY <1>1, <1>7, <1>11, <1>12 DEF WorkflowsInv

(* What a change of the catalogue leaves: after a write that succeeds the  *)
(* file and memory are the same, after one that fails memory is as before. *)
LEMMA PersistedKeeps ==
    ASSUME WorkflowsInv, serving, StaysUp,
           NEW next, NEW n, NEW so, NEW gone, NEW fs,
           issued' = n, starterOf' = so, deleted' = gone, forms' = fs,
           Persist(next), n \in Nat, n <= MaxIds,
           fs = [t \in Tab |-> fs[t]], FormsAreOurs(fs, n),
           Unclaimed(so, n), CatalogueSound(next, n, so, gone, fs),
           forward => Timely(next, clock), ~overwritten'
    PROVE  WorkflowsInv'
<1>1. file' = next /\ catalogue' = next
  BY DEF Persist
<1>2. UNCHANGED <<serving, clock, forward>>
  BY DEF StaysUp
<1>3. RecordsApart(next, n)
  BY DEF CatalogueSound
<1>4. FileLeads(next, next)
  BY <1>3, LeadsItself
<1> QED
  BY <1>1, <1>2, <1>4 DEF WorkflowsInv

LEMMA FailedKeeps ==
    ASSUME WorkflowsInv, serving, StaysUp,
           NEW next, NEW n \in Nat, issued' = n, issued <= n, n <= MaxIds,
           UNCHANGED <<forms, starterOf, deleted, overwritten>>,
           PersistFails(next),
           CatalogueSound(next, n, starterOf, deleted, forms),
           FileLeads(next, catalogue),
           forward => Timely(next, clock)
    PROVE  WorkflowsInv'
<1>1. file' \in {file, next} /\ catalogue' = catalogue
  BY DEF PersistFails
<1>2. UNCHANGED <<serving, clock, forward>>
  BY DEF StaysUp
<1>3. issued \in Nat
  BY DEF WorkflowsInv
<1>4. /\ CatalogueSound(catalogue, n, starterOf, deleted, forms)
      /\ CatalogueSound(file, n, starterOf, deleted, forms)
  BY <1>3, MoreIdentifiers DEF WorkflowsInv
<1>5. FormsAreOurs(forms, n)
  BY <1>3, OursWithMore DEF WorkflowsInv
<1>6. CatalogueSound(file', n, starterOf, deleted, forms) /\ FileLeads(file', catalogue)
  BY <1>1, <1>4 DEF WorkflowsInv
<1>7. forward => Timely(file', clock)
  BY <1>1 DEF WorkflowsInv
<1>8. Unclaimed(starterOf, n)
  <2>1. \A id \in 1 .. MaxIds : id > n => id > issued
    BY <1>3
  <2> QED
    BY <2>1 DEF WorkflowsInv, Unclaimed
<1> QED
  BY <1>1, <1>2, <1>4, <1>5, <1>6, <1>7, <1>8 DEF WorkflowsInv

LEMMA CreateWorkflowStep ==
    ASSUME CatalogueAssumed, WorkflowsInv, NEW tab \in Tab, CreateWorkflow(tab)
    PROVE  WorkflowsInv'
<1>1. PICK name \in Name, content \in Content :
          LET r == Stamped(issued + 1, Definition(name, content))
              next == [workflows |-> catalogue.workflows \union {r},
                    retired |-> catalogue.retired, seeds |-> catalogue.seeds]
          IN \/ /\ Persist(next)
                /\ forms' = [forms EXCEPT ![tab] =
                                [id |-> r.id, revision |-> 1, seen |-> r.definition]]
             \/ PersistFails(next) /\ UNCHANGED forms
  BY DEF CreateWorkflow
<1> DEFINE r == Stamped(issued + 1, Definition(name, content))
           next == [workflows |-> catalogue.workflows \union {r},
                    retired |-> catalogue.retired, seeds |-> catalogue.seeds]
           form == [id |-> r.id, revision |-> 1, seen |-> r.definition]
<1>2. \/ Persist(next) /\ forms' = [forms EXCEPT ![tab] = form]
      \/ PersistFails(next) /\ UNCHANGED forms
  BY <1>1
<1>3. /\ serving /\ issued < MaxIds /\ issued' = issued + 1 /\ StaysUp
      /\ Cardinality(catalogue.workflows) < MAXIMUM_WORKFLOWS
      /\ UNCHANGED <<starterOf, deleted, overwritten>>
  BY DEF CreateWorkflow
<1>4. /\ issued \in Nat /\ MaxIds \in Nat /\ clock \in Int
      /\ CatalogueSound(catalogue, issued, starterOf, deleted, forms)
      /\ FormsAreOurs(forms, issued) /\ Unclaimed(starterOf, issued)
      /\ forms = [t \in Tab |-> forms[t]] /\ ~overwritten
  BY <1>3 DEF WorkflowsInv, CatalogueAssumed
<1>5. /\ issued' \in Nat /\ issued <= issued' /\ issued' <= MaxIds
      /\ issued + 1 \in 1 .. MaxIds /\ issued + 1 > issued
      /\ issued' \in 1 .. issued' /\ \A i \in 1 .. issued : i # issued + 1
  BY <1>3, <1>4
<1>6. RecordsApart(catalogue, issued) /\ IsCatalogue(catalogue) /\ Fits(catalogue)
      /\ SeedsApart(catalogue)
  BY <1>4 DEF CatalogueSound
<1>7. IsRecord(r) /\ r.id = issued + 1 /\ r.revision = 1 /\ r.created = clock /\ r.updated = clock
  BY <1>4 DEF IsRecord, Stamped
<1> HIDE DEF r
<1>8. /\ next.workflows = catalogue.workflows \union {r}
      /\ next.retired = catalogue.retired /\ next.seeds = catalogue.seeds
      /\ next = [workflows |-> next.workflows, retired |-> next.retired, seeds |-> next.seeds]
  OBVIOUS
<1>9. form.id = r.id /\ form.revision = 1 /\ form.seen = r.definition
  OBVIOUS
<1> HIDE DEF next, form
<1>10. IsFiniteSet(next.workflows) /\ IsFiniteSet(next.retired) /\ IsFiniteSet(next.seeds)
  BY <1>6, <1>8, FS_AddElement DEF IsCatalogue
<1>11. IsCatalogue(next)
  BY <1>8, <1>10 DEF IsCatalogue
<1>12. \A s \in catalogue.workflows : s.id # r.id
  BY <1>5, <1>6, <1>7 DEF RecordsApart
<1>13. Fits(next)
  <2>1. r \notin catalogue.workflows
    BY <1>12
  <2>2. /\ Cardinality(catalogue.workflows) \in Nat
        /\ Cardinality(catalogue.workflows \union {r}) = Cardinality(catalogue.workflows) + 1
    BY <1>6, <2>1, FS_CardinalityType, FS_AddElement DEF IsCatalogue
  <2>3. Cardinality(next.workflows) <= MAXIMUM_WORKFLOWS
    BY <1>3, <1>8, <2>2 DEF CatalogueAssumed
  <2> QED
    BY <1>6, <1>8, <2>3 DEF Fits
<1>14. SeedsApart(next)
  BY <1>6, <1>8 DEF SeedsApart
<1>15. starterOf[r.id] = NoStarter
  BY <1>4, <1>5, <1>7 DEF Unclaimed
<1>16. CatalogueSound(next, issued', starterOf, deleted, forms)
  BY <1>3, <1>4, <1>7, <1>8, <1>11, <1>13, <1>14, <1>15, AddSound
<1>17. forward => Timely(next, clock)
  BY <1>4, <1>7, <1>8 DEF WorkflowsInv, Timely
<1>18. CASE Persist(next) /\ forms' = [forms EXCEPT ![tab] = form]
  <2>1. SetsForm(forms', forms, tab, form)
    BY <1>4, <1>18, FormIsSet
  <2>2. forms' = [t \in Tab |-> forms'[t]]
    BY <2>1 DEF SetsForm
  <2>3. FormsAreOurs(forms, issued')
    BY <1>4, <1>5, OursWithMore
  <2>4. form.id \in 1 .. issued' /\ form.revision \in Nat
    BY <1>3, <1>5, <1>7, <1>9
  <2>5. FormsAreOurs(forms', issued')
    BY <2>1, <2>3, <2>4, SetFormIsOurs
  <2>6. \A s \in next.workflows : form.id = s.id => Shows(form, s)
    BY <1>7, <1>8, <1>9, <1>12 DEF Shows
  <2>7. FormsLag(next, forms')
    BY <1>16, <2>1, <2>6, SetFormLags DEF CatalogueSound
  <2>8. CatalogueSound(next, issued', starterOf, deleted, forms')
    BY <1>16, <2>7, OtherForms
  <2>9. Unclaimed(starterOf, issued')
    <3>1. \A id \in 1 .. MaxIds : id > issued' => id > issued
      BY <1>3, <1>4
    <3> QED
      BY <1>4, <3>1 DEF Unclaimed
  <2>10. starterOf' = starterOf /\ deleted' = deleted /\ ~overwritten'
    BY <1>3, <1>4
  <2> QED
    BY <1>3, <1>5, <1>17, <1>18, <2>2, <2>5, <2>8, <2>9, <2>10, PersistedKeeps
<1>19. CASE PersistFails(next) /\ UNCHANGED forms
  <2>1. FileLeads(next, catalogue)
    <3> SUFFICES ASSUME NEW m \in catalogue.workflows, NEW s \in next.workflows, m.id = s.id
                 PROVE  m.revision <= s.revision /\ m.definition = s.definition
      BY DEF FileLeads
    <3>1. s = m /\ m.revision \in Nat
      BY <1>6, <1>8, <1>12 DEF RecordsApart, IsRecord
    <3> QED
      BY <3>1
  <2> QED
    BY <1>3, <1>5, <1>16, <1>17, <1>19, <2>1, FailedKeeps
<1> QED
  BY <1>2, <1>18, <1>19

LEMMA HeldRecord ==
    ASSUME WorkflowsInv, NEW tab \in Tab, HoldsForm(tab)
    PROVE  /\ RecordOf(catalogue, forms[tab].id) \in catalogue.workflows
           /\ RecordOf(catalogue, forms[tab].id).id = forms[tab].id
           /\ forms[tab] # NoForm /\ serving
  BY DEF HoldsForm, RecordOf, Ids

(* A form that is accepted shows what it replaces.                         *)
LEMMA NothingUnseen ==
    ASSUME WorkflowsInv, NEW tab \in Tab, HoldsForm(tab), NEW r,
           r = RecordOf(catalogue, forms[tab].id), MayReplace(tab, r)
    PROVE  forms[tab].seen = r.definition
<1>1. r \in catalogue.workflows /\ r.id = forms[tab].id /\ forms[tab] # NoForm /\ serving
  BY HeldRecord
<1>2. FormsLag(catalogue, forms)
  BY <1>1 DEF WorkflowsInv, CatalogueSound
<1>3. Shows(forms[tab], r)
  BY <1>1, <1>2 DEF FormsLag
<1> QED
  BY <1>3 DEF Shows, MayReplace

LEMMA UpdateStep ==
    ASSUME CatalogueAssumed, WorkflowsInv, NEW tab \in Tab, UpdateConfiguration(tab)
    PROVE  WorkflowsInv'
<1> DEFINE old == RecordOf(catalogue, forms[tab].id)
<1>1. PICK name \in Name \union {old.definition.name}, content \in Content :
          LET definition == Definition(name, content)
              r == [id |-> old.id, revision |-> old.revision + 1,
                    definition |-> definition, created |-> old.created, updated |-> clock]
              next == [workflows |-> (catalogue.workflows \ {old}) \union {r},
                    retired |-> catalogue.retired, seeds |-> catalogue.seeds]
          IN /\ MayReplace(tab, old)
             /\ \/ /\ Persist(next)
                   /\ forms' = [forms EXCEPT ![tab] =
                                  [id |-> r.id, revision |-> r.revision,
                                   seen |-> definition]]
                   /\ overwritten' = (overwritten \/ forms[tab].seen # old.definition)
                \/ PersistFails(next) /\ UNCHANGED <<forms, overwritten>>
  BY DEF UpdateConfiguration
<1> DEFINE definition == Definition(name, content)
           r == [id |-> old.id, revision |-> old.revision + 1,
                 definition |-> definition, created |-> old.created, updated |-> clock]
           next == [workflows |-> (catalogue.workflows \ {old}) \union {r},
                    retired |-> catalogue.retired, seeds |-> catalogue.seeds]
           form == [id |-> r.id, revision |-> r.revision, seen |-> definition]
<1>2. /\ MayReplace(tab, old)
      /\ \/ /\ Persist(next) /\ forms' = [forms EXCEPT ![tab] = form]
            /\ overwritten' = (overwritten \/ forms[tab].seen # old.definition)
         \/ PersistFails(next) /\ UNCHANGED <<forms, overwritten>>
  BY <1>1
<1>3. HoldsForm(tab) /\ StaysUp /\ UNCHANGED <<issued, starterOf, deleted>>
  BY DEF UpdateConfiguration
<1>4. old \in catalogue.workflows /\ old.id = forms[tab].id /\ serving
  BY <1>3, HeldRecord
<1>5. forms[tab].seen = old.definition
  BY <1>2, <1>3, NothingUnseen
<1>6. /\ issued \in Nat /\ issued <= issued /\ issued <= MaxIds /\ clock \in Int
      /\ CatalogueSound(catalogue, issued, starterOf, deleted, forms)
      /\ FormsAreOurs(forms, issued) /\ Unclaimed(starterOf, issued)
      /\ forms = [t \in Tab |-> forms[t]] /\ ~overwritten
  BY <1>4 DEF WorkflowsInv
<1>7. RecordsApart(catalogue, issued) /\ IsCatalogue(catalogue)
  BY <1>6 DEF CatalogueSound
<1>8. IsRecord(old) /\ old.id \in 1 .. issued
  BY <1>4, <1>7 DEF RecordsApart
<1> HIDE DEF old, definition
<1>9. /\ r = [id |-> old.id, revision |-> old.revision + 1, definition |-> definition,
              created |-> old.created, updated |-> clock]
      /\ old.revision \in Nat
  BY <1>8 DEF IsRecord
<1>10. /\ IsRecord(r) /\ r.id = old.id /\ r.revision = old.revision + 1
       /\ r.definition = definition /\ r.created = old.created /\ r.updated = clock
  BY <1>6, <1>8, <1>9 DEF IsRecord
<1>12. form.id = r.id /\ form.revision = r.revision /\ form.seen = definition
  OBVIOUS
<1> HIDE DEF r, form
<1>11. /\ next.workflows = (catalogue.workflows \ {old}) \union {r}
       /\ next.retired = catalogue.retired /\ next.seeds = catalogue.seeds
       /\ next = [workflows |-> next.workflows, retired |-> next.retired, seeds |-> next.seeds]
  OBVIOUS
<1> HIDE DEF next
<1>13. IsFiniteSet(next.workflows) /\ IsFiniteSet(next.retired) /\ IsFiniteSet(next.seeds)
  <2>1. IsFiniteSet(catalogue.workflows \ {old})
    BY <1>7, FS_RemoveElement DEF IsCatalogue
  <2>2. IsFiniteSet((catalogue.workflows \ {old}) \union {r})
    BY <2>1, FS_AddElement
  <2> QED
    BY <1>7, <1>11, <2>2 DEF IsCatalogue
<1>14. IsCatalogue(next)
  BY <1>11, <1>13 DEF IsCatalogue
<1>15. Replaces(next, catalogue, old, r)
  BY <1>10, <1>11 DEF Replaces
<1>16. CatalogueSound(next, issued, starterOf, deleted, forms)
  BY <1>4, <1>6, <1>10, <1>14, <1>15, EditSound
<1>17. forward => Timely(next, clock)
  <2> SUFFICES ASSUME forward, NEW s \in next.workflows
               PROVE  s.created <= clock /\ s.created <= s.updated
    BY DEF Timely
  <2>1. Timely(catalogue, clock)
    BY DEF WorkflowsInv
  <2>2. CASE s \in catalogue.workflows
    BY <2>1, <2>2 DEF Timely
  <2>3. CASE s = r
    BY <1>4, <1>10, <2>1, <2>3 DEF Timely
  <2> QED
    BY <1>11, <2>2, <2>3
<1>18. CASE /\ Persist(next) /\ forms' = [forms EXCEPT ![tab] = form]
            /\ overwritten' = (overwritten \/ forms[tab].seen # old.definition)
  <2>1. SetsForm(forms', forms, tab, form)
    BY <1>6, <1>18, FormIsSet
  <2>2. forms' = [t \in Tab |-> forms'[t]]
    BY <2>1 DEF SetsForm
  <2>3. form.id \in 1 .. issued /\ form.revision \in Nat
    BY <1>8, <1>9, <1>10, <1>12
  <2>4. FormsAreOurs(forms', issued)
    BY <1>6, <2>1, <2>3, SetFormIsOurs
  <2>5. RecordsApart(next, issued)
    BY <1>16 DEF CatalogueSound
  <2>6. \A s \in next.workflows : form.id = s.id => Shows(form, s)
    <3> SUFFICES ASSUME NEW s \in next.workflows, form.id = s.id
                 PROVE  Shows(form, s)
      OBVIOUS
    <3>1. s = r
      BY <1>11, <1>12, <2>5 DEF RecordsApart
    <3> QED
      BY <1>10, <1>12, <2>3, <3>1 DEF Shows
  <2>7. FormsLag(next, forms')
    BY <1>16, <2>1, <2>6, SetFormLags DEF CatalogueSound
  <2>8. CatalogueSound(next, issued, starterOf, deleted, forms')
    BY <1>16, <2>7, OtherForms
  <2>9. ~overwritten'
    BY <1>5, <1>6, <1>18
  <2>10. issued' = issued /\ starterOf' = starterOf /\ deleted' = deleted
    BY <1>3
  <2> QED
    BY <1>3, <1>4, <1>6, <1>17, <1>18, <2>2, <2>4, <2>8, <2>9, <2>10, PersistedKeeps
<1>19. CASE PersistFails(next) /\ UNCHANGED <<forms, overwritten>>
  <2>1. FileLeads(next, catalogue)
    <3> SUFFICES ASSUME NEW m \in catalogue.workflows, NEW s \in next.workflows, m.id = s.id
                 PROVE  /\ m.revision <= s.revision
                        /\ m.revision = s.revision => m.definition = s.definition
      BY DEF FileLeads
    <3>1. m.revision \in Nat
      BY <1>7 DEF RecordsApart, IsRecord
    <3>2. CASE s \in catalogue.workflows
      <4>1. s = m
        BY <1>7, <3>2 DEF RecordsApart
      <4> QED
        BY <3>1, <4>1
    <3>3. CASE s = r
      <4>1. m = old
        BY <1>4, <1>7, <1>10, <3>3 DEF RecordsApart
      <4> QED
        BY <1>10, <3>1, <3>3, <4>1
    <3> QED
      BY <1>11, <3>2, <3>3
  <2>2. issued' = issued /\ UNCHANGED <<forms, starterOf, deleted, overwritten>>
    BY <1>3, <1>19
  <2> QED
    BY <1>3, <1>4, <1>6, <1>16, <1>17, <1>19, <2>1, <2>2, FailedKeeps
<1> QED
  BY <1>2, <1>18, <1>19

LEMMA DeleteWorkflowStep ==
    ASSUME CatalogueAssumed, WorkflowsInv, NEW tab \in Tab, DeleteWorkflow(tab)
    PROVE  WorkflowsInv'
<1> DEFINE old == RecordOf(catalogue, forms[tab].id)
           next == [workflows |-> catalogue.workflows \ {old},
                    retired |-> catalogue.retired \union {old.id},
                    seeds |-> catalogue.seeds]
<1>1. /\ MayReplace(tab, old)
      /\ Cardinality(catalogue.retired) < MAXIMUM_RETIRED_IDS
      /\ \/ /\ Persist(next) /\ forms' = [forms EXCEPT ![tab] = NoForm]
            /\ deleted' = deleted \union {starterOf[old.id]}
            /\ overwritten' = (overwritten \/ forms[tab].seen # old.definition)
         \/ PersistFails(next) /\ UNCHANGED <<forms, deleted, overwritten>>
  BY DEF DeleteWorkflow
<1>2. HoldsForm(tab) /\ StaysUp /\ UNCHANGED <<issued, starterOf>>
  BY DEF DeleteWorkflow
<1>3. old \in catalogue.workflows /\ old.id = forms[tab].id /\ serving
  BY <1>2, HeldRecord
<1>4. forms[tab].seen = old.definition
  BY <1>1, <1>2, NothingUnseen
<1>5. /\ issued \in Nat /\ issued <= issued /\ issued <= MaxIds /\ clock \in Int
      /\ CatalogueSound(catalogue, issued, starterOf, deleted, forms)
      /\ FormsAreOurs(forms, issued) /\ Unclaimed(starterOf, issued)
      /\ forms = [t \in Tab |-> forms[t]] /\ ~overwritten
  BY <1>3 DEF WorkflowsInv
<1>6. RecordsApart(catalogue, issued) /\ IsCatalogue(catalogue)
  BY <1>5 DEF CatalogueSound
<1> HIDE DEF old
<1>7. /\ next.workflows = catalogue.workflows \ {old}
      /\ next.retired = catalogue.retired \union {old.id}
      /\ next.seeds = catalogue.seeds
      /\ next = [workflows |-> next.workflows, retired |-> next.retired, seeds |-> next.seeds]
  OBVIOUS
<1> HIDE DEF next
<1>8. IsFiniteSet(next.workflows) /\ IsFiniteSet(next.retired) /\ IsFiniteSet(next.seeds)
  <2>1. /\ IsFiniteSet(catalogue.workflows \ {old})
        /\ IsFiniteSet(catalogue.retired \union {old.id})
    BY <1>6, FS_RemoveElement, FS_AddElement DEF IsCatalogue
  <2> QED
    BY <1>6, <1>7, <2>1 DEF IsCatalogue
<1>9. IsCatalogue(next)
  BY <1>7, <1>8 DEF IsCatalogue
<1>10. Drops(next, catalogue, old)
  BY <1>7 DEF Drops
<1>11. /\ CatalogueSound(next, issued, starterOf, deleted, forms)
       /\ CatalogueSound(next, issued, starterOf, deleted \union {starterOf[old.id]}, forms)
  BY <1>1, <1>3, <1>5, <1>9, <1>10, DropSound
<1>12. forward => Timely(next, clock)
  BY <1>7 DEF WorkflowsInv, Timely
<1>13. CASE /\ Persist(next) /\ forms' = [forms EXCEPT ![tab] = NoForm]
            /\ deleted' = deleted \union {starterOf[old.id]}
            /\ overwritten' = (overwritten \/ forms[tab].seen # old.definition)
  <2>1. SetsForm(forms', forms, tab, NoForm)
    BY <1>5, <1>13, FormIsSet
  <2>2. forms' = [t \in Tab |-> forms'[t]]
    BY <2>1 DEF SetsForm
  <2>3. FormsAreOurs(forms', issued)
    BY <1>5, <2>1, SetFormIsOurs
  <2>4. FormsLag(next, forms')
    BY <1>11, <2>1, SetFormLags DEF CatalogueSound
  <2>5. CatalogueSound(next, issued, starterOf, deleted', forms')
    BY <1>11, <1>13, <2>4, OtherForms
  <2>6. ~overwritten'
    BY <1>4, <1>5, <1>13
  <2>7. issued' = issued /\ starterOf' = starterOf
    BY <1>2
  <2> QED
    BY <1>2, <1>3, <1>5, <1>12, <1>13, <2>2, <2>3, <2>5, <2>6, <2>7, PersistedKeeps
<1>14. CASE PersistFails(next) /\ UNCHANGED <<forms, deleted, overwritten>>
  <2>1. FileLeads(next, catalogue)
    <3> SUFFICES ASSUME NEW m \in catalogue.workflows, NEW s \in next.workflows, m.id = s.id
                 PROVE  m.revision <= s.revision /\ m.definition = s.definition
      BY DEF FileLeads
    <3>1. s = m /\ m.revision \in Nat
      BY <1>6, <1>7 DEF RecordsApart, IsRecord
    <3> QED
      BY <3>1
  <2>2. issued' = issued /\ UNCHANGED <<forms, starterOf, deleted, overwritten>>
    BY <1>2, <1>14
  <2> QED
    BY <1>2, <1>3, <1>5, <1>11, <1>12, <1>14, <2>1, <2>2, FailedKeeps
<1> QED
  BY <1>1, <1>13, <1>14

LEMMA WorkflowsStep ==
    ASSUME CatalogueAssumed, WorkflowsInv, [CatalogueNext]_catalogueVars
    PROVE  WorkflowsInv'
<1>1. CASE StartWorkflows
  BY <1>1, StartWorkflowsStep
<1>2. CASE StopWorkflows
  BY <1>2, StopWorkflowsStep
<1>3. CASE ClockMoves
  BY <1>3, ClockMovesStep
<1>4. ASSUME NEW tab \in Tab, OpenConfiguration(tab)
      PROVE  WorkflowsInv'
  BY <1>4, OpenStep
<1>5. ASSUME NEW tab \in Tab, CreateWorkflow(tab)
      PROVE  WorkflowsInv'
  BY <1>5, CreateWorkflowStep
<1>6. ASSUME NEW tab \in Tab, UpdateConfiguration(tab)
      PROVE  WorkflowsInv'
  BY <1>6, UpdateStep
<1>7. ASSUME NEW tab \in Tab, DeleteWorkflow(tab)
      PROVE  WorkflowsInv'
  BY <1>7, DeleteWorkflowStep
<1>8. CASE UNCHANGED catalogueVars
  BY <1>8 DEF catalogueVars, WorkflowsInv
<1> QED
  BY <1>1, <1>2, <1>3, <1>4, <1>5, <1>6, <1>7, <1>8 DEF CatalogueNext

LEMMA WorkflowsInvShows ==
    ASSUME WorkflowsInv
    PROVE  WorkflowsLoad /\ EditsAreNotLost
<1>1. WorkflowsLoad
  BY SoundLoads DEF WorkflowsInv, WorkflowsLoad
<1>2. StartersStayDeleted
  <2>1. CASE serving
    BY <2>1 DEF WorkflowsInv, CatalogueSound, DeletedStay, StartersStayDeleted
  <2>2. CASE ~serving
    BY <2>2 DEF WorkflowsInv, NoWorkflows, StartersStayDeleted
  <2> QED
    BY <2>1, <2>2
<1> QED
  BY <1>1, <1>2 DEF WorkflowsInv, EditsAreNotLost

(* The inductive invariant of the catalogue of workflows (WorkflowsInv,    *)
(* above): workflows/catalogue.rs.                                         *)
THEOREM WorkflowsInvHolds == CatalogueSpec => []WorkflowsInv
  BY CatalogueAssumed, WorkflowsStart, WorkflowsStep, PTL DEF CatalogueSpec

(* No edit and no deletion replaces something its user had not seen, and a *)
(* starter that was deleted does not come back (EditsAreNotLost).          *)
THEOREM EditsAreNeverLost == CatalogueSpec => []EditsAreNotLost
  BY WorkflowsInvHolds, WorkflowsInvShows, PTL

(* The file of workflows loads whatever was written (WorkflowsLoad).       *)
THEOREM WorkflowsAlwaysLoad == CatalogueSpec => []WorkflowsLoad
  BY WorkflowsInvHolds, WorkflowsInvShows, PTL
===============================================================================
