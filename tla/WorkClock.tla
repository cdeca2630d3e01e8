----------------------------- MODULE WorkClock ------------------------------
(***************************************************************************)
(* How long the jobs of a conversation worked (sessions/job/clock.rs and   *)
(* the table work_times of conversations/store/sqlite.rs).  The clock runs *)
(* while a job runs and rests while it waits for the user.  Whoever takes  *)
(* a checkpoint saves it outside every lock, so saves arrive in any order, *)
(* some of them after the job has ended; a save that fails is logged and   *)
(* dropped.  Time is counted in the periods of a checkpoint.               *)
(***************************************************************************)
EXTENDS Naturals, FiniteSets, FiniteSetsExt

CONSTANTS
    Job,        \* the jobs of one conversation, one after the other
    MaxTicks,   \* periods of work of a job
    NoJob,
    SaveFaults  \* saves that may fail

VARIABLES
    running,    \* the job that runs, or NoJob
    waits,      \* it waits for a decision or an answer
    elapsed,    \* what the clock of each job says
    started,    \* jobs whose clock was ever started
    due,        \* a period has passed since the last checkpoint
    saves,      \* checkpoints on their way to the store: <<job, elapsed>>
    workTimes,  \* the rows of the table: <<job, elapsed>>
    lost        \* checkpoints that were not saved

clockVars == <<running, waits, elapsed, started, due, saves, workTimes, lost>>

ClockInit ==
    /\ running = NoJob /\ waits = FALSE /\ due = FALSE
    /\ elapsed = [job \in Job |-> 0]
    /\ started = {} /\ saves = {} /\ workTimes = {} /\ lost = {}

(* track_work and start_work: the job has been claimed in the store. *)
Start(job) ==
    /\ running = NoJob /\ job \notin started
    /\ running' = job /\ waits' = FALSE /\ due' = FALSE
    /\ started' = started \union {job}
    /\ saves' = saves \union {<<job, 0>>}
    /\ UNCHANGED <<elapsed, workTimes, lost>>

Work ==
    /\ running # NoJob /\ ~waits /\ elapsed[running] < MaxTicks
    /\ elapsed' = [elapsed EXCEPT ![running] = @ + 1]
    /\ due' = TRUE
    /\ UNCHANGED <<running, waits, started, saves, workTimes, lost>>

(* checkpoint: forced at a pause and at the end, otherwise when it is due. *)
Taken == saves' = saves \union {<<running, elapsed[running]>>}

Checkpoint ==
    /\ running # NoJob /\ ~waits /\ due
    /\ Taken /\ due' = FALSE
    /\ UNCHANGED <<running, waits, elapsed, started, workTimes, lost>>

(* set_awaiting_decision, set_awaiting_question *)
Pause ==
    /\ running # NoJob /\ ~waits
    /\ waits' = TRUE
    /\ Taken /\ due' = FALSE
    /\ UNCHANGED <<running, elapsed, started, workTimes, lost>>

Resume ==
    /\ running # NoJob /\ waits
    /\ waits' = FALSE
    /\ UNCHANGED <<running, elapsed, started, due, saves, workTimes, lost>>

Finish ==
    /\ running # NoJob
    /\ running' = NoJob /\ waits' = FALSE
    /\ Taken /\ due' = FALSE
    /\ UNCHANGED <<elapsed, started, workTimes, lost>>

(* record_work_time: of two saves of a job the longer counts. *)
LastSave(rows, job, time) == {row \in rows : row[1] # job} \union {<<job, time>>}
RecordWorkTime(rows, job, time) ==
    {row \in rows : row[1] # job}
        \union {<<job, Max({time} \union {row[2] : row \in {r \in rows : r[1] = job}})>>}

Save ==
    \E save \in saves :
        /\ saves' = saves \ {save}
        /\ \/ /\ workTimes' = RecordWorkTime(workTimes, save[1], save[2])
              /\ UNCHANGED lost
           \/ /\ Cardinality(lost) < SaveFaults
              /\ lost' = lost \union {save}
              /\ UNCHANGED workTimes
        /\ UNCHANGED <<running, waits, elapsed, started, due>>

ClockNext ==
    \/ \E job \in Job : Start(job)
    \/ Work \/ Checkpoint \/ Pause \/ Resume \/ Finish \/ Save

ClockSpec == ClockInit /\ [][ClockNext]_clockVars

-----------------------------------------------------------------------------
(* work_time: the stored times, with that of a live job from its clock. *)
WorkTime ==
    MapThenSumSet(LAMBDA row : IF row[1] = running THEN 0 ELSE row[2], workTimes)
        + (IF running = NoJob THEN 0 ELSE elapsed[running])

Worked == MapThenSumSet(LAMBDA job : elapsed[job], Job)

(* The page never shows more than the jobs worked, whatever the order in   *)
(* which the saves arrive, and never counts the time they waited; once     *)
(* every checkpoint has been saved it shows exactly that.                  *)
WorkTimeIsWhole ==
    /\ WorkTime <= Worked
    /\ (saves = {} /\ lost = {}) => WorkTime = Worked
=============================================================================
