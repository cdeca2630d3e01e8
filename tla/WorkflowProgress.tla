--------------------------- MODULE WorkflowProgress -------------------------
(***************************************************************************)
(* What a workflow run promises, without attempts, jobs or stores: it goes *)
(* through its steps in order, one at a time, a step may send it back to   *)
(* an earlier one less often than its limit, and once it stopped nothing   *)
(* moves it.  WorkflowExecutor implements this specification through       *)
(* failed writes, crashes and restarts.                                    *)
(***************************************************************************)
EXTENDS Integers, Sequences

VARIABLES
    plan,      \* per step, where it may send the run back and how often
    place,     \* the step the run stands at; past the last one: completed
    busy,      \* something is open at that step: an attempt or a gate
    returns    \* how often each step has sent the run back

vars == <<plan, place, busy, returns>>

Stopped == 0
Completed == Len(plan) + 1
Running == place \in DOMAIN plan

Init ==
    /\ place = 1
    /\ busy = FALSE
    /\ returns = [s \in DOMAIN plan |-> 0]

Begin ==
    /\ Running /\ ~busy
    /\ busy' = TRUE
    /\ UNCHANGED <<plan, place, returns>>

Advance ==
    /\ Running /\ busy
    /\ place' = place + 1
    /\ busy' = FALSE
    /\ UNCHANGED <<plan, returns>>

SendBack ==
    /\ Running /\ busy
    /\ returns[place] + 1 < plan[place].limit
    /\ returns' = [returns EXCEPT ![place] = @ + 1]
    /\ place' = plan[place].target
    /\ busy' = FALSE
    /\ UNCHANGED plan

Stop ==
    /\ Running
    /\ place' = Stopped
    /\ busy' = FALSE
    /\ UNCHANGED <<plan, returns>>

Next == Begin \/ Advance \/ SendBack \/ Stop

Spec == Init /\ [][Next]_vars
=============================================================================
