------------------------------ MODULE Ownership -----------------------------
(***************************************************************************)
(* What the handoff of a prepared workflow promises                        *)
(* (docs/conversation-system.md, "Ownership and recovery"): one            *)
(* conversation owns the run at any time, ownership never returns to an    *)
(* earlier owner, and between a change of owner and the moment both        *)
(* conversations were told of it nobody decides what the run waits for.    *)
(***************************************************************************)
CONSTANT Conversation

VARIABLES
    owner,      \* the conversation that owns the run
    past,       \* those that owned it before
    told,       \* both sides of the last change of owner know of it
    decided     \* the decision the run waited for was made

ownershipVars == <<owner, past, told, decided>>

OwnershipInit ==
    /\ owner \in Conversation
    /\ past = {}
    /\ told = TRUE
    /\ decided = FALSE

Move ==
    /\ told /\ ~decided
    /\ owner' \in Conversation \ (past \union {owner})
    /\ past' = past \union {owner}
    /\ told' = FALSE
    /\ UNCHANGED decided

Tell ==
    /\ ~told
    /\ told' = TRUE
    /\ UNCHANGED <<owner, past, decided>>

Decide ==
    /\ told /\ ~decided
    /\ decided' = TRUE
    /\ UNCHANGED <<owner, past, told>>

OwnershipSpec == OwnershipInit /\ [][Move \/ Tell \/ Decide]_ownershipVars
=============================================================================
