------------------------------ MODULE MCSessions ----------------------------
(***************************************************************************)
(* What the server keeps for a session: the session store with its         *)
(* middleware and its purge (Sessions), and the consent store              *)
(* (AccessConsent).  The two share no state; the first state picks one.    *)
(***************************************************************************)
EXTENDS Sessions, AccessConsent, TLC

VARIABLE part

partsVars == <<part, allVars, consentVars>>

PartsInit ==
    /\ part \in {"sessions", "consent"}
    /\ SessionsInit
    /\ ConsentInit

PartsNext ==
    /\ UNCHANGED part
    /\ \/ part = "sessions" /\ SessionsNext /\ UNCHANGED consentVars
       \/ part = "consent" /\ ConsentNext /\ UNCHANGED allVars

PartsSpec == PartsInit /\ [][PartsNext]_partsVars

Symmetry ==
    Permutations(JobId) \union Permutations(SessionId)
        \union Permutations(Conversation)
=============================================================================
