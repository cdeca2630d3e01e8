----------------------------- MODULE MCHandoff ------------------------------
EXTENDS HandoffTransfer, TLC

Symmetry ==
    Permutations(Conversation \ {First}) \union Permutations(JobId)
        \union Permutations(Handler)
=============================================================================
