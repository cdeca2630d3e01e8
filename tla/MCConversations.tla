-------------------------- MODULE MCConversations --------------------------
EXTENDS Conversations, TLC

Symmetry ==
    Permutations(JobId) \union Permutations(Handler) \union
    Permutations(QueueItem) \union Permutations(Settings)
=============================================================================
