------------------------ MODULE MCConversationStore ------------------------
EXTENDS ConversationStore, TLC

Symmetry == Permutations(JobId) \union Permutations(Settings) \union
            Permutations(QueueItem)
=============================================================================
