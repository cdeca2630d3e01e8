----------------------------- MODULE MCApprovals ----------------------------
EXTENDS Approvals, TLC

Symmetry == Permutations(JobId) \union Permutations(RequestId) \union
            Permutations(Handler)
=============================================================================
