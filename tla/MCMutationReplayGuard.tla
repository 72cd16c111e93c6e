----------------------- MODULE MCMutationReplayGuard -----------------------
EXTENDS MutationReplayGuard, TLC

CONSTANTS patch, diff

\* workspace_transaction(apply_diff) calls apply_unified_diff.
ApplyDiff == [b \in Bodies |-> IF b = patch THEN diff ELSE NoBody]

SessionSymmetry == Permutations(Sessions)
=============================================================================
