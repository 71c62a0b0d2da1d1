-------------------------- MODULE MCDurableReview ---------------------------
EXTENDS DurableReview, TLC

Symmetry == Permutations(Proposals) \cup Permutations(Keys)
                \cup Permutations(Dispositions) \cup Permutations(Clients)
                \cup Permutations(Foreign)

=============================================================================
