-------------------------- MODULE MCCandidateLedger --------------------------
EXTENDS CandidateLedger, TLC

\* Candidates, plans and calls are each interchangeable.
Symmetric == Permutations(Candidates) \cup Permutations(Plans) \cup Permutations(Calls)
==============================================================================
