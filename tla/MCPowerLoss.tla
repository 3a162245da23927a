----------------------------- MODULE MCPowerLoss -----------------------------
\* Archives that are accepted, whatever package they are sent to.
EXTENDS PowerLoss, TLC

MCVerdict == [dp \in Digests \X Packages |-> "accepted"]

Symmetry == Permutations(Callers) \cup Permutations(Digests)
=============================================================================
