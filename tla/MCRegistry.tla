------------------------------ MODULE MCRegistry ------------------------------
\* Archives with one verdict each, whatever package they are sent to.
EXTENDS Registry, TLC

CONSTANTS Good1, Good2,   \* archives every rule accepts
          Big, Broken, Bad \* over the cap, corrupt, failing a rule

MCVerdict == [dp \in Digests \X Packages |->
    CASE dp[1] = Big -> "too_large"
      [] dp[1] = Broken -> "corrupt"
      [] dp[1] = Bad -> "rejected"
      [] OTHER -> "accepted"]

Symmetry == Permutations(Callers)
=============================================================================
