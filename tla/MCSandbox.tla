----------------------------- MODULE MCSandbox -----------------------------
EXTENDS Sandbox, TLC

CONSTANTS t1, t2

\* One thread gets deeper into nested calls than the other.
Depths == t1 :> 3 @@ t2 :> 2

Symmetry == Permutations(Sandboxes) \cup Permutations(Keys) \cup Permutations(Indices)
=============================================================================
