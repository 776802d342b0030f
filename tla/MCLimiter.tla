------------------------------- MODULE MCLimiter -------------------------------
EXTENDS Limiter, TLC

CONSTANTS c1, c2

\* The client's limit is the smaller one, the shared limit is, or the other client has
\* one and nothing is shared.
SomeLimits ==
    {[own |-> (c1 :> 1) @@ (c2 :> None), all |-> 2],
     [own |-> (c1 :> 2) @@ (c2 :> None), all |-> 1],
     [own |-> (c1 :> None) @@ (c2 :> 1), all |-> None]}

Symmetry == Permutations(Checks)
=============================================================================
