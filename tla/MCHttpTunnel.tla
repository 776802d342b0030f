----------------------------- MODULE MCHttpTunnel -----------------------------
EXTENDS HttpTunnel, FiniteSets, TLC

\* Connections and requests are only compared for equality.
Symmetry == Permutations(Reqs) \cup Permutations(Conns)

\* Bound: one request at a time is forwarded as a stream, one as an upgrade.
OneOfAKind ==
    /\ Cardinality({r \in Reqs : mode[r] = "stream"}) <= 1
    /\ Cardinality({r \in Reqs : mode[r] \in {"upgrade", "lapsed"}}) <= 1
===============================================================================
