----------------------------- MODULE MCReassembly -----------------------------
EXTENDS Reassembly, TLC

\* What a server and a client may agree on (monitor/helpers.go
\* negotiateCapabilities, client/types.go): anything, or both features.
AllFeatures  == SUBSET {"streaming", "flowControl"}
BothFeatures == {{"streaming", "flowControl"}}

\* Read loops are only compared for equality.
Symmetry == Permutations(Readers)
=============================================================================
