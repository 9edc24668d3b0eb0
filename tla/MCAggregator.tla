---------------------------- MODULE MCAggregator ----------------------------
\* Two foreign nodes, which nothing tells apart.
EXTENDS Aggregator, TLC

CONSTANTS n1, n2

MCNodes == {n1, n2}
Symmetry == Permutations(MCNodes)
=============================================================================
