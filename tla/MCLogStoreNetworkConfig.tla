---------------------- MODULE MCLogStoreNetworkConfig ----------------------
\* Two streams: s1, which may change twice within a block, with a partition of
\* this cluster node; s2, which may not, with one of this node and one of another.
EXTENDS LogStoreNetworkConfig

CONSTANTS s1, s2, s1p0, s2p0, s2p1

MCStreams == {s1, s2}
MCSteadyStreams == {s2}
MCElements == {s1p0, s2p0, s2p1}
MCStreamOf == [e \in MCElements |-> IF e = s1p0 THEN s1 ELSE s2]
MCIndex == [e \in MCElements |-> IF e = s2p1 THEN 1 ELSE 0]
=============================================================================
