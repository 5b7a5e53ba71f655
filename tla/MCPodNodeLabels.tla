--------------------------- MODULE MCPodNodeLabels ---------------------------
EXTENDS PodNodeLabels, TLC

CONSTANTS p1, p2, p3, plugin, dra

\* Two Pods of one role, as during an upgrade, and one of the other.
TwoVersions == p1 :> plugin @@ p2 :> plugin @@ p3 :> dra
=============================================================================
