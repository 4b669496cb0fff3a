----------------------------- MODULE MCRuntime -----------------------------
\* Two replicas, the smallest cluster in which a leader depends on a follower.
EXTENDS Runtime

TwoNodes == 1..2
=============================================================================
