---------------------------- MODULE MCEventStream ----------------------------
\* Two jobs and two connections. Jobs are alike, and so are connections, so states that differ
\* by a renaming of either are one.
EXTENDS EventStream

Symmetry == Permutations(Jobs) \cup Permutations(Streams)
=============================================================================
