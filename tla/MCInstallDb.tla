---------------------------- MODULE MCInstallDb ----------------------------
\* InstallDb on small instances.
EXTENDS InstallDb, TLC

CONSTANT MaxId

Symmetry == Permutations(Workers) \cup Permutations(Images \ Filtered)

\* State constraint: the bound on the ids that are generated.
Bounded == max_software_id_ < MaxId
=============================================================================
