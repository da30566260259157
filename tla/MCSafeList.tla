----------------------------- MODULE MCSafeList -----------------------------
\* SafeList on small instances.
EXTENDS SafeList, TLC

Symmetry == Permutations(Nodes) \cup Permutations(Buffers)
              \cup Permutations(Threads \ AtDispatch)

\* State constraint: nothing is explored after a search has missed in a list
\* that is not empty, where the behaviour is undefined.
Intact == intact
=============================================================================
