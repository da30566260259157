------------------------------ MODULE MCIoctl ------------------------------
\* Ioctl on small instances.
EXTENDS Ioctl, TLC

Symmetry == Permutations(Clients) \cup Permutations(Senders) \cup Permutations(Irps)

\* State constraint: nothing is explored after a linked node was deleted, where
\* the behaviour is undefined and no property claims anything.
Intact == dangling = {}
=============================================================================
