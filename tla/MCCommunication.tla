-------------------------- MODULE MCCommunication --------------------------
\* Communication on a small instance.
EXTENDS Communication
=============================================================================
