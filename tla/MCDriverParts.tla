--------------------------- MODULE MCDriverParts ---------------------------
\* The driver's parts on small instances.
EXTENDS DriverParts
=============================================================================
