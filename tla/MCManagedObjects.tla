--------------------------- MODULE MCManagedObjects ---------------------------
\* Model values for ManagedObjects.
EXTENDS ManagedObjects
CONSTANTS r1, d1, q1, q2
===============================================================================
