----------------------------- MODULE MCLifecycle -----------------------------
\* Model values for Lifecycle.
EXTENDS Lifecycle
CONSTANTS n1, n2, q1, q2
===============================================================================
