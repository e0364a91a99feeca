--------------------------- MODULE MCQueryServer ----------------------------
\* The query server on small instances.
EXTENDS QueryServer, TLC

\* Workers are interchangeable (used for safety only).
Symmetric == Permutations(Workers)
=============================================================================
