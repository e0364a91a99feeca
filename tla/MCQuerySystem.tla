--------------------------- MODULE MCQuerySystem ----------------------------
\* The query client and the query server together on a small instance.
EXTENDS QuerySystem, TLC
=============================================================================
