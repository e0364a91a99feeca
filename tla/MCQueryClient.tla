--------------------------- MODULE MCQueryClient ----------------------------
\* The query client on small instances.
EXTENDS QueryClient, TLC

\* Users are interchangeable (used for safety only).
Symmetric == Permutations(Users)
=============================================================================
