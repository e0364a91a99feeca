--------------------------- MODULE MCTimerManager ---------------------------
\* The timer manager on small instances.
EXTENDS TimerManager, TLC

\* Callers and handlers are interchangeable (used for safety only).
Symmetric == Permutations(Callers) \cup Permutations(Handlers)
=============================================================================
