---------------------------- MODULE MCSendSystem ----------------------------
\* The send pattern and the shutdown of a component on small instances.
EXTENDS SendSystem
=============================================================================
