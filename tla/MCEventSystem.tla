--------------------------- MODULE MCEventSystem ----------------------------
\* The event pattern on small instances: bytes of two binary digits, GUIDs of two
\* bytes. The digits of the second session's GUID read at the wrong places give the
\* first.
EXTENDS EventSystem, TLC

MCVirtualGuid == <<<<1, 3>>, <<1, 2>>>>

\* Users are interchangeable.
Symmetric == Permutations(Users)
=============================================================================
