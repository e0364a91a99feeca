---------------------------- MODULE MCPushClient ----------------------------
\* The push client and its server on small instances.
EXTENDS PushClient, TLC

\* Users are interchangeable (used for safety only).
Symmetric == Permutations(Users)
=============================================================================
