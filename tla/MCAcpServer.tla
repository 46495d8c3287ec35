----------------------------- MODULE MCAcpServer -----------------------------
\* Instances of AcpServer for TLC: the sets of the configurations, and symmetry.
EXTENDS AcpServer, TLC

OneMode == {"act"}
AllRequests == Kinds
CloseOnly == {"close"}
LoadOnly == {"load"}
\* Every handler that waits for a prompt, and the ways to stop the server.
Waiting == {"load", "close", "delete", "cancel", "eof", "sigterm"}

Symmetry == Permutations(Sessions) \cup Permutations(Prompts) \cup Permutations(Agents)
=============================================================================
