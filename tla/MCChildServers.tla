--------------------------- MODULE MCChildServers ---------------------------
\* Instances of ChildServers for TLC.
EXTENDS ChildServers

\* Two publications fill the updated channel and drop an update; one stray frame is
\* enough for each race of the other connections.
Noise == [k \in Kinds |-> IF k = "lsp" THEN 2 ELSE 1]
=============================================================================
