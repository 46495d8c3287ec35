---------------------------- MODULE MCSessionStore ----------------------------
\* Instances of SessionStore for TLC.
EXTENDS SessionStore, TLC

Symmetry == Permutations(Procs) \cup Permutations(Ids)

\* A session whose lock has been undermined is followed no further.
LocksIntact == raced = {} /\ stray = {}
================================================================================
