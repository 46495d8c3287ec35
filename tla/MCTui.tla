------------------------------ MODULE MCTui ------------------------------
\* An instance of the front ends for TLC.
EXTENDS LineRepl
=============================================================================
