---------------------------- MODULE MCSessionDiff ----------------------------
\* An instance of SessionDiff for TLC.
EXTENDS SessionDiff

MCFiles == [path \in Paths |-> <<"a", "b", "c", "d">>]

Marked(mark, text) == [mark |-> mark, text |-> text]
Edit(old, new) == <<[kind |-> "edit", path |-> "x", hunks |-> <<<<Marked("-", old), Marked("+", new)>>>>]>>

\* One line at a time.
MCEdits == {Edit("a", "e"), Edit("c", "f"), Edit("d", "g"), Edit("b", "a")}
=============================================================================
