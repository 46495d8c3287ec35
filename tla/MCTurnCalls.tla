---------------------------- MODULE MCTurnCalls -----------------------------
\* An instance of TurnCalls for TLC.
EXTENDS TurnCalls

\* A .git without hooks and objects, and one with an object and a hook the guard does
\* not read.
GitOf(hook, object) ==
    [path \in GitPaths |->
        IF path \in Trees THEN hook ELSE IF path \in Watched THEN "old" ELSE object]
Plain == GitOf("none", "none")
Odd == GitOf("odd", "old")

\* Commands and jobs, killed jobs and hooks around them, a parallel batch with hooks, or the file tools.
MCStarts == {[offered |-> {"bash"}, git |-> Plain, spent |-> 0],
             [offered |-> {"bash", "bash_kill", "hooks"}, git |-> Plain, spent |-> 1],
             [offered |-> {"read_file", "hooks"}, git |-> Odd, spent |-> 0],
             [offered |-> {"apply_patch"}, git |-> Plain, spent |-> 1]}

\* A hook, a link in the place of HEAD, an object.
MCWrites == {<<"hooks/pre-commit", "commands">>, <<"HEAD", "odd">>, <<"objects/1", "commands">>}

MCFiles == [path \in Paths |-> IF path = "x" THEN <<"a">> ELSE IF path = "y" THEN <<"a", "a">> ELSE Missing]

Line(mark, text) == [mark |-> mark, text |-> text]
Write(path, lines) == [kind |-> "write", path |-> path, lines |-> lines]
Edit(path, hunk) == [kind |-> "edit", path |-> path, hunks |-> <<hunk>>]
Patch(lines) == [kind |-> "patch", patch |-> <<Line("begin", "")>> \o lines]
End == Line("end", "")
At == Line("@@", "")

\* Hunks that match once, twice or not at all, one that needs the one before it, one that
\* is empty; patches that fail at their second file or at one nobody may write; a patch
\* without an end, and one with a line before its first file.
MCEdits == {
    Edit("y", <<Line("-", "a"), Line("-", "a"), Line("+", "b")>>),
    Write("y", <<"a">>), Write("x", <<"a", "a", "a">>),
    Patch(<<Line("update", "x"), At, Line("-", "a"), Line("+", "b"), At, Line("", "b"), Line("+", "a"),
            Line("update", "y"), Line("-", "a"), Line("+", "b"), End, Line("update", "x")>>),
    Patch(<<Line("delete", "y"), Line("add", "y"), Line("", "a"), Line("add", "git"), Line("+", "a"), End>>),
    Patch(<<Line("delete", "x")>>), Patch(<<Line("+", "a"), Line("delete", "x"), End>>) }

Data(text, pieces) == [kind |-> "data", chunk |-> [text |-> text, calls |-> pieces, error |-> FALSE]]
Says(text) == Data(text, <<>>)
Piece(index, id, args) == [index |-> index, id |-> id, args |-> args]
Calls(index, id, args) == Data(<<>>, <<Piece(index, id, args)>>)
Errs == [kind |-> "data", chunk |-> [text |-> <<>>, calls |-> <<>>, error |-> TRUE]]
Blank == [kind |-> "blank"]
Note == [kind |-> "note"]
DoneLine == [kind |-> "done"]

\* Text in two pieces with space around it; two calls whose fragments alternate, from
\* chunk to chunk and in one chunk; indices from 1; an error; a chunk too many in an event;
\* an answer too long; an event that nothing ends.
MCScripts == {
    <<Says(<<" ", "a">>), Blank, Note, Says(<<"b", " ">>), Blank, Blank, DoneLine>>,
    <<Calls(0, "x", <<"a">>), Blank, Calls(1, "y", <<" ", "b">>), Blank, Calls(0, "", <<"c">>), Blank, DoneLine>>,
    <<Data(<<"c">>, <<Piece(1, "y", <<"b">>), Piece(0, "x", <<" ">>), Piece(1, "", <<"a">>)>>), DoneLine>>,
    <<Calls(1, "x", <<"a">>), Blank, Calls(2, "y", <<"b">>), Blank, DoneLine>>,
    <<Says(<<"a">>), Blank, Errs, Blank, DoneLine>>,
    <<Says(<<"a">>), Says(<<"b">>), Blank, DoneLine>>,
    <<Says(<<"a", "b", "c">>), Blank, Calls(0, "x", <<"a", "b">>), Blank, DoneLine>>,
    <<Says(<<"a">>)>> }
=============================================================================
