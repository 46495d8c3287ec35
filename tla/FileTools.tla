------------------------------ MODULE FileTools ------------------------------
(***************************************************************************)
(* The tools that change files (write_file and edit_file of fs.go,          *)
(* apply_patch of apply.go), the stack of snapshots they leave              *)
(* (checkpoint.go), and /undo and /diff on it (diff.go).                    *)
(*                                                                         *)
(* A file is a sequence of lines.  An operation on it is a record: its kind, *)
(* its path, and the lines it writes or the hunks it replaces, a hunk being *)
(* a sequence of marked lines.  A patch is parsed into a sequence of such    *)
(* operations, each carried out before the next is looked at.               *)
(***************************************************************************)
EXTENDS Integers, Sequences, FiniteSets

Seqs == INSTANCE SequencesExt

CONSTANTS
    Paths,      \* files below the workdir
    Protected,  \* paths that resolve to .git or out of the workdir: refused
    Missing,    \* no such file
    Failure,    \* no result
    MaxLines,   \* bound on a file's size (2 MiB in the code)
    Workspace,  \* bound: the files at first
    UndoCap     \* snapshots kept (40 in the code)

ASSUME FileAssumption ==
    Protected \subseteq Paths /\ UndoCap \in Nat \ {0} /\ DOMAIN Workspace = Paths

VARIABLES
    files,     \* the workspace
    snaps,     \* snapStack.items
    rest,      \* what is left to do of the call in progress
    \* history: the workspace at each snapshot, and the paths that somebody else has
    \* changed, an undo could not write or a snapshot could not read
    past, touched

fileVars == <<files, snaps, rest, past, touched>>

FileInit ==
    /\ files = Workspace /\ snaps = <<>> /\ rest = <<>>
    /\ past = <<>> /\ touched = {}

\* What a patch names: its lines by their marks, with the path of a header or the text of
\* a line of a file, "" being a line without a mark.
Headers == {"add", "update", "delete"}
Whole(line) == line.mark \o line.text

\* appendPatchLine: to the last hunk, or to a first one.
WithLine(hunks, line) ==
    IF hunks = <<>> THEN <<<<line>>>> ELSE [hunks EXCEPT ![Len(hunks)] = Append(@, line)]

\* parsePatch: a file named after *** End Patch is passed over, as is any other line
\* there; a line before the first file is an error.
Parsed(patch) ==
    LET marks == {patch[n].mark : n \in 1..Len(patch)}
        finished(s) == s.ops \o s.cur
        hunk(s, line) ==
            [s EXCEPT !.cur[1].hunks =
                CASE line.mark = "@@" -> Append(@, <<>>)
                  [] s.cur[1].kind = "add" ->
                        WithLine(@, [mark |-> "+", text |-> IF line.mark = "+" THEN line.text ELSE Whole(line)])
                  [] OTHER -> WithLine(@, IF line.mark = "" THEN [line EXCEPT !.mark = " "] ELSE line)]
        take(s, line) ==
            IF s = Failure \/ (~s.begun /\ line.mark \notin {"begin", "end"}) THEN s
            ELSE CASE line.mark = "begin" -> [s EXCEPT !.begun = TRUE]
                   [] line.mark = "end" -> [ops |-> finished(s), cur |-> <<>>, begun |-> FALSE]
                   [] line.mark \in Headers ->
                         [s EXCEPT !.ops = finished(s),
                                   !.cur = <<[kind |-> line.mark, path |-> line.text, hunks |-> <<>>]>>]
                   [] OTHER -> IF s.cur = <<>> THEN Failure ELSE hunk(s, line)
        upTo[n \in 0..Len(patch)] ==
            IF n = 0 THEN [ops |-> <<>>, cur |-> <<>>, begun |-> FALSE] ELSE take(upTo[n - 1], patch[n])
        last == upTo[Len(patch)]
        good == {"begin", "end"} \subseteq marks /\ last # Failure
    IN  IF good /\ finished(last) # <<>> /\ \A n \in 1..Len(finished(last)) : finished(last)[n].path # ""
        THEN finished(last) ELSE Failure

\* hunkSides.
Texts(lines, marks) ==
    LET of == SelectSeq(lines, LAMBDA line : line.mark \in marks)
    IN  [n \in 1..Len(of) |-> of[n].text]
OldSide(hunk) == Texts(hunk, {" ", "-"})
NewSide(hunk) == Texts(hunk, {" ", "+"})

\* findUnique: where the lines of old stand in file.
Matches(file, old) ==
    {i \in 1..(Len(file) - Len(old) + 1) : SubSeq(file, i, i + Len(old) - 1) = old}

Applies(file, hunk) == OldSide(hunk) # <<>> /\ Cardinality(Matches(file, OldSide(hunk))) = 1

ApplyHunk(file, hunk, at) ==
    LET i == CHOOSE j \in at : \A k \in at : j <= k
    IN  SubSeq(file, 1, i - 1) \o NewSide(hunk)
            \o SubSeq(file, i + Len(OldSide(hunk)), Len(file))

\* applyHunks: hunk by hunk, each on what the one before has left, which ends in a line
\* feed even if no line is left.
ApplyHunks(file, hunks) ==
    LET ended(lines) == IF lines = <<>> THEN <<"">> ELSE lines
        next(lines, hunk) ==
            IF lines = Failure \/ hunk = <<>> THEN lines
            ELSE IF ~Applies(lines, hunk) THEN Failure
            ELSE ended(ApplyHunk(lines, hunk, Matches(lines, OldSide(hunk))))
        after[n \in 0..Len(hunks)] == IF n = 0 THEN file ELSE next(after[n - 1], hunks[n])
    IN  after[Len(hunks)]

\* edit_file counts with bytes.Count, which passes over overlapping occurrences, and
\* replaces the first one.
ApplyEdit(file, hunk) ==
    LET found == Matches(file, OldSide(hunk))
        count[i \in 1..(Len(file) + Len(OldSide(hunk)))] ==
            IF i > Len(file) THEN 0
            ELSE IF i \in found THEN 1 + count[i + Len(OldSide(hunk))] ELSE count[i + 1]
    IN  IF OldSide(hunk) = <<>> \/ count[1] # 1 THEN Failure ELSE ApplyHunk(file, hunk, found)

\* What an operation wants to leave at its path.
Outcome(op) ==
    LET now == files[op.path] IN
    CASE op.kind = "write" -> op.lines
      [] op.kind = "add" /\ now = Missing -> NewSide(Seqs!FlattenSeq(op.hunks))
      [] op.kind = "delete" /\ now # Missing -> Missing
      [] op.kind = "update" /\ now # Missing -> ApplyHunks(now, op.hunks)
      [] op.kind = "edit" /\ now # Missing -> ApplyEdit(now, op.hunks[1])
      [] OTHER -> Failure

TooLong(lines) == lines \notin {Missing, Failure} /\ Len(lines) > MaxLines

\* edit_file looks for its text before it takes the snapshot, the others after it.
RefusedEarly(op) ==
    \/ op.path \in Protected
    \/ op.kind = "edit" /\ Outcome(op) = Failure
    \/ op.kind = "write" /\ TooLong(op.lines)

LastOf(seq, n) == IF Len(seq) > n THEN SubSeq(seq, Len(seq) - n + 1, Len(seq)) ELSE seq

\* Mutant: one snapshot per path is thought to be enough.
RememberOnce(path, s, item) ==
    IF \E i \in 1..Len(snaps) : snaps[i].path = path THEN s ELSE LastOf(Append(s, item), UndoCap)
\* remember: the last UndoCap snapshots, of this path as of others.
Remember(path, s, item) == LastOf(Append(s, item), UndoCap)

\* remember: a file that is there and cannot be read is taken for one that is not.
TakeSnapshot(path) ==
    /\ \E seen \in {files[path], Missing} :
          /\ snaps' = Remember(path, snaps, [path |-> path, was |-> seen])
          /\ touched' = IF seen = files[path] THEN touched ELSE touched \cup {path}
    /\ past' = Remember(path, past, files)

\* The next operation of the call: refused, failed after its snapshot, or done.  Any
\* failure ends the call; what its earlier operations did stays.
OpRefused ==
    /\ rest # <<>> /\ RefusedEarly(Head(rest))
    /\ rest' = <<>>
    /\ UNCHANGED <<files, snaps, past, touched>>

OpFails ==
    /\ rest # <<>> /\ ~RefusedEarly(Head(rest))
    /\ TakeSnapshot(Head(rest).path)
    /\ rest' = <<>>
    /\ UNCHANGED files

OpDone ==
    LET op == Head(rest)
        result == Outcome(op)
    IN
    /\ rest # <<>> /\ ~RefusedEarly(op)
    /\ result # Failure /\ ~TooLong(result)
    /\ TakeSnapshot(op.path)
    /\ files' = [files EXCEPT ![op.path] = result]
    /\ rest' = Tail(rest)

Top == snaps[Len(snaps)]
Pop(seq) == SubSeq(seq, 1, Len(seq) - 1)

\* /undo: the snapshot leaves the stack before the file is written back.
Undo ==
    /\ snaps # <<>>
    /\ snaps' = Pop(snaps) /\ past' = Pop(past)
    /\ files' = [files EXCEPT ![Top.path] = Top.was]
    /\ UNCHANGED <<rest, touched>>

UndoFails ==
    /\ snaps # <<>> /\ files[Top.path] # Top.was
    /\ snaps' = Pop(snaps) /\ past' = Pop(past)
    /\ touched' = touched \cup {Top.path}
    /\ UNCHANGED <<files, rest>>

\* ClearEdits.
ClearEdits == snaps' = <<>> /\ past' = <<>> /\ touched' = {}

\* The user's editor or a shell command, at any moment.
OutsideEdit(path, lines) ==
    /\ files' = [files EXCEPT ![path] = lines]
    /\ touched' = touched \cup {path}
    /\ UNCHANGED <<snaps, rest, past>>

\* originals, for n = 1: what /undo down to the n-th snapshot leaves, path by path, as
\* the first snapshot of a path tells; /diff compares it with the workspace.
Undone(n) ==
    [path \in Paths |->
        LET of == {i \in n..Len(snaps) : snaps[i].path = path}
        IN  IF of = {} THEN files[path]
            ELSE snaps[CHOOSE i \in of : \A j \in of : i <= j].was]

\* Hazard: calls that fail half way, snapshots of files that then are not changed, and
\* the limit of the stack.  Undoing step by step goes back through the workspaces as
\* they were, and /diff compares with the oldest of them, except where somebody else
\* changed a file, an undo could not write it or a snapshot could not read it
\* (checkpoint.go, diff.go originals).
UndoRestores ==
    \A n \in 1..Len(snaps) : \A path \in Paths \ touched : Undone(n)[path] = past[n][path]
=============================================================================
