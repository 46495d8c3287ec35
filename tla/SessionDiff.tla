----------------------------- MODULE SessionDiff -----------------------------
(***************************************************************************)
(* /diff (internal/tools/diff.go): the oldest snapshot of each file against *)
(* the file as it is, as a unified diff.                                    *)
(*                                                                         *)
(* Indices of lines and edits count from 0, as in the code.  Its limits on  *)
(* files and lines shown are left out.                                      *)
(***************************************************************************)
EXTENDS FileTools

CONSTANT Edits  \* bound: what the file tools are asked for

\* diffContext: lines shown around a change.
Context == 2

\* lineEdits: of the longest common subsequences the one its backward walk finds.
LineEdits(a, b) ==
    LET lcs[i \in 0..Len(a), j \in 0..Len(b)] ==
            IF i = 0 \/ j = 0 THEN 0
            ELSE IF a[i] = b[j] THEN lcs[i - 1, j - 1] + 1
            ELSE IF lcs[i - 1, j] >= lcs[i, j - 1] THEN lcs[i - 1, j] ELSE lcs[i, j - 1]
        walk[i \in 0..Len(a), j \in 0..Len(b)] ==
            IF i = 0 /\ j = 0 THEN <<>>
            ELSE IF i > 0 /\ j > 0 /\ a[i] = b[j] THEN Append(walk[i - 1, j - 1], "keep")
            ELSE IF j > 0 /\ (i = 0 \/ lcs[i, j - 1] >= lcs[i - 1, j]) THEN Append(walk[i, j - 1], "add")
            ELSE Append(walk[i - 1, j], "drop")
    IN  walk[Len(a), Len(b)]

\* Of the edits from the k-th up to the t-th, those that take a line of the old file, or
\* of the new one.
Took(edits, k, t, side) == Cardinality({u \in k..(t - 1) : edits[u + 1] # side})
OldLines(edits, k, t) == Took(edits, k, t, "add")
NewLines(edits, k, t) == Took(edits, k, t, "drop")

\* First place from k on, before limit, where the edit keeps its line, or does not.
Skip(edits, k, limit, keeps) ==
    LET end == {t \in k..limit : t = limit \/ (edits[t + 1] = "keep") # keeps}
    IN  CHOOSE t \in end : \A u \in end : t <= u

Least(a, b) == IF a < b THEN a ELSE b

\* A hunk: the change that starts at edit k, and Context lines around it.  Before it they
\* are counted in the old file, but taken from the edits: with another change closer than
\* that, its edits come again and the lines are not those at the place.
UnifiedHunk(a, b, edits, k) ==
    LET changed == Skip(edits, k, Len(edits), FALSE)
        end == Skip(edits, changed, Least(changed + Context, Len(edits)), TRUE)
        before == Least(Context, OldLines(edits, 0, k))
        oldAt == OldLines(edits, 0, k) - before
        newAt == NewLines(edits, 0, k) - before
        text(t) ==
            LET i == oldAt + OldLines(edits, k - before, t)
                j == newAt + NewLines(edits, k - before, t)
            IN  IF edits[t + 1] = "add" THEN b[j + 1] ELSE a[i + 1]
    IN  [old |-> oldAt, new |-> newAt, end |-> end,
         lines |-> [n \in 1..(end - (k - before)) |->
                        [edit |-> edits[k - before + n], text |-> text(k - before + n - 1)]]]

\* unifiedDiff.
UnifiedDiff(a, b) ==
    LET edits == LineEdits(a, b)
        from[k \in 0..Len(edits)] ==
            LET start == Skip(edits, k, Len(edits), TRUE) IN
            IF start = Len(edits) THEN <<>>
            ELSE LET hunk == UnifiedHunk(a, b, edits, start) IN <<hunk>> \o from[hunk.end]
    IN  from[0]

\* A file that does not exist is compared as an empty one.
Lines(file) == IF file = Missing THEN <<>> ELSE file
Diff(path) == UnifiedDiff(Lines(Undone(1)[path]), Lines(files[path]))

(***************************************************************************)
(* The file tools alone, one call after the other.                         *)
(***************************************************************************)

Call ==
    /\ rest = <<>>
    /\ \E ops \in Edits : rest' = ops
    /\ UNCHANGED <<files, snaps, past, touched>>

Next == Call \/ OpRefused \/ OpFails \/ OpDone \/ Undo

Spec == FileInit /\ [][Next]_fileVars

(***************************************************************************)
(* Properties.                                                             *)
(***************************************************************************)

\* The lines of a hunk that one of the files has.
SideOf(hunk, other) ==
    LET of == SelectSeq(hunk.lines, LAMBDA line : line.edit # other)
    IN  [n \in 1..Len(of) |-> of[n].text]

\* Hazard: changes of one file closer to each other than the lines of context.  Each hunk
\* shows the lines that stand at its place in the first snapshot and in the file now
\* (diff.go unifiedDiff).
HunksShowTheFiles ==
    \A path \in Paths : \A n \in 1..Len(Diff(path)) :
        LET hunk == Diff(path)[n]
            old == SideOf(hunk, "add")
            new == SideOf(hunk, "drop")
        IN  /\ hunk.new >= 0
            /\ old = SubSeq(Lines(Undone(1)[path]), hunk.old + 1, hunk.old + Len(old))
            /\ new = SubSeq(Lines(files[path]), hunk.new + 1, hunk.new + Len(new))
=============================================================================
