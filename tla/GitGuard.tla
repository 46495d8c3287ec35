------------------------------ MODULE GitGuard ------------------------------
(***************************************************************************)
(* internal/tools/gitguard.go: what a shell command, a background job or a  *)
(* hook changed in .git is undone when it ends.  A .git directory is a      *)
(* function from the paths the guard knows to their contents.               *)
(*                                                                         *)
(* "odd" is what the guard does not read: a symbolic link, a file above     *)
(* 256 KiB, a hook after the first 64, an object after the first 100,000.   *)
(* The files of a linked worktree's own directory are guarded like those    *)
(* of the common one and have no paths of their own here.                   *)
(***************************************************************************)

CONSTANTS
    Trees,     \* files under hooks, config, and files under refs while they are few
    Watched,   \* HEAD and packed-refs
    Objects,   \* objects/**
    Unguarded  \* files under refs once they are too many

GitPaths == Trees \cup Watched \cup Objects \cup Unguarded

Contents == {"none", "old", "commands", "users", "odd"}
GitDirs == [GitPaths -> Contents]

\* readGitFile and snapshotGitTree: what is not read counts as not there; watchGitFile
\* keeps that apart.
Read(path, content) == IF content = "odd" /\ path \notin Watched THEN "none" ELSE content

Snapshot(git) == [path \in GitPaths |-> Read(path, git[path])]

\* What restoring a path comes to.  restoreObjects removes what is new and cannot bring
\* back what is gone.
RestoredObject(now, was) == IF was = "none" THEN "none" ELSE now

\* Mutant: a file that was not there before is left.
RestoredKnown(now, was) == IF was = "none" THEN now ELSE was
\* restoreGitDirTree and restoreGitFile: removed, written again or brought back.
RestoredFile(now, was) == was

Restored(path, now, was) ==
    CASE path \in Trees -> RestoredFile(now, was)
      [] path \in Watched /\ was # "odd" -> RestoredFile(now, was)
      [] path \in Objects -> RestoredObject(now, was)
      [] OTHER -> now

Changed(git, snap) == {path \in GitPaths : Restored(path, git[path], snap[path]) # git[path]}
\* Links that are removed before the file is written in their place.
Links(git, snap) ==
    {path \in Changed(git, snap) : git[path] = "odd" /\ Restored(path, git[path], snap[path]) # "none"}

\* revertGitWrites, each path on its own: one that cannot be read, removed or written is
\* passed over in silence and stays, or is gone if it was a link.
Reverted(git, snap, failed, gone) ==
    [path \in GitPaths |->
        IF path \in gone THEN "none"
        ELSE IF path \in failed THEN git[path]
        ELSE Restored(path, git[path], snap[path])]
=============================================================================
