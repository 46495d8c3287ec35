---------------------------- MODULE SessionStore ----------------------------
(***************************************************************************)
(* The data directory of internal/session, shared by goppi processes: one  *)
(* JSON file and one lock file per session id, and the pointer "last".  A  *)
(* process is a terminal session, a command such as "sessions delete", or  *)
(* one agent of an editor's server; each may die between any two steps.    *)
(*                                                                         *)
(* Lock files are inodes: a lock belongs to the open file, not to its name,*)
(* and Delete removes the name.  A transcript is the sequence of messages  *)
(* given to it; rewriting it (compaction, retry) is left to AgentRun.      *)
(***************************************************************************)
EXTENDS Naturals, SequencesExt

CONSTANTS
    Procs, Ids,
    None,         \* no session id
    Inodes,       \* bound: lock files that exist or are open at once
    MaxMessages,  \* bound: messages ever written
    WritesFail    \* whether writing or removing a file may fail

ASSUME StoreAssumption ==
    /\ None \notin Ids /\ 0 \notin Inodes
    /\ MaxMessages \in Nat /\ WritesFail \in BOOLEAN

VARIABLES
    files,     \* sessions/<id>.json: its messages; empty when there is no file
    order,     \* ids with a file, by UpdatedAt, newest first
    last,      \* the pointer
    lockFile,  \* the inode named sessions/<id>.lock, or NoInode
    proc,      \* what each process is doing and holds
    written,   \* messages written so far
    raced,     \* history: ids whose lock file was removed while somebody had it open
    stray,     \* history: ids saved by a process without their lock
    torn       \* history: last may be wrong: writers overlapped, or one was cut

vars == <<files, order, last, lockFile, proc, written, raced, stray, torn>>

NoInode == 0
Stored == {id \in Ids : files[id] # <<>>}
Newest(id) == IsPrefix(<<id>>, order)

\* The order of the others once id has no file.
Without(s, id) ==
    IF id \in ToSet(s) THEN RemoveAt(s, CHOOSE i \in DOMAIN s : s[i] = id) ELSE s

Transcripts == UNION {[1..n -> 1..MaxMessages] : n \in 0..MaxMessages}

\* Between processes, waiting for a command, in a turn; finding a session to load,
\* loading it; Hold for EnsureSession; Save; Delete.
Points ==
    {"off", "idle", "turn"} \cup {"pick", "last", "named", "newest", "repoint", "load", "loadLock"}
    \cup {"ensureLock"} \cup {"save", "point"}
    \cup {"delete", "deleteLock", "erase", "match", "unpoint", "release", "unlink"} \cup {"renew"}

\* What follows: "start": the process has no agent yet, so failing ends it.
Sequels == {"start", "idle", "turn", "pick", "renew", "off"}

Off == [pc |-> "off", then |-> "start", cur |-> None, held |-> NoInode, mem |-> <<>>,
        seen |-> <<>>, arg |-> None, got |-> <<>>, fd |-> NoInode, ok |-> TRUE,
        stale |-> FALSE]

TypeOK ==
    /\ files \in [Ids -> Transcripts]
    /\ ToSet(order) = Stored /\ IsInjective(order)
    /\ last \in Ids \cup {None}
    /\ lockFile \in [Ids -> Inodes \cup {NoInode}]
    /\ proc \in [Procs -> [pc : Points, then : Sequels,
                           cur : Ids \cup {None},  \* Agent.SessionID
                           held : Inodes \cup {NoInode},  \* Agent.sessLock
                           mem : Transcripts,      \* Agent.Messages
                           seen : Transcripts,     \* history: the file as last read or written
                           arg : Ids \cup {None},  \* the id a command is about
                           got : Transcripts,      \* the file it has read
                           fd : Inodes \cup {NoInode},  \* the lock file it has opened
                           ok : BOOLEAN,           \* Delete removed the file
                           stale : BOOLEAN]]       \* history: the file read was not the file locked
    /\ written \in 0..MaxMessages
    /\ raced \in SUBSET Ids /\ stray \in SUBSET Ids /\ torn \in BOOLEAN
    /\ \A p \in Procs : proc[p].pc = "off" => proc[p] = Off

Init ==
    /\ files = [i \in Ids |-> <<>>] /\ order = <<>> /\ last = None
    /\ lockFile = [i \in Ids |-> NoInode]
    /\ proc = [p \in Procs |-> Off]
    /\ written = 0 /\ raced = {} /\ stray = {} /\ torn = FALSE

(***************************************************************************)
(* Locks and writers.                                                      *)
(***************************************************************************)

Opened(p) == {proc[p].held, proc[p].fd} \ {NoInode}
FreeInodes == Inodes \ (UNION {Opened(p) : p \in Procs} \cup {lockFile[i] : i \in Ids})
FreeInode == CHOOSE n \in FreeInodes : TRUE

\* Who has a flock: agents with a sessLock, and a Delete from its Hold on.
Locks(p) ==
    {proc[p].held} \cup
    IF proc[p].pc \in {"erase", "match", "unpoint", "release"} THEN {proc[p].fd} ELSE {}

\* openLock: O_CREATE, then go on with the file that has the name now.
OpenLock(p, id, pc) ==
    LET n == IF lockFile[id] = NoInode THEN FreeInode ELSE lockFile[id]
    IN  /\ FreeInodes # {}
        /\ lockFile' = [lockFile EXCEPT ![id] = n]
        /\ proc' = [proc EXCEPT ![p] = [@ EXCEPT !.fd = n, !.pc = pc]]

\* flockExclusive, without waiting.  Mutant: the build without locks.
NoFlock(p) == TRUE
Granted(p) == \A q \in Procs \ {p} : proc[p].fd \notin Locks(q)

\* An id nobody knows: 64 random bits.
Unused(id) ==
    /\ files[id] = <<>> /\ lockFile[id] = NoInode /\ last # id
    /\ \A p \in Procs : id \notin {proc[p].cur, proc[p].arg}

\* Steps between which the files and the pointer do not agree.
Writing == {"save", "point", "erase", "match", "unpoint", "newest", "repoint"}
Overlap(p) == \E q \in Procs \ {p} : proc[q].pc \in Writing

\* A command is over: back to its agent, or the process ends.  Mutant: it goes on
\* without having closed the lock file it could not lock.
LeftOpen(p) == [proc[p] EXCEPT !.pc = IF proc[p].then = "start" THEN "off" ELSE "idle"]
Back(p) ==
    IF proc[p].then = "start" THEN Off
    ELSE [proc[p] EXCEPT !.pc = "idle", !.then = "idle", !.arg = None, !.got = <<>>,
                         !.fd = NoInode, !.ok = TRUE]

(***************************************************************************)
(* Starting, and finding the session to load.                              *)
(***************************************************************************)

Start(p) ==
    /\ proc[p].pc = "off"
    /\ \E pc \in {"idle", "pick", "last"} :
         proc' = [proc EXCEPT ![p] = [@ EXCEPT
                    !.pc = pc, !.then = IF pc = "idle" THEN "idle" ELSE "start"]]
    /\ UNCHANGED <<files, order, last, lockFile, written, raced, stray, torn>>

\* -r and /sessions: Resolve reads the file that is loaded later.
Resolve(p) ==
    /\ proc[p].pc = "pick"
    /\ \/ \E id \in Stored :
            proc' = [proc EXCEPT ![p] = [@ EXCEPT !.arg = id, !.got = files[id], !.pc = "load"]]
       \/ proc' = [proc EXCEPT ![p] = Back(p)]
    /\ UNCHANGED <<files, order, last, lockFile, written, raced, stray, torn>>

\* -c: the pointer, then the file it names; without either the newest file, and
\* the pointer is written again.
LoadPointer(p) ==
    /\ proc[p].pc = "last"
    /\ proc' = [proc EXCEPT ![p] = [@ EXCEPT
                  !.arg = last, !.pc = IF last = None THEN "newest" ELSE "named"]]
    /\ UNCHANGED <<files, order, last, lockFile, written, raced, stray, torn>>

LoadNamed(p) ==
    /\ proc[p].pc = "named"
    /\ proc' = IF files[proc[p].arg] # <<>>
               THEN [proc EXCEPT ![p] = [@ EXCEPT !.got = files[proc[p].arg], !.pc = "load"]]
               ELSE [proc EXCEPT ![p].pc = "newest"]
    /\ UNCHANGED <<files, order, last, lockFile, written, raced, stray, torn>>

LoadNewest(p) ==
    /\ proc[p].pc = "newest"
    /\ \/ \E id \in Ids :
            /\ Newest(id)
            /\ proc' = [proc EXCEPT ![p] = [@ EXCEPT
                          !.arg = id, !.got = files[id], !.pc = "repoint"]]
       \/ order = <<>> /\ proc' = [proc EXCEPT ![p] = Back(p)]
    /\ UNCHANGED <<files, order, last, lockFile, written, raced, stray, torn>>

\* A pointer that cannot be written is ignored.
Repoint(p) ==
    /\ proc[p].pc = "repoint"
    /\ proc' = [proc EXCEPT ![p].pc = "load"]
    /\ last' = proc[p].arg \/ (WritesFail /\ UNCHANGED last)
    /\ torn' = (torn \/ Overlap(p))
    /\ UNCHANGED <<files, order, lockFile, written, raced, stray>>

(***************************************************************************)
(* LoadFile: Hold, then the transcript read before.                        *)
(***************************************************************************)

\* The agent works on session id with lock fd and the transcript m; the lock it
\* had is released.  Mutant: the messages are not taken over.
WorkingAfresh(p, id, fd, m) ==
    [Off EXCEPT !.pc = "idle", !.then = "idle", !.cur = id, !.held = fd,
                !.seen = m, !.stale = m # files[id]]
Working(p, id, fd, m) ==
    [Off EXCEPT !.pc = "idle", !.then = "idle", !.cur = id, !.held = fd, !.mem = m,
                !.seen = m, !.stale = m # files[id]]

LoadHolds(p) ==
    /\ proc[p].pc = "load"
    /\ proc[p].held = NoInode \/ proc[p].cur # proc[p].arg
    /\ OpenLock(p, proc[p].arg, "loadLock")
    /\ UNCHANGED <<files, order, last, written, raced, stray, torn>>

\* The agent holds the lock of this very session already.
LoadHeld(p) ==
    /\ proc[p].pc = "load"
    /\ proc[p].held # NoInode /\ proc[p].cur = proc[p].arg
    /\ proc' = [proc EXCEPT ![p] = Working(p, proc[p].arg, proc[p].held, proc[p].got)]
    /\ UNCHANGED <<files, order, last, lockFile, written, raced, stray, torn>>

LoadLock(p) ==
    /\ proc[p].pc = "loadLock"
    /\ proc' = [proc EXCEPT ![p] = IF Granted(p)
                                   THEN Working(p, proc[p].arg, proc[p].fd, proc[p].got)
                                   ELSE Back(p)]
    /\ UNCHANGED <<files, order, last, lockFile, written, raced, stray, torn>>

(***************************************************************************)
(* Prompts and saves.                                                      *)
(***************************************************************************)

\* EnsureSession before a turn: a new session, the one at hand, or another try to
\* lock one that was given up.
Prompt(p) ==
    /\ proc[p].pc = "idle"
    /\ IF proc[p].cur # None /\ proc[p].held = NoInode
       THEN OpenLock(p, proc[p].cur, "ensureLock")
       ELSE /\ proc' = [proc EXCEPT ![p] = [@ EXCEPT
                          !.pc = IF proc[p].cur = None THEN "renew" ELSE "turn", !.then = "turn"]]
            /\ UNCHANGED lockFile
    /\ UNCHANGED <<files, order, last, written, raced, stray, torn>>

\* Its error is ignored: the turn is run all the same.
EnsureLock(p) ==
    /\ proc[p].pc = "ensureLock"
    /\ proc' = [proc EXCEPT ![p] = [@ EXCEPT
                  !.pc = "turn", !.then = "turn", !.fd = NoInode,
                  !.held = IF Granted(p) THEN proc[p].fd ELSE NoInode,
                  !.stale = proc[p].stale \/ proc[p].seen # files[proc[p].cur]]]
    /\ UNCHANGED <<files, order, last, lockFile, written, raced, stray, torn>>

\* A message is attached and the transcript checkpointed.
Attach(p) ==
    /\ proc[p].pc = "turn" /\ written < MaxMessages
    /\ written' = written + 1
    /\ proc' = [proc EXCEPT ![p] = [@ EXCEPT !.mem = Append(proc[p].mem, written + 1), !.pc = "save"]]
    /\ UNCHANGED <<files, order, last, lockFile, raced, stray, torn>>

\* The turn is over: every client saves once more.
EndTurn(p) ==
    /\ proc[p].pc = "turn"
    /\ proc' = IF proc[p].mem = <<>> THEN [proc EXCEPT ![p] = Back(p)]
               ELSE [proc EXCEPT ![p] = [@ EXCEPT !.pc = "save", !.then = "idle"]]
    /\ UNCHANGED <<files, order, last, lockFile, written, raced, stray, torn>>

\* /sessions, /new and quitting save what there is first; without messages there
\* is nothing to save.
SaveFirst(p) ==
    /\ proc[p].pc = "idle"
    /\ \E then \in {"pick", "renew", "off"} :
         proc' = IF proc[p].mem # <<>>
                 THEN [proc EXCEPT ![p] = [@ EXCEPT !.pc = "save", !.then = then]]
                 ELSE [proc EXCEPT ![p] = IF then = "off" THEN Off
                                          ELSE [@ EXCEPT !.pc = then, !.then = "idle"]]
    /\ UNCHANGED <<files, order, last, lockFile, written, raced, stray, torn>>

\* What a save leads to; if it failed a command is given up, a turn goes on.
AfterSave(p, saved) ==
    CASE proc[p].then = "off" -> Off
      [] proc[p].then = "turn" -> [proc[p] EXCEPT !.pc = "turn"]
      [] OTHER -> [proc[p] EXCEPT !.pc = IF saved THEN proc[p].then ELSE "idle",
                                  !.then = "idle"]

\* The file is replaced by a rename.
Save(p) ==
    /\ proc[p].pc = "save"
    /\ files' = [files EXCEPT ![proc[p].cur] = proc[p].mem]
    /\ order' = <<proc[p].cur>> \o Without(order, proc[p].cur)
    /\ proc' = [proc EXCEPT ![p] = [@ EXCEPT !.seen = proc[p].mem, !.pc = "point"]]
    /\ torn' = (torn \/ Overlap(p))
    /\ stray' = stray \cup {id \in {proc[p].cur} : proc[p].held = NoInode}
    /\ UNCHANGED <<last, lockFile, written, raced>>

SaveFails(p) ==
    /\ WritesFail /\ proc[p].pc = "save"
    /\ proc' = [proc EXCEPT ![p] = AfterSave(p, FALSE)]
    /\ UNCHANGED <<files, order, last, lockFile, written, raced, stray, torn>>

\* Then the pointer.  Mutant: Save leaves it as it is.
OldPointer(id) == last
Pointer(id) == id

Point(p) ==
    /\ proc[p].pc = "point"
    /\ last' = Pointer(proc[p].cur)
    /\ proc' = [proc EXCEPT ![p] = AfterSave(p, TRUE)]
    /\ torn' = (Overlap(p) \/ (torn /\ ~Newest(proc[p].cur)))
    /\ UNCHANGED <<files, order, lockFile, written, raced, stray>>

PointFails(p) ==
    /\ WritesFail /\ proc[p].pc = "point"
    /\ proc' = [proc EXCEPT ![p] = AfterSave(p, FALSE)]
    /\ torn' = TRUE
    /\ UNCHANGED <<files, order, last, lockFile, written, raced, stray>>

\* Reset or Discard, then EnsureSession: the lock is released, a new session locked.
Renew(p) ==
    /\ proc[p].pc = "renew" /\ FreeInodes # {}
    /\ \E id \in Ids :
         /\ Unused(id)
         /\ lockFile' = [lockFile EXCEPT ![id] = FreeInode]
         /\ proc' = [proc EXCEPT ![p] =
                       [Working(p, id, FreeInode, <<>>) EXCEPT
                          !.pc = IF proc[p].then = "turn" THEN "turn" ELSE "idle",
                          !.then = proc[p].then]]
    /\ UNCHANGED <<files, order, last, written, raced, stray, torn>>

(***************************************************************************)
(* Delete.                                                                 *)
(***************************************************************************)

\* "sessions delete" and /delete of another session: Resolve first.
DeleteOther(p) ==
    /\ proc[p].pc \in {"off", "idle"}
    /\ \E id \in Stored \ {proc[p].cur} :
         proc' = [proc EXCEPT ![p] = [@ EXCEPT !.arg = id, !.pc = "delete"]]
    /\ UNCHANGED <<files, order, last, lockFile, written, raced, stray, torn>>

\* /delete of the session at hand gives up its lock first.
DeleteCurrent(p) ==
    /\ proc[p].pc = "idle" /\ proc[p].cur # None
    /\ proc' = [proc EXCEPT ![p] = [@ EXCEPT
                  !.arg = proc[p].cur, !.pc = "delete", !.held = NoInode]]
    /\ UNCHANGED <<files, order, last, lockFile, written, raced, stray, torn>>

DeleteHolds(p) ==
    /\ proc[p].pc = "delete"
    /\ OpenLock(p, proc[p].arg, "deleteLock")
    /\ UNCHANGED <<files, order, last, written, raced, stray, torn>>

DeleteLock(p) ==
    /\ proc[p].pc = "deleteLock"
    /\ proc' = [proc EXCEPT ![p] = IF Granted(p) THEN [@ EXCEPT !.pc = "erase"] ELSE Back(p)]
    /\ UNCHANGED <<files, order, last, lockFile, written, raced, stray, torn>>

Erase(p) ==
    /\ proc[p].pc = "erase"
    /\ \/ /\ files' = [files EXCEPT ![proc[p].arg] = <<>>]
          /\ order' = Without(order, proc[p].arg)
          /\ proc' = [proc EXCEPT ![p].pc = "match"]
       \/ /\ WritesFail
          /\ proc' = [proc EXCEPT ![p] = [@ EXCEPT !.ok = FALSE, !.pc = "release"]]
          /\ UNCHANGED <<files, order>>
    /\ torn' = (torn \/ Overlap(p))
    /\ UNCHANGED <<last, lockFile, written, raced, stray>>

Match(p) ==
    /\ proc[p].pc = "match"
    /\ proc' = [proc EXCEPT ![p].pc = IF last = proc[p].arg THEN "unpoint" ELSE "release"]
    /\ UNCHANGED <<files, order, last, lockFile, written, raced, stray, torn>>

\* The pointer is removed whatever it says by now; an error is ignored.
Unpoint(p) ==
    /\ proc[p].pc = "unpoint"
    /\ proc' = [proc EXCEPT ![p].pc = "release"]
    /\ last' = None \/ (WritesFail /\ UNCHANGED last)
    /\ torn' = (torn \/ Overlap(p))
    /\ UNCHANGED <<files, order, lockFile, written, raced, stray>>

\* The deferred half: the lock is released, then the name removed.
Release(p) ==
    /\ proc[p].pc = "release"
    /\ proc' = [proc EXCEPT ![p] = [@ EXCEPT !.fd = NoInode, !.pc = "unlink"]]
    /\ UNCHANGED <<files, order, last, lockFile, written, raced, stray, torn>>

Unlink(p) ==
    /\ proc[p].pc = "unlink"
    /\ lockFile' = [lockFile EXCEPT ![proc[p].arg] = NoInode]
    /\ raced' = raced \cup {id \in {proc[p].arg} :
                    \E q \in Procs : lockFile[id] \in Opened(q)}
    /\ proc' = [proc EXCEPT ![p] =
                  IF proc[p].ok /\ proc[p].arg = proc[p].cur
                  THEN [Back(p) EXCEPT !.pc = "renew"] ELSE Back(p)]
    /\ UNCHANGED <<files, order, last, written, stray, torn>>

\* The process dies or is killed; the kernel closes its files.
Crash(p) ==
    /\ proc[p].pc # "off"
    /\ proc' = [proc EXCEPT ![p] = Off]
    /\ torn' = (torn \/ proc[p].pc \in Writing)
    /\ UNCHANGED <<files, order, last, lockFile, written, raced, stray>>

Step(p) ==
    \/ Start(p) \/ Resolve(p) \/ LoadPointer(p) \/ LoadNamed(p) \/ LoadNewest(p) \/ Repoint(p)
    \/ LoadHolds(p) \/ LoadHeld(p) \/ LoadLock(p)
    \/ Prompt(p) \/ EnsureLock(p) \/ Attach(p) \/ EndTurn(p)
    \/ SaveFirst(p) \/ Save(p) \/ SaveFails(p) \/ Point(p) \/ PointFails(p) \/ Renew(p)
    \/ DeleteOther(p) \/ DeleteCurrent(p) \/ DeleteHolds(p) \/ DeleteLock(p)
    \/ Erase(p) \/ Match(p) \/ Unpoint(p) \/ Release(p) \/ Unlink(p)
    \/ Crash(p)

Next == \E p \in Procs : Step(p)

Spec == Init /\ [][Next]_vars

(***************************************************************************)
(* Properties.                                                             *)
(***************************************************************************)

\* The agents that hold the lock of session id.
Holders(id) == {p \in Procs : proc[p].cur = id /\ proc[p].held # NoInode}

\* What the documentation says of Hold: one process per session id.
OneProcessPerSession == \A id \in Ids : Cardinality(Holders(id)) <= 1

\* It is true of a session as long as no Delete removed its lock file under a
\* process that had opened it: no other order of start, load, /new, failed /delete
\* and death lets two processes in.
OneHolderUnlessUnlinked == \A id \in Ids \ raced : Cardinality(Holders(id)) <= 1

\* A session file is only ever replaced by a process that last left it as it is
\* now, and that adds to it.  So no message is lost and no deleted session comes
\* back, except through the three windows of the code: the file read before its
\* lock was taken, the lock given up by a /delete that then failed, the lock file
\* removed by name.
SavesBuildOnFile ==
    [][\A p \in Procs : proc[p].pc = "save" /\ proc'[p].pc = "point" =>
         \/ proc[p].cur \in raced \cup stray' \/ proc[p].stale
         \/ files[proc[p].cur] = proc[p].seen /\ IsPrefix(proc[p].seen, proc[p].mem)]_vars

\* The session -c loads, if nobody interferes.
Continued ==
    IF last # None /\ files[last] # <<>> THEN last
    ELSE IF order = <<>> THEN None ELSE Head(order)

\* Once nobody writes, -c continues the session that was saved last, whatever was
\* deleted, loaded or locked meanwhile; writers that overlapped or were cut
\* between file and pointer leave it wrong until the next save.
ContinueIsNewest ==
    ~torn /\ (\A p \in Procs : proc[p].pc \notin Writing)
        => Continued = IF order = <<>> THEN None ELSE Head(order)
=============================================================================
