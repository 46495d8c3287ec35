------------------------ MODULE SessionStore_proofs ------------------------
(***************************************************************************)
(* For any processes and ids.  First the locks: as long as no Delete has   *)
(* removed a session's lock file under a process that had it open, at most *)
(* one process holds the session, since whoever has opened a lock file of  *)
(* such an id has the inode that still bears the name, and no inode is     *)
(* locked twice.  Then, on top of that, the files: a process with its lock *)
(* knows its file as it is, so that a save adds to it (SavesBuild), and    *)
(* the order of the files and the pointer agree once nobody writes         *)
(* (NewestIsContinued).                                                    *)
(***************************************************************************)
EXTENDS SessionStore, FiniteSetTheorems, SequenceTheorems, TLAPS

\* The points at which a Hold or a Delete has its lock file open.
FdPoints == {"loadLock", "ensureLock", "deleteLock", "erase", "match", "unpoint", "release"}
DeletePoints == {"erase", "match", "unpoint", "release"}
FdId(r) == IF r.pc = "ensureLock" THEN r.cur ELSE r.arg

Processes ==
    [pc : Points, then : Sequels, cur : Ids \cup {None}, held : Inodes \cup {NoInode},
     mem : Seq(Nat), seen : Seq(Nat), arg : Ids \cup {None}, got : Seq(Nat),
     fd : Inodes \cup {NoInode}, ok : BOOLEAN, stale : BOOLEAN]

\* The state the locks depend on, and what it needs to be typed.
LockTypes ==
    /\ files \in [Ids -> Seq(Nat)] /\ last \in Ids \cup {None}
    /\ lockFile \in [Ids -> Inodes \cup {NoInode}]
    /\ proc \in [Procs -> Processes]
    /\ written \in Nat /\ raced \in SUBSET Ids

\* One process by itself.
ProcessShape(r) ==
    /\ r.held # NoInode => r.cur \in Ids
    /\ r.fd # NoInode <=> r.pc \in FdPoints
    /\ r.pc = "ensureLock" => r.held = NoInode
    /\ r.pc \in FdPoints \cup {"named", "repoint", "load", "delete", "unlink"} => FdId(r) \in Ids
    /\ r.pc \in {"save", "point"} => r.then # "start" /\ r.cur \in Ids
    /\ r.pc = "turn" => r.then = "turn" /\ r.cur \in Ids
    /\ r.mem # <<>> => r.cur \in Ids

\* What it has open still bears the name it was opened by.
Named(r) ==
    /\ r.held # NoInode /\ r.cur \notin raced => r.held = lockFile[r.cur]
    /\ r.fd # NoInode /\ FdId(r) \notin raced => r.fd = lockFile[FdId(r)]

\* No inode is locked twice.
LocksOf(r) == {r.held} \cup IF r.pc \in DeletePoints THEN {r.fd} ELSE {}
Exclusive ==
    \A p, q \in Procs : p # q => LocksOf(proc[p]) \cap LocksOf(proc[q]) \subseteq {NoInode}

LockInv ==
    /\ LockTypes
    /\ \A p \in Procs : ProcessShape(proc[p]) /\ Named(proc[p])
    /\ Exclusive

LEMMA NoneIsNoId == None \notin Ids /\ NoInode \notin Inodes
  BY StoreAssumption DEF NoInode

LEMMA OffIsAProcess == Off \in Processes /\ ProcessShape(Off) /\ Named(Off)
  BY DEF Off, Processes, Points, Sequels, ProcessShape, Named, FdPoints

\* No process exists, nothing is locked.
LEMMA InitLockInv == Init => LockInv
<1> SUFFICES ASSUME Init PROVE LockInv
  OBVIOUS
<1>1. LockTypes
  BY OffIsAProcess DEF Init, LockTypes
<1>2. \A p \in Procs : proc[p] = Off
  BY DEF Init
<1>3. Exclusive
  BY <1>2 DEF Exclusive, LocksOf, Off
<1> QED
  BY <1>1, <1>2, <1>3, OffIsAProcess DEF LockInv

\* A step of one process keeps the invariant if the process, now r, keeps it and
\* the others are not disturbed.
LEMMA OneProcessSteps ==
  ASSUME LockInv, NEW p \in Procs, NEW r \in Processes,
         proc' = [proc EXCEPT ![p] = r], LockTypes',
         ProcessShape(r), Named(r)',
         \A q \in Procs \ {p} : Named(proc[q])',
         \A q \in Procs \ {p} : LocksOf(r) \cap LocksOf(proc[q]) \subseteq {NoInode}
  PROVE  LockInv'
<1>1. proc'[p] = r /\ \A q \in Procs \ {p} : proc'[q] = proc[q]
  BY DEF LockInv, LockTypes
<1>2. ASSUME NEW q \in Procs PROVE (ProcessShape(proc[q]) /\ Named(proc[q]))'
  <2>1. CASE q = p
    BY <1>1, <2>1
  <2>2. CASE q # p
    BY <1>1 DEF LockInv
  <2> QED
    BY <2>1, <2>2
<1>3. Exclusive'
  <2> SUFFICES ASSUME NEW q1 \in Procs, NEW q2 \in Procs, q1 # q2
               PROVE  LocksOf(proc'[q1]) \cap LocksOf(proc'[q2]) \subseteq {NoInode}
    BY DEF Exclusive
  <2>1. CASE q1 = p
    BY <1>1, <2>1
  <2>2. CASE q2 = p
    BY <1>1, <2>2
  <2>3. CASE q1 # p /\ q2 # p
    BY <1>1, <2>3 DEF LockInv, Exclusive
  <2> QED
    BY <2>1, <2>2, <2>3
<1> QED
  BY <1>2, <1>3 DEF LockInv

\* What a step that opens and locks nothing makes of a process: it has only what it
\* had before.
Keeps(old, r) ==
    /\ ProcessShape(r)
    /\ r.held # NoInode => r.held = old.held /\ r.cur = old.cur
    /\ r.fd # NoInode => r.fd = old.fd /\ FdId(r) = FdId(old)
    /\ r.fd # NoInode /\ r.pc \in DeletePoints => old.pc \in DeletePoints

LEMMA QuietKeepsInv ==
  ASSUME LockInv, NEW p \in Procs,
         proc' \in [Procs -> Processes], \A q \in Procs \ {p} : proc'[q] = proc[q],
         UNCHANGED <<lockFile, raced>>,
         files' \in [Ids -> Seq(Nat)], last' \in Ids \cup {None}, written' \in Nat,
         Keeps(proc[p], proc'[p])
  PROVE  LockInv'
<1>1. PICK r \in Processes : r = proc'[p]
  OBVIOUS
<1>2. proc' = [proc EXCEPT ![p] = r] /\ r \in Processes /\ Keeps(proc[p], r)
  BY <1>1 DEF LockInv, LockTypes
<1>3. LockTypes'
  BY DEF LockInv, LockTypes
<1>4. Named(r)'
  BY <1>2 DEF LockInv, Named, Keeps
<1>5. \A q \in Procs \ {p} : Named(proc[q])'
  BY DEF LockInv, Named
<1>6. LocksOf(r) \subseteq LocksOf(proc[p]) \cup {NoInode}
  BY <1>2 DEF LocksOf, Keeps
<1>7. \A q \in Procs \ {p} : LocksOf(r) \cap LocksOf(proc[q]) \subseteq {NoInode}
  BY <1>6 DEF LockInv, Exclusive
<1> QED
  BY <1>2, <1>3, <1>4, <1>5, <1>7, OneProcessSteps DEF Keeps

\* A process that goes off has nothing.
LEMMA OffKeeps == \A old : Keeps(old, Off)
  BY OffIsAProcess DEF Keeps, Off

\* A process whose command is over has its lock only, or goes off.
LEMMA BackKeeps ==
  ASSUME NEW p \in Procs, proc \in [Procs -> Processes], ProcessShape(proc[p])
  PROVE  Back(p) \in Processes /\ Keeps(proc[p], Back(p))
<1>1. CASE proc[p].then = "start"
  BY <1>1, OffIsAProcess, OffKeeps DEF Back
<1>2. CASE proc[p].then # "start"
  <2>1. /\ proc[p] \in Processes
        /\ Back(p) = [proc[p] EXCEPT !.pc = "idle", !.then = "idle", !.arg = None,
                                     !.got = <<>>, !.fd = NoInode, !.ok = TRUE]
    BY <1>2 DEF Back
  <2>2. <<>> \in Seq(Nat)
    OBVIOUS
  <2>3. Back(p) \in Processes
    BY <2>1, <2>2 DEF Processes, Points, Sequels
  <2>4. /\ Back(p).pc = "idle" /\ Back(p).fd = NoInode
        /\ Back(p).held = proc[p].held /\ Back(p).cur = proc[p].cur
    BY <2>1 DEF Processes
  <2> QED
    BY <2>1, <2>3 DEF Keeps, ProcessShape, FdPoints
<1> QED
  BY <1>1, <1>2

\* A lock file that has been opened is the one that bears the name.
LEMMA OpenKeepsInv ==
  ASSUME LockInv, NEW p \in Procs, NEW id \in Ids, NEW pc \in FdPoints \ DeletePoints,
         OpenLock(p, id, pc), UNCHANGED <<files, last, written, raced>>,
         proc[p].fd = NoInode,
         pc = "ensureLock" => id = proc[p].cur /\ proc[p].held = NoInode,
         pc # "ensureLock" => id = proc[p].arg
  PROVE  LockInv'
<1>1. PICK n \in Inodes :
        /\ n = IF lockFile[id] = NoInode THEN FreeInode ELSE lockFile[id]
        /\ lockFile[id] = NoInode => n \in FreeInodes
  BY DEF LockInv, LockTypes, OpenLock, FreeInode, FreeInodes
<1>2. proc[p] \in Processes /\ pc \in Points
  BY DEF LockInv, LockTypes, FdPoints, Points
<1>3. PICK r \in Processes :
        /\ r = [proc[p] EXCEPT !.fd = n, !.pc = pc]
        /\ r.pc = pc /\ r.fd = n /\ r.held = proc[p].held
        /\ r.cur = proc[p].cur /\ r.arg = proc[p].arg /\ r.mem = proc[p].mem
  <2>1. [proc[p] EXCEPT !.fd = n, !.pc = pc] \in Processes
    BY <1>1, <1>2 DEF Processes
  <2> QED
    BY <2>1, <1>2 DEF Processes
<1>4. proc' = [proc EXCEPT ![p] = r] /\ lockFile' = [lockFile EXCEPT ![id] = n]
  BY <1>1, <1>3 DEF OpenLock
<1>5. LockTypes'
  BY <1>1, <1>3, <1>4 DEF LockInv, LockTypes
<1>6. FdId(r) = id
  BY <1>3 DEF FdId
<1>7. ProcessShape(r)
  BY <1>3, <1>6, NoneIsNoId DEF LockInv, ProcessShape, FdPoints
<1>8. /\ lockFile'[id] = n
      /\ \A i \in Ids : lockFile[i] # NoInode => lockFile'[i] = lockFile[i]
  BY <1>1, <1>4 DEF LockInv, LockTypes
<1>9. \A q \in Procs \ {p} : Named(proc[q])'
  <2> TAKE q \in Procs \ {p}
  <2>1. proc'[q] = proc[q] /\ ProcessShape(proc[q]) /\ Named(proc[q])
    BY <1>4 DEF LockInv, LockTypes
  <2> QED
    BY <2>1, <1>8 DEF Named, ProcessShape
<1>11. Named(r)'
  <2>1. ProcessShape(proc[p]) /\ Named(proc[p])
    BY DEF LockInv
  <2>2. r.held # NoInode => r.cur \in Ids /\ (r.cur \notin raced => r.held = lockFile'[r.cur])
    BY <2>1, <1>3, <1>8 DEF Named, ProcessShape
  <2> QED
    BY <2>2, <1>3, <1>6, <1>8 DEF Named, FdId
<1>10. \A q \in Procs \ {p} : LocksOf(r) \cap LocksOf(proc[q]) \subseteq {NoInode}
  BY <1>3 DEF LockInv, Exclusive, LocksOf
<1>12. proc' = [proc EXCEPT ![p] = r] /\ r \in Processes
  BY <1>4
<1> QED
  BY <1>5, <1>7, <1>9, <1>10, <1>11, <1>12, OneProcessSteps

\* flock grants a file nobody else has locked, as the agent's lock or as Delete's.
LEMMA GrantKeepsInv ==
  ASSUME LockInv, NEW p \in Procs, NEW r \in Processes,
         proc' = [proc EXCEPT ![p] = r], UNCHANGED <<files, last, lockFile, written, raced>>,
         Granted(p), ProcessShape(r),
         \/ /\ r.held = proc[p].fd /\ r.cur = FdId(proc[p]) /\ r.fd = NoInode
         \/ /\ r.held = proc[p].held /\ r.cur = proc[p].cur
            /\ r.fd = proc[p].fd /\ FdId(r) = FdId(proc[p])
  PROVE  LockInv'
<1>1. LockTypes'
  BY DEF LockInv, LockTypes
<1>2. Named(r)'
  BY DEF LockInv, Named
<1>3. \A q \in Procs \ {p} : Named(proc[q])'
  BY DEF LockInv, Named
<1>4. LocksOf(r) \subseteq LocksOf(proc[p]) \cup {proc[p].fd, NoInode}
  BY DEF LocksOf
<1>5. \A q \in Procs \ {p} : proc[p].fd \notin LocksOf(proc[q])
  BY DEF Granted, Locks, LocksOf, DeletePoints
<1>6. \A q \in Procs \ {p} : LocksOf(r) \cap LocksOf(proc[q]) \subseteq {NoInode}
  BY <1>4, <1>5 DEF LockInv, Exclusive
<1> QED
  BY <1>1, <1>2, <1>3, <1>6, OneProcessSteps

\* The same, for a step given by what the process becomes.
LEMMA UpdateKeepsInv ==
  ASSUME LockInv, NEW p \in Procs,
         \E r \in Processes : proc' = [proc EXCEPT ![p] = r] /\ Keeps(proc[p], r),
         UNCHANGED <<lockFile, raced>>,
         files' \in [Ids -> Seq(Nat)], last' \in Ids \cup {None}, written' \in Nat
  PROVE  LockInv'
<1>1. PICK r \in Processes : proc' = [proc EXCEPT ![p] = r] /\ Keeps(proc[p], r)
  OBVIOUS
<1>2. proc \in [Procs -> Processes]
  BY DEF LockInv, LockTypes
<1>3. proc' \in [Procs -> Processes] /\ proc'[p] = r /\ \A q \in Procs \ {p} : proc'[q] = proc[q]
  BY <1>1, <1>2
<1> QED
  BY <1>1, <1>3, QuietKeepsInv

\* Starting, and finding the session to load.
LEMMA FindKeepsInv ==
  ASSUME LockInv, NEW p \in Procs,
         Start(p) \/ Resolve(p) \/ LoadPointer(p) \/ LoadNamed(p) \/ LoadNewest(p) \/ Repoint(p)
  PROVE  LockInv'
<1>1. proc \in [Procs -> Processes] /\ proc[p] \in Processes /\ ProcessShape(proc[p])
  BY DEF LockInv, LockTypes
<1>2. CASE Start(p)
  <2>1. \E r \in Processes : proc' = [proc EXCEPT ![p] = r] /\ Keeps(proc[p], r)
    <3>1. CASE proc' = [proc EXCEPT ![p] = [@ EXCEPT !.pc = "idle", !.then = "idle"]]
      <4>1. proc' = [proc EXCEPT ![p] = [proc[p] EXCEPT !.pc = "idle", !.then = "idle"]]
        BY <1>1, <1>2, <3>1 DEF Start
      <4>2. [proc[p] EXCEPT !.pc = "idle", !.then = "idle"] \in Processes
        BY <1>1 DEF Processes, Points, Sequels
      <4>3. Keeps(proc[p], [proc[p] EXCEPT !.pc = "idle", !.then = "idle"])
        BY <1>1, <1>2 DEF Start, Keeps, ProcessShape, FdPoints
      <4> QED
        BY <4>1, <4>2, <4>3
    <3>2. ASSUME NEW pc \in {"pick", "last"},
                  proc' = [proc EXCEPT ![p] = [proc[p] EXCEPT !.pc = pc, !.then = "start"]]
           PROVE  \E r \in Processes : proc' = [proc EXCEPT ![p] = r] /\ Keeps(proc[p], r)
      <4>1. proc' = [proc EXCEPT ![p] = [proc[p] EXCEPT !.pc = pc, !.then = "start"]]
        BY <1>1, <1>2, <3>2 DEF Start
      <4>2. [proc[p] EXCEPT !.pc = pc, !.then = "start"] \in Processes
        BY <1>1 DEF Processes, Points, Sequels
      <4>3. Keeps(proc[p], [proc[p] EXCEPT !.pc = pc, !.then = "start"])
        BY <1>1, <1>2 DEF Start, Keeps, ProcessShape, FdPoints
      <4> QED
        BY <4>1, <4>2, <4>3
    <3> QED
      BY <1>1, <1>2, <3>1, <3>2 DEF Start
  <2>2. /\ UNCHANGED <<lockFile, raced>>
        /\ files' \in [Ids -> Seq(Nat)] /\ last' \in Ids \cup {None} /\ written' \in Nat
    BY <1>2 DEF Start, LockInv, LockTypes
  <2> QED
    BY <2>1, <2>2, UpdateKeepsInv
<1>3. CASE Resolve(p)
  <2>1. \E r \in Processes : proc' = [proc EXCEPT ![p] = r] /\ Keeps(proc[p], r)
    <3>1. ASSUME NEW id \in Stored,
                  proc' = [proc EXCEPT ![p] =
                            [proc[p] EXCEPT !.arg = id, !.got = files[id], !.pc = "load"]]
           PROVE  \E r \in Processes : proc' = [proc EXCEPT ![p] = r] /\ Keeps(proc[p], r)
      <4>1. proc' = [proc EXCEPT ![p] =
                      [proc[p] EXCEPT !.arg = id, !.got = files[id], !.pc = "load"]]
        BY <1>1, <1>3, <3>1 DEF Resolve, Stored
      <4>2. [proc[p] EXCEPT !.arg = id, !.got = files[id], !.pc = "load"] \in Processes
        BY <1>1 DEF Processes, Points, LockInv, LockTypes, Stored
      <4>3. Keeps(proc[p], [proc[p] EXCEPT !.arg = id, !.got = files[id], !.pc = "load"])
        BY <1>1, <1>3 DEF Resolve, Processes, Keeps, ProcessShape, FdPoints, FdId, Stored
      <4> QED
        BY <4>1, <4>2, <4>3
    <3>2. CASE proc' = [proc EXCEPT ![p] = Back(p)]
      BY <1>1, <1>3, <3>2, BackKeeps DEF Resolve, Stored
    <3> QED
      BY <1>1, <1>3, <3>1, <3>2 DEF Resolve, Stored
  <2>2. /\ UNCHANGED <<lockFile, raced>>
        /\ files' \in [Ids -> Seq(Nat)] /\ last' \in Ids \cup {None} /\ written' \in Nat
    BY <1>3 DEF Resolve, LockInv, LockTypes
  <2> QED
    BY <2>1, <2>2, UpdateKeepsInv
<1>4. CASE LoadPointer(p)
  <2>1. \E r \in Processes : proc' = [proc EXCEPT ![p] = r] /\ Keeps(proc[p], r)
    <3>1. CASE last = None
      <4>1. proc' = [proc EXCEPT ![p] = [proc[p] EXCEPT !.arg = last, !.pc = "newest"]]
        BY <1>1, <1>4, <3>1 DEF LoadPointer
      <4>2. [proc[p] EXCEPT !.arg = last, !.pc = "newest"] \in Processes
        BY <1>1, <3>1 DEF Processes, Points
      <4>3. Keeps(proc[p], [proc[p] EXCEPT !.arg = last, !.pc = "newest"])
        BY <1>1, <1>4 DEF LoadPointer, Keeps, ProcessShape, FdPoints
      <4> QED
        BY <4>1, <4>2, <4>3
    <3>2. CASE last # None
      <4>1. proc' = [proc EXCEPT ![p] = [proc[p] EXCEPT !.arg = last, !.pc = "named"]]
        BY <1>1, <1>4, <3>2 DEF LoadPointer
      <4>2. [proc[p] EXCEPT !.arg = last, !.pc = "named"] \in Processes
        BY <1>1 DEF Processes, Points, LockInv, LockTypes
      <4>3. Keeps(proc[p], [proc[p] EXCEPT !.arg = last, !.pc = "named"])
        BY <1>4, <3>2
           DEF LoadPointer, Keeps, ProcessShape, FdPoints, FdId, LockInv, LockTypes
      <4> QED
        BY <4>1, <4>2, <4>3
    <3> QED
      BY <1>1, <1>4, <3>1, <3>2 DEF LoadPointer
  <2>2. /\ UNCHANGED <<lockFile, raced>>
        /\ files' \in [Ids -> Seq(Nat)] /\ last' \in Ids \cup {None} /\ written' \in Nat
    BY <1>4 DEF LoadPointer, LockInv, LockTypes
  <2> QED
    BY <2>1, <2>2, UpdateKeepsInv
<1>5. CASE LoadNamed(p)
  <2>1. \E r \in Processes : proc' = [proc EXCEPT ![p] = r] /\ Keeps(proc[p], r)
    <3>1. CASE files[proc[p].arg] # <<>>
      <4>1. proc' = [proc EXCEPT ![p] =
                      [proc[p] EXCEPT !.got = files[proc[p].arg], !.pc = "load"]]
        BY <1>1, <1>5, <3>1 DEF LoadNamed
      <4>2. [proc[p] EXCEPT !.got = files[proc[p].arg], !.pc = "load"] \in Processes
        BY <1>5 DEF LoadNamed, Processes, ProcessShape, Points, LockInv, LockTypes, FdId
      <4>3. Keeps(proc[p], [proc[p] EXCEPT !.got = files[proc[p].arg], !.pc = "load"])
        BY <1>1, <1>5 DEF LoadNamed, Keeps, ProcessShape, FdPoints, FdId
      <4> QED
        BY <4>1, <4>2, <4>3
    <3>2. CASE files[proc[p].arg] = <<>>
      <4>1. proc' = [proc EXCEPT ![p] = [proc[p] EXCEPT !.pc = "newest"]]
        BY <1>1, <1>5, <3>2 DEF LoadNamed
      <4>2. [proc[p] EXCEPT !.pc = "newest"] \in Processes
        BY <1>1 DEF Processes, Points
      <4>3. Keeps(proc[p], [proc[p] EXCEPT !.pc = "newest"])
        BY <1>1, <1>5 DEF LoadNamed, Keeps, ProcessShape, FdPoints
      <4> QED
        BY <4>1, <4>2, <4>3
    <3> QED
      BY <1>1, <1>5, <3>1, <3>2 DEF LoadNamed
  <2>2. /\ UNCHANGED <<lockFile, raced>>
        /\ files' \in [Ids -> Seq(Nat)] /\ last' \in Ids \cup {None} /\ written' \in Nat
    BY <1>5 DEF LoadNamed, LockInv, LockTypes
  <2> QED
    BY <2>1, <2>2, UpdateKeepsInv
<1>6. CASE LoadNewest(p)
  <2>1. \E r \in Processes : proc' = [proc EXCEPT ![p] = r] /\ Keeps(proc[p], r)
    <3>1. ASSUME NEW id \in Ids,
                  proc' = [proc EXCEPT ![p] =
                            [proc[p] EXCEPT !.arg = id, !.got = files[id], !.pc = "repoint"]]
           PROVE  \E r \in Processes : proc' = [proc EXCEPT ![p] = r] /\ Keeps(proc[p], r)
      <4>1. proc' = [proc EXCEPT ![p] =
                      [proc[p] EXCEPT !.arg = id, !.got = files[id], !.pc = "repoint"]]
        BY <1>1, <1>6, <3>1 DEF LoadNewest
      <4>2. [proc[p] EXCEPT !.arg = id, !.got = files[id], !.pc = "repoint"] \in Processes
        BY <1>1 DEF Processes, Points, LockInv, LockTypes
      <4>3. Keeps(proc[p], [proc[p] EXCEPT !.arg = id, !.got = files[id], !.pc = "repoint"])
        BY <1>1, <1>6 DEF LoadNewest, Processes, Keeps, ProcessShape, FdPoints, FdId
      <4> QED
        BY <4>1, <4>2, <4>3
    <3>2. CASE proc' = [proc EXCEPT ![p] = Back(p)]
      BY <1>1, <1>6, <3>2, BackKeeps DEF LoadNewest
    <3> QED
      BY <1>1, <1>6, <3>1, <3>2 DEF LoadNewest
  <2>2. /\ UNCHANGED <<lockFile, raced>>
        /\ files' \in [Ids -> Seq(Nat)] /\ last' \in Ids \cup {None} /\ written' \in Nat
    BY <1>6 DEF LoadNewest, LockInv, LockTypes
  <2> QED
    BY <2>1, <2>2, UpdateKeepsInv
<1>7. CASE Repoint(p)
  <2>1. \E r \in Processes : proc' = [proc EXCEPT ![p] = r] /\ Keeps(proc[p], r)
    <3>1. proc' = [proc EXCEPT ![p] = [proc[p] EXCEPT !.pc = "load"]]
      BY <1>1, <1>7 DEF Repoint
    <3>2. [proc[p] EXCEPT !.pc = "load"] \in Processes
      BY <1>1 DEF Processes, Points
    <3>3. Keeps(proc[p], [proc[p] EXCEPT !.pc = "load"])
      BY <1>1, <1>7 DEF Repoint, Keeps, ProcessShape, FdPoints, FdId
    <3> QED
      BY <3>1, <3>2, <3>3
  <2>2. /\ UNCHANGED <<lockFile, raced>>
        /\ files' \in [Ids -> Seq(Nat)] /\ last' \in Ids \cup {None} /\ written' \in Nat
    BY <1>7 DEF Repoint, LockInv, LockTypes, Processes
  <2> QED
    BY <2>1, <2>2, UpdateKeepsInv
<1> QED
  BY <1>2, <1>3, <1>4, <1>5, <1>6, <1>7

\* A process that works on a session has its lock and nothing else open.
LEMMA WorkingIsAProcess ==
  ASSUME NEW p \in Procs, NEW id \in Ids, NEW fd \in Inodes, NEW m \in Seq(Nat)
  PROVE  \E r \in Processes :
           /\ r = Working(p, id, fd, m) /\ ProcessShape(r)
           /\ r.pc = "idle" /\ r.cur = id /\ r.held = fd /\ r.fd = NoInode /\ r.arg = None
<1>1. Off \in Processes /\ Off.fd = NoInode /\ Off.arg = None
  BY OffIsAProcess DEF Off
<1>2. Working(p, id, fd, m) =
        [Off EXCEPT !.pc = "idle", !.then = "idle", !.cur = id, !.held = fd, !.mem = m,
                    !.seen = m, !.stale = m # files[id]]
  BY DEF Working
<1>3. PICK u \in Processes :
        u = [Off EXCEPT !.pc = "idle", !.then = "idle", !.cur = id, !.held = fd, !.mem = m,
                        !.seen = m]
  <2>1. [Off EXCEPT !.pc = "idle", !.then = "idle", !.cur = id, !.held = fd, !.mem = m,
                    !.seen = m] \in Processes
    BY <1>1 DEF Processes, Points, Sequels
  <2> QED
    BY <2>1
<1>4. \A s \in BOOLEAN : [u EXCEPT !.stale = s] \in Processes
  BY DEF Processes
<1>5. Working(p, id, fd, m) = [u EXCEPT !.stale = m # files[id]]
  BY <1>2, <1>3
<1>6. PICK r \in Processes : r = Working(p, id, fd, m)
  BY <1>4, <1>5
<1>7. r.pc = "idle" /\ r.cur = id /\ r.held = fd /\ r.fd = NoInode /\ r.arg = None
  BY <1>1, <1>2, <1>6 DEF Processes
<1>8. ProcessShape(r)
  BY <1>7, NoneIsNoId DEF ProcessShape, FdPoints
<1> QED
  BY <1>6, <1>7, <1>8

\* Loading a session.
LEMMA LoadKeepsInv ==
  ASSUME LockInv, NEW p \in Procs,
         LoadHolds(p) \/ LoadHeld(p) \/ LoadLock(p)
  PROVE  LockInv'
<1>1. proc \in [Procs -> Processes] /\ proc[p] \in Processes /\ ProcessShape(proc[p])
  BY DEF LockInv, LockTypes
<1>2. CASE LoadHolds(p)
  <2>1. proc[p].arg \in Ids /\ proc[p].fd = NoInode /\ "loadLock" \in FdPoints \ DeletePoints
    BY <1>1, <1>2 DEF LoadHolds, ProcessShape, FdPoints, FdId, DeletePoints
  <2>2. OpenLock(p, proc[p].arg, "loadLock") /\ UNCHANGED <<files, last, written, raced>>
    BY <1>2 DEF LoadHolds
  <2> QED
    BY <2>1, <2>2, OpenKeepsInv
<1>3. CASE LoadHeld(p)
  <2>1. \E r \in Processes : proc' = [proc EXCEPT ![p] = r] /\ Keeps(proc[p], r)
    <3>1. proc[p].arg \in Ids /\ proc[p].held \in Inodes /\ proc[p].got \in Seq(Nat)
      BY <1>1, <1>3 DEF LoadHeld, Processes, ProcessShape
    <3>2. PICK r \in Processes :
            /\ r = Working(p, proc[p].arg, proc[p].held, proc[p].got) /\ ProcessShape(r)
            /\ r.cur = proc[p].arg /\ r.held = proc[p].held /\ r.fd = NoInode
      BY <3>1, WorkingIsAProcess
    <3> QED
      BY <3>2, <1>3 DEF LoadHeld, Keeps
  <2>2. /\ UNCHANGED <<lockFile, raced>>
        /\ files' \in [Ids -> Seq(Nat)] /\ last' \in Ids \cup {None} /\ written' \in Nat
    BY <1>3 DEF LoadHeld, LockInv, LockTypes
  <2> QED
    BY <2>1, <2>2, UpdateKeepsInv
<1>4. CASE LoadLock(p)
  <2>1. CASE Granted(p)
    <3>1. /\ proc[p].arg \in Ids /\ FdId(proc[p]) = proc[p].arg
          /\ proc[p].got \in Seq(Nat) /\ proc[p].fd \in Inodes
      BY <1>1, <1>4 DEF LoadLock, Processes, ProcessShape, FdId, FdPoints
    <3>2. PICK r \in Processes :
            /\ r = Working(p, proc[p].arg, proc[p].fd, proc[p].got) /\ ProcessShape(r)
            /\ r.cur = proc[p].arg /\ r.held = proc[p].fd /\ r.fd = NoInode
      BY <3>1, WorkingIsAProcess
    <3>3. proc' = [proc EXCEPT ![p] = r] /\ UNCHANGED <<files, last, lockFile, written, raced>>
      BY <2>1, <3>2, <1>4 DEF LoadLock
    <3> QED
      BY <2>1, <3>1, <3>2, <3>3, GrantKeepsInv
  <2>2. CASE ~Granted(p)
    <3>1. \E r \in Processes : proc' = [proc EXCEPT ![p] = r] /\ Keeps(proc[p], r)
      BY <1>1, <2>2, <1>4, BackKeeps DEF LoadLock
    <3>2. /\ UNCHANGED <<lockFile, raced>>
          /\ files' \in [Ids -> Seq(Nat)] /\ last' \in Ids \cup {None} /\ written' \in Nat
      BY <1>4 DEF LoadLock, LockInv, LockTypes
    <3> QED
      BY <3>1, <3>2, UpdateKeepsInv
  <2> QED
    BY <2>1, <2>2
<1> QED
  BY <1>2, <1>3, <1>4

\* Prompts and turns.
LEMMA TurnKeepsInv ==
  ASSUME LockInv, NEW p \in Procs,
         Prompt(p) \/ EnsureLock(p) \/ Attach(p) \/ EndTurn(p)
  PROVE  LockInv'
<1>1. proc \in [Procs -> Processes] /\ proc[p] \in Processes /\ ProcessShape(proc[p])
  BY DEF LockInv, LockTypes
<1>2. CASE Prompt(p)
  <2>1. CASE proc[p].cur # None /\ proc[p].held = NoInode
    <3>1. proc[p].cur \in Ids /\ proc[p].fd = NoInode /\ "ensureLock" \in FdPoints \ DeletePoints
      BY <1>1, <2>1, <1>2 DEF Prompt, Processes, ProcessShape, FdPoints, DeletePoints
    <3>2. OpenLock(p, proc[p].cur, "ensureLock") /\ UNCHANGED <<files, last, written, raced>>
      BY <2>1, <1>2 DEF Prompt
    <3> QED
      BY <2>1, <3>1, <3>2, OpenKeepsInv
  <2>2. CASE ~(proc[p].cur # None /\ proc[p].held = NoInode)
    <3>1. PICK pc \in {"renew", "turn"} :
            /\ proc' = [proc EXCEPT ![p] = [@ EXCEPT !.pc = pc, !.then = "turn"]]
            /\ pc = "turn" => proc[p].cur # None
      BY <2>2, <1>2 DEF Prompt
    <3>2. [proc[p] EXCEPT !.pc = pc, !.then = "turn"] \in Processes
      BY <1>1 DEF Processes, Points, Sequels
    <3>3. Keeps(proc[p], [proc[p] EXCEPT !.pc = pc, !.then = "turn"])
      BY <1>1, <3>1, <1>2 DEF Prompt, Processes, Keeps, ProcessShape, FdPoints
    <3>4. proc' = [proc EXCEPT ![p] = [proc[p] EXCEPT !.pc = pc, !.then = "turn"]]
      BY <3>1
    <3>5. /\ UNCHANGED <<lockFile, raced>>
          /\ files' \in [Ids -> Seq(Nat)] /\ last' \in Ids \cup {None} /\ written' \in Nat
      BY <2>2, <1>2 DEF Prompt, LockInv, LockTypes
    <3> QED
      BY <3>2, <3>3, <3>4, <3>5, UpdateKeepsInv
  <2> QED
    BY <2>1, <2>2
<1>3. CASE EnsureLock(p)
  <2>1. PICK s \in BOOLEAN : s = (proc[p].stale \/ proc[p].seen # files[proc[p].cur])
    OBVIOUS
  <2>2. PICK h \in Inodes \cup {NoInode} : h = IF Granted(p) THEN proc[p].fd ELSE NoInode
    BY <1>1 DEF Processes
  <2>3. PICK u \in Processes :
          u = [proc[p] EXCEPT !.pc = "turn", !.then = "turn", !.fd = NoInode, !.held = h]
    <3>1. [proc[p] EXCEPT !.pc = "turn", !.then = "turn", !.fd = NoInode, !.held = h] \in Processes
      BY <1>1 DEF Processes, Points, Sequels
    <3> QED
      BY <3>1
  <2>4. PICK r \in Processes : r = [u EXCEPT !.stale = s]
    <3>1. \A b \in BOOLEAN : [u EXCEPT !.stale = b] \in Processes
      BY DEF Processes
    <3> QED
      BY <3>1, <2>1
  <2>5. proc' = [proc EXCEPT ![p] = r]
    <3>1. [proc[p] EXCEPT !.pc = "turn", !.then = "turn", !.fd = NoInode, !.held = h, !.stale = s]
             = r
      BY <2>3, <2>4
    <3> QED
      BY <3>1, <2>1, <2>2, <1>3 DEF EnsureLock
  <2>6. /\ r.pc = "turn" /\ r.then = "turn" /\ r.fd = NoInode /\ r.held = h
        /\ r.cur = proc[p].cur
    BY <1>1, <2>3, <2>4 DEF Processes
  <2>7. proc[p].cur \in Ids /\ FdId(proc[p]) = proc[p].cur
    BY <1>1, <1>3 DEF EnsureLock, ProcessShape, FdPoints, FdId
  <2>8. ProcessShape(r)
    BY <2>6, <2>7 DEF ProcessShape, FdPoints
  <2>9. UNCHANGED <<files, last, lockFile, written, raced>>
    BY <1>3 DEF EnsureLock
  <2>10. CASE Granted(p)
    BY <2>2, <2>5, <2>6, <2>7, <2>8, <2>9, <2>10, GrantKeepsInv
  <2>11. CASE ~Granted(p)
    <3>1. Keeps(proc[p], r)
      BY <2>2, <2>6, <2>8, <2>11 DEF Keeps
    <3> QED
      BY <2>5, <2>9, <3>1, UpdateKeepsInv DEF LockInv, LockTypes
  <2> QED
    BY <2>10, <2>11
<1>4. CASE Attach(p)
  <2>1. written + 1 \in Nat /\ Append(proc[p].mem, written + 1) \in Seq(Nat)
    BY DEF LockInv, LockTypes, Processes
  <2>2. PICK m \in Seq(Nat) : m = Append(proc[p].mem, written + 1)
    BY <2>1
  <2>3. [proc[p] EXCEPT !.mem = m, !.pc = "save"] \in Processes
    BY <1>1 DEF Processes, Points
  <2>4. Keeps(proc[p], [proc[p] EXCEPT !.mem = m, !.pc = "save"])
    BY <1>1, <1>4 DEF Attach, Keeps, ProcessShape, FdPoints
  <2>5. proc' = [proc EXCEPT ![p] = [proc[p] EXCEPT !.mem = m, !.pc = "save"]]
    BY <2>2, <1>4 DEF Attach
  <2>6. /\ UNCHANGED <<lockFile, raced>>
        /\ files' \in [Ids -> Seq(Nat)] /\ last' \in Ids \cup {None} /\ written' \in Nat
    BY <1>4 DEF Attach, LockInv, LockTypes
  <2> QED
    BY <2>3, <2>4, <2>5, <2>6, UpdateKeepsInv
<1>5. CASE EndTurn(p)
  <2>1. \E r \in Processes : proc' = [proc EXCEPT ![p] = r] /\ Keeps(proc[p], r)
    <3>1. CASE proc[p].mem = <<>>
      BY <1>1, <1>5, <3>1, BackKeeps DEF EndTurn
    <3>2. CASE proc[p].mem # <<>>
      <4>1. proc' = [proc EXCEPT ![p] = [proc[p] EXCEPT !.pc = "save", !.then = "idle"]]
        BY <1>1, <1>5, <3>2 DEF EndTurn
      <4>2. [proc[p] EXCEPT !.pc = "save", !.then = "idle"] \in Processes
        BY <1>1 DEF Processes, Points, Sequels
      <4>3. Keeps(proc[p], [proc[p] EXCEPT !.pc = "save", !.then = "idle"])
        BY <1>1, <1>5 DEF EndTurn, Keeps, ProcessShape, FdPoints
      <4> QED
        BY <4>1, <4>2, <4>3
    <3> QED
      BY <1>1, <1>5, <3>1, <3>2 DEF EndTurn
  <2>2. /\ UNCHANGED <<lockFile, raced>>
        /\ files' \in [Ids -> Seq(Nat)] /\ last' \in Ids \cup {None} /\ written' \in Nat
    BY <1>5 DEF EndTurn, LockInv, LockTypes
  <2> QED
    BY <2>1, <2>2, UpdateKeepsInv
<1> QED
  BY <1>2, <1>3, <1>4, <1>5

\* What follows a save opens nothing.
LEMMA AfterSaveKeeps ==
  ASSUME NEW p \in Procs, proc \in [Procs -> Processes], ProcessShape(proc[p]),
         proc[p].pc \in {"save", "point"}, NEW saved \in BOOLEAN
  PROVE  AfterSave(p, saved) \in Processes /\ Keeps(proc[p], AfterSave(p, saved))
<1>1. proc[p] \in Processes
  OBVIOUS
<1>2. CASE proc[p].then = "off"
  BY <1>2, OffIsAProcess, OffKeeps DEF AfterSave
<1>3. CASE proc[p].then = "turn"
  <2>1. AfterSave(p, saved) = [proc[p] EXCEPT !.pc = "turn"]
    BY <1>3 DEF AfterSave
  <2>2. [proc[p] EXCEPT !.pc = "turn"] \in Processes
    BY <1>1 DEF Processes, Points
  <2> QED
    BY <1>3, <2>1, <2>2 DEF Keeps, ProcessShape, FdPoints
<1>4. CASE proc[p].then \notin {"off", "turn"}
  <2>1. PICK pc \in {"idle", "pick", "renew"} :
          AfterSave(p, saved) = [proc[p] EXCEPT !.pc = pc, !.then = "idle"]
    BY <1>4 DEF AfterSave, ProcessShape, Processes, Sequels
  <2>2. [proc[p] EXCEPT !.pc = pc, !.then = "idle"] \in Processes
    BY DEF Processes, Points, Sequels
  <2> QED
    BY <2>1, <2>2 DEF Keeps, ProcessShape, FdPoints
<1> QED
  BY <1>2, <1>3, <1>4

\* Saves, and the death of a process.
LEMMA SaveKeepsInv ==
  ASSUME LockInv, NEW p \in Procs,
         SaveFirst(p) \/ Save(p) \/ SaveFails(p) \/ Point(p) \/ PointFails(p) \/ Crash(p)
  PROVE  LockInv'
<1>1. proc \in [Procs -> Processes] /\ proc[p] \in Processes /\ ProcessShape(proc[p])
  BY DEF LockInv, LockTypes
<1>2. CASE SaveFirst(p)
  <2>1. PICK then \in {"pick", "renew", "off"} :
          proc' = IF proc[p].mem # <<>>
                  THEN [proc EXCEPT ![p] = [@ EXCEPT !.pc = "save", !.then = then]]
                  ELSE [proc EXCEPT ![p] = IF then = "off" THEN Off
                                           ELSE [proc[p] EXCEPT !.pc = then, !.then = "idle"]]
    BY <1>2 DEF SaveFirst
  <2>2. \E r \in Processes : proc' = [proc EXCEPT ![p] = r] /\ Keeps(proc[p], r)
    <3>1. CASE proc[p].mem # <<>>
      <4>1. proc' = [proc EXCEPT ![p] = [proc[p] EXCEPT !.pc = "save", !.then = then]]
        BY <2>1, <3>1
      <4>2. [proc[p] EXCEPT !.pc = "save", !.then = then] \in Processes
        BY <1>1 DEF Processes, Points, Sequels
      <4>3. Keeps(proc[p], [proc[p] EXCEPT !.pc = "save", !.then = then])
        BY <1>1, <3>1, <1>2 DEF SaveFirst, Keeps, ProcessShape, FdPoints
      <4> QED
        BY <4>1, <4>2, <4>3
    <3>2. CASE proc[p].mem = <<>> /\ then = "off"
      BY <2>1, <3>2, OffIsAProcess, OffKeeps
    <3>3. CASE proc[p].mem = <<>> /\ then # "off"
      <4>1. proc' = [proc EXCEPT ![p] = [proc[p] EXCEPT !.pc = then, !.then = "idle"]]
        BY <2>1, <3>3
      <4>2. [proc[p] EXCEPT !.pc = then, !.then = "idle"] \in Processes
        BY <1>1 DEF Processes, Points, Sequels
      <4>3. Keeps(proc[p], [proc[p] EXCEPT !.pc = then, !.then = "idle"])
        BY <1>1, <1>2 DEF SaveFirst, Keeps, ProcessShape, FdPoints
      <4> QED
        BY <4>1, <4>2, <4>3
    <3> QED
      BY <3>1, <3>2, <3>3
  <2>3. /\ UNCHANGED <<lockFile, raced>>
        /\ files' \in [Ids -> Seq(Nat)] /\ last' \in Ids \cup {None} /\ written' \in Nat
    BY <1>2 DEF SaveFirst, LockInv, LockTypes
  <2> QED
    BY <2>2, <2>3, UpdateKeepsInv
<1>3. CASE Save(p)
  <2>1. \E r \in Processes : proc' = [proc EXCEPT ![p] = r] /\ Keeps(proc[p], r)
    <3>1. proc' = [proc EXCEPT ![p] = [proc[p] EXCEPT !.seen = proc[p].mem, !.pc = "point"]]
      BY <1>1, <1>3 DEF Save
    <3>2. [proc[p] EXCEPT !.seen = proc[p].mem, !.pc = "point"] \in Processes
      BY <1>1 DEF Processes, Points
    <3>3. Keeps(proc[p], [proc[p] EXCEPT !.seen = proc[p].mem, !.pc = "point"])
      BY <1>1, <1>3 DEF Save, Keeps, ProcessShape, FdPoints
    <3> QED
      BY <3>1, <3>2, <3>3
  <2>2. /\ UNCHANGED <<lockFile, raced>>
        /\ files' \in [Ids -> Seq(Nat)] /\ last' \in Ids \cup {None} /\ written' \in Nat
    BY <1>3 DEF Save, LockInv, LockTypes, Processes
  <2> QED
    BY <2>1, <2>2, UpdateKeepsInv
<1>4. CASE SaveFails(p)
  <2>1. proc[p].cur \in Ids /\ proc' = [proc EXCEPT ![p] = AfterSave(p, FALSE)]
    BY <1>1, <1>4 DEF SaveFails, ProcessShape
  <2>2. \E r \in Processes : proc' = [proc EXCEPT ![p] = r] /\ Keeps(proc[p], r)
    BY <1>1, <2>1, <1>4, AfterSaveKeeps DEF SaveFails
  <2>3. /\ UNCHANGED <<lockFile, raced>>
        /\ files' \in [Ids -> Seq(Nat)] /\ last' \in Ids \cup {None} /\ written' \in Nat
    BY <1>4 DEF SaveFails, LockInv, LockTypes
  <2> QED
    BY <2>2, <2>3, UpdateKeepsInv
<1>5. CASE Point(p)
  <2>1. proc[p].cur \in Ids /\ proc' = [proc EXCEPT ![p] = AfterSave(p, TRUE)]
    BY <1>1, <1>5 DEF Point, ProcessShape
  <2>2. \E r \in Processes : proc' = [proc EXCEPT ![p] = r] /\ Keeps(proc[p], r)
    BY <1>1, <2>1, <1>5, AfterSaveKeeps DEF Point
  <2>3. /\ UNCHANGED <<lockFile, raced>>
        /\ files' \in [Ids -> Seq(Nat)] /\ last' \in Ids \cup {None} /\ written' \in Nat
    BY <2>1, <1>5 DEF Point, LockInv, LockTypes, Pointer
  <2> QED
    BY <2>2, <2>3, UpdateKeepsInv
<1>6. CASE PointFails(p)
  <2>1. proc[p].cur \in Ids /\ proc' = [proc EXCEPT ![p] = AfterSave(p, FALSE)]
    BY <1>1, <1>6 DEF PointFails, ProcessShape
  <2>2. \E r \in Processes : proc' = [proc EXCEPT ![p] = r] /\ Keeps(proc[p], r)
    BY <1>1, <2>1, <1>6, AfterSaveKeeps DEF PointFails
  <2>3. /\ UNCHANGED <<lockFile, raced>>
        /\ files' \in [Ids -> Seq(Nat)] /\ last' \in Ids \cup {None} /\ written' \in Nat
    BY <1>6 DEF PointFails, LockInv, LockTypes
  <2> QED
    BY <2>2, <2>3, UpdateKeepsInv
<1>7. CASE Crash(p)
  <2>1. \E r \in Processes : proc' = [proc EXCEPT ![p] = r] /\ Keeps(proc[p], r)
    BY <1>1, <1>7, OffKeeps, OffIsAProcess DEF Crash
  <2>2. /\ UNCHANGED <<lockFile, raced>>
        /\ files' \in [Ids -> Seq(Nat)] /\ last' \in Ids \cup {None} /\ written' \in Nat
    BY <1>7 DEF Crash, LockInv, LockTypes
  <2> QED
    BY <2>1, <2>2, UpdateKeepsInv
<1> QED
  BY <1>2, <1>3, <1>4, <1>5, <1>6, <1>7

\* Deleting a session, up to the removal of its lock file.
LEMMA DeleteKeepsInv ==
  ASSUME LockInv, NEW p \in Procs,
         \/ DeleteOther(p) \/ DeleteCurrent(p) \/ DeleteHolds(p) \/ DeleteLock(p)
         \/ Erase(p) \/ Match(p) \/ Unpoint(p) \/ Release(p)
  PROVE  LockInv'
<1>1. proc \in [Procs -> Processes] /\ proc[p] \in Processes /\ ProcessShape(proc[p])
  BY DEF LockInv, LockTypes
<1>2. CASE DeleteOther(p)
  <2>1. \E r \in Processes : proc' = [proc EXCEPT ![p] = r] /\ Keeps(proc[p], r)
    <3>1. ASSUME NEW id \in Stored \ {proc[p].cur},
                  proc' = [proc EXCEPT ![p] = [proc[p] EXCEPT !.arg = id, !.pc = "delete"]]
           PROVE  \E r \in Processes : proc' = [proc EXCEPT ![p] = r] /\ Keeps(proc[p], r)
      <4>1. proc' = [proc EXCEPT ![p] = [proc[p] EXCEPT !.arg = id, !.pc = "delete"]]
        BY <1>1, <1>2, <3>1 DEF DeleteOther, Stored
      <4>2. [proc[p] EXCEPT !.arg = id, !.pc = "delete"] \in Processes
        BY <1>1 DEF Processes, Points, Stored
      <4>3. Keeps(proc[p], [proc[p] EXCEPT !.arg = id, !.pc = "delete"])
        BY <1>1, <1>2
           DEF DeleteOther, Processes, Keeps, ProcessShape, FdPoints, FdId, Stored
      <4> QED
        BY <4>1, <4>2, <4>3
    <3> QED
      BY <1>1, <1>2, <3>1 DEF DeleteOther, Stored
  <2>2. /\ UNCHANGED <<lockFile, raced>>
        /\ files' \in [Ids -> Seq(Nat)] /\ last' \in Ids \cup {None} /\ written' \in Nat
    BY <1>2 DEF DeleteOther, LockInv, LockTypes
  <2> QED
    BY <2>1, <2>2, UpdateKeepsInv
<1>3. CASE DeleteCurrent(p)
  <2>1. \E r \in Processes : proc' = [proc EXCEPT ![p] = r] /\ Keeps(proc[p], r)
    <3>1. proc' = [proc EXCEPT ![p] =
                    [proc[p] EXCEPT !.arg = proc[p].cur, !.pc = "delete", !.held = NoInode]]
      BY <1>1, <1>3 DEF DeleteCurrent
    <3>2. [proc[p] EXCEPT !.arg = proc[p].cur, !.pc = "delete", !.held = NoInode] \in Processes
      BY <1>1 DEF Processes, Points
    <3>3. Keeps(proc[p], [proc[p] EXCEPT !.arg = proc[p].cur, !.pc = "delete", !.held = NoInode])
      BY <1>1, <1>3 DEF DeleteCurrent, Processes, Keeps, ProcessShape, FdPoints, FdId
    <3> QED
      BY <3>1, <3>2, <3>3
  <2>2. /\ UNCHANGED <<lockFile, raced>>
        /\ files' \in [Ids -> Seq(Nat)] /\ last' \in Ids \cup {None} /\ written' \in Nat
    BY <1>3 DEF DeleteCurrent, LockInv, LockTypes
  <2> QED
    BY <2>1, <2>2, UpdateKeepsInv
<1>4. CASE DeleteHolds(p)
  <2>1. proc[p].arg \in Ids /\ proc[p].fd = NoInode /\ "deleteLock" \in FdPoints \ DeletePoints
    BY <1>1, <1>4 DEF DeleteHolds, ProcessShape, FdPoints, FdId, DeletePoints
  <2>2. OpenLock(p, proc[p].arg, "deleteLock") /\ UNCHANGED <<files, last, written, raced>>
    BY <1>4 DEF DeleteHolds
  <2> QED
    BY <2>1, <2>2, OpenKeepsInv
<1>5. CASE DeleteLock(p)
  <2>1. UNCHANGED <<files, last, lockFile, written, raced>> /\ proc[p].pc = "deleteLock"
    BY <1>5 DEF DeleteLock
  <2>2. CASE Granted(p)
    <3>1. proc' = [proc EXCEPT ![p] = [proc[p] EXCEPT !.pc = "erase"]]
      BY <2>2, <1>5 DEF DeleteLock
    <3>2. PICK r \in Processes : r = [proc[p] EXCEPT !.pc = "erase"]
      <4>1. [proc[p] EXCEPT !.pc = "erase"] \in Processes
        BY <1>1 DEF Processes, Points
      <4> QED
        BY <4>1
    <3>3. /\ r.pc = "erase" /\ r.held = proc[p].held /\ r.cur = proc[p].cur
          /\ r.fd = proc[p].fd /\ r.arg = proc[p].arg /\ r.mem = proc[p].mem
      BY <1>1, <3>2 DEF Processes
    <3>4. ProcessShape(r) /\ FdId(r) = FdId(proc[p])
      BY <1>1, <2>1, <3>3 DEF ProcessShape, FdPoints, FdId
    <3>5. proc' = [proc EXCEPT ![p] = r]
      BY <3>1, <3>2
    <3> QED
      BY <2>1, <2>2, <3>3, <3>4, <3>5, GrantKeepsInv
  <2>3. CASE ~Granted(p)
    <3>1. \E r \in Processes : proc' = [proc EXCEPT ![p] = r] /\ Keeps(proc[p], r)
      BY <1>1, <2>3, <1>5, BackKeeps DEF DeleteLock
    <3> QED
      BY <2>1, <3>1, UpdateKeepsInv DEF LockInv, LockTypes
  <2> QED
    BY <2>2, <2>3
<1>6. CASE Erase(p)
  <2>1. \E r \in Processes : proc' = [proc EXCEPT ![p] = r] /\ Keeps(proc[p], r)
    <3>1. CASE proc' = [proc EXCEPT ![p].pc = "match"]
      <4>1. proc' = [proc EXCEPT ![p] = [proc[p] EXCEPT !.pc = "match"]]
        BY <1>1, <1>6, <3>1 DEF Erase
      <4>2. [proc[p] EXCEPT !.pc = "match"] \in Processes
        BY <1>1 DEF Processes, Points
      <4>3. Keeps(proc[p], [proc[p] EXCEPT !.pc = "match"])
        BY <1>1, <1>6 DEF Erase, Keeps, ProcessShape, FdPoints, FdId, DeletePoints
      <4> QED
        BY <4>1, <4>2, <4>3
    <3>2. CASE proc' = [proc EXCEPT ![p] = [@ EXCEPT !.ok = FALSE, !.pc = "release"]]
      <4>1. proc' = [proc EXCEPT ![p] = [proc[p] EXCEPT !.ok = FALSE, !.pc = "release"]]
        BY <1>1, <1>6, <3>2 DEF Erase
      <4>2. [proc[p] EXCEPT !.ok = FALSE, !.pc = "release"] \in Processes
        BY <1>1 DEF Processes, Points
      <4>3. Keeps(proc[p], [proc[p] EXCEPT !.ok = FALSE, !.pc = "release"])
        BY <1>1, <1>6 DEF Erase, Keeps, ProcessShape, FdPoints, FdId, DeletePoints
      <4> QED
        BY <4>1, <4>2, <4>3
    <3> QED
      BY <1>1, <1>6, <3>1, <3>2 DEF Erase
  <2>2. files' \in [Ids -> Seq(Nat)]
    <3>1. \A id \in Ids : [files EXCEPT ![id] = <<>>] \in [Ids -> Seq(Nat)]
      BY DEF LockInv, LockTypes
    <3> QED
      BY <1>6, <3>1 DEF Erase, LockInv, LockTypes
  <2>3. /\ UNCHANGED <<lockFile, raced>>
        /\ files' \in [Ids -> Seq(Nat)] /\ last' \in Ids \cup {None} /\ written' \in Nat
    BY <1>6, <2>2 DEF Erase, LockInv, LockTypes
  <2> QED
    BY <2>1, <2>3, UpdateKeepsInv
<1>7. CASE Match(p)
  <2>1. \E r \in Processes : proc' = [proc EXCEPT ![p] = r] /\ Keeps(proc[p], r)
    <3>1. CASE last = proc[p].arg
      <4>1. proc' = [proc EXCEPT ![p] = [proc[p] EXCEPT !.pc = "unpoint"]]
        BY <1>1, <1>7, <3>1 DEF Match
      <4>2. [proc[p] EXCEPT !.pc = "unpoint"] \in Processes
        BY <1>1 DEF Processes, Points
      <4>3. Keeps(proc[p], [proc[p] EXCEPT !.pc = "unpoint"])
        BY <1>1, <1>7 DEF Match, Keeps, ProcessShape, FdPoints, FdId, DeletePoints
      <4> QED
        BY <4>1, <4>2, <4>3
    <3>2. CASE last # proc[p].arg
      <4>1. proc' = [proc EXCEPT ![p] = [proc[p] EXCEPT !.pc = "release"]]
        BY <1>1, <1>7, <3>2 DEF Match
      <4>2. [proc[p] EXCEPT !.pc = "release"] \in Processes
        BY <1>1 DEF Processes, Points
      <4>3. Keeps(proc[p], [proc[p] EXCEPT !.pc = "release"])
        BY <1>1, <1>7 DEF Match, Keeps, ProcessShape, FdPoints, FdId, DeletePoints
      <4> QED
        BY <4>1, <4>2, <4>3
    <3> QED
      BY <1>1, <1>7, <3>1, <3>2 DEF Match
  <2>2. /\ UNCHANGED <<lockFile, raced>>
        /\ files' \in [Ids -> Seq(Nat)] /\ last' \in Ids \cup {None} /\ written' \in Nat
    BY <1>7 DEF Match, LockInv, LockTypes
  <2> QED
    BY <2>1, <2>2, UpdateKeepsInv
<1>8. CASE Unpoint(p)
  <2>1. \E r \in Processes : proc' = [proc EXCEPT ![p] = r] /\ Keeps(proc[p], r)
    <3>1. proc' = [proc EXCEPT ![p] = [proc[p] EXCEPT !.pc = "release"]]
      BY <1>1, <1>8 DEF Unpoint
    <3>2. [proc[p] EXCEPT !.pc = "release"] \in Processes
      BY <1>1 DEF Processes, Points
    <3>3. Keeps(proc[p], [proc[p] EXCEPT !.pc = "release"])
      BY <1>1, <1>8 DEF Unpoint, Keeps, ProcessShape, FdPoints, FdId, DeletePoints
    <3> QED
      BY <3>1, <3>2, <3>3
  <2>2. /\ UNCHANGED <<lockFile, raced>>
        /\ files' \in [Ids -> Seq(Nat)] /\ last' \in Ids \cup {None} /\ written' \in Nat
    BY <1>8 DEF Unpoint, LockInv, LockTypes
  <2> QED
    BY <2>1, <2>2, UpdateKeepsInv
<1>9. CASE Release(p)
  <2>1. \E r \in Processes : proc' = [proc EXCEPT ![p] = r] /\ Keeps(proc[p], r)
    <3>1. proc' = [proc EXCEPT ![p] = [proc[p] EXCEPT !.fd = NoInode, !.pc = "unlink"]]
      BY <1>1, <1>9 DEF Release
    <3>2. [proc[p] EXCEPT !.fd = NoInode, !.pc = "unlink"] \in Processes
      BY <1>1 DEF Processes, Points
    <3>3. Keeps(proc[p], [proc[p] EXCEPT !.fd = NoInode, !.pc = "unlink"])
      BY <1>1, <1>9 DEF Release, Keeps, ProcessShape, FdPoints, FdId
    <3> QED
      BY <3>1, <3>2, <3>3
  <2>2. /\ UNCHANGED <<lockFile, raced>>
        /\ files' \in [Ids -> Seq(Nat)] /\ last' \in Ids \cup {None} /\ written' \in Nat
    BY <1>9 DEF Release, LockInv, LockTypes
  <2> QED
    BY <2>1, <2>2, UpdateKeepsInv
<1> QED
  BY <1>2, <1>3, <1>4, <1>5, <1>6, <1>7, <1>8, <1>9

\* A new session has an id nobody else is about, and a lock file nobody has open.
LEMMA RenewKeepsInv ==
  ASSUME LockInv, NEW p \in Procs, Renew(p)
  PROVE  LockInv'
<1>1. proc \in [Procs -> Processes] /\ \A q \in Procs : ProcessShape(proc[q]) /\ Named(proc[q])
  BY DEF LockInv, LockTypes
<1>2. PICK fd \in FreeInodes : fd = FreeInode
  BY DEF Renew, FreeInode
<1>3. PICK id \in Ids :
        /\ Unused(id) /\ lockFile' = [lockFile EXCEPT ![id] = fd]
        /\ proc' = [proc EXCEPT ![p] =
                      [Working(p, id, fd, <<>>) EXCEPT
                         !.pc = IF proc[p].then = "turn" THEN "turn" ELSE "idle",
                         !.then = proc[p].then]]
  BY <1>2 DEF Renew
<1>4. fd \in Inodes /\ \A q \in Procs : fd # proc[q].held /\ fd # proc[q].fd
  <2>1. fd \in Inodes /\ \A q \in Procs : fd \notin Opened(q)
    BY <1>2 DEF FreeInodes
  <2> QED
    BY <2>1, NoneIsNoId DEF Opened
<1>5. PICK w \in Processes :
        /\ w = Working(p, id, fd, <<>>) /\ ProcessShape(w)
        /\ w.cur = id /\ w.held = fd /\ w.fd = NoInode
  <2>1. PICK m \in Seq(Nat) : m = <<>>
    <3>1. <<>> \in Seq(Nat)
      OBVIOUS
    <3> QED
      BY <3>1
  <2>2. \E w \in Processes :
          /\ w = Working(p, id, fd, m) /\ ProcessShape(w)
          /\ w.cur = id /\ w.held = fd /\ w.fd = NoInode
    BY <1>4, WorkingIsAProcess
  <2> QED
    BY <2>1, <2>2
<1>6. PICK pc \in {"turn", "idle"} :
        /\ pc = IF proc[p].then = "turn" THEN "turn" ELSE "idle"
        /\ pc = "turn" => proc[p].then = "turn"
  OBVIOUS
<1>7. PICK r \in Processes : r = [w EXCEPT !.pc = pc, !.then = proc[p].then]
  <2>1. [w EXCEPT !.pc = pc, !.then = proc[p].then] \in Processes
    <3>1. w \in Processes /\ proc[p].then \in Sequels /\ pc \in Points
      BY <1>1 DEF Processes, Points
    <3> QED
      BY <3>1 DEF Processes
  <2> QED
    BY <2>1
<1>8. /\ r.pc = pc /\ r.then = proc[p].then /\ r.cur = id /\ r.held = fd
      /\ r.fd = NoInode /\ r.mem = w.mem
  BY <1>5, <1>7 DEF Processes
<1>9. proc' = [proc EXCEPT ![p] = r]
  BY <1>3, <1>5, <1>6, <1>7
<1>10. ProcessShape(r)
  BY <1>6, <1>8 DEF ProcessShape, FdPoints
<1>11. UNCHANGED <<files, last, written, raced>>
  BY DEF Renew
<1>12. LockTypes'
  BY <1>3, <1>4, <1>9, <1>11 DEF LockInv, LockTypes
<1>13. lockFile'[id] = fd /\ \A i \in Ids \ {id} : lockFile'[i] = lockFile[i]
  BY <1>3 DEF LockInv, LockTypes
<1>14. Named(r)'
  BY <1>8, <1>13 DEF Named
<1>15. \A q \in Procs \ {p} : Named(proc[q])'
  <2> TAKE q \in Procs \ {p}
  <2>1. proc'[q] = proc[q] /\ proc[q].cur # id /\ proc[q].arg # id
    BY <1>1, <1>3, <1>9 DEF Unused
  <2>2. FdId(proc[q]) # id
    BY <2>1 DEF FdId
  <2>3. /\ proc[q].held # NoInode => proc[q].cur \in Ids
        /\ proc[q].fd # NoInode => FdId(proc[q]) \in Ids
    BY <1>1 DEF ProcessShape
  <2>4. FdId(proc[q])' = FdId(proc[q])
    BY <2>1 DEF FdId
  <2> QED
    BY <1>1, <1>11, <1>13, <2>1, <2>2, <2>3, <2>4 DEF Named
<1>16. \A q \in Procs \ {p} : LocksOf(r) \cap LocksOf(proc[q]) \subseteq {NoInode}
  BY <1>4, <1>8 DEF LocksOf
<1> QED
  BY <1>9, <1>10, <1>12, <1>14, <1>15, <1>16, OneProcessSteps

\* When a name is removed, a process that has the file open makes the id raced.
LEMMA UnlinkKeepsInv ==
  ASSUME LockInv, NEW p \in Procs, Unlink(p)
  PROVE  LockInv'
<1>1. /\ proc \in [Procs -> Processes] /\ proc[p] \in Processes
      /\ \A q \in Procs : ProcessShape(proc[q]) /\ Named(proc[q])
  BY DEF LockInv, LockTypes
<1>2. PICK id \in Ids : id = proc[p].arg
  BY <1>1 DEF Unlink, ProcessShape, FdId
<1>3. /\ UNCHANGED <<files, last, written>>
      /\ lockFile' = [lockFile EXCEPT ![id] = NoInode]
      /\ raced' = raced \cup {i \in {id} : \E q \in Procs : lockFile[i] \in Opened(q)}
  BY <1>2 DEF Unlink
<1>4. /\ \A i \in Ids \ raced' : i \notin raced
      /\ \A i \in Ids \ {id} : lockFile'[i] = lockFile[i]
      /\ id \notin raced' => \A q \in Procs : lockFile[id] \notin Opened(q)
  BY <1>3 DEF LockInv, LockTypes
<1>5. \A q \in Procs :
        /\ proc[q].held # NoInode => proc[q].cur \in Ids
        /\ proc[q].held # NoInode /\ proc[q].cur \notin raced'
             => proc[q].held = lockFile'[proc[q].cur]
        /\ proc[q].fd # NoInode /\ FdId(proc[q]) \notin raced'
             => proc[q].fd = lockFile'[FdId(proc[q])]
  <2> TAKE q \in Procs
  <2>1. /\ proc[q].held # NoInode => proc[q].cur \in Ids
        /\ proc[q].fd # NoInode => FdId(proc[q]) \in Ids
    BY <1>1 DEF ProcessShape
  <2> QED
    BY <1>1, <1>4, <2>1 DEF Named, Opened
<1>6. PICK r \in Processes :
        /\ proc' = [proc EXCEPT ![p] = r] /\ Keeps(proc[p], r) /\ r.fd = NoInode
        /\ r.pc \notin DeletePoints
  <2>1. PICK b \in Processes : b = Back(p) /\ Keeps(proc[p], b)
    BY <1>1, BackKeeps
  <2>2. b.pc \in {"off", "idle"} /\ b.fd = NoInode
    BY <2>1 DEF Back, Off
  <2>3. CASE proc[p].ok /\ proc[p].arg = proc[p].cur
    <3>1. proc' = [proc EXCEPT ![p] = [b EXCEPT !.pc = "renew"]]
      BY <2>1, <2>3 DEF Unlink
    <3>2. [b EXCEPT !.pc = "renew"] \in Processes
      BY DEF Processes, Points
    <3>3. Keeps(proc[p], [b EXCEPT !.pc = "renew"])
      BY <2>1, <2>2 DEF Keeps, ProcessShape, FdPoints
    <3> QED
      BY <2>2, <3>1, <3>2, <3>3 DEF Processes, DeletePoints
  <2>4. CASE ~(proc[p].ok /\ proc[p].arg = proc[p].cur)
    BY <2>1, <2>2, <2>4 DEF Unlink, DeletePoints
  <2> QED
    BY <2>3, <2>4
<1>7. ProcessShape(r) /\ (r.held # NoInode => r.held = proc[p].held /\ r.cur = proc[p].cur)
  BY <1>6 DEF Keeps
<1>8. Named(r)'
  BY <1>5, <1>6, <1>7 DEF Named
<1>9. \A q \in Procs \ {p} : Named(proc[q])'
  <2> TAKE q \in Procs \ {p}
  <2>1. proc'[q] = proc[q]
    BY <1>1, <1>6
  <2>2. FdId(proc[q])' = FdId(proc[q])
    BY <2>1 DEF FdId
  <2> QED
    BY <1>5, <2>1, <2>2 DEF Named
<1>10. LockTypes'
  BY <1>1, <1>3, <1>6 DEF LockInv, LockTypes
<1>11. \A q \in Procs \ {p} : LocksOf(r) \cap LocksOf(proc[q]) \subseteq {NoInode}
  <2>1. LocksOf(r) \subseteq LocksOf(proc[p]) \cup {NoInode}
    BY <1>6, <1>7 DEF LocksOf
  <2> QED
    BY <2>1 DEF LockInv, Exclusive
<1> QED
  BY <1>6, <1>7, <1>8, <1>9, <1>10, <1>11, OneProcessSteps

\* The locks of the store are in order in every reachable state.
THEOREM LocksInOrder == Spec => []LockInv
<1>1. LockInv /\ [Next]_vars => LockInv'
  <2> SUFFICES ASSUME LockInv, [Next]_vars PROVE LockInv'
    OBVIOUS
  <2>1. CASE UNCHANGED vars
    BY <2>1 DEF vars, LockInv, LockTypes, Named, Exclusive
  <2>2. ASSUME NEW p \in Procs, Step(p) PROVE LockInv'
    BY <2>2, FindKeepsInv, LoadKeepsInv, TurnKeepsInv, SaveKeepsInv, RenewKeepsInv,
       DeleteKeepsInv, UnlinkKeepsInv DEF Step
  <2> QED
    BY <2>1, <2>2 DEF Next
<1> QED
  BY <1>1, InitLockInv, PTL DEF Spec

\* Two processes hold one session only if its lock file was removed by name while
\* somebody had it open.
THEOREM HoldersAreAlone == Spec => []OneHolderUnlessUnlinked
<1>1. LockInv => OneHolderUnlessUnlinked
  <2> SUFFICES ASSUME LockInv, NEW id \in Ids \ raced
               PROVE  Cardinality(Holders(id)) <= 1
    BY DEF OneHolderUnlessUnlinked
  <2>1. \A p, q \in Holders(id) : p = q
    <3> SUFFICES ASSUME NEW p \in Holders(id), NEW q \in Holders(id), p # q PROVE FALSE
      OBVIOUS
    <3>1. /\ p \in Procs /\ proc[p].held = lockFile[id] /\ proc[p].held # NoInode
          /\ q \in Procs /\ proc[q].held = lockFile[id]
      BY DEF Holders, LockInv, Named
    <3> QED
      BY <3>1 DEF LockInv, Exclusive, LocksOf
  <2>2. CASE Holders(id) = {}
    BY <2>2, FS_EmptySet
  <2>3. CASE Holders(id) # {}
    <3>1. PICK p \in Holders(id) : Holders(id) = {p}
      BY <2>1, <2>3
    <3>2. Cardinality({p}) = 1
      BY FS_Singleton
    <3> QED
      BY <3>1, <3>2
  <2> QED
    BY <2>2, <2>3
<1> QED
  BY <1>1, LocksInOrder, PTL

(***************************************************************************)
(* Files and transcripts.                                                  *)
(***************************************************************************)

\* A transcript lists messages in the order they were written.
Rising(n) ==
    {s \in Seq(Nat) : /\ \A i \in 1..Len(s) : 1 <= s[i] /\ s[i] <= n
                      /\ \A i, j \in 1..Len(s) : i < j => s[i] < s[j]}

LEMMA EmptyRises == \A n : <<>> \in Rising(n)
<1>1. <<>> \in Seq(Nat) /\ Len(<<>>) = 0
  OBVIOUS
<1> QED
  BY <1>1 DEF Rising

LEMMA RisingGrows ==
    ASSUME NEW n \in Nat, NEW s \in Rising(n)
    PROVE  s \in Rising(n + 1) /\ Append(s, n + 1) \in Rising(n + 1)
<1>1. /\ s \in Seq(Nat) /\ Len(s) \in Nat
      /\ \A i \in 1..Len(s) : s[i] \in Nat /\ 1 <= s[i] /\ s[i] <= n
      /\ \A i, j \in 1..Len(s) : i < j => s[i] < s[j]
  BY DEF Rising
<1>2. s \in Rising(n + 1)
  <2>1. \A i \in 1..Len(s) : s[i] <= n + 1
    BY <1>1
  <2> QED
    BY <1>1, <2>1 DEF Rising
<1> DEFINE t == Append(s, n + 1)
<1>3. /\ t \in Seq(Nat) /\ Len(t) = Len(s) + 1 /\ t[Len(s) + 1] = n + 1
      /\ \A i \in 1..Len(s) : t[i] = s[i]
  BY <1>1, AppendProperties
<1> HIDE DEF t
<1>4. \A i \in 1..Len(t) : 1 <= t[i] /\ t[i] <= n + 1
  BY <1>1, <1>3
<1>5. ASSUME NEW i \in 1..Len(t), NEW j \in 1..Len(t), i < j PROVE t[i] < t[j]
  <2>1. i \in 1..Len(s) /\ t[i] = s[i] /\ s[i] \in Nat /\ s[i] <= n
    BY <1>1, <1>3, <1>5
  <2>2. CASE j = Len(s) + 1
    BY <1>3, <2>1, <2>2
  <2>3. CASE j # Len(s) + 1
    <3>1. j \in 1..Len(s)
      BY <1>1, <1>3, <1>5, <2>3
    <3>2. t[j] = s[j] /\ s[i] < s[j]
      BY <1>1, <1>3, <1>5, <2>1, <3>1
    <3> QED
      BY <2>1, <3>2
  <2> QED
    BY <2>2, <2>3
<1>6. t \in Rising(n + 1)
  <2>1. \A i, j \in 1..Len(t) : i < j => t[i] < t[j]
    BY <1>5
  <2> QED
    BY <1>3, <1>4, <2>1 DEF Rising
<1> QED
  BY <1>2, <1>6 DEF t

\* No message is in it twice, so that it is no longer than the messages are many.
LEMMA RisingIsATranscript ==
    ASSUME NEW n \in Nat, n <= MaxMessages, NEW s \in Rising(n)
    PROVE  s \in Transcripts
<1>1. /\ s \in Seq(Nat) /\ Len(s) \in Nat /\ DOMAIN s = 1..Len(s) /\ s = [i \in 1..Len(s) |-> s[i]]
      /\ \A i \in 1..Len(s) : s[i] \in Nat /\ 1 <= s[i] /\ s[i] <= n
      /\ \A i, j \in 1..Len(s) : i < j => s[i] < s[j]
  BY DEF Rising
<1>2. MaxMessages \in Nat
  BY StoreAssumption
<1>3. s \in [1..Len(s) -> 1..n] /\ s \in [1..Len(s) -> 1..MaxMessages]
  <2>1. \A i \in 1..Len(s) : s[i] \in 1..n /\ s[i] \in 1..MaxMessages
    BY <1>1, <1>2
  <2> QED
    BY <1>1, <2>1
<1>4. s \in Injection(1..Len(s), 1..n)
  <2>1. \A i, j \in 1..Len(s) : s[i] = s[j] => i = j
    BY <1>1
  <2> QED
    BY <1>1, <1>3, <2>1 DEF Injection, IsInjective
<1>5. Cardinality(1..Len(s)) <= Cardinality(1..n)
  <2>1. IsFiniteSet(1..n)
    BY FS_Interval
  <2> QED
    BY <1>4, <2>1, FS_Injection
<1>6. Cardinality(1..Len(s)) = Len(s) /\ Cardinality(1..n) = n
  <2>1. \A k \in Nat : Cardinality(1..k) = IF 1 > k THEN 0 ELSE k - 1 + 1
    BY FS_Interval
  <2> QED
    BY <1>1, <2>1
<1>7. Len(s) \in 0..MaxMessages
  BY <1>1, <1>2, <1>5, <1>6
<1> QED
  BY <1>3, <1>7 DEF Transcripts

LEMMA PrefixOfItself ==
    ASSUME NEW s \in Seq(Nat)
    PROVE  IsPrefix(s, s)
BY DEF IsPrefix

LEMMA PrefixGrows ==
    ASSUME NEW s \in Seq(Nat), NEW t \in Seq(Nat), IsPrefix(s, t), NEW e \in Nat
    PROVE  IsPrefix(s, Append(t, e))
<1>1. Len(s) \in Nat /\ Len(t) \in Nat /\ Len(s) <= Len(t) /\ SubSeq(s, 1, Len(s)) = SubSeq(t, 1, Len(s))
  BY DEF IsPrefix
<1> DEFINE u == Append(t, e)
<1>2. u \in Seq(Nat) /\ Len(u) = Len(t) + 1 /\ \A i \in 1..Len(t) : u[i] = t[i]
  BY AppendProperties
<1> HIDE DEF u
<1>3. /\ SubSeq(t, 1, Len(s)) \in Seq(Nat) /\ Len(SubSeq(t, 1, Len(s))) = Len(s)
      /\ \A i \in 1..Len(s) : SubSeq(t, 1, Len(s))[i] = t[i]
  <2>1. \A i \in 1..Len(s) : t[i] \in Nat
    BY <1>1, ElementOfSeq
  <2> QED
    BY <1>1, <2>1, SubSeqProperties
<1>4. /\ SubSeq(u, 1, Len(s)) \in Seq(Nat) /\ Len(SubSeq(u, 1, Len(s))) = Len(s)
      /\ \A i \in 1..Len(s) : SubSeq(u, 1, Len(s))[i] = u[i]
  <2>1. \A i \in 1..Len(s) : u[i] \in Nat
    BY <1>1, <1>2, ElementOfSeq
  <2> QED
    BY <1>1, <2>1, SubSeqProperties
<1>5. SubSeq(t, 1, Len(s)) = SubSeq(u, 1, Len(s))
  BY <1>1, <1>2, <1>3, <1>4, SeqEqual
<1>6. Len(s) <= Len(u)
  BY <1>1, <1>2
<1> QED
  BY <1>1, <1>5, <1>6 DEF IsPrefix, u

(***************************************************************************)
(* The order of the files.                                                 *)
(***************************************************************************)

\* Its elements, where position i is left out.
LEMMA LeftOut ==
    ASSUME NEW s \in Seq(Ids), NEW i \in 1..Len(s)
    PROVE  /\ RemoveAt(s, i) \in Seq(Ids) /\ Len(RemoveAt(s, i)) = Len(s) - 1
           /\ \A k \in 1..Len(s) - 1 : RemoveAt(s, i)[k] = IF k < i THEN s[k] ELSE s[k + 1]
<1> DEFINE a == SubSeq(s, 1, i - 1)
           b == SubSeq(s, i + 1, Len(s))
<1>1. Len(s) \in Nat /\ i \in Int /\ 1 <= i /\ i <= Len(s) /\ \A k \in 1..Len(s) : s[k] \in Ids
  BY ElementOfSeq
<1>2. a \in Seq(Ids) /\ Len(a) = i - 1 /\ \A k \in 1..i - 1 : a[k] = s[k]
  <2>1. \A k \in 1..i - 1 : s[k] \in Ids
    BY <1>1
  <2>2. /\ a \in Seq(Ids) /\ Len(a) = IF 1 <= i - 1 THEN i - 1 - 1 + 1 ELSE 0
        /\ \A k \in 1..i - 1 - 1 + 1 : a[k] = s[1 + k - 1]
    BY <1>1, <2>1, SubSeqProperties
  <2> QED
    BY <1>1, <2>2
<1>3. b \in Seq(Ids) /\ Len(b) = Len(s) - i /\ \A k \in 1..Len(s) - i : b[k] = s[i + k]
  <2>1. \A k \in i + 1..Len(s) : s[k] \in Ids
    BY <1>1
  <2>2. /\ b \in Seq(Ids) /\ Len(b) = IF i + 1 <= Len(s) THEN Len(s) - (i + 1) + 1 ELSE 0
        /\ \A k \in 1..Len(s) - (i + 1) + 1 : b[k] = s[(i + 1) + k - 1]
    BY <1>1, <2>1, SubSeqProperties
  <2>3. Len(b) = Len(s) - i
    BY <1>1, <2>2
  <2>4. ASSUME NEW k \in 1..Len(s) - i PROVE b[k] = s[i + k]
    <3>1. k \in 1..Len(s) - (i + 1) + 1 /\ (i + 1) + k - 1 = i + k
      BY <1>1
    <3> QED
      BY <2>2, <3>1
  <2> QED
    BY <2>2, <2>3, <2>4
<1>4. RemoveAt(s, i) = a \o b
  BY DEF RemoveAt
<1> HIDE DEF a, b
<1>5. /\ a \o b \in Seq(Ids) /\ Len(a \o b) = Len(a) + Len(b)
      /\ \A k \in 1..Len(a) + Len(b) : (a \o b)[k] = IF k <= Len(a) THEN a[k] ELSE b[k - Len(a)]
  BY <1>2, <1>3, ConcatProperties
<1>6. Len(a) + Len(b) = Len(s) - 1
  BY <1>1, <1>2, <1>3
<1>7. ASSUME NEW k \in 1..Len(s) - 1
      PROVE  (a \o b)[k] = IF k < i THEN s[k] ELSE s[k + 1]
  <2>1. (a \o b)[k] = IF k <= Len(a) THEN a[k] ELSE b[k - Len(a)]
    BY <1>5, <1>6
  <2>2. CASE k < i
    <3>1. k <= Len(a) /\ k \in 1..i - 1
      BY <1>1, <1>2, <2>2
    <3> QED
      BY <1>2, <2>1, <2>2, <3>1
  <2>3. CASE ~(k < i)
    <3>1. ~(k <= Len(a)) /\ k - Len(a) \in 1..Len(s) - i /\ i + (k - Len(a)) = k + 1
      BY <1>1, <1>2, <2>3
    <3> QED
      BY <1>3, <2>1, <2>3, <3>1
  <2> QED
    BY <2>2, <2>3
<1> QED
  BY <1>4, <1>5, <1>6, <1>7

LEMMA WithoutOne ==
    ASSUME NEW s \in Seq(Ids), IsInjective(s), NEW id \in Ids
    PROVE  /\ Without(s, id) \in Seq(Ids) /\ IsInjective(Without(s, id))
           /\ ToSet(Without(s, id)) = ToSet(s) \ {id}
           /\ s # <<>> /\ s[1] # id => Without(s, id) # <<>> /\ Without(s, id)[1] = s[1]
<1>1. /\ Len(s) \in Nat /\ DOMAIN s = 1..Len(s)
      /\ \A j, k \in 1..Len(s) : s[j] = s[k] => j = k
  BY LenProperties DEF IsInjective
<1>2. CASE id \notin ToSet(s)
  BY <1>2 DEF Without
<1>3. CASE id \in ToSet(s)
  <2>1. PICK i \in 1..Len(s) : s[i] = id /\ Without(s, id) = RemoveAt(s, i)
    BY <1>1, <1>3 DEF Without, ToSet
  <2> DEFINE w == RemoveAt(s, i)
  <2>2. /\ w \in Seq(Ids) /\ Len(w) = Len(s) - 1
        /\ \A k \in 1..Len(s) - 1 : w[k] = IF k < i THEN s[k] ELSE s[k + 1]
    BY LeftOut
  <2> HIDE DEF w
  <2>3. DOMAIN w = 1..Len(s) - 1
    BY <2>2, LenProperties
  <2>4. IsInjective(w)
    <3>1. ASSUME NEW j \in 1..Len(s) - 1, NEW k \in 1..Len(s) - 1, w[j] = w[k] PROVE j = k
      <4>1. j \in 1..Len(s) /\ k \in 1..Len(s) /\ j + 1 \in 1..Len(s) /\ k + 1 \in 1..Len(s)
        BY <1>1
      <4>2. w[j] = (IF j < i THEN s[j] ELSE s[j + 1]) /\ w[k] = (IF k < i THEN s[k] ELSE s[k + 1])
        BY <2>2
      <4>3. CASE j < i /\ k < i
        BY <1>1, <3>1, <4>1, <4>2, <4>3
      <4>4. CASE ~(j < i) /\ ~(k < i)
        <5>1. s[j + 1] = s[k + 1]
          BY <3>1, <4>2, <4>4
        <5>2. j + 1 = k + 1
          BY <1>1, <4>1, <5>1
        <5> QED
          BY <5>2
      <4>5. CASE j < i /\ ~(k < i)
        <5>1. s[j] = s[k + 1]
          BY <3>1, <4>2, <4>5
        <5>2. j = k + 1
          BY <1>1, <4>1, <5>1
        <5> QED
          BY <4>5, <5>2
      <4>6. CASE ~(j < i) /\ k < i
        <5>1. s[j + 1] = s[k]
          BY <3>1, <4>2, <4>6
        <5>2. j + 1 = k
          BY <1>1, <4>1, <5>1
        <5> QED
          BY <4>6, <5>2
      <4> QED
        BY <4>3, <4>4, <4>5, <4>6
    <3> QED
      BY <2>3, <3>1 DEF IsInjective
  <2>5. ToSet(w) = ToSet(s) \ {id}
    <3>1. ASSUME NEW x \in ToSet(w) PROVE x \in ToSet(s) \ {id}
      <4>1. PICK k \in 1..Len(s) - 1 : x = w[k]
        BY <2>3 DEF ToSet
      <4>2. k \in 1..Len(s) /\ k + 1 \in 1..Len(s)
        BY <1>1
      <4>3. CASE k < i
        <5>1. x = s[k] /\ k # i
          BY <2>2, <4>1, <4>3
        <5> QED
          BY <1>1, <2>1, <4>2, <5>1 DEF ToSet
      <4>4. CASE ~(k < i)
        <5>1. x = s[k + 1]
          BY <2>2, <4>1, <4>4
        <5>2. k + 1 # i
          BY <1>1, <4>4
        <5> QED
          BY <1>1, <2>1, <4>2, <5>1, <5>2 DEF ToSet
      <4> QED
        BY <4>3, <4>4
    <3>2. ASSUME NEW x \in ToSet(s) \ {id} PROVE x \in ToSet(w)
      <4>1. PICK k \in 1..Len(s) : x = s[k]
        BY <1>1 DEF ToSet
      <4>2. k # i
        BY <2>1, <4>1
      <4>3. CASE k < i
        <5>1. k \in 1..Len(s) - 1
          BY <1>1, <4>3
        <5>2. w[k] = x
          BY <2>2, <4>1, <4>3, <5>1
        <5> QED
          BY <2>3, <5>1, <5>2 DEF ToSet
      <4>4. CASE i < k
        <5>1. k - 1 \in 1..Len(s) - 1 /\ ~(k - 1 < i) /\ k - 1 + 1 = k
          BY <1>1, <4>4
        <5>2. w[k - 1] = x
          BY <2>2, <4>1, <5>1
        <5> QED
          BY <2>3, <5>1, <5>2 DEF ToSet
      <4> QED
        BY <1>1, <4>2, <4>3, <4>4
    <3> QED
      BY <3>1, <3>2
  <2>6. ASSUME s # <<>>, s[1] # id PROVE w # <<>> /\ w[1] = s[1]
    <3>1. i # 1
      BY <2>1, <2>6
    <3>2. 1 < i /\ 1 \in 1..Len(s) - 1
      BY <1>1, <3>1
    <3>3. w[1] = s[1]
      BY <2>2, <3>2
    <3>4. Len(w) # 0
      BY <1>1, <2>2, <3>2
    <3>5. w # <<>>
      BY <3>4, EmptySeq
    <3> QED
      BY <3>3, <3>5
  <2> QED
    BY <2>1, <2>2, <2>4, <2>5, <2>6 DEF w
<1> QED
  BY <1>2, <1>3

\* A file that is saved comes first.
LEMMA SavedFirst ==
    ASSUME NEW s \in Seq(Ids), IsInjective(s), NEW id \in Ids
    PROVE  LET t == <<id>> \o Without(s, id)
           IN  t \in Seq(Ids) /\ IsInjective(t) /\ ToSet(t) = ToSet(s) \cup {id} /\ t # <<>> /\ t[1] = id
<1> DEFINE w == Without(s, id)
           t == <<id>> \o w
<1>1. w \in Seq(Ids) /\ IsInjective(w) /\ ToSet(w) = ToSet(s) \ {id}
  BY WithoutOne
<1> HIDE DEF w
<1>2. <<id>> \in Seq(Ids) /\ Len(<<id>>) = 1 /\ <<id>>[1] = id
  OBVIOUS
<1>3. /\ t \in Seq(Ids) /\ Len(t) = 1 + Len(w)
      /\ \A k \in 1..1 + Len(w) : t[k] = IF k <= 1 THEN <<id>>[k] ELSE w[k - 1]
  BY <1>1, <1>2, ConcatProperties
<1> HIDE DEF t
<1>4. Len(w) \in Nat /\ DOMAIN w = 1..Len(w) /\ DOMAIN t = 1..1 + Len(w)
  BY <1>1, <1>3, LenProperties
<1>5. t[1] = id /\ \A k \in 2..1 + Len(w) : t[k] = w[k - 1] /\ k - 1 \in 1..Len(w)
  BY <1>2, <1>3, <1>4
<1>6. t # <<>>
  <2>1. Len(t) # 0
    BY <1>3, <1>4
  <2> QED
    BY <2>1, EmptySeq
<1>7. \A k \in 1..Len(w) : w[k] # id /\ w[k] \in ToSet(s)
  BY <1>1, <1>4 DEF ToSet
<1>8. IsInjective(t)
  <2>1. ASSUME NEW j \in 1..1 + Len(w), NEW k \in 1..1 + Len(w), t[j] = t[k] PROVE j = k
    <3>1. CASE j = 1 /\ k = 1
      BY <3>1
    <3>2. CASE j = 1 /\ k # 1
      <4>1. k \in 2..1 + Len(w)
        BY <1>4, <3>2
      <4> QED
        BY <1>5, <1>7, <2>1, <3>2, <4>1
    <3>3. CASE j # 1 /\ k = 1
      <4>1. j \in 2..1 + Len(w)
        BY <1>4, <3>3
      <4> QED
        BY <1>5, <1>7, <2>1, <3>3, <4>1
    <3>4. CASE j # 1 /\ k # 1
      <4>1. j \in 2..1 + Len(w) /\ k \in 2..1 + Len(w)
        BY <1>4, <3>4
      <4>2. w[j - 1] = w[k - 1] /\ j - 1 \in 1..Len(w) /\ k - 1 \in 1..Len(w)
        BY <1>5, <2>1, <4>1
      <4>3. j - 1 = k - 1
        BY <1>1, <1>4, <4>2 DEF IsInjective
      <4> QED
        BY <4>3
    <3> QED
      BY <3>1, <3>2, <3>3, <3>4
  <2> QED
    BY <1>4, <2>1 DEF IsInjective
<1>9. ToSet(t) = ToSet(s) \cup {id}
  <2>1. ASSUME NEW x \in ToSet(t) PROVE x \in ToSet(s) \cup {id}
    <3>1. PICK k \in 1..1 + Len(w) : x = t[k]
      BY <1>4 DEF ToSet
    <3>2. k = 1 \/ k \in 2..1 + Len(w)
      BY <1>4
    <3> QED
      BY <1>5, <1>7, <3>1, <3>2
  <2>2. id \in ToSet(t)
    <3>1. 1 \in 1..1 + Len(w)
      BY <1>4
    <3> QED
      BY <1>4, <1>5, <3>1 DEF ToSet
  <2>3. ASSUME NEW x \in ToSet(s), x # id PROVE x \in ToSet(t)
    <3>1. PICK k \in 1..Len(w) : x = w[k]
      BY <1>1, <1>4, <2>3 DEF ToSet
    <3>2. k + 1 \in 2..1 + Len(w) /\ k + 1 \in 1..1 + Len(w) /\ k + 1 - 1 = k
      BY <1>4
    <3>3. t[k + 1] = w[k]
      BY <1>5, <3>2
    <3> QED
      BY <1>4, <3>1, <3>2, <3>3 DEF ToSet
  <2> QED
    BY <2>1, <2>2, <2>3
<1> QED
  BY <1>3, <1>5, <1>6, <1>8, <1>9 DEF t, w

\* The newest file is the first in the order.
LEMMA NewestIsFirst ==
    ASSUME NEW id \in Ids, order \in Seq(Ids)
    PROVE  Newest(id) <=> order # <<>> /\ order[1] = id
<1> DEFINE s == <<id>>
<1>1. s \in Seq(Ids) /\ Len(s) = 1 /\ s[1] = id
  OBVIOUS
<1>2. Len(order) \in Nat /\ (order # <<>> <=> 1 <= Len(order))
  BY EmptySeq
<1>3. SubSeq(s, 1, 1) = s
  BY <1>1, SubSeqFull
<1>4. Newest(id) <=> 1 <= Len(order) /\ s = SubSeq(order, 1, 1)
  BY <1>1, <1>3 DEF Newest, IsPrefix
<1> HIDE DEF s
<1>5. ASSUME 1 <= Len(order)
      PROVE  SubSeq(order, 1, 1) \in Seq(Ids) /\ Len(SubSeq(order, 1, 1)) = 1
             /\ SubSeq(order, 1, 1)[1] = order[1]
  <2>1. \A i \in 1..1 : order[i] \in Ids
    BY <1>2, <1>5, ElementOfSeq
  <2>2. /\ SubSeq(order, 1, 1) \in Seq(Ids)
        /\ Len(SubSeq(order, 1, 1)) = IF 1 <= 1 THEN 1 - 1 + 1 ELSE 0
        /\ \A i \in 1..1 - 1 + 1 : SubSeq(order, 1, 1)[i] = order[1 + i - 1]
    BY <2>1, SubSeqProperties
  <2> QED
    BY <2>2
<1>6. ASSUME 1 <= Len(order), order[1] = id PROVE s = SubSeq(order, 1, 1)
  <2>1. \A i \in 1..Len(s) : s[i] = SubSeq(order, 1, 1)[i]
    BY <1>1, <1>5, <1>6
  <2> QED
    BY <1>1, <1>5, <1>6, <2>1, SeqEqual
<1> QED
  BY <1>1, <1>2, <1>4, <1>5, <1>6

(***************************************************************************)
(* What the steps do to transcripts, files and the order.                  *)
(***************************************************************************)

DeleteSteps == {"delete", "deleteLock", "erase", "match", "unpoint", "release", "unlink"}

\* A process that keeps its lock while it deletes a session deletes another one.
SparesOwn(r) == r.held # NoInode /\ r.pc \in DeleteSteps => r.arg # r.cur

\* It saves when there is something to save.
HasToSave(r) == r.pc = "save" => r.mem # <<>>

\* It works on what it worked on, perhaps without its lock.
Carried(o, r) ==
    /\ r.mem = o.mem /\ r.seen = o.seen /\ r.cur = o.cur /\ r.stale = o.stale
    /\ r.held \in {o.held, NoInode}

Quiet == UNCHANGED <<files, order, written, raced, stray>>

\* What it has read of another session is a file, or what it had read before.
Reads(o, r) == r.got \in {o.got, <<>>} \/ \E id \in Ids : r.got = files[id]

Goes(o, r) ==
    \/ r = Off
    \/ Carried(o, r) /\ Reads(o, r) /\ SparesOwn(r) /\ HasToSave(r) /\ r.pc # "off"

LEMMA Becomes ==
  ASSUME LockInv, NEW p \in Procs, NEW r, proc' = [proc EXCEPT ![p] = r]
  PROVE  proc'[p] = r /\ \A q \in Procs \ {p} : proc'[q] = proc[q]
BY DEF LockInv, LockTypes

LEMMA BackGoes ==
  ASSUME LockInv, NEW p \in Procs
  PROVE  Goes(proc[p], Back(p)) /\ (Back(p) = Off \/ Back(p).pc = "idle")
<1>1. proc[p] \in Processes
  BY DEF LockInv, LockTypes
<1>2. CASE proc[p].then = "start"
  BY <1>2 DEF Back, Goes
<1>3. CASE proc[p].then # "start"
  <2>1. Back(p) = [proc[p] EXCEPT !.pc = "idle", !.then = "idle", !.arg = None,
                                  !.got = <<>>, !.fd = NoInode, !.ok = TRUE]
    BY <1>3 DEF Back
  <2>2. /\ Back(p).pc = "idle" /\ Back(p).got = <<>> /\ Back(p).mem = proc[p].mem
        /\ Back(p).seen = proc[p].seen /\ Back(p).cur = proc[p].cur
        /\ Back(p).held = proc[p].held /\ Back(p).stale = proc[p].stale
    BY <1>1, <2>1 DEF Processes
  <2> QED
    BY <2>2 DEF Goes, Carried, Reads, SparesOwn, HasToSave, DeleteSteps
<1> QED
  BY <1>2, <1>3

LEMMA AfterSaveGoes ==
  ASSUME LockInv, NEW p \in Procs, proc[p].pc \in {"save", "point"}, NEW saved \in BOOLEAN
  PROVE  /\ Goes(proc[p], AfterSave(p, saved))
         /\ AfterSave(p, saved) = Off \/ AfterSave(p, saved).pc \in {"idle", "turn", "pick", "renew"}
<1>1. proc[p] \in Processes /\ ProcessShape(proc[p])
  BY DEF LockInv, LockTypes
<1>2. CASE proc[p].then = "off"
  BY <1>2 DEF AfterSave, Goes
<1>3. CASE proc[p].then = "turn"
  <2>1. AfterSave(p, saved) = [proc[p] EXCEPT !.pc = "turn"]
    BY <1>3 DEF AfterSave
  <2> QED
    BY <1>1, <2>1 DEF Processes, Goes, Carried, Reads, SparesOwn, HasToSave, DeleteSteps
<1>4. CASE proc[p].then \notin {"off", "turn"}
  <2>1. PICK pc \in {"idle", "pick", "renew"} :
          AfterSave(p, saved) = [proc[p] EXCEPT !.pc = pc, !.then = "idle"]
    BY <1>1, <1>4 DEF AfterSave, ProcessShape, Processes, Sequels
  <2> QED
    BY <1>1, <2>1 DEF Processes, Goes, Carried, Reads, SparesOwn, HasToSave, DeleteSteps
<1> QED
  BY <1>2, <1>3, <1>4

\* The steps that leave the files and the transcript of the process as they are.
LEMMA StepGoes ==
  ASSUME LockInv, NEW p \in Procs, SparesOwn(proc[p]),
         \/ Start(p) \/ Resolve(p) \/ LoadPointer(p) \/ LoadNamed(p) \/ LoadNewest(p) \/ Repoint(p)
         \/ LoadHolds(p) \/ (LoadLock(p) /\ ~Granted(p)) \/ Prompt(p) \/ EndTurn(p) \/ SaveFirst(p)
         \/ SaveFails(p) \/ Point(p) \/ PointFails(p)
         \/ DeleteOther(p) \/ DeleteCurrent(p) \/ DeleteHolds(p) \/ DeleteLock(p)
         \/ Match(p) \/ Unpoint(p) \/ Release(p) \/ Crash(p)
  PROVE  /\ Goes(proc[p], proc'[p]) /\ Quiet
         /\ \A q \in Procs \ {p} : proc'[q] = proc[q]
<1>0. proc \in [Procs -> Processes] /\ proc[p] \in Processes /\ ProcessShape(proc[p])
  BY DEF LockInv, LockTypes
<1>a. Quiet
  BY DEF Quiet, Start, Resolve, LoadPointer, LoadNamed, LoadNewest, Repoint, LoadHolds, LoadLock,
         Prompt, EndTurn, SaveFirst, SaveFails, Point, PointFails, DeleteOther, DeleteCurrent,
         DeleteHolds, DeleteLock, Match, Unpoint, Release, Crash
<1>b. ASSUME NEW r, proc' = [proc EXCEPT ![p] = r], Goes(proc[p], r)
      PROVE  Goes(proc[p], proc'[p]) /\ \A q \in Procs \ {p} : proc'[q] = proc[q]
  <2>1. proc'[p] = r /\ \A q \in Procs \ {p} : proc'[q] = proc[q]
    BY <1>b, Becomes
  <2> QED
    BY <1>b, <2>1
<1>c. ASSUME NEW pc \in Points \ (DeleteSteps \cup {"off"}), NEW then,
             proc' = [proc EXCEPT ![p] = [proc[p] EXCEPT !.pc = pc, !.then = then]],
             pc = "save" => proc[p].mem # <<>>
      PROVE  Goes(proc[p], proc'[p]) /\ \A q \in Procs \ {p} : proc'[q] = proc[q]
  BY <1>0, <1>b, <1>c DEF Processes, Goes, Carried, Reads, SparesOwn, HasToSave
<1>d. ASSUME NEW pc \in Points \ {"off", "save"}, proc' = [proc EXCEPT ![p] = [proc[p] EXCEPT !.pc = pc]],
             pc \in DeleteSteps => proc[p].pc \in DeleteSteps
      PROVE  Goes(proc[p], proc'[p]) /\ \A q \in Procs \ {p} : proc'[q] = proc[q]
  <2>1. Goes(proc[p], [proc[p] EXCEPT !.pc = pc])
    BY <1>0, <1>d DEF Processes, Goes, Carried, Reads, SparesOwn, HasToSave
  <2> QED
    BY <1>b, <1>d, <2>1
<1>e. ASSUME NEW id \in Ids, NEW pc \in {"load", "repoint"},
             proc' = [proc EXCEPT ![p] = [proc[p] EXCEPT !.arg = id, !.got = files[id], !.pc = pc]]
      PROVE  Goes(proc[p], proc'[p]) /\ \A q \in Procs \ {p} : proc'[q] = proc[q]
  <2>1. Goes(proc[p], [proc[p] EXCEPT !.arg = id, !.got = files[id], !.pc = pc])
    BY <1>0 DEF Processes, Goes, Carried, Reads, SparesOwn, HasToSave, DeleteSteps
  <2> QED
    BY <1>b, <1>e, <2>1
<1>f. ASSUME NEW id, NEW pc \in {"loadLock", "ensureLock", "deleteLock"}, OpenLock(p, id, pc),
             pc = "deleteLock" => proc[p].pc \in DeleteSteps
      PROVE  Goes(proc[p], proc'[p]) /\ \A q \in Procs \ {p} : proc'[q] = proc[q]
  <2>1. PICK n : proc' = [proc EXCEPT ![p] = [proc[p] EXCEPT !.fd = n, !.pc = pc]]
    BY <1>0, <1>f DEF OpenLock
  <2>2. Goes(proc[p], [proc[p] EXCEPT !.fd = n, !.pc = pc])
    BY <1>0, <1>f DEF Processes, Goes, Carried, Reads, SparesOwn, HasToSave, DeleteSteps
  <2> QED
    BY <1>b, <2>1, <2>2
<1>g. ASSUME proc' = [proc EXCEPT ![p] = Back(p)] \/ proc' = [proc EXCEPT ![p] = Off]
      PROVE  Goes(proc[p], proc'[p]) /\ \A q \in Procs \ {p} : proc'[q] = proc[q]
  <2>1. Goes(proc[p], Off) /\ Goes(proc[p], Back(p))
    BY BackGoes DEF Goes
  <2> QED
    BY <1>b, <1>g, <2>1
<1>h. ASSUME NEW saved \in BOOLEAN, proc[p].pc \in {"save", "point"},
             proc' = [proc EXCEPT ![p] = AfterSave(p, saved)]
      PROVE  Goes(proc[p], proc'[p]) /\ \A q \in Procs \ {p} : proc'[q] = proc[q]
  BY <1>b, <1>h, AfterSaveGoes
<1>1. CASE Start(p)
  <2>1. PICK pc \in {"idle", "pick", "last"}, then \in {"idle", "start"} :
          proc' = [proc EXCEPT ![p] = [proc[p] EXCEPT !.pc = pc, !.then = then]]
    BY <1>0, <1>1 DEF Start
  <2> QED
    BY <1>a, <1>c, <2>1 DEF Points, DeleteSteps
<1>2. CASE Resolve(p)
  <2>1. \/ \E id \in Ids : proc' = [proc EXCEPT ![p] =
                             [proc[p] EXCEPT !.arg = id, !.got = files[id], !.pc = "load"]]
        \/ proc' = [proc EXCEPT ![p] = Back(p)]
    BY <1>0, <1>2 DEF Resolve, Stored
  <2> QED
    BY <1>a, <1>e, <1>g, <2>1
<1>3. CASE LoadPointer(p)
  <2>1. PICK pc \in {"newest", "named"} :
          proc' = [proc EXCEPT ![p] = [proc[p] EXCEPT !.arg = last, !.pc = pc]]
    BY <1>0, <1>3 DEF LoadPointer
  <2>2. Goes(proc[p], [proc[p] EXCEPT !.arg = last, !.pc = pc])
    BY <1>0 DEF Processes, Goes, Carried, Reads, SparesOwn, HasToSave, DeleteSteps
  <2> QED
    BY <1>a, <1>b, <2>1, <2>2
<1>4. CASE LoadNamed(p)
  <2>1. \/ proc' = [proc EXCEPT ![p] = [proc[p] EXCEPT !.got = files[proc[p].arg], !.pc = "load"]]
        \/ proc' = [proc EXCEPT ![p] = [proc[p] EXCEPT !.pc = "newest"]]
    BY <1>0, <1>4 DEF LoadNamed
  <2>2. proc[p].arg \in Ids
    BY <1>0, <1>4 DEF LoadNamed, ProcessShape, FdId
  <2>3. Goes(proc[p], [proc[p] EXCEPT !.got = files[proc[p].arg], !.pc = "load"])
    BY <1>0, <2>2 DEF Processes, Goes, Carried, Reads, SparesOwn, HasToSave, DeleteSteps
  <2>4. "newest" \in Points \ {"off", "save"} /\ "newest" \notin DeleteSteps
    BY DEF Points, DeleteSteps
  <2> QED
    BY <1>a, <1>b, <1>d, <2>1, <2>3, <2>4
<1>5. CASE LoadNewest(p)
  <2>1. \/ \E id \in Ids : proc' = [proc EXCEPT ![p] =
                             [proc[p] EXCEPT !.arg = id, !.got = files[id], !.pc = "repoint"]]
        \/ proc' = [proc EXCEPT ![p] = Back(p)]
    BY <1>0, <1>5 DEF LoadNewest
  <2> QED
    BY <1>a, <1>e, <1>g, <2>1
<1>6. CASE Repoint(p)
  <2>1. proc' = [proc EXCEPT ![p] = [proc[p] EXCEPT !.pc = "load"]]
    BY <1>0, <1>6 DEF Repoint
  <2> QED
    BY <1>a, <1>d, <2>1 DEF Points, DeleteSteps
<1>7. CASE LoadHolds(p)
  BY <1>a, <1>f, <1>7 DEF LoadHolds
<1>8. CASE LoadLock(p) /\ ~Granted(p)
  BY <1>a, <1>g, <1>8 DEF LoadLock
<1>9. CASE Prompt(p)
  <2>1. CASE proc[p].cur # None /\ proc[p].held = NoInode
    BY <1>a, <1>f, <1>9, <2>1 DEF Prompt
  <2>2. CASE ~(proc[p].cur # None /\ proc[p].held = NoInode)
    <3>1. PICK pc \in {"renew", "turn"} :
            proc' = [proc EXCEPT ![p] = [proc[p] EXCEPT !.pc = pc, !.then = "turn"]]
      BY <1>0, <1>9, <2>2 DEF Prompt
    <3> QED
      BY <1>a, <1>c, <3>1 DEF Points, DeleteSteps
  <2> QED
    BY <2>1, <2>2
<1>10. CASE EndTurn(p)
  <2>1. \/ proc' = [proc EXCEPT ![p] = Back(p)]
        \/ /\ proc' = [proc EXCEPT ![p] = [proc[p] EXCEPT !.pc = "save", !.then = "idle"]]
           /\ proc[p].mem # <<>>
    BY <1>0, <1>10 DEF EndTurn
  <2> QED
    BY <1>a, <1>c, <1>g, <2>1 DEF Points, DeleteSteps
<1>11. CASE SaveFirst(p)
  <2>1. PICK then \in {"pick", "renew", "off"} :
          \/ /\ proc' = [proc EXCEPT ![p] = [proc[p] EXCEPT !.pc = "save", !.then = then]]
             /\ proc[p].mem # <<>>
          \/ proc' = [proc EXCEPT ![p] = Off]
          \/ then # "off" /\ proc' = [proc EXCEPT ![p] = [proc[p] EXCEPT !.pc = then, !.then = "idle"]]
    BY <1>0, <1>11 DEF SaveFirst
  <2>2. "save" \in Points \ (DeleteSteps \cup {"off"})
        /\ (then # "off" => then \in Points \ (DeleteSteps \cup {"off"}))
    BY DEF Points, DeleteSteps
  <2> QED
    BY <1>a, <1>c, <1>g, <2>1, <2>2
<1>12. CASE SaveFails(p) \/ Point(p) \/ PointFails(p)
  <2>1. /\ proc[p].pc \in {"save", "point"}
        /\ \E saved \in BOOLEAN : proc' = [proc EXCEPT ![p] = AfterSave(p, saved)]
    BY <1>12 DEF SaveFails, Point, PointFails
  <2> QED
    BY <1>a, <1>h, <2>1
<1>13. CASE DeleteOther(p)
  <2>1. PICK id \in Ids \ {proc[p].cur} :
          proc' = [proc EXCEPT ![p] = [proc[p] EXCEPT !.arg = id, !.pc = "delete"]]
    BY <1>0, <1>13 DEF DeleteOther, Stored
  <2>2. Goes(proc[p], [proc[p] EXCEPT !.arg = id, !.pc = "delete"])
    BY <1>0 DEF Processes, Goes, Carried, Reads, SparesOwn, HasToSave
  <2> QED
    BY <1>a, <1>b, <2>1, <2>2
<1>14. CASE DeleteCurrent(p)
  <2>1. proc' = [proc EXCEPT ![p] =
                  [proc[p] EXCEPT !.arg = proc[p].cur, !.pc = "delete", !.held = NoInode]]
    BY <1>0, <1>14 DEF DeleteCurrent
  <2>2. Goes(proc[p], [proc[p] EXCEPT !.arg = proc[p].cur, !.pc = "delete", !.held = NoInode])
    BY <1>0 DEF Processes, Goes, Carried, Reads, SparesOwn, HasToSave
  <2> QED
    BY <1>a, <1>b, <2>1, <2>2
<1>15. CASE DeleteHolds(p)
  BY <1>a, <1>f, <1>15 DEF DeleteHolds, DeleteSteps
<1>16. CASE DeleteLock(p)
  <2>1. \/ proc' = [proc EXCEPT ![p] = [proc[p] EXCEPT !.pc = "erase"]]
        \/ proc' = [proc EXCEPT ![p] = Back(p)]
    BY <1>0, <1>16 DEF DeleteLock
  <2>2. "erase" \in Points \ {"off", "save"} /\ proc[p].pc \in DeleteSteps
    BY <1>16 DEF DeleteLock, Points, DeleteSteps
  <2> QED
    BY <1>a, <1>d, <1>g, <2>1, <2>2
<1>17. CASE Match(p) \/ Unpoint(p)
  <2>1. \E pc \in {"unpoint", "release"} : proc' = [proc EXCEPT ![p] = [proc[p] EXCEPT !.pc = pc]]
    BY <1>0, <1>17 DEF Match, Unpoint
  <2>2. proc[p].pc \in DeleteSteps
    BY <1>17 DEF Match, Unpoint, DeleteSteps
  <2> QED
    BY <1>a, <1>d, <2>1, <2>2 DEF Points
<1>18. CASE Release(p)
  <2>1. proc' = [proc EXCEPT ![p] = [proc[p] EXCEPT !.fd = NoInode, !.pc = "unlink"]]
        /\ proc[p].pc \in DeleteSteps
    BY <1>0, <1>18 DEF Release, DeleteSteps
  <2>2. Goes(proc[p], [proc[p] EXCEPT !.fd = NoInode, !.pc = "unlink"])
    BY <1>0, <2>1 DEF Processes, Goes, Carried, Reads, SparesOwn, HasToSave
  <2> QED
    BY <1>a, <1>b, <2>1, <2>2
<1>19. CASE Crash(p)
  BY <1>a, <1>g, <1>19 DEF Crash
<1> QED
  BY <1>1, <1>2, <1>3, <1>4, <1>5, <1>6, <1>7, <1>8, <1>9, <1>10, <1>11, <1>12, <1>13, <1>14, <1>15,
     <1>16, <1>17, <1>18, <1>19

(***************************************************************************)
(* The invariant of the files.                                             *)
(***************************************************************************)

\* What a process knows, and that it adds to what it last knew of the file.
Knows(r, n) ==
    /\ r.mem \in Rising(n) /\ r.seen \in Rising(n) /\ r.got \in Rising(n)
    /\ IsPrefix(r.seen, r.mem) /\ SparesOwn(r) /\ HasToSave(r)
    /\ r.pc = "off" => r = Off

\* A process that kept to the locks, as all others did, knows the file as it is.
UpToDate(r) ==
    r.held # NoInode /\ r.cur \notin raced \cup stray /\ r.stale = FALSE => files[r.cur] = r.seen

FileInv ==
    /\ written <= MaxMessages /\ stray \subseteq Ids
    /\ order \in Seq(Ids) /\ IsInjective(order) /\ ToSet(order) = Stored
    /\ \A id \in Ids : files[id] \in Rising(written)
    /\ \A p \in Procs : Knows(proc[p], written) /\ UpToDate(proc[p])

LEMMA OffKnows == ASSUME NEW n PROVE Knows(Off, n)
<1>1. /\ Off.mem = <<>> /\ Off.seen = <<>> /\ Off.got = <<>> /\ Off.held = NoInode
      /\ Off.pc = "off"
  BY DEF Off
<1>2. <<>> \in Seq(Nat) /\ IsPrefix(<<>>, <<>>)
  <2>1. <<>> \in Seq(Nat)
    OBVIOUS
  <2> QED
    BY <2>1, PrefixOfItself
<1> QED
  BY <1>1, <1>2, EmptyRises DEF Knows, SparesOwn, HasToSave

LEMMA InitFileInv == Init => FileInv
<1> SUFFICES ASSUME Init PROVE FileInv
  OBVIOUS
<1>1. /\ written = 0 /\ stray = {} /\ order = <<>> /\ files = [i \in Ids |-> <<>>]
      /\ \A p \in Procs : proc[p] = Off
  BY DEF Init
<1>2. written <= MaxMessages /\ stray \subseteq Ids
  BY <1>1, StoreAssumption
<1>3. order \in Seq(Ids) /\ IsInjective(order) /\ ToSet(order) = Stored
  <2>1. order \in Seq(Ids) /\ DOMAIN order = {}
    BY <1>1
  <2>2. ToSet(order) = {} /\ IsInjective(order)
    BY <2>1 DEF ToSet, IsInjective
  <2>3. Stored = {}
    BY <1>1 DEF Stored
  <2> QED
    BY <2>1, <2>2, <2>3
<1>4. \A id \in Ids : files[id] \in Rising(written)
  BY <1>1, EmptyRises
<1>5. \A p \in Procs : Knows(proc[p], written) /\ UpToDate(proc[p])
  <2>1. Off.held = NoInode
    BY DEF Off
  <2> QED
    BY <1>1, <2>1, OffKnows DEF UpToDate
<1> QED
  BY <1>2, <1>3, <1>4, <1>5 DEF FileInv

\* A step of one process that leaves the files and the order alone.
LEMMA QuietKeepsFileInv ==
  ASSUME FileInv, NEW p \in Procs, \A q \in Procs \ {p} : proc'[q] = proc[q],
         UNCHANGED <<files, order, written>>, raced \subseteq raced', UNCHANGED stray,
         Knows(proc'[p], written), UpToDate(proc[p])'
  PROVE  FileInv'
<1>1. \A q \in Procs : Knows(proc'[q], written)
  BY DEF FileInv
<1>2. \A q \in Procs : UpToDate(proc[q])'
  <2> TAKE q \in Procs
  <2>1. CASE q = p
    BY <2>1
  <2>2. CASE q # p
    BY <2>2 DEF FileInv, UpToDate
  <2> QED
    BY <2>1, <2>2
<1>3. Stored' = Stored
  BY DEF Stored
<1> QED
  BY <1>1, <1>2, <1>3 DEF FileInv

LEMMA GoesKeepsFileInv ==
  ASSUME FileInv, NEW p \in Procs, \A q \in Procs \ {p} : proc'[q] = proc[q],
         UNCHANGED <<files, order, written>>, raced \subseteq raced', UNCHANGED stray,
         Goes(proc[p], proc'[p])
  PROVE  FileInv'
<1>1. CASE proc'[p] = Off
  <2>1. Knows(proc'[p], written)
    BY <1>1, OffKnows
  <2>2. proc'[p].held = NoInode
    BY <1>1 DEF Off
  <2> QED
    BY <2>1, <2>2, QuietKeepsFileInv DEF UpToDate
<1>2. CASE /\ Carried(proc[p], proc'[p]) /\ Reads(proc[p], proc'[p]) /\ SparesOwn(proc'[p])
           /\ HasToSave(proc'[p]) /\ proc'[p].pc # "off"
  <2>1. Knows(proc'[p], written)
    <3>1. proc'[p].got \in Rising(written)
      BY <1>2, EmptyRises DEF Reads, FileInv, Knows
    <3> QED
      BY <1>2, <3>1 DEF FileInv, Knows, Carried
  <2>2. UpToDate(proc[p])'
    BY <1>2 DEF FileInv, UpToDate, Carried
  <2> QED
    BY <2>1, <2>2, QuietKeepsFileInv
<1> QED
  BY <1>1, <1>2 DEF Goes

\* A process that takes a session over knows the file it has read.
LEMMA TakingKeepsFileInv ==
  ASSUME LockInv, FileInv, NEW p \in Procs, NEW id \in Ids, NEW fd, NEW m \in Rising(written),
         NEW pc \in {"idle", "turn"}, NEW then,
         proc' = [proc EXCEPT ![p] = [Working(p, id, fd, m) EXCEPT !.pc = pc, !.then = then]],
         UNCHANGED <<files, order, written, raced, stray>>
  PROVE  FileInv'
<1>1. PICK s \in BOOLEAN : s = (m # files[id])
  OBVIOUS
<1>2. PICK r : r = [Working(p, id, fd, m) EXCEPT !.pc = pc, !.then = then]
  OBVIOUS
<1>3. Working(p, id, fd, m) =
        [Off EXCEPT !.pc = "idle", !.then = "idle", !.cur = id, !.held = fd, !.mem = m,
                    !.seen = m, !.stale = s]
  BY <1>1 DEF Working
<1>4. /\ r.mem = m /\ r.seen = m /\ r.got = <<>> /\ r.cur = id /\ r.stale = s /\ r.pc = pc
  BY <1>2, <1>3 DEF Off
<1>5. proc'[p] = r /\ \A q \in Procs \ {p} : proc'[q] = proc[q]
  BY <1>2, Becomes
<1>6. Knows(r, written)
  <2>1. IsPrefix(m, m)
    BY PrefixOfItself DEF Rising
  <2> QED
    BY <1>4, <2>1, EmptyRises DEF Knows, SparesOwn, HasToSave, DeleteSteps
<1>7. s = FALSE => files[id] = m
  BY <1>1
<1>8. UpToDate(proc[p])'
  BY <1>4, <1>5, <1>7 DEF UpToDate
<1> QED
  BY <1>5, <1>6, <1>8, QuietKeepsFileInv

LEMMA LoadKeepsFileInv ==
  ASSUME LockInv, FileInv, NEW p \in Procs, LoadHeld(p) \/ (LoadLock(p) /\ Granted(p))
  PROVE  FileInv'
<1>1. PICK fd : proc' = [proc EXCEPT ![p] = Working(p, proc[p].arg, fd, proc[p].got)]
  BY DEF LoadHeld, LoadLock
<1>2. proc[p].arg \in Ids /\ proc[p].got \in Rising(written)
  BY DEF LoadHeld, LoadLock, LockInv, ProcessShape, FdId, FdPoints, FileInv, Knows
<1>3. Working(p, proc[p].arg, fd, proc[p].got) =
        [Working(p, proc[p].arg, fd, proc[p].got) EXCEPT !.pc = "idle", !.then = "idle"]
  BY DEF Working, Off
<1>4. UNCHANGED <<files, order, written, raced, stray>>
  BY DEF LoadHeld, LoadLock
<1>5. PICK id \in Ids, m \in Rising(written) : id = proc[p].arg /\ m = proc[p].got
  BY <1>2
<1>6. proc' = [proc EXCEPT ![p] = [Working(p, id, fd, m) EXCEPT !.pc = "idle", !.then = "idle"]]
  BY <1>1, <1>3, <1>5
<1> QED
  BY <1>4, <1>6, TakingKeepsFileInv

LEMMA RenewKeepsFileInv ==
  ASSUME LockInv, FileInv, NEW p \in Procs, Renew(p)
  PROVE  FileInv'
<1>1. PICK id \in Ids, pc \in {"idle", "turn"} :
        proc' = [proc EXCEPT ![p] =
                   [Working(p, id, FreeInode, <<>>) EXCEPT !.pc = pc, !.then = proc[p].then]]
  BY DEF Renew
<1>2. <<>> \in Rising(written)
  BY EmptyRises
<1>3. UNCHANGED <<files, order, written, raced, stray>>
  BY DEF Renew
<1> QED
  BY <1>1, <1>2, <1>3, TakingKeepsFileInv

LEMMA EnsureKeepsFileInv ==
  ASSUME LockInv, FileInv, NEW p \in Procs, EnsureLock(p)
  PROVE  FileInv'
<1>1. proc[p] \in Processes
  BY DEF LockInv, LockTypes
<1>2. PICK s \in BOOLEAN : s = (proc[p].stale \/ proc[p].seen # files[proc[p].cur])
  OBVIOUS
<1>3. PICK h : h = IF Granted(p) THEN proc[p].fd ELSE NoInode
  OBVIOUS
<1>4. PICK r : r = [proc[p] EXCEPT !.pc = "turn", !.then = "turn", !.fd = NoInode,
                                   !.held = h, !.stale = s]
  OBVIOUS
<1>5. proc' = [proc EXCEPT ![p] = r]
  BY <1>1, <1>2, <1>3, <1>4 DEF EnsureLock
<1>6. proc'[p] = r /\ \A q \in Procs \ {p} : proc'[q] = proc[q]
  BY <1>5, Becomes
<1>7. /\ r.pc = "turn" /\ r.mem = proc[p].mem /\ r.seen = proc[p].seen /\ r.got = proc[p].got
      /\ r.cur = proc[p].cur /\ r.stale = s
  BY <1>1, <1>4 DEF Processes
<1>8. Knows(r, written)
  BY <1>7 DEF FileInv, Knows, SparesOwn, HasToSave, DeleteSteps
<1>9. s = FALSE => files[proc[p].cur] = proc[p].seen
  BY <1>2
<1>10. UNCHANGED <<files, order, written, raced, stray>>
  BY DEF EnsureLock
<1>11. UpToDate(proc[p])'
  BY <1>6, <1>7, <1>9, <1>10 DEF UpToDate
<1> QED
  BY <1>6, <1>8, <1>10, <1>11, QuietKeepsFileInv

LEMMA KnowsMore ==
  ASSUME NEW n \in Nat, NEW r, Knows(r, n)
  PROVE  Knows(r, n + 1)
<1>1. r.mem \in Rising(n + 1) /\ r.seen \in Rising(n + 1) /\ r.got \in Rising(n + 1)
  BY RisingGrows DEF Knows
<1> QED
  BY <1>1 DEF Knows

LEMMA AttachKeepsFileInv ==
  ASSUME LockInv, FileInv, NEW p \in Procs, Attach(p)
  PROVE  FileInv'
<1>1. proc[p] \in Processes /\ written \in Nat /\ written' = written + 1 /\ written < MaxMessages
      /\ Knows(proc[p], written)
  BY DEF LockInv, LockTypes, Attach, FileInv
<1>2. PICK m : m = Append(proc[p].mem, written + 1)
  OBVIOUS
<1>3. PICK r : r = [proc[p] EXCEPT !.mem = m, !.pc = "save"]
  OBVIOUS
<1>4. proc' = [proc EXCEPT ![p] = r]
  BY <1>1, <1>2, <1>3 DEF Attach
<1>5. proc'[p] = r /\ \A q \in Procs \ {p} : proc'[q] = proc[q]
  BY <1>4, Becomes
<1>6. /\ r.pc = "save" /\ r.mem = m /\ r.seen = proc[p].seen /\ r.got = proc[p].got
      /\ r.cur = proc[p].cur /\ r.stale = proc[p].stale /\ r.held = proc[p].held
  BY <1>1, <1>3 DEF Processes
<1>7. m \in Rising(written + 1) /\ m # <<>> /\ IsPrefix(proc[p].seen, m)
  <2>1. proc[p].mem \in Rising(written) /\ proc[p].seen \in Rising(written)
        /\ IsPrefix(proc[p].seen, proc[p].mem)
    BY <1>1 DEF Knows
  <2>2. proc[p].mem \in Seq(Nat) /\ proc[p].seen \in Seq(Nat) /\ written + 1 \in Nat
    BY <1>1, <2>1 DEF Rising
  <2>3. m \in Rising(written + 1)
    BY <1>1, <1>2, <2>1, RisingGrows
  <2>4. IsPrefix(proc[p].seen, m)
    BY <1>2, <2>1, <2>2, PrefixGrows
  <2>5. m # <<>>
    BY <1>2, <2>2, AppendProperties
  <2> QED
    BY <2>3, <2>4, <2>5
<1>8. Knows(r, written + 1)
  <2>1. Knows(proc[p], written + 1)
    BY <1>1, KnowsMore
  <2> QED
    BY <1>6, <1>7, <2>1 DEF Knows, SparesOwn, HasToSave, DeleteSteps
<1>9. UNCHANGED <<files, order, raced, stray>>
  BY DEF Attach
<1>10. \A q \in Procs : Knows(proc'[q], written') /\ UpToDate(proc[q])'
  <2> TAKE q \in Procs
  <2>1. Knows(proc[q], written) /\ UpToDate(proc[q])
    BY DEF FileInv
  <2>2. CASE q = p
    BY <1>1, <1>5, <1>6, <1>8, <1>9, <2>1, <2>2 DEF UpToDate
  <2>3. CASE q # p
    <3>1. Knows(proc[q], written + 1) /\ proc'[q] = proc[q]
      BY <1>1, <1>5, <2>1, <2>3, KnowsMore
    <3> QED
      BY <1>1, <1>9, <2>1, <3>1 DEF UpToDate
  <2> QED
    BY <2>2, <2>3
<1>11. \A id \in Ids : files'[id] \in Rising(written')
  BY <1>1, <1>9, RisingGrows DEF FileInv
<1>12. written' <= MaxMessages
  BY <1>1, StoreAssumption
<1>13. Stored' = Stored
  BY <1>9 DEF Stored
<1> QED
  BY <1>9, <1>10, <1>11, <1>12, <1>13 DEF FileInv

\* Of a session whose lock is intact, only one process has the lock.
LEMMA OthersAreOut ==
  ASSUME LockInv, NEW p \in Procs, NEW q \in Procs \ {p}, NEW id \in Ids \ raced,
         \/ proc[p].held # NoInode /\ proc[p].cur = id
         \/ proc[p].pc = "erase" /\ proc[p].arg = id
  PROVE  proc[q].held = NoInode \/ proc[q].cur # id
<1> SUFFICES ASSUME proc[q].held # NoInode, proc[q].cur = id PROVE FALSE
  OBVIOUS
<1>1. ProcessShape(proc[p]) /\ Named(proc[p]) /\ Named(proc[q])
  BY DEF LockInv
<1>2. proc[q].held = lockFile[id] /\ proc[q].held \in LocksOf(proc[q])
  BY <1>1 DEF Named, LocksOf
<1>3. lockFile[id] \in LocksOf(proc[p])
  <2>1. CASE proc[p].held # NoInode /\ proc[p].cur = id
    BY <1>1, <2>1 DEF Named, LocksOf
  <2>2. CASE proc[p].pc = "erase" /\ proc[p].arg = id
    BY <1>1, <2>2 DEF Named, LocksOf, ProcessShape, FdPoints, DeletePoints, FdId
  <2> QED
    BY <2>1, <2>2
<1> QED
  BY <1>2, <1>3 DEF LockInv, Exclusive

LEMMA SaveKeepsFileInv ==
  ASSUME LockInv, FileInv, NEW p \in Procs, Save(p)
  PROVE  FileInv'
<1>1. /\ proc[p] \in Processes /\ ProcessShape(proc[p]) /\ files \in [Ids -> Seq(Nat)]
      /\ Knows(proc[p], written) /\ proc[p].pc = "save"
  BY DEF LockInv, LockTypes, Save, FileInv
<1>2. PICK id \in Ids : id = proc[p].cur
  BY <1>1 DEF ProcessShape
<1>3. PICK m \in Rising(written) : m = proc[p].mem /\ m # <<>> /\ IsPrefix(m, m)
  <2>1. proc[p].mem \in Rising(written) /\ proc[p].mem # <<>> /\ proc[p].mem \in Seq(Nat)
    BY <1>1 DEF Knows, HasToSave, Rising
  <2> QED
    BY <2>1, PrefixOfItself
<1>4. /\ files' = [files EXCEPT ![id] = m] /\ order' = <<id>> \o Without(order, id)
      /\ stray' = stray \cup {i \in {id} : proc[p].held = NoInode}
      /\ UNCHANGED <<written, raced>>
  BY <1>2, <1>3 DEF Save
<1>5. files'[id] = m /\ \A i \in Ids \ {id} : files'[i] = files[i]
  BY <1>1, <1>4
<1>6. PICK r : r = [proc[p] EXCEPT !.seen = m, !.pc = "point"]
  OBVIOUS
<1>7. proc' = [proc EXCEPT ![p] = r]
  BY <1>1, <1>3, <1>6 DEF Save
<1>8. proc'[p] = r /\ \A q \in Procs \ {p} : proc'[q] = proc[q]
  BY <1>7, Becomes
<1>9. /\ r.pc = "point" /\ r.mem = m /\ r.seen = m /\ r.got = proc[p].got
      /\ r.cur = id /\ r.held = proc[p].held
  BY <1>1, <1>2, <1>3, <1>6 DEF Processes
<1>10. Knows(r, written)
  BY <1>1, <1>3, <1>9 DEF Knows, SparesOwn, HasToSave, DeleteSteps
<1>11. stray \subseteq stray' /\ (id \notin stray' => proc[p].held # NoInode)
  BY <1>4
<1>12. \A q \in Procs : Knows(proc'[q], written') /\ UpToDate(proc[q])'
  <2> TAKE q \in Procs
  <2>1. CASE q = p
    <3>1. UpToDate(proc[q])'
      BY <1>5, <1>8, <1>9, <2>1 DEF UpToDate
    <3> QED
      BY <1>4, <1>8, <1>10, <2>1, <3>1
  <2>2. CASE q # p
    <3>1. Knows(proc[q], written) /\ UpToDate(proc[q]) /\ proc'[q] = proc[q] /\ ProcessShape(proc[q])
      BY <1>8, <2>2 DEF FileInv, LockInv
    <3>2. CASE proc[q].cur = id /\ proc[q].held # NoInode
      <4>1. id \in raced \/ id \in stray'
        BY <1>2, <1>11, <2>2, <3>2, OthersAreOut
      <4>2. UpToDate(proc[q])'
        BY <1>4, <3>1, <3>2, <4>1 DEF UpToDate
      <4> QED
        BY <1>4, <3>1, <4>2
    <3>3. CASE proc[q].cur # id \/ proc[q].held = NoInode
      <4>1. UpToDate(proc[q])'
        BY <1>4, <1>5, <1>11, <3>1, <3>3 DEF UpToDate, ProcessShape
      <4> QED
        BY <1>4, <3>1, <4>1
    <3> QED
      BY <3>2, <3>3
  <2> QED
    BY <2>1, <2>2
<1>13. Stored' = Stored \cup {id}
  BY <1>3, <1>5 DEF Stored
<1>14. order' \in Seq(Ids) /\ IsInjective(order') /\ ToSet(order') = Stored'
  <2>1. order \in Seq(Ids) /\ IsInjective(order) /\ ToSet(order) = Stored
    BY DEF FileInv
  <2> DEFINE t == <<id>> \o Without(order, id)
  <2>2. t \in Seq(Ids) /\ IsInjective(t) /\ ToSet(t) = Stored \cup {id}
    BY <2>1, SavedFirst
  <2> HIDE DEF t
  <2>3. order' = t
    BY <1>4 DEF t
  <2> QED
    BY <1>13, <2>2, <2>3
<1>15. \A i \in Ids : files'[i] \in Rising(written')
  BY <1>3, <1>4, <1>5 DEF FileInv
<1>16. written' <= MaxMessages /\ stray' \subseteq Ids
  BY <1>4 DEF FileInv
<1> QED
  BY <1>12, <1>14, <1>15, <1>16 DEF FileInv

LEMMA EraseKeepsFileInv ==
  ASSUME LockInv, FileInv, NEW p \in Procs, Erase(p)
  PROVE  FileInv'
<1>1. /\ proc[p] \in Processes /\ ProcessShape(proc[p]) /\ files \in [Ids -> Seq(Nat)]
      /\ Knows(proc[p], written) /\ proc[p].pc = "erase"
  BY DEF LockInv, LockTypes, Erase, FileInv
<1>2. PICK id \in Ids : id = proc[p].arg
  BY <1>1 DEF ProcessShape, FdPoints, FdId
<1>3. UNCHANGED <<written, raced, stray>>
  BY DEF Erase
<1>4. CASE proc' = [proc EXCEPT ![p] = [proc[p] EXCEPT !.ok = FALSE, !.pc = "release"]]
           /\ UNCHANGED <<files, order>>
  <2>1. Goes(proc[p], [proc[p] EXCEPT !.ok = FALSE, !.pc = "release"])
    BY <1>1 DEF Processes, Goes, Carried, Reads, Knows, SparesOwn, HasToSave, DeleteSteps
  <2>2. /\ proc'[p] = [proc[p] EXCEPT !.ok = FALSE, !.pc = "release"]
        /\ \A q \in Procs \ {p} : proc'[q] = proc[q]
    <3>1. PICK r : r = [proc[p] EXCEPT !.ok = FALSE, !.pc = "release"]
      OBVIOUS
    <3>2. proc' = [proc EXCEPT ![p] = r]
      BY <1>4, <3>1
    <3> QED
      BY <3>1, <3>2, Becomes
  <2> QED
    BY <1>3, <1>4, <2>1, <2>2, GoesKeepsFileInv
<1>5. CASE /\ proc' = [proc EXCEPT ![p] = [proc[p] EXCEPT !.pc = "match"]]
           /\ files' = [files EXCEPT ![id] = <<>>] /\ order' = Without(order, id)
  <2>1. files'[id] = <<>> /\ \A i \in Ids \ {id} : files'[i] = files[i]
    BY <1>1, <1>5
  <2>2. PICK r : r = [proc[p] EXCEPT !.pc = "match"]
    OBVIOUS
  <2>3. proc'[p] = r /\ \A q \in Procs \ {p} : proc'[q] = proc[q]
    <3>1. proc' = [proc EXCEPT ![p] = r]
      BY <1>5, <2>2
    <3> QED
      BY <3>1, Becomes
  <2>4. /\ r.pc = "match" /\ r.mem = proc[p].mem /\ r.seen = proc[p].seen /\ r.got = proc[p].got
        /\ r.cur = proc[p].cur /\ r.held = proc[p].held /\ r.stale = proc[p].stale
        /\ r.arg = proc[p].arg
    BY <1>1, <2>2 DEF Processes
  <2>5. Knows(r, written)
    BY <1>1, <2>4 DEF Knows, SparesOwn, HasToSave, DeleteSteps
  <2>6. \A q \in Procs : Knows(proc'[q], written') /\ UpToDate(proc[q])'
    <3> TAKE q \in Procs
    <3>1. Knows(proc[q], written) /\ UpToDate(proc[q]) /\ ProcessShape(proc[q])
      BY DEF FileInv, LockInv
    <3>2. proc[q].cur = id /\ proc[q].held # NoInode => id \in raced
      <4>1. CASE q = p
        BY <1>1, <1>2, <3>1, <4>1 DEF Knows, SparesOwn, DeleteSteps
      <4>2. CASE q # p
        BY <1>1, <1>2, <4>2, OthersAreOut
      <4> QED
        BY <4>1, <4>2
    <3>3. /\ proc'[q].cur = proc[q].cur /\ proc'[q].held = proc[q].held
          /\ proc'[q].stale = proc[q].stale /\ proc'[q].seen = proc[q].seen
      BY <2>3, <2>4
    <3>4. UpToDate(proc[q])'
      BY <1>3, <2>1, <3>1, <3>2, <3>3 DEF UpToDate, ProcessShape
    <3>5. Knows(proc'[q], written')
      BY <1>3, <2>3, <2>5, <3>1
    <3> QED
      BY <3>4, <3>5
  <2>7. Stored' = Stored \ {id}
    BY <2>1 DEF Stored
  <2>8. order' \in Seq(Ids) /\ IsInjective(order') /\ ToSet(order') = Stored'
    <3>1. order \in Seq(Ids) /\ IsInjective(order) /\ ToSet(order) = Stored
      BY DEF FileInv
    <3> DEFINE t == Without(order, id)
    <3>2. t \in Seq(Ids) /\ IsInjective(t) /\ ToSet(t) = Stored \ {id}
      BY <3>1, WithoutOne
    <3> HIDE DEF t
    <3>3. order' = t
      BY <1>5 DEF t
    <3> QED
      BY <2>7, <3>2, <3>3
  <2>9. \A i \in Ids : files'[i] \in Rising(written')
    BY <1>3, <2>1, EmptyRises DEF FileInv
  <2>10. written' <= MaxMessages /\ stray' \subseteq Ids
    BY <1>3 DEF FileInv
  <2> QED
    BY <2>6, <2>8, <2>9, <2>10 DEF FileInv
<1> QED
  BY <1>1, <1>2, <1>4, <1>5 DEF Erase

LEMMA UnlinkKeepsFileInv ==
  ASSUME LockInv, FileInv, NEW p \in Procs, Unlink(p)
  PROVE  FileInv'
<1>1. UNCHANGED <<files, order, written, stray>> /\ raced \subseteq raced'
  BY DEF Unlink
<1>2. PICK b : b = Back(p)
  OBVIOUS
<1>3. b \in Processes /\ Goes(proc[p], b) /\ (b = Off \/ b.pc = "idle")
  BY <1>2, BackGoes, BackKeeps DEF LockInv, LockTypes
<1>4. PICK r :
        /\ proc' = [proc EXCEPT ![p] = r]
        /\ r = b \/ r = [b EXCEPT !.pc = "renew"]
  BY <1>2 DEF Unlink
<1>5. proc'[p] = r /\ \A q \in Procs \ {p} : proc'[q] = proc[q]
  BY <1>4, Becomes
<1>6. CASE r = b
  BY <1>1, <1>3, <1>5, <1>6, GoesKeepsFileInv
<1>7. CASE r = [b EXCEPT !.pc = "renew"] /\ b = Off
  <2>1. /\ r.mem = <<>> /\ r.seen = <<>> /\ r.got = <<>> /\ r.held = NoInode
        /\ r.pc = "renew"
    BY <1>7 DEF Off
  <2>2. <<>> \in Seq(Nat)
    OBVIOUS
  <2>3. Knows(r, written)
    BY <2>1, <2>2, EmptyRises, PrefixOfItself DEF Knows, SparesOwn, HasToSave
  <2>4. UpToDate(proc[p])'
    BY <1>5, <2>1 DEF UpToDate
  <2> QED
    BY <1>1, <1>5, <2>3, <2>4, QuietKeepsFileInv
<1>8. CASE r = [b EXCEPT !.pc = "renew"] /\ b # Off
  <2>1. /\ Carried(proc[p], b) /\ Reads(proc[p], b) /\ SparesOwn(b) /\ HasToSave(b)
    BY <1>3, <1>8 DEF Goes
  <2>2. Goes(proc[p], r)
    BY <1>3, <1>8, <2>1 DEF Processes, Goes, Carried, Reads, SparesOwn, HasToSave, DeleteSteps
  <2> QED
    BY <1>1, <1>5, <2>2, GoesKeepsFileInv
<1> QED
  BY <1>4, <1>6, <1>7, <1>8

\* What the files and the transcripts are in every reachable state.
THEOREM FilesInOrder == Spec => []FileInv
<1>1. LockInv /\ FileInv /\ [Next]_vars => FileInv'
  <2> SUFFICES ASSUME LockInv, FileInv, [Next]_vars PROVE FileInv'
    OBVIOUS
  <2>1. CASE UNCHANGED vars
    <3>1. UNCHANGED <<files, order, written, raced, stray, proc>>
      BY <2>1 DEF vars
    <3>2. Stored' = Stored /\ \A p \in Procs : UpToDate(proc[p])'
      BY <3>1 DEF Stored, UpToDate, FileInv
    <3> QED
      BY <3>1, <3>2 DEF FileInv
  <2>2. ASSUME NEW p \in Procs, Step(p) PROVE FileInv'
    <3>1. CASE LoadHeld(p) \/ (LoadLock(p) /\ Granted(p)) \/ Renew(p) \/ EnsureLock(p)
      BY <3>1, LoadKeepsFileInv, RenewKeepsFileInv, EnsureKeepsFileInv
    <3>2. CASE Attach(p) \/ Save(p) \/ Erase(p) \/ Unlink(p)
      BY <3>2, AttachKeepsFileInv, SaveKeepsFileInv, EraseKeepsFileInv, UnlinkKeepsFileInv
    <3>3. CASE \/ Start(p) \/ Resolve(p) \/ LoadPointer(p) \/ LoadNamed(p) \/ LoadNewest(p) \/ Repoint(p)
               \/ LoadHolds(p) \/ (LoadLock(p) /\ ~Granted(p)) \/ Prompt(p) \/ EndTurn(p) \/ SaveFirst(p)
               \/ SaveFails(p) \/ Point(p) \/ PointFails(p)
               \/ DeleteOther(p) \/ DeleteCurrent(p) \/ DeleteHolds(p) \/ DeleteLock(p)
               \/ Match(p) \/ Unpoint(p) \/ Release(p) \/ Crash(p)
      <4>1. SparesOwn(proc[p])
        BY DEF FileInv, Knows
      <4>2. /\ Goes(proc[p], proc'[p]) /\ Quiet
            /\ \A q \in Procs \ {p} : proc'[q] = proc[q]
        BY <3>3, <4>1, StepGoes
      <4> QED
        BY <4>2, GoesKeepsFileInv DEF Quiet
    <3> QED
      BY <2>2, <3>1, <3>2, <3>3 DEF Step
  <2> QED
    BY <2>1, <2>2 DEF Next
<1> QED
  BY <1>1, InitFileInv, LocksInOrder, PTL DEF Spec

LEMMA TornIsBoolean == Spec => [](torn \in BOOLEAN)
<1>1. Init => torn \in BOOLEAN
  BY DEF Init
<1>2. torn \in BOOLEAN /\ [Next]_vars => (torn \in BOOLEAN)'
  <2> SUFFICES ASSUME torn \in BOOLEAN, [Next]_vars PROVE (torn \in BOOLEAN)'
    OBVIOUS
  <2>1. CASE UNCHANGED vars
    BY <2>1 DEF vars
  <2>2. ASSUME NEW p \in Procs, Step(p) PROVE (torn \in BOOLEAN)'
    BY <2>2 DEF Step, Start, Resolve, LoadPointer, LoadNamed, LoadNewest, Repoint, LoadHolds,
       LoadHeld, LoadLock, Prompt, EnsureLock, Attach, EndTurn, SaveFirst, Save, SaveFails, Point,
       PointFails, Renew, DeleteOther, DeleteCurrent, DeleteHolds, DeleteLock, Erase, Match,
       Unpoint, Release, Unlink, Crash
  <2> QED
    BY <2>1, <2>2 DEF Next
<1> QED
  BY <1>1, <1>2, PTL DEF Spec

\* Every state is of the right type; a transcript has each message at most once and
\* in the order of writing, so that the bound on messages bounds all of them.
THEOREM TypeCorrect == Spec => []TypeOK
<1>1. LockInv /\ FileInv /\ torn \in BOOLEAN => TypeOK
  <2> SUFFICES ASSUME LockInv, FileInv, torn \in BOOLEAN PROVE TypeOK
    OBVIOUS
  <2>1. /\ written \in Nat /\ written <= MaxMessages /\ MaxMessages \in Nat
        /\ proc \in [Procs -> Processes]
    BY StoreAssumption DEF LockInv, LockTypes, FileInv
  <2>2. \A s \in Rising(written) : s \in Transcripts
    BY <2>1, RisingIsATranscript
  <2>3. files \in [Ids -> Transcripts]
    <3>1. \A id \in Ids : files[id] \in Transcripts
      BY <2>2 DEF FileInv
    <3> QED
      BY <3>1 DEF LockInv, LockTypes
  <2>4. \A p \in Procs :
          proc[p] \in [pc : Points, then : Sequels, cur : Ids \cup {None}, held : Inodes \cup {NoInode},
                       mem : Transcripts, seen : Transcripts, arg : Ids \cup {None},
                       got : Transcripts, fd : Inodes \cup {NoInode}, ok : BOOLEAN,
                       stale : BOOLEAN]
    <3> TAKE p \in Procs
    <3>1. proc[p] \in Processes /\ Knows(proc[p], written)
      BY <2>1 DEF FileInv
    <3>2. proc[p].mem \in Transcripts /\ proc[p].seen \in Transcripts /\ proc[p].got \in Transcripts
      BY <2>2, <3>1 DEF Knows
    <3> HIDE DEF Transcripts
    <3> QED
      BY <3>1, <3>2 DEF Processes
  <2>5. proc \in [Procs -> [pc : Points, then : Sequels, cur : Ids \cup {None},
                            held : Inodes \cup {NoInode}, mem : Transcripts, seen : Transcripts,
                            arg : Ids \cup {None}, got : Transcripts,
                            fd : Inodes \cup {NoInode}, ok : BOOLEAN, stale : BOOLEAN]]
    BY <2>1, <2>4
  <2>6. written \in 0..MaxMessages
    BY <2>1
  <2>7. \A p \in Procs : proc[p].pc = "off" => proc[p] = Off
    BY DEF FileInv, Knows
  <2> QED
    BY <2>3, <2>5, <2>6, <2>7 DEF TypeOK, LockInv, LockTypes, FileInv
<1> QED
  BY <1>1, LocksInOrder, FilesInOrder, TornIsBoolean, PTL

\* A process at "save" that is at "point" afterwards has saved.
LEMMA OnlySaveSaves ==
  ASSUME LockInv, FileInv, NEW p \in Procs, NEW q \in Procs, Step(p),
         proc[q].pc = "save", proc'[q].pc = "point"
  PROVE  q = p /\ Save(p)
<1>1. proc \in [Procs -> Processes] /\ proc[p] \in Processes
  BY DEF LockInv, LockTypes
<1>2. PICK r : proc' = [proc EXCEPT ![p] = r]
  BY <1>1 DEF Step, Start, Resolve, LoadPointer, LoadNamed, LoadNewest, Repoint, LoadHolds,
     LoadHeld, LoadLock, OpenLock, Prompt, EnsureLock, Attach, EndTurn, SaveFirst, Save, SaveFails,
     Point, PointFails, Renew, DeleteOther, DeleteCurrent, DeleteHolds, DeleteLock, Erase, Match,
     Unpoint, Release, Unlink, Crash
<1>3. q = p
  BY <1>2, Becomes
<1>4. ~Crash(p)
  BY <1>3, Becomes DEF Crash, Off
<1>5. ~SaveFails(p)
  <2> SUFFICES ASSUME SaveFails(p) PROVE FALSE
    OBVIOUS
  <2>1. PICK a : a = AfterSave(p, FALSE)
    OBVIOUS
  <2>2. a = Off \/ a.pc \in {"idle", "turn", "pick", "renew"}
    BY <1>3, <2>1, AfterSaveGoes
  <2>3. proc' = [proc EXCEPT ![p] = a]
    BY <2>1 DEF SaveFails
  <2>4. proc'[p] = a
    BY <2>3, Becomes
  <2> QED
    BY <1>3, <2>2, <2>4 DEF Off
<1> QED
  BY <1>3, <1>4, <1>5 DEF Step, Start, Resolve, LoadPointer, LoadNamed, LoadNewest, Repoint,
     LoadHolds, LoadHeld, LoadLock, Prompt, EnsureLock, Attach, EndTurn, SaveFirst, Point,
     PointFails, Renew, DeleteOther, DeleteCurrent, DeleteHolds, DeleteLock, Erase, Match,
     Unpoint, Release, Unlink

\* A save only ever replaces the file its process last left, by a transcript that
\* continues it.
THEOREM SavesBuild == Spec => SavesBuildOnFile
<1>1. LockInv /\ FileInv /\ [Next]_vars =>
        [\A p \in Procs : proc[p].pc = "save" /\ proc'[p].pc = "point" =>
           \/ proc[p].cur \in raced \cup stray' \/ proc[p].stale
           \/ files[proc[p].cur] = proc[p].seen /\ IsPrefix(proc[p].seen, proc[p].mem)]_vars
  <2> SUFFICES ASSUME LockInv, FileInv, Next, NEW q \in Procs,
                      proc[q].pc = "save", proc'[q].pc = "point"
               PROVE  \/ proc[q].cur \in raced \cup stray' \/ proc[q].stale
                      \/ files[proc[q].cur] = proc[q].seen /\ IsPrefix(proc[q].seen, proc[q].mem)
    OBVIOUS
  <2>1. PICK p \in Procs : Step(p)
    BY DEF Next
  <2>2. Save(q)
    BY <2>1, OnlySaveSaves
  <2>3. proc[q] \in Processes /\ Knows(proc[q], written) /\ UpToDate(proc[q])
    BY DEF LockInv, LockTypes, FileInv
  <2>4. /\ IsPrefix(proc[q].seen, proc[q].mem) /\ stray \subseteq stray'
        /\ proc[q].held = NoInode => proc[q].cur \in stray'
    BY <2>2, <2>3 DEF Save, Knows
  <2>5. proc[q].stale \in BOOLEAN
    BY <2>3 DEF Processes
  <2> QED
    BY <2>3, <2>4, <2>5 DEF UpToDate
<1> QED
  BY <1>1, LocksInOrder, FilesInOrder, PTL DEF Spec, SavesBuildOnFile

(***************************************************************************)
(* The pointer and the newest file.                                        *)
(***************************************************************************)

First(id) == order # <<>> /\ order[1] = id

\* Unless it may be wrong: a process about to write the pointer writes the newest
\* file, and while none is between file and pointer, it names that file or none.
NewestInv ==
    torn = FALSE =>
        /\ \A p \in Procs : proc[p].pc = "point" => First(proc[p].cur)
        /\ \A p \in Procs : proc[p].pc = "repoint" => First(proc[p].arg)
        /\ (\A p \in Procs : proc[p].pc # "point") =>
               (last # None /\ files[last] # <<>> => First(last))

\* A step that touches neither files nor pointer.
LEMMA PlainKeepsNewest ==
  ASSUME NewestInv, NEW p \in Procs, \A q \in Procs \ {p} : proc'[q] = proc[q],
         UNCHANGED <<files, order, last>>, torn' = FALSE => torn = FALSE,
         torn' = FALSE => proc[p].pc # "point", proc'[p].pc # "point",
         proc'[p].pc = "repoint" => First(proc'[p].arg)
  PROVE  NewestInv'
<1> SUFFICES ASSUME torn' = FALSE
             PROVE  /\ \A q \in Procs : proc'[q].pc = "point" => First(proc[q].cur)'
                    /\ \A q \in Procs : proc'[q].pc = "repoint" => First(proc[q].arg)'
                    /\ (\A q \in Procs : proc'[q].pc # "point") =>
                           (last' # None /\ files'[last'] # <<>> => First(last)')
  BY DEF NewestInv, First
<1>1. torn = FALSE
  OBVIOUS
<1>2. ASSUME NEW q \in Procs, proc'[q].pc = "point" PROVE First(proc[q].cur)'
  BY <1>1, <1>2 DEF NewestInv, First
<1>3. ASSUME NEW q \in Procs, proc'[q].pc = "repoint" PROVE First(proc[q].arg)'
  BY <1>1, <1>3 DEF NewestInv, First
<1>4. ASSUME \A q \in Procs : proc'[q].pc # "point", last' # None, files'[last'] # <<>>
      PROVE  First(last)'
  <2>1. \A q \in Procs : proc[q].pc # "point"
    BY <1>4
  <2> QED
    BY <1>1, <1>4, <2>1 DEF NewestInv, First
<1> QED
  BY <1>2, <1>3, <1>4

\* The steps that leave files, order and pointer alone.
LEMMA StepPlain ==
  ASSUME LockInv, NEW p \in Procs,
         \/ Start(p) \/ Resolve(p) \/ LoadPointer(p) \/ LoadNamed(p)
         \/ LoadHolds(p) \/ LoadHeld(p) \/ LoadLock(p) \/ Prompt(p) \/ EnsureLock(p) \/ Attach(p)
         \/ EndTurn(p) \/ SaveFirst(p) \/ SaveFails(p) \/ Renew(p)
         \/ DeleteOther(p) \/ DeleteCurrent(p) \/ DeleteHolds(p) \/ DeleteLock(p)
         \/ Match(p) \/ Release(p) \/ Unlink(p)
  PROVE  /\ \A q \in Procs \ {p} : proc'[q] = proc[q]
         /\ UNCHANGED <<files, order, last, torn>> /\ proc[p].pc # "point"
         /\ proc'[p].pc \notin {"point", "repoint"}
<1>0. proc \in [Procs -> Processes] /\ proc[p] \in Processes
  BY DEF LockInv, LockTypes
<1>1. UNCHANGED <<files, order, last, torn>> /\ proc[p].pc # "point"
  BY DEF Start, Resolve, LoadPointer, LoadNamed, LoadHolds, LoadHeld, LoadLock, Prompt, EnsureLock,
         Attach, EndTurn, SaveFirst, SaveFails, Renew, DeleteOther, DeleteCurrent, DeleteHolds,
         DeleteLock, Match, Release, Unlink
<1>2. \E r : proc' = [proc EXCEPT ![p] = r]
  BY <1>0 DEF Start, Resolve, LoadPointer, LoadNamed, LoadHolds, LoadHeld, LoadLock, OpenLock,
     Prompt, EnsureLock, Attach, EndTurn, SaveFirst, SaveFails, Renew, DeleteOther, DeleteCurrent,
     DeleteHolds, DeleteLock, Match, Release, Unlink
<1>3. \A q \in Procs \ {p} : proc'[q] = proc[q]
  BY <1>2, Becomes
<1>4. Back(p).pc \in {"off", "idle"}
  <2>1. Back(p) = Off \/ Back(p).pc = "idle"
    BY BackGoes
  <2> QED
    BY <2>1 DEF Off
<1>5. proc'[p].pc \notin {"point", "repoint"}
  <2>1. CASE Start(p)
    BY <1>0, <2>1 DEF Start, Processes
  <2>a. CASE LoadPointer(p)
    BY <1>0, <2>a DEF LoadPointer, Processes
  <2>2. CASE Resolve(p)
    BY <1>0, <1>4, <2>2 DEF Resolve, Processes
  <2>3. CASE LoadNamed(p)
    BY <1>0, <2>3 DEF LoadNamed, Processes
  <2>4. CASE LoadHolds(p)
    BY <1>0, <2>4 DEF LoadHolds, OpenLock, Processes
  <2>b. CASE DeleteHolds(p)
    BY <1>0, <2>b DEF DeleteHolds, OpenLock, Processes
  <2>5. CASE LoadHeld(p) \/ LoadLock(p)
    <3>1. \A id, fd, m : Working(p, id, fd, m).pc = "idle"
      BY DEF Working, Off
    <3> QED
      BY <1>0, <1>4, <2>5, <3>1 DEF LoadHeld, LoadLock
  <2>6. CASE Prompt(p)
    BY <1>0, <2>6 DEF Prompt, OpenLock, Processes
  <2>7. CASE EnsureLock(p)
    BY <1>0, <2>7 DEF EnsureLock, Processes
  <2>c. CASE Attach(p)
    BY <1>0, <2>c DEF Attach, Processes
  <2>d. CASE Release(p)
    BY <1>0, <2>d DEF Release, Processes
  <2>8. CASE EndTurn(p)
    BY <1>0, <1>4, <2>8 DEF EndTurn, Processes
  <2>9. CASE SaveFirst(p)
    BY <1>0, <2>9 DEF SaveFirst, Off, Processes
  <2>10. CASE SaveFails(p)
    <3>a. PICK a : a = AfterSave(p, FALSE)
      OBVIOUS
    <3>1. a = Off \/ a.pc \in {"idle", "turn", "pick", "renew"}
      BY <2>10, <3>a, AfterSaveGoes DEF SaveFails
    <3>2. proc'[p] = a
      BY <1>0, <2>10, <3>a DEF SaveFails
    <3> QED
      BY <3>1, <3>2 DEF Off
  <2>11. CASE Renew(p)
    <3>a. PICK pc \in {"turn", "idle"} : pc = IF proc[p].then = "turn" THEN "turn" ELSE "idle"
      OBVIOUS
    <3>1. PICK id \in Ids :
            proc' = [proc EXCEPT ![p] =
                       [Working(p, id, FreeInode, <<>>) EXCEPT !.pc = pc, !.then = proc[p].then]]
      BY <2>11, <3>a DEF Renew
    <3>2. proc'[p] = [Working(p, id, FreeInode, <<>>) EXCEPT !.pc = pc, !.then = proc[p].then]
      BY <1>0, <3>1
    <3>3. [Working(p, id, FreeInode, <<>>) EXCEPT !.pc = pc, !.then = proc[p].then].pc = pc
      BY DEF Working, Off
    <3> QED
      BY <3>2, <3>3
  <2>12. CASE DeleteOther(p) \/ DeleteCurrent(p)
    BY <1>0, <2>12 DEF DeleteOther, DeleteCurrent, Processes
  <2>13. CASE DeleteLock(p)
    BY <1>0, <1>4, <2>13 DEF DeleteLock, Processes
  <2>14. CASE Match(p)
    BY <1>0, <2>14 DEF Match, Processes
  <2>15. CASE Unlink(p)
    <3>1. PICK b \in Processes : b = Back(p)
      BY <1>0, BackKeeps DEF LockInv
    <3>2. proc'[p] = b \/ proc'[p] = [b EXCEPT !.pc = "renew"]
      BY <1>0, <2>15, <3>1 DEF Unlink
    <3>3. [b EXCEPT !.pc = "renew"].pc = "renew"
      BY DEF Processes
    <3> QED
      BY <1>4, <3>1, <3>2, <3>3
  <2> QED
    BY <2>1, <2>a, <2>2, <2>3, <2>4, <2>b, <2>5, <2>6, <2>7, <2>c, <2>d, <2>8, <2>9, <2>10, <2>11,
       <2>12, <2>13, <2>14, <2>15
<1> QED
  BY <1>1, <1>3, <1>5

\* Without others between their own steps, nobody is about to write the pointer.
LEMMA AloneIsAlone ==
  ASSUME NEW p \in Procs, NEW q \in Procs \ {p}, ~Overlap(p)
  PROVE  proc[q].pc \notin {"point", "repoint"}
BY DEF Overlap, Writing

\* A step after which one process at most is about to write the pointer.
LEMMA WriterKeepsNewest ==
  ASSUME NEW p \in Procs, \A q \in Procs \ {p} : proc'[q] = proc[q],
         torn' = FALSE => ~Overlap(p),
         proc'[p].pc # "repoint",
         torn' = FALSE /\ proc'[p].pc = "point" => First(proc[p].cur)',
         torn' = FALSE /\ proc'[p].pc # "point" /\ last' # None /\ files'[last'] # <<>>
           => First(last)'
  PROVE  NewestInv'
<1> SUFFICES ASSUME torn' = FALSE
             PROVE  /\ \A q \in Procs : proc'[q].pc = "point" => First(proc[q].cur)'
                    /\ \A q \in Procs : proc'[q].pc = "repoint" => First(proc[q].arg)'
                    /\ (\A q \in Procs : proc'[q].pc # "point") =>
                           (last' # None /\ files'[last'] # <<>> => First(last)')
  BY DEF NewestInv, First
<1>1. \A q \in Procs \ {p} : proc'[q].pc \notin {"point", "repoint"}
  BY AloneIsAlone
<1> QED
  BY <1>1

LEMMA StepKeepsNewest ==
  ASSUME LockInv, FileInv, torn \in BOOLEAN, NewestInv, NEW p \in Procs, Step(p)
  PROVE  NewestInv'
<1>0. /\ proc[p] \in Processes /\ ProcessShape(proc[p]) /\ proc \in [Procs -> Processes]
      /\ order \in Seq(Ids) /\ IsInjective(order) /\ ToSet(order) = Stored
      /\ files \in [Ids -> Seq(Nat)] /\ last \in Ids \cup {None}
  BY DEF LockInv, LockTypes, FileInv
<1>1. CASE \/ Start(p) \/ Resolve(p) \/ LoadPointer(p) \/ LoadNamed(p)
           \/ LoadHolds(p) \/ LoadHeld(p) \/ LoadLock(p) \/ Prompt(p) \/ EnsureLock(p) \/ Attach(p)
           \/ EndTurn(p) \/ SaveFirst(p) \/ SaveFails(p) \/ Renew(p)
           \/ DeleteOther(p) \/ DeleteCurrent(p) \/ DeleteHolds(p) \/ DeleteLock(p)
           \/ Match(p) \/ Release(p) \/ Unlink(p)
  <2>1. /\ \A q \in Procs \ {p} : proc'[q] = proc[q]
        /\ UNCHANGED <<files, order, last, torn>> /\ proc[p].pc # "point"
        /\ proc'[p].pc \notin {"point", "repoint"}
    BY <1>1, StepPlain
  <2> QED
    BY <2>1, PlainKeepsNewest
<1>2. CASE LoadNewest(p)
  <2>1. UNCHANGED <<files, order, last, torn>> /\ proc[p].pc # "point"
    BY <1>2 DEF LoadNewest
  <2>2. PICK b : b = Back(p) /\ b.pc \in {"off", "idle"}
    <3>1. Back(p) = Off \/ Back(p).pc = "idle"
      BY BackGoes
    <3> QED
      BY <3>1 DEF Off
  <2>3. CASE proc' = [proc EXCEPT ![p] = b]
    <3>1. proc'[p] = b /\ \A q \in Procs \ {p} : proc'[q] = proc[q]
      BY <2>3, Becomes
    <3> QED
      BY <2>1, <2>2, <3>1, PlainKeepsNewest
  <2>4. ASSUME NEW id \in Ids, Newest(id),
               proc' = [proc EXCEPT ![p] =
                         [proc[p] EXCEPT !.arg = id, !.got = files[id], !.pc = "repoint"]]
        PROVE  NewestInv'
    <3>1. PICK r : r = [proc[p] EXCEPT !.arg = id, !.got = files[id], !.pc = "repoint"]
      OBVIOUS
    <3>2. proc' = [proc EXCEPT ![p] = r]
      BY <2>4, <3>1
    <3>3. proc'[p] = r /\ \A q \in Procs \ {p} : proc'[q] = proc[q]
      BY <3>2, Becomes
    <3>4. r.pc = "repoint" /\ r.arg = id
      BY <1>0, <3>1 DEF Processes
    <3>5. First(id)
      BY <1>0, <2>4, NewestIsFirst DEF First
    <3> QED
      BY <2>1, <3>3, <3>4, <3>5, PlainKeepsNewest
  <2> QED
    BY <1>0, <1>2, <2>2, <2>3, <2>4 DEF LoadNewest
<1>3. CASE Crash(p)
  <2>1. UNCHANGED <<files, order, last>> /\ torn' = (torn \/ proc[p].pc \in Writing)
        /\ proc' = [proc EXCEPT ![p] = Off]
    BY <1>3 DEF Crash
  <2>2. (torn' = FALSE => torn = FALSE) /\ (torn' = FALSE => proc[p].pc # "point")
    BY <2>1 DEF Writing
  <2>3. proc'[p].pc = "off" /\ \A q \in Procs \ {p} : proc'[q] = proc[q]
    <3>1. proc'[p] = Off /\ \A q \in Procs \ {p} : proc'[q] = proc[q]
      BY <2>1, Becomes
    <3> QED
      BY <3>1 DEF Off
  <2> QED
    BY <2>1, <2>2, <2>3, PlainKeepsNewest
<1>4. CASE PointFails(p)
  BY <1>4 DEF PointFails, NewestInv
<1>5. CASE Repoint(p) \/ Unpoint(p)
  <2>1. PICK pc \in {"load", "release"} : proc' = [proc EXCEPT ![p] = [proc[p] EXCEPT !.pc = pc]]
    BY <1>0, <1>5 DEF Repoint, Unpoint
  <2>2. proc'[p].pc = pc /\ \A q \in Procs \ {p} : proc'[q] = proc[q]
    BY <1>0, <2>1 DEF Processes
  <2>3. UNCHANGED <<files, order>> /\ torn' = (torn \/ Overlap(p))
    BY <1>5 DEF Repoint, Unpoint
  <2>4. torn' = FALSE => torn = FALSE /\ ~Overlap(p)
    BY <2>3
  <2>5. \/ last' = last \/ last' = None
        \/ proc[p].pc = "repoint" /\ last' = proc[p].arg
    BY <1>5 DEF Repoint, Unpoint
  <2>6. ASSUME torn' = FALSE, last' # None, files'[last'] # <<>> PROVE First(last)'
    <3>1. CASE last' = last
      <4>1. \A q \in Procs : proc[q].pc # "point"
        BY <1>5, <2>4, <2>6, AloneIsAlone DEF Repoint, Unpoint
      <4> QED
        BY <2>3, <2>4, <2>6, <3>1, <4>1 DEF NewestInv, First
    <3>2. CASE proc[p].pc = "repoint" /\ last' = proc[p].arg
      BY <2>3, <2>4, <2>6, <3>2 DEF NewestInv, First
    <3> QED
      BY <2>5, <2>6, <3>1, <3>2
  <2> QED
    BY <2>1, <2>2, <2>4, <2>6, WriterKeepsNewest
<1>6. CASE Point(p)
  <2>1. PICK a : a = AfterSave(p, TRUE)
    OBVIOUS
  <2>2. a.pc \notin {"point", "repoint"}
    <3>1. a = Off \/ a.pc \in {"idle", "turn", "pick", "renew"}
      BY <1>6, <2>1, AfterSaveGoes DEF Point
    <3> QED
      BY <3>1 DEF Off
  <2>3. proc'[p] = a /\ \A q \in Procs \ {p} : proc'[q] = proc[q]
    <3>1. proc' = [proc EXCEPT ![p] = a]
      BY <1>6, <2>1 DEF Point
    <3> QED
      BY <3>1, Becomes
  <2>4. PICK id \in Ids : id = proc[p].cur
    BY <1>0, <1>6 DEF Point, ProcessShape
  <2>5. /\ UNCHANGED <<files, order>> /\ last' = id
        /\ torn' = (Overlap(p) \/ (torn /\ ~Newest(id)))
    BY <1>6, <2>4 DEF Point, Pointer
  <2>6. torn' = FALSE => ~Overlap(p) /\ (torn = FALSE \/ Newest(id))
    BY <2>5
  <2>7. torn' = FALSE => First(id)
    <3>1. torn = FALSE => First(id)
      BY <1>6, <2>4 DEF NewestInv, Point
    <3>2. Newest(id) => First(id)
      BY <1>0, NewestIsFirst DEF First
    <3> QED
      BY <2>6, <3>1, <3>2
  <2> QED
    BY <2>2, <2>3, <2>5, <2>6, <2>7, WriterKeepsNewest DEF First
<1>7. CASE Save(p)
  <2>1. PICK id \in Ids : id = proc[p].cur
    BY <1>0, <1>7 DEF Save, ProcessShape
  <2>2. PICK r : r = [proc[p] EXCEPT !.seen = proc[p].mem, !.pc = "point"]
    OBVIOUS
  <2>3. proc' = [proc EXCEPT ![p] = r]
    BY <1>0, <1>7, <2>2 DEF Save
  <2>4. proc'[p] = r /\ \A q \in Procs \ {p} : proc'[q] = proc[q]
    BY <2>3, Becomes
  <2>5. r.pc = "point" /\ r.cur = id
    BY <1>0, <2>1, <2>2 DEF Processes
  <2>6. First(id)'
    <3> DEFINE t == <<id>> \o Without(order, id)
    <3>1. t # <<>> /\ t[1] = id
      BY <1>0, SavedFirst
    <3> HIDE DEF t
    <3>2. order' = t
      BY <1>7, <2>1 DEF Save, t
    <3> QED
      BY <3>1, <3>2 DEF First
  <2>7. torn' = FALSE => ~Overlap(p)
    BY <1>7 DEF Save
  <2> QED
    BY <2>4, <2>5, <2>6, <2>7, WriterKeepsNewest DEF First
<1>8. CASE Erase(p)
  <2>1. PICK id \in Ids : id = proc[p].arg
    BY <1>0, <1>8 DEF Erase, ProcessShape, FdPoints, FdId
  <2>2. last' = last /\ torn' = (torn \/ Overlap(p)) /\ proc[p].pc = "erase"
    BY <1>8 DEF Erase
  <2>3. torn' = FALSE => torn = FALSE /\ ~Overlap(p)
    BY <2>2
  <2>4. PICK r :
          /\ proc' = [proc EXCEPT ![p] = r]
          /\ \/ /\ r.pc = "match" /\ files' = [files EXCEPT ![id] = <<>>]
                /\ order' = Without(order, id)
             \/ r.pc = "release" /\ UNCHANGED <<files, order>>
    <3>1. \/ /\ proc' = [proc EXCEPT ![p] = [proc[p] EXCEPT !.pc = "match"]]
             /\ files' = [files EXCEPT ![id] = <<>>] /\ order' = Without(order, id)
          \/ /\ proc' = [proc EXCEPT ![p] = [proc[p] EXCEPT !.ok = FALSE, !.pc = "release"]]
             /\ UNCHANGED <<files, order>>
      BY <1>0, <1>8, <2>1 DEF Erase
    <3>2. /\ [proc[p] EXCEPT !.pc = "match"].pc = "match"
          /\ [proc[p] EXCEPT !.ok = FALSE, !.pc = "release"].pc = "release"
      BY <1>0 DEF Processes
    <3> QED
      BY <3>1, <3>2
  <2>5. proc'[p] = r /\ \A q \in Procs \ {p} : proc'[q] = proc[q]
    BY <2>4, Becomes
  <2>6. ASSUME torn' = FALSE, last' # None, files'[last'] # <<>> PROVE First(last)'
    <3>1. \A q \in Procs : proc[q].pc # "point"
      BY <2>2, <2>3, <2>6, AloneIsAlone
    <3>2. CASE UNCHANGED <<files, order>>
      BY <2>2, <2>3, <2>6, <3>1, <3>2 DEF NewestInv, First
    <3>3. CASE files' = [files EXCEPT ![id] = <<>>] /\ order' = Without(order, id)
      <4>1. last \in Ids /\ last # id /\ files[last] # <<>>
        BY <1>0, <2>2, <2>6, <3>3
      <4>2. First(last)
        BY <2>2, <2>3, <2>6, <3>1, <4>1 DEF NewestInv
      <4>3. order # <<>> /\ order[1] # id /\ order[1] = last
        BY <4>1, <4>2 DEF First
      <4>4. Without(order, id) # <<>> /\ Without(order, id)[1] = order[1]
        BY <1>0, <4>3, WithoutOne
      <4> QED
        BY <2>2, <3>3, <4>3, <4>4 DEF First
    <3> QED
      BY <2>4, <3>2, <3>3
  <2> QED
    BY <2>3, <2>4, <2>5, <2>6, WriterKeepsNewest
<1> QED
  BY <1>1, <1>2, <1>3, <1>4, <1>5, <1>6, <1>7, <1>8 DEF Step

\* Once nobody writes, "goppi -c" continues the session saved last.
THEOREM NewestIsContinued == Spec => []ContinueIsNewest
<1>1. Init => NewestInv
  <2> SUFFICES ASSUME Init PROVE NewestInv
    OBVIOUS
  <2>1. last = None /\ \A p \in Procs : proc[p].pc = "off"
    BY DEF Init, Off
  <2> QED
    BY <2>1 DEF NewestInv
<1>2. LockInv /\ FileInv /\ torn \in BOOLEAN /\ NewestInv /\ [Next]_vars => NewestInv'
  <2> SUFFICES ASSUME LockInv, FileInv, torn \in BOOLEAN, NewestInv, [Next]_vars PROVE NewestInv'
    OBVIOUS
  <2>1. CASE UNCHANGED vars
    BY <2>1 DEF vars, NewestInv, First
  <2>2. CASE Next
    BY <2>2, StepKeepsNewest DEF Next
  <2> QED
    BY <2>1, <2>2
<1>3. LockInv /\ FileInv /\ torn \in BOOLEAN /\ NewestInv => ContinueIsNewest
  <2> SUFFICES ASSUME LockInv, FileInv, torn \in BOOLEAN, NewestInv, ~torn,
                      \A p \in Procs : proc[p].pc \notin Writing
               PROVE  Continued = IF order = <<>> THEN None ELSE Head(order)
    BY DEF ContinueIsNewest
  <2>1. torn = FALSE /\ \A p \in Procs : proc[p].pc # "point"
    BY DEF Writing
  <2>2. CASE last # None /\ files[last] # <<>>
    <3>1. order # <<>> /\ order[1] = last
      BY <2>1, <2>2 DEF NewestInv, First
    <3>2. Head(order) = order[1]
      <4>1. order \in Seq(Ids)
        BY DEF FileInv
      <4> QED
        BY <3>1, <4>1, HeadTailProperties
    <3> QED
      BY <2>2, <3>1, <3>2 DEF Continued
  <2>3. CASE ~(last # None /\ files[last] # <<>>)
    BY <2>3 DEF Continued
  <2> QED
    BY <2>2, <2>3
<1> QED
  BY <1>1, <1>2, <1>3, LocksInOrder, FilesInOrder, TornIsBoolean, PTL DEF Spec
=============================================================================
